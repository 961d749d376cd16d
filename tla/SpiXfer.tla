------------------------------ MODULE SpiXfer ------------------------------
(***************************************************************************)
(* A transfer of the i.MX35 SPI driver (mx35_xfer of mxcspi.c, spi_intr of *)
(* intr.c, mx35_wait of wait.c): the thread fills the transmit FIFO and    *)
(* waits for a pulse or a timeout; the interrupt handler empties the       *)
(* receive FIFO into the buffer the bytes are sent from and refills.       *)
(*                                                                         *)
(* A byte is named by its transfer and its place in it, so that a byte of  *)
(* an older transfer, or one not yet replaced by the reply, shows.  The    *)
(* handler runs while the controller has nothing to exchange and the       *)
(* thread stands still: it is one step, and so is an exchange.             *)
(***************************************************************************)
EXTENDS Integers, Sequences, FiniteSets

CONSTANTS
  Lengths,      \* lengths a client may ask for
  dlens,        \* bytes of a word: 1, 2 or 4
  MaxXfers,     \* bound: transfers
  MaxTimeouts   \* bound: timeouts of mx35_wait

FIFO == 8        \* words of each FIFO
BURST_MAX == 32  \* MX35_CSPI_BURST_MAX

ASSUME SpiAssumption ==
  /\ dlens \subseteq {1, 2, 4}
  /\ Lengths \subseteq Nat \ {0}
  /\ MaxXfers \in Nat /\ MaxTimeouts \in Nat

VARIABLES
  burst,            \* dev->burst: 32 bytes a burst, else one word at a time
  xfer,             \* number of the transfer
  place,            \* of the thread: idle, waiting, or late: the wait has timed out
  xlen, tlen, rlen, dlen,
  buf,              \* dev->pbuf
  txfifo, rxfifo,   \* words in the FIFOs
  xch,              \* CONREG.XCH: an exchange is under way
  tcen, tc,         \* INTREG.TCEN, STATREG.TC
  spiPulses,        \* pulses in the channel of the driver
  timeouts,
  len               \* what the last transfer returned, or 0

fifoVars == <<txfifo, rxfifo, xch, tc>>
spiVars  == <<burst, xfer, place, xlen, tlen, rlen, dlen, buf, fifoVars, tcen, spiPulses,
              timeouts, len>>

SpiInit ==
  /\ burst \in BOOLEAN
  /\ xfer = 0 /\ place = "idle"
  /\ xlen = 0 /\ tlen = 0 /\ rlen = 0 /\ dlen = 1
  /\ buf = <<>>
  /\ txfifo = <<>> /\ rxfifo = <<>> /\ xch = FALSE /\ tc = FALSE
  /\ tcen = FALSE /\ spiPulses = 0 /\ timeouts = 0 /\ len = 0

Smaller(a, b) == IF a < b THEN a ELSE b

(* What is no byte of a transfer: padding, and what lies outside a buffer. *)
NoByte == <<"none", 0, 0>>

Byte(b, k) == IF k \in DOMAIN b THEN b[k] ELSE NoByte

(* The bytes of b from offset t on, n of them; offsets start at 0. *)
Bytes(b, t, n) == [k \in 1 .. n |-> Byte(b, t + k)]

(***************************************************************************)
(* Words for the transmit FIFO from offset t of x bytes, at most room of   *)
(* them.  In burst mode the odd bytes of the last burst go first, in a     *)
(* word of their own.                                                      *)
(***************************************************************************)
Odd(n) == IF burst /\ n < BURST_MAX THEN n % 4 ELSE 0

WordLen(d) == IF burst THEN 4 ELSE d

Whole(t, x, d, room) == Smaller(room, (x - t - Odd(x - t)) \div WordLen(d))

Words(b, t, x, d, room) ==
  LET o == Odd(x - t)
  IN  (IF o > 0 THEN <<Bytes(b, t, o)>> ELSE <<>>)
        \o [i \in 1 .. Whole(t, x, d, room) |->
              Bytes(b, t + o + (i - 1) * WordLen(d), WordLen(d))]

(* tlen once they are in the FIFO. *)
Filled(t, x, d, room) == t + Odd(x - t) + Whole(t, x, d, room) * WordLen(d)

(***************************************************************************)
(* mx35_xfer, up to the wait.  Only the receive FIFO is emptied first.     *)
(***************************************************************************)
(* Mutant: one word more than the FIFO holds. *)
FirstFillNine == FIFO + 1

FirstFill == FIFO

Fresh(x, n) == [k \in 1 .. n |-> <<"tx", x, k>>]

Xfer(x, d) ==
  /\ place = "idle" /\ xfer < MaxXfers
  /\ x % d = 0
  /\ place' = "wait"
  /\ xfer' = xfer + 1
  /\ xlen' = x /\ dlen' = d /\ rlen' = 0 /\ len' = 0
  /\ buf' = Fresh(xfer + 1, x)
  /\ txfifo' = txfifo \o Words(Fresh(xfer + 1, x), 0, x, d, FirstFill)
  /\ tlen' = Filled(0, x, d, FirstFill)
  /\ rxfifo' = <<>>
  /\ tcen' = TRUE /\ xch' = TRUE
  /\ UNCHANGED <<burst, tc, spiPulses, timeouts>>

(***************************************************************************)
(* The controller (external) exchanges every word of the transmit FIFO for *)
(* a reply, and sets TC.  A short word arrives in the low bytes of a word. *)
(* Only a byte the client gave has a reply: one received and sent back has *)
(* none.                                                                   *)
(***************************************************************************)
Reply(v) == IF v[1] = "tx" THEN <<"rx", v[2], v[3]>> ELSE NoByte

ReplyWord(w) ==
  [k \in 1 .. (IF burst THEN 4 - Len(w) ELSE 0) |-> NoByte] \o [k \in DOMAIN w |-> Reply(w[k])]

Exchange ==
  /\ xch /\ txfifo # <<>>
  /\ rxfifo' = rxfifo \o [i \in DOMAIN txfifo |-> ReplyWord(txfifo[i])]
  /\ txfifo' = <<>>
  /\ xch' = FALSE /\ tc' = TRUE
  /\ UNCHANGED <<burst, xfer, place, xlen, tlen, rlen, dlen, buf, tcen, spiPulses, timeouts, len>>

(***************************************************************************)
(* spi_intr: the transmit FIFO is refilled, in burst mode for the next     *)
(* burst, else with a word for each word received; the words received go   *)
(* to the buffer; the pulse is sent when everything is received.           *)
(***************************************************************************)
(* The bytes of the words ws; of every word the handler stores as many as  *)
(* this transfer's words have, the low ones.                               *)
Received(ws) ==
  LET W == WordLen(dlen)
  IN  [k \in 1 .. Len(ws) * W |-> Byte(ws[(k - 1) \div W + 1], 1 + ((k - 1) % W))]

(* bytes written to offset r of b; what lies before its start is not kept. *)
Stored(b, r, bs) ==
  [k \in 1 .. IF Len(b) > r + Len(bs) THEN Len(b) ELSE r + Len(bs) |->
     IF k > r /\ k <= r + Len(bs) THEN bs[k - r]
     ELSE Byte(b, k)]

(* rlen after n bytes more. *)
Counted(n) == n

Room == IF burst THEN FIFO ELSE Len(rxfifo)

More(b) == IF tlen < xlen THEN Words(b, tlen, xlen, dlen, Room) ELSE <<>>

Sent == IF tlen < xlen THEN Filled(tlen, xlen, dlen, Room) ELSE tlen

Finished == rlen' >= xlen

Intr ==
  /\ tc /\ tcen
  /\ LET bs == Received(rxfifo)
     IN  /\ buf' = Stored(buf, rlen, bs)
         /\ rlen' = Counted(rlen + Len(bs))
  /\ txfifo' = txfifo \o More(buf)
  /\ tlen' = Sent
  /\ rxfifo' = <<>> /\ tc' = FALSE
  /\ tcen' = ~Finished
  /\ spiPulses' = IF Finished THEN spiPulses + 1 ELSE spiPulses
  /\ xch' = (xch \/ ~Finished)
  /\ UNCHANGED <<burst, xfer, place, xlen, dlen, timeouts, len>>

(***************************************************************************)
(* mx35_wait returns, and mx35_xfer with it.  In burst mode the odd bytes  *)
(* of the last burst lie behind the padding of their word, and everything  *)
(* from the start of that burst is moved down.                             *)
(***************************************************************************)
(* Mutant: the padding stays. *)
PaddingKept == 0

Padding == IF burst /\ xlen % 4 > 0 THEN 4 - (xlen % 4) ELSE 0

LastBurst == (xlen \div BURST_MAX) * BURST_MAX

Unpadded ==
  [k \in DOMAIN buf |->
     IF k > LastBurst /\ k <= xlen /\ k + Padding \in DOMAIN buf
       THEN buf[k + Padding] ELSE buf[k]]

Return(r) ==
  /\ place' = "idle"
  /\ buf' = Unpadded
  /\ rlen' = r - Padding
  /\ len' = r - Padding
  /\ UNCHANGED <<burst, xfer, xlen, tlen, dlen, fifoVars, tcen>>

XferDone ==
  /\ place = "wait" /\ spiPulses > 0
  /\ spiPulses' = spiPulses - 1
  /\ Return(rlen)
  /\ UNCHANGED timeouts

(* Mutant: only transfers longer than a burst are timed. *)
ArmedLong == xlen > BURST_MAX

(* The timeout is armed for every transfer that is not empty. *)
Armed == xlen > 0

WaitTimesOut ==
  /\ place = "wait" /\ spiPulses = 0 /\ Armed
  /\ timeouts < MaxTimeouts
  /\ timeouts' = timeouts + 1
  /\ place' = "late"
  /\ UNCHANGED <<burst, xfer, xlen, tlen, rlen, dlen, buf, fifoVars, tcen, spiPulses, len>>

(* Neither the interrupt nor the exchange is stopped, and a pulse sent     *)
(* since the timeout stays in the channel.                                 *)
XferTimeout ==
  /\ place = "late"
  /\ Return(-1)
  /\ UNCHANGED <<spiPulses, timeouts>>

SpiNext ==
  \/ \E x \in Lengths, d \in dlens : Xfer(x, d)
  \/ Exchange \/ Intr \/ XferDone
  \/ WaitTimesOut \/ XferTimeout

SpiSpec == SpiInit /\ [][SpiNext]_spiVars

(* Only the thread and its timer go on: the controller may stand still.    *)
SpiFairness == WF_spiVars(XferDone \/ WaitTimesOut) /\ WF_spiVars(XferTimeout)

SpiFairSpec == SpiSpec /\ SpiFairness
-----------------------------------------------------------------------------
(* Lengths and counts stay in range; in burst mode the handler stores      *)
(* whole words and may pass xlen by the padding of one.                    *)
SpiTypeOK ==
  /\ burst \in BOOLEAN /\ place \in {"idle", "wait", "late"} /\ dlen \in dlens \cup {1}
  /\ xch \in BOOLEAN /\ tc \in BOOLEAN /\ tcen \in BOOLEAN
  /\ timeouts \in 0 .. MaxTimeouts
  /\ timeouts = 0 => tlen \in 0 .. xlen /\ rlen \in 0 .. xlen + 3 /\ len \in 0 .. xlen

(* The handler keeps up with the controller, as long as nothing timed out: *)
(* neither FIFO ever holds more words than it has places (mx35_xfer        *)
(* empties only the receive FIFO first), and while a transfer waits, its   *)
(* pulse is there or the controller or its interrupt has work to do that   *)
(* leads to it - the refills never run dry before the last byte.  In the   *)
(* channel a transfer leaves at most one pulse behind, and only when it    *)
(* timed out.                                                              *)
HandlerKeepsUp ==
  /\ SpiTypeOK
  /\ timeouts = 0 =>
       /\ Len(txfifo) <= FIFO /\ Len(rxfifo) <= FIFO
       /\ place = "wait" => spiPulses = 1 \/ (tcen /\ (tc \/ (xch /\ txfifo # <<>>)))
  /\ spiPulses <= timeouts + (IF place = "wait" THEN 1 ELSE 0)

(* A transfer that returns a length returns all of it, and every byte of   *)
(* the buffer has been replaced by the reply to that byte of this transfer *)
(* - across bursts, odd lengths and the buffer being sent from and         *)
(* received into.                                                          *)
ResultRight ==
  (place = "idle" /\ len > 0 /\ timeouts = 0) =>
    len = xlen /\ \A k \in 1 .. xlen : buf[k] = <<"rx", xfer, k>>

(* Every transfer returns, even if the controller stops in its middle.     *)
EveryXferReturns == place # "idle" ~> place = "idle"
=============================================================================
