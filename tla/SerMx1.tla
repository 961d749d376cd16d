------------------------------- MODULE SerMx1 -------------------------------
(***************************************************************************)
(* Output of the serial driver (devc/sermx1): tto, which io-char calls to  *)
(* move characters from the output buffer to the UART, ser_stty, which     *)
(* waits for the UART to drain and resets it, and the interrupt handler,   *)
(* which turns the transmit interrupt off and asks for tto.  The handler   *)
(* runs between any two accesses of a call to the registers.  io-char      *)
(* (external) makes one call at a time; its tti takes what the handler     *)
(* reports of flow control, and its timer tx_tmr calls tto when no         *)
(* transmit interrupt came.  Characters are counted.                       *)
(***************************************************************************)
EXTENDS Integers

CONSTANTS
  MaxOut,      \* size of the output buffer
  TxLevel      \* TRDY is up while the FIFO holds this many or fewer

ASSUME SerAssumption == MaxOut \in Nat /\ TxLevel \in Nat

VARIABLES
  ohflow,            \* OHFLOW is set (hardware flow control), else XON/XOFF
  obuf, fifo,        \* characters in the buffer, and in the FIFO
  TRDYEN,            \* bit of CR1
  cts, RTSD,         \* the line, and that it changed (external, status)
  paged, override,   \* OHW_PAGED or OSW_PAGED, OSW_PAGED_OVERRIDE
  EVENT_TTO, EVENT_QUEUED,
  tx_tmr,            \* the timer for a lost transmit interrupt runs
  tto_call, cr1,     \* where the thread of io-char is, and what it read
  unseen,            \* the last change of cts was cleared unseen
  wiped              \* characters in the FIFO when the UART was reset

serVars == <<ohflow, obuf, fifo, TRDYEN, cts, RTSD, paged, override, EVENT_TTO,
             EVENT_QUEUED, tx_tmr, tto_call, cr1, unseen, wiped>>

SerInit ==
  /\ ohflow \in BOOLEAN /\ obuf = 0 /\ fifo = 0 /\ TRDYEN = FALSE
  /\ cts = TRUE /\ RTSD = FALSE /\ paged = FALSE /\ override = FALSE
  /\ EVENT_TTO = FALSE /\ EVENT_QUEUED = FALSE /\ tx_tmr = FALSE
  /\ tto_call = "none" /\ cr1 = FALSE /\ unseen = FALSE /\ wiped = 0

TRDY == fifo <= TxLevel
-----------------------------------------------------------------------------
(***************************************************************************)
(* The line and the transmitter (external).                                *)
(***************************************************************************)
Line ==
  /\ ohflow
  /\ cts' = ~cts /\ RTSD' = TRUE /\ unseen' = FALSE
  /\ UNCHANGED <<ohflow, obuf, fifo, TRDYEN, paged, override, EVENT_TTO, EVENT_QUEUED, tx_tmr, tto_call, cr1, wiped>>

Shift ==
  /\ fifo > 0 /\ cts
  /\ fifo' = fifo - 1
  /\ UNCHANGED <<ohflow, obuf, TRDYEN, cts, RTSD, paged, override, EVENT_TTO, EVENT_QUEUED, tx_tmr, tto_call, cr1, unseen, wiped>>
-----------------------------------------------------------------------------
(***************************************************************************)
(* ser_intr.  It runs for received characters (rx), for TRDY where that is *)
(* enabled and for a change of cts, and looks at all three.  TRDYEN stays  *)
(* off until tto has written; cts is read before its change is cleared,    *)
(* and may change in between (late).                                       *)
(***************************************************************************)
SerInterrupt ==
  \E rx \in {"none", "char", "xon", "xoff"}, late \in BOOLEAN :
    LET ms    == RTSD /\ ohflow
        calls == TRDY \/ (ms /\ cts) \/ rx = "xon"   \* for tto
    IN
    /\ rx # "none" \/ (TRDYEN /\ TRDY) \/ ms
    /\ (rx \in {"xon", "xoff"}) => ~ohflow
    /\ late => ms
    /\ TRDYEN' = (TRDYEN /\ ~TRDY) /\ tx_tmr' = (tx_tmr /\ ~TRDY)
    /\ paged' = IF ms THEN ~cts ELSE (paged \/ rx = "xoff") /\ rx # "xon"
    /\ EVENT_TTO' = (EVENT_TTO \/ calls)
    /\ EVENT_QUEUED' \in {TRUE, EVENT_QUEUED \/ calls}
    /\ RTSD' = (RTSD /\ ~ms)
    /\ cts' = (cts # late) /\ unseen' = (unseen \/ late)
    /\ UNCHANGED <<ohflow, obuf, fifo, override, tto_call, cr1, wiped>>
-----------------------------------------------------------------------------
(***************************************************************************)
(* io-char (external): a client writes, a control character is put before  *)
(* what waits, the event thread looks at the flags, the timer runs out.    *)
(***************************************************************************)
Write ==
  /\ tto_call = "none" /\ obuf < MaxOut
  /\ obuf' = obuf + 1 /\ tto_call' = "loop"
  /\ UNCHANGED <<ohflow, fifo, TRDYEN, cts, RTSD, paged, override, EVENT_TTO, EVENT_QUEUED, tx_tmr, cr1, unseen, wiped>>

Inject ==
  /\ tto_call = "none" /\ ~ohflow /\ obuf < MaxOut
  /\ obuf' = obuf + 1 /\ override' = TRUE /\ tto_call' = "loop"
  /\ UNCHANGED <<ohflow, fifo, TRDYEN, cts, RTSD, paged, EVENT_TTO, EVENT_QUEUED, tx_tmr, cr1, unseen, wiped>>

Event ==
  /\ tto_call = "none" /\ EVENT_QUEUED
  /\ EVENT_QUEUED' = FALSE /\ EVENT_TTO' = FALSE
  /\ tto_call' = IF EVENT_TTO THEN "loop" ELSE "none"
  /\ UNCHANGED <<ohflow, obuf, fifo, TRDYEN, cts, RTSD, paged, override, tx_tmr, cr1, unseen, wiped>>

TxTimeout ==
  /\ tto_call = "none" /\ tx_tmr
  /\ tx_tmr' = FALSE /\ tto_call' = "loop"
  /\ UNCHANGED <<ohflow, obuf, fifo, TRDYEN, cts, RTSD, paged, override, EVENT_TTO, EVENT_QUEUED, cr1, unseen, wiped>>
-----------------------------------------------------------------------------
(***************************************************************************)
(* tto, for TTO_DATA and TTO_EVENT: characters go out while there is room  *)
(* and output is not suspended, then the interrupt is turned on for the    *)
(* rest.  While it is suspended, an injected character goes out alone.     *)
(***************************************************************************)
MaySend == obuf > 0 /\ TRDY /\ (~paged \/ override)

SendChar ==
  /\ tto_call = "loop" /\ MaySend
  /\ obuf' = obuf - 1 /\ fifo' = fifo + 1 /\ tx_tmr' = TRUE
  /\ override' = FALSE /\ tto_call' = IF override THEN "rest" ELSE "loop"
  /\ UNCHANGED <<ohflow, TRDYEN, cts, RTSD, paged, EVENT_TTO, EVENT_QUEUED, cr1, unseen, wiped>>

LoopEnds ==
  /\ tto_call = "loop" /\ ~MaySend
  /\ tto_call' = "rest"
  /\ UNCHANGED <<ohflow, obuf, fifo, TRDYEN, cts, RTSD, paged, override, EVENT_TTO, EVENT_QUEUED, tx_tmr, cr1, unseen, wiped>>

(* Mutant: the interrupt is turned on only if the FIFO took all it could. *)
RestFull == ~paged /\ obuf > 0 /\ ~TRDY

RestWaits == ~paged /\ obuf > 0

ReadCr1 ==
  /\ tto_call = "rest"
  /\ cr1' = TRDYEN /\ tto_call' = IF RestWaits THEN "enable" ELSE "none"
  /\ UNCHANGED <<ohflow, obuf, fifo, TRDYEN, cts, RTSD, paged, override, EVENT_TTO, EVENT_QUEUED, tx_tmr, unseen, wiped>>

(* The value read is written back with the bit: what the handler cleared   *)
(* in between is set again.                                                *)
EnableTrdy ==
  /\ tto_call = "enable"
  /\ TRDYEN' = TRUE /\ tto_call' = "none"
  /\ UNCHANGED <<ohflow, obuf, fifo, cts, RTSD, paged, override, EVENT_TTO, EVENT_QUEUED, tx_tmr, cr1, unseen, wiped>>

(* TTO_CTRL: the break bit is changed in a copy of CR1. *)
Ctrl ==
  /\ \/ tto_call = "none" /\ tto_call' = "ctrl" /\ cr1' = TRDYEN /\ UNCHANGED TRDYEN
     \/ tto_call = "ctrl" /\ tto_call' = "none" /\ TRDYEN' = cr1 /\ UNCHANGED cr1
  /\ UNCHANGED <<ohflow, obuf, fifo, cts, RTSD, paged, override, EVENT_TTO, EVENT_QUEUED, tx_tmr, unseen, wiped>>
-----------------------------------------------------------------------------
(***************************************************************************)
(* TTO_STTY: new parameters.  The wait ends when the FIFO and the shift    *)
(* register are empty; the reset empties them and sets CR1 anew, without   *)
(* the transmit interrupt.  One that is pending is served first: there is  *)
(* one processor, and no call disables interrupts.                         *)
(***************************************************************************)
Stty ==
  /\ tto_call = "none"
  /\ tto_call' = "drain"
  /\ UNCHANGED <<ohflow, obuf, fifo, TRDYEN, cts, RTSD, paged, override, EVENT_TTO, EVENT_QUEUED, tx_tmr, cr1, unseen, wiped>>

Drained == fifo = 0

SttyReset ==
  /\ tto_call = "drain" /\ Drained /\ ~(TRDYEN /\ TRDY)
  /\ wiped' = fifo /\ fifo' = 0 /\ TRDYEN' = FALSE /\ tto_call' = "none"
  /\ UNCHANGED <<ohflow, obuf, cts, RTSD, paged, override, EVENT_TTO, EVENT_QUEUED, tx_tmr, cr1, unseen>>

SerNext ==
  \/ Line \/ Shift \/ SerInterrupt
  \/ Write \/ Inject \/ Event \/ TxTimeout
  \/ SendChar \/ LoopEnds \/ ReadCr1 \/ EnableTrdy \/ Ctrl \/ Stty \/ SttyReset

SerSpec == SerInit /\ [][SerNext]_serVars
-----------------------------------------------------------------------------
(* Every variable has its type.                                           *)
SerTypeOK ==
  /\ obuf \in 0 .. MaxOut /\ fifo \in 0 .. TxLevel + 1 /\ wiped \in 0 .. TxLevel + 1
  /\ tto_call \in {"none", "loop", "rest", "enable", "ctrl", "drain"}
  /\ ohflow \in BOOLEAN /\ TRDYEN \in BOOLEAN /\ cts \in BOOLEAN /\ RTSD \in BOOLEAN
  /\ paged \in BOOLEAN /\ override \in BOOLEAN /\ EVENT_TTO \in BOOLEAN
  /\ EVENT_QUEUED \in BOOLEAN /\ tx_tmr \in BOOLEAN /\ cr1 \in BOOLEAN /\ unseen \in BOOLEAN

(* The suspension follows the line, but for a change the handler has still *)
(* to see or has cleared unseen.                                           *)
FlowKnown == (ohflow /\ ~RTSD /\ ~unseen) => (paged = ~cts)

SomethingCalls ==
  \/ TRDYEN \/ (EVENT_TTO /\ EVENT_QUEUED) \/ tx_tmr

(* Output never stalls: when no call is in progress and characters wait    *)
(* that may be sent, an interrupt, an event that is queued, or the timer   *)
(* will call tto, although the handler turns the interrupt off and a       *)
(* change of parameters forgets that it was on; the reset of the UART      *)
(* wipes no character out; and output that is suspended is so because the  *)
(* other side asked for it.                                                *)
OutputGoesOn ==
  /\ SerTypeOK
  /\ (tto_call = "none" /\ obuf > 0 /\ ~paged) => SomethingCalls
  /\ wiped = 0
  /\ FlowKnown
=============================================================================
