------------------------------ MODULE CanMx35 ------------------------------
(***************************************************************************)
(* The CAN driver dev-can-mx35 (canmx35.c, and mdriver_init_data of        *)
(* mdriver.c): FlexCAN mailboxes, their interrupt flags, one message list  *)
(* per mailbox, the interrupt handler and the resource manager thread.     *)
(*                                                                         *)
(* The processor has one core, so the thread stands still while the        *)
(* handler runs; the controller does not.  A step of the handler is the    *)
(* work between two accesses to a register the controller also writes.     *)
(* A message is its number in the order of its mailbox: of arrival for a   *)
(* receive mailbox, of writing for a transmit mailbox.                     *)
(***************************************************************************)
EXTENDS Integers, FiniteSets, Sequences

CONSTANTS
  numrx,      \* receive mailboxes are 0 .. numrx - 1
  numtx,      \* transmit mailboxes follow them
  msgnum,     \* length of a message list
  MaxMsgs,    \* bound: messages that arrive at, or are written to, each mailbox
  Buffered,   \* receive mailbox, or -1, of each message the mini-driver buffered
  Errors      \* interrupt flags of CANESR

ASSUME CanAssumption ==
  /\ numrx \in Nat /\ numtx \in Nat /\ msgnum \in Nat \ {0}
  /\ MaxMsgs \in [0 .. numrx + numtx - 1 -> Nat]
  /\ Buffered \in Seq({-1} \cup (0 .. numrx - 1))

RxMb == 0 .. numrx - 1
TxMb == numrx .. numrx + numtx - 1
Mb   == RxMb \cup TxMb

VARIABLES
  canmcf,      \* code of the message buffer of a mailbox
  candata,     \* the message in the message buffer
  iflag1,      \* CANIFLAG1: receive mailboxes with an interrupt pending
  iflag2,      \* CANIFLAG2: transmit mailboxes with an interrupt pending
  imask,       \* CANIMASK1 and 2: mailboxes whose flags interrupt
  esr,         \* interrupt flags set in CANESR
  canestat,    \* error flags kept for CAN_DEVCTL_ERROR
  msg_list,    \* message list of each mailbox, tail (oldest) first
  dflags,      \* mailboxes with CANDEV_RINGO_TX_ENABLED
  isr,         \* place in can_intr, "off" when it does not run
  irqsrc1, irqsrc2, oflag_rx, estat, mbxid,   \* locals of can_intr
  thread,      \* place of the resource manager thread
  tmb,         \* the mailbox it works on
  txmsg,       \* message can_drvr_transmit has taken from the list, or 0
  mcf,         \* code in the control word SET_PRIO has read, or "none"
  stale,       \* a control word was written back that had changed meanwhile
  mi,          \* buffered message mdriver_init_data looks at
  overwritten, \* mailboxes whose newest message it has copied an older one over
  count,       \* messages that arrived at, or were written to, a mailbox
  done         \* last message read by a client, or sent on the bus

hwVars    == <<canmcf, candata, iflag1, iflag2>>
errVars   == <<esr, canestat>>
isrVars   == <<isr, irqsrc1, irqsrc2, oflag_rx, estat, mbxid>>
devctlVars == <<imask, mcf, stale>>
mdriverVars == <<mi, overwritten>>
threadVars == <<thread, tmb, txmsg, mdriverVars, devctlVars>>
canVars   == <<hwVars, errVars, msg_list, dflags, isrVars, threadVars, count, done>>

(* Messages the mini-driver buffered for mailbox m, up to number i. *)
BufferedFor(m, i) == Cardinality({k \in 1 .. i : Buffered[k] = m})

(* create_device: mailboxes ready, lists empty, the mini-driver's messages *)
(* still to be taken over.                                                 *)
CanInit ==
  /\ canmcf = [m \in Mb |-> IF m \in RxMb THEN "EMPTY" ELSE "NOT_READY"]
  /\ candata = [m \in Mb |-> 0]
  /\ iflag1 = {} /\ iflag2 = {}
  /\ esr = {} /\ canestat = {}
  /\ msg_list = [m \in Mb |-> <<>>]
  /\ dflags = {}
  /\ isr = "off" /\ irqsrc1 = {} /\ irqsrc2 = {} /\ oflag_rx = {} /\ estat = {}
  /\ mbxid = 0
  /\ thread = "mdriver" /\ tmb = 0 /\ txmsg = 0 /\ mi = Len(Buffered) /\ overwritten = {}
  /\ imask = Mb /\ mcf = "none" /\ stale = FALSE
  /\ count = [m \in Mb |-> BufferedFor(m, Len(Buffered))]
  /\ done = [m \in Mb |-> 0]

Room(m) == Len(msg_list[m]) < msgnum

At(from, to) == isr = from /\ isr' = to

(***************************************************************************)
(* The controller (external).  A mailbox is locked from the read of its    *)
(* control word to the read of CANTIMER; a frame takes longer on the bus   *)
(* than the handler takes from can_ringo_tx to the end of its loop.        *)
(***************************************************************************)
Locked(m) == isr \in {"rx_clear", "rx_reset"} /\ mbxid = m

(* Freeze mode: CAN_DEVCTL_SET_MFILTER is at work. *)
Frozen == thread \in {"freeze", "filter", "thaw"}

HwReceive(m) ==
  /\ m \in RxMb /\ ~Locked(m) /\ ~Frozen /\ count[m] < MaxMsgs[m]
  /\ count' = [count EXCEPT ![m] = @ + 1]
  /\ candata' = [candata EXCEPT ![m] = count[m] + 1]
  /\ canmcf' = [canmcf EXCEPT ![m] = "FULL"]
  /\ iflag1' = iflag1 \cup {m}
  /\ UNCHANGED <<iflag2, errVars, msg_list, dflags, isrVars, threadVars, done>>

HwTransmit(m) ==
  /\ m \in TxMb /\ canmcf[m] = "TRANSMIT_ONCE" /\ ~Frozen
  /\ ~(isr \in {"notify_tx", "clear"} /\ mbxid = m)
  /\ done' = [done EXCEPT ![m] = candata[m]]
  /\ canmcf' = [canmcf EXCEPT ![m] = "NOT_READY"]
  /\ iflag2' = iflag2 \cup {m}
  /\ UNCHANGED <<candata, iflag1, errVars, msg_list, dflags, isrVars, threadVars, count>>

HwError(e) ==
  /\ e \in Errors \ esr
  /\ esr' = esr \cup {e}
  /\ UNCHANGED <<hwVars, canestat, msg_list, dflags, isrVars, threadVars, count, done>>

(***************************************************************************)
(* can_intr: errors.  The flags that were read are kept and cleared one by *)
(* one, and then all ones are written to CANESR.                           *)
(***************************************************************************)
Interrupt ==
  /\ At("off", "top") /\ esr = {} /\ (iflag1 \cup iflag2) \cap imask # {}
  /\ UNCHANGED <<hwVars, errVars, msg_list, dflags, irqsrc1, irqsrc2, oflag_rx,
                 estat, mbxid, threadVars, count, done>>

InterruptError ==
  /\ At("off", "errors") /\ esr # {}
  /\ estat' = esr
  /\ UNCHANGED <<hwVars, errVars, msg_list, dflags, irqsrc1, irqsrc2, oflag_rx,
                 mbxid, threadVars, count, done>>

KeepErrors ==
  /\ At("errors", "esr_clear")
  /\ canestat' = canestat \cup estat
  /\ esr' = esr \ estat
  /\ UNCHANGED <<hwVars, msg_list, dflags, irqsrc1, irqsrc2, oflag_rx,
                 estat, mbxid, threadVars, count, done>>

ClearErrors ==
  /\ At("esr_clear", "top")
  /\ esr' = {}
  /\ estat' = {}
  /\ UNCHANGED <<hwVars, canestat, msg_list, dflags, irqsrc1, irqsrc2,
                 oflag_rx, mbxid, threadVars, count, done>>

(***************************************************************************)
(* can_intr: the loop over the mailbox flags.  One mailbox is served a     *)
(* turn, the lowest receive mailbox if there is one, else the lowest       *)
(* transmit mailbox.                                                       *)
(***************************************************************************)
Lowest(S) == CHOOSE m \in S : \A k \in S : m <= k

ReadSources ==
  /\ isr = "top"
  /\ irqsrc1' = iflag1 /\ irqsrc2' = iflag2
  /\ isr' = IF iflag1 \cup iflag2 = {} THEN "off" ELSE "flags"
  /\ UNCHANGED <<hwVars, errVars, msg_list, dflags, oflag_rx, estat, mbxid,
                 threadVars, count, done>>

(* The flags are read once more.  A message taken from a full list goes no *)
(* further than can_client_check.                                          *)
ServeRx ==
  /\ isr = "flags" /\ iflag1 # {}
  /\ oflag_rx' = iflag1
  /\ mbxid' = Lowest(iflag1)
  /\ isr' = IF Room(Lowest(iflag1)) THEN "rx_clear" ELSE "notify_rx"
  /\ UNCHANGED <<hwVars, errVars, msg_list, dflags, irqsrc1, irqsrc2, estat,
                 threadVars, count, done>>

(* CANIFLAG1 is written with every flag that was read. *)
RxClear ==
  /\ At("rx_clear", "rx_reset")
  /\ iflag1' = iflag1 \ oflag_rx
  /\ UNCHANGED <<canmcf, candata, iflag2, errVars, msg_list, dflags, irqsrc1,
                 irqsrc2, oflag_rx, estat, mbxid, threadVars, count, done>>

Enqueued(m, x) == [msg_list EXCEPT ![m] = Append(@, x)]

RxReset ==
  /\ At("rx_reset", "notify_rx")
  /\ canmcf' = [canmcf EXCEPT ![mbxid] = "EMPTY"]
  /\ msg_list' = Enqueued(mbxid, candata[mbxid])
  /\ UNCHANGED <<candata, iflag1, iflag2, errVars, dflags, irqsrc1, irqsrc2,
                 oflag_rx, estat, mbxid, threadVars, count, done>>

(* can_ringo_tx. *)
RingoTx(m, x) ==
  /\ candata' = [candata EXCEPT ![m] = x]
  /\ canmcf' = [canmcf EXCEPT ![m] = "TRANSMIT_ONCE"]

(* Mutant: the end of transmission is not noted. *)
AcknowledgeOn(m) ==
  /\ msg_list' = [msg_list EXCEPT ![m] = Tail(@)]
  /\ IF Len(msg_list[m]) > 1
       THEN RingoTx(m, msg_list[m][2])
       ELSE UNCHANGED <<candata, canmcf>>
  /\ UNCHANGED dflags

(* The message sent leaves the list; the next one is sent, or transmission *)
(* ends.                                                                   *)
Acknowledge(m) ==
  /\ msg_list' = [msg_list EXCEPT ![m] = Tail(@)]
  /\ IF Len(msg_list[m]) > 1
       THEN RingoTx(m, msg_list[m][2]) /\ UNCHANGED dflags
       ELSE dflags' = dflags \ {m} /\ UNCHANGED <<candata, canmcf>>

ServeTx ==
  /\ isr = "flags" /\ iflag1 = {} /\ iflag2 # {}
  /\ iflag2' = iflag2 \ irqsrc2
  /\ mbxid' = Lowest(iflag2)
  /\ isr' = "notify_tx"
  /\ IF msg_list[Lowest(iflag2)] # <<>>
       THEN Acknowledge(Lowest(iflag2))
       ELSE UNCHANGED <<canmcf, candata, msg_list, dflags>>
  /\ UNCHANGED <<iflag1, errVars, irqsrc1, irqsrc2, oflag_rx, estat,
                 threadVars, count, done>>

(* can_client_check: an event for a blocked client ends the handler, which *)
(* the kernel calls again while the interrupt is asserted.                 *)
Notify ==
  /\ isr \in {"notify_rx", "notify_tx"}
  /\ isr' \in {"clear", "off"}
  /\ UNCHANGED <<hwVars, errVars, msg_list, dflags, irqsrc1, irqsrc2, oflag_rx,
                 estat, mbxid, threadVars, count, done>>

ClearSources ==
  /\ At("clear", "top")
  /\ iflag1' = iflag1 \ irqsrc1
  /\ iflag2' = iflag2 \ irqsrc2
  /\ UNCHANGED <<canmcf, candata, errVars, msg_list, dflags, irqsrc1, irqsrc2,
                 oflag_rx, estat, mbxid, threadVars, count, done>>

Isr ==
  \/ Interrupt \/ InterruptError \/ KeepErrors \/ ClearErrors
  \/ ReadSources \/ ServeRx \/ RxClear \/ RxReset \/ ServeTx
  \/ Notify \/ ClearSources

(***************************************************************************)
(* The resource manager thread: first mdriver_init_data, which adds the    *)
(* buffered messages backwards at the tail while the handler may already   *)
(* add new ones at the head, before each of its steps; then the clients'   *)
(* calls.                                                                  *)
(***************************************************************************)
InThread(from, to) == isr = "off" /\ thread = from /\ thread' = to

(* Mutant: the buffered messages are added in the order they came. *)
AtTailForward(m, i) == [msg_list EXCEPT ![m] = <<BufferedFor(m, Len(Buffered) + 1 - i)>> \o @]

AtTail(m, i) == [msg_list EXCEPT ![m] = <<BufferedFor(m, i)>> \o @]

TakesOver(i) == Buffered[i] # -1 /\ Room(Buffered[i])

(* msg_enqueue_mdriver_next: the slot before the oldest message, if one is *)
(* free now.                                                               *)
MdriverNext ==
  /\ mi > 0
  /\ \/ TakesOver(mi) /\ InThread("mdriver", "mcopy") /\ UNCHANGED mi
     \/ ~TakesOver(mi) /\ InThread("mdriver", "mdriver") /\ mi' = mi - 1
  /\ UNCHANGED <<hwVars, errVars, msg_list, dflags, isrVars, txmsg, tmb, overwritten,
                 devctlVars, count, done>>

(* A slot whose words are of two messages. *)
Torn == 0

(* The words are copied one by one.  If the handler has filled the list    *)
(* since, this slot is the last it took: its message, the newest, becomes  *)
(* the old one, or some words of it do when it came between two words.     *)
MdriverCopy ==
  /\ InThread("mcopy", "madd")
  /\ IF Room(Buffered[mi])
       THEN UNCHANGED <<msg_list, overwritten>>
       ELSE /\ overwritten' = overwritten \cup {Buffered[mi]}
            /\ \E x \in {BufferedFor(Buffered[mi], mi), Torn} :
                 msg_list' = [msg_list EXCEPT ![Buffered[mi]][msgnum] = x]
  /\ UNCHANGED <<hwVars, errVars, dflags, isrVars, txmsg, tmb, mi, devctlVars,
                 count, done>>

(* msg_enqueue_mdriver: nothing is added to a list that is full by now. *)
MdriverAdd ==
  /\ InThread("madd", "mdriver")
  /\ mi' = mi - 1
  /\ msg_list' = IF Room(Buffered[mi]) THEN AtTail(Buffered[mi], mi) ELSE msg_list
  /\ UNCHANGED <<hwVars, errVars, dflags, isrVars, txmsg, tmb, overwritten,
                 devctlVars, count, done>>

(* One message of the mini-driver, step by step. *)
MdriverMsg == MdriverNext \/ MdriverCopy \/ MdriverAdd

MdriverDone ==
  /\ InThread("mdriver", "serve") /\ mi = 0
  /\ UNCHANGED <<hwVars, errVars, msg_list, dflags, isrVars, txmsg, tmb,
                 mdriverVars, devctlVars, count, done>>

(* A client writes a message; the library then calls can_drvr_transmit. *)
Write(m) ==
  /\ InThread("serve", "transmit") /\ m \in TxMb
  /\ Room(m) /\ count[m] < MaxMsgs[m]
  /\ count' = [count EXCEPT ![m] = @ + 1]
  /\ msg_list' = Enqueued(m, count[m] + 1)
  /\ tmb' = m
  /\ UNCHANGED <<hwVars, errVars, dflags, isrVars, txmsg, mdriverVars, devctlVars, done>>

(* Mutant: a transmission in progress is not looked at. *)
MayStartAlways == msg_list[tmb] # <<>>

MayStart == tmb \notin dflags /\ msg_list[tmb] # <<>>

Transmit ==
  /\ isr = "off" /\ thread = "transmit"
  /\ IF MayStart
       THEN /\ thread' = "ringo_tx" /\ dflags' = dflags \cup {tmb}
            /\ txmsg' = Head(msg_list[tmb])
       ELSE thread' = "serve" /\ UNCHANGED <<dflags, txmsg>>
  /\ UNCHANGED <<hwVars, errVars, msg_list, isrVars, tmb, mdriverVars, devctlVars,
                 count, done>>

TransmitArm ==
  /\ InThread("ringo_tx", "serve")
  /\ RingoTx(tmb, txmsg) /\ txmsg' = 0
  /\ UNCHANGED <<iflag1, iflag2, errVars, msg_list, dflags, isrVars, tmb,
                 mdriverVars, devctlVars, count, done>>

(* A client reads the oldest message. *)
Read(m) ==
  /\ InThread("serve", "serve") /\ m \in RxMb /\ msg_list[m] # <<>>
  /\ done' = [done EXCEPT ![m] = Head(msg_list[m])]
  /\ msg_list' = [msg_list EXCEPT ![m] = Tail(@)]
  /\ UNCHANGED <<hwVars, errVars, dflags, isrVars, txmsg, tmb, mdriverVars,
                 devctlVars, count>>

(* CAN_DEVCTL_ERROR reads and clears the errors that were kept. *)
GetErrors ==
  /\ InThread("serve", "serve") /\ canestat # {}
  /\ canestat' = {}
  /\ UNCHANGED <<hwVars, esr, msg_list, dflags, isrVars, txmsg, tmb, mdriverVars,
                 devctlVars, count, done>>

(***************************************************************************)
(* The devctls that change a mailbox.  "Disable Object" masks its          *)
(* interrupt and nothing else: the controller goes on, and so does the     *)
(* handler when the flag of another mailbox calls it.                      *)
(***************************************************************************)
Devctl(from, to) ==
  /\ InThread(from, to)
  /\ UNCHANGED <<candata, iflag1, iflag2, errVars, msg_list, dflags, isrVars,
                 txmsg, mdriverVars,
                 count, done>>

(* SET_MID of any mailbox, SET_PRIO of a transmit mailbox.  The ID is a    *)
(* word of its own, which the handler does not touch.                      *)
Disable(m) ==
  /\ Devctl("serve", "enable") \/ (m \in TxMb /\ Devctl("serve", "prio"))
  /\ tmb' = m /\ imask' = imask \ {m}
  /\ UNCHANGED <<canmcf, mcf, stale>>

(* The priority shares its word with the code of the mailbox, which is     *)
(* read and written back.                                                  *)
PrioRead ==
  /\ Devctl("prio", "prio_write")
  /\ mcf' = canmcf[tmb]
  /\ UNCHANGED <<canmcf, tmb, imask, stale>>

PrioWrite ==
  /\ Devctl("prio_write", "enable")
  /\ canmcf' = [canmcf EXCEPT ![tmb] = mcf]
  /\ stale' = (stale \/ mcf # canmcf[tmb])
  /\ mcf' = "none"
  /\ UNCHANGED <<tmb, imask>>

Enable ==
  /\ Devctl("enable", "serve")
  /\ imask' = imask \cup {tmb}
  /\ UNCHANGED <<canmcf, tmb, mcf, stale>>

(* SET_MFILTER of a receive mailbox, in freeze mode.                       *)
Freeze(m) ==
  /\ m \in RxMb /\ Devctl("serve", "freeze")
  /\ tmb' = m
  /\ UNCHANGED <<canmcf, devctlVars>>

FilterDisable ==
  /\ Devctl("freeze", "filter")
  /\ imask' = imask \ {tmb}
  /\ UNCHANGED <<canmcf, tmb, mcf, stale>>

FilterEnable ==
  /\ Devctl("filter", "thaw")
  /\ imask' = imask \cup {tmb}
  /\ UNCHANGED <<canmcf, tmb, mcf, stale>>

Thaw ==
  /\ Devctl("thaw", "serve")
  /\ UNCHANGED <<canmcf, tmb, devctlVars>>

DevctlStep ==
  \/ PrioRead \/ PrioWrite \/ Enable
  \/ FilterDisable \/ FilterEnable \/ Thaw

(* What the thread has begun. *)
ThreadGoesOn ==
  MdriverMsg \/ MdriverDone \/ Transmit \/ TransmitArm \/ DevctlStep

Thread ==
  \/ ThreadGoesOn
  \/ GetErrors \/ \E m \in Mb : Write(m) \/ Read(m) \/ Disable(m) \/ Freeze(m)

CanNext ==
  \/ \E m \in Mb : HwReceive(m) \/ HwTransmit(m)
  \/ \E e \in Errors : HwError(e)
  \/ Isr \/ Thread

(* The bus takes what is offered whenever the controller is not frozen, an *)
(* interrupt that is pending is delivered whenever it is not masked, the   *)
(* handler and the thread run to their end; nothing obliges clients to     *)
(* call or frames to arrive.                                               *)
CanFairness ==
  /\ \A m \in TxMb : SF_canVars(HwTransmit(m))
  /\ SF_canVars(Isr) /\ SF_canVars(ThreadGoesOn)

CanSpec == CanInit /\ [][CanNext]_canVars

CanFairSpec == CanSpec /\ CanFairness
-----------------------------------------------------------------------------
Codes == {"EMPTY", "FULL", "NOT_READY", "TRANSMIT_ONCE"}

(* Every variable has its type; a list holds at most msgnum messages. *)
CanTypeOK ==
  /\ canmcf \in [Mb -> Codes] /\ candata \in [Mb -> Nat]
  /\ iflag1 \subseteq RxMb /\ iflag2 \subseteq TxMb
  /\ esr \subseteq Errors /\ canestat \subseteq Errors
  /\ msg_list \in [Mb -> Seq(Nat)] /\ \A m \in Mb : Len(msg_list[m]) <= msgnum
  /\ dflags \subseteq TxMb
  /\ isr \in {"off", "errors", "esr_clear", "top", "flags", "rx_clear", "rx_reset",
              "notify_rx", "notify_tx", "clear"}
  /\ irqsrc1 \subseteq RxMb /\ irqsrc2 \subseteq TxMb /\ oflag_rx \subseteq RxMb
  /\ estat \subseteq Errors /\ mbxid \in Mb \cup {0}
  /\ thread \in {"mdriver", "mcopy", "madd", "serve", "transmit", "ringo_tx", "prio",
                 "prio_write", "enable", "freeze", "filter", "thaw"}
  /\ txmsg \in Nat
  /\ imask \subseteq Mb /\ mcf \in Codes \cup {"none"} /\ stale \in BOOLEAN
  /\ tmb \in Mb \cup {0} /\ mi \in 0 .. Len(Buffered) /\ overwritten \subseteq RxMb
  /\ count \in [Mb -> Nat] /\ done \in [Mb -> Nat]

Ordered(m) ==
  LET s == <<done[m]>> \o msg_list[m]
  IN  \A i \in 1 .. Len(s) - 1 : s[i] < s[i + 1]

(* Clients of a receive mailbox read messages in the order in which they   *)
(* arrived and none twice, those of the mini-driver first although they    *)
(* are added while the handler adds new ones and may fill the list - until *)
(* an old message is copied into a slot that the handler has taken since   *)
(* it was found free.                                                      *)
ReadInOrder == \A m \in RxMb \ overwritten : Ordered(m)

(* "add both old and new messages to the queue in parrallel and in the     *)
(* correct order" (Note2 of create_device), whatever the handler takes.    *)
BothInOrder == \A m \in RxMb : Ordered(m)

(* A mailbox sends the messages written to it one after the other, each    *)
(* once: what is being sent, or about to be, is the one after the last     *)
(* sent, and it is the oldest in the list - until SET_PRIO writes back a   *)
(* control word that has changed since it was read.                        *)
SendsNext ==
  /\ CanTypeOK
  /\ ~stale => \A m \in TxMb : canmcf[m] = "TRANSMIT_ONCE" =>
       /\ candata[m] = done[m] + 1
       /\ msg_list[m] # <<>> /\ Head(msg_list[m]) = candata[m]

(* A message written to the only transmit mailbox is sent, and the list    *)
(* empties, as long as no frame arrives just when one has been sent: then  *)
(* the flag of the transmit mailbox is written back unserved; and SET_PRIO  *)
(* undoes no start.                                                        *)
FlagsApart == iflag1 = {} \/ iflag2 = {}
EveryMessageSent ==
  [](FlagsApart /\ ~stale) => \A m \in TxMb : msg_list[m] # <<>> ~> msg_list[m] = <<>>

(* "Indicate transmit is in progress" (can_drvr_transmit): while the flag  *)
(* is set the mailbox is sending or its interrupt is to come.              *)
EnabledInProgress ==
  \A m \in TxMb :
    (m \in dflags /\ isr = "off" /\ thread # "ringo_tx") =>
      canmcf[m] = "TRANSMIT_ONCE" \/ m \in iflag2
=============================================================================
