------------------------------ MODULE Smc9118 ------------------------------
(***************************************************************************)
(* The SMC9118 Ethernet driver: threads of io-net that send, the event     *)
(* thread that serves the interrupt, receives and sends what had no room,  *)
(* and threads of io-net that give received packets back.                  *)
(*                                                                         *)
(* dev->mutex is let go around tx_done and tx_up_start, and there the      *)
(* threads interleave; elsewhere only the controller does, and a step here *)
(* is what a thread does between two reads of it that a frame or a packet  *)
(* on the wire can change.  A packet is its place in Packets; a word of a  *)
(* frame is named by its frame and its place in it.                        *)
(***************************************************************************)
EXTENDS Integers, Sequences, FiniteSets, SequencesExt, FiniteSetsExt

CONSTANTS
  Senders,         \* threads of io-net that call smc9118_send_packets
  Uppers,          \* threads of io-net that call smc9118_receive_complete
  Packets,         \* the buffers of each packet to send: [len, off]
  Batches,         \* lengths of a chain of packets handed over in one call
  TxBytes,         \* bytes of the transmit data FIFO
  Frames,          \* words of each frame that may arrive
  RxWords,         \* words of the receive data FIFO
  max_rx_buffers,  \* free packets kept
  MaxBuffered,     \* packets received before they are passed up (32)
  MaxAllocFails    \* bound: allocations that fail

Event   == "event"
Threads == Senders \cup {Event}
Free    == "free"

ASSUME SmcAssumption ==
  /\ Event \notin Senders /\ Free \notin Senders
  /\ Packets \in Seq(Seq([len : Nat \ {0}, off : 0 .. 3])) /\ Batches \subseteq Nat
  /\ Frames \in Seq(Nat \ {0})
  /\ TxBytes \in Nat /\ RxWords \in Nat /\ MaxAllocFails \in Nat
  /\ max_rx_buffers \in Nat \ {0} /\ MaxBuffered \in Nat \ {0}

VARIABLES
  mutex,                     \* dev->mutex
  pc,                        \* where each thread of the driver is
  npkt,                      \* the packet a thread completes, or 0
  queue,                     \* dev->nhead .. dev->ntail
  handed,                    \* packets io-net has handed over, in order
  batch,                     \* the chain a sender waits for the mutex with
  txfifo, sent, done,        \* in the FIFO, on the wire, times completed
  INT_STS, istat, kick,      \* the interrupt register, its copy, kick_xmit
  masked, pulses,
  rxsts, rxdata, arrived,    \* receive FIFOs, and the number of frames seen
  rxq,                       \* rx_Q_head .. rx_Q_tail
  passed,                    \* what was passed up, in order
  num_rx_free, upper, held,  \* free packets; where io-net's threads are
  fails

txVars  == <<queue, handed, batch, txfifo, sent, done>>
irqVars == <<INT_STS, istat, kick, masked, pulses>>
rxVars  == <<rxsts, rxdata, arrived, rxq, passed, num_rx_free, upper, held, fails>>
vars    == <<mutex, pc, npkt, txVars, irqVars, rxVars>>

Init ==
  /\ mutex = Free
  /\ pc = [t \in Threads |-> IF t = Event THEN "receive" ELSE "out"]
  /\ npkt = [t \in Threads |-> 0]
  /\ queue = <<>> /\ handed = <<>> /\ txfifo = <<>> /\ sent = <<>>
  /\ batch = [s \in Senders |-> <<>>]
  /\ done = [p \in DOMAIN Packets |-> 0]
  /\ INT_STS = {} /\ istat = {} /\ kick = FALSE /\ masked = FALSE /\ pulses = 0
  /\ rxsts = <<>> /\ rxdata = <<>> /\ arrived = 0 /\ rxq = <<>> /\ passed = <<>>
  /\ num_rx_free = max_rx_buffers
  /\ upper = [u \in Uppers |-> "out"] /\ held = 0
  /\ fails = 0

Goto(t, place) == pc' = [pc EXCEPT ![t] = place]

Take(t, from, to) ==
  /\ pc[t] = from /\ mutex = Free
  /\ mutex' = t
  /\ Goto(t, to)
-----------------------------------------------------------------------------
(***************************************************************************)
(* smc9118_send_packets.                                                   *)
(***************************************************************************)
Hand(s, n) ==
  /\ pc[s] = "out"
  /\ Len(handed) + n <= Len(Packets)
  /\ LET ps == [k \in 1 .. n |-> Len(handed) + k]
     IN  /\ handed' = handed \o ps
         /\ batch' = [batch EXCEPT ![s] = ps]
  /\ Goto(s, "enter")
  /\ UNCHANGED <<mutex, npkt, queue, txfifo, sent, done, irqVars, rxVars>>

(* Mutant: the chain enters at the head. *)
EnteredFirst(s) == batch[s] \o queue

Entered(s) == queue \o batch[s]

Enter(s) ==
  /\ Take(s, "enter", "send")
  /\ queue' = Entered(s)
  /\ batch' = [batch EXCEPT ![s] = <<>>]
  /\ UNCHANGED <<npkt, handed, txfifo, sent, done, irqVars, rxVars>>

(***************************************************************************)
(* smc9118_send: the room it asks for, and the bytes it writes: two words  *)
(* of command and, of an unaligned buffer, its first bytes in a word.      *)
(***************************************************************************)
Length == [p \in DOMAIN Packets |->
  SumFunction([b \in DOMAIN Packets[p] |-> Packets[p][b].len])]

(* Mutant: room for the commands of one buffer. *)
AskedOnce == [p \in DOMAIN Packets |-> Length[p] + 16]

Asked == [p \in DOMAIN Packets |-> Length[p] + 16 * Len(Packets[p])]

Copied(b) ==
  IF b.off = 0 THEN 8 + 4 * ((b.len + 3) \div 4)
  ELSE 12 + 4 * ((b.len - (4 - b.off) + 3) \div 4)

Written == [p \in DOMAIN Packets |->
  SumFunction([b \in DOMAIN Packets[p] |-> Copied(Packets[p][b])])]

Used == SumFunction([i \in DOMAIN txfifo |-> Written[txfifo[i]]])

HeadTaken == Tail(queue)

CanSend == queue # <<>> /\ TxBytes - Used >= Asked[Head(queue)]

Send(t) ==
  /\ pc[t] = "send" /\ CanSend
  /\ txfifo' = Append(txfifo, Head(queue))
  /\ queue' = HeadTaken
  /\ npkt' = [npkt EXCEPT ![t] = Head(queue)]
  /\ mutex' = Free
  /\ Goto(t, "tx_done")
  /\ UNCHANGED <<handed, batch, sent, done, irqVars, rxVars>>

TxDone(t) ==
  /\ pc[t] = "tx_done"
  /\ done' = [done EXCEPT ![npkt[t]] = @ + 1]
  /\ npkt' = [npkt EXCEPT ![t] = 0]
  /\ Goto(t, "relock")
  /\ UNCHANGED <<mutex, queue, handed, batch, txfifo, sent, irqVars, rxVars>>

Relock(t) ==
  /\ Take(t, "relock", "send")
  /\ UNCHANGED <<npkt, txVars, irqVars, rxVars>>

SendEnds(t) ==
  /\ pc[t] = "send" /\ ~CanSend
  /\ IF t = Event THEN UNCHANGED mutex ELSE mutex' = Free
  /\ Goto(t, IF t = Event THEN "recheck" ELSE "out")
  /\ UNCHANGED <<npkt, txVars, irqVars, rxVars>>
-----------------------------------------------------------------------------
(***************************************************************************)
(* smc9118_event_handler and smc9118_process_interrupt.                    *)
(***************************************************************************)
Pulse ==
  /\ pulses > 0
  /\ Take(Event, "receive", "recheck")
  /\ pulses' = pulses - 1
  /\ UNCHANGED <<npkt, txVars, INT_STS, istat, kick, masked, rxVars>>

Recheck ==
  /\ pc[Event] = "recheck"
  /\ istat' = INT_STS /\ kick' = FALSE
  /\ Goto(Event, "clear")
  /\ UNCHANGED <<mutex, npkt, txVars, INT_STS, masked, pulses, rxVars>>

(* RSFL stays as long as a status is in the FIFO. *)
Cleared(bits) == (INT_STS \ bits) \cup IF rxsts = <<>> THEN {} ELSE {"RSFL"}

Clear ==
  /\ pc[Event] = "clear"
  /\ INT_STS' = Cleared(istat)
  /\ Goto(Event, IF "RSFL" \in istat THEN "rx" ELSE "tx_ioc")
  /\ UNCHANGED <<mutex, npkt, txVars, istat, kick, masked, pulses, rxVars>>

(* One status is read for an interrupt, of however many packets sent. *)
TxIoc ==
  /\ pc[Event] = "tx_ioc"
  /\ kick' = (kick \/ "TX_IOC" \in istat)
  /\ istat' = INT_STS
  /\ Goto(Event, IF INT_STS # {} THEN "clear" ELSE "kick")
  /\ UNCHANGED <<mutex, npkt, txVars, INT_STS, masked, pulses, rxVars>>

Kick ==
  /\ pc[Event] = "kick" /\ kick
  /\ Goto(Event, IF queue # <<>> THEN "send" ELSE "recheck")
  /\ UNCHANGED <<mutex, npkt, txVars, irqVars, rxVars>>

(* Mutant: the interrupt stays masked while packets or frames wait. *)
UnmaskedIdle == queue # <<>> \/ rxsts # <<>>

Unmasked == FALSE

(* InterruptUnmask, and the mutex is let go. *)
Served ==
  /\ pc[Event] = "kick" /\ ~kick
  /\ masked' = Unmasked
  /\ mutex' = Free
  /\ Goto(Event, "receive")
  /\ UNCHANGED <<npkt, txVars, INT_STS, istat, kick, pulses, rxVars>>
-----------------------------------------------------------------------------
(***************************************************************************)
(* smc9118_receive.                                                        *)
(***************************************************************************)
RxTest ==
  /\ pc[Event] = "rx"
  /\ INT_STS' = Cleared({"RSFL"})
  /\ Goto(Event, IF "RSFL" \in INT_STS /\ rxsts # <<>> THEN "pop" ELSE "up")
  /\ UNCHANGED <<mutex, npkt, txVars, istat, kick, masked, pulses, rxVars>>

ChainFull(n) == n = MaxBuffered

(* Mutant: a word partly filled is not read. *)
OneWordLess(n) == IF n > 1 THEN n - 1 ELSE n

NumReads(n) == n

Grabbed == IF num_rx_free > 0 THEN num_rx_free - 1 ELSE 0

RxPop ==
  /\ pc[Event] = "pop"
  /\ rxsts' = Tail(rxsts)
  /\ LET n == NumReads(Head(rxsts))
     IN  /\ rxq' = Append(rxq, SubSeq(rxdata, 1, n))
         /\ rxdata' = SubSeq(rxdata, n + 1, Len(rxdata))
  /\ num_rx_free' = Grabbed
  /\ Goto(Event, IF ChainFull(Len(rxq) + 1) THEN "up" ELSE "rx")
  /\ UNCHANGED <<mutex, npkt, txVars, irqVars, arrived, passed, upper, held, fails>>

(* No packet can be allocated: the status is taken, the data is not. *)
RxDrop ==
  /\ pc[Event] = "pop"
  /\ num_rx_free = 0 /\ fails < MaxAllocFails
  /\ fails' = fails + 1
  /\ rxsts' = Tail(rxsts)
  /\ Goto(Event, "rx")
  /\ UNCHANGED <<mutex, npkt, txVars, irqVars, rxdata, arrived, rxq, passed,
                 num_rx_free, upper, held>>

Up ==
  /\ pc[Event] = "up" /\ rxq # <<>>
  /\ mutex' = Free
  /\ passed' = Append(passed, Head(rxq))
  /\ rxq' = Tail(rxq)
  /\ Goto(Event, "tx_up")
  /\ UNCHANGED <<npkt, txVars, irqVars, rxsts, rxdata, arrived, num_rx_free, upper,
                 held, fails>>

(* tx_up_start: the packet is kept, or comes back and is completed here. *)
TxUp ==
  /\ pc[Event] = "tx_up"
  /\ \/ held' = held + 1 /\ Goto(Event, "rx_relock")
     \/ UNCHANGED held /\ Goto(Event, "complete")
  /\ UNCHANGED <<mutex, npkt, txVars, irqVars, rxsts, rxdata, arrived, rxq, passed,
                 num_rx_free, upper, fails>>

GoOn == IF "RSFL" \in INT_STS THEN "rx" ELSE "up"

RxRelock ==
  /\ Take(Event, "rx_relock", GoOn)
  /\ UNCHANGED <<npkt, txVars, irqVars, rxVars>>

RxEnds ==
  /\ pc[Event] = "up" /\ rxq = <<>>
  /\ Goto(Event, IF "RSFL" \in INT_STS THEN "rx" ELSE "tx_ioc")
  /\ UNCHANGED <<mutex, npkt, txVars, irqVars, rxVars>>

(***************************************************************************)
(* smc9118_receive_complete: the number of free packets is compared before *)
(* rx_freeq_mutex is taken.                                                *)
(***************************************************************************)
Kept == num_rx_free < max_rx_buffers

Complete(u) ==
  /\ upper[u] = "out" /\ held > 0
  /\ held' = held - 1
  /\ upper' = [upper EXCEPT ![u] = IF Kept THEN "keep" ELSE @]
  /\ UNCHANGED <<mutex, pc, npkt, txVars, irqVars, rxsts, rxdata, arrived, rxq, passed,
                 num_rx_free, fails>>

Keep(u) ==
  /\ upper[u] = "keep"
  /\ upper' = [upper EXCEPT ![u] = "out"]
  /\ num_rx_free' = num_rx_free + 1
  /\ UNCHANGED <<mutex, pc, npkt, txVars, irqVars, rxsts, rxdata, arrived, rxq, passed,
                 held, fails>>

CompleteHere ==
  /\ pc[Event] = "complete"
  /\ Goto(Event, IF Kept THEN "keep" ELSE "rx_relock")
  /\ UNCHANGED <<mutex, npkt, txVars, irqVars, rxVars>>

KeepHere ==
  /\ pc[Event] = "keep"
  /\ num_rx_free' = num_rx_free + 1
  /\ Goto(Event, "rx_relock")
  /\ UNCHANGED <<mutex, npkt, txVars, irqVars, rxsts, rxdata, arrived, rxq, passed,
                 upper, held, fails>>
-----------------------------------------------------------------------------
(***************************************************************************)
(* The controller and the interrupt (external).                            *)
(***************************************************************************)
HwSend ==
  /\ txfifo # <<>>
  /\ sent' = Append(sent, Head(txfifo)) /\ txfifo' = Tail(txfifo)
  /\ INT_STS' = INT_STS \cup {"TX_IOC"}
  /\ UNCHANGED <<mutex, pc, npkt, queue, handed, batch, done, istat, kick, masked, pulses,
                 rxVars>>

HwReceive ==
  /\ arrived < Len(Frames)
  /\ arrived' = arrived + 1
  /\ LET n == Frames[arrived + 1]
     IN  IF Len(rxdata) + n <= RxWords
           THEN /\ rxsts' = Append(rxsts, n)
                /\ rxdata' = rxdata \o [k \in 1 .. n |-> <<arrived + 1, k>>]
                /\ INT_STS' = INT_STS \cup {"RSFL"}
           ELSE UNCHANGED <<rxsts, rxdata, INT_STS>>
  /\ UNCHANGED <<mutex, pc, npkt, txVars, istat, kick, masked, pulses, rxq, passed,
                 num_rx_free, upper, held, fails>>

HwInterrupt ==
  /\ INT_STS # {} /\ ~masked
  /\ masked' = TRUE /\ pulses' = pulses + 1
  /\ UNCHANGED <<mutex, pc, npkt, txVars, INT_STS, istat, kick, rxVars>>

Sending(t) == Send(t) \/ TxDone(t) \/ Relock(t) \/ SendEnds(t)

Serving ==
  \/ Pulse \/ Recheck \/ Clear \/ TxIoc \/ Kick \/ Served
  \/ RxTest \/ RxPop \/ RxDrop \/ Up \/ TxUp \/ RxRelock \/ RxEnds
  \/ CompleteHere \/ KeepHere

Next ==
  \/ \E s \in Senders : Enter(s) \/ \E n \in Batches : Hand(s, n)
  \/ \E t \in Threads : Sending(t)
  \/ Serving
  \/ \E u \in Uppers : Complete(u) \/ Keep(u)
  \/ HwSend \/ HwReceive \/ HwInterrupt

Spec == Init /\ [][Next]_vars

(* Threads go on, and get the mutex: only finitely often does another take *)
(* it.  The controller sends and interrupts.                               *)
Fairness ==
  /\ \A s \in Senders : WF_vars(Enter(s))
  /\ \A t \in Threads : WF_vars(Sending(t))
  /\ WF_vars(Serving)
  /\ WF_vars(HwSend) /\ WF_vars(HwInterrupt)

FairSpec == Spec /\ Fairness
-----------------------------------------------------------------------------
(* Every variable has its type; one pulse at a time is under way, for the  *)
(* interrupt is masked until it has been served.                           *)
TypeOK ==
  /\ mutex \in Threads \cup {Free}
  /\ queue \in Seq(DOMAIN Packets) /\ txfifo \in Seq(DOMAIN Packets)
  /\ INT_STS \subseteq {"RSFL", "TX_IOC"} /\ istat \subseteq {"RSFL", "TX_IOC"}
  /\ pulses \in 0 .. (IF masked THEN 1 ELSE 0)
  /\ num_rx_free \in Nat /\ held \in Nat
  /\ \A s \in Senders : pc[s] \in {"out", "enter", "send", "tx_done", "relock"}

(* A packet goes to the controller once, and is completed once, after it   *)
(* has been copied.                                                        *)
SentOnce ==
  /\ IsInjective(sent \o txfifo \o queue)
  /\ \A p \in DOMAIN Packets :
       /\ done[p] <= 1
       /\ done[p] = 1 => p \in ToSet(sent \o txfifo)

(* Whichever threads send, and however they take turns while the mutex is  *)
(* let go around tx_done, packets are sent once each, in the order they    *)
(* entered the queue.                                                      *)
QueueOrder ==
  []SentOnce /\ [][IsPrefix(sent \o txfifo \o queue, (sent \o txfifo \o queue)')]_vars

(* The bytes written fit into the data FIFO, whatever the alignment of the *)
(* buffers, and the chain of packets not yet passed up keeps its limit     *)
(* ("can't buffer indefinitely"), also when frames keep arriving while it *)
(* is passed up.                                                           *)
BuffersBounded ==
  /\ TypeOK
  /\ Used <= TxBytes
  /\ Len(rxq) <= MaxBuffered

(* What is passed up is one whole frame, and frames keep their order, as   *)
(* long as no allocation fails: a frame dropped then leaves its words in   *)
(* the data FIFO.                                                          *)
FramesWhole == fails = 0 =>
  /\ \A i \in DOMAIN passed :
       \E f \in DOMAIN Frames : passed[i] = [k \in 1 .. Frames[f] |-> <<f, k>>]
  /\ \A i, j \in DOMAIN passed : i < j => passed[i][1][1] < passed[j][1][1]

AllCompleted == \A p \in ToSet(handed) : done[p] = 1

AllPassed == rxdata = <<>> /\ rxq = <<>>

(* Again and again every packet handed over so far has been completed, and *)
(* every frame the controller has taken has been passed up, unless an      *)
(* allocation has failed: no packet and no frame waits for an interrupt    *)
(* that has been served already.                                           *)
NothingWaits == []<>AllCompleted /\ []<>(AllPassed \/ fails > 0)
=============================================================================
