---------------------------- MODULE CanMx35Proofs ----------------------------
(***************************************************************************)
(* Proofs about the CAN driver, for any number of mailboxes: a client      *)
(* reads the messages of a mailbox in the order in which they arrived      *)
(* (ReadInOrder), and what a mailbox sends is the next message of its list *)
(* (SendsNext) - as long as one transmit mailbox is written to and no      *)
(* other.  With two, the flag that can_intr serves need not be one of      *)
(* those it has read and clears, and a message that is being sent leaves   *)
(* the list as if it had been.                                             *)
(*                                                                         *)
(* The receive side follows a message from the flag to the list: data      *)
(* whose flag is up, or which the handler is taking, are newer than what   *)
(* the list holds (FreshData), and what the mini-driver still has is older *)
(* (Backwards).  The transmit side says for each phase of a transmission   *)
(* - about to begin, on the bus, sent, none - what the head of the list    *)
(* is.                                                                     *)
(***************************************************************************)
EXTENDS CanMx35, FiniteSetTheorems, SequenceTheorems, WellFoundedInduction, TLAPS

(* One mailbox is written to, and no other.                                *)
OneSender == \E t \in TxMb : \A m \in TxMb \ {t} : MaxMsgs[m] = 0

Total(m) == BufferedFor(m, Len(Buffered))

Held(m) == {msg_list[m][i] : i \in 1 .. Len(msg_list[m])}

(* The receive mailboxes: messages have arrived, and are in order.         *)
Arrived(m) ==
  /\ Total(m) <= count[m] /\ done[m] <= count[m]
  /\ \A x \in Held(m) : x <= count[m]

Ascending(m) ==
  \A i, j \in 1 .. Len(msg_list[m]) : i < j => msg_list[m][i] < msg_list[m][j]

AfterRead(m) == \A x \in Held(m) : done[m] < x

(* can_intr takes the message out of mailbox mbxid, whose flag it clears.  *)
Taking == isr \in {"rx_clear", "rx_reset"}

Taken ==
  Taking => /\ mbxid \in RxMb /\ Room(mbxid)
            /\ isr = "rx_clear" => mbxid \in oflag_rx
            /\ isr = "rx_reset" => mbxid \notin iflag1

Raised(m) == m \in iflag1 \/ (Taking /\ mbxid = m)

FreshData(m) ==
  Raised(m) =>
     /\ done[m] < candata[m] /\ Total(m) < candata[m] /\ candata[m] <= count[m]
     /\ \A x \in Held(m) : x < candata[m]

(* mdriver_init_data is at work. *)
Starting == thread \in {"mdriver", "mcopy", "madd"}

Backwards(m) ==
  Starting =>
    /\ done[m] = 0
    /\ \A x \in Held(m) : BufferedFor(m, mi) < x

(* The transmit mailboxes: the list holds the last messages written.       *)
Consecutive(m) ==
  /\ Len(msg_list[m]) <= count[m] /\ count[m] <= MaxMsgs[m]
  /\ \A i \in 1 .. Len(msg_list[m]) : msg_list[m][i] = count[m] - Len(msg_list[m]) + i

(* What the thread has in hand.                                            *)
Arming(m) == thread = "ringo_tx" /\ tmb = m

ThreadAt ==
  /\ thread \in {"transmit", "ringo_tx", "prio", "prio_write"} => tmb \in TxMb
  /\ thread \in {"enable", "freeze", "filter"} => tmb \in Mb
  /\ thread = "prio_write" => mcf \in Codes
  /\ thread \in {"mcopy", "madd"} => mi \in 1 .. Len(Buffered) /\ Buffered[mi] \in RxMb

(* can_intr serves a flag while those it read first are still up.          *)
SeenFlags ==
  isr = "flags" => /\ irqsrc1 \subseteq iflag1 /\ irqsrc2 \subseteq iflag2
                   /\ irqsrc1 # {} \/ irqsrc2 # {}

(* The phases of a transmission.                                           *)
SendsHead(m) ==
  canmcf[m] = "TRANSMIT_ONCE" =>
    /\ m \in dflags /\ m \notin iflag2 /\ ~Arming(m)
    /\ msg_list[m] # <<>> /\ msg_list[m][1] = candata[m] /\ candata[m] = done[m] + 1

SentHead(m) ==
  m \in iflag2 =>
    m \in dflags /\ ~Arming(m) /\ msg_list[m] # <<>> /\ msg_list[m][1] = done[m]

ArmsHead(m) ==
  Arming(m) => /\ m \in dflags
               /\ msg_list[m] # <<>> /\ msg_list[m][1] = txmsg /\ txmsg = done[m] + 1

Resting(m) ==
  m \notin dflags => /\ done[m] + Len(msg_list[m]) = count[m]
                     /\ msg_list[m] = <<>> \/ (thread = "transmit" /\ tmb = m)

Phases == \A m \in TxMb : SendsHead(m) /\ SentHead(m) /\ ArmsHead(m) /\ Resting(m)

(* The inductive invariants; that of the receive side says of a mailbox    *)
(* nothing more once an old message was copied over its newest.            *)
RxInv ==
  /\ CanTypeOK /\ Taken /\ ThreadAt
  /\ \A m \in RxMb \ overwritten :
       Arrived(m) /\ Ascending(m) /\ AfterRead(m) /\ FreshData(m) /\ Backwards(m)

TxInv ==
  /\ SeenFlags
  /\ \A m \in TxMb : Consecutive(m)
  /\ ~stale => Phases


-----------------------------------------------------------------------------
(* Every nonempty set of natural numbers has a least element.              *)
LEMMA NatMin ==
  ASSUME NEW T, T \subseteq Nat, T # {}
  PROVE  \E n \in T : \A m \in T : n <= m
  <1>1. IsWellFoundedOn(OpToRel(<, Nat), Nat)
    BY NatLessThanWellFounded
  <1>2. PICK n \in T : \A m \in T : <<m, n>> \notin OpToRel(<, Nat)
    BY <1>1, WFMin
  <1>3. \A m \in T : ~(m < n)
    BY <1>2 DEF OpToRel
  <1>. QED
    BY <1>3

(* The mailboxes are natural numbers; the lowest of some is one of them.   *)
LEMMA LowestIn ==
  ASSUME NEW S, S \subseteq Nat, S # {}
  PROVE  Lowest(S) \in S
  BY NatMin DEF Lowest

LEMMA Mailboxes == RxMb \subseteq Nat /\ TxMb \subseteq Nat /\ Mb = RxMb \cup TxMb /\ RxMb \cap TxMb = {}
  BY CanAssumption DEF RxMb, TxMb, Mb

(* Messages of the mini-driver are numbered in the order they came in.     *)
LEMMA Numbered ==
  ASSUME NEW m \in RxMb
  PROVE  /\ BufferedFor(m, Len(Buffered)) \in Nat
         /\ \A i \in 0 .. Len(Buffered) :
              BufferedFor(m, i) \in Nat /\ BufferedFor(m, i) <= BufferedFor(m, Len(Buffered))
         /\ \A i \in 1 .. Len(Buffered) :
              /\ BufferedFor(m, i) \in Nat /\ BufferedFor(m, i - 1) \in Nat
              /\ BufferedFor(m, i - 1) <= BufferedFor(m, i)
              /\ BufferedFor(m, i) <= BufferedFor(m, Len(Buffered))
              /\ Buffered[i] = m => BufferedFor(m, i - 1) < BufferedFor(m, i)
  <1>. DEFINE Of(n) == {k \in 1 .. n : Buffered[k] = m}
  <1>1. Len(Buffered) \in Nat
    BY CanAssumption
  <1>2. \A n \in Nat : IsFiniteSet(Of(n)) /\ Cardinality(Of(n)) \in Nat
    <2>. TAKE n \in Nat
    <2>1. IsFiniteSet(1 .. n)
      BY FS_Interval
    <2>. QED
      BY <2>1, FS_Subset, FS_CardinalityType
  <1>3. ASSUME NEW i \in 1 .. Len(Buffered)
        PROVE  /\ i - 1 \in Nat /\ i \in Nat
               /\ Cardinality(Of(i - 1)) <= Cardinality(Of(i))
               /\ Cardinality(Of(i)) <= Cardinality(Of(Len(Buffered)))
               /\ Buffered[i] = m => Cardinality(Of(i)) = Cardinality(Of(i - 1)) + 1
    <2>1. i - 1 \in Nat /\ i \in Nat /\ Of(i - 1) \subseteq Of(i) /\ Of(i) \subseteq Of(Len(Buffered))
      BY <1>1
    <2>2. ASSUME Buffered[i] = m PROVE Cardinality(Of(i)) = Cardinality(Of(i - 1)) + 1
      <3>1. Of(i) = Of(i - 1) \cup {i} /\ i \notin Of(i - 1)
        BY <2>1, <2>2
      <3>. QED
        BY <1>2, <2>1, <3>1, FS_AddElement
    <2>. QED
      BY <1>1, <1>2, <2>1, <2>2, FS_Subset
  <1>5. ASSUME NEW i \in 0 .. Len(Buffered)
        PROVE  i \in Nat /\ Cardinality(Of(i)) <= Cardinality(Of(Len(Buffered)))
    <2>1. i \in Nat /\ Of(i) \subseteq Of(Len(Buffered))
      BY <1>1
    <2>. QED
      BY <1>1, <1>2, <2>1, FS_Subset
  <1>. HIDE DEF Of
  <1>4. \A n : BufferedFor(m, n) = Cardinality(Of(n))
    BY DEF BufferedFor, Of
  <1>. QED
    BY <1>1, <1>2, <1>3, <1>4, <1>5

(* What putting a message on a list makes of it.                           *)
LEMMA Longer ==
  ASSUME NEW s \in Seq(Nat), NEW x \in Nat
  PROVE  /\ Append(s, x) \in Seq(Nat) /\ Len(Append(s, x)) = Len(s) + 1
         /\ \A i \in 1 .. Len(s) : Append(s, x)[i] = s[i]
         /\ Append(s, x)[Len(s) + 1] = x
         /\ <<x>> \o s \in Seq(Nat) /\ Len(<<x>> \o s) = Len(s) + 1 /\ (<<x>> \o s)[1] = x
         /\ \A i \in 2 .. Len(s) + 1 : (<<x>> \o s)[i] = s[i - 1]
  OBVIOUS

(* And what taking one off does.                                           *)
LEMMA Shorter ==
  ASSUME NEW s \in Seq(Nat)
  PROVE  /\ Len(s) \in Nat /\ s # <<>> <=> Len(s) > 0
         /\ \A i \in 1 .. Len(s) : s[i] \in Nat
         /\ s # <<>> => /\ Head(s) = s[1] /\ Tail(s) \in Seq(Nat) /\ Len(Tail(s)) = Len(s) - 1
                        /\ \A i \in 1 .. Len(s) - 1 : Tail(s)[i] = s[i + 1]
  OBVIOUS

(* A buffered message that belongs to a mailbox belongs to a receive one.  *)
LEMMA BelongsTo ==
  ASSUME NEW i \in 1 .. Len(Buffered), Buffered[i] # -1
  PROVE  Buffered[i] \in RxMb
  BY CanAssumption DEF RxMb

(* The types, in three parts.                                              *)
RegsTyped ==
  /\ canmcf \in [Mb -> Codes] /\ candata \in [Mb -> Nat]
  /\ count \in [Mb -> Nat] /\ done \in [Mb -> Nat]

ListsTyped == msg_list \in [Mb -> Seq(Nat)] /\ \A m \in Mb : Len(msg_list[m]) <= msgnum

PlacesTyped ==
  /\ iflag1 \subseteq RxMb /\ iflag2 \subseteq TxMb
  /\ esr \subseteq Errors /\ canestat \subseteq Errors /\ dflags \subseteq TxMb
  /\ isr \in {"off", "errors", "esr_clear", "top", "flags", "rx_clear", "rx_reset",
              "notify_rx", "notify_tx", "clear"}
  /\ irqsrc1 \subseteq RxMb /\ irqsrc2 \subseteq TxMb /\ oflag_rx \subseteq RxMb
  /\ estat \subseteq Errors /\ mbxid \in Mb \cup {0}
  /\ thread \in {"mdriver", "mcopy", "madd", "serve", "transmit", "ringo_tx", "prio",
                 "prio_write", "enable", "freeze", "filter", "thaw"}
  /\ txmsg \in Nat
  /\ imask \subseteq Mb /\ mcf \in Codes \cup {"none"} /\ stale \in BOOLEAN
  /\ tmb \in Mb \cup {0} /\ mi \in 0 .. Len(Buffered) /\ overwritten \subseteq RxMb

(* What a list holds is numbers.                                           *)
LEMMA Entries ==
  ASSUME ListsTyped, NEW m \in Mb
  PROVE  /\ msg_list[m] \in Seq(Nat) /\ Len(msg_list[m]) \in Nat
         /\ \A i \in 1 .. Len(msg_list[m]) : msg_list[m][i] \in Nat
  BY DEF ListsTyped

LEMMA TypesInParts == CanTypeOK <=> RegsTyped /\ ListsTyped /\ PlacesTyped
  BY DEF CanTypeOK, RegsTyped, ListsTyped, PlacesTyped

(* The types of the registers and of the counts, for every step.           *)
LEMMA RegsTypedKept ==
  ASSUME RegsTyped, ListsTyped, PlacesTyped, Taken, ThreadAt, CanNext
  PROVE  RegsTyped'
  <1>. USE Mailboxes DEF RegsTyped, Codes
  <1>1. ASSUME NEW k \in Mb, HwReceive(k) PROVE RegsTyped'
    BY <1>1 DEF HwReceive, Locked, Frozen, errVars, isrVars, devctlVars, mdriverVars,
       threadVars
  <1>2. ASSUME NEW k \in Mb, HwTransmit(k) PROVE RegsTyped'
    BY <1>2 DEF HwTransmit, Frozen, errVars, isrVars, devctlVars, mdriverVars, threadVars
  <1>3. ASSUME NEW e \in Errors, HwError(e) PROVE RegsTyped'
    BY <1>3 DEF HwError, hwVars, isrVars, devctlVars, mdriverVars, threadVars
  <1>4. CASE Interrupt
    BY <1>4 DEF Interrupt, At, hwVars, errVars, devctlVars, mdriverVars, threadVars
  <1>5. CASE InterruptError
    BY <1>5 DEF InterruptError, At, hwVars, errVars, devctlVars, mdriverVars, threadVars
  <1>6. CASE KeepErrors
    BY <1>6 DEF KeepErrors, At, hwVars, devctlVars, mdriverVars, threadVars
  <1>7. CASE ClearErrors
    BY <1>7 DEF ClearErrors, At, hwVars, devctlVars, mdriverVars, threadVars
  <1>8. CASE ReadSources
    BY <1>8 DEF ReadSources, hwVars, errVars, devctlVars, mdriverVars, threadVars
  <1>9. CASE ServeRx
    BY <1>9 DEF ServeRx, hwVars, errVars, devctlVars, mdriverVars, threadVars
  <1>10. CASE RxClear
    BY <1>10 DEF RxClear, At, errVars, devctlVars, mdriverVars, threadVars
  <1>11. CASE RxReset
    BY <1>11 DEF RxReset, At, Enqueued, errVars, devctlVars, mdriverVars, threadVars,
       PlacesTyped,
       Taken, Taking
  <1>12. CASE ServeTx
    <2>1. Lowest(iflag2) \in iflag2 /\ Lowest(iflag2) \in Mb
      BY <1>12, LowestIn DEF ServeTx, PlacesTyped
    <2>0. msg_list[Lowest(iflag2)] \in Seq(Nat)
      BY <2>1 DEF ListsTyped
    <2>2. CASE msg_list[Lowest(iflag2)] # <<>> /\ Len(msg_list[Lowest(iflag2)]) > 1
      <3>1. msg_list[Lowest(iflag2)][2] \in Nat
        <4>1. Len(msg_list[Lowest(iflag2)]) \in Nat
          BY <2>0
        <4>. QED
          BY <2>0, <2>2, <4>1
      <3>. QED
        BY <1>12, <2>1, <2>2, <3>1
           DEF ServeTx, Acknowledge, RingoTx, errVars, devctlVars, mdriverVars, threadVars
    <2>3. CASE ~(msg_list[Lowest(iflag2)] # <<>> /\ Len(msg_list[Lowest(iflag2)]) > 1)
      BY <1>12, <2>3 DEF ServeTx, Acknowledge, RingoTx, errVars, devctlVars,
         mdriverVars, threadVars
    <2>. QED
      BY <2>2, <2>3
  <1>13. CASE Notify
    BY <1>13 DEF Notify, hwVars, errVars, devctlVars, mdriverVars, threadVars
  <1>14. CASE ClearSources
    BY <1>14 DEF ClearSources, At, errVars, devctlVars, mdriverVars, threadVars
  <1>15. CASE MdriverMsg
    BY <1>15 DEF MdriverMsg, MdriverNext, MdriverCopy, MdriverAdd, InThread, TakesOver,
       AtTail, hwVars, errVars, isrVars, devctlVars, mdriverVars
  <1>16. CASE MdriverDone
    BY <1>16 DEF MdriverDone, InThread, hwVars, errVars, isrVars, devctlVars, mdriverVars
  <1>17. CASE Transmit
    BY <1>17 DEF Transmit, MayStart, hwVars, errVars, isrVars, devctlVars, mdriverVars
  <1>18. CASE TransmitArm
    BY <1>18 DEF TransmitArm, InThread, RingoTx, errVars, isrVars, devctlVars,
       mdriverVars,
       PlacesTyped
  <1>19. CASE PrioRead
    BY <1>19 DEF PrioRead, InThread, Devctl, errVars, isrVars
  <1>20. CASE PrioWrite
    BY <1>20 DEF PrioWrite, InThread, Devctl, errVars, isrVars, ThreadAt, Codes
  <1>21. CASE Enable
    BY <1>21 DEF Enable, InThread, Devctl, errVars, isrVars
  <1>22. CASE FilterDisable
    BY <1>22 DEF FilterDisable, InThread, Devctl, errVars, isrVars
  <1>23. CASE FilterEnable
    BY <1>23 DEF FilterEnable, InThread, Devctl, errVars, isrVars
  <1>24. CASE Thaw
    BY <1>24 DEF Thaw, InThread, Devctl, errVars, isrVars, devctlVars, mdriverVars
  <1>25. CASE GetErrors
    BY <1>25 DEF GetErrors, InThread, hwVars, isrVars, devctlVars, mdriverVars
  <1>26. ASSUME NEW k \in Mb, Write(k) PROVE RegsTyped'
    BY <1>26 DEF Write, InThread, Enqueued, hwVars, errVars, isrVars, devctlVars,
       mdriverVars
  <1>27. ASSUME NEW k \in Mb, Read(k) PROVE RegsTyped'
    <2>1. Head(msg_list[k]) \in Nat
      BY <1>27 DEF Read, ListsTyped
    <2>. QED
      BY <1>27, <2>1 DEF Read, InThread, hwVars, errVars, isrVars, devctlVars, mdriverVars
  <1>28. ASSUME NEW k \in Mb, Disable(k) PROVE RegsTyped'
    BY <1>28 DEF Disable, InThread, Devctl, errVars, isrVars
  <1>29. ASSUME NEW k \in Mb, Freeze(k) PROVE RegsTyped'
    BY <1>29 DEF Freeze, InThread, Devctl, errVars, isrVars, devctlVars, mdriverVars
  <1>. QED
    BY <1>1, <1>2, <1>3, <1>4, <1>5, <1>6, <1>7, <1>8, <1>9, <1>10, <1>11, <1>12,
       <1>13, <1>14, <1>15, <1>16, <1>17, <1>18, <1>19, <1>20, <1>21, <1>22, <1>23,
       <1>24, <1>25, <1>26, <1>27, <1>28, <1>29
       DEF CanNext, Isr, Thread, ThreadGoesOn, DevctlStep

(* The types of the lists, for every step.                                 *)
LEMMA ListsTypedKept ==
  ASSUME RegsTyped, ListsTyped, PlacesTyped, Taken, ThreadAt, CanNext
  PROVE  ListsTyped'
  <1>. USE CanAssumption, Mailboxes DEF ListsTyped, Room
  <1>1. ASSUME NEW k \in Mb, HwReceive(k) PROVE ListsTyped'
    BY <1>1 DEF HwReceive, Locked, Frozen, errVars, isrVars, devctlVars, mdriverVars,
       threadVars
  <1>2. ASSUME NEW k \in Mb, HwTransmit(k) PROVE ListsTyped'
    BY <1>2 DEF HwTransmit, Frozen, errVars, isrVars, devctlVars, mdriverVars, threadVars
  <1>3. ASSUME NEW e \in Errors, HwError(e) PROVE ListsTyped'
    BY <1>3 DEF HwError, hwVars, isrVars, devctlVars, mdriverVars, threadVars
  <1>4. CASE Interrupt
    BY <1>4 DEF Interrupt, At, hwVars, errVars, devctlVars, mdriverVars, threadVars
  <1>5. CASE InterruptError
    BY <1>5 DEF InterruptError, At, hwVars, errVars, devctlVars, mdriverVars, threadVars
  <1>6. CASE KeepErrors
    BY <1>6 DEF KeepErrors, At, hwVars, devctlVars, mdriverVars, threadVars
  <1>7. CASE ClearErrors
    BY <1>7 DEF ClearErrors, At, hwVars, devctlVars, mdriverVars, threadVars
  <1>8. CASE ReadSources
    BY <1>8 DEF ReadSources, hwVars, errVars, devctlVars, mdriverVars, threadVars
  <1>9. CASE ServeRx
    BY <1>9 DEF ServeRx, hwVars, errVars, devctlVars, mdriverVars, threadVars
  <1>10. CASE RxClear
    BY <1>10 DEF RxClear, At, errVars, devctlVars, mdriverVars, threadVars
  <1>11. CASE RxReset
    <2>1. candata[mbxid] \in Nat /\ mbxid \in Mb /\ Room(mbxid)
      BY <1>11 DEF RxReset, At, Taken, Taking, RegsTyped
    <2>2. Append(msg_list[mbxid], candata[mbxid]) \in Seq(Nat)
      BY <2>1, Longer
    <2>3. Len(Append(msg_list[mbxid], candata[mbxid])) <= msgnum
      BY <2>1, Longer
    <2>. QED
      BY <1>11, <2>1, <2>2, <2>3 DEF RxReset, Enqueued
  <1>12. CASE ServeTx
    <2>1. Lowest(iflag2) \in iflag2 /\ Lowest(iflag2) \in Mb
      BY <1>12, LowestIn DEF ServeTx, PlacesTyped
    <2>2. CASE msg_list[Lowest(iflag2)] # <<>>
      <3>1. Tail(msg_list[Lowest(iflag2)]) \in Seq(Nat) /\ Len(Tail(msg_list[Lowest(iflag2)])) <= msgnum
        <4>1. msg_list[Lowest(iflag2)] \in Seq(Nat)
          BY <2>1
        <4>2. Len(msg_list[Lowest(iflag2)]) <= msgnum
          BY <2>1
        <4>3. Len(msg_list[Lowest(iflag2)]) \in Nat
          BY <4>1
        <4>. QED
          BY <2>2, <4>1, <4>2, <4>3, Shorter
      <3>2. msg_list' = [msg_list EXCEPT ![Lowest(iflag2)] = Tail(@)]
        BY <1>12, <2>2 DEF ServeTx, Acknowledge
      <3>. QED
        BY <2>1, <3>1, <3>2
    <2>3. CASE msg_list[Lowest(iflag2)] = <<>>
      BY <1>12, <2>3 DEF ServeTx, Acknowledge, RingoTx, errVars, devctlVars,
         mdriverVars, threadVars
    <2>. QED
      BY <2>2, <2>3
  <1>13. CASE Notify
    BY <1>13 DEF Notify, hwVars, errVars, devctlVars, mdriverVars, threadVars
  <1>14. CASE ClearSources
    BY <1>14 DEF ClearSources, At, errVars, devctlVars, mdriverVars, threadVars
  <1>15. CASE MdriverNext
    BY <1>15 DEF MdriverNext
  <1>30. CASE MdriverCopy
    <2>1. mi \in 1 .. Len(Buffered) /\ Buffered[mi] \in RxMb /\ BufferedFor(Buffered[mi], mi) \in Nat
      BY <1>30, Numbered DEF MdriverCopy, InThread, ThreadAt
    <2>2. CASE ~Room(Buffered[mi])
      <3>1. PICK x \in Nat : msg_list' = [msg_list EXCEPT ![Buffered[mi]][msgnum] = x]
        BY <1>30, <2>1, <2>2 DEF MdriverCopy, Torn
      <3>2. msg_list[Buffered[mi]] \in Seq(Nat) /\ Len(msg_list[Buffered[mi]]) \in Nat
        BY <2>1, Entries
      <3>4. msgnum \in 1 .. Len(msg_list[Buffered[mi]])
        BY <2>1, <2>2, <3>2, CanAssumption
      <3>3. /\ [msg_list[Buffered[mi]] EXCEPT ![msgnum] = x] \in Seq(Nat)
            /\ Len([msg_list[Buffered[mi]] EXCEPT ![msgnum] = x]) = Len(msg_list[Buffered[mi]])
        BY <3>2, <3>4, ExceptSeq
      <3>. QED
        BY <2>1, <3>1, <3>3
    <2>. QED
      BY <1>30, <2>2 DEF MdriverCopy
  <1>31. CASE MdriverAdd
    <2>1. mi \in 1 .. Len(Buffered) /\ Buffered[mi] \in RxMb /\ BufferedFor(Buffered[mi], mi) \in Nat
      BY <1>31, Numbered DEF MdriverAdd, InThread, ThreadAt
    <2>2. CASE Room(Buffered[mi])
      <3>3. <<BufferedFor(Buffered[mi], mi)>> \o msg_list[Buffered[mi]] \in Seq(Nat)
        BY <2>1, Longer
      <3>4. Len(<<BufferedFor(Buffered[mi], mi)>> \o msg_list[Buffered[mi]]) <= msgnum
        BY <2>1, <2>2, Longer
      <3>5. msg_list' = [msg_list EXCEPT ![Buffered[mi]] = <<BufferedFor(Buffered[mi], mi)>> \o @]
        BY <1>31, <2>2 DEF MdriverAdd, AtTail
      <3>. QED
        BY <2>1, <3>3, <3>4, <3>5
    <2>. QED
      BY <1>31, <2>2 DEF MdriverAdd
  <1>16. CASE MdriverDone
    BY <1>16 DEF MdriverDone, InThread, hwVars, errVars, isrVars, devctlVars, mdriverVars
  <1>17. CASE Transmit
    BY <1>17 DEF Transmit, MayStart, hwVars, errVars, isrVars, devctlVars, mdriverVars
  <1>18. CASE TransmitArm
    BY <1>18 DEF TransmitArm, InThread, RingoTx, errVars, isrVars, devctlVars, mdriverVars
  <1>19. CASE PrioRead
    BY <1>19 DEF PrioRead, InThread, Devctl, errVars, isrVars
  <1>20. CASE PrioWrite
    BY <1>20 DEF PrioWrite, InThread, Devctl, errVars, isrVars
  <1>21. CASE Enable
    BY <1>21 DEF Enable, InThread, Devctl, errVars, isrVars
  <1>22. CASE FilterDisable
    BY <1>22 DEF FilterDisable, InThread, Devctl, errVars, isrVars
  <1>23. CASE FilterEnable
    BY <1>23 DEF FilterEnable, InThread, Devctl, errVars, isrVars
  <1>24. CASE Thaw
    BY <1>24 DEF Thaw, InThread, Devctl, errVars, isrVars, devctlVars, mdriverVars
  <1>25. CASE GetErrors
    BY <1>25 DEF GetErrors, InThread, hwVars, isrVars, devctlVars, mdriverVars
  <1>26. ASSUME NEW k \in Mb, Write(k) PROVE ListsTyped'
    <2>1. count[k] + 1 \in Nat /\ Room(k)
      BY <1>26 DEF Write, RegsTyped
    <2>2. Append(msg_list[k], count[k] + 1) \in Seq(Nat)
      BY <2>1, Longer
    <2>3. Len(Append(msg_list[k], count[k] + 1)) <= msgnum
      BY <2>1, Longer
    <2>. QED
      BY <1>26, <2>1, <2>2, <2>3 DEF Write, Enqueued
  <1>27. ASSUME NEW k \in Mb, Read(k) PROVE ListsTyped'
    BY <1>27 DEF Read, InThread, hwVars, errVars, isrVars, devctlVars, mdriverVars
  <1>28. ASSUME NEW k \in Mb, Disable(k) PROVE ListsTyped'
    BY <1>28 DEF Disable, InThread, Devctl, errVars, isrVars
  <1>29. ASSUME NEW k \in Mb, Freeze(k) PROVE ListsTyped'
    BY <1>29 DEF Freeze, InThread, Devctl, errVars, isrVars, devctlVars, mdriverVars
  <1>. QED
    BY <1>1, <1>2, <1>3, <1>4, <1>5, <1>6, <1>7, <1>8, <1>9, <1>10, <1>11, <1>12,
       <1>13, <1>14, <1>15, <1>16, <1>17, <1>18, <1>19, <1>20, <1>21, <1>22, <1>23,
       <1>24, <1>25, <1>26, <1>27, <1>28, <1>29, <1>30, <1>31
       DEF CanNext, Isr, Thread, ThreadGoesOn, MdriverMsg, DevctlStep

(* The types of the rest, for every step.                                  *)
LEMMA PlacesTypedKept ==
  ASSUME RegsTyped, ListsTyped, PlacesTyped, Taken, ThreadAt, CanNext
  PROVE  PlacesTyped'
  <1>. USE Mailboxes DEF PlacesTyped
  <1>1. ASSUME NEW k \in Mb, HwReceive(k) PROVE PlacesTyped'
    BY <1>1 DEF HwReceive, Locked, Frozen, errVars, isrVars, devctlVars, mdriverVars,
       threadVars
  <1>2. ASSUME NEW k \in Mb, HwTransmit(k) PROVE PlacesTyped'
    BY <1>2 DEF HwTransmit, Frozen, errVars, isrVars, devctlVars, mdriverVars, threadVars
  <1>3. ASSUME NEW e \in Errors, HwError(e) PROVE PlacesTyped'
    BY <1>3 DEF HwError, hwVars, isrVars, devctlVars, mdriverVars, threadVars
  <1>4. CASE Interrupt
    BY <1>4 DEF Interrupt, At, hwVars, errVars, devctlVars, mdriverVars, threadVars
  <1>5. CASE InterruptError
    BY <1>5 DEF InterruptError, At, hwVars, errVars, devctlVars, mdriverVars, threadVars
  <1>6. CASE KeepErrors
    BY <1>6 DEF KeepErrors, At, hwVars, devctlVars, mdriverVars, threadVars
  <1>7. CASE ClearErrors
    BY <1>7 DEF ClearErrors, At, hwVars, devctlVars, mdriverVars, threadVars
  <1>8. CASE ReadSources
    BY <1>8 DEF ReadSources, hwVars, errVars, devctlVars, mdriverVars, threadVars
  <1>9. CASE ServeRx
    <2>1. Lowest(iflag1) \in iflag1
      BY <1>9, LowestIn DEF ServeRx
    <2>. QED
      BY <1>9, <2>1 DEF ServeRx, hwVars, errVars, devctlVars, mdriverVars, threadVars
  <1>10. CASE RxClear
    BY <1>10 DEF RxClear, At, errVars, devctlVars, mdriverVars, threadVars
  <1>11. CASE RxReset
    BY <1>11 DEF RxReset, At, Enqueued, errVars, devctlVars, mdriverVars, threadVars
  <1>12. CASE ServeTx
    <2>1. Lowest(iflag2) \in iflag2 /\ Lowest(iflag2) \in Mb
      BY <1>12, LowestIn DEF ServeTx, PlacesTyped
    <2>2. dflags' \subseteq dflags
      BY <1>12 DEF ServeTx, Acknowledge
    <2>. QED
      BY <1>12, <2>1, <2>2 DEF ServeTx, errVars, devctlVars, mdriverVars, threadVars
  <1>13. CASE Notify
    BY <1>13 DEF Notify, hwVars, errVars, devctlVars, mdriverVars, threadVars
  <1>14. CASE ClearSources
    BY <1>14 DEF ClearSources, At, errVars, devctlVars, mdriverVars, threadVars
  <1>15. CASE MdriverMsg
    <2>1. CASE MdriverNext
      BY <2>1 DEF MdriverNext, InThread, hwVars, errVars, isrVars, devctlVars
    <2>2. CASE MdriverCopy
      <3>1. overwritten' \subseteq RxMb
        BY <2>2 DEF MdriverCopy, InThread, ThreadAt
      <3>. QED
        BY <2>2, <3>1 DEF MdriverCopy, InThread, hwVars, errVars, isrVars, devctlVars
    <2>3. CASE MdriverAdd
      <3>1. mi' \in 0 .. Len(Buffered)
        BY <2>3, CanAssumption DEF MdriverAdd, InThread, ThreadAt
      <3>. QED
        BY <2>3, <3>1 DEF MdriverAdd, InThread, hwVars, errVars, isrVars, devctlVars
    <2>. QED
      BY <1>15, <2>1, <2>2, <2>3 DEF MdriverMsg
  <1>16. CASE MdriverDone
    BY <1>16 DEF MdriverDone, InThread, hwVars, errVars, isrVars, devctlVars, mdriverVars
  <1>17. CASE Transmit
    <2>1. CASE MayStart
      <3>1. Head(msg_list[tmb]) \in Nat
        BY <1>17, <2>1 DEF Transmit, MayStart, ThreadAt, ListsTyped
      <3>. QED
        BY <1>17, <2>1, <3>1
           DEF Transmit, hwVars, errVars, isrVars, devctlVars, mdriverVars, ThreadAt
    <2>2. CASE ~MayStart
      BY <1>17, <2>2 DEF Transmit, hwVars, errVars, isrVars, devctlVars, mdriverVars
    <2>. QED
      BY <2>1, <2>2
  <1>18. CASE TransmitArm
    BY <1>18 DEF TransmitArm, InThread, RingoTx, errVars, isrVars, devctlVars, mdriverVars
  <1>19. CASE PrioRead
    BY <1>19 DEF PrioRead, InThread, Devctl, errVars, isrVars, mdriverVars, RegsTyped,
       ThreadAt
  <1>20. CASE PrioWrite
    BY <1>20 DEF PrioWrite, InThread, Devctl, errVars, isrVars, mdriverVars
  <1>21. CASE Enable
    BY <1>21 DEF Enable, InThread, Devctl, errVars, isrVars, mdriverVars, ThreadAt
  <1>22. CASE FilterDisable
    BY <1>22 DEF FilterDisable, InThread, Devctl, errVars, isrVars, mdriverVars
  <1>23. CASE FilterEnable
    BY <1>23 DEF FilterEnable, InThread, Devctl, errVars, isrVars, mdriverVars, ThreadAt
  <1>24. CASE Thaw
    BY <1>24 DEF Thaw, InThread, Devctl, errVars, isrVars, devctlVars, mdriverVars
  <1>25. CASE GetErrors
    BY <1>25 DEF GetErrors, InThread, hwVars, isrVars, devctlVars, mdriverVars
  <1>26. ASSUME NEW k \in Mb, Write(k) PROVE PlacesTyped'
    BY <1>26 DEF Write, InThread, Enqueued, hwVars, errVars, isrVars, devctlVars,
       mdriverVars
  <1>27. ASSUME NEW k \in Mb, Read(k) PROVE PlacesTyped'
    BY <1>27 DEF Read, InThread, hwVars, errVars, isrVars, devctlVars, mdriverVars
  <1>28. ASSUME NEW k \in Mb, Disable(k) PROVE PlacesTyped'
    BY <1>28 DEF Disable, InThread, Devctl, errVars, isrVars, mdriverVars
  <1>29. ASSUME NEW k \in Mb, Freeze(k) PROVE PlacesTyped'
    BY <1>29 DEF Freeze, InThread, Devctl, errVars, isrVars, devctlVars, mdriverVars
  <1>. QED
    BY <1>1, <1>2, <1>3, <1>4, <1>5, <1>6, <1>7, <1>8, <1>9, <1>10, <1>11, <1>12,
       <1>13, <1>14, <1>15, <1>16, <1>17, <1>18, <1>19, <1>20, <1>21, <1>22, <1>23,
       <1>24, <1>25, <1>26, <1>27, <1>28, <1>29
       DEF CanNext, Isr, Thread, ThreadGoesOn, DevctlStep

(* What the thread works on, for every step.                               *)
LEMMA ThreadAtKept ==
  ASSUME RegsTyped, ListsTyped, PlacesTyped, Taken, ThreadAt, CanNext
  PROVE  ThreadAt'
  <1>. USE Mailboxes DEF PlacesTyped, RegsTyped, ThreadAt
  <1>1. ASSUME NEW k \in Mb, HwReceive(k) PROVE ThreadAt'
    BY <1>1 DEF HwReceive, Locked, Frozen, errVars, isrVars, devctlVars, mdriverVars,
       threadVars
  <1>2. ASSUME NEW k \in Mb, HwTransmit(k) PROVE ThreadAt'
    BY <1>2 DEF HwTransmit, Frozen, errVars, isrVars, devctlVars, mdriverVars, threadVars
  <1>3. ASSUME NEW e \in Errors, HwError(e) PROVE ThreadAt'
    BY <1>3 DEF HwError, hwVars, isrVars, devctlVars, mdriverVars, threadVars
  <1>4. CASE Interrupt
    BY <1>4 DEF Interrupt, At, hwVars, errVars, devctlVars, mdriverVars, threadVars
  <1>5. CASE InterruptError
    BY <1>5 DEF InterruptError, At, hwVars, errVars, devctlVars, mdriverVars, threadVars
  <1>6. CASE KeepErrors
    BY <1>6 DEF KeepErrors, At, hwVars, devctlVars, mdriverVars, threadVars
  <1>7. CASE ClearErrors
    BY <1>7 DEF ClearErrors, At, hwVars, devctlVars, mdriverVars, threadVars
  <1>8. CASE ReadSources
    BY <1>8 DEF ReadSources, hwVars, errVars, devctlVars, mdriverVars, threadVars
  <1>9. CASE ServeRx
    BY <1>9 DEF ServeRx, hwVars, errVars, devctlVars, mdriverVars, threadVars
  <1>10. CASE RxClear
    BY <1>10 DEF RxClear, At, errVars, devctlVars, mdriverVars, threadVars
  <1>11. CASE RxReset
    BY <1>11 DEF RxReset, At, Enqueued, errVars, devctlVars, mdriverVars, threadVars
  <1>12. CASE ServeTx
    BY <1>12 DEF ServeTx, Acknowledge, RingoTx, errVars, devctlVars, mdriverVars,
       threadVars
  <1>13. CASE Notify
    BY <1>13 DEF Notify, hwVars, errVars, devctlVars, mdriverVars, threadVars
  <1>14. CASE ClearSources
    BY <1>14 DEF ClearSources, At, errVars, devctlVars, mdriverVars, threadVars
  <1>15. CASE MdriverMsg
    <2>1. CASE MdriverNext
      <3>1. CASE TakesOver(mi)
        <4>1. mi \in 1 .. Len(Buffered)
          BY <2>1 DEF MdriverNext, PlacesTyped
        <4>2. Buffered[mi] \in RxMb
          BY <3>1, <4>1, BelongsTo DEF TakesOver
        <4>3. thread' = "mcopy" /\ mi' = mi
          BY <2>1, <3>1 DEF MdriverNext, InThread
        <4>. QED
          BY <4>1, <4>2, <4>3 DEF ThreadAt
      <3>2. CASE ~TakesOver(mi)
        BY <2>1, <3>2 DEF MdriverNext, InThread
      <3>. QED
        BY <3>1, <3>2
    <2>2. CASE MdriverCopy
      BY <2>2 DEF MdriverCopy, InThread
    <2>3. CASE MdriverAdd
      BY <2>3 DEF MdriverAdd, InThread
    <2>. QED
      BY <1>15, <2>1, <2>2, <2>3 DEF MdriverMsg
  <1>16. CASE MdriverDone
    BY <1>16 DEF MdriverDone, InThread, hwVars, errVars, isrVars, devctlVars, mdriverVars
  <1>17. CASE Transmit
    BY <1>17 DEF Transmit, MayStart, hwVars, errVars, isrVars, devctlVars, mdriverVars
  <1>18. CASE TransmitArm
    BY <1>18 DEF TransmitArm, InThread, RingoTx, errVars, isrVars, devctlVars, mdriverVars
  <1>19. CASE PrioRead
    BY <1>19 DEF PrioRead, InThread, Devctl, errVars, isrVars
  <1>20. CASE PrioWrite
    BY <1>20 DEF PrioWrite, InThread, Devctl, errVars, isrVars
  <1>21. CASE Enable
    BY <1>21 DEF Enable, InThread, Devctl, errVars, isrVars
  <1>22. CASE FilterDisable
    BY <1>22 DEF FilterDisable, InThread, Devctl, errVars, isrVars
  <1>23. CASE FilterEnable
    BY <1>23 DEF FilterEnable, InThread, Devctl, errVars, isrVars
  <1>24. CASE Thaw
    BY <1>24 DEF Thaw, InThread, Devctl, errVars, isrVars, devctlVars, mdriverVars
  <1>25. CASE GetErrors
    BY <1>25 DEF GetErrors, InThread, hwVars, isrVars, devctlVars, mdriverVars
  <1>26. ASSUME NEW k \in Mb, Write(k) PROVE ThreadAt'
    BY <1>26 DEF Write, InThread, Enqueued, hwVars, errVars, isrVars, devctlVars,
       mdriverVars
  <1>27. ASSUME NEW k \in Mb, Read(k) PROVE ThreadAt'
    BY <1>27 DEF Read, InThread, hwVars, errVars, isrVars, devctlVars, mdriverVars
  <1>28. ASSUME NEW k \in Mb, Disable(k) PROVE ThreadAt'
    BY <1>28 DEF Disable, InThread, Devctl, errVars, isrVars
  <1>29. ASSUME NEW k \in Mb, Freeze(k) PROVE ThreadAt'
    BY <1>29 DEF Freeze, InThread, Devctl, errVars, isrVars, devctlVars, mdriverVars
  <1>. QED
    BY <1>1, <1>2, <1>3, <1>4, <1>5, <1>6, <1>7, <1>8, <1>9, <1>10, <1>11, <1>12,
       <1>13, <1>14, <1>15, <1>16, <1>17, <1>18, <1>19, <1>20, <1>21, <1>22, <1>23,
       <1>24, <1>25, <1>26, <1>27, <1>28, <1>29
       DEF CanNext, Isr, Thread, ThreadGoesOn, DevctlStep

(* What the handler takes, for every step.                                 *)
LEMMA TakenKept ==
  ASSUME RegsTyped, ListsTyped, PlacesTyped, Taken, ThreadAt, CanNext
  PROVE  Taken'
  <1>. USE Mailboxes DEF PlacesTyped, Taken, Taking, Room
  <1>1. ASSUME NEW k \in Mb, HwReceive(k) PROVE Taken'
    BY <1>1 DEF HwReceive, Locked, Frozen, errVars, isrVars, devctlVars, mdriverVars,
       threadVars
  <1>2. ASSUME NEW k \in Mb, HwTransmit(k) PROVE Taken'
    BY <1>2 DEF HwTransmit, Frozen, errVars, isrVars, devctlVars, mdriverVars, threadVars
  <1>3. ASSUME NEW e \in Errors, HwError(e) PROVE Taken'
    BY <1>3 DEF HwError, hwVars, isrVars, devctlVars, mdriverVars, threadVars
  <1>4. CASE Interrupt
    BY <1>4 DEF Interrupt, At, hwVars, errVars, devctlVars, mdriverVars, threadVars
  <1>5. CASE InterruptError
    BY <1>5 DEF InterruptError, At, hwVars, errVars, devctlVars, mdriverVars, threadVars
  <1>6. CASE KeepErrors
    BY <1>6 DEF KeepErrors, At, hwVars, devctlVars, mdriverVars, threadVars
  <1>7. CASE ClearErrors
    BY <1>7 DEF ClearErrors, At, hwVars, devctlVars, mdriverVars, threadVars
  <1>8. CASE ReadSources
    BY <1>8 DEF ReadSources, hwVars, errVars, devctlVars, mdriverVars, threadVars
  <1>9. CASE ServeRx
    <2>1. Lowest(iflag1) \in iflag1
      BY <1>9, LowestIn DEF ServeRx
    <2>. QED
      BY <1>9, <2>1 DEF ServeRx, hwVars, errVars, devctlVars, mdriverVars, threadVars
  <1>10. CASE RxClear
    BY <1>10 DEF RxClear, At, errVars, devctlVars, mdriverVars, threadVars
  <1>11. CASE RxReset
    BY <1>11 DEF RxReset, At, Enqueued, errVars, devctlVars, mdriverVars, threadVars
  <1>12. CASE ServeTx
    BY <1>12 DEF ServeTx, Acknowledge, RingoTx, errVars, devctlVars, mdriverVars,
       threadVars
  <1>13. CASE Notify
    BY <1>13 DEF Notify, hwVars, errVars, devctlVars, mdriverVars, threadVars
  <1>14. CASE ClearSources
    BY <1>14 DEF ClearSources, At, errVars, devctlVars, mdriverVars, threadVars
  <1>15. CASE MdriverMsg
    BY <1>15 DEF MdriverMsg, MdriverNext, MdriverCopy, MdriverAdd, InThread, TakesOver,
       AtTail, hwVars, errVars, isrVars, devctlVars, mdriverVars
  <1>16. CASE MdriverDone
    BY <1>16 DEF MdriverDone, InThread, hwVars, errVars, isrVars, devctlVars, mdriverVars
  <1>17. CASE Transmit
    BY <1>17 DEF Transmit, MayStart, hwVars, errVars, isrVars, devctlVars, mdriverVars
  <1>18. CASE TransmitArm
    BY <1>18 DEF TransmitArm, InThread, RingoTx, errVars, isrVars, devctlVars, mdriverVars
  <1>19. CASE PrioRead
    BY <1>19 DEF PrioRead, InThread, Devctl, errVars, isrVars
  <1>20. CASE PrioWrite
    BY <1>20 DEF PrioWrite, InThread, Devctl, errVars, isrVars
  <1>21. CASE Enable
    BY <1>21 DEF Enable, InThread, Devctl, errVars, isrVars
  <1>22. CASE FilterDisable
    BY <1>22 DEF FilterDisable, InThread, Devctl, errVars, isrVars
  <1>23. CASE FilterEnable
    BY <1>23 DEF FilterEnable, InThread, Devctl, errVars, isrVars
  <1>24. CASE Thaw
    BY <1>24 DEF Thaw, InThread, Devctl, errVars, isrVars, devctlVars, mdriverVars
  <1>25. CASE GetErrors
    BY <1>25 DEF GetErrors, InThread, hwVars, isrVars, devctlVars, mdriverVars
  <1>26. ASSUME NEW k \in Mb, Write(k) PROVE Taken'
    BY <1>26 DEF Write, InThread, Enqueued, hwVars, errVars, isrVars, devctlVars,
       mdriverVars
  <1>27. ASSUME NEW k \in Mb, Read(k) PROVE Taken'
    BY <1>27 DEF Read, InThread, hwVars, errVars, isrVars, devctlVars, mdriverVars
  <1>28. ASSUME NEW k \in Mb, Disable(k) PROVE Taken'
    BY <1>28 DEF Disable, InThread, Devctl, errVars, isrVars
  <1>29. ASSUME NEW k \in Mb, Freeze(k) PROVE Taken'
    BY <1>29 DEF Freeze, InThread, Devctl, errVars, isrVars, devctlVars, mdriverVars
  <1>. QED
    BY <1>1, <1>2, <1>3, <1>4, <1>5, <1>6, <1>7, <1>8, <1>9, <1>10, <1>11, <1>12,
       <1>13, <1>14, <1>15, <1>16, <1>17, <1>18, <1>19, <1>20, <1>21, <1>22, <1>23,
       <1>24, <1>25, <1>26, <1>27, <1>28, <1>29
       DEF CanNext, Isr, Thread, ThreadGoesOn, DevctlStep

-----------------------------------------------------------------------------
(* What a step does to a receive mailbox: nothing, or nothing but lower    *)
(* its flag or take over a message of another; receive; take the message   *)
(* out; take over one of the mini-driver's; give one to a client.          *)
Quiet(m) ==
  /\ UNCHANGED <<msg_list[m], count[m], done[m], candata[m]>>
  /\ Raised(m)' => Raised(m)
  /\ Starting' => Starting /\ BufferedFor(m, mi') <= BufferedFor(m, mi)

Receives(m) ==
  /\ UNCHANGED <<msg_list[m], done[m], Starting, mi>>
  /\ count'[m] = count[m] + 1 /\ candata'[m] = count[m] + 1

TakesOut(m) ==
  /\ UNCHANGED <<count[m], done[m], candata[m], Starting, mi>>
  /\ msg_list'[m] = Append(msg_list[m], candata[m])
  /\ Raised(m) /\ ~Raised(m)'

Inherits(m) ==
  /\ UNCHANGED <<count[m], done[m], candata[m], Starting>>
  /\ Raised(m)' => Raised(m)
  /\ Starting /\ mi \in 1 .. Len(Buffered) /\ mi' = mi - 1 /\ Buffered[mi] = m
  /\ msg_list'[m] = <<BufferedFor(m, mi)>> \o msg_list[m]

GivesOut(m) ==
  /\ UNCHANGED <<count[m], candata[m]>>
  /\ Raised(m)' => Raised(m)
  /\ ~Starting'
  /\ msg_list[m] # <<>> /\ done'[m] = Head(msg_list[m]) /\ msg_list'[m] = Tail(msg_list[m])

RxStep(m) == Quiet(m) \/ Receives(m) \/ TakesOut(m) \/ Inherits(m) \/ GivesOut(m)

(* Every step is one of these, unless it copies a message over another.    *)
LEMMA RxSteps ==
  ASSUME RegsTyped, ListsTyped, PlacesTyped, Taken, ThreadAt, NEW m \in RxMb, CanNext,
         m \notin overwritten'
  PROVE  RxStep(m)
  <1>a. BufferedFor(m, mi) <= BufferedFor(m, mi)
    <2>1. BufferedFor(m, mi) \in Nat
      BY Numbered DEF PlacesTyped
    <2>. QED
      BY <2>1
  <1>. USE <1>a, Mailboxes DEF RxStep, Quiet, Raised, Taking, Starting
  <1>1. ASSUME NEW k \in Mb, HwReceive(k) PROVE RxStep(m)
    <2>1. CASE k = m
      BY <1>1, <2>1 DEF RegsTyped, Receives, HwReceive, Locked, Frozen, errVars,
         isrVars, devctlVars, mdriverVars, threadVars
    <2>2. CASE k # m
      BY <1>1, <2>2 DEF HwReceive, Locked, Frozen, errVars, isrVars, devctlVars,
         mdriverVars,
         threadVars
    <2>. QED
      BY <2>1, <2>2
  <1>2. ASSUME NEW k \in Mb, HwTransmit(k) PROVE RxStep(m)
    BY <1>2 DEF HwTransmit, Frozen, errVars, isrVars, devctlVars, mdriverVars, threadVars
  <1>3. ASSUME NEW e \in Errors, HwError(e) PROVE RxStep(m)
    BY <1>3 DEF HwError, hwVars, isrVars, devctlVars, mdriverVars, threadVars
  <1>4. CASE Interrupt
    BY <1>4 DEF Interrupt, At, hwVars, errVars, devctlVars, mdriverVars, threadVars
  <1>5. CASE InterruptError
    BY <1>5 DEF InterruptError, At, hwVars, errVars, devctlVars, mdriverVars, threadVars
  <1>6. CASE KeepErrors
    BY <1>6 DEF KeepErrors, At, hwVars, devctlVars, mdriverVars, threadVars
  <1>7. CASE ClearErrors
    BY <1>7 DEF ClearErrors, At, hwVars, devctlVars, mdriverVars, threadVars
  <1>8. CASE ReadSources
    BY <1>8 DEF ReadSources, hwVars, errVars, devctlVars, mdriverVars, threadVars
  <1>9. CASE ServeRx
    <2>1. Lowest(iflag1) \in iflag1
      BY <1>9, LowestIn DEF ServeRx, PlacesTyped
    <2>. QED
      BY <1>9, <2>1 DEF ServeRx, hwVars, errVars, devctlVars, mdriverVars, threadVars
  <1>10. CASE RxClear
    BY <1>10 DEF RxClear, At, errVars, devctlVars, mdriverVars, threadVars
  <1>11. CASE RxReset
    <2>1. CASE mbxid = m
      BY <1>11, <2>1 DEF ListsTyped, RegsTyped, Taken, TakesOut, RxReset, At, Enqueued,
         errVars, devctlVars, mdriverVars, threadVars
    <2>2. CASE mbxid # m
      BY <1>11, <2>2 DEF ListsTyped, RegsTyped, RxReset, At, Enqueued, errVars,
         devctlVars, mdriverVars, threadVars
    <2>. QED
      BY <2>1, <2>2
  <1>12. CASE ServeTx
    <2>1. Lowest(iflag2) \in iflag2 /\ Lowest(iflag2) \in Mb
      BY <1>12, LowestIn DEF ServeTx, PlacesTyped
    <2>2. m # Lowest(iflag2)
      BY <1>12, <2>1 DEF PlacesTyped
    <2>3. msg_list'[m] = msg_list[m]
      BY <1>12, <2>2 DEF ServeTx, Acknowledge, ListsTyped
    <2>4. candata'[m] = candata[m]
      BY <1>12, <2>2 DEF ServeTx, Acknowledge, RingoTx, RegsTyped
    <2>. QED
      BY <1>12, <2>3, <2>4 DEF ServeTx, errVars, devctlVars, mdriverVars, threadVars
  <1>13. CASE Notify
    BY <1>13 DEF Notify, hwVars, errVars, devctlVars, mdriverVars, threadVars
  <1>14. CASE ClearSources
    BY <1>14 DEF ClearSources, At, errVars, devctlVars, mdriverVars, threadVars
  <1>15. CASE MdriverNext
    <2>1. mi \in 1 .. Len(Buffered)
      BY <1>15 DEF MdriverNext, PlacesTyped
    <2>2. BufferedFor(m, mi - 1) <= BufferedFor(m, mi)
      BY <2>1, Numbered
    <2>. QED
      BY <1>15, <2>2 DEF MdriverNext, InThread, hwVars, errVars, isrVars, devctlVars
  <1>30. CASE MdriverCopy
    <2>1. msg_list'[m] = msg_list[m]
      <3>1. CASE Room(Buffered[mi])
        BY <1>30, <3>1 DEF MdriverCopy
      <3>2. CASE ~Room(Buffered[mi])
        <4>1. m # Buffered[mi]
          BY <1>30, <3>2 DEF MdriverCopy
        <4>. QED
          BY <1>30, <3>2, <4>1 DEF MdriverCopy, ListsTyped
      <3>. QED
        BY <3>1, <3>2
    <2>. QED
      BY <1>30, <2>1 DEF MdriverCopy, InThread, hwVars, errVars, isrVars, devctlVars
  <1>31. CASE MdriverAdd
    <2>1. mi \in 1 .. Len(Buffered)
      BY <1>31 DEF MdriverAdd, InThread, ThreadAt
    <2>2. CASE Room(Buffered[mi]) /\ Buffered[mi] = m
      <3>1. msg_list'[m] = <<BufferedFor(m, mi)>> \o msg_list[m]
        BY <1>31, <2>2 DEF MdriverAdd, AtTail, ListsTyped
      <3>. QED
        BY <1>31, <2>1, <2>2, <3>1
           DEF Inherits, MdriverAdd, InThread, hwVars, errVars, isrVars, devctlVars
    <2>3. CASE ~(Room(Buffered[mi]) /\ Buffered[mi] = m)
      <3>1. msg_list'[m] = msg_list[m]
        BY <1>31, <2>3 DEF MdriverAdd, AtTail, ListsTyped
      <3>2. BufferedFor(m, mi - 1) <= BufferedFor(m, mi)
        BY <2>1, Numbered
      <3>. QED
        BY <1>31, <3>1, <3>2
           DEF MdriverAdd, InThread, hwVars, errVars, isrVars, devctlVars
    <2>. QED
      BY <2>2, <2>3
  <1>16. CASE MdriverDone
    BY <1>16 DEF MdriverDone, InThread, hwVars, errVars, isrVars, devctlVars, mdriverVars
  <1>17. CASE Transmit
    BY <1>17 DEF Transmit, MayStart, hwVars, errVars, isrVars, devctlVars, mdriverVars
  <1>18. CASE TransmitArm
    <2>1. candata'[m] = candata[m]
      BY <1>18 DEF TransmitArm, InThread, RingoTx, errVars, isrVars, devctlVars,
         mdriverVars,
         ThreadAt, RegsTyped
    <2>. QED
      BY <1>18, <2>1 DEF TransmitArm, InThread, RingoTx, errVars, isrVars, devctlVars,
         mdriverVars
  <1>19. CASE PrioRead
    BY <1>19 DEF PrioRead, InThread, Devctl, errVars, isrVars
  <1>20. CASE PrioWrite
    BY <1>20 DEF PrioWrite, InThread, Devctl, errVars, isrVars
  <1>21. CASE Enable
    BY <1>21 DEF Enable, InThread, Devctl, errVars, isrVars
  <1>22. CASE FilterDisable
    BY <1>22 DEF FilterDisable, InThread, Devctl, errVars, isrVars
  <1>23. CASE FilterEnable
    BY <1>23 DEF FilterEnable, InThread, Devctl, errVars, isrVars
  <1>24. CASE Thaw
    BY <1>24 DEF Thaw, InThread, Devctl, errVars, isrVars, devctlVars, mdriverVars
  <1>25. CASE GetErrors
    BY <1>25 DEF GetErrors, InThread, hwVars, isrVars, devctlVars, mdriverVars
  <1>26. ASSUME NEW k \in Mb, Write(k) PROVE RxStep(m)
    <2>1. msg_list'[m] = msg_list[m] /\ count'[m] = count[m]
      BY <1>26 DEF Write, InThread, Enqueued, hwVars, errVars, isrVars, devctlVars,
         mdriverVars,
         RegsTyped, ListsTyped
    <2>. QED
      BY <1>26, <2>1 DEF Write, InThread, Enqueued, hwVars, errVars, isrVars,
         devctlVars, mdriverVars
  <1>27. ASSUME NEW k \in Mb, Read(k) PROVE RxStep(m)
    <2>1. CASE k = m
      BY <1>27, <2>1 DEF GivesOut, ListsTyped, RegsTyped, Read, InThread, hwVars,
         errVars, isrVars, devctlVars, mdriverVars
    <2>2. CASE k # m
      BY <1>27, <2>2
         DEF ListsTyped, RegsTyped, Read, InThread, hwVars, errVars, isrVars,
            devctlVars, mdriverVars
    <2>. QED
      BY <2>1, <2>2
  <1>28. ASSUME NEW k \in Mb, Disable(k) PROVE RxStep(m)
    BY <1>28 DEF Disable, InThread, Devctl, errVars, isrVars
  <1>29. ASSUME NEW k \in Mb, Freeze(k) PROVE RxStep(m)
    BY <1>29 DEF Freeze, InThread, Devctl, errVars, isrVars, devctlVars, mdriverVars
  <1>. QED
    BY <1>1, <1>2, <1>3, <1>4, <1>5, <1>6, <1>7, <1>8, <1>9, <1>10, <1>11, <1>12,
       <1>13, <1>14, <1>15, <1>16, <1>17, <1>18, <1>19, <1>20, <1>21, <1>22, <1>23,
       <1>24, <1>25, <1>26, <1>27, <1>28, <1>29, <1>30, <1>31
       DEF CanNext, Isr, Thread, ThreadGoesOn, MdriverMsg, DevctlStep

(* What a list holds after a step.                                         *)
LEMMA HeldAfter ==
  ASSUME ListsTyped, NEW m \in RxMb
  PROVE  /\ Held(m) \subseteq Nat
         /\ UNCHANGED msg_list[m] => Held(m)' = Held(m)
         /\ \A x \in Nat : msg_list'[m] = Append(msg_list[m], x) => Held(m)' = Held(m) \cup {x}
         /\ \A x \in Nat : msg_list'[m] = <<x>> \o msg_list[m] => Held(m)' = Held(m) \cup {x}
         /\ msg_list'[m] = Tail(msg_list[m]) /\ msg_list[m] # <<>> =>
              Held(m)' \subseteq Held(m) /\ Head(msg_list[m]) \in Held(m)
  <1>a. msg_list[m] \in Seq(Nat) /\ Len(msg_list[m]) \in Nat
    BY Mailboxes, Entries
  <1>1. Held(m) \subseteq Nat
    BY Mailboxes, Entries DEF Held
  <1>2. UNCHANGED msg_list[m] => Held(m)' = Held(m)
    BY DEF Held
  <1>3. ASSUME NEW x \in Nat, msg_list'[m] = Append(msg_list[m], x)
        PROVE  Held(m)' = Held(m) \cup {x}
    <2>1. \A i \in 1 .. Len(msg_list'[m]) :
            \/ i \in 1 .. Len(msg_list[m]) /\ msg_list'[m][i] = msg_list[m][i]
            \/ i = Len(msg_list[m]) + 1 /\ msg_list'[m][i] = x
      BY <1>3, <1>a, Longer
    <2>2. \A i \in 1 .. Len(msg_list[m]) : i \in 1 .. Len(msg_list'[m]) /\ msg_list'[m][i] = msg_list[m][i]
      BY <1>3, <1>a, Longer
    <2>3. Len(msg_list[m]) + 1 \in 1 .. Len(msg_list'[m]) /\ msg_list'[m][Len(msg_list[m]) + 1] = x
      BY <1>3, <1>a, Longer
    <2>. QED
      BY <2>1, <2>2, <2>3 DEF Held
  <1>4. ASSUME NEW x \in Nat, msg_list'[m] = <<x>> \o msg_list[m]
        PROVE  Held(m)' = Held(m) \cup {x}
    <2>1. \A i \in 1 .. Len(msg_list'[m]) :
            \/ i = 1 /\ msg_list'[m][i] = x
            \/ i - 1 \in 1 .. Len(msg_list[m]) /\ msg_list'[m][i] = msg_list[m][i - 1]
      <3>1. /\ Len(msg_list'[m]) = Len(msg_list[m]) + 1 /\ msg_list'[m][1] = x
            /\ \A i \in 2 .. Len(msg_list[m]) + 1 : msg_list'[m][i] = msg_list[m][i - 1]
        BY <1>4, <1>a, Longer
      <3>. QED
        BY <1>a, <3>1
    <2>2. \A i \in 1 .. Len(msg_list[m]) :
            i + 1 \in 1 .. Len(msg_list'[m]) /\ msg_list'[m][i + 1] = msg_list[m][i]
      BY <1>4, <1>a, Longer
    <2>3. 1 \in 1 .. Len(msg_list'[m]) /\ msg_list'[m][1] = x
      BY <1>4, <1>a, Longer
    <2>4. Held(m)' \subseteq Held(m) \cup {x}
      BY <2>1 DEF Held
    <2>5. Held(m) \subseteq Held(m)' /\ x \in Held(m)'
      BY <2>2, <2>3 DEF Held
    <2>. QED
      BY <2>4, <2>5
  <1>5. ASSUME msg_list'[m] = Tail(msg_list[m]), msg_list[m] # <<>>
        PROVE  Held(m)' \subseteq Held(m) /\ Head(msg_list[m]) \in Held(m)
    <2>1. 1 \in 1 .. Len(msg_list[m]) /\ Head(msg_list[m]) = msg_list[m][1]
      BY <1>5, <1>a, Shorter
    <2>2. \A i \in 1 .. Len(msg_list'[m]) :
            i + 1 \in 1 .. Len(msg_list[m]) /\ msg_list'[m][i] = msg_list[m][i + 1]
      BY <1>5, <1>a, Shorter
    <2>. QED
      BY <2>1, <2>2 DEF Held
  <1>. QED
    BY <1>1, <1>2, <1>3, <1>4, <1>5

(* And its order.                                                          *)
LEMMA AscendingKept ==
  ASSUME RegsTyped, ListsTyped, NEW m \in RxMb, RxStep(m),
         Ascending(m), FreshData(m), Backwards(m)
  PROVE  Ascending(m)'
  <1>a. msg_list[m] \in Seq(Nat) /\ Len(msg_list[m]) \in Nat
    BY Mailboxes, Entries
  <1>b. \A i \in 1 .. Len(msg_list[m]) : msg_list[m][i] \in Held(m)
    BY DEF Held
  <1>1. ASSUME UNCHANGED msg_list[m] PROVE Ascending(m)'
    BY <1>1 DEF Ascending
  <1>2. CASE TakesOut(m)
    <2>1. candata[m] \in Nat /\ msg_list'[m] = Append(msg_list[m], candata[m])
      BY <1>2, Mailboxes DEF TakesOut, RegsTyped
    <2>2. \A i \in 1 .. Len(msg_list[m]) : msg_list[m][i] < candata[m]
      BY <1>2, <1>b DEF TakesOut, FreshData
    <2>3. SUFFICES ASSUME NEW i \in 1 .. Len(msg_list'[m]), NEW j \in 1 .. Len(msg_list'[m]), i < j
                   PROVE  msg_list'[m][i] < msg_list'[m][j]
      BY DEF Ascending
    <2>4. i \in 1 .. Len(msg_list[m]) /\ msg_list'[m][i] = msg_list[m][i]
      BY <1>a, <2>1, <2>3, Longer
    <2>5. \/ j \in 1 .. Len(msg_list[m]) /\ msg_list'[m][j] = msg_list[m][j]
          \/ msg_list'[m][j] = candata[m]
      BY <1>a, <2>1, <2>3, Longer
    <2>. QED
      BY <2>2, <2>3, <2>4, <2>5 DEF Ascending
  <1>3. CASE Inherits(m)
    <2>1. BufferedFor(m, mi) \in Nat /\ msg_list'[m] = <<BufferedFor(m, mi)>> \o msg_list[m]
      BY <1>3, Numbered DEF Inherits
    <2>2. \A i \in 1 .. Len(msg_list[m]) : BufferedFor(m, mi) < msg_list[m][i]
      BY <1>3, <1>b DEF Inherits, Backwards
    <2>3. SUFFICES ASSUME NEW i \in 1 .. Len(msg_list'[m]), NEW j \in 1 .. Len(msg_list'[m]), i < j
                   PROVE  msg_list'[m][i] < msg_list'[m][j]
      BY DEF Ascending
    <2>4. j - 1 \in 1 .. Len(msg_list[m]) /\ msg_list'[m][j] = msg_list[m][j - 1]
      BY <1>a, <2>1, <2>3, Longer
    <2>5. \/ i - 1 \in 1 .. Len(msg_list[m]) /\ msg_list'[m][i] = msg_list[m][i - 1]
          \/ msg_list'[m][i] = BufferedFor(m, mi)
      BY <1>a, <2>1, <2>3, Longer
    <2>6. i - 1 < j - 1
      BY <2>3
    <2>. QED
      BY <2>2, <2>4, <2>5, <2>6 DEF Ascending
  <1>4. CASE GivesOut(m)
    <2>1. msg_list[m] # <<>> /\ msg_list'[m] = Tail(msg_list[m])
      BY <1>4 DEF GivesOut
    <2>2. SUFFICES ASSUME NEW i \in 1 .. Len(msg_list'[m]), NEW j \in 1 .. Len(msg_list'[m]), i < j
                   PROVE  msg_list'[m][i] < msg_list'[m][j]
      BY DEF Ascending
    <2>3. i + 1 \in 1 .. Len(msg_list[m]) /\ msg_list'[m][i] = msg_list[m][i + 1]
      BY <1>a, <2>1, <2>2, Shorter
    <2>4. j + 1 \in 1 .. Len(msg_list[m]) /\ msg_list'[m][j] = msg_list[m][j + 1]
      BY <1>a, <2>1, <2>2, Shorter
    <2>5. i + 1 < j + 1
      BY <2>2
    <2>. QED
      BY <2>3, <2>4, <2>5 DEF Ascending
  <1>. QED
    BY <1>1, <1>2, <1>3, <1>4 DEF RxStep, Quiet, Receives

(* What is read is older than all that is left.                            *)
LEMMA AfterReadKept ==
  ASSUME RegsTyped, ListsTyped, NEW m \in RxMb, RxStep(m),
         Ascending(m), AfterRead(m), FreshData(m), Backwards(m)
  PROVE  AfterRead(m)'
  <1>a. done[m] \in Nat /\ candata[m] \in Nat /\ Held(m) \subseteq Nat
    BY Mailboxes, HeldAfter DEF RegsTyped
  <1>1. CASE Quiet(m) \/ Receives(m)
    BY <1>1, HeldAfter DEF Quiet, Receives, AfterRead
  <1>2. CASE TakesOut(m)
    <2>1. Held(m)' = Held(m) \cup {candata[m]}
      BY <1>2, <1>a, HeldAfter DEF TakesOut
    <2>. QED
      BY <1>2, <2>1 DEF TakesOut, FreshData, AfterRead
  <1>3. CASE Inherits(m)
    <2>1. BufferedFor(m, mi) \in Nat /\ BufferedFor(m, mi - 1) \in Nat
          /\ BufferedFor(m, mi - 1) < BufferedFor(m, mi)
      BY <1>3, Numbered DEF Inherits
    <2>2. Held(m)' = Held(m) \cup {BufferedFor(m, mi)}
      BY <1>3, <2>1, HeldAfter DEF Inherits
    <2>0. done'[m] = done[m] /\ Starting
      BY <1>3 DEF Inherits
    <2>3. done'[m] = 0 /\ done[m] = 0
      BY <2>0 DEF Backwards
    <2>. QED
      BY <2>1, <2>2, <2>3 DEF AfterRead
  <1>4. CASE GivesOut(m)
    <2>1. msg_list[m] # <<>> /\ msg_list'[m] = Tail(msg_list[m]) /\ done'[m] = Head(msg_list[m])
      BY <1>4 DEF GivesOut
    <2>2. msg_list[m] \in Seq(Nat) /\ Len(msg_list[m]) \in Nat
      BY Mailboxes, Entries
    <2>3. SUFFICES ASSUME NEW i \in 1 .. Len(msg_list'[m]) PROVE done'[m] < msg_list'[m][i]
      BY DEF AfterRead, Held
    <2>4. 1 \in 1 .. Len(msg_list[m]) /\ done'[m] = msg_list[m][1]
      BY <2>1, <2>2, Shorter
    <2>5. i + 1 \in 1 .. Len(msg_list[m]) /\ msg_list'[m][i] = msg_list[m][i + 1] /\ 1 < i + 1
      BY <2>1, <2>2, <2>3, Shorter
    <2>. QED
      BY <2>4, <2>5 DEF Ascending
  <1>. QED
    BY <1>1, <1>2, <1>3, <1>4 DEF RxStep

(* Messages have arrived, for every step.                                  *)
LEMMA ArrivedKept ==
  ASSUME RegsTyped, ListsTyped, PlacesTyped, PlacesTyped', NEW m \in RxMb,
         RxStep(m), Arrived(m), FreshData(m)
  PROVE  Arrived(m)'
  <1>a. /\ count[m] \in Nat /\ done[m] \in Nat /\ candata[m] \in Nat
        /\ Total(m) \in Nat /\ Held(m) \subseteq Nat
    BY Mailboxes, HeldAfter, Numbered DEF RegsTyped, Total
  <1>b. /\ BufferedFor(m, mi) \in Nat /\ BufferedFor(m, mi') \in Nat
        /\ BufferedFor(m, mi) <= Total(m)
    BY Numbered DEF PlacesTyped, Total
  <1>1. CASE Quiet(m)
    <2>1. Held(m)' = Held(m)
      BY <1>1, HeldAfter DEF Quiet
    <2>. QED
      BY <1>1, <1>a, <1>b, <2>1 DEF Quiet, Arrived, FreshData, Total
  <1>2. CASE Receives(m)
    <2>1. Held(m)' = Held(m)
      BY <1>2, HeldAfter DEF Receives
    <2>. QED
      BY <1>2, <1>a, <1>b, <2>1 DEF Receives, Arrived, FreshData, Total
  <1>3. CASE TakesOut(m)
    <2>1. Held(m)' = Held(m) \cup {candata[m]}
      BY <1>3, <1>a, HeldAfter DEF TakesOut
    <2>. QED
      BY <1>3, <1>a, <1>b, <2>1 DEF TakesOut, Arrived, FreshData, Total
  <1>4. CASE Inherits(m)
    <2>1. mi \in 1 .. Len(Buffered) /\ Buffered[mi] = m
      BY <1>4 DEF Inherits
    <2>2. /\ BufferedFor(m, mi) \in Nat /\ BufferedFor(m, mi - 1) \in Nat
          /\ BufferedFor(m, mi - 1) < BufferedFor(m, mi) /\ BufferedFor(m, mi) <= Total(m)
      BY <2>1, Numbered DEF Total
    <2>3. Held(m)' = Held(m) \cup {BufferedFor(m, mi)}
      BY <1>4, <2>2, HeldAfter DEF Inherits
    <2>4. /\ count'[m] = count[m] /\ done'[m] = done[m] /\ candata'[m] = candata[m]
          /\ Raised(m)' => Raised(m)
          /\ Starting /\ mi' = mi - 1
      BY <1>4 DEF Inherits
    <2>. QED
      BY <1>a, <1>b, <2>1, <2>2, <2>3, <2>4 DEF Arrived, FreshData, Total
  <1>5. CASE GivesOut(m)
    <2>1. Held(m)' \subseteq Held(m) /\ done'[m] \in Held(m)
      BY <1>5, HeldAfter DEF GivesOut
    <2>2. /\ count'[m] = count[m] /\ candata'[m] = candata[m]
          /\ Raised(m)' => Raised(m)
          /\ ~Starting'
      BY <1>5 DEF GivesOut
    <2>. QED
      BY <1>a, <1>b, <2>1, <2>2 DEF Arrived, FreshData, Total
  <1>. QED
    BY <1>1, <1>2, <1>3, <1>4, <1>5 DEF RxStep

(* Data of a raised flag are new, for every step.                          *)
LEMMA FreshDataKept ==
  ASSUME RegsTyped, ListsTyped, PlacesTyped, PlacesTyped', NEW m \in RxMb,
         RxStep(m), Arrived(m), AfterRead(m), FreshData(m)
  PROVE  FreshData(m)'
  <1>a. /\ count[m] \in Nat /\ done[m] \in Nat /\ candata[m] \in Nat
        /\ Total(m) \in Nat /\ Held(m) \subseteq Nat
    BY Mailboxes, HeldAfter, Numbered DEF RegsTyped, Total
  <1>b. /\ BufferedFor(m, mi) \in Nat /\ BufferedFor(m, mi') \in Nat
        /\ BufferedFor(m, mi) <= Total(m)
    BY Numbered DEF PlacesTyped, Total
  <1>1. CASE Quiet(m)
    <2>1. Held(m)' = Held(m)
      BY <1>1, HeldAfter DEF Quiet
    <2>. QED
      BY <1>1, <1>a, <1>b, <2>1 DEF Quiet, FreshData, Arrived, AfterRead, Total
  <1>2. CASE Receives(m)
    <2>1. Held(m)' = Held(m)
      BY <1>2, HeldAfter DEF Receives
    <2>. QED
      BY <1>2, <1>a, <1>b, <2>1 DEF Receives, FreshData, Arrived, AfterRead, Total
  <1>3. CASE TakesOut(m)
    <2>1. Held(m)' = Held(m) \cup {candata[m]}
      BY <1>3, <1>a, HeldAfter DEF TakesOut
    <2>. QED
      BY <1>3, <1>a, <1>b, <2>1 DEF TakesOut, FreshData, Arrived, AfterRead, Total
  <1>4. CASE Inherits(m)
    <2>1. mi \in 1 .. Len(Buffered) /\ Buffered[mi] = m
      BY <1>4 DEF Inherits
    <2>2. /\ BufferedFor(m, mi) \in Nat /\ BufferedFor(m, mi - 1) \in Nat
          /\ BufferedFor(m, mi - 1) < BufferedFor(m, mi) /\ BufferedFor(m, mi) <= Total(m)
      BY <2>1, Numbered DEF Total
    <2>3. Held(m)' = Held(m) \cup {BufferedFor(m, mi)}
      BY <1>4, <2>2, HeldAfter DEF Inherits
    <2>4. /\ count'[m] = count[m] /\ done'[m] = done[m] /\ candata'[m] = candata[m]
          /\ Raised(m)' => Raised(m)
          /\ Starting /\ mi' = mi - 1
      BY <1>4 DEF Inherits
    <2>. QED
      BY <1>a, <1>b, <2>1, <2>2, <2>3, <2>4 DEF FreshData, Arrived, AfterRead, Total
  <1>5. CASE GivesOut(m)
    <2>1. Held(m)' \subseteq Held(m) /\ done'[m] \in Held(m)
      BY <1>5, HeldAfter DEF GivesOut
    <2>2. /\ count'[m] = count[m] /\ candata'[m] = candata[m]
          /\ Raised(m)' => Raised(m)
          /\ ~Starting'
      BY <1>5 DEF GivesOut
    <2>. QED
      BY <1>a, <1>b, <2>1, <2>2 DEF FreshData, Arrived, AfterRead, Total
  <1>. QED
    BY <1>1, <1>2, <1>3, <1>4, <1>5 DEF RxStep

(* What the mini-driver has is older, for every step.                      *)
LEMMA BackwardsKept ==
  ASSUME RegsTyped, ListsTyped, PlacesTyped, PlacesTyped', NEW m \in RxMb,
         RxStep(m), Backwards(m), FreshData(m)
  PROVE  Backwards(m)'
  <1>a. /\ count[m] \in Nat /\ done[m] \in Nat /\ candata[m] \in Nat
        /\ Total(m) \in Nat /\ Held(m) \subseteq Nat
    BY Mailboxes, HeldAfter, Numbered DEF RegsTyped, Total
  <1>b. /\ BufferedFor(m, mi) \in Nat /\ BufferedFor(m, mi') \in Nat
        /\ BufferedFor(m, mi) <= Total(m)
    BY Numbered DEF PlacesTyped, Total
  <1>1. CASE Quiet(m)
    <2>1. Held(m)' = Held(m)
      BY <1>1, HeldAfter DEF Quiet
    <2>. QED
      BY <1>1, <1>a, <1>b, <2>1 DEF Quiet, Backwards, FreshData
  <1>2. CASE Receives(m)
    <2>1. Held(m)' = Held(m)
      BY <1>2, HeldAfter DEF Receives
    <2>. QED
      BY <1>2, <1>a, <1>b, <2>1 DEF Receives, Backwards, FreshData
  <1>3. CASE TakesOut(m)
    <2>1. Held(m)' = Held(m) \cup {candata[m]}
      BY <1>3, <1>a, HeldAfter DEF TakesOut
    <2>. QED
      BY <1>3, <1>a, <1>b, <2>1 DEF TakesOut, Backwards, FreshData
  <1>4. CASE Inherits(m)
    <2>1. mi \in 1 .. Len(Buffered) /\ Buffered[mi] = m
      BY <1>4 DEF Inherits
    <2>2. /\ BufferedFor(m, mi) \in Nat /\ BufferedFor(m, mi - 1) \in Nat
          /\ BufferedFor(m, mi - 1) < BufferedFor(m, mi) /\ BufferedFor(m, mi) <= Total(m)
      BY <2>1, Numbered DEF Total
    <2>3. Held(m)' = Held(m) \cup {BufferedFor(m, mi)}
      BY <1>4, <2>2, HeldAfter DEF Inherits
    <2>4. /\ count'[m] = count[m] /\ done'[m] = done[m] /\ candata'[m] = candata[m]
          /\ Raised(m)' => Raised(m)
          /\ Starting /\ mi' = mi - 1
      BY <1>4 DEF Inherits
    <2>. QED
      BY <1>a, <1>b, <2>1, <2>2, <2>3, <2>4 DEF Backwards, FreshData
  <1>5. CASE GivesOut(m)
    <2>1. Held(m)' \subseteq Held(m) /\ done'[m] \in Held(m)
      BY <1>5, HeldAfter DEF GivesOut
    <2>2. /\ count'[m] = count[m] /\ candata'[m] = candata[m]
          /\ Raised(m)' => Raised(m)
          /\ ~Starting'
      BY <1>5 DEF GivesOut
    <2>. QED
      BY <1>a, <1>b, <2>1, <2>2 DEF Backwards, FreshData
  <1>. QED
    BY <1>1, <1>2, <1>3, <1>4, <1>5 DEF RxStep

(* A mailbox whose newest message was overwritten stays marked.            *)
LEMMA OverwrittenStays ==
  ASSUME CanNext
  PROVE  overwritten \subseteq overwritten'
  <1>1. ASSUME NEW k \in Mb, HwReceive(k) \/ HwTransmit(k) PROVE overwritten' = overwritten
    BY <1>1 DEF HwReceive, HwTransmit, threadVars, mdriverVars
  <1>2. ASSUME NEW e \in Errors, HwError(e) PROVE overwritten' = overwritten
    BY <1>2 DEF HwError, threadVars, mdriverVars
  <1>3. CASE Isr
    BY <1>3 DEF Isr, Interrupt, InterruptError, KeepErrors, ClearErrors, ReadSources,
       ServeRx, RxClear, RxReset, ServeTx, Notify, ClearSources, threadVars, mdriverVars
  <1>4. CASE MdriverMsg
    BY <1>4 DEF MdriverMsg, MdriverNext, MdriverCopy, MdriverAdd
  <1>5. CASE DevctlStep
    BY <1>5 DEF DevctlStep, PrioRead, PrioWrite, Enable, FilterDisable, FilterEnable,
       Thaw,
       Devctl, mdriverVars
  <1>6. CASE MdriverDone \/ Transmit \/ TransmitArm \/ GetErrors
    BY <1>6 DEF MdriverDone, Transmit, TransmitArm, GetErrors, mdriverVars
  <1>7. ASSUME NEW k \in Mb, Write(k) \/ Read(k) \/ Disable(k) \/ Freeze(k)
        PROVE  overwritten' = overwritten
    BY <1>7 DEF Write, Read, Disable, Freeze, Devctl, mdriverVars
  <1>. QED
    BY <1>1, <1>2, <1>3, <1>4, <1>5, <1>6, <1>7 DEF CanNext, Thread, ThreadGoesOn

(* Every step keeps the invariant of the receive side.                     *)
LEMMA RxKept ==
  ASSUME RxInv, CanNext
  PROVE  RxInv'
  <1>1. RegsTyped /\ ListsTyped /\ PlacesTyped /\ Taken /\ ThreadAt
    BY TypesInParts DEF RxInv
  <1>2. RegsTyped' /\ ListsTyped' /\ PlacesTyped' /\ Taken' /\ ThreadAt'
    BY <1>1, RegsTypedKept, ListsTypedKept, PlacesTypedKept, TakenKept, ThreadAtKept
  <1>3. CanTypeOK'
    BY <1>2 DEF CanTypeOK, RegsTyped, ListsTyped, PlacesTyped
  <1>4. ASSUME NEW m \in RxMb, m \notin overwritten'
        PROVE  (Arrived(m) /\ Ascending(m) /\ AfterRead(m) /\ FreshData(m) /\ Backwards(m))'
    <2>1. Arrived(m) /\ Ascending(m) /\ AfterRead(m) /\ FreshData(m) /\ Backwards(m)
      BY <1>4, OverwrittenStays DEF RxInv
    <2>2. RxStep(m)
      BY <1>1, <1>4, RxSteps
    <2>. QED
      BY <1>1, <1>2, <2>1, <2>2, ArrivedKept, AscendingKept, AfterReadKept,
         FreshDataKept,
         BackwardsKept
  <1>. QED
    BY <1>2, <1>3, <1>4 DEF RxInv

(* A step that changes nothing.                                            *)
LEMMA RxStill ==
  ASSUME RxInv, UNCHANGED canVars
  PROVE  RxInv'
  BY DEF RxInv, canVars, hwVars, errVars, isrVars, threadVars, devctlVars, mdriverVars,
     CanTypeOK,
     Taken, Taking,
         ThreadAt, Room, Arrived, Ascending, AfterRead, FreshData, Backwards, Starting, Held, Raised, Total

(* The lists are empty and no flag is up.                                  *)
LEMMA RxStarts == CanInit => RxInv
  <1>. SUFFICES ASSUME CanInit PROVE RxInv
    OBVIOUS
  <1>1. \A m \in RxMb : Total(m) \in Nat
    BY Numbered DEF Total
  <1>2. Len(Buffered) \in Nat
    BY CanAssumption
  <1>3. CanTypeOK
    <2>1. \A m \in Mb : BufferedFor(m, Len(Buffered)) \in Nat
      <3>. TAKE m \in Mb
      <3>1. IsFiniteSet(1 .. Len(Buffered))
        BY <1>2, FS_Interval
      <3>. QED
        BY <3>1, FS_Subset, FS_CardinalityType DEF BufferedFor
    <2>2. ListsTyped
      BY CanAssumption DEF CanInit, ListsTyped
    <2>3. RegsTyped
      BY <2>1 DEF CanInit, RegsTyped, Codes
    <2>4. PlacesTyped
      <3>1. mi \in 0 .. Len(Buffered)
        BY <1>2 DEF CanInit
      <3>. QED
        BY <3>1 DEF CanInit, PlacesTyped
    <2>. QED
      BY <2>2, <2>3, <2>4, TypesInParts
  <1>4. Taken /\ ThreadAt
    BY DEF CanInit, Taken, Taking, ThreadAt
  <1>5. ASSUME NEW m \in RxMb
        PROVE  Arrived(m) /\ Ascending(m) /\ AfterRead(m) /\ FreshData(m) /\ Backwards(m)
    <2>1. /\ m \in Mb /\ msg_list[m] = <<>> /\ done[m] = 0 /\ count[m] = Total(m)
          /\ Total(m) \in Nat
      BY <1>1, Mailboxes DEF CanInit, Total
    <2>2. 1 .. Len(msg_list[m]) = {}
      BY <2>1
    <2>3. Held(m) = {}
      BY <2>2 DEF Held
    <2>4. ~Raised(m)
      BY DEF CanInit, Raised, Taking
    <2>. QED
      BY <2>1, <2>2, <2>3, <2>4 DEF Arrived, Ascending, AfterRead, FreshData, Backwards
  <1>. QED
    BY <1>3, <1>4, <1>5 DEF RxInv

(* Each mailbox by itself: what a client reads is in order.                *)
LEMMA InOrder == RxInv => ReadInOrder
  <1>. SUFFICES ASSUME RxInv, NEW m \in RxMb \ overwritten,
                       NEW i \in 1 .. Len(<<done[m]>> \o msg_list[m]) - 1
                PROVE  (<<done[m]>> \o msg_list[m])[i] < (<<done[m]>> \o msg_list[m])[i + 1]
    BY DEF ReadInOrder, Ordered
  <1>. DEFINE s == msg_list[m]
              q == <<done[m]>> \o s
  <1>1. RegsTyped /\ ListsTyped /\ Ascending(m) /\ AfterRead(m)
    BY TypesInParts DEF RxInv
  <1>2. s \in Seq(Nat) /\ Len(s) \in Nat /\ done[m] \in Nat
    BY <1>1, Mailboxes, Entries DEF RegsTyped
  <1>3. /\ Len(q) = Len(s) + 1 /\ q[1] = done[m]
        /\ \A k \in 2 .. Len(s) + 1 : q[k] = s[k - 1]
    BY <1>2, Longer
  <1>4. i \in 1 .. Len(s) /\ q[i + 1] = s[i]
    BY <1>2, <1>3
  <1>5. CASE i = 1
    <2>1. s[1] \in Held(m)
      BY <1>4, <1>5 DEF Held
    <2>. QED
      BY <1>1, <1>3, <1>4, <1>5, <2>1 DEF AfterRead
  <1>6. CASE i # 1
    <2>1. i - 1 \in 1 .. Len(s) /\ q[i] = s[i - 1] /\ i - 1 < i
      BY <1>2, <1>3, <1>4, <1>6
    <2>. QED
      BY <1>1, <1>4, <2>1 DEF Ascending
  <1>. QED
    BY <1>5, <1>6

(* Clients of a receive mailbox read messages in the order in which they   *)
(* arrived and none twice, however many mailboxes there are, whatever the  *)
(* mini-driver has buffered and whenever the handler comes between the     *)
(* steps of mdriver_init_data - until, for that mailbox, it takes the last *)
(* slot after the thread has found it free.                                *)
THEOREM ReadCorrect == CanSpec => []ReadInOrder
  <1>1. RxInv /\ [CanNext]_canVars => RxInv'
    BY RxKept, RxStill
  <1>. QED
    BY <1>1, RxStarts, InOrder, PTL DEF CanSpec

-----------------------------------------------------------------------------
(* What a step does to the list of a transmit mailbox.                     *)
ListStep(m) ==
  \/ UNCHANGED <<msg_list[m], count[m]>>
  \/ /\ msg_list[m] # <<>> /\ msg_list'[m] = Tail(msg_list[m]) /\ UNCHANGED count[m]
  \/ /\ msg_list'[m] = Append(msg_list[m], count[m] + 1)
     /\ count'[m] = count[m] + 1 /\ count[m] < MaxMsgs[m]

(* Every step is one of these.                                             *)
LEMMA ListSteps ==
  ASSUME RegsTyped, ListsTyped, PlacesTyped, Taken, ThreadAt, NEW m \in TxMb, CanNext
  PROVE  ListStep(m)
  <1>. USE Mailboxes DEF ListStep
  <1>1. ASSUME NEW k \in Mb, HwReceive(k) PROVE ListStep(m)
    BY <1>1 DEF HwReceive, Locked, Frozen, errVars, isrVars, devctlVars, mdriverVars,
       threadVars
  <1>2. ASSUME NEW k \in Mb, HwTransmit(k) PROVE ListStep(m)
    BY <1>2 DEF HwTransmit, Frozen, errVars, isrVars, devctlVars, mdriverVars, threadVars
  <1>3. ASSUME NEW e \in Errors, HwError(e) PROVE ListStep(m)
    BY <1>3 DEF HwError, hwVars, isrVars, devctlVars, mdriverVars, threadVars
  <1>4. CASE Interrupt
    BY <1>4 DEF Interrupt, At, hwVars, errVars, devctlVars, mdriverVars, threadVars
  <1>5. CASE InterruptError
    BY <1>5 DEF InterruptError, At, hwVars, errVars, devctlVars, mdriverVars, threadVars
  <1>6. CASE KeepErrors
    BY <1>6 DEF KeepErrors, At, hwVars, devctlVars, mdriverVars, threadVars
  <1>7. CASE ClearErrors
    BY <1>7 DEF ClearErrors, At, hwVars, devctlVars, mdriverVars, threadVars
  <1>8. CASE ReadSources
    BY <1>8 DEF ReadSources, hwVars, errVars, devctlVars, mdriverVars, threadVars
  <1>9. CASE ServeRx
    BY <1>9 DEF ServeRx, hwVars, errVars, devctlVars, mdriverVars, threadVars
  <1>10. CASE RxClear
    BY <1>10 DEF RxClear, At, errVars, devctlVars, mdriverVars, threadVars
  <1>11. CASE RxReset
    <2>1. m # mbxid
      BY <1>11 DEF RxReset, At, Taken, Taking
    <2>. QED
      BY <1>11, <2>1 DEF RxReset, At, Enqueued, errVars, devctlVars, mdriverVars,
         threadVars
  <1>12. CASE ServeTx
    <2>1. CASE m = Lowest(iflag2) /\ msg_list[m] # <<>>
      <3>1. msg_list'[m] = Tail(msg_list[m])
        BY <1>12, <2>1 DEF ServeTx, Acknowledge, ListsTyped
      <3>. QED
        BY <1>12, <2>1, <3>1 DEF ServeTx
    <2>2. CASE ~(m = Lowest(iflag2) /\ msg_list[m] # <<>>)
      <3>1. msg_list'[m] = msg_list[m]
        BY <1>12, <2>2 DEF ServeTx, Acknowledge, ListsTyped
      <3>. QED
        BY <1>12, <3>1 DEF ServeTx
    <2>. QED
      BY <2>1, <2>2
  <1>13. CASE Notify
    BY <1>13 DEF Notify, hwVars, errVars, devctlVars, mdriverVars, threadVars
  <1>14. CASE ClearSources
    BY <1>14 DEF ClearSources, At, errVars, devctlVars, mdriverVars, threadVars
  <1>15. CASE MdriverMsg
    <2>1. m \notin RxMb
      BY CanAssumption DEF RxMb, TxMb
    <2>2. msg_list'[m] = msg_list[m]
      BY <1>15, <2>1 DEF MdriverMsg, MdriverNext, MdriverCopy, MdriverAdd, InThread,
         ThreadAt,
         AtTail, ListsTyped
    <2>. QED
      BY <1>15, <2>2
         DEF MdriverMsg, MdriverNext, MdriverCopy, MdriverAdd
  <1>16. CASE MdriverDone
    BY <1>16 DEF MdriverDone, InThread, hwVars, errVars, isrVars, devctlVars, mdriverVars
  <1>17. CASE Transmit
    BY <1>17 DEF Transmit, MayStart, hwVars, errVars, isrVars, devctlVars, mdriverVars
  <1>18. CASE TransmitArm
    BY <1>18 DEF TransmitArm, InThread, RingoTx, errVars, isrVars, devctlVars, mdriverVars
  <1>19. CASE PrioRead
    BY <1>19 DEF PrioRead, InThread, Devctl, errVars, isrVars
  <1>20. CASE PrioWrite
    BY <1>20 DEF PrioWrite, InThread, Devctl, errVars, isrVars
  <1>21. CASE Enable
    BY <1>21 DEF Enable, InThread, Devctl, errVars, isrVars
  <1>22. CASE FilterDisable
    BY <1>22 DEF FilterDisable, InThread, Devctl, errVars, isrVars
  <1>23. CASE FilterEnable
    BY <1>23 DEF FilterEnable, InThread, Devctl, errVars, isrVars
  <1>24. CASE Thaw
    BY <1>24 DEF Thaw, InThread, Devctl, errVars, isrVars, devctlVars, mdriverVars
  <1>25. CASE GetErrors
    BY <1>25 DEF GetErrors, InThread, hwVars, isrVars, devctlVars, mdriverVars
  <1>26. ASSUME NEW k \in Mb, Write(k) PROVE ListStep(m)
    <2>1. CASE k = m
      BY <1>26, <2>1 DEF Write, InThread, Enqueued, hwVars, errVars, isrVars,
         devctlVars, mdriverVars, RegsTyped, ListsTyped
    <2>2. CASE k # m
      BY <1>26, <2>2 DEF Write, InThread, Enqueued, hwVars, errVars, isrVars,
         devctlVars, mdriverVars, RegsTyped, ListsTyped
    <2>. QED
      BY <2>1, <2>2
  <1>27. ASSUME NEW k \in Mb, Read(k) PROVE ListStep(m)
    BY <1>27 DEF Read, InThread, hwVars, errVars, isrVars, devctlVars, mdriverVars
  <1>28. ASSUME NEW k \in Mb, Disable(k) PROVE ListStep(m)
    BY <1>28 DEF Disable, InThread, Devctl, errVars, isrVars
  <1>29. ASSUME NEW k \in Mb, Freeze(k) PROVE ListStep(m)
    BY <1>29 DEF Freeze, InThread, Devctl, errVars, isrVars, devctlVars, mdriverVars
  <1>. QED
    BY <1>1, <1>2, <1>3, <1>4, <1>5, <1>6, <1>7, <1>8, <1>9, <1>10, <1>11, <1>12,
       <1>13, <1>14, <1>15, <1>16, <1>17, <1>18, <1>19, <1>20, <1>21, <1>22, <1>23,
       <1>24, <1>25, <1>26, <1>27, <1>28, <1>29
       DEF CanNext, Isr, Thread, ThreadGoesOn, DevctlStep

(* The list holds the last messages written, after every step.             *)
LEMMA ConsecutiveKept ==
  ASSUME RegsTyped, ListsTyped, NEW m \in TxMb, ListStep(m), Consecutive(m)
  PROVE  Consecutive(m)'
  <1>a. msg_list[m] \in Seq(Nat) /\ Len(msg_list[m]) \in Nat /\ count[m] \in Nat
    BY Mailboxes, Entries DEF RegsTyped
  <1>d. Len(msg_list[m]) \in Nat /\ count[m] \in Nat
    BY <1>a
  <1>b. MaxMsgs[m] \in Nat
    BY CanAssumption DEF TxMb
  <1>1. CASE UNCHANGED <<msg_list[m], count[m]>>
    BY <1>1 DEF Consecutive
  <1>2. CASE /\ msg_list[m] # <<>> /\ msg_list'[m] = Tail(msg_list[m]) /\ UNCHANGED count[m]
    <2>1. Len(msg_list'[m]) = Len(msg_list[m]) - 1 /\ Len(msg_list[m]) > 0
      BY <1>2, <1>a, Shorter
    <2>2. ASSUME NEW i \in 1 .. Len(msg_list'[m])
          PROVE  msg_list'[m][i] = count[m] - Len(msg_list'[m]) + i
      <3>1. i + 1 \in 1 .. Len(msg_list[m])
        BY <1>a, <2>1
      <3>2. msg_list'[m][i] = msg_list[m][i + 1]
        BY <1>2, <1>a, <2>1, Shorter
      <3>3. msg_list[m][i + 1] = count[m] - Len(msg_list[m]) + (i + 1)
        BY <3>1 DEF Consecutive
      <3>4. i \in Nat
        BY <1>a, <2>1
      <3>5. count[m] - Len(msg_list[m]) + (i + 1) = count[m] - (Len(msg_list[m]) - 1) + i
        <4>1. \A a, b, k \in Nat : a - b + (k + 1) = a - (b - 1) + k
          OBVIOUS
        <4>. QED
          BY <1>d, <3>4, <4>1
      <3>. QED
        BY <2>1, <3>2, <3>3, <3>5
    <2>3. count'[m] = count[m] /\ Len(msg_list[m]) <= count[m] /\ count[m] <= MaxMsgs[m]
      BY <1>2 DEF Consecutive
    <2>. QED
      BY <1>a, <2>1, <2>2, <2>3 DEF Consecutive
  <1>3. CASE /\ msg_list'[m] = Append(msg_list[m], count[m] + 1)
             /\ count'[m] = count[m] + 1 /\ count[m] < MaxMsgs[m]
    <2>1. Len(msg_list'[m]) = Len(msg_list[m]) + 1
      BY <1>3, <1>a, Longer
    <2>2. ASSUME NEW i \in 1 .. Len(msg_list'[m])
          PROVE  msg_list'[m][i] = (count[m] + 1) - Len(msg_list'[m]) + i
      <3>1. CASE i = Len(msg_list[m]) + 1
        <4>1. msg_list'[m][i] = count[m] + 1
          BY <1>3, <1>a, <3>1, Longer
        <4>. QED
          BY <1>a, <2>1, <3>1, <4>1
      <3>2. CASE i # Len(msg_list[m]) + 1
        <4>1. i \in 1 .. Len(msg_list[m])
          BY <1>a, <2>1, <3>2
        <4>2. msg_list'[m][i] = msg_list[m][i]
          BY <1>3, <1>a, <4>1, Longer
        <4>3. msg_list[m][i] = count[m] - Len(msg_list[m]) + i
          BY <4>1 DEF Consecutive
        <4>. HIDE DEF Consecutive
        <4>. QED
          BY <1>a, <2>1, <4>1, <4>2, <4>3
      <3>. QED
        BY <3>1, <3>2
    <2>3. Len(msg_list[m]) <= count[m]
      BY DEF Consecutive
    <2>. QED
      BY <1>3, <1>a, <1>b, <2>1, <2>2, <2>3 DEF Consecutive
  <1>. QED
    BY <1>1, <1>2, <1>3 DEF ListStep

(* The flags that were read stay up until one is served, for every step.   *)
LEMMA SeenFlagsKept ==
  ASSUME SeenFlags, RegsTyped, ListsTyped, PlacesTyped, Taken, ThreadAt, CanNext
  PROVE  SeenFlags'
  <1>. USE DEF SeenFlags
  <1>1. ASSUME NEW k \in Mb, HwReceive(k) PROVE SeenFlags'
    BY <1>1 DEF HwReceive, Locked, Frozen, errVars, isrVars, devctlVars, mdriverVars,
       threadVars
  <1>2. ASSUME NEW k \in Mb, HwTransmit(k) PROVE SeenFlags'
    BY <1>2 DEF HwTransmit, Frozen, errVars, isrVars, devctlVars, mdriverVars, threadVars
  <1>3. ASSUME NEW e \in Errors, HwError(e) PROVE SeenFlags'
    BY <1>3 DEF HwError, hwVars, isrVars, devctlVars, mdriverVars, threadVars
  <1>4. CASE Interrupt
    BY <1>4 DEF Interrupt, At, hwVars, errVars, devctlVars, mdriverVars, threadVars
  <1>5. CASE InterruptError
    BY <1>5 DEF InterruptError, At, hwVars, errVars, devctlVars, mdriverVars, threadVars
  <1>6. CASE KeepErrors
    BY <1>6 DEF KeepErrors, At, hwVars, devctlVars, mdriverVars, threadVars
  <1>7. CASE ClearErrors
    BY <1>7 DEF ClearErrors, At, hwVars, devctlVars, mdriverVars, threadVars
  <1>8. CASE ReadSources
    BY <1>8 DEF ReadSources, hwVars, errVars, devctlVars, mdriverVars, threadVars
  <1>9. CASE ServeRx
    BY <1>9 DEF ServeRx, hwVars, errVars, devctlVars, mdriverVars, threadVars
  <1>10. CASE RxClear
    BY <1>10 DEF RxClear, At, errVars, devctlVars, mdriverVars, threadVars
  <1>11. CASE RxReset
    BY <1>11 DEF RxReset, At, Enqueued, errVars, devctlVars, mdriverVars, threadVars
  <1>12. CASE ServeTx
    BY <1>12 DEF ServeTx, Acknowledge, RingoTx, errVars, devctlVars, mdriverVars,
       threadVars
  <1>13. CASE Notify
    BY <1>13 DEF Notify, hwVars, errVars, devctlVars, mdriverVars, threadVars
  <1>14. CASE ClearSources
    BY <1>14 DEF ClearSources, At, errVars, devctlVars, mdriverVars, threadVars
  <1>15. CASE MdriverMsg
    BY <1>15 DEF MdriverMsg, MdriverNext, MdriverCopy, MdriverAdd, InThread, TakesOver,
       AtTail, hwVars, errVars, isrVars, devctlVars, mdriverVars
  <1>16. CASE MdriverDone
    BY <1>16 DEF MdriverDone, InThread, hwVars, errVars, isrVars, devctlVars, mdriverVars
  <1>17. CASE Transmit
    BY <1>17 DEF Transmit, MayStart, hwVars, errVars, isrVars, devctlVars, mdriverVars
  <1>18. CASE TransmitArm
    BY <1>18 DEF TransmitArm, InThread, RingoTx, errVars, isrVars, devctlVars, mdriverVars
  <1>19. CASE PrioRead
    BY <1>19 DEF PrioRead, InThread, Devctl, errVars, isrVars
  <1>20. CASE PrioWrite
    BY <1>20 DEF PrioWrite, InThread, Devctl, errVars, isrVars
  <1>21. CASE Enable
    BY <1>21 DEF Enable, InThread, Devctl, errVars, isrVars
  <1>22. CASE FilterDisable
    BY <1>22 DEF FilterDisable, InThread, Devctl, errVars, isrVars
  <1>23. CASE FilterEnable
    BY <1>23 DEF FilterEnable, InThread, Devctl, errVars, isrVars
  <1>24. CASE Thaw
    BY <1>24 DEF Thaw, InThread, Devctl, errVars, isrVars, devctlVars, mdriverVars
  <1>25. CASE GetErrors
    BY <1>25 DEF GetErrors, InThread, hwVars, isrVars, devctlVars, mdriverVars
  <1>26. ASSUME NEW k \in Mb, Write(k) PROVE SeenFlags'
    BY <1>26 DEF Write, InThread, Enqueued, hwVars, errVars, isrVars, devctlVars,
       mdriverVars
  <1>27. ASSUME NEW k \in Mb, Read(k) PROVE SeenFlags'
    BY <1>27 DEF Read, InThread, hwVars, errVars, isrVars, devctlVars, mdriverVars
  <1>28. ASSUME NEW k \in Mb, Disable(k) PROVE SeenFlags'
    BY <1>28 DEF Disable, InThread, Devctl, errVars, isrVars
  <1>29. ASSUME NEW k \in Mb, Freeze(k) PROVE SeenFlags'
    BY <1>29 DEF Freeze, InThread, Devctl, errVars, isrVars, devctlVars, mdriverVars
  <1>. QED
    BY <1>1, <1>2, <1>3, <1>4, <1>5, <1>6, <1>7, <1>8, <1>9, <1>10, <1>11, <1>12,
       <1>13, <1>14, <1>15, <1>16, <1>17, <1>18, <1>19, <1>20, <1>21, <1>22, <1>23,
       <1>24, <1>25, <1>26, <1>27, <1>28, <1>29
       DEF CanNext, Isr, Thread, ThreadGoesOn, DevctlStep

(* What a step does to a transmission: nothing, or nothing but lower the   *)
(* flag; a frame is on the bus; the flag is served; a message is written;  *)
(* transmission begins; the mailbox is given its message.                  *)
Waits(m) == thread = "transmit" /\ tmb = m

Rests(m) ==
  /\ UNCHANGED <<msg_list[m], count[m], done[m], candata[m], canmcf[m]>>
  /\ m \in iflag2' => m \in iflag2
  /\ m \in dflags' <=> m \in dflags
  /\ Arming(m)' <=> Arming(m)
  /\ Arming(m) => txmsg' = txmsg
  /\ Waits(m) => Waits(m)' \/ m \in dflags \/ msg_list[m] = <<>>

Transmits(m) ==
  /\ UNCHANGED <<msg_list[m], count[m], dflags, candata[m], thread, tmb, txmsg>>
  /\ canmcf[m] = "TRANSMIT_ONCE" /\ canmcf'[m] = "NOT_READY" /\ done'[m] = candata[m]

IsServed(m) ==
  /\ UNCHANGED <<count[m], done[m], thread, tmb, txmsg>>
  /\ m \in iflag2 /\ m \notin iflag2' /\ msg_list[m] # <<>> /\ msg_list'[m] = Tail(msg_list[m])
  /\ \/ /\ Len(msg_list[m]) > 1 /\ (m \in dflags => m \in dflags')
        /\ candata'[m] = msg_list[m][2] /\ canmcf'[m] = "TRANSMIT_ONCE"
     \/ /\ Len(msg_list[m]) <= 1 /\ m \notin dflags' /\ UNCHANGED canmcf[m]

IsWritten(m) ==
  /\ UNCHANGED <<done[m], candata[m], canmcf[m], iflag2, dflags>>
  /\ msg_list'[m] = Append(msg_list[m], count[m] + 1) /\ count'[m] = count[m] + 1
  /\ ~Arming(m) /\ ~Arming(m)' /\ Waits(m)'

Begins(m) ==
  /\ UNCHANGED <<msg_list[m], count[m], done[m], candata[m], canmcf[m], iflag2>>
  /\ m \notin dflags /\ m \in dflags' /\ msg_list[m] # <<>> /\ ~Arming(m)
  /\ Arming(m)' /\ txmsg' = Head(msg_list[m])

IsArmed(m) ==
  /\ UNCHANGED <<msg_list[m], count[m], done[m], iflag2, dflags>>
  /\ Arming(m) /\ ~Arming(m)' /\ candata'[m] = txmsg /\ canmcf'[m] = "TRANSMIT_ONCE"

TxStep(m) ==
  Rests(m) \/ Transmits(m) \/ IsServed(m) \/ IsWritten(m) \/ Begins(m) \/ IsArmed(m)

(* When the handler serves a transmit flag it is of the mailbox written    *)
(* to, and among those it has read.                                        *)
LEMMA ServesRead ==
  ASSUME OneSender, RegsTyped, ListsTyped, PlacesTyped, SeenFlags, Phases,
         \A m \in TxMb : Consecutive(m), ServeTx
  PROVE  Lowest(iflag2) \in iflag2 /\ Lowest(iflag2) \in irqsrc2
  <1>1. PICK t \in TxMb : \A m \in TxMb \ {t} : MaxMsgs[m] = 0
    BY DEF OneSender
  <1>2. \A m \in iflag2 : m = t
    <2>. SUFFICES ASSUME NEW m \in iflag2, m # t PROVE FALSE
      OBVIOUS
    <2>1. m \in TxMb /\ MaxMsgs[m] = 0
      BY <1>1 DEF PlacesTyped
    <2>2. msg_list[m] # <<>>
      BY <2>1 DEF Phases, SentHead
    <2>3. msg_list[m] \in Seq(Nat) /\ Len(msg_list[m]) \in Nat /\ count[m] \in Nat
      BY <2>1, Mailboxes, Entries DEF RegsTyped
    <2>4. Len(msg_list[m]) > 0
      BY <2>2, <2>3, Shorter
    <2>5. Len(msg_list[m]) <= count[m] /\ count[m] <= MaxMsgs[m]
      BY <2>1 DEF Consecutive
    <2>. QED
      BY <2>1, <2>3, <2>4, <2>5
  <1>3. Lowest(iflag2) \in iflag2
    BY Mailboxes, LowestIn DEF ServeTx, PlacesTyped
  <1>4. irqsrc2 # {} /\ irqsrc2 \subseteq iflag2
    BY DEF ServeTx, SeenFlags
  <1>. QED
    BY <1>2, <1>3, <1>4

(* Every step that keeps the control words is one of these.                *)
LEMMA TxSteps ==
  ASSUME OneSender, RegsTyped, ListsTyped, PlacesTyped, Taken, ThreadAt, SeenFlags,
         Phases,
         \A n \in TxMb : Consecutive(n), ~stale', NEW m \in TxMb, CanNext
  PROVE  TxStep(m)
  <1>. USE Mailboxes DEF TxStep, Rests, Arming, Waits
  <1>1. ASSUME NEW k \in Mb, HwReceive(k) PROVE TxStep(m)
    <2>1. k # m
      BY <1>1 DEF HwReceive
    <2>2. UNCHANGED <<count[m], candata[m], canmcf[m]>>
      BY <1>1, <2>1 DEF HwReceive, RegsTyped
    <2>. QED
      BY <1>1, <2>2 DEF HwReceive, Locked, Frozen, errVars, isrVars, devctlVars,
         mdriverVars,
         threadVars
  <1>2. ASSUME NEW k \in Mb, HwTransmit(k) PROVE TxStep(m)
    <2>1. CASE k = m
      BY <1>2, <2>1 DEF Transmits, RegsTyped, HwTransmit, Frozen, errVars, isrVars,
         devctlVars, mdriverVars, threadVars
    <2>2. CASE k # m
      <3>1. UNCHANGED <<done[m], canmcf[m]>>
        BY <1>2, <2>2 DEF HwTransmit, RegsTyped
      <3>. QED
        BY <1>2, <2>2, <3>1
           DEF HwTransmit, Frozen, errVars, isrVars, devctlVars, mdriverVars, threadVars
    <2>. QED
      BY <2>1, <2>2
  <1>3. ASSUME NEW e \in Errors, HwError(e) PROVE TxStep(m)
    BY <1>3 DEF HwError, hwVars, isrVars, devctlVars, mdriverVars, threadVars
  <1>4. CASE Interrupt
    BY <1>4 DEF Interrupt, At, hwVars, errVars, devctlVars, mdriverVars, threadVars
  <1>5. CASE InterruptError
    BY <1>5 DEF InterruptError, At, hwVars, errVars, devctlVars, mdriverVars, threadVars
  <1>6. CASE KeepErrors
    BY <1>6 DEF KeepErrors, At, hwVars, devctlVars, mdriverVars, threadVars
  <1>7. CASE ClearErrors
    BY <1>7 DEF ClearErrors, At, hwVars, devctlVars, mdriverVars, threadVars
  <1>8. CASE ReadSources
    BY <1>8 DEF ReadSources, hwVars, errVars, devctlVars, mdriverVars, threadVars
  <1>9. CASE ServeRx
    BY <1>9 DEF ServeRx, hwVars, errVars, devctlVars, mdriverVars, threadVars
  <1>10. CASE RxClear
    BY <1>10 DEF RxClear, At, errVars, devctlVars, mdriverVars, threadVars
  <1>11. CASE RxReset
    <2>1. m # mbxid
      BY <1>11 DEF RxReset, At, Taken, Taking
    <2>2. UNCHANGED <<msg_list[m], canmcf[m]>>
      BY <1>11, <2>1 DEF RxReset, Enqueued, RegsTyped, ListsTyped
    <2>. QED
      BY <1>11, <2>2 DEF RxReset, At, Enqueued, errVars, devctlVars, mdriverVars,
         threadVars
  <1>12. CASE ServeTx
    <2>1. Lowest(iflag2) \in iflag2 /\ Lowest(iflag2) \in irqsrc2
      BY <1>12, ServesRead
    <2>2. CASE m = Lowest(iflag2)
      <3>1. msg_list[m] # <<>>
        BY <2>1, <2>2 DEF Phases, SentHead
      <3>2. Acknowledge(m) /\ iflag2' = iflag2 \ irqsrc2 /\ UNCHANGED <<count, done, thread, tmb, txmsg>>
        BY <1>12, <2>2, <3>1 DEF ServeTx, threadVars
      <3>3. msg_list'[m] = Tail(msg_list[m])
        BY <3>2 DEF Acknowledge, ListsTyped
      <3>4. CASE Len(msg_list[m]) > 1
        <4>1. /\ candata'[m] = msg_list[m][2] /\ canmcf'[m] = "TRANSMIT_ONCE"
              /\ UNCHANGED dflags
          BY <3>2, <3>4 DEF Acknowledge, RingoTx, RegsTyped
        <4>. QED
          BY <2>1, <2>2, <3>1, <3>2, <3>3, <3>4, <4>1 DEF IsServed
      <3>5. CASE ~(Len(msg_list[m]) > 1)
        <4>1. Len(msg_list[m]) <= 1
          BY <3>5, Entries
        <4>2. m \notin dflags' /\ UNCHANGED canmcf
          BY <3>2, <3>5 DEF Acknowledge
        <4>. QED
          BY <2>1, <2>2, <3>1, <3>2, <3>3, <4>1, <4>2 DEF IsServed
      <3>. QED
        BY <3>4, <3>5
    <2>3. CASE m # Lowest(iflag2)
      <3>1. UNCHANGED <<msg_list[m], candata[m], canmcf[m]>>
        BY <1>12, <2>3 DEF ServeTx, Acknowledge, RingoTx, RegsTyped, ListsTyped
      <3>2. m \in dflags' <=> m \in dflags
        BY <1>12, <2>3 DEF ServeTx, Acknowledge
      <3>. QED
        BY <1>12, <3>1, <3>2 DEF ServeTx, threadVars
    <2>. QED
      BY <2>2, <2>3
  <1>13. CASE Notify
    BY <1>13 DEF Notify, hwVars, errVars, devctlVars, mdriverVars, threadVars
  <1>14. CASE ClearSources
    BY <1>14 DEF ClearSources, At, errVars, devctlVars, mdriverVars, threadVars
  <1>15. CASE MdriverMsg
    <2>1. m \notin RxMb
      BY CanAssumption DEF RxMb, TxMb
    <2>2. msg_list'[m] = msg_list[m]
      BY <1>15, <2>1 DEF MdriverMsg, MdriverNext, MdriverCopy, MdriverAdd, InThread,
         ThreadAt,
         AtTail, ListsTyped
    <2>. QED
      BY <1>15, <2>2 DEF MdriverMsg, MdriverNext, MdriverCopy, MdriverAdd, InThread,
         hwVars,
         errVars, isrVars, devctlVars, mdriverVars
  <1>16. CASE MdriverDone
    BY <1>16 DEF MdriverDone, InThread, hwVars, errVars, isrVars, devctlVars, mdriverVars
  <1>17. CASE Transmit
    <2>1. CASE MayStart /\ tmb = m
      BY <1>17, <2>1
         DEF Begins, Transmit, MayStart, hwVars, errVars, isrVars, devctlVars, mdriverVars
    <2>2. CASE ~(MayStart /\ tmb = m)
      BY <1>17, <2>2 DEF Transmit, MayStart, hwVars, errVars, isrVars, devctlVars,
         mdriverVars
    <2>. QED
      BY <2>1, <2>2
  <1>18. CASE TransmitArm
    <2>1. CASE tmb = m
      BY <1>18, <2>1 DEF IsArmed, RegsTyped, TransmitArm, InThread, RingoTx, errVars,
         isrVars, devctlVars, mdriverVars
    <2>2. CASE tmb # m
      BY <1>18, <2>2
         DEF RegsTyped, TransmitArm, InThread, RingoTx, errVars, isrVars, devctlVars,
            mdriverVars
    <2>. QED
      BY <2>1, <2>2
  <1>19. CASE PrioRead
    BY <1>19 DEF PrioRead, InThread, Devctl, errVars, isrVars
  <1>20. CASE PrioWrite
    <2>1. mcf = canmcf[tmb] /\ canmcf' = [canmcf EXCEPT ![tmb] = mcf]
      BY <1>20 DEF PrioWrite
    <2>2. canmcf'[m] = canmcf[m]
      BY <2>1 DEF RegsTyped
    <2>. QED
      BY <1>20, <2>2 DEF PrioWrite, InThread, Devctl, errVars, isrVars
  <1>21. CASE Enable
    BY <1>21 DEF Enable, InThread, Devctl, errVars, isrVars
  <1>22. CASE FilterDisable
    BY <1>22 DEF FilterDisable, InThread, Devctl, errVars, isrVars
  <1>23. CASE FilterEnable
    BY <1>23 DEF FilterEnable, InThread, Devctl, errVars, isrVars
  <1>24. CASE Thaw
    BY <1>24 DEF Thaw, InThread, Devctl, errVars, isrVars, devctlVars, mdriverVars
  <1>25. CASE GetErrors
    BY <1>25 DEF GetErrors, InThread, hwVars, isrVars, devctlVars, mdriverVars
  <1>26. ASSUME NEW k \in Mb, Write(k) PROVE TxStep(m)
    <2>1. CASE k = m
      BY <1>26, <2>1 DEF IsWritten, RegsTyped, ListsTyped, Write, InThread, Enqueued,
         hwVars, errVars, isrVars, devctlVars, mdriverVars
    <2>2. CASE k # m
      <3>1. UNCHANGED <<msg_list[m], count[m]>>
        BY <1>26, <2>2 DEF Write, Enqueued, RegsTyped, ListsTyped
      <3>. QED
        BY <1>26, <3>1
           DEF Write, InThread, Enqueued, hwVars, errVars, isrVars, devctlVars,
              mdriverVars
    <2>. QED
      BY <2>1, <2>2
  <1>27. ASSUME NEW k \in Mb, Read(k) PROVE TxStep(m)
    <2>1. k # m
      BY <1>27 DEF Read
    <2>2. UNCHANGED <<msg_list[m], done[m]>>
      BY <1>27, <2>1 DEF Read, RegsTyped, ListsTyped
    <2>. QED
      BY <1>27, <2>2 DEF Read, InThread, hwVars, errVars, isrVars, devctlVars, mdriverVars
  <1>28. ASSUME NEW k \in Mb, Disable(k) PROVE TxStep(m)
    BY <1>28 DEF Disable, InThread, Devctl, errVars, isrVars
  <1>29. ASSUME NEW k \in Mb, Freeze(k) PROVE TxStep(m)
    BY <1>29 DEF Freeze, InThread, Devctl, errVars, isrVars, devctlVars, mdriverVars
  <1>. QED
    BY <1>1, <1>2, <1>3, <1>4, <1>5, <1>6, <1>7, <1>8, <1>9, <1>10, <1>11, <1>12,
       <1>13, <1>14, <1>15, <1>16, <1>17, <1>18, <1>19, <1>20, <1>21, <1>22, <1>23,
       <1>24, <1>25, <1>26, <1>27, <1>28, <1>29
       DEF CanNext, Isr, Thread, ThreadGoesOn, DevctlStep

(* A word that was written back stays so: stale is never reset.            *)
LEMMA NeverFresh ==
  ASSUME PlacesTyped, ~stale', CanNext
  PROVE  ~stale
  <1>. USE DEF PlacesTyped
  <1>1. ASSUME NEW k \in Mb, HwReceive(k) PROVE ~stale
    BY <1>1 DEF HwReceive, Locked, Frozen, errVars, isrVars, devctlVars, mdriverVars,
       threadVars
  <1>2. ASSUME NEW k \in Mb, HwTransmit(k) PROVE ~stale
    BY <1>2 DEF HwTransmit, Frozen, errVars, isrVars, devctlVars, mdriverVars, threadVars
  <1>3. ASSUME NEW e \in Errors, HwError(e) PROVE ~stale
    BY <1>3 DEF HwError, hwVars, isrVars, devctlVars, mdriverVars, threadVars
  <1>4. CASE Interrupt
    BY <1>4 DEF Interrupt, At, hwVars, errVars, devctlVars, mdriverVars, threadVars
  <1>5. CASE InterruptError
    BY <1>5 DEF InterruptError, At, hwVars, errVars, devctlVars, mdriverVars, threadVars
  <1>6. CASE KeepErrors
    BY <1>6 DEF KeepErrors, At, hwVars, devctlVars, mdriverVars, threadVars
  <1>7. CASE ClearErrors
    BY <1>7 DEF ClearErrors, At, hwVars, devctlVars, mdriverVars, threadVars
  <1>8. CASE ReadSources
    BY <1>8 DEF ReadSources, hwVars, errVars, devctlVars, mdriverVars, threadVars
  <1>9. CASE ServeRx
    BY <1>9 DEF ServeRx, hwVars, errVars, devctlVars, mdriverVars, threadVars
  <1>10. CASE RxClear
    BY <1>10 DEF RxClear, At, errVars, devctlVars, mdriverVars, threadVars
  <1>11. CASE RxReset
    BY <1>11 DEF RxReset, At, Enqueued, errVars, devctlVars, mdriverVars, threadVars
  <1>12. CASE ServeTx
    BY <1>12 DEF ServeTx, Acknowledge, RingoTx, errVars, devctlVars, mdriverVars,
       threadVars
  <1>13. CASE Notify
    BY <1>13 DEF Notify, hwVars, errVars, devctlVars, mdriverVars, threadVars
  <1>14. CASE ClearSources
    BY <1>14 DEF ClearSources, At, errVars, devctlVars, mdriverVars, threadVars
  <1>15. CASE MdriverMsg
    BY <1>15 DEF MdriverMsg, MdriverNext, MdriverCopy, MdriverAdd, InThread, TakesOver,
       AtTail, hwVars, errVars, isrVars, devctlVars, mdriverVars
  <1>16. CASE MdriverDone
    BY <1>16 DEF MdriverDone, InThread, hwVars, errVars, isrVars, devctlVars, mdriverVars
  <1>17. CASE Transmit
    BY <1>17 DEF Transmit, MayStart, hwVars, errVars, isrVars, devctlVars, mdriverVars
  <1>18. CASE TransmitArm
    BY <1>18 DEF TransmitArm, InThread, RingoTx, errVars, isrVars, devctlVars, mdriverVars
  <1>19. CASE PrioRead
    BY <1>19 DEF PrioRead, InThread, Devctl, errVars, isrVars
  <1>20. CASE PrioWrite
    BY <1>20 DEF PrioWrite, InThread, Devctl, errVars, isrVars
  <1>21. CASE Enable
    BY <1>21 DEF Enable, InThread, Devctl, errVars, isrVars
  <1>22. CASE FilterDisable
    BY <1>22 DEF FilterDisable, InThread, Devctl, errVars, isrVars
  <1>23. CASE FilterEnable
    BY <1>23 DEF FilterEnable, InThread, Devctl, errVars, isrVars
  <1>24. CASE Thaw
    BY <1>24 DEF Thaw, InThread, Devctl, errVars, isrVars, devctlVars, mdriverVars
  <1>25. CASE GetErrors
    BY <1>25 DEF GetErrors, InThread, hwVars, isrVars, devctlVars, mdriverVars
  <1>26. ASSUME NEW k \in Mb, Write(k) PROVE ~stale
    BY <1>26 DEF Write, InThread, Enqueued, hwVars, errVars, isrVars, devctlVars,
       mdriverVars
  <1>27. ASSUME NEW k \in Mb, Read(k) PROVE ~stale
    BY <1>27 DEF Read, InThread, hwVars, errVars, isrVars, devctlVars, mdriverVars
  <1>28. ASSUME NEW k \in Mb, Disable(k) PROVE ~stale
    BY <1>28 DEF Disable, InThread, Devctl, errVars, isrVars
  <1>29. ASSUME NEW k \in Mb, Freeze(k) PROVE ~stale
    BY <1>29 DEF Freeze, InThread, Devctl, errVars, isrVars, devctlVars, mdriverVars
  <1>. QED
    BY <1>1, <1>2, <1>3, <1>4, <1>5, <1>6, <1>7, <1>8, <1>9, <1>10, <1>11, <1>12,
       <1>13, <1>14, <1>15, <1>16, <1>17, <1>18, <1>19, <1>20, <1>21, <1>22, <1>23,
       <1>24, <1>25, <1>26, <1>27, <1>28, <1>29
       DEF CanNext, Isr, Thread, ThreadGoesOn, DevctlStep

(* The phases of a transmission, after every step.                         *)
LEMMA PhasesKept ==
  ASSUME RegsTyped, ListsTyped, PlacesTyped, NEW m \in TxMb, TxStep(m), Consecutive(m),
         SendsHead(m), SentHead(m), ArmsHead(m), Resting(m)
  PROVE  (SendsHead(m) /\ SentHead(m) /\ ArmsHead(m) /\ Resting(m))'
  <1>a. /\ msg_list[m] \in Seq(Nat) /\ Len(msg_list[m]) \in Nat
        /\ count[m] \in Nat /\ done[m] \in Nat /\ candata[m] \in Nat
    BY Mailboxes, Entries DEF RegsTyped
  <1>d. Len(msg_list[m]) \in Nat
    BY <1>a
  <1>b. msg_list[m] # <<>> <=> Len(msg_list[m]) > 0
    BY <1>a, Shorter
  <1>c. msg_list[m] # <<>> => msg_list[m][1] = count[m] - Len(msg_list[m]) + 1
    BY <1>a, <1>b DEF Consecutive
  <1>. USE DEF SendsHead, SentHead, ArmsHead, Resting
  <1>1. CASE Rests(m)
    BY <1>1 DEF Rests, Waits
  <1>2. CASE Transmits(m)
    BY <1>2, <1>a DEF Transmits, Arming
  <1>3. CASE IsServed(m)
    <2>1. m \in dflags /\ ~Arming(m) /\ msg_list[m][1] = done[m] /\ canmcf[m] # "TRANSMIT_ONCE"
      BY <1>3 DEF IsServed
    <2>2. UNCHANGED <<count[m], done[m]>> /\ ~Arming(m)' /\ m \notin iflag2'
      BY <1>3, <2>1 DEF IsServed, Arming
    <2>3. CASE Len(msg_list[m]) > 1
      <3>1. m \in dflags' /\ candata'[m] = msg_list[m][2] /\ canmcf'[m] = "TRANSMIT_ONCE"
        BY <1>3, <1>a, <2>1, <2>3 DEF IsServed
      <3>2. msg_list[m][2] = done[m] + 1
        <4>1. 2 \in 1 .. Len(msg_list[m])
          BY <1>a, <2>3
        <4>2. msg_list[m][2] = count[m] - Len(msg_list[m]) + 2
          BY <4>1 DEF Consecutive
        <4>. QED
          BY <1>a, <1>b, <1>c, <2>1, <2>3, <4>2
      <3>3. msg_list'[m] # <<>> /\ msg_list'[m][1] = msg_list[m][2]
        <4>1. msg_list'[m] = Tail(msg_list[m]) /\ msg_list[m] # <<>>
          BY <1>3 DEF IsServed
        <4>2. Len(Tail(msg_list[m])) > 0 /\ Tail(msg_list[m])[1] = msg_list[m][2]
          BY <1>a, <2>3, <4>1, Shorter
        <4>3. Tail(msg_list[m]) \in Seq(Nat)
          BY <1>a, <4>1, Shorter
        <4>4. Tail(msg_list[m]) # <<>>
          BY <4>2, <4>3, Shorter
        <4>. QED
          BY <4>1, <4>2, <4>4
      <3>. QED
        BY <2>2, <3>1, <3>2, <3>3
    <2>4. CASE ~(Len(msg_list[m]) > 1)
      <3>1. m \notin dflags' /\ UNCHANGED canmcf[m] /\ msg_list[m] # <<>>
        BY <1>3, <2>4 DEF IsServed
      <3>2. Len(msg_list[m]) = 1
        <4>1. \A n \in Nat : n > 0 /\ ~(n > 1) => n = 1
          OBVIOUS
        <4>. QED
          BY <1>b, <1>d, <2>4, <3>1, <4>1
      <3>3. done'[m] = count'[m]
        BY <1>a, <1>c, <2>1, <2>2, <3>1, <3>2
      <3>4. msg_list'[m] = <<>> /\ Len(msg_list'[m]) = 0
        <4>1. msg_list'[m] = Tail(msg_list[m])
          BY <1>3 DEF IsServed
        <4>2. Tail(msg_list[m]) \in Seq(Nat) /\ Len(Tail(msg_list[m])) = Len(msg_list[m]) - 1
          BY <1>a, <3>1, Shorter
        <4>3. Len(Tail(msg_list[m])) = 0
          BY <3>2, <4>2
        <4>. QED
          BY <4>1, <4>2, <4>3, Shorter
      <3>5. done'[m] + 0 = count'[m]
        BY <1>a, <2>2, <3>3
      <3>. QED
        BY <2>1, <2>2, <3>1, <3>4, <3>5
    <2>. QED
      BY <2>3, <2>4
  <1>4. CASE IsWritten(m)
    <2>1. /\ UNCHANGED <<done[m], candata[m], canmcf[m], iflag2, dflags>> /\ count'[m] = count[m] + 1
          /\ ~Arming(m) /\ ~Arming(m)' /\ thread' = "transmit" /\ tmb' = m
      BY <1>4 DEF IsWritten, Waits
    <2>2. msg_list'[m] = Append(msg_list[m], count[m] + 1)
      BY <1>4 DEF IsWritten
    <2>3. /\ Len(msg_list'[m]) = Len(msg_list[m]) + 1 /\ msg_list'[m] # <<>>
          /\ msg_list[m] # <<>> => msg_list'[m][1] = msg_list[m][1]
      <3>1. count[m] + 1 \in Nat
        BY <1>a
      <3>2. Len(Append(msg_list[m], count[m] + 1)) = Len(msg_list[m]) + 1
        BY <1>a, <3>1, Longer
      <3>3. msg_list[m] # <<>> => Append(msg_list[m], count[m] + 1)[1] = msg_list[m][1]
        BY <1>a, <1>b, <3>1, Longer
      <3>. QED
        <4>1. msg_list'[m] # <<>>
          <5>1. Append(msg_list[m], count[m] + 1) # <<>>
            BY <1>a, <3>1
          <5>. QED
            BY <2>2, <5>1
        <4>. QED
          BY <2>2, <3>2, <3>3, <4>1
    <2>4. SendsHead(m)' /\ SentHead(m)' /\ ArmsHead(m)'
      BY <2>1, <2>3
    <2>5. done[m] + Len(msg_list[m]) = count[m] => done[m] + (Len(msg_list[m]) + 1) = count[m] + 1
      BY <1>a
    <2>. QED
      BY <2>1, <2>3, <2>4, <2>5
  <1>5. CASE Begins(m)
    <2>1. /\ UNCHANGED <<msg_list[m], count[m], done[m], candata[m], canmcf[m], iflag2>>
          /\ m \notin dflags /\ m \in dflags' /\ msg_list[m] # <<>> /\ Arming(m)'
      BY <1>5 DEF Begins
    <2>2. txmsg' = msg_list[m][1]
      BY <1>5, <1>a, Shorter DEF Begins
    <2>3. msg_list[m][1] = done[m] + 1
      <3>1. done[m] + Len(msg_list[m]) = count[m]
        BY <2>1
      <3>. QED
        BY <1>a, <1>c, <2>1, <3>1
    <2>. QED
      BY <2>1, <2>2, <2>3
  <1>6. CASE IsArmed(m)
    BY <1>6 DEF IsArmed
  <1>. QED
    BY <1>1, <1>2, <1>3, <1>4, <1>5, <1>6 DEF TxStep

(* Every step keeps the invariant of the transmit side.                    *)
LEMMA TxKept ==
  ASSUME OneSender, RxInv, TxInv, CanNext
  PROVE  TxInv'
  <1>1. /\ RegsTyped /\ ListsTyped /\ PlacesTyped /\ Taken /\ ThreadAt /\ SeenFlags
        /\ \A m \in TxMb : Consecutive(m)
    BY TypesInParts DEF RxInv, TxInv
  <1>2. SeenFlags'
    BY <1>1, SeenFlagsKept
  <1>3. ASSUME NEW m \in TxMb PROVE Consecutive(m)'
    BY <1>1, ListSteps, ConsecutiveKept
  <1>4. ASSUME ~stale' PROVE Phases'
    <2>1. ~stale
      BY <1>1, <1>4, NeverFresh
    <2>2. Phases
      BY <2>1 DEF TxInv
    <2>. SUFFICES ASSUME NEW m \in TxMb
                  PROVE  (SendsHead(m) /\ SentHead(m) /\ ArmsHead(m) /\ Resting(m))'
      BY DEF Phases
    <2>3. SendsHead(m) /\ SentHead(m) /\ ArmsHead(m) /\ Resting(m) /\ Consecutive(m)
      BY <1>1, <2>2 DEF Phases
    <2>4. TxStep(m)
      BY <1>1, <1>4, <2>2, TxSteps
    <2>. QED
      BY <1>1, <2>3, <2>4, PhasesKept
  <1>. QED
    BY <1>2, <1>3, <1>4 DEF TxInv

(* A step that changes nothing.                                            *)
LEMMA TxStill ==
  ASSUME TxInv, UNCHANGED canVars
  PROVE  TxInv'
  BY DEF TxInv, canVars, hwVars, errVars, isrVars, threadVars, devctlVars, mdriverVars,
     SeenFlags,
     Consecutive,
         Phases, SendsHead, SentHead, ArmsHead, Resting, Arming

(* Nothing has been written.                                               *)
LEMMA TxStarts == CanInit => TxInv
  <1>. SUFFICES ASSUME CanInit PROVE TxInv
    OBVIOUS
  <1>1. SeenFlags
    BY DEF CanInit, SeenFlags
  <1>2. ASSUME NEW m \in TxMb
        PROVE  msg_list[m] = <<>> /\ count[m] = 0 /\ done[m] = 0 /\ canmcf[m] = "NOT_READY"
    <2>1. m \in Mb /\ m \notin RxMb
      BY Mailboxes
    <2>2. {k \in 1 .. Len(Buffered) : Buffered[k] = m} = {}
      <3>1. \A k \in 1 .. Len(Buffered) : Buffered[k] \in {-1} \cup RxMb
        BY CanAssumption DEF RxMb
      <3>2. m # -1
        BY Mailboxes
      <3>. QED
        BY <2>1, <3>1, <3>2
    <2>3. BufferedFor(m, Len(Buffered)) = 0
      BY <2>2, FS_EmptySet DEF BufferedFor
    <2>. QED
      BY <2>1, <2>3 DEF CanInit
  <1>3. \A m \in TxMb : MaxMsgs[m] \in Nat
    BY CanAssumption DEF TxMb
  <1>4. \A m \in TxMb : Consecutive(m)
    BY <1>2, <1>3 DEF Consecutive
  <1>5. Phases
    <2>1. \A m \in TxMb : done[m] + Len(msg_list[m]) = count[m]
      BY <1>2
    <2>. QED
      BY <1>2, <2>1 DEF CanInit, Phases, SendsHead, SentHead, ArmsHead, Resting, Arming
  <1>. QED
    BY <1>1, <1>4, <1>5 DEF TxInv

(* The phases say what is sent.                                            *)
LEMMA NextSent ==
  ASSUME RxInv, TxInv
  PROVE  SendsNext
  <1>1. CanTypeOK /\ ListsTyped
    BY TypesInParts DEF RxInv
  <1>2. ASSUME ~stale, NEW m \in TxMb, canmcf[m] = "TRANSMIT_ONCE"
        PROVE  /\ candata[m] = done[m] + 1
               /\ msg_list[m] # <<>> /\ Head(msg_list[m]) = candata[m]
    <2>1. /\ candata[m] = done[m] + 1
          /\ msg_list[m] # <<>> /\ msg_list[m][1] = candata[m]
      BY <1>2 DEF TxInv, Phases, SendsHead
    <2>2. msg_list[m] \in Seq(Nat)
      BY <1>1, Mailboxes, Entries
    <2>. QED
      BY <2>1, <2>2, Shorter
  <1>. QED
    BY <1>1, <1>2 DEF SendsNext

(* A mailbox sends the messages written to it one after the other, each    *)
(* once, as long as no other is written to.                                *)
THEOREM SentCorrect == OneSender => (CanSpec => []SendsNext)
  <1>. SUFFICES ASSUME OneSender PROVE CanSpec => []SendsNext
    OBVIOUS
  <1>1. RxInv /\ TxInv /\ [CanNext]_canVars => RxInv' /\ TxInv'
    BY RxKept, RxStill, TxKept, TxStill
  <1>2. CanInit => RxInv /\ TxInv
    BY RxStarts, TxStarts
  <1>. QED
    BY <1>1, <1>2, NextSent, PTL DEF CanSpec

=============================================================================
