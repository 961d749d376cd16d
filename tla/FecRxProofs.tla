---------------------------- MODULE FecRxProofs ----------------------------
(***************************************************************************)
(* OneHolder, OldestFirst and OneLostPerError of FecRx, for every ring,    *)
(* every number of packets and every limit of io-net.                      *)
(***************************************************************************)
EXTENDS FecRx, FiniteSetTheorems, TLAPS

Elems(q)    == {q[k] : k \in 1 .. Len(q)}
NoRepeat(q) == \A i, j \in 1 .. Len(q) : q[i] = q[j] => i = j

FreeList == num_rx_free = Len(rx_free_pkt_q) /\ NoRepeat(rx_free_pkt_q)

(* The slot whose packet has been taken up and not replaced yet.           *)
Open(i) == rxpc \in {"up", "refill"} /\ i = slot

(* What the locals of mx35_fec_receive hold at each place.                 *)
Places ==
  /\ new = NoPkt <=> rxpc \in {"idle", "look"}
  /\ rx_npkt = NoPkt <=> rxpc # "up"
  /\ rxpc = "take" => ~rx_bd[rx_cidx].empty

Ring ==
  \A i \in RxSlots :
    /\ rx_bd[i].wrap = (i = NumRx - 1)
    /\ rx_pktq[i] = NoPkt <=> Open(i)
    /\ rx_bd[i].empty => ~Open(i) /\ rx_bd[i].buffer = rx_pktq[i]

(* Every packet is in one place.                                           *)
Apart ==
  /\ \A i, j \in RxSlots : i # j /\ rx_pktq[i] # NoPkt => rx_pktq[i] # rx_pktq[j]
  /\ \A i \in RxSlots : rx_pktq[i] # NoPkt =>
       rx_pktq[i] \in allocated \ (FreeSet \cup upper \cup {new, rx_npkt, adv})
  /\ FreeSet \subseteq allocated \ (upper \cup {new, rx_npkt, adv})
  /\ upper \subseteq allocated \ {new, rx_npkt, adv}
  /\ {new, rx_npkt, adv} \subseteq allocated \cup {NoPkt}
  /\ new # NoPkt => new \notin {rx_npkt, adv}
  /\ rx_npkt # NoPkt => rx_npkt # adv

(* Frames in error that are counted or still in the ring are bounded.      *)
BadSlots == {i \in RxSlots : rx_bd[i].err}
BadBounded == errors + Cardinality(BadSlots) <= MaxBadFrames

(* How far i lies behind c, around the ring.                               *)
Behind(c, i)  == IF i >= c THEN i - c ELSE i - c + NumRx
Forward(c, n) == IF c + n < NumRx THEN c + n ELSE c + n - NumRx

(* n frames wait from rx_cidx on, and the engine stands behind them.       *)
Frames(n) ==
  /\ \A i \in RxSlots : (~rx_bd[i].empty /\ ~Open(i)) <=> Behind(rx_cidx, i) < n
  /\ hw_rx = Forward(rx_cidx, n)
  /\ rxpc \in {"up", "refill"} => /\ n < NumRx /\ ~rx_bd[slot].empty
                                  /\ Behind(rx_cidx, slot) = NumRx - 1

InTurn == \E n \in 0 .. NumRx : Frames(n)

RxInv ==
  /\ RxTypeOK
  /\ FreeList /\ Places /\ Ring /\ Apart
  /\ BadBounded /\ OneLostPerError /\ InTurn
-----------------------------------------------------------------------------
(* The ring wraps at its end only.                                         *)
LEMMA NextRx ==
  ASSUME NEW c \in RxSlots
  PROVE  NEXT_RX(c) \in RxSlots /\ NEXT_RX(c) = IF c = NumRx - 1 THEN 0 ELSE c + 1
BY RxAssumption DEF NEXT_RX, RxSlots

(* Forward is addition modulo the size of the ring.                        *)
LEMMA ForwardRx ==
  ASSUME NEW c \in RxSlots, NEW n \in 0 .. NumRx
  PROVE  Forward(c, n) = (c + n) % NumRx /\ Forward(c, n) \in RxSlots
<1>1. CASE c + n < NumRx
  BY <1>1, RxAssumption DEF RxSlots, Forward
<1>2. CASE c + n >= NumRx
  <2>1. c + n - NumRx \in 0 .. NumRx - 1
    BY <1>2, RxAssumption DEF RxSlots
  <2>2. (c + n) % NumRx = c + n - NumRx
    BY <2>1, RxAssumption DEF RxSlots
  <2> QED BY <1>2, <2>1, <2>2, RxAssumption DEF RxSlots, Forward
<1> QED BY <1>1, <1>2, RxAssumption DEF RxSlots

(* Each slot is reached by going forward as far as it lies behind.         *)
LEMMA BehindForward ==
  ASSUME NEW c \in RxSlots
  PROVE  /\ \A i \in RxSlots : Behind(c, i) \in 0 .. NumRx - 1 /\ Forward(c, Behind(c, i)) = i
         /\ \A n \in 0 .. NumRx - 1 : Behind(c, Forward(c, n)) = n
         /\ Behind(c, c) = 0
BY RxAssumption DEF RxSlots, Forward, Behind

(* The oldest slot becomes the one farthest behind; all others come nearer.*)
LEMMA BehindNext ==
  ASSUME NEW c \in RxSlots, NEW i \in RxSlots
  PROVE  Behind(NEXT_RX(c), i) = IF i = c THEN NumRx - 1 ELSE Behind(c, i) - 1
BY NextRx, RxAssumption DEF RxSlots, Behind

(* A start that moves on by one shortens the way by one.                   *)
LEMMA ForwardNext ==
  ASSUME NEW c \in RxSlots, NEW n \in 1 .. NumRx
  PROVE  Forward(NEXT_RX(c), n - 1) = Forward(c, n)
BY NextRx, RxAssumption DEF RxSlots, Forward
-----------------------------------------------------------------------------
(* A list without repetitions has as many elements as it is long.          *)
LEMMA ElemsCardinality ==
  ASSUME NEW S, NEW q \in Seq(S), NoRepeat(q)
  PROVE  Cardinality(Elems(q)) = Len(q)
<1> DEFINE f == [k \in 1 .. Len(q) |-> q[k]]
<1>1. f \in Bijection(1 .. Len(q), Elems(q))
  <2>1. f \in [1 .. Len(q) -> Elems(q)]
    BY DEF Elems
  <2>2. \A a, b \in 1 .. Len(q) : f[a] = f[b] => a = b
    BY DEF NoRepeat
  <2>3. f \in Injection(1 .. Len(q), Elems(q))
    BY <2>1, <2>2 DEF Injection, IsInjective
  <2>4. \A e \in Elems(q) : \E a \in 1 .. Len(q) : f[a] = e
    BY DEF Elems
  <2> QED BY <2>1, <2>3, <2>4 DEF Bijection, Surjection
<1>2. ExistsBijection(1 .. Len(q), Elems(q))
  BY <1>1 DEF ExistsBijection
<1>3. Len(q) \in Nat
  OBVIOUS
<1>4. IsFiniteSet(1 .. Len(q)) /\ Cardinality(1 .. Len(q)) = Len(q)
  <2> DEFINE n == Len(q)
  <2>1. n \in Nat /\ n \in Int /\ 1 \in Int
    BY <1>3
  <2> HIDE DEF n
  <2>2. IsFiniteSet(1 .. n) /\ Cardinality(1 .. n) = IF 1 > n THEN 0 ELSE n - 1 + 1
    BY <2>1, FS_Interval
  <2>3. IsFiniteSet(1 .. n) /\ Cardinality(1 .. n) = n
    BY <2>1, <2>2
  <2> QED BY <2>3 DEF n
<1> HIDE DEF f
<1>5. Cardinality(Elems(q)) = Cardinality(1 .. Len(q))
  BY Zenon, <1>2, <1>4, FS_Bijection
<1> QED BY <1>4, <1>5

(* The free list when it loses its head, ...                               *)
LEMMA PopElems ==
  ASSUME NEW S, NEW q \in Seq(S), q # <<>>, NoRepeat(q)
  PROVE  /\ Tail(q) \in Seq(S) /\ Len(Tail(q)) = Len(q) - 1 /\ NoRepeat(Tail(q))
         /\ Head(q) \in Elems(q) /\ Head(q) \in S
         /\ Elems(Tail(q)) = Elems(q) \ {Head(q)}
<1>1. Len(q) \in Nat \ {0} /\ Head(q) = q[1] /\ \A k \in 1 .. Len(q) : q[k] \in S
  OBVIOUS
<1>2. Tail(q) \in Seq(S) /\ Len(Tail(q)) = Len(q) - 1
      /\ \A k \in 1 .. Len(q) - 1 : Tail(q)[k] = q[k + 1]
  OBVIOUS
<1>3. NoRepeat(Tail(q))
  BY <1>1, <1>2 DEF NoRepeat
<1>4. Head(q) \in Elems(q)
  BY <1>1 DEF Elems
<1>5. Elems(Tail(q)) \subseteq Elems(q) \ {Head(q)}
  BY <1>1, <1>2 DEF Elems, NoRepeat
<1>6. Elems(q) \ {Head(q)} \subseteq Elems(Tail(q))
  <2> SUFFICES ASSUME NEW k \in 1 .. Len(q), q[k] # q[1] PROVE q[k] \in Elems(Tail(q))
    BY <1>1 DEF Elems
  <2>1. k - 1 \in 1 .. Len(q) - 1 /\ Tail(q)[k - 1] = q[k]
    BY <1>1, <1>2
  <2> QED BY <1>2, <2>1 DEF Elems
<1> QED BY <1>1, <1>2, <1>3, <1>4, <1>5, <1>6

(* ... and when it gets a new one.                                         *)
LEMMA PushElems ==
  ASSUME NEW S, NEW q \in Seq(S), NEW p \in S, p \notin Elems(q), NoRepeat(q)
  PROVE  LET r == <<p>> \o q
         IN  /\ r \in Seq(S) /\ Len(r) = Len(q) + 1 /\ NoRepeat(r)
             /\ Elems(r) = Elems(q) \cup {p}
<1> DEFINE r == <<p>> \o q
<1>1. r \in Seq(S) /\ Len(r) = Len(q) + 1 /\ Len(q) \in Nat
  OBVIOUS
<1>2. r[1] = p /\ \A k \in 1 .. Len(q) : r[k + 1] = q[k]
  OBVIOUS
<1>3. \A k \in 2 .. Len(r) : r[k] = q[k - 1] /\ k - 1 \in 1 .. Len(q)
  BY <1>1, <1>2
<1>4. \A k \in 1 .. Len(q) : q[k] # p
  BY DEF Elems
<1>5. NoRepeat(r)
  <2> SUFFICES ASSUME NEW i \in 1 .. Len(r), NEW j \in 1 .. Len(r), r[i] = r[j] PROVE i = j
    BY DEF NoRepeat
  <2>1. CASE i = 1 \/ j = 1
    BY <1>1, <1>2, <1>3, <1>4, <2>1
  <2>2. CASE i # 1 /\ j # 1
    BY <1>1, <1>3, <2>2 DEF NoRepeat
  <2> QED BY <2>1, <2>2
<1>6. Elems(r) \subseteq Elems(q) \cup {p}
  BY <1>1, <1>2, <1>3 DEF Elems
<1>7. Elems(q) \cup {p} \subseteq Elems(r)
  <2>1. 1 \in 1 .. Len(r) /\ \A k \in 1 .. Len(q) : k + 1 \in 1 .. Len(r)
    BY <1>1
  <2>2. p \in Elems(r)
    BY <1>2, <2>1 DEF Elems
  <2>3. ASSUME NEW k \in 1 .. Len(q) PROVE q[k] \in Elems(r)
    <3>1. r[k + 1] = q[k] /\ k + 1 \in 1 .. Len(r)
      BY <1>2, <2>1
    <3> HIDE DEF r
    <3> QED BY <3>1 DEF Elems
  <2> QED BY <2>2, <2>3 DEF Elems
<1> QED BY <1>1, <1>5, <1>6, <1>7

(* FreeSet as the elements of the list.                                    *)
LEMMA FreeElems == FreeSet = Elems(rx_free_pkt_q)
BY DEF FreeSet, Elems

(* Finite sets the invariant counts.                                       *)
LEMMA Finite ==
  /\ \A S \in SUBSET RxPackets : IsFiniteSet(S) /\ Cardinality(S) \in Nat
  /\ \A S \in SUBSET RxSlots : IsFiniteSet(S) /\ Cardinality(S) \in Nat
<1>1. IsFiniteSet(RxSlots)
  BY RxAssumption, FS_Interval DEF RxSlots
<1>2. ASSUME NEW T, IsFiniteSet(T), NEW S \in SUBSET T
      PROVE  IsFiniteSet(S) /\ Cardinality(S) \in Nat
  BY <1>2, FS_Subset, FS_CardinalityType
<1> QED BY <1>1, <1>2, RxAssumption
-----------------------------------------------------------------------------
(* mx35_fec_init_list.                                                     *)
LEMMA InitInv == RxInit => RxInv
<1> SUFFICES ASSUME RxInit PROVE RxInv
  OBVIOUS
<1>1. PICK q \in [RxSlots -> RxPackets] :
        /\ \A i, j \in RxSlots : q[i] = q[j] => i = j
        /\ rx_pktq = q
        /\ rx_bd = [i \in RxSlots |-> [empty |-> TRUE, wrap |-> i = NumRx - 1,
                                       err |-> FALSE, buffer |-> q[i]]]
        /\ allocated = {q[i] : i \in RxSlots}
  BY DEF RxInit
<1>2. /\ rx_cidx = 0 /\ rx_free_pkt_q = <<>> /\ num_rx_free = 0
      /\ rxpc = "idle" /\ new = NoPkt /\ rx_npkt = NoPkt /\ slot = 0
      /\ upper = {} /\ adv = NoPkt /\ errors = 0
      /\ hw_rx = 0 /\ rx_active = TRUE
  BY DEF RxInit
<1>3. 0 \in RxSlots /\ NumRx \in Nat /\ 0 \in 0 .. NumRx /\ 0 \in 0 .. MaxBadFrames
  BY RxAssumption DEF RxSlots
<1>4. \A i \in RxSlots : /\ rx_bd[i].empty = TRUE /\ rx_bd[i].err = FALSE
                         /\ rx_bd[i].wrap = (i = NumRx - 1)
                         /\ rx_bd[i].buffer = rx_pktq[i]
                         /\ rx_pktq[i] \in RxPackets /\ rx_pktq[i] # NoPkt
  BY <1>1, RxAssumption
<1>5. FreeSet = {}
  BY <1>2 DEF FreeSet
<1>6. RxTypeOK
  <2>1. rx_bd \in [RxSlots -> [empty : BOOLEAN, wrap : BOOLEAN, err : BOOLEAN,
                              buffer : RxPackets]]
    BY <1>1
  <2>2. rx_pktq \in [RxSlots -> RxPackets \cup {NoPkt}] /\ allocated \subseteq RxPackets
    BY <1>1
  <2>3. rx_free_pkt_q \in Seq(RxPackets)
    BY <1>2
  <2> QED BY <1>2, <1>3, <2>1, <2>2, <2>3 DEF RxTypeOK
<1>7. FreeList
  BY <1>2 DEF FreeList, NoRepeat
<1>8. Places /\ Ring
  BY <1>2, <1>4 DEF Places, Ring, Open
<1>9. Apart
  BY <1>1, <1>2, <1>4, <1>5, RxAssumption DEF Apart
<1>10. BadBounded
  <2>1. BadSlots = {}
    BY <1>4 DEF BadSlots
  <2> QED BY <1>2, <2>1, FS_EmptySet, RxAssumption DEF BadBounded
<1>11. OneLostPerError
  <2>1. allocated \ Held = {}
    BY <1>1 DEF Held
  <2> QED BY <1>2, <2>1, FS_EmptySet DEF OneLostPerError
<1>12. InTurn
  <2>1. Frames(0)
    BY <1>2, <1>3, <1>4, RxAssumption DEF Frames, Open, Behind, Forward, RxSlots
  <2> QED BY <1>3, <2>1 DEF InTurn
<1> QED BY <1>6, <1>7, <1>8, <1>9, <1>10, <1>11, <1>12 DEF RxInv

(* Steps that leave the ring and the engine's place in it alone.           *)
RingSame ==
  /\ UNCHANGED <<rx_bd, rx_pktq, rx_cidx, hw_rx, slot, errors>>
  /\ rxpc' \in {"up", "refill"} <=> rxpc \in {"up", "refill"}

(* They keep what is said of the ring.                                     *)
LEMMA RingSameStep ==
  ASSUME RxInv, RingSame
  PROVE  Ring' /\ BadBounded' /\ InTurn'
<1>1. /\ rx_bd' = rx_bd /\ rx_pktq' = rx_pktq /\ rx_cidx' = rx_cidx /\ hw_rx' = hw_rx
      /\ slot' = slot /\ errors' = errors
      /\ \A i : Open(i)' <=> Open(i)
  BY DEF RingSame, Open
<1>2. Ring'
  BY <1>1 DEF RxInv, Ring
<1>3. BadBounded'
  BY <1>1 DEF RxInv, BadBounded, BadSlots
<1>4. PICK n \in 0 .. NumRx : Frames(n)
  BY DEF RxInv, InTurn
<1>5. Frames(n)'
  BY <1>1, <1>4 DEF Frames, RingSame
<1> QED BY <1>2, <1>3, <1>5 DEF InTurn

(* What was lost stays lost, and nothing else is.                          *)
LEMMA LostSame ==
  ASSUME RxInv, errors' = errors, (allocated \ Held)' = allocated \ Held
  PROVE  OneLostPerError'
BY DEF RxInv, OneLostPerError

(* A packet leaves the free list.                                          *)
LEMMA PoppedFree ==
  ASSUME RxInv, rx_free_pkt_q # <<>>, Popped
  PROVE  LET h == Head(rx_free_pkt_q)
         IN  /\ h \in FreeSet /\ h \in RxPackets /\ FreeSet' = FreeSet \ {h}
             /\ FreeList' /\ rx_free_pkt_q' \in Seq(RxPackets) /\ num_rx_free' \in 0 .. NumRx
<1>1. rx_free_pkt_q \in Seq(RxPackets) /\ NoRepeat(rx_free_pkt_q)
      /\ num_rx_free = Len(rx_free_pkt_q) /\ num_rx_free \in 0 .. NumRx
  BY DEF RxInv, RxTypeOK, FreeList
<1>2. rx_free_pkt_q' = Tail(rx_free_pkt_q) /\ num_rx_free' = num_rx_free - 1
  BY DEF Popped
<1>3. Len(rx_free_pkt_q) > 0
  BY <1>1
<1>4. num_rx_free' \in 0 .. NumRx
  BY <1>1, <1>2, <1>3, RxAssumption
<1>5. FreeSet' = Elems(rx_free_pkt_q')
  BY DEF FreeSet, Elems
<1>6. Len(rx_free_pkt_q') = num_rx_free' /\ NoRepeat(rx_free_pkt_q')
  BY <1>1, <1>2, PopElems
<1> QED BY <1>1, <1>2, <1>4, <1>5, <1>6, PopElems, FreeElems DEF FreeList

(* mx35_fec_receive_complete: onto the list or back to memory.             *)
LEMMA CompletedFree ==
  ASSUME RxInv, NEW p \in RxPackets, p \notin FreeSet, ReceiveComplete(p)
  PROVE  /\ FreeList' /\ rx_free_pkt_q' \in Seq(RxPackets) /\ num_rx_free' \in 0 .. NumRx
         /\ \/ FreeSet' = FreeSet \cup {p} /\ allocated' = allocated
            \/ FreeSet' = FreeSet /\ allocated' = allocated \ {p}
<1>1. rx_free_pkt_q \in Seq(RxPackets) /\ NoRepeat(rx_free_pkt_q)
      /\ num_rx_free = Len(rx_free_pkt_q) /\ num_rx_free \in 0 .. NumRx
  BY DEF RxInv, RxTypeOK, FreeList
<1>2. FreeSet' = Elems(rx_free_pkt_q')
  BY DEF FreeSet, Elems
<1>3. CASE num_rx_free < NumRx
  <2>1. rx_free_pkt_q' = <<p>> \o rx_free_pkt_q /\ num_rx_free' = num_rx_free + 1
        /\ allocated' = allocated
    BY <1>3 DEF ReceiveComplete
  <2>2. num_rx_free' \in 0 .. NumRx
    BY <1>1, <1>3, <2>1, RxAssumption
  <2>3. p \notin Elems(rx_free_pkt_q)
    BY FreeElems
  <2>4. Len(rx_free_pkt_q') = num_rx_free' /\ NoRepeat(rx_free_pkt_q')
    BY <1>1, <2>1, <2>3, PushElems
  <2> QED BY <1>1, <1>2, <2>1, <2>2, <2>3, <2>4, PushElems, FreeElems DEF FreeList
<1>4. CASE ~(num_rx_free < NumRx)
  <2>1. UNCHANGED <<rx_free_pkt_q, num_rx_free>> /\ allocated' = allocated \ {p}
    BY <1>4 DEF ReceiveComplete, rxFree
  <2> QED BY <1>1, <2>1 DEF FreeList, FreeSet
<1> QED BY <1>3, <1>4
-----------------------------------------------------------------------------
(* mx35_fec_receive is called, finds nothing, or no memory.                *)
LEMMA ReceiveStep ==
  ASSUME RxInv, Receive
  PROVE  RxInv'
<1>1. RingSame
  BY DEF Receive, RingSame, rxRing, rxHw
<1>2. UNCHANGED <<rx_free_pkt_q, num_rx_free, new, rx_npkt, allocated, upper, adv, errors>>
      /\ UNCHANGED <<rx_bd, rx_pktq, rx_cidx>>
  BY DEF Receive, rxRing, rxFree
<1>3. RxTypeOK' /\ FreeList' /\ Places'
  BY <1>2 DEF Receive, RxInv, RxTypeOK, FreeList, Places, rxHw
<1>4. FreeSet' = FreeSet /\ Held' = Held
  BY <1>2 DEF FreeSet, Held
<1>5. Apart'
  BY <1>2, <1>4 DEF RxInv, Apart
<1>6. OneLostPerError'
  BY <1>2, <1>4, LostSame
<1> QED BY <1>1, <1>3, <1>5, <1>6, RingSameStep DEF RxInv

(* The oldest descriptor is empty.                                         *)
LEMMA EmptyStep ==
  ASSUME RxInv, RxEmpty
  PROVE  RxInv'
<1>1. RingSame
  BY DEF RxEmpty, RingSame, rxRing, rxHw
<1>2. UNCHANGED <<rx_free_pkt_q, num_rx_free, new, rx_npkt, allocated, upper, adv, errors>>
      /\ UNCHANGED <<rx_bd, rx_pktq, rx_cidx>>
  BY DEF RxEmpty, rxRing, rxFree
<1>3. RxTypeOK' /\ FreeList' /\ Places'
  BY <1>2 DEF RxEmpty, RxInv, RxTypeOK, FreeList, Places, rxHw
<1>4. FreeSet' = FreeSet /\ Held' = Held
  BY <1>2 DEF FreeSet, Held
<1>5. Apart'
  BY <1>2, <1>4 DEF RxInv, Apart
<1>6. OneLostPerError'
  BY <1>2, <1>4, LostSame
<1> QED BY <1>1, <1>3, <1>5, <1>6, RingSameStep DEF RxInv

(* There is no packet to replace the frame's.                              *)
LEMMA NoMemoryStep ==
  ASSUME RxInv, NoMemory
  PROVE  RxInv'
<1>1. RingSame
  BY DEF NoMemory, RingSame, rxRing, rxHw
<1>2. UNCHANGED <<rx_free_pkt_q, num_rx_free, new, rx_npkt, allocated, upper, adv, errors>>
      /\ UNCHANGED <<rx_bd, rx_pktq, rx_cidx>>
  BY DEF NoMemory, rxRing, rxFree
<1>3. RxTypeOK' /\ FreeList' /\ Places'
  BY <1>2 DEF NoMemory, RxInv, RxTypeOK, FreeList, Places, rxHw
<1>4. FreeSet' = FreeSet /\ Held' = Held
  BY <1>2 DEF FreeSet, Held
<1>5. Apart'
  BY <1>2, <1>4 DEF RxInv, Apart
<1>6. OneLostPerError'
  BY <1>2, <1>4, LostSame
<1> QED BY <1>1, <1>3, <1>5, <1>6, RingSameStep DEF RxInv

(* The packet that will replace the one in the ring.                       *)
LEMMA FromFreeStep ==
  ASSUME RxInv, NewFromFree
  PROVE  RxInv'
<1> DEFINE h == Head(rx_free_pkt_q)
<1>1. RingSame
  BY DEF NewFromFree, RingSame, rxRing, rxLocal, rxHw
<1>2. /\ h \in FreeSet /\ h \in RxPackets /\ FreeSet' = FreeSet \ {h}
      /\ FreeList' /\ rx_free_pkt_q' \in Seq(RxPackets) /\ num_rx_free' \in 0 .. NumRx
  BY PoppedFree DEF NewFromFree
<1>3. new' = h /\ new = NoPkt
      /\ UNCHANGED <<rx_bd, rx_pktq, rx_cidx, adv, rx_npkt, slot, allocated, upper, errors, hw_rx, rx_active>>
  BY DEF NewFromFree, RxInv, Places, rxRing, rxLocal, rxHw
<1>4. RxTypeOK'
  BY <1>2, <1>3 DEF NewFromFree, RxInv, RxTypeOK, rxLocal
<1>5. Places'
  BY <1>2, <1>3, RxAssumption DEF NewFromFree, RxInv, Places, rxLocal
<1>6. Apart'
  BY <1>2, <1>3, RxAssumption DEF RxInv, Apart
<1>7. (allocated \ Held)' = allocated \ Held
  <2>1. NoPkt \notin allocated
    BY RxAssumption DEF RxInv, RxTypeOK
  <2> QED BY <1>2, <1>3, <2>1 DEF Held
<1>8. OneLostPerError'
  BY <1>3, <1>7, LostSame
<1> QED BY <1>1, <1>2, <1>4, <1>5, <1>6, <1>8, RingSameStep DEF RxInv

(* Or a new one.                                                           *)
LEMMA FromMemoryStep ==
  ASSUME RxInv, NewFromMemory
  PROVE  RxInv'
<1>1. PICK p \in RxPackets \ allocated : new' = p /\ allocated' = allocated \cup {p}
  BY DEF NewFromMemory
<1>2. RingSame
  BY DEF NewFromMemory, RingSame, rxRing, rxLocal, rxHw
<1>3. new = NoPkt /\ rx_free_pkt_q = <<>>
      /\ UNCHANGED <<rx_bd, rx_pktq, rx_cidx, adv, rx_npkt, slot, upper, errors, hw_rx, rx_active,
                     rx_free_pkt_q, num_rx_free>>
  BY DEF NewFromMemory, RxInv, Places, rxRing, rxLocal, rxHw, rxFree
<1>4. RxTypeOK' /\ FreeList'
  BY <1>1, <1>3 DEF NewFromMemory, RxInv, RxTypeOK, FreeList, rxLocal
<1>5. Places'
  BY <1>1, <1>3, RxAssumption DEF NewFromMemory, RxInv, Places, rxLocal
<1>6. FreeSet' = FreeSet
  BY <1>3 DEF FreeSet
<1>7. Apart'
  BY <1>1, <1>3, <1>6, RxAssumption DEF RxInv, Apart
<1>8. (allocated \ Held)' = allocated \ Held
  <2>1. NoPkt \notin allocated
    BY RxAssumption DEF RxInv, RxTypeOK
  <2> QED BY <1>1, <1>3, <1>6, <2>1 DEF Held
<1>9. OneLostPerError'
  BY <1>3, <1>8, LostSame
<1> QED BY <1>2, <1>4, <1>5, <1>7, <1>9, RingSameStep DEF RxInv

(* The frame goes up, ...                                                  *)
LEMMA UpStep ==
  ASSUME RxInv, Up
  PROVE  RxInv'
<1>1. RingSame
  BY DEF Up, RingSame, rxRing, rxLocal, rxHw
<1>2. rx_npkt # NoPkt /\ rx_npkt' = NoPkt /\ upper' = upper \cup {rx_npkt}
      /\ UNCHANGED <<rx_bd, rx_pktq, rx_cidx, adv, new, slot, allocated, errors, hw_rx, rx_active,
                     rx_free_pkt_q, num_rx_free>>
  BY DEF Up, RxInv, Places, rxRing, rxLocal, rxHw, rxFree
<1>3. rx_npkt \in allocated
  BY <1>2 DEF RxInv, Apart
<1>4. RxTypeOK' /\ FreeList'
  BY <1>2, <1>3 DEF Up, RxInv, RxTypeOK, FreeList, rxLocal
<1>5. Places'
  BY <1>2 DEF Up, RxInv, Places, rxLocal
<1>6. FreeSet' = FreeSet
  BY <1>2 DEF FreeSet
<1>7. Apart'
  BY <1>2, <1>3, <1>6, RxAssumption DEF RxInv, RxTypeOK, Apart
<1>8. (allocated \ Held)' = allocated \ Held
  <2>1. NoPkt \notin allocated
    BY RxAssumption DEF RxInv, RxTypeOK
  <2> QED BY <1>2, <1>6, <2>1 DEF Held
<1>9. OneLostPerError'
  BY <1>2, <1>8, LostSame
<1> QED BY <1>1, <1>4, <1>5, <1>7, <1>9, RingSameStep DEF RxInv

(* ... or is not wanted.                                                   *)
LEMMA NotUpStep ==
  ASSUME RxInv, NotUp
  PROVE  RxInv'
<1>1. RingSame
  BY DEF NotUp, RingSame, rxRing, rxLocal, rxHw
<1>2. rx_npkt # NoPkt /\ rx_npkt' = NoPkt /\ ReceiveComplete(rx_npkt)
      /\ UNCHANGED <<rx_bd, rx_pktq, rx_cidx, adv, new, slot, upper, errors, hw_rx, rx_active>>
  BY DEF NotUp, RxInv, Places, rxRing, rxLocal, rxHw
<1>3. rx_npkt \in allocated /\ rx_npkt \in RxPackets /\ rx_npkt \notin FreeSet
  BY <1>2 DEF RxInv, Apart, RxTypeOK
<1>4. /\ FreeList' /\ rx_free_pkt_q' \in Seq(RxPackets) /\ num_rx_free' \in 0 .. NumRx
      /\ \/ FreeSet' = FreeSet \cup {rx_npkt} /\ allocated' = allocated
         \/ FreeSet' = FreeSet /\ allocated' = allocated \ {rx_npkt}
  BY <1>2, <1>3, CompletedFree
<1>5. RxTypeOK'
  <2>1. upper \subseteq allocated \ {rx_npkt}
    BY DEF RxInv, Apart
  <2> QED BY <1>2, <1>4, <2>1 DEF NotUp, RxInv, RxTypeOK, rxLocal
<1>6. Places'
  BY <1>2 DEF NotUp, RxInv, Places, rxLocal
<1>7. Apart'
  BY <1>2, <1>3, <1>4, RxAssumption DEF RxInv, RxTypeOK, Apart
<1>8. (allocated \ Held)' = allocated \ Held
  <2>1. NoPkt \notin allocated
    BY RxAssumption DEF RxInv, RxTypeOK
  <2> QED BY <1>2, <1>4, <2>1 DEF Held
<1>9. OneLostPerError'
  BY <1>2, <1>8, LostSame
<1> QED BY <1>1, <1>4, <1>5, <1>6, <1>7, <1>9, RingSameStep DEF RxInv

(* mx35_fec_advertise.                                                     *)
LEMMA AdvertiseFreeStep ==
  ASSUME RxInv, AdvertiseFromFree
  PROVE  RxInv'
<1> DEFINE h == Head(rx_free_pkt_q)
<1>1. RingSame
  BY DEF AdvertiseFromFree, RingSame, rxRing, rxLocal, rxHw
<1>2. /\ h \in FreeSet /\ h \in RxPackets /\ FreeSet' = FreeSet \ {h}
      /\ FreeList' /\ rx_free_pkt_q' \in Seq(RxPackets) /\ num_rx_free' \in 0 .. NumRx
  BY PoppedFree DEF AdvertiseFromFree
<1>3. adv' = h /\ adv = NoPkt
      /\ UNCHANGED <<rx_bd, rx_pktq, rx_cidx, new, rx_npkt, slot, allocated, upper, errors, hw_rx, rx_active>>
  BY DEF AdvertiseFromFree, RxInv, Places, rxRing, rxLocal, rxHw
<1>4. RxTypeOK'
  BY <1>2, <1>3 DEF AdvertiseFromFree, RxInv, RxTypeOK, rxLocal
<1>5. Places'
  BY <1>2, <1>3, RxAssumption DEF AdvertiseFromFree, RxInv, Places, rxLocal
<1>6. Apart'
  BY <1>2, <1>3, RxAssumption DEF RxInv, Apart
<1>7. (allocated \ Held)' = allocated \ Held
  <2>1. NoPkt \notin allocated
    BY RxAssumption DEF RxInv, RxTypeOK
  <2> QED BY <1>2, <1>3, <2>1 DEF Held
<1>8. OneLostPerError'
  BY <1>3, <1>7, LostSame
<1> QED BY <1>1, <1>2, <1>4, <1>5, <1>6, <1>8, RingSameStep DEF RxInv

(* With a new packet.                                                      *)
LEMMA AdvertiseMemoryStep ==
  ASSUME RxInv, AdvertiseFromMemory
  PROVE  RxInv'
<1>1. PICK p \in RxPackets \ allocated : adv' = p /\ allocated' = allocated \cup {p}
  BY DEF AdvertiseFromMemory
<1>2. RingSame
  BY DEF AdvertiseFromMemory, RingSame, rxRing, rxLocal, rxHw
<1>3. adv = NoPkt /\ rx_free_pkt_q = <<>>
      /\ UNCHANGED <<rx_bd, rx_pktq, rx_cidx, new, rx_npkt, slot, upper, errors, hw_rx, rx_active,
                     rx_free_pkt_q, num_rx_free>>
  BY DEF AdvertiseFromMemory, RxInv, Places, rxRing, rxLocal, rxHw, rxFree
<1>4. RxTypeOK' /\ FreeList'
  BY <1>1, <1>3 DEF AdvertiseFromMemory, RxInv, RxTypeOK, FreeList, rxLocal
<1>5. Places'
  BY <1>1, <1>3, RxAssumption DEF AdvertiseFromMemory, RxInv, Places, rxLocal
<1>6. FreeSet' = FreeSet
  BY <1>3 DEF FreeSet
<1>7. Apart'
  BY <1>1, <1>3, <1>6, RxAssumption DEF RxInv, Apart
<1>8. (allocated \ Held)' = allocated \ Held
  <2>1. NoPkt \notin allocated
    BY RxAssumption DEF RxInv, RxTypeOK
  <2> QED BY <1>1, <1>3, <1>6, <2>1 DEF Held
<1>9. OneLostPerError'
  BY <1>3, <1>8, LostSame
<1> QED BY <1>2, <1>4, <1>5, <1>7, <1>9, RingSameStep DEF RxInv

(* It goes up, ...                                                         *)
LEMMA AdvertiseUpStep ==
  ASSUME RxInv, AdvertiseUp
  PROVE  RxInv'
<1>1. RingSame
  BY DEF AdvertiseUp, RingSame, rxRing, rxLocal, rxHw
<1>2. adv # NoPkt /\ adv' = NoPkt /\ upper' = upper \cup {adv}
      /\ UNCHANGED <<rx_bd, rx_pktq, rx_cidx, rx_npkt, new, slot, allocated, errors, hw_rx, rx_active,
                     rx_free_pkt_q, num_rx_free>>
  BY DEF AdvertiseUp, RxInv, Places, rxRing, rxLocal, rxHw, rxFree
<1>3. adv \in allocated
  BY <1>2 DEF RxInv, Apart
<1>4. RxTypeOK' /\ FreeList'
  BY <1>2, <1>3 DEF AdvertiseUp, RxInv, RxTypeOK, FreeList, rxLocal
<1>5. Places'
  BY <1>2 DEF AdvertiseUp, RxInv, Places, rxLocal
<1>6. FreeSet' = FreeSet
  BY <1>2 DEF FreeSet
<1>7. Apart'
  BY <1>2, <1>3, <1>6, RxAssumption DEF RxInv, RxTypeOK, Apart
<1>8. (allocated \ Held)' = allocated \ Held
  <2>1. NoPkt \notin allocated
    BY RxAssumption DEF RxInv, RxTypeOK
  <2> QED BY <1>2, <1>6, <2>1 DEF Held
<1>9. OneLostPerError'
  BY <1>2, <1>8, LostSame
<1> QED BY <1>1, <1>4, <1>5, <1>7, <1>9, RingSameStep DEF RxInv

(* ... or not.                                                             *)
LEMMA AdvertiseRefusedStep ==
  ASSUME RxInv, AdvertiseRefused
  PROVE  RxInv'
<1>1. RingSame
  BY DEF AdvertiseRefused, RingSame, rxRing, rxLocal, rxHw
<1>2. adv # NoPkt /\ adv' = NoPkt /\ ReceiveComplete(adv)
      /\ UNCHANGED <<rx_bd, rx_pktq, rx_cidx, rx_npkt, new, slot, upper, errors, hw_rx, rx_active>>
  BY DEF AdvertiseRefused, RxInv, Places, rxRing, rxLocal, rxHw
<1>3. adv \in allocated /\ adv \in RxPackets /\ adv \notin FreeSet
  BY <1>2 DEF RxInv, Apart, RxTypeOK
<1>4. /\ FreeList' /\ rx_free_pkt_q' \in Seq(RxPackets) /\ num_rx_free' \in 0 .. NumRx
      /\ \/ FreeSet' = FreeSet \cup {adv} /\ allocated' = allocated
         \/ FreeSet' = FreeSet /\ allocated' = allocated \ {adv}
  BY <1>2, <1>3, CompletedFree
<1>5. RxTypeOK'
  <2>1. upper \subseteq allocated \ {adv}
    BY DEF RxInv, Apart
  <2> QED BY <1>2, <1>4, <2>1 DEF AdvertiseRefused, RxInv, RxTypeOK, rxLocal
<1>6. Places'
  BY <1>2 DEF AdvertiseRefused, RxInv, Places, rxLocal
<1>7. Apart'
  BY <1>2, <1>3, <1>4, RxAssumption DEF RxInv, RxTypeOK, Apart
<1>8. (allocated \ Held)' = allocated \ Held
  <2>1. NoPkt \notin allocated
    BY RxAssumption DEF RxInv, RxTypeOK
  <2> QED BY <1>2, <1>4, <2>1 DEF Held
<1>9. OneLostPerError'
  BY <1>2, <1>8, LostSame
<1> QED BY <1>1, <1>4, <1>5, <1>6, <1>7, <1>9, RingSameStep DEF RxInv

(* io-net gives a packet back.                                             *)
LEMMA GiveBackStep ==
  ASSUME RxInv, GiveBack
  PROVE  RxInv'
<1>1. PICK p \in upper : upper' = upper \ {p} /\ ReceiveComplete(p)
  BY DEF GiveBack
<1>2. RingSame
  BY DEF GiveBack, RingSame, rxRing, rxLocal, rxHw
<1>3. UNCHANGED <<rx_bd, rx_pktq, rx_cidx, rxpc, new, rx_npkt, adv, slot, errors, hw_rx, rx_active>>
  BY DEF GiveBack, rxRing, rxLocal, rxHw
<1>4. p \in allocated /\ p \in RxPackets /\ p \notin FreeSet
  BY DEF RxInv, Apart, RxTypeOK
<1>5. /\ FreeList' /\ rx_free_pkt_q' \in Seq(RxPackets) /\ num_rx_free' \in 0 .. NumRx
      /\ \/ FreeSet' = FreeSet \cup {p} /\ allocated' = allocated
         \/ FreeSet' = FreeSet /\ allocated' = allocated \ {p}
  BY <1>1, <1>4, CompletedFree
<1>6. RxTypeOK' /\ Places'
  BY <1>1, <1>3, <1>5 DEF RxInv, RxTypeOK, Places
<1>7. Apart'
  BY <1>1, <1>3, <1>4, <1>5, RxAssumption DEF RxInv, RxTypeOK, Apart
<1>8. (allocated \ Held)' = allocated \ Held
  BY <1>1, <1>3, <1>5 DEF Held
<1>9. OneLostPerError'
  BY <1>3, <1>8, LostSame
<1> QED BY <1>2, <1>5, <1>6, <1>7, <1>9, RingSameStep DEF RxInv
-----------------------------------------------------------------------------
(* What the driver thread and the engine know of the oldest frame.         *)
LEMMA OldestFrame ==
  ASSUME RxInv, NEW n \in 0 .. NumRx, Frames(n), rxpc = "take"
  PROVE  /\ n > 0 /\ rx_cidx \in RxSlots /\ rx_pktq[rx_cidx] # NoPkt
         /\ rx_pktq[rx_cidx] \in RxPackets /\ rx_pktq[rx_cidx] \in allocated
         /\ ~rx_bd[rx_cidx].empty
<1>1. rx_cidx \in RxSlots /\ ~rx_bd[rx_cidx].empty /\ ~Open(rx_cidx)
  BY DEF RxInv, RxTypeOK, Places, Open
<1>2. Behind(rx_cidx, rx_cidx) < n
  BY <1>1 DEF Frames
<1>3. n > 0
  BY <1>1, <1>2, BehindForward
<1>4. rx_pktq[rx_cidx] # NoPkt
  BY <1>1 DEF RxInv, Ring
<1> QED BY <1>1, <1>3, <1>4 DEF RxInv, Apart, RxTypeOK

(* The frame's packet leaves the ring.                                     *)
LEMMA TakeStep ==
  ASSUME RxInv, Take
  PROVE  RxInv'
<1> DEFINE c == rx_cidx
<1>1. PICK n \in 0 .. NumRx : Frames(n)
  BY DEF RxInv, InTurn
<1>2. /\ rxpc = "take" /\ ~rx_bd[c].err
      /\ rx_npkt' = rx_pktq[c] /\ rx_pktq' = [rx_pktq EXCEPT ![c] = NoPkt]
      /\ slot' = c /\ rx_cidx' = NEXT_RX(c) /\ rxpc' = "up"
      /\ UNCHANGED <<rx_bd, rx_free_pkt_q, num_rx_free, new, allocated, upper, adv, errors,
                     hw_rx, rx_active>>
  BY DEF Take, rxFree, rxHw
<1>3. /\ n > 0 /\ c \in RxSlots /\ rx_pktq[c] # NoPkt /\ rx_pktq[c] \in RxPackets
      /\ rx_pktq[c] \in allocated /\ ~rx_bd[c].empty
  BY <1>1, <1>2, OldestFrame
<1>4. rx_cidx' \in RxSlots
  BY <1>2, <1>3, NextRx
<1>5. /\ rx_pktq \in [RxSlots -> RxPackets \cup {NoPkt}]
      /\ \A i \in RxSlots : rx_pktq'[i] = IF i = c THEN NoPkt ELSE rx_pktq[i]
  BY <1>2 DEF RxInv, RxTypeOK
<1>6. RxTypeOK' /\ FreeList'
  <2>1. rx_pktq' \in [RxSlots -> RxPackets \cup {NoPkt}]
    BY <1>2, <1>5
  <2> QED BY <1>2, <1>3, <1>4, <2>1 DEF RxInv, RxTypeOK, FreeList
<1>7. Places'
  BY <1>2, <1>3 DEF RxInv, Places
<1>8. \A i \in RxSlots : ~Open(i) /\ (Open(i)' <=> i = c)
  BY <1>2 DEF Open
<1>9. Ring'
  BY <1>2, <1>3, <1>5, <1>8 DEF RxInv, Ring
<1>10. FreeSet' = FreeSet
  BY <1>2 DEF FreeSet
<1>11. Apart'
  <2>1. rx_npkt = NoPkt
    BY <1>2 DEF RxInv, Places
  <2> QED BY <1>2, <1>3, <1>5, <1>10, <2>1, RxAssumption DEF RxInv, Apart
<1>12. BadBounded'
  BY <1>2 DEF RxInv, BadBounded, BadSlots
<1>13. OneLostPerError'
  <2>1. rx_npkt = NoPkt /\ NoPkt \notin allocated
    BY <1>2, RxAssumption DEF RxInv, Places, RxTypeOK
  <2>2. (allocated \ Held)' = allocated \ Held
    BY <1>2, <1>3, <1>5, <1>10, <2>1 DEF Held
  <2> QED BY <1>2, <2>2, LostSame
<1>14. InTurn'
  <2>1. n - 1 \in 0 .. NumRx /\ n \in 1 .. NumRx
    BY <1>3, RxAssumption
  <2>2. hw_rx' = Forward(rx_cidx', n - 1)
    BY <1>1, <1>2, <1>3, <2>1, ForwardNext DEF Frames
  <2>3. ASSUME NEW i \in RxSlots
        PROVE  (~rx_bd'[i].empty /\ ~Open(i)') <=> Behind(rx_cidx', i) < n - 1
    <3>1. Behind(rx_cidx', i) = IF i = c THEN NumRx - 1 ELSE Behind(c, i) - 1
      BY <1>2, <1>3, BehindNext
    <3>2. Behind(c, i) \in 0 .. NumRx - 1
      BY <1>3, BehindForward
    <3>3. (~rx_bd[i].empty) <=> Behind(c, i) < n
      BY <1>1, <1>8 DEF Frames
    <3>4. CASE i = c
      BY <1>2, <1>8, <2>1, <3>1, <3>4, RxAssumption
    <3>5. CASE i # c
      BY <1>2, <1>8, <2>1, <3>1, <3>2, <3>3, <3>5, RxAssumption
    <3> QED BY <3>4, <3>5
  <2>4. n - 1 < NumRx /\ ~rx_bd'[slot'].empty /\ Behind(rx_cidx', slot') = NumRx - 1
    BY <1>2, <1>3, <2>1, BehindNext, RxAssumption
  <2>5. Frames(n - 1)'
    BY <2>2, <2>3, <2>4 DEF Frames, Behind, Forward
  <2> QED BY <2>1, <2>5 DEF InTurn
<1> QED BY <1>6, <1>7, <1>9, <1>11, <1>12, <1>13, <1>14 DEF RxInv

(* A descriptor is handed to the engine again.                             *)
LEMMA HandedOver ==
  ASSUME RxTypeOK, NEW p \in RxPackets, NEW c \in RxSlots, AddPkt(p, c)
  PROVE  /\ rx_pktq' \in [RxSlots -> RxPackets \cup {NoPkt}]
         /\ rx_bd' \in [RxSlots -> [empty : BOOLEAN, wrap : BOOLEAN, err : BOOLEAN,
                                    buffer : RxPackets]]
         /\ rx_pktq'[c] = p
         /\ rx_bd'[c].empty /\ ~rx_bd'[c].err /\ rx_bd'[c].buffer = p
         /\ rx_bd'[c].wrap = (c = NumRx - 1)
         /\ \A i \in RxSlots \ {c} : rx_pktq'[i] = rx_pktq[i] /\ rx_bd'[i] = rx_bd[i]
         /\ BadSlots' = BadSlots \ {c}
<1> DEFINE d == [empty |-> TRUE, wrap |-> c = NumRx - 1, err |-> FALSE, buffer |-> p]
<1>1. rx_pktq' = [rx_pktq EXCEPT ![c] = p] /\ rx_bd' = [rx_bd EXCEPT ![c] = d]
  BY DEF AddPkt
<1>2. /\ rx_bd \in [RxSlots -> [empty : BOOLEAN, wrap : BOOLEAN, err : BOOLEAN,
                                buffer : RxPackets]]
      /\ rx_pktq \in [RxSlots -> RxPackets \cup {NoPkt}]
  BY DEF RxTypeOK
<1>3. d \in [empty : BOOLEAN, wrap : BOOLEAN, err : BOOLEAN, buffer : RxPackets]
  OBVIOUS
<1>4. rx_bd'[c] = d /\ \A i \in RxSlots \ {c} : rx_bd'[i] = rx_bd[i]
  BY <1>1, <1>2
<1>5. rx_bd' \in [RxSlots -> [empty : BOOLEAN, wrap : BOOLEAN, err : BOOLEAN,
                             buffer : RxPackets]]
  BY <1>1, <1>2, <1>3
<1>6. BadSlots' = BadSlots \ {c}
  BY <1>4 DEF BadSlots
<1> QED BY <1>1, <1>2, <1>4, <1>5, <1>6

(* The frame was received in error: its packet stays, the new one is lost. *)
LEMMA TakeBadStep ==
  ASSUME RxInv, TakeBad
  PROVE  RxInv'
<1> DEFINE c == rx_cidx
           Lost == allocated \ Held
<1>1. PICK n \in 0 .. NumRx : Frames(n)
  BY DEF RxInv, InTurn
<1>2. /\ rxpc = "take" /\ rx_bd[c].err /\ AddPkt(rx_pktq[c], c)
      /\ rx_cidx' = NEXT_RX(c) /\ new' = NoPkt /\ errors' = errors + 1 /\ rxpc' = "look"
      /\ UNCHANGED <<rx_free_pkt_q, num_rx_free, rx_npkt, slot, allocated, upper, adv,
                     hw_rx, rx_active>>
  BY DEF TakeBad, rxFree, rxHw
<1>3. /\ n > 0 /\ c \in RxSlots /\ rx_pktq[c] # NoPkt /\ rx_pktq[c] \in RxPackets
      /\ rx_pktq[c] \in allocated /\ ~rx_bd[c].empty
  BY <1>1, <1>2, OldestFrame
<1>4. /\ rx_pktq' \in [RxSlots -> RxPackets \cup {NoPkt}]
      /\ rx_bd' \in [RxSlots -> [empty : BOOLEAN, wrap : BOOLEAN, err : BOOLEAN,
                                 buffer : RxPackets]]
      /\ rx_bd'[c].empty /\ ~rx_bd'[c].err /\ rx_bd'[c].buffer = rx_pktq[c]
      /\ rx_bd'[c].wrap = (c = NumRx - 1)
      /\ \A i \in RxSlots : rx_pktq'[i] = rx_pktq[i]
      /\ \A i \in RxSlots \ {c} : rx_bd'[i] = rx_bd[i]
      /\ BadSlots' = BadSlots \ {c}
  BY <1>2, <1>3, HandedOver DEF RxInv
<1>5. rx_cidx' \in RxSlots
  BY <1>2, <1>3, NextRx
<1>6. BadBounded' /\ errors' \in 0 .. MaxBadFrames
  <2>1. c \in BadSlots /\ BadSlots \subseteq RxSlots
    BY <1>2, <1>3 DEF BadSlots
  <2>2. IsFiniteSet(BadSlots) /\ Cardinality(BadSlots) \in Nat
    BY <2>1, Finite
  <2>3. Cardinality(BadSlots') = Cardinality(BadSlots) - 1 /\ Cardinality(BadSlots') \in Nat
    <3>1. Cardinality(BadSlots \ {c}) = Cardinality(BadSlots) - 1
      BY <2>1, <2>2, FS_RemoveElement
    <3>2. Cardinality(BadSlots \ {c}) \in Nat
      BY <2>1, Finite
    <3> QED BY <1>4, <3>1, <3>2
  <2>4. errors \in Nat /\ errors + Cardinality(BadSlots) <= MaxBadFrames
    BY RxAssumption DEF RxInv, RxTypeOK, BadBounded
  <2> QED BY <1>2, <2>2, <2>3, <2>4, RxAssumption DEF BadBounded
<1>7. RxTypeOK' /\ FreeList'
  BY <1>2, <1>4, <1>5, <1>6 DEF RxInv, RxTypeOK, FreeList
<1>8. Places'
  BY <1>2 DEF RxInv, Places
<1>9. \A i \in RxSlots : ~Open(i) /\ ~Open(i)'
  BY <1>2 DEF Open
<1>10. Ring'
  <2> SUFFICES ASSUME NEW i \in RxSlots
               PROVE  /\ rx_bd'[i].wrap = (i = NumRx - 1)
                      /\ rx_pktq'[i] # NoPkt
                      /\ rx_bd'[i].empty => rx_bd'[i].buffer = rx_pktq'[i]
    BY <1>9 DEF Ring
  <2>1. CASE i = c
    BY <1>3, <1>4, <2>1
  <2>2. CASE i # c
    BY <1>4, <1>9, <2>2 DEF RxInv, Ring
  <2> QED BY <2>1, <2>2
<1>11. FreeSet' = FreeSet
  BY <1>2 DEF FreeSet
<1>12. Apart'
  <2>1. NoPkt \notin allocated
    BY RxAssumption DEF RxInv, RxTypeOK
  <2> QED BY <1>2, <1>4, <1>11, <2>1 DEF RxInv, Apart
<1>13. OneLostPerError'
  <2>1. new \in allocated /\ new # NoPkt /\ NoPkt \notin allocated
    BY <1>2, RxAssumption DEF RxInv, Places, RxTypeOK, Apart
  <2>2. new \notin FreeSet \cup upper \cup {rx_npkt, adv} /\ \A i \in RxSlots : rx_pktq[i] # new
    BY <2>1 DEF RxInv, Apart
  <2>3. (allocated \ Held)' = Lost \cup {new} /\ new \notin Lost
    BY <1>2, <1>4, <1>11, <2>1, <2>2 DEF Held
  <2>4. Lost \subseteq RxPackets
    BY DEF RxInv, RxTypeOK
  <2>5. IsFiniteSet(Lost) /\ Cardinality(Lost) \in Nat
    BY <2>4, Finite
  <2>6. Cardinality(Lost \cup {new}) = Cardinality(Lost) + 1
    BY <2>3, <2>5, FS_AddElement
  <2> QED BY <1>2, <2>3, <2>6 DEF RxInv, OneLostPerError
<1>14. InTurn'
  <2>1. n - 1 \in 0 .. NumRx /\ n \in 1 .. NumRx
    BY <1>3, RxAssumption
  <2>2. hw_rx' = Forward(rx_cidx', n - 1)
    BY <1>1, <1>2, <1>3, <2>1, ForwardNext DEF Frames
  <2>3. ASSUME NEW i \in RxSlots
        PROVE  (~rx_bd'[i].empty /\ ~Open(i)') <=> Behind(rx_cidx', i) < n - 1
    <3>1. Behind(rx_cidx', i) = IF i = c THEN NumRx - 1 ELSE Behind(c, i) - 1
      BY <1>2, <1>3, BehindNext
    <3>2. Behind(c, i) \in 0 .. NumRx - 1
      BY <1>3, BehindForward
    <3>3. (~rx_bd[i].empty) <=> Behind(c, i) < n
      BY <1>1, <1>9 DEF Frames
    <3>4. CASE i = c
      BY <1>4, <2>1, <3>1, <3>4, RxAssumption
    <3>5. CASE i # c
      BY <1>4, <1>9, <2>1, <3>1, <3>2, <3>3, <3>5, RxAssumption
    <3> QED BY <3>4, <3>5
  <2>4. Frames(n - 1)'
    BY <1>2, <2>2, <2>3 DEF Frames, Behind, Forward
  <2> QED BY <2>1, <2>4 DEF InTurn
<1> QED BY <1>6, <1>7, <1>8, <1>10, <1>12, <1>13, <1>14 DEF RxInv

(* The new packet goes under the descriptor whose frame went up.           *)
LEMMA RefillStep ==
  ASSUME RxInv, Refill
  PROVE  RxInv'
<1>1. PICK n \in 0 .. NumRx : Frames(n)
  BY DEF RxInv, InTurn
<1>2. /\ rxpc = "refill" /\ AddPkt(new, slot) /\ new' = NoPkt /\ rxpc' = "look"
      /\ UNCHANGED <<rx_cidx, rx_free_pkt_q, num_rx_free, rx_npkt, slot, allocated, upper, adv,
                     errors, hw_rx, rx_active>>
  BY DEF Refill, rxFree, rxHw
<1>3. new \in allocated /\ new \in RxPackets /\ new # NoPkt /\ slot \in RxSlots
      /\ NoPkt \notin allocated
  BY <1>2, RxAssumption DEF RxInv, Places, RxTypeOK, Apart
<1>4. /\ rx_pktq' \in [RxSlots -> RxPackets \cup {NoPkt}]
      /\ rx_bd' \in [RxSlots -> [empty : BOOLEAN, wrap : BOOLEAN, err : BOOLEAN,
                                 buffer : RxPackets]]
      /\ rx_pktq'[slot] = new
      /\ rx_bd'[slot].empty /\ ~rx_bd'[slot].err /\ rx_bd'[slot].buffer = new
      /\ rx_bd'[slot].wrap = (slot = NumRx - 1)
      /\ \A i \in RxSlots \ {slot} : rx_pktq'[i] = rx_pktq[i] /\ rx_bd'[i] = rx_bd[i]
      /\ BadSlots' = BadSlots \ {slot}
  BY <1>2, <1>3, HandedOver DEF RxInv
<1>5. RxTypeOK' /\ FreeList'
  BY <1>2, <1>3, <1>4 DEF RxInv, RxTypeOK, FreeList
<1>6. Places'
  BY <1>2 DEF RxInv, Places
<1>7. \A i \in RxSlots : (Open(i) <=> i = slot) /\ ~Open(i)'
  BY <1>2 DEF Open
<1>8. Ring'
  <2> SUFFICES ASSUME NEW i \in RxSlots
               PROVE  /\ rx_bd'[i].wrap = (i = NumRx - 1)
                      /\ rx_pktq'[i] # NoPkt
                      /\ rx_bd'[i].empty => rx_bd'[i].buffer = rx_pktq'[i]
    BY <1>7 DEF Ring
  <2>1. CASE i = slot
    BY <1>3, <1>4, <2>1
  <2>2. CASE i # slot
    BY <1>4, <1>7, <2>2 DEF RxInv, Ring
  <2> QED BY <2>1, <2>2
<1>9. FreeSet' = FreeSet
  BY <1>2 DEF FreeSet
<1>10. rx_pktq[slot] = NoPkt /\ \A i \in RxSlots \ {slot} : rx_pktq[i] # NoPkt
  BY <1>3, <1>7 DEF RxInv, Ring
<1>11. Apart'
  <2>1. \A i \in RxSlots : rx_pktq[i] # new
    BY <1>3, <1>10 DEF RxInv, Apart
  <2> QED BY <1>2, <1>3, <1>4, <1>9, <2>1, RxAssumption DEF RxInv, Apart
<1>12. BadBounded'
  <2>1. BadSlots \subseteq RxSlots
    BY DEF BadSlots
  <2>2. IsFiniteSet(BadSlots) /\ Cardinality(BadSlots) \in Nat
    BY <2>1, Finite
  <2>3. Cardinality(BadSlots \ {slot}) <= Cardinality(BadSlots)
        /\ Cardinality(BadSlots \ {slot}) \in Nat
    <3>1. BadSlots \ {slot} \in SUBSET BadSlots
      OBVIOUS
    <3> QED BY <2>1, <2>2, <3>1, Finite, FS_Subset
  <2>4. errors \in Nat /\ errors + Cardinality(BadSlots) <= MaxBadFrames
    BY RxAssumption DEF RxInv, RxTypeOK, BadBounded
  <2> QED BY <1>2, <1>4, <2>2, <2>3, <2>4, RxAssumption DEF BadBounded
<1>13. OneLostPerError'
  <2>1. (allocated \ Held)' = allocated \ Held
    BY <1>2, <1>3, <1>4, <1>9, <1>10 DEF Held
  <2> QED BY <1>2, <2>1, LostSame
<1>14. InTurn'
  <2>1. n < NumRx /\ Behind(rx_cidx, slot) = NumRx - 1 /\ hw_rx = Forward(rx_cidx, n)
    BY <1>1, <1>2 DEF Frames
  <2>2. ASSUME NEW i \in RxSlots
        PROVE  (~rx_bd'[i].empty /\ ~Open(i)') <=> Behind(rx_cidx, i) < n
    <3>1. CASE i = slot
      BY <1>4, <2>1, <3>1, RxAssumption
    <3>2. CASE i # slot
      BY <1>1, <1>4, <1>7, <3>2 DEF Frames
    <3> QED BY <3>1, <3>2
  <2>3. Frames(n)'
    BY <1>2, <2>1, <2>2 DEF Frames, Behind, Forward
  <2> QED BY <2>3 DEF InTurn
<1> QED BY <1>5, <1>6, <1>8, <1>11, <1>12, <1>13, <1>14 DEF RxInv

(* The engine fills the descriptor it stands at.                           *)
LEMMA HwReceiveStep ==
  ASSUME RxInv, HwReceive
  PROVE  RxInv'
<1> DEFINE h == hw_rx
<1>1. PICK n \in 0 .. NumRx : Frames(n)
  BY DEF RxInv, InTurn
<1>2. PICK e \in BOOLEAN :
        /\ e => errors + Cardinality({i \in RxSlots : rx_bd[i].err}) < MaxBadFrames
        /\ rx_bd' = [rx_bd EXCEPT ![h].empty = FALSE, ![h].err = e]
  BY DEF HwReceive
<1>3. /\ h \in RxSlots /\ rx_bd[h].empty
      /\ h' = IF rx_bd[h].wrap THEN 0 ELSE h + 1
      /\ UNCHANGED <<rx_pktq, rx_cidx, rx_free_pkt_q, num_rx_free, rxpc, new, rx_npkt, slot,
                     allocated, upper, adv, errors, rx_active>>
  BY DEF HwReceive, rxFree, rxLocal
<1>4. rx_bd \in [RxSlots -> [empty : BOOLEAN, wrap : BOOLEAN, err : BOOLEAN, buffer : RxPackets]]
      /\ rx_cidx \in RxSlots
  BY DEF RxInv, RxTypeOK
<1>5. /\ rx_bd' \in [RxSlots -> [empty : BOOLEAN, wrap : BOOLEAN, err : BOOLEAN,
                                 buffer : RxPackets]]
      /\ ~rx_bd'[h].empty /\ (rx_bd'[h].err <=> e) /\ rx_bd'[h].wrap = rx_bd[h].wrap
      /\ \A i \in RxSlots \ {h} : rx_bd'[i] = rx_bd[i]
  BY <1>2, <1>3, <1>4
<1>6. rx_bd[h].wrap = (h = NumRx - 1) /\ ~Open(h)
  BY <1>3 DEF RxInv, Ring
<1>7. h' = IF h = NumRx - 1 THEN 0 ELSE h + 1
  BY <1>3, <1>6
<1>8. h' \in RxSlots
  BY <1>3, <1>7, RxAssumption DEF RxSlots
<1>9. RxTypeOK' /\ FreeList'
  BY <1>3, <1>5, <1>8 DEF RxInv, RxTypeOK, FreeList
<1>10. Places'
  BY <1>3, <1>4, <1>5 DEF RxInv, Places
<1>11. \A i \in RxSlots : Open(i)' <=> Open(i)
  BY <1>3 DEF Open
<1>12. Ring'
  BY <1>3, <1>5, <1>11 DEF RxInv, Ring
<1>13. FreeSet' = FreeSet /\ Held' = Held
  BY <1>3 DEF FreeSet, Held
<1>14. Apart'
  BY <1>3, <1>13 DEF RxInv, Apart
<1>15. BadBounded'
  <2>1. BadSlots \subseteq RxSlots
    BY DEF BadSlots
  <2>2. IsFiniteSet(BadSlots) /\ Cardinality(BadSlots) \in Nat
    BY <2>1, Finite
  <2>3. errors \in Nat /\ errors + Cardinality(BadSlots) <= MaxBadFrames
    BY RxAssumption DEF RxInv, RxTypeOK, BadBounded
  <2>4. CASE e
    <3>1. BadSlots' = BadSlots \cup {h}
      BY <1>3, <1>5, <2>4 DEF BadSlots
    <3>2. Cardinality(BadSlots \cup {h}) <= Cardinality(BadSlots) + 1
          /\ Cardinality(BadSlots \cup {h}) \in Nat
      <4>1. BadSlots \cup {h} \in SUBSET RxSlots
        BY <1>3, <2>1
      <4>2. Cardinality(BadSlots \cup {h}) =
              IF h \in BadSlots THEN Cardinality(BadSlots) ELSE Cardinality(BadSlots) + 1
        BY <2>2, FS_AddElement
      <4> QED BY <2>2, <4>1, <4>2, Finite
    <3>3. errors + Cardinality(BadSlots) < MaxBadFrames
      BY <1>2, <2>4 DEF BadSlots
    <3> QED BY <1>3, <2>2, <2>3, <3>1, <3>2, <3>3, RxAssumption DEF BadBounded
  <2>5. CASE ~e
    <3>1. BadSlots' = BadSlots \ {h}
      BY <1>3, <1>5, <2>5 DEF BadSlots
    <3>2. Cardinality(BadSlots \ {h}) <= Cardinality(BadSlots)
          /\ Cardinality(BadSlots \ {h}) \in Nat
      <4>1. BadSlots \ {h} \in SUBSET BadSlots
        OBVIOUS
      <4> QED BY <2>1, <2>2, <4>1, Finite, FS_Subset
    <3> QED BY <1>3, <2>2, <2>3, <3>1, <3>2, RxAssumption DEF BadBounded
  <2> QED BY <2>4, <2>5
<1>16. OneLostPerError'
  BY <1>3, <1>13, LostSame
<1>17. InTurn'
  <2>1. h = Forward(rx_cidx, n)
    BY <1>1 DEF Frames
  <2>2. n < NumRx /\ Behind(rx_cidx, h) = n
    <3>1. ~(Behind(rx_cidx, h) < n)
      BY <1>1, <1>3 DEF Frames
    <3>2. CASE n = NumRx
      <4>1. Behind(rx_cidx, h) \in 0 .. NumRx - 1
        BY <1>3, <1>4, BehindForward
      <4> QED BY <3>1, <3>2, <4>1, RxAssumption
    <3>3. CASE n # NumRx
      <4>1. n \in 0 .. NumRx - 1
        BY <3>3, RxAssumption
      <4> QED BY <1>4, <2>1, <4>1, BehindForward, RxAssumption
    <3> QED BY <3>2, <3>3
  <2>3. n + 1 \in 0 .. NumRx
    BY <2>2, RxAssumption
  <2>4. h' = Forward(rx_cidx', n + 1)
    BY <1>3, <1>4, <1>7, <2>1, <2>2, RxAssumption DEF Forward, RxSlots
  <2>5. ASSUME NEW i \in RxSlots
        PROVE  (~rx_bd'[i].empty /\ ~Open(i)') <=> Behind(rx_cidx', i) < n + 1
    <3>1. CASE i = h
      BY <1>3, <1>5, <1>6, <1>11, <2>2, <3>1
    <3>2. CASE i # h
      <4>1. (~rx_bd'[i].empty /\ ~Open(i)') <=> Behind(rx_cidx, i) < n
        BY <1>1, <1>5, <1>11, <3>2 DEF Frames
      <4>2. Behind(rx_cidx, i) # n
        BY <1>4, <2>1, <3>2, BehindForward
      <4>3. Behind(rx_cidx, i) \in Nat
        BY <1>4, BehindForward
      <4> QED BY <1>3, <4>1, <4>2, <4>3 DEF Behind
    <3> QED BY <3>1, <3>2
  <2>6. ASSUME rxpc' \in {"up", "refill"}
        PROVE  n + 1 < NumRx /\ ~rx_bd'[slot'].empty /\ Behind(rx_cidx', slot') = NumRx - 1
    <3>1. ~rx_bd[slot].empty /\ Behind(rx_cidx, slot) = NumRx - 1 /\ slot \in RxSlots
      BY <1>1, <1>3, <2>6 DEF Frames, RxInv, RxTypeOK
    <3>2. slot # h
      BY <1>3, <3>1
    <3>3. n # NumRx - 1
      BY <1>4, <2>1, <3>1, <3>2, BehindForward
    <3>4. n + 1 < NumRx
      BY <2>2, <3>3, RxAssumption
    <3> QED BY <1>3, <1>5, <3>1, <3>2, <3>4 DEF Behind
  <2>7. Frames(n + 1)'
    BY <2>4, <2>5, <2>6 DEF Frames, Behind, Forward
  <2> QED BY <2>3, <2>7 DEF InTurn
<1> QED BY <1>9, <1>10, <1>12, <1>14, <1>15, <1>16, <1>17 DEF RxInv
-----------------------------------------------------------------------------
(* The engine stops at a full ring.                                        *)
LEMMA HwOverrunStep ==
  ASSUME RxInv, HwOverrun
  PROVE  RxInv'
<1>1. RingSame /\ rx_active' \in BOOLEAN
      /\ UNCHANGED <<rx_bd, rx_pktq, rx_cidx, rx_free_pkt_q, num_rx_free, rxpc, new, rx_npkt,
                     slot, allocated, upper, adv, errors, hw_rx>>
  BY DEF HwOverrun, RingSame, rxRing, rxFree, rxLocal
<1>2. RxTypeOK' /\ FreeList' /\ Places'
  BY <1>1 DEF RxInv, RxTypeOK, FreeList, Places
<1>3. FreeSet' = FreeSet /\ Held' = Held
  BY <1>1 DEF FreeSet, Held
<1>4. Apart'
  BY <1>1, <1>3 DEF RxInv, Apart
<1>5. OneLostPerError'
  BY <1>1, <1>3, LostSame
<1> QED BY <1>1, <1>2, <1>4, <1>5, RingSameStep DEF RxInv

(* Nothing happens.                                                        *)
LEMMA StutterStep ==
  ASSUME RxInv, UNCHANGED rxVars
  PROVE  RxInv'
<1>1. RingSame
      /\ UNCHANGED <<rx_bd, rx_pktq, rx_cidx, rx_free_pkt_q, num_rx_free, rxpc, new, rx_npkt,
                     slot, allocated, upper, adv, errors, hw_rx, rx_active>>
  BY DEF rxVars, RingSame, rxRing, rxFree, rxLocal, rxHw
<1>2. RxTypeOK' /\ FreeList' /\ Places'
  BY <1>1 DEF RxInv, RxTypeOK, FreeList, Places
<1>3. FreeSet' = FreeSet /\ Held' = Held
  BY <1>1 DEF FreeSet, Held
<1>4. Apart'
  BY <1>1, <1>3 DEF RxInv, Apart
<1>5. OneLostPerError'
  BY <1>1, <1>3, LostSame
<1> QED BY <1>1, <1>2, <1>4, <1>5, RingSameStep DEF RxInv

(* The inductive invariant of the receive side: the ring, the free list,   *)
(* the hands of the threads and io-net share the packets among them.       *)
THEOREM RxInvariant == RxSpec => []RxInv
<1>1. RxInit => RxInv
  BY InitInv
<1>2. RxInv /\ [RxNext]_rxVars => RxInv'
  <2> SUFFICES ASSUME RxInv, [RxNext]_rxVars PROVE RxInv'
    OBVIOUS
  <2>1. CASE Receive
    BY <2>1, ReceiveStep
  <2>2. CASE RxStep
    BY <2>2, EmptyStep, FromFreeStep, FromMemoryStep, NoMemoryStep, TakeStep, TakeBadStep,
       UpStep, NotUpStep, RefillStep DEF RxStep
  <2>3. CASE Above
    BY <2>3, GiveBackStep, AdvertiseFreeStep, AdvertiseMemoryStep, AdvertiseUpStep,
       AdvertiseRefusedStep DEF Above
  <2>4. CASE HwRx
    BY <2>4, HwReceiveStep, HwOverrunStep DEF HwRx
  <2>5. CASE UNCHANGED rxVars
    BY <2>5, StutterStep
  <2> QED BY <2>1, <2>2, <2>3, <2>4, <2>5 DEF RxNext
<1> QED BY <1>1, <1>2, PTL DEF RxSpec

(* mx35_fec_receive, mx35_fec_receive_complete, mx35_fec_advertise: every  *)
(* packet has one holder, and the engine writes into the ring's only.      *)
THEOREM HolderCorrect == RxSpec => []OneHolder
<1>1. ASSUME RxInv PROVE OneHolder
  <2>1. NoPkt \notin allocated /\ rx_free_pkt_q \in Seq(RxPackets) /\ RxTypeOK
    BY <1>1, RxAssumption DEF RxInv, RxTypeOK
  <2>2. \A i \in RxSlots : rx_bd[i].empty =>
          /\ rx_bd[i].buffer = rx_pktq[i]
          /\ rx_pktq[i] \in allocated \ (FreeSet \cup upper \cup {new, rx_npkt, adv})
          /\ \A j \in RxSlots \ {i} : rx_pktq[j] # rx_pktq[i]
    BY <1>1 DEF RxInv, Ring, Apart
  <2>3. num_rx_free = Len(rx_free_pkt_q) /\ Cardinality(FreeSet) = num_rx_free
    BY <1>1, <2>1, ElemsCardinality, FreeElems DEF RxInv, FreeList
  <2>4. FreeSet \cap upper = {} /\ {new, rx_npkt, adv} \cap (FreeSet \cup upper) = {}
    BY <1>1 DEF RxInv, Apart
  <2>5. ASSUME NEW p \in {new, rx_npkt, adv} \ {NoPkt}
        PROVE  Cardinality({h \in 1 .. 3 : <<new, rx_npkt, adv>>[h] = p}) = 1
    <3> DEFINE H == {h \in 1 .. 3 : <<new, rx_npkt, adv>>[h] = p}
    <3>1. /\ new # NoPkt => new \notin {rx_npkt, adv}
          /\ rx_npkt # NoPkt => rx_npkt # adv
      BY <1>1 DEF RxInv, Apart
    <3>2. \A h \in 1 .. 3 :
            h \in H <=> (h = 1 /\ new = p) \/ (h = 2 /\ rx_npkt = p) \/ (h = 3 /\ adv = p)
      OBVIOUS
    <3>3. H = {1} \/ H = {2} \/ H = {3}
      BY <2>5, <3>1, <3>2
    <3> QED BY <3>3, FS_Singleton
  <2> QED BY <2>1, <2>2, <2>3, <2>4, <2>5 DEF OneHolder
<1> QED BY <1>1, RxInvariant, PTL

(* mx35_fec_receive: rx_cidx is at the oldest frame.                       *)
THEOREM OldestCorrect == RxSpec => []OldestFirst
<1>1. ASSUME RxInv PROVE OldestFirst
  <2>1. PICK n \in 0 .. NumRx : Frames(n)
    BY <1>1 DEF RxInv, InTurn
  <2>2. rx_cidx \in RxSlots /\ slot \in RxSlots
    BY <1>1 DEF RxInv, RxTypeOK
  <2>3. \A i \in RxSlots : i \in Waiting <=> ~rx_bd[i].empty /\ ~Open(i)
    BY DEF Waiting, Open
  <2>4. \A i \in RxSlots : i \in Waiting <=> Behind(rx_cidx, i) < n
    BY <2>1, <2>3 DEF Frames
  <2>5. \A k \in 0 .. n - 1 : k \in 0 .. NumRx - 1 /\ k \in 0 .. NumRx /\ k < n
    BY <2>1, RxAssumption
  <2>6. ASSUME NEW i \in Waiting PROVE \E k \in 0 .. n - 1 : i = (rx_cidx + k) % NumRx
    <3>1. i \in RxSlots
      BY DEF Waiting
    <3>2. /\ Behind(rx_cidx, i) \in 0 .. NumRx - 1 /\ Behind(rx_cidx, i) < n
          /\ Forward(rx_cidx, Behind(rx_cidx, i)) = i
      BY <2>2, <2>4, <3>1, BehindForward
    <3>3. Behind(rx_cidx, i) \in 0 .. n - 1 /\ Behind(rx_cidx, i) \in 0 .. NumRx
      BY <3>2, RxAssumption
    <3> QED BY <2>2, <3>2, <3>3, ForwardRx
  <2>7. ASSUME NEW k \in 0 .. n - 1 PROVE (rx_cidx + k) % NumRx \in Waiting
    <3>1. (rx_cidx + k) % NumRx = Forward(rx_cidx, k) /\ Forward(rx_cidx, k) \in RxSlots
      BY <2>2, <2>5, ForwardRx
    <3>2. Behind(rx_cidx, Forward(rx_cidx, k)) = k /\ k < n
      BY <2>2, <2>5, BehindForward
    <3> QED BY <2>4, <3>1, <3>2
  <2>8. Waiting = {(rx_cidx + k) % NumRx : k \in 0 .. n - 1}
    BY <2>6, <2>7
  <2>9. hw_rx = (rx_cidx + n) % NumRx
    BY <2>1, <2>2, ForwardRx DEF Frames
  <2> QED BY <2>8, <2>9 DEF OldestFirst
<1> QED BY <1>1, RxInvariant, PTL

(* mx35_fec_receive: packets are lost to frames in error only, one each.   *)
THEOREM LostCorrect == RxSpec => []OneLostPerError
<1>1. RxInv => OneLostPerError
  BY DEF RxInv
<1> QED BY <1>1, RxInvariant, PTL
=============================================================================
