---- MODULE Smc9118Proofs ----
(***************************************************************************)
(* Proofs about the SMC9118 driver: its invariant, that the data FIFO and  *)
(* the chain of packets received are never overrun, that what is passed up *)
(* is whole frames in their order, and that packets are sent once each in  *)
(* the order they entered the queue.                                       *)
(*                                                                         *)
(* The sums over the buffers of a packet and over the packets in the FIFO  *)
(* are folds over finite sets; the lemmas about them are proved by         *)
(* induction, itself a consequence of the library's pigeonhole theorem.    *)
(***************************************************************************)
EXTENDS Smc9118, FiniteSetTheorems, SequenceTheorems, TLAPS

(* Induction: a set with 0 and, with each of its numbers, the next one,    *)
(* holds every number.                                                     *)
LEMMA SetInduction ==
  ASSUME NEW P, 0 \in P, \A n \in Nat : n \in P => n + 1 \in P
  PROVE  Nat \subseteq P
<1>1. SUFFICES ASSUME NEW n \in Nat, n \notin P PROVE FALSE
  OBVIOUS
<1> DEFINE S == {k \in 0 .. n : k \in P}
           T == S \ {0}
           f == [k \in S |-> k + 1]
<1>2. IsFiniteSet(S) /\ 0 \in S
  <2>1. IsFiniteSet(0 .. n)
    BY FS_Interval
  <2>. QED
    BY <2>1, FS_Subset
<1>3. IsFiniteSet(T) /\ Cardinality(T) = Cardinality(S) - 1
  BY <1>2, FS_RemoveElement
<1>4. Cardinality(S) \in Nat /\ Cardinality(T) < Cardinality(S)
  BY <1>2, <1>3, FS_CardinalityType
<1>5. f \in [S -> T]
  BY <1>1
<1>6. \A x, y \in S : x # y => f[x] # f[y]
  OBVIOUS
<1> HIDE DEF S, T, f
<1>. QED
  BY <1>2, <1>3, <1>4, <1>5, <1>6, FS_PigeonHole

(* What SumFunction adds up: one element of s after the other, as chosen.  *)
Pick(s) == CHOOSE x \in s : TRUE

Adds(f, g, S) ==
  g = [s \in SUBSET S |-> IF s = {} THEN 0 ELSE f[Pick(s)] + g[s \ {Pick(s)}]]

(* Of a set that is not empty, an element is picked.                       *)
LEMMA PickIn == \A s : s # {} => Pick(s) \in s
  BY DEF Pick

(* SumFunction is the end of such a sum.                                   *)
LEMMA SumIs ==
  ASSUME NEW f
  PROVE  SumFunction(f) = (CHOOSE g : Adds(f, g, DOMAIN f))[DOMAIN f]
  BY DEF SumFunction, SumFunctionOnSet, FoldFunctionOnSet, MapThenFoldSet, Adds, Pick

(* Its parts, for s of n elements at most.                                 *)
Added(f, g, s) == IF s = {} THEN 0 ELSE f[Pick(s)] + g[s \ {Pick(s)}]

AddsSmall(f, g, S, n) ==
  \A s \in SUBSET S : Cardinality(s) =< n => g[s] = Added(f, g, s)

(* Without the element picked, a set is smaller by one.                    *)
LEMMA Smaller ==
  ASSUME NEW S, IsFiniteSet(S), NEW s \in SUBSET S
  PROVE  /\ IsFiniteSet(s) /\ Cardinality(s) \in Nat /\ Cardinality(s) =< Cardinality(S)
         /\ s # {} => Cardinality(s) > 0
         /\ \A x \in s : /\ s \ {x} \in SUBSET S
                         /\ Cardinality(s \ {x}) = Cardinality(s) - 1
<1>1. IsFiniteSet(s) /\ Cardinality(s) \in Nat /\ Cardinality(s) =< Cardinality(S)
  BY FS_Subset, FS_CardinalityType
<1>2. \A x \in s : s \ {x} \in SUBSET S /\ Cardinality(s \ {x}) = Cardinality(s) - 1
  BY <1>1, FS_RemoveElement
<1>3. s # {} => Cardinality(s) # 0
  BY <1>1, FS_EmptySet
<1>. QED
  BY <1>1, <1>2, <1>3

(* There is such a sum over every finite set.                              *)
LEMMA AddsExists ==
  ASSUME NEW S, IsFiniteSet(S), NEW f
  PROVE  \E g : Adds(f, g, S)
<1> DEFINE P == {n \in Nat : \E g : AddsSmall(f, g, S, n)}
<1>1. 0 \in P
  <2> DEFINE g == [s \in SUBSET S |-> 0]
  <2>1. \A s \in SUBSET S : Cardinality(s) =< 0 => s = {}
    BY Smaller
  <2>2. AddsSmall(f, g, S, 0)
    BY <2>1 DEF AddsSmall, Added
  <2>. QED
    BY <2>2
<1>2. ASSUME NEW n \in Nat, n \in P PROVE n + 1 \in P
  <2>1. PICK g : AddsSmall(f, g, S, n)
    BY <1>2
  <2> DEFINE h == [s \in SUBSET S |-> Added(f, g, s)]
  <2>2. \A s \in SUBSET S : h[s] = Added(f, g, s)
    OBVIOUS
  <2> HIDE DEF h
  <2>3. ASSUME NEW s \in SUBSET S, Cardinality(s) =< n + 1 PROVE h[s] = Added(f, h, s)
    <3>1. CASE s = {}
      BY <2>2, <3>1 DEF Added
    <3>2. CASE s # {}
      <4> DEFINE t == s \ {Pick(s)}
      <4>1. t \in SUBSET S /\ Cardinality(t) = Cardinality(s) - 1 /\ Cardinality(s) \in Nat
        BY <3>2, PickIn, Smaller
      <4>2. h[t] = Added(f, g, t) /\ g[t] = Added(f, g, t)
        BY <2>1, <2>2, <2>3, <4>1 DEF AddsSmall
      <4>. QED
        BY <2>2, <3>2, <4>2 DEF Added
    <3>. QED
      BY <3>1, <3>2
  <2>4. AddsSmall(f, h, S, n + 1)
    BY <2>3 DEF AddsSmall
  <2>. QED
    BY <2>4
<1>3. Cardinality(S) \in P
  <2> HIDE DEF P
  <2>1. Cardinality(S) \in Nat
    BY FS_CardinalityType
  <2>. QED
    BY <1>1, <1>2, <2>1, SetInduction
<1>4. PICK g : AddsSmall(f, g, S, Cardinality(S))
  BY <1>3
<1> DEFINE h == [s \in SUBSET S |-> g[s]]
<1>5. \A s \in SUBSET S : h[s] = g[s] /\ g[s] = Added(f, g, s)
  BY <1>4, Smaller DEF AddsSmall
<1>6. \A s \in SUBSET S : h[s] = Added(f, h, s)
  <2>1. SUFFICES ASSUME NEW s \in SUBSET S PROVE h[s] = Added(f, h, s)
    OBVIOUS
  <2>2. s \ {Pick(s)} \in SUBSET S
    OBVIOUS
  <2> HIDE DEF h
  <2>. QED
    BY <1>5, <2>2 DEF Added
<1>7. h = [s \in SUBSET S |-> h[s]]
  OBVIOUS
<1>8. Adds(f, h, S)
  <2> HIDE DEF h
  <2>. QED
    BY <1>6, <1>7 DEF Adds, Added
<1>. QED
  BY <1>8

(* A sum of integers is one.                                               *)
LEMMA AddsType ==
  ASSUME NEW S, IsFiniteSet(S), NEW f \in [S -> Int], NEW g, Adds(f, g, S)
  PROVE  \A s \in SUBSET S : g[s] \in Int
<1> DEFINE P == {n \in Nat : \A s \in SUBSET S : Cardinality(s) = n => g[s] \in Int}
<1>1. \A s \in SUBSET S : g[s] = Added(f, g, s)
  BY DEF Adds, Added
<1>2. 0 \in P
  <2>1. \A s \in SUBSET S : Cardinality(s) = 0 => s = {}
    BY Smaller
  <2>2. g[{}] = 0
    BY <1>1 DEF Added
  <2>. QED
    BY <2>1, <2>2
<1>3. ASSUME NEW n \in Nat, n \in P PROVE n + 1 \in P
  <2>1. SUFFICES ASSUME NEW s \in SUBSET S, Cardinality(s) = n + 1 PROVE g[s] \in Int
    OBVIOUS
  <2>2. s # {}
    BY <2>1, FS_EmptySet
  <2> DEFINE t == s \ {Pick(s)}
  <2>3. t \in SUBSET S /\ Cardinality(t) = n /\ f[Pick(s)] \in Int
    BY <2>1, <2>2, PickIn, Smaller
  <2>4. g[t] \in Int
    BY <1>3, <2>3
  <2>5. g[s] = f[Pick(s)] + g[t]
    BY <1>1, <2>2 DEF Added
  <2> HIDE DEF t
  <2>. QED
    BY <2>3, <2>4, <2>5
<1>4. Nat \subseteq P
  <2> HIDE DEF P
  <2>. QED
    BY <1>2, <1>3, SetInduction
<1>5. \A s \in SUBSET S : Cardinality(s) \in P
  BY <1>4, Smaller
<1>. QED
  BY <1>5

(* The order does not matter: any element may be added last.               *)
AnyOrder(f, g, S) == \A s \in SUBSET S : \A x \in s : g[s] = f[x] + g[s \ {x}]

(* Of a sum over a finite set, any element may be added last.              *)
LEMMA AnyLast ==
  ASSUME NEW S, IsFiniteSet(S), NEW f \in [S -> Int], NEW g, Adds(f, g, S)
  PROVE  AnyOrder(f, g, S)
<1> DEFINE P == {n \in Nat : \A s \in SUBSET S : Cardinality(s) = n =>
                   \A x \in s : g[s] = f[x] + g[s \ {x}]}
<1>1. \A s \in SUBSET S : g[s] = Added(f, g, s) /\ g[s] \in Int
  BY AddsType DEF Adds, Added
<1>2. 0 \in P
  <2>1. \A s \in SUBSET S : Cardinality(s) = 0 => s = {}
    BY Smaller
  <2>. QED
    BY <2>1
<1>3. ASSUME NEW n \in Nat, n \in P PROVE n + 1 \in P
  <2>1. SUFFICES ASSUME NEW s \in SUBSET S, Cardinality(s) = n + 1, NEW x \in s
                 PROVE  g[s] = f[x] + g[s \ {x}]
    OBVIOUS
  <2> DEFINE y == Pick(s)
             a == s \ {x}
             b == s \ {y}
             t == s \ {x, y}
  <2>2. y \in s
    BY PickIn
  <2>3. g[s] = f[y] + g[b]
    BY <1>1 DEF Added
  <2>4. CASE x = y
    BY <2>3, <2>4
  <2>5. CASE x # y
    <3>1. a \in SUBSET S /\ Cardinality(a) = n /\ b \in SUBSET S /\ Cardinality(b) = n
      BY <2>1, <2>2, Smaller
    <3>2. y \in a /\ a \ {y} = t /\ x \in b /\ b \ {x} = t /\ t \in SUBSET S
      BY <2>2, <2>5
    <3>3. f[x] \in Int /\ f[y] \in Int /\ g[t] \in Int
      BY <1>1, <2>2, <3>2
    <3> HIDE DEF y, a, b, t
    <3>4. g[a] = f[y] + g[t] /\ g[b] = f[x] + g[t]
      BY <1>3, <3>1, <3>2
    <3>5. g[s] = f[x] + g[a]
      BY <2>3, <3>3, <3>4
    <3>. QED
      BY <3>5 DEF a
  <2>. QED
    BY <2>4, <2>5
<1>4. Nat \subseteq P
  <2> HIDE DEF P
  <2>. QED
    BY <1>2, <1>3, SetInduction
<1>5. \A s \in SUBSET S : Cardinality(s) \in P
  BY <1>4, Smaller
<1>. QED
  BY <1>5 DEF AnyOrder

(* The sum of a sequence, step by step from its first element.             *)
Sums(f, n, p) ==
  /\ f \in [1 .. n -> Int] /\ p \in [0 .. n -> Int] /\ p[0] = 0
  /\ \A k \in 1 .. n : p[k] = p[k - 1] + f[k]
  /\ SumFunction(f) = p[n]

(* Every finite sequence of integers has its sums from the front.          *)
LEMMA PrefixSums ==
  ASSUME NEW n \in Nat, NEW f \in [1 .. n -> Int]
  PROVE  \E p : Sums(f, n, p)
<1> DEFINE S == 1 .. n
           g == CHOOSE h : Adds(f, h, S)
           p == [k \in 0 .. n |-> g[1 .. k]]
<1>1. IsFiniteSet(S)
  BY FS_Interval
<1>2. Adds(f, g, S)
  BY <1>1, AddsExists
<1>3. SumFunction(f) = g[S]
  <2>1. DOMAIN f = S
    OBVIOUS
  <2>. QED
    BY <2>1, SumIs
<1> HIDE DEF g
<1>4. \A s \in SUBSET S : g[s] \in Int
  BY <1>1, <1>2, AddsType
<1>5. AnyOrder(f, g, S)
  <2>1. f \in [S -> Int]
    OBVIOUS
  <2> HIDE DEF S
  <2>. QED
    BY <1>1, <1>2, <2>1, AnyLast
<1>6. p \in [0 .. n -> Int]
  BY <1>4
<1>7. p[0] = 0
  <2>1. 1 .. 0 = {} /\ 0 \in 0 .. n
    OBVIOUS
  <2>2. g[{}] = 0
    BY <1>2 DEF Adds
  <2>. QED
    BY <2>1, <2>2
<1>8. ASSUME NEW k \in 1 .. n PROVE p[k] = p[k - 1] + f[k]
  <2>1. /\ 1 .. k \in SUBSET S /\ k \in 1 .. k /\ (1 .. k) \ {k} = 1 .. k - 1
        /\ k \in 0 .. n /\ k - 1 \in 0 .. n
    OBVIOUS
  <2>2. g[1 .. k] = f[k] + g[1 .. k - 1]
    BY <2>1, <1>5 DEF AnyOrder
  <2>3. 1 .. k - 1 \in SUBSET S /\ f[k] \in Int
    OBVIOUS
  <2>4. g[1 .. k - 1] \in Int
    BY <1>4, <2>3
  <2>5. p[k] = g[1 .. k] /\ p[k - 1] = g[1 .. k - 1]
    BY <2>1
  <2> HIDE DEF p
  <2>. QED
    BY <2>2, <2>3, <2>4, <2>5
<1>9. SumFunction(f) = p[n]
  BY <1>3
<1>. QED
  BY <1>6, <1>7, <1>8, <1>9 DEF Sums

(* Sums of sequences that agree on a first part agree on it.               *)
LEMMA SumsAgree ==
  ASSUME NEW n \in Nat, NEW m \in Nat, NEW f, NEW h, NEW p, NEW q, NEW d \in Int,
         Sums(f, n, p), Sums(h, m, q), NEW a \in 0 .. m, NEW l \in Nat, a + l =< m, l =< n,
         q[a] = d, \A k \in 1 .. l : h[a + k] = f[k]
  PROVE  q[a + l] = d + p[l]
<1> DEFINE P == {k \in Nat : k =< l => q[a + k] = d + p[k]}
<1>1. 0 \in P
  BY DEF Sums
<1>2. ASSUME NEW k \in Nat, k \in P PROVE k + 1 \in P
  <2>1. SUFFICES ASSUME k + 1 =< l PROVE q[a + (k + 1)] = d + p[k + 1]
    OBVIOUS
  <2>2. q[a + k] = d + p[k]
    BY <1>2, <2>1
  <2>3. k + 1 \in 1 .. n /\ (k + 1) - 1 = k /\ a + (k + 1) \in 1 .. m /\ (a + (k + 1)) - 1 = a + k
    BY <2>1
  <2>4. p[k + 1] = p[k] + f[k + 1] /\ q[a + (k + 1)] = q[a + k] + h[a + (k + 1)]
    BY <2>3 DEF Sums
  <2>5. h[a + (k + 1)] = f[k + 1]
    BY <2>1
  <2>6. p[k] \in Int /\ q[a + k] \in Int
    <3>1. k \in 0 .. n /\ a + k \in 0 .. m
      BY <2>1
    <3>. QED
      BY <3>1 DEF Sums
  <2>7. f[k + 1] \in Int
    BY <2>3 DEF Sums
  <2>. QED
    BY <2>2, <2>4, <2>5, <2>6, <2>7
<1>3. l \in P
  <2> HIDE DEF P
  <2>. QED
    BY <1>1, <1>2, SetInduction
<1>. QED
  BY <1>3

(* Sums of sequences grow with what they add.                              *)
LEMMA SumsMonotone ==
  ASSUME NEW n \in Nat, NEW f, NEW h, NEW p, NEW q, NEW d \in Int,
         Sums(f, n, p), Sums(h, n, q), \A k \in 1 .. n : h[k] =< f[k] + d
  PROVE  q[n] =< p[n] + d * n
<1> DEFINE P == {k \in Nat : k =< n => q[k] =< p[k] + d * k}
<1>1. 0 \in P
  BY DEF Sums
<1>2. ASSUME NEW k \in Nat, k \in P PROVE k + 1 \in P
  <2>1. SUFFICES ASSUME k + 1 =< n PROVE q[k + 1] =< p[k + 1] + d * (k + 1)
    OBVIOUS
  <2>2. q[k] =< p[k] + d * k
    BY <1>2, <2>1
  <2>3. k + 1 \in 1 .. n /\ (k + 1) - 1 = k
    BY <2>1
  <2>4. p[k + 1] = p[k] + f[k + 1] /\ q[k + 1] = q[k] + h[k + 1]
    BY <2>3 DEF Sums
  <2>5. h[k + 1] =< f[k + 1] + d
    BY <2>3
  <2>6. p[k] \in Int /\ q[k] \in Int
    <3>1. k \in 0 .. n
      BY <2>1
    <3>2. p \in [0 .. n -> Int] /\ q \in [0 .. n -> Int]
      BY DEF Sums
    <3>. QED
      BY <3>1, <3>2
  <2>7. f[k + 1] \in Int /\ h[k + 1] \in Int
    <3>1. f \in [1 .. n -> Int] /\ h \in [1 .. n -> Int]
      BY DEF Sums
    <3>. QED
      BY <2>3, <3>1
  <2>8. d * (k + 1) = d * k + d /\ d * k \in Int
    OBVIOUS
  <2> HIDE DEF P
  <2>. QED
    BY <2>2, <2>4, <2>5, <2>6, <2>7, <2>8
<1>3. n \in P
  <2> HIDE DEF P
  <2>. QED
    BY <1>1, <1>2, SetInduction
<1>. QED
  BY <1>3

(* The sum after an element is appended.                                   *)
LEMMA SumAppend ==
  ASSUME NEW n \in Nat, NEW f \in [1 .. n -> Int], NEW h \in [1 .. n + 1 -> Int],
         \A k \in 1 .. n : h[k] = f[k]
  PROVE  SumFunction(h) = SumFunction(f) + h[n + 1] /\ SumFunction(f) \in Int
<1>1. PICK p : Sums(f, n, p)
  BY PrefixSums
<1>2. PICK q : Sums(h, n + 1, q)
  BY PrefixSums
<1>3. q[0 + n] = 0 + p[n]
  <2>1. q[0] = 0 /\ \A k \in 1 .. n : h[0 + k] = f[k]
    BY <1>2 DEF Sums
  <2>2. 0 \in 0 .. n + 1 /\ n + 1 \in Nat /\ 0 + n =< n + 1 /\ n =< n
    OBVIOUS
  <2>. QED
    BY <1>1, <1>2, <2>1, <2>2, SumsAgree, SMTT(20)
<1>4. p[n] \in Int /\ q[n] = p[n]
  BY <1>1, <1>3 DEF Sums
<1>5. n + 1 \in 1 .. n + 1 /\ (n + 1) - 1 = n
  OBVIOUS
<1>6. q[n + 1] = q[n] + h[n + 1]
  BY <1>2, <1>5 DEF Sums
<1>. QED
  BY <1>1, <1>2, <1>4, <1>6 DEF Sums

(* The sum after the first element is taken.                               *)
LEMMA SumTail ==
  ASSUME NEW n \in Nat, NEW f \in [1 .. n -> Int], NEW h \in [1 .. n + 1 -> Int],
         \A k \in 1 .. n : h[k + 1] = f[k]
  PROVE  SumFunction(h) = h[1] + SumFunction(f)
<1>1. PICK p : Sums(f, n, p)
  BY PrefixSums
<1>2. PICK q : Sums(h, n + 1, q)
  BY PrefixSums
<1>3. q[1] = h[1] /\ h[1] \in Int
  <2>1. 1 \in 1 .. n + 1 /\ 1 - 1 = 0
    OBVIOUS
  <2>2. q[1] = q[0] + h[1] /\ q[0] = 0
    BY <1>2, <2>1 DEF Sums
  <2>. QED
    BY <2>1, <2>2
<1>4. q[1 + n] = h[1] + p[n]
  <2>1. 1 \in 0 .. n + 1 /\ 1 + n =< n + 1 /\ \A k \in 1 .. n : h[1 + k] = f[k]
    OBVIOUS
  <2>. QED
    BY <1>1, <1>2, <1>3, <2>1, SumsAgree, SMTT(20)
<1>. QED
  BY <1>1, <1>2, <1>4 DEF Sums

(* Where the event thread can be, and where a sender.                      *)
Receiving  == {"rx", "pop", "up", "tx_up", "rx_relock", "complete", "keep"}
SendSteps  == {"send", "tx_done", "relock"}
EventSteps == SendSteps \cup Receiving \cup {"receive", "recheck", "clear", "tx_ioc", "kick"}
Steps(t)   == IF t = Event THEN EventSteps ELSE {"out", "enter"} \cup SendSteps

(* The packets that have gone to the controller, and those that follow.    *)
Gone == sent \o txfifo
Line == sent \o txfifo \o queue

TxTyped ==
  /\ handed \in Seq(DOMAIN Packets) /\ queue \in Seq(DOMAIN Packets)
  /\ txfifo \in Seq(DOMAIN Packets) /\ sent \in Seq(DOMAIN Packets)
  /\ batch \in [Senders -> Seq(DOMAIN Packets)]
  /\ npkt \in [Threads -> Nat] /\ done \in [DOMAIN Packets -> Nat]
  /\ pc \in [Threads -> EventSteps \cup {"out", "enter"}]
  /\ \A t \in Threads : pc[t] \in Steps(t)

(* A chain waits with its sender only; every packet is in one place.       *)
Waiting ==
  /\ \A s \in Senders : pc[s] # "enter" => batch[s] = <<>>
  /\ \A i \in DOMAIN Line : Line[i] =< Len(handed)
  /\ \A s \in Senders : \A i \in DOMAIN batch[s] : batch[s][i] =< Len(handed)

Apart ==
  /\ \A s \in Senders : \A i \in DOMAIN batch[s], j \in DOMAIN Line : batch[s][i] # Line[j]
  /\ \A s, t \in Senders : s # t =>
       \A i \in DOMAIN batch[s], j \in DOMAIN batch[t] : batch[s][i] # batch[t][j]

Once ==
  /\ IsInjective(Line)
  /\ \A s \in Senders : IsInjective(batch[s])

(* A packet whose completion is under way has gone, is not completed, and  *)
(* is completed by one thread.                                             *)
Completing(t) == pc[t] = "tx_done"

Completions ==
  /\ \A t \in Threads : Completing(t) =>
       npkt[t] \in ToSet(Gone) /\ done[npkt[t]] = 0
  /\ \A t, u \in Threads : Completing(t) /\ Completing(u) /\ npkt[t] = npkt[u] => t = u
  /\ \A p \in DOMAIN Packets : done[p] =< 1 /\ (done[p] = 1 => p \in ToSet(Gone))

Room == Used =< TxBytes

(* The interrupt is masked while it is served.                             *)
Masking ==
  /\ mutex \in Threads \cup {Free}
  /\ INT_STS \subseteq {"RSFL", "TX_IOC"} /\ istat \subseteq {"RSFL", "TX_IOC"}
  /\ masked \in BOOLEAN /\ pulses \in {0, 1}
  /\ pulses = 1 => masked /\ pc[Event] = "receive"
  /\ pc[Event] # "receive" => masked

(* The chain has room for one more while frames are read into it.          *)
Chained ==
  /\ rxq = [i \in 1 .. Len(rxq) |-> rxq[i]] /\ Len(rxq) \in Nat /\ Len(rxq) =< MaxBuffered
  /\ pc[Event] \in Receiving \ {"up"} => Len(rxq) < MaxBuffered
  /\ pc[Event] \notin Receiving => rxq = <<>>

Counted == num_rx_free \in Nat /\ held \in Nat /\ upper \in [Uppers -> {"out", "keep"}]

Whole(f) == [k \in 1 .. Frames[f] |-> <<f, k>>]

RxTyped ==
  /\ rxsts \in Seq(Nat) /\ rxdata \in Seq(Nat \X Nat)
  /\ rxq \in Seq(Seq(Nat \X Nat)) /\ passed \in Seq(Seq(Nat \X Nat))
  /\ arrived \in 0 .. Len(Frames)
  /\ pc[Event] = "pop" => rxsts # <<>>

Popped == passed \o rxq

Stream(fs, at) ==
  LET m == Len(Popped)  n == Len(fs)
  IN  /\ fs \in Seq(1 .. arrived) /\ n = m + Len(rxsts)
      /\ \A i, j \in 1 .. n : i < j => fs[i] < fs[j]
      /\ \A i \in 1 .. m : Popped[i] = Whole(fs[i])
      /\ \A i \in 1 .. n - m : rxsts[i] = Frames[fs[m + i]]
      /\ at \in [1 .. n + 1 -> Nat]
      /\ \A i \in 1 .. n : at[i + 1] = at[i] + Frames[fs[i]]
      /\ \A i, j \in 1 .. n + 1 : i =< j => at[i] =< at[j]
      /\ Len(rxdata) = at[n + 1] - at[m + 1]
      /\ \A i \in m + 1 .. n : \A k \in 1 .. Frames[fs[i]] :
           rxdata[at[i] - at[m + 1] + k] = <<fs[i], k>>

InOrder ==
  /\ fails \in Nat
  /\ fails = 0 => RxTyped /\ \E fs, at : Stream(fs, at)

(* A sum of what is not negative is not negative.                          *)
LEMMA SumsNat ==
  ASSUME NEW n \in Nat, NEW f, NEW p, Sums(f, n, p), \A k \in 1 .. n : f[k] >= 0
  PROVE  p[n] >= 0
<1> DEFINE P == {k \in Nat : k =< n => p[k] >= 0}
<1>1. 0 \in P
  BY DEF Sums
<1>2. ASSUME NEW k \in Nat, k \in P PROVE k + 1 \in P
  <2>1. SUFFICES ASSUME k + 1 =< n PROVE p[k + 1] >= 0
    OBVIOUS
  <2>2. k \in 0 .. n /\ k + 1 \in 1 .. n /\ (k + 1) - 1 = k /\ p[k] >= 0
    BY <1>2, <2>1
  <2>3. p[k + 1] = p[k] + f[k + 1] /\ p[k] \in Int /\ f[k + 1] \in Int /\ f[k + 1] >= 0
    BY <2>2 DEF Sums
  <2>. QED
    BY <2>2, <2>3
<1>3. n \in P
  <2> HIDE DEF P
  <2>. QED
    BY <1>1, <1>2, SetInduction
<1>. QED
  BY <1>3

(* What a command asks for covers what is written for it.                  *)
LEMMA WrittenFits ==
  \A p \in DOMAIN Packets :
    Written[p] \in Nat /\ Asked[p] \in Nat /\ Written[p] =< Asked[p]
<1>1. SUFFICES ASSUME NEW p \in DOMAIN Packets
               PROVE  Written[p] \in Nat /\ Asked[p] \in Nat /\ Written[p] =< Asked[p]
  OBVIOUS
<1> DEFINE bs == Packets[p]
           n == Len(bs)
           f == [b \in DOMAIN bs |-> bs[b].len]
           h == [b \in DOMAIN bs |-> Copied(bs[b])]
<1>2. /\ n \in Nat /\ DOMAIN bs = 1 .. n
      /\ \A b \in 1 .. n : bs[b].len \in Nat \ {0} /\ bs[b].off \in 0 .. 3
  <2>1. Packets \in Seq(Seq([len : Nat \ {0}, off : 0 .. 3]))
    BY SmcAssumption
  <2>2. bs \in Seq([len : Nat \ {0}, off : 0 .. 3])
    BY <2>1
  <2> HIDE DEF bs
  <2>3. \A b \in 1 .. Len(bs) : bs[b] \in [len : Nat \ {0}, off : 0 .. 3]
    BY <2>2, ElementOfSeq
  <2>. QED
    BY <2>2, <2>3
<1>3. \A b \in 1 .. n : Copied(bs[b]) \in Nat /\ Copied(bs[b]) =< bs[b].len + 16
  <2>1. SUFFICES ASSUME NEW b \in 1 .. n
                 PROVE  Copied(bs[b]) \in Nat /\ Copied(bs[b]) =< bs[b].len + 16
    OBVIOUS
  <2> DEFINE l == bs[b].len
             o == bs[b].off
  <2>2. l \in Nat /\ l >= 1 /\ o \in 0 .. 3
    BY <1>2
  <2>3. Copied(bs[b]) = IF o = 0 THEN 8 + 4 * ((l + 3) \div 4)
                        ELSE 12 + 4 * ((l - (4 - o) + 3) \div 4)
    BY DEF Copied
  <2> HIDE DEF l, o
  <2>4. \A x \in Nat : x \div 4 \in Nat /\ 4 * (x \div 4) =< x
    OBVIOUS
  <2>5. CASE o = 0
    <3> DEFINE x == l + 3
    <3>1. x \in Nat /\ x = l + 3
      BY <2>2
    <3>2. Copied(bs[b]) = 8 + 4 * (x \div 4)
      BY <2>3, <2>5
    <3> DEFINE y == x \div 4
    <3> HIDE DEF x
    <3>3. y \in Nat /\ 4 * y =< x
      BY <2>4, <3>1
    <3> HIDE DEF y
    <3>4. 8 + 4 * y \in Nat /\ 12 + 4 * y \in Nat /\ 12 + 4 * y =< 12 + x
      BY <3>1, <3>3
    <3>5. Copied(bs[b]) \in Nat /\ Copied(bs[b]) =< l + 16
      BY <2>2, <3>1, <3>2, <3>3, <3>4 DEF y
    <3>. QED
      BY <3>5 DEF l
  <2>6. CASE o # 0
    <3> DEFINE x == l - (4 - o) + 3
    <3>1. x \in Nat /\ x =< l + 2
      BY <2>2, <2>6
    <3>2. Copied(bs[b]) = 12 + 4 * (x \div 4)
      BY <2>3, <2>6
    <3> DEFINE y == x \div 4
    <3> HIDE DEF x
    <3>3. y \in Nat /\ 4 * y =< x
      BY <2>4, <3>1
    <3> HIDE DEF y
    <3>4. 8 + 4 * y \in Nat /\ 12 + 4 * y \in Nat /\ 12 + 4 * y =< 12 + x
      BY <3>1, <3>3
    <3>5. Copied(bs[b]) \in Nat /\ Copied(bs[b]) =< l + 16
      BY <2>2, <3>1, <3>2, <3>3, <3>4 DEF y
    <3>. QED
      BY <3>5 DEF l
  <2>. QED
    BY <2>5, <2>6
<1>4. f \in [1 .. n -> Int] /\ h \in [1 .. n -> Int]
  BY <1>2, <1>3
<1>5. Length[p] = SumFunction(f) /\ Written[p] = SumFunction(h) /\ Asked[p] = Length[p] + 16 * n
  BY DEF Length, Written, Asked
<1>6. /\ \A k \in 1 .. n : h[k] =< f[k] + 16 /\ f[k] >= 0 /\ h[k] >= 0
  BY <1>2, <1>3
<1> HIDE DEF bs, n, f, h
<1>7. PICK v : Sums(f, n, v)
  BY <1>2, <1>4, PrefixSums
<1>8. PICK w : Sums(h, n, w)
  BY <1>2, <1>4, PrefixSums
<1>9. w[n] =< v[n] + 16 * n
  BY <1>2, <1>6, <1>7, <1>8, SumsMonotone
<1>10. w[n] >= 0 /\ v[n] >= 0
  BY <1>2, <1>6, <1>7, <1>8, SumsNat
<1>. QED
  BY <1>2, <1>5, <1>7, <1>8, <1>9, <1>10 DEF Sums

(* The bytes in the FIFO when a packet enters.                             *)
LEMMA UsedAppend ==
  ASSUME NEW p \in DOMAIN Packets, txfifo \in Seq(DOMAIN Packets),
         txfifo' = Append(txfifo, p)
  PROVE  Used' = Used + Written[p] /\ Used \in Int
<1> DEFINE n == Len(txfifo)
           f == [i \in DOMAIN txfifo |-> Written[txfifo[i]]]
           h == [i \in DOMAIN txfifo' |-> Written[txfifo'[i]]]
<1>1. n \in Nat /\ DOMAIN txfifo = 1 .. n /\ \A i \in 1 .. n : txfifo[i] \in DOMAIN Packets
  OBVIOUS
<1>2. /\ DOMAIN txfifo' = 1 .. n + 1 /\ txfifo'[n + 1] = p
      /\ \A i \in 1 .. n : txfifo'[i] = txfifo[i]
  OBVIOUS
<1>3. f \in [1 .. n -> Int]
  BY <1>1, WrittenFits
<1>4. h \in [1 .. n + 1 -> Int]
  <2>1. \A i \in 1 .. n + 1 : i \in 1 .. n \/ i = n + 1
    BY <1>1
  <2>. QED
    BY <1>1, <1>2, <2>1, WrittenFits
<1>5. \A k \in 1 .. n : h[k] = f[k]
  BY <1>1, <1>2
<1>6. h[n + 1] = Written[p]
  BY <1>1, <1>2
<1>7. Used = SumFunction(f) /\ Used' = SumFunction(h)
  BY DEF Used
<1> HIDE DEF n, f, h
<1>. QED
  BY <1>1, <1>3, <1>4, <1>5, <1>6, <1>7, SumAppend

(* The bytes in the FIFO when the first packet leaves.                     *)
LEMMA UsedTail ==
  ASSUME txfifo \in Seq(DOMAIN Packets), txfifo # <<>>, txfifo' = Tail(txfifo)
  PROVE  Used' =< Used /\ Used' \in Int /\ Used \in Int
<1> DEFINE n == Len(txfifo) - 1
           f == [i \in DOMAIN txfifo' |-> Written[txfifo'[i]]]
           h == [i \in DOMAIN txfifo |-> Written[txfifo[i]]]
<1>1. /\ n \in Nat /\ DOMAIN txfifo = 1 .. n + 1
      /\ \A i \in 1 .. n + 1 : txfifo[i] \in DOMAIN Packets
  OBVIOUS
<1>2. DOMAIN txfifo' = 1 .. n /\ \A i \in 1 .. n : txfifo'[i] = txfifo[i + 1]
  OBVIOUS
<1>3. \A i \in 1 .. n : i + 1 \in 1 .. n + 1
  BY <1>1
<1>4. f \in [1 .. n -> Int] /\ h \in [1 .. n + 1 -> Int]
  BY <1>1, <1>2, <1>3, WrittenFits
<1>5. \A k \in 1 .. n : h[k + 1] = f[k]
  BY <1>1, <1>2, <1>3
<1>6. h[1] \in Nat
  BY <1>1, WrittenFits
<1>7. Used = SumFunction(h) /\ Used' = SumFunction(f)
  BY DEF Used
<1> HIDE DEF n, f, h
<1>8. PICK p : Sums(f, n, p)
  BY <1>1, <1>4, PrefixSums
<1>9. SumFunction(f) \in Int
  BY <1>1, <1>8 DEF Sums
<1>10. SumFunction(h) = h[1] + SumFunction(f)
  BY <1>1, <1>4, <1>5, SumTail
<1>. QED
  BY <1>6, <1>7, <1>9, <1>10

(* What a step does to the packets that are sent.                          *)
TxSame == UNCHANGED <<queue, handed, batch, txfifo, sent, done, npkt>>

Elsewhere ==
  \/ pc' = pc
  \/ \E t \in Threads : \E p \in Steps(t) \ {"tx_done", "enter"} :
       ~Completing(t) /\ pc[t] # "enter" /\ pc' = [pc EXCEPT ![t] = p]

TxEffect ==
  \/ \E s \in Senders : Enter(s) \/ \E n \in Batches : Hand(s, n)
  \/ \E t \in Threads : Send(t) \/ TxDone(t)
  \/ HwSend
  \/ TxSame /\ Elsewhere

(* Every step is one of these, of the transmit side.                       *)
LEMMA TxEffects == TxTyped /\ [Next]_vars => TxEffect
<1>. SUFFICES ASSUME TxTyped, [Next]_vars PROVE TxEffect
  OBVIOUS
<1>1. Event \in Threads
  BY DEF Threads
<1>2. ASSUME NEW t \in Threads, Relock(t) PROVE TxEffect
  <2>1. pc[t] = "relock" /\ "send" \in Steps(t) /\ pc' = [pc EXCEPT ![t] = "send"] /\ TxSame
    BY <1>2 DEF Relock, Take, Goto, TxSame, txVars, Steps, EventSteps, SendSteps
  <2>. QED
    BY <2>1 DEF TxEffect, Elsewhere, Completing
<1>3. ASSUME NEW t \in Threads, SendEnds(t) PROVE TxEffect
  <2>1. /\ pc[t] = "send" /\ TxSame
        /\ pc' = [pc EXCEPT ![t] = IF t = Event THEN "recheck" ELSE "out"]
    BY <1>3 DEF SendEnds, Goto, TxSame, txVars
  <2>2. (IF t = Event THEN "recheck" ELSE "out") \in Steps(t) \ {"tx_done", "enter"}
    BY DEF Steps, EventSteps
  <2>. QED
    BY <2>1, <2>2 DEF TxEffect, Elsewhere, Completing
<1>4. ASSUME NEW p \in EventSteps \ {"tx_done", "enter"}, NEW q \in EventSteps \ {"tx_done", "enter"},
             pc[Event] = q, Goto(Event, p), TxSame
      PROVE  TxEffect
  <2>1. p \in Steps(Event) \ {"tx_done", "enter"}
    BY <1>4 DEF Steps
  <2>. QED
    BY <1>1, <1>4, <2>1 DEF TxEffect, Elsewhere, Completing, Goto
<1>5. CASE Serving
  <2>1. /\ TxSame
        /\ \E p, q \in EventSteps \ {"tx_done", "enter"} : pc[Event] = q /\ Goto(Event, p)
    <3>1. CASE Pulse \/ Recheck \/ Clear \/ TxIoc
      BY <3>1 DEF Pulse, Recheck, Clear, TxIoc, Take, TxSame, txVars, EventSteps,
         Receiving
    <3>2. CASE Kick \/ Served
      BY <3>2 DEF Kick, Served, TxSame, txVars, EventSteps, SendSteps
    <3>3. CASE RxTest \/ RxPop \/ RxDrop
      BY <3>3 DEF RxTest, RxPop, RxDrop, TxSame, txVars, EventSteps, Receiving
    <3>4. CASE Up \/ TxUp \/ RxRelock
      BY <3>4 DEF Up, TxUp, RxRelock, GoOn, Take, TxSame, txVars, EventSteps, Receiving
    <3>5. CASE RxEnds \/ CompleteHere \/ KeepHere
      BY <3>5 DEF RxEnds, CompleteHere, KeepHere, TxSame, txVars, EventSteps, Receiving
    <3>. QED
      BY <1>5, <3>1, <3>2, <3>3, <3>4, <3>5 DEF Serving
  <2>. QED
    BY <1>4, <2>1
<1>6. ASSUME TxSame, pc' = pc PROVE TxEffect
  BY <1>6 DEF TxEffect, Elsewhere
<1>7. ASSUME NEW u \in Uppers, Complete(u) \/ Keep(u) PROVE TxEffect
  BY <1>6, <1>7 DEF Complete, Keep, TxSame, txVars
<1>8. CASE HwReceive \/ HwInterrupt
  BY <1>6, <1>8 DEF HwReceive, HwInterrupt, TxSame, txVars
<1>9. CASE UNCHANGED vars
  BY <1>6, <1>9 DEF vars, TxSame, txVars
<1>10. ASSUME NEW t \in Threads, Sending(t) PROVE TxEffect
  BY <1>2, <1>3, <1>10 DEF Sending, TxEffect
<1>11. CASE HwSend
  BY <1>11 DEF TxEffect
<1>12. ASSUME NEW s \in Senders, Enter(s) \/ \E n \in Batches : Hand(s, n) PROVE TxEffect
  BY <1>12 DEF TxEffect
<1>. QED
  BY <1>5, <1>7, <1>8, <1>9, <1>10, <1>11, <1>12 DEF Next

(* A sequence, its head moved to the end of another one.                   *)
LEMMA HeadMoved ==
  ASSUME NEW S, NEW a \in Seq(S), NEW b \in Seq(S), b # <<>>
  PROVE  Append(a, Head(b)) \o Tail(b) = a \o b
<1>1. Head(b) \in S /\ Tail(b) \in Seq(S)
  BY HeadTailProperties
<1>2. b = <<Head(b)>> \o Tail(b)
  <2>1. <<Head(b)>> \in Seq(S) /\ Len(<<Head(b)>>) = 1
    BY <1>1
  <2>2. <<Head(b)>> \o Tail(b) \in Seq(S)
    BY <1>1, <2>1, ConcatProperties
  <2>3. Len(<<Head(b)>> \o Tail(b)) = Len(b)
    BY <1>1, <2>1, HeadTailProperties, ConcatProperties
  <2>4. \A i \in 1 .. Len(b) : (<<Head(b)>> \o Tail(b))[i] = b[i]
    BY <1>1, <2>1, HeadTailProperties, ConcatProperties
  <2>. QED
    BY <2>2, <2>3, <2>4, SeqEqual
<1>3. <<Head(b)>> \in Seq(S)
  BY <1>1
<1>4. Append(a, Head(b)) = a \o <<Head(b)>>
  BY <1>1, AppendIsConcat
<1>5. (a \o <<Head(b)>>) \o Tail(b) = a \o (<<Head(b)>> \o Tail(b))
  BY <1>1, <1>3, ConcatAssociative
<1>. QED
  BY <1>2, <1>4, <1>5

(* The line of packets is a sequence of packets.                           *)
LEMMA LineTyped ==
  ASSUME TxTyped
  PROVE  /\ Gone \in Seq(DOMAIN Packets) /\ Line = Gone \o queue
         /\ Line \in Seq(DOMAIN Packets) /\ Len(Line) = Len(Gone) + Len(queue)
         /\ \A i \in 1 .. Len(Gone) : Line[i] = Gone[i]
         /\ \A i \in 1 .. Len(queue) : Line[Len(Gone) + i] = queue[i]
<1>1. Gone \in Seq(DOMAIN Packets) /\ queue \in Seq(DOMAIN Packets)
  BY ConcatProperties DEF TxTyped, Gone
<1>2. Line = Gone \o queue
  BY DEF Line, Gone
<1>3. Len(Gone) \in Nat /\ Len(queue) \in Nat
  BY <1>1, LenProperties
<1>4. /\ Gone \o queue \in Seq(DOMAIN Packets)
      /\ Len(Gone \o queue) = Len(Gone) + Len(queue)
      /\ \A i \in 1 .. Len(Gone) + Len(queue) :
           (Gone \o queue)[i] = IF i =< Len(Gone) THEN Gone[i] ELSE queue[i - Len(Gone)]
  BY <1>1, ConcatProperties
<1> HIDE DEF Gone
<1>. QED
  BY <1>1, <1>2, <1>3, <1>4

(* Packets are the numbers from 1 on.                                      *)
LEMMA PacketNumbers == Len(Packets) \in Nat /\ DOMAIN Packets = 1 .. Len(Packets)
  BY SmcAssumption

(* A chain joins the line at its end.                                      *)
LEMMA EnterLine ==
  ASSUME TxTyped, NEW s \in Senders, Enter(s)
  PROVE  Gone' = Gone /\ Line' = Line \o batch[s] /\ batch[s] \in Seq(DOMAIN Packets)
<1>1. UNCHANGED <<sent, txfifo>> /\ queue' = queue \o batch[s]
  BY DEF Enter, Entered
<1>2. batch[s] \in Seq(DOMAIN Packets) /\ queue \in Seq(DOMAIN Packets)
  BY DEF TxTyped
<1>3. Gone' = Gone
  BY <1>1 DEF Gone
<1>4. Line' = Gone \o (queue \o batch[s])
  BY <1>1 DEF Line, Gone
<1>5. (Gone \o queue) \o batch[s] = Gone \o (queue \o batch[s])
  <2>1. Gone \in Seq(DOMAIN Packets)
    BY LineTyped
  <2> DEFINE D == DOMAIN Packets
             b == batch[s]
  <2>2. Gone \in Seq(D) /\ queue \in Seq(D) /\ b \in Seq(D)
    BY <1>2, <2>1
  <2>. HIDE DEF D, Gone, b
  <2>3. (Gone \o queue) \o b = Gone \o (queue \o b)
    BY <2>2, ConcatAssociative
  <2>. QED
    BY <2>3 DEF b
<1>. QED
  BY <1>2, <1>3, <1>4, <1>5, LineTyped

(* A packet that is written has gone, and keeps its place in the line.     *)
LEMMA SendLine ==
  ASSUME TxTyped, NEW t \in Threads, Send(t)
  PROVE  /\ queue # <<>> /\ Head(queue) \in DOMAIN Packets
         /\ Gone' = Append(Gone, Head(queue)) /\ Line' = Line
         /\ queue' \in Seq(DOMAIN Packets) /\ txfifo' \in Seq(DOMAIN Packets)
<1>1. /\ UNCHANGED sent /\ txfifo' = Append(txfifo, Head(queue)) /\ queue' = Tail(queue)
      /\ queue # <<>>
  BY DEF Send, HeadTaken, CanSend
<1>2. queue \in Seq(DOMAIN Packets) /\ txfifo \in Seq(DOMAIN Packets) /\ sent \in Seq(DOMAIN Packets)
  BY DEF TxTyped
<1> DEFINE h == Head(queue)
<1>3. h \in DOMAIN Packets /\ queue' \in Seq(DOMAIN Packets)
  BY <1>1, <1>2, HeadTailProperties
<1>4. txfifo' = txfifo \o <<h>> /\ Append(Gone, h) = Gone \o <<h>> /\ txfifo' \in Seq(DOMAIN Packets)
  BY <1>1, <1>2, <1>3, LineTyped, AppendIsConcat, AppendProperties
<1>5. <<h>> \in Seq(DOMAIN Packets)
  BY <1>3
<1>6. (sent \o txfifo) \o <<h>> = sent \o (txfifo \o <<h>>)
  <2> DEFINE D == DOMAIN Packets
  <2>1. sent \in Seq(D) /\ txfifo \in Seq(D) /\ <<h>> \in Seq(D)
    BY <1>2, <1>5
  <2>. HIDE DEF D
  <2>. QED
    BY <2>1, ConcatAssociative
<1>7. Gone' = Append(Gone, h)
  BY <1>1, <1>4, <1>6 DEF Gone
<1>8. Line' = Gone' \o queue'
  BY DEF Line, Gone
<1>9. Append(Gone, h) \o Tail(queue) = Gone \o queue
  BY <1>1, <1>2, LineTyped, HeadMoved
<1>. QED
  BY <1>1, <1>3, <1>4, <1>7, <1>8, <1>9, LineTyped

(* Sending on the wire changes nothing of the line.                        *)
LEMMA HwSendLine ==
  ASSUME TxTyped, HwSend
  PROVE  /\ Gone' = Gone /\ Line' = Line
         /\ sent' \in Seq(DOMAIN Packets) /\ txfifo' \in Seq(DOMAIN Packets)
<1>1. /\ sent' = Append(sent, Head(txfifo)) /\ txfifo' = Tail(txfifo)
      /\ UNCHANGED queue /\ txfifo # <<>>
  BY DEF HwSend
<1>2. txfifo \in Seq(DOMAIN Packets) /\ sent \in Seq(DOMAIN Packets)
  BY DEF TxTyped
<1>3. Append(sent, Head(txfifo)) \o Tail(txfifo) = sent \o txfifo
  BY <1>1, <1>2, HeadMoved
<1>4. Gone' = Gone
  BY <1>1, <1>3 DEF Gone
<1>5. Head(txfifo) \in DOMAIN Packets /\ Tail(txfifo) \in Seq(DOMAIN Packets)
  BY <1>1, <1>2, HeadTailProperties
<1>6. sent' \in Seq(DOMAIN Packets)
  BY <1>1, <1>2, <1>5, AppendProperties
<1>. QED
  BY <1>1, <1>4, <1>5, <1>6 DEF Line, Gone

(* The chain that is handed over has the next numbers.                     *)
LEMMA HandChain ==
  ASSUME TxTyped, NEW s \in Senders, NEW n \in Batches, Hand(s, n)
  PROVE  \E ps \in Seq(DOMAIN Packets) :
           /\ batch' = [batch EXCEPT ![s] = ps] /\ handed' = handed \o ps
           /\ handed' \in Seq(DOMAIN Packets) /\ Len(handed') = Len(handed) + n /\ n \in Nat
           /\ Len(ps) = n /\ \A k \in 1 .. n : ps[k] = Len(handed) + k
<1>1. /\ handed \in Seq(DOMAIN Packets) /\ Len(handed) \in Nat /\ n \in Nat
      /\ Len(handed) + n =< Len(Packets)
  BY SmcAssumption DEF TxTyped, Hand
<1> DEFINE ps == [k \in 1 .. n |-> Len(handed) + k]
<1>2. \A k \in 1 .. n : Len(handed) + k \in DOMAIN Packets
  BY <1>1, PacketNumbers
<1>3. ps \in [1 .. n -> DOMAIN Packets]
  BY <1>2
<1>4. ps \in Seq(DOMAIN Packets) /\ Len(ps) = n
  BY <1>1, <1>3
<1>5. batch' = [batch EXCEPT ![s] = ps] /\ handed' = handed \o ps
  BY DEF Hand
<1>6. \A k \in 1 .. n : ps[k] = Len(handed) + k
  OBVIOUS
<1> HIDE DEF ps
<1>7. handed \o ps \in Seq(DOMAIN Packets) /\ Len(handed \o ps) = Len(handed) + Len(ps)
  BY <1>1, <1>4, ConcatProperties
<1>. QED
  BY <1>1, <1>4, <1>5, <1>6, <1>7

(* Every variable of the transmit side keeps its type.                     *)
LEMMA TypedStep == TxTyped /\ TxEffect => TxTyped'
<1>. SUFFICES ASSUME TxTyped, TxEffect PROVE TxTyped'
  OBVIOUS
<1> DEFINE D == DOMAIN Packets
           All == EventSteps \cup {"out", "enter"}
<1>1. /\ handed \in Seq(D) /\ queue \in Seq(D) /\ txfifo \in Seq(D) /\ sent \in Seq(D)
      /\ batch \in [Senders -> Seq(D)] /\ npkt \in [Threads -> Nat] /\ done \in [D -> Nat]
      /\ pc \in [Threads -> All] /\ \A t \in Threads : pc[t] \in Steps(t)
  BY DEF TxTyped
<1>2. ASSUME NEW t \in Threads, NEW p \in Steps(t), pc' = [pc EXCEPT ![t] = p]
      PROVE  pc' \in [Threads -> All] /\ \A u \in Threads : pc'[u] \in Steps(u)
  <2>1. p \in All
    BY DEF Steps, EventSteps
  <2>. QED
    BY <1>1, <1>2, <2>1
<1>3. \A s \in Senders : s \in Threads /\ s # Event
  BY SmcAssumption DEF Threads
<1>4. ASSUME NEW s \in Senders, NEW n \in Batches, Hand(s, n) PROVE TxTyped'
  <2>1. PICK ps \in Seq(D) : batch' = [batch EXCEPT ![s] = ps] /\ handed' \in Seq(D)
    BY <1>4, HandChain
  <2>2. batch' \in [Senders -> Seq(D)]
    BY <1>1, <2>1
  <2>3. pc' = [pc EXCEPT ![s] = "enter"] /\ "enter" \in Steps(s)
    BY <1>3, <1>4 DEF Hand, Goto, Steps
  <2>4. UNCHANGED <<queue, txfifo, sent, npkt, done>>
    BY <1>4 DEF Hand
  <2>. QED
    BY <1>1, <1>2, <1>3, <2>1, <2>2, <2>3, <2>4 DEF TxTyped
<1>5. ASSUME NEW s \in Senders, Enter(s) PROVE TxTyped'
  <2>1. queue' \in Seq(D)
    <3>1. queue' = queue \o batch[s] /\ batch[s] \in Seq(D)
      BY <1>1, <1>5 DEF Enter, Entered
    <3>. QED
      BY <1>1, <3>1, ConcatProperties
  <2>2. batch' \in [Senders -> Seq(D)]
    <3>1. batch' = [batch EXCEPT ![s] = <<>>] /\ <<>> \in Seq(D)
      BY <1>5 DEF Enter
    <3>. QED
      BY <1>1, <3>1
  <2>3. pc' = [pc EXCEPT ![s] = "send"] /\ "send" \in Steps(s)
    BY <1>3, <1>5 DEF Enter, Take, Goto, Steps, SendSteps
  <2>4. UNCHANGED <<handed, txfifo, sent, npkt, done>>
    BY <1>5 DEF Enter
  <2>. QED
    BY <1>1, <1>2, <1>3, <2>1, <2>2, <2>3, <2>4 DEF TxTyped
<1>6. ASSUME NEW t \in Threads, Send(t) PROVE TxTyped'
  <2>1. queue' \in Seq(D) /\ txfifo' \in Seq(D) /\ Head(queue) \in Nat
    BY <1>6, SendLine, PacketNumbers
  <2>2. npkt' \in [Threads -> Nat]
    BY <1>1, <1>6, <2>1 DEF Send
  <2>3. pc' = [pc EXCEPT ![t] = "tx_done"] /\ "tx_done" \in Steps(t)
    BY <1>6 DEF Send, Goto, Steps, EventSteps, SendSteps
  <2>4. UNCHANGED <<handed, batch, sent, done>>
    BY <1>6 DEF Send
  <2>. QED
    BY <1>1, <1>2, <2>1, <2>2, <2>3, <2>4 DEF TxTyped
<1>7. ASSUME NEW t \in Threads, TxDone(t) PROVE TxTyped'
  <2>1. npkt' \in [Threads -> Nat]
    BY <1>1, <1>7 DEF TxDone
  <2>2. done' \in [D -> Nat]
    <3>1. done' = [done EXCEPT ![npkt[t]] = @ + 1]
      BY <1>7 DEF TxDone
    <3>2. done' = [p \in D |-> IF p = npkt[t] THEN done[p] + 1 ELSE done[p]]
      BY <1>1, <3>1
    <3>. QED
      BY <1>1, <3>2
  <2>3. pc' = [pc EXCEPT ![t] = "relock"] /\ "relock" \in Steps(t)
    BY <1>7 DEF TxDone, Goto, Steps, EventSteps, SendSteps
  <2>4. UNCHANGED <<queue, handed, batch, txfifo, sent>>
    BY <1>7 DEF TxDone
  <2>. QED
    BY <1>1, <1>2, <2>1, <2>2, <2>3, <2>4 DEF TxTyped
<1>8. CASE HwSend
  <2>1. sent' \in Seq(D) /\ txfifo' \in Seq(D)
    BY <1>8, HwSendLine
  <2>. QED
    BY <1>1, <1>8, <2>1 DEF HwSend, TxTyped
<1>9. CASE TxSame /\ Elsewhere
  <2>1. pc' \in [Threads -> All] /\ \A u \in Threads : pc'[u] \in Steps(u)
    <3>1. CASE pc' = pc
      BY <1>1, <3>1
    <3>2. CASE pc' # pc
      <4>1. PICK t \in Threads : \E p \in Steps(t) : pc' = [pc EXCEPT ![t] = p]
        BY <1>9, <3>2 DEF Elsewhere
      <4>. QED
        BY <1>2, <4>1
    <3>. QED
      BY <3>1, <3>2
  <2>. QED
    BY <1>1, <1>9, <2>1 DEF TxSame, TxTyped
<1>. QED
  BY <1>4, <1>5, <1>6, <1>7, <1>8, <1>9 DEF TxEffect

(* Two sequences one after the other are injective when each is and they   *)
(* share nothing.                                                          *)
LEMMA InjectiveConcat ==
  ASSUME NEW S, NEW a \in Seq(S), NEW b \in Seq(S), IsInjective(a), IsInjective(b),
         \A i \in DOMAIN a, j \in DOMAIN b : a[i] # b[j]
  PROVE  IsInjective(a \o b)
<1>1. /\ Len(a) \in Nat /\ Len(b) \in Nat /\ DOMAIN a = 1 .. Len(a) /\ DOMAIN b = 1 .. Len(b)
      /\ DOMAIN (a \o b) = 1 .. Len(a) + Len(b)
      /\ \A i \in 1 .. Len(a) + Len(b) :
           (a \o b)[i] = IF i =< Len(a) THEN a[i] ELSE b[i - Len(a)]
  <2>1. a \o b \in Seq(S) /\ Len(a \o b) = Len(a) + Len(b)
    BY ConcatProperties
  <2>2. DOMAIN (a \o b) = 1 .. Len(a \o b)
    BY <2>1, LenProperties
  <2>. QED
    BY <2>1, <2>2, ConcatProperties, LenProperties
<1>2. SUFFICES ASSUME NEW i \in DOMAIN (a \o b), NEW j \in DOMAIN (a \o b),
                      (a \o b)[i] = (a \o b)[j]
               PROVE  i = j
  BY DEF IsInjective
<1>3. CASE i =< Len(a) /\ j =< Len(a)
  <2>1. i \in DOMAIN a /\ j \in DOMAIN a /\ a[i] = a[j]
    BY <1>1, <1>2, <1>3
  <2>. QED
    BY <2>1 DEF IsInjective
<1>4. CASE i > Len(a) /\ j > Len(a)
  <2>1. i - Len(a) \in DOMAIN b /\ j - Len(a) \in DOMAIN b /\ b[i - Len(a)] = b[j - Len(a)]
    BY <1>1, <1>2, <1>4
  <2>2. i - Len(a) = j - Len(a)
    BY <2>1 DEF IsInjective
  <2>. QED
    BY <1>1, <2>2
<1>5. CASE i =< Len(a) /\ j > Len(a)
  <2>1. i \in DOMAIN a /\ j - Len(a) \in DOMAIN b /\ a[i] = b[j - Len(a)]
    BY <1>1, <1>2, <1>5
  <2>. QED
    BY <2>1
<1>6. CASE i > Len(a) /\ j =< Len(a)
  <2>1. i - Len(a) \in DOMAIN b /\ j \in DOMAIN a /\ a[j] = b[i - Len(a)]
    BY <1>1, <1>2, <1>6
  <2>. QED
    BY <2>1
<1>. QED
  BY <1>1, <1>3, <1>4, <1>5, <1>6

(* Handing over and entering move packets on; nothing else does.           *)
LEMMA OtherLine ==
  ASSUME TxTyped, TxEffect
  PROVE  \/ \E s \in Senders : Enter(s) \/ \E n \in Batches : Hand(s, n)
         \/ /\ Line' = Line /\ UNCHANGED <<batch, handed>>
            /\ \A s \in Senders : pc[s] = "enter" => pc'[s] = "enter"
<1>1. \A s \in Senders : s \in Threads
  BY DEF Threads
<1>2. ASSUME NEW t \in Threads, Send(t)
      PROVE  /\ Line' = Line /\ UNCHANGED <<batch, handed>>
             /\ \A s \in Senders : pc[s] = "enter" => pc'[s] = "enter"
  <2>1. Line' = Line
    BY <1>2, SendLine
  <2>. QED
    BY <1>1, <1>2, <2>1 DEF Send, Goto, TxTyped
<1>3. ASSUME NEW t \in Threads, TxDone(t)
      PROVE  /\ Line' = Line /\ UNCHANGED <<batch, handed>>
             /\ \A s \in Senders : pc[s] = "enter" => pc'[s] = "enter"
  BY <1>1, <1>3 DEF TxDone, Goto, TxTyped, Line
<1>4. ASSUME HwSend
      PROVE  /\ Line' = Line /\ UNCHANGED <<batch, handed>>
             /\ \A s \in Senders : pc[s] = "enter" => pc'[s] = "enter"
  BY <1>4, HwSendLine DEF HwSend
<1>5. ASSUME TxSame, Elsewhere
      PROVE  /\ Line' = Line /\ UNCHANGED <<batch, handed>>
             /\ \A s \in Senders : pc[s] = "enter" => pc'[s] = "enter"
  <2>1. \A s \in Senders : pc[s] = "enter" => pc'[s] = "enter"
    BY <1>1, <1>5 DEF Elsewhere, TxTyped
  <2>. QED
    BY <1>5, <2>1 DEF TxSame, Line
<1>. QED
  BY <1>2, <1>3, <1>4, <1>5 DEF TxEffect

(* A chain waits with its sender only, and every packet is in one place.   *)
LEMMA PlacesStep ==
  TxTyped /\ Waiting /\ Apart /\ Once /\ TxEffect => Waiting' /\ Apart' /\ Once'
<1>. SUFFICES ASSUME TxTyped, Waiting, Apart, Once, TxEffect PROVE Waiting' /\ Apart' /\ Once'
  OBVIOUS
<1> DEFINE D == DOMAIN Packets
<1>1. /\ batch \in [Senders -> Seq(D)] /\ handed \in Seq(D) /\ Len(handed) \in Nat
      /\ pc \in [Threads -> EventSteps \cup {"out", "enter"}]
  BY DEF TxTyped
<1>2. \A s \in Senders : s \in Threads
  BY DEF Threads
<1>3. Line \in Seq(D) /\ DOMAIN Line = 1 .. Len(Line) /\ Len(Line) \in Nat
  BY LineTyped, LenProperties
<1>4. \A i \in DOMAIN Line : Line[i] \in Nat
  BY <1>3, PacketNumbers, ElementOfSeq
<1>5. \A s \in Senders : \A i \in DOMAIN batch[s] : batch[s][i] \in Nat
  BY <1>1, PacketNumbers, ElementOfSeq, LenProperties
<1> HIDE DEF D
<1>6. ASSUME NEW s \in Senders, NEW n \in Batches, Hand(s, n)
      PROVE  Waiting' /\ Apart' /\ Once'
  <2>1. PICK ps \in Seq(D) :
           /\ batch' = [batch EXCEPT ![s] = ps]
           /\ Len(handed') = Len(handed) + n /\ n \in Nat
           /\ Len(ps) = n /\ \A k \in 1 .. n : ps[k] = Len(handed) + k
    BY <1>6, HandChain DEF D
  <2>2. Line' = Line
    BY <1>6 DEF Hand, Line
  <2>3. DOMAIN ps = 1 .. n
    BY <2>1, LenProperties
  <2>4. batch'[s] = ps /\ \A t \in Senders : t # s => batch'[t] = batch[t]
    BY <1>1, <2>1
  <2>5. \A k \in DOMAIN ps : ps[k] > Len(handed) /\ ps[k] =< Len(handed') /\ ps[k] \in Nat
    BY <1>1, <2>1, <2>3
  <2>6. \A t \in Senders : pc'[t] # "enter" => t # s /\ pc[t] # "enter"
    BY <1>1, <1>2, <1>6 DEF Hand, Goto
  <2>7. \A t \in Senders : t # s => \A i \in DOMAIN batch[t] : batch[t][i] =< Len(handed)
    BY DEF Waiting
  <2>8. \A i \in DOMAIN Line : Line[i] =< Len(handed) /\ Line[i] =< Len(handed')
    BY <1>1, <1>4, <2>1 DEF Waiting
  <2>9. Waiting'
    <3>1. \A t \in Senders : pc'[t] # "enter" => batch'[t] = <<>>
      BY <2>4, <2>6 DEF Waiting
    <3>2. \A t \in Senders : \A i \in DOMAIN batch'[t] : batch'[t][i] =< Len(handed')
      BY <1>1, <1>5, <2>1, <2>4, <2>5, <2>7
    <3>. QED
      BY <2>2, <2>8, <3>1, <3>2 DEF Waiting
  <2>10. Apart'
    <3>1. \A i \in DOMAIN ps, j \in DOMAIN Line : ps[i] # Line[j]
      BY <1>1, <1>4, <2>5, <2>8
    <3>2. \A t \in Senders : t # s =>
            \A i \in DOMAIN ps, j \in DOMAIN batch[t] : ps[i] # batch[t][j]
      BY <1>1, <1>5, <2>5, <2>7
    <3>. QED
      BY <2>2, <2>4, <3>1, <3>2 DEF Apart
  <2>11. Once'
    <3>1. IsInjective(ps)
      BY <1>1, <2>1, <2>3 DEF IsInjective
    <3>. QED
      BY <2>2, <2>4, <3>1 DEF Once
  <2>. QED
    BY <2>9, <2>10, <2>11
<1>7. ASSUME NEW s \in Senders, Enter(s)
      PROVE  Waiting' /\ Apart' /\ Once'
  <2>1. Line' = Line \o batch[s] /\ batch[s] \in Seq(D)
    BY <1>7, EnterLine DEF D
  <2>2. batch' = [batch EXCEPT ![s] = <<>>] /\ UNCHANGED handed
    BY <1>7 DEF Enter
  <2>3. batch'[s] = <<>> /\ \A t \in Senders : t # s => batch'[t] = batch[t]
    BY <1>1, <2>2
  <2>4. \A t \in Senders : t # s /\ pc'[t] # "enter" => pc[t] # "enter"
    BY <1>1, <1>2, <1>7 DEF Enter, Take, Goto
  <2>5. /\ DOMAIN batch[s] = 1 .. Len(batch[s]) /\ Len(batch[s]) \in Nat
        /\ DOMAIN Line' = 1 .. Len(Line) + Len(batch[s])
        /\ \A i \in 1 .. Len(Line) + Len(batch[s]) :
             Line'[i] = IF i =< Len(Line) THEN Line[i] ELSE batch[s][i - Len(Line)]
    <3>1. Line \o batch[s] \in Seq(D) /\ Len(Line \o batch[s]) = Len(Line) + Len(batch[s])
      BY <1>3, <2>1, ConcatProperties
    <3>2. \A i \in 1 .. Len(Line) + Len(batch[s]) :
            (Line \o batch[s])[i] = IF i =< Len(Line) THEN Line[i] ELSE batch[s][i - Len(Line)]
      BY <1>3, <2>1, ConcatProperties
    <3>3. DOMAIN (Line \o batch[s]) = 1 .. Len(Line \o batch[s])
      BY <3>1, LenProperties
    <3>4. DOMAIN batch[s] = 1 .. Len(batch[s]) /\ Len(batch[s]) \in Nat
      BY <2>1, LenProperties
    <3>. QED
      BY <2>1, <3>1, <3>2, <3>3, <3>4
  <2>6. \A i \in DOMAIN Line' :
          \/ i \in DOMAIN Line /\ Line'[i] = Line[i]
          \/ \E k \in DOMAIN batch[s] : Line'[i] = batch[s][k]
    <3>1. SUFFICES ASSUME NEW i \in DOMAIN Line'
                   PROVE  \/ i \in DOMAIN Line /\ Line'[i] = Line[i]
                          \/ \E k \in DOMAIN batch[s] : Line'[i] = batch[s][k]
      OBVIOUS
    <3>2. CASE i =< Len(Line)
      BY <1>3, <2>5, <3>1, <3>2
    <3>3. CASE i > Len(Line)
      <4>1. i - Len(Line) \in DOMAIN batch[s] /\ Line'[i] = batch[s][i - Len(Line)]
        BY <1>3, <2>5, <3>1, <3>3
      <4>. QED
        BY <4>1
    <3>. QED
      BY <1>3, <2>5, <3>2, <3>3
  <2>7. Waiting'
    <3>1. \A t \in Senders : pc'[t] # "enter" => batch'[t] = <<>>
      BY <2>3, <2>4 DEF Waiting
    <3>2. \A i \in DOMAIN Line' : Line'[i] =< Len(handed)
      BY <2>6 DEF Waiting
    <3>3. \A t \in Senders : \A i \in DOMAIN batch'[t] : batch'[t][i] =< Len(handed)
      BY <2>3 DEF Waiting
    <3>. QED
      BY <2>2, <3>1, <3>2, <3>3 DEF Waiting
  <2>8. Apart'
    <3>1. \A t \in Senders : t # s =>
            \A i \in DOMAIN batch[t], j \in DOMAIN Line' : batch[t][i] # Line'[j]
      BY <2>6 DEF Apart
    <3>. QED
      BY <2>3, <3>1 DEF Apart
  <2>9. Once'
    <3>1. \A i \in DOMAIN Line, j \in DOMAIN batch[s] : Line[i] # batch[s][j]
      BY DEF Apart
    <3>2. IsInjective(Line) /\ IsInjective(batch[s])
      BY DEF Once
    <3>3. IsInjective(Line \o batch[s])
      BY <1>3, <2>1, <3>1, <3>2, InjectiveConcat
    <3>4. \A t \in Senders : IsInjective(batch'[t])
      BY <2>3 DEF Once, IsInjective
    <3>. QED
      BY <2>1, <3>3, <3>4 DEF Once
  <2>. QED
    BY <2>7, <2>8, <2>9
<1>8. ASSUME Line' = Line, UNCHANGED <<batch, handed>>,
             \A s \in Senders : pc[s] = "enter" => pc'[s] = "enter"
      PROVE  Waiting' /\ Apart' /\ Once'
  BY <1>8 DEF Waiting, Apart, Once
<1>. QED
  BY <1>6, <1>7, <1>8, OtherLine

(* What has been written has gone and stays so.                            *)
LEMMA GoneSet ==
  ASSUME TxTyped, NEW h \in DOMAIN Packets, Gone' = Append(Gone, h)
  PROVE  ToSet(Gone') = ToSet(Gone) \cup {h}
<1>1. Gone \in Seq(DOMAIN Packets)
  BY LineTyped
<1>2. /\ Len(Gone) \in Nat /\ DOMAIN Gone = 1 .. Len(Gone)
      /\ DOMAIN Gone' = 1 .. Len(Gone) + 1
      /\ \A i \in 1 .. Len(Gone) : Gone'[i] = Gone[i]
      /\ Gone'[Len(Gone) + 1] = h
  <2>1. /\ Append(Gone, h) \in Seq(DOMAIN Packets) /\ Len(Append(Gone, h)) = Len(Gone) + 1
        /\ \A i \in 1 .. Len(Gone) : Append(Gone, h)[i] = Gone[i]
        /\ Append(Gone, h)[Len(Gone) + 1] = h
    BY <1>1, AppendProperties
  <2>2. DOMAIN Append(Gone, h) = 1 .. Len(Append(Gone, h))
    BY <2>1, LenProperties
  <2>. QED
    BY <1>1, <2>1, <2>2, LenProperties
<1>3. \A i \in DOMAIN Gone' : i \in DOMAIN Gone \/ i = Len(Gone) + 1
  BY <1>2
<1>4. DOMAIN Gone \subseteq DOMAIN Gone' /\ Len(Gone) + 1 \in DOMAIN Gone'
  BY <1>2
<1>. QED
  BY <1>2, <1>3, <1>4 DEF ToSet

(* A packet is completed by one thread, once, after it has gone.           *)
LEMMA CompletionsStep ==
  TxTyped /\ Once /\ Completions /\ TxEffect => Completions'
<1>. SUFFICES ASSUME TxTyped, Once, Completions, TxEffect PROVE Completions'
  OBVIOUS
<1> DEFINE D == DOMAIN Packets
<1>1. /\ npkt \in [Threads -> Nat] /\ done \in [D -> Nat]
      /\ pc \in [Threads -> EventSteps \cup {"out", "enter"}]
  BY DEF TxTyped
<1>2. Gone \in Seq(D) /\ \A p \in ToSet(Gone) : p \in D
  <2>1. Gone \in Seq(D)
    BY LineTyped
  <2>. QED
    BY <2>1, LenProperties, ElementOfSeq DEF ToSet
<1>3. ASSUME UNCHANGED <<npkt, done>>, Gone' = Gone,
             \A t \in Threads : Completing(t)' => Completing(t)
      PROVE  Completions'
  BY <1>3 DEF Completions
<1>4. \A s \in Senders : s \in Threads
  BY DEF Threads
<1>5. ASSUME NEW s \in Senders, NEW n \in Batches, Hand(s, n) PROVE Completions'
  <2>1. \A t \in Threads : Completing(t)' => Completing(t)
    BY <1>1, <1>4, <1>5 DEF Hand, Goto, Completing
  <2>. QED
    BY <1>3, <1>5, <2>1 DEF Hand, Gone
<1>6. ASSUME NEW s \in Senders, Enter(s) PROVE Completions'
  <2>1. \A t \in Threads : Completing(t)' => Completing(t)
    BY <1>1, <1>4, <1>6 DEF Enter, Take, Goto, Completing
  <2>. QED
    BY <1>3, <1>6, <2>1 DEF Enter, Gone
<1>7. ASSUME NEW t \in Threads, Send(t) PROVE Completions'
  <2> DEFINE h == Head(queue)
  <2>1. queue # <<>> /\ h \in D /\ Gone' = Append(Gone, h)
    BY <1>7, SendLine
  <2>2. ToSet(Gone') = ToSet(Gone) \cup {h}
    BY <2>1, GoneSet
  <2>3. h \notin ToSet(Gone)
    <3>1. /\ Len(Gone) \in Nat /\ DOMAIN Gone = 1 .. Len(Gone) /\ Len(queue) \in Nat /\ Len(queue) >= 1
      <4>1. queue \in Seq(D)
        BY DEF TxTyped
      <4>. QED
        BY <1>2, <2>1, <4>1, LenProperties, EmptySeq
    <3>2. h = queue[1]
      BY <2>1 DEF TxTyped
    <3>3. /\ DOMAIN Line = 1 .. Len(Gone) + Len(queue) /\ Line[Len(Gone) + 1] = h
          /\ \A i \in 1 .. Len(Gone) : Line[i] = Gone[i]
      <4>1. 1 \in 1 .. Len(queue)
        BY <3>1
      <4>2. /\ Line \in Seq(D) /\ Len(Line) = Len(Gone) + Len(queue)
            /\ \A i \in 1 .. Len(Gone) : Line[i] = Gone[i]
            /\ \A i \in 1 .. Len(queue) : Line[Len(Gone) + i] = queue[i]
        BY LineTyped
      <4>3. DOMAIN Line = 1 .. Len(Line)
        BY <4>2, LenProperties
      <4>. QED
        BY <3>2, <4>1, <4>2, <4>3
    <3>4. \A i \in 1 .. Len(Gone) : i \in DOMAIN Line /\ Len(Gone) + 1 \in DOMAIN Line /\ i # Len(Gone) + 1
      BY <3>1, <3>3
    <3>5. \A i \in 1 .. Len(Gone) : Gone[i] # h
      BY <3>3, <3>4 DEF Once, IsInjective
    <3>. QED
      BY <3>1, <3>5 DEF ToSet
  <2>4. done[h] = 0
    BY <1>1, <2>1, <2>3 DEF Completions
  <2>5. npkt' = [npkt EXCEPT ![t] = h] /\ done' = done /\ pc' = [pc EXCEPT ![t] = "tx_done"]
    BY <1>7 DEF Send, Goto
  <2> HIDE DEF h
  <2>6. npkt'[t] = h /\ \A u \in Threads : u # t => npkt'[u] = npkt[u] /\ pc'[u] = pc[u]
    BY <1>1, <2>5
  <2>7. \A u \in Threads : u # t /\ Completing(u)' => Completing(u) /\ npkt'[u] \in ToSet(Gone)
    BY <2>6 DEF Completing, Completions
  <2>8. \A u \in Threads : Completing(u)' => npkt'[u] \in ToSet(Gone') /\ done'[npkt'[u]] = 0
    BY <2>2, <2>4, <2>5, <2>6, <2>7 DEF Completions
  <2>9. \A u, v \in Threads : Completing(u)' /\ Completing(v)' /\ npkt'[u] = npkt'[v] => u = v
    BY <2>3, <2>6, <2>7 DEF Completions
  <2>10. \A p \in D : done'[p] =< 1 /\ (done'[p] = 1 => p \in ToSet(Gone'))
    BY <2>2, <2>5 DEF Completions
  <2>. QED
    BY <2>8, <2>9, <2>10 DEF Completions
<1>8. ASSUME NEW t \in Threads, TxDone(t) PROVE Completions'
  <2> DEFINE p == npkt[t]
  <2>1. Completing(t) /\ p \in ToSet(Gone) /\ p \in D /\ done[p] = 0
    BY <1>2, <1>8 DEF TxDone, Completing, Completions
  <2>2. /\ Gone' = Gone /\ done' = [done EXCEPT ![p] = @ + 1]
        /\ npkt' = [npkt EXCEPT ![t] = 0] /\ pc' = [pc EXCEPT ![t] = "relock"]
    BY <1>8 DEF TxDone, Goto, Gone
  <2>3. done'[p] = 1 /\ \A q \in D : q # p => done'[q] = done[q]
    BY <1>1, <2>1, <2>2
  <2>4. \A u \in Threads : Completing(u)' => u # t /\ Completing(u) /\ npkt'[u] = npkt[u] /\ npkt[u] # p
    BY <1>1, <2>1, <2>2 DEF Completing, Completions
  <2> HIDE DEF p
  <2>5. \A u \in Threads : Completing(u)' => npkt'[u] \in ToSet(Gone') /\ done'[npkt'[u]] = 0
    BY <1>2, <2>2, <2>3, <2>4 DEF Completions
  <2>6. \A u, v \in Threads : Completing(u)' /\ Completing(v)' /\ npkt'[u] = npkt'[v] => u = v
    BY <2>4 DEF Completions
  <2>7. \A q \in D : done'[q] =< 1 /\ (done'[q] = 1 => q \in ToSet(Gone'))
    <3>1. SUFFICES ASSUME NEW q \in D PROVE done'[q] =< 1 /\ (done'[q] = 1 => q \in ToSet(Gone'))
      OBVIOUS
    <3>2. CASE q = p
      BY <2>1, <2>2, <2>3, <3>2
    <3>3. CASE q # p
      BY <2>2, <2>3, <3>3 DEF Completions
    <3>. QED
      BY <3>2, <3>3
  <2>. QED
    BY <2>5, <2>6, <2>7 DEF Completions
<1>9. CASE HwSend
  BY <1>3, <1>9, HwSendLine DEF HwSend, Completing
<1>10. CASE TxSame /\ Elsewhere
  <2>1. \A t \in Threads : Completing(t)' => Completing(t)
    BY <1>1, <1>10 DEF Elsewhere, Completing
  <2>. QED
    BY <1>3, <1>10, <2>1 DEF TxSame, Gone
<1>. QED
  BY <1>5, <1>6, <1>7, <1>8, <1>9, <1>10 DEF TxEffect

(* What is written fits into the data FIFO.                                *)
LEMMA RoomStep == TxTyped /\ Room /\ TxEffect => Room'
<1>. SUFFICES ASSUME TxTyped, Room, TxEffect PROVE Room'
  OBVIOUS
<1>1. txfifo \in Seq(DOMAIN Packets) /\ TxBytes \in Nat
  BY SmcAssumption DEF TxTyped
<1>2. ASSUME NEW t \in Threads, Send(t) PROVE Room'
  <2>1. /\ Head(queue) \in DOMAIN Packets /\ txfifo' = Append(txfifo, Head(queue))
        /\ TxBytes - Used >= Asked[Head(queue)]
    BY <1>2, SendLine DEF Send, CanSend
  <2>2. Used' = Used + Written[Head(queue)] /\ Used \in Int
    BY <1>1, <2>1, UsedAppend
  <2>3. /\ Written[Head(queue)] \in Nat /\ Asked[Head(queue)] \in Nat
        /\ Written[Head(queue)] =< Asked[Head(queue)]
    BY <2>1, WrittenFits
  <2>. QED
    BY <1>1, <2>1, <2>2, <2>3 DEF Room
<1>3. CASE HwSend
  <2>1. Used' =< Used /\ Used' \in Int /\ Used \in Int
    BY <1>1, <1>3, UsedTail DEF HwSend
  <2>. QED
    BY <1>1, <2>1 DEF Room
<1>4. ASSUME UNCHANGED txfifo PROVE Room'
  BY <1>4 DEF Room, Used
<1>5. ASSUME NEW s \in Senders, Enter(s) \/ \E n \in Batches : Hand(s, n) PROVE Room'
  BY <1>4, <1>5 DEF Enter, Hand
<1>6. ASSUME NEW t \in Threads, TxDone(t) PROVE Room'
  BY <1>4, <1>6 DEF TxDone
<1>7. CASE TxSame
  BY <1>4, <1>7 DEF TxSame
<1>. QED
  BY <1>2, <1>3, <1>5, <1>6, <1>7 DEF TxEffect

TxInv == TxTyped /\ Waiting /\ Apart /\ Once /\ Completions /\ Room

(* The transmit side keeps its invariant.                                  *)
LEMMA TxStep == TxInv /\ [Next]_vars => TxInv'
  BY TxEffects, TypedStep, PlacesStep, CompletionsStep, RoomStep DEF TxInv

(* Nothing is on its way at first.                                         *)
LEMMA TxInit == Init => TxInv
<1>. SUFFICES ASSUME Init PROVE TxInv
  OBVIOUS
<1>1. /\ queue = <<>> /\ handed = <<>> /\ txfifo = <<>> /\ sent = <<>>
      /\ batch = [s \in Senders |-> <<>>] /\ npkt = [t \in Threads |-> 0]
      /\ done = [p \in DOMAIN Packets |-> 0]
      /\ pc = [t \in Threads |-> IF t = Event THEN "receive" ELSE "out"]
  BY DEF Init
<1>2. Gone = <<>> /\ Line = <<>>
  BY <1>1 DEF Gone, Line
<1>3. \A t \in Threads : pc[t] \in {"receive", "out"}
  BY <1>1
<1>4. \A t \in Threads : pc[t] \in Steps(t) /\ ~Completing(t)
  BY <1>1 DEF Steps, EventSteps, Completing
<1>5. TxTyped
  BY <1>1, <1>3, <1>4 DEF TxTyped, EventSteps
<1>6. Waiting /\ Apart /\ Once
  BY <1>1, <1>2 DEF Waiting, Apart, Once, IsInjective
<1>7. Completions
  BY <1>1, <1>4 DEF Completions
<1>8. Room
  <2> DEFINE f == [i \in DOMAIN txfifo |-> Written[txfifo[i]]]
  <2>1. f \in [1 .. 0 -> Int]
    BY <1>1
  <2>2. Used = SumFunction(f)
    BY DEF Used
  <2> HIDE DEF f
  <2>3. PICK p : Sums(f, 0, p)
    BY <2>1, PrefixSums
  <2>. QED
    BY <2>2, <2>3, SmcAssumption DEF Sums, Room
<1>. QED
  BY <1>5, <1>6, <1>7, <1>8 DEF TxInv

(* The threads of io-net leave the event thread where it is.               *)
LEMMA SenderMoves ==
  ASSUME TxTyped, NEW s \in Senders, NEW p, pc' = [pc EXCEPT ![s] = p]
  PROVE  pc'[Event] = pc[Event]
<1>1. Event \in Threads /\ s \in Threads /\ s # Event
  BY SmcAssumption DEF Threads
<1>2. pc \in [Threads -> EventSteps \cup {"out", "enter"}]
  BY DEF TxTyped
<1>. QED
  BY <1>1, <1>2

(* The event thread goes where its step sends it.                          *)
LEMMA EventMoves ==
  ASSUME TxTyped, NEW p, pc' = [pc EXCEPT ![Event] = p]
  PROVE  pc'[Event] = p
<1>1. Event \in Threads
  BY DEF Threads
<1>2. pc \in [Threads -> EventSteps \cup {"out", "enter"}]
  BY DEF TxTyped
<1>. QED
  BY <1>1, <1>2

(* What a step does to the interrupt and to where the event thread is:     *)
(* nothing that matters, or one of the steps that serve it.                *)
Idle == pc[Event] = "receive"

MaskingSame ==
  /\ mutex' \in Threads \cup {Free}
  /\ INT_STS' \subseteq {"RSFL", "TX_IOC"} /\ istat' \subseteq {"RSFL", "TX_IOC"}
  /\ UNCHANGED <<masked, pulses>> /\ Idle' = Idle

(* Every step is one of these.                                             *)
LEMMA MaskingEffect ==
  ASSUME TxTyped, Masking, [Next]_vars
  PROVE  MaskingSame \/ Pulse \/ Served \/ HwInterrupt
<1>1. /\ mutex \in Threads \cup {Free} /\ Event \in Threads
      /\ INT_STS \subseteq {"RSFL", "TX_IOC"} /\ istat \subseteq {"RSFL", "TX_IOC"}
  BY DEF Masking, Threads
<1>2. ASSUME NEW s \in Senders, Enter(s) \/ \E n \in Batches : Hand(s, n) PROVE MaskingSame
  <2>1. /\ \E p : pc' = [pc EXCEPT ![s] = p]
        /\ mutex' \in Threads \cup {Free} /\ UNCHANGED irqVars
    BY <1>1, <1>2 DEF Enter, Hand, Take, Goto, Threads
  <2>2. pc'[Event] = pc[Event]
    BY <2>1, SenderMoves
  <2>. QED
    BY <1>1, <2>1, <2>2 DEF MaskingSame, Idle, irqVars
<1>3. ASSUME NEW t \in Threads, Sending(t) PROVE MaskingSame
  <2> DEFINE To(p) == pc' = [pc EXCEPT ![t] = p]
  <2>1. To("tx_done") \/ To("relock") \/ To("send") \/ To("recheck") \/ To("out")
    BY <1>3 DEF Sending, Send, TxDone, Relock, SendEnds, Take, Goto
  <2>2. /\ mutex' \in Threads \cup {Free} /\ UNCHANGED irqVars
        /\ pc[t] # "receive"
    BY <1>1, <1>3 DEF Sending, Send, TxDone, Relock, SendEnds, Take
  <2>3. CASE t \in Senders
    <3>1. pc'[Event] = pc[Event]
      BY <2>1, <2>3, SenderMoves
    <3>. QED
      BY <1>1, <2>2, <3>1 DEF MaskingSame, Idle, irqVars
  <2>4. CASE t = Event
    <3>1. pc'[Event] # "receive" /\ pc[Event] # "receive"
      BY <2>1, <2>4, <2>2, EventMoves
    <3>. QED
      BY <1>1, <2>2, <3>1 DEF MaskingSame, Idle, irqVars
  <2>. QED
    BY <2>3, <2>4 DEF Threads
<1>4. \A bits : Cleared(bits) \subseteq {"RSFL", "TX_IOC"}
  BY <1>1 DEF Cleared
<1>5. ASSUME NEW p, Goto(Event, p), p # "receive", pc[Event] # "receive",
             mutex' \in Threads \cup {Free}, UNCHANGED <<masked, pulses>>,
             INT_STS' = INT_STS \/ (\E bits : INT_STS' = Cleared(bits)),
             istat' = istat \/ istat' = INT_STS
      PROVE  MaskingSame
  <2>1. pc'[Event] = p
    BY <1>5, EventMoves DEF Goto
  <2>. QED
    BY <1>1, <1>4, <1>5, <2>1 DEF MaskingSame, Idle
<1>6. CASE Serving
  <2>1. CASE Recheck \/ Clear \/ TxIoc
    BY <1>1, <1>5, <2>1 DEF Recheck, Clear, TxIoc
  <2>2. CASE Kick \/ RxTest \/ RxPop \/ RxDrop
    BY <1>1, <1>5, <2>2 DEF Kick, RxTest, RxPop, RxDrop, irqVars
  <2>3. CASE Up \/ TxUp \/ RxRelock \/ RxEnds
    BY <1>1, <1>5, <2>3 DEF Up, TxUp, RxRelock, RxEnds, GoOn, Take, irqVars
  <2>4. CASE CompleteHere \/ KeepHere
    BY <1>1, <1>5, <2>4 DEF CompleteHere, KeepHere, irqVars
  <2>. QED
    BY <1>6, <2>1, <2>2, <2>3, <2>4 DEF Serving
<1>7. ASSUME NEW u \in Uppers, Complete(u) \/ Keep(u) PROVE MaskingSame
  BY <1>1, <1>7 DEF Complete, Keep, MaskingSame, Idle, irqVars
<1>8. CASE HwSend \/ HwReceive
  BY <1>1, <1>8 DEF HwSend, HwReceive, MaskingSame, Idle
<1>9. CASE UNCHANGED vars
  BY <1>1, <1>9 DEF vars, irqVars, MaskingSame, Idle
<1>. QED
  BY <1>2, <1>3, <1>6, <1>7, <1>8, <1>9 DEF Next

(* The interrupt is masked from its pulse on until it has been served.     *)
LEMMA MaskingStep == TxTyped /\ Masking /\ [Next]_vars => Masking'
<1>. SUFFICES ASSUME TxTyped, Masking, [Next]_vars PROVE Masking'
  OBVIOUS
<1>1. Event \in Threads
  BY DEF Threads
<1>2. CASE MaskingSame
  BY <1>2 DEF Masking, MaskingSame, Idle
<1>3. CASE Pulse
  <2>1. /\ pulses > 0 /\ pulses' = pulses - 1 /\ mutex' = Event
        /\ UNCHANGED <<INT_STS, istat, masked>> /\ pc'[Event] = "recheck"
    BY <1>3, EventMoves DEF Pulse, Take, Goto
  <2>. QED
    BY <1>1, <2>1 DEF Masking
<1>4. CASE Served
  <2>1. /\ masked' = FALSE /\ mutex' = Free /\ UNCHANGED <<INT_STS, istat, pulses>>
        /\ pc[Event] = "kick" /\ pc'[Event] = "receive"
    BY <1>4, EventMoves DEF Served, Unmasked, Goto
  <2>. QED
    BY <2>1 DEF Masking
<1>5. CASE HwInterrupt
  <2>1. /\ masked = FALSE /\ masked' = TRUE /\ pulses' = pulses + 1
        /\ UNCHANGED <<INT_STS, istat, mutex, pc>>
    BY <1>5 DEF HwInterrupt, Masking
  <2>. QED
    BY <2>1 DEF Masking
<1>. QED
  BY <1>2, <1>3, <1>4, <1>5, MaskingEffect

(* What a step does to the chain of packets received.                      *)
ChainSame ==
  /\ rxq' = rxq
  /\ \/ pc'[Event] = pc[Event]
     \/ rxq = <<>>
     \/ pc[Event] \in Receiving \ {"up"} /\ pc'[Event] \in Receiving

(* Only RxPop and Up change the chain; the event thread comes to read      *)
(* another frame into it from where it has room.                           *)
LEMMA ChainEffect ==
  ASSUME TxTyped, Chained, [Next]_vars
  PROVE  ChainSame \/ RxPop \/ Up
<1>1. ASSUME NEW s \in Senders, Enter(s) \/ \E n \in Batches : Hand(s, n) PROVE ChainSame
  <2>1. (\E p : pc' = [pc EXCEPT ![s] = p]) /\ UNCHANGED rxVars
    BY <1>1 DEF Enter, Hand, Take, Goto
  <2>. QED
    BY <2>1, SenderMoves DEF ChainSame, rxVars
<1>2. ASSUME NEW t \in Threads, Sending(t) PROVE ChainSame
  <2>1. /\ \E p : pc' = [pc EXCEPT ![t] = p]
        /\ pc[t] \notin Receiving /\ UNCHANGED rxVars
    BY <1>2 DEF Sending, Send, TxDone, Relock, SendEnds, Take, Goto, Receiving
  <2>2. CASE t \in Senders
    BY <2>1, <2>2, SenderMoves DEF ChainSame, rxVars
  <2>3. CASE t = Event
    BY <2>1, <2>3 DEF ChainSame, Chained, rxVars
  <2>. QED
    BY <2>2, <2>3 DEF Threads
<1>3. CASE Pulse \/ Recheck \/ Clear \/ TxIoc \/ Kick \/ Served
  <2>1. pc[Event] \notin Receiving /\ UNCHANGED rxVars
    BY <1>3 DEF Pulse, Recheck, Clear, TxIoc, Kick, Served, Take, Receiving
  <2>. QED
    BY <2>1 DEF ChainSame, Chained, rxVars
<1>4. CASE RxEnds
  BY <1>4 DEF RxEnds, ChainSame, rxVars
<1>5. CASE RxTest \/ RxDrop \/ TxUp \/ RxRelock \/ CompleteHere \/ KeepHere
  <2>1. /\ pc[Event] \in Receiving \ {"up"} /\ rxq' = rxq
        /\ \E p \in Receiving : pc' = [pc EXCEPT ![Event] = p]
    BY <1>5 DEF RxTest, RxDrop, TxUp, RxRelock, GoOn, CompleteHere, KeepHere, Take,
                Goto, Receiving, rxVars
  <2>2. pc'[Event] \in Receiving
    BY <2>1, EventMoves
  <2>. QED
    BY <2>1, <2>2 DEF ChainSame
<1>6. ASSUME NEW u \in Uppers, Complete(u) \/ Keep(u) PROVE ChainSame
  BY <1>6 DEF Complete, Keep, ChainSame
<1>7. CASE HwSend \/ HwReceive \/ HwInterrupt \/ UNCHANGED vars
  BY <1>7 DEF HwSend, HwReceive, HwInterrupt, vars, rxVars, ChainSame
<1>. QED
  BY <1>1, <1>2, <1>3, <1>4, <1>5, <1>6, <1>7 DEF Next, Serving

(* The chain keeps its limit: room for one more is left wherever a frame   *)
(* can be read into it.                                                    *)
LEMMA ChainStep == TxTyped /\ Chained /\ [Next]_vars => Chained'
<1>. SUFFICES ASSUME TxTyped, Chained, [Next]_vars PROVE Chained'
  OBVIOUS
<1>. DEFINE S == {rxq[i] : i \in 1 .. Len(rxq)}
<1>1. MaxBuffered \in Nat \ {0} /\ Len(rxq) \in Nat /\ rxq \in Seq(S)
  <2>1. rxq \in [1 .. Len(rxq) -> S]
    BY DEF Chained
  <2>2. MaxBuffered \in Nat \ {0}
    BY SmcAssumption
  <2>3. Len(rxq) \in Nat
    BY DEF Chained
  <2>. QED
    BY <2>1, <2>2, <2>3
<1>2. CASE ChainSame
  <2>1. CASE rxq = <<>>
    <3>1. rxq' = <<>> /\ Len(rxq) = 0
      BY <1>2, <2>1 DEF ChainSame
    <3>. QED
      BY <1>1, <2>1, <3>1 DEF Chained
  <2>2. CASE pc'[Event] = pc[Event]
    BY <1>2, <2>2 DEF Chained, ChainSame
  <2>3. CASE pc[Event] \in Receiving \ {"up"} /\ pc'[Event] \in Receiving
    BY <1>2, <2>3 DEF Chained, ChainSame
  <2>. QED
    BY <1>2, <2>1, <2>2, <2>3 DEF ChainSame
<1>3. CASE RxPop
  <2>1. PICK x, p : /\ rxq' = Append(rxq, x) /\ pc' = [pc EXCEPT ![Event] = p]
                    /\ p = IF Len(rxq) + 1 = MaxBuffered THEN "up" ELSE "rx"
    BY <1>3 DEF RxPop, ChainFull, Goto
  <2>2. pc[Event] \in Receiving \ {"up"}
    BY <1>3 DEF RxPop, Receiving
  <2>3. pc'[Event] \in Receiving /\ pc'[Event] = p
    BY <2>1, EventMoves DEF Receiving
  <2>4. rxq' \in Seq(S \cup {x}) /\ Len(rxq') = Len(rxq) + 1
    <3>1. rxq \in Seq(S \cup {x}) /\ x \in S \cup {x}
      BY <1>1
    <3>. QED
      BY <2>1, <3>1, AppendProperties
  <2>5. rxq' = [i \in 1 .. Len(rxq') |-> rxq'[i]]
    BY <2>4
  <2>6. Len(rxq) < MaxBuffered
    BY <2>2 DEF Chained
  <2>. QED
    BY <1>1, <2>1, <2>3, <2>4, <2>5, <2>6 DEF Chained
<1>4. CASE Up
  <2>1. /\ rxq # <<>> /\ rxq' = Tail(rxq) /\ pc'[Event] = "tx_up"
    BY <1>4, EventMoves DEF Up, Goto
  <2>2. rxq' \in Seq(S) /\ Len(rxq') = Len(rxq) - 1
    BY <1>1, <2>1, HeadTailProperties
  <2>3. rxq' = [i \in 1 .. Len(rxq') |-> rxq'[i]]
    BY <2>2
  <2>4. Len(rxq) =< MaxBuffered
    BY DEF Chained
  <2>. QED
    BY <1>1, <2>1, <2>2, <2>3, <2>4 DEF Chained, Receiving
<1>. QED
  BY <1>2, <1>3, <1>4, ChainEffect

(* Free packets are counted: one more or one fewer, and never below none.  *)
LEMMA CountStep == Counted /\ [Next]_vars => Counted'
<1>. SUFFICES ASSUME Counted, [Next]_vars PROVE Counted'
  OBVIOUS
<1>1. ASSUME NEW u \in Uppers, Complete(u) PROVE Counted'
  <2>1. /\ held \in Nat /\ held > 0 /\ held' = held - 1 /\ num_rx_free' = num_rx_free
        /\ \E p \in {"out", "keep"} : upper' = [upper EXCEPT ![u] = p]
    BY <1>1 DEF Complete, Counted
  <2>. QED
    BY <2>1 DEF Counted
<1>2. ASSUME NEW u \in Uppers, Keep(u) PROVE Counted'
  BY <1>2 DEF Keep, Counted
<1>3. CASE RxPop
  BY <1>3 DEF RxPop, Grabbed, Counted
<1>4. CASE TxUp
  BY <1>4 DEF TxUp, Counted
<1>5. CASE KeepHere
  BY <1>5 DEF KeepHere, Counted
<1>. DEFINE Same == UNCHANGED <<num_rx_free, held, upper>>
<1>6. ASSUME NEW s \in Senders, Enter(s) \/ \E n \in Batches : Hand(s, n) PROVE Same
  BY <1>6 DEF Enter, Hand, rxVars
<1>7. ASSUME NEW t \in Threads, Sending(t) PROVE Same
  BY <1>7 DEF Sending, Send, TxDone, Relock, SendEnds, rxVars
<1>8. ASSUME Pulse \/ Recheck \/ Clear \/ TxIoc \/ Kick \/ Served PROVE Same
  BY <1>8 DEF Pulse, Recheck, Clear, TxIoc, Kick, Served, rxVars
<1>9. ASSUME RxTest \/ RxDrop \/ Up \/ RxRelock \/ RxEnds \/ CompleteHere PROVE Same
  BY <1>9 DEF RxTest, RxDrop, Up, RxRelock, RxEnds, CompleteHere, rxVars
<1>10. ASSUME HwSend \/ HwReceive \/ HwInterrupt \/ UNCHANGED vars PROVE Same
  BY <1>10 DEF HwSend, HwReceive, HwInterrupt, vars, rxVars
<1>11. Same => Counted'
  BY DEF Counted
<1>. HIDE DEF Same
<1>. QED
  BY <1>1, <1>2, <1>3, <1>4, <1>5, <1>6, <1>7, <1>8, <1>9, <1>10, <1>11
     DEF Next, Serving

(* Nothing happens to the frames.                                          *)
RxSame == UNCHANGED <<rxsts, rxdata, arrived, rxq, passed, fails>>

(* Every step is one of these five.                                        *)
LEMMA RxEffect == [Next]_vars => RxSame \/ RxPop \/ RxDrop \/ Up \/ HwReceive
<1>. SUFFICES ASSUME [Next]_vars PROVE RxSame \/ RxPop \/ RxDrop \/ Up \/ HwReceive
  OBVIOUS
<1>1. ASSUME NEW s \in Senders, Enter(s) \/ \E n \in Batches : Hand(s, n) PROVE RxSame
  BY <1>1 DEF Enter, Hand, rxVars, RxSame
<1>2. ASSUME NEW t \in Threads, Sending(t) PROVE RxSame
  BY <1>2 DEF Sending, Send, TxDone, Relock, SendEnds, rxVars, RxSame
<1>3. ASSUME Pulse \/ Recheck \/ Clear \/ TxIoc \/ Kick \/ Served PROVE RxSame
  BY <1>3 DEF Pulse, Recheck, Clear, TxIoc, Kick, Served, rxVars, RxSame
<1>4. ASSUME RxTest \/ TxUp \/ RxRelock \/ RxEnds \/ CompleteHere \/ KeepHere PROVE RxSame
  BY <1>4 DEF RxTest, TxUp, RxRelock, RxEnds, CompleteHere, KeepHere, rxVars, RxSame
<1>5. ASSUME NEW u \in Uppers, Complete(u) \/ Keep(u) PROVE RxSame
  BY <1>5 DEF Complete, Keep, RxSame
<1>6. ASSUME HwSend \/ HwInterrupt \/ UNCHANGED vars PROVE RxSame
  BY <1>6 DEF HwSend, HwInterrupt, vars, rxVars, RxSame
<1>. QED
  BY <1>1, <1>2, <1>3, <1>4, <1>5, <1>6 DEF Next, Serving

(* The event thread comes to "pop" by a test that found a status.          *)
LEMMA PopReached ==
  ASSUME TxTyped, [Next]_vars, pc'[Event] = "pop"
  PROVE  \/ rxsts # <<>> /\ rxsts' = rxsts
         \/ pc[Event] = "pop" /\ (RxSame \/ HwReceive)
<1>. DEFINE Before == pc[Event] = "pop" /\ RxSame
<1>1. ASSUME NEW s \in Senders, Enter(s) \/ \E n \in Batches : Hand(s, n) PROVE Before
  <2>1. (\E p : pc' = [pc EXCEPT ![s] = p]) /\ UNCHANGED rxVars
    BY <1>1 DEF Enter, Hand, Take, Goto
  <2>. QED
    BY <2>1, SenderMoves DEF rxVars, RxSame
<1>2. ASSUME NEW t \in Threads, Sending(t) PROVE Before
  <2>1. (\E p : p # "pop" /\ pc' = [pc EXCEPT ![t] = p]) /\ UNCHANGED rxVars
    BY <1>2 DEF Sending, Send, TxDone, Relock, SendEnds, Take, Goto
  <2>2. t # Event
    BY <2>1, EventMoves
  <2>. QED
    BY <2>1, <2>2, SenderMoves DEF rxVars, RxSame, Threads
<1>3. ASSUME NEW p, p # "pop", Goto(Event, p) PROVE FALSE
  BY <1>3, EventMoves DEF Goto
<1>4. ASSUME Pulse \/ Recheck \/ Clear \/ TxIoc \/ Kick \/ Served PROVE FALSE
  BY <1>3, <1>4 DEF Pulse, Recheck, Clear, TxIoc, Kick, Served, Take
<1>5. ASSUME RxPop \/ RxDrop \/ Up \/ TxUp \/ RxRelock \/ RxEnds \/ CompleteHere \/ KeepHere
      PROVE  FALSE
  BY <1>3, <1>5 DEF RxPop, RxDrop, Up, TxUp, RxRelock, RxEnds, CompleteHere, KeepHere,
     Take,
                    GoOn
<1>6. ASSUME RxTest PROVE rxsts # <<>> /\ rxsts' = rxsts
  <2>1. pc'[Event] = IF "RSFL" \in INT_STS /\ rxsts # <<>> THEN "pop" ELSE "up"
    BY <1>6, EventMoves DEF RxTest, Goto
  <2>. QED
    BY <1>6, <2>1 DEF RxTest, rxVars
<1>7. ASSUME NEW u \in Uppers, Complete(u) \/ Keep(u) PROVE Before
  BY <1>7 DEF Complete, Keep, RxSame
<1>8. ASSUME HwSend \/ HwInterrupt \/ UNCHANGED vars PROVE Before
  BY <1>8 DEF HwSend, HwInterrupt, vars, rxVars, RxSame
<1>9. ASSUME HwReceive PROVE pc[Event] = "pop"
  BY <1>9 DEF HwReceive
<1>. HIDE DEF Before
<1>10. Before => pc[Event] = "pop" /\ RxSame
  BY DEF Before
<1>. QED
  BY <1>1, <1>2, <1>4, <1>5, <1>6, <1>7, <1>8, <1>9, <1>10 DEF Next, Serving

(* The words of the frame whose status is read are passed on whole; those  *)
(* of the next frame are now the first.                                    *)
LEMMA PopStream ==
  ASSUME TxTyped, RxTyped, NEW fs, NEW at, Stream(fs, at), RxPop
  PROVE  RxTyped' /\ Stream(fs, at)'
<1> DEFINE W == Nat \X Nat
           m == Len(Popped)
           n == Len(fs)
           c == Head(rxsts)
           x == SubSeq(rxdata, 1, c)
           g == fs[m + 1]
<1>1. /\ rxsts # <<>> /\ rxsts' = Tail(rxsts) /\ rxq' = Append(rxq, x)
      /\ rxdata' = SubSeq(rxdata, c + 1, Len(rxdata)) /\ UNCHANGED <<arrived, passed>>
  BY DEF RxTyped, RxPop, NumReads
<1>2. /\ rxsts \in Seq(Nat) /\ rxdata \in Seq(W) /\ rxq \in Seq(Seq(W))
      /\ passed \in Seq(Seq(W)) /\ arrived \in 0 .. Len(Frames)
  BY DEF RxTyped
<1>3. Popped \in Seq(Seq(W)) /\ m \in Nat
  BY <1>2, ConcatProperties DEF Popped
<1>4. /\ fs \in Seq(1 .. arrived) /\ Len(fs) = n /\ n = m + Len(rxsts) /\ n \in Nat
      /\ \A i, j \in 1 .. n : i < j => fs[i] < fs[j]
      /\ \A i \in 1 .. m : Popped[i] = Whole(fs[i])
      /\ \A i \in 1 .. n - m : rxsts[i] = Frames[fs[m + i]]
  BY DEF Stream
<1>5. /\ at \in [1 .. n + 1 -> Nat]
      /\ \A i \in 1 .. n : at[i + 1] = at[i] + Frames[fs[i]]
      /\ \A i, j \in 1 .. n + 1 : i =< j => at[i] =< at[j]
      /\ Len(rxdata) = at[n + 1] - at[m + 1]
  BY DEF Stream
<1>6. \A i \in m + 1 .. n : \A k \in 1 .. Frames[fs[i]] :
           rxdata[at[i] - at[m + 1] + k] = <<fs[i], k>>
  BY DEF Stream
<1>. HIDE DEF m, n
<1>7. \A i \in 1 .. n : fs[i] \in 1 .. arrived /\ fs[i] \in Nat /\ Frames[fs[i]] \in Nat
  <2>1. Frames \in Seq(Nat \ {0})
    BY SmcAssumption
  <2>2. \A f \in 1 .. Len(Frames) : Frames[f] \in Nat
    BY <2>1
  <2>3. \A i \in 1 .. n : fs[i] \in 1 .. arrived
    <3>1. fs \in Seq(1 .. arrived) /\ Len(fs) = n
      BY <1>4
    <3>2. fs \in [1 .. n -> 1 .. arrived]
      BY <3>1, LenProperties
    <3>. QED
      BY <3>2
  <2>. QED
    BY <1>2, <2>1, <2>2, <2>3
<1>8. /\ Len(rxsts') = Len(rxsts) - 1 /\ Len(rxsts) >= 1 /\ Len(rxsts) \in Nat
      /\ rxsts' \in Seq(Nat)
      /\ \A i \in 1 .. Len(rxsts) - 1 : rxsts'[i] = rxsts[i + 1]
  BY <1>1, <1>2, HeadTailProperties, EmptySeq
<1>9. c = Frames[g] /\ c \in Nat /\ m + 1 \in 1 .. n /\ g \in Nat
  <2>1. c = rxsts[1]
    BY <1>2
  <2>2. 1 \in 1 .. n - m /\ m + 1 \in 1 .. n
    BY <1>3, <1>4, <1>8
  <2>. QED
    BY <1>4, <1>7, <2>1, <2>2
<1>. HIDE DEF c
<1>10. /\ m + 1 \in 1 .. n + 1 /\ m + 2 \in 1 .. n + 1 /\ n + 1 \in 1 .. n + 1
       /\ m + 2 =< n + 1 /\ (m + 1) + 1 = m + 2
  BY <1>3, <1>4, <1>9
<1>11. at[m + 2] = at[m + 1] + c /\ at[m + 2] =< at[n + 1]
  <2>1. at[(m + 1) + 1] = at[m + 1] + Frames[fs[m + 1]]
    BY <1>5, <1>9
  <2>2. at[m + 2] =< at[n + 1]
    BY <1>5, <1>10
  <2>. QED
    BY <1>9, <1>10, <2>1, <2>2
<1>12. at[m + 1] \in Nat /\ at[m + 2] \in Nat /\ at[n + 1] \in Nat
  BY <1>5, <1>10
<1>13. Len(rxdata) = at[n + 1] - at[m + 1]
  BY <1>5
<1>14. c =< Len(rxdata) /\ Len(rxdata) \in Nat
  <2> DEFINE u == at[m + 1]  v == at[m + 2]  w == at[n + 1]
  <2>1. Len(rxdata) = w - u /\ v = u + c /\ v =< w /\ u \in Nat /\ v \in Nat /\ w \in Nat
        /\ c \in Nat
    BY <1>9, <1>11, <1>12, <1>13
  <2>. HIDE DEF u, v, w
  <2>. QED
    BY <2>1
<1>. HIDE DEF g
<1>15. x \in Seq(W) /\ Len(x) = c /\ \A k \in 1 .. c : x[k] = rxdata[k]
  <2>1. c \in Nat /\ c =< Len(rxdata) /\ rxdata \in Seq(W) /\ Len(rxdata) \in Nat
    BY <1>2, <1>9, <1>14
  <2>. HIDE DEF W
  <2>. QED
    BY <2>1
<1>16. x = Whole(g)
  <2>1. \A k \in 1 .. c : x[k] = <<g, k>>
    <3>1. m + 1 \in m + 1 .. n
      BY <1>3, <1>4, <1>9
    <3>3. \A k \in 1 .. Frames[fs[m + 1]] : rxdata[at[m + 1] - at[m + 1] + k] = <<fs[m + 1], k>>
      BY <1>6, <3>1
    <3>2. \A k \in 1 .. c : at[m + 1] - at[m + 1] + k = k
      BY <1>9, <1>12
    <3>. QED
      BY <1>9, <1>15, <3>2, <3>3 DEF g
  <2>2. x = [k \in 1 .. c |-> x[k]]
    BY <1>15
  <2>. QED
    BY <1>9, <2>1, <2>2 DEF Whole, g
<1>. HIDE DEF x
<1>17. /\ Popped' = Append(Popped, x) /\ Popped' \in Seq(Seq(W)) /\ rxq' \in Seq(Seq(W))
       /\ Len(Popped') = m + 1 /\ Popped'[m + 1] = x
       /\ \A i \in 1 .. m : Popped'[i] = Popped[i]
  <2>1. Append(rxq, x) = rxq \o <<x>> /\ <<x>> \in Seq(Seq(W)) /\ Append(rxq, x) \in Seq(Seq(W))
    <3> DEFINE F == Seq(W)
    <3>1. rxq \in Seq(F) /\ x \in F
      BY <1>2, <1>15
    <3>. HIDE DEF F
    <3>2. Append(rxq, x) = rxq \o <<x>> /\ <<x>> \in Seq(F) /\ Append(rxq, x) \in Seq(F)
      BY <3>1, AppendIsConcat, AppendProperties
    <3>. QED
      BY <3>2 DEF F
  <2>2. Popped' = passed \o (rxq \o <<x>>)
    BY <1>1, <2>1 DEF Popped
  <2>3. passed \o (rxq \o <<x>>) = (passed \o rxq) \o <<x>>
    <3> DEFINE F == Seq(W)
    <3>1. rxq \in Seq(F) /\ passed \in Seq(F) /\ <<x>> \in Seq(F)
      BY <1>2, <2>1
    <3>. HIDE DEF F
    <3>. QED
      BY <3>1, ConcatAssociative
  <2>4. Append(Popped, x) = Popped \o <<x>>
    BY <1>3, <1>15, AppendIsConcat
  <2>5. Popped' = Append(Popped, x)
    BY <2>2, <2>3, <2>4 DEF Popped
  <2>6. /\ Append(Popped, x) \in Seq(Seq(W)) /\ Len(Append(Popped, x)) = Len(Popped) + 1
        /\ Append(Popped, x)[Len(Popped) + 1] = x
        /\ \A i \in 1 .. Len(Popped) : Append(Popped, x)[i] = Popped[i]
    <3> DEFINE F == Seq(W)
    <3>1. Popped \in Seq(F) /\ x \in F
      BY <1>3, <1>15
    <3>. HIDE DEF F
    <3>2. /\ Append(Popped, x) \in Seq(F) /\ Len(Append(Popped, x)) = Len(Popped) + 1
          /\ Append(Popped, x)[Len(Popped) + 1] = x
          /\ \A i \in 1 .. Len(Popped) : Append(Popped, x)[i] = Popped[i]
      BY <3>1, AppendProperties
    <3>. QED
      BY <3>2 DEF F
  <2>. QED
    BY <1>1, <2>1, <2>5, <2>6 DEF m
<1>18. /\ rxdata' \in Seq(W) /\ Len(rxdata') = Len(rxdata) - c
       /\ \A j \in 1 .. Len(rxdata) - c : rxdata'[j] = rxdata[c + j]
  <2>1. c \in Nat /\ c =< Len(rxdata) /\ rxdata \in Seq(W) /\ Len(rxdata) \in Nat
        /\ rxdata' = SubSeq(rxdata, c + 1, Len(rxdata))
    BY <1>1, <1>2, <1>9, <1>14
  <2>. HIDE DEF W
  <2>. QED
    BY <2>1
<1>19. \A i \in 1 .. m + 1 : Popped'[i] = Whole(fs[i])
  <2>1. \A i \in 1 .. m + 1 : i \in 1 .. m \/ i = m + 1
    BY <1>3
  <2>. QED
    BY <1>4, <1>16, <1>17, <2>1 DEF g
<1>20. \A i \in 1 .. n - (m + 1) : rxsts'[i] = Frames[fs[m + 1 + i]]
  <2> TAKE i \in 1 .. n - (m + 1)
  <2>1. i \in 1 .. Len(rxsts) - 1 /\ i + 1 \in 1 .. n - m /\ m + (i + 1) = m + 1 + i
    <3>1. n = m + Len(rxsts) /\ m \in Nat /\ n \in Nat /\ Len(rxsts) \in Nat
      BY <1>3, <1>4, <1>8
    <3>. QED
      BY <3>1
  <2>. QED
    BY <1>4, <1>8, <2>1
<1>21. ASSUME NEW i \in m + 2 .. n, NEW k \in 1 .. Frames[fs[i]]
       PROVE  rxdata'[at[i] - at[m + 2] + k] = <<fs[i], k>>
  <2>1. /\ i \in 1 .. n /\ i + 1 \in 1 .. n + 1 /\ m + 2 =< i /\ i + 1 =< n + 1
        /\ i \in 1 .. n + 1 /\ i \in m + 1 .. n /\ n + 1 \in 1 .. n + 1
    BY <1>3, <1>4
  <2>2. /\ at[i] \in Nat /\ at[m + 2] =< at[i] /\ at[i + 1] = at[i] + Frames[fs[i]]
        /\ at[i + 1] =< at[n + 1] /\ Frames[fs[i]] \in Nat
    <3>1. at[i] \in Nat /\ at[i + 1] = at[i] + Frames[fs[i]] /\ Frames[fs[i]] \in Nat
      BY <1>5, <1>7, <2>1
    <3>2. at[m + 2] =< at[i] /\ at[i + 1] =< at[n + 1]
      BY <1>5, <1>10, <2>1
    <3>. QED
      BY <3>1, <3>2
  <2>3. rxdata[at[i] - at[m + 1] + k] = <<fs[i], k>>
    BY <1>6, <2>1
  <2>4. /\ at[i] - at[m + 2] + k \in 1 .. Len(rxdata) - c
        /\ c + (at[i] - at[m + 2] + k) = at[i] - at[m + 1] + k
    <3>1. Len(rxdata) = at[n + 1] - at[m + 1]
      BY <1>5
    <3> DEFINE u == at[m + 1]  v == at[m + 2]  w == at[n + 1]  y == at[i]  l == Frames[fs[i]]
    <3>2. /\ Len(rxdata) = w - u /\ v = u + c /\ v =< y /\ y + l =< w /\ k \in 1 .. l
          /\ u \in Nat /\ v \in Nat /\ w \in Nat /\ y \in Nat /\ l \in Nat /\ c \in Nat
      BY <1>9, <1>11, <1>12, <2>2, <3>1
    <3>. HIDE DEF u, v, w, y, l
    <3>3. y - v + k \in 1 .. Len(rxdata) - c /\ c + (y - v + k) = y - u + k
      BY <3>2
    <3>. QED
      BY <3>3 DEF u, v, w, y, l
  <2>. QED
    BY <1>18, <2>3, <2>4
<1>22. RxTyped'
  <2>1. pc'[Event] # "pop"
    <3>1. pc'[Event] \in {"up", "rx"}
      BY EventMoves DEF RxPop, Goto
    <3>. QED
      BY <3>1
  <2>. QED
    BY <1>1, <1>2, <1>8, <1>17, <1>18, <2>1 DEF RxTyped, W
<1>23. n = (m + 1) + Len(rxsts') /\ Len(rxdata') = at[n + 1] - at[m + 2]
  <2>1. n = (m + 1) + Len(rxsts')
    BY <1>3, <1>4, <1>8
  <2> DEFINE u == at[m + 1]  v == at[m + 2]  w == at[n + 1]
  <2>2. /\ Len(rxdata') = Len(rxdata) - c /\ Len(rxdata) = w - u /\ v = u + c
        /\ u \in Nat /\ v \in Nat /\ w \in Nat /\ c \in Nat
    BY <1>9, <1>11, <1>12, <1>18, <1>13
  <2>. HIDE DEF u, v, w
  <2>3. Len(rxdata') = w - v
    BY <2>2
  <2>. QED
    BY <2>1, <2>3 DEF v, w
<1>24. (m + 1) + 1 = m + 2 /\ arrived' = arrived
  BY <1>1, <1>3
<1>25. Len(Popped') = m + 1 /\ Len(fs) = n
  BY <1>4, <1>17
<1> DEFINE q == Len(Popped')  z == Len(fs)
<1>26. q = m + 1 /\ z = n /\ q + 1 = m + 2
  BY <1>24, <1>25
<1>. HIDE DEF q, z
<1>27. /\ fs \in Seq(1 .. arrived') /\ z = q + Len(rxsts')
       /\ \A i, j \in 1 .. z : i < j => fs[i] < fs[j]
  BY <1>4, <1>23, <1>24, <1>26
<1>28. /\ \A i \in 1 .. q : Popped'[i] = Whole(fs[i])
       /\ \A i \in 1 .. z - q : rxsts'[i] = Frames[fs[q + i]]
  BY <1>19, <1>20, <1>26
<1>29. /\ at \in [1 .. z + 1 -> Nat]
       /\ \A i \in 1 .. z : at[i + 1] = at[i] + Frames[fs[i]]
       /\ \A i, j \in 1 .. z + 1 : i =< j => at[i] =< at[j]
       /\ Len(rxdata') = at[z + 1] - at[q + 1]
  BY <1>5, <1>23, <1>26
<1>30. \A i \in q + 1 .. z : \A k \in 1 .. Frames[fs[i]] :
         rxdata'[at[i] - at[q + 1] + k] = <<fs[i], k>>
  BY <1>21, <1>26
<1>31. Stream(fs, at)'
  BY <1>27, <1>28, <1>29, <1>30 DEF Stream, Whole, q, z
<1>. QED
  BY <1>22, <1>31

(* What is passed up leaves the chain: the frames popped stay the same.    *)
LEMMA UpStream ==
  ASSUME TxTyped, RxTyped, NEW fs, NEW at, Stream(fs, at), Up
  PROVE  RxTyped' /\ Stream(fs, at)'
<1> DEFINE F == Seq(Nat \X Nat)
<1>1. rxq \in Seq(F) /\ passed \in Seq(F) /\ rxq # <<>>
  BY DEF RxTyped, Up
<1>2. /\ rxq' = Tail(rxq) /\ passed' = Append(passed, Head(rxq))
      /\ UNCHANGED <<rxsts, rxdata, arrived>> /\ pc'[Event] = "tx_up"
  BY EventMoves DEF Up, Goto
<1>. HIDE DEF F
<1>3. rxq' \in Seq(F) /\ passed' \in Seq(F)
  BY <1>1, <1>2, HeadTailProperties, AppendProperties
<1>4. Popped' = Popped
  BY <1>1, <1>2, HeadMoved DEF Popped
<1>5. RxTyped'
  BY <1>2, <1>3 DEF RxTyped, F
<1>6. Stream(fs, at)'
  BY <1>2, <1>4 DEF Stream, Whole
<1>. QED
  BY <1>5, <1>6

(* A frame that arrives is the last one: it comes whole or not at all.     *)
LEMMA ReceiveStream ==
  ASSUME RxTyped, NEW fs, NEW at, Stream(fs, at), HwReceive
  PROVE  RxTyped' /\ \E gs, to : Stream(gs, to)'
<1> DEFINE W == Nat \X Nat
           m == Len(Popped)
           n == Len(fs)
           a == arrived + 1
           l == Frames[a]
<1>1. /\ rxsts \in Seq(Nat) /\ rxdata \in Seq(W) /\ rxq \in Seq(Seq(W))
      /\ passed \in Seq(Seq(W)) /\ arrived \in Nat /\ a \in Nat
      /\ a \in 1 .. Len(Frames) /\ l \in Nat /\ Len(Frames) \in Nat
  <2>1. arrived \in 0 .. Len(Frames) /\ arrived < Len(Frames) /\ Frames \in Seq(Nat \ {0})
    BY SmcAssumption DEF RxTyped, HwReceive
  <2>. QED
    BY <2>1 DEF RxTyped
<1>2. arrived' = a /\ UNCHANGED <<pc, rxq, passed>> /\ Popped' = Popped
  BY DEF HwReceive, Popped
<1>3. /\ fs \in Seq(1 .. arrived) /\ Len(fs) = n /\ n = m + Len(rxsts) /\ n \in Nat
      /\ \A i, j \in 1 .. n : i < j => fs[i] < fs[j]
      /\ \A i \in 1 .. m : Popped[i] = Whole(fs[i])
      /\ \A i \in 1 .. n - m : rxsts[i] = Frames[fs[m + i]]
  BY DEF Stream
<1>4. /\ at \in [1 .. n + 1 -> Nat]
      /\ \A i \in 1 .. n : at[i + 1] = at[i] + Frames[fs[i]]
      /\ \A i, j \in 1 .. n + 1 : i =< j => at[i] =< at[j]
      /\ Len(rxdata) = at[n + 1] - at[m + 1]
  BY DEF Stream
<1>5. \A i \in m + 1 .. n : \A k \in 1 .. Frames[fs[i]] :
        rxdata[at[i] - at[m + 1] + k] = <<fs[i], k>>
  BY DEF Stream
<1>6. Popped \in Seq(Seq(W)) /\ m \in Nat
  BY <1>1, ConcatProperties DEF Popped
<1>7. fs \in [1 .. n -> 1 .. arrived]
  BY <1>3, LenProperties
<1>8. fs \in Seq(1 .. a)
  <2>1. \A i \in 1 .. arrived : i \in 1 .. a
    BY <1>1
  <2>2. fs \in [1 .. n -> 1 .. a]
    BY <1>7, <2>1
  <2>3. Len(fs) = n /\ n \in Nat
    BY <1>3
  <2>4. fs \in [1 .. Len(fs) -> 1 .. a] /\ Len(fs) \in Nat
    BY <2>2, <2>3
  <2> DEFINE T == 1 .. a
  <2>5. fs \in [1 .. Len(fs) -> T]
    BY <2>4
  <2>. HIDE DEF T, n
  <2>6. fs \in Seq(T)
    BY <2>4, <2>5
  <2>. QED
    BY <2>6 DEF T
<1>. HIDE DEF m, n, a, l
<1>9. CASE UNCHANGED <<rxsts, rxdata>>
  <2>1. Stream(fs, at)'
    BY <1>2, <1>8, <1>9 DEF Stream, Whole
  <2>2. RxTyped'
    BY <1>1, <1>2, <1>9 DEF RxTyped, W
  <2>. QED
    BY <2>1, <2>2
<1>10. CASE /\ rxsts' = Append(rxsts, l)
           /\ rxdata' = rxdata \o [k \in 1 .. l |-> <<a, k>>]
  <2> DEFINE gs == Append(fs, a)
             to == [i \in 1 .. n + 2 |-> IF i = n + 2 THEN at[n + 1] + l ELSE at[i]]
             ws == [k \in 1 .. l |-> <<a, k>>]
  <2>1. /\ rxsts' \in Seq(Nat) /\ Len(rxsts') = Len(rxsts) + 1 /\ rxsts' # <<>>
        /\ Len(rxsts) \in Nat /\ rxsts'[Len(rxsts) + 1] = l
        /\ \A i \in 1 .. Len(rxsts) : rxsts'[i] = rxsts[i]
    BY <1>1, <1>10, AppendProperties
  <2>2. ws \in Seq(W) /\ Len(ws) = l /\ \A k \in 1 .. l : ws[k] = <<a, k>>
    BY <1>1
  <2>. HIDE DEF W, ws
  <2>3. /\ rxdata' \in Seq(W) /\ Len(rxdata') = Len(rxdata) + l /\ Len(rxdata) \in Nat
        /\ \A i \in 1 .. Len(rxdata) + l :
             rxdata'[i] = IF i =< Len(rxdata) THEN rxdata[i] ELSE ws[i - Len(rxdata)]
    <3>1. rxdata' = rxdata \o ws
      BY <1>10 DEF ws
    <3>2. rxdata \in Seq(W) /\ ws \in Seq(W) /\ Len(ws) = l
      BY <1>1, <2>2
    <3>3. /\ rxdata \o ws \in Seq(W) /\ Len(rxdata \o ws) = Len(rxdata) + l
          /\ \A i \in 1 .. Len(rxdata) + l :
               (rxdata \o ws)[i] = IF i =< Len(rxdata) THEN rxdata[i] ELSE ws[i - Len(rxdata)]
      BY <3>2, ConcatProperties
    <3>. QED
      BY <1>1, <3>1, <3>3
  <2>4. /\ gs \in Seq(1 .. a) /\ Len(gs) = n + 1 /\ gs[n + 1] = a
        /\ \A i \in 1 .. n : gs[i] = fs[i] /\ fs[i] \in 1 .. arrived
    <3>1. a \in 1 .. a
      BY <1>1
    <3>2. \A i \in 1 .. n : fs[i] \in 1 .. arrived
      BY <1>7
    <3>. QED
      BY <1>3, <1>8, <3>1, <3>2, AppendProperties
  <2>. HIDE DEF gs
  <2>5. \A i \in 1 .. n : i + 1 \in 1 .. n + 1 /\ i \in 1 .. n + 1
    BY <1>3
  <2>6. /\ at[n + 1] \in Nat /\ to \in [1 .. n + 2 -> Nat] /\ to[n + 2] = at[n + 1] + l
        /\ \A i \in 1 .. n + 1 : to[i] = at[i] /\ at[i] \in Nat
    <3>1. at[n + 1] + l \in Nat /\ \A i \in 1 .. n + 1 : at[i] \in Nat
      <4>1. at \in [1 .. n + 1 -> Nat] /\ l \in Nat /\ n + 1 \in 1 .. n + 1
        BY <1>1, <1>3, <1>4
      <4>. QED
        BY <4>1
    <3>2. \A i \in 1 .. n + 2 : i = n + 2 \/ i \in 1 .. n + 1
      BY <1>3
    <3>3. n + 2 \in 1 .. n + 2 /\ n + 1 \in 1 .. n + 1
          /\ \A i \in 1 .. n + 1 : i \in 1 .. n + 2 /\ i # n + 2
      BY <1>3
    <3>. QED
      BY <3>1, <3>2, <3>3
  <2>. HIDE DEF to
  <2>7. \A i, j \in 1 .. n + 1 : i < j => gs[i] < gs[j]
    <3> TAKE i, j \in 1 .. n + 1
    <3> HAVE i < j
    <3>1. i \in 1 .. n /\ (j \in 1 .. n \/ j = n + 1)
      BY <1>3
    <3>2. CASE j \in 1 .. n
      BY <1>3, <2>4, <3>1, <3>2
    <3>3. CASE j = n + 1
      <4>1. gs[i] \in 1 .. arrived /\ gs[j] = a
        BY <2>4, <3>1, <3>3
      <4>. QED
        BY <1>1, <4>1 DEF a
    <3>. QED
      BY <3>1, <3>2, <3>3
  <2>8. \A i \in 1 .. m : Popped'[i] = Whole(gs[i])
    <3>1. \A i \in 1 .. m : i \in 1 .. n
      BY <1>1, <1>3, <1>6, <2>1
    <3>. QED
      BY <1>2, <1>3, <2>4, <3>1
  <2>9. \A i \in 1 .. (n + 1) - m : rxsts'[i] = Frames[gs[m + i]]
    <3> TAKE i \in 1 .. (n + 1) - m
    <3>1. (i \in 1 .. n - m /\ i \in 1 .. Len(rxsts) /\ m + i \in 1 .. n)
          \/ (i = Len(rxsts) + 1 /\ m + i = n + 1)
      <4>1. n = m + Len(rxsts) /\ m \in Nat /\ Len(rxsts) \in Nat
        BY <1>3, <1>6, <2>1
      <4>. QED
        BY <4>1
    <3>. QED
      BY <1>3, <2>1, <2>4, <3>1 DEF l
  <2>10. \A i \in 1 .. n + 1 : to[i + 1] = to[i] + Frames[gs[i]]
    <3> TAKE i \in 1 .. n + 1
    <3>1. CASE i \in 1 .. n
      <4>1. to[i + 1] = at[i + 1] /\ to[i] = at[i] /\ gs[i] = fs[i]
        BY <2>4, <2>5, <2>6, <3>1
      <4>. QED
        BY <1>4, <3>1, <4>1
    <3>2. CASE i = n + 1
      <4>1. to[i + 1] = at[n + 1] + l /\ to[i] = at[n + 1] /\ gs[i] = a
        <5>1. i + 1 = n + 2
          BY <1>3, <3>2
        <5>. QED
          BY <2>4, <2>6, <3>2, <5>1
      <4>. QED
        BY <4>1 DEF l
    <3>. QED
      BY <1>3, <3>1, <3>2
  <2>11. \A i, j \in 1 .. n + 2 : i =< j => to[i] =< to[j]
    <3> TAKE i, j \in 1 .. n + 2
    <3> HAVE i =< j
    <3>1. (i \in 1 .. n + 1 /\ j \in 1 .. n + 1)
          \/ (i \in 1 .. n + 1 /\ j = n + 2) \/ (i = n + 2 /\ j = n + 2)
      BY <1>3
    <3>2. CASE i \in 1 .. n + 1 /\ j \in 1 .. n + 1
      BY <1>4, <2>6, <3>2
    <3>3. CASE i \in 1 .. n + 1 /\ j = n + 2
      <4>1. at[i] =< at[n + 1] /\ at[i] \in Nat
        BY <1>3, <1>4, <3>3
      <4>2. to[i] = at[i] /\ to[j] = at[n + 1] + l
        BY <2>6, <3>3
      <4>. QED
        BY <1>1, <2>6, <4>1, <4>2
    <3>4. CASE i = n + 2 /\ j = n + 2
      <4>1. to[i] \in Nat
        BY <2>6
      <4>. QED
        BY <3>4, <4>1
    <3>. QED
      BY <3>1, <3>2, <3>3, <3>4
  <2>12. m + 1 \in 1 .. n + 1 /\ m \in Nat /\ n \in Nat
    BY <1>3, <1>6, <2>1
  <2>13. Len(rxdata') = to[n + 2] - to[m + 1]
    <3> DEFINE u == at[m + 1]  v == at[n + 1]
    <3>1. /\ Len(rxdata') = Len(rxdata) + l /\ Len(rxdata) = v - u
          /\ to[n + 2] = v + l /\ to[m + 1] = u
          /\ u \in Nat /\ v \in Nat /\ l \in Nat
      BY <1>1, <1>4, <2>3, <2>6, <2>12
    <3>. HIDE DEF u, v
    <3>. QED
      BY <3>1
  <2>14. \A i \in m + 1 .. n + 1 : \A k \in 1 .. Frames[gs[i]] :
           rxdata'[to[i] - to[m + 1] + k] = <<gs[i], k>>
    <3> TAKE i \in m + 1 .. n + 1
    <3> TAKE k \in 1 .. Frames[gs[i]]
    <3> DEFINE u == at[m + 1]  v == at[n + 1]  y == at[i]
    <3>1. /\ u \in Nat /\ v \in Nat /\ to[m + 1] = u /\ l \in Nat /\ y \in Nat /\ to[i] = y
          /\ Len(rxdata) = v - u /\ Len(rxdata) \in Nat
      <4>1. i \in 1 .. n + 1
        BY <2>12
      <4>. QED
        BY <1>1, <1>4, <2>3, <2>6, <2>12, <4>1
    <3>2. CASE i \in m + 1 .. n
      <4>1. i \in 1 .. n /\ i + 1 =< n + 1 /\ n + 1 \in 1 .. n + 1 /\ m + 1 =< i
            /\ i \in 1 .. n + 1 /\ i + 1 \in 1 .. n + 1
        BY <2>12, <3>2
      <4>2. gs[i] = fs[i] /\ k \in 1 .. Frames[fs[i]]
        BY <2>4, <4>1
      <4>3. rxdata[y - u + k] = <<fs[i], k>>
        BY <1>5, <3>2, <4>2
      <4>4. u =< y /\ at[i + 1] = y + Frames[fs[i]] /\ at[i + 1] =< v
        BY <1>4, <2>12, <4>1
      <4>5. Frames[fs[i]] \in Nat
        <5>1. fs[i] \in 1 .. Len(Frames) /\ Frames \in Seq(Nat \ {0})
          <6>1. fs[i] \in 1 .. arrived /\ arrived \in Nat /\ Len(Frames) \in Nat
            BY <1>1, <2>4, <4>1
          <6>2. arrived =< Len(Frames)
            BY <1>1 DEF a
          <6>. QED
            BY <6>1, <6>2, SmcAssumption
        <5>. QED
          BY <5>1
      <4>. HIDE DEF u, v, y
      <4> DEFINE z == Frames[fs[i]]
      <4>6. z \in Nat /\ k \in 1 .. z /\ u =< y /\ y + z =< v
        BY <4>2, <4>4, <4>5
      <4>. HIDE DEF z
      <4>7. /\ y - u + k \in 1 .. Len(rxdata) + l /\ y - u + k =< Len(rxdata)
        BY <3>1, <4>6
      <4>. QED
        BY <2>3, <3>1, <4>2, <4>3, <4>7
    <3>3. CASE i = n + 1
      <4>1. gs[i] = a /\ y = v /\ k \in 1 .. l
        BY <2>4, <3>3 DEF l
      <4>. HIDE DEF u, v, y
      <4> DEFINE d == Len(rxdata)  e == y - u + k
      <4>2. d \in Nat /\ d = v - u /\ y = v /\ k \in 1 .. l /\ l \in Nat /\ u \in Nat /\ v \in Nat
        BY <3>1, <4>1
      <4>. HIDE DEF d
      <4>3. e \in 1 .. d + l /\ ~(e =< d) /\ e - d = k
        BY <4>2
      <4>. HIDE DEF e
      <4>4. rxdata'[e] = ws[e - d]
        BY <2>3, <4>3 DEF d
      <4>. QED
        BY <2>2, <3>1, <4>1, <4>2, <4>3, <4>4 DEF e
    <3>. QED
      BY <2>12, <3>2, <3>3
  <2>15. (n + 1) + 1 = n + 2 /\ n + 1 = m + Len(rxsts')
    BY <1>3, <1>6, <2>1
  <2> DEFINE z == Len(gs)  q == Len(Popped')
  <2>16. z = n + 1 /\ q = m /\ z + 1 = n + 2
    BY <1>2, <2>4, <2>15 DEF m
  <2>. HIDE DEF z, q
  <2>17. /\ gs \in Seq(1 .. arrived') /\ z = q + Len(rxsts')
         /\ \A i, j \in 1 .. z : i < j => gs[i] < gs[j]
         /\ \A i \in 1 .. q : Popped'[i] = Whole(gs[i])
         /\ \A i \in 1 .. z - q : rxsts'[i] = Frames[gs[q + i]]
    BY <1>2, <2>4, <2>7, <2>8, <2>9, <2>15, <2>16
  <2>18. /\ to \in [1 .. z + 1 -> Nat]
         /\ \A i \in 1 .. z : to[i + 1] = to[i] + Frames[gs[i]]
         /\ \A i, j \in 1 .. z + 1 : i =< j => to[i] =< to[j]
         /\ Len(rxdata') = to[z + 1] - to[q + 1]
    BY <2>6, <2>10, <2>11, <2>13, <2>16
  <2>19. \A i \in q + 1 .. z : \A k \in 1 .. Frames[gs[i]] :
           rxdata'[to[i] - to[q + 1] + k] = <<gs[i], k>>
    BY <2>14, <2>16
  <2>20. \E hs, up : Stream(hs, up)'
    <3>1. PICK hs, up : hs = gs /\ up = to
      OBVIOUS
    <3>2. Stream(hs, up)'
      <4>1. /\ hs \in Seq(1 .. arrived') /\ Len(hs) = q + Len(rxsts')
            /\ \A i, j \in 1 .. Len(hs) : i < j => hs[i] < hs[j]
            /\ \A i \in 1 .. q : Popped'[i] = Whole(hs[i])
            /\ \A i \in 1 .. Len(hs) - q : rxsts'[i] = Frames[hs[q + i]]
        BY <2>17, <3>1 DEF z
      <4>2. /\ up \in [1 .. Len(hs) + 1 -> Nat]
            /\ \A i \in 1 .. Len(hs) : up[i + 1] = up[i] + Frames[hs[i]]
            /\ \A i, j \in 1 .. Len(hs) + 1 : i =< j => up[i] =< up[j]
            /\ Len(rxdata') = up[Len(hs) + 1] - up[q + 1]
        BY <2>18, <3>1 DEF z
      <4>3. \A i \in q + 1 .. Len(hs) : \A k \in 1 .. Frames[hs[i]] :
              rxdata'[up[i] - up[q + 1] + k] = <<hs[i], k>>
        BY <2>19, <3>1 DEF z
      <4>. QED
        BY <4>1, <4>2, <4>3 DEF Stream, Whole, q
    <3>. QED
      BY <3>2
  <2>21. RxTyped'
    <3>1. arrived' \in 0 .. Len(Frames)
      BY <1>1, <1>2
    <3>. QED
      BY <1>1, <1>2, <2>1, <2>3, <3>1 DEF RxTyped, W
  <2>. QED
    BY <2>20, <2>21
<1>11. UNCHANGED <<rxsts, rxdata>>
       \/ (rxsts' = Append(rxsts, l) /\ rxdata' = rxdata \o [k \in 1 .. l |-> <<a, k>>])
  BY DEF HwReceive, a, l
<1>. QED
  BY <1>9, <1>10, <1>11

(* Frames stay whole and in order, while no allocation has failed.         *)
LEMMA OrderStep == TxTyped /\ InOrder /\ [Next]_vars => InOrder'
<1>. SUFFICES ASSUME TxTyped, InOrder, [Next]_vars PROVE InOrder'
  OBVIOUS
<1> DEFINE Some == \E fs, at : Stream(fs, at)
<1>1. fails \in Nat
  BY DEF InOrder
<1>2. CASE RxDrop
  BY <1>1, <1>2 DEF RxDrop, InOrder
<1>3. CASE fails # 0 /\ ~RxDrop
  <2>1. fails' = fails
    BY <1>3, RxEffect DEF RxSame, RxPop, Up, HwReceive
  <2>. QED
    BY <1>1, <1>3, <2>1 DEF InOrder
<1>4. CASE fails = 0 /\ ~RxDrop
  <2>1. RxTyped /\ Some
    BY <1>4 DEF InOrder
  <2>2. PICK fs, at : Stream(fs, at)
    BY <2>1
  <2>3. CASE RxPop
    <3>1. RxTyped' /\ Stream(fs, at)'
      BY <2>1, <2>2, <2>3, PopStream
    <3>2. fails' = 0
      BY <1>4, <2>3 DEF RxPop
    <3>. QED
      BY <3>1, <3>2 DEF InOrder
  <2>4. CASE Up
    <3>1. RxTyped' /\ Stream(fs, at)'
      BY <2>1, <2>2, <2>4, UpStream
    <3>2. fails' = 0
      BY <1>4, <2>4 DEF Up
    <3>. QED
      BY <3>1, <3>2 DEF InOrder
  <2>5. CASE HwReceive
    <3>1. RxTyped' /\ \E gs, to : Stream(gs, to)'
      BY <2>1, <2>2, <2>5, ReceiveStream
    <3>2. fails' = 0
      BY <1>4, <2>5 DEF HwReceive
    <3>. QED
      BY <3>1, <3>2 DEF InOrder
  <2>6. CASE RxSame
    <3>1. Stream(fs, at)' /\ fails' = 0
      BY <1>4, <2>2, <2>6 DEF Stream, Popped, Whole, RxSame
    <3>2. pc'[Event] = "pop" => rxsts' # <<>>
      <4>1. ASSUME pc'[Event] = "pop" PROVE rxsts' # <<>>
        <5>1. \/ rxsts # <<>> /\ rxsts' = rxsts
              \/ pc[Event] = "pop" /\ (RxSame \/ HwReceive)
          BY <4>1, PopReached
        <5>. QED
          BY <2>1, <2>6, <5>1 DEF RxTyped, RxSame
      <4>. QED
        BY <4>1
    <3>3. RxTyped'
      BY <2>1, <2>6, <3>2 DEF RxTyped, RxSame
    <3>. QED
      BY <3>1, <3>3 DEF InOrder
  <2>. QED
    BY <1>4, <2>3, <2>4, <2>5, <2>6, RxEffect
<1>. QED
  BY <1>1, <1>2, <1>3, <1>4

(* The invariant of the driver: both sides, the interrupt between them.    *)
SmcInv == TxInv /\ Masking /\ Chained /\ Counted /\ InOrder

(* It holds when the driver has attached.                                  *)
LEMMA SmcInit == Init => SmcInv
<1>. SUFFICES ASSUME Init PROVE SmcInv
  OBVIOUS
<1>1. Event \in Threads /\ MaxBuffered \in Nat \ {0} /\ max_rx_buffers \in Nat
  BY SmcAssumption DEF Threads
<1>2. pc[Event] = "receive"
  BY <1>1 DEF Init
<1>3. TxInv
  BY TxInit
<1>4. Masking
  <2>1. /\ mutex = Free /\ INT_STS = {} /\ istat = {} /\ masked = FALSE /\ pulses = 0
    BY DEF Init
  <2>2. mutex \in Threads \cup {Free} /\ INT_STS \subseteq {"RSFL", "TX_IOC"}
        /\ istat \subseteq {"RSFL", "TX_IOC"}
    BY <2>1
  <2>3. pulses \in {0, 1} /\ pulses # 1
    BY <2>1
  <2>4. masked \in BOOLEAN
    BY <2>1
  <2>. QED
    BY <1>2, <2>2, <2>3, <2>4 DEF Masking
<1>5. Chained
  <2>1. rxq = <<>> /\ Len(rxq) = 0
    BY DEF Init
  <2>. QED
    BY <1>1, <1>2, <2>1 DEF Chained, Receiving
<1>6. Counted
  BY <1>1 DEF Init, Counted
<1>7. InOrder
  <2>1. /\ rxsts = <<>> /\ rxdata = <<>> /\ rxq = <<>> /\ passed = <<>> /\ arrived = 0
        /\ fails = 0
    BY DEF Init
  <2>2. Len(Frames) \in Nat
    BY SmcAssumption
  <2>3. RxTyped
    BY <1>2, <2>1, <2>2 DEF RxTyped
  <2> DEFINE at == [i \in 1 .. 1 |-> 0]
  <2>4. Stream(<<>>, at)
    <3>1. Popped = <<>> /\ Len(Popped) = 0 /\ Len(rxsts) = 0 /\ Len(rxdata) = 0
      BY <2>1 DEF Popped
    <3>2. at \in [1 .. 1 -> Nat] /\ at[1] = 0
      OBVIOUS
    <3>. HIDE DEF at
    <3>. QED
      BY <2>1, <3>1, <3>2 DEF Stream
  <2>. QED
    BY <2>1, <2>3, <2>4 DEF InOrder
<1>. QED
  BY <1>3, <1>4, <1>5, <1>6, <1>7 DEF SmcInv

(* Every step keeps it.                                                    *)
LEMMA SmcStep == SmcInv /\ [Next]_vars => SmcInv'
<1>. SUFFICES ASSUME SmcInv, [Next]_vars PROVE SmcInv'
  OBVIOUS
<1>1. TxTyped
  BY DEF SmcInv, TxInv
<1>. QED
  BY <1>1, TxStep, MaskingStep, ChainStep, CountStep, OrderStep DEF SmcInv

(* The threads, the interrupt and both directions keep their invariant.    *)
THEOREM SmcInvariant == Spec => []SmcInv
  BY SmcInit, SmcStep, PTL DEF Spec

(* The data FIFO and the chain of packets received are never overrun.      *)
THEOREM BuffersCorrect == Spec => []BuffersBounded
<1>1. SmcInv => BuffersBounded
  <2>. SUFFICES ASSUME SmcInv PROVE BuffersBounded
    OBVIOUS
  <2>1. TypeOK
    <3>1. /\ TxTyped /\ Masking /\ Counted
      BY DEF SmcInv, TxInv
    <3>2. pulses \in 0 .. (IF masked THEN 1 ELSE 0)
      BY <3>1 DEF Masking
    <3>3. \A s \in Senders : pc[s] \in {"out", "enter", "send", "tx_done", "relock"}
      <4>1. \A s \in Senders : s \in Threads /\ s # Event
        BY SmcAssumption DEF Threads
      <4>. QED
        BY <3>1, <4>1 DEF TxTyped, Steps, SendSteps
    <3>. QED
      BY <3>1, <3>2, <3>3 DEF TypeOK, TxTyped, Masking, Counted
  <2>. QED
    BY <2>1 DEF SmcInv, TxInv, Room, Chained, BuffersBounded
<1>. QED
  BY <1>1, SmcInvariant, PTL

(* What is passed up is whole frames, in their order.                      *)
THEOREM FramesCorrect == Spec => []FramesWhole
<1>1. SmcInv => FramesWhole
  <2>. SUFFICES ASSUME InOrder, fails = 0 PROVE FramesWhole
    BY DEF SmcInv, FramesWhole
  <2>1. RxTyped /\ \E fs, at : Stream(fs, at)
    BY DEF InOrder
  <2>2. PICK fs, at : Stream(fs, at)
    BY <2>1
  <2> DEFINE F == Seq(Nat \X Nat)
             m == Len(Popped)
             n == Len(passed)
  <2>3. passed \in Seq(F) /\ rxq \in Seq(F)
    BY <2>1 DEF RxTyped
  <2>. HIDE DEF F
  <2>4. /\ n \in Nat /\ m \in Nat /\ n =< m /\ DOMAIN passed = 1 .. n
        /\ \A i \in 1 .. n : passed[i] = Popped[i]
    BY <2>3, ConcatProperties, LenProperties DEF Popped
  <2>5. /\ fs \in Seq(1 .. arrived) /\ m =< Len(fs) /\ Len(fs) \in Nat
        /\ \A i, j \in 1 .. Len(fs) : i < j => fs[i] < fs[j]
        /\ \A i \in 1 .. m : Popped[i] = Whole(fs[i])
    <3>1. rxsts \in Seq(Nat)
      BY <2>1 DEF RxTyped
    <3>. QED
      BY <2>2, <2>4, <3>1 DEF Stream
  <2>. HIDE DEF m, n
  <2>6. \A i \in 1 .. n : i \in 1 .. m /\ i \in 1 .. Len(fs)
    BY <2>4, <2>5
  <2>7. /\ Frames \in Seq(Nat \ {0}) /\ arrived \in 0 .. Len(Frames) /\ Len(Frames) \in Nat
        /\ DOMAIN Frames = 1 .. Len(Frames)
    BY <2>1, SmcAssumption, LenProperties DEF RxTyped
  <2>8. \A i \in 1 .. n : fs[i] \in DOMAIN Frames /\ fs[i] \in Nat /\ Frames[fs[i]] \in Nat \ {0}
    <3>1. fs \in [1 .. Len(fs) -> 1 .. arrived]
      BY <2>5, LenProperties
    <3>2. \A i \in 1 .. n : fs[i] \in 1 .. arrived
      BY <2>6, <3>1
    <3>3. \A i \in 1 .. n : fs[i] \in 1 .. Len(Frames)
      BY <2>7, <3>2
    <3>. QED
      BY <2>7, <3>3
  <2>9. \A i \in 1 .. n : passed[i] = Whole(fs[i])
    BY <2>4, <2>5, <2>6
  <2>10. \A i \in DOMAIN passed :
           \E f \in DOMAIN Frames : passed[i] = [k \in 1 .. Frames[f] |-> <<f, k>>]
    BY <2>4, <2>8, <2>9 DEF Whole
  <2>11. \A i \in 1 .. n : passed[i][1][1] = fs[i]
    <3> TAKE i \in 1 .. n
    <3>1. 1 \in 1 .. Frames[fs[i]]
      BY <2>8
    <3>2. Whole(fs[i])[1] = <<fs[i], 1>>
      BY <3>1 DEF Whole
    <3>. QED
      BY <2>9, <3>2
  <2>12. \A i, j \in DOMAIN passed : i < j => passed[i][1][1] < passed[j][1][1]
    BY <2>4, <2>5, <2>6, <2>11
  <2>. QED
    BY <2>10, <2>12 DEF FramesWhole
<1>. QED
  BY <1>1, SmcInvariant, PTL

(* A packet once on its way keeps its place: the line is only added to.    *)
LEMMA LineGrows ==
  ASSUME TxTyped, [Next]_vars
  PROVE  IsPrefix(Line, Line')
<1> DEFINE D == DOMAIN Packets
<1>1. Line \in Seq(D)
  BY LineTyped
<1>2. ASSUME NEW b \in Seq(D), Line' = Line \o b PROVE IsPrefix(Line, Line')
  <2>. HIDE DEF D
  <2>1. /\ Len(Line) \in Nat /\ Len(b) \in Nat /\ Len(Line \o b) = Len(Line) + Len(b)
        /\ SubSeq(Line, 1, Len(Line)) = Line
    BY <1>1, <1>2, ConcatProperties, SubSeqFull
  <2>2. SubSeq(Line \o b, 1, Len(Line)) = Line
    <3>1. CASE Len(Line) = 0
      BY <1>1, <3>1, EmptySeq, SubSeqEmpty
    <3>2. CASE Len(Line) # 0
      <4>1. 1 \in 1 .. Len(Line) /\ Len(Line) \in 1 .. Len(Line)
        BY <2>1, <3>2
      <4>. QED
        BY <1>1, <1>2, <2>1, <4>1, SubSeqOfConcat1
    <3>. QED
      BY <3>1, <3>2
  <2>. QED
    BY <1>2, <2>1, <2>2 DEF IsPrefix
<1>3. <<>> \in Seq(D) /\ Line \o <<>> = Line
  BY <1>1, ConcatEmptySeq
<1>4. ASSUME Line' = Line PROVE IsPrefix(Line, Line')
  BY <1>2, <1>3, <1>4
<1>5. ASSUME NEW s \in Senders, Enter(s) PROVE IsPrefix(Line, Line')
  <2>1. batch[s] \in Seq(D) /\ Line' = Line \o batch[s]
    BY <1>5, EnterLine DEF TxTyped
  <2>. QED
    BY <1>2, <2>1
<1>6. ASSUME NEW s \in Senders, NEW n \in Batches, Hand(s, n) PROVE IsPrefix(Line, Line')
  BY <1>4, <1>6 DEF Hand, Line
<1>7. ASSUME NEW t \in Threads, Send(t) PROVE IsPrefix(Line, Line')
  BY <1>4, <1>7, SendLine
<1>8. ASSUME NEW t \in Threads, TxDone(t) PROVE IsPrefix(Line, Line')
  BY <1>4, <1>8 DEF TxDone, Line
<1>9. CASE HwSend
  BY <1>4, <1>9, HwSendLine
<1>10. CASE TxSame
  BY <1>4, <1>10 DEF TxSame, Line
<1>. QED
  BY <1>5, <1>6, <1>7, <1>8, <1>9, <1>10, TxEffects DEF TxEffect

(* Packets are sent once each, in the order they entered the queue.        *)
THEOREM OrderCorrect == Spec => QueueOrder
<1>1. SmcInv => SentOnce
  BY DEF SmcInv, TxInv, Once, Completions, SentOnce, Line, Gone
<1>2. SmcInv /\ [Next]_vars => [IsPrefix(sent \o txfifo \o queue, (sent \o txfifo \o queue)')]_vars
  <2>1. SmcInv /\ [Next]_vars => IsPrefix(Line, Line')
    BY LineGrows DEF SmcInv, TxInv
  <2>. QED
    BY <2>1 DEF Line
<1>. QED
  BY <1>1, <1>2, SmcInvariant, PTL DEF Spec, QueueOrder
====
