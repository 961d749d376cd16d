---------------------------- MODULE FecTxProofs ----------------------------
(***************************************************************************)
(* Proofs of the safety properties of FecTx, for every ring, every limit   *)
(* of fragments and any number of senders.  RingInv is the inductive       *)
(* invariant of the ring; HeldOnce, of the packets, and WireInv, of what   *)
(* is in flight, are inductive given RingInv.  Each is proved one action   *)
(* at a time; most actions touch the locals of one thread, and QuietStep   *)
(* and WireSame keep what the others rely on.  Distances around the ring   *)
(* are the arithmetic of it all: the first lemmas say how Dist moves with  *)
(* either end.  Last, the refinement of TxService: what Along reads from   *)
(* the ring grows at one end and shrinks at the other.                     *)
(***************************************************************************)
EXTENDS FecTx, FiniteSetTheorems, TLAPS

(* NEXT_TX stays in the ring and wraps at its end only.                    *)
LEMMA NextTx ==
  ASSUME NEW x \in Slots
  PROVE  /\ NEXT_TX(x) = (IF x = NumTx - 1 THEN 0 ELSE x + 1)
         /\ NEXT_TX(x) \in Slots
BY TxAssumption DEF NEXT_TX, Slots

(* PREV_TX stays in the ring.                                              *)
LEMMA PrevTx ==
  ASSUME NEW x \in Slots
  PROVE  PREV_TX(x) \in Slots
BY TxAssumption DEF PREV_TX, Slots

(* A distance is less than the ring, and zero only from a slot to itself.  *)
LEMMA DistBounds ==
  ASSUME NEW a \in Slots, NEW b \in Slots
  PROVE  /\ Dist(a, b) \in 0 .. NumTx - 1
         /\ Dist(a, b) = 0 <=> a = b
BY TxAssumption DEF Slots, Dist

(* Slots at the same distance are the same.                                *)
LEMMA DistInjective ==
  ASSUME NEW a \in Slots, NEW b \in Slots, NEW c \in Slots, Dist(a, b) = Dist(a, c)
  PROVE  b = c
BY TxAssumption DEF Slots, Dist

(* Moving the end on by one slot adds one, unless the ring is full.        *)
LEMMA DistAdvanceEnd ==
  ASSUME NEW a \in Slots, NEW b \in Slots, Dist(a, b) < NumTx - 1
  PROVE  Dist(a, NEXT_TX(b)) = Dist(a, b) + 1
BY NextTx, TxAssumption DEF Slots, Dist

(* Moving the start on by one slot takes one away.                         *)
LEMMA DistAdvanceStart ==
  ASSUME NEW a \in Slots, NEW b \in Slots, a # b
  PROVE  Dist(NEXT_TX(a), b) = Dist(a, b) - 1
BY NextTx, TxAssumption DEF Slots, Dist

(* Distances of consecutive stretches add up within the ring.              *)
LEMMA DistSum ==
  ASSUME NEW a \in Slots, NEW b \in Slots, NEW c \in Slots,
         Dist(a, b) + Dist(b, c) < NumTx
  PROVE  Dist(a, c) = Dist(a, b) + Dist(b, c)
BY TxAssumption DEF Slots, Dist

-----------------------------------------------------------------------------
(* A step of one thread leaves the locals of the others alone.             *)
SameLocals(u) ==
  /\ pc'[u] = pc[u] /\ npkt'[u] = npkt[u] /\ tot_iov'[u] = tot_iov[u]
  /\ idx'[u] = idx[u] /\ filled'[u] = filled[u] /\ reaped'[u] = reaped[u]

OthersSame(t) == \A u \in Threads \ {t} : SameLocals(u)

(* A step of thread t that does not touch the ring preserves the invariant *)
(* when it does so for t itself.                                           *)
LEMMA QuietStep ==
  ASSUME RingInv, NEW t \in Threads, OthersSame(t), UNCHANGED ringVars,
         TxTypeOK', MutexHeld', ReapLocals(t)',
         t \in Senders => SenderLocals(t)' /\ FillProgress(t)',
         pc[t] \in {"fill", "queue"} => pc'[t] \in {"fill", "queue"}
  PROVE  RingInv'
<1>1. \A u \in Senders \ {t} : SenderLocals(u)' /\ FillProgress(u)'
  BY DEF RingInv, OthersSame, SameLocals, SenderLocals, FillProgress, ringVars,
     Threads, Dist
<1>2. \A u \in Threads \ {t} : ReapLocals(u)'
  BY DEF RingInv, OthersSame, SameLocals, ReapLocals, ringVars
<1>3. InRing'
  <2>1. Filling' = {} => Filling = {}
    BY DEF OthersSame, SameLocals, Filling, Threads
  <2> QED
    BY <2>1 DEF RingInv, InRing, ringVars, Dist
<1> QED
  BY <1>1, <1>2, <1>3 DEF RingInv

(* While t holds the lock the others are outside it, and what t does to    *)
(* the ring does not matter to them.                                       *)
LEMMA OthersUnlocked ==
  ASSUME RingInv, NEW t \in Threads, tx_mutex = t, OthersSame(t)
  PROVE  /\ \A u \in Senders \ {t} : SenderLocals(u)' /\ FillProgress(u)'
         /\ \A u \in Threads \ {t} : ReapLocals(u)'
BY DEF RingInv, MutexHeld, OthersSame, SameLocals, SenderLocals, FillProgress,
       ReapLocals, Locked, Threads

(* A call of mx35_fec_send preserves the invariant.                        *)
LEMMA RingInvSend ==
  ASSUME RingInv, NEW t \in Senders, NEW p \in Packets, NEW n \in 1 .. MaxIov, Send(t,
         p, n)
  PROVE  RingInv'
<1>1. /\ t \in Threads /\ OthersSame(t) /\ UNCHANGED ringVars
      /\ pc[t] = "idle" /\ pc'[t] = IF n > DEFRAG_LIMIT THEN "defrag" ELSE "lock"
      /\ npkt'[t] = p /\ tot_iov'[t] = n /\ filled'[t] = filled[t] /\ reaped'[t] = reaped[t]
  BY DEF RingInv, TxTypeOK, Send, Goto, OthersSame, SameLocals, Threads
<1>2. TxTypeOK'
  BY DEF RingInv, TxTypeOK, Send, Goto, Threads, Npkts, ringVars, hwVars
<1>3. MutexHeld'
  BY <1>1, TxAssumption
     DEF RingInv, MutexHeld, OthersSame, SameLocals, Send, Locked, Threads
<1>4. SenderLocals(t)' /\ FillProgress(t)' /\ ReapLocals(t)'
  BY <1>1, TxAssumption
     DEF RingInv, SenderLocals, FillProgress, ReapLocals, Lockers, Locked, Npkts
<1> QED
  BY <1>1, <1>2, <1>3, <1>4, QuietStep

(* The fill loop preserves it: a slot at a time, and never a busy one.     *)
LEMMA RingInvFill ==
  ASSUME RingInv, NEW t \in Senders, Fill(t)
  PROVE  RingInv'
<1>1. /\ pc[t] = "fill" /\ tx_mutex = t /\ t \in Threads /\ t # Driver
      /\ idx[t] \in Slots /\ tx_q_len \in Nat /\ filled[t] \in Nat /\ tot_iov[t] \in 1 .. MaxIov
      /\ npkt[t] \in Npkts /\ tx_pidx \in Slots /\ tx_cidx \in Slots /\ filled[t] < tot_iov[t]
  BY TxAssumption DEF RingInv, TxTypeOK, MutexHeld, SenderLocals, FillProgress,
     Threads, Locked, Lockers, Fill
<1>2. /\ tx_q_len = Dist(tx_cidx, tx_pidx) + filled[t]
      /\ Dist(tx_pidx, idx[t]) = filled[t]
      /\ Dist(tx_cidx, tx_pidx) + tot_iov[t] < NumTx
  BY <1>1 DEF RingInv, FillProgress
<1>3. Dist(tx_cidx, idx[t]) = tx_q_len /\ tx_q_len < NumTx - 1
  BY <1>1, <1>2, DistSum, DistBounds, TxAssumption
<1>4. ~tx_bd[idx[t]].ready
  BY <1>1, <1>3 DEF RingInv, InRing
<1>5. FillFree(t) /\ UNCHANGED <<tx_pktq, tx_pidx, tx_cidx, tx_pkts_queued, reaped, hwVars>>
  BY <1>4 DEF Fill
<1>7. NEXT_TX(idx[t]) \in Slots
  BY <1>1, NextTx
<1>8. TxTypeOK'
  <2>1. NextBuffer(t) \in Buffers
    BY <1>1, TxAssumption DEF NextBuffer, Buffers
  <2>2. tx_bd' \in [Slots -> Descriptors]
    BY <2>1, <1>1, <1>5
       DEF RingInv, TxTypeOK, FillFree, ReadyAtOnce, SetReady, SetBuffer, Descriptors
  <2>3. pc' \in [Threads -> {"idle", "defrag", "lock"} \cup Locked]
    BY <1>1, <1>5 DEF RingInv, TxTypeOK, FillFree, Goto, Locked
  <2>4. filled' \in [Threads -> 0 .. MaxIov] /\ idx' \in [Threads -> Slots] /\ tx_q_len' \in 0 .. NumTx - 1
    BY <1>1, <1>3, <1>5, <1>7, TxAssumption DEF RingInv, TxTypeOK, FillFree
  <2> QED
    BY <2>2, <2>3, <2>4, <1>5 DEF RingInv, TxTypeOK, FillFree, hwVars
<1>9. MutexHeld'
  BY <1>1, <1>5 DEF RingInv, TxTypeOK, MutexHeld, FillFree, Goto, Locked, Threads
<1>10. /\ OthersSame(t)
       /\ tx_pidx' = tx_pidx /\ tx_cidx' = tx_cidx /\ reaped' = reaped
       /\ idx'[t] = NEXT_TX(idx[t]) /\ filled'[t] = filled[t] + 1
       /\ tx_q_len' = tx_q_len + 1 /\ tot_iov' = tot_iov /\ npkt' = npkt
       /\ pc'[t] = IF filled[t] + 1 = tot_iov[t] THEN "queue" ELSE "fill"
  BY <1>1, <1>5 DEF RingInv, TxTypeOK, FillFree, Goto, Threads, OthersSame, SameLocals
<1>11. SenderLocals(t)' /\ FillProgress(t)' /\ ReapLocals(t)'
  <2>1. Dist(tx_pidx, NEXT_TX(idx[t])) = filled[t] + 1
    BY <1>1, <1>2, <1>3, DistAdvanceEnd, DistBounds, TxAssumption
  <2>2. Dist(tx_pidx', idx'[t]) = filled[t] + 1 /\ Dist(tx_cidx', tx_pidx') = Dist(tx_cidx, tx_pidx)
    BY <2>1, <1>10
  <2>3. FillProgress(t)'
    BY <2>2, <1>1, <1>2, <1>10, DistBounds, TxAssumption DEF FillProgress
  <2> QED
    BY <2>3, <1>1, <1>10 DEF RingInv, SenderLocals, ReapLocals, Lockers, Locked
<1>12. InRing'
  <2>1. /\ tx_pidx' = tx_pidx /\ tx_cidx' = tx_cidx /\ tx_pktq' = tx_pktq
        /\ tx_q_len' = tx_q_len + 1 /\ tx_pkts_queued' = tx_pkts_queued
        /\ \A i \in Slots : tx_bd'[i].wrap = tx_bd[i].wrap
        /\ \A i \in Slots \ {idx[t]} : tx_bd'[i].ready = tx_bd[i].ready
    BY <1>1, <1>5 DEF RingInv, TxTypeOK, FillFree, SetReady, SetBuffer
  <2>2. Filling' # {}
    BY <1>1, <1>5 DEF RingInv, TxTypeOK, FillFree, Goto, Filling
  <2>3. \A i \in Slots : tx_bd'[i].ready => Dist(tx_cidx, i) < tx_q_len + 1
    BY <1>1, <1>3, <2>1, DistBounds, TxAssumption DEF RingInv, InRing
  <2> QED
    BY <2>1, <2>2, <2>3 DEF RingInv, InRing, Dist
<1> QED
  BY <1>1, <1>8, <1>9, <1>10, <1>11, <1>12, OthersUnlocked DEF RingInv

(* A successful defragmentation preserves it.                              *)
LEMMA RingInvDefragCopy ==
  ASSUME RingInv, NEW t \in Senders, NEW c \in Copies, DefragCopy(t, c)
  PROVE  RingInv'
<1>1. /\ t \in Threads /\ OthersSame(t) /\ UNCHANGED ringVars
      /\ pc[t] = "defrag" /\ pc'[t] = "lock"
      /\ npkt'[t] = c /\ tot_iov'[t] = 1 /\ filled'[t] = filled[t] /\ reaped'[t] = reaped[t]
  BY DEF RingInv, TxTypeOK, DefragCopy, Goto, OthersSame, SameLocals, Threads
<1>2. tot_iov[t] \in 1 .. MaxIov /\ 1 \in 1 .. MaxIov
  BY <1>1, TxAssumption DEF RingInv, SenderLocals, Lockers
<1>3. TxTypeOK'
  BY <1>2, TxAssumption
     DEF RingInv, TxTypeOK, DefragCopy, Goto, Threads, Npkts, ringVars, hwVars
<1>4. MutexHeld'
  BY <1>1, TxAssumption
     DEF RingInv, MutexHeld, OthersSame, SameLocals, DefragCopy, Locked, Threads
<1>5. SenderLocals(t)' /\ FillProgress(t)' /\ ReapLocals(t)'
  BY <1>1, <1>2, TxAssumption
     DEF RingInv, SenderLocals, FillProgress, ReapLocals, Lockers, Locked, Npkts
<1> QED
  BY <1>1, <1>3, <1>4, <1>5, QuietStep

(* A failed defragmentation preserves it.                                  *)
LEMMA RingInvDefragFail ==
  ASSUME RingInv, NEW t \in Senders, DefragFail(t)
  PROVE  RingInv'
<1>1. /\ t \in Threads /\ OthersSame(t) /\ UNCHANGED ringVars
      /\ pc[t] = "defrag" /\ pc'[t] = "idle"
      /\ filled'[t] = 0 /\ reaped'[t] = reaped[t]
  BY DEF RingInv, TxTypeOK, DefragFail, Return, Goto, OthersSame, SameLocals, Threads
<1>2. TxTypeOK'
  BY <1>1, TxAssumption
     DEF RingInv, TxTypeOK, DefragFail, Return, Release, Goto, Slots, ringVars, hwVars
<1>3. MutexHeld'
  BY <1>1, TxAssumption
     DEF RingInv, MutexHeld, OthersSame, SameLocals, DefragFail, Locked, Threads
<1>4. SenderLocals(t)' /\ FillProgress(t)' /\ ReapLocals(t)'
  BY <1>1 DEF RingInv, SenderLocals, FillProgress, ReapLocals, Lockers, Locked
<1> QED
  BY <1>1, <1>2, <1>3, <1>4, QuietStep

(* The call of mx35_fec_download_complete preserves it.                    *)
LEMMA RingInvDownload ==
  ASSUME RingInv, Download
  PROVE  RingInv'
<1>1. /\ Driver \in Threads /\ Driver \notin Senders
      /\ OthersSame(Driver) /\ UNCHANGED ringVars
      /\ pc[Driver] = "idle" /\ pc'[Driver] = "lock" /\ reaped'[Driver] = reaped[Driver]
  BY TxAssumption DEF RingInv, TxTypeOK, Download, Goto, OthersSame, SameLocals, Threads
<1>2. TxTypeOK'
  BY DEF RingInv, TxTypeOK, Download, Goto, ringVars, hwVars
<1>3. MutexHeld'
  BY <1>1 DEF RingInv, MutexHeld, OthersSame, SameLocals, Download, Locked, Threads
<1>4. ReapLocals(Driver)'
  BY <1>1 DEF RingInv, ReapLocals
<1> QED
  BY <1>1, <1>2, <1>3, <1>4, QuietStep

(* Taking tx_mutex preserves it.                                           *)
LEMMA RingInvLock ==
  ASSUME RingInv, NEW t \in Threads, Lock(t)
  PROVE  RingInv'
<1>1. /\ OthersSame(t) /\ UNCHANGED ringVars
      /\ pc[t] = "lock" /\ pc'[t] \in {"reap", "check"} /\ (t = Driver => pc'[t] = "reap")
      /\ npkt'[t] = npkt[t] /\ tot_iov'[t] = tot_iov[t]
      /\ filled'[t] = filled[t] /\ reaped'[t] = reaped[t]
  BY DEF RingInv, TxTypeOK, Lock, Goto, OthersSame, SameLocals
<1>2. TxTypeOK'
  BY DEF RingInv, TxTypeOK, Lock, Goto, Locked, ringVars, hwVars
<1>3. MutexHeld'
  <2>1. tx_mutex = None /\ tx_mutex' = t /\ None \notin Threads
    BY TxAssumption DEF Lock, Threads
  <2>2. \A u \in Threads : pc[u] \notin Locked
    BY <2>1 DEF RingInv, MutexHeld
  <2>3. \A u \in Threads : pc'[u] \in Locked <=> tx_mutex' = u
    BY <1>1, <2>1, <2>2 DEF OthersSame, SameLocals, Locked
  <2>4. pc'[Driver] \in {"idle", "lock", "reap"}
    BY <1>1 DEF RingInv, MutexHeld, OthersSame, SameLocals, Threads
  <2> QED
    BY <2>3, <2>4 DEF MutexHeld
<1>4. ReapLocals(t)'
  <2>1. reaped[t] = 0 /\ tx_q_len' = tx_q_len /\ tx_q_len < NumTx /\ tx_q_len \in Nat
    BY <1>1, TxAssumption DEF RingInv, TxTypeOK, ReapLocals, ringVars
  <2> QED
    BY <1>1, <2>1 DEF ReapLocals
<1>5. t \in Senders => SenderLocals(t)' /\ FillProgress(t)'
  BY <1>1 DEF RingInv, SenderLocals, FillProgress, Lockers, Locked
<1> QED
  BY <1>1, <1>2, <1>3, <1>4, <1>5, QuietStep

(* What AfterReap does to the lock, whoever reaps.                         *)
LEMMA AfterReapMutex ==
  ASSUME RingInv, NEW t \in Threads, pc[t] = "reap", AfterReap(t)
  PROVE  /\ MutexHeld'
         /\ pc'[t] \in {"idle", "check"} /\ reaped'[t] = 0
         /\ tx_mutex = t
         /\ \A u \in Threads \ {t} : pc'[u] = pc[u] /\ reaped'[u] = reaped[u]
         /\ pc' \in [Threads -> {"idle", "defrag", "lock"} \cup Locked]
         /\ reaped' \in [Threads -> 0 .. NumTx]
         /\ tx_mutex' \in Threads \cup {None}
<1>1. /\ pc'[t] = (IF t = Driver THEN "idle" ELSE "check") /\ reaped'[t] = 0
      /\ \A u \in Threads \ {t} : pc'[u] = pc[u] /\ reaped'[u] = reaped[u]
      /\ tx_mutex' = (IF t = Driver THEN None ELSE t)
  BY DEF RingInv, TxTypeOK, AfterReap, Goto
<1>2. tx_mutex = t /\ None \notin Threads /\ Driver \in Threads
  BY TxAssumption DEF RingInv, MutexHeld, Locked, Threads
<1>3. \A u \in Threads \ {t} : pc[u] \notin Locked
  BY <1>2 DEF RingInv, MutexHeld
<1>4. MutexHeld'
  <2>1. \A u \in Threads : pc'[u] \in Locked <=> tx_mutex' = u
    BY <1>1, <1>2, <1>3 DEF Locked
  <2>2. pc'[Driver] \in {"idle", "lock", "reap"}
    BY <1>1, <1>2 DEF RingInv, MutexHeld
  <2> QED
    BY <2>1, <2>2 DEF MutexHeld
<1>5. pc' \in [Threads -> {"idle", "defrag", "lock"} \cup Locked]
  BY DEF RingInv, TxTypeOK, AfterReap, Goto, Locked
<1>6. reaped' \in [Threads -> 0 .. NumTx] /\ tx_mutex' \in Threads \cup {None}
  BY <1>1, <1>2, TxAssumption DEF RingInv, TxTypeOK, AfterReap
<1> QED
  BY <1>1, <1>2, <1>4, <1>5, <1>6

(* The reaper stops at a slot the engine owns, or with nothing queued.     *)
LEMMA RingInvReapStop ==
  ASSUME RingInv, NEW t \in Threads, ReapStop(t)
  PROVE  RingInv'
<1>1. pc[t] = "reap" /\ AfterReap(t)
      /\ UNCHANGED <<ringVars, npkt, tot_iov, idx, filled, held, hwVars>>
  BY DEF ReapStop
<1>2. /\ MutexHeld' /\ OthersSame(t) /\ pc'[t] \in {"idle", "check"} /\ reaped'[t] = 0
      /\ TxTypeOK'
  BY <1>1, AfterReapMutex
     DEF RingInv, TxTypeOK, OthersSame, SameLocals, ringVars, hwVars
<1>3. ReapLocals(t)'
  BY <1>2 DEF ReapLocals
<1>4. t \in Senders => SenderLocals(t)' /\ FillProgress(t)'
  BY <1>1, <1>2 DEF RingInv, SenderLocals, FillProgress, Lockers, Locked
<1> QED
  BY <1>1, <1>2, <1>3, <1>4, QuietStep

(* The lock is free and t is back outside.                                 *)
LEMMA Unlocked ==
  ASSUME RingInv, NEW t \in Senders, tx_mutex = t, tx_mutex' = None, Return(t)
  PROVE  /\ MutexHeld'
         /\ \A u \in Threads \ {t} :
              /\ pc'[u] = pc[u] /\ npkt'[u] = npkt[u] /\ tot_iov'[u] = tot_iov[u]
              /\ idx'[u] = idx[u] /\ filled'[u] = filled[u]
         /\ pc'[t] = "idle" /\ filled'[t] = 0 /\ t \in Threads /\ t # Driver
         /\ pc' \in [Threads -> {"idle", "defrag", "lock"} \cup Locked]
         /\ npkt' \in [Threads -> Npkts \cup {None}]
         /\ tot_iov' \in [Threads -> 0 .. MaxIov]
         /\ idx' \in [Threads -> Slots]
         /\ filled' \in [Threads -> 0 .. MaxIov]
<1>1. t \in Threads /\ t # Driver /\ None \notin Threads /\ Driver \in Threads
  BY TxAssumption DEF Threads
<1>2. /\ \A u \in Threads \ {t} :
           /\ pc'[u] = pc[u] /\ npkt'[u] = npkt[u] /\ tot_iov'[u] = tot_iov[u]
           /\ idx'[u] = idx[u] /\ filled'[u] = filled[u]
      /\ pc'[t] = "idle" /\ filled'[t] = 0
  BY <1>1 DEF RingInv, TxTypeOK, Return, Goto
<1>3. MutexHeld'
  <2>1. \A u \in Threads : pc'[u] \notin Locked
    BY <1>1, <1>2 DEF RingInv, MutexHeld, Locked
  <2> QED
    BY <1>1, <1>2, <2>1 DEF RingInv, MutexHeld
<1>4. pc' \in [Threads -> {"idle", "defrag", "lock"} \cup Locked]
  BY DEF RingInv, TxTypeOK, Return, Goto
<1>5. npkt' \in [Threads -> Npkts \cup {None}]
  BY DEF RingInv, TxTypeOK, Return
<1>6. tot_iov' \in [Threads -> 0 .. MaxIov] /\ filled' \in [Threads -> 0 .. MaxIov]
  BY TxAssumption DEF RingInv, TxTypeOK, Return
<1>7. idx' \in [Threads -> Slots]
  BY TxAssumption DEF RingInv, TxTypeOK, Return, Slots
<1> QED
  BY <1>1, <1>2, <1>3, <1>4, <1>5, <1>6, <1>7

(* A sender that finds no room gives the packet back and returns.          *)
LEMMA RingInvNoRoom ==
  ASSUME RingInv, NEW t \in Senders, NoRoom(t)
  PROVE  RingInv'
<1>1. /\ pc[t] = "check" /\ tx_mutex' = None /\ Return(t) /\ held' \subseteq held
      /\ UNCHANGED <<ringVars, reaped, hwVars>>
  BY DEF NoRoom, GiveUp, Release
<1>2. tx_mutex = t
  BY <1>1 DEF RingInv, MutexHeld, Locked, Threads
<1>3. /\ MutexHeld' /\ OthersSame(t) /\ pc'[t] = "idle" /\ filled'[t] = 0 /\ t \in Threads
      /\ TxTypeOK'
  BY <1>1, <1>2, Unlocked
     DEF RingInv, TxTypeOK, OthersSame, SameLocals, ringVars, hwVars
<1>4. SenderLocals(t)' /\ FillProgress(t)' /\ ReapLocals(t)'
  BY <1>1, <1>3 DEF RingInv, SenderLocals, FillProgress, ReapLocals, Lockers, Locked
<1> QED
  BY <1>1, <1>3, <1>4, QuietStep

(* A sender that finds room begins to fill at tx_pidx.                     *)
LEMMA RingInvBegin ==
  ASSUME RingInv, NEW t \in Senders, Begin(t)
  PROVE  RingInv'
<1>1. /\ t \in Threads /\ t # Driver /\ OthersSame(t) /\ UNCHANGED ringVars
      /\ pc[t] = "check" /\ pc'[t] = "fill" /\ tot_iov[t] + 1 <= NumTx - tx_q_len
      /\ idx'[t] = tx_pidx /\ npkt'[t] = npkt[t] /\ tot_iov'[t] = tot_iov[t]
      /\ filled'[t] = filled[t] /\ reaped'[t] = reaped[t] /\ tx_mutex' = tx_mutex
  BY TxAssumption
     DEF RingInv, TxTypeOK, Begin, Room, Goto, OthersSame, SameLocals, Threads
<1>2. TxTypeOK'
  BY <1>1 DEF RingInv, TxTypeOK, Begin, Goto, Locked, ringVars, hwVars
<1>3. MutexHeld'
  BY <1>1 DEF RingInv, MutexHeld, OthersSame, SameLocals, Locked, Threads
<1>4. SenderLocals(t)' /\ ReapLocals(t)'
  BY <1>1 DEF RingInv, SenderLocals, ReapLocals, Lockers, Locked
<1>5. FillProgress(t)'
  <2>1. /\ tx_mutex = t /\ filled[t] = 0 /\ tot_iov[t] \in 1 .. MaxIov
        /\ tx_pidx \in Slots /\ tx_cidx \in Slots /\ tx_q_len \in Nat
    BY <1>1, TxAssumption
       DEF RingInv, TxTypeOK, MutexHeld, SenderLocals, Lockers, Locked, Threads
  <2>2. Filling = {}
    BY <1>1, <2>1 DEF RingInv, MutexHeld, Filling, Locked, Threads
  <2>3. tx_q_len = Dist(tx_cidx, tx_pidx) /\ Dist(tx_pidx, tx_pidx) = 0
    BY <2>1, <2>2, DistBounds DEF RingInv, InRing
  <2>4. Dist(tx_cidx, tx_pidx)' = Dist(tx_cidx, tx_pidx) /\ Dist(tx_pidx', idx'[t]) = 0
        /\ tx_q_len' = tx_q_len
    BY <1>1, <2>3 DEF ringVars, Dist
  <2> QED
    BY <1>1, <2>1, <2>3, <2>4, TxAssumption DEF FillProgress
<1> QED
  BY <1>1, <1>2, <1>3, <1>4, <1>5, QuietStep

(* The recorded packets can be counted.                                    *)
LEMMA RecordedFinite ==
  ASSUME RingInv
  PROVE  IsFiniteSet(TxFirsts) /\ tx_pkts_queued = Cardinality(TxFirsts)
<1>1. IsFiniteSet(Slots)
  BY FS_Interval, TxAssumption DEF Slots
<1>2. IsFiniteSet(TxFirsts)
  BY <1>1, FS_Subset DEF TxFirsts
<1> QED
  BY <1>2 DEF RingInv, InRing, TxFirsts

(* A reaper that finds something to reap finds a slot before tx_pidx.      *)
LEMMA ReapNotEmpty ==
  ASSUME RingInv, NEW t \in Threads, ReapOne(t)
  PROVE  tx_cidx # tx_pidx
<1>1. CASE reaped[t] > 0
  BY <1>1 DEF RingInv, ReapLocals, ReapOne
<1>2. CASE reaped[t] = 0 /\ tx_cidx = tx_pidx
  <2>1. tx_pkts_queued # 0
    BY <1>2 DEF ReapOne, NothingQueued
  <2>2. TxFirsts # {}
    BY <2>1, RecordedFinite, FS_EmptySet
  <2>3. PICK i \in Slots : tx_pktq[i] # None
    BY <2>2 DEF TxFirsts
  <2> QED BY <2>3, <1>2, DistBounds DEF RingInv, TxTypeOK, InRing
<1>3. reaped[t] \in Nat
  BY DEF RingInv, TxTypeOK
<1> QED BY <1>1, <1>2, <1>3

(* Reaping one slot moves tx_cidx and the counts together.                 *)
LEMMA RingInvReapOne ==
  ASSUME RingInv, NEW t \in Threads, ReapOne(t)
  PROVE  RingInv'
<1>1. /\ tx_mutex = t /\ pc[t] = "reap" /\ tx_pidx \in Slots /\ tx_cidx \in Slots
      /\ tx_q_len \in Nat /\ reaped[t] \in Nat /\ reaped[t] + tx_q_len < NumTx
      /\ NumTx \in Nat /\ ~tx_bd[tx_cidx].ready
  BY TxAssumption
     DEF RingInv, TxTypeOK, MutexHeld, ReapLocals, ReapOne, HwOwns, Locked
<1>2. Filling = {} /\ tx_q_len = Dist(tx_cidx, tx_pidx)
  <2>1. Filling = {}
    BY <1>1 DEF RingInv, MutexHeld, Filling, Locked, Threads
  <2> QED
    BY <2>1 DEF RingInv, InRing
<1>3. tx_cidx # tx_pidx
  BY ReapNotEmpty
<1>4. /\ tx_cidx' = NEXT_TX(tx_cidx) /\ tx_cidx' \in Slots
      /\ tx_q_len' = tx_q_len - 1 /\ tx_q_len > 0 /\ tx_pidx' = tx_pidx
      /\ Dist(tx_cidx', tx_pidx) = Dist(tx_cidx, tx_pidx) - 1
      /\ \A i \in Slots \ {tx_cidx} : Dist(tx_cidx', i) = Dist(tx_cidx, i) - 1
  BY <1>1, <1>2, <1>3, NextTx, DistBounds, DistAdvanceStart DEF ReapOne
<1>5. /\ tx_bd' \in [Slots -> Descriptors]
      /\ tx_pktq' \in [Slots -> Npkts \cup {None}]
      /\ \A i \in Slots : tx_bd'[i].wrap <=> i = NumTx - 1
      /\ ~tx_bd'[tx_cidx].ready /\ tx_pktq'[tx_cidx] = None
      /\ \A i \in Slots \ {tx_cidx} : tx_bd'[i] = tx_bd[i] /\ tx_pktq'[i] = tx_pktq[i]
  BY <1>1 DEF RingInv, TxTypeOK, InRing, ReapOne, Reaped, Descriptors
<1>6. tx_pkts_queued' \in Nat /\ tx_pkts_queued' = Cardinality(TxFirsts')
  <2>1. TxFirsts' = TxFirsts \ {tx_cidx}
    BY <1>5 DEF TxFirsts
  <2>2. tx_pkts_queued \in Nat
    BY DEF RingInv, TxTypeOK
  <2>3. CASE tx_pktq[tx_cidx] # None
    <3>1. tx_cidx \in TxFirsts
      BY <2>3, <1>1 DEF TxFirsts
    <3>2. Cardinality(TxFirsts') = tx_pkts_queued - 1
      BY <2>1, <3>1, RecordedFinite, FS_RemoveElement
    <3>3. tx_pkts_queued # 0
      BY <3>1, RecordedFinite, FS_EmptySet
    <3>4. tx_pkts_queued' = tx_pkts_queued - 1
      BY <2>3 DEF ReapOne
    <3> QED
      BY <2>2, <3>2, <3>3, <3>4
  <2>4. CASE tx_pktq[tx_cidx] = None
    <3>1. TxFirsts' = TxFirsts
      BY <2>1, <2>4 DEF TxFirsts
    <3>2. tx_pkts_queued' = tx_pkts_queued
      BY <2>4 DEF ReapOne
    <3> QED
      BY <3>1, <3>2, <2>2, RecordedFinite
  <2> QED
    BY <2>3, <2>4
<1>7. /\ MutexHeld' /\ OthersSame(t)
      /\ pc' \in [Threads -> {"idle", "defrag", "lock"} \cup Locked]
      /\ reaped' \in [Threads -> 0 .. NumTx]
      /\ tx_mutex' \in Threads \cup {None}
      /\ \/ pc'[t] \in {"idle", "check"} /\ reaped'[t] = 0
         \/ pc'[t] = "reap" /\ reaped'[t] = reaped[t] + 1 /\ tx_cidx' # tx_pidx
  <2>1. UNCHANGED <<npkt, tot_iov, idx, filled>>
    BY DEF ReapOne
  <2>2. CASE AfterReap(t)
    BY <1>1, <2>1, <2>2, AfterReapMutex DEF OthersSame, SameLocals
  <2>3. CASE /\ reaped' = [reaped EXCEPT ![t] = @ + 1] /\ tx_cidx' # tx_pidx
             /\ UNCHANGED <<pc, tx_mutex>>
    <3>1. reaped' \in [Threads -> 0 .. NumTx] /\ reaped'[t] = reaped[t] + 1
      BY <1>1, <2>3 DEF RingInv, TxTypeOK
    <3>2. MutexHeld'
      BY <2>3 DEF RingInv, MutexHeld
    <3>3. OthersSame(t)
      BY <2>1, <2>3 DEF RingInv, TxTypeOK, OthersSame, SameLocals
    <3> QED
      BY <1>1, <2>3, <3>1, <3>2, <3>3 DEF RingInv, TxTypeOK
  <2> QED
    BY <2>2, <2>3 DEF ReapOne
<1>8. TxTypeOK'
  <2>1. held' \subseteq Npkts
    BY DEF RingInv, TxTypeOK, ReapOne, Release
  <2>2. tx_q_len' \in 0 .. NumTx - 1
    BY <1>1, <1>4
  <2> QED
    BY <1>4, <1>5, <1>6, <1>7, <2>1, <2>2 DEF RingInv, TxTypeOK, ReapOne, hwVars
<1>9. InRing'
  <2>1. \A i \in Slots : tx_bd'[i].ready => Dist(tx_cidx', i) < tx_q_len'
    BY <1>1, <1>4, <1>5, DistBounds DEF RingInv, InRing
  <2>2. \A i \in Slots : tx_pktq'[i] # None => Dist(tx_cidx', i) < Dist(tx_cidx', tx_pidx')
    BY <1>1, <1>4, <1>5, DistBounds DEF RingInv, InRing
  <2>3. tx_q_len' = Dist(tx_cidx', tx_pidx')
    BY <1>2, <1>4
  <2> QED
    BY <1>5, <1>6, <2>1, <2>2, <2>3 DEF InRing, TxFirsts, Dist
<1>10. ReapLocals(t)'
  BY <1>1, <1>4, <1>7 DEF ReapLocals
<1>11. t \in Senders => SenderLocals(t)' /\ FillProgress(t)'
  BY <1>1, <1>7 DEF RingInv, ReapOne, SenderLocals, FillProgress, Lockers, Locked
<1> QED
  BY <1>1, <1>7, <1>8, <1>9, <1>10, <1>11, OthersUnlocked DEF RingInv

(* Recording the packet and moving tx_pidx preserves it.                   *)
LEMMA RingInvQueue ==
  ASSUME RingInv, NEW t \in Senders, Queue(t)
  PROVE  RingInv'
<1>1. /\ pc[t] = "queue" /\ tx_mutex = t /\ t \in Threads /\ t # Driver
      /\ idx[t] \in Slots /\ tx_pidx \in Slots /\ tx_cidx \in Slots
      /\ tx_q_len \in Nat /\ tot_iov[t] \in 1 .. MaxIov /\ filled[t] = tot_iov[t]
      /\ npkt[t] \in Npkts /\ tx_pkts_queued \in Nat /\ NumTx \in Nat
  BY TxAssumption
     DEF RingInv, TxTypeOK, MutexHeld, SenderLocals, FillProgress, Threads, Locked, Lockers, Queue
<1>2. /\ tx_q_len = Dist(tx_cidx, tx_pidx) + filled[t]
      /\ Dist(tx_pidx, idx[t]) = filled[t]
      /\ Dist(tx_cidx, tx_pidx) + tot_iov[t] < NumTx
  BY <1>1 DEF RingInv, FillProgress
<1>3. Dist(tx_cidx, idx[t]) = tx_q_len /\ Dist(tx_cidx, tx_pidx) < tx_q_len
  BY <1>1, <1>2, DistSum, DistBounds
<1>4. /\ tx_bd' \in [Slots -> Descriptors]
      /\ \A i \in Slots : tx_bd'[i].ready = tx_bd[i].ready /\ tx_bd'[i].wrap = tx_bd[i].wrap
  BY <1>1, PrevTx DEF RingInv, TxTypeOK, Queue, SetLast, Descriptors
<1>5. /\ OthersSame(t) /\ pc'[t] = "kick" /\ idx'[t] = tx_pidx
      /\ npkt'[t] = npkt[t] /\ tot_iov'[t] = tot_iov[t] /\ filled'[t] = filled[t]
      /\ reaped'[t] = reaped[t] /\ tx_pidx' = idx[t]
      /\ UNCHANGED <<tx_cidx, tx_q_len, tx_mutex>>
  BY <1>1 DEF RingInv, TxTypeOK, Queue, Goto, OthersSame, SameLocals
<1>6. /\ tx_pktq' \in [Slots -> Npkts \cup {None}]
      /\ tx_pktq'[tx_pidx] # None
      /\ \A i \in Slots \ {tx_pidx} : tx_pktq'[i] = tx_pktq[i]
  BY <1>1, TxAssumption DEF RingInv, TxTypeOK, Queue, Npkts
<1>7. tx_pkts_queued' \in Nat /\ tx_pkts_queued' = Cardinality(TxFirsts')
  <2>1. tx_pidx \notin TxFirsts
    BY <1>1, DistBounds DEF RingInv, InRing, TxFirsts
  <2>2. TxFirsts' = TxFirsts \cup {tx_pidx}
    BY <1>1, <1>6 DEF TxFirsts
  <2>3. Cardinality(TxFirsts') = tx_pkts_queued + 1
    BY <2>1, <2>2, RecordedFinite, FS_AddElement
  <2> QED
    BY <1>1, <2>3 DEF Queue
<1>8. TxTypeOK'
  <2>1. pc' \in [Threads -> {"idle", "defrag", "lock"} \cup Locked]
    BY DEF RingInv, TxTypeOK, Queue, Goto, Locked
  <2>2. idx' \in [Threads -> Slots]
    BY <1>1 DEF RingInv, TxTypeOK, Queue
  <2> QED
    BY <1>1, <1>4, <1>6, <1>7, <2>1, <2>2 DEF RingInv, TxTypeOK, Queue, hwVars
<1>9. MutexHeld'
  BY <1>1, <1>5 DEF RingInv, MutexHeld, OthersSame, SameLocals, Locked, Threads
<1>10. InRing'
  <2>1. \A i \in Slots : tx_pktq'[i] # None => Dist(tx_cidx', i) < Dist(tx_cidx', tx_pidx')
    BY <1>1, <1>3, <1>5, <1>6, DistBounds DEF RingInv, InRing
  <2>2. \A i \in Slots : tx_bd'[i].ready => Dist(tx_cidx', i) < tx_q_len'
    BY <1>4, <1>5 DEF RingInv, InRing
  <2>3. \A i \in Slots : tx_bd'[i].wrap <=> i = NumTx - 1
    BY <1>4 DEF RingInv, InRing
  <2>4. tx_q_len' = Dist(tx_cidx', tx_pidx')
    BY <1>3, <1>5
  <2> QED
    BY <1>7, <2>1, <2>2, <2>3, <2>4 DEF InRing, TxFirsts, Dist
<1>11. SenderLocals(t)' /\ ReapLocals(t)'
  BY <1>1, <1>5 DEF RingInv, SenderLocals, ReapLocals, Lockers, Locked
<1>12. FillProgress(t)'
  <2>1. Dist(tx_cidx', idx'[t]) < tx_q_len'
    BY <1>3, <1>5
  <2> QED
    BY <2>1, <1>5 DEF FillProgress
<1> QED
  BY <1>1, <1>5, <1>8, <1>9, <1>10, <1>11, <1>12, OthersUnlocked DEF RingInv

(* Making the first descriptor ready and starting the engine preserves it. *)
LEMMA RingInvKick ==
  ASSUME RingInv, NEW t \in Senders, Kick(t)
  PROVE  RingInv'
<1>1. /\ pc[t] = "kick" /\ tx_mutex = t /\ tx_mutex' = None /\ Return(t)
      /\ idx[t] \in Slots /\ Dist(tx_cidx, idx[t]) < tx_q_len
      /\ UNCHANGED <<tx_pktq, tx_pidx, tx_cidx, tx_q_len, tx_pkts_queued, reaped, held, hw_idx, frame>>
  BY DEF RingInv, TxTypeOK, MutexHeld, FillProgress, Threads, Locked, Kick
<1>2. /\ MutexHeld' /\ OthersSame(t) /\ pc'[t] = "idle" /\ filled'[t] = 0 /\ t \in Threads
  BY <1>1, Unlocked DEF OthersSame, SameLocals
<1>3. /\ tx_bd' \in [Slots -> Descriptors]
      /\ \A i \in Slots : tx_bd'[i].wrap = tx_bd[i].wrap
      /\ \A i \in Slots \ {idx[t]} : tx_bd'[i].ready = tx_bd[i].ready
  BY <1>1 DEF RingInv, TxTypeOK, Kick, SetReady, Descriptors
<1>4. TxTypeOK'
  BY <1>1, <1>3, Unlocked DEF RingInv, TxTypeOK, Kick
<1>5. InRing'
  <2>1. Filling = {}
    BY <1>1 DEF RingInv, MutexHeld, Filling, Locked, Threads
  <2>2. \A i \in Slots : tx_bd'[i].ready => Dist(tx_cidx, i) < tx_q_len
    BY <1>1, <1>3 DEF RingInv, InRing
  <2> QED
    BY <1>1, <1>3, <2>1, <2>2 DEF RingInv, InRing, Dist
<1>6. SenderLocals(t)' /\ FillProgress(t)' /\ ReapLocals(t)'
  BY <1>1, <1>2 DEF RingInv, SenderLocals, FillProgress, ReapLocals, Lockers, Locked
<1> QED
  BY <1>1, <1>2, <1>4, <1>5, <1>6, OthersUnlocked DEF RingInv

(* The DMA engine takes descriptors away from the ring and nothing else.   *)
LEMMA RingInvHw ==
  ASSUME RingInv, Hw
  PROVE  RingInv'
<1>1. /\ UNCHANGED <<tx_pktq, tx_pidx, tx_cidx, tx_q_len, tx_pkts_queued, tx_mutex, threadVars, held>>
      /\ hw_idx' \in Slots /\ hw_active' \in BOOLEAN /\ frame' \in Buffers \cup {None}
      /\ tx_bd' \in [Slots -> Descriptors]
      /\ \A i \in Slots : (tx_bd'[i].ready => tx_bd[i].ready) /\ tx_bd'[i].wrap = tx_bd[i].wrap
  <2>1. CASE HwSend
    <3>1. hw_idx' \in Slots
      BY <2>1, TxAssumption DEF RingInv, TxTypeOK, InRing, HwSend, Slots
    <3>2. /\ tx_bd' \in [Slots -> Descriptors]
          /\ \A i \in Slots : (tx_bd'[i].ready => tx_bd[i].ready) /\ tx_bd'[i].wrap = tx_bd[i].wrap
      BY <2>1 DEF RingInv, TxTypeOK, HwSend, SetReady, Descriptors
    <3>3. frame' \in Buffers \cup {None}
      BY <2>1 DEF RingInv, TxTypeOK, HwSend, Descriptors
    <3> QED
      BY <2>1, <3>1, <3>2, <3>3 DEF RingInv, TxTypeOK, HwSend
  <2>2. CASE HwStop
    BY <2>2 DEF RingInv, TxTypeOK, HwStop, ringVars
  <2> QED
    BY <2>1, <2>2 DEF Hw
<1>2. TxTypeOK'
  BY <1>1 DEF RingInv, TxTypeOK, threadVars
<1>3. MutexHeld'
  BY <1>1 DEF RingInv, MutexHeld, threadVars
<1>4. /\ \A t \in Senders : SenderLocals(t)' /\ FillProgress(t)'
      /\ \A t \in Threads : ReapLocals(t)'
  BY <1>1 DEF RingInv, SenderLocals, FillProgress, ReapLocals, Dist, threadVars
<1>5. InRing'
  <2>1. Filling' = Filling
    BY <1>1 DEF Filling, threadVars
  <2> QED
    BY <1>1, <2>1 DEF RingInv, InRing, Dist
<1> QED
  BY <1>2, <1>3, <1>4, <1>5 DEF RingInv

(* The invariant holds when the ring has been initialised.                 *)
LEMMA RingInvInit == TxInit => RingInv
<1> SUFFICES ASSUME TxInit PROVE RingInv
  OBVIOUS
<1>1. TxTypeOK
  <2>1. 0 \in Slots /\ NumTx - 1 \in Nat /\ NumTx \in Nat /\ MaxIov \in Nat
    BY TxAssumption DEF Slots
  <2>2. tx_bd \in [Slots -> Descriptors]
    BY DEF TxInit, Descriptors
  <2>3. /\ npkt \in [Threads -> Npkts \cup {None}] /\ idx \in [Threads -> Slots]
        /\ pc \in [Threads -> {"idle", "defrag", "lock"} \cup Locked]
        /\ tx_pktq \in [Slots -> Npkts \cup {None}]
    BY <2>1 DEF TxInit
  <2>4. /\ 0 \in 0 .. MaxIov /\ 0 \in 0 .. NumTx /\ 0 \in 0 .. NumTx - 1
    BY <2>1
  <2>5. /\ tot_iov \in [Threads -> 0 .. MaxIov] /\ filled \in [Threads -> 0 .. MaxIov]
        /\ reaped \in [Threads -> 0 .. NumTx]
    BY <2>4 DEF TxInit
  <2> QED
    BY <2>1, <2>2, <2>3, <2>4, <2>5 DEF TxInit, TxTypeOK
<1>2. MutexHeld
  BY TxAssumption DEF TxInit, MutexHeld, Threads, Locked
<1>3. InRing
  <2>1. TxFirsts = {}
    BY DEF TxInit, TxFirsts
  <2>2. tx_pkts_queued = Cardinality(TxFirsts)
    BY <2>1, FS_EmptySet DEF TxInit
  <2>3. tx_q_len = Dist(tx_cidx, tx_pidx)
    BY <1>1, DistBounds DEF TxInit, TxTypeOK
  <2> QED
    BY <2>2, <2>3 DEF TxInit, InRing, TxFirsts
<1>4. \A t \in Threads : SenderLocals(t) /\ FillProgress(t) /\ ReapLocals(t)
  BY TxAssumption DEF TxInit, SenderLocals, FillProgress, ReapLocals, Lockers, Locked
<1> QED
  BY <1>1, <1>2, <1>3, <1>4 DEF RingInv, Threads

(* A step that changes nothing preserves it.                               *)
LEMMA RingInvStutter ==
  ASSUME RingInv, UNCHANGED txVars
  PROVE  RingInv'
BY DEF RingInv, TxTypeOK, MutexHeld, InRing, SenderLocals, FillProgress, ReapLocals,
       Filling, Dist, txVars, ringVars, threadVars, hwVars

-----------------------------------------------------------------------------
(* The ring invariant: whatever the senders, the driver thread and the DMA *)
(* engine do and in whatever order, tx_q_len and tx_pkts_queued agree with *)
(* the ring, and ready descriptors and recorded packets stay inside it.    *)
(* For every ring size, fragment limit and number of threads.              *)
THEOREM RingInvariant == TxSpec => []RingInv
<1>1. RingInv /\ [TxNext]_txVars => RingInv'
  <2> SUFFICES ASSUME RingInv, [TxNext]_txVars PROVE RingInv'
    OBVIOUS
  <2>1. ASSUME NEW t \in Senders, NEW p \in Packets, NEW n \in 1 .. MaxIov, Send(t, p, n)
        PROVE  RingInv'
    BY <2>1, RingInvSend
  <2>2. ASSUME NEW t \in Senders, SenderStep(t) PROVE RingInv'
    BY <2>2, RingInvDefragFail, RingInvDefragCopy, RingInvNoRoom, RingInvBegin,
       RingInvFill, RingInvQueue, RingInvKick DEF SenderStep
  <2>3. CASE Download
    BY <2>3, RingInvDownload
  <2>4. ASSUME NEW t \in Threads, Lock(t) \/ ReapStep(t) PROVE RingInv'
    BY <2>4, RingInvLock, RingInvReapStop, RingInvReapOne DEF ReapStep
  <2>5. CASE Hw
    BY <2>5, RingInvHw
  <2>6. CASE UNCHANGED txVars
    BY <2>6, RingInvStutter
  <2> QED
    BY <2>1, <2>2, <2>3, <2>4, <2>5, <2>6 DEF TxNext
<1> QED
  BY <1>1, RingInvInit, PTL DEF TxSpec

(* Every variable of the transmit side keeps its type; in particular the   *)
(* count tx_q_len stays below the size of the ring.                        *)
THEOREM TxTypeCorrect == TxSpec => []TxTypeOK
<1>1. RingInv => TxTypeOK
  BY DEF RingInv
<1> QED
  BY <1>1, RingInvariant, PTL

(* tx_q_len is the distance from tx_cidx to the last filled descriptor.    *)
THEOREM RingLengthCorrect == TxSpec => []RingLength
<1>1. RingInv => RingLength
  <2> SUFFICES ASSUME RingInv PROVE RingLength
    OBVIOUS
  <2>1. CASE Filling = {}
    BY <2>1 DEF RingInv, InRing, RingLength
  <2>2. ASSUME NEW t \in Filling PROVE tx_q_len = Dist(tx_cidx, idx[t])
    <3>1. /\ t \in Senders /\ t \in Threads /\ pc[t] \in {"fill", "queue"}
          /\ tx_cidx \in Slots /\ tx_pidx \in Slots /\ idx[t] \in Slots
          /\ tot_iov[t] \in Nat /\ filled[t] \in Nat /\ filled[t] <= tot_iov[t]
      BY DEF RingInv, TxTypeOK, Filling, FillProgress, Threads
    <3>2. /\ tx_q_len = Dist(tx_cidx, tx_pidx) + filled[t]
          /\ Dist(tx_pidx, idx[t]) = filled[t]
          /\ Dist(tx_cidx, tx_pidx) + tot_iov[t] < NumTx
      BY <3>1 DEF RingInv, FillProgress
    <3> QED
      BY <3>1, <3>2, DistSum, DistBounds, TxAssumption
  <2> QED
    BY <2>1, <2>2 DEF RingLength
<1> QED
  BY <1>1, RingInvariant, PTL

(* A sender fills past all the engine owns.                                *)
LEMMA NeverBusy == ASSUME RingInv PROVE FillNeverBusy
<1> SUFFICES ASSUME NEW t \in Senders, pc[t] = "fill" PROVE ~tx_bd[idx[t]].ready
  BY DEF FillNeverBusy
<1>1. t \in Threads /\ idx[t] \in Slots /\ tx_cidx \in Slots /\ tx_pidx \in Slots
      /\ tot_iov[t] \in Nat /\ filled[t] \in Nat /\ filled[t] <= tot_iov[t]
  BY DEF RingInv, TxTypeOK, FillProgress, Threads
<1>2. /\ tx_q_len = Dist(tx_cidx, tx_pidx) + filled[t]
      /\ Dist(tx_pidx, idx[t]) = filled[t]
      /\ Dist(tx_cidx, tx_pidx) + tot_iov[t] < NumTx
  BY DEF RingInv, FillProgress
<1>3. tx_q_len = Dist(tx_cidx, idx[t])
  BY <1>1, <1>2, DistSum, DistBounds, TxAssumption
<1> QED
  BY <1>1, <1>3, DistBounds, TxAssumption DEF RingInv, InRing

(* A sender never meets a descriptor the DMA engine still owns: the return *)
(* in the middle of mx35_fec_send's loop is dead code.                     *)
THEOREM FillNeverMeetsBusy == TxSpec => []FillNeverBusy
BY RingInvariant, NeverBusy, PTL

-----------------------------------------------------------------------------
(* Packets.  HeldOnce spells out what CompletedOnce counts.                *)

(* A sender has its packet in hand until it is recorded.                   *)
InHand(t) == npkt[t] # None /\ pc[t] # "kick"

HeldOnce ==
  /\ \A t \in Senders : pc[t] = "idle" => npkt[t] = None
  /\ \A t \in Senders : InHand(t) => npkt[t] \in held
  /\ \A i \in Slots : tx_pktq[i] # None => tx_pktq[i] \in held
  /\ \A t, u \in Senders : InHand(t) /\ InHand(u) /\ npkt[t] = npkt[u] => t = u
  /\ \A i, j \in Slots : tx_pktq[i] # None /\ tx_pktq[i] = tx_pktq[j] => i = j
  /\ \A t \in Senders, i \in Slots : InHand(t) => npkt[t] # tx_pktq[i]
  /\ \A p \in held : \/ \E t \in Senders : InHand(t) /\ npkt[t] = p
                     \/ \E i \in Slots : tx_pktq[i] = p


(* A step that leaves every packet where it is.                            *)
LEMMA HandsSame ==
  ASSUME HeldOnce, held' = held, tx_pktq' = tx_pktq,
         \A u \in Senders : /\ InHand(u)' = InHand(u)
                            /\ InHand(u) => npkt'[u] = npkt[u]
                            /\ pc'[u] = "idle" => npkt'[u] = None
  PROVE  HeldOnce'
<1> DEFINE H(u) == InHand(u)
           K(u) == InHand(u)'
<1>1. \A u \in Senders : K(u) = H(u) /\ (H(u) => npkt'[u] = npkt[u])
  OBVIOUS
<1>2. /\ \A u \in Senders : H(u) => npkt[u] \in held
      /\ \A u, v \in Senders : H(u) /\ H(v) /\ npkt[u] = npkt[v] => u = v
      /\ \A u \in Senders, i \in Slots : H(u) => npkt[u] # tx_pktq[i]
      /\ \A p \in held : \/ \E u \in Senders : H(u) /\ npkt[u] = p
                         \/ \E i \in Slots : tx_pktq[i] = p
  BY DEF HeldOnce
<1> HIDE DEF H, K
<1>3. /\ \A u \in Senders : K(u) => npkt'[u] \in held
      /\ \A u, v \in Senders : K(u) /\ K(v) /\ npkt'[u] = npkt'[v] => u = v
      /\ \A u \in Senders, i \in Slots : K(u) => npkt'[u] # tx_pktq[i]
      /\ \A p \in held : \/ \E u \in Senders : K(u) /\ npkt'[u] = p
                         \/ \E i \in Slots : tx_pktq[i] = p
  BY <1>1, <1>2
<1> QED BY <1>3 DEF HeldOnce, K

(* mx35_fec_send takes a packet.                                           *)
LEMMA HeldOnceSend ==
  ASSUME RingInv, HeldOnce, NEW t \in Senders, NEW p \in Packets,
         NEW n \in 1 .. MaxIov, Send(t, p, n)
  PROVE  HeldOnce'
<1>1. /\ t \in Threads /\ p \in Npkts /\ p # None /\ p \notin held /\ npkt[t] = None /\ ~InHand(t)
      /\ held' = held \cup {p} /\ tx_pktq' = tx_pktq
      /\ npkt'[t] = p /\ InHand(t)'
  BY TxAssumption
     DEF RingInv, TxTypeOK, HeldOnce, Send, Goto, InHand, Threads, Npkts, ringVars
<1>2. \A u \in Senders \ {t} :
        npkt'[u] = npkt[u] /\ pc'[u] = pc[u] /\ InHand(u)' = InHand(u)
  BY DEF RingInv, TxTypeOK, Send, Goto, InHand, Threads
<1>3. pc'[t] # "idle"
  BY <1>1 DEF RingInv, TxTypeOK, Send, Goto
<1> QED BY <1>1, <1>2, <1>3 DEF HeldOnce

(* mx35_fec_defrag gives a packet back for its copy.                       *)
LEMMA HeldOnceSwap ==
  ASSUME RingInv, HeldOnce, NEW t \in Senders, NEW c \in Copies, DefragCopy(t, c)
  PROVE  HeldOnce'
<1>1. /\ t \in Threads /\ c \in Npkts /\ c # None /\ c \notin held /\ InHand(t)
      /\ held' = (held \ {npkt[t]}) \cup {c} /\ tx_pktq' = tx_pktq
      /\ npkt'[t] = c /\ InHand(t)' /\ pc'[t] # "idle"
  BY TxAssumption
     DEF RingInv, TxTypeOK, HeldOnce, SenderLocals, Lockers, DefragCopy, Goto,
     InHand, Threads, Npkts, ringVars
<1>2. \A u \in Senders \ {t} :
        npkt'[u] = npkt[u] /\ pc'[u] = pc[u] /\ InHand(u)' = InHand(u)
  BY DEF RingInv, TxTypeOK, DefragCopy, Goto, InHand, Threads
<1> QED BY <1>1, <1>2 DEF HeldOnce

(* A packet is refused: given back by the sender that has it in hand.      *)
LEMMA HeldOnceRefuse ==
  ASSUME RingInv, HeldOnce, NEW t \in Senders, pc[t] \in {"defrag", "check"},
         Release(npkt[t]), Return(t), tx_pktq' = tx_pktq
  PROVE  HeldOnce'
<1>1. /\ t \in Threads /\ InHand(t) /\ npkt'[t] = None /\ ~InHand(t)'
      /\ held' = held \ {npkt[t]}
  BY TxAssumption
     DEF RingInv, TxTypeOK, SenderLocals, Lockers, Locked, Release, Return, Goto,
     InHand, Threads, Npkts
<1>2. \A u \in Senders \ {t} :
        npkt'[u] = npkt[u] /\ pc'[u] = pc[u] /\ InHand(u)' = InHand(u)
  BY DEF RingInv, TxTypeOK, Return, Goto, InHand, Threads
<1> QED BY <1>1, <1>2 DEF HeldOnce

(* The packet is recorded in the slot of its first fragment, which is      *)
(* empty.                                                                  *)
LEMMA HeldOnceQueue ==
  ASSUME RingInv, HeldOnce, NEW t \in Senders, Queue(t)
  PROVE  HeldOnce'
<1>1. /\ t \in Threads /\ InHand(t) /\ ~InHand(t)' /\ npkt' = npkt /\ held' = held
      /\ pc'[t] # "idle" /\ tx_pidx \in Slots /\ tx_cidx \in Slots /\ npkt[t] # None
  BY TxAssumption DEF RingInv, TxTypeOK, SenderLocals, Lockers, Locked, Queue, Goto,
     InHand, Threads, Npkts
<1>2. tx_pktq[tx_pidx] = None
  BY <1>1, DistBounds, TxAssumption DEF RingInv, InRing
<1>3. /\ tx_pktq'[tx_pidx] = npkt[t]
      /\ \A i \in Slots \ {tx_pidx} : tx_pktq'[i] = tx_pktq[i]
  BY <1>1 DEF RingInv, TxTypeOK, Queue
<1>4. \A u \in Senders \ {t} : pc'[u] = pc[u] /\ InHand(u)' = InHand(u)
  BY <1>1 DEF RingInv, TxTypeOK, Queue, Goto, InHand, Threads
<1> DEFINE H(u) == InHand(u)
           K(u) == InHand(u)'
           p == npkt[t]
<1>5. /\ \A u \in Senders : K(u) <=> (H(u) /\ u # t)
      /\ H(t) /\ p # None
  <2>1. \A u \in Senders \ {t} : K(u) <=> H(u)
    BY <1>4 DEF InHand
  <2>2. ~K(t) /\ H(t)
    BY <1>1
  <2> HIDE DEF H, K
  <2> QED BY <1>1, <2>1, <2>2
<1>6. /\ \A u \in Senders : H(u) => npkt[u] \in held
      /\ \A i \in Slots : tx_pktq[i] # None => tx_pktq[i] \in held
      /\ \A u, v \in Senders : H(u) /\ H(v) /\ npkt[u] = npkt[v] => u = v
      /\ \A i, j \in Slots : tx_pktq[i] # None /\ tx_pktq[i] = tx_pktq[j] => i = j
      /\ \A u \in Senders, i \in Slots : H(u) => npkt[u] # tx_pktq[i]
      /\ \A q \in held : \/ \E u \in Senders : H(u) /\ npkt[u] = q
                         \/ \E i \in Slots : tx_pktq[i] = q
  BY DEF HeldOnce
<1>7. \A u \in Senders : pc'[u] = "idle" => npkt[u] = None
  BY <1>1, <1>4 DEF HeldOnce
<1>8. tx_pidx \in Slots
  BY <1>1
<1> HIDE DEF H, K
<1>9. /\ \A u \in Senders : K(u) => npkt[u] \in held
      /\ \A i \in Slots : tx_pktq'[i] # None => tx_pktq'[i] \in held
  BY <1>3, <1>5, <1>6
<1>10. \A i, j \in Slots : tx_pktq'[i] # None /\ tx_pktq'[i] = tx_pktq'[j] => i = j
  BY <1>3, <1>5, <1>6
<1>11. /\ \A u, v \in Senders : K(u) /\ K(v) /\ npkt[u] = npkt[v] => u = v
       /\ \A u \in Senders, i \in Slots : K(u) => npkt[u] # tx_pktq'[i]
  BY <1>3, <1>5, <1>6
<1>12. \A q \in held : \/ \E u \in Senders : K(u) /\ npkt[u] = q
                       \/ \E i \in Slots : tx_pktq'[i] = q
  <2> SUFFICES ASSUME NEW q \in held
               PROVE  \/ \E u \in Senders : K(u) /\ npkt[u] = q
                      \/ \E i \in Slots : tx_pktq'[i] = q
    OBVIOUS
  <2>1. CASE q = p
    BY <2>1, <1>3, <1>8
  <2>2. CASE q # p /\ \E u \in Senders : H(u) /\ npkt[u] = q
    BY <2>2, <1>5
  <2>3. CASE \E i \in Slots : tx_pktq[i] = q
    <3>1. PICK i \in Slots : tx_pktq[i] = q
      BY <2>3
    <3>2. q # None
      BY TxAssumption DEF RingInv, TxTypeOK, Npkts
    <3> QED BY <3>1, <3>2, <1>2, <1>3
  <2> QED BY <2>1, <2>2, <2>3, <1>6
<1> QED BY <1>1, <1>7, <1>9, <1>10, <1>11, <1>12 DEF HeldOnce, K

(* The reaper gives back what it takes out of the slot.                    *)
LEMMA HeldOnceReap ==
  ASSUME RingInv, HeldOnce, NEW t \in Threads, ReapOne(t)
  PROVE  HeldOnce'
<1>1. /\ tx_cidx \in Slots /\ npkt' = npkt /\ tx_pktq'[tx_cidx] = None
      /\ \A i \in Slots \ {tx_cidx} : tx_pktq'[i] = tx_pktq[i]
  BY DEF RingInv, TxTypeOK, ReapOne
<1>2. held' = held \ {tx_pktq[tx_cidx]}
  <2>1. None \notin held
    BY TxAssumption DEF RingInv, TxTypeOK, Npkts
  <2> QED BY <2>1 DEF ReapOne, Release
<1>3. pc[t] = "reap" /\ (pc' = pc \/ pc' = [pc EXCEPT ![t] = IF t = Driver THEN "idle" ELSE "check"])
  BY DEF ReapOne, AfterReap, Goto
<1>4. \A u \in Senders : InHand(u)' = InHand(u) /\ (pc'[u] = "idle" => npkt[u] = None)
  BY <1>1, <1>3, TxAssumption DEF RingInv, TxTypeOK, HeldOnce, InHand, Threads
<1> DEFINE H(u) == InHand(u)
           K(u) == InHand(u)'
<1>5. \A u \in Senders : K(u) = H(u)
  BY <1>4
<1>6. /\ \A u \in Senders : H(u) => npkt[u] \in held
      /\ \A i \in Slots : tx_pktq[i] # None => tx_pktq[i] \in held
      /\ \A u, v \in Senders : H(u) /\ H(v) /\ npkt[u] = npkt[v] => u = v
      /\ \A i, j \in Slots : tx_pktq[i] # None /\ tx_pktq[i] = tx_pktq[j] => i = j
      /\ \A u \in Senders, i \in Slots : H(u) => npkt[u] # tx_pktq[i]
      /\ \A q \in held : \/ \E u \in Senders : H(u) /\ npkt[u] = q
                         \/ \E i \in Slots : tx_pktq[i] = q
  BY DEF HeldOnce
<1>7. \A u \in Senders : H(u) => npkt[u] # None
  BY DEF InHand
<1> HIDE DEF H, K
<1>8. /\ \A u \in Senders : K(u) => npkt[u] \in held'
      /\ \A i \in Slots : tx_pktq'[i] # None => tx_pktq'[i] \in held'
  BY <1>1, <1>2, <1>5, <1>6
<1>9. /\ \A u, v \in Senders : K(u) /\ K(v) /\ npkt[u] = npkt[v] => u = v
      /\ \A i, j \in Slots : tx_pktq'[i] # None /\ tx_pktq'[i] = tx_pktq'[j] => i = j
      /\ \A u \in Senders, i \in Slots : K(u) => npkt[u] # tx_pktq'[i]
  BY <1>1, <1>5, <1>6, <1>7
<1>10. ASSUME NEW q \in held'
       PROVE  \/ \E u \in Senders : K(u) /\ npkt[u] = q
              \/ \E i \in Slots : tx_pktq'[i] = q
  <2>1. q \in held /\ q # tx_pktq[tx_cidx]
    BY <1>2
  <2>2. CASE \E u \in Senders : H(u) /\ npkt[u] = q
    BY <2>2, <1>5
  <2>3. CASE \E i \in Slots : tx_pktq[i] = q
    <3>1. PICK i \in Slots : tx_pktq[i] = q
      BY <2>3
    <3>2. tx_pktq'[i] = q
      BY <3>1, <2>1, <1>1
    <3> QED BY <3>2
  <2> QED BY <2>1, <2>2, <2>3, <1>6
<1> QED BY <1>1, <1>4, <1>8, <1>9, <1>10 DEF HeldOnce, K

(* The other steps leave the packets alone.                                *)
LEMMA HeldOnceStays ==
  ASSUME RingInv, HeldOnce,
         \/ Download \/ Hw \/ UNCHANGED txVars
         \/ \E t \in Threads : Lock(t) \/ ReapStop(t)
         \/ \E t \in Senders : Begin(t) \/ Kick(t)
  PROVE  HeldOnce'
<1>1. held' = held /\ tx_pktq' = tx_pktq
  BY DEF Download, Hw, HwSend, HwStop, Lock, ReapStop, Begin, Kick, txVars, ringVars
<1>2. ASSUME NEW u \in Senders
      PROVE  /\ InHand(u)' = InHand(u)
             /\ InHand(u) => npkt'[u] = npkt[u]
             /\ pc'[u] = "idle" => npkt'[u] = None
  <2>1. u \in Threads /\ u # Driver /\ (pc[u] = "idle" => npkt[u] = None)
    BY TxAssumption DEF HeldOnce, Threads
  <2>2. CASE Download \/ Hw \/ UNCHANGED txVars
    BY <2>1, <2>2 DEF RingInv, TxTypeOK, Download, Hw, HwSend, HwStop, Goto, InHand,
       txVars, threadVars
  <2>3. ASSUME NEW t \in Threads, Lock(t) \/ ReapStop(t)
        PROVE  npkt' = npkt /\ (pc'[u] = pc[u] \/ {pc[u], pc'[u]} \subseteq {"lock", "reap", "check"})
    BY <2>1, <2>3 DEF RingInv, TxTypeOK, Lock, ReapStop, AfterReap, Goto
  <2>4. ASSUME NEW t \in Senders, Begin(t)
        PROVE  npkt' = npkt /\ (pc'[u] = pc[u] \/ (pc[u] = "check" /\ pc'[u] = "fill"))
    BY <2>1, <2>4 DEF RingInv, TxTypeOK, Begin, Goto
  <2>5. ASSUME NEW t \in Senders, Kick(t)
        PROVE  \/ npkt'[u] = npkt[u] /\ pc'[u] = pc[u]
               \/ pc[u] = "kick" /\ pc'[u] = "idle" /\ npkt'[u] = None
    BY <2>1, <2>5 DEF RingInv, TxTypeOK, Kick, Return, Goto
  <2> QED BY <2>1, <2>2, <2>3, <2>4, <2>5 DEF InHand
<1> QED BY <1>1, <1>2, HandsSame

(* Filling moves no packet.                                                *)
LEMMA HeldOnceFill ==
  ASSUME RingInv, HeldOnce, NEW t \in Senders, Fill(t)
  PROVE  HeldOnce'
<1>1. ~tx_bd[idx[t]].ready
  BY NeverBusy DEF Fill, FillNeverBusy
<1>2. /\ pc[t] = "fill" /\ FillFree(t) /\ tx_pktq' = tx_pktq
  BY <1>1 DEF Fill
<1>3. /\ held' = held /\ npkt' = npkt
      /\ (pc' = pc \/ pc' = [pc EXCEPT ![t] = "queue"])
  BY <1>2 DEF FillFree, Goto
<1>4. \A u \in Senders : InHand(u)' = InHand(u) /\ (pc'[u] = "idle" => npkt[u] = None)
  BY <1>2, <1>3 DEF RingInv, TxTypeOK, HeldOnce, InHand, Threads
<1> QED BY <1>2, <1>3, <1>4, HandsSame

(* HeldOnce holds in every reachable state.                                *)
LEMMA HeldOnceAlways == TxSpec => []HeldOnce
<1>1. TxInit => HeldOnce
  BY DEF TxInit, HeldOnce, InHand, Threads
<1>2. RingInv /\ HeldOnce /\ [TxNext]_txVars => HeldOnce'
  <2> SUFFICES ASSUME RingInv, HeldOnce, [TxNext]_txVars PROVE HeldOnce'
    OBVIOUS
  <2>1. ASSUME NEW t \in Senders, NEW p \in Packets, NEW n \in 1 .. MaxIov, Send(t, p, n)
        PROVE  HeldOnce'
    BY <2>1, HeldOnceSend
  <2>2. ASSUME NEW t \in Senders, DefragFail(t) \/ NoRoom(t) PROVE HeldOnce'
    BY <2>2, HeldOnceRefuse DEF DefragFail, NoRoom, GiveUp, ringVars
  <2>3. ASSUME NEW t \in Senders, SenderStep(t) PROVE HeldOnce'
    BY <2>2, <2>3, HeldOnceSwap, HeldOnceQueue, HeldOnceFill, HeldOnceStays
       DEF SenderStep
  <2>4. ASSUME NEW t \in Threads, Lock(t) \/ ReapStep(t) PROVE HeldOnce'
    BY <2>4, HeldOnceReap, HeldOnceStays DEF ReapStep
  <2> QED
    BY <2>1, <2>3, <2>4, HeldOnceStays DEF TxNext
<1> QED
  BY <1>1, <1>2, RingInvariant, PTL DEF TxSpec

(* A packet the driver has been given is in the hands of one sender or in  *)
(* one slot until it is given back, once (mx35_fec_send, mx35_fec_defrag,  *)
(* mx35_fec_reap_pkts).                                                    *)
THEOREM CompletedOnceCorrect == TxSpec => []CompletedOnce
<1>1. RingInv /\ HeldOnce => CompletedOnce
  <2> SUFFICES ASSUME RingInv, HeldOnce, NEW p \in Npkts
               PROVE  Cardinality(Places(p)) = IF p \in held THEN 1 ELSE 0
    BY DEF CompletedOnce
  <2>1. p # None
    BY TxAssumption DEF Npkts
  <2>2. CASE p \notin held
    <3>1. Places(p) = {}
      BY <2>1, <2>2 DEF HeldOnce, Places, InHand
    <3> QED BY <2>2, <3>1, FS_EmptySet
  <2>3. CASE p \in held
    <3>1. CASE \E t \in Senders : InHand(t) /\ npkt[t] = p
      <4>1. PICK t \in Senders : InHand(t) /\ npkt[t] = p
        BY <3>1
      <4>2. Places(p) = {t}
        BY <2>1, <4>1 DEF HeldOnce, Places, InHand
      <4> QED BY <2>3, <4>2, FS_Singleton
    <3>2. CASE \E i \in Slots : tx_pktq[i] = p
      <4>1. PICK i \in Slots : tx_pktq[i] = p
        BY <3>2
      <4>2. Places(p) = {i}
        BY <2>1, <4>1 DEF HeldOnce, Places, InHand
      <4> QED BY <2>3, <4>2, FS_Singleton
    <3> QED BY <2>3, <3>1, <3>2 DEF HeldOnce
  <2> QED BY <2>2, <2>3
<1> QED
  BY <1>1, HeldOnceAlways, RingInvariant, PTL

-----------------------------------------------------------------------------
(* The wire: what is in flight, from the engine to tx_pidx.                *)

(* A descriptor between the engine and tx_pidx: its frame is to be sent.   *)
InFlight(i) == Dist(hw_idx, i) < Dist(hw_idx, tx_pidx)

(* The descriptor b continues the frame of the one before it, a, or begins *)
(* one if L is on a.                                                       *)
Follows(a, b) ==
  IF a.last THEN b.buffer.frag = 1 ELSE b.buffer = [a.buffer EXCEPT !.frag = @ + 1]

(* Frames from the engine to tx_pidx: fragments in order, L on the last of *)
(* each and on the last descriptor, so that the next frame can follow.     *)
FrameEnds ==
  \A i \in Slots : InFlight(i) =>
    /\ tx_bd[i].buffer \in Buffers
    /\ tx_bd[i].last = (tx_bd[i].buffer.frag = tx_bd[i].buffer.iovs)
    /\ NEXT_TX(i) = tx_pidx => tx_bd[i].last
FramesFollow ==
  \A i \in Slots : InFlight(i) /\ NEXT_TX(i) # tx_pidx => Follows(tx_bd[i], tx_bd[NEXT_TX(i)])

(* They are ready, but for the first of a frame about to be kicked.        *)
FlightReady ==
  \A i \in Slots : InFlight(i) =>
    tx_bd[i].ready \/ \E t \in Senders : pc[t] = "kick" /\ idx[t] = i

(* Where the engine stands.                                                *)
EnginePlace ==
  /\ Dist(tx_cidx, hw_idx) <= Dist(tx_cidx, tx_pidx)
  /\ IF hw_idx = tx_pidx THEN frame = None ELSE Continues(tx_bd[hw_idx])
  /\ tx_bd[hw_idx].ready => hw_active

(* L is on no free descriptor; nothing is ready but what is in flight and  *)
(* what a sender has filled behind its first fragment.                     *)
FreeClean ==
  /\ \A i \in Slots : tx_q_len <= Dist(tx_cidx, i) => ~tx_bd[i].last
  /\ \A i \in Slots : tx_bd[i].ready =>
       InFlight(i) \/ \E t \in Filling : Dist(tx_pidx, i) < filled[t]

(* What a sender has filled so far, and what it is about to kick.          *)
FilledInOrder ==
  \A t \in Filling, i \in Slots : Dist(tx_pidx, i) < filled[t] =>
    /\ tx_bd[i].buffer = [pkt |-> npkt[t], frag |-> Dist(tx_pidx, i) + 1, iovs |-> tot_iov[t]]
    /\ ~tx_bd[i].last /\ (tx_bd[i].ready => i # tx_pidx)
    /\ (i # tx_pidx => tx_bd[i].ready)
AboutToKick ==
  \A t \in Senders : pc[t] = "kick" => InFlight(idx[t]) /\ ~tx_bd[idx[t]].ready

WireInv ==
  /\ FrameEnds /\ FramesFollow /\ FlightReady
  /\ EnginePlace /\ FreeClean /\ FilledInOrder /\ AboutToKick


(* A distance from further along is what is left of it.                    *)
LEMMA DistLeft ==
  ASSUME NEW a \in Slots, NEW b \in Slots, NEW c \in Slots, Dist(a, b) <= Dist(a, c)
  PROVE  Dist(b, c) = Dist(a, c) - Dist(a, b)
BY TxAssumption DEF Slots, Dist

(* What is in flight, seen from the reaper's end.                          *)
LEMMA FlightSpan ==
  ASSUME RingInv, EnginePlace, NEW i \in Slots
  PROVE  InFlight(i) <=> /\ Dist(tx_cidx, hw_idx) <= Dist(tx_cidx, i)
                         /\ Dist(tx_cidx, i) < Dist(tx_cidx, tx_pidx)
<1>1. tx_cidx \in Slots /\ hw_idx \in Slots /\ tx_pidx \in Slots
      /\ Dist(tx_cidx, hw_idx) <= Dist(tx_cidx, tx_pidx)
  BY DEF RingInv, TxTypeOK, EnginePlace
<1> QED BY <1>1, TxAssumption DEF InFlight, Dist, Slots

(* The descriptor after one in flight is in flight, up to tx_pidx.         *)
LEMMA FlightNext ==
  ASSUME RingInv, NEW i \in Slots, InFlight(i), NEXT_TX(i) # tx_pidx
  PROVE  NEXT_TX(i) \in Slots /\ InFlight(NEXT_TX(i))
<1>1. hw_idx \in Slots /\ tx_pidx \in Slots /\ NEXT_TX(i) \in Slots
  BY NextTx DEF RingInv, TxTypeOK
<1>2. Dist(hw_idx, NEXT_TX(i)) = Dist(hw_idx, i) + 1
  BY <1>1, DistAdvanceEnd, DistBounds, TxAssumption DEF InFlight
<1> QED BY <1>1, <1>2, DistBounds, DistInjective DEF InFlight

(* tx_mutex: one thread is at work under it.                               *)
LEMMA OneAtWork ==
  ASSUME RingInv, NEW t \in Threads, pc[t] \in Locked, NEW u \in Threads,
         pc[u] \in Locked
  PROVE  t = u
BY DEF RingInv, MutexHeld

(* What a sender has filled is behind what is in flight.                   *)
LEMMA FilledBehind ==
  ASSUME RingInv, EnginePlace, NEW t \in Filling, NEW i \in Slots, Dist(tx_pidx,
         i) < filled[t]
  PROVE  ~InFlight(i)
<1>1. /\ t \in Senders /\ t \in Threads /\ tx_cidx \in Slots /\ tx_pidx \in Slots
      /\ filled[t] \in Nat /\ tot_iov[t] \in Nat /\ filled[t] <= tot_iov[t]
      /\ Dist(tx_cidx, tx_pidx) + tot_iov[t] < NumTx
  BY DEF RingInv, TxTypeOK, FillProgress, Filling, Threads
<1>2. Dist(tx_cidx, i) = Dist(tx_cidx, tx_pidx) + Dist(tx_pidx, i)
  BY <1>1, DistSum, DistBounds, TxAssumption
<1> QED BY <1>1, <1>2, DistBounds, FlightSpan

(* A ready descriptor the engine stands at is in flight.                   *)
LEMMA EngineInFlight ==
  ASSUME RingInv, WireInv, tx_bd[hw_idx].ready
  PROVE  hw_idx # tx_pidx /\ InFlight(hw_idx)
<1>1. hw_idx \in Slots /\ tx_pidx \in Slots
  BY DEF RingInv, TxTypeOK
<1>2. hw_idx # tx_pidx
  <2>1. SUFFICES ASSUME hw_idx = tx_pidx PROVE FALSE
    OBVIOUS
  <2>2. ~InFlight(hw_idx)
    BY <1>1, <2>1, DistBounds DEF InFlight
  <2>3. PICK t \in Filling : Dist(tx_pidx, hw_idx) < filled[t]
    BY <1>1, <2>2 DEF WireInv, FreeClean
  <2> QED BY <1>1, <2>1, <2>3 DEF WireInv, FilledInOrder
<1> QED BY <1>1, <1>2, DistBounds, TxAssumption DEF InFlight

(* Frames in flight stay in order when none is added and none changed.     *)
LEMMA FramesStay ==
  ASSUME RingInv, FrameEnds, FramesFollow, tx_pidx' = tx_pidx,
         \A i \in Slots : /\ InFlight(i)' => InFlight(i)
                          /\ InFlight(i) => /\ tx_bd'[i].buffer = tx_bd[i].buffer
                                            /\ tx_bd'[i].last = tx_bd[i].last
  PROVE  FrameEnds' /\ FramesFollow'
<1>1. FrameEnds'
  BY DEF FrameEnds
<1>2. FramesFollow'
  <2> SUFFICES ASSUME NEW i \in Slots, InFlight(i)', NEXT_TX(i) # tx_pidx
               PROVE  Follows(tx_bd'[i], tx_bd'[NEXT_TX(i)])
    BY DEF FramesFollow, NEXT_TX
  <2>1. InFlight(i) /\ NEXT_TX(i) \in Slots /\ InFlight(NEXT_TX(i))
    BY FlightNext
  <2>2. Follows(tx_bd[i], tx_bd[NEXT_TX(i)])
    BY DEF FramesFollow
  <2> QED BY <2>1, <2>2 DEF Follows
<1> QED BY <1>1, <1>2

(* A step that leaves the ring and the engine alone, and begins a packet   *)
(* at most.                                                                *)
LEMMA WireSame ==
  ASSUME RingInv, WireInv, UNCHANGED <<tx_bd, tx_pidx, tx_cidx, tx_q_len, hwVars>>,
         \A u \in Senders :
           /\ pc'[u] = "kick" <=> pc[u] = "kick"
           /\ pc[u] = "kick" => idx'[u] = idx[u]
           /\ u \in Filling => /\ u \in Filling' /\ npkt'[u] = npkt[u]
                               /\ tot_iov'[u] = tot_iov[u] /\ filled'[u] = filled[u]
           /\ u \in Filling' => u \in Filling \/ filled'[u] = 0
  PROVE  WireInv'
<1>1. /\ tx_bd' = tx_bd /\ tx_pidx' = tx_pidx /\ tx_cidx' = tx_cidx /\ tx_q_len' = tx_q_len
      /\ hw_idx' = hw_idx /\ hw_active' = hw_active /\ frame' = frame
  BY DEF hwVars
<1>2. \A i \in Slots : InFlight(i)' <=> InFlight(i)
  BY <1>1 DEF InFlight, Dist
<1>3. FrameEnds' /\ FramesFollow'
  BY <1>1, <1>2, FramesStay DEF WireInv
<1>4. FlightReady' /\ AboutToKick'
  <2>1. FlightReady'
    BY <1>1, <1>2 DEF WireInv, FlightReady
  <2>2. \A u \in Senders : pc[u] = "kick" => idx[u] \in Slots
    BY DEF RingInv, TxTypeOK, Threads
  <2> QED BY <1>1, <1>2, <2>1, <2>2 DEF WireInv, AboutToKick
<1>5. EnginePlace'
  BY <1>1 DEF WireInv, EnginePlace, Continues, Dist
<1>6. FreeClean'
  BY <1>1, <1>2 DEF WireInv, FreeClean, Dist, Filling
<1>7. FilledInOrder'
  <2> SUFFICES ASSUME NEW u \in Filling', NEW i \in Slots, Dist(tx_pidx, i) < filled'[u]
               PROVE  /\ tx_bd[i].buffer = [pkt |-> npkt'[u], frag |-> Dist(tx_pidx, i) + 1, iovs |-> tot_iov'[u]]
                      /\ ~tx_bd[i].last /\ (tx_bd[i].ready => i # tx_pidx)
                      /\ (i # tx_pidx => tx_bd[i].ready)
    BY <1>1 DEF FilledInOrder, Dist
  <2>1. Dist(tx_pidx, i) >= 0 /\ u \in Senders
    BY DistBounds DEF RingInv, TxTypeOK, Filling
  <2>2. u \in Filling /\ filled'[u] = filled[u] /\ npkt'[u] = npkt[u] /\ tot_iov'[u] = tot_iov[u]
    <3>1. ~(Dist(tx_pidx, i) < 0)
      BY <2>1, DistBounds DEF RingInv, TxTypeOK
    <3> QED BY <2>1, <3>1
  <2> QED BY <2>2 DEF WireInv, FilledInOrder
<1> QED BY <1>3, <1>4, <1>5, <1>6, <1>7 DEF WireInv

(* The steps that leave the ring alone preserve it.                        *)
LEMMA WireQuiet ==
  ASSUME RingInv, WireInv,
         \/ Download \/ UNCHANGED txVars
         \/ \E t \in Threads : Lock(t) \/ ReapStop(t)
         \/ \E t \in Senders :
              \/ \E p \in Packets, n \in 1 .. MaxIov : Send(t, p, n)
              \/ \E c \in Copies : DefragCopy(t, c)
              \/ DefragFail(t) \/ NoRoom(t) \/ Begin(t)
  PROVE  WireInv'
<1>1. UNCHANGED <<tx_bd, tx_pidx, tx_cidx, tx_q_len, hwVars>>
  BY DEF Download, Lock, ReapStop, Send, DefragCopy, DefragFail, NoRoom, Begin, txVars,
     ringVars
<1>2. ASSUME NEW u \in Senders
      PROVE  /\ pc'[u] = "kick" <=> pc[u] = "kick"
             /\ pc[u] = "kick" => idx'[u] = idx[u]
             /\ u \in Filling => /\ u \in Filling' /\ npkt'[u] = npkt[u]
                                 /\ tot_iov'[u] = tot_iov[u] /\ filled'[u] = filled[u]
             /\ u \in Filling' => u \in Filling \/ filled'[u] = 0
  <2>1. u \in Threads /\ u # Driver
    BY TxAssumption DEF Threads
  <2>2. CASE Download \/ UNCHANGED txVars
    BY <2>1, <2>2 DEF RingInv, TxTypeOK, Download, Goto, Filling, txVars, threadVars
  <2>3. CASE \E t \in Threads : Lock(t) \/ ReapStop(t)
    BY <2>1, <2>3 DEF RingInv, TxTypeOK, Lock, ReapStop, AfterReap, Goto, Filling
  <2>4. ASSUME NEW t \in Senders,
               \/ \E p \in Packets, n \in 1 .. MaxIov : Send(t, p, n)
               \/ \E c \in Copies : DefragCopy(t, c)
        PROVE  /\ pc[t] \in {"idle", "defrag"} /\ pc'[t] \in {"defrag", "lock"}
               /\ \A v \in Senders \ {t} : SameLocals(v)
    BY <2>4 DEF RingInv, TxTypeOK, Send, DefragCopy, Goto, Threads, SameLocals
  <2>5. ASSUME NEW t \in Senders, DefragFail(t) \/ NoRoom(t)
        PROVE  /\ pc[t] \in {"check", "defrag"} /\ pc'[t] = "idle"
               /\ \A v \in Senders \ {t} : SameLocals(v)
    BY <2>5 DEF RingInv, TxTypeOK, DefragFail, NoRoom, GiveUp, Return, Goto, Threads,
       SameLocals
  <2>6. ASSUME NEW t \in Senders, Begin(t)
        PROVE  /\ pc[t] = "check" /\ pc'[t] = "fill" /\ filled'[t] = 0
               /\ \A v \in Senders \ {t} : SameLocals(v)
    BY <2>6 DEF RingInv, TxTypeOK, SenderLocals, Begin, Goto, Threads, SameLocals
  <2> QED BY <2>1, <2>2, <2>3, <2>4, <2>5, <2>6 DEF SameLocals, Filling
<1> QED BY <1>1, <1>2, WireSame

(* Filling one more descriptor, behind all that is in flight.              *)
LEMMA WireFill ==
  ASSUME RingInv, WireInv, NEW t \in Senders, Fill(t)
  PROVE  WireInv'
<1>1. /\ t \in Threads /\ pc[t] = "fill" /\ t \in Filling
      /\ idx[t] \in Slots /\ tx_cidx \in Slots /\ tx_pidx \in Slots /\ hw_idx \in Slots
      /\ tot_iov[t] \in Nat /\ filled[t] \in Nat /\ filled[t] < tot_iov[t]
      /\ tx_q_len \in Nat /\ tx_q_len = Dist(tx_cidx, tx_pidx) + filled[t]
      /\ Dist(tx_pidx, idx[t]) = filled[t]
      /\ Dist(tx_cidx, tx_pidx) + tot_iov[t] < NumTx
  BY DEF RingInv, TxTypeOK, FillProgress, Threads, Fill, Filling
<1>2. Dist(tx_cidx, idx[t]) = tx_q_len
  BY <1>1, DistSum, DistBounds, TxAssumption
<1>3. ~InFlight(idx[t])
  BY <1>1, <1>2, DistBounds, FlightSpan DEF WireInv
<1>4. /\ FillFree(t) /\ UNCHANGED <<tx_pktq, tx_pidx, tx_cidx, tx_pkts_queued, reaped, hwVars>>
  BY NeverBusy, <1>1 DEF Fill, FillNeverBusy
<1>5. /\ tx_pidx' = tx_pidx /\ tx_cidx' = tx_cidx /\ tx_q_len' = tx_q_len + 1
      /\ hw_idx' = hw_idx /\ hw_active' = hw_active /\ frame' = frame
      /\ npkt' = npkt /\ tot_iov' = tot_iov /\ filled'[t] = filled[t] + 1
      /\ tx_bd'[idx[t]].buffer = NextBuffer(t)
      /\ tx_bd'[idx[t]].ready <=> filled[t] > 0
      /\ tx_bd'[idx[t]].last = tx_bd[idx[t]].last
      /\ \A i \in Slots \ {idx[t]} : tx_bd'[i] = tx_bd[i]
  BY <1>1, <1>4 DEF RingInv, TxTypeOK, FillFree, SetBuffer, SetReady, ReadyAtOnce,
     hwVars
<1>6. Filling' = {t} /\ \A u \in Senders : pc'[u] # "kick" /\ pc[u] # "kick"
  <2>1. \A u \in Senders \ {t} : pc[u] \notin Locked
    BY <1>1, OneAtWork DEF Threads, Locked
  <2>2. \A u \in Senders \ {t} : pc'[u] = pc[u]
    BY <1>4 DEF RingInv, TxTypeOK, FillFree, Goto, Threads
  <2>3. pc'[t] \in {"fill", "queue"}
    BY <1>1, <1>4 DEF RingInv, TxTypeOK, FillFree, Goto
  <2> QED BY <1>1, <2>1, <2>2, <2>3 DEF Filling, Locked
<1>7. \A i \in Slots : InFlight(i)' <=> InFlight(i)
  BY <1>5 DEF InFlight, Dist
<1>8. FrameEnds' /\ FramesFollow'
  BY <1>3, <1>5, <1>7, FramesStay DEF WireInv
<1>9. FlightReady' /\ AboutToKick'
  BY <1>3, <1>5, <1>6, <1>7 DEF WireInv, FlightReady, AboutToKick
<1>10. EnginePlace'
  <2>1. Dist(tx_cidx, hw_idx)' <= Dist(tx_cidx, tx_pidx)'
    BY <1>5 DEF WireInv, EnginePlace, Dist
  <2>2. hw_idx # tx_pidx => hw_idx # idx[t]
    BY <1>1, <1>3, DistBounds DEF InFlight
  <2>3. IF hw_idx = tx_pidx THEN frame = None ELSE Continues(tx_bd'[hw_idx])
    BY <1>1, <1>5, <2>2 DEF WireInv, EnginePlace
  <2>4. CASE hw_idx # idx[t]
    BY <1>1, <1>5, <2>1, <2>3, <2>4 DEF WireInv, EnginePlace, Continues
  <2>5. CASE hw_idx = idx[t]
    <3>1. filled[t] = 0
      BY <1>1, <2>2, <2>5, DistBounds
    <3>2. hw_idx = tx_pidx /\ frame = None
      BY <2>2, <2>3, <2>5
    <3>3. ~tx_bd'[hw_idx].ready
      BY <1>5, <2>5, <3>1
    <3> QED BY <1>5, <2>1, <3>2, <3>3 DEF EnginePlace
  <2> QED BY <2>4, <2>5
<1>11. FreeClean'
  <2>1. \A i \in Slots : tx_q_len + 1 <= Dist(tx_cidx, i) => ~tx_bd'[i].last
    BY <1>1, <1>2, <1>5, DistBounds DEF WireInv, FreeClean
  <2>2. Filling = {t}
    BY <1>1, OneAtWork DEF Filling, Locked, Threads
  <2>3. \A i \in Slots : tx_bd'[i].ready => InFlight(i) \/ Dist(tx_pidx, i) < filled[t] + 1
    BY <1>1, <1>5, <2>2, DistBounds DEF WireInv, FreeClean
  <2> QED BY <1>5, <1>6, <1>7, <2>1, <2>3 DEF FreeClean, Dist
<1>12. FilledInOrder'
  <2> SUFFICES ASSUME NEW i \in Slots, Dist(tx_pidx, i) < filled[t] + 1
               PROVE  /\ tx_bd'[i].buffer = [pkt |-> npkt[t], frag |-> Dist(tx_pidx, i) + 1, iovs |-> tot_iov[t]]
                      /\ ~tx_bd'[i].last /\ (tx_bd'[i].ready => i # tx_pidx)
                      /\ (i # tx_pidx => tx_bd'[i].ready)
    BY <1>5, <1>6 DEF FilledInOrder, Dist
  <2>1. CASE i = idx[t]
    <3>1. ~tx_bd[idx[t]].last
      BY <1>1, <1>2 DEF WireInv, FreeClean
    <3>2. (filled[t] > 0) <=> idx[t] # tx_pidx
      BY <1>1, DistBounds
    <3> QED BY <1>1, <1>5, <2>1, <3>1, <3>2 DEF NextBuffer
  <2>2. CASE i # idx[t]
    <3>1. Dist(tx_pidx, i) < filled[t]
      BY <1>1, <2>2, DistInjective, DistBounds
    <3> QED BY <1>1, <1>5, <2>2, <3>1 DEF WireInv, FilledInOrder
  <2> QED BY <2>1, <2>2
<1> QED BY <1>8, <1>9, <1>10, <1>11, <1>12 DEF WireInv

(* The kick makes the first descriptor of the last frame ready.            *)
LEMMA WireKick ==
  ASSUME RingInv, WireInv, NEW t \in Senders, Kick(t)
  PROVE  WireInv'
<1>1. /\ t \in Threads /\ pc[t] = "kick" /\ idx[t] \in Slots
      /\ tx_pidx' = tx_pidx /\ tx_cidx' = tx_cidx /\ tx_q_len' = tx_q_len
      /\ hw_idx' = hw_idx /\ hw_active' /\ frame' = frame
      /\ tx_bd'[idx[t]].ready
      /\ \A i \in Slots : /\ i # idx[t] => tx_bd'[i] = tx_bd[i]
                          /\ tx_bd'[i].buffer = tx_bd[i].buffer /\ tx_bd'[i].last = tx_bd[i].last
  BY DEF RingInv, TxTypeOK, Kick, SetReady, Threads
<1>2. Filling = {} /\ Filling' = {} /\ \A u \in Senders : pc'[u] # "kick"
                   /\ (pc[u] = "kick" => u = t)
  <2>1. \A u \in Senders \ {t} : pc[u] \notin Locked
    BY <1>1, OneAtWork DEF Threads, Locked
  <2>2. pc'[t] = "idle" /\ \A u \in Senders \ {t} : pc'[u] = pc[u]
    BY DEF RingInv, TxTypeOK, Kick, Return, Goto, Threads
  <2> QED BY <1>1, <2>1, <2>2 DEF Filling, Locked
<1>3. \A i \in Slots : InFlight(i)' <=> InFlight(i)
  BY <1>1 DEF InFlight, Dist
<1>4. InFlight(idx[t])
  BY <1>1 DEF WireInv, AboutToKick
<1>5. FrameEnds' /\ FramesFollow'
  BY <1>1, <1>3, FramesStay DEF WireInv
<1>6. FlightReady' /\ AboutToKick' /\ FilledInOrder'
  BY <1>1, <1>2, <1>3 DEF WireInv, FlightReady, AboutToKick, FilledInOrder
<1>7. EnginePlace'
  <2>1. Dist(tx_cidx, hw_idx)' <= Dist(tx_cidx, tx_pidx)'
    BY <1>1 DEF WireInv, EnginePlace, Dist
  <2>2. hw_idx \in Slots
    BY DEF RingInv, TxTypeOK
  <2> QED BY <1>1, <2>1, <2>2 DEF WireInv, EnginePlace, Continues
<1>8. FreeClean'
  BY <1>1, <1>2, <1>3, <1>4 DEF WireInv, FreeClean, Dist
<1> QED BY <1>5, <1>6, <1>7, <1>8 DEF WireInv

(* The reaper never overtakes the engine.                                  *)
LEMMA WireReap ==
  ASSUME RingInv, WireInv, NEW t \in Threads, ReapOne(t)
  PROVE  WireInv'
<1>1. /\ pc[t] = "reap" /\ tx_cidx # tx_pidx /\ ~tx_bd[tx_cidx].ready
      /\ tx_cidx \in Slots /\ tx_pidx \in Slots /\ hw_idx \in Slots
      /\ tx_pidx' = tx_pidx /\ hw_idx' = hw_idx /\ hw_active' = hw_active /\ frame' = frame
      /\ tx_cidx' = NEXT_TX(tx_cidx) /\ tx_q_len' = tx_q_len - 1 /\ tx_q_len \in Nat
  BY ReapNotEmpty DEF RingInv, TxTypeOK, ReapOne, HwOwns, hwVars
<1>2. /\ ~tx_bd'[tx_cidx].ready /\ ~tx_bd'[tx_cidx].last
      /\ \A i \in Slots \ {tx_cidx} : tx_bd'[i] = tx_bd[i]
  BY <1>1 DEF RingInv, TxTypeOK, ReapOne, Reaped
<1>3. \A u \in Senders :
        /\ pc[u] \notin {"fill", "queue", "kick"} /\ pc'[u] \notin {"fill", "queue", "kick"}
  <2>1. \A u \in Threads \ {t} : pc[u] \notin Locked
    BY <1>1, OneAtWork DEF Locked
  <2>2. \A u \in Threads : pc'[u] = pc[u] \/ pc'[u] \in {"idle", "check"}
    BY DEF RingInv, TxTypeOK, ReapOne, AfterReap, Goto
  <2> QED BY <1>1, <2>1, <2>2 DEF Threads, Locked
<1>4. tx_cidx # hw_idx
  <2>1. SUFFICES ASSUME tx_cidx = hw_idx PROVE FALSE
    OBVIOUS
  <2>2. InFlight(hw_idx)
    BY <1>1, <2>1, DistBounds, TxAssumption DEF InFlight
  <2> QED BY <1>1, <1>3, <2>1, <2>2 DEF WireInv, FlightReady
<1>5. ~InFlight(tx_cidx)
  BY <1>1, <1>4, FlightSpan, DistBounds DEF WireInv
<1>6. /\ \A i \in Slots : InFlight(i)' <=> InFlight(i)
      /\ \A i \in Slots \ {tx_cidx} : Dist(tx_cidx', i) = Dist(tx_cidx, i) - 1
  BY <1>1, DistAdvanceStart DEF InFlight, Dist
<1>7. FrameEnds' /\ FramesFollow'
  BY <1>1, <1>2, <1>5, <1>6, FramesStay DEF WireInv
<1>8. Filling = {} /\ Filling' = {}
  BY <1>3 DEF Filling
<1>9. FlightReady' /\ AboutToKick' /\ FilledInOrder'
  BY <1>2, <1>3, <1>5, <1>6, <1>8 DEF WireInv, FlightReady, AboutToKick, FilledInOrder
<1>10. EnginePlace'
  <2>1. Dist(tx_cidx', hw_idx) <= Dist(tx_cidx', tx_pidx)
    BY <1>1, <1>4, <1>6, DistBounds DEF WireInv, EnginePlace
  <2>2. Dist(tx_cidx, hw_idx)' <= Dist(tx_cidx, tx_pidx)'
    BY <2>1, <1>1 DEF Dist
  <2>3. tx_bd'[hw_idx] = tx_bd[hw_idx]
    BY <1>1, <1>2, <1>4
  <2> QED BY <1>1, <2>2, <2>3 DEF WireInv, EnginePlace, Continues
<1>11. FreeClean'
  <2>1. \A i \in Slots : tx_q_len' <= Dist(tx_cidx', i) => ~tx_bd'[i].last
    BY <1>1, <1>2, <1>6, DistBounds DEF WireInv, FreeClean
  <2>2. \A i \in Slots : tx_bd'[i].ready => InFlight(i)'
    BY <1>2, <1>6, <1>8 DEF WireInv, FreeClean
  <2> QED BY <2>1, <2>2 DEF FreeClean, Dist
<1> QED BY <1>7, <1>9, <1>10, <1>11 DEF WireInv

(* The engine sends a descriptor in flight and looks at the next one.      *)
LEMMA WireSend ==
  ASSUME RingInv, WireInv, HwSend
  PROVE  WireInv'
<1>1. /\ hw_idx \in Slots /\ tx_cidx \in Slots /\ tx_pidx \in Slots
      /\ hw_active /\ tx_bd[hw_idx].ready
      /\ hw_idx # tx_pidx /\ InFlight(hw_idx)
      /\ tx_pidx' = tx_pidx /\ tx_cidx' = tx_cidx /\ tx_q_len' = tx_q_len
      /\ hw_active' = hw_active
      /\ pc' = pc /\ idx' = idx /\ npkt' = npkt /\ tot_iov' = tot_iov /\ filled' = filled
      /\ frame' = IF tx_bd[hw_idx].last THEN None ELSE tx_bd[hw_idx].buffer
      /\ ~tx_bd'[hw_idx].ready
      /\ \A i \in Slots : /\ i # hw_idx => tx_bd'[i] = tx_bd[i]
                          /\ tx_bd'[i].buffer = tx_bd[i].buffer /\ tx_bd'[i].last = tx_bd[i].last
  BY EngineInFlight DEF RingInv, TxTypeOK, HwSend, SetReady, threadVars
<1>2. hw_idx' = NEXT_TX(hw_idx) /\ hw_idx' \in Slots
  BY <1>1, NextTx DEF RingInv, InRing, HwSend
<1>3. /\ Dist(hw_idx', tx_pidx) = Dist(hw_idx, tx_pidx) - 1
      /\ \A i \in Slots \ {hw_idx} : Dist(hw_idx', i) = Dist(hw_idx, i) - 1
      /\ Dist(hw_idx', hw_idx) = NumTx - 1
  <2>1. Dist(hw_idx', hw_idx) = NumTx - 1
    BY <1>1, <1>2, NextTx, TxAssumption DEF Dist, Slots
  <2> QED BY <1>1, <1>2, <2>1, DistAdvanceStart
<1>4. \A i \in Slots : InFlight(i)' <=> InFlight(i) /\ i # hw_idx
  <2>1. \A i \in Slots : InFlight(i)' <=> Dist(hw_idx', i) < Dist(hw_idx', tx_pidx)
    BY <1>1 DEF InFlight, Dist
  <2> QED BY <1>1, <1>3, <2>1, DistBounds, TxAssumption DEF InFlight
<1>5. FrameEnds' /\ FramesFollow'
  BY <1>1, <1>4, FramesStay DEF WireInv
<1>6. FlightReady' /\ AboutToKick'
  <2>1. FlightReady'
    BY <1>1, <1>4 DEF WireInv, FlightReady
  <2>2. \A t \in Senders : pc[t] = "kick" => idx[t] \in Slots /\ idx[t] # hw_idx
    BY <1>1 DEF WireInv, AboutToKick, RingInv, TxTypeOK, Threads
  <2> QED BY <1>1, <1>4, <2>1, <2>2 DEF WireInv, AboutToKick
<1>7. EnginePlace'
  <2>1. Dist(tx_cidx, hw_idx') <= Dist(tx_cidx, tx_pidx)
    <3>1. Dist(tx_cidx, hw_idx) < Dist(tx_cidx, tx_pidx)
      BY <1>1, FlightSpan DEF WireInv
    <3> QED BY <1>1, <1>2, <3>1, DistAdvanceEnd, DistBounds, TxAssumption
  <2>2. Dist(tx_cidx, hw_idx)' <= Dist(tx_cidx, tx_pidx)'
    BY <1>1, <2>1 DEF Dist
  <2>3. CASE hw_idx' = tx_pidx
    <3>1. frame' = None
      BY <1>1, <1>2, <2>3 DEF WireInv, FrameEnds
    <3> QED BY <1>1, <2>2, <2>3, <3>1 DEF EnginePlace
  <2>4. CASE hw_idx' # tx_pidx
    <3>1. InFlight(hw_idx') /\ Follows(tx_bd[hw_idx], tx_bd[hw_idx'])
      BY <1>1, <1>2, <2>4, FlightNext DEF WireInv, FramesFollow
    <3>2. /\ tx_bd[hw_idx'].last = (tx_bd[hw_idx'].buffer.frag = tx_bd[hw_idx'].buffer.iovs)
          /\ tx_bd[hw_idx].buffer # None
      BY <1>1, <1>2, <3>1, TxAssumption DEF WireInv, FrameEnds, Buffers, Npkts
    <3>3. /\ tx_bd'[hw_idx'].buffer = tx_bd[hw_idx'].buffer
          /\ tx_bd'[hw_idx'].last = tx_bd[hw_idx'].last
      BY <1>1, <1>2
    <3>4. IF frame' = None THEN tx_bd'[hw_idx'].buffer.frag = 1
                           ELSE tx_bd'[hw_idx'].buffer = [frame' EXCEPT !.frag = @ + 1]
      <4>1. CASE tx_bd[hw_idx].last
        BY <1>1, <3>1, <3>3, <4>1 DEF Follows
      <4>2. CASE ~tx_bd[hw_idx].last
        <5>1. frame' = tx_bd[hw_idx].buffer /\ frame' # None
          BY <1>1, <3>2, <4>2
        <5>2. tx_bd[hw_idx'].buffer = [tx_bd[hw_idx].buffer EXCEPT !.frag = @ + 1]
          BY <3>1, <4>2 DEF Follows
        <5> QED BY <3>3, <5>1, <5>2, Zenon
      <4> QED BY <4>1, <4>2
    <3> QED BY <1>1, <2>2, <2>4, <3>2, <3>3, <3>4 DEF EnginePlace, Continues
  <2> QED BY <2>3, <2>4
<1>8. FreeClean'
  <2>1. Filling' = Filling
    BY <1>1 DEF Filling
  <2> QED BY <1>1, <1>4, <2>1 DEF WireInv, FreeClean, Dist
<1>9. FilledInOrder'
  <2> SUFFICES ASSUME NEW t \in Filling, NEW i \in Slots, Dist(tx_pidx, i) < filled[t]
               PROVE  /\ tx_bd'[i].buffer = [pkt |-> npkt[t], frag |-> Dist(tx_pidx, i) + 1, iovs |-> tot_iov[t]]
                      /\ ~tx_bd'[i].last /\ (tx_bd'[i].ready => i # tx_pidx)
                      /\ (i # tx_pidx => tx_bd'[i].ready)
    BY <1>1 DEF FilledInOrder, Filling, Dist
  <2>1. i # hw_idx
    BY <1>1, FilledBehind DEF WireInv
  <2> QED BY <1>1, <2>1 DEF WireInv, FilledInOrder
<1> QED BY <1>5, <1>6, <1>7, <1>8, <1>9 DEF WireInv

(* The engine stops at a descriptor that is not ready.                     *)
LEMMA WireStop ==
  ASSUME RingInv, WireInv, HwStop
  PROVE  WireInv'
<1>1. /\ tx_bd' = tx_bd /\ tx_pidx' = tx_pidx /\ tx_cidx' = tx_cidx /\ tx_q_len' = tx_q_len
      /\ hw_idx' = hw_idx /\ frame' = frame /\ ~tx_bd[hw_idx].ready
      /\ UNCHANGED threadVars
  BY DEF HwStop, ringVars
<1>2. \A i \in Slots : InFlight(i)' <=> InFlight(i)
  BY <1>1 DEF InFlight, Dist
<1>3. FrameEnds' /\ FramesFollow'
  BY <1>1, <1>2, FramesStay DEF WireInv
<1>4. FlightReady'
  BY <1>1, <1>2 DEF WireInv, FlightReady, threadVars
<1>5. AboutToKick'
  <2>1. \A t \in Senders : pc[t] = "kick" => idx[t] \in Slots
    BY DEF RingInv, TxTypeOK, Threads
  <2> QED BY <1>1, <1>2, <2>1 DEF WireInv, AboutToKick, threadVars
<1>6. EnginePlace'
  BY <1>1 DEF WireInv, EnginePlace, Continues, Dist
<1>7. FreeClean' /\ FilledInOrder'
  BY <1>1, <1>2 DEF WireInv, FreeClean, FilledInOrder, Dist, Filling, threadVars
<1> QED BY <1>3, <1>4, <1>5, <1>6, <1>7 DEF WireInv

(* The filled descriptors are in flight once they are queued, behind the   *)
(* others, and the last of them carries L.                                 *)
LEMMA QueueFlight ==
  ASSUME RingInv, WireInv, NEW t \in Senders, Queue(t)
  PROVE  /\ PREV_TX(idx[t]) \in Slots /\ Dist(tx_pidx, PREV_TX(idx[t])) = filled[t] - 1
         /\ tx_bd'[PREV_TX(idx[t])].last
         /\ \A i \in Slots : i # PREV_TX(idx[t]) => tx_bd'[i].last = tx_bd[i].last
         /\ \A i \in Slots : tx_bd'[i].buffer = tx_bd[i].buffer
         /\ \A i \in Slots : /\ InFlight(i)' <=> InFlight(i) \/ Dist(tx_pidx, i) < filled[t]
                             /\ Dist(tx_pidx, i) < filled[t] => ~InFlight(i)
                             /\ InFlight(i) => i # PREV_TX(idx[t])
         /\ \A i \in Slots : Dist(tx_pidx, i) < filled[t] =>
              /\ tx_bd'[i].buffer
                   = [pkt |-> npkt[t], frag |-> Dist(tx_pidx, i) + 1, iovs |-> tot_iov[t]]
              /\ tx_bd'[i].last <=> Dist(tx_pidx, i) + 1 = tot_iov[t]
              /\ tx_bd'[i].ready <=> i # tx_pidx
              /\ ~tx_bd[i].last
<1> DEFINE end == PREV_TX(idx[t])
<1>1. /\ t \in Threads /\ pc[t] = "queue" /\ t \in Filling
      /\ idx[t] \in Slots /\ tx_cidx \in Slots /\ tx_pidx \in Slots /\ hw_idx \in Slots
      /\ tot_iov[t] \in Nat /\ filled[t] = tot_iov[t] /\ tot_iov[t] \in 1 .. MaxIov
      /\ npkt[t] \in Npkts
      /\ tx_q_len \in Nat /\ tx_q_len = Dist(tx_cidx, tx_pidx) + filled[t]
      /\ Dist(tx_pidx, idx[t]) = filled[t]
      /\ Dist(tx_cidx, tx_pidx) + tot_iov[t] < NumTx
      /\ Dist(tx_cidx, hw_idx) <= Dist(tx_cidx, tx_pidx)
  BY DEF RingInv, TxTypeOK, FillProgress, SenderLocals, Lockers, Locked, Threads, Queue,
     Filling, WireInv, EnginePlace
<1>2. Dist(tx_cidx, idx[t]) = tx_q_len
  BY <1>1, DistSum, DistBounds, TxAssumption
<1>3. end \in Slots /\ NEXT_TX(end) = idx[t]
  BY <1>1, TxAssumption DEF PREV_TX, NEXT_TX, Slots
<1>4. Dist(tx_pidx, end) = filled[t] - 1 /\ Dist(tx_cidx, end) = tx_q_len - 1
  <2>1. Dist(tx_pidx, end) = filled[t] - 1
    BY <1>1, <1>3, NextTx, TxAssumption DEF Dist, Slots
  <2>2. Dist(tx_cidx, end) = Dist(tx_cidx, tx_pidx) + Dist(tx_pidx, end)
    BY <1>1, <1>3, <2>1, DistSum, DistBounds, TxAssumption
  <2> QED BY <1>1, <2>1, <2>2, DistBounds
<1>5. /\ tx_pidx' = idx[t] /\ tx_cidx' = tx_cidx /\ tx_q_len' = tx_q_len
      /\ hw_idx' = hw_idx /\ hw_active' = hw_active /\ frame' = frame
      /\ idx'[t] = tx_pidx
      /\ tx_bd'[end].last
      /\ \A i \in Slots : /\ i # end => tx_bd'[i].last = tx_bd[i].last
                          /\ tx_bd'[i].buffer = tx_bd[i].buffer
                          /\ tx_bd'[i].ready = tx_bd[i].ready
  BY <1>1, <1>3 DEF RingInv, TxTypeOK, Queue, SetLast, hwVars
<1> HIDE DEF end
<1>7. ASSUME NEW i \in Slots
      PROVE  /\ InFlight(i)' <=> InFlight(i) \/ Dist(tx_pidx, i) < filled[t]
             /\ Dist(tx_pidx, i) < filled[t] => ~InFlight(i)
             /\ InFlight(i) => i # end
  <2>1. InFlight(i)' <=> Dist(hw_idx, i) < Dist(hw_idx, idx[t])
    BY <1>5 DEF InFlight, Dist
  <2>2. Dist(hw_idx, idx[t]) = tx_q_len - Dist(tx_cidx, hw_idx)
    BY <1>1, <1>2, DistLeft, DistBounds
  <2>3. Dist(hw_idx, tx_pidx) = Dist(tx_cidx, tx_pidx) - Dist(tx_cidx, hw_idx)
    BY <1>1, DistLeft
  <2>4. Dist(tx_pidx, i) < filled[t] => Dist(hw_idx, i) = Dist(hw_idx, tx_pidx) + Dist(tx_pidx, i)
    BY <1>1, <2>3, DistSum, DistBounds, TxAssumption
  <2>5. Dist(hw_idx, tx_pidx) <= Dist(hw_idx, i)
          => Dist(tx_pidx, i) = Dist(hw_idx, i) - Dist(hw_idx, tx_pidx)
    BY <1>1, DistLeft
  <2>6. InFlight(i)' <=> InFlight(i) \/ Dist(tx_pidx, i) < filled[t]
    BY <1>1, <2>1, <2>2, <2>3, <2>4, <2>5, DistBounds, TxAssumption DEF InFlight
  <2>7. Dist(tx_pidx, i) < filled[t] => ~InFlight(i)
    BY <1>1, FilledBehind DEF WireInv
  <2> QED BY <1>1, <1>4, <2>6, <2>7
<1>8. ASSUME NEW i \in Slots, Dist(tx_pidx, i) < filled[t]
      PROVE  /\ tx_bd'[i].buffer = [pkt |-> npkt[t], frag |-> Dist(tx_pidx, i) + 1, iovs |-> tot_iov[t]]
             /\ tx_bd'[i].last <=> Dist(tx_pidx, i) + 1 = tot_iov[t]
             /\ tx_bd'[i].ready <=> i # tx_pidx
             /\ ~tx_bd[i].last
  <2>1. /\ tx_bd[i].buffer = [pkt |-> npkt[t], frag |-> Dist(tx_pidx, i) + 1, iovs |-> tot_iov[t]]
        /\ ~tx_bd[i].last /\ (tx_bd[i].ready <=> i # tx_pidx)
    BY <1>1, <1>8 DEF WireInv, FilledInOrder
  <2>2. i = end <=> Dist(tx_pidx, i) + 1 = tot_iov[t]
    BY <1>1, <1>3, <1>4, DistInjective, DistBounds
  <2> QED BY <1>5, <2>1, <2>2
<1> QED BY <1>1, <1>3, <1>4, <1>5, <1>7, <1>8 DEF end

(* Queueing puts the filled descriptors in flight.                         *)
LEMMA WireQueue ==
  ASSUME RingInv, WireInv, NEW t \in Senders, Queue(t)
  PROVE  WireInv'
<1> DEFINE end == PREV_TX(idx[t])
<1>1. /\ t \in Threads /\ pc[t] = "queue" /\ t \in Filling
      /\ idx[t] \in Slots /\ tx_cidx \in Slots /\ tx_pidx \in Slots /\ hw_idx \in Slots
      /\ tot_iov[t] \in Nat /\ filled[t] = tot_iov[t] /\ tot_iov[t] \in 1 .. MaxIov
      /\ npkt[t] \in Npkts
      /\ tx_q_len \in Nat /\ tx_q_len = Dist(tx_cidx, tx_pidx) + filled[t]
      /\ Dist(tx_pidx, idx[t]) = filled[t]
      /\ Dist(tx_cidx, tx_pidx) + tot_iov[t] < NumTx
      /\ Dist(tx_cidx, hw_idx) <= Dist(tx_cidx, tx_pidx)
  BY DEF RingInv, TxTypeOK, FillProgress, SenderLocals, Lockers, Locked, Threads, Queue,
     Filling, WireInv, EnginePlace
<1>2. Dist(tx_cidx, idx[t]) = tx_q_len
  BY <1>1, DistSum, DistBounds, TxAssumption
<1>3. end \in Slots /\ NEXT_TX(end) = idx[t]
  BY <1>1, TxAssumption DEF PREV_TX, NEXT_TX, Slots
<1>4. Dist(tx_pidx, end) = filled[t] - 1 /\ Dist(tx_cidx, end) = tx_q_len - 1
  <2>1. Dist(tx_pidx, end) = filled[t] - 1
    BY <1>1, <1>3, NextTx, TxAssumption DEF Dist, Slots
  <2>2. Dist(tx_cidx, end) = Dist(tx_cidx, tx_pidx) + Dist(tx_pidx, end)
    BY <1>1, <1>3, <2>1, DistSum, DistBounds, TxAssumption
  <2> QED BY <1>1, <2>1, <2>2, DistBounds
<1>5. /\ tx_pidx' = idx[t] /\ tx_cidx' = tx_cidx /\ tx_q_len' = tx_q_len
      /\ hw_idx' = hw_idx /\ hw_active' = hw_active /\ frame' = frame
      /\ idx'[t] = tx_pidx
      /\ tx_bd'[end].last
      /\ \A i \in Slots : /\ i # end => tx_bd'[i].last = tx_bd[i].last
                          /\ tx_bd'[i].buffer = tx_bd[i].buffer
                          /\ tx_bd'[i].ready = tx_bd[i].ready
  BY <1>1, <1>3 DEF RingInv, TxTypeOK, Queue, SetLast, hwVars
<1>0. /\ \A i \in Slots : /\ InFlight(i)' <=> InFlight(i) \/ Dist(tx_pidx, i) < filled[t]
                          /\ Dist(tx_pidx, i) < filled[t] => ~InFlight(i)
                          /\ InFlight(i) => i # end
      /\ \A i \in Slots : Dist(tx_pidx, i) < filled[t] =>
           /\ tx_bd'[i].buffer = [pkt |-> npkt[t], frag |-> Dist(tx_pidx, i) + 1, iovs |-> tot_iov[t]]
           /\ tx_bd'[i].last <=> Dist(tx_pidx, i) + 1 = tot_iov[t]
           /\ tx_bd'[i].ready <=> i # tx_pidx
           /\ ~tx_bd[i].last
  BY QueueFlight
<1> HIDE DEF end
<1>6. Filling = {t} /\ Filling' = {} /\ pc'[t] = "kick"
      /\ \A u \in Senders : pc[u] # "kick" /\ (pc'[u] = "kick" => u = t)
  <2>1. \A u \in Senders \ {t} : pc[u] \notin Locked
    BY <1>1, OneAtWork DEF Threads, Locked
  <2>2. pc'[t] = "kick" /\ \A u \in Senders \ {t} : pc'[u] = pc[u]
    BY <1>1 DEF RingInv, TxTypeOK, Queue, Goto, Threads
  <2> QED BY <1>1, <2>1, <2>2 DEF Filling, Locked
<1>7. ASSUME NEW i \in Slots
      PROVE  /\ InFlight(i)' <=> InFlight(i) \/ Dist(tx_pidx, i) < filled[t]
             /\ Dist(tx_pidx, i) < filled[t] => ~InFlight(i)
             /\ InFlight(i) => i # end
  BY <1>0
<1>8. ASSUME NEW i \in Slots, Dist(tx_pidx, i) < filled[t]
      PROVE  /\ tx_bd'[i].buffer = [pkt |-> npkt[t], frag |-> Dist(tx_pidx, i) + 1, iovs |-> tot_iov[t]]
             /\ tx_bd'[i].last <=> Dist(tx_pidx, i) + 1 = tot_iov[t]
             /\ tx_bd'[i].ready <=> i # tx_pidx
             /\ ~tx_bd[i].last
  BY <1>0, <1>8
<1>9. FrameEnds'
  <2> SUFFICES ASSUME NEW i \in Slots, InFlight(i)'
               PROVE  /\ tx_bd'[i].buffer \in Buffers
                      /\ tx_bd'[i].last = (tx_bd'[i].buffer.frag = tx_bd'[i].buffer.iovs)
                      /\ NEXT_TX(i) = tx_pidx' => tx_bd'[i].last
    BY DEF FrameEnds, NEXT_TX
  <2>1. CASE InFlight(i)
    <3>1. i # end
      BY <1>7, <2>1
    <3>2. NEXT_TX(i) # idx[t]
      BY <1>3, <3>1, NextTx, TxAssumption DEF Slots
    <3> QED BY <1>5, <2>1, <3>1, <3>2 DEF WireInv, FrameEnds
  <2>2. CASE Dist(tx_pidx, i) < filled[t]
    <3> DEFINE k == Dist(tx_pidx, i) + 1
    <3>0. /\ tx_bd'[i].buffer = [pkt |-> npkt[t], frag |-> k, iovs |-> tot_iov[t]]
          /\ k \in 1 .. MaxIov /\ (tx_bd'[i].last <=> k = tot_iov[t])
      <4>1. k \in 1 .. MaxIov
        BY <1>1, <2>2, DistBounds, TxAssumption
      <4> QED BY <1>8, <2>2, <4>1
    <3> HIDE DEF k
    <3>1. tx_bd'[i].buffer \in Buffers
      BY <1>1, <3>0 DEF Buffers
    <3>2. tx_bd'[i].last = (tx_bd'[i].buffer.frag = tx_bd'[i].buffer.iovs)
      <4>1. tx_bd'[i].buffer.frag = k /\ tx_bd'[i].buffer.iovs = tot_iov[t]
        BY <3>0
      <4>2. tx_bd'[i].last \in BOOLEAN
        BY RingInvQueue DEF RingInv, TxTypeOK, Descriptors
      <4> QED BY <3>0, <4>1, <4>2
    <3>3. NEXT_TX(i) = idx[t] => i = end
      BY <1>3, NextTx, TxAssumption DEF Slots
    <3> QED BY <1>5, <3>1, <3>2, <3>3
  <2> QED BY <1>7, <2>1, <2>2
<1>10. FramesFollow'
  <2> SUFFICES ASSUME NEW i \in Slots, InFlight(i)', NEXT_TX(i) # idx[t]
               PROVE  Follows(tx_bd'[i], tx_bd'[NEXT_TX(i)])
    BY <1>5 DEF FramesFollow, NEXT_TX
  <2>1. NEXT_TX(i) \in Slots
    BY NextTx
  <2>2. CASE InFlight(i) /\ NEXT_TX(i) # tx_pidx
    <3>1. InFlight(NEXT_TX(i)) /\ Follows(tx_bd[i], tx_bd[NEXT_TX(i)])
      BY <2>2, FlightNext DEF WireInv, FramesFollow
    <3>2. i # end
      BY <1>7, <2>2
    <3> QED BY <1>5, <2>1, <3>1, <3>2 DEF Follows
  <2>3. CASE InFlight(i) /\ NEXT_TX(i) = tx_pidx
    <3>1. tx_bd'[i].last
      BY <1>5, <1>7, <2>3 DEF WireInv, FrameEnds
    <3>2. Dist(tx_pidx, tx_pidx) = 0 /\ 0 < filled[t]
      BY <1>1, DistBounds
    <3>3. tx_bd'[tx_pidx].buffer = [pkt |-> npkt[t], frag |-> 0 + 1, iovs |-> tot_iov[t]]
      BY <1>1, <1>8, <3>2
    <3>4. tx_bd'[tx_pidx].buffer.frag = 1
      BY <3>3
    <3> QED BY <2>3, <3>1, <3>4 DEF Follows
  <2>4. CASE Dist(tx_pidx, i) < filled[t]
    <3>1. i # end
      BY <1>3
    <3>2. Dist(tx_pidx, i) + 1 < filled[t]
      BY <1>1, <1>3, <1>4, <2>4, <3>1, DistInjective, DistBounds
    <3>3. Dist(tx_pidx, NEXT_TX(i)) = Dist(tx_pidx, i) + 1
      BY <1>1, <3>2, DistAdvanceEnd, DistBounds, TxAssumption
    <3>4. ~tx_bd'[i].last
      <4>1. tx_bd'[i].last <=> Dist(tx_pidx, i) + 1 = tot_iov[t]
        BY <1>8, <2>4
      <4> QED BY <1>1, <3>2, <4>1, DistBounds
    <3>5. /\ tx_bd'[i].buffer = [pkt |-> npkt[t], frag |-> Dist(tx_pidx, i) + 1, iovs |-> tot_iov[t]]
          /\ tx_bd'[NEXT_TX(i)].buffer
               = [pkt |-> npkt[t], frag |-> (Dist(tx_pidx, i) + 1) + 1, iovs |-> tot_iov[t]]
      BY <1>8, <2>1, <2>4, <3>2, <3>3
    <3>6. tx_bd'[NEXT_TX(i)].buffer = [tx_bd'[i].buffer EXCEPT !.frag = @ + 1]
      BY <3>5
    <3> QED BY <3>4, <3>6 DEF Follows
  <2> QED BY <1>7, <2>2, <2>3, <2>4
<1>11. FlightReady' /\ AboutToKick'
  <2>1. FlightReady'
    <3> SUFFICES ASSUME NEW i \in Slots, InFlight(i)'
                 PROVE  tx_bd'[i].ready \/ (pc'[t] = "kick" /\ idx'[t] = i)
      BY DEF FlightReady
    <3>1. CASE InFlight(i)
      BY <1>5, <1>6, <3>1 DEF WireInv, FlightReady
    <3>2. CASE Dist(tx_pidx, i) < filled[t]
      BY <1>5, <1>6, <1>8, <3>2
    <3> QED BY <1>7, <3>1, <3>2
  <2>2. Dist(tx_pidx, tx_pidx) = 0 /\ 0 < filled[t]
    BY <1>1, DistBounds
  <2>4. ~tx_bd'[tx_pidx].ready
    BY <1>1, <1>8, <2>2
  <2>5. AboutToKick'
    <3> SUFFICES ASSUME NEW u \in Senders, pc'[u] = "kick"
                 PROVE  InFlight(idx[u])' /\ ~tx_bd'[idx'[u]].ready
      BY DEF AboutToKick
    <3>1. idx'[u] = tx_pidx
      BY <1>5, <1>6
    <3>2. InFlight(idx[u])' <=> Dist(hw_idx, tx_pidx) < Dist(hw_idx, idx[t])
      BY <1>5, <3>1 DEF InFlight, Dist
    <3>3. Dist(hw_idx, idx[t]) = tx_q_len - Dist(tx_cidx, hw_idx)
      BY <1>1, <1>2, DistLeft, DistBounds
    <3>4. Dist(hw_idx, tx_pidx) = Dist(tx_cidx, tx_pidx) - Dist(tx_cidx, hw_idx)
      BY <1>1, DistLeft
    <3>5. Dist(hw_idx, tx_pidx) < Dist(hw_idx, idx[t])
      BY <1>1, <2>2, <3>3, <3>4, DistBounds
    <3> QED BY <2>4, <3>1, <3>2, <3>5
  <2> QED BY <2>1, <2>5
<1>12. EnginePlace'
  <2>1. Dist(tx_cidx, hw_idx)' <= Dist(tx_cidx, tx_pidx)'
    <3>1. Dist(tx_cidx, hw_idx) <= Dist(tx_cidx, idx[t])
      BY <1>1, <1>2, DistBounds
    <3> QED BY <1>5, <3>1 DEF Dist
  <2>2. hw_idx # idx[t]
    BY <1>1, <1>2, DistBounds
  <2>3. tx_bd'[hw_idx].ready => hw_active
    BY <1>1, <1>5 DEF WireInv, EnginePlace
  <2>4. CASE hw_idx # tx_pidx
    <3>1. InFlight(hw_idx)
      BY <1>1, <2>4, DistBounds DEF InFlight
    <3>2. /\ tx_bd'[hw_idx].buffer = tx_bd[hw_idx].buffer
          /\ tx_bd'[hw_idx].last = tx_bd[hw_idx].last
      BY <1>1, <1>5, <1>7, <3>1
    <3> QED BY <1>5, <2>1, <2>2, <2>3, <2>4, <3>2 DEF WireInv, EnginePlace, Continues
  <2>5. CASE hw_idx = tx_pidx
    <3>1. Dist(tx_pidx, hw_idx) = 0 /\ 0 < filled[t]
      BY <1>1, <2>5, DistBounds
    <3>2. tx_bd'[hw_idx].buffer = [pkt |-> npkt[t], frag |-> 0 + 1, iovs |-> tot_iov[t]]
      BY <1>1, <1>8, <3>1
    <3>3. tx_bd'[hw_idx].buffer.frag = 1 /\ frame = None
      BY <2>5, <3>2 DEF WireInv, EnginePlace
    <3>4. \A i \in Slots : i = hw_idx => InFlight(i)'
      BY <1>7, <3>1, <2>5
    <3>5. tx_bd'[hw_idx].last = (tx_bd'[hw_idx].buffer.frag = tx_bd'[hw_idx].buffer.iovs)
      BY <1>1, <1>9, <3>4 DEF FrameEnds
    <3> QED BY <1>5, <2>1, <2>2, <2>3, <3>3, <3>5 DEF EnginePlace, Continues
  <2> QED BY <2>4, <2>5
<1>13. FreeClean'
  <2>1. \A i \in Slots : tx_q_len <= Dist(tx_cidx, i) => ~tx_bd'[i].last
    BY <1>1, <1>3, <1>4, <1>5, DistBounds DEF WireInv, FreeClean
  <2>2. \A i \in Slots : tx_bd'[i].ready => InFlight(i)'
    BY <1>5, <1>6, <1>7 DEF WireInv, FreeClean
  <2> QED BY <1>5, <2>1, <2>2 DEF FreeClean, Dist
<1>14. FilledInOrder'
  BY <1>6 DEF FilledInOrder
<1> QED BY <1>9, <1>10, <1>11, <1>12, <1>13, <1>14 DEF WireInv

(* Nothing is in flight in an empty ring.                                  *)
LEMMA WireInit == TxInit => WireInv
<1> SUFFICES ASSUME TxInit PROVE WireInv
  OBVIOUS
<1>1. 0 \in Slots /\ NumTx \in Nat
  BY TxAssumption DEF Slots
<1>2. \A i \in Slots : ~InFlight(i) /\ ~tx_bd[i].ready /\ ~tx_bd[i].last
  BY <1>1, DistBounds DEF TxInit, InFlight
<1>3. \A t \in Senders : pc[t] = "idle"
  BY DEF TxInit, Threads
<1>4. EnginePlace
  BY <1>1, <1>2, DistBounds DEF TxInit, EnginePlace
<1> QED
  BY <1>2, <1>3, <1>4
  DEF WireInv, FrameEnds, FramesFollow, FlightReady, FreeClean, FilledInOrder, AboutToKick, Filling

(* WireInv holds in every reachable state.                                 *)
LEMMA WireAlways == TxSpec => []WireInv
<1>1. TxInit => WireInv
  BY WireInit
<1>2. RingInv /\ WireInv /\ [TxNext]_txVars => WireInv'
  <2> SUFFICES ASSUME RingInv, WireInv, [TxNext]_txVars PROVE WireInv'
    OBVIOUS
  <2>1. ASSUME NEW t \in Senders, NEW p \in Packets, NEW n \in 1 .. MaxIov, Send(t, p, n)
        PROVE  WireInv'
    BY <2>1, WireQuiet
  <2>2. ASSUME NEW t \in Senders, SenderStep(t) PROVE WireInv'
    BY <2>2, WireQuiet, WireFill, WireQueue, WireKick DEF SenderStep
  <2>3. ASSUME NEW t \in Threads, Lock(t) \/ ReapStep(t) PROVE WireInv'
    BY <2>3, WireQuiet, WireReap DEF ReapStep
  <2> QED
    BY <2>1, <2>2, <2>3, WireQuiet, WireSend, WireStop DEF TxNext, Hw
<1> QED
  BY <1>1, <1>2, RingInvariant, PTL DEF TxSpec

(* What the engine puts on the wire is whole frames in order, it never     *)
(* stops short of a queued packet and the reaper never overtakes it        *)
(* (mx35_fec_send, mx35_fec_reap_pkts and the ring they share with the     *)
(* engine).                                                                *)
THEOREM WireOrderCorrect == TxSpec => []WireInOrder
<1>1. RingInv /\ WireInv => WireInOrder
  <2> SUFFICES ASSUME RingInv, WireInv PROVE WireInOrder
    OBVIOUS
  <2>1. tx_bd[hw_idx].ready => Continues(tx_bd[hw_idx])
    BY EngineInFlight DEF WireInv, EnginePlace
  <2>2. \A i \in Slots :
          tx_bd[i].ready /\ Filling = {} => Dist(hw_idx, i) < Dist(hw_idx, tx_pidx)
    BY DEF WireInv, FreeClean, InFlight
  <2>3. tx_mutex = None =>
          \A i \in Slots : Dist(hw_idx, i) < Dist(hw_idx, tx_pidx) => tx_bd[i].ready
    <3>1. tx_mutex = None => \A t \in Senders : pc[t] # "kick"
      BY TxAssumption DEF RingInv, MutexHeld, Threads, Locked
    <3> QED BY <3>1 DEF WireInv, FlightReady, InFlight
  <2> QED BY <2>1, <2>2, <2>3 DEF WireInv, EnginePlace, WireInOrder
<1> QED
  BY <1>1, WireAlways, RingInvariant, PTL

-----------------------------------------------------------------------------
(* The refinement of TxService.  First, slots in the order in which they   *)
(* follow another one.                                                     *)

(* s lists the slots of S in the order in which they follow slot a.        *)
Sorted(s, S, a) ==
  /\ s \in [1 .. Cardinality(S) -> S]
  /\ \A i \in S : \E k \in 1 .. Cardinality(S) : s[k] = i
  /\ \A k, l \in 1 .. Cardinality(S) : k < l => Dist(a, s[k]) < Dist(a, s[l])

(* The slots of S from slot a up to slot i.                                *)
UpTo(S, a, i) == {j \in S : Dist(a, j) <= Dist(a, i)}

(* The ring is finite.                                                     *)
LEMMA SlotsFinite ==
  ASSUME NEW S \in SUBSET Slots
  PROVE  IsFiniteSet(S) /\ Cardinality(S) \in Nat
<1>1. IsFiniteSet(Slots)
  BY TxAssumption, FS_Interval DEF Slots
<1> QED BY <1>1, FS_Subset, FS_CardinalityType

(* Different slots have different turns, and every turn up to the number   *)
(* of slots is somebody's.                                                 *)
LEMMA TurnsTaken ==
  ASSUME NEW S \in SUBSET Slots, NEW a \in Slots
  PROVE  /\ \A i \in S : Turn(S, a, i) \in 1 .. Cardinality(S)
         /\ \A i, j \in S : Dist(a, i) < Dist(a, j) => Turn(S, a, i) < Turn(S, a, j)
         /\ \A k \in 1 .. Cardinality(S) : \E i \in S : Turn(S, a, i) = k
<1> DEFINE n == Cardinality(S)
           f == [i \in S |-> Turn(S, a, i)]
<1>1. IsFiniteSet(S) /\ n \in Nat
  BY SlotsFinite
<1>2. \A i \in S : Turn(S, a, i) = Cardinality(UpTo(S, a, i))
  BY DEF Turn, UpTo
<1>3. \A i \in S : /\ UpTo(S, a, i) \in SUBSET S /\ IsFiniteSet(UpTo(S, a, i))
                   /\ Cardinality(UpTo(S, a, i)) \in Nat /\ Cardinality(UpTo(S, a, i)) <= n
                   /\ i \in UpTo(S, a, i)
  <2> SUFFICES ASSUME NEW i \in S
               PROVE  /\ UpTo(S, a, i) \in SUBSET S /\ IsFiniteSet(UpTo(S, a, i))
                      /\ Cardinality(UpTo(S, a, i)) \in Nat /\ Cardinality(UpTo(S, a, i)) <= n
                      /\ i \in UpTo(S, a, i)
    OBVIOUS
  <2>1. UpTo(S, a, i) \in SUBSET S
    BY DEF UpTo
  <2>2. i \in UpTo(S, a, i)
    BY DistBounds DEF UpTo
  <2> QED BY <1>1, <2>1, <2>2, FS_Subset, FS_CardinalityType
<1>4. \A i \in S : Turn(S, a, i) \in 1 .. n
  <2> SUFFICES ASSUME NEW i \in S PROVE Turn(S, a, i) \in 1 .. n
    OBVIOUS
  <2>1. UpTo(S, a, i) # {}
    BY <1>3
  <2>2. Cardinality(UpTo(S, a, i)) # 0
    BY <1>3, <2>1, FS_EmptySet
  <2> QED BY <1>1, <1>2, <1>3, <2>2
<1>5. ASSUME NEW i \in S, NEW j \in S, Dist(a, i) < Dist(a, j)
      PROVE  Turn(S, a, i) < Turn(S, a, j)
  <2>1. /\ Dist(a, i) \in Nat /\ Dist(a, j) \in Nat
        /\ \A l \in S : Dist(a, l) \in Nat
    BY DistBounds, TxAssumption
  <2>2. UpTo(S, a, i) \in SUBSET UpTo(S, a, j)
    BY <1>5, <2>1 DEF UpTo
  <2>3. j \in UpTo(S, a, j) /\ j \notin UpTo(S, a, i)
    BY <1>5, <2>1 DEF UpTo
  <2>4. /\ Cardinality(UpTo(S, a, i)) <= Cardinality(UpTo(S, a, j))
        /\ Cardinality(UpTo(S, a, i)) # Cardinality(UpTo(S, a, j))
    BY <1>3, <2>2, <2>3, FS_Subset
  <2> QED BY <1>2, <1>3, <2>4
<1>6. \A k \in 1 .. n : \E i \in S : Turn(S, a, i) = k
  <2>1. f \in Injection(S, 1 .. n)
    <3>1. f \in [S -> 1 .. n]
      BY <1>4
    <3>2. \A i, j \in S : i # j => Dist(a, i) < Dist(a, j) \/ Dist(a, j) < Dist(a, i)
      <4> SUFFICES ASSUME NEW i \in S, NEW j \in S, i # j
                   PROVE  Dist(a, i) < Dist(a, j) \/ Dist(a, j) < Dist(a, i)
        OBVIOUS
      <4>1. Dist(a, i) # Dist(a, j)
        BY DistInjective
      <4>2. Dist(a, i) \in Int /\ Dist(a, j) \in Int
        BY DistBounds
      <4> QED BY <4>1, <4>2
    <3>3. ASSUME NEW i \in S, NEW j \in S, f[i] = f[j]
          PROVE  i = j
      BY <1>4, <1>5, <3>2, <3>3
    <3> QED BY <3>1, <3>3 DEF Injection, IsInjective
  <2>2. IsFiniteSet(1 .. n) /\ Cardinality(1 .. n) = n
    BY <1>1, FS_Interval
  <2>3. f \in Surjection(S, 1 .. n)
    BY <2>1, <2>2, FS_Injection
  <2> QED BY <2>3 DEF Surjection
<1> QED BY <1>4, <1>5, <1>6

(* InOrder is that list.                                                   *)
LEMMA InOrderSorted ==
  ASSUME NEW S \in SUBSET Slots, NEW a \in Slots
  PROVE  Sorted(InOrder(S, a), S, a)
<1> DEFINE n == Cardinality(S)
           s == InOrder(S, a)
<1>1. \A k \in 1 .. n : s[k] \in S /\ Turn(S, a, s[k]) = k
  BY TurnsTaken DEF InOrder
<1>2. s \in [1 .. n -> S]
  BY <1>1 DEF InOrder
<1>3. \A i, j \in S : /\ Dist(a, i) \in Int /\ Dist(a, j) \in Int
                      /\ Dist(a, i) = Dist(a, j) => i = j
  BY DistBounds, DistInjective
<1>4. \A i, j \in S : Dist(a, i) < Dist(a, j) => Turn(S, a, i) < Turn(S, a, j)
  BY TurnsTaken
<1>5. \A i \in S : Turn(S, a, i) \in 1 .. n
  BY TurnsTaken
<1>6. n \in Nat
  BY SlotsFinite
<1> HIDE DEF n, s
<1>7. \A i \in S : \E k \in 1 .. n : s[k] = i
  <2> SUFFICES ASSUME NEW i \in S PROVE s[Turn(S, a, i)] = i
    BY <1>5
  <2>1. PICK j : j = s[Turn(S, a, i)]
    OBVIOUS
  <2>2. j \in S /\ Turn(S, a, j) = Turn(S, a, i)
    BY <1>1, <1>5, <2>1
  <2>3. ~(Dist(a, i) < Dist(a, j)) /\ ~(Dist(a, j) < Dist(a, i))
    BY <1>4, <1>5, <1>6, <2>2
  <2> QED BY <1>3, <2>1, <2>2, <2>3
<1>8. ASSUME NEW k \in 1 .. n, NEW l \in 1 .. n, k < l
      PROVE  Dist(a, s[k]) < Dist(a, s[l])
  <2>1. PICK i \in S : i = s[k] /\ Turn(S, a, i) = k
    BY <1>1
  <2>2. PICK j \in S : j = s[l] /\ Turn(S, a, j) = l
    BY <1>1
  <2>3. ~(Dist(a, j) < Dist(a, i)) /\ i # j
    BY <1>4, <1>6, <1>8, <2>1, <2>2
  <2> QED BY <1>3, <2>1, <2>2, <2>3
<1> QED BY <1>2, <1>7, <1>8 DEF Sorted, n, s

(* There is only one.                                                      *)
LEMMA SortedIs ==
  ASSUME NEW S \in SUBSET Slots, NEW a \in Slots, NEW s, Sorted(s, S, a)
  PROVE  InOrder(S, a) = s
<1> DEFINE n == Cardinality(S)
<1>1. n \in Nat
  BY SlotsFinite
<1>2. /\ s \in [1 .. n -> S]
      /\ \A i \in S : \E k \in 1 .. n : s[k] = i
      /\ \A k, l \in 1 .. n : k < l => Dist(a, s[k]) < Dist(a, s[l])
  BY DEF Sorted
<1>3. \A k \in 1 .. n : s[k] \in S /\ Dist(a, s[k]) \in Int
  BY <1>2, DistBounds
<1> HIDE DEF n
<1>4. ASSUME NEW k \in 1 .. n
      PROVE  Turn(S, a, s[k]) = k
  <2> DEFINE T == UpTo(S, a, s[k])
             g == [m \in 1 .. k |-> s[m]]
  <2>1. \A m \in 1 .. k : m \in 1 .. n
    BY <1>1
  <2>2. \A m \in 1 .. n : s[m] \in T <=> m <= k
    <3> SUFFICES ASSUME NEW m \in 1 .. n
                 PROVE  Dist(a, s[m]) <= Dist(a, s[k]) <=> m <= k
      BY <1>3 DEF UpTo
    <3>1. m < k => Dist(a, s[m]) < Dist(a, s[k])
      BY <1>2
    <3>2. k < m => Dist(a, s[k]) < Dist(a, s[m])
      BY <1>2
    <3> QED BY <1>1, <1>3, <3>1, <3>2
  <2>3. g \in [1 .. k -> T]
    BY <2>1, <2>2
  <2>4. \A j \in T : \E m \in 1 .. k : g[m] = j
    <3> SUFFICES ASSUME NEW j \in T PROVE \E m \in 1 .. k : s[m] = j
      OBVIOUS
    <3>1. PICK m \in 1 .. n : s[m] = j
      BY <1>2 DEF UpTo
    <3>2. m \in 1 .. k
      BY <1>1, <2>2, <3>1
    <3> QED BY <3>1, <3>2
  <2>5. \A l, m \in 1 .. k : g[l] = g[m] => l = m
    <3> SUFFICES ASSUME NEW l \in 1 .. k, NEW m \in 1 .. k, s[l] = s[m] PROVE l = m
      OBVIOUS
    <3>1. l \in 1 .. n /\ m \in 1 .. n
      BY <2>1
    <3>2. ~(l < m) /\ ~(m < l)
      BY <1>2, <1>3, <3>1
    <3> QED BY <3>1, <3>2
  <2>6. g \in Bijection(1 .. k, T)
    BY <2>3, <2>4, <2>5 DEF Bijection, Injection, IsInjective, Surjection
  <2>7. IsFiniteSet(1 .. k) /\ Cardinality(1 .. k) = k
    BY <1>1, FS_Interval
  <2>8. Cardinality(T) = k
    BY <2>6, <2>7, FS_Bijection DEF ExistsBijection
  <2> QED BY <2>8 DEF Turn, UpTo
<1>5. \A k \in 1 .. n : \A i \in S : Turn(S, a, i) = k => i = s[k]
  <2> SUFFICES ASSUME NEW k \in 1 .. n, NEW i \in S, Turn(S, a, i) = k PROVE i = s[k]
    OBVIOUS
  <2>1. PICK m \in 1 .. n : s[m] = i
    BY <1>2
  <2>2. m = k
    BY <1>4, <2>1
  <2> QED BY <2>1, <2>2
<1>6. \A k \in 1 .. n : (CHOOSE i \in S : Turn(S, a, i) = k) = s[k]
  BY <1>3, <1>4, <1>5
<1> QED BY <1>2, <1>6 DEF InOrder, n

(* What is read along slots that stay, through the same entries.           *)
LEMMA AlongSame ==
  ASSUME NEW S \in SUBSET Slots, NEW a \in Slots, NEW f, NEW g, \A i \in S : g[i] = f[i]
  PROVE  Along(g, S, a) = Along(f, S, a)
<1>1. \A k \in 1 .. Cardinality(S) : InOrder(S, a)[k] \in S
  <2>1. InOrder(S, a) \in [1 .. Cardinality(S) -> S]
    BY InOrderSorted DEF Sorted
  <2> QED BY <2>1
<1> QED BY <1>1 DEF Along

(* It is a sequence, as long as there are slots.                           *)
LEMMA AlongLen ==
  ASSUME NEW S \in SUBSET Slots, NEW a \in Slots, NEW f
  PROVE  /\ Len(Along(f, S, a)) = Cardinality(S)
         /\ Along(f, S, a) = <<>> <=> S = {}
<1>1. Cardinality(S) \in Nat /\ IsFiniteSet(S)
  BY SlotsFinite
<1>2. Len(Along(f, S, a)) = Cardinality(S)
  BY <1>1 DEF Along
<1>3. Cardinality(S) = 0 <=> S = {}
  BY <1>1, FS_EmptySet
<1>4. Cardinality(S) = 0 => Along(f, S, a) = <<>>
  BY DEF Along
<1> QED BY <1>2, <1>3, <1>4

(* Everything that is read is in one of the slots.                         *)
LEMMA AlongRange ==
  ASSUME NEW S \in SUBSET Slots, NEW a \in Slots, NEW f
  PROVE  \A k \in 1 .. Len(Along(f, S, a)) : \E i \in S : Along(f, S, a)[k] = f[i]
<1>1. Len(Along(f, S, a)) = Cardinality(S)
  BY AlongLen
<1>2. \A k \in 1 .. Cardinality(S) : Along(f, S, a)[k] = f[InOrder(S, a)[k]]
  BY DEF Along
<1>3. InOrder(S, a) \in [1 .. Cardinality(S) -> S]
  BY InOrderSorted DEF Sorted
<1> QED BY <1>1, <1>2, <1>3

(* w is v with x after it.                                                 *)
Appended(v, x, w) == w = Append(v, x)

(* One more slot, after all the others.                                    *)
LEMMA AlongAppend ==
  ASSUME NEW S \in SUBSET Slots, NEW a \in Slots, NEW e \in Slots, NEW f, NEW g,
         \A i \in S : Dist(a, i) < Dist(a, e) /\ g[i] = f[i]
  PROVE  Appended(Along(f, S, a), g[e], Along(g, S \cup {e}, a))
<1>0. SUFFICES Along(g, S \cup {e}, a) = Append(Along(f, S, a), g[e])
  BY DEF Appended
<1> DEFINE n == Cardinality(S)
           s == InOrder(S, a)
           E == S \cup {e}
           t == [k \in 1 .. n + 1 |-> IF k <= n THEN s[k] ELSE e]
<1>1. n \in Nat /\ IsFiniteSet(S)
  BY SlotsFinite
<1>2. e \notin S
  <2>1. Dist(a, e) \in Int
    BY DistBounds
  <2> QED BY <2>1
<1>3. Cardinality(E) = n + 1
  BY <1>1, <1>2, FS_AddElement
<1>4. /\ s \in [1 .. n -> S]
      /\ \A i \in S : \E k \in 1 .. n : s[k] = i
      /\ \A k, l \in 1 .. n : k < l => Dist(a, s[k]) < Dist(a, s[l])
  BY InOrderSorted DEF Sorted
<1> HIDE DEF n, s
<1>5. Sorted(t, E, a)
  <2>1. t \in [1 .. n + 1 -> E]
    BY <1>1, <1>4
  <2>2. \A i \in E : \E k \in 1 .. n + 1 : t[k] = i
    <3> SUFFICES ASSUME NEW i \in E PROVE \E k \in 1 .. n + 1 : t[k] = i
      OBVIOUS
    <3>1. CASE i = e
      <4>1. n + 1 \in 1 .. n + 1 /\ t[n + 1] = i
        BY <1>1, <3>1
      <4> QED BY <4>1
    <3>2. CASE i \in S
      <4>1. PICK k \in 1 .. n : s[k] = i
        BY <1>4, <3>2
      <4>2. k \in 1 .. n + 1 /\ t[k] = i
        BY <1>1, <4>1
      <4> QED BY <4>2
    <3> QED BY <3>1, <3>2
  <2>3. \A k, l \in 1 .. n + 1 : k < l => Dist(a, t[k]) < Dist(a, t[l])
    <3> SUFFICES ASSUME NEW k \in 1 .. n + 1, NEW l \in 1 .. n + 1, k < l
                 PROVE  Dist(a, t[k]) < Dist(a, t[l])
      OBVIOUS
    <3>1. k \in 1 .. n /\ t[k] = s[k]
      BY <1>1
    <3>2. CASE l = n + 1
      BY <1>1, <1>4, <3>1, <3>2
    <3>3. CASE l \in 1 .. n
      BY <1>1, <1>4, <3>1, <3>3
    <3> QED BY <1>1, <3>2, <3>3
  <2> HIDE DEF t, E
  <2> QED BY <1>3, <2>1, <2>2, <2>3 DEF Sorted
<1>6. InOrder(E, a) = t
  BY <1>5, SortedIs
<1>7. Along(g, E, a) = [k \in 1 .. n + 1 |-> g[t[k]]]
  BY <1>3, <1>6 DEF Along
<1>8. \A k \in 1 .. n + 1 : g[t[k]] = IF k <= n THEN f[s[k]] ELSE g[e]
  BY <1>1, <1>4
<1>9. Along(f, S, a) = [k \in 1 .. n |-> f[s[k]]]
  BY DEF Along, n, s
<1>10. Append(Along(f, S, a), g[e]) = [k \in 1 .. n + 1 |-> IF k <= n THEN f[s[k]] ELSE g[e]]
  BY <1>1, <1>9
<1> QED BY <1>7, <1>8, <1>10

(* The slot itself is the first.  The slots that are left follow the next. *)
LEMMA AlongTail ==
  ASSUME NEW S \in SUBSET Slots, NEW a \in S, NEW f, NEW g,
         \A i \in S \ {a} : g[i] = f[i]
  PROVE  Along(g, S \ {a}, NEXT_TX(a)) = Tail(Along(f, S, a))
<1> DEFINE n == Cardinality(S)
           s == InOrder(S, a)
           E == S \ {a}
           t == [k \in 1 .. n - 1 |-> s[k + 1]]
<1>1. n \in Nat /\ IsFiniteSet(S) /\ n # 0
  BY SlotsFinite, FS_EmptySet
<1>2. Cardinality(E) = n - 1
  BY <1>1, FS_RemoveElement
<1>3. /\ s \in [1 .. n -> S]
      /\ \A i \in S : \E k \in 1 .. n : s[k] = i
      /\ \A k, l \in 1 .. n : k < l => Dist(a, s[k]) < Dist(a, s[l])
  BY InOrderSorted DEF Sorted
<1>4. \A i \in S : Dist(a, i) \in Nat /\ (Dist(a, i) = 0 <=> i = a)
  BY DistBounds, TxAssumption
<1>5. NEXT_TX(a) \in Slots /\ \A i \in E : Dist(NEXT_TX(a), i) = Dist(a, i) - 1
  BY NextTx, DistAdvanceStart
<1> HIDE DEF n, s
<1>6. \A k \in 1 .. n : s[k] = a <=> k = 1
  <2>1. PICK m \in 1 .. n : s[m] = a
    BY <1>3
  <2>2. m = 1
    <3> SUFFICES ASSUME 1 < m PROVE FALSE
      BY <1>1
    <3>1. Dist(a, s[1]) < Dist(a, s[m]) /\ s[1] \in S
      BY <1>1, <1>3
    <3> QED BY <1>4, <2>1, <3>1
  <2>3. \A k \in 1 .. n : 1 < k => s[k] # a
    <3> SUFFICES ASSUME NEW k \in 1 .. n, 1 < k PROVE s[k] # a
      OBVIOUS
    <3>1. Dist(a, s[1]) < Dist(a, s[k]) /\ s[1] = a
      BY <1>3, <2>1, <2>2
    <3> QED BY <1>4, <3>1
  <2> QED BY <1>1, <2>1, <2>2, <2>3
<1>7. Sorted(t, E, NEXT_TX(a))
  <2>1. \A k \in 1 .. n - 1 : k + 1 \in 1 .. n /\ t[k] = s[k + 1] /\ t[k] \in E
    BY <1>1, <1>3, <1>6
  <2>2. t \in [1 .. n - 1 -> E]
    BY <2>1
  <2>3. \A i \in E : \E k \in 1 .. n - 1 : t[k] = i
    <3> SUFFICES ASSUME NEW i \in E PROVE \E k \in 1 .. n - 1 : t[k] = i
      OBVIOUS
    <3>1. PICK m \in 1 .. n : s[m] = i
      BY <1>3
    <3>2. m # 1
      BY <1>6, <3>1
    <3>3. m - 1 \in 1 .. n - 1 /\ t[m - 1] = i
      BY <1>1, <3>1, <3>2
    <3> QED BY <3>3
  <2>4. \A k, l \in 1 .. n - 1 : k < l => Dist(NEXT_TX(a), t[k]) < Dist(NEXT_TX(a), t[l])
    <3> SUFFICES ASSUME NEW k \in 1 .. n - 1, NEW l \in 1 .. n - 1, k < l
                 PROVE  Dist(NEXT_TX(a), t[k]) < Dist(NEXT_TX(a), t[l])
      OBVIOUS
    <3>1. t[k] \in E /\ t[l] \in E /\ Dist(a, t[k]) < Dist(a, t[l])
      <4>1. k + 1 \in 1 .. n /\ l + 1 \in 1 .. n /\ k + 1 < l + 1
        BY <1>1
      <4>2. Dist(a, s[k + 1]) < Dist(a, s[l + 1])
        BY <1>3, <4>1
      <4> QED BY <2>1, <4>2
    <3>2. Dist(a, t[k]) \in Nat /\ Dist(a, t[l]) \in Nat
      BY <1>4, <3>1
    <3> QED BY <1>5, <3>1, <3>2
  <2> HIDE DEF t, E
  <2> QED BY <1>2, <2>2, <2>3, <2>4 DEF Sorted
<1>8. InOrder(E, NEXT_TX(a)) = t
  BY <1>5, <1>7, SortedIs
<1>9. Along(g, E, NEXT_TX(a)) = [k \in 1 .. n - 1 |-> g[t[k]]]
  BY <1>2, <1>8 DEF Along
<1>10. \A k \in 1 .. n - 1 : g[t[k]] = f[s[k + 1]]
  BY <1>1, <1>3, <1>6
<1>11. Along(f, S, a) = [k \in 1 .. n |-> f[s[k]]]
  BY DEF Along, n, s
<1>12. Tail(Along(f, S, a)) = [k \in 1 .. n - 1 |-> f[s[k + 1]]]
  BY <1>1, <1>11
<1> QED BY <1>9, <1>10, <1>12

(* Slots that do not include it follow the next one in the same order.     *)
LEMMA AlongMove ==
  ASSUME NEW S \in SUBSET Slots, NEW a \in Slots, a \notin S, NEW f
  PROVE  Along(f, S, NEXT_TX(a)) = Along(f, S, a)
<1>1. NEXT_TX(a) \in Slots /\ \A i \in S : Dist(NEXT_TX(a), i) = Dist(a, i) - 1
  BY NextTx, DistAdvanceStart
<1>2. \A i \in S : Dist(a, i) \in Int
  BY DistBounds
<1>3. Sorted(InOrder(S, a), S, NEXT_TX(a))
  <2>1. PICK s : s = InOrder(S, a)
    OBVIOUS
  <2>2. /\ s \in [1 .. Cardinality(S) -> S]
        /\ \A i \in S : \E k \in 1 .. Cardinality(S) : s[k] = i
        /\ \A k, l \in 1 .. Cardinality(S) : k < l => Dist(a, s[k]) < Dist(a, s[l])
    BY <2>1, InOrderSorted DEF Sorted
  <2>3. ASSUME NEW k \in 1 .. Cardinality(S), NEW l \in 1 .. Cardinality(S), k < l
        PROVE  Dist(NEXT_TX(a), s[k]) < Dist(NEXT_TX(a), s[l])
    <3>1. s[k] \in S /\ s[l] \in S /\ Dist(a, s[k]) < Dist(a, s[l])
      BY <2>2, <2>3
    <3> QED BY <1>1, <1>2, <3>1
  <2> QED BY <2>1, <2>2, <2>3 DEF Sorted
<1>4. InOrder(S, NEXT_TX(a)) = InOrder(S, a)
  BY <1>1, <1>3, SortedIs
<1> QED BY <1>4 DEF Along

-----------------------------------------------------------------------------
(* The state of the service and its steps.                                 *)

(* The first fragment of a packet in flight is recorded, so that no more   *)
(* ends are in flight than packets are recorded.                           *)
FirstsRecorded ==
  \A i \in Slots : InFlight(i) /\ tx_bd[i].buffer.frag = 1 => tx_pktq[i] # None

(* What the service owns the driver holds.                                 *)
LEMMA OwnedHeld ==
  ASSUME RingInv, HeldOnce
  PROVE  /\ Service!Owned \subseteq held
         /\ TxTaken = {npkt[t] : t \in {u \in Senders : InHand(u)}}
<1>1. TxTaken = {npkt[t] : t \in {u \in Senders : InHand(u)}}
  BY DEF TxTaken, InHand
<1>2. TxTaken \subseteq held
  BY <1>1 DEF HeldOnce
<1>3. TxFirsts \in SUBSET Slots /\ tx_cidx \in Slots
  BY DEF TxFirsts, RingInv, TxTypeOK
<1>4. \A k \in 1 .. Len(TxPending) : TxPending[k] \in held
  <2>1. \A k \in 1 .. Len(TxPending) : \E i \in TxFirsts : TxPending[k] = tx_pktq[i]
    BY <1>3, AlongRange DEF TxPending
  <2>2. \A i \in TxFirsts : tx_pktq[i] \in held
    BY DEF HeldOnce, TxFirsts
  <2> QED BY <2>1, <2>2
<1> QED BY <1>1, <1>2, <1>4 DEF Service!Owned

(* Packets in hand that stay in hand.                                      *)
LEMMA TakenSame ==
  ASSUME \A u \in Senders : /\ InHand(u)' <=> InHand(u)
                            /\ InHand(u) => npkt'[u] = npkt[u]
  PROVE  TxTaken' = TxTaken
<1> DEFINE H == {u \in Senders : InHand(u)}
           K == {u \in Senders : InHand(u)'}
<1>1. H = K
  OBVIOUS
<1>2. TxTaken = {npkt[t] : t \in H} /\ TxTaken' = {npkt'[t] : t \in K}
  BY DEF TxTaken, InHand
<1> QED BY <1>1, <1>2

(* One sender takes a packet in hand, gives it out of hand, or both.       *)
LEMMA TakenMoves ==
  ASSUME NEW t \in Senders,
         \A u \in Senders \ {t} : /\ InHand(u)' <=> InHand(u)
                                  /\ npkt'[u] = npkt[u]
                                  /\ InHand(u) /\ InHand(t) => npkt[u] # npkt[t]
  PROVE  TxTaken' = (TxTaken \ (IF InHand(t) THEN {npkt[t]} ELSE {}))
                      \cup (IF InHand(t)' THEN {npkt'[t]} ELSE {})
<1> DEFINE H(u) == InHand(u)
           K(u) == InHand(u)'
<1>1. TxTaken = {npkt[u] : u \in {v \in Senders : H(v)}}
  BY DEF TxTaken, InHand
<1>2. TxTaken' = {npkt'[u] : u \in {v \in Senders : K(v)}}
  BY DEF TxTaken, InHand
<1>3. \A u \in Senders \ {t} : /\ K(u) <=> H(u)
                               /\ npkt'[u] = npkt[u]
                               /\ H(u) /\ H(t) => npkt[u] # npkt[t]
  OBVIOUS
<1>4. SUFFICES TxTaken' = (TxTaken \ (IF H(t) THEN {npkt[t]} ELSE {}))
                            \cup (IF K(t) THEN {npkt'[t]} ELSE {})
  OBVIOUS
<1> HIDE DEF H, K
<1> QED BY <1>1, <1>2, <1>3

(* A step that leaves both lists of the service alone.                     *)
LEMMA PendingSame ==
  ASSUME tx_pktq' = tx_pktq, tx_cidx' = tx_cidx
  PROVE  TxPending' = TxPending
<1>1. TxFirsts' = TxFirsts
  BY DEF TxFirsts
<1> QED BY <1>1 DEF TxPending, Along, InOrder, Turn, Dist

LEMMA WireListSame ==
  ASSUME RingInv, hw_idx' = hw_idx,
         \A i \in Slots : InFlight(i)' <=> InFlight(i),
         \A i \in Slots : InFlight(i) => /\ tx_bd'[i].last = tx_bd[i].last
                                         /\ tx_bd'[i].buffer = tx_bd[i].buffer
  PROVE  TxWire' = TxWire
<1>1. /\ TxEnds = {i \in Slots : InFlight(i) /\ tx_bd[i].last}
      /\ TxEnds' = {i \in Slots : InFlight(i)' /\ tx_bd'[i].last}
  BY DEF TxEnds, InFlight
<1>2. TxEnds' = TxEnds
  BY <1>1
<1>3. \A i \in TxEnds : tx_bd'[i].buffer = tx_bd[i].buffer
  BY <1>1
<1>4. [i \in TxEnds |-> tx_bd'[i].buffer.pkt] = [i \in TxEnds |-> tx_bd[i].buffer.pkt]
  BY <1>3
<1>5. TxWire' = Along([i \in TxEnds' |-> tx_bd'[i].buffer.pkt], TxEnds', hw_idx')
  BY DEF TxWire, Along, InOrder, Turn, Dist
<1> QED BY <1>2, <1>4, <1>5 DEF TxWire

(* What is filled is behind what is in flight.                             *)
LEMMA FillBehind ==
  ASSUME RingInv, WireInv, NEW t \in Senders, Fill(t)
  PROVE  /\ ~InFlight(idx[t])
         /\ \A i \in Slots : InFlight(i) => tx_bd'[i] = tx_bd[i]
<1>1. /\ t \in Threads /\ pc[t] = "fill" /\ idx[t] \in Slots
      /\ tx_cidx \in Slots /\ tx_pidx \in Slots
      /\ tot_iov[t] \in Nat /\ filled[t] \in Nat /\ filled[t] < tot_iov[t]
      /\ Dist(tx_pidx, idx[t]) = filled[t]
      /\ Dist(tx_cidx, tx_pidx) + tot_iov[t] < NumTx
  BY DEF RingInv, TxTypeOK, FillProgress, Threads, Fill
<1>2. Dist(tx_cidx, idx[t]) = Dist(tx_cidx, tx_pidx) + filled[t]
  BY <1>1, DistSum, DistBounds, TxAssumption
<1>3. ~InFlight(idx[t])
  BY <1>1, <1>2, DistBounds, FlightSpan DEF WireInv
<1>4. \A i \in Slots \ {idx[t]} : tx_bd'[i] = tx_bd[i]
  BY DEF RingInv, TxTypeOK, Fill, FillFree, FillBusy
<1> QED BY <1>3, <1>4

(* mx35_fec_send takes a packet.                                           *)
LEMMA SendTakes ==
  ASSUME RingInv, HeldOnce, NEW t \in Senders, NEW p \in Packets,
         NEW n \in 1 .. MaxIov, Send(t, p, n)
  PROVE  Service!Take(p)
<1>1. /\ t \in Threads /\ p \notin held /\ ~InHand(t) /\ npkt'[t] = p /\ InHand(t)'
  BY TxAssumption
     DEF RingInv, TxTypeOK, HeldOnce, Send, Goto, InHand, Threads, Npkts, ringVars
<1>2. \A u \in Senders \ {t} : npkt'[u] = npkt[u] /\ (InHand(u)' <=> InHand(u))
  BY DEF RingInv, TxTypeOK, Send, Goto, InHand, Threads
<1>3. TxTaken' = TxTaken \cup {p}
  BY <1>1, <1>2, TakenMoves
<1>4. TxWire' = TxWire /\ TxPending' = TxPending
  BY PendingSame, WireListSame DEF Send, ringVars, hwVars, InFlight, Dist
<1> QED BY <1>1, <1>3, <1>4, OwnedHeld DEF Service!Take

(* mx35_fec_defrag replaces it by its copy.                                *)
LEMMA CopySwaps ==
  ASSUME RingInv, HeldOnce, NEW t \in Senders, NEW c \in Copies, DefragCopy(t, c)
  PROVE  Service!Swap(npkt[t], c)
<1>1. /\ t \in Threads /\ c \notin held /\ InHand(t) /\ npkt'[t] = c /\ InHand(t)'
  BY TxAssumption
     DEF RingInv, TxTypeOK, HeldOnce, SenderLocals, Lockers, DefragCopy, Goto,
     InHand, Threads, Npkts, ringVars
<1>2. \A u \in Senders \ {t} : npkt'[u] = npkt[u] /\ (InHand(u)' <=> InHand(u))
  BY DEF RingInv, TxTypeOK, DefragCopy, Goto, InHand, Threads
<1>3. \A u \in Senders \ {t} : InHand(u) /\ InHand(t) => npkt[u] # npkt[t]
  BY DEF HeldOnce
<1>4. TxTaken' = (TxTaken \ {npkt[t]}) \cup {c}
  BY <1>1, <1>2, <1>3, TakenMoves
<1>5. TxWire' = TxWire /\ TxPending' = TxPending
  BY PendingSame, WireListSame DEF DefragCopy, ringVars, hwVars, InFlight, Dist
<1>6. npkt[t] \in TxTaken
  BY <1>1 DEF TxTaken, InHand
<1> QED BY <1>1, <1>4, <1>5, <1>6, OwnedHeld DEF Service!Swap

(* A packet is given back without having been queued.                      *)
LEMMA ReturnRefuses ==
  ASSUME RingInv, HeldOnce, NEW t \in Senders, DefragFail(t) \/ NoRoom(t)
  PROVE  Service!Refuse(npkt[t])
<1>1. /\ t \in Threads /\ pc[t] \in {"defrag", "check"} /\ Return(t)
      /\ UNCHANGED <<ringVars, hwVars>>
  BY DEF DefragFail, NoRoom, GiveUp, Threads
<1>2. InHand(t) /\ ~InHand(t)'
  BY <1>1, TxAssumption
     DEF RingInv, TxTypeOK, SenderLocals, Lockers, Locked, Return, Goto,
     InHand, Threads, Npkts
<1>3. \A u \in Senders \ {t} : npkt'[u] = npkt[u] /\ (InHand(u)' <=> InHand(u))
  BY <1>1 DEF RingInv, TxTypeOK, Return, Goto, InHand, Threads
<1>4. \A u \in Senders \ {t} : InHand(u) /\ InHand(t) => npkt[u] # npkt[t]
  BY DEF HeldOnce
<1>5. TxTaken' = TxTaken \ {npkt[t]}
  BY <1>2, <1>3, <1>4, TakenMoves
<1>6. TxWire' = TxWire /\ TxPending' = TxPending
  BY <1>1, PendingSame, WireListSame DEF ringVars, hwVars, InFlight, Dist
<1>7. npkt[t] \in TxTaken
  BY <1>2 DEF TxTaken, InHand
<1> QED BY <1>5, <1>6, <1>7 DEF Service!Refuse

(* Steps the service does not see.                                         *)
LEMMA StepsStutter ==
  ASSUME RingInv, HeldOnce, WireInv,
         \/ Download \/ HwStop \/ UNCHANGED txVars
         \/ \E t \in Threads : Lock(t) \/ ReapStop(t)
         \/ \E t \in Senders : Begin(t) \/ Fill(t) \/ Kick(t)
  PROVE  TxTaken' = TxTaken /\ TxWire' = TxWire /\ TxPending' = TxPending
<1>1. /\ tx_pktq' = tx_pktq /\ tx_cidx' = tx_cidx /\ tx_pidx' = tx_pidx /\ hw_idx' = hw_idx
  BY DEF Download, HwStop, Lock, ReapStop, Begin, Fill, FillFree, FillBusy, Kick,
     txVars, ringVars, hwVars
<1>2. \A i \in Slots : InFlight(i)' <=> InFlight(i)
  BY <1>1 DEF InFlight, Dist
<1>3. \A i \in Slots : InFlight(i) => /\ tx_bd'[i].last = tx_bd[i].last
                                      /\ tx_bd'[i].buffer = tx_bd[i].buffer
  <2>1. ASSUME NEW t \in Senders, Fill(t)
        PROVE  \A i \in Slots : InFlight(i) => tx_bd'[i] = tx_bd[i]
    BY <2>1, FillBehind
  <2>2. ASSUME NEW t \in Senders, Kick(t)
        PROVE  \A i \in Slots : /\ tx_bd'[i].last = tx_bd[i].last
                                /\ tx_bd'[i].buffer = tx_bd[i].buffer
    BY <2>2 DEF RingInv, TxTypeOK, Kick, SetReady, Threads
  <2>3. tx_bd' = tx_bd \/ \E t \in Senders : Fill(t) \/ Kick(t)
    BY DEF Download, HwStop, Lock, ReapStop, Begin, txVars, ringVars
  <2> QED BY <2>1, <2>2, <2>3
<1>4. \A u \in Senders : /\ InHand(u)' <=> InHand(u)
                         /\ InHand(u) => npkt'[u] = npkt[u]
  <2> SUFFICES ASSUME NEW u \in Senders
               PROVE  /\ InHand(u)' <=> InHand(u)
                      /\ InHand(u) => npkt'[u] = npkt[u]
    OBVIOUS
  <2>1. u \in Threads /\ u # Driver
    BY TxAssumption DEF Threads
  <2>2. CASE Download \/ HwStop \/ UNCHANGED txVars
    BY <2>1, <2>2 DEF RingInv, TxTypeOK, Download, HwStop, Goto, InHand, txVars,
       threadVars
  <2>3. ASSUME NEW t \in Threads, Lock(t) \/ ReapStop(t)
        PROVE  npkt' = npkt /\ (pc'[u] = pc[u] \/ {pc[u], pc'[u]} \subseteq {"lock", "reap", "check"})
    BY <2>1, <2>3 DEF RingInv, TxTypeOK, Lock, ReapStop, AfterReap, Goto
  <2>4. ASSUME NEW t \in Senders, Begin(t)
        PROVE  npkt' = npkt /\ (pc'[u] = pc[u] \/ (pc[u] = "check" /\ pc'[u] = "fill"))
    BY <2>1, <2>4 DEF RingInv, TxTypeOK, Begin, Goto
  <2>5. ASSUME NEW t \in Senders, Kick(t)
        PROVE  \/ npkt'[u] = npkt[u] /\ pc'[u] = pc[u]
               \/ pc[u] = "kick" /\ pc'[u] = "idle" /\ npkt'[u] = None
    BY <2>1, <2>5 DEF RingInv, TxTypeOK, Kick, Return, Goto
  <2>6. ASSUME NEW t \in Senders, Fill(t)
        PROVE  npkt' = npkt /\ (pc'[u] = pc[u] \/ (pc[u] = "fill" /\ pc'[u] = "queue"))
    <3>1. pc[t] = "fill" /\ FillFree(t)
      BY <2>6, NeverBusy DEF Fill, FillNeverBusy
    <3> QED BY <2>1, <3>1 DEF RingInv, TxTypeOK, FillFree, Goto
  <2> QED BY <2>2, <2>3, <2>4, <2>5, <2>6 DEF InHand
<1> QED BY <1>1, <1>2, <1>3, <1>4, TakenSame, PendingSame, WireListSame

(* A packet is queued: it is the last to leave and the last pending.       *)
LEMMA QueueAccepts ==
  ASSUME RingInv, HeldOnce, WireInv, NEW t \in Senders, Queue(t)
  PROVE  Service!Accept(npkt[t])
<1> DEFINE e == PREV_TX(idx[t])
<1>1. /\ t \in Threads /\ InHand(t) /\ ~InHand(t)' /\ npkt' = npkt /\ npkt[t] # None
      /\ tx_pidx \in Slots /\ tx_cidx \in Slots /\ hw_idx \in Slots
      /\ tx_cidx' = tx_cidx /\ hw_idx' = hw_idx
      /\ filled[t] = tot_iov[t] /\ tot_iov[t] \in Nat /\ tot_iov[t] >= 1
  BY TxAssumption
     DEF RingInv, TxTypeOK, SenderLocals, FillProgress, Lockers, Locked, Queue, Goto,
     InHand, Threads, Npkts, hwVars
<1>2. TxTaken' = TxTaken \ {npkt[t]} /\ npkt[t] \in TxTaken
  <2>1. \A u \in Senders \ {t} : npkt'[u] = npkt[u] /\ (InHand(u)' <=> InHand(u))
    BY <1>1 DEF RingInv, TxTypeOK, Queue, Goto, InHand, Threads
  <2>2. \A u \in Senders \ {t} : InHand(u) /\ InHand(t) => npkt[u] # npkt[t]
    BY DEF HeldOnce
  <2>3. TxTaken' = TxTaken \ {npkt[t]}
    BY <1>1, <2>1, <2>2, TakenMoves
  <2> QED BY <1>1, <2>3 DEF TxTaken, InHand
<1>3. TxWire' = Append(TxWire, npkt[t])
  <2>1. /\ e \in Slots /\ Dist(tx_pidx, e) = filled[t] - 1 /\ tx_bd'[e].last
        /\ \A i \in Slots : i # e => tx_bd'[i].last = tx_bd[i].last
        /\ \A i \in Slots : tx_bd'[i].buffer = tx_bd[i].buffer
        /\ \A i \in Slots : /\ InFlight(i)' <=> InFlight(i) \/ Dist(tx_pidx, i) < filled[t]
                            /\ Dist(tx_pidx, i) < filled[t] => ~InFlight(i)
                            /\ InFlight(i) => i # e
        /\ \A i \in Slots : Dist(tx_pidx, i) < filled[t] =>
             /\ tx_bd'[i].buffer
                  = [pkt |-> npkt[t], frag |-> Dist(tx_pidx, i) + 1, iovs |-> tot_iov[t]]
             /\ ~tx_bd[i].last
    BY QueueFlight
  <2> HIDE DEF e
  <2>2. Dist(tx_pidx, e) < filled[t]
    BY <1>1, <2>1
  <2>3. /\ TxEnds = {i \in Slots : InFlight(i) /\ tx_bd[i].last}
        /\ TxEnds' = {i \in Slots : InFlight(i)' /\ tx_bd'[i].last}
    BY DEF TxEnds, InFlight
  <2>4. TxEnds' = TxEnds \cup {e}
    BY <2>1, <2>2, <2>3
  <2>5. \A i \in TxEnds : Dist(hw_idx, i) < Dist(hw_idx, e)
    <3> SUFFICES ASSUME NEW i \in TxEnds PROVE Dist(hw_idx, i) < Dist(hw_idx, e)
      OBVIOUS
    <3>1. InFlight(i) /\ ~InFlight(e) /\ i \in Slots
      BY <2>1, <2>2, <2>3
    <3> QED BY <1>1, <2>1, <3>1, DistBounds DEF InFlight
  <2>6. PICK f : f = [i \in TxEnds |-> tx_bd[i].buffer.pkt]
    OBVIOUS
  <2>7. PICK g : g = [i \in TxEnds \cup {e} |-> tx_bd'[i].buffer.pkt]
    OBVIOUS
  <2>8. \A i \in TxEnds : g[i] = f[i]
    BY <2>1, <2>3, <2>6, <2>7
  <2>9. g[e] = npkt[t]
    <3>1. g[e] = tx_bd'[e].buffer.pkt
      BY <2>7
    <3>2. tx_bd'[e].buffer = [pkt |-> npkt[t], frag |-> Dist(tx_pidx, e) + 1, iovs |-> tot_iov[t]]
      BY <2>1, <2>2
    <3> QED BY <3>1, <3>2
  <2>10. TxEnds \in SUBSET Slots
    BY DEF TxEnds
  <2>11. Along(g, TxEnds \cup {e}, hw_idx) = Append(Along(f, TxEnds, hw_idx), g[e])
    <3>1. Appended(Along(f, TxEnds, hw_idx), g[e], Along(g, TxEnds \cup {e}, hw_idx))
      BY <1>1, <2>1, <2>5, <2>8, <2>10, AlongAppend
    <3> QED BY <3>1 DEF Appended
  <2>12. TxWire' = Along(g, TxEnds \cup {e}, hw_idx)
    <3>1. TxWire' = Along([i \in TxEnds' |-> tx_bd'[i].buffer.pkt], TxEnds', hw_idx')
      BY DEF TxWire, Along, InOrder, Turn, Dist
    <3> QED BY <1>1, <2>4, <2>7, <3>1
  <2>13. TxWire = Along(f, TxEnds, hw_idx)
    BY <2>6 DEF TxWire
  <2> QED BY <2>9, <2>11, <2>12, <2>13
<1>4. TxPending' = Append(TxPending, npkt[t])
  <2>1. /\ tx_pktq'[tx_pidx] = npkt[t]
        /\ \A i \in Slots \ {tx_pidx} : tx_pktq'[i] = tx_pktq[i]
    BY <1>1 DEF RingInv, TxTypeOK, Queue
  <2>2. \A i \in TxFirsts : Dist(tx_cidx, i) < Dist(tx_cidx, tx_pidx)
    BY DEF TxFirsts, RingInv, InRing
  <2>3. tx_pidx \notin TxFirsts
    BY <1>1, <2>2, DistBounds
  <2>4. TxFirsts' = TxFirsts \cup {tx_pidx}
    BY <1>1, <2>1, <2>3 DEF TxFirsts
  <2>5. TxFirsts \in SUBSET Slots
    BY DEF TxFirsts
  <2>6. \A i \in TxFirsts : tx_pktq'[i] = tx_pktq[i]
    BY <2>1, <2>3, <2>5
  <2>7. PICK f : f = tx_pktq
    OBVIOUS
  <2>8. PICK g : g = tx_pktq'
    OBVIOUS
  <2>9. Along(g, TxFirsts \cup {tx_pidx}, tx_cidx) = Append(Along(f, TxFirsts, tx_cidx), g[tx_pidx])
    <3>1. \A i \in TxFirsts : g[i] = f[i]
      BY <2>6, <2>7, <2>8
    <3>2. Appended(Along(f, TxFirsts, tx_cidx), g[tx_pidx],
                   Along(g, TxFirsts \cup {tx_pidx}, tx_cidx))
      BY <1>1, <2>2, <2>5, <3>1, AlongAppend
    <3> QED BY <3>2 DEF Appended
  <2>10. TxPending' = Along(g, TxFirsts \cup {tx_pidx}, tx_cidx)
    <3>1. TxPending' = Along(tx_pktq', TxFirsts', tx_cidx')
      BY DEF TxPending, Along, InOrder, Turn, Dist
    <3> QED BY <1>1, <2>4, <2>8, <3>1
  <2>11. TxPending = Along(f, TxFirsts, tx_cidx)
    BY <2>7 DEF TxPending
  <2> QED BY <2>1, <2>8, <2>9, <2>10, <2>11
<1> QED BY <1>2, <1>3, <1>4 DEF Service!Accept

(* The engine sends a descriptor: what is in flight begins at the next.    *)
LEMMA SendFlight ==
  ASSUME RingInv, WireInv, HwSend
  PROVE  /\ hw_idx \in Slots /\ tx_pidx \in Slots /\ InFlight(hw_idx) /\ hw_idx # tx_pidx
         /\ tx_pidx' = tx_pidx /\ hw_idx' = NEXT_TX(hw_idx)
         /\ UNCHANGED <<tx_pktq, tx_cidx, pc, npkt>>
         /\ \A i \in Slots : /\ tx_bd'[i].buffer = tx_bd[i].buffer
                             /\ tx_bd'[i].last = tx_bd[i].last
         /\ \A i \in Slots : InFlight(i)' <=> InFlight(i) /\ i # hw_idx
<1>1. /\ hw_idx \in Slots /\ tx_pidx \in Slots /\ InFlight(hw_idx) /\ hw_idx # tx_pidx
      /\ tx_pidx' = tx_pidx /\ hw_idx' = NEXT_TX(hw_idx)
      /\ UNCHANGED <<tx_pktq, tx_cidx, pc, npkt>>
      /\ \A i \in Slots : /\ tx_bd'[i].buffer = tx_bd[i].buffer
                          /\ tx_bd'[i].last = tx_bd[i].last
  <2>1. tx_bd[hw_idx].ready
    BY DEF HwSend
  <2>2. hw_idx' = NEXT_TX(hw_idx)
    BY NextTx DEF RingInv, TxTypeOK, InRing, HwSend
  <2> QED BY <2>1, <2>2, EngineInFlight DEF RingInv, TxTypeOK, HwSend, SetReady, threadVars
<1>2. \A i \in Slots : InFlight(i)' <=> InFlight(i) /\ i # hw_idx
  <2>1. \A i \in Slots : InFlight(i)' <=> Dist(NEXT_TX(hw_idx), i) < Dist(NEXT_TX(hw_idx), tx_pidx)
    BY <1>1 DEF InFlight, Dist
  <2>2. Dist(NEXT_TX(hw_idx), hw_idx) = NumTx - 1
    BY <1>1, NextTx, TxAssumption DEF Dist, Slots
  <2>3. /\ Dist(NEXT_TX(hw_idx), tx_pidx) = Dist(hw_idx, tx_pidx) - 1
        /\ \A i \in Slots \ {hw_idx} : Dist(NEXT_TX(hw_idx), i) = Dist(hw_idx, i) - 1
    BY <1>1, DistAdvanceStart
  <2> QED BY <1>1, <2>1, <2>2, <2>3, DistBounds, TxAssumption DEF InFlight
<1> QED BY <1>1, <1>2

(* The engine sends a descriptor: with L on it, the first frame has left.  *)
LEMMA EngineTransmits ==
  ASSUME RingInv, HeldOnce, WireInv, HwSend
  PROVE  IF tx_bd[hw_idx].last THEN Service!Transmit ELSE UNCHANGED Service!serviceVars
<1>1. /\ hw_idx \in Slots /\ tx_pidx \in Slots /\ InFlight(hw_idx) /\ hw_idx # tx_pidx
      /\ tx_pidx' = tx_pidx /\ hw_idx' = NEXT_TX(hw_idx)
      /\ UNCHANGED <<tx_pktq, tx_cidx, pc, npkt>>
      /\ \A i \in Slots : /\ tx_bd'[i].buffer = tx_bd[i].buffer
                          /\ tx_bd'[i].last = tx_bd[i].last
      /\ \A i \in Slots : InFlight(i)' <=> InFlight(i) /\ i # hw_idx
  BY SendFlight
<1>2. TxTaken' = TxTaken /\ TxPending' = TxPending
  BY <1>1, TakenSame, PendingSame DEF InHand
<1>4. /\ TxEnds = {i \in Slots : InFlight(i) /\ tx_bd[i].last}
      /\ TxEnds' = {i \in Slots : InFlight(i)' /\ tx_bd'[i].last}
  BY DEF TxEnds, InFlight
<1>5. TxEnds' = TxEnds \ {hw_idx} /\ TxEnds \in SUBSET Slots
      /\ (hw_idx \in TxEnds <=> tx_bd[hw_idx].last)
  BY <1>1, <1>4
<1>6. PICK f : f = [i \in TxEnds |-> tx_bd[i].buffer.pkt]
  OBVIOUS
<1>7. PICK g : g = [i \in TxEnds \ {hw_idx} |-> tx_bd'[i].buffer.pkt]
  OBVIOUS
<1>8. \A i \in TxEnds \ {hw_idx} : g[i] = f[i]
  BY <1>1, <1>5, <1>6, <1>7
<1>9. TxWire' = Along(g, TxEnds \ {hw_idx}, NEXT_TX(hw_idx))
  <2>1. TxWire' = Along([i \in TxEnds' |-> tx_bd'[i].buffer.pkt], TxEnds', hw_idx')
    BY DEF TxWire, Along, InOrder, Turn, Dist
  <2> QED BY <1>1, <1>5, <1>7, <2>1
<1>10. TxWire = Along(f, TxEnds, hw_idx)
  BY <1>6 DEF TxWire
<1>11. CASE tx_bd[hw_idx].last
  <2>1. TxWire' = Tail(TxWire)
    BY <1>5, <1>8, <1>9, <1>10, <1>11, AlongTail
  <2>2. TxWire # <<>>
    BY <1>1, <1>5, <1>10, <1>11, AlongLen
  <2> QED BY <1>2, <1>11, <2>1, <2>2 DEF Service!Transmit
<1>12. CASE ~tx_bd[hw_idx].last
  <2>1. TxEnds \ {hw_idx} = TxEnds /\ hw_idx \notin TxEnds
    BY <1>5, <1>12
  <2>2. NEXT_TX(hw_idx) \in Slots
    BY <1>1, NextTx
  <2>3. Along(g, TxEnds, NEXT_TX(hw_idx)) = Along(f, TxEnds, NEXT_TX(hw_idx))
    BY <1>5, <1>8, <2>1, <2>2, AlongSame
  <2>4. Along(f, TxEnds, NEXT_TX(hw_idx)) = Along(f, TxEnds, hw_idx)
    BY <1>1, <1>5, <2>1, AlongMove
  <2>5. TxWire' = TxWire
    BY <1>9, <1>10, <2>1, <2>3, <2>4
  <2> QED BY <1>2, <1>12, <2>5 DEF Service!serviceVars
<1> QED BY <1>11, <1>12

(* Ends in flight map to the first of the frame behind, and the very last  *)
(* to the one recorded at tx_cidx: there are not more of them than packets *)
(* recorded.                                                               *)
LEMMA EndsBounded ==
  ASSUME RingInv, WireInv, FirstsRecorded, tx_pktq[tx_cidx] # None
  PROVE  Cardinality(TxEnds) <= Cardinality(TxFirsts)
<1> DEFINE g == [i \in TxEnds |-> IF NEXT_TX(i) = tx_pidx THEN tx_cidx ELSE NEXT_TX(i)]
<1>1. /\ tx_cidx \in Slots /\ tx_pidx \in Slots
      /\ TxEnds = {i \in Slots : InFlight(i) /\ tx_bd[i].last}
      /\ TxFirsts = {i \in Slots : tx_pktq[i] # None}
  BY DEF RingInv, TxTypeOK, TxEnds, TxFirsts, InFlight
<1>2. \A i \in TxEnds : NEXT_TX(i) # tx_pidx => NEXT_TX(i) \in TxFirsts
  <2> SUFFICES ASSUME NEW i \in TxEnds, NEXT_TX(i) # tx_pidx PROVE NEXT_TX(i) \in TxFirsts
    OBVIOUS
  <2>1. i \in Slots /\ InFlight(i) /\ tx_bd[i].last
    BY <1>1
  <2>2. NEXT_TX(i) \in Slots /\ InFlight(NEXT_TX(i))
    BY <2>1, FlightNext
  <2>3. tx_bd[NEXT_TX(i)].buffer.frag = 1
    BY <2>1 DEF WireInv, FramesFollow, Follows
  <2> QED BY <1>1, <2>2, <2>3 DEF FirstsRecorded
<1>3. g \in [TxEnds -> TxFirsts]
  BY <1>1, <1>2
<1>4. \A i \in TxEnds : NEXT_TX(i) # tx_cidx
  <2> SUFFICES ASSUME NEW i \in TxEnds PROVE NEXT_TX(i) # tx_cidx
    OBVIOUS
  <2>1. i \in Slots /\ Dist(tx_cidx, i) < Dist(tx_cidx, tx_pidx)
    BY <1>1, FlightSpan DEF WireInv
  <2>2. Dist(tx_cidx, NEXT_TX(i)) = Dist(tx_cidx, i) + 1
    BY <1>1, <2>1, DistAdvanceEnd, DistBounds, TxAssumption
  <2> QED BY <1>1, <2>1, <2>2, DistBounds
<1>5. \A i, j \in TxEnds : NEXT_TX(i) = NEXT_TX(j) => i = j
  <2> SUFFICES ASSUME NEW i \in TxEnds, NEW j \in TxEnds, NEXT_TX(i) = NEXT_TX(j) PROVE i = j
    OBVIOUS
  <2>1. i \in Slots /\ j \in Slots
    BY <1>1
  <2>2. /\ NEXT_TX(i) = (IF i = NumTx - 1 THEN 0 ELSE i + 1)
        /\ NEXT_TX(j) = (IF j = NumTx - 1 THEN 0 ELSE j + 1)
    BY <2>1, NextTx
  <2>3. PICK n : n = NEXT_TX(i)
    OBVIOUS
  <2>4. n = (IF i = NumTx - 1 THEN 0 ELSE i + 1) /\ n = (IF j = NumTx - 1 THEN 0 ELSE j + 1)
    BY <2>2, <2>3
  <2> QED BY <2>1, <2>4, TxAssumption DEF Slots
<1>6. \A i, j \in TxEnds : g[i] = g[j] => i = j
  BY <1>4, <1>5
<1>7. g \in Injection(TxEnds, TxFirsts)
  BY <1>3, <1>6 DEF Injection, IsInjective
<1>8. IsFiniteSet(TxFirsts)
  BY <1>1, SlotsFinite
<1> QED BY <1>7, <1>8, FS_Injection

(* The reaper takes out a descriptor that is not in flight.                *)
LEMMA ReapedNotInFlight ==
  ASSUME RingInv, WireInv, NEW t \in Threads, ReapOne(t)
  PROVE  ~InFlight(tx_cidx)
<1> SUFFICES ASSUME InFlight(tx_cidx) PROVE FALSE
  OBVIOUS
<1>1. tx_cidx \in Slots /\ pc[t] = "reap" /\ ~tx_bd[tx_cidx].ready
  BY DEF RingInv, TxTypeOK, ReapOne, HwOwns
<1>2. PICK u \in Senders : pc[u] = "kick"
  BY <1>1 DEF WireInv, FlightReady
<1> QED BY <1>1, <1>2, OneAtWork DEF Threads, Locked

(* A descriptor is reaped: the oldest packet is given back if it is        *)
(* recorded there.                                                         *)
LEMMA ReapCompletes ==
  ASSUME RingInv, HeldOnce, WireInv, FirstsRecorded, NEW t \in Threads, ReapOne(t)
  PROVE  IF tx_pktq[tx_cidx] # None THEN Service!Complete ELSE UNCHANGED Service!serviceVars
<1>1. /\ tx_cidx \in Slots /\ tx_cidx' = NEXT_TX(tx_cidx) /\ NEXT_TX(tx_cidx) \in Slots
      /\ npkt' = npkt /\ tx_pidx' = tx_pidx /\ hw_idx' = hw_idx
      /\ tx_pktq'[tx_cidx] = None
      /\ \A i \in Slots \ {tx_cidx} : tx_pktq'[i] = tx_pktq[i] /\ tx_bd'[i] = tx_bd[i]
  BY NextTx DEF RingInv, TxTypeOK, ReapOne, hwVars
<1>2. TxTaken' = TxTaken
  <2>1. pc[t] = "reap" /\ (pc' = pc \/ pc' = [pc EXCEPT ![t] = IF t = Driver THEN "idle" ELSE "check"])
    BY DEF ReapOne, AfterReap, Goto
  <2>2. \A u \in Senders : InHand(u)' <=> InHand(u)
    BY <1>1, <2>1, TxAssumption DEF RingInv, TxTypeOK, InHand, Threads
  <2> QED BY <1>1, <2>2, TakenSame
<1>3. TxWire' = TxWire
  <2>1. \A i \in Slots : InFlight(i)' <=> InFlight(i)
    BY <1>1 DEF InFlight, Dist
  <2> QED BY <1>1, <2>1, ReapedNotInFlight, WireListSame
<1>4. TxFirsts' = TxFirsts \ {tx_cidx} /\ TxFirsts \in SUBSET Slots
      /\ (tx_cidx \in TxFirsts <=> tx_pktq[tx_cidx] # None)
  BY <1>1 DEF TxFirsts
<1>5. PICK f : f = tx_pktq
  OBVIOUS
<1>6. PICK g : g = tx_pktq'
  OBVIOUS
<1>7. \A i \in TxFirsts \ {tx_cidx} : g[i] = f[i]
  BY <1>1, <1>4, <1>5, <1>6
<1>8. TxPending' = Along(g, TxFirsts \ {tx_cidx}, NEXT_TX(tx_cidx))
  <2>1. TxPending' = Along(tx_pktq', TxFirsts', tx_cidx')
    BY DEF TxPending, Along, InOrder, Turn, Dist
  <2> QED BY <1>1, <1>4, <1>6, <2>1
<1>9. TxPending = Along(f, TxFirsts, tx_cidx)
  BY <1>5 DEF TxPending
<1>10. CASE tx_pktq[tx_cidx] # None
  <2>1. TxPending' = Tail(TxPending)
    BY <1>4, <1>7, <1>8, <1>9, <1>10, AlongTail
  <2>2. TxPending # <<>> /\ Len(TxPending) = Cardinality(TxFirsts)
    BY <1>1, <1>4, <1>9, <1>10, AlongLen
  <2>3. Len(TxWire) = Cardinality(TxEnds)
    BY AlongLen DEF TxWire, TxEnds, RingInv, TxTypeOK
  <2>4. Cardinality(TxEnds) <= Cardinality(TxFirsts)
    BY <1>10, EndsBounded
  <2> QED BY <1>2, <1>3, <1>10, <2>1, <2>2, <2>3, <2>4 DEF Service!Complete
<1>11. CASE tx_pktq[tx_cidx] = None
  <2>1. TxFirsts \ {tx_cidx} = TxFirsts /\ tx_cidx \notin TxFirsts
    BY <1>4, <1>11
  <2>2. Along(g, TxFirsts, NEXT_TX(tx_cidx)) = Along(f, TxFirsts, NEXT_TX(tx_cidx))
    BY <1>1, <1>4, <1>7, <2>1, AlongSame
  <2>3. Along(f, TxFirsts, NEXT_TX(tx_cidx)) = Along(f, TxFirsts, tx_cidx)
    BY <1>1, <1>4, <2>1, AlongMove
  <2>4. TxPending' = TxPending
    BY <1>8, <1>9, <2>1, <2>2, <2>3
  <2> QED BY <1>2, <1>3, <1>11, <2>4 DEF Service!serviceVars
<1> QED BY <1>10, <1>11

(* A packet is recorded before its descriptors are in flight, and stays so *)
(* until its first one is reaped, which is in flight no more.              *)
LEMMA FirstsStep ==
  ASSUME RingInv, WireInv, FirstsRecorded, [TxNext]_txVars
  PROVE  FirstsRecorded'
<1> DEFINE First(i)  == InFlight(i) /\ tx_bd[i].buffer.frag = 1
           First2(i) == InFlight(i)' /\ tx_bd'[i].buffer.frag = 1
<1> SUFFICES ASSUME NEW i \in Slots, First2(i) PROVE tx_pktq'[i] # None
  BY DEF FirstsRecorded
<1>1. First(i) => tx_pktq[i] # None
  BY DEF FirstsRecorded
<1>2. ASSUME NEW t \in Senders, Fill(t) PROVE tx_pktq'[i] # None
  <2>1. tx_pktq' = tx_pktq /\ (InFlight(i)' <=> InFlight(i))
    BY <1>2 DEF Fill, hwVars, InFlight, Dist
  <2> QED BY <1>1, <1>2, <2>1, FillBehind
<1>3. ASSUME NEW t \in Senders, Queue(t) PROVE tx_pktq'[i] # None
  <2>1. /\ tx_pidx \in Slots /\ npkt[t] # None
        /\ tx_pktq'[tx_pidx] = npkt[t]
        /\ \A j \in Slots \ {tx_pidx} : tx_pktq'[j] = tx_pktq[j]
    BY <1>3, TxAssumption
       DEF RingInv, TxTypeOK, SenderLocals, Lockers, Locked, Queue, Npkts
  <2>2. /\ InFlight(i)' <=> InFlight(i) \/ Dist(tx_pidx, i) < filled[t]
        /\ tx_bd'[i].buffer = tx_bd[i].buffer
        /\ Dist(tx_pidx, i) < filled[t] =>
             tx_bd'[i].buffer
               = [pkt |-> npkt[t], frag |-> Dist(tx_pidx, i) + 1, iovs |-> tot_iov[t]]
    BY <1>3, QueueFlight
  <2>3. CASE InFlight(i)
    BY <1>1, <2>1, <2>2, <2>3
  <2>4. CASE Dist(tx_pidx, i) < filled[t]
    <3>1. tx_bd'[i].buffer.frag = Dist(tx_pidx, i) + 1
      BY <2>2, <2>4
    <3>2. Dist(tx_pidx, i) = 0
      BY <2>1, <3>1, DistBounds
    <3>3. i = tx_pidx
      BY <2>1, <3>2, DistBounds
    <3> QED BY <2>1, <3>3
  <2> QED BY <2>2, <2>3, <2>4
<1>4. ASSUME NEW t \in Threads, ReapOne(t) PROVE tx_pktq'[i] # None
  <2>1. /\ InFlight(i)' <=> InFlight(i)
        /\ \A j \in Slots \ {tx_cidx} : tx_pktq'[j] = tx_pktq[j] /\ tx_bd'[j] = tx_bd[j]
    BY <1>4 DEF RingInv, TxTypeOK, ReapOne, hwVars, InFlight, Dist
  <2> QED BY <1>1, <1>4, <2>1, ReapedNotInFlight
<1>5. CASE HwSend
  <2>1. tx_pktq' = tx_pktq /\ (InFlight(i)' => InFlight(i))
    BY <1>5, SendFlight DEF HwSend
  <2>2. tx_bd'[i].buffer = tx_bd[i].buffer
    BY <1>5, SendFlight
  <2> QED BY <1>1, <2>1, <2>2
<1>6. ASSUME NEW t \in Senders, Kick(t) PROVE tx_pktq'[i] # None
  <2>1. /\ tx_pktq' = tx_pktq /\ (InFlight(i)' <=> InFlight(i))
        /\ tx_bd'[i].buffer = tx_bd[i].buffer
    BY <1>6 DEF RingInv, TxTypeOK, Kick, SetReady, Threads, InFlight, Dist
  <2> QED BY <1>1, <2>1
<1>7. CASE \/ UNCHANGED txVars \/ Download \/ HwStop
           \/ \E t \in Threads : Lock(t) \/ ReapStop(t)
           \/ \E t \in Senders : DefragFail(t) \/ NoRoom(t) \/ Begin(t)
           \/ \E t \in Senders, c \in Copies : DefragCopy(t, c)
           \/ \E t \in Senders, p \in Packets, n \in 1 .. MaxIov : Send(t, p, n)
  <2>1. UNCHANGED <<ringVars, hw_idx>>
    BY <1>7 DEF txVars, Download, HwStop, Lock, ReapStop, DefragFail, NoRoom, Begin,
       DefragCopy, Send, hwVars
  <2> QED BY <1>1, <2>1 DEF ringVars, InFlight, Dist
<1> QED
  BY <1>2, <1>3, <1>4, <1>5, <1>6, <1>7 DEF TxNext, SenderStep, ReapStep, Hw

(* FirstsRecorded holds in every reachable state.                          *)
LEMMA FirstsAlways == TxSpec => []FirstsRecorded
<1>1. TxInit => FirstsRecorded
  <2> SUFFICES ASSUME TxInit PROVE \A i \in Slots : ~InFlight(i)
    BY DEF FirstsRecorded
  <2>1. 0 \in Slots
    BY TxAssumption DEF Slots
  <2> QED BY <2>1, DistBounds DEF TxInit, InFlight
<1>2. RingInv /\ WireInv /\ FirstsRecorded /\ [TxNext]_txVars => FirstsRecorded'
  BY FirstsStep
<1> QED
  BY <1>1, <1>2, RingInvariant, WireAlways, PTL DEF TxSpec

(* Every step is a step of the service or none.                            *)
LEMMA ServiceStep ==
  ASSUME RingInv, HeldOnce, WireInv, FirstsRecorded, [TxNext]_txVars
  PROVE  [Service!Next]_(Service!serviceVars)
<1>1. ASSUME NEW t \in Senders, NEW p \in Packets, NEW n \in 1 .. MaxIov, Send(t, p, n)
      PROVE  Service!Next
  BY <1>1, SendTakes DEF Service!Next, Npkts
<1>2. ASSUME NEW t \in Senders, NEW c \in Copies, DefragCopy(t, c)
      PROVE  Service!Next
  <2>1. npkt[t] \in Npkts /\ c \in Npkts
    BY <1>2 DEF RingInv, SenderLocals, Lockers, DefragCopy, Npkts
  <2> QED BY <1>2, <2>1, CopySwaps DEF Service!Next
<1>3. ASSUME NEW t \in Senders, DefragFail(t) \/ NoRoom(t)
      PROVE  Service!Next
  <2>1. npkt[t] \in Npkts
    BY <1>3 DEF RingInv, SenderLocals, Lockers, Locked, DefragFail, NoRoom
  <2> QED BY <1>3, <2>1, ReturnRefuses DEF Service!Next
<1>4. ASSUME NEW t \in Senders, Queue(t)
      PROVE  Service!Next
  <2>1. npkt[t] \in Npkts
    BY <1>4 DEF RingInv, SenderLocals, Lockers, Locked, Queue
  <2> QED BY <1>4, <2>1, QueueAccepts DEF Service!Next
<1>5. ASSUME NEW t \in Threads, ReapOne(t)
      PROVE  [Service!Next]_(Service!serviceVars)
  BY <1>5, ReapCompletes DEF Service!Next
<1>6. CASE HwSend
  BY <1>6, EngineTransmits DEF Service!Next
<1>7. CASE \/ Download \/ HwStop \/ UNCHANGED txVars
           \/ \E t \in Threads : Lock(t) \/ ReapStop(t)
           \/ \E t \in Senders : Begin(t) \/ Fill(t) \/ Kick(t)
  BY <1>7, StepsStutter DEF Service!serviceVars
<1> QED
  BY <1>1, <1>2, <1>3, <1>4, <1>5, <1>6, <1>7 DEF TxNext, SenderStep, ReapStep, Hw

(* The ring, its locks and the DMA engine together do what TxService       *)
(* promises: packets leave and are completed in the order they were        *)
(* accepted, once each, and completion runs at most one packet ahead of    *)
(* the wire (mx35_fec_send, mx35_fec_reap_pkts).                           *)
THEOREM ServiceImplemented == TxSpec => ImplementsService
<1>1. TxInit => Service!Init
  <2> SUFFICES ASSUME TxInit PROVE Service!Init
    OBVIOUS
  <2>1. 0 \in Slots /\ hw_idx = 0 /\ tx_cidx = 0
    BY TxAssumption DEF Slots, TxInit
  <2>2. TxTaken = {}
    BY DEF TxInit, TxTaken, Threads
  <2>3. TxEnds = {} /\ TxFirsts = {}
    BY DEF TxInit, TxEnds, TxFirsts
  <2>4. TxWire = <<>>
    BY <2>1, <2>3, AlongLen DEF TxWire
  <2>5. TxPending = <<>>
    BY <2>1, <2>3, AlongLen DEF TxPending
  <2> QED BY <2>2, <2>4, <2>5 DEF Service!Init
<1>2. RingInv /\ HeldOnce /\ WireInv /\ FirstsRecorded /\ [TxNext]_txVars
        => [Service!Next]_(Service!serviceVars)
  BY ServiceStep
<1> QED
  BY <1>1, <1>2, RingInvariant, HeldOnceAlways, WireAlways, FirstsAlways, PTL
  DEF TxSpec, ImplementsService, Service!Spec
=============================================================================
