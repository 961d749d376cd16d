------------------------------- MODULE FecTx -------------------------------
(***************************************************************************)
(* The transmit side of the i.MX35 FEC Ethernet driver, devn-mx35          *)
(* (transmit.c): the ring of transmit descriptors, the queue of packets    *)
(* beside it, the io-net threads that send, the driver thread that reaps   *)
(* and the DMA engine of the controller, which walks the same ring.        *)
(*                                                                         *)
(* A packet is an npkt of io-net with tot_iov fragments.  Its bytes, the   *)
(* statistics and the checksum bit TC are left out.  A step of a thread is *)
(* the work it does between two points at which the DMA engine or another  *)
(* thread can observe it: one descriptor at a time.                        *)
(***************************************************************************)
EXTENDS Integers, FiniteSets, Sequences

CONSTANTS
  NumTx,         \* ext->num_tx_descriptors
  DEFRAG_LIMIT,  \* more fragments than this are copied into one
  MaxIov,        \* most fragments io-net hands down in one packet
  Senders,       \* io-net threads that call mx35_fec_send
  Driver,        \* the driver thread, mx35_fec_driver_thread
  Packets,       \* packets of io-net
  Copies,        \* packets mx35_fec_defrag can allocate
  None

(* detect.c:266-272 keeps the ring between 16 and 2048 descriptors and     *)
(* DEFRAG_LIMIT is 8, so the ring is at least twice DEFRAG_LIMIT.          *)
ASSUME TxAssumption ==
  /\ NumTx \in Nat /\ DEFRAG_LIMIT \in Nat /\ MaxIov \in Nat
  /\ DEFRAG_LIMIT >= 1
  /\ NumTx >= 2 * DEFRAG_LIMIT
  /\ Driver \notin Senders
  /\ Packets \cap Copies = {}
  /\ None \notin Senders \cup {Driver} \cup Packets \cup Copies
  /\ None \notin [pkt : Packets \cup Copies, frag : 1 .. MaxIov, iovs : 1 .. MaxIov]

Threads == Senders \cup {Driver}
Npkts   == Packets \cup Copies
Slots   == 0 .. NumTx - 1

VARIABLES
  tx_bd,           \* the descriptor ring: R, L, W bits and the buffer
  tx_pktq,         \* npkt whose first fragment is in a slot, or None
  tx_pidx, tx_cidx, tx_q_len, tx_pkts_queued,
  tx_mutex,        \* the thread that holds ext->tx_mutex, or None
  pc, npkt, tot_iov, idx, filled, reaped,   \* per thread: place and locals
  held,            \* packets the driver was given and has not completed
  hw_idx,          \* descriptor the DMA engine looks at next
  hw_active,       \* X_DES_ACTIVE: the engine is polling the ring
  frame            \* last fragment of an unfinished frame on the wire

ringVars   == <<tx_bd, tx_pktq, tx_pidx, tx_cidx, tx_q_len, tx_pkts_queued>>
threadVars == <<pc, npkt, tot_iov, idx, filled, reaped>>
hwVars     == <<hw_idx, hw_active, frame>>
txVars     == <<ringVars, tx_mutex, threadVars, held, hwVars>>

(* A buffer: fragment number frag of the iovs fragments of packet pkt. *)
Buffers == [pkt : Npkts, frag : 1 .. MaxIov, iovs : 1 .. MaxIov]
Descriptors == [ready : BOOLEAN, last : BOOLEAN, wrap : BOOLEAN,
                buffer : Buffers \cup {None}]

(* Writes to one field of a descriptor. *)
SetReady(bd, r)  == [ready |-> r, last |-> bd.last, wrap |-> bd.wrap, buffer |-> bd.buffer]
SetLast(bd)      == [ready |-> bd.ready, last |-> TRUE, wrap |-> bd.wrap, buffer |-> bd.buffer]
SetBuffer(bd, b) == [ready |-> bd.ready, last |-> bd.last, wrap |-> bd.wrap, buffer |-> b]

NEXT_TX(x) == (x + 1) % NumTx

(* TXBD_R: the descriptor belongs to the DMA engine. *)
HwOwns(i) == tx_bd[i].ready

(***************************************************************************)
(* mx35_fec_init_list: empty ring, the wrap bit on the last descriptor.    *)
(***************************************************************************)
TxInit ==
  /\ tx_bd = [i \in Slots |->
       [ready |-> FALSE, last |-> FALSE, wrap |-> i = NumTx - 1, buffer |-> None]]
  /\ tx_pktq = [i \in Slots |-> None]
  /\ tx_pidx = 0 /\ tx_cidx = 0 /\ tx_q_len = 0 /\ tx_pkts_queued = 0
  /\ tx_mutex = None
  /\ pc = [t \in Threads |-> "idle"]
  /\ npkt = [t \in Threads |-> None]
  /\ tot_iov = [t \in Threads |-> 0]
  /\ idx = [t \in Threads |-> 0]
  /\ filled = [t \in Threads |-> 0]
  /\ reaped = [t \in Threads |-> 0]
  /\ held = {}
  /\ hw_idx = 0 /\ hw_active = FALSE /\ frame = None

Goto(t, place) == pc' = [pc EXCEPT ![t] = place]

(* The call ends: the thread's locals are gone. *)
Return(t) ==
  /\ Goto(t, "idle")
  /\ npkt' = [npkt EXCEPT ![t] = None]
  /\ tot_iov' = [tot_iov EXCEPT ![t] = 0]
  /\ idx' = [idx EXCEPT ![t] = 0]
  /\ filled' = [filled EXCEPT ![t] = 0]

(* The packet goes back to where it came from: ion_tx_complete for one of  *)
(* io-net, ion_free for a copy.                                            *)
Release(p) == held' = held \ {p}

(***************************************************************************)
(* mx35_fec_send, up to the lock.                                          *)
(***************************************************************************)
Send(t, p, n) ==
  /\ pc[t] = "idle" /\ p \notin held
  /\ held' = held \cup {p}
  /\ npkt' = [npkt EXCEPT ![t] = p]
  /\ tot_iov' = [tot_iov EXCEPT ![t] = n]
  /\ Goto(t, IF n > DEFRAG_LIMIT THEN "defrag" ELSE "lock")
  /\ UNCHANGED <<ringVars, tx_mutex, idx, filled, reaped, hwVars>>

(* mx35_fec_defrag gives the original back whether or not a copy was made. *)
DefragCopy(t, c) ==
  /\ pc[t] = "defrag" /\ c \notin held
  /\ held' = (held \ {npkt[t]}) \cup {c}
  /\ npkt' = [npkt EXCEPT ![t] = c]
  /\ tot_iov' = [tot_iov EXCEPT ![t] = 1]
  /\ Goto(t, "lock")
  /\ UNCHANGED <<ringVars, tx_mutex, idx, filled, reaped, hwVars>>

DefragFail(t) ==
  /\ pc[t] = "defrag"
  /\ Release(npkt[t])
  /\ Return(t)
  /\ UNCHANGED <<ringVars, tx_mutex, reaped, hwVars>>

(* mx35_fec_download_complete, called by the driver thread. *)
Download ==
  /\ pc[Driver] = "idle"
  /\ Goto(Driver, "lock")
  /\ UNCHANGED <<ringVars, tx_mutex, npkt, tot_iov, idx, filled, reaped, held, hwVars>>

Lock(t) ==
  /\ pc[t] = "lock" /\ tx_mutex = None
  /\ tx_mutex' = t
  /\ Goto(t, IF t = Driver \/ tx_q_len >= DEFRAG_LIMIT THEN "reap" ELSE "check")
  /\ UNCHANGED <<ringVars, npkt, tot_iov, idx, filled, reaped, held, hwVars>>

(***************************************************************************)
(* mx35_fec_reap_pkts, one descriptor a step.  The driver thread reaps     *)
(* without a limit (max_reap = 0) and then unlocks; a sender goes on.      *)
(***************************************************************************)
NothingQueued(t) == reaped[t] = 0 /\ tx_pkts_queued = 0 /\ tx_pidx = tx_cidx

AfterReap(t) ==
  /\ reaped' = [reaped EXCEPT ![t] = 0]
  /\ Goto(t, IF t = Driver THEN "idle" ELSE "check")
  /\ tx_mutex' = IF t = Driver THEN None ELSE t

ReapStop(t) ==
  /\ pc[t] = "reap"
  /\ NothingQueued(t) \/ HwOwns(tx_cidx)
  /\ AfterReap(t)
  /\ UNCHANGED <<ringVars, npkt, tot_iov, idx, filled, held, hwVars>>

(* Mutant: the wrap bit of the last descriptor is lost. *)
ReapedNoWrap(i) == [ready |-> FALSE, last |-> FALSE, wrap |-> FALSE, buffer |-> None]

(* bd->status = (idx == last) ? TXBD_W : 0; the stale buffer address left  *)
(* behind is not modelled, the next Fill overwrites it.                    *)
Reaped(i) ==
  [ready |-> FALSE, last |-> FALSE, wrap |-> i = NumTx - 1, buffer |-> None]

ReapOne(t) ==
  /\ pc[t] = "reap"
  /\ ~NothingQueued(t) /\ ~HwOwns(tx_cidx)
  /\ tx_bd' = [tx_bd EXCEPT ![tx_cidx] = Reaped(tx_cidx)]
  /\ IF tx_pktq[tx_cidx] # None
       THEN /\ Release(tx_pktq[tx_cidx])
            /\ tx_pkts_queued' = tx_pkts_queued - 1
       ELSE UNCHANGED <<held, tx_pkts_queued>>
  /\ tx_pktq' = [tx_pktq EXCEPT ![tx_cidx] = None]
  /\ tx_q_len' = tx_q_len - 1
  /\ tx_cidx' = NEXT_TX(tx_cidx)
  /\ IF \/ t # Driver /\ reaped[t] + 1 = DEFRAG_LIMIT
        \/ tx_cidx' = tx_pidx
       THEN AfterReap(t)
       ELSE /\ reaped' = [reaped EXCEPT ![t] = @ + 1]
            /\ UNCHANGED <<pc, tx_mutex>>
  /\ UNCHANGED <<tx_pidx, npkt, tot_iov, idx, filled, hwVars>>

(***************************************************************************)
(* mx35_fec_send under the lock.                                           *)
(***************************************************************************)
Room(t) == tot_iov[t] + 1 <= NumTx - tx_q_len

(* Mutant: the return on ENOBUFS forgets the packet. *)
GiveUpForgets(t) ==
  /\ UNCHANGED held
  /\ tx_mutex' = None
  /\ Return(t)

(* The packet is given back, _NPKT_NOT_TXED, and the lock released. *)
GiveUp(t) ==
  /\ Release(npkt[t])
  /\ tx_mutex' = None
  /\ Return(t)

NoRoom(t) ==
  /\ pc[t] = "check" /\ ~Room(t)
  /\ GiveUp(t)
  /\ UNCHANGED <<ringVars, reaped, hwVars>>

Begin(t) ==
  /\ pc[t] = "check" /\ Room(t)
  /\ idx' = [idx EXCEPT ![t] = tx_pidx]
  /\ Goto(t, "fill")
  /\ UNCHANGED <<ringVars, tx_mutex, npkt, tot_iov, filled, reaped, held, hwVars>>

(* Mutant: the first fragment is handed over before the others. *)
ReadyInOrder(t) == filled[t] >= 0

(* if (!tx_bd_start) tx_bd_start = tx_bd; else tx_bd->status |= status; *)
ReadyAtOnce(t) == filled[t] > 0

(* The next fragment's buffer goes into the descriptor before TXBD_R is    *)
(* looked at; the first fragment stays not ready until Kick.               *)
NextBuffer(t) == [pkt |-> npkt[t], frag |-> filled[t] + 1, iovs |-> tot_iov[t]]

FillFree(t) ==
  /\ tx_bd' = [tx_bd EXCEPT ![idx[t]] = SetBuffer(SetReady(@, ReadyAtOnce(t)), NextBuffer(t))]
  /\ idx' = [idx EXCEPT ![t] = NEXT_TX(@)]
  /\ tx_q_len' = tx_q_len + 1
  /\ filled' = [filled EXCEPT ![t] = @ + 1]
  /\ IF filled'[t] = tot_iov[t] THEN Goto(t, "queue") ELSE UNCHANGED pc
  /\ UNCHANGED <<tx_mutex, npkt, tot_iov, held>>

(* The descriptor still belongs to the engine: the packet is given back    *)
(* with what was filled so far left in the ring.                           *)
FillBusy(t) ==
  /\ tx_bd' = [tx_bd EXCEPT ![idx[t]] = SetBuffer(@, NextBuffer(t))]
  /\ GiveUp(t)
  /\ UNCHANGED tx_q_len

Fill(t) ==
  /\ pc[t] = "fill"
  /\ IF tx_bd[idx[t]].ready THEN FillBusy(t) ELSE FillFree(t)
  /\ UNCHANGED <<tx_pktq, tx_pidx, tx_cidx, tx_pkts_queued, reaped, hwVars>>

PREV_TX(x) == IF x = 0 THEN NumTx - 1 ELSE x - 1

(* Mutant: the packet is recorded after tx_pidx has moved on. *)
QueueLate(t) ==
  /\ pc[t] = "queue"
  /\ tx_pktq' = [tx_pktq EXCEPT ![idx[t]] = npkt[t]]
  /\ tx_pkts_queued' = tx_pkts_queued + 1
  /\ tx_pidx' = idx[t]
  /\ idx' = [idx EXCEPT ![t] = tx_pidx]
  /\ tx_bd' = [tx_bd EXCEPT ![PREV_TX(idx[t])] = SetLast(@)]
  /\ Goto(t, "kick")
  /\ UNCHANGED <<tx_cidx, tx_q_len, tx_mutex, npkt, tot_iov, filled, reaped, held, hwVars>>

(* The last descriptor filled gets L; idx[t] goes back to tx_bd_start, the *)
(* descriptor at the old tx_pidx, which Kick makes ready.                  *)
Queue(t) ==
  /\ pc[t] = "queue"
  /\ tx_pktq' = [tx_pktq EXCEPT ![tx_pidx] = npkt[t]]
  /\ tx_pkts_queued' = tx_pkts_queued + 1
  /\ tx_pidx' = idx[t]
  /\ idx' = [idx EXCEPT ![t] = tx_pidx]
  /\ tx_bd' = [tx_bd EXCEPT ![PREV_TX(idx[t])] = SetLast(@)]
  /\ Goto(t, "kick")
  /\ UNCHANGED <<tx_cidx, tx_q_len, tx_mutex, npkt, tot_iov, filled, reaped, held, hwVars>>

Kick(t) ==
  /\ pc[t] = "kick"
  /\ tx_bd' = [tx_bd EXCEPT ![idx[t]] = SetReady(@, TRUE)]
  /\ hw_active' = TRUE
  /\ tx_mutex' = None
  /\ Return(t)
  /\ UNCHANGED <<tx_pktq, tx_pidx, tx_cidx, tx_q_len, tx_pkts_queued, reaped,
                 held, hw_idx, frame>>

(***************************************************************************)
(* The DMA engine (external): it sends the buffer of a ready descriptor,   *)
(* clears R and goes on, back to the first one after the wrap bit; at a    *)
(* descriptor that is not ready it stops until X_DES_ACTIVE is written.    *)
(***************************************************************************)
HwSend ==
  /\ hw_active /\ hw_idx \in Slots /\ tx_bd[hw_idx].ready
  /\ frame' = IF tx_bd[hw_idx].last THEN None ELSE tx_bd[hw_idx].buffer
  /\ tx_bd' = [tx_bd EXCEPT ![hw_idx] = SetReady(@, FALSE)]
  /\ hw_idx' = IF tx_bd[hw_idx].wrap THEN 0 ELSE hw_idx + 1
  /\ UNCHANGED <<tx_pktq, tx_pidx, tx_cidx, tx_q_len, tx_pkts_queued, tx_mutex,
                 threadVars, held, hw_active>>

HwStop ==
  /\ hw_active /\ hw_idx \in Slots /\ ~tx_bd[hw_idx].ready
  /\ hw_active' = FALSE
  /\ UNCHANGED <<ringVars, tx_mutex, threadVars, held, hw_idx, frame>>

Hw == HwSend \/ HwStop

SenderStep(t) ==
  \/ DefragFail(t) \/ \E c \in Copies : DefragCopy(t, c)
  \/ NoRoom(t) \/ Begin(t) \/ Fill(t) \/ Queue(t) \/ Kick(t)

ReapStep(t) == ReapStop(t) \/ ReapOne(t)

TxNext ==
  \/ \E t \in Senders :
       \/ \E p \in Packets, n \in 1 .. MaxIov : Send(t, p, n)
       \/ SenderStep(t)
  \/ Download
  \/ \E t \in Threads : Lock(t) \/ ReapStep(t)
  \/ Hw

TxSpec == TxInit /\ [][TxNext]_txVars

-----------------------------------------------------------------------------
(* Places of a thread that holds the lock. *)
Locked == {"reap", "check", "fill", "queue", "kick"}

(* Every variable has its type. *)
TxTypeOK ==
  /\ tx_bd \in [Slots -> Descriptors]
  /\ tx_pktq \in [Slots -> Npkts \cup {None}]
  /\ tx_pidx \in Slots /\ tx_cidx \in Slots
  /\ tx_q_len \in 0 .. NumTx - 1
  /\ tx_pkts_queued \in Nat
  /\ tx_mutex \in Threads \cup {None}
  /\ pc \in [Threads -> {"idle", "defrag", "lock"} \cup Locked]
  /\ npkt \in [Threads -> Npkts \cup {None}]
  /\ tot_iov \in [Threads -> 0 .. MaxIov]
  /\ idx \in [Threads -> Slots]
  /\ filled \in [Threads -> 0 .. MaxIov]
  /\ reaped \in [Threads -> 0 .. NumTx]
  /\ held \subseteq Npkts
  /\ hw_idx \in Slots
  /\ hw_active \in BOOLEAN
  /\ frame \in Buffers \cup {None}

(* Distance around the ring from slot a to slot b. *)
Dist(a, b) == IF b >= a THEN b - a ELSE b - a + NumTx

Filling == {t \in Senders : pc[t] \in {"fill", "queue"}}

(* tx_q_len is exactly the distance from tx_cidx to the end of what has    *)
(* been filled, so the ring never fills up to where tx_pidx = tx_cidx      *)
(* could mean full as well as empty (the +1 of the test in mx35_fec_send). *)
RingLength ==
  IF Filling = {} THEN tx_q_len = Dist(tx_cidx, tx_pidx)
                  ELSE \A t \in Filling : tx_q_len = Dist(tx_cidx, idx[t])

(* mx35_fec_send never meets a descriptor the DMA engine still owns: the   *)
(* error path in the middle of its loop, which would leave descriptors     *)
(* ready and counted that belong to no packet, cannot be taken.            *)
FillNeverBusy ==
  \A t \in Senders : pc[t] = "fill" => ~tx_bd[idx[t]].ready

(***************************************************************************)
(* The inductive invariant behind RingLength and FillNeverBusy.            *)
(***************************************************************************)
Lockers == Locked \cup {"lock", "defrag"}

MutexHeld ==
  /\ \A t \in Threads : pc[t] \in Locked <=> tx_mutex = t
  /\ pc[Driver] \in {"idle", "lock", "reap"}

(* The locals of a sender between the call and the return. *)
SenderLocals(t) ==
  /\ pc[t] \in Lockers => npkt[t] \in Npkts /\ tot_iov[t] \in 1 .. MaxIov
  /\ pc[t] \in Lockers \ {"defrag"} => tot_iov[t] <= DEFRAG_LIMIT
  /\ pc[t] \notin {"fill", "queue", "kick"} => filled[t] = 0

ReapLocals(t) ==
  /\ pc[t] # "reap" => reaped[t] = 0
  /\ pc[t] = "reap" => reaped[t] + tx_q_len < NumTx
  /\ pc[t] = "reap" /\ reaped[t] > 0 => tx_cidx # tx_pidx

(* What a sender has filled so far lies between tx_pidx and its idx, and   *)
(* the room it found is still there for the rest.                          *)
FillProgress(t) ==
  /\ pc[t] = "fill" => filled[t] < tot_iov[t]
  /\ pc[t] = "queue" => filled[t] = tot_iov[t]
  /\ pc[t] \in {"fill", "queue"} =>
       /\ Dist(tx_pidx, idx[t]) = filled[t]
       /\ tx_q_len = Dist(tx_cidx, tx_pidx) + filled[t]
       /\ Dist(tx_cidx, tx_pidx) + tot_iov[t] < NumTx
  /\ pc[t] = "kick" => Dist(tx_cidx, idx[t]) < tx_q_len

(* Ready descriptors and recorded packets lie in the ring, the wrap bit is *)
(* on the last descriptor, and tx_pkts_queued counts the packets.          *)
InRing ==
  /\ Filling = {} => tx_q_len = Dist(tx_cidx, tx_pidx)
  /\ \A i \in Slots :
       /\ tx_bd[i].ready => Dist(tx_cidx, i) < tx_q_len
       /\ tx_pktq[i] # None => Dist(tx_cidx, i) < Dist(tx_cidx, tx_pidx)
       /\ tx_bd[i].wrap <=> i = NumTx - 1
  /\ tx_pkts_queued = Cardinality({i \in Slots : tx_pktq[i] # None})

(* Named apart from the properties it implies: the state of the ring as    *)
(* mx35_fec_send and mx35_fec_reap_pkts leave it after every step.         *)
RingInv ==
  /\ TxTypeOK /\ MutexHeld /\ InRing
  /\ \A t \in Senders : SenderLocals(t) /\ FillProgress(t)
  /\ \A t \in Threads : ReapLocals(t)

(* Where the driver has packet p: in the hands of senders and in slots.    *)
Places(p) == {t \in Senders : npkt[t] = p /\ pc[t] # "kick"}
               \cup {i \in Slots : tx_pktq[i] = p}

(* A packet the driver holds is in one place, in the hands of one sender   *)
(* or in one slot of tx_pktq, and no packet the driver does not hold is in *)
(* any: every packet is completed once and never again.                    *)
CompletedOnce ==
  \A p \in Npkts : Cardinality(Places(p)) = (IF p \in held THEN 1 ELSE 0)

(* The fragment in bd follows the last one on the wire.                    *)
Continues(bd) ==
  /\ IF frame = None THEN bd.buffer.frag = 1
                     ELSE bd.buffer = [frame EXCEPT !.frag = @ + 1]
  /\ bd.last = (bd.buffer.frag = bd.buffer.iovs)

(* What the engine puts on the wire next continues the frame it has begun: *)
(* a frame is all the fragments of one packet, in order, and L is on the   *)
(* last of them and nowhere else.  And it gets there: the engine is        *)
(* between tx_cidx and tx_pidx, so that the reaper never overtakes it;     *)
(* once no sender is at work every descriptor from it to tx_pidx is ready, *)
(* so that it never stops short of a queued packet; and X_DES_ACTIVE is    *)
(* written for a ready descriptor it stands at.                            *)
WireInOrder ==
  /\ hw_active /\ tx_bd[hw_idx].ready => Continues(tx_bd[hw_idx])
  /\ Dist(tx_cidx, hw_idx) <= Dist(tx_cidx, tx_pidx)
  /\ \A i \in Slots :
       tx_bd[i].ready /\ Filling = {} => Dist(hw_idx, i) < Dist(hw_idx, tx_pidx)
  /\ tx_mutex = None =>
       \A i \in Slots : Dist(hw_idx, i) < Dist(hw_idx, tx_pidx) => tx_bd[i].ready
  /\ tx_bd[hw_idx].ready => hw_active

(***************************************************************************)
(* What the ring implements: TxService.  wire reads the packets whose last *)
(* fragment is between the engine and tx_pidx, pending those in tx_pktq    *)
(* from tx_cidx on.                                                        *)
(***************************************************************************)
(* The how-manieth of the slots of S is slot i, seen from slot a on. *)
Turn(S, a, i) == Cardinality({j \in S : Dist(a, j) <= Dist(a, i)})

InOrder(S, a) == [k \in 1 .. Cardinality(S) |-> CHOOSE i \in S : Turn(S, a, i) = k]

(* The entries of f at the slots of S, in the order the slots follow a. *)
Along(f, S, a) == [k \in 1 .. Cardinality(S) |-> f[InOrder(S, a)[k]]]

TxTaken == {npkt[t] : t \in {u \in Senders : npkt[u] # None /\ pc[u] # "kick"}}

TxEnds   == {i \in Slots : Dist(hw_idx, i) < Dist(hw_idx, tx_pidx) /\ tx_bd[i].last}
TxFirsts == {i \in Slots : tx_pktq[i] # None}

TxWire    == Along([i \in TxEnds |-> tx_bd[i].buffer.pkt], TxEnds, hw_idx)
TxPending == Along(tx_pktq, TxFirsts, tx_cidx)

Service == INSTANCE TxService
             WITH taken <- TxTaken, wire <- TxWire, pending <- TxPending

(* Packets leave and are completed in the order they were accepted, once   *)
(* each, and completion runs at most one packet ahead of the wire.         *)
ImplementsService == Service!Spec

(* A packet is completed ("released back to protocol") only when the       *)
(* engine has no descriptor that points into it any more.                  *)
ReleasedAfterUse ==
  \A i \in Slots : tx_bd[i].ready => tx_bd[i].buffer.pkt \in held
=============================================================================
