--------------------------- MODULE SdmaChanProofs ---------------------------
(***************************************************************************)
(* Proofs about the processes that share the SDMA library, for any number  *)
(* of processes and channels: whoever runs has mapped the one control      *)
(* block and the one command descriptor (OneCcb), and the register that    *)
(* lets a channel run says what the processes have asked for, although     *)
(* each of them reads it, changes its copy and writes it back              *)
(* (HostMatches).                                                          *)
(*                                                                         *)
(* OneCcb is about processes that run; its invariant also follows a start  *)
(* or an end through its steps (Mapped).  HostMatches is about calls that  *)
(* have ended; its invariant also says what a call holds and has read at   *)
(* each of its places (RegHeld).                                           *)
(***************************************************************************)
EXTENDS SdmaChan, Integers, FiniteSetTheorems, TLAPS

Starting == {"registers", "ccb", "command_channel", "undo_ccb", "undo_count"}
InLib    == Starting \cup {"unmapping"}
RegPlaces == {"override_read", "override_write", "host_read", "host_write", "unlock"}

CountedSet == {p \in Proc : Counted(p)}

(* A process that has been through its start and not yet through its end.  *)
Joined(p) == Counted(p) /\ where[p] \notin InLib

(* The types of the library's variables; process_cnt is counted below.     *)
LibTyped ==
  /\ process_cnt \in Int /\ libinit \in Proc \cup {None}
  /\ MC0PTR \in Proc \cup {None} /\ base \in Proc \cup {None}
  /\ ccbs \subseteq Proc /\ bds \subseteq Proc
  /\ EVTOVR \subseteq Channel /\ HOSTOVR \subseteq Channel
  /\ n_users \in [Proc -> 0 .. MaxUsers]
  /\ ccb_ptr \in [Proc -> Proc \cup {None}] /\ cmd_bd_ptr \in [Proc -> Proc \cup {None}]
  /\ where \in [Proc -> LibPlaces \cup ChanPlaces]

(* libinit_mutex is held from the change of the count to the end.          *)
LibHeld == \A p \in Proc : libinit = p <=> where[p] \in InLib

(* The first user starts the library, the last one ends it.                *)
Users ==
  \A p \in Proc :
    /\ where[p] \in Starting \cup {"starting"} => n_users[p] = 1
    /\ where[p] \in {"ending", "unmapping"} => n_users[p] = 0
    /\ where[p] \in ChanPlaces => n_users[p] > 0

(* What a process has mapped, and will find mapped when its start goes on. *)
Mapped ==
  \A p \in Proc :
    /\ Joined(p) => /\ ccb_ptr[p] = MC0PTR /\ cmd_bd_ptr[p] = base
                    /\ MC0PTR # None /\ base # None
    /\ where[p] = "command_channel" => ccb_ptr[p] = MC0PTR /\ MC0PTR # None

(* The types of a channel's variables.                                     *)
ChanTyped ==
  /\ free \subseteq Channel
  /\ regmutex \in Proc \cup {None}
  /\ op \in [Proc -> {"none", "start", "stop", "release"}]
  /\ ch \in [Proc -> Channel \cup {None}]
  /\ is_event_driven \in [Proc -> BOOLEAN] /\ started \in [Proc -> BOOLEAN]
  /\ tmp \in [Proc -> SUBSET Channel]

(* A channel belongs to one process or to none, and only a process that    *)
(* has the library has one.                                                *)
Owned ==
  \A p \in Proc :
    /\ ch[p] \notin free
    /\ \A q \in Proc : ch[p] = ch[q] /\ ch[p] # None => p = q
    /\ where[p] \in ChanPlaces => ch[p] # None
    /\ (n_users[p] = 0 \/ where[p] \in LibPlaces \ {"out"}) => ch[p] = None

(* register_mutex is held from the first read to the end of the call, so   *)
(* that what has been read is still in the register when it is written.    *)
RegHeld ==
  \A p \in Proc :
    /\ regmutex = p <=> where[p] \in RegPlaces
    /\ where[p] = "host_write" => tmp[p] = HOSTOVR

(* What the register says of the channel of each process; a channel that   *)
(* is about to be given away does not run.                                 *)
Matches ==
  /\ \A p \in Proc :
       /\ ch[p] # None => (ch[p] \in HOSTOVR <=> started[p])
       /\ ch[p] = None \/ where[p] = "destroy" => ~started[p]
       /\ where[p] = "unlock" => (started[p] <=> op[p] = "start")
  /\ free \cap HOSTOVR = {}

Inv ==
  /\ LibTyped /\ LibHeld /\ Users /\ Mapped /\ process_cnt = Cardinality(CountedSet)
  /\ ChanTyped /\ Owned /\ RegHeld /\ Matches

-----------------------------------------------------------------------------
(* What a call on a channel does to the library: it moves on.              *)
ChanMoves(p) ==
  /\ Running(p) \/ where[p] \in ChanPlaces
  /\ \E to \in ChanPlaces \cup {"out"} : where' = [where EXCEPT ![p] = to]
  /\ EVTOVR' \subseteq Channel /\ HOSTOVR' \subseteq Channel
  /\ UNCHANGED unused

LibStep(p) == LibCall(p) \/ LibLock(p) \/ LibWork(p) \/ ChanMoves(p)

(* The counted processes are finitely many, no more than there are.        *)
LEMMA CountedFinite ==
  /\ IsFiniteSet(CountedSet) /\ Cardinality(CountedSet) \in 0 .. Cardinality(Proc)
  /\ IsFiniteSet(CountedSet)' /\ Cardinality(CountedSet)' \in 0 .. Cardinality(Proc)
  <1>1. \A S \in SUBSET Proc : IsFiniteSet(S) /\ Cardinality(S) \in 0 .. Cardinality(Proc)
    BY FS_Subset, FS_CardinalityType, LibAssumption
  <1>2. CountedSet \in SUBSET Proc /\ CountedSet' \in SUBSET Proc
    BY DEF CountedSet
  <1>. QED
    BY <1>1, <1>2

(* A counted process that finds the count at 1 is the only one.            *)
LEMMA Alone ==
  ASSUME process_cnt = Cardinality(CountedSet), NEW p \in Proc, Counted(p), IsFirst
  PROVE  \A q \in Proc : Counted(q) => q = p
  <1>1. PICK x : CountedSet = {x}
    BY CountedFinite, FS_Singleton DEF IsFirst
  <1>. QED
    BY <1>1 DEF CountedSet

(* One that finds another number is not.                                   *)
LEMMA NotAlone ==
  ASSUME process_cnt = Cardinality(CountedSet), NEW p \in Proc, Counted(p), ~IsFirst
  PROVE  \E q \in Proc : q # p /\ Counted(q)
  <1>1. CountedSet # {p}
    BY FS_Singleton DEF IsFirst
  <1>. QED
    BY <1>1 DEF CountedSet

(* Whoever holds libinit_mutex within its start is counted, and nobody     *)
(* else is within one.                                                     *)
LEMMA Inside ==
  ASSUME LibTyped, LibHeld, Users, NEW p \in Proc, where[p] \in InLib
  PROVE  /\ where[p] # "unmapping" => Counted(p)
         /\ \A q \in Proc : q # p => where[q] \notin InLib
         /\ \A q \in Proc : q # p /\ Counted(q) => Joined(q)
  BY SMTT(30) DEF LibTyped, LibHeld, Users, InLib, Starting, Counted, Joined

(* The types, for every step of the library.                               *)
LEMMA LibTypedKept ==
  ASSUME LibTyped, Users, NEW p \in Proc, LibStep(p)
  PROVE  LibTyped'
  <1>. USE LibAssumption
      DEF LibTyped, Users, Starting, Goes, LibPlaces, ChanPlaces, InLib
  <1>1. CASE InitCall(p)
    BY <1>1 DEF InitCall, shared, memory, regs
  <1>2. CASE InitLock(p)
    BY <1>2 DEF InitLock, memory, regs
  <1>3. CASE FiniCall(p)
    BY <1>3 DEF FiniCall, shared, memory, regs
  <1>4. CASE FiniLock(p)
    BY <1>4 DEF FiniLock, memory, regs
  <1>5. CASE RegisterInit(p)
    BY <1>5 DEF RegisterInit, shared, memory, regs
  <1>6. CASE CcbCreate(p)
    BY <1>6 DEF CcbCreate, shared, regs
  <1>7. CASE CmdchCreate(p)
    BY <1>7 DEF CmdchCreate, regs
  <1>8. CASE CcbFails(p)
    BY <1>8 DEF CcbFails, shared, memory, regs
  <1>9. CASE CmdchFails(p)
    BY <1>9 DEF CmdchFails, shared, regs
  <1>10. CASE CcbUndo(p)
    BY <1>10 DEF CcbUndo, shared, regs
  <1>11. CASE CountUndo(p)
    BY <1>11 DEF CountUndo, memory, regs, Uncounted, Unlocked
  <1>12. CASE FiniDestroy(p)
    BY <1>12 DEF FiniDestroy, regs
  <1>13. CASE ChanMoves(p)
    <2>1. PICK to \in ChanPlaces \cup {"out"} : where' = [where EXCEPT ![p] = to]
      BY <1>13 DEF ChanMoves
    <2>. QED
      BY <1>13, <2>1 DEF ChanMoves, unused, shared, memory
  <1>. QED
    BY <1>1, <1>2, <1>3, <1>4, <1>5, <1>6, <1>7, <1>8, <1>9, <1>10, <1>11, <1>12,
       <1>13 DEF LibStep, LibCall, LibLock, LibWork

(* Who holds libinit_mutex, for every step.                                *)
LEMMA LibHeldKept ==
  ASSUME LibTyped, LibHeld, NEW p \in Proc, LibStep(p)
  PROVE  LibHeld'
  <1>. USE LibAssumption
      DEF LibTyped, LibHeld, InLib, Starting, Goes, LibPlaces, ChanPlaces, Running
  <1>1. CASE InitCall(p)
    BY <1>1 DEF InitCall, shared, memory, regs
  <1>2. CASE InitLock(p)
    BY <1>2 DEF InitLock, memory, regs
  <1>3. CASE FiniCall(p)
    BY <1>3 DEF FiniCall, shared, memory, regs
  <1>4. CASE FiniLock(p)
    BY <1>4 DEF FiniLock, memory, regs
  <1>5. CASE RegisterInit(p)
    BY <1>5 DEF RegisterInit, shared, memory, regs
  <1>6. CASE CcbCreate(p)
    BY <1>6 DEF CcbCreate, shared, regs
  <1>7. CASE CmdchCreate(p)
    BY <1>7 DEF CmdchCreate, regs
  <1>8. CASE CcbFails(p)
    BY <1>8 DEF CcbFails, shared, memory, regs
  <1>9. CASE CmdchFails(p)
    BY <1>9 DEF CmdchFails, shared, regs
  <1>10. CASE CcbUndo(p)
    BY <1>10 DEF CcbUndo, shared, regs
  <1>11. CASE CountUndo(p)
    BY <1>11 DEF CountUndo, memory, regs, Uncounted, Unlocked
  <1>12. CASE FiniDestroy(p)
    BY <1>12 DEF FiniDestroy, regs
  <1>13. CASE ChanMoves(p)
    <2>1. PICK to \in ChanPlaces \cup {"out"} : where' = [where EXCEPT ![p] = to]
      BY <1>13 DEF ChanMoves
    <2>. QED
      BY <1>13, <2>1 DEF ChanMoves, unused, shared, memory
  <1>. QED
    BY <1>1, <1>2, <1>3, <1>4, <1>5, <1>6, <1>7, <1>8, <1>9, <1>10, <1>11, <1>12,
       <1>13 DEF LibStep, LibCall, LibLock, LibWork

(* The users of each process, for every step.                              *)
LEMMA UsersKept ==
  ASSUME LibTyped, Users, NEW p \in Proc, LibStep(p)
  PROVE  Users'
  <1>. USE LibAssumption
      DEF LibTyped, Users, Starting, Goes, LibPlaces, ChanPlaces, Running
  <1>1. CASE InitCall(p)
    BY <1>1 DEF InitCall, shared, memory, regs
  <1>2. CASE InitLock(p)
    BY <1>2 DEF InitLock, memory, regs
  <1>3. CASE FiniCall(p)
    BY <1>3 DEF FiniCall, shared, memory, regs
  <1>4. CASE FiniLock(p)
    BY <1>4 DEF FiniLock, memory, regs
  <1>5. CASE RegisterInit(p)
    BY <1>5 DEF RegisterInit, shared, memory, regs
  <1>6. CASE CcbCreate(p)
    BY <1>6 DEF CcbCreate, shared, regs
  <1>7. CASE CmdchCreate(p)
    BY <1>7 DEF CmdchCreate, regs
  <1>8. CASE CcbFails(p)
    BY <1>8 DEF CcbFails, shared, memory, regs
  <1>9. CASE CmdchFails(p)
    BY <1>9 DEF CmdchFails, shared, regs
  <1>10. CASE CcbUndo(p)
    BY <1>10 DEF CcbUndo, shared, regs
  <1>11. CASE CountUndo(p)
    BY <1>11 DEF CountUndo, memory, regs, Uncounted, Unlocked
  <1>12. CASE FiniDestroy(p)
    BY <1>12 DEF FiniDestroy, regs
  <1>13. CASE ChanMoves(p)
    BY <1>13 DEF ChanMoves, unused, shared, memory
  <1>. QED
    BY <1>1, <1>2, <1>3, <1>4, <1>5, <1>6, <1>7, <1>8, <1>9, <1>10, <1>11, <1>12,
       <1>13 DEF LibStep, LibCall, LibLock, LibWork

(* What the processes have mapped, for every step.                         *)
LEMMA MappedKept ==
  ASSUME LibTyped, LibHeld, Users, Mapped, process_cnt = Cardinality(CountedSet),
         NEW p \in Proc, LibStep(p)
  PROVE  Mapped'
  <1>. USE LibAssumption DEF LibTyped, Users, Mapped, Joined, Counted, InLib, Starting,
      Goes, LibPlaces, ChanPlaces, Running
  <1>1. CASE InitCall(p)
    BY <1>1 DEF InitCall, shared, memory, regs
  <1>2. CASE InitLock(p)
    BY <1>2 DEF InitLock, memory, regs
  <1>3. CASE FiniCall(p)
    BY <1>3 DEF FiniCall, shared, memory, regs
  <1>4. CASE FiniLock(p)
    BY <1>4 DEF FiniLock, memory, regs
  <1>5. CASE RegisterInit(p)
    BY <1>5 DEF RegisterInit, shared, memory, regs
  <1>6. CASE CcbCreate(p)
    <2>. USE <1>6 DEF CcbCreate, shared, regs
    <2>1. Counted(p) /\ where[p] \in InLib
      BY Inside DEF InLib, Starting
    <2>2. CASE IsFirst
      <3>1. \A q \in Proc : Joined(q) => q = p
        BY <2>1, <2>2, Alone DEF Joined
      <3>2. \A q \in Proc : where'[q] = IF q = p THEN where'[p] ELSE where[q]
        OBVIOUS
      <3>3. \A q \in Proc : q # p => ~Joined(q)' /\ where'[q] # "command_channel"
        BY <3>1, <3>2, Inside DEF InLib, Starting
      <3>4. Joined(p)' => cmd_bd_ptr'[p] = base' /\ base' # None
        BY <2>2
      <3>5. /\ Joined(p)' => ccb_ptr'[p] = MC0PTR' /\ MC0PTR' # None
            /\ where'[p] = "command_channel" => ccb_ptr'[p] = MC0PTR' /\ MC0PTR' # None
        BY <2>2
      <3>. QED
        BY <3>3, <3>4, <3>5
    <2>3. CASE ~IsFirst
      <3>1. PICK q \in Proc : q # p /\ Joined(q)
        BY <2>1, <2>3, NotAlone, Inside
      <3>. QED
        BY <2>3, <3>1
    <2>. QED
      BY <2>2, <2>3
  <1>7. CASE CmdchCreate(p)
    <2>. USE <1>7 DEF CmdchCreate, regs
    <2>1. Counted(p) /\ where[p] \in InLib
      BY Inside DEF InLib, Starting
    <2>2. CASE IsFirst
      <3>1. \A q \in Proc : Joined(q) => q = p
        BY <2>1, <2>2, Alone DEF Joined
      <3>2. \A q \in Proc : where'[q] = IF q = p THEN where'[p] ELSE where[q]
        OBVIOUS
      <3>3. \A q \in Proc : q # p => ~Joined(q)' /\ where'[q] # "command_channel"
        BY <3>1, <3>2, Inside DEF InLib, Starting
      <3>4. Joined(p)' => cmd_bd_ptr'[p] = base' /\ base' # None
        BY <2>2
      <3>5. /\ Joined(p)' => ccb_ptr'[p] = MC0PTR' /\ MC0PTR' # None
            /\ where'[p] = "command_channel" => ccb_ptr'[p] = MC0PTR' /\ MC0PTR' # None
        BY <2>2
      <3>. QED
        BY <3>3, <3>4, <3>5
    <2>3. CASE ~IsFirst
      <3>1. PICK q \in Proc : q # p /\ Joined(q)
        BY <2>1, <2>3, NotAlone, Inside
      <3>. QED
        BY <2>3, <3>1
    <2>. QED
      BY <2>2, <2>3
  <1>8. CASE CcbFails(p)
    BY <1>8 DEF CcbFails, shared, memory, regs
  <1>9. CASE CmdchFails(p)
    <2>. USE <1>9 DEF CmdchFails, shared, regs
    <2>1. Counted(p) /\ where[p] \in InLib
      BY Inside DEF InLib, Starting
    <2>2. CASE IsFirst
      <3>1. \A q \in Proc : Joined(q) => q = p
        BY <2>1, <2>2, Alone DEF Joined
      <3>2. \A q \in Proc : where'[q] = IF q = p THEN where'[p] ELSE where[q]
        OBVIOUS
      <3>3. \A q \in Proc : q # p => ~Joined(q)' /\ where'[q] # "command_channel"
        BY <3>1, <3>2, Inside DEF InLib, Starting
      <3>4. Joined(p)' => cmd_bd_ptr'[p] = base' /\ base' # None
        BY <2>2
      <3>5. /\ Joined(p)' => ccb_ptr'[p] = MC0PTR' /\ MC0PTR' # None
            /\ where'[p] = "command_channel" => ccb_ptr'[p] = MC0PTR' /\ MC0PTR' # None
        BY <2>2
      <3>. QED
        BY <3>3, <3>4, <3>5
    <2>3. CASE ~IsFirst
      <3>1. PICK q \in Proc : q # p /\ Joined(q)
        BY <2>1, <2>3, NotAlone, Inside
      <3>. QED
        BY <2>3, <3>1
    <2>. QED
      BY <2>2, <2>3
  <1>10. CASE CcbUndo(p)
    BY <1>10 DEF CcbUndo, shared, regs
  <1>11. CASE CountUndo(p)
    BY <1>11 DEF CountUndo, memory, regs, Uncounted, Unlocked
  <1>12. CASE FiniDestroy(p)
    BY <1>12 DEF FiniDestroy, regs
  <1>13. CASE ChanMoves(p)
    BY <1>13 DEF ChanMoves, unused, shared, memory
  <1>. QED
    BY <1>1, <1>2, <1>3, <1>4, <1>5, <1>6, <1>7, <1>8, <1>9, <1>10, <1>11, <1>12,
       <1>13 DEF LibStep, LibCall, LibLock, LibWork

(* The count of processes, for every step.                                 *)
LEMMA CountKept ==
  ASSUME LibTyped, Users, process_cnt = Cardinality(CountedSet), NEW p \in Proc,
         LibStep(p)
  PROVE  (process_cnt = Cardinality(CountedSet))'
  <1>. USE LibAssumption DEF LibTyped, Users, CountedSet, Counted, Starting, Goes,
      LibPlaces, ChanPlaces, Running
  <1>1. CASE InitCall(p)
    <2>1. CountedSet' = CountedSet
      BY <1>1 DEF InitCall, shared, memory, regs
    <2>. QED
      BY <1>1, <2>1 DEF InitCall, shared, memory, regs
  <1>2. CASE InitLock(p)
    <2>1. CountedSet' = CountedSet \cup {p} /\ p \notin CountedSet
      BY <1>2 DEF InitLock, memory, regs
    <2>. QED
      BY <1>2, <2>1, CountedFinite, FS_AddElement DEF InitLock, memory, regs
  <1>3. CASE FiniCall(p)
    <2>1. CountedSet' = CountedSet
      BY <1>3 DEF FiniCall, shared, memory, regs
    <2>. QED
      BY <1>3, <2>1 DEF FiniCall, shared, memory, regs
  <1>4. CASE FiniLock(p)
    <2>1. CountedSet' = CountedSet \ {p} /\ p \in CountedSet
      BY <1>4 DEF FiniLock, memory, regs
    <2>2. process_cnt' = process_cnt - 1
      BY <1>4 DEF FiniLock, Uncounted
    <2>3. Cardinality(CountedSet \ {p}) = Cardinality(CountedSet) - 1
      BY <2>1, CountedFinite, FS_RemoveElement
    <2>. QED
      BY <2>1, <2>2, <2>3
  <1>5. CASE RegisterInit(p)
    <2>1. CountedSet' = CountedSet
      BY <1>5 DEF RegisterInit, shared, memory, regs
    <2>. QED
      BY <1>5, <2>1 DEF RegisterInit, shared, memory, regs
  <1>6. CASE CcbCreate(p)
    <2>1. CountedSet' = CountedSet
      BY <1>6 DEF CcbCreate, shared, regs
    <2>. QED
      BY <1>6, <2>1 DEF CcbCreate, shared, regs
  <1>7. CASE CmdchCreate(p)
    <2>1. CountedSet' = CountedSet
      BY <1>7 DEF CmdchCreate, regs
    <2>. QED
      BY <1>7, <2>1 DEF CmdchCreate, regs
  <1>8. CASE CcbFails(p)
    <2>1. CountedSet' = CountedSet
      BY <1>8 DEF CcbFails, shared, memory, regs
    <2>. QED
      BY <1>8, <2>1 DEF CcbFails, shared, memory, regs
  <1>9. CASE CmdchFails(p)
    <2>1. CountedSet' = CountedSet
      BY <1>9 DEF CmdchFails, shared, regs
    <2>. QED
      BY <1>9, <2>1 DEF CmdchFails, shared, regs
  <1>10. CASE CcbUndo(p)
    <2>1. CountedSet' = CountedSet
      BY <1>10 DEF CcbUndo, shared, regs
    <2>. QED
      BY <1>10, <2>1 DEF CcbUndo, shared, regs
  <1>11. CASE CountUndo(p)
    <2>1. CountedSet' = CountedSet \ {p} /\ p \in CountedSet
      BY <1>11 DEF CountUndo, memory, regs, Uncounted, Unlocked
    <2>2. process_cnt' = process_cnt - 1
      BY <1>11 DEF CountUndo, Uncounted
    <2>3. Cardinality(CountedSet \ {p}) = Cardinality(CountedSet) - 1
      BY <2>1, CountedFinite, FS_RemoveElement
    <2>. QED
      BY <2>1, <2>2, <2>3
  <1>12. CASE FiniDestroy(p)
    <2>1. CountedSet' = CountedSet
      BY <1>12 DEF FiniDestroy, regs
    <2>. QED
      BY <1>12, <2>1 DEF FiniDestroy, regs
  <1>13. CASE ChanMoves(p)
    <2>1. CountedSet' = CountedSet
      BY <1>13 DEF ChanMoves, unused, shared, memory
    <2>. QED
      BY <1>13, <2>1 DEF ChanMoves, unused, shared, memory
  <1>. QED
    BY <1>1, <1>2, <1>3, <1>4, <1>5, <1>6, <1>7, <1>8, <1>9, <1>10, <1>11, <1>12,
       <1>13 DEF LibStep, LibCall, LibLock, LibWork

-----------------------------------------------------------------------------
LibPart(p) == Lib(p) \/ ((LibLock(p) \/ LibWork(p)) /\ UNCHANGED chanVars)

(* What a step of a start or an end does to the channels: nothing, unless  *)
(* it resets the controller, and then no process has a channel.            *)
LEMMA LibEffect ==
  ASSUME LibTyped, LibHeld, Users, process_cnt = Cardinality(CountedSet), Owned,
         NEW p \in Proc, LibPart(p)
  PROVE  /\ where[p] \in LibPlaces /\ \E to \in LibPlaces : where' = [where EXCEPT ![p] = to]
         /\ n_users'[p] = 0 \/ where'[p] # "out" => ch[p] = None
         /\ \A q \in Proc : q # p => n_users'[q] = n_users[q]
         /\ HOSTOVR' = HOSTOVR \/ (HOSTOVR' = {} /\ \A q \in Proc : ch[q] = None)
         /\ UNCHANGED chanVars
  <1>. USE LibAssumption DEF LibTyped, Users, Owned, Goes, LibPlaces, Starting, chanVars
  <1>1. CASE Lib(p) /\ InitCall(p)
    <2>. USE <1>1 DEF Lib, InitCall, regs
    <2>1. UNCHANGED chanVars /\ HOSTOVR' = HOSTOVR /\ where[p] = "out"
      OBVIOUS
    <2>2. \E to \in LibPlaces : where' = [where EXCEPT ![p] = to]
      OBVIOUS
    <2>3. n_users[p] \in Nat /\ \A q \in Proc : q # p => n_users'[q] = n_users[q]
      OBVIOUS
    <2>4. n_users'[p] = 0 \/ where'[p] # "out" => ch[p] = None
      BY <2>3
    <2>. QED
      BY <2>1, <2>2, <2>3, <2>4
  <1>2. CASE Lib(p) /\ FiniCall(p)
    <2>. USE <1>2 DEF Lib, FiniCall, regs
    <2>1. UNCHANGED chanVars /\ HOSTOVR' = HOSTOVR /\ where[p] = "out"
      OBVIOUS
    <2>2. \E to \in LibPlaces : where' = [where EXCEPT ![p] = to]
      OBVIOUS
    <2>3. n_users[p] \in Nat /\ \A q \in Proc : q # p => n_users'[q] = n_users[q]
      OBVIOUS
    <2>4. n_users'[p] = 0 \/ where'[p] # "out" => ch[p] = None
      BY <2>3
    <2>. QED
      BY <2>1, <2>2, <2>3, <2>4
  <1>3. CASE UNCHANGED chanVars /\ RegisterInit(p)
    <2>1. HOSTOVR' # HOSTOVR => IsFirst /\ HOSTOVR' = {}
      BY <1>3 DEF RegisterInit, regs
    <2>2. where[p] = "registers" /\ Counted(p)
      BY <1>3, Inside DEF RegisterInit, InLib
    <2>3. ASSUME IsFirst, NEW q \in Proc PROVE ch[q] = None
      <3>1. Counted(q) => q = p
        BY <2>2, <2>3, Alone
      <3>2. ~Counted(q) => n_users[q] = 0 \/ where[q] = "starting"
        BY DEF Counted
      <3>. QED
        BY <2>2, <3>1, <3>2
    <2>. QED
      BY <1>3, <2>1, <2>2, <2>3 DEF RegisterInit
  <1>4. CASE UNCHANGED chanVars /\ InitLock(p)
    BY <1>4 DEF InitLock, memory, regs
  <1>5. CASE UNCHANGED chanVars /\ FiniLock(p)
    BY <1>5 DEF FiniLock, memory, regs
  <1>6. CASE UNCHANGED chanVars /\ CcbCreate(p)
    BY <1>6 DEF CcbCreate, shared, regs
  <1>7. CASE UNCHANGED chanVars /\ CmdchCreate(p)
    BY <1>7 DEF CmdchCreate, regs
  <1>8. CASE UNCHANGED chanVars /\ CcbFails(p)
    BY <1>8 DEF CcbFails, shared, memory, regs
  <1>9. CASE UNCHANGED chanVars /\ CmdchFails(p)
    BY <1>9 DEF CmdchFails, shared, regs
  <1>10. CASE UNCHANGED chanVars /\ CcbUndo(p)
    BY <1>10 DEF CcbUndo, shared, regs
  <1>11. CASE UNCHANGED chanVars /\ CountUndo(p)
    BY <1>11 DEF CountUndo, memory, regs, Uncounted, Unlocked
  <1>12. CASE UNCHANGED chanVars /\ FiniDestroy(p)
    BY <1>12 DEF FiniDestroy, regs
  <1>. QED
    BY <1>1, <1>2, <1>3, <1>4, <1>5, <1>6, <1>7, <1>8, <1>9, <1>10, <1>11, <1>12
    DEF LibPart, Lib, LibCall, LibLock, LibWork

(* The steps of Next: of the library, or of a call on a channel.           *)
ChanStep(p) ==
  \/ Attach(p) \/ AttachFails(p) \/ Lock(p) \/ ChanWork(p)
  \/ \E o \in {"start", "stop", "release"} : Call(p, o)

(* To the library a step of a call on a channel is one that moves on.      *)
LEMMA ChanIsMove ==
  ASSUME LibTyped, ChanTyped, Users, Owned, NEW p \in Proc, ChanStep(p)
  PROVE  ChanMoves(p)
  <1>. USE LibAssumption DEF LibTyped, ChanTyped, Users, Owned, Goes, ChanMoves,
      Running, ChanPlaces, LibPlaces
  <1>1. CASE Attach(p)
    BY <1>1 DEF Attach, unused, regs
  <1>2. CASE AttachFails(p)
    BY <1>2 DEF AttachFails, unused, regs
  <1>3. CASE AttachRead(p)
    BY <1>3 DEF AttachRead, unused, regs, chan, Reads
  <1>4. CASE AttachWrite(p)
    BY <1>4 DEF AttachWrite, unused, chan, Forgets
  <1>5. CASE Lock(p)
    BY <1>5 DEF Lock, MayLock, unused, regs, chan
  <1>6. CASE OverrideRead(p)
    BY <1>6 DEF OverrideRead, unused, regs, chan, Reads
  <1>7. CASE OverrideWrite(p)
    BY <1>7 DEF OverrideWrite, unused, chan, Forgets
  <1>8. CASE HostRead(p)
    BY <1>8 DEF HostRead, unused, regs, chan, Reads
  <1>9. CASE HostWrite(p)
    BY <1>9 DEF HostWrite, HostValue, unused, Forgets
  <1>10. CASE Unlock(p)
    BY <1>10 DEF Unlock, unused, regs, chan
  <1>11. CASE Destroy(p)
    BY <1>11 DEF Destroy, unused, regs
  <1>12. ASSUME NEW o \in {"start", "stop", "release"}, Call(p, o) PROVE ChanMoves(p)
    BY <1>12 DEF Call, unused, regs, chan
  <1>. QED
    BY <1>1, <1>2, <1>3, <1>4, <1>5, <1>6, <1>7, <1>8, <1>9, <1>10, <1>11, <1>12
       DEF ChanStep, ChanWork

(* The types of the channels, for every step of a call.                    *)
LEMMA ChanTypedKept ==
  ASSUME LibTyped, ChanTyped, Owned, NEW p \in Proc, ChanStep(p)
  PROVE  ChanTyped'
  <1>. USE LibAssumption DEF LibTyped, ChanTyped, Goes
  <1>1. CASE Attach(p)
    BY <1>1 DEF Attach, unused, regs
  <1>2. CASE AttachFails(p)
    BY <1>2 DEF AttachFails, unused, regs
  <1>3. CASE AttachRead(p)
    BY <1>3 DEF AttachRead, unused, regs, chan, Reads
  <1>4. CASE AttachWrite(p)
    BY <1>4 DEF AttachWrite, unused, chan, Forgets
  <1>5. CASE Lock(p)
    BY <1>5 DEF Lock, MayLock, unused, regs, chan
  <1>6. CASE OverrideRead(p)
    BY <1>6 DEF OverrideRead, unused, regs, chan, Reads
  <1>7. CASE OverrideWrite(p)
    BY <1>7 DEF OverrideWrite, unused, chan, Forgets
  <1>8. CASE HostRead(p)
    BY <1>8 DEF HostRead, unused, regs, chan, Reads
  <1>9. CASE HostWrite(p)
    BY <1>9 DEF HostWrite, HostValue, unused, Forgets
  <1>10. CASE Unlock(p)
    BY <1>10 DEF Unlock, unused, regs, chan
  <1>11. CASE Destroy(p)
    <2>1. ch[p] \in Channel
      BY <1>11 DEF Destroy, Owned, ChanPlaces
    <2>. QED
      BY <1>11, <2>1 DEF Destroy, unused, regs
  <1>12. ASSUME NEW o \in {"start", "stop", "release"}, Call(p, o) PROVE ChanTyped'
    BY <1>12 DEF Call, unused, regs, chan
  <1>. QED
    BY <1>1, <1>2, <1>3, <1>4, <1>5, <1>6, <1>7, <1>8, <1>9, <1>10, <1>11, <1>12
       DEF ChanStep, ChanWork

(* Whose a channel is, for every step of a call.                           *)
LEMMA OwnedKept ==
  ASSUME LibTyped, ChanTyped, Owned, Users, NEW p \in Proc, ChanStep(p)
  PROVE  Owned'
  <1>. USE LibAssumption
      DEF LibTyped, ChanTyped, Owned, Users, Goes, ChanPlaces, LibPlaces, Running
  <1>1. CASE Attach(p)
    BY <1>1 DEF Attach, unused, regs
  <1>2. CASE AttachFails(p)
    BY <1>2 DEF AttachFails, unused, regs
  <1>3. CASE AttachRead(p)
    BY <1>3 DEF AttachRead, unused, regs, chan, Reads
  <1>4. CASE AttachWrite(p)
    BY <1>4 DEF AttachWrite, unused, chan, Forgets
  <1>5. CASE Lock(p)
    BY <1>5 DEF Lock, MayLock, unused, regs, chan
  <1>6. CASE OverrideRead(p)
    BY <1>6 DEF OverrideRead, unused, regs, chan, Reads
  <1>7. CASE OverrideWrite(p)
    BY <1>7 DEF OverrideWrite, unused, chan, Forgets
  <1>8. CASE HostRead(p)
    BY <1>8 DEF HostRead, unused, regs, chan, Reads
  <1>9. CASE HostWrite(p)
    BY <1>9 DEF HostWrite, HostValue, unused, Forgets
  <1>10. CASE Unlock(p)
    BY <1>10 DEF Unlock, unused, regs, chan
  <1>11. CASE Destroy(p)
    <2>. USE <1>11 DEF Destroy, unused
    <2>1. /\ ch'[p] = None /\ None \notin free'
          /\ \A q \in Proc : q # p => ch'[q] = ch[q] /\ (ch[q] # None => ch[q] # ch[p])
      OBVIOUS
    <2>2. \A q \in Proc : ch'[q] \notin free'
      BY <2>1
    <2>3. \A q, r \in Proc : ch'[q] = ch'[r] /\ ch'[q] # None => q = r
      BY <2>1
    <2>. QED
      BY <2>1, <2>2, <2>3
  <1>12. ASSUME NEW o \in {"start", "stop", "release"}, Call(p, o) PROVE Owned'
    BY <1>12 DEF Call, unused, regs, chan
  <1>. QED
    BY <1>1, <1>2, <1>3, <1>4, <1>5, <1>6, <1>7, <1>8, <1>9, <1>10, <1>11, <1>12
       DEF ChanStep, ChanWork

(* What is held and has been read, for every step of a call.               *)
LEMMA RegHeldKept ==
  ASSUME LibTyped, ChanTyped, RegHeld, NEW p \in Proc, ChanStep(p)
  PROVE  RegHeld'
  <1>. USE LibAssumption DEF LibTyped, ChanTyped, RegHeld, Goes, RegPlaces, Running
  <1>1. CASE Attach(p)
    BY <1>1 DEF Attach, unused, regs
  <1>2. CASE AttachFails(p)
    BY <1>2 DEF AttachFails, unused, regs
  <1>3. CASE AttachRead(p)
    BY <1>3 DEF AttachRead, unused, regs, chan, Reads
  <1>4. CASE AttachWrite(p)
    BY <1>4 DEF AttachWrite, unused, chan, Forgets
  <1>5. CASE Lock(p)
    BY <1>5 DEF Lock, MayLock, unused, regs, chan
  <1>6. CASE OverrideRead(p)
    BY <1>6 DEF OverrideRead, unused, regs, chan, Reads
  <1>7. CASE OverrideWrite(p)
    BY <1>7 DEF OverrideWrite, unused, chan, Forgets
  <1>8. CASE HostRead(p)
    BY <1>8 DEF HostRead, unused, regs, chan, Reads
  <1>9. CASE HostWrite(p)
    BY <1>9 DEF HostWrite, HostValue, unused, Forgets
  <1>10. CASE Unlock(p)
    BY <1>10 DEF Unlock, unused, regs, chan
  <1>11. CASE Destroy(p)
    BY <1>11 DEF Destroy, unused, regs
  <1>12. ASSUME NEW o \in {"start", "stop", "release"}, Call(p, o) PROVE RegHeld'
    BY <1>12 DEF Call, unused, regs, chan
  <1>. QED
    BY <1>1, <1>2, <1>3, <1>4, <1>5, <1>6, <1>7, <1>8, <1>9, <1>10, <1>11, <1>12
       DEF ChanStep, ChanWork

(* What the register says, for every step of a call.                       *)
LEMMA MatchesKept ==
  ASSUME LibTyped, ChanTyped, Owned, RegHeld, Matches, NEW p \in Proc, ChanStep(p)
  PROVE  Matches'
  <1>. USE LibAssumption DEF LibTyped, ChanTyped, Owned, RegHeld, Matches, Goes,
      RegPlaces, ChanPlaces, Running
  <1>1. CASE Attach(p)
    BY <1>1 DEF Attach, unused, regs
  <1>2. CASE AttachFails(p)
    BY <1>2 DEF AttachFails, unused, regs
  <1>3. CASE AttachRead(p)
    BY <1>3 DEF AttachRead, unused, regs, chan, Reads
  <1>4. CASE AttachWrite(p)
    BY <1>4 DEF AttachWrite, unused, chan, Forgets
  <1>5. CASE Lock(p)
    BY <1>5 DEF Lock, MayLock, unused, regs, chan
  <1>6. CASE OverrideRead(p)
    BY <1>6 DEF OverrideRead, unused, regs, chan, Reads
  <1>7. CASE OverrideWrite(p)
    BY <1>7 DEF OverrideWrite, unused, chan, Forgets
  <1>8. CASE HostRead(p)
    BY <1>8 DEF HostRead, unused, regs, chan, Reads
  <1>9. CASE HostWrite(p)
    <2>. USE <1>9 DEF HostWrite, HostValue
    <2>1. /\ where[p] = "host_write" /\ where'[p] = "unlock" /\ ch[p] # None
          /\ \A q \in Proc : q # p => where'[q] = where[q] /\ where[q] # "unlock"
      OBVIOUS
    <2>2. UNCHANGED <<free, op, ch>> /\ \A q \in Proc : q # p => started'[q] = started[q]
      OBVIOUS
    <2>3. started'[p] <=> op[p] = "start"
      BY ONLY <1>9, ChanTyped DEF ChanTyped, HostWrite
    <2>4. HOSTOVR' = IF op[p] = "start" THEN HOSTOVR \cup {ch[p]} ELSE HOSTOVR \ {ch[p]}
      OBVIOUS
    <2>5. \A q \in Proc : q # p /\ ch[q] # None => (ch[q] \in HOSTOVR' <=> started'[q])
      BY <2>2, <2>4
    <2>6. free' \cap HOSTOVR' = {}
      BY <2>2, <2>4
    <2>7. ch[p] \in HOSTOVR' <=> started'[p]
      BY <2>2, <2>4, <2>3
    <2>8. \A q \in Proc : ch[q] = None \/ where'[q] = "destroy" => ~started'[q]
      BY <2>1, <2>2, <2>3
    <2>9. \A q \in Proc : where'[q] = "unlock" => (started'[q] <=> op'[q] = "start")
      BY <2>1, <2>2, <2>3
    <2>. QED
      BY <2>2, <2>5, <2>6, <2>7, <2>8, <2>9
  <1>10. CASE Unlock(p)
    BY <1>10 DEF Unlock, unused, regs, chan
  <1>11. CASE Destroy(p)
    BY <1>11 DEF Destroy, unused, regs
  <1>12. ASSUME NEW o \in {"start", "stop", "release"}, Call(p, o) PROVE Matches'
    BY <1>12 DEF Call, unused, regs, chan
  <1>. QED
    BY <1>1, <1>2, <1>3, <1>4, <1>5, <1>6, <1>7, <1>8, <1>9, <1>10, <1>11, <1>12
       DEF ChanStep, ChanWork

(* A step of a start or an end keeps what is said of the channels.         *)
LEMMA ChannelsKept ==
  ASSUME LibTyped, LibHeld, Users, process_cnt = Cardinality(CountedSet),
         ChanTyped, Owned, RegHeld, Matches, NEW p \in Proc, LibPart(p)
  PROVE  ChanTyped' /\ Owned' /\ RegHeld' /\ Matches'
  <1>1. /\ where[p] \in LibPlaces /\ \E to \in LibPlaces : where' = [where EXCEPT ![p] = to]
        /\ n_users'[p] = 0 \/ where'[p] # "out" => ch[p] = None
        /\ \A q \in Proc : q # p => n_users'[q] = n_users[q]
        /\ HOSTOVR' = HOSTOVR \/ (HOSTOVR' = {} /\ \A q \in Proc : ch[q] = None)
        /\ UNCHANGED <<free, regmutex, op, ch, is_event_driven, started, tmp>>
    BY LibEffect DEF chanVars, chan
  <1>2. \A q \in Proc : where'[q] = IF q = p THEN where'[p] ELSE where[q]
    BY <1>1 DEF LibTyped
  <1>3. where[p] \in LibPlaces /\ where'[p] \in LibPlaces
    BY <1>1 DEF LibTyped
  <1>4. ChanTyped'
    BY <1>1 DEF ChanTyped
  <1>5. Owned'
    <2>1. \A q \in Proc : where'[q] \in ChanPlaces => q # p /\ where[q] \in ChanPlaces
      BY <1>2, <1>3 DEF LibPlaces, ChanPlaces
    <2>. QED
      BY <1>1, <1>2, <2>1 DEF Owned
  <1>6. RegHeld'
    <2>1. \A q \in Proc : where'[q] \in RegPlaces <=> where[q] \in RegPlaces
      BY <1>2, <1>3 DEF LibPlaces, RegPlaces
    <2>2. \A q \in Proc : where'[q] = "host_write" => where[q] = "host_write" /\ ch[q] # None
      BY <1>2, <1>3 DEF LibPlaces, Owned, ChanPlaces
    <2>. QED
      BY <1>1, <2>1, <2>2 DEF RegHeld
  <1>7. Matches'
    <2>1. \A q \in Proc : where'[q] \in {"destroy", "unlock"} => where[q] = where'[q]
      BY <1>2, <1>3 DEF LibPlaces
    <2>. QED
      BY <1>1, <2>1 DEF Matches
  <1>. QED
    BY <1>4, <1>5, <1>6, <1>7

(* Before the first start.                                                 *)
LEMMA Starts == Init => Inv
  <1>. SUFFICES ASSUME Init PROVE Inv
    OBVIOUS
  <1>. USE LibAssumption DEF Init, LibInit
  <1>1. LibTyped /\ ChanTyped
    BY DEF LibTyped, ChanTyped, LibPlaces
  <1>2. LibHeld /\ Users /\ Mapped
    BY DEF LibHeld, Users, Mapped, Joined, Counted, InLib, Starting, ChanPlaces
  <1>3. process_cnt = Cardinality(CountedSet)
    BY FS_EmptySet DEF CountedSet, Counted
  <1>4. Owned /\ RegHeld /\ Matches
    BY DEF Owned, RegHeld, Matches, ChanPlaces, RegPlaces
  <1>. QED
    BY <1>1, <1>2, <1>3, <1>4 DEF Inv

(* Every step keeps the invariant.                                         *)
LEMMA StepKept == Inv /\ [Next]_vars => Inv'
  <1>. SUFFICES ASSUME Inv, [Next]_vars PROVE Inv'
    OBVIOUS
  <1>. USE DEF Inv
  <1>1. ASSUME NEW p \in Proc, LibPart(p) PROVE Inv'
    <2>1. LibStep(p)
      BY <1>1 DEF LibPart, Lib, LibStep
    <2>. QED
      BY <1>1, <2>1, LibTypedKept, LibHeldKept, UsersKept, MappedKept, CountKept,
         ChannelsKept
  <1>2. ASSUME NEW p \in Proc, ChanStep(p) PROVE Inv'
    <2>1. LibStep(p)
      BY <1>2, ChanIsMove DEF LibStep
    <2>. QED
      BY <1>2, <2>1, LibTypedKept, LibHeldKept, UsersKept, MappedKept, CountKept,
         ChanTypedKept, OwnedKept, RegHeldKept, MatchesKept
  <1>3. CASE UNCHANGED vars
    <2>. USE <1>3 DEF vars, libVars, chanVars, shared, memory, regs, local, chan
    <2>1. LibTyped' /\ ChanTyped'
      BY DEF LibTyped, ChanTyped
    <2>2. LibHeld' /\ Users' /\ Mapped'
      BY DEF LibHeld, Users, Mapped, Joined, Counted
    <2>3. (process_cnt = Cardinality(CountedSet))'
      BY DEF CountedSet, Counted
    <2>4. Owned' /\ RegHeld' /\ Matches'
      BY DEF Owned, RegHeld, Matches
    <2>. QED
      BY <2>1, <2>2, <2>3, <2>4
  <1>. QED
    BY <1>1, <1>2, <1>3 DEF Next, Locks, Works, LibPart, ChanStep

(* The invariant of the processes that use the library.                    *)
THEOREM SdmaInvariant == Spec => []Inv
  BY Starts, StepKept, PTL DEF Spec

(* Counts are right after every failure, and those that run agree on one   *)
(* control block and one command descriptor.                               *)
THEOREM OneCcbCorrect == Spec => []OneCcb
  <1>1. Inv => OneCcb
    BY DEF Inv, OneCcb, Mapped, Joined, Counted, Running, InLib, Starting, CountedSet,
       LibTyped
  <1>. QED
    BY <1>1, SdmaInvariant, PTL

(* No write to HOSTOVR is lost, nobody resets the controller under another *)
(* process, and a channel that is given away does not run.                 *)
THEOREM HostCorrect == Spec => []HostMatches
  <1>1. Inv => HostMatches
    <2>1. Inv => TypeOK
      BY CountedFinite DEF Inv, TypeOK, LibTypeOK, LibTyped, ChanTyped
    <2>. QED
      BY <2>1 DEF Inv, HostMatches, Matches
  <1>. QED
    BY <1>1, SdmaInvariant, PTL
=============================================================================
