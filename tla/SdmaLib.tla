------------------------------ MODULE SdmaLib ------------------------------
(***************************************************************************)
(* Start and end of the SDMA library (lib/dma/sdma/api.c, cmd.c, sync.c).  *)
(* Every driver process loads the library; the first one resets the        *)
(* controller and creates the control block and the buffer descriptor of   *)
(* the command channel, the others map what the first one created.         *)
(* process_cnt, in memory shared by all, tells who is the first;           *)
(* libinit_mutex lets one process at a time start or end.                  *)
(*                                                                         *)
(* A block of memory is named by the process that created it.  The threads *)
(* of a process take turns under processinit_mutex, so where[p] says how   *)
(* far the one call under way in p has come.  What a process does with its *)
(* channels between a start and an end is in SdmaChan.                     *)
(***************************************************************************)
EXTENDS Naturals, FiniteSets

CONSTANTS Proc, Channel, None,
          MaxUsers   \* bound: calls of sdma_init in a process not yet undone

ASSUME LibAssumption ==
  /\ None \notin Proc \cup Channel /\ IsFiniteSet(Proc) /\ MaxUsers \in Nat \ {0}

VARIABLES
  process_cnt, libinit,   \* shared memory: the count, the holder of the mutex
  MC0PTR, base,           \* register: the CCB; in it, channel 0's descriptor
  ccbs, bds,              \* physical memory that exists, by creator
  EVTOVR, HOSTOVR,        \* registers, as sets of channels
  where, n_users,         \* per process: the call under way, its users
  ccb_ptr, cmd_bd_ptr     \* per process: what it has mapped

shared == <<process_cnt, libinit>>
memory == <<MC0PTR, base, ccbs, bds>>
regs   == <<EVTOVR, HOSTOVR>>
local  == <<where, n_users, ccb_ptr, cmd_bd_ptr>>
libVars == <<shared, memory, regs, local>>

LibInit ==
  /\ process_cnt = 0 /\ libinit = None
  /\ MC0PTR = None /\ base = None /\ ccbs = {} /\ bds = {}
  /\ EVTOVR = {} /\ HOSTOVR = {}
  /\ where = [p \in Proc |-> "out"] /\ n_users = [p \in Proc |-> 0]
  /\ ccb_ptr = [p \in Proc |-> None] /\ cmd_bd_ptr = [p \in Proc |-> None]

(* Mutant: nobody asks who is the first.                                   *)
EveryoneFirst == TRUE

(* Mutant: the count is tested as it was before this process joined.       *)
FirstIfNone == process_cnt = 0

IsFirst == process_cnt = 1

Goes(p, from, to) == where[p] = from /\ where' = [where EXCEPT ![p] = to]
-----------------------------------------------------------------------------
(***************************************************************************)
(* sdma_init.  The steps that only concern the process itself may fail     *)
(* before the mutex is taken: nothing is left of the call then.            *)
(***************************************************************************)
InitCall(p) ==
  /\ n_users[p] < MaxUsers
  /\ n_users' = [n_users EXCEPT ![p] = @ + 1]
  /\ Goes(p, "out", IF n_users[p] = 0 THEN "starting" ELSE "out")
  /\ UNCHANGED <<shared, memory, regs, ccb_ptr, cmd_bd_ptr>>

InitLock(p) ==
  /\ libinit = None /\ libinit' = p
  /\ process_cnt' = process_cnt + 1
  /\ Goes(p, "starting", "registers")
  /\ UNCHANGED <<memory, regs, n_users, ccb_ptr, cmd_bd_ptr>>

(* The controller is reset; every channel is triggered by software.        *)
RegisterInit(p) ==
  /\ IF IsFirst THEN EVTOVR' = Channel /\ HOSTOVR' = {} ELSE UNCHANGED regs
  /\ Goes(p, "registers", "ccb")
  /\ UNCHANGED <<shared, memory, n_users, ccb_ptr, cmd_bd_ptr>>

CcbCreate(p) ==
  /\ IF IsFirst THEN MC0PTR' = p /\ ccbs' = ccbs \cup {p}
                ELSE UNCHANGED <<MC0PTR, ccbs>>
  /\ ccb_ptr' = [ccb_ptr EXCEPT ![p] = MC0PTR']
  /\ Goes(p, "ccb", "command_channel")
  /\ UNCHANGED <<shared, base, bds, regs, n_users, cmd_bd_ptr>>

CmdchCreate(p) ==
  /\ IF IsFirst THEN base' = p /\ bds' = bds \cup {p} ELSE UNCHANGED <<base, bds>>
  /\ cmd_bd_ptr' = [cmd_bd_ptr EXCEPT ![p] = base']
  /\ libinit' = None
  /\ Goes(p, "command_channel", "out")
  /\ UNCHANGED <<process_cnt, MC0PTR, ccbs, regs, n_users, ccb_ptr>>

(* The mapping of the CCB fails.                                           *)
CcbFails(p) ==
  /\ Goes(p, "ccb", "undo_count")
  /\ UNCHANGED <<shared, memory, regs, n_users, ccb_ptr, cmd_bd_ptr>>

(* Something of the command channel fails; its descriptor is unmapped, and *)
(* may have been stored in the CCB already.                                *)
CmdchFails(p) ==
  /\ base' \in (IF IsFirst THEN {base, p} ELSE {base})
  /\ Goes(p, "command_channel", "undo_ccb")
  /\ UNCHANGED <<shared, MC0PTR, ccbs, bds, regs, n_users, ccb_ptr, cmd_bd_ptr>>

CcbUndo(p) ==
  /\ ccbs' = ccbs \ {p}
  /\ ccb_ptr' = [ccb_ptr EXCEPT ![p] = None]
  /\ Goes(p, "undo_ccb", "undo_count")
  /\ UNCHANGED <<shared, MC0PTR, base, bds, regs, n_users, cmd_bd_ptr>>

(* Mutant: a call that failed keeps the mutex.                             *)
KeepsMutex == libinit

Uncounted == process_cnt - 1
Unlocked == None

CountUndo(p) ==
  /\ process_cnt' = Uncounted /\ libinit' = Unlocked
  /\ n_users' = [n_users EXCEPT ![p] = @ - 1]
  /\ Goes(p, "undo_count", "out")
  /\ UNCHANGED <<memory, regs, ccb_ptr, cmd_bd_ptr>>
-----------------------------------------------------------------------------
(***************************************************************************)
(* sdma_fini.                                                              *)
(***************************************************************************)
FiniCall(p) ==
  /\ n_users[p] > 0
  /\ n_users' = [n_users EXCEPT ![p] = @ - 1]
  /\ Goes(p, "out", IF n_users[p] = 1 THEN "ending" ELSE "out")
  /\ UNCHANGED <<shared, memory, regs, ccb_ptr, cmd_bd_ptr>>

FiniLock(p) ==
  /\ libinit = None /\ libinit' = p
  /\ process_cnt' = process_cnt - 1
  /\ Goes(p, "ending", "unmapping")
  /\ UNCHANGED <<memory, regs, n_users, ccb_ptr, cmd_bd_ptr>>

(* What this process created goes away with its mapping.                   *)
FiniDestroy(p) ==
  /\ bds' = bds \ {p} /\ ccbs' = ccbs \ {p}
  /\ ccb_ptr' = [ccb_ptr EXCEPT ![p] = None] /\ cmd_bd_ptr' = [cmd_bd_ptr EXCEPT ![p] = None]
  /\ libinit' = None
  /\ Goes(p, "unmapping", "out")
  /\ UNCHANGED <<process_cnt, MC0PTR, base, regs, n_users>>

LibLock(p) == InitLock(p) \/ FiniLock(p)

LibWork(p) ==
  RegisterInit(p) \/ CcbCreate(p) \/ CmdchCreate(p) \/ CcbFails(p) \/ CmdchFails(p)
  \/ CcbUndo(p) \/ CountUndo(p) \/ FiniDestroy(p)

LibCall(p) == InitCall(p) \/ FiniCall(p)
-----------------------------------------------------------------------------
(* The process has the library and no call is under way.                   *)
Running(p) == where[p] = "out" /\ n_users[p] > 0

LibPlaces == {"out", "starting", "registers", "ccb", "command_channel", "undo_ccb",
              "undo_count", "ending", "unmapping"}

LibTypeOK ==
  /\ process_cnt \in 0 .. Cardinality(Proc) /\ libinit \in Proc \cup {None}
  /\ MC0PTR \in Proc \cup {None} /\ base \in Proc \cup {None}
  /\ ccbs \subseteq Proc /\ bds \subseteq Proc
  /\ EVTOVR \subseteq Channel /\ HOSTOVR \subseteq Channel
  /\ n_users \in [Proc -> 0 .. MaxUsers]
  /\ ccb_ptr \in [Proc -> Proc \cup {None}] /\ cmd_bd_ptr \in [Proc -> Proc \cup {None}]

(* A process is counted from the increment to the decrement.               *)
Counted(p) == IF n_users[p] = 0 THEN where[p] = "ending" ELSE where[p] # "starting"

(* Processes that run share one CCB, the controller's, and one descriptor  *)
(* of the command channel: none creates its own while others run, for      *)
(* process_cnt is the number of processes that count, those with users and *)
(* past the increment and those about to decrement it, also after a start  *)
(* that failed half way.                                                   *)
OneCcb ==
  /\ process_cnt = Cardinality({p \in Proc : Counted(p)})
  /\ \A p \in Proc : Running(p) =>
       /\ ccb_ptr[p] = MC0PTR /\ cmd_bd_ptr[p] = base
       /\ None \notin {MC0PTR, base}
=============================================================================
