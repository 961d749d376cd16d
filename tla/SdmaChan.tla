------------------------------ MODULE SdmaChan ------------------------------
(***************************************************************************)
(* The life of the processes that use the SDMA library (lib/dma/sdma):     *)
(* they start and end it (SdmaLib) and in between attach, start, stop and  *)
(* release channels (sdma_channel_attach, sdma_channel_release,            *)
(* sdma_xfer_start, sdma_xfer_abort, sdma_xfer_complete of api.c).  They   *)
(* share the registers EVTOVR and HOSTOVR, one bit to a channel, which     *)
(* every process changes by reading and writing them back, most of the     *)
(* time with register_mutex held.                                          *)
(*                                                                         *)
(* A channel is in EVTOVR when software alone triggers it, and in HOSTOVR  *)
(* while a transfer that waits for events may run.  A process has one      *)
(* channel at a time.  CHNENBL, one register for each event, goes the way  *)
(* of EVTOVR.                                                              *)
(***************************************************************************)
EXTENDS SdmaLib

VARIABLES
  free,               \* channels the resource database has to give
  regmutex,           \* register_mutex: its holder
  op,                 \* per process: which call is under way
  ch, is_event_driven, started,   \* per process: its channel
  tmp                 \* per process: the register value it has read

chan     == <<ch, is_event_driven, started>>
chanVars == <<free, regmutex, op, chan, tmp>>
unused   == <<shared, memory, n_users, ccb_ptr, cmd_bd_ptr>>
vars     == <<libVars, chanVars>>

Init ==
  /\ LibInit
  /\ free = Channel /\ regmutex = None
  /\ op = [p \in Proc |-> "none"]
  /\ ch = [p \in Proc |-> None]
  /\ is_event_driven = [p \in Proc |-> FALSE] /\ started = [p \in Proc |-> FALSE]
  /\ tmp = [p \in Proc |-> {}]

Reads(p, register) == tmp' = [tmp EXCEPT ![p] = register]
Forgets(p) == tmp' = [tmp EXCEPT ![p] = {}]
-----------------------------------------------------------------------------
(***************************************************************************)
(* sdma_channel_attach; the mutex is not taken.                            *)
(***************************************************************************)
Attach(p) == \E c \in free, ev \in BOOLEAN :
  /\ Running(p) /\ ch[p] = None
  /\ free' = free \ {c}
  /\ ch' = [ch EXCEPT ![p] = c]
  /\ is_event_driven' = [is_event_driven EXCEPT ![p] = ev]
  /\ Goes(p, "out", IF ev THEN "attach_read" ELSE "out")
  /\ UNCHANGED <<unused, regs, regmutex, op, started, tmp>>

(* Options that cannot be parsed, or a context that cannot be loaded.      *)
AttachFails(p) == \E c \in free :
  /\ Running(p) /\ ch[p] = None
  /\ free' = free \ {c}
  /\ ch' = [ch EXCEPT ![p] = c]
  /\ Goes(p, "out", "destroy")
  /\ UNCHANGED <<unused, regs, regmutex, op, is_event_driven, started, tmp>>

AttachRead(p) ==
  /\ Reads(p, EVTOVR)
  /\ Goes(p, "attach_read", "attach_write")
  /\ UNCHANGED <<unused, regs, free, regmutex, op, chan>>

AttachWrite(p) ==
  /\ EVTOVR' = tmp[p] \ {ch[p]} /\ Forgets(p)
  /\ Goes(p, "attach_write", "out")
  /\ UNCHANGED <<unused, HOSTOVR, free, regmutex, op, chan>>
-----------------------------------------------------------------------------
(***************************************************************************)
(* The calls that hold the mutex: "start", "stop" (abort or complete) and  *)
(* "release".  A software channel has nothing to start or stop here.       *)
(***************************************************************************)
MayLock == regmutex = None

Call(p, o) ==
  /\ ch[p] # None /\ (o # "release" => is_event_driven[p])
  /\ op' = [op EXCEPT ![p] = o]
  /\ Goes(p, "out", "lock")
  /\ UNCHANGED <<unused, regs, free, regmutex, chan, tmp>>

Lock(p) ==
  /\ MayLock /\ regmutex' = p
  /\ Goes(p, "lock", IF op[p] = "release" THEN "override_read" ELSE "host_read")
  /\ UNCHANGED <<unused, regs, free, op, chan, tmp>>

OverrideRead(p) ==
  /\ Reads(p, EVTOVR)
  /\ Goes(p, "override_read", "override_write")
  /\ UNCHANGED <<unused, regs, free, regmutex, op, chan>>

OverrideWrite(p) ==
  /\ EVTOVR' = tmp[p] \cup {ch[p]} /\ Forgets(p)
  /\ Goes(p, "override_write", "host_read")
  /\ UNCHANGED <<unused, HOSTOVR, free, regmutex, op, chan>>

HostRead(p) ==
  /\ Reads(p, HOSTOVR)
  /\ Goes(p, "host_read", "host_write")
  /\ UNCHANGED <<unused, regs, free, regmutex, op, chan>>

HostValue(p) == IF op[p] = "start" THEN tmp[p] \cup {ch[p]} ELSE tmp[p] \ {ch[p]}

HostWrite(p) ==
  /\ HOSTOVR' = HostValue(p) /\ Forgets(p)
  /\ started' = [started EXCEPT ![p] = (op[p] = "start")]
  /\ Goes(p, "host_write", "unlock")
  /\ UNCHANGED <<unused, EVTOVR, free, regmutex, op, ch, is_event_driven>>

Unlock(p) ==
  /\ regmutex' = None /\ op' = [op EXCEPT ![p] = "none"]
  /\ Goes(p, "unlock", IF op[p] = "release" THEN "destroy" ELSE "out")
  /\ UNCHANGED <<unused, regs, free, chan, tmp>>

(* The end of sdma_channel_release, and of an attach that failed: the      *)
(* number of the channel is read from the structure after it was freed, so *)
(* it may be another one, which no process has attached.                   *)
Destroy(p) ==
  /\ free' \in {free \cup {ch[p]}, free}
  /\ ch' = [ch EXCEPT ![p] = None]
  /\ is_event_driven' = [is_event_driven EXCEPT ![p] = FALSE]
  /\ Goes(p, "destroy", "out")
  /\ UNCHANGED <<unused, regs, regmutex, op, started, tmp>>

ChanWork(p) ==
  AttachRead(p) \/ AttachWrite(p) \/ OverrideRead(p) \/ OverrideWrite(p)
  \/ HostRead(p) \/ HostWrite(p) \/ Unlock(p) \/ Destroy(p)
-----------------------------------------------------------------------------
(* The library starts and ends; a client releases its channel before the   *)
(* last end.                                                               *)
Lib(p)    == LibCall(p) /\ (ch[p] # None => n_users'[p] > 0) /\ UNCHANGED chanVars
Locks(p)  == (LibLock(p) /\ UNCHANGED chanVars) \/ Lock(p)
Works(p)  == (LibWork(p) /\ UNCHANGED chanVars) \/ ChanWork(p)

Next == \E p \in Proc :
  \/ Lib(p) \/ Locks(p) \/ Works(p)
  \/ Attach(p) \/ AttachFails(p)
  \/ \E o \in {"start", "stop", "release"} : Call(p, o)

Spec == Init /\ [][Next]_vars

(* A call that was begun goes on, and a thread that waits for a mutex gets *)
(* it when it is let go again and again.                                   *)
FairSpec == Spec /\ \A p \in Proc : WF_vars(Works(p)) /\ SF_vars(Locks(p))
-----------------------------------------------------------------------------
ChanPlaces == {"attach_read", "attach_write", "lock", "override_read", "override_write",
               "host_read", "host_write", "unlock", "destroy"}

(* Every variable has its type; what is attached and what is free are      *)
(* channels of the controller.                                             *)
TypeOK ==
  /\ LibTypeOK
  /\ free \subseteq Channel
  /\ regmutex \in Proc \cup {None}
  /\ where \in [Proc -> LibPlaces \cup ChanPlaces]
  /\ op \in [Proc -> {"none", "start", "stop", "release"}]
  /\ ch \in [Proc -> Channel \cup {None}]
  /\ is_event_driven \in [Proc -> BOOLEAN] /\ started \in [Proc -> BOOLEAN]
  /\ tmp \in [Proc -> SUBSET Channel]

(* HOSTOVR lets a channel run exactly when its process has started it: no  *)
(* process's write loses what another has written, and no process resets   *)
(* the controller under the others.  A channel that can be given away does *)
(* not run, whoever had it before.                                         *)
HostMatches ==
  /\ TypeOK
  /\ \A p \in Proc : (where[p] = "out" /\ ch[p] # None) => (ch[p] \in HOSTOVR <=> started[p])
  /\ free \cap HOSTOVR = {}

(* A call that was begun ends: no mutex is left locked, and no failure     *)
(* leaves the library half started.                                        *)
CallsEnd == \A p \in Proc : where[p] # "out" ~> where[p] = "out"
=============================================================================
