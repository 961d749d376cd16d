------------------------------ MODULE SdmaCmd ------------------------------
(***************************************************************************)
(* The command channel of the SDMA library (lib/dma/sdma/cmd.c, irq.c).    *)
(* To load the context of a channel a process takes a mutex shared by all, *)
(* asks for the interrupt of channel 0, fills the one descriptor, starts   *)
(* the channel and waits for a pulse, for a second at most.                *)
(*                                                                         *)
(* Each process has a handler on the interrupt line; a handler serves the  *)
(* channels in its own mask.  The line stays raised while INTR is not      *)
(* clear.  A process loads one channel, again and again; `by' remembers    *)
(* whose command raised the interrupt.                                     *)
(***************************************************************************)
EXTENDS Naturals

CONSTANTS Proc, None,
          MaxPulses  \* bound: pulses of late commands a process has not received

ASSUME CmdAssumption == None \notin Proc /\ MaxPulses \in Nat \ {0}

VARIABLES
  command_mutex,    \* its holder
  mask, event,      \* per process: channel_mask and event_array at channel 0
  cmdPulses,        \* per process: pulses in cmd_chid
  where, said,      \* per process: how far its call is; what the last returned
  bd,               \* whose context the descriptor names
  HSTART, running,  \* channel 0 is to run; the command it runs (external)
  by,               \* INTR bit 0: None, or whose command raised it
  loaded,           \* the contexts in the controller that are up to date
  late              \* a command has taken longer than SDMA_CMD_TIMOUT_NS

os   == <<command_mutex, mask, event, cmdPulses>>
sdma == <<HSTART, running, by, loaded>>
cmdVars == <<os, where, said, bd, sdma, late>>

CmdInit ==
  /\ command_mutex = None
  /\ mask = [p \in Proc |-> FALSE] /\ event = [p \in Proc |-> FALSE]
  /\ cmdPulses = [p \in Proc |-> 0]
  /\ where = [p \in Proc |-> "out"] /\ said = [p \in Proc |-> "nothing"]
  /\ bd = None /\ HSTART = FALSE /\ running = None /\ by = None /\ loaded = {}
  /\ late = FALSE

Goes(p, from, to) == where[p] = from /\ where' = [where EXCEPT ![p] = to]

(* Mutant: the mutex is not waited for.                                    *)
MayLockAny == TRUE

MayLock == command_mutex = None

(* sdmacmd_ctx_load is called with a new image of the context: the one in  *)
(* the controller is stale.                                                *)
Call(p) ==
  /\ loaded' = loaded \ {p}
  /\ said' = [said EXCEPT ![p] = "nothing"]
  /\ Goes(p, "out", "lock")
  /\ UNCHANGED <<os, bd, HSTART, running, by, late>>

Lock(p) ==
  /\ MayLock /\ command_mutex' = p
  /\ Goes(p, "lock", "mask")
  /\ UNCHANGED <<mask, event, cmdPulses, said, bd, sdma, late>>

(* sdmairq_event_add, in its order.                                        *)
AddMask(p) ==
  /\ mask' = [mask EXCEPT ![p] = TRUE]
  /\ Goes(p, "mask", "event")
  /\ UNCHANGED <<command_mutex, event, cmdPulses, said, bd, sdma, late>>

AddEvent(p) ==
  /\ event' = [event EXCEPT ![p] = TRUE]
  /\ Goes(p, "event", "descriptor")
  /\ UNCHANGED <<command_mutex, mask, cmdPulses, said, bd, sdma, late>>

WriteDescriptor(p) ==
  /\ bd' = p
  /\ Goes(p, "descriptor", "start")
  /\ UNCHANGED <<os, said, sdma, late>>

Start(p) ==
  /\ HSTART' = TRUE
  /\ Goes(p, "start", "wait")
  /\ UNCHANGED <<os, said, bd, running, by, loaded, late>>

Receive(p) ==
  /\ cmdPulses[p] > 0
  /\ cmdPulses' = [cmdPulses EXCEPT ![p] = @ - 1]
  /\ said' = [said EXCEPT ![p] = "loaded"]
  /\ Goes(p, "wait", "unmask")
  /\ UNCHANGED <<command_mutex, mask, event, bd, sdma, late>>

(* A pulse that is there would have been received.                         *)
TimesOut(p) ==
  /\ cmdPulses[p] = 0 /\ late' = TRUE
  /\ said' = [said EXCEPT ![p] = "failed"]
  /\ Goes(p, "wait", "unmask")
  /\ UNCHANGED <<os, bd, sdma>>

(* Mutant: the interrupt stays asked for.                                  *)
KeepMask(p) == mask

Unmasked(p) == [mask EXCEPT ![p] = FALSE]

(* sdmairq_event_remove.                                                   *)
ClearMask(p) ==
  /\ mask' = Unmasked(p)
  /\ Goes(p, "unmask", "unevent")
  /\ UNCHANGED <<command_mutex, event, cmdPulses, said, bd, sdma, late>>

ClearEvent(p) ==
  /\ event' = [event EXCEPT ![p] = FALSE]
  /\ Goes(p, "unevent", "unlock")
  /\ UNCHANGED <<command_mutex, mask, cmdPulses, said, bd, sdma, late>>

(* Mutant: a call that failed keeps the mutex.                             *)
ReleasedIfLoaded(p) == IF said[p] = "loaded" THEN None ELSE p

Released(p) == None

Unlock(p) ==
  /\ command_mutex' = Released(p)
  /\ Goes(p, "unlock", "out")
  /\ UNCHANGED <<mask, event, cmdPulses, said, bd, sdma, late>>
-----------------------------------------------------------------------------
(* irq_handler of process p.                                               *)
Interrupt(p) ==
  /\ by # None /\ mask[p] /\ cmdPulses[p] < MaxPulses
  /\ by' = None
  /\ cmdPulses' = [cmdPulses EXCEPT ![p] = IF event[p] THEN @ + 1 ELSE @]
  /\ UNCHANGED <<command_mutex, mask, event, where, said, bd, HSTART, running, loaded, late>>

(* The engine (external): it fetches the descriptor when it comes to       *)
(* channel 0, which realtime streams can delay, and raises INTR at the end.*)
EngineFetches ==
  /\ HSTART /\ running = None
  /\ HSTART' = FALSE /\ running' = bd
  /\ UNCHANGED <<os, where, said, bd, by, loaded, late>>

EngineEnds ==
  /\ running # None
  /\ loaded' = loaded \cup {running} /\ by' = running /\ running' = None
  /\ UNCHANGED <<os, where, said, bd, HSTART, late>>

Process(p) ==
  AddMask(p) \/ AddEvent(p) \/ WriteDescriptor(p) \/ Start(p) \/ Receive(p) \/ TimesOut(p)
  \/ ClearMask(p) \/ ClearEvent(p) \/ Unlock(p)

CmdNext ==
  \/ \E p \in Proc : Call(p) \/ Lock(p) \/ Process(p) \/ Interrupt(p)
  \/ EngineFetches \/ EngineEnds

CmdSpec == CmdInit /\ [][CmdNext]_cmdVars

(* Threads run, the engine ends its commands, and whoever waits for the    *)
(* mutex gets it when it is let go again and again.                        *)
CmdFairness ==
  /\ \A p \in Proc : WF_cmdVars(Process(p)) /\ WF_cmdVars(Interrupt(p)) /\ SF_cmdVars(Lock(p))
  /\ WF_cmdVars(EngineFetches) /\ WF_cmdVars(EngineEnds)

CmdFairSpec == CmdSpec /\ CmdFairness
-----------------------------------------------------------------------------
Inside == {"lock", "mask", "event", "descriptor", "start", "wait", "unmask", "unevent", "unlock"}

(* Every variable has its type; no process has more pulses than the bound. *)
CmdTypeOK ==
  /\ command_mutex \in Proc \cup {None}
  /\ mask \in [Proc -> BOOLEAN] /\ event \in [Proc -> BOOLEAN]
  /\ cmdPulses \in [Proc -> 0 .. MaxPulses]
  /\ where \in [Proc -> Inside \cup {"out"}]
  /\ said \in [Proc -> {"nothing", "loaded", "failed"}]
  /\ bd \in Proc \cup {None} /\ HSTART \in BOOLEAN /\ running \in Proc \cup {None}
  /\ by \in Proc \cup {None} /\ loaded \subseteq Proc

(* "Wait for Command Completion": sdmacmd_ctx_load returns 0 only when the *)
(* image of this call is in the controller - until a command was late, for *)
(* its pulse then ends the wait of a later call.                           *)
LoadedWhenSaid == ~late => \A p \in Proc : said[p] = "loaded" => p \in loaded

(* Whoever asks for the interrupt of channel 0 holds the mutex, late       *)
(* commands or not: two handlers never compete for it.  Until a command    *)
(* was late, a raised line finds the process that clears it; one nobody    *)
(* claims would interrupt for ever.                                        *)
OneListener ==
  /\ CmdTypeOK
  /\ \A p \in Proc : mask[p] \/ event[p] => command_mutex = p
  /\ (~late /\ by # None) => mask[by]

(* Every call ends, with a timeout if need be, those that wait for the     *)
(* mutex follow, and when nothing is late the context is loaded.           *)
CallsEnd ==
  \A p \in Proc : where[p] # "out" ~> where[p] = "out" /\ (said[p] = "loaded" \/ late)
=============================================================================
