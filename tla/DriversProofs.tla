--------------------------- MODULE DriversProofs ----------------------------
(***************************************************************************)
(* Proofs about the drivers that MCDrivers composes: the touch screen of   *)
(* the MC13892, the command channel of the SDMA engine, the locks of       *)
(* spi-master and the transfers of the SPI driver.  Each has its invariant *)
(* and its theorems.                                                       *)
(***************************************************************************)
EXTENDS McTouch, SdmaCmd, SpiMaster, SpiXfer, FiniteSets, FiniteSetTheorems, SequenceTheorems,
        TLAPS

(***************************************************************************)
(* Proofs of the safety properties of McTouch, for every number of timer   *)
(* pulses.  The invariant adds who holds the mutex, and says of a press    *)
(* that was reported what still watches it at every step, not only when    *)
(* both threads are at rest.                                               *)
(***************************************************************************)

Steps == {"lock", "convert", "leave", "unmask"}

Typed ==
  /\ finger \in {"up", "down"} /\ mode \in {"interrupt", "position"} /\ TSI \in BOOLEAN
  /\ masked \in Nat /\ pulses \in {0, 1}
  /\ timer \in BOOLEAN /\ buttons \in {"none", LEFT}
  /\ emitted.buttons = buttons /\ emitted.at = last
  /\ intr \in Steps \cup {"receive"} /\ poll \in Steps \cup {"out"}
  /\ pulses = 1 => intr = "receive"

Bounded == ticks \in Nat /\ ticks <= MaxTimerPulses

Holds ==
  /\ (mutex = "intr") <=> (intr \in {"convert", "leave"})
  /\ (mutex = "poll") <=> (poll \in {"convert", "leave"})

Watched ==
  buttons = LEFT =>
    \/ timer \/ ticks > 0 \/ pulses > 0
    \/ intr \in {"lock", "convert"} \/ poll \in {"lock", "convert"}

TouchInv == Typed /\ Bounded /\ Holds /\ MaskBalanced /\ ModeOwned /\ Watched

(* The bound is a positive number.                                         *)
LEMMA BoundPositive == MaxTimerPulses \in Nat /\ MaxTimerPulses >= 1
  BY TouchAssumption

(* The invariant holds initially.                                          *)
LEMMA InvInit == Init => TouchInv
  <1>. SUFFICES ASSUME Init PROVE TouchInv
    OBVIOUS
  <1>1. Typed
    BY DEF Init, Typed, Steps, LEFT
  <1>4. Bounded
    BY BoundPositive DEF Init, Bounded
  <1>2. Holds /\ ModeOwned /\ Watched
    BY DEF Init, Holds, ModeOwned, Watched, LEFT
  <1>3. MaskBalanced
    BY DEF Init, MaskBalanced
  <1>. QED
    BY <1>1, <1>2, <1>3, <1>4 DEF TouchInv

(* What a conversion leaves keeps the types, and starts the timer when the *)
(* button is down.                                                         *)
LEMMA ReportKeeps ==
  ASSUME Typed, Report
  PROVE  /\ buttons' \in {"none", LEFT} /\ timer' \in BOOLEAN
         /\ emitted'.buttons = buttons' /\ emitted'.at = last'
         /\ buttons' = LEFT => timer'
  <1>1. PICK s \in Samples :
          /\ buttons' = Processed(s).buttons /\ last' = Processed(s).at
          /\ emitted' = Processed(s)
          /\ timer' = (timer \/ Restarts(Processed(s)))
    BY DEF Report
  <1>2. s \in {"lifted", "spread", "half", "point", "jump"}
    BY DEF Samples
  <1>3. Processed(s).buttons \in {"none", LEFT}
    BY <1>2 DEF Processed, Typed
  <1>. QED
    BY <1>1, <1>3 DEF Restarts, LEFT, Typed

(* Every step keeps the invariant.                                         *)
LEMMA InvStep == TouchInv /\ [Next]_vars => TouchInv'
  <1>. SUFFICES ASSUME TouchInv, [Next]_vars PROVE TouchInv'
    OBVIOUS
  <1>. USE DEF TouchInv, Typed, Bounded, Holds, MaskBalanced, ModeOwned, Watched,
      Steps, LEFT
  <1>1. CASE Finger
    BY <1>1 DEF Finger
  <1>2. CASE HwInterrupt
    BY <1>2 DEF HwInterrupt, hwVars
  <1>3. CASE Expire
    <2>1. Bounded' /\ ticks' > 0
      BY <1>3, BoundPositive DEF Expire
    <2>2. timer' \in BOOLEAN
      BY <1>3 DEF Expire
    <2>. QED
      BY <1>3, <2>1, <2>2 DEF Expire, hwVars
  <1>4. CASE IntrReceive
    BY <1>4 DEF IntrReceive, hwVars
  <1>5. CASE IntrLock
    BY <1>5 DEF IntrLock, MayEnter
  <1>6. CASE IntrReport
    <2>1. /\ buttons' \in {"none", LEFT} /\ timer' \in BOOLEAN
          /\ emitted'.buttons = buttons' /\ emitted'.at = last'
          /\ buttons' = LEFT => timer'
      BY <1>6, ReportKeeps DEF IntrReport
    <2>. QED
      BY <1>6, <2>1 DEF IntrReport, hwVars
  <1>7. CASE IntrLeave
    BY <1>7 DEF IntrLeave, Leave
  <1>8. CASE IntrUnmask
    BY <1>8 DEF IntrUnmask, hwVars
  <1>9. CASE PollMask
    <2>1. Bounded'
      BY <1>9, BoundPositive DEF PollMask
    <2>2. Typed' /\ Holds' /\ MaskBalanced' /\ ModeOwned' /\ Watched'
      BY <1>9 DEF PollMask, hwVars
    <2>. QED
      BY <2>1, <2>2
  <1>10. CASE PollLock
    BY <1>10 DEF PollLock, MayEnter
  <1>11. CASE PollReport
    <2>1. /\ buttons' \in {"none", LEFT} /\ timer' \in BOOLEAN
          /\ emitted'.buttons = buttons' /\ emitted'.at = last'
          /\ buttons' = LEFT => timer'
      BY <1>11, ReportKeeps DEF PollReport
    <2>. QED
      BY <1>11, <2>1 DEF PollReport, hwVars
  <1>12. CASE PollLeave
    BY <1>12 DEF PollLeave, Leave
  <1>13. CASE PollUnmask
    BY <1>13 DEF PollUnmask, UnmaskOne, hwVars
  <1>14. CASE UNCHANGED vars
    BY <1>14 DEF vars, hwVars
  <1>. QED
    BY <1>1, <1>2, <1>3, <1>4, <1>5, <1>6, <1>7, <1>8, <1>9, <1>10, <1>11, <1>12, <1>13,
       <1>14 DEF Next, IntrStep, PollStep

(* The invariant holds of every behaviour.                                 *)
THEOREM TouchInvariant == Spec => []TouchInv
  <1>1. Init => TouchInv
    BY InvInit
  <1>2. TouchInv /\ [Next]_vars => TouchInv'
    BY InvStep
  <1>. QED
    BY <1>1, <1>2, PTL DEF Spec

(* Variables keep their types: masks nest twice at most and one interrupt  *)
(* is on its way, however the threads, the pen and the timer interleave.   *)
THEOREM TouchTypeCorrect == Spec => []TypeOK
  <1>1. TouchInv => TypeOK
    BY BoundPositive DEF TouchInv, Typed, Bounded, MaskBalanced, TypeOK, Holds, Steps
  <1>. QED
    BY <1>1, TouchInvariant, PTL

(* Each thread takes back its own level of masking of intr_thread's        *)
(* interrupt.                                                              *)
THEOREM MaskCorrect == Spec => []MaskBalanced
  <1>1. TouchInv => MaskBalanced
    BY DEF TouchInv
  <1>. QED
    BY <1>1, TouchInvariant, PTL

(* The controller stays in position mode during every conversion.          *)
THEOREM ModeCorrect == Spec => []ModeOwned
  <1>1. TouchInv => ModeOwned
    BY DEF TouchInv
  <1>. QED
    BY <1>1, TouchInvariant, PTL

(* A press that was reported is watched by the timer or a pulse whenever   *)
(* intr_thread and touch_pulse are both at rest.                           *)
THEOREM PressCorrect == Spec => []PressWatched
  <1>1. TouchInv => PressWatched
    BY DEF TouchInv, Watched, PressWatched, Typed, Bounded, LEFT
  <1>. QED
    BY <1>1, TouchInvariant, PTL

-----------------------------------------------------------------------------
-----------------------------------------------------------------------------
(***************************************************************************)
(* Proofs about the command channel, for any number of processes: who      *)
(* asks for its interrupt holds the mutex, and, until a command is late,   *)
(* success means that the context is loaded.  The invariant ties the mask, *)
(* the event and the mutex to the place of each call, and says of the one  *)
(* call that waits how far its command has come: to be fetched, running,   *)
(* its interrupt raised, or its pulse sent - one of these and once.        *)
(***************************************************************************)

Masked  == {"event", "descriptor", "start", "wait", "unmask"}
Evented == {"descriptor", "start", "wait", "unmask", "unevent"}
PastLock  == Inside \ {"lock"}

(* The place of a call tells what it holds.                                *)
Held ==
  \A p \in Proc :
    /\ command_mutex = p <=> where[p] \in PastLock
    /\ mask[p] <=> where[p] \in Masked
    /\ event[p] <=> where[p] \in Evented
    /\ where[p] = "start" => bd = p

NoPulse == \A q \in Proc : cmdPulses[q] = 0
Resting == ~HSTART /\ running = None /\ by = None

(* The command of p, which waits for it.                                   *)
UnderWay(p) ==
  \/ HSTART /\ running = None /\ by = None /\ bd = p /\ NoPulse
  \/ ~HSTART /\ running = p /\ by = None /\ NoPulse
  \/ ~HSTART /\ running = None /\ by = p /\ p \in loaded /\ NoPulse
  \/ Resting /\ p \in loaded /\ \A q \in Proc : cmdPulses[q] = IF q = p THEN 1 ELSE 0

CmdHandover ==
  ~late =>
    /\ \A p \in Proc : where[p] = "wait" => UnderWay(p)
    /\ (\A p \in Proc : where[p] # "wait") => Resting /\ NoPulse
    /\ \A p \in Proc : said[p] = "loaded" => p \in loaded

CmdInv == CmdTypeOK /\ late \in BOOLEAN /\ Held /\ CmdHandover

(* No process has called yet.                                              *)
LEMMA CmdStarts == CmdInit => CmdInv
  <1>. SUFFICES ASSUME CmdInit PROVE CmdInv
    OBVIOUS
  <1>1. CmdTypeOK /\ late \in BOOLEAN
    <2>1. 0 \in 0 .. MaxPulses
      BY CmdAssumption
    <2>. QED
      BY <2>1 DEF CmdInit, CmdTypeOK
  <1>2. Held
    BY CmdAssumption DEF CmdInit, Held, PastLock, Inside, Masked, Evented
  <1>3. CmdHandover
    BY CmdAssumption DEF CmdInit, CmdHandover, Resting, NoPulse
  <1>. QED
    BY <1>1, <1>2, <1>3 DEF CmdInv

(* The types, for every step.                                              *)
LEMMA TypeKept ==
  ASSUME CmdTypeOK, late \in BOOLEAN, CmdNext
  PROVE  CmdTypeOK' /\ late' \in BOOLEAN
  <1>. USE CmdAssumption DEF CmdTypeOK, Inside, Goes
  <1>1. ASSUME NEW p \in Proc, Call(p) PROVE CmdTypeOK' /\ late' \in BOOLEAN
    BY <1>1 DEF Call, os
  <1>2. ASSUME NEW p \in Proc, Lock(p) PROVE CmdTypeOK' /\ late' \in BOOLEAN
    BY <1>2 DEF Lock, sdma
  <1>3. ASSUME NEW p \in Proc, AddMask(p) PROVE CmdTypeOK' /\ late' \in BOOLEAN
    BY <1>3 DEF AddMask, sdma
  <1>4. ASSUME NEW p \in Proc, AddEvent(p) PROVE CmdTypeOK' /\ late' \in BOOLEAN
    BY <1>4 DEF AddEvent, sdma
  <1>5. ASSUME NEW p \in Proc, WriteDescriptor(p) PROVE CmdTypeOK' /\ late' \in BOOLEAN
    BY <1>5 DEF WriteDescriptor, os, sdma
  <1>6. ASSUME NEW p \in Proc, Start(p) PROVE CmdTypeOK' /\ late' \in BOOLEAN
    BY <1>6 DEF Start, os
  <1>7. ASSUME NEW p \in Proc, Receive(p) PROVE CmdTypeOK' /\ late' \in BOOLEAN
    BY <1>7 DEF Receive, sdma
  <1>8. ASSUME NEW p \in Proc, TimesOut(p) PROVE CmdTypeOK' /\ late' \in BOOLEAN
    BY <1>8 DEF TimesOut, os, sdma
  <1>9. ASSUME NEW p \in Proc, ClearMask(p) PROVE CmdTypeOK' /\ late' \in BOOLEAN
    BY <1>9 DEF ClearMask, Unmasked, sdma
  <1>10. ASSUME NEW p \in Proc, ClearEvent(p) PROVE CmdTypeOK' /\ late' \in BOOLEAN
    BY <1>10 DEF ClearEvent, sdma
  <1>11. ASSUME NEW p \in Proc, Unlock(p) PROVE CmdTypeOK' /\ late' \in BOOLEAN
    BY <1>11 DEF Unlock, Released, sdma
  <1>12. ASSUME NEW p \in Proc, Interrupt(p) PROVE CmdTypeOK' /\ late' \in BOOLEAN
    BY <1>12 DEF Interrupt
  <1>13. CASE EngineFetches \/ EngineEnds
    BY <1>13 DEF EngineFetches, EngineEnds, os
  <1>. QED
    BY <1>1, <1>2, <1>3, <1>4, <1>5, <1>6, <1>7, <1>8, <1>9, <1>10, <1>11, <1>12, <1>13
    DEF CmdNext, Process

(* What each call holds, for every step.                                   *)
LEMMA HeldKept ==
  ASSUME CmdTypeOK, Held, CmdNext
  PROVE  Held'
  <1>. USE CmdAssumption DEF CmdTypeOK, Held, Goes, Inside, PastLock, Masked, Evented
  <1>1. ASSUME NEW p \in Proc, Call(p) PROVE Held'
    BY <1>1 DEF Call, os
  <1>2. ASSUME NEW p \in Proc, Lock(p) PROVE Held'
    BY <1>2 DEF Lock, MayLock, sdma
  <1>3. ASSUME NEW p \in Proc, AddMask(p) PROVE Held'
    BY <1>3 DEF AddMask, sdma
  <1>4. ASSUME NEW p \in Proc, AddEvent(p) PROVE Held'
    BY <1>4 DEF AddEvent, sdma
  <1>5. ASSUME NEW p \in Proc, WriteDescriptor(p) PROVE Held'
    BY <1>5 DEF WriteDescriptor, os, sdma
  <1>6. ASSUME NEW p \in Proc, Start(p) PROVE Held'
    BY <1>6 DEF Start, os
  <1>7. ASSUME NEW p \in Proc, Receive(p) PROVE Held'
    BY <1>7 DEF Receive, sdma
  <1>8. ASSUME NEW p \in Proc, TimesOut(p) PROVE Held'
    BY <1>8 DEF TimesOut, os, sdma
  <1>9. ASSUME NEW p \in Proc, ClearMask(p) PROVE Held'
    BY <1>9 DEF ClearMask, Unmasked, sdma
  <1>10. ASSUME NEW p \in Proc, ClearEvent(p) PROVE Held'
    BY <1>10 DEF ClearEvent, sdma
  <1>11. ASSUME NEW p \in Proc, Unlock(p) PROVE Held'
    BY <1>11 DEF Unlock, Released, sdma
  <1>12. CASE (\E p \in Proc : Interrupt(p)) \/ EngineFetches \/ EngineEnds
    BY <1>12 DEF Interrupt, EngineFetches, EngineEnds, os
  <1>. QED
    BY <1>1, <1>2, <1>3, <1>4, <1>5, <1>6, <1>7, <1>8, <1>9, <1>10, <1>11, <1>12
    DEF CmdNext, Process

(* Two processes are never both past the mutex.                            *)
LEMMA Alone ==
  ASSUME CmdTypeOK, Held, NEW p \in Proc, NEW q \in Proc, where[p] \in PastLock,
         where[q] \in PastLock
  PROVE  p = q
  BY DEF Held

(* Whoever is on the way of a command is the one that waits.               *)
LEMMA Waits ==
  ASSUME CmdHandover, ~late, HSTART \/ running # None \/ by # None
  PROVE  \E p \in Proc : where[p] = "wait" /\ UnderWay(p)
  BY DEF CmdHandover, Resting

(* A step of p that neither begins nor ends a wait.  The descriptor is     *)
(* written by a call that holds the mutex, while nobody waits.             *)
LEMMA AwayFromWait ==
  ASSUME CmdInv, NEW p \in Proc, where[p] # "wait", where'[p] # "wait",
         \A q \in Proc \ {p} : where'[q] = where[q],
         bd' = bd \/ where[p] \in PastLock,
         UNCHANGED <<cmdPulses, HSTART, running, by, late>>,
         \A q \in Proc \ {p} : said'[q] = said[q] /\ (q \in loaded' <=> q \in loaded),
         said'[p] = "loaded" => said[p] = "loaded" /\ loaded' = loaded
  PROVE  CmdHandover'
  <1>. SUFFICES ASSUME ~late PROVE CmdHandover'
    BY DEF CmdHandover
  <1>1. \A q \in Proc : where'[q] = "wait" <=> where[q] = "wait"
    OBVIOUS
  <1>2. \A q \in Proc : where'[q] = "wait" => UnderWay(q)'
    <2>. SUFFICES ASSUME NEW q \in Proc, where[q] = "wait" PROVE UnderWay(q)'
      BY <1>1
    <2>1. q # p /\ bd' = bd
      BY Alone DEF CmdInv, PastLock, Inside
    <2>. QED
      BY <2>1 DEF CmdInv, CmdHandover, UnderWay, Resting, NoPulse
  <1>3. (\A q \in Proc : where'[q] # "wait") => Resting' /\ NoPulse'
    BY <1>1 DEF CmdInv, CmdHandover, Resting, NoPulse
  <1>4. \A q \in Proc : said'[q] = "loaded" => q \in loaded'
    BY DEF CmdInv, CmdHandover
  <1>. QED
    BY <1>2, <1>3, <1>4 DEF CmdHandover

(* The steps of a call that leave its command alone, if it has one.        *)
LEMMA CallAway ==
  ASSUME CmdInv, NEW p \in Proc,
         Call(p) \/ Lock(p) \/ AddMask(p) \/ AddEvent(p) \/ WriteDescriptor(p)
         \/ ClearMask(p) \/ ClearEvent(p) \/ Unlock(p)
  PROVE  CmdHandover'
  <1>1. CASE Call(p)
    <2>1. said'[p] = "nothing" /\ loaded' = loaded \ {p} /\ \A q \in Proc \ {p} : said'[q] = said[q]
      BY <1>1 DEF CmdInv, CmdTypeOK, Call
    <2>2. /\ where[p] = "out" /\ where'[p] = "lock" /\ \A q \in Proc \ {p} : where'[q] = where[q]
          /\ UNCHANGED <<cmdPulses, bd, HSTART, running, by, late>>
      BY <1>1 DEF CmdInv, CmdTypeOK, Call, Goes, os
    <2>. QED
      BY <2>1, <2>2, AwayFromWait
  <1>2. CASE Lock(p) \/ AddMask(p) \/ AddEvent(p) \/ ClearMask(p) \/ ClearEvent(p) \/ Unlock(p)
    <2>1. /\ where[p] # "wait" /\ where'[p] # "wait" /\ \A q \in Proc \ {p} : where'[q] = where[q]
          /\ UNCHANGED <<cmdPulses, bd, said, sdma, late>>
      BY <1>2 DEF CmdInv, CmdTypeOK, Lock, AddMask, AddEvent, ClearMask, ClearEvent,
         Unlock, Goes
    <2>. QED
      BY <2>1, AwayFromWait DEF sdma
  <1>3. CASE WriteDescriptor(p)
    <2>1. /\ where[p] = "descriptor" /\ where'[p] = "start"
          /\ \A q \in Proc \ {p} : where'[q] = where[q]
          /\ UNCHANGED <<cmdPulses, said, sdma, late>>
      BY <1>3 DEF CmdInv, CmdTypeOK, WriteDescriptor, Goes, os
    <2>. QED
      BY <2>1, AwayFromWait DEF sdma, PastLock, Inside
  <1>. QED
    BY <1>1, <1>2, <1>3

(* The wait begins: the command is the caller's, and the only one.         *)
LEMMA StartKept ==
  ASSUME CmdInv, NEW p \in Proc, Start(p)
  PROVE  CmdHandover'
  <1>. SUFFICES ASSUME ~late PROVE CmdHandover'
    BY DEF Start, CmdHandover
  <1>1. /\ where[p] = "start" /\ where'[p] = "wait" /\ \A q \in Proc \ {p} : where'[q] = where[q]
        /\ HSTART' = TRUE /\ UNCHANGED <<cmdPulses, said, bd, running, by, loaded, late>>
    BY DEF CmdInv, CmdTypeOK, Start, Goes, os
  <1>2. \A q \in Proc : where[q] # "wait"
    BY <1>1, Alone DEF CmdInv, PastLock, Inside
  <1>3. Resting /\ NoPulse /\ bd = p
    BY <1>1, <1>2 DEF CmdInv, CmdHandover, Held
  <1>4. UnderWay(p)'
    BY <1>1, <1>3 DEF UnderWay, Resting, NoPulse
  <1>5. \A q \in Proc : where'[q] = "wait" => q = p
    BY <1>1, <1>2
  <1>. QED
    BY <1>1, <1>4, <1>5 DEF CmdInv, CmdHandover

(* The wait ends, with a pulse or too early.                               *)
LEMMA WaitEnds ==
  ASSUME CmdInv, NEW p \in Proc, Receive(p) \/ TimesOut(p)
  PROVE  CmdHandover'
  <1>1. CASE TimesOut(p)
    BY <1>1 DEF TimesOut, CmdHandover
  <1>2. CASE Receive(p)
    <2>. SUFFICES ASSUME ~late PROVE CmdHandover'
      BY <1>2 DEF Receive, CmdHandover
    <2>1. /\ where[p] = "wait" /\ where'[p] = "unmask" /\ \A q \in Proc \ {p} : where'[q] = where[q]
          /\ said'[p] = "loaded" /\ \A q \in Proc \ {p} : said'[q] = said[q]
          /\ cmdPulses[p] > 0 /\ cmdPulses' = [cmdPulses EXCEPT ![p] = @ - 1]
          /\ UNCHANGED sdma
      BY <1>2 DEF CmdInv, CmdTypeOK, Receive, Goes
    <2>2. Resting /\ p \in loaded /\ \A q \in Proc : cmdPulses[q] = IF q = p THEN 1 ELSE 0
      BY <2>1 DEF CmdInv, CmdHandover, UnderWay, NoPulse
    <2>3. NoPulse'
      BY <2>1, <2>2 DEF CmdInv, CmdTypeOK, NoPulse
    <2>4. \A q \in Proc : where'[q] # "wait"
      BY <2>1, Alone DEF CmdInv, PastLock, Inside
    <2>5. \A q \in Proc : said'[q] = "loaded" => q \in loaded'
      BY <2>1, <2>2 DEF CmdInv, CmdHandover, sdma
    <2>. QED
      BY <2>1, <2>2, <2>3, <2>4, <2>5 DEF CmdHandover, Resting, sdma
  <1>. QED
    BY <1>1, <1>2

(* The interrupt reaches the process that waits.                           *)
LEMMA InterruptKept ==
  ASSUME CmdInv, NEW q \in Proc, Interrupt(q)
  PROVE  CmdHandover'
  <1>. SUFFICES ASSUME ~late PROVE CmdHandover'
    BY DEF Interrupt, CmdHandover
  <1>1. PICK p \in Proc : where[p] = "wait" /\ UnderWay(p)
    BY Waits DEF CmdInv, Interrupt
  <1>2. q = p /\ event[p]
    BY <1>1, Alone DEF CmdInv, Interrupt, Held, Masked, Evented, PastLock, Inside
  <1>3. ~HSTART /\ running = None /\ p \in loaded /\ NoPulse
    BY <1>1 DEF Interrupt, UnderWay, Resting
  <1>4. /\ by' = None /\ cmdPulses' = [cmdPulses EXCEPT ![p] = @ + 1]
        /\ UNCHANGED <<where, said, HSTART, running, loaded, late>>
    BY <1>2 DEF Interrupt
  <1>5. UnderWay(p)'
    BY <1>3, <1>4 DEF CmdInv, CmdTypeOK, UnderWay, Resting, NoPulse
  <1>6. \A r \in Proc : where'[r] = "wait" => r = p
    BY <1>1, <1>4, Alone DEF CmdInv, PastLock, Inside
  <1>. QED
    BY <1>1, <1>4, <1>5, <1>6 DEF CmdInv, CmdHandover

(* The engine runs the command of the process that waits.                  *)
LEMMA EngineKept ==
  ASSUME CmdInv, EngineFetches \/ EngineEnds
  PROVE  CmdHandover'
  <1>. SUFFICES ASSUME ~late PROVE CmdHandover'
    BY DEF EngineFetches, EngineEnds, CmdHandover
  <1>1. PICK p \in Proc : where[p] = "wait" /\ UnderWay(p)
    BY Waits DEF CmdInv, EngineFetches, EngineEnds
  <1>2. UnderWay(p)'
    <2>1. CASE EngineFetches
      BY <1>1, <2>1, CmdAssumption DEF EngineFetches, os, UnderWay, Resting, NoPulse
    <2>2. CASE EngineEnds
      BY <1>1, <2>2, CmdAssumption DEF EngineEnds, os, UnderWay, Resting, NoPulse
    <2>. QED
      BY <2>1, <2>2
  <1>3. \A r \in Proc : where'[r] = "wait" => r = p
    BY <1>1, Alone DEF CmdInv, PastLock, Inside, EngineFetches, EngineEnds
  <1>4. \A r \in Proc : said'[r] = "loaded" => r \in loaded'
    BY DEF CmdInv, CmdHandover, EngineFetches, EngineEnds
  <1>5. where' = where
    BY DEF EngineFetches, EngineEnds
  <1>. QED
    BY <1>1, <1>2, <1>3, <1>4, <1>5 DEF CmdHandover

(* The inductive invariant of the command channel.                         *)
THEOREM CmdInvariant == CmdSpec => []CmdInv
  <1>1. CmdInv /\ [CmdNext]_cmdVars => CmdInv'
    <2>. SUFFICES ASSUME CmdInv, [CmdNext]_cmdVars PROVE CmdInv'
      OBVIOUS
    <2>1. CASE UNCHANGED cmdVars
      BY <2>1 DEF cmdVars, os, sdma, CmdInv, CmdTypeOK, Held, CmdHandover, UnderWay,
         Resting, NoPulse
    <2>2. CASE CmdNext
      <3>1. CmdTypeOK' /\ late' \in BOOLEAN /\ Held'
        BY <2>2, TypeKept, HeldKept DEF CmdInv
      <3>2. CmdHandover'
        BY <2>2, CallAway, StartKept, WaitEnds, InterruptKept, EngineKept
           DEF CmdNext, Process
      <3>. QED
        BY <3>1, <3>2 DEF CmdInv
    <2>. QED
      BY <2>1, <2>2
  <1>. QED
    BY <1>1, CmdStarts, PTL DEF CmdSpec

(* Two handlers never compete for the interrupt of channel 0, and until a  *)
(* command was late a raised line finds its process (sdmairq_event_add,    *)
(* sdmairq_event_remove, irq_handler).                                     *)
THEOREM ListenerCorrect == CmdSpec => []OneListener
  <1>1. CmdInv => OneListener
    <2>. SUFFICES ASSUME CmdInv PROVE OneListener
      OBVIOUS
    <2>1. \A p \in Proc : mask[p] \/ event[p] => command_mutex = p
      BY DEF CmdInv, Held, Masked, Evented, PastLock, Inside
    <2>2. ASSUME ~late, by # None PROVE mask[by]
      <3>1. PICK p \in Proc : where[p] = "wait" /\ UnderWay(p)
        BY <2>2, Waits DEF CmdInv
      <3>. QED
        BY <2>2, <3>1 DEF CmdInv, Held, Masked, UnderWay, Resting
    <2>. QED
      BY <2>1, <2>2 DEF CmdInv, OneListener
  <1>. QED
    BY <1>1, CmdInvariant, PTL

(* sdmacmd_ctx_load returns 0 only when the image of this call is in the   *)
(* controller, until a command was late.                                   *)
THEOREM LoadedCorrect == CmdSpec => []LoadedWhenSaid
  <1>1. CmdInv => LoadedWhenSaid
    BY DEF CmdInv, CmdHandover, LoadedWhenSaid
  <1>. QED
    BY <1>1, CmdInvariant, PTL

-----------------------------------------------------------------------------
-----------------------------------------------------------------------------
(***************************************************************************)
(* SpiMaster, for any clients and chips: LockExcludes is inductive.  What  *)
(* close leaves of the list is found by induction over the locks it takes  *)
(* away.                                                                   *)
(***************************************************************************)

ChipLock == [owner : Clients, device : Ids]

Matches(l, c, d) == (l.device = d \/ d = NONE) /\ Own(l, c)

(* A list of locks in which every chip is locked once.                     *)
OnceEach(s) ==
  /\ s \in Seq(ChipLock)
  /\ \A i, j \in DOMAIN s : s[i].device = s[j].device => i = j

(* Every lock of t is one of s.                                            *)
Within(t, s) == \A i \in DOMAIN t : \E j \in DOMAIN s : t[i] = s[j]

(* Induction over the natural numbers, for a set: were n missing, the step *)
(* would be an injection from the members up to n into a smaller set.      *)
LEMMA SetInduction ==
  ASSUME NEW P, 0 \in P, \A n \in Nat : n \in P => n + 1 \in P
  PROVE  Nat \subseteq P
<1>1. SUFFICES ASSUME NEW n \in Nat, n \notin P PROVE FALSE
  OBVIOUS
<1> DEFINE S == {k \in 0 .. n : k \in P}
           T == S \ {0}
           f == [k \in S |-> k + 1]
<1>2. IsFiniteSet(S) /\ 0 \in S
  <2>1. IsFiniteSet(0 .. n)
    BY FS_Interval
  <2>. QED
    BY <2>1, FS_Subset
<1>3. IsFiniteSet(T) /\ Cardinality(T) = Cardinality(S) - 1
  BY <1>2, FS_RemoveElement
<1>4. Cardinality(S) \in Nat /\ Cardinality(T) < Cardinality(S)
  BY <1>2, <1>3, FS_CardinalityType
<1>5. f \in [S -> T]
  BY <1>1
<1>6. \A x, y \in S : x # y => f[x] # f[y]
  OBVIOUS
<1> HIDE DEF S, T, f
<1>. QED
  BY <1>2, <1>3, <1>4, <1>5, <1>6, FS_PigeonHole

(* A set of natural numbers that is not empty has a least member.          *)
LEMMA LeastOf ==
  ASSUME NEW I, I \subseteq Nat, I # {}
  PROVE  \E m \in I : \A k \in I : m =< k
<1>1. SUFFICES ASSUME \A m \in I : \E k \in I : k < m PROVE FALSE
  OBVIOUS
<1> DEFINE P == {n \in Nat : \A k \in I : n < k}
<1>2. 0 \in P
  BY <1>1
<1>3. \A n \in Nat : n \in P => n + 1 \in P
  <2>1. SUFFICES ASSUME NEW n \in Nat, \A k \in I : n < k, NEW k \in I PROVE n + 1 < k
    OBVIOUS
  <2>2. PICK j \in I : j < k
    BY <1>1
  <2>. QED
    BY <2>1, <2>2
<1>4. Nat \subseteq P
  <2> HIDE DEF P
  <2>. QED
    BY <1>2, <1>3, SetInduction
<1>5. PICK k \in I : TRUE
  OBVIOUS
<1>6. k \in P
  BY <1>4, <1>5
<1>. QED
  BY <1>5, <1>6

(* RemoveAt takes one element out.                                         *)
LEMMA RemovedOne ==
  ASSUME NEW S, NEW s \in Seq(S), NEW i \in 1 .. Len(s)
  PROVE  /\ RemoveAt(s, i) \in Seq(S)
         /\ Len(RemoveAt(s, i)) = Len(s) - 1
         /\ \A k \in 1 .. Len(s) - 1 : RemoveAt(s, i)[k] = s[IF k < i THEN k ELSE k + 1]
<1>1. SubSeq(s, 1, i - 1) \in Seq(S) /\ Len(SubSeq(s, 1, i - 1)) = i - 1
  OBVIOUS
<1>2. SubSeq(s, i + 1, Len(s)) \in Seq(S) /\ Len(SubSeq(s, i + 1, Len(s))) = Len(s) - i
  OBVIOUS
<1>3. \A k \in 1 .. i - 1 : SubSeq(s, 1, i - 1)[k] = s[k]
  OBVIOUS
<1>4. \A k \in 1 .. Len(s) - i : SubSeq(s, i + 1, Len(s))[k] = s[k + i]
  OBVIOUS
<1> DEFINE a == SubSeq(s, 1, i - 1)
           b == SubSeq(s, i + 1, Len(s))
           n == Len(s)
<1>5. RemoveAt(s, i) = a \o b
  BY DEF RemoveAt
<1>6. n \in Nat /\ i \in 1 .. n
  OBVIOUS
<1>7. \A k \in 1 .. n - i : b[k] = s[k + i]
  BY <1>4
<1>8. /\ a \in Seq(S) /\ Len(a) = i - 1 /\ b \in Seq(S) /\ Len(b) = n - i
      /\ \A k \in 1 .. i - 1 : a[k] = s[k]
  BY <1>1, <1>2, <1>3
<1> HIDE DEF a, b, n
<1>9. a \o b \in Seq(S) /\ Len(a \o b) = n - 1
  <2>1. a \in Seq(S) /\ b \in Seq(S)
    BY <1>8
  <2>2. a \o b \in Seq(S) /\ Len(a \o b) = Len(a) + Len(b)
    BY <2>1
  <2>3. Len(a) = i - 1 /\ Len(b) = n - i
    BY <1>8
  <2>. QED
    BY <1>6, <2>2, <2>3
<1>10. \A k \in 1 .. n - 1 : (a \o b)[k] = s[IF k < i THEN k ELSE k + 1]
  <2>1. SUFFICES ASSUME NEW k \in 1 .. n - 1
                 PROVE  (a \o b)[k] = s[IF k < i THEN k ELSE k + 1]
    OBVIOUS
  <2>2. (a \o b)[k] = IF k =< Len(a) THEN a[k] ELSE b[k - Len(a)]
    <3>1. k \in 1 .. Len(a) + Len(b)
      BY <1>6, <1>8
    <3>2. a \in Seq(S) /\ b \in Seq(S)
      BY <1>8
    <3>. QED
      BY <3>1, <3>2
  <2>3. CASE k < i
    BY <2>2, <2>3, <1>6, <1>8
  <2>4. CASE ~(k < i)
    <3>1. k - (i - 1) \in 1 .. n - i /\ k - (i - 1) + i = k + 1
      BY <2>4, <1>6
    <3>. QED
      BY <2>2, <2>4, <3>1, <1>6, <1>7, <1>8
  <2>. QED
    BY <2>3, <2>4
<1>. QED
  BY <1>5, <1>9, <1>10 DEF n

(* Unlocking takes the lock it finds away, or changes nothing.             *)
LEMMA UnlockedEffect ==
  ASSUME NEW s \in Seq(ChipLock), NEW c, NEW d
  PROVE  \/ /\ \A i \in 1 .. Len(s) : ~Matches(s[i], c, d)
            /\ Unlocked(s, c, d) = s
         \/ \E i \in 1 .. Len(s) :
              Matches(s[i], c, d) /\ Unlocked(s, c, d) = RemoveAt(s, i)
<1> DEFINE I == {i \in 1 .. Len(s) : Matches(s[i], c, d)}
<1>1. CASE I = {}
  BY <1>1 DEF Unlocked, RemoveFirstMatch, Matches
<1>2. CASE I # {}
  <2>1. Unlocked(s, c, d) = RemoveAt(s, Min(I))
    BY <1>2 DEF Unlocked, RemoveFirstMatch, SelectInSeq, Matches
  <2>2. \E m \in I : \A k \in I : m =< k
    <3>1. I \subseteq Nat
      OBVIOUS
    <3> HIDE DEF I
    <3>. QED
      BY <1>2, <3>1, LeastOf
  <2>3. Min(I) \in I
    BY <2>2 DEF Min
  <2>. QED
    BY <2>1, <2>3
<1>. QED
  BY <1>1, <1>2

(* Unlocking keeps the list in order, and shortens it if c had a lock.     *)
LEMMA UnlockedKeeps ==
  ASSUME NEW s, OnceEach(s), NEW c, NEW d
  PROVE  /\ OnceEach(Unlocked(s, c, d)) /\ Within(Unlocked(s, c, d), s)
         /\ Len(Unlocked(s, c, d)) =< Len(s)
         /\ (\E i \in DOMAIN s : Matches(s[i], c, d)) =>
              Len(Unlocked(s, c, d)) = Len(s) - 1
<1>1. s \in Seq(ChipLock) /\ DOMAIN s = 1 .. Len(s)
  BY DEF OnceEach
<1>2. CASE Unlocked(s, c, d) = s /\ \A i \in 1 .. Len(s) : ~Matches(s[i], c, d)
  <2>1. Within(s, s) /\ Len(s) =< Len(s)
    BY <1>1 DEF Within
  <2>2. ~\E i \in DOMAIN s : Matches(s[i], c, d)
    BY <1>1, <1>2
  <2>. QED
    BY <1>2, <2>1, <2>2
<1>3. CASE \E i \in 1 .. Len(s) : Matches(s[i], c, d) /\ Unlocked(s, c, d) = RemoveAt(s, i)
  <2>1. PICK i \in 1 .. Len(s) : Unlocked(s, c, d) = RemoveAt(s, i)
    BY <1>3
  <2> DEFINE t == Unlocked(s, c, d)
             old(k) == IF k < i THEN k ELSE k + 1
  <2>2. /\ t \in Seq(ChipLock) /\ Len(t) = Len(s) - 1
        /\ \A k \in 1 .. Len(s) - 1 : t[k] = s[old(k)]
    BY <1>1, <2>1, RemovedOne
  <2>3. DOMAIN t = 1 .. Len(s) - 1 /\ Len(s) \in Nat
    BY <1>1, <2>2
  <2>4. \A k \in DOMAIN t : old(k) \in DOMAIN s
    BY <1>1, <2>3
  <2>5. \A k, m \in DOMAIN t : old(k) = old(m) => k = m
    BY <2>3
  <2> HIDE DEF t, old
  <2>6. OnceEach(t)
    <3>1. SUFFICES ASSUME NEW k \in DOMAIN t, NEW m \in DOMAIN t, t[k].device = t[m].device
                   PROVE  k = m
      BY <2>2 DEF OnceEach
    <3>2. t[k] = s[old(k)] /\ t[m] = s[old(m)]
      BY <2>2, <2>3
    <3>3. old(k) = old(m)
      BY <2>4, <3>1, <3>2 DEF OnceEach
    <3>. QED
      BY <2>5, <3>3
  <2>7. Within(t, s)
    BY <2>2, <2>3, <2>4 DEF Within
  <2>8. Len(t) =< Len(s)
    BY <2>2, <2>3
  <2>. QED
    BY <2>2, <2>6, <2>7, <2>8 DEF t
<1>. QED
  BY <1>1, <1>2, <1>3, UnlockedEffect

(* g[n] is the list after n unlockings of c, for n up to m.                *)
Left(g, m, c) ==
  g = [n \in 0 .. m |-> IF n = 0 THEN lock ELSE Unlocked(g[n - 1], c, NONE)]

(* There is such a function for every m.                                   *)
LEMMA LeftExists ==
  ASSUME NEW c, NEW m \in Nat
  PROVE  \E g : Left(g, m, c)
<1> DEFINE P == {n \in Nat : \E g : Left(g, n, c)}
<1>1. 0 \in P
  <2> DEFINE g == [n \in 0 .. 0 |-> lock]
  <2>1. Left(g, 0, c)
    BY DEF Left
  <2>. QED
    BY <2>1
<1>2. ASSUME NEW n \in Nat, n \in P PROVE n + 1 \in P
  <2>1. PICK g : Left(g, n, c)
    BY <1>2
  <2> DEFINE h == [i \in 0 .. n + 1 |->
                     IF i \in 0 .. n THEN g[i] ELSE Unlocked(g[n], c, NONE)]
  <2>2. \A i \in 0 .. n : h[i] = g[i] /\ g[i] = IF i = 0 THEN lock ELSE Unlocked(g[i - 1], c, NONE)
    BY <2>1 DEF Left
  <2>3. h[n + 1] = Unlocked(h[n], c, NONE)
    BY <2>2
  <2>4. \A i \in 0 .. n + 1 : h[i] = IF i = 0 THEN lock ELSE Unlocked(h[i - 1], c, NONE)
    <3>1. SUFFICES ASSUME NEW i \in 0 .. n + 1 
                   PROVE h[i] = IF i = 0 THEN lock ELSE Unlocked(h[i - 1], c, NONE)
      OBVIOUS
    <3>2. CASE i = 0
      <4>1. 0 \in 0 .. n
        OBVIOUS
      <4>2. h[0] = lock
        BY <2>2, <4>1
      <4>. QED
        BY <3>2, <4>2
    <3>3. CASE i \in 1 .. n
      <4>1. i \in 0 .. n /\ i - 1 \in 0 .. n /\ i # 0
        BY <3>3
      <4>. QED
        BY <2>2, <4>1
    <3>4. CASE i = n + 1
      BY <3>4, <2>3
    <3>. QED
      BY <3>2, <3>3, <3>4
  <2>5. h = [i \in 0 .. n + 1 |-> h[i]]
    OBVIOUS
  <2>6. Left(h, n + 1, c)
    <3> HIDE DEF h
    <3>. QED
      BY <2>4, <2>5 DEF Left
  <2>. QED
    BY <2>6
<1>3. Nat \subseteq P
  <2> HIDE DEF P
  <2>. QED
    BY <1>1, <1>2, SetInduction
<1>. QED
  BY <1>3

(* After close the list holds every lock of the others once, none of c.    *)
LEMMA ClosedEffect ==
  ASSUME OnceEach(lock), NEW c
  PROVE  /\ OnceEach(Closed(c)) /\ Within(Closed(c), lock)
         /\ \A i \in DOMAIN Closed(c) : ~Own(Closed(c)[i], c)
<1> DEFINE left == CHOOSE g : Left(g, Len(lock), c)
           L == Len(lock)
<1>1. lock \in Seq(ChipLock) /\ L \in Nat
  BY DEF OnceEach
<1>2. Left(left, L, c)
  BY <1>1, LeftExists
<1>3. Closed(c) = left[L]
  BY DEF Closed, Left
<1> HIDE DEF left
<1> DEFINE Owns(s) == \E i \in DOMAIN s : Own(s[i], c)
           Done(s, n) ==
             OnceEach(s) /\ Within(s, lock) /\ (Owns(s) => Len(s) = L - n)
           P == {n \in Nat : n =< L => Done(left[n], n)}
<1>4. 0 \in P
  <2>1. left[0] = lock
    BY <1>1, <1>2 DEF Left
  <2>. QED
    BY <1>1, <2>1 DEF Within
<1>5. ASSUME NEW n \in Nat, n \in P PROVE n + 1 \in P
  <2>1. SUFFICES ASSUME n + 1 =< L PROVE Done(left[n + 1], n + 1)
    OBVIOUS
  <2> DEFINE s == left[n]
             t == left[n + 1]
  <2>2. t = Unlocked(s, c, NONE)
    <3>1. n + 1 \in 0 .. L /\ n + 1 # 0 /\ (n + 1) - 1 = n
      BY <1>1, <2>1
    <3>. QED
      BY <1>2, <3>1 DEF Left
  <2>3. Done(s, n)
    BY <1>1, <1>5, <2>1
  <2>4. /\ OnceEach(t) /\ Within(t, s)
        /\ (\E i \in DOMAIN s : Matches(s[i], c, NONE)) => Len(t) = Len(s) - 1
    BY <2>2, <2>3, UnlockedKeeps
  <2>5. Within(t, lock)
    BY <2>3, <2>4 DEF Within
  <2>6. ASSUME Owns(t) PROVE Owns(s) /\ \E i \in DOMAIN s : Matches(s[i], c, NONE)
    BY <2>4, <2>6 DEF Within, Matches
  <2>7. Owns(t) => Len(t) = L - (n + 1)
    BY <1>1, <2>3, <2>4, <2>6
  <2> HIDE DEF s, t
  <2>. QED
    BY <2>4, <2>5, <2>7 DEF t
<1>6. L \in P
  <2> HIDE DEF P
  <2>. QED
    BY <1>1, <1>4, <1>5, SetInduction
<1>7. Done(left[L], L)
  BY <1>1, <1>6
<1>8. ~Owns(left[L])
  <2>1. SUFFICES ASSUME Owns(left[L]) PROVE FALSE
    OBVIOUS
  <2>2. Len(left[L]) = 0 /\ left[L] \in Seq(ChipLock)
    BY <1>1, <1>7, <2>1 DEF OnceEach
  <2>3. DOMAIN left[L] = 1 .. 0
    BY <2>2
  <2>. QED
    BY <2>1, <2>3
<1>. QED
  BY <1>3, <1>7, <1>8

(* The lock is in order, and names open control blocks only.               *)
Listed == OnceEach(lock) /\ \A i \in DOMAIN lock : lock[i].owner \in open

(* What a message may leave of the locks: the chips of c locked once, the  *)
(* locks of the others as they were.                                       *)
LEMMA LocksOnceEach == LockExcludes => Listed /\ MasterTypeOK
  BY DEF LockExcludes, MasterTypeOK, Listed, OnceEach, ChipLock

(* A lock that is granted adds the caller's lock of a free chip, takes one *)
(* of the caller's away, or changes nothing; then nobody else has the chip. *)
LEMMA GrantedKeeps ==
  ASSUME Listed, NEW c \in open, NEW r \in Request, Granted(c, r),
         open \subseteq Clients
  PROVE  /\ OnceEach(lock') /\ \A i \in DOMAIN lock' : lock'[i].owner \in open
         /\ \A i \in DOMAIN lock' : lock'[i].device = r.id => lock'[i].owner = c
<1>1. lock \in Seq(ChipLock) /\ DOMAIN lock = 1 .. Len(lock) /\ Len(lock) \in Nat
  BY DEF Listed, OnceEach
<1>2. CASE c \in Holder(r.id)
  <2>1. PICK h \in DOMAIN lock : lock[h].device = r.id /\ lock[h].owner = c
    BY <1>2 DEF Holder
  <2>2. \A i \in DOMAIN lock : lock[i].device = r.id => lock[i].owner = c
    BY <2>1 DEF Listed, OnceEach
  <2>3. CASE lock' = lock
    BY <2>2, <2>3 DEF Listed
  <2>4. CASE lock' = Unlocked(lock, c, r.id)
    <3>1. OnceEach(lock') /\ Within(lock', lock)
      BY <2>4, UnlockedKeeps DEF Listed
    <3>. QED
      BY <2>2, <3>1 DEF Listed, Within
  <2>5. lock' = lock \/ lock' = Unlocked(lock, c, r.id)
    BY <1>2 DEF Granted, Free
  <2>. QED
    BY <2>3, <2>4, <2>5
<1>3. CASE Holder(r.id) = {} /\ lock' = lock
  BY <1>3 DEF Holder, Listed
<1>4. CASE Holder(r.id) = {} /\ lock' = Locked(c, r.id)
  <2> DEFINE new == [owner |-> c, device |-> r.id]
  <2>1. new \in ChipLock
    BY DEF ChipLock, Request
  <2>2. lock' = <<new>> \o lock
    BY <1>4 DEF Locked
  <2>3. \A i \in DOMAIN lock : lock[i].device # r.id
    BY <1>4 DEF Holder
  <2>4. new.device = r.id /\ new.owner = c
    OBVIOUS
  <2> HIDE DEF new
  <2>5. lock' \in Seq(ChipLock) /\ Len(lock') = Len(lock) + 1
    BY <1>1, <2>1, <2>2
  <2>6. lock'[1] = new
    BY <1>1, <2>1, <2>2
  <2>7. \A k \in 2 .. Len(lock) + 1 : lock'[k] = lock[k - 1] /\ k - 1 \in DOMAIN lock
    BY <1>1, <2>1, <2>2
  <2>8. DOMAIN lock' = {1} \cup 2 .. Len(lock) + 1
    BY <1>1, <2>5
  <2>9. ASSUME NEW i \in DOMAIN lock', NEW j \in DOMAIN lock',
               lock'[i].device = lock'[j].device
        PROVE  i = j
    <3>1. i # 1 /\ j # 1 => i - 1 = j - 1
      BY <2>7, <2>8, <2>9 DEF Listed, OnceEach
    <3>2. ~(i = 1 /\ j # 1) /\ ~(i # 1 /\ j = 1)
      BY <2>3, <2>4, <2>6, <2>7, <2>8, <2>9
    <3>. QED
      BY <1>1, <2>8, <3>1, <3>2
  <2>10. OnceEach(lock')
    BY <2>5, <2>9 DEF OnceEach
  <2>11. \A i \in DOMAIN lock' : lock'[i].owner \in open
    BY <2>4, <2>6, <2>7, <2>8 DEF Listed
  <2>12. \A i \in DOMAIN lock' : lock'[i].device = r.id => lock'[i].owner = c
    BY <2>3, <2>4, <2>6, <2>7, <2>8
  <2>. QED
    BY <2>10, <2>11, <2>12
<1>. QED
  BY <1>2, <1>3, <1>4 DEF Granted, Free

(* Nothing is locked at first.                                             *)
LEMMA LocksInit == MasterInit => LockExcludes
<1>. SUFFICES ASSUME MasterInit PROVE LockExcludes
  OBVIOUS
<1>1. MasterTypeOK
  BY DEF MasterInit, MasterTypeOK, Request, Flags, Ids, Nothing
<1>2. lock = <<>> /\ used.checked = FALSE
  BY DEF MasterInit, Nothing
<1>. QED
  BY <1>1, <1>2 DEF LockExcludes

(* A transfer that is made or not, to a chip that exists.                  *)
LEMMA TransferKeeps ==
  ASSUME NEW c \in Clients, NEW d \in Ids, NEW checked \in BOOLEAN, Transfer(c, d,
         checked)
  PROVE  /\ used' \in [client : Clients \cup {"none"}, id : Ids, checked : BOOLEAN]
         /\ used'.checked => used'.id = d /\ used'.client = c /\ checked
<1>1. CASE used' = Nothing
  BY <1>1 DEF Nothing, Ids
<1>2. CASE used' = [client |-> c, id |-> d, checked |-> checked]
  BY <1>2
<1>. QED
  BY <1>1, <1>2 DEF Transfer

(* Every message keeps it.                                                 *)
LEMMA LocksStep == LockExcludes /\ [MasterNext]_masterVars => LockExcludes'
<1>. SUFFICES ASSUME LockExcludes, [MasterNext]_masterVars PROVE LockExcludes'
  OBVIOUS
<1>1. Listed /\ MasterTypeOK
  BY LocksOnceEach
<1>2. /\ open \subseteq Clients /\ chip \in [Clients -> Request]
      /\ \A c \in Clients : chip[c] \in Request /\ chip[c].id \in Ids
  BY <1>1 DEF MasterTypeOK, Request
<1> DEFINE Apart == used.checked => \A i \in DOMAIN lock :
                      lock[i].device = used.id => lock[i].owner = used.client
           Used == [client : Clients \cup {"none"}, id : Ids, checked : BOOLEAN]
<1>3. Apart
  BY DEF LockExcludes, Holder
<1>4. ASSUME OnceEach(lock'), \A i \in DOMAIN lock' : lock'[i].owner \in open',
             open' \subseteq Clients, chip' \in [Clients -> Request], used' \in Used, Apart'
      PROVE  LockExcludes'
  <2>1. MasterTypeOK'
    BY <1>4 DEF MasterTypeOK, OnceEach, ChipLock
  <2>. QED
    BY <2>1, <1>4 DEF LockExcludes, OnceEach, Holder
<1>5. Nothing \in Used /\ ~Nothing.checked
  BY DEF Nothing, Ids
<1>6. CASE UNCHANGED masterVars
  BY <1>1, <1>2, <1>3, <1>4, <1>6 DEF masterVars, Listed, MasterTypeOK
<1>7. ASSUME NEW c \in Clients, NEW r \in Request, NEW d \in Ids, NEW checked \in BOOLEAN,
             checked => d = r.id, c \in open,
             (Granted(c, r) /\ Transfer(c, d, checked)) \/ Refused(c, r),
             UNCHANGED <<open, chip>>
      PROVE  LockExcludes'
  <2>1. CASE Granted(c, r) /\ Transfer(c, d, checked)
    <3>1. /\ OnceEach(lock') /\ \A i \in DOMAIN lock' : lock'[i].owner \in open
          /\ \A i \in DOMAIN lock' : lock'[i].device = r.id => lock'[i].owner = c
      BY <1>1, <1>2, <1>7, <2>1, GrantedKeeps
    <3>2. /\ used' \in Used
          /\ used'.checked => used'.id = d /\ used'.client = c /\ checked
      BY <1>7, <2>1, TransferKeeps
    <3>3. Apart'
      BY <1>7, <3>1, <3>2
    <3>. QED
      BY <1>2, <1>4, <1>7, <3>1, <3>2, <3>3
  <2>2. CASE Refused(c, r)
    BY <1>1, <1>2, <1>4, <1>5, <1>7, <2>2 DEF Refused, Quiet, Listed
  <2>. QED
    BY <1>7, <2>1, <2>2
<1>8. ASSUME NEW c \in Clients, Open(c) PROVE LockExcludes'
  BY <1>1, <1>2, <1>4, <1>5, <1>8 DEF Open, Quiet, Listed
<1>9. ASSUME NEW c \in Clients, Close(c) PROVE LockExcludes'
  <2>1. /\ OnceEach(lock') /\ Within(lock', lock)
        /\ \A i \in DOMAIN lock' : ~Own(lock'[i], c)
    BY <1>1, <1>9, ClosedEffect DEF Close, Listed
  <2>2. \A i \in DOMAIN lock' : lock'[i].owner \in open \ {c}
    BY <1>1, <2>1 DEF Listed, Within, Own
  <2>3. [id |-> NONE, flags |-> {}] \in Request
    BY DEF Request, Flags, Ids
  <2>4. chip' \in [Clients -> Request]
    BY <1>2, <1>9, <2>3 DEF Close
  <2>. QED
    BY <1>2, <1>4, <1>5, <1>9, <2>1, <2>2, <2>4 DEF Close, Quiet
<1>10. ASSUME NEW c \in Clients, Io(c) PROVE LockExcludes'
  <2>1. c \in open /\ chip[c] \in Request /\ chip[c].id \in Ids
    BY <1>2, <1>10 DEF Io
  <2>2. /\ (Granted(c, chip[c]) /\ Transfer(c, chip[c].id, TRUE)) \/ Refused(c, chip[c])
        /\ UNCHANGED <<open, chip>>
    BY <1>10 DEF Io
  <2>. QED
    BY <1>7, <2>1, <2>2
<1>11. ASSUME NEW c \in Clients, NEW r \in Request, Iomsg(c, r) PROVE LockExcludes'
  <2> DEFINE d == IF r.id = NONE THEN chip[c].id ELSE r.id
             checked == r.id # NONE
  <2>1. d \in Ids /\ checked \in BOOLEAN /\ (checked => d = r.id)
    BY <1>2 DEF Request
  <2>2. /\ c \in open /\ UNCHANGED <<open, chip>>
        /\ (Granted(c, r) /\ Transfer(c, d, checked)) \/ Refused(c, r)
    BY <1>11 DEF Iomsg
  <2> HIDE DEF d, checked
  <2>. QED
    BY <1>7, <2>1, <2>2
<1>12. ASSUME NEW c \in Clients, NEW r \in Request, NEW default \in BOOLEAN,
              SetConfig(c, r, default)
       PROVE  LockExcludes'
  <2>1. chip' \in [Clients -> Request]
    BY <1>2, <1>12 DEF SetConfig
  <2>. QED
    BY <1>1, <1>2, <1>4, <1>5, <1>12, <2>1 DEF SetConfig, Quiet, Listed
<1>. QED
  BY <1>6, <1>8, <1>9, <1>10, <1>11, <1>12 DEF MasterNext, ClientStep

(* A lock excludes the other clients, for any clients and any number of    *)
(* chips: no chip is locked twice, no checked transfer reaches one another *)
(* client holds, and close leaves nothing behind.                          *)
THEOREM LocksCorrect == MasterSpec => []LockExcludes
  BY LocksInit, LocksStep, PTL DEF MasterSpec

(***************************************************************************)
(* Proofs of the safety properties of SpiXfer, for every set of lengths,   *)
(* size of word and number of transfers and timeouts.  While a transfer    *)
(* waits, its bytes from rlen to tlen are on their way: in the transmit    *)
(* FIFO before the exchange, in the receive FIFO after it, with the        *)
(* padding of the last burst in front.  The buffer holds replies before    *)
(* rlen and the client's bytes behind it.                                  *)
(***************************************************************************)

(* A function on 1 .. n is a sequence of length n.                         *)
LEMMA FunIsSeq ==
  ASSUME NEW S, NEW n \in Nat, NEW f \in [1 .. n -> S]
  PROVE  f \in Seq(S) /\ Len(f) = n
  OBVIOUS

(* The elements of two sequences put together.                             *)
LEMMA Joined ==
  ASSUME NEW S, NEW s \in Seq(S), NEW t \in Seq(S)
  PROVE  /\ s \o t \in Seq(S)
         /\ Len(s \o t) = Len(s) + Len(t)
         /\ \A k \in 1 .. Len(s) : (s \o t)[k] = s[k]
         /\ \A k \in 1 .. Len(t) : (s \o t)[Len(s) + k] = t[k]
  <1>. DEFINE h == s \o t
  <1>1. h \in Seq(S) /\ Len(h) = Len(s) + Len(t) /\ Len(s) \in Nat /\ Len(t) \in Nat
    BY ConcatProperties
  <1>2. \A k \in 1 .. Len(s) + Len(t) : h[k] = IF k <= Len(s) THEN s[k] ELSE t[k - Len(s)]
    BY ConcatProperties
  <1>. HIDE DEF h
  <1>3. \A k \in 1 .. Len(s) : h[k] = s[k]
    BY <1>1, <1>2
  <1>4. \A k \in 1 .. Len(t) : h[Len(s) + k] = t[k]
    <2>. SUFFICES ASSUME NEW k \in 1 .. Len(t) PROVE h[Len(s) + k] = t[k]
      OBVIOUS
    <2>1. Len(s) + k \in 1 .. Len(s) + Len(t) /\ ~(Len(s) + k <= Len(s)) /\ Len(s) + k - Len(s) = k
      BY <1>1
    <2>. QED
      BY <1>2, <2>1
  <1>. QED
    BY <1>1, <1>3, <1>4 DEF h

(* Two sequences put together, as a function.                              *)
LEMMA JoinedIs ==
  ASSUME NEW S, NEW s \in Seq(S), NEW t \in Seq(S)
  PROVE  s \o t = [k \in 1 .. Len(s) + Len(t) |-> IF k <= Len(s) THEN s[k] ELSE t[k - Len(s)]]
  <1>. DEFINE h == s \o t
  <1>1. h \in Seq(S) /\ Len(h) = Len(s) + Len(t) /\ Len(s) \in Nat /\ Len(t) \in Nat
    BY ConcatProperties
  <1>2. \A k \in 1 .. Len(s) + Len(t) : h[k] = IF k <= Len(s) THEN s[k] ELSE t[k - Len(s)]
    BY ConcatProperties
  <1>. HIDE DEF h
  <1>3. h = [k \in 1 .. Len(s) + Len(t) |-> h[k]]
    BY <1>1
  <1>4. h = [k \in 1 .. Len(s) + Len(t) |-> IF k <= Len(s) THEN s[k] ELSE t[k - Len(s)]]
    BY <1>3, <1>2
  <1>. QED
    BY <1>4 DEF h

(* The padding of the word of odd bytes, in a transfer of x bytes.         *)
PadOf(x) == IF burst /\ x % 4 > 0 THEN 4 - (x % 4) ELSE 0

(* The i-th word of replies in transfer n: words of w bytes, the bytes     *)
(* from offset r on, behind p bytes of padding.                            *)
RxWord(n, w, r, p, i) ==
  [k \in 1 .. w |->
     IF w * (i - 1) + k <= p THEN NoByte ELSE <<"rx", n, r + w * (i - 1) + k - p>>]

(* Every word that can be cut from b.                                      *)
AllBytes(b) == {Bytes(b, u, v) : u \in Nat, v \in Nat}

(* The words that the odd bytes of a last burst take: one, or none.        *)
OddWords(n) == IF Odd(n) > 0 THEN 1 ELSE 0

(* The replies to v bytes of transfer n from offset u on, behind m bytes   *)
(* of padding.                                                             *)
Answer(n, u, v, m) ==
  [k \in 1 .. m + v |-> IF k <= m THEN NoByte ELSE <<"rx", n, u + k - m>>]

(* A word cut from a buffer has as many bytes as were asked for, each the  *)
(* buffer's at its place.                                                  *)
LEMMA BytesShape ==
  ASSUME NEW b, NEW t \in Nat, NEW n \in Nat
  PROVE  /\ Bytes(b, t, n) \in Seq({Byte(b, k) : k \in Nat})
         /\ Len(Bytes(b, t, n)) = n
         /\ \A k \in 1 .. n : Bytes(b, t, n)[k] = Byte(b, t + k)
  <1>1. \A k \in 1 .. n : Byte(b, t + k) \in {Byte(b, j) : j \in Nat}
    OBVIOUS
  <1>. QED
    BY <1>1 DEF Bytes

(* ws is the word of odd bytes, if there are any, and then whole words,    *)
(* one behind the other.                                                   *)
Laid(ws, b, t, x, d, room) ==
  LET o == Odd(x - t)
      w == WordLen(d)
      n == Whole(t, x, d, room)
      f == OddWords(x - t)
  IN  /\ ws \in Seq(AllBytes(b))
      /\ Len(ws) = f + n
      /\ o > 0 => ws[1] = Bytes(b, t, o)
      /\ \A i \in 1 .. n : ws[f + i] = Bytes(b, t + o + (i - 1) * w, w)

(* Words lays out a buffer like that.                                      *)
LEMMA WordsShape ==
  ASSUME NEW b, NEW t \in Nat, NEW x \in Nat, t <= x, NEW d \in {1, 2, 4},
         NEW room \in Nat,
         Whole(t, x, d, room) \in Nat
  PROVE  Laid(Words(b, t, x, d, room), b, t, x, d, room)
  <1>. DEFINE o == Odd(x - t)
              w == WordLen(d)
              n == Whole(t, x, d, room)
  <1>1. o \in Nat /\ w \in {1, 2, 4} /\ n \in Nat
    BY DEF Odd, WordLen, BURST_MAX
  <1>2. Words(b, t, x, d, room) = (IF o > 0 THEN <<Bytes(b, t, o)>> ELSE <<>>)
                         \o [i \in 1 .. n |-> Bytes(b, t + o + (i - 1) * w, w)]
    BY DEF Words
  <1>. HIDE DEF o, w, n
  <1>. DEFINE S == AllBytes(b)
              g == [i \in 1 .. n |-> Bytes(b, t + o + (i - 1) * w, w)]
              e == IF o > 0 THEN <<Bytes(b, t, o)>> ELSE <<>>
              f == IF o > 0 THEN 1 ELSE 0
  <1>3. g \in Seq(S) /\ Len(g) = n
    <2>1. \A i \in 1 .. n : t + o + (i - 1) * w \in Nat
      BY <1>1
    <2>2. \A i \in 1 .. n : Bytes(b, t + o + (i - 1) * w, w) \in S
      BY <2>1, <1>1 DEF AllBytes
    <2>. HIDE DEF S
    <2>3. g \in [1 .. n -> S]
      BY <2>2
    <2>. QED
      BY <1>1, <2>3, FunIsSeq
  <1>4. e \in Seq(S) /\ Len(e) = f /\ (o > 0 => e[1] = Bytes(b, t, o))
    <2>1. Bytes(b, t, o) \in S
      BY <1>1 DEF AllBytes
    <2>. HIDE DEF S
    <2>2. CASE o > 0
      BY <2>1, <2>2
    <2>3. CASE ~(o > 0)
      BY <2>3
    <2>. QED
      BY <2>2, <2>3
  <1>5. Words(b, t, x, d, room) = e \o g
    BY <1>2
  <1>6. \A i \in 1 .. n : g[i] = Bytes(b, t + o + (i - 1) * w, w)
    OBVIOUS
  <1>7. f \in Nat /\ (o > 0 => f = 1)
    OBVIOUS
  <1>. HIDE DEF S, g, e, f
  <1>8. e \o g \in Seq(S) /\ Len(e \o g) = f + n
    BY <1>3, <1>4
  <1>9. /\ \A k \in 1 .. Len(e) : (e \o g)[k] = e[k]
        /\ \A k \in 1 .. Len(g) : (e \o g)[Len(e) + k] = g[k]
    <2>1. e \in Seq(S) /\ g \in Seq(S)
      BY <1>3, <1>4
    <2>. QED
      BY <2>1, Joined
  <1>10. \A i \in 1 .. n : (e \o g)[f + i] = g[i]
    BY <1>3, <1>4, <1>9
  <1>11. o > 0 => (e \o g)[1] = Bytes(b, t, o)
    <2>1. o > 0 => 1 \in 1 .. Len(e)
      BY <1>4, <1>7
    <2>. QED
      BY <2>1, <1>4, <1>9, Zenon
  <1>12. /\ Words(b, t, x, d, room) \in Seq(S) /\ Len(Words(b, t, x, d, room)) = f + n
         /\ o > 0 => Words(b, t, x, d, room)[1] = Bytes(b, t, o)
         /\ \A i \in 1 .. n : Words(b, t, x, d, room)[f + i] = Bytes(b, t + o + (i - 1) * w, w)
    BY <1>5, <1>6, <1>8, <1>10, <1>11
  <1>. QED
    BY <1>12 DEF S, f, o, w, n, OddWords, Laid

(* What a refill from offset t with at most room words comes to: between   *)
(* one word and a FIFO full, up to offset y, and with the padding p the    *)
(* words are whole. In burst mode it is a burst of 32 bytes or everything  *)
(* that is left.                                                           *)
FillOf(t, x, d, room) ==
  LET o == Odd(x - t)
      w == WordLen(d)
      n == Whole(t, x, d, room)
      y == Filled(t, x, d, room)
      p == IF y = x THEN PadOf(x) ELSE 0
      f == OddWords(x - t)
  IN  /\ o \in 0 .. 3 /\ n \in 0 .. 8 /\ w \in {1, 2, 4} /\ p \in 0 .. 3 /\ y \in Nat
      /\ o > 0 => burst /\ p = 4 - o
      /\ o = 0 => p = 0
      /\ burst => w = 4
      /\ f + n \in 1 .. 8
      /\ w * (f + n) = y - t + p
      /\ y = t + o + n * w
      /\ t < y /\ y <= x /\ y % d = 0
      /\ burst => y = t + 32 \/ (y = x /\ x - t < 32)

(* That for every offset, length and size of word that fit together; a     *)
(* refill in burst mode starts at a multiple of 32.                        *)
LEMMA FillCount ==
  ASSUME burst \in BOOLEAN,
         NEW t \in Nat, NEW x \in Nat, t < x, NEW d \in {1, 2, 4}, x % d = 0, t % d = 0,
         burst => t % 32 = 0, NEW room \in 1 .. 8, burst => room = 8
  PROVE  FillOf(t, x, d, room)
  <1>1. PICK o : o = Odd(x - t)
    OBVIOUS
  <1>2. PICK w : w = WordLen(d)
    OBVIOUS
  <1>3. PICK n : n = Whole(t, x, d, room)
    OBVIOUS
  <1>4. PICK y : y = Filled(t, x, d, room)
    OBVIOUS
  <1>5. PICK p : p = IF y = x THEN PadOf(x) ELSE 0
    OBVIOUS
  <1>6. PICK f : f = OddWords(x - t)
    OBVIOUS
  <1>7. f = IF o > 0 THEN 1 ELSE 0
    BY <1>1, <1>6 DEF OddWords
  <1>. DEFINE Goal == /\ o \in 0 .. 3 /\ n \in 0 .. 8
                      /\ w \in {1, 2, 4} /\ p \in 0 .. 3 /\ y \in Nat
                      /\ o > 0 => burst /\ p = 4 - o
                      /\ o = 0 => p = 0
                      /\ burst => w = 4
                      /\ f + n \in 1 .. 8
                      /\ w * (f + n) = y - t + p
                      /\ y = t + o + n * w
                      /\ t < y /\ y <= x /\ y % d = 0
                      /\ burst => y = t + 32 \/ (y = x /\ x - t < 32)
  <1>. SUFFICES Goal
    BY <1>1, <1>2, <1>3, <1>4, <1>5, <1>6 DEF FillOf
  <1>8. y = t + o + n * w
    BY <1>1, <1>2, <1>3, <1>4 DEF Filled
  <1>9. CASE burst
    <2>1. w = 4 /\ t % 32 = 0 /\ t % 4 = 0 /\ room = 8
      BY <1>9, <1>2 DEF WordLen
    <2>2. PadOf(x) = IF x % 4 > 0 THEN 4 - (x % 4) ELSE 0
      BY <1>9 DEF PadOf
    <2>3. CASE x - t < 32
      <3>1. o = (x - t) % 4
        BY <1>9, <1>1, <2>3 DEF Odd, BURST_MAX
      <3>2. o = x % 4 /\ o \in 0 .. 3
        BY <2>1, <3>1
      <3>3. n = (x - t - o) \div 4
        BY <1>1, <1>2, <1>3, <3>1, <2>1, <2>3 DEF Whole, Smaller
      <3>4. 4 * n = x - t - o /\ n \in 0 .. 7
        BY <3>1, <3>3, <2>3
      <3>5. y = x
        BY <1>8, <2>1, <3>2, <3>4, SMTT(20)
      <3>6. p = IF o > 0 THEN 4 - o ELSE 0
        BY <1>5, <2>2, <3>2, <3>5
      <3>7. f + n \in 1 .. 8 /\ 4 * (f + n) = x - t + p /\ p \in 0 .. 3
        BY <1>7, <2>3, <3>2, <3>4, <3>6
      <3>8. x % d = 0 /\ t < x
        OBVIOUS
      <3>9. y % d = 0 /\ t < y /\ y <= x /\ y \in Nat
        BY <3>5, <3>8
      <3>10. w * (f + n) = y - t + p
        BY <2>1, <3>5, <3>7
      <3>11. o \in 0 .. 3 /\ n \in 0 .. 8 /\ w \in {1, 2, 4}
        BY <2>1, <3>2, <3>4
      <3>. QED
        BY <1>8, <1>9, <2>1, <2>3, <3>5, <3>6, <3>7, <3>9, <3>10, <3>11
    <2>4. CASE x - t >= 32
      <3>1. o = 0
        BY <1>1, <2>4 DEF Odd, BURST_MAX
      <3>2. n = 8
        BY <1>1, <1>2, <1>3, <2>1, <2>4, <3>1 DEF Whole, Smaller
      <3>3. y = t + 32
        BY <1>8, <3>1, <3>2, <2>1
      <3>4. y % d = 0
        BY <3>3, <2>1
      <3>5. p = 0
        BY <1>5, <2>1, <2>2, <3>3
      <3>6. f + n = 8
        BY <1>7, <3>1, <3>2
      <3>. QED
        BY <1>8, <1>9, <2>1, <2>4, <3>1, <3>2, <3>3, <3>4, <3>5, <3>6
    <2>. QED
      BY <2>3, <2>4
  <1>10. CASE ~burst
    <2>1. w = d /\ o = 0 /\ PadOf(x) = 0 /\ p = 0
      BY <1>10, <1>1, <1>2, <1>5 DEF WordLen, Odd, PadOf
    <2>2. n = Smaller(room, (x - t) \div d)
      BY <1>1, <1>2, <1>3, <2>1 DEF Whole
    <2>3. ASSUME NEW e \in {1, 2, 4}, d = e
          PROVE  n \in 1 .. 8 /\ t + n * e <= x /\ (t + n * e) % e = 0
      <3>1. CASE e = 1
        BY <2>2, <2>3, <3>1 DEF Smaller
      <3>2. CASE e = 2
        BY <2>2, <2>3, <3>2 DEF Smaller
      <3>3. CASE e = 4
        BY <2>2, <2>3, <3>3 DEF Smaller
      <3>. QED
        BY <3>1, <3>2, <3>3
    <2>4. n \in 1 .. 8 /\ t + n * d <= x /\ (t + n * d) % d = 0
      BY <2>3
    <2>5. w * (f + n) = n * d
      <3>1. f + n = n /\ n \in Nat
        BY <1>7, <2>1, <2>4
      <3>2. d \in Nat /\ d * n = n * d
        BY <3>1
      <3>. QED
        BY <2>1, <3>1, <3>2
    <2>6. n * d \in Nat /\ n * d >= 1
      BY <2>4
    <2>. DEFINE k == n * d
    <2>7. k \in Nat /\ k >= 1 /\ t + k <= x /\ (t + k) % d = 0 /\ w * (f + n) = k
      BY <2>4, <2>5, <2>6
    <2>8. y = t + o + k
      BY <1>8, <2>1
    <2>. HIDE DEF k
    <2>9. y = t + k
      BY <2>1, <2>8, <2>7
    <2>10. /\ y \in Nat /\ t < y /\ y <= x /\ w * (f + n) = y - t + p
      BY <2>1, <2>7, <2>9
    <2>11. y % d = 0
      BY <2>7, <2>9
    <2>12. f + n \in 1 .. 8
      BY <1>7, <2>1, <2>4
    <2>. QED
      BY <1>8, <1>10, <2>1, <2>4, <2>10, <2>11, <2>12
  <1>. QED
    BY <1>9, <1>10

(* The controller's reply to one word of bytes that the client gave.       *)
LEMMA ReplyOf ==
  ASSUME burst \in BOOLEAN, NEW b, NEW u \in Nat, NEW v \in 1 .. 4, NEW N,
         \A k \in 1 .. v : Byte(b, u + k) = <<"tx", N, u + k>>,
         NEW m \in Nat, burst => m = 4 - v, ~burst => m = 0
  PROVE  ReplyWord(Bytes(b, u, v)) = Answer(N, u, v, m)
  <1>. DEFINE S == {Byte(b, k) : k \in Nat}
              c == Bytes(b, u, v)
  <1>1. c \in Seq(S) /\ Len(c) = v /\ \A k \in 1 .. v : c[k] = Byte(b, u + k)
    <2>1. v \in Nat
      OBVIOUS
    <2>. QED
      BY <2>1, BytesShape
  <1>2. m \in Nat /\ (burst => m = 4 - Len(c)) /\ (~burst => m = 0)
    BY <1>1
  <1>. DEFINE h == [k \in 1 .. m |-> NoByte]
              g == [k \in DOMAIN c |-> Reply(c[k])]
              R == {NoByte} \cup {Reply(c[k]) : k \in DOMAIN c}
  <1>. HIDE DEF S, c
  <1>3. \A k \in 1 .. m : h[k] = NoByte
    OBVIOUS
  <1>4. \A k \in 1 .. v : g[k] = <<"rx", N, u + k>>
    <2>1. ASSUME NEW k \in 1 .. v PROVE c[k] = <<"tx", N, u + k>> /\ k \in DOMAIN c
      BY <1>1
    <2>. QED
      BY <2>1 DEF Reply
  <1>5. h \in Seq(R) /\ Len(h) = m
    <2>1. h \in [1 .. m -> R]
      OBVIOUS
    <2>. HIDE DEF h, R
    <2>. QED
      BY <2>1, <1>2
  <1>6. g \in Seq(R) /\ Len(g) = v
    <2>1. DOMAIN c = 1 .. v /\ v \in Nat
      BY <1>1
    <2>2. g \in [1 .. v -> R]
      BY <2>1
    <2>. HIDE DEF g, R
    <2>. QED
      BY <2>1, <2>2
  <1>7. ReplyWord(c) = h \o g
    BY <1>2 DEF ReplyWord
  <1>. HIDE DEF h, g, R
  <1>8. h \o g = [k \in 1 .. m + v |-> IF k <= m THEN h[k] ELSE g[k - m]]
    BY <1>5, <1>6, JoinedIs
  <1>9. \A k \in 1 .. m + v : ~(k <= m) => g[k - m] = <<"rx", N, u + k - m>>
    <2>. SUFFICES ASSUME NEW k \in 1 .. m + v, ~(k <= m)
                  PROVE  g[k - m] = <<"rx", N, u + k - m>>
      OBVIOUS
    <2>1. k - m \in 1 .. v /\ u + (k - m) = u + k - m
      BY <1>2
    <2>. QED
      BY <1>4, <2>1
  <1>10. \A k \in 1 .. m + v : (IF k <= m THEN h[k] ELSE g[k - m]) =
                                (IF k <= m THEN NoByte ELSE <<"rx", N, u + k - m>>)
    <2>1. \A k \in 1 .. m + v : k <= m => k \in 1 .. m
      BY <1>2
    <2>. QED
      BY <1>3, <1>9, <2>1
  <1>11. h \o g = [k \in 1 .. m + v |-> IF k <= m THEN NoByte ELSE <<"rx", N, u + k - m>>]
    BY <1>8, <1>10
  <1>. QED
    BY <1>7, <1>11 DEF c, Answer

(* ws are the words of a refill from offset t to offset y of transfer N:   *)
(* their replies are the replies to these bytes, in their order.           *)
Filling(N, t, x, d, ws, y) ==
  LET w == WordLen(d)
      p == IF y = x THEN PadOf(x) ELSE 0
  IN  /\ <<>> \o ws = ws
      /\ Len(ws) \in 1 .. 8
      /\ w * Len(ws) = y - t + p
      /\ \A i \in 1 .. Len(ws) : ReplyWord(ws[i]) = RxWord(N, w, t, p, i)
      /\ y \in Nat /\ t < y /\ y <= x /\ y % d = 0
      /\ burst => y = t + 32 \/ (y = x /\ x - t < 32)

(* A refill from a buffer whose bytes from offset t on are still the       *)
(* client's is one of that kind.                                           *)
LEMMA FillWords ==
  ASSUME burst \in BOOLEAN,
         NEW t \in Nat, NEW x \in Nat, t < x, NEW d \in {1, 2, 4}, x % d = 0, t % d = 0,
         burst => t % 32 = 0, NEW room \in 1 .. 8, burst => room = 8,
         NEW N, NEW b, \A k \in t + 1 .. x : Byte(b, k) = <<"tx", N, k>>
  PROVE  Filling(N, t, x, d, Words(b, t, x, d, room), Filled(t, x, d, room))
  <1>1. PICK ws : ws = Words(b, t, x, d, room)
    OBVIOUS
  <1>2. PICK y : y = Filled(t, x, d, room)
    OBVIOUS
  <1>3. PICK p : p = IF y = x THEN PadOf(x) ELSE 0
    OBVIOUS
  <1>4. PICK w : w = WordLen(d)
    OBVIOUS
  <1>. DEFINE o == Odd(x - t)
              n == Whole(t, x, d, room)
              f == OddWords(x - t)
              S == AllBytes(b)
  <1>5. /\ o \in 0 .. 3 /\ n \in 0 .. 8 /\ w \in {1, 2, 4} /\ p \in 0 .. 3
        /\ o > 0 => burst /\ p = 4 - o
        /\ o = 0 => p = 0
        /\ burst => w = 4
        /\ f + n \in 1 .. 8
        /\ w * (f + n) = y - t + p
        /\ y = t + o + n * w
        /\ y \in Nat /\ t < y /\ y <= x /\ y % d = 0
        /\ burst => y = t + 32 \/ (y = x /\ x - t < 32)
    <2>. DEFINE ww == WordLen(d)
                yy == Filled(t, x, d, room)
                pp == IF yy = x THEN PadOf(x) ELSE 0
    <2>1. /\ o \in 0 .. 3 /\ n \in 0 .. 8 /\ ww \in {1, 2, 4} /\ pp \in 0 .. 3 /\ yy \in Nat
          /\ o > 0 => burst /\ pp = 4 - o
          /\ o = 0 => pp = 0
          /\ burst => ww = 4
          /\ f + n \in 1 .. 8
          /\ ww * (f + n) = yy - t + pp
          /\ yy = t + o + n * ww
          /\ t < yy /\ yy <= x /\ yy % d = 0
          /\ burst => yy = t + 32 \/ (yy = x /\ x - t < 32)
      <3>1. FillOf(t, x, d, room)
        BY FillCount
      <3>. QED
        BY <3>1, Zenon DEF FillOf
    <2>2. ww = w /\ yy = y /\ pp = p
      BY <1>2, <1>3, <1>4
    <2>. HIDE DEF ww, yy, pp, o, n, f
    <2>. QED
      BY <2>1, <2>2
  <1>6. t <= x /\ room \in Nat /\ n \in Nat
    <2>. HIDE DEF o, n, f
    <2>. QED
      BY <1>5
  <1>7. /\ ws \in Seq(S)
        /\ Len(ws) = f + n
        /\ o > 0 => ws[1] = Bytes(b, t, o)
        /\ \A i \in 1 .. n : ws[f + i] = Bytes(b, t + o + (i - 1) * w, w)
    <2>. DEFINE ww == WordLen(d)
                vs == Words(b, t, x, d, room)
    <2>1. /\ vs \in Seq(S)
          /\ Len(vs) = f + n
          /\ o > 0 => vs[1] = Bytes(b, t, o)
          /\ \A i \in 1 .. n : vs[f + i] = Bytes(b, t + o + (i - 1) * ww, ww)
      <3>1. Laid(Words(b, t, x, d, room), b, t, x, d, room)
        BY <1>6, WordsShape
      <3>. QED
        BY <3>1, Zenon DEF Laid
    <2>2. ww = w /\ vs = ws
      BY <1>1, <1>4
    <2>. HIDE DEF ww, vs, o, n, f, S
    <2>. QED
      BY <2>1, <2>2
  <1>8. f = IF o > 0 THEN 1 ELSE 0
    BY DEF OddWords
  <1>9. o \in 0 .. 3 /\ n \in 0 .. 8 /\ w \in {1, 2, 4} /\ p \in 0 .. 3 /\ y <= x
    BY <1>5, Zenon
  <1>. HIDE DEF o, n, f, S
  <1>10. ASSUME o > 0
         PROVE  ReplyWord(ws[1]) = RxWord(N, w, t, p, 1)
    <2>1. burst /\ p = 4 - o /\ w = 4 /\ o \in 1 .. 4 /\ p + o = 4 /\ t + o <= x
      BY <1>5, <1>10
    <2>2. \A k \in 1 .. o : Byte(b, t + k) = <<"tx", N, t + k>>
      BY <2>1
    <2>3. ReplyWord(Bytes(b, t, o)) = Answer(N, t, o, p)
      BY <2>1, <2>2, ReplyOf
    <2>4. \A k \in 1 .. 4 : w * (1 - 1) + k = k /\ t + w * (1 - 1) + k - p = t + k - p
      BY <1>5, <2>1
    <2>5. Answer(N, t, o, p) = RxWord(N, w, t, p, 1)
      BY <2>1, <2>4 DEF Answer, RxWord
    <2>. QED
      BY <1>7, <1>10, <2>3, <2>5
  <1>11. ASSUME NEW j \in 1 .. n
         PROVE  ReplyWord(ws[f + j]) = RxWord(N, w, t, p, f + j)
    <2>. DEFINE u == t + o + (j - 1) * w
    <2>1. u \in Nat /\ u + w <= x /\ u >= t
      <3>1. ASSUME NEW e \in {1, 2, 4}, e = w
            PROVE  (j - 1) * e \in Nat /\ (j - 1) * e + e <= n * e
        BY <1>5
      <3>. DEFINE a == (j - 1) * w
                  c == n * w
      <3>2. a \in Nat /\ c \in Nat /\ a + w <= c
        BY <1>9, <3>1
      <3>3. u = t + o + a /\ y = t + o + c
        BY <1>5
      <3>4. o \in Nat /\ y <= x /\ w \in Nat
        BY <1>9
      <3>. HIDE DEF a, c, u
      <3>. QED
        BY <3>2, <3>3, <3>4
    <2>. HIDE DEF u
    <2>2. w \in 1 .. 4 /\ (burst => 0 = 4 - w)
      BY <1>5
    <2>3. \A k \in 1 .. w : Byte(b, u + k) = <<"tx", N, u + k>>
      BY <2>1, <2>2
    <2>4. ReplyWord(Bytes(b, u, w)) = Answer(N, u, w, 0)
      BY <2>1, <2>2, <2>3, ReplyOf
    <2>5. ASSUME NEW k \in 1 .. w
          PROVE  ~(w * ((f + j) - 1) + k <= p) /\ t + w * ((f + j) - 1) + k - p = u + k
      <3>. DEFINE a == (j - 1) * w
                  z == w * ((f + j) - 1)
      <3>. SUFFICES ~(z + k <= p) /\ t + z + k - p = u + k
        OBVIOUS
      <3>1. CASE o > 0
        <4>1. f = 1 /\ w = 4 /\ p = 4 - o
          BY <1>5, <1>8, <3>1
        <4>2. z = 4 * j /\ a = 4 * j - 4
          BY <4>1, <1>9
        <4>3. u = t + o + a
          BY DEF u
        <4>. HIDE DEF a, z
        <4>. QED
          BY <4>1, <4>2, <4>3, <1>9
      <3>2. CASE o = 0
        <4>1. f = 0 /\ p = 0
          BY <1>5, <1>8, <3>2
        <4>2. z = a /\ a \in Nat
          <5>1. \A e \in {1, 2, 4} : e * (j - 1) = (j - 1) * e /\ (j - 1) * e \in Nat
            BY <1>9
          <5>2. (0 + j) - 1 = j - 1
            BY <1>9
          <5>. QED
            BY <1>9, <4>1, <5>1, <5>2
        <4>3. u = t + o + a
          BY DEF u
        <4>. HIDE DEF a, z
        <4>. QED
          BY <4>1, <4>2, <4>3, <1>9, <3>2
      <3>. QED
        BY <1>9, <3>1, <3>2
    <2>6. 0 + w = w /\ \A k \in 1 .. w : ~(k <= 0) /\ u + k - 0 = u + k
      BY <2>1, <2>2
    <2>7. Answer(N, u, w, 0) = RxWord(N, w, t, p, f + j)
      <3>1. \A k \in 1 .. w :
               (IF k <= 0 THEN NoByte ELSE <<"rx", N, u + k - 0>>)
                 = (IF w * ((f + j) - 1) + k <= p THEN NoByte
                    ELSE <<"rx", N, t + w * ((f + j) - 1) + k - p>>)
        BY <2>5, <2>6
      <3>2. Answer(N, u, w, 0) =
              [k \in 1 .. w |-> IF k <= 0 THEN NoByte ELSE <<"rx", N, u + k - 0>>]
        BY <2>6 DEF Answer
      <3>. DEFINE l(k) == IF k <= 0 THEN NoByte ELSE <<"rx", N, u + k - 0>>
                  r(k) == IF w * ((f + j) - 1) + k <= p THEN NoByte
                          ELSE <<"rx", N, t + w * ((f + j) - 1) + k - p>>
      <3>3. \A k \in 1 .. w : l(k) = r(k)
        BY <3>1
      <3>4. RxWord(N, w, t, p, f + j) = [k \in 1 .. w |-> r(k)]
        BY DEF RxWord
      <3>. HIDE DEF l, r
      <3>5. [k \in 1 .. w |-> l(k)] = [k \in 1 .. w |-> r(k)]
        BY <3>3
      <3>. QED
        BY <3>2, <3>4, <3>5 DEF l
    <2>8. ws[f + j] = Bytes(b, u, w)
      BY <1>7 DEF u
    <2>. QED
      BY <2>4, <2>7, <2>8
  <1>12. \A i \in 1 .. Len(ws) : ReplyWord(ws[i]) = RxWord(N, w, t, p, i)
    <2>. SUFFICES ASSUME NEW i \in 1 .. f + n
                  PROVE  ReplyWord(ws[i]) = RxWord(N, w, t, p, i)
      BY <1>7
    <2>1. CASE i <= f
      BY <1>8, <1>10, <2>1
    <2>2. CASE i > f
      <3>1. i - f \in 1 .. n /\ f + (i - f) = i
        BY <1>5, <1>8, <2>2
      <3>. QED
        BY <1>11, <3>1
    <2>. QED
      BY <2>1, <2>2, <1>8
  <1>13. <<>> \o ws = ws
    BY <1>7
  <1>14. /\ Len(ws) \in 1 .. 8
         /\ w * Len(ws) = y - t + p
    BY <1>5, <1>7
  <1>15. /\ y \in Nat /\ t < y /\ y <= x /\ y % d = 0
         /\ burst => y = t + 32 \/ (y = x /\ x - t < 32)
    BY <1>5, Zenon
  <1>. QED
    BY <1>12, <1>13, <1>1, <1>2, <1>3, <1>4, <1>14, <1>15, Zenon DEF Filling

(* The word and the place in it of the k-th byte received.                 *)
LEMMA WordPlace ==
  ASSUME NEW w \in {1, 2, 4}, NEW q \in 1 .. 8, NEW k \in 1 .. q * w
  PROVE  /\ (k - 1) \div w + 1 \in 1 .. q
         /\ 1 + ((k - 1) % w) \in 1 .. w
         /\ w * (((k - 1) \div w + 1) - 1) + (1 + ((k - 1) % w)) = k
  <1>1. CASE w = 1
    BY <1>1
  <1>2. CASE w = 2
    BY <1>2
  <1>3. CASE w = 4
    BY <1>3
  <1>. QED
    BY <1>1, <1>2, <1>3

(* bs are the n bytes of transfer N from offset r on, behind p bytes of    *)
(* padding.                                                                *)
Got(bs, N, r, p, n) ==
  /\ Len(bs) = n
  /\ \A k \in 1 .. n : bs[k] = IF k <= p THEN NoByte ELSE <<"rx", N, r + k - p>>

(* What the handler takes from the receive FIFO, when it holds the         *)
(* expected words.                                                         *)
LEMMA ReceivedOf ==
  ASSUME NEW ws, Len(ws) \in 1 .. 8, WordLen(dlen) \in {1, 2, 4},
         NEW N, NEW r \in Nat, NEW p \in 0 .. 3,
         \A i \in 1 .. Len(ws) : ws[i] = RxWord(N, WordLen(dlen), r, p, i)
  PROVE  Got(Received(ws), N, r, p, Len(ws) * WordLen(dlen))
  <1>1. PICK q \in 1 .. 8 : q = Len(ws)
    OBVIOUS
  <1>2. PICK w \in {1, 2, 4} : w = WordLen(dlen)
    OBVIOUS
  <1>3. \A i \in 1 .. q : ws[i] = RxWord(N, w, r, p, i)
    BY <1>1, <1>2
  <1>4. Received(ws) =
          [k \in 1 .. q * w |-> Byte(ws[(k - 1) \div w + 1], 1 + ((k - 1) % w))]
    BY <1>1, <1>2 DEF Received
  <1>5. q * w \in Nat
    OBVIOUS
  <1>6. ASSUME NEW k \in 1 .. q * w
        PROVE  Byte(ws[(k - 1) \div w + 1], 1 + ((k - 1) % w)) =
                 IF k <= p THEN NoByte ELSE <<"rx", N, r + k - p>>
    <2>1. PICK i : i = (k - 1) \div w + 1
      OBVIOUS
    <2>2. PICK j : j = 1 + ((k - 1) % w)
      OBVIOUS
    <2>3. i \in 1 .. q /\ j \in 1 .. w /\ w * (i - 1) + j = k
      BY <2>1, <2>2, WordPlace
    <2>4. ws[i] = RxWord(N, w, r, p, i)
      BY <1>3, <2>3
    <2>5. j \in DOMAIN ws[i]
      BY <2>3, <2>4 DEF RxWord
    <2>6. ws[i][j] = IF w * (i - 1) + j <= p THEN NoByte
                     ELSE <<"rx", N, r + w * (i - 1) + j - p>>
      BY <2>3, <2>4 DEF RxWord
    <2>. DEFINE z == w * (i - 1)
    <2>7. z \in Int
      BY <2>3
    <2>8. z + j = k /\ r + z + j - p = r + k - p
      <3>1. z + j = k /\ j \in Nat
        BY <2>3
      <3>. HIDE DEF z
      <3>. QED
        BY <2>7, <3>1
    <2>. QED
      BY <2>1, <2>2, <2>5, <2>6, <2>8 DEF Byte
  <1>. DEFINE bs == Received(ws)
  <1>7. bs = [k \in 1 .. q * w |-> bs[k]]
    BY <1>4
  <1>8. \A k \in 1 .. q * w : bs[k] = IF k <= p THEN NoByte ELSE <<"rx", N, r + k - p>>
    BY <1>4, <1>6
  <1>9. Len(bs) = q * w
    <2>. DEFINE n == q * w
    <2>1. bs = [k \in 1 .. n |-> bs[k]] /\ n \in Nat
      BY <1>5, <1>7
    <2>. HIDE DEF bs, n
    <2>. QED
      BY <2>1 DEF n
  <1>. QED
    BY <1>8, <1>9, <1>1, <1>2 DEF Got

(* The padding at the start of the words on their way: the last refill has *)
(* it.                                                                     *)
PadNow == IF tlen = xlen THEN PadOf(xlen) ELSE 0

(* The i-th of the words that the handler will find.                       *)
Expected(i) == RxWord(xfer, WordLen(dlen), rlen, PadNow, i)

(* The types that hold with and without timeouts.                          *)
Sides == 
  /\ burst \in BOOLEAN /\ place \in {"idle", "wait", "late"} /\ dlen \in dlens \cup {1}
  /\ xch \in BOOLEAN /\ tc \in BOOLEAN /\ tcen \in BOOLEAN
  /\ timeouts \in 0 .. MaxTimeouts /\ spiPulses \in Nat
  /\ xfer \in Nat

(* A transfer's pulse is there or its interrupt is on, never both; one     *)
(* that timed out may leave either behind.                                 *)
Pulses == spiPulses + (IF tcen THEN 1 ELSE 0) <= timeouts + (IF place = "wait" THEN 1 ELSE 0)

(* Nothing is in the FIFOs.                                                *)
Dry == txfifo = <<>> /\ rxfifo = <<>>

(* Between two transfers nothing is under way.                             *)
Rests ==
  /\ spiPulses = 0 /\ ~tcen /\ ~tc /\ ~xch /\ Dry
  /\ xlen \in Nat /\ tlen \in 0 .. xlen /\ rlen \in 0 .. xlen /\ len \in {0, xlen} /\ ResultRight

(* The buffer between two interrupts: what was received, then what the     *)
(* client gave.                                                            *)
Mixed == [k \in 1 .. xlen |-> <<IF k <= rlen THEN "rx" ELSE "tx", xfer, k>>]

(* The counts of a transfer under way: in burst mode between two bursts,   *)
(* or in the last one.                                                     *)
Progress ==
  /\ xlen \in Nat /\ tlen \in Nat /\ rlen \in Nat /\ rlen < tlen /\ tlen <= xlen
  /\ xlen % dlen = 0 /\ tlen % dlen = 0
  /\ burst => rlen % 32 = 0 /\ (tlen = rlen + 32 \/ (tlen = xlen /\ xlen - rlen < 32))
  /\ buf = Mixed

(* q words wait for the exchange.                                          *)
Sending(q) ==
  /\ xch /\ ~tc /\ rxfifo = <<>> /\ Len(txfifo) = q
  /\ \A i \in 1 .. q : ReplyWord(txfifo[i]) = Expected(i)

(* q words wait for the handler.                                           *)
Arrived(q) ==
  /\ ~xch /\ tc /\ txfifo = <<>> /\ Len(rxfifo) = q
  /\ \A i \in 1 .. q : rxfifo[i] = Expected(i)

(* A transfer under way: the words between rlen and tlen, and the padding  *)
(* of the last, are in one of the FIFOs.                                   *)
Moving ==
  /\ tcen /\ spiPulses = 0 /\ len = 0 /\ Progress
  /\ \E q \in 1 .. FIFO :
       /\ WordLen(dlen) * q = tlen - rlen + PadNow
       /\ Sending(q) \/ Arrived(q)

(* A transfer whose pulse was sent: the bytes of the last burst still lie  *)
(* behind the padding.                                                     *)
Ended ==
  /\ ~tcen /\ spiPulses = 1 /\ ~tc /\ ~xch /\ Dry /\ len = 0
  /\ xlen \in Nat /\ tlen = xlen /\ rlen = xlen + PadOf(xlen)
  /\ DOMAIN buf = 1 .. rlen
  /\ \A k \in 1 .. xlen :
       buf[IF k > LastBurst THEN k + PadOf(xlen) ELSE k] = <<"rx", xfer, k>>

(* What holds until a transfer times out.                                  *)
Clean ==
  /\ place # "late"
  /\ place = "idle" => Rests
  /\ place = "wait" => Moving \/ Ended

(* The inductive invariant.                                                *)
SpiInv == Sides /\ Pulses /\ (timeouts = 0 => Clean)

(* A word has 1, 2 or 4 bytes.                                             *)
LEMMA WordSizes == \A d \in dlens \cup {1} : d \in {1, 2, 4}
  BY SpiAssumption

(* The first fill starts a transfer.                                       *)
LEMMA XferMoves ==
  ASSUME Sides, Clean, place = "idle", NEW x \in Lengths, NEW d \in dlens, Xfer(x, d)
  PROVE  Moving'
  <1>1. /\ place' = "wait" /\ xfer' = xfer + 1 /\ xlen' = x /\ dlen' = d /\ rlen' = 0 /\ len' = 0
        /\ buf' = Fresh(xfer + 1, x)
        /\ txfifo' = txfifo \o Words(Fresh(xfer + 1, x), 0, x, d, FirstFill)
        /\ tlen' = Filled(0, x, d, FirstFill)
        /\ rxfifo' = <<>> /\ tcen' /\ xch' /\ burst' = burst /\ tc' = tc /\ spiPulses' = spiPulses
        /\ x % d = 0
    BY DEF Xfer
  <1>2. Rests
    BY DEF Clean
  <1>3. x \in Nat /\ x > 0 /\ x % d = 0 /\ d \in {1, 2, 4} /\ FirstFill = 8 /\ burst \in BOOLEAN
    BY <1>1, SpiAssumption DEF FirstFill, FIFO, Sides
  <1>4. PICK b : b = Fresh(xfer + 1, x)
    OBVIOUS
  <1>5. \A k \in 0 + 1 .. x : Byte(b, k) = <<"tx", xfer + 1, k>>
    BY <1>3, <1>4 DEF Fresh, Byte
  <1>6. PICK ws : ws = Words(b, 0, x, d, 8)
    OBVIOUS
  <1>7. PICK y : y = Filled(0, x, d, 8)
    OBVIOUS
  <1>8. PICK p : p = IF y = x THEN PadOf(x) ELSE 0
    OBVIOUS
  <1>9. PICK w : w = WordLen(d)
    OBVIOUS
  <1>10. 0 % d = 0 /\ 0 % 32 = 0
    BY <1>3
  <1>11. Filling(xfer + 1, 0, x, d, ws, y)
    BY <1>3, <1>5, <1>6, <1>7, <1>10, FillWords
  <1>12. /\ <<>> \o ws = ws
         /\ Len(ws) \in 1 .. 8
         /\ w * Len(ws) = y - 0 + p
         /\ \A i \in 1 .. Len(ws) : ReplyWord(ws[i]) = RxWord(xfer + 1, w, 0, p, i)
    BY <1>8, <1>9, <1>11 DEF Filling
  <1>13. y \in Nat /\ 0 < y /\ y <= x /\ y % d = 0 /\ (burst => y = 32 \/ (y = x /\ x < 32))
    BY <1>3, <1>11 DEF Filling
  <1>14. txfifo' = ws /\ tlen' = y /\ WordLen(dlen)' = w /\ PadNow' = p
    BY <1>1, <1>2, <1>3, <1>4, <1>6, <1>7, <1>8, <1>9, <1>12
       DEF Rests, Dry, WordLen, PadNow, PadOf
  <1>15. Sending(Len(ws))'
    <2>1. \A i \in 1 .. Len(ws) : Expected(i)' = RxWord(xfer + 1, w, 0, p, i)
      BY <1>1, <1>14 DEF Expected, RxWord
    <2>2. \A i \in 1 .. Len(ws) : ReplyWord(ws[i])' = ReplyWord(ws[i])
      BY <1>1 DEF ReplyWord, Reply
    <2>. QED
      BY <1>1, <1>2, <1>12, <1>14, <2>1, <2>2 DEF Sending, Rests
  <1>16. Progress'
    <2>1. Fresh(xfer + 1, x) = Mixed'
      BY <1>1, <1>3 DEF Mixed, Fresh
    <2>. QED
      BY <1>1, <1>3, <1>10, <1>13, <1>14, <2>1 DEF Progress
  <1>. QED
    BY <1>1, <1>2, <1>12, <1>14, <1>15, <1>16 DEF Moving, Rests, FIFO

(* The exchange moves the words to the receive FIFO.                       *)
LEMMA ExchangeMoves ==
  ASSUME Sides, Moving, Exchange
  PROVE  Moving'
  <1>1. /\ xch /\ txfifo # <<>>
        /\ rxfifo' = rxfifo \o [i \in DOMAIN txfifo |-> ReplyWord(txfifo[i])]
        /\ txfifo' = <<>> /\ ~xch' /\ tc'
    BY DEF Exchange
  <1>2. UNCHANGED <<burst, xfer, xlen, tlen, rlen, dlen, buf, tcen, spiPulses, len>>
    BY DEF Exchange
  <1>3. PICK q \in 1 .. FIFO :
          /\ WordLen(dlen) * q = tlen - rlen + PadNow
          /\ Sending(q) \/ Arrived(q)
    BY DEF Moving
  <1>4. Sending(q)
    BY <1>1, <1>3 DEF Arrived
  <1>5. rxfifo = <<>> /\ Len(txfifo) = q /\ \A i \in 1 .. q : ReplyWord(txfifo[i]) = Expected(i)
    BY <1>4 DEF Sending
  <1>6. q \in Nat
    BY DEF FIFO
  <1>. DEFINE rs == [i \in 1 .. q |-> ReplyWord(txfifo[i])]
              S  == {rs[i] : i \in 1 .. q}
  <1>7. rs \in [1 .. q -> S]
    OBVIOUS
  <1>8. \A i \in 1 .. q : rs[i] = Expected(i)
    BY <1>5
  <1>9. rxfifo' = <<>> \o rs
    BY <1>1, <1>5 
  <1>. HIDE DEF rs, S
  <1>10. rs \in Seq(S) /\ Len(rs) = q
    BY <1>6, <1>7, FunIsSeq
  <1>11. rxfifo' = rs
    BY <1>9, <1>10
  <1>12. \A i \in 1 .. q : Expected(i)' = Expected(i)
    BY <1>2 DEF Expected, RxWord, WordLen, PadNow, PadOf
  <1>13. Arrived(q)'
    BY <1>1, <1>8, <1>10, <1>11, <1>12 DEF Arrived
  <1>14. WordLen(dlen)' = WordLen(dlen) /\ PadNow' = PadNow
    BY <1>2 DEF WordLen, PadNow, PadOf
  <1>15. Progress'
    <2>1. Progress
      BY DEF Moving
    <2>2. Mixed' = Mixed
      BY <1>2 DEF Mixed
    <2>. QED
      BY <1>2, <2>1, <2>2 DEF Progress
  <1>. QED
    BY <1>2, <1>3, <1>13, <1>14, <1>15 DEF Moving

(* The buffer after n bytes were stored at offset r.                       *)
LEMMA StoredOf ==
  ASSUME NEW b, NEW x \in Nat, DOMAIN b = 1 .. x, Len(b) = x, NEW r \in Nat, r <= x,
         NEW bs, NEW n \in Nat, Len(bs) = n
  PROVE  LET m == IF x > r + n THEN x ELSE r + n
         IN  /\ Stored(b, r, bs) = [k \in 1 .. m |-> Stored(b, r, bs)[k]]
             /\ \A k \in 1 .. m :
                  Stored(b, r, bs)[k] = IF k > r /\ k <= r + n THEN bs[k - r] ELSE b[k]
  <1>. DEFINE m == IF x > r + n THEN x ELSE r + n
  <1>1. Stored(b, r, bs) =
          [k \in 1 .. m |-> IF k > r /\ k <= r + n THEN bs[k - r] ELSE Byte(b, k)]
    BY DEF Stored
  <1>2. \A k \in 1 .. m : ~(k > r /\ k <= r + n) => Byte(b, k) = b[k]
    <2>. SUFFICES ASSUME NEW k \in 1 .. m, ~(k > r /\ k <= r + n) PROVE k \in DOMAIN b
      BY DEF Byte
    <2>. QED
      OBVIOUS
  <1>. HIDE DEF m
  <1>3. Stored(b, r, bs) = [k \in 1 .. m |-> Stored(b, r, bs)[k]]
    BY <1>1
  <1>4. \A k \in 1 .. m :
          Stored(b, r, bs)[k] = IF k > r /\ k <= r + n THEN bs[k - r] ELSE b[k]
    BY <1>1, <1>2
  <1>. QED
    BY <1>3, <1>4 DEF m

(* What the handler finds: q words of w bytes, and what they stand for.    *)
LEMMA IntrFinds ==
  ASSUME Sides, Moving, Intr
  PROVE  \E q \in 1 .. 8, p \in 0 .. 3, w \in {1, 2, 4} :
           /\ w = WordLen(dlen) /\ p = PadNow /\ (burst => w = 4) /\ (~burst => w = dlen)
           /\ q * w = tlen - rlen + p
           /\ Len(rxfifo) = q /\ ~xch /\ txfifo = <<>>
           /\ Got(Received(rxfifo), xfer, rlen, p, q * w)
  <1>1. PICK q \in 1 .. FIFO :
          /\ WordLen(dlen) * q = tlen - rlen + PadNow
          /\ Sending(q) \/ Arrived(q)
    BY DEF Moving
  <1>2. tc
    BY DEF Intr
  <1>3. Arrived(q)
    BY <1>1, <1>2 DEF Sending
  <1>4. PICK w : w = WordLen(dlen)
    OBVIOUS
  <1>5. PICK p : p = PadNow
    OBVIOUS
  <1>6. w \in {1, 2, 4} /\ (burst => w = 4) /\ (~burst => w = dlen)
    BY <1>4, WordSizes DEF Sides, WordLen
  <1>7. xlen \in Nat /\ rlen \in Nat /\ tlen \in Nat
    BY DEF Moving, Progress
  <1>8. p \in 0 .. 3
    BY <1>5, <1>7 DEF PadNow, PadOf
  <1>9. q \in 1 .. 8
    BY DEF FIFO
  <1>10. Len(rxfifo) = q /\ ~xch /\ txfifo = <<>>
         /\ \A i \in 1 .. q : rxfifo[i] = RxWord(xfer, w, rlen, p, i)
    BY <1>3, <1>4, <1>5 DEF Arrived, Expected
  <1>11. Got(Received(rxfifo), xfer, rlen, p, q * w)
    BY <1>4, <1>6, <1>7, <1>8, <1>9, <1>10, ReceivedOf
  <1>12. q * w = w * q
    BY <1>6, <1>9
  <1>13. q * w = tlen - rlen + p
    BY <1>1, <1>4, <1>5, <1>12
  <1>. QED
    BY <1>4, <1>5, <1>6, <1>8, <1>9, <1>10, <1>11, <1>13

(* The start of the burst that offset x lies in.                           *)
LEMMA BurstStart ==
  ASSUME NEW r \in Nat, NEW x \in Nat, r % 32 = 0, r <= x, x < r + 32
  PROVE  (x \div 32) * 32 = r
  OBVIOUS

(* The handler goes on with the transfer, or ends it and sends the pulse.  *)
LEMMA IntrMoves ==
  ASSUME Sides, Moving, Intr
  PROVE  Moving' \/ Ended'
  <1>1. /\ buf' = Stored(buf, rlen, Received(rxfifo))
        /\ rlen' = rlen + Len(Received(rxfifo))
        /\ txfifo' = txfifo \o More(buf)
        /\ tlen' = Sent
        /\ rxfifo' = <<>> /\ ~tc'
        /\ tcen' = ~Finished
        /\ spiPulses' = IF Finished THEN spiPulses + 1 ELSE spiPulses
        /\ xch' = (xch \/ ~Finished)
    BY DEF Intr, Counted
  <1>2. UNCHANGED <<burst, xfer, place, xlen, dlen, timeouts, len>>
    BY DEF Intr
  <1>3. Progress /\ spiPulses = 0 /\ len = 0
    BY DEF Moving
  <1>4. PICK q \in 1 .. 8, p \in 0 .. 3, w \in {1, 2, 4} :
           /\ w = WordLen(dlen) /\ p = PadNow /\ (burst => w = 4) /\ (~burst => w = dlen)
           /\ q * w = tlen - rlen + p
           /\ Len(rxfifo) = q /\ ~xch /\ txfifo = <<>>
           /\ Got(Received(rxfifo), xfer, rlen, p, q * w)
    BY IntrFinds
  <1>5. PICK n : n = q * w
    OBVIOUS
  <1>6. PICK bs : bs = Received(rxfifo)
    OBVIOUS
  <1>7. xlen \in Nat /\ tlen \in Nat /\ rlen \in Nat /\ rlen < tlen /\ tlen <= xlen
    BY <1>3 DEF Progress
  <1>8. /\ n = tlen - rlen + p /\ n \in Nat /\ Len(bs) = n
        /\ \A k \in 1 .. n : bs[k] = IF k <= p THEN NoByte ELSE <<"rx", xfer, rlen + k - p>>
        /\ rlen' = rlen + n /\ buf' = Stored(buf, rlen, bs)
    BY <1>1, <1>4, <1>5, <1>6, <1>7 DEF Got
  <1>9. /\ DOMAIN buf = 1 .. xlen /\ Len(buf) = xlen
        /\ \A k \in 1 .. xlen : buf[k] = <<IF k <= rlen THEN "rx" ELSE "tx", xfer, k>>
    BY <1>3, <1>7 DEF Progress, Mixed
  <1>10. PICK m : m = IF xlen > rlen + n THEN xlen ELSE rlen + n
    OBVIOUS
  <1>11. /\ buf' = [k \in 1 .. m |-> buf'[k]]
         /\ \A k \in 1 .. m : buf'[k] = IF k > rlen /\ k <= rlen + n THEN bs[k - rlen] ELSE buf[k]
    <2>1. /\ n \in Nat /\ Len(bs) = n /\ buf' = Stored(buf, rlen, bs)
          /\ DOMAIN buf = 1 .. xlen /\ Len(buf) = xlen
      BY <1>8, <1>9, Zenon
    <2>2. rlen <= xlen
      BY <1>7
    <2>. QED
      BY <1>7, <1>10, <2>1, <2>2, StoredOf, SMTT(40)
  <1>12. Finished <=> rlen + n >= xlen
    BY <1>2, <1>8 DEF Finished
  <1>13. CASE tlen < xlen
    <2>1. p = 0
      BY <1>4, <1>7, <1>13 DEF PadNow
    <2>2. rlen + n = tlen /\ m = xlen /\ ~Finished
      BY <1>7, <1>8, <1>10, <1>12, <1>13, <2>1
    <2>3. PICK ws : ws = Words(buf, tlen, xlen, dlen, Room)
      OBVIOUS
    <2>4. PICK y : y = Filled(tlen, xlen, dlen, Room)
      OBVIOUS
    <2>5. /\ Room \in 1 .. 8 /\ (burst => Room = 8)
      BY <1>4 DEF Room, FIFO
    <2>6. \A k \in tlen + 1 .. xlen : Byte(buf, k) = <<"tx", xfer, k>>
      <3>. SUFFICES ASSUME NEW k \in tlen + 1 .. xlen PROVE Byte(buf, k) = <<"tx", xfer, k>>
        OBVIOUS
      <3>1. k \in 1 .. xlen /\ ~(k <= rlen)
        BY <1>7
      <3>. QED
        BY <1>9, <3>1 DEF Byte
    <2>7. xlen % dlen = 0 /\ tlen % dlen = 0 /\ dlen \in {1, 2, 4} /\ burst \in BOOLEAN
      BY <1>3, WordSizes DEF Progress, Sides
    <2>8. burst => tlen % 32 = 0
      BY <1>3, <1>7, <1>13 DEF Progress
    <2>9. Filling(xfer, tlen, xlen, dlen, ws, y)
      BY <1>7, <1>13, <2>3, <2>4, <2>5, <2>6, <2>7, <2>8, FillWords
    <2>10. PICK v : v = IF y = xlen THEN PadOf(xlen) ELSE 0
      OBVIOUS
    <2>11. /\ <<>> \o ws = ws
           /\ Len(ws) \in 1 .. 8
           /\ w * Len(ws) = y - tlen + v
           /\ \A i \in 1 .. Len(ws) : ReplyWord(ws[i]) = RxWord(xfer, w, tlen, v, i)
      BY <1>4, <2>9, <2>10 DEF Filling
    <2>12. /\ y \in Nat /\ tlen < y /\ y <= xlen /\ y % dlen = 0
           /\ (burst => y = tlen + 32 \/ (y = xlen /\ xlen - tlen < 32))
      BY <2>9 DEF Filling
    <2>13. txfifo' = ws /\ tlen' = y /\ rlen' = tlen
      BY <1>1, <1>4, <1>8, <1>13, <2>2, <2>3, <2>4, <2>11 DEF More, Sent
    <2>14. WordLen(dlen)' = w /\ PadNow' = v
      BY <1>2, <1>4, <2>10, <2>13 DEF WordLen, PadNow, PadOf
    <2>15. Sending(Len(ws))'
      <3>1. \A i \in 1 .. Len(ws) : Expected(i)' = RxWord(xfer, w, tlen, v, i)
        BY <1>2, <2>13, <2>14 DEF Expected, RxWord
      <3>2. \A i \in 1 .. Len(ws) : ReplyWord(ws[i])' = ReplyWord(ws[i])
        BY <1>2 DEF ReplyWord, Reply
      <3>. QED
        BY <1>1, <2>2, <2>11, <2>13, <3>1, <3>2 DEF Sending
    <2>16. buf' = Mixed'
      <3>1. \A k \in 1 .. xlen : buf'[k] = <<IF k <= tlen THEN "rx" ELSE "tx", xfer, k>>
        <4>. SUFFICES ASSUME NEW k \in 1 .. xlen
                      PROVE  buf'[k] = <<IF k <= tlen THEN "rx" ELSE "tx", xfer, k>>
          OBVIOUS
        <4>1. CASE k > rlen /\ k <= tlen
          <5>1. buf'[k] = bs[k - rlen]
            BY <1>11, <2>2, <4>1
          <5>2. k - rlen \in 1 .. n /\ ~(k - rlen <= 0) /\ rlen + (k - rlen) - 0 = k
            BY <1>7, <1>8, <2>1, <4>1
          <5>3. bs[k - rlen] = <<"rx", xfer, rlen + (k - rlen) - 0>>
            BY <1>8, <2>1, <5>2
          <5>. QED
            BY <4>1, <5>1, <5>2, <5>3
        <4>2. CASE ~(k > rlen /\ k <= tlen)
          <5>1. buf'[k] = buf[k]
            BY <1>11, <2>2, <4>2
          <5>2. (k <= rlen) <=> (k <= tlen)
            BY <1>7, <4>2
          <5>. QED
            BY <1>9, <5>1, <5>2
        <4>. QED
          BY <4>1, <4>2
      <3>2. buf' = [k \in 1 .. xlen |-> buf'[k]]
        BY <1>11, <2>2
      <3>3. Mixed' = [k \in 1 .. xlen |-> <<IF k <= tlen THEN "rx" ELSE "tx", xfer, k>>]
        BY <1>2, <2>13 DEF Mixed
      <3>. QED
        BY <3>1, <3>2, <3>3
    <2>17. Progress'
      BY <1>2, <1>7, <2>7, <2>8, <2>12, <2>13, <2>16 DEF Progress
    <2>. QED
      BY <1>1, <1>2, <1>3, <2>2, <2>11, <2>13, <2>14, <2>15, <2>17 DEF Moving, FIFO
  <1>14. CASE tlen = xlen
    <2>1. p = PadOf(xlen) /\ n = xlen - rlen + p
      BY <1>4, <1>8, <1>14 DEF PadNow
    <2>2. rlen + n = xlen + p /\ m = xlen + p /\ Finished
      <3>1. n = tlen - rlen + p /\ p \in Nat
        BY <1>4, <1>8
      <3>. QED
        BY <1>7, <1>10, <1>12, <1>14, <3>1
    <2>3. txfifo' = <<>> /\ tlen' = xlen /\ rlen' = xlen + p
      <3>1. More(buf) = <<>> /\ Sent = tlen
        BY <1>7, <1>14 DEF More, Sent
      <3>. QED
        BY <1>1, <1>4, <1>8, <1>14, <2>2, <3>1
    <2>4. ~tcen' /\ spiPulses' = 1 /\ ~xch'
      <3>1. ~tcen' /\ ~xch'
        BY <1>1, <1>4, <2>2, Zenon
      <3>2. spiPulses' = spiPulses + 1
        BY <1>1, <2>2, Zenon
      <3>. QED
        BY <1>3, <3>1, <3>2
    <2>5. PadOf(xlen)' = p /\ LastBurst' = LastBurst
      BY <1>2, <2>1 DEF PadOf, LastBurst
    <2>6. DOMAIN buf' = 1 .. xlen + p
      BY <1>11, <2>2
    <2>7. p > 0 => LastBurst = rlen
      <3>. SUFFICES ASSUME p > 0 PROVE LastBurst = rlen
        OBVIOUS
      <3>1. burst /\ xlen % 4 > 0
        BY <2>1 DEF PadOf
      <3>2. rlen % 32 = 0 /\ (xlen = rlen + 32 \/ xlen - rlen < 32)
        BY <1>3, <1>14, <3>1 DEF Progress
      <3>3. xlen # rlen + 32
        BY <1>7, <3>1, <3>2
      <3>4. xlen < rlen + 32 /\ rlen <= xlen
        BY <1>7, <3>2, <3>3
      <3>5. (xlen \div 32) * 32 = rlen
        BY <1>7, <3>2, <3>4, BurstStart
      <3>. QED
        BY <3>5 DEF LastBurst, BURST_MAX
    <2>8. \A k \in 1 .. xlen : buf'[IF k > LastBurst THEN k + p ELSE k] = <<"rx", xfer, k>>
      <3>. SUFFICES ASSUME NEW k \in 1 .. xlen
                    PROVE  buf'[IF k > LastBurst THEN k + p ELSE k] = <<"rx", xfer, k>>
        OBVIOUS
      <3>1. CASE k > rlen
        <4>1. k + p \in 1 .. m /\ k + p > rlen /\ k + p <= rlen + n
          BY <1>7, <2>2, <3>1
        <4>2. buf'[k + p] = bs[(k + p) - rlen]
          BY <1>11, <4>1
        <4>3. (k + p) - rlen \in 1 .. n /\ ~((k + p) - rlen <= p)
              /\ rlen + ((k + p) - rlen) - p = k
          BY <1>7, <1>8, <2>2, <3>1
        <4>4. bs[(k + p) - rlen] = <<"rx", xfer, k>>
          BY <1>8, <4>3
        <4>5. (IF k > LastBurst THEN k + p ELSE k) = k + p
          <5>1. CASE p > 0
            BY <2>7, <3>1, <5>1
          <5>2. CASE p = 0
            BY <5>2
          <5>. QED
            BY <5>1, <5>2
        <4>. QED
          BY <4>2, <4>4, <4>5
      <3>2. CASE ~(k > rlen)
        <4>1. k \in 1 .. m /\ k <= rlen
          BY <1>7, <2>2, <3>2
        <4>2. buf'[k] = <<"rx", xfer, k>>
          BY <1>9, <1>11, <3>2, <4>1
        <4>3. (IF k > LastBurst THEN k + p ELSE k) = k
          <5>1. CASE p > 0
            BY <2>7, <3>2, <5>1
          <5>2. CASE p = 0
            BY <5>2
          <5>. QED
            BY <5>1, <5>2
        <4>. QED
          BY <4>2, <4>3
      <3>. QED
        BY <3>1, <3>2
    <2>. QED
      BY <1>1, <1>2, <1>3, <1>7, <2>3, <2>4, <2>5, <2>6, <2>8 DEF Ended, Dry
  <1>. QED
    BY <1>7, <1>13, <1>14

(* The padding is moved away, and every byte is the reply to its own.      *)
LEMMA ReturnRests ==
  ASSUME Sides, Ended, XferDone
  PROVE  Rests'
  <1>1. /\ buf' = Unpadded /\ rlen' = rlen - Padding /\ len' = rlen - Padding
        /\ spiPulses' = spiPulses - 1
        /\ UNCHANGED <<burst, xfer, xlen, tlen, dlen, txfifo, rxfifo, xch, tc, tcen>>
    BY DEF XferDone, Return, fifoVars
  <1>2. PICK p : p = PadOf(xlen)
    OBVIOUS
  <1>3. Padding = p
    BY <1>2 DEF Padding, PadOf
  <1>4. /\ ~tcen /\ spiPulses = 1 /\ ~tc /\ ~xch /\ Dry
        /\ xlen \in Nat /\ tlen = xlen /\ rlen = xlen + p
        /\ DOMAIN buf = 1 .. xlen + p
        /\ \A k \in 1 .. xlen :
             buf[IF k > LastBurst THEN k + p ELSE k] = <<"rx", xfer, k>>
    BY <1>2 DEF Ended
  <1>5. p \in Nat
    BY <1>2, <1>4 DEF PadOf
  <1>6. rlen' = xlen /\ len' = xlen /\ spiPulses' = 0
    BY <1>1, <1>3, <1>4, <1>5
  <1>7. \A k \in 1 .. xlen : buf'[k] = <<"rx", xfer, k>>
    <2>. SUFFICES ASSUME NEW k \in 1 .. xlen PROVE buf'[k] = <<"rx", xfer, k>>
      OBVIOUS
    <2>1. k \in DOMAIN buf /\ k + p \in DOMAIN buf /\ k <= xlen
      BY <1>4, <1>5
    <2>2. buf'[k] = IF k > LastBurst THEN buf[k + p] ELSE buf[k]
      BY <1>1, <1>3, <2>1 DEF Unpadded
    <2>3. buf[IF k > LastBurst THEN k + p ELSE k] = <<"rx", xfer, k>>
      BY <1>4
    <2>. QED
      BY <2>2, <2>3
  <1>8. ResultRight'
    BY <1>1, <1>6, <1>7 DEF ResultRight
  <1>. QED
    BY <1>1, <1>4, <1>6, <1>8 DEF Rests, Dry

(* Every step keeps the types.                                             *)
LEMMA SidesKept ==
  ASSUME Sides, [SpiNext]_spiVars
  PROVE  Sides'
  <1>1. ASSUME NEW x \in Lengths, NEW d \in dlens, Xfer(x, d) PROVE Sides'
    BY <1>1 DEF Sides, Xfer
  <1>2. CASE Exchange
    BY <1>2 DEF Sides, Exchange
  <1>3. CASE Intr
    <2>1. tcen' \in BOOLEAN /\ xch' \in BOOLEAN /\ tc' \in BOOLEAN
      BY <1>3, Zenon DEF Intr, Sides, Finished
    <2>2. spiPulses' \in Nat
      BY <1>3 DEF Intr, Sides
    <2>. QED
      BY <1>3, <2>1, <2>2 DEF Sides, Intr
  <1>4. CASE XferDone
    BY <1>4 DEF Sides, XferDone, Return, fifoVars
  <1>5. CASE WaitTimesOut
    BY <1>5, SpiAssumption DEF Sides, WaitTimesOut, fifoVars
  <1>6. CASE XferTimeout
    BY <1>6 DEF Sides, XferTimeout, Return, fifoVars
  <1>7. CASE UNCHANGED spiVars
    BY <1>7 DEF Sides, spiVars, fifoVars
  <1>. QED
    BY <1>1, <1>2, <1>3, <1>4, <1>5, <1>6, <1>7 DEF SpiNext

(* Every step keeps the count of pulses.                                   *)
LEMMA PulsesKept ==
  ASSUME Sides, Pulses, [SpiNext]_spiVars
  PROVE  Pulses'
  <1>1. spiPulses \in Nat /\ timeouts \in Nat /\ tcen \in BOOLEAN
    BY SpiAssumption DEF Sides
  <1>2. ASSUME NEW x \in Lengths, NEW d \in dlens, Xfer(x, d) PROVE Pulses'
    BY <1>1, <1>2 DEF Pulses, Xfer
  <1>3. CASE Exchange
    BY <1>3 DEF Pulses, Exchange
  <1>4. CASE Intr
    <2>1. tcen /\ UNCHANGED <<place, timeouts>>
      BY <1>4 DEF Intr
    <2>2. CASE Finished
      <3>1. ~tcen' /\ spiPulses' = spiPulses + 1
        BY <1>4, <2>2, Zenon DEF Intr
      <3>. QED
        BY <1>1, <2>1, <3>1 DEF Pulses
    <2>3. CASE ~Finished
      <3>1. tcen' /\ spiPulses' = spiPulses
        BY <1>4, <2>3, Zenon DEF Intr
      <3>. QED
        BY <1>1, <2>1, <3>1 DEF Pulses
    <2>. QED
      BY <2>2, <2>3
  <1>5. CASE XferDone
    BY <1>1, <1>5 DEF Pulses, XferDone, Return, fifoVars
  <1>6. CASE WaitTimesOut
    BY <1>1, <1>6 DEF Pulses, WaitTimesOut, fifoVars
  <1>7. CASE XferTimeout
    BY <1>1, <1>7 DEF Pulses, XferTimeout, Return, fifoVars
  <1>8. CASE UNCHANGED spiVars
    BY <1>8 DEF Pulses, spiVars, fifoVars
  <1>. QED
    BY <1>2, <1>3, <1>4, <1>5, <1>6, <1>7, <1>8 DEF SpiNext

(* Every step without a timeout keeps what holds without one.              *)
LEMMA CleanKept ==
  ASSUME Sides, timeouts = 0, Clean, [SpiNext]_spiVars, timeouts' = 0
  PROVE  Clean'
  <1>1. ASSUME NEW x \in Lengths, NEW d \in dlens, Xfer(x, d) PROVE Clean'
    <2>1. place = "idle" /\ place' = "wait"
      BY <1>1 DEF Xfer
    <2>. QED
      BY <1>1, <2>1, XferMoves DEF Clean
  <1>2. CASE Exchange
    <2>1. xch /\ place' = place
      BY <1>2 DEF Exchange
    <2>2. place = "wait" /\ Moving
      BY <2>1 DEF Clean, Sides, Rests, Ended
    <2>. QED
      BY <1>2, <2>1, <2>2, ExchangeMoves DEF Clean
  <1>3. CASE Intr
    <2>1. tc /\ place' = place
      BY <1>3 DEF Intr
    <2>2. place = "wait" /\ Moving
      BY <2>1 DEF Clean, Sides, Rests, Ended
    <2>. QED
      BY <1>3, <2>1, <2>2, IntrMoves DEF Clean
  <1>4. CASE XferDone
    <2>1. place = "wait" /\ spiPulses > 0 /\ place' = "idle"
      BY <1>4 DEF XferDone, Return
    <2>2. Ended
      BY <2>1 DEF Clean, Moving
    <2>. QED
      BY <1>4, <2>1, <2>2, ReturnRests DEF Clean
  <1>5. CASE WaitTimesOut
    BY <1>5 DEF WaitTimesOut
  <1>6. CASE XferTimeout
    BY <1>6 DEF XferTimeout, Clean
  <1>7. CASE UNCHANGED spiVars
    <2>1. Clean' <=> Clean
      BY <1>7 DEF spiVars, fifoVars, Clean, Rests, Moving, Ended, Dry, Progress, Mixed,
         Sending,
                  Arrived, Expected, PadNow, PadOf, RxWord, WordLen, ReplyWord, Reply, ResultRight,
                  LastBurst
    <2>. QED
      BY <2>1
  <1>. QED
    BY <1>1, <1>2, <1>3, <1>4, <1>5, <1>6, <1>7 DEF SpiNext

(* The invariant holds initially.                                          *)
LEMMA SpiInvInit == SpiInit => SpiInv
  <1>. SUFFICES ASSUME SpiInit PROVE SpiInv
    OBVIOUS
  <1>1. Sides /\ Pulses
    <2>1. 0 \in 0 .. MaxTimeouts
      BY SpiAssumption
    <2>2. Sides
      BY <2>1 DEF SpiInit, Sides
    <2>3. Pulses
      BY DEF SpiInit, Pulses
    <2>. QED
      BY <2>2, <2>3
  <1>2. Clean
    BY DEF SpiInit, Clean, Rests, Dry, ResultRight
  <1>. QED
    BY <1>1, <1>2 DEF SpiInv

(* Every step keeps the invariant.                                         *)
LEMMA SpiInvStep == SpiInv /\ [SpiNext]_spiVars => SpiInv'
  <1>. SUFFICES ASSUME SpiInv, [SpiNext]_spiVars PROVE SpiInv'
    OBVIOUS
  <1>1. Sides' /\ Pulses'
    BY SidesKept, PulsesKept DEF SpiInv
  <1>2. timeouts' = 0 => timeouts = 0
    <2>1. timeouts \in Nat
      BY SpiAssumption DEF SpiInv, Sides
    <2>2. timeouts' = timeouts \/ timeouts' = timeouts + 1
      BY DEF SpiNext, Xfer, Exchange, Intr, XferDone, WaitTimesOut, XferTimeout, spiVars
    <2>. QED
      BY <2>1, <2>2
  <1>. QED
    BY <1>1, <1>2, CleanKept DEF SpiInv

(* It implies both properties of the runs.                                 *)
LEMMA SpiInvUse == SpiInv => HandlerKeepsUp /\ ResultRight
  <1>. SUFFICES ASSUME SpiInv PROVE HandlerKeepsUp /\ ResultRight
    OBVIOUS
  <1>1. Sides /\ Pulses /\ (timeouts = 0 => Clean)
    BY DEF SpiInv
  <1>2. ResultRight
    BY <1>1 DEF ResultRight, Clean, Rests
  <1>3. ASSUME timeouts = 0
        PROVE  /\ tlen \in 0 .. xlen /\ rlen \in 0 .. xlen + 3 /\ len \in 0 .. xlen
               /\ Len(txfifo) <= FIFO /\ Len(rxfifo) <= FIFO
               /\ place = "wait" => spiPulses = 1 \/ (tcen /\ (tc \/ (xch /\ txfifo # <<>>)))
    <2>1. CASE place = "idle"
      <3>1. Rests
        BY <1>1, <1>3, <2>1 DEF Clean
      <3>2. xlen \in Nat /\ tlen \in 0 .. xlen /\ rlen \in 0 .. xlen /\ len \in {0, xlen} /\ Dry
        BY <3>1 DEF Rests
      <3>. QED
        BY <2>1, <3>2 DEF Dry, FIFO
    <2>2. CASE place = "wait" /\ Moving
      <3>1. PICK q \in 1 .. FIFO : Sending(q) \/ Arrived(q)
        BY <2>2 DEF Moving
      <3>2. Len(txfifo) <= FIFO /\ Len(rxfifo) <= FIFO /\ (tc \/ (xch /\ txfifo # <<>>))
        BY <3>1 DEF Sending, Arrived, FIFO
      <3>3. tcen /\ len = 0 /\ Progress
        BY <2>2 DEF Moving
      <3>4. xlen \in Nat /\ tlen \in 0 .. xlen /\ rlen \in 0 .. xlen + 3
        BY <3>3 DEF Progress
      <3>. QED
        BY <3>2, <3>3, <3>4
    <2>3. CASE place = "wait" /\ Ended
      <3>1. /\ spiPulses = 1 /\ Dry /\ len = 0 /\ xlen \in Nat
            /\ tlen = xlen /\ rlen = xlen + PadOf(xlen)
        BY <2>3 DEF Ended
      <3>2. PadOf(xlen) \in 0 .. 3
        BY <3>1 DEF PadOf
      <3>. QED
        BY <3>1, <3>2 DEF Dry, FIFO
    <2>. QED
      BY <1>1, <1>3, <2>1, <2>2, <2>3 DEF Clean, Sides
  <1>4. SpiTypeOK
    BY <1>1, <1>3 DEF SpiTypeOK, Sides
  <1>5. spiPulses <= timeouts + (IF place = "wait" THEN 1 ELSE 0)
    BY <1>1, SpiAssumption DEF Pulses, Sides
  <1>. QED
    BY <1>2, <1>3, <1>4, <1>5 DEF HandlerKeepsUp

(* The invariant holds in every state.                                     *)
THEOREM SpiInvariant == SpiSpec => []SpiInv
  <1>1. SpiInit => SpiInv
    BY SpiInvInit
  <1>2. SpiInv /\ [SpiNext]_spiVars => SpiInv'
    BY SpiInvStep
  <1>. QED
    BY <1>1, <1>2, PTL DEF SpiSpec

(* HandlerKeepsUp for every set of lengths, size of word and number of     *)
(* transfers and timeouts: as long as nothing timed out neither FIFO       *)
(* overflows and the refills never run dry (spi_intr, intr.c), and a       *)
(* transfer leaves a pulse behind only when it timed out (mx35_wait,       *)
(* wait.c).                                                                *)
THEOREM KeepsUpCorrect == SpiSpec => []HandlerKeepsUp
  <1>1. SpiInv => HandlerKeepsUp
    BY SpiInvUse
  <1>. QED
    BY <1>1, SpiInvariant, PTL

(* ResultRight for every set of lengths and size of word: mx35_xfer        *)
(* returns every byte of the transfer, each the reply to the byte at its   *)
(* place, across bursts and odd lengths (mxcspi.c and intr.c).             *)
THEOREM ResultCorrect == SpiSpec => []ResultRight
  <1>1. SpiInv => ResultRight
    BY SpiInvUse
  <1>. QED
    BY <1>1, SpiInvariant, PTL
=============================================================================
