------------------------------ MODULE McTouch ------------------------------
(***************************************************************************)
(* The touch screen driver of the MC13892 (devi/mc13892/touch.c): a thread *)
(* that serves the interrupt of a touch, and a handler of the input        *)
(* runtime that polls for more points, or the release, when a timer says   *)
(* so.  Both put the controller into position mode, convert, report, and   *)
(* put it back into interrupt mode, with dp->mutex held.                   *)
(*                                                                         *)
(* Coordinates are told apart by what became of them: a point that was     *)
(* accepted, a sum of raw samples, or what happened to be in a local       *)
(* variable.  x and y together make one coordinate.                        *)
(***************************************************************************)
EXTENDS Integers, FiniteSets

CONSTANT MaxTimerPulses   \* bound: pulses of the timer not yet handled

ASSUME TouchAssumption == MaxTimerPulses \in Nat \ {0}

VARIABLES
  finger,            \* "up" or "down" (external)
  mode, TSI,         \* mode of the controller, its interrupt bit
  masked, pulses,    \* InterruptMask nesting, pulses for intr_thread
  timer, ticks,      \* timer armed, pulses of it for touch_pulse
  buttons, last,     \* dp->tp.buttons; dp->lastx and lasty
  emitted,           \* the last event handed to the input runtime
  mutex, intr, poll  \* dp->mutex, and where the two threads are

hwVars  == <<finger, mode, TSI>>
vars    == <<hwVars, masked, pulses, timer, ticks, buttons, last, emitted, mutex, intr, poll>>

LEFT == "left"

Init ==
  /\ finger = "up" /\ mode = "interrupt" /\ TSI = FALSE
  /\ masked = 0 /\ pulses = 0 /\ timer = FALSE /\ ticks = 0
  /\ buttons = "none" /\ last = "point"
  /\ emitted = [at |-> "point", buttons |-> "none"]
  /\ mutex = "free" /\ intr = "receive" /\ poll = "out"
-----------------------------------------------------------------------------
(***************************************************************************)
(* The finger, the controller, the interrupt and the timer (external).     *)
(***************************************************************************)
(* Both edges raise TSI; after debouncing, that of a release need not.     *)
Finger ==
  /\ finger' = IF finger = "up" THEN "down" ELSE "up"
  /\ \/ TSI' = (TSI \/ mode = "interrupt")
     \/ finger = "down" /\ UNCHANGED TSI
  /\ UNCHANGED <<mode, masked, pulses, timer, ticks, buttons, last, emitted, mutex, intr, poll>>

HwInterrupt ==
  /\ TSI /\ masked = 0
  /\ masked' = 1 /\ pulses' = pulses + 1
  /\ UNCHANGED <<hwVars, timer, ticks, buttons, last, emitted, mutex, intr, poll>>

Expire ==
  /\ timer /\ ticks < MaxTimerPulses
  /\ timer' = FALSE /\ ticks' = ticks + 1
  /\ UNCHANGED <<hwVars, masked, pulses, buttons, last, emitted, mutex, intr, poll>>

(***************************************************************************)
(* What a conversion may find: the resistance of a lifted pen, samples too *)
(* far apart in the first coordinate or in the second, a point too far     *)
(* from the last ones, which is looked at while the button is down, or a   *)
(* point.                                                                  *)
(***************************************************************************)
Samples ==
  IF finger = "up" THEN {"lifted"}
  ELSE {"spread", "half", "point"} \cup IF buttons = LEFT THEN {"jump"} ELSE {}

(* process_data: the coordinates and the buttons it leaves. *)
Processed(s) ==
  CASE s = "lifted" -> [at |-> last, buttons |-> "none"]
    [] s = "spread" -> [at |-> "stack", buttons |-> buttons]
    [] s = "half"   -> [at |-> "raw", buttons |-> buttons]
    [] s = "jump"   -> [at |-> "raw", buttons |-> buttons]
    [] s = "point"  -> [at |-> "point", buttons |-> LEFT]

(* Mutant: the timer is started again for good points only. *)
RestartsOnPoint(e) == e.at = "point" /\ e.buttons # "none"

Restarts(e) == e.buttons # "none"

(* The result is reported whatever process_data returns. *)
Report ==
  \E s \in Samples : LET e == Processed(s) IN
    /\ buttons' = e.buttons /\ last' = e.at /\ emitted' = e
    /\ timer' = (timer \/ Restarts(e))

(* Mutant: nobody waits for the mutex. *)
MayEnterAny == TRUE

MayEnter == mutex = "free"

(* Status cleared, interrupt mode, mutex let go. *)
Leave == TSI' = FALSE /\ mode' = "interrupt" /\ mutex' = "free"
-----------------------------------------------------------------------------
(***************************************************************************)
(* intr_thread.                                                            *)
(***************************************************************************)
IntrReceive ==
  /\ intr = "receive" /\ pulses > 0
  /\ pulses' = pulses - 1
  /\ intr' = "lock"
  /\ UNCHANGED <<hwVars, masked, timer, ticks, buttons, last, emitted, mutex, poll>>

(* The timer is stopped; a pulse it has sent stays. *)
IntrLock ==
  /\ intr = "lock" /\ MayEnter
  /\ mutex' = "intr" /\ intr' = "convert"
  /\ timer' = FALSE
  /\ TSI' = FALSE /\ mode' = "position"
  /\ UNCHANGED <<finger, masked, pulses, ticks, buttons, last, emitted, poll>>

IntrReport ==
  /\ intr = "convert"
  /\ Report
  /\ intr' = "leave"
  /\ UNCHANGED <<hwVars, masked, pulses, ticks, mutex, poll>>

IntrLeave ==
  /\ intr = "leave"
  /\ Leave
  /\ intr' = "unmask"
  /\ UNCHANGED <<finger, masked, pulses, timer, ticks, buttons, last, emitted, poll>>

IntrUnmask ==
  /\ intr = "unmask"
  /\ masked' = masked - 1
  /\ intr' = "receive"
  /\ UNCHANGED <<hwVars, pulses, timer, ticks, buttons, last, emitted, mutex, poll>>

(***************************************************************************)
(* touch_pulse.                                                            *)
(***************************************************************************)
PollMask ==
  /\ poll = "out" /\ ticks > 0
  /\ ticks' = ticks - 1
  /\ masked' = masked + 1
  /\ poll' = "lock"
  /\ UNCHANGED <<hwVars, pulses, timer, buttons, last, emitted, mutex, intr>>

PollLock ==
  /\ poll = "lock" /\ MayEnter
  /\ mutex' = "poll" /\ poll' = "convert"
  /\ TSI' = FALSE /\ mode' = "position"
  /\ UNCHANGED <<finger, masked, pulses, timer, ticks, buttons, last, emitted, intr>>

PollReport ==
  /\ poll = "convert"
  /\ Report
  /\ poll' = "leave"
  /\ UNCHANGED <<hwVars, masked, pulses, ticks, mutex, intr>>

PollLeave ==
  /\ poll = "leave"
  /\ Leave
  /\ poll' = "unmask"
  /\ UNCHANGED <<finger, masked, pulses, timer, ticks, buttons, last, emitted, intr>>

(* Mutant: every level of masking is undone. *)
UnmaskAll == 0

UnmaskOne == masked - 1

PollUnmask ==
  /\ poll = "unmask"
  /\ masked' = UnmaskOne
  /\ poll' = "out"
  /\ UNCHANGED <<hwVars, pulses, timer, ticks, buttons, last, emitted, mutex, intr>>

IntrStep == IntrReceive \/ IntrLock \/ IntrReport \/ IntrLeave \/ IntrUnmask
PollStep == PollMask \/ PollLock \/ PollReport \/ PollLeave \/ PollUnmask

Next == Finger \/ HwInterrupt \/ Expire \/ IntrStep \/ PollStep

Spec == Init /\ [][Next]_vars

(* The threads run and the timer expires; nothing is asked of the finger.  *)
TouchFairness ==
  WF_vars(IntrStep) /\ WF_vars(PollStep) /\ WF_vars(Expire) /\ WF_vars(HwInterrupt)

FairSpec == Spec /\ TouchFairness
-----------------------------------------------------------------------------
(* Every variable has its type; masking nests twice at most, and what was  *)
(* reported last is what both threads remember.                            *)
TypeOK ==
  /\ finger \in {"up", "down"} /\ mode \in {"interrupt", "position"} /\ TSI \in BOOLEAN
  /\ masked \in 0 .. 2 /\ pulses \in 0 .. 1 /\ ticks \in 0 .. MaxTimerPulses
  /\ timer \in BOOLEAN /\ buttons \in {"none", LEFT}
  /\ emitted.buttons = buttons /\ emitted.at = last

(* The interrupt is masked once for its pulse or the thread that serves it *)
(* and once for the poll, and each takes its own back.                     *)
MaskBalanced ==
  masked = pulses + (IF intr = "receive" THEN 0 ELSE 1) + (IF poll = "out" THEN 0 ELSE 1)

(* A conversion is made in position mode: the other thread does not put    *)
(* the controller back into interrupt mode under it.                       *)
ModeOwned == "convert" \in {intr, poll} => mode = "position"

(* A press that was reported is never forgotten: with both threads at rest *)
(* the timer runs, or a pulse is on its way.                               *)
PressWatched ==
  (buttons = LEFT /\ intr = "receive" /\ poll = "out") => timer \/ ticks > 0 \/ pulses > 0

(* When the finger stays away after a press that was reported, the release *)
(* is reported.                                                            *)
ReleaseReported ==
  (buttons = LEFT /\ finger = "up") ~> (buttons = "none" \/ finger = "down")
=============================================================================
