------------------------------ MODULE Tsc2007 ------------------------------
(***************************************************************************)
(* The touch screen driver of the TSC2007 (devi/tsc2007/tsc2007.c).  The   *)
(* controller interrupts when the screen is touched and says nothing of a  *)
(* release: intr_thread reads the position over I2C, reports it and starts *)
(* a timer, and tsc2007_pulse, which the input runtime calls when the      *)
(* timer has run out, reports the release.  Both end with InterruptUnmask, *)
(* though only the interrupt itself masks.                                 *)
(*                                                                         *)
(* A conversion is told apart by what the thread makes of it: "garbage" if *)
(* it is 0, 0xFFF, "near" or "far" as it is within touch_delta of the last *)
(* one or not, "edge" if it is near but one of its coordinates is that of  *)
(* a garbage packet.  An I2C transfer that fails leaves an old position or *)
(* half of one, which may be any of these; with the pen lifted too, there  *)
(* may be noise.                                                           *)
(***************************************************************************)
EXTENDS Integers

CONSTANTS
  MaxReleases,   \* bound: timer pulses tsc2007_pulse has not yet seen
  MaxTouches     \* bound: pulses of the interrupt intr_thread has not yet seen

ASSUME TscAssumption == MaxReleases \in Nat \ {0} /\ MaxTouches \in Nat \ {0}

NUMBER_OF_RETRY == 4

VARIABLES
  pen, penirq,       \* the pen touches, the controller may say so (external)
  tscMask, touches,  \* the kernel's count of masks, pulses for intr_thread
  releaseTimer,      \* dp->timerid runs
  releases,          \* its pulses, for tsc2007_pulse
  tscMutex,          \* who holds dp->mutex
  reader, try,       \* where intr_thread is, i
  tp,                \* dp->tp.x, y: "garbage", "edge" or "point"
  releaser,          \* where tsc2007_pulse is
  pressed            \* the last report said that the button is down

tscVars == <<pen, penirq, tscMask, touches, releaseTimer, releases, tscMutex,
             reader, try, tp, releaser, pressed>>

TscInit ==
  /\ pen = FALSE /\ penirq = TRUE /\ tscMask = 0 /\ touches = 0
  /\ releaseTimer = FALSE /\ releases = 0 /\ tscMutex = "free"
  /\ reader = "receive" /\ try = 0 /\ tp = "garbage"
  /\ releaser = "rest" /\ pressed = FALSE

Pen ==
  /\ pen' = ~pen
  /\ UNCHANGED <<penirq, tscMask, touches, releaseTimer, releases, tscMutex, reader, try, tp, releaser, pressed>>

(* _NTO_INTR_FLAGS_TRK_MSK with InterruptAttachEvent: the kernel masks a   *)
(* line that is low and sends the pulse.                                   *)
PenInterrupt ==
  /\ pen /\ penirq /\ tscMask = 0 /\ touches < MaxTouches
  /\ tscMask' = 1 /\ touches' = touches + 1
  /\ UNCHANGED <<pen, penirq, releaseTimer, releases, tscMutex, reader, try, tp, releaser, pressed>>

(* InterruptUnmask of an interrupt that is not masked does nothing. *)
OneUnmask == IF tscMask > 0 THEN tscMask - 1 ELSE 0

TimerExpires ==
  /\ releaseTimer /\ releases < MaxReleases
  /\ releaseTimer' = FALSE /\ releases' = releases + 1
  /\ UNCHANGED <<pen, penirq, tscMask, touches, tscMutex, reader, try, tp, releaser, pressed>>
-----------------------------------------------------------------------------
(***************************************************************************)
(* intr_thread.  The timer is stopped before the mutex is asked for, and   *)
(* a pulse it has sent already stays in the queue of the runtime.          *)
(***************************************************************************)
ReaderReceive ==
  /\ reader = "receive" /\ touches > 0
  /\ touches' = touches - 1 /\ releaseTimer' = FALSE /\ reader' = "lock"
  /\ UNCHANGED <<pen, penirq, tscMask, releases, tscMutex, try, tp, releaser, pressed>>

ReaderLock ==
  /\ reader = "lock" /\ tscMutex = "free"
  /\ tscMutex' = "reader" /\ reader' = "read" /\ try' = 0
  /\ UNCHANGED <<pen, penirq, tscMask, touches, releaseTimer, releases, tp, releaser, pressed>>

(* One pass of the loop.  A read with the interrupt of the pen disabled    *)
(* leaves it so; one that failed may not have reached the controller.  A   *)
(* position near the last one ends the loop, though never the first pass.  *)
ReadTry ==
  /\ reader = "read"
  /\ \E found \in {"garbage", "near", "edge", "far"}, reached \in BOOLEAN :
       LET accepted == found \in {"near", "edge"} IN
       /\ penirq' = (penirq /\ ~reached)
       /\ tp' = CASE found = "near" -> "point"
                  [] found = "edge" -> "edge"
                  [] OTHER -> "garbage"
       /\ try' = try + 1
       /\ reader' = IF (accepted /\ try > 0) \/ try + 1 = NUMBER_OF_RETRY THEN "report" ELSE "read"
  /\ UNCHANGED <<pen, tscMask, touches, releaseTimer, releases, tscMutex, releaser, pressed>>

ReaderReport ==
  /\ reader = "report"
  /\ pressed' = (pressed \/ tp = "point")
  /\ tscMutex' = "free" /\ reader' = "delay"
  /\ UNCHANGED <<pen, penirq, tscMask, touches, releaseTimer, releases, try, tp, releaser>>

(* Mutant: the timer is started for a position that was reported only. *)
StartForPoints == tp = "point"

(* The timer is started whatever was read. *)
StartTimer == TRUE

ReaderStart ==
  /\ reader = "delay"
  /\ releaseTimer' = StartTimer /\ reader' = "enable"
  /\ UNCHANGED <<pen, penirq, tscMask, touches, releases, tscMutex, try, tp, releaser, pressed>>

ReaderEnable ==
  /\ reader = "enable"
  /\ penirq' = TRUE /\ reader' = "unmask"
  /\ UNCHANGED <<pen, tscMask, touches, releaseTimer, releases, tscMutex, try, tp, releaser, pressed>>

ReaderUnmask ==
  /\ reader = "unmask"
  /\ tscMask' = OneUnmask /\ reader' = "receive"
  /\ UNCHANGED <<pen, penirq, touches, releaseTimer, releases, tscMutex, try, tp, releaser, pressed>>
-----------------------------------------------------------------------------
(***************************************************************************)
(* tsc2007_pulse: reports a release, pressed or not, at the place of the   *)
(* last press, or at 0, 0 before the first.                                *)
(***************************************************************************)
ReleaserLock ==
  /\ releaser = "rest" /\ releases > 0 /\ tscMutex = "free"
  /\ releases' = releases - 1 /\ tscMutex' = "releaser" /\ releaser' = "report"
  /\ UNCHANGED <<pen, penirq, tscMask, touches, releaseTimer, reader, try, tp, pressed>>

ReleaserReport ==
  /\ releaser = "report"
  /\ tp' \in {"point", "edge"} /\ pressed' = FALSE
  /\ tscMutex' = "free" /\ releaser' = "unmask"
  /\ UNCHANGED <<pen, penirq, tscMask, touches, releaseTimer, releases, reader, try>>

ReleaserUnmask ==
  /\ releaser = "unmask"
  /\ tscMask' = OneUnmask /\ releaser' = "rest"
  /\ UNCHANGED <<pen, penirq, touches, releaseTimer, releases, tscMutex, reader, try, tp, pressed>>

TscNext ==
  \/ Pen \/ PenInterrupt \/ TimerExpires
  \/ ReaderReceive \/ ReaderLock \/ ReadTry \/ ReaderReport
  \/ ReaderStart \/ ReaderEnable \/ ReaderUnmask
  \/ ReleaserLock \/ ReleaserReport \/ ReleaserUnmask

TscSpec == TscInit /\ [][TscNext]_tscVars
-----------------------------------------------------------------------------
(* Every variable has its type; the interrupt is masked once at most.     *)
TscTypeOK ==
  /\ pen \in BOOLEAN /\ penirq \in BOOLEAN /\ tscMask \in 0 .. 1 /\ touches \in 0 .. MaxTouches
  /\ releaseTimer \in BOOLEAN /\ releases \in 0 .. MaxReleases
  /\ tscMutex \in {"free", "reader", "releaser"}
  /\ reader \in {"receive", "lock", "read", "report", "delay", "enable", "unmask"}
  /\ try \in 0 .. NUMBER_OF_RETRY /\ tp \in {"garbage", "edge", "point"}
  /\ releaser \in {"rest", "report", "unmask"} /\ pressed \in BOOLEAN

Watched ==
  pressed => \/ releaseTimer \/ releases > 0 \/ releaser = "report"
             \/ reader \in {"lock", "read", "report", "delay"}

Heard == (reader = "receive" /\ touches = 0) => (tscMask = 0 /\ penirq)

(* A press that was reported will be followed by a release, although the   *)
(* interrupt thread stops the timer, may read nothing of use, and races    *)
(* with the handler that reports releases (Watched); and a thread that     *)
(* waits for the pen can be reached by its interrupt, although two threads *)
(* unmask it and one of them never masked it (Heard).                      *)
PressEnds == TscTypeOK /\ Watched /\ Heard
=============================================================================
