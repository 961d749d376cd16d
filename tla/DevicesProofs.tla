--------------------------- MODULE DevicesProofs ----------------------------
(***************************************************************************)
(* Proofs about six of the drivers that MCDevices composes: the touch      *)
(* controller TSC2007, the serial driver, the layers of the display, the   *)
(* audio ring, the I2C driver and the NAND driver of the flash.  No two of *)
(* them share anything but the name of their board, and each has its       *)
(* invariant and its theorems.                                             *)
(***************************************************************************)
EXTENDS AudioPcm, I2cMx35, Tsc2007, SerMx1, Imx35Layer, EtfsNand, Integers, TLAPS

(***************************************************************************)
(* Proof that every press that was reported is watched until its release   *)
(* and that the interrupt thread can be reached (PressEnds), for any       *)
(* number of pulses that wait.  Watched is inductive as it stands; Heard   *)
(* needs to know where the pen interrupt of the controller is enabled, and *)
(* the types need the bound of the loop and that the mask is 1 at most.    *)
(***************************************************************************)

LoopBounded == reader = "read" => try < NUMBER_OF_RETRY

PenEnabled == reader \in {"receive", "unmask"} => penirq

(* The mutex is held for a conversion and for a report of either thread.   *)
MutexHeld ==
  /\ tscMutex = "reader" <=> reader \in {"read", "report"}
  /\ tscMutex = "releaser" <=> releaser = "report"

TscInv == PressEnds /\ LoopBounded /\ PenEnabled /\ MutexHeld

(* A controller after tsc2007_reset.                                       *)
LEMMA TscStarts == TscInit => TscInv
  <1>. SUFFICES ASSUME TscInit PROVE TscInv
    OBVIOUS
  <1>1. MaxReleases \in Nat /\ MaxTouches \in Nat
    BY TscAssumption
  <1>2. TscTypeOK
    <2>1. 0 \in 0 .. MaxReleases /\ 0 \in 0 .. MaxTouches /\ 0 \in 0 .. 1 /\ 0 \in 0 .. NUMBER_OF_RETRY
      BY <1>1 DEF NUMBER_OF_RETRY
    <2>. QED
      BY <2>1 DEF TscInit, TscTypeOK
  <1>3. Watched /\ Heard /\ LoopBounded /\ PenEnabled /\ MutexHeld
    BY DEF TscInit, Watched, Heard, LoopBounded, PenEnabled, MutexHeld
  <1>. QED
    BY <1>2, <1>3 DEF TscInv, PressEnds

(* InterruptUnmask leaves nothing masked, whoever calls it.                *)
LEMMA UnmaskFrees == TscTypeOK => OneUnmask = 0
  BY DEF TscTypeOK, OneUnmask

(* The pen, the interrupt and the timer.                                   *)
LEMMA OutsideKeeps ==
  ASSUME TscInv, Pen \/ PenInterrupt \/ TimerExpires
  PROVE  TscInv'
  <1>1. CASE Pen
    BY <1>1 DEF Pen, TscInv, PressEnds, TscTypeOK, Watched, Heard, LoopBounded,
       PenEnabled, MutexHeld
  <1>2. CASE PenInterrupt
    <2>1. touches \in 0 .. MaxTouches /\ MaxTouches \in Nat
      BY TscAssumption DEF TscInv, PressEnds, TscTypeOK
    <2>2. touches' \in 0 .. MaxTouches /\ touches' # 0
      BY <1>2, <2>1 DEF PenInterrupt
    <2>3. TscTypeOK'
      BY <1>2, <2>2 DEF PenInterrupt, TscInv, PressEnds, TscTypeOK
    <2>4. Heard'
      BY <1>2, <2>2 DEF PenInterrupt, Heard
    <2>5. Watched' /\ LoopBounded' /\ PenEnabled' /\ MutexHeld'
      BY <1>2 DEF PenInterrupt, TscInv, PressEnds, Watched, LoopBounded, PenEnabled,
         MutexHeld
    <2>. QED
      BY <2>3, <2>4, <2>5 DEF TscInv, PressEnds
  <1>3. CASE TimerExpires
    <2>1. releases \in 0 .. MaxReleases /\ MaxReleases \in Nat
      BY TscAssumption DEF TscInv, PressEnds, TscTypeOK
    <2>2. releases' \in 0 .. MaxReleases /\ releases' > 0
      BY <1>3, <2>1 DEF TimerExpires
    <2>5. UNCHANGED <<pen, penirq, tscMask, touches, tscMutex, reader, try, tp, releaser, pressed>>
      BY <1>3 DEF TimerExpires
    <2>6. releaseTimer' \in BOOLEAN
      BY <1>3 DEF TimerExpires
    <2>3. TscTypeOK'
      BY <2>2, <2>5, <2>6 DEF TscInv, PressEnds, TscTypeOK
    <2>4. Watched' /\ Heard' /\ LoopBounded' /\ PenEnabled' /\ MutexHeld'
      BY <1>3, <2>2 DEF TimerExpires, TscInv, PressEnds, Watched, Heard, LoopBounded,
         PenEnabled, MutexHeld
    <2>. QED
      BY <2>3, <2>4 DEF TscInv, PressEnds
  <1>. QED
    BY <1>1, <1>2, <1>3

(* One pass of the loop that reads the position.                           *)
LEMMA ReadTryKeeps ==
  ASSUME TscInv, ReadTry
  PROVE  TscInv'
  <1>1. /\ reader = "read" /\ reader' \in {"read", "report"}
        /\ try' = try + 1 /\ (reader' = "read" => try + 1 # NUMBER_OF_RETRY)
        /\ penirq' \in BOOLEAN /\ tp' \in {"garbage", "edge", "point"}
        /\ UNCHANGED <<pen, tscMask, touches, releaseTimer, releases, tscMutex, releaser, pressed>>
    BY DEF ReadTry, TscInv, PressEnds, TscTypeOK
  <1>2. TscTypeOK' /\ LoopBounded'
    BY <1>1 DEF TscInv, PressEnds, TscTypeOK, LoopBounded, NUMBER_OF_RETRY
  <1>3. Watched' /\ Heard' /\ PenEnabled' /\ MutexHeld'
    BY <1>1 DEF TscInv, PressEnds, Watched, Heard, PenEnabled, MutexHeld
  <1>. QED
    BY <1>2, <1>3 DEF TscInv, PressEnds

(* The other steps of the interrupt thread.                                *)
LEMMA ReaderKeeps ==
  ASSUME TscInv,
         ReaderReceive \/ ReaderLock \/ ReaderReport \/ ReaderStart \/ ReaderEnable
  PROVE  TscInv'
  <1>1. CASE ReaderReceive
    <2>1. touches \in 0 .. MaxTouches /\ MaxTouches \in Nat
      BY TscAssumption DEF TscInv, PressEnds, TscTypeOK
    <2>2. touches' \in 0 .. MaxTouches
      BY <1>1, <2>1 DEF ReaderReceive
    <2>3. TscTypeOK'
      BY <1>1, <2>2 DEF ReaderReceive, TscInv, PressEnds, TscTypeOK
    <2>4. Watched' /\ Heard' /\ LoopBounded' /\ PenEnabled' /\ MutexHeld'
      BY <1>1 DEF ReaderReceive, TscInv, PressEnds, Watched, Heard, LoopBounded,
         PenEnabled, MutexHeld
    <2>. QED
      BY <2>3, <2>4 DEF TscInv, PressEnds
  <1>2. CASE ReaderLock
    BY <1>2 DEF ReaderLock, TscInv, PressEnds, TscTypeOK, Watched, Heard, LoopBounded,
       PenEnabled,
                MutexHeld, NUMBER_OF_RETRY
  <1>3. CASE ReaderReport
    BY <1>3 DEF ReaderReport, TscInv, PressEnds, TscTypeOK, Watched, Heard,
       LoopBounded, PenEnabled, MutexHeld
  <1>4. CASE ReaderStart
    BY <1>4 DEF ReaderStart, StartTimer, TscInv, PressEnds, TscTypeOK, Watched, Heard,
       LoopBounded,
                PenEnabled, MutexHeld
  <1>5. CASE ReaderEnable
    BY <1>5 DEF ReaderEnable, TscInv, PressEnds, TscTypeOK, Watched, Heard,
       LoopBounded, PenEnabled, MutexHeld
  <1>. QED
    BY <1>1, <1>2, <1>3, <1>4, <1>5

(* The interrupt thread unmasks its interrupt.                             *)
LEMMA UnmaskKeeps ==
  ASSUME TscInv, ReaderUnmask \/ ReleaserUnmask
  PROVE  TscInv'
  <1>1. tscMask' = 0
    BY UnmaskFrees DEF ReaderUnmask, ReleaserUnmask, TscInv, PressEnds
  <1>2. CASE ReaderUnmask
    BY <1>1, <1>2 DEF ReaderUnmask, TscInv, PressEnds, TscTypeOK, Watched, Heard,
       LoopBounded, PenEnabled, MutexHeld
  <1>3. CASE ReleaserUnmask
    BY <1>1, <1>3 DEF ReleaserUnmask, TscInv, PressEnds, TscTypeOK, Watched, Heard,
       LoopBounded, PenEnabled, MutexHeld
  <1>. QED
    BY <1>2, <1>3

(* The handler of the release timer.                                       *)
LEMMA ReleaserKeeps ==
  ASSUME TscInv, ReleaserLock \/ ReleaserReport
  PROVE  TscInv'
  <1>1. CASE ReleaserLock
    <2>1. releases \in 0 .. MaxReleases /\ MaxReleases \in Nat
      BY TscAssumption DEF TscInv, PressEnds, TscTypeOK
    <2>2. releases' \in 0 .. MaxReleases
      BY <1>1, <2>1 DEF ReleaserLock
    <2>3. TscTypeOK'
      BY <1>1, <2>2 DEF ReleaserLock, TscInv, PressEnds, TscTypeOK
    <2>4. Watched' /\ Heard' /\ LoopBounded' /\ PenEnabled' /\ MutexHeld'
      BY <1>1 DEF ReleaserLock, TscInv, PressEnds, TscTypeOK, Watched, Heard,
         LoopBounded, PenEnabled, MutexHeld
    <2>. QED
      BY <2>3, <2>4 DEF TscInv, PressEnds
  <1>2. CASE ReleaserReport
    BY <1>2 DEF ReleaserReport, TscInv, PressEnds, TscTypeOK, Watched, Heard,
       LoopBounded, PenEnabled, MutexHeld
  <1>. QED
    BY <1>1, <1>2

(* The inductive invariant of both threads, the mask and the timer.        *)
THEOREM TscInvariant == TscSpec => []TscInv
  <1>1. TscInv /\ [TscNext]_tscVars => TscInv'
    <2>. SUFFICES ASSUME TscInv, [TscNext]_tscVars PROVE TscInv'
      OBVIOUS
    <2>1. CASE UNCHANGED tscVars
      BY <2>1 DEF tscVars, TscInv, PressEnds, TscTypeOK, Watched, Heard, LoopBounded,
         PenEnabled, MutexHeld
    <2>. QED
      BY <2>1, OutsideKeeps, ReadTryKeeps, ReaderKeeps, UnmaskKeeps, ReleaserKeeps
         DEF TscNext
  <1>. QED
    BY <1>1, TscStarts, PTL DEF TscSpec

(* A reported press is followed by a release, and a thread that waits for  *)
(* the pen can be reached (intr_thread and tsc2007_pulse).                 *)
THEOREM PressEndsCorrect == TscSpec => []PressEnds
  <1>1. TscInv => PressEnds
    BY DEF TscInv
  <1>. QED
    BY <1>1, TscInvariant, PTL

-----------------------------------------------------------------------------
-----------------------------------------------------------------------------
(***************************************************************************)
(* Proof that output goes on (OutputGoesOn), for every size of the buffer  *)
(* and every level of the FIFO.  Between calls OutputGoesOn says what will *)
(* call tto again; the invariant says it of the calls that do not send as  *)
(* well: one that waits for the UART to drain, and TTO_CTRL, which is      *)
(* about to write back a copy of CR1.                                      *)
(***************************************************************************)

Asked == EVENT_TTO /\ EVENT_QUEUED

Called ==
  (obuf > 0 /\ ~paged) =>
    /\ tto_call \in {"none", "drain"} => TRDYEN \/ Asked \/ tx_tmr
    /\ tto_call = "ctrl" => cr1 \/ Asked \/ tx_tmr

SerInv == SerTypeOK /\ wiped = 0 /\ FlowKnown /\ Called

(* A device after create_device.                                           *)
LEMMA SerStarts == SerInit => SerInv
  <1>. SUFFICES ASSUME SerInit PROVE SerInv
    OBVIOUS
  <1>1. SerTypeOK
    <2>1. 0 \in 0 .. MaxOut /\ 0 \in 0 .. TxLevel + 1
      BY SerAssumption
    <2>. QED
      BY <2>1 DEF SerInit, SerTypeOK
  <1>2. FlowKnown /\ Called
    <2>1. ohflow \in BOOLEAN /\ cts = TRUE /\ paged = FALSE /\ RTSD = FALSE /\ obuf = 0
      BY DEF SerInit
    <2>2. ~(obuf > 0)
      BY <2>1
    <2>. QED
      BY <2>1, <2>2 DEF FlowKnown, Called
  <1>. QED
    BY <1>1, <1>2 DEF SerInit, SerInv

(* The line and the transmitter.                                           *)
LEMMA LineKeeps ==
  ASSUME SerInv, Line \/ Shift
  PROVE  SerInv'
  <1>1. SerTypeOK'
    <2>1. CASE Line
      BY <2>1 DEF Line, SerInv, SerTypeOK
    <2>2. CASE Shift
      <3>1. fifo' \in 0 .. TxLevel + 1
        BY <2>2, SerAssumption DEF Shift, SerInv, SerTypeOK
      <3>. QED
        BY <2>2, <3>1 DEF Shift, SerInv, SerTypeOK
    <2>. QED
      BY <2>1, <2>2
  <1>2. wiped' = 0 /\ FlowKnown' /\ Called'
    BY DEF Line, Shift, SerInv, FlowKnown, Called, Asked
  <1>. QED
    BY <1>1, <1>2 DEF SerInv

(* The handler: where it turns the transmit interrupt or the timer off, it *)
(* leaves an event for tto.                                                *)
LEMMA InterruptKeeps ==
  ASSUME SerInv, SerInterrupt
  PROVE  SerInv'
  <1>1. PICK rx \in {"none", "char", "xon", "xoff"}, late \in BOOLEAN :
          /\ (rx \in {"xon", "xoff"}) => ~ohflow
          /\ late => (RTSD /\ ohflow)
          /\ TRDYEN' = (TRDYEN /\ ~TRDY) /\ tx_tmr' = (tx_tmr /\ ~TRDY)
          /\ paged' = IF RTSD /\ ohflow THEN ~cts ELSE (paged \/ rx = "xoff") /\ rx # "xon"
          /\ EVENT_TTO' = (EVENT_TTO \/ TRDY \/ (RTSD /\ ohflow /\ cts) \/ rx = "xon")
          /\ EVENT_QUEUED' \in {TRUE, EVENT_QUEUED \/ TRDY \/ (RTSD /\ ohflow /\ cts) \/ rx = "xon"}
          /\ RTSD' = (RTSD /\ ~(RTSD /\ ohflow))
          /\ cts' = (cts # late) /\ unseen' = (unseen \/ late)
          /\ UNCHANGED <<ohflow, obuf, fifo, override, tto_call, cr1, wiped>>
    BY ZenonT(40) DEF SerInterrupt
  <1>2. SerTypeOK' /\ wiped' = 0
    <2>1. TRDYEN' \in BOOLEAN /\ tx_tmr' \in BOOLEAN /\ EVENT_TTO' \in BOOLEAN
      BY <1>1 DEF SerInv, SerTypeOK
    <2>2. EVENT_QUEUED' \in BOOLEAN
      BY <1>1 DEF SerInv, SerTypeOK
    <2>3. paged' \in BOOLEAN /\ RTSD' \in BOOLEAN /\ cts' \in BOOLEAN /\ unseen' \in BOOLEAN
      BY <1>1 DEF SerInv, SerTypeOK
    <2>. QED
      BY <1>1, <2>1, <2>2, <2>3 DEF SerInv, SerTypeOK
  <1>3. FlowKnown'
    BY <1>1 DEF SerInv, SerTypeOK, FlowKnown
  <1>4. Called'
    BY <1>1 DEF SerInv, SerTypeOK, Called, Asked
  <1>. QED
    BY <1>2, <1>3, <1>4 DEF SerInv

(* io-char enters a call.                                                  *)
LEMMA CallKeeps ==
  ASSUME SerInv, Write \/ Inject \/ Event \/ TxTimeout
  PROVE  SerInv'
  <1>1. SerTypeOK'
    <2>1. obuf' \in 0 .. MaxOut
      BY SerAssumption DEF Write, Inject, Event, TxTimeout, SerInv, SerTypeOK
    <2>2. CASE Write
      BY <2>1, <2>2 DEF Write, SerInv, SerTypeOK
    <2>5. CASE Inject
      BY <2>1, <2>5 DEF Inject, SerInv, SerTypeOK
    <2>3. CASE Event
      <3>1. tto_call' \in {"loop", "none"}
        BY <2>3 DEF Event
      <3>2. UNCHANGED <<ohflow, fifo, TRDYEN, cts, RTSD, paged, override, tx_tmr, cr1, unseen, wiped>>
        BY <2>3 DEF Event
      <3>3. EVENT_TTO' \in BOOLEAN /\ EVENT_QUEUED' \in BOOLEAN
        BY <2>3 DEF Event
      <3>. QED
        BY <2>1, <3>1, <3>2, <3>3 DEF SerInv, SerTypeOK
    <2>4. CASE TxTimeout
      <3>1. /\ tx_tmr' = FALSE /\ tto_call' = "loop"
            /\ UNCHANGED <<ohflow, fifo, TRDYEN, cts, RTSD, paged, override, EVENT_TTO, EVENT_QUEUED, cr1, unseen, wiped>>
        BY <2>4 DEF TxTimeout
      <3>. QED
        BY <2>1, <3>1 DEF SerInv, SerTypeOK
    <2>. QED
      BY <2>2, <2>3, <2>4, <2>5
  <1>2. wiped' = 0 /\ FlowKnown'
    BY DEF Write, Inject, Event, TxTimeout, SerInv, FlowKnown
  <1>3. Called'
    BY DEF Write, Inject, Event, TxTimeout, SerInv, Called, Asked
  <1>. QED
    BY <1>1, <1>2, <1>3 DEF SerInv

(* tto for data: what is left waits for an interrupt, or is suspended.     *)
LEMMA SendKeeps ==
  ASSUME SerInv, SendChar \/ LoopEnds \/ ReadCr1 \/ EnableTrdy
  PROVE  SerInv'
  <1>1. SerTypeOK'
    <2>1. CASE SendChar
      <3>1. obuf' \in 0 .. MaxOut /\ fifo' \in 0 .. TxLevel + 1
        BY <2>1, SerAssumption DEF SendChar, MaySend, TRDY, SerInv, SerTypeOK
      <3>. QED
        BY <2>1, <3>1 DEF SendChar, SerInv, SerTypeOK
    <2>2. CASE LoopEnds
      BY <2>2 DEF LoopEnds, SerInv, SerTypeOK
    <2>4. CASE EnableTrdy
      BY <2>4 DEF EnableTrdy, SerInv, SerTypeOK
    <2>3. CASE ReadCr1
      <3>1. tto_call' \in {"none", "enable"} /\ cr1' \in BOOLEAN
        BY <2>3 DEF ReadCr1, SerInv, SerTypeOK
      <3>. QED
        BY <2>3, <3>1 DEF ReadCr1, SerInv, SerTypeOK
    <2>. QED
      BY <2>1, <2>2, <2>3, <2>4
  <1>2. wiped' = 0 /\ FlowKnown'
    BY DEF SendChar, LoopEnds, ReadCr1, EnableTrdy, SerInv, FlowKnown
  <1>3. Called'
    BY DEF SendChar, LoopEnds, ReadCr1, EnableTrdy, RestWaits, SerInv, SerTypeOK,
       Called, Asked
  <1>. QED
    BY <1>1, <1>2, <1>3 DEF SerInv

(* The calls that do not send.                                             *)
LEMMA ControlKeeps ==
  ASSUME SerInv, Ctrl \/ Stty
  PROVE  SerInv'
  <1>1. SerTypeOK'
    BY DEF Ctrl, Stty, SerInv, SerTypeOK
  <1>2. wiped' = 0 /\ FlowKnown' /\ Called'
    BY DEF Ctrl, Stty, SerInv, SerTypeOK, FlowKnown, Called, Asked
  <1>. QED
    BY <1>1, <1>2 DEF SerInv

(* The reset comes when the FIFO is empty and no interrupt is pending, so  *)
(* that the transmit interrupt was off already.                            *)
LEMMA ResetKeeps ==
  ASSUME SerInv, SttyReset
  PROVE  SerInv'
  <1>1. TRDY /\ ~TRDYEN /\ wiped' = 0 /\ fifo' = 0
    BY SerAssumption DEF SttyReset, Drained, TRDY
  <1>2. SerTypeOK'
    BY <1>1, SerAssumption DEF SttyReset, SerInv, SerTypeOK
  <1>3. FlowKnown' /\ Called'
    BY <1>1 DEF SttyReset, SerInv, FlowKnown, Called, Asked
  <1>. QED
    BY <1>1, <1>2, <1>3 DEF SerInv

(* The inductive invariant of the handler, tto and ser_stty.               *)
THEOREM SerInvariant == SerSpec => []SerInv
  <1>1. SerInv /\ [SerNext]_serVars => SerInv'
    <2>. SUFFICES ASSUME SerInv, [SerNext]_serVars PROVE SerInv'
      OBVIOUS
    <2>1. CASE UNCHANGED serVars
      BY <2>1 DEF serVars, SerInv, SerTypeOK, FlowKnown, Called, Asked
    <2>. QED
      BY <2>1, LineKeeps, InterruptKeeps, CallKeeps, SendKeeps, ControlKeeps,
         ResetKeeps DEF SerNext
  <1>. QED
    BY <1>1, SerStarts, PTL DEF SerSpec

(* Output that waits and is not suspended is taken up again, and no        *)
(* character is wiped out (ser_intr, tto, ser_stty).                       *)
THEOREM OutputCorrect == SerSpec => []OutputGoesOn
  <1>1. SerInv => OutputGoesOn
    BY DEF SerInv, Called, Asked, OutputGoesOn, SomethingCalls
  <1>. QED
    BY <1>1, SerInvariant, PTL

-----------------------------------------------------------------------------
-----------------------------------------------------------------------------
(***************************************************************************)
(* Proof that the channel shows what was committed (ShownIsCommitted), for *)
(* any surfaces and formats.  The invariant says, for every place the      *)
(* program may be in and every value of update_flags, from which of        *)
(* params, commit_offset and the registers the handler will take the       *)
(* address and the format of the last commit.                              *)
(***************************************************************************)

(* A commit under way: what it has left for the handler.                   *)
UnderWay ==
  /\ program # "none" => committed = Place(offset, format) /\ ~change
  /\ program = "full" => params = committed
  /\ program = "offset" => commit_offset = offset

(* A commit that is complete, by what the handler has still to do.         *)
Complete ==
  (program = "none" /\ ~overtaken /\ ~captured) =>
    /\ 2 \in update_flags => params = committed
    /\ update_flags = {1} => /\ commit_offset = committed.offset
                             /\ shown.format = committed.format
    /\ update_flags = {} => shown = committed

(* Without a change, the format and the state of the channel are already   *)
(* set, or part of the full update that waits.                             *)
Settled ==
  (program # "full" /\ ~change) =>
    /\ ~captured => (IF 2 \in update_flags THEN params.format ELSE shown.format) = format
    /\ 2 \notin update_flags => running = enable

LayerInv == LayerTypeOK /\ UnderWay /\ Complete /\ Settled

(* A layer after imx35_layer_reset.                                        *)
LEMMA LayerStarts ==
  ASSUME LayerInit
  PROVE  LayerInv
  BY LayerAssumption DEF LayerInit, LayerInv, LayerTypeOK, UnderWay, Complete, Settled,
     Place, Places, Addresses, RGB565

(* imx35_layer_set_surface.                                                *)
LEMMA SetSurfaceKeeps ==
  ASSUME LayerInv, NEW s \in Surfaces, SetSurface(s)
  PROVE  LayerInv'
  <1>1. LayerTypeOK'
    BY LayerAssumption DEF SetSurface, LayerInv, LayerTypeOK, Addresses
  <1>2. UnderWay' /\ Complete'
    BY DEF SetSurface, LayerInv, UnderWay, Complete
  <1>3. Settled'
    BY DEF SetSurface, LayerInv, LayerTypeOK, Settled
  <1>. QED
    BY <1>1, <1>2, <1>3 DEF LayerInv

(* imx35_layer_enable, imx35_layer_disable.                                *)
LEMMA SetEnableKeeps ==
  ASSUME LayerInv, NEW on \in BOOLEAN, SetEnable(on)
  PROVE  LayerInv'
  BY DEF SetEnable, LayerInv, LayerTypeOK, UnderWay, Complete, Settled, Place, Places,
     Addresses, RGB565

(* imx35_layer_set_source_viewport, imx35_layer_set_dest_viewport.         *)
LEMMA SetViewportKeeps ==
  ASSUME LayerInv, SetViewport
  PROVE  LayerInv'
  BY DEF SetViewport, LayerInv, LayerTypeOK, UnderWay, Complete, Settled, Place,
     Places, Addresses, RGB565

(* imx35_layer_program: the channel's parameters.                          *)
LEMMA CommitKeeps ==
  ASSUME LayerInv, Commit
  PROVE  LayerInv'
  <1>1. LayerTypeOK'
    <2>1. Place(offset, format) \in Places
      BY DEF LayerInv, LayerTypeOK, Places, Place
    <2>2. CASE change
      BY <2>1, <2>2 DEF Commit, LayerInv, LayerTypeOK
    <2>3. CASE ~change
      BY <2>1, <2>3 DEF Commit, LayerInv, LayerTypeOK
    <2>. QED
      BY <2>2, <2>3
  <1>2. UnderWay'
    <2>1. CASE change
      BY <2>1 DEF Commit, LayerInv, LayerTypeOK, UnderWay, Place
    <2>2. CASE ~change
      BY <2>2 DEF Commit, LayerInv, LayerTypeOK, UnderWay, Place
    <2>. QED
      BY <2>1, <2>2
  <1>3. Complete'
    BY DEF Commit, Complete
  <1>4. Settled'
    BY DEF Commit, LayerInv, LayerTypeOK, Settled
  <1>. QED
    BY <1>1, <1>2, <1>3, <1>4 DEF LayerInv

(* imx35_layer_program: the flags for the handler.                         *)
LEMMA CommitFlagsKeeps ==
  ASSUME LayerInv, CommitFlags
  PROVE  LayerInv'
  <1>1. LayerTypeOK' /\ UnderWay'
    BY DEF CommitFlags, LayerInv, LayerTypeOK, UnderWay
  <1>2. CASE program = "full"
    <2>1. params = committed /\ committed = Place(offset, format) /\ 2 \in update_flags'
      BY <1>2 DEF CommitFlags, LayerInv, UnderWay
    <2>. QED
      BY <1>1, <1>2, <2>1
         DEF CommitFlags, LayerInv, LayerTypeOK, Complete, Settled, Place
  <1>3. CASE program = "offset"
    <2>1. /\ commit_offset = offset /\ committed = Place(offset, format) /\ ~change
          /\ 2 \in update_flags' <=> 2 \in update_flags
          /\ update_flags' # {}
      BY <1>3 DEF CommitFlags, LayerInv, UnderWay
    <2>2. Settled'
      BY <1>3, <2>1 DEF CommitFlags, LayerInv, Settled
    <2>3. Complete'
      BY <1>3, <2>1 DEF CommitFlags, LayerInv, Complete, Settled, Place
    <2>. QED
      BY <1>1, <2>2, <2>3 DEF LayerInv
  <1>. QED
    BY <1>2, <1>3 DEF CommitFlags, LayerInv, LayerTypeOK

(* set_layer_surfaces: a capture buffer is bound.                          *)
LEMMA CaptureSurfaceKeeps ==
  ASSUME LayerInv, CaptureSurface
  PROVE  LayerInv'
  BY DEF CaptureSurface, LayerInv, LayerTypeOK, UnderWay, Complete, Settled, Place,
     Places, Addresses, RGB565

(* imx35_isr.                                                              *)
LEMMA VsyncKeeps ==
  ASSUME LayerInv, Vsync
  PROVE  LayerInv'
  BY DEF Vsync, LeftByFull, LayerInv, LayerTypeOK, UnderWay, Complete, Settled, Place,
     Places, Addresses, RGB565

(* The invariant holds throughout.                                         *)
THEOREM LayerInvariant == LayerSpec => []LayerInv
  <1>1. LayerInit => LayerInv
    BY LayerStarts
  <1>2. LayerInv /\ [LayerNext]_layerVars => LayerInv'
    <2>. SUFFICES ASSUME LayerInv, [LayerNext]_layerVars PROVE LayerInv'
      OBVIOUS
    <2>1. ASSUME NEW s \in Surfaces, SetSurface(s) PROVE LayerInv'
      BY <2>1, SetSurfaceKeeps
    <2>2. ASSUME NEW on \in BOOLEAN, SetEnable(on) PROVE LayerInv'
      BY <2>2, SetEnableKeeps
    <2>3. CASE SetViewport \/ Commit \/ CommitFlags
      BY <2>3, SetViewportKeeps, CommitKeeps, CommitFlagsKeeps
    <2>4. CASE CaptureSurface \/ Vsync
      BY <2>4, CaptureSurfaceKeeps, VsyncKeeps
    <2>5. CASE UNCHANGED layerVars
      BY <2>5 DEF layerVars, LayerInv, LayerTypeOK, UnderWay, Complete, Settled
    <2>. QED
      BY <2>1, <2>2, <2>3, <2>4, <2>5 DEF LayerNext
  <1>. QED
    BY <1>1, <1>2, PTL DEF LayerSpec

(* imx35_isr and imx35_layer_program: when nothing is left to do, the      *)
(* channel scans what was committed last, and runs exactly if enabled.     *)
THEOREM ShownCorrect == LayerSpec => []ShownIsCommitted
  <1>1. LayerInv => ShownIsCommitted
    BY DEF LayerInv, Complete, Settled, ShownIsCommitted
  <1>. QED
    BY <1>1, LayerInvariant, PTL

-----------------------------------------------------------------------------
-----------------------------------------------------------------------------
(***************************************************************************)
(* AudioPcm, for any subchannels, numbers of fragments and pulses: while   *)
(* no subchannel has strayed into another's stream (strayed), the ring and *)
(* the engine belong to the one that holds pcm_subchn, the engine is at    *)
(* the fragment that is next to play, and a fragment that is over is on    *)
(* its way to the client. A ring that was given up in the middle of a      *)
(* transfer stays as it is until the next acquire, so that the invariant   *)
(* has to say what the engine does while nobody holds it.                  *)
(***************************************************************************)

Pieces == [of : Subchns \cup {NoSubchn}, at : Nat]

(* The types, also of what AudioTypeOK leaves open.                        *)
AudioTyped ==
  /\ pcm_subchn \in Subchns \cup {NoSubchn} /\ hw_lock \in Subchns \cup {NoSubchn}
  /\ buffers \subseteq Subchns
  /\ call \in [Subchns -> {"free", "acquiring", "stopped", "started", "aborting"}]
  /\ n_frags \in FragCounts \cup {0} /\ bd \in [Slots -> [done : BOOLEAN, of : Subchns]]
  /\ current_bd \in Nat /\ moving \in Pieces
  /\ hostovr \in BOOLEAN /\ intr \in BOOLEAN /\ unheard \in BOOLEAN /\ strayed \in BOOLEAN
  /\ audioPulses \in 0 .. MaxAudioPulses /\ handler \in {"wait", "test", "call"}
  /\ played \in Nat

(* A descriptor that is used up has raised an interrupt not yet taken, and *)
(* hw_lock is held while a context is loaded.                              *)
UsedUp ==
  /\ \A i \in Slots : ~bd[i].done => intr
  /\ \A c \in Subchns : hw_lock = c <=> call[c] = "aborting"

(* The holder is the one subchannel that is not free or about to acquire;  *)
(* the ring is over its buffer, which has fragments.                       *)
HeldByOne ==
  /\ \A c \in Subchns : call[c] \in {"stopped", "started", "aborting"} <=> pcm_subchn = c
  /\ pcm_subchn # NoSubchn =>
       /\ n_frags > 0 /\ pcm_subchn \in buffers
       /\ \A i \in Slots : bd[i].of = pcm_subchn

(* The engine runs while its holder has started it, and stands at the      *)
(* first fragment when it has been stopped.                                *)
EnginePlaced ==
  /\ hostovr => pcm_subchn # NoSubchn /\ call[pcm_subchn] = "started"
  /\ hostovr => current_bd = played /\ current_bd < n_frags
  /\ hostovr /\ moving # Still => moving = [of |-> pcm_subchn, at |-> played]
  /\ ~hostovr /\ hw_lock = NoSubchn => moving = Still /\ current_bd = 0

Noticed ==
  pcm_subchn # NoSubchn /\ unheard => intr \/ audioPulses > 0 \/ handler # "wait"

AudioInv ==
  /\ AudioTyped /\ UsedUp
  /\ ~strayed => HeldByOne /\ EnginePlaced /\ Noticed
-----------------------------------------------------------------------------
(* The types, for every step.                                              *)
LEMMA AudioTypedKept ==
  ASSUME AudioTyped, Next
  PROVE  AudioTyped'
  <1>. USE AudioAssumption DEF AudioTyped, CallGoes, Slots, Pieces, Still
  <1>1. ASSUME NEW c \in Subchns, AcquireTest(c) PROVE AudioTyped'
    BY <1>1 DEF AcquireTest, ring, engine, report
  <1>2. ASSUME NEW c \in Subchns, Acquire(c) PROVE AudioTyped'
    <2>1. PICK n \in FragCounts : Ring(c, n)
      BY <1>2 DEF Acquire
    <2>2. n_frags' = n /\ bd' \in [0 .. n - 1 -> [done : BOOLEAN, of : Subchns]]
      BY <2>1 DEF Ring
    <2>. QED
      BY <1>2, <2>2 DEF Acquire, engine
  <1>3. ASSUME NEW c \in Subchns, AcquireFails(c) PROVE AudioTyped'
    BY <1>3 DEF AcquireFails, ring, engine, report
  <1>4. ASSUME NEW c \in Subchns, Go(c) PROVE AudioTyped'
    BY <1>4 DEF Go, ring, report
  <1>5. ASSUME NEW c \in Subchns, Stop(c) PROVE AudioTyped'
    BY <1>5 DEF Stop, ring, report
  <1>6. ASSUME NEW c \in Subchns, AbortDone(c) PROVE AudioTyped'
    BY <1>6 DEF AbortDone, ring, FirstSlot
  <1>7. ASSUME NEW c \in Subchns, AbortFails(c) PROVE AudioTyped'
    BY <1>7 DEF AbortFails, ring, engine
  <1>8. ASSUME NEW c \in Subchns, Release(c) PROVE AudioTyped'
    BY <1>8 DEF Release, ring, engine, report
  <1>9. CASE DmaInterrupt
    <2>1. \A i \in Slots : [bd[i] EXCEPT !.done = TRUE] \in [done : BOOLEAN, of : Subchns]
      OBVIOUS
    <2>2. bd' \in [Slots -> [done : BOOLEAN, of : Subchns]]
      BY <1>9, <2>1 DEF DmaInterrupt, Reenabled
    <2>3. bd' \in [Slots' -> [done : BOOLEAN, of : Subchns]]
      BY <1>9, <2>2 DEF DmaInterrupt
    <2>4. audioPulses' = audioPulses + 1 /\ audioPulses < MaxAudioPulses
      BY <1>9 DEF DmaInterrupt
    <2>5. audioPulses' \in 0 .. MaxAudioPulses
      BY <2>4
    <2>6. intr' \in BOOLEAN
      BY <1>9 DEF DmaInterrupt
    <2>. HIDE DEF Slots
    <2>. QED
      BY <1>9, <2>3, <2>5, <2>6 DEF DmaInterrupt, client, engine
  <1>10. CASE PulseReceived
    BY <1>10 DEF PulseReceived, client, ring, engine
  <1>11. CASE HolderTested
    BY <1>11 DEF HolderTested, client, ring, engine
  <1>12. CASE HolderCalled
    BY <1>12 DEF HolderCalled, client, ring, engine
  <1>13. CASE Fetch
    BY <1>13 DEF Fetch, client, ring, report
  <1>14. CASE FragmentEnds
    <2>1. current_bd \in Slots => [bd[current_bd] EXCEPT !.done = FALSE] \in [done : BOOLEAN, of : Subchns]
      OBVIOUS
    <2>2. bd' \in [Slots -> [done : BOOLEAN, of : Subchns]]
      BY <1>14, <2>1 DEF FragmentEnds
    <2>3. current_bd' \in Nat /\ played' \in Nat /\ moving' \in Pieces
      BY <1>14 DEF FragmentEnds
    <2>. QED
      BY <1>14, <2>2, <2>3 DEF FragmentEnds, client
  <1>. QED
    BY <1>1, <1>2, <1>3, <1>4, <1>5, <1>6, <1>7, <1>8, <1>9, <1>10, <1>11, <1>12,
       <1>13, <1>14 DEF Next

(* Used-up descriptors and the lock, for every step.                       *)
LEMMA UsedUpKept ==
  ASSUME AudioTyped, UsedUp, Next
  PROVE  UsedUp'
  <1>. USE AudioAssumption DEF AudioTyped, UsedUp, CallGoes, Slots
  <1>1. ASSUME NEW c \in Subchns, AcquireTest(c) PROVE UsedUp'
    BY <1>1 DEF AcquireTest, ring, engine, report
  <1>2. ASSUME NEW c \in Subchns, Acquire(c) PROVE UsedUp'
    BY <1>2 DEF Acquire, Ring, engine
  <1>3. ASSUME NEW c \in Subchns, AcquireFails(c) PROVE UsedUp'
    BY <1>3 DEF AcquireFails, ring, engine, report
  <1>4. ASSUME NEW c \in Subchns, Go(c) PROVE UsedUp'
    BY <1>4 DEF Go, ring, report
  <1>5. ASSUME NEW c \in Subchns, Stop(c) PROVE UsedUp'
    BY <1>5 DEF Stop, ring, report
  <1>6. ASSUME NEW c \in Subchns, AbortDone(c) PROVE UsedUp'
    BY <1>6 DEF AbortDone, ring, FirstSlot
  <1>7. ASSUME NEW c \in Subchns, AbortFails(c) PROVE UsedUp'
    BY <1>7 DEF AbortFails, ring, engine
  <1>8. ASSUME NEW c \in Subchns, Release(c) PROVE UsedUp'
    BY <1>8 DEF Release, ring, engine, report
  <1>9. CASE DmaInterrupt
    BY <1>9 DEF DmaInterrupt, client, engine, Reenabled
  <1>10. CASE PulseReceived
    BY <1>10 DEF PulseReceived, client, ring, engine
  <1>11. CASE HolderTested
    BY <1>11 DEF HolderTested, client, ring, engine
  <1>12. CASE HolderCalled
    BY <1>12 DEF HolderCalled, client, ring, engine
  <1>13. CASE Fetch
    BY <1>13 DEF Fetch, client, ring, report
  <1>14. CASE FragmentEnds
    BY <1>14 DEF FragmentEnds, client
  <1>. QED
    BY <1>1, <1>2, <1>3, <1>4, <1>5, <1>6, <1>7, <1>8, <1>9, <1>10, <1>11, <1>12,
       <1>13, <1>14 DEF Next

(* The holder and its ring, for every step.                                *)
LEMMA HeldByOneKept ==
  ASSUME AudioTyped, UsedUp, ~strayed => HeldByOne, Next
  PROVE  ~strayed' => HeldByOne'
  <1>. USE AudioAssumption DEF AudioTyped, UsedUp, HeldByOne, CallGoes, Slots
  <1>1. ASSUME NEW c \in Subchns, AcquireTest(c) PROVE ~strayed' => HeldByOne'
    BY <1>1 DEF AcquireTest, ring, engine, report
  <1>2. ASSUME NEW c \in Subchns, Acquire(c) PROVE ~strayed' => HeldByOne'
    BY <1>2 DEF Acquire, Ring, engine
  <1>3. ASSUME NEW c \in Subchns, AcquireFails(c) PROVE ~strayed' => HeldByOne'
    BY <1>3 DEF AcquireFails, ring, engine, report
  <1>4. ASSUME NEW c \in Subchns, Go(c) PROVE ~strayed' => HeldByOne'
    BY <1>4 DEF Go, ring, report
  <1>5. ASSUME NEW c \in Subchns, Stop(c) PROVE ~strayed' => HeldByOne'
    BY <1>5 DEF Stop, ring, report
  <1>6. ASSUME NEW c \in Subchns, AbortDone(c) PROVE ~strayed' => HeldByOne'
    BY <1>6 DEF AbortDone, ring, FirstSlot
  <1>7. ASSUME NEW c \in Subchns, AbortFails(c) PROVE ~strayed' => HeldByOne'
    BY <1>7 DEF AbortFails, ring, engine
  <1>8. ASSUME NEW c \in Subchns, Release(c) PROVE ~strayed' => HeldByOne'
    BY <1>8 DEF Release, ring, engine, report
  <1>9. CASE DmaInterrupt
    BY <1>9 DEF DmaInterrupt, client, engine, Reenabled
  <1>10. CASE PulseReceived
    BY <1>10 DEF PulseReceived, client, ring, engine
  <1>11. CASE HolderTested
    BY <1>11 DEF HolderTested, client, ring, engine
  <1>12. CASE HolderCalled
    BY <1>12 DEF HolderCalled, client, ring, engine
  <1>13. CASE Fetch
    BY <1>13 DEF Fetch, client, ring, report
  <1>14. CASE FragmentEnds
    BY <1>14 DEF FragmentEnds, client
  <1>. QED
    BY <1>1, <1>2, <1>3, <1>4, <1>5, <1>6, <1>7, <1>8, <1>9, <1>10, <1>11, <1>12,
       <1>13, <1>14 DEF Next

(* Where the engine is, for every step.                                    *)
LEMMA EngineKept ==
  ASSUME AudioTyped, UsedUp, ~strayed => HeldByOne /\ EnginePlaced, Next
  PROVE  ~strayed' => EnginePlaced'
  <1>. USE AudioAssumption
      DEF AudioTyped, UsedUp, HeldByOne, EnginePlaced, CallGoes, Slots, Still, Pieces
  <1>1. ASSUME NEW c \in Subchns, AcquireTest(c) PROVE ~strayed' => EnginePlaced'
    BY <1>1 DEF AcquireTest, ring, engine, report
  <1>2. ASSUME NEW c \in Subchns, Acquire(c) PROVE ~strayed' => EnginePlaced'
    BY <1>2 DEF Acquire, Ring, engine
  <1>3. ASSUME NEW c \in Subchns, AcquireFails(c) PROVE ~strayed' => EnginePlaced'
    BY <1>3 DEF AcquireFails, ring, engine, report
  <1>4. ASSUME NEW c \in Subchns, Go(c) PROVE ~strayed' => EnginePlaced'
    BY <1>4 DEF Go, ring, report
  <1>5. ASSUME NEW c \in Subchns, Stop(c) PROVE ~strayed' => EnginePlaced'
    BY <1>5 DEF Stop, ring, report
  <1>6. ASSUME NEW c \in Subchns, AbortDone(c) PROVE ~strayed' => EnginePlaced'
    BY <1>6 DEF AbortDone, ring, FirstSlot
  <1>7. ASSUME NEW c \in Subchns, AbortFails(c) PROVE ~strayed' => EnginePlaced'
    BY <1>7 DEF AbortFails, ring, engine
  <1>8. ASSUME NEW c \in Subchns, Release(c) PROVE ~strayed' => EnginePlaced'
    BY <1>8 DEF Release, ring, engine, report
  <1>9. CASE DmaInterrupt
    BY <1>9 DEF DmaInterrupt, client, engine, Reenabled
  <1>10. CASE PulseReceived
    BY <1>10 DEF PulseReceived, client, ring, engine
  <1>11. CASE HolderTested
    BY <1>11 DEF HolderTested, client, ring, engine
  <1>12. CASE HolderCalled
    BY <1>12 DEF HolderCalled, client, ring, engine
  <1>13. CASE Fetch
    BY <1>13 DEF Fetch, client, ring, report
  <1>14. CASE FragmentEnds
    BY <1>14 DEF FragmentEnds, client
  <1>. QED
    BY <1>1, <1>2, <1>3, <1>4, <1>5, <1>6, <1>7, <1>8, <1>9, <1>10, <1>11, <1>12,
       <1>13, <1>14 DEF Next

(* What will tell io-audio of a fragment, for every step.                  *)
LEMMA HeardKept ==
  ASSUME AudioTyped, UsedUp, ~strayed => HeldByOne /\ EnginePlaced /\ Noticed, Next
  PROVE  ~strayed' => Noticed'
  <1>. USE AudioAssumption
      DEF AudioTyped, UsedUp, HeldByOne, EnginePlaced, Noticed, CallGoes, Slots
  <1>1. ASSUME NEW c \in Subchns, AcquireTest(c) PROVE ~strayed' => Noticed'
    BY <1>1 DEF AcquireTest, ring, engine, report
  <1>2. ASSUME NEW c \in Subchns, Acquire(c) PROVE ~strayed' => Noticed'
    BY <1>2 DEF Acquire, Ring, engine
  <1>3. ASSUME NEW c \in Subchns, AcquireFails(c) PROVE ~strayed' => Noticed'
    BY <1>3 DEF AcquireFails, ring, engine, report
  <1>4. ASSUME NEW c \in Subchns, Go(c) PROVE ~strayed' => Noticed'
    BY <1>4 DEF Go, ring, report
  <1>5. ASSUME NEW c \in Subchns, Stop(c) PROVE ~strayed' => Noticed'
    BY <1>5 DEF Stop, ring, report
  <1>6. ASSUME NEW c \in Subchns, AbortDone(c) PROVE ~strayed' => Noticed'
    BY <1>6 DEF AbortDone, ring, FirstSlot
  <1>7. ASSUME NEW c \in Subchns, AbortFails(c) PROVE ~strayed' => Noticed'
    BY <1>7 DEF AbortFails, ring, engine
  <1>8. ASSUME NEW c \in Subchns, Release(c) PROVE ~strayed' => Noticed'
    BY <1>8 DEF Release, ring, engine, report
  <1>9. CASE DmaInterrupt
    BY <1>9 DEF DmaInterrupt, client, engine, Reenabled
  <1>10. CASE PulseReceived
    BY <1>10 DEF PulseReceived, client, ring, engine
  <1>11. CASE HolderTested
    BY <1>11 DEF HolderTested, client, ring, engine
  <1>12. CASE HolderCalled
    BY <1>12 DEF HolderCalled, client, ring, engine
  <1>13. CASE Fetch
    BY <1>13 DEF Fetch, client, ring, report
  <1>14. CASE FragmentEnds
    BY <1>14 DEF FragmentEnds, client
  <1>. QED
    BY <1>1, <1>2, <1>3, <1>4, <1>5, <1>6, <1>7, <1>8, <1>9, <1>10, <1>11, <1>12,
       <1>13, <1>14 DEF Next

(* Nobody has acquired the stream.                                         *)
LEMMA AudioStarts == Init => AudioInv
  <1>. SUFFICES ASSUME Init PROVE AudioInv
    OBVIOUS
  <1>. USE AudioAssumption DEF Init
  <1>1. AudioTyped
    <2>1. n_frags = 0 /\ 0 .. n_frags - 1 = {} /\ bd = [i \in {} |-> NoSubchn]
      OBVIOUS
    <2>2. bd \in [Slots -> [done : BOOLEAN, of : Subchns]]
      BY <2>1 DEF Slots
    <2>3. moving \in Pieces
      BY DEF Pieces, Still
    <2>4. call \in [Subchns -> {"free", "acquiring", "stopped", "started", "aborting"}]
      OBVIOUS
    <2>. QED
      BY <2>2, <2>3, <2>4, 0 \in 0 .. MaxAudioPulses DEF AudioTyped
  <1>2. UsedUp /\ HeldByOne /\ EnginePlaced /\ Noticed
    BY DEF UsedUp, HeldByOne, EnginePlaced, Noticed, Slots
  <1>. QED
    BY <1>1, <1>2 DEF AudioInv

(* Every step keeps the invariant.                                         *)
LEMMA AudioKept == AudioInv /\ [Next]_vars => AudioInv'
  <1>1. AudioInv /\ Next => AudioInv'
    BY AudioTypedKept, UsedUpKept, HeldByOneKept, EngineKept, HeardKept DEF AudioInv
  <1>2. AudioInv /\ UNCHANGED vars => AudioInv'
    BY DEF AudioInv, AudioTyped, UsedUp, HeldByOne, EnginePlaced, Noticed, Slots, vars,
       client, ring,
       engine, report
  <1>. QED
    BY <1>1, <1>2

(* The invariant of stream, engine, handler and pulse thread.              *)
THEOREM AudioInvariant == Spec => []AudioInv
  BY AudioStarts, AudioKept, PTL DEF Spec

(* Session after session the engine works for the holder of the stream, in *)
(* its buffer, and takes the fragments in turn.                            *)
THEOREM FragmentsCorrect == Spec => []OwnFragmentsInTurn
  <1>1. AudioInv => AudioTypeOK
    BY DEF AudioInv, AudioTyped, AudioTypeOK, Pieces
  <1>2. AudioInv => OwnFragmentsInTurn
    BY <1>1 DEF AudioInv, OwnFragmentsInTurn, HeldByOne, EnginePlaced
  <1>. QED
    BY <1>2, AudioInvariant, PTL

(* An engine that stands, and a fragment not reported, have an interrupt,  *)
(* a pulse or a thread on its way.                                         *)
THEOREM StreamCorrect == Spec => []StreamGoesOn
  <1>1. AudioInv => StreamGoesOn
    <2>. SUFFICES ASSUME AudioInv, hostovr, ~strayed
                  PROVE  /\ moving = Still /\ ~bd[current_bd].done => intr
                         /\ unheard => intr \/ audioPulses > 0 \/ handler # "wait"
      BY DEF StreamGoesOn
    <2>1. current_bd \in Slots
      BY AudioAssumption DEF AudioInv, AudioTyped, EnginePlaced, Slots
    <2>. QED
      BY <2>1 DEF AudioInv, UsedUp, EnginePlaced, Noticed
  <1>. QED
    BY <1>1, AudioInvariant, PTL

-----------------------------------------------------------------------------
-----------------------------------------------------------------------------
(***************************************************************************)
(* I2cMx35, for transfers of any length: TransferRight. The invariant      *)
(* says, for each of the waits of a call, which byte is on the bus or has  *)
(* just been through, what has become of the slave, and how many bytes     *)
(* both have counted. One byte is decided ahead, so that it is TXAK of the *)
(* byte on the bus that has to go with what is left.                       *)
(***************************************************************************)

Modes == {"idle", "start", "half_addressed", "takes", "sends", "refused"}

(* The types of what I2cTypeOK leaves out, and how far the call is at each *)
(* of its waits.                                                           *)
I2cTyped ==
  /\ I2cTypeOK
  /\ i2sr \in [iif : BOOLEAN, rxak : BOOLEAN, ial : BOOLEAN, data : Nat]
  /\ slave \in [mode : Modes, count : Nat]
  /\ got \in Seq(Nat)

Progress ==
  /\ place \in {"address", "address_1", "address_2"} => left = transfer.len /\ got = <<>>
  /\ place = "send" => transfer.dir = "send" /\ got = <<>>
  /\ place = "recv" => transfer.dir = "recv" /\ left > 0 /\ Len(got) + left = transfer.len
  /\ place = "flush" => transfer.dir = "recv" /\ Len(got) = transfer.len

(* An interrupt that is masked has left its event.                         *)
Signalled == i2cMasked => i2cEvent /\ i2sr.iif

(* The byte the call waits for is on the bus.                              *)
OnBus ==
  /\ ~i2sr.iif /\ ~i2sr.ial /\ i2cr.msta
  /\ place = "address_1" => wire = <<"xadr1", "send">> /\ slave.mode = "start"
  /\ place = "address_2" => wire = <<"xadr2", "send">> /\ slave.mode = "half_addressed"
  /\ place = "address" => /\ \/ wire = <<"adr", transfer.dir>>
                             \/ wire = <<"xadr1", "recv">> /\ transfer.dir = "recv"
                          /\ slave.mode = "start"
  /\ place = "send" => /\ wire = Byte(transfer.len - left) /\ left < transfer.len
                       /\ slave.mode = "takes" /\ slave.count = transfer.len - left - 1
  /\ place = "recv" => /\ wire = Reception /\ slave.mode = "sends"
                       /\ slave.count = Len(got) /\ i2cr.txak = (left = 1)
  /\ place = "flush" => wire = Reception /\ slave.mode = "refused"

(* The byte is through, and its flag is up.                                *)
Answered ==
  /\ wire = Silence /\ i2sr.iif /\ ~i2sr.ial /\ i2cr.msta
  /\ Sending => i2sr.rxak \/
       /\ place = "address_1" => slave.mode = "half_addressed"
       /\ place = "address_2" => slave.mode = "takes"
       /\ place = "address" => slave.mode = IF transfer.dir = "recv" THEN "sends" ELSE "takes"
       /\ place = "send" => slave.mode = "takes" /\ slave.count = transfer.len - left
  /\ place = "recv" => /\ slave.mode = IF left = 1 THEN "refused" ELSE "sends"
                       /\ slave.count = Len(got) + 1 /\ i2sr.data = slave.count
                       /\ i2cr.txak = (left = 1)
  /\ place = "flush" => slave.mode = "refused"

(* Another master has won.                                                 *)
Beaten == wire = Silence /\ i2sr.iif /\ i2sr.ial /\ ~i2cr.msta /\ Sending

InTurn ==
  /\ place = "idle" => wire = Silence /\ ~i2sr.iif /\ ~i2sr.ial
  /\ place # "idle" => OnBus \/ Answered \/ Beaten
  /\ place \in {"address", "address_1", "address_2"} => slave.count = 0
  /\ \A k \in 1 .. Len(got) : got[k] = k

I2cInv ==
  /\ I2cTyped /\ Progress /\ Signalled
  /\ stretches = 0 => InTurn /\ MovedAll

-----------------------------------------------------------------------------
(* A byte sent has been waited for: the call goes on with the next one, or *)
(* ends.                                                                   *)
LEMMA Acks ==
  ASSUME I2cTyped, Progress, Sending, Acknowledged
  PROVE  \/ /\ place = "address_1" /\ place' = "address_2" /\ Puts(<<"xadr2", "send">>)
            /\ UNCHANGED <<left, restart, status, i2cr, slave>>
         \/ /\ place = "address_2" /\ transfer.dir = "recv" /\ place' = "address"
            /\ Puts(<<"xadr1", "recv">>) /\ i2cr' = Master(FALSE) /\ Starts
            /\ UNCHANGED <<left, restart, status>>
         \/ place # "address_1" /\ transfer.dir = "send" /\ SendNext
         \/ place = "address" /\ transfer.dir = "recv" /\ RecvFirst
  <1>1. transfer.dir \in {"send", "recv"}
    BY I2cAssumption DEF I2cTyped, I2cTypeOK
  <1>2. CASE place = "address_1"
    BY <1>2 DEF Acknowledged
  <1>3. CASE place = "address_2" /\ transfer.dir = "recv"
    BY <1>3 DEF Acknowledged
  <1>4. CASE place # "address_1" /\ transfer.dir = "send"
    BY <1>4 DEF Acknowledged
  <1>5. CASE place = "address" /\ transfer.dir = "recv"
    BY <1>5 DEF Acknowledged
  <1>. QED
    BY <1>1, <1>2, <1>3, <1>4, <1>5 DEF Sending, Progress

(* What a call does after one of its waits.                                *)
GoesOn(s) ==
  \/ /\ Sending /\ s.iif /\ Lost /\ Finishes("arbitration_lost")
     /\ UNCHANGED <<left, restart, got, i2cr, wire, slave>>
  \/ /\ Sending /\ s.rxak /\ ~Lost /\ Finishes("nack") /\ i2cr' = Off /\ Stops
     /\ UNCHANGED <<left, restart, got, wire>>
  \/ Sending /\ ~s.rxak /\ ~(s.iif /\ Lost) /\ Acknowledged /\ UNCHANGED got
  \/ place = "recv" /\ Received(s)
  \/ place = "flush" /\ Done /\ UNCHANGED <<left, got, i2cr, wire, slave>>

LEMMA Continues ==
  ASSUME I2cTyped, place # "idle", NEW s, Continue(s)
  PROVE  GoesOn(s)
  <1>1. CASE Sending
    BY <1>1 DEF Continue, Sent, GoesOn
  <1>2. CASE place = "recv"
    BY <1>2 DEF Continue, GoesOn, Sending
  <1>3. CASE place = "flush"
    BY <1>3 DEF Continue, GoesOn, Sending
  <1>. QED
    BY <1>1, <1>2, <1>3 DEF I2cTyped, I2cTypeOK, Sending

(* The types of what the call changes, and its progress.                   *)
CallTyped ==
  /\ left \in 0 .. transfer.len
  /\ place \in {"idle", "address", "address_1", "address_2", "send", "recv", "flush"}
  /\ status \in {"none", "done", "error", "nack", "arbitration_lost"}
  /\ restart \in BOOLEAN
  /\ i2cr \in [msta : BOOLEAN, iien : BOOLEAN, txak : BOOLEAN]
  /\ got \in Seq(Nat) /\ Len(got) <= transfer.len
  /\ slave \in [mode : Modes, count : Nat]

LEMMA CallTypedKept ==
  ASSUME I2cTyped, Progress, NEW s, GoesOn(s), UNCHANGED transfer
  PROVE  CallTyped' /\ Progress'
  <1>. USE DEF CallTyped, Finishes
  <1>0. /\ transfer.len \in Nat /\ transfer.len > 0 /\ transfer.stop \in BOOLEAN
        /\ CallTyped /\ i2sr.data \in Nat /\ left \in Nat /\ Len(got) \in Nat
    BY I2cAssumption DEF I2cTyped, I2cTypeOK
  <1>a. /\ Off \in [msta : BOOLEAN, iien : BOOLEAN, txak : BOOLEAN]
        /\ [Off EXCEPT !.iien = TRUE] \in [msta : BOOLEAN, iien : BOOLEAN, txak : BOOLEAN]
        /\ \A b \in BOOLEAN : Master(b) \in [msta : BOOLEAN, iien : BOOLEAN, txak : BOOLEAN]
    BY DEF Off, Master
  <1>b. Starts \/ Stops \/ UNCHANGED slave => slave' \in [mode : Modes, count : Nat]
    BY <1>0 DEF Starts, Stops, Modes
  <1>1. CASE /\ Sending /\ s.iif /\ Lost /\ Finishes("arbitration_lost")
             /\ UNCHANGED <<left, restart, got, i2cr, wire, slave>>
    BY <1>0, <1>1 DEF Progress
  <1>2. CASE /\ Sending /\ s.rxak /\ ~Lost /\ Finishes("nack") /\ i2cr' = Off /\ Stops
             /\ UNCHANGED <<left, restart, got, wire>>
    BY <1>0, <1>a, <1>b, <1>2 DEF Progress
  <1>3. CASE Sending /\ ~s.rxak /\ ~(s.iif /\ Lost) /\ Acknowledged /\ UNCHANGED got
    <2>1. CASE /\ place = "address_1" /\ place' = "address_2"
               /\ UNCHANGED <<left, restart, status, i2cr, slave>>
      BY <1>0, <1>3, <2>1 DEF Progress
    <2>2. CASE /\ place = "address_2" /\ transfer.dir = "recv" /\ place' = "address"
               /\ i2cr' = Master(FALSE) /\ Starts
               /\ UNCHANGED <<left, restart, status>>
      BY <1>0, <1>a, <1>b, <1>3, <2>2 DEF Progress
    <2>3. CASE place # "address_1" /\ transfer.dir = "send" /\ SendNext
      <3>1. CASE left > 0
        BY <1>0, <1>3, <2>3, <3>1 DEF Progress, SendNext, Sending
      <3>2. CASE ~(left > 0)
        BY <1>0, <1>a, <1>b, <1>3, <2>3, <3>2 DEF Progress, SendNext, Done, Sending
      <3>. QED
        BY <3>1, <3>2
    <2>4. CASE place = "address" /\ transfer.dir = "recv" /\ RecvFirst
      <3>1. i2cr' \in [msta : BOOLEAN, iien : BOOLEAN, txak : BOOLEAN]
        BY <1>a, <2>4 DEF RecvFirst
      <3>. QED
        BY <1>0, <1>3, <2>4, <3>1 DEF Progress, RecvFirst
    <2>. QED
      BY <1>3, <2>1, <2>2, <2>3, <2>4, Acks
  <1>4. CASE place = "recv" /\ Received(s)
    <2>0. left > 0 /\ Len(got) + left = transfer.len /\ transfer.dir = "recv"
      BY <1>4 DEF Progress
    <2>1. CASE ~s.iif
      BY <1>0, <1>a, <1>b, <1>4, <2>1 DEF Received, Progress
    <2>2. CASE s.iif
      <3>1. got' = Append(got, i2sr.data) /\ left' = left - 1
        BY <1>4, <2>2 DEF Received
      <3>2. got' \in Seq(Nat) /\ Len(got') = Len(got) + 1
        BY <1>0, <3>1
      <3>3. i2cr' \in [msta : BOOLEAN, iien : BOOLEAN, txak : BOOLEAN]
        BY <1>0, <1>a, <1>4, <2>2 DEF Received
      <3>4. slave' \in [mode : Modes, count : Nat]
        BY <1>b, <1>4, <2>2 DEF Received
      <3>5. CASE left > 1
        <4>1. place' = "recv" /\ UNCHANGED <<restart, status>>
          BY <1>4, <2>2, <3>5 DEF Received
        <4>. QED
          BY <1>0, <2>0, <3>1, <3>2, <3>3, <3>4, <3>5, <4>1 DEF Progress
      <3>6. CASE ~(left > 1)
        <4>1. left = 1
          BY <1>0, <2>0, <3>6
        <4>2. \/ place' = "idle" /\ status' = "done" /\ restart' = ~transfer.stop
              \/ place' = "flush" /\ UNCHANGED <<restart, status>>
          BY <1>4, <2>2, <3>6 DEF Received, Done
        <4>. QED
          <5>1. left' = 0 /\ left' \in 0 .. transfer.len
            BY <1>0, <3>1, <4>1
          <5>2. Len(got') = transfer.len
            BY <1>0, <2>0, <3>2, <4>1
          <5>3. restart' \in BOOLEAN
            BY <1>0, <4>2
          <5>. QED
            BY <1>0, <2>0, <3>2, <3>3, <3>4, <4>2, <5>1, <5>2, <5>3 DEF Progress
      <3>. QED
        BY <3>5, <3>6
    <2>. QED
      BY <2>1, <2>2
  <1>5. CASE place = "flush" /\ Done /\ UNCHANGED <<left, got, i2cr, wire, slave>>
    BY <1>0, <1>5 DEF Done, Progress
  <1>. QED
    BY <1>1, <1>2, <1>3, <1>4, <1>5 DEF GoesOn

(* The waits: the flag is found and the call goes on; an event without it  *)
(* is waited out; or the timeout is taken for an acknowledge.              *)
Found ==
  /\ place # "idle" /\ i2sr.iif
  /\ i2sr' = [i2sr EXCEPT !.iif = FALSE, !.ial = @ /\ ~(Sending /\ Lost)]
  /\ GoesOn([iif |-> TRUE, rxak |-> i2sr.rxak])
  /\ i2cMasked' = FALSE /\ i2cEvent' = FALSE
  /\ UNCHANGED <<transfer, stretches>>

Spurious ==
  /\ ~i2sr.iif /\ i2cEvent' = FALSE
  /\ UNCHANGED <<transfer, place, left, restart, got, status, i2cr, i2sr, wire, i2cMasked,
                 slave, stretches>>

Late ==
  /\ stretches < MaxStretches /\ stretches' = stretches + 1
  /\ GoesOn(NoStatus)
  /\ UNCHANGED <<transfer, i2sr, i2cMasked, i2cEvent>>

LEMMA Waits ==
  ASSUME I2cTyped, WaitEvent \/ WaitTimeout
  PROVE  Found \/ Spurious \/ Late
  <1>0. i2cEvent \in BOOLEAN
    BY DEF I2cTyped, I2cTypeOK
  <1>2. CASE Flagged
    <2>1. place # "idle" /\ i2cEvent' = FALSE
      BY <1>0 DEF WaitEvent, WaitTimeout
    <2>. QED
      BY <1>2, <2>1, Continues DEF Flagged, Found
  <1>3. CASE ~Flagged /\ WaitEvent
    BY <1>3 DEF WaitEvent, Spurious
  <1>4. CASE ~Flagged /\ WaitTimeout
    BY <1>4, Continues DEF WaitTimeout, Late
  <1>. QED
    BY <1>2, <1>3, <1>4

(* A call begins: the address is on its way, or the bus is lost at once.   *)
Begun(t) ==
  /\ place = "idle"
  /\ transfer' = t /\ left' = t.len /\ got' = <<>> /\ status' = "none"
  /\ place' = IF t.bits = 7 THEN "address" ELSE "address_1"
  /\ \/ /\ i2cr' = Master(FALSE) /\ slave' = [mode |-> "start", count |-> 0]
        /\ Puts(IF t.bits = 7 THEN <<"adr", t.dir>> ELSE <<"xadr1", "send">>)
        /\ i2sr' = i2sr
     \/ /\ i2cr' = [Master(FALSE) EXCEPT !.msta = FALSE]
        /\ slave' = [mode |-> "idle", count |-> 0]
        /\ i2sr' = [i2sr EXCEPT !.iif = TRUE, !.ial = TRUE]
        /\ wire' = wire
  /\ UNCHANGED <<restart, i2cEvent, i2cMasked, stretches>>

LEMMA Begins ==
  ASSUME Begin
  PROVE  \E t \in Transfers : Begun(t)
  <1>1. PICK t \in Transfers :
          /\ place = "idle"
          /\ transfer' = t /\ left' = t.len /\ got' = <<>> /\ status' = "none"
          /\ place' = IF t.bits = 7 THEN "address" ELSE "address_1"
          /\ \/ /\ i2cr' = Master(FALSE)
                /\ slave' = [mode |-> "start", count |-> 0]
                /\ Puts(IF t.bits = 7 THEN <<"adr", t.dir>> ELSE <<"xadr1", "send">>)
                /\ UNCHANGED i2sr
             \/ /\ restart /\ ~i2cr.msta
                /\ i2cr' = [Master(FALSE) EXCEPT !.msta = FALSE]
                /\ i2sr' = [i2sr EXCEPT !.iif = TRUE, !.ial = TRUE]
                /\ slave' = [mode |-> "idle", count |-> 0]
                /\ UNCHANGED wire
          /\ UNCHANGED <<restart, line, stretches>>
    BY DEF Begin
  <1>2. Begun(t)
    BY <1>1 DEF Begun, line
  <1>. QED
    BY <1>2

-----------------------------------------------------------------------------
(* Every action keeps the types, the progress and the signals.             *)
Steady == I2cTyped /\ Progress /\ Signalled

LEMMA SteadyKept ==
  ASSUME Steady, [I2cNext]_i2cVars
  PROVE  Steady'
  <1>. USE DEF Steady, I2cTyped
  <1>0. /\ transfer \in Transfers /\ i2cEvent \in BOOLEAN /\ i2cMasked \in BOOLEAN
        /\ stretches \in 0 .. MaxStretches /\ restart \in BOOLEAN
        /\ i2sr \in [iif : BOOLEAN, rxak : BOOLEAN, ial : BOOLEAN, data : Nat]
        /\ slave \in [mode : Modes, count : Nat] /\ MaxStretches \in Nat
        /\ i2cr \in [msta : BOOLEAN, iien : BOOLEAN, txak : BOOLEAN]
    BY I2cAssumption DEF I2cTypeOK
  <1>1. CASE Begin
    <2>0. PICK t \in Transfers : Begun(t)
      BY <1>1, Begins
    <2>a. /\ transfer' = t /\ left' = t.len /\ got' = <<>> /\ status' = "none"
          /\ place' = IF t.bits = 7 THEN "address" ELSE "address_1"
          /\ UNCHANGED <<restart, i2cEvent, i2cMasked, stretches>>
      BY <2>0 DEF Begun
    <2>b. \/ /\ i2cr' = Master(FALSE) /\ slave' = [mode |-> "start", count |-> 0]
             /\ i2sr' = i2sr
          \/ /\ i2cr' = [Master(FALSE) EXCEPT !.msta = FALSE]
             /\ slave' = [mode |-> "idle", count |-> 0]
             /\ i2sr' = [i2sr EXCEPT !.iif = TRUE, !.ial = TRUE]
      BY <2>0 DEF Begun
    <2>1. t.len \in Nat /\ t.len > 0
      BY I2cAssumption
    <2>2. /\ got' \in Seq(Nat) /\ Len(got') = 0
      BY <2>a
    <2>3. Progress'
      BY <2>a DEF Progress
    <2>4. i2cr' \in [msta : BOOLEAN, iien : BOOLEAN, txak : BOOLEAN]
      <3>1. /\ Master(FALSE) \in [msta : BOOLEAN, iien : BOOLEAN, txak : BOOLEAN]
            /\ [Master(FALSE) EXCEPT !.msta = FALSE] \in [msta : BOOLEAN, iien : BOOLEAN, txak : BOOLEAN]
        BY DEF Master
      <3>2. i2cr' = Master(FALSE) \/ i2cr' = [Master(FALSE) EXCEPT !.msta = FALSE]
        BY <2>b
      <3>. QED
        BY <3>1, <3>2
    <2>5. slave' \in [mode : Modes, count : Nat]
      <3>1. \/ slave' = [mode |-> "start", count |-> 0]
            \/ slave' = [mode |-> "idle", count |-> 0]
        BY <2>b
      <3>. QED
        BY <3>1 DEF Modes
    <2>6. i2sr' \in [iif : BOOLEAN, rxak : BOOLEAN, ial : BOOLEAN, data : Nat]
      <3>1. [i2sr EXCEPT !.iif = TRUE, !.ial = TRUE]
               \in [iif : BOOLEAN, rxak : BOOLEAN, ial : BOOLEAN, data : Nat]
        BY <1>0
      <3>. QED
        BY <1>0, <2>b, <3>1
    <2>8. Signalled'
      BY <1>0, <2>a, <2>b DEF Signalled
    <2>9. I2cTypeOK'
      BY <1>0, <2>a, <2>1, <2>2, <2>4 DEF I2cTypeOK
    <2>. QED
      BY <2>2, <2>3, <2>5, <2>6, <2>8, <2>9
  <1>2. CASE Found
    <2>1. CallTyped' /\ Progress'
      BY <1>2, CallTypedKept DEF Found
    <2>2. i2sr' \in [iif : BOOLEAN, rxak : BOOLEAN, ial : BOOLEAN, data : Nat]
      BY <1>0, <1>2 DEF Found
    <2>3. Signalled' /\ i2cEvent' \in BOOLEAN /\ i2cMasked' \in BOOLEAN
      BY <1>2 DEF Signalled, Found
    <2>4. I2cTypeOK'
      BY <1>0, <1>2, <2>1, <2>3 DEF I2cTypeOK, CallTyped, Found
    <2>. QED
      BY <2>1, <2>2, <2>3, <2>4 DEF CallTyped
  <1>3. CASE Spurious
    <2>1. /\ UNCHANGED <<transfer, place, left, restart, got, status, i2cr, i2sr, slave, stretches>>
          /\ i2cMasked' = i2cMasked /\ i2cEvent' = FALSE /\ ~i2sr.iif
      BY <1>3 DEF Spurious
    <2>2. Signalled'
      BY <1>0, <2>1 DEF Signalled
    <2>. QED
      <3>1. Progress' /\ got' = got /\ i2sr' = i2sr /\ slave' = slave
        BY <2>1 DEF Progress
      <3>2. I2cTypeOK'
        BY <1>0, <2>1 DEF I2cTypeOK
      <3>. QED
        BY <1>0, <2>2, <3>1, <3>2
  <1>4. CASE Late
    <2>1. CallTyped' /\ Progress'
      BY <1>4, CallTypedKept DEF Late
    <2>2. stretches' \in 0 .. MaxStretches
      BY <1>0, <1>4 DEF Late
    <2>3. Signalled'
      BY <1>4 DEF Signalled, Late
    <2>4. I2cTypeOK'
      BY <1>0, <1>4, <2>1, <2>2 DEF I2cTypeOK, CallTyped, Late
    <2>. QED
      BY <1>0, <1>4, <2>1, <2>3, <2>4 DEF CallTyped, Late
  <1>5. CASE I2cInterrupt
    <2>1. UNCHANGED <<transfer, place, left, restart, got, status, i2cr, i2sr, wire, slave, stretches>>
      BY <1>5 DEF I2cInterrupt
    <2>2. i2cEvent' = TRUE /\ i2cMasked' = TRUE /\ i2sr.iif
      BY <1>5 DEF I2cInterrupt
    <2>. QED
      BY <1>0, <2>1, <2>2 DEF I2cTypeOK, Progress, Signalled
  <1>6. CASE SentByte
    <2>0. PICK refused \in BOOLEAN :
             LET mode == IF refused THEN "idle" ELSE Answers(wire)
             IN  /\ slave' = [mode |-> mode, count |-> IF mode = "takes" /\ wire[1] = "data"
                                /\ wire = Byte(slave.count + 1) THEN slave.count + 1 ELSE slave.count]
                 /\ i2sr' = [i2sr EXCEPT !.iif = TRUE, !.rxak = mode = "idle"]
      BY <1>6 DEF SentByte
    <2>1. slave' \in [mode : Modes, count : Nat]
      <3>1. (IF refused THEN "idle" ELSE Answers(wire)) \in Modes
        BY DEF Answers, Modes
      <3>. QED
        BY <1>0, <2>0, <3>1
    <2>2. i2sr' \in [iif : BOOLEAN, rxak : BOOLEAN, ial : BOOLEAN, data : Nat] /\ i2sr'.iif
      BY <1>0, <2>0
    <2>3. UNCHANGED <<transfer, place, left, restart, got, status, i2cr, i2cEvent, i2cMasked, stretches>>
      BY <1>6 DEF SentByte, line
    <2>. QED
      BY <1>0, <2>1, <2>2, <2>3 DEF I2cTypeOK, Progress, Signalled
  <1>7. CASE ArbitrationLost
    <2>1. slave' \in [mode : Modes, count : Nat]
      BY <1>0, <1>7 DEF ArbitrationLost, Stops, Modes
    <2>2. i2sr' \in [iif : BOOLEAN, rxak : BOOLEAN, ial : BOOLEAN, data : Nat] /\ i2sr'.iif
      BY <1>0, <1>7 DEF ArbitrationLost
    <2>3. i2cr' \in [msta : BOOLEAN, iien : BOOLEAN, txak : BOOLEAN]
      BY <1>0, <1>7 DEF ArbitrationLost
    <2>4. UNCHANGED <<transfer, place, left, restart, got, status, i2cEvent, i2cMasked, stretches>>
      BY <1>7 DEF ArbitrationLost, line
    <2>. QED
      BY <1>0, <2>1, <2>2, <2>3, <2>4 DEF I2cTypeOK, Progress, Signalled
  <1>8. CASE ReceivedByte
    <2>1. slave' \in [mode : Modes, count : Nat]
      <3>1. \/ slave' = [mode |-> "refused", count |-> slave.count + 1]
            \/ slave' = [mode |-> "sends", count |-> slave.count + 1]
            \/ slave' = slave
        BY <1>8 DEF ReceivedByte
      <3>. QED
        BY <1>0, <3>1 DEF Modes
    <2>2. i2sr' \in [iif : BOOLEAN, rxak : BOOLEAN, ial : BOOLEAN, data : Nat] /\ i2sr'.iif
      <3>1. PICK d \in Nat : i2sr' = [i2sr EXCEPT !.iif = TRUE, !.data = d]
        <4>1. \/ i2sr' = [i2sr EXCEPT !.iif = TRUE, !.data = slave.count + 1]
              \/ i2sr' = [i2sr EXCEPT !.iif = TRUE, !.data = 0]
          BY <1>8 DEF ReceivedByte
        <4>2. slave.count + 1 \in Nat
          BY <1>0
        <4>. QED
          BY <4>1, <4>2
      <3>. QED
        BY <1>0, <3>1
    <2>3. UNCHANGED <<transfer, place, left, restart, got, status, i2cr, i2cEvent, i2cMasked, stretches>>
      BY <1>8 DEF ReceivedByte, line
    <2>. QED
      BY <1>0, <2>1, <2>2, <2>3 DEF I2cTypeOK, Progress, Signalled
  <1>9. CASE UNCHANGED i2cVars
    BY <1>0, <1>9 DEF i2cVars, line, I2cTypeOK, Progress, Signalled
  <1>. QED
    BY <1>1, <1>2, <1>3, <1>4, <1>5, <1>6, <1>7, <1>8, <1>9, Waits DEF I2cNext

-----------------------------------------------------------------------------
(* A flag found: the byte it was raised for is through, and the next one   *)
(* on the bus is the one the call waits for next; or the call ends, with   *)
(* all its bytes moved when it is done.                                    *)
Clear == ~i2sr'.iif /\ ~i2sr'.ial
Ended == place' = "idle" /\ wire' = Silence /\ Clear

Numbered == \A k \in 1 .. Len(got) : got[k] = k

LEMMA EndsInTurn ==
  ASSUME Numbered', Ended
  PROVE  InTurn'
  BY DEF InTurn, Ended, Clear, Numbered

LEMMA OnTheBus ==
  ASSUME Numbered', OnBus', place' # "idle",
         place' \in {"address", "address_1", "address_2"} => slave'.count = 0
  PROVE  InTurn' /\ MovedAll'
  BY DEF InTurn, Numbered, MovedAll

LEMMA FoundTyped ==
  ASSUME Steady, Found
  PROVE  /\ transfer' = transfer /\ transfer.len \in Nat /\ transfer.len > 0 /\ left \in Nat
         /\ transfer.dir \in {"send", "recv"} /\ transfer.stop \in BOOLEAN
         /\ slave.count \in Nat /\ slave.mode \in Modes
         /\ slave = [mode |-> slave.mode, count |-> slave.count]
         /\ ~i2sr'.iif /\ i2sr'.ial = (i2sr.ial /\ ~(Sending /\ Lost))
  <1>1. /\ transfer \in Transfers /\ left \in 0 .. transfer.len
        /\ i2sr \in [iif : BOOLEAN, rxak : BOOLEAN, ial : BOOLEAN, data : Nat]
        /\ slave \in [mode : Modes, count : Nat]
    BY DEF Steady, I2cTyped, I2cTypeOK
  <1>2. i2sr' = [i2sr EXCEPT !.iif = FALSE, !.ial = @ /\ ~(Sending /\ Lost)] /\ transfer' = transfer
    BY DEF Found
  <1>3. ~i2sr'.iif /\ i2sr'.ial = (i2sr.ial /\ ~(Sending /\ Lost))
    BY <1>1, <1>2
  <1>. QED
    BY <1>1, <1>2, <1>3, I2cAssumption

LEMMA FoundInTurn ==
  ASSUME Steady, Found, InTurn
  PROVE  InTurn' /\ MovedAll'
  <1>. DEFINE s == [iif |-> TRUE, rxak |-> i2sr.rxak]
  <1>0. /\ transfer' = transfer /\ transfer.len \in Nat /\ transfer.len > 0 /\ left \in Nat
        /\ transfer.dir \in {"send", "recv"} /\ transfer.stop \in BOOLEAN
        /\ slave.count \in Nat /\ slave.mode \in Modes
        /\ slave = [mode |-> slave.mode, count |-> slave.count]
        /\ ~i2sr'.iif /\ i2sr'.ial = (i2sr.ial /\ ~(Sending /\ Lost))
    BY FoundTyped
  <1>a. /\ Numbered /\ wire = Silence /\ place # "idle"
        /\ Answered \/ Beaten
        /\ place \in {"address", "address_1", "address_2"} => slave.count = 0
    BY DEF InTurn, Found, OnBus, Answered, Beaten, Numbered
  <1>b. GoesOn(s)
    BY DEF Found
  <1>c. s.iif /\ s.rxak = i2sr.rxak
    OBVIOUS
  <1>d. Answered => ~i2sr.ial /\ i2cr.msta /\ ~Lost
    BY DEF Answered, Lost
  <1>e. Beaten => Sending /\ Lost
    BY DEF Beaten, Lost
  <1>f. Len(got) \in Nat
    BY DEF Steady, I2cTyped
  <1>. HIDE DEF s
  <1>1. CASE /\ Sending /\ s.iif /\ Lost /\ Finishes("arbitration_lost")
             /\ UNCHANGED <<left, restart, got, i2cr, wire, slave>>
    <2>1. Ended
      BY <1>0, <1>a, <1>1 DEF Ended, Clear, Finishes
    <2>2. Numbered' /\ MovedAll'
      BY <1>a, <1>1 DEF Numbered, MovedAll, Finishes
    <2>. QED
      BY <2>1, <2>2, EndsInTurn
  <1>2. CASE /\ Sending /\ s.rxak /\ ~Lost /\ Finishes("nack") /\ i2cr' = Off /\ Stops
             /\ UNCHANGED <<left, restart, got, wire>>
    <2>1. Ended
      BY <1>0, <1>a, <1>d, <1>e, <1>2 DEF Ended, Clear, Finishes
    <2>2. Numbered' /\ MovedAll'
      BY <1>a, <1>2 DEF Numbered, MovedAll, Finishes
    <2>. QED
      BY <2>1, <2>2, EndsInTurn
  <1>3. CASE Sending /\ ~s.rxak /\ ~(s.iif /\ Lost) /\ Acknowledged /\ UNCHANGED got
    <2>1. Answered /\ ~Lost /\ ~i2sr'.ial /\ ~i2sr.rxak /\ i2cr.msta
      BY <1>0, <1>a, <1>c, <1>d, <1>e, <1>3
    <2>2. /\ place = "address_1" => slave.mode = "half_addressed"
          /\ place = "address_2" => slave.mode = "takes"
          /\ place = "address" => slave.mode = IF transfer.dir = "recv" THEN "sends" ELSE "takes"
          /\ place = "send" => slave.mode = "takes" /\ slave.count = transfer.len - left
      BY <1>3, <2>1 DEF Answered
    <2>3. Numbered'
      BY <1>a, <1>3 DEF Numbered
    <2>4. \A b : Puts(b) => wire' = b
      BY <1>a DEF Puts
    <2>5. CASE /\ place = "address_1" /\ place' = "address_2" /\ Puts(<<"xadr2", "send">>)
               /\ UNCHANGED <<left, restart, status, i2cr, slave>>
      <3>1. wire' = <<"xadr2", "send">>
        BY <2>4, <2>5
      <3>2. OnBus'
        BY <1>0, <2>1, <2>2, <2>5, <3>1 DEF OnBus
      <3>. QED
        BY <1>a, <2>3, <2>5, <3>2, OnTheBus
    <2>6. CASE /\ place = "address_2" /\ transfer.dir = "recv" /\ place' = "address"
               /\ Puts(<<"xadr1", "recv">>) /\ i2cr' = Master(FALSE) /\ Starts
               /\ UNCHANGED <<left, restart, status>>
      <3>1. wire' = <<"xadr1", "recv">>
        BY <2>4, <2>6
      <3>2. slave' = [mode |-> "start", count |-> slave.count]
        BY <1>0, <2>6 DEF Starts
      <3>3. i2cr'.msta
        BY <2>6 DEF Master
      <3>4. OnBus'
        BY <1>0, <2>1, <2>6, <3>1, <3>2, <3>3 DEF OnBus
      <3>. QED
        BY <1>a, <2>3, <2>6, <3>2, <3>4, OnTheBus
    <2>7. CASE place # "address_1" /\ transfer.dir = "send" /\ SendNext
      <3>1. slave.mode = "takes" /\ slave.count = transfer.len - left
        <4>1. place = "send" \/ (place \in {"address", "address_2"} /\ left = transfer.len)
          BY <1>3, <2>7 DEF Sending, Steady, Progress
        <4>. QED
          BY <1>0, <1>a, <2>2, <2>7, <4>1
      <3>2. CASE left > 0
        <4>1. /\ wire' = Byte(transfer.len - left + 1) /\ left' = left - 1 /\ place' = "send"
              /\ UNCHANGED <<i2cr, slave>>
          BY <2>4, <2>7, <3>2 DEF SendNext
        <4>2. left <= transfer.len
          BY <1>0 DEF Steady, I2cTyped, I2cTypeOK
        <4>3. /\ transfer.len - left + 1 = transfer.len - left'
              /\ left' < transfer.len /\ slave.count = transfer.len - left' - 1
          BY <1>0, <3>1, <3>2, <4>1, <4>2
        <4>4. wire' = Byte(transfer.len - left')
          BY <4>1, <4>3
        <4>5. OnBus'
          BY <1>0, <2>1, <3>1, <4>1, <4>3, <4>4 DEF OnBus
        <4>. QED
          BY <2>3, <4>1, <4>5, OnTheBus
      <3>3. CASE ~(left > 0)
        <4>1. /\ place' = "idle" /\ wire' = wire
              /\ Stops \/ slave' = slave
          BY <2>7, <3>3 DEF SendNext, Done, Finishes
        <4>2. slave'.count = slave.count /\ slave'.mode # "sends"
          BY <1>0, <3>1, <4>1 DEF Stops
        <4>3. slave.count = transfer.len
          BY <1>0, <3>1, <3>3
        <4>4. Ended /\ MovedAll'
          BY <1>0, <1>a, <2>1, <2>7, <4>1, <4>2, <4>3 DEF Ended, Clear, MovedAll
        <4>. QED
          BY <2>3, <4>4, EndsInTurn
      <3>. QED
        BY <3>2, <3>3
    <2>8. CASE place = "address" /\ transfer.dir = "recv" /\ RecvFirst
      <3>1. wire' = Reception /\ place' = "recv" /\ left' = left /\ slave' = slave
        BY <2>4, <2>8 DEF RecvFirst
      <3>2. i2cr'.msta /\ i2cr'.txak = (left = 1)
        BY <2>8 DEF RecvFirst, Master
      <3>3. slave.mode = "sends" /\ slave.count = 0 /\ got' = <<>>
        BY <1>a, <1>3, <2>2, <2>8 DEF Steady, Progress
      <3>4. Len(got') = 0
        BY <3>3
      <3>5. OnBus'
        BY <1>0, <2>1, <3>1, <3>2, <3>3, <3>4 DEF OnBus
      <3>. QED
        BY <2>3, <3>1, <3>5, OnTheBus
    <2>. QED
      BY <1>3, <2>5, <2>6, <2>7, <2>8, Acks DEF Steady
  <1>4. CASE place = "recv" /\ Received(s)
    <2>1. Answered /\ ~i2sr'.ial /\ i2cr.msta
      BY <1>0, <1>a, <1>d, <1>4 DEF Beaten, Sending
    <2>2. /\ slave.mode = IF left = 1 THEN "refused" ELSE "sends"
          /\ slave.count = Len(got) + 1 /\ i2sr.data = slave.count
          /\ i2cr.txak = (left = 1)
      BY <1>4, <2>1 DEF Answered
    <2>3. left > 0 /\ Len(got) + left = transfer.len /\ transfer.dir = "recv"
      BY <1>4 DEF Steady, Progress
    <2>4. got' = Append(got, i2sr.data) /\ left' = left - 1
      BY <1>4, <1>c DEF Received
    <2>5. Len(got') = Len(got) + 1 /\ got' \in Seq(Nat)
      <3>1. got \in Seq(Nat) /\ i2sr.data \in Nat
        BY DEF Steady, I2cTyped
      <3>. QED
        BY <2>4, <3>1
    <2>6. \A k \in 1 .. Len(got') : got'[k] = k
      <3>. SUFFICES ASSUME NEW k \in 1 .. Len(got')
                    PROVE  got'[k] = k
        OBVIOUS
      <3>1. got \in Seq(Nat)
        BY DEF Steady, I2cTyped
      <3>2. CASE k = Len(got) + 1
        <4>1. got'[Len(got) + 1] = i2sr.data
          BY <2>4, <3>1
        <4>. QED
          BY <2>2, <3>2, <4>1
      <3>3. CASE k # Len(got) + 1
        <4>1. k \in 1 .. Len(got)
          BY <1>f, <2>5, <3>3
        <4>2. got'[k] = got[k]
          BY <2>4, <3>1, <4>1
        <4>. QED
          BY <1>a, <4>1, <4>2 DEF Numbered
      <3>. QED
        BY <3>2, <3>3
    <2>7. Numbered'
      BY <2>6 DEF Numbered
    <2>8. CASE left = 1 /\ transfer.stop
      <3>1. i2cr' = Off /\ Stops /\ Done
        BY <1>4, <1>c, <2>8 DEF Received, RefuseNext
      <3>2. wire' = wire
        <4>1. ~i2cr'.msta
          BY <3>1 DEF Off
        <4>. QED
          BY <1>4, <1>c, <2>8, <4>1 DEF Received
      <3>3. place' = "idle" /\ slave'.mode = "idle"
        BY <1>0, <3>1 DEF Done, Finishes, Stops
      <3>4. Len(got') = transfer.len
        BY <1>f, <2>3, <2>5, <2>8
      <3>5. got' = [k \in 1 .. transfer.len |-> k]
        BY <2>5, <2>6, <3>4
      <3>6. Ended /\ MovedAll'
        BY <1>0, <1>a, <2>1, <2>3, <3>2, <3>3, <3>5 DEF Ended, Clear, MovedAll
      <3>. QED
        BY <2>7, <3>6, EndsInTurn
    <2>9. CASE left = 1 /\ ~transfer.stop
      <3>1. i2cr' = i2cr /\ slave' = slave /\ place' = "flush"
        BY <1>4, <1>c, <2>9 DEF Received, RefuseNext
      <3>2. wire' = Reception
        <4>1. i2cr'.msta
          BY <2>1, <3>1
        <4>2. Puts(Reception)
          BY <1>4, <1>c, <4>1 DEF Received
        <4>. QED
          BY <1>a, <4>2 DEF Puts
      <3>3. OnBus'
        BY <1>0, <2>1, <2>2, <2>9, <3>1, <3>2 DEF OnBus
      <3>. QED
        BY <2>7, <3>1, <3>3, OnTheBus
    <2>10. CASE left > 1
      <3>0. left # 1
        BY <1>0, <2>10
      <3>1. slave' = slave /\ place' = "recv" /\ (i2cr' = IF left = 2 THEN Master(TRUE) ELSE i2cr)
        BY <1>4, <1>c, <2>10, <3>0 DEF Received, RefuseNext
      <3>2. i2cr'.msta
        BY <2>1, <3>1 DEF Master
      <3>3. wire' = Reception
        <4>1. Puts(Reception)
          BY <1>4, <1>c, <3>2 DEF Received
        <4>. QED
          BY <1>a, <4>1 DEF Puts
      <3>4. i2cr'.txak = (left' = 1)
        <4>1. CASE left = 2
          <5>1. left' = 1
            BY <2>4, <4>1
          <5>. QED
            BY <3>1, <4>1, <5>1 DEF Master
        <4>2. CASE left # 2
          <5>1. left' # 1
            BY <1>0, <2>4, <4>2
          <5>2. i2cr' = i2cr /\ ~i2cr.txak
            BY <2>2, <3>0, <3>1, <4>2
          <5>3. i2cr.txak \in BOOLEAN
            BY DEF Steady, I2cTyped, I2cTypeOK
          <5>. QED
            BY <5>1, <5>2, <5>3
        <4>. QED
          BY <4>1, <4>2
      <3>5. slave.mode = "sends" /\ slave.count = Len(got')
        BY <2>2, <2>5, <3>0
      <3>6. OnBus'
        BY <1>0, <2>1, <3>1, <3>2, <3>3, <3>4, <3>5 DEF OnBus
      <3>. QED
        BY <2>7, <3>1, <3>6, OnTheBus
    <2>11. left = 1 \/ left > 1
      BY <1>0, <2>3
    <2>. QED
      BY <1>0, <2>8, <2>9, <2>10, <2>11
  <1>5. CASE place = "flush" /\ Done /\ UNCHANGED <<left, got, i2cr, wire, slave>>
    <2>1. Answered /\ ~i2sr'.ial
      BY <1>0, <1>a, <1>d, <1>5 DEF Beaten, Sending
    <2>2. slave'.mode = "refused" /\ transfer.dir = "recv" /\ Len(got) = transfer.len
      BY <1>5, <2>1 DEF Answered, Steady, Progress
    <2>3. Numbered' /\ got' = got
      BY <1>a, <1>5 DEF Numbered
    <2>4. got' = [k \in 1 .. transfer.len |-> k]
      <3>1. got \in Seq(Nat)
        BY DEF Steady, I2cTyped
      <3>2. \A k \in 1 .. transfer.len : got[k] = k
        BY <1>a, <2>2 DEF Numbered
      <3>. QED
        BY <2>2, <2>3, <3>1, <3>2
    <2>5. Ended /\ MovedAll'
      BY <1>0, <1>a, <1>5, <2>1, <2>2, <2>4 DEF Ended, Clear, MovedAll, Done, Finishes
    <2>. QED
      BY <2>3, <2>5, EndsInTurn
  <1>. QED
    BY <1>b, <1>1, <1>2, <1>3, <1>4, <1>5 DEF GoesOn

-----------------------------------------------------------------------------
(* Without a byte that took too long, every step leaves the byte the call  *)
(* waits for on the bus or its flag up.                                    *)
LEMMA BeginInTurn ==
  ASSUME Steady, Begin, InTurn
  PROVE  InTurn' /\ MovedAll'
  <1>0. PICK t \in Transfers : Begun(t)
    BY Begins
  <1>1. /\ transfer' = t /\ left' = t.len /\ got' = <<>> /\ place = "idle"
        /\ place' = IF t.bits = 7 THEN "address" ELSE "address_1"
    BY <1>0 DEF Begun
  <1>2. wire = Silence /\ ~i2sr.iif /\ ~i2sr.ial
    BY <1>1 DEF InTurn
  <1>3. Numbered'
    BY <1>1 DEF Numbered
  <1>4. CASE /\ i2cr' = Master(FALSE) /\ slave' = [mode |-> "start", count |-> 0]
             /\ Puts(IF t.bits = 7 THEN <<"adr", t.dir>> ELSE <<"xadr1", "send">>)
             /\ i2sr' = i2sr
    <2>1. wire' = IF t.bits = 7 THEN <<"adr", t.dir>> ELSE <<"xadr1", "send">>
      BY <1>2, <1>4 DEF Puts
    <2>2. i2cr'.msta
      BY <1>4 DEF Master
    <2>3. slave'.mode = "start" /\ slave'.count = 0
      BY <1>4
    <2>4. OnBus'
      BY <1>1, <1>2, <1>4, <2>1, <2>2, <2>3 DEF OnBus
    <2>. QED
      BY <1>1, <1>3, <2>3, <2>4, OnTheBus
  <1>5. CASE /\ i2cr' = [Master(FALSE) EXCEPT !.msta = FALSE]
             /\ slave' = [mode |-> "idle", count |-> 0]
             /\ i2sr' = [i2sr EXCEPT !.iif = TRUE, !.ial = TRUE]
             /\ wire' = wire
    <2>1. i2sr'.iif /\ i2sr'.ial
      BY <1>5 DEF Steady, I2cTyped
    <2>2. ~i2cr'.msta
      BY <1>5 DEF Master
    <2>3. slave'.count = 0
      BY <1>5
    <2>4. Beaten'
      BY <1>1, <1>2, <1>5, <2>1, <2>2 DEF Beaten, Sending
    <2>. QED
      BY <1>1, <1>3, <2>3, <2>4 DEF InTurn, MovedAll, Numbered
  <1>. QED
    BY <1>0, <1>4, <1>5 DEF Begun

LEMMA BusInTurn ==
  ASSUME Steady, InTurn, SentByte \/ ArbitrationLost \/ ReceivedByte
  PROVE  InTurn' /\ MovedAll'
  <1>0. /\ UNCHANGED <<transfer, place, left, got, status>> /\ wire # Silence /\ wire' = Silence
    <2>1. Reception # Silence
      BY DEF Silence, Reception
    <2>2. wire' = Silence /\ (wire # Silence \/ wire = Reception)
      BY DEF SentByte, ArbitrationLost, ReceivedByte
    <2>3. UNCHANGED <<transfer, place, left, got, status>>
      BY DEF SentByte, ArbitrationLost, ReceivedByte
    <2>. QED
      BY <2>1, <2>2, <2>3
  <1>1. OnBus /\ place # "idle"
    BY <1>0 DEF InTurn, Answered, Beaten
  <1>2. /\ i2sr \in [iif : BOOLEAN, rxak : BOOLEAN, ial : BOOLEAN, data : Nat]
        /\ slave \in [mode : Modes, count : Nat]
        /\ i2cr \in [msta : BOOLEAN, iien : BOOLEAN, txak : BOOLEAN]
        /\ slave.count \in Nat /\ transfer.len \in Nat /\ left \in Nat
        /\ transfer.dir \in {"send", "recv"}
    BY I2cAssumption DEF Steady, I2cTyped, I2cTypeOK
  <1>3. /\ place = "recv" \/ place = "flush" <=> wire = Reception
        /\ ~Sending <=> wire = Reception
    <2>1. Sending => wire # Reception
      BY <1>1 DEF OnBus, Sending, Reception, Byte
    <2>2. Sending \/ place = "recv" \/ place = "flush"
      BY <1>1 DEF Steady, I2cTyped, I2cTypeOK, Sending
    <2>3. place = "recv" \/ place = "flush" => wire = Reception
      BY <1>1 DEF OnBus
    <2>. QED
      BY <2>1, <2>2, <2>3
  <1>4. Numbered'
    BY <1>0 DEF InTurn, Numbered
  <1>5. CASE SentByte
    <2>0. PICK refused \in BOOLEAN :
             LET mode == IF refused THEN "idle" ELSE Answers(wire)
             IN  /\ slave' = [mode |-> mode, count |-> IF mode = "takes" /\ wire[1] = "data"
                                /\ wire = Byte(slave.count + 1) THEN slave.count + 1 ELSE slave.count]
                 /\ i2sr' = [i2sr EXCEPT !.iif = TRUE, !.rxak = mode = "idle"]
      BY <1>5 DEF SentByte
    <2>. DEFINE mode == IF refused THEN "idle" ELSE Answers(wire)
    <2>1. i2cr' = i2cr /\ wire # Reception /\ Sending
      BY <1>3, <1>5 DEF SentByte
    <2>2. i2sr'.iif /\ ~i2sr'.ial /\ (i2sr'.rxak = (mode = "idle"))
      BY <1>1, <1>2, <2>0 DEF OnBus
    <2>3. /\ slave'.mode = mode
          /\ slave'.count = IF mode = "takes" /\ wire[1] = "data" /\ wire = Byte(slave.count + 1)
                            THEN slave.count + 1 ELSE slave.count
      BY <2>0
    <2>4. CASE refused
      <3>1. i2sr'.rxak /\ slave'.count = slave.count
        BY <2>2, <2>3, <2>4
      <3>2. Answered'
        BY <1>0, <1>1, <1>3, <2>1, <2>2, <3>1 DEF Answered, OnBus, Sending
      <3>. QED
        BY <1>0, <1>1, <1>4, <3>1, <3>2 DEF InTurn, MovedAll, Numbered
    <2>5. CASE ~refused
      <3>0. mode = Answers(wire)
        BY <2>5
      <3>1. CASE place = "address_1"
        <4>1. wire = <<"xadr1", "send">> /\ slave.mode = "start"
          BY <1>1, <3>1 DEF OnBus
        <4>2. mode = "half_addressed"
          BY <3>0, <4>1 DEF Answers
        <4>. HIDE DEF mode
        <4>3. slave'.count = slave.count /\ slave'.mode = "half_addressed"
          BY <2>3, <4>2
        <4>4. Answered'
          BY <1>0, <1>1, <2>1, <2>2, <3>1, <4>3 DEF Answered, OnBus, Sending
        <4>. QED
          BY <1>0, <1>1, <1>4, <4>3, <4>4 DEF InTurn, MovedAll, Numbered
      <3>2. CASE place = "address_2"
        <4>1. wire = <<"xadr2", "send">> /\ slave.mode = "half_addressed"
          BY <1>1, <3>2 DEF OnBus
        <4>2. mode = "takes" /\ wire[1] # "data"
          BY <3>0, <4>1 DEF Answers
        <4>. HIDE DEF mode
        <4>3. slave'.count = slave.count /\ slave'.mode = "takes"
          BY <2>3, <4>2
        <4>4. Answered'
          BY <1>0, <1>1, <2>1, <2>2, <3>2, <4>3 DEF Answered, OnBus, Sending
        <4>. QED
          BY <1>0, <1>1, <1>4, <4>3, <4>4 DEF InTurn, MovedAll, Numbered
      <3>3. CASE place = "address"
        <4>1. /\ \/ wire = <<"adr", transfer.dir>>
                 \/ wire = <<"xadr1", "recv">> /\ transfer.dir = "recv"
              /\ slave.mode = "start"
          BY <1>1, <3>3 DEF OnBus
        <4>2. mode = (IF transfer.dir = "recv" THEN "sends" ELSE "takes") /\ wire[1] # "data"
          <5>1. CASE wire = <<"adr", transfer.dir>>
            <6>1. wire[1] = "adr" /\ wire[2] = transfer.dir
              BY <5>1
            <6>. QED
              BY <3>0, <4>1, <6>1 DEF Answers
          <5>2. CASE wire = <<"xadr1", "recv">> /\ transfer.dir = "recv"
            <6>1. wire[1] = "xadr1" /\ wire[2] = "recv"
              BY <5>2
            <6>2. wire # <<"xadr1", "send">>
              BY <6>1
            <6>. QED
              BY <3>0, <4>1, <5>2, <6>1, <6>2 DEF Answers
          <5>. QED
            BY <4>1, <5>1, <5>2
        <4>. HIDE DEF mode
        <4>3. slave'.count = slave.count /\ slave'.mode = mode
          BY <2>3, <4>2
        <4>4. Answered'
          BY <1>0, <1>1, <2>1, <2>2, <3>3, <4>2, <4>3 DEF Answered, OnBus, Sending
        <4>. QED
          BY <1>0, <1>1, <1>4, <4>3, <4>4 DEF InTurn, MovedAll, Numbered
      <3>4. CASE place = "send"
        <4>1. /\ wire = Byte(transfer.len - left) /\ left < transfer.len
              /\ slave.mode = "takes" /\ slave.count = transfer.len - left - 1
          BY <1>1, <3>4 DEF OnBus
        <4>2. wire[1] = "data" /\ wire[1] # "adr" /\ wire[1] # "xadr1" /\ wire[1] # "xadr2"
          BY <4>1 DEF Byte
        <4>3. wire # <<"xadr1", "send">> /\ wire # <<"xadr1", "recv">>
          BY <4>2
        <4>4. mode = "takes"
          BY <3>0, <4>1, <4>2, <4>3 DEF Answers
        <4>5. slave.count + 1 = transfer.len - left
          BY <1>2, <4>1
        <4>. HIDE DEF mode
        <4>6. slave'.count = transfer.len - left /\ slave'.mode = "takes"
          BY <2>3, <4>1, <4>2, <4>4, <4>5
        <4>7. Answered'
          BY <1>0, <1>1, <2>1, <2>2, <3>4, <4>6 DEF Answered, OnBus, Sending
        <4>. QED
          BY <1>0, <1>1, <1>4, <3>4, <4>7 DEF InTurn, MovedAll, Numbered
      <3>. QED
        BY <2>1, <3>1, <3>2, <3>3, <3>4 DEF Sending
    <2>. QED
      BY <2>4, <2>5
  <1>6. CASE ArbitrationLost
    <2>1. i2sr'.iif /\ i2sr'.ial /\ ~i2cr'.msta
      BY <1>2, <1>6 DEF ArbitrationLost
    <2>2. slave'.count = slave.count
      BY <1>2, <1>6 DEF ArbitrationLost, Stops
    <2>3. Sending
      BY <1>3, <1>6 DEF ArbitrationLost
    <2>4. Beaten'
      BY <1>0, <2>1, <2>3 DEF Beaten, Sending
    <2>. QED
      BY <1>0, <1>1, <1>4, <2>2, <2>4 DEF InTurn, MovedAll, Numbered
  <1>7. CASE ReceivedByte
    <2>1. i2cr' = i2cr /\ wire = Reception
      BY <1>7 DEF ReceivedByte
    <2>2. place = "recv" \/ place = "flush"
      BY <1>3, <2>1
    <2>3. i2sr'.iif /\ ~i2sr'.ial
          /\ i2sr'.data = IF slave.mode = "sends" THEN slave.count + 1 ELSE 0
      BY <1>1, <1>2, <1>7 DEF ReceivedByte, OnBus
    <2>4. CASE place = "recv"
      <3>1. slave.mode = "sends" /\ slave.count = Len(got) /\ i2cr.txak = (left = 1)
        BY <1>1, <2>4 DEF OnBus
      <3>2. slave'.mode = (IF left = 1 THEN "refused" ELSE "sends") /\ slave'.count = slave.count + 1
        BY <1>2, <1>7, <3>1 DEF ReceivedByte
      <3>3. Answered'
        BY <1>0, <1>1, <2>1, <2>3, <2>4, <3>1, <3>2 DEF Answered, OnBus, Sending
      <3>. QED
        BY <1>0, <1>1, <1>4, <2>4, <3>3 DEF InTurn, MovedAll, Numbered
    <2>5. CASE place = "flush"
      <3>1. slave.mode = "refused"
        BY <1>1, <2>5 DEF OnBus
      <3>2. slave' = slave
        BY <1>7, <3>1 DEF ReceivedByte
      <3>3. Answered'
        BY <1>0, <1>1, <2>1, <2>3, <2>5, <3>1, <3>2 DEF Answered, OnBus, Sending
      <3>. QED
        BY <1>0, <1>1, <1>4, <2>5, <3>3 DEF InTurn, MovedAll, Numbered
    <2>. QED
      BY <2>2, <2>4, <2>5
  <1>. QED
    BY <1>5, <1>6, <1>7

(* A step that changes nothing but events and masks.                       *)
LEMMA StillInTurn ==
  ASSUME InTurn, MovedAll,
         UNCHANGED <<transfer, place, left, got, status, i2cr, i2sr, wire, slave, stretches>>
  PROVE  InTurn' /\ MovedAll'
  BY DEF InTurn, MovedAll, OnBus, Answered, Beaten, Sending

LEMMA I2cInvKept ==
  ASSUME I2cInv, [I2cNext]_i2cVars
  PROVE  I2cInv'
  <1>1. Steady /\ Steady'
    BY SteadyKept DEF I2cInv, Steady
  <1>2. ASSUME stretches' = 0
        PROVE  InTurn' /\ MovedAll'
    <2>1. stretches \in Nat /\ (stretches' = stretches \/ stretches' = stretches + 1)
      <3>1. stretches \in Nat
        BY I2cAssumption DEF I2cInv, I2cTyped, I2cTypeOK
      <3>2. stretches' = stretches \/ stretches' = stretches + 1
        <4>1. CASE WaitEvent \/ WaitTimeout
          BY <1>1, <4>1, Waits DEF Found, Spurious, Late, Steady
        <4>2. CASE ~(WaitEvent \/ WaitTimeout)
          BY <4>2 DEF I2cNext, Begin, I2cInterrupt, SentByte, ArbitrationLost,
             ReceivedByte, i2cVars
        <4>. QED
          BY <4>1, <4>2
      <3>. QED
        BY <3>1, <3>2
    <2>2. stretches = 0 /\ InTurn /\ MovedAll
      BY <1>2, <2>1 DEF I2cInv
    <2>3. CASE WaitEvent \/ WaitTimeout
      <3>1. CASE Found
        BY <1>1, <2>2, <3>1, FoundInTurn
      <3>2. CASE Spurious
        BY <2>2, <3>2, StillInTurn DEF Spurious
      <3>3. CASE Late
        BY <1>2, <2>1, <3>3 DEF Late
      <3>. QED
        BY <1>1, <2>3, <3>1, <3>2, <3>3, Waits DEF Steady
    <2>4. CASE Begin
      BY <1>1, <2>2, <2>4, BeginInTurn
    <2>5. CASE I2cInterrupt
      BY <2>2, <2>5, StillInTurn DEF I2cInterrupt
    <2>6. CASE SentByte \/ ArbitrationLost \/ ReceivedByte
      BY <1>1, <2>2, <2>6, BusInTurn
    <2>7. CASE UNCHANGED i2cVars
      BY <2>2, <2>7, StillInTurn DEF i2cVars
    <2>. QED
      BY <2>3, <2>4, <2>5, <2>6, <2>7 DEF I2cNext
  <1>. QED
    BY <1>1, <1>2 DEF I2cInv, Steady

LEMMA I2cInvInit ==
  ASSUME I2cInit
  PROVE  I2cInv
  <1>. USE DEF I2cInit
  <1>1. transfer.len \in Nat /\ transfer.len > 0 /\ MaxStretches \in Nat
    BY I2cAssumption
  <1>2. got = <<>> /\ got \in Seq(Nat) /\ Len(got) = 0
    OBVIOUS
  <1>3. i2cr \in [msta : BOOLEAN, iien : BOOLEAN, txak : BOOLEAN]
    BY DEF Off
  <1>4. slave \in [mode : Modes, count : Nat]
    BY DEF Modes
  <1>5. I2cTypeOK
    <2>1. left \in 0 .. transfer.len /\ Len(got) <= transfer.len /\ stretches \in 0 .. MaxStretches
      BY <1>1, <1>2
    <2>2. {restart, i2cEvent, i2cMasked} \subseteq BOOLEAN
      OBVIOUS
    <2>. QED
      BY <1>3, <2>1, <2>2 DEF I2cTypeOK
  <1>6. i2sr \in [iif : BOOLEAN, rxak : BOOLEAN, ial : BOOLEAN, data : Nat]
    OBVIOUS
  <1>7. InTurn /\ MovedAll /\ Progress /\ Signalled
    BY <1>2 DEF InTurn, MovedAll, Progress, Signalled
  <1>. QED
    BY <1>2, <1>4, <1>5, <1>6, <1>7 DEF I2cInv, I2cTyped

LEMMA I2cInvRight ==
  ASSUME I2cInv
  PROVE  TransferRight
  <1>1. I2cTypeOK /\ MovedAll
    BY DEF I2cInv, I2cTyped, MovedAll
  <1>2. i2cMasked => i2cEvent /\ i2sr.iif
    BY DEF I2cInv, Signalled
  <1>3. i2cMasked \in BOOLEAN
    BY <1>1 DEF I2cTypeOK
  <1>4. ASSUME place # "idle", stretches = 0
        PROVE  wire # Silence \/ (i2sr.iif /\ (i2cEvent \/ ~i2cMasked))
    <2>1. OnBus \/ Answered \/ Beaten
      BY <1>4 DEF I2cInv, InTurn
    <2>2. OnBus => wire # Silence
      <3>1. place \in {"address", "address_1", "address_2", "send", "recv", "flush"}
        BY <1>1, <1>4 DEF I2cTypeOK
      <3>. QED
        BY <3>1 DEF OnBus, Silence, Byte, Reception
    <2>3. Answered \/ Beaten => i2sr.iif
      BY DEF Answered, Beaten
    <2>. QED
      BY <1>2, <1>3, <2>1, <2>2, <2>3
  <1>. QED
    BY <1>1, <1>2, <1>4 DEF TransferRight, Woken

(* The inductive invariant of a call, the controller and the slave.        *)
THEOREM I2cInvariant == I2cSpec => []I2cInv
  <1>1. I2cInv /\ [I2cNext]_i2cVars => I2cInv'
    BY I2cInvKept
  <1>. QED
    BY <1>1, I2cInvInit, PTL DEF I2cSpec

(* TransferRight: a call that returns I2C_STATUS_DONE has moved all its    *)
(* bytes, each once and in order, and every wait is woken, for transfers   *)
(* of any lengths and any number of bytes that take too long before and    *)
(* after.                                                                  *)
THEOREM TransferCorrect == I2cSpec => []TransferRight
  BY I2cInvariant, I2cInvRight, PTL

-----------------------------------------------------------------------------
-----------------------------------------------------------------------------
(***************************************************************************)
(* ErasedIsBlank and PostedReadsBack of EtfsNand, for every number of      *)
(* blocks, clusters, transactions and contents: the flash survives a loss  *)
(* of power at every moment of a post, an erase or a signature.            *)
(***************************************************************************)

Contents  == Data \cup {BLANK, TORN}
Sigs      == {"sig", BLANK, TORN}
Pages     == [data : Contents, sig : Sigs, trans : Transactions \cup {BLANK, TORN}]
Postings  == [trans : Trans, clean : BOOLEAN]

Writes(c) == {Built(c, t, d) : t \in Trans, d \in Data}
First(b)  == <<b, 0>>

Operations ==
  {IDLE} \cup [kind : {"post"}, at : Clusters, write : Pages, posting : Postings]
         \cup [kind : {"erase"}, blk : Blocks]
         \cup {[kind |-> "sign", at |-> First(b)] : b \in Blocks}

Typed ==
  /\ page \in [Clusters -> Pages]
  /\ op \in Operations
  /\ next \in [Blocks -> 0 .. FULL]
  /\ posted \in [Clusters -> Postings \cup {NONE}]

(* What is still to be posted to in a block is blank, ...                  *)
BlankAhead ==
  \A c \in Clusters : c[2] > 0 /\ next[c[1]] <= c[2] => page[c] = BlankPage

(* ... begins with a cluster that reads as erased, ...                     *)
ErasedAtStart == \A b \in Blocks : next[b] = 0 => Erased(page[First(b)])

(* ... which it does no more as soon as the second one may be posted to.   *)
Launched ==
  \A b \in Blocks :
    0 < next[b] /\ next[b] < FULL /\ ~(op.kind = "post" /\ op.at = First(b))
      => ~Erased(page[First(b)])

(* ErasedIsBlank at all times.                                             *)
BlankBehind ==
  \A c \in Clusters : c[2] > 0 /\ Erased(page[First(c[1])]) => page[c] = BlankPage

ReadsBack(c) ==
  /\ page[c].trans \in Transactions
  /\ page[c].trans.crctrans = page[c].sig
  /\ page[c].trans.trans = posted[c].trans
  /\ posted[c].clean => page[c].data = page[c].trans.crcdata

Kept == \A c \in Clusters : posted[c] # NONE => c[2] < next[c[1]] /\ ReadsBack(c)

(* What is at work, and what it finds on the chip.                         *)
Posting ==
  op.kind = "post" =>
    /\ next[op.at[1]] = op.at[2] + 1 /\ posted[op.at] = NONE
    /\ op.at[2] = 0 => Erased(page[op.at])
    /\ op.at[2] > 0 => page[op.at] = BlankPage /\ ~Erased(page[First(op.at[1])])
    /\ op.write \in Writes(op.at) /\ op.write.trans.trans = op.posting.trans
    /\ op.posting.clean => page[op.at].data = BLANK

Emptied(b) == next[b] = FULL /\ \A c \in InBlock(b) : posted[c] = NONE

Erasing == op.kind = "erase" => Emptied(op.blk)

Signing ==
  op.kind = "sign" =>
    Emptied(op.at[1]) /\ \A c \in InBlock(op.at[1]) : page[c] = BlankPage

EtfsInv ==
  /\ Typed
  /\ BlankAhead /\ ErasedAtStart /\ Launched /\ BlankBehind /\ Kept
  /\ Posting /\ Erasing /\ Signing
-----------------------------------------------------------------------------
(* The places of areas; what BLANK and TORN are not.                       *)
LEMMA Distinct ==
  /\ BLANK # TORN /\ BLANK # "sig" /\ TORN # "sig"
  /\ \A d \in Data : d # BLANK /\ d # TORN
  /\ \A x \in Transactions : x # BLANK /\ x # TORN
  /\ FULL \in Nat /\ FULL > 0
<1>1. BLANK \notin Data \cup {"sig"} \cup Transactions /\ TORN \notin Data \cup {"sig"} \cup Transactions
  BY EtfsAssumption
<1> QED BY <1>1, EtfsAssumption DEF FULL

(* The first cluster of a block is a cluster.                              *)
LEMMA FirstCluster == \A b \in Blocks : First(b) \in Clusters /\ First(b)[1] = b /\ First(b)[2] = 0
BY EtfsAssumption DEF First, Clusters

(* A cluster is one of a block, by its number.                             *)
LEMMA ClusterParts ==
  \A c \in Clusters : /\ c[1] \in Blocks /\ c[2] \in 0 .. FULL - 1
                      /\ c[2] = 0 <=> c = First(c[1])
BY EtfsAssumption DEF First, Clusters, FULL

(* A blank page lacks the signature.                                       *)
LEMMA BlankPageType == BlankPage \in Pages /\ ~Erased(BlankPage)
BY Distinct DEF BlankPage, Pages, Contents, Sigs, Erased

(* Programming keeps pages pages.                                          *)
LEMMA ProgrammedPage ==
  ASSUME NEW p \in Pages, NEW w \in Pages
  PROVE  /\ Programmed(p, w) \in Pages
         /\ Programmed(p, w) = [data |-> Over(p.data, w.data), sig |-> Over(p.sig, w.sig),
                                trans |-> Over(p.trans, w.trans)]
<1>1. DOMAIN p = {"data", "sig", "trans"}
  BY DEF Pages
<1>2. Programmed(p, w) = [data |-> Over(p.data, w.data), sig |-> Over(p.sig, w.sig),
                          trans |-> Over(p.trans, w.trans)]
  BY <1>1 DEF Programmed
<1>3. Over(p.data, w.data) \in Contents /\ Over(p.sig, w.sig) \in Sigs
  BY DEF Over, Pages, Contents, Sigs
<1>4. Over(p.trans, w.trans) \in Transactions \cup {BLANK, TORN}
  BY DEF Over, Pages
<1> QED BY <1>2, <1>3, <1>4 DEF Pages

(* So does programming cut short, which leaves alone what was not to be    *)
(* programmed.                                                             *)
LEMMA HalfProgrammedPage ==
  ASSUME NEW p \in Pages, NEW w \in Pages, NEW q \in HalfProgrammed(p, w)
  PROVE  /\ q \in Pages
         /\ w.data = BLANK => q.data = p.data
         /\ w.sig = BLANK => q.sig = p.sig
         /\ w.trans = BLANK => q.trans = p.trans
<1>1. DOMAIN w = {"data", "sig", "trans"}
  BY DEF Pages
<1>2. q \in [data : {p.data, TORN, Over(p.data, w.data)},
             sig : {p.sig, TORN, Over(p.sig, w.sig)},
             trans : {p.trans, TORN, Over(p.trans, w.trans)}]
  BY DEF HalfProgrammed
<1>3. \A a \in {"data", "sig", "trans"} : w[a] = BLANK => q[a] = p[a]
  BY <1>1 DEF HalfProgrammed
<1>4. Over(p.data, w.data) \in Contents /\ Over(p.sig, w.sig) \in Sigs
  BY DEF Over, Pages, Contents, Sigs
<1>5. Over(p.trans, w.trans) \in Transactions \cup {BLANK, TORN}
  BY DEF Over, Pages
<1>6. q \in Pages
  BY <1>2, <1>4, <1>5 DEF Pages, Contents, Sigs
<1> QED BY <1>3, <1>6

(* An erase cut short makes no page read as erased, and leaves blank what  *)
(* was blank.                                                              *)
LEMMA HalfErasedPage ==
  ASSUME NEW p \in Pages, NEW q \in HalfErased(p)
  PROVE  q \in Pages /\ (Erased(q) => q = p) /\ (p = BlankPage => q = BlankPage)
<1> DEFINE t == [a \in DOMAIN p |-> IF p[a] = BLANK THEN BLANK ELSE TORN]
<1>1. DOMAIN p = {"data", "sig", "trans"}
  BY DEF Pages
<1>2. t = [data |-> IF p.data = BLANK THEN BLANK ELSE TORN,
           sig |-> IF p.sig = BLANK THEN BLANK ELSE TORN,
           trans |-> IF p.trans = BLANK THEN BLANK ELSE TORN]
  BY <1>1
<1>3. t \in Pages /\ t.sig # "sig"
  BY <1>2, Distinct DEF Pages, Contents, Sigs
<1>4. ~Erased(t) /\ (p = BlankPage => t = BlankPage)
  BY <1>2, <1>3 DEF Erased, BlankPage
<1>5. q \in {p, BlankPage, t}
  BY DEF HalfErased
<1> QED BY <1>3, <1>4, <1>5, BlankPageType

(* What devio_postcluster builds.                                          *)
LEMMA WritePage ==
  ASSUME NEW c \in Clusters, NEW w \in Writes(c)
  PROVE  /\ w \in Pages /\ w.data \in Data /\ w.trans \in Transactions
         /\ w.trans.crcdata = w.data /\ w.trans.crctrans = "sig"
         /\ w.sig = IF c[2] = 0 THEN BLANK ELSE "sig"
<1>1. PICK t \in Trans, d \in Data :
        w = [data |-> d, sig |-> IF c[2] = 0 THEN BLANK ELSE "sig",
             trans |-> [trans |-> t, crcdata |-> d, crctrans |-> "sig"]]
  BY DEF Writes, Built, Spare
<1>2. w.trans \in Transactions
  BY <1>1 DEF Transactions
<1> QED BY <1>1, <1>2 DEF Pages, Contents, Sigs

(* A post that is not disturbed.                                           *)
LEMMA PostedPage ==
  ASSUME NEW c \in Clusters, NEW p \in Pages, NEW w \in Writes(c),
         c[2] = 0 => Erased(p), c[2] > 0 => p = BlankPage
  PROVE  LET q == Programmed(p, w)
         IN  /\ q \in Pages /\ q.trans = w.trans /\ q.sig = "sig"
             /\ p.data = BLANK => q.data = w.data
             /\ ~Erased(q)
<1> DEFINE q == Programmed(p, w)
<1>1. w \in Pages /\ w.data \in Data /\ w.trans \in Transactions
      /\ w.sig = IF c[2] = 0 THEN BLANK ELSE "sig"
  BY WritePage
<1>2. q \in Pages /\ q.data = Over(p.data, w.data) /\ q.sig = Over(p.sig, w.sig)
      /\ q.trans = Over(p.trans, w.trans)
  <2>1. w \in Pages
    BY <1>1
  <2>2. /\ q \in Pages
        /\ q = [data |-> Over(p.data, w.data), sig |-> Over(p.sig, w.sig),
                trans |-> Over(p.trans, w.trans)]
    BY <2>1, ProgrammedPage
  <2> QED BY <2>2
<1>3. p.trans = BLANK /\ (c[2] = 0 => p.sig = "sig") /\ (c[2] > 0 => p.sig = BLANK)
  BY ClusterParts DEF Erased, BlankPage
<1>4. q.trans = w.trans
  BY <1>1, <1>2, <1>3, Distinct DEF Over
<1>5. q.sig = "sig"
  BY <1>1, <1>2, <1>3, Distinct, ClusterParts DEF Over
<1>6. p.data = BLANK => q.data = w.data
  BY <1>1, <1>2, Distinct DEF Over
<1> QED BY <1>1, <1>2, <1>4, <1>5, <1>6, Distinct DEF Erased
-----------------------------------------------------------------------------
(* A flash that is new.                                                    *)
LEMMA InitInv == EtfsInit => EtfsInv
<1> SUFFICES ASSUME EtfsInit PROVE EtfsInv
  OBVIOUS
<1>1. Typed
  BY BlankPageType, Distinct DEF EtfsInit, Typed, Operations
<1>2. op.kind = "idle"
  BY DEF EtfsInit, IDLE
<1>3. ErasedAtStart /\ Launched
  BY Distinct DEF EtfsInit, ErasedAtStart, Launched
<1> QED BY <1>1, <1>2, <1>3 DEF EtfsInit, EtfsInv, BlankAhead, BlankBehind, Kept, Posting,
           Erasing, Signing

(* The operation at work, by its kind.                                     *)
LEMMA OpKinds ==
  ASSUME Typed
  PROVE  /\ op.kind = "idle" => op = IDLE
         /\ op.kind = "post" => op.at \in Clusters /\ op.write \in Pages /\ op.posting \in Postings
         /\ op.kind = "erase" => op.blk \in Blocks
         /\ op.kind = "sign" => /\ op.at \in Clusters /\ op.at[1] \in Blocks
                                /\ op.at = First(op.at[1])
         /\ op.kind \in {"idle", "post", "erase", "sign"}
BY FirstCluster DEF Typed, Operations, IDLE

(* The signature leaves data and transaction alone.                        *)
LEMMA SignaturePage == Signature \in Pages /\ Signature.data = BLANK /\ Signature.trans = BLANK
BY DEF Signature, Pages, Contents, Sigs

(* Whatever is cut short: nothing that was posted is disturbed, and a      *)
(* block that reads as erased is blank.                                    *)
LEMMA AfterLoss ==
  ASSUME EtfsInv, NEW pg \in AfterPowerLoss
  PROVE  /\ pg \in [Clusters -> Pages]
         /\ \A c \in Clusters : c[2] > 0 /\ Erased(pg[First(c[1])]) => pg[c] = BlankPage
         /\ \A c \in Clusters : posted[c] # NONE => pg[c] = page[c]
         /\ op.kind = "post" => \A c \in Clusters : c # op.at => pg[c] = page[c]
         /\ op.kind \in {"erase", "sign"} =>
              LET b == IF op.kind = "erase" THEN op.blk ELSE op.at[1]
              IN  \A c \in Clusters : c[1] # b => pg[c] = page[c]
<1>1. Typed
  BY DEF EtfsInv
<1>2. page \in [Clusters -> Pages]
  BY <1>1 DEF Typed
<1>3. CASE op.kind = "idle"
  <2>1. pg = page
    BY <1>3 DEF AfterPowerLoss
  <2> QED BY <1>2, <1>3, <2>1 DEF EtfsInv, BlankBehind
<1>4. CASE op.kind = "post"
  <2>1. op.at \in Clusters /\ op.write \in Pages
    BY <1>1, <1>4, OpKinds
  <2>2. PICK p \in HalfProgrammed(page[op.at], op.write) : pg = [page EXCEPT ![op.at] = p]
    BY <1>4 DEF AfterPowerLoss
  <2>3. p \in Pages
    BY <1>2, <2>1, <2>2, HalfProgrammedPage
  <2>4. \A c \in Clusters : pg[c] = IF c = op.at THEN p ELSE page[c]
    BY <1>2, <2>1, <2>2
  <2>5. pg \in [Clusters -> Pages]
    BY <1>2, <2>2, <2>3
  <2>6. \A c \in Clusters : posted[c] # NONE => pg[c] = page[c]
    BY <1>4, <2>4 DEF EtfsInv, Posting
  <2>7. ASSUME NEW c \in Clusters, c[2] > 0, Erased(pg[First(c[1])])
        PROVE  pg[c] = BlankPage
    <3>1. First(c[1]) \in Clusters /\ First(c[1])[1] = c[1] /\ First(c[1])[2] = 0
      BY ClusterParts, FirstCluster
    <3>2. CASE c[1] # op.at[1]
      <4>1. pg[c] = page[c] /\ pg[First(c[1])] = page[First(c[1])]
        BY <2>4, <3>1, <3>2
      <4> QED BY <2>7, <4>1 DEF EtfsInv, BlankBehind
    <3>3. CASE c[1] = op.at[1] /\ op.at[2] > 0
      <4>1. pg[First(c[1])] = page[First(op.at[1])]
        BY <2>4, <3>1, <3>3
      <4> QED BY <1>4, <2>7, <3>3, <4>1 DEF EtfsInv, Posting
    <3>4. CASE c[1] = op.at[1] /\ op.at[2] = 0
      <4>1. next[c[1]] = 1 /\ pg[c] = page[c]
        BY <1>4, <2>4, <2>7, <3>4 DEF EtfsInv, Posting
      <4> QED BY <2>7, <4>1, ClusterParts, Distinct DEF EtfsInv, BlankAhead
    <3> QED BY <2>1, <3>2, <3>3, <3>4, ClusterParts, Distinct
  <2> QED BY <1>4, <2>4, <2>5, <2>6, <2>7
<1>5. CASE op.kind = "sign"
  <2>1. op.at \in Clusters /\ op.at[1] \in Blocks /\ op.at = First(op.at[1])
    BY <1>1, <1>5, OpKinds
  <2>2. PICK p \in HalfProgrammed(page[op.at], Signature) : pg = [page EXCEPT ![op.at] = p]
    BY <1>5 DEF AfterPowerLoss
  <2>3. p \in Pages
    BY <1>2, <2>1, <2>2, HalfProgrammedPage, SignaturePage
  <2>4. \A c \in Clusters : pg[c] = IF c = op.at THEN p ELSE page[c]
    BY <1>2, <2>1, <2>2
  <2>5. pg \in [Clusters -> Pages]
    BY <1>2, <2>2, <2>3
  <2>6. \A c \in Clusters : c[1] = op.at[1] => posted[c] = NONE /\ page[c] = BlankPage
    BY <1>5 DEF EtfsInv, Signing, Emptied, InBlock
  <2>7. ASSUME NEW c \in Clusters, c[2] > 0, Erased(pg[First(c[1])])
        PROVE  pg[c] = BlankPage
    <3>1. First(c[1]) \in Clusters /\ First(c[1])[1] = c[1] /\ c # First(c[1])
      BY <2>7, ClusterParts, FirstCluster, Distinct
    <3>2. CASE c[1] # op.at[1]
      <4>1. pg[c] = page[c] /\ pg[First(c[1])] = page[First(c[1])]
        BY <2>4, <3>1, <3>2
      <4> QED BY <2>7, <4>1 DEF EtfsInv, BlankBehind
    <3>3. CASE c[1] = op.at[1]
      BY <2>1, <2>4, <2>6, <3>1, <3>3
    <3> QED BY <3>2, <3>3
  <2> QED BY <1>5, <2>4, <2>5, <2>6, <2>7
<1>6. CASE op.kind = "erase"
  <2>1. op.blk \in Blocks
    BY <1>1, <1>6, OpKinds
  <2>2. PICK f \in HalfErasedPages(op.blk) :
          pg = [c \in Clusters |-> IF c[1] = op.blk THEN f[c] ELSE page[c]]
    BY <1>6 DEF AfterPowerLoss
  <2>3. \A c \in Clusters : c[1] = op.blk => f[c] \in HalfErased(page[c])
    BY <2>2 DEF HalfErasedPages, InBlock
  <2>4. ASSUME NEW c \in Clusters
        PROVE  /\ pg[c] \in Pages
               /\ Erased(pg[c]) => pg[c] = page[c]
               /\ page[c] = BlankPage => pg[c] = BlankPage
    <3>1. page[c] \in Pages
      BY <1>2
    <3>2. CASE c[1] = op.blk
      <4>1. pg[c] \in HalfErased(page[c])
        BY <2>2, <2>3, <3>2
      <4> QED BY <3>1, <4>1, HalfErasedPage
    <3>3. CASE c[1] # op.blk
      BY <2>2, <3>1, <3>3
    <3> QED BY <3>2, <3>3
  <2>5. pg \in [Clusters -> Pages]
    BY <2>2, <2>4
  <2>6. \A c \in Clusters : c[1] = op.blk => posted[c] = NONE
    BY <1>6 DEF EtfsInv, Erasing, Emptied, InBlock
  <2>7. \A c \in Clusters : c[1] # op.blk => pg[c] = page[c]
    BY <2>2
  <2>8. ASSUME NEW c \in Clusters, c[2] > 0, Erased(pg[First(c[1])])
        PROVE  pg[c] = BlankPage
    <3>1. First(c[1]) \in Clusters
      BY ClusterParts, FirstCluster
    <3>2. Erased(page[First(c[1])])
      BY <2>4, <2>8, <3>1
    <3> QED BY <2>4, <2>8, <3>2 DEF EtfsInv, BlankBehind
  <2> QED BY <1>6, <2>5, <2>6, <2>7, <2>8
<1> QED BY <1>1, <1>3, <1>4, <1>5, <1>6, OpKinds

(* devio_postcluster begins.                                               *)
LEMMA PostStep ==
  ASSUME EtfsInv, NEW c \in Clusters, NEW t \in Trans, NEW d \in Data, Post(c, t, d)
  PROVE  EtfsInv'
<1> DEFINE w == Built(c, t, d)
           posting == [trans |-> t, clean |-> page[c].data = BLANK]
<1>1. /\ op = IDLE /\ next[c[1]] = c[2]
      /\ op' = [kind |-> "post", at |-> c, write |-> w, posting |-> posting]
      /\ next' = [next EXCEPT ![c[1]] = c[2] + 1]
      /\ page' = page /\ posted' = posted
  BY DEF Post
<1>2. c[1] \in Blocks /\ c[2] \in 0 .. FULL - 1 /\ (c[2] = 0 <=> c = First(c[1]))
      /\ First(c[1]) \in Clusters
  BY ClusterParts, FirstCluster
<1>3. w \in Writes(c) /\ w.trans.trans = t
  BY DEF Writes, Built, Spare
<1>4. w \in Pages
  BY <1>3, WritePage
<1>5. /\ op'.kind = "post" /\ op'.at = c /\ op'.write = w /\ op'.posting = posting
      /\ posting.trans = t /\ (posting.clean <=> page[c].data = BLANK)
  BY <1>1
<1>6. next \in [Blocks -> 0 .. FULL] /\ next'[c[1]] = c[2] + 1
      /\ \A b \in Blocks : b # c[1] => next'[b] = next[b]
  BY <1>1, <1>2 DEF EtfsInv, Typed
<1>7. Typed'
  <2>1. posting \in Postings
    BY DEF Postings
  <2>2. op' \in Operations
    BY <1>1, <1>4, <2>1 DEF Operations
  <2>3. c[2] + 1 \in 0 .. FULL
    BY <1>2, Distinct
  <2> QED BY <1>1, <1>2, <2>2, <2>3 DEF EtfsInv, Typed
<1>8. BlankAhead'
  <2> SUFFICES ASSUME NEW e \in Clusters, e[2] > 0, next'[e[1]] <= e[2]
               PROVE  page[e] = BlankPage
    BY <1>1 DEF BlankAhead
  <2>1. next[e[1]] <= e[2]
    BY <1>1, <1>2, <1>6, ClusterParts, Distinct
  <2> QED BY <2>1 DEF EtfsInv, BlankAhead
<1>9. ErasedAtStart'
  BY <1>1, <1>2, <1>6, Distinct DEF EtfsInv, ErasedAtStart
<1>10. Launched'
  <2> SUFFICES ASSUME NEW b \in Blocks, 0 < next'[b], next'[b] < FULL, First(b) # c
               PROVE  ~Erased(page[First(b)])
    BY <1>1, <1>5 DEF Launched
  <2>1. 0 < next[b] /\ next[b] < FULL
    BY <1>1, <1>2, <1>6, Distinct
  <2>2. ~(op.kind = "post")
    BY <1>1 DEF IDLE
  <2> QED BY <2>1, <2>2 DEF EtfsInv, Launched
<1>11. BlankBehind'
  BY <1>1 DEF EtfsInv, BlankBehind
<1>12. Kept'
  <2> SUFFICES ASSUME NEW e \in Clusters, posted[e] # NONE
               PROVE  e[2] < next'[e[1]] /\ ReadsBack(e)
    BY <1>1 DEF Kept, ReadsBack
  <2>1. e[2] < next[e[1]] /\ ReadsBack(e)
    BY DEF EtfsInv, Kept
  <2> QED BY <1>1, <1>2, <1>6, <2>1, ClusterParts, Distinct
<1>13. Posting'
  <2>1. posted[c] = NONE
    BY <1>1, <1>2, Distinct DEF EtfsInv, Kept
  <2>2. c[2] = 0 => Erased(page[c])
    BY <1>1, <1>2 DEF EtfsInv, ErasedAtStart
  <2>3. c[2] > 0 => page[c] = BlankPage
    BY <1>1, <1>2, Distinct DEF EtfsInv, BlankAhead
  <2>4. c[2] > 0 => ~Erased(page[First(c[1])])
    <3>1. op.kind # "post"
      BY <1>1 DEF IDLE
    <3> QED BY <1>1, <1>2, <3>1, Distinct DEF EtfsInv, Launched
  <2> QED BY <1>1, <1>3, <1>5, <1>6, <2>1, <2>2, <2>3, <2>4 DEF Posting
<1>14. Erasing' /\ Signing'
  BY <1>5 DEF Erasing, Signing
<1> QED BY <1>7, <1>8, <1>9, <1>10, <1>11, <1>12, <1>13, <1>14 DEF EtfsInv

(* ... and ends well.                                                      *)
LEMMA PostDoneStep ==
  ASSUME EtfsInv, PostDone
  PROVE  EtfsInv'
<1> DEFINE c == op.at
           q == Programmed(page[c], op.write)
<1>1. op.kind = "post" /\ op' = IDLE /\ next' = next
      /\ page' = [page EXCEPT ![c] = q] /\ posted' = [posted EXCEPT ![c] = op.posting]
  BY DEF PostDone
<1>2. Typed
  BY DEF EtfsInv
<1>3. /\ c \in Clusters /\ op.posting \in Postings
      /\ page \in [Clusters -> Pages] /\ posted \in [Clusters -> Postings \cup {NONE}]
      /\ next \in [Blocks -> 0 .. FULL]
  BY <1>1, <1>2, OpKinds DEF Typed
<1>4. /\ next[c[1]] = c[2] + 1 /\ op.write \in Writes(c)
      /\ c[2] = 0 => Erased(page[c])
      /\ c[2] > 0 => page[c] = BlankPage /\ ~Erased(page[First(c[1])])
      /\ op.write.trans.trans = op.posting.trans
      /\ op.posting.clean => page[c].data = BLANK
  BY <1>1 DEF EtfsInv, Posting
<1>5. /\ q \in Pages /\ q.trans = op.write.trans /\ q.sig = "sig"
      /\ page[c].data = BLANK => q.data = op.write.data
      /\ ~Erased(q)
  BY <1>3, <1>4, PostedPage
<1>6. \A e \in Clusters : page'[e] = IF e = c THEN q ELSE page[e]
  BY <1>1, <1>3
<1>7. c[1] \in Blocks /\ c[2] \in 0 .. FULL - 1 /\ (c[2] = 0 <=> c = First(c[1]))
      /\ First(c[1]) \in Clusters
  BY <1>3, ClusterParts, FirstCluster
<1>8. op'.kind = "idle"
  BY <1>1 DEF IDLE
<1>9. Typed'
  <2>1. page' \in [Clusters -> Pages] /\ posted' \in [Clusters -> Postings \cup {NONE}]
    BY <1>1, <1>3, <1>5
  <2> QED BY <1>1, <1>3, <2>1 DEF Typed, Operations
<1>10. BlankAhead'
  BY <1>1, <1>4, <1>6, <1>7, Distinct DEF EtfsInv, BlankAhead
<1>11. ErasedAtStart'
  <2> SUFFICES ASSUME NEW b \in Blocks, next[b] = 0 PROVE Erased(page'[First(b)])
    BY <1>1 DEF ErasedAtStart
  <2>1. First(b) # c /\ First(b) \in Clusters
    BY <1>4, <1>7, FirstCluster, Distinct
  <2> QED BY <1>6, <2>1 DEF EtfsInv, ErasedAtStart
<1>12. Launched'
  <2> SUFFICES ASSUME NEW b \in Blocks, 0 < next[b], next[b] < FULL
               PROVE  ~Erased(page'[First(b)])
    BY <1>1 DEF Launched
  <2>1. First(b) \in Clusters
    BY FirstCluster
  <2>2. CASE First(b) = c
    BY <1>5, <1>6, <2>1, <2>2
  <2>3. CASE First(b) # c
    BY <1>6, <2>1, <2>3 DEF EtfsInv, Launched
  <2> QED BY <2>2, <2>3
<1>13. BlankBehind'
  <2> SUFFICES ASSUME NEW e \in Clusters, e[2] > 0, Erased(page'[First(e[1])])
               PROVE  page'[e] = BlankPage
    BY DEF BlankBehind
  <2>1. First(e[1]) \in Clusters
    BY ClusterParts, FirstCluster
  <2>2. First(e[1]) # c /\ Erased(page[First(e[1])])
    BY <1>5, <1>6, <2>1
  <2>3. page[e] = BlankPage
    BY <2>2 DEF EtfsInv, BlankBehind
  <2>4. e # c
    BY <1>4, <2>2
  <2> QED BY <1>6, <2>3, <2>4
<1>14. Kept'
  <2> SUFFICES ASSUME NEW e \in Clusters, posted'[e] # NONE
               PROVE  e[2] < next[e[1]] /\ ReadsBack(e)'
    BY <1>1 DEF Kept
  <2>1. CASE e = c
    <3>1. page'[c] = q /\ posted'[c] = op.posting
      BY <1>1, <1>3, <1>6
    <3>2. op.write.trans \in Transactions /\ op.write.trans.crcdata = op.write.data
          /\ op.write.trans.crctrans = "sig"
      BY <1>3, <1>4, WritePage
    <3>3. c[2] < next[c[1]]
      BY <1>4, <1>7, Distinct
    <3> QED BY <1>4, <1>5, <2>1, <3>1, <3>2, <3>3 DEF ReadsBack
  <2>2. CASE e # c
    <3>1. page'[e] = page[e] /\ posted'[e] = posted[e]
      BY <1>1, <1>3, <1>6, <2>2
    <3> QED BY <3>1 DEF EtfsInv, Kept, ReadsBack
  <2> QED BY <2>1, <2>2
<1>15. Posting' /\ Erasing' /\ Signing'
  BY <1>8 DEF Posting, Erasing, Signing
<1> QED BY <1>9, <1>10, <1>11, <1>12, <1>13, <1>14, <1>15 DEF EtfsInv

(* The chip fails: the block is not posted to again.                       *)
LEMMA FailStep ==
  ASSUME EtfsInv, page' \in AfterPowerLoss, op.kind \in {"post", "erase", "sign"},
         op' = IDLE, posted' = posted,
         NEW b \in Blocks, b = IF op.kind = "erase" THEN op.blk ELSE op.at[1],
         next' = [next EXCEPT ![b] = FULL]
  PROVE  EtfsInv'
<1>1. /\ page' \in [Clusters -> Pages]
      /\ \A c \in Clusters : c[2] > 0 /\ Erased(page'[First(c[1])]) => page'[c] = BlankPage
      /\ \A c \in Clusters : posted[c] # NONE => page'[c] = page[c]
      /\ \A c \in Clusters : c[1] # b => page'[c] = page[c]
  <2>1. op.kind = "post" => \A c \in Clusters : c # op.at => page'[c] = page[c]
    BY AfterLoss
  <2>2. op.kind \in {"erase", "sign"} => \A c \in Clusters : c[1] # b => page'[c] = page[c]
    BY AfterLoss
  <2>3. \A c \in Clusters : c[1] # b => page'[c] = page[c]
    BY <2>1, <2>2
  <2> QED BY <2>3, AfterLoss
<1>2. next \in [Blocks -> 0 .. FULL] /\ next'[b] = FULL
      /\ \A e \in Blocks : e # b => next'[e] = next[e]
  BY DEF EtfsInv, Typed
<1>3. op'.kind = "idle"
  BY DEF IDLE
<1>4. Typed'
  BY <1>1, Distinct DEF EtfsInv, Typed, Operations
<1>5. BlankAhead'
  <2> SUFFICES ASSUME NEW c \in Clusters, c[2] > 0, next'[c[1]] <= c[2]
               PROVE  page'[c] = BlankPage
    BY DEF BlankAhead
  <2>1. c[1] # b
    BY <1>2, ClusterParts, Distinct
  <2>2. next[c[1]] <= c[2]
    BY <1>2, <2>1, ClusterParts
  <2> QED BY <1>1, <2>1, <2>2 DEF EtfsInv, BlankAhead
<1>6. ErasedAtStart'
  <2> SUFFICES ASSUME NEW e \in Blocks, next'[e] = 0 PROVE Erased(page'[First(e)])
    BY DEF ErasedAtStart
  <2>1. e # b /\ next[e] = 0
    BY <1>2, Distinct
  <2> QED BY <1>1, <2>1, FirstCluster DEF EtfsInv, ErasedAtStart
<1>7. Launched'
  <2> SUFFICES ASSUME NEW e \in Blocks, 0 < next'[e], next'[e] < FULL
               PROVE  ~Erased(page'[First(e)])
    BY DEF Launched
  <2>1. e # b /\ next[e] = next'[e]
    BY <1>2, Distinct
  <2>2. ~(op.kind = "post" /\ op.at = First(e))
    BY <2>1, FirstCluster
  <2> QED BY <1>1, <2>1, <2>2, FirstCluster DEF EtfsInv, Launched
<1>8. BlankBehind'
  BY <1>1 DEF BlankBehind
<1>9. Kept'
  <2> SUFFICES ASSUME NEW c \in Clusters, posted[c] # NONE
               PROVE  c[2] < next'[c[1]] /\ ReadsBack(c)'
    BY DEF Kept
  <2>1. c[2] < next[c[1]] /\ ReadsBack(c)
    BY DEF EtfsInv, Kept
  <2>2. c[2] < next'[c[1]]
    BY <1>2, <2>1, ClusterParts, Distinct
  <2> QED BY <1>1, <2>1, <2>2 DEF ReadsBack
<1> QED BY <1>3, <1>4, <1>5, <1>6, <1>7, <1>8, <1>9 DEF EtfsInv, Posting, Erasing, Signing

(* devio_eraseblk begins, ...                                              *)
LEMMA EraseStep ==
  ASSUME EtfsInv, NEW b \in Blocks, Erase(b)
  PROVE  EtfsInv'
<1>1. /\ op = IDLE /\ op' = [kind |-> "erase", blk |-> b] /\ page' = page
      /\ next' = [next EXCEPT ![b] = FULL]
      /\ posted' = [c \in Clusters |-> IF c[1] = b THEN NONE ELSE posted[c]]
  BY DEF Erase
<1>2. next \in [Blocks -> 0 .. FULL] /\ next'[b] = FULL
      /\ \A e \in Blocks : e # b => next'[e] = next[e]
  BY <1>1 DEF EtfsInv, Typed
<1>3. op.kind = "idle" /\ op'.kind = "erase" /\ op'.blk = b
  BY <1>1 DEF IDLE
<1>4. Typed'
  <2>1. posted' \in [Clusters -> Postings \cup {NONE}]
    BY <1>1 DEF EtfsInv, Typed
  <2>2. op' \in Operations
    BY <1>1 DEF Operations
  <2> QED BY <1>1, <2>1, <2>2, Distinct DEF EtfsInv, Typed
<1>5. BlankAhead'
  BY <1>1, <1>2, ClusterParts, Distinct DEF EtfsInv, BlankAhead
<1>6. ErasedAtStart'
  BY <1>1, <1>2, Distinct DEF EtfsInv, ErasedAtStart
<1>7. Launched'
  <2> SUFFICES ASSUME NEW e \in Blocks, 0 < next'[e], next'[e] < FULL
               PROVE  ~Erased(page[First(e)])
    BY <1>1 DEF Launched
  <2>1. next[e] = next'[e]
    BY <1>2, Distinct
  <2> QED BY <1>3, <2>1 DEF EtfsInv, Launched
<1>8. BlankBehind'
  BY <1>1 DEF EtfsInv, BlankBehind
<1>9. Kept'
  <2> SUFFICES ASSUME NEW c \in Clusters, posted'[c] # NONE
               PROVE  c[2] < next'[c[1]] /\ ReadsBack(c)'
    BY DEF Kept
  <2>1. c[1] # b /\ posted'[c] = posted[c]
    BY <1>1
  <2> QED BY <1>1, <1>2, <2>1, ClusterParts DEF EtfsInv, Kept, ReadsBack
<1>10. Erasing'
  BY <1>1, <1>2, <1>3 DEF Erasing, Emptied, InBlock
<1> QED BY <1>3, <1>4, <1>5, <1>6, <1>7, <1>8, <1>9, <1>10 DEF EtfsInv, Posting, Signing

(* ... goes on with a blank block, ...                                     *)
LEMMA EraseDoneStep ==
  ASSUME EtfsInv, EraseDone
  PROVE  EtfsInv'
<1> DEFINE b == op.blk
<1>1. /\ op.kind = "erase" /\ op' = [kind |-> "sign", at |-> First(b)]
      /\ page' = [c \in Clusters |-> IF c[1] = b THEN BlankPage ELSE page[c]]
      /\ next' = next /\ posted' = posted
  BY DEF EraseDone, First
<1>2. b \in Blocks
  BY <1>1, OpKinds DEF EtfsInv
<1>3. op'.kind = "sign" /\ op'.at = First(b) /\ First(b)[1] = b
  BY <1>1, <1>2, FirstCluster
<1>4. Emptied(b)
  BY <1>1 DEF EtfsInv, Erasing
<1>5. Typed'
  <2>1. page' \in [Clusters -> Pages]
    BY <1>1, BlankPageType DEF EtfsInv, Typed
  <2>2. op' \in Operations
    BY <1>1, <1>2 DEF Operations
  <2> QED BY <1>1, <2>1, <2>2 DEF EtfsInv, Typed
<1>6. BlankAhead'
  BY <1>1 DEF EtfsInv, BlankAhead
<1>7. ErasedAtStart'
  <2> SUFFICES ASSUME NEW e \in Blocks, next[e] = 0 PROVE Erased(page'[First(e)])
    BY <1>1 DEF ErasedAtStart
  <2>1. e # b
    BY <1>4, Distinct DEF Emptied
  <2> QED BY <1>1, <2>1, FirstCluster DEF EtfsInv, ErasedAtStart
<1>8. Launched'
  <2> SUFFICES ASSUME NEW e \in Blocks, 0 < next[e], next[e] < FULL
               PROVE  ~Erased(page'[First(e)])
    BY <1>1 DEF Launched
  <2>1. e # b
    BY <1>4, Distinct DEF Emptied
  <2> QED BY <1>1, <2>1, FirstCluster DEF EtfsInv, Launched
<1>9. BlankBehind'
  <2> SUFFICES ASSUME NEW c \in Clusters, c[2] > 0, Erased(page'[First(c[1])]), c[1] # b
               PROVE  page'[c] = BlankPage
    BY <1>1 DEF BlankBehind
  <2>1. First(c[1]) \in Clusters /\ First(c[1])[1] = c[1]
    BY ClusterParts, FirstCluster
  <2> QED BY <1>1, <2>1 DEF EtfsInv, BlankBehind
<1>10. Kept'
  <2> SUFFICES ASSUME NEW c \in Clusters, posted[c] # NONE
               PROVE  c[2] < next[c[1]] /\ ReadsBack(c)'
    BY <1>1 DEF Kept
  <2>1. c[1] # b
    BY <1>4 DEF Emptied, InBlock
  <2> QED BY <1>1, <2>1 DEF EtfsInv, Kept, ReadsBack
<1>11. Signing'
  BY <1>1, <1>3, <1>4 DEF Signing, Emptied, InBlock
<1> QED BY <1>3, <1>5, <1>6, <1>7, <1>8, <1>9, <1>10, <1>11 DEF EtfsInv, Posting, Erasing

(* ... and ends with the signature.                                        *)
LEMMA SignDoneStep ==
  ASSUME EtfsInv, SignDone
  PROVE  EtfsInv'
<1> DEFINE b == op.at[1]
           q == Programmed(BlankPage, Signature)
<1>1. /\ op.kind = "sign" /\ op' = IDLE /\ posted' = posted
      /\ page' = [page EXCEPT ![op.at] = Programmed(@, Signature)]
      /\ next' = [next EXCEPT ![b] = 0]
  BY DEF SignDone
<1>2. b \in Blocks /\ op.at = First(b) /\ op.at \in Clusters
  BY <1>1, OpKinds DEF EtfsInv
<1>3. next[b] = FULL /\ \A c \in Clusters : c[1] = b => posted[c] = NONE /\ page[c] = BlankPage
  BY <1>1 DEF EtfsInv, Signing, Emptied, InBlock
<1>4. page \in [Clusters -> Pages] /\ next \in [Blocks -> 0 .. FULL]
  BY DEF EtfsInv, Typed
<1>5. page[op.at] = BlankPage
  BY <1>2, <1>3
<1>6. \A c \in Clusters : page'[c] = IF c = op.at THEN q ELSE page[c]
  BY <1>1, <1>2, <1>4, <1>5
<1>7. q \in Pages /\ Erased(q)
  <2>1. q \in Pages /\ q = [data |-> Over(BLANK, BLANK), sig |-> Over(BLANK, "sig"),
                            trans |-> Over(BLANK, BLANK)]
    BY BlankPageType, SignaturePage, ProgrammedPage DEF BlankPage, Signature
  <2>2. Over(BLANK, BLANK) = BLANK /\ Over(BLANK, "sig") = "sig"
    BY Distinct DEF Over
  <2> QED BY <2>1, <2>2 DEF Erased
<1>8. next'[b] = 0 /\ \A e \in Blocks : e # b => next'[e] = next[e]
  BY <1>1, <1>2, <1>4
<1>9. op'.kind = "idle"
  BY <1>1 DEF IDLE
<1>10. Typed'
  <2>1. page' \in [Clusters -> Pages]
    BY <1>1, <1>4, <1>5, <1>7
  <2>2. 0 \in 0 .. FULL
    BY Distinct
  <2>3. next' \in [Blocks -> 0 .. FULL]
    BY <1>1, <1>2, <1>4, <2>2
  <2> QED BY <1>1, <2>1, <2>3 DEF EtfsInv, Typed, Operations
<1>11. BlankAhead'
  <2> SUFFICES ASSUME NEW c \in Clusters, c[2] > 0, next'[c[1]] <= c[2]
               PROVE  page'[c] = BlankPage
    BY DEF BlankAhead
  <2>1. c # op.at
    BY <1>2, FirstCluster
  <2>2. CASE c[1] = b
    BY <1>3, <1>6, <2>1, <2>2
  <2>3. CASE c[1] # b
    BY <1>6, <1>8, <2>1, <2>3, ClusterParts DEF EtfsInv, BlankAhead
  <2> QED BY <2>2, <2>3
<1>12. ErasedAtStart'
  <2> SUFFICES ASSUME NEW e \in Blocks, next'[e] = 0 PROVE Erased(page'[First(e)])
    BY DEF ErasedAtStart
  <2>1. CASE e = b
    BY <1>2, <1>6, <1>7, <2>1
  <2>2. CASE e # b
    <3>1. First(e) \in Clusters /\ First(e) # op.at /\ next[e] = 0
      BY <1>2, <1>8, <2>2, FirstCluster
    <3> QED BY <1>6, <3>1 DEF EtfsInv, ErasedAtStart
  <2> QED BY <2>1, <2>2
<1>13. Launched'
  <2> SUFFICES ASSUME NEW e \in Blocks, 0 < next'[e], next'[e] < FULL
               PROVE  ~Erased(page'[First(e)])
    BY DEF Launched
  <2>1. e # b /\ next'[e] = next[e]
    BY <1>8
  <2>2. First(e) \in Clusters /\ First(e) # op.at
    BY <1>2, <2>1, FirstCluster
  <2> QED BY <1>1, <1>6, <2>1, <2>2 DEF EtfsInv, Launched
<1>14. BlankBehind'
  <2> SUFFICES ASSUME NEW c \in Clusters, c[2] > 0, Erased(page'[First(c[1])])
               PROVE  page'[c] = BlankPage
    BY DEF BlankBehind
  <2>1. c # op.at /\ First(c[1]) \in Clusters /\ First(c[1])[1] = c[1]
    BY <1>2, ClusterParts, FirstCluster
  <2>2. CASE c[1] = b
    BY <1>3, <1>6, <2>1, <2>2
  <2>3. CASE c[1] # b
    BY <1>6, <2>1, <2>3 DEF EtfsInv, BlankBehind
  <2> QED BY <2>2, <2>3
<1>15. Kept'
  <2> SUFFICES ASSUME NEW c \in Clusters, posted[c] # NONE
               PROVE  c[2] < next'[c[1]] /\ ReadsBack(c)'
    BY <1>1 DEF Kept
  <2>1. c[1] # b /\ c # op.at
    BY <1>3
  <2> QED BY <1>1, <1>6, <1>8, <2>1, ClusterParts DEF EtfsInv, Kept, ReadsBack
<1> QED BY <1>9, <1>10, <1>11, <1>12, <1>13, <1>14, <1>15 DEF EtfsInv, Posting, Erasing, Signing

(* Power fails and the file system starts.                                 *)
LEMMA RestartStep ==
  ASSUME EtfsInv, Restart
  PROVE  EtfsInv'
<1>1. /\ page' \in AfterPowerLoss /\ op' = IDLE /\ posted' = posted
      /\ next' = [b \in Blocks |-> IF ReadTrans(page'[<<b, 0>>]) = "ERASED" THEN 0 ELSE FULL]
  BY DEF Restart
<1>2. /\ page' \in [Clusters -> Pages]
      /\ \A c \in Clusters : c[2] > 0 /\ Erased(page'[First(c[1])]) => page'[c] = BlankPage
      /\ \A c \in Clusters : posted[c] # NONE => page'[c] = page[c]
  BY <1>1, AfterLoss
<1>3. \A b \in Blocks : page'[First(b)] \in Pages
  BY <1>2, FirstCluster
<1>4. \A b \in Blocks : next'[b] = IF Erased(page'[First(b)]) THEN 0 ELSE FULL
  <2> SUFFICES ASSUME NEW b \in Blocks
               PROVE  ReadTrans(page'[First(b)]) = "ERASED" <=> Erased(page'[First(b)])
    BY <1>1 DEF First
  <2>1. page'[First(b)].trans \in Transactions \cup {BLANK, TORN}
    BY <1>3 DEF Pages
  <2> QED BY <2>1, Distinct DEF ReadTrans, Erased
<1>5. op'.kind = "idle"
  BY <1>1 DEF IDLE
<1>6. Typed'
  <2>1. next' \in [Blocks -> 0 .. FULL]
    BY <1>1, Distinct
  <2> QED BY <1>1, <1>2, <2>1 DEF EtfsInv, Typed, Operations
<1>7. BlankAhead'
  BY <1>2, <1>4, ClusterParts, Distinct DEF BlankAhead
<1>8. ErasedAtStart' /\ Launched'
  BY <1>4, Distinct DEF ErasedAtStart, Launched
<1>9. BlankBehind'
  BY <1>2 DEF BlankBehind
<1>10. Kept'
  <2> SUFFICES ASSUME NEW c \in Clusters, posted[c] # NONE
               PROVE  c[2] < next'[c[1]] /\ ReadsBack(c)'
    BY <1>1 DEF Kept
  <2>1. ReadsBack(c) /\ page'[c] = page[c]
    BY <1>2 DEF EtfsInv, Kept
  <2>2. ~Erased(page[c]) /\ page[c] # BlankPage
    BY <2>1, Distinct DEF ReadsBack, Erased, BlankPage
  <2>3. ~Erased(page'[First(c[1])])
    BY <1>2, <2>1, <2>2, ClusterParts, Distinct
  <2> QED BY <1>1, <1>4, <2>1, <2>3, ClusterParts, Distinct DEF ReadsBack
<1> QED BY <1>5, <1>6, <1>7, <1>8, <1>9, <1>10 DEF EtfsInv, Posting, Erasing, Signing
-----------------------------------------------------------------------------
(* Every step keeps the invariant.                                         *)
LEMMA StepInv == EtfsInv /\ [EtfsNext]_etfsVars => EtfsInv'
<1> SUFFICES ASSUME EtfsInv, [EtfsNext]_etfsVars PROVE EtfsInv'
  OBVIOUS
<1>1. ASSUME NEW c \in Clusters, NEW t \in Trans, NEW d \in Data, Post(c, t, d) PROVE EtfsInv'
  BY <1>1, PostStep
<1>2. CASE PostDone
  BY <1>2, PostDoneStep
<1>3. CASE PostFails
  <2>1. op.at[1] \in Blocks
    BY <1>3, OpKinds, ClusterParts DEF EtfsInv, PostFails
  <2>2. page' \in AfterPowerLoss
    BY <1>3 DEF PostFails, AfterPowerLoss
  <2> QED BY <1>3, <2>1, <2>2, FailStep DEF PostFails
<1>4. ASSUME NEW b \in Blocks, Erase(b) PROVE EtfsInv'
  BY <1>4, EraseStep
<1>5. CASE EraseDone
  BY <1>5, EraseDoneStep
<1>6. CASE EraseFails
  <2>1. op.blk \in Blocks
    BY <1>6, OpKinds DEF EtfsInv, EraseFails
  <2>2. page' \in AfterPowerLoss
    BY <1>6 DEF EraseFails, AfterPowerLoss
  <2>3. next' = [next EXCEPT ![op.blk] = FULL]
    BY <1>6, <2>1 DEF EtfsInv, Typed, Erasing, Emptied, EraseFails
  <2> QED BY <1>6, <2>1, <2>2, <2>3, FailStep DEF EraseFails
<1>7. CASE SignDone
  BY <1>7, SignDoneStep
<1>8. CASE SignFails
  <2>1. op.at[1] \in Blocks
    BY <1>8, OpKinds DEF EtfsInv, SignFails
  <2>2. page' \in AfterPowerLoss
    BY <1>8 DEF SignFails, AfterPowerLoss
  <2>3. next' = [next EXCEPT ![op.at[1]] = FULL]
    BY <1>8, <2>1 DEF EtfsInv, Typed, Signing, Emptied, SignFails
  <2> QED BY <1>8, <2>1, <2>2, <2>3, FailStep DEF SignFails
<1>9. CASE Restart
  BY <1>9, RestartStep
<1>10. CASE UNCHANGED etfsVars
  BY <1>10 DEF etfsVars, EtfsInv, Typed, BlankAhead, ErasedAtStart, Launched,
     BlankBehind, Kept,
     ReadsBack, Posting, Erasing, Signing, Emptied
<1> QED BY <1>1, <1>2, <1>3, <1>4, <1>5, <1>6, <1>7, <1>8, <1>9, <1>10 DEF EtfsNext

(* What is on the chip, what is being written and what was promised agree  *)
(* after every step, every failure and every loss of power.                *)
THEOREM EtfsInvariant == EtfsSpec => []EtfsInv
<1>1. EtfsInit => EtfsInv
  BY InitInv
<1>2. EtfsInv /\ [EtfsNext]_etfsVars => EtfsInv'
  BY StepInv
<1> QED BY <1>1, <1>2, PTL DEF EtfsSpec

(* devio_eraseblk, devio_readtrans: a block that reads as erased is blank, *)
(* wherever power failed before.                                           *)
THEOREM ErasedCorrect == EtfsSpec => []ErasedIsBlank
<1>1. EtfsInv => ErasedIsBlank
  <2> SUFFICES ASSUME EtfsInv, NEW b \in Blocks, ReadTrans(page[<<b, 0>>]) = "ERASED",
                      NEW c \in InBlock(b), c[2] > 0
               PROVE  page[c] = BlankPage
    BY DEF ErasedIsBlank
  <2>1. First(b) = <<b, 0>> /\ c \in Clusters /\ c[1] = b
    BY DEF First, InBlock
  <2>2. page[First(b)].trans \in Transactions \cup {BLANK, TORN}
    BY FirstCluster DEF EtfsInv, Typed, Pages
  <2>3. Erased(page[First(b)])
    BY <2>1, <2>2, Distinct DEF ReadTrans, Erased
  <2> QED BY <2>1, <2>3 DEF EtfsInv, BlankBehind
<1> QED BY <1>1, EtfsInvariant, PTL

(* devio_postcluster, devio_readcluster: what was posted is read back,     *)
(* until its block is erased.                                              *)
THEOREM PostedCorrect == EtfsSpec => []PostedReadsBack
<1>1. ASSUME EtfsInv PROVE EtfsTypeOK
  <2>1. page \in [Clusters -> Pages] /\ next \in [Blocks -> 0 .. FULL]
    BY <1>1 DEF EtfsInv, Typed
  <2>2. op.kind \in {"idle", "post", "erase", "sign"}
    BY <1>1, OpKinds DEF EtfsInv
  <2>3. \A c \in Clusters : page[c] \in Pages
    BY <2>1
  <2> QED BY <2>1, <2>2, <2>3 DEF EtfsTypeOK, Pages, Contents, Sigs
<1>2. ASSUME EtfsInv, NEW c \in Clusters, posted[c] # NONE
      PROVE  /\ ReadTrans(page[c]) = "OK" /\ page[c].trans.trans = posted[c].trans
             /\ posted[c].clean => ReadCluster(page[c]) = {"OK"}
  <2>1. ReadsBack(c)
    BY <1>2 DEF EtfsInv, Kept
  <2>2. page[c].trans \notin {BLANK, TORN}
    BY <2>1, Distinct DEF ReadsBack
  <2>3. ReadTrans(page[c]) = "OK"
    BY <2>1, <2>2 DEF ReadTrans, Erased, ReadsBack
  <2> QED BY <2>1, <2>3 DEF ReadCluster, ReadsBack
<1>3. EtfsInv => PostedReadsBack
  BY <1>1, <1>2 DEF PostedReadsBack
<1> QED BY <1>3, EtfsInvariant, PTL
=============================================================================
