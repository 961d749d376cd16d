------------------------------- MODULE MmcSd -------------------------------
(***************************************************************************)
(* The MMC/SD driver devb-mmcsd: identification of a card (mmcsd.c),       *)
(* execution of command blocks by the driver thread (sim_mmc.c), insertion *)
(* and removal by the control thread (sim.c), over the host controller of  *)
(* the i.MX35 (chipsets/sim_mx35.c).                                       *)
(*                                                                         *)
(* A handler of the driver thread runs at priority 21 and is one step; the *)
(* control thread, at priority 10, is interrupted between the command that *)
(* starts an identification and the assignment of ext->state.  CAM's queue *)
(* (simq) and the card are outside the repository.                         *)
(***************************************************************************)
EXTENDS Naturals, Sequences, FiniteSets

CONSTANTS
  Requests,   \* command blocks (CCBs), each used again once it is answered
  Kinds,      \* what they may ask for
  Cards,      \* records [type, wp] of cards that may be put into the slot
  Hosts,      \* records: board, controller, options [blind, cdIntr, to1, pio, autoStop],
              \* and bounds on spoilt or refused commands [noise] and on [removals]
  MaxStage,   \* stands for the 1000 rounds a card is given to power up
  MaxPulses,  \* bound: pulses waiting for a thread
  None

ASSUME BoundsAssumption ==
  /\ MaxStage \in Nat /\ MaxPulses \in Nat \ {0}
  /\ None \notin Requests /\ Kinds # {}
  /\ Cards \subseteq [type : {"mmc", "sd1", "sd2", "sdhc"}, wp : BOOLEAN]
  /\ Hosts \subseteq [blind : BOOLEAN, cdIntr : BOOLEAN, to1 : BOOLEAN, pio : BOOLEAN,
                     autoStop : BOOLEAN, noise : Nat, removals : Nat]
  /\ \A h \in Hosts : h.cdIntr => ~h.blind

VARIABLES
  slot, mode,     \* the card: "idle", "ready" (powered up), "tran", "open" (data)
  hw,             \* the command on the line, and its result
  cardIrq,        \* the controller reports that the slot has changed
  ext,            \* SIM_MMC_EXT
  nexus, queue, answer,  \* the CCB in work, those that wait, those answered
  kind, moved,    \* what a CCB asks for; its data: "no", "right", "wrong"
  enq, ctl,       \* pulses SIM_ENQUEUE; pulses to the control thread
  cpc,            \* control thread: "wait" or "started" an identification
  host, noise, removals, dropped

vars == <<slot, mode, hw, cardIrq, ext, nexus, queue, answer, kind, moved, enq,
          ctl, cpc, host, noise, removals, dropped>>

NoCard == [type |-> "none", wp |-> FALSE]
Data(k) == k \in {"read", "readN", "write", "writeN"}
Writes(k) == k \in {"write", "writeN"}
Multi(k) == k \in {"readN", "writeN"}

Command(c) == [cmd |-> c, req |-> None, hc |-> FALSE, res |-> "none"]
Quiet == Command("none")

(* What the driver's threads change: a handler maps one such record to the *)
(* next.  st is the status of the CCB in work.                             *)
Driver == [e |-> ext, hw |-> hw, ctl |-> ctl, nexus |-> nexus, queue |-> queue,
           answer |-> answer, enq |-> enq, st |-> "inprog"]

\* The controller takes a data command when the line is free, so that a reset
\* the control thread has sent reaches the card first.
Becomes(s) ==
  /\ mode' = IF hw.cmd = "GO_IDLE" /\ hw.res = "none" /\ s.hw.cmd = "DATA" THEN "idle" ELSE mode
  /\ ext' = s.e /\ hw' = s.hw /\ ctl' = s.ctl /\ nexus' = s.nexus
  /\ queue' = s.queue /\ answer' = s.answer /\ enq' = s.enq

----------------------------------------------------------------------------
(* mmcsd.c: identification.  A stage maps the state and the result of the  *)
(* last command to a state and the next command, "none" if it fails.       *)

Stage(e, id, c) == [e |-> [e EXCEPT !.ident = id], cmd |-> c]
Fails(e) == [e |-> e, cmd |-> "none"]
Err(res) == res \in {"timeout", "error"}
SetFlag(e, f) == [e EXCEPT !.flags = @ \cup {f}]
ClearFlags(e, F) == [e EXCEPT !.flags = @ \ F]

\* The detect callout.  That of the 3dsmx35 board (blind) does not look: there
\* is always a card, and it is not protected, whatever its CSD says.
Present == host.blind \/ slot # NoCard
Detected(e) == IF host.blind THEN ClearFlags(e, {"WP"}) ELSE e

\* Mutant: the flags of the last card stay.
ForgetNothing(e) == e

\* Flags cleared before the first of the power cycles.
Forget(e) == IF e.count = 0 THEN ClearFlags(e, {"WP", "HC"}) ELSE e

IdentStart(e) ==
  LET f == Forget(e)
      d == Detected(f)
  IN  IF ~Present THEN Fails(f)
      ELSE IF e.count + 1 > 3 THEN Stage([d EXCEPT !.count = 0], "GO_IDLE", "GO_IDLE")
      ELSE Stage([d EXCEPT !.count = @ + 1], "START", "GO_IDLE")

SdPowerup(e, res) ==
  LET hc == IF res \in {"okHC", "busyHC"} THEN SetFlag(e, "HC") ELSE e
      next == [e EXCEPT !.istage = @ + 1]
  IN  CASE e.istage > MaxStage -> Fails(e)
        [] e.istage <= MaxStage /\ e.istage % 3 = 0 -> Stage(next, "SD_POWERUP", "APP_CMD")
        [] e.istage = 1 /\ e.istage <= MaxStage /\ e.version = "SD1" /\ res = "timeout" ->
             Stage([e EXCEPT !.istage = 0], "MMC_POWERUP", "GO_IDLE")
        [] e.istage <= MaxStage /\ e.istage % 3 # 0 /\ Err(res)
             /\ ~(e.istage = 1 /\ e.version = "SD1" /\ res = "timeout") -> Fails(e)
        [] e.istage <= MaxStage /\ e.istage % 3 = 1 /\ ~Err(res) ->
             Stage(next, "SD_POWERUP", "SD_OP_COND")
        [] e.istage <= MaxStage /\ e.istage % 3 = 2 /\ ~Err(res) ->
             IF res \in {"ok", "okHC"}
             THEN Stage([hc EXCEPT !.istage = 0], "ALL_SEND_CID", "ALL_SEND_CID")
             ELSE Stage([hc EXCEPT !.istage = @ + 1], "SD_POWERUP", "APP_CMD")

MmcPowerup(e, res) ==
  LET n == [e EXCEPT !.istage = @ + 1]
  IN  IF e.istage > MaxStage \/ (n.istage > 1 /\ Err(res)) THEN Fails(n)
      ELSE IF n.istage > 1 /\ res = "ok"
      THEN Stage([n EXCEPT !.istage = 0, !.version = "MMC"], "ALL_SEND_CID", "ALL_SEND_CID")
      ELSE Stage(n, "MMC_POWERUP", "MMC_OP_COND")

CardVersion(e, res) ==
  LET v == IF res = "timeout" THEN "SD1" ELSE "SD2"
  IN  IF res = "error" THEN Fails(e)
      ELSE SdPowerup([e EXCEPT !.version = v, !.ident = "SD_POWERUP", !.istage = 0], res)

ParseCsd(e) == IF slot.wp THEN SetFlag(e, "WP") ELSE e

\* mmc_ident_status_done: a card of type MMC is ready, an SD card changes
\* to four bits.  mmc_ident_sd_clock ends the identification.
StatusDone(e) == IF e.version = "MMC" THEN Stage(e, "FINAL", "SET_BLOCKLEN")
                 ELSE Stage(e, "SET_BW_APP", "APP_CMD")
SdClock(e) == Stage(e, "FINAL", "SET_BLOCKLEN")

\* mmc_card_ident.  more: the card and the controller support what the stage
\* asks for (an SCR, high speed).
CardIdent(e, res, more) ==
  CASE e.ident = "START"        -> IdentStart(e)
    [] e.ident = "CARD_VERSION" -> CardVersion(e, res)
    [] e.ident = "SD_POWERUP"   -> SdPowerup(e, res)
    [] e.ident = "MMC_POWERUP"  -> MmcPowerup(e, res)
    [] e.ident = "CHECK_MODE" /\ (Err(res) \/ ~more) -> SdClock(e)
    [] e.ident = "FINAL"        -> IF Err(res) THEN Fails([e EXCEPT !.ident = "NONE"])
                                   ELSE Stage(e, "NONE", "done")
    [] e.ident \notin {"START", "CARD_VERSION", "SD_POWERUP", "MMC_POWERUP", "CHECK_MODE",
                       "FINAL"} /\ Err(res) -> Fails(e)
    [] e.ident = "GO_IDLE"      /\ ~Err(res) ->
         Stage([e EXCEPT !.istage = 0], "CARD_VERSION", "IF_COND")
    [] e.ident = "ALL_SEND_CID" /\ ~Err(res) -> Stage(e, "SET_ADDRESS", "SET_RELATIVE_ADDR")
    [] e.ident = "SET_ADDRESS"  /\ ~Err(res) -> Stage(e, "SEND_CID", "SEND_CID")
    [] e.ident = "SEND_CID"     /\ ~Err(res) -> Stage(e, "SEND_CSD", "SEND_CSD")
    [] e.ident = "SEND_CSD"     /\ ~Err(res) -> Stage(ParseCsd(e), "SEL_DES_CARD", "SEL_DES_CARD")
    [] e.ident = "SEL_DES_CARD" /\ ~Err(res) -> Stage(e, "CHECK_STS", "SEND_STATUS")
    [] e.ident = "CHECK_STS"    /\ ~Err(res) -> StatusDone(e)
    [] e.ident = "SET_BW_APP"   /\ ~Err(res) -> Stage(e, "SET_BW", "SET_BUS_WIDTH")
    [] e.ident = "SET_BW"       /\ ~Err(res) -> IF more THEN Stage(e, "SEND_SCR", "APP_CMD")
                                                ELSE SdClock(e)
    [] e.ident = "SEND_SCR"     /\ ~Err(res) -> Stage(e, "PARSE_SCR", "SEND_SCR")
    [] e.ident = "PARSE_SCR"    /\ ~Err(res) -> IF more THEN Stage(e, "CHECK_MODE", "SWITCH")
                                                ELSE SdClock(e)
    [] e.ident = "CHECK_MODE"   /\ ~Err(res) /\ more -> Stage(e, "SWITCH_MODE", "SWITCH")
    [] e.ident = "SWITCH_MODE"  /\ ~Err(res) -> SdClock(e)
    [] e.ident = "NONE"         /\ ~Err(res) -> Fails(e)

----------------------------------------------------------------------------
(* sim_mmc.c.  busy: the lines stay busy and the command is not sent.      *)

\* mmc_media_check; the removal masks the interrupts of the controller.
MediaCheck(s) ==
  IF Present
  THEN IF "INSERTED" \in s.e.flags THEN [s EXCEPT !.e = Detected(@)]
       ELSE [s EXCEPT !.e = SetFlag(Detected(@), "INSERTED"), !.ctl = Append(@, "INSERTION")]
  ELSE IF "INSERTED" \in s.e.flags
       THEN [s EXCEPT !.e = ClearFlags(@, {"INSERTED", "READY"}), !.hw = Quiet,
                      !.ctl = Append(@, "REMOVAL")]
       ELSE s

\* mmc_unit_ready
UnitReady(s) ==
  IF "READY" \notin s.e.flags THEN [s EXCEPT !.st = "notReady"]
  ELSE IF Present THEN [s EXCEPT !.e = Detected(@), !.st = "ok"]
  ELSE [MediaCheck(s) EXCEPT !.st = "notReady"]

\* mmc_send_rwcmd: how a transfer of several blocks is to be ended
StopFor(k) == IF ~Multi(k) THEN "NONE" ELSE IF host.autoStop THEN "AUTO" ELSE "PEND"

\* mmc_dma_initiate, mmc_pio_initiate, with mmc_dma_xfer or mmc_pio_xfer
Initiate(s, busy) ==
  IF busy THEN [s EXCEPT !.st = "error"]
  ELSE [s EXCEPT !.e.stop = StopFor(kind[s.nexus]), !.e.state = "DATA",
                 !.hw = [cmd |-> "DATA", req |-> s.nexus, hc |-> "HC" \in s.e.flags, res |-> "none"]]

\* mmc_io_cmds
IoCmds(s, busy) ==
  LET k == kind[s.nexus]
  IN  IF s.e.state = "IDENT" THEN s
      ELSE IF k = "unitReady" THEN UnitReady(s)
      ELSE IF Writes(k) /\ "WP" \in s.e.flags THEN [s EXCEPT !.st = "protected"]
      ELSE IF "READY" \notin s.e.flags THEN [s EXCEPT !.st = "notReady"]
      ELSE IF Data(k) THEN Initiate(s, busy)
      ELSE [s EXCEPT !.st = "ok"]

\* simq_post_ccb, when the CCB in work has a status; the queue sends another
\* SIM_ENQUEUE if it is not empty (external).
Post(s) ==
  IF s.nexus = None \/ s.st = "inprog" THEN s
  ELSE [s EXCEPT !.nexus = None, !.answer[s.nexus] = s.st,
                 !.enq = IF s.queue = <<>> THEN @ ELSE @ + 1]

\* Mutant: the CCB in work is not looked at.
TakeNext(s) == s.queue = <<>>

Busy(s) == s.nexus # None \/ s.queue = <<>>

\* mmc_start_ccb; a devctl is answered whatever the state
StartCcb(s, busy) ==
  IF Busy(s) THEN s
  ELSE LET t == [s EXCEPT !.nexus = Head(s.queue), !.queue = Tail(@), !.st = "inprog"]
       IN  Post(IF kind[t.nexus] = "devctl" THEN [t EXCEPT !.st = "ok"] ELSE IoCmds(t, busy))

\* mmc_dma_irq and mmc_pio_stop: what is still to do when the data have moved
DataMoved(s, busy) ==
  IF s.e.stop # "PEND" THEN [s EXCEPT !.st = "ok"]
  ELSE IF busy THEN [s EXCEPT !.st = "error", !.e.stop = "NONE"]
  ELSE [s EXCEPT !.hw = Command("STOP"), !.e.stop = "ISSUED"]

\* mmc_data_irq while a stop command is on the line
StopIrq(s, res, busy) ==
  IF ~Err(res) THEN [s EXCEPT !.st = "ok", !.e.stop = "NONE", !.e.retry = 0]
  ELSE IF s.e.retry > 5 \/ busy
  THEN [s EXCEPT !.st = "error", !.e.stop = "NONE", !.e.retry = @ + 1]
  ELSE [s EXCEPT !.hw = Command("STOP"), !.e.retry = @ + 1]

\* mmc_data_irq, mmc_pio_rw.  The end of a command without data, which only
\* the control thread can have sent, says nothing of the transfer.  With PIO
\* the data of a write have been copied, and the controller's interrupts are
\* off: nothing ends it.
DataIrq(s, res, busy) ==
  LET r == [s EXCEPT !.e.retry = 0]
  IN  IF s.e.stop = "ISSUED" THEN StopIrq(s, res, busy)
      ELSE IF Err(res) \/ res = "crc" THEN [r EXCEPT !.st = "error"]
      ELSE IF hw.cmd # "DATA" \/ (host.pio /\ Writes(kind[s.nexus])) THEN r
      ELSE DataMoved(r, busy)

\* Mutant: the CCB that waited for the identification is not executed.
IdentDoneOnly(s, busy) == [s EXCEPT !.e = SetFlag([@ EXCEPT !.state = "IDLE"], "READY")]

IdentDone(s, busy) ==
  LET new == "READY" \notin s.e.flags
      t == [s EXCEPT !.e = SetFlag([@ EXCEPT !.state = "IDLE"], "READY"),
                     !.ctl = IF new THEN Append(@, "READY") ELSE @]
  IN  IF t.nexus = None THEN t ELSE IoCmds(t, busy)

IdentFailed(s) ==
  LET t == [s EXCEPT !.e.state = "IDLE", !.st = "error"]
  IN  IF Present THEN [t EXCEPT !.e = Detected(@), !.hw = Quiet] ELSE MediaCheck(t)

\* mmc_ident_irq
IdentIrq(s, res, more, busy) ==
  LET d == CardIdent(s.e, res, more)
      t == [s EXCEPT !.e = d.e]
  IN  IF d.cmd = "none" \/ (busy /\ d.cmd # "done") THEN IdentFailed(t)
      ELSE IF d.e.ident = "NONE" THEN IdentDone(t, busy)
      ELSE [t EXCEPT !.hw = Command(d.cmd)]

\* mx35_interrupt: what the first silicon does about a CRC error
Again(s) ==
  IF host.to1 /\ ~host.pio /\ hw.cmd = "DATA" /\ hw.res = "crc"
  THEN [s EXCEPT !.e.state = "IDENT", !.e.ident = "START"] ELSE s

\* The end of mmc_process_interrupt
Settle(s) == IF s.nexus # None /\ s.st # "inprog"
             THEN Post([s EXCEPT !.e.state = "IDLE"]) ELSE s

\* mmc_process_interrupt on a change of the slot, reported by the controller
CardInterrupt ==
  /\ cardIrq /\ Len(ctl) < MaxPulses
  /\ LET t == MediaCheck([Driver EXCEPT !.hw = IF hw.res = "none" THEN hw ELSE Quiet])
     IN  Becomes(Settle([t EXCEPT !.st = "error"]))
  /\ cardIrq' = FALSE
  /\ UNCHANGED <<slot, kind, moved, cpc, host, noise, removals, dropped>>

\* mmc_process_interrupt on the result of a command
Interrupt ==
  /\ hw.res # "none" /\ ~cardIrq /\ Len(ctl) < MaxPulses
  /\ \E more, busy \in BOOLEAN :
       LET s == Again([Driver EXCEPT !.hw = Quiet])
       IN  /\ busy => noise < host.noise
           /\ noise' = IF busy THEN noise + 1 ELSE noise
           /\ Becomes(Settle(CASE s.e.state = "IDENT" -> IdentIrq(s, hw.res, more, busy)
                               [] s.e.state = "DATA" -> DataIrq(s, hw.res, busy)
                               [] s.e.state = "IDLE" -> s))
           /\ dropped' = (dropped \/ s.e.state = "IDLE")
  /\ UNCHANGED <<slot, cardIrq, kind, moved, cpc, host, removals>>

\* SIM_ENQUEUE in mmc_pulse_handler
EnqueuePulse ==
  /\ enq > 0 /\ Len(ctl) < MaxPulses
  /\ \E busy \in BOOLEAN :
       /\ busy => noise < host.noise
       /\ noise' = IF busy THEN noise + 1 ELSE noise
       /\ Becomes(StartCcb(StartCcb([Driver EXCEPT !.enq = @ - 1], busy), busy))
  /\ UNCHANGED <<slot, cardIrq, kind, moved, cpc, host, removals, dropped>>

\* SIM_TIMER in mmc_pulse_handler: the slot is polled if it does not interrupt
TimerPulse ==
  /\ Len(ctl) < MaxPulses
  /\ Becomes(StartCcb(IF host.cdIntr THEN Driver ELSE MediaCheck(Driver), FALSE))
  /\ UNCHANGED <<slot, cardIrq, kind, moved, cpc, host, noise, removals, dropped>>

----------------------------------------------------------------------------
(* sim.c: mmc_control_thread and mmc_sim_action.                           *)

CtrlUnchanged == UNCHANGED <<slot, mode, cardIrq, nexus, queue, answer, kind, moved, enq, host,
                             noise, removals, dropped>>

CtrlInsertion ==
  /\ cpc = "wait" /\ ctl # <<>> /\ Head(ctl) = "INSERTION"
  /\ LET d == CardIdent([SetFlag(ext, "INSERTED") EXCEPT !.ident = "START"], "ok", FALSE)
     IN  /\ ext' = d.e
         /\ hw' = IF d.cmd = "none" THEN hw ELSE Command(d.cmd)
         /\ cpc' = IF d.cmd = "none" THEN "wait" ELSE "started"
  /\ ctl' = Tail(ctl)
  /\ CtrlUnchanged

\* ext->state is assigned after the command has been sent
CtrlState ==
  /\ cpc = "started" /\ cpc' = "wait"
  /\ ext' = [ext EXCEPT !.state = "IDENT"]
  /\ UNCHANGED <<hw, ctl>> /\ CtrlUnchanged

CtrlRemoval ==
  /\ cpc = "wait" /\ ctl # <<>> /\ Head(ctl) = "REMOVAL"
  /\ ext' = [ClearFlags(ext, {"READY", "INSERTED"}) EXCEPT !.state = "IDLE"]
  /\ ctl' = Tail(ctl)
  /\ UNCHANGED <<hw, cpc>> /\ CtrlUnchanged

CtrlReady ==
  /\ cpc = "wait" /\ ctl # <<>> /\ Head(ctl) = "READY"
  /\ ctl' = Tail(ctl)
  /\ UNCHANGED <<hw, ext, cpc>> /\ CtrlUnchanged

InWork(r) == r = nexus \/ \E i \in DOMAIN queue : queue[i] = r

\* A client hands a CCB over, again once it has its answer.
Action(r) ==
  /\ ~InWork(r) /\ enq < MaxPulses
  /\ \E k \in Kinds : kind' = [kind EXCEPT ![r] = k]
  /\ answer' = [answer EXCEPT ![r] = "none"] /\ moved' = [moved EXCEPT ![r] = "no"]
  /\ queue' = Append(queue, r) /\ enq' = enq + 1
  /\ UNCHANGED <<slot, mode, hw, cardIrq, ext, nexus, ctl, cpc, host, noise, removals, dropped>>

----------------------------------------------------------------------------
(* The card and the controller (external).                                 *)

Results(c) ==
  CASE c = "GO_IDLE" -> {"ok"}
    [] c = "IF_COND" -> IF slot.type \in {"sd2", "sdhc"} THEN {"ok"} ELSE {"timeout"}
    [] c = "APP_CMD" -> IF slot.type \in {"sd1", "sd2", "sdhc"} THEN {"ok"} ELSE {"timeout"}
    [] c = "SD_OP_COND" -> IF slot.type = "sdhc" THEN {"okHC", "busyHC"}
                           ELSE IF slot.type \in {"sd1", "sd2"} THEN {"ok", "busy"}
                           ELSE {"timeout"}
    [] c = "MMC_OP_COND" -> IF slot.type = "mmc" THEN {"ok", "busy"} ELSE {"timeout"}
    [] c = "DATA" -> IF mode = "tran" THEN {"ok"} ELSE {"timeout"}
    [] c = "STOP" -> IF mode = "open" THEN {"ok"} ELSE {"timeout"}
    [] OTHER -> IF mode \in {"ready", "tran"} THEN {"ok"} ELSE {"timeout"}

Spoilt(c) == IF noise = host.noise \/ c = "GO_IDLE" THEN {}
             ELSE IF c = "DATA" THEN {"crc"} ELSE {"error"}

\* A request of several blocks leaves the card open until it is stopped.
Respond ==
  /\ hw.cmd # "none" /\ hw.res = "none"
  /\ \E res \in Results(hw.cmd) \cup Spoilt(hw.cmd) :
       /\ hw' = [hw EXCEPT !.res = res]
       /\ noise' = IF res \in Spoilt(hw.cmd) THEN noise + 1 ELSE noise
       /\ mode' = CASE hw.cmd = "GO_IDLE" -> "idle"
                    [] hw.cmd \in {"SD_OP_COND", "MMC_OP_COND"} /\ res \in {"ok", "okHC"} -> "ready"
                    [] hw.cmd = "SEL_DES_CARD" /\ res = "ok" -> "tran"
                    [] hw.cmd = "STOP" /\ res = "ok" -> "tran"
                    [] hw.cmd = "DATA" /\ mode = "tran" /\ Multi(kind[hw.req])
                         /\ ~(host.autoStop /\ res = "ok") -> "open"
                    [] OTHER -> mode
       /\ moved' = IF hw.cmd = "DATA" /\ res = "ok"
                   THEN [moved EXCEPT ![hw.req] =
                           IF hw.hc = (slot.type = "sdhc") THEN "right" ELSE "wrong"]
                   ELSE moved
  /\ UNCHANGED <<slot, cardIrq, ext, nexus, queue, answer, kind, enq, ctl, cpc, host, removals,
                 dropped>>

Change(c) ==
  /\ slot' = c /\ mode' = "idle"
  /\ cardIrq' = host.cdIntr
  /\ removals' = IF c = NoCard THEN removals + 1 ELSE removals
  /\ UNCHANGED <<hw, ext, nexus, queue, answer, kind, moved, enq, ctl, cpc, host, noise, dropped>>

\* To change a card takes longer than commands to the empty slot take to fail.
Insert == slot = NoCard /\ hw.cmd = "none" /\ \E c \in Cards : Change(c)
Remove == slot # NoCard /\ removals < host.removals /\ Change(NoCard)

Fresh(flags) == [state |-> "IDLE", ident |-> "NONE", istage |-> 0, count |-> 0, version |-> "SD1",
                 flags |-> flags, stop |-> "NONE", retry |-> 0]

\* mmc_creat_threads identifies a card that is there as an insertion does.
Init ==
  /\ host \in Hosts /\ slot \in Cards \cup {NoCard} /\ mode = "idle"
  /\ hw = Quiet /\ cardIrq = FALSE
  /\ ext = Fresh(IF Present THEN {"INSERTED"} ELSE {})
  /\ ctl = IF Present THEN <<"INSERTION">> ELSE <<>>
  /\ nexus = None /\ queue = <<>> /\ enq = 0 /\ cpc = "wait"
  /\ answer = [r \in Requests |-> "none"] /\ moved = [r \in Requests |-> "no"]
  /\ kind \in [Requests -> {CHOOSE k \in Kinds : TRUE}]
  /\ noise = 0 /\ removals = 0 /\ dropped = FALSE

DriverStep == CardInterrupt \/ Interrupt \/ EnqueuePulse
Control == CtrlInsertion \/ CtrlState \/ CtrlRemoval \/ CtrlReady

\* The threads run when they have a pulse and the card answers; which of them
\* comes first is left open.
Work == DriverStep \/ Control \/ Respond

Next ==
  \/ Work \/ TimerPulse \/ Insert \/ Remove
  \/ \E r \in Requests : Action(r)

Spec ==
  /\ Init /\ [][Next]_vars
  /\ WF_vars(Work)

----------------------------------------------------------------------------
\* A CCB is in one place: with the driver, in the queue or answered; the
\* engine moves data only for the CCB in work.  A removal, a failed stop or a
\* late interrupt may answer a CCB while the controller still has its command.
RequestHeld ==
  /\ \A i, j \in DOMAIN queue : queue[i] = queue[j] => i = j
  /\ \A i \in DOMAIN queue : queue[i] # nexus
  /\ \A r \in Requests : InWork(r) => answer[r] = "none"
  /\ hw.cmd = "DATA" /\ hw.res = "none" /\ mode = "tran" => hw.req = nexus
  /\ ext.state = "DATA" => nexus # None

\* A transfer is answered with success only if its data were moved, in the
\* card's own unit of address (blocks for high capacity, else bytes), and the
\* card has left the data state - whatever was removed, inserted or repeated.
DoneMeansDone ==
  [][\A r \in Requests :
       answer[r] = "none" /\ answer'[r] = "ok" /\ Data(kind[r])
         => moved[r] = "right" /\ mode # "open"]_vars

\* A CCB in work waits for a command on the line or for the control thread, and
\* a queue for a pulse.  Three ways out of this are in the code: the card was
\* removed, which may drop the command in work; an interrupt came before the
\* control thread had assigned ext->state; a write was made with PIO.
Lost == removals > 0 \/ dropped \/ (host.pio /\ \E r \in Requests : InWork(r) /\ Writes(kind[r]))
NoneForgotten ==
  Lost \/ /\ nexus # None => hw.cmd # "none" \/ cpc = "started"
          /\ queue # <<>> /\ nexus = None => enq > 0

\* sim_mmc.h says of MMC_EFLAG_WP "card is write protected".
ProtectedKnown == "READY" \in ext.flags /\ removals = 0 /\ slot.wp => "WP" \in ext.flags
============================================================================
