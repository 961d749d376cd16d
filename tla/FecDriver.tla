----------------------------- MODULE FecDriver -----------------------------
(***************************************************************************)
(* The Ethernet driver devn-mx35 as a whole: the transmit and the receive  *)
(* side, the interrupt line and the driver thread that serves both         *)
(* (mx35_fec_process_interrupt, mx35.c).                                   *)
(*                                                                         *)
(* The kernel masks the line when it delivers the pulse                    *)
(* (InterruptAttachEvent) and the thread unmasks it when it is done.       *)
(***************************************************************************)
EXTENDS FecTx, FecRx

VARIABLES
  ievent,    \* MX35_IEVENT: "rx" for RFINT and RXB, "tx" for TFINT and TXB
  got,       \* the thread's copy of it
  masked,    \* the line is masked
  pulse,     \* a pulse waits on ext->chid
  ipc        \* place of the driver thread in its loop

irqVars    == <<ievent, got, masked, pulse, ipc>>
driverVars == <<txVars, rxVars, irqVars>>

DriverInit ==
  /\ TxInit /\ RxInit
  /\ ievent = {} /\ got = {} /\ masked = FALSE /\ pulse = FALSE
  /\ ipc = "wait"

(***************************************************************************)
(* The controller: a fragment sent or a frame received raises its event    *)
(* after the descriptor is updated; every frame sent and received does, a  *)
(* fragment in the middle of a frame may (TXB).                            *)
(***************************************************************************)
DmaSend ==
  /\ HwSend
  /\ \/ ievent' = ievent \cup {"tx"}
     \/ ~tx_bd[hw_idx].last /\ UNCHANGED ievent
  /\ UNCHANGED <<rxVars, got, masked, pulse, ipc>>

DmaReceive ==
  /\ HwReceive
  /\ ievent' = ievent \cup {"rx"}
  /\ UNCHANGED <<txVars, got, masked, pulse, ipc>>

DmaStop ==
  \/ HwStop /\ UNCHANGED <<rxVars, irqVars>>
  \/ HwOverrun /\ UNCHANGED <<txVars, irqVars>>

(* The line is level-triggered (external: the kernel). *)
Interrupt ==
  /\ ievent # {} /\ ~masked
  /\ masked' = TRUE /\ pulse' = TRUE
  /\ UNCHANGED <<txVars, rxVars, ievent, got, ipc>>

(***************************************************************************)
(* The driver thread.                                                      *)
(***************************************************************************)
At(place, next) == ipc = place /\ ipc' = next

(* MsgReceivev returns the pulse, NIC_INTR_EVENT. *)
Wake ==
  /\ At("wait", "read") /\ pulse
  /\ pulse' = FALSE
  /\ UNCHANGED <<txVars, rxVars, ievent, got, masked>>

(* ievent = *(base + MX35_IEVENT) *)
ReadEvent ==
  /\ At("read", "ack")
  /\ got' = ievent
  /\ UNCHANGED <<txVars, rxVars, ievent, masked, pulse>>

(* Mutant: every event is cleared, not only those that were read. *)
AckEverything ==
  /\ ipc = "ack"
  /\ ievent' = {}
  /\ ipc' = IF got = {} THEN "unmask" ELSE "dispatch"
  /\ UNCHANGED <<txVars, rxVars, got, masked, pulse>>

(* *(base + MX35_IEVENT) = ievent, writing a bit clears it. *)
AckEvent ==
  /\ ipc = "ack"
  /\ ievent' = ievent \ got
  /\ ipc' = IF got = {} THEN "unmask" ELSE "dispatch"
  /\ UNCHANGED <<txVars, rxVars, got, masked, pulse>>

StartReceive ==
  /\ At("dispatch", "rx") /\ "rx" \in got
  /\ Receive
  /\ UNCHANGED <<txVars, ievent, got, masked, pulse>>

EndReceive ==
  /\ At("rx", "dispatch") /\ rxpc = "idle"
  /\ got' = got \ {"rx"}
  /\ UNCHANGED <<txVars, rxVars, ievent, masked, pulse>>

StartDownload ==
  /\ At("dispatch", "tx") /\ got = {"tx"}
  /\ Download
  /\ UNCHANGED <<rxVars, ievent, got, masked, pulse>>

EndDownload ==
  /\ At("tx", "read") /\ pc[Driver] = "idle"
  /\ got' = {}
  /\ UNCHANGED <<txVars, rxVars, ievent, masked, pulse>>

NothingMore ==
  /\ At("dispatch", "read") /\ got = {}
  /\ UNCHANGED <<txVars, rxVars, ievent, got, masked, pulse>>

Unmask ==
  /\ At("unmask", "wait")
  /\ masked' = FALSE
  /\ UNCHANGED <<txVars, rxVars, ievent, got, pulse>>

ThreadLoop ==
  \/ Wake \/ ReadEvent \/ AckEvent
  \/ StartReceive \/ EndReceive \/ StartDownload \/ EndDownload
  \/ NothingMore \/ Unmask

ThreadReceive  == RxStep /\ UNCHANGED <<txVars, irqVars>>
ThreadDownload == (Lock(Driver) \/ ReapStep(Driver)) /\ UNCHANGED <<rxVars, irqVars>>

(* io-net threads. *)
SenderCall(t) ==
  /\ \E p \in Packets, n \in 1 .. MaxIov : Send(t, p, n)
  /\ UNCHANGED <<rxVars, irqVars>>
SenderLock(t) == Lock(t) /\ UNCHANGED <<rxVars, irqVars>>
SenderRun(t)  == (SenderStep(t) \/ ReapStep(t)) /\ UNCHANGED <<rxVars, irqVars>>
UpperCall     == Above /\ UNCHANGED <<txVars, irqVars>>

DriverNext ==
  \/ DmaSend \/ DmaReceive \/ DmaStop \/ Interrupt
  \/ ThreadLoop \/ ThreadReceive \/ ThreadDownload
  \/ \E t \in Senders : SenderCall(t) \/ SenderLock(t) \/ SenderRun(t)
  \/ UpperCall

(***************************************************************************)
(* Fairness: the engine goes on while there is work, threads run, and a    *)
(* thread that waits for tx_mutex is queued in the kernel and gets it in   *)
(* its turn.  Nothing obliges io-net to call or the line to bring frames.  *)
(***************************************************************************)
DriverFairness ==
  /\ WF_driverVars(DmaSend) /\ WF_driverVars(Interrupt)
  /\ WF_driverVars(ThreadLoop) /\ WF_driverVars(ThreadReceive)
  /\ WF_driverVars(ReapStep(Driver) /\ UNCHANGED <<rxVars, irqVars>>)
  /\ SF_driverVars(Lock(Driver) /\ UNCHANGED <<rxVars, irqVars>>)
  /\ \A t \in Senders : SF_driverVars(SenderLock(t)) /\ WF_driverVars(SenderRun(t))

DriverSpec == DriverInit /\ [][DriverNext]_driverVars /\ DriverFairness
-----------------------------------------------------------------------------
(* The oldest frame lies in slot i.                                        *)
FrameWaits(i) == rx_cidx = i /\ ~rx_bd[i].empty

(* Every frame in the ring is taken up, as long as memory lasts, and every *)
(* packet io-net hands down is completed, unless frames come in so fast    *)
(* that the loop of mx35_fec_receive never ends: no interrupt is lost      *)
(* between the read of IEVENT, the write that clears it and the unmask.    *)
EveryoneServed ==
  /\ \A i \in RxSlots : FrameWaits(i) ~> ~FrameWaits(i)
  /\ []<>(rxpc = "idle") => \A p \in Npkts : p \in held ~> p \notin held
=============================================================================
