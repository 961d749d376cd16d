------------------------------- MODULE FecRx -------------------------------
(***************************************************************************)
(* The receive side of the i.MX35 FEC Ethernet driver, devn-mx35           *)
(* (receive.c, and mx35_fec_advertise of mx35.c): the ring of receive      *)
(* descriptors, the packets under it, the free list the packets come back  *)
(* to, io-net above and the DMA engine of the controller below.            *)
(*                                                                         *)
(* The driver thread empties the ring in mx35_fec_receive; io-net threads  *)
(* give packets back in mx35_fec_receive_complete while it does so.  Each  *)
(* locked section is one step.                                             *)
(***************************************************************************)
EXTENDS Integers, FiniteSets, Sequences

CONSTANTS
  NumRx,        \* ext->num_rx_descriptors
  RxPackets,    \* packets memory can hold: allocation fails when none is left
  UpLimit,      \* io-net refuses a packet while it holds this many
  MaxBadFrames, \* bound: frames received with an RXBD_ERR bit
  NoPkt

(* mx35_fec_init_list needs a packet for every descriptor. *)
ASSUME RxAssumption ==
  /\ NumRx \in Nat \ {0} /\ UpLimit \in Nat
  /\ IsFiniteSet(RxPackets) /\ Cardinality(RxPackets) >= NumRx
  /\ MaxBadFrames \in Nat
  /\ NoPkt \notin RxPackets

RxSlots == 0 .. NumRx - 1

VARIABLES
  rx_bd,          \* the ring: empty (E), wrap (W), error bits, the buffer
  rx_pktq,        \* npkt of a slot, or NoPkt
  rx_cidx,
  rx_free_pkt_q,  \* the free list, last in first out
  num_rx_free,
  rxpc, new, rx_npkt, slot,   \* mx35_fec_receive: place and locals
  allocated,      \* packets that are not free memory
  upper,          \* packets io-net holds
  adv,            \* packet in the hands of mx35_fec_advertise, or NoPkt
  errors,         \* frames counted in the error statistics
  hw_rx,          \* descriptor the DMA engine fills next
  rx_active       \* R_DES_ACTIVE: the engine is polling the ring

rxRing  == <<rx_bd, rx_pktq, rx_cidx>>
rxFree  == <<rx_free_pkt_q, num_rx_free>>
rxLocal == <<rxpc, new, rx_npkt, slot>>
rxHw    == <<hw_rx, rx_active>>
rxVars  == <<rxRing, rxFree, rxLocal, allocated, upper, adv, errors, rxHw>>

NEXT_RX(x) == (x + 1) % NumRx

(* mx35_fec_init_list: a packet under every descriptor, the ring handed to *)
(* the engine, which polls it from the first write of R_DES_ACTIVE on.     *)
RxInit ==
  /\ \E q \in [RxSlots -> RxPackets] :
       /\ \A i, j \in RxSlots : q[i] = q[j] => i = j
       /\ rx_pktq = q
       /\ rx_bd = [i \in RxSlots |-> [empty |-> TRUE, wrap |-> i = NumRx - 1,
                                      err |-> FALSE, buffer |-> q[i]]]
       /\ allocated = {q[i] : i \in RxSlots}
  /\ rx_cidx = 0
  /\ rx_free_pkt_q = <<>> /\ num_rx_free = 0
  /\ rxpc = "idle" /\ new = NoPkt /\ rx_npkt = NoPkt /\ slot = 0
  /\ upper = {} /\ adv = NoPkt /\ errors = 0
  /\ hw_rx = 0 /\ rx_active = TRUE

(***************************************************************************)
(* mx35_fec_receive, one turn of its loop in four steps.                   *)
(***************************************************************************)
Receive ==
  /\ rxpc = "idle"
  /\ rxpc' = "look"
  /\ UNCHANGED <<rxRing, rxFree, new, rx_npkt, slot, allocated, upper, adv, errors, rxHw>>

RxEmpty ==
  /\ rxpc = "look" /\ rx_bd[rx_cidx].empty
  /\ rxpc' = "idle"
  /\ UNCHANGED <<rxRing, rxFree, new, rx_npkt, slot, allocated, upper, adv, errors, rxHw>>

(* Mutant: the head of the list is not moved. *)
PoppedNot ==
  /\ UNCHANGED rx_free_pkt_q
  /\ num_rx_free' = num_rx_free - 1

(* The free list loses its first packet. *)
Popped ==
  /\ rx_free_pkt_q' = Tail(rx_free_pkt_q)
  /\ num_rx_free' = num_rx_free - 1

(* The packet that will replace the one in the ring: from the free list,   *)
(* or newly allocated when the list is empty.                              *)
NewFromFree ==
  /\ rxpc = "look" /\ ~rx_bd[rx_cidx].empty
  /\ rx_free_pkt_q # <<>>
  /\ new' = Head(rx_free_pkt_q)
  /\ Popped
  /\ rxpc' = "take"
  /\ UNCHANGED <<rxRing, rx_npkt, slot, allocated, upper, adv, errors, rxHw>>

NewFromMemory ==
  /\ rxpc = "look" /\ ~rx_bd[rx_cidx].empty
  /\ rx_free_pkt_q = <<>>
  /\ \E p \in RxPackets \ allocated :
       /\ new' = p
       /\ allocated' = allocated \cup {p}
  /\ rxpc' = "take"
  /\ UNCHANGED <<rxRing, rxFree, rx_npkt, slot, upper, adv, errors, rxHw>>

(* No memory: the frame stays in the ring and the loop ends. *)
NoMemory ==
  /\ rxpc = "look" /\ ~rx_bd[rx_cidx].empty
  /\ rx_free_pkt_q = <<>> /\ allocated = RxPackets
  /\ rxpc' = "idle"
  /\ UNCHANGED <<rxRing, rxFree, new, rx_npkt, slot, allocated, upper, adv, errors, rxHw>>

(* mx35_fec_add_pkt: E and, on the last descriptor, W. *)
AddPkt(p, i) ==
  /\ rx_pktq' = [rx_pktq EXCEPT ![i] = p]
  /\ rx_bd' = [rx_bd EXCEPT ![i] =
       [empty |-> TRUE, wrap |-> i = NumRx - 1, err |-> FALSE, buffer |-> p]]

(* The frame's packet leaves the ring and rx_cidx moves on. *)
Take ==
  /\ rxpc = "take" /\ ~rx_bd[rx_cidx].err
  /\ rx_npkt' = rx_pktq[rx_cidx]
  /\ rx_pktq' = [rx_pktq EXCEPT ![rx_cidx] = NoPkt]
  /\ slot' = rx_cidx
  /\ rx_cidx' = NEXT_RX(rx_cidx)
  /\ rxpc' = "up"
  /\ UNCHANGED <<rx_bd, rxFree, new, allocated, upper, adv, errors, rxHw>>

(* Mutant: the ring index stays where the bad frame was. *)
TakeBadAgain ==
  /\ rxpc = "take" /\ rx_bd[rx_cidx].err
  /\ AddPkt(rx_pktq[rx_cidx], rx_cidx)
  /\ new' = NoPkt /\ errors' = errors + 1
  /\ rxpc' = "look"
  /\ UNCHANGED <<rx_cidx, rxFree, rx_npkt, slot, allocated, upper, adv, rxHw>>

(* RXBD_ERR: the same packet goes back under the descriptor; the one just  *)
(* taken to replace it is kept by nobody.                                  *)
TakeBad ==
  /\ rxpc = "take" /\ rx_bd[rx_cidx].err
  /\ AddPkt(rx_pktq[rx_cidx], rx_cidx)
  /\ rx_cidx' = NEXT_RX(rx_cidx)
  /\ new' = NoPkt /\ errors' = errors + 1
  /\ rxpc' = "look"
  /\ UNCHANGED <<rxFree, rx_npkt, slot, allocated, upper, adv, rxHw>>

(* Mutant: what the free list has no room for is dropped. *)
ReceiveCompleteDrop(p) ==
  IF num_rx_free < NumRx
    THEN /\ rx_free_pkt_q' = <<p>> \o rx_free_pkt_q
         /\ num_rx_free' = num_rx_free + 1
         /\ UNCHANGED allocated
    ELSE UNCHANGED <<rxFree, allocated>>

(***************************************************************************)
(* mx35_fec_receive_complete: onto the free list while that holds fewer    *)
(* packets than the ring has descriptors, else back to memory.             *)
(***************************************************************************)
ReceiveComplete(p) ==
  IF num_rx_free < NumRx
    THEN /\ rx_free_pkt_q' = <<p>> \o rx_free_pkt_q
         /\ num_rx_free' = num_rx_free + 1
         /\ UNCHANGED allocated
    ELSE /\ allocated' = allocated \ {p}
         /\ UNCHANGED rxFree

(* ion_add_done and tx_up succeed: io-net has the packet. *)
Up ==
  /\ rxpc = "up" /\ Cardinality(upper) < UpLimit
  /\ upper' = upper \cup {rx_npkt}
  /\ rx_npkt' = NoPkt
  /\ rxpc' = "refill"
  /\ UNCHANGED <<rxRing, rxFree, new, slot, allocated, adv, errors, rxHw>>

(* ion_add_done returns -1, or tx_up finds no taker. *)
NotUp ==
  /\ rxpc = "up"
  /\ ReceiveComplete(rx_npkt)
  /\ rx_npkt' = NoPkt
  /\ rxpc' = "refill"
  /\ UNCHANGED <<rxRing, new, slot, upper, adv, errors, rxHw>>

Refill ==
  /\ rxpc = "refill"
  /\ AddPkt(new, slot)
  /\ new' = NoPkt
  /\ rxpc' = "look"
  /\ UNCHANGED <<rx_cidx, rxFree, rx_npkt, slot, allocated, upper, adv, errors, rxHw>>

(***************************************************************************)
(* io-net (external): it gives a packet back, or calls mx35_fec_advertise, *)
(* which sends it a packet that announces the interface.                   *)
(***************************************************************************)
GiveBack ==
  /\ \E p \in upper : upper' = upper \ {p} /\ ReceiveComplete(p)
  /\ UNCHANGED <<rxRing, rxLocal, adv, errors, rxHw>>

AdvertiseFromFree ==
  /\ adv = NoPkt /\ rx_free_pkt_q # <<>>
  /\ adv' = Head(rx_free_pkt_q)
  /\ Popped
  /\ UNCHANGED <<rxRing, rxLocal, allocated, upper, errors, rxHw>>

AdvertiseFromMemory ==
  /\ adv = NoPkt /\ rx_free_pkt_q = <<>>
  /\ \E p \in RxPackets \ allocated :
       adv' = p /\ allocated' = allocated \cup {p}
  /\ UNCHANGED <<rxRing, rxFree, rxLocal, upper, errors, rxHw>>

AdvertiseUp ==
  /\ adv # NoPkt /\ Cardinality(upper) < UpLimit
  /\ upper' = upper \cup {adv}
  /\ adv' = NoPkt
  /\ UNCHANGED <<rxRing, rxFree, rxLocal, allocated, errors, rxHw>>

(* ion_add_done fails, or no taker: ion_tx_complete ends in the packet's   *)
(* done function, mx35_fec_receive_complete.                               *)
AdvertiseRefused ==
  /\ adv # NoPkt
  /\ ReceiveComplete(adv)
  /\ adv' = NoPkt
  /\ UNCHANGED <<rxRing, rxLocal, upper, errors, rxHw>>

Above ==
  \/ GiveBack \/ AdvertiseFromFree \/ AdvertiseFromMemory
  \/ AdvertiseUp \/ AdvertiseRefused

(***************************************************************************)
(* The DMA engine (external): a frame goes into the buffer of an empty     *)
(* descriptor; at one that is not empty the engine stops polling until     *)
(* R_DES_ACTIVE is written, which the driver does at start-up only.        *)
(***************************************************************************)
HwReceive ==
  /\ rx_active /\ hw_rx \in RxSlots /\ rx_bd[hw_rx].empty
  /\ \E e \in BOOLEAN :
       /\ e => errors + Cardinality({i \in RxSlots : rx_bd[i].err}) < MaxBadFrames
       /\ rx_bd' = [rx_bd EXCEPT ![hw_rx].empty = FALSE, ![hw_rx].err = e]
  /\ hw_rx' = IF rx_bd[hw_rx].wrap THEN 0 ELSE hw_rx + 1
  /\ UNCHANGED <<rx_pktq, rx_cidx, rxFree, rxLocal, allocated, upper, adv, errors, rx_active>>

HwOverrun ==
  /\ rx_active /\ hw_rx \in RxSlots /\ ~rx_bd[hw_rx].empty
  /\ rx_active' = FALSE
  /\ UNCHANGED <<rxRing, rxFree, rxLocal, allocated, upper, adv, errors, hw_rx>>

HwRx == HwReceive \/ HwOverrun

(* A turn of the loop in mx35_fec_receive. *)
RxStep ==
  \/ RxEmpty \/ NewFromFree \/ NewFromMemory \/ NoMemory
  \/ Take \/ TakeBad \/ Up \/ NotUp \/ Refill

RxNext == Receive \/ RxStep \/ Above \/ HwRx

RxSpec == RxInit /\ [][RxNext]_rxVars
-----------------------------------------------------------------------------
(* Every variable has its type. *)
RxTypeOK ==
  /\ rx_bd \in [RxSlots -> [empty : BOOLEAN, wrap : BOOLEAN, err : BOOLEAN,
                            buffer : RxPackets]]
  /\ rx_pktq \in [RxSlots -> RxPackets \cup {NoPkt}]
  /\ rx_cidx \in RxSlots /\ slot \in RxSlots /\ hw_rx \in RxSlots
  /\ rx_free_pkt_q \in Seq(RxPackets)
  /\ num_rx_free \in 0 .. NumRx
  /\ rxpc \in {"idle", "look", "take", "up", "refill"}
  /\ new \in RxPackets \cup {NoPkt} /\ rx_npkt \in RxPackets \cup {NoPkt}
  /\ adv \in RxPackets \cup {NoPkt}
  /\ allocated \subseteq RxPackets /\ upper \subseteq allocated
  /\ errors \in 0 .. MaxBadFrames /\ rx_active \in BOOLEAN

FreeSet == {rx_free_pkt_q[k] : k \in 1 .. Len(rx_free_pkt_q)}

(* A packet has one holder.  The buffer of a descriptor the engine may     *)
(* write into belongs to the packet recorded for that slot, and that       *)
(* packet is neither on the free list, nor with io-net, nor in the driver  *)
(* thread's hands, nor freed, nor under another descriptor.  A packet      *)
(* io-net holds or that can be handed out again is in one place: nobody    *)
(* gives it back twice or receives into it while it is read.  The free     *)
(* list holds no packet twice, and num_rx_free counts it.                  *)
OneHolder ==
  /\ \A i \in RxSlots : rx_bd[i].empty =>
       /\ rx_bd[i].buffer = rx_pktq[i]
       /\ rx_pktq[i] \in allocated \ (FreeSet \cup upper \cup {new, rx_npkt, adv})
       /\ \A j \in RxSlots \ {i} : rx_pktq[j] # rx_pktq[i]
  /\ RxTypeOK
  /\ num_rx_free = Len(rx_free_pkt_q) /\ Cardinality(FreeSet) = num_rx_free
  /\ FreeSet \cap upper = {}
  /\ {new, rx_npkt, adv} \cap (FreeSet \cup upper) = {}
  /\ \A p \in {new, rx_npkt, adv} \ {NoPkt} :
       Cardinality({h \in 1 .. 3 : <<new, rx_npkt, adv>>[h] = p}) = 1

(* Slots with a frame; the one whose packet has been taken and not         *)
(* replaced yet is not counted.                                            *)
Waiting ==
  {i \in RxSlots : ~rx_bd[i].empty} \ (IF rxpc \in {"up", "refill"} THEN {slot} ELSE {})

(* The frames that wait are exactly those from rx_cidx up to the engine:   *)
(* the driver thread looks next at the oldest frame and never stops at an  *)
(* empty descriptor while a frame lies behind it.                          *)
OldestFirst ==
  \E n \in 0 .. NumRx :
    /\ Waiting = {(rx_cidx + k) % NumRx : k \in 0 .. n - 1}
    /\ hw_rx = (rx_cidx + n) % NumRx

(* Packets somebody can still reach.                                       *)
Held == {rx_pktq[i] : i \in RxSlots} \cup FreeSet \cup upper \cup {new, rx_npkt, adv}

(* Every allocated packet is in the ring, on the free list, with io-net or *)
(* in the hands of a thread, except one for each frame received in error:  *)
(* mx35_fec_receive forgets the packet it took to replace that frame's.    *)
OneLostPerError == Cardinality(allocated \ Held) = errors
=============================================================================
