----------------------------- MODULE MCFecRings -----------------------------
(***************************************************************************)
(* FecTx on a ring of four descriptors and FecRx on a ring of two, in one  *)
(* run: which of them a behaviour is about is chosen at the start, and the *)
(* other stands still.  FecDriver is where they work together.  The two    *)
(* share names of packets, for one symmetry; what lies in the receive ring *)
(* must not tell the packets that are sent apart.                          *)
(***************************************************************************)
EXTENDS MCFecTx, FecRx

VARIABLE part

RingsInit ==
  /\ part \in {"transmit", "receive"} /\ TxInit /\ RxInit
  /\ part = "transmit" => \A i \in RxSlots : rx_pktq[i] \notin Packets

RingsNext ==
  /\ \/ part = "transmit" /\ TxNext /\ UNCHANGED rxVars
     \/ part = "receive" /\ RxNext /\ UNCHANGED txVars
  /\ UNCHANGED part

RingsSpec == RingsInit /\ [][RingsNext]_<<part, txVars, rxVars>>

RingsSymmetry == Symmetry \cup Permutations(RxPackets \ Packets)
=============================================================================
