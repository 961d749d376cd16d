---------------------------- MODULE MCFecDriver ----------------------------
(* FecDriver on small rings.  Which packet lies under which receive        *)
(* descriptor at the start does not matter: one assignment is enough.      *)
(* The announcements of mx35_fec_advertise compete with the driver thread  *)
(* for free packets in MCFecRings; they are left out here.                 *)
EXTENDS FecDriver

FirstRing ==
  CHOOSE q \in [RxSlots -> RxPackets] : \A i, j \in RxSlots : q[i] = q[j] => i = j

MCDriverInit == DriverInit /\ rx_pktq = FirstRing

MCDriverNext == DriverNext /\ adv' = NoPkt

MCDriverSpec == MCDriverInit /\ [][MCDriverNext]_driverVars /\ DriverFairness
=============================================================================
