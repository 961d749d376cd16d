------------------------------ MODULE MCFecTx ------------------------------
(* FecTx on a ring of four descriptors. *)
EXTENDS FecTx, TLC

Symmetry == Permutations(Senders) \cup Permutations(Packets)
=============================================================================
