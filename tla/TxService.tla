----------------------------- MODULE TxService -----------------------------
(***************************************************************************)
(* What the transmit side of the Ethernet driver promises io-net: a packet *)
(* it takes is either given back at once or accepted; accepted packets     *)
(* leave on the wire once each, in the order they were accepted, and are   *)
(* given back once each, in that order.  A packet may be given back while  *)
(* its frame is still leaving, and at most one packet is ever in that      *)
(* state.                                                                  *)
(***************************************************************************)
EXTENDS Integers, Sequences

CONSTANT Npkts

VARIABLES
  taken,     \* packets in the hands of a sender, neither accepted nor given back
  wire,      \* accepted packets whose frame has not left entirely, in order
  pending    \* accepted packets not given back yet, in order

serviceVars == <<taken, wire, pending>>

Init == taken = {} /\ wire = <<>> /\ pending = <<>>

Owned == taken \cup {pending[k] : k \in 1 .. Len(pending)}

Take(p) ==
  /\ p \notin Owned
  /\ taken' = taken \cup {p}
  /\ UNCHANGED <<wire, pending>>

(* The packet is replaced by its copy. *)
Swap(p, c) ==
  /\ p \in taken /\ c \notin Owned
  /\ taken' = (taken \ {p}) \cup {c}
  /\ UNCHANGED <<wire, pending>>

Accept(p) ==
  /\ p \in taken
  /\ taken' = taken \ {p}
  /\ wire' = Append(wire, p)
  /\ pending' = Append(pending, p)

Refuse(p) ==
  /\ p \in taken
  /\ taken' = taken \ {p}
  /\ UNCHANGED <<wire, pending>>

(* The frame of the first packet has left. *)
Transmit ==
  /\ wire # <<>>
  /\ wire' = Tail(wire)
  /\ UNCHANGED <<taken, pending>>

(* The oldest packet is given back; all frames before its own have left. *)
Complete ==
  /\ pending # <<>>
  /\ Len(wire) <= Len(pending)
  /\ pending' = Tail(pending)
  /\ UNCHANGED <<taken, wire>>

Next ==
  \/ \E p \in Npkts : Take(p) \/ Accept(p) \/ Refuse(p)
  \/ \E p, c \in Npkts : Swap(p, c)
  \/ Transmit \/ Complete

Spec == Init /\ [][Next]_serviceVars
=============================================================================
