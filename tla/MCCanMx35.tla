----------------------------- MODULE MCCanMx35 -----------------------------
(***************************************************************************)
(* CanMx35 with and without messages of the mini-driver: with the option   *)
(* -S they are sorted by mailbox, and one belongs to none.  The controller *)
(* reports errors in behaviours that are faulty; these receive one message *)
(* less.                                                                   *)
(***************************************************************************)
EXTENDS CanMx35

VARIABLE faulty

FourAndThree == [m \in 0 .. 1 |-> 4 - m]

NoneBuffered == <<>>
SomeBuffered == <<0, -1, 0>>

MCInit == CanInit /\ faulty \in BOOLEAN

MCNext ==
  /\ CanNext
  /\ IF faulty THEN count'[0] < MaxMsgs[0] ELSE UNCHANGED esr
  /\ UNCHANGED faulty

MCSpec == MCInit /\ [][MCNext]_<<canVars, faulty>>

MCFairSpec == MCSpec /\ CanFairness
=============================================================================
