----------------------------- MODULE MCDrivers -----------------------------
(***************************************************************************)
(* Four parts that have nothing to do with each other, in one run: which   *)
(* of them a behaviour is about is chosen at the start, and the others     *)
(* stand still.  SPI transfers have lengths around the sizes of a word, a  *)
(* FIFO and a burst; the SPI clients have a chip, one that is not there    *)
(* and NONE; two processes load contexts through the SDMA command channel. *)
(***************************************************************************)
EXTENDS SpiXfer, SpiMaster, McTouch, SdmaCmd

VARIABLE part

allVars == <<part, spiVars, masterVars, vars, cmdVars>>

SomeLengths == {1, 2, 3, 4, 5, 7, 8, 9, 30, 31, 32, 33, 35, 36, 63, 64, 66, 71}

MCInit ==
  /\ part \in {"transfer", "locks", "touch", "command"}
  /\ SpiInit /\ (part # "transfer" => ~burst)
  /\ MasterInit /\ Init /\ CmdInit

MCNext ==
  /\ \/ part = "transfer" /\ SpiNext /\ UNCHANGED <<masterVars, vars, cmdVars>>
     \/ part = "locks" /\ MasterNext /\ UNCHANGED <<spiVars, vars, cmdVars>>
     \/ part = "touch" /\ Next /\ UNCHANGED <<spiVars, masterVars, cmdVars>>
     \/ part = "command" /\ CmdNext /\ UNCHANGED <<spiVars, masterVars, vars>>
  /\ UNCHANGED part

MCSpec ==
  MCInit /\ [][MCNext]_allVars /\ SpiFairness /\ TouchFairness /\ CmdFairness
=============================================================================
