----------------------------- MODULE MCDevices -----------------------------
(***************************************************************************)
(* Six parts that have nothing to do with each other, in one run: which of *)
(* them a behaviour is about is chosen at the start, and the others stand  *)
(* still.  The display has two surfaces of one format and one of another.  *)
(***************************************************************************)
EXTENDS AudioPcm, I2cMx35, Tsc2007, SerMx1, Imx35Layer, EtfsNand, TLC

VARIABLE part

SomeTransfers ==
  [dir : {"send", "recv"}, len : 1 .. 3, stop : BOOLEAN, bits : {7, 10}]

SurfaceFormats == "s" :> "RGB565" @@ "t" :> "RGB565" @@ "u" :> "ARGB8888"

allVars == <<part, vars, i2cVars, tscVars, serVars, layerVars, etfsVars>>

MCInit ==
  /\ part \in {"audio", "i2c", "tsc2007", "serial", "layer", "etfs"}
  /\ Init /\ I2cInit /\ TscInit /\ SerInit /\ LayerInit /\ EtfsInit
  /\ part # "i2c" => transfer = CHOOSE t \in Transfers : TRUE
  /\ part # "serial" => ~ohflow
  /\ part # "layer" => offset = CHOOSE s \in Surfaces : TRUE

MCNext ==
  /\ UNCHANGED part
  /\ \/ /\ part = "audio" /\ Next
        /\ UNCHANGED <<i2cVars, tscVars, serVars, layerVars, etfsVars>>
     \/ /\ part = "i2c" /\ I2cNext
        /\ UNCHANGED <<vars, tscVars, serVars, layerVars, etfsVars>>
     \/ /\ part = "tsc2007" /\ TscNext
        /\ UNCHANGED <<vars, i2cVars, serVars, layerVars, etfsVars>>
     \/ /\ part = "serial" /\ SerNext
        /\ UNCHANGED <<vars, i2cVars, tscVars, layerVars, etfsVars>>
     \/ /\ part = "layer" /\ LayerNext
        /\ UNCHANGED <<vars, i2cVars, tscVars, serVars, etfsVars>>
     \/ /\ part = "etfs" /\ EtfsNext
        /\ UNCHANGED <<vars, i2cVars, tscVars, serVars, layerVars>>

MCSpec == MCInit /\ [][MCNext]_allVars
=============================================================================
