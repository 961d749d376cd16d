----------------------------- MODULE Imx35Layer -----------------------------
(***************************************************************************)
(* A layer of the display driver (devg/imx35/layer.c, isr.c, capture.c).   *)
(* The display server sets up a layer with a few calls and then commits:   *)
(* all of the parameters of its DMA channel, or the address alone if       *)
(* nothing else has changed (a page flip).  The commit is left in memory   *)
(* for the interrupt handler of the vertical sync, with update_flags       *)
(* saying which of the two it is.  The capture code may put its own buffer *)
(* behind the layer.                                                       *)
(*                                                                         *)
(* A surface stands for its address; its format, for the size of a pixel   *)
(* and the stride as well.                                                 *)
(***************************************************************************)
EXTENDS FiniteSets

CONSTANTS
  Surfaces, Formats,   \* of the display server
  FormatOf,            \* [Surfaces -> Formats]
  CaptureBuffer        \* the buffer of the capture code: RGB565

ASSUME LayerAssumption == FormatOf \in [Surfaces -> Formats]

VARIABLES
  offset, format, enable, change,   \* layer_info: what the server has set
  params, commit_offset,            \* layer_info: what is left for the handler
  update_flags,                     \* a subset of {1, 2}
  program,                          \* where imx35_layer_program is
  shown, running,                   \* the DMA channel (external)
  committed,                        \* what the last commit asked for
  overtaken, captured               \* a commit the handler cannot carry out

layerVars == <<offset, format, enable, change, params, commit_offset, update_flags,
               program, shown, running, committed, overtaken, captured>>

RGB565 == "RGB565"

Place(o, f) == [offset |-> o, format |-> f]

LayerInit ==
  /\ offset \in Surfaces /\ format = FormatOf[offset]
  /\ enable = FALSE /\ change = TRUE
  /\ params = Place(offset, format) /\ commit_offset = offset /\ update_flags = {}
  /\ program = "none" /\ shown = Place(offset, format) /\ running = FALSE
  /\ committed = Place(offset, format) /\ overtaken = FALSE /\ captured = FALSE
-----------------------------------------------------------------------------
(***************************************************************************)
(* The calls of the display server before it commits.                      *)
(***************************************************************************)
SetSurface(s) ==
  /\ program = "none"
  /\ offset' = s /\ format' = FormatOf[s]
  /\ change' = (change \/ FormatOf[s] # format)
  /\ UNCHANGED <<enable, params, commit_offset, update_flags, program, shown, running, committed, overtaken, captured>>

(* imx35_layer_enable and imx35_layer_disable: the handler sees enable     *)
(* before the commit.                                                      *)
SetEnable(on) ==
  /\ program = "none"
  /\ enable' = on /\ change' = TRUE
  /\ UNCHANGED <<offset, format, params, commit_offset, update_flags, program, shown, running, committed, overtaken, captured>>

(* imx35_layer_set_source_viewport and imx35_layer_set_dest_viewport. *)
SetViewport ==
  /\ program = "none"
  /\ change' = TRUE
  /\ UNCHANGED <<offset, format, enable, params, commit_offset, update_flags, program, shown, running, committed, overtaken, captured>>
-----------------------------------------------------------------------------
(***************************************************************************)
(* imx35_layer_program, from imx35_layer_update_end.  The handler may run  *)
(* before the flags are set.                                               *)
(***************************************************************************)
Commit ==
  /\ program = "none"
  /\ committed' = Place(offset, format)
  /\ IF change
     THEN /\ params' = Place(offset, format) /\ change' = FALSE /\ program' = "full"
          /\ UNCHANGED commit_offset
     ELSE /\ commit_offset' = offset /\ program' = "offset"
          /\ UNCHANGED <<params, change>>
  /\ UNCHANGED <<offset, format, enable, update_flags, shown, running, overtaken, captured>>

(* An address that is committed while a full update waits is not part of   *)
(* it, and the handler takes the full update only.                         *)
CommitFlags ==
  /\ program # "none"
  /\ update_flags' = update_flags \cup IF program = "full" THEN {1, 2} ELSE {1}
  /\ overtaken' = (program = "offset" /\ 2 \in update_flags)
  /\ captured' = (captured /\ program = "offset")
  /\ program' = "none"
  /\ UNCHANGED <<offset, format, enable, change, params, commit_offset, shown, running, committed>>

(* set_layer_surfaces: the flags of a full update, though the parameters   *)
(* are those of the last one and change is left alone.                     *)
CaptureSurface ==
  /\ program = "none"
  /\ offset' = CaptureBuffer /\ commit_offset' = CaptureBuffer /\ format' = RGB565
  /\ update_flags' = {1, 2}
  /\ committed' = Place(CaptureBuffer, RGB565) /\ captured' = TRUE
  /\ UNCHANGED <<enable, change, params, program, shown, running, overtaken>>
-----------------------------------------------------------------------------
(* Mutant: the flag of the address survives the full update. *)
KeptByFull(flags) == flags \ {2}

(* What a full update leaves of the flags. *)
LeftByFull(flags) == flags \ {1, 2}

(* imx35_isr, for one layer. *)
Vsync ==
  /\ \/ /\ 2 \in update_flags
        /\ shown' = params /\ running' = enable
        /\ update_flags' = LeftByFull(update_flags)
     \/ /\ update_flags = {1}
        /\ shown' = [shown EXCEPT !.offset = commit_offset]
        /\ running' = (running /\ enable) /\ update_flags' = {}
     \/ /\ update_flags = {}
        /\ running' = (running /\ enable)
        /\ UNCHANGED <<shown, update_flags>>
  /\ UNCHANGED <<offset, format, enable, change, params, commit_offset, program, committed, overtaken, captured>>

LayerNext ==
  \/ \E s \in Surfaces : SetSurface(s)
  \/ \E on \in BOOLEAN : SetEnable(on)
  \/ SetViewport
  \/ Commit \/ CommitFlags \/ CaptureSurface
  \/ Vsync

LayerSpec == LayerInit /\ [][LayerNext]_layerVars
-----------------------------------------------------------------------------
Addresses == Surfaces \cup {CaptureBuffer}
Places    == [offset : Addresses, format : Formats \cup {RGB565}]

(* Every variable has its type.                                           *)
LayerTypeOK ==
  /\ offset \in Addresses /\ format \in Formats \cup {RGB565}
  /\ enable \in BOOLEAN /\ change \in BOOLEAN
  /\ params \in Places /\ commit_offset \in Addresses /\ update_flags \subseteq {1, 2}
  /\ program \in {"none", "full", "offset"}
  /\ shown \in Places /\ running \in BOOLEAN /\ committed \in Places
  /\ overtaken \in BOOLEAN /\ captured \in BOOLEAN

(* When the handler has nothing left to do, the channel scans what was     *)
(* committed last, address and format of one commit, and runs exactly if   *)
(* the layer is enabled - whatever commits came between two vertical       *)
(* syncs, and wherever the handler broke into one.  Excepted are a page    *)
(* flip that was committed while a full update waited, and the time from   *)
(* the binding of a capture buffer to the next full update.                *)
ShownIsCommitted ==
  /\ LayerTypeOK
  /\ (update_flags = {} /\ program = "none") =>
       /\ (~overtaken /\ ~captured) => shown = committed
       /\ ~change => (running = enable)
=============================================================================
