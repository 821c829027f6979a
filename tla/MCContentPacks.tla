--------------------------- MODULE MCContentPacks ---------------------------
(***************************************************************************)
(* The content packs alone, one request at a time: what their run shows     *)
(* needs neither a second request in between nor a second platform.         *)
(***************************************************************************)
EXTENDS ContentPacks

SerialSpec == PackInit /\ packMode = "serial" /\ [][PackNext]_packVars
=============================================================================
