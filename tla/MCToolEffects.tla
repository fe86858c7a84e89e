--------------------------- MODULE MCToolEffects ----------------------------
(***************************************************************************)
(* Instances of ToolEffects for TLC.                                       *)
(***************************************************************************)
EXTENDS ToolEffects, MCDurableSystem
=============================================================================
