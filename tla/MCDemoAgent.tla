---------------------------- MODULE MCDemoAgent -----------------------------
(***************************************************************************)
(* Instances of DemoAgent for TLC.                                         *)
(***************************************************************************)
EXTENDS DemoAgent, MCDurableSystem
=============================================================================
