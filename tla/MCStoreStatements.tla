------------------------- MODULE MCStoreStatements --------------------------
(***************************************************************************)
(* Instances of StoreStatements for TLC.                                   *)
(***************************************************************************)
EXTENDS StoreStatements, TLC

\* Workers are interchangeable.
Symmetry == Permutations(Workers)
=============================================================================
