----------------------------- MODULE MCListing ------------------------------
(***************************************************************************)
(* Instances of Listing for TLC: limits and offsets in and out of range.   *)
(***************************************************************************)
EXTENDS Listing

MCLimits == {0, 2, 3}
MCOffsets == -1..0
=============================================================================
