-------------------------- MODULE MCDurableSystem ---------------------------
(***************************************************************************)
(* Instances of DurableSystem for TLC.                                     *)
(***************************************************************************)
EXTENDS DurableSystem, TLC

CONSTANTS MaxAttemptsEach, LeaseEach

\* Every tool has the same max_attempts, every worker the same LEASE_SECONDS.
MCMaxAttempts == [k \in Keys |-> MaxAttemptsEach]
MCLeaseSeconds == [w \in Workers |-> LeaseEach]


\* Workers are interchangeable, and so are schedulers: no constant tells one from another.
Symmetry == Permutations(Workers) \cup Permutations(Schedulers)
=============================================================================
