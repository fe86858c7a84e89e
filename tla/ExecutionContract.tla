------------------------- MODULE ExecutionContract --------------------------
(***************************************************************************)
(* What DurableMCP promises the caller of a tool, with no worker, lease,   *)
(* token or clock in sight: a call is accepted once, ends at most once, as *)
(* completed with one result or as failed, and every later submission of   *)
(* the same key that is answered with a result is answered with that one.  *)
(***************************************************************************)
EXTENDS Naturals

CONSTANTS Keys, Results, NoResult

VARIABLES
  phase,    \* none, open, completed or failed
  answer,   \* the result of a completed call
  told      \* the results callers have been answered with

contractVars == <<phase, answer, told>>

ContractInit ==
  /\ phase = [k \in Keys |-> "none"]
  /\ answer = [k \in Keys |-> NoResult]
  /\ told = [k \in Keys |-> {}]

Accept(k) ==
  /\ phase[k] = "none"
  /\ phase' = [phase EXCEPT ![k] = "open"]
  /\ UNCHANGED <<answer, told>>

Finish(k) ==
  /\ phase[k] = "open"
  /\ phase' = [phase EXCEPT ![k] = "completed"]
  /\ answer'[k] \in Results
  /\ answer' = [answer EXCEPT ![k] = answer'[k]]
  /\ UNCHANGED told

GiveUp(k) ==
  /\ phase[k] = "open"
  /\ phase' = [phase EXCEPT ![k] = "failed"]
  /\ UNCHANGED <<answer, told>>

Replay(k) ==
  /\ phase[k] = "completed"
  /\ told' = [told EXCEPT ![k] = @ \cup {answer[k]}]
  /\ UNCHANGED <<phase, answer>>

ContractNext ==
  \E k \in Keys :
    \/ Accept(k)
    \/ Finish(k)
    \/ GiveUp(k)
    \/ Replay(k)

ContractSpec == ContractInit /\ [][ContractNext]_contractVars
=============================================================================
