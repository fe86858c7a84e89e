----------------------------- MODULE McpServer ------------------------------
(***************************************************************************)
(* The server's write paths: the tools/call method of internal/mcp         *)
(* (Dispatch and toolsCall, over Submit) and the testing endpoint          *)
(* POST /internal/complete of internal/api.                                *)
(*                                                                         *)
(* A client may call, and after a lost answer call again, at any time.     *)
(***************************************************************************)
EXTENDS Reports

CONSTANTS
  MaxCalls,      \* bound: tools/call requests per key
  ForcedTokens,  \* tokens posted to /internal/complete where the server serves it
  MaxForced      \* bound: rejected posts to /internal/complete per key

ASSUME ServerAssumption ==
  /\ MaxCalls \in Nat
  /\ ForcedTokens \subseteq -(MaxToken + 1)..MaxToken
  /\ MaxForced \in Nat

VARIABLES
  allowTestEnds,  \* the server was started with ALLOW_TEST_ENDPOINTS=true
  calls,          \* tools/call requests served per key
  answered        \* the results the server has answered with, per key

serverVars == <<allowTestEnds, calls, answered>>

ServerInit ==
  /\ allowTestEnds \in {b \in BOOLEAN : b => ForcedTokens # {}}
  /\ calls = [k \in Keys |-> 0]
  /\ answered = [k \in Keys |-> {}]

-----------------------------------------------------------------------------
\* tools/call of a new key: the answer says accepted.
CallNew(k) ==
  /\ calls[k] < MaxCalls
  /\ SubmitNew(k)
  /\ calls' = [calls EXCEPT ![k] = @ + 1]
  /\ UNCHANGED <<open, allowTestEnds, answered>>

\* tools/call of a known key: a completed execution answers with its result.
CallDuplicate(k) ==
  /\ calls[k] < MaxCalls
  /\ SubmitDuplicate(k)
  /\ calls' = [calls EXCEPT ![k] = @ + 1]
  /\ answered' = IF status[k] = "completed"
                 THEN [answered EXCEPT ![k] = @ \cup {result[k]}]
                 ELSE answered
  /\ UNCHANGED <<open, allowTestEnds>>

ForcedRejections(k) == Cardinality({i \in DOMAIN events[k] :
                                      /\ events[k][i].event_type = "stale_rejected"
                                      /\ events[k][i].worker_id = NoWorker})

Posts == {r \in open : r.worker_id = NoWorker}

\* POST /internal/complete with the caller's token and no worker_id.  One post of
\* a token is in flight at a time, beside those of other tokens and the workers'
\* reports.
ForceComplete(k, token, age) ==
  /\ allowTestEnds
  /\ status[k] # "absent"
  /\ ForcedRejections(k) < MaxForced
  /\ \A r \in Posts : r.key = k => r.token # token
  /\ BeginReport("complete", k, token, NoWorker, age)
  /\ UNCHANGED serverVars

\* It commits, and the answer is 200 or 409, or it is rolled back, and it is 500.
EndForced(r) ==
  /\ \/ CommitReport(r)
     \/ open' = open \ {r} /\ UNCHANGED storeVars
  /\ UNCHANGED serverVars

ServerStep(k) ==
  \/ CallNew(k)
  \/ CallDuplicate(k)
  \/ \E token \in ForcedTokens, age \in 0..MaxTxDelay : ForceComplete(k, token, age)
  \/ \E r \in Posts : r.key = k /\ EndForced(r)
=============================================================================
