------------------------------ MODULE Reports -------------------------------
(***************************************************************************)
(* Complete and Fail of internal/store/ops.go as their callers race them.  *)
(* The UPDATE decides EXISTS (... execution_leases ...) on the snapshot it *)
(* starts with; what it then writes, on the execution row as it finds it   *)
(* after waiting for its lock, and everything behind it, becomes visible   *)
(* at the commit.  Other transactions may commit in between.               *)
(***************************************************************************)
EXTENDS DurableStore

VARIABLE open   \* the transactions of Complete and Fail that have their snapshot

\* owns: what EXISTS said.  age: how long ago BEGIN was.  worker_id: who reports.
Report == [kind : {"complete", "fail"}, key : Keys, token : Int,
           worker_id : Workers \cup {NoWorker}, owns : BOOLEAN, age : 0..MaxTxDelay]

ReportsInit == open = {}

\* BEGIN, age ticks ago, and the snapshot of the UPDATE.
BeginReport(kind, k, token, w, age) ==
  /\ open' = open \cup {[kind |-> kind, key |-> k, token |-> token, worker_id |-> w,
                         owns |-> LeaseLive(k, token, age), age |-> age]}
  /\ UNCHANGED storeVars

\* What Complete writes, or logs when its UPDATE has found no row.
Complete(r) ==
  /\ r.kind = "complete"
  /\ \/ r.owns /\ CompleteAccepted(r.key, r.token, r.worker_id)
     \/ ~r.owns /\ ReportRejected(r.key, r.token, r.worker_id)

Fail(r) ==
  /\ r.kind = "fail"
  /\ \/ r.owns /\ FailRetries(r.key, r.token, r.worker_id, r.age)
     \/ r.owns /\ FailTerminal(r.key, r.token, r.worker_id)
     \/ ~r.owns /\ ReportRejected(r.key, r.token, r.worker_id)

\* The commit, whether or not its answer arrives.
CommitReport(r) ==
  /\ Complete(r) \/ Fail(r)
  /\ open' = open \ {r}

\* The reports of one caller are rolled back, those of the others go on.
RollBackReports(w) == open' = {r \in open : r.worker_id # w}

\* One tick, for the open reports too: no transaction is older than MaxTxDelay.
\* With MaxTxDelay = 0 none is open while the clock moves.
TimePasses ==
  /\ \A r \in open : r.age < MaxTxDelay
  /\ Tick
  /\ open' = {[r EXCEPT !.age = @ + 1] : r \in open}
=============================================================================
