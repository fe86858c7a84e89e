----------------------------- MODULE Scheduler ------------------------------
(***************************************************************************)
(* The scheduler (cmd/scheduler and RunSchedulerPass of ops.go): the lease *)
(* reaper and the retry promoter.  A pass reads a list, then handles each  *)
(* entry in a transaction of its own that does not check the entry again.  *)
(***************************************************************************)
EXTENDS DurableStore

CONSTANT Schedulers   \* the scheduler processes that run against the database

VARIABLE pass         \* per scheduler, where its current pass is

\* stale: the rows of the first SELECT not yet handled; due: of the second.
Pass == [pc : {"idle", "expire", "promote"},
         stale : SUBSET [key : Keys, attempts : Nat],
         due : SUBSET Keys]

NoPass == [pc |-> "idle", stale |-> {}, due |-> {}]

SchedulerInit == pass = [s \in Schedulers |-> NoPass]

-----------------------------------------------------------------------------
StaleRows == {[key |-> k, attempts |-> attempts[k]] : k \in {j \in Keys : Expired(j)}}

DueRows == {k \in Keys : Due(k)}

\* The ticker fires: the pass reads the running executions with a lapsed lease.
\* rows.Next ends at a broken connection as at the last row, and rows.Err is not
\* asked: what was read is all of StaleRows or a part.
SelectStale(s, rows) ==
  /\ pass[s].pc = "idle"
  /\ pass' = [pass EXCEPT ![s].pc = "expire", ![s].stale = rows]
  /\ UNCHANGED storeVars

ExpireOne(s, x) ==
  /\ pass[s].pc = "expire"
  /\ x \in pass[s].stale
  /\ expireLease(x.key, x.attempts)
  /\ pass' = [pass EXCEPT ![s].stale = @ \ {x}]

\* All stale leases handled: the pass reads the retries that are due, or a part.
SelectDue(s, rows) ==
  /\ pass[s].pc = "expire"
  /\ pass[s].stale = {}
  /\ pass' = [pass EXCEPT ![s].pc = "promote", ![s].due = rows]
  /\ UNCHANGED storeVars

PromoteOne(s, k) ==
  /\ pass[s].pc = "promote"
  /\ k \in pass[s].due
  /\ promoteRetry(k)
  /\ pass' = [pass EXCEPT ![s].due = @ \ {k}]

EndPass(s) ==
  /\ pass[s].pc = "promote"
  /\ pass[s].due = {}
  /\ pass' = [pass EXCEPT ![s] = NoPass]
  /\ UNCHANGED storeVars

\* A query of the pass fails, or the process restarts: the lists are dropped.
AbandonPass(s) ==
  /\ pass[s].pc # "idle"
  /\ pass' = [pass EXCEPT ![s] = NoPass]
  /\ UNCHANGED storeVars

SchedulerStep(s) ==
  \/ \E rows \in SUBSET StaleRows : SelectStale(s, rows)
  \/ \E x \in pass[s].stale : ExpireOne(s, x)
  \/ \E rows \in SUBSET DueRows : SelectDue(s, rows)
  \/ \E k \in pass[s].due : PromoteOne(s, k)
  \/ EndPass(s)
  \/ AbandonPass(s)
=============================================================================
