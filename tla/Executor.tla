------------------------------ MODULE Executor ------------------------------
(***************************************************************************)
(* The executor worker (internal/executor/engine.go): the poll loop of     *)
(* Run, execute, and the heartbeat goroutine that runs beside the handler. *)
(*                                                                         *)
(* A worker runs one claim at a time.  Its heartbeat goroutine is a        *)
(* process of its own: it may still have a call in flight after execute    *)
(* has returned, because Heartbeat runs under context.Background.          *)
(***************************************************************************)
EXTENDS Reports

CONSTANTS
  NoKey,      \* the key of an idle worker
  Handled,    \* the keys whose tool has an entry in Runtime.Handlers
  MaxBeats    \* bound: heartbeats logged per claim

ASSUME ExecutorAssumption ==
  /\ NoKey \notin Keys
  /\ Handled \subseteq Keys
  /\ MaxBeats \in Nat

VARIABLES
  run,        \* per worker, the claim execute is working on
  beating     \* the live heartbeat goroutines

executorVars == <<run, beating>>

\* pc: idle (polling), working (inside handler), complete / fail (the report is
\* about to be made), reporting (its transaction is open).  lost: workCtx was
\* cancelled by the heartbeat goroutine.
Run == [pc : {"idle", "working", "complete", "fail", "reporting"}, key : Keys \cup {NoKey},
        token : Int, lost : BOOLEAN]

Idle == [pc |-> "idle", key |-> NoKey, token |-> 0, lost |-> FALSE]

Goroutine == [worker : Workers, key : Keys, token : Int]

ExecutorInit ==
  /\ run = [w \in Workers |-> Idle]
  /\ beating = {}

\* The goroutine belongs to the claim its worker is still executing.
Current(g) == run[g.worker].key = g.key /\ run[g.worker].token = g.token

Beats(g) == Cardinality({i \in DOMAIN events[g.key] :
                           /\ events[g.key][i].event_type = "heartbeat"
                           /\ events[g.key][i].fencing_token = g.token})

-----------------------------------------------------------------------------
\* Run claims k and execute starts: the handler and its heartbeat goroutine.
StartHandled(w, k, age) ==
  /\ run[w].pc = "idle"
  /\ k \in Handled
  /\ Claim(k, w, age)
  /\ run' = [run EXCEPT ![w] = [pc |-> "working", key |-> k, token |-> NextToken(k), lost |-> FALSE]]
  /\ beating' = beating \cup {[worker |-> w, key |-> k, token |-> NextToken(k)]}
  /\ UNCHANGED open

\* No handler for the tool: execute goes straight to Fail, without a heartbeat.
StartUnhandled(w, k, age) ==
  /\ run[w].pc = "idle"
  /\ k \notin Handled
  /\ Claim(k, w, age)
  /\ run' = [run EXCEPT ![w] = [pc |-> "fail", key |-> k, token |-> NextToken(k), lost |-> FALSE]]
  /\ UNCHANGED <<open, beating>>

\* The claim commits but its reply is lost: Run logs an error and polls again.
ClaimReplyLost(w, k, age) ==
  /\ run[w].pc = "idle"
  /\ Claim(k, w, age)
  /\ UNCHANGED <<open, executorVars>>

\* The handler returns a result, whether or not its context was cancelled.
HandlerSucceeds(w) ==
  /\ run[w].pc = "working"
  /\ run' = [run EXCEPT ![w].pc = "complete"]
  /\ UNCHANGED <<storeVars, open, beating>>

\* The handler returns an error while workCtx is live.
HandlerFails(w) ==
  /\ run[w].pc = "working"
  /\ ~run[w].lost
  /\ run' = [run EXCEPT ![w].pc = "fail"]
  /\ UNCHANGED <<storeVars, open, beating>>

\* The handler returns an error after workCtx was cancelled: nothing is reported.
HandlerAborts(w) ==
  /\ run[w].pc = "working"
  /\ run[w].lost
  /\ run' = [run EXCEPT ![w] = Idle]
  /\ UNCHANGED <<storeVars, open, beating>>

\* Complete or Fail begins.
StartReport(w, age) ==
  /\ run[w].pc \in {"complete", "fail"}
  /\ BeginReport(run[w].pc, run[w].key, run[w].token, w, age)
  /\ run' = [run EXCEPT ![w].pc = "reporting"]
  /\ UNCHANGED beating

\* It commits; accepted or not, execute is done.
EndReport(w) ==
  /\ run[w].pc = "reporting"
  /\ \E r \in open : r.worker_id = w /\ CommitReport(r)
  /\ run' = [run EXCEPT ![w] = Idle]
  /\ UNCHANGED beating

\* The report fails on its way to the database or in it: execute logs the error
\* and gives the claim up without another try.
ReportLost(w) ==
  /\ run[w].pc \in {"complete", "fail", "reporting"}
  /\ run' = [run EXCEPT ![w] = Idle]
  /\ RollBackReports(w)
  /\ UNCHANGED <<storeVars, beating>>

BeatAccepted(g, age) ==
  /\ g \in beating
  /\ Beats(g) < MaxBeats
  /\ HeartbeatAccepted(g.key, g.token, g.worker, age)
  /\ UNCHANGED <<open, executorVars>>

\* Variant of BeatRejected that returns without calling cancel.
BeatRejectedKeepsContext(g, age) ==
  /\ g \in beating
  /\ HeartbeatRejected(g.key, g.token, age)
  /\ beating' = beating \ {g}
  /\ UNCHANGED <<open, run>>

\* Variant of BeatRejected that cancels whatever its worker is executing.
BeatRejectedAnyClaim(g, age) ==
  /\ g \in beating
  /\ HeartbeatRejected(g.key, g.token, age)
  /\ beating' = beating \ {g}
  /\ run' = [run EXCEPT ![g.worker].lost = TRUE]
  /\ UNCHANGED open

\* ErrStale: the goroutine cancels the work context and returns.
BeatRejected(g, age) ==
  /\ g \in beating
  /\ HeartbeatRejected(g.key, g.token, age)
  /\ beating' = beating \ {g}
  /\ run' = IF Current(g) THEN [run EXCEPT ![g.worker].lost = TRUE] ELSE run
  /\ UNCHANGED open

\* execute has returned and its deferred cancel ran: the goroutine sees ctx.Done.
BeatStops(g) ==
  /\ g \in beating
  /\ ~Current(g)
  /\ beating' = beating \ {g}
  /\ UNCHANGED <<storeVars, open, run>>

\* The process dies, or is told to stop: after SIGINT or SIGTERM the cancelled
\* context lets no claim, complete or fail begin or commit.  It comes back polling.
Crash(w) ==
  /\ run[w].pc # "idle"
  /\ run' = [run EXCEPT ![w] = Idle]
  /\ beating' = {g \in beating : g.worker # w}
  /\ RollBackReports(w)
  /\ UNCHANGED storeVars

\* Run and execute around the handler.
RuntimeStep(w) ==
  \/ \E k \in Keys, age \in 0..MaxTxDelay :
       StartHandled(w, k, age) \/ StartUnhandled(w, k, age) \/ ClaimReplyLost(w, k, age)
  \/ \E age \in 0..MaxTxDelay : StartReport(w, age)
  \/ EndReport(w)
  \/ ReportLost(w)
  \/ Crash(w)

\* The handler returns.
HandlerStep(w) == HandlerSucceeds(w) \/ HandlerFails(w) \/ HandlerAborts(w)

ExecutorStep(w) == RuntimeStep(w) \/ HandlerStep(w)

GoroutineStep(g) ==
  \/ \E age \in 0..MaxTxDelay : BeatAccepted(g, age) \/ BeatRejected(g, age)
  \/ BeatStops(g)
=============================================================================
