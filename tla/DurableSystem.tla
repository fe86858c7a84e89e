--------------------------- MODULE DurableSystem ----------------------------
(***************************************************************************)
(* The whole of DurableMCP: MCP clients calling the server, executors      *)
(* claiming and reporting, schedulers reaping and promoting, all over one  *)
(* database and its clock.                                                 *)
(***************************************************************************)
EXTENDS Executor, Scheduler, McpServer

vars == <<storeVars, open, executorVars, pass, serverVars>>

\* Every table, worker, goroutine, pass and answer has the values its Go or SQL
\* type allows: tokens are integers and attempts natural numbers, no column is NULL that
\* the code reads as a number.
TypeOK ==
  /\ StoreTypeOK
  /\ open \subseteq Report
  /\ run \in [Workers -> Run]
  /\ beating \subseteq Goroutine
  /\ pass \in [Schedulers -> Pass]
  /\ allowTestEnds \in BOOLEAN
  /\ calls \in [Keys -> Nat]
  /\ answered \in [Keys -> SUBSET Int]

Init ==
  /\ StoreInit
  /\ ReportsInit
  /\ ExecutorInit
  /\ SchedulerInit
  /\ ServerInit

Next ==
  \/ \E k \in Keys : ServerStep(k) /\ UNCHANGED <<executorVars, pass>>
  \/ \E w \in Workers : ExecutorStep(w) /\ UNCHANGED <<pass, serverVars>>
  \/ \E g \in beating : GoroutineStep(g) /\ UNCHANGED <<pass, serverVars>>
  \/ \E s \in Schedulers : SchedulerStep(s) /\ UNCHANGED <<open, executorVars, serverVars>>
  \/ TimePasses /\ UNCHANGED <<executorVars, pass, serverVars>>

Spec == Init /\ [][Next]_vars

-----------------------------------------------------------------------------
(* Properties of every deployment: any number of workers and schedulers, any *)
(* delay between BEGIN and the statements of a transaction, any token posted *)
(* to /internal/complete.                                                    *)

\* The row of execution_leases always belongs to the newest claim: a lease that
\* was lost is not brought back by a late heartbeat, report or scheduler pass.
LeaseOfNewestClaim ==
  \A k \in Keys : HasLease(k) => Newest(events[k], lease[k].fencing_token)

\* Two workers that execute the same call, one of them without knowing that it
\* lost the lease, never share a token: at most one of them can be believed.
OneOwner ==
  \A w, v \in Workers :
    (w # v /\ run[w].pc # "idle" /\ run[v].pc # "idle" /\ run[w].key = run[v].key)
      => run[w].token # run[v].token

\* No execution is left where no process looks for it: the reaper only finds a
\* running row through its lease, the promoter a pending one through its
\* retry_schedule row, whatever scheduler passes and late reports overlap.
NeverStranded ==
  \A k \in Keys :
    /\ status[k] = "running" => HasLease(k)
    /\ status[k] = "pending" => retry_in[k] # NoRetry

\* A worker that is not idle works on a token of the execution's history.
RunTokens ==
  \A w \in Workers : run[w].pc # "idle" =>
    run[w].key \in Keys /\ run[w].token \in Tokens(events[run[w].key])

\* A work context is cancelled only when the lease of that very claim is lost: the
\* goroutine of an earlier claim, which may have a call in flight while its worker
\* executes the next one, does not cancel that.
CancelledOnlyWhenLost ==
  [][\A w \in Workers :
       (run[w].pc = "working" /\ run'[w].pc = "working" /\ ~run[w].lost /\ run'[w].lost)
         => ~LeaseLive(run[w].key, run[w].token, 0)]_vars

\* The inductive invariant behind the others.  The next claim's token exceeds every
\* token logged, so it differs from the token of any worker still at work.
OwnershipInv ==
  /\ TypeOK
  /\ \A k \in Keys : KeyInv(k)
  /\ RunTokens
  /\ OneOwner

-----------------------------------------------------------------------------
(* Properties of the deployment that docker-compose.yml describes, one       *)
(* scheduler, when no transaction stays open across a tick (MaxTxDelay = 0). *)
(* Any token may be posted to /internal/complete.                            *)

\* Fencing (README 2 and 4): once an execution was claimed under a token, no
\* write of a lower token is ever accepted, and a later claim has a higher
\* token, whatever the order of claims, expiries, late reports and forced
\* completions.
FencedLog == \A k \in Keys : Fenced(events[k])

\* A completed execution holds the result of its newest claim: the late
\* completion of a superseded attempt never overwrites or pre-empts it.
CompletedByNewestClaim ==
  \A k \in Keys : status[k] = "completed" => Newest(events[k], result[k])

\* No call is attempted more often than its tool's max_attempts, over failures,
\* lost leases and lost replies together.
AttemptsBounded == \A k \in Keys : attempts[k] <= MaxAttempts[k]

-----------------------------------------------------------------------------
(* Properties of the same deployment without the test endpoint, which is   *)
(* the server's default although docker-compose.yml turns it on for the    *)
(* demo of fencing: a post under a live token and the worker's report may  *)
(* both find the lease, and both be accepted.                              *)

\* What a scheduler pass read is still true when it acts on it, although
\* RunSchedulerPass checks nothing again: a listed lease stays expired with the
\* attempts that were read, a listed retry stays pending and due.
FreshLists ==
  ~allowTestEnds => \A s \in Schedulers :
    /\ \A x \in pass[s].stale : Expired(x.key) /\ attempts[x.key] = x.attempts
    /\ \A k \in pass[s].due : status[k] = "pending" /\ Due(k)

\* The four tables agree: exactly the running executions have a lease and
\* exactly the pending ones a row in retry_schedule.
TablesAgree ==
  ~allowTestEnds => \A k \in Keys :
    /\ status[k] = "running" <=> HasLease(k)
    /\ status[k] = "pending" <=> retry_in[k] # NoRetry

\* completed and failed are final, and the stored result with them.
TerminalIsFinal ==
  [][~allowTestEnds => \A k \in Keys : status[k] \in {"completed", "failed"} =>
       status'[k] = status[k] /\ result'[k] = result[k]]_vars

\* ops_test.go: completed work never returns to the ready queue.
CompletedNeverReady ==
  [][\A k \in Keys : status[k] = "completed" => status'[k] # "ready"]_vars

\* A failed attempt is not retried before its backoff has passed.
NoEarlyRetry ==
  [][~allowTestEnds => \A k \in Keys : (status[k] = "pending" /\ retry_in[k] > 0) => status'[k] = "pending"]_vars

\* All answers to repeated submissions of one key carry the same result, and it
\* is the stored one.
OneAnswer == ~allowTestEnds => \A k \in Keys : answered[k] # {} => answered[k] = {result[k]}

-----------------------------------------------------------------------------
(* The contract with the caller.  absent is none; ready, running and pending *)
(* are open; a result is only readable while the execution is completed.     *)

phaseOf(k) ==
  CASE status[k] = "absent" -> "none"
    [] status[k] \in {"completed", "failed"} -> status[k]
    [] OTHER -> "open"

Contract == INSTANCE ExecutionContract WITH
  Results <- Int,
  NoResult <- 0,
  phase <- [k \in Keys |-> phaseOf(k)],
  answer <- [k \in Keys |-> IF status[k] = "completed" THEN result[k] ELSE 0],
  told <- answered

\* The whole system, leases, tokens, retries and passes included, implements
\* the caller's contract.
ImplementsContract ==
  Contract!ContractInit /\ [][~allowTestEnds => Contract!ContractNext]_(Contract!contractVars)

-----------------------------------------------------------------------------
(* Liveness, and the fairness it needs.                                      *)

\* The scheduler's ticker fires again after every pass.  A pass may be given up
\* (an error, a restart) or read only a part of its rows any number of times, but
\* no statement of it fails forever: what is enabled in pass after pass is carried
\* out in one of them.
SchedulerFairness(s) ==
  /\ SF_vars(SelectStale(s, StaleRows) /\ UNCHANGED <<open, executorVars, serverVars>>)
  /\ SF_vars((\E x \in pass[s].stale : ExpireOne(s, x)) /\ UNCHANGED <<open, executorVars, serverVars>>)
  /\ SF_vars(SelectDue(s, DueRows) /\ UNCHANGED <<open, executorVars, serverVars>>)
  /\ SF_vars((\E k \in pass[s].due : PromoteOne(s, k)) /\ UNCHANGED <<open, executorVars, serverVars>>)
  /\ WF_vars(EndPass(s) /\ UNCHANGED <<open, executorVars, serverVars>>)

\* The poll loop of Run keeps turning and a claimed execution is reported, or
\* its report is lost, once the handler is done.
WorkerFairness(w) ==
  /\ WF_vars((\E k \in Keys, age \in 0..MaxTxDelay : StartHandled(w, k, age) \/ StartUnhandled(w, k, age))
             /\ UNCHANGED <<pass, serverVars>>)
  /\ WF_vars((ReportLost(w) \/ EndReport(w) \/ \E age \in 0..MaxTxDelay : StartReport(w, age))
             /\ UNCHANGED <<pass, serverVars>>)

\* The tool returns.  An assumption about tools: execute sets no deadline, and
\* callAPI's HTTP client has no timeout.
HandlerReturns(w) ==
  WF_vars(HandlerStep(w) /\ UNCHANGED <<pass, serverVars>>)

FairSpec ==
  /\ Spec
  /\ WF_vars(TimePasses /\ UNCHANGED <<executorVars, pass, serverVars>>)
  /\ \A s \in Schedulers : SchedulerFairness(s)
  /\ \A w \in Workers : WorkerFairness(w) /\ HandlerReturns(w)

\* Every accepted call is decided: it ends completed or failed although
\* executors crash, replies and reports are lost and passes are given up.
EveryCallDecided ==
  \A k \in Keys : status[k] # "absent" ~> status[k] \in {"completed", "failed"}

\* A worker whose claim was superseded is told: its work context is cancelled
\* or its handler ends, even if the handler would never return by itself.
LostLeaseCancelsWork ==
  \A w \in Workers, k \in Keys :
    (run[w].pc = "working" /\ run[w].key = k /\ HasLease(k) /\ lease[k].fencing_token > run[w].token)
      ~> (run[w].lost \/ run[w].pc # "working")
=============================================================================
