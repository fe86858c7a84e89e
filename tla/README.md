# DurableMCP, specified

TLA+ specifications of DurableMCP, model-checked with TLC and proved, as far as
the properties are safety properties, with TLAPS. Paths and lines below are those
of the repository; `internal/` and `cmd/` are under `src/`.

## 1. The system

| Component | State | Operations | Source | Modelled in |
|---|---|---|---|---|
| Store (PostgreSQL) | `executions`, `execution_leases`, `retry_schedule`, `execution_events` | Submit, Claim, Heartbeat, Complete, Fail, expireLease, promoteRetry | `internal/store/ops.go`, `migrations/001_init.sql` | `DurableStore`, `Reports`, `StoreStatements` |
| Executor | the claim in hand, its work context, its heartbeat goroutine | poll and claim, run the handler, heartbeat, report | `internal/executor/engine.go`, `cmd/executor` | `Executor`, `HeartbeatTiming` |
| Scheduler | the two lists of the current pass | RunSchedulerPass on every tick | `ops.go:280-338`, `cmd/scheduler` | `Scheduler` |
| MCP protocol | none of its own | initialize, tools/list, tools/call, ping | `internal/mcp/protocol.go` | `McpTransport`, `McpServer` |
| MCP transports | messages read and not answered yet | stdio loop, `POST /mcp`, SSE | `internal/mcp/transport.go`, `cmd/server` | `McpTransport` (not SSE) |
| REST API | none of its own | reads; `POST /internal/complete` when test endpoints are on | `internal/api/server.go` | `McpServer`, `Dashboard`, `Listing` (part) |
| Read queries | none | GetExecution, ListEvents, ListExecutions, Stats, ... | `internal/store/query.go` | `Dashboard`, `Listing` (part) |
| Tool handlers | files, deliveries | one function per tool | `internal/executor/handlers.go` | `ToolEffects` |
| Demo agent | its round and the claim of the chaos cycle | submit, claim and abandon, ghost completion | `cmd/demo-agent` | `DemoAgent` |
| Dashboard | the page last loaded | two requests per page, retries, refresh | `web/lib/dashboard-data.ts` | `Dashboard` (detail page) |
| Configuration, logging, containers, scripts, test helper | | | `internal/config`, `internal/logging`, `docker*`, `scripts/`, `internal/testdb` | no |

**Interaction.** No process calls another. A client reaches the server, and the
server, the executors and the schedulers meet only in the database: tools/call
leaves a `ready` row, an executor turns it into `running` with a lease and a
fencing token, and reports it under that token; the scheduler takes back what
has a lapsed lease and promotes retries that are due. Correctness is therefore a
matter of which transaction sees which rows, and of database time.

**What is hard.**

- A worker that lost its lease does not know it and still heartbeats, reports,
  writes files and posts webhooks.
- The scheduler reads a list and acts on it row by row, in separate transactions
  that check nothing again (`ops.go:308`, `ops.go:330`).
- `now()` is the time of BEGIN; a transaction may act on a lease that has run
  out meanwhile.
- Under READ COMMITTED an UPDATE that waited for a row looks at the row again but
  not at the sub-select in its WHERE (`ops.go:186`, `ops.go:234`).
- The token counter lives in the event history, because the lease row it
  protects is deleted on expiry and completion.
- Where the test endpoint is on, a completion can be posted under the very token a
  worker holds, beside the worker's own report.
- Any reply can be lost after the commit; the executor never retries a report;
  any process can die between two transactions.
- Nothing stops two schedulers from running at once.
- A client pipelines requests on stdio and repeats calls whose answer it lost.
- The heartbeat timeout is 10 seconds whatever the lease is.
- A page, or a walk through pages, is put together from several snapshots.

**What makes each component correct.** *Store*: tokens only go up and no
superseded token writes again; the tables agree; a finished execution stays
finished; what sessions do concurrently is what one at a time could do.
*Executor*: a worker is told when its lease is lost, and soon; what it gives up,
somebody else finishes. *Scheduler*: what it read is still true when it acts;
attempts stay within `max_attempts`; backoff is respected; nothing is stranded.
*MCP protocol and transports*: answers in order, one per request; what they name
is persisted; a repeated call gets the same execution and outcome; nothing runs
unasked. *Handlers*: what is stored as done was done, at most once per attempt.
*Read side*: what is shown fits together, does not go back, and is complete.

`PROJECT.json` lists the hazards line by line with the properties that cover
them; those without one carry the reason.

## 2. The modules

```
DurableStore   tables and transactions
   |-- Scheduler   passes
   |-- Reports     Complete and Fail in two steps, snapshot and commit
   |     |-- Executor    workers and heartbeat goroutines
   |     |-- McpServer   tools/call and /internal/complete
   |     `-- DurableSystem     all of them; properties, fairness
   |            |-- INSTANCE ExecutionContract   what a caller is promised
   |            |-- DemoAgent       the demo agent beside them
   |            |-- ToolEffects     what handlers do outside the database
   |            |-- Dashboard       a page over the running system
   |            `-- DurableSystemProofs
   |                   `-- GhostProofs (DemoAgent), ToolEffectsProofs, DashboardProofs
   `-- (INSTANCE of Reports) StoreStatements   the transactions, statement by statement
          `-- StatementsProofs
HeartbeatTiming --- HeartbeatProofs       McpTransport --- McpTransportProofs
Listing --- ListingProofs                 MC*   instances of each for TLC
```

**DurableStore.** A key stands for an idempotency tuple (namespace, tool, key)
and for the one execution the UNIQUE constraint lets it have. `status`,
`attempts`, `result`, `error_message` are the columns of `executions`; `lease`
and `retry_in` the rows of `execution_leases` and `retry_schedule` (`NoLease`,
`NoRetry` when absent); `events` the history. Each transaction of `ops.go` is one
action per outcome, named after it: `CompleteAccepted`, `ReportRejected` (shared by
Complete and Fail), `FailRetries`, `FailTerminal`, `ExpireToReady`,
`ExpireToFailed`, and so on, events included.

*Time* is relative. A lease row holds the ticks left until `lease_expires`, a
retry row the ticks left until `retry_at`, and `Tick` counts down. A transaction
that compares a column with `now()` does so at an `age`, the ticks since its
BEGIN, at most `MaxTxDelay`: with age 2 a lease that ran out a tick ago still
looks live. A lease is no longer counted down once it is dead for every
transaction that can be open, which keeps the state space finite and decides
nothing the code could see.

*Results* are identified by the token they were stored under, since two attempts
of one call produce different payloads. Two payloads under one token, of the worker
and of a post, are therefore one result here; the properties of results are
those of a server without the test endpoint, where only workers report, and each
once per claim.

*Tokens* are BIGINTs, posted ones negative if the caller likes. `Numbered` are the
rows of the history that have one; `NextToken` is MAX + 1 or, over no such rows, 1, and a
claim whose token would exceed `MaxToken` errs.

*Isolation.* A transaction is one step, as if serialisable, but for Complete and Fail.

**Reports.** Under READ COMMITTED the UPDATE of Complete and Fail decides its EXISTS on
the snapshot it starts with, and what it writes, after whatever waits, becomes visible
at the commit. So `BeginReport` notes in `open` whether the token owns the lease
(`owns`), other transactions come between, and `CommitReport` writes what `owns`
says, over the row as it is then: a second report under one live token is accepted
too, a late one may be written after the lease was reaped and claimed again.
`RollBackReports` is the death or the error of a caller; `TimePasses` ages the open ones,
to `MaxTxDelay` at most. That these two steps for a report and one for every other
transaction are enough is the subject of `StoreStatements`.

**StoreStatements.** The same transactions for one execution, one action per
statement. A session (a worker's main connection, its heartbeat connection, a
client, a scheduler) has at most one transaction `tx[s]` with its `pc`, its `now`,
its row locks and its uncommitted versions of the rows; `Commit` publishes them.
`Blockers` says whom a statement waits for: updates of `executions` for each other,
the foreign key check of an event insert only for the `FOR UPDATE` of a claim.
`CheckLease` decides the EXISTS when the UPDATE of Complete or Fail takes its
snapshot, and `WriteCompleted`/`WriteFailed` write once the row is free: after a wait
PostgreSQL reads the row again, but the sub-select still sees that snapshot. `Claimable` is SKIP LOCKED.
`Abort` rolls back at any statement, `DeadlockVictim` is PostgreSQL's. Posted tokens
are natural numbers here. `mode`
picks a kind of behaviour at the start: `orderly` (no transaction is open across a tick,
tokens come from claims), `late` (transactions stay open up to `MaxTxDelay` ticks),
`forced` (posts to `/internal/complete` besides). The instance of `Reports`
maps absolute times to relative ones, and the transactions past their snapshot to `open`.

**Executor.** `run[w]` is the claim worker w has in hand: `working` in the handler,
about to `complete` or to `fail`, `reporting` while that transaction is open, or `idle`; `lost` says that its heartbeat
goroutine cancelled the work context. `beating` is the set of live goroutines; one
may outlive its claim, because a heartbeat runs under `context.Background`. The
handler is reduced to its outcomes. `ClaimReplyLost` and `ReportLost` are the error
branches of `engine.go:61` and `:90-103`; a reply lost after the commit of a report
is `EndReport` itself, `execute` doing nothing with the answer. `Crash` covers SIGKILL and shutdown.

**HeartbeatTiming.** The goroutine of one claim in real time: the ticker of a third
of the lease with a channel that buffers one tick, calls of at most `Latency` each
way, and failing calls that end anywhere up to `Timeout` and may have extended the
lease unheard. No two calls in a row fail.

**Scheduler.** A pass is `SelectStale`, one `ExpireOne` per listed row, `SelectDue`,
one `PromoteOne` per listed row, `EndPass`. `ExpireOne` uses the attempts the pass
read, as `ops.go:353` does. The SELECTs may return a part of the rows only: `rows.Err` is
not asked after the loops (`ops.go:298`, `:320`), so a broken connection looks like
the last row. `AbandonPass` is an error return or a restart.

**McpServer.** `CallNew` and `CallDuplicate` are tools/call; `answered` collects the
results it answered with. `ForceComplete` and `EndForced` are `POST /internal/complete`,
which exists only in the behaviours with `allowTestEnds`, chosen at the start
(`ALLOW_TEST_ENDPOINTS`, off unless set; `docker-compose.yml:32` sets it for the fencing demo). Posts of different tokens are in flight together and beside the
workers' reports; of one token, one at a time.

**McpTransport.** The server towards its clients. `sent` has every message with its
place (waiting, served, done, lost) and its reply; `written` the order of the answers.
`Turn` is the one-at-a-time loop of stdio against the independent requests of HTTP;
`SkipLine`, `LineTooLong`, `ParseError`, `InvalidRequest` and `Serve` are the branches of
`ServeStdio` and `HTTPHandler`, `Dispatch`, `toolsCall` and `toolsList` those of
`protocol.go`; an unregistered tool is an error of the params, or an internal one when the
store, which alone can tell, errs first. `SubmitErrs` is an error before or after the COMMIT. `Signal` leaves
stdio reading with a context that is done; `Crash` and `Restart` keep the rows.
Executors and schedulers appear as `Decide`, which is all the contract lets them do.

**ToolEffects.** Each handler of `handlers.go` in the steps it takes outside the
database, under the runtime of `Executor`: arguments checked first; `os.WriteFile`
truncates, then writes, and looks at no context; `send_webhook` posts under the work
context and then waits for the answer. A key has one path or url, and executors share
the scratch directory, as they do in one container.

**DemoAgent.** The loop of `cmd/demo-agent`: submit (a key that a second agent or a quick
restart submitted before is a duplicate), and in chaos rounds claim with a
short lease, sleep longer than it, complete with the dead token. That the lease (2
seconds) is shorter than the sleep (5 seconds) is `AgentAssumption`.

**Dashboard.** `getExecutionDetail` as two requests in either order, each a snapshot of
its own (`GetExecution`, the history), with `FetchFails`, the three attempts of
`withColdStartRetries`, refresh and reload, over all of `DurableSystem`.

**Listing.** A client that walks through `GET /api/v1/executions` by limit and offset,
with the clamps of `ListExecutions`, while submissions commit in another order than
they began in.

**ExecutionContract.** The system as its caller sees it, with neither workers nor
tokens: a call is accepted once, ends at most once, and every answer carries its
one result. `DurableSystem!Contract` maps absent to none, pending, ready and running
to open, and shows a result only while the execution is completed.

Definitions commented as a *variant* of another are not part of the specification.
They are the same code with a plausible slip in it (a dropped comparison, a forgotten
DELETE, a dropped condition), kept to see that the properties notice.

## 3. What is checked

| Run | Module, instance | Distinct states | Checks | Shows |
|---|---|---|---|---|
| `OneScheduler` | `DurableSystem`; 1 call submitted twice, 2 workers, lease 2, 1 heartbeat per claim, test endpoint on or off, token 2 posted | 1,802,495 | `OwnershipInv` `FencedLog` `LeaseOfNewestClaim` `CompletedByNewestClaim` `OneOwner` `CancelledOnlyWhenLost` `AttemptsBounded`; where the endpoint is off `FreshLists` `TablesAgree` `OneAnswer` `TerminalIsFinal` `NoEarlyRetry` `ImplementsContract` | in the deployment of `docker-compose.yml` fencing holds over reports that others come between and over posted tokens; with its `ALLOW_TEST_ENDPOINTS` taken out the unchecked lists of the scheduler are harmless and the system implements the contract |
| `Decided` | `DurableSystem`; 2 calls, one without a handler, 1 worker, fairness | 95,815 | `EveryCallDecided` | calls end in spite of crashes, lost replies and abandoned passes |
| `ChaosCycles` | `DemoAgent`; 1 worker, delay up to 1, sleep 2, lease 1 | 647,688 | `GhostRejected` `NeverStranded` `LostLeaseCancelsWork` | the ghost completion is never accepted; a handler that hangs is cancelled once its execution was claimed by somebody else |
| `Statements` | `StoreStatements`; 2 workers, 1 client, 1 scheduler, lease 1, delay up to 2, token 1 posted | 542,556 | `StatementsTypeOK` `TokensIncrease` `LeaseOfNewestClaim` `NeverStranded` `CyclesAreKnown` `NoWaitCycle` `ImplementsTransactions` `ImplementsReports` | the statements implement the transactions as `DurableStore` and `Reports` have them, in every mode, and one-step transactions in orderly behaviours; deadlocks are of two known kinds and need a transaction that is open across a tick |
| `Heartbeats` | `HeartbeatTiming`; periods 3 and 10, timeout 10, latency 4 | 4,141 | `LeaseKept` `ZombieBounded` | at the default lease of 30 seconds one failed heartbeat costs nothing; at 9 the lease may lapse, and the handler works on for a bounded time |
| `SideEffects` | `ToolEffects`; 2 workers, lease 2, any tool, arguments sound or not | 420,320 | `CompletedTookEffect` `EffectsBounded` `OwnerWroteWhole` | a completed call took effect, at most once per attempt |
| `Transports` | `McpTransport`; 2 messages of 12 kinds and a repeated call, 2 results, both transports, fairness | 540,361 | `TypeOK` `AnswersInOrder` `OnlyAskedFor` `AnswersArePersisted` `RepeatedCallsAgree` `EveryRequestAnswered` | nothing malformed, refused, lost or repeated confuses the answers |
| `DetailPage` | `Dashboard`; 1 call, 1 worker, lease 1 | 2,305,059 | `AttemptsAreClaims` `PageCoherent` `PageMovesForward` | a page made of two snapshots fits together and never goes back |
| `PagedWalk` | `Listing`; 4 submissions, limits 0, 2 and 3 (0 stands for the default, here 1; 3 is above the maximum, here 2), offsets -1 and 0 | 2,288,978 | `WalkComplete` | a walk misses nothing although offsets shift under it |

Three runs show where the code does less than the repository says; TLC's shortest
trace is the argument.

| Run | Property | What happens |
|---|---|---|
| `LateCommit` | `CompletedNeverReady` (`ops_test.go:237`) | A pass reads a lease as stale. A Complete that began before the expiry finds it live by its own `now()` and commits. `expireLease` then sets the completed execution to `ready`. |
| `SchedulersRace` | `AttemptsBounded` (`README.md:185`) | Two schedulers read the same stale lease. One re-readies the execution, it is claimed for its last attempt, and the other re-readies it again on the attempts it read earlier. |
| `SupersededCompletion` | `SupersededRejected` (`README.md:26`) | The EXISTS of a Complete that began before its lease ran out finds the lease live; its UPDATE then waits for the row while the lease is reaped and the execution claimed again, and writes under the older token once that claim has committed. |

**Bounds.** `MaxCalls` (requests per key), `MaxBeats` (accepted heartbeats per
claim), `MaxForced` (rejected posts per key), `MaxRounds` (of the demo agent),
`MaxClock`, `MaxMessages`, `MaxRepeats` (calls repeated beyond those), `MaxSubmits`, and two
attempts per key.

- *One key* suffices for safety, since no transaction touches two executions; what a
  pass that gives up leaves of a longer list is in `Decided`, which has two, and in the
  theorems, which have any number.
- *Two attempts* have a first and a last one, a retry and a terminal failure. With
  claims lost in between, an execution goes through tokens 1 and 2, and through 3 where
  a completion is undone or attempts overrun.
- *One heartbeat per claim* is enough for a late one. `Decided` has none: an accepted
  heartbeat only postpones the expiry, and a bounded number of them cannot postpone it
  forever. A heartbeat beyond the bound is as if it failed with a transient error.
- *Delays.* A report straddles the expiry of its lease, the reaper and a new claim only
  when it may be open for two ticks; hence `MaxTxDelay = 2` in `Statements`, `LateCommit`
  and `SupersededCompletion`. `OneScheduler` has `MaxTxDelay = 0`: fencing is a property of
  transactions that end within the tick they begin in, and `SupersededCompletion` is what
  happens otherwise. What remains true under any delay, with overlapping schedulers
  and any posted tokens (`OwnershipInv`, `NeverStranded`), is proved for all of them
  (section 4) and checked in `ChaosCycles` and `Statements`.
- *Posts.* `OneScheduler` posts token 2, which is not claimed yet, live, or dead when it
  arrives; `MaxForced = 1` bounds the rejected ones. One post of a token is in flight at a
  time, so at most two accepted reports share a token: a post and the worker's.
- *Tokens.* `MaxToken` is 3 in `OneScheduler`, where a claim beyond it errs, and out of
  reach elsewhere.
- *Clock.* In `Statements` two ticks see a lease of 1 lapse, be reaped and claimed again.
- *Messages.* Two of any kind are enough for order and for a collision, those properties
  relating two messages each. Two *decided* answers to one call need a third message, the one
  that inserted the row: `MaxRepeats = 1` is a call sent again after an answer or its
  loss. With two results answers have something to disagree on. The theorems of section 4
  have any number.
- *Repeated submissions* meet the workers' statements in `OneScheduler` as transactions;
  `Statements` has one submission and no duplicate (`MaxCalls = 1`), which reads one row and
  appends one event, and waits for nobody but an uncommitted submission.
- *Walk.* Four submissions and pages of one or two rows shift a page by more than its
  size.
- Workers are symmetric in the safety runs without an agent.

`CHECK_DEADLOCK FALSE` where the instance may stop: at the bounded clock (`Statements`,
`SupersededCompletion`), when the handler was told (`Heartbeats`), when submissions and
the walk are done (`PagedWalk`). Elsewhere no behaviour deadlocks.

**The grain.** `ImplementsReports` says, of every mode of `Statements`, that each commit is one
action of `DurableStore` or the `CommitReport` of a report whose `BeginReport` was the
statement that decided its EXISTS. It is what makes the modules over `Reports` models of the
code whatever is posted and however long a transaction is open.
`ImplementsTransactions` is the stronger statement, that a report is one step like the
others, with its guard true at the commit. It is about `orderly` behaviours only: a
post under a token that is not claimed yet may be logged as rejected after the claim
that makes the token live, two Completes with one live token may both be accepted, and a late
report may follow a newer claim.

**Lock cycles.** `expireLease` deletes the lease and then updates the execution; Complete
and Fail go the other way. And a claim of an execution that was made ready under a
lease that is live (as in `LateCommit` with a heartbeat for the Complete) waits for the
lease row of a heartbeat whose event insert waits for the claim. PostgreSQL ends either by an error in
one session; `Abort` covers what becomes of it.

**Fairness.** `SchedulerFairness`: the ticker fires again (weak fairness of
`SelectStale` and `EndPass`); the statements of a pass are strongly fair, because an
abandoned pass disables them and the next pass enables them again, so the
assumption is that no row's transaction fails in every pass. `WorkerFairness`: the
poll loop turns and a report is tried once, and possibly lost. Nothing forces a
report to arrive: `ReportLost` satisfies it. `HandlerReturns` is an
assumption of `Decided` about the tools, not something `engine.go` enforces: the
compute and file tools end on their own, but `callAPI` (`handlers.go:121`) uses a client
without a timeout, and a handler that hangs while its heartbeats succeed keeps its
lease, and its call undecided, for as long as its worker lives. `Decided` therefore
says that calls are decided *if* tools return. `AgentHangingSpec` does without it: it
assumes only that the ticker of `engine.go:113` fires and that not every round-trip
times out. `McpTransport!FairSpec`: the loop and the handlers of the server run on, which
the Go scheduler provides, and their store calls return, with an answer or an error: the
code sets no timeout on them (`protocol.go:123`), so that is an assumption about the
database and the network; a request whose connection or process is lost counts as
done. `Tick` is fair as time passes. `Crash`, `AbandonPass`, `ClaimReplyLost`,
`ReportLost`, `Signal`, `ConnectionLost` and the clients are never forced and never
excluded.

## 4. What is proved

Every safety property of section 3 but `ImplementsReports`, and both other refinements, each
for any values of the constants the modules' assumptions allow, under the hypotheses given
here. The theorems of `DurableSystem` are in one module, `DurableSystemProofs`, in parts that rest on
each other: histories and transactions, ownership, cancelled contexts, what histories count,
the deployment with one scheduler, and the same without the test endpoint.

*Ownership*, in every deployment: any sets of keys, workers and schedulers, any
`MaxAttempts`, lease lengths and transaction delays, any posted tokens:

| Theorem | Statement |
|---|---|
| `OwnershipInvariant` | `Spec => []OwnershipInv` |
| `TypeCorrect` | `Spec => []TypeOK` |
| `LeaseHolds` | `Spec => []LeaseOfNewestClaim` |
| `OwnersDiffer` | `Spec => []OneOwner` |
| `NothingStranded` | `Spec => []NeverStranded` |
| `CancelsAreDue` | `Spec => CancelledOnlyWhenLost` |

None of it says which reports are accepted: with delays a superseded one can be
(`SupersededCompletion`), so fencing is not among these theorems. That a new claim exceeds all
others needs a maximum of the tokens logged (`HasMax`, which `COALESCE(MAX(..), 0)` takes for
granted), and no appended row may lose it. `LeaseOfNewestClaim` holds because a claim writes
its own lease and a heartbeat only extends the one it finds. `OneOwner` needs that the
tokens in workers' hands are in the history (`RunTokens`), so that the next one differs from
them. `KeyInv` is the part about one execution. There is a lemma per transaction
(`ClaimPreserves`, `CompleteAcceptedPreserves`, ...) on top of lemmas on appending to a history
(`AppendTokens`, `AppendNewest`, `AppendHasMax`), and `OneKeyStep` reduces a step to the
execution it touches; then there is a lemma per process. `CancelsAreDue` is by cases
on the step, only `BeatRejected` of the current claim setting `lost`.

*The deployment with one scheduler*, under
`Deployment == MaxTxDelay = 0 /\ \A s, t \in Schedulers : s = t` and for any value of the
other constants, posted tokens included:

| Theorem | Statement |
|---|---|
| `FencingHolds` | `Spec => []FencedLog` |
| `CompletionHolds` | `Spec => []CompletedByNewestClaim` |
| `AttemptsAreBounded` | `Spec => []AttemptsBounded` |

and, the formulas being conditional on `~allowTestEnds`,

| Theorem | Statement |
|---|---|
| `PassesAreFresh` | `Spec => []FreshLists` |
| `TablesDoAgree` | `Spec => []TablesAgree` |
| `AnswersAreOne` | `Spec => []OneAnswer` |
| `FinalStaysFinal` | `Spec => TerminalIsFinal` |
| `RetriesWait` | `Spec => NoEarlyRetry` |
| `SystemImplementsContract` | `Spec => ImplementsContract` |

Every hypothesis is needed: `SchedulersRace`, `LateCommit` and `SupersededCompletion` are what
happens without one scheduler and prompt transactions, and with the endpoint on a post and
the worker's report can both be accepted (section 5).

Three invariants of every deployment come first. `ReportsFit`: a worker's open report is of
the claim it is reporting, and its only one. `HistoryInv`: the attempts column counts the claims of the
history, and a lease's token is a claim's; appending a claim adds one to their
number, appending anything else leaves it (`AppendCounts`). `TokensArePositive`: where nothing
is posted. The inductive invariant of the deployment, `DeployInv`, says that an execution has a lease
exactly when running and attempts left whenever it can be claimed (`RowsFit`), that the pass's
lists are as they were read (`ListsFit`), and, which is the point, that a report that found its lease
(`owns`) still has it, or was overtaken by an equal one that ended the attempt and so cannot
be reclaimed before the report is done (`OwnerFits`). Every step is reduced to what it does to one
execution: one of the moves `Born`, `Claimed`, `Extended`, `Reported`, `Reaped`, `Promoted`,
`Aged`, or none. Moves keep the rows (`MovedFits`) and the open reports (`MovedKeepsOwner`); no
move but a pass's own takes an execution off the pass's list (`WorkedKeepsLists`), an expired
lease being neither extended nor claimed over. Where only workers report, one report at most is out
under each token (`OneReporter`), so what it found is still there when it commits (`OwnerLive`),
and `AgreeInv` follows: retry rows exactly when pending, answers only with the stored
result. The action properties and the contract then read off the moves: each is an
Accept, a Finish, a GiveUp, a Replay or a stutter of the caller's contract (`OneContractStep`), and
no step changes what two callers can read (`AtMostOne`).

*The statements*, in `StatementsProofs`, for any workers, clients, schedulers, attempts, lease length,
delays and posted tokens:

| Theorem | Statement | Hypothesis |
|---|---|---|
| `StatementsInvariant` | `Spec => []StatementsInv` | |
| `StatementsTypeCorrect` | `Spec => []StatementsTypeOK` | |
| `TokensDoIncrease` | `Spec => []TokensIncrease` | |
| `LeaseStaysNewest` | `Spec => []LeaseOfNewestClaim` | |
| `NothingIsStranded` | `Spec => []NeverStranded` | |
| `CyclesAreOfTwoKinds` | `Spec => []CyclesAreKnown` | |
| `NumbersInvariant` | `Spec => []NumbersInv` | |
| `PunctualInvariant` | `Spec => [](mode # "late" => PunctualInv)` | `OneScheduler` |
| `NobodyWaitsInACircle` | `Spec => []NoWaitCycle` | `OneScheduler` |
| `OrderlyInvariant` | `Spec => [](mode = "orderly" => OrderlyInv)` | `OneScheduler` |
| `StatementsImplementTransactions` | `Spec => ImplementsTransactions` | `OneScheduler` |

None of the properties is inductive, since what they say of committed rows is decided by the
uncommitted ones of open transactions. `StatementsInv` says of each kind of transaction, at each
statement, which rows it has locked and how its versions of them follow from the committed
ones (`SubmitFits`, `ClaimFits`, `ReportFits`, ...). That this survives what other sessions commit
is where the locks come in: two transactions do not have one row locked (`LocksExclude`), so the
rows that a commit publishes are not those another transaction has read under its lock. A claim has
the execution locked from its SELECT on, so no other claim commits between its MAX and its INSERT
(`Exceeds`). A deadlock needs a session that has the lease's row locked and waits for the execution's
(`StuckPair`), and `MutualWait` finds the pairs that can be.

`PunctualInv` holds where no transaction is open across a tick: all open ones have the `now()` of this
tick, so what a pass or a report found out about the lease is still so, or a report of this tick has
just ended it. Then neither circle can close. The one scheduler is needed for the pass's lists.
`OrderlyInv` adds, where only workers report, that a token is in one pair of hands or in one report, and
that what a report found out at its snapshot (`VerdictHolds`) is still true at its COMMIT, although the
sub-select is never evaluated again. `NumbersInv` says that whatever row has a token is one MAX
counts, so that the statement's MAX is `NextToken` of `DurableStore`. The refinement follows commit by commit: each kind's COMMIT, with the
rows it has locked, is the transaction of `DurableStore` at age 0; a rollback, a wait, a skipped row and every
other statement leave the tables alone.

*Side effects*, in `ToolEffectsProofs`. `ToolsInvariant` is `ToolSpec => [](OwnershipInv /\ ToolInv)`
and `CompletedCallsTookEffect` is `ToolSpec => []CompletedTookEffect`, with any schedulers and
delays; `EffectsAreBounded` (`EffectsBounded`) and `OwnersWriteWhole` (`OwnerWroteWhole`) are under
`Deployment`, the second because a superseded completion may be stored, and accepted, after a
newer claim has truncated the file. `CompletedTookEffect` and `OwnerWroteWhole` are conditional on
`~allowTestEnds`, a posted completion storing a result that no tool produced. `ToolInv` says that
every effect is under the token of a claim and none twice (`CallInv`), how far each handler has come with
it (`HandlerInv`), and that what a worker reports as complete took effect (`ReportsTook`). It needs
two facts of `OwnershipInv`: a new claim's token is in no history, so it has taken no effect yet
(`ClaimIsNew`), and two workers on one call hold different tokens (`OneOwner`). Effects are then an
injection into the claims of the history (`EffectsAreClaims`), of which there are as many as attempts
(`HistoryInv`), and attempts are bounded. A file in pieces belongs to a token that took no
effect, the stored result to one that did (`ResultInv`) and, in the deployment, to the newest claim.

*The page*, in `DashboardProofs`: `AttemptsCountClaims` is `DashboardSpec => []AttemptsAreClaims`, for
every deployment, from `HistoryInv`. `PagesFit` and `PagesMoveForward` are `PageCoherent` and
`PageMovesForward` under `Deployment`, the formulas being conditional on `~allowTestEnds`: what a page was
shown (`Shown`, `Listed`) stays true because attempts, claims and completions only accumulate
(`WatchedGrows`, where completed being final, and so all hypotheses, are needed), and what the later of
two responses finds is at least that. That tokens do not fall on a refreshed page comes from the
token shown being one of a claim in the history, and the lease being of the newest (`RowNow`).

*The ghost*, in `GhostProofs`: `GhostsAreRejected` is `AgentSpec => []GhostRejected`, for any workers,
schedulers and delays; `GhostRejected` is conditional on `~allowTestEnds` (a completion posted with the
chaos token while its lease lives is nobody's ghost and would be accepted). `GhostInv` adds to
`OwnershipInv` that no worker, no heartbeat goroutine and no report that found its lease holds a token of the
chaos agent's (`RunsAreNotChaos`, `BeatsAreNotChaos`, `ReportsAreNotChaos`), so nobody extends
the abandoned lease, and that while the agent sleeps its lease, if it is still there, ends before the
sleep (`SleepsLonger`). A step does one of four things to an execution: `Left`, `Held`,
`TakenByWorker`, `TakenByAgent`.

*The transports*, in `McpTransportProofs`, for any messages, tools and results and any
number of messages: `TransportTypeCorrect`, `AnswersComeInOrder`, `AnswersStayPersisted`, `NothingUnasked`,
`RepetitionsAgree`. `TransportInv` says of stdio that behind a line which is
not done with nothing has been looked at (`LoopInv`), and of every reply that it tells the truth about its row
(`ReplyTrue`), whose outcome is decided once.

*Heartbeats*, in `HeartbeatProofs`, for any periods, timeout and latency: `ZombiesAreTold` and
`LeaseIsKept`. The inductive invariant bounds, at any moment, how far away the next healthy
UPDATE can be (`Reach`), against what is left of the lease.

*Walks*, in `ListingProofs`, for any limits, offsets and number of submissions:
`WalksAreComplete`, from `WalkInv`: what has not been shown lies at the next offset or behind it. It
rests on lemmas on ranks in a finite set (they are injective, grow with the set, and a
page holds no more of them than its limit).

*Assumptions* are those the modules name (`StoreAssumption`, `ExecutorAssumption`,
`ServerAssumption`, `TransportAssumption`, `TimingAssumption`, `ListingAssumption`, `DashboardAssumption`,
`AgentAssumption`, `StatementsAssumption`), which give the
constants their types and keep the null values apart; TLC evaluates them in every run. Two
facts of arithmetic are among them, `BackoffAssumption` (no backoff within the attempts is zero) and
a conjunct of `StatementsAssumption` (a power of two is a positive natural number): no backend
knows more of `2^n` than that it is an integer. TLC evaluates both for the attempts of every run; they
are true of any `MaxAttempts` in the modules' integers, and of the code up to 33 attempts.

*Only model-checked*: the three liveness properties (`EveryCallDecided`, `LostLeaseCancelsWork`,
`EveryRequestAnswered`), liveness under fairness being out of the prover's reach, and
`ImplementsReports`.

## 5. Where code and text part, without a run of their own

Seen while modelling; most can be followed in the modules named.

- A stale heartbeat is rolled back without an event (`ops.go:160`), where `README.md:175`
  says stale heartbeat, complete and fail rejections come with `stale_rejected` events.
- `ops.go:216` says that the guard of Fail is part of the UPDATE, so nothing can come
  between check and write. After a wait for the row's lock the EXISTS still sees the
  statement's snapshot, and the UPDATE writes after the lease is gone (`StoreStatements`).
- `ops.go:172` says Complete succeeds iff the token still owns the lease. Two reports with
  one token at once, the worker's and a posted one, both find it: a second Complete overwrites
  the payload, a Complete after a terminal Fail makes `failed` `completed`, and the reverse, and
  after a Fail that retries it leaves a completed execution with a retry row, which the
  promoter later makes `ready`. It needs `ALLOW_TEST_ENDPOINTS` and a post under the live token
  (`Reports`; `StoreStatements`, mode `forced`).
- `Claim` takes MAX + 1 of what was logged (`ops.go:117`), rejected posts included. After a post
  of the largest BIGINT every claim of that execution errs and it stays `ready`; negative
  tokens make the next one zero or less. Test endpoint again.
- After its SELECTs a pass does not ask `rows.Err` (`ops.go:298`, `:320`): a list that broke off is
  handled as if it were whole, and the rest waits for the next pass.
- `query.go:130` promises the ordered history. It is ordered by `occurred_at`, the BEGIN of
  the writer, so a claim can be listed before the expiry it waited for.
- `README.md:120` calls write_file idempotent by path and hash. An attempt that lost its
  lease may truncate the file of a call that a later attempt has completed
  (`ToolEffects`; `OwnerWroteWhole` says what is still true).
- `cmd/demo-agent/main.go:100` says the reaper returns the abandoned call to ready. If the
  chaos claim was its last attempt, the reaper fails it, although no tool ran.
- `protocol.go:118` says identical calls collapse. The hash is of the text of the arguments,
  before missing ones are stored as `{}`; a call without arguments and one with `{}` become
  two executions.
- `query.go:109` says GetExecution joins the active lease. A lapsed one that is not reaped
  yet is returned as well, where Stats and ListWorkers leave it out.
- `web/lib/dashboard-data.ts:33` throws on the 404 of an unknown id, which is retried twice
  and shown as an unavailable API; "Execution not found." (`web/app/executions/[id]/page.tsx:39`)
  is never reached in live mode.
- `callAPI` and `sendWebhook` take any HTTP status for a success (`handlers.go:127`).
- A body between 1 and 4 MiB is served on stdio and a parse error over HTTP; stdio does not
  look at `jsonrpc`; after a signal the stdio loop reads on and answers store calls with
  internal errors.

## 6. What is not modelled

- Stats, ListWorkers, the list of tools and the overview page: aggregates of one moment that
  nothing else depends on. Walks that filter by status, and rows with equal `created_at`.
- The SSE stream, which carries a ready event and keepalives and nothing of a call.
- Health checks and the reader key of the REST API.
- SeedTools, which runs before anything else and again at every start with the same rows.
- Integer width of the backoff (`1<<uint(attempts)`), which needs 34 attempts; registered
  tools have 3.
- The poll interval, and wall-clock times other than in `HeartbeatTiming`.
- The `cancelled` status, which no code sets.
- Payloads, response bodies, messages of errors, rendering.
- Configuration, logging, containers, scripts and the test helper: they give the constants
  their values, and the instances their shape (one scheduler, one scratch directory).
- A database that loses committed data.

## 7. Plan

Modelled and checked: section 3. Proved: every safety property but `ImplementsReports`, and both
other refinements. Left, in this order:

1. `ImplementsReports` for any constants: the commit of each kind of transaction is shown to be an action
   of `DurableStore` only where `OrderlyInv` holds; the late and forced modes need the same with the
   snapshot in its place.
2. What is left of `CompletedTookEffect` and `GhostRejected` when tokens are posted to `/internal/complete`:
   they should hold of every call that a worker completed.
3. The contract for several schedulers, weakened to what `SchedulersRace` leaves of it.
4. Several clients walking with filters; the Stats query against concurrent writers.
