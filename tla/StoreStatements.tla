-------------------------- MODULE StoreStatements ---------------------------
(***************************************************************************)
(* The transactions of internal/store/ops.go for one execution, statement  *)
(* by statement, as PostgreSQL runs them under READ COMMITTED: several     *)
(* sessions are inside a transaction at once, row locks are held until     *)
(* commit, and each statement sees the rows committed when it starts.      *)
(*                                                                         *)
(* A statement that neither waits, nor is waited for, nor reads what       *)
(* another session may change is part of the step before it or of the      *)
(* commit.  Rows of execution_events become visible at commit; at is their *)
(* occurred_at, the BEGIN of the transaction that wrote them.              *)
(***************************************************************************)
EXTENDS Integers, Sequences, FiniteSetsExt

CONSTANTS
  Workers,        \* executor processes
  NoWorker,       \* the NULL worker_id
  Clients,        \* server connections
  Schedulers,     \* scheduler processes
  MaxAttempts,    \* tools.max_attempts
  LeaseSeconds,   \* LEASE_SECONDS, in ticks
  MaxToken,       \* the largest BIGINT
  MaxTxDelay,     \* longest transaction, in ticks
  ForcedTokens,   \* tokens posted to /internal/complete, natural numbers here
  MaxCalls,       \* bound: submissions logged
  MaxForced,      \* bound: rejected posts to /internal/complete
  MaxBeats,       \* bound: heartbeats logged per token
  MaxClock        \* bound: the last tick

ASSUME StatementsAssumption ==
  /\ NoWorker \notin Workers
  /\ MaxAttempts \in Nat \ {0}
  /\ LeaseSeconds \in Nat \ {0}
  /\ \A n \in 0..MaxAttempts : 2^n \in Nat \ {0}
  /\ {MaxToken, MaxTxDelay, MaxCalls, MaxForced, MaxBeats, MaxClock} \cup ForcedTokens \subseteq Nat

VARIABLES
  mode,       \* orderly; late: transactions stay open across ticks; forced: posts to
              \* /internal/complete
  clock,      \* database time
  row,        \* the executions row, last committed version
  lease,      \* the execution_leases row, last committed version
  retry_at,   \* the retry_schedule row, last committed version
  log,        \* the committed rows of execution_events
  tx,         \* per session, its open transaction
  hand,       \* per worker, the token it executes under; 0 when it has none
  pass        \* per scheduler, where its pass is

vars == <<mode, clock, row, lease, retry_at, log, tx, hand, pass>>

NoRow == [status |-> "absent", attempts |-> 0, result |-> 0, error |-> "none"]
NoLease == [worker_id |-> NoWorker, fencing_token |-> 0, expires |-> 0]
NoRetry == -1

\* An executor runs its claims and reports on one connection and its heartbeats
\* on another.
Sessions == Clients \cup Schedulers \cup (Workers \X {"main", "beat"})

WorkerOf(s) == IF s \in Workers \X {"main"} THEN s[1] ELSE NoWorker

\* The statement that opens a transaction of each kind.
First == [submit |-> "insert", claim |-> "select", complete |-> "check", fail |-> "check",
          heartbeat |-> "beat", expire |-> "event", promote |-> "promote"]

Kinds == DOMAIN First

\* pc: the next statement.  now: the time of BEGIN.  locks: what is held until
\* the end; "share" is the FOR KEY SHARE of a foreign key check on executions.
\* row, lease and retry are the uncommitted versions of the rows locked.
NoTx == [kind |-> "none", pc |-> "none", now |-> 0, token |-> 0, locks |-> {},
         row |-> NoRow, lease |-> NoLease, retry |-> NoRetry, types |-> <<>>]

NoPass == [pc |-> "idle", seen |-> 0]

-----------------------------------------------------------------------------
(* Reading and locking.                                                      *)

HasLease == lease.worker_id # NoWorker

\* The EXISTS of Complete and Fail, and the WHERE of Heartbeat.
OwnsLease(t) == HasLease /\ lease.fencing_token = t.token /\ lease.expires > t.now

NextToken == 1 + Max({0} \cup {log[i].fencing_token : i \in DOMAIN log})

\* time.Duration(1<<uint(attempts)) * time.Second, in ticks.
Backoff(n) == 2^n

Holders(l) == {s \in Sessions : l \in tx[s].locks}

\* Variant of Blockers in which the event insert updates executions too, as a
\* heartbeat that sets updated_at would.
BlockersOfTouchingEvent(s) ==
  CASE tx[s].pc \in {"insert", "write", "release", "promote", "event"} -> Holders("execution") \ {s}
    [] tx[s].pc \in {"delete", "upsert", "beat"} -> Holders("lease") \ {s}
    [] OTHER -> {}

\* Whom the next statement of s waits for.  Updates of executions wait for each
\* other; a foreign key check waits only for the FOR UPDATE of a claim.
Blockers(s) ==
  CASE tx[s].pc \in {"insert", "write", "release", "promote"} -> Holders("execution") \ {s}
    [] tx[s].pc = "event" -> {r \in Holders("execution") \ {s} : tx[r].kind = "claim"}
    [] tx[s].pc \in {"delete", "upsert"} -> Holders("lease") \ {s}
    [] tx[s].pc = "beat" -> IF OwnsLease(tx[s]) THEN Holders("lease") \ {s} ELSE {}
    [] OTHER -> {}

\* Every member waits for another member: nobody in D can go on.
Stuck(D) == D # {} /\ \A s \in D : Blockers(s) \cap D # {}

\* One statement of s: it is at pc, waits for nobody, and leaves tx[s] as t.
Statement(s, pc, t) ==
  /\ tx[s].pc = pc
  /\ Blockers(s) = {}
  /\ tx' = [tx EXCEPT ![s] = t]
  /\ UNCHANGED <<clock, row, lease, retry_at, log, hand, pass>>

Begin(s, kind, token) ==
  /\ tx[s] = NoTx
  /\ tx' = [tx EXCEPT ![s] = [NoTx EXCEPT !.kind = kind, !.pc = First[kind],
                                          !.now = clock, !.token = token]]
  /\ UNCHANGED <<clock, row, lease, retry_at, log>>

-----------------------------------------------------------------------------
(* Who begins what.                                                          *)

Logged(type, token) ==
  Cardinality({i \in DOMAIN log : log[i].event_type = type /\ log[i].fencing_token = token})

BeginSubmit(c) ==
  /\ Logged("submitted", 0) + Logged("duplicate_detected", 0) < MaxCalls
  /\ Begin(c, "submit", 0)
  /\ UNCHANGED <<hand, pass>>

\* POST /internal/complete.
BeginForced(c, token) ==
  /\ mode = "forced"
  /\ row.status # "absent"
  /\ Logged("stale_rejected", token) < MaxForced
  /\ Begin(c, "complete", token)
  /\ UNCHANGED <<hand, pass>>

BeginClaim(w) ==
  /\ hand[w] = 0
  /\ Begin(<<w, "main">>, "claim", 0)
  /\ UNCHANGED <<hand, pass>>

\* The handler is done: one report, whatever becomes of it.
BeginReport(w, kind) ==
  /\ hand[w] # 0
  /\ Begin(<<w, "main">>, kind, hand[w])
  /\ hand' = [hand EXCEPT ![w] = 0]
  /\ UNCHANGED pass

BeginHeartbeat(w) ==
  /\ hand[w] # 0
  /\ Logged("heartbeat", hand[w]) < MaxBeats
  /\ Begin(<<w, "beat">>, "heartbeat", hand[w])
  /\ UNCHANGED <<hand, pass>>

BeginExpire(s) ==
  /\ pass[s].pc = "expire"
  /\ Begin(s, "expire", 0)
  /\ UNCHANGED <<hand, pass>>

BeginPromote(s) ==
  /\ pass[s].pc = "promote"
  /\ Begin(s, "promote", 0)
  /\ UNCHANGED <<hand, pass>>

\* Variant of SelectStale without the condition on lease_expires.
SelectStaleAtAnyTime(s) ==
  /\ pass[s].pc = "idle"
  /\ \/ /\ row.status = "running" /\ HasLease
        /\ pass' = [pass EXCEPT ![s] = [pc |-> "expire", seen |-> row.attempts]]
     \/ pass' = [pass EXCEPT ![s] = [pc |-> "listed", seen |-> 0]]
  /\ UNCHANGED <<clock, row, lease, retry_at, log, tx, hand>>

\* The two SELECTs of RunSchedulerPass, outside of any transaction.  The row may be
\* missed although it is there: a read that breaks off passes for its end.
SelectStale(s) ==
  /\ pass[s].pc = "idle"
  /\ \/ /\ row.status = "running" /\ HasLease /\ lease.expires < clock
        /\ pass' = [pass EXCEPT ![s] = [pc |-> "expire", seen |-> row.attempts]]
     \/ pass' = [pass EXCEPT ![s] = [pc |-> "listed", seen |-> 0]]
  /\ UNCHANGED <<clock, row, lease, retry_at, log, tx, hand>>

SelectDue(s) ==
  /\ pass[s].pc = "listed"
  /\ \/ /\ retry_at # NoRetry /\ retry_at <= clock
        /\ pass' = [pass EXCEPT ![s] = [pc |-> "promote", seen |-> 0]]
     \/ pass' = [pass EXCEPT ![s] = NoPass]
  /\ UNCHANGED <<clock, row, lease, retry_at, log, tx, hand>>

-----------------------------------------------------------------------------
(* The statements.                                                           *)

\* INSERT ... ON CONFLICT DO UPDATE of Submit, which waits for an uncommitted
\* insert of the same key and for any lock on the row it conflicts with.
InsertExecution(s) ==
  Statement(s, "insert",
    [tx[s] EXCEPT
       !.pc = "commit", !.locks = {"execution"},
       !.row = IF row.status = "absent" THEN [row EXCEPT !.status = "ready"] ELSE row,
       !.types = IF row.status = "absent" THEN <<"submitted", "ready">> ELSE <<"duplicate_detected">>])

\* Variant of Claimable without FOR UPDATE.
ClaimableUnlocked(s) == row.status = "ready"

\* The row is ready and FOR UPDATE conflicts with no lock on it.
Claimable(s) == row.status = "ready" /\ (Holders("execution") \cup Holders("share")) \ {s} = {}

\* SELECT ... FOR UPDATE SKIP LOCKED and the UPDATE around it.
SelectReady(s) ==
  /\ Claimable(s)
  /\ Statement(s, "select",
       [tx[s] EXCEPT !.pc = "number", !.locks = {"execution"},
                     !.row = [row EXCEPT !.status = "running", !.attempts = @ + 1]])

\* ErrNoWork: not ready, or locked and skipped.
SkipLocked(s) ==
  /\ ~Claimable(s)
  /\ Statement(s, "select", NoTx)

\* Variant of NumberToken that numbers claims by the lease row.
NumberTokenByLease(s) ==
  Statement(s, "number", [tx[s] EXCEPT !.pc = "upsert", !.token = lease.fencing_token + 1])

\* SELECT COALESCE(MAX(fencing_token), 0) + 1, under the lock of the claim.  Beyond
\* a BIGINT it is an error: the transaction can only be aborted.
NumberToken(s) ==
  /\ NextToken <= MaxToken
  /\ Statement(s, "number", [tx[s] EXCEPT !.pc = "upsert", !.token = NextToken])

UpsertLease(s) ==
  Statement(s, "upsert",
    [tx[s] EXCEPT !.pc = "commit", !.locks = @ \cup {"lease"}, !.types = <<"claimed">>,
       !.lease = [worker_id |-> WorkerOf(s), fencing_token |-> tx[s].token,
                  expires |-> tx[s].now + LeaseSeconds]])

\* The UPDATE of Complete or Fail takes its snapshot.  EXISTS is decided here: a
\* row whose lock has to be waited for is read again, the sub-select is not.
CheckLease(s) ==
  Statement(s, "check",
    IF OwnsLease(tx[s])
    THEN [tx[s] EXCEPT !.pc = "write"]
    ELSE [tx[s] EXCEPT !.pc = "event", !.types = <<"stale_rejected">>])

\* The same UPDATE reaches the row: it writes on the newest committed version.
WriteCompleted(s) ==
  /\ tx[s].kind = "complete"
  /\ Statement(s, "write",
       [tx[s] EXCEPT !.pc = "delete", !.locks = {"execution"}, !.types = <<"completed">>,
          !.row = [row EXCEPT !.status = "completed", !.result = tx[s].token, !.error = "none"]])

Terminal == row.attempts >= MaxAttempts

\* Variant of WriteFailed without the row of retry_schedule.
WriteFailedForgetsRetry(s) ==
  /\ tx[s].kind = "fail"
  /\ Statement(s, "write",
       [tx[s] EXCEPT
          !.pc = "delete", !.locks = {"execution"},
          !.types = IF Terminal THEN <<"failed">> ELSE <<"retry_scheduled">>,
          !.row = [row EXCEPT !.status = IF Terminal THEN "failed" ELSE "pending", !.error = "handler"]])

\* With attempts left, the retry_schedule row is upserted under the same lock.
WriteFailed(s) ==
  /\ tx[s].kind = "fail"
  /\ Statement(s, "write",
       [tx[s] EXCEPT
          !.pc = "delete",
          !.locks = IF Terminal THEN {"execution"} ELSE {"execution", "retry"},
          !.types = IF Terminal THEN <<"failed">> ELSE <<"retry_scheduled">>,
          !.row = [row EXCEPT !.status = IF Terminal THEN "failed" ELSE "pending", !.error = "handler"],
          !.retry = IF Terminal THEN NoRetry ELSE tx[s].now + Backoff(row.attempts)])

\* INSERT INTO execution_events by a session that has no lock on the execution:
\* the first statement of expireLease, the last of Heartbeat and of a rejection.
InsertEvent(s) ==
  Statement(s, "event",
    [tx[s] EXCEPT !.pc = IF tx[s].kind = "expire" THEN "delete" ELSE "commit",
                  !.locks = @ \cup {"share"}])

\* Variant of DeleteLease that leaves the lease of another token alone.
DeleteLeaseOfToken(s) ==
  Statement(s, "delete",
    [tx[s] EXCEPT !.pc = IF tx[s].kind = "expire" THEN "release" ELSE "commit",
                  !.locks = IF HasLease /\ (tx[s].kind = "expire" \/ lease.fencing_token = tx[s].token)
                            THEN @ \cup {"lease"} ELSE @])

\* DELETE FROM execution_leases of Complete, Fail and expireLease.  No claim can
\* put a new row there meanwhile: it is kept out by "execution" or "share".
DeleteLease(s) ==
  Statement(s, "delete",
    [tx[s] EXCEPT !.pc = IF tx[s].kind = "expire" THEN "release" ELSE "commit",
                  !.locks = IF HasLease THEN @ \cup {"lease"} ELSE @])

\* Variant of UpdateLease that takes whatever lease is live.
UpdateLeaseAnyToken(s) ==
  /\ HasLease /\ lease.expires > tx[s].now
  /\ Statement(s, "beat",
       [tx[s] EXCEPT !.pc = "event", !.locks = {"lease"}, !.types = <<"heartbeat">>,
                     !.lease = [lease EXCEPT !.fencing_token = tx[s].token, !.expires = tx[s].now + LeaseSeconds]])

\* The UPDATE of Heartbeat, which evaluates its WHERE on the newest version.
UpdateLease(s) ==
  /\ OwnsLease(tx[s])
  /\ Statement(s, "beat",
       [tx[s] EXCEPT !.pc = "event", !.locks = {"lease"}, !.types = <<"heartbeat">>,
                     !.lease = [lease EXCEPT !.expires = tx[s].now + LeaseSeconds]])

\* ErrStale from Heartbeat: rolled back.
RejectHeartbeat(s) ==
  /\ ~OwnsLease(tx[s])
  /\ Statement(s, "beat", NoTx)

\* The UPDATE of expireLease, on the attempts its pass read.
ReleaseExecution(s) ==
  Statement(s, "release",
    [tx[s] EXCEPT
       !.pc = "commit", !.locks = @ \cup {"execution"},
       !.row = IF pass[s].seen >= MaxAttempts
               THEN [row EXCEPT !.status = "failed", !.error = "lease"]
               ELSE [row EXCEPT !.status = "ready"],
       !.types = IF pass[s].seen >= MaxAttempts THEN <<"lease_expired", "failed">> ELSE <<"lease_expired">>])

\* promoteRetry: the UPDATE waits, the DELETE follows under its lock.
PromoteExecution(s) ==
  Statement(s, "promote",
    [tx[s] EXCEPT !.pc = "commit", !.locks = {"execution", "retry"}, !.types = <<"ready">>,
                  !.row = [row EXCEPT !.status = "ready"]])

\* The rows appendEvent inserted, with the token where the code passes one.
Rows(s) ==
  [i \in DOMAIN tx[s].types |->
     [event_type |-> tx[s].types[i],
      worker_id |-> IF tx[s].kind \in {"claim", "complete", "fail"} THEN WorkerOf(s) ELSE NoWorker,
      fencing_token |-> tx[s].token, at |-> tx[s].now]]

Commit(s) ==
  /\ tx[s].pc = "commit"
  /\ row' = IF "execution" \in tx[s].locks THEN tx[s].row ELSE row
  /\ lease' = IF "lease" \in tx[s].locks THEN tx[s].lease ELSE lease
  /\ retry_at' = IF "retry" \in tx[s].locks THEN tx[s].retry ELSE retry_at
  /\ log' = log \o Rows(s)
  /\ hand' = IF tx[s].kind = "claim" THEN [hand EXCEPT ![s[1]] = tx[s].token] ELSE hand
  /\ pass' = IF s \in Schedulers
             THEN [pass EXCEPT ![s] = IF tx[s].kind = "expire" THEN [pc |-> "listed", seen |-> 0] ELSE NoPass]
             ELSE pass
  /\ tx' = [tx EXCEPT ![s] = NoTx]
  /\ UNCHANGED clock

\* ROLLBACK after an error: the caller logs it and gives the claim or pass up.
Rollback(s) ==
  /\ tx' = [tx EXCEPT ![s] = NoTx]
  /\ pass' = IF s \in Schedulers THEN [pass EXCEPT ![s] = NoPass] ELSE pass
  /\ UNCHANGED <<clock, row, lease, retry_at, log, hand>>

\* The connection breaks, a statement fails, the process dies.
Abort(s) == tx[s] # NoTx /\ Rollback(s)

\* PostgreSQL ends a mutual wait by an error in one of the two sessions.
DeadlockVictim(s) ==
  /\ \E r \in Blockers(s) : s \in Blockers(r)
  /\ Rollback(s)

\* A worker loses its claim: a crash, or the reply of the claim was lost.
Forget(w) ==
  /\ hand[w] # 0
  /\ hand' = [hand EXCEPT ![w] = 0]
  /\ UNCHANGED <<clock, row, lease, retry_at, log, tx, pass>>

\* No transaction is older than MaxTxDelay when the clock moves on, and none is
\* open where they are not late.
Tick ==
  /\ clock < MaxClock
  /\ \A s \in Sessions : tx[s] # NoTx => mode = "late" /\ clock - tx[s].now < MaxTxDelay
  /\ clock' = clock + 1
  /\ UNCHANGED <<row, lease, retry_at, log, tx, hand, pass>>

-----------------------------------------------------------------------------
Init ==
  /\ mode \in {"orderly", "late", "forced"}
  /\ clock = 0
  /\ row = NoRow
  /\ lease = NoLease
  /\ retry_at = NoRetry
  /\ log = <<>>
  /\ tx = [s \in Sessions |-> NoTx]
  /\ hand = [w \in Workers |-> 0]
  /\ pass = [s \in Schedulers |-> NoPass]

\* The next statement of an open transaction.
Proceed(s) ==
  \/ InsertExecution(s)
  \/ SelectReady(s) \/ SkipLocked(s) \/ NumberToken(s) \/ UpsertLease(s)
  \/ CheckLease(s) \/ WriteCompleted(s) \/ WriteFailed(s) \/ InsertEvent(s) \/ DeleteLease(s)
  \/ UpdateLease(s) \/ RejectHeartbeat(s)
  \/ ReleaseExecution(s) \/ PromoteExecution(s)
  \/ Commit(s)

BeginSome ==
  \/ \E c \in Clients : BeginSubmit(c) \/ \E token \in ForcedTokens : BeginForced(c, token)
  \/ \E w \in Workers :
       \/ BeginClaim(w) \/ BeginHeartbeat(w)
       \/ \E kind \in {"complete", "fail"} : BeginReport(w, kind)
  \/ \E s \in Schedulers : BeginExpire(s) \/ BeginPromote(s)

Step ==
  \/ BeginSome
  \/ \E s \in Sessions : Proceed(s) \/ Abort(s) \/ DeadlockVictim(s)
  \/ \E s \in Schedulers : SelectStale(s) \/ SelectDue(s)
  \/ \E w \in Workers : Forget(w)
  \/ Tick

Next == Step /\ UNCHANGED mode

Spec == Init /\ [][Next]_vars

-----------------------------------------------------------------------------
(* Properties of any mix of delayed transactions.                            *)

Types == {"submitted", "ready", "claimed", "heartbeat", "completed", "failed",
          "lease_expired", "stale_rejected", "retry_scheduled", "duplicate_detected"}

LeaseRow == [worker_id : Workers \cup {NoWorker}, fencing_token : Nat, expires : Nat]
Row == [status : {"absent", "pending", "ready", "running", "completed", "failed"},
        attempts : Nat, result : Nat, error : {"none", "handler", "lease"}]

\* What sessions and tables hold has the type its column or variable allows, and
\* an exclusive row lock has one holder.
StatementsTypeOK ==
  /\ mode \in {"orderly", "late", "forced"} /\ clock \in 0..MaxClock
  /\ row \in Row /\ lease \in LeaseRow /\ retry_at \in Nat \cup {NoRetry}
  /\ log \in Seq([event_type : Types, worker_id : Workers \cup {NoWorker}, fencing_token : Nat, at : Nat])
  /\ \A s \in Sessions :
       /\ tx[s].kind \in Kinds \cup {"none"}
       /\ tx[s].locks \subseteq {"share", "execution", "lease", "retry"}
       /\ tx[s].row \in Row /\ tx[s].lease \in LeaseRow /\ tx[s].retry \in Nat \cup {NoRetry}
  /\ hand \in [Workers -> Nat]
  /\ pass \in [Schedulers -> [pc : {"idle", "expire", "listed", "promote"}, seen : Nat]]
  /\ \A l \in {"execution", "lease", "retry"} : Cardinality(Holders(l)) <= 1

Claims == {i \in DOMAIN log : log[i].event_type = "claimed"}

\* Two claims of one execution never get the same token and later ones get
\* higher ones: MAX is read under the claim's row lock, so a claim that is not
\* committed yet cannot be missed by another one.
TokensIncrease ==
  \A i, j \in Claims : i < j => log[i].fencing_token < log[j].fencing_token

\* The lease row belongs to the newest claim, whatever heartbeats and deletes
\* waited for its lock.
LeaseOfNewestClaim ==
  HasLease => \A i \in Claims : log[i].fencing_token <= lease.fencing_token

\* The reaper can find every running execution by its lease and the promoter
\* every pending one by its retry row, at every moment between two commits.
NeverStranded ==
  /\ row.status = "running" => HasLease
  /\ row.status = "pending" => retry_at # NoRetry

\* Sessions wait for each other in a circle in two ways only: expireLease locks
\* the lease before the execution and a report of the same lease the other way
\* round; and a claim of an execution that was made ready under a live lease
\* meets the heartbeat of that lease.
CyclesAreKnown ==
  \A D \in SUBSET {s \in Sessions : Blockers(s) # {}} : Stuck(D) =>
    \E e, r \in D :
      /\ e \in Blockers(r) /\ r \in Blockers(e)
      /\ \/ tx[e].kind = "expire" /\ tx[r].kind \in {"complete", "fail"}
         \/ tx[e].kind = "heartbeat" /\ tx[r].kind = "claim" /\ HasLease

-----------------------------------------------------------------------------
(* Properties of orderly behaviours with one scheduler.                       *)

\* Where no transaction is open across a tick, none waits for one that waits for it.
NoWaitCycle == mode # "late" => \A D \in SUBSET {s \in Sessions : Blockers(s) # {}} : ~Stuck(D)

TheCall == {"call"}

\* The transactions of Complete and Fail that have their snapshot, as Reports has them.
OpenReports ==
  {[kind |-> tx[s].kind, key |-> "call", token |-> tx[s].token, worker_id |-> WorkerOf(s),
    owns |-> tx[s].types # <<"stale_rejected">>, age |-> clock - tx[s].now] :
     s \in {r \in Sessions : tx[r].kind \in {"complete", "fail"} /\ tx[r].pc # "check"}}

\* The tables as DurableStore has them: times relative to the clock.
Atomic == INSTANCE Reports WITH
  open <- OpenReports,
  Keys <- TheCall,
  MaxAttempts <- [k \in TheCall |-> MaxAttempts],
  LeaseSeconds <- [w \in Workers |-> LeaseSeconds],
  status <- [k \in TheCall |-> row.status],
  attempts <- [k \in TheCall |-> row.attempts],
  result <- [k \in TheCall |-> row.result],
  error_message <- [k \in TheCall |-> row.error],
  lease <- [k \in TheCall |->
              [worker_id |-> lease.worker_id, fencing_token |-> lease.fencing_token,
               expires_in |-> IF HasLease THEN Max({lease.expires - clock, -(MaxTxDelay + 1)}) ELSE 0]],
  retry_in <- [k \in TheCall |-> IF retry_at = NoRetry THEN NoRetry ELSE Max({retry_at - clock, 0})],
  events <- [k \in TheCall |->
               [i \in DOMAIN log |-> [event_type |-> log[i].event_type, worker_id |-> log[i].worker_id,
                                      fencing_token |-> log[i].fencing_token]]]

\* One transaction in one step, the reaper's and the promoter's with the
\* condition of their SELECT still true when they act.
AtomicStep(k) ==
  \/ Atomic!SubmitNew(k) \/ Atomic!SubmitDuplicate(k)
  \/ \E w \in Workers :
       \/ Atomic!Claim(k, w, 0)
       \/ \E token \in 1..lease.fencing_token : Atomic!HeartbeatAccepted(k, token, w, 0)
  \/ \E w \in Workers \cup {NoWorker}, token \in {log[i].fencing_token : i \in DOMAIN log} :
       \/ /\ Atomic!LeaseLive(k, token, 0)
          /\ \/ Atomic!CompleteAccepted(k, token, w)
             \/ Atomic!FailRetries(k, token, w, 0)
             \/ Atomic!FailTerminal(k, token, w)
       \/ ~Atomic!LeaseLive(k, token, 0) /\ Atomic!ReportRejected(k, token, w)
  \/ Atomic!Expired(k) /\ Atomic!expireLease(k, row.attempts)
  \/ Atomic!Due(k) /\ row.status = "pending" /\ Atomic!promoteRetry(k)

\* The interleaved statements of many sessions do what DurableStore does with
\* one transaction at a time: waiting, skipped rows, re-read rows and rollbacks
\* leave no other trace in the tables.
ImplementsTransactions ==
  Atomic!StoreInit /\ [][mode = "orderly" => Atomic!Tick \/ \E k \in TheCall : AtomicStep(k)]_(Atomic!storeVars)

\* A transaction of DurableStore at its commit, up to MaxTxDelay ticks after its BEGIN.
CommitOther(k) ==
  \/ Atomic!SubmitNew(k) \/ Atomic!SubmitDuplicate(k)
  \/ \E w \in Workers, age \in 0..MaxTxDelay :
       \/ Atomic!Claim(k, w, age)
       \/ \E token \in 1..lease.fencing_token : Atomic!HeartbeatAccepted(k, token, w, age)
  \/ \E seen \in 0..MaxAttempts : Atomic!expireLease(k, seen)
  \/ Atomic!promoteRetry(k)

\* The grain of DurableStore and Reports is fine enough, in every mode: whatever the
\* statements of late and posted transactions do to each other, each transaction acts
\* as if at its commit, and a report as if at its snapshot and at its commit.
ImplementsReports ==
  /\ Atomic!StoreInit /\ Atomic!ReportsInit
  /\ [][\/ clock' # clock /\ Atomic!TimePasses
        \/ /\ OpenReports' # OpenReports /\ log' = log
           /\ \E s \in Sessions :
                \/ Atomic!BeginReport(tx[s].kind, "call", tx[s].token, WorkerOf(s), clock - tx[s].now)
                \/ Atomic!RollBackReports(WorkerOf(s)) /\ UNCHANGED Atomic!storeVars
        \/ /\ log' # log
           /\ \/ \E r \in OpenReports : Atomic!CommitReport(r)
              \/ OpenReports' = OpenReports /\ \E k \in TheCall : CommitOther(k)
       ]_<<Atomic!storeVars, OpenReports>>

-----------------------------------------------------------------------------
(* What the repository says, and the statements do not do.                   *)

\* README, guarantee 4: a stale executor resuming after lease expiry is rejected.
SupersededRejected ==
  \A i \in Claims, j \in DOMAIN log :
    (i < j /\ log[j].event_type \in {"completed", "failed", "retry_scheduled"} /\ log[j].fencing_token # 0)
      => log[j].fencing_token >= log[i].fencing_token
=============================================================================
