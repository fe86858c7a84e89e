---------------------------- MODULE DurableStore ----------------------------
(***************************************************************************)
(* The PostgreSQL repository of DurableMCP: the tables of                  *)
(* migrations/001_init.sql and the transactions of internal/store/ops.go.  *)
(*                                                                         *)
(* One execution row exists per idempotency tuple (namespace, tool_name,   *)
(* idempotency_key), by the table's UNIQUE constraint, so the tuple names  *)
(* the execution: both are a member of Keys.                               *)
(*                                                                         *)
(* A transaction is one step here, but for Complete and Fail: their        *)
(* LeaseLive is read in one step and what they then write, or log, is      *)
(* another (see Reports).  Time is relative: a lease row carries           *)
(* expires_in = lease_expires - now and a retry row carries                *)
(* retry_in = retry_at - now, and Tick counts both down.  PostgreSQL's     *)
(* now() is the time of BEGIN, which may lie up to MaxTxDelay ticks before *)
(* the statement that uses it; "age" is that delay, so a column compared   *)
(* with now() is compared as (relative value + age).                       *)
(*                                                                         *)
(* A result is identified by the fencing token it was stored under: two    *)
(* attempts of one call produce different payloads (timestamps, bodies).   *)
(***************************************************************************)
EXTENDS Integers, Sequences, FiniteSetsExt

CONSTANTS
  Keys,          \* idempotency tuples, each naming one execution
  Workers,       \* executor identities (WORKER_ID)
  NoWorker,      \* the NULL worker_id of an event or a missing lease
  MaxAttempts,   \* tools.max_attempts of the tool each key calls
  LeaseSeconds,  \* the lease length each worker claims with, in ticks
  MaxToken,      \* the largest BIGINT, 2^63 - 1
  MaxTxDelay     \* most ticks between BEGIN and a later statement

ASSUME StoreAssumption ==
  /\ NoWorker \notin Workers
  /\ MaxAttempts \in [Keys -> Nat \ {0}]
  /\ LeaseSeconds \in [Workers -> Nat \ {0}]
  /\ MaxToken \in Nat
  /\ MaxTxDelay \in Nat

VARIABLES
  status,         \* executions.status; "absent" when there is no row
  attempts,       \* executions.attempts
  result,         \* executions.result; 0 before one is stored
  error_message,  \* executions.error_message
  lease,          \* the row of execution_leases, or NoLease
  retry_in,       \* the row of retry_schedule, or NoRetry
  events          \* the rows of execution_events, in id order

storeVars == <<status, attempts, result, error_message, lease, retry_in, events>>

Status == {"absent", "pending", "ready", "running", "completed", "failed"}

EventType == {"submitted", "ready", "claimed", "heartbeat", "completed", "failed",
              "lease_expired", "stale_rejected", "retry_scheduled", "duplicate_detected"}

Event == [event_type : EventType, worker_id : Workers \cup {NoWorker}, fencing_token : Int]

Lease == [worker_id : Workers \cup {NoWorker}, fencing_token : Int, expires_in : Int]

NoLease == [worker_id |-> NoWorker, fencing_token |-> 0, expires_in |-> 0]

NoRetry == -1

\* appendEvent: one more row at the end of k's history.  The token is 0, and never
\* read, where the code passes nil and the column is NULL.
appendEvent(log, type, worker, token) ==
  Append(log, [event_type |-> type, worker_id |-> worker, fencing_token |-> token])

HasLease(k) == lease[k].worker_id # NoWorker

StoreTypeOK ==
  /\ status \in [Keys -> Status]
  /\ attempts \in [Keys -> Nat]
  /\ result \in [Keys -> Int]
  /\ error_message \in [Keys -> {"none", "handler", "lease"}]
  /\ lease \in [Keys -> Lease]
  /\ retry_in \in [Keys -> Nat \cup {NoRetry}]
  /\ events \in [Keys -> Seq(Event)]

-----------------------------------------------------------------------------
(* What the guards of the transactions read.                               *)

\* Variant of LeaseLive without the comparison of tokens.
LeaseLiveAnyToken(k, token, age) == HasLease(k) /\ lease[k].expires_in + age > 0

\* Variant of LeaseLive without the comparison of lease_expires with now().
LeaseLiveAtAnyTime(k, token, age) == HasLease(k) /\ lease[k].fencing_token = token

\* The EXISTS sub-select of Complete and Fail, and the WHERE of Heartbeat:
\* the token owns the lease and lease_expires > now().
LeaseLive(k, token, age) ==
  /\ HasLease(k)
  /\ lease[k].fencing_token = token
  /\ lease[k].expires_in + age > 0

\* The rows that have a fencing_token: those of a claim, a heartbeat and a report.
\* The reaper's "failed" has neither a token nor a worker.
Numbered(log) ==
  {i \in DOMAIN log :
     \/ log[i].event_type \in {"claimed", "heartbeat", "completed", "retry_scheduled", "stale_rejected"}
     \/ log[i].event_type = "failed" /\ log[i].worker_id # NoWorker}

Tokens(log) == {log[i].fencing_token : i \in Numbered(log)}

\* Variant of NextToken that counts from the lease row, which expireLease deletes.
NextTokenAfterLease(k) == lease[k].fencing_token + 1

\* SELECT COALESCE(MAX(fencing_token), 0) + 1 FROM execution_events.
NextToken(k) == 1 + IF Tokens(events[k]) = {} THEN 0 ELSE Max(Tokens(events[k]))

\* time.Duration(1<<uint(attempts)) * time.Second, in ticks.
Backoff(n) == 2^n

\* No backoff is zero: a fact about powers, and about the width of the shift.
ASSUME BackoffAssumption == \A k \in Keys : \A n \in 0..MaxAttempts[k] : Backoff(n) > 0

\* retry_at is only ever compared with retry_at <= now(): all due values are 0.
DueIn(n) == IF n < 0 THEN 0 ELSE n

\* Variant of Expired without the condition on lease_expires.
ExpiredAtAnyTime(k) == status[k] = "running" /\ HasLease(k)

\* The reaper's SELECT: running with lease_expires < now().
Expired(k) == status[k] = "running" /\ HasLease(k) /\ lease[k].expires_in < 0

\* Variant of Due without the condition on retry_at.
DueAtAnyTime(k) == retry_in[k] # NoRetry

\* The promoter's SELECT: retry_at <= now().
Due(k) == retry_in[k] = 0

-----------------------------------------------------------------------------
(* The transactions of ops.go.                                             *)

StoreInit ==
  /\ status = [k \in Keys |-> "absent"]
  /\ attempts = [k \in Keys |-> 0]
  /\ result = [k \in Keys |-> 0]
  /\ error_message = [k \in Keys |-> "none"]
  /\ lease = [k \in Keys |-> NoLease]
  /\ retry_in = [k \in Keys |-> NoRetry]
  /\ events = [k \in Keys |-> <<>>]

\* Submit that inserts the row: submitted, then ready, in one transaction.
SubmitNew(k) ==
  /\ status[k] = "absent"
  /\ status' = [status EXCEPT ![k] = "ready"]
  /\ events' = [events EXCEPT ![k] =
                  appendEvent(appendEvent(@, "submitted", NoWorker, 0), "ready", NoWorker, 0)]
  /\ UNCHANGED <<attempts, result, error_message, lease, retry_in>>

\* Submit that meets the UNIQUE constraint (xmax # 0).
SubmitDuplicate(k) ==
  /\ status[k] # "absent"
  /\ events' = [events EXCEPT ![k] = appendEvent(@, "duplicate_detected", NoWorker, 0)]
  /\ UNCHANGED <<status, attempts, result, error_message, lease, retry_in>>

\* Claim.  The SELECT takes the oldest ready row that no other transaction has
\* locked (FOR UPDATE SKIP LOCKED); a concurrent claim or duplicate submission
\* may hold any older row, so every ready row can be the one it gets.  A MAX + 1
\* beyond a BIGINT is an error and the claim is rolled back.
Claim(k, w, age) ==
  /\ status[k] = "ready"
  /\ NextToken(k) <= MaxToken
  /\ status' = [status EXCEPT ![k] = "running"]
  /\ attempts' = [attempts EXCEPT ![k] = @ + 1]
  /\ lease' = [lease EXCEPT ![k] =
                 [worker_id |-> w, fencing_token |-> NextToken(k),
                  expires_in |-> LeaseSeconds[w] - age]]
  /\ events' = [events EXCEPT ![k] = appendEvent(@, "claimed", w, NextToken(k))]
  /\ UNCHANGED <<result, error_message, retry_in>>

\* Variant of HeartbeatAccepted that writes its token over any live lease.
HeartbeatTakesLease(k, token, w, age) ==
  /\ LeaseLiveAnyToken(k, token, age)
  /\ lease' = [lease EXCEPT ![k].fencing_token = token, ![k].expires_in = LeaseSeconds[w] - age]
  /\ events' = [events EXCEPT ![k] = appendEvent(@, "heartbeat", NoWorker, token)]
  /\ UNCHANGED <<status, attempts, result, error_message, retry_in>>

\* The UPDATE of Heartbeat finds the lease and extends it from now().
HeartbeatAccepted(k, token, w, age) ==
  /\ LeaseLive(k, token, age)
  /\ lease' = [lease EXCEPT ![k].expires_in = LeaseSeconds[w] - age]
  /\ events' = [events EXCEPT ![k] = appendEvent(@, "heartbeat", NoWorker, token)]
  /\ UNCHANGED <<status, attempts, result, error_message, retry_in>>

\* ErrStale from Heartbeat: the transaction is rolled back and nothing is logged.
HeartbeatRejected(k, token, age) ==
  /\ ~LeaseLive(k, token, age)
  /\ UNCHANGED storeVars

\* Variant of CompleteAccepted without the DELETE of the lease.
CompleteKeepsLease(k, token, w) ==
  /\ status' = [status EXCEPT ![k] = "completed"]
  /\ result' = [result EXCEPT ![k] = token]
  /\ error_message' = [error_message EXCEPT ![k] = "none"]
  /\ events' = [events EXCEPT ![k] = appendEvent(@, "completed", w, token)]
  /\ UNCHANGED <<attempts, lease, retry_in>>

\* Complete once its UPDATE has found a live lease: the row is written and the
\* lease deleted as they are by then, whoever's it is.
CompleteAccepted(k, token, w) ==
  /\ status' = [status EXCEPT ![k] = "completed"]
  /\ result' = [result EXCEPT ![k] = token]
  /\ error_message' = [error_message EXCEPT ![k] = "none"]
  /\ events' = [events EXCEPT ![k] = appendEvent(@, "completed", w, token)]
  /\ lease' = [lease EXCEPT ![k] = NoLease]
  /\ UNCHANGED <<attempts, retry_in>>

\* The stale_rejected branch shared by Complete and Fail.
ReportRejected(k, token, w) ==
  /\ events' = [events EXCEPT ![k] = appendEvent(@, "stale_rejected", w, token)]
  /\ UNCHANGED <<status, attempts, result, error_message, lease, retry_in>>

\* Variant of FailRetries that allows one attempt too many.
FailRetriesOnce(k, token, w, age) ==
  /\ attempts[k] <= MaxAttempts[k]
  /\ status' = [status EXCEPT ![k] = "pending"]
  /\ error_message' = [error_message EXCEPT ![k] = "handler"]
  /\ lease' = [lease EXCEPT ![k] = NoLease]
  /\ retry_in' = [retry_in EXCEPT ![k] = DueIn(Backoff(attempts[k]) - age)]
  /\ events' = [events EXCEPT ![k] = appendEvent(@, "retry_scheduled", w, token)]
  /\ UNCHANGED <<attempts, result>>

\* Variant of FailRetries without the row of retry_schedule.
FailRetriesForgetsRow(k, token, w, age) ==
  /\ attempts[k] < MaxAttempts[k]
  /\ status' = [status EXCEPT ![k] = "pending"]
  /\ error_message' = [error_message EXCEPT ![k] = "handler"]
  /\ lease' = [lease EXCEPT ![k] = NoLease]
  /\ events' = [events EXCEPT ![k] = appendEvent(@, "retry_scheduled", w, token)]
  /\ UNCHANGED <<attempts, result, retry_in>>

\* Variant of FailRetries that starts counting afresh.
FailRetriesAfresh(k, token, w, age) ==
  /\ attempts[k] < MaxAttempts[k]
  /\ status' = [status EXCEPT ![k] = "pending"]
  /\ attempts' = [attempts EXCEPT ![k] = 0]
  /\ error_message' = [error_message EXCEPT ![k] = "handler"]
  /\ lease' = [lease EXCEPT ![k] = NoLease]
  /\ retry_in' = [retry_in EXCEPT ![k] = DueIn(Backoff(attempts[k]) - age)]
  /\ events' = [events EXCEPT ![k] = appendEvent(@, "retry_scheduled", w, token)]
  /\ UNCHANGED result

\* Fail once its UPDATE has found a live lease, with attempts left in the row it
\* then writes: back to pending, with a row in retry_schedule.
FailRetries(k, token, w, age) ==
  /\ attempts[k] < MaxAttempts[k]
  /\ status' = [status EXCEPT ![k] = "pending"]
  /\ error_message' = [error_message EXCEPT ![k] = "handler"]
  /\ lease' = [lease EXCEPT ![k] = NoLease]
  /\ retry_in' = [retry_in EXCEPT ![k] = DueIn(Backoff(attempts[k]) - age)]
  /\ events' = [events EXCEPT ![k] = appendEvent(@, "retry_scheduled", w, token)]
  /\ UNCHANGED <<attempts, result>>

\* Variant of FailTerminal in which SQL says pending and Go terminal.
FailTerminalLeavesPending(k, token, w) ==
  /\ attempts[k] >= MaxAttempts[k]
  /\ status' = [status EXCEPT ![k] = "pending"]
  /\ error_message' = [error_message EXCEPT ![k] = "handler"]
  /\ lease' = [lease EXCEPT ![k] = NoLease]
  /\ events' = [events EXCEPT ![k] = appendEvent(@, "failed", w, token)]
  /\ UNCHANGED <<attempts, result, retry_in>>

\* Fail of the last attempt.
FailTerminal(k, token, w) ==
  /\ attempts[k] >= MaxAttempts[k]
  /\ status' = [status EXCEPT ![k] = "failed"]
  /\ error_message' = [error_message EXCEPT ![k] = "handler"]
  /\ lease' = [lease EXCEPT ![k] = NoLease]
  /\ events' = [events EXCEPT ![k] = appendEvent(@, "failed", w, token)]
  /\ UNCHANGED <<attempts, result, retry_in>>

\* expireLease while attempts were left.  "seen" is the attempts column as the
\* pass read it before this transaction: neither the status, nor the lease, nor
\* the attempts are read again.
ExpireToReady(k, seen) ==
  /\ seen < MaxAttempts[k]
  /\ status' = [status EXCEPT ![k] = "ready"]
  /\ lease' = [lease EXCEPT ![k] = NoLease]
  /\ events' = [events EXCEPT ![k] = appendEvent(@, "lease_expired", NoWorker, 0)]
  /\ UNCHANGED <<attempts, result, error_message, retry_in>>

\* expireLease of the last attempt.
ExpireToFailed(k, seen) ==
  /\ seen >= MaxAttempts[k]
  /\ status' = [status EXCEPT ![k] = "failed"]
  /\ error_message' = [error_message EXCEPT ![k] = "lease"]
  /\ lease' = [lease EXCEPT ![k] = NoLease]
  /\ events' = [events EXCEPT ![k] =
                  appendEvent(appendEvent(@, "lease_expired", NoWorker, 0), "failed", NoWorker, 0)]
  /\ UNCHANGED <<attempts, result, retry_in>>

expireLease(k, seen) == ExpireToReady(k, seen) \/ ExpireToFailed(k, seen)

\* Variant of promoteRetry without the DELETE of the retry.
PromoteKeepsRow(k) ==
  /\ status' = [status EXCEPT ![k] = "ready"]
  /\ events' = [events EXCEPT ![k] = appendEvent(@, "ready", NoWorker, 0)]
  /\ UNCHANGED <<attempts, result, error_message, lease, retry_in>>

\* promoteRetry: unconditional on the status it finds.
promoteRetry(k) ==
  /\ status' = [status EXCEPT ![k] = "ready"]
  /\ retry_in' = [retry_in EXCEPT ![k] = NoRetry]
  /\ events' = [events EXCEPT ![k] = appendEvent(@, "ready", NoWorker, 0)]
  /\ UNCHANGED <<attempts, result, error_message, lease>>

\* One tick of the database clock.  Below -(MaxTxDelay + 1) a lease is expired
\* for every transaction that can be open, so the count stops there.
Tick ==
  /\ lease' = [k \in Keys |->
                 IF HasLease(k) /\ lease[k].expires_in >= -MaxTxDelay
                 THEN [lease[k] EXCEPT !.expires_in = @ - 1]
                 ELSE lease[k]]
  /\ retry_in' = [k \in Keys |-> IF retry_in[k] > 0 THEN retry_in[k] - 1 ELSE retry_in[k]]
  /\ UNCHANGED <<status, attempts, result, error_message, events>>

-----------------------------------------------------------------------------
(* What every transaction preserves for the execution k it touches.          *)

ClaimEvents(log) == {i \in DOMAIN log : log[i].event_type = "claimed"}

Claims(log) == Cardinality(ClaimEvents(log))

CompletedIn(log) == \E i \in DOMAIN log : log[i].event_type = "completed"

\* The events that only the holder of a lease writes: Claim, Heartbeat,
\* Complete and Fail when they are accepted.
HolderEvents(log) == {i \in Numbered(log) : log[i].event_type # "stale_rejected"}

\* No claim in the history has a higher token than this one.
Newest(log, token) == \A i \in ClaimEvents(log) : log[i].fencing_token <= token

\* After a claim only its own or higher tokens write, and claims only go up.
Fenced(log) ==
  \A i \in ClaimEvents(log), j \in HolderEvents(log) :
    i < j =>
      /\ log[j].fencing_token >= log[i].fencing_token
      /\ log[j].event_type = "claimed" => log[j].fencing_token # log[i].fencing_token

HasMax(S) == S # {} => \E m \in S : \A n \in S : n <= m

\* In every deployment.
KeyInv(k) ==
  /\ HasMax(Tokens(events[k]))
  /\ HasLease(k) => Newest(events[k], lease[k].fencing_token)
  /\ status[k] = "running" => HasLease(k)
  /\ status[k] = "pending" => retry_in[k] # NoRetry

\* Where no report is open across a tick.
FencedInv(k) ==
  /\ Fenced(events[k])
  /\ status[k] = "completed" => Newest(events[k], result[k])
=============================================================================
