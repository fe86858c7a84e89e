-------------------------- MODULE StatementsProofs --------------------------
(***************************************************************************)
(* The interleaved statements of any number of sessions, proved.           *)
(*                                                                         *)
(* 1. In every deployment, with any delays and posted tokens, row locks    *)
(*    keep tokens growing, the lease with the newest claim and nothing     *)
(*    stranded, and sessions wait for each other in a circle in the two    *)
(*    known ways only: StatementsInv.                                      *)
(* 2. With one scheduler and no transaction open across a tick, nobody     *)
(*    waits in a circle: PunctualInv.                                      *)
(* 3. Where besides only workers report, what a session finds out early is *)
(*    still true when it commits: OrderlyInv.  So every commit is one      *)
(*    transaction of DurableStore.                                         *)
(***************************************************************************)
EXTENDS StoreStatements, FiniteSetTheorems, SequenceTheorems, TLAPS

Pcs == {"none", "insert", "select", "number", "upsert", "check", "write", "event", "delete",
        "beat", "release", "promote", "commit"}

Tx == [kind : Kinds \cup {"none"}, pc : Pcs, now : Nat, token : Nat,
       locks : SUBSET {"share", "execution", "lease", "retry"},
       row : Row, lease : LeaseRow, retry : Nat \cup {NoRetry}, types : Seq(Types)]

EventRow == [event_type : Types, worker_id : Workers \cup {NoWorker}, fencing_token : Nat, at : Nat]

\* No claim in the history has this token or a higher one.
Exceeds(n) == \A i \in Claims : log[i].fencing_token < n

-----------------------------------------------------------------------------
(* What an open transaction has locked, and how its uncommitted versions     *)
(* follow from the committed ones as long as it has them locked.             *)

SubmitFits(t) ==
  \/ t.pc = "insert" /\ t.locks = {}
  \/ /\ t.pc = "commit" /\ t.locks = {"execution"}
     /\ \/ /\ row.status = "absent" /\ t.row = [row EXCEPT !.status = "ready"]
           /\ t.types = <<"submitted", "ready">>
        \/ /\ row.status # "absent" /\ t.row = row
           /\ t.types = <<"duplicate_detected">>

ClaimFits(s, t) ==
  /\ s \in Workers \X {"main"}
  /\ \/ t.pc = "select" /\ t.locks = {}
     \/ /\ t.pc \in {"number", "upsert", "commit"}
        /\ row.status = "ready"
        /\ t.row = [row EXCEPT !.status = "running", !.attempts = @ + 1]
        /\ t.locks = IF t.pc = "commit" THEN {"execution", "lease"} ELSE {"execution"}
        /\ t.pc # "number" => Exceeds(t.token)
        /\ t.pc = "commit" =>
             /\ t.types = <<"claimed">>
             /\ t.lease = [worker_id |-> s[1], fencing_token |-> t.token,
                           expires |-> t.now + LeaseSeconds]

\* The uncommitted version of a report that found its lease.
Reported(t) ==
  \/ /\ t.kind = "complete" /\ t.types = <<"completed">> /\ "retry" \notin t.locks
     /\ t.row = [row EXCEPT !.status = "completed", !.result = t.token, !.error = "none"]
  \/ /\ t.kind = "fail" /\ Terminal /\ t.types = <<"failed">> /\ "retry" \notin t.locks
     /\ t.row = [row EXCEPT !.status = "failed", !.error = "handler"]
  \/ /\ t.kind = "fail" /\ ~Terminal /\ t.types = <<"retry_scheduled">> /\ "retry" \in t.locks
     /\ t.row = [row EXCEPT !.status = "pending", !.error = "handler"]
     /\ t.retry = t.now + Backoff(row.attempts)

ReportFits(t) ==
  /\ t.lease = NoLease
  /\ \/ t.pc \in {"check", "write"} /\ t.locks = {}
     \/ /\ t.types = <<"stale_rejected">>
        /\ \/ t.pc = "event" /\ t.locks = {}
           \/ t.pc = "commit" /\ t.locks = {"share"}
     \/ /\ t.pc \in {"delete", "commit"}
        /\ "execution" \in t.locks /\ "share" \notin t.locks
        /\ "lease" \in t.locks <=> t.pc = "commit" /\ HasLease
        /\ Reported(t)

HeartbeatFits(t) ==
  \/ t.pc = "beat" /\ t.locks = {}
  \/ /\ \/ t.pc = "event" /\ t.locks = {"lease"}
        \/ t.pc = "commit" /\ t.locks = {"lease", "share"}
     /\ OwnsLease(t)
     /\ t.types = <<"heartbeat">>
     /\ t.lease = [lease EXCEPT !.expires = t.now + LeaseSeconds]

ExpireFits(s, t) ==
  /\ s \in Schedulers /\ pass[s].pc = "expire"
  /\ t.lease = NoLease
  /\ \/ t.pc = "event" /\ t.locks = {}
     \/ t.pc = "delete" /\ t.locks = {"share"}
     \/ /\ t.pc = "release"
        /\ t.locks = IF HasLease THEN {"share", "lease"} ELSE {"share"}
     \/ /\ t.pc = "commit"
        /\ t.locks = IF HasLease THEN {"share", "lease", "execution"} ELSE {"share", "execution"}
        /\ \/ /\ pass[s].seen >= MaxAttempts /\ t.types = <<"lease_expired", "failed">>
              /\ t.row = [row EXCEPT !.status = "failed", !.error = "lease"]
           \/ /\ pass[s].seen < MaxAttempts /\ t.types = <<"lease_expired">>
              /\ t.row = [row EXCEPT !.status = "ready"]

PromoteFits(s, t) ==
  /\ s \in Schedulers /\ pass[s].pc = "promote"
  /\ t.retry = NoRetry
  /\ \/ t.pc = "promote" /\ t.locks = {}
     \/ /\ t.pc = "commit" /\ t.locks = {"execution", "retry"}
        /\ t.types = <<"ready">> /\ t.row = [row EXCEPT !.status = "ready"]

Fits(s, t) ==
  /\ t.kind = "none" => t = NoTx
  /\ t.kind = "submit" => SubmitFits(t)
  /\ t.kind = "claim" => ClaimFits(s, t)
  /\ t.kind \in {"complete", "fail"} => ReportFits(t)
  /\ t.kind = "heartbeat" => HeartbeatFits(t)
  /\ t.kind = "expire" => ExpireFits(s, t)
  /\ t.kind = "promote" => PromoteFits(s, t)

TypesFit ==
  /\ mode \in {"orderly", "late", "forced"} /\ clock \in 0..MaxClock
  /\ row \in Row /\ lease \in LeaseRow /\ retry_at \in Nat \cup {NoRetry}
  /\ log \in Seq(EventRow)
  /\ tx \in [Sessions -> Tx]
  /\ hand \in [Workers -> Nat]
  /\ pass \in [Schedulers -> [pc : {"idle", "expire", "listed", "promote"}, seen : Nat]]

\* A claim's FOR UPDATE excludes foreign key checks, any other lock itself.
LocksExclude ==
  \A s, r \in Sessions : s # r =>
    /\ tx[s].locks \cap tx[r].locks \subseteq {"share"}
    /\ tx[s].kind = "claim" /\ "execution" \in tx[s].locks => "share" \notin tx[r].locks

LogTokens == {0} \cup {log[i].fencing_token : i \in DOMAIN log}

\* MAX(fencing_token) exists.
TokensBounded == \E m \in LogTokens : \A n \in LogTokens : n <= m

StatementsInv ==
  /\ TypesFit
  /\ LocksExclude
  /\ \A s \in Sessions : Fits(s, tx[s])
  /\ TokensBounded
  /\ TokensIncrease /\ LeaseOfNewestClaim /\ NeverStranded

-----------------------------------------------------------------------------
(* Types.                                                                    *)

Tables == <<mode, clock, row, lease, retry_at, log>>

\* The kinds of transactions, and the statement each begins with.
LEMMA KindsAre ==
  /\ Kinds = {"submit", "claim", "complete", "fail", "heartbeat", "expire", "promote"}
  /\ First["submit"] = "insert" /\ First["claim"] = "select" /\ First["complete"] = "check"
  /\ First["fail"] = "check" /\ First["heartbeat"] = "beat" /\ First["expire"] = "event"
  /\ First["promote"] = "promote"
  BY DEF Kinds, First

\* Absent rows and no transaction have their types.
LEMMA Nulls ==
  /\ NoRow \in Row /\ NoLease \in LeaseRow /\ NoTx \in Tx
  /\ NoLease.worker_id = NoWorker /\ NoTx.locks = {} /\ NoTx.kind = "none" /\ NoTx.pc = "none"
<1>1. NoRow \in Row
  BY DEF NoRow, Row
<1>2. NoLease \in LeaseRow
  BY DEF NoLease, LeaseRow
<1>3. <<>> \in Seq(Types)
  OBVIOUS
<1>4. NoTx \in Tx
  BY <1>1, <1>2, <1>3 DEF NoTx, Tx, Pcs
<1> QED
  BY <1>1, <1>2, <1>4 DEF NoTx, NoLease

\* A row of retry_schedule is due after its transaction began.
LEMMA RetryType ==
  /\ NoRetry \notin Nat
  /\ \A n \in Nat, now \in Nat : n < MaxAttempts =>
       now + Backoff(n) \in Nat /\ now + Backoff(n) > now
<1>1. \A n \in Nat : n < MaxAttempts => Backoff(n) \in Nat \ {0}
  BY StatementsAssumption DEF Backoff
<1> QED
  BY <1>1 DEF NoRetry

\* A worker's two connections.
LEMMA MainConnection ==
  ASSUME NEW w \in Workers
  PROVE  /\ <<w, "main">> \in Sessions /\ <<w, "main">> \in Workers \X {"main"}
         /\ <<w, "beat">> \in Sessions /\ WorkerOf(<<w, "main">>) = w
  BY DEF Sessions, WorkerOf

\* The worker an event is logged under.
LEMMA WorkerOfType ==
  ASSUME NEW s
  PROVE  /\ WorkerOf(s) \in Workers \cup {NoWorker}
         /\ s \in Workers \X {"main"} => WorkerOf(s) = s[1] /\ s[1] \in Workers /\ s[1] # NoWorker
  BY StatementsAssumption DEF WorkerOf

\* Whom a statement waits for, by its place.
LEMMA BlockersAre ==
  ASSUME NEW s \in Sessions
  PROVE  /\ tx[s].pc \in {"insert", "write", "release", "promote"} =>
              Blockers(s) = Holders("execution") \ {s}
         /\ tx[s].pc = "event" =>
              Blockers(s) = {r \in Holders("execution") \ {s} : tx[r].kind = "claim"}
         /\ tx[s].pc \in {"delete", "upsert"} => Blockers(s) = Holders("lease") \ {s}
         /\ tx[s].pc = "beat" =>
              Blockers(s) = IF OwnsLease(tx[s]) THEN Holders("lease") \ {s} ELSE {}
         /\ tx[s].pc \in {"none", "select", "number", "check", "commit"} => Blockers(s) = {}
  BY DEF Blockers

\* The retry_schedule row is only locked together with the execution.
LEMMA RetryUnderExecution ==
  ASSUME StatementsInv, NEW s \in Sessions, "retry" \in tx[s].locks
  PROVE  "execution" \in tx[s].locks
<1>1. tx[s] \in Tx /\ Fits(s, tx[s])
  BY DEF StatementsInv, TypesFit
<1>2. tx[s].kind \in {"none", "submit", "claim", "complete", "fail", "heartbeat", "expire", "promote"}
  BY <1>1, KindsAre DEF Tx
<1> QED
  BY <1>1, <1>2, Nulls
  DEF Fits, SubmitFits, ClaimFits, ReportFits, HeartbeatFits, ExpireFits, PromoteFits

-----------------------------------------------------------------------------
(* A step of one session that leaves the tables alone.                       *)

\* The locks of t are compatible with those of the sessions other than s.
Compatible(s, t) ==
  \A r \in Sessions \ {s} :
    /\ t.locks \cap tx[r].locks \subseteq {"share"}
    /\ t.kind = "claim" /\ "execution" \in t.locks => "share" \notin tx[r].locks
    /\ tx[r].kind = "claim" /\ "execution" \in tx[r].locks => "share" \notin t.locks

\* A step of one session that leaves the tables alone keeps the invariant.
LEMMA SessionStep ==
  ASSUME StatementsInv, NEW s \in Sessions, NEW t \in Tx,
         tx' = [tx EXCEPT ![s] = t], UNCHANGED Tables,
         Fits(s, t)', Compatible(s, t),
         hand' \in [Workers -> Nat],
         pass' \in [Schedulers -> [pc : {"idle", "expire", "listed", "promote"}, seen : Nat]],
         \A r \in Schedulers \ {s} : pass'[r] = pass[r]
  PROVE  StatementsInv'
<1>1. TypesFit'
  BY DEF StatementsInv, TypesFit, Tables
<1>2. tx'[s] = t /\ \A r \in Sessions \ {s} : tx'[r] = tx[r]
  BY DEF StatementsInv, TypesFit
<1>3. LocksExclude'
  BY <1>2 DEF LocksExclude, Compatible, StatementsInv
<1>4. ASSUME NEW r \in Sessions \ {s}
      PROVE  Fits(r, tx[r])'
  <2>1. tx'[r] = tx[r] /\ Fits(r, tx[r]) /\ (r \in Schedulers => pass'[r] = pass[r])
    BY <1>2 DEF StatementsInv
  <2> QED
    BY <2>1
    DEF Tables, Fits, SubmitFits, ClaimFits, ReportFits, HeartbeatFits, ExpireFits, PromoteFits,
        Reported, Terminal, OwnsLease, HasLease, Exceeds, Claims
<1>5. \A r \in Sessions : Fits(r, tx[r])'
  BY <1>2, <1>4
<1>6. (TokensBounded /\ TokensIncrease /\ LeaseOfNewestClaim /\ NeverStranded)'
  BY DEF StatementsInv, Tables, TokensBounded, LogTokens, TokensIncrease, LeaseOfNewestClaim, NeverStranded,
         HasLease, Claims
<1> QED
  BY <1>1, <1>3, <1>5, <1>6 DEF StatementsInv

\* The same for a statement: what s has open now fits the tables as they are.
LEMMA StatementStep ==
  ASSUME StatementsInv, NEW s \in Sessions, NEW t \in Tx, NEW pc,
         Statement(s, pc, t), UNCHANGED mode, Fits(s, t), Compatible(s, t)
  PROVE  StatementsInv'
<1>1. tx' = [tx EXCEPT ![s] = t] /\ UNCHANGED Tables /\ UNCHANGED <<hand, pass>>
  BY DEF Statement, Tables
<1>2. Fits(s, t)'
  BY <1>1
  DEF Tables, Fits, SubmitFits, ClaimFits, ReportFits, HeartbeatFits, ExpireFits, PromoteFits,
      Reported, Terminal, OwnsLease, HasLease, Exceeds, Claims
<1> QED
  BY <1>1, <1>2, SessionStep DEF StatementsInv, TypesFit

\* Locks that s has already, or none, disturb nobody.
LEMMA NoNewLock ==
  ASSUME StatementsInv, NEW s \in Sessions, NEW t,
         t.locks = {} \/ (t.locks = tx[s].locks /\ t.kind = tx[s].kind)
  PROVE  Compatible(s, t)
  BY DEF Compatible, StatementsInv, LocksExclude

-----------------------------------------------------------------------------
(* The statements, one by one.                                               *)

\* Which transaction has its next statement at a place, and what it waited for.
LEMMA AtStatement ==
  ASSUME StatementsInv, NEW s \in Sessions, NEW pc, NEW t, Statement(s, pc, t)
  PROVE  /\ tx[s] \in Tx /\ tx[s].pc = pc /\ Fits(s, tx[s]) /\ Blockers(s) = {}
         /\ pc = "insert" => tx[s].kind = "submit"
         /\ pc \in {"select", "number", "upsert"} => tx[s].kind = "claim"
         /\ pc \in {"check", "write"} => tx[s].kind \in {"complete", "fail"}
         /\ pc = "event" => tx[s].kind \in {"complete", "fail", "heartbeat", "expire"}
         /\ pc = "delete" => tx[s].kind \in {"complete", "fail", "expire"}
         /\ pc = "beat" => tx[s].kind = "heartbeat"
         /\ pc = "release" => tx[s].kind = "expire"
         /\ pc = "promote" => tx[s].kind = "promote"
<1>1. tx[s] \in Tx /\ tx[s].pc = pc /\ Fits(s, tx[s]) /\ Blockers(s) = {}
  BY DEF StatementsInv, TypesFit, Statement
<1>2. tx[s].kind \in {"none", "submit", "claim", "complete", "fail", "heartbeat", "expire", "promote"}
  BY <1>1, KindsAre DEF Tx
<1> QED
  BY <1>1, <1>2, Nulls
  DEF Fits, SubmitFits, ClaimFits, ReportFits, HeartbeatFits, ExpireFits, PromoteFits

\* Nobody else has any lock of an update of executions when it goes on.
LEMMA ExecutionFree ==
  ASSUME StatementsInv, NEW s \in Sessions, Blockers(s) = {},
         tx[s].pc \in {"insert", "write", "release", "promote"}
  PROVE  \A r \in Sessions \ {s} : "execution" \notin tx[r].locks /\ "retry" \notin tx[r].locks
<1>1. \A r \in Sessions \ {s} : "execution" \notin tx[r].locks
  BY BlockersAre DEF Holders
<1> QED
  BY <1>1, RetryUnderExecution

\* A statement that waits for the lease's lock goes on when nobody has it.
LEMMA LeaseFree ==
  ASSUME StatementsInv, NEW s \in Sessions, Blockers(s) = {},
         tx[s].pc \in {"delete", "upsert"} \/ (tx[s].pc = "beat" /\ OwnsLease(tx[s]))
  PROVE  \A r \in Sessions \ {s} : "lease" \notin tx[r].locks
  BY BlockersAre DEF Holders

\* Every version a statement makes of the executions row is one.
LEMMA RowVersions ==
  ASSUME StatementsInv
  PROVE  /\ row \in Row /\ row.attempts \in Nat
         /\ [row EXCEPT !.status = "running", !.attempts = @ + 1] \in Row
         /\ \A n \in Nat :
              [row EXCEPT !.status = "completed", !.result = n, !.error = "none"] \in Row
         /\ \A st \in {"failed", "pending", "ready"} :
              /\ [row EXCEPT !.status = st] \in Row
              /\ \A e \in {"handler", "lease"} : [row EXCEPT !.status = st, !.error = e] \in Row
<1>1. row \in Row /\ row.attempts \in Nat
  BY DEF StatementsInv, TypesFit, Row
<1>2. \A n \in Nat : [row EXCEPT !.status = "running", !.attempts = n] \in Row
  BY <1>1 DEF Row
<1>3. [row EXCEPT !.status = "running", !.attempts = @ + 1] \in Row
  <2> DEFINE n == row.attempts + 1
  <2>1. n \in Nat
    BY <1>1
  <2> HIDE DEF n
  <2>2. [row EXCEPT !.status = "running", !.attempts = n] \in Row
    BY <1>2, <2>1
  <2> QED
    BY <2>2 DEF n
<1>4. \A n \in Nat : [row EXCEPT !.status = "completed", !.result = n, !.error = "none"] \in Row
  BY <1>1 DEF Row
<1>5. \A st \in {"failed", "pending", "ready"} :
        /\ [row EXCEPT !.status = st] \in Row
        /\ \A e \in {"handler", "lease"} : [row EXCEPT !.status = st, !.error = e] \in Row
  BY <1>1 DEF Row
<1> QED
  BY <1>1, <1>3, <1>4, <1>5

\* Every list of rows a statement adds to the history.
LEMMA EventLists ==
  /\ \A type \in Types : <<type>> \in Seq(Types)
  /\ <<"submitted", "ready">> \in Seq(Types) /\ <<"lease_expired", "failed">> \in Seq(Types)
  /\ {"ready", "claimed", "heartbeat", "completed", "failed", "lease_expired", "stale_rejected",
      "retry_scheduled", "duplicate_detected"} \subseteq Types
  BY DEF Types

\* The INSERT of Submit.
LEMMA InsertExecutionKeeps ==
  ASSUME StatementsInv, NEW s \in Sessions, InsertExecution(s), UNCHANGED mode
  PROVE  StatementsInv'
<1> DEFINE t == [tx[s] EXCEPT
       !.pc = "commit", !.locks = {"execution"},
       !.row = IF row.status = "absent" THEN [row EXCEPT !.status = "ready"] ELSE row,
       !.types = IF row.status = "absent" THEN <<"submitted", "ready">> ELSE <<"duplicate_detected">>]
<1>1. Statement(s, "insert", t)
  BY DEF InsertExecution
<1>2. tx[s] \in Tx /\ tx[s].kind = "submit" /\ Blockers(s) = {} /\ tx[s].pc = "insert"
  BY <1>1, AtStatement
<1>3. row \in Row /\ <<"submitted", "ready">> \in Seq(Types) /\ <<"duplicate_detected">> \in Seq(Types)
  BY DEF StatementsInv, TypesFit, Types
<1>4. t \in Tx
  BY <1>2, <1>3 DEF Tx, Pcs, Row
<1>5. Fits(s, t)
  BY <1>2 DEF Fits, SubmitFits, Tx
<1>6. Compatible(s, t)
  BY <1>2, ExecutionFree DEF Compatible, Tx
<1> QED
  BY <1>1, <1>4, <1>5, <1>6, StatementStep

\* The SELECT ... FOR UPDATE SKIP LOCKED of Claim that finds the row.
LEMMA SelectReadyKeeps ==
  ASSUME StatementsInv, NEW s \in Sessions, SelectReady(s), UNCHANGED mode
  PROVE  StatementsInv'
<1> DEFINE t == [tx[s] EXCEPT !.pc = "number", !.locks = {"execution"},
                     !.row = [row EXCEPT !.status = "running", !.attempts = @ + 1]]
<1>1. Statement(s, "select", t) /\ Claimable(s)
  BY DEF SelectReady
<1>2. tx[s] \in Tx /\ tx[s].kind = "claim" /\ tx[s].pc = "select" /\ Fits(s, tx[s])
  BY <1>1, AtStatement
<1>3. [row EXCEPT !.status = "running", !.attempts = @ + 1] \in Row
  BY RowVersions
<1>4. t \in Tx
  BY <1>2, <1>3 DEF Tx, Pcs
<1>5. Fits(s, t)
  BY <1>1, <1>2 DEF Fits, ClaimFits, Tx, Claimable
<1>6. \A r \in Sessions \ {s} : "execution" \notin tx[r].locks /\ "share" \notin tx[r].locks
  BY <1>1 DEF Claimable, Holders
<1>7. Compatible(s, t)
  BY <1>2, <1>6 DEF Compatible, Tx
<1> QED
  BY <1>1, <1>4, <1>5, <1>7, StatementStep

\* The history as a sequence of typed rows.
LEMMA LogTypes ==
  ASSUME StatementsInv
  PROVE  /\ Len(log) \in Nat /\ DOMAIN log = 1..Len(log)
         /\ \A i \in DOMAIN log : log[i] \in EventRow /\ log[i].fencing_token \in Nat
         /\ LogTokens \subseteq Nat
<1>1. log \in Seq(EventRow)
  BY DEF StatementsInv, TypesFit
<1>2. Len(log) \in Nat /\ DOMAIN log = 1..Len(log) /\ \A i \in DOMAIN log : log[i] \in EventRow
  BY <1>1
<1>3. \A i \in DOMAIN log : log[i].fencing_token \in Nat
  BY <1>2 DEF EventRow
<1> QED
  BY <1>2, <1>3 DEF LogTokens

\* The token is one more than a maximum that exists.
LEMMA NextTokenExceeds ==
  ASSUME StatementsInv
  PROVE  /\ NextToken \in Nat \ {0}
         /\ \A i \in DOMAIN log : log[i].fencing_token < NextToken
<1>1. PICK m \in LogTokens : \A n \in LogTokens : n <= m
  BY DEF StatementsInv, TokensBounded
<1>2. \A n \in LogTokens : n \in Nat
  BY LogTypes
<1>3. \A n \in LogTokens : m >= n
  BY <1>1, <1>2
<1>4. Max(LogTokens) \in LogTokens /\ \A n \in LogTokens : Max(LogTokens) >= n
  BY <1>3 DEF Max
<1>5. NextToken = 1 + Max(LogTokens)
  BY DEF NextToken, LogTokens
<1>6. \A i \in DOMAIN log : log[i].fencing_token \in LogTokens
  BY DEF LogTokens
<1> QED
  BY <1>2, <1>4, <1>5, <1>6

\* MAX(fencing_token) + 1, under the lock of the claim.
LEMMA NumberTokenKeeps ==
  ASSUME StatementsInv, NEW s \in Sessions, NumberToken(s), UNCHANGED mode
  PROVE  StatementsInv'
<1> DEFINE t == [tx[s] EXCEPT !.pc = "upsert", !.token = NextToken]
<1>1. Statement(s, "number", t)
  BY DEF NumberToken
<1>2. tx[s] \in Tx /\ tx[s].kind = "claim" /\ tx[s].pc = "number" /\ Fits(s, tx[s])
  BY <1>1, AtStatement
<1>3. NextToken \in Nat /\ Exceeds(NextToken)
  BY NextTokenExceeds DEF Exceeds, Claims
<1>4. t \in Tx
  BY <1>2, <1>3 DEF Tx, Pcs
<1>5. Fits(s, t)
  BY <1>2, <1>3 DEF Fits, ClaimFits, Tx
<1>6. t.locks = tx[s].locks /\ t.kind = tx[s].kind
  BY <1>2 DEF Tx
<1>7. Compatible(s, t)
  BY <1>6, NoNewLock
<1> QED
  BY <1>1, <1>4, <1>5, <1>7, StatementStep

\* The upsert of the lease.
LEMMA UpsertLeaseKeeps ==
  ASSUME StatementsInv, NEW s \in Sessions, UpsertLease(s), UNCHANGED mode
  PROVE  StatementsInv'
<1> DEFINE new == [worker_id |-> WorkerOf(s), fencing_token |-> tx[s].token,
                   expires |-> tx[s].now + LeaseSeconds]
           t == [tx[s] EXCEPT !.pc = "commit", !.locks = @ \cup {"lease"}, !.types = <<"claimed">>,
                              !.lease = new]
<1>1. Statement(s, "upsert", t)
  BY DEF UpsertLease
<1>2. tx[s] \in Tx /\ tx[s].kind = "claim" /\ tx[s].pc = "upsert" /\ Fits(s, tx[s]) /\ Blockers(s) = {}
  BY <1>1, AtStatement
<1>3. new \in LeaseRow
  BY <1>2, WorkerOfType, StatementsAssumption DEF LeaseRow, Tx
<1>4. <<"claimed">> \in Seq(Types)
  BY DEF Types
<1>5. t \in Tx
  BY <1>2, <1>3, <1>4 DEF Tx, Pcs
<1>6. tx[s].locks = {"execution"} /\ s \in Workers \X {"main"}
  BY <1>2 DEF Fits, ClaimFits
<1>7. Fits(s, t)
  BY <1>2, <1>6, WorkerOfType DEF Fits, ClaimFits, Tx
<1>8. Compatible(s, t)
  BY <1>2, <1>6, LeaseFree DEF Compatible, Tx, StatementsInv, LocksExclude
<1> QED
  BY <1>1, <1>5, <1>7, <1>8, StatementStep

\* The EXISTS of Complete and Fail.
LEMMA CheckLeaseKeeps ==
  ASSUME StatementsInv, NEW s \in Sessions, CheckLease(s), UNCHANGED mode
  PROVE  StatementsInv'
<1> DEFINE t == IF OwnsLease(tx[s]) THEN [tx[s] EXCEPT !.pc = "write"]
                ELSE [tx[s] EXCEPT !.pc = "event", !.types = <<"stale_rejected">>]
<1>1. Statement(s, "check", t)
  BY DEF CheckLease
<1>2. tx[s] \in Tx /\ tx[s].kind \in {"complete", "fail"} /\ tx[s].pc = "check" /\ Fits(s, tx[s])
  BY <1>1, AtStatement
<1>3. <<"stale_rejected">> \in Seq(Types)
  BY DEF Types
<1>4. t \in Tx
  BY <1>2, <1>3 DEF Tx, Pcs
<1>5. tx[s].locks = {} /\ t.locks = {}
  BY <1>2 DEF Fits, ReportFits, Tx
<1>6. Fits(s, t)
  BY <1>2, <1>5 DEF Fits, ReportFits, Tx
<1>7. Compatible(s, t)
  BY <1>5, NoNewLock
<1> QED
  BY <1>1, <1>4, <1>6, <1>7, StatementStep

\* The UPDATE of Complete.
LEMMA WriteCompletedKeeps ==
  ASSUME StatementsInv, NEW s \in Sessions, WriteCompleted(s), UNCHANGED mode
  PROVE  StatementsInv'
<1> DEFINE new == [row EXCEPT !.status = "completed", !.result = tx[s].token, !.error = "none"]
           t == [tx[s] EXCEPT !.pc = "delete", !.locks = {"execution"}, !.types = <<"completed">>,
                              !.row = new]
<1>1. Statement(s, "write", t) /\ tx[s].kind = "complete"
  BY DEF WriteCompleted
<1>2. tx[s] \in Tx /\ tx[s].pc = "write" /\ Fits(s, tx[s]) /\ Blockers(s) = {}
  BY <1>1, AtStatement
<1>3. <<"completed">> \in Seq(Types) /\ new \in Row
  <2>1. tx[s].token \in Nat
    BY <1>2 DEF Tx
  <2> QED
    BY <2>1, RowVersions, EventLists
<1>4. t \in Tx
  BY <1>2, <1>3 DEF Tx, Pcs
<1>5. Fits(s, t)
  BY <1>1, <1>2 DEF Fits, ReportFits, Reported, Tx
<1>6. Compatible(s, t)
  BY <1>1, <1>2, ExecutionFree DEF Compatible, Tx
<1> QED
  BY <1>1, <1>4, <1>5, <1>6, StatementStep

\* The UPDATE of Fail, and the upsert of the retry.
LEMMA WriteFailedKeeps ==
  ASSUME StatementsInv, NEW s \in Sessions, WriteFailed(s), UNCHANGED mode
  PROVE  StatementsInv'
<1> DEFINE new == [row EXCEPT !.status = IF Terminal THEN "failed" ELSE "pending", !.error = "handler"]
           due == IF Terminal THEN NoRetry ELSE tx[s].now + Backoff(row.attempts)
           t == [tx[s] EXCEPT
                  !.pc = "delete",
                  !.locks = IF Terminal THEN {"execution"} ELSE {"execution", "retry"},
                  !.types = IF Terminal THEN <<"failed">> ELSE <<"retry_scheduled">>,
                  !.row = new, !.retry = due]
<1>1. Statement(s, "write", t) /\ tx[s].kind = "fail"
  BY DEF WriteFailed
<1>2. tx[s] \in Tx /\ tx[s].pc = "write" /\ Fits(s, tx[s]) /\ Blockers(s) = {}
  BY <1>1, AtStatement
<1>3. <<"failed">> \in Seq(Types) /\ <<"retry_scheduled">> \in Seq(Types)
  BY EventLists
<1>a. new \in Row
  BY RowVersions
<1>4. due \in Nat \cup {NoRetry}
  <2>1. tx[s].now \in Nat /\ row.attempts \in Nat /\ MaxAttempts \in Nat
    BY <1>2, RowVersions, StatementsAssumption DEF Tx
  <2>2. CASE ~Terminal
    <3>1. row.attempts < MaxAttempts
      BY <2>1, <2>2 DEF Terminal
    <3> QED
      BY <2>1, <2>2, <3>1, RetryType
  <2> QED
    BY <2>2
<1>5. t \in Tx
  BY <1>2, <1>3, <1>a, <1>4 DEF Tx, Pcs
<1>6. t.kind = "fail" /\ t.pc = "delete" /\ t.lease = NoLease /\ t.now = tx[s].now
  BY <1>1, <1>2 DEF Fits, ReportFits, Tx
<1>7. Reported(t)
  BY <1>1, <1>2 DEF Reported, Tx
<1>8. Fits(s, t)
  BY <1>2, <1>6, <1>7 DEF Fits, ReportFits, Tx
<1>9. Compatible(s, t)
  BY <1>1, <1>2, ExecutionFree DEF Compatible, Tx
<1> QED
  BY <1>1, <1>5, <1>8, <1>9, StatementStep

\* An event inserted without a lock on the execution.
LEMMA InsertEventKeeps ==
  ASSUME StatementsInv, NEW s \in Sessions, InsertEvent(s), UNCHANGED mode
  PROVE  StatementsInv'
<1> DEFINE t == [tx[s] EXCEPT !.pc = IF tx[s].kind = "expire" THEN "delete" ELSE "commit",
                              !.locks = @ \cup {"share"}]
<1>1. Statement(s, "event", t)
  BY DEF InsertEvent
<1>2. /\ tx[s] \in Tx /\ tx[s].pc = "event" /\ Fits(s, tx[s]) /\ Blockers(s) = {}
      /\ tx[s].kind \in {"complete", "fail", "heartbeat", "expire"}
  BY <1>1, AtStatement
<1>3. t \in Tx
  BY <1>2 DEF Tx, Pcs
<1>4. \A r \in Sessions \ {s} : ~(tx[r].kind = "claim" /\ "execution" \in tx[r].locks)
  BY <1>2, BlockersAre DEF Holders
<1>5. t.kind = tx[s].kind /\ t.locks = tx[s].locks \cup {"share"}
  BY <1>2 DEF Tx
<1>6. Compatible(s, t)
  BY <1>2, <1>4, <1>5 DEF Compatible, StatementsInv, LocksExclude
<1>7. CASE tx[s].kind \in {"complete", "fail"}
  <2>1. t.lease = NoLease /\ t.types = <<"stale_rejected">> /\ t.pc = "commit" /\ t.locks = {"share"}
    BY <1>2, <1>7 DEF Fits, ReportFits, Tx
  <2>2. Fits(s, t)
    BY <1>5, <1>7, <2>1 DEF Fits, ReportFits
  <2> QED
    BY <1>1, <1>3, <1>6, <2>2, StatementStep
<1>8. CASE tx[s].kind = "heartbeat"
  <2>1. Fits(s, t)
    BY <1>2, <1>8 DEF Fits, HeartbeatFits, Tx, OwnsLease
  <2> QED
    BY <1>1, <1>3, <1>6, <2>1, StatementStep
<1>9. CASE tx[s].kind = "expire"
  <2>1. Fits(s, t)
    BY <1>2, <1>9 DEF Fits, ExpireFits, Tx
  <2> QED
    BY <1>1, <1>3, <1>6, <2>1, StatementStep
<1> QED
  BY <1>2, <1>7, <1>8, <1>9

\* The DELETE of the lease.
LEMMA DeleteLeaseKeeps ==
  ASSUME StatementsInv, NEW s \in Sessions, DeleteLease(s), UNCHANGED mode
  PROVE  StatementsInv'
<1> DEFINE t == [tx[s] EXCEPT !.pc = IF tx[s].kind = "expire" THEN "release" ELSE "commit",
                              !.locks = IF HasLease THEN @ \cup {"lease"} ELSE @]
<1>1. Statement(s, "delete", t)
  BY DEF DeleteLease
<1>2. /\ tx[s] \in Tx /\ tx[s].pc = "delete" /\ Fits(s, tx[s]) /\ Blockers(s) = {}
      /\ tx[s].kind \in {"complete", "fail", "expire"}
  BY <1>1, AtStatement
<1>3. t \in Tx
  BY <1>2 DEF Tx, Pcs
<1>4. t.kind = tx[s].kind /\ t.locks = IF HasLease THEN tx[s].locks \cup {"lease"} ELSE tx[s].locks
  BY <1>2 DEF Tx
<1>5. Compatible(s, t)
  BY <1>2, <1>4, LeaseFree DEF Compatible, StatementsInv, LocksExclude
<1>6. CASE tx[s].kind \in {"complete", "fail"}
  <2>1. t.pc = "commit" /\ t.lease = NoLease /\ t.now = tx[s].now /\ t.types = tx[s].types
        /\ t.token = tx[s].token /\ t.row = tx[s].row /\ t.retry = tx[s].retry
    BY <1>2, <1>6 DEF Fits, ReportFits, Tx
  <2>2. "execution" \in tx[s].locks /\ "share" \notin tx[s].locks /\ "lease" \notin tx[s].locks
        /\ Reported(tx[s])
    BY <1>2, <1>6 DEF Fits, ReportFits
  <2>3. Reported(t)
    BY <1>4, <2>1, <2>2 DEF Reported
  <2>4. Fits(s, t)
    BY <1>4, <1>6, <2>1, <2>2, <2>3 DEF Fits, ReportFits
  <2> QED
    BY <1>1, <1>3, <1>5, <2>4, StatementStep
<1>7. CASE tx[s].kind = "expire"
  <2>1. Fits(s, t)
    BY <1>2, <1>7 DEF Fits, ExpireFits, Tx
  <2> QED
    BY <1>1, <1>3, <1>5, <2>1, StatementStep
<1> QED
  BY <1>2, <1>6, <1>7

\* The UPDATE of Heartbeat.
LEMMA UpdateLeaseKeeps ==
  ASSUME StatementsInv, NEW s \in Sessions, UpdateLease(s), UNCHANGED mode
  PROVE  StatementsInv'
<1> DEFINE new == [lease EXCEPT !.expires = tx[s].now + LeaseSeconds]
           t == [tx[s] EXCEPT !.pc = "event", !.locks = {"lease"}, !.types = <<"heartbeat">>,
                              !.lease = new]
<1>1. Statement(s, "beat", t) /\ OwnsLease(tx[s])
  BY DEF UpdateLease
<1>2. tx[s] \in Tx /\ tx[s].kind = "heartbeat" /\ tx[s].pc = "beat" /\ Blockers(s) = {}
  BY <1>1, AtStatement
<1>3. <<"heartbeat">> \in Seq(Types) /\ new \in LeaseRow
  <2> DEFINE n == tx[s].now + LeaseSeconds
  <2>1. n \in Nat
    BY <1>2, StatementsAssumption DEF Tx
  <2> HIDE DEF n
  <2>2. [lease EXCEPT !.expires = n] \in LeaseRow
    BY <2>1 DEF StatementsInv, TypesFit, LeaseRow
  <2> QED
    BY <2>2, EventLists DEF n
<1>4. t \in Tx
  BY <1>2, <1>3 DEF Tx, Pcs
<1>5. Fits(s, t)
  BY <1>1, <1>2 DEF Fits, HeartbeatFits, Tx, OwnsLease
<1>6. Compatible(s, t)
  BY <1>1, <1>2, LeaseFree DEF Compatible, Tx
<1> QED
  BY <1>1, <1>4, <1>5, <1>6, StatementStep

\* The UPDATE of expireLease.
LEMMA ReleaseExecutionKeeps ==
  ASSUME StatementsInv, NEW s \in Sessions, ReleaseExecution(s), UNCHANGED mode
  PROVE  StatementsInv'
<1> DEFINE new == IF pass[s].seen >= MaxAttempts
                  THEN [row EXCEPT !.status = "failed", !.error = "lease"]
                  ELSE [row EXCEPT !.status = "ready"]
           types == IF pass[s].seen >= MaxAttempts THEN <<"lease_expired", "failed">>
                    ELSE <<"lease_expired">>
           t == [tx[s] EXCEPT !.pc = "commit", !.locks = @ \cup {"execution"}, !.row = new,
                              !.types = types]
<1>1. Statement(s, "release", t)
  BY DEF ReleaseExecution
<1>2. /\ tx[s] \in Tx /\ tx[s].kind = "expire" /\ tx[s].pc = "release" /\ Blockers(s) = {}
      /\ Fits(s, tx[s])
  BY <1>1, AtStatement
<1>3. types \in Seq(Types) /\ new \in Row
  BY RowVersions, EventLists
<1>4. t \in Tx
  BY <1>2, <1>3 DEF Tx, Pcs
<1>5. /\ s \in Schedulers /\ pass[s].pc = "expire" /\ tx[s].lease = NoLease
      /\ tx[s].locks = IF HasLease THEN {"share", "lease"} ELSE {"share"}
  BY <1>2 DEF Fits, ExpireFits
<1>6. pass[s].seen \in Nat
  BY <1>5 DEF StatementsInv, TypesFit
<1>7. t.kind = "expire" /\ t.pc = "commit" /\ t.row = new /\ t.types = types /\ t.lease = NoLease
      /\ t.locks = tx[s].locks \cup {"execution"}
  BY <1>2, <1>5 DEF Tx
<1>8. Fits(s, t)
  BY <1>5, <1>6, <1>7, StatementsAssumption DEF Fits, ExpireFits
<1>9. Compatible(s, t)
  BY <1>2, <1>7, ExecutionFree DEF Compatible, StatementsInv, LocksExclude
<1> QED
  BY <1>1, <1>4, <1>8, <1>9, StatementStep

\* The UPDATE and the DELETE of promoteRetry.
LEMMA PromoteExecutionKeeps ==
  ASSUME StatementsInv, NEW s \in Sessions, PromoteExecution(s), UNCHANGED mode
  PROVE  StatementsInv'
<1> DEFINE t == [tx[s] EXCEPT !.pc = "commit", !.locks = {"execution", "retry"}, !.types = <<"ready">>,
                              !.row = [row EXCEPT !.status = "ready"]]
<1>1. Statement(s, "promote", t)
  BY DEF PromoteExecution
<1>2. /\ tx[s] \in Tx /\ tx[s].kind = "promote" /\ tx[s].pc = "promote" /\ Blockers(s) = {}
      /\ Fits(s, tx[s])
  BY <1>1, AtStatement
<1>3. <<"ready">> \in Seq(Types) /\ [row EXCEPT !.status = "ready"] \in Row
  BY RowVersions, EventLists
<1>4. t \in Tx
  BY <1>2, <1>3 DEF Tx, Pcs
<1>5. Fits(s, t)
  BY <1>2 DEF Fits, PromoteFits, Tx
<1>6. Compatible(s, t)
  BY <1>2, ExecutionFree DEF Compatible, Tx
<1> QED
  BY <1>1, <1>4, <1>5, <1>6, StatementStep

-----------------------------------------------------------------------------
(* Beginnings, rollbacks and what happens outside of transactions.           *)

\* BEGIN.
LEMMA BeginKeeps ==
  ASSUME StatementsInv, NEW s \in Sessions, NEW kind \in Kinds, NEW token \in Nat,
         Begin(s, kind, token), UNCHANGED <<mode, pass>>, hand' \in [Workers -> Nat],
         kind = "claim" => s \in Workers \X {"main"},
         kind \in {"expire", "promote"} => s \in Schedulers /\ pass[s].pc = kind
  PROVE  StatementsInv'
<1>1. clock \in Nat /\ First[kind] \in Pcs
  BY KindsAre, StatementsAssumption DEF StatementsInv, TypesFit, Pcs
<1>2. [NoTx EXCEPT !.kind = kind, !.pc = First[kind], !.now = clock, !.token = token] \in Tx
  BY <1>1, Nulls DEF Tx
<1>3. PICK t \in Tx :
        t = [NoTx EXCEPT !.kind = kind, !.pc = First[kind], !.now = clock, !.token = token]
  BY <1>2
<1>4. tx' = [tx EXCEPT ![s] = t] /\ UNCHANGED Tables
  BY <1>3 DEF Begin, Tables
<1>5. /\ t.kind = kind /\ t.pc = First[kind] /\ t.locks = {}
      /\ t.lease = NoLease /\ t.retry = NoRetry
  BY <1>3 DEF NoTx
<1>6. pass' = pass /\ pass' \in [Schedulers -> [pc : {"idle", "expire", "listed", "promote"}, seen : Nat]]
  BY DEF StatementsInv, TypesFit
<1>7. Fits(s, t)'
  <2>1. kind = "submit" => SubmitFits(t)'
    BY <1>5, KindsAre DEF SubmitFits
  <2>2. kind = "claim" => ClaimFits(s, t)'
    BY <1>5, KindsAre DEF ClaimFits
  <2>3. kind \in {"complete", "fail"} => ReportFits(t)'
    BY <1>5, KindsAre DEF ReportFits
  <2>4. kind = "heartbeat" => HeartbeatFits(t)'
    BY <1>5, KindsAre DEF HeartbeatFits
  <2>5. kind = "expire" => ExpireFits(s, t)'
    BY <1>5, <1>6, KindsAre DEF ExpireFits
  <2>6. kind = "promote" => PromoteFits(s, t)'
    BY <1>5, <1>6, KindsAre DEF PromoteFits
  <2>7. kind # "none"
    BY KindsAre
  <2> QED
    BY <1>5, <2>1, <2>2, <2>3, <2>4, <2>5, <2>6, <2>7 DEF Fits
<1>8. Compatible(s, t)
  BY <1>5, NoNewLock
<1> QED
  BY <1>4, <1>6, <1>7, <1>8, SessionStep

\* Whoever begins.
LEMMA BeginSomeKeeps ==
  ASSUME StatementsInv, BeginSome, UNCHANGED mode
  PROVE  StatementsInv'
<1>1. hand \in [Workers -> Nat] /\ ForcedTokens \subseteq Nat
  BY StatementsAssumption DEF StatementsInv, TypesFit
<1>2. \A c \in Clients : c \in Sessions
  BY DEF Sessions
<1>3. \A s \in Schedulers : s \in Sessions
  BY DEF Sessions
<1>4. Kinds = {"submit", "claim", "complete", "fail", "heartbeat", "expire", "promote"}
  BY KindsAre
<1>5. ASSUME NEW c \in Clients, BeginSubmit(c) PROVE StatementsInv'
  BY <1>1, <1>2, <1>4, <1>5, BeginKeeps DEF BeginSubmit
<1>6. ASSUME NEW c \in Clients, NEW token \in ForcedTokens, BeginForced(c, token) PROVE StatementsInv'
  BY <1>1, <1>2, <1>4, <1>6, BeginKeeps DEF BeginForced
<1>7. ASSUME NEW w \in Workers, BeginClaim(w) PROVE StatementsInv'
  BY <1>1, <1>4, <1>7, BeginKeeps, MainConnection DEF BeginClaim
<1>8. ASSUME NEW w \in Workers, BeginHeartbeat(w) PROVE StatementsInv'
  BY <1>1, <1>4, <1>8, BeginKeeps, MainConnection DEF BeginHeartbeat
<1>9. ASSUME NEW w \in Workers, NEW kind \in {"complete", "fail"}, BeginReport(w, kind)
      PROVE  StatementsInv'
  <2>1. hand[w] \in Nat /\ hand' \in [Workers -> Nat]
    BY <1>1, <1>9 DEF BeginReport
  <2> QED
    BY <1>1, <1>4, <1>9, <2>1, BeginKeeps, MainConnection DEF BeginReport
<1>10. ASSUME NEW s \in Schedulers, BeginExpire(s) PROVE StatementsInv'
  BY <1>1, <1>3, <1>4, <1>10, BeginKeeps DEF BeginExpire
<1>11. ASSUME NEW s \in Schedulers, BeginPromote(s) PROVE StatementsInv'
  BY <1>1, <1>3, <1>4, <1>11, BeginKeeps DEF BeginPromote
<1> QED
  BY <1>5, <1>6, <1>7, <1>8, <1>9, <1>10, <1>11 DEF BeginSome

\* ROLLBACK.
LEMMA RollbackKeeps ==
  ASSUME StatementsInv, NEW s \in Sessions, Rollback(s), UNCHANGED mode
  PROVE  StatementsInv'
<1>1. tx' = [tx EXCEPT ![s] = NoTx] /\ UNCHANGED Tables /\ hand' = hand
  BY DEF Rollback, Tables
<1>2. NoPass \in [pc : {"idle", "expire", "listed", "promote"}, seen : Nat]
  BY DEF NoPass
<1>3. /\ pass' \in [Schedulers -> [pc : {"idle", "expire", "listed", "promote"}, seen : Nat]]
      /\ \A r \in Schedulers \ {s} : pass'[r] = pass[r]
  BY <1>2 DEF Rollback, StatementsInv, TypesFit
<1>4. Fits(s, NoTx)' /\ Compatible(s, NoTx)
  BY Nulls, NoNewLock DEF Fits
<1> QED
  BY <1>1, <1>3, <1>4, Nulls, SessionStep DEF StatementsInv, TypesFit

\* ErrNoWork and ErrStale end their transactions without a trace.
LEMMA GiveUpKeeps ==
  ASSUME StatementsInv, NEW s \in Sessions, SkipLocked(s) \/ RejectHeartbeat(s), UNCHANGED mode
  PROVE  StatementsInv'
<1>1. Fits(s, NoTx) /\ Compatible(s, NoTx) /\ NoTx \in Tx
  BY Nulls, NoNewLock DEF Fits
<1> QED
  BY <1>1, StatementStep DEF SkipLocked, RejectHeartbeat

\* Steps that touch neither the tables nor a transaction.
LEMMA OutsideStep ==
  ASSUME StatementsInv, UNCHANGED <<mode, row, lease, retry_at, log, tx>>,
         clock' \in 0..MaxClock, hand' \in [Workers -> Nat],
         pass' \in [Schedulers -> [pc : {"idle", "expire", "listed", "promote"}, seen : Nat]],
         \A s \in Schedulers : pass[s].pc \in {"expire", "promote"} => pass'[s] = pass[s]
  PROVE  StatementsInv'
<1>1. TypesFit' /\ LocksExclude'
  BY DEF StatementsInv, TypesFit, LocksExclude
<1>2. ASSUME NEW s \in Sessions
      PROVE  Fits(s, tx[s])'
  <2>1. Fits(s, tx[s]) /\ tx'[s] = tx[s]
    BY DEF StatementsInv
  <2>2. tx[s].kind \in {"expire", "promote"} => s \in Schedulers /\ pass'[s] = pass[s]
    BY <2>1 DEF Fits, ExpireFits, PromoteFits
  <2> QED
    BY <2>1, <2>2
    DEF Fits, SubmitFits, ClaimFits, ReportFits, HeartbeatFits, ExpireFits, PromoteFits,
        Reported, Terminal, OwnsLease, HasLease, Exceeds, Claims
<1>3. (TokensBounded /\ TokensIncrease /\ LeaseOfNewestClaim /\ NeverStranded)'
  BY DEF StatementsInv, TokensBounded, LogTokens, TokensIncrease, LeaseOfNewestClaim,
         NeverStranded, HasLease, Claims
<1> QED
  BY <1>1, <1>2, <1>3 DEF StatementsInv

\* The clock, the scheduler's SELECTs and lost claims.
LEMMA OutsideKeeps ==
  ASSUME StatementsInv, UNCHANGED mode,
         \/ Tick
         \/ \E s \in Schedulers : SelectStale(s) \/ SelectDue(s)
         \/ \E w \in Workers : Forget(w)
  PROVE  StatementsInv'
<1>1. /\ hand \in [Workers -> Nat] /\ clock \in 0..MaxClock /\ MaxClock \in Nat /\ row.attempts \in Nat
      /\ pass \in [Schedulers -> [pc : {"idle", "expire", "listed", "promote"}, seen : Nat]]
  BY StatementsAssumption, RowVersions DEF StatementsInv, TypesFit
<1>2. CASE Tick
  <2>1. clock' \in 0..MaxClock
    BY <1>1, <1>2 DEF Tick
  <2> QED
    BY <1>1, <1>2, <2>1, OutsideStep DEF Tick
<1>3. ASSUME NEW s \in Schedulers, SelectStale(s) \/ SelectDue(s) PROVE StatementsInv'
  <2>1. pass[s].pc \notin {"expire", "promote"}
    BY <1>3 DEF SelectStale, SelectDue
  <2>2. PICK p \in [pc : {"idle", "expire", "listed", "promote"}, seen : Nat] :
          pass' = [pass EXCEPT ![s] = p]
    BY <1>1, <1>3 DEF SelectStale, SelectDue, NoPass
  <2>3. /\ pass' \in [Schedulers -> [pc : {"idle", "expire", "listed", "promote"}, seen : Nat]]
        /\ \A r \in Schedulers \ {s} : pass'[r] = pass[r]
    BY <1>1, <2>2
  <2> QED
    BY <1>1, <1>3, <2>1, <2>3, OutsideStep DEF SelectStale, SelectDue
<1>4. ASSUME NEW w \in Workers, Forget(w) PROVE StatementsInv'
  <2>1. hand' \in [Workers -> Nat]
    BY <1>1, <1>4 DEF Forget
  <2> QED
    BY <1>1, <1>4, <2>1, OutsideStep DEF Forget
<1> QED
  BY <1>2, <1>3, <1>4

-----------------------------------------------------------------------------
(* Commit.                                                                   *)

\* What a transaction has open when it commits, by its kind.
LEMMA AtCommit ==
  ASSUME StatementsInv, NEW s \in Sessions, tx[s].pc = "commit"
  PROVE  /\ tx[s] \in Tx /\ Fits(s, tx[s]) /\ tx[s].kind \in Kinds
         /\ tx[s].kind = "claim" => tx[s].types = <<"claimed">>
         /\ tx[s].kind # "claim" => \A i \in DOMAIN tx[s].types : tx[s].types[i] # "claimed"
<1>1. tx[s] \in Tx /\ Fits(s, tx[s])
  BY DEF StatementsInv, TypesFit
<1>2. tx[s].kind \in Kinds
  BY <1>1, Nulls DEF Fits, Tx
<1>3. tx[s].kind = "claim" => tx[s].types = <<"claimed">>
  BY <1>1 DEF Fits, ClaimFits
<1>4. tx[s].kind # "claim" =>
        tx[s].types \in {<<"submitted", "ready">>, <<"duplicate_detected">>, <<"stale_rejected">>,
                         <<"completed">>, <<"failed">>, <<"retry_scheduled">>, <<"heartbeat">>,
                         <<"lease_expired", "failed">>, <<"lease_expired">>, <<"ready">>}
  BY <1>1, <1>2, KindsAre
  DEF Fits, SubmitFits, ReportFits, Reported, HeartbeatFits, ExpireFits, PromoteFits
<1>5. \A types \in {<<"submitted", "ready">>, <<"duplicate_detected">>, <<"stale_rejected">>,
                    <<"completed">>, <<"failed">>, <<"retry_scheduled">>, <<"heartbeat">>,
                    <<"lease_expired", "failed">>, <<"lease_expired">>, <<"ready">>} :
        \A i \in DOMAIN types : types[i] # "claimed"
  OBVIOUS
<1> QED
  BY <1>1, <1>2, <1>3, <1>4, <1>5

\* Concatenation, element by element.
LEMMA Concatenated ==
  ASSUME NEW a \in Seq(EventRow), NEW b \in Seq(EventRow)
  PROVE  /\ a \o b \in Seq(EventRow)
         /\ Len(a \o b) = Len(a) + Len(b)
         /\ \A i \in 1..Len(a) : (a \o b)[i] = a[i]
         /\ \A i \in 1..Len(b) : (a \o b)[Len(a) + i] = b[i]
  OBVIOUS

\* Its rows go to the end of the history, under its token.
LEMMA LogGrows ==
  ASSUME StatementsInv, NEW s \in Sessions, log' = log \o Rows(s)
  PROVE  /\ log' \in Seq(EventRow)
         /\ Len(tx[s].types) \in Nat /\ Len(log) \in Nat /\ DOMAIN log = 1..Len(log)
         /\ DOMAIN tx[s].types = 1..Len(tx[s].types)
         /\ DOMAIN log' = 1..(Len(log) + Len(tx[s].types))
         /\ \A i \in DOMAIN log : log'[i] = log[i]
         /\ \A i \in DOMAIN tx[s].types :
              /\ log'[Len(log) + i].event_type = tx[s].types[i]
              /\ log'[Len(log) + i].fencing_token = tx[s].token
              /\ tx[s].kind \in {"claim", "complete", "fail"} => log'[Len(log) + i].worker_id = WorkerOf(s)
<1> DEFINE types == tx[s].types
           worker == IF tx[s].kind \in {"claim", "complete", "fail"} THEN WorkerOf(s) ELSE NoWorker
           new == [i \in DOMAIN types |->
                    [event_type |-> types[i], worker_id |-> worker,
                     fencing_token |-> tx[s].token, at |-> tx[s].now]]
<1>1. types \in Seq(Types) /\ tx[s].token \in Nat /\ tx[s].now \in Nat
  BY DEF StatementsInv, TypesFit, Tx
<1>2. worker \in Workers \cup {NoWorker}
  BY WorkerOfType
<1>3. Rows(s) = new
  BY DEF Rows
<1> HIDE DEF types, worker
<1>4. Len(types) \in Nat /\ DOMAIN types = 1..Len(types) /\ \A i \in DOMAIN types : types[i] \in Types
  BY <1>1
<1>5. \A i \in DOMAIN types : new[i] \in EventRow
  BY <1>1, <1>2, <1>4 DEF EventRow
<1>6. new \in Seq(EventRow) /\ Len(new) = Len(types) /\ DOMAIN new = DOMAIN types
  BY <1>4, <1>5
<1>7. \A i \in DOMAIN types : /\ new[i].event_type = types[i] /\ new[i].fencing_token = tx[s].token
                             /\ new[i].worker_id = worker
  OBVIOUS
<1>11. tx[s].kind \in {"claim", "complete", "fail"} => worker = WorkerOf(s)
  BY DEF worker
<1> HIDE DEF new
<1>8. log \in Seq(EventRow) /\ Len(log) \in Nat /\ DOMAIN log = 1..Len(log)
  BY LogTypes DEF StatementsInv, TypesFit
<1>9. log' = log \o new
  BY <1>3
<1>10. /\ log' \in Seq(EventRow) /\ DOMAIN log' = 1..(Len(log) + Len(types))
       /\ \A i \in 1..Len(log) : log'[i] = log[i]
       /\ \A i \in 1..Len(types) : log'[Len(log) + i] = new[i]
  <2>1. /\ log \o new \in Seq(EventRow)
        /\ Len(log \o new) = Len(log) + Len(new)
        /\ \A i \in 1..Len(log) : (log \o new)[i] = log[i]
        /\ \A i \in 1..Len(new) : (log \o new)[Len(log) + i] = new[i]
    <3>1. new \in Seq(EventRow) /\ log \in Seq(EventRow)
      BY <1>6, <1>8
    <3> QED
      BY <3>1, Concatenated
  <2>2. DOMAIN (log \o new) = 1..(Len(log) + Len(types))
    BY <1>6, <2>1
  <2> QED
    BY <1>6, <1>9, <2>1, <2>2
<1> QED
  BY <1>4, <1>7, <1>8, <1>10, <1>11 DEF types

\* A claim adds one claim to the history, no other transaction does.
LEMMA CommitClaims ==
  ASSUME StatementsInv, NEW s \in Sessions, tx[s].pc = "commit", log' = log \o Rows(s)
  PROVE  /\ \A i \in Claims : log'[i] = log[i]
         /\ tx[s].kind # "claim" => Claims' = Claims
         /\ tx[s].kind = "claim" =>
              /\ Claims' = Claims \cup {Len(log) + 1}
              /\ log'[Len(log) + 1].fencing_token = tx[s].token
         /\ Claims \subseteq 1..Len(log) /\ Len(log) \in Nat
<1> DEFINE n == Len(log)
           m == Len(tx[s].types)
<1>1. /\ m \in Nat /\ n \in Nat /\ DOMAIN log = 1..n /\ DOMAIN tx[s].types = 1..m
      /\ DOMAIN log' = 1..(n + m)
      /\ \A i \in 1..n : log'[i] = log[i]
      /\ \A i \in 1..m : /\ log'[n + i].event_type = tx[s].types[i]
                         /\ log'[n + i].fencing_token = tx[s].token
  BY LogGrows
<1>2. \A i \in DOMAIN log' : i \in 1..n \/ (i - n \in 1..m /\ i = n + (i - n))
  BY <1>1
<1>3. Claims \subseteq 1..n
  BY <1>1 DEF Claims
<1>4. \A i \in 1..n : i \in DOMAIN log' /\ (i \in Claims' <=> i \in Claims)
  BY <1>1 DEF Claims
<1>5. CASE tx[s].kind # "claim"
  <2>1. \A i \in 1..m : tx[s].types[i] # "claimed"
    BY <1>1, <1>5, AtCommit
  <2>2. \A i \in 1..m : n + i \notin Claims'
    BY <1>1, <2>1 DEF Claims
  <2>3. \A i : i \in Claims' => i \in DOMAIN log'
    BY DEF Claims
  <2>4. Claims' = Claims
    BY <1>1, <1>2, <1>3, <1>4, <2>2, <2>3
  <2> QED
    BY <1>1, <1>3, <1>5, <2>4
<1>6. CASE tx[s].kind = "claim"
  <2>1. tx[s].types = <<"claimed">>
    BY <1>6, AtCommit
  <2>2. m = 1 /\ tx[s].types[1] = "claimed"
    BY <2>1
  <2>3. n + 1 \in DOMAIN log' /\ log'[n + 1].event_type = "claimed"
        /\ log'[n + 1].fencing_token = tx[s].token /\ DOMAIN log' = 1..(n + 1)
    BY <1>1, <2>2
  <2>4. n + 1 \in Claims'
    BY <2>3 DEF Claims
  <2>5. \A i : i \in Claims' => i \in 1..(n + 1)
    BY <2>3 DEF Claims
  <2>6. Claims' = Claims \cup {n + 1}
    <3>1. \A i \in 1..(n + 1) : i \in 1..n \/ i = n + 1
      BY <1>1
    <3>2. \A i : i \in Claims' => i \in Claims \/ i = n + 1
      BY <1>4, <2>5, <3>1
    <3>3. \A i : i \in Claims => i \in Claims'
      BY <1>3, <1>4
    <3> QED
      BY <2>4, <3>2, <3>3
  <2> QED
    BY <1>1, <1>3, <1>6, <2>3, <2>6
<1> QED
  BY <1>5, <1>6

\* What is left of the lease when s commits: only a claim makes one, only a
\* report or the reaper, which also write the execution, end one.
LEMMA CommitLease ==
  ASSUME StatementsInv, NEW s \in Sessions, Commit(s)
  PROVE  /\ tx[s].kind # "claim" /\ HasLease' =>
              HasLease /\ lease'.fencing_token = lease.fencing_token
         /\ tx[s].kind = "claim" =>
              HasLease' /\ lease'.fencing_token = tx[s].token /\ "execution" \in tx[s].locks
         /\ HasLease /\ ~HasLease' =>
              tx[s].kind \in {"complete", "fail", "expire"} /\ "execution" \in tx[s].locks
<1>1. tx[s].pc = "commit" /\ lease' = IF "lease" \in tx[s].locks THEN tx[s].lease ELSE lease
  BY DEF Commit
<1>2. tx[s] \in Tx /\ Fits(s, tx[s]) /\ tx[s].kind \in Kinds
  BY <1>1, AtCommit
<1>3. CASE tx[s].kind \in {"submit", "promote"}
  <2>1. "lease" \notin tx[s].locks
    BY <1>1, <1>2, <1>3 DEF Fits, SubmitFits, PromoteFits
  <2> QED
    BY <1>1, <1>3, <2>1 DEF HasLease
<1>4. CASE tx[s].kind = "claim"
  <2>1. /\ "lease" \in tx[s].locks /\ "execution" \in tx[s].locks /\ s[1] # NoWorker
        /\ tx[s].lease.worker_id = s[1] /\ tx[s].lease.fencing_token = tx[s].token
    BY <1>1, <1>2, <1>4, WorkerOfType DEF Fits, ClaimFits
  <2> QED
    BY <1>1, <1>4, <2>1 DEF HasLease
<1>5. CASE tx[s].kind \in {"complete", "fail"}
  <2>1. tx[s].lease.worker_id = NoWorker /\ ("lease" \in tx[s].locks => "execution" \in tx[s].locks)
    BY <1>1, <1>2, <1>5 DEF Fits, ReportFits, NoLease
  <2> QED
    BY <1>1, <1>5, <2>1 DEF HasLease
<1>6. CASE tx[s].kind = "expire"
  <2>1. tx[s].lease.worker_id = NoWorker /\ "execution" \in tx[s].locks
    BY <1>1, <1>2, <1>6 DEF Fits, ExpireFits, NoLease
  <2> QED
    BY <1>1, <1>6, <2>1 DEF HasLease
<1>7. CASE tx[s].kind = "heartbeat"
  <2>1. HasLease /\ tx[s].lease = [lease EXCEPT !.expires = tx[s].now + LeaseSeconds]
    BY <1>1, <1>2, <1>7 DEF Fits, HeartbeatFits, OwnsLease
  <2>2. tx[s].lease.worker_id = lease.worker_id /\ tx[s].lease.fencing_token = lease.fencing_token
    BY <2>1 DEF StatementsInv, TypesFit, LeaseRow
  <2> QED
    BY <1>1, <1>7, <2>1, <2>2 DEF HasLease
<1> QED
  BY <1>2, <1>3, <1>4, <1>5, <1>6, <1>7, KindsAre

\* A commit leaves rows and history of their types.
LEMMA CommitTypes ==
  ASSUME StatementsInv, NEW s \in Sessions, Commit(s), UNCHANGED mode
  PROVE  TypesFit'
<1>1. tx[s] \in Tx /\ Fits(s, tx[s])
  BY AtCommit DEF Commit
<1>2. tx[s].row \in Row /\ tx[s].lease \in LeaseRow /\ tx[s].retry \in Nat \cup {NoRetry}
      /\ tx[s].token \in Nat
  BY <1>1 DEF Tx
<1>3. log' \in Seq(EventRow)
  BY LogGrows DEF Commit
<1>4. hand' \in [Workers -> Nat]
  <2>1. hand \in [Workers -> Nat]
    BY DEF StatementsInv, TypesFit
  <2> QED
    BY <1>2, <2>1 DEF Commit
<1>5. pass' \in [Schedulers -> [pc : {"idle", "expire", "listed", "promote"}, seen : Nat]]
  <2> DEFINE p == IF tx[s].kind = "expire" THEN [pc |-> "listed", seen |-> 0] ELSE NoPass
  <2>1. p \in [pc : {"idle", "expire", "listed", "promote"}, seen : Nat]
    BY DEF NoPass
  <2>2. pass' = IF s \in Schedulers THEN [pass EXCEPT ![s] = p] ELSE pass
    BY DEF Commit
  <2> HIDE DEF p
  <2> QED
    BY <2>1, <2>2 DEF StatementsInv, TypesFit
<1>6. row' \in Row /\ lease' \in LeaseRow /\ retry_at' \in Nat \cup {NoRetry}
  BY <1>2 DEF Commit, StatementsInv, TypesFit
<1>7. tx' \in [Sessions -> Tx] /\ clock' = clock
  BY Nulls DEF Commit, StatementsInv, TypesFit
<1> QED
  BY <1>3, <1>4, <1>5, <1>6, <1>7 DEF StatementsInv, TypesFit

\* No version of the sessions that stay open is overtaken by the one committed.
LEMMA CommitFitsOthers ==
  ASSUME StatementsInv, NEW s \in Sessions, Commit(s), NEW r \in Sessions \ {s}
  PROVE  Fits(r, tx[r])'
<1>1. /\ tx'[r] = tx[r] /\ tx[r] \in Tx /\ Fits(r, tx[r]) /\ tx[s].pc = "commit"
      /\ r \in Schedulers => pass'[r] = pass[r]
  BY DEF Commit, StatementsInv, TypesFit
<1>2. tx[s] \in Tx /\ Fits(s, tx[s]) /\ tx[s].kind \in Kinds
  BY <1>1, AtCommit
<1>3. /\ tx[s].locks \cap tx[r].locks \subseteq {"share"}
      /\ tx[s].kind = "claim" /\ "execution" \in tx[s].locks => "share" \notin tx[r].locks
  BY DEF StatementsInv, LocksExclude
<1>4. "execution" \in tx[r].locks => row' = row /\ (HasLease' <=> HasLease) /\ tx[s].kind # "claim"
  <2>1. "execution" \in tx[r].locks => "execution" \notin tx[s].locks
    BY <1>3
  <2> QED
    BY <2>1, CommitLease DEF Commit
<1>5. "lease" \in tx[r].locks => lease' = lease
  BY <1>3 DEF Commit
<1>6. "share" \in tx[r].locks => (HasLease' => HasLease)
  BY <1>3, CommitLease
<1>7. tx[s].kind # "claim" => \A n : Exceeds(n) => Exceeds(n)'
  BY <1>1, CommitClaims DEF Exceeds, Commit
<1>8. CASE tx[r].kind = "submit"
  <2>1. SubmitFits(tx[r])
    BY <1>1, <1>8 DEF Fits
  <2>2. SubmitFits(tx[r])'
    BY <1>1, <1>4, <2>1 DEF SubmitFits
  <2> QED
    BY <1>1, <1>8, <2>2 DEF Fits
<1>9. CASE tx[r].kind = "claim"
  <2>1. ClaimFits(r, tx[r])
    BY <1>1, <1>9 DEF Fits
  <2>2. tx[r].pc # "select" => "execution" \in tx[r].locks
    BY <2>1 DEF ClaimFits
  <2>3. tx[r].pc # "select" => row' = row /\ tx[s].kind # "claim"
    BY <1>4, <2>2
  <2>4. tx[r].pc # "select" => (Exceeds(tx[r].token) => Exceeds(tx[r].token)')
    BY <1>1, <1>7, <2>3 DEF Exceeds
  <2>5. ClaimFits(r, tx[r])'
    BY <1>1, <2>1, <2>3, <2>4 DEF ClaimFits
  <2> QED
    BY <1>1, <1>9, <2>5 DEF Fits
<1>10. CASE tx[r].kind \in {"complete", "fail"}
  <2>1. ReportFits(tx[r])
    BY <1>1, <1>10 DEF Fits
  <2>2. "execution" \in tx[r].locks /\ Reported(tx[r]) => Reported(tx[r])'
    BY <1>1, <1>4 DEF Reported, Terminal
  <2>3. ReportFits(tx[r])'
    BY <1>1, <1>4, <2>1, <2>2 DEF ReportFits
  <2> QED
    BY <1>1, <1>10, <2>3 DEF Fits
<1>11. CASE tx[r].kind = "heartbeat"
  <2>1. HeartbeatFits(tx[r])
    BY <1>1, <1>11 DEF Fits
  <2>2. HeartbeatFits(tx[r])'
    BY <1>1, <1>5, <2>1 DEF HeartbeatFits, OwnsLease, HasLease
  <2> QED
    BY <1>1, <1>11, <2>2 DEF Fits
<1>12. CASE tx[r].kind = "expire"
  <2>1. ExpireFits(r, tx[r])
    BY <1>1, <1>12 DEF Fits
  <2>2. tx[r].pc = "release" => (HasLease' <=> HasLease)
    <3>1. tx[r].pc = "release" =>
            "share" \in tx[r].locks /\ (HasLease => "lease" \in tx[r].locks)
      BY <2>1 DEF ExpireFits
    <3> QED
      BY <1>5, <1>6, <3>1 DEF HasLease
  <2>3. tx[r].pc = "commit" => row' = row /\ (HasLease' <=> HasLease)
    <3>1. tx[r].pc = "commit" => "execution" \in tx[r].locks
      BY <2>1 DEF ExpireFits
    <3> QED
      BY <1>4, <3>1
  <2>4. ExpireFits(r, tx[r])'
    BY <1>1, <2>1, <2>2, <2>3 DEF ExpireFits
  <2> QED
    BY <1>1, <1>12, <2>4 DEF Fits
<1>13. CASE tx[r].kind = "promote"
  <2>1. PromoteFits(r, tx[r])
    BY <1>1, <1>13 DEF Fits
  <2>2. PromoteFits(r, tx[r])'
    BY <1>1, <1>4, <2>1 DEF PromoteFits
  <2> QED
    BY <1>1, <1>13, <2>2 DEF Fits
<1>14. CASE tx[r].kind = "none"
  BY <1>1, <1>14 DEF Fits
<1> QED
  BY <1>1, <1>8, <1>9, <1>10, <1>11, <1>12, <1>13, <1>14, KindsAre DEF Tx

\* Tokens keep growing and the lease stays with the newest claim.
LEMMA CommitTokens ==
  ASSUME StatementsInv, NEW s \in Sessions, Commit(s)
  PROVE  TokensBounded' /\ TokensIncrease' /\ LeaseOfNewestClaim'
<1>1. /\ tx[s].pc = "commit" /\ log' = log \o Rows(s) /\ tx[s] \in Tx /\ Fits(s, tx[s])
      /\ tx[s].token \in Nat
  BY AtCommit DEF Commit, Tx
<1>2. TokensBounded'
  <2>1. LogTokens \subseteq Nat
    BY LogTypes
  <2>2. LogTokens' \subseteq LogTokens \cup {tx[s].token} /\ LogTokens \subseteq LogTokens'
        /\ (LogTokens' = LogTokens \/ LogTokens' = LogTokens \cup {tx[s].token})
    <3>1. /\ Len(tx[s].types) \in Nat /\ Len(log) \in Nat /\ DOMAIN log = 1..Len(log)
          /\ DOMAIN tx[s].types = 1..Len(tx[s].types)
          /\ DOMAIN log' = 1..(Len(log) + Len(tx[s].types))
          /\ \A i \in DOMAIN log : log'[i] = log[i]
          /\ \A i \in DOMAIN tx[s].types : log'[Len(log) + i].fencing_token = tx[s].token
      BY <1>1, LogGrows
    <3>2. \A i \in DOMAIN log' : i \in DOMAIN log \/
            (i - Len(log) \in DOMAIN tx[s].types /\ i = Len(log) + (i - Len(log)))
      BY <3>1
    <3>3. \A i \in DOMAIN log' : log'[i].fencing_token \in LogTokens \cup {tx[s].token}
      BY <3>1, <3>2 DEF LogTokens
    <3>4. \A i \in DOMAIN log : i \in DOMAIN log' /\ log'[i] = log[i]
      BY <3>1
    <3>5. LogTokens' \subseteq LogTokens \cup {tx[s].token}
      BY <3>3 DEF LogTokens
    <3>6. LogTokens \subseteq LogTokens'
      BY <3>4 DEF LogTokens
    <3> QED
      BY <3>5, <3>6
  <2>3. PICK m \in LogTokens : \A n \in LogTokens : n <= m
    BY DEF StatementsInv, TokensBounded
  <2>4. \E b \in LogTokens' : \A n \in LogTokens' : n <= b
    <3>1. CASE LogTokens' = LogTokens
      BY <2>3, <3>1
    <3>2. CASE LogTokens' = LogTokens \cup {tx[s].token} /\ tx[s].token <= m
      BY <2>3, <3>2
    <3>3. CASE LogTokens' = LogTokens \cup {tx[s].token} /\ ~(tx[s].token <= m)
      BY <1>1, <2>1, <2>3, <3>3
    <3> QED
      BY <2>2, <3>1, <3>2, <3>3
  <2> QED
    BY <2>4 DEF TokensBounded
<1>3. /\ \A i \in Claims : log'[i] = log[i]
      /\ Claims \subseteq 1..Len(log) /\ Len(log) \in Nat
  BY <1>1, CommitClaims
<1>4. TokensIncrease /\ LeaseOfNewestClaim
  BY DEF StatementsInv
<1>5. CASE tx[s].kind # "claim"
  <2>1. Claims' = Claims
    BY <1>1, <1>5, CommitClaims
  <2> QED
    BY <1>2, <1>3, <1>4, <1>5, <2>1, CommitLease DEF TokensIncrease, LeaseOfNewestClaim
<1>6. CASE tx[s].kind = "claim"
  <2>1. Claims' = Claims \cup {Len(log) + 1} /\ log'[Len(log) + 1].fencing_token = tx[s].token
    BY <1>1, <1>6, CommitClaims
  <2>2. Exceeds(tx[s].token)
    BY <1>1, <1>6 DEF Fits, ClaimFits
  <2>3. \A i \in Claims : log[i].fencing_token \in Nat
    BY LogTypes DEF Claims
  <2>4. TokensIncrease'
    <3>1. ASSUME NEW i \in Claims', NEW j \in Claims', i < j
          PROVE  log'[i].fencing_token < log'[j].fencing_token
      <4>1. CASE j \in Claims
        <5>1. i \in Claims
          BY <1>3, <2>1, <3>1, <4>1
        <5> QED
          BY <1>3, <1>4, <3>1, <4>1, <5>1 DEF TokensIncrease
      <4>2. CASE j = Len(log) + 1
        <5>1. i \in Claims
          BY <1>3, <2>1, <3>1, <4>2
        <5> QED
          BY <1>3, <2>1, <2>2, <4>2, <5>1 DEF Exceeds
      <4> QED
        BY <2>1, <4>1, <4>2
    <3> QED
      BY <3>1 DEF TokensIncrease
  <2>5. LeaseOfNewestClaim'
    <3>1. lease'.fencing_token = tx[s].token
      BY <1>6, CommitLease
    <3>2. ASSUME NEW i \in Claims'
          PROVE  log'[i].fencing_token <= lease'.fencing_token
      <4>1. CASE i \in Claims
        <5>1. log'[i] = log[i] /\ log[i].fencing_token < tx[s].token
          BY <1>3, <2>2, <4>1 DEF Exceeds
        <5> QED
          BY <1>1, <2>3, <3>1, <4>1, <5>1
      <4>2. CASE i = Len(log) + 1
        <5>1. log'[i].fencing_token = tx[s].token
          BY <2>1, <4>2
        <5> QED
          BY <1>1, <3>1, <5>1
      <4> QED
        BY <2>1, <4>1, <4>2
    <3> QED
      BY <3>2 DEF LeaseOfNewestClaim
  <2> QED
    BY <1>2, <2>4, <2>5
<1> QED
  BY <1>5, <1>6

\* Whoever ends a lease or writes pending leaves the row that leads back to it.
LEMMA CommitStranded ==
  ASSUME StatementsInv, NEW s \in Sessions, Commit(s)
  PROVE  NeverStranded'
<1>1. tx[s].pc = "commit" /\ tx[s] \in Tx /\ Fits(s, tx[s]) /\ tx[s].kind \in Kinds
  BY AtCommit DEF Commit
<1>2. /\ row' = IF "execution" \in tx[s].locks THEN tx[s].row ELSE row
      /\ retry_at' = IF "retry" \in tx[s].locks THEN tx[s].retry ELSE retry_at
  BY DEF Commit
<1>3. NeverStranded /\ row \in Row
  BY DEF StatementsInv, TypesFit
<1>4. CASE "execution" \notin tx[s].locks
  <2>1. row' = row /\ retry_at' = retry_at
    BY <1>2, <1>4, RetryUnderExecution
  <2> QED
    BY <1>3, <1>4, <2>1, CommitLease DEF NeverStranded
<1>5. CASE "execution" \in tx[s].locks
  <2>1. row' = tx[s].row
    BY <1>2, <1>5
  <2>2. CASE tx[s].kind = "submit"
    <3>1. "retry" \notin tx[s].locks /\ tx[s].row.status \in {"ready", row.status}
      BY <1>1, <1>3, <2>2 DEF Fits, SubmitFits, Row
    <3> QED
      BY <1>2, <1>3, <2>1, <2>2, <3>1, CommitLease DEF NeverStranded
  <2>3. CASE tx[s].kind = "claim"
    <3>1. tx[s].row.status = "running"
      BY <1>1, <1>3, <2>3 DEF Fits, ClaimFits, Row
    <3> QED
      BY <2>1, <2>3, <3>1, CommitLease DEF NeverStranded
  <2>4. CASE tx[s].kind \in {"complete", "fail"}
    <3>1. Reported(tx[s])
      BY <1>1, <1>5, <2>4 DEF Fits, ReportFits
    <3>2. \/ tx[s].row.status \in {"completed", "failed"}
          \/ tx[s].row.status = "pending" /\ "retry" \in tx[s].locks /\ tx[s].retry # NoRetry
      <4>1. CASE tx[s].types # <<"retry_scheduled">>
        BY <1>3, <3>1, <4>1 DEF Reported, Row
      <4>2. CASE tx[s].types = <<"retry_scheduled">>
        <5>1. /\ ~Terminal /\ "retry" \in tx[s].locks /\ tx[s].retry = tx[s].now + Backoff(row.attempts)
              /\ tx[s].row = [row EXCEPT !.status = "pending", !.error = "handler"]
          BY <3>1, <4>2 DEF Reported
        <5>2. row.attempts < MaxAttempts /\ row.attempts \in Nat /\ tx[s].now \in Nat
          <6>1. row.attempts \in Nat /\ MaxAttempts \in Nat /\ tx[s].now \in Nat
            BY <1>1, RowVersions, StatementsAssumption DEF Tx
          <6>2. ~(row.attempts >= MaxAttempts)
            BY <5>1 DEF Terminal
          <6> QED
            BY <6>1, <6>2
        <5>3. tx[s].retry # NoRetry
          BY <5>1, <5>2, RetryType
        <5> QED
          BY <1>3, <5>1, <5>3 DEF Row
      <4> QED
        BY <4>1, <4>2
    <3> QED
      BY <1>2, <2>1, <3>2 DEF NeverStranded
  <2>5. CASE tx[s].kind = "heartbeat"
    BY <1>1, <1>5, <2>5 DEF Fits, HeartbeatFits
  <2>6. CASE tx[s].kind = "expire"
    <3>1. tx[s].row.status \in {"failed", "ready"}
      BY <1>1, <1>3, <2>6 DEF Fits, ExpireFits, Row
    <3> QED
      BY <2>1, <3>1 DEF NeverStranded
  <2>7. CASE tx[s].kind = "promote"
    <3>1. tx[s].row.status = "ready"
      BY <1>1, <1>3, <2>7 DEF Fits, PromoteFits, Row
    <3> QED
      BY <2>1, <3>1 DEF NeverStranded
  <2> QED
    BY <1>1, <2>2, <2>3, <2>4, <2>5, <2>6, <2>7, KindsAre
<1> QED
  BY <1>4, <1>5

\* COMMIT keeps the invariant.
LEMMA CommitKeeps ==
  ASSUME StatementsInv, NEW s \in Sessions, Commit(s), UNCHANGED mode
  PROVE  StatementsInv'
<1>1. tx'[s] = NoTx /\ \A r \in Sessions \ {s} : tx'[r] = tx[r]
  BY DEF Commit, StatementsInv, TypesFit
<1>2. LocksExclude'
  BY <1>1, Nulls DEF LocksExclude, StatementsInv
<1>3. Fits(s, tx[s])'
  BY <1>1, Nulls DEF Fits
<1>4. \A r \in Sessions : Fits(r, tx[r])'
  BY <1>3, CommitFitsOthers
<1> QED
  BY <1>2, <1>4, CommitTypes, CommitTokens, CommitStranded DEF StatementsInv

-----------------------------------------------------------------------------
(* The invariants of every deployment.                                       *)

\* The empty database.
LEMMA StatementsInit == Init => StatementsInv
<1> SUFFICES ASSUME Init PROVE StatementsInv
  OBVIOUS
<1>1. TypesFit
  <2>1. <<>> \in Seq(EventRow) /\ 0 \in 0..MaxClock
    BY StatementsAssumption
  <2>2. NoPass \in [pc : {"idle", "expire", "listed", "promote"}, seen : Nat]
    BY DEF NoPass
  <2> QED
    BY <2>1, <2>2, Nulls DEF Init, TypesFit
<1>2. \A s \in Sessions : tx[s] = NoTx
  BY DEF Init
<1>3. LocksExclude /\ \A s \in Sessions : Fits(s, tx[s])
  BY <1>2, Nulls DEF LocksExclude, Fits
<1>4. LogTokens = {0} /\ Claims = {}
  BY DEF Init, LogTokens, Claims
<1>5. ~HasLease /\ row.status = "absent"
  BY Nulls DEF Init, HasLease, NoRow
<1> QED
  BY <1>1, <1>3, <1>4, <1>5
  DEF StatementsInv, TokensBounded, TokensIncrease, LeaseOfNewestClaim, NeverStranded

\* Every statement of an open transaction.
LEMMA ProceedKeeps ==
  ASSUME StatementsInv, NEW s \in Sessions, Proceed(s), UNCHANGED mode
  PROVE  StatementsInv'
  BY InsertExecutionKeeps, SelectReadyKeeps, NumberTokenKeeps, UpsertLeaseKeeps, CheckLeaseKeeps,
     WriteCompletedKeeps, WriteFailedKeeps, InsertEventKeeps, DeleteLeaseKeeps, UpdateLeaseKeeps,
     GiveUpKeeps, ReleaseExecutionKeeps, PromoteExecutionKeeps, CommitKeeps
  DEF Proceed

\* Every step keeps the invariant.
LEMMA StatementsKeep == StatementsInv /\ [Next]_vars => StatementsInv'
<1> SUFFICES ASSUME StatementsInv, [Next]_vars PROVE StatementsInv'
  OBVIOUS
<1>1. CASE UNCHANGED vars
  BY <1>1, OutsideStep DEF vars, StatementsInv, TypesFit
<1>2. CASE Next
  <2>1. UNCHANGED mode /\ Step
    BY <1>2 DEF Next
  <2>2. CASE BeginSome
    BY <2>1, <2>2, BeginSomeKeeps
  <2>3. ASSUME NEW s \in Sessions, Proceed(s) \/ Abort(s) \/ DeadlockVictim(s)
        PROVE  StatementsInv'
    BY <2>1, <2>3, ProceedKeeps, RollbackKeeps DEF Abort, DeadlockVictim
  <2>4. CASE \/ Tick
             \/ \E s \in Schedulers : SelectStale(s) \/ SelectDue(s)
             \/ \E w \in Workers : Forget(w)
    BY <2>1, <2>4, OutsideKeeps
  <2> QED
    BY <2>1, <2>2, <2>3, <2>4 DEF Step
<1> QED
  BY <1>1, <1>2

\* Whatever sessions interleave their statements, and however long, the open
\* transactions stay consistent with the tables.
THEOREM StatementsInvariant == Spec => []StatementsInv
  BY StatementsInit, StatementsKeep, PTL DEF Spec

\* What sessions and tables hold has its type, and an exclusive row lock has
\* one holder.
THEOREM StatementsTypeCorrect == Spec => []StatementsTypeOK
<1>1. StatementsInv => StatementsTypeOK
  <2> SUFFICES ASSUME StatementsInv PROVE StatementsTypeOK
    OBVIOUS
  <2>1. ASSUME NEW l \in {"execution", "lease", "retry"}
        PROVE  Cardinality(Holders(l)) <= 1
    <3>1. \A s, r \in Holders(l) : s = r
      BY DEF StatementsInv, LocksExclude, Holders
    <3>2. CASE Holders(l) = {}
      BY <3>2, FS_EmptySet
    <3>3. CASE Holders(l) # {}
      <4>1. PICK s : Holders(l) = {s}
        BY <3>1, <3>3
      <4> QED
        BY <4>1, FS_Singleton
    <3> QED
      BY <3>2, <3>3
  <2>2. ASSUME NEW s \in Sessions
        PROVE  /\ tx[s].kind \in Kinds \cup {"none"}
               /\ tx[s].locks \subseteq {"share", "execution", "lease", "retry"}
               /\ tx[s].row \in Row /\ tx[s].lease \in LeaseRow /\ tx[s].retry \in Nat \cup {NoRetry}
    BY DEF StatementsInv, TypesFit, Tx
  <2> QED
    BY <2>1, <2>2 DEF StatementsInv, TypesFit, StatementsTypeOK, EventRow
<1> QED
  BY <1>1, StatementsInvariant, PTL

\* MAX(fencing_token) + 1 is read under the claim's row lock: no claim that is
\* still uncommitted is missed, and later claims get higher tokens.
THEOREM TokensDoIncrease == Spec => []TokensIncrease
<1>1. StatementsInv => TokensIncrease
  BY DEF StatementsInv
<1> QED
  BY <1>1, StatementsInvariant, PTL

\* Heartbeats and deletes that waited for the lease row leave it to the newest claim.
THEOREM LeaseStaysNewest == Spec => []LeaseOfNewestClaim
<1>1. StatementsInv => LeaseOfNewestClaim
  BY DEF StatementsInv
<1> QED
  BY <1>1, StatementsInvariant, PTL

\* Between any two commits a running execution has its lease and a pending one
\* its retry row.
THEOREM NothingIsStranded == Spec => []NeverStranded
<1>1. StatementsInv => NeverStranded
  BY DEF StatementsInv
<1> QED
  BY <1>1, StatementsInvariant, PTL

-----------------------------------------------------------------------------
(* Who waits for whom.                                                       *)

\* Whoever waits waits for the one holder of the execution, at a statement on
\* executions, or for the one holder of the lease, at a statement on the lease.
LEMMA WaitsForHolder ==
  ASSUME StatementsInv, NEW s \in Sessions, NEW b \in Blockers(s)
  PROVE  /\ b \in Sessions /\ b # s
         /\ \/ tx[s].pc \in {"insert", "write", "release", "promote"} /\ "execution" \in tx[b].locks
            \/ tx[s].pc = "event" /\ "execution" \in tx[b].locks /\ tx[b].kind = "claim"
            \/ tx[s].pc \in {"delete", "upsert", "beat"} /\ "lease" \in tx[b].locks
<1>1. tx[s].pc \in Pcs
  BY DEF StatementsInv, TypesFit, Tx
<1>2. CASE tx[s].pc \in {"insert", "write", "release", "promote"}
  BY <1>2, BlockersAre DEF Holders
<1>3. CASE tx[s].pc = "event"
  BY <1>3, BlockersAre DEF Holders
<1>4. CASE tx[s].pc \in {"delete", "upsert"}
  BY <1>4, BlockersAre DEF Holders
<1>5. CASE tx[s].pc = "beat"
  BY <1>5, BlockersAre DEF Holders
<1>6. CASE tx[s].pc \in {"none", "select", "number", "check", "commit"}
  BY <1>6, BlockersAre
<1> QED
  BY <1>1, <1>2, <1>3, <1>4, <1>5, <1>6 DEF Pcs

\* Two sessions that wait for each other: one has the execution and wants the
\* lease, the other has the lease and wants the execution.
LEMMA MutualWait ==
  ASSUME StatementsInv, NEW e \in Sessions, NEW r \in Sessions,
         e \in Blockers(r), r \in Blockers(e), "lease" \in tx[e].locks
  PROVE  \/ /\ tx[e].kind = "expire" /\ tx[e].pc = "release"
            /\ tx[r].kind \in {"complete", "fail"} /\ tx[r].pc = "delete"
         \/ /\ tx[e].kind = "heartbeat" /\ tx[e].pc = "event"
            /\ tx[r].kind = "claim" /\ HasLease
<1>1. /\ tx[e] \in Tx /\ tx[r] \in Tx /\ Fits(e, tx[e]) /\ Fits(r, tx[r]) /\ e # r
      /\ tx[e].kind \in Kinds \cup {"none"} /\ tx[r].kind \in Kinds \cup {"none"}
  BY WaitsForHolder DEF StatementsInv, TypesFit, Tx
<1>2. tx[e].pc # "commit" /\ tx[r].pc # "commit"
  BY WaitsForHolder
<1>3. \/ tx[e].kind = "expire" /\ tx[e].pc = "release" /\ "share" \in tx[e].locks
      \/ tx[e].kind = "heartbeat" /\ tx[e].pc = "event" /\ HasLease
  BY <1>1, <1>2, KindsAre, Nulls
  DEF Fits, SubmitFits, ClaimFits, ReportFits, HeartbeatFits, ExpireFits, PromoteFits, OwnsLease
<1>4. "execution" \in tx[r].locks /\ (tx[e].pc = "event" => tx[r].kind = "claim")
  BY <1>3, WaitsForHolder
<1>5. \/ tx[r].kind \in {"complete", "fail"} /\ tx[r].pc = "delete"
      \/ tx[r].kind = "claim"
  BY <1>1, <1>2, <1>4, KindsAre, Nulls
  DEF Fits, SubmitFits, ClaimFits, ReportFits, HeartbeatFits, ExpireFits, PromoteFits
<1>6. tx[r].kind = "claim" => "share" \notin tx[e].locks
  BY <1>1, <1>4 DEF StatementsInv, LocksExclude
<1> QED
  BY <1>3, <1>4, <1>5, <1>6

\* A set of sessions that cannot go on contains two that wait for each other:
\* there are only two locks to wait for, each with one holder.
LEMMA StuckPair ==
  ASSUME StatementsInv, NEW D \in SUBSET Sessions, Stuck(D)
  PROVE  \E e, r \in D : e \in Blockers(r) /\ r \in Blockers(e) /\ "lease" \in tx[e].locks
<1>1. \A s \in D : \E b \in D : b \in Blockers(s)
  BY DEF Stuck
<1>2. \A s \in D : \A b \in Blockers(s) :
        b # s /\ ("execution" \in tx[b].locks \/ "lease" \in tx[b].locks)
  BY WaitsForHolder
<1>3. PICK s \in D : TRUE
  BY DEF Stuck
<1>4. PICK a \in D : a \in Blockers(s)
  BY <1>1, <1>3
<1>5. PICK b \in D : b \in Blockers(a)
  BY <1>1, <1>4
<1>6. PICK c \in D : c \in Blockers(b)
  BY <1>1, <1>5
<1>7. a # b /\ b # c
  BY <1>2, <1>4, <1>5, <1>6
<1>8. \A x, y \in Sessions, l \in {"execution", "lease"} :
        l \in tx[x].locks /\ l \in tx[y].locks => x = y
  BY DEF StatementsInv, LocksExclude
<1>9. c = a
  BY <1>2, <1>4, <1>5, <1>6, <1>7, <1>8
<1>10. "lease" \in tx[a].locks \/ "lease" \in tx[b].locks
  BY <1>2, <1>4, <1>5, <1>7, <1>8
<1> QED
  BY <1>5, <1>6, <1>9, <1>10

\* Sessions wait for each other in a circle in the two known ways only.
THEOREM CyclesAreOfTwoKinds == Spec => []CyclesAreKnown
<1>1. StatementsInv => CyclesAreKnown
  <2> SUFFICES ASSUME StatementsInv,
                      NEW D \in SUBSET {s \in Sessions : Blockers(s) # {}}, Stuck(D)
               PROVE  \E e, r \in D :
                        /\ e \in Blockers(r) /\ r \in Blockers(e)
                        /\ \/ tx[e].kind = "expire" /\ tx[r].kind \in {"complete", "fail"}
                           \/ tx[e].kind = "heartbeat" /\ tx[r].kind = "claim" /\ HasLease
    BY DEF CyclesAreKnown
  <2>1. D \in SUBSET Sessions
    OBVIOUS
  <2>2. PICK e, r \in D : e \in Blockers(r) /\ r \in Blockers(e) /\ "lease" \in tx[e].locks
    BY <2>1, StuckPair
  <2>3. e \in Sessions /\ r \in Sessions
    BY <2>1
  <2> QED
    BY <2>2, <2>3, MutualWait
<1> QED
  BY <1>1, StatementsInvariant, PTL

-----------------------------------------------------------------------------
(* One scheduler, and no transaction open across a tick.                     *)

OneScheduler == \A s, t \in Schedulers : s = t

\* A report that found its lease, and one that did not.
Accepted(t) ==
  t.kind \in {"complete", "fail"} /\ t.pc \in {"write", "delete", "commit"} /\ "share" \notin t.locks

\* An accepted report of this tick has been committed.
Decided ==
  /\ ~HasLease /\ row.status \in {"completed", "failed", "pending"}
  /\ retry_at # NoRetry => retry_at > clock

\* What a pass has listed is still as it was when it looked.
PassFresh(s) ==
  /\ pass[s].pc = "expire" => HasLease /\ lease.expires < clock
  /\ pass[s].pc = "promote" => retry_at # NoRetry /\ retry_at <= clock

PunctualInv ==
  /\ \A s \in Sessions : tx[s] # NoTx => tx[s].now = clock
  /\ HasLease => row.status = "running"
  /\ retry_at # NoRetry => row.status \in {"pending", "completed", "failed"}
  /\ \A s \in Schedulers : PassFresh(s)
  /\ \A s \in Sessions : Accepted(tx[s]) => OwnsLease(tx[s]) \/ Decided

\* A step of one session that leaves the tables alone.
LEMMA PunctualStep ==
  ASSUME StatementsInv, PunctualInv, NEW s \in Sessions, NEW t,
         tx' = [tx EXCEPT ![s] = t], UNCHANGED Tables,
         t # NoTx => t.now = clock,
         Accepted(t) => OwnsLease(t) \/ Decided,
         \A r \in Schedulers : pass'[r] \in {pass[r], NoPass}
  PROVE  PunctualInv'
<1>1. \A r \in Sessions : tx'[r] = IF r = s THEN t ELSE tx[r]
  BY DEF StatementsInv, TypesFit
<1>2. UNCHANGED <<clock, row, lease, retry_at>>
  BY DEF Tables
<1>3. \A r \in Sessions : tx'[r] # NoTx => tx'[r].now = clock'
  BY <1>1, <1>2 DEF PunctualInv
<1>4. \A r \in Schedulers : PassFresh(r)'
  BY <1>2 DEF PunctualInv, PassFresh, HasLease, NoPass
<1>5. \A r \in Sessions : Accepted(tx[r]) => OwnsLease(tx[r]) \/ Decided
  BY DEF PunctualInv
<1>6. ASSUME NEW r \in Sessions PROVE (Accepted(tx[r]) => OwnsLease(tx[r]) \/ Decided)'
  <2>1. CASE r = s
    BY <1>1, <1>2, <2>1 DEF Accepted, OwnsLease, HasLease, Decided
  <2>2. CASE r # s
    BY <1>1, <1>2, <1>5, <2>2 DEF Accepted, OwnsLease, HasLease, Decided
  <2> QED
    BY <2>1, <2>2
<1>7. /\ HasLease' => row'.status = "running"
      /\ retry_at' # NoRetry => row'.status \in {"pending", "completed", "failed"}
  BY <1>2 DEF PunctualInv, HasLease
<1> QED
  BY <1>3, <1>4, <1>6, <1>7 DEF PunctualInv

\* What a statement leaves of its transaction.  Only CheckLease decides about a
\* report, and only NumberToken changes a token.
StatementLeaves(s, t) ==
  /\ tx' = [tx EXCEPT ![s] = t] /\ UNCHANGED Tables /\ UNCHANGED <<hand, pass>>
  /\ \/ t = NoTx
     \/ /\ tx[s].pc # "none" /\ t.kind = tx[s].kind /\ t.now = tx[s].now
        /\ IF tx[s].pc = "number"
           THEN t.pc = "upsert" /\ t.token = NextToken /\ NextToken <= MaxToken
           ELSE t.pc \notin {"none", "number", "upsert"} \/ tx[s].pc \in {"select", "upsert"}
        /\ tx[s].pc # "number" => t.token = tx[s].token
        /\ tx[s].pc = "select" => t.pc = "number"
        /\ tx[s].pc = "upsert" => t.pc = "commit"
  /\ Accepted(t) => Accepted(tx[s]) \/ (tx[s].pc = "check" /\ OwnsLease(tx[s]))

\* What a statement does to its session.
LEMMA ProceedLeaves ==
  ASSUME StatementsInv, NEW s \in Sessions, Proceed(s), ~Commit(s), UNCHANGED mode
  PROVE  \E t : StatementLeaves(s, t)
<1>1. tx[s] \in Tx /\ Fits(s, tx[s]) /\ tx \in [Sessions -> Tx]
  BY DEF StatementsInv, TypesFit
<1>2. \E pc, t : Statement(s, pc, t)
  BY DEF Proceed, InsertExecution, SelectReady, SkipLocked, NumberToken, UpsertLease, CheckLease,
     WriteCompleted, WriteFailed, InsertEvent, DeleteLease, UpdateLease, RejectHeartbeat,
     ReleaseExecution, PromoteExecution
<1>3. tx' = [tx EXCEPT ![s] = tx'[s]] /\ UNCHANGED Tables /\ UNCHANGED <<hand, pass>>
  BY <1>1, <1>2 DEF Statement, Tables
<1> DEFINE Same == tx'[s].kind = tx[s].kind /\ tx'[s].now = tx[s].now
           Token == tx'[s].token = tx[s].token
<1>4. SkipLocked(s) \/ RejectHeartbeat(s) => tx'[s] = NoTx
  BY <1>1 DEF SkipLocked, RejectHeartbeat, Statement
<1>5. InsertExecution(s) => Same /\ Token /\ tx[s].pc = "insert" /\ tx'[s].pc = "commit"
  BY <1>1 DEF InsertExecution, Statement, Tx
<1>6. SelectReady(s) => Same /\ Token /\ tx[s].pc = "select" /\ tx'[s].pc = "number"
  BY <1>1 DEF SelectReady, Statement, Tx
<1>7. NumberToken(s) => /\ Same /\ tx'[s].token = NextToken /\ NextToken <= MaxToken
                        /\ tx[s].pc = "number" /\ tx'[s].pc = "upsert"
  BY <1>1 DEF NumberToken, Statement, Tx
<1>8. UpsertLease(s) => Same /\ Token /\ tx[s].pc = "upsert" /\ tx'[s].pc = "commit"
  BY <1>1 DEF UpsertLease, Statement, Tx
<1>9. CheckLease(s) => /\ Same /\ Token /\ tx[s].pc = "check"
                       /\ IF OwnsLease(tx[s]) THEN tx'[s].pc = "write" ELSE tx'[s].pc = "event"
  BY <1>1 DEF CheckLease, Statement, Tx
<1>10. WriteCompleted(s) \/ WriteFailed(s) =>
         /\ Same /\ Token /\ tx[s].pc = "write" /\ tx'[s].pc = "delete"
         /\ tx[s].locks = {}
  <2>1. tx[s].pc = "write" => tx[s].locks = {}
    BY <1>1, KindsAre, Nulls
    DEF Tx, Fits, SubmitFits, ClaimFits, ReportFits, HeartbeatFits, ExpireFits, PromoteFits
  <2>2. WriteCompleted(s) => Same /\ Token /\ tx[s].pc = "write" /\ tx'[s].pc = "delete"
    BY <1>1 DEF WriteCompleted, Statement, Tx
  <2>3. WriteFailed(s) => Same /\ Token /\ tx[s].pc = "write" /\ tx'[s].pc = "delete"
    BY <1>1 DEF WriteFailed, Statement, Tx
  <2> QED
    BY <2>1, <2>2, <2>3
<1>11. InsertEvent(s) => /\ Same /\ Token /\ tx[s].pc = "event" /\ tx'[s].pc \in {"delete", "commit"}
                         /\ "share" \in tx'[s].locks
  BY <1>1 DEF InsertEvent, Statement, Tx
<1>12. DeleteLease(s) => /\ Same /\ Token /\ tx[s].pc = "delete" /\ tx'[s].pc \in {"release", "commit"}
                         /\ tx[s].locks \subseteq tx'[s].locks
  BY <1>1 DEF DeleteLease, Statement, Tx
<1>13. UpdateLease(s) => Same /\ Token /\ tx[s].pc = "beat" /\ tx'[s].pc = "event"
  BY <1>1 DEF UpdateLease, Statement, Tx
<1>14. ReleaseExecution(s) => Same /\ Token /\ tx[s].pc = "release" /\ tx'[s].pc = "commit"
  BY <1>1 DEF ReleaseExecution, Statement, Tx
<1>15. PromoteExecution(s) => Same /\ Token /\ tx[s].pc = "promote" /\ tx'[s].pc = "commit"
  BY <1>1 DEF PromoteExecution, Statement, Tx
<1>16. tx[s].pc \in {"insert", "select", "number", "upsert", "beat", "release", "promote"} =>
         tx[s].kind \notin {"complete", "fail"}
  BY <1>1 DEF Fits, ReportFits
<1>17. PICK t : t = tx'[s]
  OBVIOUS
<1>18. \/ t = NoTx
       \/ /\ tx[s].pc # "none" /\ t.kind = tx[s].kind /\ t.now = tx[s].now
          /\ IF tx[s].pc = "number"
             THEN t.pc = "upsert" /\ t.token = NextToken /\ NextToken <= MaxToken
             ELSE t.pc \notin {"none", "number", "upsert"} \/ tx[s].pc \in {"select", "upsert"}
          /\ tx[s].pc # "number" => t.token = tx[s].token
          /\ tx[s].pc = "select" => t.pc = "number"
          /\ tx[s].pc = "upsert" => t.pc = "commit"
  BY <1>4, <1>5, <1>6, <1>7, <1>8, <1>9, <1>10, <1>11, <1>12, <1>13, <1>14, <1>15, <1>17 DEF Proceed
<1>19. Accepted(t) => Accepted(tx[s]) \/ (tx[s].pc = "check" /\ OwnsLease(tx[s]))
  <2>1. ~Accepted(NoTx)
    BY Nulls DEF Accepted
  <2> QED
    BY <2>1, <1>4, <1>5, <1>6, <1>7, <1>8, <1>9, <1>10, <1>11, <1>12, <1>13, <1>14, <1>15, <1>16, <1>17
    DEF Proceed, Accepted
<1>20. StatementLeaves(s, t)
  BY <1>3, <1>17, <1>18, <1>19 DEF StatementLeaves
<1> QED
  BY <1>20

\* A statement keeps PunctualInv.
LEMMA ProceedPunctual ==
  ASSUME StatementsInv, PunctualInv, NEW s \in Sessions, Proceed(s), ~Commit(s), UNCHANGED mode
  PROVE  PunctualInv'
<1>1. PICK t : StatementLeaves(s, t)
  BY ProceedLeaves
<1>2. t # NoTx => t.now = clock
  BY <1>1, Nulls DEF StatementLeaves, PunctualInv
<1>3. Accepted(t) => OwnsLease(t) \/ Decided
  <2>1. t # NoTx /\ tx[s].pc # "number" => (OwnsLease(t) <=> OwnsLease(tx[s]))
    BY <1>1 DEF StatementLeaves, OwnsLease
  <2>2. ~Accepted(NoTx) /\ (Accepted(t) => tx[s].pc # "number")
    BY <1>1, Nulls DEF Accepted, StatementLeaves
  <2> QED
    BY <1>1, <2>1, <2>2 DEF StatementLeaves, PunctualInv
<1> QED
  BY <1>1, <1>2, <1>3, PunctualStep DEF StatementLeaves

\* What each commit finds in the tables and leaves there.
LEMMA CommitPunctual ==
  ASSUME OneScheduler, StatementsInv, PunctualInv, NEW s \in Sessions, Commit(s), UNCHANGED mode
  PROVE  PunctualInv'
<1>1. /\ tx[s] \in Tx /\ Fits(s, tx[s]) /\ tx[s].kind \in Kinds /\ tx[s].pc = "commit"
      /\ tx[s].now = clock /\ clock \in Nat
      /\ row \in Row /\ lease \in LeaseRow /\ retry_at \in Nat \cup {NoRetry}
  BY AtCommit, Nulls, StatementsAssumption DEF Commit, PunctualInv, StatementsInv, TypesFit
<1>2. /\ row' = IF "execution" \in tx[s].locks THEN tx[s].row ELSE row
      /\ lease' = IF "lease" \in tx[s].locks THEN tx[s].lease ELSE lease
      /\ retry_at' = IF "retry" \in tx[s].locks THEN tx[s].retry ELSE retry_at
      /\ clock' = clock
  BY DEF Commit
<1>3. tx'[s] = NoTx /\ \A r \in Sessions \ {s} : tx'[r] = tx[r]
  BY DEF Commit, StatementsInv, TypesFit
<1>4. \A r \in Sessions : tx'[r] # NoTx => tx'[r].now = clock'
  BY <1>2, <1>3 DEF PunctualInv
<1>5. \A r \in Schedulers : \/ pass'[r] = pass[r] /\ r # s
                            \/ pass'[r].pc \in {"listed", "idle"}
  BY DEF Commit, StatementsInv, TypesFit, NoPass
<1>6. \A r \in Schedulers : PassFresh(r)
  BY DEF PunctualInv
<1>7. \A r \in Sessions : Accepted(tx[r]) => r \in Sessions /\ tx[r].now = clock /\ (OwnsLease(tx[r]) \/ Decided)
  BY Nulls DEF PunctualInv, Accepted
<1>8. /\ HasLease => row.status = "running"
      /\ retry_at # NoRetry => row.status \in {"pending", "completed", "failed"}
  BY DEF PunctualInv
<1>9. ~Accepted(NoTx)
  BY Nulls DEF Accepted
\* No pass is about to act and no report is accepted: whatever the commit writes.
<1>10. ASSUME \A r \in Schedulers : pass'[r].pc \notin {"expire", "promote"},
              \A r \in Sessions : ~Accepted(tx[r]) \/ r = s,
              HasLease' => row'.status = "running",
              retry_at' # NoRetry => row'.status \in {"pending", "completed", "failed"}
       PROVE  PunctualInv'
  <2>1. \A r \in Schedulers : PassFresh(r)'
    BY <1>10 DEF PassFresh
  <2>2. \A r \in Sessions : ~Accepted(tx[r])'
    BY <1>3, <1>9, <1>10 DEF Accepted
  <2> QED
    BY <1>4, <1>10, <2>1, <2>2 DEF PunctualInv
\* The tables, but for the history, stay as they are.
<1>11. ASSUME UNCHANGED <<row, lease, retry_at>>
       PROVE  PunctualInv'
  <2>1. \A r \in Schedulers : PassFresh(r)'
    BY <1>2, <1>5, <1>6, <1>11 DEF PassFresh, HasLease
  <2>2. ASSUME NEW r \in Sessions PROVE (Accepted(tx[r]) => OwnsLease(tx[r]) \/ Decided)'
    <3>1. CASE r = s
      BY <1>3, <1>9, <3>1 DEF Accepted
    <3>2. CASE r # s
      BY <1>2, <1>3, <1>7, <1>11, <3>2 DEF Accepted, OwnsLease, HasLease, Decided
    <3> QED
      BY <3>1, <3>2
  <2> QED
    BY <1>4, <1>8, <1>11, <2>1, <2>2 DEF PunctualInv, HasLease
<1>12. ~HasLease /\ retry_at = NoRetry => \A r \in Schedulers : pass'[r].pc \notin {"expire", "promote"}
  BY <1>5, <1>6 DEF PassFresh
<1>13. CASE tx[s].kind = "submit"
  <2>1. SubmitFits(tx[s])
    BY <1>1, <1>13 DEF Fits
  <2>2. CASE row.status = "absent"
    <3>1. ~HasLease /\ retry_at = NoRetry
      BY <1>8, <2>2
    <3>2. \A r \in Sessions : ~Accepted(tx[r])
      BY <1>7, <2>2, <3>1 DEF OwnsLease, Decided
    <3>3. ~HasLease' /\ retry_at' = NoRetry
      BY <1>1, <1>2, <2>1, <3>1 DEF SubmitFits, HasLease
    <3> QED
      BY <1>10, <1>12, <3>1, <3>2, <3>3
  <2>3. CASE row.status # "absent"
    BY <1>1, <1>2, <1>11, <2>1, <2>3 DEF SubmitFits
  <2> QED
    BY <2>2, <2>3
<1>14. CASE tx[s].kind = "claim"
  <2>1. ClaimFits(s, tx[s])
    BY <1>1, <1>14 DEF Fits
  <2>2. /\ row.status = "ready" /\ tx[s].locks = {"execution", "lease"}
        /\ tx[s].row.status = "running"
    BY <1>1, <2>1 DEF ClaimFits, Row
  <2>3. ~HasLease /\ retry_at = NoRetry
    BY <1>8, <2>2
  <2>4. \A r \in Sessions : ~Accepted(tx[r])
    BY <1>7, <2>2, <2>3 DEF OwnsLease, Decided
  <2> QED
    BY <1>2, <1>10, <1>12, <2>2, <2>3, <2>4
<1>15. CASE tx[s].kind \in {"complete", "fail"}
  <2>1. ReportFits(tx[s])
    BY <1>1, <1>15 DEF Fits
  <2>2. CASE "execution" \notin tx[s].locks
    BY <1>1, <1>2, <1>11, <2>1, <2>2 DEF ReportFits
  <2>3. CASE "execution" \in tx[s].locks
    <3>1. /\ "share" \notin tx[s].locks /\ Reported(tx[s]) /\ tx[s].lease = NoLease
          /\ ("lease" \in tx[s].locks <=> HasLease)
      BY <1>1, <2>1, <2>3 DEF ReportFits
    <3>2. OwnsLease(tx[s]) \/ Decided
      BY <1>1, <1>7, <1>15, <3>1 DEF Accepted
    <3>3. ~HasLease'
      BY <1>2, <3>1, Nulls DEF HasLease
    <3>4. row'.status \in {"completed", "failed", "pending"}
      BY <1>1, <1>2, <2>3, <3>1 DEF Reported, Row
    <3>5. retry_at # NoRetry => retry_at > clock
      BY <1>8, <3>2 DEF OwnsLease, Decided
    <3>6. retry_at' # NoRetry => retry_at' > clock
      <4>1. CASE "retry" \notin tx[s].locks
        BY <1>2, <3>5, <4>1
      <4>2. CASE "retry" \in tx[s].locks
        <5>1. ~Terminal /\ retry_at' = clock + Backoff(row.attempts)
          BY <1>1, <1>2, <3>1, <4>2 DEF Reported
        <5>2. row.attempts \in Nat /\ MaxAttempts \in Nat
          BY RowVersions, StatementsAssumption
        <5>3. row.attempts < MaxAttempts
          BY <5>1, <5>2 DEF Terminal
        <5> QED
          BY <1>1, <5>1, <5>2, <5>3, RetryType
      <4> QED
        BY <4>1, <4>2
    <3>7. Decided'
      BY <1>2, <3>3, <3>4, <3>6 DEF Decided
    <3>8. \A r \in Schedulers : pass[r].pc \notin {"expire", "promote"}
      <4>1. ~(HasLease /\ lease.expires < clock)
        BY <1>1, <3>2 DEF OwnsLease, Decided, LeaseRow
      <4>2. ~(retry_at # NoRetry /\ retry_at <= clock)
        BY <1>1, <3>5
      <4> QED
        BY <1>6, <4>1, <4>2 DEF PassFresh
    <3>9. \A r \in Schedulers : PassFresh(r)'
      BY <1>5, <3>8 DEF PassFresh
    <3> QED
      BY <1>4, <3>3, <3>4, <3>7, <3>9 DEF PunctualInv
  <2> QED
    BY <2>2, <2>3
<1>16. CASE tx[s].kind = "heartbeat"
  <2>1. HeartbeatFits(tx[s])
    BY <1>1, <1>16 DEF Fits
  <2>2. /\ tx[s].locks = {"lease", "share"} /\ HasLease /\ lease.expires > clock
        /\ tx[s].lease = [lease EXCEPT !.expires = clock + LeaseSeconds]
    BY <1>1, <2>1 DEF HeartbeatFits, OwnsLease
  <2>3. /\ row' = row /\ retry_at' = retry_at /\ HasLease'
        /\ lease'.fencing_token = lease.fencing_token /\ lease'.expires = clock + LeaseSeconds
    BY <1>1, <1>2, <2>2 DEF HasLease, LeaseRow
  <2>4. \A r \in Schedulers : pass[r].pc \notin {"expire", "promote"}
    <3>1. ~(lease.expires < clock)
      BY <1>1, <2>2 DEF LeaseRow
    <3>2. retry_at = NoRetry
      BY <1>8, <2>2
    <3> QED
      BY <1>6, <3>1, <3>2 DEF PassFresh
  <2>5. \A r \in Schedulers : PassFresh(r)'
    BY <1>5, <2>4 DEF PassFresh
  <2>6. ASSUME NEW r \in Sessions PROVE (Accepted(tx[r]) => OwnsLease(tx[r]) \/ Decided)'
    <3>1. CASE r = s
      BY <1>3, <1>9, <3>1 DEF Accepted
    <3>2. ASSUME r # s, Accepted(tx[r]) PROVE OwnsLease(tx[r])'
      <4>1. tx[r].now = clock /\ OwnsLease(tx[r]) /\ tx'[r] = tx[r]
        BY <1>3, <1>7, <2>2, <3>2 DEF Decided
      <4>2. clock + LeaseSeconds > clock
        BY <1>1, StatementsAssumption
      <4> QED
        BY <2>3, <4>1, <4>2 DEF OwnsLease
    <3>3. r # s /\ Accepted(tx[r])' => Accepted(tx[r])
      BY <1>3 DEF Accepted
    <3> QED
      BY <3>1, <3>2, <3>3
  <2> QED
    BY <1>4, <1>8, <2>2, <2>3, <2>5, <2>6 DEF PunctualInv
<1>17. CASE tx[s].kind = "expire"
  <2>1. ExpireFits(s, tx[s])
    BY <1>1, <1>17 DEF Fits
  <2>2. s \in Schedulers /\ HasLease /\ lease.expires < clock /\ row.status = "running" /\ retry_at = NoRetry
    BY <1>6, <1>8, <2>1 DEF ExpireFits, PassFresh
  <2>3. ~HasLease' /\ retry_at' = NoRetry
    BY <1>1, <1>2, <2>1, <2>2, Nulls DEF ExpireFits, HasLease
  <2>4. \A r \in Schedulers : pass'[r].pc \notin {"expire", "promote"}
    BY <1>5, <2>2 DEF OneScheduler
  <2>5. \A r \in Sessions : ~Accepted(tx[r])
    BY <1>1, <1>7, <2>2 DEF OwnsLease, Decided, LeaseRow
  <2> QED
    BY <1>10, <2>3, <2>4, <2>5
<1>18. CASE tx[s].kind = "promote"
  <2>1. PromoteFits(s, tx[s])
    BY <1>1, <1>18 DEF Fits
  <2>2. s \in Schedulers /\ retry_at # NoRetry /\ retry_at <= clock /\ ~HasLease
    BY <1>6, <1>8, <2>1 DEF PromoteFits, PassFresh
  <2>3. ~HasLease' /\ retry_at' = NoRetry
    BY <1>1, <1>2, <2>1, <2>2 DEF PromoteFits, HasLease
  <2>4. \A r \in Schedulers : pass'[r].pc \notin {"expire", "promote"}
    BY <1>5, <2>2 DEF OneScheduler
  <2>5. \A r \in Sessions : ~Accepted(tx[r])
    BY <1>1, <1>7, <2>2 DEF OwnsLease, Decided
  <2> QED
    BY <1>10, <2>3, <2>4, <2>5
<1> QED
  BY <1>1, <1>13, <1>14, <1>15, <1>16, <1>17, <1>18, KindsAre

\* A transaction opens at the time of its BEGIN.
LEMMA BeginPunctual ==
  ASSUME StatementsInv, PunctualInv, BeginSome, UNCHANGED mode
  PROVE  PunctualInv'
<1>1. PICK s \in Sessions, kind \in Kinds : (\E token : Begin(s, kind, token)) /\ UNCHANGED pass
  <2>1. /\ Clients \subseteq Sessions /\ Schedulers \subseteq Sessions
        /\ \A w \in Workers : <<w, "main">> \in Sessions /\ <<w, "beat">> \in Sessions
    BY MainConnection DEF Sessions
  <2> QED
    BY <2>1, KindsAre DEF BeginSome, BeginSubmit, BeginForced, BeginClaim, BeginHeartbeat, BeginReport,
       BeginExpire, BeginPromote
<1>2. PICK token : Begin(s, kind, token)
  BY <1>1
<1>3. PICK t : t = [NoTx EXCEPT !.kind = kind, !.pc = First[kind], !.now = clock, !.token = token]
  OBVIOUS
<1>4. tx' = [tx EXCEPT ![s] = t] /\ UNCHANGED Tables
  BY <1>2, <1>3 DEF Begin, Tables
<1>5. t.now = clock /\ ~Accepted(t)
  BY <1>3, KindsAre DEF NoTx, Accepted
<1> QED
  BY <1>1, <1>4, <1>5, PunctualStep

\* A rolled back transaction is gone within its tick.
LEMMA RollbackPunctual ==
  ASSUME StatementsInv, PunctualInv, NEW s \in Sessions, Rollback(s), UNCHANGED mode
  PROVE  PunctualInv'
<1>1. tx' = [tx EXCEPT ![s] = NoTx] /\ UNCHANGED Tables /\ ~Accepted(NoTx)
  BY Nulls DEF Rollback, Tables, Accepted
<1>2. \A r \in Schedulers : pass'[r] \in {pass[r], NoPass}
  BY DEF Rollback, StatementsInv, TypesFit
<1> QED
  BY <1>1, <1>2, PunctualStep

\* A tick finds no transaction open; a SELECT lists what is true now.
LEMMA OutsidePunctual ==
  ASSUME StatementsInv, PunctualInv, mode # "late", UNCHANGED mode,
         \/ Tick
         \/ \E s \in Schedulers : SelectStale(s) \/ SelectDue(s)
         \/ \E w \in Workers : Forget(w)
  PROVE  PunctualInv'
<1>1. clock \in Nat /\ lease \in LeaseRow /\ retry_at \in Nat \cup {NoRetry}
  BY StatementsAssumption DEF StatementsInv, TypesFit
<1>2. CASE Tick
  <2>1. \A s \in Sessions : tx[s] = NoTx
    BY <1>2 DEF Tick
  <2>2. ~Accepted(NoTx)
    BY Nulls DEF Accepted
  <2>3. UNCHANGED <<row, lease, retry_at, tx, pass>> /\ clock' = clock + 1
    BY <1>2 DEF Tick
  <2>4. \A s \in Schedulers : PassFresh(s)'
    BY <1>1, <2>3 DEF PunctualInv, PassFresh, HasLease, LeaseRow
  <2> QED
    BY <2>1, <2>2, <2>3, <2>4 DEF PunctualInv, HasLease, Accepted
<1>3. ASSUME NEW s \in Schedulers, SelectStale(s) \/ SelectDue(s) PROVE PunctualInv'
  <2>1. UNCHANGED <<clock, row, lease, retry_at, tx>>
    BY <1>3 DEF SelectStale, SelectDue
  <2>2. /\ \A r \in Schedulers \ {s} : pass'[r] = pass[r]
        /\ pass'[s].pc = "expire" => HasLease /\ lease.expires < clock
        /\ pass'[s].pc = "promote" => retry_at # NoRetry /\ retry_at <= clock
    <3>1. pass \in [Schedulers -> [pc : {"idle", "expire", "listed", "promote"}, seen : Nat]]
      BY DEF StatementsInv, TypesFit
    <3>2. CASE SelectStale(s)
      BY <3>1, <3>2 DEF SelectStale
    <3>3. CASE SelectDue(s)
      BY <3>1, <3>3 DEF SelectDue, NoPass
    <3> QED
      BY <1>3, <3>2, <3>3
  <2>3. \A r \in Schedulers : PassFresh(r)'
    BY <2>1, <2>2 DEF PunctualInv, PassFresh, HasLease
  <2> QED
    BY <2>1, <2>3 DEF PunctualInv, HasLease, Accepted, OwnsLease, Decided
<1>4. ASSUME NEW w \in Workers, Forget(w) PROVE PunctualInv'
  BY <1>4 DEF Forget, PunctualInv, HasLease, Accepted, OwnsLease, Decided, PassFresh
<1> QED
  BY <1>2, <1>3, <1>4

\* Initially nothing is open.
LEMMA PunctualInit == Init => PunctualInv
<1> SUFFICES ASSUME Init PROVE PunctualInv
  OBVIOUS
<1>1. /\ \A s \in Sessions : tx[s] = NoTx
      /\ \A s \in Schedulers : pass[s].pc = "idle"
      /\ ~HasLease /\ retry_at = NoRetry
  BY Nulls DEF Init, NoPass, HasLease
<1> QED
  BY <1>1, Nulls DEF PunctualInv, PassFresh, Accepted

\* Every step of such a behaviour keeps PunctualInv.
LEMMA PunctualKeep ==
  ASSUME OneScheduler, StatementsInv, mode # "late", PunctualInv, [Next]_vars
  PROVE  mode' # "late" /\ PunctualInv'
<1>1. CASE UNCHANGED vars
  BY <1>1 DEF vars, PunctualInv, HasLease, Accepted, OwnsLease, Decided, PassFresh
<1>2. CASE Next
  <2>1. UNCHANGED mode /\ Step
    BY <1>2 DEF Next
  <2>2. CASE BeginSome
    BY <2>1, <2>2, BeginPunctual
  <2>3. ASSUME NEW s \in Sessions, Proceed(s) \/ Abort(s) \/ DeadlockVictim(s)
        PROVE  PunctualInv'
    BY <2>1, <2>3, ProceedPunctual, CommitPunctual, RollbackPunctual DEF Abort, DeadlockVictim
  <2>4. CASE \/ Tick
             \/ \E s \in Schedulers : SelectStale(s) \/ SelectDue(s)
             \/ \E w \in Workers : Forget(w)
    BY <2>1, <2>4, OutsidePunctual
  <2> QED
    BY <2>1, <2>2, <2>3, <2>4 DEF Step
<1> QED
  BY <1>1, <1>2

\* PunctualInv, where transactions end within the tick they began in.
Punctual == mode # "late" => PunctualInv

\* With one scheduler and no transaction open across a tick, tables, passes and
\* accepted reports agree.
THEOREM PunctualInvariant ==
  ASSUME OneScheduler
  PROVE  Spec => []Punctual
<1>1. Init => Punctual
  BY PunctualInit DEF Punctual
<1>2. StatementsInv /\ Punctual /\ [Next]_vars => Punctual'
  <2> SUFFICES ASSUME StatementsInv, Punctual, [Next]_vars, mode' # "late" PROVE PunctualInv'
    BY DEF Punctual
  <2>1. mode' = mode
    BY DEF Next, vars
  <2> QED
    BY <2>1, PunctualKeep DEF Punctual
<1> QED
  BY <1>1, <1>2, StatementsInvariant, PTL DEF Spec

\* Within a tick a lease is never both expired for the reaper and live for a
\* report, nor live while the execution is ready: no circle can close.
THEOREM NobodyWaitsInACircle ==
  ASSUME OneScheduler
  PROVE  Spec => []NoWaitCycle
<1>1. StatementsInv /\ Punctual => NoWaitCycle
  <2> SUFFICES ASSUME StatementsInv, PunctualInv,
                      NEW D \in SUBSET {s \in Sessions : Blockers(s) # {}}, Stuck(D)
               PROVE  FALSE
    BY DEF NoWaitCycle, Punctual
  <2>1. D \in SUBSET Sessions
    OBVIOUS
  <2>2. PICK e, r \in D : e \in Blockers(r) /\ r \in Blockers(e) /\ "lease" \in tx[e].locks
    BY <2>1, StuckPair
  <2>3. e \in Sessions /\ r \in Sessions
    BY <2>1
  <2>4. /\ Fits(e, tx[e]) /\ Fits(r, tx[r])
        /\ clock \in Nat /\ lease \in LeaseRow
        /\ tx[r].kind # "none" => tx[r].now = clock
    BY <2>3, Nulls, StatementsAssumption DEF StatementsInv, TypesFit, PunctualInv
  <2>5. CASE tx[e].kind = "expire" /\ tx[r].kind \in {"complete", "fail"} /\ tx[r].pc = "delete"
    <3>1. HasLease /\ lease.expires < clock
      BY <2>3, <2>4, <2>5 DEF Fits, ExpireFits, PunctualInv, PassFresh
    <3>2. Accepted(tx[r])
      BY <2>4, <2>5 DEF Fits, ReportFits, Accepted
    <3>3. OwnsLease(tx[r])
      BY <2>3, <3>1, <3>2 DEF PunctualInv, Decided
    <3> QED
      BY <2>4, <2>5, <3>1, <3>3 DEF OwnsLease, LeaseRow
  <2>6. CASE tx[e].pc = "event" /\ tx[r].kind = "claim" /\ HasLease
    <3>1. "execution" \in tx[r].locks
      BY <2>2, <2>3, <2>6, WaitsForHolder
    <3>2. row.status = "ready"
      BY <2>4, <2>6, <3>1 DEF Fits, ClaimFits
    <3> QED
      BY <2>6, <3>2 DEF PunctualInv
  <2> QED
    BY <2>2, <2>3, <2>5, <2>6, MutualWait
<1> QED
  BY <1>1, StatementsInvariant, PunctualInvariant, PTL

-----------------------------------------------------------------------------
(* Orderly behaviours: tokens come from the history, and one report at most   *)
(* is out under each.                                                         *)

Refused(t) == t.kind \in {"complete", "fail"} /\ (t.pc = "event" \/ "share" \in t.locks)

Reporting(t) == t.kind \in {"complete", "fail"}

\* Where the token of an open transaction comes from.
TokenFits(t) ==
  /\ t.kind # "claim" => t.token \in LogTokens
  /\ t.kind = "claim" /\ t.pc \in {"upsert", "commit"} => t.token = NextToken /\ NextToken <= MaxToken
  /\ t.kind \in {"heartbeat", "complete", "fail"} => t.token # 0
  /\ t.kind \in {"submit", "expire", "promote"} => t.token = 0

\* Whether a report owns the lease is still what it was when it checked.
VerdictHolds(t) == (Accepted(t) => OwnsLease(t)) /\ (Refused(t) => ~OwnsLease(t))

HandsFit ==
  /\ \A w \in Workers : hand[w] \in LogTokens
  /\ \A w, v \in Workers : w # v /\ hand[w] # 0 => hand[w] # hand[v]

\* Whoever reports under a token has given it up, and nobody else has it.
OneReport ==
  \A s \in Sessions : Reporting(tx[s]) =>
    /\ \A w \in Workers : hand[w] # tx[s].token
    /\ \A r \in Sessions : s # r /\ Reporting(tx[r]) => tx[s].token # tx[r].token

OrderlyInv ==
  /\ retry_at # NoRetry => row.status = "pending"
  /\ \A s \in Schedulers : pass[s].pc = "expire" => pass[s].seen = row.attempts
  /\ \A s \in Sessions : TokenFits(tx[s]) /\ VerdictHolds(tx[s])
  /\ HandsFit /\ OneReport

\* A step of one session that leaves tables and hands alone.
LEMMA OrderlyStep ==
  ASSUME StatementsInv, OrderlyInv, NEW s \in Sessions, NEW t,
         tx' = [tx EXCEPT ![s] = t], UNCHANGED Tables, UNCHANGED hand,
         Reporting(t) => Reporting(tx[s]) /\ t.token = tx[s].token,
         TokenFits(t), VerdictHolds(t),
         \A r \in Schedulers : pass'[r] \in {pass[r], NoPass}
  PROVE  OrderlyInv'
<1>1. \A r \in Sessions : tx'[r] = IF r = s THEN t ELSE tx[r]
  BY DEF StatementsInv, TypesFit
<1>2. UNCHANGED <<clock, row, lease, retry_at, log, hand>> /\ LogTokens' = LogTokens /\ NextToken' = NextToken
  BY DEF Tables, LogTokens, NextToken
<1>3. TokenFits(t)' /\ VerdictHolds(t)'
  BY <1>2 DEF TokenFits, VerdictHolds, OwnsLease, HasLease
<1>4. ASSUME NEW r \in Sessions \ {s} PROVE (TokenFits(tx[r]) /\ VerdictHolds(tx[r]))'
  <2>1. TokenFits(tx[r]) /\ VerdictHolds(tx[r]) /\ tx'[r] = tx[r]
    BY <1>1 DEF OrderlyInv
  <2> QED
    BY <1>2, <2>1 DEF TokenFits, VerdictHolds, OwnsLease, HasLease, Accepted, Refused
<1>5. (TokenFits(tx[s]) /\ VerdictHolds(tx[s]))'
  BY <1>1, <1>2, <1>3 DEF TokenFits, VerdictHolds, OwnsLease, HasLease, Accepted, Refused
<1>6. HandsFit'
  BY <1>2 DEF OrderlyInv, HandsFit
<1>7. \A r \in Sessions : Reporting(tx[r])' => Reporting(tx[r]) /\ tx'[r].token = tx[r].token
  BY <1>1 DEF Reporting
<1>8. OneReport'
  BY <1>2, <1>7 DEF OrderlyInv, OneReport
<1>9. \A r \in Schedulers : pass'[r].pc = "expire" => pass'[r].seen = row'.attempts
  BY <1>2 DEF OrderlyInv, NoPass
<1>10. \A r \in Sessions : (TokenFits(tx[r]) /\ VerdictHolds(tx[r]))'
  BY <1>4, <1>5
<1> QED
  BY <1>2, <1>6, <1>8, <1>9, <1>10 DEF OrderlyInv

\* A session without a transaction reports nothing.
LEMMA NothingOpenFits == TokenFits(NoTx) /\ VerdictHolds(NoTx) /\ ~Reporting(NoTx)
  BY Nulls DEF NoTx, TokenFits, VerdictHolds, LogTokens, Accepted, Refused, Reporting

\* The place of a session tells which statement it goes on with.
LEMMA ProceedAt ==
  ASSUME NEW s \in Sessions, Proceed(s)
  PROVE  /\ tx[s].pc = "check" => CheckLease(s)
         /\ tx[s].pc = "write" => WriteCompleted(s) \/ WriteFailed(s)
         /\ tx[s].pc = "delete" => DeleteLease(s)
         /\ tx[s].pc = "commit" => Commit(s)
  BY DEF Proceed, InsertExecution, SelectReady, SkipLocked, NumberToken, UpsertLease, CheckLease,
     WriteCompleted, WriteFailed, InsertEvent, DeleteLease, UpdateLease, RejectHeartbeat,
     ReleaseExecution, PromoteExecution, Commit, Statement

\* Where a report stands decides whether it was accepted.
LEMMA RefusedSteps ==
  ASSUME StatementsInv, NEW s \in Sessions, NEW t, Proceed(s), ~Commit(s), StatementLeaves(s, t), Refused(t)
  PROVE  Refused(tx[s]) \/ (tx[s].pc = "check" /\ ~OwnsLease(tx[s]))
<1>1. /\ tx[s] \in Tx /\ Fits(s, tx[s]) /\ tx'[s] = t /\ t.kind = tx[s].kind
      /\ tx \in [Sessions -> Tx]
  BY Nulls DEF StatementsInv, TypesFit, StatementLeaves, Refused
<1>2. ReportFits(tx[s])
  BY <1>1 DEF Fits, Refused
<1>3. CASE tx[s].pc = "check"
  <2>1. CheckLease(s)
    BY <1>3, ProceedAt
  <2>2. OwnsLease(tx[s]) => t.pc = "write" /\ t.locks = tx[s].locks
    BY <1>1, <2>1 DEF CheckLease, Statement, Tx
  <2>3. tx[s].locks = {}
    BY <1>2, <1>3 DEF ReportFits
  <2> QED
    BY <1>3, <2>2, <2>3 DEF Refused
<1>4. CASE tx[s].pc = "write"
  <2>1. WriteCompleted(s) \/ WriteFailed(s)
    BY <1>4, ProceedAt
  <2>2. ASSUME NEW new, Statement(s, "write", new) PROVE t = new
    BY <1>1, <2>2 DEF Statement
  <2>3. CASE WriteCompleted(s)
    <3>1. t = [tx[s] EXCEPT !.pc = "delete", !.locks = {"execution"}, !.types = <<"completed">>,
                  !.row = [row EXCEPT !.status = "completed", !.result = tx[s].token, !.error = "none"]]
      BY <2>2, <2>3 DEF WriteCompleted
    <3>2. t.pc = "delete" /\ "share" \notin t.locks
      BY <1>1, <3>1 DEF Tx
    <3> QED
      BY <3>2 DEF Refused
  <2>4. CASE WriteFailed(s)
    <3> DEFINE locks == IF Terminal THEN {"execution"} ELSE {"execution", "retry"}
               types == IF Terminal THEN <<"failed">> ELSE <<"retry_scheduled">>
               new == [row EXCEPT !.status = IF Terminal THEN "failed" ELSE "pending", !.error = "handler"]
               due == IF Terminal THEN NoRetry ELSE tx[s].now + Backoff(row.attempts)
    <3>1. t = [tx[s] EXCEPT !.pc = "delete", !.locks = locks, !.types = types, !.row = new, !.retry = due]
      BY <2>2, <2>4 DEF WriteFailed
    <3>2. "share" \notin locks
      OBVIOUS
    <3> HIDE DEF locks, types, new, due
    <3>3. t.pc = "delete" /\ t.locks = locks
      BY <1>1, <3>1 DEF Tx
    <3> QED
      BY <3>2, <3>3 DEF Refused
  <2> QED
    BY <2>1, <2>3, <2>4
<1>5. CASE tx[s].pc = "delete"
  <2>1. DeleteLease(s)
    BY <1>5, ProceedAt
  <2>2. t.pc \in {"release", "commit"} /\ t.locks \subseteq tx[s].locks \cup {"lease"}
    BY <1>1, <2>1 DEF DeleteLease, Statement, Tx
  <2> QED
    BY <1>1, <2>2 DEF Refused
<1>6. CASE tx[s].pc \in {"event", "commit"}
  <2>1. tx[s].pc # "commit"
    BY ProceedAt
  <2> QED
    BY <1>1, <1>6, <2>1 DEF Refused
<1> QED
  BY <1>2, <1>3, <1>4, <1>5, <1>6 DEF ReportFits

\* A statement keeps OrderlyInv.
LEMMA ProceedOrderly ==
  ASSUME StatementsInv, OrderlyInv, NEW s \in Sessions, Proceed(s), ~Commit(s), UNCHANGED mode
  PROVE  OrderlyInv'
<1>1. PICK t : StatementLeaves(s, t)
  BY ProceedLeaves
<1>2. TokenFits(tx[s]) /\ VerdictHolds(tx[s]) /\ tx[s] \in Tx /\ Fits(s, tx[s])
  BY DEF OrderlyInv, StatementsInv, TypesFit
<1>3. tx[s].pc \in {"number", "select", "upsert"} => tx[s].kind = "claim"
  BY <1>2, KindsAre, Nulls
  DEF Tx, Fits, SubmitFits, ReportFits, HeartbeatFits, ExpireFits, PromoteFits
<1>4. tx[s].kind = "claim" => tx[s].pc \in {"number", "select", "upsert", "commit"}
  BY <1>2 DEF Fits, ClaimFits
<1>5. tx[s].pc # "commit"
  BY ProceedAt
<1>6. TokenFits(t)
  <2>1. CASE t = NoTx
    BY <2>1, NothingOpenFits
  <2>2. CASE t # NoTx
    BY <1>1, <1>2, <1>3, <1>4, <1>5, <2>2 DEF StatementLeaves, TokenFits
  <2> QED
    BY <2>1, <2>2
<1>7. VerdictHolds(t)
  <2>1. CASE t = NoTx
    BY <2>1, NothingOpenFits
  <2>2. CASE t # NoTx
    <3>1. Accepted(t) \/ Refused(t) => (OwnsLease(t) <=> OwnsLease(tx[s]))
      BY <1>1, <1>3, <2>2 DEF StatementLeaves, OwnsLease, Accepted, Refused
    <3>2. Accepted(t) => OwnsLease(tx[s])
      BY <1>1, <1>2 DEF StatementLeaves, VerdictHolds
    <3>3. Refused(t) => ~OwnsLease(tx[s])
      BY <1>1, <1>2, RefusedSteps DEF VerdictHolds
    <3> QED
      BY <3>1, <3>2, <3>3 DEF VerdictHolds
  <2> QED
    BY <2>1, <2>2
<1>8. Reporting(t) => Reporting(tx[s]) /\ t.token = tx[s].token
  BY <1>1, <1>3, NothingOpenFits DEF StatementLeaves, Reporting
<1> QED
  BY <1>1, <1>6, <1>7, <1>8, OrderlyStep DEF StatementLeaves

\* A rolled back transaction reports nothing.
LEMMA RollbackOrderly ==
  ASSUME StatementsInv, OrderlyInv, NEW s \in Sessions, Rollback(s), UNCHANGED mode
  PROVE  OrderlyInv'
<1>1. tx' = [tx EXCEPT ![s] = NoTx] /\ UNCHANGED Tables /\ UNCHANGED hand
  BY DEF Rollback, Tables
<1>2. \A r \in Schedulers : pass'[r] \in {pass[r], NoPass}
  BY DEF Rollback, StatementsInv, TypesFit
<1> QED
  BY <1>1, <1>2, NothingOpenFits, OrderlyStep

-----------------------------------------------------------------------------
(* What each kind of transaction finds and leaves when it commits.           *)

\* What every commit meets.
LEMMA CommitMeets ==
  ASSUME StatementsInv, PunctualInv, OrderlyInv, NEW s \in Sessions, Commit(s)
  PROVE  /\ tx[s] \in Tx /\ Fits(s, tx[s]) /\ tx[s].kind \in Kinds /\ tx[s].pc = "commit"
         /\ tx[s].now = clock /\ clock \in Nat
         /\ row \in Row /\ lease \in LeaseRow /\ retry_at \in Nat \cup {NoRetry}
         /\ TokenFits(tx[s]) /\ VerdictHolds(tx[s])
         /\ row' = IF "execution" \in tx[s].locks THEN tx[s].row ELSE row
         /\ lease' = IF "lease" \in tx[s].locks THEN tx[s].lease ELSE lease
         /\ retry_at' = IF "retry" \in tx[s].locks THEN tx[s].retry ELSE retry_at
         /\ clock' = clock
         /\ HasLease => row.status = "running"
         /\ retry_at # NoRetry => row.status = "pending"
<1>1. tx[s].pc = "commit"
  BY DEF Commit
<1>2. tx[s] \in Tx /\ Fits(s, tx[s]) /\ tx[s].kind \in Kinds /\ tx[s].now = clock
  BY <1>1, AtCommit, Nulls DEF PunctualInv
<1>3. clock \in Nat /\ row \in Row /\ lease \in LeaseRow /\ retry_at \in Nat \cup {NoRetry}
  BY StatementsAssumption DEF StatementsInv, TypesFit
<1> QED
  BY <1>1, <1>2, <1>3 DEF Commit, PunctualInv, OrderlyInv

\* Submit inserts the row or finds one.
LEMMA SubmitCommits ==
  ASSUME StatementsInv, PunctualInv, OrderlyInv, NEW s \in Sessions, Commit(s), tx[s].kind = "submit"
  PROVE  /\ UNCHANGED <<lease, retry_at>> /\ "execution" \in tx[s].locks
         /\ \/ /\ row.status = "absent" /\ ~HasLease /\ retry_at = NoRetry
               /\ row' = [row EXCEPT !.status = "ready"] /\ tx[s].types = <<"submitted", "ready">>
            \/ row.status # "absent" /\ row' = row /\ tx[s].types = <<"duplicate_detected">>
<1>1. SubmitFits(tx[s])
  BY CommitMeets DEF Fits
<1> QED
  BY <1>1, CommitMeets DEF SubmitFits

\* A claim meets a ready execution without a lease.
LEMMA ClaimCommits ==
  ASSUME StatementsInv, PunctualInv, OrderlyInv, NEW s \in Sessions, Commit(s), tx[s].kind = "claim"
  PROVE  /\ s \in Workers \X {"main"} /\ WorkerOf(s) = s[1] /\ s[1] \in Workers /\ s[1] # NoWorker
         /\ row.status = "ready" /\ ~HasLease /\ retry_at = NoRetry /\ retry_at' = retry_at
         /\ row' = [row EXCEPT !.status = "running", !.attempts = @ + 1]
         /\ lease' = [worker_id |-> s[1], fencing_token |-> tx[s].token, expires |-> clock + LeaseSeconds]
         /\ tx[s].token = NextToken /\ NextToken <= MaxToken
         /\ tx[s].types = <<"claimed">> /\ "execution" \in tx[s].locks
<1>1. ClaimFits(s, tx[s]) /\ tx[s].token = NextToken /\ NextToken <= MaxToken
  BY CommitMeets DEF Fits, TokenFits
<1> QED
  BY <1>1, CommitMeets, WorkerOfType DEF ClaimFits

\* A rejected report still has no lease when it commits.
LEMMA RejectionCommits ==
  ASSUME StatementsInv, PunctualInv, OrderlyInv, NEW s \in Sessions, Commit(s),
         tx[s].kind \in {"complete", "fail"}, "share" \in tx[s].locks
  PROVE  /\ UNCHANGED <<row, lease, retry_at>>
         /\ ~OwnsLease(tx[s]) /\ tx[s].types = <<"stale_rejected">>
<1>1. ReportFits(tx[s]) /\ Refused(tx[s])
  BY CommitMeets DEF Fits, Refused
<1> QED
  BY <1>1, CommitMeets DEF ReportFits, VerdictHolds

\* An accepted report still has its lease when it commits.
LEMMA ReportCommits ==
  ASSUME StatementsInv, PunctualInv, OrderlyInv, NEW s \in Sessions, Commit(s),
         tx[s].kind \in {"complete", "fail"}, "share" \notin tx[s].locks
  PROVE  /\ OwnsLease(tx[s]) /\ row.status = "running" /\ retry_at = NoRetry
         /\ Reported(tx[s]) /\ "execution" \in tx[s].locks
         /\ row' = tx[s].row /\ lease' = NoLease
<1>1. ReportFits(tx[s]) /\ Accepted(tx[s])
  BY CommitMeets DEF Fits, Accepted
<1>2. OwnsLease(tx[s]) /\ HasLease
  BY <1>1, CommitMeets DEF VerdictHolds, OwnsLease
<1> QED
  BY <1>1, <1>2, CommitMeets DEF ReportFits

\* A heartbeat extends the lease of its token.
LEMMA HeartbeatCommits ==
  ASSUME StatementsInv, PunctualInv, OrderlyInv, NEW s \in Sessions, Commit(s), tx[s].kind = "heartbeat"
  PROVE  /\ OwnsLease(tx[s]) /\ row.status = "running" /\ retry_at = NoRetry
         /\ UNCHANGED <<row, retry_at>> /\ tx[s].types = <<"heartbeat">> /\ "share" \in tx[s].locks
         /\ lease' = [lease EXCEPT !.expires = clock + LeaseSeconds]
         /\ lease'.worker_id = lease.worker_id /\ lease'.fencing_token = lease.fencing_token
         /\ lease'.expires = clock + LeaseSeconds
<1>1. HeartbeatFits(tx[s])
  BY CommitMeets DEF Fits
<1>2. OwnsLease(tx[s]) /\ HasLease /\ tx[s].locks = {"lease", "share"} /\ tx[s].types = <<"heartbeat">>
      /\ tx[s].lease = [lease EXCEPT !.expires = clock + LeaseSeconds]
  BY <1>1, CommitMeets DEF HeartbeatFits, OwnsLease
<1>3. lease' = [lease EXCEPT !.expires = clock + LeaseSeconds] /\ UNCHANGED <<row, retry_at>>
  BY <1>2, CommitMeets
<1>4. /\ lease'.worker_id = lease.worker_id /\ lease'.fencing_token = lease.fencing_token
      /\ lease'.expires = clock + LeaseSeconds
  BY <1>3, CommitMeets DEF LeaseRow
<1> QED
  BY <1>2, <1>3, <1>4, CommitMeets

\* expireLease meets what its pass has read.
LEMMA ExpireCommits ==
  ASSUME StatementsInv, PunctualInv, OrderlyInv, NEW s \in Sessions, Commit(s), tx[s].kind = "expire"
  PROVE  /\ HasLease /\ lease.expires < clock /\ row.status = "running" /\ retry_at = NoRetry
         /\ lease' = NoLease /\ retry_at' = retry_at /\ "execution" \in tx[s].locks /\ s \in Schedulers
         /\ \/ /\ row.attempts >= MaxAttempts /\ tx[s].types = <<"lease_expired", "failed">>
               /\ row' = [row EXCEPT !.status = "failed", !.error = "lease"]
            \/ /\ row.attempts < MaxAttempts /\ tx[s].types = <<"lease_expired">>
               /\ row' = [row EXCEPT !.status = "ready"]
<1>1. ExpireFits(s, tx[s])
  BY CommitMeets DEF Fits
<1>2. s \in Schedulers /\ HasLease /\ lease.expires < clock /\ pass[s].seen = row.attempts
  BY <1>1 DEF ExpireFits, PunctualInv, PassFresh, OrderlyInv
<1>3. /\ tx[s].locks = {"share", "lease", "execution"} /\ tx[s].lease = NoLease
      /\ \/ /\ row.attempts >= MaxAttempts /\ tx[s].types = <<"lease_expired", "failed">>
            /\ tx[s].row = [row EXCEPT !.status = "failed", !.error = "lease"]
         \/ /\ row.attempts < MaxAttempts /\ tx[s].types = <<"lease_expired">>
            /\ tx[s].row = [row EXCEPT !.status = "ready"]
  BY <1>1, <1>2, CommitMeets DEF ExpireFits
<1> QED
  BY <1>2, <1>3, CommitMeets

\* promoteRetry meets a pending execution whose retry is due.
LEMMA PromoteCommits ==
  ASSUME StatementsInv, PunctualInv, OrderlyInv, NEW s \in Sessions, Commit(s), tx[s].kind = "promote"
  PROVE  /\ retry_at # NoRetry /\ retry_at <= clock /\ row.status = "pending" /\ ~HasLease
         /\ retry_at' = NoRetry /\ lease' = lease /\ "execution" \in tx[s].locks /\ s \in Schedulers
         /\ row' = [row EXCEPT !.status = "ready"] /\ tx[s].types = <<"ready">>
<1>1. PromoteFits(s, tx[s])
  BY CommitMeets DEF Fits
<1>2. s \in Schedulers /\ retry_at # NoRetry /\ retry_at <= clock
  BY <1>1 DEF PromoteFits, PunctualInv, PassFresh
<1> QED
  BY <1>1, <1>2, CommitMeets DEF PromoteFits

\* A new backoff is in the future.
LEMMA RetryCommits ==
  ASSUME StatementsInv, PunctualInv, OrderlyInv, NEW s \in Sessions, Commit(s),
         tx[s].kind \in {"complete", "fail"}, "share" \notin tx[s].locks
  PROVE  \/ /\ tx[s].kind = "complete" /\ tx[s].types = <<"completed">> /\ retry_at' = NoRetry
            /\ row' = [row EXCEPT !.status = "completed", !.result = tx[s].token, !.error = "none"]
         \/ /\ tx[s].kind = "fail" /\ row.attempts >= MaxAttempts /\ tx[s].types = <<"failed">>
            /\ row' = [row EXCEPT !.status = "failed", !.error = "handler"] /\ retry_at' = NoRetry
         \/ /\ tx[s].kind = "fail" /\ row.attempts < MaxAttempts /\ tx[s].types = <<"retry_scheduled">>
            /\ row' = [row EXCEPT !.status = "pending", !.error = "handler"]
            /\ retry_at' = clock + Backoff(row.attempts)
            /\ Backoff(row.attempts) \in Nat /\ retry_at' > clock /\ retry_at' # NoRetry
<1>1. Reported(tx[s]) /\ row' = tx[s].row /\ retry_at = NoRetry
  BY ReportCommits
<1>2. retry_at' = IF "retry" \in tx[s].locks THEN tx[s].retry ELSE retry_at
  BY CommitMeets
<1>3. row.attempts \in Nat /\ MaxAttempts \in Nat /\ clock \in Nat /\ tx[s].now = clock
  BY RowVersions, StatementsAssumption, CommitMeets
<1>4. CASE ~Terminal
  <2>1. row.attempts < MaxAttempts
    BY <1>3, <1>4 DEF Terminal
  <2>2. Backoff(row.attempts) \in Nat
    BY <1>3, <2>1, StatementsAssumption DEF Backoff
  <2>3. clock + Backoff(row.attempts) > clock /\ clock + Backoff(row.attempts) # NoRetry
    BY <1>3, <2>1, RetryType
  <2> QED
    BY <1>1, <1>2, <1>3, <1>4, <2>1, <2>2, <2>3 DEF Reported
<1>5. CASE Terminal
  BY <1>1, <1>2, <1>3, <1>5 DEF Reported, Terminal
<1> QED
  BY <1>4, <1>5

\* The history keeps its tokens and gets that of the transaction.
LEMMA TokensGrow ==
  ASSUME StatementsInv, PunctualInv, OrderlyInv, NEW s \in Sessions, Commit(s)
  PROVE  /\ LogTokens \subseteq LogTokens'
         /\ tx[s].kind = "claim" => tx[s].token \in LogTokens'
<1>1. /\ Len(tx[s].types) \in Nat /\ Len(log) \in Nat /\ DOMAIN log = 1..Len(log)
      /\ DOMAIN tx[s].types = 1..Len(tx[s].types)
      /\ DOMAIN log' = 1..(Len(log) + Len(tx[s].types))
      /\ \A i \in DOMAIN log : log'[i] = log[i]
      /\ \A i \in DOMAIN tx[s].types : log'[Len(log) + i].fencing_token = tx[s].token
  BY LogGrows DEF Commit
<1>2. \A i \in DOMAIN log : i \in DOMAIN log' /\ log'[i] = log[i]
  BY <1>1
<1>3. LogTokens \subseteq LogTokens'
  BY <1>2 DEF LogTokens
<1>4. tx[s].kind = "claim" => tx[s].token \in LogTokens'
  <2>1. ASSUME tx[s].kind = "claim" PROVE tx[s].token \in LogTokens'
    <3>1. tx[s].types = <<"claimed">>
      BY <2>1, ClaimCommits
    <3>2. 1 \in DOMAIN tx[s].types
      BY <3>1
    <3>3. Len(log) + 1 \in DOMAIN log' /\ log'[Len(log) + 1].fencing_token = tx[s].token
      BY <1>1, <3>2
    <3> QED
      BY <3>3 DEF LogTokens
  <2> QED
    BY <2>1
<1> QED
  BY <1>3, <1>4

\* Nobody commits while a claim has the row locked for update.
LEMMA NoClaimBetween ==
  ASSUME StatementsInv, PunctualInv, OrderlyInv, NEW s \in Sessions, Commit(s),
         NEW r \in Sessions \ {s}, tx[r].kind = "claim"
  PROVE  tx[r].pc \notin {"upsert", "commit"}
<1>1. "execution" \in tx[s].locks \/ "share" \in tx[s].locks
  BY CommitMeets, KindsAre, SubmitCommits, ClaimCommits, ReportCommits, HeartbeatCommits, ExpireCommits,
     PromoteCommits
<1>2. tx[r].pc \in {"upsert", "commit"} => "execution" \in tx[r].locks
  BY DEF StatementsInv, Fits, ClaimFits
<1> QED
  BY <1>1, <1>2 DEF StatementsInv, LocksExclude

\* A token numbered by MAX + 1 is nobody's yet.
LEMMA NextTokenIsNew ==
  ASSUME StatementsInv
  PROVE  NextToken \notin LogTokens /\ NextToken # 0 /\ NextToken \in Nat
  BY NextTokenExceeds, LogTypes DEF LogTokens

\* What other reports found about the lease stays true.
LEMMA CommitVerdicts ==
  ASSUME StatementsInv, PunctualInv, OrderlyInv, NEW s \in Sessions, Commit(s),
         NEW r \in Sessions \ {s}, Reporting(tx[r])
  PROVE  /\ Accepted(tx[r]) => OwnsLease(tx[r])'
         /\ Refused(tx[r]) => ~OwnsLease(tx[r])'
<1>1. /\ tx'[r] = tx[r] /\ tx[r].now = clock /\ tx[r].token \in LogTokens
      /\ Accepted(tx[r]) => OwnsLease(tx[r])
      /\ Refused(tx[r]) => ~OwnsLease(tx[r])
      /\ Reporting(tx[s]) => tx[r].token # tx[s].token
  BY Nulls DEF Commit, StatementsInv, TypesFit, PunctualInv, OrderlyInv, OneReport, TokenFits, VerdictHolds,
     Reporting
<1>2. /\ clock \in Nat /\ lease \in LeaseRow /\ clock' = clock /\ LeaseSeconds \in Nat \ {0}
      /\ tx[s].kind \in Kinds
  BY CommitMeets, StatementsAssumption
<1>3. ASSUME lease' = lease
      PROVE  /\ Accepted(tx[r]) => OwnsLease(tx[r])'
             /\ Refused(tx[r]) => ~OwnsLease(tx[r])'
  BY <1>1, <1>3 DEF OwnsLease, HasLease
<1>4. ASSUME ~OwnsLease(tx[r]), ~OwnsLease(tx[r])'
      PROVE  /\ Accepted(tx[r]) => OwnsLease(tx[r])'
             /\ Refused(tx[r]) => ~OwnsLease(tx[r])'
  BY <1>1, <1>4
<1>5. lease' = NoLease => ~OwnsLease(tx[r])'
  BY Nulls DEF OwnsLease, HasLease
<1>6. CASE tx[s].kind \in {"submit", "promote"}
  BY <1>3, <1>6, SubmitCommits, PromoteCommits
<1>7. CASE tx[s].kind = "claim"
  <2>1. ~HasLease /\ lease'.fencing_token = NextToken
    BY <1>7, ClaimCommits
  <2>2. tx[r].token # NextToken
    BY <1>1, NextTokenIsNew
  <2>3. ~OwnsLease(tx[r])'
    BY <1>1, <2>1, <2>2 DEF OwnsLease
  <2> QED
    BY <1>4, <2>1, <2>3 DEF OwnsLease
<1>8. CASE tx[s].kind \in {"complete", "fail"} /\ "share" \in tx[s].locks
  BY <1>3, <1>8, RejectionCommits
<1>9. CASE tx[s].kind \in {"complete", "fail"} /\ "share" \notin tx[s].locks
  <2>1. OwnsLease(tx[s]) /\ lease' = NoLease
    BY <1>9, ReportCommits
  <2>2. ~OwnsLease(tx[r])
    BY <1>1, <1>9, <2>1 DEF OwnsLease, Reporting
  <2> QED
    BY <1>4, <1>5, <2>1, <2>2
<1>10. CASE tx[s].kind = "heartbeat"
  <2>1. /\ HasLease /\ lease.expires > clock
        /\ lease'.worker_id = lease.worker_id /\ lease'.fencing_token = lease.fencing_token
        /\ lease'.expires > clock
    BY <1>2, <1>10, HeartbeatCommits, CommitMeets DEF OwnsLease
  <2>2. OwnsLease(tx[r]) <=> OwnsLease(tx[r])'
    BY <1>1, <2>1 DEF OwnsLease, HasLease
  <2> QED
    BY <1>1, <2>2
<1>11. CASE tx[s].kind = "expire"
  <2>1. lease.expires < clock /\ lease' = NoLease
    BY <1>11, ExpireCommits
  <2>2. ~OwnsLease(tx[r])
    BY <1>1, <1>2, <2>1 DEF OwnsLease, LeaseRow
  <2> QED
    BY <1>4, <1>5, <2>1, <2>2
<1> QED
  BY <1>2, <1>6, <1>7, <1>8, <1>9, <1>10, <1>11, KindsAre

\* COMMIT keeps OrderlyInv.
LEMMA CommitOrderly ==
  ASSUME StatementsInv, PunctualInv, OrderlyInv, NEW s \in Sessions, Commit(s), UNCHANGED mode
  PROVE  OrderlyInv'
<1>1. tx'[s] = NoTx /\ \A r \in Sessions \ {s} : tx'[r] = tx[r]
  BY DEF Commit, StatementsInv, TypesFit
<1>2. /\ tx[s].kind \in Kinds /\ row \in Row
      /\ hand' = IF tx[s].kind = "claim" THEN [hand EXCEPT ![s[1]] = tx[s].token] ELSE hand
      /\ hand \in [Workers -> Nat]
  BY CommitMeets DEF Commit, StatementsInv, TypesFit
<1>3. LogTokens \subseteq LogTokens' /\ (tx[s].kind = "claim" => tx[s].token \in LogTokens')
  BY TokensGrow
<1>4. ~Reporting(NoTx) /\ ~Accepted(NoTx) /\ ~Refused(NoTx)
  BY Nulls DEF Reporting, Accepted, Refused
<1>5. retry_at' # NoRetry => row'.status = "pending"
  <2>1. retry_at = NoRetry => (retry_at' # NoRetry => row'.status = "pending")
    <3>1. tx[s].kind \in {"complete", "fail"} =>
            (retry_at = NoRetry => (retry_at' # NoRetry => row'.status = "pending"))
      BY <1>2, RetryCommits, RejectionCommits DEF Row
    <3> QED
      BY <1>2, <3>1, KindsAre, SubmitCommits, ClaimCommits, HeartbeatCommits, ExpireCommits, PromoteCommits
  <2>2. retry_at # NoRetry => (retry_at' = NoRetry \/ (row' = row /\ retry_at' = retry_at))
    <3>1. retry_at # NoRetry => row.status = "pending"
      BY CommitMeets
    <3> QED
      BY <1>2, <3>1, KindsAre, SubmitCommits, ClaimCommits, RejectionCommits, ReportCommits, HeartbeatCommits,
         ExpireCommits, PromoteCommits
  <2> QED
    BY <2>1, <2>2, CommitMeets
<1>6. \A r \in Schedulers : pass'[r].pc = "expire" => pass'[r].seen = row'.attempts
  <2>1. \A r \in Schedulers : pass'[r] = pass[r] \/ pass'[r].pc # "expire"
    BY DEF Commit, StatementsInv, TypesFit, NoPass
  <2>2. tx[s].kind # "claim" => row'.attempts = row.attempts
    <3>1. tx[s].kind \in {"complete", "fail"} => row'.attempts = row.attempts
      BY <1>2, RetryCommits, RejectionCommits DEF Row
    <3>2. tx[s].kind \in {"submit", "expire", "promote", "heartbeat"} => row'.attempts = row.attempts
      BY <1>2, SubmitCommits, ExpireCommits, PromoteCommits, HeartbeatCommits DEF Row
    <3> QED
      BY <1>2, <3>1, <3>2, KindsAre
  <2>3. tx[s].kind = "claim" => \A r \in Schedulers : pass[r].pc # "expire"
    BY ClaimCommits DEF PunctualInv, PassFresh
  <2> QED
    BY <2>1, <2>2, <2>3 DEF OrderlyInv
<1>7. ASSUME NEW r \in Sessions \ {s} PROVE (TokenFits(tx[r]) /\ VerdictHolds(tx[r]))'
  <2>1. TokenFits(tx[r]) /\ tx'[r] = tx[r]
    BY <1>1 DEF OrderlyInv
  <2>2. tx[r].kind = "claim" => tx[r].pc \notin {"upsert", "commit"}
    BY NoClaimBetween
  <2>3. TokenFits(tx[r])'
    BY <1>3, <2>1, <2>2 DEF TokenFits
  <2>4. Accepted(tx[r]) \/ Refused(tx[r]) => Reporting(tx[r])
    BY DEF Accepted, Refused, Reporting
  <2>5. VerdictHolds(tx[r])'
    <3>1. /\ Accepted(tx[r]) => OwnsLease(tx[r])'
          /\ Refused(tx[r]) => ~OwnsLease(tx[r])'
      BY <2>4, CommitVerdicts
    <3> QED
      BY <2>1, <3>1 DEF VerdictHolds, Accepted, Refused
  <2> QED
    BY <2>3, <2>5
<1>8. (TokenFits(tx[s]) /\ VerdictHolds(tx[s]))'
  BY <1>1, Nulls DEF NoTx, TokenFits, VerdictHolds, LogTokens, Accepted, Refused
<1>9. /\ \A w \in Workers : hand'[w] = hand[w] \/ (tx[s].kind = "claim" /\ w = s[1] /\ hand'[w] = NextToken)
  BY <1>2, ClaimCommits
<1>10. NextToken \notin LogTokens /\ (tx[s].kind = "claim" => NextToken \in LogTokens')
  BY <1>3, NextTokenIsNew, ClaimCommits
<1>11. HandsFit
  BY DEF OrderlyInv
<1>12. HandsFit'
  <2>1. \A w \in Workers : hand'[w] \in LogTokens'
    BY <1>3, <1>9, <1>10, <1>11 DEF HandsFit
  <2>2. ASSUME NEW w \in Workers, NEW v \in Workers, w # v, hand'[w] # 0
        PROVE  hand'[w] # hand'[v]
    BY <1>9, <1>10, <1>11, <2>2 DEF HandsFit
  <2> QED
    BY <2>1, <2>2 DEF HandsFit
<1>13. OneReport'
  <2>1. ASSUME NEW r \in Sessions, Reporting(tx[r])'
        PROVE  r # s /\ tx'[r] = tx[r] /\ Reporting(tx[r]) /\ tx[r].token \in LogTokens
    <3>1. r # s
      BY <1>1, <1>4, <2>1 DEF Reporting
    <3>2. tx'[r] = tx[r] /\ Reporting(tx[r])
      BY <1>1, <2>1, <3>1 DEF Reporting
    <3> QED
      BY <3>1, <3>2 DEF OrderlyInv, TokenFits, Reporting
  <2>2. ASSUME NEW r \in Sessions, Reporting(tx[r])', NEW w \in Workers
        PROVE  hand'[w] # tx'[r].token
    BY <1>9, <1>10, <2>1, <2>2 DEF OrderlyInv, OneReport
  <2>3. ASSUME NEW r \in Sessions, Reporting(tx[r])', NEW q \in Sessions, r # q, Reporting(tx[q])'
        PROVE  tx'[r].token # tx'[q].token
    BY <2>1, <2>3 DEF OrderlyInv, OneReport
  <2> QED
    BY <2>2, <2>3 DEF OneReport
<1> QED
  BY <1>5, <1>6, <1>7, <1>8, <1>12, <1>13 DEF OrderlyInv

\* Only a handler that ends hands its token over to a report.
LEMMA BeginOrderly ==
  ASSUME StatementsInv, OrderlyInv, mode = "orderly", BeginSome, UNCHANGED mode
  PROVE  OrderlyInv'
<1>1. /\ Clients \subseteq Sessions /\ Schedulers \subseteq Sessions
      /\ \A w \in Workers : <<w, "main">> \in Sessions /\ <<w, "beat">> \in Sessions
  BY MainConnection DEF Sessions
<1>2. HandsFit /\ hand \in [Workers -> Nat] /\ 0 \in LogTokens
  BY DEF OrderlyInv, StatementsInv, TypesFit, LogTokens
<1>3. ASSUME NEW s \in Sessions, NEW kind \in Kinds \ {"complete", "fail"}, NEW token \in LogTokens,
             Begin(s, kind, token), UNCHANGED <<hand, pass>>,
             kind = "heartbeat" => token # 0, kind # "heartbeat" => token = 0
      PROVE  OrderlyInv'
  <2>1. PICK t : t = [NoTx EXCEPT !.kind = kind, !.pc = First[kind], !.now = clock, !.token = token]
    OBVIOUS
  <2>2. t.kind = kind /\ t.pc = First[kind] /\ t.token = token
    BY <2>1 DEF NoTx
  <2>3. TokenFits(t)
    BY <1>3, <2>2, KindsAre DEF TokenFits
  <2>4. VerdictHolds(t) /\ ~Reporting(t)
    BY <2>2 DEF VerdictHolds, Accepted, Refused, Reporting
  <2>5. tx' = [tx EXCEPT ![s] = t] /\ UNCHANGED Tables
    BY <1>3, <2>1 DEF Begin, Tables
  <2> QED
    BY <1>3, <2>3, <2>4, <2>5, OrderlyStep
<1>4. ASSUME NEW w \in Workers, NEW kind \in {"complete", "fail"}, BeginReport(w, kind)
      PROVE  OrderlyInv'
  <2>1. PICK s \in Sessions : s = <<w, "main">>
    BY <1>1
  <2>2. PICK n \in LogTokens : n = hand[w]
    BY <1>2 DEF HandsFit
  <2>3. PICK t : t = [NoTx EXCEPT !.kind = kind, !.pc = First[kind], !.now = clock, !.token = n]
    OBVIOUS
  <2>4. /\ tx' = [tx EXCEPT ![s] = t] /\ UNCHANGED Tables /\ pass' = pass
        /\ n # 0 /\ hand' = [hand EXCEPT ![w] = 0]
    BY <1>4, <2>1, <2>2, <2>3 DEF BeginReport, Begin, Tables
  <2>5. t.kind = kind /\ t.pc = "check" /\ t.token = n /\ t.locks = {}
    BY <2>3, KindsAre DEF NoTx
  <2>6. /\ \A r \in Sessions : tx'[r] = IF r = s THEN t ELSE tx[r]
        /\ \A v \in Workers : hand'[v] = IF v = w THEN 0 ELSE hand[v]
        /\ UNCHANGED <<clock, row, lease, retry_at, log>> /\ LogTokens' = LogTokens /\ NextToken' = NextToken
    BY <1>2, <2>4 DEF StatementsInv, TypesFit, Tables, LogTokens, NextToken
  <2>7. HandsFit'
    BY <1>2, <2>6 DEF HandsFit
  <2>8. ASSUME NEW r \in Sessions PROVE (TokenFits(tx[r]) /\ VerdictHolds(tx[r]))'
    <3>1. CASE r = s
      BY <2>4, <2>5, <2>6, <3>1 DEF TokenFits, VerdictHolds, Accepted, Refused
    <3>2. CASE r # s
      <4>1. TokenFits(tx[r]) /\ VerdictHolds(tx[r]) /\ tx'[r] = tx[r]
        BY <2>6, <3>2 DEF OrderlyInv
      <4> QED
        BY <2>6, <4>1 DEF TokenFits, VerdictHolds, OwnsLease, HasLease, Accepted, Refused
    <3> QED
      BY <3>1, <3>2
  <2>9. OneReport'
    <3>1. \A r \in Sessions \ {s} : Reporting(tx[r])' => Reporting(tx[r]) /\ tx'[r] = tx[r]
      BY <2>6 DEF Reporting
    <3>2. tx'[s].token = hand[w] /\ hand[w] # 0
      BY <2>2, <2>4, <2>5, <2>6
    <3>3. \A r \in Sessions : Reporting(tx[r]) => tx[r].token # hand[w] /\ tx[r].token # 0
      BY DEF OrderlyInv, OneReport, TokenFits, Reporting
    <3>4. ASSUME NEW r \in Sessions, Reporting(tx[r])', NEW v \in Workers
          PROVE  hand'[v] # tx'[r].token
      BY <1>2, <2>6, <3>1, <3>2, <3>3, <3>4 DEF HandsFit, OrderlyInv, OneReport
    <3>5. ASSUME NEW r \in Sessions, Reporting(tx[r])', NEW q \in Sessions, r # q, Reporting(tx[q])'
          PROVE  tx'[r].token # tx'[q].token
      BY <3>1, <3>2, <3>3, <3>5 DEF OrderlyInv, OneReport
    <3> QED
      BY <3>4, <3>5 DEF OneReport
  <2> QED
    BY <2>4, <2>6, <2>7, <2>8, <2>9 DEF OrderlyInv
<1>5. \A c \in Clients : BeginSubmit(c) => OrderlyInv'
  BY <1>1, <1>2, <1>3, KindsAre DEF BeginSubmit
<1>6. \A w \in Workers : BeginClaim(w) => OrderlyInv'
  BY <1>1, <1>2, <1>3, KindsAre DEF BeginClaim
<1>7. \A w \in Workers : BeginHeartbeat(w) => OrderlyInv'
  BY <1>1, <1>2, <1>3, KindsAre DEF BeginHeartbeat, HandsFit
<1>8. \A s \in Schedulers : BeginExpire(s) \/ BeginPromote(s) => OrderlyInv'
  BY <1>1, <1>2, <1>3, KindsAre DEF BeginExpire, BeginPromote
<1>9. \A c \in Clients, token \in ForcedTokens : ~BeginForced(c, token)
  BY DEF BeginForced
<1> QED
  BY <1>4, <1>5, <1>6, <1>7, <1>8, <1>9 DEF BeginSome

\* The clock, the scheduler's SELECTs and lost claims keep OrderlyInv.
LEMMA OutsideOrderly ==
  ASSUME StatementsInv, PunctualInv, OrderlyInv, mode = "orderly", UNCHANGED mode,
         \/ Tick
         \/ \E s \in Schedulers : SelectStale(s) \/ SelectDue(s)
         \/ \E w \in Workers : Forget(w)
  PROVE  OrderlyInv'
<1>1. CASE Tick
  <2>1. \A s \in Sessions : tx'[s] = NoTx
    BY <1>1 DEF Tick
  <2>2. (TokenFits(NoTx) /\ VerdictHolds(NoTx) /\ ~Reporting(NoTx))'
    BY Nulls DEF NoTx, TokenFits, VerdictHolds, LogTokens, Accepted, Refused, Reporting
  <2>3. \A s \in Sessions : (TokenFits(tx[s]) /\ VerdictHolds(tx[s]))' /\ ~Reporting(tx[s])'
    BY <2>1, <2>2 DEF TokenFits, VerdictHolds, Accepted, Refused, Reporting, OwnsLease
  <2>4. HandsFit' /\ UNCHANGED <<row, retry_at, pass>>
    BY <1>1 DEF Tick, OrderlyInv, HandsFit, LogTokens
  <2> QED
    BY <2>3, <2>4 DEF OrderlyInv, OneReport
<1>2. ASSUME NEW s \in Schedulers, SelectStale(s) \/ SelectDue(s) PROVE OrderlyInv'
  <2>1. UNCHANGED <<clock, row, lease, retry_at, log, tx, hand>>
    BY <1>2 DEF SelectStale, SelectDue
  <2>2. /\ \A r \in Schedulers \ {s} : pass'[r] = pass[r]
        /\ pass'[s].pc = "expire" => pass'[s].seen = row.attempts
    <3>1. pass \in [Schedulers -> [pc : {"idle", "expire", "listed", "promote"}, seen : Nat]]
      BY DEF StatementsInv, TypesFit
    <3>2. CASE SelectStale(s)
      BY <3>1, <3>2 DEF SelectStale
    <3>3. CASE SelectDue(s)
      BY <3>1, <3>3 DEF SelectDue, NoPass
    <3> QED
      BY <1>2, <3>2, <3>3
  <2>3. \A r \in Schedulers : pass'[r].pc = "expire" => pass'[r].seen = row'.attempts
    BY <2>1, <2>2 DEF OrderlyInv
  <2>4. HandsFit' /\ OneReport'
    BY <2>1 DEF OrderlyInv, HandsFit, OneReport, Reporting, LogTokens
  <2>5. (\A r \in Sessions : TokenFits(tx[r]) /\ VerdictHolds(tx[r]))'
    BY <2>1 DEF OrderlyInv, TokenFits, VerdictHolds, Accepted, Refused, OwnsLease, HasLease, LogTokens, NextToken
  <2> QED
    BY <2>1, <2>3, <2>4, <2>5 DEF OrderlyInv
<1>3. ASSUME NEW w \in Workers, Forget(w) PROVE OrderlyInv'
  <2>1. UNCHANGED <<clock, row, lease, retry_at, log, tx, pass>>
    BY <1>3 DEF Forget
  <2>2. \A v \in Workers : hand'[v] \in {hand[v], 0}
    BY <1>3 DEF Forget, StatementsInv, TypesFit
  <2>3. HandsFit'
    BY <2>1, <2>2 DEF OrderlyInv, HandsFit, LogTokens
  <2>4. OneReport'
    BY <2>1, <2>2 DEF OrderlyInv, OneReport, TokenFits, Reporting
  <2>5. (\A r \in Sessions : TokenFits(tx[r]) /\ VerdictHolds(tx[r]))'
    BY <2>1 DEF OrderlyInv, TokenFits, VerdictHolds, Accepted, Refused, OwnsLease, HasLease, LogTokens, NextToken
  <2> QED
    BY <2>1, <2>3, <2>4, <2>5 DEF OrderlyInv
<1> QED
  BY <1>1, <1>2, <1>3

\* Initially no token is out.
LEMMA OrderlyInit == Init => OrderlyInv
<1> SUFFICES ASSUME Init PROVE OrderlyInv
  OBVIOUS
<1>1. /\ \A s \in Sessions : tx[s] = NoTx
      /\ \A s \in Schedulers : pass[s].pc = "idle"
      /\ \A w \in Workers : hand[w] = 0
      /\ retry_at = NoRetry /\ 0 \in LogTokens
  BY DEF Init, NoPass, LogTokens
<1> QED
  BY <1>1, NothingOpenFits DEF OrderlyInv, HandsFit, OneReport

Orderly == mode = "orderly" => OrderlyInv

\* Every step of an orderly behaviour keeps OrderlyInv.
LEMMA OrderlyKeep ==
  ASSUME StatementsInv, PunctualInv, OrderlyInv, mode = "orderly", [Next]_vars
  PROVE  OrderlyInv'
<1>1. CASE UNCHANGED vars
  BY <1>1 DEF vars, OrderlyInv, HandsFit, OneReport, TokenFits, VerdictHolds, Accepted, Refused, Reporting,
     OwnsLease, HasLease, LogTokens, NextToken
<1>2. CASE Next
  <2>1. UNCHANGED mode /\ Step
    BY <1>2 DEF Next
  <2>2. CASE BeginSome
    BY <2>1, <2>2, BeginOrderly
  <2>3. ASSUME NEW s \in Sessions, Proceed(s) \/ Abort(s) \/ DeadlockVictim(s)
        PROVE  OrderlyInv'
    BY <2>1, <2>3, ProceedOrderly, CommitOrderly, RollbackOrderly DEF Abort, DeadlockVictim
  <2>4. CASE \/ Tick
             \/ \E s \in Schedulers : SelectStale(s) \/ SelectDue(s)
             \/ \E w \in Workers : Forget(w)
    BY <2>1, <2>4, OutsideOrderly
  <2> QED
    BY <2>1, <2>2, <2>3, <2>4 DEF Step
<1> QED
  BY <1>1, <1>2

\* In an orderly behaviour tokens come from the history, one report is out under
\* each, and what it found about its lease is still true when it commits.
THEOREM OrderlyInvariant ==
  ASSUME OneScheduler
  PROVE  Spec => []Orderly
<1>1. Init => Orderly
  BY OrderlyInit DEF Orderly
<1>2. StatementsInv /\ Punctual /\ Orderly /\ [Next]_vars => Orderly'
  <2> SUFFICES ASSUME StatementsInv, Punctual, Orderly, [Next]_vars, mode' = "orderly" PROVE OrderlyInv'
    BY DEF Orderly
  <2>1. mode' = mode
    BY DEF Next, vars
  <2> QED
    BY <2>1, OrderlyKeep DEF Orderly, Punctual
<1> QED
  BY <1>1, <1>2, StatementsInvariant, PunctualInvariant, PTL DEF Spec

-----------------------------------------------------------------------------
(* Which rows of the history have a token.                                    *)

NumberedRow(e) ==
  \/ e.event_type \in {"claimed", "heartbeat", "completed", "retry_scheduled", "stale_rejected"}
  \/ e.event_type = "failed" /\ e.worker_id # NoWorker

KindFits(s, t) ==
  /\ t.kind \in {"submit", "expire", "promote"} => t.token = 0
  /\ t.kind = "fail" => WorkerOf(s) # NoWorker

NumbersInv ==
  /\ \A i \in DOMAIN log : log[i].fencing_token # 0 => NumberedRow(log[i])
  /\ \A s \in Sessions : KindFits(s, tx[s])

\* A step of one session that commits nothing.
LEMMA NumbersStep ==
  ASSUME StatementsInv, NumbersInv, NEW s \in Sessions, NEW t,
         tx' = [tx EXCEPT ![s] = t], UNCHANGED log, KindFits(s, t)
  PROVE  NumbersInv'
<1>1. \A r \in Sessions : tx'[r] = IF r = s THEN t ELSE tx[r]
  BY DEF StatementsInv, TypesFit
<1>2. \A r \in Sessions : KindFits(r, tx[r])'
  BY <1>1 DEF NumbersInv, KindFits, WorkerOf
<1> QED
  BY <1>2 DEF NumbersInv, NumberedRow

\* The rows of a commit that have a token.
LEMMA CommitNumbers ==
  ASSUME StatementsInv, NumbersInv, NEW s \in Sessions, Commit(s)
  PROVE  NumbersInv'
<1>1. /\ tx[s] \in Tx /\ Fits(s, tx[s]) /\ tx[s].kind \in Kinds /\ tx[s].pc = "commit" /\ KindFits(s, tx[s])
      /\ log' = log \o Rows(s)
  BY AtCommit DEF NumbersInv, Commit
<1>2. /\ Len(tx[s].types) \in Nat /\ Len(log) \in Nat /\ DOMAIN log = 1..Len(log)
      /\ DOMAIN tx[s].types = 1..Len(tx[s].types)
      /\ DOMAIN log' = 1..(Len(log) + Len(tx[s].types))
      /\ \A i \in DOMAIN log : log'[i] = log[i]
      /\ \A i \in DOMAIN tx[s].types :
           /\ log'[Len(log) + i].event_type = tx[s].types[i]
           /\ log'[Len(log) + i].fencing_token = tx[s].token
           /\ tx[s].kind \in {"claim", "complete", "fail"} => log'[Len(log) + i].worker_id = WorkerOf(s)
  BY <1>1, LogGrows
<1>3. ASSUME NEW i \in DOMAIN tx[s].types, tx[s].token # 0
      PROVE  /\ tx[s].kind \in {"claim", "complete", "fail", "heartbeat"}
             /\ \/ tx[s].types[i] \in {"claimed", "heartbeat", "completed", "retry_scheduled", "stale_rejected"}
                \/ tx[s].types[i] = "failed" /\ tx[s].kind = "fail"
  <2>1. tx[s].kind \in {"claim", "complete", "fail", "heartbeat"}
    BY <1>1, <1>3, KindsAre DEF KindFits
  <2>2. CASE tx[s].kind = "claim"
    BY <1>1, <1>3, <2>2 DEF Fits, ClaimFits
  <2>3. CASE tx[s].kind = "heartbeat"
    BY <1>1, <1>3, <2>3 DEF Fits, HeartbeatFits
  <2>4. CASE tx[s].kind \in {"complete", "fail"}
    BY <1>1, <1>3, <2>4 DEF Fits, ReportFits, Reported
  <2> QED
    BY <2>1, <2>2, <2>3, <2>4
<1>4. ASSUME NEW i \in DOMAIN log', log'[i].fencing_token # 0
      PROVE  NumberedRow(log'[i])
  <2>1. CASE i \in DOMAIN log
    BY <1>2, <1>4, <2>1 DEF NumbersInv, NumberedRow
  <2>2. CASE i \notin DOMAIN log
    <3>1. PICK j \in DOMAIN tx[s].types : i = Len(log) + j
      <4>1. i - Len(log) \in DOMAIN tx[s].types
        BY <1>2, <2>2
      <4> QED
        BY <1>2, <4>1
    <3>2. tx[s].token # 0
      BY <1>2, <1>4, <3>1
    <3>3. \/ tx[s].types[j] \in {"claimed", "heartbeat", "completed", "retry_scheduled", "stale_rejected"}
          \/ tx[s].types[j] = "failed" /\ tx[s].kind = "fail"
      BY <1>3, <3>2
    <3>4. tx[s].kind = "fail" => log'[i].worker_id # NoWorker
      BY <1>1, <1>2, <3>1 DEF KindFits
    <3> QED
      BY <1>2, <3>1, <3>3, <3>4 DEF NumberedRow
  <2> QED
    BY <2>1, <2>2
<1>5. \A r \in Sessions : tx'[r] = IF r = s THEN NoTx ELSE tx[r]
  BY DEF Commit, StatementsInv, TypesFit
<1>6. \A r \in Sessions : KindFits(r, tx[r])'
  BY <1>5, Nulls DEF NumbersInv, KindFits, WorkerOf
<1>7. (\A i \in DOMAIN log : log[i].fencing_token # 0 => NumberedRow(log[i]))'
  BY <1>4 DEF NumberedRow
<1> QED
  BY <1>6, <1>7 DEF NumbersInv

\* Who begins with which token.
LEMMA BeginNumbers ==
  ASSUME StatementsInv, NumbersInv, BeginSome
  PROVE  NumbersInv'
<1>1. /\ Clients \subseteq Sessions /\ Schedulers \subseteq Sessions
      /\ \A w \in Workers : <<w, "main">> \in Sessions /\ <<w, "beat">> \in Sessions
      /\ \A w \in Workers : WorkerOf(<<w, "main">>) # NoWorker
  BY MainConnection, StatementsAssumption DEF Sessions, WorkerOf
<1>2. ASSUME NEW s \in Sessions, NEW kind \in Kinds, NEW token, Begin(s, kind, token),
             kind \in {"submit", "expire", "promote"} => token = 0,
             kind = "fail" => WorkerOf(s) # NoWorker
      PROVE  NumbersInv'
  <2>1. PICK t : t = [NoTx EXCEPT !.kind = kind, !.pc = First[kind], !.now = clock, !.token = token]
    OBVIOUS
  <2>2. t.kind = kind /\ t.token = token
    BY <2>1 DEF NoTx
  <2>3. KindFits(s, t)
    BY <1>2, <2>2 DEF KindFits
  <2>4. tx' = [tx EXCEPT ![s] = t] /\ UNCHANGED log
    BY <1>2, <2>1 DEF Begin
  <2> QED
    BY <2>3, <2>4, NumbersStep
<1>3. \A c \in Clients : BeginSubmit(c) => NumbersInv'
  BY <1>1, <1>2, KindsAre DEF BeginSubmit
<1>4. \A c \in Clients, token \in ForcedTokens : BeginForced(c, token) => NumbersInv'
  BY <1>1, <1>2, KindsAre DEF BeginForced
<1>5. \A w \in Workers : BeginClaim(w) => NumbersInv'
  BY <1>1, <1>2, KindsAre DEF BeginClaim
<1>6. \A w \in Workers : BeginHeartbeat(w) => NumbersInv'
  BY <1>1, <1>2, KindsAre DEF BeginHeartbeat
<1>7. \A w \in Workers, kind \in {"complete", "fail"} : BeginReport(w, kind) => NumbersInv'
  BY <1>1, <1>2, KindsAre DEF BeginReport
<1>8. \A s \in Schedulers : BeginExpire(s) \/ BeginPromote(s) => NumbersInv'
  BY <1>1, <1>2, KindsAre DEF BeginExpire, BeginPromote
<1> QED
  BY <1>3, <1>4, <1>5, <1>6, <1>7, <1>8 DEF BeginSome

\* Every step keeps NumbersInv, in every mode.
LEMMA NumbersKeep ==
  ASSUME StatementsInv, NumbersInv, [Next]_vars
  PROVE  NumbersInv'
<1>1. ASSUME UNCHANGED <<log, tx>> PROVE NumbersInv'
  BY <1>1 DEF NumbersInv, NumberedRow, KindFits, WorkerOf
<1>2. CASE UNCHANGED vars
  BY <1>1, <1>2 DEF vars
<1>3. CASE Next
  <2>1. UNCHANGED mode /\ Step
    BY <1>3 DEF Next
  <2>2. CASE BeginSome
    BY <2>2, BeginNumbers
  <2>3. ASSUME NEW s \in Sessions, Proceed(s), ~Commit(s) PROVE NumbersInv'
    <3>1. PICK t : StatementLeaves(s, t)
      BY <2>1, <2>3, ProceedLeaves
    <3>2. tx[s] \in Tx /\ Fits(s, tx[s]) /\ KindFits(s, tx[s])
      BY DEF StatementsInv, TypesFit, NumbersInv
    <3>3. tx[s].pc = "number" => tx[s].kind = "claim"
      BY <3>2, KindsAre, Nulls
      DEF Tx, Fits, SubmitFits, ReportFits, HeartbeatFits, ExpireFits, PromoteFits
    <3>4. KindFits(s, t)
      BY <3>1, <3>2, <3>3, Nulls DEF StatementLeaves, KindFits
    <3> QED
      BY <3>1, <3>4, NumbersStep DEF StatementLeaves, Tables
  <2>4. ASSUME NEW s \in Sessions, Rollback(s) PROVE NumbersInv'
    <3>1. KindFits(s, NoTx)
      BY Nulls DEF KindFits
    <3> QED
      BY <2>4, <3>1, NumbersStep DEF Rollback
  <2>5. ASSUME NEW s \in Sessions, Commit(s) PROVE NumbersInv'
    BY <2>5, CommitNumbers
  <2>6. CASE \/ Tick
             \/ \E s \in Schedulers : SelectStale(s) \/ SelectDue(s)
             \/ \E w \in Workers : Forget(w)
    BY <1>1, <2>6 DEF Tick, SelectStale, SelectDue, Forget
  <2> QED
    BY <2>1, <2>2, <2>3, <2>4, <2>5, <2>6 DEF Step, Abort, DeadlockVictim
<1> QED
  BY <1>2, <1>3

\* In every deployment, a row with a token is one that Claim's MAX counts.
THEOREM NumbersInvariant == Spec => []NumbersInv
<1>1. Init => NumbersInv
  BY Nulls DEF Init, NumbersInv, KindFits
<1> QED
  BY <1>1, NumbersKeep, StatementsInvariant, PTL DEF Spec

-----------------------------------------------------------------------------
(* The tables as DurableStore has them.                                      *)

LeaseView ==
  [worker_id |-> lease.worker_id, fencing_token |-> lease.fencing_token,
   expires_in |-> IF HasLease THEN Max({lease.expires - clock, -(MaxTxDelay + 1)}) ELSE 0]

RetryView == IF retry_at = NoRetry THEN NoRetry ELSE Max({retry_at - clock, 0})

EventsView ==
  [i \in DOMAIN log |-> [event_type |-> log[i].event_type, worker_id |-> log[i].worker_id,
                         fencing_token |-> log[i].fencing_token]]

\* The greater of two numbers.
LEMMA MaxOfTwo ==
  ASSUME NEW a \in Int, NEW b \in Int
  PROVE  Max({a, b}) = IF a >= b THEN a ELSE b
  BY DEF Max

\* What DurableStore finds under the one key.
LEMMA UnderTheKey ==
  /\ [k \in TheCall |-> row.status]["call"] = row.status
  /\ [k \in TheCall |-> row.attempts]["call"] = row.attempts
  /\ [k \in TheCall |-> LeaseView]["call"] = LeaseView
  /\ [k \in TheCall |-> RetryView]["call"] = RetryView
  /\ [k \in TheCall |-> EventsView]["call"] = EventsView
  BY DEF TheCall

\* A column of the one row, written.
LEMMA KeyUpdates ==
  /\ \A v : row'.status = v => [k \in TheCall |-> row.status]' = [[k \in TheCall |-> row.status] EXCEPT !["call"] = v]
  /\ \A v : row'.attempts = v => [k \in TheCall |-> row.attempts]' = [[k \in TheCall |-> row.attempts] EXCEPT !["call"] = v]
  /\ \A v : row'.result = v => [k \in TheCall |-> row.result]' = [[k \in TheCall |-> row.result] EXCEPT !["call"] = v]
  /\ \A v : row'.error = v => [k \in TheCall |-> row.error]' = [[k \in TheCall |-> row.error] EXCEPT !["call"] = v]
<1>1. \A v : row'.status = v => [k \in TheCall |-> row.status]' = [[k \in TheCall |-> row.status] EXCEPT !["call"] = v]
  BY DEF TheCall
<1>2. \A v : row'.attempts = v => [k \in TheCall |-> row.attempts]' = [[k \in TheCall |-> row.attempts] EXCEPT !["call"] = v]
  BY DEF TheCall
<1>3. \A v : row'.result = v => [k \in TheCall |-> row.result]' = [[k \in TheCall |-> row.result] EXCEPT !["call"] = v]
  BY DEF TheCall
<1>4. \A v : row'.error = v => [k \in TheCall |-> row.error]' = [[k \in TheCall |-> row.error] EXCEPT !["call"] = v]
  BY DEF TheCall
<1> QED
  BY <1>1, <1>2, <1>3, <1>4

\* Lease, retry and history of the one execution, written.
LEMMA ViewUpdates ==
  /\ \A v : LeaseView' = v => [k \in TheCall |-> LeaseView]' = [[k \in TheCall |-> LeaseView] EXCEPT !["call"] = v]
  /\ \A v : RetryView' = v => [k \in TheCall |-> RetryView]' = [[k \in TheCall |-> RetryView] EXCEPT !["call"] = v]
  /\ \A v : EventsView' = v => [k \in TheCall |-> EventsView]' = [[k \in TheCall |-> EventsView] EXCEPT !["call"] = v]
<1>1. \A v : LeaseView' = v => [k \in TheCall |-> LeaseView]' = [[k \in TheCall |-> LeaseView] EXCEPT !["call"] = v]
  BY DEF TheCall
<1>2. \A v : RetryView' = v => [k \in TheCall |-> RetryView]' = [[k \in TheCall |-> RetryView] EXCEPT !["call"] = v]
  BY DEF TheCall
<1>3. \A v : EventsView' = v => [k \in TheCall |-> EventsView]' = [[k \in TheCall |-> EventsView] EXCEPT !["call"] = v]
  BY DEF TheCall
<1> QED
  BY <1>1, <1>2, <1>3

EventOf(type, worker, token) ==
  [event_type |-> type, worker_id |-> worker, fencing_token |-> token]

\* The guards of DurableStore, told of the tables.
LEMMA AtomicGuards ==
  ASSUME StatementsInv
  PROVE  /\ \A n : Atomic!LeaseLive("call", n, 0) <=>
                  HasLease /\ lease.fencing_token = n /\ lease.expires > clock
         /\ Atomic!Expired("call") <=> row.status = "running" /\ HasLease /\ lease.expires < clock
         /\ Atomic!Due("call") <=> retry_at # NoRetry /\ retry_at <= clock
<1>1. /\ clock \in Nat /\ MaxTxDelay \in Nat /\ lease.expires \in Nat
      /\ retry_at \in Nat \cup {NoRetry} /\ NoRetry = -1
  BY StatementsAssumption DEF StatementsInv, TypesFit, LeaseRow, NoRetry
<1> DEFINE in == Max({lease.expires - clock, -(MaxTxDelay + 1)})
           due == Max({retry_at - clock, 0})
<1>2. in = IF lease.expires - clock >= -(MaxTxDelay + 1) THEN lease.expires - clock ELSE -(MaxTxDelay + 1)
  BY <1>1, MaxOfTwo
<1>3. retry_at # NoRetry => due = IF retry_at >= clock THEN retry_at - clock ELSE 0
  BY <1>1, MaxOfTwo
<1>4. /\ in \in Int /\ (in > 0 <=> lease.expires > clock) /\ (in < 0 <=> lease.expires < clock)
      /\ in + 0 = in
  BY <1>1, <1>2
<1>5. retry_at # NoRetry => (due = 0 <=> retry_at <= clock)
  BY <1>1, <1>3
<1>6. /\ LeaseView.worker_id = lease.worker_id /\ LeaseView.fencing_token = lease.fencing_token
      /\ LeaseView.expires_in = IF HasLease THEN in ELSE 0
      /\ RetryView = IF retry_at = NoRetry THEN NoRetry ELSE due
  BY DEF LeaseView, RetryView
<1> HIDE DEF in, due
<1>7. Atomic!HasLease("call") <=> HasLease
  BY <1>6, UnderTheKey DEF Atomic!HasLease, HasLease, LeaseView
<1>8. \A n : Atomic!LeaseLive("call", n, 0) <=> HasLease /\ lease.fencing_token = n /\ lease.expires > clock
  <2>1. \A n : Atomic!LeaseLive("call", n, 0) <=>
          HasLease /\ LeaseView.fencing_token = n /\ LeaseView.expires_in + 0 > 0
    BY <1>7, UnderTheKey DEF Atomic!LeaseLive, LeaseView
  <2> QED
    BY <1>4, <1>6, <2>1
<1>9. Atomic!Expired("call") <=> row.status = "running" /\ HasLease /\ lease.expires < clock
  <2>1. Atomic!Expired("call") <=> row.status = "running" /\ HasLease /\ LeaseView.expires_in < 0
    BY <1>7, UnderTheKey DEF Atomic!Expired, LeaseView
  <2> QED
    BY <1>4, <1>6, <2>1
<1>10. Atomic!Due("call") <=> retry_at # NoRetry /\ retry_at <= clock
  <2>1. Atomic!Due("call") <=> RetryView = 0
    BY UnderTheKey DEF Atomic!Due, RetryView
  <2> QED
    BY <1>1, <1>5, <1>6, <2>1
<1> QED
  BY <1>8, <1>9, <1>10

\* MAX over the rows with a token is MAX over all rows and 0.
LEMMA AtomicNextToken ==
  ASSUME StatementsInv, NumbersInv
  PROVE  Atomic!NextToken("call") = NextToken
<1> DEFINE Found == Atomic!Tokens(EventsView)
<1>1. \A n \in LogTokens : n \in Nat
  BY LogTypes
<1>2. PICK m \in LogTokens : \A n \in LogTokens : n <= m
  BY DEF StatementsInv, TokensBounded
<1>3. \A i \in DOMAIN log : log[i].fencing_token # 0 => i \in Atomic!Numbered(EventsView)
  BY DEF NumbersInv, NumberedRow, EventsView, Atomic!Numbered
<1>4. \A i \in Atomic!Numbered(EventsView) : i \in DOMAIN log /\ EventsView[i].fencing_token = log[i].fencing_token
  BY DEF EventsView, Atomic!Numbered
<1>5. Found \subseteq LogTokens
  BY <1>4 DEF Atomic!Tokens, LogTokens
<1>6. \A n \in LogTokens : n # 0 => n \in Found
  BY <1>3, <1>4 DEF Atomic!Tokens, LogTokens
<1>7. /\ Found = {} => Atomic!NextToken("call") = 1 + 0
      /\ Found # {} => Atomic!NextToken("call") = 1 + Atomic!Max(Found)
  <2>1. PICK view : view = [k \in TheCall |-> EventsView]["call"]
    OBVIOUS
  <2>2. view = EventsView
    BY <2>1, UnderTheKey
  <2>3. Atomic!NextToken("call") = 1 + IF Atomic!Tokens(view) = {} THEN 0 ELSE Atomic!Max(Atomic!Tokens(view))
    BY <2>1 DEF Atomic!NextToken, EventsView
  <2>4. Found = Atomic!Tokens(view)
    BY <2>2
  <2> HIDE DEF Found
  <2> QED
    BY <2>3, <2>4
<1>8. NextToken = 1 + Max(LogTokens)
  BY DEF NextToken, LogTokens
<1> HIDE DEF Found
<1>9. ASSUME NEW S \in SUBSET Nat, NEW x \in S, \A n \in S : n <= x PROVE Max(S) = x /\ Atomic!Max(S) = x
  <2>1. \A n \in S : x >= n
    BY <1>9
  <2>2. \A y \in S : (\A n \in S : y >= n) => y = x
    BY <1>9
  <2> QED
    BY <2>1, <2>2 DEF Max, Atomic!Max
<1>10. LogTokens \in SUBSET Nat /\ Found \in SUBSET Nat /\ 0 \in LogTokens
  BY <1>1, <1>5 DEF LogTokens
<1>11. Max(LogTokens) = m
  BY <1>2, <1>9, <1>10
<1>12. CASE Found = {}
  BY <1>2, <1>6, <1>7, <1>8, <1>10, <1>11, <1>12
<1>13. CASE Found # {}
  <2>1. m \in Found
    <3>1. PICK n \in Found : TRUE
      BY <1>13
    <3>2. n \in Nat /\ n <= m /\ m \in Nat
      BY <1>2, <1>5, <1>10, <3>1
    <3>3. CASE m = 0
      BY <3>1, <3>2, <3>3
    <3>4. CASE m # 0
      BY <1>2, <1>6, <3>4
    <3> QED
      BY <3>3, <3>4
  <2>2. \A n \in Found : n <= m
    BY <1>2, <1>5
  <2>3. Atomic!Max(Found) = m
    BY <1>9, <1>10, <2>1, <2>2
  <2> QED
    BY <1>7, <1>8, <1>11, <1>13, <2>3
<1> QED
  BY <1>12, <1>13

\* What the views become when lease, retry and history are written.
LEMMA LeaseViews ==
  ASSUME StatementsInv, clock' = clock
  PROVE  /\ lease' = lease => LeaseView' = LeaseView
         /\ lease' = NoLease => LeaseView' = Atomic!NoLease
         /\ \A w, n : (lease' = [worker_id |-> w, fencing_token |-> n, expires |-> clock + LeaseSeconds]
                       /\ w # NoWorker) =>
              LeaseView' = [worker_id |-> w, fencing_token |-> n, expires_in |-> LeaseSeconds]
<1>1. lease' = lease => LeaseView' = LeaseView
  BY DEF LeaseView, HasLease
<1>2. lease' = NoLease => LeaseView' = Atomic!NoLease
  BY DEF LeaseView, HasLease, NoLease, Atomic!NoLease
<1>3. ASSUME NEW w, NEW n, w # NoWorker,
             lease' = [worker_id |-> w, fencing_token |-> n, expires |-> clock + LeaseSeconds]
      PROVE  LeaseView' = [worker_id |-> w, fencing_token |-> n, expires_in |-> LeaseSeconds]
  <2>1. clock \in Nat /\ LeaseSeconds \in Nat /\ MaxTxDelay \in Nat
    BY StatementsAssumption DEF StatementsInv, TypesFit
  <2>2. lease'.expires - clock' = LeaseSeconds
    BY <1>3, <2>1
  <2>3. Max({LeaseSeconds, -(MaxTxDelay + 1)}) = LeaseSeconds
    BY <2>1, MaxOfTwo
  <2>4. LeaseView' = [worker_id |-> lease'.worker_id, fencing_token |-> lease'.fencing_token,
                      expires_in |-> IF HasLease' THEN Max({lease'.expires - clock', -(MaxTxDelay + 1)}) ELSE 0]
    BY DEF LeaseView
  <2>5. HasLease'
    BY <1>3 DEF HasLease
  <2> QED
    BY <1>3, <2>2, <2>3, <2>4, <2>5
<1> QED
  BY <1>1, <1>2, <1>3

\* What is left of a backoff.
LEMMA RetryViews ==
  ASSUME StatementsInv, clock' = clock
  PROVE  /\ retry_at' = retry_at => RetryView' = RetryView
         /\ retry_at' = NoRetry => RetryView' = NoRetry
         /\ \A n \in Nat : retry_at' = clock + n /\ retry_at' # NoRetry => RetryView' = n
<1>1. ASSUME NEW n \in Nat, retry_at' = clock + n, retry_at' # NoRetry
      PROVE  RetryView' = n
  <2>1. clock \in Nat
    BY StatementsAssumption DEF StatementsInv, TypesFit
  <2>2. retry_at' - clock' = n
    BY <1>1, <2>1
  <2>3. Max({n, 0}) = n
    BY MaxOfTwo
  <2> QED
    BY <1>1, <2>2, <2>3 DEF RetryView
<1> QED
  BY <1>1 DEF RetryView

\* DurableStore's row of an event.
Seen(e) == EventOf(e.event_type, e.worker_id, e.fencing_token)

SeenRow == [event_type : Types, worker_id : Workers \cup {NoWorker}, fencing_token : Nat]

\* Seeing a history row by row commutes with appending to it.
LEMMA SeenAppend ==
  ASSUME NEW a \in Seq(EventRow), NEW e \in EventRow
  PROVE  /\ Append(a, e) \in Seq(EventRow)
         /\ [i \in DOMAIN Append(a, e) |-> Seen(Append(a, e)[i])]
              = Append([i \in DOMAIN a |-> Seen(a[i])], Seen(e))
<1>1. \A r \in EventRow : Seen(r) \in SeenRow
  BY DEF Seen, EventOf, EventRow, SeenRow
<1>2. PICK n \in Nat : n = Len(a)
  OBVIOUS
<1>3. PICK b \in Seq(EventRow) : b = Append(a, e)
  BY AppendProperties
<1>4. /\ DOMAIN a = 1..n /\ \A i \in 1..n : a[i] \in EventRow /\ b[i] = a[i]
      /\ DOMAIN b = 1..(n + 1) /\ b[n + 1] = e
  BY <1>2, <1>3
<1>5. PICK c : c = [i \in 1..n |-> Seen(a[i])]
  OBVIOUS
<1>6. c \in Seq(SeenRow) /\ Len(c) = n /\ \A i \in 1..n : c[i] = Seen(a[i])
  BY <1>1, <1>2, <1>4, <1>5
<1>7. PICK d \in SeenRow : d = Seen(e)
  BY <1>1
<1>8. PICK f \in Seq(SeenRow) : f = Append(c, d)
  BY <1>6, <1>7, AppendProperties
<1>9. Len(f) = n + 1 /\ (\A i \in 1..n : f[i] = c[i]) /\ f[n + 1] = d
  BY <1>6, <1>7, <1>8
<1>10. PICK g : g = [i \in 1..(n + 1) |-> Seen(b[i])]
  OBVIOUS
<1>11. \A i \in 1..(n + 1) : g[i] = Seen(b[i]) /\ b[i] \in EventRow /\ (i \in 1..n \/ i = n + 1)
  BY <1>4, <1>10
<1>12. g \in Seq(SeenRow) /\ Len(g) = n + 1
  BY <1>1, <1>10, <1>11
<1>13. \A i \in 1..(n + 1) : g[i] = f[i]
  BY <1>4, <1>6, <1>7, <1>9, <1>11
<1>14. g = f
  BY <1>9, <1>12, <1>13, SeqEqual
<1> QED
  BY <1>3, <1>4, <1>5, <1>7, <1>8, <1>10, <1>14

\* Rows of a commit are appended one by one.
LEMMA EventsViews ==
  ASSUME StatementsInv, NEW s \in Sessions, log' = log \o Rows(s),
         NEW worker, worker = IF tx[s].kind \in {"claim", "complete", "fail"} THEN WorkerOf(s) ELSE NoWorker
  PROVE  /\ \A type \in Types : tx[s].types = <<type>> =>
              EventsView' = Append(EventsView, EventOf(type, worker, tx[s].token))
         /\ \A type, last \in Types : tx[s].types = <<type, last>> =>
              EventsView' = Append(Append(EventsView, EventOf(type, worker, tx[s].token)),
                                   EventOf(last, worker, tx[s].token))
<1>1. worker \in Workers \cup {NoWorker}
  BY WorkerOfType
<1>2. PICK token \in Nat : token = tx[s].token
  BY DEF StatementsInv, TypesFit, Tx
<1>3. PICK now \in Nat : now = tx[s].now
  BY DEF StatementsInv, TypesFit, Tx
<1>4. PICK a \in Seq(EventRow) : a = log
  BY DEF StatementsInv, TypesFit
<1>5. PICK b : b = log'
  OBVIOUS
<1>6. EventsView = [i \in DOMAIN a |-> Seen(a[i])] /\ EventsView' = [i \in DOMAIN b |-> Seen(b[i])]
  BY <1>4, <1>5 DEF EventsView, Seen, EventOf
<1> DEFINE R(type) == [event_type |-> type, worker_id |-> worker, fencing_token |-> token, at |-> now]
<1>7. \A type \in Types : R(type) \in EventRow /\ Seen(R(type)) = EventOf(type, worker, token)
  BY <1>1 DEF EventRow, Seen
<1>8. ASSUME NEW type \in Types, tx[s].types = <<type>>
      PROVE  EventsView' = Append(EventsView, EventOf(type, worker, tx[s].token))
  <2>1. PICK e \in EventRow : e = R(type)
    BY <1>7
  <2>2. Rows(s) = <<e>>
    BY <1>2, <1>3, <1>8, <2>1 DEF Rows
  <2>3. b = Append(a, e)
    BY <1>4, <1>5, <2>2
  <2>4. [i \in DOMAIN b |-> Seen(b[i])] = Append([i \in DOMAIN a |-> Seen(a[i])], Seen(e))
    BY <2>3, SeenAppend
  <2> QED
    BY <1>2, <1>6, <1>7, <2>1, <2>4
<1>9. ASSUME NEW type \in Types, NEW last \in Types, tx[s].types = <<type, last>>
      PROVE  EventsView' = Append(Append(EventsView, EventOf(type, worker, tx[s].token)),
                                  EventOf(last, worker, tx[s].token))
  <2>1. PICK d \in EventRow, e \in EventRow : d = R(type) /\ e = R(last)
    BY <1>7
  <2>2. Rows(s) = <<d, e>>
    BY <1>2, <1>3, <1>9, <2>1 DEF Rows
  <2>3. PICK c \in Seq(EventRow) : c = Append(a, d)
    BY AppendProperties
  <2>4. b = Append(c, e)
    BY <1>4, <1>5, <2>2, <2>3
  <2>5. [i \in DOMAIN c |-> Seen(c[i])] = Append([i \in DOMAIN a |-> Seen(a[i])], Seen(d))
    BY <2>3, SeenAppend
  <2>6. [i \in DOMAIN b |-> Seen(b[i])] = Append([i \in DOMAIN c |-> Seen(c[i])], Seen(e))
    BY <2>4, SeenAppend
  <2> QED
    BY <1>2, <1>6, <1>7, <2>1, <2>5, <2>6
<1> QED
  BY <1>8, <1>9

-----------------------------------------------------------------------------
(* Every commit is one transaction of DurableStore.                          *)

SameRow == row'.status = row.status /\ row'.attempts = row.attempts
           /\ row'.result = row.result /\ row'.error = row.error

\* Submit is SubmitNew or SubmitDuplicate.
LEMMA SubmitIsAtomic ==
  ASSUME StatementsInv, PunctualInv, OrderlyInv, NEW s \in Sessions, Commit(s), tx[s].kind = "submit"
  PROVE  AtomicStep("call")
<1>1. /\ tx[s].token = 0 /\ row \in Row /\ clock' = clock /\ log' = log \o Rows(s)
      /\ LeaseView' = LeaseView /\ RetryView' = RetryView
  BY CommitMeets, SubmitCommits, LeaseViews, RetryViews DEF Commit, TokenFits
<1>2. [k \in TheCall |-> LeaseView]' = [k \in TheCall |-> LeaseView]
  BY <1>1
<1>3. [k \in TheCall |-> RetryView]' = [k \in TheCall |-> RetryView]
  BY <1>1
<1>4. CASE row.status = "absent"
  <2>1. /\ row'.status = "ready" /\ row'.attempts = row.attempts
        /\ row'.result = row.result /\ row'.error = row.error /\ tx[s].types = <<"submitted", "ready">>
    BY <1>1, <1>4, SubmitCommits DEF Row
  <2>2. EventsView' = Append(Append(EventsView, EventOf("submitted", NoWorker, 0)), EventOf("ready", NoWorker, 0))
    BY <1>1, <2>1, EventsViews, EventLists DEF Types
  <2>3. [k \in TheCall |-> EventsView]' = [[k \in TheCall |-> EventsView] EXCEPT !["call"] =
           Append(Append([k \in TheCall |-> EventsView]["call"], EventOf("submitted", NoWorker, 0)),
                  EventOf("ready", NoWorker, 0))]
    BY <2>2, ViewUpdates, UnderTheKey
  <2>4. Atomic!SubmitNew("call")
    BY <1>2, <1>3, <1>4, <2>1, <2>3, UnderTheKey, KeyUpdates
    DEF Atomic!SubmitNew, Atomic!appendEvent, EventOf, LeaseView, RetryView, EventsView
  <2> QED
    BY <2>4 DEF AtomicStep
<1>5. CASE row.status # "absent"
  <2>1. row' = row /\ tx[s].types = <<"duplicate_detected">>
    BY <1>5, SubmitCommits
  <2>2. EventsView' = Append(EventsView, EventOf("duplicate_detected", NoWorker, 0))
    BY <1>1, <2>1, EventsViews, EventLists DEF Types
  <2>3. [k \in TheCall |-> EventsView]' = [[k \in TheCall |-> EventsView] EXCEPT !["call"] =
           Append([k \in TheCall |-> EventsView]["call"], EventOf("duplicate_detected", NoWorker, 0))]
    BY <2>2, ViewUpdates, UnderTheKey
  <2>4. Atomic!SubmitDuplicate("call")
    BY <1>2, <1>3, <1>5, <2>1, <2>3, UnderTheKey, KeyUpdates
    DEF Atomic!SubmitDuplicate, Atomic!appendEvent, EventOf, LeaseView, RetryView, EventsView
  <2> QED
    BY <2>4 DEF AtomicStep
<1> QED
  BY <1>4, <1>5

\* Columns a transaction leaves alone.
LEMMA KeyStays ==
  /\ row'.status = row.status => [k \in TheCall |-> row.status]' = [k \in TheCall |-> row.status]
  /\ row'.attempts = row.attempts => [k \in TheCall |-> row.attempts]' = [k \in TheCall |-> row.attempts]
  /\ row'.result = row.result => [k \in TheCall |-> row.result]' = [k \in TheCall |-> row.result]
  /\ row'.error = row.error => [k \in TheCall |-> row.error]' = [k \in TheCall |-> row.error]
  /\ LeaseView' = LeaseView => [k \in TheCall |-> LeaseView]' = [k \in TheCall |-> LeaseView]
  /\ RetryView' = RetryView => [k \in TheCall |-> RetryView]' = [k \in TheCall |-> RetryView]
  /\ EventsView' = EventsView => [k \in TheCall |-> EventsView]' = [k \in TheCall |-> EventsView]
<1>1. row'.status = row.status => [k \in TheCall |-> row.status]' = [k \in TheCall |-> row.status]
  OBVIOUS
<1>2. row'.attempts = row.attempts => [k \in TheCall |-> row.attempts]' = [k \in TheCall |-> row.attempts]
  OBVIOUS
<1>3. row'.result = row.result => [k \in TheCall |-> row.result]' = [k \in TheCall |-> row.result]
  OBVIOUS
<1>4. row'.error = row.error => [k \in TheCall |-> row.error]' = [k \in TheCall |-> row.error]
  OBVIOUS
<1>5. LeaseView' = LeaseView => [k \in TheCall |-> LeaseView]' = [k \in TheCall |-> LeaseView]
  OBVIOUS
<1>6. RetryView' = RetryView => [k \in TheCall |-> RetryView]' = [k \in TheCall |-> RetryView]
  OBVIOUS
<1>7. EventsView' = EventsView => [k \in TheCall |-> EventsView]' = [k \in TheCall |-> EventsView]
  OBVIOUS
<1> QED
  BY <1>1, <1>2, <1>3, <1>4, <1>5, <1>6, <1>7

\* Claim.
LEMMA ClaimIsAtomic ==
  ASSUME StatementsInv, PunctualInv, OrderlyInv, NumbersInv, NEW s \in Sessions, Commit(s), tx[s].kind = "claim"
  PROVE  AtomicStep("call")
<1>1. /\ row \in Row /\ clock' = clock /\ log' = log \o Rows(s)
      /\ s[1] \in Workers /\ s[1] # NoWorker /\ WorkerOf(s) = s[1] /\ row.status = "ready"
      /\ tx[s].token = NextToken /\ tx[s].types = <<"claimed">> /\ retry_at' = retry_at
      /\ NextToken <= MaxToken /\ Atomic!NextToken("call") = NextToken
  BY CommitMeets, ClaimCommits, AtomicNextToken DEF Commit
<1>2. PICK w \in Workers : w = s[1]
  BY <1>1
<1>3. /\ row'.status = "running" /\ row'.attempts = row.attempts + 1
      /\ row'.result = row.result /\ row'.error = row.error
  BY <1>1, ClaimCommits DEF Row
<1>4. /\ LeaseView' = [worker_id |-> w, fencing_token |-> NextToken, expires_in |-> LeaseSeconds]
      /\ RetryView' = RetryView
  BY <1>1, <1>2, ClaimCommits, LeaseViews, RetryViews
<1>5. LeaseSeconds - 0 = LeaseSeconds
  BY StatementsAssumption
<1>6. [k \in TheCall |-> EventsView]' = [[k \in TheCall |-> EventsView] EXCEPT !["call"] =
         Append([k \in TheCall |-> EventsView]["call"], EventOf("claimed", w, NextToken))]
  <2>1. "claimed" \in Types /\ w = IF tx[s].kind \in {"claim", "complete", "fail"} THEN WorkerOf(s) ELSE NoWorker
    BY <1>1, <1>2 DEF Types
  <2>2. EventsView' = Append(EventsView, EventOf("claimed", w, tx[s].token))
    BY <1>1, <2>1, EventsViews
  <2> QED
    BY <1>1, <2>2, ViewUpdates, UnderTheKey
<1>7. [k \in TheCall |-> LeaseView]' = [[k \in TheCall |-> LeaseView] EXCEPT !["call"] =
         [worker_id |-> w, fencing_token |-> Atomic!NextToken("call"),
          expires_in |-> [v \in Workers |-> LeaseSeconds][w] - 0]]
  BY <1>1, <1>4, <1>5, ViewUpdates
<1>8. [k \in TheCall |-> row.attempts]' = [[k \in TheCall |-> row.attempts] EXCEPT !["call"] =
         [k \in TheCall |-> row.attempts]["call"] + 1]
  BY <1>3, KeyUpdates, UnderTheKey
<1>9. Atomic!Claim("call", w, 0)
  BY <1>1, <1>3, <1>4, <1>6, <1>7, <1>8, UnderTheKey, KeyUpdates, KeyStays
  DEF Atomic!Claim, Atomic!appendEvent, EventOf, LeaseView, RetryView, EventsView
<1> QED
  BY <1>9 DEF AtomicStep

\* A stale report is ReportRejected.
LEMMA RejectionIsAtomic ==
  ASSUME StatementsInv, PunctualInv, OrderlyInv, NEW s \in Sessions, Commit(s),
         tx[s].kind \in {"complete", "fail"}, "share" \in tx[s].locks
  PROVE  AtomicStep("call")
<1>1. /\ clock' = clock /\ log' = log \o Rows(s) /\ tx[s].now = clock
      /\ tx[s].token \in LogTokens /\ tx[s].token # 0
      /\ UNCHANGED <<row, lease, retry_at>> /\ ~OwnsLease(tx[s]) /\ tx[s].types = <<"stale_rejected">>
  BY CommitMeets, RejectionCommits DEF Commit, TokenFits
<1>2. PICK w \in Workers \cup {NoWorker} : w = WorkerOf(s)
  BY WorkerOfType
<1>3. PICK n \in {log[i].fencing_token : i \in DOMAIN log} : n = tx[s].token
  BY <1>1 DEF LogTokens
<1>4. LeaseView' = LeaseView /\ RetryView' = RetryView
  BY <1>1, LeaseViews, RetryViews
<1>5. [k \in TheCall |-> EventsView]' = [[k \in TheCall |-> EventsView] EXCEPT !["call"] =
         Append([k \in TheCall |-> EventsView]["call"], EventOf("stale_rejected", w, n))]
  <2>1. /\ "stale_rejected" \in Types
        /\ w = IF tx[s].kind \in {"claim", "complete", "fail"} THEN WorkerOf(s) ELSE NoWorker
    BY <1>2 DEF Types
  <2>2. EventsView' = Append(EventsView, EventOf("stale_rejected", w, tx[s].token))
    BY <1>1, <2>1, EventsViews
  <2> QED
    BY <1>3, <2>2, ViewUpdates, UnderTheKey
<1>6. ~Atomic!LeaseLive("call", n, 0)
  BY <1>1, <1>3, AtomicGuards DEF OwnsLease
<1>7. Atomic!ReportRejected("call", n, w)
  BY <1>1, <1>4, <1>5, KeyStays
  DEF Atomic!ReportRejected, Atomic!appendEvent, EventOf, LeaseView, RetryView, EventsView
<1> QED
  BY <1>6, <1>7 DEF AtomicStep

\* An accepted report is CompleteAccepted, FailTerminal or FailRetries.
LEMMA ReportIsAtomic ==
  ASSUME StatementsInv, PunctualInv, OrderlyInv, NEW s \in Sessions, Commit(s),
         tx[s].kind \in {"complete", "fail"}, "share" \notin tx[s].locks
  PROVE  AtomicStep("call")
<1>1. /\ clock' = clock /\ log' = log \o Rows(s) /\ tx[s].now = clock
      /\ tx[s].token \in LogTokens /\ tx[s].token # 0
      /\ row \in Row /\ OwnsLease(tx[s]) /\ retry_at = NoRetry /\ lease' = NoLease
  BY CommitMeets, ReportCommits DEF Commit, TokenFits
<1>2. PICK w \in Workers \cup {NoWorker} : w = WorkerOf(s)
  BY WorkerOfType
<1>3. PICK n \in {log[i].fencing_token : i \in DOMAIN log} : n = tx[s].token
  BY <1>1 DEF LogTokens
<1>4. LeaseView' = Atomic!NoLease
  BY <1>1, LeaseViews
<1>5. Atomic!LeaseLive("call", n, 0)
  BY <1>1, <1>3, AtomicGuards DEF OwnsLease
<1>6. [k \in TheCall |-> LeaseView]' = [[k \in TheCall |-> LeaseView] EXCEPT !["call"] = Atomic!NoLease]
  BY <1>4, ViewUpdates
<1>7. w = IF tx[s].kind \in {"claim", "complete", "fail"} THEN WorkerOf(s) ELSE NoWorker
  BY <1>2
<1>8. ASSUME NEW type \in Types, tx[s].types = <<type>>
      PROVE  [k \in TheCall |-> EventsView]' = [[k \in TheCall |-> EventsView] EXCEPT !["call"] =
                Append([k \in TheCall |-> EventsView]["call"], EventOf(type, w, n))]
  <2>1. EventsView' = Append(EventsView, EventOf(type, w, tx[s].token))
    BY <1>1, <1>7, <1>8, EventsViews
  <2> QED
    BY <1>3, <2>1, ViewUpdates, UnderTheKey
<1>9. [k \in TheCall |-> MaxAttempts]["call"] = MaxAttempts
  BY DEF TheCall
<1>10. CASE /\ tx[s].kind = "complete" /\ tx[s].types = <<"completed">> /\ retry_at' = NoRetry
            /\ row' = [row EXCEPT !.status = "completed", !.result = tx[s].token, !.error = "none"]
  <2>1. /\ row'.status = "completed" /\ row'.attempts = row.attempts
        /\ row'.result = n /\ row'.error = "none"
    BY <1>1, <1>3, <1>10 DEF Row
  <2>2. RetryView' = RetryView
    BY <1>1, <1>10, RetryViews
  <2>3. [k \in TheCall |-> EventsView]' = [[k \in TheCall |-> EventsView] EXCEPT !["call"] =
           Append([k \in TheCall |-> EventsView]["call"], EventOf("completed", w, n))]
    BY <1>8, <1>10 DEF Types
  <2>4. Atomic!CompleteAccepted("call", n, w)
    BY <1>6, <2>1, <2>2, <2>3, KeyUpdates, KeyStays
    DEF Atomic!CompleteAccepted, Atomic!appendEvent, EventOf, LeaseView, RetryView, EventsView
  <2> QED
    BY <1>5, <2>4 DEF AtomicStep
<1>11. CASE /\ tx[s].kind = "fail" /\ row.attempts >= MaxAttempts /\ tx[s].types = <<"failed">>
            /\ row' = [row EXCEPT !.status = "failed", !.error = "handler"] /\ retry_at' = NoRetry
  <2>1. /\ row'.status = "failed" /\ row'.attempts = row.attempts
        /\ row'.result = row.result /\ row'.error = "handler"
    BY <1>1, <1>11 DEF Row
  <2>2. RetryView' = RetryView
    BY <1>1, <1>11, RetryViews
  <2>3. [k \in TheCall |-> EventsView]' = [[k \in TheCall |-> EventsView] EXCEPT !["call"] =
           Append([k \in TheCall |-> EventsView]["call"], EventOf("failed", w, n))]
    BY <1>8, <1>11 DEF Types
  <2>4. Atomic!FailTerminal("call", n, w)
    BY <1>6, <1>9, <1>11, <2>1, <2>2, <2>3, UnderTheKey, KeyUpdates, KeyStays
    DEF Atomic!FailTerminal, Atomic!appendEvent, EventOf, LeaseView, RetryView, EventsView
  <2> QED
    BY <1>5, <2>4 DEF AtomicStep
<1>12. CASE /\ tx[s].kind = "fail" /\ row.attempts < MaxAttempts /\ tx[s].types = <<"retry_scheduled">>
            /\ row' = [row EXCEPT !.status = "pending", !.error = "handler"]
            /\ retry_at' = clock + Backoff(row.attempts)
            /\ Backoff(row.attempts) \in Nat /\ retry_at' > clock /\ retry_at' # NoRetry
  <2>1. /\ row'.status = "pending" /\ row'.attempts = row.attempts
        /\ row'.result = row.result /\ row'.error = "handler"
    BY <1>1, <1>12 DEF Row
  <2>2. PICK b \in Nat : b = Backoff(row.attempts)
    BY <1>12
  <2>3. RetryView' = b
    BY <1>1, <1>12, <2>2, RetryViews
  <2>4. Atomic!DueIn(Atomic!Backoff([k \in TheCall |-> row.attempts]["call"]) - 0) = b
    <3>1. Atomic!Backoff([k \in TheCall |-> row.attempts]["call"]) = b
      BY <2>2, UnderTheKey DEF Atomic!Backoff, Backoff
    <3>2. Atomic!DueIn(b - 0) = b
      BY <2>2 DEF Atomic!DueIn
    <3> QED
      BY <3>1, <3>2
  <2>5. [k \in TheCall |-> RetryView]' = [[k \in TheCall |-> RetryView] EXCEPT !["call"] =
           Atomic!DueIn(Atomic!Backoff([k \in TheCall |-> row.attempts]["call"]) - 0)]
    BY <2>3, <2>4, ViewUpdates
  <2>6. [k \in TheCall |-> EventsView]' = [[k \in TheCall |-> EventsView] EXCEPT !["call"] =
           Append([k \in TheCall |-> EventsView]["call"], EventOf("retry_scheduled", w, n))]
    BY <1>8, <1>12 DEF Types
  <2>7. Atomic!FailRetries("call", n, w, 0)
    BY <1>6, <1>9, <1>12, <2>1, <2>5, <2>6, UnderTheKey, KeyUpdates, KeyStays
    DEF Atomic!FailRetries, Atomic!appendEvent, EventOf, LeaseView, RetryView, EventsView
  <2> QED
    BY <1>5, <2>7 DEF AtomicStep
<1> QED
  BY <1>10, <1>11, <1>12, RetryCommits

\* Heartbeat.
LEMMA HeartbeatIsAtomic ==
  ASSUME StatementsInv, PunctualInv, OrderlyInv, NEW s \in Sessions, Commit(s), tx[s].kind = "heartbeat"
  PROVE  AtomicStep("call")
<1>1. /\ clock' = clock /\ log' = log \o Rows(s) /\ tx[s].token # 0 /\ tx[s].now = clock
      /\ lease \in LeaseRow /\ OwnsLease(tx[s]) /\ UNCHANGED <<row, retry_at>> /\ tx[s].types = <<"heartbeat">>
      /\ lease'.worker_id = lease.worker_id /\ lease'.fencing_token = lease.fencing_token
      /\ lease' = [lease EXCEPT !.expires = clock + LeaseSeconds]
  BY CommitMeets, HeartbeatCommits DEF Commit, TokenFits
<1>2. PICK w \in Workers : w = lease.worker_id /\ w # NoWorker
  BY <1>1 DEF OwnsLease, HasLease, LeaseRow
<1>3. PICK n \in 1..lease.fencing_token : n = tx[s].token /\ n = lease.fencing_token
  BY <1>1 DEF OwnsLease, LeaseRow
<1>4. lease' = [worker_id |-> w, fencing_token |-> n, expires |-> clock + LeaseSeconds]
  BY <1>1, <1>2, <1>3 DEF LeaseRow
<1>5. /\ LeaseView' = [worker_id |-> w, fencing_token |-> n, expires_in |-> LeaseSeconds]
      /\ RetryView' = RetryView
  BY <1>1, <1>2, <1>4, LeaseViews, RetryViews
<1>6. LeaseView' = [LeaseView EXCEPT !.expires_in = [v \in Workers |-> LeaseSeconds][w] - 0]
  <2>1. [v \in Workers |-> LeaseSeconds][w] - 0 = LeaseSeconds
    BY StatementsAssumption
  <2> QED
    BY <1>2, <1>3, <1>5, <2>1 DEF LeaseView
<1>7. [k \in TheCall |-> LeaseView]' = [[k \in TheCall |-> LeaseView] EXCEPT !["call"].expires_in =
         [v \in Workers |-> LeaseSeconds][w] - 0]
  BY <1>6, ViewUpdates, UnderTheKey
<1>8. [k \in TheCall |-> EventsView]' = [[k \in TheCall |-> EventsView] EXCEPT !["call"] =
         Append([k \in TheCall |-> EventsView]["call"], EventOf("heartbeat", NoWorker, n))]
  <2>1. EventsView' = Append(EventsView, EventOf("heartbeat", NoWorker, tx[s].token))
    BY <1>1, EventsViews DEF Types
  <2> QED
    BY <1>3, <2>1, ViewUpdates, UnderTheKey
<1>9. Atomic!LeaseLive("call", n, 0)
  BY <1>1, <1>3, AtomicGuards DEF OwnsLease
<1>10. Atomic!HeartbeatAccepted("call", n, w, 0)
  BY <1>1, <1>5, <1>7, <1>8, <1>9, KeyStays
  DEF Atomic!HeartbeatAccepted, Atomic!appendEvent, EventOf, LeaseView, RetryView, EventsView
<1> QED
  BY <1>10 DEF AtomicStep

\* expireLease, of an execution that is still expired.
LEMMA ExpireIsAtomic ==
  ASSUME StatementsInv, PunctualInv, OrderlyInv, NEW s \in Sessions, Commit(s), tx[s].kind = "expire"
  PROVE  AtomicStep("call")
<1>1. /\ clock' = clock /\ log' = log \o Rows(s) /\ row \in Row /\ tx[s].token = 0
      /\ HasLease /\ lease.expires < clock /\ row.status = "running" /\ lease' = NoLease /\ retry_at' = retry_at
  BY CommitMeets, ExpireCommits DEF Commit, TokenFits
<1>2. Atomic!Expired("call")
  BY <1>1, AtomicGuards
<1>3. /\ [k \in TheCall |-> LeaseView]' = [[k \in TheCall |-> LeaseView] EXCEPT !["call"] = Atomic!NoLease]
      /\ RetryView' = RetryView
  BY <1>1, LeaseViews, RetryViews, ViewUpdates
<1>4. [k \in TheCall |-> MaxAttempts]["call"] = MaxAttempts
  BY DEF TheCall
<1>5. CASE /\ row.attempts >= MaxAttempts /\ tx[s].types = <<"lease_expired", "failed">>
           /\ row' = [row EXCEPT !.status = "failed", !.error = "lease"]
  <2>1. /\ row'.status = "failed" /\ row'.attempts = row.attempts
        /\ row'.result = row.result /\ row'.error = "lease"
    BY <1>1, <1>5 DEF Row
  <2>2. EventsView' = Append(Append(EventsView, EventOf("lease_expired", NoWorker, 0)), EventOf("failed", NoWorker, 0))
    BY <1>1, <1>5, EventsViews, EventLists DEF Types
  <2>3. [k \in TheCall |-> EventsView]' = [[k \in TheCall |-> EventsView] EXCEPT !["call"] =
           Append(Append([k \in TheCall |-> EventsView]["call"], EventOf("lease_expired", NoWorker, 0)),
                  EventOf("failed", NoWorker, 0))]
    BY <2>2, ViewUpdates, UnderTheKey
  <2>4. Atomic!ExpireToFailed("call", row.attempts)
    BY <1>3, <1>4, <1>5, <2>1, <2>3, KeyUpdates, KeyStays
    DEF Atomic!ExpireToFailed, Atomic!appendEvent, EventOf, LeaseView, RetryView, EventsView
  <2> QED
    BY <1>2, <2>4 DEF AtomicStep, Atomic!expireLease
<1>6. CASE /\ row.attempts < MaxAttempts /\ tx[s].types = <<"lease_expired">>
           /\ row' = [row EXCEPT !.status = "ready"]
  <2>1. /\ row'.status = "ready" /\ row'.attempts = row.attempts
        /\ row'.result = row.result /\ row'.error = row.error
    BY <1>1, <1>6 DEF Row
  <2>2. EventsView' = Append(EventsView, EventOf("lease_expired", NoWorker, 0))
    BY <1>1, <1>6, EventsViews, EventLists DEF Types
  <2>3. [k \in TheCall |-> EventsView]' = [[k \in TheCall |-> EventsView] EXCEPT !["call"] =
           Append([k \in TheCall |-> EventsView]["call"], EventOf("lease_expired", NoWorker, 0))]
    BY <2>2, ViewUpdates, UnderTheKey
  <2>4. Atomic!ExpireToReady("call", row.attempts)
    BY <1>3, <1>4, <1>6, <2>1, <2>3, KeyUpdates, KeyStays
    DEF Atomic!ExpireToReady, Atomic!appendEvent, EventOf, LeaseView, RetryView, EventsView
  <2> QED
    BY <1>2, <2>4 DEF AtomicStep, Atomic!expireLease
<1> QED
  BY <1>5, <1>6, ExpireCommits

\* promoteRetry, of an execution that is still due.
LEMMA PromoteIsAtomic ==
  ASSUME StatementsInv, PunctualInv, OrderlyInv, NEW s \in Sessions, Commit(s), tx[s].kind = "promote"
  PROVE  AtomicStep("call")
<1>1. /\ clock' = clock /\ log' = log \o Rows(s) /\ row \in Row /\ tx[s].token = 0
      /\ retry_at # NoRetry /\ retry_at <= clock /\ row.status = "pending"
      /\ retry_at' = NoRetry /\ lease' = lease /\ tx[s].types = <<"ready">>
  BY CommitMeets, PromoteCommits DEF Commit, TokenFits
<1>2. Atomic!Due("call")
  BY <1>1, AtomicGuards
<1>3. /\ row'.status = "ready" /\ row'.attempts = row.attempts
      /\ row'.result = row.result /\ row'.error = row.error
  BY <1>1, PromoteCommits DEF Row
<1>4. /\ LeaseView' = LeaseView
      /\ [k \in TheCall |-> RetryView]' = [[k \in TheCall |-> RetryView] EXCEPT !["call"] = NoRetry]
  BY <1>1, LeaseViews, RetryViews, ViewUpdates
<1>5. NoRetry = Atomic!NoRetry
  BY DEF NoRetry, Atomic!NoRetry
<1>6. EventsView' = Append(EventsView, EventOf("ready", NoWorker, 0))
  BY <1>1, EventsViews, EventLists DEF Types
<1>7. [k \in TheCall |-> EventsView]' = [[k \in TheCall |-> EventsView] EXCEPT !["call"] =
         Append([k \in TheCall |-> EventsView]["call"], EventOf("ready", NoWorker, 0))]
  BY <1>6, ViewUpdates, UnderTheKey
<1>8. Atomic!promoteRetry("call")
  BY <1>3, <1>4, <1>5, <1>7, KeyUpdates, KeyStays
  DEF Atomic!promoteRetry, Atomic!appendEvent, EventOf, LeaseView, RetryView, EventsView
<1> QED
  BY <1>1, <1>2, <1>8 DEF AtomicStep

\* A tick of DurableStore: one less of whatever is left of lease and backoff.
LEMMA TickIsAtomic ==
  ASSUME StatementsInv, Tick
  PROVE  Atomic!Tick
<1>1. /\ UNCHANGED <<row, lease, retry_at, log>> /\ clock' = clock + 1
      /\ clock \in Nat /\ MaxTxDelay \in Nat /\ lease.expires \in Nat
      /\ retry_at \in Nat \cup {NoRetry} /\ NoRetry = -1
  BY StatementsAssumption DEF Tick, StatementsInv, TypesFit, LeaseRow, NoRetry
<1> DEFINE left == Max({lease.expires - clock, -(MaxTxDelay + 1)})
           then == Max({lease.expires - (clock + 1), -(MaxTxDelay + 1)})
           due == Max({retry_at - clock, 0})
           later == Max({retry_at - (clock + 1), 0})
<1>2. left = IF lease.expires - clock >= -(MaxTxDelay + 1) THEN lease.expires - clock ELSE -(MaxTxDelay + 1)
  BY <1>1, MaxOfTwo
<1>3. then = IF lease.expires - (clock + 1) >= -(MaxTxDelay + 1)
             THEN lease.expires - (clock + 1) ELSE -(MaxTxDelay + 1)
  BY <1>1, MaxOfTwo
<1>4. then = (IF left >= -MaxTxDelay THEN left - 1 ELSE left)
  BY <1>1, <1>2, <1>3
<1>5. retry_at # NoRetry => due = IF retry_at - clock >= 0 THEN retry_at - clock ELSE 0
  BY <1>1, MaxOfTwo
<1>6. retry_at # NoRetry => later = IF retry_at - (clock + 1) >= 0 THEN retry_at - (clock + 1) ELSE 0
  BY <1>1, MaxOfTwo
<1>7. retry_at # NoRetry => later = (IF due > 0 THEN due - 1 ELSE due)
  BY <1>1, <1>5, <1>6
<1>8. /\ LeaseView = [worker_id |-> lease.worker_id, fencing_token |-> lease.fencing_token,
                      expires_in |-> IF HasLease THEN left ELSE 0]
      /\ LeaseView' = [worker_id |-> lease.worker_id, fencing_token |-> lease.fencing_token,
                       expires_in |-> IF HasLease THEN then ELSE 0]
      /\ RetryView = IF retry_at = NoRetry THEN NoRetry ELSE due
      /\ RetryView' = IF retry_at = NoRetry THEN NoRetry ELSE later
  BY <1>1 DEF LeaseView, RetryView, HasLease
<1> HIDE DEF left, then, due, later
<1>9. LeaseView' = IF HasLease /\ LeaseView.expires_in >= -MaxTxDelay
                   THEN [LeaseView EXCEPT !.expires_in = @ - 1] ELSE LeaseView
  BY <1>4, <1>8
<1>10. RetryView' = IF RetryView > 0 THEN RetryView - 1 ELSE RetryView
  BY <1>1, <1>7, <1>8
<1>11. /\ row'.status = row.status /\ row'.attempts = row.attempts
       /\ row'.result = row.result /\ row'.error = row.error
  BY <1>1
<1>12. EventsView' = EventsView
  BY <1>1 DEF EventsView
<1>13. Atomic!HasLease("call") <=> HasLease
  BY UnderTheKey DEF Atomic!HasLease, HasLease, LeaseView
<1>14. [k \in TheCall |-> LeaseView]' =
          [k \in TheCall |-> IF Atomic!HasLease(k) /\ [j \in TheCall |-> LeaseView][k].expires_in >= -MaxTxDelay
                             THEN [[j \in TheCall |-> LeaseView][k] EXCEPT !.expires_in = @ - 1]
                             ELSE [j \in TheCall |-> LeaseView][k]]
  BY <1>9, <1>13 DEF TheCall
<1>15. [k \in TheCall |-> RetryView]' =
          [k \in TheCall |-> IF [j \in TheCall |-> RetryView][k] > 0
                             THEN [j \in TheCall |-> RetryView][k] - 1 ELSE [j \in TheCall |-> RetryView][k]]
  BY <1>10 DEF TheCall
<1> QED
  BY <1>11, <1>12, <1>14, <1>15, KeyStays DEF Atomic!Tick, LeaseView, RetryView, EventsView

\* A step that leaves the tables alone leaves DurableStore's alone.
LEMMA QuietIsQuiet == UNCHANGED Tables => UNCHANGED Atomic!storeVars
<1> SUFFICES ASSUME UNCHANGED Tables PROVE UNCHANGED Atomic!storeVars
  OBVIOUS
<1>1. UNCHANGED <<clock, row, lease, retry_at, log>>
  BY DEF Tables
<1>2. /\ row'.status = row.status /\ row'.attempts = row.attempts
      /\ row'.result = row.result /\ row'.error = row.error
      /\ LeaseView' = LeaseView /\ RetryView' = RetryView /\ EventsView' = EventsView
  BY <1>1 DEF LeaseView, RetryView, EventsView, HasLease
<1> QED
  BY <1>2, KeyStays DEF Atomic!storeVars, LeaseView, RetryView, EventsView

\* Whatever commits.
LEMMA CommitIsAtomic ==
  ASSUME StatementsInv, PunctualInv, OrderlyInv, NumbersInv, NEW s \in Sessions, Commit(s)
  PROVE  \E k \in TheCall : AtomicStep(k)
<1>1. AtomicStep("call")
  BY CommitMeets, KindsAre, SubmitIsAtomic, ClaimIsAtomic, RejectionIsAtomic, ReportIsAtomic,
     HeartbeatIsAtomic, ExpireIsAtomic, PromoteIsAtomic
<1> QED
  BY <1>1 DEF TheCall

\* Empty tables are DurableStore's.
LEMMA AtomicInit == Init => Atomic!StoreInit
<1> SUFFICES ASSUME Init PROVE Atomic!StoreInit
  OBVIOUS
<1>1. /\ row = NoRow /\ lease = NoLease /\ retry_at = NoRetry /\ log = <<>>
  BY DEF Init
<1>2. /\ row.status = "absent" /\ row.attempts = 0 /\ row.result = 0 /\ row.error = "none"
      /\ LeaseView = Atomic!NoLease /\ RetryView = Atomic!NoRetry
  BY <1>1 DEF NoRow, NoLease, LeaseView, RetryView, HasLease, Atomic!NoLease, Atomic!NoRetry, NoRetry
<1>3. EventsView = <<>>
  BY <1>1 DEF EventsView
<1>4. /\ [k \in TheCall |-> row.status] = [k \in TheCall |-> "absent"]
      /\ [k \in TheCall |-> row.attempts] = [k \in TheCall |-> 0]
      /\ [k \in TheCall |-> row.result] = [k \in TheCall |-> 0]
      /\ [k \in TheCall |-> row.error] = [k \in TheCall |-> "none"]
      /\ [k \in TheCall |-> LeaseView] = [k \in TheCall |-> Atomic!NoLease]
      /\ [k \in TheCall |-> RetryView] = [k \in TheCall |-> Atomic!NoRetry]
      /\ [k \in TheCall |-> EventsView] = [k \in TheCall |-> <<>>]
  BY <1>2, <1>3
<1> QED
  BY <1>4 DEF Atomic!StoreInit, LeaseView, RetryView, EventsView

AtomicNext == mode = "orderly" => Atomic!Tick \/ \E k \in TheCall : AtomicStep(k)

\* Every step is a tick, a transaction of DurableStore, or nothing to the tables.
LEMMA StepIsAtomic ==
  ASSUME StatementsInv, Punctual, Orderly, NumbersInv, [Next]_vars
  PROVE  [AtomicNext]_(Atomic!storeVars)
<1> SUFFICES ASSUME mode = "orderly" PROVE AtomicNext \/ UNCHANGED Atomic!storeVars
  BY DEF AtomicNext
<1>1. StatementsInv /\ PunctualInv /\ OrderlyInv
  BY DEF Punctual, Orderly
<1>2. CASE UNCHANGED vars
  BY <1>2, QuietIsQuiet DEF vars, Tables
<1>3. CASE Next
  <2>1. UNCHANGED mode /\ Step
    BY <1>3 DEF Next
  <2>2. CASE BeginSome
    <3>1. UNCHANGED Tables
      BY <2>1, <2>2 DEF BeginSome, BeginSubmit, BeginForced, BeginClaim, BeginHeartbeat, BeginReport,
         BeginExpire, BeginPromote, Begin, Tables
    <3> QED
      BY <3>1, QuietIsQuiet
  <2>3. ASSUME NEW s \in Sessions, Proceed(s) \/ Abort(s) \/ DeadlockVictim(s)
        PROVE  AtomicNext \/ UNCHANGED Atomic!storeVars
    <3>1. CASE Commit(s)
      BY <1>1, <3>1, CommitIsAtomic DEF AtomicNext
    <3>2. CASE Proceed(s) /\ ~Commit(s)
      <4>1. UNCHANGED Tables
        BY <2>1, <1>1, <3>2, ProceedLeaves DEF StatementLeaves
      <4> QED
        BY <4>1, QuietIsQuiet
    <3>3. CASE Abort(s) \/ DeadlockVictim(s)
      <4>1. UNCHANGED Tables
        BY <2>1, <3>3 DEF Abort, DeadlockVictim, Rollback, Tables
      <4> QED
        BY <4>1, QuietIsQuiet
    <3> QED
      BY <2>3, <3>1, <3>2, <3>3
  <2>4. CASE \E s \in Schedulers : SelectStale(s) \/ SelectDue(s)
    <3>1. UNCHANGED Tables
      BY <2>1, <2>4 DEF SelectStale, SelectDue, Tables
    <3> QED
      BY <3>1, QuietIsQuiet
  <2>5. CASE \E w \in Workers : Forget(w)
    <3>1. UNCHANGED Tables
      BY <2>1, <2>5 DEF Forget, Tables
    <3> QED
      BY <3>1, QuietIsQuiet
  <2>6. CASE Tick
    BY <1>1, <2>6, TickIsAtomic DEF AtomicNext
  <2> QED
    BY <2>1, <2>2, <2>3, <2>4, <2>5, <2>6 DEF Step
<1> QED
  BY <1>2, <1>3

\* In orderly behaviours with one scheduler the statements of many sessions do
\* what DurableStore does with one transaction at a time: waiting, skipped rows,
\* re-read rows and rollbacks leave no other trace in the tables.
THEOREM StatementsImplementTransactions ==
  ASSUME OneScheduler
  PROVE  Spec => ImplementsTransactions
<1>1. Spec => []StatementsInv
  BY StatementsInvariant
<1>2. Spec => []Punctual
  BY PunctualInvariant
<1>3. Spec => []Orderly
  BY OrderlyInvariant
<1>4. StatementsInv /\ Punctual /\ Orderly /\ NumbersInv /\ [Next]_vars => [AtomicNext]_(Atomic!storeVars)
  BY StepIsAtomic
<1>5. Init => Atomic!StoreInit
  BY AtomicInit
<1>6. Spec => []NumbersInv
  BY NumbersInvariant
<1> QED
  BY <1>1, <1>2, <1>3, <1>4, <1>5, <1>6, PTL DEF Spec, ImplementsTransactions, AtomicNext
=============================================================================
