------------------------- MODULE DurableSystemProofs -------------------------
(***************************************************************************)
(* The whole system, proved, for any executions, workers, attempts and     *)
(* lease lengths, in five parts: the transactions of DurableStore one by   *)
(* one; the inductive invariant OwnershipInv of every deployment; what a   *)
(* step adds to the histories; what docker-compose.yml deploys, one        *)
(* scheduler and no transaction open across a tick, with any token posted  *)
(* to /internal/complete; and the same without that endpoint.              *)
(***************************************************************************)
EXTENDS DurableSystem, FiniteSetTheorems, TLAPS

-----------------------------------------------------------------------------
(* 1. The transactions: each keeps the tables well typed and KeyInv.       *)

-----------------------------------------------------------------------------
(* Appending to a history.                                                 *)

\* appendEvent adds one row at the end and leaves the earlier ones alone.
LEMMA AppendEvent ==
  ASSUME NEW log \in Seq(Event), NEW type \in EventType,
         NEW worker \in Workers \cup {NoWorker}, NEW token \in Int
  PROVE  /\ appendEvent(log, type, worker, token) \in Seq(Event)
         /\ DOMAIN appendEvent(log, type, worker, token) = 1..Len(log) + 1
         /\ DOMAIN log = 1..Len(log)
         /\ Len(log) \in Nat
         /\ \A i \in 1..Len(log) : appendEvent(log, type, worker, token)[i] = log[i]
         /\ appendEvent(log, type, worker, token)[Len(log) + 1]
              = [event_type |-> type, worker_id |-> worker, fencing_token |-> token]
<1>1. [event_type |-> type, worker_id |-> worker, fencing_token |-> token] \in Event
  BY DEF Event
<1>2. QED
  BY <1>1 DEF appendEvent

\* The tokens of a history are integers.
LEMMA TokensType ==
  ASSUME NEW log \in Seq(Event)
  PROVE  /\ \A i \in DOMAIN log : log[i].fencing_token \in Int
         /\ Tokens(log) \subseteq Int
<1>1. \A i \in DOMAIN log : log[i] \in Event
  OBVIOUS
<1>2. \A i \in DOMAIN log : log[i].fencing_token \in Int
  BY <1>1 DEF Event
<1>3. QED
  BY <1>2 DEF Tokens, Numbered

\* The rows whose fencing_token is not NULL.
HasNumber(type, worker) ==
  \/ type \in {"claimed", "heartbeat", "completed", "retry_scheduled", "stale_rejected"}
  \/ type = "failed" /\ worker # NoWorker

\* An appended row adds its own token, if it has one, and no other.
LEMMA AppendTokens ==
  ASSUME NEW log \in Seq(Event), NEW type \in EventType,
         NEW worker \in Workers \cup {NoWorker}, NEW token \in Int
  PROVE  Tokens(appendEvent(log, type, worker, token))
           = Tokens(log) \cup (IF HasNumber(type, worker) THEN {token} ELSE {})
<1> DEFINE new == appendEvent(log, type, worker, token)
           last == Len(log) + 1
<1>1. /\ DOMAIN new = 1..last
      /\ DOMAIN log = 1..Len(log)
      /\ Len(log) \in Nat
      /\ \A i \in 1..Len(log) : new[i] = log[i]
      /\ new[last] = [event_type |-> type, worker_id |-> worker, fencing_token |-> token]
  BY AppendEvent
<1> HIDE DEF new
<1>2. DOMAIN new = DOMAIN log \cup {last} /\ last \notin DOMAIN log
  BY <1>1
<1>3. \A i \in DOMAIN log : i \in Numbered(new) <=> i \in Numbered(log)
  BY <1>1, <1>2 DEF Numbered
<1>4. last \in Numbered(new) <=> HasNumber(type, worker)
  BY <1>1, <1>2 DEF Numbered, HasNumber
<1>5. Numbered(new) \subseteq DOMAIN new /\ Numbered(log) \subseteq DOMAIN log
  BY DEF Numbered
<1>6. \A i \in DOMAIN log : new[i].fencing_token = log[i].fencing_token
  BY <1>1
<1>7. new[last].fencing_token = token
  BY <1>1
<1> HIDE DEF last
<1>8. QED
  BY <1>2, <1>3, <1>4, <1>5, <1>6, <1>7 DEF Tokens, new

\* No token is ever dropped from a history.
LEMMA AppendKeepsTokens ==
  ASSUME NEW log \in Seq(Event), NEW type \in EventType,
         NEW worker \in Workers \cup {NoWorker}, NEW token \in Int
  PROVE  Tokens(log) \subseteq Tokens(appendEvent(log, type, worker, token))
BY AppendTokens

\* MAX(fencing_token) exists after every append of a row that has one.
LEMMA AppendHasMax ==
  ASSUME NEW log \in Seq(Event), NEW type \in EventType,
         NEW worker \in Workers \cup {NoWorker}, NEW token \in Int,
         HasMax(Tokens(log))
  PROVE  HasMax(Tokens(appendEvent(log, type, worker, token)))
<1> DEFINE T == Tokens(log)
           new == Tokens(appendEvent(log, type, worker, token))
<1>1. T \subseteq Int /\ HasMax(T)
  BY TokensType
<1>2. new = T \/ new = T \cup {token}
  <2>1. CASE HasNumber(type, worker)
    BY <2>1, AppendTokens
  <2>2. CASE ~HasNumber(type, worker)
    BY <2>2, AppendTokens
  <2> QED
    BY <2>1, <2>2
<1> HIDE DEF T, new
<1>3. HasMax(T \cup {token})
  <2>1. CASE T = {}
    <3>1. T \cup {token} = {token}
      BY <2>1
    <3>2. HasMax({token})
      BY DEF HasMax
    <3> QED
      BY <3>1, <3>2
  <2>2. CASE T # {}
    <3>1. PICK m \in T : \A n \in T : n <= m
      BY <1>1, <2>2 DEF HasMax
    <3>2. CASE token <= m
      BY <1>1, <3>1, <3>2 DEF HasMax
    <3>3. CASE ~(token <= m)
      <4>1. \A n \in T \cup {token} : n <= token
        BY <1>1, <3>1, <3>3
      <4>2. token \in T \cup {token}
        OBVIOUS
      <4> QED
        BY <4>1, <4>2, Zenon DEF HasMax
    <3> QED
      BY <3>2, <3>3
  <2> QED
    BY <2>1, <2>2
<1>4. HasMax(new)
  BY <1>1, <1>2, <1>3
<1> QED
  BY <1>4 DEF new

\* The token of the next claim is above every token logged so far, and positive
\* when they are.
LEMMA NextTokenFresh ==
  ASSUME NEW k \in Keys, events[k] \in Seq(Event),
         HasMax(Tokens(events[k]))
  PROVE  /\ NextToken(k) \in Int
         /\ \A n \in Tokens(events[k]) : n < NextToken(k)
         /\ (\A n \in Tokens(events[k]) : n > 0) => NextToken(k) > 0
<1>1. Tokens(events[k]) \subseteq Int
  BY TokensType
<1>2. CASE Tokens(events[k]) = {}
  BY <1>2 DEF NextToken
<1>3. CASE Tokens(events[k]) # {}
  <2>1. Max(Tokens(events[k])) \in Tokens(events[k])
        /\ \A n \in Tokens(events[k]) : Max(Tokens(events[k])) >= n
    BY <1>1, <1>3 DEF Max, HasMax
  <2> QED
    BY <1>1, <1>3, <2>1 DEF NextToken
<1> QED
  BY <1>2, <1>3

\* A row that is no claim, or a claim of at most the bound, keeps the bound.
LEMMA AppendNewest ==
  ASSUME NEW log \in Seq(Event), NEW type \in EventType,
         NEW worker \in Workers \cup {NoWorker}, NEW token \in Int,
         NEW bound, Newest(log, bound), type = "claimed" => token <= bound
  PROVE  Newest(appendEvent(log, type, worker, token), bound)
<1> DEFINE new == appendEvent(log, type, worker, token)
<1>1. /\ DOMAIN new = 1..Len(log) + 1
      /\ DOMAIN log = 1..Len(log)
      /\ Len(log) \in Nat
      /\ \A i \in 1..Len(log) : new[i] = log[i]
      /\ new[Len(log) + 1] = [event_type |-> type, worker_id |-> worker, fencing_token |-> token]
  BY AppendEvent
<1> HIDE DEF new
<1>2. ASSUME NEW i \in ClaimEvents(new)
      PROVE  new[i].fencing_token <= bound
  <2>1. CASE i \in DOMAIN log
    BY <1>1, <2>1 DEF Newest, ClaimEvents
  <2>2. CASE i = Len(log) + 1
    BY <1>1, <2>2 DEF ClaimEvents
  <2>3. QED
    BY <1>1, <2>1, <2>2 DEF ClaimEvents
<1>3. QED
  BY <1>2 DEF Newest, new

\* A history stays fenced when a holder's row has a token no claim exceeds, and
\* a claim's row a token above every claim's.
LEMMA AppendFenced ==
  ASSUME NEW log \in Seq(Event), NEW type \in EventType,
         NEW worker \in Workers \cup {NoWorker}, NEW token \in Int,
         Fenced(log),
         HasNumber(type, worker) /\ type # "stale_rejected" => Newest(log, token),
         type = "claimed" => \A i \in ClaimEvents(log) : log[i].fencing_token < token
  PROVE  Fenced(appendEvent(log, type, worker, token))
<1> DEFINE new == appendEvent(log, type, worker, token)
<1>1. /\ DOMAIN new = 1..Len(log) + 1
      /\ DOMAIN log = 1..Len(log)
      /\ Len(log) \in Nat
      /\ \A i \in 1..Len(log) : new[i] = log[i]
      /\ new[Len(log) + 1] = [event_type |-> type, worker_id |-> worker, fencing_token |-> token]
  BY AppendEvent
<1>1a. \A i \in DOMAIN log : log[i].fencing_token \in Int
  BY TokensType
<1> HIDE DEF new
<1>2. SUFFICES ASSUME NEW i \in ClaimEvents(new), NEW j \in HolderEvents(new), i < j
               PROVE  /\ new[j].fencing_token >= new[i].fencing_token
                      /\ new[j].event_type = "claimed" => new[j].fencing_token # new[i].fencing_token
  BY DEF Fenced, new
<1>3. i \in 1..Len(log) + 1 /\ j \in 1..Len(log) + 1
  BY <1>1 DEF ClaimEvents, HolderEvents, Numbered
<1>4. i \in DOMAIN log /\ i \in ClaimEvents(log) /\ new[i] = log[i]
  BY <1>1, <1>2, <1>3 DEF ClaimEvents
<1>5. CASE j \in DOMAIN log
  <2>1. j \in HolderEvents(log) /\ new[j] = log[j]
    BY <1>1, <1>5 DEF HolderEvents, Numbered
  <2>2. QED
    BY <1>2, <1>4, <2>1 DEF Fenced
<1>6. CASE j = Len(log) + 1
  <2>1. /\ HasNumber(type, worker) /\ type # "stale_rejected"
        /\ new[j].fencing_token = token
        /\ new[j].event_type = type
    BY <1>1, <1>6 DEF HolderEvents, Numbered, HasNumber
  <2>2. log[i].fencing_token <= token
    BY <1>4, <2>1 DEF Newest
  <2>3. type = "claimed" => log[i].fencing_token # token
    BY <1>1a, <1>4
  <2>4. QED
    BY <1>1a, <1>4, <2>1, <2>2, <2>3
<1>7. QED
  BY <1>1, <1>3, <1>5, <1>6

-----------------------------------------------------------------------------
(* The tables.                                                             *)

StoreInv == StoreTypeOK /\ \A k \in Keys : KeyInv(k)

TokensKept == \A k \in Keys : Tokens(events[k]) \subseteq Tokens(events'[k])

\* What every appended row keeps of a history: its type, its MAX, its tokens and,
\* unless the row is a claim, the bound on its claims.
LEMMA AppendRow ==
  ASSUME NEW log \in Seq(Event), HasMax(Tokens(log)), NEW type \in EventType,
         NEW worker \in Workers \cup {NoWorker}, NEW token \in Int
  PROVE  /\ appendEvent(log, type, worker, token) \in Seq(Event)
         /\ HasMax(Tokens(appendEvent(log, type, worker, token)))
         /\ Tokens(log) \subseteq Tokens(appendEvent(log, type, worker, token))
         /\ type # "claimed" =>
              \A bound : Newest(log, bound) => Newest(appendEvent(log, type, worker, token), bound)
<1>1. appendEvent(log, type, worker, token) \in Seq(Event)
  BY AppendEvent
<1>2. HasMax(Tokens(appendEvent(log, type, worker, token)))
  BY AppendHasMax
<1>3. Tokens(log) \subseteq Tokens(appendEvent(log, type, worker, token))
  BY AppendKeepsTokens
<1>4. type # "claimed" =>
        \A bound : Newest(log, bound) => Newest(appendEvent(log, type, worker, token), bound)
  BY AppendNewest
<1> QED
  BY <1>1, <1>2, <1>3, <1>4

\* The rows that are no claim.
LEMMA EventKinds ==
  /\ \A type \in {"submitted", "ready", "heartbeat", "completed", "failed", "lease_expired", "stale_rejected",
                  "retry_scheduled", "duplicate_detected"} : type \in EventType /\ type # "claimed"
  /\ "claimed" \in EventType
  /\ NoWorker \in Workers \cup {NoWorker}
  /\ 0 \in Int
BY DEF EventType

\* A transaction touches the rows of one execution: the others keep KeyInv.
LEMMA OneKeyStep ==
  ASSUME StoreInv, StoreTypeOK', NEW k \in Keys, KeyInv(k)',
         Tokens(events[k]) \subseteq Tokens(events'[k]),
         \A j \in Keys \ {k} :
           /\ status'[j] = status[j]
           /\ lease'[j] = lease[j]
           /\ retry_in'[j] = retry_in[j]
           /\ events'[j] = events[j]
  PROVE  StoreInv' /\ TokensKept
<1>1. ASSUME NEW j \in Keys \ {k}
      PROVE  KeyInv(j)'
  BY DEF StoreInv, KeyInv, HasLease
<1>2. TokensKept
  BY DEF TokensKept
<1>3. QED
  BY <1>1, <1>2 DEF StoreInv

\* The rows of an execution as KeyInv finds them.
LEMMA KeyRows ==
  ASSUME StoreInv, NEW k \in Keys
  PROVE  /\ status[k] \in Status
         /\ attempts[k] \in Nat
         /\ result[k] \in Int
         /\ lease[k] \in Lease
         /\ retry_in[k] \in Nat \cup {NoRetry}
         /\ events[k] \in Seq(Event)
         /\ HasMax(Tokens(events[k]))
         /\ HasLease(k) => Newest(events[k], lease[k].fencing_token)
         /\ status[k] = "running" => HasLease(k)
         /\ status[k] = "pending" => retry_in[k] # NoRetry
BY DEF StoreInv, StoreTypeOK, KeyInv

\* Submit of a new key.
LEMMA SubmitNewPreserves ==
  ASSUME StoreInv, NEW k \in Keys, SubmitNew(k)
  PROVE  StoreInv' /\ TokensKept
<1> DEFINE one == appendEvent(events[k], "submitted", NoWorker, 0)
           two == appendEvent(one, "ready", NoWorker, 0)
<1>1. one \in Seq(Event) /\ HasMax(Tokens(one))
  BY AppendRow, KeyRows, EventKinds
<1>1a. Tokens(events[k]) \subseteq Tokens(one)
  BY AppendRow, KeyRows, EventKinds
<1>2. HasLease(k) => Newest(one, lease[k].fencing_token)
  BY AppendRow, KeyRows, EventKinds
<1> HIDE DEF one
<1>3. two \in Seq(Event) /\ HasMax(Tokens(two))
  BY <1>1, AppendRow, EventKinds
<1>3a. Tokens(one) \subseteq Tokens(two)
  BY <1>1, AppendRow, EventKinds
<1>4. HasLease(k) => Newest(two, lease[k].fencing_token)
  BY <1>1, <1>2, AppendRow, EventKinds
<1> HIDE DEF two
<1>5. StoreTypeOK'
  BY <1>3 DEF SubmitNew, StoreInv, StoreTypeOK, Status, one, two
<1>6. /\ events'[k] = two
      /\ status'[k] = "ready"
      /\ \A j \in Keys \ {k} : events'[j] = events[j] /\ status'[j] = status[j]
      /\ UNCHANGED <<attempts, result, error_message, lease, retry_in>>
  BY DEF SubmitNew, StoreInv, StoreTypeOK, one, two
<1>7. KeyInv(k)'
  BY <1>3, <1>4, <1>6 DEF KeyInv, HasLease
<1>8. Tokens(events[k]) \subseteq Tokens(events'[k])
  BY <1>1a, <1>3a, <1>6
<1>9. QED
  BY <1>5, <1>6, <1>7, <1>8, OneKeyStep

\* Values a lease or a retry row is set to are values of its type.
LEMMA LeaseTypes ==
  /\ NoLease \in Lease
  /\ \A w \in Workers, age \in Int : LeaseSeconds[w] - age \in Int
  /\ \A n \in Nat, age \in Int : DueIn(Backoff(n) - age) \in Nat
  /\ \A n \in Nat : n # NoRetry
<1>1. \A n \in Nat : Backoff(n) \in Int
  BY DEF Backoff
<1>2. \A n \in Nat, age \in Int : DueIn(Backoff(n) - age) \in Nat
  BY <1>1 DEF DueIn
<1>3. \A w \in Workers, age \in Int : LeaseSeconds[w] - age \in Int
  BY StoreAssumption
<1>4. QED
  BY <1>2, <1>3 DEF NoLease, Lease, NoRetry

\* Submit of a known key.
LEMMA SubmitDuplicatePreserves ==
  ASSUME StoreInv, NEW k \in Keys, SubmitDuplicate(k)
  PROVE  StoreInv' /\ TokensKept
<1> DEFINE new == appendEvent(events[k], "duplicate_detected", NoWorker, 0)
<1>1. new \in Seq(Event) /\ HasMax(Tokens(new))
  BY AppendRow, KeyRows, EventKinds
<1>2. \A bound : Newest(events[k], bound) => Newest(new, bound)
  BY AppendRow, KeyRows, EventKinds
<1>3. Tokens(events[k]) \subseteq Tokens(new)
  BY AppendRow, KeyRows, EventKinds
<1> HIDE DEF new
<1>4. /\ events' = [events EXCEPT ![k] = new]
      /\ UNCHANGED <<status, attempts, result, error_message, lease, retry_in>>
  BY DEF SubmitDuplicate, new
<1>5. StoreTypeOK' /\ events'[k] = new
  BY <1>1, <1>4 DEF StoreInv, StoreTypeOK, Status
<1>6. KeyInv(k)'
  BY <1>1, <1>2, <1>4, <1>5, KeyRows DEF KeyInv, HasLease, StoreInv, StoreTypeOK, NoLease
<1>7. QED
  BY <1>3, <1>4, <1>5, <1>6, OneKeyStep DEF StoreInv, StoreTypeOK

\* A report that comes too late, by a worker or through /internal/complete.
LEMMA ReportRejectedPreserves ==
  ASSUME StoreInv, NEW k \in Keys, NEW token \in Int, NEW w \in Workers \cup {NoWorker},
         ReportRejected(k, token, w)
  PROVE  StoreInv' /\ TokensKept
<1> DEFINE new == appendEvent(events[k], "stale_rejected", w, token)
<1>1. new \in Seq(Event) /\ HasMax(Tokens(new))
  BY AppendRow, KeyRows, EventKinds
<1>2. \A bound : Newest(events[k], bound) => Newest(new, bound)
  BY AppendRow, KeyRows, EventKinds
<1>3. Tokens(events[k]) \subseteq Tokens(new)
  BY AppendRow, KeyRows, EventKinds
<1> HIDE DEF new
<1>4. /\ events' = [events EXCEPT ![k] = new]
      /\ UNCHANGED <<status, attempts, result, error_message, lease, retry_in>>
  BY DEF ReportRejected, new
<1>5. StoreTypeOK' /\ events'[k] = new
  BY <1>1, <1>4 DEF StoreInv, StoreTypeOK, Status
<1>6. KeyInv(k)'
  BY <1>1, <1>2, <1>4, <1>5, KeyRows DEF KeyInv, HasLease, StoreInv, StoreTypeOK, NoLease
<1>7. QED
  BY <1>3, <1>4, <1>5, <1>6, OneKeyStep DEF StoreInv, StoreTypeOK

\* Complete by the holder of the lease.
LEMMA CompleteAcceptedPreserves ==
  ASSUME StoreInv, NEW k \in Keys, NEW token \in Int, NEW w \in Workers \cup {NoWorker},
         CompleteAccepted(k, token, w)
  PROVE  StoreInv' /\ TokensKept
<1> DEFINE new == appendEvent(events[k], "completed", w, token)
<1>2. new \in Seq(Event) /\ HasMax(Tokens(new))
  BY AppendRow, KeyRows, EventKinds
<1>3. \A bound : Newest(events[k], bound) => Newest(new, bound)
  BY AppendRow, KeyRows, EventKinds
<1>4. Tokens(events[k]) \subseteq Tokens(new)
  BY AppendRow, KeyRows, EventKinds
<1> HIDE DEF new
<1>5. /\ events' = [events EXCEPT ![k] = new]
      /\ status' = [status EXCEPT ![k] = "completed"]
      /\ result' = [result EXCEPT ![k] = token]
      /\ error_message' = [error_message EXCEPT ![k] = "none"]
      /\ lease' = [lease EXCEPT ![k] = NoLease]
      /\ UNCHANGED <<attempts, retry_in>>
  BY DEF CompleteAccepted, new
<1>6. StoreTypeOK' /\ events'[k] = new
  BY <1>2, <1>5, LeaseTypes DEF StoreInv, StoreTypeOK, Status
<1>7. KeyInv(k)'
  BY <1>2, <1>3, <1>5, <1>6, KeyRows DEF KeyInv, HasLease, StoreInv, StoreTypeOK, NoLease
<1>8. QED
  BY <1>4, <1>5, <1>6, <1>7, OneKeyStep DEF StoreInv, StoreTypeOK

\* Fail with attempts left.
LEMMA FailRetriesPreserves ==
  ASSUME StoreInv, NEW k \in Keys, NEW token \in Int, NEW w \in Workers \cup {NoWorker},
         NEW age \in Int, FailRetries(k, token, w, age)
  PROVE  StoreInv' /\ TokensKept
<1> DEFINE new == appendEvent(events[k], "retry_scheduled", w, token)
<1>2. new \in Seq(Event) /\ HasMax(Tokens(new))
  BY AppendRow, KeyRows, EventKinds
<1>3. \A bound : Newest(events[k], bound) => Newest(new, bound)
  BY AppendRow, KeyRows, EventKinds
<1>4. Tokens(events[k]) \subseteq Tokens(new)
  BY AppendRow, KeyRows, EventKinds
<1> HIDE DEF new
<1>5. /\ events' = [events EXCEPT ![k] = new]
      /\ status' = [status EXCEPT ![k] = "pending"]
      /\ error_message' = [error_message EXCEPT ![k] = "handler"]
      /\ lease' = [lease EXCEPT ![k] = NoLease]
      /\ retry_in' = [retry_in EXCEPT ![k] = DueIn(Backoff(attempts[k]) - age)]
      /\ UNCHANGED <<attempts, result>>
  BY DEF FailRetries, new
<1>6. StoreTypeOK' /\ events'[k] = new
  BY <1>2, <1>5, LeaseTypes DEF StoreInv, StoreTypeOK, Status
<1>7. retry_in'[k] # NoRetry
  BY <1>5, KeyRows, LeaseTypes DEF StoreInv, StoreTypeOK
<1>8. KeyInv(k)'
  BY <1>2, <1>3, <1>5, <1>6, <1>7, KeyRows DEF KeyInv, HasLease, StoreInv, StoreTypeOK, NoLease
<1>9. QED
  BY <1>4, <1>5, <1>6, <1>8, OneKeyStep DEF StoreInv, StoreTypeOK

\* Fail of the last attempt.
LEMMA FailTerminalPreserves ==
  ASSUME StoreInv, NEW k \in Keys, NEW token \in Int, NEW w \in Workers \cup {NoWorker},
         FailTerminal(k, token, w)
  PROVE  StoreInv' /\ TokensKept
<1> DEFINE new == appendEvent(events[k], "failed", w, token)
<1>2. new \in Seq(Event) /\ HasMax(Tokens(new))
  BY AppendRow, KeyRows, EventKinds
<1>3. \A bound : Newest(events[k], bound) => Newest(new, bound)
  BY AppendRow, KeyRows, EventKinds
<1>4. Tokens(events[k]) \subseteq Tokens(new)
  BY AppendRow, KeyRows, EventKinds
<1> HIDE DEF new
<1>5. /\ events' = [events EXCEPT ![k] = new]
      /\ status' = [status EXCEPT ![k] = "failed"]
      /\ error_message' = [error_message EXCEPT ![k] = "handler"]
      /\ lease' = [lease EXCEPT ![k] = NoLease]
      /\ UNCHANGED <<attempts, result, retry_in>>
  BY DEF FailTerminal, new
<1>6. StoreTypeOK' /\ events'[k] = new
  BY <1>2, <1>5, LeaseTypes DEF StoreInv, StoreTypeOK, Status
<1>7. KeyInv(k)'
  BY <1>2, <1>3, <1>5, <1>6, KeyRows DEF KeyInv, HasLease, StoreInv, StoreTypeOK, NoLease
<1>8. QED
  BY <1>4, <1>5, <1>6, <1>7, OneKeyStep DEF StoreInv, StoreTypeOK

\* Heartbeat by the holder of the lease.
LEMMA HeartbeatAcceptedPreserves ==
  ASSUME StoreInv, NEW k \in Keys, NEW token \in Int, NEW w \in Workers,
         NEW age \in Int, HeartbeatAccepted(k, token, w, age)
  PROVE  StoreInv' /\ TokensKept
<1> DEFINE new == appendEvent(events[k], "heartbeat", NoWorker, token)
<1>1. HasLease(k) /\ lease[k].fencing_token = token /\ Newest(events[k], token)
  BY KeyRows DEF HeartbeatAccepted, LeaseLive
<1>2. new \in Seq(Event) /\ HasMax(Tokens(new))
  BY AppendRow, KeyRows, EventKinds
<1>3. \A bound : Newest(events[k], bound) => Newest(new, bound)
  BY AppendRow, KeyRows, EventKinds
<1>4. Tokens(events[k]) \subseteq Tokens(new)
  BY AppendRow, KeyRows, EventKinds
<1> HIDE DEF new
<1>5. /\ events' = [events EXCEPT ![k] = new]
      /\ lease' = [lease EXCEPT ![k].expires_in = LeaseSeconds[w] - age]
      /\ UNCHANGED <<status, attempts, result, error_message, retry_in>>
  BY DEF HeartbeatAccepted, new
<1>6. /\ lease'[k] \in Lease
      /\ lease'[k].worker_id = lease[k].worker_id
      /\ lease'[k].fencing_token = lease[k].fencing_token
      /\ \A j \in Keys \ {k} : lease'[j] = lease[j]
      /\ lease' \in [Keys -> Lease]
  BY <1>5, LeaseTypes DEF StoreInv, StoreTypeOK, Lease
<1>7. StoreTypeOK' /\ events'[k] = new
  BY <1>2, <1>5, <1>6 DEF StoreInv, StoreTypeOK
<1>8. KeyInv(k)'
  BY <1>1, <1>2, <1>3, <1>5, <1>6, <1>7, KeyRows DEF KeyInv, HasLease
<1>9. QED
  BY <1>4, <1>5, <1>6, <1>7, <1>8, OneKeyStep DEF StoreInv, StoreTypeOK

\* Claim: its token is new to the history and above all others.
LEMMA ClaimPreserves ==
  ASSUME StoreInv, NEW k \in Keys, NEW w \in Workers, NEW age \in Int, Claim(k, w, age)
  PROVE  /\ StoreInv' /\ TokensKept
         /\ NextToken(k) \in Int
         /\ NextToken(k) \in Tokens(events'[k])
         /\ NextToken(k) \notin Tokens(events[k])
<1> DEFINE token == NextToken(k)
           new == appendEvent(events[k], "claimed", w, token)
<1>1. token \in Int /\ \A n \in Tokens(events[k]) : n < token
  BY NextTokenFresh, KeyRows
<1>2. \A i \in ClaimEvents(events[k]) : events[k][i].fencing_token < token
  BY <1>1 DEF Tokens, Numbered, ClaimEvents
<1>3. Newest(events[k], token)
  <2>1. \A i \in DOMAIN events[k] : events[k][i].fencing_token \in Int
    BY TokensType, KeyRows
  <2>2. QED
    BY <1>1, <1>2, <2>1 DEF Newest, ClaimEvents
<1> HIDE DEF token
<1>4. "claimed" \in EventType /\ w \in Workers \cup {NoWorker}
  BY DEF EventType
<1>5. new \in Seq(Event) /\ HasMax(Tokens(new))
  BY <1>1, <1>4, KeyRows, AppendRow
<1>8. Newest(new, token)
  BY <1>1, <1>3, <1>4, KeyRows, AppendNewest
<1>9. Tokens(new) = Tokens(events[k]) \cup {token}
  <2>1. HasNumber("claimed", w)
    BY DEF HasNumber
  <2> QED
    BY <1>1, <1>4, <2>1, KeyRows, AppendTokens
<1> HIDE DEF new
<1>10. /\ events' = [events EXCEPT ![k] = new]
       /\ status' = [status EXCEPT ![k] = "running"]
       /\ attempts' = [attempts EXCEPT ![k] = @ + 1]
       /\ lease' = [lease EXCEPT ![k] = [worker_id |-> w, fencing_token |-> token,
                                        expires_in |-> LeaseSeconds[w] - age]]
       /\ UNCHANGED <<result, error_message, retry_in>>
  BY DEF Claim, new, token
<1>11. [worker_id |-> w, fencing_token |-> token, expires_in |-> LeaseSeconds[w] - age] \in Lease
  BY <1>1, LeaseTypes DEF Lease
<1>12. StoreTypeOK' /\ events'[k] = new
  BY <1>5, <1>10, <1>11 DEF StoreInv, StoreTypeOK, Status
<1>13. HasLease(k)' /\ lease'[k].fencing_token = token /\ status'[k] = "running"
  BY <1>10, StoreAssumption DEF HasLease, StoreInv, StoreTypeOK
<1>14. KeyInv(k)'
  BY <1>5, <1>8, <1>12, <1>13 DEF KeyInv
<1>15. StoreInv' /\ TokensKept
  BY <1>9, <1>10, <1>12, <1>14, OneKeyStep DEF StoreInv, StoreTypeOK
<1>16. QED
  BY <1>1, <1>9, <1>12, <1>15 DEF token

\* The reaper, with attempts left in what it read.
LEMMA ExpireToReadyPreserves ==
  ASSUME StoreInv, NEW k \in Keys, NEW seen \in Nat, ExpireToReady(k, seen)
  PROVE  StoreInv' /\ TokensKept
<1> DEFINE new == appendEvent(events[k], "lease_expired", NoWorker, 0)
<1>1. new \in Seq(Event) /\ HasMax(Tokens(new))
  BY AppendRow, KeyRows, EventKinds
<1>2. Tokens(events[k]) \subseteq Tokens(new)
  BY AppendRow, KeyRows, EventKinds
<1> HIDE DEF new
<1>3. /\ events' = [events EXCEPT ![k] = new]
      /\ status' = [status EXCEPT ![k] = "ready"]
      /\ lease' = [lease EXCEPT ![k] = NoLease]
      /\ UNCHANGED <<attempts, result, error_message, retry_in>>
  BY DEF ExpireToReady, new
<1>4. StoreTypeOK' /\ events'[k] = new /\ status'[k] = "ready" /\ ~HasLease(k)'
  BY <1>1, <1>3, LeaseTypes DEF StoreInv, StoreTypeOK, Status, HasLease, NoLease
<1>5. KeyInv(k)'
  BY <1>1, <1>4 DEF KeyInv
<1>6. QED
  BY <1>2, <1>3, <1>4, <1>5, OneKeyStep DEF StoreInv, StoreTypeOK

\* The reaper, after the last attempt.
LEMMA ExpireToFailedPreserves ==
  ASSUME StoreInv, NEW k \in Keys, NEW seen \in Nat, ExpireToFailed(k, seen)
  PROVE  StoreInv' /\ TokensKept
<1> DEFINE one == appendEvent(events[k], "lease_expired", NoWorker, 0)
           two == appendEvent(one, "failed", NoWorker, 0)
<1>1. one \in Seq(Event) /\ HasMax(Tokens(one))
  BY AppendRow, KeyRows, EventKinds
<1>2. Tokens(events[k]) \subseteq Tokens(one)
  BY AppendRow, KeyRows, EventKinds
<1> HIDE DEF one
<1>4. two \in Seq(Event) /\ HasMax(Tokens(two))
  BY <1>1, AppendRow, EventKinds
<1>5. Tokens(one) \subseteq Tokens(two)
  BY <1>1, AppendRow, EventKinds
<1> HIDE DEF two
<1>6. /\ events' = [events EXCEPT ![k] = two]
      /\ status' = [status EXCEPT ![k] = "failed"]
      /\ error_message' = [error_message EXCEPT ![k] = "lease"]
      /\ lease' = [lease EXCEPT ![k] = NoLease]
      /\ UNCHANGED <<attempts, result, retry_in>>
  BY DEF ExpireToFailed, one, two, StoreInv, StoreTypeOK
<1>7. StoreTypeOK' /\ events'[k] = two /\ status'[k] = "failed" /\ ~HasLease(k)'
  BY <1>4, <1>6, LeaseTypes DEF StoreInv, StoreTypeOK, Status, HasLease, NoLease
<1>8. KeyInv(k)'
  BY <1>4, <1>7 DEF KeyInv
<1>9. Tokens(events[k]) \subseteq Tokens(events'[k])
  BY <1>2, <1>5, <1>7
<1>10. QED
  BY <1>6, <1>7, <1>8, <1>9, OneKeyStep DEF StoreInv, StoreTypeOK

\* The promoter, whatever status it finds.
LEMMA promoteRetryPreserves ==
  ASSUME StoreInv, NEW k \in Keys, promoteRetry(k)
  PROVE  StoreInv' /\ TokensKept
<1> DEFINE new == appendEvent(events[k], "ready", NoWorker, 0)
<1>1. new \in Seq(Event) /\ HasMax(Tokens(new))
  BY AppendRow, KeyRows, EventKinds
<1>2. \A bound : Newest(events[k], bound) => Newest(new, bound)
  BY AppendRow, KeyRows, EventKinds
<1>3. Tokens(events[k]) \subseteq Tokens(new)
  BY AppendRow, KeyRows, EventKinds
<1> HIDE DEF new
<1>4. /\ events' = [events EXCEPT ![k] = new]
      /\ status' = [status EXCEPT ![k] = "ready"]
      /\ retry_in' = [retry_in EXCEPT ![k] = NoRetry]
      /\ UNCHANGED <<attempts, result, error_message, lease>>
  BY DEF promoteRetry, new
<1>5. StoreTypeOK' /\ events'[k] = new /\ status'[k] = "ready"
  BY <1>1, <1>4 DEF StoreInv, StoreTypeOK, Status
<1>6. KeyInv(k)'
  BY <1>1, <1>2, <1>4, <1>5, KeyRows DEF KeyInv, HasLease
<1>7. QED
  BY <1>3, <1>4, <1>5, <1>6, OneKeyStep DEF StoreInv, StoreTypeOK

\* The clock: a lease that lapses stays the row of its claim until it is reaped.
LEMMA TickPreserves ==
  ASSUME StoreInv, Tick
  PROVE  StoreInv' /\ TokensKept
<1>1. ASSUME NEW k \in Keys
      PROVE  /\ lease'[k] \in Lease
             /\ lease'[k].worker_id = lease[k].worker_id
             /\ lease'[k].fencing_token = lease[k].fencing_token
  <2>1. lease[k] \in Lease
    BY KeyRows
  <2>2. \/ lease'[k] = lease[k]
        \/ lease'[k] = [lease[k] EXCEPT !.expires_in = @ - 1]
    BY DEF Tick
  <2>3. QED
    BY <2>1, <2>2 DEF Lease
<1>2. ASSUME NEW k \in Keys
      PROVE  /\ retry_in'[k] \in Nat \cup {NoRetry}
             /\ retry_in[k] # NoRetry => retry_in'[k] # NoRetry
  BY KeyRows DEF Tick, NoRetry
<1>3. UNCHANGED <<status, attempts, result, error_message, events>>
  BY DEF Tick
<1>4. StoreTypeOK'
  BY <1>1, <1>2, <1>3 DEF StoreInv, StoreTypeOK, Tick
<1>5. ASSUME NEW k \in Keys
      PROVE  KeyInv(k)'
  BY <1>1, <1>2, <1>3, KeyRows DEF KeyInv, HasLease
<1>6. QED
  BY <1>3, <1>4, <1>5 DEF StoreInv, TokensKept

\* A step that leaves the tables alone.
LEMMA StoreStutter ==
  ASSUME StoreInv, UNCHANGED storeVars
  PROVE  StoreInv' /\ TokensKept
<1>1. UNCHANGED <<status, attempts, result, error_message, lease, retry_in, events>>
  BY DEF storeVars
<1>2. StoreTypeOK'
  BY <1>1 DEF StoreInv, StoreTypeOK
<1>3. ASSUME NEW k \in Keys
      PROVE  KeyInv(k)'
  BY <1>1 DEF StoreInv, KeyInv, HasLease
<1>4. QED
  BY <1>1, <1>2, <1>3 DEF StoreInv, TokensKept

\* The empty tables.
LEMMA StoreInitInv ==
  ASSUME StoreInit
  PROVE  StoreInv
<1>1. StoreTypeOK
  <2>1. NoLease \in Lease
    BY LeaseTypes
  <2>2. <<>> \in Seq(Event)
    OBVIOUS
  <2>3. QED
    BY <2>1, <2>2 DEF StoreInit, StoreTypeOK, Status, NoRetry
<1>2. ASSUME NEW k \in Keys
      PROVE  KeyInv(k)
  <2>1. events[k] = <<>> /\ status[k] = "absent" /\ lease[k] = NoLease
    BY DEF StoreInit
  <2>2. ~HasLease(k)
    BY <2>1 DEF HasLease, NoLease
  <2>3. Tokens(events[k]) = {}
    BY <2>1 DEF Tokens, Numbered
  <2>4. HasMax(Tokens(events[k]))
    BY <2>3 DEF HasMax
  <2>5. QED
    BY <2>1, <2>2, <2>4 DEF KeyInv
<1>3. QED
  BY <1>1, <1>2 DEF StoreInv

-----------------------------------------------------------------------------
(* 2. Ownership, in every deployment.                                      *)

RestTypeOK ==
  /\ open \subseteq Report
  /\ run \in [Workers -> Run]
  /\ beating \subseteq Goroutine
  /\ pass \in [Schedulers -> Pass]
  /\ allowTestEnds \in BOOLEAN
  /\ calls \in [Keys -> Nat]
  /\ answered \in [Keys -> SUBSET Int]

\* OwnershipInv by component: the tables, the other variables, the workers.
LEMMA OwnershipInvParts == OwnershipInv <=> StoreInv /\ RestTypeOK /\ RunTokens /\ OneOwner
BY DEF OwnershipInv, TypeOK, StoreInv, RestTypeOK

\* The same of the next state.
LEMMA OwnershipInvPartsPrime == OwnershipInv' <=> StoreInv' /\ RestTypeOK' /\ RunTokens' /\ OneOwner'
BY DEF OwnershipInv, TypeOK, StoreInv, RestTypeOK

\* A delay counted in ticks is an integer.
LEMMA AgeIsInt == \A age \in 0..MaxTxDelay : age \in Int
BY StoreAssumption

\* The test endpoint takes any BIGINT.
LEMMA ForcedAreInts == ForcedTokens \subseteq Int
BY ServerAssumption, StoreAssumption

\* No worker takes up a claim in this step.
NoNewRun ==
  \A w \in Workers : run'[w].pc # "idle" =>
    /\ run[w].pc # "idle"
    /\ run'[w].key = run[w].key
    /\ run'[w].token = run[w].token

\* A step that only drops claims or logs events keeps what is known of the workers.
LEMMA NoNewRunPreserves ==
  ASSUME RunTokens, OneOwner, TokensKept, NoNewRun
  PROVE  RunTokens' /\ OneOwner'
<1>1. RunTokens'
  BY DEF RunTokens, TokensKept, NoNewRun
<1>2. OneOwner'
  BY DEF OneOwner, NoNewRun
<1>3. QED
  BY <1>1, <1>2

\* The initial state.
LEMMA OwnershipInit == Init => OwnershipInv
<1> SUFFICES ASSUME Init PROVE OwnershipInv
  OBVIOUS
<1>1. StoreInv
  BY StoreInitInv DEF Init
<1>2. Idle \in Run
  BY DEF Idle, Run
<1>3. NoPass \in Pass
  BY DEF NoPass, Pass
<1>4. RestTypeOK
  BY <1>2, <1>3 DEF Init, ReportsInit, ExecutorInit, SchedulerInit, ServerInit, RestTypeOK
<1>5. RunTokens /\ OneOwner
  BY DEF Init, ExecutorInit, Idle, RunTokens, OneOwner
<1>6. QED
  BY <1>1, <1>4, <1>5, OwnershipInvParts

-----------------------------------------------------------------------------
(* The reports.                                                            *)

\* A report begins: nothing is written yet.
LEMMA BeginReportPreserves ==
  ASSUME StoreInv, open \subseteq Report, NEW kind \in {"complete", "fail"}, NEW k \in Keys, NEW token \in Int,
         NEW w \in Workers \cup {NoWorker}, NEW age \in 0..MaxTxDelay, BeginReport(kind, k, token, w, age)
  PROVE  StoreInv' /\ TokensKept /\ open' \subseteq Report
<1>1. StoreInv' /\ TokensKept
  BY StoreStutter DEF BeginReport
<1>2. LeaseLive(k, token, age) \in BOOLEAN
  BY DEF LeaseLive, HasLease
<1>3. [kind |-> kind, key |-> k, token |-> token, worker_id |-> w,
       owns |-> LeaseLive(k, token, age), age |-> age] \in Report
  BY <1>2 DEF Report
<1> QED
  BY <1>1, <1>3 DEF BeginReport

\* It commits: accepted or too late.
LEMMA CommitReportPreserves ==
  ASSUME StoreInv, open \subseteq Report, NEW r \in open, CommitReport(r)
  PROVE  StoreInv' /\ TokensKept /\ open' \subseteq Report
<1>1. r.key \in Keys /\ r.token \in Int /\ r.worker_id \in Workers \cup {NoWorker} /\ r.age \in Int
  BY AgeIsInt DEF Report
<1>2. \/ CompleteAccepted(r.key, r.token, r.worker_id)
      \/ FailRetries(r.key, r.token, r.worker_id, r.age)
      \/ FailTerminal(r.key, r.token, r.worker_id)
      \/ ReportRejected(r.key, r.token, r.worker_id)
  BY DEF CommitReport, Complete, Fail
<1>3. StoreInv' /\ TokensKept
  BY <1>1, <1>2, CompleteAcceptedPreserves, FailRetriesPreserves, FailTerminalPreserves,
     ReportRejectedPreserves
<1>4. open' \subseteq Report
  BY DEF CommitReport
<1> QED
  BY <1>3, <1>4

-----------------------------------------------------------------------------
(* The server.                                                             *)

\* The server: submissions, answers and forced completions.
LEMMA ServerStepPreserves ==
  ASSUME OwnershipInv, NEW k \in Keys, ServerStep(k), UNCHANGED <<executorVars, pass>>
  PROVE  OwnershipInv'
<1>0. StoreInv /\ RestTypeOK /\ RunTokens /\ OneOwner
  BY OwnershipInvParts
<1>1. NoNewRun /\ run' = run /\ beating' = beating /\ pass' = pass
  BY DEF NoNewRun, executorVars
<1>2. CASE CallNew(k)
  <2>1. StoreInv' /\ TokensKept
    BY <1>0, <1>2, SubmitNewPreserves DEF CallNew
  <2>2. RestTypeOK'
    BY <1>0, <1>1, <1>2 DEF RestTypeOK, CallNew
  <2>3. QED
    BY <1>0, <1>1, <2>1, <2>2, NoNewRunPreserves, OwnershipInvPartsPrime
<1>3. CASE CallDuplicate(k)
  <2>1. StoreInv' /\ TokensKept
    BY <1>0, <1>3, SubmitDuplicatePreserves DEF CallDuplicate
  <2>2. result[k] \in Int
    BY <1>0, KeyRows
  <2>3. RestTypeOK'
    BY <1>0, <1>1, <1>3, <2>2 DEF RestTypeOK, CallDuplicate
  <2>4. QED
    BY <1>0, <1>1, <2>1, <2>3, NoNewRunPreserves, OwnershipInvPartsPrime
<1>4. ASSUME NEW token \in ForcedTokens, NEW age \in 0..MaxTxDelay, ForceComplete(k, token, age)
      PROVE  OwnershipInv'
  <2>1. token \in Int /\ NoWorker \in Workers \cup {NoWorker}
    BY ForcedAreInts
  <2>2. StoreInv' /\ TokensKept /\ open' \subseteq Report
    BY <1>0, <1>4, <2>1, BeginReportPreserves DEF ForceComplete, RestTypeOK
  <2>4. RestTypeOK'
    BY <1>0, <1>1, <1>4, <2>2 DEF RestTypeOK, ForceComplete, serverVars
  <2>5. QED
    BY <1>0, <1>1, <2>2, <2>4, NoNewRunPreserves, OwnershipInvPartsPrime
<1>5. ASSUME NEW r \in Posts, EndForced(r)
      PROVE  OwnershipInv'
  <2>1. StoreInv' /\ TokensKept /\ open' \subseteq Report
    <3>1. CASE CommitReport(r)
      BY <1>0, <3>1, CommitReportPreserves DEF RestTypeOK, Posts
    <3>2. CASE open' = open \ {r} /\ UNCHANGED storeVars
      BY <1>0, <3>2, StoreStutter DEF RestTypeOK
    <3> QED
      BY <1>5, <3>1, <3>2 DEF EndForced
  <2>2. RestTypeOK'
    BY <1>0, <1>1, <1>5, <2>1 DEF RestTypeOK, EndForced, serverVars
  <2>3. QED
    BY <1>0, <1>1, <2>1, <2>2, NoNewRunPreserves, OwnershipInvPartsPrime
<1>6. QED
  BY <1>2, <1>3, <1>4, <1>5 DEF ServerStep

-----------------------------------------------------------------------------
(* The workers.                                                            *)

\* A worker takes up a claim: its token is in no worker's hands yet.
LEMMA NewRunPreserves ==
  ASSUME StoreInv, RestTypeOK, RunTokens, OneOwner, NEW w \in Workers, NEW k \in Keys, NEW age \in Int,
         Claim(k, w, age), NEW pc \in {"working", "fail"},
         run' = [run EXCEPT ![w] = [pc |-> pc, key |-> k, token |-> NextToken(k), lost |-> FALSE]]
  PROVE  StoreInv' /\ run' \in [Workers -> Run] /\ RunTokens' /\ OneOwner' /\ NextToken(k) \in Int
<1> DEFINE token == NextToken(k)
<1>1. /\ StoreInv' /\ TokensKept
      /\ token \in Int /\ token \in Tokens(events'[k]) /\ token \notin Tokens(events[k])
  BY ClaimPreserves
<1> HIDE DEF token
<1>2. [pc |-> pc, key |-> k, token |-> token, lost |-> FALSE] \in Run
  BY <1>1 DEF Run
<1>3. /\ run' \in [Workers -> Run]
      /\ run'[w].pc = pc /\ run'[w].key = k /\ run'[w].token = token
      /\ \A v \in Workers \ {w} : run'[v] = run[v]
  BY <1>2 DEF RestTypeOK, token
<1>4. RunTokens'
  BY <1>1, <1>3 DEF RunTokens, TokensKept
<1>5. \A v \in Workers \ {w} : (run[v].pc # "idle" /\ run[v].key = k) => run[v].token # token
  BY <1>1 DEF RunTokens
<1>6. OneOwner'
  BY <1>3, <1>5 DEF OneOwner
<1>7. QED
  BY <1>1, <1>3, <1>4, <1>6 DEF token

\* What a busy worker holds is a key and a token of their types.
LEMMA RunTypes ==
  ASSUME RestTypeOK, RunTokens, NEW w \in Workers, run[w].pc # "idle"
  PROVE  run[w].key \in Keys /\ run[w].token \in Int
BY DEF RestTypeOK, RunTokens, Run

\* A worker that goes idle takes up nothing.
LEMMA GoIdle ==
  ASSUME RestTypeOK, NEW w \in Workers, run' = [run EXCEPT ![w] = Idle]
  PROVE  run' \in [Workers -> Run] /\ NoNewRun
BY DEF RestTypeOK, Idle, Run, NoNewRun

\* Nor does a worker whose handler returns or whose context is cancelled.
LEMMA SameRun ==
  ASSUME RestTypeOK, NEW w \in Workers,
         \/ run[w].pc # "idle" /\ run' = [run EXCEPT ![w].pc = "complete"]
         \/ run[w].pc # "idle" /\ run' = [run EXCEPT ![w].pc = "fail"]
         \/ run[w].pc # "idle" /\ run' = [run EXCEPT ![w].pc = "reporting"]
         \/ run' = [run EXCEPT ![w].lost = TRUE]
  PROVE  run' \in [Workers -> Run] /\ NoNewRun
<1>1. run[w] \in Run
  BY DEF RestTypeOK
<1>2. /\ run'[w] \in Run
      /\ run'[w].key = run[w].key
      /\ run'[w].token = run[w].token
      /\ run'[w].pc # "idle" => run[w].pc # "idle"
      /\ \A v \in Workers \ {w} : run'[v] = run[v]
  <2>1. CASE run[w].pc # "idle" /\ run' = [run EXCEPT ![w].pc = "complete"]
    BY <1>1, <2>1 DEF RestTypeOK, Run
  <2>2. CASE run[w].pc # "idle" /\ run' = [run EXCEPT ![w].pc = "fail"]
    BY <1>1, <2>2 DEF RestTypeOK, Run
  <2>3. CASE run[w].pc # "idle" /\ run' = [run EXCEPT ![w].pc = "reporting"]
    BY <1>1, <2>3 DEF RestTypeOK, Run
  <2>4. CASE run' = [run EXCEPT ![w].lost = TRUE]
    BY <1>1, <2>4 DEF RestTypeOK, Run
  <2>5. QED
    BY <2>1, <2>2, <2>3, <2>4
<1>3. run' \in [Workers -> Run]
  BY <1>2 DEF RestTypeOK
<1>4. QED
  BY <1>2, <1>3 DEF NoNewRun

\* The executors: claims, reports, lost replies, crashes.
LEMMA ExecutorStepPreserves ==
  ASSUME OwnershipInv, NEW w \in Workers, ExecutorStep(w), UNCHANGED <<pass, serverVars>>
  PROVE  OwnershipInv'
<1>0. StoreInv /\ RestTypeOK /\ RunTokens /\ OneOwner
  BY OwnershipInvParts
<1>1. pass' = pass /\ calls' = calls /\ answered' = answered /\ allowTestEnds' = allowTestEnds
  BY DEF serverVars
<1>2. ASSUME NEW k \in Keys, NEW age \in 0..MaxTxDelay, StartHandled(w, k, age)
      PROVE  OwnershipInv'
  <2>1. StoreInv' /\ run' \in [Workers -> Run] /\ RunTokens' /\ OneOwner' /\ NextToken(k) \in Int
    BY <1>0, <1>2, AgeIsInt, NewRunPreserves DEF StartHandled
  <2>2. RestTypeOK'
    BY <1>0, <1>1, <1>2, <2>1 DEF RestTypeOK, StartHandled, Goroutine
  <2>3. QED
    BY <2>1, <2>2, OwnershipInvPartsPrime
<1>3. ASSUME NEW k \in Keys, NEW age \in 0..MaxTxDelay, StartUnhandled(w, k, age)
      PROVE  OwnershipInv'
  <2>1. StoreInv' /\ run' \in [Workers -> Run] /\ RunTokens' /\ OneOwner'
    BY <1>0, <1>3, AgeIsInt, NewRunPreserves DEF StartUnhandled
  <2>2. RestTypeOK'
    BY <1>0, <1>1, <1>3, <2>1 DEF RestTypeOK, StartUnhandled
  <2>3. QED
    BY <2>1, <2>2, OwnershipInvPartsPrime
<1>4. ASSUME NEW k \in Keys, NEW age \in 0..MaxTxDelay, ClaimReplyLost(w, k, age)
      PROVE  OwnershipInv'
  <2>1. StoreInv' /\ TokensKept
    BY <1>0, <1>4, AgeIsInt, ClaimPreserves DEF ClaimReplyLost
  <2>2. RestTypeOK' /\ NoNewRun
    BY <1>0, <1>1, <1>4 DEF RestTypeOK, ClaimReplyLost, executorVars, NoNewRun
  <2>3. QED
    BY <1>0, <2>1, <2>2, NoNewRunPreserves, OwnershipInvPartsPrime
<1>5. CASE HandlerSucceeds(w) \/ HandlerFails(w) \/ HandlerAborts(w)
  <2>1. StoreInv' /\ TokensKept
    BY <1>0, <1>5, StoreStutter DEF HandlerSucceeds, HandlerFails, HandlerAborts
  <2>2. run' \in [Workers -> Run] /\ NoNewRun
    BY <1>0, <1>5, GoIdle, SameRun DEF HandlerSucceeds, HandlerFails, HandlerAborts
  <2>3. RestTypeOK'
    BY <1>0, <1>1, <1>5, <2>2 DEF RestTypeOK, HandlerSucceeds, HandlerFails, HandlerAborts
  <2>4. QED
    BY <1>0, <2>1, <2>2, <2>3, NoNewRunPreserves, OwnershipInvPartsPrime
<1>6. ASSUME NEW age \in 0..MaxTxDelay, StartReport(w, age)
      PROVE  OwnershipInv'
  <2>1. run[w].pc \in {"complete", "fail"} /\ run' = [run EXCEPT ![w].pc = "reporting"] /\ beating' = beating
    BY <1>6 DEF StartReport
  <2>2. run[w].key \in Keys /\ run[w].token \in Int /\ w \in Workers \cup {NoWorker}
    BY <1>0, <2>1, RunTypes
  <2>3. StoreInv' /\ TokensKept /\ open' \subseteq Report
    BY <1>0, <1>6, <2>1, <2>2, BeginReportPreserves DEF StartReport, RestTypeOK
  <2>4. run' \in [Workers -> Run] /\ NoNewRun
    BY <1>0, <2>1, SameRun
  <2>5. RestTypeOK'
    BY <1>0, <1>1, <2>1, <2>3, <2>4 DEF RestTypeOK
  <2>6. QED
    BY <1>0, <2>3, <2>4, <2>5, NoNewRunPreserves, OwnershipInvPartsPrime
<1>7. CASE EndReport(w)
  <2>1. PICK r \in open : CommitReport(r)
    BY <1>7 DEF EndReport
  <2>2. StoreInv' /\ TokensKept /\ open' \subseteq Report
    BY <1>0, <2>1, CommitReportPreserves DEF RestTypeOK
  <2>3. run' \in [Workers -> Run] /\ NoNewRun
    BY <1>0, <1>7, GoIdle DEF EndReport
  <2>4. RestTypeOK'
    BY <1>0, <1>1, <1>7, <2>2, <2>3 DEF RestTypeOK, EndReport
  <2>5. QED
    BY <1>0, <2>2, <2>3, <2>4, NoNewRunPreserves, OwnershipInvPartsPrime
<1>8. CASE ReportLost(w) \/ Crash(w)
  <2>1. StoreInv' /\ TokensKept
    BY <1>0, <1>8, StoreStutter DEF ReportLost, Crash
  <2>2. run' \in [Workers -> Run] /\ NoNewRun
    BY <1>0, <1>8, GoIdle DEF ReportLost, Crash
  <2>3. RestTypeOK'
    BY <1>0, <1>1, <1>8, <2>2 DEF RestTypeOK, ReportLost, Crash, RollBackReports
  <2>4. QED
    BY <1>0, <2>1, <2>2, <2>3, NoNewRunPreserves, OwnershipInvPartsPrime
<1>9. QED
  BY <1>2, <1>3, <1>4, <1>5, <1>6, <1>7, <1>8 DEF ExecutorStep, RuntimeStep, HandlerStep

\* The heartbeats.
LEMMA GoroutineStepPreserves ==
  ASSUME OwnershipInv, NEW g \in beating, GoroutineStep(g), UNCHANGED <<pass, serverVars>>
  PROVE  OwnershipInv'
<1>0. StoreInv /\ RestTypeOK /\ RunTokens /\ OneOwner
  BY OwnershipInvParts
<1>1. pass' = pass /\ calls' = calls /\ answered' = answered /\ allowTestEnds' = allowTestEnds
  BY DEF serverVars
<1>2. g.worker \in Workers /\ g.key \in Keys /\ g.token \in Int
  BY <1>0 DEF RestTypeOK, Goroutine
<1>3. ASSUME NEW age \in 0..MaxTxDelay, BeatAccepted(g, age)
      PROVE  OwnershipInv'
  <2>1. StoreInv' /\ TokensKept
    BY <1>0, <1>2, <1>3, AgeIsInt, HeartbeatAcceptedPreserves DEF BeatAccepted
  <2>2. RestTypeOK' /\ NoNewRun
    BY <1>0, <1>1, <1>3 DEF RestTypeOK, BeatAccepted, executorVars, NoNewRun
  <2>3. QED
    BY <1>0, <2>1, <2>2, NoNewRunPreserves, OwnershipInvPartsPrime
<1>4. ASSUME NEW age \in 0..MaxTxDelay, BeatRejected(g, age)
      PROVE  OwnershipInv'
  <2>1. StoreInv' /\ TokensKept
    BY <1>0, <1>4, StoreStutter DEF BeatRejected, HeartbeatRejected
  <2>2. run' = run \/ run' = [run EXCEPT ![g.worker].lost = TRUE]
    BY <1>4 DEF BeatRejected
  <2>3. run' \in [Workers -> Run] /\ NoNewRun
    <3>1. CASE run' = run
      BY <1>0, <3>1 DEF RestTypeOK, NoNewRun
    <3>2. CASE run' = [run EXCEPT ![g.worker].lost = TRUE]
      BY <1>0, <1>2, <3>2, SameRun
    <3>3. QED
      BY <2>2, <3>1, <3>2
  <2>4. RestTypeOK'
    BY <1>0, <1>1, <1>4, <2>3 DEF RestTypeOK, BeatRejected
  <2>5. QED
    BY <1>0, <2>1, <2>3, <2>4, NoNewRunPreserves, OwnershipInvPartsPrime
<1>5. CASE BeatStops(g)
  <2>1. StoreInv' /\ TokensKept
    BY <1>0, <1>5, StoreStutter DEF BeatStops
  <2>2. RestTypeOK' /\ NoNewRun
    BY <1>0, <1>1, <1>5 DEF RestTypeOK, BeatStops, NoNewRun
  <2>3. QED
    BY <1>0, <2>1, <2>2, NoNewRunPreserves, OwnershipInvPartsPrime
<1>6. QED
  BY <1>3, <1>4, <1>5 DEF GoroutineStep

-----------------------------------------------------------------------------
(* The scheduler.                                                          *)

\* The schedulers: passes, overlapping or given up.
LEMMA SchedulerStepPreserves ==
  ASSUME OwnershipInv, NEW s \in Schedulers, SchedulerStep(s), UNCHANGED <<open, executorVars, serverVars>>
  PROVE  OwnershipInv'
<1>0. StoreInv /\ RestTypeOK /\ RunTokens /\ OneOwner
  BY OwnershipInvParts
<1>1. /\ run' = run /\ beating' = beating /\ calls' = calls /\ answered' = answered
      /\ allowTestEnds' = allowTestEnds /\ open' = open
      /\ NoNewRun
  BY DEF executorVars, serverVars, NoNewRun
<1>2. pass[s] \in Pass /\ pass[s].stale \subseteq [key : Keys, attempts : Nat] /\ pass[s].due \subseteq Keys
  BY <1>0 DEF RestTypeOK, Pass
<1>3. SUFFICES StoreInv' /\ TokensKept /\ pass' \in [Schedulers -> Pass]
  <2>1. (pass' \in [Schedulers -> Pass]) => RestTypeOK'
    BY <1>0, <1>1 DEF RestTypeOK
  <2>2. QED
    BY <1>0, <1>1, <1>3, <2>1, NoNewRunPreserves, OwnershipInvPartsPrime
<1>4. ASSUME NEW rows \in SUBSET StaleRows, SelectStale(s, rows)
      PROVE  StoreInv' /\ TokensKept /\ pass' \in [Schedulers -> Pass]
  <2>1. StoreInv' /\ TokensKept
    BY <1>0, <1>4, StoreStutter DEF SelectStale
  <2>2. rows \subseteq [key : Keys, attempts : Nat]
    BY <1>0 DEF StoreInv, StoreTypeOK, StaleRows
  <2>3. pass' \in [Schedulers -> Pass]
    BY <1>0, <1>2, <1>4, <2>2 DEF RestTypeOK, SelectStale, Pass
  <2>4. QED
    BY <2>1, <2>3
<1>5. ASSUME NEW x \in pass[s].stale, ExpireOne(s, x)
      PROVE  StoreInv' /\ TokensKept /\ pass' \in [Schedulers -> Pass]
  <2>1. x.key \in Keys /\ x.attempts \in Nat
    BY <1>2
  <2>2. StoreInv' /\ TokensKept
    BY <1>0, <1>5, <2>1, ExpireToReadyPreserves, ExpireToFailedPreserves DEF ExpireOne, expireLease
  <2>3. pass' \in [Schedulers -> Pass]
    BY <1>0, <1>2, <1>5 DEF RestTypeOK, ExpireOne, Pass
  <2>4. QED
    BY <2>2, <2>3
<1>6. ASSUME NEW rows \in SUBSET DueRows, SelectDue(s, rows)
      PROVE  StoreInv' /\ TokensKept /\ pass' \in [Schedulers -> Pass]
  <2>1. StoreInv' /\ TokensKept
    BY <1>0, <1>6, StoreStutter DEF SelectDue
  <2>2. pass' \in [Schedulers -> Pass]
    BY <1>0, <1>2, <1>6 DEF RestTypeOK, SelectDue, DueRows, Pass
  <2>3. QED
    BY <2>1, <2>2
<1>7. ASSUME NEW k \in pass[s].due, PromoteOne(s, k)
      PROVE  StoreInv' /\ TokensKept /\ pass' \in [Schedulers -> Pass]
  <2>1. StoreInv' /\ TokensKept
    BY <1>0, <1>2, <1>7, promoteRetryPreserves DEF PromoteOne
  <2>2. pass' \in [Schedulers -> Pass]
    BY <1>0, <1>2, <1>7 DEF RestTypeOK, PromoteOne, Pass
  <2>3. QED
    BY <2>1, <2>2
<1>8. CASE EndPass(s) \/ AbandonPass(s)
  <2>1. StoreInv' /\ TokensKept
    BY <1>0, <1>8, StoreStutter DEF EndPass, AbandonPass
  <2>2. NoPass \in Pass
    BY DEF NoPass, Pass
  <2>3. pass' \in [Schedulers -> Pass]
    BY <1>0, <1>8, <2>2 DEF RestTypeOK, EndPass, AbandonPass
  <2>4. QED
    BY <2>1, <2>3
<1>9. QED
  BY <1>4, <1>5, <1>6, <1>7, <1>8 DEF SchedulerStep

-----------------------------------------------------------------------------
(* The theorems.                                                           *)

\* The clock, for the open reports too.
LEMMA TimePassesPreserves ==
  ASSUME OwnershipInv, TimePasses, UNCHANGED <<executorVars, pass, serverVars>>
  PROVE  OwnershipInv'
<1>0. StoreInv /\ RestTypeOK /\ RunTokens /\ OneOwner
  BY OwnershipInvParts
<1>1. StoreInv' /\ TokensKept
  BY <1>0, TickPreserves DEF TimePasses
<1>2. open' \subseteq Report
  <2>1. ASSUME NEW r \in open
        PROVE  [r EXCEPT !.age = @ + 1] \in Report
    <3>1. r \in Report /\ r.age < MaxTxDelay
      BY <1>0 DEF RestTypeOK, TimePasses
    <3>2. r.age + 1 \in 0..MaxTxDelay
      BY <3>1, StoreAssumption DEF Report
    <3> QED
      BY <3>1, <3>2 DEF Report
  <2> QED
    BY <2>1 DEF TimePasses
<1>3. RestTypeOK' /\ NoNewRun
  BY <1>0, <1>2 DEF RestTypeOK, NoNewRun, executorVars, serverVars
<1>4. QED
  BY <1>0, <1>1, <1>3, NoNewRunPreserves, OwnershipInvPartsPrime

\* Every step of the system, and every stutter, keeps the invariant.
LEMMA OwnershipNext == OwnershipInv /\ [Next]_vars => OwnershipInv'
<1> SUFFICES ASSUME OwnershipInv, [Next]_vars PROVE OwnershipInv'
  OBVIOUS
<1>0. StoreInv /\ RestTypeOK /\ RunTokens /\ OneOwner
  BY OwnershipInvParts
<1>1. ASSUME NEW k \in Keys, ServerStep(k), UNCHANGED <<executorVars, pass>>
      PROVE  OwnershipInv'
  BY <1>1, ServerStepPreserves
<1>2. ASSUME NEW w \in Workers, ExecutorStep(w), UNCHANGED <<pass, serverVars>>
      PROVE  OwnershipInv'
  BY <1>2, ExecutorStepPreserves
<1>3. ASSUME NEW g \in beating, GoroutineStep(g), UNCHANGED <<pass, serverVars>>
      PROVE  OwnershipInv'
  BY <1>3, GoroutineStepPreserves
<1>4. ASSUME NEW s \in Schedulers, SchedulerStep(s), UNCHANGED <<open, executorVars, serverVars>>
      PROVE  OwnershipInv'
  BY <1>4, SchedulerStepPreserves
<1>5. CASE TimePasses /\ UNCHANGED <<executorVars, pass, serverVars>>
  BY <1>5, TimePassesPreserves
<1>6. CASE UNCHANGED vars
  <2>1. StoreInv' /\ TokensKept
    BY <1>0, <1>6, StoreStutter DEF vars
  <2>2. RestTypeOK' /\ NoNewRun
    BY <1>0, <1>6 DEF RestTypeOK, NoNewRun, vars, executorVars, serverVars
  <2>3. QED
    BY <1>0, <2>1, <2>2, NoNewRunPreserves, OwnershipInvPartsPrime
<1>7. QED
  BY <1>1, <1>2, <1>3, <1>4, <1>5, <1>6 DEF Next

\* The inductive invariant holds in every reachable state: what the transactions
\* of ops.go keep for one execution, they keep together.
THEOREM OwnershipInvariant == Spec => []OwnershipInv
BY OwnershipInit, OwnershipNext, PTL DEF Spec

\* No statement of ops.go or engine.go leaves a value outside its type.
THEOREM TypeCorrect == Spec => []TypeOK
<1>1. OwnershipInv => TypeOK
  BY DEF OwnershipInv
<1>2. QED
  BY <1>1, OwnershipInvariant, PTL

\* The lease row is the newest claim's, whatever was late.
THEOREM LeaseHolds == Spec => []LeaseOfNewestClaim
<1>1. OwnershipInv => LeaseOfNewestClaim
  BY DEF OwnershipInv, KeyInv, LeaseOfNewestClaim
<1>2. QED
  BY <1>1, OwnershipInvariant, PTL

\* Two workers on one call never share a token.
THEOREM OwnersDiffer == Spec => []OneOwner
<1>1. OwnershipInv => OneOwner
  BY DEF OwnershipInv
<1>2. QED
  BY <1>1, OwnershipInvariant, PTL

\* The reaper and the promoter find every execution that is waiting for them.
THEOREM NothingStranded == Spec => []NeverStranded
<1>1. OwnershipInv => NeverStranded
  BY DEF OwnershipInv, KeyInv, NeverStranded
<1>2. QED
  BY <1>1, OwnershipInvariant, PTL

-----------------------------------------------------------------------------
(* Reports and the workers that wait for them.                             *)

\* A worker's report is of the claim the worker is reporting, and its only one;
\* the others are posts, which only the test endpoint takes.
ReportsFit ==
  /\ \A r \in open : r.worker_id \in Workers =>
       /\ run[r.worker_id].pc = "reporting"
       /\ run[r.worker_id].key = r.key /\ run[r.worker_id].token = r.token
  /\ \A r, q \in open : r.worker_id \in Workers /\ r.worker_id = q.worker_id => r = q
  /\ ~allowTestEnds => \A r \in open : r.worker_id # NoWorker

\* No report begins, and who waits for one goes on waiting.
LEMMA FitKept ==
  ASSUME ReportsFit, open' \subseteq open, allowTestEnds' = allowTestEnds,
         \A w \in Workers : (\E r \in open' : r.worker_id = w) =>
           run'[w].pc = run[w].pc /\ run'[w].key = run[w].key /\ run'[w].token = run[w].token
  PROVE  ReportsFit'
BY DEF ReportsFit

\* One report begins.
LEMMA FitBegun ==
  ASSUME ReportsFit, NEW q, open' = open \cup {q}, allowTestEnds' = allowTestEnds,
         \/ q.worker_id = NoWorker /\ allowTestEnds /\ run' = run
         \/ /\ q.worker_id \in Workers /\ run[q.worker_id].pc # "reporting"
            /\ run'[q.worker_id].pc = "reporting"
            /\ run'[q.worker_id].key = q.key /\ run'[q.worker_id].token = q.token
            /\ \A w \in Workers \ {q.worker_id} : run'[w] = run[w]
  PROVE  ReportsFit'
<1>1. NoWorker \notin Workers
  BY StoreAssumption
<1>2. CASE q.worker_id = NoWorker /\ allowTestEnds /\ run' = run
  BY <1>1, <1>2 DEF ReportsFit
<1>3. CASE /\ q.worker_id \in Workers /\ run[q.worker_id].pc # "reporting"
           /\ run'[q.worker_id].pc = "reporting"
           /\ run'[q.worker_id].key = q.key /\ run'[q.worker_id].token = q.token
           /\ \A w \in Workers \ {q.worker_id} : run'[w] = run[w]
  <2>1. \A r \in open : r.worker_id # q.worker_id
    BY <1>3 DEF ReportsFit
  <2>2. \A r \in open' : r.worker_id \in Workers =>
       /\ run'[r.worker_id].pc = "reporting"
       /\ run'[r.worker_id].key = r.key /\ run'[r.worker_id].token = r.token
    BY <1>3, <2>1 DEF ReportsFit
  <2>3. \A r, t \in open' : r.worker_id \in Workers /\ r.worker_id = t.worker_id => r = t
    BY <2>1 DEF ReportsFit
  <2>4. ~allowTestEnds' => \A r \in open' : r.worker_id # NoWorker
    BY <1>1, <1>3 DEF ReportsFit
  <2> QED
    BY <2>2, <2>3, <2>4 DEF ReportsFit
<1> QED
  BY <1>2, <1>3

\* Workers begin, end and lose their reports.
LEMMA ExecutorFits ==
  ASSUME RestTypeOK, ReportsFit, NEW w \in Workers, ExecutorStep(w), UNCHANGED serverVars
  PROVE  ReportsFit'
<1>0. /\ allowTestEnds' = allowTestEnds /\ run \in [Workers -> Run]
      /\ \A r \in open : r.worker_id = w => run[w].pc = "reporting"
  BY DEF serverVars, RestTypeOK, ReportsFit
<1>1. ASSUME open' = open, run[w].pc # "reporting", \A v \in Workers \ {w} : run'[v] = run[v]
      PROVE  ReportsFit'
  BY <1>0, <1>1, FitKept
<1>2. ASSUME NEW k \in Keys, NEW age \in 0..MaxTxDelay, StartHandled(w, k, age) \/ StartUnhandled(w, k, age)
      PROVE  ReportsFit'
  BY <1>0, <1>1, <1>2 DEF StartHandled, StartUnhandled
<1>3. ASSUME NEW k \in Keys, NEW age \in 0..MaxTxDelay, ClaimReplyLost(w, k, age)
      PROVE  ReportsFit'
  BY <1>0, <1>3, FitKept DEF ClaimReplyLost, executorVars
<1>4. CASE HandlerStep(w)
  BY <1>0, <1>1, <1>4 DEF HandlerStep, HandlerSucceeds, HandlerFails, HandlerAborts
<1>5. ASSUME NEW age \in 0..MaxTxDelay, StartReport(w, age)
      PROVE  ReportsFit'
  <2> DEFINE q == [kind |-> run[w].pc, key |-> run[w].key, token |-> run[w].token, worker_id |-> w,
                   owns |-> LeaseLive(run[w].key, run[w].token, age), age |-> age]
  <2>1. open' = open \cup {q} /\ q.worker_id = w /\ q.key = run[w].key /\ q.token = run[w].token
    BY <1>5 DEF StartReport, BeginReport
  <2>2. run[w].pc # "reporting" /\ run' = [run EXCEPT ![w].pc = "reporting"]
    BY <1>5 DEF StartReport
  <2>3. /\ run'[w].pc = "reporting" /\ run'[w].key = run[w].key /\ run'[w].token = run[w].token
        /\ \A v \in Workers \ {w} : run'[v] = run[v]
    BY <1>0, <2>2 DEF Run
  <2> HIDE DEF q
  <2> QED
    BY <1>0, <2>1, <2>2, <2>3, FitBegun
<1>6. CASE EndReport(w)
  <2>1. PICK r \in open : r.worker_id = w /\ open' = open \ {r}
    BY <1>6 DEF EndReport, CommitReport
  <2>2. \A q \in open' : q.worker_id # w
    BY <2>1 DEF ReportsFit
  <2>3. \A v \in Workers \ {w} : run'[v] = run[v]
    BY <1>0, <1>6 DEF EndReport
  <2> QED
    BY <1>0, <2>1, <2>2, <2>3, FitKept
<1>7. CASE ReportLost(w) \/ Crash(w)
  <2>1. open' \subseteq open /\ \A q \in open' : q.worker_id # w
    BY <1>7 DEF ReportLost, Crash, RollBackReports
  <2>2. \A v \in Workers \ {w} : run'[v] = run[v]
    BY <1>0, <1>7 DEF ReportLost, Crash
  <2> QED
    BY <1>0, <2>1, <2>2, FitKept
<1> QED
  BY <1>2, <1>3, <1>4, <1>5, <1>6, <1>7 DEF ExecutorStep, RuntimeStep

\* Nobody else does, but for posts.
LEMMA FitStep ==
  ASSUME OwnershipInv, ReportsFit, [Next]_vars
  PROVE  ReportsFit'
<1>0. RestTypeOK
  BY OwnershipInvParts
<1>1. ASSUME NEW k \in Keys, ServerStep(k), UNCHANGED <<executorVars, pass>>
      PROVE  ReportsFit'
  <2>1. run' = run
    BY <1>1 DEF executorVars
  <2>2. CASE CallNew(k) \/ CallDuplicate(k)
    BY <2>1, <2>2, FitKept DEF CallNew, CallDuplicate
  <2>3. ASSUME NEW token \in ForcedTokens, NEW age \in 0..MaxTxDelay, ForceComplete(k, token, age)
        PROVE  ReportsFit'
    <3> DEFINE q == [kind |-> "complete", key |-> k, token |-> token, worker_id |-> NoWorker,
                     owns |-> LeaseLive(k, token, age), age |-> age]
    <3>1. open' = open \cup {q} /\ q.worker_id = NoWorker /\ allowTestEnds /\ allowTestEnds' = allowTestEnds
      BY <2>3 DEF ForceComplete, BeginReport, serverVars
    <3> HIDE DEF q
    <3> QED
      BY <2>1, <3>1, FitBegun
  <2>4. ASSUME NEW r \in Posts, EndForced(r)
        PROVE  ReportsFit'
    BY <2>1, <2>4, FitKept DEF EndForced, CommitReport, serverVars
  <2> QED
    BY <1>1, <2>2, <2>3, <2>4 DEF ServerStep
<1>2. ASSUME NEW w \in Workers, ExecutorStep(w), UNCHANGED <<pass, serverVars>>
      PROVE  ReportsFit'
  BY <1>0, <1>2, ExecutorFits
<1>3. ASSUME NEW g \in beating, GoroutineStep(g), UNCHANGED <<pass, serverVars>>
      PROVE  ReportsFit'
  <2>1. open' = open /\ allowTestEnds' = allowTestEnds
    BY <1>3 DEF GoroutineStep, BeatAccepted, BeatRejected, BeatStops, serverVars
  <2>2. run' = run \/ run' = [run EXCEPT ![g.worker].lost = TRUE]
    BY <1>3 DEF GoroutineStep, BeatAccepted, BeatRejected, BeatStops, executorVars
  <2>3. \A w \in Workers : run'[w].pc = run[w].pc /\ run'[w].key = run[w].key /\ run'[w].token = run[w].token
    <3>1. \A w \in Workers : run[w] \in Run
      BY <1>0 DEF RestTypeOK
    <3> QED
      BY <1>0, <2>2, <3>1 DEF Run, RestTypeOK
  <2> QED
    BY <2>1, <2>3, FitKept
<1>4. CASE TimePasses /\ UNCHANGED <<executorVars, pass, serverVars>>
  <2>1. \A r \in open : [r EXCEPT !.age = @ + 1].worker_id = r.worker_id
                        /\ [r EXCEPT !.age = @ + 1].key = r.key /\ [r EXCEPT !.age = @ + 1].token = r.token
    BY <1>0 DEF RestTypeOK, Report
  <2>2. run' = run /\ allowTestEnds' = allowTestEnds /\ open' = {[r EXCEPT !.age = @ + 1] : r \in open}
    BY <1>4 DEF TimePasses, executorVars, serverVars
  <2>3. ASSUME NEW r \in open', r.worker_id \in Workers
        PROVE  run'[r.worker_id].pc = "reporting" /\ run'[r.worker_id].key = r.key /\ run'[r.worker_id].token = r.token
    <3>1. PICK s \in open : r = [s EXCEPT !.age = @ + 1]
      BY <2>2
    <3>2. r.worker_id = s.worker_id /\ r.key = s.key /\ r.token = s.token
      BY <2>1, <3>1
    <3> QED
      BY <2>2, <2>3, <3>2 DEF ReportsFit
  <2>4. ASSUME NEW r \in open', NEW q \in open', r.worker_id \in Workers, r.worker_id = q.worker_id
        PROVE  r = q
    <3>1. PICK s \in open : r = [s EXCEPT !.age = @ + 1]
      BY <2>2
    <3>2. PICK t \in open : q = [t EXCEPT !.age = @ + 1]
      BY <2>2
    <3>3. s = t
      BY <2>1, <2>4, <3>1, <3>2 DEF ReportsFit
    <3> QED
      BY <3>1, <3>2, <3>3
  <2>5. ASSUME ~allowTestEnds', NEW r \in open'
        PROVE  r.worker_id # NoWorker
    <3>1. PICK s \in open : r = [s EXCEPT !.age = @ + 1]
      BY <2>2
    <3>2. r.worker_id = s.worker_id
      BY <2>1, <3>1
    <3> QED
      BY <2>2, <2>5, <3>2 DEF ReportsFit
  <2> QED
    BY <2>3, <2>4, <2>5 DEF ReportsFit
<1>5. CASE UNCHANGED vars \/ \E s \in Schedulers : SchedulerStep(s) /\ UNCHANGED <<open, executorVars, serverVars>>
  BY <1>5, FitKept DEF vars, executorVars, serverVars
<1> QED
  BY <1>1, <1>2, <1>3, <1>4, <1>5 DEF Next

\* Every open report is its worker's, or a post.
LEMMA FitHolds == Spec => []ReportsFit
<1>1. Init => ReportsFit
  BY DEF Init, ReportsInit, ReportsFit
<1>2. OwnershipInv /\ ReportsFit /\ [Next]_vars => ReportsFit'
  BY FitStep
<1> QED
  BY <1>1, <1>2, OwnershipInvariant, PTL DEF Spec

-----------------------------------------------------------------------------
(* Work contexts.                                                          *)

\* The worker's context is cancelled in this step.
Cancelled(w) == run[w].pc = "working" /\ run'[w].pc = "working" /\ ~run[w].lost /\ run'[w].lost

\* Of the workers' own steps none cancels one.
LEMMA NoneCancelled ==
  ASSUME RestTypeOK, NEW w \in Workers, ExecutorStep(w), NEW v \in Workers
  PROVE  ~Cancelled(v)
<1>1. run[v] \in Run /\ run[w] \in Run /\ Idle.pc = "idle" /\ run \in [Workers -> Run]
  BY DEF RestTypeOK, Idle
<1>2. ASSUME NEW k \in Keys, NEW age \in 0..MaxTxDelay,
             StartHandled(w, k, age) \/ StartUnhandled(w, k, age) \/ ClaimReplyLost(w, k, age)
      PROVE  ~Cancelled(v)
  BY <1>1, <1>2 DEF StartHandled, StartUnhandled, ClaimReplyLost, executorVars, Cancelled
<1>3. CASE HandlerStep(w)
  BY <1>1, <1>3 DEF HandlerStep, HandlerSucceeds, HandlerFails, HandlerAborts, Cancelled, Run
<1>4. ASSUME NEW age \in 0..MaxTxDelay, StartReport(w, age)
      PROVE  ~Cancelled(v)
  BY <1>1, <1>4 DEF StartReport, Cancelled, Run
<1>5. CASE EndReport(w) \/ ReportLost(w) \/ Crash(w)
  BY <1>1, <1>5 DEF EndReport, ReportLost, Crash, Cancelled
<1> QED
  BY <1>2, <1>3, <1>4, <1>5 DEF ExecutorStep, RuntimeStep

\* A context is cancelled by the rejected heartbeat of the claim it belongs to.
THEOREM CancelsAreDue == Spec => CancelledOnlyWhenLost
<1>1. OwnershipInv /\ [Next]_vars =>
        [\A w \in Workers :
           (run[w].pc = "working" /\ run'[w].pc = "working" /\ ~run[w].lost /\ run'[w].lost)
             => ~LeaseLive(run[w].key, run[w].token, 0)]_vars
  <2> SUFFICES ASSUME OwnershipInv, [Next]_vars, NEW w \in Workers, Cancelled(w)
               PROVE  ~LeaseLive(run[w].key, run[w].token, 0)
    BY DEF Cancelled
  <2>0. StoreInv /\ RestTypeOK /\ RunTokens
    BY OwnershipInvParts
  <2>1. run' # run
    BY DEF Cancelled
  <2>2. \A v \in Workers : ~ExecutorStep(v)
    BY <2>0, NoneCancelled
  <2>3. PICK g \in beating : GoroutineStep(g)
    BY <2>1, <2>2 DEF Next, vars, executorVars
  <2>4. PICK age \in 0..MaxTxDelay : BeatRejected(g, age)
    BY <2>1, <2>3 DEF GoroutineStep, BeatAccepted, BeatStops, executorVars
  <2>5. Current(g) /\ run' = [run EXCEPT ![g.worker].lost = TRUE] /\ ~LeaseLive(g.key, g.token, age)
    BY <2>1, <2>4 DEF BeatRejected, HeartbeatRejected
  <2>6. w = g.worker
    BY <2>0, <2>5 DEF Cancelled, RestTypeOK
  <2>7. g.key = run[w].key /\ g.token = run[w].token /\ g.key \in Keys
    BY <2>0, <2>5, <2>6 DEF Current, RestTypeOK, Goroutine
  <2>8. lease[g.key].expires_in \in Int /\ age \in Nat
    BY <2>0, <2>7, KeyRows, StoreAssumption DEF Lease
  <2> QED
    BY <2>5, <2>7, <2>8 DEF LeaseLive
<1> QED
  BY <1>1, OwnershipInvariant, PTL DEF Spec, CancelledOnlyWhenLost

-----------------------------------------------------------------------------
(* 3. What a step adds to the histories, in every deployment.              *)

\* The tokens under which an execution was claimed.
ClaimTokens(log) == {log[i].fencing_token : i \in ClaimEvents(log)}

\* The claims of a history can be counted.
LEMMA ClaimsType ==
  ASSUME NEW log \in Seq(Event)
  PROVE  /\ ClaimEvents(log) \subseteq 1..Len(log)
         /\ IsFiniteSet(ClaimEvents(log)) /\ Claims(log) \in Nat
<1>1. DOMAIN log = 1..Len(log) /\ Len(log) \in Nat
  OBVIOUS
<1>2. ClaimEvents(log) \in SUBSET (1..Len(log))
  BY <1>1 DEF ClaimEvents
<1>3. IsFiniteSet(1..Len(log))
  BY <1>1, FS_Interval
<1>4. IsFiniteSet(ClaimEvents(log))
  BY <1>2, <1>3, FS_Subset
<1> QED
  BY <1>2, <1>4, FS_CardinalityType DEF Claims

\* A claim is one claim more and one token; a row of another type is neither.
LEMMA AppendCounts ==
  ASSUME NEW log \in Seq(Event), NEW type \in EventType,
         NEW worker \in Workers \cup {NoWorker}, NEW token \in Int
  PROVE  /\ appendEvent(log, type, worker, token) \in Seq(Event)
         /\ type = "claimed" =>
              /\ Claims(appendEvent(log, type, worker, token)) = Claims(log) + 1
              /\ ClaimTokens(appendEvent(log, type, worker, token)) = ClaimTokens(log) \cup {token}
         /\ type # "claimed" =>
              /\ Claims(appendEvent(log, type, worker, token)) = Claims(log)
              /\ ClaimTokens(appendEvent(log, type, worker, token)) = ClaimTokens(log)
         /\ type = "completed" => CompletedIn(appendEvent(log, type, worker, token))
         /\ type # "completed" => (CompletedIn(appendEvent(log, type, worker, token)) <=> CompletedIn(log))
<1> DEFINE new == appendEvent(log, type, worker, token)
<1>1. /\ new \in Seq(Event)
      /\ DOMAIN new = 1..Len(log) + 1
      /\ DOMAIN log = 1..Len(log)
      /\ Len(log) \in Nat
      /\ \A i \in 1..Len(log) : new[i] = log[i]
      /\ new[Len(log) + 1] = [event_type |-> type, worker_id |-> worker, fencing_token |-> token]
  BY AppendEvent
<1> HIDE DEF new
<1>2. DOMAIN new = DOMAIN log \cup {Len(log) + 1} /\ Len(log) + 1 \notin DOMAIN log
  BY <1>1
<1>3. /\ type = "claimed" => ClaimEvents(new) = ClaimEvents(log) \cup {Len(log) + 1}
      /\ type # "claimed" => ClaimEvents(new) = ClaimEvents(log)
  BY <1>1, <1>2 DEF ClaimEvents
<1>4. type = "claimed" => Claims(new) = Claims(log) + 1
  <2>1. Len(log) + 1 \notin ClaimEvents(log) /\ IsFiniteSet(ClaimEvents(log))
    BY <1>2, ClaimsType DEF ClaimEvents
  <2> QED
    BY <1>3, <2>1, FS_AddElement DEF Claims
<1>5. type # "claimed" => Claims(new) = Claims(log)
  BY <1>3 DEF Claims
<1>6. /\ type = "claimed" => ClaimTokens(new) = ClaimTokens(log) \cup {token}
      /\ type # "claimed" => ClaimTokens(new) = ClaimTokens(log)
  BY <1>1, <1>2, <1>3 DEF ClaimTokens, ClaimEvents
<1>7. /\ type = "completed" => CompletedIn(new)
      /\ type # "completed" => (CompletedIn(new) <=> CompletedIn(log))
  BY <1>1, <1>2 DEF CompletedIn
<1> QED
  BY <1>1, <1>4, <1>5, <1>6, <1>7 DEF new

\* What a bound on the claims says of their tokens.
LEMMA NewestTokens == \A log, bound : Newest(log, bound) <=> \A n \in ClaimTokens(log) : n <= bound
BY DEF Newest, ClaimTokens

-----------------------------------------------------------------------------
(* What a step does to the history of one execution.                       *)

\* The history says the same of claims and completions.
SaysTheSame(k) ==
  /\ Claims(events'[k]) = Claims(events[k]) /\ ClaimTokens(events'[k]) = ClaimTokens(events[k])
  /\ CompletedIn(events'[k]) <=> CompletedIn(events[k])

\* It stays fenced if the open reports that found the lease are the newest claim's.
Fences(k) ==
  (Fenced(events[k]) /\ \A r \in open : r.key = k /\ r.owns => Newest(events[k], r.token))
    => Fenced(events'[k])

\* Its tokens come from a claim, the lease or a report.
Numbers(k) ==
  \A n \in Tokens(events'[k]) :
    \/ n \in Tokens(events[k])
    \/ n = NextToken(k)
    \/ HasLease(k) /\ n = lease[k].fencing_token
    \/ \E r \in open : r.key = k /\ r.token = n

\* Nothing is claimed and nothing completed.
Quiet(k) ==
  /\ attempts'[k] = attempts[k] /\ result'[k] = result[k]
  /\ SaysTheSame(k)
  /\ status'[k] = "completed" => status[k] = "completed"
  /\ \/ lease'[k] = NoLease
     \/ lease'[k].worker_id = lease[k].worker_id /\ lease'[k].fencing_token = lease[k].fencing_token

\* A claim.
Took(k) ==
  /\ attempts'[k] = attempts[k] + 1 /\ result'[k] = result[k]
  /\ Claims(events'[k]) = Claims(events[k]) + 1
  /\ ClaimTokens(events'[k]) = ClaimTokens(events[k]) \cup {lease'[k].fencing_token}
  /\ CompletedIn(events'[k]) <=> CompletedIn(events[k])
  /\ status[k] = "ready" /\ status'[k] = "running"
  /\ lease'[k].fencing_token = NextToken(k)

\* An accepted completion.
Ended(k) ==
  /\ attempts'[k] = attempts[k]
  /\ \E r \in open : r.key = k /\ r.owns /\ result'[k] = r.token
  /\ Claims(events'[k]) = Claims(events[k]) /\ ClaimTokens(events'[k]) = ClaimTokens(events[k])
  /\ CompletedIn(events'[k])
  /\ status'[k] = "completed"
  /\ lease'[k] = NoLease

Logs(k) == Fences(k) /\ Numbers(k) /\ (Quiet(k) \/ Took(k) \/ Ended(k))

\* The rows of k are as they were.
Untouched(k) ==
  /\ status'[k] = status[k] /\ attempts'[k] = attempts[k] /\ result'[k] = result[k]
  /\ lease'[k] = lease[k] /\ events'[k] = events[k]

OnlyLogs(k) == Logs(k) /\ \A j \in Keys \ {k} : Untouched(j)

\* What is untouched logs nothing.
LEMMA OthersLog ==
  ASSUME NEW k \in Keys, OnlyLogs(k)
  PROVE  \A j \in Keys : Logs(j)
<1>1. ASSUME NEW j \in Keys, Untouched(j)
      PROVE  Logs(j)
  BY <1>1 DEF Untouched, Logs, Quiet, SaysTheSame, Fences, Numbers
<1> QED
  BY <1>1 DEF OnlyLogs

\* A row without a number leaves the tokens and the fencing as they are.
LEMMA SilentRow ==
  ASSUME NEW log \in Seq(Event), NEW type \in {"submitted", "ready", "duplicate_detected", "lease_expired", "failed"}
  PROVE  /\ appendEvent(log, type, NoWorker, 0) \in Seq(Event)
         /\ Tokens(appendEvent(log, type, NoWorker, 0)) = Tokens(log)
         /\ Fenced(log) => Fenced(appendEvent(log, type, NoWorker, 0))
         /\ Claims(appendEvent(log, type, NoWorker, 0)) = Claims(log)
         /\ ClaimTokens(appendEvent(log, type, NoWorker, 0)) = ClaimTokens(log)
         /\ CompletedIn(appendEvent(log, type, NoWorker, 0)) <=> CompletedIn(log)
<1> DEFINE new == appendEvent(log, type, NoWorker, 0)
<1>1. type \in EventType /\ type # "claimed" /\ type # "completed" /\ ~HasNumber(type, NoWorker)
      /\ NoWorker \in Workers \cup {NoWorker} /\ 0 \in Int
  BY DEF EventType, HasNumber
<1>2. Tokens(new) = Tokens(log)
  <2>1. Tokens(new) = Tokens(log) \cup (IF HasNumber(type, NoWorker) THEN {0} ELSE {})
    BY <1>1, AppendTokens, Zenon
  <2> HIDE DEF new
  <2> QED
    BY <1>1, <2>1
<1>3. Fenced(log) => Fenced(new)
  BY <1>1, AppendFenced
<1>4. new \in Seq(Event) /\ Claims(new) = Claims(log) /\ ClaimTokens(new) = ClaimTokens(log)
  BY <1>1, AppendCounts
<1>5. CompletedIn(new) <=> CompletedIn(log)
  BY <1>1, AppendCounts
<1> QED
  BY <1>2, <1>3, <1>4, <1>5

\* One such row is written, or two.
LEMMA SilentLogs ==
  ASSUME StoreInv, NEW k \in Keys,
         NEW type \in {"submitted", "ready", "duplicate_detected", "lease_expired", "failed"},
         NEW next \in {"submitted", "ready", "duplicate_detected", "lease_expired", "failed"},
         \/ events' = [events EXCEPT ![k] = appendEvent(@, type, NoWorker, 0)]
         \/ events' = [events EXCEPT ![k] = appendEvent(appendEvent(@, type, NoWorker, 0), next, NoWorker, 0)]
  PROVE  /\ SaysTheSame(k) /\ Fences(k) /\ Numbers(k)
         /\ \A j \in Keys \ {k} : events'[j] = events[j]
<1> DEFINE one == appendEvent(events[k], type, NoWorker, 0)
           two == appendEvent(one, next, NoWorker, 0)
<1>1. events \in [Keys -> Seq(Event)] /\ events[k] \in Seq(Event)
  BY DEF StoreInv, StoreTypeOK
<1>2. events'[k] \in {one, two} /\ \A j \in Keys \ {k} : events'[j] = events[j]
  BY <1>1
<1>3. /\ one \in Seq(Event) /\ Tokens(one) = Tokens(events[k]) /\ (Fenced(events[k]) => Fenced(one))
      /\ Claims(one) = Claims(events[k]) /\ ClaimTokens(one) = ClaimTokens(events[k])
      /\ CompletedIn(one) <=> CompletedIn(events[k])
  BY <1>1, SilentRow, Zenon
<1> HIDE DEF one
<1>4. /\ Tokens(two) = Tokens(one) /\ (Fenced(one) => Fenced(two))
      /\ Claims(two) = Claims(one) /\ ClaimTokens(two) = ClaimTokens(one)
      /\ CompletedIn(two) <=> CompletedIn(one)
  BY <1>3, SilentRow, Zenon
<1> HIDE DEF two
<1>5. CASE events'[k] = one
  <2>1. CompletedIn(events'[k]) <=> CompletedIn(events[k])
    BY <1>3, <1>5, Zenon
  <2> QED
    BY <1>2, <1>3, <1>5, <2>1 DEF SaysTheSame, Fences, Numbers
<1>6. CASE events'[k] = two
  <2>1. CompletedIn(events'[k]) <=> CompletedIn(events[k])
    BY <1>3, <1>4, <1>6, Zenon
  <2> QED
    BY <1>2, <1>3, <1>4, <1>6, <2>1 DEF SaysTheSame, Fences, Numbers
<1> QED
  BY <1>2, <1>5, <1>6

\* A row that a holder or a reporter writes, under the lease's token or its own.
LEMMA NumberedLogs ==
  ASSUME StoreInv, NEW k \in Keys, NEW token \in Int, NEW worker \in Workers \cup {NoWorker},
         NEW type \in {"heartbeat", "retry_scheduled", "failed", "completed", "stale_rejected"},
         events' = [events EXCEPT ![k] = appendEvent(@, type, worker, token)],
         \/ HasLease(k) /\ token = lease[k].fencing_token
         \/ \E r \in open : r.key = k /\ r.token = token /\ (r.owns \/ type = "stale_rejected")
  PROVE  /\ Fences(k) /\ Numbers(k)
         /\ Claims(events'[k]) = Claims(events[k]) /\ ClaimTokens(events'[k]) = ClaimTokens(events[k])
         /\ IF type = "completed" THEN CompletedIn(events'[k])
                                  ELSE CompletedIn(events'[k]) <=> CompletedIn(events[k])
         /\ \A j \in Keys \ {k} : events'[j] = events[j]
<1> DEFINE new == appendEvent(events[k], type, worker, token)
<1>1. /\ events \in [Keys -> Seq(Event)] /\ events[k] \in Seq(Event) /\ type \in EventType /\ type # "claimed"
      /\ HasLease(k) => Newest(events[k], lease[k].fencing_token)
  BY KeyRows DEF StoreInv, StoreTypeOK, EventType
<1>2. events'[k] = new /\ \A j \in Keys \ {k} : events'[j] = events[j]
  BY <1>1
<1>3. Tokens(new) \subseteq Tokens(events[k]) \cup {token}
  BY <1>1, AppendTokens
<1>4. (Fenced(events[k]) /\ (type # "stale_rejected" => Newest(events[k], token))) => Fenced(new)
  BY <1>1, AppendFenced
<1>5. Claims(new) = Claims(events[k]) /\ ClaimTokens(new) = ClaimTokens(events[k])
  <2>1. Claims(new) = Claims(events[k])
    BY <1>1, AppendCounts
  <2>2. ClaimTokens(new) = ClaimTokens(events[k])
    BY <1>1, AppendCounts
  <2> QED
    BY <2>1, <2>2
<1>6. /\ type = "completed" => CompletedIn(new)
      /\ type # "completed" => (CompletedIn(new) <=> CompletedIn(events[k]))
  BY <1>1, AppendCounts
<1> HIDE DEF new
<1>7. Fences(k)
  BY <1>1, <1>2, <1>4 DEF Fences
<1>8. Numbers(k)
  BY <1>2, <1>3 DEF Numbers
<1>9. /\ type = "completed" => CompletedIn(events'[k])
      /\ type # "completed" => (CompletedIn(events'[k]) <=> CompletedIn(events[k]))
  BY <1>2, <1>6, Zenon
<1> QED
  BY <1>2, <1>5, <1>7, <1>8, <1>9

\* Submissions.
LEMMA SubmitLogs ==
  ASSUME StoreInv, NEW k \in Keys, SubmitNew(k) \/ SubmitDuplicate(k)
  PROVE  OnlyLogs(k)
<1>1. SaysTheSame(k) /\ Fences(k) /\ Numbers(k) /\ \A j \in Keys \ {k} : events'[j] = events[j]
  <2>1. CASE SubmitNew(k)
    BY <2>1, SilentLogs DEF SubmitNew
  <2>2. CASE SubmitDuplicate(k)
    BY <2>2, SilentLogs DEF SubmitDuplicate
  <2> QED
    BY <2>1, <2>2
<1> QED
  BY <1>1 DEF StoreInv, StoreTypeOK, SubmitNew, SubmitDuplicate, OnlyLogs, Untouched, Logs, Quiet

\* Claim.
LEMMA ClaimLogs ==
  ASSUME StoreInv, NEW k \in Keys, NEW w \in Workers, NEW age \in Int, Claim(k, w, age)
  PROVE  OnlyLogs(k)
<1> DEFINE token == NextToken(k)
           new == appendEvent(events[k], "claimed", w, token)
<1>1. /\ events \in [Keys -> Seq(Event)] /\ events[k] \in Seq(Event)
      /\ "claimed" \in EventType /\ "claimed" # "completed" /\ w \in Workers \cup {NoWorker}
  BY DEF StoreInv, StoreTypeOK, EventType
<1>2. token \in Int /\ \A n \in Tokens(events[k]) : n < token
  BY NextTokenFresh, KeyRows
<1>3. events'[k] = new /\ lease'[k].fencing_token = token
  BY <1>1 DEF Claim, StoreInv, StoreTypeOK
<1>4. \A i \in ClaimEvents(events[k]) : events[k][i].fencing_token < token
  BY <1>2 DEF Tokens, Numbered, ClaimEvents
<1>5. Newest(events[k], token)
  <2>1. \A i \in DOMAIN events[k] : events[k][i].fencing_token \in Int
    BY <1>1, TokensType
  <2> QED
    BY <1>2, <1>4, <2>1 DEF Newest, ClaimEvents
<1> HIDE DEF token
<1>6. Fenced(events[k]) => Fenced(new)
  BY <1>1, <1>2, <1>4, <1>5, AppendFenced
<1>7. Tokens(new) \subseteq Tokens(events[k]) \cup {token}
  BY <1>1, <1>2, AppendTokens
<1>8. /\ Claims(new) = Claims(events[k]) + 1
      /\ ClaimTokens(new) = ClaimTokens(events[k]) \cup {token}
  BY <1>1, <1>2, AppendCounts
<1>9. CompletedIn(new) <=> CompletedIn(events[k])
  BY <1>1, <1>2, AppendCounts
<1> HIDE DEF new
<1>10. CompletedIn(events'[k]) <=> CompletedIn(events[k])
  BY <1>3, <1>9, Zenon
<1>11. Fences(k) /\ Numbers(k)
  BY <1>3, <1>6, <1>7 DEF Fences, Numbers, token
<1>12. Took(k)
  BY <1>3, <1>8, <1>10 DEF StoreInv, StoreTypeOK, Claim, Took, token
<1> QED
  BY <1>11, <1>12 DEF StoreInv, StoreTypeOK, Claim, OnlyLogs, Untouched, Logs

\* Heartbeat.
LEMMA HeartbeatLogs ==
  ASSUME StoreInv, NEW k \in Keys, NEW token \in Int, NEW w \in Workers, NEW age \in Int,
         HeartbeatAccepted(k, token, w, age)
  PROVE  OnlyLogs(k)
<1>1. HasLease(k) /\ token = lease[k].fencing_token /\ NoWorker \in Workers \cup {NoWorker}
  BY DEF HeartbeatAccepted, LeaseLive
<1>2. SaysTheSame(k) /\ Fences(k) /\ Numbers(k) /\ \A j \in Keys \ {k} : events'[j] = events[j]
  BY <1>1, NumberedLogs DEF HeartbeatAccepted, SaysTheSame
<1>3. lease[k] \in Lease
  BY DEF StoreInv, StoreTypeOK
<1>4. /\ lease'[k].worker_id = lease[k].worker_id /\ lease'[k].fencing_token = lease[k].fencing_token
      /\ \A j \in Keys \ {k} : lease'[j] = lease[j]
  BY <1>3 DEF StoreInv, StoreTypeOK, Lease, HeartbeatAccepted
<1> QED
  BY <1>2, <1>4 DEF HeartbeatAccepted, OnlyLogs, Untouched, Logs, Quiet

\* Complete and Fail.
LEMMA ReportLogs ==
  ASSUME StoreInv, open \subseteq Report, NEW r \in open, CommitReport(r)
  PROVE  r.key \in Keys /\ OnlyLogs(r.key)
<1> DEFINE k == r.key
<1>1. k \in Keys /\ r.token \in Int /\ r.worker_id \in Workers \cup {NoWorker} /\ r.owns \in BOOLEAN
  BY DEF Report
<1> DEFINE Kept == Claims(events'[k]) = Claims(events[k]) /\ ClaimTokens(events'[k]) = ClaimTokens(events[k])
           Others == \A j \in Keys \ {k} : events'[j] = events[j]
<1>2. CASE r.owns /\ CompleteAccepted(k, r.token, r.worker_id)
  <2>1. Kept /\ Fences(k) /\ Numbers(k) /\ CompletedIn(events'[k]) /\ Others
    BY <1>1, <1>2, NumberedLogs DEF CompleteAccepted
  <2>2. result'[k] = r.token
    BY <1>1, <1>2 DEF CompleteAccepted, StoreInv, StoreTypeOK
  <2> QED
    BY <1>1, <1>2, <2>1, <2>2 DEF StoreInv, StoreTypeOK, CompleteAccepted, OnlyLogs, Untouched, Logs, Ended
<1>3. CASE ReportRejected(k, r.token, r.worker_id)
  <2>1. SaysTheSame(k) /\ Fences(k) /\ Numbers(k) /\ Others
    BY <1>1, <1>3, NumberedLogs DEF ReportRejected, SaysTheSame
  <2> QED
    BY <1>1, <1>3, <2>1 DEF ReportRejected, OnlyLogs, Untouched, Logs, Quiet
<1>4. CASE r.owns /\ FailRetries(k, r.token, r.worker_id, r.age)
  <2>1. SaysTheSame(k) /\ Fences(k) /\ Numbers(k) /\ Others
    BY <1>1, <1>4, NumberedLogs DEF FailRetries, SaysTheSame
  <2> QED
    BY <1>1, <1>4, <2>1 DEF StoreInv, StoreTypeOK, FailRetries, OnlyLogs, Untouched, Logs, Quiet
<1>5. CASE r.owns /\ FailTerminal(k, r.token, r.worker_id)
  <2>1. SaysTheSame(k) /\ Fences(k) /\ Numbers(k) /\ Others
    BY <1>1, <1>5, NumberedLogs DEF FailTerminal, SaysTheSame
  <2> QED
    BY <1>1, <1>5, <2>1 DEF StoreInv, StoreTypeOK, FailTerminal, OnlyLogs, Untouched, Logs, Quiet
<1> QED
  BY <1>1, <1>2, <1>3, <1>4, <1>5 DEF CommitReport, Complete, Fail

\* expireLease and promoteRetry, on whatever the pass has read.
LEMMA PassLogs ==
  ASSUME StoreInv, NEW k \in Keys, NEW seen, expireLease(k, seen) \/ promoteRetry(k)
  PROVE  OnlyLogs(k)
<1>1. SaysTheSame(k) /\ Fences(k) /\ Numbers(k) /\ \A j \in Keys \ {k} : events'[j] = events[j]
  <2>1. CASE ExpireToReady(k, seen)
    BY <2>1, SilentLogs DEF ExpireToReady
  <2>2. CASE ExpireToFailed(k, seen)
    BY <2>2, SilentLogs DEF ExpireToFailed
  <2>3. CASE promoteRetry(k)
    BY <2>3, SilentLogs DEF promoteRetry
  <2> QED
    BY <2>1, <2>2, <2>3 DEF expireLease
<1> QED
  BY <1>1 DEF StoreInv, StoreTypeOK, expireLease, ExpireToReady, ExpireToFailed, promoteRetry,
              OnlyLogs, Untouched, Logs, Quiet

\* A step that writes no row of these tables, or only the clock's.
LEMMA IdleLogs ==
  ASSUME StoreInv, Tick \/ UNCHANGED storeVars
  PROVE  \A k \in Keys : Logs(k)
<1>1. ASSUME NEW k \in Keys PROVE events'[k] = events[k] /\ Quiet(k)
  <2>1. CASE Tick
    <3>1. lease[k] \in Lease /\ (lease'[k] = lease[k] \/ lease'[k] = [lease[k] EXCEPT !.expires_in = @ - 1])
      BY <2>1, KeyRows DEF Tick
    <3>2. lease'[k].worker_id = lease[k].worker_id /\ lease'[k].fencing_token = lease[k].fencing_token
      BY <3>1 DEF Lease
    <3> QED
      BY <2>1, <3>2 DEF Tick, Quiet, SaysTheSame
  <2>2. CASE UNCHANGED storeVars
    BY <2>2 DEF storeVars, Quiet, SaysTheSame
  <2> QED
    BY <2>1, <2>2
<1> QED
  BY <1>1 DEF Logs, Fences, Numbers

-----------------------------------------------------------------------------
(* The processes.                                                          *)

\* The server.
LEMMA ServerLogs ==
  ASSUME OwnershipInv, NEW k \in Keys, ServerStep(k)
  PROVE  \A j \in Keys : Logs(j)
<1>0. StoreInv /\ open \subseteq Report
  BY OwnershipInvParts DEF RestTypeOK
<1>1. CASE CallNew(k) \/ CallDuplicate(k)
  BY <1>0, <1>1, SubmitLogs, OthersLog DEF CallNew, CallDuplicate
<1>2. ASSUME NEW token \in ForcedTokens, NEW age \in 0..MaxTxDelay, ForceComplete(k, token, age)
      PROVE  \A j \in Keys : Logs(j)
  BY <1>0, <1>2, IdleLogs DEF ForceComplete, BeginReport
<1>3. ASSUME NEW r \in Posts, EndForced(r)
      PROVE  \A j \in Keys : Logs(j)
  BY <1>0, <1>3, IdleLogs, ReportLogs, OthersLog DEF EndForced, Posts
<1> QED
  BY <1>1, <1>2, <1>3 DEF ServerStep

\* The workers.
LEMMA ExecutorLogs ==
  ASSUME OwnershipInv, NEW w \in Workers, ExecutorStep(w)
  PROVE  \A j \in Keys : Logs(j)
<1>0. StoreInv /\ open \subseteq Report
  BY OwnershipInvParts DEF RestTypeOK
<1>1. ASSUME NEW k \in Keys, NEW age \in 0..MaxTxDelay, Claim(k, w, age)
      PROVE  \A j \in Keys : Logs(j)
  BY <1>0, <1>1, AgeIsInt, ClaimLogs, OthersLog
<1>2. ASSUME NEW r \in open, CommitReport(r)
      PROVE  \A j \in Keys : Logs(j)
  BY <1>0, <1>2, ReportLogs, OthersLog
<1>3. CASE UNCHANGED storeVars
  BY <1>0, <1>3, IdleLogs
<1> QED
  BY <1>1, <1>2, <1>3 DEF ExecutorStep, RuntimeStep, HandlerStep, StartHandled, StartUnhandled, ClaimReplyLost,
     StartReport, BeginReport, EndReport, ReportLost, Crash, HandlerSucceeds, HandlerFails, HandlerAborts

\* The heartbeats.
LEMMA GoroutineLogs ==
  ASSUME OwnershipInv, NEW g \in beating, GoroutineStep(g)
  PROVE  \A j \in Keys : Logs(j)
<1>0. StoreInv /\ g.worker \in Workers /\ g.key \in Keys /\ g.token \in Int
  BY OwnershipInvParts DEF RestTypeOK, Goroutine
<1>1. ASSUME NEW age \in 0..MaxTxDelay, BeatAccepted(g, age)
      PROVE  \A j \in Keys : Logs(j)
  BY <1>0, <1>1, AgeIsInt, HeartbeatLogs, OthersLog DEF BeatAccepted
<1>2. CASE UNCHANGED storeVars
  BY <1>0, <1>2, IdleLogs
<1> QED
  BY <1>1, <1>2 DEF GoroutineStep, BeatRejected, HeartbeatRejected, BeatStops

\* The schedulers, however their passes overlap.
LEMMA SchedulerLogs ==
  ASSUME OwnershipInv, NEW s \in Schedulers, SchedulerStep(s)
  PROVE  \A j \in Keys : Logs(j)
<1>0. StoreInv /\ pass[s].stale \subseteq [key : Keys, attempts : Nat] /\ pass[s].due \subseteq Keys
  BY OwnershipInvParts DEF RestTypeOK, Pass
<1>1. ASSUME NEW x \in pass[s].stale, ExpireOne(s, x)
      PROVE  \A j \in Keys : Logs(j)
  <2>1. x.key \in Keys /\ expireLease(x.key, x.attempts)
    BY <1>0, <1>1 DEF ExpireOne
  <2> QED
    BY <1>0, <2>1, PassLogs, OthersLog
<1>2. ASSUME NEW k \in pass[s].due, PromoteOne(s, k)
      PROVE  \A j \in Keys : Logs(j)
  <2>1. k \in Keys /\ promoteRetry(k)
    BY <1>0, <1>2 DEF PromoteOne
  <2> QED
    BY <1>0, <2>1, PassLogs, OthersLog
<1>3. CASE UNCHANGED storeVars
  BY <1>0, <1>3, IdleLogs
<1> QED
  BY <1>1, <1>2, <1>3 DEF SchedulerStep, SelectStale, SelectDue, EndPass, AbandonPass

\* Every step.
LEMMA StepLogs ==
  ASSUME OwnershipInv, [Next]_vars
  PROVE  \A k \in Keys : Logs(k)
<1>1. CASE Tick \/ UNCHANGED vars
  BY <1>1, IdleLogs, OwnershipInvParts DEF vars
<1> QED
  BY <1>1, ServerLogs, ExecutorLogs, GoroutineLogs, SchedulerLogs DEF Next, TimePasses

-----------------------------------------------------------------------------
(* What the histories tell.                                                *)

\* The history of k tells the attempts, and the claim its lease is from.
HistoryOf(k) ==
  /\ attempts[k] = Claims(events[k])
  /\ HasLease(k) => lease[k].fencing_token \in ClaimTokens(events[k])

HistoryInv == \A k \in Keys : HistoryOf(k)

\* No history has a claim.
LEMMA HistoryInit == Init => HistoryInv
<1> SUFFICES ASSUME Init PROVE HistoryInv
  OBVIOUS
<1>1. ClaimEvents(<<>>) = {}
  BY DEF ClaimEvents
<1>2. Claims(<<>>) = 0
  BY <1>1, FS_EmptySet DEF Claims
<1> QED
  BY <1>2 DEF Init, StoreInit, HistoryInv, HistoryOf, HasLease, NoLease

\* What is logged is what is done.
LEMMA HistoryStep ==
  ASSUME OwnershipInv, HistoryInv, [Next]_vars
  PROVE  HistoryInv'
<1> SUFFICES ASSUME NEW k \in Keys PROVE HistoryOf(k)'
  BY DEF HistoryInv
<1>1. HistoryOf(k)
  BY DEF HistoryInv
<1>2. CASE Quiet(k)
  BY <1>1, <1>2 DEF HistoryOf, Quiet, SaysTheSame, HasLease, NoLease
<1>3. CASE Took(k)
  BY <1>1, <1>3 DEF HistoryOf, Took, HasLease
<1>4. CASE Ended(k)
  BY <1>1, <1>4 DEF HistoryOf, Ended, HasLease, NoLease
<1> QED
  BY <1>2, <1>3, <1>4, StepLogs DEF Logs

\* The histories tell the attempts, whatever is late.
LEMMA HistoryHolds == Spec => []HistoryInv
BY HistoryInit, HistoryStep, OwnershipInvariant, PTL DEF Spec

\* Without the test endpoint every token of a history is a claim's, and positive.
TokensArePositive == ~allowTestEnds => \A k \in Keys : \A n \in Tokens(events[k]) : n > 0

\* The tokens of leases and of open reports are in the histories.
LEMMA TokensLogged ==
  ASSUME OwnershipInv, ReportsFit, HistoryInv, NEW k \in Keys
  PROVE  /\ HasLease(k) => lease[k].fencing_token \in Tokens(events[k])
         /\ \A r \in open : (~allowTestEnds /\ r.key = k) => r.token \in Tokens(events[k])
<1>1. ClaimTokens(events[k]) \subseteq Tokens(events[k])
  BY DEF ClaimTokens, Tokens, Numbered, ClaimEvents
<1>2. ASSUME NEW r \in open, ~allowTestEnds, r.key = k
      PROVE  r.token \in Tokens(events[k])
  <2>1. r.worker_id \in Workers
    BY <1>2, OwnershipInvParts DEF ReportsFit, RestTypeOK, Report
  <2> QED
    BY <1>2, <2>1 DEF ReportsFit, OwnershipInv, RunTokens
<1> QED
  BY <1>1, <1>2 DEF HistoryInv, HistoryOf

\* No step logs a token that is not.
LEMMA PositiveStep ==
  ASSUME OwnershipInv, ReportsFit, HistoryInv, TokensArePositive, [Next]_vars
  PROVE  TokensArePositive'
<1>1. allowTestEnds' = allowTestEnds
  BY DEF Next, vars, serverVars, ServerStep, CallNew, CallDuplicate, ForceComplete, EndForced
<1> SUFFICES ASSUME ~allowTestEnds, NEW k \in Keys, NEW n \in Tokens(events'[k]) PROVE n > 0
  BY <1>1 DEF TokensArePositive
<1>2. \A m \in Tokens(events[k]) : m > 0
  BY DEF TokensArePositive
<1>3. NextToken(k) > 0
  BY <1>2, NextTokenFresh, KeyRows, OwnershipInvParts
<1>4. Numbers(k)
  BY StepLogs DEF Logs
<1> QED
  BY <1>2, <1>3, <1>4, TokensLogged DEF Numbers

\* The tokens of all histories, then.
LEMMA PositiveHolds == Spec => []TokensArePositive
<1>1. Init => TokensArePositive
  <2>1. Tokens(<<>>) = {}
    BY DEF Tokens, Numbered
  <2> QED
    BY <2>1 DEF Init, StoreInit, TokensArePositive
<1>2. OwnershipInv /\ ReportsFit /\ HistoryInv /\ TokensArePositive /\ [Next]_vars => TokensArePositive'
  BY PositiveStep
<1> QED
  BY <1>1, <1>2, OwnershipInvariant, FitHolds, HistoryHolds, PTL DEF Spec

-----------------------------------------------------------------------------
(* 4. One scheduler, no transaction open across a tick, any token posted.  *)

Deployment == MaxTxDelay = 0 /\ \A s, t \in Schedulers : s = t

-----------------------------------------------------------------------------
(* What a step may do to the rows of one execution.                        *)

Same(k) ==
  /\ status'[k] = status[k] /\ attempts'[k] = attempts[k] /\ result'[k] = result[k]
  /\ lease'[k] = lease[k] /\ retry_in'[k] = retry_in[k]

Born(k) ==
  /\ status[k] = "absent" /\ status'[k] = "ready"
  /\ attempts'[k] = attempts[k] /\ result'[k] = result[k]
  /\ lease'[k] = lease[k] /\ retry_in'[k] = retry_in[k]

Claimed(k) ==
  /\ status[k] = "ready" /\ status'[k] = "running"
  /\ attempts'[k] = attempts[k] + 1 /\ result'[k] = result[k]
  /\ lease'[k].worker_id # NoWorker
  /\ retry_in'[k] = retry_in[k]

Extended(k) ==
  /\ HasLease(k) /\ lease[k].expires_in > 0
  /\ status'[k] = status[k] /\ attempts'[k] = attempts[k] /\ result'[k] = result[k]
  /\ lease'[k].worker_id = lease[k].worker_id /\ lease'[k].fencing_token = lease[k].fencing_token
  /\ lease'[k].expires_in > 0
  /\ retry_in'[k] = retry_in[k]

\* Through a report that found the lease, whoever committed another since.
Reported(k) ==
  \E r \in open :
    /\ r.key = k /\ r.owns /\ open' = open \ {r}
    /\ attempts'[k] = attempts[k]
    /\ lease'[k] = NoLease
    /\ \/ status'[k] = "completed" /\ result'[k] = r.token /\ retry_in'[k] = retry_in[k]
       \/ /\ attempts[k] < MaxAttempts[k]
          /\ status'[k] = "pending" /\ result'[k] = result[k] /\ retry_in'[k] \in Nat \ {0}
       \/ status'[k] = "failed" /\ result'[k] = result[k] /\ retry_in'[k] = retry_in[k]

\* By a pass that read the attempts the row still has.
Reaped(k) ==
  /\ Expired(k)
  /\ attempts'[k] = attempts[k] /\ result'[k] = result[k]
  /\ lease'[k] = NoLease /\ retry_in'[k] = retry_in[k]
  /\ \/ attempts[k] < MaxAttempts[k] /\ status'[k] = "ready"
     \/ status'[k] = "failed"

Promoted(k) ==
  /\ Due(k)
  /\ status'[k] = "ready"
  /\ attempts'[k] = attempts[k] /\ result'[k] = result[k]
  /\ lease'[k] = lease[k] /\ retry_in'[k] = NoRetry

Aged(k) ==
  /\ open = {}
  /\ status'[k] = status[k] /\ attempts'[k] = attempts[k] /\ result'[k] = result[k]
  /\ lease'[k].worker_id = lease[k].worker_id /\ lease'[k].fencing_token = lease[k].fencing_token
  /\ lease'[k].expires_in <= lease[k].expires_in
  /\ retry_in'[k] = IF retry_in[k] > 0 THEN retry_in[k] - 1 ELSE retry_in[k]

\* Every move but those of a pass.
Worked(k) == Same(k) \/ Born(k) \/ Claimed(k) \/ Extended(k) \/ Reported(k) \/ Aged(k)

Moved(k) == Worked(k) \/ Reaped(k) \/ Promoted(k)

\* Reports end, or one begins and nothing else happens.
OpenStep ==
  \/ open' \subseteq open
  \/ /\ UNCHANGED storeVars
     /\ \E q \in Report : open' = open \cup {q} /\ (q.owns => LeaseLive(q.key, q.token, 0))

-----------------------------------------------------------------------------
(* The inductive invariant.                                                *)

\* Whoever is running has a lease; whoever is ready, or has a retry to come, has
\* attempts left.
RowsFit(k) ==
  /\ status[k] = "running" <=> HasLease(k)
  /\ retry_in[k] # NoRetry => /\ attempts[k] < MaxAttempts[k]
                              /\ status[k] \in {"pending", "completed", "failed"}
  /\ attempts[k] <= MaxAttempts[k]
  /\ status[k] = "absent" => attempts[k] = 0
  /\ status[k] = "ready" => attempts[k] < MaxAttempts[k]

\* An execution on a list of a pass is as the pass read it.
ListsFit ==
  \A s \in Schedulers :
    /\ \A x \in pass[s].stale : Expired(x.key) /\ attempts[x.key] = x.attempts
    /\ \A k \in pass[s].due : Due(k)

\* A report that found the lease is still the newest claim's: the lease is live,
\* or another report of the same tick has ended it and no pass can make the
\* execution ready.
OwnerFits(r) ==
  /\ Newest(events[r.key], r.token)
  /\ \/ LeaseLive(r.key, r.token, 0)
     \/ /\ ~HasLease(r.key) /\ retry_in[r.key] # 0
        /\ status[r.key] \in {"pending", "completed", "failed"}

DeployInv ==
  /\ \A k \in Keys : RowsFit(k) /\ FencedInv(k)
  /\ ListsFit
  /\ \A r \in open : r.owns => OwnerFits(r)

\* A call is answered with the result of the completed execution, if at all.
Told(k) == answered'[k] = answered[k] \/ (status[k] = "completed" /\ Same(k) /\ answered'[k] = answered[k] \cup {result[k]})

\* The types of the rows, before and after.
LEMMA RowTypes ==
  ASSUME StoreInv, NEW k \in Keys
  PROVE  /\ attempts[k] \in Nat /\ MaxAttempts[k] \in Nat \ {0}
         /\ retry_in[k] \in Nat \cup {NoRetry} /\ NoRetry \notin Nat /\ NoRetry = -1
         /\ lease[k] \in Lease /\ lease[k].expires_in \in Int
         /\ NoLease.worker_id = NoWorker
BY StoreAssumption DEF StoreInv, StoreTypeOK, NoRetry, NoLease, Lease

\* Every move keeps the rows fitting.
LEMMA MovedFits ==
  ASSUME StoreInv, StoreInv', NEW k \in Keys, RowsFit(k), Moved(k)
  PROVE  RowsFit(k)'
<1>1. /\ attempts[k] \in Nat /\ attempts'[k] \in Nat /\ MaxAttempts[k] \in Nat \ {0}
      /\ retry_in[k] \in Nat \cup {NoRetry} /\ retry_in'[k] \in Nat \cup {NoRetry}
      /\ NoRetry \notin Nat /\ NoRetry = -1 /\ NoLease.worker_id = NoWorker
  BY RowTypes DEF StoreInv, StoreTypeOK
<1> USE DEF RowsFit, HasLease
<1>2. CASE Same(k)
  BY <1>1, <1>2 DEF Same
<1>3. CASE Born(k)
  BY <1>1, <1>3 DEF Born
<1>4. CASE Claimed(k)
  BY <1>1, <1>4 DEF Claimed
<1>5. CASE Extended(k)
  BY <1>1, <1>5 DEF Extended
<1>6. CASE Reported(k)
  BY <1>1, <1>6 DEF Reported
<1>7. CASE Reaped(k)
  BY <1>1, <1>7 DEF Reaped, Expired
<1>8. CASE Promoted(k)
  BY <1>1, <1>8 DEF Promoted, Due
<1>9. CASE Aged(k)
  BY <1>1, <1>9 DEF Aged
<1> QED
  BY <1>2, <1>3, <1>4, <1>5, <1>6, <1>7, <1>8, <1>9 DEF Moved, Worked

\* The history stays fenced and the result the newest claim's: whoever completes
\* an execution found its lease.
LEMMA FencedStep ==
  ASSUME NEW k \in Keys, FencedInv(k), Logs(k), \A r \in open : r.owns => OwnerFits(r)
  PROVE  FencedInv(k)'
<1>1. Fenced(events'[k])
  BY DEF FencedInv, Logs, Fences, OwnerFits
<1>2. ASSUME status'[k] = "completed"
      PROVE  Newest(events'[k], result'[k])
  <2>1. CASE Quiet(k)
    BY <1>2, <2>1, NewestTokens DEF Quiet, SaysTheSame, FencedInv
  <2>2. CASE Ended(k)
    <3>1. PICK r \in open : r.key = k /\ r.owns /\ result'[k] = r.token
      BY <2>2 DEF Ended
    <3>2. Newest(events[k], r.token) /\ ClaimTokens(events'[k]) = ClaimTokens(events[k])
      BY <2>2, <3>1 DEF Ended, OwnerFits
    <3> QED
      BY <3>1, <3>2, NewestTokens
  <2> QED
    BY <1>2, <2>1, <2>2 DEF Logs, Took
<1> QED
  BY <1>1, <1>2 DEF FencedInv

\* No move but a pass's own touches an execution that is on its lists.
LEMMA WorkedKeepsLists ==
  ASSUME StoreInv, StoreInv', NEW k \in Keys, RowsFit(k), Worked(k), \A r \in open : r.owns => OwnerFits(r)
  PROVE  /\ Expired(k) => Expired(k)' /\ attempts'[k] = attempts[k]
         /\ Due(k) => Due(k)'
<1>1. /\ retry_in[k] \in Nat \cup {NoRetry} /\ lease[k] \in Lease /\ lease'[k] \in Lease
      /\ lease[k].expires_in \in Int /\ lease'[k].expires_in \in Int /\ NoRetry # 0
  BY DEF StoreInv, StoreTypeOK, Lease, NoRetry
<1> USE DEF RowsFit, HasLease, Expired, Due
<1>2. CASE Same(k)
  BY <1>2 DEF Same
<1>3. CASE Born(k)
  BY <1>3 DEF Born
<1>4. CASE Claimed(k)
  BY <1>4 DEF Claimed
<1>5. CASE Extended(k)
  BY <1>1, <1>5 DEF Extended
<1>6. CASE Reported(k)
  <2>1. PICK r \in open : r.key = k /\ r.owns
    BY <1>6 DEF Reported
  <2>2. \/ HasLease(k) /\ lease[k].expires_in > 0
        \/ ~HasLease(k) /\ retry_in[k] # 0
    BY <1>1, <2>1 DEF OwnerFits, LeaseLive
  <2>3. ~Expired(k) /\ ~Due(k)
    BY <1>1, <2>2
  <2> QED
    BY <2>3
<1>7. CASE Aged(k)
  BY <1>1, <1>7 DEF Aged
<1> QED
  BY <1>2, <1>3, <1>4, <1>5, <1>6, <1>7 DEF Worked

\* Nor is an execution claimed, reaped or promoted while a report that found its
\* lease is open.
LEMMA MovedKeepsOwner ==
  ASSUME StoreInv, StoreInv', NEW r \in open, r.key \in Keys, RowsFit(r.key), Moved(r.key), Logs(r.key),
         OwnerFits(r)
  PROVE  OwnerFits(r)'
<1> DEFINE k == r.key
<1>1. /\ attempts[k] \in Nat /\ retry_in[k] \in Nat \cup {NoRetry} /\ NoRetry # 0
      /\ lease[k].expires_in \in Int /\ lease'[k].expires_in \in Int /\ NoLease.worker_id = NoWorker
  BY RowTypes DEF StoreInv, StoreTypeOK, Lease, NoRetry
<1>2. \/ LeaseLive(k, r.token, 0) /\ status[k] = "running" /\ retry_in[k] = NoRetry
      \/ ~HasLease(k) /\ retry_in[k] # 0 /\ status[k] \in {"pending", "completed", "failed"}
  BY DEF OwnerFits, RowsFit, LeaseLive
<1>3. Newest(events[k], r.token) /\ status[k] # "ready"
  BY <1>2 DEF OwnerFits
<1>4. Newest(events'[k], r.token)
  BY <1>3, NewestTokens DEF Logs, Quiet, Took, Ended, SaysTheSame
<1>5. \/ LeaseLive(k, r.token, 0)'
      \/ ~HasLease(k)' /\ retry_in'[k] # 0 /\ status'[k] \in {"pending", "completed", "failed"}
  <2> USE DEF LeaseLive, HasLease
  <2>1. CASE Same(k)
    BY <1>2, <2>1 DEF Same
  <2>2. CASE Born(k)
    BY <1>2, <2>2 DEF Born
  <2>3. CASE Claimed(k)
    BY <1>2, <2>3 DEF Claimed
  <2>4. CASE Extended(k)
    BY <1>1, <1>2, <2>4 DEF Extended
  <2>5. CASE Reported(k)
    BY <1>1, <1>2, <2>5 DEF Reported
  <2>6. CASE Reaped(k)
    BY <1>1, <1>2, <2>6 DEF Reaped, Expired
  <2>7. CASE Promoted(k)
    BY <1>1, <1>2, <2>7 DEF Promoted, Due
  <2>8. CASE Aged(k)
    BY <2>8 DEF Aged
  <2> QED
    BY <2>1, <2>2, <2>3, <2>4, <2>5, <2>6, <2>7, <2>8 DEF Moved, Worked
<1> QED
  BY <1>4, <1>5 DEF OwnerFits

-----------------------------------------------------------------------------
(* What the transactions of ops.go do to the rows.                         *)

\* A step moves the rows of k, and no other's.
OnlyMoves(k, move) == move /\ \A j \in Keys \ {k} : Same(j)

\* Submit.
LEMMA SubmitMoves ==
  ASSUME StoreInv, NEW k \in Keys
  PROVE  /\ SubmitNew(k) => OnlyMoves(k, Born(k))
         /\ SubmitDuplicate(k) => \A j \in Keys : Same(j)
BY DEF StoreInv, StoreTypeOK, SubmitNew, SubmitDuplicate, OnlyMoves, Born, Same

\* Claim.
LEMMA ClaimMoves ==
  ASSUME StoreInv, NEW k \in Keys, NEW w \in Workers, NEW age \in Int, Claim(k, w, age)
  PROVE  OnlyMoves(k, Claimed(k))
<1>1. w # NoWorker
  BY StoreAssumption
<1> QED
  BY <1>1 DEF StoreInv, StoreTypeOK, Claim, OnlyMoves, Claimed, Same

\* Heartbeat, prompt.
LEMMA HeartbeatMoves ==
  ASSUME StoreInv, NEW k \in Keys, NEW token, NEW w \in Workers, HeartbeatAccepted(k, token, w, 0)
  PROVE  OnlyMoves(k, Extended(k))
<1>1. lease[k] \in Lease /\ lease[k].expires_in \in Int /\ lease[k].expires_in + 0 > 0
  BY DEF StoreInv, StoreTypeOK, Lease, HeartbeatAccepted, LeaseLive
<1>2. /\ lease'[k].worker_id = lease[k].worker_id /\ lease'[k].fencing_token = lease[k].fencing_token
      /\ lease'[k].expires_in = LeaseSeconds[w] - 0
      /\ \A j \in Keys \ {k} : lease'[j] = lease[j]
  BY <1>1 DEF StoreInv, StoreTypeOK, Lease, HeartbeatAccepted
<1>3. LeaseSeconds[w] - 0 > 0
  BY StoreAssumption
<1> QED
  BY <1>1, <1>2, <1>3 DEF HeartbeatAccepted, LeaseLive, OnlyMoves, Extended, Same

\* Complete and Fail, prompt.
LEMMA ReportMoves ==
  ASSUME Deployment, StoreInv, open \subseteq Report, NEW r \in open, CommitReport(r), attempts[r.key] <= MaxAttempts[r.key]
  PROVE  r.key \in Keys /\ OnlyMoves(r.key, Reported(r.key) \/ Same(r.key))
<1> DEFINE k == r.key
<1>1. k \in Keys /\ r.age = 0 /\ open' = open \ {r}
  BY DEF Report, Deployment, CommitReport
<1>2. lease[k] \in Lease /\ lease[k].expires_in \in Int /\ attempts[k] \in Nat
  BY <1>1 DEF StoreInv, StoreTypeOK, Lease
<1>3. CASE ReportRejected(k, r.token, r.worker_id)
  BY <1>1, <1>3 DEF ReportRejected, OnlyMoves, Same
<1>4. CASE r.owns /\ CompleteAccepted(k, r.token, r.worker_id)
  BY <1>1, <1>2, <1>4 DEF StoreInv, StoreTypeOK, CompleteAccepted, OnlyMoves, Reported, Same
<1>5. CASE r.owns /\ FailRetries(k, r.token, r.worker_id, r.age)
  <2>1. DueIn(Backoff(attempts[k]) - r.age) \in Nat \ {0}
    <3>1. attempts[k] \in 0..MaxAttempts[k]
      BY <1>1, <1>2, RowTypes
    <3>2. Backoff(attempts[k]) > 0
      BY <1>1, <3>1, BackoffAssumption
    <3>3. Backoff(attempts[k]) \in Int
      BY <1>2 DEF Backoff
    <3> HIDE DEF k
    <3> QED
      BY <1>1, <3>2, <3>3 DEF DueIn
  <2> QED
    BY <1>1, <1>2, <1>5, <2>1 DEF StoreInv, StoreTypeOK, FailRetries, OnlyMoves, Reported, Same
<1>6. CASE r.owns /\ FailTerminal(k, r.token, r.worker_id)
  BY <1>1, <1>2, <1>6 DEF StoreInv, StoreTypeOK, FailTerminal, OnlyMoves, Reported, Same
<1> QED
  BY <1>1, <1>3, <1>4, <1>5, <1>6 DEF CommitReport, Complete, Fail

\* expireLease, when what the pass read is still so.
LEMMA ExpireMoves ==
  ASSUME StoreInv, NEW k \in Keys, Expired(k), expireLease(k, attempts[k])
  PROVE  OnlyMoves(k, Reaped(k))
BY DEF StoreInv, StoreTypeOK, expireLease, ExpireToReady, ExpireToFailed, OnlyMoves, Reaped, Same

\* promoteRetry, likewise.
LEMMA PromoteMoves ==
  ASSUME StoreInv, NEW k \in Keys, Due(k), promoteRetry(k)
  PROVE  OnlyMoves(k, Promoted(k))
BY DEF StoreInv, StoreTypeOK, promoteRetry, OnlyMoves, Promoted, Same

\* The clock: no report is open.
LEMMA TickMoves ==
  ASSUME Deployment, StoreInv, open \subseteq Report, TimePasses, NEW k \in Keys
  PROVE  Aged(k) /\ open' = {}
<1>1. lease[k] \in Lease /\ lease[k].expires_in \in Int
  BY DEF StoreInv, StoreTypeOK, Lease
<1>2. lease'[k] = lease[k] \/ lease'[k] = [lease[k] EXCEPT !.expires_in = @ - 1]
  BY DEF TimePasses, Tick
<1>3. /\ lease'[k].worker_id = lease[k].worker_id /\ lease'[k].fencing_token = lease[k].fencing_token
      /\ lease'[k].expires_in <= lease[k].expires_in
  BY <1>1, <1>2 DEF Lease
<1>4. open = {}
  <2>1. \A r \in open : r.age = 0 /\ r.age < 0
    BY DEF Deployment, TimePasses, Report
  <2> QED
    BY <2>1
<1> QED
  BY <1>3, <1>4 DEF TimePasses, Tick, Aged

-----------------------------------------------------------------------------
(* The processes.                                                          *)

\* What the caller of k can read is as before.
Still(k) == status'[k] = status[k] /\ result'[k] = result[k] /\ answered'[k] = answered[k]

\* No step changes it for two executions.
AtMostOne == \A j, k \in Keys : j = k \/ Still(j) \/ Still(k)

\* A step that is no pass's, and every row after it.
Work == (\A k \in Keys : Worked(k) /\ Told(k)) /\ AtMostOne /\ OpenStep /\ pass' = pass

\* Reports and every row they may write.
LEMMA ReportWorks ==
  ASSUME Deployment, OwnershipInv, \A k \in Keys : RowsFit(k), NEW r \in open, CommitReport(r),
         answered' = answered, pass' = pass
  PROVE  Work
<1>1. StoreInv /\ open \subseteq Report /\ r.key \in Keys
  BY OwnershipInvParts DEF RestTypeOK, Report
<1>2. OnlyMoves(r.key, Reported(r.key) \/ Same(r.key))
  BY <1>1, ReportMoves DEF RowsFit
<1>3. OpenStep
  BY DEF CommitReport, OpenStep
<1> QED
  BY <1>1, <1>2, <1>3 DEF OnlyMoves, Same, Still, AtMostOne, Worked, Told, Work

\* Steps that write no row.
LEMMA NothingWorks ==
  ASSUME UNCHANGED storeVars, OpenStep, answered' = answered, pass' = pass
  PROVE  Work
BY DEF storeVars, Same, Still, AtMostOne, Worked, Told, Work

\* A report that begins.
LEMMA BeginWorks ==
  ASSUME Deployment, NEW kind \in {"complete", "fail"}, NEW k \in Keys, NEW token \in Int,
         NEW w \in Workers \cup {NoWorker}, NEW age \in 0..MaxTxDelay, BeginReport(kind, k, token, w, age)
  PROVE  UNCHANGED storeVars /\ OpenStep
<1> DEFINE q == [kind |-> kind, key |-> k, token |-> token, worker_id |-> w,
                 owns |-> LeaseLive(k, token, age), age |-> age]
<1>1. age = 0 /\ LeaseLive(k, token, age) \in BOOLEAN
  BY DEF Deployment, LeaseLive, HasLease
<1>2. q \in Report
  BY <1>1 DEF Report
<1>3. open' = open \cup {q} /\ UNCHANGED storeVars /\ (q.owns => LeaseLive(q.key, q.token, 0))
  BY <1>1 DEF BeginReport
<1> HIDE DEF q
<1> QED
  BY <1>2, <1>3 DEF OpenStep

\* The server answers and forces completions.
LEMMA ServerWorks ==
  ASSUME Deployment, OwnershipInv, \A k \in Keys : RowsFit(k), NEW k \in Keys, ServerStep(k),
         UNCHANGED <<executorVars, pass>>
  PROVE  Work
<1>0. StoreInv /\ answered \in [Keys -> SUBSET Int] /\ NoWorker \in Workers \cup {NoWorker}
  BY OwnershipInvParts DEF RestTypeOK
<1>1. CASE CallNew(k)
  BY <1>0, <1>1, SubmitMoves DEF CallNew, OnlyMoves, Same, Still, AtMostOne, Worked, Told, Work, OpenStep
<1>2. CASE CallDuplicate(k)
  <2>1. \A j \in Keys : Same(j)
    BY <1>0, <1>2, SubmitMoves DEF CallDuplicate
  <2>2. \A j \in Keys : Told(j)
    BY <1>0, <1>2, <2>1 DEF CallDuplicate, Told
  <2>3. \A j \in Keys \ {k} : Still(j)
    BY <1>0, <1>2, <2>1 DEF CallDuplicate, Same, Still
  <2> QED
    BY <1>2, <2>1, <2>2, <2>3 DEF CallDuplicate, AtMostOne, Worked, Work, OpenStep
<1>3. ASSUME NEW token \in ForcedTokens, NEW age \in 0..MaxTxDelay, ForceComplete(k, token, age)
      PROVE  Work
  <2>1. token \in Int /\ answered' = answered /\ BeginReport("complete", k, token, NoWorker, age)
    BY <1>3, ForcedAreInts DEF ForceComplete, serverVars
  <2> QED
    BY <1>0, <2>1, BeginWorks, NothingWorks
<1>4. ASSUME NEW r \in Posts, EndForced(r)
      PROVE  Work
  <2>1. r \in open /\ answered' = answered
    BY <1>4 DEF Posts, EndForced, serverVars
  <2>2. CASE CommitReport(r)
    BY <2>1, <2>2, ReportWorks
  <2>3. CASE open' = open \ {r} /\ UNCHANGED storeVars
    BY <2>1, <2>3, NothingWorks DEF OpenStep
  <2> QED
    BY <1>4, <2>2, <2>3 DEF EndForced
<1> QED
  BY <1>1, <1>2, <1>3, <1>4 DEF ServerStep

\* Executors claim and report.
LEMMA ExecutorWorks ==
  ASSUME Deployment, OwnershipInv, \A k \in Keys : RowsFit(k), NEW w \in Workers, ExecutorStep(w),
         UNCHANGED <<pass, serverVars>>
  PROVE  Work
<1>0. StoreInv /\ RestTypeOK /\ RunTokens /\ answered' = answered /\ pass' = pass
  BY OwnershipInvParts DEF serverVars
<1>1. ASSUME NEW k \in Keys, NEW age \in 0..MaxTxDelay, Claim(k, w, age), open' = open PROVE Work
  <2>1. OnlyMoves(k, Claimed(k))
    BY <1>0, <1>1, AgeIsInt, ClaimMoves
  <2> QED
    BY <1>0, <1>1, <2>1 DEF OnlyMoves, Same, Still, AtMostOne, Worked, Told, Work, OpenStep
<1>2. ASSUME NEW age \in 0..MaxTxDelay, StartReport(w, age) PROVE Work
  <2>1. run[w].pc \in {"complete", "fail"} /\ run[w].key \in Keys /\ run[w].token \in Int
    BY <1>0, <1>2, RunTypes DEF StartReport
  <2>2. UNCHANGED storeVars /\ OpenStep
    BY <1>2, <2>1, BeginWorks DEF StartReport
  <2> QED
    BY <1>0, <2>2, NothingWorks
<1>3. CASE EndReport(w)
  BY <1>0, <1>3, ReportWorks DEF EndReport
<1>4. CASE UNCHANGED storeVars /\ open' \subseteq open
  BY <1>0, <1>4, NothingWorks DEF OpenStep
<1> QED
  BY <1>1, <1>2, <1>3, <1>4 DEF ExecutorStep, RuntimeStep, HandlerStep, StartHandled, StartUnhandled, ClaimReplyLost,
     ReportLost, Crash, RollBackReports, HandlerSucceeds, HandlerFails, HandlerAborts

\* Heartbeats.
LEMMA GoroutineWorks ==
  ASSUME Deployment, OwnershipInv, NEW g \in beating, GoroutineStep(g), UNCHANGED <<pass, serverVars>>
  PROVE  Work
<1>0. StoreInv /\ answered' = answered /\ pass' = pass /\ g.worker \in Workers /\ g.key \in Keys
  BY OwnershipInvParts DEF serverVars, RestTypeOK, Goroutine
<1>1. \A age \in 0..MaxTxDelay : age = 0
  BY DEF Deployment
<1>2. ASSUME NEW age \in 0..MaxTxDelay, BeatAccepted(g, age) PROVE Work
  <2>1. OnlyMoves(g.key, Extended(g.key)) /\ open' = open
    BY <1>0, <1>1, <1>2, HeartbeatMoves DEF BeatAccepted
  <2> QED
    BY <1>0, <2>1 DEF OnlyMoves, Same, Still, AtMostOne, Worked, Told, Work, OpenStep
<1>3. CASE UNCHANGED storeVars /\ open' = open
  BY <1>0, <1>3, NothingWorks DEF OpenStep
<1> QED
  BY <1>2, <1>3 DEF GoroutineStep, BeatRejected, HeartbeatRejected, BeatStops

\* What a step keeps beside the lists of the passes.
LEMMA RestKept ==
  ASSUME OwnershipInv, OwnershipInv', DeployInv, [Next]_vars, \A k \in Keys : Moved(k), OpenStep
  PROVE  /\ \A k \in Keys : RowsFit(k)' /\ FencedInv(k)'
         /\ \A r \in open' : r.owns => OwnerFits(r)'
<1>0. StoreInv /\ StoreInv' /\ open \subseteq Report /\ open' \subseteq Report
  BY OwnershipInvParts, OwnershipInvPartsPrime DEF RestTypeOK
<1>1. ASSUME NEW k \in Keys PROVE RowsFit(k)' /\ FencedInv(k)'
  BY <1>0, MovedFits, FencedStep, StepLogs DEF DeployInv
<1>2. ASSUME NEW r \in open', r.owns PROVE OwnerFits(r)'
  <2>0. r.key \in Keys /\ r \in Report
    BY <1>0 DEF Report
  <2>1. CASE r \in open
    BY <1>0, <1>2, <2>0, <2>1, MovedKeepsOwner, StepLogs DEF DeployInv
  <2>2. CASE r \notin open
    <3>1. UNCHANGED storeVars /\ LeaseLive(r.key, r.token, 0)
      BY <1>2, <2>2 DEF OpenStep
    <3>2. Newest(events[r.key], r.token)
      BY <1>0, <2>0, <3>1, KeyRows DEF LeaseLive
    <3> QED
      BY <3>1, <3>2 DEF storeVars, OwnerFits, LeaseLive, HasLease
  <2> QED
    BY <2>1, <2>2
<1> QED
  BY <1>1, <1>2

\* Work leaves the lists of every pass as they are, and true.
LEMMA WorkPreserves ==
  ASSUME OwnershipInv, OwnershipInv', DeployInv, [Next]_vars, Work
  PROVE  DeployInv'
<1>0. StoreInv /\ StoreInv' /\ RestTypeOK
  BY OwnershipInvParts, OwnershipInvPartsPrime
<1>1. ASSUME NEW s \in Schedulers
      PROVE  /\ \A x \in pass'[s].stale : Expired(x.key)' /\ attempts'[x.key] = x.attempts
             /\ \A k \in pass'[s].due : Due(k)'
  <2>1. pass'[s] = pass[s] /\ pass[s].stale \subseteq [key : Keys, attempts : Nat] /\ pass[s].due \subseteq Keys
    BY <1>0 DEF RestTypeOK, Pass, Work
  <2>2. \A x \in pass[s].stale : x.key \in Keys /\ Expired(x.key) /\ attempts[x.key] = x.attempts
    BY <2>1 DEF DeployInv, ListsFit
  <2>3. \A k \in pass[s].due : k \in Keys /\ Due(k)
    BY <2>1 DEF DeployInv, ListsFit
  <2>4. \A k \in Keys : /\ Expired(k) => Expired(k)' /\ attempts'[k] = attempts[k]
                        /\ Due(k) => Due(k)'
    BY <1>0, WorkedKeepsLists DEF DeployInv, Work
  <2> QED
    BY <2>1, <2>2, <2>3, <2>4
<1>2. ListsFit'
  BY <1>1 DEF ListsFit
<1>3. /\ \A k \in Keys : RowsFit(k)' /\ FencedInv(k)'
      /\ \A r \in open' : r.owns => OwnerFits(r)'
  BY RestKept DEF Work, Moved
<1> QED
  BY <1>2, <1>3 DEF DeployInv

\* The only scheduler acts on lists that are still true, and leaves them so: an
\* entry handled is an execution that no other entry is about.
LEMMA PassMoves ==
  ASSUME Deployment, OwnershipInv, DeployInv, NEW s \in Schedulers, SchedulerStep(s),
         UNCHANGED <<open, executorVars, serverVars>>
  PROVE  ListsFit' /\ AtMostOne /\ OpenStep /\ \A k \in Keys : Moved(k) /\ Told(k)
<1>0. /\ StoreInv /\ RestTypeOK /\ answered' = answered
      /\ pass[s] \in Pass /\ pass \in [Schedulers -> Pass]
      /\ pass[s].stale \subseteq [key : Keys, attempts : Nat] /\ pass[s].due \subseteq Keys
  BY OwnershipInvParts DEF serverVars, RestTypeOK, Pass
<1>1. /\ \A x \in pass[s].stale : x.key \in Keys /\ Expired(x.key) /\ attempts[x.key] = x.attempts
      /\ \A k \in pass[s].due : k \in Keys /\ Due(k)
      /\ \A k \in Keys : Expired(k) => ~Due(k)
  BY <1>0 DEF DeployInv, ListsFit, RowsFit, Expired, Due, NoRetry
<1> DEFINE Fresh == /\ \A x \in pass'[s].stale : Expired(x.key)' /\ attempts'[x.key] = x.attempts
                    /\ \A k \in pass'[s].due : Due(k)'
<1>2. SUFFICES (\A k \in Keys : Moved(k)) /\ AtMostOne /\ Fresh
  <2>1. ListsFit'
    BY <1>2 DEF ListsFit, Deployment
  <2> QED
    BY <1>0, <1>2, <2>1 DEF Told, OpenStep
<1>3. ASSUME UNCHANGED storeVars
      PROVE  /\ AtMostOne /\ \A k \in Keys : Moved(k)
             /\ \A k \in Keys : Expired(k)' = Expired(k) /\ Due(k)' = Due(k)
             /\ status' = status /\ attempts' = attempts
  BY <1>0, <1>3 DEF storeVars, AtMostOne, Still, Moved, Worked, Same, Expired, Due, HasLease
<1>4. ASSUME NEW rows \in SUBSET StaleRows, SelectStale(s, rows)
      PROVE  (\A k \in Keys : Moved(k)) /\ AtMostOne /\ Fresh
  <2>1. pass'[s].stale = rows /\ pass'[s].due = pass[s].due
    BY <1>0, <1>4 DEF SelectStale, Pass
  <2>2. /\ status' = status /\ attempts' = attempts /\ AtMostOne /\ \A k \in Keys : Moved(k)
        /\ \A k \in Keys : Expired(k)' = Expired(k) /\ Due(k)' = Due(k)
    BY <1>3, <1>4 DEF SelectStale
  <2>3. \A x \in pass'[s].stale : x.key \in Keys /\ Expired(x.key) /\ attempts[x.key] = x.attempts
    BY <2>1 DEF StaleRows
  <2> QED
    BY <1>1, <2>1, <2>2, <2>3
<1>5. ASSUME NEW x \in pass[s].stale, ExpireOne(s, x)
      PROVE  (\A k \in Keys : Moved(k)) /\ AtMostOne /\ Fresh
  <2>1. x.key \in Keys /\ OnlyMoves(x.key, Reaped(x.key)) /\ Expired(x.key)
    BY <1>0, <1>1, <1>5, ExpireMoves DEF ExpireOne
  <2>2. pass'[s].stale = pass[s].stale \ {x} /\ pass'[s].due = pass[s].due
    BY <1>0, <1>5 DEF ExpireOne, Pass
  <2>3. \A y \in pass[s].stale \ {x} : y.key # x.key
    BY <1>0, <1>1
  <2>4. \A k \in pass[s].due : k # x.key
    BY <1>1, <2>1
  <2>5. \A k \in Keys \ {x.key} : Same(k)
    BY <2>1 DEF OnlyMoves
  <2>6. \A k \in Keys \ {x.key} : (Expired(k) => Expired(k)') /\ (Due(k) => Due(k)')
                                  /\ status'[k] = status[k] /\ attempts'[k] = attempts[k]
    BY <2>5 DEF Same, Expired, Due, HasLease
  <2>7. Fresh
    BY <1>1, <2>2, <2>3, <2>4, <2>6
  <2> QED
    BY <1>0, <2>1, <2>5, <2>7 DEF OnlyMoves, Moved, Worked, Same, Still, AtMostOne
<1>6. ASSUME NEW rows \in SUBSET DueRows, SelectDue(s, rows)
      PROVE  (\A k \in Keys : Moved(k)) /\ AtMostOne /\ Fresh
  <2>1. pass'[s].stale = pass[s].stale /\ pass'[s].due = rows
    BY <1>0, <1>6 DEF SelectDue, Pass
  <2>2. /\ status' = status /\ attempts' = attempts /\ AtMostOne /\ \A k \in Keys : Moved(k)
        /\ \A k \in Keys : Expired(k)' = Expired(k) /\ Due(k)' = Due(k)
    BY <1>3, <1>6 DEF SelectDue
  <2>3. \A k \in pass'[s].due : k \in Keys /\ Due(k)
    BY <2>1 DEF DueRows
  <2> QED
    BY <1>1, <2>1, <2>2, <2>3
<1>7. ASSUME NEW x \in pass[s].due, PromoteOne(s, x)
      PROVE  (\A k \in Keys : Moved(k)) /\ AtMostOne /\ Fresh
  <2>1. x \in Keys /\ OnlyMoves(x, Promoted(x)) /\ ~Expired(x)
    BY <1>0, <1>1, <1>7, PromoteMoves DEF PromoteOne
  <2>2. pass'[s].stale = pass[s].stale /\ pass'[s].due = pass[s].due \ {x}
    BY <1>0, <1>7 DEF PromoteOne, Pass
  <2>3. \A y \in pass[s].stale : y.key # x
    BY <1>1, <2>1
  <2>5. \A k \in Keys \ {x} : Same(k)
    BY <2>1 DEF OnlyMoves
  <2>6. \A k \in Keys \ {x} : (Expired(k) => Expired(k)') /\ (Due(k) => Due(k)')
                              /\ status'[k] = status[k] /\ attempts'[k] = attempts[k]
    BY <2>5 DEF Same, Expired, Due, HasLease
  <2>7. Fresh
    BY <1>1, <2>2, <2>3, <2>6
  <2> QED
    BY <1>0, <2>1, <2>5, <2>7 DEF OnlyMoves, Moved, Worked, Same, Still, AtMostOne
<1>8. CASE EndPass(s) \/ AbandonPass(s)
  <2>1. pass'[s].stale = {} /\ pass'[s].due = {}
    BY <1>0, <1>8 DEF EndPass, AbandonPass, NoPass
  <2> QED
    BY <1>3, <1>8, <2>1 DEF EndPass, AbandonPass
<1> QED
  BY <1>4, <1>5, <1>6, <1>7, <1>8 DEF SchedulerStep

-----------------------------------------------------------------------------
(* The theorems.                                                           *)

\* Nothing is there, and every call has an attempt to come.
LEMMA DeployInit == Init => DeployInv
<1> SUFFICES ASSUME Init PROVE DeployInv
  OBVIOUS
<1>1. \A k \in Keys : RowsFit(k)
  BY StoreAssumption DEF Init, StoreInit, RowsFit, HasLease, NoLease
<1>2. ListsFit
  BY DEF Init, SchedulerInit, NoPass, ListsFit
<1>3. \A k \in Keys : FencedInv(k)
  <2>1. ClaimEvents(<<>>) = {}
    BY DEF ClaimEvents
  <2> QED
    BY <2>1 DEF Init, StoreInit, FencedInv, Fenced
<1>4. open = {}
  BY DEF Init, ReportsInit
<1> QED
  BY <1>1, <1>2, <1>3, <1>4 DEF DeployInv

\* Every step is work, or a pass's step, and moves the rows of each execution in
\* one of the ways above.
LEMMA DeployStep ==
  ASSUME Deployment, OwnershipInv, OwnershipInv', DeployInv, [Next]_vars
  PROVE  DeployInv' /\ AtMostOne /\ OpenStep /\ \A k \in Keys : Moved(k) /\ Told(k)
<1>0. StoreInv /\ RestTypeOK /\ \A k \in Keys : RowsFit(k)
  BY OwnershipInvParts DEF DeployInv
<1>1. ASSUME Work PROVE DeployInv' /\ AtMostOne /\ OpenStep /\ \A k \in Keys : Moved(k) /\ Told(k)
  BY <1>1, WorkPreserves DEF Work, Moved
<1>2. ASSUME NEW k \in Keys, ServerStep(k), UNCHANGED <<executorVars, pass>>
      PROVE  Work
  BY <1>0, <1>2, ServerWorks
<1>3. ASSUME NEW w \in Workers, ExecutorStep(w), UNCHANGED <<pass, serverVars>>
      PROVE  Work
  BY <1>0, <1>3, ExecutorWorks
<1>4. ASSUME NEW g \in beating, GoroutineStep(g), UNCHANGED <<pass, serverVars>>
      PROVE  Work
  BY <1>4, GoroutineWorks
<1>5. CASE TimePasses /\ UNCHANGED <<executorVars, pass, serverVars>>
  <2>1. \A k \in Keys : Aged(k)
    BY <1>0, <1>5, TickMoves DEF RestTypeOK
  <2>2. OpenStep
    <3>1. \A r \in open : r.age = 0 /\ r.age < 0
      BY <1>0, <1>5 DEF Deployment, TimePasses, RestTypeOK, Report
    <3> QED
      BY <1>5, <3>1 DEF TimePasses, OpenStep
  <2>3. Work
    BY <1>5, <2>1, <2>2 DEF serverVars, Aged, Still, AtMostOne, Worked, Told, Work
  <2> QED
    BY <1>1, <2>3
<1>6. CASE UNCHANGED vars
  <2>1. Work
    BY <1>6, NothingWorks DEF vars, serverVars, OpenStep
  <2> QED
    BY <1>1, <2>1
<1>7. ASSUME NEW s \in Schedulers, SchedulerStep(s), UNCHANGED <<open, executorVars, serverVars>>
      PROVE  DeployInv' /\ AtMostOne /\ OpenStep /\ \A k \in Keys : Moved(k) /\ Told(k)
  <2>1. ListsFit' /\ AtMostOne /\ OpenStep /\ \A k \in Keys : Moved(k) /\ Told(k)
    BY <1>7, PassMoves
  <2>2. /\ \A k \in Keys : RowsFit(k)' /\ FencedInv(k)'
        /\ \A r \in open' : r.owns => OwnerFits(r)'
    BY <2>1, RestKept
  <2> QED
    BY <2>1, <2>2 DEF DeployInv
<1> QED
  BY <1>1, <1>2, <1>3, <1>4, <1>5, <1>6, <1>7 DEF Next

\* The rows and the lists fit, the histories are fenced.
LEMMA DeployHolds == ASSUME Deployment PROVE Spec => []DeployInv
<1>1. OwnershipInv /\ OwnershipInv' /\ DeployInv /\ [Next]_vars => DeployInv'
  BY DeployStep
<1> QED
  BY <1>1, DeployInit, OwnershipInvariant, PTL DEF Spec

\* README 2 and 4, where no transaction is open across a tick: tokens of successive
\* claims increase and no lower token is accepted after a higher one was claimed.
THEOREM FencingHolds == ASSUME Deployment PROVE Spec => []FencedLog
<1>1. DeployInv => FencedLog
  BY DEF DeployInv, FencedInv, FencedLog
<1> QED
  BY <1>1, DeployHolds, PTL

\* There a completed execution holds the result of its newest claim.
THEOREM CompletionHolds == ASSUME Deployment PROVE Spec => []CompletedByNewestClaim
<1>1. DeployInv => CompletedByNewestClaim
  BY DEF DeployInv, FencedInv, CompletedByNewestClaim
<1> QED
  BY <1>1, DeployHolds, PTL

\* max_attempts is a bound over failures, lost leases and lost replies together.
THEOREM AttemptsAreBounded == ASSUME Deployment PROVE Spec => []AttemptsBounded
<1>1. DeployInv => AttemptsBounded
  BY DEF DeployInv, RowsFit, AttemptsBounded
<1> QED
  BY <1>1, DeployHolds, PTL

-----------------------------------------------------------------------------
(* 5. The same deployment without the test endpoint: nobody but the worker *)
(* that holds a claim reports under its token.                             *)

\* The retry row goes with pending, and what the callers were answered with is
\* the result of a completed execution.
RowsAgree(k) ==
  /\ status[k] = "pending" <=> retry_in[k] # NoRetry
  /\ status[k] = "completed" => result[k] # 0
  /\ answered[k] # {} => status[k] = "completed" /\ answered[k] = {result[k]}

\* The lease that an open report has found is there until the report ends.
OwnerLive(r) == r.owns => LeaseLive(r.key, r.token, 0)

AgreeInv ==
  ~allowTestEnds => /\ \A k \in Keys : RowsAgree(k)
                    /\ \A r \in open : OwnerLive(r)

\* Two reports that have found the same lease are one.
LEMMA OneReporter ==
  ASSUME OwnershipInv, ReportsFit, ~allowTestEnds,
         NEW r \in open, NEW q \in open, r.key = q.key, r.token = q.token
  PROVE  r = q
<1>1. r.worker_id \in Workers /\ q.worker_id \in Workers
  BY OwnershipInvParts DEF ReportsFit, RestTypeOK, Report
<1>2. /\ run[r.worker_id].pc # "idle" /\ run[q.worker_id].pc # "idle"
      /\ run[r.worker_id].key = run[q.worker_id].key
      /\ run[r.worker_id].token = run[q.worker_id].token
  BY <1>1 DEF ReportsFit
<1>3. r.worker_id = q.worker_id
  BY <1>1, <1>2 DEF OwnershipInv, OneOwner
<1> QED
  BY <1>1, <1>3 DEF ReportsFit

\* A report that found the lease finds a running execution, and stores a token.
LEMMA OwnersRun ==
  ASSUME OwnershipInv, ReportsFit, HistoryInv, TokensArePositive, DeployInv, AgreeInv, ~allowTestEnds,
         NEW k \in Keys, NEW r \in open, r.key = k, r.owns
  PROVE  status[k] = "running" /\ LeaseLive(k, r.token, 0) /\ r.token # 0
<1>1. LeaseLive(k, r.token, 0)
  BY DEF AgreeInv, OwnerLive
<1>2. status[k] = "running"
  BY <1>1 DEF LeaseLive, DeployInv, RowsFit
<1>3. r.token > 0
  BY TokensLogged DEF TokensArePositive
<1> QED
  BY <1>1, <1>2, <1>3

\* In a report's move the execution was running, and a result is a token.
LEMMA ReportedRuns ==
  ASSUME OwnershipInv, ReportsFit, HistoryInv, TokensArePositive, DeployInv, AgreeInv, ~allowTestEnds,
         NEW k \in Keys, Reported(k)
  PROVE  status[k] = "running" /\ (status'[k] = "completed" => result'[k] # 0)
<1>1. /\ \E r \in open : r.key = k /\ r.owns
      /\ status'[k] = "completed" => \E r \in open : r.key = k /\ r.owns /\ result'[k] = r.token
  BY DEF Reported
<1> QED
  BY <1>1, OwnersRun

\* A completed or failed execution is never touched again.
LEMMA FinishedIsFinal ==
  ASSUME OwnershipInv, ReportsFit, HistoryInv, TokensArePositive, DeployInv, AgreeInv, ~allowTestEnds,
         NEW k \in Keys, Moved(k), status[k] \in {"completed", "failed"}
  PROVE  status'[k] = status[k] /\ result'[k] = result[k]
<1>1. RowsAgree(k) /\ NoRetry # 0
  BY DEF AgreeInv, NoRetry
<1>2. ~Reported(k)
  BY ReportedRuns
<1> QED
  BY <1>1, <1>2 DEF Moved, Worked, Same, Born, Claimed, Extended, Reaped, Promoted, Aged, RowsAgree, Expired, Due

\* A retry that is not due stays pending.
LEMMA PendingWaits ==
  ASSUME OwnershipInv, ReportsFit, HistoryInv, TokensArePositive, DeployInv, AgreeInv, ~allowTestEnds,
         NEW k \in Keys, Moved(k), status[k] = "pending", retry_in[k] > 0
  PROVE  status'[k] = "pending"
<1>1. ~Reported(k)
  BY ReportedRuns
<1> QED
  BY <1>1 DEF Moved, Worked, Same, Born, Claimed, Extended, Reaped, Promoted, Aged, Expired, Due

\* Every move keeps the rows in agreement.
LEMMA AgreeMoved ==
  ASSUME OwnershipInv, OwnershipInv', ReportsFit, HistoryInv, TokensArePositive, DeployInv, AgreeInv, ~allowTestEnds,
         NEW k \in Keys, Moved(k), Told(k)
  PROVE  RowsAgree(k)'
<1>1. RowsAgree(k) /\ RowsFit(k)
  BY DEF AgreeInv, DeployInv
<1>2. /\ retry_in[k] \in Nat \cup {NoRetry} /\ retry_in'[k] \in Nat \cup {NoRetry}
      /\ NoRetry \notin Nat /\ NoRetry = -1 /\ 0 \in Nat
  BY OwnershipInvParts, OwnershipInvPartsPrime, RowTypes DEF StoreInv, StoreTypeOK
<1>3. /\ status'[k] = "pending" <=> retry_in'[k] # NoRetry
      /\ status'[k] = "completed" => result'[k] # 0
  <2> USE DEF RowsAgree
  <2>1. CASE Same(k)
    BY <1>1, <2>1 DEF Same
  <2>2. CASE Born(k)
    BY <1>1, <2>2 DEF Born
  <2>3. CASE Claimed(k)
    BY <1>1, <2>3 DEF Claimed
  <2>4. CASE Extended(k)
    BY <1>1, <2>4 DEF Extended
  <2>5. CASE Reported(k)
    BY <1>1, <1>2, <2>5, ReportedRuns DEF Reported
  <2>6. CASE Reaped(k)
    BY <1>1, <2>6 DEF Reaped, Expired
  <2>7. CASE Promoted(k)
    BY <1>1, <2>7 DEF Promoted
  <2>8. CASE Aged(k)
    BY <1>1, <1>2, <2>8 DEF Aged
  <2> QED
    BY <2>1, <2>2, <2>3, <2>4, <2>5, <2>6, <2>7, <2>8 DEF Moved, Worked
<1>4. answered'[k] # {} => status'[k] = "completed" /\ answered'[k] = {result'[k]}
  <2>1. CASE status[k] = "completed"
    <3>1. status'[k] = "completed" /\ result'[k] = result[k]
      BY <2>1, FinishedIsFinal
    <3> QED
      BY <1>1, <3>1 DEF Told, RowsAgree
  <2>2. CASE status[k] # "completed"
    BY <1>1, <2>2 DEF Told, RowsAgree
  <2> QED
    BY <2>1, <2>2
<1> QED
  BY <1>3, <1>4 DEF RowsAgree

\* No move but its own ends the lease that an open report has found.
LEMMA OwnersStay ==
  ASSUME OwnershipInv, OwnershipInv', ReportsFit, HistoryInv, TokensArePositive, DeployInv, AgreeInv, ~allowTestEnds,
         NEW r \in open, r \in open', r.owns, r.key \in Keys, Moved(r.key)
  PROVE  OwnerLive(r)'
<1> DEFINE k == r.key
<1>1. status[k] = "running" /\ LeaseLive(k, r.token, 0)
  BY OwnersRun
<1>2. lease[k].expires_in \in Int /\ lease'[k].expires_in \in Int
  BY OwnershipInvParts, OwnershipInvPartsPrime DEF StoreInv, StoreTypeOK, Lease
<1>3. LeaseLive(k, r.token, 0)'
  <2> USE DEF LeaseLive, HasLease
  <2>1. CASE Same(k)
    BY <1>1, <2>1 DEF Same
  <2>2. CASE Born(k)
    BY <1>1, <2>2 DEF Born
  <2>3. CASE Claimed(k)
    BY <1>1, <2>3 DEF Claimed
  <2>4. CASE Extended(k)
    BY <1>1, <1>2, <2>4 DEF Extended
  <2>5. CASE Reported(k)
    <3>1. PICK q \in open : q.key = k /\ q.owns /\ open' = open \ {q}
      BY <2>5 DEF Reported
    <3>2. LeaseLive(k, q.token, 0)
      BY <3>1, OwnersRun
    <3>3. q.token = r.token
      BY <1>1, <3>2
    <3>4. q = r
      BY <3>1, <3>3, OneReporter
    <3> QED
      BY <3>1, <3>4
  <2>6. CASE Reaped(k)
    BY <1>1, <1>2, <2>6 DEF Reaped, Expired
  <2>7. CASE Promoted(k)
    <3>1. RowsAgree(k) /\ NoRetry # 0
      BY DEF AgreeInv, NoRetry
    <3> QED
      BY <1>1, <2>7, <3>1 DEF Promoted, Due, RowsAgree
  <2>8. CASE Aged(k)
    BY <2>8 DEF Aged
  <2> QED
    BY <2>1, <2>2, <2>3, <2>4, <2>5, <2>6, <2>7, <2>8 DEF Moved, Worked
<1> QED
  BY <1>3 DEF OwnerLive

\* What the theorems of this section rest on.
WholeInv == OwnershipInv /\ ReportsFit /\ HistoryInv /\ TokensArePositive /\ DeployInv /\ AgreeInv

\* The server is started with or without the endpoint.
LEMMA StartedOnce == [Next]_vars => allowTestEnds' = allowTestEnds
BY DEF Next, vars, serverVars, ServerStep, CallNew, CallDuplicate, ForceComplete, EndForced

\* The rows agree after every step.
LEMMA AgreeStep ==
  ASSUME Deployment, WholeInv, OwnershipInv', [Next]_vars
  PROVE  AgreeInv'
<1> SUFFICES ASSUME ~allowTestEnds
             PROVE  (\A k \in Keys : RowsAgree(k)') /\ \A r \in open' : OwnerLive(r)'
  BY StartedOnce DEF AgreeInv
<1> USE DEF WholeInv
<1>1. OpenStep /\ \A k \in Keys : Moved(k) /\ Told(k)
  BY DeployStep
<1>2. \A k \in Keys : RowsAgree(k)'
  BY <1>1, AgreeMoved
<1>3. ASSUME NEW r \in open', r.owns PROVE OwnerLive(r)'
  <2>1. r.key \in Keys
    BY OwnershipInvPartsPrime DEF RestTypeOK, Report
  <2>2. CASE r \in open
    BY <1>1, <1>3, <2>1, <2>2, OwnersStay
  <2>3. CASE r \notin open
    BY <1>1, <1>3, <2>3 DEF OpenStep, storeVars, OwnerLive, LeaseLive, HasLease
  <2> QED
    BY <2>2, <2>3
<1> QED
  BY <1>2, <1>3 DEF OwnerLive

\* The rows agree.
LEMMA AgreeHolds == ASSUME Deployment PROVE Spec => []AgreeInv
<1>1. Init => AgreeInv
  BY DEF Init, StoreInit, ServerInit, ReportsInit, AgreeInv, RowsAgree
<1>2. OwnershipInv /\ OwnershipInv' /\ ReportsFit /\ HistoryInv /\ TokensArePositive /\ DeployInv
        /\ AgreeInv /\ [Next]_vars => AgreeInv'
  BY AgreeStep DEF WholeInv
<1> QED
  BY <1>1, <1>2, OwnershipInvariant, FitHolds, HistoryHolds, PositiveHolds, DeployHolds, PTL DEF Spec

\* All of it.
LEMMA WholeHolds == ASSUME Deployment PROVE Spec => []WholeInv
BY OwnershipInvariant, FitHolds, HistoryHolds, PositiveHolds, DeployHolds, AgreeHolds, PTL DEF WholeInv

\* Without the endpoint, what RunSchedulerPass read is still so when it acts on it.
THEOREM PassesAreFresh == ASSUME Deployment PROVE Spec => []FreshLists
<1>1. WholeInv => FreshLists
  <2> SUFFICES ASSUME WholeInv, ~allowTestEnds, NEW s \in Schedulers
               PROVE  /\ \A x \in pass[s].stale : Expired(x.key) /\ attempts[x.key] = x.attempts
                      /\ \A k \in pass[s].due : status[k] = "pending" /\ Due(k)
    BY DEF FreshLists
  <2>1. /\ \A x \in pass[s].stale : Expired(x.key) /\ attempts[x.key] = x.attempts
        /\ \A k \in pass[s].due : Due(k)
    BY DEF WholeInv, DeployInv, ListsFit
  <2>2. \A k \in pass[s].due : k \in Keys
    BY OwnershipInvParts DEF WholeInv, RestTypeOK, Pass
  <2>3. \A k \in pass[s].due : status[k] = "pending"
    BY <2>1, <2>2 DEF WholeInv, AgreeInv, RowsAgree, Due, NoRetry
  <2> QED
    BY <2>1, <2>3
<1> QED
  BY <1>1, WholeHolds, PTL

\* Without it exactly the running executions have a lease, exactly the pending ones
\* a retry.
THEOREM TablesDoAgree == ASSUME Deployment PROVE Spec => []TablesAgree
<1>1. WholeInv => TablesAgree
  BY DEF WholeInv, DeployInv, RowsFit, AgreeInv, RowsAgree, TablesAgree
<1> QED
  BY <1>1, WholeHolds, PTL

\* Without it every duplicate submission is answered with the one stored result.
THEOREM AnswersAreOne == ASSUME Deployment PROVE Spec => []OneAnswer
<1>1. WholeInv => OneAnswer
  BY DEF WholeInv, AgreeInv, RowsAgree, OneAnswer
<1> QED
  BY <1>1, WholeHolds, PTL

\* Without it completed and failed are final, and the stored result with them.
THEOREM FinalStaysFinal == ASSUME Deployment PROVE Spec => TerminalIsFinal
<1>1. WholeInv /\ OwnershipInv' /\ [Next]_vars =>
        [~allowTestEnds => \A k \in Keys : status[k] \in {"completed", "failed"} =>
           status'[k] = status[k] /\ result'[k] = result[k]]_vars
  BY DeployStep, FinishedIsFinal DEF WholeInv
<1> QED
  BY <1>1, WholeHolds, OwnershipInvariant, PTL DEF Spec, TerminalIsFinal

\* Without it a failed attempt waits for its backoff, whatever passes and late
\* reports do.
THEOREM RetriesWait == ASSUME Deployment PROVE Spec => NoEarlyRetry
<1>1. WholeInv /\ OwnershipInv' /\ [Next]_vars =>
        [~allowTestEnds => \A k \in Keys : (status[k] = "pending" /\ retry_in[k] > 0) => status'[k] = "pending"]_vars
  BY DeployStep, PendingWaits DEF WholeInv
<1> QED
  BY <1>1, WholeHolds, OwnershipInvariant, PTL DEF Spec, NoEarlyRetry

-----------------------------------------------------------------------------
(* The contract.                                                           *)

\* No call has been made.
LEMMA ContractStarts == Init => Contract!ContractInit
BY DEF Init, StoreInit, ServerInit, Contract!ContractInit, phaseOf

\* What the contract reads of an execution.
answerOf(k) == IF status[k] = "completed" THEN result[k] ELSE 0

\* The move of one execution is a step of its caller's contract, or none.
LEMMA OneContractStep ==
  ASSUME WholeInv, OwnershipInv', ~allowTestEnds, NEW k \in Keys, RowsAgree(k)', Moved(k), Told(k),
         \A j \in Keys \ {k} : Still(j)
  PROVE  [Contract!ContractNext]_(Contract!contractVars)
<1> DEFINE phases == [j \in Keys |-> phaseOf(j)]
           answers == [j \in Keys |-> answerOf(j)]
<1>0. /\ StoreInv /\ StoreInv' /\ answered \in [Keys -> SUBSET Int] /\ answered' \in [Keys -> SUBSET Int]
      /\ result'[k] \in Int /\ RowsAgree(k) /\ RowsFit(k)
  BY OwnershipInvParts, OwnershipInvPartsPrime DEF WholeInv, AgreeInv, DeployInv, RestTypeOK, StoreInv, StoreTypeOK
<1>1. \A j \in Keys \ {k} : phaseOf(j)' = phaseOf(j) /\ answerOf(j)' = answerOf(j) /\ answered'[j] = answered[j]
  BY DEF Still, phaseOf, answerOf
<1>2. /\ status[k] = "absent" => phaseOf(k) = "none"
      /\ status[k] \in {"ready", "running", "pending"} => phaseOf(k) = "open"
      /\ status[k] \in {"completed", "failed"} => phaseOf(k) = status[k]
  BY DEF phaseOf
<1>3. /\ status'[k] = "absent" => phaseOf(k)' = "none"
      /\ status'[k] \in {"ready", "running", "pending"} => phaseOf(k)' = "open"
      /\ status'[k] \in {"completed", "failed"} => phaseOf(k)' = status'[k]
  BY DEF phaseOf
<1>4. /\ answerOf(k) = IF status[k] = "completed" THEN result[k] ELSE 0
      /\ answerOf(k)' = IF status'[k] = "completed" THEN result'[k] ELSE 0
  BY DEF answerOf
<1>5. status[k] \in {"absent", "ready", "running", "pending", "completed", "failed"}
  BY <1>0 DEF StoreInv, StoreTypeOK, Status
<1> DEFINE Rests == phaseOf(k)' = phaseOf(k) /\ answerOf(k)' = answerOf(k)
           Accepts == phaseOf(k) = "none" /\ phaseOf(k)' = "open" /\ answerOf(k)' = answerOf(k)
           Finishes == phaseOf(k) = "open" /\ phaseOf(k)' = "completed" /\ answerOf(k)' \in Int
           GivesUp == phaseOf(k) = "open" /\ phaseOf(k)' = "failed" /\ answerOf(k)' = answerOf(k)
<1>6. Rests \/ Accepts \/ Finishes \/ GivesUp
  <2> USE <1>2, <1>3, <1>4, <1>5
  <2>1. CASE Same(k) \/ Aged(k) \/ Extended(k)
    BY <2>1 DEF Same, Aged, Extended
  <2>2. CASE Born(k)
    BY <2>2 DEF Born
  <2>3. CASE Claimed(k)
    BY <2>3 DEF Claimed
  <2>4. CASE Reported(k)
    <3>1. status[k] = "running"
      BY <2>4, ReportedRuns DEF WholeInv
    <3> QED
      BY <1>0, <2>4, <3>1 DEF Reported
  <2>5. CASE Reaped(k)
    BY <2>5 DEF Reaped, Expired
  <2>6. CASE Promoted(k)
    BY <1>0, <2>6 DEF Promoted, RowsAgree, Due, NoRetry
  <2> QED
    BY <2>1, <2>2, <2>3, <2>4, <2>5, <2>6 DEF Moved, Worked
<1>7. CASE answered'[k] # answered[k]
  <2>1. status[k] = "completed" /\ Same(k) /\ answered'[k] = answered[k] \cup {result[k]}
    BY <1>7 DEF Told
  <2>2. phases' = phases /\ answers' = answers
    BY <1>1, <2>1 DEF Same, phaseOf, answerOf
  <2>3. answered' = [answered EXCEPT ![k] = @ \cup {answers[k]}] /\ phases[k] = "completed"
    BY <1>0, <1>1, <1>2, <1>4, <2>1
  <2>4. Contract!Replay(k)
    BY <2>2, <2>3 DEF Contract!Replay, answerOf
  <2> QED
    BY <2>4 DEF Contract!ContractNext
<1>8. CASE answered'[k] = answered[k]
  <2>1. answered' = answered
    BY <1>0, <1>1, <1>8
  <2>2. phases' = [phases EXCEPT ![k] = phaseOf(k)'] /\ answers' = [answers EXCEPT ![k] = answerOf(k)']
    BY <1>1
  <2>3. CASE Rests
    BY <2>1, <2>2, <2>3 DEF Contract!contractVars, answerOf
  <2>4. CASE Accepts
    <3>1. Contract!Accept(k)
      BY <2>1, <2>2, <2>4 DEF Contract!Accept, answerOf
    <3> QED
      BY <3>1 DEF Contract!ContractNext
  <2>5. CASE Finishes
    <3>1. Contract!Finish(k)
      BY <2>1, <2>2, <2>5 DEF Contract!Finish, answerOf
    <3> QED
      BY <3>1 DEF Contract!ContractNext
  <2>6. CASE GivesUp
    <3>1. Contract!GiveUp(k)
      BY <2>1, <2>2, <2>6 DEF Contract!GiveUp, answerOf
    <3> QED
      BY <3>1 DEF Contract!ContractNext
  <2> QED
    BY <1>6, <2>3, <2>4, <2>5, <2>6
<1> QED
  BY <1>7, <1>8

\* A step changes what at most one caller can read.
LEMMA ContractStep ==
  ASSUME Deployment, WholeInv, WholeInv', [Next]_vars, ~allowTestEnds
  PROVE  [Contract!ContractNext]_(Contract!contractVars)
<1>0. OwnershipInv /\ OwnershipInv' /\ DeployInv
  BY DEF WholeInv
<1>1. /\ AtMostOne
      /\ \A k \in Keys : Moved(k) /\ Told(k) /\ RowsAgree(k)'
  BY <1>0, DeployStep, StartedOnce DEF WholeInv, AgreeInv
<1>2. CASE \E k \in Keys : ~Still(k)
  <2>1. PICK k \in Keys : ~Still(k)
    BY <1>2
  <2>2. \A j \in Keys \ {k} : Still(j)
    BY <1>1, <2>1 DEF AtMostOne
  <2> QED
    BY <1>0, <1>1, <2>2, OneContractStep
<1>3. CASE \A k \in Keys : Still(k)
  <2>1. answered' = answered
    BY <1>0, <1>3, OwnershipInvParts, OwnershipInvPartsPrime DEF RestTypeOK, Still
  <2> QED
    BY <1>3, <2>1 DEF Contract!contractVars, Still, phaseOf
<1> QED
  BY <1>2, <1>3

\* The whole system implements the caller's contract where only the workers report.
THEOREM SystemImplementsContract == ASSUME Deployment PROVE Spec => ImplementsContract
<1>1. WholeInv /\ WholeInv' /\ [Next]_vars =>
        [~allowTestEnds => Contract!ContractNext]_(Contract!contractVars)
  BY ContractStep
<1> QED
  BY <1>1, ContractStarts, WholeHolds, PTL DEF Spec, ImplementsContract
=============================================================================
