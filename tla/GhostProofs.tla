---------------------------- MODULE GhostProofs -----------------------------
(***************************************************************************)
(* The demo agent's ghost completion, proved: whatever the workers, the    *)
(* schedulers and the delays of the transactions are, it is never accepted *)
(* and no call ends with its result, on top of OwnershipInv.                 *)
(***************************************************************************)
EXTENDS DemoAgent, DurableSystemProofs

\* The tokens of the claims that the chaos agent made in a history.
ChaosIn(log) == {log[i].fencing_token : i \in {j \in ClaimEvents(log) : log[j].worker_id = ChaosAgent}}

-----------------------------------------------------------------------------
(* Appending to a history.                                                 *)

\* A row that is no claim of the agent's leaves its claims alone; one that is adds its token.
LEMMA AppendChaos ==
  ASSUME NEW log \in Seq(Event), NEW type \in EventType,
         NEW worker \in Workers \cup {NoWorker}, NEW token \in Int
  PROVE  /\ (type # "claimed" \/ worker # ChaosAgent) =>
              ChaosIn(appendEvent(log, type, worker, token)) = ChaosIn(log)
         /\ (type = "claimed" /\ worker = ChaosAgent) =>
              ChaosIn(appendEvent(log, type, worker, token)) = ChaosIn(log) \cup {token}
<1> DEFINE new == appendEvent(log, type, worker, token)
           mine(h) == {j \in ClaimEvents(h) : h[j].worker_id = ChaosAgent}
<1>1. /\ DOMAIN new = 1..Len(log) + 1
      /\ DOMAIN log = 1..Len(log)
      /\ Len(log) \in Nat
      /\ \A i \in 1..Len(log) : new[i] = log[i]
      /\ new[Len(log) + 1] = [event_type |-> type, worker_id |-> worker, fencing_token |-> token]
  BY AppendEvent
<1> HIDE DEF new
<1>2. DOMAIN new = DOMAIN log \cup {Len(log) + 1} /\ Len(log) + 1 \notin DOMAIN log
  BY <1>1
<1>3. /\ (type # "claimed" \/ worker # ChaosAgent) => mine(new) = mine(log)
      /\ (type = "claimed" /\ worker = ChaosAgent) => mine(new) = mine(log) \cup {Len(log) + 1}
  BY <1>1, <1>2 DEF ClaimEvents
<1>4. \A i \in mine(log) : new[i] = log[i]
  BY <1>1 DEF ClaimEvents
<1>5. /\ ChaosIn(new) = {new[i].fencing_token : i \in mine(new)}
      /\ ChaosIn(log) = {log[i].fencing_token : i \in mine(log)}
  BY DEF ChaosIn
<1> HIDE DEF mine
<1>6. (type # "claimed" \/ worker # ChaosAgent) => ChaosIn(new) = ChaosIn(log)
  BY <1>3, <1>4, <1>5
<1>7. (type = "claimed" /\ worker = ChaosAgent) => ChaosIn(new) = ChaosIn(log) \cup {token}
  BY <1>1, <1>3, <1>4, <1>5
<1> QED
  BY <1>6, <1>7 DEF new

\* The agent's claims are claims of the history.
LEMMA ChaosTokensLogged == \A log : ChaosIn(log) \subseteq Tokens(log)
BY DEF ChaosIn, ClaimEvents, Tokens, Numbered

-----------------------------------------------------------------------------
(* What a step does to the rows of one execution.                          *)

\* No claim of the agent's is logged, and no token is lost.
SameClaims(k) ==
  /\ ChaosIn(events'[k]) = ChaosIn(events[k])
  /\ Tokens(events[k]) \subseteq Tokens(events'[k])

\* No lease is given or extended, and nothing completed.
Left(k) ==
  /\ SameClaims(k)
  /\ status'[k] = "completed" => status[k] = "completed" /\ result'[k] = result[k]
  /\ \/ lease'[k] = NoLease
     \/ /\ lease'[k].worker_id = lease[k].worker_id /\ lease'[k].fencing_token = lease[k].fencing_token
        /\ lease'[k].expires_in <= lease[k].expires_in

\* The holder of the lease, who is not the agent, extends it, or another than the
\* agent completes.
Held(k) ==
  /\ SameClaims(k)
  /\ \/ status'[k] = status[k] /\ result'[k] = result[k]
     \/ result'[k] \notin ChaosIn(events[k])
  /\ \/ lease'[k] = NoLease
     \/ lease'[k].fencing_token = lease[k].fencing_token /\ lease[k].fencing_token \notin ChaosIn(events[k])

\* A claim under a new token.
Taken(k) ==
  /\ Tokens(events[k]) \subseteq Tokens(events'[k]) /\ NextToken(k) \in Tokens(events'[k])
  /\ status'[k] = "running"
  /\ lease'[k].fencing_token = NextToken(k)

\* By a worker, and by the agent.
TakenByWorker(k) == Taken(k) /\ SameClaims(k)

TakenByAgent(k) ==
  /\ Taken(k)
  /\ ChaosIn(events'[k]) = ChaosIn(events[k]) \cup {NextToken(k)}
  /\ lease'[k].expires_in <= LeaseSeconds[ChaosAgent]

\* A row is written, or two, that are no claim.
LEMMA RowsClaimNothing ==
  ASSUME StoreInv, NEW k \in Keys, NEW type \in EventType \ {"claimed"}, NEW next \in EventType \ {"claimed"},
         NEW worker \in Workers \cup {NoWorker}, NEW token \in Int,
         \/ events' = [events EXCEPT ![k] = appendEvent(@, type, worker, token)]
         \/ events' = [events EXCEPT ![k] = appendEvent(appendEvent(@, type, worker, token), next, worker, token)]
  PROVE  \A j \in Keys : SameClaims(j)
<1> DEFINE log == appendEvent(events[k], type, worker, token)
           more == appendEvent(log, next, worker, token)
<1>1. events \in [Keys -> Seq(Event)] /\ events[k] \in Seq(Event)
  BY DEF StoreInv, StoreTypeOK
<1>2. log \in Seq(Event) /\ ChaosIn(log) = ChaosIn(events[k]) /\ Tokens(events[k]) \subseteq Tokens(log)
  <2>1. log \in Seq(Event)
    BY <1>1, AppendEvent
  <2>2. ChaosIn(log) = ChaosIn(events[k])
    BY <1>1, AppendChaos
  <2>3. Tokens(events[k]) \subseteq Tokens(log)
    BY <1>1, AppendKeepsTokens
  <2> QED
    BY <2>1, <2>2, <2>3
<1>3. events'[k] = log \/ events'[k] = more
  BY <1>1
<1>4. \A j \in Keys \ {k} : events'[j] = events[j]
  BY <1>1
<1> HIDE DEF log
<1>5. ChaosIn(more) = ChaosIn(log) /\ Tokens(log) \subseteq Tokens(more)
  <2>1. ChaosIn(more) = ChaosIn(log)
    BY <1>2, AppendChaos
  <2>2. Tokens(log) \subseteq Tokens(more)
    BY <1>2, AppendKeepsTokens
  <2> QED
    BY <2>1, <2>2
<1> HIDE DEF more
<1> QED
  BY <1>2, <1>3, <1>4, <1>5 DEF SameClaims

\* Submissions.
LEMMA SubmitLeaves ==
  ASSUME StoreInv, NEW k \in Keys, SubmitNew(k) \/ SubmitDuplicate(k)
  PROVE  \A j \in Keys : Left(j)
<1>1. /\ {"submitted", "ready", "duplicate_detected"} \subseteq EventType \ {"claimed"}
      /\ 0 \in Int /\ NoWorker \in Workers \cup {NoWorker}
  BY DEF EventType
<1>2. \A j \in Keys : SameClaims(j)
  <2>1. CASE SubmitNew(k)
    BY <1>1, <2>1, RowsClaimNothing DEF SubmitNew
  <2>2. CASE SubmitDuplicate(k)
    BY <1>1, <2>2, RowsClaimNothing DEF SubmitDuplicate
  <2> QED
    BY <2>1, <2>2
<1>3. \A j \in Keys : lease[j].expires_in <= lease[j].expires_in
  BY DEF StoreInv, StoreTypeOK, Lease
<1> QED
  BY <1>2, <1>3 DEF StoreInv, StoreTypeOK, SubmitNew, SubmitDuplicate, Left

\* expireLease and promoteRetry, on whatever the pass has read.
LEMMA PassLeaves ==
  ASSUME StoreInv, NEW k \in Keys, NEW seen, expireLease(k, seen) \/ promoteRetry(k)
  PROVE  \A j \in Keys : Left(j)
<1>1. /\ {"lease_expired", "failed", "ready"} \subseteq EventType \ {"claimed"}
      /\ 0 \in Int /\ NoWorker \in Workers \cup {NoWorker}
  BY DEF EventType
<1>2. \A j \in Keys : SameClaims(j)
  <2>1. CASE ExpireToReady(k, seen)
    BY <1>1, <2>1, RowsClaimNothing DEF ExpireToReady
  <2>2. CASE ExpireToFailed(k, seen)
    BY <1>1, <2>2, RowsClaimNothing DEF ExpireToFailed
  <2>3. CASE promoteRetry(k)
    BY <1>1, <2>3, RowsClaimNothing DEF promoteRetry
  <2> QED
    BY <2>1, <2>2, <2>3 DEF expireLease
<1>3. \A j \in Keys : lease[j].expires_in <= lease[j].expires_in
  BY DEF StoreInv, StoreTypeOK, Lease
<1> QED
  BY <1>2, <1>3 DEF StoreInv, StoreTypeOK, expireLease, ExpireToReady, ExpireToFailed, promoteRetry, Left

\* Nothing happens, or time passes.
LEMMA IdleLeaves ==
  ASSUME StoreInv, Tick \/ UNCHANGED storeVars
  PROVE  \A j \in Keys : Left(j)
<1>1. \A j \in Keys : lease[j] \in Lease /\ lease[j].expires_in \in Int
  BY DEF StoreInv, StoreTypeOK, Lease
<1>2. CASE Tick
  <2>1. \A j \in Keys : lease'[j] = lease[j] \/ lease'[j] = [lease[j] EXCEPT !.expires_in = @ - 1]
    BY <1>2 DEF Tick
  <2>2. ASSUME NEW j \in Keys
        PROVE  /\ lease'[j].worker_id = lease[j].worker_id
               /\ lease'[j].fencing_token = lease[j].fencing_token
               /\ lease'[j].expires_in <= lease[j].expires_in
    <3>1. CASE lease'[j] = lease[j]
      BY <1>1, <3>1
    <3>2. CASE lease'[j] = [lease[j] EXCEPT !.expires_in = @ - 1]
      BY <1>1, <3>2 DEF Lease
    <3> QED
      BY <2>1, <3>1, <3>2
  <2> QED
    BY <1>2, <2>2 DEF Tick, Left, SameClaims
<1>3. CASE UNCHANGED storeVars
  BY <1>1, <1>3 DEF storeVars, Left, SameClaims
<1> QED
  BY <1>2, <1>3

\* Complete and Fail; what they may complete with is not the agent's token.
LEMMA ReportLeaves ==
  ASSUME StoreInv, open \subseteq Report, NEW r \in open, CommitReport(r),
         r.owns => r.token \notin ChaosIn(events[r.key])
  PROVE  \A j \in Keys : Left(j) \/ Held(j)
<1> DEFINE k == r.key
           token == r.token
           w == r.worker_id
<1>0. k \in Keys /\ token \in Int /\ w \in Workers \cup {NoWorker}
  BY DEF Report
<1>1. {"completed", "stale_rejected", "retry_scheduled", "failed"} \subseteq EventType \ {"claimed"}
  BY DEF EventType
<1>2. \A j \in Keys : lease[j].expires_in <= lease[j].expires_in
  BY DEF StoreInv, StoreTypeOK, Lease
<1>3. CASE r.owns /\ CompleteAccepted(k, token, w)
  <2>1. \A j \in Keys : SameClaims(j)
    BY <1>0, <1>1, <1>3, RowsClaimNothing DEF CompleteAccepted
  <2>2. \A j \in Keys \ {k} : Left(j)
    BY <1>2, <1>3, <2>1 DEF StoreInv, StoreTypeOK, CompleteAccepted, Left
  <2>3. Held(k)
    BY <1>0, <1>3, <2>1 DEF StoreInv, StoreTypeOK, CompleteAccepted, Held
  <2> QED
    BY <2>2, <2>3
<1>4. CASE ReportRejected(k, token, w)
  <2>1. \A j \in Keys : SameClaims(j)
    BY <1>0, <1>1, <1>4, RowsClaimNothing DEF ReportRejected
  <2> QED
    BY <1>2, <1>4, <2>1 DEF ReportRejected, Left
<1>5. CASE FailRetries(k, token, w, r.age)
  <2>1. \A j \in Keys : SameClaims(j)
    BY <1>0, <1>1, <1>5, RowsClaimNothing DEF FailRetries
  <2> QED
    BY <1>0, <1>2, <1>5, <2>1 DEF StoreInv, StoreTypeOK, FailRetries, Left
<1>6. CASE FailTerminal(k, token, w)
  <2>1. \A j \in Keys : SameClaims(j)
    BY <1>0, <1>1, <1>6, RowsClaimNothing DEF FailTerminal
  <2> QED
    BY <1>0, <1>2, <1>6, <2>1 DEF StoreInv, StoreTypeOK, FailTerminal, Left
<1> QED
  BY <1>3, <1>4, <1>5, <1>6 DEF CommitReport, Complete, Fail

\* Heartbeat.
LEMMA HeartbeatHolds ==
  ASSUME StoreInv, NEW k \in Keys, NEW token \in Int, NEW w \in Workers, NEW age \in Int,
         HeartbeatAccepted(k, token, w, age), token \notin ChaosIn(events[k])
  PROVE  \A j \in Keys : Left(j) \/ Held(j)
<1>1. "heartbeat" \in EventType \ {"claimed"} /\ NoWorker \in Workers \cup {NoWorker}
  BY DEF EventType
<1>2. \A j \in Keys : SameClaims(j)
  BY <1>1, RowsClaimNothing DEF HeartbeatAccepted
<1>3. \A j \in Keys : lease[j] \in Lease /\ lease[j].expires_in <= lease[j].expires_in
  BY DEF StoreInv, StoreTypeOK, Lease
<1>4. /\ lease'[k].fencing_token = lease[k].fencing_token /\ lease[k].fencing_token = token
      /\ \A j \in Keys \ {k} : lease'[j] = lease[j]
  BY <1>3 DEF StoreInv, StoreTypeOK, Lease, HeartbeatAccepted, LeaseLive
<1> QED
  BY <1>2, <1>3, <1>4 DEF HeartbeatAccepted, Left, Held

\* Claim.
LEMMA ClaimTakes ==
  ASSUME StoreInv, NEW k \in Keys, NEW w \in Workers, NEW age \in 0..MaxTxDelay, Claim(k, w, age)
  PROVE  /\ \A j \in Keys \ {k} : Left(j)
         /\ w # ChaosAgent => TakenByWorker(k)
         /\ w = ChaosAgent => TakenByAgent(k)
<1>1. /\ events \in [Keys -> Seq(Event)] /\ events[k] \in Seq(Event)
      /\ "claimed" \in EventType /\ w \in Workers \cup {NoWorker}
  BY DEF StoreInv, StoreTypeOK, EventType
<1>2. NextToken(k) \in Int
  BY <1>1, NextTokenFresh DEF StoreInv, KeyInv
<1> DEFINE new == appendEvent(events[k], "claimed", w, NextToken(k))
<1>3. Tokens(new) = Tokens(events[k]) \cup {NextToken(k)}
  BY <1>1, <1>2, AppendTokens DEF HasNumber
<1>4. /\ w # ChaosAgent => ChaosIn(new) = ChaosIn(events[k])
      /\ w = ChaosAgent => ChaosIn(new) = ChaosIn(events[k]) \cup {NextToken(k)}
  BY <1>1, <1>2, AppendChaos
<1>5. /\ events'[k] = new /\ \A j \in Keys \ {k} : events'[j] = events[j]
  BY <1>1 DEF Claim
<1> HIDE DEF new
<1>6. /\ lease'[k] = [worker_id |-> w, fencing_token |-> NextToken(k), expires_in |-> LeaseSeconds[w] - age]
      /\ status'[k] = "running"
      /\ \A j \in Keys \ {k} : lease'[j] = lease[j] /\ status'[j] = status[j] /\ result'[j] = result[j]
  BY DEF StoreInv, StoreTypeOK, Claim
<1>7. lease'[k].fencing_token = NextToken(k) /\ lease'[k].expires_in <= LeaseSeconds[w]
  BY <1>6, StoreAssumption
<1>8. \A j \in Keys : lease[j].expires_in <= lease[j].expires_in
  BY DEF StoreInv, StoreTypeOK, Lease
<1>9. \A j \in Keys \ {k} : Left(j)
  BY <1>5, <1>6, <1>8 DEF Left, SameClaims
<1>10. Taken(k)
  BY <1>3, <1>5, <1>6, <1>7 DEF Taken
<1> QED
  BY <1>3, <1>4, <1>5, <1>7, <1>9, <1>10 DEF TakenByWorker, TakenByAgent, SameClaims

-----------------------------------------------------------------------------
(* The inductive invariant.                                                *)

\* No worker and no heartbeat goroutine uses a token of the agent's.
RunsAreNotChaos == \A w \in Workers : run[w].pc # "idle" => run[w].token \notin ChaosIn(events[run[w].key])

BeatsAreNotChaos ==
  \A g \in beating : g.token \in Tokens(events[g.key]) /\ g.token \notin ChaosIn(events[g.key])

\* No report that found the lease is of the agent's token.
Chaotic(r) == ~(r.key \in Keys /\ r.token \in Tokens(events[r.key]) /\ r.token \notin ChaosIn(events[r.key]))

ReportsAreNotChaos == \A r \in open : r.owns => ~Chaotic(r)

\* The agent sleeps longer than the lease it abandoned lasts.
SleepsLonger ==
  agent.pc = "asleep" =>
    /\ agent.key \in Keys /\ agent.token \in ChaosIn(events[agent.key])
    /\ (HasLease(agent.key) /\ lease[agent.key].fencing_token = agent.token)
         => lease[agent.key].expires_in < agent.rest

NoGhost == \A k \in Keys : status[k] = "completed" => result[k] \notin ChaosIn(events[k])

GhostInv ==
  /\ OwnershipInv
  /\ agent \in Agent
  /\ RunsAreNotChaos
  /\ BeatsAreNotChaos
  /\ ReportsAreNotChaos
  /\ SleepsLonger
  /\ NoGhost

\* The next token is none that was logged.
LEMMA NextIsNew ==
  ASSUME StoreInv, NEW k \in Keys
  PROVE  NextToken(k) \notin Tokens(events[k]) /\ NextToken(k) \notin ChaosIn(events[k]) /\ NextToken(k) \in Int
<1>1. NextToken(k) \in Int /\ \A n \in Tokens(events[k]) : n < NextToken(k)
  BY NextTokenFresh DEF StoreInv, StoreTypeOK, KeyInv
<1> QED
  BY <1>1, ChaosTokensLogged

\* What a step does to the rows of one execution.
Goes(k) == Left(k) \/ Held(k) \/ TakenByWorker(k) \/ TakenByAgent(k)

\* A report that begins in this step is not of the agent's token, or not the owner's.
NoNewChaos == \A r \in open' : r.owns => ~Chaotic(r)

\* Who holds a token keeps it, or gives it up.
LEMMA HoldersKeep ==
  ASSUME OwnershipInv, RunsAreNotChaos, BeatsAreNotChaos, \A k \in Keys : Goes(k),
         NoNewRun, beating' \subseteq beating, NoNewChaos
  PROVE  RunsAreNotChaos' /\ BeatsAreNotChaos' /\ ReportsAreNotChaos'
<1>1. ASSUME NEW k \in Keys, NEW t \in Tokens(events[k]), t \notin ChaosIn(events[k])
      PROVE  t \in Tokens(events'[k]) /\ t \notin ChaosIn(events'[k])
  <2>1. t # NextToken(k)
    BY NextIsNew, OwnershipInvParts
  <2> QED
    BY <1>1, <2>1 DEF Goes, Left, Held, TakenByWorker, TakenByAgent, Taken, SameClaims
<1>2. RunsAreNotChaos'
  BY <1>1, OwnershipInvParts DEF RunsAreNotChaos, RunTokens, NoNewRun
<1>3. \A g \in beating : g.key \in Keys
  BY OwnershipInvParts DEF RestTypeOK, Goroutine
<1>4. BeatsAreNotChaos'
  BY <1>1, <1>3 DEF BeatsAreNotChaos
<1>5. ReportsAreNotChaos'
  BY <1>1 DEF NoNewChaos, Chaotic, ReportsAreNotChaos
<1> QED
  BY <1>2, <1>4, <1>5

\* A worker takes up a claim of its own, with its goroutine.
LEMMA HoldersTake ==
  ASSUME OwnershipInv, RunsAreNotChaos, BeatsAreNotChaos,
         NEW w \in Workers, NEW k \in Keys, NEW pc \in {"working", "fail"},
         \A j \in Keys \ {k} : Left(j), TakenByWorker(k),
         run' = [run EXCEPT ![w] = [pc |-> pc, key |-> k, token |-> NextToken(k), lost |-> FALSE]],
         beating' \subseteq beating \cup {[worker |-> w, key |-> k, token |-> NextToken(k)]},
         ReportsAreNotChaos, open' = open
  PROVE  RunsAreNotChaos' /\ BeatsAreNotChaos' /\ ReportsAreNotChaos'
<1>1. ASSUME NEW j \in Keys, NEW t \in Tokens(events[j]), t \notin ChaosIn(events[j])
      PROVE  t \in Tokens(events'[j]) /\ t \notin ChaosIn(events'[j])
  BY <1>1 DEF Left, TakenByWorker, SameClaims
<1>2. NextToken(k) \in Tokens(events'[k]) /\ NextToken(k) \notin ChaosIn(events'[k])
  BY NextIsNew, OwnershipInvParts DEF TakenByWorker, Taken, SameClaims
<1>3. RunsAreNotChaos'
  <2> SUFFICES ASSUME NEW v \in Workers, run'[v].pc # "idle"
               PROVE  run'[v].token \notin ChaosIn(events'[run'[v].key])
    BY DEF RunsAreNotChaos
  <2>1. CASE v = w
    BY <1>2, <2>1, OwnershipInvParts DEF RestTypeOK
  <2>2. CASE v # w
    <3>1. run'[v] = run[v]
      BY <2>2, OwnershipInvParts DEF RestTypeOK
    <3> QED
      BY <1>1, <3>1, OwnershipInvParts DEF RunsAreNotChaos, RunTokens
  <2> QED
    BY <2>1, <2>2
<1>4. \A g \in beating : g.key \in Keys
  BY OwnershipInvParts DEF RestTypeOK, Goroutine
<1>5. BeatsAreNotChaos'
  BY <1>1, <1>2, <1>4 DEF BeatsAreNotChaos
<1>6. ReportsAreNotChaos'
  BY <1>1 DEF Chaotic, ReportsAreNotChaos
<1> QED
  BY <1>3, <1>5, <1>6

\* Nothing that another process does lengthens the agent's lease or completes with its token.
LEMMA OthersKeepSleep ==
  ASSUME OwnershipInv, StoreInv', SleepsLonger, NoGhost, agent' = agent \/ agent'.pc # "asleep",
         \A k \in Keys : Left(k) \/ Held(k) \/ TakenByWorker(k) \/ (TakenByAgent(k) /\ agent'.pc # "asleep"),
         agent \in Agent
  PROVE  SleepsLonger' /\ NoGhost'
<1>1. NoGhost'
  BY DEF NoGhost, Left, Held, TakenByWorker, TakenByAgent, Taken, SameClaims
<1>2. ASSUME agent' = agent, agent.pc = "asleep"
      PROVE  SleepsLonger'
  <2>0. PICK k \in Keys : k = agent.key
    BY <1>2 DEF SleepsLonger
  <2>1. agent.token \in ChaosIn(events[k]) /\ agent.token \in Tokens(events[k])
    BY <1>2, <2>0, ChaosTokensLogged DEF SleepsLonger
  <2>2. agent.token \in ChaosIn(events'[k])
    BY <1>2, <2>1 DEF Left, Held, TakenByWorker, SameClaims
  <2>3. /\ lease[k].expires_in \in Int /\ lease'[k].expires_in \in Int /\ agent.rest \in Int
        /\ lease'[k] = NoLease => lease'[k].worker_id = NoWorker
    <3>1. lease[k] \in Lease /\ lease'[k] \in Lease
      BY OwnershipInvParts DEF StoreInv, StoreTypeOK
    <3> QED
      BY <3>1 DEF Lease, Agent, NoLease
  <2>4. ASSUME lease'[k].worker_id # NoWorker, lease'[k].fencing_token = agent.token
        PROVE  lease'[k].expires_in < agent.rest
    <3>1. CASE Left(k)
      <4>1. /\ lease'[k].worker_id = lease[k].worker_id /\ lease'[k].fencing_token = lease[k].fencing_token
            /\ lease'[k].expires_in <= lease[k].expires_in
        BY <2>3, <2>4, <3>1 DEF Left, HasLease
      <4>2. lease[k].expires_in < agent.rest
        BY <1>2, <2>0, <2>4, <4>1 DEF HasLease, SleepsLonger
      <4> QED
        BY <2>3, <4>1, <4>2
    <3>2. CASE Held(k)
      BY <2>1, <2>3, <2>4, <3>2 DEF Held, HasLease
    <3>3. CASE TakenByWorker(k)
      BY <2>1, <2>4, <3>3, NextIsNew, OwnershipInvParts DEF TakenByWorker, Taken
    <3> QED
      BY <1>2, <2>1, <3>1, <3>2, <3>3
  <2> QED
    BY <1>2, <2>0, <2>1, <2>2, <2>4 DEF SleepsLonger, HasLease
<1>3. ASSUME agent'.pc # "asleep" PROVE SleepsLonger'
  BY <1>3 DEF SleepsLonger
<1>4. agent'.pc # "asleep" \/ (agent' = agent /\ agent.pc = "asleep")
  OBVIOUS
<1> QED
  BY <1>1, <1>2, <1>3, <1>4

-----------------------------------------------------------------------------
(* The processes beside the agent.                                         *)

\* A step in which no worker takes up a claim.
LEMMA QuietStep ==
  ASSUME GhostInv, OwnershipInv', \A k \in Keys : Left(k) \/ Held(k) \/ TakenByWorker(k),
         NoNewRun, beating' \subseteq beating, NoNewChaos, agent' = agent
  PROVE  GhostInv'
<1>1. \A k \in Keys : Goes(k)
  BY DEF Goes
<1>2. RunsAreNotChaos' /\ BeatsAreNotChaos' /\ ReportsAreNotChaos'
  BY <1>1, HoldersKeep DEF GhostInv
<1>3. SleepsLonger' /\ NoGhost'
  BY OthersKeepSleep, OwnershipInvPartsPrime DEF GhostInv
<1> QED
  BY <1>2, <1>3 DEF GhostInv

\* Reports of others go on, or are rolled back.
LEMMA NoneBegins ==
  ASSUME GhostInv, open' \subseteq open
  PROVE  NoNewChaos
BY DEF GhostInv, ReportsAreNotChaos, NoNewChaos

\* The server, when completions cannot be posted: nobody has the NULL worker's name.
LEMMA ServerKeepsGhost ==
  ASSUME ~allowTestEnds, GhostInv, NEW k \in Keys, ServerStep(k), UNCHANGED <<executorVars, pass, agent>>
  PROVE  GhostInv'
<1>1. OwnershipInv' /\ StoreInv /\ open \subseteq Report
  BY ServerStepPreserves, OwnershipInvParts DEF GhostInv, RestTypeOK
<1>2. NoNewRun /\ beating' \subseteq beating
  BY DEF NoNewRun, executorVars
<1>3. CASE CallNew(k) \/ CallDuplicate(k)
  <2>1. \A j \in Keys : Left(j)
    BY <1>1, <1>3, SubmitLeaves DEF CallNew, CallDuplicate
  <2>2. NoNewChaos
    BY <1>3, NoneBegins DEF CallNew, CallDuplicate
  <2> QED
    BY <1>1, <1>2, <2>1, <2>2, QuietStep
<1>4. ASSUME NEW r \in Posts, EndForced(r)
      PROVE  GhostInv'
  <2>1. r \in open /\ open' \subseteq open
    BY <1>4 DEF Posts, EndForced, CommitReport
  <2>2. NoNewChaos
    BY <2>1, NoneBegins
  <2>3. CASE CommitReport(r)
    <3>1. \A j \in Keys : Left(j) \/ Held(j)
      BY <1>1, <2>1, <2>3, ReportLeaves DEF GhostInv, ReportsAreNotChaos, Chaotic
    <3> QED
      BY <1>1, <1>2, <2>2, <3>1, QuietStep
  <2>4. CASE UNCHANGED storeVars
    <3>1. \A j \in Keys : Left(j)
      BY <1>1, <2>4, IdleLeaves
    <3> QED
      BY <1>1, <1>2, <2>2, <3>1, QuietStep
  <2> QED
    BY <1>4, <2>3, <2>4 DEF EndForced
<1> QED
  BY <1>3, <1>4 DEF ServerStep, ForceComplete

\* The workers.
LEMMA ExecutorKeepsGhost ==
  ASSUME GhostInv, NEW w \in Workers \ {ChaosAgent}, ExecutorStep(w), UNCHANGED <<pass, serverVars, agent>>
  PROVE  GhostInv'
<1>1. OwnershipInv' /\ OwnershipInv /\ StoreInv /\ RestTypeOK /\ RunTokens /\ w \in Workers
  BY ExecutorStepPreserves, OwnershipInvParts DEF GhostInv
<1>2. ASSUME NEW k \in Keys, NEW age \in 0..MaxTxDelay, Claim(k, w, age), NEW pc \in {"working", "fail"},
             run' = [run EXCEPT ![w] = [pc |-> pc, key |-> k, token |-> NextToken(k), lost |-> FALSE]],
             beating' \subseteq beating \cup {[worker |-> w, key |-> k, token |-> NextToken(k)]}, open' = open
      PROVE  GhostInv'
  <2>1. (\A j \in Keys \ {k} : Left(j)) /\ TakenByWorker(k)
    BY <1>1, <1>2, ClaimTakes
  <2>2. RunsAreNotChaos' /\ BeatsAreNotChaos' /\ ReportsAreNotChaos'
    BY <1>1, <1>2, <2>1, HoldersTake DEF GhostInv
  <2>3. SleepsLonger' /\ NoGhost'
    BY <1>1, <2>1, OthersKeepSleep, OwnershipInvPartsPrime DEF GhostInv
  <2> QED
    BY <1>1, <2>2, <2>3 DEF GhostInv
<1>3. ASSUME NEW k \in Keys, NEW age \in 0..MaxTxDelay,
             StartHandled(w, k, age) \/ StartUnhandled(w, k, age)
      PROVE  GhostInv'
  BY <1>2, <1>3 DEF StartHandled, StartUnhandled
<1>4. ASSUME NEW k \in Keys, NEW age \in 0..MaxTxDelay, ClaimReplyLost(w, k, age)
      PROVE  GhostInv'
  <2>1. (\A j \in Keys \ {k} : Left(j)) /\ TakenByWorker(k)
    BY <1>1, <1>4, ClaimTakes DEF ClaimReplyLost
  <2>2. NoNewRun /\ beating' \subseteq beating /\ NoNewChaos
    BY <1>4, NoneBegins DEF ClaimReplyLost, NoNewRun, executorVars
  <2> QED
    BY <1>1, <2>1, <2>2, QuietStep
<1>5. ASSUME NEW age \in 0..MaxTxDelay, StartReport(w, age)
      PROVE  GhostInv'
  <2>1. /\ run[w].pc \in {"complete", "fail"} /\ run' = [run EXCEPT ![w].pc = "reporting"]
        /\ UNCHANGED <<storeVars, beating>>
        /\ open' = open \cup {[kind |-> run[w].pc, key |-> run[w].key, token |-> run[w].token, worker_id |-> w,
                               owns |-> LeaseLive(run[w].key, run[w].token, age), age |-> age]}
    BY <1>5 DEF StartReport, BeginReport
  <2>2. run[w].key \in Keys /\ run[w].token \in Tokens(events[run[w].key])
    BY <1>1, <2>1 DEF RunTokens
  <2>3. run[w].token \notin ChaosIn(events[run[w].key])
    BY <1>1, <2>1 DEF GhostInv, RunsAreNotChaos
  <2>4. NoNewChaos
    BY <2>1, <2>2, <2>3 DEF GhostInv, ReportsAreNotChaos, NoNewChaos, Chaotic
  <2>5. NoNewRun /\ \A j \in Keys : Left(j)
    BY <1>1, <2>1, SameRun, IdleLeaves
  <2> QED
    BY <1>1, <2>1, <2>4, <2>5, QuietStep
<1>6. CASE EndReport(w)
  <2>1. PICK r \in open : CommitReport(r)
    BY <1>6 DEF EndReport
  <2>2. \A j \in Keys : Left(j) \/ Held(j)
    BY <1>1, <2>1, ReportLeaves DEF GhostInv, ReportsAreNotChaos, Chaotic, RestTypeOK
  <2>3. NoNewChaos
    BY <2>1, NoneBegins DEF CommitReport
  <2>4. NoNewRun /\ beating' \subseteq beating
    BY <1>1, <1>6, GoIdle DEF EndReport
  <2> QED
    BY <1>1, <2>2, <2>3, <2>4, QuietStep
<1>7. CASE HandlerStep(w) \/ ReportLost(w) \/ Crash(w)
  <2>1. \A j \in Keys : Left(j)
    BY <1>1, <1>7, IdleLeaves DEF HandlerStep, HandlerSucceeds, HandlerFails, HandlerAborts, ReportLost, Crash
  <2>2. NoNewRun
    BY <1>1, <1>7, GoIdle, SameRun DEF HandlerStep, HandlerSucceeds, HandlerFails, HandlerAborts, ReportLost, Crash
  <2>3. beating' \subseteq beating /\ open' \subseteq open
    BY <1>7 DEF HandlerStep, HandlerSucceeds, HandlerFails, HandlerAborts, ReportLost, Crash, RollBackReports
  <2>4. NoNewChaos
    BY <2>3, NoneBegins
  <2> QED
    BY <1>1, <2>1, <2>2, <2>3, <2>4, QuietStep
<1> QED
  BY <1>3, <1>4, <1>5, <1>6, <1>7 DEF ExecutorStep, RuntimeStep

\* The heartbeats.
LEMMA GoroutineKeepsGhost ==
  ASSUME GhostInv, NEW g \in beating, GoroutineStep(g), UNCHANGED <<pass, serverVars, agent>>
  PROVE  GhostInv'
<1>1. OwnershipInv' /\ OwnershipInv /\ StoreInv /\ RestTypeOK
  BY GoroutineStepPreserves, OwnershipInvParts DEF GhostInv
<1>2. g.worker \in Workers /\ g.key \in Keys /\ g.token \in Int /\ g.token \notin ChaosIn(events[g.key])
  BY <1>1 DEF RestTypeOK, Goroutine, GhostInv, BeatsAreNotChaos
<1>0. open' = open /\ NoNewChaos
  BY NoneBegins DEF GoroutineStep, BeatAccepted, BeatRejected, BeatStops
<1>3. ASSUME NEW age \in 0..MaxTxDelay, BeatAccepted(g, age)
      PROVE  GhostInv'
  <2>1. \A j \in Keys : Left(j) \/ Held(j)
    BY <1>1, <1>2, <1>3, AgeIsInt, HeartbeatHolds DEF BeatAccepted
  <2>2. NoNewRun /\ beating' \subseteq beating
    BY <1>3 DEF BeatAccepted, NoNewRun, executorVars
  <2> QED
    BY <1>0, <1>1, <2>1, <2>2, QuietStep
<1>4. ASSUME NEW age \in 0..MaxTxDelay, BeatRejected(g, age)
      PROVE  GhostInv'
  <2>1. \A j \in Keys : Left(j)
    BY <1>1, <1>4, IdleLeaves DEF BeatRejected, HeartbeatRejected
  <2>2. NoNewRun
    <3>1. CASE run' = run
      BY <3>1 DEF NoNewRun
    <3>2. CASE run' = [run EXCEPT ![g.worker].lost = TRUE]
      BY <1>1, <1>2, <3>2, SameRun
    <3> QED
      BY <1>4, <3>1, <3>2 DEF BeatRejected
  <2>3. beating' \subseteq beating
    BY <1>4 DEF BeatRejected
  <2> QED
    BY <1>0, <1>1, <2>1, <2>2, <2>3, QuietStep
<1>5. CASE BeatStops(g)
  <2>1. (\A j \in Keys : Left(j)) /\ NoNewRun /\ beating' \subseteq beating
    BY <1>1, <1>5, IdleLeaves DEF BeatStops, NoNewRun
  <2> QED
    BY <1>0, <1>1, <2>1, QuietStep
<1> QED
  BY <1>3, <1>4, <1>5 DEF GoroutineStep

\* The schedulers, however their passes overlap.
LEMMA SchedulerKeepsGhost ==
  ASSUME GhostInv, NEW s \in Schedulers, SchedulerStep(s), UNCHANGED <<open, executorVars, serverVars, agent>>
  PROVE  GhostInv'
<1>1. OwnershipInv' /\ StoreInv /\ pass[s].stale \subseteq [key : Keys, attempts : Nat] /\ pass[s].due \subseteq Keys
  BY SchedulerStepPreserves, OwnershipInvParts DEF GhostInv, RestTypeOK, Pass
<1>2. ASSUME NEW x \in pass[s].stale, ExpireOne(s, x)
      PROVE  \A j \in Keys : Left(j)
  BY <1>1, <1>2, PassLeaves DEF ExpireOne
<1>3. ASSUME NEW k \in pass[s].due, PromoteOne(s, k)
      PROVE  \A j \in Keys : Left(j)
  BY <1>1, <1>3, PassLeaves DEF PromoteOne
<1>4. ASSUME UNCHANGED storeVars
      PROVE  \A j \in Keys : Left(j)
  BY <1>1, <1>4, IdleLeaves
<1>5. \A j \in Keys : Left(j)
  BY <1>2, <1>3, <1>4 DEF SchedulerStep, SelectStale, SelectDue, EndPass, AbandonPass
<1>6. NoNewRun /\ beating' \subseteq beating /\ NoNewChaos
  BY NoneBegins DEF NoNewRun, executorVars
<1> QED
  BY <1>1, <1>5, <1>6, QuietStep

-----------------------------------------------------------------------------
(* The agent.                                                              *)

\* OwnershipInv, when nothing but the tables and the open reports change.
LEMMA TablesKeepOwnership ==
  ASSUME OwnershipInv, StoreInv', TokensKept, open' \subseteq Report, UNCHANGED <<executorVars, pass, serverVars>>
  PROVE  OwnershipInv'
<1>1. RestTypeOK' /\ NoNewRun
  BY OwnershipInvParts DEF RestTypeOK, NoNewRun, executorVars, serverVars
<1> QED
  BY <1>1, OwnershipInvParts, OwnershipInvPartsPrime, NoNewRunPreserves

\* The same, with a step of the agent that leaves it awake.
LEMMA AgentAwake ==
  ASSUME GhostInv, StoreInv', TokensKept, open' \subseteq Report, NoNewChaos,
         UNCHANGED <<executorVars, pass, serverVars>>,
         agent' \in Agent, agent'.pc # "asleep", \A k \in Keys : Left(k) \/ Held(k) \/ TakenByAgent(k)
  PROVE  GhostInv'
<1>1. OwnershipInv /\ OwnershipInv'
  BY TablesKeepOwnership DEF GhostInv
<1>2. NoNewRun /\ beating' \subseteq beating
  BY DEF NoNewRun, executorVars
<1>3. RunsAreNotChaos' /\ BeatsAreNotChaos' /\ ReportsAreNotChaos'
  BY <1>1, <1>2, HoldersKeep DEF GhostInv, Goes
<1>4. SleepsLonger' /\ NoGhost'
  BY <1>1, OthersKeepSleep DEF GhostInv
<1> QED
  BY <1>1, <1>3, <1>4 DEF GhostInv

\* The claim of the chaos cycle: its lease is shorter than the sleep.
LEMMA ChaosClaimKeepsGhost ==
  ASSUME GhostInv, NEW k \in Keys, NEW age \in 0..MaxTxDelay, chaosClaim(k, age),
         UNCHANGED <<executorVars, pass, serverVars>>
  PROVE  GhostInv'
<1>1. /\ OwnershipInv /\ StoreInv /\ agent \in Agent /\ ChaosAgent \in Workers /\ age \in Int
      /\ open' = open /\ open' \subseteq Report
  BY OwnershipInvParts, AgentAssumption, AgeIsInt DEF GhostInv, chaosClaim, RestTypeOK
<1>2. StoreInv' /\ OwnershipInv'
  BY <1>1, ClaimPreserves, TablesKeepOwnership DEF chaosClaim
<1>3. (\A j \in Keys \ {k} : Left(j)) /\ TakenByAgent(k)
  BY <1>1, ClaimTakes DEF chaosClaim
<1>4. NextToken(k) \in Int
  BY <1>1, NextIsNew
<1>5. /\ agent' \in Agent /\ agent'.pc = "asleep" /\ agent'.key = k /\ agent'.token = NextToken(k)
      /\ agent'.rest = ChaosSleep
  <2>1. agent' = [agent EXCEPT !.pc = "asleep", !.key = k, !.token = NextToken(k), !.rest = ChaosSleep]
    BY DEF chaosClaim
  <2>2. ChaosSleep \in Int
    BY AgentAssumption
  <2>3. agent' = [pc |-> "asleep", round |-> agent.round, key |-> k, token |-> NextToken(k), rest |-> ChaosSleep]
    BY <1>1, <2>1 DEF Agent
  <2>4. agent.round \in 0..MaxRounds
    BY <1>1 DEF Agent
  <2> QED
    BY <1>4, <2>2, <2>3, <2>4 DEF Agent
<1>6. NoNewRun /\ beating' \subseteq beating /\ NoNewChaos
  BY <1>1, NoneBegins DEF NoNewRun, executorVars
<1>7. RunsAreNotChaos' /\ BeatsAreNotChaos' /\ ReportsAreNotChaos'
  BY <1>1, <1>3, <1>6, HoldersKeep DEF GhostInv, Goes
<1>8. lease'[k].expires_in < ChaosSleep
  <2>1. lease'[k].expires_in \in Int /\ LeaseSeconds[ChaosAgent] \in Int /\ ChaosSleep \in Int
    BY <1>1, <1>2, StoreAssumption, AgentAssumption DEF StoreInv, StoreTypeOK, Lease
  <2> QED
    BY <1>3, <2>1, AgentAssumption DEF TakenByAgent
<1>9. SleepsLonger'
  BY <1>3, <1>5, <1>8 DEF SleepsLonger, TakenByAgent
<1>10. NoGhost'
  BY <1>3 DEF GhostInv, NoGhost, Left, TakenByAgent, Taken, SameClaims
<1> QED
  BY <1>2, <1>5, <1>7, <1>9, <1>10 DEF GhostInv

\* The ghost completion finds no live lease of its token: it will be rejected.
LEMMA GhostIsRejected ==
  ASSUME GhostInv, NEW age \in 0..MaxTxDelay, chaosCompletes(age)
  PROVE  /\ agent.key \in Keys /\ agent.token \in Int
         /\ ~LeaseLive(agent.key, agent.token, age)
<1>1. /\ agent.key \in Keys /\ agent.token \in Int /\ agent.rest \in Int /\ age \in Int
      /\ lease[agent.key] \in Lease
  BY OwnershipInvParts, AgeIsInt DEF GhostInv, SleepsLonger, chaosCompletes, Agent, StoreInv, StoreTypeOK
<1> QED
  BY <1>1 DEF LeaseLive, HasLease, GhostInv, SleepsLonger, chaosCompletes, Lease

\* The end of a cycle, with a claim or without.
LEMMA AgentRests ==
  ASSUME agent \in Agent,
         \/ agent' = [agent EXCEPT !.pc = "pause"]
         \/ ToPause
  PROVE  agent' \in Agent /\ agent'.pc # "asleep"
<1>1. CASE agent' = [agent EXCEPT !.pc = "pause"]
  BY <1>1 DEF Agent
<1>2. CASE ToPause
  <2>1. agent' = [pc |-> "pause", round |-> agent.round, key |-> NoKey, token |-> 0, rest |-> 0]
    BY <1>2 DEF ToPause, Agent
  <2>2. agent.round \in 0..MaxRounds
    BY DEF Agent
  <2> QED
    BY <2>1, <2>2 DEF Agent
<1> QED
  BY <1>1, <1>2

\* Every step of the agent.
LEMMA AgentKeepsGhost ==
  ASSUME GhostInv, AgentStep, UNCHANGED <<executorVars, pass, serverVars>>
  PROVE  GhostInv'
<1>1. /\ StoreInv /\ agent \in Agent /\ ChaosAgent \in Workers /\ ChaosAgent \in Workers \cup {NoWorker}
      /\ open \subseteq Report
  BY OwnershipInvParts, AgentAssumption DEF GhostInv, RestTypeOK
<1>2. AfterSubmit \in {"chaos", "pause"}
  BY DEF AfterSubmit
<1>3. ASSUME NEW k \in Keys, submitToolCall(k) PROVE GhostInv'
  <2>1. StoreInv' /\ TokensKept /\ \A j \in Keys : Left(j)
    BY <1>1, <1>3, SubmitNewPreserves, SubmitDuplicatePreserves, SubmitLeaves DEF submitToolCall
  <2>2. agent' \in Agent /\ agent'.pc # "asleep"
    BY <1>1, <1>2, <1>3 DEF submitToolCall, Agent
  <2>3. open' \subseteq Report /\ NoNewChaos
    BY <1>1, <1>3, NoneBegins DEF submitToolCall
  <2> QED
    BY <2>1, <2>2, <2>3, AgentAwake
<1>4. ASSUME NEW k \in Keys, NEW age \in 0..MaxTxDelay, chaosReplyLost(k, age) PROVE GhostInv'
  <2>1. StoreInv' /\ TokensKept
    BY <1>1, <1>4, AgeIsInt, ClaimPreserves DEF chaosReplyLost
  <2>2. \A j \in Keys : Left(j) \/ TakenByAgent(j)
    BY <1>1, <1>4, ClaimTakes DEF chaosReplyLost
  <2>3. agent' \in Agent /\ agent'.pc # "asleep"
    BY <1>1, <1>4 DEF chaosReplyLost, Agent
  <2>4. open' \subseteq Report /\ NoNewChaos
    BY <1>1, <1>4, NoneBegins DEF chaosReplyLost
  <2> QED
    BY <2>1, <2>2, <2>3, <2>4, AgentAwake
<1>5. ASSUME NEW age \in 0..MaxTxDelay, chaosCompletes(age) PROVE GhostInv'
  <2>1. /\ agent.key \in Keys /\ agent.token \in Int
        /\ ~LeaseLive(agent.key, agent.token, age)
    BY <1>5, GhostIsRejected
  <2>2. StoreInv' /\ TokensKept /\ open' \subseteq Report
    BY <1>1, <1>5, <2>1, BeginReportPreserves DEF chaosCompletes
  <2>3. \A j \in Keys : Left(j)
    BY <1>1, <1>5, IdleLeaves DEF chaosCompletes, BeginReport
  <2>4. agent' \in Agent /\ agent'.pc # "asleep"
    <3>1. agent' = [agent EXCEPT !.pc = "completing", !.rest = 0]
      BY <1>5 DEF chaosCompletes
    <3>2. agent' = [pc |-> "completing", round |-> agent.round, key |-> agent.key, token |-> agent.token, rest |-> 0]
      BY <1>1, <3>1 DEF Agent
    <3>3. agent.round \in 0..MaxRounds /\ agent.key \in Keys \cup {NoKey} /\ agent.token \in Int
      BY <1>1 DEF Agent
    <3> QED
      BY <3>2, <3>3 DEF Agent
  <2>5. NoNewChaos
    BY <1>5, <2>1 DEF chaosCompletes, BeginReport, GhostInv, ReportsAreNotChaos, NoNewChaos, Chaotic
  <2> QED
    BY <2>2, <2>3, <2>4, <2>5, AgentAwake
<1>6. CASE chaosCompleted
  <2>1. PICK r \in open : CommitReport(r)
    BY <1>6 DEF chaosCompleted
  <2>2. StoreInv' /\ TokensKept /\ open' \subseteq Report
    BY <1>1, <2>1, CommitReportPreserves
  <2>3. \A j \in Keys : Left(j) \/ Held(j)
    BY <1>1, <2>1, ReportLeaves DEF GhostInv, ReportsAreNotChaos, Chaotic
  <2>4. NoNewChaos
    BY <2>1, NoneBegins DEF CommitReport
  <2>5. agent' \in Agent /\ agent'.pc # "asleep"
    BY <1>1, <1>6, AgentRests DEF chaosCompleted
  <2> QED
    BY <2>2, <2>3, <2>4, <2>5, AgentAwake
<1>7. CASE submitFails \/ chaosFindsNothing \/ chaosLost \/ nextRound \/ restart
  <2>1. UNCHANGED storeVars /\ open' \subseteq open
    BY <1>7 DEF submitFails, chaosFindsNothing, chaosLost, nextRound, restart, RollBackReports
  <2>2. StoreInv' /\ TokensKept /\ \A j \in Keys : Left(j)
    BY <1>1, <2>1, StoreStutter, IdleLeaves
  <2>3. agent' \in Agent /\ agent'.pc # "asleep"
    <3>1. CASE submitFails
      BY <1>1, <1>2, <3>1 DEF submitFails, Agent
    <3>2. CASE chaosFindsNothing \/ chaosLost
      BY <1>1, <3>2, AgentRests DEF chaosFindsNothing, chaosLost
    <3>3. CASE nextRound
      <4>1. agent.round + 1 \in 0..MaxRounds
        BY <1>1, <3>3, AgentAssumption DEF nextRound, Agent
      <4> QED
        BY <1>1, <3>3, <4>1 DEF nextRound, Agent
    <3>4. CASE restart
      BY <3>4, AgentAssumption DEF restart, Starting, Agent
    <3> QED
      BY <1>7, <3>1, <3>2, <3>3, <3>4
  <2>4. open' \subseteq Report /\ NoNewChaos
    BY <1>1, <2>1, NoneBegins
  <2> QED
    BY <2>2, <2>3, <2>4, AgentAwake
<1> QED
  BY <1>3, <1>4, <1>5, <1>6, <1>7, ChaosClaimKeepsGhost DEF AgentStep

\* The clock takes from the abandoned lease what it takes from the sleep.
LEMMA TickKeepsGhost ==
  ASSUME GhostInv, TickAndSleep, UNCHANGED <<executorVars, pass, serverVars>>
  PROVE  GhostInv'
<1>1. OwnershipInv /\ StoreInv /\ agent \in Agent /\ agent.rest \in Int /\ MaxTxDelay \in Nat
  BY OwnershipInvParts, StoreAssumption DEF GhostInv, Agent
<1>2. StoreInv' /\ OwnershipInv' /\ \A j \in Keys : Left(j)
  BY <1>1, TimePassesPreserves, OwnershipInvPartsPrime, IdleLeaves DEF TickAndSleep, TimePasses
<1>3. NoNewRun /\ beating' \subseteq beating /\ NoNewChaos
  <2>1. ASSUME NEW r \in open, [r EXCEPT !.age = @ + 1].owns
        PROVE  ~Chaotic([r EXCEPT !.age = @ + 1])
    <3>1. r \in Report /\ (r.owns => ~Chaotic(r))
      BY <1>1, OwnershipInvParts DEF RestTypeOK, GhostInv, ReportsAreNotChaos
    <3>2. /\ [r EXCEPT !.age = @ + 1].owns = r.owns
          /\ [r EXCEPT !.age = @ + 1].key = r.key /\ [r EXCEPT !.age = @ + 1].token = r.token
      BY <3>1 DEF Report
    <3> QED
      BY <2>1, <3>1, <3>2 DEF Chaotic
  <2>2. NoNewChaos
    BY <2>1 DEF TickAndSleep, TimePasses, NoNewChaos
  <2> QED
    BY <2>2 DEF NoNewRun, executorVars
<1>4. RunsAreNotChaos' /\ BeatsAreNotChaos' /\ ReportsAreNotChaos'
  BY <1>1, <1>2, <1>3, HoldersKeep DEF GhostInv, Goes
<1>5. /\ agent' \in Agent /\ agent'.pc = agent.pc /\ agent'.key = agent.key /\ agent'.token = agent.token
      /\ agent.pc = "asleep" =>
           agent'.rest = IF agent.rest > -MaxTxDelay THEN agent.rest - 1 ELSE agent.rest
  BY <1>1 DEF TickAndSleep, Agent
<1>6. NoGhost'
  BY <1>2 DEF GhostInv, NoGhost, Left, SameClaims
<1>7. SleepsLonger'
  <2> SUFFICES ASSUME agent.pc = "asleep" PROVE SleepsLonger'
    BY <1>5 DEF SleepsLonger
  <2>1. PICK k \in Keys : k = agent.key
    BY DEF GhostInv, SleepsLonger
  <2>2. agent.token \in ChaosIn(events'[k])
    BY <1>2, <2>1 DEF GhostInv, SleepsLonger, Left, SameClaims
  <2>3. ASSUME lease'[k].worker_id # NoWorker, lease'[k].fencing_token = agent.token
        PROVE  lease'[k].expires_in < agent'.rest
    <3>1. lease[k] \in Lease /\ lease[k].expires_in \in Int
      BY <1>1 DEF StoreInv, StoreTypeOK, Lease
    <3>2. lease'[k] = IF HasLease(k) /\ lease[k].expires_in >= -MaxTxDelay
                      THEN [lease[k] EXCEPT !.expires_in = @ - 1] ELSE lease[k]
      BY DEF TickAndSleep, TimePasses, Tick
    <3>3. /\ lease'[k].worker_id = lease[k].worker_id /\ lease'[k].fencing_token = lease[k].fencing_token
          /\ HasLease(k) => lease'[k].expires_in = IF lease[k].expires_in >= -MaxTxDelay
                                                   THEN lease[k].expires_in - 1 ELSE lease[k].expires_in
      BY <3>1, <3>2 DEF Lease
    <3>4. HasLease(k) /\ lease[k].expires_in < agent.rest
      BY <2>1, <2>3, <3>3 DEF HasLease, GhostInv, SleepsLonger
    <3> QED
      BY <1>1, <1>5, <3>1, <3>3, <3>4
  <2> QED
    BY <1>5, <2>1, <2>2, <2>3 DEF SleepsLonger, HasLease
<1> QED
  BY <1>2, <1>4, <1>5, <1>6, <1>7 DEF GhostInv

-----------------------------------------------------------------------------
(* The theorem.                                                            *)

\* Nobody has claimed, and the agent is at its first round.
LEMMA GhostInit == AgentInit => GhostInv
<1> SUFFICES ASSUME AgentInit PROVE GhostInv
  OBVIOUS
<1>1. OwnershipInv
  BY OwnershipInit DEF AgentInit
<1>2. agent \in Agent /\ SleepsLonger
  BY AgentAssumption DEF AgentInit, Starting, Agent, SleepsLonger
<1>3. RunsAreNotChaos /\ BeatsAreNotChaos /\ ReportsAreNotChaos /\ NoGhost
  BY DEF AgentInit, Init, ExecutorInit, ReportsInit, StoreInit, Idle, RunsAreNotChaos, BeatsAreNotChaos,
     ReportsAreNotChaos, NoGhost
<1> QED
  BY <1>1, <1>2, <1>3 DEF GhostInv

\* Every step, where the endpoint is not served.
LEMMA GhostStep ==
  ASSUME ~allowTestEnds, GhostInv, [AgentNext]_agentVars
  PROVE  GhostInv'
<1>1. CASE UNCHANGED agentVars
  <2>1. /\ StoreInv' /\ TokensKept /\ (\A j \in Keys : Left(j)) /\ UNCHANGED <<executorVars, pass, serverVars>>
        /\ open' = open /\ open' \subseteq Report
    BY <1>1, StoreStutter, IdleLeaves, OwnershipInvParts DEF agentVars, vars, GhostInv, RestTypeOK
  <2>2. OwnershipInv'
    BY <2>1, TablesKeepOwnership DEF GhostInv
  <2>3. NoNewRun /\ beating' \subseteq beating /\ agent' = agent /\ NoNewChaos
    BY <1>1, <2>1, NoneBegins DEF NoNewRun, executorVars, agentVars
  <2> QED
    BY <2>1, <2>2, <2>3, QuietStep
<1> QED
  BY <1>1, ServerKeepsGhost, ExecutorKeepsGhost, GoroutineKeepsGhost, SchedulerKeepsGhost, AgentKeepsGhost,
     TickKeepsGhost DEF AgentNext

\* While completions cannot be posted, no call ends with the ghost's result, for any
\* workers and schedulers, any delays, and any lease shorter than the sleep.
THEOREM GhostsAreRejected == AgentSpec => []GhostRejected
<1>1. (~allowTestEnds => GhostInv) /\ [AgentNext]_agentVars => (~allowTestEnds => GhostInv)'
  <2>1. [AgentNext]_agentVars => allowTestEnds' = allowTestEnds
    BY DEF AgentNext, agentVars, vars, serverVars, ServerStep, CallNew, CallDuplicate, ForceComplete, EndForced
  <2> QED
    BY <2>1, GhostStep
<1>2. (~allowTestEnds => GhostInv) => GhostRejected
  BY DEF GhostInv, NoGhost, GhostRejected, ChaosIn, ChaosTokens
<1> QED
  BY <1>1, <1>2, GhostInit, PTL DEF AgentSpec
=============================================================================
