------------------------- MODULE ToolEffectsProofs --------------------------
(***************************************************************************)
(* Side effects, proved: a tool takes effect once per claim at most, and   *)
(* where the test endpoint is off, the claim whose result is stored is one *)
(* that took effect and, for write_file, left its file whole.              *)
(***************************************************************************)
EXTENDS ToolEffects, DurableSystemProofs

-----------------------------------------------------------------------------
(* The inductive invariant.                                                *)

\* What a worker's handler has done so far.
HandlerInv(w) ==
  /\ run[w].pc # "idle" => run[w].token \in ClaimTokens(events[run[w].key])
  /\ doing[w] \in {"begun", "checked", "opened"} => ~Contains(effects[run[w].key], run[w].token)
  /\ (doing[w] \in {"checked", "opened", "posted", "done"} \/ run[w].pc = "complete")
       => run[w].key \notin broken
  /\ doing[w] = "opened" => tool[run[w].key] = "write_file"
  /\ doing[w] = "posted" => Contains(effects[run[w].key], run[w].token)
  /\ (doing[w] = "done" \/ run[w].pc = "complete") /\ tool[run[w].key] \in Effective
       => Contains(effects[run[w].key], run[w].token)

\* Each claim took effect once at most, and a file in pieces was opened by one
\* that has not.
CallInv(k) ==
  /\ \A i \in 1..Len(effects[k]) : effects[k][i] \in ClaimTokens(events[k])
  /\ \A i, j \in 1..Len(effects[k]) : i # j => effects[k][i] # effects[k][j]
  /\ file[k].content = "part" =>
       /\ tool[k] = "write_file"
       /\ file[k].by \in ClaimTokens(events[k]) /\ ~Contains(effects[k], file[k].by)

\* A worker reports as complete what took effect.
ReportTook(r) ==
  r.kind = "complete" => r.key \notin broken /\ (tool[r.key] \in Effective => Contains(effects[r.key], r.token))

ReportsTook == \A r \in open : r.worker_id \in Workers => ReportTook(r)

ToolInv == ToolTypeOK /\ ReportsTook /\ (\A w \in Workers : HandlerInv(w)) /\ \A k \in Keys : CallInv(k)

\* The result that is stored is of a claim that took effect.
ResultInv ==
  ~allowTestEnds => \A k \in Keys : status[k] = "completed" =>
    /\ k \notin broken
    /\ tool[k] \in Effective => Contains(effects[k], result[k])

-----------------------------------------------------------------------------
(* The runtime under the tools.                                            *)

\* Tools or not, the system takes steps of DurableSystem.
LEMMA ToolStutters ==
  /\ SystemStep => Next
  /\ \A w \in Workers : ToolStep(w) => UNCHANGED vars
<1>1. SystemStep => Next
  BY DEF SystemStep, Next, ExecutorStep, HandlerStep
<1> QED
  BY <1>1 DEF ToolStep

\* A worker drops its claim, goes on with it, or takes up a new one.
RunMoves(w) ==
  \/ run'[w].pc = "idle"
  \/ /\ run[w].pc # "idle" /\ run'[w].key = run[w].key /\ run'[w].token = run[w].token
     /\ \/ run'[w].pc = run[w].pc
        \/ run[w].pc \in {"complete", "fail"} /\ run'[w].pc = "reporting"
        \/ run[w].pc = "working" /\ run'[w].pc = "complete" /\ doing[w] = "done"
        \/ run[w].pc = "working" /\ run'[w].pc = "fail"
  \/ /\ run[w].pc = "idle" /\ run'[w].pc \in {"working", "fail"} /\ run'[w].key \in Keys
     /\ run'[w].token \in ClaimTokens(events'[run'[w].key])
     /\ run'[w].token \notin ClaimTokens(events[run'[w].key])

\* A claim's token is in the history from now on.
LEMMA ClaimIsNew ==
  ASSUME OwnershipInv, NEW k \in Keys, NEW w \in Workers, NEW age \in 0..MaxTxDelay, Claim(k, w, age)
  PROVE  NextToken(k) \in ClaimTokens(events'[k]) /\ NextToken(k) \notin ClaimTokens(events[k])
<1>1. StoreInv /\ age \in Int
  BY OwnershipInvParts, AgeIsInt
<1>2. attempts'[k] = attempts[k] + 1 /\ attempts[k] \in Nat /\ lease'[k].fencing_token = NextToken(k)
  BY <1>1 DEF Claim, StoreInv, StoreTypeOK
<1>3. Logs(k)
  BY <1>1, ClaimLogs DEF OnlyLogs
<1>4. Took(k)
  BY <1>2, <1>3 DEF Logs, Quiet, Ended
<1>5. NextToken(k) \notin Tokens(events[k])
  BY <1>1, ClaimPreserves
<1>6. ClaimTokens(events[k]) \subseteq Tokens(events[k])
  BY DEF ClaimTokens, ClaimEvents, Tokens, Numbered
<1> QED
  BY <1>2, <1>4, <1>5, <1>6 DEF Took

\* Every step of the runtime moves every worker in one of these ways.
LEMMA StepRuns ==
  ASSUME OwnershipInv, SystemStep
  PROVE  \A w \in Workers : RunMoves(w)
<1>1. run \in [Workers -> Run] /\ \A w \in Workers : run[w] \in Run
  BY OwnershipInvParts DEF RestTypeOK
<1>2. ASSUME run' = run PROVE \A w \in Workers : RunMoves(w)
  BY <1>2 DEF RunMoves
<1>3. ASSUME NEW w \in Workers, run' = [run EXCEPT ![w] = Idle] PROVE \A v \in Workers : RunMoves(v)
  BY <1>1, <1>3 DEF RunMoves, Idle
<1>4. ASSUME NEW w \in Workers, RuntimeStep(w) PROVE \A v \in Workers : RunMoves(v)
  <2>1. ASSUME NEW k \in Keys, NEW age \in 0..MaxTxDelay, NEW pc \in {"working", "fail"}, Claim(k, w, age),
               run[w].pc = "idle",
               run' = [run EXCEPT ![w] = [pc |-> pc, key |-> k, token |-> NextToken(k), lost |-> FALSE]]
        PROVE  \A v \in Workers : RunMoves(v)
    <3>1. /\ run'[w].pc = pc /\ run'[w].key = k /\ run'[w].token = NextToken(k)
          /\ \A v \in Workers \ {w} : run'[v] = run[v]
      BY <1>1, <2>1
    <3>2. RunMoves(w)
      BY <2>1, <3>1, ClaimIsNew DEF RunMoves
    <3> QED
      BY <3>1, <3>2 DEF RunMoves
  <2>2. ASSUME NEW k \in Keys, NEW age \in 0..MaxTxDelay,
               StartHandled(w, k, age) \/ StartUnhandled(w, k, age) \/ ClaimReplyLost(w, k, age)
        PROVE  \A v \in Workers : RunMoves(v)
    BY <1>2, <2>1, <2>2 DEF StartHandled, StartUnhandled, ClaimReplyLost, executorVars
  <2>3. ASSUME NEW age \in 0..MaxTxDelay, StartReport(w, age)
        PROVE  \A v \in Workers : RunMoves(v)
    <3>1. run[w].pc \in {"complete", "fail"} /\ run' = [run EXCEPT ![w].pc = "reporting"]
      BY <2>3 DEF StartReport
    <3>2. run'[w] = [run[w] EXCEPT !.pc = "reporting"] /\ \A v \in Workers \ {w} : run'[v] = run[v]
      BY <1>1, <3>1
    <3>3. run'[w].pc = "reporting" /\ run'[w].key = run[w].key /\ run'[w].token = run[w].token
      BY <1>1, <3>2 DEF Run
    <3> QED
      BY <3>1, <3>2, <3>3 DEF RunMoves
  <2>4. CASE EndReport(w) \/ ReportLost(w) \/ Crash(w)
    BY <1>3, <2>4 DEF EndReport, ReportLost, Crash
  <2> QED
    BY <1>4, <2>2, <2>3, <2>4 DEF RuntimeStep
<1>5. ASSUME NEW w \in Workers, doing[w] = "done" /\ HandlerSucceeds(w) PROVE \A v \in Workers : RunMoves(v)
  <2>1. run'[w] = [run[w] EXCEPT !.pc = "complete"] /\ \A v \in Workers \ {w} : run'[v] = run[v]
    BY <1>1, <1>5 DEF HandlerSucceeds
  <2>2. run'[w].pc = "complete" /\ run'[w].key = run[w].key /\ run'[w].token = run[w].token
    BY <1>1, <2>1 DEF Run
  <2> QED
    BY <1>5, <2>1, <2>2 DEF HandlerSucceeds, RunMoves
<1>6. ASSUME NEW w \in Workers, HandlerFails(w) PROVE \A v \in Workers : RunMoves(v)
  <2>1. run'[w] = [run[w] EXCEPT !.pc = "fail"] /\ \A v \in Workers \ {w} : run'[v] = run[v]
    BY <1>1, <1>6 DEF HandlerFails
  <2>2. run'[w].pc = "fail" /\ run'[w].key = run[w].key /\ run'[w].token = run[w].token
    BY <1>1, <2>1 DEF Run
  <2> QED
    BY <1>6, <2>1, <2>2 DEF HandlerFails, RunMoves
<1>7. ASSUME NEW w \in Workers, HandlerAborts(w) PROVE \A v \in Workers : RunMoves(v)
  BY <1>3, <1>7 DEF HandlerAborts
<1>8. ASSUME NEW g \in beating, GoroutineStep(g) PROVE \A v \in Workers : RunMoves(v)
  <2>1. g.worker \in Workers
    BY OwnershipInvParts DEF RestTypeOK, Goroutine
  <2>2. run' = run \/ run' = [run EXCEPT ![g.worker].lost = TRUE]
    BY <1>8 DEF GoroutineStep, BeatAccepted, BeatRejected, BeatStops, executorVars
  <2>3. \A v \in Workers : run'[v].pc = run[v].pc /\ run'[v].key = run[v].key /\ run'[v].token = run[v].token
    BY <1>1, <2>1, <2>2 DEF Run
  <2> QED
    BY <2>3 DEF RunMoves
<1> QED
  BY <1>2, <1>4, <1>5, <1>6, <1>7, <1>8 DEF SystemStep, executorVars

-----------------------------------------------------------------------------
(* What a step of the runtime leaves the tools.                            *)

\* The claims of a history stay in it.
LEMMA StoreGrows ==
  ASSUME OwnershipInv, [Next]_vars, NEW k \in Keys
  PROVE  ClaimTokens(events[k]) \subseteq ClaimTokens(events'[k])
<1>1. Quiet(k) \/ Took(k) \/ Ended(k)
  BY StepLogs DEF Logs
<1>2. CASE Quiet(k)
  BY <1>2 DEF Quiet, SaysTheSame
<1>3. CASE Took(k)
  BY <1>3 DEF Took
<1>4. CASE Ended(k)
  BY <1>4 DEF Ended
<1> QED
  BY <1>1, <1>2, <1>3, <1>4

\* A handler begins, goes on and ends with its claim.
LEMMA FollowsOne ==
  ASSUME Follow, NEW w \in Workers
  PROVE  /\ run'[w].pc # "working" => doing'[w] = "nothing"
         /\ run'[w].pc = "working" /\ run[w].pc # "working" => doing'[w] = "begun"
         /\ run'[w].pc = "working" /\ run[w].pc = "working" => doing'[w] = doing[w]
<1> DEFINE after(v) == CASE run'[v].pc # "working" -> "nothing"
                         [] run'[v].pc = "working" /\ run[v].pc # "working" -> "begun"
                         [] OTHER -> doing[v]
<1>1. doing' = [v \in Workers |-> after(v)]
  BY DEF Follow
<1>2. doing'[w] = after(w)
  <2> HIDE DEF after
  <2> QED
    BY <1>1
<1>3. CASE run'[w].pc # "working"
  BY <1>2, <1>3
<1>4. CASE run'[w].pc = "working" /\ run[w].pc # "working"
  BY <1>2, <1>4
<1>5. CASE run'[w].pc = "working" /\ run[w].pc = "working"
  BY <1>2, <1>5
<1> QED
  BY <1>3, <1>4, <1>5

\* The handler follows its worker's claim.
LEMMA HandlerFollows ==
  ASSUME OwnershipInv, ToolInv, SystemStep, NEW w \in Workers
  PROVE  HandlerInv(w)'
<1>1. RunMoves(w) /\ HandlerInv(w) /\ ToolTypeOK
  BY StepRuns DEF ToolInv
<1>2. /\ tool' = tool /\ broken' = broken /\ effects' = effects
      /\ run'[w].pc # "working" => doing'[w] = "nothing"
      /\ run'[w].pc = "working" /\ run[w].pc # "working" => doing'[w] = "begun"
      /\ run'[w].pc = "working" /\ run[w].pc = "working" => doing'[w] = doing[w]
  BY FollowsOne DEF SystemStep
<1>3. \A k \in Keys : ClaimTokens(events[k]) \subseteq ClaimTokens(events'[k])
  BY ToolStutters, StoreGrows
<1>4. RunTokens
  BY OwnershipInvParts
<1>5. CASE run'[w].pc = "idle"
  BY <1>2, <1>5 DEF HandlerInv
<1>6. ASSUME run[w].pc # "idle", run'[w].key = run[w].key, run'[w].token = run[w].token
      PROVE  run'[w].token \in ClaimTokens(events'[run'[w].key])
  BY <1>1, <1>3, <1>4, <1>6 DEF HandlerInv, RunTokens
<1>7. CASE /\ run[w].pc # "idle" /\ run'[w].key = run[w].key /\ run'[w].token = run[w].token
           /\ run'[w].pc = run[w].pc
  <2>1. doing'[w] = doing[w]
    BY <1>1, <1>2, <1>7 DEF ToolTypeOK
  <2> QED
    BY <1>1, <1>2, <1>6, <1>7, <2>1 DEF HandlerInv
<1>8. CASE /\ run[w].pc # "idle" /\ run'[w].key = run[w].key /\ run'[w].token = run[w].token
           /\ run[w].pc = "working" /\ run'[w].pc = "complete" /\ doing[w] = "done"
  <2>1. doing'[w] = "nothing"
    BY <1>2, <1>8
  <2> QED
    BY <1>1, <1>2, <1>6, <1>8, <2>1 DEF HandlerInv
<1>9. CASE /\ run[w].pc # "idle" /\ run'[w].key = run[w].key /\ run'[w].token = run[w].token
           /\ run[w].pc = "working" /\ run'[w].pc = "fail"
  <2>1. doing'[w] = "nothing"
    BY <1>2, <1>9
  <2> QED
    BY <1>2, <1>6, <1>9, <2>1 DEF HandlerInv
<1>11. CASE /\ run[w].pc # "idle" /\ run'[w].key = run[w].key /\ run'[w].token = run[w].token
            /\ run'[w].pc = "reporting"
  <2>1. doing'[w] = "nothing"
    BY <1>2, <1>11
  <2> QED
    BY <1>2, <1>6, <1>11, <2>1 DEF HandlerInv
<1>10. CASE /\ run[w].pc = "idle" /\ run'[w].pc \in {"working", "fail"} /\ run'[w].key \in Keys
            /\ run'[w].token \in ClaimTokens(events'[run'[w].key])
            /\ run'[w].token \notin ClaimTokens(events[run'[w].key])
  <2>1. doing'[w] \in {"nothing", "begun"}
    BY <1>2, <1>10
  <2>2. ~Contains(effects[run'[w].key], run'[w].token)
    BY <1>10 DEF ToolInv, CallInv, Contains
  <2> QED
    BY <1>2, <1>10, <2>1, <2>2 DEF HandlerInv
<1> QED
  BY <1>1, <1>5, <1>7, <1>8, <1>9, <1>10, <1>11 DEF RunMoves

\* An open report was open, or begins with what its worker has to report.
Comes(r) ==
  \/ \E q \in open : q.worker_id = r.worker_id /\ q.kind = r.kind /\ q.key = r.key /\ q.token = r.token
  \/ run[r.worker_id].pc = r.kind /\ run[r.worker_id].key = r.key /\ run[r.worker_id].token = r.token

\* So are all of them, whoever takes the step.
LEMMA ReportsCome ==
  ASSUME OwnershipInv, [Next]_vars
  PROVE  \A r \in open' : r.worker_id \in Workers => Comes(r)
<1>0. open \subseteq Report /\ NoWorker \notin Workers
  BY OwnershipInvParts, StoreAssumption DEF RestTypeOK
<1>1. ASSUME open' \subseteq open PROVE \A r \in open' : r.worker_id \in Workers => Comes(r)
  BY <1>1 DEF Comes
<1>2. ASSUME NEW k \in Keys, ServerStep(k) PROVE \A r \in open' : r.worker_id \in Workers => Comes(r)
  <2>1. ASSUME NEW token \in ForcedTokens, NEW age \in 0..MaxTxDelay, ForceComplete(k, token, age)
        PROVE  \A r \in open' : r.worker_id \in Workers => Comes(r)
    <3> DEFINE q == [kind |-> "complete", key |-> k, token |-> token, worker_id |-> NoWorker,
                     owns |-> LeaseLive(k, token, age), age |-> age]
    <3>1. open' = open \cup {q} /\ q.worker_id \notin Workers
      BY <1>0, <2>1 DEF ForceComplete, BeginReport
    <3> HIDE DEF q
    <3> QED
      BY <3>1 DEF Comes
  <2>2. CASE CallNew(k) \/ CallDuplicate(k)
    BY <1>1, <2>2 DEF CallNew, CallDuplicate
  <2>3. ASSUME NEW r \in Posts, EndForced(r) PROVE \A q \in open' : q.worker_id \in Workers => Comes(q)
    BY <1>1, <2>3 DEF EndForced, CommitReport
  <2> QED
    BY <1>2, <2>1, <2>2, <2>3 DEF ServerStep
<1>3. ASSUME NEW w \in Workers, ExecutorStep(w) PROVE \A r \in open' : r.worker_id \in Workers => Comes(r)
  <2>1. ASSUME NEW age \in 0..MaxTxDelay, StartReport(w, age)
        PROVE  \A r \in open' : r.worker_id \in Workers => Comes(r)
    <3> DEFINE q == [kind |-> run[w].pc, key |-> run[w].key, token |-> run[w].token, worker_id |-> w,
                     owns |-> LeaseLive(run[w].key, run[w].token, age), age |-> age]
    <3>1. open' = open \cup {q} /\ q.worker_id = w
          /\ q.kind = run[w].pc /\ q.key = run[w].key /\ q.token = run[w].token
      BY <2>1 DEF StartReport, BeginReport
    <3> HIDE DEF q
    <3> QED
      BY <3>1 DEF Comes
  <2>2. CASE EndReport(w) \/ ReportLost(w) \/ Crash(w)
    BY <1>1, <2>2 DEF EndReport, CommitReport, ReportLost, Crash, RollBackReports
  <2>3. CASE \/ HandlerStep(w)
             \/ \E k \in Keys, age \in 0..MaxTxDelay :
                  StartHandled(w, k, age) \/ StartUnhandled(w, k, age) \/ ClaimReplyLost(w, k, age)
    BY <1>1, <2>3 DEF HandlerStep, HandlerSucceeds, HandlerFails, HandlerAborts, StartHandled, StartUnhandled,
       ClaimReplyLost
  <2> QED
    BY <1>3, <2>1, <2>2, <2>3 DEF ExecutorStep, RuntimeStep
<1>4. ASSUME NEW g \in beating, GoroutineStep(g) PROVE \A r \in open' : r.worker_id \in Workers => Comes(r)
  BY <1>1, <1>4 DEF GoroutineStep, BeatAccepted, BeatRejected, BeatStops
<1>5. CASE TimePasses
  <2>1. open' = {[r EXCEPT !.age = @ + 1] : r \in open}
    BY <1>5 DEF TimePasses
  <2>2. ASSUME NEW r \in open' PROVE Comes(r)
    <3>1. PICK q \in open : r = [q EXCEPT !.age = @ + 1]
      BY <2>1
    <3>2. r.worker_id = q.worker_id /\ r.kind = q.kind /\ r.key = q.key /\ r.token = q.token
      BY <1>0, <3>1 DEF Report
    <3> QED
      BY <3>2 DEF Comes
  <2> QED
    BY <2>2
<1>6. CASE UNCHANGED vars \/ \E s \in Schedulers : SchedulerStep(s) /\ UNCHANGED <<open, executorVars, serverVars>>
  BY <1>1, <1>6 DEF vars
<1> QED
  BY <1>2, <1>3, <1>4, <1>5, <1>6 DEF Next

\* A step of the runtime keeps ToolInv.
LEMMA SystemKeepsTools ==
  ASSUME OwnershipInv, ToolInv, SystemStep
  PROVE  ToolInv'
<1>1. tool' = tool /\ broken' = broken /\ file' = file /\ effects' = effects
  BY DEF SystemStep
<1>2. \A w \in Workers : HandlerInv(w)'
  BY HandlerFollows
<1>3. ASSUME NEW k \in Keys PROVE CallInv(k)'
  <2>1. ClaimTokens(events[k]) \subseteq ClaimTokens(events'[k])
    BY ToolStutters, StoreGrows
  <2>2. CallInv(k)
    BY DEF ToolInv
  <2> QED
    BY <1>1, <2>1, <2>2 DEF CallInv
<1>4. ToolTypeOK'
  <2> DEFINE Does == {"nothing", "begun", "checked", "opened", "posted", "done", "erred"}
  <2>1. ToolTypeOK
    BY DEF ToolInv
  <2>2. Follow /\ \E D : doing' = [w \in Workers |-> D[w]]
    <3>1. doing' = [w \in Workers |-> doing'[w]]
      BY DEF SystemStep, Follow
    <3> QED
      BY <3>1 DEF SystemStep
  <2>3. ASSUME NEW w \in Workers PROVE doing'[w] \in Does /\ (doing'[w] = "nothing" <=> run'[w].pc # "working")
    BY <2>1, <2>2, FollowsOne DEF ToolTypeOK
  <2>4. doing' \in [Workers -> Does]
    BY <2>2, <2>3
  <2> QED
    BY <1>1, <2>1, <2>3, <2>4 DEF ToolTypeOK
<1>5. ReportsTook'
  <2> SUFFICES ASSUME NEW r \in open', r.worker_id \in Workers PROVE ReportTook(r)
    BY <1>1 DEF ReportsTook, ReportTook
  <2>1. Comes(r)
    BY ToolStutters, ReportsCome
  <2>2. CASE \E q \in open : q.worker_id = r.worker_id /\ q.kind = r.kind /\ q.key = r.key /\ q.token = r.token
    BY <2>2 DEF ToolInv, ReportsTook, ReportTook
  <2>3. CASE run[r.worker_id].pc = r.kind /\ run[r.worker_id].key = r.key /\ run[r.worker_id].token = r.token
    BY <2>3 DEF ToolInv, HandlerInv, ReportTook
  <2> QED
    BY <2>1, <2>2, <2>3 DEF Comes
<1> QED
  BY <1>2, <1>3, <1>4, <1>5 DEF ToolInv

-----------------------------------------------------------------------------
(* What a step of a tool does.                                             *)

\* One effect more.
LEMMA AppendContains ==
  ASSUME NEW log \in Seq(Int), NEW token \in Int
  PROVE  /\ Append(log, token) \in Seq(Int)
         /\ Len(log) \in Nat /\ Len(Append(log, token)) = Len(log) + 1
         /\ \A i \in 1..Len(log) : Append(log, token)[i] = log[i]
         /\ Append(log, token)[Len(log) + 1] = token
         /\ \A x : Contains(Append(log, token), x) <=> Contains(log, x) \/ x = token
<1>1. /\ Append(log, token) \in Seq(Int)
      /\ Len(log) \in Nat /\ Len(Append(log, token)) = Len(log) + 1
      /\ \A i \in 1..Len(log) : Append(log, token)[i] = log[i]
      /\ Append(log, token)[Len(log) + 1] = token
  OBVIOUS
<1> DEFINE new == Append(log, token)
<1> HIDE DEF new
<1>2. 1..Len(new) = 1..Len(log) \cup {Len(log) + 1}
  BY <1>1 DEF new
<1>3. \A x : Contains(new, x) <=> Contains(log, x) \/ x = token
  BY <1>1, <1>2 DEF Contains, new
<1> QED
  BY <1>1, <1>3 DEF new

\* The claim of a handler at work.
LEMMA AtWork ==
  ASSUME OwnershipInv, NEW w \in Workers, run[w].pc = "working"
  PROVE  run[w].key \in Keys /\ run[w].token \in Int
BY OwnershipInvParts, RunTypes

\* A handler that goes on leaves the other handlers and the claims alone.
LEMMA GoesOn ==
  ASSUME ToolTypeOK, UNCHANGED <<vars, tool, broken>>, NEW w \in Workers, run[w].pc = "working",
         NEW point \in {"checked", "opened", "posted", "done", "erred"}, GoesTo(w, point)
  PROVE  /\ doing'[w] = point /\ \A v \in Workers \ {w} : doing'[v] = doing[v]
         /\ doing' \in [Workers -> {"nothing", "begun", "checked", "opened", "posted", "done", "erred"}]
         /\ \A v \in Workers : doing'[v] = "nothing" <=> run'[v].pc # "working"
         /\ run' = run /\ open' = open /\ events' = events /\ status' = status /\ result' = result
         /\ tool' = tool /\ broken' = broken
<1>1. run' = run /\ open' = open /\ events' = events /\ status' = status /\ result' = result /\ tool' = tool /\ broken' = broken
  BY DEF vars, storeVars, executorVars
<1>2. doing'[w] = point /\ \A v \in Workers \ {w} : doing'[v] = doing[v]
  BY DEF ToolTypeOK, GoesTo
<1>3. doing' \in [Workers -> {"nothing", "begun", "checked", "opened", "posted", "done", "erred"}]
  BY DEF ToolTypeOK, GoesTo
<1>4. \A v \in Workers : doing'[v] = "nothing" <=> run'[v].pc # "working"
  BY <1>1, <1>2 DEF ToolTypeOK
<1> QED
  BY <1>1, <1>2, <1>3, <1>4

\* A handler goes on and nothing outside changes.
LEMMA NoEffect ==
  ASSUME ToolInv, UNCHANGED <<vars, tool, broken, file, effects>>, NEW w \in Workers, run[w].pc = "working",
         NEW point \in {"checked", "done", "erred"}, GoesTo(w, point),
         point = "checked" => doing[w] = "begun" /\ run[w].key \notin broken,
         point = "done" => \/ doing[w] = "checked" /\ tool[run[w].key] \notin Effective
                           \/ doing[w] = "posted"
  PROVE  ToolInv'
<1>1. /\ doing'[w] = point /\ \A v \in Workers \ {w} : doing'[v] = doing[v]
      /\ doing' \in [Workers -> {"nothing", "begun", "checked", "opened", "posted", "done", "erred"}]
      /\ \A v \in Workers : doing'[v] = "nothing" <=> run'[v].pc # "working"
      /\ run' = run /\ open' = open /\ events' = events /\ tool' = tool /\ broken' = broken
      /\ file' = file /\ effects' = effects
  BY GoesOn DEF ToolInv
<1>2. ToolTypeOK'
  BY <1>1 DEF ToolInv, ToolTypeOK
<1>3. \A k \in Keys : CallInv(k)'
  BY <1>1 DEF ToolInv, CallInv
<1>4. ASSUME NEW v \in Workers \ {w} PROVE HandlerInv(v)'
  BY <1>1 DEF ToolInv, HandlerInv
<1>5. HandlerInv(w)'
  BY <1>1 DEF ToolInv, HandlerInv
<1>6. ReportsTook'
  BY <1>1 DEF ToolInv, ReportsTook, ReportTook
<1> QED
  BY <1>2, <1>3, <1>4, <1>5, <1>6 DEF ToolInv

\* The tool takes effect, for the first time under this claim.
LEMMA TakesOneEffect ==
  ASSUME OwnershipInv, ToolInv, UNCHANGED <<vars, tool, broken>>, NEW w \in Workers, run[w].pc = "working",
         doing[w] \in {"checked", "opened"},
         NEW point \in {"posted", "done"}, GoesTo(w, point), TakesEffect(w),
         \/ Holds(w, "whole")
         \/ UNCHANGED file /\ tool[run[w].key] # "write_file"
  PROVE  ToolInv'
<1> DEFINE k == run[w].key
           token == run[w].token
<1>0. k \in Keys /\ token \in Int
  BY AtWork
<1>1. /\ doing'[w] = point /\ \A v \in Workers \ {w} : doing'[v] = doing[v]
      /\ doing' \in [Workers -> {"nothing", "begun", "checked", "opened", "posted", "done", "erred"}]
      /\ \A v \in Workers : doing'[v] = "nothing" <=> run'[v].pc # "working"
      /\ run' = run /\ open' = open /\ events' = events /\ tool' = tool /\ broken' = broken
  BY GoesOn DEF ToolInv
<1>2. ToolTypeOK /\ HandlerInv(w) /\ CallInv(k) /\ effects[k] \in Seq(Int)
  BY <1>0 DEF ToolInv, ToolTypeOK
<1>3. effects'[k] = Append(effects[k], token) /\ \A j \in Keys \ {k} : effects'[j] = effects[j]
  BY <1>0, <1>2 DEF TakesEffect, ToolTypeOK
<1>4. /\ effects'[k] \in Seq(Int)
      /\ Len(effects[k]) \in Nat /\ Len(effects'[k]) = Len(effects[k]) + 1
      /\ \A i \in 1..Len(effects[k]) : effects'[k][i] = effects[k][i]
      /\ effects'[k][Len(effects[k]) + 1] = token
      /\ \A x : Contains(effects'[k], x) <=> Contains(effects[k], x) \/ x = token
  BY <1>0, <1>2, <1>3, AppendContains
<1>5. /\ file' \in [Keys -> [content : {"none", "part", "whole"}, by : Int]]
      /\ \A j \in Keys \ {k} : file'[j] = file[j]
      /\ file'[k].content = "part" => file'[k] = file[k] /\ tool[k] # "write_file"
  <2>1. CASE Holds(w, "whole")
    BY <1>0, <1>2, <2>1 DEF Holds, ToolTypeOK
  <2>2. CASE UNCHANGED file /\ tool[run[w].key] # "write_file"
    BY <1>2, <2>2 DEF ToolTypeOK
  <2> QED
    BY <2>1, <2>2
<1>6. token \in ClaimTokens(events[k]) /\ ~Contains(effects[k], token) /\ k \notin broken
  BY <1>2 DEF HandlerInv
<1> HIDE DEF token
<1>7. ToolTypeOK'
  <2>1. effects' \in [Keys -> Seq(Int)]
    BY <1>0, <1>2, <1>3, <1>4 DEF TakesEffect, ToolTypeOK
  <2> QED
    BY <1>1, <1>2, <1>5, <2>1 DEF ToolTypeOK
<1>8. ASSUME NEW j \in Keys PROVE CallInv(j)'
  <2>1. CASE j = k
    <3>0. 1..Len(effects'[k]) = 1..Len(effects[k]) \cup {Len(effects[k]) + 1}
      BY <1>4
    <3>1. \A i \in 1..Len(effects'[k]) : effects'[k][i] \in ClaimTokens(events'[k])
      BY <1>1, <1>2, <1>4, <1>6, <3>0 DEF CallInv
    <3>2. \A i \in 1..Len(effects[k]) : effects'[k][i] # token
      <4>1. \A i \in 1..Len(effects[k]) : effects[k][i] # token
        BY <1>6 DEF Contains
      <4> QED
        BY <1>4, <4>1
    <3>3. \A i, m \in 1..Len(effects'[k]) : i # m => effects'[k][i] # effects'[k][m]
      <4>1. \A i, m \in 1..Len(effects[k]) : i # m => effects[k][i] # effects[k][m]
        BY <1>2 DEF CallInv
      <4>2. ASSUME NEW i \in 1..Len(effects'[k]), NEW m \in 1..Len(effects'[k]), i # m
            PROVE  effects'[k][i] # effects'[k][m]
        <5>1. CASE i \in 1..Len(effects[k]) /\ m \in 1..Len(effects[k])
          BY <1>4, <4>1, <4>2, <5>1
        <5>2. CASE i = Len(effects[k]) + 1 /\ m \in 1..Len(effects[k])
          BY <1>4, <3>2, <5>2
        <5>3. CASE m = Len(effects[k]) + 1 /\ i \in 1..Len(effects[k])
          BY <1>4, <3>2, <5>3
        <5> QED
          BY <3>0, <4>2, <5>1, <5>2, <5>3
      <4> QED
        BY <4>2
    <3>4. file'[k].content # "part"
      BY <1>2, <1>5 DEF CallInv
    <3> QED
      BY <2>1, <3>1, <3>3, <3>4 DEF CallInv
  <2>2. CASE j # k
    BY <1>1, <1>3, <1>5, <2>2 DEF CallInv, ToolInv
  <2> QED
    BY <2>1, <2>2
<1>9. ASSUME NEW v \in Workers \ {w} PROVE HandlerInv(v)'
  <2>0. HandlerInv(v) /\ RunTokens /\ (doing[v] = "nothing" <=> run[v].pc # "working")
    BY <1>2, OwnershipInvParts DEF ToolInv, ToolTypeOK
  <2>1. CASE run[v].pc # "idle" /\ run[v].key = k
    <3>1. run[v].token # token
      BY <2>1, OwnershipInvParts DEF OneOwner, token
    <3> QED
      BY <1>1, <1>4, <2>0, <2>1, <3>1 DEF HandlerInv
  <2>2. CASE run[v].pc # "idle" /\ run[v].key # k
    <3>1. effects'[run[v].key] = effects[run[v].key]
      BY <1>3, <2>0, <2>2 DEF RunTokens
    <3> QED
      BY <1>1, <2>0, <3>1 DEF HandlerInv
  <2>3. CASE run[v].pc = "idle"
    <3>1. doing'[v] = "nothing"
      BY <1>1, <2>0, <2>3
    <3> QED
      BY <1>1, <2>3, <3>1 DEF HandlerInv
  <2> QED
    BY <2>1, <2>2, <2>3
<1>10. HandlerInv(w)'
  BY <1>1, <1>4, <1>6 DEF HandlerInv, token
<1>11. ReportsTook'
  <2> SUFFICES ASSUME NEW r \in open, r.worker_id \in Workers, ReportTook(r) PROVE ReportTook(r)'
    BY <1>1 DEF ReportsTook, ToolInv
  <2>1. r.key \in Keys
    BY OwnershipInvParts DEF RestTypeOK, Report
  <2>2. CASE r.key = k
    BY <1>1, <1>4, <2>2 DEF ReportTook
  <2>3. CASE r.key # k
    BY <1>1, <1>3, <2>1, <2>3 DEF ReportTook
  <2> QED
    BY <2>2, <2>3
<1> QED
  BY <1>7, <1>8, <1>9, <1>10, <1>11 DEF ToolInv

\* The file is opened, and in pieces, under a claim that took no effect yet.
LEMMA TruncateKeeps ==
  ASSUME OwnershipInv, ToolInv, UNCHANGED <<vars, tool, broken>>, NEW w \in Workers, truncate(w)
  PROVE  ToolInv'
<1> DEFINE k == run[w].key
<1>0. run[w].pc = "working" /\ tool[k] = "write_file" /\ doing[w] = "checked"
      /\ GoesTo(w, "opened") /\ Holds(w, "part") /\ effects' = effects
  BY DEF truncate, At
<1>1. k \in Keys /\ run[w].token \in Int
  BY <1>0, AtWork
<1>2. /\ doing'[w] = "opened" /\ \A v \in Workers \ {w} : doing'[v] = doing[v]
      /\ doing' \in [Workers -> {"nothing", "begun", "checked", "opened", "posted", "done", "erred"}]
      /\ \A v \in Workers : doing'[v] = "nothing" <=> run'[v].pc # "working"
      /\ run' = run /\ open' = open /\ events' = events /\ tool' = tool /\ broken' = broken
  BY <1>0, GoesOn DEF ToolInv
<1>3. ToolTypeOK /\ HandlerInv(w)
  BY DEF ToolInv
<1>4. /\ file' \in [Keys -> [content : {"none", "part", "whole"}, by : Int]]
      /\ \A j \in Keys \ {k} : file'[j] = file[j]
      /\ file'[k] = [content |-> "part", by |-> run[w].token]
  BY <1>0, <1>1, <1>3 DEF Holds, ToolTypeOK
<1>5. ToolTypeOK'
  BY <1>0, <1>2, <1>3, <1>4 DEF ToolTypeOK
<1>6. ASSUME NEW j \in Keys PROVE CallInv(j)'
  <2>1. CallInv(j)
    BY DEF ToolInv
  <2>2. CASE j = k
    BY <1>0, <1>2, <1>3, <1>4, <2>1, <2>2 DEF CallInv, HandlerInv
  <2>3. CASE j # k
    BY <1>0, <1>2, <1>4, <2>1, <2>3 DEF CallInv
  <2> QED
    BY <2>2, <2>3
<1>7. ASSUME NEW v \in Workers \ {w} PROVE HandlerInv(v)'
  BY <1>0, <1>2 DEF ToolInv, HandlerInv
<1>8. HandlerInv(w)'
  BY <1>0, <1>2, <1>3 DEF HandlerInv
<1>9. ReportsTook'
  BY <1>0, <1>2 DEF ToolInv, ReportsTook, ReportTook
<1> QED
  BY <1>5, <1>6, <1>7, <1>8, <1>9 DEF ToolInv

\* A step of a tool keeps ToolInv.
LEMMA ToolStepKeepsTools ==
  ASSUME OwnershipInv, ToolInv, NEW w \in Workers, ToolStep(w)
  PROVE  ToolInv'
<1>0. UNCHANGED <<vars, tool, broken>>
  BY DEF ToolStep
<1>1. CASE forcedFailure(w)
  <2>1. CASE run[w].key \in broken
    BY <1>0, <1>1, <2>1, NoEffect DEF forcedFailure, At
  <2>2. CASE run[w].key \notin broken
    BY <1>0, <1>1, <2>2, NoEffect DEF forcedFailure, At
  <2> QED
    BY <2>1, <2>2
<1>2. CASE slowCompute(w) \/ callAPI(w)
  <2>1. run[w].pc = "working" /\ doing[w] = "checked" /\ UNCHANGED <<file, effects>>
    BY <1>2 DEF slowCompute, callAPI, At
  <2>2. tool[run[w].key] \notin Effective
    BY <1>2 DEF slowCompute, callAPI, At, Effective
  <2>3. GoesTo(w, "erred") \/ GoesTo(w, "done")
    BY <1>2 DEF slowCompute, callAPI
  <2> QED
    BY <1>0, <2>1, <2>2, <2>3, NoEffect
<1>3. CASE writeFails(w) \/ postFails(w)
  <2>1. run[w].pc = "working" /\ GoesTo(w, "erred") /\ UNCHANGED <<file, effects>>
    BY <1>3 DEF writeFails, postFails, At
  <2> QED
    BY <1>0, <2>1, NoEffect
<1>4. CASE postAnswered(w)
  BY <1>0, <1>4, NoEffect DEF postAnswered, At
<1>5. CASE truncate(w)
  BY <1>0, <1>5, TruncateKeeps
<1>6. CASE write(w)
  BY <1>0, <1>6, TakesOneEffect DEF write, At
<1>7. CASE post(w)
  <2>1. tool[run[w].key] # "write_file"
    BY <1>7 DEF post, At
  <2> QED
    BY <1>0, <1>7, <2>1, TakesOneEffect DEF post, At
<1> QED
  BY <1>1, <1>2, <1>3, <1>4, <1>5, <1>6, <1>7 DEF ToolStep

-----------------------------------------------------------------------------
(* Whose result is stored.                                                 *)

\* A result that is there stays as it is.
KeepsResult(k) == status'[k] = "completed" => status[k] = "completed" /\ result'[k] = result[k]

\* A result that is there stays, or a completion commits its own.
ResultMoves(k) ==
  \/ KeepsResult(k)
  \/ \E r \in open : r.kind = "complete" /\ r.key = k /\ result'[k] = r.token

\* Claims, reports of failure and passes complete nothing.
LEMMA KeepResults ==
  ASSUME StoreInv, NEW k \in Keys,
         \/ UNCHANGED storeVars
         \/ SubmitNew(k) \/ SubmitDuplicate(k) \/ promoteRetry(k)
         \/ \E w \in Workers : \E age : Claim(k, w, age)
         \/ \E w \in Workers : \E token, age : HeartbeatAccepted(k, token, w, age)
         \/ \E w \in Workers \cup {NoWorker} : \E token, age :
              FailRetries(k, token, w, age) \/ FailTerminal(k, token, w) \/ ReportRejected(k, token, w)
         \/ \E seen : expireLease(k, seen)
  PROVE  \A j \in Keys : KeepsResult(j)
<1>1. status \in [Keys -> Status]
  BY DEF StoreInv, StoreTypeOK
<1>2. CASE status' = status /\ result' = result
  BY <1>2 DEF KeepsResult
<1>3. ASSUME NEW s \in {"ready", "running", "pending", "failed"},
             status' = [status EXCEPT ![k] = s] /\ result' = result
      PROVE  \A j \in Keys : KeepsResult(j)
  BY <1>1, <1>3 DEF KeepsResult
<1>4. CASE UNCHANGED storeVars \/ SubmitDuplicate(k)
  BY <1>2, <1>4 DEF storeVars, SubmitDuplicate
<1>5. CASE SubmitNew(k) \/ promoteRetry(k)
  BY <1>3, <1>5 DEF SubmitNew, promoteRetry
<1>6. CASE \E w \in Workers : \E age : Claim(k, w, age)
  BY <1>3, <1>6 DEF Claim
<1>7. CASE \E w \in Workers : \E token, age : HeartbeatAccepted(k, token, w, age)
  BY <1>2, <1>7 DEF HeartbeatAccepted
<1>8. ASSUME NEW w \in Workers \cup {NoWorker}, NEW token, NEW age,
             FailRetries(k, token, w, age) \/ FailTerminal(k, token, w) \/ ReportRejected(k, token, w)
      PROVE  \A j \in Keys : KeepsResult(j)
  BY <1>2, <1>3, <1>8 DEF FailRetries, FailTerminal, ReportRejected
<1>9. CASE \E seen : expireLease(k, seen)
  BY <1>3, <1>9 DEF expireLease, ExpireToReady, ExpireToFailed
<1> QED
  BY <1>4, <1>5, <1>6, <1>7, <1>8, <1>9

\* Only a completion stores a result.
LEMMA CommitResults ==
  ASSUME OwnershipInv, NEW r \in open, CommitReport(r)
  PROVE  \A k \in Keys : ResultMoves(k)
<1>0. StoreInv /\ r.key \in Keys /\ r.worker_id \in Workers \cup {NoWorker}
  BY OwnershipInvParts DEF RestTypeOK, Report
<1>1. CASE r.kind = "complete" /\ CompleteAccepted(r.key, r.token, r.worker_id)
  <2>1. /\ result'[r.key] = r.token
        /\ \A j \in Keys \ {r.key} : status'[j] = status[j] /\ result'[j] = result[j]
    BY <1>0, <1>1 DEF CompleteAccepted, StoreInv, StoreTypeOK
  <2> QED
    BY <1>1, <2>1 DEF ResultMoves, KeepsResult
<1>2. ASSUME \/ FailRetries(r.key, r.token, r.worker_id, r.age)
             \/ FailTerminal(r.key, r.token, r.worker_id)
             \/ ReportRejected(r.key, r.token, r.worker_id)
      PROVE  \A k \in Keys : ResultMoves(k)
  <2>1. \A j \in Keys : KeepsResult(j)
    BY <1>0, <1>2, KeepResults
  <2> QED
    BY <2>1 DEF ResultMoves
<1> QED
  BY <1>1, <1>2 DEF CommitReport, Complete, Fail

\* Whoever takes the step.
LEMMA StepResults ==
  ASSUME OwnershipInv, SystemStep
  PROVE  \A k \in Keys : ResultMoves(k)
<1>0. StoreInv /\ RestTypeOK
  BY OwnershipInvParts
<1>1. ASSUME \A j \in Keys : KeepsResult(j) PROVE \A k \in Keys : ResultMoves(k)
  BY <1>1 DEF ResultMoves
<1>2. ASSUME UNCHANGED storeVars PROVE \A k \in Keys : ResultMoves(k)
  BY <1>1, <1>2 DEF storeVars, KeepsResult
<1>3. ASSUME NEW k \in Keys, ServerStep(k) PROVE \A j \in Keys : ResultMoves(j)
  <2>1. CASE CallNew(k) \/ CallDuplicate(k)
    <3>1. SubmitNew(k) \/ SubmitDuplicate(k)
      BY <2>1 DEF CallNew, CallDuplicate
    <3> QED
      BY <1>0, <1>1, <3>1, KeepResults
  <2>2. ASSUME NEW token, NEW age, ForceComplete(k, token, age) PROVE \A j \in Keys : ResultMoves(j)
    BY <1>2, <2>2 DEF ForceComplete, BeginReport
  <2>3. ASSUME NEW r \in Posts, EndForced(r) PROVE \A j \in Keys : ResultMoves(j)
    <3>1. r \in open
      BY DEF Posts
    <3>2. CommitReport(r) \/ UNCHANGED storeVars
      BY <2>3 DEF EndForced
    <3> QED
      BY <1>2, <3>1, <3>2, CommitResults
  <2> QED
    BY <1>3, <2>1, <2>2, <2>3 DEF ServerStep
<1>4. ASSUME NEW w \in Workers, RuntimeStep(w) PROVE \A j \in Keys : ResultMoves(j)
  <2>1. ASSUME NEW k \in Keys, NEW age \in 0..MaxTxDelay,
               StartHandled(w, k, age) \/ StartUnhandled(w, k, age) \/ ClaimReplyLost(w, k, age)
        PROVE  \A j \in Keys : ResultMoves(j)
    <3>1. Claim(k, w, age)
      BY <2>1 DEF StartHandled, StartUnhandled, ClaimReplyLost
    <3> QED
      BY <1>0, <1>1, <3>1, KeepResults
  <2>2. ASSUME NEW age \in 0..MaxTxDelay, StartReport(w, age) PROVE \A j \in Keys : ResultMoves(j)
    BY <1>2, <2>2 DEF StartReport, BeginReport
  <2>3. CASE EndReport(w)
    BY <2>3, CommitResults DEF EndReport
  <2>4. CASE ReportLost(w) \/ Crash(w)
    BY <1>2, <2>4 DEF ReportLost, Crash
  <2> QED
    BY <1>4, <2>1, <2>2, <2>3, <2>4 DEF RuntimeStep
<1>5. ASSUME NEW w \in Workers, HandlerSucceeds(w) \/ HandlerFails(w) \/ HandlerAborts(w)
      PROVE  \A j \in Keys : ResultMoves(j)
  BY <1>2, <1>5 DEF HandlerSucceeds, HandlerFails, HandlerAborts
<1>6. ASSUME NEW g \in beating, GoroutineStep(g) PROVE \A j \in Keys : ResultMoves(j)
  <2>1. g.worker \in Workers /\ g.key \in Keys
    BY <1>0 DEF RestTypeOK, Goroutine
  <2>2. ASSUME NEW age \in 0..MaxTxDelay, BeatAccepted(g, age) PROVE \A j \in Keys : ResultMoves(j)
    <3>1. HeartbeatAccepted(g.key, g.token, g.worker, age)
      BY <2>2 DEF BeatAccepted
    <3> QED
      BY <1>0, <1>1, <2>1, <3>1, KeepResults
  <2>3. CASE UNCHANGED storeVars
    BY <1>2, <2>3
  <2> QED
    BY <1>6, <2>2, <2>3 DEF GoroutineStep, BeatRejected, HeartbeatRejected, BeatStops
<1>7. ASSUME NEW s \in Schedulers, SchedulerStep(s) PROVE \A j \in Keys : ResultMoves(j)
  <2>1. pass[s].stale \subseteq [key : Keys, attempts : Nat] /\ pass[s].due \subseteq Keys
    BY <1>0 DEF RestTypeOK, Pass
  <2>2. ASSUME NEW x \in pass[s].stale, ExpireOne(s, x) PROVE \A j \in Keys : ResultMoves(j)
    <3>1. x.key \in Keys /\ expireLease(x.key, x.attempts)
      BY <2>1, <2>2 DEF ExpireOne
    <3> QED
      BY <1>0, <1>1, <3>1, KeepResults
  <2>3. ASSUME NEW k \in pass[s].due, PromoteOne(s, k) PROVE \A j \in Keys : ResultMoves(j)
    <3>1. k \in Keys /\ promoteRetry(k)
      BY <2>1, <2>3 DEF PromoteOne
    <3> QED
      BY <1>0, <1>1, <3>1, KeepResults
  <2>4. ASSUME NEW rows, SelectStale(s, rows) \/ SelectDue(s, rows) PROVE \A j \in Keys : ResultMoves(j)
    BY <1>2, <2>4 DEF SelectStale, SelectDue
  <2>5. CASE EndPass(s) \/ AbandonPass(s)
    BY <1>2, <2>5 DEF EndPass, AbandonPass
  <2> QED
    BY <1>7, <2>2, <2>3, <2>4, <2>5 DEF SchedulerStep
<1>8. CASE TimePasses
  BY <1>1, <1>8 DEF TimePasses, Tick, KeepsResult
<1> QED
  BY <1>3, <1>4, <1>5, <1>6, <1>7, <1>8 DEF SystemStep

\* The stored result stays that of a claim that took effect.
LEMMA SystemKeepsResults ==
  ASSUME OwnershipInv, ReportsFit, ToolInv, ResultInv, SystemStep
  PROVE  ResultInv'
<1>1. tool' = tool /\ broken' = broken /\ effects' = effects
  BY DEF SystemStep
<1>2. allowTestEnds' = allowTestEnds
  BY ToolStutters, StartedOnce
<1> SUFFICES ASSUME ~allowTestEnds, NEW k \in Keys, status'[k] = "completed"
             PROVE  k \notin broken /\ (tool[k] \in Effective => Contains(effects[k], result'[k]))
  BY <1>1, <1>2 DEF ResultInv
<1>3. CASE KeepsResult(k)
  BY <1>3 DEF KeepsResult, ResultInv
<1>4. ASSUME NEW r \in open, r.kind = "complete" /\ r.key = k /\ result'[k] = r.token
      PROVE  k \notin broken /\ (tool[k] \in Effective => Contains(effects[k], result'[k]))
  <2>1. r.worker_id \in Workers
    BY OwnershipInvParts DEF ReportsFit, RestTypeOK, Report
  <2>2. ReportTook(r)
    BY <2>1 DEF ToolInv, ReportsTook
  <2> QED
    BY <1>4, <2>2 DEF ReportTook
<1> QED
  BY <1>3, <1>4, StepResults DEF ResultMoves

\* What has taken effect stays so.
LEMMA ToolStepKeepsResults ==
  ASSUME OwnershipInv, ToolInv, ResultInv, NEW w \in Workers, ToolStep(w)
  PROVE  ResultInv'
<1>1. tool' = tool /\ broken' = broken /\ status' = status /\ result' = result /\ allowTestEnds' = allowTestEnds
  BY DEF ToolStep, vars, storeVars, serverVars
<1>2. ASSUME NEW k \in Keys, NEW x, Contains(effects[k], x) PROVE Contains(effects'[k], x)
  <2>1. CASE effects' = effects
    BY <1>2, <2>1
  <2>2. CASE run[w].pc = "working" /\ TakesEffect(w)
    <3>1. run[w].key \in Keys /\ run[w].token \in Int /\ effects \in [Keys -> Seq(Int)]
      BY <2>2, AtWork DEF ToolInv, ToolTypeOK
    <3>2. CASE run[w].key = k
      <4>1. effects'[k] = Append(effects[k], run[w].token) /\ effects[k] \in Seq(Int)
        BY <2>2, <3>1, <3>2 DEF TakesEffect
      <4> QED
        BY <1>2, <3>1, <4>1, AppendContains
    <3>3. CASE run[w].key # k
      BY <1>2, <2>2, <3>1, <3>3 DEF TakesEffect
    <3> QED
      BY <3>2, <3>3
  <2> QED
    BY <2>1, <2>2 DEF ToolStep, forcedFailure, slowCompute, callAPI, truncate, write, writeFails, post, postAnswered,
       postFails, At
<1> QED
  BY <1>1, <1>2 DEF ResultInv

-----------------------------------------------------------------------------
(* The behaviours.                                                         *)

\* Every behaviour with tools is one of the system.
LEMMA ToolsRunTheSystem == ToolSpec => Spec
<1>1. [ToolNext]_<<vars, toolVars>> => [Next]_vars
  BY ToolStutters DEF ToolNext
<1> QED
  BY <1>1, PTL DEF ToolSpec, ToolInit, Spec

\* Nothing is claimed, opened or stored.
LEMMA ToolsBegin == ToolInit => ToolInv /\ ResultInv
<1> SUFFICES ASSUME ToolInit PROVE ToolInv /\ ResultInv
  OBVIOUS
<1>1. /\ \A w \in Workers : run[w].pc = "idle"
      /\ \A k \in Keys : status[k] = "absent"
  BY DEF ToolInit, Init, ExecutorInit, Idle, StoreInit
<1>2. /\ \A w \in Workers : doing[w] = "nothing"
      /\ \A k \in Keys : effects[k] = << >> /\ file[k].content = "none"
  BY DEF ToolInit
<1>3. ToolTypeOK
  BY <1>1 DEF ToolInit, ToolTypeOK
<1>4. \A w \in Workers : HandlerInv(w)
  BY <1>1, <1>2 DEF HandlerInv
<1>5. \A k \in Keys : CallInv(k)
  BY <1>2 DEF CallInv
<1>6. ReportsTook
  BY DEF ToolInit, Init, ReportsInit, ReportsTook
<1> QED
  BY <1>1, <1>3, <1>4, <1>5, <1>6 DEF ToolInv, ResultInv

\* Every step keeps ToolInv.
LEMMA ToolsKeep ==
  ASSUME OwnershipInv, ToolInv, [ToolNext]_<<vars, toolVars>>
  PROVE  ToolInv'
<1>1. CASE UNCHANGED <<vars, toolVars>>
  BY <1>1 DEF vars, storeVars, executorVars, toolVars, ToolInv, ToolTypeOK, HandlerInv, CallInv, ReportsTook, ReportTook
<1> QED
  BY <1>1, SystemKeepsTools, ToolStepKeepsTools DEF ToolNext

\* And ResultInv.
LEMMA ResultsKeep ==
  ASSUME OwnershipInv, ReportsFit, ToolInv, ResultInv, [ToolNext]_<<vars, toolVars>>
  PROVE  ResultInv'
<1>1. CASE UNCHANGED <<vars, toolVars>>
  BY <1>1 DEF vars, storeVars, serverVars, toolVars, ResultInv
<1> QED
  BY <1>1, SystemKeepsResults, ToolStepKeepsResults DEF ToolNext

\* Handlers, files and deliveries, in every deployment.
THEOREM ToolsInvariant == ToolSpec => [](OwnershipInv /\ ToolInv)
<1>1. ToolInit => ToolInv
  BY ToolsBegin
<1>2. OwnershipInv /\ ToolInv /\ [ToolNext]_<<vars, toolVars>> => ToolInv'
  BY ToolsKeep
<1> QED
  BY <1>1, <1>2, ToolsRunTheSystem, OwnershipInvariant, PTL DEF ToolSpec

\* No claim takes effect twice, so a call takes effect as often as it was
\* claimed at most.
LEMMA EffectsAreClaims ==
  ASSUME OwnershipInv, HistoryInv, ToolInv, NEW k \in Keys
  PROVE  Len(effects[k]) <= attempts[k]
<1> DEFINE n == Len(effects[k])
           claim(x) == CHOOSE i \in ClaimEvents(events[k]) : events[k][i].fencing_token = x
           f == [j \in 1..n |-> claim(effects[k][j])]
<1>0. effects[k] \in Seq(Int) /\ events[k] \in Seq(Event) /\ n \in Nat
  BY OwnershipInvParts DEF ToolInv, ToolTypeOK, StoreInv, StoreTypeOK
<1>1. IsFiniteSet(ClaimEvents(events[k])) /\ Cardinality(ClaimEvents(events[k])) = attempts[k]
  BY <1>0, ClaimsType DEF HistoryInv, HistoryOf, Claims
<1>2. ASSUME NEW x \in ClaimTokens(events[k])
      PROVE  claim(x) \in ClaimEvents(events[k]) /\ events[k][claim(x)].fencing_token = x
  <2>1. \E i \in ClaimEvents(events[k]) : events[k][i].fencing_token = x
    BY DEF ClaimTokens
  <2> QED
    BY <2>1
<1> HIDE DEF n, claim
<1>3. \A j \in 1..n : effects[k][j] \in ClaimTokens(events[k])
  BY DEF ToolInv, CallInv, n
<1>4. \A i, j \in 1..n : i # j => effects[k][i] # effects[k][j]
  BY DEF ToolInv, CallInv, n
<1>5. \A j \in 1..n : f[j] \in ClaimEvents(events[k]) /\ events[k][f[j]].fencing_token = effects[k][j]
  BY <1>2, <1>3
<1>6. f \in [1..n -> ClaimEvents(events[k])]
  BY <1>5
<1> HIDE DEF f
<1>7. \A i, j \in 1..n : f[i] = f[j] => i = j
  BY <1>4, <1>5
<1>8. f \in Injection(1..n, ClaimEvents(events[k]))
  BY <1>6, <1>7 DEF Injection, IsInjective
<1>9. Cardinality(1..n) <= Cardinality(ClaimEvents(events[k]))
  BY <1>1, <1>8, FS_Injection
<1>10. Cardinality(1..n) = n
  BY <1>0, FS_Interval
<1> QED
  BY <1>1, <1>9, <1>10 DEF n

\* send_webhook delivers and write_file writes max_attempts times at most, over
\* failed, lost, superseded and crashed attempts together.
THEOREM EffectsAreBounded == ASSUME Deployment PROVE ToolSpec => []EffectsBounded
<1>1. ToolSpec => []HistoryInv
  BY HistoryHolds, ToolsRunTheSystem, PTL
<1>2. OwnershipInv /\ HistoryInv /\ ToolInv /\ AttemptsBounded => EffectsBounded
  <2> SUFFICES ASSUME OwnershipInv, HistoryInv, ToolInv, AttemptsBounded, NEW k \in Keys
               PROVE  Len(effects[k]) <= MaxAttempts[k]
    BY DEF EffectsBounded
  <2>1. Len(effects[k]) <= attempts[k] /\ attempts[k] <= MaxAttempts[k]
    BY EffectsAreClaims DEF AttemptsBounded
  <2>2. Len(effects[k]) \in Nat /\ attempts[k] \in Nat /\ MaxAttempts[k] \in Nat
    BY OwnershipInvParts, StoreAssumption DEF StoreInv, StoreTypeOK, ToolInv, ToolTypeOK
  <2> QED
    BY <2>1, <2>2
<1>3. ToolSpec => []AttemptsBounded
  BY AttemptsAreBounded, ToolsRunTheSystem, PTL
<1> QED
  BY <1>1, <1>2, <1>3, ToolsInvariant, PTL

\* Without posts the stored result is that of a claim that took effect.
LEMMA ResultsHold == ToolSpec => []ResultInv
<1>1. ToolInit => ResultInv
  BY ToolsBegin
<1>2. OwnershipInv /\ ReportsFit /\ ToolInv /\ ResultInv /\ [ToolNext]_<<vars, toolVars>> => ResultInv'
  BY ResultsKeep
<1> QED
  BY <1>1, <1>2, ToolsInvariant, FitHolds, ToolsRunTheSystem, PTL DEF ToolSpec

\* A completed call took effect, and the claim whose result is stored did, in every
\* deployment, unless its server was started with the test endpoint.
THEOREM CompletedCallsTookEffect == ToolSpec => []CompletedTookEffect
<1>1. ResultInv => CompletedTookEffect
  BY DEF ResultInv, CompletedTookEffect
<1> QED
  BY <1>1, ResultsHold, PTL

\* A file left in pieces under a completed write_file call was opened by a claim
\* older than the one that completed it, where no transaction is open across a tick.
THEOREM OwnersWriteWhole == ASSUME Deployment PROVE ToolSpec => []OwnerWroteWhole
<1>1. OwnershipInv /\ DeployInv /\ ToolInv /\ ResultInv => OwnerWroteWhole
  <2> SUFFICES ASSUME OwnershipInv, DeployInv, ToolInv, ResultInv, ~allowTestEnds, NEW k \in Keys,
                      status[k] = "completed", file[k].content = "part"
               PROVE  file[k].by < result[k]
    BY DEF OwnerWroteWhole
  <2>1. /\ tool[k] = "write_file" /\ file[k].by \in ClaimTokens(events[k])
        /\ ~Contains(effects[k], file[k].by)
    BY DEF ToolInv, CallInv
  <2>2. Contains(effects[k], result[k])
    BY <2>1 DEF ResultInv, Effective
  <2>3. result[k] \in Int /\ file[k].by \in Int
    BY OwnershipInvParts DEF StoreInv, StoreTypeOK, ToolInv, ToolTypeOK
  <2>4. Newest(events[k], result[k])
    BY DEF DeployInv, FencedInv
  <2>5. file[k].by <= result[k]
    BY <2>1, <2>4 DEF Newest, ClaimTokens
  <2>6. file[k].by # result[k]
    BY <2>1, <2>2
  <2> QED
    BY <2>3, <2>5, <2>6
<1> QED
  BY <1>1, ResultsHold, ToolsInvariant, DeployHolds, ToolsRunTheSystem, PTL
=============================================================================
