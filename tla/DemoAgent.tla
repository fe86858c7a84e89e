------------------------------ MODULE DemoAgent -----------------------------
(***************************************************************************)
(* The demo agent (cmd/demo-agent/main.go) beside the rest of the system:  *)
(* a loop that submits a call and, every ChaosEvery rounds, claims one     *)
(* with a short lease, abandons it, sleeps and completes it with the dead  *)
(* token.                                                                  *)
(***************************************************************************)
EXTENDS DurableSystem

CONSTANTS
  ChaosAgent,   \* the worker_id of the chaos cycle
  ChaosEvery,   \* DEMO_CHAOS_EVERY
  ChaosSleep,   \* the sleep of runChaosCycle
  MaxRounds     \* bound: rounds of the loop between restarts

\* The two numbers of runChaosCycle: a lease of 2 seconds and a sleep of 5.
ASSUME AgentAssumption ==
  /\ ChaosAgent \in Workers
  /\ ChaosEvery \in Nat
  /\ ChaosSleep \in Nat
  /\ LeaseSeconds[ChaosAgent] < ChaosSleep
  /\ MaxRounds \in Nat

VARIABLE agent   \* where the loop is, its round, and the claim of the cycle

Agent == [pc : {"submit", "chaos", "asleep", "completing", "pause"}, round : 0..MaxRounds,
          key : Keys \cup {NoKey}, token : Int, rest : Int]

Starting == [pc |-> "submit", round |-> 0, key |-> NoKey, token |-> 0, rest |-> 0]

AgentInit == Init /\ agent = Starting

-----------------------------------------------------------------------------
\* After a submission, made or failed: chaosEvery > 0 && i > 0 && i%chaosEvery == 0.
AfterSubmit ==
  IF ChaosEvery > 0 /\ agent.round > 0 /\ agent.round % ChaosEvery = 0 THEN "chaos" ELSE "pause"

Duplicates(k) == Cardinality({i \in DOMAIN events[k] : events[k][i].event_type = "duplicate_detected"})

\* submitToolCall: the key is made of the second and the round, so it is new, or a
\* second agent or a quick restart has submitted it before.  MaxCalls bounds the
\* duplicates of a key.
submitToolCall(k) ==
  /\ agent.pc = "submit"
  /\ SubmitNew(k) \/ (Duplicates(k) < MaxCalls /\ SubmitDuplicate(k))
  /\ agent' = [agent EXCEPT !.pc = AfterSubmit]
  /\ UNCHANGED open

\* The submission fails: the error is logged.
submitFails ==
  /\ agent.pc = "submit"
  /\ agent' = [agent EXCEPT !.pc = AfterSubmit]
  /\ UNCHANGED <<storeVars, open>>

\* The first half of runChaosCycle: the claim, and the start of the sleep.
chaosClaim(k, age) ==
  /\ agent.pc = "chaos"
  /\ Claim(k, ChaosAgent, age)
  /\ agent' = [agent EXCEPT !.pc = "asleep", !.key = k, !.token = NextToken(k), !.rest = ChaosSleep]
  /\ UNCHANGED open

\* ErrNoWork, or another error, after which the claim may stand: to the pause.
chaosFindsNothing ==
  /\ agent.pc = "chaos"
  /\ agent' = [agent EXCEPT !.pc = "pause"]
  /\ UNCHANGED <<storeVars, open>>

chaosReplyLost(k, age) ==
  /\ agent.pc = "chaos"
  /\ Claim(k, ChaosAgent, age)
  /\ agent' = [agent EXCEPT !.pc = "pause"]
  /\ UNCHANGED open

\* The second half: the sleep is over, before the transaction begins, and the
\* ghost completion is sent.
chaosCompletes(age) ==
  /\ agent.pc = "asleep"
  /\ agent.rest + age <= 0
  /\ BeginReport("complete", agent.key, agent.token, ChaosAgent, age)
  /\ agent' = [agent EXCEPT !.pc = "completing", !.rest = 0]

ToPause == agent' = [agent EXCEPT !.pc = "pause", !.key = NoKey, !.token = 0, !.rest = 0]

\* It commits: ErrStale is what the agent hopes for.
chaosCompleted ==
  /\ agent.pc = "completing"
  /\ \E r \in open : r.worker_id = ChaosAgent /\ CommitReport(r)
  /\ ToPause

\* The completion fails on the way or in the database: runChaosCycle returns the
\* error.
chaosLost ==
  /\ agent.pc = "completing" \/ (agent.pc = "asleep" /\ agent.rest <= 0)
  /\ RollBackReports(ChaosAgent)
  /\ ToPause
  /\ UNCHANGED storeVars

\* The sleep of DEMO_INTERVAL_SECS ends: the next round.
nextRound ==
  /\ agent.pc = "pause"
  /\ agent.round < MaxRounds
  /\ agent' = [agent EXCEPT !.pc = "submit", !.round = @ + 1]
  /\ UNCHANGED <<storeVars, open>>

\* The process dies and is started again, with i = 0.
restart ==
  /\ agent # Starting
  /\ agent' = Starting
  /\ RollBackReports(ChaosAgent)
  /\ UNCHANGED storeVars

AgentStep ==
  \/ \E k \in Keys : submitToolCall(k)
  \/ submitFails
  \/ \E k \in Keys, age \in 0..MaxTxDelay : chaosClaim(k, age) \/ chaosReplyLost(k, age)
  \/ chaosFindsNothing
  \/ \E age \in 0..MaxTxDelay : chaosCompletes(age)
  \/ chaosCompleted
  \/ chaosLost
  \/ nextRound
  \/ restart

\* The sleep runs with the clock; once over, only how long ago matters.
TickAndSleep ==
  /\ TimePasses
  /\ agent' = [agent EXCEPT !.rest = IF agent.pc = "asleep" /\ @ > -MaxTxDelay THEN @ - 1 ELSE @]

AgentNext ==
  \/ AgentStep /\ UNCHANGED <<executorVars, pass, serverVars>>
  \/ \E k \in Keys : ServerStep(k) /\ UNCHANGED <<executorVars, pass, agent>>
  \/ \E w \in Workers \ {ChaosAgent} : ExecutorStep(w) /\ UNCHANGED <<pass, serverVars, agent>>
  \/ \E g \in beating : GoroutineStep(g) /\ UNCHANGED <<pass, serverVars, agent>>
  \/ \E s \in Schedulers : SchedulerStep(s) /\ UNCHANGED <<open, executorVars, serverVars, agent>>
  \/ TickAndSleep /\ UNCHANGED <<executorVars, pass, serverVars>>

agentVars == <<vars, agent>>

AgentSpec == AgentInit /\ [][AgentNext]_agentVars

-----------------------------------------------------------------------------
AgentTypeOK == TypeOK /\ agent \in Agent

\* The tokens under which the chaos cycle claimed k.
ChaosTokens(k) == {events[k][i].fencing_token : i \in {j \in ClaimEvents(events[k]) : events[k][j].worker_id = ChaosAgent}}

\* The ghost completion is never accepted, for any delay of the transactions,
\* whether or not the reaper was in time: no call ends with {"from":"ghost"}.
GhostRejected ==
  ~allowTestEnds => \A k \in Keys : status[k] = "completed" => result[k] \notin ChaosTokens(k)

-----------------------------------------------------------------------------
\* Handlers may hang forever, and the demo agent may stop: all that goes on is the
\* heartbeat ticker of a working claim, and not every heartbeat fails for another
\* reason than ErrStale.
AgentHangingSpec ==
  /\ AgentSpec
  /\ \A w \in Workers \ {ChaosAgent} :
       WF_agentVars((\E g \in beating, age \in 0..MaxTxDelay : g.worker = w /\ Current(g) /\ BeatRejected(g, age))
                    /\ UNCHANGED <<pass, serverVars, agent>>)
=============================================================================
