----------------------------- MODULE ToolEffects ----------------------------
(***************************************************************************)
(* What the tools of internal/executor/handlers.go do to the outside world *)
(* while the runtime retries, supersedes, cancels and crashes their        *)
(* attempts: write_file truncates and then writes a file in a directory    *)
(* that the executors of one host share, send_webhook posts a delivery,    *)
(* slow_compute and call_api leave nothing behind.                         *)
(***************************************************************************)
EXTENDS DurableSystem, SequencesExt

\* The registry of DemoTools; Handlers has an entry for each.
DemoTools == {"slow_compute", "call_api", "write_file", "send_webhook"}

VARIABLES
  tool,     \* per key, the tool called
  broken,   \* the keys whose arguments say fail, or do not name a path or url
  doing,    \* per worker, how far its handler is
  file,     \* per key, what is at its path, and the token of who wrote it last
  effects   \* per key, the tokens whose attempt took effect, in order

toolVars == <<tool, broken, doing, file, effects>>

ToolInit ==
  /\ Init
  /\ tool \in [Keys -> DemoTools]
  /\ broken \in SUBSET Keys
  /\ doing = [w \in Workers |-> "nothing"]
  /\ file = [k \in Keys |-> [content |-> "none", by |-> 0]]
  /\ effects = [k \in Keys |-> << >>]

-----------------------------------------------------------------------------
\* The handler of worker w is at a point of its code.
At(w, tools, point) ==
  /\ run[w].pc = "working"
  /\ tool[run[w].key] \in tools
  /\ doing[w] = point

GoesTo(w, point) == doing' = [doing EXCEPT ![w] = point]

TakesEffect(w) == effects' = [effects EXCEPT ![run[w].key] = Append(@, run[w].token)]

Holds(w, content) ==
  file' = [file EXCEPT ![run[w].key] = [content |-> content, by |-> run[w].token]]

\* Variant of forcedFailure that lets the handler go on.
forcedFailureIgnored(w) ==
  /\ At(w, DemoTools, "begun")
  /\ GoesTo(w, "checked")
  /\ UNCHANGED <<file, effects>>

\* forcedFailure and the checks of the arguments come before anything is done.
forcedFailure(w) ==
  /\ At(w, DemoTools, "begun")
  /\ GoesTo(w, IF run[w].key \in broken THEN "erred" ELSE "checked")
  /\ UNCHANGED <<file, effects>>

\* The select of slow_compute: the context or the timer.
slowCompute(w) ==
  /\ At(w, {"slow_compute"}, "checked")
  /\ \/ run[w].lost /\ GoesTo(w, "erred")
     \/ GoesTo(w, "done")
  /\ UNCHANGED <<file, effects>>

\* Any answer is a success, whatever its HTTP status; Do may fail.
callAPI(w) ==
  /\ At(w, {"call_api"}, "checked")
  /\ \/ GoesTo(w, "erred")
     \/ GoesTo(w, "done")
  /\ UNCHANGED <<file, effects>>

\* os.WriteFile opens the file with O_TRUNC, without a look at the context.
truncate(w) ==
  /\ At(w, {"write_file"}, "checked")
  /\ GoesTo(w, "opened")
  /\ Holds(w, "part")
  /\ UNCHANGED effects

\* The content is written and the file closed.
write(w) ==
  /\ At(w, {"write_file"}, "opened")
  /\ GoesTo(w, "done")
  /\ Holds(w, "whole")
  /\ TakesEffect(w)

\* Variant of writeFails whose error is dropped.
writeFailsSilently(w) ==
  /\ doing[w] \in {"checked", "opened"} /\ At(w, {"write_file"}, doing[w])
  /\ GoesTo(w, "done")
  /\ UNCHANGED <<file, effects>>

\* The directory, the open or the write fails; what is there stays.
writeFails(w) ==
  /\ doing[w] \in {"checked", "opened"} /\ At(w, {"write_file"}, doing[w])
  /\ GoesTo(w, "erred")
  /\ UNCHANGED <<file, effects>>

\* The request of send_webhook reaches the receiver.
post(w) ==
  /\ At(w, {"send_webhook"}, "checked")
  /\ ~run[w].lost
  /\ GoesTo(w, "posted")
  /\ TakesEffect(w)
  /\ UNCHANGED file

\* The receiver answers, with any status.
postAnswered(w) ==
  /\ At(w, {"send_webhook"}, "posted")
  /\ GoesTo(w, "done")
  /\ UNCHANGED <<file, effects>>

\* Variant of postFails that posts again when no answer came.
postFailsAndRetries(w) ==
  /\ doing[w] \in {"checked", "posted"} /\ At(w, {"send_webhook"}, doing[w])
  /\ GoesTo(w, "checked")
  /\ UNCHANGED <<file, effects>>

\* Do fails: before the request is out, or after, when the context is cancelled
\* or the answer is lost on the way.
postFails(w) ==
  /\ doing[w] \in {"checked", "posted"} /\ At(w, {"send_webhook"}, doing[w])
  /\ GoesTo(w, "erred")
  /\ UNCHANGED <<file, effects>>

ToolStep(w) ==
  /\ \/ forcedFailure(w)
     \/ slowCompute(w)
     \/ callAPI(w)
     \/ truncate(w) \/ write(w) \/ writeFails(w)
     \/ post(w) \/ postAnswered(w) \/ postFails(w)
  /\ UNCHANGED <<vars, tool, broken>>

-----------------------------------------------------------------------------
\* A handler begins with its claim and ends when execute goes on or dies.
Follow ==
  doing' = [w \in Workers |->
    CASE run'[w].pc # "working" -> "nothing"
      [] run'[w].pc = "working" /\ run[w].pc # "working" -> "begun"
      [] OTHER -> doing[w]]

\* The runtime, with the handler's return value decided by what the tool did.
SystemStep ==
  /\ \/ \E k \in Keys : ServerStep(k) /\ UNCHANGED <<executorVars, pass>>
     \/ \E w \in Workers :
          /\ \/ RuntimeStep(w)
             \/ doing[w] = "done" /\ HandlerSucceeds(w)
             \/ doing[w] = "erred" /\ (HandlerFails(w) \/ HandlerAborts(w))
          /\ UNCHANGED <<pass, serverVars>>
     \/ \E g \in beating : GoroutineStep(g) /\ UNCHANGED <<pass, serverVars>>
     \/ \E s \in Schedulers : SchedulerStep(s) /\ UNCHANGED <<open, executorVars, serverVars>>
     \/ TimePasses /\ UNCHANGED <<executorVars, pass, serverVars>>
  /\ Follow
  /\ UNCHANGED <<tool, broken, file, effects>>

ToolNext == SystemStep \/ \E w \in Workers : ToolStep(w)

ToolSpec == ToolInit /\ [][ToolNext]_<<vars, toolVars>>

-----------------------------------------------------------------------------
Effective == {"write_file", "send_webhook"}

ToolTypeOK ==
  /\ tool \in [Keys -> DemoTools]
  /\ broken \subseteq Keys
  /\ doing \in [Workers -> {"nothing", "begun", "checked", "opened", "posted", "done", "erred"}]
  /\ file \in [Keys -> [content : {"none", "part", "whole"}, by : Int]]
  /\ effects \in [Keys -> Seq(Int)]
  /\ \A w \in Workers : doing[w] = "nothing" <=> run[w].pc # "working"

\* At-least-once (README): a completed call took effect, and the attempt whose
\* result is stored is one that did, not merely some attempt before it.
CompletedTookEffect ==
  ~allowTestEnds => \A k \in Keys : status[k] = "completed" =>
    /\ k \notin broken
    /\ tool[k] \in Effective => Contains(effects[k], result[k])

\* A side effect is repeated at most once per attempt, so at most max_attempts
\* times, over failures, lost answers, lost leases and crashes together.
EffectsBounded == \A k \in Keys : Len(effects[k]) <= MaxAttempts[k]

\* The attempt that completed a write_file call left its file whole: a file in
\* pieces under a completed call was last opened by an older attempt.
OwnerWroteWhole ==
  ~allowTestEnds => \A k \in Keys : (status[k] = "completed" /\ file[k].content = "part") => file[k].by < result[k]
=============================================================================
