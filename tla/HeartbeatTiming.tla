-------------------------- MODULE HeartbeatTiming ---------------------------
(***************************************************************************)
(* Executor.heartbeat (internal/executor/engine.go) in real time: a ticker *)
(* of a third of the lease, whose channel buffers one tick, round-trips    *)
(* bounded by HeartbeatTimeout, and the lease they extend.                 *)
(*                                                                         *)
(* A healthy round-trip takes at most Latency from the call to its BEGIN   *)
(* and at most Latency from there to the reply.  Now and then one fails,   *)
(* early or after the whole timeout, but no two in a row.                  *)
(***************************************************************************)
EXTENDS Integers

CONSTANTS
  Periods,   \* LeaseSeconds / 3 of the workers: a lease is three periods
  Timeout,   \* HeartbeatTimeout
  Latency    \* of one way of a healthy round-trip

ASSUME TimingAssumption ==
  /\ Periods \subseteq Nat \ {0}
  /\ Timeout \in Nat
  /\ Latency \in Nat

VARIABLES
  period,   \* that of this worker
  lease,    \* time until lease_expires; 0 or less when it has lapsed
  fires,    \* time until the ticker fires
  due,      \* a tick waits in the ticker's channel
  call,     \* none, out, back (extended), stale (ErrStale) or failing
  age,      \* time since the call, or since its BEGIN, began
  failed,   \* the last round-trip failed
  told      \* cancel was called: the handler's context is done

vars == <<period, lease, fires, due, call, age, failed, told>>

Init ==
  /\ period \in Periods
  /\ lease \in 3 * period - Latency .. 3 * period
  /\ fires = period
  /\ due = FALSE
  /\ call = "none"
  /\ age = 0
  /\ failed = FALSE
  /\ told = FALSE

\* Variant of Fire over an unbuffered channel: a tick during a call is lost.
FireUnbuffered ==
  /\ fires = 0
  /\ fires' = period
  /\ due' = (due \/ call = "none")
  /\ UNCHANGED <<lease, call, age, failed, told>>

\* The ticker puts a tick into its channel, or drops it when one is waiting.
Fire ==
  /\ fires = 0
  /\ fires' = period
  /\ due' = TRUE
  /\ UNCHANGED <<lease, call, age, failed, told>>

\* The goroutine takes the tick and calls Heartbeat.
Call ==
  /\ due /\ call = "none"
  /\ due' = FALSE
  /\ call' \in IF failed THEN {"out"} ELSE {"out", "failing"}
  /\ age' = 0
  /\ UNCHANGED <<lease, fires, failed, told>>

\* The UPDATE: now() is here, and lease_expires > now() decides.
Extend ==
  /\ call = "out"
  /\ lease > 0
  /\ lease' = 3 * period
  /\ call' = "back"
  /\ age' = 0
  /\ UNCHANGED <<fires, due, failed, told>>

Reject ==
  /\ call = "out"
  /\ lease <= 0
  /\ call' = "stale"
  /\ age' = 0
  /\ UNCHANGED <<lease, fires, due, failed, told>>

Reply ==
  /\ call = "back"
  /\ call' = "none"
  /\ failed' = FALSE
  /\ UNCHANGED <<lease, fires, due, age, told>>

\* Variant of ReplyStale that logs the error like any other and goes on.
ReplyStaleIgnored ==
  /\ call = "stale"
  /\ call' = "none"
  /\ failed' = FALSE
  /\ UNCHANGED <<lease, fires, due, age, told>>

\* ErrStale: cancel, and the goroutine returns.
ReplyStale ==
  /\ call = "stale"
  /\ call' = "none"
  /\ told' = TRUE
  /\ UNCHANGED <<lease, fires, due, age, failed>>

\* The UPDATE of a round-trip that fails later may still commit.
ExtendUnheard ==
  /\ call = "failing"
  /\ lease > 0
  /\ lease' = 3 * period
  /\ UNCHANGED <<fires, due, call, age, failed, told>>

\* Another error than ErrStale, at the latest when hbCtx runs out: logged only.
GiveUp ==
  /\ call = "failing"
  /\ call' = "none"
  /\ failed' = TRUE
  /\ UNCHANGED <<lease, fires, due, age, told>>

Limit == IF call = "failing" THEN Timeout ELSE Latency

\* Time passes, but not while the ticker, the goroutine or a reply is due.
Pass ==
  /\ fires > 0
  /\ call = "none" => ~due
  /\ call # "none" => age < Limit
  /\ lease' = lease - 1
  /\ fires' = fires - 1
  /\ age' = IF call = "none" THEN age ELSE age + 1
  /\ UNCHANGED <<due, call, failed, told>>

Next ==
  /\ ~told
  /\ UNCHANGED period
  /\ Fire \/ Call \/ Extend \/ Reject \/ Reply \/ ReplyStale \/ ExtendUnheard \/ GiveUp \/ Pass

Spec == Init /\ [][Next]_vars

-----------------------------------------------------------------------------
Longest(m, n) == IF m < n THEN n ELSE m

\* Between the end of one call and the start of the next but one, when one
\* round-trip fails in between.
Gap == Longest(Timeout, period)

TypeOK ==
  /\ period \in Periods
  /\ lease \in Int
  /\ fires \in 0..period
  /\ due \in BOOLEAN /\ failed \in BOOLEAN /\ told \in BOOLEAN
  /\ call \in {"none", "out", "back", "stale", "failing"}
  /\ age \in Nat

\* The timeout and the latency leave room for one failed round-trip.
Tolerant == Gap + 2 * Latency < 2 * period

\* A worker whose heartbeats fail one at a time never loses its lease: neither
\* the buffered tick nor the timeout lets the gap between two extensions grow
\* to the length of the lease.
LeaseKept == Tolerant => lease > 0 /\ ~told

\* However long the timeout is, a handler works on without a lease for no longer
\* than this before its context is cancelled.
ZombieBound == Longest(period, Latency) + Gap + 2 * Latency

ZombieBounded == told \/ -lease <= ZombieBound

-----------------------------------------------------------------------------
(* The inductive invariant: how far away the next healthy BEGIN can be.      *)

\* The rest of the call in flight.
Busy == IF call = "none" THEN 0 ELSE Limit - age

\* The goroutine calls Heartbeat again no later than this.
NextCall == IF due THEN Busy ELSE Longest(Busy, fires)

\* The next healthy UPDATE is no further away than this.
Reach ==
  CASE call = "out" -> Busy
    [] call = "stale" -> 0
    [] call = "failing" \/ (call = "none" /\ failed) -> NextCall + Latency
    [] OTHER -> NextCall + Gap + Latency

TimingInv ==
  /\ TypeOK
  /\ call # "none" => age <= Limit
  /\ lease <= 3 * period
  /\ ~told => lease + ZombieBound >= Reach + (IF call = "stale" THEN Busy ELSE Latency)

KeptInv == Tolerant => TimingInv /\ ~told /\ call # "stale" /\ lease > Reach
=============================================================================
