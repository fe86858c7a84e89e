-------------------------- MODULE HeartbeatProofs ---------------------------
(***************************************************************************)
(* For every period, timeout and latency: a handler never runs without a   *)
(* lease for longer than ZombieBound, and where the timeout leaves room    *)
(* for one failed round-trip, the lease is never lost.                     *)
(***************************************************************************)
EXTENDS HeartbeatTiming, TLAPS

\* Every step of the goroutine keeps the distance to the next healthy BEGIN
\* within what has been waited for already.
LEMMA TimingStep == TimingInv /\ [Next]_vars => TimingInv'
<1> SUFFICES ASSUME TimingInv, [Next]_vars
             PROVE  TimingInv'
  OBVIOUS
<1>a. period \in Nat /\ period > 0 /\ Timeout \in Nat /\ Latency \in Nat
  BY TimingAssumption DEF TimingInv, TypeOK
<1>b. period' = period /\ period' \in Periods
  BY DEF Next, vars, TimingInv, TypeOK
<1> USE <1>a, <1>b DEF TimingInv, TypeOK, Limit, Busy, NextCall, Reach, Gap, Longest, ZombieBound
<1>1. CASE Fire
  BY <1>1 DEF Fire
<1>2. CASE Call
  <2>1. due' \in BOOLEAN /\ failed' \in BOOLEAN /\ told' \in BOOLEAN
    BY <1>2 DEF Call
  <2>2. CASE call' = "out"
    BY <1>2, <2>1, <2>2 DEF Call
  <2>3. CASE call' = "failing"
    BY <1>2, <2>1, <2>3 DEF Call
  <2> QED
    BY <1>2, <2>2, <2>3 DEF Call
<1>3. CASE Extend
  BY <1>3 DEF Extend
<1>4. CASE Reject
  BY <1>4 DEF Reject
<1>5. CASE Reply
  <2>1. due' \in BOOLEAN /\ failed' \in BOOLEAN /\ told' \in BOOLEAN
    BY <1>5 DEF Reply
  <2> QED
    BY <1>5, <2>1 DEF Reply
<1>6. CASE ReplyStale
  BY <1>6 DEF ReplyStale
<1>7. CASE ExtendUnheard
  BY <1>7 DEF ExtendUnheard
<1>8. CASE GiveUp
  BY <1>8 DEF GiveUp
<1>9. CASE Pass
  BY <1>9 DEF Pass
<1>10. CASE UNCHANGED vars
  BY <1>10 DEF vars
<1> QED
  BY <1>1, <1>2, <1>3, <1>4, <1>5, <1>6, <1>7, <1>8, <1>9, <1>10 DEF Next

\* A claim starts with a lease that the latency of its reply has shortened.
LEMMA TimingInit == Init => TimingInv
<1> SUFFICES ASSUME Init PROVE TimingInv
  OBVIOUS
<1>a. period \in Nat /\ period > 0 /\ Timeout \in Nat /\ Latency \in Nat
  BY TimingAssumption DEF Init
<1> USE <1>a DEF Init, Limit, Busy, NextCall, Reach, Gap, Longest, ZombieBound
<1>0. due \in BOOLEAN /\ failed \in BOOLEAN /\ told \in BOOLEAN
  OBVIOUS
<1>1. TypeOK
  BY <1>0 DEF TypeOK
<1>2. Reach = period + Gap + Latency
  OBVIOUS
<1>3. lease + ZombieBound >= Reach + Latency
  BY <1>2
<1> QED
  BY <1>1, <1>3 DEF TimingInv

\* The timing invariant holds in every execution of the heartbeat goroutine.
THEOREM TimingHolds == Spec => []TimingInv
  BY TimingInit, TimingStep, PTL DEF Spec

\* A handler without a lease is told within ZombieBound, whatever the timeout.
THEOREM ZombiesAreTold == Spec => []ZombieBounded
<1>1. TimingInv => ZombieBounded
  BY TimingAssumption
  DEF TimingInv, TypeOK, Limit, Busy, NextCall, Reach, Gap, Longest, ZombieBound, ZombieBounded
<1> QED
  BY <1>1, TimingHolds, PTL

-----------------------------------------------------------------------------
\* With room for one failed round-trip, no step of the goroutine or of the clock
\* brings the lease below the distance to the next healthy BEGIN.
LEMMA KeptStep == KeptInv /\ [Next]_vars => KeptInv'
<1> SUFFICES ASSUME KeptInv, [Next]_vars, Tolerant'
             PROVE  KeptInv'
  BY DEF KeptInv
<1>a. period' = period
  BY DEF Next, vars
<1>b. Tolerant
  BY <1>a DEF Tolerant, Gap, Longest
<1>0. TimingInv'
  BY <1>b, TimingStep DEF KeptInv
<1>c. period \in Nat /\ period > 0 /\ Timeout \in Nat /\ Latency \in Nat
  <2>1. period \in Periods
    BY <1>b DEF KeptInv, TimingInv, TypeOK
  <2> QED
    BY <2>1, TimingAssumption
<1> USE <1>a, <1>b, <1>c, <1>0
    DEF KeptInv, TimingInv, TypeOK, Limit, Busy, NextCall, Reach, Gap, Longest, Tolerant
<1>1. CASE Fire
  BY <1>1 DEF Fire
<1>2. CASE Call
  BY <1>2 DEF Call
<1>3. CASE Extend
  BY <1>3 DEF Extend
<1>4. CASE Reject
  BY <1>4 DEF Reject
<1>5. CASE Reply
  BY <1>5 DEF Reply
<1>6. CASE ReplyStale
  BY <1>6 DEF ReplyStale
<1>7. CASE ExtendUnheard
  BY <1>7 DEF ExtendUnheard
<1>8. CASE GiveUp
  BY <1>8 DEF GiveUp
<1>9. CASE Pass
  BY <1>9 DEF Pass
<1>10. CASE UNCHANGED vars
  BY <1>10 DEF vars
<1> QED
  BY <1>1, <1>2, <1>3, <1>4, <1>5, <1>6, <1>7, <1>8, <1>9, <1>10 DEF Next

\* A worker whose heartbeats fail one at a time keeps its lease, for every
\* lease, timeout and latency that leave room for one failure.
THEOREM LeaseIsKept == Spec => []LeaseKept
<1>1. Init => KeptInv
  BY TimingInit, TimingAssumption
  DEF Init, KeptInv, Tolerant, Limit, Busy, NextCall, Reach, Gap, Longest
<1>2. KeptInv => LeaseKept
  BY TimingAssumption
  DEF KeptInv, TimingInv, TypeOK, LeaseKept, Limit, Busy, NextCall, Reach, Gap, Longest
<1>3. KeptInv /\ [Next]_vars => KeptInv'
  BY KeptStep
<1> QED
  BY <1>1, <1>2, <1>3, PTL DEF Spec
=============================================================================
