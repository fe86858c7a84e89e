------------------------------- MODULE Listing ------------------------------
(***************************************************************************)
(* A client that walks through GET /api/v1/executions page by page, while  *)
(* calls are submitted and executed: listExecutions of internal/api and    *)
(* ListExecutions of query.go, ORDER BY created_at DESC, LIMIT and OFFSET. *)
(*                                                                         *)
(* An execution is its created_at, the BEGIN of the transaction that       *)
(* submitted it; another may begin later and commit earlier.  No two begin *)
(* in the same microsecond.                                                *)
(***************************************************************************)
EXTENDS Integers, FiniteSets

CONSTANTS
  DefaultLimit,  \* 50
  MaxLimit,      \* 200
  Limits,        \* the limits clients ask for
  Offsets,       \* the offsets a walk starts at: 0 and what is taken for it
  MaxSubmits     \* bound: submissions

ASSUME ListingAssumption ==
  /\ DefaultLimit \in Nat \ {0} /\ MaxLimit \in Nat
  /\ DefaultLimit <= MaxLimit
  /\ Limits \subseteq Int
  /\ Offsets \subseteq {n \in Int : n <= 0}
  /\ MaxSubmits \in Nat

VARIABLES
  begun,     \* submissions begun so far
  open,      \* those that have not committed
  updated,   \* the committed executions, by the time of their last update
  now,       \* how many updates there have been
  walk       \* the client: its limit, next offset, what it has been shown

vars == <<begun, open, updated, now, walk>>

\* must: what was there when the walk began.
Walk == [limit : Limits, offset : Int, seen : SUBSET Nat, must : SUBSET Nat, pc : {"idle", "walking", "done"}]

Init ==
  /\ begun = 0
  /\ open = {}
  /\ updated = << >>
  /\ now = 0
  /\ walk \in [limit : Limits, offset : Offsets, seen : {{}}, must : {{}}, pc : {"idle"}]

-----------------------------------------------------------------------------
\* Submit begins: created_at is set.
Begin ==
  /\ begun < MaxSubmits
  /\ begun' = begun + 1
  /\ open' = open \cup {begun + 1}
  /\ UNCHANGED <<updated, now, walk>>

Touch(t) == updated' = [u \in DOMAIN updated \cup {t} |-> IF u = t THEN now + 1 ELSE updated[u]]

Commit(t) ==
  /\ t \in open
  /\ open' = open \ {t}
  /\ Touch(t)
  /\ now' = now + 1
  /\ UNCHANGED <<begun, walk>>

\* Anything else that is written to an execution sets updated_at.
Update(t) ==
  /\ t \in DOMAIN updated
  /\ now < 2 * MaxSubmits
  /\ Touch(t)
  /\ now' = now + 1
  /\ UNCHANGED <<begun, open, walk>>

-----------------------------------------------------------------------------
\* Variant of Newer for ORDER BY updated_at DESC.
NewerByUpdate(u, t) == updated[u] > updated[t]

\* ORDER BY created_at DESC.
Newer(u, t) == u > t

\* The rows before t in the list.
Rank(t) == Cardinality({u \in DOMAIN updated : Newer(u, t)})

\* The clamps of ListExecutions.
Limit(limit) == IF limit <= 0 \/ limit > MaxLimit THEN DefaultLimit ELSE limit
Offset(offset) == IF offset < 0 THEN 0 ELSE offset

ListExecutions(limit, offset) ==
  {t \in DOMAIN updated : Offset(offset) <= Rank(t) /\ Rank(t) < Offset(offset) + Limit(limit)}

Start ==
  /\ walk.pc = "idle"
  /\ walk' = [walk EXCEPT !.pc = "walking", !.must = DOMAIN updated]
  /\ UNCHANGED <<begun, open, updated, now>>

\* The client asks for what follows the rows it has been shown, and stops at an
\* empty page.
NextPage ==
  /\ walk.pc = "walking"
  /\ LET page == ListExecutions(walk.limit, walk.offset)
     IN walk' = [walk EXCEPT !.seen = @ \cup page, !.offset = @ + Cardinality(page),
                             !.pc = IF page = {} THEN "done" ELSE "walking"]
  /\ UNCHANGED <<begun, open, updated, now>>

Next ==
  \/ Begin
  \/ \E t \in open : Commit(t)
  \/ \E t \in DOMAIN updated : Update(t)
  \/ Start
  \/ NextPage

Spec == Init /\ [][Next]_vars

-----------------------------------------------------------------------------
\* What is committed or open has begun.
TypeOK ==
  /\ begun \in Nat
  /\ open \subseteq 1..begun
  /\ DOMAIN updated \subseteq 1..begun
  /\ walk \in Walk

\* A walk that ends has shown every execution that was there when it began,
\* although the offsets shift under it with every submission that commits.
WalkComplete == walk.pc = "done" => walk.must \subseteq walk.seen

\* What it has not been shown yet lies at its next offset or behind it: a row is
\* pushed back by the commit of a newer one, and never moves forward.
Ahead ==
  \A t \in walk.must \ walk.seen : t \in DOMAIN updated /\ Rank(t) >= Offset(walk.offset)

WalkInv ==
  /\ TypeOK
  /\ Ahead
  /\ walk.pc = "idle" => walk.must = {} /\ walk.offset <= 0
  /\ WalkComplete
=============================================================================
