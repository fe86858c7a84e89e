---------------------------- MODULE ListingProofs ---------------------------
(***************************************************************************)
(* For every number of executions, every limit and every interleaving of   *)
(* submissions: a walk through the list misses nothing that was there when *)
(* it began.                                                               *)
(***************************************************************************)
EXTENDS Listing, FiniteSetTheorems, FunctionTheorems, TLAPS

\* The executions of a table, and the rank of t among them.
Table(D) == \E n \in Nat : D \subseteq 1..n
RankIn(D, t) == Cardinality({u \in D : u > t})

\* A table is finite and its rows are numbered.
LEMMA TableType ==
  ASSUME NEW D, Table(D)
  PROVE  IsFiniteSet(D) /\ Cardinality(D) \in Nat /\ \A t \in D : t \in Int
<1>1. PICK n \in Nat : D \subseteq 1..n
  BY DEF Table
<1>2. IsFiniteSet(1..n)
  BY FS_Interval
<1>3. IsFiniteSet(D)
  BY <1>1, <1>2, FS_Subset
<1>4. Cardinality(D) \in Nat
  BY <1>3, FS_CardinalityType
<1> QED
  BY <1>1, <1>3, <1>4

\* A rank is the size of a finite set.
LEMMA RankType ==
  ASSUME NEW D, Table(D), NEW t
  PROVE  IsFiniteSet({u \in D : u > t}) /\ RankIn(D, t) \in Nat
<1> DEFINE T == {u \in D : u > t}
<1>1. T \in SUBSET D
  OBVIOUS
<1>2. RankIn(D, t) = Cardinality(T)
  BY DEF RankIn
<1> HIDE DEF T
<1>3. IsFiniteSet(T)
  BY <1>1, TableType, FS_Subset
<1>4. Cardinality(T) \in Nat
  BY <1>3, FS_CardinalityType
<1> QED
  BY <1>2, <1>3, <1>4 DEF T

\* More executions never bring one forward.
LEMMA RankGrows ==
  ASSUME NEW E, Table(E), NEW D \in SUBSET E, NEW t
  PROVE  RankIn(D, t) <= RankIn(E, t)
<1> DEFINE S == {u \in D : u > t}
           T == {u \in E : u > t}
<1>1. S \in SUBSET T
  OBVIOUS
<1>2. RankIn(D, t) = Cardinality(S) /\ RankIn(E, t) = Cardinality(T)
  BY DEF RankIn
<1>3. IsFiniteSet(T)
  BY RankType
<1> HIDE DEF S, T
<1> QED
  BY <1>1, <1>2, <1>3, FS_Subset

\* Different executions have different ranks, a newer one a lower rank.
LEMMA RankOrders ==
  ASSUME NEW D, Table(D), NEW s \in D, NEW t \in D, s > t
  PROVE  RankIn(D, s) < RankIn(D, t)
<1> DEFINE S == {u \in D : u > s}
           T == {u \in D : u > t}
<1>1. s \in Int /\ t \in Int /\ \A u \in D : u \in Int
  BY TableType
<1>2. S \in SUBSET T /\ s \in T /\ s \notin S
  <2>1. \A u \in D : u > s => u > t
    BY <1>1
  <2>2. S \in SUBSET T
    BY <2>1
  <2>3. s \in T
    OBVIOUS
  <2>4. ~(s > s)
    BY <1>1
  <2>5. s \notin S
    BY <2>4
  <2> QED
    BY <2>2, <2>3, <2>5
<1>3. RankIn(D, s) \in Nat /\ RankIn(D, t) \in Nat /\ IsFiniteSet(T)
  BY RankType
<1>4. RankIn(D, s) = Cardinality(S) /\ RankIn(D, t) = Cardinality(T)
  BY DEF RankIn
<1> HIDE DEF S, T
<1>5. Cardinality(S) <= Cardinality(T) /\ (Cardinality(T) = Cardinality(S) => T = S)
  BY <1>2, <1>3, FS_Subset
<1>6. T # S
  BY <1>2
<1> QED
  BY <1>3, <1>4, <1>5, <1>6

\* Different rows have different ranks.
LEMMA RankIsInjective ==
  ASSUME NEW D, Table(D), NEW P \in SUBSET D, NEW I,
         \A t \in P : RankIn(D, t) \in I
  PROVE  [t \in P |-> RankIn(D, t)] \in Injection(P, I)
<1> DEFINE f == [t \in P |-> RankIn(D, t)]
<1>1. \A s, t \in P : f[s] = f[t] => s = t
  <2> SUFFICES ASSUME NEW s \in P, NEW t \in P, s # t
               PROVE  RankIn(D, s) # RankIn(D, t)
    OBVIOUS
  <2>1. s \in D /\ t \in D
    OBVIOUS
  <2>2. s \in Int /\ t \in Int
    BY <2>1, TableType
  <2>3. RankIn(D, s) \in Nat /\ RankIn(D, t) \in Nat
    BY RankType
  <2>4. CASE s > t
    <3>1. RankIn(D, s) < RankIn(D, t)
      BY <2>1, <2>4, RankOrders
    <3> QED
      BY <2>3, <3>1
  <2>5. CASE t > s
    <3>1. RankIn(D, t) < RankIn(D, s)
      BY <2>1, <2>5, RankOrders
    <3> QED
      BY <2>3, <3>1
  <2> QED
    BY <2>2, <2>4, <2>5
<1>2. f \in [P -> I]
  OBVIOUS
<1> HIDE DEF f
<1>3. f \in Injection(P, I)
  BY <1>1, <1>2, Fun_IsInj
<1> QED
  BY <1>3 DEF f

\* No more executions than ranks: a set whose ranks lie in an interval is no
\* larger than the interval.
LEMMA RanksCount ==
  ASSUME NEW D, Table(D), NEW P \in SUBSET D,
         NEW low \in Nat, NEW size \in Nat,
         \A t \in P : low <= RankIn(D, t) /\ RankIn(D, t) < low + size
  PROVE  IsFiniteSet(P) /\ Cardinality(P) \in Nat /\ Cardinality(P) <= size
<1> DEFINE I == low .. (low + size - 1)
<1>1. \A t \in P : RankIn(D, t) \in I
  <2> SUFFICES ASSUME NEW t \in P
               PROVE  RankIn(D, t) \in I
    OBVIOUS
  <2>1. RankIn(D, t) \in Nat
    BY RankType
  <2> QED
    BY <2>1
<1>2. IsFiniteSet(I) /\ Cardinality(I) = size
  BY FS_Interval
<1> HIDE DEF I
<1>3. [t \in P |-> RankIn(D, t)] \in Injection(P, I)
  BY <1>1, RankIsInjective
<1>4. IsFiniteSet(P) /\ Cardinality(P) <= size
  BY <1>2, <1>3, FS_Injection
<1> QED
  BY <1>4, FS_CardinalityType

\* The ranks leave no gap: something lies behind an offset only if something
\* lies at it.
LEMMA RankAtOffset ==
  ASSUME NEW D, Table(D), NEW low \in Nat, NEW t \in D, RankIn(D, t) >= low
  PROVE  \E u \in D : RankIn(D, u) = low
<1> DEFINE size == Cardinality(D)
           I == 0 .. (size - 1)
           f == [u \in D |-> RankIn(D, u)]
<1>1. IsFiniteSet(D) /\ size \in Nat
  BY TableType
<1>2. \A u \in D : RankIn(D, u) \in I
  <2> SUFFICES ASSUME NEW u \in D
               PROVE  RankIn(D, u) \in I
    OBVIOUS
  <2> DEFINE A == {v \in D : v > u}
  <2>1. RankIn(D, u) \in Nat
    BY RankType
  <2>2. A \in SUBSET D /\ A # D
    <3>1. u \in Int
      BY TableType
    <3>2. u \notin A
      BY <3>1
    <3> QED
      BY <3>2
  <2>3. RankIn(D, u) = Cardinality(A)
    BY DEF RankIn
  <2> HIDE DEF A
  <2>4. Cardinality(A) <= size /\ size # Cardinality(A)
    BY <1>1, <2>2, FS_Subset
  <2> QED
    BY <1>1, <2>1, <2>3, <2>4
<1>3. low \in I
  <2>1. RankIn(D, t) \in I
    BY <1>2
  <2> QED
    BY <1>1, <2>1
<1> HIDE DEF size
<1>4. IsFiniteSet(I) /\ Cardinality(I) = size
  <2>1. 0 \in Int /\ size - 1 \in Int
    BY <1>1
  <2>2. IsFiniteSet(I) /\ Cardinality(I) = IF 0 > size - 1 THEN 0 ELSE (size - 1) - 0 + 1
    BY <2>1, FS_Interval
  <2> QED
    BY <1>1, <2>2
<1> HIDE DEF I
<1>5. f \in Injection(D, I)
  BY <1>2, RankIsInjective
<1> HIDE DEF f
<1>6. f \in Surjection(D, I)
  BY <1>4, <1>5, FS_Injection DEF size
<1>7. \E u \in D : f[u] = low
  BY <1>3, <1>6 DEF Surjection
<1> QED
  BY <1>7 DEF f

-----------------------------------------------------------------------------
\* Rank is RankIn of the rows there are.
LEMMA RankIsRankIn == \A t : Rank(t) = RankIn(DOMAIN updated, t)
  BY DEF Rank, Newer, RankIn

\* The rows of workflow_executions are a table.
LEMMA UpdatedIsTable == TypeOK => Table(DOMAIN updated)
  BY DEF TypeOK, Table

\* LIMIT is at least 1 whatever the client asks for.
LEMMA LimitType == \A n \in Limits : Limit(n) \in Nat /\ Limit(n) >= 1
  BY ListingAssumption DEF Limit

\* A page holds no more rows than its limit, and an empty one has nothing behind it.
LEMMA PageSize ==
  ASSUME TypeOK, NEW page, page = ListExecutions(walk.limit, walk.offset)
  PROVE  /\ page \subseteq DOMAIN updated
         /\ Cardinality(page) \in Nat
         /\ Cardinality(page) <= Limit(walk.limit)
         /\ page = {} => \A t \in DOMAIN updated : Rank(t) < Offset(walk.offset)
<1> DEFINE D == DOMAIN updated
           low == Offset(walk.offset)
<1>1. Table(D)
  BY UpdatedIsTable
<1>2. walk.limit \in Limits /\ low \in Nat
  BY DEF TypeOK, Walk, Offset
<1>3. Limit(walk.limit) \in Nat /\ Limit(walk.limit) >= 1
  BY <1>2, LimitType
<1>4. page = {t \in D : low <= RankIn(D, t) /\ RankIn(D, t) < low + Limit(walk.limit)}
  BY RankIsRankIn DEF ListExecutions
<1> HIDE DEF D, low
<1>5. Cardinality(page) \in Nat /\ Cardinality(page) <= Limit(walk.limit)
  <2>1. page \in SUBSET D /\ \A t \in page : low <= RankIn(D, t) /\ RankIn(D, t) < low + Limit(walk.limit)
    BY <1>4
  <2> QED
    BY <1>1, <1>2, <1>3, <2>1, RanksCount
<1>6. ASSUME page = {}, NEW t \in D, ~(RankIn(D, t) < low)
      PROVE  FALSE
  <2>1. RankIn(D, t) \in Nat
    BY <1>1, RankType
  <2>2. RankIn(D, t) >= low
    BY <1>2, <1>6, <2>1
  <2>3. PICK u \in D : RankIn(D, u) = low
    BY <1>1, <1>2, <2>2, RankAtOffset
  <2>4. u \in page
    BY <1>2, <1>3, <1>4, <2>3
  <2> QED
    BY <1>6, <2>4
<1> QED
  BY <1>4, <1>5, <1>6, RankIsRankIn DEF D, low

-----------------------------------------------------------------------------
\* No walk has begun.
LEMMA WalkInit == Init => WalkInv
<1> SUFFICES ASSUME Init
             PROVE  WalkInv
  OBVIOUS
<1>1. /\ walk.limit \in Limits /\ walk.offset \in Int /\ walk.offset <= 0
      /\ walk.must = {} /\ walk.seen = {} /\ walk.pc = "idle"
  BY ListingAssumption DEF Init
<1>2. walk \in Walk
  BY ListingAssumption DEF Init, Walk
<1>3. DOMAIN updated = {}
  BY DEF Init
<1>4. TypeOK
  BY <1>2, <1>3 DEF Init, TypeOK
<1> QED
  BY <1>1, <1>4 DEF WalkInv, Ahead, WalkComplete

\* A commit or an update leaves what is ahead of the walk ahead of it.
LEMMA TablesGrow ==
  ASSUME WalkInv, TypeOK', UNCHANGED walk, DOMAIN updated \subseteq DOMAIN updated'
  PROVE  WalkInv'
<1> DEFINE D == DOMAIN updated
           E == DOMAIN updated'
<1>1. Table(D) /\ Table(E)
  BY DEF WalkInv, TypeOK, Table
<1>2. \A t : Rank(t) = RankIn(D, t) /\ Rank(t)' = RankIn(E, t)
  BY DEF Rank, Newer, RankIn
<1>3. D \in SUBSET E
  OBVIOUS
<1>4. \A t \in D : Rank(t) \in Nat /\ Rank(t)' \in Nat /\ Rank(t) <= Rank(t)'
  <2> HIDE DEF D, E
  <2>1. \A t \in D : RankIn(D, t) \in Nat /\ RankIn(E, t) \in Nat /\ RankIn(D, t) <= RankIn(E, t)
    BY <1>1, <1>3, RankType, RankGrows
  <2> QED
    BY <1>2, <2>1
<1>5. Offset(walk.offset) \in Nat /\ Offset(walk'.offset) = Offset(walk.offset)
  BY DEF WalkInv, TypeOK, Walk, Offset
<1>6. Ahead'
  <2> SUFFICES ASSUME NEW t \in walk'.must \ walk'.seen
               PROVE  t \in E /\ Rank(t)' >= Offset(walk'.offset)
    BY DEF Ahead, Offset
  <2>1. t \in D /\ Rank(t) >= Offset(walk.offset)
    BY DEF WalkInv, Ahead
  <2> QED
    BY <1>3, <1>4, <1>5, <2>1
<1> QED
  BY <1>6 DEF WalkInv, WalkComplete

\* A walk that starts has passed nothing.
LEMMA StartPreserves == WalkInv /\ Start => WalkInv'
<1> SUFFICES ASSUME WalkInv, Start
             PROVE  WalkInv'
  OBVIOUS
<1>1. TypeOK'
  <2>1. DOMAIN updated \in SUBSET Nat /\ walk \in Walk
    BY DEF WalkInv, TypeOK
  <2>2. walk' \in Walk
    BY <2>1 DEF Start, Walk
  <2> QED
    BY <2>2 DEF WalkInv, TypeOK, Start
<1>2. \A t \in DOMAIN updated : Rank(t) \in Nat /\ Rank(t)' = Rank(t)
  <2>1. \A t : Rank(t) \in Nat
    BY UpdatedIsTable, RankIsRankIn, RankType DEF WalkInv
  <2> QED
    BY <2>1 DEF Start, Rank, Newer
<1>3. walk.pc = "idle" /\ walk.offset \in Int /\ walk.offset <= 0
  BY DEF WalkInv, TypeOK, Walk, Start
<1>4. walk' = [walk EXCEPT !.pc = "walking", !.must = DOMAIN updated] /\ updated' = updated
  BY DEF Start
<1>5. walk'.must = DOMAIN updated /\ walk'.offset = walk.offset /\ walk'.pc = "walking"
  BY <1>4 DEF WalkInv, TypeOK, Walk
<1>6. Offset(walk'.offset) = 0
  BY <1>3, <1>5 DEF Offset
<1>7. Ahead'
  BY <1>2, <1>4, <1>5, <1>6 DEF Ahead
<1> QED
  BY <1>1, <1>5, <1>7 DEF WalkInv, WalkComplete

\* A page shows everything between its offset and the next.
LEMMA NextPagePreserves == WalkInv /\ NextPage => WalkInv'
<1> SUFFICES ASSUME WalkInv, NextPage
             PROVE  WalkInv'
  OBVIOUS
<1> DEFINE page == ListExecutions(walk.limit, walk.offset)
           low == Offset(walk.offset)
           n == Cardinality(page)
<1>1. /\ page \subseteq DOMAIN updated
      /\ n \in Nat
      /\ n <= Limit(walk.limit)
      /\ page = {} => \A t \in DOMAIN updated : Rank(t) < low
  BY PageSize DEF WalkInv
<1>2. /\ walk' = [walk EXCEPT !.seen = @ \cup page, !.offset = @ + n,
                              !.pc = IF page = {} THEN "done" ELSE "walking"]
      /\ UNCHANGED <<begun, open, updated, now>>
  BY DEF NextPage
<1>3. walk \in Walk /\ walk.offset \in Int /\ low \in Nat /\ walk.limit \in Limits
  BY DEF WalkInv, TypeOK, Walk, Offset
<1>4. /\ walk'.must = walk.must /\ walk'.seen = walk.seen \cup page
      /\ walk'.offset = walk.offset + n
      /\ walk'.pc = IF page = {} THEN "done" ELSE "walking"
  BY <1>2, <1>3 DEF Walk
<1>5. Limit(walk.limit) \in Nat
  BY <1>3, LimitType
<1>6. \A t \in DOMAIN updated : Rank(t) \in Nat /\ Rank(t)' = Rank(t)
  <2>1. \A t : Rank(t) \in Nat
    BY UpdatedIsTable, RankIsRankIn, RankType DEF WalkInv
  <2> QED
    BY <1>2, <2>1 DEF Rank, Newer
<1>7. \A t \in walk.must \ walk'.seen : t \in DOMAIN updated /\ Rank(t) >= low /\ t \notin page
  BY <1>4 DEF WalkInv, Ahead
<1>8. \A t \in walk.must \ walk'.seen : Rank(t) >= low + Limit(walk.limit)
  BY <1>3, <1>5, <1>6, <1>7 DEF ListExecutions
<1>9. Offset(walk'.offset) <= low + n /\ Offset(walk'.offset) \in Nat
  BY <1>1, <1>3, <1>4 DEF Offset
<1>10. Ahead'
  <2> SUFFICES ASSUME NEW t \in walk'.must \ walk'.seen
               PROVE  t \in DOMAIN updated' /\ Rank(t)' >= Offset(walk'.offset)
    BY DEF Ahead
  <2>1. t \in DOMAIN updated /\ Rank(t) >= low + Limit(walk.limit)
    BY <1>4, <1>7, <1>8
  <2> HIDE DEF low, n
  <2> QED
    BY <1>1, <1>2, <1>3, <1>5, <1>6, <1>9, <2>1
<1>11. WalkComplete'
  BY <1>1, <1>3, <1>4, <1>6, <1>7 DEF WalkComplete
<1>12. page \subseteq Nat
  BY <1>1 DEF WalkInv, TypeOK
<1>13. TypeOK'
  <2> DEFINE seen == walk.seen \cup page
             offset == walk.offset + n
             pc == IF page = {} THEN "done" ELSE "walking"
  <2>1. seen \in SUBSET Nat
    BY <1>3, <1>12 DEF Walk
  <2>2. offset \in Int /\ pc \in {"idle", "walking", "done"}
    BY <1>1, <1>3
  <2>3. walk' = [walk EXCEPT !.seen = seen, !.offset = offset, !.pc = pc]
    BY <1>2
  <2> HIDE DEF seen, offset, pc
  <2>4. walk' \in Walk
    BY <1>3, <2>1, <2>2, <2>3 DEF Walk
  <2> QED
    BY <1>2, <2>4 DEF WalkInv, TypeOK
<1> QED
  BY <1>4, <1>10, <1>11, <1>13 DEF WalkInv

\* Submissions, writes, pages and starts of a walk keep its promise.
LEMMA WalkStep == WalkInv /\ [Next]_vars => WalkInv'
<1> SUFFICES ASSUME WalkInv, [Next]_vars
             PROVE  WalkInv'
  OBVIOUS
<1>1. CASE Begin
  BY <1>1, TablesGrow DEF Begin, WalkInv, TypeOK
<1>2. ASSUME NEW t \in open, Commit(t)
      PROVE  WalkInv'
  BY <1>2, TablesGrow DEF Commit, Touch, WalkInv, TypeOK
<1>3. ASSUME NEW t \in DOMAIN updated, Update(t)
      PROVE  WalkInv'
  BY <1>3, TablesGrow DEF Update, Touch, WalkInv, TypeOK
<1>4. CASE Start
  BY <1>4, StartPreserves
<1>5. CASE NextPage
  BY <1>5, NextPagePreserves
<1>6. CASE UNCHANGED vars
  BY <1>6, TablesGrow DEF vars, WalkInv, TypeOK
<1> QED
  BY <1>1, <1>2, <1>3, <1>4, <1>5, <1>6 DEF Next

\* The invariant of a walk holds for every number of executions, every limit and
\* every order of submissions, updates and pages.
THEOREM WalkInvariant == Spec => []WalkInv
  BY WalkInit, WalkStep, PTL DEF Spec

\* ListExecutions never makes a walk miss an execution.
THEOREM WalksAreComplete == Spec => []WalkComplete
<1>1. WalkInv => WalkComplete
  BY DEF WalkInv
<1> QED
  BY <1>1, WalkInvariant, PTL
=============================================================================
