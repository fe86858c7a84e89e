-------------------------- MODULE DashboardProofs ---------------------------
(***************************************************************************)
(* The history and the page, proved.  In every deployment the attempts     *)
(* column counts the claims of the history.  With one scheduler, no        *)
(* delayed transactions and no test endpoint, a page made of two snapshots *)
(* fits together and never goes back, on top of DurableSystemProofs.       *)
(***************************************************************************)
EXTENDS Dashboard, DurableSystemProofs

\* The page writes nothing.
LEMMA DashboardStutters == DashboardSpec => Spec
<1>1. DashboardInit => Init
  BY DEF DashboardInit
<1>2. [DashboardNext]_dashboardVars => [Next]_vars
  BY DEF DashboardNext, dashboardVars
<1> QED
  BY <1>1, <1>2, PTL DEF DashboardSpec, Spec

\* Any number of schedulers, any delays: the attempts column counts the claims
\* of the history, through every retry, expiry, crash and lost reply.
THEOREM AttemptsCountClaims == DashboardSpec => []AttemptsAreClaims
<1>1. HistoryInv => AttemptsAreClaims
  BY DEF HistoryInv, HistoryOf, AttemptsAreClaims
<1> QED
  BY <1>1, HistoryHolds, DashboardStutters, PTL

-----------------------------------------------------------------------------
(* One scheduler, no delays, no test endpoint: the page.                   *)

\* The history tells who completed.
EndingInv == \A k \in Keys : status[k] = "completed" <=> CompletedIn(events[k])

\* What a page was shown is still so, or was left behind by something newer.
Grows(k) ==
  /\ attempts[k] <= attempts'[k]
  /\ Claims(events[k]) <= Claims(events'[k])
  /\ ClaimTokens(events[k]) \subseteq ClaimTokens(events'[k])
  /\ status[k] = "completed" => status'[k] = "completed" /\ result'[k] = result[k]

\* Attempts, claims and completions only accumulate.
LEMMA WatchedGrows ==
  ASSUME Deployment, WholeInv, OwnershipInv', ~allowTestEnds, EndingInv, [Next]_vars
  PROVE  EndingInv' /\ \A k \in Keys : Grows(k)
<1> SUFFICES ASSUME NEW k \in Keys
             PROVE  (status'[k] = "completed" <=> CompletedIn(events'[k])) /\ Grows(k)
  BY DEF EndingInv
<1>1. /\ Logs(k)
      /\ status[k] = "completed" => status'[k] = "completed" /\ result'[k] = result[k]
      /\ status[k] = "completed" <=> CompletedIn(events[k])
      /\ attempts[k] \in Nat /\ Claims(events[k]) = attempts[k]
  BY StepLogs, DeployStep, FinishedIsFinal, OwnershipInvParts
     DEF WholeInv, EndingInv, HistoryInv, HistoryOf, StoreInv, StoreTypeOK
<1>2. CASE Quiet(k)
  BY <1>1, <1>2 DEF Quiet, SaysTheSame, Grows
<1>3. CASE Took(k)
  BY <1>1, <1>3 DEF Took, Grows
<1>4. CASE Ended(k)
  BY <1>1, <1>4 DEF Ended, Grows
<1> QED
  BY <1>1, <1>2, <1>3, <1>4 DEF Logs

\* A row that was shown.
Shown(row) ==
  /\ row.attempts <= attempts[Watched]
  /\ row.lease.worker_id # NoWorker => row.lease.fencing_token \in ClaimTokens(events[Watched])
  /\ row.status = "completed" => status[Watched] = "completed" /\ row.result = result[Watched]

\* A history that was shown.
Listed(history) ==
  /\ Claims(history) <= attempts[Watched]
  /\ CompletedIn(history) => status[Watched] = "completed"

\* The later response knows what the first one shows.
Fits(first, row, history) ==
  /\ first = "row" =>
       /\ Claims(history) >= row.attempts
       /\ row.status = "completed" => CompletedIn(history)
  /\ first = "history" =>
       /\ Claims(history) <= row.attempts
       /\ CompletedIn(history) => row.status = "completed"

\* A row read after another.
Follows(row, before) ==
  /\ before.attempts <= row.attempts
  /\ (row.lease.worker_id # NoWorker /\ before.lease.worker_id # NoWorker) =>
       before.lease.fencing_token <= row.lease.fencing_token
  /\ before.status = "completed" => row.status = "completed" /\ row.result = before.result

\* The inductive invariant of the page.
PageInv ==
  /\ DashboardTypeOK
  /\ page.row # Unread => Shown(page.row)
  /\ page.before # Unread => Shown(page.before)
  /\ page.history # Unread => Listed(page.history)
  /\ page.first = "none" => page.row = Unread /\ page.history = Unread
  /\ page.first = "row" => page.row # Unread
  /\ page.first = "history" => page.history # Unread
  /\ Rendered => Fits(page.first, page.row, page.history)
  /\ (page.row # Unread /\ page.before # Unread) => Follows(page.row, page.before)
  /\ page.pc = "ok" => Rendered
  /\ page.pc = "pausing" => page.attempt < 2 /\ page.row = Unread /\ page.history = Unread /\ page.first = "none"

\* A row fetched now is one to show, and follows whatever was shown.
LEMMA RowNow ==
  ASSUME OwnershipInv, HistoryInv
  PROVE  /\ GetExecution(Watched) \in Row /\ Shown(GetExecution(Watched))
         /\ \A row \in Row : Shown(row) => Follows(GetExecution(Watched), row)
<1>1. /\ Watched \in Keys
      /\ status[Watched] \in Status /\ attempts[Watched] \in Nat /\ result[Watched] \in Int /\ lease[Watched] \in Lease
      /\ events[Watched] \in Seq(Event)
      /\ HasLease(Watched) => Newest(events[Watched], lease[Watched].fencing_token)
      /\ HistoryOf(Watched)
  BY DashboardAssumption, OwnershipInvParts DEF StoreInv, StoreTypeOK, KeyInv, HistoryInv
<1>2. GetExecution(Watched) \in Row /\ Shown(GetExecution(Watched))
  BY <1>1 DEF GetExecution, Row, Shown, HistoryOf, HasLease
<1>3. ASSUME NEW row \in Row, Shown(row)
      PROVE  Follows(GetExecution(Watched), row)
  <2>1. ASSUME HasLease(Watched), row.lease.worker_id # NoWorker
        PROVE  row.lease.fencing_token <= lease[Watched].fencing_token
    <3>1. row.lease.fencing_token \in ClaimTokens(events[Watched])
      BY <1>3, <2>1 DEF Shown
    <3>2. PICK i \in ClaimEvents(events[Watched]) : row.lease.fencing_token = events[Watched][i].fencing_token
      BY <3>1 DEF ClaimTokens
    <3> QED
      BY <1>1, <2>1, <3>2 DEF Newest
  <2> QED
    BY <1>3, <2>1 DEF GetExecution, Shown, Follows, HasLease
<1> QED
  BY <1>2, <1>3

\* What the requests and the rendering do to the page.
LEMMA PageStep ==
  ASSUME OwnershipInv, HistoryInv, EndingInv, PageInv, LoadStep \/ Refresh, UNCHANGED vars
  PROVE  PageInv'
<1>0. /\ Watched \in Keys /\ events[Watched] \in Seq(Event) /\ attempts[Watched] \in Nat
      /\ Claims(events[Watched]) = attempts[Watched]
      /\ status[Watched] = "completed" <=> CompletedIn(events[Watched])
      /\ page \in Page
      /\ Unread \notin Row /\ Unread \notin Seq(Event)
  BY DashboardAssumption, OwnershipInvParts
     DEF StoreInv, StoreTypeOK, HistoryInv, HistoryOf, EndingInv, PageInv, DashboardTypeOK
<1>1. /\ \A row : Shown(row)' <=> Shown(row)
      /\ \A history : Listed(history)' <=> Listed(history)
  BY DEF vars, storeVars, Shown, Listed
<1>2. CASE FetchRow
  <2> DEFINE row == GetExecution(Watched)
  <2>1. /\ row \in Row /\ Shown(row) /\ row.attempts = attempts[Watched] /\ row.status = status[Watched]
        /\ \A before \in Row : Shown(before) => Follows(row, before)
    BY RowNow DEF GetExecution
  <2> HIDE DEF row
  <2>2. /\ page' = [page EXCEPT !.row = row, !.first = First("row")]
        /\ page.pc = "loading" /\ page.row = Unread
    BY <1>2 DEF FetchRow, row
  <2>3. /\ page' \in Page /\ page'.row = row /\ page'.row # Unread
        /\ page'.pc = page.pc /\ page'.attempt = page.attempt
        /\ page'.history = page.history /\ page'.before = page.before
        /\ page'.first = IF page.first = "none" THEN "row" ELSE page.first
    BY <1>0, <2>1, <2>2 DEF Page, First
  <2>4. page.history # Unread => Fits(page'.first, row, page.history)
    BY <1>0, <2>1, <2>2, <2>3 DEF PageInv, Fits, Listed
  <2>5. page.before # Unread => Follows(row, page.before)
    BY <1>0, <2>1 DEF PageInv, Page
  <2> QED
    BY <1>1, <2>1, <2>2, <2>3, <2>4, <2>5 DEF PageInv, DashboardTypeOK, Rendered
<1>3. CASE FetchEvents
  <2> DEFINE history == events[Watched]
  <2>1. history \in Seq(Event) /\ Listed(history) /\ Claims(history) = attempts[Watched]
        /\ (status[Watched] = "completed" <=> CompletedIn(history))
    BY <1>0 DEF Listed
  <2>2. /\ page' = [page EXCEPT !.history = history, !.first = First("history")]
        /\ page.pc = "loading" /\ page.history = Unread
    BY <1>3 DEF FetchEvents
  <2> HIDE DEF history
  <2>3. /\ page' \in Page /\ page'.history = history /\ page'.history # Unread
        /\ page'.pc = page.pc /\ page'.attempt = page.attempt
        /\ page'.row = page.row /\ page'.before = page.before
        /\ page'.first = IF page.first = "none" THEN "history" ELSE page.first
    BY <1>0, <2>1, <2>2 DEF Page, First
  <2>4. page.row # Unread => Fits(page'.first, page.row, history)
    BY <1>0, <2>1, <2>2, <2>3 DEF PageInv, Fits, Shown
  <2> QED
    BY <1>1, <2>1, <2>2, <2>3, <2>4 DEF PageInv, DashboardTypeOK, Rendered
<1>4. CASE Render
  BY <1>0, <1>1, <1>4 DEF Render, PageInv, DashboardTypeOK, Page, Rendered
<1>5. CASE FetchMissing \/ FetchFails
  BY <1>0, <1>1, <1>5 DEF FetchMissing, FetchFails, Throw, PageInv, DashboardTypeOK, Page, Rendered
<1>6. CASE Retry
  <2>1. /\ page.attempt \in 0..2 /\ page.attempt < 2
        /\ page.row = Unread /\ page.history = Unread /\ page.first = "none"
        /\ page' = [page EXCEPT !.pc = "loading", !.attempt = @ + 1]
    BY <1>0, <1>6 DEF Retry, PageInv, Page
  <2>2. page.attempt + 1 \in 0..2
    BY <2>1
  <2>3. /\ page' \in Page /\ page'.pc = "loading"
        /\ page'.row = page.row /\ page'.history = page.history
        /\ page'.first = page.first /\ page'.before = page.before
    BY <1>0, <2>1, <2>2 DEF Page
  <2> QED
    BY <1>1, <2>1, <2>3 DEF PageInv, DashboardTypeOK, Rendered
<1>7. CASE Refresh
  BY <1>0, <1>1, <1>7 DEF Refresh, Loading, PageInv, DashboardTypeOK, Page, Rendered
<1> QED
  BY <1>2, <1>3, <1>4, <1>5, <1>6, <1>7 DEF LoadStep

\* The page keeps what it was shown while the system goes on.
LEMMA PageWaits ==
  ASSUME \A k \in Keys : Grows(k), OwnershipInv, OwnershipInv', PageInv, UNCHANGED page
  PROVE  PageInv'
<1>1. /\ Grows(Watched) /\ attempts[Watched] \in Nat /\ attempts'[Watched] \in Nat
  BY DashboardAssumption, OwnershipInvParts, OwnershipInvPartsPrime DEF StoreInv, StoreTypeOK
<1>2. ASSUME NEW row \in Row, Shown(row) PROVE Shown(row)'
  BY <1>1, <1>2 DEF Grows, Shown, Row
<1>3. ASSUME NEW history, Claims(history) \in Nat, Listed(history) PROVE Listed(history)'
  BY <1>1, <1>3 DEF Grows, Listed
<1>4. /\ page.row # Unread => page.row \in Row
      /\ page.before # Unread => page.before \in Row
      /\ page.history # Unread => Claims(page.history) \in Nat
  BY ClaimsType DEF PageInv, DashboardTypeOK, Page
<1> QED
  BY <1>2, <1>3, <1>4 DEF PageInv, DashboardTypeOK, Rendered

\* The first load begins.
LEMMA PageInit == DashboardInit => PageInv /\ EndingInv
<1>1. DashboardInit => PageInv
  BY DEF DashboardInit, Loading, PageInv, DashboardTypeOK, Page, Rendered
<1>2. DashboardInit => EndingInv
  BY DEF DashboardInit, Init, StoreInit, EndingInv, CompletedIn
<1> QED
  BY <1>1, <1>2

\* The invariant of the page.
LEMMA PageHolds == ASSUME Deployment PROVE DashboardSpec => [](~allowTestEnds => PageInv)
<1> DEFINE Inv == ~allowTestEnds => PageInv /\ EndingInv
<1>1. WholeInv /\ WholeInv' /\ Inv /\ [DashboardNext]_dashboardVars => Inv'
  <2> SUFFICES ASSUME WholeInv, WholeInv', [DashboardNext]_dashboardVars,
                      ~allowTestEnds, PageInv, EndingInv
               PROVE  PageInv' /\ EndingInv'
    BY StartedOnce DEF DashboardNext, dashboardVars, vars, serverVars
  <2>0. OwnershipInv /\ OwnershipInv' /\ HistoryInv
    BY DEF WholeInv
  <2>1. CASE [Next]_vars /\ UNCHANGED page
    BY <2>0, <2>1, WatchedGrows, PageWaits
  <2>2. CASE (LoadStep \/ Refresh) /\ UNCHANGED vars
    <3>1. EndingInv'
      BY <2>2 DEF vars, storeVars, EndingInv
    <3> QED
      BY <2>0, <2>2, <3>1, PageStep
  <2> QED
    BY <2>1, <2>2 DEF DashboardNext, dashboardVars
<1>2. DashboardSpec => []WholeInv
  BY DashboardStutters, WholeHolds, PTL
<1> QED
  BY <1>1, <1>2, PageInit, PTL DEF DashboardSpec

\* A page made of two snapshots still fits together, where only workers report.
THEOREM PagesFit == ASSUME Deployment PROVE DashboardSpec => []PageCoherent
<1>1. (~allowTestEnds => PageInv) => PageCoherent
  BY DEF PageInv, Fits, PageCoherent
<1> QED
  BY <1>1, PageHolds, PTL

\* A refreshed page never goes back, where only workers report.
THEOREM PagesMoveForward == ASSUME Deployment PROVE DashboardSpec => []PageMovesForward
<1>1. (~allowTestEnds => PageInv) => PageMovesForward
  BY DEF PageInv, Follows, Rendered, PageMovesForward
<1> QED
  BY <1>1, PageHolds, PTL
=============================================================================
