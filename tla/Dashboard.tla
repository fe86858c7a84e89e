------------------------------ MODULE Dashboard -----------------------------
(***************************************************************************)
(* The detail page of the dashboard over the running system: the two       *)
(* requests of getExecutionDetail (web/lib/dashboard-data.ts), the         *)
(* handlers of internal/api/server.go that serve them, the two queries of  *)
(* query.go behind those, each a snapshot of its own, and the retries      *)
(* around both.                                                            *)
(***************************************************************************)
EXTENDS DurableSystem

CONSTANTS
  Unread,       \* a response that has not arrived
  Watched       \* the execution whose page is open

\* scanExecution, with the columns of the lease that is joined, live or not.
Row == [status : Status, attempts : Nat, result : Int, lease : Lease]

ASSUME DashboardAssumption == Watched \in Keys /\ Unread \notin Row \cup Seq(Event)

VARIABLE page

\* pc: loading, pausing (the 10 seconds after a failed attempt), ok, unavailable.
\* before is the row the page showed before this load.
Page == [pc : {"loading", "pausing", "ok", "unavailable"}, attempt : 0..2,
         row : Row \cup {Unread}, history : Seq(Event) \cup {Unread}, first : {"none", "row", "history"},
         before : Row \cup {Unread}]

Loading(before) == [pc |-> "loading", attempt |-> 0, row |-> Unread, history |-> Unread,
                    first |-> "none", before |-> before]

DashboardInit == Init /\ page = Loading(Unread)

-----------------------------------------------------------------------------
\* The row as one statement sees it.
GetExecution(k) == [status |-> status[k], attempts |-> attempts[k], result |-> result[k], lease |-> lease[k]]

First(response) == IF page.first = "none" THEN response ELSE page.first

FetchRow ==
  /\ page.pc = "loading" /\ page.row = Unread
  /\ status[Watched] # "absent"
  /\ page' = [page EXCEPT !.row = GetExecution(Watched), !.first = First("row")]

\* An unknown id has an empty history, not a 404.
FetchEvents ==
  /\ page.pc = "loading" /\ page.history = Unread
  /\ page' = [page EXCEPT !.history = events[Watched], !.first = First("history")]

Rendered == page.row # Unread /\ page.history # Unread

Render ==
  /\ page.pc = "loading" /\ Rendered
  /\ page' = [page EXCEPT !.pc = "ok"]

\* fetchJSON throws: Promise.all drops what the other request returned.
Throw ==
  page' = [page EXCEPT !.pc = IF page.attempt < 2 THEN "pausing" ELSE "unavailable",
                       !.row = Unread, !.history = Unread, !.first = "none"]

\* getExecution answers 404 while there is no such row.
FetchMissing ==
  /\ page.pc = "loading" /\ page.row = Unread
  /\ status[Watched] = "absent"
  /\ Throw

\* A 401 or 500, no connection, or AbortSignal.timeout after 7 seconds.
FetchFails ==
  /\ page.pc = "loading" /\ ~Rendered
  /\ Throw

\* withColdStartRetries calls the whole function again.
Retry ==
  /\ page.pc = "pausing"
  /\ page' = [page EXCEPT !.pc = "loading", !.attempt = @ + 1]

\* AutoRefresh of a page that is ok; of another one, the user reloads.
Refresh ==
  \/ page.pc = "ok" /\ page' = Loading(page.row)
  \/ page.pc = "unavailable" /\ page' = Loading(page.before)

LoadStep == FetchRow \/ FetchEvents \/ Render \/ FetchMissing \/ FetchFails \/ Retry

DashboardNext ==
  \/ Next /\ UNCHANGED page
  \/ (LoadStep \/ Refresh) /\ UNCHANGED vars

dashboardVars == <<vars, page>>

DashboardSpec == DashboardInit /\ [][DashboardNext]_dashboardVars

-----------------------------------------------------------------------------
DashboardTypeOK == page \in Page

\* The attempts column counts the claims of the history, through every retry,
\* expiry, crash and lost reply.
AttemptsAreClaims == \A k \in Keys : attempts[k] = Claims(events[k])

\* A page made of two snapshots still fits together: the one read later knows at
\* least what the one read first shows, and nothing else sets them apart.
PageCoherent ==
  (~allowTestEnds /\ page.pc = "ok") =>
    /\ page.first = "row" =>
         /\ Claims(page.history) >= page.row.attempts
         /\ page.row.status = "completed" => CompletedIn(page.history)
    /\ page.first = "history" =>
         /\ Claims(page.history) <= page.row.attempts
         /\ CompletedIn(page.history) => page.row.status = "completed"

\* A refreshed page never goes back: attempts and tokens do not fall, and a call
\* that was shown completed is shown with the same result again.
PageMovesForward ==
  (~allowTestEnds /\ page.pc = "ok" /\ page.before # Unread) =>
    /\ page.before.attempts <= page.row.attempts
    /\ (page.row.lease.worker_id # NoWorker /\ page.before.lease.worker_id # NoWorker) =>
         page.before.lease.fencing_token <= page.row.lease.fencing_token
    /\ page.before.status = "completed" =>
         page.row.status = "completed" /\ page.row.result = page.before.result
=============================================================================
