-------------------------------- MODULE RunPage --------------------------------
(***************************************************************************)
(* The run page of the dashboard (RunPage.tsx, runStatus.ts) on top of the *)
(* stream: one fetch of the run for its status, one EventSource for its    *)
(* timeline, started together and answered in any order, both writing the  *)
(* status the page shows. Each watcher of RunStream is one page.           *)
(***************************************************************************)
EXTENDS RunStream

VARIABLES
    fetch,      \* fetchRun: "idle", "asked", "read" (by the server), "done"
    fetched,    \* the status its answer carries
    status,     \* the page's status state; NoStatus is null
    cases,      \* the page's cases state: status and step indexes of each
    heard,      \* how many events of the response were handled
    source      \* the EventSource: "none", "open", "closed"

page == <<fetch, fetched, status, cases, heard, source>>
pageVars == <<streamVars, page>>

NoCase == [status |-> NoStatus, steps |-> {}]

PageInit ==
    /\ Init
    /\ fetch = [w \in Watchers |-> "idle"]
    /\ fetched = [w \in Watchers |-> NoStatus]
    /\ status = [w \in Watchers |-> NoStatus]
    /\ cases = [w \in Watchers |-> [c \in Cases |-> NoCase]]
    /\ heard = [w \in Watchers |-> 0]
    /\ source = [w \in Watchers |-> "none"]

-------------------------------------------------------------------------------
(* What an event does to the page. *)

(* The status after an event: the end carries one, and a start takes the   *)
(* page out of the queue.                                                  *)
NextRunStatus(current, e) ==
    IF IsTerminal(e) THEN e.status
    ELSE IF e.type \in {"run_started", "case_started"} /\ current = "queued" THEN "running"
    ELSE current

(* upsertCase keeps the steps it has; appendStep replaces a step of the    *)
(* same index, and stands in for a case it has not heard of; finishCase    *)
(* writes the verdict.                                                     *)
NextCase(known, e) ==
    CASE e.type = "case_started"  -> [known EXCEPT !.status = e.status]
      [] e.type = "step_recorded" -> [known EXCEPT !.steps = @ \cup {e.index},
                                      !.status = IF @ = NoStatus THEN "running" ELSE @]
      [] e.type = "case_finished" -> [known EXCEPT !.status = e.status]

-------------------------------------------------------------------------------

(* The effect runs: both requests go out.                                  *)
Open(w) ==
    /\ source[w] = "none"
    /\ source' = [source EXCEPT ![w] = "open"]
    /\ fetch' = [fetch EXCEPT ![w] = "asked"]
    /\ UNCHANGED <<streamVars, fetched, status, cases, heard>>

(* The server's side of the fetch: GET /api/runs/:id.                      *)
FetchReads(w) ==
    /\ fetch[w] = "asked"
    /\ fetch' = [fetch EXCEPT ![w] = "read"]
    /\ fetched' = [fetched EXCEPT ![w] = doc]
    /\ UNCHANGED <<streamVars, status, cases, heard, source>>

(* The answer is taken over unless the page has been left.                 *)
FetchAnswers(w) ==
    /\ fetch[w] = "read"
    /\ w \notin gone
    /\ fetch' = [fetch EXCEPT ![w] = "done"]
    /\ status' = [status EXCEPT ![w] = fetched[w]]
    /\ UNCHANGED <<streamVars, fetched, cases, heard, source>>

(* The request fails: the page shows the error and keeps its status.       *)
FetchFails(w) ==
    /\ fetch[w] \in {"asked", "read"}
    /\ w \notin gone
    /\ fetch' = [fetch EXCEPT ![w] = "done"]
    /\ UNCHANGED <<streamVars, fetched, status, cases, heard, source>>

Unheard(w) == source[w] = "open" /\ w \notin gone /\ heard[w] < Len(wire[w])

(* One event arrives; the end closes the source.                           *)
Hear(w) ==
    /\ Unheard(w)
    /\ heard' = [heard EXCEPT ![w] = @ + 1]
    /\ LET e == wire[w][heard[w] + 1]
       IN  /\ status' = [status EXCEPT ![w] = NextRunStatus(@, e)]
           /\ cases' = IF e.type \in {"case_started", "step_recorded", "case_finished"}
                       THEN [cases EXCEPT ![w][e.case] = NextCase(@, e)]
                       ELSE cases
           /\ source' = IF IsTerminal(e) THEN [source EXCEPT ![w] = "closed"] ELSE source
    /\ UNCHANGED <<streamVars, fetch, fetched>>

(* onerror: a connection that is lost is not opened again.                 *)
Drop(w) ==
    /\ source[w] = "open"
    /\ Leave(w)
    /\ source' = [source EXCEPT ![w] = "closed"]
    /\ UNCHANGED <<fetch, fetched, status, cases, heard>>

PageConnects(w) == source[w] = "open" /\ Connect(w) /\ UNCHANGED page

OnServer == Run \/ \E w \in Watchers : Reading(w) \/ Serving(w) \/ Abort(w)

PageStep(w) == FetchReads(w) \/ FetchAnswers(w) \/ FetchFails(w) \/ Hear(w) \/ PageConnects(w)

PageNext ==
    \/ OnServer /\ UNCHANGED page
    \/ \E w \in Watchers : Open(w) \/ PageStep(w) \/ Drop(w)

PageSpec == PageInit /\ [][PageNext]_pageVars

(* Requests are answered and events delivered while the connection lasts;  *)
(* nobody has to open the page, and nothing has to fail.                   *)
FairPageSpec ==
    /\ PageSpec
    /\ WF_pageVars(Run /\ UNCHANGED page)
    /\ \A w \in Watchers :
          /\ WF_pageVars((Reading(w) \/ Serving(w)) /\ UNCHANGED page)
          /\ WF_pageVars(Hear(w) \/ PageConnects(w))

-------------------------------------------------------------------------------
(* Properties. *)

(* The timeline on the page only grows: a step shown stays, and a case     *)
(* shown with its verdict does not go back to running, though replay and   *)
(* live events tell the same things twice.                                 *)
TimelineGrows ==
    [][\A w \in Watchers : \A c \in Cases :
          /\ cases[w][c].steps \subseteq cases'[w][c].steps
          /\ cases[w][c].status \in Verdicts =>
                cases'[w][c].status = cases[w][c].status]_pageVars

(* A page that stays connected is told the end of its run, though it may   *)
(* have opened at any moment of it.                                        *)
PageIsTold ==
    \A w \in Watchers :
        (source[w] = "open") ~>
            \/ w \in gone
            \/ heard[w] > 0 /\ IsTerminal(wire[w][heard[w]])

(* What runStatus.ts says: the page is correct whether it was open before  *)
(* the run's turn came or opened halfway through. Once it was told the end *)
(* of the run, and its fetch is settled, it shows that end.                *)
(* The code does not keep this: see the README, section 4.                 *)
PageShowsVerdict ==
    \A w \in Watchers :
        fetch[w] = "done" /\ heard[w] > 0 /\ IsTerminal(wire[w][heard[w]])
        => status[w] = wire[w][heard[w]].status

===============================================================================
