------------------------------ MODULE Scenarios ------------------------------
(***************************************************************************)
(* The scenario files and those who change them at the same time: the      *)
(* endpoints of the server (app.ts, core/scenario.ts), one tab of the      *)
(* dashboard with its list, tag filter, ticks, edit dialog and batch       *)
(* (Sidebar.tsx, ScenarioBuilder.tsx, ScenarioDelete.tsx,                  *)
(* scenarioSelection.ts, api.ts), and "scenario apply" of the CLI.         *)
(*                                                                         *)
(* What a file says is a revision and whether it bears the one tag there   *)
(* is; what becomes of its text is in ScenarioFile. A file is named after  *)
(* its id. A render is part of the step that changes what is rendered.     *)
(***************************************************************************)
EXTENDS Integers, Sequences, FiniteSets, SequencesExt

CONSTANTS Listing,      \* the ids, in the order of the listing
          Card,         \* the scenario whose edit dialog is followed
          Files,        \* the scenarios "apply" is given, in order
          MaxMoves,     \* what the user does
          MaxFaults     \* requests that fail for no reason of their own

Ids == ToSet(Listing)
Slots == {"save", "remove", "apply"}

ASSUME ScenariosAssumption ==
    /\ Listing \in Seq(Ids) /\ IsInjective(Listing) /\ Card \in Ids /\ Files \in Seq(Ids)
    /\ MaxMoves \in Nat /\ MaxFaults \in Nat

VARIABLES
    dir,        \* what each file says, NoFile if there is none
    written,    \* history: the revisions written to each, in order
    revs,       \* revisions given out
    req,        \* a request under way for each slot
    list, shownAs,   \* `scenarios` of the rail, and the reload it came from
    requests, reloads,   \* scenarioRequestRef, and the listings asked for
    filter,     \* whether the tag is selected
    selected,   \* selectedScenarioIds
    builder,    \* the edit dialog of Card
    batch,      \* the batch under way: what was posted and how it was answered
    ticks, accepted, lost,   \* history: ticks set, runs accepted, replies lost
    apply,      \* the command: the file it is at, whether one failed, its exit code
    moves, faults

tab == <<list, shownAs, requests, reloads, filter, selected, builder, batch>>
history == <<ticks, accepted, lost>>
vars == <<dir, written, revs, req, tab, history, apply, moves, faults>>

NoFile == [rev |-> 0, tagged |-> FALSE]
NoRequest == [at |-> "none", op |-> "none", id |-> Card, text |-> NoFile, status |-> 0]
NoBatch == [at |-> "none", ids |-> <<>>, count |-> 0]

(* The dialog as it is mounted: closed, nothing saved. `own` is a history: *)
(* the last revision the server said it had saved for it.                  *)
Fresh == [open |-> FALSE, base |-> 0, saving |-> FALSE, saved |-> 0, source |-> 0, own |-> 0]

Init ==
    /\ dir = [s \in Ids |-> [rev |-> 1, tagged |-> TRUE]]
    /\ written = [s \in Ids |-> <<1>>] /\ revs = 1
    /\ req = [c \in Slots |-> NoRequest]
    /\ list = dir /\ shownAs = 0 /\ requests = 0 /\ reloads = {}
    /\ filter = FALSE /\ selected = {} /\ builder = Fresh /\ batch = NoBatch
    /\ ticks = [s \in Ids |-> 0] /\ accepted = ticks /\ lost = 0
    /\ apply = [next |-> 1, failed |-> FALSE, code |-> -1]
    /\ moves = 0 /\ faults = 0

Moves == moves < MaxMoves /\ moves' = moves + 1
Faults == faults < MaxFaults /\ faults' = faults + 1

-------------------------------------------------------------------------------
(* The endpoints. Each await of a handler is a step. *)

Answer(c, status) == req' = [req EXCEPT ![c].at = "answered", ![c].status = status]

Write(s, text) ==
    /\ dir' = [dir EXCEPT ![s] = text]
    /\ written' = [written EXCEPT ![s] = Append(@, text.rev)]

(* POST refuses a file that exists, PUT and DELETE one that does not.      *)
Checks(c) ==
    LET exists == dir[req[c].id] # NoFile
    IN  /\ req[c].at = "asked"
        /\ CASE req[c].op = "POST" /\ exists -> Answer(c, 409)
             [] req[c].op # "POST" /\ ~exists -> Answer(c, 404)
             [] OTHER -> req' = [req EXCEPT ![c].at = "checked"]
        /\ UNCHANGED <<dir, written, revs, tab, history, apply, moves, faults>>

(* PUT reads the file it will merge into; it may be gone by now.           *)
Reads(c) ==
    /\ req[c].at = "checked" /\ req[c].op = "PUT"
    /\ IF dir[req[c].id] = NoFile THEN Answer(c, 500)
       ELSE req' = [req EXCEPT ![c].at = "read"]
    /\ UNCHANGED <<dir, written, revs, tab, history, apply, moves, faults>>

(* The write of a POST or a PUT, and the removal.                          *)
Lands(c) ==
    /\ \/ /\ (req[c].op = "POST" /\ req[c].at = "checked") \/ req[c].at = "read"
          /\ Write(req[c].id, req[c].text)
          /\ Answer(c, 200)
       \/ /\ req[c].op = "DELETE" /\ req[c].at = "checked"
          /\ dir' = [dir EXCEPT ![req[c].id] = NoFile]
          /\ Answer(c, IF dir[req[c].id] = NoFile THEN 500 ELSE 200)
          /\ UNCHANGED written
    /\ UNCHANGED <<revs, tab, history, apply, moves, faults>>

(* A handler or its connection fails; what was written stays.              *)
RequestFails(c) ==
    /\ req[c].at \in {"asked", "checked", "read"}
    /\ Faults
    /\ Answer(c, 500)
    /\ UNCHANGED <<dir, written, revs, tab, history, apply, moves>>

(* loadScenariosDir, for a listing.                                        *)
ListingIsRead(r) ==
    /\ r \in reloads /\ r.at = "asked"
    /\ reloads' = (reloads \ {r}) \cup {[r EXCEPT !.at = "answered", !.listing = dir]}
    /\ UNCHANGED <<dir, written, revs, req, list, shownAs, requests, filter, selected, builder,
                   batch, history, apply, moves, faults>>

(* POST /api/runs/batch: every scenario must be there, then they are       *)
(* accepted one by one, as far as the store goes along.                    *)
BatchIsAccepted(n) ==
    /\ batch.at = "posted" /\ n \in 0..Len(batch.ids)
    /\ IF \E i \in DOMAIN batch.ids : dir[batch.ids[i]] = NoFile
       THEN n = 0 /\ UNCHANGED faults
       ELSE IF n < Len(batch.ids) THEN Faults ELSE UNCHANGED faults
    /\ batch' = [batch EXCEPT !.at = "answered", !.count = n]
    /\ accepted' = [s \in Ids |->
           IF \E i \in 1..n : batch.ids[i] = s THEN accepted[s] + 1 ELSE accepted[s]]
    /\ UNCHANGED <<dir, written, revs, req, list, shownAs, requests, reloads, filter, selected,
                   builder, ticks, lost, apply, moves>>

-------------------------------------------------------------------------------
(* The rail. *)

filterByTags(scenarios, on) ==
    {s \in Ids : scenarios[s] # NoFile /\ (on => scenarios[s].tagged)}

Visible == filterByTags(list, filter)

retainAfterReload(ids, scenarios, on) == ids \cap filterByTags(scenarios, on)

Place(s) == CHOOSE i \in DOMAIN Listing : Listing[i] = s

InRailOrder(ids) == \A i, j \in DOMAIN ids : i < j => Place(ids[i]) < Place(ids[j])

(* reloadScenarios, as its caller left the tags.                           *)
Reload == [no |-> requests + 1, at |-> "asked", listing |-> [s \in Ids |-> NoFile], on |-> filter]
reloadScenarios == requests' = requests + 1 /\ reloads' = reloads \cup {Reload}

(* A card that leaves the rail takes its dialog along.                     *)
Mounts(scenarios, on) ==
    builder' = IF Card \in filterByTags(scenarios, on) THEN builder
               ELSE [Fresh EXCEPT !.own = builder.own]

(* Mutant: the answers of all reloads are taken.                           *)
ReloadIsTaken(r) ==
    /\ r \in reloads /\ r.at = "answered"
    /\ reloads' = reloads \ {r}
    /\ list' = r.listing /\ shownAs' = r.no
    /\ Mounts(r.listing, filter)
    /\ selected' = retainAfterReload(selected, r.listing, r.on)
    /\ UNCHANGED <<dir, written, revs, req, requests, filter, batch, history, apply, moves, faults>>

(* The answer of the latest reload replaces the list, and narrows the      *)
(* ticks to what the filter of its call shows of it.                       *)
ReloadArrives(r) ==
    /\ r \in reloads /\ r.at = "answered"
    /\ reloads' = reloads \ {r}
    /\ IF r.no = requests
       THEN /\ list' = r.listing /\ shownAs' = r.no
            /\ Mounts(r.listing, filter)
            /\ selected' = retainAfterReload(selected, r.listing, r.on)
       ELSE UNCHANGED <<list, shownAs, builder, selected>>
    /\ UNCHANGED <<dir, written, revs, req, requests, filter, batch, history, apply, moves, faults>>

ReloadFails(r) ==
    /\ r \in reloads
    /\ Faults
    /\ reloads' = reloads \ {r}
    /\ UNCHANGED <<dir, written, revs, req, list, shownAs, requests, filter, selected, builder,
                   batch, history, apply, moves>>

Ticks(s) ==
    /\ s \in Visible /\ ~builder.open
    /\ Moves
    /\ selected' = IF s \in selected THEN selected \ {s} ELSE selected \cup {s}
    /\ ticks' = [ticks EXCEPT ![s] = IF s \in selected THEN @ ELSE @ + 1]
    /\ UNCHANGED <<dir, written, revs, req, list, shownAs, requests, reloads, filter, builder,
                   batch, accepted, lost, apply, faults>>

toggleTag ==
    /\ ~builder.open
    /\ Moves
    /\ filter' = ~filter
    /\ selected' = retainAfterReload(selected, list, ~filter)
    /\ Mounts(list, ~filter)
    /\ UNCHANGED <<dir, written, revs, req, list, shownAs, requests, reloads, batch, history,
                   apply, faults>>

(* The way back from a filter that shows nothing; it leaves the ticks.     *)
clearTags ==
    /\ filter /\ Visible = {}
    /\ Moves
    /\ filter' = FALSE
    /\ Mounts(list, FALSE)
    /\ UNCHANGED <<dir, written, revs, req, list, shownAs, requests, reloads, selected, batch,
                   history, apply, faults>>

(* startSelected posts what is ticked and shown, in the rail's order.      *)
startSelected ==
    LET chosen == Visible \cap selected
    IN  /\ batch.at = "none" /\ ~builder.open /\ chosen # {}
        /\ Moves
        /\ \E ids \in [1..Cardinality(chosen) -> chosen] :
              /\ InRailOrder(ids)
              /\ batch' = [at |-> "posted", ids |-> ids, count |-> 0]
        /\ UNCHANGED <<dir, written, revs, req, list, shownAs, requests, reloads, filter,
                       selected, builder, history, apply, faults>>

(* Mutant: a batch that failed leaves its ticks, whatever was accepted.    *)
BatchRepliesWhole ==
    /\ batch.at = "answered"
    /\ selected' = IF batch.count = Len(batch.ids) THEN {} ELSE selected
    /\ batch' = NoBatch
    /\ UNCHANGED <<dir, written, revs, req, list, shownAs, requests, reloads, filter, builder,
                   history, apply, moves, faults>>

(* The answer: all accepted, the leading ones (remainingAfterPartialBatch),*)
(* or none.                                                                *)
BatchReplies ==
    /\ batch.at = "answered"
    /\ selected' = IF batch.count = Len(batch.ids) THEN {}
                   ELSE IF batch.count > 0
                   THEN ToSet(SubSeq(batch.ids, batch.count + 1, Len(batch.ids)))
                   ELSE selected
    /\ batch' = NoBatch
    /\ UNCHANGED <<dir, written, revs, req, list, shownAs, requests, reloads, filter, builder,
                   history, apply, moves, faults>>

BatchReplyIsLost ==
    /\ batch.at = "answered"
    /\ Faults /\ lost' = lost + 1
    /\ batch' = NoBatch
    /\ UNCHANGED <<dir, written, revs, req, list, shownAs, requests, reloads, filter, selected,
                   builder, ticks, accepted, apply, moves>>

-------------------------------------------------------------------------------
(* The edit dialog of Card and the removal of a scenario. *)

(* initial: the answer to a save counts until its source is replaced.      *)
initial == IF builder.saved # 0 /\ builder.source = shownAs THEN builder.saved ELSE list[Card].rev

OpensDialog ==
    /\ Card \in Visible /\ ~builder.open
    /\ Moves
    /\ builder' = [builder EXCEPT !.open = TRUE, !.base = initial]
    /\ UNCHANGED <<dir, written, revs, req, list, shownAs, requests, reloads, filter, selected,
                   batch, history, apply, faults>>

(* Escape, the backdrop or Cancel, also while a save is under way.         *)
Dismisses ==
    /\ builder.open
    /\ Moves
    /\ builder' = [builder EXCEPT !.open = FALSE]
    /\ UNCHANGED <<dir, written, revs, req, list, shownAs, requests, reloads, filter, selected,
                   batch, history, apply, faults>>

submit ==
    /\ builder.open /\ ~builder.saving /\ req["save"].at = "none"
    /\ Moves
    /\ revs' = revs + 1
    /\ \E tagged \in BOOLEAN :
           req' = [req EXCEPT !["save"] =
               [at |-> "asked", op |-> "PUT", id |-> Card, status |-> 0,
                text |-> [rev |-> revs + 1, tagged |-> tagged]]]
    /\ builder' = [builder EXCEPT !.saving = TRUE]
    /\ UNCHANGED <<dir, written, list, shownAs, requests, reloads, filter, selected, batch,
                   history, apply, faults>>

(* The answer to a save. The dialog closes, whoever may have opened it     *)
(* again; if it has left the rail, only the reload is left to do.          *)
Saved ==
    /\ req["save"].at = "answered"
    /\ req' = [req EXCEPT !["save"] = NoRequest]
    /\ IF req["save"].status = 200
       THEN /\ reloadScenarios
            /\ builder' = IF ~builder.saving THEN builder
                          ELSE [builder EXCEPT !.open = FALSE, !.saving = FALSE,
                                               !.saved = req["save"].text.rev, !.source = shownAs,
                                               !.own = req["save"].text.rev]
       ELSE builder' = [builder EXCEPT !.saving = FALSE] /\ UNCHANGED <<requests, reloads>>
    /\ UNCHANGED <<dir, written, revs, list, shownAs, filter, selected, batch, history, apply,
                   moves, faults>>

Confirms(s) ==
    /\ s \in Visible /\ ~builder.open /\ req["remove"].at = "none"
    /\ Moves
    /\ req' = [req EXCEPT !["remove"] =
           [at |-> "asked", op |-> "DELETE", id |-> s, status |-> 0, text |-> NoFile]]
    /\ UNCHANGED <<dir, written, revs, tab, history, apply, faults>>

Removed ==
    /\ req["remove"].at = "answered"
    /\ req' = [req EXCEPT !["remove"] = NoRequest]
    /\ IF req["remove"].status = 200 THEN reloadScenarios ELSE UNCHANGED <<requests, reloads>>
    /\ UNCHANGED <<dir, written, revs, list, shownAs, filter, selected, builder, batch, history,
                   apply, moves, faults>>

-------------------------------------------------------------------------------
(* applyScenarios: POST first, PUT where that meets a file. *)

Applies ==
    /\ apply.code = -1 /\ req["apply"].at = "none" /\ apply.next <= Len(Files)
    /\ \/ /\ revs' = revs + 1
          /\ req' = [req EXCEPT !["apply"] =
                 [at |-> "asked", op |-> "POST", id |-> Files[apply.next], status |-> 0,
                  text |-> [rev |-> revs + 1, tagged |-> FALSE]]]
          /\ UNCHANGED <<apply, faults>>
       \/ Faults /\ UNCHANGED <<revs, req>>      \* the file does not load
          /\ apply' = [apply EXCEPT !.next = @ + 1, !.failed = TRUE]
    /\ UNCHANGED <<dir, written, tab, history, moves>>

(* Mutant: a scenario that is there is as good as applied.                 *)
AppliedOrThere ==
    /\ req["apply"].at = "answered"
    /\ req' = [req EXCEPT !["apply"] = NoRequest]
    /\ apply' = [apply EXCEPT !.next = @ + 1,
                              !.failed = @ \/ req["apply"].status \notin {200, 409}]
    /\ UNCHANGED <<dir, written, revs, tab, history, moves, faults>>

Applied ==
    /\ req["apply"].at = "answered"
    /\ IF req["apply"].op = "POST" /\ req["apply"].status = 409
       THEN /\ req' = [req EXCEPT !["apply"].at = "asked", !["apply"].op = "PUT"]
            /\ UNCHANGED apply
       ELSE /\ req' = [req EXCEPT !["apply"] = NoRequest]
            /\ apply' = [apply EXCEPT !.next = @ + 1, !.failed = @ \/ req["apply"].status # 200]
    /\ UNCHANGED <<dir, written, revs, tab, history, moves, faults>>

(* No server: the command ends where it is.                                *)
ApplyRaises ==
    /\ req["apply"].at = "asked"
    /\ Faults
    /\ req' = [req EXCEPT !["apply"] = NoRequest]
    /\ apply' = [apply EXCEPT !.code = 2]
    /\ UNCHANGED <<dir, written, revs, tab, history, moves>>

ApplyEnds ==
    /\ apply.code = -1 /\ apply.next > Len(Files) /\ req["apply"].at = "none"
    /\ apply' = [apply EXCEPT !.code = IF apply.failed THEN 2 ELSE 0]
    /\ UNCHANGED <<dir, written, revs, req, tab, history, moves, faults>>

-------------------------------------------------------------------------------

Server ==
    \/ \E c \in Slots : Checks(c) \/ Reads(c) \/ Lands(c) \/ RequestFails(c)
    \/ \E r \in reloads : ListingIsRead(r)
    \/ \E n \in 0..Len(batch.ids) : BatchIsAccepted(n)

Rail ==
    \/ \E r \in reloads : ReloadArrives(r) \/ ReloadFails(r)
    \/ \E s \in Ids : Ticks(s) \/ Confirms(s)
    \/ toggleTag \/ clearTags \/ startSelected \/ BatchReplies \/ BatchReplyIsLost
    \/ OpensDialog \/ Dismisses \/ submit \/ Saved \/ Removed

Command == Applies \/ Applied \/ ApplyRaises \/ ApplyEnds

Next == Server \/ Rail \/ Command

Spec == Init /\ [][Next]_vars

-------------------------------------------------------------------------------
(* Properties. *)

(* Wherever old was written, new was written no earlier.                   *)
NoOlder(s, new, old) ==
    \A j \in DOMAIN written[s] : written[s][j] = old =>
        \E i \in DOMAIN written[s] : i >= j /\ written[s][i] = new

(* As long as its card stays on the rail, a dialog that can be saved shows *)
(* the tab's own last save or something newer: a quick second edit does    *)
(* not put the version before back, however reloads and saves overtake     *)
(* each other.                                                             *)
OwnSavesSurvive ==
    builder.open /\ ~builder.saving /\ builder.saved # 0 =>
        NoOlder(Card, builder.base, builder.own)

(* Every run a batch was granted has a tick of its own: pressing the       *)
(* button again after a batch that was accepted in part runs nothing a     *)
(* second time, unless the answer never came.                              *)
EveryRunWasAskedFor == \A s \in Ids : accepted[s] <= ticks[s] + lost

(* "apply" reports a file as applied only if what the file said has been   *)
(* on the server's disk, whoever creates and deletes beside it.            *)
ApplyIsHonest ==
    [][apply'.next > apply.next /\ ~apply'.failed =>
          Contains(written[Files[apply.next]], req["apply"].text.rev)]_vars

===============================================================================
