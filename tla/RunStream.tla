------------------------------- MODULE RunStream -------------------------------
(***************************************************************************)
(* Watching one run: the events runScenario publishes (run.ts), the        *)
(* in-memory bus that hands them on (bus.ts), and the handler of           *)
(* GET /api/runs/:id/events (app.ts), which reads the run from the store,  *)
(* subscribes to the bus, replays what it read, and follows the run live.  *)
(*                                                                         *)
(* An event is published only after the store write it reports, so the two *)
(* are separate steps: log is what has landed in the store, in order, and  *)
(* the first `published` entries of it have gone over the bus. A watcher   *)
(* reads the run in several queries (store.ts, getRun), each of which may  *)
(* see a later store than the one before.                                  *)
(*                                                                         *)
(* The events that carry no row of the store (step_started, ui_captured,   *)
(* action_decided, action_executed) are ignored by every reader and left   *)
(* out. A restart ends every stream with the process; RunServer has it.    *)
(***************************************************************************)
EXTENDS Integers, Sequences, FiniteSets, SequencesExt

CONSTANTS NumCases,     \* cases of the scenario
          MaxSteps,     \* bound: steps a case may take
          Watchers      \* clients that open the stream, once each

ASSUME NumCasesAssumption == NumCases \in Nat \ {0}
ASSUME MaxStepsAssumption == MaxSteps \in Nat

VARIABLES
    doc,        \* Firestore: the status of the run document
    log,        \* Firestore: the rows of the run, as the events that report them
    published,  \* how many of them are out
    pc,         \* where the handler of each watcher stands
    seen,       \* what its getRun has read so far
    buffered,   \* events received during the replay
    out,        \* writes chained on `pending`, or left of the replay
    wire,       \* events the response carries so far
    gone,       \* watchers whose connection is gone
    since       \* history: how much was published when each subscribed

run == <<doc, log, published>>
streams == <<pc, seen, buffered, out, wire, gone, since>>
streamVars == <<run, streams>>

Cases == 1..NumCases
Unsettled == {"queued", "running"}
Verdicts == {"passed", "failed", "error"}

Event(type, case, index, status) ==
    [type |-> type, case |-> case, index |-> index, status |-> status]

NoStatus == "none"
RunFinished(status) == Event("run_finished", 0, 0, status)
IsTerminal(e) == e.type = "run_finished"

(* Nothing read: the run document, the prefix of the log the case query    *)
(* saw, and the prefix each query for steps saw.                           *)
Unread == -1
NothingSeen == [status |-> NoStatus, cases |-> Unread, steps |-> [c \in Cases |-> Unread]]

Init ==
    /\ doc = "queued"
    /\ log = <<>>
    /\ published = 0
    /\ pc = [w \in Watchers |-> "idle"]
    /\ seen = [w \in Watchers |-> NothingSeen]
    /\ buffered = [w \in Watchers |-> <<>>]
    /\ out = [w \in Watchers |-> <<>>]
    /\ wire = [w \in Watchers |-> <<>>]
    /\ gone = {}
    /\ since = [w \in Watchers |-> 0]

-------------------------------------------------------------------------------
(* The run, as runScenario writes it. *)

Over == log # <<>> /\ IsTerminal(Last(log))

(* One write at a time: the next is issued once the last is published.     *)
Writes(e) ==
    /\ published = Len(log)
    /\ log' = Append(log, e)
    /\ UNCHANGED <<published, streams>>

RunStarts ==
    /\ log = <<>>
    /\ doc' = "running"
    /\ Writes(Event("run_started", 0, 0, NoStatus))

CaseStarts ==
    /\ log # <<>>
    /\ Last(log).type \in {"run_started", "case_finished"}
    /\ Last(log).case < NumCases
    /\ Writes(Event("case_started", Last(log).case + 1, 0, "running"))
    /\ UNCHANGED doc

CaseIsOpen == log # <<>> /\ Last(log).type \in {"case_started", "step_recorded"}

StepIsRecorded ==
    /\ CaseIsOpen
    /\ Last(log).index < MaxSteps
    /\ Writes(Event("step_recorded", Last(log).case, Last(log).index + 1, NoStatus))
    /\ UNCHANGED doc

CaseFinishes ==
    /\ CaseIsOpen
    /\ \E status \in {"passed", "failed"} :
          Writes(Event("case_finished", Last(log).case, 0, status))
    /\ UNCHANGED doc

(* Passed when every case did.                                             *)
RunVerdict ==
    IF \A i \in DOMAIN log : log[i].type = "case_finished" => log[i].status = "passed"
    THEN "passed" ELSE "failed"

RunFinishes ==
    /\ log # <<>>
    /\ Last(log).type = "case_finished"
    /\ Last(log).case = NumCases
    /\ doc' = RunVerdict
    /\ Writes(RunFinished(RunVerdict))

(* A store call of runScenario failed; index.ts settles the run as error,  *)
(* unless that write fails too, and announces it either way.               *)
RunCrashes ==
    /\ ~Over
    /\ doc' \in {"error", doc}
    /\ Writes(RunFinished("error"))

(* Mutant: subscribed to the bus before the run is read.                   *)
BuffersFromTheStart(w) == pc[w] \in {"reading", "replaying"}

(* Mutant: the listener stays silent while the replay is going on.         *)
BuffersNothing(w) == FALSE

(* isReplaying: the listener keeps an event for later.                     *)
Buffers(w) == pc[w] = "replaying"

(* After the replay it chains a write.                                     *)
Relays(w) == pc[w] \in {"rechecking", "live"}

(* The bus calls every listener of the run before it returns; the terminal *)
(* event ends the wait of a handler once its write is made.                *)
Publish ==
    /\ published < Len(log)
    /\ published' = published + 1
    /\ LET e == log[published + 1]
       IN  /\ buffered' = [w \in Watchers |->
                              IF Buffers(w) THEN Append(buffered[w], e) ELSE buffered[w]]
           /\ out' = [w \in Watchers |-> IF Relays(w) THEN Append(out[w], e) ELSE out[w]]
           /\ pc' = [w \in Watchers |->
                        IF pc[w] = "live" /\ IsTerminal(e) THEN "closing" ELSE pc[w]]
    /\ UNCHANGED <<doc, log, seen, wire, gone, since>>

(* The bus remembers a finished run for the rest of the process.           *)
HasFinished == published > 0 /\ IsTerminal(log[published])

-------------------------------------------------------------------------------
(* A watcher's request, up to the subscription. *)

Rows(type, c, upTo) == {i \in DOMAIN log : i <= upTo /\ log[i].type = type /\ log[i].case = c}

(* The first query of getRun.                                              *)
Connect(w) ==
    /\ pc[w] = "idle"
    /\ pc' = [pc EXCEPT ![w] = "reading"]
    /\ seen' = [seen EXCEPT ![w].status = doc]
    /\ UNCHANGED <<run, buffered, out, wire, gone, since>>

CasesAreRead(w) ==
    /\ pc[w] = "reading"
    /\ seen[w].cases = Unread
    /\ seen' = [seen EXCEPT ![w].cases = Len(log)]
    /\ UNCHANGED <<run, pc, buffered, out, wire, gone, since>>

SeesCase(w, c) == seen[w].cases # Unread /\ Rows("case_started", c, seen[w].cases) # {}

(* The queries for the steps of the cases run in parallel.                 *)
StepsAreRead(w, c) ==
    /\ pc[w] = "reading"
    /\ SeesCase(w, c)
    /\ seen[w].steps[c] = Unread
    /\ seen' = [seen EXCEPT ![w].steps[c] = Len(log)]
    /\ UNCHANGED <<run, pc, buffered, out, wire, gone, since>>

(* The rows a replay tells: the start and the end of every case the case   *)
(* query saw, and of each such case the steps its own query saw.           *)
Replayed(w) ==
    UNION {Rows("case_started", c, seen[w].cases)
           \cup Rows("step_recorded", c, seen[w].steps[c])
           \cup Rows("case_finished", c, seen[w].cases) : c \in {k \in Cases : SeesCase(w, k)}}

(* A row as it is told: a case starts with the status it was read with.    *)
StatusRead(w, c) ==
    LET ends == Rows("case_finished", c, seen[w].cases)
    IN  IF ends = {} THEN "running" ELSE log[CHOOSE i \in ends : TRUE].status

Retold(w, i) ==
    IF log[i].type = "case_started"
    THEN Event("case_started", log[i].case, 0, StatusRead(w, log[i].case))
    ELSE log[i]

(* The replay goes through the cases and the steps of each in their order, *)
(* which is that of the log: a run takes one case after the other.         *)
InOrder(rows) == \A i, j \in DOMAIN rows : i < j => rows[i] < rows[j]

(* The last reply is in: the handler subscribes and starts the replay in   *)
(* one go.                                                                 *)
Subscribe(w) ==
    /\ pc[w] = "reading"
    /\ seen[w].cases # Unread
    /\ \A c \in Cases : SeesCase(w, c) => seen[w].steps[c] # Unread
    /\ pc' = [pc EXCEPT ![w] = "replaying"]
    /\ \E rows \in [1..Cardinality(Replayed(w)) -> Replayed(w)] :
          /\ InOrder(rows)
          /\ out' = [out EXCEPT ![w] = [i \in DOMAIN rows |-> Retold(w, rows[i])]]
    /\ since' = [since EXCEPT ![w] = published]
    /\ UNCHANGED <<run, seen, buffered, wire, gone>>

-------------------------------------------------------------------------------
(* The stream. *)

(* One SSE message is written; into a closed connection it goes nowhere.   *)
Write(w) ==
    /\ out[w] # <<>>
    /\ wire' = [wire EXCEPT ![w] = Append(@, Head(out[w]))]
    /\ out' = [out EXCEPT ![w] = Tail(@)]
    /\ UNCHANGED <<run, pc, seen, buffered, gone, since>>

IsOver(w) == seen[w].status \notin Unsettled
SawTerminal(w) == \E i \in DOMAIN buffered[w] : IsTerminal(buffered[w][i])

ReplayIsDone(w) == pc[w] = "replaying" /\ out[w] = <<>>

(* The run had its verdict when it was read: say so and close.             *)
EndOfOverRun(w) ==
    /\ ReplayIsDone(w)
    /\ IsOver(w)
    /\ out' = [out EXCEPT ![w] = <<RunFinished(seen[w].status)>>]
    /\ pc' = [pc EXCEPT ![w] = "closing"]
    /\ buffered' = [buffered EXCEPT ![w] = <<>>]
    /\ UNCHANGED <<run, seen, wire, gone, since>>

(* Mutant: no look at hasFinished, the handler just waits.                 *)
GoLiveUnchecked(w) ==
    /\ ReplayIsDone(w)
    /\ ~IsOver(w)
    /\ out' = [out EXCEPT ![w] = buffered[w]]
    /\ buffered' = [buffered EXCEPT ![w] = <<>>]
    /\ pc' = [pc EXCEPT ![w] = IF SawTerminal(w) THEN "closing" ELSE "live"]
    /\ UNCHANGED <<run, seen, wire, gone, since>>

(* Mutant: hasFinished is asked whether or not the end is in the buffer.   *)
GoLiveAskingTwice(w) ==
    /\ ReplayIsDone(w)
    /\ ~IsOver(w)
    /\ out' = [out EXCEPT ![w] = buffered[w]]
    /\ buffered' = [buffered EXCEPT ![w] = <<>>]
    /\ pc' = [pc EXCEPT ![w] = IF HasFinished THEN "rechecking" ELSE "live"]
    /\ UNCHANGED <<run, seen, wire, gone, since>>

(* What the replay let through is flushed. Then the handler closes, if the *)
(* end is among it; reads the verdict, if the bus had it before the        *)
(* subscription; or waits.                                                 *)
GoLive(w) ==
    /\ ReplayIsDone(w)
    /\ ~IsOver(w)
    /\ out' = [out EXCEPT ![w] = buffered[w]]
    /\ buffered' = [buffered EXCEPT ![w] = <<>>]
    /\ pc' = [pc EXCEPT ![w] = IF SawTerminal(w) THEN "closing"
                               ELSE IF HasFinished THEN "rechecking" ELSE "live"]
    /\ UNCHANGED <<run, seen, wire, gone, since>>

(* Mutant: the synthetic end carries the status the replay started from.   *)
RecheckFromSnapshot(w) ==
    /\ pc[w] = "rechecking"
    /\ out' = [out EXCEPT ![w] = Append(@, RunFinished(seen[w].status))]
    /\ pc' = [pc EXCEPT ![w] = "closing"]
    /\ UNCHANGED <<run, seen, buffered, wire, gone, since>>

(* The second getRun answers, and its status goes out as the end.          *)
Recheck(w) ==
    /\ pc[w] = "rechecking"
    /\ out' = [out EXCEPT ![w] = Append(@, RunFinished(doc))]
    /\ pc' = [pc EXCEPT ![w] = "closing"]
    /\ UNCHANGED <<run, seen, buffered, wire, gone, since>>

(* Every chained write is made: unsubscribe and end the response.          *)
Close(w) ==
    /\ pc[w] = "closing"
    /\ out[w] = <<>>
    /\ pc' = [pc EXCEPT ![w] = "closed"]
    /\ UNCHANGED <<run, seen, buffered, out, wire, gone, since>>

(* The client goes. A handler that waits is told through onAbort; one that *)
(* registers it too late may never be.                                     *)
Leave(w) ==
    /\ pc[w] \notin {"idle", "closed"}
    /\ w \notin gone
    /\ gone' = gone \cup {w}
    /\ UNCHANGED <<run, pc, seen, buffered, out, wire, since>>

Abort(w) ==
    /\ pc[w] = "live"
    /\ w \in gone
    /\ pc' = [pc EXCEPT ![w] = "closed"]
    /\ out' = [out EXCEPT ![w] = <<>>]
    /\ UNCHANGED <<run, seen, buffered, wire, gone, since>>

-------------------------------------------------------------------------------

Run == RunStarts \/ CaseStarts \/ StepIsRecorded \/ CaseFinishes \/ RunFinishes
       \/ RunCrashes \/ Publish

Reading(w) == CasesAreRead(w) \/ Subscribe(w) \/ \E c \in Cases : StepsAreRead(w, c)

Serving(w) == Write(w) \/ EndOfOverRun(w) \/ GoLive(w) \/ Recheck(w) \/ Close(w)

Next == \/ Run
        \/ \E w \in Watchers : \/ Connect(w) \/ Reading(w) \/ Serving(w)
                               \/ Leave(w) \/ Abort(w)

Spec == Init /\ [][Next]_streamVars

(* The run goes on by itself to its end (RunServer says why) and a request *)
(* that was made is served. Nobody has to connect, or to leave.            *)
StreamFairness == /\ WF_streamVars(Run)
                  /\ \A w \in Watchers : WF_streamVars(Reading(w) \/ Serving(w))

FairSpec == Spec /\ StreamFairness

-------------------------------------------------------------------------------
(* Properties. *)

Ends(w) == {i \in DOMAIN wire[w] : IsTerminal(wire[w][i])}
Stays(w) == w \notin gone

(* A stream ends in exactly one run_finished and carries nothing after it, *)
(* whichever of the four ways of ending it takes; it is not closed on a    *)
(* client that is still there without one.                                 *)
OneEnding ==
    \A w \in Watchers :
        /\ Ends(w) \subseteq {Len(wire[w])}
        /\ pc[w] = "closed" /\ Stays(w) => Ends(w) # {}

(* The end a watcher is told is the verdict in the store, whether it was   *)
(* published, replayed or looked up -- unless the run's closing writes     *)
(* failed and there is none.                                               *)
EndIsTheVerdict ==
    \A w \in Watchers : \A i \in DOMAIN wire[w] :
        IsTerminal(wire[w][i]) /\ doc \in Verdicts => wire[w][i].status = doc

(* A stream that ends has carried every case, step and verdict its reads   *)
(* of the store found and everything the bus published after it            *)
(* subscribed, however slowly the replay was written out.                  *)
Carries(w, e) ==
    \E i \in DOMAIN wire[w] :
        /\ wire[w][i].type = e.type
        /\ wire[w][i].case = e.case
        /\ wire[w][i].index = e.index

ReadOrHeard(w, i) ==
    \/ since[w] < i /\ i <= published
    \/ log[i].type \in {"case_started", "case_finished"} /\ i <= seen[w].cases
    \/ log[i].type = "step_recorded" /\ i <= seen[w].steps[log[i].case]

DeliversWhatItKnows ==
    \A w \in Watchers : Ends(w) # {} =>
        \A i \in DOMAIN log : ReadOrHeard(w, i) => Carries(w, log[i])

(* What RunPage says of the stream: it replays every case and step already *)
(* recorded before it switches to live delivery. So a stream that has told *)
(* the end has told every row of the run.                                  *)
(* The code does not keep this: see the README, section 4.                 *)
WholeTimeline ==
    \A w \in Watchers : Ends(w) # {} =>
        \A i \in DOMAIN log :
            log[i].type \in {"case_started", "step_recorded", "case_finished"}
            => Carries(w, log[i])

===============================================================================
