-------------------------------- MODULE Step ---------------------------------
(***************************************************************************)
(* The steps of a case from near: how a screen becomes a prompt, an answer *)
(* of the model a command of the device, and a screenshot a review (run.ts,*)
(* llm.ts, persona-review.ts). What history and budget do is in CaseLoop.  *)
(*                                                                         *)
(* The screen may change at any time. A request of a review is a process   *)
(* of its own: it may outlive the deadline, and the step that sent it.     *)
(* Labels of screens, the wording of prompts and the bounds on what a      *)
(* review says are left out.                                               *)
(***************************************************************************)
EXTENDS Integers, Sequences, FiniteSets, SequencesExt, Rendering

CONSTANTS Trees,            \* what the device may show
          Settings,         \* what a case and its scenario say
          Responses,        \* tool calls a request to the model may bring
          None,             \* nothing said, no picture, no note
          PollAttempts,     \* LAUNCH_POLL_ATTEMPTS
          MaxAttempts,      \* MAX_ATTEMPTS of a decision
          MaxSteps,
          MaxMoves,         \* changes of the screen that nobody commanded
          MaxFaults         \* dumps, commands, pictures and writes that fail

Formats == {"text", "xml"}

ASSUME StepAssumption ==
    /\ PollAttempts \in Nat \ {0} /\ MaxAttempts \in Nat \ {0} /\ MaxSteps \in Nat \ {0}
    /\ MaxMoves \in Nat /\ MaxFaults \in Nat
    /\ None \notin Nat /\ None \notin {"completed", "error", "failed", "no element"}
    /\ \A s \in Settings : \A who \in {s.case, s.scenario} :
          /\ who.uiFormat \in Formats \cup {None}
          /\ who.personas # None => who.personas \in Seq(ToSet(who.personas))
    /\ \A tree \in Trees : IsFiniteSet(DOMAIN tree) /\ DOMAIN tree \subseteq Nat

VARIABLES
    settings,
    at,         \* the await the case stands at
    shown,      \* the tree the device shows
    polls,      \* waitForFirstScreen: polls made
    ui,         \* the dump of the step, rendered
    picture,    \* the pre-action screenshot: how many commands came before it
    attempts,   \* requests of the decision
    action, note,
    commands,   \* what the device was told in this step
    reviewers,  \* requests for reviews: attempt, persona, under way or not, aborted or not
    reports, outcome,   \* what the review of this step has come to
    steps,      \* the recorded steps
    strays,     \* history: requests sent by a review that was over
    moves, faults

device == <<shown, commands>>
review == <<reviewers, reports, outcome, strays>>
vars == <<settings, at, shown, polls, ui, picture, attempts, action, note, commands,
          review, steps, moves, faults>>

(* resolveUiFormat, resolvePersonaReview: the case's own, then the         *)
(* scenario's; an empty list of personas is a choice.                      *)
Choice(own, inherited, fallback) ==
    IF own # None THEN own ELSE IF inherited # None THEN inherited ELSE fallback

uiFormat == Choice(settings.case.uiFormat, settings.scenario.uiFormat, "text")
personas == Choice(settings.case.personas, settings.scenario.personas, <<>>)
shouldReview == personas # <<>>

Init ==
    /\ settings \in Settings
    /\ at = "polling" /\ shown \in Trees /\ polls = 0
    /\ ui = None /\ picture = None /\ attempts = 0 /\ action = None /\ note = None
    /\ commands = <<>> /\ reviewers = {} /\ reports = <<>> /\ outcome = None
    /\ steps = <<>> /\ strays = 0 /\ moves = 0 /\ faults = 0

Faults == faults < MaxFaults /\ faults' = faults + 1

ScreenChanges ==
    /\ at \notin {"done", "thrown"}
    /\ moves < MaxMoves /\ moves' = moves + 1
    /\ shown' \in Trees \ {shown}
    /\ UNCHANGED <<settings, at, polls, ui, picture, attempts, action, note, commands,
                   review, steps, faults>>

-------------------------------------------------------------------------------
(* Looking. *)

countRefs(tree) == Cardinality(DOMAIN serializeUi(tree, "text").refs)

(* waitForFirstScreen: a dump that fails counts as an empty screen.        *)
PollsScreen ==
    /\ at = "polling"
    /\ polls' = polls + 1
    /\ \E read \in BOOLEAN :
          /\ IF read THEN UNCHANGED faults ELSE Faults
          /\ at' = IF (read /\ countRefs(shown) > 0) \/ polls' = PollAttempts
                   THEN "capturing" ELSE "polling"
    /\ UNCHANGED <<settings, device, ui, picture, attempts, action, note, review, steps, moves>>

Captures ==
    /\ at = "capturing"
    /\ ui' = serializeUi(shown, uiFormat)
    /\ picture' = None /\ attempts' = 0 /\ action' = None /\ note' = None /\ commands' = <<>>
    /\ reports' = <<>> /\ outcome' = None
    /\ at' = IF shouldReview THEN "picturing" ELSE "deciding"
    /\ UNCHANGED <<settings, shown, polls, reviewers, steps, strays, moves, faults>>

(* A dump, a decision or a write that throws ends the case.                *)
Throws ==
    /\ at \in {"capturing", "recording"}
    /\ Faults
    /\ at' = "thrown"
    /\ UNCHANGED <<settings, device, polls, ui, picture, attempts, action, note, review,
                   steps, moves>>

(* captureScreenshot for the review, before anything is done.              *)
TakesPicture ==
    /\ at = "picturing"
    /\ \/ picture' = Len(commands) /\ UNCHANGED faults
       \/ picture' = None /\ Faults
    /\ at' = "deciding"
    /\ UNCHANGED <<settings, device, polls, ui, attempts, action, note, review, steps, moves>>

-------------------------------------------------------------------------------
(* Deciding. A call is its name and its input: a type if there is one, a   *)
(* ref if there is one, and whether the rest is complete.                  *)

NoAction == [type |-> "none", ref |-> -1]

actionTools == {"tap", "input_text", "swipe", "key_event", "wait", "remember", "finish"}

(* The tool names the action, unless the input does. A name that is no     *)
(* tool's and an input that is not whole are no action.                    *)
actionFromToolRequest(call) ==
    LET type == IF call.type = None THEN call.name ELSE call.type
    IN  IF type \in actionTools /\ call.complete /\ (type \in {"tap", "input_text"} => call.ref >= 0)
        THEN [type |-> type, ref |-> call.ref] ELSE NoAction

(* Mutant: of several calls the first is taken.                            *)
firstToolRequest(calls) == IF calls = <<>> THEN NoAction ELSE actionFromToolRequest(calls[1])

soleToolRequest(calls) == IF Len(calls) = 1 THEN actionFromToolRequest(calls[1]) ELSE NoAction

(* What a request of `decide` brings: its calls; none is an answer in      *)
(* prose, or no answer at all.                                             *)
genkitGenerate == Responses \cup {<<>>}

(* An answer that is no single action is asked for again, with the same    *)
(* prompt.                                                                 *)
Decides ==
    /\ at = "deciding"
    /\ attempts' = attempts + 1
    /\ \E calls \in genkitGenerate :
          LET decided == soleToolRequest(calls)
          IN  IF decided # NoAction
              THEN action' = [calls |-> calls, does |-> decided] /\ at' = "acting"
              ELSE /\ UNCHANGED action
                   /\ at' = IF attempts' = MaxAttempts THEN "thrown" ELSE "deciding"
    /\ UNCHANGED <<settings, device, polls, ui, picture, note, review, steps, moves, faults>>

-------------------------------------------------------------------------------
(* Acting. *)

Told(command) == commands' = Append(commands, command)

resolveRef(ref) == ui.lines[ui.refs[ref]].node

IsOnScreen(ref) == ref \in DOMAIN ui.refs

(* executeAction. A ref of no element is noted, and so is a command that   *)
(* fails; a text is typed only after the tap on its field.                 *)
Acts ==
    /\ at = "acting"
    /\ LET type == action.does.type
           points == type \in {"tap", "input_text"}
       IN  \/ /\ points /\ ~IsOnScreen(action.does.ref)
              /\ note' = "no element" /\ at' = "evidence" /\ UNCHANGED <<commands, faults>>
           \/ /\ points /\ IsOnScreen(action.does.ref)
              /\ Told([does |-> "tap", y |-> centerOf(resolveRef(action.does.ref))])
              /\ \/ UNCHANGED <<note, faults>>
                    /\ at' = IF type = "tap" THEN "evidence" ELSE "typing"
                 \/ Faults /\ note' = "failed" /\ at' = "evidence"
           \/ /\ type \in {"swipe", "key_event"}
              /\ Told([does |-> type, y |-> 0])
              /\ (UNCHANGED <<note, faults>> \/ (Faults /\ note' = "failed"))
              /\ at' = "evidence"
           \/ /\ type \in {"wait", "remember", "finish"}
              /\ at' = "evidence" /\ UNCHANGED <<commands, note, faults>>
    /\ UNCHANGED <<settings, shown, polls, ui, picture, attempts, action, review, steps, moves>>

TypesText ==
    /\ at = "typing"
    /\ Told([does |-> "type", y |-> 0])
    /\ (UNCHANGED <<note, faults>> \/ (Faults /\ note' = "failed"))
    /\ at' = "evidence"
    /\ UNCHANGED <<settings, shown, polls, ui, picture, attempts, action, review, steps, moves>>

(* The screenshot of the step, taken or not; then the review, which needs  *)
(* the picture from before the action.                                     *)
TakesEvidence ==
    /\ at = "evidence"
    /\ at' = IF shouldReview /\ picture # None THEN "reviewing" ELSE "recording"
    /\ outcome' = IF shouldReview /\ picture = None THEN "error" ELSE None
    /\ UNCHANGED <<settings, device, polls, ui, picture, attempts, action, note,
                   reviewers, reports, strays, steps, moves, faults>>

-------------------------------------------------------------------------------
(* Reviewing: one persona after another, each with a deadline of its own   *)
(* and two attempts at the format.                                         *)

Reviewer(persona, step) ==
    [persona |-> persona, step |-> step, attempt |-> 0, pending |-> FALSE, aborted |-> FALSE]

Current == {r \in reviewers : r.step = Len(steps) /\ r.persona = Len(reports) + 1 /\ ~r.aborted}

(* What a whole review has come to, or the next persona.                   *)
Turns(r, told) ==
    /\ reports' = told
    /\ IF Len(told) = Len(personas) THEN outcome' = "completed" /\ at' = "recording"
       ELSE UNCHANGED <<outcome, at>>
    /\ reviewers' = reviewers \ {r}

ReviewFails(r) ==
    /\ reports' = <<>> /\ outcome' = "error" /\ at' = "recording"
    /\ reviewers' = reviewers \ {r}

StartsReview ==
    /\ at = "reviewing" /\ Current = {}
    /\ reviewers' = reviewers \cup {Reviewer(Len(reports) + 1, Len(steps))}
    /\ UNCHANGED <<settings, at, device, polls, ui, picture, attempts, action, note,
                   reports, outcome, strays, steps, moves, faults>>

Sends(r) ==
    /\ reviewers' = (reviewers \ {r}) \cup {[r EXCEPT !.attempt = @ + 1, !.pending = TRUE]}
    /\ strays' = IF at = "reviewing" /\ r \in Current THEN strays ELSE strays + 1

(* Mutant: a second attempt is made whether or not time is up.             *)
AsksInAnyCase(r) ==
    /\ r \in reviewers /\ ~r.pending
    /\ Sends(r)
    /\ UNCHANGED <<settings, at, device, polls, ui, picture, attempts, action, note,
                   reports, outcome, steps, moves, faults>>

(* One attempt; none once it is aborted.                                   *)
AsksForReview(r) ==
    /\ r \in reviewers /\ ~r.pending
    /\ IF r.aborted THEN reviewers' = reviewers \ {r} /\ UNCHANGED strays
       ELSE Sends(r)
    /\ UNCHANGED <<settings, at, device, polls, ui, picture, attempts, action, note,
                   reports, outcome, steps, moves, faults>>

(* Mutant: a report is a report, whoever it is of.                         *)
IsReport(answer) == answer \in {"report", "report of another"}

(* Called or written out, it is of the persona it was asked for.           *)
hasExactPersona(answer) == answer = "report"

(* The end of a request: a report, something else, or no answer at all. A  *)
(* review that is over takes nothing.                                      *)
ReviewAnswers(r, answer) ==
    /\ r \in reviewers /\ r.pending
    /\ CASE r.aborted /\ (answer # "malformed" \/ r.attempt = 2) ->
              reviewers' = reviewers \ {r} /\ UNCHANGED <<reports, outcome, at>>
         [] ~r.aborted /\ hasExactPersona(answer) ->
              Turns(r, Append(reports, IF answer = "report" THEN personas[r.persona] ELSE "another"))
         [] ~r.aborted /\ answer # "report" /\ (answer = "fails" \/ r.attempt = 2) -> ReviewFails(r)
         [] OTHER -> /\ reviewers' = (reviewers \ {r}) \cup {[r EXCEPT !.pending = FALSE]}
                     /\ UNCHANGED <<reports, outcome, at>>
    /\ UNCHANGED <<settings, device, polls, ui, picture, attempts, action, note, strays,
                   steps, moves, faults>>

(* Mutant: the deadline aborts the request and waits for it to end.        *)
OnlyAborts(r) ==
    /\ r \in Current
    /\ reviewers' = (reviewers \ {r}) \cup {[r EXCEPT !.aborted = TRUE]}
    /\ UNCHANGED <<settings, at, device, polls, ui, picture, attempts, action, note,
                   reports, outcome, strays, steps, moves, faults>>

(* Aborts the request and settles the race.                                *)
DeadlinePasses(r) ==
    /\ r \in Current
    /\ reviewers' = (reviewers \ {r}) \cup {[r EXCEPT !.aborted = TRUE]}
    /\ reports' = <<>> /\ outcome' = "error" /\ at' = "recording"
    /\ UNCHANGED <<settings, device, polls, ui, picture, attempts, action, note, strays,
                   steps, moves, faults>>

-------------------------------------------------------------------------------

Records ==
    /\ at = "recording"
    /\ steps' = Append(steps, [ui |-> ui, action |-> action, note |-> note, commands |-> commands,
                               picture |-> picture, review |-> outcome, reports |-> reports])
    /\ at' = IF action.does.type = "finish" \/ Len(steps') = MaxSteps THEN "done" ELSE "capturing"
    /\ UNCHANGED <<settings, device, polls, ui, picture, attempts, action, note, review,
                   moves, faults>>

Runner ==
    \/ PollsScreen \/ Captures \/ Throws \/ TakesPicture \/ Acts \/ TypesText \/ TakesEvidence
    \/ StartsReview \/ Records
    \/ \E r \in reviewers : AsksForReview(r)

Deadline == \E r \in reviewers : DeadlinePasses(r)

Answer ==
    \E r \in reviewers, answer \in {"report", "report of another", "malformed", "fails"} :
        ReviewAnswers(r, answer)

Next == Runner \/ Decides \/ Deadline \/ Answer \/ ScreenChanges

Spec == Init /\ [][Next]_vars

(* The runner and its timers run, the device answers or is given up, and   *)
(* the client of the model gives up on a decision by itself. Nothing is    *)
(* assumed of the answers to a review.                                     *)
FairSpec == Spec /\ WF_vars(Runner) /\ WF_vars(Decides) /\ WF_vars(Deadline)

-------------------------------------------------------------------------------
(* Properties. *)

(* What the model read under a number.                                     *)
ReadUnder(lines, ref) == {lines[i].node : i \in {j \in DOMAIN lines : lines[j].ref = ref}}

MoveIsAnswer(screen, act, said, told) ==
    LET points == act.does.type \in {"tap", "input_text"}
        target == ReadUnder(screen.lines, act.does.ref)
    IN  /\ Len(act.calls) = 1
        /\ points /\ target = {} => told = <<>> /\ said # None
        /\ \A n \in target : points =>
              /\ told # <<>> /\ told[1] = [does |-> "tap", y |-> centerOf(n)]
              /\ said = None => (act.does.type = "input_text" <=> Len(told) = 2)
        /\ ~points => \A i \in DOMAIN told : told[i].does = act.does.type

(* What a step does to the device is what the one call of the answer says  *)
(* of the screen the model was shown: it taps where that screen has the    *)
(* element of that number, types only into what it has tapped, and does    *)
(* nothing, and says so, if there is no such element.                      *)
MovesAreAnswers ==
    \A k \in DOMAIN steps :
        MoveIsAnswer(steps[k].ui, steps[k].action, steps[k].note, steps[k].commands)

(* A recorded review is complete, one report of every persona in their     *)
(* order, of a picture from before the step's action; or it is an error    *)
(* and reports nothing. There is one exactly if there are personas.        *)
ReviewsAreWhole ==
    \A k \in DOMAIN steps :
        LET s == steps[k]
        IN  /\ s.review = None <=> ~shouldReview
            /\ s.review = "completed" => s.reports = personas /\ s.picture = 0
            /\ s.review # "completed" => s.reports = <<>>

(* A review asks the model nothing once its step has gone on without it:   *)
(* the next decision has the model to itself.                              *)
ReviewsStayInTheirStep == strays = 0

(* Every step comes to an end, also when a review is never answered.       *)
StepsEnd == <>(at \in {"done", "thrown"})

===============================================================================
