------------------------------- MODULE CaseLoop --------------------------------
(***************************************************************************)
(* One case of a run (run.ts, runCase): open a driver, film it, and repeat *)
(* look -- ask the model -- act -- record until the model finishes, the    *)
(* step budget is spent or something throws; then, whatever happened, stop *)
(* the film, close the driver and write the verdict (recorder.ts,          *)
(* recordCase).                                                            *)
(*                                                                         *)
(* A screen is what the serializer makes of it, an action what             *)
(* describeAction makes of it. The history the prompt is cut from is a     *)
(* sequence of lines: the number of the step a line tells of, or Warning.  *)
(* Screenshots, the screen label and the persona review are left out: each *)
(* catches its own failures and no verdict depends on it.                  *)
(*                                                                         *)
(* The recorder is that of the session (index.ts): scrcpy for a device,    *)
(* which asks adb before it starts and before it stops, ffmpeg for a page, *)
(* or none.                                                                *)
(***************************************************************************)
EXTENDS Integers, Sequences, SequencesExt

CONSTANTS Screens,          \* what a screen may read like
          DeviceActions,    \* actions that touch the device
          Facts,            \* what may be remembered
          MaxSteps,         \* testCase.maxSteps
          HistoryWindow,    \* HISTORY_WINDOW
          LoopWarnAfter,    \* LOOP_WARN_AFTER
          LoopNoteAfter     \* LOOP_NOTE_AFTER

ASSUME BudgetAssumption == MaxSteps \in Nat \ {0}
ASSUME WindowAssumption == HistoryWindow \in Nat \ {0}
ASSUME LoopAssumption == /\ LoopWarnAfter \in Nat \ {0}
                         /\ LoopNoteAfter \in Nat
                         /\ LoopNoteAfter > LoopWarnAfter

VARIABLES
    phase,      \* the await the case stands at
    session,    \* the driver session: "none", "open", "closed"
    recorder,   \* of the session: "none", "scrcpy", "cdp"
    film,       \* the recording: "none", "on", "saved", "unusable", "left"
    screen,     \* uiText of the current step
    prompt,     \* what the current decision was asked with
    action,     \* what the model decided
    failed,     \* the executor noted a failure
    steps,      \* Firestore: the recorded steps
    history,    \* lines of the history
    notebook,   \* remembered facts
    repeats,    \* LoopDetector.#repeats
    previous,   \* LoopDetector.#previousKey
    status      \* the verdict of the case

loop == <<repeats, previous>>
mind == <<history, notebook, loop>>
step == <<screen, prompt, action, failed>>
vars == <<phase, session, recorder, film, step, steps, mind, status>>

Warning == 0
Nothing == [type |-> "none", of |-> "none"]
Device(a) == [type |-> "device", of |-> a]
Remember(f) == [type |-> "remember", of |-> f]
Finish(v) == [type |-> "finish", of |-> v]

Actions == {Device(a) : a \in DeviceActions} \cup {Remember(f) : f \in Facts}
           \cup {Finish(v) : v \in {"passed", "failed"}}

NoScreen == "none"
NoPrompt == [lines |-> <<>>, facts |-> <<>>]

Init ==
    /\ phase = "creating"
    /\ session = "none"
    /\ recorder = "none"
    /\ film = "none"
    /\ screen = NoScreen
    /\ prompt = NoPrompt
    /\ action = Nothing
    /\ failed = FALSE
    /\ steps = <<>>
    /\ history = <<>>
    /\ notebook = <<>>
    /\ repeats = 0
    /\ previous = <<NoScreen, Nothing>>
    /\ status = "running"

-------------------------------------------------------------------------------
(* Before the first step. *)

Goes(from, to) == phase = from /\ phase' = to

(* createCase, or the failure that ends the whole run.                     *)
CaseIsCreated ==
    /\ \/ Goes("creating", "opening")
       \/ Goes("creating", "thrown")
    /\ UNCHANGED <<session, recorder, film, step, steps, mind, status>>

DriverOpens ==
    /\ Goes("opening", "filming")
    /\ session' = "open"
    /\ recorder' \in {"none", "scrcpy", "cdp"}
    /\ UNCHANGED <<film, step, steps, mind, status>>

(* A browser that will not start is an error of this case, not of the run. *)
DriverFails ==
    /\ Goes("opening", "settling")
    /\ status' = "error"
    /\ UNCHANGED <<session, recorder, film, step, steps, mind>>

(* recorder.start; a case that cannot be filmed is run all the same. With  *)
(* scrcpy the list of its servers on the device is awaited first.          *)
FilmStarts ==
    /\ Goes("filming", "resetting")
    /\ film' \in IF recorder = "none" THEN {"none"} ELSE {"none", "on"}
    /\ UNCHANGED <<session, recorder, step, steps, mind, status>>

(* driver.reset, the polls for the first screen, the directory.            *)
DriverIsReset ==
    /\ Goes("resetting", "looking")
    /\ UNCHANGED <<session, recorder, film, step, steps, mind, status>>

-------------------------------------------------------------------------------
(* One step. *)

(* dumpUi, within the budget.                                              *)
Looks ==
    /\ Goes("looking", "deciding")
    /\ Len(steps) < MaxSteps
    /\ screen' \in Screens
    /\ UNCHANGED <<session, recorder, film, prompt, action, failed, steps, mind, status>>

(* slice(-n)                                                               *)
LastOf(s, n) == SubSeq(s, IF Len(s) > n THEN Len(s) - n + 1 ELSE 1, Len(s))

(* Mutant: the notebook is windowed like the history.                      *)
PromptWithRecentFacts == [lines |-> LastOf(history, HistoryWindow), facts |-> LastOf(notebook, 1)]

Prompt == [lines |-> LastOf(history, HistoryWindow), facts |-> notebook]

(* llm.decide; a fact goes straight into the notebook.                     *)
Decides ==
    /\ Goes("deciding", "acting")
    /\ prompt' = Prompt
    /\ action' \in Actions
    /\ notebook' = IF action'.type = "remember" THEN Append(notebook, action'.of) ELSE notebook
    /\ UNCHANGED <<session, recorder, film, screen, failed, steps, history, loop, status>>

(* executeAction; a reference that resolves to nothing or a device that    *)
(* refuses is noted, not thrown.                                           *)
Acts ==
    /\ Goes("acting", "saving")
    /\ IF action.type = "device" THEN failed' \in BOOLEAN ELSE failed' = FALSE
    /\ UNCHANGED <<session, recorder, film, screen, prompt, action, steps, mind, status>>

Key == <<screen, action>>

(* LoopDetector.observe                                                    *)
Observed == IF Key = previous THEN repeats + 1 ELSE 1

(* Mutant: the warning comes one repetition later.                         *)
WarnsLate(n) == n > LoopWarnAfter

Warns(n) == n >= LoopWarnAfter
IsStuck(n) == n >= LoopNoteAfter

(* The detector observes, addStep answers, the history grows by the step   *)
(* and possibly the warning, and a finish ends the loop.                   *)
StepIsSaved ==
    /\ phase = "saving"
    /\ repeats' = Observed
    /\ previous' = Key
    /\ steps' = Append(steps, [screen |-> screen, action |-> action, failed |-> failed,
                               stalled |-> IsStuck(Observed)])
    /\ history' = Append(history, Len(steps) + 1)
                  \o (IF Warns(Observed) THEN <<Warning>> ELSE <<>>)
    /\ IF action.type = "finish"
       THEN phase' = "stopping" /\ status' = action.of
       ELSE phase' = "looking" /\ UNCHANGED status
    /\ UNCHANGED <<session, recorder, film, step, notebook>>

(* addStep fails; the detector has seen the step, the store has not.       *)
StepIsNotSaved ==
    /\ Goes("saving", "stopping")
    /\ repeats' = Observed
    /\ previous' = Key
    /\ status' = "error"
    /\ UNCHANGED <<session, recorder, film, step, steps, history, notebook>>

(* The loop ran out of steps without a verdict.                            *)
BudgetIsSpent ==
    /\ Goes("looking", "stopping")
    /\ Len(steps) = MaxSteps
    /\ status' = "failed"
    /\ UNCHANGED <<session, recorder, film, step, steps, mind>>

(* Mutant: an error in the steps is not written down as one.               *)
StepsThrowUnnoticed ==
    /\ \/ Goes("resetting", "stopping")
       \/ Goes("looking", "stopping") /\ Len(steps) < MaxSteps
       \/ Goes("deciding", "stopping")
    /\ status' = "failed"
    /\ UNCHANGED <<session, recorder, film, step, steps, mind>>

(* Mutant: an error in the steps skips the teardown.                       *)
StepsThrowPast ==
    /\ \/ Goes("resetting", "settling")
       \/ Goes("looking", "settling") /\ Len(steps) < MaxSteps
       \/ Goes("deciding", "settling")
    /\ status' = "error"
    /\ UNCHANGED <<session, recorder, film, step, steps, mind>>

(* The reset, the dump or the model fails.                                 *)
StepsThrow ==
    /\ \/ Goes("resetting", "stopping")
       \/ Goes("looking", "stopping") /\ Len(steps) < MaxSteps
       \/ Goes("deciding", "stopping")
    /\ status' = "error"
    /\ UNCHANGED <<session, recorder, film, step, steps, mind>>

-------------------------------------------------------------------------------
(* After the last step. *)

(* Mutant: nothing bounds the wait for a recorder that does not exit.      *)
FilmStopsUnbounded ==
    /\ Goes("stopping", "closing")
    /\ film # "on"
    /\ UNCHANGED <<session, recorder, film, step, steps, mind, status>>

FilmedByScrcpy == recorder = "scrcpy" /\ film = "on"

(* stop of scrcpy: adb lists the servers on the device and ends the one of *)
(* this film. If it cannot be run, scrcpy is left recording.               *)
CaptureEnds ==
    /\ FilmedByScrcpy
    /\ \/ Goes("stopping", "exiting") /\ UNCHANGED film
       \/ Goes("stopping", "closing") /\ film' = "left"
    /\ UNCHANGED <<session, recorder, step, steps, mind, status>>

(* awaitExit and stopQuietly: the recorder has ten seconds to exit; a film *)
(* that cannot be finalised is reported as none.                           *)
FilmStops ==
    /\ IF FilmedByScrcpy THEN Goes("exiting", "closing") ELSE Goes("stopping", "closing")
    /\ IF film = "on" THEN film' \in {"saved", "unusable"} ELSE UNCHANGED film
    /\ UNCHANGED <<session, recorder, step, steps, mind, status>>

(* closeQuietly, whether or not the driver would close.                    *)
DriverCloses ==
    /\ Goes("closing", "settling")
    /\ session' = "closed"
    /\ UNCHANGED <<recorder, film, step, steps, mind, status>>

(* finishCase, or the failure that ends the whole run.                     *)
CaseIsFinished ==
    /\ \/ Goes("settling", "done")
       \/ Goes("settling", "thrown")
    /\ UNCHANGED <<session, recorder, film, step, steps, mind, status>>

-------------------------------------------------------------------------------

Next == \/ CaseIsCreated \/ DriverOpens \/ DriverFails \/ FilmStarts \/ DriverIsReset
        \/ Looks \/ Decides \/ Acts \/ StepIsSaved \/ StepIsNotSaved
        \/ BudgetIsSpent \/ StepsThrow
        \/ CaptureEnds \/ FilmStops \/ DriverCloses \/ CaseIsFinished

Spec == Init /\ [][Next]_vars

(* What recorder.ts asks of adb has no timeout, unlike what the driver     *)
(* asks of it: #serverPids before scrcpy is spawned, and in stop before    *)
(* the wait for its exit begins.                                           *)
AwaitsAdb == \/ phase = "filming" /\ recorder = "scrcpy"
             \/ phase = "stopping" /\ FilmedByScrcpy

(* Every other await of a case is bounded. Of adb nothing is assumed here. *)
FairSpec == Spec /\ WF_vars(~AwaitsAdb /\ Next)

-------------------------------------------------------------------------------
(* Properties. *)

Phases == {"creating", "opening", "filming", "resetting", "looking", "deciding",
           "acting", "saving", "stopping", "exiting", "closing", "settling", "done", "thrown"}

TypeOK ==
    /\ phase \in Phases
    /\ session \in {"none", "open", "closed"}
    /\ recorder \in {"none", "scrcpy", "cdp"}
    /\ film \in {"none", "on", "saved", "unusable", "left"}
    /\ screen \in Screens \cup {NoScreen}
    /\ prompt \in [lines : Seq(Nat), facts : Seq(Facts)]
    /\ action \in Actions \cup {Nothing}
    /\ failed \in BOOLEAN
    /\ steps \in Seq([screen : Screens, action : Actions, failed : BOOLEAN,
                      stalled : BOOLEAN])
    /\ Len(steps) <= MaxSteps
    /\ history \in Seq(Nat)
    /\ notebook \in Seq(Facts)
    /\ repeats \in Nat
    /\ status \in {"running", "passed", "failed", "error"}

(* What the detector counts, told from the steps alone: how many steps,    *)
(* from the last one back, were one action on one screen.                  *)
SameFrom(i) ==
    \A j \in i..Len(steps) :
        /\ steps[j].screen = steps[Len(steps)].screen
        /\ steps[j].action = steps[Len(steps)].action

RepeatsAreConsecutive ==
    phase \in {"looking", "deciding", "acting", "saving"} /\ steps # <<>> =>
        /\ SameFrom(Len(steps) - repeats + 1)
        /\ repeats < Len(steps) => ~SameFrom(Len(steps) - repeats)

(* A step is noted as stalled only when the model had been warned in the   *)
(* very prompt it decided the step with.                                   *)
StalledWereWarned ==
    [][steps' # steps /\ Last(steps').stalled => Contains(prompt.lines, Warning)]_vars

(* A fact the model wrote down is in every later prompt, however far the   *)
(* step that remembered it lies back.                                      *)
FactsSurvive ==
    phase = "acting" =>
        \A i \in DOMAIN steps :
            steps[i].action.type = "remember" => Contains(prompt.facts, steps[i].action.of)

(* A case passes only on the model's word, in its last recorded step; it   *)
(* fails on its word or for want of steps; anything that threw is an       *)
(* error. The loop goes on past no verdict.                                *)
VerdictIsEarned ==
    /\ \A i \in DOMAIN steps :
          steps[i].action.type = "finish" => i = Len(steps) /\ status = steps[i].action.of
    /\ status = "passed" => steps # <<>> /\ Last(steps).action = Finish("passed")
    /\ status = "failed" =>
          \/ steps # <<>> /\ Last(steps).action = Finish("failed")
          \/ Len(steps) = MaxSteps

(* Once a case is settled or the run was thrown out of it, it holds        *)
(* neither the driver nor a running recording, but for one whose end could *)
(* not be asked for.                                                       *)
NothingIsHeld ==
    phase \in {"settling", "done", "thrown"} => session # "open" /\ film # "on"

(* Every case comes to its end, whatever fails in it, or stands for ever   *)
(* at a question of scrcpy's recorder to adb that is not answered. Nothing *)
(* else can hold it, and with it the queue.                                *)
CaseEnds == <>(phase \in {"done", "thrown"}) \/ <>[]AwaitsAdb

(* What recorder.ts says of its stop timeout: short enough not to stall a  *)
(* run.                                                                    *)
(* The code does not keep this: see the README, section 4.                 *)
FilmingStallsNoCase == <>(phase \in {"done", "thrown"})

(* What run.ts says of HISTORY_WINDOW: it is how many past steps the       *)
(* prompt carries.                                                         *)
(* The code does not keep this: see the README, section 4.                 *)
PromptCarriesSteps ==
    phase = "acting" =>
        \A i \in DOMAIN steps :
            i > Len(steps) - HistoryWindow => Contains(prompt.lines, i)

===============================================================================
