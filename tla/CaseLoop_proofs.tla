---------------------------- MODULE CaseLoop_proofs ----------------------------
(***************************************************************************)
(* Proofs about CaseLoop, for any screens, actions and facts, any budget   *)
(* and any thresholds.                                                     *)
(***************************************************************************)
EXTENDS CaseLoop, SequenceTheorems, TLAPS

-------------------------------------------------------------------------------
(* The inductive invariant. *)

InLoop == phase \in {"looking", "deciding", "acting", "saving"}
Decided == phase \in {"acting", "saving"}

(* What a step in the making has ready, and the budget it runs on.         *)
StepAgrees ==
    /\ phase \in {"deciding", "acting", "saving"} => screen \in Screens
                                                     /\ Len(steps) < MaxSteps
    /\ Decided => action \in Actions

BeforeLoop == phase \in {"creating", "opening", "filming", "resetting"}

(* The detector remembers the last step, and counts as far as it reaches.  *)
DetectorAgrees ==
    /\ BeforeLoop => steps = <<>> /\ repeats = 0
    /\ InLoop => IF steps = <<>>
                 THEN repeats = 0
                 ELSE /\ repeats \in 1..Len(steps)
                      /\ previous = <<steps[Len(steps)].screen, steps[Len(steps)].action>>

(* The history ends in a warning as long as the repetition lasts, and the  *)
(* prompt was cut from that history.                                       *)
WarningAgrees ==
    /\ InLoop /\ repeats >= LoopWarnAfter => history # <<>> /\ history[Len(history)] = Warning
    /\ Decided => prompt.lines = LastOf(history, HistoryWindow)

(* Everything remembered is in the notebook.                               *)
NotebookAgrees ==
    /\ \A i \in DOMAIN steps :
          steps[i].action.type = "remember" => Contains(notebook, steps[i].action.of)
    /\ Decided /\ action.type = "remember" => Contains(notebook, action.of)

(* No verdict before the loop is left.                                     *)
VerdictAgrees ==
    BeforeLoop \/ InLoop =>
        status = "running" /\ \A i \in DOMAIN steps : steps[i].action.type # "finish"

(* The phases in which the driver is open and the recording is on.         *)
HeldAgrees ==
    /\ session = "open" => phase \in {"filming", "resetting", "stopping", "exiting", "closing"}
                         \/ InLoop
    /\ film = "on" => phase \in {"resetting", "stopping", "exiting"} \/ InLoop
    /\ phase = "exiting" => FilmedByScrcpy

IInv == /\ TypeOK
        /\ StepAgrees
        /\ DetectorAgrees
        /\ WarningAgrees
        /\ NotebookAgrees
        /\ VerdictAgrees
        /\ HeldAgrees
        /\ RepeatsAreConsecutive
        /\ FactsSurvive
        /\ VerdictIsEarned

Assumptions == /\ MaxSteps \in Nat \ {0}
               /\ HistoryWindow \in Nat \ {0}
               /\ LoopWarnAfter \in Nat \ {0}
               /\ LoopNoteAfter \in Nat
               /\ LoopNoteAfter > LoopWarnAfter

LEMMA Assumed == Assumptions
  BY BudgetAssumption, WindowAssumption, LoopAssumption DEF Assumptions

-------------------------------------------------------------------------------
(* Facts about sequences and actions. *)

(* A window on a sequence holds its last element.                          *)
LEMMA WindowHasLast ==
  ASSUME NEW S, NEW s \in Seq(S), NEW n \in Nat \ {0}
  PROVE  /\ LastOf(s, n) \in Seq(S)
         /\ s # <<>> => Contains(LastOf(s, n), s[Len(s)])
  <1> DEFINE m == IF Len(s) > n THEN Len(s) - n + 1 ELSE 1
             w == SubSeq(s, m, Len(s))
  <1>1. /\ Len(s) \in Nat /\ m \in Int /\ m >= 1 /\ (s # <<>> => m <= Len(s))
        /\ \A i \in m..Len(s) : s[i] \in S
    OBVIOUS
  <1> HIDE DEF m
  <1>2. /\ w \in Seq(S)
        /\ Len(w) = IF m <= Len(s) THEN Len(s) - m + 1 ELSE 0
        /\ \A i \in 1..(Len(s) - m + 1) : w[i] = s[m + i - 1]
    BY <1>1, SubSeqProperties
  <1>3. ASSUME s # <<>> PROVE Contains(w, s[Len(s)])
    <2> DEFINE k == Len(s) - m + 1
    <2>1. k \in 1..Len(w) /\ m + k - 1 = Len(s) /\ w[k] = s[m + k - 1]
      BY <1>1, <1>2, <1>3
    <2>2. w[k] = s[Len(s)]
      BY <2>1
    <2> QED BY <2>1, <2>2 DEF Contains
  <1> QED BY <1>2, <1>3 DEF LastOf, m

(* Appending keeps what a sequence contains and adds the new element.      *)
LEMMA AppendContains ==
  ASSUME NEW S, NEW s \in Seq(S), NEW e \in S
  PROVE  /\ Contains(Append(s, e), e)
         /\ \A x : Contains(s, x) => Contains(Append(s, e), x)
  <1>1. /\ Len(Append(s, e)) = Len(s) + 1 /\ Len(s) \in Nat
        /\ Append(s, e)[Len(s) + 1] = e
        /\ \A i \in 1..Len(s) : Append(s, e)[i] = s[i]
    OBVIOUS
  <1> QED BY <1>1 DEF Contains

(* The three kinds of action.                                              *)
LEMMA ActionTypes ==
  \A a \in Actions :
      /\ a # Nothing
      /\ a.type \in {"device", "remember", "finish"}
      /\ a.type = "remember" => a.of \in Facts
      /\ a.type = "finish" => a = Finish(a.of) /\ a.of \in {"passed", "failed"}
  BY DEF Actions, Nothing, Device, Remember, Finish

-------------------------------------------------------------------------------
(* The invariant is inductive. *)

LEMMA InitIInv == Init => IInv
  <1> SUFFICES ASSUME Init PROVE IInv
    OBVIOUS
  <1> USE DEF Init
  <1>1. TypeOK
    <2>1. steps \in Seq([screen : Screens, action : Actions, failed : BOOLEAN,
                         stalled : BOOLEAN])
      OBVIOUS
    <2>2. Len(steps) <= MaxSteps
      BY Assumed DEF Assumptions
    <2>3. prompt \in [lines : Seq(Nat), facts : Seq(Facts)]
      BY DEF NoPrompt
    <2>4. history \in Seq(Nat) /\ notebook \in Seq(Facts)
      OBVIOUS
    <2> QED BY <2>1, <2>2, <2>3, <2>4 DEF TypeOK, Phases, Nothing
  <1>2. RepeatsAreConsecutive /\ FactsSurvive /\ VerdictIsEarned
    BY DEF RepeatsAreConsecutive, FactsSurvive, VerdictIsEarned
  <1>3. WarningAgrees
    BY Assumed DEF WarningAgrees, InLoop, Decided, Assumptions
  <1> QED
    BY <1>1, <1>2, <1>3 DEF IInv, StepAgrees, DetectorAgrees, NotebookAgrees,
                            VerdictAgrees, HeldAgrees, BeforeLoop, InLoop, Decided

(* The steps outside the loop and the ways out of it write neither the     *)
(* steps nor what the model knows, except for what its saving observed.    *)
LEMMA EdgesKeepIInv ==
  ASSUME IInv,
         \/ CaseIsCreated \/ DriverOpens \/ DriverFails \/ FilmStarts \/ DriverIsReset
         \/ StepIsNotSaved \/ BudgetIsSpent \/ StepsThrow
         \/ CaptureEnds \/ FilmStops \/ DriverCloses \/ CaseIsFinished
  PROVE  IInv'
  <1> USE DEF Goes
  <1>1. /\ UNCHANGED <<step, steps, history, notebook>>
        /\ \/ /\ BeforeLoop /\ (BeforeLoop' \/ phase' = "looking")
              /\ UNCHANGED <<repeats, status>>
           \/ /\ BeforeLoop \/ InLoop
              /\ phase' \in {"stopping", "closing", "settling", "done", "thrown"}
              /\ \/ status' = "error"
                 \/ status' = "failed" /\ Len(steps) = MaxSteps
                 \/ UNCHANGED status
           \/ /\ phase \in {"stopping", "exiting", "closing", "settling"}
              /\ phase' \in {"stopping", "exiting", "closing", "settling", "done", "thrown"}
              /\ UNCHANGED <<repeats, status>>
    BY DEF CaseIsCreated, DriverOpens, DriverFails, FilmStarts, DriverIsReset,
           StepIsNotSaved, BudgetIsSpent, StepsThrow, CaptureEnds, FilmStops, DriverCloses,
           CaseIsFinished, step, mind, loop, BeforeLoop, InLoop
  <1>2. phase' \in Phases
    BY <1>1 DEF BeforeLoop, Phases
  <1>3. repeats' \in Nat
    BY DEF IInv, TypeOK, Observed, CaseIsCreated, DriverOpens, DriverFails, FilmStarts,
           DriverIsReset, StepIsNotSaved, BudgetIsSpent, StepsThrow, CaptureEnds, FilmStops,
           DriverCloses, CaseIsFinished, mind, loop
  <1>4. /\ session' \in {"none", "open", "closed"}
        /\ recorder' \in {"none", "scrcpy", "cdp"}
        /\ film' \in {"none", "on", "saved", "unusable", "left"}
        /\ HeldAgrees'
    BY DEF IInv, TypeOK, HeldAgrees, FilmedByScrcpy, InLoop, CaseIsCreated, DriverOpens,
           DriverFails, FilmStarts, DriverIsReset, StepIsNotSaved, BudgetIsSpent, StepsThrow,
           CaptureEnds, FilmStops, DriverCloses, CaseIsFinished
  <1>5. TypeOK'
    BY <1>1, <1>2, <1>3, <1>4 DEF IInv, TypeOK, step
  <1>6. StepAgrees' /\ DetectorAgrees' /\ WarningAgrees'
    BY <1>1, Assumed DEF IInv, StepAgrees, DetectorAgrees, WarningAgrees, BeforeLoop, InLoop,
                Decided, step, Assumptions
  <1>7. NotebookAgrees' /\ VerdictAgrees' /\ FactsSurvive'
    BY <1>1 DEF IInv, NotebookAgrees, VerdictAgrees, FactsSurvive, BeforeLoop, InLoop,
                Decided, step
  <1>8. RepeatsAreConsecutive'
    BY <1>1 DEF IInv, DetectorAgrees, RepeatsAreConsecutive, BeforeLoop
  <1>9. VerdictIsEarned'
    BY <1>1 DEF IInv, VerdictIsEarned, VerdictAgrees, DetectorAgrees, BeforeLoop, InLoop
  <1> QED BY <1>4, <1>5, <1>6, <1>7, <1>8, <1>9 DEF IInv

LEMMA LooksKeepsIInv == IInv /\ Looks => IInv'
  <1> SUFFICES ASSUME IInv, Looks PROVE IInv'
    OBVIOUS
  <1> USE DEF Looks, Goes, mind, loop
  <1>1. TypeOK' /\ StepAgrees'
    BY DEF IInv, TypeOK, StepAgrees, Decided, Phases
  <1>2. DetectorAgrees' /\ WarningAgrees'
    BY DEF IInv, DetectorAgrees, WarningAgrees, BeforeLoop, InLoop, Decided
  <1>3. NotebookAgrees' /\ VerdictAgrees' /\ HeldAgrees'
    BY DEF IInv, NotebookAgrees, VerdictAgrees, HeldAgrees, FilmedByScrcpy, BeforeLoop, InLoop,
                Decided
  <1>4. RepeatsAreConsecutive' /\ FactsSurvive' /\ VerdictIsEarned'
    BY DEF IInv, RepeatsAreConsecutive, FactsSurvive, VerdictIsEarned, SameFrom
  <1> QED BY <1>1, <1>2, <1>3, <1>4 DEF IInv

LEMMA DecidesKeepsIInv == IInv /\ Decides => IInv'
  <1> SUFFICES ASSUME IInv, Decides PROVE IInv'
    OBVIOUS
  <1> USE DEF Decides, Goes, loop
  <1>1. /\ history \in Seq(Nat) /\ notebook \in Seq(Facts) /\ action' \in Actions
        /\ LastOf(history, HistoryWindow) \in Seq(Nat)
    BY WindowHasLast, Assumed DEF IInv, TypeOK, Assumptions
  <1>2. /\ notebook' \in Seq(Facts)
        /\ \A x : Contains(notebook, x) => Contains(notebook', x)
        /\ action'.type = "remember" => Contains(notebook', action'.of)
    BY <1>1, AppendContains, ActionTypes
  <1>3. prompt' \in [lines : Seq(Nat), facts : Seq(Facts)]
        /\ prompt'.lines = LastOf(history, HistoryWindow) /\ prompt'.facts = notebook
    BY <1>1 DEF Prompt
  <1>4. TypeOK' /\ StepAgrees'
    BY <1>1, <1>2, <1>3 DEF IInv, TypeOK, StepAgrees, Decided, Phases
  <1>5. DetectorAgrees' /\ WarningAgrees'
    BY <1>3 DEF IInv, DetectorAgrees, WarningAgrees, BeforeLoop, InLoop, Decided
  <1>6. NotebookAgrees' /\ VerdictAgrees' /\ HeldAgrees'
    BY <1>2 DEF IInv, NotebookAgrees, VerdictAgrees, HeldAgrees, FilmedByScrcpy, BeforeLoop,
                InLoop
  <1>7. RepeatsAreConsecutive' /\ FactsSurvive' /\ VerdictIsEarned'
    BY <1>3 DEF IInv, RepeatsAreConsecutive, FactsSurvive, NotebookAgrees, VerdictIsEarned,
                SameFrom
  <1> QED BY <1>4, <1>5, <1>6, <1>7 DEF IInv

LEMMA ActsKeepsIInv == IInv /\ Acts => IInv'
  <1> SUFFICES ASSUME IInv, Acts PROVE IInv'
    OBVIOUS
  <1> USE DEF Acts, Goes, mind, loop
  <1>1. TypeOK' /\ StepAgrees'
    BY DEF IInv, TypeOK, StepAgrees, Decided, Phases
  <1>2. DetectorAgrees' /\ WarningAgrees'
    BY DEF IInv, DetectorAgrees, WarningAgrees, BeforeLoop, InLoop, Decided
  <1>3. NotebookAgrees' /\ VerdictAgrees' /\ HeldAgrees'
    BY DEF IInv, NotebookAgrees, VerdictAgrees, HeldAgrees, FilmedByScrcpy, BeforeLoop, InLoop,
                Decided
  <1>4. RepeatsAreConsecutive' /\ FactsSurvive' /\ VerdictIsEarned'
    BY DEF IInv, RepeatsAreConsecutive, FactsSurvive, VerdictIsEarned, SameFrom
  <1> QED BY <1>1, <1>2, <1>3, <1>4 DEF IInv

(* What a saved step adds to the steps and to the history.                 *)
LEMMA SavedStep ==
  ASSUME IInv, StepIsSaved
  PROVE  LET n == Len(steps) IN
         /\ n \in Nat /\ n < MaxSteps
         /\ screen \in Screens /\ action \in Actions
         /\ steps' \in Seq([screen : Screens, action : Actions, failed : BOOLEAN,
                            stalled : BOOLEAN])
         /\ Len(steps') = n + 1 /\ steps' # <<>> /\ DOMAIN steps' = 1..(n + 1)
         /\ DOMAIN steps = 1..n
         /\ \A i \in 1..n : steps'[i] = steps[i]
         /\ steps'[n + 1].screen = screen
         /\ steps'[n + 1].action = action
         /\ steps'[n + 1].stalled = IsStuck(Observed)
         /\ repeats' = Observed /\ Observed \in Nat
         /\ history' \in Seq(Nat)
         /\ Warns(Observed) => history' # <<>> /\ history'[Len(history')] = Warning
  <1> USE DEF StepIsSaved
  <1> DEFINE rec == [screen |-> screen, action |-> action, failed |-> failed,
                     stalled |-> IsStuck(Observed)]
             Recs == [screen : Screens, action : Actions, failed : BOOLEAN, stalled : BOOLEAN]
             n == Len(steps)
  <1>1. /\ screen \in Screens /\ action \in Actions /\ n < MaxSteps
        /\ Observed \in Nat /\ steps \in Seq(Recs) /\ failed \in BOOLEAN
        /\ history \in Seq(Nat) /\ n \in Nat
    BY DEF IInv, TypeOK, StepAgrees, Decided, Observed
  <1>2. rec \in Recs /\ rec.screen = screen /\ rec.action = action
        /\ rec.stalled = IsStuck(Observed)
    BY <1>1 DEF IsStuck
  <1> HIDE DEF rec, Recs
  <1>3. /\ Append(steps, rec) \in Seq(Recs) /\ Len(Append(steps, rec)) = n + 1
        /\ \A i \in 1..n : Append(steps, rec)[i] = steps[i]
        /\ Append(steps, rec)[n + 1] = rec
        /\ DOMAIN steps = 1..n /\ DOMAIN Append(steps, rec) = 1..(n + 1)
    BY <1>1, <1>2
  <1>4. steps' = Append(steps, rec)
    BY DEF rec
  <1>5. Append(steps, rec) # <<>>
    <2> HIDE DEF IInv, StepIsSaved
    <2> QED BY <1>1, <1>2, AppendProperties
  <1> DEFINE told == Append(history, n + 1)
  <1>6. told \in Seq(Nat) /\ Len(told) \in Nat /\ <<Warning>> \in Seq(Nat)
    BY <1>1 DEF Warning
  <1>7. CASE Warns(Observed)
    <2>1. history' = told \o <<Warning>>
      BY <1>7
    <2>2. /\ told \o <<Warning>> \in Seq(Nat) /\ Len(told \o <<Warning>>) = Len(told) + 1
          /\ (told \o <<Warning>>)[Len(told) + 1] = Warning
      BY <1>6
    <2>3. told \o <<Warning>> # <<>>
      BY <2>2, <1>6
    <2> QED BY <1>1, <1>2, <1>3, <1>4, <1>5, <2>1, <2>2, <2>3 DEF Recs
  <1>8. CASE ~Warns(Observed)
    <2>1. history' = told \o <<>> /\ told \o <<>> = told
      BY <1>6, <1>8
    <2> QED BY <1>1, <1>2, <1>3, <1>4, <1>5, <1>6, <1>8, <2>1 DEF Recs
  <1> QED BY <1>7, <1>8

(* The count still tells how far back the last step reaches.               *)
LEMMA CountGoesOn ==
  ASSUME IInv, StepIsSaved
  PROVE  DetectorAgrees' /\ RepeatsAreConsecutive'
  <1> DEFINE n == Len(steps)
  <1>1. /\ n \in Nat /\ action \in Actions
        /\ Len(steps') = n + 1 /\ steps' # <<>>
        /\ \A i \in 1..n : steps'[i] = steps[i]
        /\ steps'[n + 1].screen = screen
        /\ steps'[n + 1].action = action
        /\ repeats' = Observed
    BY SavedStep
  <1>2. previous' = <<screen, action>> /\ phase = "saving" /\ ~BeforeLoop'
    BY DEF StepIsSaved, Key, BeforeLoop
  <1>3. CASE n = 0
    <2>1. steps = <<>>
      BY <1>3 DEF IInv, TypeOK
    <2>2. repeats' = 1
      BY <1>1, <1>2, <2>1 DEF IInv, DetectorAgrees, InLoop, Observed
    <2>3. SameFrom(1)'
      BY <1>1, <1>3 DEF SameFrom
    <2> QED BY <1>1, <1>2, <1>3, <2>2, <2>3 DEF DetectorAgrees, RepeatsAreConsecutive
  <1>4. CASE n # 0
    <2>1. /\ steps # <<>> /\ repeats \in 1..n
          /\ previous = <<steps[n].screen, steps[n].action>>
          /\ SameFrom(n - repeats + 1)
          /\ repeats < n => ~SameFrom(n - repeats)
      BY <1>1, <1>2, <1>4 DEF IInv, DetectorAgrees, RepeatsAreConsecutive, InLoop
    <2>2. CASE Key = previous
      <3>1. screen = steps[n].screen /\ action = steps[n].action
        BY <2>1, <2>2 DEF Key
      <3>2. repeats' = repeats + 1 /\ repeats' \in 1..(n + 1)
        BY <1>1, <2>1, <2>2 DEF Observed
      <3>3. SameFrom(Len(steps) - repeats + 1)'
        <4>1. SameFrom(n - repeats + 1) /\ Len(steps') - repeats' + 1 = n - repeats + 1
          BY <1>1, <2>1, <3>2
        <4> QED BY <1>1, <2>1, <3>1, <3>2, <4>1 DEF SameFrom
      <3>4. (repeats < Len(steps) => ~SameFrom(Len(steps) - repeats))'
        <4> SUFFICES ASSUME repeats' < Len(steps'), SameFrom(Len(steps) - repeats)'
                     PROVE FALSE
          OBVIOUS
        <4>1. Len(steps') - repeats' = n - repeats /\ repeats < n
          BY <1>1, <2>1, <3>2
        <4>2. SameFrom(n - repeats)
          BY <1>1, <2>1, <3>1, <4>1 DEF SameFrom
        <4> QED BY <2>1, <4>1, <4>2
      <3> QED BY <1>1, <1>2, <3>2, <3>3, <3>4 DEF DetectorAgrees, RepeatsAreConsecutive
    <2>3. CASE Key # previous
      <3>1. repeats' = 1 /\ ~(screen = steps[n].screen /\ action = steps[n].action)
        BY <1>1, <2>1, <2>3 DEF Observed, Key
      <3>2. SameFrom(Len(steps) - repeats + 1)' /\ ~SameFrom(Len(steps) - repeats)'
        BY <1>1, <1>4, <3>1 DEF SameFrom
      <3> QED BY <1>1, <1>2, <3>1, <3>2 DEF DetectorAgrees, RepeatsAreConsecutive
    <2> QED BY <2>2, <2>3
  <1> QED BY <1>3, <1>4

LEMMA StepIsSavedKeepsIInv == IInv /\ StepIsSaved => IInv'
  <1> SUFFICES ASSUME IInv, StepIsSaved PROVE IInv'
    OBVIOUS
  <1> DEFINE n == Len(steps)
  <1>1. /\ n \in Nat /\ n < MaxSteps
        /\ screen \in Screens /\ action \in Actions
        /\ Len(steps') = n + 1 /\ steps' # <<>> /\ DOMAIN steps' = 1..(n + 1)
        /\ DOMAIN steps = 1..n
        /\ \A i \in 1..n : steps'[i] = steps[i]
        /\ steps'[n + 1].action = action
        /\ repeats' = Observed /\ Observed \in Nat
        /\ history' \in Seq(Nat)
        /\ Warns(Observed) => history' # <<>> /\ history'[Len(history')] = Warning
    BY SavedStep
  <1>2. UNCHANGED <<session, recorder, film, screen, prompt, action, failed, notebook>>
    BY DEF StepIsSaved, step
  <1>3. phase = "saving" /\ phase' \in {"stopping", "looking"}
        /\ IF action.type = "finish"
           THEN phase' = "stopping" /\ status' = action.of
           ELSE phase' = "looking" /\ status' = status
    BY DEF StepIsSaved
  <1>4. action.type = "finish" => action = Finish(action.of) /\ action.of \in {"passed", "failed"}
    BY <1>1, ActionTypes
  <1>5. /\ status = "running"
        /\ \A i \in 1..n : steps[i].action.type # "finish"
    BY <1>1, <1>3 DEF IInv, VerdictAgrees, InLoop
  <1>6. TypeOK'
    <2>1. steps' \in Seq([screen : Screens, action : Actions, failed : BOOLEAN,
                          stalled : BOOLEAN])
      BY SavedStep
    <2>2. phase' \in Phases /\ status' \in {"running", "passed", "failed", "error"}
      BY <1>3, <1>4, <1>5 DEF Phases
    <2> QED BY <1>1, <1>2, <2>1, <2>2, Assumed DEF IInv, TypeOK, Assumptions
  <1>7. StepAgrees' /\ HeldAgrees' /\ FactsSurvive'
    BY <1>2, <1>3 DEF IInv, StepAgrees, HeldAgrees, FilmedByScrcpy, FactsSurvive, Decided,
                      InLoop
  <1>8. WarningAgrees'
    BY <1>1, <1>3 DEF WarningAgrees, Decided, Warns
  <1>9. NotebookAgrees'
    <2>1. \A i \in 1..n :
             steps[i].action.type = "remember" => Contains(notebook, steps[i].action.of)
      BY <1>1 DEF IInv, NotebookAgrees
    <2>2. action.type = "remember" => Contains(notebook, action.of)
      BY <1>3 DEF IInv, NotebookAgrees, Decided
    <2>3. ~Decided'
      BY <1>3 DEF Decided
    <2> QED BY <1>1, <1>2, <2>1, <2>2, <2>3 DEF NotebookAgrees
  <1>10. VerdictAgrees'
    BY <1>1, <1>3, <1>5 DEF VerdictAgrees, BeforeLoop, InLoop
  <1>11. VerdictIsEarned'
    <2>1. \A i \in 1..(n + 1) :
             steps'[i].action.type = "finish" => i = n + 1 /\ status' = steps'[i].action.of
      BY <1>1, <1>3, <1>5
    <2>2. status' # "running" => steps'[n + 1].action = Finish(status')
      BY <1>1, <1>3, <1>4, <1>5
    <2> QED BY <1>1, <2>1, <2>2 DEF VerdictIsEarned, Last
  <1> QED BY <1>6, <1>7, <1>8, <1>9, <1>10, <1>11, CountGoesOn DEF IInv

LEMMA StutterKeepsIInv == IInv /\ UNCHANGED vars => IInv'
  BY DEF IInv, vars, step, mind, loop, TypeOK, StepAgrees, DetectorAgrees, WarningAgrees,
         NotebookAgrees, VerdictAgrees, HeldAgrees, FilmedByScrcpy, RepeatsAreConsecutive,
         FactsSurvive,
         VerdictIsEarned, SameFrom, BeforeLoop, InLoop, Decided

THEOREM Invariant == Spec => []IInv
  <1>1. IInv /\ [Next]_vars => IInv'
    BY EdgesKeepIInv, LooksKeepsIInv, DecidesKeepsIInv, ActsKeepsIInv, StepIsSavedKeepsIInv,
       StutterKeepsIInv DEF Next
  <1> QED BY InitIInv, <1>1, PTL DEF Spec

-------------------------------------------------------------------------------
(* The theorems. *)

(* Every variable of a case keeps its type, and no case takes more steps   *)
(* than its budget (run.ts, the for loop of runCase).                      *)
THEOREM TypeCorrect == Spec => []TypeOK
  <1>1. IInv => TypeOK
    BY DEF IInv
  <1> QED BY <1>1, Invariant, PTL

(* LoopDetector counts exactly the run of equal steps at the end.          *)
THEOREM DetectorIsRight == Spec => []RepeatsAreConsecutive
  <1>1. IInv => RepeatsAreConsecutive
    BY DEF IInv
  <1> QED BY <1>1, Invariant, PTL

(* The notebook outlives the history window, whatever the window is.       *)
THEOREM NotebookIsKept == Spec => []FactsSurvive
  <1>1. IInv => FactsSurvive
    BY DEF IInv
  <1> QED BY <1>1, Invariant, PTL

(* A case passes only when its last recorded step finished it as passed.   *)
THEOREM VerdictsAreEarned == Spec => []VerdictIsEarned
  <1>1. IInv => VerdictIsEarned
    BY DEF IInv
  <1> QED BY <1>1, Invariant, PTL

(* The finally block and recordCase leave nothing open behind a case.      *)
THEOREM CasesLetGo == Spec => []NothingIsHeld
  <1>1. IInv => NothingIsHeld
    BY DEF IInv, HeldAgrees, NothingIsHeld, InLoop
  <1> QED BY <1>1, Invariant, PTL

(* A stalled note means that the model saw the warning and went on, for    *)
(* any window that is not empty and any pair of thresholds in that order.  *)
THEOREM StalledCasesWereWarned == Spec => StalledWereWarned
  <1> DEFINE Warned == steps' # steps /\ Last(steps').stalled => Contains(prompt.lines, Warning)
  <1>1. ASSUME IInv, [Next]_vars, steps' # steps, Last(steps').stalled
        PROVE  Contains(prompt.lines, Warning)
    <2>1. StepIsSaved
      BY <1>1 DEF Next, vars, CaseIsCreated, DriverOpens, DriverFails, FilmStarts,
                  DriverIsReset, Looks, Decides, Acts, StepIsNotSaved, BudgetIsSpent,
                  StepsThrow, CaptureEnds, FilmStops, DriverCloses, CaseIsFinished
    <2>2. IsStuck(Observed)
      <3>1. /\ Len(steps') = Len(steps) + 1
            /\ steps'[Len(steps) + 1].stalled = IsStuck(Observed)
        BY <1>1, <2>1, SavedStep
      <3> QED BY <1>1, <3>1 DEF Last
    <2>3. repeats \in Nat /\ phase = "saving" /\ history \in Seq(Nat)
      BY <1>1, <2>1 DEF IInv, TypeOK, StepIsSaved
    <2>4. repeats >= LoopWarnAfter
      BY <2>2, <2>3, Assumed DEF IsStuck, Observed, Assumptions
    <2>5. /\ history # <<>> /\ history[Len(history)] = Warning
          /\ prompt.lines = LastOf(history, HistoryWindow)
      BY <1>1, <2>3, <2>4 DEF IInv, WarningAgrees, InLoop, Decided
    <2> QED BY <2>3, <2>5, WindowHasLast, Assumed DEF Assumptions
  <1>2. IInv /\ [Next]_vars => [Warned]_vars
    BY <1>1
  <1> QED BY <1>2, Invariant, PTL DEF Spec, StalledWereWarned
===============================================================================
