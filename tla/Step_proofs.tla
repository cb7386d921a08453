------------------------------ MODULE Step_proofs ------------------------------
(***************************************************************************)
(* The review of a step, for any screens, any settings and any answers: it *)
(* stays in its step, and what is recorded of it is whole. What a step     *)
(* does is what its answer says of the screen. And what a screen is to the *)
(* model, for any page and any dump: a control it can see has one number,  *)
(* words are kept in their place, and one control is one number.           *)
(***************************************************************************)
EXTENDS Step, Screen, FiniteSetTheorems, SequenceTheorems, WellFoundedInduction, TLAPS

Requests ==
    [persona : Nat, step : Nat, attempt : Nat, pending : BOOLEAN, aborted : BOOLEAN]

TypeInv ==
    /\ settings \in Settings
    /\ reviewers \subseteq Requests
    /\ reports \in Seq(ToSet(personas))
    /\ \E S : steps \in Seq(S)

(* A request that was not given up is the only one, of the persona and the *)
(* step the case is waiting for.                                           *)
AsksForThisStep ==
    /\ \A r, q \in reviewers : ~r.aborted /\ ~q.aborted => r = q
    /\ \A r \in reviewers : ~r.aborted =>
          /\ at = "reviewing"
          /\ r.step = Len(steps) /\ r.persona = Len(reports) + 1

(* What may be recorded of a review.                                       *)
IsWhole(result, told, seen) ==
    /\ result = None <=> ~shouldReview
    /\ result = "completed" => told = personas /\ seen = 0
    /\ result # "completed" => told = <<>>

ReviewAgrees ==
    /\ at \in {"picturing", "deciding", "acting", "typing", "evidence"} =>
          reports = <<>> /\ picture \in {None, 0}
    /\ at = "picturing" => commands = <<>>
    /\ at = "reviewing" =>
          /\ shouldReview /\ picture = 0
          /\ Len(reports) < Len(personas)
          /\ \A i \in 1..Len(reports) : reports[i] = personas[i]
    /\ at = "recording" => IsWhole(outcome, reports, picture)

RecordsAreWhole ==
    \A k \in DOMAIN steps : IsWhole(steps[k].review, steps[k].reports, steps[k].picture)

IInv ==
    /\ TypeInv /\ AsksForThisStep /\ ReviewAgrees
    /\ RecordsAreWhole /\ ReviewsStayInTheirStep

LEMMA PersonasAreSeq == settings \in Settings => personas \in Seq(ToSet(personas))
<1> SUFFICES ASSUME settings \in Settings PROVE personas \in Seq(ToSet(personas))
  OBVIOUS
<1>1. CASE personas = <<>>
  BY <1>1, EmptySeq
<1>2. \/ personas = <<>>
      \/ \E who \in {settings.case, settings.scenario} :
            personas = who.personas /\ who.personas # None
  BY DEF personas, Choice
<1> QED BY <1>1, <1>2, StepAssumption

LEMMA IInvInit == Init => IInv
<1> SUFFICES ASSUME Init PROVE IInv
  OBVIOUS
<1>1. TypeInv
  <2>1. steps \in Seq({}) /\ reports \in Seq(ToSet(personas)) 
    BY EmptySeq DEF Init
  <2> QED BY <2>1 DEF Init, TypeInv
<1>2. AsksForThisStep /\ ReviewAgrees /\ ReviewsStayInTheirStep
  BY DEF Init, AsksForThisStep, ReviewAgrees, ReviewsStayInTheirStep
<1>3. RecordsAreWhole
  BY EmptySeq DEF Init, RecordsAreWhole
<1> QED BY <1>1, <1>2, <1>3 DEF IInv

(* While the case does not wait for a review, the requests stay as they    *)
(* are: all of them were given up.                                         *)
LEMMA NobodyAsks ==
    ASSUME IInv, at # "reviewing", UNCHANGED <<settings, reviewers, steps, strays>>,
           reports' \in Seq(ToSet(personas))
    PROVE  TypeInv' /\ AsksForThisStep' /\ RecordsAreWhole' /\ ReviewsStayInTheirStep'
<1>1. personas' = personas /\ shouldReview' = shouldReview
  BY DEF personas, shouldReview
<1>2. TypeInv'
  BY <1>1 DEF IInv, TypeInv
<1>3. AsksForThisStep'
  BY DEF IInv, AsksForThisStep
<1>4. RecordsAreWhole' /\ ReviewsStayInTheirStep'
  BY <1>1 DEF IInv, RecordsAreWhole, IsWhole, ReviewsStayInTheirStep
<1> QED BY <1>2, <1>3, <1>4

LEMMA RunnerStep ==
    ASSUME IInv, PollsScreen \/ Captures \/ Throws \/ TakesPicture \/ Decides \/ Acts \/ TypesText
                 \/ TakesEvidence
    PROVE  IInv'
<1> USE DEF IInv
<1>0. personas' = personas /\ shouldReview' = shouldReview /\ at # "reviewing"
  BY DEF personas, shouldReview, PollsScreen, Captures, Throws, TakesPicture, Decides, Acts,
         TypesText, TakesEvidence, review, device
<1>1. UNCHANGED <<settings, reviewers, steps, strays>>
  BY DEF PollsScreen, Captures, Throws, TakesPicture, Decides, Acts, TypesText, TakesEvidence,
         review, device
<1>2. reports' \in Seq(ToSet(personas))
  BY EmptySeq DEF TypeInv, PollsScreen, Captures, Throws, TakesPicture, Decides, Acts, TypesText,
                  TakesEvidence, review, device
<1>3. ReviewAgrees'
  <2>1. CASE PollsScreen \/ Throws
    BY <2>1 DEF PollsScreen, Throws, ReviewAgrees
  <2>2. CASE Captures
    BY <2>2 DEF Captures, ReviewAgrees
  <2>3. CASE TakesPicture
    <3>1. commands = <<>> => Len(commands) = 0
      OBVIOUS
    <3> QED BY <1>0, <2>3, <3>1 DEF TakesPicture, ReviewAgrees, review, device
  <2>4. CASE Decides
    BY <2>4 DEF Decides, ReviewAgrees, review, device
  <2>5. CASE Acts
    BY <2>5 DEF Acts, ReviewAgrees, review
  <2>6. CASE TypesText
    BY <2>6 DEF TypesText, ReviewAgrees, review
  <2>7. CASE TakesEvidence
    <3>1. shouldReview => Len(personas) > 0
      BY PersonasAreSeq, EmptySeq DEF TypeInv, shouldReview
    <3>2. at = "evidence" /\ UNCHANGED <<reports, picture>> /\ reports = <<>>
      BY <2>7 DEF TakesEvidence, ReviewAgrees
    <3>3. CASE shouldReview /\ picture # None
      BY <1>0, <2>7, <3>1, <3>2, <3>3, EmptySeq DEF TakesEvidence, ReviewAgrees
    <3>4. CASE ~(shouldReview /\ picture # None)
      BY <1>0, <2>7, <3>2, <3>4, StepAssumption DEF TakesEvidence, ReviewAgrees, IsWhole
    <3> QED BY <3>3, <3>4
  <2> QED BY <2>1, <2>2, <2>3, <2>4, <2>5, <2>6, <2>7
<1> QED BY <1>0, <1>1, <1>2, <1>3, NobodyAsks

(* What the requests and the review may become in a step that records      *)
(* nothing.                                                                *)
LEMMA ReviewMoves ==
    ASSUME IInv, UNCHANGED <<settings, steps, strays, picture>>,
           reviewers' \subseteq Requests, reports' \in Seq(ToSet(personas)),
           AsksForThisStep', at' \in {"reviewing", "recording"},
           at' = "reviewing" =>
               /\ at = "reviewing"
               /\ Len(reports') < Len(personas)
               /\ \A i \in 1..Len(reports') : reports'[i] = personas[i],
           at' = "recording" => IsWhole(outcome', reports', picture)
    PROVE  IInv'
<1> USE DEF IInv
<1>1. personas' = personas /\ shouldReview' = shouldReview
  BY DEF personas, shouldReview
<1>2. TypeInv'
  BY <1>1 DEF TypeInv
<1>3. RecordsAreWhole' /\ ReviewsStayInTheirStep'
  BY <1>1 DEF RecordsAreWhole, IsWhole, ReviewsStayInTheirStep
<1>4. ReviewAgrees'
  BY <1>1 DEF ReviewAgrees, IsWhole
<1> QED BY <1>2, <1>3, <1>4

LEMMA StartStep == IInv /\ StartsReview => IInv'
<1> SUFFICES ASSUME IInv, StartsReview PROVE IInv'
  OBVIOUS
<1> USE DEF IInv
<1> DEFINE new == Reviewer(Len(reports) + 1, Len(steps))
<1>1. /\ at = "reviewing" /\ reviewers' = reviewers \cup {new}
      /\ UNCHANGED <<settings, at, steps, strays, picture, reports>>
  BY DEF StartsReview
<1>2. Len(reports) \in Nat /\ Len(steps) \in Nat
  BY LenProperties DEF TypeInv
<1>3. /\ new \in Requests /\ ~new.aborted
      /\ new.step = Len(steps) /\ new.persona = Len(reports) + 1
  BY <1>2 DEF Reviewer, Requests
<1> HIDE DEF new
<1>4. \A r \in reviewers : r.aborted
  BY <1>1 DEF StartsReview, Current, AsksForThisStep
<1>5. AsksForThisStep'
  BY <1>1, <1>3, <1>4 DEF AsksForThisStep
<1>6. reviewers' \subseteq Requests
  BY <1>1, <1>3 DEF TypeInv
<1> QED BY <1>1, <1>5, <1>6, ReviewMoves DEF TypeInv, ReviewAgrees

(* One request becomes another of the same persona and step, given up if   *)
(* it was.                                                                 *)
LEMMA RequestBecomes ==
    ASSUME AsksForThisStep, NEW r \in reviewers, NEW q,
           q.persona = r.persona, q.step = r.step, r.aborted => q.aborted,
           reviewers' = (reviewers \ {r}) \cup {q}, UNCHANGED <<at, steps, reports>>
    PROVE  AsksForThisStep'
  BY DEF AsksForThisStep

LEMMA RequestLeaves ==
    ASSUME AsksForThisStep, NEW r, reviewers' = reviewers \ {r},
           UNCHANGED <<at, steps, reports>> \/ (r \in reviewers /\ ~r.aborted)
    PROVE  AsksForThisStep'
  BY DEF AsksForThisStep

LEMMA Whole ==
    ASSUME IInv, at = "reviewing"
    PROVE  IsWhole("error", <<>>, picture)
  BY StepAssumption DEF IInv, ReviewAgrees, IsWhole

LEMMA AskStep ==
    ASSUME IInv, NEW r \in reviewers, AsksForReview(r)
    PROVE  IInv'
<1> USE DEF IInv
<1>1. UNCHANGED <<settings, at, steps, picture, reports, outcome>>
  BY DEF AsksForReview
<1>0. UNCHANGED commands
  BY DEF AsksForReview, device
<1>2. CASE r.aborted
  <2>1. reviewers' = reviewers \ {r} /\ UNCHANGED strays
    BY <1>2 DEF AsksForReview
  <2>2. AsksForThisStep'
    BY <1>1, <2>1, RequestLeaves
  <2>3. TypeInv'
    BY <1>1, <2>1 DEF TypeInv, personas
  <2> QED BY <1>0, <1>1, <2>1, <2>2, <2>3
          DEF ReviewAgrees, RecordsAreWhole, IsWhole, ReviewsStayInTheirStep, personas, shouldReview
<1>3. CASE ~r.aborted
  <2> DEFINE q == [r EXCEPT !.attempt = @ + 1, !.pending = TRUE]
  <2>1. Sends(r)
    BY <1>3 DEF AsksForReview
  <2>2. at = "reviewing" /\ r \in Current
    BY <1>3 DEF AsksForThisStep, Current
  <2>3. reviewers' = (reviewers \ {r}) \cup {q} /\ UNCHANGED strays
    BY <2>1, <2>2 DEF Sends
  <2>4. r \in Requests
    BY DEF TypeInv
  <2>5. q \in Requests /\ q.persona = r.persona /\ q.step = r.step /\ q.aborted = r.aborted
    <3> DEFINE asked == [r EXCEPT !.attempt = @ + 1]
    <3>1. /\ asked \in Requests /\ asked.aborted = r.aborted
          /\ asked.persona = r.persona /\ asked.step = r.step
      BY <2>4 DEF Requests
    <3>2. q = [asked EXCEPT !.pending = TRUE]
      OBVIOUS
    <3> HIDE DEF asked, q
    <3> QED BY <3>1, <3>2 DEF Requests
  <2> HIDE DEF q
  <2>6. AsksForThisStep'
    BY <1>1, <2>3, <2>5, RequestBecomes
  <2>7. reviewers' \subseteq Requests
    BY <2>3, <2>5 DEF TypeInv
  <2> QED BY <1>1, <2>2, <2>3, <2>6, <2>7, ReviewMoves DEF TypeInv, ReviewAgrees
<1> QED BY <1>2, <1>3

LEMMA DeadlineStep ==
    ASSUME IInv, NEW r \in reviewers, DeadlinePasses(r)
    PROVE  IInv'
<1> USE DEF IInv
<1> DEFINE q == [r EXCEPT !.aborted = TRUE]
<1>1. /\ reviewers' = (reviewers \ {r}) \cup {q}
      /\ reports' = <<>> /\ outcome' = "error" /\ at' = "recording"
      /\ UNCHANGED <<settings, steps, strays, picture>> /\ ~r.aborted
  BY DEF DeadlinePasses, Current
<1>2. r \in Requests
  BY DEF TypeInv
<1>3. q \in Requests /\ q.aborted
  BY <1>2 DEF Requests
<1> HIDE DEF q
<1>4. AsksForThisStep' /\ reviewers' \subseteq Requests
  BY <1>1, <1>3 DEF AsksForThisStep, TypeInv
<1>5. at = "reviewing"
  BY <1>1 DEF AsksForThisStep
<1>6. IsWhole(outcome', reports', picture)
  BY <1>1, <1>5, Whole
<1>7. reports' \in Seq(ToSet(personas))
  BY <1>1, EmptySeq
<1> QED BY <1>1, <1>4, <1>6, <1>7, ReviewMoves

(* A report is of the next persona: with the last one they are all there.  *)
LEMMA ReportStep ==
    ASSUME IInv, NEW r \in reviewers, ~r.aborted,
           Turns(r, Append(reports, personas[r.persona])),
           UNCHANGED <<settings, steps, strays, picture>>
    PROVE  IInv'
<1> USE DEF IInv
<1> DEFINE told == Append(reports, personas[r.persona])
<1>1. /\ at = "reviewing" /\ r.persona = Len(reports) + 1 /\ picture = 0 /\ shouldReview
      /\ Len(reports) < Len(personas)
      /\ \A i \in 1..Len(reports) : reports[i] = personas[i]
  BY DEF AsksForThisStep, ReviewAgrees
<1>2. /\ personas \in Seq(ToSet(personas)) /\ reports \in Seq(ToSet(personas))
      /\ Len(personas) \in Nat /\ Len(reports) \in Nat
  BY PersonasAreSeq, LenProperties DEF TypeInv
<1>3. personas[r.persona] \in ToSet(personas)
  BY <1>1, <1>2, ElementOfSeq
<1>4. /\ told \in Seq(ToSet(personas)) /\ Len(told) = Len(reports) + 1
      /\ \A i \in 1..Len(told) : told[i] = personas[i]
  <2>1. /\ told \in Seq(ToSet(personas)) /\ Len(told) = Len(reports) + 1
        /\ told[Len(reports) + 1] = personas[r.persona]
        /\ \A i \in 1..Len(reports) : told[i] = reports[i]
    BY <1>2, <1>3, AppendProperties
  <2> QED BY <1>1, <1>2, <2>1
<1>5. /\ reports' = told /\ reviewers' = reviewers \ {r}
      /\ IF Len(told) = Len(personas) THEN outcome' = "completed" /\ at' = "recording"
         ELSE UNCHANGED <<outcome, at>>
  BY DEF Turns
<1> HIDE DEF told
<1>6. AsksForThisStep' /\ reviewers' \subseteq Requests
  BY <1>5 DEF AsksForThisStep, TypeInv
<1>7. CASE Len(told) = Len(personas)
  <2>1. told = personas
    BY <1>2, <1>4, <1>7, SeqEqual
  <2>2. IsWhole(outcome', reports', picture)
    BY <1>1, <1>5, <1>7, <2>1, StepAssumption DEF IsWhole
  <2> QED BY <1>4, <1>5, <1>6, <1>7, <2>2, ReviewMoves
<1>8. CASE Len(told) # Len(personas)
  BY <1>1, <1>2, <1>4, <1>5, <1>6, <1>8, ReviewMoves
<1> QED BY <1>7, <1>8

LEMMA AnswerStep ==
    ASSUME IInv, NEW r \in reviewers,
           NEW answer \in {"report", "report of another", "malformed", "fails"},
           ReviewAnswers(r, answer)
    PROVE  IInv'
<1> USE DEF IInv
<1>1. UNCHANGED <<settings, steps, strays, picture, commands>> /\ r \in Requests
  BY DEF ReviewAnswers, TypeInv, device
<1>2. CASE ~r.aborted /\ answer = "report"
  BY <1>1, <1>2, ReportStep DEF ReviewAnswers, hasExactPersona
<1>3. CASE ~r.aborted /\ answer # "report" /\ (answer = "fails" \/ r.attempt = 2)
  <2>1. ReviewFails(r)
    BY <1>3 DEF ReviewAnswers, hasExactPersona
  <2>2. at = "reviewing"
    BY <1>3 DEF AsksForThisStep
  <2>3. AsksForThisStep' /\ reviewers' \subseteq Requests
    BY <1>1, <1>3, <2>1 DEF ReviewFails, AsksForThisStep, TypeInv
  <2>4. reports' \in Seq(ToSet(personas)) /\ IsWhole(outcome', reports', picture)
    BY <2>1, <2>2, EmptySeq, Whole DEF ReviewFails
  <2> QED BY <1>1, <2>1, <2>3, <2>4, ReviewMoves DEF ReviewFails
<1>4. CASE ~(~r.aborted /\ (answer = "report" \/ answer = "fails" \/ r.attempt = 2))
  <2> DEFINE q == [r EXCEPT !.pending = FALSE]
  <2>1. /\ reviewers' = reviewers \ {r} \/ reviewers' = (reviewers \ {r}) \cup {q}
        /\ UNCHANGED <<reports, outcome, at>>
    BY <1>4 DEF ReviewAnswers, hasExactPersona
  <2>2. q \in Requests /\ q.persona = r.persona /\ q.step = r.step /\ q.aborted = r.aborted
    BY <1>1 DEF Requests
  <2> HIDE DEF q
  <2>3. AsksForThisStep'
    BY <1>1, <2>1, <2>2, RequestLeaves, RequestBecomes
  <2>4. TypeInv'
    BY <1>1, <2>1, <2>2 DEF TypeInv, personas
  <2> QED BY <1>1, <2>1, <2>3, <2>4
          DEF ReviewAgrees, RecordsAreWhole, IsWhole, ReviewsStayInTheirStep, personas, shouldReview
<1> QED BY <1>2, <1>3, <1>4

LEMMA RecordStep == IInv /\ Records => IInv'
<1> SUFFICES ASSUME IInv, Records PROVE IInv'
  OBVIOUS
<1> USE DEF IInv
<1> DEFINE step == [ui |-> ui, action |-> action, note |-> note, commands |-> commands,
                    picture |-> picture, review |-> outcome, reports |-> reports]
<1>1. /\ steps' = Append(steps, step) /\ at = "recording" /\ at' \in {"done", "capturing"}
      /\ UNCHANGED <<settings, reviewers, reports, outcome, strays, picture>>
  BY DEF Records, review
<1>2. step.review = outcome /\ step.reports = reports /\ step.picture = picture
  OBVIOUS
<1> HIDE DEF step
<1>3. personas' = personas /\ shouldReview' = shouldReview
  BY <1>1 DEF personas, shouldReview
<1>4. PICK S : steps \in Seq(S)
  BY DEF TypeInv
<1>5. steps \in Seq(S \cup {step})
  BY <1>4, SeqMonotonic
<1>6. /\ Append(steps, step) \in Seq(S \cup {step})
      /\ DOMAIN Append(steps, step) = 1..(Len(steps) + 1) /\ DOMAIN steps = 1..Len(steps)
      /\ Append(steps, step)[Len(steps) + 1] = step
      /\ \A k \in 1..Len(steps) : Append(steps, step)[k] = steps[k]
      /\ Len(steps) \in Nat
  BY <1>5, AppendProperties, LenProperties
<1>7. IsWhole(step.review, step.reports, step.picture)
  BY <1>1, <1>2 DEF ReviewAgrees
<1>8. RecordsAreWhole'
  BY <1>1, <1>3, <1>6, <1>7 DEF RecordsAreWhole, IsWhole
<1>9. TypeInv'
  BY <1>1, <1>3, <1>6 DEF TypeInv
<1>10. AsksForThisStep' /\ ReviewAgrees' /\ ReviewsStayInTheirStep'
  BY <1>1 DEF AsksForThisStep, ReviewAgrees, ReviewsStayInTheirStep
<1> QED BY <1>8, <1>9, <1>10

LEMMA IInvStep == IInv /\ [Next]_vars => IInv'
<1> SUFFICES ASSUME IInv, [Next]_vars PROVE IInv'
  OBVIOUS
<1>1. CASE ScreenChanges \/ UNCHANGED vars
  <2>1. UNCHANGED <<settings, at, reviewers, reports, outcome, strays, steps, picture, commands>>
    BY <1>1 DEF ScreenChanges, vars, review, device
  <2> QED BY <2>1 DEF IInv, TypeInv, AsksForThisStep, ReviewAgrees, RecordsAreWhole, IsWhole,
                     ReviewsStayInTheirStep, personas, shouldReview
<1> QED
  BY <1>1, RunnerStep, StartStep, AskStep, DeadlineStep, AnswerStep, RecordStep
  DEF Next, Runner, Deadline, Answer

(* A review never asks the model again once the step it was for has gone   *)
(* on, for any number of personas and attempts and any deadline.           *)
THEOREM NoStrayReview == Spec => []ReviewsStayInTheirStep
<1>1. IInv => ReviewsStayInTheirStep
  BY DEF IInv
<1> QED BY <1>1, IInvInit, IInvStep, PTL DEF Spec

(* A recorded review has a report of every persona, of a picture from      *)
(* before the action, or none; for any settings and any answers.           *)
THEOREM RecordedReviewsAreWhole == Spec => []ReviewsAreWhole
<1>1. IInv => ReviewsAreWhole
  BY DEF IInv, RecordsAreWhole, IsWhole, ReviewsAreWhole
<1> QED BY <1>1, IInvInit, IInvStep, PTL DEF Spec

-------------------------------------------------------------------------------
(* Trees. *)

(* Induction, as the least number for which something fails.               *)
LEMMA SmallestIs ==
    ASSUME NEW S, S \subseteq Nat, S # {}
    PROVE  \E x \in S : \A y \in S : x <= y
<1>1. PICK x \in S : \A y \in S : ~ (<<y, x>> \in OpToRel(<, Nat))
  BY WFMin, NatLessThanWellFounded
<1>2. ASSUME NEW y \in S PROVE x <= y
  <2>1. x \in Nat /\ y \in Nat
    OBVIOUS
  <2>2. ~ (y < x)
    BY <1>1, <2>1 DEF OpToRel
  <2> QED BY <2>1, <2>2
<1> QED BY <1>2

(* A forest: parents come before their children.                           *)
IsForest(D, up) == D \subseteq Nat /\ \A i \in D : up[i] \in D => up[i] < i

(* What goes from a parent to its children, and holds of the roots, holds  *)
(* of all.                                                                 *)
Inherits(D, up, Q) == \A i \in D : (up[i] \in D => up[i] \in Q) => i \in Q

LEMMA GoesDown ==
    ASSUME NEW D, NEW up, IsForest(D, up), NEW Q, Inherits(D, up, Q)
    PROVE  D \subseteq Q
<1> USE DEF IsForest, Inherits
<1> SUFFICES ASSUME D \ Q # {} PROVE FALSE
  OBVIOUS
<1>1. PICK k \in D \ Q : \A i \in D \ Q : k <= i
  BY SmallestIs
<1>2. up[k] \in D /\ up[k] \notin Q
  BY <1>1
<1>3. k \in Nat /\ up[k] \in Nat /\ up[k] < k /\ k <= up[k]
  BY <1>1, <1>2
<1> QED BY <1>3

(* And what can be told of a node from what is told of its parent is told  *)
(* of all.                                                                 *)
CanTell(D, S, base, step) ==
    \A i \in D : base[i] \in S /\ \A x \in S : step[i][x] \in S

Tells(f, D, up, base, step) ==
    \A i \in D : f[i] = IF up[i] \in D THEN step[i][f[up[i]]] ELSE base[i]

LEMMA IsToldDown ==
    ASSUME NEW D, NEW up, IsForest(D, up), NEW S, NEW base, NEW step, CanTell(D, S, base, step)
    PROVE  \E f \in [D -> S] : Tells(f, D, up, base, step)
<1> USE DEF IsForest, CanTell
<1> DEFINE Below(n) == {i \in D : i < n}
           Becomes(f, i) == IF up[i] \in D THEN step[i][f[up[i]]] ELSE base[i]
           Fits(f, n) == f \in [Below(n) -> S] /\ \A i \in Below(n) : f[i] = Becomes(f, i)
           Bad == {n \in Nat : ~ \E f : Fits(f, n)}
<1>1. \A n \in Nat : \E f : Fits(f, n)
  <2> SUFFICES ASSUME Bad # {} PROVE FALSE
    OBVIOUS
  <2>1. PICK n \in Bad : \A m \in Bad : n <= m
    <3>1. Bad \subseteq Nat
      OBVIOUS
    <3> HIDE DEF Bad
    <3> QED BY <3>1, SmallestIs
  <2>2. CASE n = 0
    <3>1. Below(n) = {}
      <4>1. \A i \in D : i \in Nat /\ ~ (i < 0)
        OBVIOUS
      <4> QED BY <2>2, <4>1
    <3>2. Fits([i \in {} |-> 0], n)
      BY <3>1
    <3> QED BY <2>1, <3>2
  <2>3. CASE n # 0
    <3>0. n \in Nat
      BY <2>1
    <3>1. n - 1 \in Nat /\ n \in Nat /\ n - 1 \notin Bad
      <4>1. n - 1 \in Nat /\ ~ (n <= n - 1)
        BY <2>3, <3>0
      <4> HIDE DEF Bad
      <4> QED BY <2>1, <3>0, <4>1
    <3>2. PICK f : Fits(f, n - 1)
      BY <3>1
    <3> DEFINE g == [i \in Below(n) |-> IF i = n - 1 THEN Becomes(f, i) ELSE f[i]]
    <3>3. \A i \in Below(n) : i # n - 1 => i \in Below(n - 1)
      BY <3>1
    <3>4. \A i \in Below(n) : up[i] \in D => up[i] \in Below(n - 1) /\ up[i] # n - 1
      <4> SUFFICES ASSUME NEW i \in Below(n), up[i] \in D PROVE up[i] < n - 1
        <5>1. \A x \in Nat : x < n - 1 => x # n - 1
          BY <3>1
        <5> QED BY <5>1
      <4>1. up[i] < i /\ i < n /\ i \in Nat /\ up[i] \in Nat
        OBVIOUS
      <4> QED BY <3>1, <4>1
    <3>5. \A i \in Below(n) : Becomes(g, i) = Becomes(f, i)
      <4>1. \A i \in Below(n) : up[i] \in D => g[up[i]] = f[up[i]]
        <5>1. Below(n - 1) \subseteq Below(n)
          <6>1. \A x \in Nat : x < n - 1 => x < n
            BY <3>1
          <6> QED BY <6>1
        <5> QED BY <3>4, <5>1
      <4> HIDE DEF g, Below
      <4> QED BY <4>1
    <3>6. \A i \in Below(n) : Becomes(f, i) \in S
      <4>1. \A i \in Below(n) : up[i] \in D => f[up[i]] \in S
        BY <3>2, <3>4
      <4> QED BY <4>1
    <3>7. \A i \in Below(n) : g[i] = Becomes(f, i)
      BY <3>2, <3>3
    <3>8. g \in [Below(n) -> S]
      BY <3>6, <3>7
    <3>9. Fits(g, n)
      BY <3>5, <3>7, <3>8
    <3> QED BY <2>1, <3>9
  <2> QED BY <2>2, <2>3
<1>2. ASSUME NEW m \in Nat, NEW n \in Nat, NEW f, NEW g, Fits(f, m), Fits(g, n)
      PROVE  \A i \in D : i < m /\ i < n => f[i] = g[i]
  <2> DEFINE Q == {i \in D : i < m /\ i < n => f[i] = g[i]}
  <2>1. ASSUME NEW i \in D, up[i] \in D => up[i] \in Q PROVE i \in Q
    <3> SUFFICES ASSUME i < m, i < n PROVE f[i] = g[i]
      OBVIOUS
    <3>1. f[i] = Becomes(f, i) /\ g[i] = Becomes(g, i)
      BY <1>2
    <3>2. up[i] \in D => f[up[i]] = g[up[i]]
      <4> SUFFICES ASSUME up[i] \in D PROVE f[up[i]] = g[up[i]]
        OBVIOUS
      <4>1. up[i] < i /\ up[i] \in Nat /\ i \in Nat
        OBVIOUS
      <4>2. up[i] < m /\ up[i] < n
        BY <4>1
      <4> QED BY <2>1, <4>2
    <3> QED BY <3>1, <3>2
  <2> HIDE DEF Q
  <2>2. D \subseteq Q
    <3>1. Inherits(D, up, Q)
      BY <2>1 DEF Inherits
    <3> QED BY <3>1, GoesDown
  <2> QED BY <2>2 DEF Q
<1> DEFINE UpTo(n) == CHOOSE f : Fits(f, n)
           F == [i \in D |-> UpTo(i + 1)[i]]
<1>3. \A n \in Nat : Fits(UpTo(n), n)
  BY <1>1
<1>4. ASSUME NEW n \in Nat, NEW i \in D, i < n PROVE F[i] = UpTo(n)[i]
  <2>1. i \in Nat /\ i + 1 \in Nat /\ i < i + 1
    OBVIOUS
  <2>2. Fits(UpTo(n), n) /\ Fits(UpTo(i + 1), i + 1)
    BY <1>3, <2>1
  <2> HIDE DEF UpTo, Fits
  <2> QED BY <1>2, <1>4, <2>1, <2>2
<1>5. ASSUME NEW i \in D PROVE F[i] \in S /\ F[i] = Becomes(F, i)
  <2>1. i \in Nat /\ i + 1 \in Nat /\ i < i + 1
    OBVIOUS
  <2>2. Fits(UpTo(i + 1), i + 1)
    BY <1>3, <2>1
  <2>3. F[i] = UpTo(i + 1)[i]
    BY <1>4, <2>1
  <2>4. UpTo(i + 1)[i] \in S /\ UpTo(i + 1)[i] = Becomes(UpTo(i + 1), i)
    <3> HIDE DEF UpTo
    <3> QED BY <2>1, <2>2
  <2>5. up[i] \in D => F[up[i]] = UpTo(i + 1)[up[i]]
    <3> SUFFICES ASSUME up[i] \in D PROVE F[up[i]] = UpTo(i + 1)[up[i]]
      OBVIOUS
    <3>1. up[i] < i + 1
      <4>1. up[i] \in Nat /\ up[i] < i
        OBVIOUS
      <4> QED BY <2>1, <4>1
    <3> HIDE DEF UpTo, F
    <3> QED BY <1>4, <2>1, <3>1
  <2> HIDE DEF UpTo, F
  <2> QED BY <2>3, <2>4, <2>5
<1>6. F \in [D -> S]
  <2>1. \A i \in D : F[i] \in S
    BY <1>5
  <2>2. F = [i \in D |-> F[i]]
    OBVIOUS
  <2> HIDE DEF F
  <2> QED BY <2>1, <2>2
<1> HIDE DEF F
<1> QED BY <1>5, <1>6 DEF Tells


-------------------------------------------------------------------------------
(* Renderings: a number is one node's, and rises from line to line.        *)

Before(S, i) == {j \in S : j < i}

LEMMA NumbersRise ==
    ASSUME NEW S, S \subseteq Nat, IsFiniteSet(S), NEW i \in S, NEW j \in S
    PROVE  /\ Cardinality(Before(S, i)) \in Nat
           /\ i < j <=> Cardinality(Before(S, i)) < Cardinality(Before(S, j))
           /\ i = j <=> Cardinality(Before(S, i)) = Cardinality(Before(S, j))
<1>1. ASSUME NEW k \in S PROVE IsFiniteSet(Before(S, k)) /\ Cardinality(Before(S, k)) \in Nat
  BY FS_Subset, FS_CardinalityType DEF Before
<1>2. ASSUME NEW k \in S, NEW l \in S, k < l
      PROVE  Cardinality(Before(S, k)) < Cardinality(Before(S, l))
  <2>1. k \in Nat /\ l \in Nat
    OBVIOUS
  <2>2. Before(S, k) \subseteq Before(S, l) /\ k \in Before(S, l) /\ k \notin Before(S, k)
    <3>1. \A m \in S : m < k => m < l
      <4>1. \A m \in Nat : m < k => m < l
        BY <1>2, <2>1
      <4> QED BY <4>1
    <3>2. ~ (k < k)
      BY <2>1
    <3> QED BY <1>2, <3>1, <3>2 DEF Before
  <2>3. /\ Cardinality(Before(S, k)) <= Cardinality(Before(S, l))
        /\ Cardinality(Before(S, k)) # Cardinality(Before(S, l))
    BY <1>1, <2>2, FS_Subset
  <2> QED BY <1>1, <2>3
<1>3. i < j \/ i = j \/ j < i
  <2>1. i \in Nat /\ j \in Nat
    OBVIOUS
  <2> QED BY <2>1
<1>4. i \in Nat /\ j \in Nat /\ Cardinality(Before(S, i)) \in Nat /\ Cardinality(Before(S, j)) \in Nat
  BY <1>1
<1> QED BY <1>2, <1>3, <1>4

IsOrdered(S) == S \subseteq Nat /\ IsFiniteSet(S)

Reads(text, tree, depth, listed, numbered) ==
    /\ DOMAIN text.lines = listed
    /\ \A i \in listed : text.lines[i].node = tree[i] /\ text.lines[i].depth = depth[i]
    /\ \A i \in listed \ numbered : text.lines[i].ref = NoRef
    /\ \A i \in numbered :
          text.lines[i].ref \in DOMAIN text.refs /\ text.refs[text.lines[i].ref] = i
    /\ \A r \in DOMAIN text.refs :
          r \in Nat /\ text.refs[r] \in numbered /\ text.lines[text.refs[r]].ref = r
    /\ \A r, s \in DOMAIN text.refs : r < s => text.refs[r] < text.refs[s]

LEMMA NumberedIs ==
    ASSUME NEW tree, NEW depth, NEW listed, IsOrdered(listed),
           NEW numbered, numbered \subseteq listed
    PROVE  Reads(Numbered(tree, depth, listed, numbered), tree, depth, listed, numbered)
<1> USE DEF IsOrdered
<1> DEFINE text == Numbered(tree, depth, listed, numbered)
<1> DEFINE nextRef(i) == Cardinality({j \in numbered : j < i})
<1>1. numbered \subseteq Nat /\ IsFiniteSet(numbered)
  BY FS_Subset
<1>2. \A i \in numbered : nextRef(i) = Cardinality(Before(numbered, i))
  BY DEF Before
<1>3. \A i, j \in numbered : /\ nextRef(i) \in Nat
                             /\ nextRef(i) = nextRef(j) => i = j
                             /\ nextRef(i) < nextRef(j) => i < j
  <2> SUFFICES ASSUME NEW i \in numbered, NEW j \in numbered
               PROVE  /\ nextRef(i) \in Nat
                      /\ nextRef(i) = nextRef(j) => i = j
                      /\ nextRef(i) < nextRef(j) => i < j
    OBVIOUS
  <2>1. nextRef(i) = Cardinality(Before(numbered, i)) /\ nextRef(j) = Cardinality(Before(numbered, j))
    BY <1>2
  <2>2. /\ Cardinality(Before(numbered, i)) \in Nat
        /\ i < j <=> Cardinality(Before(numbered, i)) < Cardinality(Before(numbered, j))
        /\ i = j <=> Cardinality(Before(numbered, i)) = Cardinality(Before(numbered, j))
    BY <1>1, NumbersRise
  <2> HIDE DEF nextRef
  <2> QED BY <2>1, <2>2
<1>4. /\ text.lines = [i \in listed |-> [node |-> tree[i], depth |-> depth[i],
                                         ref |-> IF i \in numbered THEN nextRef(i) ELSE NoRef]]
      /\ text.refs = [r \in {nextRef(i) : i \in numbered} |->
                         CHOOSE i \in numbered : nextRef(i) = r]
  BY DEF Numbered
<1> HIDE DEF nextRef, text
<1>5. ASSUME NEW r \in DOMAIN text.refs PROVE text.refs[r] \in numbered /\ nextRef(text.refs[r]) = r
  BY <1>4
<1>6. \A i \in numbered : nextRef(i) \in DOMAIN text.refs /\ text.refs[nextRef(i)] = i
  BY <1>3, <1>4, <1>5
<1>7. \A i \in listed : /\ text.lines[i].node = tree[i] /\ text.lines[i].depth = depth[i]
                        /\ text.lines[i].ref = IF i \in numbered THEN nextRef(i) ELSE NoRef
  BY <1>4
<1>8. DOMAIN text.lines = listed
  BY <1>4
<1>9. ASSUME NEW r \in DOMAIN text.refs, NEW s \in DOMAIN text.refs, r < s
      PROVE  text.refs[r] < text.refs[s]
  <2>1. nextRef(text.refs[r]) < nextRef(text.refs[s])
    BY <1>5, <1>9
  <2> QED BY <1>3, <1>5, <2>1
<1>10. \A i \in listed \ numbered : text.lines[i].ref = NoRef
  BY <1>7
<1>11. \A i \in numbered : /\ text.lines[i].ref \in DOMAIN text.refs
                           /\ text.refs[text.lines[i].ref] = i
  <2>1. \A i \in numbered : text.lines[i].ref = nextRef(i)
    BY <1>7
  <2> QED BY <1>6, <2>1
<1>12. \A r \in DOMAIN text.refs :
          r \in Nat /\ text.refs[r] \in numbered /\ text.lines[text.refs[r]].ref = r
  <2> SUFFICES ASSUME NEW r \in DOMAIN text.refs
               PROVE  r \in Nat /\ text.lines[text.refs[r]].ref = r
    BY <1>5
  <2>1. text.refs[r] \in numbered /\ nextRef(text.refs[r]) = r
    BY <1>5
  <2> QED BY <1>3, <1>7, <2>1
<1>13. \A i \in listed : text.lines[i].node = tree[i] /\ text.lines[i].depth = depth[i]
  BY <1>7
<1>14. Reads(text, tree, depth, listed, numbered)
  BY <1>8, <1>9, <1>10, <1>11, <1>12, <1>13 DEF Reads
<1> QED BY <1>14 DEF text

(* A tree: every node comes after its parent.                              *)
IsTree(tree) ==
    /\ IsFiniteSet(DOMAIN tree) /\ DOMAIN tree \subseteq Nat
    /\ \A i \in DOMAIN tree : tree[i].parent \in DOMAIN tree => tree[i].parent < i

(* The walk comes to a node from its parent.                               *)
LEMMA WalkIs ==
    ASSUME NEW tree, IsTree(tree)
    PROVE  \A i \in DOMAIN tree :
              LET parent == tree[i].parent
              IN  /\ walk(tree)[i] \in Nat \cup {Skipped}
                  /\ walk(tree)[i] = IF hasZeroArea(tree[i]) THEN Skipped
                                     ELSE IF parent \notin DOMAIN tree THEN 0
                                     ELSE IF walk(tree)[parent] = Skipped \/ isRedundantContainer(tree, parent)
                                          THEN walk(tree)[parent] ELSE walk(tree)[parent] + 1
<1> DEFINE D == DOMAIN tree
           S == Nat \cup {Skipped}
           Goes(d, i) ==
               LET parent == tree[i].parent
               IN  IF hasZeroArea(tree[i]) THEN Skipped
                   ELSE IF parent \notin DOMAIN tree THEN 0
                   ELSE IF d[parent] = Skipped \/ isRedundantContainer(tree, parent)
                        THEN d[parent] ELSE d[parent] + 1
           depth == CHOOSE depth : depth = [i \in D |-> Goes(depth, i)]
           up == [i \in D |-> tree[i].parent]
           base == [i \in D |-> IF hasZeroArea(tree[i]) THEN Skipped ELSE 0]
           step == [i \in D |-> [d \in S |->
                       IF hasZeroArea(tree[i]) THEN Skipped
                       ELSE IF d = Skipped \/ isRedundantContainer(tree, tree[i].parent)
                            THEN d ELSE d + 1]]
<1>1. IsForest(D, up)
  BY DEF IsTree, IsForest
<1>3. CanTell(D, S, base, step)
  <2>1. \A d \in S : d # Skipped => d + 1 \in S
    BY DEF Skipped
  <2>2. \A i \in D : base[i] \in S
    OBVIOUS
  <2>3. \A i \in D : \A d \in S : step[i][d] \in S
    BY <2>1
  <2> HIDE DEF D, S, base, step
  <2> QED BY <2>2, <2>3 DEF CanTell
<1>4. PICK f \in [D -> S] : Tells(f, D, up, base, step)
  <2> HIDE DEF D, S, up, base, step
  <2> QED BY <1>1, <1>3, IsToldDown
<1> USE DEF Tells
<1>5. f = [i \in D |-> Goes(f, i)]
  <2>1. ASSUME NEW i \in D PROVE f[i] = Goes(f, i)
    <3>1. CASE up[i] \in D
      <4>1. f[up[i]] \in S
        BY <1>4, <3>1
      <4> QED BY <1>4, <3>1, <4>1
    <3>2. CASE up[i] \notin D
      BY <1>4, <3>2
    <3> QED BY <3>1, <3>2
  <2> HIDE DEF Goes
  <2> QED BY <1>4, <2>1
<1>6. walk(tree) = depth
  BY DEF walk
<1>7. depth = [i \in D |-> Goes(depth, i)]
  <2> HIDE DEF Goes
  <2> QED BY <1>5
<1> HIDE DEF depth
<1>8. \A i \in D : depth[i] = Goes(depth, i)
  BY <1>7
<1>9. \A i \in D : depth[i] \in S
  <2> DEFINE Q == {i \in D : depth[i] \in S}
  <2>1. ASSUME NEW i \in D, up[i] \in D => up[i] \in Q PROVE i \in Q
    <3>1. tree[i].parent \in D => depth[tree[i].parent] \in S
      BY <2>1
    <3>2. \A d \in S : d # Skipped => d + 1 \in S
      BY DEF Skipped
    <3> QED BY <1>8, <3>1, <3>2
  <2>2. D \subseteq Q
    <3> HIDE DEF D, Q, up
    <3>1. Inherits(D, up, Q)
      BY <2>1 DEF Inherits
    <3> QED BY <1>1, <3>1, GoesDown
  <2> QED BY <2>2
<1> QED BY <1>6, <1>8, <1>9

(* Who a node is in.                                                       *)
LEMMA AncestorsAre ==
    ASSUME NEW tree, IsTree(tree)
    PROVE  \A i \in DOMAIN tree :
              LET parent == tree[i].parent
              IN  /\ Ancestors(tree)[i] \subseteq {j \in DOMAIN tree : j < i}
                  /\ Ancestors(tree)[i] =
                        IF parent \notin DOMAIN tree THEN {} ELSE {parent} \cup Ancestors(tree)[parent]
<1> DEFINE D == DOMAIN tree
           S == SUBSET D
           Rises(a, i) ==
               LET parent == tree[i].parent
               IN  IF parent \notin DOMAIN tree THEN {} ELSE {parent} \cup a[parent]
           above == CHOOSE above : above = [i \in D |-> Rises(above, i)]
           up == [i \in D |-> tree[i].parent]
           base == [i \in D |-> {}]
           step == [i \in D |-> [X \in S |-> (IF up[i] \in D THEN {up[i]} ELSE {}) \cup X]]
<1>1. IsForest(D, up)
  BY DEF IsTree, IsForest
<1>2. CanTell(D, S, base, step)
  <2>1. \A i \in D : base[i] \in S
    OBVIOUS
  <2>2. \A i \in D : \A X \in S : step[i][X] \in S
    OBVIOUS
  <2> HIDE DEF D, S, base, step
  <2> QED BY <2>1, <2>2 DEF CanTell
<1>3. PICK f \in [D -> S] : Tells(f, D, up, base, step)
  <2> HIDE DEF D, S, up, base, step
  <2> QED BY <1>1, <1>2, IsToldDown
<1>4. f = [i \in D |-> Rises(f, i)]
  <2>1. ASSUME NEW i \in D PROVE f[i] = Rises(f, i)
    <3>1. CASE up[i] \in D
      <4>1. f[up[i]] \in S
        BY <1>3, <3>1
      <4>2. f[i] = step[i][f[up[i]]]
        BY <1>3, <3>1 DEF Tells
      <4> QED BY <3>1, <4>1, <4>2
    <3>2. CASE up[i] \notin D
      BY <1>3, <3>2 DEF Tells
    <3> QED BY <3>1, <3>2
  <2> HIDE DEF Rises
  <2> QED BY <1>3, <2>1
<1>5. Ancestors(tree) = above
  BY DEF Ancestors
<1>6. above = [i \in D |-> Rises(above, i)]
  <2> HIDE DEF Rises
  <2> QED BY <1>4
<1> HIDE DEF above
<1>7. \A i \in D : above[i] = Rises(above, i)
  BY <1>6
<1>8. \A i \in D : above[i] \subseteq {j \in D : j < i}
  <2> DEFINE Q == {i \in D : above[i] \subseteq {j \in D : j < i}}
  <2>1. ASSUME NEW i \in D, up[i] \in D => up[i] \in Q PROVE i \in Q
    <3>1. CASE up[i] \in D
      <4>1. above[i] = {up[i]} \cup above[up[i]] /\ above[up[i]] \subseteq {j \in D : j < up[i]}
        BY <1>7, <2>1, <3>1
      <4>2. up[i] < i /\ i \in Nat /\ up[i] \in Nat /\ D \subseteq Nat
        BY <3>1 DEF IsTree
      <4>3. \A j \in D : j < up[i] => j < i
        <5>1. \A j \in Nat : j < up[i] => j < i
          BY <4>2
        <5> QED BY <4>2, <5>1
      <4> QED BY <3>1, <4>1, <4>2, <4>3
    <3>2. CASE up[i] \notin D
      BY <1>7, <3>2
    <3> QED BY <3>1, <3>2
  <2>2. D \subseteq Q
    <3> HIDE DEF D, Q, up
    <3>1. Inherits(D, up, Q)
      BY <2>1 DEF Inherits
    <3> QED BY <1>1, <3>1, GoesDown
  <2> QED BY <2>2
<1> QED BY <1>5, <1>7, <1>8

(* What the walk comes to is what has area, in what has; and the lines it  *)
(* is below are those of the nodes it is in.                               *)
Listed(tree) == {i \in DOMAIN tree : walk(tree)[i] # Skipped /\ ~isRedundantContainer(tree, i)}

LEMMA WalkComes ==
    ASSUME NEW tree, IsTree(tree)
    PROVE  \A i \in DOMAIN tree :
              /\ walk(tree)[i] # Skipped <=>
                    \A j \in Ancestors(tree)[i] \cup {i} : ~hasZeroArea(tree[j])
              /\ walk(tree)[i] # Skipped =>
                    walk(tree)[i] = Cardinality(Ancestors(tree)[i] \cap Listed(tree))
<1> DEFINE D == DOMAIN tree
           depth == walk(tree)
           above == Ancestors(tree)
           L == Listed(tree)
           up == [i \in D |-> tree[i].parent]
           Q == {i \in D : /\ depth[i] # Skipped <=> \A j \in above[i] \cup {i} : ~hasZeroArea(tree[j])
                           /\ depth[i] # Skipped => depth[i] = Cardinality(above[i] \cap L)}
<1>1. IsForest(D, up)
  BY DEF IsTree, IsForest
<1>2. \A i \in D : up[i] = tree[i].parent
  OBVIOUS
<1>3. \A i \in D : /\ depth[i] \in Nat \cup {Skipped}
                   /\ depth[i] = IF hasZeroArea(tree[i]) THEN Skipped
                                 ELSE IF up[i] \notin D THEN 0
                                 ELSE IF depth[up[i]] = Skipped \/ isRedundantContainer(tree, up[i])
                                      THEN depth[up[i]] ELSE depth[up[i]] + 1
  BY WalkIs
<1>4. \A i \in D : /\ above[i] \subseteq {j \in D : j < i}
                   /\ above[i] = IF up[i] \notin D THEN {} ELSE {up[i]} \cup above[up[i]]
  BY AncestorsAre
<1>5. L = {i \in D : depth[i] # Skipped /\ ~isRedundantContainer(tree, i)}
  BY DEF Listed
<1>6. IsFiniteSet(D) /\ D \subseteq Nat
  BY DEF IsTree
<1> HIDE DEF D, depth, above, L, up
<1>7. ASSUME NEW i \in D, up[i] \in D => up[i] \in Q PROVE i \in Q
  <2>1. CASE up[i] \notin D
    <3>1. above[i] = {} /\ above[i] \cap L = {} /\ Cardinality({}) = 0
      BY <1>4, <2>1, FS_EmptySet
    <3>2. depth[i] = IF hasZeroArea(tree[i]) THEN Skipped ELSE 0
      BY <1>3, <2>1
    <3> QED BY <3>1, <3>2 DEF Skipped
  <2>2. CASE up[i] \in D
    <3>1. above[i] = {up[i]} \cup above[up[i]]
      BY <1>4, <2>2
    <3>2. /\ depth[up[i]] # Skipped <=> \A j \in above[i] : ~hasZeroArea(tree[j])
          /\ depth[up[i]] # Skipped => depth[up[i]] = Cardinality(above[up[i]] \cap L)
      BY <1>7, <2>2, <3>1
    <3>3. /\ depth[up[i]] \in Nat \cup {Skipped}
          /\ depth[i] = IF hasZeroArea(tree[i]) THEN Skipped
                        ELSE IF depth[up[i]] = Skipped \/ isRedundantContainer(tree, up[i])
                             THEN depth[up[i]] ELSE depth[up[i]] + 1
      BY <1>3, <2>2
    <3>4. depth[i] # Skipped <=> \A j \in above[i] \cup {i} : ~hasZeroArea(tree[j])
      <4>1. depth[i] # Skipped <=> ~hasZeroArea(tree[i]) /\ depth[up[i]] # Skipped
        BY <3>3 DEF Skipped
      <4> QED BY <3>2, <4>1
    <3>5. ASSUME depth[i] # Skipped PROVE depth[i] = Cardinality(above[i] \cap L)
      <4>1. depth[up[i]] # Skipped /\ ~hasZeroArea(tree[i])
        BY <3>3, <3>5
      <4> DEFINE A == above[up[i]] \cap L
      <4>2. IsFiniteSet(A) /\ up[i] \notin A
        <5>1. A \subseteq D
          BY <1>4, <2>2
        <5>2. up[i] \notin above[up[i]]
          <6>0. \A n \in Nat : ~ (n < n)
            OBVIOUS
          <6>1. up[i] \in Nat /\ ~ (up[i] < up[i])
            BY <1>6, <2>2, <6>0
          <6> QED BY <1>4, <2>2, <6>1
        <5> QED BY <1>6, <5>1, <5>2, FS_Subset
      <4>3. CASE isRedundantContainer(tree, up[i])
        <5>1. above[i] \cap L = A
          BY <1>5, <3>1, <4>3
        <5>2. depth[i] = depth[up[i]]
          BY <3>3, <4>1, <4>3
        <5> QED BY <3>2, <4>1, <5>1, <5>2
      <4>4. CASE ~isRedundantContainer(tree, up[i])
        <5>1. above[i] \cap L = A \cup {up[i]}
          BY <1>5, <2>2, <3>1, <4>1, <4>4
        <5>2. depth[i] = depth[up[i]] + 1
          BY <3>3, <4>1, <4>4
        <5>3. Cardinality(A \cup {up[i]}) = Cardinality(A) + 1
          <6> HIDE DEF A
          <6> QED BY <4>2, FS_AddElement
        <5> QED BY <3>2, <4>1, <5>1, <5>2, <5>3
      <4> QED BY <4>3, <4>4
    <3> HIDE DEF above
    <3> QED BY <3>4, <3>5
  <2> QED BY <2>1, <2>2
<1>8. D \subseteq Q
  <2> HIDE DEF Q
  <2>1. Inherits(D, up, Q)
    BY <1>7 DEF Inherits
  <2> QED BY <1>1, <2>1, GoesDown
<1> QED BY <1>8 DEF D, depth, above, L

-------------------------------------------------------------------------------
(* What a step does is what its answer says of the screen that was shown.  *)

Looked == {"picturing", "deciding", "acting", "typing", "evidence", "reviewing", "recording"}
Decided == {"acting", "typing", "evidence", "reviewing", "recording"}

(* The rendering of the step is one of a tree, in the format of the case,  *)
(* however the screen has changed since.                                   *)
LooksAgree ==
    /\ settings \in Settings /\ shown \in Trees
    /\ at \in Looked => \E tree \in Trees : ui = serializeUi(tree, uiFormat)

(* What the device was told so far of the answer.                          *)
MovesAgree ==
    /\ at \in {"picturing", "deciding", "acting"} => commands = <<>> /\ note = None
    /\ at \in Decided =>
          /\ Len(action.calls) = 1
          /\ action.does.type \in {"tap", "input_text"} => action.does.ref # NoRef
    /\ at = "typing" =>
          /\ action.does.type = "input_text" /\ IsOnScreen(action.does.ref) /\ note = None
          /\ commands = <<[does |-> "tap", y |-> centerOf(resolveRef(action.does.ref))]>>
    /\ at \in {"evidence", "reviewing", "recording"} =>
          MoveIsAnswer(ui, action, note, commands)

RecordsAreSeq == \E S : steps \in Seq(S)

MoveInv == LooksAgree /\ MovesAgree /\ RecordsAreSeq /\ MovesAreAnswers

LEMMA FormatIsKept ==
    ASSUME settings' = settings
    PROVE  uiFormat' = uiFormat
BY DEF uiFormat

LEMMA RenderingIs ==
    ASSUME NEW tree \in Trees, NEW format
    PROVE  \E depth, listed, numbered :
              /\ IsOrdered(listed) /\ numbered \subseteq listed
              /\ serializeUi(tree, format) = Numbered(tree, depth, listed, numbered)
<1>1. IsOrdered(DOMAIN tree)
  BY StepAssumption DEF IsOrdered
<1>2. CASE format = "text"
  <2> DEFINE depth == walk(tree)
             listed == {i \in DOMAIN tree : depth[i] # Skipped /\ ~isRedundantContainer(tree, i)}
             numbered == {i \in listed : isActionable(tree[i])}
  <2>1. serializeUi(tree, format) = Numbered(tree, depth, listed, numbered)
    BY <1>2 DEF serializeUi, serializeForLlm
  <2>2. numbered \subseteq listed /\ listed \subseteq DOMAIN tree
    OBVIOUS
  <2> HIDE DEF depth, listed, numbered
  <2>3. IsOrdered(listed)
    BY <1>1, <2>2, FS_Subset DEF IsOrdered
  <2> QED BY <2>1, <2>2, <2>3
<1>3. CASE format # "text"
  BY <1>1, <1>3 DEF serializeUi, serializeAsXml
<1> QED BY <1>2, <1>3

(* The node a number is resolved to is the one the model read under it.    *)
LEMMA TableIsRead ==
    ASSUME LooksAgree, at \in Looked, NEW ref, ref # NoRef
    PROVE  ReadUnder(ui.lines, ref) = IF IsOnScreen(ref) THEN {resolveRef(ref)} ELSE {}
<1>1. PICK tree \in Trees : ui = serializeUi(tree, uiFormat)
  BY DEF LooksAgree
<1>2. PICK depth, listed, numbered :
         /\ IsOrdered(listed) /\ numbered \subseteq listed
         /\ ui = Numbered(tree, depth, listed, numbered)
  BY <1>1, RenderingIs
<1>3. Reads(ui, tree, depth, listed, numbered)
  BY <1>2, NumberedIs
<1>4. /\ DOMAIN ui.lines = listed
      /\ \A i \in listed \ numbered : ui.lines[i].ref = NoRef
      /\ \A i \in numbered : ui.lines[i].ref \in DOMAIN ui.refs /\ ui.refs[ui.lines[i].ref] = i
      /\ \A r \in DOMAIN ui.refs : ui.refs[r] \in numbered /\ ui.lines[ui.refs[r]].ref = r
  BY <1>3 DEF Reads
<1>5. {i \in DOMAIN ui.lines : ui.lines[i].ref = ref}
         = IF ref \in DOMAIN ui.refs THEN {ui.refs[ref]} ELSE {}
  BY <1>2, <1>4
<1> QED BY <1>5 DEF ReadUnder, IsOnScreen, resolveRef

LEMMA MoveInvInit == Init => MoveInv
<1> SUFFICES ASSUME Init PROVE MoveInv
  OBVIOUS
<1>1. steps \in Seq({}) /\ DOMAIN steps = {}
  BY EmptySeq DEF Init
<1>2. at = "polling" /\ settings \in Settings /\ shown \in Trees
  BY DEF Init
<1> QED BY <1>1, <1>2 DEF MoveInv, LooksAgree, MovesAgree, RecordsAreSeq, MovesAreAnswers,
                        Looked, Decided

(* A step that leaves the screen read, the answer and the commands alone,  *)
(* and goes on, or nowhere.                                                *)
LEMMA GoesOn ==
    ASSUME MoveInv, UNCHANGED <<settings, ui, action, note, commands, steps>>,
           shown' \in Trees,
           \/ at' = at
           \/ at' \in {"polling", "capturing", "thrown"}
           \/ at = "picturing" /\ at' = "deciding"
           \/ at \in {"evidence", "reviewing"} /\ at' \in {"reviewing", "recording"}
    PROVE  MoveInv'
<1>1. LooksAgree'
  BY FormatIsKept DEF MoveInv, LooksAgree, Looked
<1>2. MovesAgree'
  BY FormatIsKept DEF MoveInv, MovesAgree, Decided, IsOnScreen, resolveRef, centerOf
<1>3. MovesAreAnswers' /\ RecordsAreSeq'
  BY FormatIsKept DEF MoveInv, MovesAreAnswers, RecordsAreSeq
<1> QED BY <1>1, <1>2, <1>3 DEF MoveInv

LEMMA CaptureMoves == MoveInv /\ Captures => MoveInv'
<1> SUFFICES ASSUME MoveInv, Captures PROVE MoveInv'
  OBVIOUS
<1>1. /\ UNCHANGED <<settings, shown, steps>> /\ ui' = serializeUi(shown, uiFormat)
      /\ commands' = <<>> /\ note' = None /\ at' \in {"picturing", "deciding"}
  BY DEF Captures
<1>2. LooksAgree'
  BY <1>1, FormatIsKept DEF MoveInv, LooksAgree
<1>3. MovesAgree'
  BY <1>1 DEF MovesAgree, Decided
<1>4. MovesAreAnswers' /\ RecordsAreSeq'
  BY <1>1, FormatIsKept DEF MoveInv, MovesAreAnswers, RecordsAreSeq
<1> QED BY <1>2, <1>3, <1>4 DEF MoveInv

LEMMA DecisionMoves == MoveInv /\ Decides => MoveInv'
<1> SUFFICES ASSUME MoveInv, Decides PROVE MoveInv'
  OBVIOUS
<1>1. /\ at = "deciding" /\ UNCHANGED <<settings, shown, ui, note, commands, steps>>
      /\ at' \in {"acting", "deciding", "thrown"}
      /\ at' = "acting" => \E calls : soleToolRequest(calls) # NoAction
                                     /\ action' = [calls |-> calls, does |-> soleToolRequest(calls)]
  BY DEF Decides, device
<1>2. at' = "acting" =>
         /\ Len(action'.calls) = 1
         /\ action'.does.type \in {"tap", "input_text"} => action'.does.ref # NoRef
  <2>1. ASSUME NEW call, actionFromToolRequest(call) # NoAction
        PROVE  LET does == actionFromToolRequest(call)
               IN  does.type \in {"tap", "input_text"} => does.ref >= 0
    BY <2>1 DEF actionFromToolRequest
  <2>2. \A x : x >= 0 => x # NoRef
    BY DEF NoRef
  <2> QED BY <1>1, <2>1, <2>2 DEF soleToolRequest
<1>3. LooksAgree'
  BY <1>1, FormatIsKept DEF MoveInv, LooksAgree, Looked
<1>4. MovesAgree'
  BY <1>1, <1>2 DEF MoveInv, MovesAgree, Decided
<1>5. MovesAreAnswers' /\ RecordsAreSeq'
  BY <1>1, FormatIsKept DEF MoveInv, MovesAreAnswers, RecordsAreSeq
<1> QED BY <1>3, <1>4, <1>5 DEF MoveInv

(* What is told the device first, and second.                              *)
LEMMA CommandsCount ==
    /\ \A c : Append(<<>>, c) = <<c>> /\ Len(<<c>>) = 1 /\ <<c>> # <<>> /\ <<c>>[1] = c
               /\ DOMAIN <<c>> = {1}
    /\ \A c, d : Len(Append(<<c>>, d)) = 2 /\ Append(<<c>>, d) # <<>> /\ Append(<<c>>, d)[1] = c
OBVIOUS

LEMMA ActMoves == MoveInv /\ Acts => MoveInv'
<1> SUFFICES ASSUME MoveInv, Acts PROVE MoveInv'
  OBVIOUS
<1> DEFINE type == action.does.type
           ref == action.does.ref
           tap == [does |-> "tap", y |-> centerOf(resolveRef(ref))]
<1>1. /\ at = "acting" /\ UNCHANGED <<settings, shown, ui, action, steps>>
      /\ commands = <<>> /\ note = None /\ Len(action.calls) = 1
      /\ type \in {"tap", "input_text"} => ref # NoRef
      /\ at' \in {"evidence", "typing"}
  BY DEF Acts, MoveInv, MovesAgree, Decided
<1>2. LooksAgree'
  BY <1>1, FormatIsKept DEF MoveInv, LooksAgree, Looked
<1>3. type \in {"tap", "input_text"} =>
         ReadUnder(ui.lines, ref) = IF IsOnScreen(ref) THEN {resolveRef(ref)} ELSE {}
  BY <1>1, TableIsRead DEF MoveInv, Looked
<1>4. (at' = "evidence" => MoveIsAnswer(ui, action, note', commands'))
      /\ (at' = "typing" => /\ type = "input_text" /\ IsOnScreen(ref) /\ note' = None
                            /\ commands' = <<tap>>)
  <2>1. CASE /\ type \in {"tap", "input_text"} /\ ~IsOnScreen(ref)
             /\ note' = "no element" /\ at' = "evidence" /\ UNCHANGED commands
    BY <1>1, <1>3, <2>1, StepAssumption DEF MoveIsAnswer
  <2>2. CASE /\ type \in {"tap", "input_text"} /\ IsOnScreen(ref) /\ Told(tap)
             /\ \/ UNCHANGED note /\ at' = IF type = "tap" THEN "evidence" ELSE "typing"
                \/ note' = "failed" /\ at' = "evidence"
    <3>1. commands' = <<tap>>
      BY <1>1, <2>2, CommandsCount DEF Told
    <3> HIDE DEF tap
    <3>2. commands' # <<>> /\ commands'[1] = tap /\ Len(commands') = 1
      BY <3>1, CommandsCount
    <3>3. at' = "evidence" => note' = "failed" \/ type = "tap"
      BY <2>2
    <3>4. at' = "evidence" => MoveIsAnswer(ui, action, note', commands')
      <4>1. ReadUnder(ui.lines, ref) = {resolveRef(ref)}
        BY <1>3, <2>2
      <4>2. tap = [does |-> "tap", y |-> centerOf(resolveRef(ref))]
        BY DEF tap
      <4>3. note' = None /\ at' = "evidence" => type # "input_text"
        BY <3>3, <2>2, StepAssumption
      <4> QED BY <1>1, <2>2, <3>2, <4>1, <4>2, <4>3 DEF MoveIsAnswer
    <3> QED BY <1>1, <2>2, <3>1, <3>4
  <2>3. CASE /\ type \in {"swipe", "key_event"} /\ Told([does |-> type, y |-> 0])
             /\ at' = "evidence"
    <3> DEFINE c == [does |-> type, y |-> 0]
    <3>1. commands' = <<c>> /\ c.does = type
      BY <1>1, <2>3, CommandsCount DEF Told
    <3> HIDE DEF c
    <3>2. \A i \in DOMAIN commands' : commands'[i].does = type
      BY <3>1, CommandsCount
    <3> QED BY <1>1, <2>3, <3>2 DEF MoveIsAnswer
  <2>4. CASE type \in {"wait", "remember", "finish"} /\ at' = "evidence" /\ UNCHANGED commands
    <3>1. DOMAIN commands' = {}
      BY <1>1, <2>4
    <3> QED BY <1>1, <2>4, <3>1 DEF MoveIsAnswer
  <2> QED BY <2>1, <2>2, <2>3, <2>4 DEF Acts
<1>5. MovesAgree'
  BY <1>1, <1>4, FormatIsKept DEF MovesAgree, Decided, IsOnScreen, resolveRef, centerOf
<1>6. MovesAreAnswers' /\ RecordsAreSeq'
  BY <1>1, FormatIsKept DEF MoveInv, MovesAreAnswers, RecordsAreSeq
<1> QED BY <1>2, <1>5, <1>6 DEF MoveInv

LEMMA TypingMoves == MoveInv /\ TypesText => MoveInv'
<1> SUFFICES ASSUME MoveInv, TypesText PROVE MoveInv'
  OBVIOUS
<1> DEFINE ref == action.does.ref
           tap == [does |-> "tap", y |-> centerOf(resolveRef(ref))]
           text == [does |-> "type", y |-> 0]
<1>1. /\ at = "typing" /\ at' = "evidence"
      /\ UNCHANGED <<settings, shown, ui, action, steps>>
      /\ action.does.type = "input_text" /\ IsOnScreen(ref) /\ Len(action.calls) = 1
      /\ ref # NoRef
      /\ commands = <<tap>> /\ commands' = Append(commands, text)
  BY DEF TypesText, Told, MoveInv, MovesAgree, Decided
<1>2. LooksAgree'
  BY <1>1, FormatIsKept DEF MoveInv, LooksAgree, Looked
<1>3. ReadUnder(ui.lines, ref) = {resolveRef(ref)}
  BY <1>1, TableIsRead DEF MoveInv, Looked
<1>4. MoveIsAnswer(ui, action, note', commands')
  <2> HIDE DEF tap, text
  <2>1. commands' # <<>> /\ commands'[1] = tap /\ Len(commands') = 2
    BY <1>1, CommandsCount
  <2> QED BY <1>1, <1>3, <2>1 DEF MoveIsAnswer, tap
<1>5. MovesAgree'
  BY <1>1, <1>4, FormatIsKept DEF MovesAgree, Decided
<1>6. MovesAreAnswers' /\ RecordsAreSeq'
  BY <1>1, FormatIsKept DEF MoveInv, MovesAreAnswers, RecordsAreSeq
<1> QED BY <1>2, <1>5, <1>6 DEF MoveInv

LEMMA RecordMoves == MoveInv /\ Records => MoveInv'
<1> SUFFICES ASSUME MoveInv, Records PROVE MoveInv'
  OBVIOUS
<1> DEFINE step == [ui |-> ui, action |-> action, note |-> note, commands |-> commands,
                    picture |-> picture, review |-> outcome, reports |-> reports]
<1>1. /\ steps' = Append(steps, step) /\ at = "recording" /\ at' \in {"done", "capturing"}
      /\ UNCHANGED <<settings, shown>>
  BY DEF Records, device
<1>2. /\ step.ui = ui /\ step.action = action /\ step.note = note
      /\ step.commands = commands
  OBVIOUS
<1> HIDE DEF step
<1>3. PICK S : steps \in Seq(S)
  BY DEF MoveInv, RecordsAreSeq
<1>4. steps \in Seq(S \cup {step})
  BY <1>3, SeqMonotonic
<1>5. /\ Append(steps, step) \in Seq(S \cup {step})
      /\ DOMAIN Append(steps, step) = 1..(Len(steps) + 1) /\ DOMAIN steps = 1..Len(steps)
      /\ Append(steps, step)[Len(steps) + 1] = step
      /\ \A k \in 1..Len(steps) : Append(steps, step)[k] = steps[k]
      /\ Len(steps) \in Nat
  BY <1>4, AppendProperties, LenProperties
<1>6. MoveIsAnswer(step.ui, step.action, step.note, step.commands)
  BY <1>1, <1>2 DEF MoveInv, MovesAgree
<1>7. MovesAreAnswers'
  BY <1>1, <1>5, <1>6, FormatIsKept DEF MoveInv, MovesAreAnswers
<1>8. LooksAgree' /\ MovesAgree'
  BY <1>1 DEF MoveInv, LooksAgree, MovesAgree, Looked, Decided
<1> QED BY <1>1, <1>5, <1>7, <1>8 DEF MoveInv, RecordsAreSeq

LEMMA MoveInvStep == IInv /\ MoveInv /\ [Next]_vars => MoveInv'
<1> SUFFICES ASSUME IInv, MoveInv, [Next]_vars PROVE MoveInv'
  OBVIOUS
<1>0. shown \in Trees
  BY DEF MoveInv, LooksAgree
<1>1. CASE PollsScreen \/ Throws \/ TakesPicture \/ TakesEvidence
  <2>1. /\ UNCHANGED <<settings, shown, ui, action, note, commands, steps>>
        /\ \/ at' \in {"polling", "capturing", "thrown"}
           \/ at = "picturing" /\ at' = "deciding"
           \/ at = "evidence" /\ at' \in {"reviewing", "recording"}
    BY <1>1 DEF PollsScreen, Throws, TakesPicture, TakesEvidence, device
  <2> QED BY <1>0, <2>1, GoesOn
<1>2. CASE Captures
  BY <1>2, CaptureMoves
<1>3. CASE Decides
  BY <1>3, DecisionMoves
<1>4. CASE Acts
  BY <1>4, ActMoves
<1>5. CASE TypesText
  BY <1>5, TypingMoves
<1>6. CASE StartsReview \/ \E r \in reviewers : AsksForReview(r)
  <2>1. UNCHANGED <<settings, at, shown, ui, action, note, commands, steps>>
    BY <1>6 DEF StartsReview, AsksForReview, device
  <2> QED BY <1>0, <2>1, GoesOn
<1>7. CASE Deadline
  <2>1. PICK r \in reviewers : DeadlinePasses(r)
    BY <1>7 DEF Deadline
  <2>2. UNCHANGED <<settings, shown, ui, action, note, commands, steps>> /\ at' = "recording"
    BY <2>1 DEF DeadlinePasses, device
  <2>3. at = "reviewing"
    BY <2>1 DEF DeadlinePasses, Current, IInv, AsksForThisStep
  <2> QED BY <1>0, <2>2, <2>3, GoesOn
<1>8. CASE Answer
  <2>1. PICK r \in reviewers, answer \in {"report", "report of another", "malformed", "fails"} :
           ReviewAnswers(r, answer)
    BY <1>8 DEF Answer
  <2>2. UNCHANGED <<settings, shown, ui, action, note, commands, steps>>
    BY <2>1 DEF ReviewAnswers, device
  <2>3. at' = at \/ (~r.aborted /\ at' = "recording")
    BY <2>1 DEF ReviewAnswers, Turns, ReviewFails
  <2>4. ~r.aborted => at = "reviewing"
    BY DEF IInv, AsksForThisStep
  <2> QED BY <1>0, <2>2, <2>3, <2>4, GoesOn
<1>9. CASE Records
  BY <1>9, RecordMoves
<1>10. CASE ScreenChanges \/ UNCHANGED vars
  <2>1. UNCHANGED <<settings, at, ui, action, note, commands, steps>> /\ shown' \in Trees
    BY <1>0, <1>10 DEF ScreenChanges, vars, device, review
  <2> QED BY <2>1, GoesOn
<1> QED BY <1>1, <1>2, <1>3, <1>4, <1>5, <1>6, <1>7, <1>8, <1>9, <1>10 DEF Next, Runner

(* The device is told what the one call of the answer says of the screen   *)
(* the model was shown; for any screens that change at any time, any       *)
(* rendering that numbers what it lists, and any answers.                  *)
THEOREM StepsAreAnswers == Spec => []MovesAreAnswers
<1>1. MoveInv => MovesAreAnswers
  BY DEF MoveInv
<1> QED BY <1>1, IInvInit, IInvStep, MoveInvInit, MoveInvStep, PTL DEF Spec

-------------------------------------------------------------------------------
(* The tree made of a screen, and the text of it.                          *)

(* A number that is the smallest one of some: of finitely many numbers.    *)
LEMMA HasLeast ==
    ASSUME NEW S, IsFiniteSet(S), S # {}, NEW f \in [S -> Int]
    PROVE  \E x \in S : \A y \in S : f[x] <= f[y]
<1> DEFINE Bad == {X \in SUBSET S : X # {} /\ ~ \E x \in X : \A y \in X : f[x] <= f[y]}
           Sizes == {n \in Nat : \E X \in Bad : Cardinality(X) = n}
<1>1. \A X \in SUBSET S : IsFiniteSet(X) /\ Cardinality(X) \in Nat
  BY FS_Subset, FS_CardinalityType
<1> SUFFICES ASSUME Bad # {} PROVE FALSE
  OBVIOUS
<1>2. Sizes # {} /\ Sizes \subseteq Nat
  BY <1>1
<1>3. PICK n \in Sizes : \A m \in Sizes : n <= m
  <2> HIDE DEF Sizes
  <2> QED BY <1>2, SmallestIs
<1>4. PICK X \in Bad : Cardinality(X) = n
  BY <1>3
<1>5. PICK x \in X : TRUE
  BY <1>4
<1>6. Cardinality(X \ {x}) = n - 1 /\ X \ {x} \in SUBSET S
  BY <1>1, <1>4, <1>5, FS_RemoveElement
<1>7. X \ {x} \notin Bad
  <2>1. ~ (n <= n - 1) /\ n - 1 \in Int
    BY <1>3
  <2>2. X \ {x} \in Bad => n - 1 \in Sizes
    BY <1>1, <1>6
  <2> HIDE DEF Bad, Sizes
  <2> QED BY <1>3, <2>1, <2>2
<1>8. \A y \in X : f[y] \in Int
  BY <1>4
<1>9. CASE X \ {x} = {}
  BY <1>4, <1>5, <1>8, <1>9
<1>10. CASE X \ {x} # {}
  <2>1. PICK z \in X \ {x} : \A y \in X \ {x} : f[z] <= f[y]
    BY <1>6, <1>7, <1>10
  <2>2. f[x] <= f[z] \/ f[z] <= f[x]
    BY <1>5, <1>8, <2>1
  <2>3. CASE f[x] <= f[z]
    <3>1. \A y \in X : f[x] <= f[y]
      BY <1>5, <1>8, <2>1, <2>3
    <3> QED BY <1>4, <1>5, <3>1
  <2>4. CASE f[z] <= f[x]
    <3>1. \A y \in X : f[z] <= f[y]
      BY <1>5, <1>8, <2>1, <2>4
    <3> QED BY <1>4, <2>1, <3>1
  <2> QED BY <2>2, <2>3, <2>4
<1> QED BY <1>9, <1>10

(* A container has area when one of its roots has.                         *)
LEMMA ContainerIs ==
    ASSUME NEW nodes, NEW roots, IsFiniteSet(roots),
           \A i \in roots : nodes[i].y1 \in Int /\ nodes[i].y2 \in Int,
           NEW r \in roots, ~hasZeroArea(nodes[r])
    PROVE  LET over == boundsOver(nodes, roots)
           IN  ~hasZeroArea(Container(over.y1, over.y2))
<1> DEFINE tops == {nodes[i].y1 : i \in roots}
           ends == {nodes[i].y2 : i \in roots}
           f == [i \in roots |-> nodes[i].y1]
           g == [i \in roots |-> -nodes[i].y2]
<1>1. /\ Least(tops) \in tops
      /\ \A y \in tops : Least(tops) <= y
  <2>1. f \in [roots -> Int]
    OBVIOUS
  <2>2. PICK x \in roots : \A y \in roots : f[x] <= f[y]
    <3> HIDE DEF f
    <3> QED BY <2>1, HasLeast
  <2>3. nodes[x].y1 \in tops /\ \A y \in tops : nodes[x].y1 <= y
    BY <2>2
  <2> HIDE DEF tops
  <2> QED BY <2>3 DEF Least
<1>2. /\ Greatest(ends) \in ends
      /\ \A y \in ends : y <= Greatest(ends)
  <2>1. g \in [roots -> Int]
    OBVIOUS
  <2>2. PICK x \in roots : \A y \in roots : g[x] <= g[y]
    <3> HIDE DEF g
    <3> QED BY <2>1, HasLeast
  <2>3. \A y \in roots : nodes[y].y2 <= nodes[x].y2
    <3> SUFFICES ASSUME NEW y \in roots PROVE nodes[y].y2 <= nodes[x].y2
      OBVIOUS
    <3>1. -nodes[x].y2 <= -nodes[y].y2
      BY <2>2
    <3>2. nodes[x].y2 \in Int /\ nodes[y].y2 \in Int
      OBVIOUS
    <3>3. \A a, b \in Int : -a <= -b => b <= a
      OBVIOUS
    <3> QED BY <3>1, <3>2, <3>3
  <2>4. nodes[x].y2 \in ends /\ \A y \in ends : y <= nodes[x].y2
    BY <2>3
  <2> HIDE DEF ends
  <2> QED BY <2>4 DEF Greatest
<1>3. Least(tops) \in Int /\ Greatest(ends) \in Int
  BY <1>1, <1>2
<1>4. Least(tops) <= nodes[r].y1 /\ nodes[r].y2 <= Greatest(ends) /\ nodes[r].y1 < nodes[r].y2
  BY <1>1, <1>2 DEF hasZeroArea
<1>5. Least(tops) < Greatest(ends)
  <2>1. nodes[r].y1 \in Int /\ nodes[r].y2 \in Int
    OBVIOUS
  <2> HIDE DEF tops, ends
  <2> QED BY <1>3, <1>4, <2>1
<1>6. boundsOver(nodes, roots) = [y1 |-> Least(tops), y2 |-> Greatest(ends)]
  BY DEF boundsOver
<1> HIDE DEF tops, ends
<1> QED BY <1>3, <1>5, <1>6 DEF hasZeroArea, Container, Node

(* Nodes that are to be gathered: those of some of the elements.           *)
AreNodes(nodes) ==
    /\ IsOrdered(DOMAIN nodes) /\ Top \notin DOMAIN nodes
    /\ \A i \in DOMAIN nodes :
          /\ nodes[i].parent \in DOMAIN nodes \cup {Top} /\ nodes[i].parent < i
          /\ nodes[i].y1 \in Int /\ nodes[i].y2 \in Int

LEMMA HasRoot ==
    ASSUME NEW nodes, AreNodes(nodes)
    PROVE  \A i \in DOMAIN nodes : \E r \in Ancestors(nodes)[i] \cup {i} : nodes[r].parent = Top
<1> DEFINE D == DOMAIN nodes
           up == [i \in D |-> nodes[i].parent]
           Q == {i \in D : \E r \in Ancestors(nodes)[i] \cup {i} : nodes[r].parent = Top}
<1>1. IsTree(nodes)
  BY DEF AreNodes, IsTree, IsOrdered
<1>2. IsForest(D, up)
  BY DEF AreNodes, IsForest, IsOrdered
<1>3. ASSUME NEW i \in D, up[i] \in D => up[i] \in Q PROVE i \in Q
  <2>1. CASE nodes[i].parent = Top
    BY <2>1
  <2>2. CASE up[i] \in D
    <3>1. Ancestors(nodes)[i] = {nodes[i].parent} \cup Ancestors(nodes)[nodes[i].parent]
      BY <1>1, <2>2, AncestorsAre
    <3>2. PICK r \in Ancestors(nodes)[up[i]] \cup {up[i]} : nodes[r].parent = Top
      BY <1>3, <2>2
    <3>3. r \in Ancestors(nodes)[i]
      BY <3>1, <3>2
    <3> QED BY <3>2, <3>3
  <2> QED BY <2>1, <2>2 DEF AreNodes
<1>4. D \subseteq Q
  <2> HIDE DEF D, Q, up
  <2>1. Inherits(D, up, Q)
    BY <1>3 DEF Inherits
  <2> QED BY <1>2, <2>1, GoesDown
<1> QED BY <1>4

(* The nodes of the tree are those, and a container that is no node of the *)
(* page: it says nothing, and is seen when one of them is.                 *)
Gathers(tree, nodes) ==
    /\ IsTree(tree)
    /\ DOMAIN nodes \subseteq DOMAIN tree /\ DOMAIN tree \subseteq {Top} \cup DOMAIN nodes
    /\ \A i \in DOMAIN nodes : tree[i] = nodes[i]
    /\ Top \in DOMAIN tree =>
          /\ tree[Top].parent \notin DOMAIN tree /\ ~isActionable(tree[Top])
          /\ \A i \in DOMAIN nodes :
                (\A j \in Ancestors(nodes)[i] \cup {i} : ~hasZeroArea(nodes[j]))
                   => ~hasZeroArea(tree[Top])

LEMMA GatheredIs ==
    ASSUME NEW nodes, AreNodes(nodes)
    PROVE  Gathers(Gathered(nodes), nodes)
<1> DEFINE tree == Gathered(nodes)
<1> DEFINE roots == {i \in DOMAIN nodes : nodes[i].parent = Top}
           over == boundsOver(nodes, roots)
           container == IF roots = {} THEN Container(0, 0) ELSE Container(over.y1, over.y2)
<1>0. Top = 0
  BY DEF Top
<1>1. tree = IF Cardinality(roots) = 1 THEN nodes
             ELSE [i \in {Top} \cup DOMAIN nodes |-> IF i = Top THEN container ELSE nodes[i]]
  BY DEF Gathered
<1>2. container.parent = Top - 1 /\ ~isActionable(container)
  BY DEF Container, Node, isActionable, isEditableClass
<1>3. IsFiniteSet(roots) /\ \A i \in roots : nodes[i].y1 \in Int /\ nodes[i].y2 \in Int
  <2>1. roots \in SUBSET DOMAIN nodes
    OBVIOUS
  <2> HIDE DEF roots
  <2> QED BY <2>1, FS_Subset DEF AreNodes, IsOrdered
<1>4. ASSUME NEW i \in DOMAIN nodes,
             \A j \in Ancestors(nodes)[i] \cup {i} : ~hasZeroArea(nodes[j])
      PROVE  ~hasZeroArea(container)
  <2>1. PICK r \in Ancestors(nodes)[i] \cup {i} : nodes[r].parent = Top
    BY HasRoot
  <2>2. r \in roots
    <3>1. IsTree(nodes)
      BY DEF AreNodes, IsTree, IsOrdered
    <3> QED BY <2>1, <3>1, AncestorsAre
  <2>3. container = Container(over.y1, over.y2)
    BY <2>2
  <2>4. ~hasZeroArea(nodes[r])
    BY <1>4, <2>1
  <2> HIDE DEF roots, container
  <2> QED BY <1>3, <2>2, <2>3, <2>4, ContainerIs
<1> SUFFICES Gathers(tree, nodes)
  OBVIOUS
<1> HIDE DEF roots, container, tree
<1>5. CASE Cardinality(roots) = 1
  <2>1. tree = nodes
    BY <1>1, <1>5
  <2> QED BY <2>1 DEF Gathers, AreNodes, IsTree, IsOrdered
<1>6. CASE Cardinality(roots) # 1
  <2>1. tree = [i \in {Top} \cup DOMAIN nodes |-> IF i = Top THEN container ELSE nodes[i]]
    BY <1>1, <1>6
  <2>2. DOMAIN tree = {Top} \cup DOMAIN nodes /\ tree[Top] = container
    BY <2>1
  <2>3. \A i \in DOMAIN nodes : tree[i] = nodes[i]
    BY <2>1 DEF AreNodes
  <2>4. tree[Top].parent \notin DOMAIN tree
    <3>1. DOMAIN tree \subseteq Nat /\ Top - 1 \notin Nat
      BY <1>0, <2>2 DEF AreNodes, IsOrdered
    <3> QED BY <1>2, <2>2, <3>1
  <2>5. IsTree(tree)
    <3>1. IsFiniteSet(DOMAIN nodes \cup {Top})
      BY FS_AddElement DEF AreNodes, IsOrdered
    <3>2. IsFiniteSet(DOMAIN tree) /\ DOMAIN tree \subseteq Nat
      <4>1. DOMAIN tree = DOMAIN nodes \cup {Top}
        BY <2>2
      <4> QED BY <1>0, <3>1, <4>1 DEF AreNodes, IsOrdered
    <3>3. ASSUME NEW i \in DOMAIN tree, tree[i].parent \in DOMAIN tree PROVE tree[i].parent < i
      <4>1. i \in DOMAIN nodes
        BY <2>2, <2>4, <3>3
      <4> QED BY <2>3, <4>1 DEF AreNodes
    <3> QED BY <3>2, <3>3 DEF IsTree
  <2> QED BY <1>2, <1>4, <2>2, <2>3, <2>4, <2>5 DEF Gathers
<1> QED BY <1>5, <1>6

LEMMA GatheredAncestors ==
    ASSUME NEW nodes, AreNodes(nodes), NEW tree, Gathers(tree, nodes)
    PROVE  \A i \in DOMAIN nodes :
              Ancestors(tree)[i] = Ancestors(nodes)[i] \cup ({Top} \cap DOMAIN tree)
<1> DEFINE D == DOMAIN nodes
           up == [i \in D |-> nodes[i].parent]
           T == {Top} \cap DOMAIN tree
           Q == {i \in D : Ancestors(tree)[i] = Ancestors(nodes)[i] \cup T}
<1>1. /\ IsTree(tree) /\ DOMAIN nodes \subseteq DOMAIN tree
      /\ \A i \in DOMAIN nodes : tree[i] = nodes[i]
      /\ Top \in DOMAIN tree => tree[Top].parent \notin DOMAIN tree
      /\ DOMAIN tree \subseteq {Top} \cup DOMAIN nodes
  BY DEF Gathers
<1>2. IsTree(nodes) /\ Top \notin D
  BY DEF AreNodes, IsTree, IsOrdered
<1>3. IsForest(D, up)
  BY DEF AreNodes, IsForest, IsOrdered
<1>4. Top \in DOMAIN tree => Ancestors(tree)[Top] = {}
  BY <1>1, AncestorsAre
<1>5. ASSUME NEW i \in D, up[i] \in D => up[i] \in Q PROVE i \in Q
  <2>0. i \in DOMAIN tree /\ tree[i].parent = nodes[i].parent
    BY <1>1
  <2>1. CASE nodes[i].parent = Top
    <3>1. Ancestors(nodes)[i] = {}
      BY <1>2, <2>1, AncestorsAre
    <3>2. Ancestors(tree)[i] = IF Top \notin DOMAIN tree THEN {} ELSE {Top} \cup Ancestors(tree)[Top]
      BY <1>1, <2>0, <2>1, AncestorsAre
    <3> QED BY <1>4, <3>1, <3>2
  <2>2. CASE nodes[i].parent \in D
    <3>1. Ancestors(nodes)[i] = {nodes[i].parent} \cup Ancestors(nodes)[nodes[i].parent]
      BY <1>2, <2>2, AncestorsAre
    <3>2. Ancestors(tree)[i] = {nodes[i].parent} \cup Ancestors(tree)[nodes[i].parent]
      <4>1. nodes[i].parent \in DOMAIN tree
        BY <1>1, <2>2
      <4>2. IsTree(tree)
        BY <1>1
      <4>3. Ancestors(tree)[i] = IF tree[i].parent \notin DOMAIN tree THEN {}
                                 ELSE {tree[i].parent} \cup Ancestors(tree)[tree[i].parent]
        BY <2>0, <4>2, AncestorsAre
      <4> QED BY <2>0, <4>1, <4>3
    <3>3. Ancestors(tree)[nodes[i].parent] = Ancestors(nodes)[nodes[i].parent] \cup T
      BY <1>5, <2>2
    <3> QED BY <3>1, <3>2, <3>3
  <2> QED BY <2>1, <2>2 DEF AreNodes
<1>6. D \subseteq Q
  <2> HIDE DEF D, Q, up
  <2>1. Inherits(D, up, Q)
    BY <1>5 DEF Inherits
  <2> QED BY <1>3, <2>1, GoesDown
<1> QED BY <1>6

(* Seen: with area, and in nothing without.                                *)
Seen(nodes, p) == \A j \in Ancestors(nodes)[p] \cup {p} : ~hasZeroArea(nodes[j])
Numbers(text, p) == {r \in DOMAIN text.refs : text.refs[r] = p}

(* What the text tells of nodes that were gathered.                        *)
TellsOf(text, nodes) ==
    /\ \A p \in DOMAIN nodes :
          /\ Seen(nodes, p) /\ isActionable(nodes[p]) => Cardinality(Numbers(text, p)) = 1
          /\ Seen(nodes, p) /\ carriesInformation(nodes[p]) => p \in DOMAIN text.lines
          /\ p \in DOMAIN text.lines =>
                text.lines[p].depth = Cardinality(({Top} \cup Ancestors(nodes)[p]) \cap DOMAIN text.lines)
    /\ \A p : Numbers(text, p) # {} => /\ p \in DOMAIN nodes
                                       /\ Seen(nodes, p) /\ isActionable(nodes[p])
    /\ DOMAIN text.lines \subseteq {Top} \cup DOMAIN nodes
    /\ \A r, s \in DOMAIN text.refs : r < s => text.refs[r] < text.refs[s]

LEMMA TextIs ==
    ASSUME NEW nodes, AreNodes(nodes)
    PROVE  TellsOf(serializeForLlm(Gathered(nodes)), nodes)
<1> DEFINE tree == Gathered(nodes)
           text == serializeForLlm(tree)
           L == Listed(tree)
           N == {i \in L : isActionable(tree[i])}
<1>1. /\ IsTree(tree)
      /\ DOMAIN nodes \subseteq DOMAIN tree /\ DOMAIN tree \subseteq {Top} \cup DOMAIN nodes
      /\ \A i \in DOMAIN nodes : tree[i] = nodes[i]
      /\ Top \in DOMAIN tree =>
            /\ ~isActionable(tree[Top])
            /\ \A i \in DOMAIN nodes : Seen(nodes, i) => ~hasZeroArea(tree[Top])
  <2>1. Gathers(tree, nodes)
    BY GatheredIs
  <2> HIDE DEF tree
  <2> QED BY <2>1 DEF Gathers, Seen
<1>2. Reads(text, tree, walk(tree), L, N)
  <2>1. text = Numbered(tree, walk(tree), L, N)
    BY DEF serializeForLlm, Listed
  <2>2. N \subseteq L /\ L \in SUBSET DOMAIN tree
    BY DEF Listed
  <2>3. IsOrdered(L)
    <3> HIDE DEF L, tree
    <3> QED BY <1>1, <2>2, FS_Subset DEF IsTree, IsOrdered
  <2> HIDE DEF text, L, N, tree
  <2> QED BY <2>1, <2>2, <2>3, NumberedIs
<1>3. \A i \in DOMAIN nodes :
         Ancestors(tree)[i] = Ancestors(nodes)[i] \cup ({Top} \cap DOMAIN tree)
  BY GatheredIs, GatheredAncestors
<1> HIDE DEF tree, text
<1>4. IsTree(nodes) /\ Top \notin DOMAIN nodes
  BY DEF AreNodes, IsTree, IsOrdered
<1>5. ASSUME NEW p \in DOMAIN nodes
      PROVE  /\ walk(tree)[p] # Skipped <=> Seen(nodes, p)
             /\ walk(tree)[p] # Skipped => walk(tree)[p] = Cardinality(Ancestors(tree)[p] \cap L)
  <2>1. /\ walk(tree)[p] # Skipped <=>
              \A j \in Ancestors(tree)[p] \cup {p} : ~hasZeroArea(tree[j])
        /\ walk(tree)[p] # Skipped => walk(tree)[p] = Cardinality(Ancestors(tree)[p] \cap L)
    BY <1>1, WalkComes
  <2>2. Ancestors(nodes)[p] \subseteq DOMAIN nodes
    BY <1>4, AncestorsAre
  <2>3. (\A j \in Ancestors(tree)[p] \cup {p} : ~hasZeroArea(tree[j])) <=> Seen(nodes, p)
    <3>1. ASSUME Seen(nodes, p), NEW j \in Ancestors(tree)[p] \cup {p} PROVE ~hasZeroArea(tree[j])
      BY <1>1, <1>3, <2>2, <3>1 DEF Seen
    <3>2. ASSUME \A j \in Ancestors(tree)[p] \cup {p} : ~hasZeroArea(tree[j]) PROVE Seen(nodes, p)
      BY <1>1, <1>3, <2>2, <3>2 DEF Seen
    <3> QED BY <3>1, <3>2
  <2> HIDE DEF L
  <2> QED BY <2>1, <2>3
<1>6. DOMAIN text.lines = L /\ \A i \in L : text.lines[i].depth = walk(tree)[i]
  BY <1>2 DEF Reads
<1>7. L = {i \in DOMAIN tree : walk(tree)[i] # Skipped /\ ~isRedundantContainer(tree, i)}
  BY DEF Listed
<1> HIDE DEF L
<1>8. \A i \in L : carriesInformation(tree[i]) \/ ~isRedundantContainer(tree, i)
  BY <1>7
<1>9. ASSUME NEW p \in DOMAIN nodes, Seen(nodes, p), carriesInformation(nodes[p]) PROVE p \in L
  BY <1>1, <1>5, <1>7, <1>9 DEF isRedundantContainer
<1>10. ASSUME NEW p \in DOMAIN nodes, Seen(nodes, p), isActionable(nodes[p])
       PROVE  Cardinality(Numbers(text, p)) = 1
  <2>1. p \in N
    BY <1>1, <1>9, <1>10 DEF carriesInformation
  <2>2. Numbers(text, p) = {text.lines[p].ref}
    <3> HIDE DEF N
    <3> QED BY <1>2, <2>1 DEF Reads, Numbers
  <2> QED BY <2>2, FS_Singleton
<1>11. ASSUME NEW p, Numbers(text, p) # {}
       PROVE  p \in DOMAIN nodes /\ Seen(nodes, p) /\ isActionable(nodes[p])
  <2>1. p \in N
    <3> HIDE DEF N
    <3> QED BY <1>2, <1>11 DEF Reads, Numbers
  <2>2. p \in DOMAIN tree /\ isActionable(tree[p]) /\ walk(tree)[p] # Skipped
    BY <1>7, <2>1
  <2>3. p \in DOMAIN nodes
    BY <1>1, <2>2
  <2> QED BY <1>1, <1>5, <2>2, <2>3
<1>12. ASSUME NEW p \in DOMAIN nodes, p \in L
       PROVE  text.lines[p].depth = Cardinality(({Top} \cup Ancestors(nodes)[p]) \cap L)
  <2>1. walk(tree)[p] = Cardinality(Ancestors(tree)[p] \cap L)
    BY <1>5, <1>7, <1>12
  <2>2. Ancestors(tree)[p] \cap L = ({Top} \cup Ancestors(nodes)[p]) \cap L
    BY <1>3, <1>7
  <2> QED BY <1>6, <1>12, <2>1, <2>2
<1>13. L \subseteq {Top} \cup DOMAIN nodes
  BY <1>1, <1>7
<1>14. \A r, s \in DOMAIN text.refs : r < s => text.refs[r] < text.refs[s]
  BY <1>2 DEF Reads
<1>15. TellsOf(text, nodes)
  BY <1>6, <1>9, <1>10, <1>11, <1>12, <1>13, <1>14 DEF TellsOf
<1> QED BY <1>15 DEF text, tree

-------------------------------------------------------------------------------
(* Screens: what a visit of a page finds, and the nodes made of it.        *)

IsDocument(page) ==
    /\ IsOrdered(DOMAIN page) /\ Top \notin DOMAIN page
    /\ \A i \in DOMAIN page : page[i].parent \in DOMAIN page \cup {Top} /\ page[i].parent < i

Visits(into, page, body, y) ==
    \A i \in DOMAIN page :
        LET parent == page[i].parent
        IN  into[i] = IF page[i].skipped \/ page[i].gone THEN NotVisited
                      ELSE IF parent = Top THEN Top
                      ELSE IF into[parent] # NotVisited /\ worthReporting(page, body, parent, y)
                           THEN parent ELSE into[parent]

LEMMA VisitIs ==
    ASSUME NEW page, IsDocument(page), NEW body, NEW y
    PROVE  \E into : Visits(into, page, body, y) /\ visit(page, body, y) = Entries(page, body, into, y)
<1> DEFINE D == DOMAIN page
           S == D \cup {NotVisited, Top}
           Goes(f, i) ==
               LET parent == page[i].parent
               IN  IF page[i].skipped \/ page[i].gone THEN NotVisited
                   ELSE IF parent = Top THEN Top
                   ELSE IF f[parent] # NotVisited /\ worthReporting(page, body, parent, y)
                        THEN parent ELSE f[parent]
           into == CHOOSE into : into = [i \in D |-> Goes(into, i)]
           up == [i \in D |-> page[i].parent]
           base == [i \in D |-> IF page[i].skipped \/ page[i].gone THEN NotVisited ELSE Top]
           step == [i \in D |-> [x \in S |->
                       IF page[i].skipped \/ page[i].gone THEN NotVisited
                       ELSE IF up[i] \in D /\ x # NotVisited /\ worthReporting(page, body, page[i].parent, y)
                            THEN up[i] ELSE x]]
<1>1. IsForest(D, up)
  BY DEF IsDocument, IsOrdered, IsForest
<1>2. CanTell(D, S, base, step)
  <2>1. \A i \in D : base[i] \in S
    OBVIOUS
  <2>2. \A i \in D : \A x \in S : step[i][x] \in S
    OBVIOUS
  <2> HIDE DEF D, S, base, step
  <2> QED BY <2>1, <2>2 DEF CanTell
<1>3. PICK f \in [D -> S] : Tells(f, D, up, base, step)
  <2> HIDE DEF D, S, up, base, step
  <2> QED BY <1>1, <1>2, IsToldDown
<1>4. f = [i \in D |-> Goes(f, i)]
  <2>1. ASSUME NEW i \in D PROVE f[i] = Goes(f, i)
    <3>1. CASE up[i] \in D
      <4>1. f[up[i]] \in S /\ f[i] = step[i][f[up[i]]] /\ page[i].parent # Top
        BY <1>3, <3>1 DEF Tells, IsDocument
      <4> QED BY <3>1, <4>1
    <3>2. CASE up[i] \notin D
      <4>1. page[i].parent = Top /\ f[i] = base[i]
        BY <1>3, <3>2 DEF Tells, IsDocument
      <4> QED BY <4>1
    <3> QED BY <3>1, <3>2
  <2> HIDE DEF Goes
  <2> QED BY <1>3, <2>1
<1>5. visit(page, body, y) = Entries(page, body, into, y)
  BY DEF visit
<1>6. into = [i \in D |-> Goes(into, i)]
  <2> HIDE DEF Goes
  <2> QED BY <1>4
<1> HIDE DEF into
<1>7. Visits(into, page, body, y)
  BY <1>6 DEF Visits
<1> QED BY <1>5, <1>7

(* An element is visited when nothing it is in is left out, and its entry  *)
(* is put into that of the nearest element around it that has one.         *)
Reported(into, page, body, y) ==
    {j \in DOMAIN page : into[j] # NotVisited /\ worthReporting(page, body, j, y)}

LEMMA VisitComes ==
    ASSUME NEW page, IsDocument(page), NEW body, NEW y, NEW into, Visits(into, page, body, y)
    PROVE  \A i \in DOMAIN page :
              LET R == Reported(into, page, body, y)
              IN  /\ into[i] # NotVisited <=>
                        \A j \in Ancestors(page)[i] \cup {i} : ~page[j].skipped /\ ~page[j].gone
                  /\ into[i] # NotVisited =>
                        \/ into[i] = Top /\ Ancestors(page)[i] \cap R = {}
                        \/ /\ into[i] \in R /\ into[i] \in Ancestors(page)[i]
                           /\ Ancestors(page)[i] \cap R =
                                 {into[i]} \cup (Ancestors(page)[into[i]] \cap R)
<1> DEFINE D == DOMAIN page
           above == Ancestors(page)
           R == Reported(into, page, body, y)
           up == [i \in D |-> page[i].parent]
           Left(i) == page[i].skipped \/ page[i].gone
           Finds(i) == /\ into[i] # NotVisited <=> \A j \in above[i] \cup {i} : ~Left(j)
                       /\ into[i] # NotVisited =>
                             \/ into[i] = Top /\ above[i] \cap R = {}
                             \/ /\ into[i] \in R /\ into[i] \in above[i]
                                /\ above[i] \cap R = {into[i]} \cup (above[into[i]] \cap R)
           Q == {i \in D : Finds(i)}
<1>1. IsForest(D, up)
  BY DEF IsDocument, IsOrdered, IsForest
<1>2. IsTree(page) /\ Top \notin D /\ NotVisited \notin D /\ NotVisited # Top
  BY DEF IsDocument, IsOrdered, IsTree, NotVisited, Top
<1>3. \A i \in D : above[i] = IF page[i].parent \notin D THEN {} ELSE {page[i].parent} \cup above[page[i].parent]
  BY <1>2, AncestorsAre
<1>4. \A i \in D : /\ page[i].parent \in D \cup {Top}
                   /\ into[i] = IF Left(i) THEN NotVisited
                                ELSE IF page[i].parent = Top THEN Top
                                ELSE IF page[i].parent \in R THEN page[i].parent ELSE into[page[i].parent]
  BY DEF IsDocument, Visits, Reported
<1>5. R = {j \in D : into[j] # NotVisited /\ worthReporting(page, body, j, y)}
  BY DEF Reported
<1> HIDE DEF D, above, R
<1>6. ASSUME NEW i \in D, up[i] \in D => up[i] \in Q PROVE i \in Q
  <2> HIDE DEF Left
  <2>1. CASE page[i].parent = Top
    <3>1. above[i] = {} /\ into[i] = IF Left(i) THEN NotVisited ELSE Top
      BY <1>2, <1>3, <1>4, <2>1
    <3> QED BY <1>2, <3>1
  <2>2. CASE page[i].parent \in D
    <3> DEFINE p == page[i].parent
    <3>1. p \in D /\ Finds(p) /\ above[i] = {p} \cup above[p]
      BY <1>3, <1>6, <2>2
    <3>2. into[i] = IF Left(i) THEN NotVisited ELSE IF p \in R THEN p ELSE into[p]
      BY <1>2, <1>4, <2>2
    <3> HIDE DEF p
    <3>3. into[i] # NotVisited <=> ~Left(i) /\ into[p] # NotVisited
      BY <1>2, <1>5, <3>1, <3>2
    <3>4. into[i] # NotVisited <=> \A j \in above[i] \cup {i} : ~Left(j)
      BY <3>1, <3>3
    <3>5. ASSUME into[i] # NotVisited
          PROVE  \/ into[i] = Top /\ above[i] \cap R = {}
                 \/ /\ into[i] \in R /\ into[i] \in above[i]
                    /\ above[i] \cap R = {into[i]} \cup (above[into[i]] \cap R)
      <4>1. CASE p \in R
        BY <3>1, <3>2, <3>5, <4>1
      <4>2. CASE p \notin R
        <5>1. into[i] = into[p] /\ into[p] # NotVisited /\ above[i] \cap R = above[p] \cap R
          BY <3>1, <3>2, <3>3, <3>5, <4>2
        <5> QED BY <3>1, <5>1
      <4> QED BY <4>1, <4>2
    <3> QED BY <3>4, <3>5
  <2> QED BY <1>4, <2>1, <2>2
<1>7. D \subseteq Q
  <2> HIDE DEF Q, up
  <2>1. Inherits(D, up, Q)
    BY <1>6 DEF Inherits
  <2> QED BY <1>1, <2>1, GoesDown
<1> QED BY <1>7 DEF D, above, R

(* The nodes a node is in are those of the elements its element is in.     *)
LEMMA NodesAreIn ==
    ASSUME NEW page, NEW nodes, AreNodes(nodes),
           \A i \in DOMAIN nodes :
              LET parent == nodes[i].parent
                  around == Ancestors(page)[i] \cap DOMAIN nodes
              IN  \/ parent = Top /\ around = {}
                  \/ /\ parent \in DOMAIN nodes
                     /\ around = {parent} \cup (Ancestors(page)[parent] \cap DOMAIN nodes)
    PROVE  \A i \in DOMAIN nodes : Ancestors(nodes)[i] = Ancestors(page)[i] \cap DOMAIN nodes
<1> DEFINE R == DOMAIN nodes
           up == [i \in R |-> nodes[i].parent]
           Q == {i \in R : Ancestors(nodes)[i] = Ancestors(page)[i] \cap R}
<1>1. IsForest(R, up)
  BY DEF AreNodes, IsForest, IsOrdered
<1>2. IsTree(nodes) /\ Top \notin R
  BY DEF AreNodes, IsTree, IsOrdered
<1>3. \A i \in R : Ancestors(nodes)[i] = IF nodes[i].parent \notin R THEN {}
                                         ELSE {nodes[i].parent} \cup Ancestors(nodes)[nodes[i].parent]
  BY <1>2, AncestorsAre
<1>4. ASSUME NEW i \in R, up[i] \in R => up[i] \in Q PROVE i \in Q
  <2>1. CASE nodes[i].parent = Top /\ Ancestors(page)[i] \cap R = {}
    BY <1>2, <1>3, <2>1
  <2>2. CASE /\ nodes[i].parent \in R
             /\ Ancestors(page)[i] \cap R
                   = {nodes[i].parent} \cup (Ancestors(page)[nodes[i].parent] \cap R)
    BY <1>3, <1>4, <2>2
  <2> QED BY <2>1, <2>2
<1>5. R \subseteq Q
  <2> HIDE DEF R, Q, up
  <2>1. Inherits(R, up, Q)
    BY <1>4 DEF Inherits
  <2> QED BY <1>1, <2>1, GoesDown
<1> QED BY <1>5

(* The nodes of what is on the device, where the dump was taken.           *)
Tellable(nodes) ==
    /\ DOMAIN nodes \subseteq Places
    /\ TellsOf(dump.text, nodes)
    /\ \A i \in DOMAIN nodes : /\ Ancestors(nodes)[i] = Above[i] \cap DOMAIN nodes
                               /\ hasZeroArea(nodes[i]) <=> ~Drawn(Shown[i])
                               /\ nodes[i].says = Shown[i].says

IsTaken ==
    /\ document \in Documents /\ dump.taken /\ dump.at \in Scrolls
    /\ dump.text = serializeForLlm(dumpUi(document, dump.at))

ScreenInv ==
    /\ document \in Documents /\ scroll \in Scrolls
    /\ dump.taken => IsTaken

LEMMA NodeIs ==
    ASSUME NEW el, el.top \in Int, el.height \in Nat, IsTaken, NEW node,
           node.y1 = Rounded(el.top - dump.at),
           node.y2 = Rounded(el.top + el.height - dump.at)
    PROVE  /\ node.y1 \in Int /\ node.y2 \in Int
           /\ hasZeroArea(node) <=> ~Drawn(el)
<1>1. dump.at \in Nat
  BY ScreenAssumption DEF IsTaken
<1>2. \A n \in Int : Rounded(n) \in Int
  BY DEF Rounded
<1>3. el.top - dump.at \in Int /\ el.top + el.height - dump.at \in Int
  BY <1>1
<1>4. node.y1 \in Int /\ node.y2 \in Int
  BY <1>2, <1>3
<1>5. \A a, b \in Int : b <= a <=> ~ (a < b)
  OBVIOUS
<1> QED BY <1>4, <1>5 DEF hasZeroArea, Drawn

LEMMA ShownIs ==
    ASSUME document \in Documents
    PROVE  /\ IsDocument(Shown) /\ IsTree(Shown)
           /\ document.platform \in {"web", "android"}
           /\ \A i \in Places :
                 Shown[i] \in IF document.platform = "web" THEN Elements ELSE Widgets
<1>1. /\ IsFiniteSet(Places) /\ Places \subseteq Nat \ {Top}
      /\ \A i \in Places : Shown[i].parent \in Places \cup {Top} /\ Shown[i].parent < i
      /\ document.platform \in {"web", "android"}
      /\ \A i \in Places : Shown[i] \in IF document.platform = "web" THEN Elements ELSE Widgets
  BY ScreenAssumption DEF Places, Shown
<1> QED BY <1>1 DEF IsDocument, IsTree, IsOrdered, Places

(* Of a dump every widget is a node.                                       *)
LEMMA DumpTells ==
    ASSUME IsTaken, document.platform # "web"
    PROVE  \E nodes : /\ Tellable(nodes) /\ DOMAIN nodes = Places
                      /\ \A i \in Places : isActionable(nodes[i]) <=> Controls(i)
<1> DEFINE nodes == [i \in Places |-> parseNode(Shown[i], dump.at)]
<1>1. /\ IsDocument(Shown) /\ IsTree(Shown)
      /\ \A i \in Places : Shown[i] \in Widgets
  BY ShownIs DEF IsTaken
<1>2. ASSUME NEW i \in Places
      PROVE  /\ nodes[i].parent = Shown[i].parent /\ nodes[i].says = Shown[i].says
             /\ nodes[i].y1 \in Int /\ nodes[i].y2 \in Int
             /\ hasZeroArea(nodes[i]) <=> ~Drawn(Shown[i])
             /\ isActionable(nodes[i]) <=> Controls(i)
  <2>1. Shown[i] \in Widgets
    BY <1>1
  <2> DEFINE node == parseNode(Shown[i], dump.at)
  <2>2. /\ node.class = Shown[i].class /\ node.says = Shown[i].says
        /\ node.clickable = Shown[i].clickable /\ node.enabled = Shown[i].enabled
        /\ node.parent = Shown[i].parent
        /\ node.y1 = Rounded(Shown[i].top - dump.at)
        /\ node.y2 = Rounded(Shown[i].top + Shown[i].height - dump.at)
    BY DEF parseNode, Node
  <2>3. nodes[i] = node
    OBVIOUS
  <2> HIDE DEF nodes, node
  <2>4. node.y1 \in Int /\ node.y2 \in Int /\ (hasZeroArea(node) <=> ~Drawn(Shown[i]))
    <3>1. Shown[i].top \in Int /\ Shown[i].height \in Nat
      BY <2>1 DEF Widgets
    <3> QED BY <2>2, <3>1, NodeIs
  <2>5. isActionable(node) <=> Controls(i)
    <3>1. Shown[i].class \in {"View", "EditText"}
      BY <2>1 DEF Widgets
    <3> QED BY <2>2, <3>1 DEF isActionable, isEditableClass, Controls
  <2> QED BY <2>2, <2>3, <2>4, <2>5
<1>3. DOMAIN nodes = Places
  OBVIOUS
<1>4. parseUiDump(document.elements, dump.at) = Gathered(nodes)
  BY DEF parseUiDump, Shown, Places
<1> HIDE DEF nodes
<1>5. AreNodes(nodes)
  BY <1>1, <1>2, <1>3 DEF AreNodes, IsDocument, Places
<1>6. TellsOf(dump.text, nodes)
  BY <1>4, <1>5, TextIs DEF IsTaken, dumpUi
<1>7. \A i \in Places : Ancestors(nodes)[i] = Ancestors(Shown)[i] \cap Places
  <2>1. ASSUME NEW i \in DOMAIN nodes
        PROVE  LET parent == nodes[i].parent
                   around == Ancestors(Shown)[i] \cap DOMAIN nodes
               IN  \/ parent = Top /\ around = {}
                   \/ /\ parent \in DOMAIN nodes
                      /\ around = {parent} \cup (Ancestors(Shown)[parent] \cap DOMAIN nodes)
    <3>1. /\ i \in Places /\ nodes[i].parent = Shown[i].parent
          /\ Shown[i].parent \in Places \cup {Top} /\ Top \notin Places
      BY <1>1, <1>2, <1>3 DEF IsDocument, Places
    <3>2. Ancestors(Shown)[i] = IF Shown[i].parent \notin Places THEN {}
                                ELSE {Shown[i].parent} \cup Ancestors(Shown)[Shown[i].parent]
      BY <1>1, <3>1, AncestorsAre DEF Places
    <3> QED BY <1>3, <3>1, <3>2
  <2> QED BY <1>3, <1>5, <2>1, NodesAreIn
<1>8. Tellable(nodes)
  BY <1>2, <1>3, <1>6, <1>7 DEF Tellable, Above
<1> QED BY <1>2, <1>3, <1>8

(* Of a page it is what is worth reporting, in nothing that is left out.   *)
LEMMA PageTells ==
    ASSUME IsTaken, document.platform = "web"
    PROVE  \E nodes :
              /\ Tellable(nodes)
              /\ \A i \in Places :
                    i \in DOMAIN nodes <=>
                       /\ worthReporting(Shown, Body, i, dump.at)
                       /\ \A j \in Above[i] \cup {i} : ~Shown[j].skipped /\ ~Shown[j].gone
              /\ \A i \in DOMAIN nodes :
                    isActionable(nodes[i]) <=>
                       /\ ~Shown[i].disabled
                       /\ isEditable(Shown[i]) \/ Shown[i].tag = "box" \/ isClickable(Shown, Body, i)
<1>1. /\ IsDocument(Shown) /\ IsTree(Shown)
      /\ \A i \in Places : Shown[i] \in Elements
  BY ShownIs DEF IsTaken
<1>2. PICK into : /\ Visits(into, Shown, Body, dump.at)
                  /\ visit(Shown, Body, dump.at) = Entries(Shown, Body, into, dump.at)
  BY <1>1, VisitIs
<1> DEFINE R == Reported(into, Shown, Body, dump.at)
           entries == visit(Shown, Body, dump.at)
           nodes == [i \in DOMAIN entries |-> nodeAt(entries[i], dump.at)]
<1>3. R \subseteq Places /\ DOMAIN entries = R /\ DOMAIN nodes = R
  BY <1>2 DEF Entries, Reported, Places
<1>4. \A i \in R : entries[i] = [el |-> Shown[i],
                                 clickable |-> ~isEditable(Shown[i]) /\ isClickable(Shown, Body, i),
                                 into |-> into[i]]
  BY <1>2 DEF Entries, Reported
<1>5. dumpUi(document, dump.at) = Gathered(nodes)
  BY DEF dumpUi, toUiNode, Shown, Body
<1>6. ASSUME NEW i \in R
      PROVE  /\ nodes[i].parent = into[i] /\ nodes[i].says = Shown[i].says
             /\ nodes[i].y1 \in Int /\ nodes[i].y2 \in Int
             /\ hasZeroArea(nodes[i]) <=> ~Drawn(Shown[i])
             /\ isActionable(nodes[i]) <=>
                   /\ ~Shown[i].disabled
                   /\ isEditable(Shown[i]) \/ Shown[i].tag = "box" \/ isClickable(Shown, Body, i)
  <2>1. Shown[i] \in Elements
    BY <1>1, <1>3
  <2>2. nodes[i] = nodeAt(entries[i], dump.at)
    BY <1>3
  <2> HIDE DEF nodes, entries
  <2> DEFINE node == nodes[i]
             points == ~isEditable(Shown[i]) /\ isClickable(Shown, Body, i)
  <2>3. /\ node.class = ClassOf(Shown[i]) /\ node.says = Shown[i].says
        /\ node.clickable = points
        /\ node.enabled = ~Shown[i].disabled
        /\ node.parent = into[i]
        /\ node.y1 = Rounded(Shown[i].top - dump.at)
        /\ node.y2 = Rounded(Shown[i].top + Shown[i].height - dump.at)
    <3>1. entries[i] = [el |-> Shown[i], clickable |-> points, into |-> into[i]]
      BY <1>4
    <3> HIDE DEF points
    <3>2. entries[i].el = Shown[i] /\ entries[i].into = into[i] /\ entries[i].clickable = points
      BY <3>1
    <3> QED BY <2>2, <3>2 DEF nodeAt, Node
  <2> HIDE DEF node
  <2>4. node.y1 \in Int /\ node.y2 \in Int /\ (hasZeroArea(node) <=> ~Drawn(Shown[i]))
    <3>1. Shown[i].top \in Int /\ Shown[i].height \in Nat
      BY <2>1 DEF Elements
    <3> QED BY <2>3, <3>1, NodeIs
  <2>5. isActionable(node) <=>
           /\ ~Shown[i].disabled
           /\ isEditable(Shown[i]) \/ Shown[i].tag = "box" \/ isClickable(Shown, Body, i)
    <3>1. Shown[i].tag \in {"div", "field", "box", "select", "button", "label", "labelFor"}
      BY <2>1 DEF Elements
    <3>2. isEditableClass(node) <=> isEditable(Shown[i]) \/ Shown[i].tag = "box"
      BY <2>3, <3>1 DEF ClassOf, isEditableClass, isEditable
    <3> QED BY <2>3, <3>2 DEF isActionable, points
  <2> QED BY <2>3, <2>4, <2>5 DEF node
<1>7. \A i \in Places :
         /\ into[i] # NotVisited <=>
               \A j \in Ancestors(Shown)[i] \cup {i} : ~Shown[j].skipped /\ ~Shown[j].gone
         /\ into[i] # NotVisited =>
               \/ into[i] = Top /\ Ancestors(Shown)[i] \cap R = {}
               \/ /\ into[i] \in R /\ into[i] \in Ancestors(Shown)[i]
                  /\ Ancestors(Shown)[i] \cap R = {into[i]} \cup (Ancestors(Shown)[into[i]] \cap R)
  BY <1>1, <1>2, VisitComes DEF Places
<1>8. \A i \in Places : i \in R <=> into[i] # NotVisited /\ worthReporting(Shown, Body, i, dump.at)
  BY DEF Reported, Places
<1> HIDE DEF nodes, entries, R
<1>9. AreNodes(nodes)
  <2>1. IsOrdered(R) /\ Top \notin R
    <3>1. R \in SUBSET Places
      BY <1>3
    <3> QED BY <1>1, <3>1, FS_Subset DEF IsDocument, IsOrdered, Places
  <2>2. ASSUME NEW i \in R PROVE into[i] \in R \cup {Top} /\ into[i] < i
    <3>1. i \in Places /\ into[i] # NotVisited
      BY <1>3, <1>8
    <3>2. CASE into[i] = Top
      <4>1. i \in Nat /\ i # 0
        BY <2>1 DEF IsOrdered, Top
      <4> QED BY <3>2, <4>1 DEF Top
    <3>3. CASE into[i] \in R /\ into[i] \in Ancestors(Shown)[i]
      BY <1>1, <3>1, <3>3, AncestorsAre DEF Places
    <3> QED BY <1>7, <3>1, <3>2, <3>3
  <2> QED BY <1>3, <1>6, <2>1, <2>2 DEF AreNodes
<1>10. TellsOf(dump.text, nodes)
  BY <1>5, <1>9, TextIs DEF IsTaken
<1>11. \A i \in R : Ancestors(nodes)[i] = Ancestors(Shown)[i] \cap R
  <2>1. ASSUME NEW i \in DOMAIN nodes
        PROVE  LET parent == nodes[i].parent
                   around == Ancestors(Shown)[i] \cap DOMAIN nodes
               IN  \/ parent = Top /\ around = {}
                   \/ /\ parent \in DOMAIN nodes
                      /\ around = {parent} \cup (Ancestors(Shown)[parent] \cap DOMAIN nodes)
    BY <1>3, <1>6, <1>7, <1>8
  <2> QED BY <1>3, <1>9, <2>1, NodesAreIn
<1>12. Tellable(nodes)
  BY <1>3, <1>6, <1>10, <1>11 DEF Tellable, Above
<1>13. \A i \in Places :
          i \in DOMAIN nodes <=>
             /\ worthReporting(Shown, Body, i, dump.at)
             /\ \A j \in Above[i] \cup {i} : ~Shown[j].skipped /\ ~Shown[j].gone
  BY <1>3, <1>7, <1>8 DEF Above
<1> QED BY <1>3, <1>6, <1>12, <1>13

(* What may be seen of a node that was gathered.                           *)
LEMMA SeenIs ==
    ASSUME NEW nodes, Tellable(nodes), NEW p \in DOMAIN nodes
    PROVE  Seen(nodes, p) <=> \A j \in (Above[p] \cap DOMAIN nodes) \cup {p} : Drawn(Shown[j])
BY DEF Seen, Tellable

(* Who an element is in, from one to the next.                             *)
LEMMA AboveIs ==
    ASSUME document \in Documents
    PROVE  \A p \in Places :
              /\ Above[p] \subseteq Places
              /\ Above[p] = IF Shown[p].parent = Top THEN {}
                            ELSE {Shown[p].parent} \cup Above[Shown[p].parent]
              /\ Shown[p].parent \in Places \cup {Top}
<1>1. IsDocument(Shown) /\ IsTree(Shown)
  BY ShownIs
<1>2. \A p \in Places : Shown[p].parent \in Places \cup {Top} /\ Top \notin Places
  BY <1>1 DEF IsDocument, Places
<1>3. \A p \in Places :
         /\ Above[p] \subseteq Places
         /\ Above[p] = IF Shown[p].parent \notin Places THEN {}
                       ELSE {Shown[p].parent} \cup Above[Shown[p].parent]
  BY <1>1, AncestorsAre DEF Places, Above
<1> QED BY <1>2, <1>3

LEMMA VisitedAbove ==
    ASSUME document \in Documents
    PROVE  \A p \in Places : \A q \in Above[p] : q \in Places /\ Above[q] \subseteq Above[p]
<1> DEFINE up == [i \in Places |-> Shown[i].parent]
           Q == {p \in Places : \A q \in Above[p] : Above[q] \subseteq Above[p]}
<1>1. IsForest(Places, up)
  BY ShownIs DEF IsDocument, IsOrdered, IsForest, Places
<1>2. ASSUME NEW p \in Places, up[p] \in Places => up[p] \in Q PROVE p \in Q
  BY <1>2, AboveIs
<1>3. Places \subseteq Q
  <2> HIDE DEF Q, up
  <2>1. Inherits(Places, up, Q)
    BY <1>2 DEF Inherits
  <2> QED BY <1>1, <2>1, GoesDown
<1> QED BY <1>3, AboveIs

LEMMA ControlsTold ==
    ASSUME IsTaken
    PROVE  /\ \A p \in Places : Painted(p) /\ Controls(p) => Cardinality(NumbersOf(p)) = 1
           /\ \A p \in Places : NumbersOf(p) # {} => Painted(p)
<1>0. \A p : NumbersOf(p) = Numbers(dump.text, p)
  BY DEF NumbersOf, Numbers
<1>1. CASE document.platform # "web"
  <2>1. PICK nodes : /\ Tellable(nodes) /\ DOMAIN nodes = Places
                     /\ \A i \in Places : isActionable(nodes[i]) <=> Controls(i)
    BY <1>1, DumpTells
  <2>2. TellsOf(dump.text, nodes)
    BY <2>1 DEF Tellable
  <2>3. \A p \in Places : Painted(p) <=> Seen(nodes, p)
    <3>1. \A p \in Places : Above[p] \cap DOMAIN nodes = Above[p]
      BY <2>1, AboveIs DEF IsTaken
    <3> QED BY <1>1, <2>1, <3>1, SeenIs DEF Painted
  <2> QED BY <1>0, <2>1, <2>2, <2>3 DEF TellsOf
<1>2. CASE document.platform = "web"
  <2>1. PICK nodes :
           /\ Tellable(nodes)
           /\ \A i \in Places :
                 i \in DOMAIN nodes <=>
                    /\ worthReporting(Shown, Body, i, dump.at)
                    /\ \A j \in Above[i] \cup {i} : ~Shown[j].skipped /\ ~Shown[j].gone
           /\ \A i \in DOMAIN nodes :
                 isActionable(nodes[i]) <=>
                    /\ ~Shown[i].disabled
                    /\ isEditable(Shown[i]) \/ Shown[i].tag = "box" \/ isClickable(Shown, Body, i)
    BY <1>2, PageTells
  <2>2. TellsOf(dump.text, nodes)
    BY <2>1 DEF Tellable
  <2>3. ASSUME NEW p \in Places, Painted(p), Controls(p)
        PROVE  p \in DOMAIN nodes /\ Seen(nodes, p) /\ isActionable(nodes[p])
    <3>1. /\ ~Shown[p].hidden /\ onScreen(Shown[p], dump.at)
          /\ \A j \in Above[p] \cup {p} : ~Shown[j].skipped /\ ~Shown[j].gone
          /\ \A j \in Above[p] \cup {p} : worthReporting(Shown, Body, j, dump.at) => Drawn(Shown[j])
      BY <1>2, <2>3 DEF Painted
    <3>2. /\ ~Shown[p].disabled
          /\ isEditable(Shown[p]) \/ Shown[p].tag = "box" \/ isClickable(Shown, Body, p)
          /\ isEditable(Shown[p]) \/ isClickable(Shown, Body, p)
      BY <1>2, <2>3 DEF Controls, isEditable, isClickable
    <3>3. worthReporting(Shown, Body, p, dump.at)
      BY <3>1, <3>2 DEF worthReporting
    <3>4. p \in DOMAIN nodes
      BY <2>1, <3>1, <3>3
    <3>5. \A j \in (Above[p] \cap DOMAIN nodes) \cup {p} : Drawn(Shown[j])
      BY <2>1, <3>1, <3>3 DEF Tellable
    <3> QED BY <2>1, <3>2, <3>4, <3>5, SeenIs
  <2>4. ASSUME NEW p \in Places, p \in DOMAIN nodes, Seen(nodes, p) PROVE Painted(p)
    <3>1. /\ worthReporting(Shown, Body, p, dump.at)
          /\ \A j \in Above[p] \cup {p} : ~Shown[j].skipped /\ ~Shown[j].gone
      BY <2>1, <2>4
    <3>2. ASSUME NEW j \in Above[p] \cup {p}, worthReporting(Shown, Body, j, dump.at)
          PROVE  Drawn(Shown[j])
      <4>1. j \in Places /\ Above[j] \subseteq Above[p]
        BY VisitedAbove DEF IsTaken
      <4>2. j \in DOMAIN nodes
        BY <2>1, <3>1, <3>2, <4>1
      <4> QED BY <2>1, <2>4, <4>2, SeenIs
    <3> QED BY <1>2, <3>1, <3>2 DEF Painted, worthReporting
  <2> QED BY <1>0, <2>2, <2>3, <2>4 DEF TellsOf
<1> QED BY <1>1, <1>2

LEMMA WordsTold ==
    ASSUME IsTaken
    PROVE  LET lines == dump.text.lines
               refs == dump.text.refs
           IN  /\ \A p \in Places : Painted(p) /\ Shown[p].says => p \in DOMAIN lines
               /\ \A p \in Places \cap DOMAIN lines :
                     lines[p].depth = Cardinality(({Top} \cup Above[p]) \cap DOMAIN lines)
               /\ \A r, s \in DOMAIN refs : r < s => refs[r] < refs[s]
<1>1. PICK nodes :
         /\ Tellable(nodes)
         /\ \A p \in Places : Painted(p) /\ Shown[p].says => p \in DOMAIN nodes /\ Seen(nodes, p)
  <2>1. CASE document.platform # "web"
    <3>1. PICK nodes : Tellable(nodes) /\ DOMAIN nodes = Places
      BY <2>1, DumpTells
    <3>2. \A p \in Places : Painted(p) => p \in DOMAIN nodes /\ Seen(nodes, p)
      BY <2>1, <3>1, SeenIs DEF Painted
    <3> QED BY <3>1, <3>2
  <2>2. CASE document.platform = "web"
    <3>1. PICK nodes :
             /\ Tellable(nodes)
             /\ \A i \in Places :
                   i \in DOMAIN nodes <=>
                      /\ worthReporting(Shown, Body, i, dump.at)
                      /\ \A j \in Above[i] \cup {i} : ~Shown[j].skipped /\ ~Shown[j].gone
      BY <2>2, PageTells
    <3>2. ASSUME NEW p \in Places, Painted(p), Shown[p].says
          PROVE  p \in DOMAIN nodes /\ Seen(nodes, p)
      <4>1. /\ worthReporting(Shown, Body, p, dump.at)
            /\ \A j \in Above[p] \cup {p} : ~Shown[j].skipped /\ ~Shown[j].gone
            /\ \A j \in Above[p] \cup {p} : worthReporting(Shown, Body, j, dump.at) => Drawn(Shown[j])
        BY <2>2, <3>2 DEF Painted, worthReporting
      <4>2. p \in DOMAIN nodes
        BY <3>1, <4>1
      <4>3. \A j \in (Above[p] \cap DOMAIN nodes) \cup {p} : Drawn(Shown[j])
        BY <3>1, <4>1 DEF Tellable
      <4> QED BY <3>1, <4>2, <4>3, SeenIs
    <3> QED BY <3>1, <3>2
  <2> QED BY <2>1, <2>2
<1>2. TellsOf(dump.text, nodes) /\ DOMAIN nodes \subseteq Places
  BY <1>1 DEF Tellable
<1>3. ASSUME NEW p \in Places, Painted(p), Shown[p].says PROVE p \in DOMAIN dump.text.lines
  <2>1. p \in DOMAIN nodes /\ Seen(nodes, p) /\ carriesInformation(nodes[p])
    BY <1>1, <1>3 DEF Tellable, carriesInformation
  <2> QED BY <1>2, <2>1 DEF TellsOf
<1>4. ASSUME NEW p \in Places \cap DOMAIN dump.text.lines
      PROVE  dump.text.lines[p].depth =
                Cardinality(({Top} \cup Above[p]) \cap DOMAIN dump.text.lines)
  <2>1. Top \notin Places
    BY ShownIs DEF IsTaken, IsDocument, Places
  <2>2. p \in DOMAIN nodes
    BY <1>2, <2>1 DEF TellsOf
  <2>3. dump.text.lines[p].depth =
           Cardinality(({Top} \cup Ancestors(nodes)[p]) \cap DOMAIN dump.text.lines)
    BY <1>2, <2>2 DEF TellsOf
  <2>4. Above[p] \subseteq Places /\ Ancestors(nodes)[p] = Above[p] \cap DOMAIN nodes
    BY <1>1, <1>2, <2>2, AboveIs DEF IsTaken, Tellable
  <2>5. ({Top} \cup Ancestors(nodes)[p]) \cap DOMAIN dump.text.lines
           = ({Top} \cup Above[p]) \cap DOMAIN dump.text.lines
    BY <1>2, <2>4 DEF TellsOf
  <2> QED BY <2>3, <2>5
<1> QED BY <1>2, <1>3, <1>4 DEF TellsOf

(* What has a number may be acted on, as the collector said.               *)
LEMMA NumberedIsActionable ==
    ASSUME IsTaken, document.platform = "web", NEW p \in Places, NumbersOf(p) # {}
    PROVE  /\ ~Shown[p].disabled
           /\ isEditable(Shown[p]) \/ Shown[p].tag = "box" \/ isClickable(Shown, Body, p)
<1>1. PICK nodes :
         /\ Tellable(nodes)
         /\ \A i \in DOMAIN nodes :
               isActionable(nodes[i]) <=>
                  /\ ~Shown[i].disabled
                  /\ isEditable(Shown[i]) \/ Shown[i].tag = "box" \/ isClickable(Shown, Body, i)
  BY PageTells
<1>2. p \in DOMAIN nodes /\ isActionable(nodes[p])
  BY <1>1 DEF Tellable, TellsOf, NumbersOf, Numbers
<1> QED BY <1>1, <1>2

LEMMA TargetsTold ==
    ASSUME IsTaken, document.platform = "web", NEW p \in Places, NEW q \in Places,
           NumbersOf(p) # {}, q \in Above[p],
           \A i \in Above[p] : i = q \/ q \in Above[i] => Shown[i].pointer
    PROVE  Controls(p)
<1>1. /\ ~Shown[p].disabled
      /\ isEditable(Shown[p]) \/ Shown[p].tag = "box" \/ isClickable(Shown, Body, p)
  BY NumberedIsActionable
<1>2. Around(Shown, Body, p).pointer
  <2>1. Shown[p].parent # Top /\ Above[p] = {Shown[p].parent} \cup Above[Shown[p].parent]
    BY AboveIs DEF IsTaken
  <2>2. Shown[Shown[p].parent].pointer
    BY <2>1
  <2> QED BY <2>1, <2>2 DEF Around
<1> QED BY <1>1, <1>2 DEF isClickable, Controls

LEMMA LabelsTold ==
    ASSUME IsTaken, document.platform = "web", NEW p \in Places, NumbersOf(p) # {},
           Shown[p].tag \in {"label", "labelFor"}
    PROVE  Controls(p)
BY NumberedIsActionable DEF isClickable, Controls

LEMMA ScreenInvInit == ScreenInit => ScreenInv
BY ScreenAssumption DEF ScreenInit, ScreenInv, NoDump

LEMMA ScreenInvStep == ScreenInv /\ [ScreenNext]_screenVars => ScreenInv'
<1> SUFFICES ASSUME ScreenInv, [ScreenNext]_screenVars PROVE ScreenInv'
  OBVIOUS
<1>1. CASE Swipes
  BY <1>1 DEF Swipes, ScreenInv, IsTaken
<1>2. CASE Dumps
  <2> DEFINE text == serializeForLlm(dumpUi(document, scroll))
  <2>1. dump' = [taken |-> TRUE, at |-> scroll, text |-> text] /\ UNCHANGED <<document, scroll>>
    BY <1>2 DEF Dumps
  <2> HIDE DEF text
  <2>2. dump'.taken /\ dump'.at = scroll /\ dump'.text = text
    BY <2>1
  <2>3. text = serializeForLlm(dumpUi(document, scroll))
    BY DEF text
  <2> QED BY <2>1, <2>2, <2>3 DEF ScreenInv, IsTaken
<1>3. CASE UNCHANGED screenVars
  BY <1>3 DEF screenVars, ScreenInv, IsTaken
<1> QED BY <1>1, <1>2, <1>3 DEF ScreenNext

(* A control that can be seen has one number in what the model reads, and  *)
(* what has a number can be seen: on any page and any dump, wrapped in     *)
(* whatever and scrolled anywhere.                                         *)
THEOREM ControlsHaveNumbers == ScreenSpec => []ControlsAreTargets
<1>1. ScreenInv => ControlsAreTargets
  BY ControlsTold DEF ScreenInv, ControlsAreTargets
<1> QED BY <1>1, ScreenInvInit, ScreenInvStep, PTL DEF ScreenSpec

(* What is said on any screen is on a line, as deep as what it is in that  *)
(* is listed, and numbers rise: no wrapper that goes takes words along.    *)
THEOREM WordsReachTheModel == ScreenSpec => []WordsAreKept
<1>1. ScreenInv => WordsAreKept
  BY WordsTold DEF ScreenInv, WordsAreKept
<1> QED BY <1>1, ScreenInvInit, ScreenInvStep, PTL DEF ScreenSpec

(* What is in a target and shows the cursor it has from there is a target  *)
(* too only if it is a control; however deep on any page.                  *)
THEOREM CursorsMakeOneTarget == ScreenSpec => []OneTargetPerControl
<1>1. ScreenInv => OneTargetPerControl
  BY TargetsTold, LabelsTold DEF ScreenInv, OneTargetPerControl
<1> QED BY <1>1, ScreenInvInit, ScreenInvStep, PTL DEF ScreenSpec

===============================================================================
