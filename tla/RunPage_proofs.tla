---------------------------- MODULE RunPage_proofs -----------------------------
(***************************************************************************)
(* Watching a run, for any number of cases, steps and watchers: a stream   *)
(* ends once and with the verdict, has carried all its handler knew, and   *)
(* the timeline on the page only grows.                                    *)
(*                                                                         *)
(* The argument is about one sequence per watcher, Told(w): what is on the *)
(* wire, then what is to be written, then what was buffered. A write and   *)
(* the flush of the buffer leave it as it is; the bus, the second read and *)
(* the end of a run that was over add one event at its end.                *)
(***************************************************************************)
EXTENDS RunPage, FiniteSetTheorems, TLAPS

-------------------------------------------------------------------------------
(* The run. *)

Kinds == {"run_started", "case_started", "step_recorded", "case_finished", "run_finished"}
OfACase == {"case_started", "step_recorded", "case_finished"}
Statuses == Unsettled \cup Verdicts

Row == {e \in [type : Kinds, case : 0..NumCases, index : Nat, status : Statuses \cup {NoStatus}] :
            /\ e.type = "run_finished" => e.case = 0 /\ e.index = 0 /\ e.status \in Statuses
            /\ e.type \in OfACase => e.case \in Cases
            /\ e.type = "case_finished" => e.status \in Verdicts
            /\ e.type = "case_started" => e.status # NoStatus /\ e.index = 0}

(* The run: one row ahead of the bus at most; rows in the order of the     *)
(* cases; an end is the last row, and the document's verdict is in it.     *)
RunTypeOK ==
    /\ doc \in Statuses
    /\ log \in Seq(Row)
    /\ published \in Nat
    /\ published <= Len(log) /\ Len(log) <= published + 1

EndIsLast == \A i \in DOMAIN log : IsTerminal(log[i]) => i = Len(log)

InCaseOrder ==
    \A i, j \in DOMAIN log :
        i < j /\ ~IsTerminal(log[j]) =>
            /\ log[i].case <= log[j].case
            /\ log[i].type = "case_finished" => log[i].case < log[j].case
            /\ log[j].type = "case_started" => log[i].case < log[j].case

CasesWereStarted ==
    \A i \in DOMAIN log :
        log[i].type \in {"step_recorded", "case_finished"} =>
            \E k \in DOMAIN log :
                k < i /\ log[k].type = "case_started" /\ log[k].case = log[i].case

CasesStartRunning ==
    \A i \in DOMAIN log : log[i].type = "case_started" => log[i].status \notin Verdicts

VerdictIsLogged ==
    doc \in Verdicts =>
        log # <<>> /\ IsTerminal(log[Len(log)]) /\ log[Len(log)].status = doc

RunInv ==
    RunTypeOK /\ EndIsLast /\ InCaseOrder /\ CasesWereStarted /\ CasesStartRunning /\ VerdictIsLogged

LEMMA EventIsRow ==
    ASSUME NEW type \in Kinds, NEW c \in 0..NumCases, NEW index \in Nat,
           NEW s \in Statuses \cup {NoStatus},
           type = "run_finished" => c = 0 /\ index = 0 /\ s \in Statuses,
           type \in OfACase => c \in Cases,
           type = "case_finished" => s \in Verdicts,
           type = "case_started" => s # NoStatus /\ index = 0
    PROVE  Event(type, c, index, s) \in Row
BY DEF Event, Row

LEMMA RowType ==
    ASSUME NEW e \in Row
    PROVE  /\ e.type \in Kinds /\ e.case \in Nat /\ e.case \in 0..NumCases /\ e.index \in Nat
           /\ e.status \in Statuses \cup {NoStatus}
           /\ e.type = "run_finished" => e.case = 0 /\ e.index = 0 /\ e.status \in Statuses
           /\ e.type \in OfACase => e.case \in Cases
           /\ e.type = "case_finished" => e.status \in Verdicts
           /\ e.type = "case_started" => e.status # NoStatus /\ e.index = 0
BY NumCasesAssumption DEF Row

LEMMA AppendFacts ==
    ASSUME NEW S, NEW s \in Seq(S), NEW e \in S
    PROVE  /\ Append(s, e) \in Seq(S)
           /\ Len(Append(s, e)) = Len(s) + 1
           /\ DOMAIN Append(s, e) = 1..(Len(s) + 1)
           /\ DOMAIN s = 1..Len(s)
           /\ \A i \in DOMAIN s : Append(s, e)[i] = s[i]
           /\ Append(s, e)[Len(s) + 1] = e
           /\ Len(s) \in Nat
OBVIOUS

LEMMA RunInit == Init => RunInv
BY DEF Init, RunInv, RunTypeOK, EndIsLast, InCaseOrder, CasesWereStarted, CasesStartRunning,
       VerdictIsLogged,
       Statuses, Unsettled, Verdicts

(* What a new row must be like for the run to stay as it is.               *)
Fits(e) ==
    /\ ~Over
    /\ e \in Row
    /\ ~IsTerminal(e) => \A i \in DOMAIN log :
          /\ log[i].case <= e.case
          /\ log[i].type = "case_finished" => log[i].case < e.case
          /\ e.type = "case_started" => log[i].case < e.case
    /\ e.type = "case_started" => e.status \notin Verdicts
    /\ e.type \in {"step_recorded", "case_finished"} =>
          \E k \in DOMAIN log : log[k].type = "case_started" /\ log[k].case = e.case

LEMMA WritesKeep ==
    ASSUME RunInv, NEW e, Writes(e), Fits(e), doc' \in Statuses,
           doc' \in Verdicts => IsTerminal(e) /\ e.status = doc'
    PROVE  RunInv'
<1> DEFINE longer == Append(log, e)
<1> USE DEF RunInv, RunTypeOK
<1>1. /\ longer \in Seq(Row) /\ Len(longer) = Len(log) + 1
      /\ DOMAIN longer = 1..(Len(log) + 1) /\ DOMAIN log = 1..Len(log)
      /\ \A i \in DOMAIN log : longer[i] = log[i]
      /\ longer[Len(log) + 1] = e
      /\ Len(log) \in Nat
  BY AppendFacts DEF Fits
<1>2. log' = longer /\ published' = published /\ published = Len(log)
  BY DEF Writes
<1>3. \A i \in DOMAIN log : ~IsTerminal(log[i])
  BY <1>1 DEF Fits, Over, EndIsLast, Last
<1> HIDE DEF longer
<1>4. RunTypeOK'
  BY <1>1, <1>2
<1>5. EndIsLast'
  BY <1>1, <1>2, <1>3 DEF EndIsLast
<1>6. InCaseOrder'
  BY <1>1, <1>2, <1>3 DEF InCaseOrder, Fits
<1>7. CasesWereStarted'
  BY <1>1, <1>2 DEF CasesWereStarted, Fits
<1>8. VerdictIsLogged'
  BY <1>1, <1>2 DEF VerdictIsLogged
<1>9. CasesStartRunning'
  BY <1>1, <1>2 DEF CasesStartRunning, Fits
<1> QED BY <1>4, <1>5, <1>6, <1>7, <1>8, <1>9

LEMMA NotOver ==
    ASSUME RunTypeOK, log # <<>>, Last(log).type # "run_finished"
    PROVE  ~Over /\ Len(log) \in DOMAIN log /\ Last(log) = log[Len(log)] /\ Last(log) \in Row
BY DEF Over, IsTerminal, Last, RunTypeOK

LEMMA StartsKeep == ASSUME RunInv, RunStarts PROVE RunInv'
<1> DEFINE e == Event("run_started", 0, 0, NoStatus)
<1>1. e \in Row /\ e.type = "run_started"
  BY EventIsRow, NumCasesAssumption DEF Event, Kinds, OfACase
<1>2. Fits(e)
  BY <1>1 DEF RunStarts, Fits, Over
<1>3. doc' \in Statuses /\ doc' \notin Verdicts
  BY DEF RunStarts, Statuses, Unsettled, Verdicts
<1> QED BY <1>2, <1>3, WritesKeep DEF RunStarts

LEMMA CaseStartsKeep == ASSUME RunInv, CaseStarts PROVE RunInv'
<1> DEFINE e == Event("case_started", Last(log).case + 1, 0, "running")
<1>1. /\ ~Over /\ Len(log) \in DOMAIN log /\ Last(log) = log[Len(log)] /\ Last(log) \in Row
      /\ \A i \in DOMAIN log : i \in Nat /\ i <= Len(log) /\ log[i] \in Row
      /\ doc \notin Verdicts /\ doc \in Statuses
  BY NotOver DEF CaseStarts, RunInv, RunTypeOK, VerdictIsLogged, IsTerminal, Last
<1>2. Last(log).case \in Nat /\ Last(log).case + 1 \in Cases
  BY <1>1, RowType, NumCasesAssumption DEF CaseStarts, Cases
<1>3. e \in Row
  BY <1>2, EventIsRow, NumCasesAssumption DEF Kinds, OfACase, Statuses, Unsettled, Cases, NoStatus
<1>4. e.type = "case_started" /\ e.case = Last(log).case + 1 /\ e.status \notin Verdicts
  BY DEF Event, Verdicts
<1>5. ASSUME NEW i \in DOMAIN log PROVE log[i].case < e.case
  <2>1. log[i].case \in Nat
    BY <1>1, RowType
  <2>2. log[i].case <= Last(log).case
    BY <1>1, <1>2, <2>1 DEF RunInv, InCaseOrder, CaseStarts, IsTerminal
  <2> QED BY <2>1, <2>2, <1>2, <1>4
<1>6. Fits(e)
  <2>1. ASSUME NEW i \in DOMAIN log PROVE log[i].case <= e.case
    BY <1>5, <1>1, <1>2, <1>4, RowType
  <2> HIDE DEF e
  <2> QED BY <1>1, <1>3, <1>4, <1>5, <2>1 DEF Fits
<1> QED BY <1>1, <1>6, WritesKeep DEF CaseStarts

(* A row of the case that is open.                                         *)
LEMMA OpenCase ==
    ASSUME RunInv, CaseIsOpen
    PROVE  /\ Last(log).case \in Cases
           /\ Last(log).index \in Nat
           /\ doc \notin Verdicts /\ doc \in Statuses
           /\ \A e \in Row : e.case = Last(log).case
                             /\ e.type \in {"step_recorded", "case_finished"} => Fits(e)
<1>1. /\ ~Over /\ Len(log) \in DOMAIN log /\ Last(log) = log[Len(log)] /\ Last(log) \in Row
      /\ \A i \in DOMAIN log : i \in Nat /\ i <= Len(log) /\ log[i] \in Row
      /\ doc \notin Verdicts /\ doc \in Statuses
  BY NotOver DEF CaseIsOpen, RunInv, RunTypeOK, VerdictIsLogged, IsTerminal, Last
<1>2. Last(log).case \in Cases /\ Last(log).index \in Nat /\ Last(log).case \in Nat
  BY <1>1, RowType DEF CaseIsOpen, OfACase
<1>3. \E k \in DOMAIN log : log[k].type = "case_started" /\ log[k].case = Last(log).case
  BY <1>1 DEF RunInv, CasesWereStarted, CaseIsOpen
<1>4. ASSUME NEW i \in DOMAIN log
      PROVE  log[i].case <= Last(log).case
             /\ (log[i].type = "case_finished" => log[i].case < Last(log).case)
  <2>1. log[i].case \in Nat
    BY <1>1, RowType
  <2> QED BY <1>1, <1>2, <2>1 DEF RunInv, InCaseOrder, CaseIsOpen, IsTerminal
<1>5. ASSUME NEW e \in Row, e.case = Last(log).case, e.type \in {"step_recorded", "case_finished"}
      PROVE  Fits(e)
  BY <1>1, <1>3, <1>4, <1>5 DEF Fits
<1> QED BY <1>1, <1>2, <1>5

LEMMA StepsKeep == ASSUME RunInv, StepIsRecorded PROVE RunInv'
<1> DEFINE e == Event("step_recorded", Last(log).case, Last(log).index + 1, NoStatus)
<1>1. CaseIsOpen
  BY DEF StepIsRecorded
<1>2. Last(log).case \in 0..NumCases /\ Last(log).case \in Cases /\ Last(log).index + 1 \in Nat
  BY <1>1, OpenCase, NumCasesAssumption DEF Cases
<1>3. e \in Row /\ e.type = "step_recorded" /\ e.case = Last(log).case
  <2>1. e \in Row
    BY <1>2, EventIsRow DEF Kinds, OfACase
  <2> QED BY <2>1 DEF Event
<1>4. Fits(e)
  BY <1>1, <1>3, OpenCase
<1> QED BY <1>1, <1>4, OpenCase, WritesKeep DEF StepIsRecorded

LEMMA FinishesKeep == ASSUME RunInv, CaseFinishes PROVE RunInv'
<1>1. CaseIsOpen /\ UNCHANGED doc
  BY DEF CaseFinishes
<1>2. PICK s \in {"passed", "failed"} : Writes(Event("case_finished", Last(log).case, 0, s))
  BY DEF CaseFinishes
<1> DEFINE e == Event("case_finished", Last(log).case, 0, s)
<1>3. Last(log).case \in 0..NumCases /\ Last(log).case \in Cases
  BY <1>1, OpenCase, NumCasesAssumption DEF Cases
<1>4. e \in Row /\ e.type = "case_finished" /\ e.case = Last(log).case
  <2>1. e \in Row
    BY <1>3, EventIsRow DEF Kinds, OfACase, Statuses, Verdicts
  <2> QED BY <2>1 DEF Event
<1>5. Fits(e)
  BY <1>1, <1>4, OpenCase
<1> QED BY <1>1, <1>2, <1>5, OpenCase, WritesKeep

LEMMA EndKeeps ==
    ASSUME RunInv, ~Over, NEW s \in Verdicts, Writes(RunFinished(s)), doc' \in {s, doc}
    PROVE  RunInv'
<1>1. RunFinished(s) \in Row /\ RunFinished(s).type = "run_finished" /\ RunFinished(s).status = s
  <2>1. RunFinished(s) \in Row
    BY EventIsRow, NumCasesAssumption DEF RunFinished, Kinds, OfACase, Statuses
  <2> QED BY <2>1 DEF RunFinished, Event
<1>2. Fits(RunFinished(s))
  BY <1>1 DEF Fits, IsTerminal
<1>3. doc \in Statuses /\ doc \notin Verdicts
  BY DEF RunInv, RunTypeOK, VerdictIsLogged, Over, Last
<1> QED BY <1>1, <1>2, <1>3, WritesKeep DEF IsTerminal, Statuses

LEMMA PublishKeeps == ASSUME RunInv, Publish PROVE RunInv'
BY DEF RunInv, RunTypeOK, EndIsLast, InCaseOrder, CasesWereStarted, CasesStartRunning,
       VerdictIsLogged, Publish

LEMMA RunStep == ASSUME RunInv, [Next]_streamVars PROVE RunInv'
<1>1. CASE RunFinishes
  <2>1. ~Over
    BY <1>1, NotOver DEF RunFinishes, RunInv
  <2>2. RunVerdict \in Verdicts
    BY DEF RunVerdict, Verdicts
  <2> QED BY <1>1, <2>1, <2>2, EndKeeps DEF RunFinishes
<1>2. CASE RunCrashes
  BY <1>2, EndKeeps DEF RunCrashes, Verdicts
<1>3. CASE UNCHANGED run
  BY <1>3 DEF run, RunInv, RunTypeOK, EndIsLast, InCaseOrder, CasesWereStarted, CasesStartRunning,
       VerdictIsLogged
<1>4. ASSUME NEW w \in Watchers, Connect(w) \/ Reading(w) \/ Serving(w) \/ Leave(w) \/ Abort(w)
      PROVE  UNCHANGED run
  BY <1>4 DEF Connect, Reading, CasesAreRead, Subscribe, StepsAreRead, Serving, Write,
              EndOfOverRun, GoLive, Recheck, Close, Leave, Abort
<1>5. CASE UNCHANGED streamVars
  BY <1>3, <1>5 DEF streamVars
<1> QED
  BY <1>1, <1>2, <1>3, <1>4, <1>5, StartsKeep, CaseStartsKeep, StepsKeep, FinishesKeep, PublishKeeps
     DEF Next, Run

(* The run only ever adds to what it has, and nothing after its end.       *)
Grown ==
    /\ \A i \in DOMAIN log : i \in DOMAIN log' /\ log'[i] = log[i]
    /\ published <= published'
    /\ Over => log' = log /\ doc' = doc
    /\ doc \in Verdicts => doc' = doc

LEMMA LogGrows == ASSUME RunInv, [Next]_streamVars PROVE Grown
<1> USE DEF RunInv, RunTypeOK
<1>1. CASE UNCHANGED run
  BY <1>1 DEF run, Grown
<1>2. CASE Publish
  BY <1>2 DEF Publish, Grown
<1>3. ASSUME NEW e, Writes(e), ~Over, doc' = doc \/ doc \notin Verdicts PROVE Grown
  <2>1. \A i \in DOMAIN log : i \in DOMAIN Append(log, e) /\ Append(log, e)[i] = log[i]
    OBVIOUS
  <2> QED BY <1>3, <2>1 DEF Writes, Grown
<1>4. ~Over => doc \notin Verdicts
  BY DEF Over, VerdictIsLogged, Last
<1>5. ASSUME NEW w \in Watchers, Connect(w) \/ Reading(w) \/ Serving(w) \/ Leave(w) \/ Abort(w)
      PROVE  UNCHANGED run
  BY <1>5 DEF Connect, Reading, CasesAreRead, Subscribe, StepsAreRead, Serving, Write,
              EndOfOverRun, GoLive, Recheck, Close, Leave, Abort
<1>6. CASE RunStarts
  <2>1. ~Over
    BY <1>6 DEF RunStarts, Over
  <2> QED BY <2>1, <1>3, <1>4, <1>6 DEF RunStarts
<1>7. CASE CaseStarts \/ StepIsRecorded \/ CaseFinishes
  <2>1. ~Over
    BY <1>7, NotOver DEF CaseStarts, StepIsRecorded, CaseFinishes, CaseIsOpen
  <2> QED BY <2>1, <1>3, <1>7 DEF CaseStarts, StepIsRecorded, CaseFinishes
<1>8. CASE RunFinishes \/ RunCrashes
  <2>1. ~Over
    BY <1>8, NotOver DEF RunFinishes, RunCrashes
  <2> QED BY <2>1, <1>3, <1>4, <1>8 DEF RunFinishes, RunCrashes
<1>9. CASE UNCHANGED streamVars
  BY <1>1, <1>9 DEF streamVars
<1> QED BY <1>1, <1>2, <1>5, <1>6, <1>7, <1>8, <1>9 DEF Next, Run

-------------------------------------------------------------------------------
(* Sequences of rows. *)

(* One sequence after another after a third.                               *)
InPieces(T, a, b, c) ==
    /\ T \in Seq(Row) /\ Len(T) \in Nat
    /\ Len(T) = Len(a) + Len(b) + Len(c)
    /\ DOMAIN T = 1..Len(T)
    /\ \A i \in DOMAIN a : i \in DOMAIN T /\ T[i] = a[i]
    /\ \A i \in DOMAIN b : Len(a) + i \in DOMAIN T /\ T[Len(a) + i] = b[i]
    /\ \A i \in DOMAIN c :
          Len(a) + Len(b) + i \in DOMAIN T /\ T[Len(a) + Len(b) + i] = c[i]
    /\ \A i \in DOMAIN T : T[i] \in Row
    /\ \A i \in DOMAIN T :
          \/ i \in DOMAIN a /\ T[i] = a[i]
          \/ \E k \in DOMAIN b : i = Len(a) + k /\ T[i] = b[k]
          \/ \E k \in DOMAIN c : i = Len(a) + Len(b) + k /\ T[i] = c[k]

LEMMA Catenates ==
    ASSUME NEW a \in Seq(Row), NEW b \in Seq(Row), NEW c \in Seq(Row)
    PROVE  InPieces(a \o b \o c, a, b, c)
<1> DEFINE T == a \o b \o c
           n == Len(a)
           m == Len(b)
           l == Len(c)
<1>1. /\ T \in Seq(Row)
      /\ Len(T) = n + m + l
      /\ DOMAIN T = 1..(n + m + l)
      /\ \A i \in DOMAIN a : T[i] = a[i]
      /\ \A i \in DOMAIN b : T[n + i] = b[i]
      /\ \A i \in DOMAIN c : T[n + m + i] = c[i]
  OBVIOUS
<1>2. /\ n \in Nat /\ m \in Nat /\ l \in Nat
      /\ DOMAIN a = 1..n /\ DOMAIN b = 1..m /\ DOMAIN c = 1..l
  OBVIOUS
<1> HIDE DEF T, n, m, l
<1>3. Len(T) \in Nat /\ DOMAIN T = 1..Len(T) /\ \A i \in DOMAIN T : T[i] \in Row
  BY <1>1, <1>2
<1>4. /\ \A i \in DOMAIN a : i \in DOMAIN T
      /\ \A i \in DOMAIN b : n + i \in DOMAIN T
      /\ \A i \in DOMAIN c : n + m + i \in DOMAIN T
  BY <1>1, <1>2
<1>5. ASSUME NEW i \in DOMAIN T
      PROVE  \/ i \in DOMAIN a /\ T[i] = a[i]
             \/ \E k \in DOMAIN b : i = n + k /\ T[i] = b[k]
             \/ \E k \in DOMAIN c : i = n + m + k /\ T[i] = c[k]
  <2>1. CASE i <= n
    BY <1>1, <1>2, <2>1
  <2>2. CASE n < i /\ i <= n + m
    <3>1. i - n \in DOMAIN b /\ i = n + (i - n)
      BY <1>1, <1>2, <2>2
    <3>2. T[i] = b[i - n]
      BY <1>1, <3>1
    <3> QED BY <3>1, <3>2
  <2>3. CASE n + m < i
    <3>1. i - (n + m) \in DOMAIN c /\ i = n + m + (i - (n + m))
      BY <1>1, <1>2, <2>3
    <3>2. T[i] = c[i - (n + m)]
      BY <1>1, <3>1
    <3> QED BY <3>1, <3>2
  <2> QED BY <1>1, <1>2, <2>1, <2>2, <2>3
<1>6. InPieces(T, a, b, c)
  BY <1>1, <1>3, <1>4, <1>5, Zenon DEF InPieces, n, m, l
<1> QED BY <1>6 DEF T

LEMMA HeadMoves ==
    ASSUME NEW a \in Seq(Row), NEW b \in Seq(Row), NEW c \in Seq(Row), b # <<>>
    PROVE  Append(a, Head(b)) \o Tail(b) \o c = a \o b \o c
<1> DEFINE s == Append(a, Head(b)) \o Tail(b)
           t == a \o b
<1>1. /\ s \in Seq(Row) /\ t \in Seq(Row) /\ Len(s) = Len(t)
  OBVIOUS
<1>2. ASSUME NEW i \in 1..Len(t) PROVE s[i] = t[i]
  <2>1. CASE i <= Len(a)
    BY <2>1
  <2>2. CASE i = Len(a) + 1
    BY <2>2
  <2>3. CASE Len(a) + 1 < i
    <3>1. i - (Len(a) + 1) \in 1..Len(Tail(b)) /\ i - Len(a) \in 1..Len(b)
      BY <2>3
    <3>2. s[i] = Tail(b)[i - (Len(a) + 1)]
      BY <2>3, <3>1
    <3>3. t[i] = b[i - Len(a)]
      BY <2>3, <3>1
    <3> QED BY <3>1, <3>2, <3>3
  <2> QED BY <2>1, <2>2, <2>3
<1>3. s = t
  <2> HIDE DEF s, t
  <2> QED BY <1>1, <1>2
<1> QED BY <1>3

LEMMA AppendsLast ==
    ASSUME NEW a \in Seq(Row), NEW b \in Seq(Row), NEW c \in Seq(Row), NEW e \in Row
    PROVE  a \o b \o Append(c, e) = Append(a \o b \o c, e)
OBVIOUS

LEMMA AppendsMid ==
    ASSUME NEW a \in Seq(Row), NEW b \in Seq(Row), NEW e \in Row
    PROVE  a \o Append(b, e) \o <<>> = Append(a \o b \o <<>>, e)
OBVIOUS

LEMMA Flushes ==
    ASSUME NEW a \in Seq(Row), NEW b \in Seq(Row)
    PROVE  a \o b \o <<>> = a \o <<>> \o b
OBVIOUS

LEMMA EndsIt ==
    ASSUME NEW a \in Seq(Row), NEW e \in Row
    PROVE  a \o <<e>> \o <<>> = Append(a, e)
OBVIOUS

LEMMA Empties ==
    ASSUME NEW a \in Seq(Row)
    PROVE  a \o <<>> \o <<>> = a /\ <<>> \o a \o <<>> = a
OBVIOUS

-------------------------------------------------------------------------------
(* Where a handler stands, what it has read, what it replays. *)

Places == {"idle", "reading", "replaying", "rechecking", "live", "closing", "closed"}

StreamTypeOK ==
    /\ pc \in [Watchers -> Places]
    /\ seen \in [Watchers -> [status : Statuses \cup {NoStatus}, cases : Nat \cup {Unread},
                              steps : [Cases -> Nat \cup {Unread}]]]
    /\ buffered \in [Watchers -> Seq(Row)]
    /\ out \in [Watchers -> Seq(Row)]
    /\ wire \in [Watchers -> Seq(Row)]
    /\ gone \subseteq Watchers
    /\ since \in [Watchers -> Nat]

Attached(w) == pc[w] \in {"replaying", "rechecking", "live", "closing", "closed"}

(* Where the handler stands, what it has read and what is queued.          *)
ReadsOK(w) ==
    /\ seen[w].cases <= Len(log) /\ \A c \in Cases : seen[w].steps[c] <= Len(log)
    /\ \A c \in Cases : seen[w].steps[c] # Unread => SeesCase(w, c)
    /\ pc[w] # "idle" => seen[w].status \in Statuses
    /\ seen[w].status \in Verdicts => doc = seen[w].status
    /\ since[w] <= published
    /\ Attached(w) /\ seen[w].status \in Verdicts => Len(log) <= since[w] + 1

QueuesOK(w) ==
    /\ ~Attached(w) => wire[w] = <<>> /\ out[w] = <<>>
    /\ pc[w] # "replaying" => buffered[w] = <<>>
    /\ pc[w] = "closed" => out[w] = <<>>

Same(w) ==
    /\ pc'[w] = pc[w] /\ seen'[w] = seen[w] /\ buffered'[w] = buffered[w]
    /\ out'[w] = out[w] /\ wire'[w] = wire[w] /\ since'[w] = since[w]
    /\ w \in gone => w \in gone'

Acts(w) == Connect(w) \/ Reading(w) \/ Serving(w) \/ Leave(w) \/ Abort(w)

LEMMA ActsKeepRun == ASSUME NEW w, Acts(w) PROVE UNCHANGED run
BY DEF Acts, Connect, Reading, CasesAreRead, Subscribe, StepsAreRead, Serving, Write,
       EndOfOverRun, GoLive, Recheck, Close, Leave, Abort

LEMMA OthersStay ==
    ASSUME StreamTypeOK, NEW w \in Watchers, NEW x \in Watchers, x # w, Acts(x)
    PROVE  Same(w)
<1> USE DEF StreamTypeOK, Same
<1>1. CASE Connect(x) \/ Reading(x)
  BY <1>1 DEF Connect, Reading, CasesAreRead, Subscribe, StepsAreRead
<1>2. CASE Serving(x) \/ Leave(x) \/ Abort(x)
  BY <1>2 DEF Serving, Write, EndOfOverRun, GoLive, Recheck, Close, Leave, Abort
<1> QED BY <1>1, <1>2 DEF Acts

(* A step is somebody's, the bus's, or leaves every watcher where it is.   *)
LEMMA StepsOf ==
    ASSUME StreamTypeOK, [Next]_streamVars, NEW w \in Watchers
    PROVE  \/ Publish
           \/ Same(w) /\ published' = published
           \/ Connect(w) \/ Reading(w) \/ Serving(w) \/ Abort(w)
<1>1. CASE UNCHANGED streamVars
  BY <1>1 DEF streamVars, run, streams, Same
<1>2. CASE Run
  BY <1>2 DEF Run, RunStarts, CaseStarts, StepIsRecorded, CaseFinishes, RunFinishes, RunCrashes,
              Writes, streams, Same
<1>3. ASSUME NEW x \in Watchers, x # w, Acts(x) PROVE Same(w) /\ published' = published
  BY <1>3, OthersStay, ActsKeepRun DEF run
<1>4. CASE Leave(w)
  BY <1>4 DEF Leave, Same, run, StreamTypeOK
<1> QED BY <1>1, <1>2, <1>3, <1>4 DEF Next, Acts

LEMMA StatusReadType ==
    ASSUME RunInv, NEW w \in Watchers, NEW c \in Cases
    PROVE  /\ StatusRead(w, c) \in Statuses
           /\ Rows("case_finished", c, seen[w].cases) = {} => StatusRead(w, c) = "running"
           /\ \A i \in Rows("case_finished", c, seen[w].cases) : StatusRead(w, c) = log[i].status
<1> DEFINE ends == Rows("case_finished", c, seen[w].cases)
<1>1. CASE ends = {}
  BY <1>1 DEF StatusRead, Statuses, Unsettled
<1>2. CASE ends # {}
  <2>1. PICK k \in ends : StatusRead(w, c) = log[k].status
    BY <1>2 DEF StatusRead
  <2>2. \A i \in ends : i \in DOMAIN log /\ log[i] \in Row /\ i \in Nat
                        /\ log[i].type = "case_finished" /\ log[i].case = c
    BY DEF Rows, RunInv, RunTypeOK
  <2>3. \A i \in ends : ~(i < k) /\ ~(k < i)
    BY <2>2, RowType DEF RunInv, InCaseOrder, IsTerminal, Cases
  <2>4. \A i \in ends : i = k
    BY <2>2, <2>3
  <2> QED BY <2>1, <2>2, <2>4, <1>2, RowType DEF Statuses
<1> QED BY <1>1, <1>2

LEMMA RetoldType ==
    ASSUME RunInv, NEW w \in Watchers, NEW i \in DOMAIN log
    PROVE  /\ Retold(w, i) \in Row
           /\ Retold(w, i).type = log[i].type /\ Retold(w, i).case = log[i].case
           /\ Retold(w, i).index = log[i].index
           /\ log[i].type # "case_started" => Retold(w, i) = log[i]
           /\ log[i].type = "case_started" => Retold(w, i).status = StatusRead(w, log[i].case)
<1>1. log[i] \in Row
  BY DEF RunInv, RunTypeOK
<1>2. CASE log[i].type # "case_started"
  BY <1>1, <1>2 DEF Retold
<1>3. CASE log[i].type = "case_started"
  <2>1. log[i].case \in Cases /\ log[i].case \in 0..NumCases
    BY <1>1, <1>3, RowType DEF OfACase
  <2>2. StatusRead(w, log[i].case) \in Statuses
    BY <2>1, StatusReadType
  <2>3. StatusRead(w, log[i].case) # NoStatus
    BY <2>2 DEF Statuses, Unsettled, Verdicts, NoStatus
  <2> DEFINE e == Event("case_started", log[i].case, 0, StatusRead(w, log[i].case))
  <2>4. e \in Row
    BY <2>1, <2>2, <2>3, EventIsRow DEF Kinds, OfACase
  <2>5. Retold(w, i) = e
    BY <1>3 DEF Retold
  <2>6. e.type = "case_started" /\ e.case = log[i].case
        /\ e.status = StatusRead(w, log[i].case) /\ e.index = 0
    BY DEF Event
  <2>7. log[i].index = 0
    BY <1>1, <1>3, RowType
  <2> QED BY <1>3, <2>4, <2>5, <2>6, <2>7
<1> QED BY <1>2, <1>3

LEMMA ReplayedType ==
    ASSUME RunInv, NEW w \in Watchers
    PROVE  /\ Replayed(w) \subseteq DOMAIN log
           /\ IsFiniteSet(Replayed(w))
           /\ Cardinality(Replayed(w)) \in Nat
<1>1. Replayed(w) \subseteq DOMAIN log
  BY DEF Replayed, Rows
<1>2. DOMAIN log = 1..Len(log) /\ Len(log) \in Nat
  BY DEF RunInv, RunTypeOK
<1>3. IsFiniteSet(DOMAIN log)
  BY <1>2, FS_Interval
<1>4. IsFiniteSet(Replayed(w))
  BY <1>1, <1>3, FS_Subset
<1> QED BY <1>1, <1>4, FS_CardinalityType

(* An ordered replay of n rows has them all.                               *)
LEMMA ReplayIsWhole ==
    ASSUME RunInv, NEW w \in Watchers,
           NEW rows \in [1..Cardinality(Replayed(w)) -> Replayed(w)], InOrder(rows)
    PROVE  \A i \in Replayed(w) : \E j \in DOMAIN rows : rows[j] = i
<1> DEFINE S == Replayed(w)
           n == Cardinality(S)
<1>1. S \subseteq Nat /\ IsFiniteSet(S) /\ n \in Nat
  BY ReplayedType DEF RunInv, RunTypeOK
<1> SUFFICES ASSUME NEW i \in S, \A j \in DOMAIN rows : rows[j] # i PROVE FALSE
  OBVIOUS
<1>2. rows \in [1..n -> S \ {i}]
  OBVIOUS
<1>3. IsFiniteSet(S \ {i}) /\ Cardinality(S \ {i}) = n - 1
  BY <1>1, FS_RemoveElement
<1>4. IsFiniteSet(1..n) /\ Cardinality(1..n) = n
  BY <1>1, FS_Interval
<1>5. \E j, k \in 1..n : j # k /\ rows[j] = rows[k]
  <2> HIDE DEF n, S
  <2>1. n - 1 < n
    BY <1>1
  <2> QED BY <1>2, <1>3, <1>4, <2>1, FS_PigeonHole
<1>6. PICK j \in 1..n, k \in 1..n : j # k /\ rows[j] = rows[k]
  BY <1>5
<1>7. rows[j] \in Nat /\ rows[k] \in Nat /\ (j < k \/ k < j)
  BY <1>1, <1>6
<1> QED BY <1>6, <1>7 DEF InOrder

LEMMA EndRow ==
    ASSUME NEW s \in Statuses
    PROVE  /\ RunFinished(s) \in Row /\ IsTerminal(RunFinished(s))
           /\ RunFinished(s).type = "run_finished" /\ RunFinished(s).status = s
           /\ RunFinished(s).case = 0 /\ RunFinished(s).index = 0
<1>1. RunFinished(s) \in Row
  BY EventIsRow, NumCasesAssumption DEF RunFinished, Kinds, OfACase
<1> QED BY <1>1 DEF RunFinished, Event, IsTerminal

LEMMA StreamsInit == Init => StreamTypeOK /\ \A w \in Watchers : ReadsOK(w) /\ QueuesOK(w)
<1> SUFFICES ASSUME Init PROVE StreamTypeOK /\ \A w \in Watchers : ReadsOK(w) /\ QueuesOK(w)
  OBVIOUS
<1>1. NothingSeen \in [status : Statuses \cup {NoStatus}, cases : Nat \cup {Unread},
                       steps : [Cases -> Nat \cup {Unread}]]
  BY DEF NothingSeen
<1>2. StreamTypeOK
  BY <1>1 DEF Init, StreamTypeOK, Places
<1>3. ASSUME NEW w \in Watchers PROVE ReadsOK(w) /\ QueuesOK(w)
  BY DEF Init, ReadsOK, QueuesOK, NothingSeen, Unread, NoStatus, Verdicts, Attached
<1> QED BY <1>2, <1>3

LEMMA SeenType ==
    ASSUME StreamTypeOK, NEW w \in Watchers
    PROVE  /\ seen[w].status \in Statuses \cup {NoStatus}
           /\ seen[w].cases \in Nat \cup {Unread}
           /\ seen[w].steps \in [Cases -> Nat \cup {Unread}]
BY DEF StreamTypeOK

LEMMA ConnectTypes ==
    ASSUME RunInv, StreamTypeOK, NEW w \in Watchers, Connect(w)
    PROVE  StreamTypeOK'
<1>1. [seen[w] EXCEPT !.status = doc] \in
        [status : Statuses \cup {NoStatus}, cases : Nat \cup {Unread},
         steps : [Cases -> Nat \cup {Unread}]]
  BY DEF StreamTypeOK, RunInv, RunTypeOK
<1>2. seen' = [seen EXCEPT ![w] = [seen[w] EXCEPT !.status = doc]]
  BY DEF Connect
<1>3. pc' \in [Watchers -> Places]
  BY DEF StreamTypeOK, Connect, Places
<1>4. seen' \in [Watchers -> [status : Statuses \cup {NoStatus}, cases : Nat \cup {Unread},
                              steps : [Cases -> Nat \cup {Unread}]]]
  BY <1>1, <1>2 DEF StreamTypeOK
<1> QED BY <1>3, <1>4 DEF StreamTypeOK, Connect

LEMMA ReadTypes ==
    ASSUME RunInv, StreamTypeOK, NEW w \in Watchers, NEW c \in Cases,
           CasesAreRead(w) \/ StepsAreRead(w, c)
    PROVE  StreamTypeOK'
<1>1. Len(log) \in Nat
  BY DEF RunInv, RunTypeOK
<1>2. CASE CasesAreRead(w)
  <2>1. [seen[w] EXCEPT !.cases = Len(log)] \in
          [status : Statuses \cup {NoStatus}, cases : Nat \cup {Unread},
           steps : [Cases -> Nat \cup {Unread}]]
    BY <1>1 DEF StreamTypeOK
  <2>2. seen' = [seen EXCEPT ![w] = [seen[w] EXCEPT !.cases = Len(log)]]
    BY <1>2 DEF CasesAreRead
  <2>3. seen' \in [Watchers -> [status : Statuses \cup {NoStatus}, cases : Nat \cup {Unread},
                                steps : [Cases -> Nat \cup {Unread}]]]
    BY <2>1, <2>2 DEF StreamTypeOK
  <2> QED BY <1>2, <2>3 DEF StreamTypeOK, CasesAreRead
<1>3. CASE StepsAreRead(w, c)
  <2>1. [seen[w].steps EXCEPT ![c] = Len(log)] \in [Cases -> Nat \cup {Unread}]
    BY <1>1, SeenType
  <2>2. [seen[w] EXCEPT !.steps = [seen[w].steps EXCEPT ![c] = Len(log)]] \in
          [status : Statuses \cup {NoStatus}, cases : Nat \cup {Unread},
           steps : [Cases -> Nat \cup {Unread}]]
    <3> DEFINE steps == [seen[w].steps EXCEPT ![c] = Len(log)]
    <3>1. seen[w] \in [status : Statuses \cup {NoStatus}, cases : Nat \cup {Unread},
                       steps : [Cases -> Nat \cup {Unread}]]
      BY DEF StreamTypeOK
    <3>2. steps \in [Cases -> Nat \cup {Unread}]
      BY <2>1
    <3> HIDE DEF steps
    <3>3. [seen[w] EXCEPT !.steps = steps] \in
            [status : Statuses \cup {NoStatus}, cases : Nat \cup {Unread},
             steps : [Cases -> Nat \cup {Unread}]]
      BY <3>1, <3>2
    <3> QED BY <3>3 DEF steps
  <2>3. seen' = [seen EXCEPT ![w] =
                   [seen[w] EXCEPT !.steps = [seen[w].steps EXCEPT ![c] = Len(log)]]]
    BY <1>3 DEF StepsAreRead, StreamTypeOK
  <2> DEFINE read == [seen[w] EXCEPT !.steps = [seen[w].steps EXCEPT ![c] = Len(log)]]
  <2> HIDE DEF read
  <2>4. seen' \in [Watchers -> [status : Statuses \cup {NoStatus}, cases : Nat \cup {Unread},
                                steps : [Cases -> Nat \cup {Unread}]]]
    BY <2>2, <2>3 DEF StreamTypeOK, read
  <2> QED BY <1>3, <2>4 DEF StreamTypeOK, StepsAreRead
<1> QED BY <1>2, <1>3

LEMMA SubscribeTypes ==
    ASSUME RunInv, StreamTypeOK, NEW w \in Watchers, Subscribe(w)
    PROVE  StreamTypeOK'
<1>1. PICK rows \in [1..Cardinality(Replayed(w)) -> Replayed(w)] :
         out' = [out EXCEPT ![w] = [i \in DOMAIN rows |-> Retold(w, rows[i])]]
  BY DEF Subscribe
<1> DEFINE told == [i \in DOMAIN rows |-> Retold(w, rows[i])]
<1>2. told \in Seq(Row)
  <2>1. Cardinality(Replayed(w)) \in Nat /\ Replayed(w) \subseteq DOMAIN log
    BY ReplayedType
  <2>2. \A i \in DOMAIN rows : Retold(w, rows[i]) \in Row
    BY <2>1, RetoldType
  <2>3. told \in [1..Cardinality(Replayed(w)) -> Row]
    BY <2>2
  <2> QED BY <2>1, <2>3
<1>3. out' \in [Watchers -> Seq(Row)]
  BY <1>1, <1>2 DEF StreamTypeOK
<1>4. published \in Nat
  BY DEF RunInv, RunTypeOK
<1>5. pc' \in [Watchers -> Places]
  BY DEF StreamTypeOK, Subscribe, Places
<1> QED BY <1>3, <1>4, <1>5 DEF StreamTypeOK, Subscribe

LEMMA ServingTypes ==
    ASSUME RunInv, StreamTypeOK, NEW w \in Watchers, ReadsOK(w),
           Serving(w) \/ Leave(w) \/ Abort(w)
    PROVE  StreamTypeOK'
<1> USE DEF StreamTypeOK
<1>1. CASE Write(w)
  <2>1. Head(out[w]) \in Row /\ Tail(out[w]) \in Seq(Row)
    BY <1>1 DEF Write
  <2>2. Append(wire[w], Head(out[w])) \in Seq(Row)
    BY <2>1
  <2>3. wire' \in [Watchers -> Seq(Row)]
    BY <1>1, <2>2 DEF Write
  <2>4. out' \in [Watchers -> Seq(Row)]
    BY <1>1, <2>1 DEF Write
  <2> QED BY <1>1, <2>3, <2>4 DEF Write
<1>2. CASE EndOfOverRun(w)
  <2>1. seen[w].status \in Statuses
    BY <1>2 DEF EndOfOverRun, ReplayIsDone, ReadsOK
  <2>2. <<RunFinished(seen[w].status)>> \in Seq(Row)
    BY <2>1, EndRow
  <2>3. out' \in [Watchers -> Seq(Row)] /\ buffered' \in [Watchers -> Seq(Row)]
    BY <1>2, <2>2 DEF EndOfOverRun
  <2>4. pc' \in [Watchers -> Places]
    BY <1>2 DEF EndOfOverRun, Places
  <2> QED BY <1>2, <2>3, <2>4 DEF EndOfOverRun
<1>3. CASE GoLive(w)
  <2>1. out' \in [Watchers -> Seq(Row)] /\ buffered' \in [Watchers -> Seq(Row)]
    BY <1>3 DEF GoLive
  <2>2. pc' \in [Watchers -> Places]
    BY <1>3 DEF GoLive, Places
  <2> QED BY <1>3, <2>1, <2>2 DEF GoLive
<1>4. CASE Recheck(w)
  <2>1. RunFinished(doc) \in Row
    BY EndRow DEF RunInv, RunTypeOK
  <2>2. Append(out[w], RunFinished(doc)) \in Seq(Row)
    BY <2>1
  <2>3. out' \in [Watchers -> Seq(Row)]
    BY <1>4, <2>2 DEF Recheck
  <2>4. pc' \in [Watchers -> Places]
    BY <1>4 DEF Recheck, Places
  <2> QED BY <1>4, <2>3, <2>4 DEF Recheck
<1>5. CASE Close(w) \/ Leave(w) \/ Abort(w)
  <2>1. gone' \subseteq Watchers
    BY <1>5 DEF Close, Leave, Abort
  <2>2. pc' \in [Watchers -> Places]
    BY <1>5 DEF Close, Leave, Abort, Places
  <2>3. out' \in [Watchers -> Seq(Row)]
    <3>1. <<>> \in Seq(Row)
      OBVIOUS
    <3>2. CASE out' = [out EXCEPT ![w] = <<>>]
      BY <3>1, <3>2
    <3> QED BY <1>5, <3>2 DEF Close, Leave, Abort
  <2> QED BY <1>5, <2>1, <2>2, <2>3 DEF Close, Leave, Abort
<1> QED BY <1>1, <1>2, <1>3, <1>4, <1>5 DEF Serving

LEMMA PublishTypes ==
    ASSUME RunInv, StreamTypeOK, Publish
    PROVE  StreamTypeOK'
<1> DEFINE e == log[published + 1]
<1>1. e \in Row
  BY DEF Publish, RunInv, RunTypeOK
<1>2. ASSUME NEW w \in Watchers
      PROVE  Append(buffered[w], e) \in Seq(Row) /\ Append(out[w], e) \in Seq(Row)
  BY <1>1 DEF StreamTypeOK
<1>3. buffered' \in [Watchers -> Seq(Row)] /\ out' \in [Watchers -> Seq(Row)]
  BY <1>2 DEF StreamTypeOK, Publish
<1>4. pc' \in [Watchers -> Places]
  BY DEF StreamTypeOK, Publish, Places
<1> QED BY <1>3, <1>4 DEF StreamTypeOK, Publish

LEMMA StreamTypeStep ==
    ASSUME RunInv, StreamTypeOK, \A w \in Watchers : ReadsOK(w), [Next]_streamVars
    PROVE  StreamTypeOK'
<1>1. CASE UNCHANGED streams
  BY <1>1 DEF streams, StreamTypeOK
<1>2. CASE RunStarts \/ CaseStarts \/ StepIsRecorded \/ CaseFinishes \/ RunFinishes \/ RunCrashes
  BY <1>1, <1>2 DEF RunStarts, CaseStarts, StepIsRecorded, CaseFinishes, RunFinishes, RunCrashes,
                    Writes
<1>3. ASSUME NEW w \in Watchers, Reading(w) PROVE StreamTypeOK'
  <2>1. CASE CasesAreRead(w)
    <3>1. 1 \in Cases
      BY NumCasesAssumption DEF Cases
    <3> QED BY <2>1, <3>1, ReadTypes
  <2> QED BY <1>3, <2>1, ReadTypes, SubscribeTypes DEF Reading
<1> QED BY <1>1, <1>2, <1>3, ConnectTypes, ServingTypes, PublishTypes DEF Next, Run, streamVars

-------------------------------------------------------------------------------

LEMMA ReadsStep ==
    ASSUME RunInv, StreamTypeOK, [Next]_streamVars, NEW w \in Watchers, ReadsOK(w)
    PROVE  ReadsOK(w)'
<1>0. Grown /\ RunInv'
  BY LogGrows, RunStep
<1>1. /\ Len(log) \in Nat /\ Len(log') \in Nat /\ Len(log) <= Len(log')
      /\ DOMAIN log = 1..Len(log) /\ DOMAIN log' = 1..Len(log')
      /\ published \in Nat /\ Len(log) <= published + 1
  BY <1>0 DEF Grown, RunInv, RunTypeOK
<1>2. /\ seen[w].cases \in Nat \cup {Unread}
      /\ seen[w].steps \in [Cases -> Nat \cup {Unread}]
      /\ Unread \in Int /\ Unread < 0
  BY SeenType DEF Unread
<1>3. seen[w].status \in Verdicts => doc' = doc /\ log' = log
  BY <1>0 DEF Grown, ReadsOK, RunInv, VerdictIsLogged, Over, Last
<1>4. ASSUME NEW c \in Cases, SeesCase(w, c), seen'[w].cases = seen[w].cases
      PROVE  SeesCase(w, c)'
  BY <1>0, <1>4 DEF SeesCase, Rows, Grown
<1>5. CASE Same(w) /\ published' = published
  <2>1. /\ seen'[w] = seen[w] /\ pc'[w] = pc[w] /\ since'[w] = since[w]
        /\ Attached(w)' <=> Attached(w)
    BY <1>5 DEF Same, Attached
  <2>2. /\ seen'[w].cases <= Len(log')
        /\ \A c \in Cases : seen'[w].steps[c] <= Len(log')
    BY <1>1, <1>2, <2>1 DEF ReadsOK
  <2>3. \A c \in Cases : seen'[w].steps[c] # Unread => SeesCase(w, c)'
    BY <1>4, <2>1 DEF ReadsOK
  <2>4. seen'[w].status \in Verdicts => doc' = seen'[w].status
    BY <1>3, <2>1 DEF ReadsOK
  <2>5. Attached(w)' /\ seen'[w].status \in Verdicts => Len(log') <= since'[w] + 1
    BY <1>3, <2>1 DEF ReadsOK
  <2> QED BY <1>5, <2>1, <2>2, <2>3, <2>4, <2>5 DEF ReadsOK
<1>6. CASE Publish
  <2>1. pc[w] = "idle" <=> pc'[w] = "idle"
    BY <1>6 DEF Publish, StreamTypeOK
  <2>2. Attached(w)' <=> Attached(w)
    BY <1>6 DEF Publish, StreamTypeOK, Attached
  <2>3. since[w] \in Nat /\ published' = published + 1 /\ UNCHANGED <<seen, since>>
    BY <1>6 DEF Publish, StreamTypeOK
  <2> QED BY <1>1, <1>2, <1>3, <1>4, <2>1, <2>2, <2>3 DEF ReadsOK
<1>7. CASE Connect(w)
  <2>1. seen'[w].status = doc /\ seen'[w].cases = seen[w].cases /\ seen'[w].steps = seen[w].steps
    BY <1>7 DEF Connect, StreamTypeOK
  <2>2. doc \in Statuses /\ UNCHANGED <<run, since>> /\ pc'[w] = "reading"
    BY <1>7 DEF Connect, StreamTypeOK, RunInv, RunTypeOK
  <2> QED BY <1>1, <1>2, <1>4, <2>1, <2>2 DEF ReadsOK, Attached, run
<1>8. CASE CasesAreRead(w)
  <2>1. /\ seen'[w].status = seen[w].status /\ seen'[w].cases = Len(log)
        /\ seen'[w].steps = seen[w].steps
    BY <1>8 DEF CasesAreRead, StreamTypeOK
  <2>2. UNCHANGED <<run, since, pc>> /\ seen[w].cases = Unread
    BY <1>8 DEF CasesAreRead
  <2>3. \A c \in Cases : ~SeesCase(w, c)
    BY <2>2 DEF SeesCase
  <2> QED BY <1>1, <1>2, <2>1, <2>2, <2>3 DEF ReadsOK, Attached, run
<1>9. ASSUME NEW c \in Cases, StepsAreRead(w, c) PROVE ReadsOK(w)'
  <2>1. /\ seen'[w].status = seen[w].status /\ seen'[w].cases = seen[w].cases
        /\ seen'[w].steps = [seen[w].steps EXCEPT ![c] = Len(log)]
    BY <1>9 DEF StepsAreRead, StreamTypeOK
  <2>2. UNCHANGED <<run, since, pc>> /\ SeesCase(w, c)
    BY <1>9 DEF StepsAreRead
  <2> QED BY <1>1, <1>2, <1>4, <2>1, <2>2 DEF ReadsOK, Attached, run
<1>10. CASE Subscribe(w)
  <2>1. pc[w] = "reading" /\ pc'[w] = "replaying" /\ since'[w] = published
        /\ UNCHANGED <<run, seen>>
    BY <1>10 DEF Subscribe, StreamTypeOK
  <2> QED BY <1>1, <1>2, <1>4, <2>1 DEF ReadsOK, Attached, run
<1>11. CASE Serving(w) \/ Abort(w)
  <2>1. /\ pc[w] # "idle" /\ pc'[w] # "idle" /\ UNCHANGED <<run, seen, since>>
        \/ UNCHANGED <<run, seen, since, pc>>
    BY <1>11 DEF Serving, Write, EndOfOverRun, GoLive, Recheck, Close, Abort, StreamTypeOK,
                 ReplayIsDone
  <2>2. Attached(w)' => Attached(w)
    BY <1>11 DEF Serving, Write, EndOfOverRun, GoLive, Recheck, Close, Abort, StreamTypeOK,
                 Attached, ReplayIsDone
  <2> QED BY <1>1, <1>2, <1>4, <2>1, <2>2 DEF ReadsOK, run
<1> QED
  BY <1>5, <1>6, <1>7, <1>8, <1>9, <1>10, <1>11, StepsOf DEF Reading

LEMMA QueuesStep ==
    ASSUME RunInv, StreamTypeOK, [Next]_streamVars, NEW w \in Watchers, QueuesOK(w)
    PROVE  QueuesOK(w)'
<1> USE DEF StreamTypeOK, QueuesOK, Attached
<1>1. CASE Same(w)
  BY <1>1 DEF Same
<1>2. CASE Publish
  BY <1>2 DEF Publish, Buffers, Relays
<1>3. CASE Connect(w) \/ Reading(w)
  BY <1>3 DEF Connect, Reading, CasesAreRead, StepsAreRead, Subscribe
<1>4. CASE Write(w)
  BY <1>4 DEF Write
<1>5. CASE EndOfOverRun(w) \/ GoLive(w) \/ Recheck(w) \/ Close(w) \/ Abort(w)
  BY <1>5 DEF EndOfOverRun, GoLive, Recheck, Close, Abort, ReplayIsDone
<1> QED BY <1>1, <1>2, <1>3, <1>4, <1>5, StepsOf DEF Serving

-------------------------------------------------------------------------------
(* What a watcher is told. *)

(* All a watcher has been told, is being told and will be told of what     *)
(* the handler already has.                                                *)
Told(w) == wire[w] \o out[w] \o buffered[w]

LEMMA ToldType ==
    ASSUME StreamTypeOK, NEW w \in Watchers
    PROVE  /\ wire[w] \in Seq(Row) /\ out[w] \in Seq(Row) /\ buffered[w] \in Seq(Row)
           /\ Told(w) \in Seq(Row) /\ Len(Told(w)) \in Nat
           /\ DOMAIN Told(w) = 1..Len(Told(w))
           /\ Len(Told(w)) = Len(wire[w]) + Len(out[w]) + Len(buffered[w])
           /\ \A i \in DOMAIN wire[w] : i \in DOMAIN Told(w) /\ Told(w)[i] = wire[w][i]
           /\ \A i \in DOMAIN out[w] :
                 Len(wire[w]) + i \in DOMAIN Told(w) /\ Told(w)[Len(wire[w]) + i] = out[w][i]
           /\ \A i \in DOMAIN buffered[w] :
                 /\ Len(wire[w]) + Len(out[w]) + i \in DOMAIN Told(w)
                 /\ Told(w)[Len(wire[w]) + Len(out[w]) + i] = buffered[w][i]
           /\ \A i \in DOMAIN Told(w) : Told(w)[i] \in Row
<1>1. wire[w] \in Seq(Row) /\ out[w] \in Seq(Row) /\ buffered[w] \in Seq(Row)
  BY DEF StreamTypeOK
<1>2. InPieces(Told(w), wire[w], out[w], buffered[w])
  BY <1>1, Catenates, Zenon DEF Told
<1> QED BY <1>1, <1>2 DEF InPieces

(* Everything told is in one of the three.                                 *)
LEMMA ToldFrom ==
    ASSUME StreamTypeOK, NEW w \in Watchers, NEW i \in DOMAIN Told(w)
    PROVE  \/ i \in DOMAIN wire[w] /\ Told(w)[i] = wire[w][i]
           \/ \E k \in DOMAIN out[w] : i = Len(wire[w]) + k /\ Told(w)[i] = out[w][k]
           \/ \E k \in DOMAIN buffered[w] :
                 i = Len(wire[w]) + Len(out[w]) + k /\ Told(w)[i] = buffered[w][k]
<1>1. wire[w] \in Seq(Row) /\ out[w] \in Seq(Row) /\ buffered[w] \in Seq(Row)
  BY DEF StreamTypeOK
<1>2. InPieces(Told(w), wire[w], out[w], buffered[w])
  BY <1>1, Catenates, Zenon DEF Told
<1> QED BY <1>1, <1>2 DEF InPieces

LEMMA ToldKept ==
    ASSUME StreamTypeOK, NEW w \in Watchers, QueuesOK(w),
           Same(w) \/ Connect(w) \/ CasesAreRead(w) \/ (\E c \in Cases : StepsAreRead(w, c))
             \/ Write(w) \/ GoLive(w) \/ Close(w)
    PROVE  Told(w)' = Told(w)
<1>1. CASE UNCHANGED <<wire, out, buffered>>
  BY <1>1 DEF Told
<1>2. CASE Write(w)
  <2>1. wire[w] \in Seq(Row) /\ out[w] \in Seq(Row) /\ buffered[w] \in Seq(Row)
    BY ToldType
  <2>2. wire'[w] = Append(wire[w], Head(out[w])) /\ out'[w] = Tail(out[w])
        /\ buffered'[w] = buffered[w] /\ out[w] # <<>>
    BY <1>2 DEF Write, StreamTypeOK
  <2>3. Append(wire[w], Head(out[w])) \o Tail(out[w]) \o buffered[w]
          = wire[w] \o out[w] \o buffered[w]
    BY <2>1, <2>2, HeadMoves, Zenon
  <2> QED BY <2>2, <2>3, Zenon DEF Told
<1>3. CASE GoLive(w)
  <2>1. wire[w] \in Seq(Row) /\ buffered[w] \in Seq(Row)
    BY ToldType
  <2>2. wire'[w] = wire[w] /\ out'[w] = buffered[w] /\ buffered'[w] = <<>> /\ out[w] = <<>>
    BY <1>3 DEF GoLive, ReplayIsDone, StreamTypeOK
  <2> QED BY <2>1, <2>2, Flushes DEF Told
<1>4. CASE Same(w)
  BY <1>4 DEF Same, Told
<1> QED BY <1>1, <1>2, <1>3, <1>4 DEF Connect, CasesAreRead, StepsAreRead, Close

Takes(w) == pc[w] \in {"replaying", "rechecking", "live"}

LEMMA ToldPublished ==
    ASSUME RunInv, StreamTypeOK, NEW w \in Watchers, QueuesOK(w), Publish
    PROVE  /\ log[published + 1] \in Row
           /\ Takes(w) => Told(w)' = Append(Told(w), log[published + 1])
           /\ ~Takes(w) => Told(w)' = Told(w)
<1> DEFINE e == log[published + 1]
<1>1. wire[w] \in Seq(Row) /\ out[w] \in Seq(Row) /\ buffered[w] \in Seq(Row)
  BY ToldType
<1>2. e \in Row
  BY DEF Publish, RunInv, RunTypeOK
<1>3. /\ wire' = wire
      /\ buffered'[w] = (IF Buffers(w) THEN Append(buffered[w], e) ELSE buffered[w])
      /\ out'[w] = (IF Relays(w) THEN Append(out[w], e) ELSE out[w])
  BY DEF Publish
<1> HIDE DEF e
<1>4. CASE Buffers(w)
  <2>1. wire'[w] = wire[w] /\ out'[w] = out[w] /\ buffered'[w] = Append(buffered[w], e)
    BY <1>3, <1>4 DEF Buffers, Relays
  <2>2. wire[w] \o out[w] \o Append(buffered[w], e)
          = Append(wire[w] \o out[w] \o buffered[w], e)
    BY <1>1, <1>2, AppendsLast, Zenon
  <2>3. Told(w)' = Append(Told(w), e)
    BY <2>1, <2>2, Zenon DEF Told
  <2> QED BY <1>2, <1>4, <2>3 DEF Buffers, Takes, e
<1>5. CASE Relays(w)
  <2>1. wire'[w] = wire[w] /\ out'[w] = Append(out[w], e) /\ buffered[w] = <<>>
        /\ buffered'[w] = <<>>
    BY <1>3, <1>5 DEF Buffers, Relays, QueuesOK
  <2>2. wire[w] \o Append(out[w], e) \o <<>> = Append(wire[w] \o out[w] \o <<>>, e)
    BY <1>1, <1>2, AppendsMid, Zenon
  <2>3. Told(w)' = Append(Told(w), e)
    BY <2>1, <2>2, Zenon DEF Told
  <2> QED BY <1>2, <1>5, <2>3 DEF Relays, Takes, e
<1>6. CASE ~Takes(w)
  <2>1. wire'[w] = wire[w] /\ out'[w] = out[w] /\ buffered'[w] = buffered[w]
    BY <1>3, <1>6 DEF Buffers, Relays, Takes
  <2>2. Told(w)' = Told(w)
    BY <2>1, Zenon DEF Told
  <2> QED BY <1>2, <1>6, <2>2 DEF e
<1>7. Takes(w) => Buffers(w) \/ Relays(w)
  BY DEF Buffers, Relays, Takes
<1> QED BY <1>4, <1>5, <1>6, <1>7

LEMMA ToldOver ==
    ASSUME StreamTypeOK, NEW w \in Watchers, ReadsOK(w), EndOfOverRun(w)
    PROVE  Told(w)' = Append(wire[w], RunFinished(seen[w].status))
<1>1. wire'[w] = wire[w] /\ out'[w] = <<RunFinished(seen[w].status)>> /\ buffered'[w] = <<>>
  BY DEF EndOfOverRun, StreamTypeOK
<1>2. wire[w] \in Seq(Row)
  BY ToldType
<1> DEFINE e == RunFinished(seen[w].status)
<1> HIDE DEF e
<1>3. e \in Row
  BY EndRow DEF e, EndOfOverRun, ReplayIsDone, ReadsOK
<1>4. wire[w] \o <<e>> \o <<>> = Append(wire[w], e)
  BY <1>2, <1>3, EndsIt
<1> QED BY <1>1, <1>4 DEF Told, e

LEMMA ToldRechecked ==
    ASSUME RunInv, StreamTypeOK, NEW w \in Watchers, QueuesOK(w), Recheck(w)
    PROVE  Told(w)' = Append(Told(w), RunFinished(doc))
<1>1. wire'[w] = wire[w] /\ out'[w] = Append(out[w], RunFinished(doc)) /\ buffered'[w] = <<>>
      /\ buffered[w] = <<>>
  BY DEF Recheck, StreamTypeOK, QueuesOK
<1>2. wire[w] \in Seq(Row) /\ out[w] \in Seq(Row) /\ RunFinished(doc) \in Row
  BY ToldType, EndRow DEF RunInv, RunTypeOK
<1> QED BY <1>1, <1>2, AppendsMid DEF Told

LEMMA ToldAborted ==
    ASSUME StreamTypeOK, NEW w \in Watchers, QueuesOK(w), Abort(w)
    PROVE  Told(w)' = wire[w]
<1>1. wire'[w] = wire[w] /\ out'[w] = <<>> /\ buffered'[w] = <<>>
  BY DEF Abort, StreamTypeOK, QueuesOK
<1>2. wire[w] \in Seq(Row)
  BY ToldType
<1> QED BY <1>1, <1>2, Empties DEF Told

LEMMA ToldReplayed ==
    ASSUME RunInv, StreamTypeOK, NEW w \in Watchers, QueuesOK(w), Subscribe(w)
    PROVE  \E rows \in [1..Cardinality(Replayed(w)) -> Replayed(w)] :
              /\ InOrder(rows)
              /\ Told(w)' = [i \in DOMAIN rows |-> Retold(w, rows[i])]
              /\ out'[w] = [i \in DOMAIN rows |-> Retold(w, rows[i])]
              /\ wire'[w] = <<>> /\ buffered'[w] = <<>>
<1>1. PICK rows \in [1..Cardinality(Replayed(w)) -> Replayed(w)] :
         InOrder(rows) /\ out' = [out EXCEPT ![w] = [i \in DOMAIN rows |-> Retold(w, rows[i])]]
  BY DEF Subscribe
<1>2. out'[w] = [i \in DOMAIN rows |-> Retold(w, rows[i])]
  BY <1>1 DEF StreamTypeOK
<1>3. wire'[w] = <<>> /\ buffered'[w] = <<>>
  BY DEF Subscribe, QueuesOK, Attached
<1>4. out'[w] \in Seq(Row)
  BY SubscribeTypes DEF StreamTypeOK
<1>5. <<>> \o out'[w] \o <<>> = out'[w]
  BY <1>4, Empties
<1>6. Told(w)' = out'[w]
  BY <1>3, <1>5 DEF Told
<1> QED BY <1>1, <1>2, <1>3, <1>6

-------------------------------------------------------------------------------
(* The end of a stream. *)

HasEnd(T) == \E i \in DOMAIN T : IsTerminal(T[i])

(* The end of what is told is its last event, and says what the document   *)
(* says; and how a handler comes to tell it.                               *)
EndsOK(w) ==
    /\ \A i \in DOMAIN Told(w) : IsTerminal(Told(w)[i]) =>
          /\ i = Len(Told(w))
          /\ Over
          /\ doc \in Verdicts => Told(w)[i].status = doc
    /\ pc[w] \in {"live", "rechecking"} => ~HasEnd(Told(w))
    /\ pc[w] = "rechecking" => HasFinished
    /\ pc[w] = "replaying" =>
          /\ ~HasEnd(wire[w]) /\ ~HasEnd(out[w])
          /\ HasEnd(buffered[w]) => published = Len(log)
    /\ pc[w] = "closing" => HasEnd(Told(w))
    /\ pc[w] = "closed" /\ Stays(w) => HasEnd(wire[w])

LEMMA EndsAreIn ==
    ASSUME StreamTypeOK, NEW w \in Watchers
    PROVE  HasEnd(Told(w)) <=> HasEnd(wire[w]) \/ HasEnd(out[w]) \/ HasEnd(buffered[w])
<1>1. HasEnd(wire[w]) \/ HasEnd(out[w]) \/ HasEnd(buffered[w]) => HasEnd(Told(w))
  BY ToldType DEF HasEnd
<1>2. HasEnd(Told(w)) => HasEnd(wire[w]) \/ HasEnd(out[w]) \/ HasEnd(buffered[w])
  BY ToldFrom DEF HasEnd
<1> QED BY <1>1, <1>2

LEMMA AppendEnd ==
    ASSUME NEW T \in Seq(Row), NEW e \in Row
    PROVE  /\ HasEnd(Append(T, e)) <=> HasEnd(T) \/ IsTerminal(e)
           /\ ~HasEnd(T) => \A i \in DOMAIN Append(T, e) : IsTerminal(Append(T, e)[i]) =>
                               /\ i = Len(Append(T, e))
                               /\ Append(T, e)[i] = e
<1> DEFINE L == Append(T, e)
<1>1. /\ DOMAIN L = 1..(Len(T) + 1) /\ Len(L) = Len(T) + 1 /\ DOMAIN T = 1..Len(T)
      /\ \A i \in DOMAIN T : L[i] = T[i]
      /\ L[Len(T) + 1] = e /\ Len(T) \in Nat
  BY AppendFacts
<1> HIDE DEF L
<1>2. HasEnd(L) <=> HasEnd(T) \/ IsTerminal(e)
  BY <1>1 DEF HasEnd
<1>3. ASSUME ~HasEnd(T), NEW i \in DOMAIN L, IsTerminal(L[i])
      PROVE  i = Len(L) /\ L[i] = e
  BY <1>1, <1>3 DEF HasEnd
<1> QED BY <1>2, <1>3 DEF L

LEMMA EmptyEnd == ~HasEnd(<<>>)
BY DEF HasEnd

LEMMA EndsInit == ASSUME Init, NEW w \in Watchers PROVE EndsOK(w)
<1>1. Told(w) = <<>>
  BY Empties DEF Told, Init
<1> QED BY <1>1 DEF EndsOK, Init, HasEnd

LEMMA EndsSame ==
    ASSUME RunInv, StreamTypeOK, [Next]_streamVars, NEW w \in Watchers, QueuesOK(w), EndsOK(w),
           Same(w), published' = published
    PROVE  EndsOK(w)'
<1>1. Grown /\ RunInv'
  BY LogGrows, RunStep
<1>2. Told(w)' = Told(w)
  BY ToldKept
<1>3. Over => Over' /\ doc' = doc /\ log' = log
  BY <1>1 DEF Grown, Over
<1>4. HasFinished => HasFinished'
  BY <1>1 DEF Grown, HasFinished, RunInv, RunTypeOK
<1>5. HasEnd(buffered[w]) /\ pc[w] = "replaying" => published' = Len(log')
  <2>1. HasEnd(buffered[w]) => Over
    BY EndsAreIn DEF EndsOK, HasEnd
  <2> QED BY <2>1, <1>3 DEF EndsOK
<1>6. Stays(w)' => Stays(w)
  BY DEF Same, Stays
<1>7. (pc[w])' = pc[w] /\ (wire[w])' = wire[w] /\ (out[w])' = out[w]
      /\ (buffered[w])' = buffered[w]
  BY DEF Same
<1>8. HasEnd(Told(w))' = HasEnd(Told(w)) /\ HasEnd(wire[w])' = HasEnd(wire[w])
      /\ HasEnd(out[w])' = HasEnd(out[w]) /\ HasEnd(buffered[w])' = HasEnd(buffered[w])
  BY <1>2, <1>7 DEF HasEnd
<1>9. ASSUME NEW i \in DOMAIN Told(w)', IsTerminal(Told(w)[i])'
      PROVE  /\ i = Len(Told(w))'
             /\ Over'
             /\ doc' \in Verdicts => Told(w)[i]'.status = doc'
  BY <1>2, <1>3, <1>9 DEF EndsOK, IsTerminal
<1> HIDE DEF HasEnd
<1> QED BY <1>4, <1>5, <1>6, <1>7, <1>8, <1>9 DEF EndsOK

LEMMA EndsPublish ==
    ASSUME RunInv, StreamTypeOK, NEW w \in Watchers, QueuesOK(w), EndsOK(w), Publish
    PROVE  EndsOK(w)'
<1> DEFINE e == log[published + 1]
<1>1. /\ e \in Row /\ published + 1 \in DOMAIN log /\ published' = published + 1
      /\ published \in Nat /\ published < Len(log) /\ Len(log) \in Nat
      /\ UNCHANGED <<doc, log, wire, gone>>
  BY DEF Publish, RunInv, RunTypeOK
<1>2. IsTerminal(e) => /\ Over /\ published' = Len(log)
                       /\ doc \in Verdicts => e.status = doc
  BY <1>1 DEF RunInv, EndIsLast, Over, VerdictIsLogged, Last
<1>3. ~HasFinished
  BY <1>1 DEF HasFinished, RunInv, EndIsLast
<1>4. /\ pc'[w] = (IF pc[w] = "live" /\ IsTerminal(e) THEN "closing" ELSE pc[w])
      /\ buffered'[w] = (IF Buffers(w) THEN Append(buffered[w], e) ELSE buffered[w])
      /\ out'[w] = (IF Relays(w) THEN Append(out[w], e) ELSE out[w])
      /\ wire'[w] = wire[w]
  BY DEF Publish
<1>5. wire[w] \in Seq(Row) /\ out[w] \in Seq(Row) /\ buffered[w] \in Seq(Row)
      /\ Told(w) \in Seq(Row)
  BY ToldType
<1> HIDE DEF e
<1>6. CASE Takes(w)
  <2>1. Told(w)' = Append(Told(w), e)
    BY <1>6, ToldPublished DEF e
  <2>2. ~HasEnd(Told(w))
    BY <1>1, <1>6, EndsAreIn DEF Takes, EndsOK
  <2>3. pc[w] # "rechecking"
    BY <1>3 DEF EndsOK
  <2>4. HasEnd(Told(w)') <=> IsTerminal(e)
    BY <1>1, <1>5, <2>1, <2>2, AppendEnd
  <2>5. ASSUME NEW i \in DOMAIN Told(w)', IsTerminal(Told(w)'[i])
        PROVE  i = Len(Told(w)') /\ Told(w)'[i] = e
    BY <1>1, <1>5, <2>1, <2>2, <2>5, AppendEnd
  <2>6. CASE pc[w] = "live"
    BY <1>1, <1>2, <1>4, <2>4, <2>5, <2>6 DEF EndsOK, HasEnd, IsTerminal, Over
  <2>7. CASE pc[w] = "replaying"
    <3>1. buffered'[w] = Append(buffered[w], e) /\ out'[w] = out[w] /\ pc'[w] = "replaying"
      BY <1>4, <2>7 DEF Buffers, Relays
    <3>2. HasEnd(buffered'[w]) => IsTerminal(e)
      <4>1. ~HasEnd(buffered[w])
        BY <2>2, EndsAreIn
      <4> QED BY <1>1, <1>5, <3>1, <4>1, AppendEnd
    <3>3. ~HasEnd(wire[w]) /\ ~HasEnd(out[w])
      BY <2>7 DEF EndsOK
    <3> QED BY <1>1, <1>2, <1>4, <2>5, <3>1, <3>2, <3>3 DEF EndsOK, HasEnd, IsTerminal, Over
  <2> QED BY <1>6, <2>3, <2>6, <2>7 DEF Takes
<1>7. CASE ~Takes(w)
  <2>1. Told(w)' = Told(w) /\ pc'[w] = pc[w]
    BY <1>4, <1>7, ToldPublished DEF Takes
  <2> QED BY <1>1, <1>4, <1>7, <2>1 DEF EndsOK, Takes, HasEnd, Over, IsTerminal, Stays
<1> QED BY <1>6, <1>7

LEMMA EndsRead ==
    ASSUME StreamTypeOK, NEW w \in Watchers, QueuesOK(w), EndsOK(w), UNCHANGED run,
           Connect(w) \/ CasesAreRead(w) \/ (\E c \in Cases : StepsAreRead(w, c))
    PROVE  EndsOK(w)'
<1>1. Told(w)' = Told(w)
  BY ToldKept
<1>2. pc'[w] = "reading"
  BY DEF Connect, CasesAreRead, StepsAreRead, StreamTypeOK
<1> QED BY <1>1, <1>2 DEF EndsOK, run, Over

LEMMA EndsSubscribe ==
    ASSUME RunInv, StreamTypeOK, NEW w \in Watchers, QueuesOK(w), Subscribe(w)
    PROVE  EndsOK(w)'
<1>1. PICK rows \in [1..Cardinality(Replayed(w)) -> Replayed(w)] :
         /\ Told(w)' = [i \in DOMAIN rows |-> Retold(w, rows[i])]
         /\ out'[w] = [i \in DOMAIN rows |-> Retold(w, rows[i])]
         /\ wire'[w] = <<>> /\ buffered'[w] = <<>>
  BY ToldReplayed
<1>2. \A k \in Replayed(w) : k \in DOMAIN log /\ ~IsTerminal(log[k])
  BY DEF Replayed, Rows, IsTerminal
<1>3. \A i \in DOMAIN rows : ~IsTerminal(Retold(w, rows[i]))
  BY <1>2, RetoldType DEF IsTerminal
<1>4. pc'[w] = "replaying"
  BY DEF Subscribe, StreamTypeOK
<1>5. ~HasEnd(out'[w]) /\ ~HasEnd(wire'[w]) /\ ~HasEnd(buffered'[w])
  BY <1>1, <1>3 DEF HasEnd
<1>6. \A i \in DOMAIN (Told(w)') : ~IsTerminal(Told(w)'[i])
  BY <1>1, <1>3
<1> QED BY <1>4, <1>5, <1>6 DEF EndsOK, HasEnd, IsTerminal

LEMMA EndsWrite ==
    ASSUME RunInv, StreamTypeOK, NEW w \in Watchers, QueuesOK(w), EndsOK(w), Write(w)
    PROVE  EndsOK(w)'
<1>1. Told(w)' = Told(w)
  BY ToldKept
<1>2. wire'[w] = Append(wire[w], Head(out[w])) /\ out'[w] = Tail(out[w]) /\ out[w] # <<>>
      /\ UNCHANGED <<run, pc, buffered, gone>>
  BY DEF Write, StreamTypeOK
<1>3. wire[w] \in Seq(Row) /\ out[w] \in Seq(Row)
  BY ToldType
<1>4. Head(out[w]) = out[w][1] /\ 1 \in DOMAIN out[w] /\ Head(out[w]) \in Row
      /\ \A i \in DOMAIN Tail(out[w]) : i + 1 \in DOMAIN out[w] /\ Tail(out[w])[i] = out[w][i + 1]
  BY <1>2, <1>3
<1>5. HasEnd(wire'[w]) <=> HasEnd(wire[w]) \/ IsTerminal(Head(out[w]))
  BY <1>2, <1>3, <1>4, AppendEnd
<1>6. HasEnd(out'[w]) => HasEnd(out[w])
  BY <1>2, <1>4 DEF HasEnd
<1>7. IsTerminal(Head(out[w])) => HasEnd(out[w])
  BY <1>4 DEF HasEnd
<1> QED BY <1>1, <1>2, <1>5, <1>6, <1>7 DEF EndsOK, run, Over, HasFinished, Stays, HasEnd, IsTerminal

LEMMA EndsOver ==
    ASSUME RunInv, StreamTypeOK, NEW w \in Watchers, ReadsOK(w), EndsOK(w), EndOfOverRun(w)
    PROVE  EndsOK(w)'
<1> DEFINE e == RunFinished(seen[w].status)
<1>1. /\ pc[w] = "replaying" /\ pc'[w] = "closing" /\ UNCHANGED run
      /\ seen[w].status \in Verdicts
  BY DEF EndOfOverRun, ReplayIsDone, IsOver, StreamTypeOK, ReadsOK, Statuses
<1>2. e \in Row /\ IsTerminal(e) /\ e.status = seen[w].status
  BY <1>1, EndRow DEF Statuses
<1>3. doc = seen[w].status /\ Over
  BY <1>1 DEF ReadsOK, RunInv, VerdictIsLogged, Over, Last
<1>4. ~HasEnd(wire[w]) /\ wire[w] \in Seq(Row)
  BY <1>1, ToldType DEF EndsOK
<1>5. Told(w)' = Append(wire[w], e)
  BY ToldOver
<1> HIDE DEF e
<1>6. HasEnd(Told(w)')
  BY <1>2, <1>4, <1>5, AppendEnd
<1>7. ASSUME NEW i \in DOMAIN (Told(w)'), IsTerminal(Told(w)'[i])
      PROVE  i = Len(Told(w)') /\ Told(w)'[i] = e
  BY <1>2, <1>4, <1>5, <1>7, AppendEnd
<1> QED BY <1>1, <1>2, <1>3, <1>6, <1>7 DEF EndsOK, HasEnd, IsTerminal, run, Over

LEMMA EndsGoLive ==
    ASSUME RunInv, StreamTypeOK, NEW w \in Watchers, QueuesOK(w), EndsOK(w), GoLive(w)
    PROVE  EndsOK(w)'
<1>1. Told(w)' = Told(w)
  BY ToldKept
<1>2. /\ pc[w] = "replaying" /\ UNCHANGED run
      /\ pc'[w] = (IF SawTerminal(w) THEN "closing"
                   ELSE IF HasFinished THEN "rechecking" ELSE "live")
  BY DEF GoLive, ReplayIsDone, StreamTypeOK
<1>3. HasEnd(Told(w)) <=> SawTerminal(w)
  BY <1>2, EndsAreIn DEF EndsOK, SawTerminal, HasEnd
<1> QED BY <1>1, <1>2, <1>3 DEF EndsOK, HasEnd, run, Over, HasFinished, IsTerminal

LEMMA EndsRecheck ==
    ASSUME RunInv, StreamTypeOK, NEW w \in Watchers, QueuesOK(w), EndsOK(w), Recheck(w)
    PROVE  EndsOK(w)'
<1> DEFINE e == RunFinished(doc)
<1>1. pc[w] = "rechecking" /\ pc'[w] = "closing" /\ UNCHANGED run
  BY DEF Recheck, StreamTypeOK
<1>2. e \in Row /\ IsTerminal(e) /\ e.status = doc
  BY EndRow DEF RunInv, RunTypeOK
<1>3. Over
  BY <1>1 DEF EndsOK, HasFinished, RunInv, RunTypeOK, EndIsLast, Over, Last
<1>4. ~HasEnd(Told(w)) /\ Told(w) \in Seq(Row)
  BY <1>1, ToldType DEF EndsOK
<1>5. Told(w)' = Append(Told(w), e)
  BY ToldRechecked
<1> HIDE DEF e
<1>6. HasEnd(Told(w)')
  BY <1>2, <1>4, <1>5, AppendEnd
<1>7. ASSUME NEW i \in DOMAIN (Told(w)'), IsTerminal(Told(w)'[i])
      PROVE  i = Len(Told(w)') /\ Told(w)'[i] = e
  BY <1>2, <1>4, <1>5, <1>7, AppendEnd
<1> QED BY <1>1, <1>2, <1>3, <1>6, <1>7 DEF EndsOK, HasEnd, IsTerminal, run, Over

LEMMA EndsClose ==
    ASSUME RunInv, StreamTypeOK, NEW w \in Watchers, QueuesOK(w), EndsOK(w), Close(w)
    PROVE  EndsOK(w)'
<1>1. Told(w)' = Told(w)
  BY ToldKept
<1>2. /\ pc[w] = "closing" /\ pc'[w] = "closed" /\ UNCHANGED <<run, wire>> /\ out[w] = <<>>
      /\ buffered[w] = <<>>
  BY DEF Close, StreamTypeOK, QueuesOK
<1>3. HasEnd(wire[w])
  <2>1. HasEnd(Told(w))
    BY <1>2 DEF EndsOK
  <2>2. ~HasEnd(out[w]) /\ ~HasEnd(buffered[w])
    BY <1>2 DEF HasEnd
  <2> QED BY <2>1, <2>2, EndsAreIn
<1> QED BY <1>1, <1>2, <1>3 DEF EndsOK, HasEnd, run, Over, IsTerminal

LEMMA EndsAbort ==
    ASSUME RunInv, StreamTypeOK, NEW w \in Watchers, QueuesOK(w), EndsOK(w), Abort(w)
    PROVE  EndsOK(w)'
<1>1. Told(w)' = wire[w]
  BY ToldAborted
<1>2. pc[w] = "live" /\ pc'[w] = "closed" /\ UNCHANGED <<run, wire, gone>> /\ w \in gone
  BY DEF Abort, StreamTypeOK
<1>3. ~HasEnd(wire[w])
  BY <1>2, EndsAreIn DEF EndsOK
<1> QED BY <1>1, <1>2, <1>3 DEF EndsOK, HasEnd, IsTerminal, Stays

LEMMA EndsStep ==
    ASSUME RunInv, StreamTypeOK, [Next]_streamVars, NEW w \in Watchers,
           ReadsOK(w), QueuesOK(w), EndsOK(w)
    PROVE  EndsOK(w)'
<1>1. CASE Connect(w) \/ CasesAreRead(w) \/ \E c \in Cases : StepsAreRead(w, c)
  <2>1. UNCHANGED run
    BY <1>1 DEF Connect, CasesAreRead, StepsAreRead
  <2> QED BY <1>1, <2>1, EndsRead
<1> QED
  BY <1>1, StepsOf, EndsSame, EndsPublish, EndsSubscribe, EndsWrite, EndsOver, EndsGoLive,
     EndsRecheck, EndsClose, EndsAbort DEF Reading, Serving

-------------------------------------------------------------------------------
(* What is known is delivered. *)

SameRow(e, f) == e.type = f.type /\ e.case = f.case /\ e.index = f.index

Holds(w, f) == \E j \in DOMAIN Told(w) : SameRow(Told(w)[j], f)

(* Handlers whose client still gets, or has got, the whole of it.          *)
Follows(w) == Attached(w) /\ (pc[w] # "closed" \/ HasEnd(Told(w)))

DeliversOK(w) ==
    /\ Follows(w) => \A i \in DOMAIN log : ReadOrHeard(w, i) => Holds(w, log[i])
    /\ pc[w] = "replaying" /\ IsOver(w) =>
          \A k \in DOMAIN buffered[w] : IsTerminal(buffered[w][k])

LEMMA DeliversInit == ASSUME Init, NEW w \in Watchers PROVE DeliversOK(w)
BY DEF DeliversOK, Follows, Attached, Init

(* What is read or heard is in the log.                                    *)
LEMMA HeardIsLogged ==
    ASSUME RunInv, StreamTypeOK, NEW w \in Watchers, ReadsOK(w), [Next]_streamVars,
           Same(w), published' = published, NEW i \in DOMAIN log', ReadOrHeard(w, i)'
    PROVE  i \in DOMAIN log /\ log'[i] = log[i] /\ ReadOrHeard(w, i)
<1>1. Grown /\ RunInv'
  BY LogGrows, RunStep
<1>2. /\ Len(log) \in Nat /\ published <= Len(log) /\ published \in Nat
      /\ DOMAIN log = 1..Len(log) /\ i \in Nat /\ 1 <= i /\ log'[i] \in Row
  BY <1>1 DEF RunInv, RunTypeOK
<1>3. log'[i].type \in OfACase => log'[i].case \in Cases
  BY <1>2, RowType
<1>4. /\ seen[w].cases \in Nat \cup {Unread}
      /\ seen[w].steps \in [Cases -> Nat \cup {Unread}]
      /\ Unread \in Int
  BY SeenType DEF Unread
<1>5. i <= Len(log)
  BY <1>2, <1>3, <1>4 DEF ReadOrHeard, ReadsOK, Same, OfACase
<1> QED BY <1>1, <1>2, <1>5 DEF ReadOrHeard, Same, Grown

LEMMA DeliversSame ==
    ASSUME RunInv, StreamTypeOK, NEW w \in Watchers, ReadsOK(w), QueuesOK(w), DeliversOK(w),
           [Next]_streamVars, Same(w), published' = published
    PROVE  DeliversOK(w)'
<1>1. Told(w)' = Told(w)
  BY ToldKept
<1>2. Follows(w)' => Follows(w)
  BY <1>1 DEF Follows, Attached, HasEnd, Same, IsTerminal
<1>3. ASSUME Follows(w), NEW i \in DOMAIN log', ReadOrHeard(w, i)' PROVE Holds(w, log[i])'
  <2>1. i \in DOMAIN log /\ log'[i] = log[i] /\ ReadOrHeard(w, i)
    BY <1>3, HeardIsLogged
  <2>2. Holds(w, log[i])
    BY <1>3, <2>1 DEF DeliversOK
  <2> QED BY <1>1, <2>1, <2>2 DEF Holds, SameRow
<1> QED BY <1>2, <1>3 DEF DeliversOK, Same, IsOver, IsTerminal

LEMMA TerminalsAreAlike ==
    ASSUME NEW e \in Row, NEW f \in Row, IsTerminal(e), IsTerminal(f) PROVE SameRow(e, f)
BY RowType DEF IsTerminal, SameRow

LEMMA DeliversPublish ==
    ASSUME RunInv, StreamTypeOK, NEW w \in Watchers, ReadsOK(w), QueuesOK(w), EndsOK(w),
           DeliversOK(w), Publish
    PROVE  DeliversOK(w)'
<1> DEFINE e == log[published + 1]
           T == Told(w)
           Told2 == Told(w)'
           Holds2(f) == \E j \in DOMAIN Told2 : SameRow(Told2[j], f)
<1>1. /\ e \in Row /\ published + 1 \in DOMAIN log /\ published' = published + 1
      /\ published \in Nat /\ published < Len(log) /\ Len(log) \in Nat
      /\ Len(log) <= published + 1
      /\ UNCHANGED <<doc, log, seen, wire, gone, since>>
  BY DEF Publish, RunInv, RunTypeOK
<1>2. /\ pc'[w] = (IF pc[w] = "live" /\ IsTerminal(e) THEN "closing" ELSE pc[w])
      /\ buffered'[w] = (IF Buffers(w) THEN Append(buffered[w], e) ELSE buffered[w])
  BY DEF Publish
<1>3. T \in Seq(Row) /\ buffered[w] \in Seq(Row)
  BY ToldType
<1>4. Over => IsTerminal(e)
  BY <1>1 DEF Over, Last
<1>5. /\ Takes(w) => Told2 = Append(T, e)
      /\ ~Takes(w) => Told2 = T
  BY ToldPublished
<1> HIDE DEF e, T, Told2
<1>6. \A f : Holds(w, f) => Holds2(f)
  <2>1. CASE Takes(w)
    <3>1. \A j \in DOMAIN T : j \in DOMAIN Append(T, e) /\ Append(T, e)[j] = T[j]
      BY <1>1, <1>3, AppendFacts
    <3>2. Told2 = Append(T, e)
      BY <1>5, <2>1
    <3> HIDE DEF SameRow
    <3> QED BY <3>1, <3>2 DEF Holds, T
  <2>2. CASE ~Takes(w)
    BY <1>5, <2>2 DEF Holds, T
  <2> QED BY <2>1, <2>2
<1>7. Follows(w)' => Follows(w)
  <2>1. Attached(w)' => Attached(w)
    BY <1>2 DEF Attached
  <2>2. pc'[w] = "closed" => pc[w] = "closed" /\ Told2 = T
    BY <1>2, <1>5 DEF Takes
  <2>3. HasEnd(Told(w))' /\ Told2 = T => HasEnd(Told(w))
    BY DEF T, Told2, HasEnd, IsTerminal
  <2>4. Follows(w)' => Attached(w)' /\ (pc'[w] # "closed" \/ HasEnd(Told(w))')
    BY DEF Follows
  <2>5. Attached(w) /\ (pc[w] # "closed" \/ HasEnd(Told(w))) => Follows(w)
    BY DEF Follows
  <2>6. pc[w] = "closed" => pc'[w] = "closed"
    BY <1>2
  <2> HIDE DEF HasEnd
  <2> QED BY <2>1, <2>2, <2>3, <2>4, <2>5, <2>6
<1>8. Follows(w) => Holds2(e)
  <2>1. CASE Takes(w)
    <3>1. Len(T) + 1 \in DOMAIN Append(T, e) /\ Append(T, e)[Len(T) + 1] = e
      BY <1>1, <1>3, AppendFacts
    <3>2. Told2 = Append(T, e)
      BY <1>5, <2>1
    <3> QED BY <3>1, <3>2 DEF Holds, SameRow
  <2>2. CASE ~Takes(w) /\ Follows(w)
    <3>1. HasEnd(Told(w))
      BY <2>2 DEF Follows, Takes, Attached, EndsOK
    <3>2. PICK j \in DOMAIN Told(w) : IsTerminal(Told(w)[j])
      BY <3>1 DEF HasEnd
    <3>3. IsTerminal(e)
      BY <1>4, <3>2 DEF EndsOK
    <3>4. SameRow(Told(w)[j], e)
      BY <1>1, <3>2, <3>3, ToldType, TerminalsAreAlike
    <3> QED BY <1>6, <3>4 DEF Holds
  <2> QED BY <2>1, <2>2
<1> HIDE DEF Holds2
<1>9. ASSUME Follows(w)', NEW i \in DOMAIN log', ReadOrHeard(w, i)' PROVE Holds(w, log[i])'
  <2>0. Holds2(log[i]) => Holds(w, log[i])'
    BY <1>1 DEF Holds, Holds2, Told2, SameRow
  <2>1. ReadOrHeard(w, i) \/ i = published + 1
    BY <1>1, <1>9 DEF ReadOrHeard
  <2>2. CASE ReadOrHeard(w, i)
    <3>1. Holds(w, log[i])
      BY <1>1, <1>7, <1>9, <2>2 DEF DeliversOK
    <3> QED BY <1>6, <2>0, <3>1
  <2>3. CASE i = published + 1
    BY <1>7, <1>8, <1>9, <2>0, <2>3 DEF e
  <2> QED BY <2>0, <2>1, <2>2, <2>3
<1>10. ASSUME pc'[w] = "replaying", IsOver(w)', NEW k \in DOMAIN buffered'[w]
       PROVE  IsTerminal(buffered'[w][k])
  <2>1. pc[w] = "replaying" /\ IsOver(w)
    BY <1>1, <1>2, <1>10 DEF IsOver
  <2>2. seen[w].status \in Verdicts
    BY <2>1 DEF ReadsOK, IsOver, Statuses
  <2>3. IsTerminal(e)
    BY <1>4, <2>2 DEF ReadsOK, RunInv, VerdictIsLogged, Over, Last
  <2>4. buffered'[w] = Append(buffered[w], e)
    BY <1>2, <2>1 DEF Buffers
  <2>5. \/ k \in DOMAIN buffered[w] /\ buffered'[w][k] = buffered[w][k]
        \/ buffered'[w][k] = e
    BY <1>1, <1>3, <1>10, <2>4, AppendFacts
  <2> QED BY <2>1, <2>3, <2>5 DEF DeliversOK
<1> QED BY <1>9, <1>10 DEF DeliversOK, IsTerminal

LEMMA DeliversSubscribe ==
    ASSUME RunInv, StreamTypeOK, NEW w \in Watchers, ReadsOK(w), QueuesOK(w), Subscribe(w)
    PROVE  DeliversOK(w)'
<1>1. PICK rows \in [1..Cardinality(Replayed(w)) -> Replayed(w)] :
         /\ InOrder(rows)
         /\ Told(w)' = [i \in DOMAIN rows |-> Retold(w, rows[i])]
         /\ wire'[w] = <<>> /\ buffered'[w] = <<>>
  BY ToldReplayed
<1>2. UNCHANGED <<run, seen>> /\ since'[w] = published /\ pc'[w] = "replaying"
  BY DEF Subscribe, StreamTypeOK
<1>3. ASSUME NEW i \in DOMAIN log, ReadOrHeard(w, i)' PROVE i \in Replayed(w)
  <2>1. /\ log[i] \in Row /\ i \in Nat /\ 1 <= i /\ published \in Nat
        /\ \A k \in DOMAIN log : k \in Nat
    BY DEF RunInv, RunTypeOK
  <2>2. /\ seen[w].cases \in Nat \cup {Unread}
        /\ seen[w].steps \in [Cases -> Nat \cup {Unread}]
        /\ Unread \in Int /\ Unread < 0
    BY SeenType DEF Unread
  <2>3. log[i].type \in OfACase => log[i].case \in Cases
    BY <2>1, RowType
  <2>4. CASE log[i].type \in {"case_started", "case_finished"} /\ i <= seen[w].cases
    <3>1. log[i].case \in Cases
      BY <2>3, <2>4 DEF OfACase
    <3>2. \E k \in DOMAIN log :
             k <= i /\ log[k].type = "case_started" /\ log[k].case = log[i].case
      BY <2>1, <2>4 DEF RunInv, CasesWereStarted
    <3>3. SeesCase(w, log[i].case)
      BY <2>1, <2>2, <2>4, <3>2 DEF SeesCase, Rows
    <3> QED BY <2>4, <3>1, <3>3 DEF Replayed, Rows
  <2>5. CASE log[i].type = "step_recorded" /\ i <= seen[w].steps[log[i].case]
    <3>1. log[i].case \in Cases
      BY <2>3, <2>5 DEF OfACase
    <3>2. SeesCase(w, log[i].case)
      BY <2>1, <2>2, <2>5, <3>1 DEF ReadsOK
    <3> QED BY <2>5, <3>1, <3>2 DEF Replayed, Rows
  <2>6. ~(since'[w] < i /\ i <= published')
    BY <1>2, <2>1 DEF run
  <2> QED BY <1>2, <1>3, <2>4, <2>5, <2>6 DEF ReadOrHeard, run
<1>4. ASSUME NEW i \in Replayed(w) PROVE \E j \in DOMAIN (Told(w)') : SameRow(Told(w)'[j], log[i])
  <2>1. PICK j \in DOMAIN rows : rows[j] = i
    BY <1>1, ReplayIsWhole
  <2>2. j \in DOMAIN (Told(w)') /\ Told(w)'[j] = Retold(w, i)
    BY <1>1, <2>1
  <2>3. i \in DOMAIN log
    BY ReplayedType
  <2>4. SameRow(Retold(w, i), log[i])
    BY <2>3, RetoldType DEF SameRow
  <2> QED BY <2>2, <2>4
<1>5. \A i \in DOMAIN log' : ReadOrHeard(w, i)' => Holds(w, log[i])'
  BY <1>2, <1>3, <1>4 DEF Holds, SameRow, run
<1>6. \A k \in DOMAIN buffered'[w] : FALSE
  BY <1>1
<1> QED BY <1>5, <1>6 DEF DeliversOK

LEMMA DeliversQuiet ==
    ASSUME RunInv, StreamTypeOK, NEW w \in Watchers, QueuesOK(w), DeliversOK(w),
           Write(w) \/ GoLive(w) \/ Close(w)
    PROVE  DeliversOK(w)'
<1>1. Told(w)' = Told(w)
  BY ToldKept
<1>2. /\ UNCHANGED <<run, seen, since>>
      /\ Attached(w)' => Attached(w)
      /\ pc'[w] = "replaying" => pc[w] = "replaying" /\ buffered'[w] = buffered[w]
      /\ Close(w) => pc[w] = "closing"
      /\ pc'[w] = "closed" => Close(w) \/ pc[w] = "closed"
  BY DEF Write, GoLive, Close, ReplayIsDone, StreamTypeOK, Attached
<1>3. Follows(w)' => Follows(w)
  <2>1. Follows(w)' => Attached(w)' /\ (pc'[w] # "closed" \/ HasEnd(Told(w))')
    BY DEF Follows
  <2>2. HasEnd(Told(w))' => HasEnd(Told(w))
    BY <1>1 DEF HasEnd, IsTerminal
  <2>3. Attached(w) /\ (pc[w] # "closed" \/ HasEnd(Told(w))) => Follows(w)
    BY DEF Follows
  <2>4. pc'[w] # "closed" => pc[w] # "closed"
    BY <1>2 DEF Write, GoLive, Close, ReplayIsDone, StreamTypeOK
  <2> QED BY <1>2, <2>1, <2>2, <2>3, <2>4
<1> QED BY <1>1, <1>2, <1>3 DEF DeliversOK, ReadOrHeard, Holds, SameRow, run, IsOver, IsTerminal

(* What is added at the end leaves what is held.                           *)
LEMMA AppendHolds ==
    ASSUME NEW T \in Seq(Row), NEW e \in Row, NEW f,
           (\E j \in DOMAIN T : SameRow(T[j], f)) \/ SameRow(e, f)
    PROVE  \E j \in DOMAIN Append(T, e) : SameRow(Append(T, e)[j], f)
<1> DEFINE L == Append(T, e)
<1>1. /\ DOMAIN L = 1..(Len(T) + 1) /\ DOMAIN T = 1..Len(T)
      /\ \A i \in DOMAIN T : L[i] = T[i]
      /\ L[Len(T) + 1] = e /\ Len(T) \in Nat
  BY AppendFacts
<1> HIDE DEF L, SameRow
<1>2. Len(T) + 1 \in DOMAIN L /\ \A i \in DOMAIN T : i \in DOMAIN L
  BY <1>1
<1> QED BY <1>1, <1>2 DEF L

LEMMA DeliversOver ==
    ASSUME RunInv, StreamTypeOK, NEW w \in Watchers, ReadsOK(w), DeliversOK(w), EndOfOverRun(w)
    PROVE  DeliversOK(w)'
<1> DEFINE e == RunFinished(seen[w].status)
<1>1. /\ pc[w] = "replaying" /\ pc'[w] = "closing" /\ UNCHANGED <<run, seen, since>>
      /\ IsOver(w) /\ out[w] = <<>> /\ seen[w].status \in Statuses
  BY DEF EndOfOverRun, ReplayIsDone, StreamTypeOK, ReadsOK
<1>2. e \in Row /\ IsTerminal(e)
  BY <1>1, EndRow
<1>3. Told(w)' = Append(wire[w], e) /\ wire[w] \in Seq(Row)
  BY ToldOver, ToldType
<1>4. Follows(w)
  BY <1>1 DEF Follows, Attached
<1> HIDE DEF e
<1>5. ASSUME NEW i \in DOMAIN log, Holds(w, log[i])
      PROVE  \E j \in DOMAIN (Told(w)') : SameRow(Told(w)'[j], log[i])
  <2>1. PICK j \in DOMAIN Told(w) : SameRow(Told(w)[j], log[i])
    BY <1>5 DEF Holds
  <2>2. log[i] \in Row
    BY DEF RunInv, RunTypeOK
  <2>3. \/ j \in DOMAIN wire[w] /\ Told(w)[j] = wire[w][j]
        \/ \E k \in DOMAIN buffered[w] : Told(w)[j] = buffered[w][k]
    <3>1. \A k \in DOMAIN out[w] : FALSE
      BY <1>1
    <3> QED BY <3>1, ToldFrom
  <2>4. CASE j \in DOMAIN wire[w] /\ Told(w)[j] = wire[w][j]
    BY <1>2, <1>3, <2>1, <2>4, AppendHolds
  <2>5. CASE \E k \in DOMAIN buffered[w] : Told(w)[j] = buffered[w][k]
    <3>1. IsTerminal(log[i])
      BY <1>1, <2>1, <2>5 DEF DeliversOK, IsTerminal, SameRow
    <3>2. SameRow(e, log[i])
      BY <1>2, <2>2, <3>1, TerminalsAreAlike
    <3> QED BY <1>2, <1>3, <3>2, AppendHolds
  <2> QED BY <2>3, <2>4, <2>5
<1>6. \A i \in DOMAIN log' : ReadOrHeard(w, i)' => Holds(w, log[i])'
  BY <1>1, <1>4, <1>5 DEF DeliversOK, ReadOrHeard, run, Holds, SameRow
<1> QED BY <1>1, <1>6 DEF DeliversOK

LEMMA DeliversRecheck ==
    ASSUME RunInv, StreamTypeOK, NEW w \in Watchers, QueuesOK(w), DeliversOK(w), Recheck(w)
    PROVE  DeliversOK(w)'
<1> DEFINE e == RunFinished(doc)
<1>1. pc[w] = "rechecking" /\ pc'[w] = "closing" /\ UNCHANGED <<run, seen, since>>
  BY DEF Recheck, StreamTypeOK
<1>2. e \in Row
  BY EndRow DEF RunInv, RunTypeOK
<1>3. Told(w)' = Append(Told(w), e) /\ Told(w) \in Seq(Row)
  BY ToldRechecked, ToldType
<1>4. Follows(w)
  BY <1>1 DEF Follows, Attached
<1> HIDE DEF e
<1>5. ASSUME NEW i \in DOMAIN log, Holds(w, log[i])
      PROVE  \E j \in DOMAIN (Told(w)') : SameRow(Told(w)'[j], log[i])
  BY <1>2, <1>3, <1>5, AppendHolds DEF Holds
<1>6. \A i \in DOMAIN log' : ReadOrHeard(w, i)' => Holds(w, log[i])'
  BY <1>1, <1>4, <1>5 DEF DeliversOK, ReadOrHeard, run, Holds, SameRow
<1> QED BY <1>1, <1>6 DEF DeliversOK

LEMMA DeliversAbort ==
    ASSUME StreamTypeOK, NEW w \in Watchers, QueuesOK(w), EndsOK(w), Abort(w)
    PROVE  DeliversOK(w)'
<1>1. Told(w)' = wire[w]
  BY ToldAborted
<1>2. pc[w] = "live" /\ pc'[w] = "closed"
  BY DEF Abort, StreamTypeOK
<1>3. ~HasEnd(wire[w])
  BY <1>2, EndsAreIn DEF EndsOK
<1>4. ~HasEnd(Told(w))'
  BY <1>1, <1>3 DEF HasEnd, IsTerminal
<1>5. ~Follows(w)'
  BY <1>2, <1>4 DEF Follows
<1> QED BY <1>2, <1>5 DEF DeliversOK

LEMMA DeliversRead ==
    ASSUME StreamTypeOK, NEW w \in Watchers,
           Connect(w) \/ CasesAreRead(w) \/ (\E c \in Cases : StepsAreRead(w, c))
    PROVE  DeliversOK(w)'
<1>1. pc'[w] = "reading"
  BY DEF Connect, CasesAreRead, StepsAreRead, StreamTypeOK
<1> QED BY <1>1 DEF DeliversOK, Follows, Attached

LEMMA DeliversStep ==
    ASSUME RunInv, StreamTypeOK, [Next]_streamVars, NEW w \in Watchers,
           ReadsOK(w), QueuesOK(w), EndsOK(w), DeliversOK(w)
    PROVE  DeliversOK(w)'
BY StepsOf, DeliversSame, DeliversPublish, DeliversSubscribe, DeliversQuiet, DeliversOver,
   DeliversRecheck, DeliversAbort, DeliversRead DEF Reading, Serving

-------------------------------------------------------------------------------
(* Verdicts of cases are not taken back. *)

(* An event that tells of a case what its card shows.                      *)
Tells(e) == e.type \in {"case_started", "case_finished"}

Backed(e) ==
    Tells(e) /\ e.status \in Verdicts =>
        \E f \in DOMAIN log : /\ log[f].type = "case_finished"
                              /\ log[f].case = e.case
                              /\ log[f].status = e.status

Agrees(e, f) ==
    Tells(e) /\ Tells(f) /\ e.case = f.case /\ e.status \in Verdicts => f.status = e.status

SteadyOK(w) ==
    /\ \A i \in DOMAIN Told(w) : Backed(Told(w)[i])
    /\ \A i, j \in DOMAIN Told(w) : i < j => Agrees(Told(w)[i], Told(w)[j])

LEMMA SteadyInit == ASSUME Init, NEW w \in Watchers PROVE SteadyOK(w)
<1>1. Told(w) = <<>>
  BY Empties DEF Told, Init
<1> QED BY <1>1 DEF SteadyOK

LEMMA OneFinish ==
    ASSUME RunInv, NEW f \in DOMAIN log, NEW g \in DOMAIN log,
           log[f].type = "case_finished", log[g].type = "case_finished",
           log[f].case = log[g].case
    PROVE  f = g
<1>1. f \in Nat /\ g \in Nat /\ log[f].case \in Nat /\ log[g].case \in Nat
  BY RowType DEF RunInv, RunTypeOK
<1>2. ~(f < g) /\ ~(g < f)
  BY <1>1 DEF RunInv, InCaseOrder, IsTerminal
<1> QED BY <1>1, <1>2

(* A new row of the log goes with what was told before.                    *)
LEMMA NewRowAgrees ==
    ASSUME RunInv, published < Len(log), NEW e \in Row, Backed(e)
    PROVE  /\ Backed(log[published + 1])
           /\ Agrees(e, log[published + 1])
<1> DEFINE p == published + 1
<1>1. /\ p \in DOMAIN log /\ log[p] \in Row /\ log[p].case \in Nat
      /\ \A f \in DOMAIN log : f \in Nat /\ f <= p /\ log[f].case \in Nat
  BY RowType DEF RunInv, RunTypeOK
<1> HIDE DEF p
<1>2. Backed(log[p])
  BY <1>1 DEF Backed, Tells, RunInv, CasesStartRunning
<1>3. ASSUME Tells(e), Tells(log[p]), e.case = log[p].case, e.status \in Verdicts
      PROVE  log[p].status = e.status
  <2>1. PICK f \in DOMAIN log : log[f].type = "case_finished" /\ log[f].case = e.case
                                /\ log[f].status = e.status
    BY <1>3 DEF Backed
  <2>2. CASE log[p].type = "case_finished"
    BY <1>1, <1>3, <2>1, <2>2, OneFinish
  <2>3. CASE log[p].type = "case_started"
    <3>1. f < p
      BY <1>1, <2>1, <2>3
    <3>2. log[f].case < log[p].case
      BY <1>1, <2>1, <2>3, <3>1 DEF RunInv, InCaseOrder, IsTerminal
    <3> QED BY <1>1, <1>3, <2>1, <3>2
  <2> QED BY <1>3, <2>2, <2>3 DEF Tells
<1> QED BY <1>2, <1>3 DEF Agrees, p

LEMMA BackedStays ==
    ASSUME RunInv, [Next]_streamVars, NEW e, Backed(e)
    PROVE  \/ ~Tells(e) \/ e.status \notin Verdicts
           \/ \E f \in DOMAIN log' : /\ log'[f].type = "case_finished"
                                     /\ log'[f].case = e.case
                                     /\ log'[f].status = e.status
<1>1. Grown
  BY LogGrows
<1> QED BY <1>1 DEF Grown, Backed

(* Nothing is told that was not told before.                               *)
LEMMA SteadyPart ==
    ASSUME RunInv, [Next]_streamVars, NEW w \in Watchers, SteadyOK(w),
           \A i \in DOMAIN (Told(w)') : i \in DOMAIN Told(w) /\ Told(w)'[i] = Told(w)[i]
    PROVE  SteadyOK(w)'
<1>1. ASSUME NEW i \in DOMAIN (Told(w)') PROVE Backed(Told(w)[i])'
  BY BackedStays DEF SteadyOK, Backed, Tells
<1>2. ASSUME NEW i \in DOMAIN (Told(w)'), NEW j \in DOMAIN (Told(w)'), i < j
      PROVE  Agrees(Told(w)[i], Told(w)[j])'
  BY <1>2 DEF SteadyOK, Agrees, Tells
<1> QED BY <1>1, <1>2 DEF SteadyOK

(* One event more, backed and in agreement.                                *)
LEMMA SteadyAppend ==
    ASSUME RunInv, [Next]_streamVars, NEW w \in Watchers,
           NEW T \in Seq(Row), NEW e \in Row, Told(w)' = Append(T, e),
           \A i \in DOMAIN T : Backed(T[i]),
           \A i, j \in DOMAIN T : i < j => Agrees(T[i], T[j]),
           Backed(e), \A i \in DOMAIN T : Agrees(T[i], e)
    PROVE  SteadyOK(w)'
<1> DEFINE L == Append(T, e)
<1>1. /\ DOMAIN L = 1..(Len(T) + 1) /\ DOMAIN T = 1..Len(T)
      /\ \A i \in DOMAIN T : L[i] = T[i]
      /\ L[Len(T) + 1] = e /\ Len(T) \in Nat
  BY AppendFacts
<1>2. Told(w)' = L
  OBVIOUS
<1> HIDE DEF L
<1>3. ASSUME NEW i \in DOMAIN L PROVE Backed(L[i])
  BY <1>1, <1>3
<1>4. ASSUME NEW i \in DOMAIN (Told(w)') PROVE Backed(Told(w)[i])'
  BY <1>2, <1>3, BackedStays DEF Backed, Tells
<1>5. ASSUME NEW i \in DOMAIN L, NEW j \in DOMAIN L, i < j PROVE Agrees(L[i], L[j])
  <2>1. i \in DOMAIN T
    BY <1>1, <1>5
  <2>2. j \in DOMAIN T \/ L[j] = e
    BY <1>1
  <2> QED BY <1>1, <1>5, <2>1, <2>2
<1>6. ASSUME NEW i \in DOMAIN (Told(w)'), NEW j \in DOMAIN (Told(w)'), i < j
      PROVE  Agrees(Told(w)[i], Told(w)[j])'
  BY <1>2, <1>5, <1>6 DEF Agrees, Tells
<1> QED BY <1>4, <1>6 DEF SteadyOK

LEMMA SteadyPublish ==
    ASSUME RunInv, [Next]_streamVars, StreamTypeOK, NEW w \in Watchers, QueuesOK(w), SteadyOK(w),
           Publish
    PROVE  SteadyOK(w)'
<1>1. CASE Takes(w)
  <2>1. /\ Told(w)' = Append(Told(w), log[published + 1]) /\ log[published + 1] \in Row
        /\ Told(w) \in Seq(Row) /\ \A i \in DOMAIN Told(w) : Told(w)[i] \in Row
    BY <1>1, ToldPublished, ToldType
  <2>2. published < Len(log)
    BY DEF Publish
  <2>3. \A i \in DOMAIN Told(w) : Agrees(Told(w)[i], log[published + 1])
    BY <2>1, <2>2, NewRowAgrees DEF SteadyOK
  <2>4. Backed(log[published + 1])
    <3>1. RunFinished("error") \in Row /\ Backed(RunFinished("error"))
      BY EndRow DEF Backed, Tells, Statuses, Verdicts
    <3> QED BY <2>2, <3>1, NewRowAgrees
  <2> QED BY <2>1, <2>3, <2>4, SteadyAppend DEF SteadyOK
<1>2. CASE ~Takes(w)
  BY <1>2, ToldPublished, SteadyPart
<1> QED BY <1>1, <1>2

LEMMA EndsTellNothing ==
    ASSUME NEW e, IsTerminal(e)
    PROVE  Backed(e) /\ \A f : Agrees(f, e)
BY DEF Backed, Agrees, Tells, IsTerminal

LEMMA SteadySubscribe ==
    ASSUME RunInv, [Next]_streamVars, StreamTypeOK, NEW w \in Watchers, QueuesOK(w), Subscribe(w)
    PROVE  SteadyOK(w)'
<1>1. PICK rows \in [1..Cardinality(Replayed(w)) -> Replayed(w)] :
         Told(w)' = [i \in DOMAIN rows |-> Retold(w, rows[i])]
  BY ToldReplayed
<1>2. UNCHANGED run
  BY DEF Subscribe
<1>3. ASSUME NEW k \in Replayed(w), Tells(Retold(w, k)), Retold(w, k).status \in Verdicts
      PROVE  /\ log[k].case \in Cases
             /\ \E f \in Rows("case_finished", log[k].case, seen[w].cases) :
                   /\ Retold(w, k).status = log[f].status
                   /\ Retold(w, k).status = StatusRead(w, log[k].case)
  <2>1. k \in DOMAIN log /\ log[k] \in Row
    BY ReplayedType DEF RunInv, RunTypeOK
  <2>2. /\ Retold(w, k).type = log[k].type
        /\ log[k].type = "case_started" => Retold(w, k).status = StatusRead(w, log[k].case)
        /\ log[k].type # "case_started" => Retold(w, k) = log[k]
    BY <2>1, RetoldType
  <2>3. log[k].case \in Cases
    BY <1>3, <2>1, <2>2, RowType DEF Tells, OfACase
  <2>4. CASE log[k].type = "case_started"
    <3>1. Rows("case_finished", log[k].case, seen[w].cases) # {}
      BY <1>3, <2>2, <2>3, <2>4, StatusReadType DEF Verdicts
    <3> QED BY <2>2, <2>3, <2>4, <3>1, StatusReadType
  <2>5. CASE log[k].type = "case_finished"
    <3>1. k \in Rows("case_finished", log[k].case, seen[w].cases)
      BY <2>1, <2>5 DEF Replayed, Rows
    <3> QED BY <2>2, <2>3, <2>5, <3>1, StatusReadType
  <2> QED BY <1>3, <2>2, <2>4, <2>5 DEF Tells
<1>4. ASSUME NEW k \in Replayed(w) PROVE Backed(Retold(w, k)) /\ Retold(w, k).case = log[k].case
  <2>1. k \in DOMAIN log
    BY ReplayedType
  <2>2. Retold(w, k).case = log[k].case
    BY <2>1, RetoldType
  <2> QED BY <1>3, <2>2 DEF Backed, Rows
<1>5. ASSUME NEW k \in Replayed(w), NEW l \in Replayed(w) PROVE Agrees(Retold(w, k), Retold(w, l))
  <2> SUFFICES ASSUME Tells(Retold(w, k)), Tells(Retold(w, l)), log[k].case = log[l].case,
                      Retold(w, k).status \in Verdicts
               PROVE  Retold(w, l).status = Retold(w, k).status
    BY <1>4 DEF Agrees
  <2>1. PICK f \in Rows("case_finished", log[k].case, seen[w].cases) :
           Retold(w, k).status = log[f].status /\ log[f].status = StatusRead(w, log[k].case)
    BY <1>3
  <2>2. /\ l \in DOMAIN log
        /\ Retold(w, l).type = log[l].type
        /\ log[l].type = "case_started" => Retold(w, l).status = StatusRead(w, log[l].case)
        /\ log[l].type # "case_started" => Retold(w, l) = log[l]
    BY ReplayedType, RetoldType
  <2>3. CASE log[l].type = "case_started"
    BY <2>1, <2>2, <2>3
  <2>4. CASE log[l].type = "case_finished"
    BY <2>1, <2>2, <2>4, OneFinish DEF Rows
  <2> QED BY <2>2, <2>3, <2>4 DEF Tells
<1>6. \A i \in DOMAIN (Told(w)') : Backed(Told(w)'[i])
  BY <1>1, <1>4
<1>7. \A i, j \in DOMAIN (Told(w)') : Agrees(Told(w)'[i], Told(w)'[j])
  BY <1>1, <1>5
<1> QED BY <1>2, <1>6, <1>7 DEF SteadyOK, Backed, Agrees, Tells, run

LEMMA SteadyStep ==
    ASSUME RunInv, StreamTypeOK, [Next]_streamVars, NEW w \in Watchers,
           ReadsOK(w), QueuesOK(w), SteadyOK(w)
    PROVE  SteadyOK(w)'
<1>1. CASE Told(w)' = Told(w)
  BY <1>1, SteadyPart
<1>2. CASE Publish
  BY <1>2, SteadyPublish
<1>3. CASE Subscribe(w)
  BY <1>3, SteadySubscribe
<1>4. /\ \A i \in DOMAIN wire[w] : i \in DOMAIN Told(w) /\ Told(w)[i] = wire[w][i]
      /\ wire[w] \in Seq(Row) /\ Told(w) \in Seq(Row)
  BY ToldType
<1>5. CASE EndOfOverRun(w)
  <2> DEFINE e == RunFinished(seen[w].status)
  <2>1. e \in Row /\ IsTerminal(e)
    BY <1>5, EndRow DEF EndOfOverRun, ReplayIsDone, ReadsOK
  <2>2. Told(w)' = Append(wire[w], e)
    BY <1>5, ToldOver
  <2> HIDE DEF e
  <2> QED BY <1>4, <2>1, <2>2, EndsTellNothing, SteadyAppend DEF SteadyOK
<1>6. CASE Recheck(w)
  <2> DEFINE e == RunFinished(doc)
  <2>1. e \in Row /\ IsTerminal(e)
    BY EndRow DEF RunInv, RunTypeOK
  <2>2. Told(w)' = Append(Told(w), e)
    BY <1>6, ToldRechecked
  <2> HIDE DEF e
  <2> QED BY <1>4, <2>1, <2>2, EndsTellNothing, SteadyAppend DEF SteadyOK
<1>7. CASE Abort(w)
  BY <1>4, <1>7, ToldAborted, SteadyPart
<1> QED BY <1>1, <1>2, <1>3, <1>5, <1>6, <1>7, StepsOf, ToldKept DEF Reading, Serving

-------------------------------------------------------------------------------
(* The stream. *)

WatcherOK(w) == ReadsOK(w) /\ QueuesOK(w) /\ EndsOK(w) /\ DeliversOK(w) /\ SteadyOK(w)

(* The inductive invariant of the stream.                                  *)
StreamInv ==
    /\ RunInv
    /\ StreamTypeOK
    /\ \A w \in Watchers : WatcherOK(w)

LEMMA StreamInvInit == Init => StreamInv
BY RunInit, StreamsInit, EndsInit, DeliversInit, SteadyInit DEF StreamInv, WatcherOK

LEMMA StreamInvStep == StreamInv /\ [Next]_streamVars => StreamInv'
<1> SUFFICES ASSUME StreamInv, [Next]_streamVars PROVE StreamInv'
  OBVIOUS
<1>1. RunInv'
  BY RunStep DEF StreamInv
<1>2. StreamTypeOK'
  BY StreamTypeStep DEF StreamInv, WatcherOK
<1>3. ASSUME NEW w \in Watchers PROVE WatcherOK(w)'
  BY ReadsStep, QueuesStep, EndsStep, DeliversStep, SteadyStep DEF StreamInv, WatcherOK
<1> QED BY <1>1, <1>2, <1>3 DEF StreamInv

LEMMA InvEnds == StreamInv => OneEnding /\ EndIsTheVerdict
<1> SUFFICES ASSUME StreamInv, NEW w \in Watchers
             PROVE  /\ Ends(w) \subseteq {Len(wire[w])}
                    /\ pc[w] = "closed" /\ Stays(w) => Ends(w) # {}
                    /\ \A i \in DOMAIN wire[w] :
                          IsTerminal(wire[w][i]) /\ doc \in Verdicts => wire[w][i].status = doc
  BY DEF OneEnding, EndIsTheVerdict
<1>1. /\ StreamTypeOK /\ EndsOK(w)
      /\ \A i \in DOMAIN wire[w] : i \in DOMAIN Told(w) /\ Told(w)[i] = wire[w][i]
      /\ Len(Told(w)) = Len(wire[w]) + Len(out[w]) + Len(buffered[w])
  BY ToldType DEF StreamInv, WatcherOK
<1>2. /\ DOMAIN wire[w] = 1..Len(wire[w])
      /\ Len(wire[w]) \in Nat /\ Len(out[w]) \in Nat /\ Len(buffered[w]) \in Nat
  BY <1>1 DEF StreamTypeOK
<1>3. Ends(w) \subseteq {Len(wire[w])}
  <2> SUFFICES ASSUME NEW i \in DOMAIN wire[w], IsTerminal(wire[w][i]) PROVE i = Len(wire[w])
    BY DEF Ends
  <2>1. i = Len(Told(w))
    BY <1>1 DEF EndsOK
  <2> DEFINE n == Len(wire[w])
             m == Len(out[w])
             l == Len(buffered[w])
  <2>2. i \in 1..n /\ i = n + m + l /\ n \in Nat /\ m \in Nat /\ l \in Nat
    BY <1>1, <1>2, <2>1
  <2> HIDE DEF n, m, l
  <2>3. i = n
    BY <2>2
  <2> QED BY <2>3 DEF n
<1>4. pc[w] = "closed" /\ Stays(w) => Ends(w) # {}
  BY <1>1 DEF Ends, EndsOK, HasEnd
<1> QED BY <1>1, <1>3, <1>4 DEF EndsOK

LEMMA InvDelivers ==
    ASSUME StreamInv PROVE DeliversWhatItKnows
<1> SUFFICES ASSUME NEW w \in Watchers, Ends(w) # {}, NEW i \in DOMAIN log, ReadOrHeard(w, i)
             PROVE  Carries(w, log[i])
  BY DEF DeliversWhatItKnows
<1>1. PICK k \in DOMAIN wire[w] : IsTerminal(wire[w][k])
  BY DEF Ends
<1>2. /\ StreamTypeOK /\ EndsOK(w) /\ QueuesOK(w) /\ DeliversOK(w)
      /\ \A n \in DOMAIN wire[w] : n \in DOMAIN Told(w) /\ Told(w)[n] = wire[w][n]
      /\ Len(Told(w)) = Len(wire[w]) + Len(out[w]) + Len(buffered[w])
      /\ DOMAIN Told(w) = 1..Len(Told(w))
  BY ToldType DEF StreamInv, WatcherOK
<1>3. k = Len(Told(w))
  BY <1>1, <1>2 DEF EndsOK
<1>4. DOMAIN Told(w) = DOMAIN wire[w]
  <2> DEFINE n == Len(wire[w])
             m == Len(out[w])
             l == Len(buffered[w])
  <2>1. /\ k \in 1..n /\ k = n + m + l /\ n \in Nat /\ m \in Nat /\ l \in Nat
        /\ DOMAIN wire[w] = 1..n /\ DOMAIN Told(w) = 1..(n + m + l)
    BY <1>1, <1>2, <1>3 DEF StreamTypeOK
  <2> HIDE DEF n, m, l
  <2> QED BY <2>1
<1>5. HasEnd(Told(w))
  BY <1>1, <1>2 DEF HasEnd
<1>6. Attached(w)
  BY <1>1, <1>2 DEF QueuesOK
<1>7. Holds(w, log[i])
  BY <1>2, <1>5, <1>6 DEF DeliversOK, Follows
<1> QED BY <1>2, <1>4, <1>7 DEF Holds, Carries, SameRow

(* The run, the queue of every handler and what its watcher is told agree   *)
(* as StreamInv says, whatever the readers, the bus and the writers do.     *)
THEOREM StreamsKeepInv == Spec => []StreamInv
BY StreamInvInit, StreamInvStep, PTL DEF Spec

(* A stream ends in exactly one run_finished, and carries nothing after it.*)
THEOREM StreamsEndOnce == Spec => []OneEnding
BY StreamsKeepInv, InvEnds, PTL

(* The end a watcher is told is the verdict the store has.                 *)
THEOREM EndsAreTrue == Spec => []EndIsTheVerdict
BY StreamsKeepInv, InvEnds, PTL

(* A stream that ends has carried all its reads found and the bus          *)
(* published after it subscribed.                                          *)
THEOREM NothingKnownIsLost == Spec => []DeliversWhatItKnows
BY StreamsKeepInv, InvDelivers, PTL

-------------------------------------------------------------------------------
(* The page on its stream. *)

(* The page acts through its watcher and leaves the stream as it is.       *)
LEMMA PageStepsStream == [PageNext]_pageVars => [Next]_streamVars
<1> SUFFICES ASSUME [PageNext]_pageVars PROVE [Next]_streamVars
  OBVIOUS
<1>1. CASE OnServer
  BY <1>1 DEF OnServer, Next
<1>2. ASSUME NEW w \in Watchers, Open(w) \/ FetchReads(w) \/ FetchAnswers(w) \/ FetchFails(w) \/ Hear(w)
      PROVE  UNCHANGED streamVars
  BY <1>2 DEF Open, FetchReads, FetchAnswers, FetchFails, Hear
<1>3. ASSUME NEW w \in Watchers, PageConnects(w) \/ Drop(w) PROVE Next
  BY <1>3 DEF PageConnects, Drop, Next
<1>4. CASE UNCHANGED pageVars
  BY <1>4 DEF pageVars
<1> QED BY <1>1, <1>2, <1>3, <1>4 DEF PageNext, PageStep

(* What a page does to the stream, a watcher of RunStream may do: what is  *)
(* proved of the stream holds under its pages.                             *)
THEOREM PageKeepsToStream == PageSpec => Spec
<1>1. PageInit => Init
  BY DEF PageInit
<1> QED BY <1>1, PageStepsStream, PTL DEF PageSpec, Spec

(* So every page is told one end, the verdict, and all its handler knew.   *)
THEOREM PagesAreServed ==
    PageSpec => [](OneEnding /\ EndIsTheVerdict /\ DeliversWhatItKnows)
BY PageKeepsToStream, StreamsEndOnce, EndsAreTrue, NothingKnownIsLost, PTL

-------------------------------------------------------------------------------
(* The page. *)

Card == [status : Statuses \cup {NoStatus}, steps : SUBSET Nat]

PageTypeOK ==
    /\ cases \in [Watchers -> [Cases -> Card]]
    /\ heard \in [Watchers -> Nat]
    /\ \A w \in Watchers : heard[w] <= Len(wire[w])

(* A verdict on a card was in an event the page has heard.                 *)
CardsWereTold ==
    \A w \in Watchers, c \in Cases :
        cases[w][c].status \in Verdicts =>
            \E i \in DOMAIN wire[w] :
                /\ i <= heard[w]
                /\ Tells(wire[w][i]) /\ wire[w][i].case = c
                /\ wire[w][i].status = cases[w][c].status

PageInv == PageTypeOK /\ CardsWereTold

LEMMA PageInvInit == PageInit => PageInv
<1> SUFFICES ASSUME PageInit PROVE PageInv
  OBVIOUS
<1>1. NoCase \in Card /\ NoCase.status \notin Verdicts
  BY DEF NoCase, Card, NoStatus, Verdicts
<1>2. \A w \in Watchers : Len(wire[w]) = 0
  BY DEF PageInit, Init
<1> QED BY <1>1, <1>2 DEF PageInit, PageInv, PageTypeOK, CardsWereTold

(* What is on the wire stays there.                                        *)
LEMMA WireGrows ==
    ASSUME StreamTypeOK, [Next]_streamVars, NEW w \in Watchers
    PROVE  /\ Len(wire[w]) \in Nat /\ DOMAIN wire[w] = 1..Len(wire[w])
           /\ \A i \in DOMAIN wire[w] : i \in DOMAIN wire'[w] /\ wire'[w][i] = wire[w][i]
           /\ Len(wire[w]) <= Len(wire'[w])
<1>1. wire[w] \in Seq(Row) /\ out[w] \in Seq(Row)
  BY DEF StreamTypeOK
<1>2. CASE wire'[w] = wire[w]
  BY <1>1, <1>2
<1>3. CASE Write(w)
  <2>1. wire'[w] = Append(wire[w], Head(out[w])) /\ Head(out[w]) \in Row
    BY <1>1, <1>3 DEF Write, StreamTypeOK
  <2> QED BY <1>1, <2>1, AppendFacts
<1>4. \/ wire'[w] = wire[w]
      \/ Write(w)
  BY StepsOf DEF Same, Publish, Connect, Reading, CasesAreRead, StepsAreRead, Subscribe, Serving,
                 EndOfOverRun, GoLive, Recheck, Close, Abort
<1> QED BY <1>2, <1>3, <1>4

(* Of two events of a case on the wire the later one says what the earlier *)
(* one said.                                                               *)
LEMMA WireAgrees ==
    ASSUME StreamTypeOK, NEW w \in Watchers, SteadyOK(w),
           NEW i \in DOMAIN wire[w], NEW j \in DOMAIN wire[w], i < j
    PROVE  Agrees(wire[w][i], wire[w][j])
BY ToldType DEF SteadyOK

(* Hear, on the card of one case.                                          *)
Heard(w) == wire[w][heard[w] + 1]

LEMMA HearsOnce ==
    ASSUME StreamTypeOK, PageTypeOK, NEW w \in Watchers, Hear(w)
    PROVE  /\ heard[w] + 1 \in DOMAIN wire[w] /\ Heard(w) \in Row
           /\ heard' = [heard EXCEPT ![w] = @ + 1]
           /\ UNCHANGED streamVars
           /\ Heard(w).type \in OfACase =>
                /\ Heard(w).case \in Cases
                /\ cases' = [cases EXCEPT ![w][Heard(w).case] =
                                NextCase(cases[w][Heard(w).case], Heard(w))]
           /\ Heard(w).type \notin OfACase => cases' = cases
<1>1. wire[w] \in Seq(Row) /\ heard[w] \in Nat /\ heard[w] < Len(wire[w])
  BY DEF StreamTypeOK, PageTypeOK, Hear, Unheard
<1>2. heard[w] + 1 \in DOMAIN wire[w] /\ Heard(w) \in Row
  BY <1>1 DEF Heard
<1>3. Heard(w).type \in OfACase => Heard(w).case \in Cases
  BY <1>2, RowType
<1>4. /\ heard' = [heard EXCEPT ![w] = @ + 1]
      /\ UNCHANGED streamVars
      /\ cases' = IF Heard(w).type \in OfACase
                  THEN [cases EXCEPT ![w][Heard(w).case] = NextCase(@, Heard(w))]
                  ELSE cases
  BY DEF Hear, Heard, OfACase
<1>5. Heard(w).type \in OfACase =>
         cases' = [cases EXCEPT ![w][Heard(w).case] =
                      NextCase(cases[w][Heard(w).case], Heard(w))]
  BY <1>3, <1>4 DEF PageTypeOK
<1> QED BY <1>2, <1>3, <1>4, <1>5

LEMMA NextCardType ==
    ASSUME NEW card \in Card, NEW e \in Row, e.type \in OfACase
    PROVE  /\ NextCase(card, e) \in Card
           /\ card.steps \subseteq NextCase(card, e).steps
           /\ Tells(e) => NextCase(card, e).status = e.status
           /\ ~Tells(e) => \/ NextCase(card, e).status = card.status
                           \/ card.status = NoStatus /\ NextCase(card, e).status = "running"
<1>1. /\ e.index \in Nat /\ e.status \in Statuses \cup {NoStatus}
      /\ card.status \in Statuses \cup {NoStatus} /\ card.steps \subseteq Nat
      /\ "running" \in Statuses
  BY RowType DEF Card, Statuses, Unsettled
<1>2. CASE Tells(e)
  <2>1. NextCase(card, e) = [card EXCEPT !.status = e.status]
    BY <1>2 DEF NextCase, Tells
  <2> QED BY <1>1, <1>2, <2>1 DEF Card
<1>3. CASE e.type = "step_recorded"
  <2> DEFINE s == IF card.status = NoStatus THEN "running" ELSE card.status
             t == card.steps \cup {e.index}
  <2>1. NextCase(card, e) = [card EXCEPT !.steps = t, !.status = s]
    BY <1>3 DEF NextCase
  <2>2. s \in Statuses \cup {NoStatus} /\ t \subseteq Nat
    BY <1>1
  <2>3. NextCase(card, e).steps = t /\ NextCase(card, e).status = s /\ NextCase(card, e) \in Card
    <3> HIDE DEF s, t
    <3> QED BY <2>1, <2>2 DEF Card
  <2> QED BY <1>3, <2>3 DEF Tells
<1> QED BY <1>2, <1>3 DEF OfACase, Tells

LEMMA PageTypeStep ==
    ASSUME StreamTypeOK, PageTypeOK, [PageNext]_pageVars
    PROVE  PageTypeOK'
<1>1. [Next]_streamVars
  BY PageStepsStream
<1>2. CASE UNCHANGED <<cases, heard>>
  BY <1>1, <1>2, WireGrows DEF PageTypeOK
<1>3. ASSUME NEW w \in Watchers, Hear(w) PROVE PageTypeOK'
  <2>1. /\ heard[w] + 1 \in DOMAIN wire[w] /\ Heard(w) \in Row
        /\ heard' = [heard EXCEPT ![w] = @ + 1] /\ wire' = wire
        /\ Heard(w).type \in OfACase =>
             /\ Heard(w).case \in Cases
             /\ cases' = [cases EXCEPT ![w][Heard(w).case] =
                             NextCase(cases[w][Heard(w).case], Heard(w))]
        /\ Heard(w).type \notin OfACase => cases' = cases
    BY <1>3, HearsOnce DEF streamVars, streams
  <2>2. cases' \in [Watchers -> [Cases -> Card]]
    <3>1. CASE Heard(w).type \in OfACase
      <4> DEFINE n == NextCase(cases[w][Heard(w).case], Heard(w))
                 h == Heard(w).case
      <4>1. n \in Card
        BY <2>1, <3>1, NextCardType DEF PageTypeOK
      <4>2. h \in Cases /\ cases' = [cases EXCEPT ![w][h] = n]
        BY <2>1, <3>1
      <4> HIDE DEF n, h
      <4> QED BY <4>1, <4>2 DEF PageTypeOK
    <3> QED BY <2>1, <3>1 DEF PageTypeOK
  <2>3. wire[w] \in Seq(Row)
    BY DEF StreamTypeOK
  <2>4. heard[w] + 1 <= Len(wire[w]) /\ heard[w] + 1 \in Nat
    BY <2>1, <2>3 DEF PageTypeOK
  <2> QED BY <2>1, <2>2, <2>4 DEF PageTypeOK
<1> QED BY <1>2, <1>3
  DEF PageNext, OnServer, PageStep, Open, FetchReads, FetchAnswers, FetchFails, PageConnects, Drop,
      page, pageVars

(* One step on one card: it may change only by the event that is heard.    *)
LEMMA CardStep ==
    ASSUME StreamTypeOK, PageTypeOK, [PageNext]_pageVars, NEW w \in Watchers, NEW c \in Cases
    PROVE  \/ cases'[w][c] = cases[w][c] /\ heard[w] <= heard'[w]
           \/ /\ UNCHANGED streamVars /\ heard'[w] = heard[w] + 1
              /\ heard'[w] \in DOMAIN wire[w]
              /\ Heard(w) \in Row /\ Heard(w).type \in OfACase /\ Heard(w).case = c
              /\ cases'[w][c] = NextCase(cases[w][c], Heard(w))
<1>1. CASE UNCHANGED <<cases, heard>>
  BY <1>1 DEF PageTypeOK
<1>2. ASSUME NEW x \in Watchers, Hear(x)
      PROVE  \/ cases'[w][c] = cases[w][c] /\ heard[w] <= heard'[w]
             \/ /\ UNCHANGED streamVars /\ heard'[w] = heard[w] + 1
                /\ heard'[w] \in DOMAIN wire[w]
                /\ Heard(w) \in Row /\ Heard(w).type \in OfACase /\ Heard(w).case = c
                /\ cases'[w][c] = NextCase(cases[w][c], Heard(w))
  <2> DEFINE n == NextCase(cases[x][Heard(x).case], Heard(x))
             h == Heard(x).case
  <2>1. /\ heard[x] + 1 \in DOMAIN wire[x] /\ Heard(x) \in Row
        /\ heard' = [heard EXCEPT ![x] = @ + 1] /\ UNCHANGED streamVars
        /\ Heard(x).type \in OfACase => h \in Cases /\ cases' = [cases EXCEPT ![x][h] = n]
        /\ Heard(x).type \notin OfACase => cases' = cases
    BY <1>2, HearsOnce
  <2>2. heard[w] \in Nat /\ heard[w] <= heard'[w] /\ heard'[x] = heard[x] + 1
    BY <2>1 DEF PageTypeOK
  <2>3. CASE Heard(x).type \in OfACase /\ x = w /\ h = c
    <3>1. cases'[w][c] = n
      <4> HIDE DEF n, h
      <4> QED BY <2>1, <2>3 DEF PageTypeOK
    <3> QED BY <2>1, <2>2, <2>3, <3>1
  <2>4. CASE Heard(x).type \in OfACase /\ ~(x = w /\ h = c)
    <3>1. cases'[w][c] = cases[w][c]
      <4> HIDE DEF n, h
      <4>1. cases' = [cases EXCEPT ![x] = [cases[x] EXCEPT ![h] = n]]
        BY <2>1, <2>4
      <4>2. CASE x # w
        BY <4>1, <4>2 DEF PageTypeOK
      <4>3. CASE x = w /\ h # c
        <5>1. cases'[w] = [cases[w] EXCEPT ![h] = n]
          BY <4>1, <4>3 DEF PageTypeOK
        <5>2. cases[w] \in [Cases -> Card]
          BY DEF PageTypeOK
        <5> QED BY <4>3, <5>1, <5>2
      <4> QED BY <2>4, <4>2, <4>3
    <3> QED BY <2>2, <3>1
  <2> QED BY <2>1, <2>2, <2>3, <2>4
<1> QED BY <1>1, <1>2
  DEF PageNext, OnServer, PageStep, Open, FetchReads, FetchAnswers, FetchFails, PageConnects, Drop,
      page, pageVars

LEMMA CardsStep ==
    ASSUME StreamTypeOK, PageInv, [PageNext]_pageVars PROVE CardsWereTold'
<1> SUFFICES ASSUME NEW w \in Watchers, NEW c \in Cases, cases'[w][c].status \in Verdicts
             PROVE  \E i \in DOMAIN wire'[w] :
                       /\ i <= heard'[w]
                       /\ Tells(wire'[w][i]) /\ wire'[w][i].case = c
                       /\ wire'[w][i].status = cases'[w][c].status
  BY DEF CardsWereTold, Tells
<1>1. /\ \A i \in DOMAIN wire[w] : i \in DOMAIN wire'[w] /\ wire'[w][i] = wire[w][i]
      /\ DOMAIN wire[w] = 1..Len(wire[w]) /\ Len(wire[w]) \in Nat
      /\ PageTypeOK /\ PageTypeOK'
  BY PageStepsStream, WireGrows, PageTypeStep DEF PageInv
<1>2. heard[w] \in Nat /\ heard'[w] \in Nat /\ cases[w][c] \in Card
  BY <1>1 DEF PageTypeOK
<1>3. heard[w] <= heard'[w] /\ cases[w][c].status = cases'[w][c].status =>
        \E i \in DOMAIN wire'[w] :
           /\ i <= heard'[w]
           /\ Tells(wire'[w][i]) /\ wire'[w][i].case = c
           /\ wire'[w][i].status = cases'[w][c].status
  BY <1>1, <1>2 DEF PageInv, CardsWereTold
<1>4. CASE cases'[w][c] = cases[w][c] /\ heard[w] <= heard'[w]
  BY <1>3, <1>4
<1>5. CASE /\ UNCHANGED streamVars /\ heard'[w] = heard[w] + 1 /\ heard'[w] \in DOMAIN wire[w]
           /\ Heard(w) \in Row /\ Heard(w).type \in OfACase /\ Heard(w).case = c
           /\ cases'[w][c] = NextCase(cases[w][c], Heard(w))
  <2>1. CASE Tells(Heard(w))
    <3>1. cases'[w][c].status = Heard(w).status
      BY <1>2, <1>5, <2>1, NextCardType
    <3>2. wire'[w][heard'[w]] = Heard(w) /\ heard'[w] \in DOMAIN wire'[w]
      BY <1>1, <1>5 DEF Heard
    <3> QED BY <1>2, <1>5, <2>1, <3>1, <3>2
  <2>2. CASE ~Tells(Heard(w))
    <3>1. cases'[w][c].status = cases[w][c].status
      BY <1>2, <1>5, <2>2, NextCardType DEF Verdicts
    <3> QED BY <1>2, <1>3, <1>5, <3>1
  <2> QED BY <2>1, <2>2
<1> QED BY <1>1, <1>4, <1>5, CardStep

LEMMA PageInvStep ==
    ASSUME StreamInv, PageInv, [PageNext]_pageVars PROVE PageInv'
BY PageTypeStep, CardsStep DEF PageInv, StreamInv

LEMMA CardsGrow ==
    ASSUME StreamInv, PageInv, [PageNext]_pageVars, NEW w \in Watchers, NEW c \in Cases
    PROVE  /\ cases[w][c].steps \subseteq cases'[w][c].steps
           /\ cases[w][c].status \in Verdicts => cases'[w][c].status = cases[w][c].status
<1>1. StreamTypeOK /\ PageTypeOK /\ SteadyOK(w)
  BY DEF StreamInv, PageInv, WatcherOK
<1>2. heard[w] \in Nat /\ cases[w][c] \in Card
  BY <1>1 DEF PageTypeOK
<1>3. CASE cases'[w][c] = cases[w][c]
  BY <1>3
<1>4. CASE /\ UNCHANGED streamVars /\ heard'[w] = heard[w] + 1 /\ heard'[w] \in DOMAIN wire[w]
           /\ Heard(w) \in Row /\ Heard(w).type \in OfACase /\ Heard(w).case = c
           /\ cases'[w][c] = NextCase(cases[w][c], Heard(w))
  <2>1. cases[w][c].steps \subseteq cases'[w][c].steps
    BY <1>2, <1>4, NextCardType
  <2>2. ASSUME cases[w][c].status \in Verdicts, Tells(Heard(w))
        PROVE  cases'[w][c].status = cases[w][c].status
    <3>1. PICK i \in DOMAIN wire[w] :
             /\ i <= heard[w] /\ Tells(wire[w][i]) /\ wire[w][i].case = c
             /\ wire[w][i].status = cases[w][c].status
      BY <2>2 DEF PageInv, CardsWereTold
    <3>2. i \in Nat /\ i < heard'[w]
      BY <1>1, <1>2, <1>4, <3>1 DEF StreamTypeOK
    <3>3. Agrees(wire[w][i], Heard(w))
      BY <1>1, <1>4, <3>2, WireAgrees DEF Heard
    <3>4. Heard(w).status = cases[w][c].status
      BY <1>4, <2>2, <3>1, <3>3 DEF Agrees
    <3> QED BY <1>2, <1>4, <2>2, <3>4, NextCardType
  <2>3. ASSUME cases[w][c].status \in Verdicts, ~Tells(Heard(w))
        PROVE  cases'[w][c].status = cases[w][c].status
    BY <1>2, <1>4, <2>3, NextCardType DEF Verdicts, NoStatus
  <2> QED BY <2>1, <2>2, <2>3
<1> QED BY <1>1, <1>3, <1>4, CardStep

(* The timeline on a page only grows: what replay and live events tell     *)
(* twice does not take a verdict or a step back.                           *)
THEOREM TimelinesGrow == PageSpec => TimelineGrows
<1>1. PageInit => StreamInv /\ PageInv
  BY StreamInvInit, PageInvInit DEF PageInit
<1>2. StreamInv /\ PageInv /\ [PageNext]_pageVars => StreamInv' /\ PageInv'
  BY PageStepsStream, StreamInvStep, PageInvStep
<1>3. StreamInv /\ PageInv /\ [PageNext]_pageVars =>
        [\A w \in Watchers : \A c \in Cases :
            /\ cases[w][c].steps \subseteq cases'[w][c].steps
            /\ cases[w][c].status \in Verdicts =>
                  cases'[w][c].status = cases[w][c].status]_pageVars
  BY CardsGrow
<1> QED BY <1>1, <1>2, <1>3, PTL DEF PageSpec, TimelineGrows

===============================================================================
