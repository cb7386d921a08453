--------------------------- MODULE RunServer_proofs ---------------------------
(***************************************************************************)
(* Proofs about RunServer, for every set of requests, any batch sizes, any *)
(* clock and any number of faults and restarts.                            *)
(***************************************************************************)
EXTENDS RunServer, SequenceTheorems, TLAPS

-------------------------------------------------------------------------------
(* The inductive invariant. *)

NoDuplicates(s) == \A i, j \in DOMAIN s : s[i] = s[j] => i = j

(* Where a handler stands and what it has written.                         *)
HandlersAgree ==
    \A q \in Requests :
        /\ \A i \in 1..Size[q] : i > at[q] => doc[<<q, i>>] = "absent"
        /\ post[q] \in {"idle", "writing"} => doc[<<q, at[q]>>] = "absent"
        /\ post[q] = "idle" => at[q] = 1
        /\ post[q] = "written" =>
              /\ doc[<<q, at[q]>>] = "queued"
              /\ <<q, at[q]>> \notin Jobs \cup {activeRunId} \cup lost

(* Where the executor stands and what the active document says.            *)
ExecutorAgrees ==
    /\ exec = "beginning" => doc[activeRunId] = "queued"
    /\ exec \in {"begun", "cases", "finishing"} => doc[activeRunId] = "running"
    /\ exec = "finishing" => verdict \in {"passed", "failed"}
    /\ exec = "finished" => doc[activeRunId] = verdict
    /\ exec = "crashing" => /\ doc[activeRunId] # "absent"
                            /\ ~LostReplies => doc[activeRunId] \in Unsettled
    /\ exec = "crashed" => doc[activeRunId] = "error"

(* A lost run waits for nobody.                                            *)
LostAgree == /\ \A r \in lost : doc[r] \in Unsettled
             /\ lost \cap (Jobs \cup {activeRunId}) = {}

DownIsEmpty == server = "down" => /\ activeRunId = NoRun
                                  /\ finished = {}
                                  /\ \A q \in Requests : post[q] \notin {"writing", "written"}

IInv == /\ TypeOK
        /\ QueueAgreesWithStore
        /\ NoOrphans
        /\ OneRunOnTheDevice
        /\ FinishedHaveVerdict
        /\ HandlersAgree
        /\ ExecutorAgrees
        /\ LostAgree
        /\ DownIsEmpty

-------------------------------------------------------------------------------
(* Facts about runs and about sequences of jobs. *)

LEMMA RunOf == \A q \in Requests : \A i \in 1..Size[q] : <<q, i>> \in Runs
  BY DEF Runs

(* Appending a job that is not there adds it and makes no duplicate.       *)
LEMMA AppendJob ==
  ASSUME NEW jobs \in Seq(Runs), NEW r \in Runs
  PROVE  /\ Append(jobs, r) \in Seq(Runs)
         /\ Append(jobs, r) # <<>>
         /\ ToSet(Append(jobs, r)) = ToSet(jobs) \cup {r}
         /\ NoDuplicates(jobs) /\ r \notin ToSet(jobs) => NoDuplicates(Append(jobs, r))
  <1> DEFINE more == Append(jobs, r)
  <1>1. /\ more \in Seq(Runs) /\ Len(more) = Len(jobs) + 1 /\ Len(jobs) \in Nat
        /\ \A i \in 1..Len(jobs) : more[i] = jobs[i]
        /\ more[Len(jobs) + 1] = r
    OBVIOUS
  <1> HIDE DEF more
  <1>2. more # <<>>
    BY <1>1
  <1>3. ASSUME NEW x \in ToSet(more) PROVE x \in ToSet(jobs) \cup {r}
    <2>1. PICK i \in 1..Len(more) : x = more[i]
      BY <1>1 DEF ToSet
    <2> QED BY <2>1, <1>1 DEF ToSet
  <1>4. ASSUME NEW x \in ToSet(jobs) \cup {r} PROVE x \in ToSet(more)
    <2>1. CASE x = r
      BY <2>1, <1>1 DEF ToSet
    <2>2. CASE x \in ToSet(jobs)
      <3>1. PICK i \in 1..Len(jobs) : x = jobs[i]
        BY <2>2 DEF ToSet
      <3> QED BY <3>1, <1>1 DEF ToSet
    <2> QED BY <2>1, <2>2
  <1>5. NoDuplicates(jobs) /\ r \notin ToSet(jobs) => NoDuplicates(more)
    BY <1>1 DEF NoDuplicates, ToSet
  <1> QED BY <1>1, <1>2, <1>3, <1>4, <1>5 DEF more

(* Shifting the first job leaves the others and no duplicate.              *)
LEMMA ShiftJob ==
  ASSUME NEW jobs \in Seq(Runs), jobs # <<>>, NoDuplicates(jobs)
  PROVE  /\ Head(jobs) \in Runs
         /\ Tail(jobs) \in Seq(Runs)
         /\ ToSet(jobs) = ToSet(Tail(jobs)) \cup {Head(jobs)}
         /\ Head(jobs) \notin ToSet(Tail(jobs))
         /\ NoDuplicates(Tail(jobs))
  <1>1. /\ Head(jobs) = jobs[1] /\ Len(jobs) >= 1
        /\ Tail(jobs) \in Seq(Runs) /\ Len(Tail(jobs)) = Len(jobs) - 1
        /\ \A i \in 1..Len(Tail(jobs)) : Tail(jobs)[i] = jobs[i + 1]
    OBVIOUS
  <1>2. ASSUME NEW x \in ToSet(jobs) PROVE x \in ToSet(Tail(jobs)) \cup {Head(jobs)}
    <2>1. PICK i \in 1..Len(jobs) : x = jobs[i]
      BY DEF ToSet
    <2>2. CASE i = 1
      BY <1>1, <2>1, <2>2
    <2>3. CASE i # 1
      <3>1. PICK k \in 1..Len(Tail(jobs)) : x = Tail(jobs)[k]
        <4>1. i - 1 \in 1..Len(Tail(jobs)) /\ x = Tail(jobs)[i - 1]
          BY <1>1, <2>1, <2>3
        <4> QED BY <4>1
      <3>2. DOMAIN Tail(jobs) = 1..Len(Tail(jobs))
        BY <1>1
      <3> QED BY <3>1, <3>2 DEF ToSet
    <2> QED BY <2>2, <2>3
  <1>3. ASSUME NEW x \in ToSet(Tail(jobs)) \cup {Head(jobs)} PROVE x \in ToSet(jobs)
    <2>1. CASE x = Head(jobs)
      BY <1>1, <2>1 DEF ToSet
    <2>2. CASE x \in ToSet(Tail(jobs))
      <3>1. PICK i \in 1..Len(Tail(jobs)) : x = Tail(jobs)[i]
        BY <2>2, <1>1 DEF ToSet
      <3>2. i + 1 \in 1..Len(jobs) /\ x = jobs[i + 1]
        BY <3>1, <1>1
      <3> QED BY <3>2 DEF ToSet
    <2> QED BY <2>1, <2>2
  <1>4. \A i \in 1..Len(Tail(jobs)) : Tail(jobs)[i] # Head(jobs)
    BY <1>1 DEF NoDuplicates
  <1>5. NoDuplicates(Tail(jobs))
    BY <1>1 DEF NoDuplicates
  <1> QED BY <1>1, <1>2, <1>3, <1>4, <1>5 DEF ToSet

(* What a drain leaves behind: the jobs it was given are the waiting ones  *)
(* and the active one, and it is idle only if it was given none.           *)
LEMMA DrainEffect ==
  ASSUME NEW jobs \in Seq(Runs), NoDuplicates(jobs), Drain(jobs)
  PROVE  /\ pending' \in Seq(Runs)
         /\ NoDuplicates(pending')
         /\ activeRunId' \in Runs \cup {NoRun}
         /\ activeRunId' \notin ToSet(pending')
         /\ exec' \in {"idle", "beginning"}
         /\ (activeRunId' = NoRun) <=> (exec' = "idle")
         /\ activeRunId' = NoRun => pending' = <<>>
         /\ \A r : r \in ToSet(pending') \cup {activeRunId'} => r \in ToSet(jobs) \cup {NoRun}
         /\ \A r : r \in ToSet(jobs) => r \in ToSet(pending') \cup {activeRunId'}
  <1>1. CASE jobs = <<>>
    BY <1>1 DEF Drain, ToSet, NoDuplicates
  <1>2. CASE jobs # <<>>
    <2> DEFINE h == Head(jobs)
               t == Tail(jobs)
    <2>1. /\ h \in Runs /\ t \in Seq(Runs)
          /\ ToSet(jobs) = ToSet(t) \cup {h}
          /\ h \notin ToSet(t)
          /\ NoDuplicates(t)
      BY <1>2, ShiftJob
    <2>2. pending' = t /\ activeRunId' = h /\ exec' = "beginning"
      BY <1>2 DEF Drain
    <2> HIDE DEF h, t
    <2> QED BY <2>1, <2>2, NoRunIsNoRun
  <1> QED BY <1>1, <1>2

-------------------------------------------------------------------------------
(* The invariant holds at the start and is kept by every step. *)

LEMMA InitInv == Init => IInv
  <1> SUFFICES ASSUME Init PROVE IInv
    OBVIOUS
  <1> USE DEF Init
  <1>1. TypeOK
    BY SizeAssumption, BoundAssumption DEF TypeOK, DocStatus, PostPhase, ExecPhase, Settled, Never
  <1>2. Jobs = {}
    BY DEF Jobs, ToSet
  <1>3. QueueAgreesWithStore
    BY <1>2 DEF QueueAgreesWithStore
  <1>4. NoOrphans /\ OneRunOnTheDevice /\ FinishedHaveVerdict
    BY DEF NoOrphans, OneRunOnTheDevice, FinishedHaveVerdict
  <1>5. HandlersAgree
    BY SizeAssumption, RunOf DEF HandlersAgree
  <1>6. ExecutorAgrees /\ LostAgree /\ DownIsEmpty
    BY DEF ExecutorAgrees, LostAgree, DownIsEmpty
  <1> QED BY <1>1, <1>3, <1>4, <1>5, <1>6 DEF IInv

(* Steps of the executor that write nothing and keep the active job.       *)
LEMMA StepInPlace ==
  ASSUME IInv, BeginReplies \/ CasesEnd \/ ScenarioThrows
  PROVE  IInv'
  <1> USE DEF IInv
  <1>1. /\ UNCHANGED <<doc, startedAt, lastAcceptedAt, post, at, pending, activeRunId, finished>>
        /\ UNCHANGED <<server, lost, restarts>>
        /\ exec # "idle" /\ exec' \in {"cases", "finishing", "crashing"}
        /\ verdict' \in Settled
        /\ faults' \in Nat
    BY DEF BeginReplies, CasesEnd, ScenarioThrows, Fails, Fault, TypeOK, handlers, store, Settled
  <1>2. Jobs' = Jobs
    BY <1>1 DEF Jobs
  <1>3. TypeOK'
    BY <1>1 DEF TypeOK, ExecPhase
  <1>4. QueueAgreesWithStore'
    BY <1>1, <1>2 DEF QueueAgreesWithStore
  <1>5. NoOrphans' /\ OneRunOnTheDevice' /\ FinishedHaveVerdict'
    BY <1>1, <1>2 DEF NoOrphans, OneRunOnTheDevice, FinishedHaveVerdict
  <1>6. HandlersAgree' /\ LostAgree' /\ DownIsEmpty'
    BY <1>1, <1>2 DEF HandlersAgree, LostAgree, DownIsEmpty
  <1>7. ExecutorAgrees'
    BY <1>1 DEF ExecutorAgrees, BeginReplies, CasesEnd, ScenarioThrows, Fails, Unsettled, TypeOK, QueueAgreesWithStore, Settled
  <1> QED BY <1>3, <1>4, <1>5, <1>6, <1>7

(* Steps in which a write of the executor lands.                           *)
LEMMA StepLands ==
  ASSUME IInv, BeginLands \/ FinishLands \/ CrashLands
  PROVE  IInv'
  <1> USE DEF IInv
  <1>1. PICK status \in {"running"} \cup Settled :
          /\ doc' = [doc EXCEPT ![activeRunId] = status]
          /\ UNCHANGED <<startedAt, lastAcceptedAt, post, at, pending, activeRunId, verdict,
                         finished, server, lost, faults, restarts>>
          /\ exec # "idle"
          /\ \/ exec = "beginning" /\ exec' = "begun" /\ status = "running"
             \/ exec = "finishing" /\ exec' = "finished" /\ status = verdict
             \/ exec = "crashing" /\ exec' = "crashed" /\ status = "error"
    BY DEF BeginLands, FinishLands, CrashLands, Lands, TypeOK, handlers, Settled
  <1>2. Jobs' = Jobs
    BY <1>1 DEF Jobs
  <1>3. activeRunId \in Runs
    BY <1>1 DEF TypeOK, QueueAgreesWithStore
  <1>4. TypeOK'
    BY <1>1 DEF TypeOK, ExecPhase, DocStatus, Unsettled
  <1>5. QueueAgreesWithStore'
    BY <1>1, <1>2, <1>3 DEF QueueAgreesWithStore, TypeOK, Jobs, ToSet
  <1>6. NoOrphans' /\ OneRunOnTheDevice'
    BY <1>1, <1>2, <1>3 DEF NoOrphans, OneRunOnTheDevice, TypeOK
  <1>7. FinishedHaveVerdict'
    BY <1>1, <1>2, <1>3 DEF FinishedHaveVerdict, QueueAgreesWithStore, TypeOK
  <1>8. HandlersAgree'
    BY <1>1, <1>2, <1>3, RunOf DEF HandlersAgree, ExecutorAgrees, TypeOK
  <1>9. ExecutorAgrees'
    BY <1>1, <1>3 DEF ExecutorAgrees, TypeOK
  <1>10. LostAgree' /\ DownIsEmpty'
    BY <1>1, <1>2, <1>3 DEF LostAgree, DownIsEmpty, TypeOK
  <1> QED BY <1>4, <1>5, <1>6, <1>7, <1>8, <1>9, <1>10

(* Steps in which a job ends, one way or the other, and the drain goes on. *)
LEMMA StepFinish ==
  ASSUME IInv, FinishReplies \/ CrashReplies \/ CrashFails
  PROVE  IInv'
  <1> USE DEF IInv
  <1>1. /\ UNCHANGED <<doc, startedAt, lastAcceptedAt, post, at, verdict, server, restarts>>
        /\ exec \in {"finished", "crashing", "crashed"}
        /\ finished' = finished \cup {activeRunId}
        /\ Drain(pending)
        /\ faults' \in Nat
        /\ lost' = IF doc[activeRunId] \in Unsettled THEN lost \cup {activeRunId} ELSE lost
    <2>1. CASE FinishReplies \/ CrashReplies
      <3>1. doc[activeRunId] \notin Unsettled
        BY <2>1 DEF FinishReplies, CrashReplies, ExecutorAgrees, TypeOK, Settled, Unsettled
      <3> QED BY <2>1, <3>1 DEF FinishReplies, CrashReplies, Finish, TypeOK, handlers, store
    <2>2. CASE CrashFails
      BY <2>2 DEF CrashFails, Finish, Fails, Fault, TypeOK, handlers, store
    <2> QED BY <2>1, <2>2
  <1>2. activeRunId \in Runs /\ doc[activeRunId] \in Settled \cup Unsettled
    BY <1>1 DEF TypeOK, QueueAgreesWithStore, ExecutorAgrees, DocStatus
  <1>3. /\ pending' \in Seq(Runs) /\ NoDuplicates(pending')
        /\ activeRunId' \in Runs \cup {NoRun}
        /\ activeRunId' \notin Jobs'
        /\ exec' \in {"idle", "beginning"}
        /\ (activeRunId' = NoRun) <=> (exec' = "idle")
        /\ activeRunId' = NoRun => pending' = <<>>
        /\ \A r : r \in Jobs' \cup {activeRunId'} => r \in Jobs \cup {NoRun}
        /\ \A r : r \in Jobs => r \in Jobs' \cup {activeRunId'}
    <2>1. pending \in Seq(Runs) /\ NoDuplicates(pending)
      BY DEF TypeOK, QueueAgreesWithStore, NoDuplicates
    <2> QED BY <1>1, <2>1, DrainEffect DEF Jobs
  <1>4. Jobs' \subseteq Runs
    BY <1>3 DEF Jobs, ToSet
  <1>5. server = "up"
    BY <1>1 DEF DownIsEmpty, QueueAgreesWithStore, TypeOK
  <1>6. \A r \in Jobs' \cup {activeRunId'} : r # NoRun => r \in Jobs /\ r # activeRunId /\ doc[r] = "queued"
    BY <1>1, <1>3 DEF QueueAgreesWithStore
  <1>7. TypeOK'
    BY <1>1, <1>2, <1>3 DEF TypeOK, ExecPhase
  <1>8. QueueAgreesWithStore'
    <2>1. (Jobs' \cup {activeRunId'}) \cap finished' = {}
      BY <1>1, <1>6, NoRunIsNoRun, <1>2 DEF QueueAgreesWithStore, TypeOK
    <2>2. \A r \in Jobs' : doc'[r] = "queued"
      BY <1>1, <1>4, <1>6, NoRunIsNoRun
    <2> QED BY <1>3, <2>1, <2>2 DEF QueueAgreesWithStore, NoDuplicates
  <1>9. NoOrphans'
    BY <1>1, <1>2, <1>3, <1>5 DEF NoOrphans
  <1>10. OneRunOnTheDevice'
    BY <1>1, <1>2, <1>3, <1>5 DEF OneRunOnTheDevice, Unsettled
  <1>11. FinishedHaveVerdict'
    BY <1>1, <1>2 DEF FinishedHaveVerdict
  <1>12. HandlersAgree'
    <2> SUFFICES ASSUME NEW q \in Requests, post[q] = "written"
                 PROVE  <<q, at[q]>> \notin Jobs' \cup {activeRunId'} \cup lost'
      BY <1>1 DEF HandlersAgree
    <2>1. <<q, at[q]>> \in Runs
      BY RunOf DEF TypeOK
    <2> QED BY <1>1, <1>3, <2>1, NoRunIsNoRun DEF HandlersAgree
  <1>13. ExecutorAgrees'
    BY <1>1, <1>3, <1>6 DEF ExecutorAgrees
  <1>14. LostAgree'
    BY <1>1, <1>2, <1>3, <1>6, NoRunIsNoRun DEF LostAgree, TypeOK
  <1>15. DownIsEmpty'
    BY <1>1, <1>5 DEF DownIsEmpty
  <1> QED BY <1>7, <1>8, <1>9, <1>10, <1>11, <1>12, <1>13, <1>14, <1>15

(* Taking an acceptance time keeps the types.                              *)
LEMMA IssueCreateTyped ==
  ASSUME TypeOK, NEW r \in Runs, IssueCreate(r)
  PROVE  startedAt' \in [Runs -> Int] /\ lastAcceptedAt' \in Int
  <1>1. PICK now \in Clock :
           /\ lastAcceptedAt' = NextAcceptedAt(now, lastAcceptedAt)
           /\ startedAt' = [startedAt EXCEPT ![r] = NextAcceptedAt(now, lastAcceptedAt)]
    BY DEF IssueCreate
  <1>2. NextAcceptedAt(now, lastAcceptedAt) \in Int
    BY ClockAssumption DEF NextAcceptedAt, TypeOK
  <1> QED BY <1>1, <1>2 DEF TypeOK

(* A create whose reply arrived: the run is queued, the handler moves on.  *)
LEMMA StepAccept ==
  ASSUME IInv, NEW q \in Requests, CreateReplies(q)
  PROVE  IInv'
  <1> USE DEF IInv
  <1> DEFINE r == <<q, at[q]>>
  <1>1. /\ UNCHANGED <<doc, verdict, finished, server, lost, faults, restarts>>
        /\ post[q] = "written"
        /\ r \in Runs
        /\ doc[r] = "queued" /\ r \notin Jobs \cup {activeRunId} \cup lost
        /\ r \notin finished
    BY RunOf DEF CreateReplies, HandlersAgree, TypeOK, FinishedHaveVerdict, Settled
  <1>2. /\ pending \in Seq(Runs) /\ NoDuplicates(pending)
        /\ Append(pending, r) \in Seq(Runs)
        /\ Append(pending, r) # <<>>
        /\ ToSet(Append(pending, r)) = Jobs \cup {r}
        /\ NoDuplicates(Append(pending, r))
    <2>1. pending \in Seq(Runs) /\ NoDuplicates(pending)
      BY DEF TypeOK, QueueAgreesWithStore, NoDuplicates
    <2> HIDE DEF r
    <2> QED BY <1>1, <2>1, AppendJob DEF Jobs
  <1>3. Jobs \subseteq Runs
    BY <1>2 DEF Jobs, ToSet
  <1>4. /\ pending' \in Seq(Runs) /\ NoDuplicates(pending')
        /\ activeRunId' \in Runs \cup {NoRun}
        /\ activeRunId' \notin Jobs'
        /\ exec' \in ExecPhase
        /\ (activeRunId' = NoRun) <=> (exec' = "idle")
        /\ activeRunId' = NoRun => pending' = <<>>
        /\ Jobs' \cup {activeRunId'} \subseteq Jobs \cup {activeRunId, r, NoRun}
        /\ Jobs \cup {r} \subseteq Jobs' \cup {activeRunId'}
        /\ \/ activeRunId = activeRunId' /\ exec = exec'
           \/ activeRunId = NoRun /\ exec' = "beginning" /\ activeRunId' \in Jobs \cup {r}
    <2> HIDE DEF r
    <2>1. Enqueue(r)
      BY DEF CreateReplies, r
    <2>2. CASE activeRunId = NoRun
      <3>1. Drain(Append(pending, r))
        BY <2>1, <2>2 DEF Enqueue
      <3>2. activeRunId' # NoRun
        BY <3>1, <1>2, NoRunIsNoRun DEF Drain
      <3> QED BY <1>1, <1>2, <1>3, <2>2, <3>1, <3>2, DrainEffect, NoRunIsNoRun DEF Jobs, ExecPhase
    <2>3. CASE activeRunId # NoRun
      <3>1. pending' = Append(pending, r) /\ UNCHANGED <<activeRunId, exec>>
        BY <2>1, <2>3 DEF Enqueue
      <3>2. pending' \in Seq(Runs) /\ NoDuplicates(pending') /\ Jobs' = Jobs \cup {r}
        BY <1>2, <3>1 DEF Jobs
      <3>3. activeRunId \in Runs \cup {NoRun} /\ exec \in ExecPhase /\ activeRunId \notin Jobs
        BY DEF TypeOK, QueueAgreesWithStore
      <3>4. (activeRunId = NoRun) <=> (exec = "idle")
        BY DEF QueueAgreesWithStore
      <3> QED BY <1>1, <2>3, <3>1, <3>2, <3>3, <3>4
    <2> QED BY <2>2, <2>3
  <1>5. Jobs' \subseteq Runs
    BY <1>4 DEF Jobs, ToSet
  <1>6. server = "up"
    BY <1>1 DEF DownIsEmpty, TypeOK
  <1>7. TypeOK'
    <2>1. /\ post' \in [Requests -> PostPhase] /\ at' \in [Requests -> Nat]
          /\ \A p \in Requests : at'[p] \in 1..Size[p]
      <3>1. \/ /\ at[q] < Size[q]
               /\ post' = [post EXCEPT ![q] = "writing"]
               /\ at' = [at EXCEPT ![q] = @ + 1]
            \/ /\ post' = [post EXCEPT ![q] = "accepted"]
               /\ at' = at
        BY DEF CreateReplies
      <3>2. post' \in [Requests -> PostPhase]
        BY <3>1 DEF TypeOK, PostPhase
      <3>3. at' \in [Requests -> Nat]
        BY <3>1 DEF TypeOK
      <3>4. at[q] \in 1..Size[q] /\ Size[q] \in Nat
        BY SizeAssumption DEF TypeOK
      <3>5. ASSUME NEW p \in Requests PROVE at'[p] \in 1..Size[p]
        <4>1. at[p] \in 1..Size[p] /\ at \in [Requests -> Nat]
          BY DEF TypeOK
        <4>2. CASE p = q
          BY <3>1, <3>4, <4>1, <4>2
        <4>3. CASE p # q
          BY <3>1, <4>1, <4>3
        <4> QED BY <4>2, <4>3
      <3> QED BY <3>2, <3>3, <3>5
    <2>2. startedAt' \in [Runs -> Int] /\ lastAcceptedAt' \in Int
      <3>1. CASE at[q] < Size[q]
        <4>1. IssueCreate(<<q, at[q] + 1>>)
          BY <3>1 DEF CreateReplies
        <4>2. <<q, at[q] + 1>> \in Runs
          BY <3>1, RunOf, SizeAssumption DEF TypeOK
        <4> QED BY <4>1, <4>2, IssueCreateTyped
      <3>2. CASE ~(at[q] < Size[q])
        BY <3>2 DEF CreateReplies, TypeOK
      <3> QED BY <3>1, <3>2
    <2> QED BY <1>1, <1>4, <2>1, <2>2 DEF TypeOK
  <1>8. \A x \in Jobs' \cup {activeRunId'} : x # NoRun => x \in Jobs \cup {activeRunId, r}
    BY <1>4
  <1>9. QueueAgreesWithStore'
    <2>1. \A x \in Jobs' : doc'[x] = "queued"
      <3> SUFFICES ASSUME NEW x \in Jobs' PROVE doc[x] = "queued"
        BY <1>1
      <3>1. x \in Runs /\ x # activeRunId'
        BY <1>4, <1>5
      <3>2. x \in Jobs \cup {r}
        BY <1>4, <1>8, <3>1, NoRunIsNoRun
      <3> QED BY <1>1, <3>2 DEF QueueAgreesWithStore
    <2>2. (Jobs' \cup {activeRunId'}) \cap finished' = {}
      <3>1. /\ (Jobs \cup {activeRunId}) \cap finished = {} /\ finished \subseteq Runs
            /\ r \notin finished /\ finished' = finished
        BY <1>1 DEF QueueAgreesWithStore, TypeOK
      <3> HIDE DEF IInv, r
      <3> QED BY <1>8, <3>1, NoRunIsNoRun
    <2> QED BY <1>4, <2>1, <2>2 DEF QueueAgreesWithStore, NoDuplicates
  <1>10. NoOrphans'
    <2> SUFFICES ASSUME NEW x \in Runs, doc[x] \in Unsettled
                 PROVE  \/ x \in Jobs' \cup {activeRunId'} \cup lost
                        \/ \E p \in Requests : post'[p] = "written" /\ x = <<p, at'[p]>>
      BY <1>1 DEF NoOrphans
    <2>1. CASE x \in Jobs \cup {activeRunId, r}
      BY <1>4, <2>1, NoRunIsNoRun
    <2>2. CASE x \in lost
      BY <2>2
    <2>3. CASE x # r /\ \E p \in Requests : post[p] = "written" /\ x = <<p, at[p]>>
      BY <2>3 DEF CreateReplies, TypeOK
    <2> QED BY <1>6, <2>1, <2>2, <2>3 DEF NoOrphans
  <1>11. OneRunOnTheDevice'
    BY <1>1, <1>4, <1>6, NoRunIsNoRun DEF OneRunOnTheDevice
  <1>12. FinishedHaveVerdict'
    BY <1>1 DEF FinishedHaveVerdict
  <1>13. HandlersAgree'
    <2>1. ASSUME NEW p \in Requests, p # q
          PROVE  /\ post'[p] = post[p] /\ at'[p] = at[p]
                 /\ post[p] = "written" => <<p, at[p]>> \notin Jobs' \cup {activeRunId'} \cup lost
      <3>1. post'[p] = post[p] /\ at'[p] = at[p]
        BY <2>1 DEF CreateReplies, TypeOK
      <3>2. <<p, at[p]>> \in Runs /\ <<p, at[p]>> # r
        BY <2>1, RunOf DEF TypeOK
      <3> QED BY <1>8, <3>1, <3>2, NoRunIsNoRun DEF HandlersAgree
    <2>2. /\ post'[q] \in {"writing", "accepted"}
          /\ \A i \in 1..Size[q] : i > at'[q] => doc[<<q, i>>] = "absent"
          /\ post'[q] = "writing" => doc[<<q, at'[q]>>] = "absent"
      <3>1. /\ at[q] \in 1..Size[q] /\ Size[q] \in Nat
            /\ at \in [Requests -> Nat] /\ post \in [Requests -> PostPhase]
            /\ \A i \in 1..Size[q] : i > at[q] => doc[<<q, i>>] = "absent"
        BY SizeAssumption DEF TypeOK, HandlersAgree
      <3>2. \/ /\ at[q] < Size[q]
               /\ post' = [post EXCEPT ![q] = "writing"]
               /\ at' = [at EXCEPT ![q] = @ + 1]
            \/ /\ post' = [post EXCEPT ![q] = "accepted"]
               /\ at' = at
        BY DEF CreateReplies
      <3> HIDE DEF IInv, r
      <3> QED BY <3>1, <3>2
    <2> SUFFICES ASSUME NEW p \in Requests
                 PROVE  /\ \A i \in 1..Size[p] : i > at'[p] => doc'[<<p, i>>] = "absent"
                        /\ post'[p] \in {"idle", "writing"} => doc'[<<p, at'[p]>>] = "absent"
                        /\ post'[p] = "idle" => at'[p] = 1
                        /\ post'[p] = "written" =>
                              /\ doc'[<<p, at'[p]>>] = "queued"
                              /\ <<p, at'[p]>> \notin Jobs' \cup {activeRunId'} \cup lost'
      BY DEF HandlersAgree
    <2>3. CASE p = q
      BY <1>1, <2>2, <2>3
    <2>4. CASE p # q
      <3>1. /\ \A i \in 1..Size[p] : i > at[p] => doc[<<p, i>>] = "absent"
            /\ post[p] \in {"idle", "writing"} => doc[<<p, at[p]>>] = "absent"
            /\ post[p] = "idle" => at[p] = 1
            /\ post[p] = "written" => doc[<<p, at[p]>>] = "queued"
        BY DEF HandlersAgree
      <3> HIDE DEF IInv, r
      <3> QED BY <1>1, <2>1, <2>4, <3>1
    <2> QED BY <2>3, <2>4
  <1>14. ExecutorAgrees'
    <2>1. CASE activeRunId = activeRunId' /\ exec = exec'
      BY <1>1, <2>1 DEF ExecutorAgrees
    <2>2. CASE activeRunId = NoRun /\ exec' = "beginning" /\ activeRunId' \in Jobs \cup {r}
      <3>1. doc[activeRunId'] = "queued"
        BY <1>1, <2>2 DEF QueueAgreesWithStore
      <3> QED BY <1>1, <2>2, <3>1 DEF ExecutorAgrees
    <2> QED BY <1>4, <2>1, <2>2
  <1>15. LostAgree'
    <2>1. /\ lost \cap (Jobs \cup {activeRunId}) = {} /\ lost \subseteq Runs
          /\ \A x \in lost : doc[x] \in Unsettled
      BY DEF LostAgree, TypeOK
    <2>2. r \notin lost /\ lost' = lost /\ doc' = doc
      BY <1>1
    <2> HIDE DEF IInv, r
    <2>3. ASSUME NEW x \in lost PROVE x \notin Jobs' \cup {activeRunId'}
      BY <1>8, <2>1, <2>2, NoRunIsNoRun
    <2> QED BY <2>1, <2>2, <2>3 DEF LostAgree, Unsettled
  <1>16. DownIsEmpty'
    BY <1>1, <1>6 DEF DownIsEmpty
  <1> QED BY <1>7, <1>9, <1>10, <1>11, <1>12, <1>13, <1>14, <1>15, <1>16

(* A request arrives, and its first create is issued.                      *)
LEMMA StepPost ==
  ASSUME IInv, NEW q \in Requests, Post(q)
  PROVE  IInv'
  <1> USE DEF IInv
  <1>1. /\ UNCHANGED <<doc, at, pending, activeRunId, exec, verdict, finished, server, lost,
                       faults, restarts>>
        /\ post[q] = "idle" /\ post' = [post EXCEPT ![q] = "writing"]
        /\ server = "up"
    BY DEF Post, queue
  <1>2. Jobs' = Jobs
    BY <1>1 DEF Jobs
  <1>3. TypeOK'
    <2>1. <<q, 1>> \in Runs
      BY RunOf, SizeAssumption
    <2>2. startedAt' \in [Runs -> Int] /\ lastAcceptedAt' \in Int
      BY <2>1, IssueCreateTyped DEF Post
    <2> QED BY <1>1, <2>2 DEF TypeOK, PostPhase
  <1>4. QueueAgreesWithStore' /\ OneRunOnTheDevice' /\ FinishedHaveVerdict'
    BY <1>1, <1>2 DEF QueueAgreesWithStore, OneRunOnTheDevice, FinishedHaveVerdict
  <1>5. NoOrphans'
    BY <1>1, <1>2 DEF NoOrphans, TypeOK
  <1>6. HandlersAgree' /\ DownIsEmpty'
    BY <1>1, <1>2 DEF HandlersAgree, TypeOK, DownIsEmpty
  <1>7. ExecutorAgrees' /\ LostAgree'
    BY <1>1, <1>2 DEF ExecutorAgrees, LostAgree
  <1> QED BY <1>3, <1>4, <1>5, <1>6, <1>7

(* A create lands.                                                         *)
LEMMA StepCreateLands ==
  ASSUME IInv, NEW q \in Requests, CreateLands(q)
  PROVE  IInv'
  <1> USE DEF IInv
  <1> DEFINE r == <<q, at[q]>>
  <1>1. /\ UNCHANGED <<startedAt, lastAcceptedAt, at, pending, activeRunId, exec, verdict, finished,
                       server, lost, faults, restarts>>
        /\ post[q] = "writing" /\ post' = [post EXCEPT ![q] = "written"]
        /\ doc' = [doc EXCEPT ![r] = "queued"]
        /\ r \in Runs /\ doc[r] = "absent"
        /\ server = "up"
    BY RunOf DEF CreateLands, queue, TypeOK, HandlersAgree, DownIsEmpty
  <1>2. Jobs' = Jobs
    BY <1>1 DEF Jobs
  <1>3. r \notin Jobs \cup {activeRunId} \cup lost
    BY <1>1, NoRunIsNoRun
       DEF QueueAgreesWithStore, ExecutorAgrees, LostAgree, Unsettled, TypeOK, ExecPhase, Settled
  <1>4. TypeOK'
    BY <1>1 DEF TypeOK, PostPhase, DocStatus, Unsettled
  <1>5. QueueAgreesWithStore'
    BY <1>1, <1>2, <1>3 DEF QueueAgreesWithStore, TypeOK, Jobs, ToSet
  <1>6. NoOrphans' /\ OneRunOnTheDevice'
    BY <1>1, <1>2 DEF NoOrphans, OneRunOnTheDevice, TypeOK, Unsettled
  <1>7. FinishedHaveVerdict'
    BY <1>1, <1>3 DEF FinishedHaveVerdict, TypeOK, Settled
  <1>8. HandlersAgree'
    <2> SUFFICES ASSUME NEW p \in Requests
                 PROVE  /\ \A i \in 1..Size[p] : i > at[p] => doc'[<<p, i>>] = "absent"
                        /\ post'[p] \in {"idle", "writing"} => doc'[<<p, at[p]>>] = "absent"
                        /\ post'[p] = "idle" => at[p] = 1
                        /\ post'[p] = "written" =>
                              /\ doc'[<<p, at[p]>>] = "queued"
                              /\ <<p, at[p]>> \notin Jobs \cup {activeRunId} \cup lost
      BY <1>1, <1>2 DEF HandlersAgree
    <2>1. /\ \A i \in 1..Size[p] : <<p, i>> \in Runs
          /\ <<p, at[p]>> \in Runs
      BY RunOf DEF TypeOK
    <2>2. \A x \in Runs : x # r => doc'[x] = doc[x]
      BY <1>1 DEF TypeOK
    <2>3. CASE p = q
      <3>1. doc'[r] = "queued" /\ post'[q] = "written"
        BY <1>1 DEF TypeOK
      <3>2. \A i \in 1..Size[q] : i > at[q] => <<q, i>> # r
        OBVIOUS
      <3> QED BY <1>3, <2>1, <2>2, <2>3, <3>1, <3>2 DEF HandlersAgree
    <2>4. CASE p # q
      <3>1. /\ \A i \in 1..Size[p] : <<p, i>> # r
            /\ <<p, at[p]>> # r
            /\ post'[p] = post[p]
        BY <1>1, <2>4 DEF TypeOK
      <3> QED BY <2>1, <2>2, <3>1 DEF HandlersAgree
    <2> QED BY <2>3, <2>4
  <1>9. ExecutorAgrees'
    BY <1>1, <1>3 DEF ExecutorAgrees, TypeOK
  <1>10. LostAgree' /\ DownIsEmpty'
    BY <1>1, <1>2, <1>3 DEF LostAgree, DownIsEmpty, TypeOK
  <1> QED BY <1>4, <1>5, <1>6, <1>7, <1>8, <1>9, <1>10

(* A create is reported failed.                                            *)
LEMMA StepCreateFails ==
  ASSUME IInv, NEW q \in Requests, CreateFails(q)
  PROVE  IInv'
  <1> USE DEF IInv
  <1> DEFINE r == <<q, at[q]>>
  <1>1. /\ UNCHANGED <<doc, startedAt, lastAcceptedAt, at, pending, activeRunId, exec, verdict, finished,
                       server, restarts>>
        /\ post[q] \in {"writing", "written"} /\ post' = [post EXCEPT ![q] = "refused"]
        /\ lost' = IF post[q] = "written" THEN lost \cup {r} ELSE lost
        /\ faults' \in Nat
    BY DEF CreateFails, Fails, Fault, queue, store, TypeOK
  <1>2. Jobs' = Jobs
    BY <1>1 DEF Jobs
  <1>3. post[q] = "written" => doc[r] = "queued" /\ r \notin Jobs \cup {activeRunId} \cup lost
    BY DEF HandlersAgree
  <1>4. TypeOK'
    <2>1. r \in Runs
      BY RunOf DEF TypeOK
    <2> QED BY <1>1, <2>1 DEF TypeOK, PostPhase
  <1>5. QueueAgreesWithStore' /\ FinishedHaveVerdict'
    BY <1>1, <1>2 DEF QueueAgreesWithStore, FinishedHaveVerdict
  <1>6. NoOrphans' /\ OneRunOnTheDevice'
    BY <1>1, <1>2 DEF NoOrphans, OneRunOnTheDevice, TypeOK
  <1>7. HandlersAgree'
    <2> SUFFICES ASSUME NEW p \in Requests, p # q, post[p] = "written"
                 PROVE  <<p, at[p]>> \notin Jobs \cup {activeRunId} \cup lost'
      BY <1>1, <1>2 DEF HandlersAgree, TypeOK
    <2>1. <<p, at[p]>> # r
      OBVIOUS
    <2> QED BY <1>1, <2>1 DEF HandlersAgree
  <1>8. ExecutorAgrees' /\ DownIsEmpty'
    BY <1>1 DEF ExecutorAgrees, DownIsEmpty, TypeOK
  <1>9. LostAgree'
    BY <1>1, <1>2, <1>3 DEF LostAgree, Unsettled
  <1> QED BY <1>4, <1>5, <1>6, <1>7, <1>8, <1>9

(* The process goes down.                                                  *)
LEMMA StepStop ==
  ASSUME IInv, Stop
  PROVE  IInv'
  <1> USE DEF IInv
  <1>1. /\ UNCHANGED <<doc, startedAt, at, verdict, lost, faults>>
        /\ server' = "down" /\ lastAcceptedAt' = Never /\ restarts' \in Nat
        /\ pending' = <<>> /\ activeRunId' = NoRun /\ exec' = "idle" /\ finished' = {}
        /\ post' = [q \in Requests |->
                      IF post[q] \in {"writing", "written"} THEN "cut" ELSE post[q]]
    BY DEF Stop, store, TypeOK
  <1>2. Jobs' = {}
    BY <1>1 DEF Jobs, ToSet
  <1>3. TypeOK'
    BY <1>1 DEF TypeOK, PostPhase, ExecPhase, Never
  <1>4. QueueAgreesWithStore'
    BY <1>1, <1>2 DEF QueueAgreesWithStore
  <1>5. NoOrphans' /\ OneRunOnTheDevice' /\ FinishedHaveVerdict'
    BY <1>1 DEF NoOrphans, OneRunOnTheDevice, FinishedHaveVerdict
  <1>6. HandlersAgree'
    BY <1>1 DEF HandlersAgree
  <1>7. ExecutorAgrees' /\ DownIsEmpty'
    BY <1>1 DEF ExecutorAgrees, DownIsEmpty
  <1>8. LostAgree'
    BY <1>1, <1>2, NoRunIsNoRun DEF LostAgree, TypeOK
  <1> QED BY <1>3, <1>4, <1>5, <1>6, <1>7, <1>8

(* The process comes up, with its sweep or without.                        *)
LEMMA StepBoot ==
  ASSUME IInv, Boot \/ BootUnswept
  PROVE  IInv'
  <1> USE DEF IInv
  <1>1. /\ UNCHANGED <<startedAt, lastAcceptedAt, post, at, pending, activeRunId, exec, verdict,
                       finished, restarts>>
        /\ server = "down" /\ server' = "up" /\ faults' \in Nat
        /\ \/ /\ lost' = {}
              /\ doc' = [r \in Runs |-> IF doc[r] \in Unsettled THEN "error" ELSE doc[r]]
           \/ /\ lost' = {r \in Runs : doc[r] \in Unsettled}
              /\ doc' = doc
    BY DEF Boot, BootUnswept, Fault, store, handlers, queue, TypeOK
  <1>2. /\ activeRunId = NoRun /\ pending = <<>> /\ finished = {} /\ exec = "idle"
        /\ \A q \in Requests : post[q] \notin {"writing", "written"}
    BY <1>1 DEF DownIsEmpty, QueueAgreesWithStore
  <1>3. Jobs = {} /\ Jobs' = {}
    BY <1>1, <1>2 DEF Jobs, ToSet
  <1>4. TypeOK'
    BY <1>1 DEF TypeOK, DocStatus, Settled
  <1>5. QueueAgreesWithStore'
    BY <1>1, <1>2, <1>3 DEF QueueAgreesWithStore
  <1>6. NoOrphans'
    BY <1>1, <1>3 DEF NoOrphans, Unsettled
  <1>7. OneRunOnTheDevice' /\ FinishedHaveVerdict'
    BY <1>1, <1>2 DEF OneRunOnTheDevice, FinishedHaveVerdict, Unsettled
  <1>8. HandlersAgree'
    <2>1. \A x \in Runs : doc[x] = "absent" => doc'[x] = "absent"
      BY <1>1 DEF TypeOK, Unsettled
    <2>2. \A q \in Requests : <<q, at[q]>> \in Runs /\ \A i \in 1..Size[q] : <<q, i>> \in Runs
      BY RunOf DEF TypeOK
    <2> QED BY <1>1, <1>2, <2>1, <2>2 DEF HandlersAgree
  <1>9. ExecutorAgrees' /\ DownIsEmpty'
    BY <1>1, <1>2 DEF ExecutorAgrees, DownIsEmpty
  <1>10. LostAgree'
    BY <1>1, <1>2, <1>3, NoRunIsNoRun DEF LostAgree
  <1> QED BY <1>4, <1>5, <1>6, <1>7, <1>8, <1>9, <1>10

LEMMA StepStutter ==
  ASSUME IInv, UNCHANGED vars
  PROVE  IInv'
  <1> USE DEF IInv, vars, store, handlers, queue
  <1>1. Jobs' = Jobs
    BY DEF Jobs
  <1>2. TypeOK' /\ QueueAgreesWithStore'
    BY <1>1 DEF TypeOK, QueueAgreesWithStore
  <1>3. NoOrphans' /\ OneRunOnTheDevice' /\ FinishedHaveVerdict'
    BY <1>1 DEF NoOrphans, OneRunOnTheDevice, FinishedHaveVerdict
  <1>4. HandlersAgree' /\ ExecutorAgrees' /\ LostAgree' /\ DownIsEmpty'
    BY <1>1 DEF HandlersAgree, ExecutorAgrees, LostAgree, DownIsEmpty
  <1> QED BY <1>2, <1>3, <1>4

LEMMA StepInv == IInv /\ [Next]_vars => IInv'
  <1> SUFFICES ASSUME IInv, [Next]_vars PROVE IInv'
    OBVIOUS
  <1>1. ASSUME NEW q \in Requests, Post(q) PROVE IInv'
    BY <1>1, StepPost
  <1>2. ASSUME NEW q \in Requests, Handler(q) PROVE IInv'
    BY <1>2, StepCreateLands, StepAccept, StepCreateFails DEF Handler
  <1>3. CASE Executor
    BY <1>3, StepInPlace, StepLands, StepFinish DEF Executor
  <1>4. CASE Stop
    BY <1>4, StepStop
  <1>5. CASE Boot \/ BootUnswept
    BY <1>5, StepBoot
  <1>6. CASE UNCHANGED vars
    BY <1>6, StepStutter
  <1> QED BY <1>1, <1>2, <1>3, <1>4, <1>5, <1>6 DEF Next

LEMMA Invariance == Spec => []IInv
  BY InitInv, StepInv, PTL DEF Spec

-------------------------------------------------------------------------------
(* Results. *)

(* Every variable keeps the values the model means it to have.             *)
THEOREM TypeCorrect == Spec => []TypeOK
  BY Invariance, PTL DEF IInv

(* The in-memory queue agrees with the documents (queue.ts, index.ts).     *)
THEOREM QueueIsRight == Spec => []QueueAgreesWithStore
  BY Invariance, PTL DEF IInv

(* No run is left waiting for nobody, save the three logged exceptions     *)
(* (index.ts: the catch around runScenario and the start-up sweep).        *)
THEOREM NobodyIsForgotten == Spec => []NoOrphans
  BY Invariance, PTL DEF IInv

(* At most one run is on the device (queue.ts).                            *)
THEOREM DeviceIsExclusive == Spec => []OneRunOnTheDevice
  BY Invariance, PTL DEF IInv

(* run_finished is announced only for runs whose verdict is stored.        *)
THEOREM AnnouncedRunsAreSettled == Spec => []FinishedHaveVerdict
  BY Invariance, PTL DEF IInv

-------------------------------------------------------------------------------
(* RunServer implements RunHistory when no reply is lost. *)

LEMMA HistoryInit == Init => History!Init
  BY DEF Init, History!Init

(* Handing the device on, or letting it go, is a step of the history.      *)
LEMMA FinishIsHistory ==
  ASSUME IInv, activeRunId # NoRun, Drain(pending), UNCHANGED doc
  PROVE  [History!Next]_(History!vars)
  <1>1. CASE pending = <<>>
    BY <1>1 DEF Drain, History!Next, History!Release
  <1>2. CASE pending # <<>>
    <2> DEFINE h == Head(pending)
    <2>1. pending \in Seq(Runs) /\ NoDuplicates(pending)
      BY DEF IInv, TypeOK, QueueAgreesWithStore, NoDuplicates
    <2>2. h \in Runs /\ h \in Jobs /\ activeRunId' = h
      BY <1>2, <2>1, ShiftJob DEF Drain, Jobs
    <2> HIDE DEF h
    <2>3. doc[h] = "queued" /\ h # activeRunId
      BY <2>2 DEF IInv, QueueAgreesWithStore
    <2>4. History!HandOver(h)
      BY <2>2, <2>3 DEF History!HandOver
    <2> QED BY <2>2, <2>4 DEF History!Next
  <1> QED BY <1>1, <1>2

LEMMA HistoryStep ==
  ASSUME IInv, [Next]_vars, ~LostReplies
  PROVE  [History!Next]_(History!vars)
  <1> USE DEF History!vars
  <1>1. ASSUME NEW q \in Requests, Post(q) PROVE [History!Next]_(History!vars)
    BY <1>1 DEF Post, queue
  <1>2. ASSUME NEW q \in Requests, CreateLands(q) PROVE [History!Next]_(History!vars)
    <2>1. <<q, at[q]>> \in Runs /\ doc[<<q, at[q]>>] = "absent"
      BY <1>2, RunOf DEF CreateLands, IInv, TypeOK, HandlersAgree
    <2>2. History!Record(<<q, at[q]>>)
      BY <1>2, <2>1 DEF CreateLands, History!Record, queue
    <2> QED BY <2>1, <2>2 DEF History!Next
  <1>3. ASSUME NEW q \in Requests, CreateReplies(q) PROVE [History!Next]_(History!vars)
    <2> DEFINE r == <<q, at[q]>>
    <2>1. r \in Runs /\ doc[r] = "queued" /\ UNCHANGED doc /\ Enqueue(r)
      BY <1>3, RunOf DEF CreateReplies, IInv, TypeOK, HandlersAgree
    <2> HIDE DEF r
    <2>2. CASE activeRunId = NoRun
      <3>1. pending = <<>> /\ Drain(Append(pending, r))
        BY <2>1, <2>2 DEF Enqueue, IInv, QueueAgreesWithStore
      <3>2. activeRunId' = r
        BY <2>1, <3>1 DEF Drain
      <3>3. History!Take(r)
        BY <2>1, <2>2, <3>2 DEF History!Take
      <3> QED BY <2>1, <3>3 DEF History!Next
    <2>3. CASE activeRunId # NoRun
      BY <2>1, <2>3 DEF Enqueue
    <2> QED BY <2>2, <2>3
  <1>4. ASSUME NEW q \in Requests, CreateFails(q) PROVE [History!Next]_(History!vars)
    BY <1>4 DEF CreateFails, store, queue
  <1>5. CASE BeginReplies \/ CasesEnd \/ ScenarioThrows
    BY <1>5 DEF BeginReplies, CasesEnd, ScenarioThrows, store
  <1>6. CASE BeginLands
    <2>1. History!Begin
      BY <1>6 DEF BeginLands, Lands, History!Begin, IInv, QueueAgreesWithStore, ExecutorAgrees
    <2> QED BY <2>1 DEF History!Next
  <1>7. CASE FinishLands
    <2>1. verdict \in History!Settled /\ History!Settle(verdict)
      BY <1>7 DEF FinishLands, Lands, History!Settle, IInv, QueueAgreesWithStore, ExecutorAgrees,
                  History!Unsettled, History!Settled, TypeOK, Settled
    <2> QED BY <2>1 DEF History!Next
  <1>8. CASE CrashLands
    <2>1. History!Settle("error")
      BY <1>8 DEF CrashLands, Lands, History!Settle, IInv, QueueAgreesWithStore, ExecutorAgrees,
                  History!Unsettled, Unsettled
    <2> QED BY <2>1 DEF History!Next, History!Settled
  <1>9. CASE FinishReplies \/ CrashReplies \/ CrashFails
    <2>1. activeRunId # NoRun /\ Drain(pending) /\ UNCHANGED doc
      BY <1>9 DEF FinishReplies, CrashReplies, CrashFails, Finish, Fails, store, IInv,
                  QueueAgreesWithStore
    <2> QED BY <2>1, FinishIsHistory
  <1>10. CASE Stop
    BY <1>10 DEF Stop, store, History!Next, History!Release
  <1>11. CASE Boot \/ BootUnswept
    <2>1. activeRunId = NoRun /\ UNCHANGED activeRunId
      BY <1>11 DEF Boot, BootUnswept, queue, IInv, DownIsEmpty
    <2>2. Boot => History!Abandon
      BY <2>1 DEF Boot, History!Abandon, Unsettled, History!Unsettled
    <2>3. BootUnswept => UNCHANGED doc
      BY DEF BootUnswept, store
    <2> QED BY <1>11, <2>1, <2>2, <2>3 DEF History!Next
  <1>12. CASE UNCHANGED vars
    BY <1>12 DEF vars, store, queue
  <1> QED
    BY <1>1, <1>2, <1>3, <1>4, <1>5, <1>6, <1>7, <1>8, <1>9, <1>10, <1>11, <1>12
       DEF Next, Handler, Executor

(* The server keeps the promise of RunHistory: runs are recorded, take the *)
(* device, settle and are abandoned as that specification says.            *)
THEOREM ServerImplementsHistory ==
  ASSUME ~LostReplies
  PROVE  Spec => KeepsHistory
  <1>1. IInv /\ [Next]_vars => [History!Next]_(History!vars)
    BY HistoryStep
  <1> QED BY <1>1, HistoryInit, Invariance, PTL DEF Spec, KeepsHistory, History!Spec

(* A verdict never changes, whatever restarts and sweeps follow it.        *)
THEOREM VerdictsAreFinal ==
  ASSUME ~LostReplies
  PROVE  Spec => SettledIsFinal
  <1>1. ASSUME IInv, [Next]_vars, NEW r \in Runs, doc[r] \in Settled
        PROVE  doc'[r] = doc[r]
    <2>1. [History!Next]_(History!vars)
      BY <1>1, HistoryStep
    <2>2. doc \in [Runs -> DocStatus] /\ activeRunId \in Runs \cup {NoRun}
      BY <1>1 DEF IInv, TypeOK
    <2> QED BY <1>1, <2>1, <2>2
        DEF History!Next, History!vars, History!Record, History!Take, History!HandOver,
            History!Settle, History!Begin, History!Release, History!Abandon,
            History!Unsettled, History!Settled, Settled
  <1>2. IInv /\ [Next]_vars => [\A r \in Runs : doc[r] \in Settled => doc'[r] = doc[r]]_vars
    BY <1>1
  <1> QED BY <1>2, Invariance, PTL DEF Spec, SettledIsFinal

-------------------------------------------------------------------------------
(* Batches are written, listed and run in order. *)

(* Jobs of one request wait in the order of their places in it.            *)
InBatchOrder(s) ==
    \A m, n \in DOMAIN s : \A q \in Requests : \A i, j \in 1..Size[q] :
        s[m] = <<q, i>> /\ s[n] = <<q, j>> /\ i < j => m < n

(* A handler takes a request's runs one by one, each with a later time.    *)
TimesRise ==
    \A q \in Requests :
        /\ \A i \in 1..Size[q] : i < at[q] => doc[<<q, i>>] # "absent"
        /\ \A i, j \in 1..Size[q] :
              i < j /\ j <= at[q] => startedAt[<<q, i>>] < startedAt[<<q, j>>]
        /\ post[q] \in {"writing", "written"} => startedAt[<<q, at[q]>>] <= lastAcceptedAt

(* Whatever still waits comes after what runs or has run.                  *)
WaitingComeLater ==
    /\ InBatchOrder(pending)
    /\ \A q \in Requests : \A i, j \in 1..Size[q] :
          i < j /\ <<q, i>> \in Jobs => activeRunId # <<q, j>> /\ <<q, j>> \notin finished
    /\ \A q \in Requests : \A i, j \in 1..Size[q] :
          i < j /\ activeRunId = <<q, i>> => <<q, j>> \notin finished
    /\ lastAcceptedAt >= Never

LEMMA AppendInOrder ==
  ASSUME NEW jobs \in Seq(Runs), NEW q \in Requests, NEW i \in 1..Size[q],
         InBatchOrder(jobs), \A j \in 1..Size[q] : j >= i => <<q, j>> \notin ToSet(jobs)
  PROVE  InBatchOrder(Append(jobs, <<q, i>>))
  <1> DEFINE r == <<q, i>>
             more == Append(jobs, r)
  <1>1. r \in Runs
    BY RunOf
  <1>2. /\ Len(more) = Len(jobs) + 1 /\ Len(jobs) \in Nat /\ DOMAIN more = 1..(Len(jobs) + 1)
        /\ \A k \in 1..Len(jobs) : more[k] = jobs[k]
        /\ more[Len(jobs) + 1] = r
        /\ DOMAIN jobs = 1..Len(jobs)
    BY <1>1
  <1> HIDE DEF more
  <1> SUFFICES ASSUME NEW m \in DOMAIN more, NEW n \in DOMAIN more, NEW p \in Requests,
                      NEW a \in 1..Size[p], NEW b \in 1..Size[p],
                      more[m] = <<p, a>>, more[n] = <<p, b>>, a < b
               PROVE  m < n
    BY DEF InBatchOrder, more
  <1>3. CASE m \in 1..Len(jobs) /\ n \in 1..Len(jobs)
    BY <1>2, <1>3 DEF InBatchOrder
  <1>4. CASE m \in 1..Len(jobs) /\ n = Len(jobs) + 1
    BY <1>2, <1>4
  <1>5. CASE m = Len(jobs) + 1 /\ n \in 1..Len(jobs)
    <2>1. p = q /\ a = i /\ jobs[n] = <<q, b>>
      BY <1>2, <1>5
    <2>2. jobs[n] \in ToSet(jobs)
      BY <1>2, <1>5 DEF ToSet
    <2>3. b >= i /\ b \in 1..Size[q]
      BY <2>1, SizeAssumption
    <2> QED BY <2>1, <2>2, <2>3
  <1>6. CASE m = Len(jobs) + 1 /\ n = Len(jobs) + 1
    BY <1>2, <1>6, SizeAssumption
  <1> QED BY <1>2, <1>3, <1>4, <1>5, <1>6

LEMMA ShiftInOrder ==
  ASSUME NEW jobs \in Seq(Runs), jobs # <<>>, InBatchOrder(jobs)
  PROVE  /\ InBatchOrder(Tail(jobs))
         /\ \A q \in Requests : \A i, j \in 1..Size[q] :
               i < j /\ <<q, i>> \in ToSet(Tail(jobs)) => Head(jobs) # <<q, j>>
  <1>1. /\ Head(jobs) = jobs[1] /\ Len(jobs) \in Nat /\ Len(jobs) >= 1
        /\ DOMAIN jobs = 1..Len(jobs) /\ DOMAIN Tail(jobs) = 1..(Len(jobs) - 1)
        /\ \A k \in 1..(Len(jobs) - 1) : Tail(jobs)[k] = jobs[k + 1]
    OBVIOUS
  <1>2. InBatchOrder(Tail(jobs))
    <2> DEFINE rest == Tail(jobs)
    <2> SUFFICES ASSUME NEW m \in DOMAIN rest, NEW n \in DOMAIN rest,
                        NEW q \in Requests, NEW i \in 1..Size[q], NEW j \in 1..Size[q],
                        rest[m] = <<q, i>>, rest[n] = <<q, j>>, i < j
                 PROVE  m < n
      BY Zenon DEF InBatchOrder
    <2> DEFINE k == m + 1
               l == n + 1
    <2>1. k \in DOMAIN jobs /\ l \in DOMAIN jobs
      BY <1>1
    <2>2. jobs[k] = <<q, i>> /\ jobs[l] = <<q, j>>
      BY <1>1
    <2>3. k < l => m < n
      BY <1>1
    <2> HIDE DEF k, l, rest
    <2>4. k < l
      BY <2>1, <2>2 DEF InBatchOrder
    <2> QED BY <2>3, <2>4
  <1>3. ASSUME NEW q \in Requests, NEW i \in 1..Size[q], NEW j \in 1..Size[q],
               i < j, <<q, i>> \in ToSet(Tail(jobs)), Head(jobs) = <<q, j>>
        PROVE  FALSE
    <2>1. PICK k \in 1..(Len(jobs) - 1) : Tail(jobs)[k] = <<q, i>>
      BY <1>1, <1>3 DEF ToSet
    <2>2. k + 1 \in DOMAIN jobs /\ 1 \in DOMAIN jobs /\ jobs[k + 1] = <<q, i>> /\ jobs[1] = <<q, j>>
      BY <1>1, <1>3, <2>1
    <2>3. k + 1 < 1
      BY <1>3, <2>2 DEF InBatchOrder
    <2> QED BY <2>3
  <1> QED BY <1>2, <1>3

(* A new acceptance time is later than the last one of this process.       *)
LEMMA LaterTime ==
  ASSUME TypeOK, lastAcceptedAt >= Never, NEW r \in Runs, IssueCreate(r)
  PROVE  /\ startedAt' = [startedAt EXCEPT ![r] = lastAcceptedAt']
         /\ lastAcceptedAt' \in Int /\ lastAcceptedAt' > lastAcceptedAt
         /\ lastAcceptedAt' >= Never
  <1>1. PICK now \in Clock :
           /\ lastAcceptedAt' = NextAcceptedAt(now, lastAcceptedAt)
           /\ startedAt' = [startedAt EXCEPT ![r] = NextAcceptedAt(now, lastAcceptedAt)]
    BY DEF IssueCreate
  <1>2. now \in Nat /\ lastAcceptedAt \in Int
    BY ClockAssumption DEF TypeOK
  <1> QED BY <1>1, <1>2 DEF NextAcceptedAt, Never

OrderInv == TimesRise /\ WaitingComeLater

LEMMA OrderInit == Init => OrderInv
  <1> SUFFICES ASSUME Init PROVE OrderInv
    OBVIOUS
  <1>1. Jobs = {}
    BY DEF Init, Jobs, ToSet
  <1>2. TimesRise
    BY SizeAssumption DEF Init, TimesRise
  <1>3. WaitingComeLater
    BY <1>1, RunOf, NoRunIsNoRun DEF Init, WaitingComeLater, InBatchOrder, Never
  <1> QED BY <1>2, <1>3 DEF OrderInv

(* Steps that neither take a time nor move a job.                          *)
LEMMA OrderKept ==
  ASSUME IInv, OrderInv,
         UNCHANGED <<startedAt, lastAcceptedAt, at, pending, activeRunId, finished>>,
         \A r \in Runs : doc[r] # "absent" => doc'[r] # "absent",
         \A q \in Requests : post'[q] \in {"writing", "written"} => post[q] \in {"writing", "written"}
  PROVE  OrderInv'
  <1>1. Jobs' = Jobs
    BY DEF Jobs
  <1>2. TimesRise'
    BY RunOf DEF TimesRise, OrderInv
  <1>3. WaitingComeLater'
    BY <1>1 DEF WaitingComeLater, OrderInv
  <1> QED BY <1>2, <1>3 DEF OrderInv

(* Steps that hand the device on.                                          *)
LEMMA OrderFinish ==
  ASSUME IInv, OrderInv, activeRunId # NoRun, Finish,
         UNCHANGED <<doc, startedAt, lastAcceptedAt, post, at>>
  PROVE  OrderInv'
  <1>1. TimesRise'
    BY DEF TimesRise, OrderInv
  <1>2. pending \in Seq(Runs) /\ NoDuplicates(pending) /\ InBatchOrder(pending)
    BY DEF IInv, TypeOK, QueueAgreesWithStore, NoDuplicates, OrderInv, WaitingComeLater
  <1>3. CASE pending = <<>>
    <2>1. pending' = <<>> /\ activeRunId' = NoRun /\ Jobs' = {}
      BY <1>3 DEF Finish, Drain, Jobs, ToSet
    <2>2. WaitingComeLater'
      BY <2>1, RunOf, NoRunIsNoRun DEF WaitingComeLater, InBatchOrder, OrderInv
    <2> QED BY <1>1, <2>2 DEF OrderInv
  <1>4. CASE pending # <<>>
    <2> DEFINE h == Head(pending)
               t == Tail(pending)
    <2>1. /\ h \in Runs /\ Jobs = ToSet(t) \cup {h} /\ InBatchOrder(t)
          /\ \A q \in Requests : \A i, j \in 1..Size[q] :
                i < j /\ <<q, i>> \in ToSet(t) => h # <<q, j>>
      BY <1>2, <1>4, ShiftJob, ShiftInOrder DEF Jobs
    <2>2. pending' = t /\ activeRunId' = h /\ finished' = finished \cup {activeRunId}
      BY <1>4 DEF Finish, Drain
    <2> HIDE DEF h, t
    <2>3. Jobs' = ToSet(t)
      BY <2>2 DEF Jobs
    <2>4. ASSUME NEW q \in Requests, NEW i \in 1..Size[q], NEW j \in 1..Size[q], i < j,
                 <<q, i>> \in Jobs
          PROVE  <<q, j>> \notin finished'
      BY <2>2, <2>4 DEF OrderInv, WaitingComeLater
    <2>5. WaitingComeLater'
      BY <2>1, <2>2, <2>3, <2>4 DEF WaitingComeLater, OrderInv
    <2> QED BY <1>1, <2>5 DEF OrderInv
  <1> QED BY <1>3, <1>4

(* A run is queued and the next of its batch is issued.                    *)
LEMMA OrderAccept ==
  ASSUME IInv, OrderInv, NEW q \in Requests, CreateReplies(q)
  PROVE  OrderInv'
  <1> DEFINE r == <<q, at[q]>>
  <1>1. /\ post[q] = "written" /\ UNCHANGED <<doc, finished>> /\ Enqueue(r)
        /\ at[q] \in 1..Size[q] /\ Size[q] \in Nat /\ r \in Runs
        /\ doc[r] = "queued" /\ r \notin Jobs \cup {activeRunId} \cup lost /\ r \notin finished
        /\ \A i \in 1..Size[q] : i > at[q] => doc[<<q, i>>] = "absent"
    BY RunOf, SizeAssumption
       DEF CreateReplies, IInv, HandlersAgree, TypeOK, FinishedHaveVerdict, Settled
  <1>2. \A j \in 1..Size[q] : j >= at[q] => <<q, j>> \notin Jobs \cup {activeRunId} \cup finished
    <2> SUFFICES ASSUME NEW j \in 1..Size[q], j > at[q]
                 PROVE  <<q, j>> \notin Jobs \cup {activeRunId} \cup finished
      BY <1>1
    <2>1. <<q, j>> \in Runs /\ doc[<<q, j>>] = "absent"
      BY <1>1, RunOf
    <2>2. activeRunId = NoRun \/ doc[activeRunId] # "absent"
      BY DEF IInv, ExecutorAgrees, QueueAgreesWithStore, TypeOK, ExecPhase, Settled
    <2>3. \A x \in Jobs \cup finished : doc[x] # "absent"
      BY DEF IInv, QueueAgreesWithStore, FinishedHaveVerdict, LostAgree, Settled, Unsettled
    <2> QED BY <2>1, <2>2, <2>3, NoRunIsNoRun
  <1>3. TimesRise'
    <2>1. CASE at[q] < Size[q]
      <3> DEFINE n == at[q] + 1
      <3>1. /\ post' = [post EXCEPT ![q] = "writing"] /\ at' = [at EXCEPT ![q] = n]
            /\ IssueCreate(<<q, n>>) /\ n \in 1..Size[q]
        BY <1>1, <2>1 DEF CreateReplies
      <3>2. /\ startedAt' = [startedAt EXCEPT ![<<q, n>>] = lastAcceptedAt']
            /\ lastAcceptedAt' > lastAcceptedAt
            /\ lastAcceptedAt' \in Int /\ lastAcceptedAt \in Int
        BY <3>1, LaterTime, RunOf DEF IInv, OrderInv, WaitingComeLater, TypeOK
      <3>3. startedAt \in [Runs -> Int] /\ at \in [Requests -> Nat] /\ post \in [Requests -> PostPhase]
        BY DEF IInv, TypeOK
      <3>4. ASSUME NEW p \in Requests, p # q
            PROVE  /\ at'[p] = at[p] /\ post'[p] = post[p] /\ startedAt'[<<p, at[p]>>] = startedAt[<<p, at[p]>>]
                   /\ \A i \in 1..Size[p] : startedAt'[<<p, i>>] = startedAt[<<p, i>>]
        BY <3>1, <3>2, <3>3, <3>4, RunOf DEF IInv, TypeOK
      <3>5. /\ at'[q] = n /\ startedAt'[<<q, n>>] = lastAcceptedAt'
            /\ \A i \in 1..Size[q] : i # n => startedAt'[<<q, i>>] = startedAt[<<q, i>>]
        BY <3>1, <3>2, <3>3, RunOf
      <3>6. \A i \in 1..Size[q] : i < n => startedAt[<<q, i>>] < lastAcceptedAt'
        <4> SUFFICES ASSUME NEW i \in 1..Size[q], i < n PROVE startedAt[<<q, i>>] < lastAcceptedAt'
          OBVIOUS
        <4>1. startedAt[<<q, at[q]>>] <= lastAcceptedAt /\ startedAt[<<q, at[q]>>] \in Int
          BY <1>1, <3>3 DEF OrderInv, TimesRise
        <4>2. startedAt[<<q, i>>] \in Int
          BY <3>3, RunOf
        <4>3. i < at[q] => startedAt[<<q, i>>] < startedAt[<<q, at[q]>>]
          BY <1>1 DEF OrderInv, TimesRise
        <4> QED BY <1>1, <3>2, <4>1, <4>2, <4>3
      <3> HIDE DEF n
      <3> SUFFICES ASSUME NEW p \in Requests
                   PROVE  /\ \A i \in 1..Size[p] : i < at'[p] => doc[<<p, i>>] # "absent"
                          /\ \A i, j \in 1..Size[p] :
                                i < j /\ j <= at'[p] => startedAt'[<<p, i>>] < startedAt'[<<p, j>>]
                          /\ post'[p] \in {"writing", "written"} => startedAt'[<<p, at'[p]>>] <= lastAcceptedAt'
        BY <1>1 DEF TimesRise
      <3>7. CASE p # q
        <4>1. /\ \A i \in 1..Size[p] : i < at[p] => doc[<<p, i>>] # "absent"
              /\ \A i, j \in 1..Size[p] :
                    i < j /\ j <= at[p] => startedAt[<<p, i>>] < startedAt[<<p, j>>]
              /\ post[p] \in {"writing", "written"} => startedAt[<<p, at[p]>>] <= lastAcceptedAt
          BY DEF OrderInv, TimesRise
        <4>2. startedAt[<<p, at[p]>>] \in Int
          BY <3>3, RunOf DEF IInv, TypeOK
        <4>3. /\ at'[p] = at[p] /\ post'[p] = post[p] /\ startedAt'[<<p, at[p]>>] = startedAt[<<p, at[p]>>]
              /\ \A i \in 1..Size[p] : startedAt'[<<p, i>>] = startedAt[<<p, i>>]
          BY <3>4, <3>7
        <4>4. post'[p] \in {"writing", "written"} => startedAt'[<<p, at'[p]>>] <= lastAcceptedAt'
          BY <3>2, <4>1, <4>2, <4>3
        <4> QED BY <4>1, <4>3, <4>4
      <3>8. CASE p = q
        <4>1. \A i \in 1..Size[q] : i < n => doc[<<q, i>>] # "absent"
          BY <1>1 DEF OrderInv, TimesRise, n
        <4>2. \A i, j \in 1..Size[q] : i < j /\ j < n => startedAt[<<q, i>>] < startedAt[<<q, j>>]
          BY <1>1 DEF OrderInv, TimesRise, n
        <4>3. n \in Int
          BY <1>1 DEF n
        <4> QED BY <3>2, <3>5, <3>6, <3>8, <4>1, <4>2, <4>3
      <3> QED BY <3>7, <3>8
    <2>2. CASE ~(at[q] < Size[q])
      <3>1. post' = [post EXCEPT ![q] = "accepted"] /\ UNCHANGED <<at, lastAcceptedAt, startedAt>>
        BY <2>2 DEF CreateReplies
      <3> QED BY <1>1, <3>1 DEF OrderInv, TimesRise, IInv, TypeOK
    <2> QED BY <2>1, <2>2
  <1>4. lastAcceptedAt' >= Never
    <2>1. CASE at[q] < Size[q]
      <3>1. IssueCreate(<<q, at[q] + 1>>) /\ <<q, at[q] + 1>> \in Runs
        BY <1>1, <2>1, RunOf DEF CreateReplies
      <3> QED BY <3>1, LaterTime DEF IInv, OrderInv, WaitingComeLater
    <2>2. CASE ~(at[q] < Size[q])
      BY <2>2 DEF CreateReplies, OrderInv, WaitingComeLater
    <2> QED BY <2>1, <2>2
  <1>5. /\ pending \in Seq(Runs) /\ InBatchOrder(pending)
        /\ InBatchOrder(Append(pending, r)) /\ ToSet(Append(pending, r)) = Jobs \cup {r}
    <2>1. pending \in Seq(Runs) /\ InBatchOrder(pending)
      BY DEF IInv, TypeOK, OrderInv, WaitingComeLater
    <2>2. InBatchOrder(Append(pending, r))
      BY <1>1, <1>2, <2>1, AppendInOrder DEF Jobs
    <2> HIDE DEF r
    <2> QED BY <1>1, <2>1, <2>2, AppendJob DEF Jobs
  <1>6. WaitingComeLater'
    <2>1. CASE activeRunId = NoRun
      <3>1. pending = <<>> /\ Drain(Append(pending, r))
        BY <1>1, <2>1 DEF Enqueue, IInv, QueueAgreesWithStore
      <3>2. pending' = <<>> /\ activeRunId' = r /\ Jobs' = {}
        BY <1>1, <3>1 DEF Drain, Jobs, ToSet
      <3>3. \A p \in Requests : \A i, j \in 1..Size[p] :
              i < j /\ r = <<p, i>> => <<p, j>> \notin finished
        BY <1>1, <1>2
      <3> QED BY <1>1, <1>4, <3>2, <3>3 DEF WaitingComeLater, InBatchOrder
    <2>2. CASE activeRunId # NoRun
      <3>1. pending' = Append(pending, r) /\ UNCHANGED activeRunId
        BY <1>1, <2>2 DEF Enqueue
      <3>2. Jobs' = Jobs \cup {r} /\ InBatchOrder(pending')
        BY <1>5, <3>1 DEF Jobs
      <3>3. ASSUME NEW p \in Requests, NEW i \in 1..Size[p], NEW j \in 1..Size[p], i < j,
                   <<p, i>> \in Jobs \cup {r}
            PROVE  activeRunId # <<p, j>> /\ <<p, j>> \notin finished
        <4>1. CASE <<p, i>> \in Jobs
          BY <3>3, <4>1 DEF OrderInv, WaitingComeLater
        <4>2. CASE <<p, i>> = r
          BY <1>1, <1>2, <3>3, <4>2
        <4> QED BY <3>3, <4>1, <4>2
      <3> HIDE DEF r
      <3> QED BY <1>1, <1>4, <3>1, <3>2, <3>3 DEF WaitingComeLater, OrderInv
    <2> QED BY <2>1, <2>2
  <1> QED BY <1>3, <1>6 DEF OrderInv

LEMMA OrderPost ==
  ASSUME IInv, OrderInv, NEW q \in Requests, Post(q)
  PROVE  OrderInv'
  <1>1. /\ UNCHANGED <<doc, at, pending, activeRunId, finished>>
        /\ post[q] = "idle" /\ post' = [post EXCEPT ![q] = "writing"]
        /\ IssueCreate(<<q, 1>>)
    BY DEF Post, queue
  <1>2. <<q, 1>> \in Runs /\ at[q] = 1 /\ Size[q] \in Nat
    <2>1. Size[q] \in Nat /\ 1 \in 1..Size[q]
      BY SizeAssumption
    <2>2. at[q] = 1
      BY <1>1 DEF IInv, HandlersAgree
    <2> QED BY <2>1, <2>2, RunOf
  <1>3. /\ startedAt' = [startedAt EXCEPT ![<<q, 1>>] = lastAcceptedAt']
        /\ lastAcceptedAt' > lastAcceptedAt /\ lastAcceptedAt' >= Never
        /\ lastAcceptedAt' \in Int /\ lastAcceptedAt \in Int
    BY <1>1, <1>2, LaterTime DEF IInv, OrderInv, WaitingComeLater, TypeOK
  <1>4. startedAt \in [Runs -> Int] /\ post \in [Requests -> PostPhase] /\ at \in [Requests -> Nat]
    BY DEF IInv, TypeOK
  <1>5. Jobs' = Jobs
    BY <1>1 DEF Jobs
  <1>6. WaitingComeLater'
    BY <1>1, <1>3, <1>5 DEF WaitingComeLater, OrderInv
  <1>7. ASSUME NEW p \in Requests
        PROVE  /\ \A i \in 1..Size[p] : i < at[p] => doc[<<p, i>>] # "absent"
               /\ \A i, j \in 1..Size[p] :
                     i < j /\ j <= at[p] => startedAt'[<<p, i>>] < startedAt'[<<p, j>>]
               /\ post'[p] \in {"writing", "written"} => startedAt'[<<p, at[p]>>] <= lastAcceptedAt'
    <2>1. /\ \A i \in 1..Size[p] : i < at[p] => doc[<<p, i>>] # "absent"
          /\ \A i, j \in 1..Size[p] :
                i < j /\ j <= at[p] => startedAt[<<p, i>>] < startedAt[<<p, j>>]
          /\ post[p] \in {"writing", "written"} => startedAt[<<p, at[p]>>] <= lastAcceptedAt
      BY DEF OrderInv, TimesRise
    <2>2. CASE p = q
      <3>1. startedAt'[<<q, 1>>] = lastAcceptedAt'
        BY <1>2, <1>3, <1>4
      <3> QED BY <1>2, <1>3, <2>1, <2>2, <3>1
    <2>3. CASE p # q
      <3>1. post'[p] = post[p] /\ \A i \in 1..Size[p] : startedAt'[<<p, i>>] = startedAt[<<p, i>>]
        BY <1>1, <1>3, <1>4, <2>3, RunOf
      <3>2. at[p] \in 1..Size[p] /\ startedAt[<<p, at[p]>>] \in Int
        BY <1>4, RunOf DEF IInv, TypeOK
      <3>3. startedAt'[<<p, at[p]>>] = startedAt[<<p, at[p]>>]
        BY <3>1, <3>2
      <3>4. post'[p] \in {"writing", "written"} => startedAt'[<<p, at[p]>>] <= lastAcceptedAt'
        BY <1>3, <2>1, <3>1, <3>2, <3>3
      <3> QED BY <2>1, <3>1, <3>4
    <2> QED BY <2>2, <2>3
  <1>8. TimesRise'
    BY <1>1, <1>7 DEF TimesRise
  <1> QED BY <1>6, <1>8 DEF OrderInv

LEMMA OrderStep ==
  ASSUME IInv, OrderInv, [Next]_vars
  PROVE  OrderInv'
  <1>1. ASSUME NEW q \in Requests, Post(q) PROVE OrderInv'
    BY <1>1, OrderPost
  <1>2. ASSUME NEW q \in Requests, CreateReplies(q) PROVE OrderInv'
    BY <1>2, OrderAccept
  <1>3. ASSUME NEW q \in Requests, CreateLands(q) \/ CreateFails(q) PROVE OrderInv'
    <2>1. UNCHANGED <<startedAt, lastAcceptedAt, at, pending, activeRunId, finished>>
      BY <1>3 DEF CreateLands, CreateFails, queue, store
    <2>2. \A r \in Runs : doc[r] # "absent" => doc'[r] # "absent"
      BY <1>3 DEF CreateLands, CreateFails, store, IInv, TypeOK
    <2>3. \A p \in Requests : post'[p] \in {"writing", "written"} => post[p] \in {"writing", "written"}
      BY <1>3 DEF CreateLands, CreateFails, IInv, TypeOK
    <2> QED BY <2>1, <2>2, <2>3, OrderKept
  <1>4. CASE BeginReplies \/ CasesEnd \/ ScenarioThrows
    <2>1. UNCHANGED <<doc, startedAt, lastAcceptedAt, post, at, pending, activeRunId, finished>>
      BY <1>4 DEF BeginReplies, CasesEnd, ScenarioThrows, store, handlers
    <2> QED BY <2>1, OrderKept
  <1>5. CASE BeginLands \/ FinishLands \/ CrashLands
    <2>1. UNCHANGED <<startedAt, lastAcceptedAt, post, at, pending, activeRunId, finished>>
      BY <1>5 DEF BeginLands, FinishLands, CrashLands, Lands, handlers
    <2>2. \A r \in Runs : doc[r] # "absent" => doc'[r] # "absent"
      BY <1>5 DEF BeginLands, FinishLands, CrashLands, Lands, IInv, TypeOK, Settled
    <2> QED BY <2>1, <2>2, OrderKept
  <1>6. CASE FinishReplies \/ CrashReplies \/ CrashFails
    <2>1. /\ UNCHANGED <<doc, startedAt, lastAcceptedAt, post, at>>
          /\ activeRunId # NoRun /\ Finish
      BY <1>6 DEF FinishReplies, CrashReplies, CrashFails, Fails, store, handlers, IInv,
                  QueueAgreesWithStore
    <2> QED BY <2>1, OrderFinish
  <1>7. CASE Stop
    <2>1. /\ UNCHANGED <<doc, startedAt, at>>
          /\ lastAcceptedAt' = Never /\ pending' = <<>> /\ activeRunId' = NoRun /\ finished' = {}
          /\ \A p \in Requests : post'[p] \notin {"writing", "written"}
      BY <1>7 DEF Stop, store
    <2>2. Jobs' = {}
      BY <2>1 DEF Jobs, ToSet
    <2>3. WaitingComeLater'
      BY <2>1, <2>2, RunOf, NoRunIsNoRun DEF WaitingComeLater, InBatchOrder, Never
    <2>4. TimesRise'
      BY <2>1 DEF TimesRise, OrderInv
    <2> QED BY <2>3, <2>4 DEF OrderInv
  <1>8. CASE Boot \/ BootUnswept
    <2>1. UNCHANGED <<startedAt, lastAcceptedAt, post, at, pending, activeRunId, finished>>
      BY <1>8 DEF Boot, BootUnswept, handlers, queue, store
    <2>2. \A r \in Runs : doc[r] # "absent" => doc'[r] # "absent"
      BY <1>8 DEF Boot, BootUnswept, store
    <2> QED BY <2>1, <2>2, OrderKept
  <1>9. CASE UNCHANGED vars
    <2>1. UNCHANGED <<doc, startedAt, lastAcceptedAt, post, at, pending, activeRunId, finished>>
      BY <1>9 DEF vars, store, handlers, queue
    <2> QED BY <2>1, OrderKept
  <1> QED
    BY <1>1, <1>2, <1>3, <1>4, <1>5, <1>6, <1>7, <1>8, <1>9 DEF Next, Handler, Executor

LEMMA OrderImplies == IInv /\ OrderInv => BatchOrder
  <1> SUFFICES ASSUME IInv, OrderInv, NEW q \in Requests, NEW i \in 1..Size[q], NEW j \in 1..Size[q], i < j
               PROVE  /\ doc[<<q, j>>] # "absent" =>
                            /\ doc[<<q, i>>] # "absent"
                            /\ startedAt[<<q, i>>] < startedAt[<<q, j>>]
                      /\ <<q, i>> \in Jobs => activeRunId # <<q, j>> /\ <<q, j>> \notin finished
                      /\ \A m, n \in DOMAIN pending :
                            pending[m] = <<q, i>> /\ pending[n] = <<q, j>> => m < n
    BY DEF BatchOrder
  <1>0. at[q] \in Nat /\ Size[q] \in Nat
    BY SizeAssumption DEF IInv, TypeOK
  <1>1. doc[<<q, j>>] # "absent" => j <= at[q]
    <2>1. \A k \in 1..Size[q] : k > at[q] => doc[<<q, k>>] = "absent"
      BY DEF IInv, HandlersAgree
    <2> QED BY <1>0, <2>1
  <1>2. j <= at[q] => doc[<<q, i>>] # "absent" /\ startedAt[<<q, i>>] < startedAt[<<q, j>>]
    <2>1. /\ \A k \in 1..Size[q] : k < at[q] => doc[<<q, k>>] # "absent"
          /\ \A k, l \in 1..Size[q] :
                k < l /\ l <= at[q] => startedAt[<<q, k>>] < startedAt[<<q, l>>]
      BY DEF OrderInv, TimesRise
    <2> QED BY <1>0, <2>1
  <1>3. <<q, i>> \in Jobs => activeRunId # <<q, j>> /\ <<q, j>> \notin finished
    BY DEF OrderInv, WaitingComeLater
  <1>4. \A m, n \in DOMAIN pending :
           pending[m] = <<q, i>> /\ pending[n] = <<q, j>> => m < n
    BY DEF OrderInv, WaitingComeLater, InBatchOrder
  <1> QED BY <1>1, <1>2, <1>3, <1>4

(* A batch is written, listed and run in the order it was asked for, with  *)
(* any clock, any faults and any restarts (app.ts, store.ts, queue.ts).    *)
THEOREM BatchesKeepTheirOrder == Spec => []BatchOrder
  <1>1. Init => OrderInv
    BY OrderInit
  <1>2. IInv /\ OrderInv /\ [Next]_vars => OrderInv'
    BY OrderStep
  <1>3. IInv /\ OrderInv => BatchOrder
    BY OrderImplies
  <1> QED BY <1>1, <1>2, <1>3, Invariance, PTL DEF Spec

===============================================================================
