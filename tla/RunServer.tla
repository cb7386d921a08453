------------------------------- MODULE RunServer -------------------------------
(***************************************************************************)
(* The life of a run inside the dashboard server: the two POST handlers    *)
(* that accept runs (app.ts), the Firestore documents they are written to  *)
(* (store.ts), the in-memory queue that runs them one at a time (queue.ts),*)
(* the executor wrapped around runScenario and the start-up sweep          *)
(* (index.ts), and the memory of finished runs the event bus keeps         *)
(* (bus.ts).                                                               *)
(*                                                                         *)
(* A store write is three steps, as the program sees it: it is issued, it  *)
(* lands in Firestore, its reply comes back. It may fail before landing,   *)
(* and with LostReplies also after it, when only the reply is lost. The    *)
(* process may stop between any two steps; everything but the documents    *)
(* goes with it.                                                           *)
(*                                                                         *)
(* Between two awaits the program runs to completion, so what follows a    *)
(* reply -- publishing, dropping the active job, shifting the next one and *)
(* issuing its first write -- is one step here. #draining is TRUE exactly  *)
(* while a job is active, so it has no variable of its own.                *)
(***************************************************************************)
EXTENDS Integers, Sequences, SequencesExt

CONSTANTS Requests,     \* POST requests (a single run is a batch of one)
          Size,         \* Size[q]: how many runs request q asks for
          Clock,        \* what the wall clock may read, in any order
          MaxFaults,    \* bound: failing store operations
          MaxRestarts,  \* bound: stops of the process
          LostReplies,  \* TRUE: a write may land and still be reported failed
          NoRun

ASSUME SizeAssumption == Size \in [Requests -> Nat \ {0}]
ASSUME ClockAssumption == Clock \subseteq Nat
ASSUME BoundAssumption == MaxFaults \in Nat /\ MaxRestarts \in Nat /\ LostReplies \in BOOLEAN

(* A run is named by the request that asked for it and its place there.    *)
Runs == UNION {{q} \X (1..Size[q]) : q \in Requests}

ASSUME NoRunIsNoRun == NoRun \notin Runs

VARIABLES
    doc,            \* Firestore: status of each run document, "absent" before create()
    startedAt,      \* Firestore: the time each run document carries
    lastAcceptedAt, \* Store.#lastAcceptedAt
    post,           \* where the handler of each request stands
    at,             \* which run of the request the handler is at
    pending,        \* RunQueue.#pending
    activeRunId,    \* RunQueue.#activeRunId
    exec,           \* where the executor of the active job stands
    verdict,        \* what runScenario is writing with finishRun
    finished,       \* RunEventBus.#finished
    server,         \* the process: "up" or "down"
    lost,           \* history: runs whose closing write nobody will make
    faults, restarts

store == <<doc, startedAt>>
handlers == <<lastAcceptedAt, post, at>>
queue == <<pending, activeRunId, exec, verdict, finished>>
vars == <<store, handlers, queue, server, lost, faults, restarts>>

Unsettled == {"queued", "running"}
Settled == {"passed", "failed", "error"}
DocStatus == {"absent"} \cup Unsettled \cup Settled
PostPhase == {"idle", "writing", "written", "accepted", "refused", "cut"}
ExecPhase == {"idle", "beginning", "begun", "cases", "finishing", "finished",
              "crashing", "crashed"}
Never == -1

Init == /\ doc = [r \in Runs |-> "absent"]
        /\ startedAt = [r \in Runs |-> Never]
        /\ lastAcceptedAt = Never
        /\ post = [q \in Requests |-> "idle"]
        /\ at = [q \in Requests |-> 1]
        /\ pending = <<>>
        /\ activeRunId = NoRun
        /\ exec = "idle"
        /\ verdict = "error"
        /\ finished = {}
        /\ server = "down"
        /\ lost = {}
        /\ faults = 0
        /\ restarts = 0

Fault == /\ faults < MaxFaults
         /\ faults' = faults + 1

(* A reply is lost on top of the write, so both may fail.                  *)
Fails(issued, landed, here) == here = issued \/ (LostReplies /\ here = landed)

-------------------------------------------------------------------------------
(* The queue. *)

(* The drain loop between two awaits: shift the next job and issue its     *)
(* beginRun, or stop when there is none.                                   *)
Drain(jobs) ==
    IF jobs = <<>>
    THEN /\ pending' = <<>>
         /\ activeRunId' = NoRun
         /\ exec' = "idle"
    ELSE /\ pending' = Tail(jobs)
         /\ activeRunId' = Head(jobs)
         /\ exec' = "beginning"

Enqueue(r) ==
    IF activeRunId = NoRun
    THEN Drain(Append(pending, r))
    ELSE /\ pending' = Append(pending, r)
         /\ UNCHANGED <<activeRunId, exec>>

-------------------------------------------------------------------------------
(* Accepting runs. *)

(* Mutant: the time as the clock gives it, with no regard to the last one. *)
ClockTime(now, previous) == now

NextAcceptedAt(now, previous) ==
    IF previous = Never \/ now > previous THEN now ELSE previous + 1

(* store.enqueueRun up to its await: take the time, issue the create.      *)
IssueCreate(r) ==
    \E now \in Clock :
        LET time == NextAcceptedAt(now, lastAcceptedAt)
        IN  /\ lastAcceptedAt' = time
            /\ startedAt' = [startedAt EXCEPT ![r] = time]

Post(q) ==
    /\ server = "up"
    /\ post[q] = "idle"
    /\ post' = [post EXCEPT ![q] = "writing"]
    /\ IssueCreate(<<q, 1>>)
    /\ UNCHANGED <<doc, at, queue, server, lost, faults, restarts>>

CreateLands(q) ==
    /\ post[q] = "writing"
    /\ post' = [post EXCEPT ![q] = "written"]
    /\ doc' = [doc EXCEPT ![<<q, at[q]>>] = "queued"]
    /\ UNCHANGED <<startedAt, lastAcceptedAt, at, queue, server, lost, faults, restarts>>

(* The run is durable: queue it, announce it, and go on to the next one of *)
(* the batch or answer 202.                                                *)
CreateReplies(q) ==
    /\ post[q] = "written"
    /\ Enqueue(<<q, at[q]>>)
    /\ IF at[q] < Size[q]
       THEN /\ post' = [post EXCEPT ![q] = "writing"]
            /\ at' = [at EXCEPT ![q] = @ + 1]
            /\ IssueCreate(<<q, at[q] + 1>>)
       ELSE /\ post' = [post EXCEPT ![q] = "accepted"]
            /\ UNCHANGED <<at, lastAcceptedAt, startedAt>>
    /\ UNCHANGED <<doc, verdict, finished, server, lost, faults, restarts>>

(* The write failed: 500, naming what the batch already started. A create  *)
(* that landed all the same leaves a document no job will come for.        *)
CreateFails(q) ==
    /\ Fails("writing", "written", post[q])
    /\ Fault
    /\ post' = [post EXCEPT ![q] = "refused"]
    /\ lost' = IF post[q] = "written" THEN lost \cup {<<q, at[q]>>} ELSE lost
    /\ UNCHANGED <<store, lastAcceptedAt, at, queue, server, restarts>>

-------------------------------------------------------------------------------
(* Executing the active run: runScenario, and index.ts around it. *)

(* One store call of the executor lands, then replies.                     *)
Lands(issued, landed, status) ==
    /\ exec = issued
    /\ exec' = landed
    /\ doc' = [doc EXCEPT ![activeRunId] = status]
    /\ UNCHANGED <<startedAt, handlers, pending, activeRunId, verdict, finished,
                   server, lost, faults, restarts>>

(* beginRun: update, or createRun when the document is missing; the        *)
(* document reads "running" either way.                                    *)
BeginLands == Lands("beginning", "begun", "running")

BeginReplies ==
    /\ exec = "begun"
    /\ exec' = "cases"
    /\ UNCHANGED <<store, handlers, pending, activeRunId, verdict, finished,
                   server, lost, faults, restarts>>

(* Every case has its outcome; finishRun is issued with the run's own.     *)
CasesEnd ==
    /\ exec = "cases"
    /\ verdict' \in {"passed", "failed"}
    /\ exec' = "finishing"
    /\ UNCHANGED <<store, handlers, pending, activeRunId, finished,
                   server, lost, faults, restarts>>

FinishLands == Lands("finishing", "finished", verdict)

(* publish(run_finished), the job is over, the drain goes on.              *)
Finish == /\ finished' = finished \cup {activeRunId}
          /\ Drain(pending)

FinishReplies ==
    /\ exec = "finished"
    /\ Finish
    /\ UNCHANGED <<store, handlers, verdict, server, lost, faults, restarts>>

(* Mutant: a run that could not begin is reported as failed, not as error. *)
ScenarioThrowsFailed ==
    /\ \/ Fails("beginning", "begun", exec)
       \/ exec = "cases"
    /\ Fault
    /\ exec' = "finishing"
    /\ verdict' = "failed"
    /\ UNCHANGED <<store, handlers, pending, activeRunId, finished, server, lost,
                   restarts>>

(* A store call of runScenario throws (in "cases": createCase or           *)
(* finishCase, the two not caught per case) and the catch in index.ts      *)
(* issues finishRun("error").                                              *)
ScenarioThrows ==
    /\ \/ Fails("beginning", "begun", exec)
       \/ exec = "cases"
       \/ Fails("finishing", "finished", exec)
    /\ Fault
    /\ exec' = "crashing"
    /\ UNCHANGED <<store, handlers, pending, activeRunId, verdict, finished,
                   server, lost, restarts>>

CrashLands == Lands("crashing", "crashed", "error")

CrashReplies ==
    /\ exec = "crashed"
    /\ Finish
    /\ UNCHANGED <<store, handlers, verdict, server, lost, faults, restarts>>

(* Mutant: the failure escapes the drain loop and the queue stops there.   *)
CrashFailsAndStrands ==
    /\ Fails("crashing", "crashed", exec)
    /\ Fault
    /\ lost' = IF doc[activeRunId] \in Unsettled THEN lost \cup {activeRunId} ELSE lost
    /\ finished' = finished \cup {activeRunId}
    /\ activeRunId' = NoRun
    /\ exec' = "idle"
    /\ UNCHANGED <<store, handlers, pending, verdict, server, restarts>>

(* The closing write fails too. It is logged; run_finished goes out and    *)
(* the queue moves on all the same.                                        *)
CrashFails ==
    /\ Fails("crashing", "crashed", exec)
    /\ Fault
    /\ lost' = IF doc[activeRunId] \in Unsettled THEN lost \cup {activeRunId} ELSE lost
    /\ Finish
    /\ UNCHANGED <<store, handlers, verdict, server, restarts>>

-------------------------------------------------------------------------------
(* The process. *)

(* Mutant: the pending jobs outlive the process.                           *)
StopKeepsJobs ==
    /\ server = "up"
    /\ restarts < MaxRestarts
    /\ restarts' = restarts + 1
    /\ server' = "down"
    /\ post' = [q \in Requests |->
                   IF post[q] \in {"writing", "written"} THEN "cut" ELSE post[q]]
    /\ lastAcceptedAt' = Never
    /\ activeRunId' = NoRun
    /\ exec' = "idle"
    /\ finished' = {}
    /\ UNCHANGED <<store, at, pending, verdict, lost, faults>>

(* Killed, restarted by --watch, or process.exit at the end of a shutdown: *)
(* whatever is in memory is gone and open requests are cut off.            *)
Stop ==
    /\ server = "up"
    /\ restarts < MaxRestarts
    /\ restarts' = restarts + 1
    /\ server' = "down"
    /\ post' = [q \in Requests |->
                   IF post[q] \in {"writing", "written"} THEN "cut" ELSE post[q]]
    /\ lastAcceptedAt' = Never
    /\ pending' = <<>>
    /\ activeRunId' = NoRun
    /\ exec' = "idle"
    /\ finished' = {}
    /\ UNCHANGED <<store, at, verdict, lost, faults>>

(* Mutant: the sweep forgets the runs that were still waiting.             *)
BootSweepingRunning ==
    /\ server = "down"
    /\ server' = "up"
    /\ doc' = [r \in Runs |-> IF doc[r] = "running" THEN "error" ELSE doc[r]]
    /\ lost' = {}
    /\ UNCHANGED <<startedAt, handlers, queue, faults, restarts>>

(* store.settleOrphanedRuns, awaited before the app exists: one batch.     *)
Boot ==
    /\ server = "down"
    /\ server' = "up"
    /\ doc' = [r \in Runs |-> IF doc[r] \in Unsettled THEN "error" ELSE doc[r]]
    /\ lost' = {}
    /\ UNCHANGED <<startedAt, handlers, queue, faults, restarts>>

(* The sweep fails: logged, and the server comes up without it.            *)
BootUnswept ==
    /\ server = "down"
    /\ Fault
    /\ server' = "up"
    /\ lost' = {r \in Runs : doc[r] \in Unsettled}
    /\ UNCHANGED <<store, handlers, queue, restarts>>

-------------------------------------------------------------------------------

Executor == \/ BeginLands \/ BeginReplies \/ CasesEnd \/ FinishLands \/ FinishReplies
            \/ ScenarioThrows \/ CrashLands \/ CrashReplies \/ CrashFails

Handler(q) == CreateLands(q) \/ CreateReplies(q) \/ CreateFails(q)

Next == \/ \E q \in Requests : Post(q) \/ Handler(q)
        \/ Executor
        \/ Stop \/ Boot \/ BootUnswept

Spec == Init /\ [][Next]_vars

(* Store calls are answered, a run's cases end (each has a step budget and *)
(* every device call a timeout), and whoever stopped the server starts it  *)
(* again. Nobody has to post anything, or to stop anything.                *)
Fairness == /\ \A q \in Requests : WF_vars(Handler(q))
            /\ WF_vars(Executor)
            /\ WF_vars(Boot \/ BootUnswept)

FairSpec == Spec /\ Fairness

-------------------------------------------------------------------------------
(* Properties. *)

Jobs == ToSet(pending)

TypeOK ==
    /\ doc \in [Runs -> DocStatus]
    /\ startedAt \in [Runs -> Int]
    /\ lastAcceptedAt \in Int
    /\ post \in [Requests -> PostPhase]
    /\ at \in [Requests -> Nat]
    /\ \A q \in Requests : at[q] \in 1..Size[q]
    /\ pending \in Seq(Runs)
    /\ activeRunId \in Runs \cup {NoRun}
    /\ exec \in ExecPhase
    /\ verdict \in Settled
    /\ finished \subseteq Runs
    /\ server \in {"up", "down"}
    /\ lost \subseteq Runs
    /\ faults \in Nat /\ restarts \in Nat

(* What the queue holds in memory agrees with the documents: a job waits   *)
(* at most once and its document says "queued" for as long as it waits     *)
(* (through refused batches, failed writes and restarts), and the active   *)
(* job is none of the waiting ones and has not been announced as over.     *)
QueueAgreesWithStore ==
    /\ \A i, j \in DOMAIN pending : pending[i] = pending[j] => i = j
    /\ \A r \in Jobs : doc[r] = "queued"
    /\ activeRunId \notin Jobs
    /\ (Jobs \cup {activeRunId}) \cap finished = {}
    /\ (activeRunId = NoRun) <=> (exec = "idle")
    /\ activeRunId = NoRun => pending = <<>>

(* While the server is up, a run the history shows as still to come has    *)
(* somebody who will end it: a job that waits or runs, or the handler that *)
(* is about to queue it. The exceptions are the three the code logs: its   *)
(* create was reported failed, both its closing writes failed, or the      *)
(* start-up sweep did.                                                     *)
NoOrphans ==
    server = "up" =>
        \A r \in Runs :
            doc[r] \in Unsettled =>
                \/ r \in Jobs \cup {activeRunId} \cup lost
                \/ \E q \in Requests : post[q] = "written" /\ r = <<q, at[q]>>

(* One device: at most the active run is "running", unless the writes that *)
(* would have said otherwise failed.                                       *)
OneRunOnTheDevice ==
    server = "up" =>
        \A r \in Runs : doc[r] = "running" => r = activeRunId \/ r \in lost

(* A run announced as finished has its verdict in the store: a client that *)
(* refetches on run_finished, or is told by hasFinished, finds it there.   *)
FinishedHaveVerdict ==
    \A r \in finished : doc[r] \in Settled \/ r \in lost

(* A batch is written, listed and run in the order it was asked for,       *)
(* whatever the clock does and wherever the batch stops.                   *)
BatchOrder ==
    \A q \in Requests : \A i, j \in 1..Size[q] :
        i < j =>
            /\ doc[<<q, j>>] # "absent" =>
                  /\ doc[<<q, i>>] # "absent"
                  /\ startedAt[<<q, i>>] < startedAt[<<q, j>>]
            /\ <<q, i>> \in Jobs => activeRunId # <<q, j>> /\ <<q, j>> \notin finished
            /\ \A m, n \in DOMAIN pending :
                  pending[m] = <<q, i>> /\ pending[n] = <<q, j>> => m < n

(* A verdict is final, through restarts and their sweeps, as long as a     *)
(* write reported failed has not landed.                                   *)
SettledIsFinal ==
    [][\A r \in Runs : doc[r] \in Settled => doc'[r] = doc[r]]_vars

(* Every run a client was answered 202 for comes to a verdict, whatever    *)
(* fails before it, also over restarts -- or is one of those whose closing *)
(* writes all failed.                                                      *)
AcceptedRunsSettle ==
    \A r \in Runs :
        post[r[1]] = "accepted" ~> (doc[r] \in Settled \/ r \in lost)

(* The server keeps the promise of RunHistory, the active job being the    *)
(* holder of the device.                                                   *)
History == INSTANCE RunHistory WITH holder <- activeRunId

KeepsHistory == History!Spec

===============================================================================
