------------------------------- MODULE CliWatch -------------------------------
(***************************************************************************)
(* One command of the CLI that starts, shows or follows a run              *)
(* (apps/cli/src/commands/run.ts): it waits for the run to exist, reads    *)
(* its event stream (sse.ts) to the close, polls where the stream brought  *)
(* no verdict, and ends with one exit code (exit-codes.ts).                *)
(*                                                                         *)
(* The server is the handler that answers the CLI (app.ts): it reads the   *)
(* run, subscribes, replays what it read and follows the run. Its reading  *)
(* is one step here, and a closing write that fails is left out; RunStream *)
(* and RunServer have both. A stream is a sequence of tokens, of which the *)
(* CLI reads any number at a time; a line ends with "nl" and a message     *)
(* with an empty line. The timeline is Steps events of one kind and the    *)
(* end of the run.                                                         *)
(***************************************************************************)
EXTENDS Integers, Sequences, FiniteSets, SequencesExt

CONSTANTS Steps,            \* events of the run before its end
          AppearAttempts,   \* looks at a run that may not be there yet
          MaxPolls,         \* POLL_MAX_ATTEMPTS
          MaxRestarts, MaxFaults, MaxComments \* bounds of the environment

ASSUME BoundsAssumption ==
    /\ Steps \in Nat /\ MaxRestarts \in Nat /\ MaxFaults \in Nat /\ MaxComments \in Nat
    /\ AppearAttempts \in Nat \ {0} /\ MaxPolls \in Nat

Verdicts == {"passed", "failed", "error"}

VARIABLES
    command,    \* "start", "startWatch", "get", "watch"
    pc,         \* "start", "looking", "opening", "streaming", "polling", "done"
    tries,      \* attempts of the loop the command is in
    parser,     \* SseParser: its buffer, event and data
    finish,     \* the last run_finished of the stream, "none" if there was none
    shown,      \* what has been printed of the timeline
    code,       \* exit code, -1 while there is none
    why,        \* history: what ended the command
    stream,     \* of the CLI: "none", "open", "closed", "cut"
    handler,    \* of that stream: "none", "read" the run, is "on" the bus
    backlog,    \* events the handler has yet to write
    sent,       \* history: the events it has written
    wire,       \* tokens written and not read
    up,         \* the server listens
    run,        \* the run's document: "absent", "queued", "running" or a verdict
    log,        \* what its timeline holds
    untold,     \* its last row is not published yet
    executing,  \* its executor lives in this process
    restarts, faults, refusals, comments

cli == <<command, pc, tries, parser, finish, shown, code, why>>
response == <<stream, handler, backlog, sent, wire>>
document == <<run, log, untold, executing>>
counts == <<restarts, faults, refusals, comments>>
env == <<up, document, counts>>
vars == <<cli, response, env>>

Fresh == [buffer |-> <<>>, event |-> "none", data |-> <<>>]

Init ==
    /\ command \in {"start", "startWatch", "get", "watch"}
    /\ pc = "start" /\ tries = 0 /\ parser = Fresh /\ finish = "none" /\ shown = <<>>
    /\ code = -1 /\ why = "none"
    /\ up = TRUE
    /\ run \in IF command \in {"get", "watch"} THEN {"absent", "queued"} ELSE {"absent"}
    /\ log = <<>> /\ untold = FALSE /\ executing = (run = "queued")
    /\ stream = "none" /\ handler = "none"
    /\ backlog = <<>> /\ sent = <<>> /\ wire = <<>>
    /\ restarts = 0 /\ faults = 0 /\ refusals = 0 /\ comments = 0

-------------------------------------------------------------------------------
(* sse.ts: text to messages. *)

(* What a parser holds: a line that is not complete, the message so far.   *)
Holds(buffer, event, data) == [buffer |-> buffer, event |-> event, data |-> data]

(* streamEvents prints a message that is an event of the run, keeps the    *)
(* end, and drops what toRunEvent cannot read.                             *)
Hear(state, data) ==
    IF \E e \in Verdicts \cup {"step"} : data = <<e>>
    THEN [state EXCEPT !.shown = Append(@, data[1]),
                       !.finish = IF data[1] \in Verdicts THEN data[1] ELSE @]
    ELSE state

(* A line of the stream: an empty one completes the message, if there is   *)
(* any data; fields other than event and data are passed over.             *)
ReadLine(state, line) ==
    LET value == IF Len(line) > 1 THEN line[2] ELSE ""
        p == state.parser
        emptied == [state EXCEPT !.parser = Fresh]
    IN  CASE line = <<>> /\ p.data = <<>> -> emptied
          [] line = <<>> /\ p.data # <<>> -> Hear(emptied, p.data)
          [] line # <<>> /\ line[1] = "event" ->
                 [state EXCEPT !.parser = Holds(<<>>, value, p.data)]
          [] line # <<>> /\ line[1] = "data" ->
                 [state EXCEPT !.parser = Holds(<<>>, p.event, Append(p.data, value))]
          [] OTHER -> [state EXCEPT !.parser = Holds(<<>>, p.event, p.data)]

(* The next token: a line is complete once its terminator has arrived.     *)
Take(state, token) ==
    LET p == state.parser
    IN  IF token = "nl" THEN ReadLine(state, p.buffer)
        ELSE [state EXCEPT !.parser = Holds(Append(p.buffer, token), p.event, p.data)]

Scan(start, text) ==
    LET state[i \in 0..Len(text)] == IF i = 0 THEN start ELSE Take(state[i - 1], text[i])
    IN  state[Len(text)]

Emptied(state) == [state EXCEPT !.parser = Holds(<<>>, state.parser.event, state.parser.data)]

(* Mutant: what follows the last newline is not kept for the next chunk.   *)
PushWholeLines(state, chunk) == Scan(Emptied(state), chunk)

(* push: the chunk is put behind what is buffered and the text is cut into *)
(* lines from its start; what follows the last newline is buffered.        *)
Push(state, chunk) == Scan(Emptied(state), state.parser.buffer \o chunk)

-------------------------------------------------------------------------------
(* The command. *)

exitCodeForStatus(status) ==
    CASE status = "passed" -> 0 [] status = "failed" -> 1 [] OTHER -> 2

Ends(exit, reason) == pc' = "done" /\ code' = exit /\ why' = reason

Raises(reason) == Ends(2, reason)

GoesTo(next) == pc' = next /\ UNCHANGED <<code, why>>

Answered == up /\ UNCHANGED counts

MayFail == faults + refusals < MaxFaults

(* A request that fails in a way isTransientPollFailure knows: nothing     *)
(* listens, a proxy or the server answers 5xx.                             *)
Transient ==
    \/ ~up /\ UNCHANGED counts
    \/ MayFail /\ faults' = faults + 1 /\ UNCHANGED <<restarts, refusals, comments>>

(* An answer it takes for final: a 4xx, but also a 2xx whose body is cut   *)
(* off or is no JSON, which #json raises under the status it came with.    *)
Refused ==
    up /\ MayFail /\ refusals' = refusals + 1 /\ UNCHANGED <<restarts, faults, comments>>

(* The combinations of operands startRun refuses before it asks anything.  *)
UsageError ==
    /\ pc = "start" /\ command \in {"start", "startWatch"}
    /\ Raises("usage")
    /\ UNCHANGED <<command, tries, parser, finish, shown, response, env>>

(* startRun: the run is created, and followed if that was asked for; the   *)
(* answer may be lost although it is.                                      *)
StartRun ==
    /\ pc = "start" /\ command \in {"start", "startWatch"}
    /\ \/ /\ Answered /\ run' = "queued"
          /\ IF command = "start" THEN Ends(0, "started") ELSE GoesTo("looking")
       \/ Transient /\ Raises("request") /\ UNCHANGED run
       \/ Refused /\ Raises("request") /\ run' \in {"absent", "queued"}
    /\ executing' = (run' = "queued")
    /\ UNCHANGED <<command, tries, parser, finish, shown, response, up, log, untold>>

Looks ==
    /\ pc = "start" /\ command \in {"get", "watch"}
    /\ GoesTo("looking")
    /\ UNCHANGED <<command, tries, parser, finish, shown, response, env>>

(* waitForRun: only a run that is not there is looked for again.           *)
WaitForRun ==
    /\ pc = "looking"
    /\ \/ /\ Answered /\ run # "absent"
          /\ IF command = "get" THEN Ends(exitCodeForStatus(run), "shown") ELSE GoesTo("opening")
          /\ tries' = 0
       \/ /\ Answered /\ run = "absent"
          /\ IF tries < AppearAttempts - 1 THEN GoesTo("looking") ELSE Raises("missing")
          /\ tries' = tries + 1
       \/ (Transient \/ Refused) /\ Raises("request") /\ UNCHANGED tries
    /\ UNCHANGED <<command, parser, finish, shown, response, up, document>>

(* openEvents: the handler has read the run and answers, or the failure is *)
(* of the kind polling can outlast, or it is raised.                       *)
OpenEvents ==
    /\ pc = "opening"
    /\ \/ /\ Answered /\ GoesTo("streaming")
          /\ stream' = "open" /\ handler' = "read" /\ backlog' = log
       \/ Transient /\ GoesTo("polling") /\ UNCHANGED <<stream, handler, backlog>>
       \/ Refused /\ Raises("refused") /\ UNCHANGED <<stream, handler, backlog>>
    /\ UNCHANGED <<command, tries, parser, finish, shown, sent, wire, up, document>>

(* streamEvents: a chunk of any size is read, its events are printed.      *)
StreamEvents(n) ==
    /\ pc = "streaming" /\ n \in 1..Len(wire)
    /\ wire' = SubSeq(wire, n + 1, Len(wire))
    /\ UNCHANGED <<command, pc, tries, code, why, stream, handler, backlog, sent, env>>
    /\ \E read \in {Push([parser |-> parser, shown |-> shown, finish |-> finish],
                         SubSeq(wire, 1, n))} :
          parser' = read.parser /\ shown' = read.shown /\ finish' = read.finish

(* Mutant: a stream that closed is taken for one that told the verdict.    *)
StreamIsTheEnd ==
    /\ pc = "streaming"
    /\ \/ stream = "closed" /\ wire = <<>> /\ Ends(exitCodeForStatus(run), "verdict")
       \/ stream = "cut" /\ Ends(IF finish = "none" THEN 0 ELSE exitCodeForStatus(finish), "verdict")
    /\ UNCHANGED <<command, tries, parser, finish, shown, response, env>>

(* The stream is over. Only a close counts, and only if it told the end; a *)
(* reading that throws forgets even that.                                  *)
StreamIsOver ==
    /\ pc = "streaming"
    /\ \/ /\ stream = "closed" /\ wire = <<>>
          /\ IF finish # "none" THEN Ends(exitCodeForStatus(finish), "verdict")
             ELSE GoesTo("polling")
       \/ stream = "cut" /\ GoesTo("polling")
    /\ UNCHANGED <<command, tries, parser, finish, shown, response, env>>

(* Mutant: any failure of a poll ends the command.                         *)
PollStrictly ==
    /\ pc = "polling"
    /\ IF ~up THEN Raises("request")
       ELSE IF run \in Verdicts THEN Ends(exitCodeForStatus(run), "verdict") ELSE Ends(2, "gaveUp")
    /\ UNCHANGED <<command, tries, parser, finish, shown, response, env>>

(* Mutant: an attempt that fails costs nothing.                            *)
PollPatiently ==
    /\ pc = "polling"
    /\ IF up /\ run \in Verdicts THEN Ends(exitCodeForStatus(run), "verdict") ELSE GoesTo("polling")
    /\ UNCHANGED <<command, tries, parser, finish, shown, response, env>>

(* pollToVerdict: until the run is settled, an answer is taken for final   *)
(* or the attempts are spent.                                              *)
PollToVerdict ==
    /\ pc = "polling"
    /\ \/ /\ tries < MaxPolls /\ Answered /\ run \in Verdicts
          /\ Ends(exitCodeForStatus(run), "verdict")
          /\ shown' = Append(shown, run)
          /\ UNCHANGED tries
       \/ /\ tries < MaxPolls
          /\ (Answered /\ run \in {"queued", "running"}) \/ Transient
          /\ tries' = tries + 1
          /\ GoesTo("polling") /\ UNCHANGED shown
       \/ /\ tries < MaxPolls /\ Refused /\ Raises("refused")
          /\ UNCHANGED <<tries, shown>>
       \/ tries = MaxPolls /\ Ends(2, "gaveUp") /\ UNCHANGED <<tries, shown, counts>>
    /\ UNCHANGED <<command, parser, finish, response, up, document>>

-------------------------------------------------------------------------------
(* The run, and the handler of its stream. *)

(* The run goes on: its events are stored, then its end. Each is published *)
(* before the next is stored.                                              *)
RunGoesOn ==
    /\ executing /\ ~untold /\ run \in {"queued", "running"}
    /\ IF Len(log) < Steps
       THEN run' = "running" /\ log' = Append(log, "step")
       ELSE run' \in Verdicts /\ log' = Append(log, run')
    /\ untold' = TRUE
    /\ UNCHANGED <<cli, response, up, executing, counts>>

(* The handler has the end of the run, from the store or from the bus.     *)
HasEnd == \E e \in Verdicts : Contains(sent \o backlog, e)

(* The bus hands the row to whoever is subscribed, and to nobody else.     *)
RunIsPublished ==
    /\ untold /\ untold' = FALSE
    /\ backlog' = IF handler = "on" /\ ~HasEnd THEN Append(backlog, Last(log)) ELSE backlog
    /\ UNCHANGED <<cli, stream, handler, sent, wire, up, run, log, executing, counts>>

HandlerSubscribes ==
    /\ handler = "read" /\ handler' = "on"
    /\ UNCHANGED <<cli, stream, backlog, sent, wire, env>>

(* missedTerminal: the run was over on the bus before the subscription;    *)
(* the handler reads its verdict again.                                    *)
EndIsCaughtUp ==
    /\ handler = "on" /\ ~HasEnd /\ run \in Verdicts /\ ~untold
    /\ backlog' = Append(backlog, run)
    /\ UNCHANGED <<cli, stream, handler, sent, wire, env>>

Text(event) ==
    IF event = "comment" THEN <<":", "nl", "nl">>
    ELSE <<"event", "type", "nl", "data", event, "nl", "nl">>

(* write: one event after the other, in the order they came in.            *)
ServerWrites ==
    /\ handler = "on" /\ backlog # <<>>
    /\ wire' = wire \o Text(Head(backlog))
    /\ sent' = Append(sent, Head(backlog))
    /\ backlog' = Tail(backlog)
    /\ UNCHANGED <<cli, stream, handler, env>>

(* What keeps the connection alive is a comment between two messages.      *)
StreamIsKeptAlive ==
    /\ stream = "open" /\ comments < MaxComments
    /\ wire' = wire \o Text("comment") /\ comments' = comments + 1
    /\ UNCHANGED <<cli, stream, handler, backlog, sent, up, document, restarts, faults, refusals>>

(* The handler returns once the end is written.                            *)
ServerCloses ==
    /\ handler = "on" /\ backlog = <<>> /\ HasEnd
    /\ stream' = "closed" /\ handler' = "none"
    /\ UNCHANGED <<cli, backlog, sent, wire, env>>

(* The server stops, and what it was executing with it; its streams break  *)
(* wherever they are. A socket that is closed in order looks like the end  *)
(* of the stream.                                                          *)
ServerStops ==
    /\ up /\ restarts < MaxRestarts
    /\ up' = FALSE /\ restarts' = restarts + 1
    /\ executing' = FALSE /\ untold' = FALSE /\ handler' = "none" /\ backlog' = <<>>
    /\ IF stream = "open"
       THEN stream' \in {"closed", "cut"} /\ \E n \in 0..Len(wire) : wire' = SubSeq(wire, 1, n)
       ELSE UNCHANGED <<stream, wire>>
    /\ UNCHANGED <<cli, sent, run, log, faults, refusals, comments>>

(* It starts again and sweeps: what was not settled is an error. A sweep   *)
(* that fails is logged, and the run stays as it was.                      *)
ServerStarts ==
    /\ ~up /\ up' = TRUE
    /\ \/ /\ run \in {"queued", "running"}
          /\ run' = "error" /\ log' = Append(log, "error")
       \/ UNCHANGED <<run, log>>
    /\ UNCHANGED <<cli, response, untold, executing, counts>>

-------------------------------------------------------------------------------

Following ==
    \/ UsageError \/ StartRun \/ Looks \/ WaitForRun \/ OpenEvents
    \/ \E n \in 1..Len(wire) : StreamEvents(n)
    \/ StreamIsOver \/ PollToVerdict

Serving ==
    RunIsPublished \/ HandlerSubscribes \/ EndIsCaughtUp \/ ServerWrites

Next ==
    \/ Following \/ Serving \/ ServerCloses
    \/ RunGoesOn \/ StreamIsKeptAlive \/ ServerStops \/ ServerStarts

Spec == Init /\ [][Next]_vars

(* The command goes on, and a server that is up publishes what it stored,  *)
(* writes what it has and closes a stream it has ended; the run need not   *)
(* end, nor the server start again.                                        *)
FairSpec == Spec /\ WF_vars(Following) /\ WF_vars(Serving) /\ WF_vars(ServerCloses)

(* A server that need not close what it has ended.                         *)
UnclosedSpec == Spec /\ WF_vars(Following) /\ WF_vars(Serving) /\ WF_vars(RunGoesOn)

-------------------------------------------------------------------------------
(* Properties. *)

(* A script may trust the exit code: whatever was cut, refused or printed  *)
(* on the way, 0 means that the run has passed and 1 that it has failed,   *)
(* and 2 told as a verdict that it has ended in an error.                  *)
ExitIsTheVerdict ==
    /\ why \in {"verdict", "shown"} => (code = 0 => run = "passed") /\ (code = 1 => run = "failed")
    /\ why = "verdict" /\ code = 2 => run = "error"

(* What the handler wrote is printed in order and once, and a verdict read *)
(* off the stream comes after all of it, however the text was cut into     *)
(* chunks and wherever the stream broke. That a row is written at all is   *)
(* not said: one stored after the handler has read and published before it *)
(* has subscribed is not.                                                  *)
TimelineIsPrinted ==
    pc = "streaming" \/ (stream = "closed" /\ finish # "none") =>
        /\ IsPrefix(shown, sent)
        /\ finish # "none" => shown = sent

(* A command that follows a run it has seen ends without its verdict only  *)
(* when its polls are spent, or on an answer that isTransientPollFailure   *)
(* takes for final. No refused connection, cut stream or 5xx ends it.      *)
WeatherIsNoAnswer ==
    [][pc' = "done" /\ pc \in {"opening", "streaming", "polling"} /\ why' # "verdict" =>
          tries = MaxPolls \/ refusals' # refusals]_vars

(* What run.ts says of the weather in which a stream is abandoned: it is   *)
(* no answer. The body of an answer that a restart cuts off is one.        *)
(* The code does not keep this: see the README, section 4.                 *)
CutAnswersAreOutlasted ==
    [][pc' = "done" /\ pc = "polling" /\ why' # "verdict" => tries = MaxPolls]_vars

(* A command ends when its run does, and also when it does not, once the   *)
(* stream is lost: polling is bounded, whatever the server answers.        *)
CommandEnds ==
    (run \in Verdicts \/ pc = "polling" \/ stream \in {"closed", "cut"}) ~> (pc = "done")

(* What watchRun says of a server that does not close the stream.          *)
(* The code does not keep this: see the README, section 4.                 *)
CeilingCatches == (run \in Verdicts /\ pc = "streaming") ~> (pc = "done")

===============================================================================
