# gemma-e2e-android: a verification of its core

TLA+ models of the parts of this repository in which the order of events or
the shape of the data decides what is right, TLC configurations that check
them on small instances, and TLAPS proofs for every instance.

The program drives a device (an Android phone over adb, or Chrome over CDP)
through test scenarios: a local model looks at the screen, decides one action
at a time, and says when the case has passed or failed. A dashboard server
queues runs, executes them one at a time, keeps their history in Firestore and
streams their events to browsers and to a CLI. Scenarios are YAML files, which
people write by hand, in a dialog of the dashboard, and with `scenario apply`.

## 1. The system

| Part | State it keeps | Operations | Talks to |
|---|---|---|---|
| Run submission API (`apps/web/server/app.ts`) | none of its own | `POST /api/runs`, the batch form, up to the 202 | store (create), then queue |
| Run queue (`queue.ts`) and executor (`index.ts`) | `#pending`, `#activeRunId`, `#draining` | `enqueue`, the drain loop, the executor around `runScenario`, the sweep at start-up | store, bus, case loop |
| Run store (`packages/store/src/store.ts`) | the documents in Firestore; `#lastAcceptedAt` in memory | `enqueueRun`, `beginRun`, `createCase`, `addStep`, `finishCase`, `finishRun`, `settleOrphanedRuns`, `getRun`, `listRuns` | Firestore |
| Event bus (`bus.ts`) | listeners per run, `#finished` | `publish`, `subscribe`, `subscribeAll`, `hasFinished` | the executor calls it, SSE handlers listen |
| SSE stream of a run (`app.ts`, `GET /api/runs/:id/events`) | replay flag, buffer, chain of writes | read, subscribe, replay, flush, re-check, wait, close | store, bus, a client |
| Run page (`apps/web/src/pages/RunPage.tsx`, `runStatus.ts`) | status, cases and steps on screen | one fetch and one `EventSource` | both APIs |
| CLI (`apps/cli/src/commands/run.ts`, `sse.ts`) | parser, last end heard, attempts | wait, stream, poll when it breaks, one exit code | the server |
| Case loop (`packages/agent/src/run.ts`, `recorder.ts`) | history, notebook, loop detector, driver, recording | look, decide, act, review, save; teardown | driver, model, store, recorder |
| Model client (`llm.ts`), persona review (`persona-review.ts`) | attempts, deadlines | `decide`, one review per persona | Ollama |
| Serializer (`core/serialize.ts`), collector (`cdp/collect.ts`), dump parser (`adb/parse.ts`) | none | screen to tree to text and references | the model reads it, the case loop resolves it |
| CDP connection (`packages/cdp/src/connection.ts`) | commands in flight, listeners | `send`, events, timeouts, the socket's end | Chrome |
| CDP client (`client.ts`) | the shared connection, sessions, screencast subscribers | `openSession`, `onFrames`, `closeSession` | connection |
| Live view (`apps/web/server/cdp-device.ts`, `device-stream.ts`, `DeviceLiveView.tsx`) | the view's page and context, one stream per socket | open, probe, reopen, relay frames | CDP client, WebSocket clients |
| Recorders (`recorder.ts`, `recorders/cdp.ts`) | a subprocess, a frame subscription | start, stop with timeouts | adb, ffmpeg, screencast |
| Scenario files (`app.ts`, `core/scenario.ts`, `core/schema.ts`) | a directory | list, create, replace (merged into the text), delete | rail, dialogs, `scenario apply` |
| Rail and scenario dialogs (`Sidebar.tsx`, `ScenarioBuilder.tsx`, `ScenarioDelete.tsx`) | listing, filter, ticks, a draft, what was saved | reload, tick, start, edit, save, remove | scenario endpoints, batch endpoint |
| Drivers, adb client, logger, other pages | thin or none | adapters, rendering | - |

`PROJECT.json` lists each with its status, and the hazards line by line.

### What is hard here

* **A run lives in two places.** The document is durable, the job that will
  change it is in memory. Every store call can fail before it lands or, worse,
  after (only the reply is lost); the process can stop between any two.
* **The queue is fed while it drains.** Handlers resume between the awaits of
  the drain loop; two drains would be two runs on one device.
* **A stream starts in the middle.** The handler reads the run in several
  queries, subscribes, replays at the client's pace, and must then hand over to
  live events without losing, repeating or reordering any, although the run
  may end in any of these phases. Its readers see it cut anywhere.
* **A page has two sources** for one status: a fetch and a stream.
* **A case must end**, hold nothing afterwards and have an honest verdict,
  whatever the device, the model, the recorder or the store did.
* **The screen does not wait.** It is read, rendered, shown to a model that
  takes its time, and acted on by number.
* **Chrome goes away, answers late or not at all**, while a status poll, a
  frame stream and the cases of a run share one socket to it, two of them
  share one page, and any number share one screencast per page.
* **A file has several writers**, checked, read and written in separate
  awaits, and a list that is reloaded while it is edited.
* **A form shows part of what a file says** and writes all of it.
* **Numbers meet at their limits**: equal or falling clock readings, step
  budget, loop thresholds, history window, the edge of the viewport.

### What makes each part correct

* Queue, executor, submission and store: jobs and documents agree; while the
  server is up nothing unsettled is without somebody who will end it; a batch
  keeps its order in the file, in the history and on the device; a verdict is
  final; every accepted run is settled.
* Stream: one end, and it is the verdict; what was read and what was heard is
  delivered.
* Page: what it shows only grows; it is told the end.
* CLI: the exit code is the verdict; what was sent is printed; a failure that
  may pass ends nothing; the command ends.
* Case loop: a remembered fact is never forgotten; a verdict is earned;
  nothing is held; a case ends, unless adb keeps its recorder waiting.
* A step: what the device is told is what one answer said of the screen that
  was shown; reviews are whole and stay in their step.
* Screens: what can be seen and used has a number, once; what is said is kept.
* Connection, client, live view: each command is answered once, with its own
  answer; no context without a holder, a failure that does not outlast
  itself, every call ends.
* Screencast: Chrome casts what is watched; nothing is left of a case; a tab
  shows the socket it has.
* Scenarios: a save is not shown old again; what runs was ticked; `apply`
  tells the truth; a file means what the answer says and keeps its comments.

## 2. The modules

| Module | Models | Kind |
|---|---|---|
| `RunHistory` | what the run history promises a reader | abstract specification |
| `RunServer` | submission, queue, executor, store writes, sweep, stops | specification; implements `RunHistory` |
| `RunStream` | runScenario's writes and events, bus, SSE handler, `getRun` | specification |
| `RunPage` | the run page, composed with `RunStream` | specification |
| `CliWatch` | a command that starts, shows or follows a run, and the handler that writes its stream | specification |
| `CaseLoop` | `runCase` and `recordCase` | specification |
| `Step` | the steps of a case from near: screen, decision, command, review | specification |
| `Rendering` | the nodes of a tree, its two renderings and their references | pure definitions |
| `Screen` | collector, dump parser, tree; uses `Rendering`, as `Step` does | specification |
| `Commands` | what a connection promises its callers | abstract specification |
| `CdpConnection` | commands in flight on one socket | specification; implements `Commands` |
| `LiveView` | the client's connection, the view's page, web cases, Chrome; composed with `CdpConnection` | specification |
| `Screencast` | subscribers of the frames of a page: live views, recorder; relay, tab, ffmpeg | specification |
| `Scenarios` | scenario endpoints, rail, dialogs, batch, `scenario apply` | specification |
| `ScenarioFile` | one file through load, draft, save and merge | specification |
| `MCRunServer`, `MCStep`, `MCScreen`, `MCScenarios`, `MCScenarioFile` | values of constants | model-checking instances |
| `RunServer_proofs`, `CaseLoop_proofs`, `Screencast_proofs`, `CliWatch_proofs` | theorems about the module of that name | proofs |
| `Step_proofs` | theorems about `Step`, `Rendering` and `Screen` | proofs |
| `Scenarios_proofs` | theorems about `Scenarios` and `ScenarioFile` | proofs |
| `RunPage_proofs` | theorems about `RunStream` and `RunPage` | proofs |
| `LiveView_proofs` | theorems about `CdpConnection` and `LiveView` | proofs |

An operator whose comment begins with "Mutant:" is a plausible mistake in the
definition that follows it; no specification uses it. `PROJECT.json` pairs
each property of a run with the mistake that breaks it.

`RunServer`, `RunStream` and `CliWatch` look at a run from three sides.
`RunServer` has many runs, the queue and restarts, and one step for all the
cases of a run; `RunStream` has one run, every row it writes, and its
watchers; `CliWatch` has one run whose rows are stored and published, one
handler that follows it, and a response of which each token may be read with any others. `CaseLoop` has one case and every
await of it, `Step` what those awaits are made of. They meet in the same facts: a run is written by
`createCase`/`addStep`/`finishCase`/`finishRun` in that order, one at a time,
and published after each reply.

### RunServer

Each variable is named after the field it stands for (`pending`,
`activeRunId`, `lastAcceptedAt`, `finished`), `doc` and `startedAt` are
Firestore, `post`/`at` are where a handler stands in the batch loop, `exec`
where the executor stands. `#draining` is TRUE exactly while there is an
active job, so it has no variable. `lost` is a history variable: the runs
whose closing write nobody will make, each of which the code logs.

A store write takes three steps -- issued, landed, replied -- because the
server may stop, and the write may be reported failed, between any two of
them. All the code that runs between two awaits is one action: `CreateReplies`
queues the run, possibly starts a drain, which shifts the job and issues its
`beginRun`, and issues the next create of the batch.

Bounds: `MaxFaults` failing store operations, `MaxRestarts` stops, `Clock` the
readings of the wall clock, each drawn anew so that it may stand still or step
back. `LostReplies` says whether a write may land and be reported failed.

### RunStream and RunPage

`log` is the sequence of rows in the store, as the events that report them;
`published` of them have gone over the bus. A reader's query sees a prefix of
`log`; `getRun` makes several queries, so it may see several prefixes (`seen`).
`buffered` is what the bus published during the reads; the replay is what
`seen` shows of `log`, in the log's order.
`out` is what the handler has yet to write (the chain on `pending` in the
code, or the rest of the replay), `wire` what the response carries. The four
ways a stream ends are `EndOfOverRun`, `GoLive` with the end in the buffer,
`Recheck`, and `Publish` of the end to a live stream; `Abort` is the client
leaving.

`RunPage` adds the page: `fetch`/`fetched` for `fetchRun`, `status` and `cases`
for its React state, `source` for the `EventSource`. `NextRunStatus` and
`NextCase` are the reducers of `runStatus.ts` and `RunPage.tsx`.

Left out: events no reader uses (`step_started`, `ui_captured`,
`action_decided`, `action_executed`); the ping; the restart of the server under
an open stream, which closes the source and leaves the page as it is.

### CliWatch

`command` is one of `run start`, `run start --watch`, `run get` and `run
watch`; `pc` is its await. The response is a sequence of tokens: `Push` is
`SseParser.push` on whatever has arrived, word by word (`Scan`, a recursive
function): it keeps an unfinished line in `buffer` and an unfinished message in
`event` and `data` for the next chunk. `finish` is the last `run_finished` the
stream brought, `shown` what was printed. `StreamIsOver` decides between a
verdict and polling; `PollToVerdict` is `pollToVerdict` with its attempts. A
request meets one of three fates: it is answered, or fails in a way
`isTransientPollFailure` knows (`Transient`), or in one it takes for final
(`Refused`: a 4xx, and a 2xx whose body is cut off or no JSON).

The server is the handler of `GET /api/runs/:id/events` in `app.ts`. It reads the
run (`OpenEvents` takes what is stored into `backlog`), subscribes
(`HandlerSubscribes`), writes (`ServerWrites`), catches up on an end it missed
(`EndIsCaughtUp`) and returns once the end is written (`ServerCloses`). The run
stores a row and publishes it in two steps (`RunGoesOn`, `RunIsPublished`), and
who has not subscribed by then is not told: that row is on no stream (section
4, 1), and `sent` holds what the handler did write. Simpler than in
`RunStream`: the handler's reads are one step, the rows of a case are of one
kind, and closing writes do not fail. Between two messages hono may write a
comment to keep the connection alive. `ServerStops` breaks the stream, loses
the executor and leaves the run as it was until `ServerStarts` sweeps, or
fails to.

### CaseLoop

`phase` is the await a case stands at; every one of them can fail, with the
consequence the code gives it: an error of the whole run (`createCase`,
`finishCase`), of the case (driver, reset, dump, model, `addStep`), a note
(executor), or nothing (recording, stop, close). A screen is what the
serializer makes of it and an action what `describeAction` does, which is all
the detector compares. The session's recorder is scrcpy, ffmpeg or none
(`DriverOpens`). Scrcpy's asks adb which servers run before it starts
(`FilmStarts`) and before it stops, and then to end its own (`CaptureEnds`);
only after that the ten seconds begin in which it has to exit (`FilmStops`).
`AwaitsAdb` are those two awaits. The history is a sequence of lines, a line being the number of
a step or `Warning`; the prompt takes the last `HistoryWindow` of them.

### Step, Rendering and Screen

`Step` opens what `CaseLoop` takes as one: `waitForFirstScreen` (`PollsScreen`),
the dump and its rendering (`Captures`), the picture for the review before
anything is done (`TakesPicture`), `decide` with its attempts (`Decides`), the
command (`Acts`, `TypesText`), and the review. The screen may change at any
step. A rendering is `serializeUi` of `Rendering`: lines, and the table of the
numbers. A call of the model is a name, an input that may name a type of its
own, and a reference; what a request brings is any member of `Responses`, or
nothing. A review's request is a record in `reviewers`, which the deadline
aborts and no longer waits for, as `Promise.race` does; `strays` counts
requests sent by a review that was over.

`Screen` has no steps but looking and scrolling: `visit` is the collector that
runs in the page, `nodeAt`, `boundsOver` and what follows make the tree, and
`Rendering` prunes it and numbers the references. Elements have one dimension.
Cursor and `isContentEditable` are what the browser computes, inherited or not,
also of the body, whose children the walk starts with; a label is a target
only for a control that is not in it (`Wraps`).

Trees are flat in these modules. The code walks them recursively, and hands
down what it knows: a depth, the list a child's entry goes into (the collector
itself keeps one flat array and lists of indices). Here a tree is a function from
positions, numbers in document order, to nodes that name the position of
their parent. What a walk hands down is a recursive function of the position
(`depth` in `walk`, `into` in `visit`), what it does on its way is done in the order of the
positions: a number is how many were given before. Nothing is declared
RECURSIVE, so the prover takes all of it.

### CdpConnection and LiveView

`nextId`, `pending` and `closed` are the fields of `CdpConnection`; `call` is
how the promise of each caller's latest `send` stands, `atChrome` and
`replies` are what is under way. An entry's timer is set and cleared with the
entry, so it has no variable: `Timeout` may fire whenever there is an entry,
also when the reply is on its way, which then finds nobody.

`LiveView` extends it with who sends: `link` is `#connecting`/`#connection` of
`CdpClient`, `view` and `opening` are `#session` and `#opening` of
`CdpDeviceSource`, `pc` is the await each caller stands at. `Quiet` is the
event loop: what a settled promise sets going runs to its next await before
the next message, timer or request is handled. Commands go to Chrome, which does
them if the page they name is there (`ChromeDoes`), refuses them
(`ChromeRefuses`), or is restarted with all its contexts gone
(`ChromeRestarts`). An opening is three awaits: the handshake, the creation of
the context, and one command for all that makes a page of it; each can fail,
and what is open by then stays open, as in the code.

### Screencast

`member`, `session` and `watching` are `#frameSubscribers` and
`#frameCloseWatchers` of the client, by handler; `wire` is what it has sent
and Chrome has not done, in order, and `streaming` the pages Chrome casts.
Subscribing is a start if one is the first, and unsubscribing a stop if one is
the last; both take a round trip, in which others come and go. A handler is
the stream of one of the tab's sockets (`relay`, `cancelled`) or the recorder of a case.
`tab` is `DeviceLiveView`: the socket it has, and the picture it shows. The
recorder writes into `ffmpeg`, whose end the case awaits with a limit.
`ReopensPage` is what `LiveView` does in full: the status poll gives the page up.

### Scenarios and ScenarioFile

`Scenarios` has every await of the endpoints as a step: `Checks`, `Reads`,
`Lands`. `req` is one request under way per client (save dialog, removal,
command). The rail's `list` comes from the reload `shownAs`; `requests` is
`scenarioRequestRef`; each reload remembers the filter of the call that made it. `builder` is the
edit dialog of one card, with the revision it would save over (`base`), what
the server answered to its last save (`saved`) and the reload that answer was
laid over (`source`). `batch` is a batch that was posted, and how many of it
were accepted. `apply` walks through its files, POST first, PUT on a 409.

`ScenarioFile` has one file as a sequence of pairs with their comments.
`loadScenario` reads it, legacy keys and all, `draftOf` makes the fields of the
dialog, `Body` the request, and `editScenarioYaml` merges it into the file as it is by
then: keys in the server's order, cases by id, comments above what they were
above. `EditsByHand` may rewrite the file at any time. `IsFile` says what a committed
file may be: a mapping whose keys stand once, with values that the schema can
read; that it loads is not assumed. `None` is outside of all of them, since
`Value` gives it for a key that is not there. `draft` is `Closed` while no dialog is
open.

## 3. The runs

| Run | Module | Question | Instance |
|---|---|---|---|
| `server_faults` | `MCRunServer` | do queue and documents agree through faults, lost replies and a restart, and is every accepted run settled? | one single run, one batch of two, 2 faults, 1 restart |
| `server_order` | `MCRunServer` | is order kept under a bad clock, is it a `RunHistory`? | one single run, one batch of three, clock {1, 2}, 1 fault, 1 restart |
| `page` | `RunPage` | is a page that opens at any point told everything known, and one end; does it only move forward? | 1 case of at most 1 step, 1 page |
| `cli` | `CliWatch` | is the exit code the verdict, is what was sent printed, does nothing that may pass end the command, and does it end? | every command, 1 event before the end, 1 restart, 1 bad answer, 1 comment, 2 polls |
| `case` | `CaseLoop` | prompt, verdict, teardown, end | every recorder, 2 screens, one device action, 2 facts to remember, 2 ways to finish, 4 steps, window 2, thresholds 2 and 3 |
| `step` | `MCStep` | is what is done what was said of the screen that was shown; are reviews whole and in their step? | 2 screens, 1 change nobody commanded, 1 fault, 2 steps, none, one and two personas, both formats |
| `screen` | `MCScreen` | does what can be seen and used reach the model, once? | every page of 3 elements of 14 kinds and dump of 3 widgets of 6, two scroll positions |
| `view` | `LiveView` | are commands answered once and to their owner, does every call end, do failures pass, is nothing stranded? | 2 viewers, 2 calls, 1 case, 1 fault, 1 restart of Chrome |
| `screencast` | `Screencast` | does Chrome cast what is watched, is anything left, does the tab show its own socket? | 2 sockets of a tab, 1 recorder, 2 pages of the view, 1 fault |
| `scenarios` | `MCScenarios` | do saves survive reloads, does a batch run only what was ticked, is `apply` honest? | 2 scenarios, 5 moves of the user, 1 failing request, 1 file to apply |
| `file` | `MCScenarioFile` | does a save mean what it answers, keep comments and leave alone what nobody touched? | 5 files, 3 edits, 2 saves, 1 edit by hand |
| `file_viewport` | `MCScenarioFile` | is nothing deleted that the form does not show? **violated** | the same files, no edit |

Why these are enough to see the interesting cases. Server: a batch of two has
a run waiting behind an active one while the handler goes on; two faults are
what it takes for both closing writes of a run to fail, or for a create and the sweep; one
restart separates every pair of steps. Order: three in a batch give a middle
element, and two clock readings give equal, rising and falling times. Page:
one case with a step has all kinds of rows, and pages do not influence each
other (each has its own state and only reads the run). CLI: one event and a
comment before the end give messages to be cut within, between and after; two
polls are one that fails and one that does not. Case: four steps let a
repetition start, stop and start again; with a window of two it leaves the
prompt, and with the code's thresholds a step can be warned about and then
noted as stalled. Step: a second step is what a late review could disturb, a
second persona what a failing one could spoil, and the form has a text, a
button without area, a field and a button, so that numbers and lines part.
Screen: three elements are a child between its siblings' and its parent's
fates. View: with one case three callers share a handshake, and two calls are
an opening that the second viewer joins, or one and a probe after it; one
fault fails any step of either. `MaxCommands` is more than the calls can send,
so it stops nobody -- `CallsEnd` would show it. Screencast: two sockets of one
tab overlap on the server, and a second page of the view is there to be
watched while the first still is. Scenarios: two rows are a batch that can be
accepted in part; five moves are two edits with their reloads, or a tick, a
filter and two starts. File: the files have every key with a comment, the
legacy keys, a target of a case and of the scenario, a file that does not load and one
that is no mapping; a second save meets what the first has merged.

Deadlock is not checked, except by `screen`, since in each of the other modules everything may properly be over: each
client posts or connects once, a run, a command and a case end, moves are used up.

### Fairness

* `RunServer`: a handler goes on (its store calls are answered, with a result
  or a failure), the executor goes on (a run has finitely many cases, each a
  step budget, and every device and model call a timeout; that adb answers
  scrcpy's recorder is assumed here, for `CaseEnds` of the `case` run names
  these questions as what alone can hold a case), and a stopped server is started again: dev mode does so
  by `--watch`, otherwise its user does. That a run is settled after a restart
  rests on the last. No request has to be made, nothing has to fail.
* `RunStream`: the run goes on to its end (from `RunServer`), and a request
  that was made is served. A client that has gone does not stop the handler's
  writes: a write into a closed connection returns.
* `RunPage`: in addition, delivered events are handled and a page that has
  opened its source connects. Fetches need not be answered.
* `CliWatch`: the command goes on (`Following`); a server that is up publishes
  what it has stored and writes what it has (`Serving`), and closes a stream
  whose end it has written (`ServerCloses`). The run need not end, and a
  server that has stopped need not start again.
* `CaseLoop`: some step is taken as long as there is one and the case does not
  stand at `AwaitsAdb`. Every other await is bounded: store, device and model
  calls by their timeouts, the exit of a recorder by `STOP_TIMEOUT_MS` of
  `recorder.ts` and the limit in `recorders/cdp.ts`. `#adb` (`recorder.ts:100-110`)
  has none, unlike the adb client of the driver, so nothing is assumed of it.
* `Step`: the runner goes on -- the device answers or is given up --, the model
  client ends a decision (`decide` has no limit of its own; the SDK's
  transport has), and the deadline of a review passes. Nothing is assumed of a
  review's answers: `StepsEnd` holds although none may come.
* `LiveView`: `Progress` goes on as long as it can: Chrome answers what it was
  sent (if it does not, the timer of the command does, after 30 seconds),
  replies arrive, a handshake ends, and the program goes on from settled
  promises. Nobody has to call, and nothing has to fail.
* `Screencast`: Chrome does what it is told, the server serves its streams, and
  the limit of `awaitExit` passes. Nobody has to open, scroll or fail.

## 4. What the checks found

One disagreement has a run of its own:

* **A viewport is deleted unseen** (`file_viewport`). `buildTarget` makes the
  scenario's web target from the URL alone, so that saving an untouched
  dialog deletes the viewport a file had. For the target of a case the form
  does the opposite, and its comment (`ScenarioBuilder.tsx:54-59`) says why.

The following have a property in their module that says what the code or its
comments promise, and that the code does not keep. To see one, add it to the
configuration named.

1. **A row may be on no stream** (`WholeTimeline`, invariant, `RunPage.cfg`).
   What is stored after the query that should have found it and published
   before `bus.subscribe` (`app.ts:602`) is neither replayed nor buffered. The
   code closes this gap for the end of the run (`hasFinished` and the second
   `getRun`), not for cases and steps; `RunPage.tsx:225-226` relies on the
   replay being complete. `DeliversWhatItKnows` is what does hold.
2. **A stale fetch can overwrite the verdict** (`PageShowsVerdict`,
   invariant, `RunPage.cfg`). The fetch's answer sets the status unconditionally
   (`RunPage.tsx:215`); if it was read before the end and arrives after the
   stream's `run_finished`, the page shows "running" and its source is already
   closed.
3. **The history window counts lines** (`PromptCarriesSteps`, invariant,
   `CaseLoop.cfg`). A warning takes a line of its own (`run.ts:502-510`), so
   during a repetition a prompt carries about half the steps the comment on
   `HISTORY_WINDOW` promises. Facts are not affected (`FactsSurvive`), nor is
   the warning that precedes a stalled note (`StalledWereWarned`).
4. **A dead connection is kept** (`RestartsPass`, invariant, `LiveView.cfg`).
   `#connect` (`client.ts:115`) hands out `#connection` whether or not its
   socket lives, and nothing but `close()` clears it. After a restart of
   Chrome the view drops its page, as the comment says, and fails to open
   another for as long as the server runs; so do the web cases. `FailuresPass`
   is what holds while Chrome stays up.
5. **A late failure drops a good page** (`DropsWhatItProbed`, property,
   `LiveView.cfg` with `Cases = {}`, `Callers = {poll, stream}`,
   `MaxPages = 3`, `MaxFaults = 2`, `MaxRestarts = 0`). The catch of the
   probe (`cdp-device.ts:66`) clears `#session` without comparing it with what
   was probed. Poll and stream that probe a hung page one after the other drop
   the old page and then the new one, whose context stays behind in Chrome.
6. **A refused start leaves its page dark** (`SubscribersHaveFrames`,
   invariant, `Screencast.cfg`). The subscriber whose `startScreencast` fails
   stays in the set (`client.ts:516`), so that the next one is not the first
   and starts nothing.
7. **A server that does not close holds the command** (`CeilingCatches`,
   property, `CliWatch.cfg` with `SPECIFICATION UnclosedSpec`). The stream is
   read to its close even after `run_finished`; the ceiling its comment speaks
   of counts polls, which begin only when the stream is over.
8. **An adb that hangs holds the queue** (`FilmingStallsNoCase`, property,
   `CaseLoop.cfg`). The stop timeout is there so that a recorder does not
   stall the run, but it begins only when adb has listed the servers on the
   device and ended one (`recorder.ts:209-211`); `start` asks adb too
   (`recorder.ts:172`), and `#adb` (`recorder.ts:100-110`) waits without a
   limit. `CaseEnds` is what holds: nothing else can keep a case from its end. If
   the end of the film cannot be asked for, `stop` throws before it waits,
   and scrcpy is left recording (`film = "left"`, which `NothingIsHeld` names).
9. **A poll that is cut off is taken for an answer** (`CutAnswersAreOutlasted`,
   property, `CliWatch.cfg`). The comment on `isTransientPollFailure`
   (`run.ts:380-385` of the CLI) has polls outlast a restart: "Treating those as answers would
   make the fallback fail precisely when it is needed". A 200 whose body the
   restart cuts off is raised as `ApiError(200)` (`client.ts:121-130`), is not
   transient (`run.ts:393-401`), and ends the command with 2 (`run.ts:449-453`).
   `WeatherIsNoAnswer` is what holds: refused connections, cut streams and 5xx
   end nothing.

Seen while modelling, without a property:

* A listing fails as a whole if a file vanishes between `readdir` and its read.
* The relay's 50 ms throttle may drop the last frame of a burst, and a second
  viewer of a page that does not change gets no frame until it does.
* A recorder whose subscription is rejected leaves its ffmpeg behind
  (`recorders/cdp.ts:146`), which `CaseLeavesNothing` therefore leaves out. A
  stream on a page the view has dropped is not told.
* Of two POSTs of one id both may pass the check, and the later one wins. A
  file whose name is not its id, or ends in `.yml`, is listed and cannot be
  edited under its id.
* An answer to a save closes the dialog also if it was opened again meanwhile;
  a reload narrows the ticks by the filter of its own call, so that one may
  stay on a hidden row; a card the filter hides forgets what it has saved. The
  rail fetches its history without comparing what overtakes what.
* In the merge, a comment above a legacy key that becomes `target`, inside
  a value that is replaced, or above a case that is renamed, is lost.
* `decide` has no deadline of its own, and a reference that is not on the
  screen is noted, not asked for again, although `llm.ts:387` and
  `llm.ts:429-430` read otherwise; the input of a call may name another type
  than its tool.
* A checkbox is described as something to type into, though the collector
  says that nothing is; an element whose centre is outside the viewport is
  tapped outside it.

## 5. What is proved

For all constants that satisfy the assumptions stated in the modules
(positive sizes of requests; clock readings that are natural numbers; positive
budget, window and warning threshold, the note threshold above the warning
one; settings whose personas are sequences; finite trees and documents, in which an
element comes after the one it is in; scenario files that are mappings with each key once; file lists made of
listed ids).

`RunServer_proofs`:

* `TypeCorrect`, `QueueIsRight`, `NobodyIsForgotten`, `DeviceIsExclusive`,
  `AnnouncedRunsAreSettled`: `Spec => []` of `TypeOK`, `QueueAgreesWithStore`,
  `NoOrphans`, `OneRunOnTheDevice`, `FinishedHaveVerdict`, for any number of
  requests, runs, faults and restarts, with lost replies or without.
  The inductive invariant `IInv` is these five and what they need from the
  program counters: `HandlersAgree` (which runs of a batch are not written yet; a run
  between its write and its reply is in nobody's hands but the handler's),
  `ExecutorAgrees` (what the active document reads at each place of the
  executor), `LostAgree` (a lost run waits for nobody), `DownIsEmpty`. The step
  that needs the most care is the drain, which is part of four actions;
  `DrainEffect` states once what it leaves behind.
* `BatchesKeepTheirOrder`: `Spec => []BatchOrder`, by `TimesRise` (accepted
  times rise through a batch, whatever the clock reads) and `WaitingComeLater`
  (what waits was accepted after what has run).
* `VerdictsAreFinal` and `ServerImplementsHistory`: `Spec => SettledIsFinal`
  and `Spec => KeepsHistory` under `~LostReplies`. The assumption is needed: with lost
  replies a `finishRun` that landed may be followed by the catch's write of
  "error".

`CaseLoop_proofs`:

* `TypeCorrect`, `DetectorIsRight`, `NotebookIsKept`, `VerdictsAreEarned`,
  `CasesLetGo`, and the action property `StalledCasesWereWarned`. The
  invariants are not inductive alone. `IInv` adds where the detector stands
  (`DetectorAgrees`: its key is that of the last step, its count at most the number
  of steps), that the history ends in the warning while a repetition lasts and
  that a prompt was cut from that very history (`WarningAgrees`), that all
  remembered facts are in the notebook (`NotebookAgrees`), that nothing is
  decided inside the loop (`VerdictAgrees`), and in which phases driver and
  recording are held, and which recorder has to be asked for its end over adb (`HeldAgrees`). `CountGoesOn` is the argument for the
  detector: one more equal step lengthens the run of equal steps by one, a
  different one starts a run of length one.

`Step_proofs`: `NoStrayReview` and `RecordedReviewsAreWhole`, for any number
of personas and steps, any screens, any answers at any time.
`AsksForThisStep` carries both: a request that was not given up is the only
one, the case waits for it, and it is of the next persona of this very step;
so whatever settles the race leaves only aborted requests behind, which send
nothing. `ReviewAgrees` has the reports so far as those of the first personas,
in order, of a picture taken when no command had been given.

`StepsAreAnswers`: `Spec => []MovesAreAnswers`, for any screens, settings, answers
and faults, however the screen moves. `MovesAreAnswers` is about recorded steps and about
the device, and the screen has moved on by then; so `MoveInv` follows what was read:
`LooksAgree` says that from the look to the record `ui` is the rendering of some
tree in the case's own format, wherever the screen has gone since, and `MovesAgree`
what was told the device so far as a beginning of what the one call asks for, at
each await between the decision and the record. The reference is then resolved
in the table of that rendering, and what the model read are its lines. That both
have the same node under a number, in either format, is `TableIsRead`, from
`NumberedIs`: the count of those numbered before rises from each to the next
(`NumbersRise`), so that a number is one node's.

`ControlsHaveNumbers`, `WordsReachTheModel`, `CursorsMakeOneTarget`:
`ScreenSpec => []` of `ControlsAreTargets`, `WordsAreKept` and
`OneTargetPerControl`, for pages and dumps of any size and depth. The
invariant (`ScreenInv`) only says what a dump is the text of; the argument is
about trees, and goes along the code:

* `GoesDown`: what holds of the roots and goes from a parent to its children
  holds of all, since a first position for which it failed would have a parent
  for which it did not. `IsToldDown`: a function told from parent to child exists.
  These stand in for the library's induction theorems, whose operator
  parameter the provers do not take, and every recursive function here is unfolded
  by them (`WalkIs`, `VisitIs`, `AncestorsAre`).
* `VisitComes`, of the collector: an element is visited exactly if nothing it is in is
  skipped or gone, and the list its entry goes into is that of the nearest reported
  element around it. So the nodes a node is in are the reported ones among the
  elements its element is in (`NodesAreIn`).
* `GatheredIs`, of the container: it takes no number, and it has area when any of its
  roots has, because its bounds are the least and the greatest of theirs
  (`ContainerIs`, `HasLeast`). This is what `boundsOver` is for, and
  `boundsOfFirst` would break.
* `WalkComes`, of the serializer: the walk comes to a node exactly if it and all it is
  in have area, and at a depth of as many as are listed of those it is in: a
  container that goes adds no depth and takes nothing along.
* `TextIs` puts these together; `PageTells` and `DumpTells` say it of the elements of
  a page and of the widgets of a dump.

`LiveView_proofs`, of a connection: `ConnectionTypeCorrect`,
`NobodyIsForgotten`, `AnswersAreNotMixed` and the refinement `PromiseIsKept`,
for any number of callers and commands. The type invariant and
`WaitersAreReachable` are inductive together with `IdsAreFresh`: no entry bears
an id that has not been given out, so that a new command overwrites nobody's.
`SettleInv` is the step a reply and a timer share. In the refinement a reply
nobody waits for, and whatever Chrome does, stutter.

Of its users: `KeepsToConnection`, `Spec => ConnectionSpec`, with which
these theorems hold of the composed system (`NoUserIsForgotten`,
`NoAnswersMixed`, `UsersAreServed`); and `SocketsAreShared`, `Spec =>
[]OneSocket`, by `SocketInv`: while there is no handshake and no connection,
as many handshakes have failed as were begun.

Of pages and contexts: `FailuresAreExcused` and `NothingIsStranded`, `Spec => []`
of `FailuresPass` and `NothingStranded`, for any number of viewers, cases,
calls and failures; both are about the time before Chrome is restarted, and so
is `PagesInv`, apart from its types. `Wire` is what the program may rely on
across an await: ids are in one place at a time (`IdsAreApart`), Chrome was
sent what its caller waits for (`CommandsAreOwn`), whoever attaches to a page
or probes one has the context of it (`PagesAreThere`), what a case disposes of
is its own (`CasesHoldTheirs`) -- so a refusal has a failure behind it that
came after the call began (`RefusalsAreFailures`), also when a late answer to
a command that timed out is still on its way. `OneOpens` has the viewers open a page one
at a time, those who joined no cleaner than the one they joined, and no page in
store meanwhile, which is why none is overwritten. `NothingLate` is what the
absence of failures adds: every command at Chrome is still awaited, and a
dispose that was answered has left no context. The steps of the program are
taken in two kinds, those that send (`SendKeepsWire`) and those that do not
(`LocalKeepsWire`).

`Screencast_proofs`: `CasesLeaveNothing`, `PicturesAreOfTheirSocket` and
`CastsWhatIsWatched`, for any number of sockets, pages and faults. `WatchersAgree`
says that a handler's subscription, its watcher of the connection and its place
in the code agree, `StartIsAwaited` that a start is answered to whoever waits
for it, `FfmpegAgrees` in which states of the case the encoder may still run.
`CastInv` adds that a socket asks once; `CastsAfter` says what the commands on the
wire will leave a page in, and the proof has one lemma for a command that is
added and one for a command that is done.

`Scenarios_proofs`: for any scenarios and files and any requests.
`ApplyTellsTheTruth`: `ApplyAgrees` ties the command's request to the file it
is at, and its success to a write that has happened; writes are kept
(`WritesStay`), whoever else writes, so that what was true when the server
answered is still true when the command counts the file.
`RunsWereAskedFor` is about the batch whose answer replaces the ticks: `TicksSpared`
says that whatever may still be granted -- what is ticked, unless that answer
is about to replace the ticks, and the rest of the batch -- has a tick on which
nothing was granted. `SavesAreNotUndone` is about the dialog's save, the reloads
under way and a later edit: no listing the rail would still take, nor
the one it shows once the dialog's copy no longer counts, nor the text the
dialog was opened with goes back behind the tab's own save (`NothingOlder`),
because a revision is written once (`RevsAreNew`) and a file says what was
written to it last (`DirIsLast`).

Of `ScenarioFile`, for any committed files, typed values and slugs and any
number of edits: `AnswersAreSaved`, `CommentsAreKept` and `UntouchedIsSaved`, `FileSpec
=>` `SavesWhatItAnswers`, `CommentsStay` and `UntouchedStays`. `FileInv`
(`FilesKeepInv`) has the file as a mapping (`IsFile`), also after any merge; the draft as
what the form can hold; and in `Keeps` what nobody touched still as it was in
the scenario the dialog opened with, by field and by case, wherever the case has been moved.
`KeysAreGiven` says which keys a merge writes and in which order, by induction
over the server's list of keys; `EditedIs` and `EditedLoads` read the merged file back.
For the comments, `MergedIs` follows a case through the head of its list, the merge and
the re-reading, `NotesAbove` a key through its legacy name.

`RunPage_proofs`, for any number of watchers, cases and steps:

* `StreamsEndOnce`, `EndsAreTrue`, `NothingKnownIsLost`: `Spec => []` of
  `OneEnding`, `EndIsTheVerdict`, `DeliversWhatItKnows`. None of them is
  inductive: what is wrong on the wire went wrong in a queue long before. So
  `StreamInv` is about `Told(w)`, what the response carries, what is queued and
  what is in the buffer, as one sequence: its end, if it has one, is its last
  event and says what the document says (`EndsOK`); it holds every row that was
  read or heard (`DeliversOK`); what it says of a case is in the log, and no
  later event of it takes a verdict back (`SteadyOK`). Each place of the handler
  adds where an end may be: none in a live stream, in the buffer of a replay
  only with the whole log published. The log itself keeps the order of
  `runScenario` (`RunInv`).
* `PageKeepsToStream`, `PageSpec => Spec`, and by it `PagesAreServed`: the
  three hold under the pages.
* `TimelinesGrow`: `PageSpec => TimelineGrows`, since a verdict on a card was
  in an event the page has heard (`CardsWereTold`) and no later event of the
  stream takes it back.

`CliWatch_proofs`, for any text, cut into chunks anywhere:

* `ChunksDoNotMatter`: `Push(s, a \o b) = Push(Push(s, a), b)` for every state
  of the parser and all sequences of words. It is proved by induction over the
  text, in the form the provers can take: the prefixes on which two scans
  differ would have a shortest one (`Least`, from the well-foundedness of `<` on
  the naturals), and a scan is the only function that begins where it begins and
  goes on by `Take` (`ScanExists`, `ScansAreOne`).
* `ExitsTellTheTruth`, `TimelinesArePrinted` and `FailuresAreOutlasted`:
  `Spec => []ExitIsTheVerdict`, `Spec => []TimelineIsPrinted`, `Spec =>
  WeatherIsNoAnswer`. `CliInv` speaks of `Ahead`, what the command will have come
  to once it has read all that is on its way: while the stream is open,
  exactly what the handler has written (`sent`), and a beginning of it
  ever after. A read moves words from the wire to the parser and leaves
  `Ahead` as it is, which is `ChunksDoNotMatter`. That the end the handler
  writes is the verdict is a part of its own (`SentOK`): its backlog is filled
  from the store and the bus, and neither tells an end before the document has it.
  That everything stored is written is not claimed, for it is not so (section 4, 1).

Only model-checked:

* all liveness (`AcceptedRunsSettle`, `PageIsTold`, `CommandEnds`, `CaseEnds`,
  `StepsEnd`, `CallsEnd`, `StreamsEnd`), which is out of the prover's reach, as is
  anything with ENABLED.

Every safety invariant and every action property that a passing run checks is a
theorem. `NothingIsDeletedUnseen` does not hold (section 4); it is the one
property of `ScenarioFile` without one.

## 6. Not modelled

* Store: the conversion of documents, `listRuns`, the test-only `deleteRun`;
  `finishCase`, `finishRun` and `beginRun` read a document before they update
  it and are one step here, since nobody else writes that document. Queue:
  `cancel`, which nothing outside the tests calls. Of the bus, the global
  stream `GET /api/events`, which only tells the rail to read again.
* Screenshots and the label of a screen, which catch their own failures and
  change no verdict; the wording of prompts and lines; colours.
* Which processes scrcpy's recorder takes for its own: it compares what adb
  lists before the start and at the stop (`CaseLoop` has both questions as
  awaits, but not their answers). In this code nobody but the one running case
  starts any.
* Of a page: its shadow roots and frames, which the collector passes over, and
  the width of what is on it.
* In `CliWatch` the several reads of the stream's handler are one step; what a
  run may do between two of them is in `RunStream`.
* `close()` at the end of the process; `navigate` of the live view, which
  keeps no state; the 50 ms throttle of the relay.
* The adb client (one subprocess per call), the logger, and what of the
  dashboard is markup, translation, width or preference. The example apps, the
  benchmark and the scenarios are what the tool is pointed at.

## 7. Plan

* The global stream and the rail's history, when more than a refresh hangs on
  them; `scrcpy`, when more than one run may use a device.
