------------------------------ MODULE Screencast ------------------------------
(***************************************************************************)
(* The frames of a page and those who watch them. Chrome has one screencast *)
(* per page, which CdpClient hands out to its subscribers (client.ts,      *)
(* onFrames): the live views of the dashboard, which all watch the view's  *)
(* page (cdp-device.ts, device-stream.ts, DeviceLiveView.tsx), and the     *)
(* recorder of a web case, which watches the case's (recorders/cdp.ts).    *)
(*                                                                         *)
(* One browser tab shows the live view; it opens a socket each time it is  *)
(* scrolled into view or reconnected, so that sockets overlap on the       *)
(* server. LiveView has how pages are opened; here the view's page is given *)
(* or refused, and may be given up by a status poll (ReopensPage).         *)
(*                                                                         *)
(* Chrome takes the commands of a connection in order. The frames of a     *)
(* burst that the relay drops (50 ms) and the acknowledgement of each are  *)
(* left out, and so is the socket's end, after which LiveView shows nothing *)
(* works: LinkCloses is the last thing that happens to the client here.    *)
(***************************************************************************)
EXTENDS Integers, Sequences, FiniteSets, SequencesExt

CONSTANTS Sockets,      \* WebSockets the tab may open, one after the other
          Recorder,     \* the recorder of a web case
          NoSocket,
          Pages,        \* pages the view may have, one after the other
          CasePage,     \* the page of the case
          MaxFaults     \* bound: starts that Chrome refuses, pages it does not give

ASSUME NamesAssumption == /\ Recorder \notin Sockets /\ NoSocket \notin Sockets
                          /\ CasePage \notin Pages /\ Pages # {}

Handlers == Sockets \cup {Recorder}
Sessions == Pages \cup {CasePage}

VARIABLES
    link,       \* the connection to Chrome: "up" or "closed"
    member,     \* handler -> "none", "current" (in #frameSubscribers), "old" (its set was released)
    session,    \* handler -> the page it subscribed to
    watching,   \* handlers with an entry in #frameCloseWatchers
    at,         \* handler -> "idle", "asking", "starting", "on", "off"
    wire,       \* commands on their way to Chrome
    answer,     \* handler -> the reply to its startScreencast
    streaming,  \* Chrome: the pages it casts
    refused,    \* history: pages whose start Chrome has refused
    page,       \* the view's page
    faults,
    cancelled,  \* openFrameStream: cancelled
    relay,      \* relayFrames: "none", "open", "closed"
    socket,     \* socket -> "new", "connecting", "open", "closed" (by either side)
    toTab,      \* socket -> what the server has sent and the tab has not seen
    tab,        \* DeviceLiveView: [state, socket, picture]
    ffmpeg,     \* "none", "running", "draining", "exited", "failed", "killed"
    case        \* "driving", "stopping", "video", "novideo", "closed"

client == <<member, session, watching, at, wire, answer>>
server == <<cancelled, relay>>
browser == <<socket, toTab, tab>>
recording == <<ffmpeg, case>>
chrome == <<streaming, refused, faults>>
vars == <<link, client, server, browser, recording, chrome, page>>

Init ==
    /\ link = "up"
    /\ member = [h \in Handlers |-> "none"]
    /\ page = CHOOSE p \in Pages : TRUE
    /\ session = [h \in Handlers |-> CasePage]
    /\ watching = {}
    /\ at = [h \in Handlers |-> "idle"]
    /\ wire = <<>>
    /\ answer = [h \in Handlers |-> "none"]
    /\ streaming = {} /\ refused = {} /\ faults = 0
    /\ cancelled = {}
    /\ relay = [s \in Sockets |-> "none"]
    /\ socket = [s \in Sockets |-> "new"]
    /\ toTab = [s \in Sockets |-> <<>>]
    /\ tab = [state |-> "paused", socket |-> NoSocket, picture |-> NoSocket]
    /\ ffmpeg = "none" /\ case = "driving"

Subscribers(p) == {h \in Handlers : member[h] = "current" /\ session[h] = p}
Command(op, p, h) == [op |-> op, page |-> p, by |-> h]

-------------------------------------------------------------------------------
(* CdpClient: one screencast per page, for all who watch it. *)

(* onFrames: the first subscriber of a page starts the screencast and      *)
(* waits for it, any other has its frames at once.                         *)
OnFrames(h, p, watches) ==
    LET isFirst == Subscribers(p) = {}
    IN  /\ member' = [member EXCEPT ![h] = "current"]
        /\ session' = [session EXCEPT ![h] = p]
        /\ watching' = IF watches THEN watching \cup {h} ELSE watching
        /\ at' = [at EXCEPT ![h] = "starting"]
        /\ answer' = IF isFirst THEN answer ELSE [answer EXCEPT ![h] = "ok"]
        /\ wire' = IF isFirst THEN Append(wire, Command("start", p, h)) ELSE wire

(* Mutant: a page's set is kept when its last subscriber leaves.           *)
UnsubscribesAndStays(h) ==
    /\ member' = [member EXCEPT ![h] = "none"]
    /\ watching' = watching \ {h}
    /\ UNCHANGED wire

(* The function onFrames returns: whoever leaves last stops the            *)
(* screencast, unless closeSession has released the page before.           *)
Unsubscribes(h) ==
    LET isLast == member[h] = "current" /\ Subscribers(session[h]) = {h}
    IN  /\ member' = [member EXCEPT ![h] = "none"]
        /\ watching' = watching \ {h}
        /\ wire' = IF isLast /\ link = "up"
                   THEN Append(wire, Command("stop", session[h], h)) ELSE wire

(* Every registration of a page is dropped, whoever it is.                 *)
Release(p) ==
    /\ member' = [h \in Handlers |-> IF h \in Subscribers(p) THEN "old" ELSE member[h]]
    /\ watching' = {h \in watching : session[h] # p}

(* Mutant: the release is left to whoever unsubscribes last.               *)
DisposesOnly(p) ==
    /\ UNCHANGED <<member, watching>>
    /\ wire' = IF link = "closed" THEN wire ELSE Append(wire, Command("dispose", p, Recorder))

(* closeSession: the page is released whoever still watches it, and then   *)
(* disposed of.                                                            *)
CloseSession(p) ==
    /\ Release(p)
    /\ wire' = IF link = "closed" THEN wire
               ELSE wire \o (IF Subscribers(p) = {} THEN <<>>
                             ELSE <<Command("stop", p, Recorder)>>)
                         \o <<Command("dispose", p, Recorder)>>

(* Chrome takes the next command. It may refuse to start a screencast.     *)
ChromeDoes ==
    /\ wire # <<>>
    /\ LET c == Head(wire)
       IN  \/ /\ c.op = "start"
              /\ streaming' = streaming \cup {c.page}
              /\ answer' = [answer EXCEPT ![c.by] = "ok"]
              /\ UNCHANGED <<refused, faults>>
           \/ /\ c.op = "start"
              /\ faults < MaxFaults
              /\ faults' = faults + 1
              /\ refused' = refused \cup {c.page}
              /\ answer' = [answer EXCEPT ![c.by] = "error"]
              /\ UNCHANGED streaming
           \/ /\ c.op \in {"stop", "dispose"}
              /\ streaming' = streaming \ {c.page}
              /\ UNCHANGED <<answer, refused, faults>>
    /\ wire' = Tail(wire)
    /\ UNCHANGED <<link, member, session, watching, at, server, browser, recording, page>>

-------------------------------------------------------------------------------
(* The stream of a socket: openFrameStream and relayFrames. *)

Failure == <<"unavailable">>   \* the close code 1011

(* terminate, and the relay's handler of the error it reports: the socket  *)
(* is closed once, and never after its end.                                *)
Terminate(some) ==
    LET told == {s \in some : s \notin cancelled /\ relay[s] = "open"}
    IN  /\ cancelled' = cancelled \cup some
        /\ relay' = [s \in Sockets |-> IF s \in told THEN "closed" ELSE relay[s]]
        /\ toTab' = [s \in Sockets |-> IF s \in told THEN toTab[s] \o Failure ELSE toTab[s]]

(* The upgrade: the relay opens a stream, which asks for the view's page.  *)
SocketOpens(s) ==
    /\ socket[s] = "connecting"
    /\ socket' = [socket EXCEPT ![s] = "open"]
    /\ toTab' = [toTab EXCEPT ![s] = <<"live">>]
    /\ relay' = [relay EXCEPT ![s] = "open"]
    /\ at' = [at EXCEPT ![s] = "asking"]
    /\ UNCHANGED <<link, member, session, watching, wire, answer, cancelled, tab, recording,
                   chrome, page>>

(* The page is given; a stream that was cancelled meanwhile subscribes too.*)
PageIsGiven(s) ==
    /\ at[s] = "asking" /\ link = "up"
    /\ OnFrames(s, page, TRUE)
    /\ UNCHANGED <<link, server, browser, recording, chrome, page>>

PageIsRefused(s) ==
    /\ at[s] = "asking"
    /\ \/ link = "closed" /\ UNCHANGED faults
       \/ faults < MaxFaults /\ faults' = faults + 1
    /\ at' = [at EXCEPT ![s] = "off"]
    /\ Terminate({s})
    /\ UNCHANGED <<link, member, session, watching, wire, answer, socket, tab, recording,
                   streaming, refused, page>>

(* Mutant: a stream cancelled while it was opening keeps its subscription. *)
StartsRegardless(s) ==
    /\ at[s] = "starting" /\ answer[s] = "ok"
    /\ at' = [at EXCEPT ![s] = "on"]
    /\ UNCHANGED <<link, member, session, watching, wire, answer, server, browser, recording,
                   chrome, page>>

(* The screencast has started; who was cancelled meanwhile leaves at once. *)
Starts(s) ==
    /\ at[s] = "starting" /\ answer[s] = "ok"
    /\ IF s \in cancelled
       THEN Unsubscribes(s) /\ at' = [at EXCEPT ![s] = "off"]
       ELSE at' = [at EXCEPT ![s] = "on"] /\ UNCHANGED <<member, watching, wire>>
    /\ UNCHANGED <<link, session, answer, server, browser, recording, chrome, page>>

(* It has not: the stream ends with an error. Nobody takes the handler back.*)
StartFails(s) ==
    /\ at[s] = "starting" /\ answer[s] = "error"
    /\ at' = [at EXCEPT ![s] = "off"]
    /\ Terminate({s})
    /\ UNCHANGED <<link, member, session, watching, wire, answer, socket, tab, recording,
                   chrome, page>>

(* The tab is gone: the relay stops and cancels the stream, if it has not  *)
(* ended by itself; a stream that is still opening only takes note.        *)
SocketCloses(s) ==
    /\ socket[s] = "closed" /\ relay[s] = "open"
    /\ relay' = [relay EXCEPT ![s] = "closed"]
    /\ cancelled' = cancelled \cup {s}
    /\ IF at[s] = "on"
       THEN Unsubscribes(s) /\ at' = [at EXCEPT ![s] = "off"]
       ELSE UNCHANGED <<member, watching, wire, at>>
    /\ UNCHANGED <<link, session, answer, browser, recording, chrome, page>>

(* The connection closes: commands in flight are rejected, watchers called.*)
LinkCloses ==
    /\ link = "up"
    /\ link' = "closed"
    /\ wire' = <<>> /\ streaming' = {}
    /\ answer' = [h \in Handlers |-> IF at[h] = "starting" /\ answer[h] = "none"
                                     THEN "error" ELSE answer[h]]
    /\ Terminate(watching)
    /\ UNCHANGED <<member, session, watching, at, socket, tab, recording, refused, faults, page>>

(* A status poll finds that the page does not answer and another is opened.*)
ReopensPage ==
    /\ faults < MaxFaults
    /\ faults' = faults + 1
    /\ page' \in Pages \ {page}
    /\ UNCHANGED <<link, client, server, browser, recording, streaming, refused>>

-------------------------------------------------------------------------------
(* DeviceLiveView in its tab. *)

(* The effect runs: when the view is scrolled in, or on reconnect.         *)
Opens(s) ==
    /\ socket[s] = "new"
    /\ tab.state \in {"paused", "unavailable"}
    /\ socket' = [socket EXCEPT ![s] = "connecting"]
    /\ tab' = [state |-> "connecting", socket |-> s, picture |-> NoSocket]
    /\ UNCHANGED <<link, client, server, toTab, recording, chrome, page>>

(* Its cleanup: the view is scrolled away.                                 *)
Pauses ==
    /\ tab.socket # NoSocket
    /\ socket' = [socket EXCEPT ![tab.socket] = "closed"]
    /\ tab' = [state |-> "paused", socket |-> NoSocket, picture |-> NoSocket]
    /\ UNCHANGED <<link, client, server, toTab, recording, chrome, page>>

(* Mutant: the handlers of a socket the effect has dropped still act.      *)
SeesAnySocket(s) ==
    /\ toTab[s] # <<>>
    /\ toTab' = [toTab EXCEPT ![s] = Tail(@)]
    /\ tab' = IF Head(toTab[s]) = "frame" THEN [tab EXCEPT !.picture = s]
              ELSE [tab EXCEPT !.state = Head(toTab[s])]
    /\ socket' = IF Head(toTab[s]) = "unavailable" THEN [socket EXCEPT ![s] = "closed"] ELSE socket
    /\ UNCHANGED <<link, client, server, recording, chrome, page>>

(* onopen, onmessage, onclose of a socket; `closed` mutes one that is no   *)
(* longer the effect's.                                                    *)
Sees(s) ==
    /\ toTab[s] # <<>>
    /\ toTab' = [toTab EXCEPT ![s] = Tail(@)]
    /\ tab' = IF tab.socket # s THEN tab
              ELSE IF Head(toTab[s]) = "frame" THEN [tab EXCEPT !.picture = s]
              ELSE [tab EXCEPT !.state = Head(toTab[s])]
    /\ socket' = IF Head(toTab[s]) = "unavailable" THEN [socket EXCEPT ![s] = "closed"] ELSE socket
    /\ UNCHANGED <<link, client, server, recording, chrome, page>>

(* The sockets whose relay sends a frame on: the stream is not over. One   *)
(* frame on its way or on screen tells the rest.                           *)
Relaying(p) ==
    {s \in Subscribers(p) \cap Sockets :
        /\ s \notin cancelled /\ socket[s] = "open" /\ tab.picture # s
        /\ ~Contains(toTab[s], "frame")}

(* Chrome casts a frame to every subscriber of the page.                   *)
Frame(p) ==
    /\ link = "up" /\ p \in streaming /\ Relaying(p) # {}
    /\ toTab' = [s \in Sockets |-> IF s \in Relaying(p) THEN Append(toTab[s], "frame")
                                  ELSE toTab[s]]
    /\ UNCHANGED <<link, client, server, socket, tab, recording, chrome, page>>

-------------------------------------------------------------------------------
(* CdpRecorder and its case. *)

(* start: ffmpeg is spawned, then the case's page subscribed to.           *)
RecorderStarts ==
    /\ at[Recorder] = "idle" /\ case = "driving" /\ link = "up"
    /\ ffmpeg' = "running"
    /\ OnFrames(Recorder, CasePage, FALSE)
    /\ UNCHANGED <<link, server, browser, case, chrome, page>>

RecorderIsOn ==
    /\ at[Recorder] = "starting" /\ answer[Recorder] # "none"
    /\ at' = [at EXCEPT ![Recorder] = IF answer[Recorder] = "ok" THEN "on" ELSE "off"]
    /\ UNCHANGED <<link, member, session, watching, wire, answer, server, browser, recording,
                   chrome, page>>

(* stop: the last frame is held, or a blank one written; ffmpeg is told    *)
(* that the stream has ended. A case without a recording has nothing to stop.*)
RecorderStops ==
    /\ case = "driving" /\ at[Recorder] \in {"idle", "on", "off"}
    /\ IF at[Recorder] = "on"
       THEN /\ Unsubscribes(Recorder)
            /\ at' = [at EXCEPT ![Recorder] = "off"]
            /\ ffmpeg' = IF ffmpeg = "running" THEN "draining" ELSE ffmpeg
            /\ case' = IF ffmpeg = "running" THEN "stopping" ELSE "novideo"
       ELSE case' = "novideo" /\ UNCHANGED <<member, watching, wire, at, ffmpeg>>
    /\ UNCHANGED <<link, session, answer, server, browser, chrome, page>>

(* ffmpeg finishes the file, or dies, at any time it runs.                 *)
FfmpegEnds ==
    /\ \/ ffmpeg = "draining" /\ ffmpeg' \in {"exited", "failed"}
       \/ ffmpeg = "running" /\ ffmpeg' = "failed"
    /\ UNCHANGED <<link, client, server, browser, case, chrome, page>>

(* awaitExit: the exit code, or after ten seconds a kill.                  *)
AwaitExit ==
    /\ case = "stopping"
    /\ case' = IF ffmpeg = "exited" THEN "video" ELSE "novideo"
    /\ ffmpeg' = IF ffmpeg = "draining" THEN "killed" ELSE ffmpeg
    /\ UNCHANGED <<link, client, server, browser, chrome, page>>

(* The case is over and its page disposed of.                              *)
CaseCloses ==
    /\ case \in {"video", "novideo"}
    /\ case' = "closed"
    /\ CloseSession(CasePage)
    /\ UNCHANGED <<link, session, at, answer, server, browser, ffmpeg, chrome, page>>

-------------------------------------------------------------------------------

Serving(s) ==
    \/ SocketOpens(s) \/ PageIsGiven(s) \/ Starts(s) \/ StartFails(s)
    \/ SocketCloses(s)

Next ==
    \/ \E s \in Sockets : Serving(s) \/ Sees(s) \/ PageIsRefused(s) \/ Opens(s)
    \/ ChromeDoes \/ LinkCloses \/ ReopensPage \/ Pauses
    \/ \E p \in Sessions : Frame(p)
    \/ RecorderStarts \/ RecorderIsOn \/ RecorderStops
    \/ FfmpegEnds \/ AwaitExit \/ CaseCloses

Spec == Init /\ [][Next]_vars

(* The server, Chrome and the network go on; a page asked for is given or  *)
(* refused (CallsEnd of LiveView); the limit of awaitExit passes. Nobody   *)
(* has to open, to scroll or to fail.                                      *)
FairSpec ==
    /\ Spec
    /\ WF_vars(ChromeDoes) /\ WF_vars(AwaitExit)
    /\ \A s \in Sockets : /\ WF_vars(Serving(s))
                          /\ WF_vars(PageIsRefused(s) /\ link = "closed")

-------------------------------------------------------------------------------
(* Properties. *)

(* Whether Chrome casts the page once it has done what it was told.        *)
WillCast(p) ==
    LET told == {i \in DOMAIN wire : wire[i].page = p}
    IN  IF told = {} THEN p \in streaming
        ELSE \E last \in told : wire[last].op = "start" /\ \A i \in told : i <= last

(* Subscribers come and go while starts and stops are on their way, and a  *)
(* page is closed under them: unless Chrome refused to start, the last     *)
(* command it has is to cast exactly if somebody is left to watch.         *)
ScreencastFollowsSubscribers ==
    link = "up" => \A p \in Sessions \ refused : WillCast(p) <=> Subscribers(p) # {}

(* What the tab shows is of the socket it has open, never a late frame of  *)
(* one it has dropped.                                                     *)
PictureIsOfItsSocket == tab.picture \in {NoSocket, tab.socket}

(* After a case nothing of it is left, whatever order it ended in: no      *)
(* handler for its page, and no ffmpeg, if its subscription was accepted.  *)
CaseLeavesNothing ==
    case = "closed" =>
        /\ Subscribers(CasePage) = {}
        /\ answer[Recorder] = "ok" => ffmpeg \in {"exited", "failed", "killed"}

(* A stream whose tab is gone lets go of the page, also one that was still *)
(* opening, and one that lost the connection to Chrome closes its socket.  *)
StreamsEnd ==
    \A s \in Sockets :
        (relay[s] = "open" /\ (socket[s] = "closed" \/ link = "closed"))
            ~> (relay[s] = "closed" /\ at[s] \notin {"asking", "starting"}
                /\ (link = "up" /\ answer[s] # "error" => member[s] = "none"))

(* What onFrames says of itself: the first subscriber starts the screencast.*)
(* So a stream that is up, and was not told of a failure, has frames.      *)
(* The code does not keep this: see the README, section 4.                 *)
SubscribersHaveFrames ==
    link = "up" => \A s \in Sockets : at[s] = "on" /\ s \notin cancelled => WillCast(session[s])

===============================================================================
