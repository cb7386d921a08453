------------------------------- MODULE LiveView --------------------------------
(***************************************************************************)
(* Who uses the connection: the Device page, whose status poll and frame   *)
(* stream share one page of their own (cdp-device.ts, CdpDeviceSource),    *)
(* and the web cases of a run, each with a page in a context of its own    *)
(* (resolve.ts, webSession). Both go through one CdpClient, which connects *)
(* on first use (client.ts).                                               *)
(*                                                                         *)
(* A command takes three steps -- sent, answered by Chrome, received -- and *)
(* may time out between any two. A promise that settles runs the program   *)
(* up to its next await before anything else reaches it (see Quiet).       *)
(*                                                                         *)
(* The commands between the creation of a context and a page that can be   *)
(* used are one here, "attach", the navigation of the view's page among    *)
(* them. What is done with a page afterwards changes nothing of this state *)
(* and is left out, and so is the end of the process. A WebSocket that has *)
(* been open takes every message, so that SendFails has no part here. A    *)
(* context is named by the id of the command that created it.              *)
(***************************************************************************)
EXTENDS CdpConnection

CONSTANTS Viewers,      \* status polls and frame streams, which call #page()
          Cases,        \* web cases
          MaxPages,     \* bound: calls the viewers make
          MaxFaults,    \* bound: attempts and commands that fail by themselves
          MaxRestarts   \* bound: restarts of Chrome

ASSUME CallersAssumption == Callers = Viewers \cup Cases /\ Viewers \cap Cases = {}
ASSUME ViewBounds == MaxPages \in Nat /\ MaxFaults \in Nat /\ MaxRestarts \in Nat

VARIABLES
    link,       \* CdpClient: "none", "connecting" (#connecting), "up" (#connection)
    sockets,    \* history: how many handshakes were begun
    view,       \* CdpDeviceSource.#session
    opening,    \* CdpDeviceSource.#opening: the viewer that opens the page
    pc,         \* the await each caller stands at
    held,       \* the session in each caller's hands
    pages,      \* how often the viewers have asked for the page
    message,    \* what Chrome was sent under each id and has not answered
    contexts,   \* Chrome: its browser contexts, and who asked for each
    faults, restarts,
    clean       \* history: nothing has failed since the viewer's call began

client == <<link, sockets>>
source == <<view, opening>>
hands == <<held, pages, clean>>
env == <<contexts, faults, restarts>>
vars == <<connectionVars, client, source, pc, hands, message, env>>

NoSession == 0
Nothing == [method |-> "none", context |-> NoSession, from |-> NoOne]

Init ==
    /\ ConnectionInit
    /\ link = "none"
    /\ sockets = 0
    /\ view = NoSession
    /\ opening = NoOne
    /\ pc = [c \in Callers |-> "idle"]
    /\ held = [c \in Callers |-> NoSession]
    /\ pages = 0
    /\ message = [id \in Ids |-> Nothing]
    /\ contexts = {}
    /\ faults = 0
    /\ restarts = 0
    /\ clean = [v \in Viewers |-> TRUE]

Fault == /\ faults < MaxFaults
         /\ faults' = faults + 1
         /\ clean' = [v \in Viewers |-> FALSE]

Sending == {"probing", "creating", "attaching", "disposing"}

(* Nobody has an answer it has not gone on from: the program waits.        *)
Quiet == \A c \in Callers : /\ pc[c] \in Sending => call[c] = "waiting"
                            /\ pc[c] # "connected"

(* A caller sends a command and awaits it.                                 *)
Sends(c, method, context, await) ==
    /\ pc' = [pc EXCEPT ![c] = await]
    /\ \/ SendRefused(c) /\ UNCHANGED message
       \/ /\ SendAccepted(c)
          /\ message' = [message EXCEPT ![nextId] =
                            [method |-> method, context |-> context, from |-> c]]

Answered(c, await) == pc[c] = await /\ call[c] = "resolved"
Refused(c, await) == pc[c] = await /\ call[c] = "rejected"

-------------------------------------------------------------------------------
(* CdpClient: connecting on first use. *)

(* openSession up to its first await: on the connection there is, on the   *)
(* handshake that is going on, or on one of its own.                       *)
OpensSession(c) ==
    IF link = "up"
    THEN Sends(c, "create", NoSession, "creating") /\ UNCHANGED client
    ELSE /\ pc' = [pc EXCEPT ![c] = "connecting"]
         /\ link' = "connecting"
         /\ sockets' = IF link = "none" THEN sockets + 1 ELSE sockets
         /\ UNCHANGED <<connectionVars, message>>

(* The handshake is over and #connection set, for good.                    *)
Connected ==
    /\ Quiet
    /\ link = "connecting"
    /\ link' = "up"
    /\ pc' = [c \in Callers |-> IF pc[c] = "connecting" THEN "connected" ELSE pc[c]]
    /\ UNCHANGED <<connectionVars, sockets, source, hands, message, env>>

(* Everybody who shared the handshake goes on.                             *)
CreatesContext(c) ==
    /\ pc[c] = "connected"
    /\ Sends(c, "create", NoSession, "creating")
    /\ UNCHANGED <<client, source, hands, env>>

Joining == {v \in Viewers : pc[v] = "joining"}

(* Mutant: who joined the opening is not told that it failed.              *)
GiveUpAlone(some) ==
    /\ pc' = [c \in Callers |-> IF c \in some THEN "failed" ELSE pc[c]]
    /\ opening' = IF opening \in some THEN NoOne ELSE opening

(* Their calls fail, and with the opener's those of all who joined it.     *)
GiveUp(some) ==
    LET joined == IF opening \in some THEN Joining ELSE {}
    IN  /\ pc' = [c \in Callers |-> IF c \in some \cup joined THEN "failed" ELSE pc[c]]
        /\ opening' = IF opening \in some THEN NoOne ELSE opening

(* Chrome cannot be reached. The next call tries again.                    *)
ConnectFails ==
    /\ Quiet
    /\ link = "connecting"
    /\ Fault
    /\ link' = "none"
    /\ GiveUp({c \in Callers : pc[c] = "connecting"})
    /\ UNCHANGED <<connectionVars, sockets, view, held, pages, message, contexts, restarts>>

(* openSession or navigate fails; what it has opened so far stays open.    *)
OpeningFails(c) ==
    /\ \E await \in {"creating", "attaching"} : Refused(c, await)
    /\ GiveUp({c})
    /\ UNCHANGED <<connectionVars, client, view, hands, message, env>>

ContextIsCreated(c) ==
    /\ Answered(c, "creating")
    /\ held' = [held EXCEPT ![c] = asked[c]]
    /\ Sends(c, "attach", asked[c], "attaching")
    /\ UNCHANGED <<client, source, pages, clean, env>>

-------------------------------------------------------------------------------
(* CdpDeviceSource: the page of the live view. *)

(* Mutant: #opening is not looked at.                                      *)
OpensAlone(v, fresh) ==
    /\ opening' = v
    /\ clean' = [clean EXCEPT ![v] = fresh]
    /\ OpensSession(v)

(* The page is being opened already, or it is opened now. A call that      *)
(* joins another is as clean as that one.                                  *)
JoinsOrOpens(v, fresh) ==
    IF opening # NoOne
    THEN /\ pc' = [pc EXCEPT ![v] = "joining"]
         /\ clean' = [clean EXCEPT ![v] = fresh /\ clean[opening]]
         /\ UNCHANGED <<connectionVars, client, opening, message>>
    ELSE /\ opening' = v
         /\ clean' = [clean EXCEPT ![v] = fresh]
         /\ OpensSession(v)

(* #page(): a page that is open is probed first.                           *)
AsksForPage(v) ==
    /\ Quiet
    /\ pc[v] \in {"idle", "given", "failed"}
    /\ pages < MaxPages
    /\ pages' = pages + 1
    /\ IF view # NoSession
       THEN /\ held' = [held EXCEPT ![v] = view]
            /\ Sends(v, "probe", view, "probing")
            /\ clean' = [clean EXCEPT ![v] = TRUE]
            /\ UNCHANGED <<client, source>>
       ELSE /\ JoinsOrOpens(v, TRUE)
            /\ UNCHANGED <<view, held>>
    /\ UNCHANGED env

ProbeSucceeds(v) ==
    /\ Answered(v, "probing")
    /\ pc' = [pc EXCEPT ![v] = "given"]
    /\ UNCHANGED <<connectionVars, client, source, hands, message, env>>

(* Whatever failed, #session is dropped and the page opened anew.          *)
ProbeFails(v) ==
    /\ Refused(v, "probing")
    /\ view' = NoSession
    /\ JoinsOrOpens(v, clean[v])
    /\ UNCHANGED <<held, pages, env>>

(* The page is stored and given to everybody who waits for it.             *)
PageIsOpen(v) ==
    /\ Answered(v, "attaching")
    /\ view' = held[v]
    /\ opening' = NoOne
    /\ pc' = [c \in Callers |-> IF c \in Joining \cup {v} THEN "given" ELSE pc[c]]
    /\ held' = [c \in Callers |-> IF c \in Joining THEN held[v] ELSE held[c]]
    /\ UNCHANGED <<connectionVars, client, pages, clean, message, env>>

-------------------------------------------------------------------------------
(* A web case: a session of its own, closed whatever came of the case. *)

CaseOpens(c) ==
    /\ Quiet
    /\ pc[c] = "idle"
    /\ OpensSession(c)
    /\ UNCHANGED <<source, hands, env>>

CaseIsOpen(c) ==
    /\ Answered(c, "attaching")
    /\ pc' = [pc EXCEPT ![c] = "driving"]
    /\ UNCHANGED <<connectionVars, client, source, hands, message, env>>

CaseCloses(c) ==
    /\ Quiet
    /\ pc[c] = "driving"
    /\ Sends(c, "dispose", held[c], "disposing")
    /\ UNCHANGED <<client, source, hands, env>>

(* A context that would not close is logged.                               *)
CaseIsClosed(c) ==
    /\ pc[c] = "disposing"
    /\ call[c] # "waiting"
    /\ pc' = [pc EXCEPT ![c] = "closed"]
    /\ UNCHANGED <<connectionVars, client, source, hands, message, env>>

-------------------------------------------------------------------------------
(* Chrome and the wire. *)

Context(id, c) == [id |-> id, of |-> c]

(* Chrome does what it is told, if the page it is told to do it with is    *)
(* there.                                                                  *)
ChromeDoes(id) ==
    LET m == message[id]
        named == {x \in contexts : x.id = m.context}
    IN  /\ ChromeAnswers(id, m.method = "create" \/ named # {})
        /\ contexts' = CASE m.method = "create"  -> contexts \cup {Context(id, m.from)}
                         [] m.method = "dispose" -> contexts \ named
                         [] OTHER                -> contexts
        /\ message' = [message EXCEPT ![id] = Nothing]
        /\ UNCHANGED <<client, source, pc, hands, faults, restarts>>

ChromeRefuses(id) ==
    /\ Fault
    /\ ChromeAnswers(id, FALSE)
    /\ message' = [message EXCEPT ![id] = Nothing]
    /\ UNCHANGED <<client, source, pc, held, pages, contexts, restarts>>

ReplyArrives ==
    /\ Quiet
    /\ \E reply \in replies : Receive(reply)
    /\ UNCHANGED <<client, source, pc, hands, message, env>>

CommandTimesOut ==
    /\ Quiet
    /\ Fault
    /\ \E id \in Ids : Timeout(id)
    /\ UNCHANGED <<client, source, pc, held, pages, message, contexts, restarts>>

(* Chrome is started again: its contexts are gone, and the socket with it. *)
ChromeRestarts ==
    /\ Quiet
    /\ restarts < MaxRestarts
    /\ restarts' = restarts + 1
    /\ contexts' = {}
    /\ clean' = [v \in Viewers |-> FALSE]
    /\ message' = [id \in Ids |-> Nothing]
    /\ IF link = "up" /\ ~closed THEN Fail ELSE UNCHANGED connectionVars
    /\ UNCHANGED <<client, source, pc, held, pages, faults>>

-------------------------------------------------------------------------------

Viewing(v) == ProbeSucceeds(v) \/ ProbeFails(v) \/ PageIsOpen(v)

OnCase(c) == CaseIsOpen(c) \/ CaseCloses(c) \/ CaseIsClosed(c)

Progress ==
    \/ Connected \/ ReplyArrives
    \/ \E c \in Callers : CreatesContext(c) \/ ContextIsCreated(c) \/ OpeningFails(c)
    \/ \E v \in Viewers : Viewing(v)
    \/ \E c \in Cases : OnCase(c)
    \/ \E id \in Ids : ChromeDoes(id)

Next ==
    \/ Progress
    \/ \E v \in Viewers : AsksForPage(v)
    \/ \E c \in Cases : CaseOpens(c)
    \/ \E id \in Ids : ChromeRefuses(id)
    \/ ConnectFails \/ CommandTimesOut \/ ChromeRestarts

Spec == Init /\ [][Next]_vars

(* Chrome answers, or a timer does in its place; replies arrive and the    *)
(* program goes on from them. Nobody has to ask, and nothing has to fail.  *)
FairSpec == Spec /\ WF_vars(Progress)

-------------------------------------------------------------------------------
(* Properties. *)

(* One socket at a time: a second handshake is begun only after one that   *)
(* failed, however many callers come during the first.                     *)
OneSocket == sockets <= faults + 1

(* Somebody can still close the context: it is the view's page, or whoever *)
(* asked for it has not let go of it.                                      *)
Kept(x) ==
    \/ x.id = view
    \/ \E c \in Callers :
          \/ pc[c] = "creating" /\ asked[c] = x.id
          \/ pc[c] \in {"attaching", "driving", "disposing"} /\ held[c] = x.id

(* While nothing fails, no context is stranded: polls and streams that     *)
(* overlap share one page, and a case disposes of its own.                 *)
NothingStranded == faults = 0 /\ restarts = 0 => \A x \in contexts : Kept(x)

(* A viewer's call fails only if something failed while it was going on:   *)
(* an earlier failure, its own or another's, is no reason.                 *)
FailuresPass ==
    restarts = 0 => \A v \in Viewers : pc[v] = "failed" => ~clean[v]

(* What #page() says of a page that has gone away, Chrome restarted or the *)
(* context disposed: it is dropped and reopened. So a restart that is over *)
(* is no reason to fail either.                                            *)
(* The code does not keep this: see the README, section 4.                 *)
RestartsPass == \A v \in Viewers : pc[v] = "failed" => ~clean[v]

(* What #page() says of giving a page up: a handle is dropped when a       *)
(* command on it has failed. So the page that is dropped is the one the    *)
(* caller has probed.                                                      *)
(* The code does not keep this: see the README, section 4.                 *)
DropsWhatItProbed ==
    [][view # NoSession /\ view' = NoSession =>
          \E v \in Viewers : Refused(v, "probing") /\ held[v] = view]_vars

(* Every call of a viewer and every case comes to its end, also those that *)
(* joined another's handshake or opening, and whatever Chrome does.        *)
CallsEnd ==
    \A c \in Callers : (pc[c] # "idle") ~> (pc[c] \in {"given", "failed", "closed"})

===============================================================================
