----------------------------- MODULE CdpConnection -----------------------------
(***************************************************************************)
(* One WebSocket to Chrome and the commands in flight on it                *)
(* (connection.ts): ids are counted up, a map takes an id to whoever waits *)
(* for its reply, each entry has a timer of its own, and the end of the    *)
(* socket refuses all of them.                                             *)
(*                                                                         *)
(* A caller has one command in flight at a time: everything that calls     *)
(* send awaits it (the acknowledgement of frames, which nobody awaits, is  *)
(* left out). A timer is set and cleared together with the entry of its    *)
(* command, so it has no variable. A reply that is not JSON, or never      *)
(* comes, is a command that times out.                                     *)
(***************************************************************************)
EXTENDS Integers

CONSTANTS Callers,      \* whoever sends commands
          NoOne,
          MaxCommands   \* bound: commands sent

ASSUME NoOneIsNoCaller == NoOne \notin Callers
ASSUME CommandBound == MaxCommands \in Nat

VARIABLES
    nextId,     \* CdpConnection.#nextId
    pending,    \* CdpConnection.#pending: who waits for the reply of an id
    closed,     \* CdpConnection.#closed is set
    call,       \* how the promise of each caller's latest command stands
    asked,      \* the id that command was sent with; 0 if it was not sent
    atChrome,   \* ids Chrome has yet to answer
    replies     \* answers on their way back

connection == <<nextId, pending, closed, call, asked>>
connectionVars == <<connection, atChrome, replies>>

Ids == 1..MaxCommands
Reply(id, ok) == [id |-> id, ok |-> ok]

ConnectionInit ==
    /\ nextId = 1
    /\ pending = [id \in Ids |-> NoOne]
    /\ closed = FALSE
    /\ call = [c \in Callers |-> "idle"]
    /\ asked = [c \in Callers |-> 0]
    /\ atChrome = {}
    /\ replies = {}

-------------------------------------------------------------------------------

(* send on a connection that is over throws what ended it.                 *)
SendRefused(c) ==
    /\ closed
    /\ call[c] # "waiting"
    /\ call' = [call EXCEPT ![c] = "rejected"]
    /\ asked' = [asked EXCEPT ![c] = 0]
    /\ UNCHANGED <<nextId, pending, closed, atChrome, replies>>

SendAccepted(c) ==
    /\ ~closed
    /\ call[c] # "waiting"
    /\ nextId \in Ids
    /\ nextId' = nextId + 1
    /\ pending' = [pending EXCEPT ![nextId] = c]
    /\ call' = [call EXCEPT ![c] = "waiting"]
    /\ asked' = [asked EXCEPT ![c] = nextId]
    /\ atChrome' = atChrome \cup {nextId}
    /\ UNCHANGED <<closed, replies>>

(* The socket throws instead of taking the message: the entry goes again,  *)
(* the id is spent.                                                        *)
SendFails(c) ==
    /\ ~closed
    /\ call[c] # "waiting"
    /\ nextId \in Ids
    /\ nextId' = nextId + 1
    /\ call' = [call EXCEPT ![c] = "rejected"]
    /\ asked' = [asked EXCEPT ![c] = 0]
    /\ UNCHANGED <<pending, closed, atChrome, replies>>

(* Chrome answers, with a result or an error, in any order.                *)
ChromeAnswers(id, ok) ==
    /\ id \in atChrome
    /\ atChrome' = atChrome \ {id}
    /\ replies' = replies \cup {Reply(id, ok)}
    /\ UNCHANGED connection

Outcome(ok) == IF ok THEN "resolved" ELSE "rejected"

(* The entry of a command goes and its promise settles.                    *)
Settle(id, ok) ==
    /\ call' = [call EXCEPT ![pending[id]] = Outcome(ok)]
    /\ pending' = [pending EXCEPT ![id] = NoOne]

(* #receive and #settle; a reply nobody waits for any more is dropped.     *)
Receive(reply) ==
    /\ reply \in replies
    /\ replies' = replies \ {reply}
    /\ IF pending[reply.id] = NoOne
       THEN UNCHANGED <<pending, call>>
       ELSE Settle(reply.id, reply.ok)
    /\ UNCHANGED <<nextId, closed, asked, atChrome>>

Waits(c) == \E id \in Ids : pending[id] = c

(* Mutant: the end of the socket empties the map and tells nobody.         *)
FailSilently ==
    /\ ~closed
    /\ closed' = TRUE
    /\ pending' = [id \in Ids |-> NoOne]
    /\ atChrome' = {}
    /\ replies' = {}
    /\ UNCHANGED <<nextId, call, asked>>

(* #fail: the socket closed or failed, and what is on it is gone.          *)
Fail ==
    /\ ~closed
    /\ closed' = TRUE
    /\ call' = [c \in Callers |-> IF Waits(c) THEN "rejected" ELSE call[c]]
    /\ pending' = [id \in Ids |-> NoOne]
    /\ atChrome' = {}
    /\ replies' = {}
    /\ UNCHANGED <<nextId, asked>>

(* Mutant: the timer takes the whole connection down.                      *)
TimeoutFailsAll(id) ==
    /\ pending[id] # NoOne
    /\ Fail

(* The timer of a command fires, before or after Chrome has answered.      *)
Timeout(id) ==
    /\ pending[id] # NoOne
    /\ Settle(id, FALSE)
    /\ UNCHANGED <<nextId, closed, asked, atChrome, replies>>

ConnectionNext ==
    \/ \E c \in Callers : SendRefused(c) \/ SendAccepted(c) \/ SendFails(c)
    \/ \E id \in Ids : Timeout(id) \/ \E ok \in BOOLEAN : ChromeAnswers(id, ok)
    \/ \E reply \in replies : Receive(reply)
    \/ Fail

ConnectionSpec == ConnectionInit /\ [][ConnectionNext]_connectionVars

-------------------------------------------------------------------------------
(* Properties. *)

ConnectionTypeOK ==
    /\ nextId \in 1..(MaxCommands + 1)
    /\ pending \in [Ids -> Callers \cup {NoOne}]
    /\ closed \in BOOLEAN
    /\ call \in [Callers -> {"idle", "waiting", "resolved", "rejected"}]
    /\ asked \in [Callers -> 0..MaxCommands]
    /\ atChrome \subseteq Ids
    /\ replies \subseteq [id : Ids, ok : BOOLEAN]

(* Whoever waits for a reply is in the map, under the id of its latest     *)
(* command and no other, so a timer, a reply or the end of the socket will *)
(* reach it; and nobody waits on a connection that is over.                *)
WaitersAreReachable ==
    /\ \A c \in Callers : call[c] = "waiting" <=> Waits(c)
    /\ \A id \in Ids : \A c \in Callers : pending[id] = c => id = asked[c]
    /\ closed => \A c \in Callers : call[c] # "waiting"

(* A promise resolves with the answer to its own command, although late    *)
(* replies to commands that timed out arrive in between.                   *)
AnswersAreOwn ==
    [][\A c \in Callers : call[c] = "waiting" /\ call'[c] = "resolved" =>
          Reply(asked[c], TRUE) \in replies]_connectionVars

Promise == INSTANCE Commands WITH dead <- closed

(* The connection implements Commands.                                     *)
KeepsPromise == Promise!Spec
===============================================================================
