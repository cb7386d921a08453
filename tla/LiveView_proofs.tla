---------------------------- MODULE LiveView_proofs ----------------------------
(***************************************************************************)
(* The connection to Chrome and its users. What CdpConnection promises is  *)
(* proved of it first; then that poll, streams and cases keep to it, open  *)
(* one socket at a time, and, while Chrome is not restarted, fail only for *)
(* failures of their own time and strand no context. For any number of     *)
(* viewers, cases, calls, commands, failures and restarts.                 *)
(***************************************************************************)
EXTENDS LiveView, TLAPS

-------------------------------------------------------------------------------
(* The connection. *)

(* No entry and no command bears an id that has not been given out yet:    *)
(* the next command overwrites nobody's entry.                             *)
IdsAreFresh ==
    /\ \A id \in Ids : id >= nextId => pending[id] = NoOne
    /\ \A c \in Callers : asked[c] < nextId

ConnectionInv == ConnectionTypeOK /\ WaitersAreReachable /\ IdsAreFresh

LEMMA InitInv == ConnectionInit => ConnectionInv
<1> SUFFICES ASSUME ConnectionInit PROVE ConnectionInv
  OBVIOUS
<1>1. ConnectionTypeOK
  <2>1. nextId \in 1..(MaxCommands + 1) /\ asked \in [Callers -> 0..MaxCommands]
    BY CommandBound DEF ConnectionInit
  <2>2. call \in [Callers -> {"idle", "waiting", "resolved", "rejected"}]
    BY DEF ConnectionInit
  <2>3. pending \in [Ids -> Callers \cup {NoOne}]
    BY DEF ConnectionInit
  <2> QED BY <2>1, <2>2, <2>3 DEF ConnectionInit, ConnectionTypeOK
<1>2. WaitersAreReachable
  BY NoOneIsNoCaller DEF ConnectionInit, WaitersAreReachable, Waits
<1>3. IdsAreFresh
  BY DEF ConnectionInit, IdsAreFresh
<1> QED BY <1>1, <1>2, <1>3 DEF ConnectionInv

(* Answering an entry, by a reply or by its timer, touches its owner only. *)
LEMMA SettleInv ==
    ASSUME ConnectionInv, NEW id \in Ids, NEW ok \in BOOLEAN, pending[id] # NoOne,
           Settle(id, ok), UNCHANGED <<nextId, closed, asked>>,
           atChrome' \subseteq Ids, replies' \subseteq [id : Ids, ok : BOOLEAN]
    PROVE  ConnectionInv'
<1> DEFINE owner == pending[id]
<1>1. owner \in Callers /\ call[owner] = "waiting" /\ asked[owner] = id
  BY DEF ConnectionInv, ConnectionTypeOK, WaitersAreReachable, Waits
<1>2. Outcome(ok) \in {"resolved", "rejected"}
  BY DEF Outcome
<1>3. ConnectionTypeOK'
  BY <1>1, <1>2 DEF ConnectionInv, ConnectionTypeOK, Settle
<1>4. IdsAreFresh'
  BY DEF ConnectionInv, ConnectionTypeOK, IdsAreFresh, Settle, Ids
<1>5. WaitersAreReachable'
  <2>1. ASSUME NEW c \in Callers PROVE (call[c] = "waiting")' <=> Waits(c)'
    <3>1. CASE c = owner
      <4>1. call'[c] # "waiting"
        BY <1>1, <1>2, <3>1 DEF Settle, ConnectionInv, ConnectionTypeOK
      <4>2. \A j \in Ids : pending'[j] # c
        BY <1>1, <3>1, NoOneIsNoCaller
           DEF Settle, ConnectionInv, ConnectionTypeOK, WaitersAreReachable
      <4> QED BY <4>1, <4>2 DEF Waits
    <3>2. CASE c # owner
      <4>1. call'[c] = call[c]
        BY <1>1, <3>2 DEF Settle, ConnectionInv, ConnectionTypeOK
      <4>2. \A j \in Ids : pending'[j] = c <=> pending[j] = c
        BY <3>2, NoOneIsNoCaller DEF Settle, ConnectionInv, ConnectionTypeOK
      <4> QED BY <4>1, <4>2 DEF Waits, ConnectionInv, WaitersAreReachable
    <3> QED BY <3>1, <3>2
  <2>2. \A j \in Ids : \A c \in Callers : pending'[j] = c => j = asked'[c]
    BY NoOneIsNoCaller DEF Settle, ConnectionInv, ConnectionTypeOK, WaitersAreReachable
  <2>3. closed' => FALSE
    BY <1>1 DEF ConnectionInv, WaitersAreReachable
  <2> QED BY <2>1, <2>2, <2>3 DEF WaitersAreReachable
<1> QED BY <1>3, <1>4, <1>5 DEF ConnectionInv

LEMMA SendInv ==
    ASSUME ConnectionInv, NEW c \in Callers, SendAccepted(c)
    PROVE  ConnectionInv'
<1>1. nextId \in Ids /\ pending[nextId] = NoOne /\ nextId \in Nat
  BY CommandBound DEF SendAccepted, ConnectionInv, IdsAreFresh, Ids
<1>2. ConnectionTypeOK'
  BY <1>1, CommandBound DEF SendAccepted, ConnectionInv, ConnectionTypeOK, Ids
<1>3. IdsAreFresh'
  BY <1>1, CommandBound DEF SendAccepted, ConnectionInv, ConnectionTypeOK, IdsAreFresh, Ids
<1>4. WaitersAreReachable'
  <2>1. ASSUME NEW d \in Callers PROVE (call[d] = "waiting")' <=> Waits(d)'
    <3>1. CASE d = c
      <4>1. call'[d] = "waiting" /\ pending'[nextId] = d
        BY <1>1, <3>1 DEF SendAccepted, ConnectionInv, ConnectionTypeOK
      <4> QED BY <1>1, <4>1 DEF Waits
    <3>2. CASE d # c
      <4>1. call'[d] = call[d]
        BY <3>2 DEF SendAccepted, ConnectionInv, ConnectionTypeOK
      <4>2. \A j \in Ids : pending'[j] = d <=> pending[j] = d
        BY <1>1, <3>2, NoOneIsNoCaller DEF SendAccepted, ConnectionInv, ConnectionTypeOK
      <4> QED BY <4>1, <4>2 DEF Waits, ConnectionInv, WaitersAreReachable
    <3> QED BY <3>1, <3>2
  <2>2. ASSUME NEW j \in Ids, NEW d \in Callers, pending'[j] = d PROVE j = asked'[d]
    <3>1. \A i \in Ids : pending[i] # c
      BY DEF SendAccepted, ConnectionInv, WaitersAreReachable, Waits
    <3>2. CASE j = nextId
      BY <1>1, <2>2, <3>2 DEF SendAccepted, ConnectionInv, ConnectionTypeOK
    <3>3. CASE j # nextId
      BY <2>2, <3>1, <3>3 DEF SendAccepted, ConnectionInv, ConnectionTypeOK, WaitersAreReachable
    <3> QED BY <3>2, <3>3
  <2>3. ~closed'
    BY DEF SendAccepted
  <2> QED BY <2>1, <2>2, <2>3 DEF WaitersAreReachable
<1> QED BY <1>2, <1>3, <1>4 DEF ConnectionInv

LEMMA FailInv == ConnectionInv /\ Fail => ConnectionInv'
<1> SUFFICES ASSUME ConnectionInv, Fail PROVE ConnectionInv'
  OBVIOUS
<1>1. ConnectionTypeOK'
  BY DEF Fail, ConnectionInv, ConnectionTypeOK
<1>2. IdsAreFresh'
  BY DEF Fail, ConnectionInv, IdsAreFresh
<1>3. \A c \in Callers : call'[c] # "waiting" /\ ~Waits(c)'
  BY NoOneIsNoCaller DEF Fail, ConnectionInv, WaitersAreReachable, Waits
<1>4. WaitersAreReachable'
  BY <1>3 DEF WaitersAreReachable, Waits
<1> QED BY <1>1, <1>2, <1>4 DEF ConnectionInv

LEMMA StepInv == ConnectionInv /\ [ConnectionNext]_connectionVars => ConnectionInv'
<1> SUFFICES ASSUME ConnectionInv, [ConnectionNext]_connectionVars PROVE ConnectionInv'
  OBVIOUS
<1>1. ASSUME NEW c \in Callers, SendRefused(c) PROVE ConnectionInv'
  <2>1. ConnectionTypeOK'
    BY <1>1, CommandBound DEF SendRefused, ConnectionInv, ConnectionTypeOK
  <2>2. nextId > 0
    BY CommandBound DEF ConnectionInv, ConnectionTypeOK
  <2>3. IdsAreFresh'
    BY <1>1, <2>2 DEF SendRefused, ConnectionInv, ConnectionTypeOK, IdsAreFresh
  <2>4. WaitersAreReachable'
    BY <1>1 DEF SendRefused, ConnectionInv, ConnectionTypeOK, WaitersAreReachable, Waits
  <2> QED BY <2>1, <2>3, <2>4 DEF ConnectionInv
<1>2. ASSUME NEW c \in Callers, SendFails(c) PROVE ConnectionInv'
  <2>1. nextId \in 1..MaxCommands
    BY <1>2 DEF SendFails, Ids
  <2>2. ConnectionTypeOK'
    BY <1>2, <2>1, CommandBound DEF SendFails, ConnectionInv, ConnectionTypeOK
  <2>3. IdsAreFresh'
    BY <1>2, <2>1, CommandBound
       DEF SendFails, ConnectionInv, ConnectionTypeOK, IdsAreFresh, Ids
  <2>4. WaitersAreReachable'
    BY <1>2 DEF SendFails, ConnectionInv, ConnectionTypeOK, WaitersAreReachable, Waits
  <2> QED BY <2>2, <2>3, <2>4 DEF ConnectionInv
<1>3. ASSUME NEW c \in Callers, SendAccepted(c) PROVE ConnectionInv'
  BY <1>3, SendInv
<1>4. ASSUME NEW id \in Ids, Timeout(id) PROVE ConnectionInv'
  BY <1>4, SettleInv DEF Timeout, ConnectionInv, ConnectionTypeOK
<1>5. ASSUME NEW id \in Ids, NEW ok \in BOOLEAN, ChromeAnswers(id, ok) PROVE ConnectionInv'
  BY <1>5 DEF ChromeAnswers, connection, Reply, ConnectionInv, ConnectionTypeOK,
              WaitersAreReachable, Waits, IdsAreFresh
<1>6. ASSUME NEW reply \in replies, Receive(reply) PROVE ConnectionInv'
  <2>1. reply.id \in Ids /\ reply.ok \in BOOLEAN
    BY DEF ConnectionInv, ConnectionTypeOK
  <2>2. CASE pending[reply.id] = NoOne
    BY <1>6, <2>2 DEF Receive, ConnectionInv, ConnectionTypeOK, WaitersAreReachable,
                      Waits, IdsAreFresh
  <2>3. CASE pending[reply.id] # NoOne
    <3>1. atChrome' \subseteq Ids /\ replies' \subseteq [id : Ids, ok : BOOLEAN]
      BY <1>6 DEF Receive, ConnectionInv, ConnectionTypeOK
    <3>2. Settle(reply.id, reply.ok) /\ UNCHANGED <<nextId, closed, asked>>
      BY <1>6, <2>3 DEF Receive
    <3> QED BY <2>1, <2>3, <3>1, <3>2, SettleInv
  <2> QED BY <2>2, <2>3
<1>7. CASE Fail
  BY <1>7, FailInv
<1>8. CASE UNCHANGED connectionVars
  BY <1>8 DEF connectionVars, connection, ConnectionInv, ConnectionTypeOK,
              WaitersAreReachable, Waits, IdsAreFresh
<1> QED BY <1>1, <1>2, <1>3, <1>4, <1>5, <1>6, <1>7, <1>8 DEF ConnectionNext

THEOREM InvHolds == ConnectionSpec => []ConnectionInv
BY InitInv, StepInv, PTL DEF ConnectionSpec

-------------------------------------------------------------------------------

(* The state of a connection has its types (CdpConnection).                *)
THEOREM ConnectionTypeCorrect == ConnectionSpec => []ConnectionTypeOK
BY InvHolds, PTL DEF ConnectionInv

(* Nobody waits whom a reply, a timer or the end of the socket would not   *)
(* reach: an entry of #pending per waiting send, under its own id.         *)
THEOREM NobodyIsForgotten == ConnectionSpec => []WaitersAreReachable
BY InvHolds, PTL DEF ConnectionInv

(* A send resolves with the reply to its own command (#settle).            *)
THEOREM AnswersAreNotMixed == ConnectionSpec => AnswersAreOwn
<1> DEFINE Own == \A c \in Callers : call[c] = "waiting" /\ call'[c] = "resolved" =>
                     Reply(asked[c], TRUE) \in replies
<1>1. ConnectionInv /\ [ConnectionNext]_connectionVars => [Own]_connectionVars
  <2> SUFFICES ASSUME ConnectionInv, ConnectionNext,
                      NEW c \in Callers, call[c] = "waiting", call'[c] = "resolved"
               PROVE  Reply(asked[c], TRUE) \in replies
    OBVIOUS
  <2>1. ASSUME NEW d \in Callers, SendRefused(d) \/ SendAccepted(d) \/ SendFails(d)
        PROVE  FALSE
    BY <2>1 DEF SendRefused, SendAccepted, SendFails, ConnectionInv, ConnectionTypeOK
  <2>2. ASSUME NEW id \in Ids, Timeout(id) PROVE FALSE
    BY <2>2 DEF Timeout, Settle, Outcome, ConnectionInv, ConnectionTypeOK
  <2>3. ASSUME NEW id \in Ids, NEW ok \in BOOLEAN, ChromeAnswers(id, ok) PROVE FALSE
    BY <2>3 DEF ChromeAnswers, connection
  <2>4. CASE Fail
    BY <2>4 DEF Fail, ConnectionInv, ConnectionTypeOK
  <2>5. ASSUME NEW reply \in replies, Receive(reply) PROVE Reply(asked[c], TRUE) \in replies
    <3>1. reply \in [id : Ids, ok : BOOLEAN]
      BY DEF ConnectionInv, ConnectionTypeOK
    <3>2. pending[reply.id] = c /\ reply.ok = TRUE
      BY <2>5, <3>1 DEF Receive, Settle, Outcome, ConnectionInv, ConnectionTypeOK
    <3>3. asked[c] = reply.id
      BY <3>1, <3>2 DEF ConnectionInv, WaitersAreReachable
    <3>4. reply = Reply(asked[c], TRUE)
      BY <3>1, <3>2, <3>3 DEF Reply
    <3> QED BY <3>4
  <2> QED BY <2>1, <2>2, <2>3, <2>4, <2>5 DEF ConnectionNext
<1> QED BY <1>1, InvHolds, PTL DEF ConnectionSpec, AnswersAreOwn

-------------------------------------------------------------------------------

LEMMA PromiseInit == ConnectionInit => Promise!Init
BY DEF ConnectionInit, Promise!Init

LEMMA PromiseStep ==
    ConnectionInv /\ [ConnectionNext]_connectionVars => [Promise!Next]_Promise!vars
<1> SUFFICES ASSUME ConnectionInv, ConnectionNext PROVE [Promise!Next]_Promise!vars
  BY DEF connectionVars, connection, Promise!vars
<1> USE DEF ConnectionInv, ConnectionTypeOK
<1>1. ASSUME NEW c \in Callers, SendRefused(c) \/ SendFails(c) PROVE Promise!Refuse(c)
  BY <1>1 DEF SendRefused, SendFails, Promise!Refuse
<1>2. ASSUME NEW c \in Callers, SendAccepted(c) PROVE Promise!Ask(c)
  BY <1>2 DEF SendAccepted, Promise!Ask
<1>3. ASSUME NEW id \in Ids, NEW ok \in BOOLEAN, pending[id] # NoOne, Settle(id, ok),
             UNCHANGED closed
      PROVE  Promise!Answer(pending[id])
  <2>1. pending[id] \in Callers /\ call[pending[id]] = "waiting"
    BY <1>3 DEF WaitersAreReachable, Waits
  <2>2. call' = [call EXCEPT ![pending[id]] = Outcome(ok)]
    BY <1>3 DEF Settle
  <2>3. Outcome(ok) \in {"resolved", "rejected"}
    BY DEF Outcome
  <2> HIDE DEF ConnectionInv, ConnectionTypeOK
  <2> QED BY <1>3, <2>1, <2>2, <2>3 DEF Promise!Answer
<1>4. ASSUME NEW id \in Ids, Timeout(id) PROVE Promise!Next
  BY <1>3, <1>4 DEF Timeout, Promise!Next
<1>5. ASSUME NEW id \in Ids, NEW ok \in BOOLEAN, ChromeAnswers(id, ok)
      PROVE  UNCHANGED Promise!vars
  BY <1>5 DEF ChromeAnswers, connection, Promise!vars
<1>6. ASSUME NEW reply \in replies, Receive(reply) PROVE [Promise!Next]_Promise!vars
  <2>1. reply.id \in Ids /\ reply.ok \in BOOLEAN
    OBVIOUS
  <2>2. CASE pending[reply.id] = NoOne
    BY <1>6, <2>2 DEF Receive, Promise!vars
  <2>3. CASE pending[reply.id] # NoOne
    <3>1. Promise!Answer(pending[reply.id])
      BY <1>3, <1>6, <2>1, <2>3 DEF Receive
    <3> QED BY <2>1, <2>3, <3>1 DEF Promise!Next
  <2> QED BY <2>2, <2>3
<1>7. CASE Fail
  BY <1>7 DEF Fail, Promise!Die, Promise!Next, WaitersAreReachable
<1> QED BY <1>1, <1>2, <1>4, <1>5, <1>6, <1>7 DEF ConnectionNext, Promise!Next

(* The connection implements Commands: with ids, timers and late replies   *)
(* behind it, a command is answered once, and the end of the socket        *)
(* refuses all who wait, in one step.                                      *)
THEOREM PromiseIsKept == ConnectionSpec => KeepsPromise
<1>1. Promise!Spec <=> Promise!Init /\ [][Promise!Next]_Promise!vars
  BY DEF Promise!Spec
<1> QED BY <1>1, InvHolds, PromiseInit, PromiseStep, PTL DEF ConnectionSpec, KeepsPromise

-------------------------------------------------------------------------------
(* Its users keep to it. *)

(* What a step does to the connection: a step of its own, or none.         *)
OnConnection == [ConnectionNext]_connectionVars

LEMMA SendsOn ==
    ASSUME NEW c \in Callers, NEW method, NEW context, NEW await,
           Sends(c, method, context, await)
    PROVE  OnConnection
BY DEF Sends, OnConnection, ConnectionNext

LEMMA OpensOn ==
    ASSUME NEW c \in Callers, OpensSession(c)
    PROVE  OnConnection
BY SendsOn DEF OpensSession, OnConnection

LEMMA JoinsOn ==
    ASSUME NEW v \in Viewers, NEW fresh, JoinsOrOpens(v, fresh)
    PROVE  OnConnection
BY OpensOn, CallersAssumption DEF JoinsOrOpens, OnConnection

LEMMA StepOn == [Next]_vars => OnConnection
<1> SUFFICES ASSUME [Next]_vars PROVE OnConnection
  OBVIOUS
<1> USE CallersAssumption
<1>1. CASE Connected \/ ConnectFails
  BY <1>1 DEF Connected, ConnectFails, OnConnection
<1>2. CASE ReplyArrives
  BY <1>2 DEF ReplyArrives, OnConnection, ConnectionNext
<1>3. ASSUME NEW c \in Callers, CreatesContext(c) \/ ContextIsCreated(c) PROVE OnConnection
  BY <1>3, SendsOn DEF CreatesContext, ContextIsCreated
<1>4. ASSUME NEW c \in Callers, OpeningFails(c) PROVE OnConnection
  BY <1>4 DEF OpeningFails, OnConnection
<1>5. ASSUME NEW v \in Viewers, ProbeSucceeds(v) \/ PageIsOpen(v) PROVE OnConnection
  BY <1>5 DEF ProbeSucceeds, PageIsOpen, OnConnection
<1>6. ASSUME NEW v \in Viewers, ProbeFails(v) \/ AsksForPage(v) PROVE OnConnection
  BY <1>6, SendsOn, JoinsOn DEF ProbeFails, AsksForPage
<1>7. ASSUME NEW c \in Cases, CaseOpens(c) \/ CaseCloses(c) PROVE OnConnection
  BY <1>7, SendsOn, OpensOn DEF CaseOpens, CaseCloses
<1>8. ASSUME NEW c \in Cases, CaseIsOpen(c) \/ CaseIsClosed(c) PROVE OnConnection
  BY <1>8 DEF CaseIsOpen, CaseIsClosed, OnConnection
<1>9. ASSUME NEW id \in Ids, ChromeDoes(id) \/ ChromeRefuses(id) PROVE OnConnection
  BY <1>9 DEF ChromeDoes, ChromeRefuses, OnConnection, ConnectionNext
<1>10. CASE CommandTimesOut
  BY <1>10 DEF CommandTimesOut, OnConnection, ConnectionNext
<1>11. CASE ChromeRestarts
  BY <1>11 DEF ChromeRestarts, OnConnection, ConnectionNext
<1>12. CASE UNCHANGED vars
  BY <1>12 DEF vars, OnConnection
<1> QED
  BY <1>1, <1>2, <1>3, <1>4, <1>5, <1>6, <1>7, <1>8, <1>9, <1>10, <1>11, <1>12
     DEF Next, Progress, Viewing, OnCase

(* Polls, streams and cases, whatever they do and whenever Chrome          *)
(* restarts, are callers as CdpConnection has them.                        *)
THEOREM KeepsToConnection == Spec => ConnectionSpec
<1>1. Init => ConnectionInit
  BY DEF Init
<1> QED BY <1>1, StepOn, PTL DEF Spec, ConnectionSpec, OnConnection

(* No poll, stream or case waits for a command that nothing will end.      *)
THEOREM NoUserIsForgotten == Spec => []WaitersAreReachable
BY KeepsToConnection, NobodyIsForgotten, PTL

(* No poll, stream or case is given the answer to another's command.       *)
THEOREM NoAnswersMixed == Spec => AnswersAreOwn
BY KeepsToConnection, AnswersAreNotMixed, PTL

(* What the users see of the connection is what Commands promises.         *)
THEOREM UsersAreServed == Spec => KeepsPromise
BY KeepsToConnection, PromiseIsKept, PTL

-------------------------------------------------------------------------------
(* One socket at a time. *)

(* A handshake is begun from "none", and "none" comes back with a failure. *)
SocketInv ==
    /\ sockets \in Nat /\ faults \in Nat
    /\ IF link = "none" THEN sockets <= faults ELSE sockets <= faults + 1

LEMMA OpensSocket ==
    ASSUME SocketInv, NEW c, OpensSession(c), UNCHANGED faults
    PROVE  SocketInv'
<1>1. CASE link = "up"
  BY <1>1 DEF OpensSession, client, SocketInv
<1>2. CASE link # "up"
  <2>1. link' = "connecting" /\ sockets' = IF link = "none" THEN sockets + 1 ELSE sockets
    BY <1>2 DEF OpensSession
  <2> QED BY <1>2, <2>1 DEF SocketInv
<1> QED BY <1>1, <1>2

LEMMA JoinsSocket ==
    ASSUME SocketInv, NEW v, NEW fresh, JoinsOrOpens(v, fresh), UNCHANGED faults
    PROVE  SocketInv'
<1>1. CASE opening # NoOne
  BY <1>1 DEF JoinsOrOpens, client, SocketInv
<1>2. CASE opening = NoOne
  BY <1>2, OpensSocket DEF JoinsOrOpens
<1> QED BY <1>1, <1>2

LEMMA SocketStep == SocketInv /\ [Next]_vars => SocketInv'
<1> SUFFICES ASSUME SocketInv, [Next]_vars PROVE SocketInv'
  OBVIOUS
<1> DEFINE Same == UNCHANGED <<link, sockets, faults>>
<1>0. Same => SocketInv'
  BY DEF SocketInv
<1>1. CASE Connected
  BY <1>1 DEF Connected, env, SocketInv
<1>2. CASE ConnectFails
  BY <1>2 DEF ConnectFails, Fault, SocketInv
<1>3. ASSUME NEW c \in Callers, CreatesContext(c) \/ ContextIsCreated(c) \/ OpeningFails(c)
      PROVE  Same
  BY <1>3 DEF CreatesContext, ContextIsCreated, OpeningFails, client, env
<1>4. ASSUME NEW v \in Viewers, ProbeSucceeds(v) \/ PageIsOpen(v) PROVE Same
  BY <1>4 DEF ProbeSucceeds, PageIsOpen, client, env
<1>5. ASSUME NEW v \in Viewers, ProbeFails(v) PROVE SocketInv'
  BY <1>5, JoinsSocket DEF ProbeFails, env
<1>6. ASSUME NEW v \in Viewers, AsksForPage(v) PROVE SocketInv'
  <2>1. CASE view # NoSession
    BY <1>6, <2>1, <1>0 DEF AsksForPage, client, env
  <2>2. CASE view = NoSession
    BY <1>6, <2>2, JoinsSocket DEF AsksForPage, env
  <2> QED BY <2>1, <2>2
<1>7. ASSUME NEW c \in Cases, CaseOpens(c) PROVE SocketInv'
  BY <1>7, OpensSocket DEF CaseOpens, env
<1>8. ASSUME NEW c \in Cases, CaseCloses(c) \/ CaseIsOpen(c) \/ CaseIsClosed(c) PROVE Same
  BY <1>8 DEF CaseCloses, CaseIsOpen, CaseIsClosed, client, env
<1>9. ASSUME NEW id \in Ids, ChromeDoes(id) PROVE Same
  BY <1>9 DEF ChromeDoes, client
<1>10. CASE CommandTimesOut \/ \E id \in Ids : ChromeRefuses(id)
  <2>1. faults' = faults + 1 /\ UNCHANGED <<link, sockets>>
    BY <1>10 DEF CommandTimesOut, ChromeRefuses, Fault, client
  <2> QED BY <2>1 DEF SocketInv
<1>11. CASE ReplyArrives \/ ChromeRestarts \/ UNCHANGED vars
  BY <1>11, <1>0 DEF ReplyArrives, ChromeRestarts, vars, client, env
<1> QED
  BY <1>0, <1>1, <1>2, <1>3, <1>4, <1>5, <1>6, <1>7, <1>8, <1>9, <1>10, <1>11
     DEF Next, Progress, Viewing, OnCase

(* #connect shares the handshake that is going on: each socket after the   *)
(* first takes the place of one that could not be had.                     *)
THEOREM SocketsAreShared == Spec => []OneSocket
<1>1. Init => SocketInv
  BY DEF Init, SocketInv
<1>2. SocketInv => OneSocket
  BY DEF SocketInv, OneSocket
<1> QED BY <1>1, <1>2, SocketStep, PTL DEF Spec
-------------------------------------------------------------------------------
(* Calls and contexts while Chrome is not restarted: a viewer's call fails *)
(* only for a failure of its own time, and without failures every context  *)
(* has somebody who will close it.                                         *)

Methods == {"create", "attach", "probe", "dispose"}
MethodOf(await) == CASE await = "creating"  -> "create"
                     [] await = "attaching" -> "attach"
                     [] await = "probing"   -> "probe"
                     [] OTHER               -> "dispose"

Opens == {"connecting", "connected", "creating", "attaching"}
Holding == {"attaching", "driving", "disposing", "closed"}

(* Where a caller may stand.                                               *)
At == Sending \cup Opens \cup {"idle", "joining", "given", "failed", "driving", "closed"}

PlacesOK ==
    /\ pc \in [Callers -> At]
    /\ \A v \in Viewers : pc[v] \notin {"driving", "disposing", "closed"}
    /\ \A c \in Cases : pc[c] # "probing"

MessagesOK == message \in [Ids -> [method : Methods \cup {"none"}, context : 0..MaxCommands,
                                   from : Callers \cup {NoOne}]]

RestOK ==
    /\ view \in 0..MaxCommands
    /\ opening \in Viewers \cup {NoOne}
    /\ held \in [Callers -> 0..MaxCommands]
    /\ contexts \subseteq [id : Ids, of : Callers \cup {NoOne}]
    /\ clean \in [Viewers -> BOOLEAN]
    /\ faults \in Nat /\ restarts \in Nat

TypeOK == PlacesOK /\ MessagesOK /\ RestOK

(* Every id at Chrome, in a reply or of a context was given out, and an id *)
(* is in one of these places only; no two contexts share one.              *)
IdsAreApart ==
    /\ \A id \in atChrome : id < nextId
    /\ \A r \in replies : r.id < nextId /\ r.id \notin atChrome
    /\ \A x \in contexts : x.id < nextId /\ x.id \notin atChrome
    /\ \A x, y \in contexts : x.id = y.id => x = y

(* Chrome was sent what the caller awaits.                                 *)
CommandsAreOwn ==
    \A c \in Callers : pc[c] \in Sending /\ asked[c] \in atChrome =>
        LET m == message[asked[c]]
        IN  /\ m.from = c /\ m.method = MethodOf(pc[c])
            /\ pc[c] # "creating" => m.context = held[c]

(* Whoever attaches to a page or probes one has the context of it.         *)
PagesAreThere ==
    /\ \A c \in Callers : pc[c] = "attaching" =>
          \E x \in contexts : x.id = held[c] /\ x.of = c
    /\ \A v \in Viewers : pc[v] = "probing" =>
          \E x \in contexts : x.id = held[v] /\ x.of \in Viewers
    /\ view # NoSession => \E x \in contexts : x.id = view /\ x.of \in Viewers
    /\ \A c \in Callers :
          pc[c] = "creating" /\ (call[c] = "resolved" \/ Reply(asked[c], TRUE) \in replies) =>
             \E x \in contexts : x.id = asked[c] /\ x.of = c

(* What a case disposes of is its own.                                     *)
CasesHoldTheirs ==
    /\ \A c \in Callers : pc[c] \in Holding =>
          /\ held[c] < nextId /\ held[c] \notin atChrome
          /\ \A x \in contexts : x.id = held[c] => x.of = c
    /\ \A id \in atChrome : message[id].method = "dispose" =>
          \E c \in Cases : /\ c = message[id].from /\ pc[c] \in {"disposing", "closed"}
                           /\ message[id].context = held[c]

(* An opening or a probe is refused only if something failed meanwhile.    *)
RefusalsAreFailures ==
    \A c \in Callers :
        /\ pc[c] \in {"probing", "creating", "attaching"}
        /\ call[c] = "rejected" \/ Reply(asked[c], FALSE) \in replies
        => faults > 0 /\ (c \in Viewers => ~clean[c])

(* While nothing fails, whoever sent what is at Chrome still awaits it; a  *)
(* case whose dispose was answered has no context any more.                *)
NothingLate ==
    faults = 0 =>
        /\ \A id \in atChrome : \E c \in Callers :
              /\ c = message[id].from /\ pc[c] \in Sending
              /\ asked[c] = id /\ call[c] = "waiting"
        /\ \A c \in Cases : pc[c] = "disposing" /\ asked[c] \notin atChrome =>
              \A x \in contexts : x.id # held[c]

(* Viewers open a page one at a time, and who joined is as clean as that.  *)
OneOpens ==
    /\ \A v \in Viewers : pc[v] \in Opens => opening = v
    /\ opening # NoOne => pc[opening] \in Opens /\ view = NoSession
    /\ \A v \in Viewers : pc[v] = "joining" =>
          opening # NoOne /\ (clean[v] => clean[opening])

Wire == IdsAreApart /\ CommandsAreOwn /\ PagesAreThere /\ CasesHoldTheirs
        /\ RefusalsAreFailures /\ NothingLate

USE DEF PlacesOK, MessagesOK, RestOK, At

-------------------------------------------------------------------------------
(* What the steps have in common. *)

Calm == ConnectionInv /\ TypeOK /\ restarts = 0 /\ ~closed /\ Wire

(* How a caller may move on without a command.                             *)
Moves(c) ==
    \/ pc'[c] = pc[c] /\ (pc[c] \in Sending \cup Holding => held'[c] = held[c])
    \/ /\ pc[c] \in Sending => call[c] # "waiting"
       /\ \/ pc[c] = "attaching" /\ pc'[c] = "driving" /\ held'[c] = held[c]
          \/ pc[c] = "disposing" /\ pc'[c] = "closed" /\ held'[c] = held[c]
          \/ /\ pc[c] \notin {"driving", "disposing", "closed"}
             /\ pc'[c] \in {"connecting", "connected", "joining", "given", "failed"}

(* A step of the program that sends nothing.                               *)
LocalStep ==
    /\ UNCHANGED <<connectionVars, message, contexts>>
    /\ \A c \in Callers : Moves(c)
    /\ faults' \in Nat /\ faults' >= faults
    /\ \A v \in Viewers :
          pc'[v] \in {"probing", "creating", "attaching"} /\ clean'[v] => clean[v]
    /\ \/ view' \in {view, NoSession}
       \/ \E v \in Viewers : pc[v] = "attaching" /\ view' = held[v]

(* A step of the program in which c sends a command and awaits it.         *)
SendStep(c, context, await) ==
    /\ SendAccepted(c)
    /\ message' = [message EXCEPT ![nextId] =
                      [method |-> MethodOf(await), context |-> context, from |-> c]]
    /\ await \in Sending /\ pc' = [pc EXCEPT ![c] = await]
    /\ pc[c] \notin {"disposing", "closed"}
    /\ UNCHANGED <<contexts, faults>>
    /\ \A d \in Callers : d # c => held'[d] = held[d]
    /\ \A v \in Viewers : v # c /\ clean'[v] => clean[v]
    /\ view' \in {view, NoSession}
    /\ await # "creating" => context = held'[c]
    /\ await = "attaching" => \E x \in contexts : x.id = held'[c] /\ x.of = c
    /\ await = "probing" => c \in Viewers /\ \E x \in contexts : x.id = held'[c] /\ x.of \in Viewers
    /\ await = "disposing" => c \in Cases /\ pc[c] = "driving" /\ held'[c] = held[c]

-------------------------------------------------------------------------------
(* The wire, step by step. *)

LEMMA SameReply ==
    ASSUME NEW i, NEW j, NEW a, NEW b, Reply(i, a) = Reply(j, b)
    PROVE  i = j /\ a = b
<1>1. Reply(i, a).id = Reply(j, b).id /\ Reply(i, a).ok = Reply(j, b).ok
  OBVIOUS
<1>2. Reply(i, a).id = i /\ Reply(i, a).ok = a /\ Reply(j, b).id = j /\ Reply(j, b).ok = b
  BY Zenon DEF Reply
<1> QED BY <1>1, <1>2, Zenon

LEMMA ReplyId == \A i, a : Reply(i, a).id = i
BY DEF Reply

LEMMA LocalKeepsWire ==
    ASSUME Calm, LocalStep
    PROVE  Wire'
<1>1. /\ nextId' = nextId /\ atChrome' = atChrome /\ replies' = replies
      /\ contexts' = contexts /\ message' = message /\ asked' = asked /\ call' = call
  BY DEF LocalStep, connectionVars, connection
<1>2. faults' \in Nat /\ faults \in Nat /\ faults' >= faults
  BY DEF LocalStep, Calm, TypeOK
<1>3. \A c \in Callers : Moves(c)
  BY DEF LocalStep
<1>4. \A c \in Callers :
         /\ pc'[c] \in Sending => pc'[c] = pc[c] /\ held'[c] = held[c]
         /\ pc'[c] \in Holding => pc[c] \in Holding /\ held'[c] = held[c]
         /\ pc[c] \in {"disposing", "closed"} => pc'[c] \in {"disposing", "closed"} /\ held'[c] = held[c]
         /\ pc[c] \in Sending /\ call[c] = "waiting" => pc'[c] = pc[c]
  BY <1>3 DEF Moves, Sending, Holding
<1>5. IdsAreApart'
  BY <1>1 DEF Calm, Wire, IdsAreApart
<1>6. CommandsAreOwn'
  BY <1>1, <1>4 DEF Calm, Wire, CommandsAreOwn
<1>7. PagesAreThere'
  <2>1. \A c \in Callers : pc'[c] = "attaching" =>
          \E x \in contexts : x.id = held'[c] /\ x.of = c
    BY <1>4 DEF Calm, Wire, PagesAreThere, Sending
  <2>2. \A v \in Viewers : pc'[v] = "probing" =>
          \E x \in contexts : x.id = held'[v] /\ x.of \in Viewers
    BY <1>4, CallersAssumption DEF Calm, Wire, PagesAreThere, Sending
  <2>3. view' # NoSession => \E x \in contexts : x.id = view' /\ x.of \in Viewers
    BY CallersAssumption DEF LocalStep, Calm, Wire, PagesAreThere
  <2>4. \A c \in Callers :
          pc'[c] = "creating" /\ (call[c] = "resolved" \/ Reply(asked[c], TRUE) \in replies) =>
             \E x \in contexts : x.id = asked[c] /\ x.of = c
    BY <1>4 DEF Calm, Wire, PagesAreThere, Sending
  <2> QED BY <1>1, <2>1, <2>2, <2>3, <2>4 DEF PagesAreThere
<1>8. CasesHoldTheirs'
  <2>1. \A c \in Callers : pc'[c] \in Holding =>
          /\ held'[c] < nextId /\ held'[c] \notin atChrome
          /\ \A x \in contexts : x.id = held'[c] => x.of = c
    BY <1>4 DEF Calm, Wire, CasesHoldTheirs
  <2>2. \A id \in atChrome : message[id].method = "dispose" =>
          \E c \in Cases : /\ c = message[id].from /\ pc'[c] \in {"disposing", "closed"}
                           /\ message[id].context = held'[c]
    BY <1>4, CallersAssumption DEF Calm, Wire, CasesHoldTheirs
  <2> QED BY <1>1, <2>1, <2>2 DEF CasesHoldTheirs
<1>9. RefusalsAreFailures'
  <2> SUFFICES ASSUME NEW c \in Callers, pc'[c] \in {"probing", "creating", "attaching"},
                      call[c] = "rejected" \/ Reply(asked[c], FALSE) \in replies
               PROVE  faults' > 0 /\ (c \in Viewers => ~clean'[c])
    BY <1>1 DEF RefusalsAreFailures
  <2>1. pc[c] \in {"probing", "creating", "attaching"}
    BY <1>4 DEF Sending
  <2>2. faults > 0 /\ (c \in Viewers => ~clean[c])
    BY <2>1 DEF Calm, Wire, RefusalsAreFailures
  <2> QED BY <1>2, <2>2 DEF LocalStep
<1>10. NothingLate'
  <2> SUFFICES ASSUME faults = 0
               PROVE  /\ \A id \in atChrome : \E c \in Callers :
                            /\ c = message[id].from /\ pc'[c] \in Sending
                            /\ asked[c] = id /\ call[c] = "waiting"
                      /\ \A c \in Cases : pc'[c] = "disposing" /\ asked[c] \notin atChrome =>
                            \A x \in contexts : x.id # held'[c]
    BY <1>1, <1>2 DEF NothingLate
  <2> QED BY <1>4, CallersAssumption DEF Calm, Wire, NothingLate, Sending
<1> QED BY <1>5, <1>6, <1>7, <1>8, <1>9, <1>10 DEF Wire

LEMMA SendKeepsWire ==
    ASSUME Calm, NEW c \in Callers, NEW context, NEW await, SendStep(c, context, await)
    PROVE  Wire'
<1> DEFINE new == [method |-> MethodOf(await), context |-> context, from |-> c]
<1>1. /\ nextId \in Ids /\ nextId \in Nat /\ nextId' = nextId + 1
      /\ atChrome' = atChrome \cup {nextId} /\ replies' = replies /\ contexts' = contexts
      /\ call[c] # "waiting" /\ await \in Sending
      /\ faults' = faults
  BY CommandBound DEF SendStep, SendAccepted, Ids
<1>2. /\ asked'[c] = nextId /\ call'[c] = "waiting" /\ pc'[c] = await
      /\ \A d \in Callers : d # c => /\ asked'[d] = asked[d] /\ call'[d] = call[d]
                                     /\ pc'[d] = pc[d] /\ held'[d] = held[d]
  BY DEF SendStep, SendAccepted, Calm, ConnectionInv, ConnectionTypeOK, TypeOK
<1>3. /\ message'[nextId] = new
      /\ \A id \in atChrome : id \in Ids /\ id # nextId /\ message'[id] = message[id]
  <2>1. \A id \in atChrome : id \in Ids /\ id # nextId
    BY <1>1 DEF Calm, Wire, IdsAreApart, ConnectionInv, ConnectionTypeOK, Ids
  <2> HIDE DEF new
  <2>2. message' = [message EXCEPT ![nextId] = new]
    BY DEF SendStep, new
  <2> QED BY <1>1, <2>1, <2>2 DEF Calm, TypeOK
<1>4. new.method = MethodOf(await) /\ new.context = context /\ new.from = c
  OBVIOUS
<1>5. \A r \in replies : r.id # nextId
  BY <1>1 DEF Calm, Wire, IdsAreApart, ConnectionInv, ConnectionTypeOK, Ids
<1>6. \A x \in contexts : x.id # nextId /\ x.id \in Nat
  BY <1>1 DEF Calm, Wire, IdsAreApart, TypeOK, Ids
<1>7. \A d \in Callers : asked[d] # nextId /\ asked[d] \in Nat
  BY <1>1 DEF Calm, ConnectionInv, ConnectionTypeOK, IdsAreFresh
<1> HIDE DEF new
<1>8. IdsAreApart'
  <2>1. \A id \in atChrome : id \in Nat
    BY DEF Calm, ConnectionInv, ConnectionTypeOK, Ids
  <2>2. \A r \in replies : r.id \in Nat
    BY DEF Calm, ConnectionInv, ConnectionTypeOK, Ids
  <2> QED BY <1>1, <1>5, <1>6, <2>1, <2>2 DEF Calm, Wire, IdsAreApart
<1>9. CommandsAreOwn'
  <2> SUFFICES ASSUME NEW d \in Callers, pc'[d] \in Sending, asked'[d] \in atChrome'
               PROVE  /\ message'[asked'[d]].from = d
                      /\ message'[asked'[d]].method = MethodOf(pc'[d])
                      /\ pc'[d] # "creating" => message'[asked'[d]].context = held'[d]
    BY DEF CommandsAreOwn
  <2>1. CASE d = c
    BY <1>2, <1>3, <1>4, <2>1 DEF SendStep
  <2>2. CASE d # c
    <3>1. asked[d] \in atChrome /\ pc[d] \in Sending
      BY <1>1, <1>2, <1>7, <2>2
    <3> QED BY <1>2, <1>3, <2>2, <3>1 DEF Calm, Wire, CommandsAreOwn
  <2> QED BY <2>1, <2>2
<1>10. PagesAreThere'
  <2>1. ASSUME NEW d \in Callers, pc'[d] = "attaching"
        PROVE  \E x \in contexts : x.id = held'[d] /\ x.of = d
    BY <1>2, <2>1 DEF SendStep, Calm, Wire, PagesAreThere
  <2>2. ASSUME NEW v \in Viewers, pc'[v] = "probing"
        PROVE  \E x \in contexts : x.id = held'[v] /\ x.of \in Viewers
    BY <1>2, <2>2, CallersAssumption DEF SendStep, Calm, Wire, PagesAreThere
  <2>3. view' # NoSession => \E x \in contexts : x.id = view' /\ x.of \in Viewers
    BY DEF SendStep, Calm, Wire, PagesAreThere
  <2>4. ASSUME NEW d \in Callers, pc'[d] = "creating",
               call'[d] = "resolved" \/ Reply(asked'[d], TRUE) \in replies
        PROVE  \E x \in contexts : x.id = asked'[d] /\ x.of = d
    <3>1. CASE d = c
      <4>1. Reply(nextId, TRUE) \in replies
        BY <1>2, <2>4, <3>1
      <4> QED BY <1>5, <4>1, ReplyId
    <3>2. CASE d # c
      <4>1. asked'[d] = asked[d] /\ call'[d] = call[d] /\ pc[d] = "creating"
        BY <1>2, <2>4, <3>2
      <4>2. call[d] = "resolved" \/ Reply(asked[d], TRUE) \in replies
        BY <2>4, <4>1, Zenon
      <4>3. pc[d] = "creating" /\ (call[d] = "resolved" \/ Reply(asked[d], TRUE) \in replies) =>
               \E x \in contexts : x.id = asked[d] /\ x.of = d
        BY DEF Calm, Wire, PagesAreThere
      <4> QED BY <4>1, <4>2, <4>3, Zenon
    <3> QED BY <3>1, <3>2
  <2> QED BY <1>1, <2>1, <2>2, <2>3, <2>4 DEF PagesAreThere
<1>11. CasesHoldTheirs'
  <2>1. ASSUME NEW d \in Callers, pc'[d] \in Holding
        PROVE  /\ held'[d] < nextId /\ held'[d] \notin atChrome
               /\ \A x \in contexts : x.id = held'[d] => x.of = d
    <3>1. CASE d # c
      BY <1>2, <2>1, <3>1 DEF Calm, Wire, CasesHoldTheirs
    <3>2. CASE d = c /\ await = "attaching"
      <4>1. PICK x \in contexts : x.id = held'[c] /\ x.of = c
        BY <3>2 DEF SendStep
      <4> QED BY <3>2, <4>1 DEF Calm, Wire, IdsAreApart
    <3>3. CASE d = c /\ await = "disposing"
      BY <3>3 DEF SendStep, Holding, Calm, Wire, CasesHoldTheirs
    <3> QED BY <1>1, <1>2, <2>1, <3>1, <3>2, <3>3 DEF Holding, Sending
  <2>2. \A d \in Callers : pc'[d] \in Holding /\ held'[d] < nextId =>
           held'[d] < nextId' /\ held'[d] # nextId
    <3>1. \A n \in Nat : n < nextId => n < nextId' /\ n # nextId
      BY <1>1
    <3>2. \A d \in Callers : pc'[d] \in Holding => held'[d] \in Nat
      <4>1. \A d \in Callers : d # c => held'[d] \in Nat
        BY <1>2 DEF Calm, TypeOK
      <4>2. await = "attaching" => held'[c] \in Nat
        BY <1>6 DEF SendStep
      <4>3. await = "disposing" => held'[c] \in Nat
        BY DEF SendStep, Calm, TypeOK
      <4> QED BY <1>1, <1>2, <4>1, <4>2, <4>3 DEF Holding, Sending
    <3> QED BY <3>1, <3>2
  <2>3. ASSUME NEW id \in atChrome', message'[id].method = "dispose"
        PROVE  \E d \in Cases : /\ d = message'[id].from /\ pc'[d] \in {"disposing", "closed"}
                                /\ message'[id].context = held'[d]
    <3>1. CASE id = nextId
      <4>1. await = "disposing"
        BY <1>1, <1>3, <1>4, <2>3, <3>1 DEF MethodOf, Sending
      <4> QED BY <1>2, <1>3, <1>4, <3>1, <4>1 DEF SendStep
    <3>2. CASE id # nextId
      <4>1. id \in atChrome /\ message'[id] = message[id]
        BY <1>1, <1>3, <3>2
      <4>2. PICK d \in Cases : /\ d = message[id].from /\ pc[d] \in {"disposing", "closed"}
                               /\ message[id].context = held[d]
        BY <2>3, <4>1 DEF Calm, Wire, CasesHoldTheirs
      <4>3. d # c /\ d \in Callers
        BY <4>2, CallersAssumption DEF SendStep
      <4> QED BY <1>2, <4>1, <4>2, <4>3
    <3> QED BY <3>1, <3>2
  <2>4. ASSUME NEW d \in Callers, pc'[d] \in Holding
        PROVE  /\ held'[d] < nextId' /\ held'[d] \notin atChrome'
               /\ \A x \in contexts' : x.id = held'[d] => x.of = d
    BY <1>1, <2>1, <2>2, <2>4
  <2> QED BY <2>3, <2>4, Zenon DEF CasesHoldTheirs
<1>12. RefusalsAreFailures'
  <2> SUFFICES ASSUME NEW d \in Callers, pc'[d] \in {"probing", "creating", "attaching"},
                      call'[d] = "rejected" \/ Reply(asked'[d], FALSE) \in replies
               PROVE  faults > 0 /\ (d \in Viewers => ~clean'[d])
    BY <1>1 DEF RefusalsAreFailures
  <2>1. d # c
    <3> SUFFICES ASSUME d = c PROVE FALSE
      OBVIOUS
    <3>1. Reply(nextId, FALSE) \in replies
      BY <1>2
    <3> QED BY <1>5, <3>1, ReplyId
  <2>2. faults > 0 /\ (d \in Viewers => ~clean[d])
    BY <1>2, <2>1 DEF Calm, Wire, RefusalsAreFailures
  <2> QED BY <2>1, <2>2 DEF SendStep
<1>13. NothingLate'
  <2> SUFFICES ASSUME faults = 0
               PROVE  /\ \A id \in atChrome' : \E d \in Callers :
                            /\ d = message'[id].from /\ pc'[d] \in Sending
                            /\ asked'[d] = id /\ call'[d] = "waiting"
                      /\ \A d \in Cases : pc'[d] = "disposing" /\ asked'[d] \notin atChrome' =>
                            \A x \in contexts : x.id # held'[d]
    BY <1>1 DEF NothingLate
  <2>1. ASSUME NEW id \in atChrome
        PROVE  \E d \in Callers : /\ d = message'[id].from /\ pc'[d] \in Sending
                                  /\ asked'[d] = id /\ call'[d] = "waiting"
    <3>1. PICK d \in Callers : /\ d = message[id].from /\ pc[d] \in Sending
                               /\ asked[d] = id /\ call[d] = "waiting"
      BY DEF Calm, Wire, NothingLate
    <3>2. d # c
      BY <1>1, <3>1
    <3> QED BY <1>2, <1>3, <3>1, <3>2
  <2>2. \E d \in Callers : /\ d = message'[nextId].from /\ pc'[d] \in Sending
                           /\ asked'[d] = nextId /\ call'[d] = "waiting"
    BY <1>1, <1>2, <1>3, <1>4
  <2>3. ASSUME NEW d \in Cases, pc'[d] = "disposing", asked'[d] \notin atChrome'
        PROVE  \A x \in contexts : x.id # held'[d]
    <3>1. d # c /\ d \in Callers
      BY <1>1, <1>2, <2>3, CallersAssumption
    <3> QED BY <1>1, <1>2, <2>3, <3>1 DEF Calm, Wire, NothingLate
  <2> QED BY <1>1, <2>1, <2>2, <2>3
<1> QED BY <1>8, <1>9, <1>10, <1>11, <1>12, <1>13 DEF Wire

(* Chrome does one command: what it answers, and what it does to contexts. *)
LEMMA WhatChromeDoes ==
    ASSUME Calm, NEW id \in Ids, ChromeDoes(id)
    PROVE  LET m == message[id]
               ok == m.method = "create" \/ \E x \in contexts : x.id = m.context
           IN  /\ id \in atChrome /\ atChrome' = atChrome \ {id}
               /\ ok \in BOOLEAN /\ replies' = replies \cup {Reply(id, ok)}
               /\ m.method = "create" => contexts' = contexts \cup {Context(id, m.from)}
               /\ m.method = "dispose" => contexts' = {x \in contexts : x.id # m.context}
               /\ m.method \notin {"create", "dispose"} => contexts' = contexts
               /\ message' = [message EXCEPT ![id] = Nothing]
               /\ UNCHANGED <<nextId, pending, closed, call, asked, view, opening, pc, held,
                              clean, faults, restarts>>
<1> DEFINE m == message[id]
           named == {x \in contexts : x.id = m.context}
           ok == m.method = "create" \/ \E x \in contexts : x.id = m.context
<1>1. (m.method = "create" \/ named # {}) = ok
  OBVIOUS
<1>2. contexts' = CASE m.method = "create"  -> contexts \cup {Context(id, m.from)}
                    [] m.method = "dispose" -> contexts \ named
                    [] OTHER                -> contexts
  BY DEF ChromeDoes
<1>3. contexts \ named = {x \in contexts : x.id # m.context}
  OBVIOUS
<1>4. /\ m.method = "create" => contexts' = contexts \cup {Context(id, m.from)}
      /\ m.method = "dispose" => contexts' = contexts \ named
      /\ m.method \notin {"create", "dispose"} => contexts' = contexts
  <2> HIDE DEF m, named
  <2> QED BY <1>2
<1>5. /\ id \in atChrome /\ atChrome' = atChrome \ {id}
      /\ replies' = replies \cup {Reply(id, m.method = "create" \/ named # {})}
      /\ message' = [message EXCEPT ![id] = Nothing]
      /\ UNCHANGED <<nextId, pending, closed, call, asked, view, opening, pc, held,
                     clean, faults, restarts>>
  BY DEF ChromeDoes, ChromeAnswers, connection, source, hands
<1>6. replies' = replies \cup {Reply(id, ok)}
  <2>1. Reply(id, m.method = "create" \/ named # {}) = Reply(id, ok)
    <3> HIDE DEF m, named, ok
    <3> QED BY <1>1, Zenon
  <2> QED BY <1>5, <2>1
<1> QED BY <1>3, <1>4, <1>5, <1>6

LEMMA AnswersAreApart ==
    ASSUME Calm, NEW id \in atChrome, NEW ok, atChrome' = atChrome \ {id},
           replies' = replies \cup {Reply(id, ok)}, nextId' = nextId
    PROVE  /\ \A i \in atChrome' : i < nextId'
           /\ \A r \in replies' : r.id < nextId' /\ r.id \notin atChrome'
BY ReplyId DEF Calm, Wire, IdsAreApart

LEMMA ChromeKeepsWire ==
    ASSUME Calm, NEW id \in Ids, ChromeDoes(id)
    PROVE  Wire'
<1> DEFINE m == message[id]
           ok == m.method = "create" \/ \E x \in contexts : x.id = m.context
<1>1. /\ id \in atChrome /\ atChrome' = atChrome \ {id}
      /\ ok \in BOOLEAN /\ replies' = replies \cup {Reply(id, ok)}
      /\ m.method = "create" => contexts' = contexts \cup {Context(id, m.from)}
      /\ m.method = "dispose" => contexts' = {x \in contexts : x.id # m.context}
      /\ m.method \notin {"create", "dispose"} => contexts' = contexts
      /\ message' = [message EXCEPT ![id] = Nothing]
      /\ UNCHANGED <<nextId, pending, closed, call, asked, view, opening, pc, held,
                     clean, faults, restarts>>
  BY WhatChromeDoes
<1>2. \A i \in atChrome' : i \in atChrome /\ i # id /\ message'[i] = message[i]
  BY <1>1 DEF Calm, TypeOK
<1>3. Context(id, m.from).id = id /\ Context(id, m.from).of = m.from
  BY DEF Context
<1>4. id < nextId /\ \A x \in contexts : x.id # id /\ x.id \notin atChrome'
  BY <1>1 DEF Calm, Wire, IdsAreApart
<1>5. \A x \in contexts' : x \in contexts \/ (m.method = "create" /\ x.id = id /\ x.of = m.from)
  BY <1>1, <1>3
<1>6. m.method = "dispose" => \E c \in Cases : /\ c = m.from /\ pc[c] \in {"disposing", "closed"}
                                               /\ m.context = held[c]
  BY <1>1 DEF Calm, Wire, CasesHoldTheirs
<1>7. \A x \in contexts : x \in contexts' \/ (m.method = "dispose" /\ x.id = m.context)
  BY <1>1
(* Only the disposing case loses a context.                                *)
<1>8. ASSUME NEW x \in contexts, x \notin contexts'
      PROVE  x.of \in Cases /\ pc[x.of] \in {"disposing", "closed"} /\ x.id = held[x.of]
  <2>1. PICK c \in Cases : pc[c] \in {"disposing", "closed"} /\ x.id = held[c]
    BY <1>6, <1>7, <1>8
  <2>2. x.of = c
    BY <2>1, CallersAssumption DEF Calm, Wire, CasesHoldTheirs, Holding
  <2> QED BY <2>1, <2>2
<1>9. \A c \in Callers : asked[c] = id /\ pc[c] \in Sending =>
         m.from = c /\ m.method = MethodOf(pc[c]) /\ (pc[c] # "creating" => m.context = held[c])
  BY <1>1 DEF Calm, Wire, CommandsAreOwn
<1>10. \A i, a : Reply(i, a) \in replies' => Reply(i, a) \in replies \/ (i = id /\ a = ok)
  <2> HIDE DEF ok
  <2> QED BY <1>1, SameReply
<1>11. MethodOf("creating") = "create" /\ MethodOf("attaching") = "attach"
       /\ MethodOf("probing") = "probe" /\ MethodOf("disposing") = "dispose"
  BY DEF MethodOf
<1> HIDE DEF m, ok
<1>12. IdsAreApart'
  <2>1. /\ \A i \in atChrome' : i < nextId'
        /\ \A r \in replies' : r.id < nextId' /\ r.id \notin atChrome'
    BY <1>1, AnswersAreApart
  <2>2. \A x \in contexts' : x.id < nextId' /\ x.id \notin atChrome'
    BY <1>1, <1>4, <1>5 DEF Calm, Wire, IdsAreApart
  <2>3. \A x, y \in contexts' : x.id = y.id => x = y
    <3>1. \A x, y \in contexts : x.id = y.id => x = y
      BY DEF Calm, Wire, IdsAreApart
    <3>2. CASE m.method = "create"
      BY <1>1, <1>3, <1>4, <3>1, <3>2
    <3>3. CASE m.method # "create"
      BY <1>5, <3>1, <3>3
    <3> QED BY <3>2, <3>3
  <2> QED BY <2>1, <2>2, <2>3 DEF IdsAreApart
<1>13. CommandsAreOwn'
  BY <1>1, <1>2 DEF Calm, Wire, CommandsAreOwn
<1>14. PagesAreThere'
  <2>1. ASSUME NEW c \in Callers, pc[c] = "attaching"
        PROVE  \E x \in contexts' : x.id = held[c] /\ x.of = c
    <3>1. PICK x \in contexts : x.id = held[c] /\ x.of = c
      BY <2>1 DEF Calm, Wire, PagesAreThere
    <3>2. x \in contexts'
      BY <1>8, <2>1, <3>1
    <3> QED BY <3>1, <3>2
  <2>2. \A x \in contexts : x.of \in Viewers => x \in contexts'
    BY <1>8, CallersAssumption
  <2>3. ASSUME NEW c \in Callers, pc[c] = "creating",
               call[c] = "resolved" \/ Reply(asked[c], TRUE) \in replies'
        PROVE  \E x \in contexts' : x.id = asked[c] /\ x.of = c
    <3>1. CASE call[c] = "resolved" \/ Reply(asked[c], TRUE) \in replies
      <4>1. PICK x \in contexts : x.id = asked[c] /\ x.of = c
        BY <2>3, <3>1 DEF Calm, Wire, PagesAreThere
      <4>2. x \in contexts'
        BY <1>8, <2>3, <4>1
      <4> QED BY <4>1, <4>2
    <3>2. CASE asked[c] = id
      <4>1. m.from = c /\ m.method = "create"
        BY <1>9, <1>11, <2>3, <3>2 DEF Sending
      <4>2. Context(id, m.from) \in contexts'
        BY <1>1, <4>1
      <4> QED BY <1>3, <3>2, <4>1, <4>2
    <3> QED BY <1>10, <2>3, <3>1, <3>2
  <2>4. \A v \in Viewers : pc[v] = "probing" => \E x \in contexts' : x.id = held[v] /\ x.of \in Viewers
    BY <2>2 DEF Calm, Wire, PagesAreThere
  <2>5. view # NoSession => \E x \in contexts' : x.id = view /\ x.of \in Viewers
    BY <2>2 DEF Calm, Wire, PagesAreThere
  <2> QED BY <1>1, <2>1, <2>3, <2>4, <2>5 DEF PagesAreThere
<1>15. CasesHoldTheirs'
  <2>1. ASSUME NEW c \in Callers, pc[c] \in Holding
        PROVE  /\ held[c] < nextId /\ held[c] \notin atChrome'
               /\ \A x \in contexts' : x.id = held[c] => x.of = c
    BY <1>1, <1>5, <2>1 DEF Calm, Wire, CasesHoldTheirs
  <2>2. \A i \in atChrome' : message'[i].method = "dispose" =>
          \E c \in Cases : /\ c = message'[i].from /\ pc[c] \in {"disposing", "closed"}
                           /\ message'[i].context = held[c]
    BY <1>2 DEF Calm, Wire, CasesHoldTheirs
  <2> QED BY <1>1, <2>1, <2>2 DEF CasesHoldTheirs
<1>16. RefusalsAreFailures'
  <2> SUFFICES ASSUME NEW c \in Callers, pc[c] \in {"probing", "creating", "attaching"},
                      call[c] = "rejected" \/ Reply(asked[c], FALSE) \in replies'
               PROVE  faults > 0 /\ (c \in Viewers => ~clean[c])
    BY <1>1 DEF RefusalsAreFailures
  <2>1. ~(asked[c] = id /\ ~ok)
    <3> SUFFICES ASSUME asked[c] = id PROVE ok
      OBVIOUS
    <3>1. m.method = MethodOf(pc[c]) /\ (pc[c] # "creating" => m.context = held[c])
      BY <1>9 DEF Sending
    <3>2. CASE pc[c] = "creating"
      BY <1>11, <3>1, <3>2 DEF ok
    <3>3. CASE pc[c] \in {"attaching", "probing"}
      <4>1. c \in Viewers \/ pc[c] # "probing"
        BY CallersAssumption DEF Calm, TypeOK
      <4>2. \E x \in contexts : x.id = held[c]
        BY <3>3, <4>1 DEF Calm, Wire, PagesAreThere
      <4> QED BY <3>1, <3>3, <4>2 DEF ok
    <3> QED BY <3>2, <3>3
  <2>2. call[c] = "rejected" \/ Reply(asked[c], FALSE) \in replies
    BY <1>10, <2>1
  <2> QED BY <2>2 DEF Calm, Wire, RefusalsAreFailures
<1>17. NothingLate'
  <2> SUFFICES ASSUME faults = 0
               PROVE  /\ \A i \in atChrome' : \E c \in Callers :
                            /\ c = message'[i].from /\ pc[c] \in Sending
                            /\ asked[c] = i /\ call[c] = "waiting"
                      /\ \A c \in Cases : pc[c] = "disposing" /\ asked[c] \notin atChrome' =>
                            \A x \in contexts' : x.id # held[c]
    BY <1>1 DEF NothingLate
  <2>1. \A i \in atChrome' : \E c \in Callers : /\ c = message'[i].from /\ pc[c] \in Sending
                                                /\ asked[c] = i /\ call[c] = "waiting"
    BY <1>2 DEF Calm, Wire, NothingLate
  <2>2. ASSUME NEW c \in Cases, pc[c] = "disposing", asked[c] \notin atChrome', NEW x \in contexts'
        PROVE  x.id # held[c]
    <3>0. c \in Callers
      BY CallersAssumption
    <3>1. CASE asked[c] = id
      <4>1. m.method = "dispose" /\ m.context = held[c]
        BY <1>9, <1>11, <2>2, <3>0, <3>1 DEF Sending
      <4> QED BY <1>1, <4>1
    <3>2. CASE asked[c] # id
      <4>1. asked[c] \notin atChrome
        BY <1>1, <2>2, <3>2
      <4>2. \A y \in contexts : y.id # held[c]
        BY <2>2, <4>1 DEF Calm, Wire, NothingLate
      <4>3. held[c] # id
        BY <1>1, <2>2, <3>0 DEF Calm, Wire, CasesHoldTheirs, Holding
      <4> QED BY <1>5, <4>2, <4>3
    <3> QED BY <3>1, <3>2
  <2> QED BY <2>1, <2>2
<1> QED BY <1>12, <1>13, <1>14, <1>15, <1>16, <1>17 DEF Wire

(* A failure excuses whatever is refused, and what comes late.             *)
LEMMA FaultExcuses ==
    ASSUME Calm, Fault
    PROVE  /\ faults' \in Nat /\ faults' > 0 /\ \A v \in Viewers : ~clean'[v]
           /\ RefusalsAreFailures' /\ NothingLate'
<1>1. faults' \in Nat /\ faults' > 0
  BY DEF Fault, Calm, TypeOK
<1>2. \A v \in Viewers : clean'[v] = FALSE
  BY DEF Fault
<1>3. RefusalsAreFailures'
  BY <1>1, <1>2 DEF RefusalsAreFailures
<1>4. NothingLate'
  BY <1>1 DEF NothingLate
<1> QED BY <1>1, <1>2, <1>3, <1>4

LEMMA RefusalKeepsWire ==
    ASSUME Calm, NEW id \in Ids, ChromeRefuses(id)
    PROVE  Wire'
<1>1. /\ id \in atChrome /\ atChrome' = atChrome \ {id} /\ replies' = replies \cup {Reply(id, FALSE)}
      /\ message' = [message EXCEPT ![id] = Nothing]
      /\ UNCHANGED <<nextId, pending, closed, call, asked, view, opening, pc, held, contexts>>
  BY DEF ChromeRefuses, ChromeAnswers, connection, source
<1>2. \A i \in atChrome' : i \in atChrome /\ i # id /\ message'[i] = message[i]
  BY <1>1 DEF Calm, TypeOK
<1>3. \A i : Reply(i, TRUE) \in replies' => Reply(i, TRUE) \in replies
  BY <1>1, SameReply
<1>4. IdsAreApart'
  BY <1>1, AnswersAreApart DEF Calm, Wire, IdsAreApart
<1>5. CommandsAreOwn'
  BY <1>1, <1>2 DEF Calm, Wire, CommandsAreOwn
<1>6. PagesAreThere'
  BY <1>1, <1>3 DEF Calm, Wire, PagesAreThere
<1>7. CasesHoldTheirs'
  BY <1>1, <1>2 DEF Calm, Wire, CasesHoldTheirs
<1>8. RefusalsAreFailures' /\ NothingLate'
  BY FaultExcuses DEF ChromeRefuses
<1> QED BY <1>4, <1>5, <1>6, <1>7, <1>8 DEF Wire

(* A reply reaches the caller that asked under its id, or nobody.          *)
LEMMA WhatArrives ==
    ASSUME Calm, NEW reply \in replies, Receive(reply)
    PROVE  /\ UNCHANGED <<nextId, closed, asked, atChrome>> /\ replies' \subseteq replies
           /\ \A c \in Callers :
                 \/ call'[c] = call[c]
                 \/ /\ asked[c] = reply.id
                    /\ call'[c] \in {"resolved", "rejected"}
                    /\ call'[c] = "resolved" => Reply(asked[c], TRUE) \in replies
                    /\ call'[c] = "rejected" => Reply(asked[c], FALSE) \in replies
<1>1. reply.id \in Ids /\ reply.ok \in BOOLEAN /\ reply = Reply(reply.id, reply.ok)
  BY DEF Calm, ConnectionInv, ConnectionTypeOK, Reply
<1>2. UNCHANGED <<nextId, closed, asked, atChrome>> /\ replies' \subseteq replies
  BY DEF Receive
<1>3. CASE pending[reply.id] = NoOne
  BY <1>2, <1>3 DEF Receive
<1>4. CASE pending[reply.id] # NoOne
  <2>1. call' = [call EXCEPT ![pending[reply.id]] = Outcome(reply.ok)]
    BY <1>4 DEF Receive, Settle
  <2>2. ASSUME NEW c \in Callers, c = pending[reply.id]
        PROVE  /\ asked[c] = reply.id /\ call'[c] = Outcome(reply.ok)
    BY <1>1, <2>1, <2>2 DEF Calm, ConnectionInv, ConnectionTypeOK, WaitersAreReachable
  <2>3. \A c \in Callers : c # pending[reply.id] => call'[c] = call[c]
    BY <2>1 DEF Calm, ConnectionInv, ConnectionTypeOK
  <2>4. CASE reply.ok = TRUE
    <3>1. Reply(reply.id, TRUE) \in replies
      BY <1>1, <2>4
    <3>2. Outcome(reply.ok) = "resolved"
      BY <2>4 DEF Outcome
    <3> QED BY <1>2, <2>2, <2>3, <3>1, <3>2
  <2>5. CASE reply.ok = FALSE
    <3>1. Reply(reply.id, FALSE) \in replies
      BY <1>1, <2>5
    <3>2. Outcome(reply.ok) = "rejected"
      BY <2>5 DEF Outcome
    <3> QED BY <1>2, <2>2, <2>3, <3>1, <3>2
  <2> QED BY <1>1, <2>4, <2>5
<1> QED BY <1>3, <1>4

LEMMA ReplyKeepsWire ==
    ASSUME Calm, ReplyArrives
    PROVE  Wire'
<1>1. PICK reply \in replies : Receive(reply)
  BY DEF ReplyArrives
<1>2. UNCHANGED <<view, opening, pc, held, clean, message, contexts, faults>>
  BY DEF ReplyArrives, source, hands, env
<1>3. /\ UNCHANGED <<nextId, closed, asked, atChrome>> /\ replies' \subseteq replies
      /\ \A c \in Callers :
            \/ call'[c] = call[c]
            \/ /\ asked[c] = reply.id
               /\ call'[c] \in {"resolved", "rejected"}
               /\ call'[c] = "resolved" => Reply(asked[c], TRUE) \in replies
               /\ call'[c] = "rejected" => Reply(asked[c], FALSE) \in replies
  BY <1>1, WhatArrives
<1>4. IdsAreApart'
  BY <1>2, <1>3 DEF Calm, Wire, IdsAreApart
<1>5. CommandsAreOwn'
  BY <1>2, <1>3 DEF Calm, Wire, CommandsAreOwn
<1>6. PagesAreThere'
  <2>1. \A c \in Callers : call'[c] = "resolved" \/ Reply(asked[c], TRUE) \in replies' =>
           call[c] = "resolved" \/ Reply(asked[c], TRUE) \in replies
    BY <1>3
  <2> QED BY <1>2, <1>3, <2>1 DEF Calm, Wire, PagesAreThere
<1>7. CasesHoldTheirs'
  BY <1>2, <1>3 DEF Calm, Wire, CasesHoldTheirs
<1>8. RefusalsAreFailures'
  <2>1. \A c \in Callers : call'[c] = "rejected" \/ Reply(asked[c], FALSE) \in replies' =>
           call[c] = "rejected" \/ Reply(asked[c], FALSE) \in replies
    BY <1>3
  <2> QED BY <1>2, <1>3, <2>1 DEF Calm, Wire, RefusalsAreFailures
<1>9. NothingLate'
  <2>1. reply.id \notin atChrome
    BY DEF Calm, Wire, IdsAreApart
  <2>2. \A c \in Callers : asked[c] \in atChrome => call'[c] = call[c]
    BY <1>3, <2>1
  <2> QED BY <1>2, <1>3, <2>2 DEF Calm, Wire, NothingLate
<1> QED BY <1>4, <1>5, <1>6, <1>7, <1>8, <1>9 DEF Wire

LEMMA TimeoutKeepsWire ==
    ASSUME Calm, CommandTimesOut
    PROVE  Wire'
<1>1. PICK id \in Ids : Timeout(id)
  BY DEF CommandTimesOut
<1>2. /\ UNCHANGED <<nextId, asked, atChrome, replies, view, pc, held, message, contexts>>
      /\ call' = [call EXCEPT ![pending[id]] = "rejected"]
  BY <1>1 DEF CommandTimesOut, Timeout, Settle, Outcome, source
<1>3. IdsAreApart' /\ CasesHoldTheirs' /\ CommandsAreOwn'
  BY <1>2 DEF Calm, Wire, IdsAreApart, CasesHoldTheirs, CommandsAreOwn
<1>4. PagesAreThere'
  <2>1. \A c \in Callers : call'[c] = "resolved" => call[c] = "resolved"
    BY <1>2 DEF Calm, ConnectionInv, ConnectionTypeOK
  <2> QED BY <1>2, <2>1 DEF Calm, Wire, PagesAreThere
<1>5. RefusalsAreFailures' /\ NothingLate'
  BY FaultExcuses DEF CommandTimesOut
<1> QED BY <1>3, <1>4, <1>5 DEF Wire

-------------------------------------------------------------------------------
(* The steps of the program. *)

Sound == Calm /\ OneOpens /\ FailuresPass /\ NothingStranded

GoodNext == Wire' /\ ~closed' /\ OneOpens' /\ FailuresPass' /\ NothingStranded'

(* A step that opens no page, gives none up and stores none.               *)
LEMMA OpensStay ==
    ASSUME Sound, opening' = opening, view' = view,
           \A v \in Viewers : /\ pc'[v] \in Opens <=> pc[v] \in Opens
                              /\ pc'[v] = "joining" <=> pc[v] = "joining"
                              /\ pc'[v] = "failed" => pc[v] = "failed"
                              /\ clean'[v] => clean[v] \/ pc'[v] \notin Opens \cup {"joining", "failed"},
           \/ \A v \in Viewers : pc[v] \in Opens => clean'[v] = clean[v]
           \/ \A v \in Viewers : ~clean'[v]
    PROVE  OneOpens' /\ FailuresPass'
<1>1. FailuresPass'
  BY DEF Sound, Calm, FailuresPass
<1>2. \A v \in Viewers : pc'[v] \in Opens => opening' = v
  BY DEF Sound, OneOpens
<1>3. opening' # NoOne => opening \in Viewers /\ pc'[opening'] \in Opens /\ view' = NoSession
  BY DEF Sound, Calm, TypeOK, OneOpens
<1>4. ASSUME NEW v \in Viewers, pc'[v] = "joining"
      PROVE  opening' # NoOne /\ (clean'[v] => clean'[opening'])
  <2>1. opening # NoOne /\ (clean[v] => clean[opening]) /\ pc[opening] \in Opens
    BY <1>4 DEF Sound, OneOpens
  <2>2. clean'[v] => clean[v]
    BY <1>4
  <2> QED BY <1>3, <2>1, <2>2
<1> QED BY <1>1, <1>2, <1>3, <1>4 DEF OneOpens

(* Nobody lets go of a context that is there.                              *)
LEMMA NobodyLetsGo ==
    ASSUME Sound, contexts' = contexts, faults' = faults, view' = view \/ view = NoSession,
           \A c \in Callers : pc[c] = "creating" =>
              \/ pc'[c] = "creating" /\ asked'[c] = asked[c]
              \/ pc'[c] = "attaching" /\ held'[c] = asked[c],
           \A c \in Callers : pc[c] \in {"attaching", "driving", "disposing"} =>
              \/ pc'[c] \in {"attaching", "driving", "disposing"} /\ held'[c] = held[c]
              \/ view' = held[c]
              \/ \A x \in contexts : x.id # held[c]
    PROVE  NothingStranded'
<1> SUFFICES ASSUME NEW x \in contexts, faults = 0 PROVE Kept(x)'
  BY DEF NothingStranded
<1>1. Kept(x) /\ x.id # NoSession
  BY DEF Sound, Calm, NothingStranded, TypeOK, Ids, NoSession
<1>2. CASE x.id = view
  BY <1>1, <1>2 DEF Kept
<1>3. CASE \E c \in Callers : pc[c] = "creating" /\ asked[c] = x.id
  BY <1>3 DEF Kept
<1>4. CASE \E c \in Callers : pc[c] \in {"attaching", "driving", "disposing"} /\ held[c] = x.id
  BY <1>4 DEF Kept
<1> QED BY <1>1, <1>2, <1>3, <1>4 DEF Kept

LEMMA SendsIs ==
    ASSUME Calm, NEW c \in Callers, NEW method, NEW context, NEW await,
           Sends(c, method, context, await)
    PROVE  /\ SendAccepted(c) /\ pc' = [pc EXCEPT ![c] = await]
           /\ message' = [message EXCEPT ![nextId] =
                             [method |-> method, context |-> context, from |-> c]]
           /\ ~closed'
BY DEF Sends, SendRefused, SendAccepted, Calm

LEMMA MethodIs ==
    /\ MethodOf("creating") = "create" /\ MethodOf("attaching") = "attach"
    /\ MethodOf("probing") = "probe" /\ MethodOf("disposing") = "dispose"
BY DEF MethodOf

LEMMA ConnectedKeeps == Sound /\ Connected => GoodNext
<1> SUFFICES ASSUME Sound, Connected PROVE GoodNext
  OBVIOUS
<1>1. /\ pc' = [c \in Callers |-> IF pc[c] = "connecting" THEN "connected" ELSE pc[c]]
      /\ UNCHANGED <<connectionVars, view, opening, held, clean, message, contexts, faults, restarts>>
  BY DEF Connected, source, hands, env
<1>2. LocalStep
  <2>1. \A c \in Callers : Moves(c)
    BY <1>1 DEF Moves, Sending
  <2>2. \A v \in Viewers : pc'[v] \in {"probing", "creating", "attaching"} /\ clean'[v] => clean[v]
    BY <1>1
  <2> QED BY <1>1, <2>1, <2>2 DEF LocalStep, Sound, Calm, TypeOK
<1>3. Wire' /\ ~closed'
  BY <1>1, <1>2, LocalKeepsWire DEF Sound, Calm, connectionVars, connection
<1>4. OneOpens' /\ FailuresPass'
  <2>1. \A v \in Viewers : /\ pc'[v] \in Opens <=> pc[v] \in Opens
                           /\ pc'[v] = "joining" <=> pc[v] = "joining"
                           /\ pc'[v] = "failed" => pc[v] = "failed"
    BY <1>1, CallersAssumption DEF Opens
  <2> QED BY <1>1, <2>1, OpensStay
<1>5. NothingStranded'
  <2>1. \A c \in Callers : pc[c] \in {"creating", "attaching", "driving", "disposing"} => pc'[c] = pc[c]
    BY <1>1
  <2>2. asked' = asked
    BY <1>1 DEF connectionVars, connection
  <2> QED BY <1>1, <2>1, <2>2, NobodyLetsGo
<1> QED BY <1>3, <1>4, <1>5 DEF GoodNext

LEMMA CreatesKeeps == \A c \in Callers : Sound /\ CreatesContext(c) => GoodNext
<1> SUFFICES ASSUME NEW c \in Callers, Sound, CreatesContext(c) PROVE GoodNext
  OBVIOUS
<1>1. /\ pc[c] = "connected" /\ Sends(c, "create", NoSession, "creating")
      /\ UNCHANGED <<view, opening, held, clean, contexts, faults, restarts>>
  BY DEF CreatesContext, source, hands, env
<1>2. /\ SendAccepted(c) /\ pc' = [pc EXCEPT ![c] = "creating"] /\ ~closed'
      /\ message' = [message EXCEPT ![nextId] =
                        [method |-> "create", context |-> NoSession, from |-> c]]
  BY <1>1, SendsIs DEF Sound
<1>3. SendStep(c, NoSession, "creating")
  BY <1>1, <1>2, MethodIs DEF SendStep, Sending
<1>4. Wire'
  BY <1>3, SendKeepsWire DEF Sound
<1>5. /\ pc'[c] = "creating"
      /\ \A d \in Callers : d # c => pc'[d] = pc[d] /\ asked'[d] = asked[d]
  BY <1>2 DEF SendAccepted, Sound, Calm, TypeOK, ConnectionInv, ConnectionTypeOK
<1>6. OneOpens' /\ FailuresPass'
  <2>1. \A v \in Viewers : /\ pc'[v] \in Opens <=> pc[v] \in Opens
                           /\ pc'[v] = "joining" <=> pc[v] = "joining"
                           /\ pc'[v] = "failed" => pc[v] = "failed"
    BY <1>1, <1>5, CallersAssumption DEF Opens
  <2> QED BY <1>1, <2>1, OpensStay
<1>7. NothingStranded'
  BY <1>1, <1>5, NobodyLetsGo
<1> QED BY <1>2, <1>4, <1>6, <1>7 DEF GoodNext

LEMMA ContextKeeps == \A c \in Callers : Sound /\ ContextIsCreated(c) => GoodNext
<1> SUFFICES ASSUME NEW c \in Callers, Sound, ContextIsCreated(c) PROVE GoodNext
  OBVIOUS
<1>1. /\ pc[c] = "creating" /\ call[c] = "resolved"
      /\ Sends(c, "attach", asked[c], "attaching")
      /\ held' = [held EXCEPT ![c] = asked[c]]
      /\ UNCHANGED <<view, opening, clean, contexts, faults, restarts>>
  BY DEF ContextIsCreated, Answered, source, env
<1>2. /\ SendAccepted(c) /\ pc' = [pc EXCEPT ![c] = "attaching"] /\ ~closed'
      /\ message' = [message EXCEPT ![nextId] =
                        [method |-> "attach", context |-> asked[c], from |-> c]]
  BY <1>1, SendsIs DEF Sound
<1>3. held'[c] = asked[c] /\ \A d \in Callers : d # c => held'[d] = held[d]
  BY <1>1 DEF Sound, Calm, TypeOK
<1>4. \E x \in contexts : x.id = asked[c] /\ x.of = c
  BY <1>1 DEF Sound, Calm, Wire, PagesAreThere
<1>5. SendStep(c, asked[c], "attaching")
  BY <1>1, <1>2, <1>3, <1>4, MethodIs DEF SendStep, Sending
<1>6. Wire'
  BY <1>5, SendKeepsWire DEF Sound
<1>7. /\ pc'[c] = "attaching"
      /\ \A d \in Callers : d # c => pc'[d] = pc[d] /\ asked'[d] = asked[d]
  BY <1>2 DEF SendAccepted, Sound, Calm, TypeOK, ConnectionInv, ConnectionTypeOK
<1>8. OneOpens' /\ FailuresPass'
  <2>1. \A v \in Viewers : /\ pc'[v] \in Opens <=> pc[v] \in Opens
                           /\ pc'[v] = "joining" <=> pc[v] = "joining"
                           /\ pc'[v] = "failed" => pc[v] = "failed"
    BY <1>1, <1>7, CallersAssumption DEF Opens
  <2> QED BY <1>1, <2>1, OpensStay
<1>9. NothingStranded'
  BY <1>1, <1>3, <1>7, NobodyLetsGo
<1> QED BY <1>2, <1>6, <1>8, <1>9 DEF GoodNext

(* What giving up does, in the words of the callers.                       *)
LEMMA WhatGivingUpDoes ==
    ASSUME Sound, NEW some, GiveUp(some), \A v \in Viewers : v \in some => opening = v,
           view' = view,
           \A v \in Viewers : v \in some => ~clean'[v],
           \/ \A v \in Viewers : clean'[v] = clean[v]
           \/ \A v \in Viewers : ~clean'[v]
    PROVE  /\ OneOpens' /\ FailuresPass'
           /\ \A c \in Callers : \/ pc'[c] = pc[c]
                                 \/ pc'[c] = "failed" /\ (c \in some \/ pc[c] = "joining")
<1> DEFINE joined == IF opening \in some THEN Joining ELSE {}
<1>1. /\ \A c \in Callers : pc'[c] = IF c \in some \cup joined THEN "failed" ELSE pc[c]
      /\ opening' = IF opening \in some THEN NoOne ELSE opening
  BY DEF GiveUp
<1>2. \A v \in Viewers : v \in joined <=> pc[v] = "joining" /\ opening \in some
  BY DEF Joining
<1>3. joined \subseteq {v \in Viewers : pc[v] = "joining"}
  BY DEF Joining
<1> HIDE DEF joined
<1>4. \A c \in Callers : \/ pc'[c] = pc[c]
                         \/ pc'[c] = "failed" /\ (c \in some \/ pc[c] = "joining")
  BY <1>1, <1>3
<1>5. FailuresPass'
  <2> SUFFICES ASSUME NEW v \in Viewers, pc'[v] = "failed" PROVE ~clean'[v]
    BY DEF FailuresPass
  <2>1. CASE v \in some
    BY <2>1
  <2>2. CASE v \in joined
    <3>1. opening \in some /\ pc[v] = "joining"
      BY <1>2, <2>2
    <3>2. opening \in Viewers /\ (clean[v] => clean[opening])
      BY <3>1 DEF Sound, OneOpens, Calm, TypeOK
    <3>3. ~clean'[opening]
      BY <3>1, <3>2
    <3> QED BY <3>2, <3>3
  <2>3. CASE v \notin some \cup joined
    <3>1. pc[v] = "failed"
      BY <1>1, <2>3, CallersAssumption
    <3>2. ~clean[v]
      BY <3>1 DEF Sound, Calm, FailuresPass
    <3> QED BY <3>2
  <2> QED BY <2>1, <2>2, <2>3
<1>6. OneOpens'
  <2>1. CASE opening \in some
    <3>1. opening' = NoOne
      BY <1>1, <2>1
    <3>2. ASSUME NEW v \in Viewers PROVE pc'[v] \notin Opens /\ pc'[v] # "joining"
      <4>1. CASE v \in some \cup joined
        BY <1>1, <4>1, CallersAssumption DEF Opens
      <4>2. CASE v \notin some \cup joined
        <5>1. pc[v] # "joining" /\ v # opening
          BY <1>2, <2>1, <4>2
        <5>2. pc[v] \notin Opens
          BY <5>1 DEF Sound, OneOpens
        <5> QED BY <1>1, <4>2, <5>1, <5>2, CallersAssumption
      <4> QED BY <4>1, <4>2
    <3> QED BY <3>1, <3>2 DEF OneOpens
  <2>2. CASE opening \notin some
    <3>1. opening' = opening /\ joined = {}
      BY <1>1, <1>2, <1>3, <2>2
    <3>2. \A v \in Viewers : pc'[v] = pc[v]
      BY <1>1, <2>2, <3>1, CallersAssumption
    <3>3. \A v \in Viewers : /\ pc'[v] \in Opens <=> pc[v] \in Opens
                             /\ pc'[v] = "joining" <=> pc[v] = "joining"
                             /\ pc'[v] = "failed" => pc[v] = "failed"
      BY <3>2
    <3>4. \A v \in Viewers : clean'[v] => clean[v]
      OBVIOUS
    <3> QED BY <3>1, <3>3, <3>4, OpensStay
  <2> QED BY <2>1, <2>2
<1> QED BY <1>4, <1>5, <1>6

LEMMA ConnectFailsKeeps == Sound /\ ConnectFails => GoodNext
<1> SUFFICES ASSUME Sound, ConnectFails PROVE GoodNext
  OBVIOUS
<1> DEFINE some == {c \in Callers : pc[c] = "connecting"}
<1>1. /\ GiveUp(some) /\ Fault
      /\ UNCHANGED <<connectionVars, view, held, message, contexts, restarts>>
  BY DEF ConnectFails
<1>2. /\ faults' \in Nat /\ faults' > 0 /\ faults' >= faults /\ \A v \in Viewers : ~clean'[v]
  BY <1>1, FaultExcuses DEF Fault, Sound, Calm, TypeOK
<1>3. \A v \in Viewers : v \in some => opening = v
  BY CallersAssumption DEF Sound, OneOpens, Opens
<1>4. /\ OneOpens' /\ FailuresPass'
      /\ \A c \in Callers : \/ pc'[c] = pc[c]
                            \/ pc'[c] = "failed" /\ (c \in some \/ pc[c] = "joining")
  <2> HIDE DEF some
  <2> QED BY <1>1, <1>2, <1>3, WhatGivingUpDoes
<1>5. LocalStep
  <2>1. \A c \in Callers : Moves(c)
    BY <1>1, <1>4 DEF Moves, Sending
  <2> QED BY <1>1, <1>2, <2>1 DEF LocalStep
<1>6. Wire' /\ ~closed'
  BY <1>1, <1>5, LocalKeepsWire DEF Sound, Calm, connectionVars, connection
<1>7. NothingStranded'
  BY <1>2 DEF NothingStranded
<1> QED BY <1>4, <1>6, <1>7 DEF GoodNext

LEMMA OpeningFailsKeeps == \A c \in Callers : Sound /\ OpeningFails(c) => GoodNext
<1> SUFFICES ASSUME NEW c \in Callers, Sound, OpeningFails(c) PROVE GoodNext
  OBVIOUS
<1>1. /\ pc[c] \in {"creating", "attaching"} /\ call[c] = "rejected" /\ GiveUp({c})
      /\ UNCHANGED <<connectionVars, view, held, clean, message, contexts, faults, restarts>>
  BY DEF OpeningFails, Refused, hands, env
<1>2. faults > 0 /\ (c \in Viewers => ~clean[c])
  BY <1>1 DEF Sound, Calm, Wire, RefusalsAreFailures
<1>3. \A v \in Viewers : v \in {c} => opening = v
  BY <1>1 DEF Sound, OneOpens, Opens
<1>4. /\ OneOpens' /\ FailuresPass'
      /\ \A d \in Callers : \/ pc'[d] = pc[d]
                            \/ pc'[d] = "failed" /\ (d \in {c} \/ pc[d] = "joining")
  <2>1. \A v \in Viewers : v \in {c} => ~clean'[v]
    BY <1>1, <1>2
  <2>2. \A v \in Viewers : clean'[v] = clean[v]
    BY <1>1
  <2> QED BY <1>1, <1>3, <2>1, <2>2, WhatGivingUpDoes
<1>5. LocalStep
  <2>1. \A d \in Callers : Moves(d)
    BY <1>1, <1>4 DEF Moves, Sending
  <2>2. faults' \in Nat /\ faults' >= faults
    BY <1>1 DEF Sound, Calm, TypeOK
  <2> QED BY <1>1, <2>1, <2>2 DEF LocalStep
<1>6. Wire' /\ ~closed'
  BY <1>1, <1>5, LocalKeepsWire DEF Sound, Calm, connectionVars, connection
<1>7. NothingStranded'
  BY <1>1, <1>2 DEF NothingStranded, Sound, Calm, TypeOK
<1> QED BY <1>4, <1>6, <1>7 DEF GoodNext

LEMMA ProbeSucceedsKeeps == \A v \in Viewers : Sound /\ ProbeSucceeds(v) => GoodNext
<1> SUFFICES ASSUME NEW v \in Viewers, Sound, ProbeSucceeds(v) PROVE GoodNext
  OBVIOUS
<1>1. /\ pc[v] = "probing" /\ call[v] = "resolved" /\ pc' = [pc EXCEPT ![v] = "given"]
      /\ UNCHANGED <<connectionVars, view, opening, held, clean, message, contexts, faults, restarts>>
  BY DEF ProbeSucceeds, Answered, source, hands, env
<1>2. /\ pc'[v] = "given" /\ \A d \in Callers : d # v => pc'[d] = pc[d]
      /\ UNCHANGED <<closed, asked>>
  BY <1>1, CallersAssumption DEF Sound, Calm, TypeOK, connectionVars, connection
<1>3. LocalStep
  <2>1. \A d \in Callers : Moves(d)
    BY <1>1, <1>2 DEF Moves
  <2>2. faults' \in Nat /\ faults' >= faults
    BY <1>1 DEF Sound, Calm, TypeOK
  <2> QED BY <1>1, <2>1, <2>2 DEF LocalStep
<1>4. Wire' /\ ~closed'
  BY <1>2, <1>3, LocalKeepsWire DEF Sound, Calm
<1>5. OneOpens' /\ FailuresPass'
  <2>1. \A u \in Viewers : /\ pc'[u] \in Opens <=> pc[u] \in Opens
                           /\ pc'[u] = "joining" <=> pc[u] = "joining"
                           /\ pc'[u] = "failed" => pc[u] = "failed"
    BY <1>1, <1>2, CallersAssumption DEF Opens
  <2> QED BY <1>1, <2>1, OpensStay
<1>6. NothingStranded'
  BY <1>1, <1>2, NobodyLetsGo
<1> QED BY <1>4, <1>5, <1>6 DEF GoodNext

LEMMA PageIsOpenKeeps == \A v \in Viewers : Sound /\ PageIsOpen(v) => GoodNext
<1> SUFFICES ASSUME NEW v \in Viewers, Sound, PageIsOpen(v) PROVE GoodNext
  OBVIOUS
<1>1. /\ pc[v] = "attaching" /\ call[v] = "resolved" /\ view' = held[v] /\ opening' = NoOne
      /\ pc' = [c \in Callers |-> IF c \in Joining \cup {v} THEN "given" ELSE pc[c]]
      /\ held' = [c \in Callers |-> IF c \in Joining THEN held[v] ELSE held[c]]
      /\ UNCHANGED <<connectionVars, clean, message, contexts, faults, restarts>>
  BY DEF PageIsOpen, Answered, env
<1>2. opening = v /\ view = NoSession
  BY <1>1, NoOneIsNoCaller, CallersAssumption DEF Sound, OneOpens, Opens
<1>3. \A c \in Callers : /\ c \in Joining => pc[c] = "joining" /\ pc'[c] = "given"
                         /\ c = v => pc'[c] = "given" /\ held'[c] = held[c]
                         /\ c \notin Joining \cup {v} => pc'[c] = pc[c] /\ held'[c] = held[c]
  BY <1>1 DEF Joining
<1>4. LocalStep
  <2>1. ASSUME NEW d \in Callers PROVE Moves(d)
    <3>1. CASE d \in Joining
      BY <1>3, <3>1 DEF Moves, Sending
    <3>2. CASE d = v
      BY <1>1, <1>3, <3>2 DEF Moves
    <3>3. CASE d \notin Joining \cup {v}
      BY <1>3, <3>3 DEF Moves
    <3> QED BY <3>1, <3>2, <3>3
  <2>2. faults' \in Nat /\ faults' >= faults
    BY <1>1 DEF Sound, Calm, TypeOK
  <2> QED BY <1>1, <2>1, <2>2 DEF LocalStep
<1>5. Wire' /\ ~closed'
  BY <1>1, <1>4, LocalKeepsWire DEF Sound, Calm, connectionVars, connection
<1>6. ASSUME NEW u \in Viewers
      PROVE  /\ pc'[u] \notin Opens /\ pc'[u] # "joining"
             /\ pc'[u] = "failed" => pc[u] = "failed"
  <2>1. CASE u \in Joining \cup {v}
    BY <1>3, <2>1, CallersAssumption DEF Opens
  <2>2. CASE u \notin Joining \cup {v}
    <3>1. pc'[u] = pc[u] /\ pc[u] # "joining" /\ u # opening
      BY <1>2, <1>3, <2>2, CallersAssumption DEF Joining
    <3> QED BY <3>1 DEF Sound, OneOpens
  <2> QED BY <2>1, <2>2
<1>7. OneOpens'
  BY <1>1, <1>6 DEF OneOpens
<1>8. FailuresPass'
  BY <1>1, <1>6 DEF FailuresPass, Sound, Calm
<1>9. NothingStranded'
  <2>1. asked' = asked
    BY <1>1 DEF connectionVars, connection
  <2>2. \A c \in Callers : pc[c] = "creating" => pc'[c] = "creating"
    BY <1>1, <1>3
  <2>3. \A c \in Callers : pc[c] \in {"attaching", "driving", "disposing"} =>
          (pc'[c] = pc[c] /\ held'[c] = held[c]) \/ view' = held[c]
    BY <1>1, <1>3
  <2> QED BY <1>1, <1>2, <2>1, <2>2, <2>3, NobodyLetsGo
<1> QED BY <1>5, <1>7, <1>8, <1>9 DEF GoodNext

(* A viewer with no page in its hands joins the opening or begins one.     *)
LEMMA JoinsOrOpensKeeps ==
    ASSUME Sound, NEW v \in Viewers, NEW fresh \in BOOLEAN, JoinsOrOpens(v, fresh),
           pc[v] \notin Opens \cup {"joining"}, pc[v] \in Sending => call[v] # "waiting",
           view' = NoSession, view = NoSession \/ faults > 0, UNCHANGED <<held, contexts, faults>>
    PROVE  GoodNext
<1>0. v \in Callers /\ pc[v] \notin {"driving", "disposing", "closed"}
  BY CallersAssumption DEF Sound, Calm, TypeOK
<1>1. \A u \in Viewers : u # v => clean'[u] = clean[u]
  BY DEF JoinsOrOpens, Sound, Calm, TypeOK
<1>2. faults' \in Nat /\ faults' >= faults
  BY DEF Sound, Calm, TypeOK
<1>3. ASSUME \A d \in Callers : d # v => pc'[d] = pc[d] /\ asked'[d] = asked[d]
      PROVE  NothingStranded'
  <2>1. CASE faults > 0
    BY <2>1 DEF NothingStranded, Sound, Calm, TypeOK
  <2>2. CASE view = NoSession
    <3>1. pc[v] \notin {"creating", "attaching", "driving", "disposing"}
      BY <1>0 DEF Opens
    <3> QED BY <1>3, <2>2, <3>1, NobodyLetsGo
  <2> QED BY <2>1, <2>2
<1>4. CASE opening # NoOne
  <2>1. /\ pc' = [pc EXCEPT ![v] = "joining"] /\ opening' = opening
        /\ clean' = [clean EXCEPT ![v] = fresh /\ clean[opening]]
        /\ UNCHANGED <<connectionVars, message>>
    BY <1>4 DEF JoinsOrOpens
  <2>2. /\ pc'[v] = "joining" /\ \A d \in Callers : d # v => pc'[d] = pc[d]
        /\ UNCHANGED <<closed, asked>>
    BY <1>0, <2>1 DEF Sound, Calm, TypeOK, connectionVars, connection
  <2>3. LocalStep
    <3>1. \A d \in Callers : Moves(d)
      BY <1>0, <2>2 DEF Moves
    <3>2. \A u \in Viewers : pc'[u] \in {"probing", "creating", "attaching"} /\ clean'[u] => clean[u]
      BY <1>1, <2>2
    <3> QED BY <1>2, <2>1, <3>1, <3>2 DEF LocalStep
  <2>4. Wire' /\ ~closed'
    BY <2>2, <2>3, LocalKeepsWire DEF Sound, Calm
  <2>5. opening \in Viewers /\ opening # v /\ pc[opening] \in Opens
    BY <1>4 DEF Sound, Calm, TypeOK, OneOpens
  <2>6. clean'[v] => clean'[opening]
    <3>1. clean'[v] = (fresh /\ clean[opening])
      BY <2>1 DEF Sound, Calm, TypeOK
    <3> QED BY <1>1, <2>5, <3>1
  <2>7. OneOpens'
    <3>1. \A u \in Viewers : pc'[u] \in Opens => opening' = u
      BY <2>1, <2>2, CallersAssumption DEF Sound, OneOpens, Opens
    <3>2. pc'[opening'] \in Opens /\ view' = NoSession
      BY <2>1, <2>2, <2>5, CallersAssumption
    <3>3. ASSUME NEW u \in Viewers, pc'[u] = "joining"
          PROVE  opening' # NoOne /\ (clean'[u] => clean'[opening'])
      <4>1. CASE u = v
        BY <1>4, <2>1, <2>6, <4>1
      <4>2. CASE u # v
        BY <1>1, <2>1, <2>2, <2>5, <3>3, <4>2, CallersAssumption DEF Sound, OneOpens
      <4> QED BY <4>1, <4>2
    <3> QED BY <3>1, <3>2, <3>3 DEF OneOpens
  <2>8. FailuresPass'
    BY <1>1, <2>2, CallersAssumption DEF Sound, Calm, FailuresPass
  <2> QED BY <1>3, <2>2, <2>4, <2>7, <2>8 DEF GoodNext
<1>5. CASE opening = NoOne
  <2>1. /\ opening' = v /\ OpensSession(v)
        /\ clean' = [clean EXCEPT ![v] = fresh]
    BY <1>5 DEF JoinsOrOpens
  <2>2. \A u \in Viewers : pc[u] \notin Opens \cup {"joining"}
    BY <1>5, NoOneIsNoCaller, CallersAssumption DEF Sound, OneOpens
  <2>3. /\ Wire' /\ ~closed' /\ pc'[v] \in Opens
        /\ \A d \in Callers : d # v => pc'[d] = pc[d] /\ asked'[d] = asked[d]
    <3>1. CASE link = "up"
      <4>1. Sends(v, "create", NoSession, "creating")
        BY <2>1, <3>1 DEF OpensSession
      <4>2. /\ SendAccepted(v) /\ pc' = [pc EXCEPT ![v] = "creating"] /\ ~closed'
            /\ message' = [message EXCEPT ![nextId] =
                              [method |-> "create", context |-> NoSession, from |-> v]]
        BY <1>0, <4>1, SendsIs DEF Sound
      <4>3. SendStep(v, NoSession, "creating")
        BY <1>0, <1>1, <4>2, MethodIs DEF SendStep, Sending
      <4>4. Wire'
        BY <1>0, <4>3, SendKeepsWire DEF Sound
      <4> QED BY <1>0, <4>2, <4>4
              DEF Opens, SendAccepted, Sound, Calm, TypeOK, ConnectionInv, ConnectionTypeOK
    <3>2. CASE link # "up"
      <4>1. pc' = [pc EXCEPT ![v] = "connecting"] /\ UNCHANGED <<connectionVars, message>>
        BY <2>1, <3>2 DEF OpensSession
      <4>2. /\ pc'[v] = "connecting" /\ \A d \in Callers : d # v => pc'[d] = pc[d]
            /\ UNCHANGED <<closed, asked>>
        BY <1>0, <4>1 DEF Sound, Calm, TypeOK, connectionVars, connection
      <4>3. LocalStep
        <5>1. \A d \in Callers : Moves(d)
          BY <1>0, <4>2 DEF Moves
        <5>2. \A u \in Viewers : pc'[u] \in {"probing", "creating", "attaching"} /\ clean'[u] => clean[u]
          BY <1>1, <4>2
        <5> QED BY <1>2, <4>1, <5>1, <5>2 DEF LocalStep
      <4>4. Wire'
        BY <4>3, LocalKeepsWire DEF Sound
      <4> QED BY <4>2, <4>4 DEF Opens, Sound, Calm
    <3> QED BY <3>1, <3>2
  <2>4. OneOpens'
    BY <2>1, <2>2, <2>3, CallersAssumption DEF OneOpens, Opens
  <2>5. FailuresPass'
    <3>1. pc'[v] # "failed"
      BY <2>3 DEF Opens
    <3> QED BY <1>1, <2>3, <3>1, CallersAssumption DEF Sound, Calm, FailuresPass
  <2> QED BY <1>3, <2>3, <2>4, <2>5 DEF GoodNext
<1> QED BY <1>4, <1>5

LEMMA ProbeFailsKeeps == \A v \in Viewers : Sound /\ ProbeFails(v) => GoodNext
<1> SUFFICES ASSUME NEW v \in Viewers, Sound, ProbeFails(v) PROVE GoodNext
  OBVIOUS
<1>1. /\ pc[v] = "probing" /\ call[v] = "rejected" /\ view' = NoSession
      /\ JoinsOrOpens(v, clean[v]) /\ UNCHANGED <<held, contexts, faults>>
  BY DEF ProbeFails, Refused, env
<1>2. faults > 0 /\ clean[v] \in BOOLEAN
  BY <1>1, CallersAssumption DEF Sound, Calm, TypeOK, Wire, RefusalsAreFailures
<1> QED BY <1>1, <1>2, JoinsOrOpensKeeps DEF Opens

LEMMA AsksKeeps == \A v \in Viewers : Sound /\ AsksForPage(v) => GoodNext
<1> SUFFICES ASSUME NEW v \in Viewers, Sound, AsksForPage(v) PROVE GoodNext
  OBVIOUS
<1>1. pc[v] \in {"idle", "given", "failed"} /\ UNCHANGED <<contexts, faults, restarts>>
  BY DEF AsksForPage, env
<1>2. CASE view # NoSession
  <2>1. /\ held' = [held EXCEPT ![v] = view] /\ clean' = [clean EXCEPT ![v] = TRUE]
        /\ Sends(v, "probe", view, "probing") /\ view' = view /\ opening' = opening
    BY <1>2 DEF AsksForPage, source
  <2>2. v \in Callers
    BY CallersAssumption
  <2>3. /\ SendAccepted(v) /\ pc' = [pc EXCEPT ![v] = "probing"] /\ ~closed'
        /\ message' = [message EXCEPT ![nextId] =
                          [method |-> "probe", context |-> view, from |-> v]]
    BY <2>1, <2>2, SendsIs DEF Sound
  <2>4. /\ held'[v] = view /\ \A d \in Callers : d # v => held'[d] = held[d]
        /\ \A u \in Viewers : u # v => clean'[u] = clean[u]
    BY <2>1, <2>2 DEF Sound, Calm, TypeOK
  <2>5. \E x \in contexts : x.id = view /\ x.of \in Viewers
    BY <1>2 DEF Sound, Calm, Wire, PagesAreThere
  <2>6. SendStep(v, view, "probing")
    BY <1>1, <2>1, <2>3, <2>4, <2>5, MethodIs DEF SendStep, Sending
  <2>7. Wire'
    BY <2>2, <2>6, SendKeepsWire DEF Sound
  <2>8. pc'[v] = "probing" /\ \A d \in Callers : d # v => pc'[d] = pc[d] /\ asked'[d] = asked[d]
    BY <2>2, <2>3 DEF SendAccepted, Sound, Calm, TypeOK, ConnectionInv, ConnectionTypeOK
  <2>9. OneOpens' /\ FailuresPass'
    <3>1. \A u \in Viewers : /\ pc'[u] \in Opens <=> pc[u] \in Opens
                             /\ pc'[u] = "joining" <=> pc[u] = "joining"
                             /\ pc'[u] = "failed" => pc[u] = "failed"
      BY <1>1, <2>8, CallersAssumption DEF Opens
    <3>2. \A u \in Viewers : clean'[u] => clean[u] \/ pc'[u] \notin Opens \cup {"joining", "failed"}
      BY <2>4, <2>8 DEF Opens
    <3>3. \A u \in Viewers : pc[u] \in Opens => clean'[u] = clean[u]
      BY <1>1, <2>4 DEF Opens
    <3> QED BY <2>1, <3>1, <3>2, <3>3, OpensStay
  <2>10. NothingStranded'
    BY <1>1, <2>1, <2>4, <2>8, NobodyLetsGo
  <2> QED BY <2>3, <2>7, <2>9, <2>10 DEF GoodNext
<1>3. CASE view = NoSession
  <2>1. JoinsOrOpens(v, TRUE) /\ view' = NoSession /\ held' = held
    BY <1>3 DEF AsksForPage
  <2>2. pc[v] \notin Opens \cup {"joining"} /\ pc[v] \notin Sending
    BY <1>1 DEF Opens, Sending
  <2> QED BY <1>1, <1>3, <2>1, <2>2, JoinsOrOpensKeeps
<1> QED BY <1>2, <1>3

(* What a case does is nothing to the viewers.                             *)
LEMMA CasesAreApart ==
    ASSUME Sound, NEW c \in Cases, \A d \in Callers : d # c => pc'[d] = pc[d],
           UNCHANGED <<view, opening, clean>>
    PROVE  OneOpens' /\ FailuresPass'
<1>1. \A v \in Viewers : pc'[v] = pc[v]
  BY CallersAssumption
<1>2. \A v \in Viewers : /\ pc'[v] \in Opens <=> pc[v] \in Opens
                         /\ pc'[v] = "joining" <=> pc[v] = "joining"
                         /\ pc'[v] = "failed" => pc[v] = "failed"
  BY <1>1
<1> QED BY <1>2, OpensStay

LEMMA CaseOpensKeeps == \A c \in Cases : Sound /\ CaseOpens(c) => GoodNext
<1> SUFFICES ASSUME NEW c \in Cases, Sound, CaseOpens(c) PROVE GoodNext
  OBVIOUS
<1>1. /\ c \in Callers /\ pc[c] = "idle" /\ OpensSession(c)
      /\ UNCHANGED <<view, opening, held, clean, contexts, faults, restarts>>
  BY CallersAssumption DEF CaseOpens, source, hands, env
<1>2. /\ Wire' /\ ~closed'
      /\ \A d \in Callers : d # c => pc'[d] = pc[d] /\ asked'[d] = asked[d]
  <2>1. CASE link = "up"
    <3>1. Sends(c, "create", NoSession, "creating")
      BY <1>1, <2>1 DEF OpensSession
    <3>2. /\ SendAccepted(c) /\ pc' = [pc EXCEPT ![c] = "creating"] /\ ~closed'
          /\ message' = [message EXCEPT ![nextId] =
                            [method |-> "create", context |-> NoSession, from |-> c]]
      BY <1>1, <3>1, SendsIs DEF Sound
    <3>3. SendStep(c, NoSession, "creating")
      BY <1>1, <3>2, MethodIs DEF SendStep, Sending
    <3>4. Wire'
      BY <1>1, <3>3, SendKeepsWire DEF Sound
    <3> QED BY <1>1, <3>2, <3>4
            DEF SendAccepted, Sound, Calm, TypeOK, ConnectionInv, ConnectionTypeOK
  <2>2. CASE link # "up"
    <3>1. pc' = [pc EXCEPT ![c] = "connecting"] /\ UNCHANGED <<connectionVars, message>>
      BY <1>1, <2>2 DEF OpensSession
    <3>2. /\ pc'[c] = "connecting" /\ \A d \in Callers : d # c => pc'[d] = pc[d]
          /\ UNCHANGED <<closed, asked>>
      BY <1>1, <3>1 DEF Sound, Calm, TypeOK, connectionVars, connection
    <3>3. LocalStep
      <4>1. \A d \in Callers : Moves(d)
        BY <1>1, <3>2 DEF Moves, Sending
      <4>2. faults' \in Nat /\ faults' >= faults
        BY <1>1 DEF Sound, Calm, TypeOK
      <4> QED BY <1>1, <3>1, <4>1, <4>2 DEF LocalStep
    <3>4. Wire'
      BY <3>3, LocalKeepsWire DEF Sound
    <3> QED BY <3>2, <3>4 DEF Sound, Calm
  <2> QED BY <2>1, <2>2
<1>3. OneOpens' /\ FailuresPass'
  BY <1>1, <1>2, CasesAreApart
<1>4. NothingStranded'
  BY <1>1, <1>2, NobodyLetsGo
<1> QED BY <1>2, <1>3, <1>4 DEF GoodNext

LEMMA CaseClosesKeeps == \A c \in Cases : Sound /\ CaseCloses(c) => GoodNext
<1> SUFFICES ASSUME NEW c \in Cases, Sound, CaseCloses(c) PROVE GoodNext
  OBVIOUS
<1>1. /\ c \in Callers /\ pc[c] = "driving" /\ Sends(c, "dispose", held[c], "disposing")
      /\ UNCHANGED <<view, opening, held, clean, contexts, faults, restarts>>
  BY CallersAssumption DEF CaseCloses, source, hands, env
<1>2. /\ SendAccepted(c) /\ pc' = [pc EXCEPT ![c] = "disposing"] /\ ~closed'
      /\ message' = [message EXCEPT ![nextId] =
                        [method |-> "dispose", context |-> held[c], from |-> c]]
  BY <1>1, SendsIs DEF Sound
<1>3. SendStep(c, held[c], "disposing")
  BY <1>1, <1>2, MethodIs DEF SendStep, Sending
<1>4. Wire'
  BY <1>1, <1>3, SendKeepsWire DEF Sound
<1>5. pc'[c] = "disposing" /\ \A d \in Callers : d # c => pc'[d] = pc[d] /\ asked'[d] = asked[d]
  BY <1>1, <1>2 DEF SendAccepted, Sound, Calm, TypeOK, ConnectionInv, ConnectionTypeOK
<1>6. OneOpens' /\ FailuresPass'
  BY <1>1, <1>5, CasesAreApart
<1>7. NothingStranded'
  BY <1>1, <1>5, NobodyLetsGo
<1> QED BY <1>2, <1>4, <1>6, <1>7 DEF GoodNext

LEMMA CaseGoesOnKeeps ==
    \A c \in Cases : Sound /\ (CaseIsOpen(c) \/ CaseIsClosed(c)) => GoodNext
<1> SUFFICES ASSUME NEW c \in Cases, Sound, CaseIsOpen(c) \/ CaseIsClosed(c) PROVE GoodNext
  OBVIOUS
<1>1. /\ c \in Callers /\ call[c] # "waiting"
      /\ \/ pc[c] = "attaching" /\ pc' = [pc EXCEPT ![c] = "driving"]
         \/ pc[c] = "disposing" /\ pc' = [pc EXCEPT ![c] = "closed"]
      /\ UNCHANGED <<connectionVars, view, opening, held, clean, message, contexts, faults, restarts>>
  BY CallersAssumption DEF CaseIsOpen, CaseIsClosed, Answered, source, hands, env
<1>2. /\ \/ pc[c] = "attaching" /\ pc'[c] = "driving"
         \/ pc[c] = "disposing" /\ pc'[c] = "closed"
      /\ \A d \in Callers : d # c => pc'[d] = pc[d]
      /\ UNCHANGED <<closed, asked>>
  BY <1>1 DEF Sound, Calm, TypeOK, connectionVars, connection
<1>3. LocalStep
  <2>1. \A d \in Callers : Moves(d)
    BY <1>1, <1>2 DEF Moves
  <2>2. faults' \in Nat /\ faults' >= faults
    BY <1>1 DEF Sound, Calm, TypeOK
  <2> QED BY <1>1, <2>1, <2>2 DEF LocalStep
<1>4. Wire' /\ ~closed'
  BY <1>2, <1>3, LocalKeepsWire DEF Sound, Calm
<1>5. OneOpens' /\ FailuresPass'
  BY <1>1, <1>2, CasesAreApart
<1>6. NothingStranded'
  <2>1. CASE faults = 0
    <3>1. pc[c] = "disposing" => asked[c] \notin atChrome
      <4> SUFFICES ASSUME pc[c] = "disposing", asked[c] \in atChrome PROVE FALSE
        OBVIOUS
      <4>1. message[asked[c]].from = c
        BY <1>1 DEF Sending, Sound, Calm, Wire, CommandsAreOwn
      <4> QED BY <1>1, <2>1, <4>1 DEF Sound, Calm, Wire, NothingLate
    <3>2. pc[c] = "disposing" => \A x \in contexts : x.id # held[c]
      BY <2>1, <3>1 DEF Sound, Calm, Wire, NothingLate
    <3> QED BY <1>1, <1>2, <3>2, NobodyLetsGo
  <2>2. CASE faults # 0
    BY <1>1, <2>2 DEF NothingStranded
  <2> QED BY <2>1, <2>2
<1> QED BY <1>4, <1>5, <1>6 DEF GoodNext

-------------------------------------------------------------------------------
(* Chrome's steps, and the invariant. *)

LEMMA ChromeDoesKeeps == \A id \in Ids : Sound /\ ChromeDoes(id) => GoodNext
<1> SUFFICES ASSUME NEW id \in Ids, Sound, ChromeDoes(id) PROVE GoodNext
  OBVIOUS
<1> DEFINE m == message[id]
<1>1. /\ id \in atChrome
      /\ m.method = "create" => contexts' = contexts \cup {Context(id, m.from)}
      /\ m.method = "dispose" => contexts' = {x \in contexts : x.id # m.context}
      /\ m.method \notin {"create", "dispose"} => contexts' = contexts
      /\ UNCHANGED <<closed, asked, view, opening, pc, held, clean, faults, restarts>>
  BY WhatChromeDoes DEF Sound
<1>2. Wire' /\ ~closed'
  BY <1>1, ChromeKeepsWire DEF Sound, Calm
<1>3. OneOpens' /\ FailuresPass'
  BY <1>1, OpensStay
<1>4. NothingStranded'
  <2> SUFFICES ASSUME faults = 0, NEW x \in contexts' PROVE Kept(x)'
    BY <1>1 DEF NothingStranded
  <2>1. CASE x \in contexts
    <3>1. Kept(x)
      BY <2>1 DEF Sound, Calm, NothingStranded
    <3> QED BY <1>1, <3>1 DEF Kept
  <2>2. CASE x \notin contexts
    <3>1. m.method = "create" /\ x.id = id
      BY <1>1, <2>2 DEF Context
    <3>2. PICK c \in Callers : c = m.from /\ pc[c] \in Sending /\ asked[c] = id
      BY <1>1 DEF Sound, Calm, Wire, NothingLate
    <3>3. m.method = MethodOf(pc[c])
      BY <1>1, <3>2 DEF Sound, Calm, Wire, CommandsAreOwn
    <3>4. pc[c] = "creating"
      BY <3>1, <3>2, <3>3, MethodIs DEF Sending
    <3> QED BY <1>1, <3>1, <3>2, <3>4 DEF Kept
  <2> QED BY <2>1, <2>2
<1> QED BY <1>2, <1>3, <1>4 DEF GoodNext

LEMMA FaultKeeps ==
    ASSUME Sound, Fault, UNCHANGED <<view, opening, pc, restarts>>
    PROVE  OneOpens' /\ FailuresPass' /\ NothingStranded'
<1>1. faults' \in Nat /\ faults' > 0 /\ \A v \in Viewers : ~clean'[v]
  BY FaultExcuses DEF Sound
<1>2. OneOpens' /\ FailuresPass'
  BY <1>1, OpensStay
<1> QED BY <1>1, <1>2 DEF NothingStranded

LEMMA WireStepsKeep ==
    Sound /\ (ReplyArrives \/ CommandTimesOut \/ \E id \in Ids : ChromeRefuses(id)) => GoodNext
<1>1. ASSUME Sound, ReplyArrives PROVE GoodNext
  <2>1. UNCHANGED <<view, opening, pc, held, clean, contexts, faults, restarts>>
    BY <1>1 DEF ReplyArrives, source, hands, env
  <2>2. UNCHANGED <<closed, asked>>
    BY <1>1 DEF ReplyArrives, Receive
  <2>3. Wire'
    BY <1>1, ReplyKeepsWire DEF Sound
  <2>4. OneOpens' /\ FailuresPass'
    BY <1>1, <2>1, OpensStay
  <2>5. NothingStranded'
    BY <1>1, <2>1, <2>2, NobodyLetsGo
  <2> QED BY <1>1, <2>2, <2>3, <2>4, <2>5 DEF GoodNext, Sound, Calm
<1>2. ASSUME Sound, CommandTimesOut PROVE GoodNext
  <2>1. Fault /\ UNCHANGED <<view, opening, pc, restarts, closed>>
    BY <1>2 DEF CommandTimesOut, source, Timeout
  <2> QED BY <1>2, <2>1, FaultKeeps, TimeoutKeepsWire DEF GoodNext, Sound, Calm
<1>3. ASSUME NEW id \in Ids, Sound, ChromeRefuses(id) PROVE GoodNext
  <2>1. Fault /\ UNCHANGED <<view, opening, pc, restarts, closed>>
    BY <1>3 DEF ChromeRefuses, ChromeAnswers, source, connection
  <2> QED BY <1>3, <2>1, FaultKeeps, RefusalKeepsWire DEF GoodNext, Sound, Calm
<1> QED BY <1>1, <1>2, <1>3

-------------------------------------------------------------------------------
(* Types, whatever happens to Chrome, and the invariant. *)

HIDE DEF PlacesOK, MessagesOK, RestOK, At

(* The places a caller may come to.                                        *)
MayBeAt(c, place) ==
    /\ place \in At
    /\ c \in Viewers => place \notin {"driving", "disposing", "closed"}
    /\ c \in Cases => place # "probing"

LEMMA PlacesStay ==
    ASSUME TypeOK, pc' \in [Callers -> At],
           \A c \in Callers : pc'[c] = pc[c] \/ MayBeAt(c, pc'[c])
    PROVE  PlacesOK'
BY CallersAssumption DEF TypeOK, PlacesOK, MayBeAt

LEMMA MovesTyped ==
    ASSUME TypeOK, NEW c \in Callers, NEW place, MayBeAt(c, place),
           pc' = [pc EXCEPT ![c] = place]
    PROVE  PlacesOK'
<1>1. pc' \in [Callers -> At]
  BY DEF TypeOK, PlacesOK, MayBeAt
<1>2. \A d \in Callers : pc'[d] = pc[d] \/ MayBeAt(d, pc'[d])
  BY DEF TypeOK
<1> QED BY <1>1, <1>2, PlacesStay

LEMMA SendsTyped ==
    ASSUME TypeOK, ConnectionInv, NEW c \in Callers, NEW method \in Methods,
           NEW context \in 0..MaxCommands, NEW await, MayBeAt(c, await),
           Sends(c, method, context, await)
    PROVE  PlacesOK' /\ MessagesOK'
<1>1. PlacesOK'
  BY MovesTyped DEF Sends
<1>2. CASE UNCHANGED message
  BY <1>1, <1>2 DEF TypeOK, MessagesOK, RestOK
<1>3. CASE message' = [message EXCEPT ![nextId] = [method |-> method, context |-> context, from |-> c]]
  <2> DEFINE Messages == [method : Methods \cup {"none"}, context : 0..MaxCommands,
                          from : Callers \cup {NoOne}]
             new == [method |-> method, context |-> context, from |-> c]
  <2>1. new \in Messages
    OBVIOUS
  <2>2. message \in [Ids -> Messages]
    BY DEF TypeOK, MessagesOK
  <2>3. message' = [message EXCEPT ![nextId] = new]
    BY <1>3
  <2> HIDE DEF new, Messages
  <2>4. message' \in [Ids -> Messages]
    BY <2>1, <2>2, <2>3
  <2> QED BY <1>1, <2>4 DEF MessagesOK, Messages
<1> QED BY <1>2, <1>3 DEF Sends

LEMMA OpensTyped ==
    ASSUME TypeOK, ConnectionInv, NEW c \in Callers, OpensSession(c)
    PROVE  PlacesOK' /\ MessagesOK'
<1>1. MayBeAt(c, "creating") /\ MayBeAt(c, "connecting")
  BY DEF MayBeAt, At, Opens
<1>2. CASE link = "up"
  <2>1. Sends(c, "create", NoSession, "creating") /\ "create" \in Methods /\ NoSession \in 0..MaxCommands
    BY <1>2, CommandBound DEF OpensSession, Methods, NoSession
  <2> QED BY <1>1, <2>1, SendsTyped
<1>3. CASE link # "up"
  <2>1. pc' = [pc EXCEPT ![c] = "connecting"] /\ UNCHANGED message
    BY <1>3 DEF OpensSession
  <2> QED BY <1>1, <2>1, MovesTyped DEF TypeOK, MessagesOK, RestOK
<1> QED BY <1>2, <1>3

LEMMA JoinsTyped ==
    ASSUME TypeOK, ConnectionInv, NEW v \in Viewers, NEW fresh \in BOOLEAN, JoinsOrOpens(v, fresh)
    PROVE  /\ PlacesOK' /\ MessagesOK'
           /\ opening' \in Viewers \cup {NoOne} /\ clean' \in [Viewers -> BOOLEAN]
<1>0. v \in Callers
  BY CallersAssumption
<1>1. CASE opening # NoOne
  <2>1. /\ pc' = [pc EXCEPT ![v] = "joining"] /\ opening' = opening /\ message' = message
        /\ clean' = [clean EXCEPT ![v] = fresh /\ clean[opening]]
    BY <1>1 DEF JoinsOrOpens
  <2>2. MayBeAt(v, "joining")
    BY DEF MayBeAt, At
  <2>3. (fresh /\ clean[opening]) \in BOOLEAN
    OBVIOUS
  <2> QED BY <1>0, <2>1, <2>2, <2>3, MovesTyped DEF TypeOK, MessagesOK, RestOK
<1>2. CASE opening = NoOne
  <2>1. /\ opening' = v /\ clean' = [clean EXCEPT ![v] = fresh] /\ OpensSession(v)
    BY <1>2 DEF JoinsOrOpens
  <2> QED BY <1>0, <2>1, OpensTyped DEF TypeOK, RestOK
<1> QED BY <1>1, <1>2

LEMMA GiveUpTyped ==
    ASSUME TypeOK, NEW some, GiveUp(some)
    PROVE  PlacesOK' /\ opening' \in Viewers \cup {NoOne}
<1> DEFINE joined == IF opening \in some THEN Joining ELSE {}
<1>1. /\ pc' = [c \in Callers |-> IF c \in some \cup joined THEN "failed" ELSE pc[c]]
      /\ opening' = IF opening \in some THEN NoOne ELSE opening
  BY DEF GiveUp
<1> HIDE DEF joined
<1>2. \A c \in Callers : pc[c] \in At /\ (pc'[c] = pc[c] \/ pc'[c] = "failed")
  BY <1>1 DEF TypeOK, PlacesOK, At
<1>3. \A c \in Callers : MayBeAt(c, "failed")
  BY DEF MayBeAt, At
<1>4. PlacesOK'
  <2>1. pc' \in [Callers -> At]
    BY <1>1, <1>2 DEF At
  <2> QED BY <1>2, <1>3, <2>1, PlacesStay
<1> QED BY <1>1, <1>4 DEF TypeOK, RestOK

LEMMA ForgottenTyped ==
    ASSUME TypeOK,
           \/ message' = message
           \/ \E id \in Ids : message' = [message EXCEPT ![id] = Nothing]
           \/ message' = [id \in Ids |-> Nothing]
    PROVE  MessagesOK'
<1>1. Nothing \in [method : Methods \cup {"none"}, context : 0..MaxCommands, from : Callers \cup {NoOne}]
  BY CommandBound DEF Nothing, NoSession
<1> QED BY <1>1 DEF TypeOK, MessagesOK

LEMMA TypeStep == TypeOK /\ ConnectionInv /\ [Next]_vars => TypeOK'
<1> SUFFICES ASSUME TypeOK, ConnectionInv, [Next]_vars PROVE TypeOK'
  OBVIOUS
<1>0. /\ Viewers \subseteq Callers /\ Cases \subseteq Callers /\ Viewers \cap Cases = {}
      /\ \A c \in Callers : asked[c] \in 0..MaxCommands
      /\ {"create", "attach", "probe", "dispose"} \subseteq Methods /\ NoSession \in 0..MaxCommands
  BY CallersAssumption, CommandBound DEF ConnectionInv, ConnectionTypeOK, Methods, NoSession
<1>1. /\ UNCHANGED message => MessagesOK'
      /\ UNCHANGED pc => PlacesOK'
      /\ UNCHANGED <<view, opening, held, contexts, clean, faults, restarts>> => RestOK'
  BY DEF TypeOK, MessagesOK, PlacesOK, RestOK, At
<1>f. Fault => faults' \in Nat /\ clean' \in [Viewers -> BOOLEAN]
  BY DEF Fault, TypeOK, RestOK
<1>2. CASE Connected
  <2>1. /\ pc' = [c \in Callers |-> IF pc[c] = "connecting" THEN "connected" ELSE pc[c]]
        /\ MessagesOK' /\ RestOK'
    BY <1>1, <1>2 DEF Connected, source, hands, env
  <2>2. pc' \in [Callers -> At] /\ \A c \in Callers : pc'[c] = pc[c] \/ MayBeAt(c, pc'[c])
    BY <2>1 DEF TypeOK, PlacesOK, At, Opens, MayBeAt
  <2> QED BY <2>1, <2>2, PlacesStay DEF TypeOK
<1>3. CASE ConnectFails
  <2>1. /\ GiveUp({c \in Callers : pc[c] = "connecting"}) /\ Fault
        /\ UNCHANGED <<message, view, held, contexts, restarts>>
    BY <1>3 DEF ConnectFails
  <2> QED BY <1>1, <1>f, <2>1, GiveUpTyped DEF RestOK, TypeOK
<1>4. ASSUME NEW c \in Callers, CreatesContext(c) PROVE TypeOK'
  <2>1. Sends(c, "create", NoSession, "creating") /\ RestOK'
    BY <1>1, <1>4 DEF CreatesContext, source, hands, env
  <2>2. MayBeAt(c, "creating")
    BY DEF MayBeAt, At, Sending
  <2> QED BY <1>0, <2>1, <2>2, SendsTyped DEF TypeOK
<1>5. ASSUME NEW c \in Callers, ContextIsCreated(c) PROVE TypeOK'
  <2>1. /\ Sends(c, "attach", asked[c], "attaching") /\ held' = [held EXCEPT ![c] = asked[c]]
        /\ UNCHANGED <<view, opening, contexts, clean, faults, restarts>>
    BY <1>5 DEF ContextIsCreated, source, env
  <2>2. MayBeAt(c, "attaching")
    BY DEF MayBeAt, At, Sending
  <2>3. RestOK'
    BY <1>0, <2>1 DEF RestOK, TypeOK
  <2> QED BY <1>0, <2>1, <2>2, <2>3, SendsTyped DEF TypeOK
<1>6. ASSUME NEW c \in Callers, OpeningFails(c) PROVE TypeOK'
  <2>1. GiveUp({c}) /\ UNCHANGED <<message, view, held, contexts, clean, faults, restarts>>
    BY <1>6 DEF OpeningFails, hands, env
  <2> QED BY <1>1, <2>1, GiveUpTyped DEF RestOK, TypeOK
<1>7. ASSUME NEW v \in Viewers, ProbeSucceeds(v) PROVE TypeOK'
  <2>1. pc' = [pc EXCEPT ![v] = "given"] /\ MessagesOK' /\ RestOK'
    BY <1>1, <1>7 DEF ProbeSucceeds, source, hands, env
  <2>2. MayBeAt(v, "given")
    BY <1>0 DEF MayBeAt, At
  <2> QED BY <1>0, <2>1, <2>2, MovesTyped DEF TypeOK
<1>8. ASSUME NEW v \in Viewers, ProbeFails(v) PROVE TypeOK'
  <2>1. /\ JoinsOrOpens(v, clean[v]) /\ view' = NoSession
        /\ UNCHANGED <<held, contexts, faults, restarts>>
    BY <1>8 DEF ProbeFails, env
  <2>2. clean[v] \in BOOLEAN
    BY DEF TypeOK, RestOK
  <2> QED BY <1>0, <2>1, <2>2, JoinsTyped DEF RestOK, TypeOK
<1>9. ASSUME NEW v \in Viewers, AsksForPage(v) PROVE TypeOK'
  <2>0. UNCHANGED <<contexts, faults, restarts>>
    BY <1>9 DEF AsksForPage, env
  <2>1. CASE view # NoSession
    <3>1. /\ held' = [held EXCEPT ![v] = view] /\ clean' = [clean EXCEPT ![v] = TRUE]
          /\ Sends(v, "probe", view, "probing") /\ view' = view /\ opening' = opening
      BY <1>9, <2>1 DEF AsksForPage, source
    <3>2. MayBeAt(v, "probing")
      BY <1>0 DEF MayBeAt, At, Sending
    <3>3. RestOK' /\ view \in 0..MaxCommands
      BY <2>0, <3>1 DEF RestOK, TypeOK
    <3> QED BY <1>0, <3>1, <3>2, <3>3, SendsTyped DEF TypeOK
  <2>2. CASE view = NoSession
    <3>1. JoinsOrOpens(v, TRUE) /\ view' = view /\ held' = held
      BY <1>9, <2>2 DEF AsksForPage
    <3> QED BY <2>0, <3>1, JoinsTyped DEF RestOK, TypeOK
  <2> QED BY <2>1, <2>2
<1>10. ASSUME NEW v \in Viewers, PageIsOpen(v) PROVE TypeOK'
  <2>1. /\ pc' = [c \in Callers |-> IF c \in Joining \cup {v} THEN "given" ELSE pc[c]]
        /\ view' = held[v] /\ opening' = NoOne
        /\ held' = [c \in Callers |-> IF c \in Joining THEN held[v] ELSE held[c]]
        /\ MessagesOK' /\ UNCHANGED <<contexts, clean, faults, restarts>>
    BY <1>1, <1>10 DEF PageIsOpen, env
  <2>2. pc' \in [Callers -> At] /\ \A c \in Callers : pc'[c] = pc[c] \/ MayBeAt(c, pc'[c])
    <3>1. Joining \cup {v} \subseteq Viewers
      BY DEF Joining
    <3> QED BY <1>0, <2>1, <3>1 DEF TypeOK, PlacesOK, At, MayBeAt
  <2>3. RestOK'
    BY <1>0, <2>1 DEF RestOK, TypeOK
  <2> QED BY <2>1, <2>2, <2>3, PlacesStay DEF TypeOK
<1>11. ASSUME NEW c \in Cases, CaseOpens(c) PROVE TypeOK'
  <2>1. OpensSession(c) /\ RestOK'
    BY <1>1, <1>11 DEF CaseOpens, source, hands, env
  <2> QED BY <1>0, <2>1, OpensTyped DEF TypeOK
<1>12. ASSUME NEW c \in Cases, CaseIsOpen(c) \/ CaseIsClosed(c) PROVE TypeOK'
  <2>1. PICK place \in {"driving", "closed"} :
           pc' = [pc EXCEPT ![c] = place] /\ MessagesOK' /\ RestOK'
    BY <1>1, <1>12 DEF CaseIsOpen, CaseIsClosed, source, hands, env
  <2>2. MayBeAt(c, place)
    BY <1>0 DEF MayBeAt, At
  <2> QED BY <1>0, <2>1, <2>2, MovesTyped DEF TypeOK
<1>13. ASSUME NEW c \in Cases, CaseCloses(c) PROVE TypeOK'
  <2>1. Sends(c, "dispose", held[c], "disposing") /\ RestOK' /\ held[c] \in 0..MaxCommands
    BY <1>0, <1>1, <1>13 DEF CaseCloses, source, hands, env, TypeOK, RestOK
  <2>2. MayBeAt(c, "disposing")
    BY <1>0 DEF MayBeAt, At, Sending
  <2> QED BY <1>0, <2>1, <2>2, SendsTyped DEF TypeOK
<1>14. ASSUME NEW id \in Ids, ChromeDoes(id) PROVE TypeOK'
  <2> DEFINE m == message[id]
             named == {x \in contexts : x.id = m.context}
  <2>1. /\ contexts' = CASE m.method = "create"  -> contexts \cup {Context(id, m.from)}
                         [] m.method = "dispose" -> contexts \ named
                         [] OTHER                -> contexts
        /\ message' = [message EXCEPT ![id] = Nothing]
        /\ UNCHANGED <<pc, view, opening, held, clean, faults, restarts>>
    BY <1>14 DEF ChromeDoes, source, hands
  <2>2. contexts' \subseteq contexts \cup {Context(id, m.from)}
    <3> HIDE DEF m, named
    <3>1. contexts' \in {contexts \cup {Context(id, m.from)}, contexts \ named, contexts}
      BY <2>1
    <3> QED BY <3>1
  <2>3. Context(id, m.from) \in [id : Ids, of : Callers \cup {NoOne}]
    BY DEF Context, TypeOK, MessagesOK
  <2>4. RestOK'
    BY <2>1, <2>2, <2>3 DEF TypeOK, RestOK
  <2> QED BY <1>1, <2>1, <2>4, ForgottenTyped DEF TypeOK
<1>15. ASSUME NEW id \in Ids, ChromeRefuses(id) PROVE TypeOK'
  <2>1. /\ Fault /\ message' = [message EXCEPT ![id] = Nothing]
        /\ UNCHANGED <<pc, view, opening, held, contexts, restarts>>
    BY <1>15 DEF ChromeRefuses, source
  <2> QED BY <1>1, <1>f, <2>1, ForgottenTyped DEF RestOK, TypeOK
<1>16. CASE CommandTimesOut
  <2>1. Fault /\ UNCHANGED <<message, pc, view, opening, held, contexts, restarts>>
    BY <1>16 DEF CommandTimesOut, source
  <2> QED BY <1>1, <1>f, <2>1 DEF RestOK, TypeOK
<1>17. CASE ReplyArrives \/ UNCHANGED vars
  <2>1. UNCHANGED <<message, pc, view, opening, held, contexts, clean, faults, restarts>>
    BY <1>17 DEF ReplyArrives, vars, source, hands, env
  <2> QED BY <1>1, <2>1 DEF TypeOK
<1>18. CASE ChromeRestarts
  <2>1. /\ contexts' = {} /\ clean' = [v \in Viewers |-> FALSE] /\ restarts' = restarts + 1
        /\ message' = [id \in Ids |-> Nothing]
        /\ UNCHANGED <<pc, view, opening, held, faults>>
    BY <1>18 DEF ChromeRestarts, source
  <2> QED BY <1>1, <2>1, ForgottenTyped DEF RestOK, TypeOK
<1> QED
  BY <1>2, <1>3, <1>4, <1>5, <1>6, <1>7, <1>8, <1>9, <1>10, <1>11, <1>12, <1>13, <1>14,
     <1>15, <1>16, <1>17, <1>18
     DEF Next, Progress, Viewing, OnCase

LEMMA GoodStep ==
    Sound /\ [Next]_vars /\ restarts' = 0 => GoodNext
<1> SUFFICES ASSUME Sound, [Next]_vars, restarts' = 0 PROVE GoodNext
  OBVIOUS
<1>1. ~ChromeRestarts
  BY DEF ChromeRestarts, Sound, Calm
<1>2. ASSUME UNCHANGED vars PROVE GoodNext
  <2>1. UNCHANGED <<nextId, closed, call, asked, atChrome, replies, view, opening, pc, held,
                    clean, message, contexts, faults, restarts>>
    BY <1>2 DEF vars, connectionVars, connection, source, hands, env
  <2>2. LocalStep
    <3>1. \A c \in Callers : Moves(c)
      BY <2>1 DEF Moves
    <3>2. faults' \in Nat /\ faults' >= faults
      BY <2>1 DEF Sound, Calm, TypeOK, RestOK
    <3> QED BY <1>2, <2>1, <3>1, <3>2 DEF LocalStep, vars
  <2>3. Wire' /\ ~closed'
    BY <2>1, <2>2, LocalKeepsWire DEF Sound, Calm
  <2>4. OneOpens' /\ FailuresPass'
    BY <2>1, OpensStay
  <2>5. NothingStranded'
    BY <2>1, NobodyLetsGo
  <2> QED BY <2>3, <2>4, <2>5 DEF GoodNext
<1> QED
  BY <1>1, <1>2, ConnectedKeeps, CreatesKeeps, ContextKeeps, ConnectFailsKeeps,
     OpeningFailsKeeps, ProbeSucceedsKeeps, ProbeFailsKeeps, PageIsOpenKeeps, AsksKeeps,
     CaseOpensKeeps, CaseClosesKeeps, CaseGoesOnKeeps, ChromeDoesKeeps, WireStepsKeep
     DEF Next, Progress, Viewing, OnCase

PagesInv ==
    /\ ConnectionInv /\ TypeOK
    /\ restarts = 0 => ~closed /\ Wire /\ OneOpens /\ FailuresPass /\ NothingStranded

LEMMA PagesInit == Init => PagesInv
<1> SUFFICES ASSUME Init PROVE PagesInv
  OBVIOUS
<1>1. ConnectionInv
  BY InitInv DEF Init
<1>2. TypeOK
  <2>1. PlacesOK
    BY CallersAssumption DEF Init, PlacesOK, At
  <2>2. MessagesOK
    BY CommandBound DEF Init, MessagesOK, Nothing, NoSession
  <2>3. RestOK
    BY CommandBound DEF Init, RestOK, NoSession
  <2> QED BY <2>1, <2>2, <2>3 DEF TypeOK
<1>3. \A c \in Callers : pc[c] = "idle"
  BY DEF Init
<1>4. atChrome = {} /\ replies = {} /\ contexts = {} /\ ~closed /\ view = NoSession /\ opening = NoOne
  BY DEF Init, ConnectionInit
<1>5. Wire
  BY <1>3, <1>4, CallersAssumption
     DEF Wire, IdsAreApart, CommandsAreOwn, PagesAreThere, CasesHoldTheirs,
         RefusalsAreFailures, NothingLate, Sending, Holding
<1>6. OneOpens /\ FailuresPass
  BY <1>3, <1>4, CallersAssumption DEF OneOpens, FailuresPass, Opens
<1>7. NothingStranded
  BY <1>4 DEF NothingStranded
<1> QED BY <1>1, <1>2, <1>4, <1>5, <1>6, <1>7 DEF PagesInv

LEMMA PagesStep == PagesInv /\ [Next]_vars => PagesInv'
<1> SUFFICES ASSUME PagesInv, [Next]_vars PROVE PagesInv'
  OBVIOUS
<1>1. ConnectionInv' /\ TypeOK'
  BY StepOn, StepInv, TypeStep DEF PagesInv, OnConnection
<1>2. ASSUME restarts' = 0 PROVE GoodNext
  <2>1. restarts = 0
    <3>1. restarts' = restarts \/ restarts' = restarts + 1
      BY DEF Next, Progress, Viewing, OnCase, vars, env, Connected, ConnectFails, ReplyArrives,
             CreatesContext, ContextIsCreated, OpeningFails, ProbeSucceeds, ProbeFails,
             PageIsOpen, AsksForPage, CaseOpens, CaseIsOpen, CaseCloses, CaseIsClosed,
             ChromeDoes, ChromeRefuses, CommandTimesOut, ChromeRestarts
    <3> QED BY <1>2, <3>1 DEF PagesInv, TypeOK, RestOK
  <2> QED BY <1>2, <2>1, GoodStep DEF PagesInv, Sound, Calm
<1> QED BY <1>1, <1>2 DEF PagesInv, GoodNext

LEMMA PagesHold == Spec => []PagesInv
BY PagesInit, PagesStep, PTL DEF Spec

(* #page() and those who joined its opening fail only for a failure of     *)
(* their own time, as long as Chrome is not restarted.                     *)
THEOREM FailuresAreExcused == Spec => []FailuresPass
<1>1. PagesInv => FailuresPass
  BY DEF PagesInv, FailuresPass
<1> QED BY <1>1, PagesHold, PTL

(* While nothing fails, the live view keeps one page and every case        *)
(* disposes of its own: whatever context there is has an owner.            *)
THEOREM NothingIsStranded == Spec => []NothingStranded
<1>1. PagesInv => NothingStranded
  BY DEF PagesInv, NothingStranded
<1> QED BY <1>1, PagesHold, PTL
===============================================================================
