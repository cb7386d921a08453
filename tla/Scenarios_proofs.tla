---------------------------- MODULE Scenarios_proofs ----------------------------
(***************************************************************************)
(* For any listing, any files to apply and any number of moves and of      *)
(* failing requests: what "scenario apply" says of a file is true, every   *)
(* run has a tick of its own, and the dialog never shows less than the     *)
(* tab's last save. The invariants are independent but for one: a save's   *)
(* revision is known by the request that carries it. Then, for any file,   *)
(* what a save makes of its text (ScenarioFile).                           *)
(***************************************************************************)
EXTENDS Scenarios, ScenarioFile, FiniteSetTheorems, SequenceTheorems, TLAPS

Texts == [rev : Nat, tagged : BOOLEAN]
Requests ==
    [at : {"none", "asked", "checked", "read", "answered"},
     op : {"none", "POST", "PUT", "DELETE"}, id : Ids, text : Texts, status : Nat]

Progress == [next : Nat \ {0}, failed : BOOLEAN, code : {-1, 0, 2}]

TypeInv ==
    /\ req \in [Slots -> Requests]
    /\ written \in [Ids -> Seq(Nat)]
    /\ revs \in Nat
    /\ apply \in Progress

Applying == req["apply"]

(* The request of the command is of the file it is at, and it is answered  *)
(* with success only if what it carries has been written.                  *)
ApplyAgrees ==
    Applying.at # "none" =>
        /\ apply.next \in DOMAIN Files
        /\ Applying.id = Files[apply.next]
        /\ Applying.op \in {"POST", "PUT"}
        /\ Applying.at = "answered" /\ Applying.status = 200 =>
              Contains(written[Applying.id], Applying.text.rev)

IInv == TypeInv /\ ApplyAgrees

LEMMA IInvInit == Init => IInv
<1> SUFFICES ASSUME Init PROVE IInv
  OBVIOUS
<1>1. NoRequest \in Requests
  BY ScenariosAssumption DEF NoRequest, NoFile, Requests, Texts
<1>2. written \in [Ids -> Seq(Nat)]
  BY DEF Init
<1>3. req = [c \in Slots |-> NoRequest] /\ apply = [next |-> 1, failed |-> FALSE, code |-> -1]
      /\ revs = 1
  BY DEF Init
<1>4. TypeInv
  BY <1>1, <1>2, <1>3 DEF TypeInv, Progress
<1>5. Applying.at = "none"
  BY <1>3 DEF Applying, NoRequest, Slots
<1> QED BY <1>4, <1>5 DEF IInv, ApplyAgrees

(* What has been written stays written.                                    *)
LEMMA WritesStay ==
    ASSUME TypeInv, NEW s \in Ids, NEW text \in Texts, Write(s, text)
    PROVE  /\ written' \in [Ids -> Seq(Nat)]
           /\ \A t \in Ids, r \in Nat : Contains(written[t], r) => Contains(written'[t], r)
           /\ Contains(written'[s], text.rev)
<1>1. written' = [written EXCEPT ![s] = Append(@, text.rev)] /\ text.rev \in Nat
  BY DEF Write, Texts
<1>2. written[s] \in Seq(Nat)
  BY DEF TypeInv
<1> DEFINE longer == Append(written[s], text.rev)
<1>3. /\ longer \in Seq(Nat) /\ Len(longer) = Len(written[s]) + 1
      /\ longer[Len(longer)] = text.rev
      /\ \A i \in 1..Len(written[s]) : longer[i] = written[s][i]
  BY <1>1, <1>2
<1>4. written'[s] = longer /\ \A t \in Ids : t # s => written'[t] = written[t]
  BY <1>1 DEF TypeInv
<1> HIDE DEF longer
<1>5. Contains(longer, text.rev) /\ \A r : Contains(written[s], r) => Contains(longer, r)
  <2>1. Len(longer) \in 1..Len(longer) /\ 1..Len(written[s]) \subseteq 1..Len(longer)
    BY <1>2, <1>3
  <2>2. Contains(longer, text.rev)
    BY <1>3, <2>1 DEF Contains
  <2>3. ASSUME NEW r, Contains(written[s], r) PROVE Contains(longer, r)
    <3>1. PICK i \in 1..Len(written[s]) : written[s][i] = r
      BY <2>3 DEF Contains
    <3> QED BY <1>3, <2>1, <3>1 DEF Contains
  <2> QED BY <2>2, <2>3
<1>6. written' \in [Ids -> Seq(Nat)]
  BY <1>1, <1>3 DEF TypeInv, longer
<1> QED BY <1>4, <1>5, <1>6

(* The next state of one request; the others stay as they are.             *)
LEMMA AnswerIs ==
    ASSUME TypeInv, NEW c \in Slots, NEW status \in Nat, Answer(c, status)
    PROVE  /\ req' \in [Slots -> Requests]
           /\ \A d \in Slots : d # c => req'[d] = req[d]
           /\ req'[c].at = "answered" /\ req'[c].status = status
           /\ UNCHANGED <<req[c].op, req[c].id, req[c].text>>
<1> DEFINE r == [req[c] EXCEPT !.at = "answered", !.status = status]
<1>1. req[c] \in Requests
  BY DEF TypeInv
<1>2. /\ r \in Requests /\ r.at = "answered" /\ r.status = status
      /\ r.op = req[c].op /\ r.id = req[c].id /\ r.text = req[c].text
  BY <1>1 DEF Requests
<1>3. req' = [req EXCEPT ![c] = r]
  BY DEF Answer, TypeInv
<1> HIDE DEF r
<1> QED BY <1>2, <1>3 DEF TypeInv

LEMMA GoesOn ==
    ASSUME TypeInv, NEW c \in Slots, NEW at \in {"checked", "read"},
           req' = [req EXCEPT ![c].at = at]
    PROVE  /\ req' \in [Slots -> Requests]
           /\ \A d \in Slots : d # c => req'[d] = req[d]
           /\ req'[c].at = at
           /\ UNCHANGED <<req[c].op, req[c].id, req[c].text>>
<1> DEFINE r == [req[c] EXCEPT !.at = at]
<1>1. req[c] \in Requests
  BY DEF TypeInv
<1>2. /\ r \in Requests /\ r.at = at
      /\ r.op = req[c].op /\ r.id = req[c].id /\ r.text = req[c].text
  BY <1>1 DEF Requests
<1>3. req' = [req EXCEPT ![c] = r]
  OBVIOUS
<1> HIDE DEF r
<1> QED BY <1>2, <1>3 DEF TypeInv

(* A request goes on without success: nothing is written.                  *)
LEMMA NothingWritten ==
    ASSUME IInv, NEW c \in Slots, UNCHANGED <<written, revs, apply>>,
           req' \in [Slots -> Requests], \A d \in Slots : d # c => req'[d] = req[d],
           UNCHANGED <<req[c].op, req[c].id, req[c].text>>, req[c].at # "none",
           c = "apply" => ~(req'[c].at = "answered" /\ req'[c].status = 200)
    PROVE  IInv'
<1>1. TypeInv'
  BY DEF IInv, TypeInv
<1>2. ApplyAgrees'
  <2>1. CASE c = "apply"
    BY <2>1 DEF IInv, ApplyAgrees, Applying
  <2>2. CASE c # "apply"
    <3>1. Applying' = Applying
      BY <2>2 DEF Applying, Slots
    <3> QED BY <3>1 DEF IInv, ApplyAgrees
  <2> QED BY <2>1, <2>2
<1> QED BY <1>1, <1>2 DEF IInv

(* A step of the endpoint on one request.                                  *)
LEMMA EndpointStep ==
    ASSUME IInv, NEW c \in Slots, Checks(c) \/ Reads(c) \/ Lands(c) \/ RequestFails(c)
    PROVE  IInv'
<1> USE DEF IInv
<1>0. UNCHANGED <<revs, apply>> /\ req[c].at # "none"
  BY DEF Checks, Reads, Lands, RequestFails
<1>1. ASSUME NEW status \in Nat, Answer(c, status), UNCHANGED written,
             c = "apply" => status # 200
      PROVE  IInv'
  BY <1>0, <1>1, AnswerIs, NothingWritten
<1>2. ASSUME NEW at \in {"checked", "read"}, req' = [req EXCEPT ![c].at = at],
             UNCHANGED written
      PROVE  IInv'
  BY <1>0, <1>2, GoesOn, NothingWritten
<1>3. CASE Checks(c) \/ Reads(c) \/ RequestFails(c)
  <2>1. UNCHANGED written
    BY <1>3 DEF Checks, Reads, RequestFails
  <2>2. \/ \E status \in {404, 409, 500} : Answer(c, status)
        \/ \E at \in {"checked", "read"} : req' = [req EXCEPT ![c].at = at]
    BY <1>3 DEF Checks, Reads, RequestFails
  <2> QED BY <1>1, <1>2, <2>1, <2>2
<1>4. CASE Lands(c)
  <2>1. CASE Write(req[c].id, req[c].text) /\ Answer(c, 200)
    <3>0. req[c].id \in Ids /\ req[c].text \in Texts
      BY DEF TypeInv, Requests
    <3>1. /\ written' \in [Ids -> Seq(Nat)]
          /\ \A t \in Ids, r \in Nat : Contains(written[t], r) => Contains(written'[t], r)
          /\ Contains(written'[req[c].id], req[c].text.rev)
      BY <2>1, <3>0, WritesStay
    <3>2. TypeInv'
      BY <1>0, <2>1, <3>1, AnswerIs DEF TypeInv
    <3>3. CASE c = "apply"
      BY <1>0, <2>1, <3>1, <3>2, <3>3, AnswerIs DEF ApplyAgrees, Applying
    <3>4. CASE c # "apply"
      <4>1. Applying' = Applying /\ Applying.id \in Ids /\ Applying.text.rev \in Nat
        BY <2>1, <3>4, AnswerIs DEF TypeInv, Applying, Slots, Requests, Texts
      <4> QED BY <1>0, <3>1, <3>2, <4>1 DEF ApplyAgrees
    <3> QED BY <3>3, <3>4
  <2>2. CASE ~(Write(req[c].id, req[c].text) /\ Answer(c, 200))
    <3>1. /\ req[c].op = "DELETE" /\ UNCHANGED written
          /\ \E status \in {200, 500} : Answer(c, status)
      BY <1>4, <2>2 DEF Lands
    <3>2. c # "apply"
      BY <1>0, <3>1 DEF ApplyAgrees, Applying
    <3> QED BY <1>1, <3>1, <3>2
  <2> QED BY <2>1, <2>2
<1> QED BY <1>3, <1>4

(* A request of the rail: not the command's.                               *)
LEMMA RailAsks ==
    ASSUME IInv, NEW c \in Slots, c # "apply", NEW r \in Requests, req' = [req EXCEPT ![c] = r],
           revs' \in Nat, UNCHANGED <<written, apply>>
    PROVE  IInv'
<1>1. Applying' = Applying
  BY DEF IInv, TypeInv, Applying, Slots
<1> QED BY <1>1 DEF IInv, TypeInv, ApplyAgrees

LEMMA RailStep ==
    ASSUME IInv, submit \/ Saved \/ Removed \/ \E s \in Ids : Confirms(s)
    PROVE  IInv'
<1> USE DEF IInv
<1>0. NoRequest \in Requests
  BY ScenariosAssumption DEF NoRequest, NoFile, Requests, Texts
<1>1. CASE submit
  <2>1. PICK tagged \in BOOLEAN : req' = [req EXCEPT !["save"] =
             [at |-> "asked", op |-> "PUT", id |-> Card, status |-> 0,
              text |-> [rev |-> revs + 1, tagged |-> tagged]]]
    BY <1>1 DEF submit
  <2>2. revs' \in Nat /\ revs + 1 \in Nat /\ UNCHANGED <<written, apply>>
    BY <1>1 DEF submit, TypeInv
  <2>3. [at |-> "asked", op |-> "PUT", id |-> Card, status |-> 0,
         text |-> [rev |-> revs + 1, tagged |-> tagged]] \in Requests
    BY <2>2, ScenariosAssumption DEF Requests, Texts
  <2> QED BY <2>1, <2>2, <2>3, RailAsks DEF Slots
<1>2. CASE Saved \/ Removed
  <2>1. \E c \in {"save", "remove"} : req' = [req EXCEPT ![c] = NoRequest]
    BY <1>2 DEF Saved, Removed
  <2>2. revs' \in Nat /\ UNCHANGED <<written, apply>>
    BY <1>2 DEF Saved, Removed, TypeInv
  <2> QED BY <1>0, <2>1, <2>2, RailAsks DEF Slots
<1>3. ASSUME NEW s \in Ids, Confirms(s) PROVE IInv'
  <2>1. req' = [req EXCEPT !["remove"] =
            [at |-> "asked", op |-> "DELETE", id |-> s, status |-> 0, text |-> NoFile]]
    BY <1>3 DEF Confirms
  <2>2. [at |-> "asked", op |-> "DELETE", id |-> s, status |-> 0, text |-> NoFile] \in Requests
    BY DEF NoFile, Requests, Texts
  <2>3. revs' \in Nat /\ UNCHANGED <<written, apply>>
    BY <1>3 DEF Confirms, TypeInv
  <2> QED BY <2>1, <2>2, <2>3, RailAsks DEF Slots
<1> QED BY <1>1, <1>2, <1>3

(* The command goes on to its next file.                                   *)
LEMMA NextFile ==
    ASSUME NEW a \in Progress, NEW b \in BOOLEAN
    PROVE  LET d == [a EXCEPT !.next = @ + 1, !.failed = b]
           IN  d \in Progress /\ d.failed = b /\ d.next = a.next + 1
<1> DEFINE e == [a EXCEPT !.next = @ + 1]
<1>1. e \in Progress /\ e.next = a.next + 1
  BY SMT DEF Progress
<1> HIDE DEF e
<1>2. /\ [e EXCEPT !.failed = b] \in Progress /\ [e EXCEPT !.failed = b].failed = b
      /\ [e EXCEPT !.failed = b].next = e.next
  BY <1>1, SMT DEF Progress
<1>3. [a EXCEPT !.next = @ + 1, !.failed = b] = [e EXCEPT !.failed = b]
  BY DEF e
<1> QED BY <1>1, <1>2, <1>3

(* The command ends with a code.                                           *)
LEMMA ExitsWith ==
    ASSUME NEW a \in Progress, NEW k \in {0, 2}
    PROVE  LET d == [a EXCEPT !.code = k] IN d \in Progress /\ d.next = a.next
  BY SMT DEF Progress

(* The command itself.                                                     *)
LEMMA CommandStep == IInv /\ Command => IInv'
<1> SUFFICES ASSUME IInv, Command PROVE IInv'
  OBVIOUS
<1> USE DEF IInv
<1>0. "apply" \in Slots /\ Applying \in Requests
  BY DEF TypeInv, Slots, Applying
<1>1. NoRequest \in Requests /\ NoRequest.at = "none"
  BY ScenariosAssumption DEF NoRequest, NoFile, Requests, Texts
<1>2. UNCHANGED written
  BY DEF Command, Applies, Applied, ApplyRaises, ApplyEnds
<1>3. ASSUME req' = [req EXCEPT !["apply"] = NoRequest], UNCHANGED revs,
             apply' \in Progress
      PROVE  IInv'
  <2>1. TypeInv'
    BY <1>1, <1>2, <1>3 DEF TypeInv
  <2>2. Applying'.at = "none"
    BY <1>0, <1>1, <1>3 DEF TypeInv, Applying
  <2> QED BY <2>1, <2>2 DEF ApplyAgrees
<1>4. CASE Applies
  <2>1. Applying.at = "none" /\ apply.next <= Len(Files)
    BY <1>4 DEF Applies, Applying
  <2>2. CASE revs' = revs + 1
    <3> DEFINE r == [at |-> "asked", op |-> "POST", id |-> Files[apply.next], status |-> 0,
                     text |-> [rev |-> revs + 1, tagged |-> FALSE]]
    <3>1. req' = [req EXCEPT !["apply"] = r] /\ UNCHANGED apply
      BY <1>4, <2>2 DEF Applies, TypeInv
    <3>2. apply.next \in DOMAIN Files /\ Files[apply.next] \in Ids
      BY <2>1, ScenariosAssumption DEF TypeInv, Progress
    <3>3. r \in Requests /\ r.at = "asked" /\ r.op = "POST" /\ r.id = Files[apply.next]
      BY <3>2 DEF TypeInv, Requests, Texts
    <3> HIDE DEF r
    <3>4. TypeInv'
      <4>1. req' \in [Slots -> Requests]
        BY <3>1, <3>3 DEF TypeInv
      <4>2. revs' \in Nat
        BY <2>2 DEF TypeInv
      <4> QED BY <1>2, <3>1, <4>1, <4>2 DEF TypeInv
    <3>5. Applying' = r
      BY <1>0, <3>1 DEF TypeInv, Applying
    <3> QED BY <3>1, <3>2, <3>3, <3>4, <3>5 DEF ApplyAgrees
  <2>3. CASE UNCHANGED <<revs, req>> /\ apply' = [apply EXCEPT !.next = @ + 1, !.failed = TRUE]
    <3>0. apply' \in Progress
      BY <2>3, NextFile DEF TypeInv
    <3>1. TypeInv'
      BY <1>2, <2>3, <3>0 DEF TypeInv
    <3> QED BY <2>1, <2>3, <3>1 DEF ApplyAgrees, Applying
  <2> QED BY <1>4, <2>2, <2>3 DEF Applies
<1>5. CASE Applied
  <2>1. UNCHANGED revs /\ Applying.at = "answered"
    BY <1>5 DEF Applied, Applying
  <2>2. CASE Applying.op = "POST" /\ Applying.status = 409
    <3> DEFINE r == [Applying EXCEPT !.at = "asked", !.op = "PUT"]
    <3>0. /\ UNCHANGED apply
          /\ req' = [req EXCEPT !["apply"].at = "asked", !["apply"].op = "PUT"]
      BY <1>5, <2>2 DEF Applied, Applying
    <3>1. UNCHANGED apply /\ req' = [req EXCEPT !["apply"] = r]
      BY <1>0, <3>0 DEF Applying, TypeInv
    <3>2. r \in Requests /\ r.at = "asked" /\ r.op = "PUT" /\ r.id = Applying.id
      BY <1>0 DEF Requests
    <3> HIDE DEF r
    <3>3. TypeInv'
      BY <1>2, <2>1, <3>1, <3>2 DEF TypeInv
    <3>4. Applying' = r
      BY <1>0, <3>1 DEF TypeInv, Applying
    <3> QED BY <2>1, <3>1, <3>2, <3>3, <3>4 DEF ApplyAgrees
  <2>3. CASE ~(Applying.op = "POST" /\ Applying.status = 409)
    <3>1. /\ req' = [req EXCEPT !["apply"] = NoRequest]
          /\ apply' = [apply EXCEPT !.next = @ + 1, !.failed = @ \/ Applying.status # 200]
      BY <1>5, <2>3 DEF Applied, Applying
    <3> DEFINE b == apply.failed \/ Applying.status # 200
    <3>2. apply' = [apply EXCEPT !.next = @ + 1, !.failed = b] /\ b \in BOOLEAN
      BY <3>1
    <3> HIDE DEF b
    <3>3. apply' \in Progress
      BY <3>2, NextFile DEF TypeInv
    <3> QED BY <1>3, <2>1, <3>1, <3>3
  <2> QED BY <2>2, <2>3
<1>6. CASE ApplyRaises
  <2>1. apply' \in Progress
    BY <1>6, ExitsWith DEF ApplyRaises, TypeInv
  <2> QED BY <1>3, <1>6, <2>1 DEF ApplyRaises
<1>7. CASE ApplyEnds
  <2>1. UNCHANGED <<revs, req>> /\ Applying.at = "none"
    BY <1>7 DEF ApplyEnds, Applying
  <2>2. PICK k \in {0, 2} : apply' = [apply EXCEPT !.code = k]
    BY <1>7 DEF ApplyEnds
  <2>3. apply' \in Progress /\ apply'.next = apply.next
    BY <2>2, ExitsWith DEF TypeInv
  <2>4. TypeInv'
    BY <1>2, <2>1, <2>3 DEF TypeInv
  <2> QED BY <2>1, <2>3, <2>4 DEF ApplyAgrees, Applying
<1> QED BY <1>4, <1>5, <1>6, <1>7 DEF Command

LEMMA IInvStep == IInv /\ [Next]_vars => IInv'
<1> SUFFICES ASSUME IInv, [Next]_vars PROVE IInv'
  OBVIOUS
<1>1. ASSUME UNCHANGED <<written, revs, req, apply>> PROVE IInv'
  BY <1>1 DEF IInv, TypeInv, ApplyAgrees, Applying
<1>2. CASE \E r \in reloads : ListingIsRead(r) \/ ReloadArrives(r) \/ ReloadFails(r)
  BY <1>1, <1>2 DEF ListingIsRead, ReloadArrives, ReloadFails
<1>3. CASE \E n \in 0..Len(batch.ids) : BatchIsAccepted(n)
  BY <1>1, <1>3 DEF BatchIsAccepted
<1>4. CASE toggleTag \/ clearTags \/ startSelected \/ BatchReplies \/ BatchReplyIsLost
           \/ OpensDialog \/ Dismisses \/ UNCHANGED vars \/ \E s \in Ids : Ticks(s)
  BY <1>1, <1>4 DEF toggleTag, clearTags, startSelected, BatchReplies, BatchReplyIsLost,
                    OpensDialog, Dismisses, vars, Ticks
<1> QED
  BY <1>2, <1>3, <1>4, EndpointStep, RailStep, CommandStep DEF Next, Server, Rail

(* "apply" counts a file as done only if what it says was on the disk of   *)
(* the server, whatever the rail creates, replaces and deletes beside it.  *)
THEOREM ApplyTellsTheTruth == Spec => ApplyIsHonest
<1>1. IInv /\ [Next]_vars =>
          [apply'.next > apply.next /\ ~apply'.failed =>
              Contains(written[Files[apply.next]], req["apply"].text.rev)]_vars
  <2> SUFFICES ASSUME IInv, Next, apply'.next > apply.next, ~apply'.failed
               PROVE  Contains(written[Files[apply.next]], req["apply"].text.rev)
    OBVIOUS
  <2>1. apply' # apply
    BY DEF IInv, TypeInv, Progress
  <2>2. Command
    BY <2>1 DEF Next, Server, Rail, Checks, Reads, Lands, RequestFails, ListingIsRead,
       BatchIsAccepted, ReloadArrives, ReloadFails, Ticks, Confirms, toggleTag, clearTags,
       startSelected, BatchReplies, BatchReplyIsLost, OpensDialog, Dismisses, submit, Saved,
       Removed
  <2>3. ~Applies /\ ~ApplyRaises /\ ~ApplyEnds
    <3>1. ~Applies
      BY <2>1, NextFile DEF Applies, IInv, TypeInv
    <3>2. ASSUME NEW k \in {0, 2}, apply' = [apply EXCEPT !.code = k] PROVE FALSE
      BY <3>2, ExitsWith DEF IInv, TypeInv, Progress
    <3>3. ~ApplyRaises /\ ~ApplyEnds
      BY <3>2 DEF ApplyRaises, ApplyEnds
    <3> QED BY <3>1, <3>3
  <2>4. Applied
    BY <2>2, <2>3 DEF Command
  <2>5. Applying.at = "answered" /\ Applying.status = 200
    <3>1. CASE UNCHANGED apply
      BY <2>1, <3>1
    <3> DEFINE b == apply.failed \/ Applying.status # 200
    <3>2. CASE apply' = [apply EXCEPT !.next = @ + 1, !.failed = b]
      <4>1. b \in BOOLEAN /\ (~b => Applying.status = 200)
        OBVIOUS
      <4> HIDE DEF b
      <4>2. ~b
        BY <3>2, <4>1, NextFile DEF IInv, TypeInv
      <4> QED BY <2>4, <4>1, <4>2 DEF Applied, Applying
    <3> QED BY <2>4, <3>1, <3>2 DEF Applied, Applying
  <2> QED BY <2>5 DEF IInv, ApplyAgrees, Applying
<1> QED BY <1>1, IInvInit, IInvStep, PTL DEF Spec, ApplyIsHonest

-------------------------------------------------------------------------------
(* Every run a batch was granted has a tick of its own. *)

Batches == [at : {"none", "posted", "answered"}, ids : Seq(Ids), count : Nat]

BatchType ==
    /\ selected \subseteq Ids
    /\ ticks \in [Ids -> Nat] /\ accepted \in [Ids -> Nat] /\ lost \in Nat
    /\ batch \in Batches
    /\ batch.at = "none" => batch.ids = <<>>
    /\ batch.at = "posted" => batch.count = 0
    /\ InRailOrder(batch.ids)

(* Still to come of the batch.                                             *)
Remains(s) == \E i \in DOMAIN batch.ids : i > batch.count /\ batch.ids[i] = s

(* What may be granted yet on ticks set so far: what is ticked, unless the *)
(* answer of the batch is about to replace the ticks, and the rest of the  *)
(* batch. Each of these has a tick that no run was granted on.             *)
Spare(s) ==
    \/ s \in selected /\ ~(batch.at = "answered" /\ batch.count > 0)
    \/ Remains(s)

TicksSpared == \A s \in Ids : Spare(s) => accepted[s] < ticks[s] + lost

BatchInv == BatchType /\ TicksSpared /\ EveryRunWasAskedFor

LEMMA BatchInit == Init => BatchInv
<1> SUFFICES ASSUME Init PROVE BatchInv
  OBVIOUS
<1>1. /\ selected = {} /\ lost = 0 /\ batch = [at |-> "none", ids |-> <<>>, count |-> 0]
      /\ ticks = [s \in Ids |-> 0] /\ accepted = [s \in Ids |-> 0]
  BY DEF Init, NoBatch
<1>2. BatchType
  BY <1>1 DEF BatchType, Batches, InRailOrder
<1> QED BY <1>1, <1>2 DEF BatchInv, TicksSpared, Spare, Remains, EveryRunWasAskedFor

(* The places of the ids in the listing tell them apart.                   *)
LEMMA PlaceIsItsOwn == \A s \in Ids : Place(s) \in Nat
<1> SUFFICES ASSUME NEW s \in Ids PROVE Place(s) \in Nat
  OBVIOUS
<1>1. \E i \in DOMAIN Listing : Listing[i] = s
  BY DEF Ids, ToSet
<1>2. Place(s) \in DOMAIN Listing
  BY <1>1 DEF Place
<1> QED BY <1>2, ScenariosAssumption DEF IsInjective

(* A batch names a scenario once.                                          *)
LEMMA NamedOnce ==
    ASSUME NEW ids \in Seq(Ids), InRailOrder(ids), NEW i \in DOMAIN ids, NEW j \in DOMAIN ids,
           ids[i] = ids[j]
    PROVE  i = j
<1>1. i \in Nat /\ j \in Nat /\ ids[i] \in Ids
  OBVIOUS
<1>2. Place(ids[i]) \in Nat
  BY <1>1, PlaceIsItsOwn
<1> QED BY <1>1, <1>2 DEF InRailOrder

(* Ticks only go, beside the batch.                                        *)
LEMMA TicksGo ==
    ASSUME BatchInv, selected' \subseteq selected, UNCHANGED <<batch, ticks, accepted, lost>>
    PROVE  BatchInv'
  BY DEF BatchInv, BatchType, TicksSpared, Spare, Remains, EveryRunWasAskedFor

LEMMA TickIsSpare == ASSUME BatchInv, NEW s \in Ids, Ticks(s) PROVE BatchInv'
<1>1. /\ selected' \subseteq selected \cup {s}
      /\ s \in selected => s \notin selected' /\ UNCHANGED ticks
      /\ s \notin selected => ticks' = [ticks EXCEPT ![s] = @ + 1]
      /\ UNCHANGED <<batch, accepted, lost>>
  <2>1. UNCHANGED <<batch, accepted, lost>>
    BY DEF Ticks, history
  <2>2. CASE s \in selected
    <3>1. ticks' = [ticks EXCEPT ![s] = @] /\ selected' = selected \ {s}
      BY <2>2 DEF Ticks
    <3> QED BY <2>1, <2>2, <3>1 DEF BatchInv, BatchType
  <2>3. CASE s \notin selected
    BY <2>1, <2>3 DEF Ticks
  <2> QED BY <2>2, <2>3
<1>3. ticks' \in [Ids -> Nat] /\ \A t \in Ids :
          ticks'[t] >= ticks[t] /\ (t \in selected' => t \in selected \/ ticks'[t] = ticks[t] + 1)
  BY <1>1 DEF BatchInv, BatchType
<1>2. BatchType'
  BY <1>1, <1>3 DEF BatchInv, BatchType
<1>4. ASSUME NEW t \in Ids, Spare(t)'
      PROVE  Spare(t) \/ ticks'[t] = ticks[t] + 1
  BY <1>1, <1>3, <1>4 DEF Spare, Remains
<1> QED
  BY <1>1, <1>2, <1>3, <1>4 DEF BatchInv, BatchType, TicksSpared, EveryRunWasAskedFor

LEMMA BatchIsPosted == ASSUME BatchInv, startSelected PROVE BatchInv'
<1> DEFINE chosen == Visible \cap selected
<1>1. PICK ids \in [1..Cardinality(chosen) -> chosen] :
          InRailOrder(ids) /\ batch' = [at |-> "posted", ids |-> ids, count |-> 0]
  BY DEF startSelected
<1>2. UNCHANGED <<selected, ticks, accepted, lost>>
  BY DEF startSelected, history
<1>3. Cardinality(chosen) \in Nat /\ chosen \subseteq Ids
  <2>1. IsFiniteSet(DOMAIN Listing)
    BY ScenariosAssumption, FS_Interval
  <2>2. IsFiniteSet(Ids)
    <3>1. Listing \in Surjection(DOMAIN Listing, Ids)
      BY ScenariosAssumption DEF Surjection, Ids, ToSet
    <3> QED BY <2>1, <3>1, FS_Surjection
  <2>3. chosen \subseteq Ids
    BY DEF BatchInv, BatchType
  <2> QED BY <2>2, <2>3, FS_Subset, FS_CardinalityType
<1>4. ids \in Seq(Ids)
  <2>1. ids \in [1..Cardinality(chosen) -> Ids]
    BY <1>3
  <2> HIDE DEF chosen
  <2> QED BY <1>3, <2>1
<1>5. BatchType'
  BY <1>1, <1>2, <1>4 DEF BatchInv, BatchType, Batches
<1>6. \A t \in Ids : Spare(t)' => Spare(t)
  BY <1>1, <1>2 DEF Spare, Remains, startSelected
<1> QED BY <1>2, <1>5, <1>6 DEF BatchInv, TicksSpared, EveryRunWasAskedFor

LEMMA BatchIsGranted ==
    ASSUME BatchInv, NEW n \in 0..Len(batch.ids), BatchIsAccepted(n)
    PROVE  BatchInv'
<1> DEFINE Granted(s) == \E i \in 1..n : batch.ids[i] = s
<1>1. /\ batch \in Batches /\ batch.at = "posted" /\ batch.count = 0 /\ n \in Nat
      /\ 1..n \subseteq DOMAIN batch.ids
  BY DEF BatchIsAccepted, BatchInv, BatchType, Batches
<1>2. /\ batch'.at = "answered" /\ batch'.ids = batch.ids /\ batch'.count = n
      /\ batch' \in Batches
  <2>1. batch' = [batch EXCEPT !.at = "answered", !.count = n]
    BY DEF BatchIsAccepted
  <2> QED BY <1>1, <2>1 DEF Batches
<1>3. /\ accepted' = [s \in Ids |-> IF Granted(s) THEN accepted[s] + 1 ELSE accepted[s]]
      /\ UNCHANGED <<selected, ticks, lost>>
  BY DEF BatchIsAccepted
<1>4. BatchType'
  BY <1>2, <1>3 DEF BatchInv, BatchType
<1>5. ASSUME NEW s \in Ids, Granted(s)
      PROVE  Spare(s) /\ ~Spare(s)'
  <2>1. PICK i \in 1..n : batch.ids[i] = s
    BY <1>5
  <2>2. Remains(s)
    BY <1>1, <2>1 DEF Remains
  <2>3. ~Remains(s)'
    <3>1. ASSUME NEW j \in DOMAIN batch.ids, batch.ids[j] = s PROVE j = i
      BY <1>1, <2>1, <3>1, NamedOnce DEF BatchInv, BatchType, Batches
    <3> QED BY <1>1, <1>2, <3>1 DEF Remains
  <2> QED BY <1>2, <2>1, <2>2, <2>3 DEF Spare
<1>6. ASSUME NEW s \in Ids, Spare(s)' PROVE Spare(s)
  BY <1>1, <1>2, <1>3, <1>6 DEF Spare, Remains
<1>7. ASSUME NEW s \in Ids
      PROVE  (Spare(s)' => accepted'[s] < ticks'[s] + lost') /\ accepted'[s] <= ticks'[s] + lost'
  BY <1>3, <1>5, <1>6 DEF BatchInv, BatchType, TicksSpared, EveryRunWasAskedFor
<1> QED BY <1>4, <1>7 DEF BatchInv, TicksSpared, EveryRunWasAskedFor

(* What is left of a sequence after its first n.                           *)
LEMMA RestIsTheRest ==
    ASSUME NEW q \in Seq(Ids), NEW n \in Nat, NEW k \in DOMAIN SubSeq(q, n + 1, Len(q))
    PROVE  n + k \in DOMAIN q /\ SubSeq(q, n + 1, Len(q))[k] = q[n + k]
<1>1. Len(q) \in Nat /\ k \in 1..(Len(q) - n)
  OBVIOUS
<1> QED BY <1>1

LEMMA BatchIsAnswered == ASSUME BatchInv, BatchReplies PROVE BatchInv'
<1>1. /\ batch.at = "answered" /\ batch' = NoBatch /\ UNCHANGED <<ticks, accepted, lost>>
      /\ batch \in Batches
  BY DEF BatchReplies, BatchInv, BatchType, history
<1>2. \A s \in selected' : s \in Ids /\ Spare(s)
  <2>1. CASE batch.count > 0 /\ batch.count # Len(batch.ids)
    <3> DEFINE rest == SubSeq(batch.ids, batch.count + 1, Len(batch.ids))
    <3>1. selected' = ToSet(rest)
      BY <2>1 DEF BatchReplies
    <3>2. ASSUME NEW k \in DOMAIN rest
          PROVE  rest[k] \in Ids /\ Remains(rest[k])
      <4>1. /\ batch.count \in Nat /\ batch.ids \in Seq(Ids)
        BY <1>1 DEF Batches
      <4>2. rest[k] = batch.ids[batch.count + k] /\ batch.count + k \in DOMAIN batch.ids
        BY <4>1, <3>2, RestIsTheRest
      <4>3. batch.count + k > batch.count /\ batch.ids[batch.count + k] \in Ids
        BY <4>1, <4>2, <3>2
      <4> HIDE DEF rest
      <4> QED BY <4>2, <4>3 DEF Remains
    <3> QED BY <3>1, <3>2 DEF ToSet, Spare
  <2>2. CASE ~(batch.count > 0 /\ batch.count # Len(batch.ids))
    <3>1. selected' = {} \/ (selected' = selected /\ ~(batch.count > 0))
      BY <2>2 DEF BatchReplies
    <3> QED BY <1>1, <3>1 DEF BatchInv, BatchType, Spare
  <2> QED BY <2>1, <2>2
<1>3. BatchType'
  BY <1>1, <1>2 DEF BatchInv, BatchType, Batches, NoBatch, InRailOrder
<1>4. ASSUME NEW s \in Ids, Spare(s)' PROVE Spare(s)
  BY <1>1, <1>2, <1>4 DEF Spare, Remains, NoBatch
<1> QED BY <1>1, <1>3, <1>4 DEF BatchInv, TicksSpared, EveryRunWasAskedFor

(* A lost answer: nothing is known of any tick, and one run more is none   *)
(* of the user's fault.                                                    *)
LEMMA AnswerIsLost == ASSUME BatchInv, BatchReplyIsLost PROVE BatchInv'
<1>1. batch' = NoBatch /\ lost' = lost + 1 /\ UNCHANGED <<selected, ticks, accepted>>
  BY DEF BatchReplyIsLost, history
<1>2. BatchType'
  BY <1>1 DEF BatchInv, BatchType, Batches, NoBatch, InRailOrder
<1> QED BY <1>1, <1>2 DEF BatchInv, BatchType, TicksSpared, EveryRunWasAskedFor

LEMMA BatchStep == BatchInv /\ [Next]_vars => BatchInv'
<1> SUFFICES ASSUME BatchInv, [Next]_vars PROVE BatchInv'
  OBVIOUS
<1>1. CASE \E c \in Slots : Checks(c) \/ Reads(c) \/ Lands(c) \/ RequestFails(c)
  BY <1>1, TicksGo DEF Checks, Reads, Lands, RequestFails, tab, history
<1>2. CASE \E r \in reloads : ListingIsRead(r) \/ ReloadArrives(r) \/ ReloadFails(r)
  BY <1>2, TicksGo DEF ListingIsRead, ReloadArrives, ReloadFails, history, retainAfterReload
<1>3. CASE toggleTag \/ clearTags \/ OpensDialog \/ Dismisses \/ submit \/ Saved \/ Removed
           \/ UNCHANGED vars \/ \E s \in Ids : Confirms(s)
  BY <1>3, TicksGo DEF toggleTag, clearTags, OpensDialog, Dismisses, submit, Saved, Removed,
                       Confirms, vars, tab, history, retainAfterReload
<1>4. CASE Command
  BY <1>4, TicksGo DEF Command, Applies, Applied, ApplyRaises, ApplyEnds, tab, history
<1> QED
  BY <1>1, <1>2, <1>3, <1>4, TickIsSpare, BatchIsPosted, BatchIsGranted, BatchIsAnswered,
     AnswerIsLost DEF Next, Server, Rail

(* Pressing the button again after a batch that was accepted in part runs  *)
(* nothing a second time, for any listing, however the ticks, the filter   *)
(* and the reloads move meanwhile.                                         *)
THEOREM RunsWereAskedFor == Spec => []EveryRunWasAskedFor
<1>1. BatchInv => EveryRunWasAskedFor
  BY DEF BatchInv
<1> QED BY <1>1, BatchInit, BatchStep, PTL DEF Spec

-------------------------------------------------------------------------------
(* A dialog shows the tab's own last save or something newer. *)

Reloads == [no : Nat, at : {"asked", "answered"}, listing : [Ids -> Texts], on : BOOLEAN]
Dialogs == [open : BOOLEAN, base : Nat, saving : BOOLEAN, saved : Nat, source : Nat, own : Nat]

DialogType ==
    /\ dir \in [Ids -> Texts] /\ list \in [Ids -> Texts]
    /\ requests \in Nat /\ shownAs \in Nat /\ filter \in BOOLEAN
    /\ reloads \subseteq Reloads
    /\ builder \in Dialogs

(* A file says what was written to it last.                                *)
DirIsLast ==
    \A s \in Ids : dir[s] # NoFile =>
        written[s] # <<>> /\ dir[s].rev = written[s][Len(written[s])]

Saving == req["save"]

(* No write that is yet to land is of the revision the dialog calls its    *)
(* own, and none comes twice.                                              *)
RevsAreNew ==
    /\ builder.own <= revs
    /\ req["remove"].at # "none" => req["remove"].op = "DELETE" /\ req["remove"].at # "read"
    /\ \A c \in {"save", "apply"} : req[c].at # "none" =>
          req[c].text.rev <= revs /\ req[c].text.rev # builder.own
    /\ Saving.at # "none" /\ Applying.at # "none" => Saving.text.rev # Applying.text.rev

ShowsOwn(rev) == NoOlder(Card, rev, builder.own)

(* The answer the rail would take, the list it has once the dialog's copy  *)
(* no longer counts, and what the dialog was opened with: none goes back   *)
(* behind the tab's own save.                                              *)
NothingOlder ==
    /\ \A r \in reloads :
          /\ r.no <= requests
          /\ r.at = "answered" /\ r.no = requests /\ r.listing[Card] # NoFile =>
                ShowsOwn(r.listing[Card].rev)
    /\ builder.saved # 0 =>
          /\ builder.saved = builder.own
          /\ builder.source # shownAs => ShowsOwn(list[Card].rev)
          /\ builder.open => ShowsOwn(builder.base)

DialogInv == DialogType /\ DirIsLast /\ RevsAreNew /\ NothingOlder

LEMMA DialogInit == Init => DialogInv
<1> SUFFICES ASSUME Init PROVE DialogInv
  OBVIOUS
<1>1. /\ dir = [s \in Ids |-> [rev |-> 1, tagged |-> TRUE]] /\ list = dir
      /\ written = [s \in Ids |-> <<1>>] /\ revs = 1 /\ req = [c \in Slots |-> NoRequest]
      /\ shownAs = 0 /\ requests = 0 /\ reloads = {} /\ filter = FALSE
      /\ builder = [open |-> FALSE, base |-> 0, saving |-> FALSE, saved |-> 0, source |-> 0, own |-> 0]
  BY DEF Init, Fresh
<1>2. DialogType
  BY <1>1 DEF DialogType, Texts, Dialogs
<1>3. DirIsLast
  BY <1>1 DEF DirIsLast
<1>4. RevsAreNew
  BY <1>1 DEF RevsAreNew, Saving, Applying, NoRequest, Slots
<1>5. NothingOlder
  BY <1>1 DEF NothingOlder
<1> QED BY <1>2, <1>3, <1>4, <1>5 DEF DialogInv

(* What a file says last is older than nothing written to it.              *)
LEMMA LastIsNewest ==
    ASSUME TypeInv, DirIsLast, NEW s \in Ids, dir[s] # NoFile, NEW old
    PROVE  NoOlder(s, dir[s].rev, old)
<1>1. /\ written[s] \in Seq(Nat) /\ written[s] # <<>>
      /\ dir[s].rev = written[s][Len(written[s])]
  BY DEF TypeInv, DirIsLast
<1>2. Len(written[s]) \in DOMAIN written[s] /\ \A j \in DOMAIN written[s] : Len(written[s]) >= j
  BY <1>1
<1> QED BY <1>1, <1>2 DEF NoOlder

(* A write of another revision leaves what was no older than old.          *)
LEMMA WritesKeepOrder ==
    ASSUME TypeInv, NEW s \in Ids, NEW text \in Texts, Write(s, text),
           NEW t \in Ids, NEW new, NEW old, text.rev # old, NoOlder(t, new, old)
    PROVE  NoOlder(t, new, old)'
<1>1. written' = [written EXCEPT ![s] = Append(@, text.rev)]
  BY DEF Write
<1>2. written[t] \in Seq(Nat) /\ text.rev \in Nat
  BY DEF TypeInv, Texts
<1>3. CASE t = s
  <2> DEFINE longer == Append(written[t], text.rev)
  <2>1. written'[t] = longer
    BY <1>1, <1>3 DEF TypeInv
  <2>2. /\ DOMAIN longer = 1..(Len(written[t]) + 1) /\ DOMAIN written[t] = 1..Len(written[t])
        /\ longer[Len(written[t]) + 1] = text.rev
        /\ \A i \in DOMAIN written[t] : longer[i] = written[t][i]
    BY <1>2
  <2> HIDE DEF longer
  <2>3. ASSUME NEW j \in DOMAIN longer, longer[j] = old
        PROVE  \E i \in DOMAIN longer : i >= j /\ longer[i] = new
    <3>1. j \in DOMAIN written[t] /\ written[t][j] = old
      BY <1>2, <2>2, <2>3
    <3>2. PICK i \in DOMAIN written[t] : i >= j /\ written[t][i] = new
      BY <3>1 DEF NoOlder
    <3> QED BY <1>2, <2>2, <3>2
  <2> QED BY <2>1, <2>3 DEF NoOlder
<1>4. CASE t # s
  BY <1>1, <1>4 DEF TypeInv, NoOlder
<1> QED BY <1>3, <1>4

(* A request goes on, and carries what it carried.                         *)
LEMMA CarriesOn ==
    ASSUME RevsAreNew, NEW c \in Slots, req[c].at # "none",
           \A d \in Slots : d # c => req'[d] = req[d],
           UNCHANGED <<req[c].op, req[c].text, revs, builder>>,
           c = "remove" => req'[c].at # "read"
    PROVE  RevsAreNew'
  BY DEF RevsAreNew, Saving, Applying, Slots

(* One request is over, the others are as they were.                       *)
LEMMA IsOver ==
    ASSUME TypeInv, RevsAreNew, NEW c \in Slots, req' = [req EXCEPT ![c] = NoRequest],
           UNCHANGED revs, UNCHANGED builder.own
    PROVE  RevsAreNew'
<1>1. req'[c].at = "none" /\ \A d \in Slots : d # c => req'[d] = req[d]
  BY DEF TypeInv, NoRequest
<1> QED BY <1>1 DEF RevsAreNew, Saving, Applying, Slots

LEMMA DialogThroughEndpoint ==
    ASSUME IInv, DialogInv, NEW c \in Slots,
           Checks(c) \/ Reads(c) \/ Lands(c) \/ RequestFails(c)
    PROVE  DialogInv'
<1> USE DEF IInv, DialogInv
<1>1. /\ UNCHANGED <<revs, list, shownAs, requests, filter, reloads, builder>>
      /\ req[c].at # "none" /\ req[c] \in Requests
  BY DEF Checks, Reads, Lands, RequestFails, tab, TypeInv
<1>2. RevsAreNew'
  <2>1. \/ \E status \in Nat : Answer(c, status)
        \/ \E at \in {"checked", "read"} : req' = [req EXCEPT ![c].at = at]
    BY DEF Checks, Reads, Lands, RequestFails
  <2>2. /\ \A d \in Slots : d # c => req'[d] = req[d]
        /\ UNCHANGED <<req[c].op, req[c].text>>
    BY <2>1, AnswerIs, GoesOn
  <2>3. c = "remove" => req'[c].at # "read"
    <3> SUFFICES ASSUME c = "remove" PROVE req'[c].at # "read"
      OBVIOUS
    <3>1. ~Reads(c)
      BY <1>1 DEF Reads, RevsAreNew
    <3>2. \/ \E status \in Nat : Answer(c, status)
          \/ req' = [req EXCEPT ![c].at = "checked"]
      BY <3>1 DEF Checks, Lands, RequestFails
    <3> QED BY <3>2, AnswerIs, GoesOn
  <2> QED BY <1>1, <2>2, <2>3, CarriesOn
<1>3. CASE UNCHANGED <<dir, written>>
  BY <1>1, <1>2, <1>3 DEF DialogType, DirIsLast, NothingOlder, ShowsOwn, NoOlder
<1>4. CASE UNCHANGED written /\ dir' = [dir EXCEPT ![req[c].id] = NoFile]
  <2>1. DialogType' /\ \A s \in Ids : dir'[s] \in {dir[s], NoFile}
    BY <1>1, <1>4 DEF DialogType, Texts, NoFile
  <2>2. DirIsLast'
    BY <1>4, <2>1 DEF DirIsLast
  <2> QED BY <1>1, <1>2, <1>4, <2>1, <2>2 DEF NothingOlder, ShowsOwn, NoOlder
<1>5. CASE Write(req[c].id, req[c].text) /\ c # "remove"
  <2>1. req[c].id \in Ids /\ req[c].text \in Texts
    BY <1>1 DEF Requests
  <2>2. req[c].text.rev # builder.own
    BY <1>1, <1>5 DEF RevsAreNew, Slots
  <2>3. DialogType'
    BY <1>1, <1>5, <2>1 DEF Write, DialogType
  <2>4. DirIsLast'
    <3>1. /\ dir' = [dir EXCEPT ![req[c].id] = req[c].text]
          /\ written' = [written EXCEPT ![req[c].id] = Append(@, req[c].text.rev)]
      BY <1>5 DEF Write
    <3>2. ASSUME NEW s \in Ids, dir'[s] # NoFile
          PROVE  written'[s] # <<>> /\ dir'[s].rev = written'[s][Len(written'[s])]
      <4>1. CASE s = req[c].id
        <5> DEFINE longer == Append(written[s], req[c].text.rev)
        <5>1. longer # <<>> /\ longer[Len(longer)] = req[c].text.rev
          <6>1. written[s] \in Seq(Nat) /\ req[c].text.rev \in Nat
            BY <2>1 DEF TypeInv, Texts
          <6> QED BY <6>1
        <5>2. written'[s] = longer /\ dir'[s] = req[c].text
          BY <3>1, <4>1 DEF TypeInv, DialogType
        <5> HIDE DEF longer
        <5> QED BY <5>1, <5>2
      <4>2. CASE s # req[c].id
        <5>1. dir'[s] = dir[s] /\ written'[s] = written[s]
          BY <3>1, <4>2 DEF TypeInv, DialogType
        <5> QED BY <3>2, <5>1 DEF DirIsLast
      <4> QED BY <4>1, <4>2
    <3> QED BY <3>2 DEF DirIsLast
  <2>5. \A rev : ShowsOwn(rev) => ShowsOwn(rev)'
    BY <1>1, <1>5, <2>1, <2>2, WritesKeepOrder, ScenariosAssumption DEF ShowsOwn
  <2>6. NothingOlder'
    BY <1>1, <2>5 DEF NothingOlder
  <2> QED BY <1>2, <2>3, <2>4, <2>6
<1>6. CASE Lands(c)
  <2>1. CASE c = "remove"
    <3>1. req[c].op = "DELETE" /\ req[c].at # "read"
      BY <1>1, <2>1 DEF RevsAreNew
    <3> QED BY <1>4, <1>6, <3>1 DEF Lands
  <2>2. CASE c # "remove"
    BY <1>4, <1>5, <1>6, <2>2 DEF Lands
  <2> QED BY <2>1, <2>2
<1>7. CASE Checks(c) \/ Reads(c) \/ RequestFails(c)
  BY <1>3, <1>7 DEF Checks, Reads, RequestFails
<1> QED BY <1>6, <1>7

(* The files and what was written to them stay.                            *)
LEMMA DiskStays ==
    ASSUME DialogInv, UNCHANGED <<dir, written>>
    PROVE  DirIsLast' /\ \A rev : UNCHANGED builder.own => ShowsOwn(rev)' = ShowsOwn(rev)
  BY DEF DialogInv, DirIsLast, ShowsOwn, NoOlder

LEMMA ListingIsNew ==
    ASSUME IInv, DialogInv, NEW r \in reloads, ListingIsRead(r)
    PROVE  DialogInv'
<1> USE DEF IInv, DialogInv
<1> DEFINE read == [r EXCEPT !.at = "answered", !.listing = dir]
<1>1. /\ reloads' = (reloads \ {r}) \cup {read}
      /\ UNCHANGED <<dir, written, revs, req, list, shownAs, requests, filter, builder>>
  BY DEF ListingIsRead
<1>2. read \in Reloads /\ read.no = r.no /\ read.listing = dir /\ r.no <= requests
  BY DEF DialogType, Reloads, NothingOlder
<1> HIDE DEF read
<1>3. DialogType'
  BY <1>1, <1>2 DEF DialogType
<1>4. dir[Card] # NoFile => ShowsOwn(dir[Card].rev)
  BY LastIsNewest, ScenariosAssumption DEF ShowsOwn
<1>5. NothingOlder'
  BY <1>1, <1>2, <1>4, DiskStays DEF NothingOlder
<1>6. RevsAreNew'
  BY <1>1 DEF RevsAreNew, Saving, Applying
<1> QED BY <1>1, <1>3, <1>5, <1>6, DiskStays

(* The dialog as its card leaves the rail.                                 *)
LEMMA GoneIsFresh ==
    ASSUME DialogType
    PROVE  LET gone == [Fresh EXCEPT !.own = builder.own]
           IN  gone \in Dialogs /\ gone.saved = 0 /\ gone.own = builder.own
  BY DEF DialogType, Dialogs, Fresh

LEMMA ReloadIsShown ==
    ASSUME DialogInv, NEW r \in reloads, ReloadArrives(r)
    PROVE  DialogInv'
<1> USE DEF DialogInv
<1>1. /\ reloads' = reloads \ {r} /\ r \in Reloads
      /\ UNCHANGED <<dir, written, revs, req, requests, filter>>
  BY DEF ReloadArrives, DialogType
<1>2. CASE r.no # requests
  <2>1. UNCHANGED <<list, shownAs, builder>>
    BY <1>2 DEF ReloadArrives
  <2> QED BY <1>1, <2>1, DiskStays DEF DialogType, RevsAreNew, Saving, Applying, NothingOlder
<1>3. CASE r.no = requests
  <2>1. list' = r.listing /\ shownAs' = r.no /\ r.at = "answered" /\ Mounts(r.listing, filter)
    BY <1>3 DEF ReloadArrives
  <2>2. \/ UNCHANGED builder /\ r.listing[Card] # NoFile
        \/ builder' = [Fresh EXCEPT !.own = builder.own]
    BY <2>1 DEF Mounts, filterByTags
  <2>3. builder' \in Dialogs /\ UNCHANGED builder.own
    BY <2>2, GoneIsFresh DEF DialogType
  <2>4. DialogType'
    BY <1>1, <2>1, <2>3 DEF DialogType, Reloads
  <2>5. RevsAreNew'
    BY <1>1, <2>3 DEF RevsAreNew, Saving, Applying
  <2>6. NothingOlder'
    BY <1>1, <1>3, <2>1, <2>2, <2>3, DiskStays, GoneIsFresh DEF NothingOlder
  <2> QED BY <1>1, <2>4, <2>5, <2>6, DiskStays
<1> QED BY <1>2, <1>3

(* The rail filters, opens and closes the dialog, or drops a reload.       *)
LEMMA DialogMoves ==
    ASSUME IInv, DialogInv,
           toggleTag \/ clearTags \/ OpensDialog \/ Dismisses \/ \E r \in reloads : ReloadFails(r)
    PROVE  DialogInv'
<1> USE DEF DialogInv
<1>1. /\ UNCHANGED <<dir, written, revs, req, list, shownAs, requests>>
      /\ reloads' \subseteq reloads /\ filter' \in BOOLEAN
  BY DEF toggleTag, clearTags, OpensDialog, Dismisses, ReloadFails, DialogType
<1>2. ASSUME builder' \in Dialogs, UNCHANGED builder.own,
             builder'.saved # 0 =>
                /\ UNCHANGED <<builder.saved, builder.source>>
                /\ builder'.open => ShowsOwn(builder'.base)
      PROVE  DialogInv'
  <2>1. DialogType' /\ RevsAreNew'
    BY <1>1, <1>2 DEF DialogType, RevsAreNew, Saving, Applying
  <2>2. NothingOlder'
    BY <1>1, <1>2, DiskStays DEF NothingOlder
  <2> QED BY <1>1, <2>1, <2>2, DiskStays
<1>3. CASE UNCHANGED builder
  BY <1>2, <1>3 DEF DialogType, NothingOlder
<1>4. CASE builder' = [Fresh EXCEPT !.own = builder.own]
  BY <1>2, <1>4, GoneIsFresh
<1>5. CASE OpensDialog
  <2>1. builder' = [builder EXCEPT !.open = TRUE, !.base = initial]
    BY <1>5 DEF OpensDialog
  <2>2. initial \in Nat
    BY ScenariosAssumption DEF initial, DialogType, Dialogs, Texts
  <2> DEFINE dialog == [builder EXCEPT !.open = TRUE]
  <2>3. dialog \in Dialogs /\ dialog.own = builder.own /\ dialog.saved = builder.saved
        /\ dialog.source = builder.source
    BY DEF DialogType, Dialogs
  <2>4. builder' = [dialog EXCEPT !.base = initial]
    BY <2>1
  <2> HIDE DEF dialog
  <2>5. /\ builder' \in Dialogs /\ builder'.base = initial
        /\ UNCHANGED <<builder.own, builder.saved, builder.source>>
    BY <2>2, <2>3, <2>4 DEF Dialogs
  <2>6. builder.saved # 0 => ShowsOwn(initial)
    <3>1. written[Card] \in Seq(Nat)
      BY ScenariosAssumption DEF IInv, TypeInv
    <3>2. ShowsOwn(builder.own)
      BY <3>1 DEF ShowsOwn, NoOlder
    <3> QED BY <3>2 DEF NothingOlder, initial
  <2> QED BY <1>2, <2>5, <2>6
<1>6. CASE Dismisses
  <2>1. builder' = [builder EXCEPT !.open = FALSE]
    BY <1>6 DEF Dismisses
  <2>2. builder' \in Dialogs /\ ~builder'.open
        /\ UNCHANGED <<builder.own, builder.saved, builder.source>>
    BY <2>1 DEF DialogType, Dialogs
  <2> QED BY <1>2, <2>2
<1> QED
  BY <1>3, <1>4, <1>5, <1>6 DEF toggleTag, clearTags, ReloadFails, Mounts

LEMMA DialogAsks ==
    ASSUME IInv, DialogInv, submit \/ \E s \in Ids : Confirms(s)
    PROVE  DialogInv'
<1> USE DEF IInv, DialogInv
<1>1. UNCHANGED <<dir, written, list, shownAs, requests, filter, reloads>>
  BY DEF submit, Confirms, tab
<1>2. CASE submit
  <2>1. PICK tagged \in BOOLEAN : req' = [req EXCEPT !["save"] =
             [at |-> "asked", op |-> "PUT", id |-> Card, status |-> 0,
              text |-> [rev |-> revs + 1, tagged |-> tagged]]]
    BY <1>2 DEF submit
  <2>2. /\ builder' = [builder EXCEPT !.saving = TRUE] /\ revs' = revs + 1 /\ revs \in Nat
        /\ builder.own \in Nat
    BY <1>2 DEF submit, TypeInv, DialogType, Dialogs
  <2>3. /\ builder' \in Dialogs /\ UNCHANGED <<builder.own, builder.saved, builder.source>>
        /\ UNCHANGED <<builder.open, builder.base>>
    BY <2>2 DEF DialogType, Dialogs
  <2>4. /\ req'["save"].text.rev = revs + 1
        /\ \A d \in Slots : d # "save" => req'[d] = req[d]
    BY <2>1 DEF TypeInv, Slots
  <2>5. \A d \in Slots : req[d].text.rev \in Nat
    BY DEF TypeInv, Requests, Texts
  <2>6. RevsAreNew'
    BY <2>2, <2>3, <2>4, <2>5 DEF RevsAreNew, Saving, Applying, Slots
  <2>7. DialogType'
    BY <1>1, <2>3 DEF DialogType
  <2>8. NothingOlder'
    BY <1>1, <2>3, DiskStays DEF NothingOlder
  <2> QED BY <1>1, <2>6, <2>7, <2>8, DiskStays
<1>3. ASSUME NEW s \in Ids, Confirms(s)
      PROVE  DialogInv'
  <2>1. /\ req' = [req EXCEPT !["remove"] =
               [at |-> "asked", op |-> "DELETE", id |-> s, status |-> 0, text |-> NoFile]]
        /\ UNCHANGED <<revs, builder>>
    BY <1>3 DEF Confirms, tab
  <2>2. RevsAreNew'
    BY <2>1 DEF TypeInv, RevsAreNew, Saving, Applying, Slots
  <2>3. DialogType' /\ NothingOlder'
    BY <1>1, <2>1, DiskStays DEF DialogType, NothingOlder
  <2> QED BY <1>1, <2>2, <2>3, DiskStays
<1> QED BY <1>2, <1>3

(* The rail asks for a listing: what is on its way counts no more.         *)
LEMMA RailReloads ==
    ASSUME DialogType, NothingOlder, reloadScenarios, UNCHANGED filter
    PROVE  /\ requests' \in Nat /\ reloads' \subseteq Reloads
           /\ \A r \in reloads' : r.no <= requests' /\ (r.no = requests' => r.at = "asked")
<1>1. /\ requests' = requests + 1 /\ reloads' = reloads \cup {Reload}
      /\ Reload.no = requests + 1 /\ Reload.at = "asked"
  BY DEF reloadScenarios, Reload
<1>2. Reload \in Reloads
  BY DEF Reload, Reloads, DialogType, NoFile, Texts
<1>3. \A r \in reloads : r.no \in Nat /\ r.no <= requests
  BY DEF DialogType, Reloads, NothingOlder
<1> QED BY <1>1, <1>2, <1>3 DEF DialogType

LEMMA DialogIsTold ==
    ASSUME IInv, DialogInv, Saved \/ Removed
    PROVE  DialogInv'
<1> USE DEF IInv, DialogInv
<1>1. UNCHANGED <<dir, written, revs, list, shownAs, filter>>
  BY DEF Saved, Removed
<1>2. \/ reloadScenarios
      \/ UNCHANGED <<requests, reloads>>
  BY DEF Saved, Removed
<1>3. /\ requests' \in Nat /\ reloads' \subseteq Reloads
      /\ \A r \in reloads' : r.no <= requests'
      /\ \/ \A r \in reloads' : r.no = requests' => r.at = "asked"
         \/ UNCHANGED <<requests, reloads>>
  BY <1>1, <1>2, RailReloads DEF DialogType, NothingOlder
<1>4. ASSUME builder' \in Dialogs, UNCHANGED <<builder.own, builder.saved, builder.source>>,
             UNCHANGED <<builder.open, builder.base>>,
             \E c \in Slots : req' = [req EXCEPT ![c] = NoRequest]
      PROVE  DialogInv'
  <2>1. DialogType' /\ RevsAreNew'
    BY <1>1, <1>3, <1>4, IsOver DEF DialogType
  <2>2. NothingOlder'
    BY <1>1, <1>3, <1>4, DiskStays DEF NothingOlder
  <2> QED BY <1>1, <2>1, <2>2, DiskStays
<1>5. CASE Removed
  <2>1. UNCHANGED builder /\ req' = [req EXCEPT !["remove"] = NoRequest]
    BY <1>5 DEF Removed
  <2> QED BY <1>4, <2>1 DEF Slots, DialogType
<1>6. CASE Saved /\ (builder' = builder \/ builder' = [builder EXCEPT !.saving = FALSE])
  <2>1. req' = [req EXCEPT !["save"] = NoRequest]
    BY <1>6 DEF Saved
  <2>2. /\ builder' \in Dialogs /\ UNCHANGED <<builder.own, builder.saved, builder.source>>
        /\ UNCHANGED <<builder.open, builder.base>>
    BY <1>6 DEF DialogType, Dialogs
  <2> QED BY <1>4, <2>1, <2>2 DEF Slots
<1>7. CASE Saved /\ ~(builder' = builder \/ builder' = [builder EXCEPT !.saving = FALSE])
  <2>1. /\ Saving.at = "answered" /\ reloadScenarios
        /\ req' = [req EXCEPT !["save"] = NoRequest]
        /\ builder' = [builder EXCEPT !.open = FALSE, !.saving = FALSE, !.saved = Saving.text.rev,
                                      !.source = shownAs, !.own = Saving.text.rev]
    BY <1>7 DEF Saved, Saving
  <2>2. /\ builder'.saved = Saving.text.rev /\ builder'.own = Saving.text.rev
        /\ builder'.source = shownAs /\ ~builder'.open /\ builder' \in Dialogs
    <3>1. Saving.text.rev \in Nat /\ builder \in Dialogs /\ shownAs \in Nat
      BY DEF Saving, TypeInv, Slots, Requests, Texts, DialogType
    <3> DEFINE closed == [builder EXCEPT !.open = FALSE]
               idle == [closed EXCEPT !.saving = FALSE]
    <3>2. closed \in Dialogs /\ ~closed.open
      BY <3>1 DEF Dialogs
    <3> HIDE DEF closed
    <3>3. idle \in Dialogs /\ idle.open = closed.open
      BY <3>2 DEF Dialogs
    <3> HIDE DEF idle
    <3>4. builder' = [idle EXCEPT !.saved = Saving.text.rev, !.source = shownAs,
                                  !.own = Saving.text.rev]
      BY <2>1 DEF idle, closed
    <3> QED BY <3>1, <3>2, <3>3, <3>4 DEF Dialogs
  <2>3. DialogType'
    BY <1>1, <1>3, <2>2 DEF DialogType
  <2>4. RevsAreNew'
    <3>1. req'["save"].at = "none" /\ \A d \in Slots : d # "save" => req'[d] = req[d]
      BY <2>1 DEF TypeInv, NoRequest, Slots
    <3> QED BY <1>1, <2>1, <2>2, <3>1 DEF RevsAreNew, Saving, Applying, Slots
  <2>5. \A r \in reloads' : r.no = requests' => r.at = "asked"
    BY <1>1, <2>1, RailReloads
  <2>6. NothingOlder'
    BY <1>1, <1>3, <2>2, <2>5 DEF NothingOlder
  <2> QED BY <1>1, <2>3, <2>4, <2>6, DiskStays
<1> QED BY <1>5, <1>6, <1>7

LEMMA DialogBesideCommand ==
    ASSUME IInv, DialogInv, Command
    PROVE  DialogInv'
<1> USE DEF IInv, DialogInv
<1>1. UNCHANGED <<dir, written, list, shownAs, requests, filter, reloads, builder>>
  BY DEF Command, Applies, Applied, ApplyRaises, ApplyEnds, tab
<1>2. DialogType' /\ NothingOlder'
  BY <1>1, DiskStays DEF DialogType, NothingOlder
<1>3. RevsAreNew'
  <2>1. CASE UNCHANGED <<req, revs>>
    BY <1>1, <2>1 DEF RevsAreNew, Saving, Applying
  <2>2. CASE req' = [req EXCEPT !["apply"] = NoRequest] /\ UNCHANGED revs
    BY <1>1, <2>2, IsOver DEF Slots
  <2>3. CASE req' = [req EXCEPT !["apply"].at = "asked", !["apply"].op = "PUT"]
             /\ UNCHANGED revs /\ Applying.at # "none"
    <3> DEFINE r == [Applying EXCEPT !.at = "asked", !.op = "PUT"]
    <3>1. Applying \in Requests
      BY DEF Applying, TypeInv, Slots
    <3>2. r.text = Applying.text
      BY <3>1 DEF Requests
    <3>3. req' = [req EXCEPT !["apply"] = r]
      BY <2>3 DEF Applying, TypeInv, Slots
    <3> HIDE DEF r
    <3>4. req'["apply"] = r /\ \A d \in Slots : d # "apply" => req'[d] = req[d]
      BY <3>3 DEF TypeInv, Slots
    <3> QED BY <1>1, <2>3, <3>2, <3>4 DEF RevsAreNew, Saving, Applying, Slots
  <2>4. CASE Applies /\ revs' = revs + 1
    <3>1. /\ revs \in Nat /\ builder.own \in Nat
          /\ \A d \in Slots : req[d].text.rev \in Nat
      BY DEF TypeInv, DialogType, Dialogs, Requests, Texts
    <3>2. req' = [req EXCEPT !["apply"] =
              [at |-> "asked", op |-> "POST", id |-> Files[apply.next], status |-> 0,
               text |-> [rev |-> revs + 1, tagged |-> FALSE]]]
      BY <2>4, <3>1 DEF Applies
    <3>3. /\ req'["apply"].text.rev = revs + 1
          /\ \A d \in Slots : d # "apply" => req'[d] = req[d]
      BY <3>2 DEF TypeInv, Slots
    <3> QED BY <1>1, <2>4, <3>1, <3>3 DEF RevsAreNew, Saving, Applying, Slots
  <2> QED
    BY <2>1, <2>2, <2>3, <2>4 DEF Command, Applies, Applied, ApplyRaises, ApplyEnds, Applying
<1> QED BY <1>1, <1>2, <1>3, DiskStays

LEMMA DialogStep == IInv /\ DialogInv /\ [Next]_vars => DialogInv'
<1> SUFFICES ASSUME IInv, DialogInv, [Next]_vars PROVE DialogInv'
  OBVIOUS
<1>1. ASSUME UNCHANGED <<dir, written, revs, req, list, shownAs, requests, filter, reloads, builder>>
      PROVE  DialogInv'
  BY <1>1 DEF DialogInv, DialogType, DirIsLast, RevsAreNew, Saving, Applying, NothingOlder,
              ShowsOwn, NoOlder
<1>2. CASE \/ startSelected \/ BatchReplies \/ BatchReplyIsLost \/ UNCHANGED vars
           \/ \E s \in Ids : Ticks(s)
           \/ \E n \in 0..Len(batch.ids) : BatchIsAccepted(n)
  BY <1>1, <1>2 DEF startSelected, BatchReplies, BatchReplyIsLost, vars, tab, Ticks,
                    BatchIsAccepted
<1> QED
  BY <1>2, DialogThroughEndpoint, ListingIsNew, ReloadIsShown, DialogMoves, DialogAsks,
     DialogIsTold, DialogBesideCommand DEF Next, Server, Rail

(* A quick second edit does not put the version before back, however       *)
(* reloads, saves and "apply" overtake each other: for any listing and any *)
(* files to apply.                                                         *)
THEOREM SavesAreNotUndone == Spec => []OwnSavesSurvive
<1>1. DialogInv => OwnSavesSurvive
  BY DEF DialogInv, NothingOlder, ShowsOwn, OwnSavesSurvive
<1> QED BY <1>1, IInvInit, IInvStep, DialogInit, DialogStep, PTL DEF Spec

-------------------------------------------------------------------------------
(* The keys of a file. *)

Keys == {"title", "tags", "target", "model", "personaReview", "cases"}

(* A sequence of keys, none of which comes twice.                          *)
IsKeyOrder(q) == q \in Seq(Keys) /\ \A i, j \in DOMAIN q : q[i] = q[j] => i = j

Goes(q, k) == \E i \in DOMAIN q : q[i] = k

LEMMA KeyComes ==
    ASSUME NEW q, IsKeyOrder(q), NEW k \in Keys, ~Goes(q, k)
    PROVE  /\ IsKeyOrder(Append(q, k))
           /\ \A l : Goes(Append(q, k), l) <=> Goes(q, l) \/ l = k
<1> DEFINE p == Append(q, k)
<1>1. /\ p \in Seq(Keys) /\ Len(q) \in Nat /\ DOMAIN q = 1..Len(q) /\ DOMAIN p = 1..(Len(q) + 1)
      /\ \A i \in 1..Len(q) : p[i] = q[i]
      /\ p[Len(q) + 1] = k
  BY DEF IsKeyOrder
<1> HIDE DEF p
<1>2. \A i, j \in DOMAIN p : p[i] = p[j] => i = j
  BY <1>1 DEF IsKeyOrder, Goes
<1>3. ASSUME NEW l PROVE Goes(p, l) <=> Goes(q, l) \/ l = k
  <2>1. \A i \in 1..(Len(q) + 1) : i = Len(q) + 1 \/ i \in 1..Len(q)
    BY <1>1
  <2>2. \A i \in 1..Len(q) : i \in 1..(Len(q) + 1)
    BY <1>1
  <2>3. Len(q) + 1 \in 1..(Len(q) + 1)
    BY <1>1
  <2> QED BY <1>1, <2>1, <2>2, <2>3, Zenon DEF Goes
<1>4. IsKeyOrder(p)
  BY <1>1, <1>2 DEF IsKeyOrder
<1> QED BY <1>3, <1>4 DEF p

(* The keys given, up to the n-th, from those before it.                   *)
Chosen(s, q, k) == IF s[k] = None THEN q ELSE Append(q, k)

LEMMA GivenIs ==
    ASSUME NEW s
    PROVE  Given(s, 6) = Chosen(s, Chosen(s, Chosen(s, Chosen(s, Chosen(s, Chosen(s, <<>>,
               "title"), "tags"), "target"), "model"), "personaReview"), "cases")
<1> DEFINE g1 == Chosen(s, <<>>, "title")
           g2 == Chosen(s, g1, "tags")
           g3 == Chosen(s, g2, "target")
           g4 == Chosen(s, g3, "model")
           g5 == Chosen(s, g4, "personaReview")
           g6 == Chosen(s, g5, "cases")
           Fits(f) == f = [i \in 0..6 |-> IF i = 0 THEN <<>>
                                          ELSE LET k == SCENARIO_KEYS[i]
                                               IN  IF s[k] = None THEN f[i - 1] ELSE Append(f[i - 1], k)]
           h == [i \in 0..6 |-> IF i = 0 THEN <<>> ELSE IF i = 1 THEN g1 ELSE IF i = 2 THEN g2
                                ELSE IF i = 3 THEN g3 ELSE IF i = 4 THEN g4 ELSE IF i = 5 THEN g5
                                ELSE g6]
           given == CHOOSE f : Fits(f)
<1>1. /\ SCENARIO_KEYS[1] = "title" /\ SCENARIO_KEYS[2] = "tags" /\ SCENARIO_KEYS[3] = "target"
      /\ SCENARIO_KEYS[4] = "model" /\ SCENARIO_KEYS[5] = "personaReview"
      /\ SCENARIO_KEYS[6] = "cases"
  BY DEF SCENARIO_KEYS
<1>2. Given(s, 6) = given[6]
  BY DEF Given
<1>3. Fits(h)
  <2>1. /\ h[0] = <<>> /\ h[1] = g1 /\ h[2] = g2 /\ h[3] = g3 /\ h[4] = g4 /\ h[5] = g5
        /\ h[6] = g6 /\ h = [i \in 0..6 |-> h[i]]
    <3> HIDE DEF g1, g2, g3, g4, g5, g6
    <3> QED OBVIOUS
  <2>2. /\ h[1] = Chosen(s, h[0], "title") /\ h[2] = Chosen(s, h[1], "tags")
        /\ h[3] = Chosen(s, h[2], "target") /\ h[4] = Chosen(s, h[3], "model")
        /\ h[5] = Chosen(s, h[4], "personaReview") /\ h[6] = Chosen(s, h[5], "cases")
    <3> HIDE DEF h
    <3> QED BY <2>1, Zenon
  <2> HIDE DEF h
  <2>3. ASSUME NEW i \in 1..6 PROVE h[i] = Chosen(s, h[i - 1], SCENARIO_KEYS[i])
    <3>1. /\ 1 - 1 = 0 /\ 2 - 1 = 1 /\ 3 - 1 = 2 /\ 4 - 1 = 3 /\ 5 - 1 = 4 /\ 6 - 1 = 5
          /\ i \in {1, 2, 3, 4, 5, 6}
      OBVIOUS
    <3> QED BY <1>1, <2>2, <3>1, Zenon
  <2>4. ASSUME NEW i \in 0..6
        PROVE  h[i] = IF i = 0 THEN <<>>
                      ELSE LET k == SCENARIO_KEYS[i]
                           IN  IF s[k] = None THEN h[i - 1] ELSE Append(h[i - 1], k)
    <3>1. i = 0 \/ i \in 1..6
      OBVIOUS
    <3> QED BY <2>1, <2>3, <3>1, Zenon DEF Chosen
  <2> QED BY <2>1, <2>4
<1>4. Fits(given)
  <2> HIDE DEF h
  <2> QED BY <1>3
<1> HIDE DEF given
<1>5. given[0] = <<>>
  BY <1>4
<1>6. ASSUME NEW i \in 1..6 PROVE given[i] = Chosen(s, given[i - 1], SCENARIO_KEYS[i])
  <2>1. i \in 0..6 /\ i # 0
    OBVIOUS
  <2>2. given[i] = LET k == SCENARIO_KEYS[i]
                   IN  IF s[k] = None THEN given[i - 1] ELSE Append(given[i - 1], k)
    BY <1>4, <2>1
  <2> QED BY <2>2 DEF Chosen
<1>7. /\ given[1] = Chosen(s, given[0], "title")
      /\ given[2] = Chosen(s, given[1], "tags")
      /\ given[3] = Chosen(s, given[2], "target")
      /\ given[4] = Chosen(s, given[3], "model")
      /\ given[5] = Chosen(s, given[4], "personaReview")
      /\ given[6] = Chosen(s, given[5], "cases")
  <2>1. /\ 1 \in 1..6 /\ 1 - 1 = 0
        /\ 2 \in 1..6 /\ 2 - 1 = 1
        /\ 3 \in 1..6 /\ 3 - 1 = 2
        /\ 4 \in 1..6 /\ 4 - 1 = 3
        /\ 5 \in 1..6 /\ 5 - 1 = 4
        /\ 6 \in 1..6 /\ 6 - 1 = 5
    OBVIOUS
  <2> QED BY <1>1, <1>6, <2>1
<1> QED BY <1>2, <1>5, <1>7

(* One key after another: what is given is there once.                     *)
LEMMA ChosenIs ==
    ASSUME NEW s, NEW q, IsKeyOrder(q), NEW k \in Keys, ~Goes(q, k)
    PROVE  /\ IsKeyOrder(Chosen(s, q, k))
           /\ \A l : Goes(Chosen(s, q, k), l) <=> Goes(q, l) \/ (l = k /\ s[k] # None)
<1>1. CASE s[k] = None
  BY <1>1 DEF Chosen
<1>2. CASE s[k] # None
  BY <1>2, KeyComes DEF Chosen
<1> QED BY <1>1, <1>2

LEMMA KeysAreGiven ==
    ASSUME NEW s
    PROVE  /\ IsKeyOrder(Given(s, 6))
           /\ \A k : Goes(Given(s, 6), k) <=> k \in Keys /\ s[k] # None
<1> DEFINE g1 == Chosen(s, <<>>, "title")
           g2 == Chosen(s, g1, "tags")
           g3 == Chosen(s, g2, "target")
           g4 == Chosen(s, g3, "model")
           g5 == Chosen(s, g4, "personaReview")
           g6 == Chosen(s, g5, "cases")
           Has1(q, n) == IsKeyOrder(q) /\ \A k : Goes(q, k) <=> k \in n /\ s[k] # None
<1>0. Has1(<<>>, {})
  BY EmptySeq DEF IsKeyOrder, Goes
<1>1. Has1(g1, {"title"})
  BY <1>0, ChosenIs DEF Keys
<1> HIDE DEF g1
<1>2. Has1(g2, {"title", "tags"})
  BY <1>1, ChosenIs DEF Keys
<1> HIDE DEF g2
<1>3. Has1(g3, {"title", "tags", "target"})
  BY <1>2, ChosenIs DEF Keys
<1> HIDE DEF g3
<1>4. Has1(g4, {"title", "tags", "target", "model"})
  BY <1>3, ChosenIs DEF Keys
<1> HIDE DEF g4
<1>5. Has1(g5, {"title", "tags", "target", "model", "personaReview"})
  BY <1>4, ChosenIs DEF Keys
<1> HIDE DEF g5
<1>6. Has1(g6, Keys)
  BY <1>5, ChosenIs DEF Keys
<1>7. Given(s, 6) = g6
  BY GivenIs DEF g1, g2, g3, g4, g5
<1> HIDE DEF g6
<1> QED BY <1>6, <1>7

-------------------------------------------------------------------------------
(* What a file loads as. *)

Bodies == [title : Strings, tags : Seq(Strings), target : Targets \cup {None}, model : Optional,
              personaReview : Optional, cases : Seq(Cases)]

(* What stands under a key is of the pair that has it.                     *)
LEMMA ValueIs ==
    ASSUME NEW f, IsFile(f), NEW i \in DOMAIN f
    PROVE  Has(f, f[i].key) /\ At(f, f[i].key) = f[i] /\ Value(f, f[i].key) = f[i].value
<1> DEFINE key == f[i].key
           j == CHOOSE k \in DOMAIN f : f[k].key = key
<1>1. j \in DOMAIN f /\ f[j].key = key
  <2>1. \E k \in DOMAIN f : f[k].key = key
    OBVIOUS
  <2> HIDE DEF key
  <2> QED BY <2>1
<1>2. At(f, key) = f[j] /\ Has(f, key)
  BY DEF At, Has
<1>3. j = i
  <2> HIDE DEF j
  <2> QED BY <1>1 DEF IsFile
<1> HIDE DEF j
<1> QED BY <1>2, <1>3 DEF Value

LEMMA HasPair ==
    ASSUME NEW f, IsFile(f), NEW key, Has(f, key)
    PROVE  \E i \in DOMAIN f : f[i].key = key /\ At(f, key) = f[i] /\ Value(f, key) = f[i].value
<1>1. PICK i \in DOMAIN f : f[i].key = key
  BY DEF Has
<1> QED BY <1>1, ValueIs

(* What is under each key, if anything is.                                 *)
LEMMA ValuesAre ==
    ASSUME NEW f, IsFile(f)
    PROVE  /\ Has(f, "cases") => IsCaseList(Value(f, "cases"))
           /\ Has(f, "tags") => Value(f, "tags") \in Seq(Strings)
           /\ Value(f, "target") \in Targets \cup {None}
           /\ Has(f, "target") <=> Value(f, "target") # None
           /\ Value(f, "title") \in Optional /\ (Has(f, "title") => Value(f, "title") \in Strings)
           /\ Value(f, "model") \in Optional
           /\ Value(f, "personaReview") \in Optional
           /\ Value(f, "accessibility") \in Optional
           /\ Has(f, "app") => Value(f, "app") \in Strings
<1>1. Has(f, "cases") => IsCaseList(Value(f, "cases"))
  BY HasPair DEF IsFile
<1>2. Has(f, "tags") => Value(f, "tags") \in Seq(Strings)
  BY HasPair DEF IsFile
<1>3. Has(f, "target") => Value(f, "target") \in Targets
  BY HasPair DEF IsFile
<1>4. \A k \in {"title", "model", "personaReview", "accessibility", "app"} :
          Has(f, k) => Value(f, k) \in Strings
  BY HasPair DEF IsFile
<1>5. \A k : ~Has(f, k) => Value(f, k) = None
  BY DEF Value
<1> QED BY <1>1, <1>2, <1>3, <1>4, <1>5, FileAssumption DEF Optional

LEMMA CaseIsTyped ==
    ASSUME NEW c \in Fields
    PROVE  CaseOf(c) \in Cases
BY DEF CaseOf, Fields, Cases, Optional, normalizePersonaReviewKey

LEMMA TargetIsTyped ==
    ASSUME NEW f, IsFile(f)
    PROVE  normalizeTarget(f) \in Targets \cup {None}
<1>1. CASE Has(f, "target") \/ ~Has(f, "app")
  BY <1>1, ValuesAre DEF normalizeTarget
<1>2. CASE ~(Has(f, "target") \/ ~Has(f, "app"))
  BY <1>2, ValuesAre DEF normalizeTarget, Targets, Platforms, Optional
<1> QED BY <1>1, <1>2

LEMMA LoadedIsScenario ==
    ASSUME NEW f, IsFile(f), Loads(f)
    PROVE  loadScenario(f) \in Bodies
<1> DEFINE items == Value(f, "cases").items
           cases == [i \in DOMAIN items |-> CaseOf(items[i].fields)]
<1>1. Has(f, "title") /\ Has(f, "cases")
  BY DEF Loads
<1>2. IsCaseList(Value(f, "cases"))
  BY <1>1, ValuesAre
<1>3. items \in Seq(ToSet(items)) /\ \A i \in DOMAIN items : items[i].fields \in Fields
  BY <1>2 DEF IsCaseList
<1>4. cases \in Seq(Cases)
  <2> HIDE DEF items
  <2>1. DOMAIN items = 1..Len(items) /\ Len(items) \in Nat
    BY <1>3
  <2>2. \A i \in DOMAIN items : CaseOf(items[i].fields) \in Cases
    BY <1>3, CaseIsTyped
  <2> QED BY <2>1, <2>2
<1>5. (IF Has(f, "tags") THEN Value(f, "tags") ELSE <<>>) \in Seq(Strings)
  BY ValuesAre, EmptySeq
<1>6. normalizePersonaReviewKey(Value(f, "personaReview"), Value(f, "accessibility")) \in Optional
  BY ValuesAre DEF normalizePersonaReviewKey
<1>7. Value(f, "title") \in Strings /\ Value(f, "model") \in Optional
  BY <1>1, ValuesAre
<1>8. normalizeTarget(f) \in Targets \cup {None}
  BY TargetIsTyped
<1> HIDE DEF cases
<1> QED BY <1>4, <1>5, <1>6, <1>7, <1>8 DEF loadScenario, Bodies, cases, items

-------------------------------------------------------------------------------
(* What the merge makes of a list of cases. *)

LEMMA FieldsAreKept ==
    ASSUME NEW c \in Cases
    PROVE  FieldsOf(c) \in Fields /\ CaseOf(FieldsOf(c)) = c /\ FieldsOf(c).id = c.id
<1>1. FieldsOf(c) \in Fields
  BY DEF FieldsOf, Fields, Cases, Optional
<1>2. c = [id |-> c.id, prompt |-> c.prompt, model |-> c.model, target |-> c.target,
           personaReview |-> c.personaReview]
  BY DEF Cases
<1>3. CaseOf(FieldsOf(c)) = [id |-> c.id, prompt |-> c.prompt, model |-> c.model,
                             target |-> c.target, personaReview |-> c.personaReview]
  BY DEF CaseOf, FieldsOf, normalizePersonaReviewKey
<1>4. FieldsOf(c).id = c.id
  BY DEF FieldsOf
<1> QED BY <1>1, <1>2, <1>3, <1>4

(* The list is of these cases, and above each is what notesOf says.        *)
IsListOf(merged, cases, notes) ==
    /\ IsCaseList(merged)
    /\ DOMAIN merged.items = DOMAIN cases
    /\ \A i \in DOMAIN cases :
          /\ merged.items[i].fields = FieldsOf(cases[i])
          /\ merged.items[i].notes \cup (IF i = 1 THEN merged.lead ELSE {}) = notes[i]

LEMMA RereadIs ==
    ASSUME NEW cases \in Seq(Cases), NEW notes
    PROVE  IsListOf(Reread([i \in DOMAIN cases |-> [notes |-> notes[i], fields |-> FieldsOf(cases[i])]]),
                    cases, notes)
<1> DEFINE items == [i \in DOMAIN cases |-> [notes |-> notes[i], fields |-> FieldsOf(cases[i])]]
           left == [items EXCEPT ![1].notes = {}]
           merged == Reread(items)
<1>1. DOMAIN cases = 1..Len(cases) /\ Len(cases) \in Nat
  OBVIOUS
<1>2. merged = [lead |-> items[1].notes, items |-> left]
  BY DEF Reread
<1>3. /\ DOMAIN items = DOMAIN cases
      /\ \A i \in DOMAIN cases : /\ items[i].notes = notes[i]
                                 /\ items[i].fields = FieldsOf(cases[i])
                                 /\ DOMAIN items[i] = {"notes", "fields"}
  OBVIOUS
<1> HIDE DEF items
<1>4. /\ DOMAIN left = DOMAIN cases /\ left = [i \in DOMAIN cases |-> left[i]]
      /\ \A i \in DOMAIN cases : /\ left[i].notes = IF i = 1 THEN {} ELSE notes[i]
                                 /\ left[i].fields = FieldsOf(cases[i])
                                 /\ DOMAIN left[i] = {"notes", "fields"}
  BY <1>3
<1> HIDE DEF left
<1>5. left \in Seq(ToSet(left))
  <2>1. \A i \in DOMAIN cases : left[i] \in ToSet(left)
    BY <1>4 DEF ToSet
  <2> QED BY <1>1, <1>4, <2>1
<1>6. merged.items = left /\ merged.lead = items[1].notes /\ DOMAIN merged = {"lead", "items"}
  BY <1>2
<1> HIDE DEF merged
<1>7. \A i \in DOMAIN cases : FieldsOf(cases[i]) \in Fields
  BY FieldsAreKept
<1>8. IsCaseList(merged)
  BY <1>4, <1>5, <1>6, <1>7 DEF IsCaseList
<1>9. \A i \in DOMAIN cases : merged.items[i].notes \cup (IF i = 1 THEN merged.lead ELSE {}) = notes[i]
  <2> SUFFICES ASSUME NEW i \in DOMAIN cases
               PROVE  merged.items[i].notes \cup (IF i = 1 THEN merged.lead ELSE {}) = notes[i]
    OBVIOUS
  <2>1. CASE i = 1
    BY <1>3, <1>4, <1>6, <2>1
  <2>2. CASE i # 1
    BY <1>4, <1>6, <2>2
  <2> QED BY <2>1, <2>2
<1>10. IsListOf(merged, cases, notes)
  BY <1>4, <1>6, <1>8, <1>9 DEF IsListOf
<1> QED BY <1>10 DEF merged, items

(* The comments above a case: its own, and above the first the list's.     *)
NotesAbove(merged, id) ==
    UNION {merged.items[i].notes \cup (IF i = 1 THEN merged.lead ELSE {}) :
           i \in {j \in DOMAIN merged.items : merged.items[j].fields.id = id}}

LEMMA MergedIs ==
    ASSUME NEW existing, IsCaseList(existing), NEW cases \in Seq(Cases)
    PROVE  IsListOf(mergeCases(existing, cases), cases,
                    [i \in DOMAIN cases |-> NotesAbove(existing, cases[i].id)])
<1> DEFINE old == [existing.items EXCEPT ![1].notes = existing.lead \cup @]
           notesOf(id) == UNION {old[i].notes : i \in {j \in DOMAIN old : old[j].fields.id = id}}
           notes == [i \in DOMAIN cases |-> NotesAbove(existing, cases[i].id)]
<1>1. /\ DOMAIN old = DOMAIN existing.items
      /\ \A i \in DOMAIN existing.items :
            /\ old[i].fields = existing.items[i].fields
            /\ old[i].notes = existing.items[i].notes \cup (IF i = 1 THEN existing.lead ELSE {})
  BY DEF IsCaseList
<1>2. ASSUME NEW id PROVE notesOf(id) = NotesAbove(existing, id)
  <2> HIDE DEF old
  <2>1. {j \in DOMAIN old : old[j].fields.id = id}
            = {j \in DOMAIN existing.items : existing.items[j].fields.id = id}
    BY <1>1
  <2>2. \A i \in {j \in DOMAIN existing.items : existing.items[j].fields.id = id} :
            old[i].notes = existing.items[i].notes \cup (IF i = 1 THEN existing.lead ELSE {})
    BY <1>1
  <2> QED BY <2>1, <2>2 DEF NotesAbove
<1>3. mergeCases(existing, cases)
          = Reread([i \in DOMAIN cases |->
                      [notes |-> notesOf(cases[i].id), fields |-> FieldsOf(cases[i])]])
  BY DEF mergeCases
<1> HIDE DEF notesOf
<1>4. [i \in DOMAIN cases |-> [notes |-> notesOf(cases[i].id), fields |-> FieldsOf(cases[i])]]
          = [i \in DOMAIN cases |-> [notes |-> notes[i], fields |-> FieldsOf(cases[i])]]
  BY <1>2
<1> HIDE DEF notes
<1>5. IsListOf(mergeCases(existing, cases), cases, notes)
  BY <1>3, <1>4, RereadIs
<1> QED BY <1>5 DEF notes

LEMMA NewIs ==
    ASSUME NEW cases \in Seq(Cases)
    PROVE  IsListOf(NewCases(cases), cases, [i \in DOMAIN cases |-> {}])
<1> DEFINE notes == [i \in DOMAIN cases |-> {}]
<1>1. [i \in DOMAIN cases |-> [notes |-> {}, fields |-> FieldsOf(cases[i])]]
          = [i \in DOMAIN cases |-> [notes |-> notes[i], fields |-> FieldsOf(cases[i])]]
  OBVIOUS
<1> HIDE DEF notes
<1>2. IsListOf(NewCases(cases), cases, notes)
  BY <1>1, RereadIs DEF NewCases
<1> QED BY <1>2 DEF notes

(* Such a list loads as the cases it is of.                                *)
LEMMA ListLoads ==
    ASSUME NEW merged, NEW cases \in Seq(Cases), NEW notes, IsListOf(merged, cases, notes)
    PROVE  [i \in DOMAIN merged.items |-> CaseOf(merged.items[i].fields)] = cases
<1>1. DOMAIN merged.items = DOMAIN cases
      /\ \A i \in DOMAIN cases : CaseOf(merged.items[i].fields) = cases[i]
  BY FieldsAreKept DEF IsListOf
<1>2. cases = [i \in DOMAIN cases |-> cases[i]]
  OBVIOUS
<1> QED BY <1>1, <1>2

-------------------------------------------------------------------------------
(* What the merge makes of a file. *)

ValueOf(f, s, k) ==
    IF k # "cases" THEN s[k]
    ELSE IF f # <<>> /\ Has(f, k) THEN mergeCases(Value(f, k), s.cases)
    ELSE NewCases(s.cases)

NotesOf(f, s, k) ==
    IF f = <<>> THEN {}
    ELSE Notes(f, k) \cup (IF k = Given(s, 6)[1] THEN takeHeadComment(f) ELSE {})

LEMMA EditedIs ==
    ASSUME NEW f, NEW s
    PROVE  LET e == editScenarioYaml(f, s)
               q == Given(s, 6)
           IN  /\ e = [i \in DOMAIN q |-> e[i]]
               /\ \A i \in DOMAIN q : /\ e[i].key = q[i]
                                      /\ e[i].notes = NotesOf(f, s, q[i])
                                      /\ e[i].value = ValueOf(f, s, q[i])
<1>1. Len(SCENARIO_KEYS) = 6
  BY DEF SCENARIO_KEYS
<1> DEFINE q == Given(s, 6)
           e == [i \in DOMAIN q |-> Pair(q[i], NotesOf(f, s, q[i]), ValueOf(f, s, q[i]))]
<1>2. editScenarioYaml(f, s) = e
  BY <1>1 DEF editScenarioYaml, NotesOf, ValueOf
<1>3. \A i \in DOMAIN q : e[i] = Pair(q[i], NotesOf(f, s, q[i]), ValueOf(f, s, q[i]))
  OBVIOUS
<1>4. e = [i \in DOMAIN q |-> e[i]]
  OBVIOUS
<1> HIDE DEF e, q
<1>5. \A i \in DOMAIN q : /\ e[i].key = q[i]
                          /\ e[i].notes = NotesOf(f, s, q[i])
                          /\ e[i].value = ValueOf(f, s, q[i])
  <2> SUFFICES ASSUME NEW i \in DOMAIN q
               PROVE  /\ e[i].key = q[i]
                      /\ e[i].notes = NotesOf(f, s, q[i])
                      /\ e[i].value = ValueOf(f, s, q[i])
    OBVIOUS
  <2>1. e[i] = Pair(q[i], NotesOf(f, s, q[i]), ValueOf(f, s, q[i]))
    BY <1>3
  <2>2. \A k, n, v : Pair(k, n, v).key = k /\ Pair(k, n, v).notes = n /\ Pair(k, n, v).value = v
    BY DEF Pair
  <2> QED BY <2>1, <2>2
<1> QED BY <1>2, <1>4, <1>5 DEF q

LEMMA CasesAreMerged ==
    ASSUME NEW f, IsFile(f), NEW s \in Bodies
    PROVE  IsListOf(ValueOf(f, s, "cases"), s.cases,
                    [i \in DOMAIN s.cases |->
                        IF f # <<>> /\ Has(f, "cases")
                        THEN NotesAbove(Value(f, "cases"), s.cases[i].id) ELSE {}])
<1>1. s.cases \in Seq(Cases)
  BY DEF Bodies
<1>2. CASE f # <<>> /\ Has(f, "cases")
  <2>1. IsCaseList(Value(f, "cases"))
    BY <1>2, ValuesAre
  <2> QED BY <1>1, <1>2, <2>1, MergedIs DEF ValueOf
<1>3. CASE ~(f # <<>> /\ Has(f, "cases"))
  BY <1>1, <1>3, NewIs DEF ValueOf
<1> QED BY <1>2, <1>3

LEMMA EditedIsFile ==
    ASSUME NEW f, IsFile(f), NEW s \in Bodies
    PROVE  IsFile(editScenarioYaml(f, s))
<1> DEFINE e == editScenarioYaml(f, s)
           q == Given(s, 6)
<1>1. /\ e = [i \in DOMAIN q |-> e[i]]
      /\ \A i \in DOMAIN q : e[i].key = q[i] /\ e[i].value = ValueOf(f, s, q[i])
  BY EditedIs
<1>2. IsKeyOrder(q) /\ \A i \in DOMAIN q : q[i] \in Keys /\ s[q[i]] # None
  BY KeysAreGiven DEF Goes
<1> HIDE DEF e, q
<1>3. DOMAIN q = 1..Len(q) /\ Len(q) \in Nat /\ DOMAIN e = DOMAIN q
  BY <1>1, <1>2 DEF IsKeyOrder
<1>4. e \in Seq(ToSet(e))
  <2>1. \A i \in DOMAIN q : e[i] \in ToSet(e)
    BY <1>3 DEF ToSet
  <2> QED BY <1>1, <1>3, <2>1
<1>5. \A i, j \in DOMAIN e : e[i].key = e[j].key => i = j
  BY <1>1, <1>2, <1>3 DEF IsKeyOrder
<1>6. IsCaseList(ValueOf(f, s, "cases"))
  BY CasesAreMerged DEF IsListOf
<1>7. /\ s["tags"] \in Seq(Strings)
      /\ s["target"] # None => s["target"] \in Targets
      /\ \A k \in {"title", "model", "personaReview"} : s[k] # None => s[k] \in Strings
  BY DEF Bodies, Optional
<1>8. ASSUME NEW i \in DOMAIN e
      PROVE  CASE e[i].key = "cases" -> IsCaseList(e[i].value)
               [] e[i].key = "tags" -> e[i].value \in Seq(Strings)
               [] e[i].key = "target" -> e[i].value \in Targets
               [] OTHER -> e[i].value \in Strings
  <2>1. /\ e[i].key \in Keys /\ s[e[i].key] # None
        /\ e[i].value = IF e[i].key = "cases" THEN ValueOf(f, s, "cases") ELSE s[e[i].key]
    BY <1>1, <1>2, <1>3 DEF ValueOf
  <2> QED BY <1>6, <1>7, <2>1 DEF Keys
<1>9. IsFile(e)
  BY <1>4, <1>5, <1>8 DEF IsFile
<1> QED BY <1>9 DEF e

(* What stands under each key of the merged file.                          *)
LEMMA EditedValues ==
    ASSUME NEW f, IsFile(f), NEW s \in Bodies
    PROVE  LET e == editScenarioYaml(f, s)
           IN  /\ \A k : Has(e, k) <=> k \in Keys /\ s[k] # None
               /\ \A k \in Keys \ {"cases"} : Value(e, k) = s[k]
               /\ Has(e, "tags")
               /\ Value(e, "cases") = ValueOf(f, s, "cases")
<1> DEFINE e == editScenarioYaml(f, s)
           q == Given(s, 6)
<1>1. /\ e = [i \in DOMAIN q |-> e[i]]
      /\ \A i \in DOMAIN q : e[i].key = q[i] /\ e[i].value = ValueOf(f, s, q[i])
  BY EditedIs
<1>2. \A k : Goes(q, k) <=> k \in Keys /\ s[k] # None
  BY KeysAreGiven
<1>3. IsFile(e)
  BY EditedIsFile
<1> HIDE DEF e, q
<1>4. \A k : Has(e, k) <=> k \in Keys /\ s[k] # None
  BY <1>1, <1>2 DEF Has, Goes
<1>5. \A k : Has(e, k) => Value(e, k) = ValueOf(f, s, k)
  <2> SUFFICES ASSUME NEW k, Has(e, k) PROVE Value(e, k) = ValueOf(f, s, k)
    OBVIOUS
  <2>1. PICK i \in DOMAIN e : e[i].key = k /\ Value(e, k) = e[i].value
    BY <1>3, HasPair
  <2> QED BY <1>1, <2>1
<1>6. \A k \in Keys \ {"cases"} : Value(e, k) = s[k]
  BY <1>4, <1>5 DEF ValueOf, Value
<1>7. Has(e, "tags")
  <2>1. s["tags"] # None
    BY FileAssumption DEF Bodies
  <2> QED BY <1>4, <2>1 DEF Keys
<1>8. Value(e, "cases") = ValueOf(f, s, "cases")
  <2>1. s["cases"] # None
    BY FileAssumption DEF Bodies
  <2> QED BY <1>4, <1>5, <2>1 DEF Keys
<1> QED BY <1>4, <1>6, <1>7, <1>8 DEF e

(* The merged file loads as the scenario it was merged from.               *)
LEMMA EditedLoads ==
    ASSUME NEW f, IsFile(f), NEW s \in Bodies
    PROVE  loadScenario(editScenarioYaml(f, s)) = s
<1> DEFINE e == editScenarioYaml(f, s)
<1>1. \A k : Has(e, k) <=> k \in Keys /\ s[k] # None
  BY EditedValues
<1>2. \A k \in Keys \ {"cases"} : Value(e, k) = s[k]
  BY EditedValues
<1>3. Has(e, "tags") /\ Value(e, "cases") = ValueOf(f, s, "cases")
  BY EditedValues
<1> HIDE DEF e
<1>4. ~Has(e, "app") /\ Value(e, "accessibility") = None
  BY <1>1 DEF Keys, Value
<1>5. [i \in DOMAIN Value(e, "cases").items |-> CaseOf(Value(e, "cases").items[i].fields)] = s.cases
  <2>1. s.cases \in Seq(Cases)
    BY DEF Bodies
  <2> QED BY <1>3, <2>1, CasesAreMerged, ListLoads
<1>6. loadScenario(e) = [title |-> s.title, tags |-> s.tags, target |-> s.target,
                          model |-> s.model, personaReview |-> s.personaReview, cases |-> s.cases]
  <2>1. normalizeTarget(e) = s.target
    BY <1>2, <1>4 DEF normalizeTarget, Keys
  <2>2. normalizePersonaReviewKey(Value(e, "personaReview"), Value(e, "accessibility"))
            = s.personaReview
    BY <1>2, <1>4 DEF normalizePersonaReviewKey, Keys
  <2>3. /\ Value(e, "title") = s.title /\ Value(e, "model") = s.model
        /\ (IF Has(e, "tags") THEN Value(e, "tags") ELSE <<>>) = s.tags
    BY <1>2, <1>3 DEF Keys
  <2> QED BY <1>5, <2>1, <2>2, <2>3 DEF loadScenario
<1>7. s = [title |-> s.title, tags |-> s.tags, target |-> s.target,
            model |-> s.model, personaReview |-> s.personaReview, cases |-> s.cases]
  BY DEF Bodies
<1> QED BY <1>6, <1>7 DEF e

-------------------------------------------------------------------------------
(* Comments. *)

LEMMA CaseCommentsStay ==
    ASSUME NEW f, IsFile(f), Loads(f), NEW s \in Bodies,
           NEW id \in CaseIdsOf(editScenarioYaml(f, s))
    PROVE  CaseNotes(editScenarioYaml(f, s), id) = CaseNotes(f, id)
<1> DEFINE e == editScenarioYaml(f, s)
           merged == Value(e, "cases")
           notes == [i \in DOMAIN s.cases |-> NotesAbove(Value(f, "cases"), s.cases[i].id)]
           ids == {j \in DOMAIN merged.items : merged.items[j].fields.id = id}
           above(i) == merged.items[i].notes \cup (IF i = 1 THEN merged.lead ELSE {})
<1>1. Has(f, "cases") /\ f # <<>>
  BY DEF Loads, Has
<1>2. merged = ValueOf(f, s, "cases")
  BY EditedValues
<1>3. IsListOf(merged, s.cases, notes)
  BY <1>1, <1>2, CasesAreMerged
<1>4. s.cases \in Seq(Cases) /\ \A i \in DOMAIN s.cases : FieldsOf(s.cases[i]).id = s.cases[i].id
  BY FieldsAreKept DEF Bodies
<1>5. \A i \in ids : above(i) = NotesAbove(Value(f, "cases"), id)
  <2> HIDE DEF merged
  <2> SUFFICES ASSUME NEW i \in ids PROVE above(i) = NotesAbove(Value(f, "cases"), id)
    OBVIOUS
  <2>1. i \in DOMAIN s.cases /\ s.cases[i].id = id
    BY <1>3, <1>4 DEF IsListOf
  <2>2. above(i) = notes[i]
    BY <1>3, <2>1 DEF IsListOf
  <2> QED BY <2>1, <2>2
<1>6. \E i \in ids : TRUE
  BY DEF CaseIdsOf
<1>7. CaseNotes(e, id) = UNION {above(i) : i \in ids}
  BY DEF CaseNotes
<1>8. CaseNotes(f, id) = NotesAbove(Value(f, "cases"), id)
  BY DEF CaseNotes, NotesAbove
<1> HIDE DEF ids, above, e
<1>9. UNION {above(i) : i \in ids} = NotesAbove(Value(f, "cases"), id)
  BY <1>5, <1>6
<1> QED BY <1>7, <1>8, <1>9 DEF e

LEMMA KeyCommentsStay ==
    ASSUME NEW f, IsFile(f), NEW s, NEW i \in 2..Len(f), NEW j \in DOMAIN editScenarioYaml(f, s),
           NameIn(f, editScenarioYaml(f, s)[j].key) = f[i].key
    PROVE  f[i].notes \subseteq editScenarioYaml(f, s)[j].notes
<1> DEFINE e == editScenarioYaml(f, s)
           q == Given(s, 6)
<1>1. j \in DOMAIN q /\ e[j].key = q[j] /\ e[j].notes = NotesOf(f, s, q[j])
  BY EditedIs
<1>2. 1 \in DOMAIN f /\ i \in DOMAIN f /\ i # 1 /\ f # <<>>
  BY DEF IsFile
<1>3. f[1].key # f[i].key
  BY <1>2 DEF IsFile
<1>4. Has(f, f[i].key) /\ At(f, f[i].key) = f[i]
  BY <1>2, ValueIs
<1>5. Notes(f, q[j]) = f[i].notes
  BY <1>1, <1>3, <1>4 DEF Notes
<1> QED BY <1>1, <1>2, <1>5 DEF NotesOf

LEMMA HeadStays ==
    ASSUME NEW f, f # <<>>, NEW s \in Bodies
    PROVE  f[1].notes \subseteq editScenarioYaml(f, s)[1].notes
<1> DEFINE e == editScenarioYaml(f, s)
           q == Given(s, 6)
<1>1. Goes(q, "title") /\ IsKeyOrder(q)
  BY KeysAreGiven, FileAssumption DEF Keys, Bodies
<1>2. 1 \in DOMAIN q
  <2> HIDE DEF q
  <2> QED BY <1>1 DEF Goes, IsKeyOrder
<1>3. e[1].notes = NotesOf(f, s, q[1])
  BY <1>2, EditedIs
<1> QED BY <1>3 DEF NotesOf, takeHeadComment

-------------------------------------------------------------------------------
(* The dialog. *)

Drafts == [title : Strings, tags : Seq(Strings), model : Optional, personaReview : Optional,
           platform : Platforms, appPackage : Optional, url : Optional, cases : Seq(Cases)]

(* What nobody touched is in the draft as it was opened, in the field or   *)
(* the case it came from.                                                  *)
Keeps(d) ==
    /\ \A k \in {"title", "tags", "model", "personaReview"} \ touched : d[k] = opened[k]
    /\ "target" \notin touched =>
          d.appPackage = Of(opened.target, "android") /\ d.url = Of(opened.target, "web")
    /\ \A i \in DOMAIN opened.cases :
          opened.cases[i].id \notin touchedCases => Contains(d.cases, opened.cases[i])

FileInv ==
    /\ IsFile(file)
    /\ draft # Closed => draft \in Drafts /\ opened \in Bodies /\ Keeps(draft)

LEMMA DraftIsOpen == \A d \in Drafts : d # Closed
<1>1. \A d \in Drafts : d.platform # "none"
  BY DEF Drafts, Platforms
<1>2. Closed.platform = "none"
  BY DEF Closed
<1> QED BY <1>1, <1>2

LEMMA FileInvInit == FileInit => FileInv
BY FileAssumption DEF FileInit, FileInv

(* A step in the dialog leaves the file and leads from draft to draft.     *)
LEMMA EditKeeps ==
    ASSUME FileInv, draft # Closed, draft' \in Drafts, UNCHANGED <<file, opened>>, Keeps(draft)'
    PROVE  FileInv' /\ ~Saves
<1>1. FileInv'
  BY DEF FileInv
<1>2. draft' # Closed
  BY DraftIsOpen
<1> QED BY <1>1, <1>2 DEF Saves

(* One field is typed into or blanked, and counts as touched.              *)
LEMMA FieldKeeps ==
    ASSUME FileInv, draft # Closed,
           NEW field \in {"title", "tags", "appPackage", "url", "model", "personaReview"}, NEW v,
           field = "title" => v \in Strings, field = "tags" => v \in Seq(Strings),
           field \notin {"title", "tags"} => v \in Optional,
           draft' = [draft EXCEPT ![field] = v],
           Edits({IF field \in {"appPackage", "url"} THEN "target" ELSE field}, {})
    PROVE  FileInv' /\ ~Saves
<1>1. draft \in Drafts /\ Keeps(draft)
  BY DEF FileInv
<1>2. /\ UNCHANGED <<file, opened>> /\ touchedCases' = touchedCases
      /\ touched' = touched \cup {IF field \in {"appPackage", "url"} THEN "target" ELSE field}
  BY DEF Edits
<1>3. /\ draft' \in Drafts /\ draft'.cases = draft.cases
      /\ \A k \in {"title", "tags", "model", "personaReview", "appPackage", "url"} \ {field} :
            draft'[k] = draft[k]
  BY <1>1 DEF Drafts
<1>4. Keeps(draft)'
  BY <1>1, <1>2, <1>3 DEF Keeps
<1> QED BY <1>2, <1>3, <1>4, EditKeeps

LEMMA TypesKeeps ==
    ASSUME FileInv, NEW field \in {"title", "appPackage", "url", "model", "personaReview"},
           Types(field)
    PROVE  FileInv' /\ ~Saves
<1>1. PICK v \in Typed : draft' = [draft EXCEPT ![field] = v]
  BY DEF Types
<1>2. v \in Strings /\ v \in Optional
  BY FileAssumption DEF Optional
<1> QED BY <1>1, <1>2, FieldKeeps DEF Types

LEMMA TagsKeep == FileInv /\ TypesTags => FileInv' /\ ~Saves
<1> SUFFICES ASSUME FileInv, TypesTags PROVE FileInv' /\ ~Saves
  OBVIOUS
<1>1. PICK v \in Tags : draft' = [draft EXCEPT !["tags"] = v]
  BY DEF TypesTags
<1>2. v \in Seq(Strings)
  <2>1. v \in Seq(Strings \ {""})
    BY FileAssumption
  <2>2. Strings \ {""} \subseteq Strings
    OBVIOUS
  <2> QED BY <2>1, <2>2, SeqMonotonic
<1>3. Edits({"tags"}, {}) /\ draft # Closed
  BY DEF TypesTags
<1> QED BY <1>1, <1>2, <1>3, FieldKeeps

LEMMA BlanksKeep == FileInv /\ Blanks => FileInv' /\ ~Saves
<1> SUFFICES ASSUME FileInv, Blanks PROVE FileInv' /\ ~Saves
  OBVIOUS
<1>1. PICK field \in {"appPackage", "url", "model", "personaReview"} :
         /\ draft' = [draft EXCEPT ![field] = None]
         /\ Edits({IF field \in {"appPackage", "url"} THEN "target" ELSE field}, {})
  BY DEF Blanks
<1>2. draft # Closed /\ None \in Optional
  BY DEF Blanks, Optional
<1> QED BY <1>1, <1>2, FieldKeeps

LEMMA PlatformKeeps == FileInv /\ setPlatform => FileInv' /\ ~Saves
<1> SUFFICES ASSUME FileInv, setPlatform PROVE FileInv' /\ ~Saves
  OBVIOUS
<1>1. draft \in Drafts /\ Keeps(draft) /\ draft # Closed
  BY DEF FileInv, setPlatform
<1>2. UNCHANGED <<file, opened, touched, touchedCases>>
  BY DEF setPlatform, Edits
<1>3. /\ draft' \in Drafts /\ draft'.cases = draft.cases
      /\ \A k \in {"title", "tags", "model", "personaReview", "appPackage", "url"} :
            draft'[k] = draft[k]
  BY <1>1 DEF Drafts, Platforms, setPlatform
<1>4. Keeps(draft)'
  BY <1>1, <1>2, <1>3 DEF Keeps
<1> QED BY <1>1, <1>2, <1>3, <1>4, EditKeeps

(* The cases change; those that do not count as touched stay.              *)
LEMMA CasesKeep ==
    ASSUME FileInv, draft # Closed, NEW cases \in Seq(Cases), NEW ids,
           draft' = [draft EXCEPT !.cases = cases], Edits({}, ids),
           \A c : Contains(draft.cases, c) /\ c.id \notin ids => Contains(cases, c)
    PROVE  FileInv' /\ ~Saves
<1>1. draft \in Drafts /\ Keeps(draft)
  BY DEF FileInv
<1>2. UNCHANGED <<file, opened, touched>> /\ touchedCases' = touchedCases \cup ids
  BY DEF Edits
<1>3. /\ draft' \in Drafts /\ draft'.cases = cases
      /\ \A k \in {"title", "tags", "model", "personaReview", "appPackage", "url"} :
            draft'[k] = draft[k]
  BY <1>1 DEF Drafts
<1>4. Keeps(draft)'
  BY <1>1, <1>2, <1>3 DEF Keeps
<1> QED BY <1>2, <1>3, <1>4, EditKeeps

LEMMA UpdateKeeps ==
    ASSUME FileInv, NEW i, NEW id \in CaseIds, updateCase(i, id)
    PROVE  FileInv' /\ ~Saves
<1> DEFINE cases == [draft.cases EXCEPT ![i] = [@ EXCEPT !.id = id]]
<1>1. draft # Closed /\ i \in DOMAIN draft.cases /\ draft.cases \in Seq(Cases)
  BY DEF updateCase, FileInv, Drafts
<1>2. draft' = [draft EXCEPT !.cases = cases] /\ Edits({}, {draft.cases[i].id, id})
  BY DEF updateCase
<1>3. [draft.cases[i] EXCEPT !.id = id] \in Cases
  <2>1. draft.cases[i] \in Cases
    BY <1>1
  <2>2. id \in Strings
    BY FileAssumption
  <2> QED BY <2>1, <2>2 DEF Cases
<1>4. cases \in Seq(Cases) /\ Len(cases) = Len(draft.cases)
      /\ \A j \in DOMAIN draft.cases : j # i => cases[j] = draft.cases[j]
  BY <1>1, <1>3
<1> HIDE DEF cases
<1>5. ASSUME NEW c, Contains(draft.cases, c), c.id \notin {draft.cases[i].id, id}
      PROVE  Contains(cases, c)
  <2>1. PICK j \in 1..Len(draft.cases) : draft.cases[j] = c
    BY <1>5 DEF Contains
  <2>2. j # i /\ j \in DOMAIN draft.cases
    BY <1>1, <1>5, <2>1
  <2> QED BY <1>4, <2>1, <2>2 DEF Contains
<1> QED BY <1>1, <1>2, <1>4, <1>5, CasesKeep

LEMMA RemoveKeeps ==
    ASSUME FileInv, NEW i \in 1..3, removeCase(i)
    PROVE  FileInv' /\ ~Saves
<1> DEFINE old == draft.cases
           cases == RemoveAt(old, i)
<1>1. draft # Closed /\ i \in DOMAIN old /\ old \in Seq(Cases)
  BY DEF removeCase, FileInv, Drafts
<1>2. draft' = [draft EXCEPT !.cases = cases] /\ Edits({}, {old[i].id})
  BY DEF removeCase
<1> HIDE DEF old
<1>3. /\ cases \in Seq(Cases) /\ Len(cases) = Len(old) - 1 /\ Len(old) \in Nat
      /\ \A j \in 1..(i - 1) : cases[j] = old[j]
      /\ \A j \in (i + 1)..Len(old) : cases[j - 1] = old[j]
  <2> DEFINE a == SubSeq(old, 1, i - 1)
             b == SubSeq(old, i + 1, Len(old))
  <2>1. i \in 1..Len(old) /\ Len(old) \in Nat
    BY <1>1
  <2>2. /\ a \in Seq(Cases) /\ Len(a) = i - 1
        /\ \A j \in 1..(i - 1) : a[j] = old[j]
    BY <1>1, <2>1
  <2>3. /\ b \in Seq(Cases) /\ Len(b) = Len(old) - i
        /\ \A j \in 1..(Len(old) - i) : b[j] = old[i + j]
    BY <1>1, <2>1
  <2>4. cases = a \o b
    BY DEF RemoveAt
  <2> HIDE DEF a, b, cases
  <2>5. /\ cases \in Seq(Cases) /\ Len(cases) = Len(old) - 1
        /\ \A j \in 1..(i - 1) : cases[j] = a[j]
        /\ \A j \in 1..(Len(old) - i) : cases[(i - 1) + j] = b[j]
    BY <2>1, <2>2, <2>3, <2>4
  <2>6. ASSUME NEW j \in (i + 1)..Len(old) PROVE cases[j - 1] = old[j]
    <3>1. j - i \in 1..(Len(old) - i) /\ (i - 1) + (j - i) = j - 1 /\ i + (j - i) = j
      BY <2>1
    <3> QED BY <2>3, <2>5, <3>1
  <2> QED BY <2>1, <2>2, <2>5, <2>6
<1> HIDE DEF cases
<1>4. ASSUME NEW c, Contains(old, c), c.id \notin {old[i].id}
      PROVE  Contains(cases, c)
  <2>1. PICK j \in 1..Len(old) : old[j] = c
    BY <1>4 DEF Contains
  <2>2. j # i
    BY <1>4, <2>1
  <2>3. CASE j < i
    <3>1. j \in 1..(i - 1) /\ j \in 1..Len(cases)
      BY <1>1, <1>3, <2>3
    <3> QED BY <1>3, <2>1, <3>1 DEF Contains
  <2>4. CASE j > i
    <3>1. j \in (i + 1)..Len(old) /\ j - 1 \in 1..Len(cases)
      BY <1>1, <1>3, <2>4
    <3> QED BY <1>3, <2>1, <3>1 DEF Contains
  <2> QED BY <1>1, <2>2, <2>3, <2>4
<1> QED BY <1>1, <1>2, <1>3, <1>4, CasesKeep DEF old

LEMMA AddKeeps ==
    ASSUME FileInv, NEW id \in CaseIds, addCase(id)
    PROVE  FileInv' /\ ~Saves
<1> DEFINE old == draft.cases
           new(v) == [id |-> id, prompt |-> v, model |-> None, target |-> None,
                      personaReview |-> None]
<1>1. draft # Closed /\ old \in Seq(Cases)
  BY DEF addCase, FileInv, Drafts
<1>2. PICK v \in Typed : draft' = [draft EXCEPT !.cases = Append(@, new(v))]
  BY DEF addCase
<1>3. Edits({}, {id})
  BY DEF addCase
<1>4. new(v) \in Cases
  BY FileAssumption DEF Cases, Optional
<1> DEFINE cases == Append(old, new(v))
<1>5. draft' = [draft EXCEPT !.cases = cases]
  BY <1>2
<1> HIDE DEF old, new
<1>6. /\ cases \in Seq(Cases) /\ Len(cases) = Len(old) + 1 /\ Len(old) \in Nat
      /\ \A j \in 1..Len(old) : cases[j] = old[j]
  BY <1>1, <1>4
<1>7. \A c : Contains(old, c) => Contains(cases, c)
  BY <1>6 DEF Contains
<1> HIDE DEF cases
<1> QED BY <1>1, <1>3, <1>5, <1>6, <1>7, CasesKeep DEF old

LEMMA OpensKeeps == FileInv /\ Opens => FileInv' /\ ~Saves
<1> SUFFICES ASSUME FileInv, Opens PROVE FileInv' /\ ~Saves
  OBVIOUS
<1> DEFINE s == loadScenario(file)
<1>1. /\ IsFile(file) /\ Loads(file) /\ draft = Closed /\ file' = file
      /\ draft' = draftOf(s) /\ opened' = s /\ touched' = {} /\ touchedCases' = {}
  BY DEF Opens, FileInv
<1>2. s \in Bodies
  BY <1>1, LoadedIsScenario
<1> HIDE DEF s
<1>3. Of(s.target, "android") \in Optional /\ Of(s.target, "web") \in Optional
  BY <1>2 DEF Of, Bodies, Targets, Optional
<1>4. draftOf(s).platform \in Platforms
  BY <1>2 DEF draftOf, Bodies, Targets, Platforms
<1>5. draftOf(s) \in Drafts
  BY <1>2, <1>3, <1>4 DEF draftOf, Drafts, Bodies
<1>6. \A i \in DOMAIN s.cases : Contains(s.cases, s.cases[i])
  <2>1. DOMAIN s.cases = 1..Len(s.cases)
    BY <1>2 DEF Bodies
  <2> QED BY <2>1 DEF Contains
<1>7. Keeps(draft)'
  BY <1>1, <1>6 DEF Keeps, draftOf
<1> QED BY <1>1, <1>2, <1>5, <1>7 DEF FileInv, Saves

(* The request of a draft is a scenario.                                   *)
LEMMA BodyIsScenario ==
    ASSUME NEW d \in Drafts
    PROVE  Body(d) \in Bodies
<1>1. buildTarget(d) \in Targets \cup {None}
  BY DEF buildTarget, Drafts, Targets, Optional, Platforms
<1> QED BY <1>1 DEF Body, Bodies, Drafts

LEMMA SubmitsKeeps ==
    ASSUME FileInv, Submits
    PROVE  /\ FileInv'
           /\ Saves => /\ draft \in Drafts /\ opened \in Bodies /\ Keeps(draft)
                       /\ saved' = Body(draft) /\ saved' \in Bodies /\ Loads(file')
                       /\ file' = editScenarioYaml(file, saved')
<1> DEFINE s == Body(draft)
           edited == editScenarioYaml(file, s)
<1>1. draft # Closed /\ draft \in Drafts /\ opened \in Bodies /\ Keeps(draft) /\ IsFile(file)
  BY DEF FileInv, Submits
<1>2. s \in Bodies
  BY <1>1, BodyIsScenario
<1>3. IsFile(edited)
  BY <1>1, <1>2, EditedIsFile
<1>4. UNCHANGED <<opened, touched, touchedCases>>
  BY DEF Submits
<1>5. \/ Loads(edited) /\ file' = edited /\ saved' = s /\ draft' = Closed
      \/ UNCHANGED <<file, saved, draft>>
  BY DEF Submits
<1> HIDE DEF s, edited
<1>6. CASE Loads(edited) /\ file' = edited /\ saved' = s /\ draft' = Closed
  <2>1. FileInv'
    BY <1>3, <1>6 DEF FileInv
  <2> QED BY <1>1, <1>2, <1>6, <2>1 DEF s, edited
<1>7. CASE UNCHANGED <<file, saved, draft>>
  BY <1>1, <1>4, <1>7 DEF FileInv, Keeps, Saves
<1> QED BY <1>5, <1>6, <1>7

LEMMA HandKeeps == FileInv /\ (EditsByHand \/ UNCHANGED fileVars) => FileInv' /\ ~Saves
<1>1. FileInv /\ EditsByHand => FileInv' /\ ~Saves
  BY FileAssumption DEF EditsByHand, FileInv, Keeps, Saves
<1>2. FileInv /\ UNCHANGED fileVars => FileInv' /\ ~Saves
  BY DEF fileVars, FileInv, Keeps, Saves
<1> QED BY <1>1, <1>2

(* A file is written by a request that was accepted, and by no other step  *)
(* of the dialog.                                                          *)
LEMMA FileInvStep ==
    ASSUME FileInv, [FileNext]_fileVars
    PROVE  FileInv' /\ (Saves => Submits)
<1>1. CASE Submits
  BY <1>1, SubmitsKeeps
<1>2. CASE \E field \in {"title", "appPackage", "url", "model", "personaReview"} : Types(field)
  BY <1>2, TypesKeeps
<1>3. CASE \E i \in 1..3, id \in CaseIds : updateCase(i, id)
  BY <1>3, UpdateKeeps
<1>4. CASE \E i \in 1..3 : removeCase(i)
  BY <1>4, RemoveKeeps
<1>5. CASE \E id \in CaseIds : addCase(id)
  BY <1>5, AddKeeps
<1>6. CASE EditsByHand \/ UNCHANGED fileVars
  BY <1>6, HandKeeps
<1>7. CASE Opens \/ TypesTags \/ Blanks \/ setPlatform
  BY <1>7, OpensKeeps, TagsKeep, BlanksKeep, PlatformKeeps
<1> QED BY <1>1, <1>2, <1>3, <1>4, <1>5, <1>6, <1>7 DEF FileNext

THEOREM FilesKeepInv == FileSpec => []FileInv
<1>1. FileInv /\ [FileNext]_fileVars => FileInv'
  BY FileInvStep
<1> QED BY <1>1, FileInvInit, PTL DEF FileSpec

(* The answer to a save is what the file loads as from then on, for any    *)
(* files somebody may commit, before the dialog opens or while it is open. *)
THEOREM AnswersAreSaved == FileSpec => SavesWhatItAnswers
<1>1. FileInv /\ [FileNext]_fileVars =>
          [Saves => Loads(file') /\ loadScenario(file') = saved']_fileVars
  <2> SUFFICES ASSUME FileInv, [FileNext]_fileVars, Saves
               PROVE  Loads(file') /\ loadScenario(file') = saved'
    OBVIOUS
  <2>1. /\ saved' \in Bodies /\ Loads(file') /\ file' = editScenarioYaml(file, saved')
    BY FileInvStep, SubmitsKeeps
  <2>2. IsFile(file)
    BY DEF FileInv
  <2> QED BY <2>1, <2>2, EditedLoads
<1> QED BY <1>1, FilesKeepInv, PTL DEF FileSpec, SavesWhatItAnswers

(* No save parts a comment from what it is about, for any files, whatever  *)
(* cases were renamed, moved, removed or added.                            *)
THEOREM CommentsAreKept == FileSpec => CommentsStay
<1> DEFINE Stay == /\ \A id \in CaseIdsOf(file) \cap CaseIdsOf(file') :
                         CaseNotes(file', id) = CaseNotes(file, id)
                   /\ \A i \in 2..Len(file) :
                         \A j \in DOMAIN file' :
                             NameIn(file, file'[j].key) = file[i].key =>
                                 file[i].notes \subseteq file'[j].notes
                   /\ file[1].notes \subseteq file'[1].notes
<1>1. FileInv /\ [FileNext]_fileVars => [Saves /\ Loads(file) => Stay]_fileVars
  <2> SUFFICES ASSUME FileInv, [FileNext]_fileVars, Saves, Loads(file) PROVE Stay
    OBVIOUS
  <2>1. saved' \in Bodies /\ file' = editScenarioYaml(file, saved')
    BY FileInvStep, SubmitsKeeps
  <2>2. IsFile(file) /\ file # <<>>
    BY DEF FileInv, Loads, Has
  <2>3. \A id \in CaseIdsOf(file') : CaseNotes(file', id) = CaseNotes(file, id)
    BY <2>1, <2>2, CaseCommentsStay
  <2>4. \A i \in 2..Len(file) : \A j \in DOMAIN file' :
            NameIn(file, file'[j].key) = file[i].key => file[i].notes \subseteq file'[j].notes
    BY <2>1, <2>2, KeyCommentsStay
  <2>5. file[1].notes \subseteq file'[1].notes
    BY <2>1, <2>2, HeadStays
  <2> QED BY <2>3, <2>4, <2>5
<1> QED BY <1>1, FilesKeepInv, PTL DEF FileSpec, CommentsStay

(* A field or a case nobody touched in the dialog is saved as it was       *)
(* opened, for any scenario and any edits of the others.                   *)
THEOREM UntouchedIsSaved == FileSpec => UntouchedStays
<1> DEFINE Stay == /\ \A k \in {"title", "tags", "model", "personaReview"} \ touched :
                         saved'[k] = opened[k]
                   /\ "target" \notin touched /\ draft.platform = draftOf(opened).platform =>
                         SameTarget(saved'.target, opened.target)
                   /\ \A i \in DOMAIN opened.cases :
                         opened.cases[i].id \notin touchedCases =>
                             Contains(saved'.cases, opened.cases[i])
<1>1. FileInv /\ [FileNext]_fileVars => [Saves => Stay]_fileVars
  <2> SUFFICES ASSUME FileInv, [FileNext]_fileVars, Saves PROVE Stay
    OBVIOUS
  <2>1. draft \in Drafts /\ opened \in Bodies /\ Keeps(draft) /\ saved' = Body(draft)
    BY FileInvStep, SubmitsKeeps
  <2>2. /\ saved'.target = buildTarget(draft) /\ saved'.cases = draft.cases
        /\ \A k \in {"title", "tags", "model", "personaReview"} : saved'[k] = draft[k]
    BY <2>1 DEF Body
  <2>3. ASSUME "target" \notin touched, draft.platform = draftOf(opened).platform
        PROVE  SameTarget(buildTarget(draft), opened.target)
    <3>1. draft.appPackage = Of(opened.target, "android") /\ draft.url = Of(opened.target, "web")
      BY <2>1, <2>3 DEF Keeps
    <3>2. CASE opened.target = None
      BY <2>3, <3>1, <3>2 DEF Of, draftOf, buildTarget, SameTarget
    <3>3. CASE opened.target # None
      <4>1. opened.target \in Targets
        BY <2>1, <3>3 DEF Bodies
      <4>2. draft.platform = opened.target.platform /\ draft.platform \in Platforms
        BY <2>1, <2>3, <3>3 DEF draftOf, Drafts
      <4>3. (IF draft.platform = "android" THEN draft.appPackage ELSE draft.url) = opened.target.of
        BY <3>1, <3>3, <4>2 DEF Of, Platforms
      <4>4. opened.target.of # None /\ opened.target.of \in Strings
        BY <4>1, FileAssumption DEF Targets
      <4>5. buildTarget(draft) = [platform |-> draft.platform, of |-> opened.target.of, viewport |-> None]
        BY <4>3, <4>4 DEF buildTarget
      <4>6. buildTarget(draft) \in Targets
        BY <4>2, <4>4, <4>5 DEF Targets, Optional
      <4>7. buildTarget(draft) # None
        BY <4>6, FileAssumption
      <4> QED BY <3>3, <4>2, <4>5, <4>7 DEF SameTarget
    <3> QED BY <3>2, <3>3
  <2> QED BY <2>1, <2>2, <2>3 DEF Keeps
<1> QED BY <1>1, FilesKeepInv, PTL DEF FileSpec, UntouchedStays

===============================================================================
