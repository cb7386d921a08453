--------------------------- MODULE Screencast_proofs ---------------------------
(***************************************************************************)
(* What the tab shows is of the socket it has open, a case that is over    *)
(* leaves no handler and no ffmpeg of an accepted subscription, and Chrome *)
(* casts exactly what is watched. For any number of sockets, pages and     *)
(* faults.                                                                 *)
(***************************************************************************)
EXTENDS Screencast, TLAPS

Places == {"idle", "asking", "starting", "on", "off"}
Orders == [op : {"start", "stop", "dispose"}, page : Sessions, by : Handlers]

TypeInv ==
    /\ member \in [Handlers -> {"none", "current", "old"}]
    /\ session \in [Handlers -> Sessions]
    /\ at \in [Handlers -> Places]
    /\ answer \in [Handlers -> {"none", "ok", "error"}]
    /\ wire \in Seq(Orders)
    /\ page \in Pages
    /\ at[Recorder] # "asking"

(* Who may watch the page of the case: the recorder, and while the case is *)
(* not closed.                                                             *)
WatchersAgree ==
    /\ session[Recorder] = CasePage
    /\ \A s \in Sockets : member[s] = "current" => session[s] \in Pages
    /\ case = "closed" => member[Recorder] # "current"

IsStartOfRecorder(c) == c.op = "start" /\ c.by = Recorder

(* A start of the recorder is on its way to Chrome only while the recorder *)
(* waits for it, and once.                                                 *)
StartIsAwaited ==
    /\ \A i \in DOMAIN wire :
          IsStartOfRecorder(wire[i]) => at[Recorder] = "starting" /\ answer[Recorder] = "none"
    /\ \A i, j \in DOMAIN wire :
          IsStartOfRecorder(wire[i]) /\ IsStartOfRecorder(wire[j]) => i = j

Ended == {"exited", "failed", "killed"}

(* Where ffmpeg stands, by where the recorder and its case do.             *)
FfmpegAgrees ==
    /\ at[Recorder] = "idle" <=> ffmpeg = "none"
    /\ at[Recorder] = "idle" => answer[Recorder] = "none"
    /\ at[Recorder] = "on" => answer[Recorder] = "ok"
    /\ case = "driving" =>
          /\ ffmpeg \in {"none", "running", "failed"}
          /\ at[Recorder] = "off" => answer[Recorder] = "error"
    /\ case # "driving" => at[Recorder] \in {"idle", "off"}
    /\ case = "stopping" => ffmpeg \in {"draining", "exited", "failed"}
    /\ case \in {"video", "novideo", "closed"} /\ answer[Recorder] = "ok" => ffmpeg \in Ended

IInv == TypeInv /\ WatchersAgree /\ StartIsAwaited /\ FfmpegAgrees

LEMMA IInvInit == Init => IInv
<1> SUFFICES ASSUME Init PROVE IInv
  OBVIOUS
<1> USE NamesAssumption
<1>1. page \in Pages
  BY DEF Init
<1>2. TypeInv
  BY <1>1 DEF Init, TypeInv, Handlers, Sessions, Places
<1>3. WatchersAgree /\ FfmpegAgrees
  BY DEF Init, WatchersAgree, FfmpegAgrees, Handlers
<1>4. StartIsAwaited
  BY DEF Init, StartIsAwaited
<1> QED BY <1>2, <1>3, <1>4 DEF IInv

-------------------------------------------------------------------------------
(* The recorder's part of the state, for the steps that leave it alone.    *)
OfRecorder == <<session[Recorder], at[Recorder], answer[Recorder], ffmpeg, case>>

LEMMA OthersDoNotMatter ==
    ASSUME IInv, TypeInv', UNCHANGED OfRecorder,
           member'[Recorder] \in {member[Recorder], "old"},
           \A s \in Sockets : member'[s] = "current" => session'[s] \in Pages,
           \A i \in DOMAIN wire' :
              IsStartOfRecorder(wire'[i]) => i \in DOMAIN wire /\ wire'[i] = wire[i]
    PROVE  IInv'
<1> USE DEF IInv
<1>1. WatchersAgree'
  BY DEF WatchersAgree, OfRecorder
<1>2. StartIsAwaited'
  BY DEF StartIsAwaited, IsStartOfRecorder, OfRecorder
<1>3. FfmpegAgrees'
  BY DEF FfmpegAgrees, OfRecorder
<1> QED BY <1>1, <1>2, <1>3

(* A command at the end of the wire that is no start of the recorder.      *)
LEMMA NoStartIsAdded ==
    ASSUME NEW w \in Seq(Orders), NEW c \in Orders, ~IsStartOfRecorder(c)
    PROVE  /\ Append(w, c) \in Seq(Orders)
           /\ \A i \in DOMAIN Append(w, c) :
                 IsStartOfRecorder(Append(w, c)[i]) =>
                     i \in DOMAIN w /\ Append(w, c)[i] = w[i]
<1> DEFINE v == Append(w, c)
<1>1. v \in Seq(Orders) /\ DOMAIN w = 1..Len(w) /\ DOMAIN v = 1..(Len(w) + 1)
  OBVIOUS
<1>2. v[Len(w) + 1] = c /\ \A i \in 1..Len(w) : v[i] = w[i]
  OBVIOUS
<1> HIDE DEF v
<1>3. \A i \in DOMAIN v : IsStartOfRecorder(v[i]) => i \in DOMAIN w /\ v[i] = w[i]
  BY <1>1, <1>2
<1> QED BY <1>1, <1>3 DEF v

LEMMA OneMoreCommand ==
    ASSUME wire \in Seq(Orders), NEW c \in Orders, wire' = Append(wire, c),
           ~IsStartOfRecorder(c)
    PROVE  /\ wire' \in Seq(Orders)
           /\ \A i \in DOMAIN wire' :
                 IsStartOfRecorder(wire'[i]) => i \in DOMAIN wire /\ wire'[i] = wire[i]
BY NoStartIsAdded

LEMMA SocketSubscribes ==
    ASSUME IInv, NEW s \in Sockets, OnFrames(s, page, TRUE), UNCHANGED <<page, ffmpeg, case>>
    PROVE  IInv'
<1> DEFINE c == Command("start", page, s)
<1> USE NamesAssumption DEF IInv, Handlers, Sessions
<1>1. c \in Orders /\ ~IsStartOfRecorder(c)
  BY DEF TypeInv, Orders, Command, IsStartOfRecorder
<1>2. /\ wire' \in Seq(Orders)
      /\ \A i \in DOMAIN wire' :
            IsStartOfRecorder(wire'[i]) => i \in DOMAIN wire /\ wire'[i] = wire[i]
  <2>1. CASE wire' = wire
    BY <2>1 DEF TypeInv
  <2>2. CASE wire' = Append(wire, c)
    BY <1>1, <2>2, OneMoreCommand DEF TypeInv
  <2> QED BY <2>1, <2>2 DEF OnFrames
<1>3. TypeInv'
  BY <1>2 DEF OnFrames, TypeInv, Places
<1>4. member'[Recorder] = member[Recorder] /\ UNCHANGED OfRecorder
  BY DEF OnFrames, TypeInv, OfRecorder
<1>5. \A t \in Sockets : member'[t] = "current" => session'[t] \in Pages
  BY DEF OnFrames, TypeInv, WatchersAgree
<1> QED BY <1>2, <1>3, <1>4, <1>5, OthersDoNotMatter

(* Leaving: whoever it is, a stop at most is sent.                         *)
LEMMA Leaving ==
    ASSUME IInv, NEW h \in Handlers, Unsubscribes(h)
    PROVE  /\ member' \in [Handlers -> {"none", "current", "old"}]
           /\ member' = [member EXCEPT ![h] = "none"]
           /\ wire' \in Seq(Orders)
           /\ \A i \in DOMAIN wire' :
                 IsStartOfRecorder(wire'[i]) => i \in DOMAIN wire /\ wire'[i] = wire[i]
<1> DEFINE c == Command("stop", session[h], h)
<1> USE DEF IInv, TypeInv
<1>1. c \in Orders /\ ~IsStartOfRecorder(c)
  BY DEF Orders, Command, IsStartOfRecorder
<1>2. CASE wire' = wire
  BY <1>2 DEF Unsubscribes
<1>3. CASE wire' = Append(wire, c)
  BY <1>1, <1>3, OneMoreCommand DEF Unsubscribes
<1> QED BY <1>2, <1>3 DEF Unsubscribes

(* The steps of sockets, which the recorder does not notice.               *)
LEMMA SocketStep ==
    ASSUME IInv, NEW s \in Sockets, Serving(s) \/ PageIsRefused(s)
    PROVE  IInv'
<1> USE NamesAssumption DEF IInv, Handlers
<1>1. CASE PageIsGiven(s)
  BY <1>1, SocketSubscribes DEF PageIsGiven, recording
<1>2. CASE SocketOpens(s) \/ PageIsRefused(s) \/ StartFails(s)
  <2>1. /\ UNCHANGED <<member, session, answer, wire, page, ffmpeg, case>>
        /\ at' \in [Handlers -> Places] /\ at'[Recorder] = at[Recorder]
    BY <1>2 DEF SocketOpens, PageIsRefused, StartFails, TypeInv, Places, recording
  <2>2. TypeInv' /\ UNCHANGED OfRecorder
    BY <2>1 DEF TypeInv, OfRecorder
  <2> QED BY <2>1, <2>2, OthersDoNotMatter DEF WatchersAgree
<1>3. CASE Starts(s) \/ SocketCloses(s)
  <2>1. /\ UNCHANGED <<session, answer, page, ffmpeg, case>>
        /\ at' \in [Handlers -> Places] /\ at'[Recorder] = at[Recorder]
        /\ Unsubscribes(s) \/ UNCHANGED <<member, wire>>
    BY <1>3 DEF Starts, SocketCloses, TypeInv, Places, recording, chrome
  <2>2. UNCHANGED OfRecorder
    BY <2>1 DEF OfRecorder
  <2>3. CASE UNCHANGED <<member, wire>>
    <3>1. TypeInv'
      BY <2>1, <2>3 DEF TypeInv
    <3> QED BY <2>1, <2>2, <2>3, <3>1, OthersDoNotMatter DEF WatchersAgree
  <2>4. CASE Unsubscribes(s)
    <3>1. TypeInv'
      BY <2>1, <2>4, Leaving DEF TypeInv
    <3>2. /\ member'[Recorder] = member[Recorder]
          /\ \A t \in Sockets : member'[t] = "current" => session'[t] \in Pages
      BY <2>1, <2>4, Leaving DEF TypeInv, WatchersAgree
    <3> QED BY <2>2, <2>4, <3>1, <3>2, Leaving, OthersDoNotMatter
  <2> QED BY <2>1, <2>3, <2>4
<1> QED BY <1>1, <1>2, <1>3 DEF Serving

(* Chrome takes a command: the wire is shorter, and a start is answered.   *)
LEMMA ChromeStep == IInv /\ ChromeDoes => IInv'
<1> SUFFICES ASSUME IInv, ChromeDoes PROVE IInv'
  OBVIOUS
<1> USE DEF IInv
<1> DEFINE c == Head(wire)
<1>1. /\ UNCHANGED <<member, session, at, page, ffmpeg, case>>
      /\ wire # <<>> /\ wire' = Tail(wire)
      /\ \/ answer' = answer
         \/ c.op = "start" /\ answer' \in {[answer EXCEPT ![c.by] = "ok"],
                                           [answer EXCEPT ![c.by] = "error"]}
  BY DEF ChromeDoes, recording
<1>2. /\ wire' \in Seq(Orders)
      /\ \A i \in DOMAIN wire' : i + 1 \in DOMAIN wire /\ wire'[i] = wire[i + 1]
  BY <1>1 DEF TypeInv
<1>3. c = wire[1] /\ 1 \in DOMAIN wire /\ c \in Orders
  BY <1>1 DEF TypeInv
<1>4. TypeInv'
  BY <1>1, <1>2, <1>3 DEF TypeInv, Orders
<1>5. WatchersAgree'
  BY <1>1 DEF WatchersAgree
<1>6. CASE c.op = "start" /\ c.by = Recorder
  <2>1. at[Recorder] = "starting" /\ answer[Recorder] = "none"
    BY <1>3, <1>6 DEF StartIsAwaited, IsStartOfRecorder
  <2>2. \A i \in DOMAIN wire' : ~IsStartOfRecorder(wire'[i])
    <3> SUFFICES ASSUME NEW i \in DOMAIN wire', IsStartOfRecorder(wire'[i]) PROVE FALSE
      OBVIOUS
    <3>1. i \in Nat \ {0} /\ i + 1 \in DOMAIN wire /\ IsStartOfRecorder(wire[i + 1])
      BY <1>2
    <3>2. i + 1 = 1
      BY <1>3, <1>6, <3>1 DEF StartIsAwaited, IsStartOfRecorder
    <3> QED BY <3>1, <3>2
  <2>3. StartIsAwaited'
    BY <2>2 DEF StartIsAwaited, IsStartOfRecorder
  <2>4. FfmpegAgrees'
    BY <1>1, <2>1 DEF FfmpegAgrees
  <2> QED BY <1>4, <1>5, <2>3, <2>4
<1>7. CASE ~(c.op = "start" /\ c.by = Recorder)
  <2>1. answer'[Recorder] = answer[Recorder]
    <3>1. CASE c.op = "start"
      <4>1. c.by \in Handlers /\ c.by # Recorder /\ Recorder \in Handlers
        BY <1>3, <1>7, <3>1 DEF Orders, Handlers
      <4> HIDE DEF c
      <4> QED BY <1>1, <4>1 DEF TypeInv
    <3> QED BY <1>1, <3>1
  <2>2. StartIsAwaited'
    <3>1. ASSUME NEW i \in DOMAIN wire', IsStartOfRecorder(wire'[i])
          PROVE  at'[Recorder] = "starting" /\ answer'[Recorder] = "none"
      BY <1>1, <1>2, <2>1, <3>1 DEF StartIsAwaited, IsStartOfRecorder
    <3>2. ASSUME NEW i \in DOMAIN wire', NEW j \in DOMAIN wire',
                 IsStartOfRecorder(wire'[i]), IsStartOfRecorder(wire'[j])
          PROVE  i = j
      <4>1. i \in Nat /\ j \in Nat
        BY <1>2
      <4>2. i + 1 = j + 1
        BY <1>2, <3>2 DEF StartIsAwaited, IsStartOfRecorder
      <4> QED BY <4>1, <4>2
    <3> QED BY <3>1, <3>2 DEF StartIsAwaited, IsStartOfRecorder
  <2>3. FfmpegAgrees'
    BY <1>1, <2>1 DEF FfmpegAgrees
  <2> QED BY <1>4, <1>5, <2>2, <2>3
<1> QED BY <1>6, <1>7

LEMMA LinkStep == IInv /\ LinkCloses => IInv'
<1> SUFFICES ASSUME IInv, LinkCloses PROVE IInv'
  OBVIOUS
<1> USE DEF IInv
<1>1. /\ UNCHANGED <<member, session, at, page, ffmpeg, case>>
      /\ wire' = <<>>
      /\ answer' = [h \in Handlers |-> IF at[h] = "starting" /\ answer[h] = "none"
                                       THEN "error" ELSE answer[h]]
  BY DEF LinkCloses, recording
<1>2. TypeInv' /\ WatchersAgree' /\ StartIsAwaited'
  BY <1>1 DEF TypeInv, WatchersAgree, StartIsAwaited
<1>3. answer'[Recorder] = IF at[Recorder] = "starting" /\ answer[Recorder] = "none"
                          THEN "error" ELSE answer[Recorder]
  BY <1>1 DEF Handlers
<1>4. FfmpegAgrees'
  BY <1>1, <1>3 DEF FfmpegAgrees
<1> QED BY <1>2, <1>4

(* The recorder subscribes: it may be the first, and then it has to wait.  *)
LEMMA RecorderStartsStep == IInv /\ RecorderStarts => IInv'
<1> SUFFICES ASSUME IInv, RecorderStarts PROVE IInv'
  OBVIOUS
<1> DEFINE c == Command("start", CasePage, Recorder)
<1> USE NamesAssumption DEF IInv, Handlers, Sessions
<1>1. /\ at[Recorder] = "idle" /\ case = "driving" /\ UNCHANGED <<case, page>>
      /\ ffmpeg' = "running"
      /\ member' = [member EXCEPT ![Recorder] = "current"]
      /\ session' = [session EXCEPT ![Recorder] = CasePage]
      /\ at' = [at EXCEPT ![Recorder] = "starting"]
      /\ \/ wire' = Append(wire, c) /\ answer' = answer
         \/ wire' = wire /\ answer' = [answer EXCEPT ![Recorder] = "ok"]
  BY DEF RecorderStarts, OnFrames
<1>2. c \in Orders
  BY DEF Orders, Command
<1>3. \A i \in DOMAIN wire : ~IsStartOfRecorder(wire[i])
  BY <1>1 DEF StartIsAwaited
<1>4. wire' \in Seq(Orders) /\ \A i \in DOMAIN wire' :
          IsStartOfRecorder(wire'[i]) => i = Len(wire) + 1 /\ answer' = answer
  <2>1. CASE wire' = wire /\ answer' = [answer EXCEPT ![Recorder] = "ok"]
    BY <1>3, <2>1 DEF TypeInv
  <2>2. CASE wire' = Append(wire, c) /\ answer' = answer
    <3>1. wire' \in Seq(Orders) /\ DOMAIN wire' = 1..(Len(wire) + 1) /\ DOMAIN wire = 1..Len(wire)
      BY <1>2, <2>2 DEF TypeInv
    <3>2. \A i \in 1..Len(wire) : wire'[i] = wire[i]
      BY <2>2 DEF TypeInv
    <3> QED BY <1>3, <2>2, <3>1, <3>2
  <2> QED BY <1>1, <2>1, <2>2
<1>5. TypeInv'
  BY <1>1, <1>4 DEF TypeInv, Places
<1>6. WatchersAgree'
  BY <1>1 DEF TypeInv, WatchersAgree
<1>7. at'[Recorder] = "starting" /\ answer[Recorder] = "none"
  BY <1>1 DEF TypeInv, FfmpegAgrees
<1>8. StartIsAwaited'
  BY <1>4, <1>7 DEF StartIsAwaited, IsStartOfRecorder
<1>9. FfmpegAgrees'
  BY <1>1, <1>7 DEF FfmpegAgrees
<1> QED BY <1>5, <1>6, <1>8, <1>9

LEMMA RecorderIsOnStep == IInv /\ RecorderIsOn => IInv'
<1> SUFFICES ASSUME IInv, RecorderIsOn PROVE IInv'
  OBVIOUS
<1> USE NamesAssumption DEF IInv, Handlers
<1>1. /\ at[Recorder] = "starting" /\ answer[Recorder] # "none"
      /\ at' = [at EXCEPT ![Recorder] = IF answer[Recorder] = "ok" THEN "on" ELSE "off"]
      /\ UNCHANGED <<member, session, wire, answer, page, ffmpeg, case>>
  BY DEF RecorderIsOn, recording
<1>2. TypeInv' /\ WatchersAgree'
  BY <1>1 DEF TypeInv, WatchersAgree, Places
<1>3. at'[Recorder] = IF answer[Recorder] = "ok" THEN "on" ELSE "off"
  BY <1>1 DEF TypeInv
<1>4. StartIsAwaited'
  BY <1>1 DEF StartIsAwaited, IsStartOfRecorder
<1>5. FfmpegAgrees'
  BY <1>1, <1>3 DEF FfmpegAgrees, TypeInv
<1> QED BY <1>2, <1>4, <1>5

LEMMA RecorderStopsStep == IInv /\ RecorderStops => IInv'
<1> SUFFICES ASSUME IInv, RecorderStops PROVE IInv'
  OBVIOUS
<1> USE NamesAssumption DEF IInv, Handlers
<1>1. case = "driving" /\ UNCHANGED <<session, answer, page>>
  BY DEF RecorderStops
<1>2. CASE at[Recorder] = "on"
  <2>1. /\ Unsubscribes(Recorder) /\ at' = [at EXCEPT ![Recorder] = "off"]
        /\ ffmpeg' = IF ffmpeg = "running" THEN "draining" ELSE ffmpeg
        /\ case' = IF ffmpeg = "running" THEN "stopping" ELSE "novideo"
    BY <1>2 DEF RecorderStops
  <2>2. at'[Recorder] = "off" /\ member'[Recorder] = "none"
    BY <2>1, Leaving DEF TypeInv
  <2>3. TypeInv' /\ WatchersAgree'
    BY <1>1, <2>1, <2>2, Leaving DEF TypeInv, WatchersAgree, Places
  <2>4. \A i \in DOMAIN wire' : ~IsStartOfRecorder(wire'[i])
    BY <1>2, <2>1, Leaving DEF StartIsAwaited
  <2>5. StartIsAwaited'
    BY <2>4 DEF StartIsAwaited, IsStartOfRecorder
  <2>6. FfmpegAgrees'
    BY <1>1, <1>2, <2>1, <2>2 DEF FfmpegAgrees, Ended
  <2> QED BY <2>3, <2>5, <2>6
<1>3. CASE at[Recorder] # "on"
  <2>1. case' = "novideo" /\ at[Recorder] \in {"idle", "off"}
        /\ UNCHANGED <<member, wire, at, ffmpeg>>
    BY <1>3 DEF RecorderStops
  <2>2. TypeInv' /\ WatchersAgree' /\ StartIsAwaited'
    BY <1>1, <2>1 DEF TypeInv, WatchersAgree, StartIsAwaited, IsStartOfRecorder
  <2>3. FfmpegAgrees'
    BY <1>1, <2>1 DEF FfmpegAgrees
  <2> QED BY <2>2, <2>3
<1> QED BY <1>2, <1>3

LEMMA FfmpegStep == IInv /\ (FfmpegEnds \/ AwaitExit) => IInv'
<1> SUFFICES ASSUME IInv, FfmpegEnds \/ AwaitExit PROVE IInv'
  OBVIOUS
<1> USE DEF IInv
<1>1. UNCHANGED <<member, session, at, answer, wire, page>>
  BY DEF FfmpegEnds, AwaitExit, client
<1>2. TypeInv' /\ StartIsAwaited'
  BY <1>1 DEF TypeInv, StartIsAwaited, IsStartOfRecorder
<1>3. WatchersAgree'
  BY <1>1 DEF WatchersAgree, FfmpegEnds, AwaitExit
<1>4. FfmpegAgrees'
  BY <1>1 DEF FfmpegAgrees, FfmpegEnds, AwaitExit, Ended
<1> QED BY <1>2, <1>3, <1>4

(* The case's page is released: nobody is left in its set.                 *)
LEMMA CaseClosesStep == IInv /\ CaseCloses => IInv'
<1> SUFFICES ASSUME IInv, CaseCloses PROVE IInv'
  OBVIOUS
<1> DEFINE stop == Command("stop", CasePage, Recorder)
           dispose == Command("dispose", CasePage, Recorder)
<1> USE NamesAssumption DEF IInv, Handlers, Sessions
<1>1. /\ case \in {"video", "novideo"} /\ case' = "closed"
      /\ UNCHANGED <<session, at, answer, ffmpeg, page>>
      /\ member' = [h \in Handlers |-> IF h \in Subscribers(CasePage) THEN "old" ELSE member[h]]
  BY DEF CaseCloses, CloseSession, Release
<1>2. /\ stop \in Orders /\ dispose \in Orders
      /\ ~IsStartOfRecorder(stop) /\ ~IsStartOfRecorder(dispose)
  BY DEF Orders, Command, IsStartOfRecorder
<1>3. /\ wire' \in Seq(Orders)
      /\ \A i \in DOMAIN wire' :
            IsStartOfRecorder(wire'[i]) => i \in DOMAIN wire /\ wire'[i] = wire[i]
  <2> DEFINE told == IF Subscribers(CasePage) = {} THEN wire ELSE Append(wire, stop)
  <2>1. /\ told \in Seq(Orders)
        /\ \A i \in DOMAIN told :
              IsStartOfRecorder(told[i]) => i \in DOMAIN wire /\ told[i] = wire[i]
    BY <1>2, NoStartIsAdded DEF TypeInv
  <2>2. wire \o <<stop>> = Append(wire, stop) /\ wire \o <<>> = wire
        /\ told \o <<dispose>> = Append(told, dispose)
    BY <1>2, <2>1 DEF TypeInv
  <2>3. wire' = wire \/ wire' = Append(told, dispose)
    BY <2>2 DEF CaseCloses, CloseSession
  <2>4. CASE wire' = Append(told, dispose)
    <3> HIDE DEF told, dispose
    <3>1. /\ wire' \in Seq(Orders)
          /\ \A i \in DOMAIN wire' :
                IsStartOfRecorder(wire'[i]) => i \in DOMAIN told /\ wire'[i] = told[i]
      BY <1>2, <2>1, <2>4, NoStartIsAdded
    <3> QED BY <2>1, <3>1
  <2> QED BY <2>3, <2>4 DEF TypeInv
<1>4. TypeInv'
  BY <1>1, <1>3 DEF TypeInv
<1>5. WatchersAgree'
  BY <1>1 DEF TypeInv, WatchersAgree, Subscribers
<1>6. StartIsAwaited'
  BY <1>1, <1>3 DEF StartIsAwaited, IsStartOfRecorder
<1>7. FfmpegAgrees'
  BY <1>1 DEF FfmpegAgrees
<1> QED BY <1>4, <1>5, <1>6, <1>7

LEMMA IInvStep == IInv /\ [Next]_vars => IInv'
<1> SUFFICES ASSUME IInv, [Next]_vars PROVE IInv'
  OBVIOUS
<1>1. ASSUME UNCHANGED <<member, session, at, answer, wire, page, ffmpeg, case>> PROVE IInv'
  BY <1>1 DEF IInv, TypeInv, WatchersAgree, StartIsAwaited, IsStartOfRecorder, FfmpegAgrees
<1>2. CASE ReopensPage
  <2>1. /\ UNCHANGED <<member, session, at, answer, wire, ffmpeg, case>> /\ page' \in Pages
    BY <1>2 DEF ReopensPage, client, recording
  <2> QED BY <2>1 DEF IInv, TypeInv, WatchersAgree, StartIsAwaited, IsStartOfRecorder, FfmpegAgrees
<1>3. CASE Pauses \/ \E s \in Sockets : Sees(s) \/ Opens(s)
  BY <1>1, <1>3 DEF Pauses, Sees, Opens, client, recording
<1>4. CASE \E p \in Sessions : Frame(p)
  BY <1>1, <1>4 DEF Frame, client, recording
<1>5. CASE UNCHANGED vars
  BY <1>1, <1>5 DEF vars, client, recording
<1> QED
  BY <1>2, <1>3, <1>4, <1>5, SocketStep, ChromeStep, LinkStep, RecorderStartsStep,
     RecorderIsOnStep, RecorderStopsStep, FfmpegStep, CaseClosesStep DEF Next

(* A case that is closed has left no handler on its page and no ffmpeg of  *)
(* a subscription that was accepted, whatever failed, closed or came late. *)
THEOREM CasesLeaveNothing == Spec => []CaseLeavesNothing
<1>1. IInv => CaseLeavesNothing
  <2> SUFFICES ASSUME IInv, case = "closed"
               PROVE  /\ Subscribers(CasePage) = {}
                      /\ answer[Recorder] = "ok" => ffmpeg \in Ended
    BY DEF CaseLeavesNothing, Ended
  <2>1. \A h \in Handlers : ~(member[h] = "current" /\ session[h] = CasePage)
    BY NamesAssumption DEF IInv, WatchersAgree, Handlers
  <2> QED BY <2>1 DEF IInv, FfmpegAgrees, Subscribers
<1> QED BY <1>1, IInvInit, IInvStep, PTL DEF Spec

-------------------------------------------------------------------------------
(* The tab. *)

PictureInv == DOMAIN tab = {"state", "socket", "picture"} /\ PictureIsOfItsSocket

(* What is on screen is a frame of the socket the tab has open: one that   *)
(* was dropped shows nothing any more, however late its frames arrive.     *)
THEOREM PicturesAreOfTheirSocket == Spec => []PictureIsOfItsSocket
<1>1. Init => PictureInv
  BY DEF Init, PictureInv, PictureIsOfItsSocket
<1>2. PictureInv /\ [Next]_vars => PictureInv'
  <2> SUFFICES ASSUME PictureInv, [Next]_vars PROVE PictureInv'
    OBVIOUS
  <2>1. ASSUME tab' = tab PROVE PictureInv'
    BY <2>1 DEF PictureInv, PictureIsOfItsSocket
  <2>2. ASSUME NEW s \in Sockets, Opens(s) PROVE PictureInv'
    BY <2>2 DEF Opens, PictureInv, PictureIsOfItsSocket
  <2>3. CASE Pauses
    BY <2>3 DEF Pauses, PictureInv, PictureIsOfItsSocket
  <2>4. ASSUME NEW s \in Sockets, Sees(s) PROVE PictureInv'
    <3>1. \/ tab' = tab
          \/ tab.socket = s /\ tab' = [tab EXCEPT !.picture = s]
          \/ tab' = [tab EXCEPT !.state = Head(toTab[s])]
      BY <2>4 DEF Sees
    <3> QED BY <3>1 DEF PictureInv, PictureIsOfItsSocket
  <2>5. ASSUME NEW s \in Sockets, Serving(s) \/ PageIsRefused(s) PROVE tab' = tab
    BY <2>5 DEF Serving, SocketOpens, PageIsGiven, PageIsRefused, Starts, StartFails,
                SocketCloses, browser
  <2>6. CASE \/ ChromeDoes \/ LinkCloses \/ ReopensPage \/ RecorderStarts \/ RecorderIsOn
             \/ RecorderStops \/ FfmpegEnds \/ AwaitExit \/ CaseCloses \/ UNCHANGED vars
    BY <2>1, <2>6 DEF ChromeDoes, LinkCloses, ReopensPage, RecorderStarts, RecorderIsOn,
                      RecorderStops, FfmpegEnds, AwaitExit, CaseCloses, vars, browser
  <2>7. ASSUME NEW p \in Sessions, Frame(p) PROVE tab' = tab
    BY <2>7 DEF Frame
  <2> QED BY <2>1, <2>2, <2>3, <2>4, <2>5, <2>6, <2>7 DEF Next
<1>3. PictureInv => PictureIsOfItsSocket
  BY DEF PictureInv
<1> QED BY <1>1, <1>2, <1>3, PTL DEF Spec

-------------------------------------------------------------------------------
(* Chrome casts what is watched. *)

SocketStates == {"new", "connecting", "open", "closed"}

(* A socket asks for frames once, and whoever has not asked is in no set.  *)
AsksOnce ==
    /\ socket \in [Sockets -> SocketStates]
    /\ \A s \in Sockets : socket[s] \in {"new", "connecting"} => at[s] = "idle"
    /\ \A h \in Handlers : at[h] \in {"idle", "asking"} => member[h] = "none"

CastInv == AsksOnce /\ ScreencastFollowsSubscribers

(* WillCast of a wire: the last command about the page decides.            *)
CastsAfter(w, p) ==
    \/ \E last \in DOMAIN w :
          /\ w[last].page = p /\ w[last].op = "start"
          /\ \A i \in DOMAIN w : w[i].page = p => i <= last
    \/ (\A i \in DOMAIN w : w[i].page # p) /\ p \in streaming

LEMMA CastsOfWire == \A p : WillCast(p) <=> CastsAfter(wire, p)
  BY DEF WillCast, CastsAfter

LEMMA CastsOfNextWire ==
    ASSUME UNCHANGED streaming
    PROVE  \A p : WillCast(p)' <=> CastsAfter(wire', p)
  BY DEF WillCast, CastsAfter

(* One more command: it decides for its page, and for no other.            *)
LEMMA LastCommandDecides ==
    ASSUME NEW w \in Seq(Orders), NEW c \in Orders
    PROVE  \A p : CastsAfter(Append(w, c), p) <=>
                      IF p = c.page THEN c.op = "start" ELSE CastsAfter(w, p)
<1> DEFINE v == Append(w, c)
<1> SUFFICES ASSUME NEW p
             PROVE  CastsAfter(v, p) <=> IF p = c.page THEN c.op = "start" ELSE CastsAfter(w, p)
  OBVIOUS
<1>1. /\ Len(w) \in Nat /\ DOMAIN w = 1..Len(w) /\ DOMAIN v = 1..(Len(w) + 1)
      /\ v[Len(w) + 1] = c /\ \A i \in 1..Len(w) : v[i] = w[i]
  OBVIOUS
<1> HIDE DEF v
<1>2. Len(w) + 1 \in DOMAIN v /\ \A i \in DOMAIN v : i <= Len(w) + 1
  BY <1>1
<1>3. CASE p = c.page
  BY <1>1, <1>2, <1>3 DEF CastsAfter
<1>4. CASE p # c.page
  <2>1. \A i \in DOMAIN v : v[i].page = p => i \in DOMAIN w /\ v[i] = w[i]
    BY <1>1, <1>4
  <2>2. \A i \in DOMAIN w : i \in DOMAIN v /\ v[i] = w[i]
    BY <1>1
  <2> QED BY <1>4, <2>1, <2>2 DEF CastsAfter
<1> QED BY <1>3, <1>4

(* Whoever subscribes: the first of a page has Chrome cast it.             *)
LEMMA SubscribingCasts ==
    ASSUME TypeInv, CastInv, NEW h \in Handlers, NEW p \in Sessions, NEW b, OnFrames(h, p, b),
           member[h] = "none", UNCHANGED <<link, streaming, refused>>
    PROVE  ScreencastFollowsSubscribers'
<1> DEFINE c == Command("start", p, h)
<1>1. /\ member' = [member EXCEPT ![h] = "current"] /\ session' = [session EXCEPT ![h] = p]
      /\ wire' = IF Subscribers(p) = {} THEN Append(wire, c) ELSE wire
  BY DEF OnFrames
<1>2. c \in Orders /\ c.page = p /\ c.op = "start" /\ wire \in Seq(Orders)
  BY DEF Command, Orders, TypeInv
<1> HIDE DEF c
<1>3. \A q \in Sessions : Subscribers(q)' = IF q = p THEN Subscribers(q) \cup {h} ELSE Subscribers(q)
  BY <1>1 DEF Subscribers, TypeInv
<1>4. \A q : WillCast(q)' <=> (WillCast(q) \/ (q = p /\ Subscribers(p) = {}))
  BY <1>1, <1>2, LastCommandDecides, CastsOfWire, CastsOfNextWire
<1> QED BY <1>3, <1>4 DEF CastInv, ScreencastFollowsSubscribers

(* Whoever leaves: the last of a page stops it.                            *)
LEMMA LeavingCasts ==
    ASSUME TypeInv, CastInv, NEW h \in Handlers, Unsubscribes(h),
           UNCHANGED <<link, session, streaming, refused>>
    PROVE  ScreencastFollowsSubscribers'
<1> SUFFICES ASSUME link = "up" PROVE ScreencastFollowsSubscribers'
  BY DEF ScreencastFollowsSubscribers
<1> DEFINE p == session[h]
           c == Command("stop", p, h)
           isLast == member[h] = "current" /\ Subscribers(p) = {h}
<1>1. /\ member' = [member EXCEPT ![h] = "none"]
      /\ wire' = IF isLast THEN Append(wire, c) ELSE wire
  BY DEF Unsubscribes
<1>2. c \in Orders /\ c.page = p /\ c.op = "stop" /\ wire \in Seq(Orders) /\ p \in Sessions
  BY DEF Command, Orders, TypeInv
<1> HIDE DEF c
<1>3. \A q \in Sessions : Subscribers(q)' = Subscribers(q) \ {h}
  BY <1>1 DEF Subscribers, TypeInv
<1>4. \A q : WillCast(q)' <=> (WillCast(q) /\ ~(q = p /\ isLast))
  BY <1>1, <1>2, LastCommandDecides, CastsOfWire, CastsOfNextWire
<1>5. h \in Subscribers(p) <=> member[h] = "current"
  BY DEF Subscribers
<1>6. \A q \in Sessions : h \in Subscribers(q) => q = p
  BY DEF Subscribers
<1> QED BY <1>2, <1>3, <1>4, <1>5, <1>6 DEF CastInv, ScreencastFollowsSubscribers

(* Chrome takes a command: what the page comes to, it has come to.         *)
LEMMA ChromeCasts ==
    ASSUME TypeInv, CastInv, ChromeDoes
    PROVE  ScreencastFollowsSubscribers'
<1> DEFINE c == Head(wire)
<1>1. /\ wire # <<>> /\ wire' = Tail(wire) /\ UNCHANGED <<link, member, session>>
      /\ \/ /\ c.op = "start" /\ streaming' = streaming \cup {c.page} /\ refused' = refused
         \/ /\ c.op = "start" /\ streaming' = streaming /\ refused' = refused \cup {c.page}
         \/ /\ c.op # "start" /\ streaming' = streaming \ {c.page} /\ refused' = refused
  BY DEF ChromeDoes
<1>2. /\ Len(wire) \in Nat /\ DOMAIN wire = 1..Len(wire) /\ DOMAIN wire' = 1..(Len(wire) - 1)
      /\ 1 \in DOMAIN wire /\ wire[1] = c
      /\ \A i \in DOMAIN wire' : wire'[i] = wire[i + 1]
  BY <1>1 DEF TypeInv
<1> HIDE DEF c
<1>3. \A i \in DOMAIN wire' : i + 1 \in DOMAIN wire /\ wire'[i] = wire[i + 1]
  BY <1>2
<1>4. \A i \in DOMAIN wire : i # 1 => i - 1 \in DOMAIN wire' /\ wire'[i - 1] = wire[i]
  BY <1>2
<1>5. ASSUME NEW p, p \notin refused' PROVE WillCast(p)' <=> WillCast(p)
  <2>1. CASE \E i \in DOMAIN wire' : wire'[i].page = p
    <3>1. ASSUME NEW last \in DOMAIN wire', \A i \in DOMAIN wire' : wire'[i].page = p => i <= last
          PROVE  \A i \in DOMAIN wire : wire[i].page = p => i <= last + 1
      BY <1>2, <1>4, <3>1
    <3>2. ASSUME NEW last \in DOMAIN wire, \A i \in DOMAIN wire : wire[i].page = p => i <= last
          PROVE  last # 1 /\ \A i \in DOMAIN wire' : wire'[i].page = p => i <= last - 1
      BY <1>2, <1>3, <2>1, <3>2
    <3>3. (\E last \in DOMAIN wire : wire[last].page = p /\ wire[last].op = "start"
              /\ \A i \in DOMAIN wire : wire[i].page = p => i <= last)
          <=> (\E last \in DOMAIN wire' : wire'[last].page = p /\ wire'[last].op = "start"
              /\ \A i \in DOMAIN wire' : wire'[i].page = p => i <= last)
      BY <1>3, <1>4, <3>1, <3>2
    <3>4. \E i \in DOMAIN wire : wire[i].page = p
      BY <1>3, <2>1
    <3> QED BY <2>1, <3>3, <3>4 DEF WillCast
  <2>2. CASE \A i \in DOMAIN wire' : wire'[i].page # p
    <3>1. \A i \in DOMAIN wire : wire[i].page = p => i = 1
      BY <1>4, <2>2
    <3>2. WillCast(p)' <=> p \in streaming'
      BY <2>2 DEF WillCast
    <3>3. CASE c.page = p
      <4>1. WillCast(p) <=> c.op = "start"
        BY <1>2, <3>1, <3>3 DEF WillCast
      <4> QED BY <1>1, <1>5, <3>2, <3>3, <4>1
    <3>4. CASE c.page # p
      <4>1. WillCast(p) <=> p \in streaming
        BY <1>2, <3>1, <3>4 DEF WillCast
      <4> QED BY <1>1, <3>2, <3>4, <4>1
    <3> QED BY <3>3, <3>4
  <2> QED BY <2>1, <2>2
<1>6. \A p \in Sessions : Subscribers(p)' = Subscribers(p) /\ (p \notin refused' => p \notin refused)
  BY <1>1 DEF Subscribers
<1> QED BY <1>1, <1>5, <1>6 DEF CastInv, ScreencastFollowsSubscribers

(* The case's page is disposed of, and no other.                           *)
LEMMA ClosingCasts ==
    ASSUME TypeInv, CastInv, CaseCloses
    PROVE  ScreencastFollowsSubscribers'
<1> SUFFICES ASSUME link = "up" PROVE ScreencastFollowsSubscribers'
  BY DEF CaseCloses, ScreencastFollowsSubscribers
<1> DEFINE stop == Command("stop", CasePage, Recorder)
           dispose == Command("dispose", CasePage, Recorder)
           told == IF Subscribers(CasePage) = {} THEN wire ELSE Append(wire, stop)
<1>1. /\ UNCHANGED <<link, session, streaming, refused>>
      /\ member' = [h \in Handlers |-> IF h \in Subscribers(CasePage) THEN "old" ELSE member[h]]
  BY DEF CaseCloses, CloseSession, Release, chrome
<1>2. /\ stop \in Orders /\ stop.page = CasePage /\ stop.op = "stop"
      /\ dispose \in Orders /\ dispose.page = CasePage /\ dispose.op = "dispose"
      /\ wire \in Seq(Orders)
  BY DEF Command, Orders, Handlers, Sessions, TypeInv
<1> HIDE DEF stop, dispose
<1>3. told \in Seq(Orders) /\ wire' = Append(told, dispose)
  <2>1. wire' = wire \o (IF Subscribers(CasePage) = {} THEN <<>> ELSE <<stop>>) \o <<dispose>>
    BY DEF CaseCloses, CloseSession, stop, dispose
  <2>2. told \in Seq(Orders) /\ told = wire \o (IF Subscribers(CasePage) = {} THEN <<>> ELSE <<stop>>)
    BY <1>2
  <2> HIDE DEF told
  <2> QED BY <1>2, <2>1, <2>2
<1>4. \A q : q # CasePage => (CastsAfter(told, q) <=> CastsAfter(wire, q))
  BY <1>2, LastCommandDecides
<1> HIDE DEF told
<1>5. \A q : WillCast(q)' <=> (q # CasePage /\ WillCast(q))
  BY <1>1, <1>2, <1>3, <1>4, LastCommandDecides, CastsOfWire, CastsOfNextWire
<1>6. /\ Subscribers(CasePage)' = {}
      /\ \A q \in Sessions : q # CasePage => Subscribers(q)' = Subscribers(q)
  BY <1>1 DEF Subscribers
<1> QED BY <1>1, <1>5, <1>6 DEF CastInv, ScreencastFollowsSubscribers

LEMMA CastInit == Init => CastInv
<1> SUFFICES ASSUME Init PROVE CastInv
  OBVIOUS
<1>1. \A p : ~WillCast(p) /\ Subscribers(p) = {}
  BY DEF Init, WillCast, Subscribers
<1> QED BY <1>1 DEF Init, CastInv, AsksOnce, SocketStates, Handlers, ScreencastFollowsSubscribers

LEMMA AskStep == TypeInv /\ AsksOnce /\ [Next]_vars => AsksOnce'
<1> SUFFICES ASSUME TypeInv, AsksOnce, [Next]_vars PROVE AsksOnce'
  OBVIOUS
<1> USE NamesAssumption DEF Handlers
<1>1. ASSUME UNCHANGED <<socket, at, member>> PROVE AsksOnce'
  BY <1>1 DEF AsksOnce
<1>2. ASSUME NEW s \in Sockets, SocketOpens(s) PROVE AsksOnce'
  BY <1>2 DEF SocketOpens, AsksOnce, TypeInv, SocketStates
<1>3. ASSUME NEW s \in Sockets, PageIsGiven(s) PROVE AsksOnce'
  <2>1. /\ at[s] = "asking" /\ at' = [at EXCEPT ![s] = "starting"]
        /\ member' = [member EXCEPT ![s] = "current"] /\ UNCHANGED socket
    BY <1>3 DEF PageIsGiven, OnFrames, browser
  <2> QED BY <2>1 DEF AsksOnce, TypeInv
<1>4. ASSUME NEW s \in Sockets, PageIsRefused(s) \/ StartFails(s) PROVE AsksOnce'
  <2>1. /\ at[s] \in {"asking", "starting"} /\ at' = [at EXCEPT ![s] = "off"]
        /\ UNCHANGED <<member, socket>>
    BY <1>4 DEF PageIsRefused, StartFails
  <2> QED BY <2>1 DEF AsksOnce, TypeInv
<1>5. ASSUME NEW h \in Handlers, at[h] \in {"starting", "on"},
             at' = at \/ at' = [at EXCEPT ![h] = "on"] \/ at' = [at EXCEPT ![h] = "off"],
             member' = member \/ member' = [member EXCEPT ![h] = "none"], UNCHANGED socket
      PROVE  AsksOnce'
  BY <1>5 DEF AsksOnce, TypeInv
<1>6. ASSUME NEW s \in Sockets, Starts(s) \/ SocketCloses(s) PROVE AsksOnce'
  <2>1. UNCHANGED socket
    BY <1>6 DEF Starts, SocketCloses, browser
  <2> QED BY <1>1, <1>5, <1>6, <2>1 DEF Starts, SocketCloses, Unsubscribes
<1>7. CASE RecorderStarts
  <2>1. /\ at' = [at EXCEPT ![Recorder] = "starting"]
        /\ member' = [member EXCEPT ![Recorder] = "current"] /\ UNCHANGED socket
    BY <1>7 DEF RecorderStarts, OnFrames, browser
  <2> QED BY <2>1 DEF AsksOnce, TypeInv
<1>8. CASE RecorderIsOn
  BY <1>5, <1>8 DEF RecorderIsOn, browser
<1>9. CASE RecorderStops
  <2>1. UNCHANGED socket
    BY <1>9 DEF RecorderStops, browser
  <2> QED BY <1>1, <1>5, <1>9, <2>1 DEF RecorderStops, Unsubscribes
<1>10. CASE CaseCloses
  <2>1. /\ UNCHANGED <<at, socket>>
        /\ member' = [h \in Handlers |-> IF h \in Subscribers(CasePage) THEN "old" ELSE member[h]]
    BY <1>10 DEF CaseCloses, CloseSession, Release, browser
  <2> QED BY <2>1 DEF AsksOnce, Subscribers
<1>11. CASE Pauses \/ \E s \in Sockets : Sees(s) \/ Opens(s)
  <2>1. UNCHANGED <<at, member>>
    BY <1>11 DEF Pauses, Sees, Opens, client
  <2>2. \/ socket' = socket
        \/ \E s : socket' = [socket EXCEPT ![s] = "closed"]
        \/ \E s \in Sockets : socket[s] = "new" /\ socket' = [socket EXCEPT ![s] = "connecting"]
    BY <1>11 DEF Pauses, Sees, Opens
  <2> QED BY <2>1, <2>2 DEF AsksOnce, SocketStates
<1>12. CASE ChromeDoes \/ LinkCloses \/ ReopensPage \/ FfmpegEnds \/ AwaitExit \/ UNCHANGED vars
            \/ \E p \in Sessions : Frame(p)
  BY <1>1, <1>12 DEF ChromeDoes, LinkCloses, ReopensPage, FfmpegEnds, AwaitExit, vars, Frame,
                     client, browser
<1> QED
  BY <1>2, <1>3, <1>4, <1>6, <1>7, <1>8, <1>9, <1>10, <1>11, <1>12 DEF Next, Serving

LEMMA CastStep == IInv /\ CastInv /\ [Next]_vars => CastInv'
<1> SUFFICES ASSUME IInv, CastInv, [Next]_vars PROVE ScreencastFollowsSubscribers'
  BY AskStep DEF IInv, CastInv
<1> USE NamesAssumption DEF IInv, Handlers
<1>1. ASSUME UNCHANGED <<link, member, session, wire, streaming, refused>>
      PROVE  ScreencastFollowsSubscribers'
  BY <1>1 DEF CastInv, ScreencastFollowsSubscribers, WillCast, Subscribers
<1>2. ASSUME NEW s \in Sockets, PageIsGiven(s) PROVE ScreencastFollowsSubscribers'
  <2>1. member[s] = "none" /\ page \in Sessions
    BY <1>2 DEF PageIsGiven, CastInv, AsksOnce, TypeInv, Sessions
  <2> QED BY <1>2, <2>1, SubscribingCasts DEF PageIsGiven, chrome
<1>3. CASE RecorderStarts
  <2>1. member[Recorder] = "none" /\ CasePage \in Sessions
    BY <1>3 DEF RecorderStarts, CastInv, AsksOnce, Sessions
  <2> QED BY <1>3, <2>1, SubscribingCasts DEF RecorderStarts, chrome
<1>4. ASSUME NEW s \in Sockets, Starts(s) \/ SocketCloses(s) PROVE ScreencastFollowsSubscribers'
  <2>1. UNCHANGED <<link, session, streaming, refused>>
    BY <1>4 DEF Starts, SocketCloses, chrome
  <2>2. CASE Unsubscribes(s)
    BY <2>1, <2>2, LeavingCasts
  <2>3. CASE UNCHANGED <<member, wire>>
    BY <1>1, <2>1, <2>3
  <2> QED BY <1>4, <2>2, <2>3 DEF Starts, SocketCloses
<1>5. CASE RecorderStops
  <2>1. UNCHANGED <<link, session, streaming, refused>>
    BY <1>5 DEF RecorderStops, chrome
  <2>2. CASE Unsubscribes(Recorder)
    BY <2>1, <2>2, LeavingCasts
  <2>3. CASE UNCHANGED <<member, wire>>
    BY <1>1, <2>1, <2>3
  <2> QED BY <1>5, <2>2, <2>3 DEF RecorderStops
<1>6. CASE LinkCloses
  BY <1>6 DEF LinkCloses, ScreencastFollowsSubscribers
<1>7. ASSUME NEW s \in Sockets,
             SocketOpens(s) \/ PageIsRefused(s) \/ StartFails(s) \/ Sees(s) \/ Opens(s)
      PROVE  ScreencastFollowsSubscribers'
  BY <1>1, <1>7 DEF SocketOpens, PageIsRefused, StartFails, Sees, Opens, chrome, client
<1>8. CASE \/ ReopensPage \/ Pauses \/ RecorderIsOn \/ FfmpegEnds \/ AwaitExit \/ UNCHANGED vars
           \/ \E p \in Sessions : Frame(p)
  BY <1>1, <1>8 DEF ReopensPage, Pauses, RecorderIsOn, FfmpegEnds, AwaitExit, vars, Frame, chrome,
                    client
<1> QED
  BY <1>2, <1>3, <1>4, <1>5, <1>6, <1>7, <1>8, ChromeCasts, ClosingCasts DEF Next, Serving

(* Chrome casts a page exactly as long as somebody watches it, however     *)
(* subscribers come, go and are released while commands are on their way;  *)
(* for any number of sockets, pages and faults.                            *)
THEOREM CastsWhatIsWatched == Spec => []ScreencastFollowsSubscribers
<1>1. CastInv => ScreencastFollowsSubscribers
  BY DEF CastInv
<1> QED BY <1>1, IInvInit, IInvStep, CastInit, CastStep, PTL DEF Spec

===============================================================================
