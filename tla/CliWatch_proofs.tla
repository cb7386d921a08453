---------------------------- MODULE CliWatch_proofs ----------------------------
(***************************************************************************)
(* A command that follows a run, for any timeline, any cut of its text     *)
(* into chunks, any number of comments, failures and restarts: its exit    *)
(* code is the verdict, what it prints is what was written, and weather    *)
(* does not end it.                                                        *)
(*                                                                         *)
(* The argument is about Ahead, what the command comes to once it has read *)
(* all that is on the wire: reading a chunk leaves it as it is, a message  *)
(* of the server adds its event, a cut takes from its end. That reading a  *)
(* chunk leaves it is shown by induction over the text. The induction is   *)
(* the least position for which a claim fails (Least).                     *)
(***************************************************************************)
EXTENDS CliWatch, WellFoundedInduction, TLAPS

(* The words a stream is made of.                                          *)
Word == Verdicts \cup {"nl", "event", "data", "type", ":", "step", "none", ""}

Kinds == Verdicts \cup {"step"}
Parsers == [buffer : Seq(Word), event : Word, data : Seq(Word)]
States == [parser : Parsers, shown : Seq(Kinds), finish : Verdicts \cup {"none"}]

(* What the parser and the printing keep: no newline is buffered, and the  *)
(* end that was kept has been printed.                                     *)
StateOK(s) ==
    /\ s \in States
    /\ \A i \in DOMAIN s.parser.buffer : s.parser.buffer[i] # "nl"
    /\ s.finish # "none" => \E i \in DOMAIN s.shown : s.shown[i] = s.finish

(* One printing goes on from another.                                      *)
Extends(long, short) ==
    /\ Len(short) <= Len(long)
    /\ \A i \in 1..Len(short) : long[i] = short[i]

(* Induction, as the least number for which something fails.               *)
LEMMA Least ==
    ASSUME NEW S, S \subseteq Nat, S # {}
    PROVE  \E x \in S : \A y \in S : x <= y
<1>1. PICK x \in S : \A y \in S : ~ (<<y, x>> \in OpToRel(<, Nat))
  BY WFMin, NatLessThanWellFounded
<1>2. ASSUME NEW y \in S PROVE x <= y
  <2>1. x \in Nat /\ y \in Nat
    OBVIOUS
  <2>2. ~ (y < x)
    BY <1>1, <2>1 DEF OpToRel
  <2> QED BY <2>1, <2>2
<1> QED BY <1>2

-------------------------------------------------------------------------------
(* The parser goes through a text word by word. *)

(* f goes through the states of a scan of text from s.                     *)
Scans(f, s, text) ==
    /\ f = [i \in 0..Len(text) |-> f[i]]
    /\ f[0] = s
    /\ \A i \in 1..Len(text) : f[i] = Take(f[i - 1], text[i])

(* The first n steps of f are those of such a scan.                        *)
Walks(f, text, n) == \A i \in 1..n : f[i] = Take(f[i - 1], text[i])

LEMMA ScansAreOne ==
    ASSUME NEW s, NEW text \in Seq(Word), NEW n \in Nat, n <= Len(text), NEW f, NEW g,
           f[0] = g[0], Walks(f, text, n), Walks(g, text, n)
    PROVE  f[n] = g[n]
<1> USE DEF Walks
<1> DEFINE S == {i \in 0..n : f[i] # g[i]}
<1> SUFFICES ASSUME S # {} PROVE FALSE
  BY DEF S
<1>0. S \subseteq Nat
  OBVIOUS
<1>1. PICK k \in S : \A i \in S : k <= i
  <2> HIDE DEF S
  <2> QED BY <1>0, Least
<1>2. k \in 1..n /\ k - 1 \in 0..n /\ k - 1 < k
  OBVIOUS
<1>3. f[k - 1] = g[k - 1]
  <2>1. k - 1 \notin S
    BY <1>1, <1>2
  <2> QED BY <1>2, <2>1
<1> QED BY <1>2, <1>3

LEMMA ScanExists ==
    ASSUME NEW s, NEW text \in Seq(Word)
    PROVE  \E f : f = [i \in 0..Len(text) |-> IF i = 0 THEN s ELSE Take(f[i - 1], text[i])]
<1> DEFINE Fits(f, n) == f = [i \in 0..n |-> IF i = 0 THEN s ELSE Take(f[i - 1], text[i])]
           S == {n \in 0..Len(text) : ~ \E f : Fits(f, n)}
<1>0. Len(text) \in Nat
  OBVIOUS
<1> SUFFICES ASSUME S # {} PROVE FALSE
  BY <1>0
<1>a. S \subseteq Nat
  <2> HIDE DEF Fits
  <2> QED BY <1>0
<1>1. PICK k \in S : \A i \in S : k <= i
  <2> HIDE DEF S
  <2> QED BY <1>a, Least
<1>2. CASE k = 0
  <2>1. Fits([i \in 0..0 |-> s], 0)
    OBVIOUS
  <2> QED BY <1>1, <1>2, <2>1
<1>3. CASE k # 0
  <2>1. k \in 1..Len(text) /\ k - 1 \in 0..Len(text) /\ k - 1 < k
    BY <1>3
  <2>2. PICK f : Fits(f, k - 1)
    <3>1. k - 1 \notin S
      <4> HIDE DEF S
      <4>1. k \in Nat /\ ~ (k <= k - 1)
        BY <2>1, <1>0
      <4> QED BY <1>1, <4>1
    <3> HIDE DEF Fits
    <3> QED BY <2>1, <3>1
  <2> DEFINE g == [i \in 0..k |-> IF i = k THEN Take(f[k - 1], text[k]) ELSE f[i]]
  <2>3. ASSUME NEW i \in 0..k
        PROVE  g[i] = IF i = 0 THEN s ELSE Take(g[i - 1], text[i])
    <3>1. CASE i = k
      BY <1>3, <2>1, <3>1
    <3>2. CASE i # k
      <4>1. i \in 0..(k - 1) /\ g[i] = f[i] /\ (i # 0 => g[i - 1] = f[i - 1])
        BY <2>1, <3>2
      <4> QED BY <2>2, <4>1
    <3> QED BY <3>1, <3>2
  <2>4. Fits(g, k)
    <3> HIDE DEF g
    <3>1. g = [i \in 0..k |-> g[i]]
      BY DEF g
    <3> QED BY <2>3, <3>1
  <2> QED BY <1>1, <2>4
<1> QED BY <1>2, <1>3

LEMMA ScanIs ==
    ASSUME NEW s, NEW text \in Seq(Word)
    PROVE  \E f : Scans(f, s, text) /\ Scan(s, text) = f[Len(text)]
<1> DEFINE state == CHOOSE f : f = [i \in 0..Len(text) |-> IF i = 0 THEN s ELSE Take(f[i - 1], text[i])]
<1>1. state = [i \in 0..Len(text) |-> IF i = 0 THEN s ELSE Take(state[i - 1], text[i])]
  BY ScanExists
<1>2. Scan(s, text) = state[Len(text)]
  BY DEF Scan
<1> HIDE DEF state
<1>3. Len(text) \in Nat
  OBVIOUS
<1>4. Scans(state, s, text)
  BY <1>1, <1>3 DEF Scans
<1> QED BY <1>2, <1>4

LEMMA ScanConcat ==
    ASSUME NEW s, NEW a \in Seq(Word), NEW b \in Seq(Word)
    PROVE  Scan(s, a \o b) = Scan(Scan(s, a), b)
<1> DEFINE n == Len(a)
           m == Len(b)
<1>1. /\ a \o b \in Seq(Word) /\ n \in Nat /\ m \in Nat /\ Len(a \o b) = n + m
      /\ \A i \in 1..n : (a \o b)[i] = a[i]
      /\ \A i \in 1..m : (a \o b)[n + i] = b[i]
  OBVIOUS
<1>2. PICK h : Scans(h, s, a \o b) /\ Scan(s, a \o b) = h[n + m]
  BY <1>1, ScanIs
<1>3. PICK f : Scans(f, s, a) /\ Scan(s, a) = f[n]
  BY ScanIs
<1>4. PICK g : Scans(g, Scan(s, a), b) /\ Scan(Scan(s, a), b) = g[m]
  BY ScanIs
<1>5. h[n] = f[n]
  <2>1. ASSUME NEW i \in 1..n PROVE h[i] = Take(h[i - 1], a[i])
    <3>1. i \in 1..Len(a \o b) /\ (a \o b)[i] = a[i]
      BY <1>1
    <3> QED BY <1>2, <3>1 DEF Scans
  <2>2. h[0] = f[0] /\ \A i \in 1..n : f[i] = Take(f[i - 1], a[i])
    BY <1>2, <1>3 DEF Scans
  <2>3. Walks(h, a, n) /\ Walks(f, a, n)
    BY <2>1, <2>2 DEF Walks
  <2> QED BY <1>1, <2>2, <2>3, ScansAreOne
<1> DEFINE k == [i \in 0..m |-> h[n + i]]
<1>6. k[m] = g[m]
  <2>1. ASSUME NEW i \in 1..m PROVE k[i] = Take(k[i - 1], b[i])
    <3>1. n + i \in 1..Len(a \o b) /\ (n + i) - 1 = n + (i - 1) /\ i - 1 \in 0..m
      BY <1>1
    <3>2. h[n + i] = Take(h[n + (i - 1)], (a \o b)[n + i])
      BY <1>2, <3>1 DEF Scans
    <3> QED BY <1>1, <3>1, <3>2
  <2>2. k[0] = g[0] /\ \A i \in 1..m : g[i] = Take(g[i - 1], b[i])
    <3>1. g[0] = Scan(s, a) /\ \A i \in 1..m : g[i] = Take(g[i - 1], b[i])
      BY <1>4 DEF Scans
    <3>2. k[0] = h[n]
      BY <1>1
    <3> QED BY <1>3, <1>5, <3>1, <3>2
  <2>3. m \in Nat /\ m <= Len(b) /\ k[0] = g[0]
    BY <1>1, <2>2
  <2>4. Walks(k, b, m)
    BY <2>1 DEF Walks
  <2>5. Walks(g, b, m)
    BY <2>2 DEF Walks
  <2> HIDE DEF k, m, n
  <2> QED BY <2>3, <2>4, <2>5, ScansAreOne
<1> QED BY <1>1, <1>2, <1>4, <1>6

LEMMA ScanNothing ==
    ASSUME NEW s PROVE Scan(s, <<>>) = s
<1> DEFINE e == <<>>
<1>0. e \in Seq(Word) /\ Len(e) = 0
  OBVIOUS
<1>1. PICK f : Scans(f, s, e) /\ Scan(s, e) = f[Len(e)]
  <2> HIDE DEF e
  <2> QED BY <1>0, ScanIs
<1> QED BY <1>0, <1>1 DEF Scans

(* What is buffered is scanned again with the next chunk, to no effect.    *)
LEMMA ScanBuffer ==
    ASSUME NEW s, StateOK(s)
    PROVE  Scan(Emptied(s), s.parser.buffer) = s
<1> DEFINE b == s.parser.buffer
           p == s.parser
           At(i) == [s EXCEPT !.parser = Holds(SubSeq(b, 1, i), p.event, p.data)]
           g == [i \in 0..Len(b) |-> At(i)]
<1>1. /\ b \in Seq(Word) /\ Len(b) \in Nat
      /\ s.parser = Holds(b, p.event, p.data)
      /\ s = [parser |-> s.parser, shown |-> s.shown, finish |-> s.finish]
      /\ \A i \in 1..Len(b) : b[i] # "nl"
  BY DEF StateOK, States, Parsers, Holds
<1>2. PICK f : Scans(f, Emptied(s), b) /\ Scan(Emptied(s), b) = f[Len(b)]
  BY <1>1, ScanIs
<1>3. g[0] = f[0]
  <2>1. SubSeq(b, 1, 0) = <<>> /\ 0 \in 0..Len(b)
    BY <1>1
  <2>2. g[0] = At(0)
    <3> HIDE DEF At
    <3> QED BY <2>1
  <2>3. f[0] = Emptied(s)
    BY <1>2 DEF Scans
  <2> QED BY <2>1, <2>2, <2>3 DEF Emptied
<1>4. ASSUME NEW i \in 1..Len(b) PROVE g[i] = Take(g[i - 1], b[i])
  <2>1. i - 1 \in 0..Len(b) /\ i \in 0..Len(b)
    BY <1>1
  <2>2. Append(SubSeq(b, 1, i - 1), b[i]) = SubSeq(b, 1, i)
    BY <1>1
  <2>3. At(i - 1).parser = Holds(SubSeq(b, 1, i - 1), p.event, p.data)
    BY <1>1
  <2>4. Take(At(i - 1), b[i]) = At(i)
    BY <1>1, <2>2, <2>3 DEF Take, Holds
  <2> QED BY <2>1, <2>4
<1>5. g[Len(b)] = s
  <2>1. SubSeq(b, 1, Len(b)) = b /\ Len(b) \in 0..Len(b)
    BY <1>1
  <2>2. At(Len(b)) = s
    BY <1>1, <2>1
  <2>3. g[Len(b)] = At(Len(b))
    <3> HIDE DEF At
    <3> QED BY <2>1
  <2> QED BY <2>2, <2>3
<1>6. g[Len(b)] = f[Len(b)]
  <2>1. \A i \in 1..Len(b) : f[i] = Take(f[i - 1], b[i])
    BY <1>2 DEF Scans
  <2> HIDE DEF g, b
  <2>2. Walks(f, b, Len(b)) /\ Walks(g, b, Len(b))
    BY <1>4, <2>1 DEF Walks
  <2> QED BY <1>1, <1>3, <2>2, ScansAreOne
<1> QED BY <1>2, <1>5, <1>6

LEMMA PushIsScan ==
    ASSUME NEW s, StateOK(s), NEW chunk \in Seq(Word)
    PROVE  Push(s, chunk) = Scan(s, chunk)
<1>1. s.parser.buffer \in Seq(Word)
  BY DEF StateOK, States, Parsers
<1> QED BY <1>1, ScanConcat, ScanBuffer DEF Push

-------------------------------------------------------------------------------
(* What it holds, and what it prints. *)

LEMMA HearOK ==
    ASSUME NEW s, StateOK(s), NEW data \in Seq(Word)
    PROVE  StateOK(Hear(s, data)) /\ Extends(Hear(s, data).shown, s.shown)
<1>1. s.shown \in Seq(Kinds) /\ s.parser \in Parsers /\ s.finish \in Verdicts \cup {"none"}
  BY DEF StateOK, States
<1>2. CASE \E e \in Verdicts \cup {"step"} : data = <<e>>
  <2> DEFINE e == data[1]
             t == Hear(s, data)
             end == IF e \in Verdicts THEN e ELSE s.finish
  <2>1. e \in Kinds
    BY <1>2 DEF Kinds
  <2>2. t = [parser |-> s.parser, shown |-> Append(s.shown, e), finish |-> end]
    BY <1>2 DEF Hear, StateOK, States
  <2>3. /\ t.parser = s.parser /\ t.shown = Append(s.shown, e) /\ t.finish = end
    BY <2>2
  <2>4. /\ Append(s.shown, e) \in Seq(Kinds)
        /\ Len(Append(s.shown, e)) = Len(s.shown) + 1
        /\ \A i \in 1..Len(s.shown) : Append(s.shown, e)[i] = s.shown[i]
        /\ Append(s.shown, e)[Len(s.shown) + 1] = e
        /\ Len(s.shown) \in Nat
        /\ DOMAIN Append(s.shown, e) = 1..(Len(s.shown) + 1)
        /\ DOMAIN s.shown = 1..Len(s.shown)
    BY <1>1, <2>1
  <2>5. t \in States
    BY <1>1, <2>2, <2>4 DEF States
  <2>6. Extends(t.shown, s.shown)
    <3> HIDE DEF e, t
    <3> QED BY <2>3, <2>4 DEF Extends
  <2>7. t.finish # "none" => \E i \in DOMAIN t.shown : t.shown[i] = t.finish
    <3>1. CASE e \in Verdicts
      <4> HIDE DEF e, t
      <4>1. Len(s.shown) + 1 \in DOMAIN t.shown /\ t.finish = e
        BY <2>3, <2>4, <3>1
      <4> QED BY <2>3, <2>4, <4>1
    <3>2. CASE e \notin Verdicts /\ s.finish # "none"
      <4> HIDE DEF e, t
      <4>1. PICK i \in 1..Len(s.shown) : s.shown[i] = s.finish
        BY <2>4, <3>2 DEF StateOK
      <4>2. t.finish = s.finish /\ i \in DOMAIN t.shown /\ t.shown[i] = s.shown[i]
        BY <2>3, <2>4, <3>2, <4>1
      <4> QED BY <4>1, <4>2
    <3>3. CASE e \notin Verdicts /\ s.finish = "none"
      <4> HIDE DEF e, t
      <4> QED BY <2>3, <3>3
    <3> QED BY <3>1, <3>2, <3>3
  <2>8. \A i \in DOMAIN t.parser.buffer : t.parser.buffer[i] # "nl"
    BY <2>3 DEF StateOK
  <2> HIDE DEF t
  <2>9. StateOK(t)
    BY <2>5, <2>7, <2>8 DEF StateOK
  <2> QED BY <2>6, <2>9 DEF t
<1>3. CASE ~ \E e \in Verdicts \cup {"step"} : data = <<e>>
  <2>1. Hear(s, data) = s
    BY <1>3 DEF Hear
  <2>2. Extends(s.shown, s.shown)
    BY <1>1 DEF Extends
  <2> QED BY <2>1, <2>2
<1> QED BY <1>2, <1>3

(* Only the parser of s is replaced.                                       *)
LEMMA ParserOK ==
    ASSUME NEW s, StateOK(s), NEW p \in Parsers, \A i \in DOMAIN p.buffer : p.buffer[i] # "nl"
    PROVE  /\ StateOK([s EXCEPT !.parser = p])
           /\ Extends([s EXCEPT !.parser = p].shown, s.shown)
<1> DEFINE t == [s EXCEPT !.parser = p]
<1>1. /\ t \in States /\ t.parser = p /\ t.shown = s.shown /\ t.finish = s.finish
      /\ s.shown \in Seq(Kinds)
  BY DEF StateOK, States
<1> HIDE DEF t
<1>2. StateOK(t)
  BY <1>1 DEF StateOK
<1>3. Extends(t.shown, s.shown)
  BY <1>1 DEF Extends
<1> QED BY <1>2, <1>3 DEF t

LEMMA HoldsOK ==
    ASSUME NEW event \in Word, NEW data \in Seq(Word)
    PROVE  /\ Holds(<<>>, event, data) \in Parsers
           /\ \A i \in DOMAIN Holds(<<>>, event, data).buffer :
                 Holds(<<>>, event, data).buffer[i] # "nl"
BY DEF Holds, Parsers

LEMMA TakeOK ==
    ASSUME NEW s, StateOK(s), NEW token \in Word
    PROVE  StateOK(Take(s, token)) /\ Extends(Take(s, token).shown, s.shown)
<1> DEFINE p == s.parser
           line == p.buffer
           value == IF Len(line) > 1 THEN line[2] ELSE ""
<1>1. p.buffer \in Seq(Word) /\ p.event \in Word /\ p.data \in Seq(Word)
  BY DEF StateOK, States, Parsers
<1>2. value \in Word
  <2>0. "" \in Word
    BY DEF Word
  <2>1. CASE Len(line) > 1
    <3>1. 2 \in 1..Len(line)
      BY <1>1, <2>1
    <3>2. line[2] \in Word
      BY <1>1, <3>1
    <3> QED BY <2>1, <3>2
  <2>2. CASE ~(Len(line) > 1)
    BY <2>0, <2>2
  <2> HIDE DEF value
  <2> QED BY <2>1, <2>2
<1>3. CASE token # "nl"
  <2> DEFINE q == Holds(Append(p.buffer, token), p.event, p.data)
  <2>1. Append(p.buffer, token) \in Seq(Word)
    BY <1>1
  <2>2. \A i \in DOMAIN Append(p.buffer, token) : Append(p.buffer, token)[i] # "nl"
    BY <1>1, <1>3 DEF StateOK
  <2>3. q \in Parsers /\ \A i \in DOMAIN q.buffer : q.buffer[i] # "nl"
    BY <1>1, <2>1, <2>2 DEF Holds, Parsers
  <2>4. Take(s, token) = [s EXCEPT !.parser = q]
    BY <1>3 DEF Take
  <2> HIDE DEF q
  <2> QED BY <2>3, <2>4, ParserOK
<1>4. CASE token = "nl"
  <2>0. Take(s, token) = ReadLine(s, line)
    BY <1>4 DEF Take
  <2>1. Fresh \in Parsers /\ \A i \in DOMAIN Fresh.buffer : Fresh.buffer[i] # "nl"
    <3>1. "none" \in Word
      BY DEF Word
    <3> QED BY <3>1 DEF Fresh, Parsers
  <2>2. CASE line = <<>> /\ p.data = <<>>
    <3>1. Take(s, token) = [s EXCEPT !.parser = Fresh]
      BY <2>0, <2>2 DEF ReadLine
    <3> QED BY <2>1, <3>1, ParserOK
  <2>3. CASE line = <<>> /\ p.data # <<>>
    <3> DEFINE t == [s EXCEPT !.parser = Fresh]
    <3>1. StateOK(t) /\ t.shown = s.shown
      BY <2>1, ParserOK DEF StateOK, States
    <3>2. Take(s, token) = Hear(t, p.data)
      BY <2>0, <2>3 DEF ReadLine
    <3> HIDE DEF t
    <3> QED BY <1>1, <3>1, <3>2, HearOK
  <2>4. CASE line # <<>> /\ line[1] = "event"
    <3> DEFINE q == Holds(<<>>, value, p.data)
    <3>1. Take(s, token) = [s EXCEPT !.parser = q]
      BY <2>0, <2>4 DEF ReadLine
    <3>2. q \in Parsers /\ \A i \in DOMAIN q.buffer : q.buffer[i] # "nl"
      <4> HIDE DEF value
      <4> QED BY <1>1, <1>2, HoldsOK
    <3> HIDE DEF q
    <3> QED BY <3>1, <3>2, ParserOK
  <2>5. CASE line # <<>> /\ line[1] = "data"
    <3> DEFINE q == Holds(<<>>, p.event, Append(p.data, value))
    <3>1. Take(s, token) = [s EXCEPT !.parser = q]
      BY <2>0, <2>5 DEF ReadLine
    <3>2. Append(p.data, value) \in Seq(Word)
      <4> HIDE DEF value
      <4> QED BY <1>1, <1>2
    <3>3. q \in Parsers /\ \A i \in DOMAIN q.buffer : q.buffer[i] # "nl"
      <4> HIDE DEF value
      <4> QED BY <1>1, <3>2, HoldsOK
    <3> HIDE DEF q
    <3> QED BY <3>1, <3>3, ParserOK
  <2>6. CASE line # <<>> /\ line[1] # "event" /\ line[1] # "data"
    <3>1. Take(s, token) = [s EXCEPT !.parser = Holds(<<>>, p.event, p.data)]
      BY <2>0, <2>6 DEF ReadLine
    <3> QED BY <1>1, <3>1, HoldsOK, ParserOK
  <2> QED BY <2>2, <2>3, <2>4, <2>5, <2>6
<1> QED BY <1>3, <1>4

LEMMA ExtendsTrans ==
    ASSUME NEW a \in Seq(Kinds), NEW b \in Seq(Kinds), NEW c \in Seq(Kinds),
           Extends(a, b), Extends(b, c)
    PROVE  Extends(a, c)
BY DEF Extends

(* So does a text.                                                         *)
LEMMA ScanOK ==
    ASSUME NEW s, StateOK(s), NEW text \in Seq(Word)
    PROVE  StateOK(Scan(s, text)) /\ Extends(Scan(s, text).shown, s.shown)
<1> DEFINE n == Len(text)
<1>1. PICK f : Scans(f, s, text) /\ Scan(s, text) = f[n]
  BY ScanIs
<1> DEFINE Good(i) == StateOK(f[i]) /\ Extends(f[i].shown, s.shown)
           S == {i \in 0..n : ~Good(i)}
<1>2. n \in Nat
  OBVIOUS
<1> SUFFICES ASSUME S # {} PROVE FALSE
  BY <1>1, <1>2
<1>3. PICK k \in S : \A i \in S : k <= i
  <2>1. S \subseteq Nat
    OBVIOUS
  <2> HIDE DEF S
  <2> QED BY <2>1, Least
<1>4. CASE k = 0
  <2>1. f[0] = s
    BY <1>1 DEF Scans
  <2>2. Extends(s.shown, s.shown)
    BY DEF Extends, StateOK, States
  <2> QED BY <1>3, <1>4, <2>1, <2>2
<1>5. CASE k # 0
  <2>1. k \in 1..n /\ k - 1 \in 0..n /\ ~(k <= k - 1)
    BY <1>2, <1>5
  <2>2. Good(k - 1)
    <3>1. k - 1 \notin S
      <4> HIDE DEF S
      <4> QED BY <1>3, <2>1
    <3> HIDE DEF Good
    <3> QED BY <2>1, <3>1
  <2>3. f[k] = Take(f[k - 1], text[k]) /\ text[k] \in Word
    BY <1>1, <2>1 DEF Scans
  <2>4. StateOK(f[k]) /\ Extends(f[k].shown, f[k - 1].shown)
    BY <2>2, <2>3, TakeOK
  <2>5. Extends(f[k].shown, s.shown)
    <3>1. s.shown \in Seq(Kinds) /\ f[k].shown \in Seq(Kinds) /\ f[k - 1].shown \in Seq(Kinds)
      BY <2>2, <2>4 DEF StateOK, States
    <3> QED BY <2>2, <2>4, <3>1, ExtendsTrans, Zenon
  <2> QED BY <1>3, <2>4, <2>5
<1> QED BY <1>4, <1>5

(* However the text is cut into chunks, the parser comes to the same.      *)
THEOREM ChunksDoNotMatter ==
    ASSUME NEW s, StateOK(s), NEW a \in Seq(Word), NEW b \in Seq(Word)
    PROVE  Push(s, a \o b) = Push(Push(s, a), b)
<1>1. a \o b \in Seq(Word)
  OBVIOUS
<1>2. StateOK(Scan(s, a))
  BY ScanOK
<1>3. Push(s, a \o b) = Scan(s, a \o b) /\ Push(s, a) = Scan(s, a)
  BY <1>1, PushIsScan
<1>4. Push(Scan(s, a), b) = Scan(Scan(s, a), b)
  BY <1>2, PushIsScan
<1> QED BY <1>3, <1>4, ScanConcat

-------------------------------------------------------------------------------
(* One message of the server. *)

Put(s, buffer, event, data) == [s EXCEPT !.parser = Holds(buffer, event, data)]

Plain == Word \ {"nl"}

LEMMA TakeFirst ==
    ASSUME NEW s \in States, NEW ev, NEW d, NEW x \in Plain
    PROVE  Take(Put(s, <<>>, ev, d), x) = Put(s, <<x>>, ev, d)
<1>2. Append(<<>>, x) = <<x>>
  OBVIOUS
<1>3. x # "nl"
  BY DEF Plain
<1> QED BY <1>2, <1>3 DEF Take, Put, Holds, States

LEMMA AppendIs ==
    ASSUME NEW a \in Seq(Plain), NEW y \in Plain
    PROVE  /\ Append(a, y) \in Seq(Plain) /\ Len(Append(a, y)) = Len(a) + 1
           /\ Append(a, y)[Len(a) + 1] = y
           /\ \A i \in 1..Len(a) : Append(a, y)[i] = a[i]
OBVIOUS

LEMMA SameWords ==
    ASSUME NEW a \in Seq(Plain), NEW b \in Seq(Plain), Len(a) = Len(b),
           \A i \in 1..Len(a) : a[i] = b[i]
    PROVE  a = b
OBVIOUS

LEMMA AppendSecond ==
    ASSUME NEW x \in Plain, NEW y \in Plain, NEW a \in Seq(Plain), NEW b \in Seq(Plain),
           Len(a) = 1, a[1] = x, Len(b) = 2, b[1] = x, b[2] = y
    PROVE  Append(a, y) = b
<1> DEFINE c == Append(a, y)
<1>1. /\ c \in Seq(Plain) /\ Len(c) = Len(a) + 1 /\ c[Len(a) + 1] = y
      /\ \A i \in 1..Len(a) : c[i] = a[i]
  BY AppendIs, Zenon
<1> HIDE DEF c
<1>2. Len(c) = 2 /\ c[1] = x /\ c[2] = y
  BY <1>1
<1>3. \A i \in 1..2 : c[i] = b[i]
  BY <1>2
<1>4. c = b
  BY <1>1, <1>2, <1>3, SameWords
<1> QED BY <1>4 DEF c

LEMMA TakeSecond ==
    ASSUME NEW s \in States, NEW ev, NEW d, NEW x \in Plain, NEW y \in Plain
    PROVE  Take(Put(s, <<x>>, ev, d), y) = Put(s, <<x, y>>, ev, d)
<1>2. Append(<<x>>, y) = <<x, y>>
  <2>1. <<x, y>> \in Seq(Plain) /\ Len(<<x, y>>) = 2 /\ <<x, y>>[1] = x /\ <<x, y>>[2] = y
    OBVIOUS
  <2>2. <<x>> \in Seq(Plain) /\ Len(<<x>>) = 1 /\ <<x>>[1] = x
    OBVIOUS
  <2> QED BY <2>1, <2>2, AppendSecond, Zenon
<1>3. y # "nl"
  BY DEF Plain
<1> QED BY <1>2, <1>3 DEF Take, Put, Holds, States

LEMMA TakeEvent ==
    ASSUME NEW s \in States, NEW ev, NEW d, NEW v
    PROVE  Take(Put(s, <<"event", v>>, ev, d), "nl") = Put(s, <<>>, v, d)
<1> DEFINE b == <<"event", v>>
<1>1. Len(b) = 2 /\ b # <<>> /\ b[1] = "event" /\ b[2] = v
  OBVIOUS
<1> HIDE DEF b
<1>2. Take(Put(s, b, ev, d), "nl") = ReadLine(Put(s, b, ev, d), b)
  BY DEF Take, Put, Holds, States
<1>3. (IF Len(b) > 1 THEN b[2] ELSE "") = v
  BY <1>1
<1>4. ReadLine(Put(s, b, ev, d), b)
        = Put(s, <<>>, IF Len(b) > 1 THEN b[2] ELSE "", d)
  BY <1>1 DEF ReadLine, Put, Holds, States
<1> QED BY <1>2, <1>3, <1>4 DEF b

LEMMA TakeData ==
    ASSUME NEW s \in States, NEW ev, NEW b,
           b # <<>>, b[1] = "data"
    PROVE  Take(Put(s, b, ev, <<>>), "nl") = Put(s, <<>>, ev, <<IF Len(b) > 1 THEN b[2] ELSE "">>)
<1> DEFINE v == IF Len(b) > 1 THEN b[2] ELSE ""
<1>1. Append(<<>>, v) = <<v>>
  OBVIOUS
<1>2. Take(Put(s, b, ev, <<>>), "nl") = ReadLine(Put(s, b, ev, <<>>), b)
  BY DEF Take, Put, Holds, States
<1>3. ReadLine(Put(s, b, ev, <<>>), b) = Put(s, <<>>, ev, Append(<<>>, v))
  BY DEF ReadLine, Put, Holds, States
<1> QED BY <1>1, <1>2, <1>3

LEMMA TakeBlank ==
    ASSUME NEW s \in States, NEW ev, NEW v
    PROVE  Take(Put(s, <<>>, ev, <<v>>), "nl") = Hear([s EXCEPT !.parser = Fresh], <<v>>)
<1> DEFINE d == <<v>>
<1>1. d # <<>>
  OBVIOUS
<1> HIDE DEF d
<1>2. Take(Put(s, <<>>, ev, d), "nl") = ReadLine(Put(s, <<>>, ev, d), <<>>)
  BY DEF Take, Put, Holds, States
<1>3. ReadLine(Put(s, <<>>, ev, d), <<>>) = Hear([s EXCEPT !.parser = Fresh], d)
  BY <1>1 DEF ReadLine, Put, Holds, States
<1> QED BY <1>2, <1>3 DEF d

LEMMA TakeComment ==
    ASSUME NEW s \in States
    PROVE  Take(Put(s, <<":">>, "none", <<>>), "nl") = Put(s, <<>>, "none", <<>>)
<1> DEFINE b == <<":">>
<1>1. b # <<>> /\ b[1] # "event" /\ b[1] # "data"
  OBVIOUS
<1> HIDE DEF b
<1>2. Take(Put(s, b, "none", <<>>), "nl") = ReadLine(Put(s, b, "none", <<>>), b)
  BY DEF Take, Put, Holds, States
<1>3. ReadLine(Put(s, b, "none", <<>>), b) = Put(s, <<>>, "none", <<>>)
  BY <1>1 DEF ReadLine, Put, Holds, States
<1> QED BY <1>2, <1>3 DEF b

LEMMA TakeNothing ==
    ASSUME NEW s \in States
    PROVE  Take(Put(s, <<>>, "none", <<>>), "nl") = [s EXCEPT !.parser = Fresh]
<1>1. Take(Put(s, <<>>, "none", <<>>), "nl") = ReadLine(Put(s, <<>>, "none", <<>>), <<>>)
  BY DEF Take, Put, Holds, States
<1>2. ReadLine(Put(s, <<>>, "none", <<>>), <<>>) = [s EXCEPT !.parser = Fresh]
  BY DEF ReadLine, Put, Holds, States
<1> QED BY <1>1, <1>2

(* What one event makes of a parser that waits for a message.              *)
LEMMA ScanText ==
    ASSUME NEW s \in States, s.parser = Fresh, NEW e \in Kinds \cup {"comment"}
    PROVE  /\ Text(e) \in Seq(Word)
           /\ Scan(s, Text(e)).parser = Fresh
           /\ Scan(s, Text(e)).shown = IF e = "comment" THEN s.shown ELSE Append(s.shown, e)
<1>0. /\ "event" \in Word /\ ":" \in Word /\ "nl" \in Word /\ "data" \in Word
      /\ "type" \in Word /\ (e # "comment" => e \in Word)
  BY DEF Word, Kinds
<1>2. /\ "event" \in Plain /\ ":" \in Plain /\ "data" \in Plain /\ "type" \in Plain
      /\ (e # "comment" => e \in Plain)
  BY DEF Word, Plain, Kinds, Verdicts
<1>1. s = Put(s, <<>>, "none", <<>>) /\ [s EXCEPT !.parser = Fresh] = s
  BY DEF Put, Holds, Fresh, States
<1>3. CASE e = "comment"
  <2> DEFINE t == Text(e)
  <2>1. t = <<":", "nl", "nl">>
    BY <1>3 DEF Text
  <2>2. t \in Seq(Word) /\ Len(t) = 3
    BY <1>0, <2>1
  <2>3. PICK f : Scans(f, s, t) /\ Scan(s, t) = f[3]
    <3> HIDE DEF t
    <3> QED BY <2>2, ScanIs
  <2>4. t[1] = ":" /\ t[2] = "nl" /\ t[3] = "nl"
    BY <2>1
  <2>5. f[0] = s /\ f[1] = Take(f[0], t[1]) /\ f[2] = Take(f[1], t[2]) /\ f[3] = Take(f[2], t[3])
    <3> HIDE DEF t
    <3> QED BY <2>2, <2>3 DEF Scans
  <2> HIDE DEF t
  <2>6. f[1] = Put(s, <<":">>, "none", <<>>)
    <3>1. Take(Put(s, <<>>, "none", <<>>), ":") = Put(s, <<":">>, "none", <<>>)
      BY <1>2, TakeFirst, Zenon
    <3> QED BY <1>1, <2>4, <2>5, <3>1
  <2>7. f[2] = s
    <3>1. Take(Put(s, <<":">>, "none", <<>>), "nl") = Put(s, <<>>, "none", <<>>)
      BY TakeComment
    <3> QED BY <1>1, <2>4, <2>5, <2>6, <3>1
  <2>8. f[3] = s
    <3>1. Take(Put(s, <<>>, "none", <<>>), "nl") = [s EXCEPT !.parser = Fresh]
      BY TakeNothing
    <3> QED BY <1>1, <2>4, <2>5, <2>7, <3>1
  <2> QED BY <1>3, <2>2, <2>3, <2>8 DEF t
<1>4. CASE e # "comment"
  <2> DEFINE t == Text(e)
  <2>1. t = <<"event", "type", "nl", "data", e, "nl", "nl">>
    BY <1>4 DEF Text
  <2>2. t \in Seq(Word) /\ Len(t) = 7
    BY <1>0, <1>4, <2>1
  <2>3. PICK f : Scans(f, s, t) /\ Scan(s, t) = f[7]
    <3> HIDE DEF t
    <3> QED BY <2>2, ScanIs
  <2>4. /\ t[1] = "event" /\ t[2] = "type" /\ t[3] = "nl" /\ t[4] = "data" /\ t[5] = e
        /\ t[6] = "nl" /\ t[7] = "nl"
    BY <2>1
  <2>5. /\ f[0] = s /\ f[1] = Take(f[0], t[1]) /\ f[2] = Take(f[1], t[2])
        /\ f[3] = Take(f[2], t[3]) /\ f[4] = Take(f[3], t[4]) /\ f[5] = Take(f[4], t[5])
        /\ f[6] = Take(f[5], t[6]) /\ f[7] = Take(f[6], t[7])
    <3> HIDE DEF t
    <3> QED BY <2>2, <2>3 DEF Scans
  <2> HIDE DEF t
  <2>6. f[1] = Put(s, <<"event">>, "none", <<>>)
    <3>1. Take(Put(s, <<>>, "none", <<>>), "event") = Put(s, <<"event">>, "none", <<>>)
      BY <1>2, TakeFirst, Zenon
    <3> QED BY <1>1, <2>4, <2>5, <3>1
  <2>7. f[2] = Put(s, <<"event", "type">>, "none", <<>>)
    <3>1. Take(Put(s, <<"event">>, "none", <<>>), "type") = Put(s, <<"event", "type">>, "none", <<>>)
      BY <1>2, TakeSecond
    <3> QED BY <2>6, <2>4, <2>5, <3>1
  <2>8. f[3] = Put(s, <<>>, "type", <<>>)
    BY <2>4, <2>5, <2>7, TakeEvent
  <2>9. f[4] = Put(s, <<"data">>, "type", <<>>)
    <3>1. Take(Put(s, <<>>, "type", <<>>), "data") = Put(s, <<"data">>, "type", <<>>)
      BY <1>2, TakeFirst, Zenon
    <3> QED BY <2>8, <2>4, <2>5, <3>1
  <2>10. f[5] = Put(s, <<"data", e>>, "type", <<>>)
    <3>1. Take(Put(s, <<"data">>, "type", <<>>), e) = Put(s, <<"data", e>>, "type", <<>>)
      BY <1>2, <1>4, TakeSecond
    <3> QED BY <2>9, <2>4, <2>5, <3>1
  <2>11. f[6] = Put(s, <<>>, "type", <<e>>)
    <3> DEFINE b == <<"data", e>>
    <3>1. b # <<>> /\ b[1] = "data" /\ (IF Len(b) > 1 THEN b[2] ELSE "") = e
      OBVIOUS
    <3> HIDE DEF b
    <3>2. Take(Put(s, b, "type", <<>>), "nl") = Put(s, <<>>, "type", <<e>>)
      BY <3>1, TakeData, Zenon
    <3> QED BY <2>4, <2>5, <2>10, <3>2 DEF b
  <2>12. f[7] = Hear(s, <<e>>)
    BY <1>1, <2>4, <2>5, <2>11, TakeBlank
  <2>13. f[7].parser = Fresh /\ f[7].shown = Append(s.shown, e)
    <3>1. \E x \in Verdicts \cup {"step"} : <<e>> = <<x>>
      BY <1>4 DEF Kinds
    <3>2. f[7] = [s EXCEPT !.shown = Append(@, e), !.finish = IF e \in Verdicts THEN e ELSE @]
      BY <2>12, <3>1 DEF Hear
    <3> QED BY <3>2 DEF States
  <2> QED BY <1>4, <2>2, <2>3, <2>13 DEF t
<1> QED BY <1>3, <1>4

-------------------------------------------------------------------------------
(* The command. *)

(* What the command is in, and what it comes to once it has read all that  *)
(* is on its way.                                                          *)
Now == [parser |-> parser, shown |-> shown, finish |-> finish]
Ahead == Scan(Now, wire)

TypeOK ==
    /\ StateOK(Now)
    /\ wire \in Seq(Word)
    /\ log \in Seq(Kinds) /\ backlog \in Seq(Kinds) /\ sent \in Seq(Kinds)
    /\ run \in Verdicts \cup {"absent", "queued", "running"}

(* A run ends once, with the last event of its timeline.                   *)
RunOK ==
    /\ \A i \in 1..Len(log) : log[i] \in Verdicts => i = Len(log) /\ log[i] = run
    /\ run = "absent" => log = <<>>
    /\ untold => log # <<>>
    /\ pc = "start" /\ command \in {"start", "startWatch"} => run = "absent"

(* The handler tells the end of the run once and last, whether it has read *)
(* it, heard of it or caught up with it.                                   *)
SentOK ==
    /\ \A i \in 1..Len(sent) :
          sent[i] \in Verdicts => i = Len(sent) /\ sent[i] = run /\ backlog = <<>>
    /\ \A i \in 1..Len(backlog) :
          backlog[i] \in Verdicts => i = Len(backlog) /\ backlog[i] = run

(* What is printed, and what will be once the wire is read, is a beginning *)
(* of what the handler wrote.                                              *)
StreamOK ==
    /\ pc \in {"start", "looking", "opening"} =>
          Now = [parser |-> Fresh, shown |-> <<>>, finish |-> "none"]
          /\ wire = <<>> /\ sent = <<>> /\ stream = "none"
    /\ handler # "none" => stream = "open"
    /\ stream = "open" => pc = "streaming" /\ Ahead.parser = Fresh /\ Ahead.shown = sent
    /\ pc = "streaming" => stream # "none" /\ Extends(sent, Ahead.shown)
    /\ stream = "closed" /\ finish # "none" => pc # "polling" /\ Extends(sent, shown)

(* The exit code is the verdict of the run, which is not taken back.       *)
ExitOK ==
    /\ why = "verdict" => run \in Verdicts /\ code = exitCodeForStatus(run)
    /\ why = "shown" => (code = 0 => run = "passed") /\ (code = 1 => run = "failed")

CliInv == TypeOK /\ RunOK /\ SentOK /\ StreamOK /\ ExitOK

LEMMA NowIs ==
    /\ Now.parser = parser /\ Now.shown = shown /\ Now.finish = finish
BY DEF Now

LEMMA AheadIs ==
    ASSUME TypeOK
    PROVE  StateOK(Ahead) /\ Extends(Ahead.shown, shown)
BY ScanOK, NowIs DEF TypeOK, Ahead

LEMMA ShownTypes ==
    ASSUME TypeOK
    PROVE  shown \in Seq(Kinds) /\ Ahead.shown \in Seq(Kinds) /\ finish \in Verdicts \cup {"none"}
           /\ parser \in Parsers
BY AheadIs, NowIs DEF TypeOK, StateOK, States

(* The end that was read is the end of the run, and comes last.            *)
LEMMA FinishIsLast ==
    ASSUME TypeOK, SentOK, Extends(sent, shown), finish # "none"
    PROVE  finish = run /\ finish \in Verdicts /\ Len(shown) = Len(sent)
<1>1. finish \in Verdicts /\ shown \in Seq(Kinds)
  BY ShownTypes
<1>2. PICK i \in DOMAIN shown : shown[i] = finish
  BY NowIs DEF TypeOK, StateOK
<1>3. i \in 1..Len(shown) /\ Len(shown) \in Nat /\ Len(sent) \in Nat
  BY <1>1, <1>2 DEF TypeOK
<1>4. sent[i] = finish /\ i \in 1..Len(sent) /\ Len(shown) <= Len(sent)
  BY <1>2, <1>3 DEF Extends
<1>5. i = Len(sent) /\ finish = run
  BY <1>1, <1>4 DEF SentOK
<1> QED BY <1>1, <1>3, <1>4, <1>5

LEMMA SameSequence ==
    ASSUME NEW a \in Seq(Kinds), NEW b \in Seq(Kinds), Extends(a, b), Len(a) = Len(b)
    PROVE  b = a
BY DEF Extends

LEMMA PrefixIs ==
    ASSUME NEW a \in Seq(Kinds), NEW b \in Seq(Kinds), Extends(a, b)
    PROVE  IsPrefix(b, a)
<1> DEFINE c == SubSeq(b, 1, Len(b))
           d == SubSeq(a, 1, Len(b))
<1>1. Len(b) \in Nat /\ Len(a) \in Nat /\ Len(b) <= Len(a)
  BY DEF Extends
<1>2. c \in Seq(Kinds) /\ Len(c) = Len(b) /\ \A i \in 1..Len(b) : c[i] = b[i]
  BY <1>1
<1>3. d \in Seq(Kinds) /\ Len(d) = Len(b) /\ \A i \in 1..Len(b) : d[i] = a[i]
  BY <1>1
<1>4. c = d
  <2> HIDE DEF c, d
  <2> QED BY <1>1, <1>2, <1>3 DEF Extends
<1> QED BY <1>1, <1>4 DEF IsPrefix

LEMMA InvInit == Init => CliInv
<1> SUFFICES ASSUME Init PROVE CliInv
  OBVIOUS
<1>0. "none" \in Word
  BY DEF Word
<1>1. Fresh \in Parsers /\ Fresh.buffer = <<>>
  BY <1>0 DEF Fresh, Parsers
<1>2. Now = [parser |-> Fresh, shown |-> <<>>, finish |-> "none"]
  BY DEF Init, Now
<1>3. StateOK(Now)
  BY <1>1, <1>2 DEF StateOK, States
<1>4. TypeOK
  BY <1>3 DEF Init, TypeOK
<1>5. RunOK
  BY DEF Init, RunOK
<1>6. StreamOK
  BY <1>2 DEF Init, StreamOK
<1>7. ExitOK
  BY DEF Init, ExitOK
<1>8. SentOK
  BY DEF Init, SentOK
<1> QED BY <1>4, <1>5, <1>6, <1>7, <1>8 DEF CliInv

LEMMA InvTimeline == CliInv => TimelineIsPrinted
<1> SUFFICES ASSUME CliInv, pc = "streaming" \/ (stream = "closed" /\ finish # "none")
             PROVE  IsPrefix(shown, sent) /\ (finish # "none" => shown = sent)
  BY DEF TimelineIsPrinted
<1>1. shown \in Seq(Kinds) /\ Ahead.shown \in Seq(Kinds) /\ sent \in Seq(Kinds)
  BY ShownTypes DEF CliInv, TypeOK
<1>2. Extends(sent, shown)
  <2>1. CASE pc = "streaming"
    <3>1. Extends(sent, Ahead.shown) /\ Extends(Ahead.shown, shown)
      BY <2>1, AheadIs DEF CliInv, StreamOK
    <3> QED BY <1>1, <3>1, ExtendsTrans
  <2>2. CASE stream = "closed" /\ finish # "none"
    BY <2>2 DEF CliInv, StreamOK
  <2> QED BY <2>1, <2>2
<1>3. ASSUME finish # "none" PROVE shown = sent
  BY <1>1, <1>2, <1>3, FinishIsLast, SameSequence DEF CliInv
<1> QED BY <1>1, <1>2, <1>3, PrefixIs

LEMMA InvExit == CliInv => ExitIsTheVerdict
BY DEF CliInv, ExitOK, ExitIsTheVerdict, exitCodeForStatus, Verdicts

-------------------------------------------------------------------------------
(* The command's steps. *)

Runs == Verdicts \cup {"absent", "queued", "running"}

LEMMA Unread ==
    ASSUME CliInv, UNCHANGED <<parser, finish, shown, wire>>
    PROVE  Now' = Now /\ Ahead' = Ahead
BY DEF Now, Ahead

(* Steps of the command that read nothing, and of the run it asks for.     *)
LEMMA UsageErrorInv == ASSUME CliInv, UsageError PROVE CliInv'
<1>1. Now' = Now /\ Ahead' = Ahead
  BY Unread DEF UsageError, response
<1> QED BY <1>1 DEF CliInv, TypeOK, RunOK, SentOK, StreamOK, ExitOK, UsageError, Raises, Ends,
                    response, env, document

LEMMA StartRunInv == ASSUME CliInv, StartRun PROVE CliInv'
<1>1. Now' = Now /\ Ahead' = Ahead
  BY Unread DEF StartRun, response
<1>2. run = "absent" /\ log = <<>>
  BY DEF StartRun, CliInv, RunOK
<1>3. /\ run' \in {"absent", "queued"}
      /\ UNCHANGED <<command, log, untold, sent, backlog, handler, wire, stream, finish, shown>>
  BY <1>2 DEF StartRun, response
<1>4. /\ why' \in {"started", "request"} \/ why' = why
      /\ pc' \in {"looking", "done"}
  BY DEF StartRun, Raises, Ends, GoesTo
<1>5. TypeOK'
  BY <1>1, <1>3 DEF CliInv, TypeOK
<1>6. RunOK'
  BY <1>2, <1>3, <1>4 DEF CliInv, RunOK
<1>7. StreamOK'
  BY <1>1, <1>3, <1>4 DEF CliInv, StreamOK, StartRun
<1>8. ExitOK'
  <2>1. why # "verdict"
    BY <1>2 DEF CliInv, ExitOK, Verdicts
  <2>2. why' = "shown" => code' = code /\ why = why'
    BY DEF StartRun, Raises, Ends, GoesTo
  <2>3. why' # "verdict"
    BY <1>4, <2>1
  <2>4. why' = "shown" => code' # 0 /\ code' # 1
    BY <1>2, <2>2 DEF CliInv, ExitOK
  <2> QED BY <2>3, <2>4 DEF ExitOK
<1>9. SentOK'
  BY <1>2, <1>3 DEF CliInv, SentOK, Verdicts
<1> QED BY <1>5, <1>6, <1>7, <1>8, <1>9 DEF CliInv

LEMMA LooksInv == ASSUME CliInv, Looks PROVE CliInv'
<1>1. Now' = Now /\ Ahead' = Ahead
  BY Unread DEF Looks, response
<1> QED BY <1>1 DEF CliInv, TypeOK, RunOK, SentOK, StreamOK, ExitOK, Looks, GoesTo, response,
                    env, document

LEMMA WaitForRunInv == ASSUME CliInv, WaitForRun PROVE CliInv'
<1>1. Now' = Now /\ Ahead' = Ahead
  BY Unread DEF WaitForRun, response
<1>2. /\ UNCHANGED <<command, run, log, untold, response, finish, shown>>
      /\ pc = "looking" /\ pc' \in {"looking", "opening", "done"}
      /\ \/ UNCHANGED <<why, code>>
         \/ why' = "shown" /\ code' = exitCodeForStatus(run)
         \/ why' \in {"missing", "request"}
  BY DEF WaitForRun, Ends, Raises, GoesTo, document
<1>3. TypeOK'
  BY <1>1, <1>2 DEF CliInv, TypeOK, response
<1>4. RunOK' /\ SentOK'
  BY <1>2 DEF CliInv, RunOK, SentOK, response
<1>5. StreamOK'
  BY <1>1, <1>2 DEF CliInv, StreamOK, response
<1>6. ExitOK'
  BY <1>2 DEF CliInv, ExitOK, exitCodeForStatus
<1> QED BY <1>3, <1>4, <1>5, <1>6 DEF CliInv

LEMMA OpenEventsInv == ASSUME CliInv, OpenEvents PROVE CliInv'
<1>1. Now' = Now /\ Ahead' = Ahead
  BY Unread DEF OpenEvents
<1>2. /\ UNCHANGED <<command, run, log, untold, sent, wire, finish, shown>>
      /\ pc = "opening"
      /\ UNCHANGED <<why, code>> \/ why' = "refused"
      /\ \/ pc' = "streaming" /\ stream' = "open" /\ backlog' = log
         \/ pc' \in {"polling", "done"} /\ UNCHANGED <<stream, handler, backlog>>
  BY DEF OpenEvents, GoesTo, Raises, Ends, document
<1>3. TypeOK'
  BY <1>1, <1>2 DEF CliInv, TypeOK
<1>4. RunOK'
  BY <1>2 DEF CliInv, RunOK
<1>5. /\ Now = [parser |-> Fresh, shown |-> <<>>, finish |-> "none"] /\ wire = <<>>
      /\ sent = <<>> /\ stream = "none" /\ finish = "none"
  BY <1>2, NowIs DEF CliInv, StreamOK
<1>6. StreamOK'
  <2>1. Ahead = Now
    BY <1>5, ScanNothing DEF Ahead
  <2>2. Ahead.parser = Fresh /\ Ahead.shown = <<>>
    BY <1>5, <2>1
  <2>3. Extends(sent, Ahead.shown)
    BY <1>5, <2>2 DEF Extends
  <2>4. handler = "none"
    BY <1>5 DEF CliInv, StreamOK
  <2> QED BY <1>1, <1>2, <1>5, <2>2, <2>3, <2>4 DEF StreamOK
<1>7. SentOK'
  <2>1. CASE backlog' = log
    BY <1>2, <1>5, <2>1 DEF CliInv, RunOK, SentOK
  <2>2. CASE backlog' = backlog
    BY <1>2, <2>2 DEF CliInv, SentOK
  <2> QED BY <1>2, <2>1, <2>2
<1>8. ExitOK'
  BY <1>2 DEF CliInv, ExitOK
<1> QED BY <1>3, <1>4, <1>6, <1>7, <1>8 DEF CliInv

(* Reading: what will have been read at the end is the same.               *)
LEMMA StreamEventsInv ==
    ASSUME CliInv, NEW n \in 1..Len(wire), StreamEvents(n) PROVE CliInv'
<1> DEFINE a == SubSeq(wire, 1, n)
           b == SubSeq(wire, n + 1, Len(wire))
<1>1. wire \in Seq(Word) /\ a \in Seq(Word) /\ b \in Seq(Word) /\ a \o b = wire
  BY DEF CliInv, TypeOK
<1>2. Push(Now, a) = Scan(Now, a)
  BY <1>1, PushIsScan DEF CliInv, TypeOK
<1>3. StateOK(Scan(Now, a))
  BY <1>1, ScanOK DEF CliInv, TypeOK
<1>4. Now' = Scan(Now, a)
  <2> DEFINE read == Scan(Now, a)
  <2>1. parser' = read.parser /\ shown' = read.shown /\ finish' = read.finish
    <3> HIDE DEF a
    <3> QED BY <1>2 DEF StreamEvents, Now, a
  <2>2. read = [parser |-> read.parser, shown |-> read.shown, finish |-> read.finish]
    BY <1>3 DEF StateOK, States
  <2> HIDE DEF read
  <2> QED BY <2>1, <2>2 DEF Now, read
<1>5. wire' = b /\ pc = "streaming"
      /\ UNCHANGED <<pc, stream, handler, backlog, sent, why, code, run, log, untold, command>>
  BY DEF StreamEvents, env, document
<1>6. Ahead' = Ahead
  <2>1. Scan(Now, a \o b) = Scan(Scan(Now, a), b)
    <3> HIDE DEF a, b
    <3> QED BY <1>1, ScanConcat
  <2>2. Ahead' = Scan(Now', b)
    BY <1>5 DEF Ahead
  <2> HIDE DEF a, b
  <2> QED BY <1>1, <1>4, <2>1, <2>2 DEF Ahead
<1>7. TypeOK'
  BY <1>1, <1>3, <1>4, <1>5 DEF CliInv, TypeOK
<1>8. RunOK' /\ SentOK'
  BY <1>5 DEF CliInv, RunOK, SentOK
<1>9. StreamOK'
  <2>1. Extends(sent, Ahead.shown) /\ stream # "none"
    BY <1>5 DEF CliInv, StreamOK
  <2>3. StateOK(Ahead)' /\ Extends(Ahead.shown, shown)' /\ shown' \in Seq(Kinds)
    <3>1. StateOK(Scan(Now', b)) /\ Extends(Scan(Now', b).shown, Now'.shown)
      BY <1>1, <1>3, <1>4, ScanOK
    <3>2. Now'.shown = shown' /\ Now'.shown \in Seq(Kinds)
      BY <1>3, <1>4 DEF Now, StateOK, States
    <3> QED BY <1>5, <3>1, <3>2 DEF Ahead
  <2>4. Extends(sent, shown)'
    <3>1. Ahead'.shown \in Seq(Kinds) /\ sent \in Seq(Kinds)
      BY <2>3 DEF StateOK, States, CliInv, TypeOK
    <3> QED BY <1>5, <1>6, <2>1, <2>3, <3>1, ExtendsTrans
  <2> QED BY <1>5, <1>6, <2>1, <2>4 DEF CliInv, StreamOK
<1>10. ExitOK'
  BY <1>5 DEF CliInv, ExitOK
<1> QED BY <1>7, <1>8, <1>9, <1>10 DEF CliInv

LEMMA StreamIsOverInv == ASSUME CliInv, StreamIsOver PROVE CliInv'
<1>1. Now' = Now /\ Ahead' = Ahead
  BY Unread DEF StreamIsOver, response
<1>2. /\ UNCHANGED <<command, run, log, untold, response, finish, shown>>
      /\ pc = "streaming"
      /\ \/ /\ stream = "closed" /\ finish # "none"
            /\ pc' = "done" /\ why' = "verdict" /\ code' = exitCodeForStatus(finish)
         \/ stream = "closed" /\ finish = "none" /\ pc' = "polling" /\ UNCHANGED <<why, code>>
         \/ stream = "cut" /\ pc' = "polling" /\ UNCHANGED <<why, code>>
  BY DEF StreamIsOver, Ends, GoesTo, env, document
<1>3. TypeOK'
  BY <1>1, <1>2 DEF CliInv, TypeOK, response
<1>4. RunOK' /\ SentOK'
  BY <1>2 DEF CliInv, RunOK, SentOK, response
<1>5. StreamOK'
  BY <1>1, <1>2 DEF CliInv, StreamOK, response
<1>6. ExitOK'
  <2>1. CASE stream = "closed" /\ finish # "none"
    <3>1. finish = run /\ finish \in Verdicts
      BY <2>1, FinishIsLast DEF CliInv, StreamOK
    <3> QED BY <1>2, <2>1, <3>1 DEF ExitOK
  <2>2. CASE ~(stream = "closed" /\ finish # "none")
    BY <1>2, <2>2 DEF CliInv, ExitOK
  <2> QED BY <2>1, <2>2
<1> QED BY <1>3, <1>4, <1>5, <1>6 DEF CliInv

LEMMA PollToVerdictInv == ASSUME CliInv, PollToVerdict PROVE CliInv'
<1>1. /\ UNCHANGED <<command, parser, run, log, untold, response, finish>>
      /\ pc = "polling" /\ pc' \in {"polling", "done"}
      /\ \/ run \in Verdicts /\ shown' = Append(shown, run)
            /\ why' = "verdict" /\ code' = exitCodeForStatus(run)
         \/ UNCHANGED <<shown, why, code>>
         \/ UNCHANGED shown /\ why' \in {"gaveUp", "refused"}
  BY DEF PollToVerdict, Ends, Raises, GoesTo, document
<1>2. StateOK(Now)'
  <2>1. CASE UNCHANGED shown
    BY <1>1, <2>1 DEF Now, CliInv, TypeOK
  <2>2. CASE run \in Verdicts /\ shown' = Append(shown, run)
    <3>1. /\ Append(shown, run) \in Seq(Kinds)
          /\ \A i \in DOMAIN shown : i \in DOMAIN Append(shown, run) /\ Append(shown, run)[i] = shown[i]
      BY <2>2, ShownTypes DEF CliInv, Kinds
    <3>2. Now'.shown = Append(shown, run) /\ Now'.parser = parser /\ Now'.finish = finish
      BY <1>1, <2>2 DEF Now
    <3>3. Now' \in States
      BY <1>1, <2>2, <3>1, ShownTypes DEF Now, States, CliInv
    <3>4. finish # "none" => \E i \in DOMAIN shown : shown[i] = finish
      BY NowIs DEF CliInv, TypeOK, StateOK
    <3>5. \A i \in DOMAIN parser.buffer : parser.buffer[i] # "nl"
      BY NowIs DEF CliInv, TypeOK, StateOK
    <3> QED BY <3>1, <3>2, <3>3, <3>4, <3>5 DEF StateOK
  <2> QED BY <1>1, <2>1, <2>2
<1>3. TypeOK'
  BY <1>1, <1>2 DEF CliInv, TypeOK, response
<1>4. RunOK' /\ SentOK'
  BY <1>1 DEF CliInv, RunOK, SentOK, response
<1>5. StreamOK'
  BY <1>1 DEF CliInv, StreamOK, response
<1>6. ExitOK'
  BY <1>1 DEF CliInv, ExitOK
<1> QED BY <1>3, <1>4, <1>5, <1>6 DEF CliInv

-------------------------------------------------------------------------------
(* The steps of the server. *)

LEMMA CutAt ==
    ASSUME NEW w \in Seq(Word), NEW n \in 0..Len(w)
    PROVE  /\ SubSeq(w, 1, n) \in Seq(Word) /\ SubSeq(w, n + 1, Len(w)) \in Seq(Word)
           /\ SubSeq(w, 1, n) \o SubSeq(w, n + 1, Len(w)) = w
<1>1. SubSeq(w, 1, n) \in Seq(Word) /\ SubSeq(w, n + 1, Len(w)) \in Seq(Word)
  OBVIOUS
<1>2. CASE n \in 1..Len(w)
  <2>1. SubSeq(w, 1, n) \o SubSeq(w, n + 1, Len(w)) = w
    BY <1>2
  <2> QED BY <1>1, <2>1
<1>3. CASE n = 0
  <2>1. SubSeq(w, 1, 0) = <<>> /\ SubSeq(w, 0 + 1, Len(w)) = w
    OBVIOUS
  <2>2. SubSeq(w, 1, 0) \o SubSeq(w, 0 + 1, Len(w)) = w
    BY <2>1
  <2> QED BY <1>1, <1>3, <2>2, Zenon
<1>4. n = 0 \/ n \in 1..Len(w)
  OBVIOUS
<1> QED BY <1>2, <1>3, <1>4, Zenon

(* The timeline grows by one event.                                        *)
LEMMA Grows ==
    ASSUME NEW s \in Seq(Kinds), NEW e \in Kinds
    PROVE  /\ Append(s, e) \in Seq(Kinds) /\ Len(Append(s, e)) = Len(s) + 1
           /\ Append(s, e) # <<>> /\ Len(s) \in Nat
           /\ Append(s, e)[Len(s) + 1] = e
           /\ \A i \in 1..Len(s) : Append(s, e)[i] = s[i]
<1>1. /\ Append(s, e) \in Seq(Kinds) /\ Len(Append(s, e)) = Len(s) + 1 /\ Len(s) \in Nat
      /\ Append(s, e)[Len(s) + 1] = e
      /\ \A i \in 1..Len(s) : Append(s, e)[i] = s[i]
  OBVIOUS
<1> QED BY <1>1

(* What a run that is going on, and the sweep, do to a run.                *)
LEMMA RunMovesInv ==
    ASSUME CliInv, run \in {"queued", "running"}, NEW e \in Kinds, log' = Append(log, e),
           run' = IF e = "step" THEN "running" ELSE e,
           UNCHANGED <<cli, response>>
    PROVE  CliInv'
<1>1. Now' = Now /\ Ahead' = Ahead
  BY Unread DEF cli, response
<1>2. UNCHANGED <<command, pc, finish, shown, why, code, stream, handler, backlog, sent, wire>>
  BY DEF cli, response
<1>3. /\ log' \in Seq(Kinds) /\ Len(log') = Len(log) + 1 /\ log'[Len(log')] = e
      /\ \A i \in 1..Len(log) : log'[i] = log[i]
      /\ log' # <<>> /\ Len(log) \in Nat
  BY Grows DEF CliInv, TypeOK
<1>4. TypeOK'
  BY <1>1, <1>2, <1>3 DEF CliInv, TypeOK, Kinds
<1>5. \A i \in 1..Len(log) : log[i] \notin Verdicts
  BY DEF CliInv, RunOK, Verdicts
<1>6. RunOK'
  <2>1. ASSUME NEW i \in 1..Len(log'), log'[i] \in Verdicts
        PROVE  i = Len(log') /\ log'[i] = run'
    <3>1. i \notin 1..Len(log)
      BY <1>3, <1>5, <2>1
    <3>2. i = Len(log')
      BY <1>3, <3>1
    <3>3. e # "step"
      BY <1>3, <2>1, <3>2 DEF Verdicts
    <3> QED BY <1>3, <3>2, <3>3
  <2>2. run' # "absent"
    BY DEF Kinds, Verdicts
  <2>3. ~(pc = "start" /\ command \in {"start", "startWatch"})
    BY DEF CliInv, RunOK
  <2> QED BY <1>2, <1>3, <2>1, <2>2, <2>3 DEF RunOK
<1>7. StreamOK'
  BY <1>1, <1>2 DEF CliInv, StreamOK
<1>8. ExitOK'
  <2>1. why # "verdict"
    BY DEF CliInv, ExitOK, Verdicts
  <2>2. why = "shown" => code # 0 /\ code # 1
    BY DEF CliInv, ExitOK
  <2> QED BY <1>2, <2>1, <2>2 DEF ExitOK
<1>9. SentOK'
  <2>1. /\ \A i \in 1..Len(sent) : sent[i] \notin Verdicts
        /\ \A i \in 1..Len(backlog) : backlog[i] \notin Verdicts
    BY DEF CliInv, SentOK, Verdicts
  <2> QED BY <1>2, <2>1 DEF SentOK
<1> QED BY <1>4, <1>6, <1>7, <1>8, <1>9 DEF CliInv

LEMMA RunGoesOnInv == ASSUME CliInv, RunGoesOn PROVE CliInv'
<1>1. CASE Len(log) < Steps
  <2>1. "step" \in Kinds /\ log' = Append(log, "step") /\ run' = "running"
    BY <1>1 DEF RunGoesOn, Kinds
  <2> QED BY <2>1, RunMovesInv DEF RunGoesOn
<1>2. CASE ~(Len(log) < Steps)
  <2>1. run' \in Verdicts /\ log' = Append(log, run')
    BY <1>2 DEF RunGoesOn
  <2>2. run' \in Kinds /\ run' # "step"
    BY <2>1 DEF Kinds, Verdicts
  <2> QED BY <2>1, <2>2, RunMovesInv DEF RunGoesOn
<1> QED BY <1>1, <1>2

LEMMA ServerStartsInv == ASSUME CliInv, ServerStarts PROVE CliInv'
<1>1. CASE run \in {"queued", "running"} /\ run' = "error" /\ log' = Append(log, "error")
  <2>1. "error" \in Kinds
    BY DEF Kinds, Verdicts
  <2> QED BY <1>1, <2>1, RunMovesInv DEF ServerStarts
<1>2. CASE UNCHANGED <<run, log>>
  <2>1. Now' = Now /\ Ahead' = Ahead
    BY Unread DEF ServerStarts, cli, response
  <2>2. UNCHANGED <<cli, response, run, log, untold>>
    BY <1>2 DEF ServerStarts
  <2> QED BY <2>1, <2>2 DEF CliInv, TypeOK, RunOK, SentOK, StreamOK, ExitOK, cli, response
<1> QED BY <1>1, <1>2 DEF ServerStarts

(* A handler that does not have the end gets an event.                     *)
LEMMA NoEndYet ==
    ASSUME CliInv, ~HasEnd
    PROVE  /\ \A i \in 1..Len(sent) : sent[i] \notin Verdicts
           /\ \A i \in 1..Len(backlog) : backlog[i] \notin Verdicts
<1> DEFINE all == sent \o backlog
<1>1. sent \in Seq(Kinds) /\ backlog \in Seq(Kinds)
  BY DEF CliInv, TypeOK
<1>2. /\ all \in Seq(Kinds) /\ Len(all) = Len(sent) + Len(backlog)
      /\ Len(sent) \in Nat /\ Len(backlog) \in Nat
      /\ \A i \in 1..Len(sent) : all[i] = sent[i]
      /\ \A i \in 1..Len(backlog) : all[Len(sent) + i] = backlog[i]
  BY <1>1
<1>3. \A i \in 1..Len(all) : all[i] \notin Verdicts
  BY DEF HasEnd, Contains
<1> HIDE DEF all
<1>4. ASSUME NEW i \in 1..Len(sent) PROVE sent[i] \notin Verdicts
  <2>1. i \in 1..Len(all) /\ all[i] = sent[i]
    BY <1>2
  <2> QED BY <1>3, <2>1
<1>5. ASSUME NEW i \in 1..Len(backlog) PROVE backlog[i] \notin Verdicts
  <2>1. Len(sent) + i \in 1..Len(all) /\ all[Len(sent) + i] = backlog[i]
    BY <1>2
  <2> QED BY <1>3, <2>1
<1> QED BY <1>4, <1>5

LEMMA HearsInv ==
    ASSUME CliInv, ~HasEnd, NEW e \in Kinds, e \in Verdicts => e = run,
           backlog' = Append(backlog, e), untold' => untold,
           UNCHANGED <<cli, stream, handler, sent, wire, run, log>>
    PROVE  CliInv'
<1>1. UNCHANGED <<command, pc, finish, shown, why, code>> /\ Now' = Now /\ Ahead' = Ahead
  BY Unread DEF cli
<1>2. /\ backlog' \in Seq(Kinds) /\ Len(backlog') = Len(backlog) + 1
      /\ Len(backlog) \in Nat /\ backlog'[Len(backlog')] = e
      /\ \A i \in 1..Len(backlog) : backlog'[i] = backlog[i]
  BY Grows DEF CliInv, TypeOK
<1>3. TypeOK' /\ RunOK' /\ StreamOK' /\ ExitOK'
  BY <1>1, <1>2 DEF CliInv, TypeOK, RunOK, StreamOK, ExitOK
<1>4. SentOK'
  <2>1. ASSUME NEW i \in 1..Len(backlog'), backlog'[i] \in Verdicts
        PROVE  i = Len(backlog') /\ backlog'[i] = run
    <3>1. i \notin 1..Len(backlog)
      BY <1>2, <2>1, NoEndYet
    <3> QED BY <1>2, <2>1, <3>1
  <2> QED BY <2>1, NoEndYet DEF SentOK
<1> QED BY <1>3, <1>4 DEF CliInv

LEMMA RunIsPublishedInv == ASSUME CliInv, RunIsPublished PROVE CliInv'
<1>1. UNCHANGED <<cli, stream, handler, sent, wire, run, log>> /\ untold /\ ~untold'
  BY DEF RunIsPublished
<1>2. CASE handler = "on" /\ ~HasEnd
  <2>1. Last(log) \in Kinds /\ (Last(log) \in Verdicts => Last(log) = run)
    <3>1. log \in Seq(Kinds) /\ log # <<>>
      BY <1>1 DEF CliInv, TypeOK, RunOK
    <3>2. Len(log) \in 1..Len(log) /\ log[Len(log)] \in Kinds
      BY <3>1
    <3> QED BY <3>2 DEF Last, CliInv, RunOK
  <2>2. backlog' = Append(backlog, Last(log))
    BY <1>2 DEF RunIsPublished
  <2> QED BY <1>1, <1>2, <2>1, <2>2, HearsInv
<1>3. CASE ~(handler = "on" /\ ~HasEnd)
  <2>1. UNCHANGED backlog
    BY <1>3 DEF RunIsPublished
  <2>2. Now' = Now /\ Ahead' = Ahead
    BY <1>1, Unread DEF cli
  <2> QED BY <1>1, <2>1, <2>2 DEF CliInv, TypeOK, RunOK, SentOK, StreamOK, ExitOK, cli
<1> QED BY <1>2, <1>3

LEMMA EndIsCaughtUpInv == ASSUME CliInv, EndIsCaughtUp PROVE CliInv'
<1>1. run \in Kinds
  BY DEF EndIsCaughtUp, Kinds
<1> QED BY <1>1, HearsInv DEF EndIsCaughtUp, env, document

LEMMA HandlerSubscribesInv == ASSUME CliInv, HandlerSubscribes PROVE CliInv'
<1>1. UNCHANGED <<cli, stream, backlog, sent, wire, run, log, untold>> /\ stream = "open"
  BY DEF HandlerSubscribes, env, document, CliInv, StreamOK
<1>2. Now' = Now /\ Ahead' = Ahead
  BY <1>1, Unread DEF cli
<1> QED BY <1>1, <1>2 DEF CliInv, TypeOK, RunOK, SentOK, StreamOK, ExitOK, cli

(* A message is put on the wire.                                           *)
LEMMA TextIsAhead ==
    ASSUME CliInv, stream = "open", NEW e \in Kinds \cup {"comment"},
           wire' = wire \o Text(e), UNCHANGED cli
    PROVE  /\ wire' \in Seq(Word) /\ Ahead'.parser = Fresh
           /\ Ahead'.shown = IF e = "comment" THEN sent ELSE Append(sent, e)
<1>1. Now' = Now
  BY DEF cli, Now
<1>2. Ahead.parser = Fresh /\ Ahead.shown = sent /\ Ahead \in States
  BY AheadIs DEF CliInv, StreamOK, StateOK
<1>3. /\ Text(e) \in Seq(Word)
      /\ Scan(Ahead, Text(e)).parser = Fresh
      /\ Scan(Ahead, Text(e)).shown = IF e = "comment" THEN Ahead.shown ELSE Append(Ahead.shown, e)
  BY <1>2, ScanText
<1>4. wire \in Seq(Word) /\ wire' \in Seq(Word)
  BY <1>3 DEF CliInv, TypeOK
<1>5. Ahead' = Scan(Ahead, Text(e))
  <2>1. Scan(Now, wire \o Text(e)) = Scan(Scan(Now, wire), Text(e))
    BY <1>3, <1>4, ScanConcat DEF CliInv, TypeOK
  <2> QED BY <1>1, <2>1 DEF Ahead
<1> QED BY <1>2, <1>3, <1>4, <1>5

LEMMA ExtendsItself == ASSUME NEW s \in Seq(Kinds) PROVE Extends(s, s)
BY DEF Extends

LEMMA StreamIsKeptAliveInv == ASSUME CliInv, StreamIsKeptAlive PROVE CliInv'
<1>1. /\ UNCHANGED <<command, pc, parser, finish, shown, why, code, stream, handler, backlog,
                     sent, run, log, untold>>
      /\ stream = "open" /\ wire' = wire \o Text("comment") /\ UNCHANGED cli /\ Now' = Now
  BY DEF StreamIsKeptAlive, cli, document, Now
<1>2. wire' \in Seq(Word) /\ Ahead'.parser = Fresh /\ Ahead'.shown = sent
  <2>1. "comment" \in Kinds \cup {"comment"}
    OBVIOUS
  <2> QED BY <1>1, <2>1, TextIsAhead
<1>3. TypeOK' /\ RunOK' /\ SentOK' /\ ExitOK'
  BY <1>1, <1>2 DEF CliInv, TypeOK, RunOK, SentOK, ExitOK
<1>4. StreamOK'
  <2>1. Extends(sent, sent) /\ pc = "streaming"
    BY <1>1, ExtendsItself DEF CliInv, TypeOK, StreamOK
  <2> QED BY <1>1, <1>2, <2>1 DEF StreamOK
<1> QED BY <1>3, <1>4 DEF CliInv

LEMMA NothingLeft == ASSUME NEW s \in Seq(Kinds), Len(s) = 0 PROVE s = <<>>
OBVIOUS

(* The handler writes one message.                                         *)
LEMMA ServerWritesInv == ASSUME CliInv, ServerWrites PROVE CliInv'
<1> DEFINE e == Head(backlog)
<1>1. /\ UNCHANGED <<command, pc, parser, finish, shown, why, code, stream, handler, run, log,
                     untold>>
      /\ UNCHANGED cli /\ Now' = Now
      /\ handler = "on" /\ backlog # <<>> /\ wire' = wire \o Text(e)
      /\ sent' = Append(sent, e) /\ backlog' = Tail(backlog)
  BY DEF ServerWrites, cli, env, document, Now
<1>2. stream = "open" /\ pc = "streaming"
  BY <1>1 DEF CliInv, StreamOK
<1>3. sent \in Seq(Kinds) /\ backlog \in Seq(Kinds)
  BY DEF CliInv, TypeOK
<1>4. /\ e \in Kinds /\ e = backlog[1] /\ Tail(backlog) \in Seq(Kinds)
      /\ Len(backlog) \in Nat \ {0} /\ Len(Tail(backlog)) = Len(backlog) - 1
      /\ \A i \in 1..Len(Tail(backlog)) : Tail(backlog)[i] = backlog[i + 1]
  BY <1>1, <1>3
<1> HIDE DEF e
<1>5. /\ sent' \in Seq(Kinds) /\ Len(sent') = Len(sent) + 1 /\ Len(sent) \in Nat
      /\ sent'[Len(sent')] = e
      /\ \A i \in 1..Len(sent) : sent'[i] = sent[i]
  BY <1>1, <1>3, <1>4, Grows
<1>6. wire' \in Seq(Word) /\ Ahead'.parser = Fresh /\ Ahead'.shown = sent'
  <2>1. e # "comment"
    BY <1>4 DEF Kinds, Verdicts
  <2>2. wire' \in Seq(Word) /\ Ahead'.parser = Fresh
        /\ Ahead'.shown = IF e = "comment" THEN sent ELSE Append(sent, e)
    BY <1>1, <1>2, <1>4, TextIsAhead
  <2> QED BY <1>1, <2>1, <2>2
<1>7. TypeOK'
  BY <1>1, <1>4, <1>5, <1>6 DEF CliInv, TypeOK
<1>8. RunOK' /\ ExitOK'
  BY <1>1 DEF CliInv, RunOK, ExitOK
<1>9. StreamOK'
  <2>1. Extends(sent', sent')
    BY <1>5, ExtendsItself
  <2> QED BY <1>1, <1>2, <1>6, <2>1 DEF StreamOK
<1>10. SentOK'
  <2>1. \A i \in 1..Len(sent) : sent[i] \notin Verdicts
    BY <1>1 DEF CliInv, SentOK
  <2>2. ASSUME NEW i \in 1..Len(sent'), sent'[i] \in Verdicts
        PROVE  i = Len(sent') /\ sent'[i] = run /\ backlog' = <<>>
    <3>1. i = Len(sent')
      BY <1>5, <2>1, <2>2
    <3>2. backlog[1] \in Verdicts /\ 1 \in 1..Len(backlog)
      BY <1>4, <1>5, <2>2, <3>1
    <3>3. 1 = Len(backlog) /\ backlog[1] = run
      BY <3>2 DEF CliInv, SentOK
    <3>4. sent'[i] = run
      BY <1>4, <1>5, <3>1, <3>3
    <3>5. backlog' = <<>>
      <4>1. Len(Tail(backlog)) = 0 /\ Tail(backlog) \in Seq(Kinds)
        BY <1>4, <3>3
      <4>2. Tail(backlog) = <<>>
        BY <4>1, NothingLeft
      <4> QED BY <1>1, <4>2
    <3> QED BY <3>1, <3>4, <3>5
  <2>3. ASSUME NEW i \in 1..Len(backlog'), backlog'[i] \in Verdicts
        PROVE  i = Len(backlog') /\ backlog'[i] = run
    <3> DEFINE n == Len(backlog)
    <3>1. i \in 1..(Len(backlog) - 1) /\ Len(backlog') = Len(backlog) - 1
      BY <1>1, <1>4
    <3>2. i \in Nat /\ i + 1 \in 1..Len(backlog)
      BY <1>4, <3>1
    <3>3. backlog[i + 1] = backlog'[i]
      BY <1>1, <1>4, <3>1
    <3>4. i + 1 = Len(backlog) /\ backlog[i + 1] = run
      BY <2>3, <3>2, <3>3 DEF CliInv, SentOK
    <3>5. i + 1 = n /\ n \in Nat /\ i \in Nat
      BY <1>4, <3>2, <3>4
    <3>6. i = n - 1
      <4> HIDE DEF n
      <4> QED BY ONLY <3>5
    <3> QED BY <3>1, <3>3, <3>4, <3>6
  <2> QED BY <1>1, <2>2, <2>3 DEF SentOK
<1> QED BY <1>7, <1>8, <1>9, <1>10 DEF CliInv

(* The stream is over for the server: the wire is cut, or left as it is.   *)
LEMMA CutInv ==
    ASSUME CliInv, stream = "open", stream' \in {"closed", "cut"},
           NEW n \in 0..Len(wire), wire' = SubSeq(wire, 1, n),
           handler' = "none", backlog' \in {backlog, <<>>}, untold' => untold,
           UNCHANGED <<cli, sent, run, log>>
    PROVE  CliInv'
<1> DEFINE a == SubSeq(wire, 1, n)
           b == SubSeq(wire, n + 1, Len(wire))
<1>1. wire \in Seq(Word) /\ a \in Seq(Word) /\ b \in Seq(Word) /\ a \o b = wire
  <2>1. wire \in Seq(Word)
    BY DEF CliInv, TypeOK
  <2> QED BY <2>1, CutAt
<1>2. UNCHANGED <<command, pc, parser, finish, shown, why, code>> /\ Now' = Now
  BY DEF cli, Now
<1>3. StateOK(Scan(Now, a)) /\ Extends(Scan(Now, a).shown, shown)
  BY <1>1, ScanOK, NowIs DEF CliInv, TypeOK
<1>4. Ahead = Scan(Scan(Now, a), b)
  <2> HIDE DEF a, b
  <2> QED BY <1>1, ScanConcat DEF Ahead
<1>5. Extends(Ahead.shown, Scan(Now, a).shown)
  <2> HIDE DEF a, b
  <2> QED BY <1>1, <1>3, <1>4, ScanOK
<1>6. Ahead' = Scan(Now, a)
  BY <1>2 DEF Ahead
<1>7. pc = "streaming" /\ Extends(sent, Ahead.shown)
  BY DEF CliInv, StreamOK
<1>8. /\ sent \in Seq(Kinds) /\ shown \in Seq(Kinds) /\ Ahead.shown \in Seq(Kinds)
      /\ Scan(Now, a).shown \in Seq(Kinds)
  BY <1>3, ShownTypes DEF CliInv, TypeOK, StateOK, States
<1> HIDE DEF a, b
<1>9. Extends(sent, Scan(Now, a).shown)
  BY <1>5, <1>7, <1>8, ExtendsTrans
<1>10. Extends(sent, shown)
  BY <1>3, <1>8, <1>9, ExtendsTrans
<1>11. TypeOK'
  <2>1. backlog \in Seq(Kinds) /\ <<>> \in Seq(Kinds)
    BY DEF CliInv, TypeOK
  <2>2. backlog' \in Seq(Kinds)
    BY <2>1
  <2> QED BY <1>1, <1>2, <2>2 DEF CliInv, TypeOK, a
<1>12. RunOK' /\ SentOK'
  BY <1>2 DEF CliInv, RunOK, SentOK
<1>13. StreamOK'
  BY <1>2, <1>6, <1>7, <1>9, <1>10 DEF StreamOK
<1>14. ExitOK'
  BY <1>2 DEF CliInv, ExitOK
<1> QED BY <1>11, <1>12, <1>13, <1>14 DEF CliInv

LEMMA ServerClosesInv == ASSUME CliInv, ServerCloses PROVE CliInv'
<1>1. Len(wire) \in 0..Len(wire) /\ SubSeq(wire, 1, Len(wire)) = wire
  BY DEF CliInv, TypeOK
<1> QED BY <1>1, CutInv DEF ServerCloses, env, document, CliInv, StreamOK

LEMMA ServerStopsInv == ASSUME CliInv, ServerStops PROVE CliInv'
<1>1. CASE stream = "open"
  BY <1>1, CutInv DEF ServerStops
<1>2. CASE stream # "open"
  <2>1. UNCHANGED <<cli, stream, wire, sent, run, log>> /\ handler' = "none" /\ backlog' = <<>>
        /\ ~untold'
    BY <1>2 DEF ServerStops
  <2>2. Now' = Now /\ Ahead' = Ahead
    BY <2>1, Unread DEF cli
  <2> QED BY <2>1, <2>2 DEF CliInv, TypeOK, RunOK, SentOK, StreamOK, ExitOK, cli
<1> QED BY <1>1, <1>2

LEMMA StutterInv == ASSUME CliInv, UNCHANGED vars PROVE CliInv'
<1>1. UNCHANGED <<cli, response, run, log, untold>> /\ Now' = Now /\ Ahead' = Ahead
  BY Unread DEF vars, cli, response, env, document
<1> QED BY <1>1 DEF CliInv, TypeOK, RunOK, SentOK, StreamOK, ExitOK, cli, response

-------------------------------------------------------------------------------

LEMMA InvStep == CliInv /\ [Next]_vars => CliInv'
BY UsageErrorInv, StartRunInv, LooksInv, WaitForRunInv, OpenEventsInv, StreamEventsInv,
   StreamIsOverInv, PollToVerdictInv, RunGoesOnInv, RunIsPublishedInv, HandlerSubscribesInv,
   EndIsCaughtUpInv, ServerWritesInv, StreamIsKeptAliveInv, ServerClosesInv, ServerStopsInv,
   ServerStartsInv, StutterInv
   DEF Next, Following, Serving

(* Whatever is sent, cut and read, CliInv holds.                           *)
THEOREM CliKeepsInv == Spec => []CliInv
BY InvInit, InvStep, PTL DEF Spec

(* The exit code of a command is the verdict of its run, in its own reading*)
(* or in that of a poll.                                                   *)
THEOREM ExitsTellTheTruth == Spec => []ExitIsTheVerdict
BY CliKeepsInv, InvExit, PTL

(* However the text of the stream is cut into chunks, what the handler has *)
(* written is printed in order, and all of it before the verdict is told.  *)
THEOREM TimelinesArePrinted == Spec => []TimelineIsPrinted
BY CliKeepsInv, InvTimeline, PTL

LEMMA RefusalsCount ==
    ASSUME refusals \in Nat, [Next]_vars
    PROVE  refusals' \in Nat
<1>1. CASE Following
  <2>1. ASSUME NEW n \in 1..Len(wire), StreamEvents(n) PROVE refusals' = refusals
    BY <2>1 DEF StreamEvents, env, counts
  <2>2. CASE UsageError \/ StartRun \/ Looks \/ WaitForRun
    BY <2>2 DEF UsageError, StartRun, Looks, WaitForRun, Answered, Transient, Refused, env, counts
  <2>3. CASE OpenEvents \/ StreamIsOver \/ PollToVerdict
    BY <2>3 DEF OpenEvents, StreamIsOver, PollToVerdict, Answered, Transient, Refused, env, counts
  <2> QED BY <1>1, <2>1, <2>2, <2>3 DEF Following
<1>2. CASE Serving \/ ServerCloses
  BY <1>2 DEF Serving, RunIsPublished, HandlerSubscribes, EndIsCaughtUp, ServerWrites,
              ServerCloses, env, counts
<1>3. CASE \/ RunGoesOn \/ StreamIsKeptAlive \/ ServerStops \/ ServerStarts \/ UNCHANGED vars
  BY <1>3 DEF RunGoesOn, StreamIsKeptAlive, ServerStops, ServerStarts, vars, env, counts
<1> QED BY <1>1, <1>2, <1>3 DEF Next

LEMMA WeatherStep ==
    ASSUME refusals \in Nat, [Next]_vars, pc' = "done", pc \in {"opening", "streaming", "polling"},
           why' # "verdict"
    PROVE  tries = MaxPolls \/ refusals' # refusals
<1>1. CASE UsageError \/ StartRun \/ Looks \/ WaitForRun
  BY <1>1 DEF UsageError, StartRun, Looks, WaitForRun, GoesTo
<1>2. ASSUME NEW n \in 1..Len(wire), StreamEvents(n) PROVE FALSE
  BY <1>2 DEF StreamEvents
<1>3. CASE StreamIsOver
  BY <1>3 DEF StreamIsOver, GoesTo, Ends
<1>4. CASE OpenEvents \/ PollToVerdict
  BY <1>4 DEF OpenEvents, PollToVerdict, GoesTo, Ends, Raises, Answered, Transient, Refused
<1>5. CASE \/ Serving \/ ServerCloses \/ RunGoesOn \/ StreamIsKeptAlive \/ ServerStops
           \/ ServerStarts \/ UNCHANGED vars
  BY <1>5 DEF Serving, RunIsPublished, HandlerSubscribes, EndIsCaughtUp, ServerWrites,
              ServerCloses, RunGoesOn, StreamIsKeptAlive, ServerStops, ServerStarts, vars, cli
<1> QED BY <1>1, <1>2, <1>3, <1>4, <1>5 DEF Next, Following

(* A command that follows a run is ended by its verdict, by the last of    *)
(* its polls or by an answer it takes for final, and by no other failure.  *)
THEOREM FailuresAreOutlasted == Spec => WeatherIsNoAnswer
<1>1. Spec => [](refusals \in Nat)
  <2>1. Init => refusals \in Nat
    BY DEF Init
  <2>2. refusals \in Nat /\ [Next]_vars => (refusals \in Nat)'
    BY RefusalsCount
  <2> QED BY <2>1, <2>2, PTL DEF Spec
<1>2. refusals \in Nat /\ [Next]_vars
        => [pc' = "done" /\ pc \in {"opening", "streaming", "polling"} /\ why' # "verdict" =>
              tries = MaxPolls \/ refusals' # refusals]_vars
  BY WeatherStep
<1> QED BY <1>1, <1>2, PTL DEF Spec, WeatherIsNoAnswer
===============================================================================
