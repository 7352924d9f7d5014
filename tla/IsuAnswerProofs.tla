--------------------------- MODULE IsuAnswerProofs ---------------------------
(***************************************************************************)
(* What the result of a command of isu.c says about the modem: theorems    *)
(* about IsuLink for any set of calls, any number of them and any of the   *)
(* modems.                                                                 *)
(***************************************************************************)
EXTENDS IsuLinkProofs

(***************************************************************************)
(* Lines that come after others.                                           *)
(***************************************************************************)
Some(q, S) == \E i \in 1..Len(q) : q[i] \in S
All(q, S) == \A i \in 1..Len(q) : q[i] \in S

(* In q, a line of S comes only after one of T.                            *)
Before(q, S, T) == \A i \in 1..Len(q) : q[i] \in S => \E j \in 1..(i - 1) : q[j] \in T

(* The same for what is on the line (w) and still to be sent (o).          *)
Guarded(w, o, S, T) == Before(w, S, T) /\ (Some(w, T) \/ Before(o, S, T))

LEMMA Appended ==
  ASSUME NEW w \in Seq(Lines), NEW l \in Lines
  PROVE  /\ Append(w, l) \in Seq(Lines) /\ Len(w) \in Nat
         /\ Len(Append(w, l)) = Len(w) + 1
         /\ \A i \in 1..Len(w) : Append(w, l)[i] = w[i]
         /\ Append(w, l)[Len(w) + 1] = l
         /\ \A i \in 1..Len(Append(w, l)) : i \in 1..Len(w) \/ i = Len(w) + 1
BY AppendProperties, LenProperties

LEMMA Behead ==
  ASSUME NEW w \in Seq(Lines), w # <<>>
  PROVE  /\ Tail(w) \in Seq(Lines) /\ Len(w) \in Nat \ {0} /\ Len(Tail(w)) = Len(w) - 1
         /\ Head(w) = w[1] /\ Head(w) \in Lines
         /\ \A i \in 1..Len(Tail(w)) : i + 1 \in 1..Len(w) /\ Tail(w)[i] = w[i + 1]
BY HeadTailProperties, EmptySeq, LenProperties

LEMMA AllAppend ==
  ASSUME NEW w \in Seq(Lines), NEW l \in Lines, NEW S, All(w, S), l \in S
  PROVE  All(Append(w, l), S)
BY Appended DEF All

LEMMA AllTail ==
  ASSUME NEW w \in Seq(Lines), w # <<>>, NEW S, All(w, S)
  PROVE  All(Tail(w), S) /\ Head(w) \in S
<1>1. 1 \in 1..Len(w)
  BY Behead
<1> QED
  BY <1>1, Behead DEF All

LEMMA AllCons ==
  ASSUME NEW w \in Seq(Lines), NEW l \in Lines, NEW S, All(w, S), l \in S
  PROVE  All(<<l>> \o w, S)
<1> DEFINE q == <<l>> \o w
<1>1. /\ <<l>> \in Seq(Lines) /\ Len(<<l>>) = 1 /\ <<l>>[1] = l /\ Len(w) \in Nat
  BY LenProperties
<1>2. /\ Len(q) = Len(<<l>>) + Len(w)
      /\ \A i \in 1..Len(q) : q[i] = IF i <= Len(<<l>>) THEN <<l>>[i] ELSE w[i - Len(<<l>>)]
  BY <1>1, ConcatProperties
<1> HIDE DEF q
<1>3. ASSUME NEW i \in 1..Len(q) PROVE q[i] \in S
  <2>1. CASE i = 1
    BY <1>1, <1>2, <2>1
  <2>2. CASE i # 1
    <3>1. i - 1 \in 1..Len(w) /\ ~(i <= 1)
      BY <1>1, <1>2, <2>2
    <3> QED
      BY <1>1, <1>2, <3>1 DEF All
  <2> QED
    BY <2>1, <2>2
<1> QED
  BY <1>3 DEF All, q

LEMMA SomeAppend ==
  ASSUME NEW w \in Seq(Lines), NEW l \in Lines, NEW S
  PROVE  Some(Append(w, l), S) <=> Some(w, S) \/ l \in S
<1> DEFINE q == Append(w, l)
<1>1. /\ Len(w) \in Nat /\ Len(q) = Len(w) + 1 /\ q[Len(w) + 1] = l
      /\ \A i \in 1..Len(w) : q[i] = w[i]
      /\ \A i \in 1..Len(q) : i \in 1..Len(w) \/ i = Len(w) + 1
  BY Appended
<1> HIDE DEF q
<1>2. Len(w) + 1 \in 1..Len(q) /\ \A i \in 1..Len(w) : i \in 1..Len(q)
  BY <1>1
<1>3. Some(q, S) <=> Some(w, S) \/ l \in S
  BY <1>1, <1>2 DEF Some
<1> QED
  BY <1>3 DEF q

LEMMA SomeTail ==
  ASSUME NEW w \in Seq(Lines), w # <<>>, NEW S
  PROVE  Some(w, S) <=> Head(w) \in S \/ Some(Tail(w), S)
<1>1. 1 \in 1..Len(w) /\ \A i \in 1..Len(w) : i = 1 \/ (i - 1 \in 1..Len(Tail(w)) /\ (i - 1) + 1 = i)
  BY Behead
<1>2. \A i \in 1..Len(w) : i = 1 \/ w[i] = Tail(w)[i - 1]
  BY <1>1, Behead
<1> QED
  BY <1>1, <1>2, Behead DEF Some

LEMMA NoneGuarded ==
  ASSUME NEW w, NEW o, NEW S, NEW T, ~Some(w, S), ~Some(o, S)
  PROVE  Guarded(w, o, S, T)
BY DEF Guarded, Before, Some

LEMMA BeforeAppend ==
  ASSUME NEW w \in Seq(Lines), NEW l \in Lines, NEW S, NEW T,
         Before(w, S, T), l \in S => Some(w, T)
  PROVE  Before(Append(w, l), S, T)
<1> DEFINE q == Append(w, l)
<1>1. /\ Len(w) \in Nat /\ Len(q) = Len(w) + 1 /\ q[Len(w) + 1] = l
      /\ \A i \in 1..Len(w) : q[i] = w[i]
      /\ \A i \in 1..Len(q) : i \in 1..Len(w) \/ i = Len(w) + 1
  BY Appended
<1> HIDE DEF q
<1> SUFFICES ASSUME NEW i \in 1..Len(q), q[i] \in S PROVE \E j \in 1..(i - 1) : q[j] \in T
  BY DEF Before, q
<1>2. CASE i \in 1..Len(w)
  <2>1. PICK j \in 1..(i - 1) : w[j] \in T
    BY <1>1, <1>2 DEF Before
  <2>2. j \in 1..Len(w)
    BY <1>1, <1>2
  <2> QED
    BY <1>1, <2>1, <2>2
<1>3. CASE i = Len(w) + 1
  <2>1. PICK j \in 1..Len(w) : w[j] \in T
    BY <1>1, <1>3 DEF Some
  <2> QED
    BY <1>1, <1>3, <2>1
<1> QED
  BY <1>1, <1>2, <1>3

LEMMA BeforeTail ==
  ASSUME NEW w \in Seq(Lines), w # <<>>, NEW S, NEW T, Before(w, S, T)
  PROVE  Head(w) \notin S /\ (Head(w) \notin T => Before(Tail(w), S, T))
<1>1. Head(w) \notin S
  <2>1. 1 \in 1..Len(w) /\ Head(w) = w[1] /\ ~\E j \in 1..(1 - 1) : TRUE
    BY Behead
  <2> QED
    BY <2>1 DEF Before
<1>2. ASSUME Head(w) \notin T, NEW i \in 1..Len(Tail(w)), Tail(w)[i] \in S
      PROVE  \E j \in 1..(i - 1) : Tail(w)[j] \in T
  <2>1. i + 1 \in 1..Len(w) /\ w[i + 1] \in S /\ Len(Tail(w)) = Len(w) - 1 /\ Len(w) \in Nat
    BY <1>2, Behead
  <2>2. PICK j \in 1..((i + 1) - 1) : w[j] \in T
    BY <2>1 DEF Before
  <2>3. j # 1
    BY <1>2, <2>2, Behead
  <2>4. j - 1 \in 1..(i - 1) /\ j - 1 \in 1..Len(Tail(w)) /\ (j - 1) + 1 = j
    BY <2>1, <2>2, <2>3
  <2>5. Tail(w)[j - 1] = w[j]
    BY <2>4, Behead
  <2> QED
    BY <2>2, <2>4, <2>5
<1> QED
  BY <1>1, <1>2 DEF Before

(* A line that needs no other comes.                                       *)
LEMMA GuardedAppend ==
  ASSUME NEW w \in Seq(Lines), NEW l \in Lines, NEW o, NEW S, NEW T,
         Guarded(w, o, S, T), l \notin S
  PROVE  Guarded(Append(w, l), o, S, T)
BY BeforeAppend, SomeAppend DEF Guarded

(* The first line is read, and another one needs no T then.                *)
LEMMA GuardedTail ==
  ASSUME NEW w \in Seq(Lines), w # <<>>, NEW o, NEW S, NEW T, Guarded(w, o, S, T)
  PROVE  Head(w) \notin S /\ (Head(w) \notin T => Guarded(Tail(w), o, S, T))
BY BeforeTail, SomeTail DEF Guarded

(* The modem sends the next line.                                          *)
LEMMA GuardedEmit ==
  ASSUME NEW w \in Seq(Lines), NEW o \in Seq(Lines), o # <<>>, NEW x \in Lines,
         NEW S, NEW T, Guarded(w, o, S, T), x \in S <=> Head(o) \in S, x \in T <=> Head(o) \in T
  PROVE  Guarded(Append(w, x), Tail(o), S, T)
BY BeforeAppend, SomeAppend, BeforeTail DEF Guarded

(* The modem begins to answer.                                             *)
LEMMA GuardedAnswer ==
  ASSUME NEW w, NEW o, NEW S, NEW T, Guarded(w, <<>>, S, T), Before(o, S, T)
  PROVE  Guarded(w, o, S, T)
BY DEF Guarded

(* Answers of one to three lines.                                          *)
LEMMA Tuple1 ==
  ASSUME NEW a, NEW S, NEW T
  PROVE  /\ All(<<a>>, S) <=> a \in S
         /\ Some(<<a>>, S) <=> a \in S
         /\ Before(<<a>>, S, T) <=> a \notin S
<1>1. Len(<<a>>) = 1 /\ <<a>>[1] = a /\ 1..1 = {1} /\ 1..(1 - 1) = {}
  OBVIOUS
<1> QED
  BY <1>1 DEF All, Some, Before

LEMMA Tuple2 ==
  ASSUME NEW a, NEW b, NEW S, NEW T
  PROVE  /\ All(<<a, b>>, S) <=> a \in S /\ b \in S
         /\ Some(<<a, b>>, S) <=> a \in S \/ b \in S
         /\ Before(<<a, b>>, S, T) <=> a \notin S /\ (b \in S => a \in T)
<1> DEFINE q == <<a, b>>
<1>1. Len(q) = 2 /\ q[1] = a /\ q[2] = b
  OBVIOUS
<1>2. 1..2 = {1, 2} /\ 1..(1 - 1) = {} /\ 1..(2 - 1) = {1}
  OBVIOUS
<1> HIDE DEF q
<1>3. /\ All(q, S) <=> a \in S /\ b \in S
      /\ Some(q, S) <=> a \in S \/ b \in S
  BY <1>1, <1>2 DEF All, Some
<1>4. Before(q, S, T) <=> a \notin S /\ (b \in S => a \in T)
  BY <1>1, <1>2 DEF Before
<1> QED
  BY <1>3, <1>4 DEF q

LEMMA Tuple3 ==
  ASSUME NEW a, NEW b, NEW c, NEW S, NEW T
  PROVE  /\ All(<<a, b, c>>, S) <=> a \in S /\ b \in S /\ c \in S
         /\ Some(<<a, b, c>>, S) <=> a \in S \/ b \in S \/ c \in S
         /\ Before(<<a, b, c>>, S, T) <=>
               a \notin S /\ (b \in S => a \in T) /\ (c \in S => a \in T \/ b \in T)
<1> DEFINE q == <<a, b, c>>
<1>1. Len(q) = 3 /\ q[1] = a /\ q[2] = b /\ q[3] = c
  OBVIOUS
<1>2. 1..3 = {1, 2, 3} /\ 1..(1 - 1) = {} /\ 1..(2 - 1) = {1} /\ 1..(3 - 1) = {1, 2}
  OBVIOUS
<1> HIDE DEF q
<1>3. /\ All(q, S) <=> a \in S /\ b \in S /\ c \in S
      /\ Some(q, S) <=> a \in S \/ b \in S \/ c \in S
  BY <1>1, <1>2 DEF All, Some
<1>4. Before(q, S, T) <=>
        a \notin S /\ (b \in S => a \in T) /\ (c \in S => a \in T \/ b \in T)
  BY <1>1, <1>2 DEF Before
<1> QED
  BY <1>3, <1>4 DEF q

LEMMA Tuple0 ==
  ASSUME NEW S, NEW T
  PROVE  All(<<>>, S) /\ ~Some(<<>>, S) /\ Before(<<>>, S, T)
BY DEF All, Some, Before

(***************************************************************************)
(* Whose lines are on the line.                                            *)
(***************************************************************************)
Own == [call |-> call, n |-> n]
Foreign == {l \in Lines : l.n = 0 /\ l.k # "READY"}
By(i) == {l \in Lines : l.n \in {0, i}}

(* Lines that end the wait for a result code with OK.                      *)
OkLines == {l \in Lines : \/ StrCode(l) = "OK"
                          \/ /\ call = "mtTxt" /\ ~mode.verbose
                             /\ TRUE \in MayEndInZero(l) /\ ~IsEvent(l)}

(* Commands are numbered in order; the current one is not received before  *)
(* it is written.                                                          *)
Numbers ==
  /\ \A i \in 1..Len(cmds) : cmds[i].n <= n
  /\ pc \in {"drain", "write"} => ~did /\ used = {} /\ \A i \in 1..Len(cmds) : cmds[i].n < n
  /\ pc # "idle" => n > 0

(* The calls that have a stage.                                            *)
CallsAt(p) ==
  CASE p = "code" -> {"setMo", "clear"}
    [] p \in {"data", "code2"} -> {"setMo"}
    [] p \in {"line1", "line2"} -> LineCalls
    [] p = "lines" -> {"rev"}
    [] p = "bin" -> {"getMt"}
    [] p \in {"head", "text"} -> {"mtTxt"}
    [] p = "last" -> {"setMo", "clear", "getMt", "mtTxt", "mtAlert", "evtReport"}
    [] p = "event" -> {"evt", "evtReport"}
    [] p = "idle" -> AllCalls
    [] p \in {"drain", "write", "echo"} -> Asked
StageCalls ==
  /\ call \in CallsAt(pc)
  /\ pc = "last" /\ call = "mtTxt" => mode.verbose

(* A command that started with nothing left to do is the only one there,   *)
(* and all lines are its own or events.                                    *)
Alone ==
  clean =>
    /\ call \in Asked /\ pc # "drain"
    /\ cmds \in {<<>>, <<Own>>}
    /\ All(wire, By(n)) /\ All(out, By(n)) /\ used \subseteq {n}

(* Before it is written there is nothing but events, or the rest of one.   *)
Begun ==
  clean /\ pc = "write" =>
    /\ mst = "idle" /\ cmds = <<>>
    /\ All(wire, Foreign)
    /\ ~Some(wire, OkLines)
    /\ ~mode.inside => wire = <<>>

BInv == Numbers /\ StageCalls /\ Alone /\ Begun

LEMMA InitB == Init => BInv
BY DEF Init, BInv, Numbers, StageCalls, CallsAt, AllCalls, Alone, Begun

LEMMA SameLines == UNCHANGED <<mode, call>> => OkLines' = OkLines
BY DEF OkLines, StrCode, MayEndInZero, Svca, IsEvent, Ring

(***************************************************************************)
(* The answers, spelled out.                                               *)
(***************************************************************************)
LEMMA AnswerShapes ==
  ASSUME NEW c \in Asked, NEW i \in Nat
  PROVE  \/ c = "setMo" /\ Answer(c, i) = <<Line("READY", 0, i)>>
         \/ c = "clear" /\ Answer(c, i) = <<Digit(0, i), Ok(i)>>
         \/ c = "sbdix" /\ Answer(c, i) = <<Line("SBDIX", 0, i), Ok(i)>>
         \/ c \in {"get", "query", "moToMt"} /\ Answer(c, i) = <<Line("TEXT", 0, i), Ok(i)>>
         \/ c = "rev" /\ Answer(c, i) = <<Line("TEXT", 0, i), Line("TEXT", 0, i), Ok(i)>>
         \/ c = "getMt" /\ Answer(c, i) = <<Line("BIN", 0, i), Ok(i)>>
         \/ /\ c = "mtTxt" /\ mode.verbose
            /\ Answer(c, i) = <<Line("HEAD", 0, i), Line("TEXT", 0, i), Ok(i)>>
         \/ /\ c = "mtTxt" /\ ~mode.verbose
            /\ Answer(c, i) = <<Line("HEAD", 0, i), Line("TEXT0", 0, i)>>
         \/ c \in {"mtAlert", "setTxt"} /\ Answer(c, i) = <<Ok(i)>>
         \/ c = "evtReport" /\ Answer(c, i) = <<Ok(i), Svca(msvca), Line("SIGQ", 0, 0)>>
<1>1. CASE c = "setMo"
  BY <1>1 DEF Answer
<1>2. CASE c = "clear"
  BY <1>2 DEF Answer
<1>3. CASE c = "sbdix"
  BY <1>3 DEF Answer
<1>4. CASE c \in {"get", "query", "moToMt"}
  BY <1>4 DEF Answer
<1>5. CASE c = "rev"
  BY <1>5 DEF Answer
<1>6. CASE c = "getMt"
  BY <1>6 DEF Answer
<1>7. CASE c = "mtTxt" /\ mode.verbose
  BY <1>7 DEF Answer
<1>8. CASE c = "mtTxt" /\ ~mode.verbose
  BY <1>8 DEF Answer
<1>9. CASE c \in {"mtAlert", "setTxt"}
  BY <1>9 DEF Answer
<1>10. CASE c = "evtReport"
  BY <1>10 DEF Answer
<1> QED
  BY <1>1, <1>2, <1>3, <1>4, <1>5, <1>6, <1>7, <1>8, <1>9, <1>10 DEF Asked, AllCalls

LEMMA RefusalShapes ==
  ASSUME NEW c, NEW i, NEW ls \in {<<Err(i)>>} \cup Refusals(c, i)
  PROVE  \/ ls = <<Err(i)>>
         \/ c \in {"setMo", "clear"} /\ ls = <<Digit(3, i), Ok(i)>>
         \/ c = "query" /\ ls = <<Line("TEXT", 3, i), Ok(i)>>
<1>1. CASE c \in {"setMo", "clear"}
  BY <1>1 DEF Refusals
<1>2. CASE c = "query"
  BY <1>2 DEF Refusals
<1>3. CASE c \notin {"setMo", "clear", "query"}
  BY <1>3 DEF Refusals
<1> QED
  BY <1>1, <1>2, <1>3

LEMMA OwnLines ==
  ASSUME NEW i \in Nat
  PROVE  /\ \A k \in LineKinds : Line(k, 0, i) \in By(i)
         /\ Line("TEXT", 3, i) \in By(i)
         /\ Ok(i) \in By(i) /\ Err(i) \in By(i) /\ \A v \in Values : Digit(v, i) \in By(i)
<1>1. /\ \A k \in LineKinds : Line(k, 0, i) \in By(i)
      /\ Line("TEXT", 3, i) \in By(i)
      /\ \A v \in Values : Digit(v, i) \in By(i)
  BY DEF By, Line, Digit, Lines, LineKinds, Values
<1>2. Ok(i) \in {Line("OK", 0, i), Digit(0, i)} /\ Err(i) \in {Line("ERROR", 0, i), Digit(4, i)}
  BY DEF Ok, Err
<1> QED
  BY <1>1, <1>2, SomeValues DEF LineKinds

LEMMA AnswerBy ==
  ASSUME TypeOK, NEW c \in Asked, NEW i \in Nat
  PROVE  All(Answer(c, i), By(i))
<1>1. /\ \A k \in LineKinds : Line(k, 0, i) \in By(i)
      /\ Ok(i) \in By(i) /\ Digit(0, i) \in By(i)
  BY OwnLines, SomeValues
<1>2. Svca(msvca) \in By(i) /\ Line("SIGQ", 0, 0) \in By(i)
  <2>1. Svca(msvca) \in Lines /\ Svca(msvca).n = 0
    BY EventType DEF TypeOK, Svca, Line
  <2>2. Line("SIGQ", 0, 0) \in Lines /\ Line("SIGQ", 0, 0).n = 0
    BY DEF Line, Lines, LineKinds
  <2> QED
    BY <2>1, <2>2 DEF By
<1>3. /\ Line("READY", 0, i) \in By(i) /\ Line("SBDIX", 0, i) \in By(i)
      /\ Line("TEXT", 0, i) \in By(i) /\ Line("BIN", 0, i) \in By(i)
      /\ Line("HEAD", 0, i) \in By(i) /\ Line("TEXT0", 0, i) \in By(i)
  BY <1>1 DEF LineKinds
<1> QED
  BY <1>1, <1>2, <1>3, AnswerShapes, Tuple1, Tuple2, Tuple3

LEMMA CodeTextShapes ==
  ASSUME NEW c, NEW i, NEW ls \in CodeTexts(c, i)
  PROVE  /\ c = "mtTxt" /\ mode.verbose /\ mode.codes
         /\ \/ ls = <<Line("HEAD", 0, i), Ok(i), Ok(i)>>
            \/ ls = <<Line("HEAD", 0, i), Err(i), Ok(i)>>
            \/ ls = <<Line("HEAD", 0, i), Ok(i)>>
BY DEF CodeTexts

LEMMA CodeTextBy ==
  ASSUME NEW c, NEW i \in Nat, NEW ls \in CodeTexts(c, i)
  PROVE  All(ls, By(i))
<1>1. Ok(i) \in By(i) /\ Err(i) \in By(i) /\ Line("HEAD", 0, i) \in By(i)
  BY OwnLines DEF LineKinds
<1> QED
  BY <1>1, CodeTextShapes, Tuple2, Tuple3

LEMMA RefusalBy ==
  ASSUME NEW c, NEW i \in Nat, NEW ls \in {<<Err(i)>>} \cup Refusals(c, i)
  PROVE  All(ls, By(i))
<1>1. Ok(i) \in By(i) /\ Err(i) \in By(i) /\ Digit(3, i) \in By(i) /\ Line("TEXT", 3, i) \in By(i)
  BY OwnLines, SomeValues
<1>2. \/ ls = <<Err(i)>>
      \/ ls = <<Digit(3, i), Ok(i)>>
      \/ ls = <<Line("TEXT", 3, i), Ok(i)>>
  BY RefusalShapes
<1> QED
  BY <1>1, <1>2, Tuple1, Tuple2

(* The answer after a message.                                             *)
LEMMA ClosingBy ==
  ASSUME NEW v \in Values, Head(cmds).n \in Nat
  PROVE  All(MessageAnswer(v), By(Head(cmds).n))
BY OwnLines, Tuple2 DEF MessageAnswer

(* An event is no answer, and does not end the wait for one with OK.       *)
LEMMA EventIsNoCode == \A l : IsEvent(l) => StrCode(l) = "UNK"
BY DEF IsEvent, Ring, Digit, Line, StrCode

LEMMA EventLine ==
  ASSUME IInv, NEW l, Event(l)
  PROVE  l \in Foreign /\ l \notin OkLines
<1>1. l \in Lines
  BY EventInv
<1>2. l.n = 0 /\ l.k # "READY" /\ IsEvent(l)
  <2>1. CASE l = Svca(1 - msvca)
    BY <2>1 DEF Svca, Line, IsEvent
  <2>2. CASE l = Ring
    BY <2>2 DEF Ring, Digit, Line, IsEvent
  <2> QED
    BY <2>1, <2>2 DEF Event
<1> QED
  BY <1>1, <1>2, EventIsNoCode DEF Foreign, OkLines

LEMMA RestLine ==
  ASSUME NEW l \in Lines, NEW rest \in Rests(l)
  PROVE  rest \in Foreign /\ (mode.verbose => rest \notin OkLines)
<1>1. rest.n = 0 /\ rest.k \in {"REST", "DIGIT"}
  BY DEF Rests, Line, Digit
<1>2. mode.verbose => StrCode(rest) # "OK"
  BY <1>1 DEF StrCode
<1> QED
  BY <1>1, <1>2, RestType DEF Foreign, OkLines

(***************************************************************************)
(* The thread reads.                                                       *)
(***************************************************************************)
ReadingStep == CheckEcho \/ ReadTimeout \/ AnswerStep \/ ReadBin \/ ReadEvent

(* A line that is too long ends the call, but not with OK.                 *)
LEMMA ReturnedOk ==
  ASSUME NEW l, NEW r, ReturnIfFits(l, r), res' = "OK"
  PROVE  r = "OK"
BY DEF ReturnIfFits, Return

LEMMA ReadingReads == IInv /\ mode' = mode /\ ReadingStep => ReadStep /\ UNCHANGED <<clean, did>>
BY EchoStep, TimeoutStep, AnswerStepReads, BinStep, EventStep DEF ReadingStep, ReadStep

(* The stages of a call follow each other.                                 *)
LEMMA FirstStageCalls ==
  ASSUME call \in Asked
  PROVE  call \in CallsAt(FirstStage) /\ ~(FirstStage = "last" /\ call = "mtTxt")
BY DEF FirstStage, CallsAt, Asked, AllCalls, LineCalls

LEMMA ReadingStages == IInv /\ StageCalls /\ mode' = mode /\ ReadingStep => StageCalls'
<1> SUFFICES ASSUME IInv, StageCalls, mode' = mode, ReadingStep PROVE StageCalls'
  OBVIOUS
<1>0. call' = call /\ call \in AllCalls
  BY ReadingReads DEF ReadStep, IInv, TypeOK
<1>1. CASE pc' = "idle"
  BY <1>0, <1>1 DEF StageCalls, CallsAt
<1>2. CASE CheckEcho
  <2>1. pc' = FirstStage /\ call \in Asked
    BY <1>2 DEF CheckEcho, StageCalls, CallsAt
  <2> QED
    BY <1>0, <2>1, FirstStageCalls DEF StageCalls
<1>3. CASE ReadTimeout /\ pc' # "idle"
  <2>1. \/ pc = "head" /\ pc' = "text"
        \/ /\ pc # "head" /\ pc' = "last"
           /\ \/ call = "setMo" /\ pc \in {"code", "code2"}
              \/ call = "mtTxt" /\ pc = "text" /\ mode.verbose
    BY <1>3 DEF ReadTimeout, Ignored, Return
  <2> QED
    BY <1>0, <2>1 DEF StageCalls, CallsAt
<1>4. CASE ReadCode /\ pc' # "idle"
  <2>1. pc = "code" /\ (pc' = "last" \/ (pc' = "data" /\ call = "setMo"))
    BY <1>4, Ended DEF ReadCode
  <2> QED
    BY <1>0, <2>1 DEF StageCalls, CallsAt
<1>5. CASE ReadCode2
  BY <1>0, <1>5 DEF ReadCode2, StageCalls, CallsAt
<1>6. CASE ReadLast /\ pc' # "idle"
  <2>1. pc' = "event" /\ call = "evtReport"
    BY <1>6 DEF ReadLast, Return
  <2> QED
    BY <1>0, <2>1 DEF StageCalls, CallsAt
<1>7. CASE ReadLine1 /\ pc' # "idle"
  <2>1. pc = "line1" /\ pc' = "line2"
    BY <1>7 DEF ReadLine1, Return
  <2> QED
    BY <1>0, <2>1 DEF StageCalls, CallsAt
<1>8. CASE ReadLine2
  <2>1. pc' = "idle"
    BY <1>8, Ended DEF ReadLine2
  <2> QED
    BY <1>1, <2>1
<1>9. CASE ReadLines /\ pc' # "idle"
  <2>1. pc' = pc
    BY <1>9, Ended DEF ReadLines, Return
  <2> QED
    BY <1>0, <2>1 DEF StageCalls, CallsAt
<1>10. CASE ReadHead
  BY <1>0, <1>10 DEF ReadHead, StageCalls, CallsAt
<1>11. CASE ReadText /\ pc' # "idle"
  <2>1. pc = "text" /\ pc' = "last" /\ mode.verbose
    BY <1>11, Ended DEF ReadText, Return
  <2> QED
    BY <1>0, <2>1 DEF StageCalls, CallsAt
<1>12. CASE ReadBin /\ pc' # "idle"
  <2>1. pc = "bin" /\ pc' = "last"
    BY <1>12 DEF ReadBin, Return
  <2> QED
    BY <1>0, <2>1 DEF StageCalls, CallsAt
<1>13. CASE ReadEvent /\ pc' # "idle"
  <2>1. pc' = pc
    BY <1>13, Ended DEF ReadEvent, Return
  <2> QED
    BY <1>0, <2>1 DEF StageCalls, CallsAt
<1> QED
  BY <1>1, <1>2, <1>3, <1>4, <1>5, <1>6, <1>7, <1>8, <1>9, <1>10, <1>11, <1>12, <1>13
     DEF ReadingStep, AnswerStep

(* What is read are lines of the command, as all that there is.            *)
LEMMA UsedOwn ==
  ASSUME NEW ls, All(ls, By(n)), used \subseteq {n}
  PROVE  used \cup Answers(ls) \subseteq {n}
BY DEF All, By, Answers

LEMMA ReadOwn ==
  ASSUME IInv, Read, All(wire, By(n)), used \subseteq {n}
  PROVE  All(Tail(wire), By(n)) /\ used \cup Answers(<<L>>) \subseteq {n}
<1>1. All(Tail(wire), By(n)) /\ L \in By(n)
  BY AllTail DEF Read, L, IInv, TypeOK
<1>2. All(<<L>>, By(n))
  BY <1>1, Tuple1
<1> QED
  BY <1>1, <1>2, UsedOwn

LEMMA SuffixOwn ==
  ASSUME IInv, NEW i \in 1..Len(wire), All(wire, By(n)), used \subseteq {n}
  PROVE  /\ All(SubSeq(wire, i + 1, Len(wire)), By(n)) /\ All(RestOf(i), By(n))
         /\ used \cup Answers(SubSeq(wire, 1, i)) \subseteq {n}
<1>1. wire \in Seq(Lines) /\ Len(wire) \in Nat
  BY LenProperties DEF IInv, TypeOK
<1>2. All(SubSeq(wire, i + 1, Len(wire)), By(n))
  <2>1. /\ Len(SubSeq(wire, i + 1, Len(wire))) = Len(wire) - i
        /\ \A j \in 1..(Len(wire) - i) : SubSeq(wire, i + 1, Len(wire))[j] = wire[i + j]
    BY <1>1
  <2> QED
    BY <1>1, <2>1 DEF All
<1>3. All(SubSeq(wire, 1, i), By(n))
  <2>1. /\ Len(SubSeq(wire, 1, i)) = i
        /\ \A j \in 1..i : SubSeq(wire, 1, i)[j] = wire[j]
    BY <1>1
  <2> QED
    BY <1>1, <2>1 DEF All
<1>4. All(RestOf(i), By(n))
  <2>1. wire[i] \in By(n)
    BY DEF All
  <2>2. Line("REST", 0, wire[i].n) \in By(n)
    BY <2>1 DEF By, Line, Lines, LineKinds
  <2>3. \A j \in (i + 1)..Len(wire) : wire[j] \in Lines
    BY <1>1, ElementOfSeq
  <2>4. SubSeq(wire, i + 1, Len(wire)) \in Seq(Lines)
    BY <1>1, <2>3, SubSeqProperties
  <2> QED
    BY <1>2, <2>2, <2>4, AllCons DEF By, RestOf
<1> QED
  BY <1>2, <1>3, <1>4, UsedOwn

LEMMA ReadingOwn ==
  ASSUME IInv, mode' = mode, ReadingStep, All(wire, By(n)), used \subseteq {n}
  PROVE  All(wire', By(n)) /\ used' \subseteq {n}
<1>1. CASE UNCHANGED <<wire, used>>
  BY <1>1
<1>2. CASE Read /\ used' = used \cup Answers(<<L>>)
  BY <1>2, ReadOwn DEF Read
<1>3. CASE \E i \in 1..Len(wire) :
             /\ wire' \in {RestOf(i), SubSeq(wire, i + 1, Len(wire))}
             /\ used' = used \cup Answers(SubSeq(wire, 1, i))
  BY <1>3, SuffixOwn
<1> QED
  BY <1>1, <1>2, <1>3, AnswerFrame
     DEF ReadingStep, CheckEcho, ReadTimeout, ReadBin, BinOverflow, RestOf, ReadEvent, AsAnswer

LEMMA ReadingB == IInv /\ BInv /\ mode' = mode /\ ReadingStep => BInv'
<1> SUFFICES ASSUME IInv, BInv, mode' = mode, ReadingStep PROVE BInv'
  OBVIOUS
<1>1. /\ UNCHANGED <<call, n, clean, did, cmds, out>>
      /\ pc' \notin {"drain", "write"} /\ pc # "idle"
  <2>1. pc # "idle"
    BY DEF ReadingStep, CheckEcho, ReadTimeout, Reading, AnswerStep, ReadCode, ReadCode2, ReadLast,
           ReadLine1, ReadLine2, ReadLines, ReadHead, ReadText, ReadBin, ReadEvent
  <2> QED
    BY <2>1, ReadingReads DEF ReadStep, NextStages
<1>2. Numbers'
  BY <1>1 DEF BInv, Numbers
<1>3. StageCalls'
  BY ReadingStages DEF BInv
<1>4. Alone'
  <2>1. clean => All(wire', By(n)) /\ used' \subseteq {n}
    BY ReadingOwn DEF BInv, Alone
  <2> QED
    BY <1>1, <2>1 DEF BInv, Alone, Own, By
<1> QED
  BY <1>1, <1>2, <1>3, <1>4 DEF BInv, Begun

(***************************************************************************)
(* The other steps.                                                        *)
(***************************************************************************)
(* Where the thread waits for the answer of a command.                     *)
Waiting == pc \notin {"idle", "drain", "write"}

LEMMA CallB == IInv /\ BInv /\ mode' = mode /\ Call => BInv'
<1> SUFFICES ASSUME IInv, BInv, mode' = mode, Call PROVE BInv'
  OBVIOUS
<1>1. /\ pc = "idle" /\ n' = n + 1 /\ call' \in Calls
      /\ pc' = IF call' = "evt" THEN "event" ELSE "drain"
      /\ clean' = FALSE /\ did' = FALSE /\ used' = {} /\ UNCHANGED <<cmds>>
  BY DEF Call, modem
<1>2. Numbers'
  <2>1. n \in Nat /\ \A i \in 1..Len(cmds) : cmds[i].n <= n /\ cmds[i].n \in Nat
    <3>1. cmds \in Seq([call : Asked, n : Nat])
      BY DEF IInv, Sending
    <3>2. \A i \in 1..Len(cmds) : cmds[i] \in [call : Asked, n : Nat]
      BY <3>1, ElementOfSeq
    <3> QED
      BY <3>2 DEF IInv, TypeOK, BInv, Numbers
  <2> QED
    BY <1>1, <2>1 DEF Numbers
<1>3. StageCalls'
  BY <1>1, LinkAssumption DEF StageCalls, CallsAt, Asked
<1> QED
  BY <1>1, <1>2, <1>3 DEF BInv, Alone, Begun

LEMMA UrcB == IInv /\ BInv /\ mode' = mode /\ Urc => BInv'
<1> SUFFICES ASSUME IInv, BInv, mode' = mode, Urc PROVE BInv'
  OBVIOUS
<1>1. UNCHANGED <<pc, call, n, mst, cmds, out, clean, did, used>>
  BY DEF Urc, dte
<1>2. PICK l : Event(l) /\ wire' = Append(wire, l)
  BY DEF Urc
<1>3. l \in Foreign /\ l \in Lines /\ wire \in Seq(Lines)
  BY <1>2, EventLine DEF Foreign, IInv, TypeOK
<1>4. Alone'
  <2>1. l \in By(n)
    BY <1>3 DEF By, Foreign
  <2>2. clean => All(wire', By(n))
    BY <1>2, <1>3, <2>1, AllAppend DEF BInv, Alone
  <2> QED
    BY <1>1, <2>2 DEF BInv, Alone, Own, By
<1>5. Begun'
  <2> SUFFICES ASSUME clean, pc = "write"
               PROVE  /\ All(wire', Foreign) /\ mode.inside
                      /\ ~Some(wire', OkLines)
    BY <1>1, SameLines DEF BInv, Begun, Foreign
  <2>1. All(wire', Foreign)
    BY <1>2, <1>3, AllAppend DEF BInv, Begun
  <2>2. ~Some(wire', OkLines)
    BY <1>2, <1>3, EventLine, SomeAppend DEF BInv, Begun
  <2> QED
    BY <2>1, <2>2 DEF Urc
<1> QED
  BY <1>1, <1>4, <1>5 DEF BInv, Numbers, StageCalls

LEMMA ExecuteB == IInv /\ BInv /\ mode' = mode /\ Execute => BInv'
<1> SUFFICES ASSUME IInv, BInv, mode' = mode, Execute PROVE BInv'
  OBVIOUS
<1>1. /\ mst = "idle" /\ cmds # <<>>
      /\ UNCHANGED <<wire, pc, call, n, cmds, clean, used>>
  BY DEF Execute, dte
<1>2. PICK c, i : c = Head(cmds).call /\ i = Head(cmds).n
  OBVIOUS
<1>3. c \in Asked /\ i \in Nat /\ 1 \in 1..Len(cmds) /\ Head(cmds) = cmds[1]
  <2>1. cmds \in Seq([call : Asked, n : Nat])
    BY DEF IInv, Sending
  <2>2. Head(cmds) \in [call : Asked, n : Nat]
    BY <1>1, <2>1, HeadTailProperties
  <2>3. 1 \in 1..Len(cmds) /\ Head(cmds) = cmds[1]
    BY <1>1, <2>1
  <2> QED
    BY <1>2, <2>2, <2>3
<1>4. /\ \/ out' = Answer(c, i)
         \/ out' \in CodeTexts(c, i)
         \/ out' \in {<<Err(i)>>} \cup Refusals(c, i)
      /\ did' = did \/ did' = (did \/ (i = n /\ c # "setMo"))
  BY <1>2 DEF Execute
<1>5. Numbers'
  <2>1. pc \in {"drain", "write"} => i # n
    <3>1. pc \in {"drain", "write"} => cmds[1].n < n
      BY <1>3 DEF BInv, Numbers
    <3>2. n \in Nat /\ i = cmds[1].n
      BY <1>2, <1>3 DEF IInv, TypeOK
    <3> QED
      BY <1>3, <3>1, <3>2
  <2>2. pc \in {"drain", "write"} => ~did'
    <3>1. pc \in {"drain", "write"} => ~did
      BY DEF BInv, Numbers
    <3> QED
      BY <1>4, <2>1, <3>1
  <2> QED
    BY <1>1, <2>2 DEF BInv, Numbers
<1>6. Alone'
  <2> SUFFICES ASSUME clean PROVE All(out', By(n))
    BY <1>1 DEF BInv, Alone, Own, By
  <2>1. i = n
    BY <1>1, <1>2, <1>3 DEF BInv, Alone, Own
  <2> QED
    BY <1>3, <1>4, <2>1, AnswerBy, CodeTextBy, RefusalBy DEF IInv
<1> QED
  BY <1>1, <1>5, <1>6 DEF BInv, StageCalls, Begun

(* The line that comes is the modem's next one, or an event.               *)
Next1 == IF Head(out).k = "SVCA" THEN Svca(msvca) ELSE Head(out)

LEMMA EmitLine ==
  ASSUME IInv, out # <<>>
  PROVE  Next1 \in Lines /\ Head(out) \in Lines /\ (Next1 = Head(out) \/ (Next1.k = "SVCA" /\ Next1.n = 0))
BY EventType, HeadTailProperties DEF IInv, TypeOK, Next1, Svca, Line

LEMMA EmitB == IInv /\ BInv /\ mode' = mode /\ Emit => BInv'
<1> SUFFICES ASSUME IInv, BInv, mode' = mode, Emit PROVE BInv'
  OBVIOUS
<1>1. /\ out # <<>> /\ out' = Tail(out) /\ wire' = Append(wire, Next1)
      /\ UNCHANGED <<pc, call, n, clean, did, used>>
      /\ cmds' = cmds \/ cmds' = Tail(cmds)
  BY DEF Emit, dte, Next1
<1>2. out \in Seq(Lines) /\ wire \in Seq(Lines) /\ mst = "exec" /\ cmds # <<>>
  BY <1>1 DEF IInv, TypeOK, Sending
<1>3. ASSUME NEW i \in 1..Len(cmds') PROVE \E j \in 1..Len(cmds) : cmds'[i] = cmds[j]
  <2>1. cmds \in Seq([call : Asked, n : Nat])
    BY DEF IInv, Sending
  <2>2. cmds' = Tail(cmds) => i + 1 \in 1..Len(cmds) /\ cmds'[i] = cmds[i + 1]
    BY <1>2, <2>1, HeadTailProperties, EmptySeq, LenProperties
  <2> QED
    BY <1>1, <2>2
<1>4. Numbers'
  BY <1>1, <1>3 DEF BInv, Numbers
<1>5. Alone'
  <2> SUFFICES ASSUME clean PROVE cmds' \in {<<>>, <<Own>>} /\ All(wire', By(n)) /\ All(out', By(n))
    BY <1>1 DEF BInv, Alone, Own, By
  <2>1. cmds' \in {<<>>, <<Own>>}
    <3>1. cmds = <<Own>>
      BY <1>2 DEF BInv, Alone
    <3>2. Tail(<<Own>>) = <<>>
      OBVIOUS
    <3> QED
      BY <1>1, <3>1, <3>2
  <2>2. All(out', By(n)) /\ Head(out) \in By(n)
    BY <1>1, <1>2, AllTail DEF BInv, Alone
  <2>3. Next1 \in By(n)
    BY <1>1, <2>2, EmitLine DEF By
  <2> QED
    BY <1>1, <1>2, <2>1, <2>2, <2>3, EmitLine, AllAppend DEF BInv, Alone
<1>6. clean => pc # "write"
  BY <1>2 DEF BInv, Begun
<1> QED
  BY <1>1, <1>4, <1>5, <1>6 DEF BInv, StageCalls, Begun

(* A message ends, or none comes.                                          *)
LEMMA ClosingAlone ==
  ASSUME IInv, Alone, mst = "data", clean, NEW v \in Values
  PROVE  All(MessageAnswer(v), By(n)) /\ Head(cmds).n = n
<1>1. Head(cmds).n = n
  <2>1. cmds = <<Own>>
    BY DEF Alone, IInv, TypeOK
  <2> QED
    BY <2>1 DEF Own
<1> QED
  BY <1>1, ClosingBy DEF IInv, TypeOK

LEMMA DataTimeoutB == IInv /\ BInv /\ mode' = mode /\ DataTimeout => BInv'
<1> SUFFICES ASSUME IInv, BInv, mode' = mode, DataTimeout PROVE BInv'
  OBVIOUS
<1>1. /\ mst = "data" /\ out' = MessageAnswer(1)
      /\ UNCHANGED <<wire, pc, call, n, cmds, clean, did, used>>
  BY DEF DataTimeout, dte, MessageAnswer
<1>2. clean => All(out', By(n))
  BY <1>1, ClosingAlone, SomeValues DEF BInv
<1>3. clean => pc # "write"
  BY <1>1 DEF BInv, Begun
<1> QED
  BY <1>1, <1>2, <1>3 DEF BInv, Numbers, StageCalls, Alone, Begun, Own, By

LEMMA DrainB == IInv /\ BInv /\ mode' = mode /\ DrainWire => BInv'
<1> SUFFICES ASSUME IInv, BInv, mode' = mode, DrainWire PROVE BInv'
  OBVIOUS
<1>1. /\ pc = "drain" /\ pc' = "write"
      /\ UNCHANGED <<call, n, mst, cmds, out, did, used>>
  BY DEF DrainWire
<1>2. \/ wire' = <<>> /\ (clean' <=> mst = "idle" /\ cmds = <<>>)
      \/ /\ clean' <=> mode.verbose /\ mst = "idle" /\ cmds = <<>>
         /\ mode.inside
         /\ \E l : Event(l) /\ \E rest \in Rests(l) : wire' = Append(<<>>, rest)
  BY DEF DrainWire, CutEvent, Drained
<1>3. Numbers' /\ StageCalls'
  BY <1>1 DEF BInv, Numbers, StageCalls, CallsAt
<1> SUFFICES ASSUME clean' PROVE Alone' /\ Begun'
  BY <1>3 DEF BInv, Alone, Begun
<1>4. mst = "idle" /\ cmds = <<>> /\ out = <<>>
  BY <1>2 DEF IInv, Sending
<1>5. All(wire', Foreign) /\ ~Some(wire', OkLines) /\ (~mode.inside => wire' = <<>>)
  <2>1. CASE wire' = <<>>
    BY <2>1, Tuple0
  <2>2. ASSUME NEW l, Event(l), NEW rest \in Rests(l), wire' = Append(<<>>, rest),
               mode.verbose, mode.inside
        PROVE  All(wire', Foreign) /\ ~Some(wire', OkLines)
    <3>1. rest \in Foreign /\ rest \notin OkLines
      BY <2>2, EventInv, RestLine
    <3>2. wire' = <<rest>>
      BY <2>2
    <3> QED
      BY <3>1, <3>2, Tuple1
  <2> QED
    BY <1>2, <2>1, <2>2
<1>6. All(wire', By(n)) /\ All(out, By(n))
  BY <1>4, <1>5, Tuple0 DEF All, By, Foreign
<1>7. Alone'
  BY <1>1, <1>4, <1>6 DEF BInv, Numbers, StageCalls, CallsAt, Alone, Own, By
<1>8. Begun'
  BY <1>1, <1>4, <1>5, SameLines DEF Begun, Foreign
<1> QED
  BY <1>7, <1>8

(* A command that starts with nothing left to do is received as the first. *)
LEMMA CleanReceived ==
  ASSUME IInv, BInv, pc = "write", clean, Receive(call)
  PROVE  mst = "idle" /\ cmds' = <<Own>> /\ out' = <<>> /\ out = <<>> /\ mst' = "idle"
<1>1. mst = "idle" /\ cmds = <<>> /\ out = <<>>
  BY DEF BInv, Begun, IInv, Sending
<1> QED
  BY <1>1 DEF Receive, Own

LEMMA WriteB == IInv /\ BInv /\ mode' = mode /\ WriteCmd => BInv'
<1> SUFFICES ASSUME IInv, BInv, mode' = mode, WriteCmd PROVE BInv'
  OBVIOUS
<1>1. /\ pc = "write" /\ call \in Asked
      /\ UNCHANGED <<call, n, clean, did, used>>
  BY DEF WriteCmd, IInv, OwnStages
<1>2. CASE pc' = "idle" /\ UNCHANGED <<wire, mst, cmds, out>>
  BY <1>1, <1>2 DEF BInv, Numbers, StageCalls, CallsAt, Alone, Begun, Own, By, IInv, TypeOK
<1>3. CASE /\ Receive(call)
           /\ wire' = IF mode.echo /\ mst # "data" THEN Append(wire, Line("ECHO", 0, n)) ELSE wire
           /\ pc' = IF mode.echo THEN "echo" ELSE FirstStage
  <2>1. Numbers'
    <3>1. n \in Nat /\ n > 0
      BY <1>1 DEF IInv, TypeOK, BInv, Numbers
    <3>2. ASSUME NEW i \in 1..Len(cmds') PROVE cmds'[i].n <= n
      <4>1. CASE cmds' = cmds
        BY <4>1, <3>2 DEF BInv, Numbers
      <4>2. CASE cmds' = Append(cmds, [call |-> call, n |-> n])
        <5>1. cmds \in Seq([call : Asked, n : Nat]) /\ Len(cmds) \in Nat
          BY LenProperties DEF IInv, Sending
        <5>2. cmds'[i] \in {cmds[j] : j \in 1..Len(cmds)} \cup {[call |-> call, n |-> n]}
          BY <4>2, <3>2, <5>1
        <5> QED
          BY <3>1, <5>2 DEF BInv, Numbers
      <4> QED
        BY <1>3, <4>1, <4>2 DEF Receive
    <3>3. pc' \notin {"drain", "write"}
      BY <1>1, <1>3, FirstStages
    <3> QED
      BY <1>1, <3>1, <3>2, <3>3 DEF Numbers
  <2>2. StageCalls'
    BY <1>1, <1>3, FirstStageCalls DEF StageCalls, CallsAt
  <2>3. Alone'
    <3> SUFFICES ASSUME clean PROVE pc' # "drain" /\ cmds' \in {<<>>, <<Own>>}
                                    /\ All(wire', By(n)) /\ All(out', By(n))
      BY <1>1 DEF BInv, Alone, Own, By
    <3>1. Line("ECHO", 0, n) \in By(n) /\ Line("ECHO", 0, n) \in Lines
      BY OwnLines DEF LineKinds, IInv, TypeOK, By
    <3>2. wire \in Seq(Lines) /\ All(wire, By(n))
      BY DEF IInv, TypeOK, BInv, Alone
    <3>3. All(wire', By(n))
      BY <1>3, <3>1, <3>2, AllAppend
    <3>4. cmds' = <<Own>> /\ All(out', By(n)) /\ pc' # "drain"
      BY <1>1, <1>3, CleanReceived, Tuple0, FirstStages
    <3> QED
      BY <3>3, <3>4
  <2>4. pc' # "write"
    BY <1>1, <1>3, FirstStages
  <2> QED
    BY <2>1, <2>2, <2>3, <2>4 DEF BInv, Begun
<1> QED
  BY <1>2, <1>3 DEF WriteCmd, Return

LEMMA WriteDataB == IInv /\ BInv /\ mode' = mode /\ WriteData => BInv'
<1> SUFFICES ASSUME IInv, BInv, mode' = mode, WriteData PROVE BInv'
  OBVIOUS
<1>1. /\ pc = "data" /\ pc' = "code2"
      /\ UNCHANGED <<wire, call, n, cmds, clean, used>>
  BY DEF WriteData
<1>2. \/ out' = out
      \/ mst = "data" /\ \E v \in Values : out' = MessageAnswer(v)
  BY SomeValues DEF WriteData, MessageAnswer
<1>3. clean => All(out', By(n))
  BY <1>2, ClosingAlone DEF BInv, Alone
<1> QED
  BY <1>1, <1>3 DEF BInv, Numbers, StageCalls, CallsAt, Alone, Begun, Own, By

(* The steps, by what they read.                                           *)
LEMMA Steps ==
  [Next]_vars =>
    \/ /\ mode' = mode
       /\ \/ Call \/ Urc \/ Execute \/ Emit \/ DataTimeout
          \/ DrainWire \/ WriteCmd \/ WriteData \/ ReadingStep
    \/ UNCHANGED vars
BY DEF Next, Start, DteStep, ModemStep, ReadingStep, AnswerStep

LEMMA StepB == IInv /\ BInv /\ [Next]_vars => BInv'
<1>1. BInv /\ UNCHANGED vars => BInv'
  BY SameLines DEF vars, modem, dte, BInv, Numbers, StageCalls, Alone, Begun, Own, By, Foreign
<1> QED
  BY <1>1, Steps, CallB, UrcB, ExecuteB, EmitB, DataTimeoutB, DrainB, WriteB, WriteDataB, ReadingB

(***************************************************************************)
(* OK comes after the command is done.                                     *)
(***************************************************************************)
(* The lines that tell a refusal in front of the result code OK.           *)
Refused(c) ==
  CASE c \in {"setMo", "clear"} -> {l \in Lines : l.k = "DIGIT" /\ l.v \in 1..3 /\ l.n # 0}
    [] c = "query" -> {l \in Lines : l.k = "TEXT" /\ l.v = 3 /\ l.n # 0}
    [] OTHER -> {}

(* One of them was read, and the call will not return OK.                  *)
ToldRefusal ==
  \/ call = "query" /\ pc = "line2" /\ QueryResult # "OK"
  \/ call \in {"setMo", "clear"} /\ pc = "last" /\ code \notin {-1, 0}

OkComesLast ==
  clean /\ Waiting /\ ~did =>
    ToldRefusal \/ Guarded(wire, out, OkLines, Refused(call))

(* Only events are in front of the echo.                                   *)
EchoFirst ==
  clean /\ pc = "echo" =>
    \E j \in 1..Len(wire) : wire[j].k = "ECHO" /\ \A i \in 1..(j - 1) : wire[i].n = 0

(* Only the answer to AT+CIER has an SVCA event in it.                     *)
NotSvca == {l \in Lines : l.k # "SVCA"}
Calm == clean /\ call # "evtReport" => All(out, NotSvca)

EventsAfterOk == clean /\ pc = "event" /\ call = "evtReport" => did

OInv == EchoFirst /\ Calm /\ OkComesLast /\ EventsAfterOk /\ OkMeansDone

LEMMA InitO == Init => OInv
BY DEF Init, OInv, EchoFirst, Calm, OkComesLast, EventsAfterOk, OkMeansDone, Returned

LEMMA RefusedType ==
  ASSUME NEW c
  PROVE  \A l \in Refused(c) : /\ l \in Lines /\ l.n # 0 /\ l.k \in {"DIGIT", "TEXT"}
                               /\ l.k = "TEXT" => c = "query" /\ l.v = 3
                               /\ l.k = "DIGIT" => c \in {"setMo", "clear"} /\ l.v \in 1..3
                               /\ StrCode(l) = "UNK"
<1>1. CASE c \in {"setMo", "clear"}
  BY <1>1 DEF Refused, StrCode
<1>2. CASE c = "query"
  BY <1>2 DEF Refused, StrCode
<1>3. CASE c \notin {"setMo", "clear", "query"}
  BY <1>3 DEF Refused
<1> QED
  BY <1>1, <1>2, <1>3

LEMMA RefusedCalls == \A c : Refused(c) # {} => c \in {"setMo", "clear", "query"}
BY DEF Refused

LEMMA RefusedDigits ==
  \A c \in {"setMo", "clear"}, v \in 1..3, i \in Nat \ {0} : Digit(v, i) \in Refused(c)
<1> SUFFICES ASSUME NEW c \in {"setMo", "clear"}, NEW v \in 1..3, NEW i \in Nat \ {0}
             PROVE  Digit(v, i) \in Refused(c)
  OBVIOUS
<1>1. Refused(c) = {l \in Lines : l.k = "DIGIT" /\ l.v \in 1..3 /\ l.n # 0}
  BY DEF Refused
<1>2. Digit(v, i) \in Lines
  BY DEF Digit, Line, Lines, LineKinds
<1> QED
  BY <1>1, <1>2 DEF Digit, Line

(* The kinds of lines that OK may be read from.                            *)
LEMMA OkKinds ==
  ASSUME NEW l \in OkLines
  PROVE  \/ l.k = "OK"
         \/ l.k = "DIGIT" /\ l.v = 0
         \/ /\ call = "mtTxt" /\ ~mode.verbose
            /\ l.k \in {"TEXT0", "TEXT", "BIN", "SBDIX", "REST"}
<1>1. StrCode(l) = "OK" => l.k = "OK" \/ (l.k = "DIGIT" /\ l.v = 0)
  BY DEF StrCode
<1>2. Svca(0).k = "SVCA"
  BY DEF Svca, Line
<1>3. TRUE \in MayEndInZero(l) /\ ~IsEvent(l) => l.k \in {"TEXT0", "TEXT", "BIN", "SBDIX", "REST"}
  BY <1>2 DEF MayEndInZero, IsEvent
<1> QED
  BY <1>1, <1>3 DEF OkLines

LEMMA LineFields ==
  \A k, v, i : Line(k, v, i).k = k /\ Line(k, v, i).v = v /\ Line(k, v, i).n = i
BY DEF Line

(* A refusal has OK only after its code, the prompt for a message none.    *)
LEMMA RefusalGuarded ==
  ASSUME call \in Asked, NEW i \in Nat \ {0}, NEW ls \in {<<Err(i)>>} \cup Refusals(call, i)
  PROVE  Before(ls, OkLines, Refused(call))
<1>1. CASE ls = <<Err(i)>>
  <2>1. Err(i) \notin OkLines
    BY OkKinds, LineFields DEF Err, Digit
  <2> QED
    BY <1>1, <2>1, Tuple1
<1>2. CASE call \in {"setMo", "clear"} /\ ls = <<Digit(3, i), Ok(i)>>
  <2>1. Digit(3, i) \in Refused(call)
    BY <1>2, RefusedDigits
  <2>2. Digit(3, i) \notin OkLines
    BY OkKinds, LineFields DEF Digit
  <2> QED
    BY <1>2, <2>1, <2>2, Tuple2
<1>3. CASE call = "query" /\ ls = <<Line("TEXT", 3, i), Ok(i)>>
  <2>1. Line("TEXT", 3, i) \in Refused(call)
    BY <1>3 DEF Refused, Line, Lines, LineKinds
  <2>2. Line("TEXT", 3, i) \notin OkLines
    BY <1>3, OkKinds, LineFields
  <2> QED
    BY <1>3, <2>1, <2>2, Tuple2
<1> QED
  BY <1>1, <1>2, <1>3, RefusalShapes

LEMMA PromptGuarded ==
  ASSUME call = "setMo", NEW i, NEW T
  PROVE  Before(Answer(call, i), OkLines, T)
<1>1. Answer(call, i) = <<Line("READY", 0, i)>>
  BY DEF Answer
<1>2. Line("READY", 0, i) \notin OkLines
  BY OkKinds, LineFields
<1> QED
  BY <1>1, <1>2, Tuple1

LEMMA ClosingGuarded ==
  ASSUME call = "setMo", NEW v \in 1..3, Head(cmds).n \in Nat \ {0}
  PROVE  Before(MessageAnswer(v), OkLines, Refused(call))
<1>1. Digit(v, Head(cmds).n) \in Refused(call)
  BY RefusedDigits
<1>2. Digit(v, Head(cmds).n) \notin OkLines
  BY OkKinds, LineFields DEF Digit
<1> QED
  BY <1>1, <1>2, Tuple2 DEF MessageAnswer

(* What does not move the thread, and moves no lines.                      *)
LEMMA SameTold == UNCHANGED <<mode, call, pc, text, code>> => (ToldRefusal <=> ToldRefusal')
BY DEF ToldRefusal, QueryResult

LEMMA EchoFirstAppend ==
  ASSUME wire \in Seq(Lines), NEW l \in Lines, EchoFirst, wire' = Append(wire, l), UNCHANGED <<pc, clean>>
  PROVE  EchoFirst'
<1> SUFFICES ASSUME clean, pc = "echo"
             PROVE  \E j \in 1..Len(wire') : wire'[j].k = "ECHO" /\ \A i \in 1..(j - 1) : wire'[i].n = 0
  BY DEF EchoFirst
<1>1. PICK j \in 1..Len(wire) : wire[j].k = "ECHO" /\ \A i \in 1..(j - 1) : wire[i].n = 0
  BY DEF EchoFirst
<1>2. /\ Len(wire) \in Nat /\ Len(wire') = Len(wire) + 1
      /\ \A i \in 1..Len(wire) : wire'[i] = wire[i]
  BY Appended
<1>3. j \in 1..Len(wire') /\ \A i \in 1..(j - 1) : i \in 1..Len(wire)
  BY <1>2
<1> QED
  BY <1>1, <1>2, <1>3

(* What the steps keep when they do not move the thread.                   *)
LEMMA OkComesLastSame ==
  ASSUME OkComesLast, UNCHANGED <<mode, call, pc, text, code, clean>>,
         ~did' => ~did,
         clean /\ Waiting /\ ~did' /\ Guarded(wire, out, OkLines, Refused(call))
           => Guarded(wire', out', OkLines, Refused(call))
  PROVE  OkComesLast'
<1> SUFFICES ASSUME clean, Waiting, ~did'
             PROVE  ToldRefusal \/ Guarded(wire', out', OkLines, Refused(call))
  BY SameLines, SameTold DEF OkComesLast, Waiting
<1> QED
  BY DEF OkComesLast

LEMMA CallO == IInv /\ BInv /\ OInv /\ mode' = mode /\ Call => OInv'
BY DEF Call, OInv, EchoFirst, Calm, OkComesLast, EventsAfterOk, OkMeansDone

LEMMA UrcO == IInv /\ BInv /\ OInv /\ mode' = mode /\ Urc => OInv'
<1> SUFFICES ASSUME IInv, BInv, OInv, mode' = mode, Urc PROVE OInv'
  OBVIOUS
<1>1. UNCHANGED <<pc, call, n, text, code, res, mst, cmds, out, clean, did>>
  BY DEF Urc, dte
<1>2. PICK l : Event(l) /\ wire' = Append(wire, l)
  BY DEF Urc
<1>3. l \in Foreign /\ l \in Lines /\ wire \in Seq(Lines)
  BY <1>2, EventLine DEF Foreign, IInv, TypeOK
<1>4. EchoFirst'
  BY <1>1, <1>2, <1>3, EchoFirstAppend DEF OInv
<1>5. OkComesLast'
  <2>1. ASSUME Guarded(wire, out, OkLines, Refused(call))
        PROVE  Guarded(wire', out', OkLines, Refused(call))
    <3>1. l \notin OkLines
      BY <1>2, EventLine
    <3> QED
      BY <1>1, <1>2, <1>3, <2>1, <3>1, GuardedAppend
  <2> QED
    BY <1>1, <2>1, OkComesLastSame DEF OInv
<1> QED
  BY <1>1, <1>4, <1>5 DEF OInv, Calm, NotSvca, EventsAfterOk, OkMeansDone, Returned, EventTakenForText, IsEvent, Ring

(* What a command that started with nothing left to do is answered.        *)
LEMMA CleanExecuted ==
  ASSUME IInv, BInv, clean, Execute
  PROVE  /\ Waiting \/ pc = "idle"
         /\ cmds = <<Own>> /\ n \in Nat /\ out = <<>> /\ UNCHANGED <<cmds, wire>>
         /\ \/ out' = Answer(call, n) /\ did' = (did \/ call # "setMo")
            \/ out' \in CodeTexts(call, n) /\ did' = (did \/ call # "setMo")
            \/ out' \in {<<Err(n)>>} \cup Refusals(call, n) /\ did' = did
<1>1. cmds # <<>> /\ mst = "idle" /\ UNCHANGED <<wire, cmds>>
  BY DEF Execute
<1>2. cmds = <<Own>> /\ Head(cmds) = Own /\ out = <<>> /\ pc # "drain" /\ pc # "write" /\ n \in Nat
  BY <1>1 DEF BInv, Alone, Begun, IInv, Sending, TypeOK
<1> QED
  BY <1>1, <1>2 DEF Execute, Own, Waiting

LEMMA AnswerCalm ==
  ASSUME NEW c \in Asked, c # "evtReport", NEW i \in Nat
  PROVE  /\ All(Answer(c, i), NotSvca)
         /\ \A ls \in CodeTexts(c, i) : All(ls, NotSvca)
         /\ \A ls \in {<<Err(i)>>} \cup Refusals(c, i) : All(ls, NotSvca)
<1>1. /\ \A k \in LineKinds \ {"SVCA"} : Line(k, 0, i) \in NotSvca
      /\ Line("TEXT", 3, i) \in NotSvca
      /\ \A v \in Values : Digit(v, i) \in NotSvca
  BY DEF NotSvca, Line, Digit, Lines, LineKinds, Values
<1>2. Ok(i) \in NotSvca /\ Err(i) \in NotSvca
  <2>1. Ok(i) \in {Line("OK", 0, i), Digit(0, i)} /\ Err(i) \in {Line("ERROR", 0, i), Digit(4, i)}
    BY DEF Ok, Err
  <2> QED
    BY <1>1, <2>1, SomeValues DEF LineKinds
<1>3. /\ Line("READY", 0, i) \in NotSvca /\ Line("SBDIX", 0, i) \in NotSvca
      /\ Line("TEXT", 0, i) \in NotSvca /\ Line("BIN", 0, i) \in NotSvca
      /\ Line("HEAD", 0, i) \in NotSvca /\ Line("TEXT0", 0, i) \in NotSvca
      /\ Digit(0, i) \in NotSvca /\ Digit(3, i) \in NotSvca
  BY <1>1, SomeValues DEF LineKinds
<1>4. All(Answer(c, i), NotSvca)
  BY <1>2, <1>3, AnswerShapes, Tuple1, Tuple2, Tuple3
<1>5. ASSUME NEW ls \in {<<Err(i)>>} \cup Refusals(c, i) PROVE All(ls, NotSvca)
  <2>1. ls \in {<<Err(i)>>, <<Digit(3, i), Ok(i)>>, <<Line("TEXT", 3, i), Ok(i)>>}
    BY RefusalShapes
  <2> QED
    BY <1>1, <1>2, <1>3, <2>1, Tuple1, Tuple2
<1>6. ASSUME NEW ls \in CodeTexts(c, i) PROVE All(ls, NotSvca)
  BY <1>2, <1>3, CodeTextShapes, Tuple2, Tuple3
<1> QED
  BY <1>4, <1>5, <1>6

LEMMA ExecuteO == IInv /\ BInv /\ OInv /\ mode' = mode /\ Execute => OInv'
<1> SUFFICES ASSUME IInv, BInv, OInv, mode' = mode, Execute PROVE OInv'
  OBVIOUS
<1>0. ~did' => ~did
  BY DEF Execute
<1>1. UNCHANGED <<wire, pc, call, n, text, code, res, cmds, clean>> /\ (~did' => ~did)
  BY <1>0 DEF Execute, dte
<1>2. EchoFirst' /\ EventsAfterOk' /\ OkMeansDone'
  BY <1>1 DEF OInv, EchoFirst, EventsAfterOk, OkMeansDone, Returned, EventTakenForText, IsEvent, Ring
<1>3. ASSUME clean PROVE call \in Asked /\ n \in Nat /\ (Waiting => n \in Nat \ {0})
  BY <1>3 DEF BInv, Alone, Numbers, IInv, TypeOK, Waiting
<1>4. Calm'
  <2> SUFFICES ASSUME clean, call # "evtReport" PROVE All(out', NotSvca)
    BY <1>1 DEF Calm, NotSvca
  <2> QED
    BY <1>3, CleanExecuted, AnswerCalm
<1>5. OkComesLast'
  <2>1. ASSUME clean, Waiting, ~did', Guarded(wire, out, OkLines, Refused(call))
        PROVE  Guarded(wire', out', OkLines, Refused(call))
    <3>1. /\ Guarded(wire, <<>>, OkLines, Refused(call)) /\ wire' = wire
          /\ \/ out' = Answer(call, n) /\ call = "setMo"
             \/ out' \in {<<Err(n)>>} \cup Refusals(call, n)
      BY <2>1, CleanExecuted, CodeTextShapes
    <3>2. Before(out', OkLines, Refused(call))
      BY <1>3, <2>1, <3>1, RefusalGuarded, PromptGuarded
    <3> QED
      BY <3>1, <3>2, GuardedAnswer
  <2> QED
    BY <1>1, <2>1, OkComesLastSame DEF OInv
<1> QED
  BY <1>2, <1>4, <1>5 DEF OInv

LEMMA EmitO == IInv /\ BInv /\ OInv /\ mode' = mode /\ Emit => OInv'
<1> SUFFICES ASSUME IInv, BInv, OInv, mode' = mode, Emit PROVE OInv'
  OBVIOUS
<1>1. /\ out # <<>> /\ out' = Tail(out) /\ wire' = Append(wire, Next1)
      /\ UNCHANGED <<pc, call, n, text, code, res, clean, did>>
  BY DEF Emit, dte, Next1
<1>2. /\ out \in Seq(Lines) /\ wire \in Seq(Lines) /\ Next1 \in Lines
      /\ Next1 = Head(out) \/ Head(out).k = "SVCA"
  BY <1>1, EmitLine DEF IInv, TypeOK, Next1
<1>3. EchoFirst'
  BY <1>1, <1>2, EchoFirstAppend DEF OInv
<1>4. Calm'
  BY <1>1, <1>2, AllTail DEF OInv, Calm, NotSvca
<1>5. OkComesLast'
  <2>1. ASSUME clean, Guarded(wire, out, OkLines, Refused(call))
        PROVE  Guarded(wire', out', OkLines, Refused(call))
    <3>1. CASE Next1 = Head(out)
      BY <1>1, <1>2, <2>1, <3>1, GuardedEmit
    <3>2. CASE Next1 # Head(out)
      <4>1. Head(out).k = "SVCA" /\ Next1.k = "SVCA" /\ call = "evtReport"
        <5>1. call # "evtReport" => Head(out) \in NotSvca
          BY <1>1, <1>2, <2>1, AllTail DEF OInv, Calm
        <5> QED
          BY <1>1, <1>2, <3>2, <5>1, EmitLine DEF NotSvca
      <4>2. \A l \in Lines : l.k = "SVCA" => l \notin OkLines /\ l \notin Refused(call)
        BY <4>1, OkKinds, RefusedType
      <4>3. Head(out) \in Lines
        BY <1>1, EmitLine
      <4> QED
        BY <1>1, <1>2, <2>1, <4>1, <4>2, <4>3, GuardedEmit
    <3> QED
      BY <3>1, <3>2
  <2> QED
    BY <1>1, <2>1, OkComesLastSame DEF OInv
<1> QED
  BY <1>1, <1>3, <1>4, <1>5 DEF OInv, EventsAfterOk, OkMeansDone, Returned, EventTakenForText, IsEvent, Ring

(* A message is over.                                                      *)
LEMMA ClosingCalm ==
  ASSUME NEW v \in Values, Head(cmds).n \in Nat
  PROVE  All(MessageAnswer(v), NotSvca)
<1>1. Digit(v, Head(cmds).n) \in NotSvca
  BY CodeType, LineFields DEF NotSvca, Digit
<1>2. Ok(Head(cmds).n) \in NotSvca
  BY CodeType, LineFields DEF NotSvca, Digit, Ok
<1> QED
  BY <1>1, <1>2, Tuple2 DEF MessageAnswer

LEMMA CleanData ==
  ASSUME IInv, BInv, clean, mst = "data"
  PROVE  /\ cmds = <<Own>> /\ Head(cmds).n = n /\ call = "setMo" /\ out = <<>> /\ n \in Nat
         /\ Waiting => n # 0
BY DEF BInv, Alone, Begun, Numbers, IInv, TypeOK, Sending, Own, Waiting

LEMMA DataTimeoutO == IInv /\ BInv /\ OInv /\ mode' = mode /\ DataTimeout => OInv'
<1> SUFFICES ASSUME IInv, BInv, OInv, mode' = mode, DataTimeout PROVE OInv'
  OBVIOUS
<1>1. /\ mst = "data" /\ out' = MessageAnswer(1)
      /\ UNCHANGED <<wire, pc, call, n, text, code, res, clean, did>>
  BY DEF DataTimeout, dte, MessageAnswer
<1>2. clean => Head(cmds).n = n /\ call = "setMo" /\ out = <<>> /\ n \in Nat /\ (Waiting => n # 0)
  BY <1>1, CleanData
<1>3. Calm'
  BY <1>1, <1>2, ClosingCalm, SomeValues DEF Calm, NotSvca
<1>4. OkComesLast'
  <2>1. ASSUME clean, Waiting, Guarded(wire, out, OkLines, Refused(call))
        PROVE  Guarded(wire', out', OkLines, Refused(call))
    <3>1. Before(MessageAnswer(1), OkLines, Refused(call))
      BY <1>2, <2>1, ClosingGuarded
    <3> QED
      BY <1>1, <1>2, <2>1, <3>1, GuardedAnswer
  <2> QED
    BY <1>1, <2>1, OkComesLastSame DEF OInv
<1> QED
  BY <1>1, <1>3, <1>4 DEF OInv, EchoFirst, EventsAfterOk, OkMeansDone, Returned, EventTakenForText, IsEvent, Ring

LEMMA DrainO == IInv /\ BInv /\ OInv /\ mode' = mode /\ DrainWire => OInv'
<1> SUFFICES ASSUME IInv, BInv, OInv, mode' = mode, DrainWire PROVE OInv'
  OBVIOUS
<1>1. /\ pc' = "write" /\ clean' => mst = "idle" /\ UNCHANGED <<out, call>>
  BY DEF DrainWire, CutEvent
<1>2. mst = "idle" => out = <<>>
  BY DEF IInv, Sending
<1>3. Calm'
  BY <1>1, <1>2, Tuple0 DEF Calm, DrainWire
<1> QED
  BY <1>1, <1>3 DEF OInv, EchoFirst, OkComesLast, Waiting, EventsAfterOk, OkMeansDone, Returned, DrainWire

LEMMA WriteO == IInv /\ BInv /\ OInv /\ mode' = mode /\ WriteCmd => OInv'
<1> SUFFICES ASSUME IInv, BInv, OInv, mode' = mode, WriteCmd PROVE OInv'
  OBVIOUS
<1>1. /\ pc = "write" /\ call \in Asked
      /\ UNCHANGED <<call, n, text, code, clean, did>>
  BY DEF WriteCmd, IInv, OwnStages
<1>2. CASE pc' = "idle" /\ res' = "AT" /\ UNCHANGED <<wire, out>>
  BY <1>1, <1>2 DEF OInv, EchoFirst, Calm, NotSvca, OkComesLast, Waiting, EventsAfterOk,
                    OkMeansDone, Returned
<1>3. CASE /\ Receive(call)
           /\ wire' = IF mode.echo /\ mst # "data" THEN Append(wire, Line("ECHO", 0, n)) ELSE wire
           /\ pc' = IF mode.echo THEN "echo" ELSE FirstStage
  <2> SUFFICES ASSUME clean PROVE OInv'
    BY <1>1 DEF OInv, EchoFirst, Calm, OkComesLast, EventsAfterOk, OkMeansDone
  <2>1. /\ mst = "idle" /\ out' = <<>> /\ wire \in Seq(Lines) /\ Line("ECHO", 0, n) \in Lines
        /\ All(wire, Foreign) /\ ~Some(wire, OkLines)
    BY <1>1, <1>3, CleanReceived DEF BInv, Begun, IInv, TypeOK, Line, Lines, LineKinds
  <2>2. pc' \notin {"idle", "event", "write", "drain", "line2"}
    BY <1>1, <1>3, FirstStages
  <2>3. EchoFirst'
    <3> SUFFICES ASSUME pc' = "echo"
                 PROVE  \E j \in 1..Len(wire') :
                          wire'[j].k = "ECHO" /\ \A i \in 1..(j - 1) : wire'[i].n = 0
      BY DEF EchoFirst
    <3>1. wire' = Append(wire, Line("ECHO", 0, n))
      BY <1>1, <1>3, <2>1, FirstStages
    <3>2. /\ Len(wire) \in Nat /\ Len(wire') = Len(wire) + 1
          /\ \A i \in 1..Len(wire) : wire'[i] = wire[i]
          /\ wire'[Len(wire) + 1] = Line("ECHO", 0, n)
      BY <2>1, <3>1, Appended
    <3>3. \A i \in 1..((Len(wire) + 1) - 1) : wire'[i].n = 0
      BY <2>1, <3>2 DEF All, Foreign
    <3>4. Len(wire) + 1 \in 1..Len(wire')
      BY <3>2
    <3> QED
      BY <3>2, <3>3, <3>4, LineFields
  <2>4. OkComesLast'
    <3> SUFFICES Guarded(wire', out', OkLines, Refused(call))
      BY <1>1, SameLines DEF OkComesLast
    <3>1. Line("ECHO", 0, n) \notin OkLines
      BY OkKinds, LineFields
    <3>2. ~Some(wire', OkLines)
      BY <1>3, <2>1, <3>1, SomeAppend
    <3> QED
      BY <2>1, <3>2, Tuple0, NoneGuarded
  <2>5. Calm'
    BY <2>1, Tuple0 DEF Calm
  <2> QED
    BY <2>2, <2>3, <2>4, <2>5 DEF OInv, EventsAfterOk, OkMeansDone, Returned
<1> QED
  BY <1>2, <1>3 DEF WriteCmd, Return

LEMMA WriteDataO == IInv /\ BInv /\ OInv /\ mode' = mode /\ WriteData => OInv'
<1> SUFFICES ASSUME IInv, BInv, OInv, mode' = mode, WriteData PROVE OInv'
  OBVIOUS
<1>1. /\ pc = "data" /\ pc' = "code2" /\ call = "setMo"
      /\ UNCHANGED <<wire, call, n, text, code, cmds, clean>>
  BY DEF WriteData, BInv, StageCalls, CallsAt
<1>2. \/ UNCHANGED <<did, out>>
      \/ mst = "data" /\ did' = (Head(cmds).n = n) /\ out' = MessageAnswer(0)
      \/ mst = "data" /\ UNCHANGED did /\ out' = MessageAnswer(2)
  BY DEF WriteData, MessageAnswer
<1>3. clean /\ mst = "data" => Head(cmds).n = n /\ out = <<>> /\ n \in Nat \ {0}
  BY <1>1, CleanData DEF Waiting
<1>4. Calm'
  BY <1>1, <1>2, <1>3, ClosingCalm, SomeValues DEF OInv, Calm, NotSvca
<1>5. OkComesLast'
  <2> SUFFICES ASSUME clean, ~did' PROVE Guarded(wire', out', OkLines, Refused(call))
    BY <1>1, SameLines DEF OkComesLast
  <2>1. Guarded(wire, out, OkLines, Refused(call))
    BY <1>1, <1>2, <1>3 DEF OInv, OkComesLast, ToldRefusal, Waiting
  <2>2. CASE mst = "data" /\ out' = MessageAnswer(2)
    <3>1. Before(MessageAnswer(2), OkLines, Refused(call))
      BY <1>1, <1>3, <2>2, ClosingGuarded
    <3> QED
      BY <1>1, <1>3, <2>1, <2>2, <3>1, GuardedAnswer
  <2> QED
    BY <1>1, <1>2, <1>3, <2>1, <2>2
<1> QED
  BY <1>1, <1>4, <1>5 DEF OInv, EchoFirst, EventsAfterOk, OkMeansDone, Returned

(* A line is read that tells no refusal.                                   *)
LEMMA ReadGuarded ==
  ASSUME IInv, Read, UNCHANGED <<mode, call, out>>, L \notin Refused(call),
         Guarded(wire, out, OkLines, Refused(call))
  PROVE  Guarded(wire', out', OkLines', Refused(call)')
<1>1. Guarded(Tail(wire), out, OkLines, Refused(call))
  BY GuardedTail DEF Read, L, IInv, TypeOK
<1> QED
  BY <1>1, SameLines DEF Read

LEMMA ReadNotOk ==
  ASSUME IInv, wire # <<>>, Guarded(wire, out, OkLines, Refused(call))
  PROVE  L \in Lines /\ L \notin OkLines
BY GuardedTail, Behead DEF L, IInv, TypeOK

(* In front of the echo there is no refusal.                               *)
LEMMA EchoNoRefusal ==
  ASSUME IInv, EchoFirst, clean, pc = "echo", wire # <<>>
  PROVE  L \notin Refused(call)
<1>1. PICK j \in 1..Len(wire) : wire[j].k = "ECHO" /\ \A i \in 1..(j - 1) : wire[i].n = 0
  BY DEF EchoFirst
<1>2. L = wire[1] /\ Len(wire) \in Nat
  BY Behead DEF IInv, TypeOK, L
<1>3. j = 1 \/ 1 \in 1..(j - 1)
  BY <1>1, <1>2
<1>4. L.k = "ECHO" \/ L.n = 0
  BY <1>1, <1>2, <1>3
<1> QED
  BY <1>4, RefusedType

(* As long as the thread waits.                                            *)
LEMMA ReadingOkComesLast ==
  ASSUME IInv, BInv, OInv, mode' = mode, ReadingStep, clean, Waiting', ~did
  PROVE  ToldRefusal' \/ Guarded(wire', out', OkLines', Refused(call)')
<1>0. /\ UNCHANGED <<mode, call, out, n>> /\ pc' # "idle" /\ OkLines' = OkLines
      /\ Refused(call)' = Refused(call)
  <2>1. UNCHANGED <<call, out, n>>
    BY ReadingReads DEF ReadStep
  <2> QED
    BY <2>1, SameLines DEF Waiting
<1>1. Waiting
  BY DEF ReadingStep, CheckEcho, ReadTimeout, Reading, AnswerStep, ReadCode, ReadCode2, ReadLast,
         ReadLine1, ReadLine2, ReadLines, ReadHead, ReadText, ReadBin, ReadEvent, Waiting
<1>2. ToldRefusal \/ Guarded(wire, out, OkLines, Refused(call))
  BY <1>1 DEF OInv, OkComesLast
<1>3. CASE CheckEcho
  <2>1. Guarded(wire, out, OkLines, Refused(call))
    BY <1>2, <1>3 DEF CheckEcho, ToldRefusal
  <2>2. CASE Read
    <3>1. L \notin Refused(call)
      BY <1>3, <2>2, EchoNoRefusal DEF CheckEcho, Read, OInv
    <3> QED
      BY <1>0, <2>1, <2>2, <3>1, ReadGuarded
  <2>3. CASE UNCHANGED wire
    BY <1>0, <2>1, <2>3
  <2> QED
    BY <1>3, <2>2, <2>3 DEF CheckEcho
<1>4. CASE ReadTimeout
  <2>1. pc \in {"code", "code2", "head", "text"} /\ wire' = wire
    BY <1>0, <1>4 DEF ReadTimeout, Ignored, Return
  <2>2. Guarded(wire, out, OkLines, Refused(call))
    BY <1>2, <2>1 DEF ToldRefusal
  <2> QED
    BY <1>0, <2>1, <2>2
<1>5. CASE ReadCode \/ ReadCode2
  <2>1. /\ Read /\ pc \in {"code", "code2"} /\ \E v \in RespCodes(L) : code' = NewCode(v)
        /\ pc' = "last" \/ (pc' = "data" /\ IsReady(L))
    BY <1>0, <1>5, Ended DEF ReadCode, ReadCode2
  <2>2. Guarded(wire, out, OkLines, Refused(call)) /\ call \in {"setMo", "clear"}
    BY <1>2, <2>1 DEF ToldRefusal, BInv, StageCalls, CallsAt
  <2>3. CASE L \in Refused(call)
    <3>1. L.k = "DIGIT" /\ L.v \in 1..3 /\ StrCode(L) = "UNK"
      BY <2>2, <2>3, RefusedType
    <3>2. code' \in 1..3 /\ pc' = "last"
      BY <2>1, <3>1 DEF RespCodes, NewCode, IsReady
    <3> QED
      BY <1>0, <2>2, <3>2 DEF ToldRefusal
  <2>4. CASE L \notin Refused(call)
    BY <1>0, <2>1, <2>2, <2>4, ReadGuarded
  <2> QED
    BY <2>3, <2>4
<1>6. CASE ReadLast
  <2>1. pc = "last" /\ Read /\ StrCode(L) = "OK" /\ call = "evtReport"
    BY <1>0, <1>6 DEF ReadLast, Return
  <2>2. Guarded(wire, out, OkLines, Refused(call))
    BY <1>2, <2>1 DEF ToldRefusal
  <2>3. L \in OkLines
    BY <2>1, ReadType DEF OkLines
  <2> QED
    BY <2>1, <2>2, <2>3, ReadNotOk DEF Read
<1>7. CASE ReadLine1
  <2>1. pc = "line1" /\ Read /\ pc' = "line2" /\ text' = L
    BY <1>0, <1>7 DEF ReadLine1, Return
  <2>2. Guarded(wire, out, OkLines, Refused(call)) /\ call \in LineCalls
    BY <1>2, <2>1 DEF ToldRefusal, BInv, StageCalls, CallsAt
  <2>3. CASE L \in Refused(call)
    <3>1. call = "query" /\ L.k = "TEXT" /\ L.v = 3
      BY <2>2, <2>3, RefusedType DEF LineCalls
    <3> QED
      BY <1>0, <2>1, <3>1 DEF ToldRefusal, QueryResult
  <2>4. CASE L \notin Refused(call)
    BY <1>0, <2>1, <2>2, <2>4, ReadGuarded
  <2> QED
    BY <2>3, <2>4
<1>8. CASE ReadLine2
  BY <1>0, <1>8, Ended DEF ReadLine2
<1>9. CASE ReadLines \/ ReadHead \/ ReadText \/ ReadBin \/ ReadEvent
  <2>1. pc \in {"lines", "head", "text", "bin", "event"} /\ Read
    BY <1>0, <1>9, Ended DEF ReadLines, ReadHead, ReadText, ReadBin, ReadEvent, Return
  <2>2. Refused(call) = {}
    <3>1. call \in {"rev", "mtTxt", "getMt", "evt", "evtReport"}
      BY <2>1 DEF BInv, StageCalls, CallsAt
    <3> QED
      BY <3>1, RefusedCalls
  <2>3. Guarded(wire, out, OkLines, Refused(call))
    BY <1>2, <2>1 DEF ToldRefusal
  <2> QED
    BY <1>0, <2>1, <2>2, <2>3, ReadGuarded
<1> QED
  BY <1>3, <1>4, <1>5, <1>6, <1>7, <1>8, <1>9 DEF ReadingStep, AnswerStep

(* When it returns OK, a line of OkLines was read.                         *)
LEMMA ReadingReturns ==
  ASSUME IInv, BInv, OInv, mode' = mode, ReadingStep, clean, pc' = "idle", res' = "OK", ~did,
         ~EventTakenForText', call # "evt"
  PROVE  FALSE
<1>1. Waiting
  BY DEF ReadingStep, CheckEcho, ReadTimeout, Reading, AnswerStep, ReadCode, ReadCode2, ReadLast,
         ReadLine1, ReadLine2, ReadLines, ReadHead, ReadText, ReadBin, ReadEvent, Waiting
<1>2. ToldRefusal \/ Guarded(wire, out, OkLines, Refused(call))
  BY <1>1 DEF OInv, OkComesLast
<1>3. StrCode(L) = "OK" /\ Read => L \in OkLines
  BY ReadType DEF OkLines
<1>4. CASE CheckEcho \/ ReadTimeout \/ ReadBin
  <2>1. CheckEcho => call \in Asked
    BY DEF CheckEcho, IInv, OwnStages
  <2> QED
    BY <1>4, <2>1, FirstStages DEF CheckEcho, ReadTimeout, ReadBin, Return
<1>5. CASE ReadEvent
  <2>1. pc = "event"
    BY <1>5 DEF ReadEvent
  <2> QED
    BY <2>1 DEF BInv, StageCalls, CallsAt, OInv, EventsAfterOk
<1>6. CASE ReadCode \/ ReadCode2 \/ ReadHead
  <2>1. ReadCode => pc' # "idle" \/ res' \in {"AT", "OVERFLOW"}
    BY Ended DEF ReadCode
  <2> QED
    BY <1>6, <2>1 DEF ReadCode2, ReadHead
<1>7. CASE ReadLast
  <2>1. /\ pc = "last" /\ Read /\ StrCode(L) = "OK"
        /\ call \in {"setMo", "clear"} => "OK" \in CodeResults
    BY <1>7 DEF ReadLast, Return
  <2>2. ~ToldRefusal
    BY <2>1 DEF ToldRefusal, CodeResults
  <2> QED
    BY <1>2, <1>3, <2>1, <2>2, ReadNotOk DEF Read
<1>8. CASE ReadLine1
  <2>1. pc = "line1" /\ Read /\ StrCode(L) = "OK"
    BY <1>8 DEF ReadLine1, Return
  <2> QED
    BY <1>2, <1>3, <2>1, ReadNotOk DEF Read, ToldRefusal
<1>9. CASE ReadLine2
  <2>1. pc = "line2" /\ Read /\ call \in LineCalls
    BY <1>9 DEF ReadLine2, BInv, StageCalls, CallsAt
  <2>2. StrCode(L) = "OK" /\ (call = "query" => QueryResult = "OK")
    BY <1>9, <2>1, ReturnedOk DEF ReadLine2, LineCalls, AnyText
  <2> QED
    BY <1>2, <1>3, <2>1, <2>2, ReadNotOk DEF Read, ToldRefusal
<1>10. CASE ReadLines
  <2>1. pc = "lines" /\ Read /\ StrCode(L) = "OK"
    BY <1>10, ReturnedOk DEF ReadLines, Return
  <2> QED
    BY <1>2, <1>3, <2>1, ReadNotOk DEF Read, ToldRefusal
<1>11. CASE ReadText
  <2>1. /\ pc = "text" /\ Read /\ ~mode.verbose
        /\ text' = IF StrCode(L) = "UNK" THEN L ELSE NoLine
        /\ StrCode(L) = "OK" \/ TRUE \in MayEndInZero(L)
    BY <1>11, ReturnedOk DEF ReadText, Return
  <2>2. call = "mtTxt" /\ call' = call
    BY <2>1, ReadingReads DEF BInv, StageCalls, CallsAt, ReadStep
  <2>4. ~IsEvent(L)
    <3>1. IsEvent(L) => text' = L
      BY <2>1, EventIsNoCode
    <3> QED
      BY <2>1, <2>2, <3>1 DEF EventTakenForText, IsEvent, Ring
  <2>3. L \in OkLines
    BY <2>1, <2>2, <2>4, ReadType DEF OkLines
  <2> QED
    BY <1>2, <2>1, <2>3, ReadNotOk DEF Read, ToldRefusal
<1> QED
  BY <1>4, <1>5, <1>6, <1>7, <1>8, <1>9, <1>10, <1>11 DEF ReadingStep, AnswerStep

(* The events that AT+CIER asks for are awaited after its OK.              *)
LEMMA ReadingEvents ==
  ASSUME IInv, BInv, OInv, mode' = mode, ReadingStep, clean, pc' = "event", call = "evtReport"
  PROVE  did
<1>1. CASE pc = "event"
  BY <1>1 DEF OInv, EventsAfterOk
<1>2. CASE pc # "event"
  <2>1. ReadLast /\ pc = "last" /\ Read /\ StrCode(L) = "OK"
    <3>1. ReadLast
      <4>1. CheckEcho => call \in Asked /\ pc' = FirstStage
        BY DEF CheckEcho, IInv, OwnStages
      <4> QED
        BY <1>2, <4>1, FirstStages
           DEF ReadingStep, AnswerStep, ReadTimeout, ReadCode, ReadCode2, ReadLine1, ReadLine2,
               ReadLines, ReadHead, ReadText, ReadBin, ReadEvent, ReturnIfFits, Return
    <3> QED
      BY <3>1 DEF ReadLast, Return
  <2>2. L \in OkLines
    BY <2>1, ReadType DEF OkLines
  <2>3. ~did => Guarded(wire, out, OkLines, Refused(call))
    BY <2>1 DEF OInv, OkComesLast, Waiting, ToldRefusal
  <2> QED
    BY <2>1, <2>2, <2>3, ReadNotOk DEF Read
<1> QED
  BY <1>1, <1>2

LEMMA ReadingO == IInv /\ BInv /\ OInv /\ mode' = mode /\ ReadingStep => OInv'
<1> SUFFICES ASSUME IInv, BInv, OInv, mode' = mode, ReadingStep PROVE OInv'
  OBVIOUS
<1>1. UNCHANGED <<call, n, clean, did, out>> /\ pc' # "echo"
  BY ReadingReads DEF ReadStep, NextStages
<1>2. OkComesLast'
  BY <1>1, ReadingOkComesLast DEF OkComesLast
<1>3. OkMeansDone'
  BY <1>1, ReadingReturns DEF OkMeansDone, Returned
<1>4. EventsAfterOk'
  BY <1>1, ReadingEvents DEF EventsAfterOk
<1> QED
  BY <1>1, <1>2, <1>3, <1>4 DEF OInv, EchoFirst, Calm, NotSvca

LEMMA StepO == IInv /\ BInv /\ OInv /\ [Next]_vars => OInv'
<1>1. OInv /\ UNCHANGED vars => OInv'
  <2> SUFFICES ASSUME OInv, UNCHANGED vars PROVE OInv'
    OBVIOUS
  <2>1. UNCHANGED <<mode, wire, pc, call, n, text, code, res, out, clean, did>>
    BY DEF vars, dte, modem
  <2>2. OkComesLast'
    BY <2>1, OkComesLastSame DEF OInv
  <2> QED
    BY <2>1, <2>2 DEF OInv, EchoFirst, Calm, NotSvca, EventsAfterOk, OkMeansDone, Returned,
                      EventTakenForText, IsEvent, Ring
<1> QED
  BY <1>1, Steps, CallO, UrcO, ExecuteO, EmitO, DataTimeoutO, DrainO, WriteO, WriteDataO, ReadingO

LEMMA AloneInvariant == Spec => []BInv
BY InitB, StepB, LinkInvariant, PTL DEF Spec

(* A command that starts while the modem has nothing left to do and        *)
(* returns OK was executed: whatever events come inside its answer, also   *)
(* when the message or its checksum did not arrive, when "code" of         *)
(* isu_set_mo was never written or a read timed out in between.  Two       *)
(* things are excepted.  "clean" leaves out a command that meets a late    *)
(* answer and, with numeric result codes, one whose drain cut an event     *)
(* (its rest "0" reads as OK).  EventTakenForText is an event that         *)
(* isu_get_mt_txt, with numeric result codes, returns as the message.      *)
THEOREM OkIsTrue == Spec => []OkMeansDone
<1>1. Spec => []OInv
  BY InitO, StepO, LinkInvariant, AloneInvariant, PTL DEF Spec
<1> QED
  BY <1>1, PTL DEF OInv

(***************************************************************************)
(* The text that a call returns is the modem's.                            *)
(***************************************************************************)
WithText == {"get", "moToMt", "mtTxt"}
Texts == {l \in Lines : l.k \in {"TEXT", "TEXT0"} /\ l.n # 0}
Heads == {l \in Lines : l.k = "HEAD" /\ l.n # 0}

(* isu_get_mt_txt throws a line away before the text comes,                *)
HeadFirst ==
  clean /\ call = "mtTxt" /\ pc \in {"echo", "head"} => Guarded(wire, out, Texts, Heads)

(* and what could end the call comes after the text, or is its end.        *)
Ends == OkLines \ Texts
TextRead == pc \in {"line2", "last"} /\ text.k \in {"TEXT", "TEXT0"}
TextFirst ==
  clean /\ Waiting /\ call \in WithText /\ ~TextTakenForCode =>
    TextRead \/ Guarded(wire, out, Ends, Texts)
TextKept ==
  Returned /\ clean /\ res = "OK" /\ call \in WithText /\ ~EventTakenForText /\ ~TextTakenForCode =>
    text.k \in {"TEXT", "TEXT0"}

TInv == HeadFirst /\ TextFirst /\ TextKept

LEMMA InitT == Init => TInv
BY DEF Init, TInv, HeadFirst, TextFirst, TextKept, Returned

LEMMA SameTexts == UNCHANGED <<mode, call>> => Ends' = Ends /\ Texts' = Texts /\ Heads' = Heads
BY SameLines DEF Ends, Texts, Heads

LEMMA TextsAnswer ==
  ASSUME call \in WithText, NEW i \in Nat \ {0},
         NEW ls \in {Answer(call, i), <<Err(i)>>} \cup CodeTexts(call, i) \cup Refusals(call, i)
  PROVE  /\ ~TextTakenForCode => Before(ls, Ends, Texts)
         /\ call = "mtTxt" => Before(ls, Texts, Heads)
<1>1. /\ Line("TEXT", 0, i) \in Texts /\ Line("TEXT0", 0, i) \in Texts /\ Line("HEAD", 0, i) \in Heads
      /\ Line("HEAD", 0, i) \notin Texts
  BY DEF Line, Lines, LineKinds, Texts, Heads
<1>2. Ok(i) \notin Texts /\ Err(i) \notin Texts
  BY LineFields DEF Texts, Ok, Err, Digit
<1>3. Line("HEAD", 0, i) \notin Ends /\ Err(i) \notin Ends
  BY OkKinds, LineFields DEF Ends, Err, Digit
<1>4. \A l \in Texts : l \notin Ends
  BY DEF Ends
<1>5. CASE ls \in {<<Err(i)>>} \cup Refusals(call, i)
  <2>1. ls = <<Err(i)>>
    BY <1>5, RefusalShapes DEF WithText
  <2> QED
    BY <1>2, <1>3, <2>1, Tuple1
<1>6. CASE ls = Answer(call, i)
  <2>1. \/ call # "mtTxt" /\ ls = <<Line("TEXT", 0, i), Ok(i)>>
        \/ ls = <<Line("HEAD", 0, i), Line("TEXT", 0, i), Ok(i)>>
        \/ ls = <<Line("HEAD", 0, i), Line("TEXT0", 0, i)>>
    BY <1>6 DEF WithText, Answer
  <2> QED
    BY <1>1, <1>2, <1>3, <1>4, <2>1, Tuple2, Tuple3
<1>7. CASE ls \in CodeTexts(call, i)
  <2>1. TextTakenForCode
    BY <1>7, CodeTextShapes DEF TextTakenForCode
  <2> QED
    BY <1>1, <1>2, <1>7, <2>1, CodeTextShapes, Tuple2, Tuple3
<1> QED
  BY <1>5, <1>6, <1>7

(* The steps that do not move the thread.                                  *)
LEMMA TextSame ==
  ASSUME TInv, UNCHANGED <<mode, pc, call, n, text, res, clean>>,
         clean /\ Waiting /\ call \in WithText /\ ~TextTakenForCode /\ Guarded(wire, out, Ends, Texts)
           => Guarded(wire', out', Ends, Texts),
         clean /\ Waiting /\ call = "mtTxt" /\ Guarded(wire, out, Texts, Heads)
           => Guarded(wire', out', Texts, Heads)
  PROVE  TInv'
<1>1. HeadFirst'
  BY SameTexts DEF TInv, HeadFirst, Waiting
<1>2. TextFirst'
  BY SameTexts DEF TInv, TextFirst, TextRead, Waiting, TextTakenForCode
<1> QED
  BY <1>1, <1>2 DEF TInv, TextKept, Returned, EventTakenForText, TextTakenForCode, IsEvent, Ring

LEMMA UrcT == IInv /\ BInv /\ TInv /\ mode' = mode /\ Urc => TInv'
<1> SUFFICES ASSUME IInv, BInv, TInv, mode' = mode, Urc PROVE TInv'
  OBVIOUS
<1>1. UNCHANGED <<pc, call, n, text, res, clean, out>>
  BY DEF Urc, dte
<1>2. PICK l : Event(l) /\ wire' = Append(wire, l)
  BY DEF Urc
<1>3. l \in Lines /\ l.n = 0 /\ wire \in Seq(Lines)
  BY <1>2, EventLine DEF Foreign, IInv, TypeOK
<1>4. ASSUME Guarded(wire, out, Ends, Texts)
      PROVE  Guarded(wire', out', Ends, Texts)
  <2>1. l \notin Ends
    BY <1>2, EventLine DEF Ends
  <2> QED
    BY <1>1, <1>2, <1>3, <1>4, <2>1, GuardedAppend
<1>5. Guarded(wire, out, Texts, Heads) => Guarded(wire', out', Texts, Heads)
  BY <1>1, <1>2, <1>3, GuardedAppend DEF Texts
<1> QED
  BY <1>1, <1>4, <1>5, TextSame

LEMMA ExecuteT == IInv /\ BInv /\ TInv /\ mode' = mode /\ Execute => TInv'
<1> SUFFICES ASSUME IInv, BInv, TInv, mode' = mode, Execute PROVE TInv'
  OBVIOUS
<1>1. UNCHANGED <<wire, pc, call, n, text, res, clean>>
  BY DEF Execute, dte
<1>2. ASSUME clean, Waiting
      PROVE  /\ out = <<>> /\ n \in Nat \ {0}
             /\ out' \in {Answer(call, n), <<Err(n)>>} \cup CodeTexts(call, n) \cup Refusals(call, n)
  BY <1>2, CleanExecuted DEF BInv, Numbers, Waiting
<1>3. ASSUME clean, Waiting, call \in WithText, ~TextTakenForCode, Guarded(wire, out, Ends, Texts)
      PROVE  Guarded(wire', out', Ends, Texts)
  BY <1>1, <1>2, <1>3, TextsAnswer, GuardedAnswer
<1>4. ASSUME clean, Waiting, call = "mtTxt", Guarded(wire, out, Texts, Heads)
      PROVE  Guarded(wire', out', Texts, Heads)
  BY <1>1, <1>2, <1>4, TextsAnswer, GuardedAnswer DEF WithText
<1> QED
  BY <1>1, <1>3, <1>4, TextSame

LEMMA EmitT == IInv /\ OInv /\ TInv /\ mode' = mode /\ Emit => TInv'
<1> SUFFICES ASSUME IInv, OInv, TInv, mode' = mode, Emit PROVE TInv'
  OBVIOUS
<1>1. /\ out # <<>> /\ out' = Tail(out) /\ wire' = Append(wire, Next1)
      /\ UNCHANGED <<pc, call, n, text, res, clean>>
  BY DEF Emit, dte, Next1
<1>2. out \in Seq(Lines) /\ wire \in Seq(Lines) /\ Next1 \in Lines
  BY <1>1, EmitLine DEF IInv, TypeOK
<1>3. ASSUME clean, call \in WithText PROVE Next1 = Head(out)
  <2>1. Head(out) \in NotSvca
    BY <1>1, <1>2, <1>3, AllTail DEF OInv, Calm, WithText
  <2> QED
    BY <2>1 DEF NotSvca, Next1
<1>4. ASSUME NEW S, NEW T, clean, call \in WithText, Guarded(wire, out, S, T)
      PROVE  Guarded(wire', out', S, T)
  BY <1>1, <1>2, <1>3, <1>4, GuardedEmit
<1> QED
  BY <1>1, <1>4, TextSame DEF WithText

(* The thread starts to wait.                                              *)
LEMMA WriteT == IInv /\ BInv /\ TInv /\ mode' = mode /\ WriteCmd => TInv'
<1> SUFFICES ASSUME IInv, BInv, TInv, mode' = mode, WriteCmd PROVE TInv'
  OBVIOUS
<1>1. /\ pc = "write" /\ call \in Asked
      /\ UNCHANGED <<call, n, text, clean>>
  BY DEF WriteCmd, IInv, OwnStages
<1>2. CASE pc' = "idle" /\ res' = "AT"
  BY <1>1, <1>2 DEF TInv, HeadFirst, TextFirst, TextKept, Waiting, Returned
<1>3. CASE /\ Receive(call)
           /\ wire' = IF mode.echo /\ mst # "data" THEN Append(wire, Line("ECHO", 0, n)) ELSE wire
           /\ pc' = IF mode.echo THEN "echo" ELSE FirstStage
  <2> SUFFICES ASSUME clean PROVE TInv'
    BY <1>1 DEF TInv, HeadFirst, TextFirst, TextKept
  <2>1. /\ out' = <<>> /\ wire \in Seq(Lines) /\ Line("ECHO", 0, n) \in Lines
        /\ All(wire, Foreign) /\ ~Some(wire, OkLines)
    BY <1>1, <1>3, CleanReceived DEF BInv, Begun, IInv, TypeOK, Line, Lines, LineKinds
  <2>2. ~Some(wire, Texts)
    BY <2>1 DEF All, Some, Foreign, Texts
  <2>3. Line("ECHO", 0, n) \notin Texts /\ Line("ECHO", 0, n) \notin OkLines
    BY OkKinds, LineFields DEF Texts
  <2>4. ~Some(wire', Texts) /\ ~Some(wire', OkLines)
    BY <1>3, <2>1, <2>2, <2>3, SomeAppend
  <2>5. Guarded(wire', out', Texts, Heads)
    BY <2>1, <2>4, Tuple0, NoneGuarded
  <2>6. Guarded(wire', out', Ends, Texts)
    <3>1. ~Some(wire', OkLines) => ~Some(wire', Ends)
      BY DEF Some, Ends
    <3> QED
      BY <2>1, <2>4, <3>1, Tuple0, NoneGuarded
  <2>7. pc' # "idle"
    BY <1>1, <1>3, FirstStages
  <2> QED
    BY <1>1, <2>5, <2>6, <2>7, SameTexts
       DEF TInv, HeadFirst, TextFirst, TextKept, Returned
<1> QED
  BY <1>2, <1>3 DEF WriteCmd, Return

(* The thread reads.                                                       *)
LEMMA ReadNoText ==
  ASSUME IInv, Read, UNCHANGED <<mode, call, out>>, L \notin Texts, Guarded(wire, out, Ends, Texts)
  PROVE  Guarded(wire', out', Ends', Texts')
<1>1. Guarded(Tail(wire), out, Ends, Texts)
  BY GuardedTail DEF Read, L, IInv, TypeOK
<1> QED
  BY <1>1, SameTexts DEF Read

LEMMA ReadNoEnd ==
  ASSUME IInv, Read, StrCode(L) = "OK"
  PROVE  ~Guarded(wire, out, Ends, Texts)
<1>1. L \in OkLines
  BY ReadType DEF OkLines
<1>2. L \notin Texts
  BY DEF StrCode, Texts
<1> QED
  BY <1>1, <1>2, GuardedTail DEF Ends, Read, L, IInv, TypeOK

LEMMA EchoNoText ==
  ASSUME IInv, EchoFirst, clean, pc = "echo", wire # <<>>
  PROVE  L \notin Texts /\ L \notin Heads
<1>1. PICK j \in 1..Len(wire) : wire[j].k = "ECHO" /\ \A i \in 1..(j - 1) : wire[i].n = 0
  BY DEF EchoFirst
<1>2. L = wire[1] /\ Len(wire) \in Nat
  BY Behead DEF IInv, TypeOK, L
<1>3. j = 1 \/ 1 \in 1..(j - 1)
  BY <1>1, <1>2
<1>4. L.k = "ECHO" \/ L.n = 0
  BY <1>1, <1>2, <1>3
<1> QED
  BY <1>4 DEF Texts, Heads

LEMMA ReadingHead ==
  ASSUME IInv, BInv, OInv, TInv, mode' = mode, ReadingStep
  PROVE  HeadFirst'
<1>0. UNCHANGED <<call, out, clean>>
  BY ReadingReads DEF ReadStep
<1> SUFFICES ASSUME clean, call = "mtTxt", pc' \in {"echo", "head"}
             PROVE  Guarded(wire', out', Texts, Heads)
  BY <1>0, SameTexts DEF HeadFirst
<1>1. CheckEcho
  <2>1. pc' = "head"
    BY ReadingReads DEF ReadStep, NextStages
  <2> QED
    BY <2>1, <1>0, Ended
       DEF ReadingStep, AnswerStep, ReadTimeout, ReadCode, ReadCode2, ReadLast, ReadLine1, ReadLine2,
           ReadLines, ReadHead, ReadText, ReadBin, ReadEvent, Return, BInv, StageCalls, CallsAt
<1>2. Guarded(wire, out, Texts, Heads) /\ pc = "echo"
  BY <1>1 DEF TInv, HeadFirst, CheckEcho
<1>3. CASE Read
  <2>1. L \notin Heads
    BY <1>2, <1>3, EchoNoText DEF Read, OInv
  <2> QED
    BY <1>0, <1>2, <1>3, <2>1, GuardedTail DEF Read, L, IInv, TypeOK
<1> QED
  BY <1>0, <1>1, <1>2, <1>3 DEF CheckEcho

LEMMA ReadingText ==
  ASSUME IInv, BInv, OInv, TInv, mode' = mode, ReadingStep, clean, call \in WithText,
         ~TextTakenForCode
  PROVE  IF pc' = "idle" THEN res' = "OK" /\ ~EventTakenForText' => text'.k \in {"TEXT", "TEXT0"}
         ELSE TextRead' \/ Guarded(wire', out', Ends', Texts')
<1>0. UNCHANGED <<mode, call, out, n>> /\ pc' \in NextStages
  BY ReadingReads DEF ReadStep
<1>1. Waiting
  BY DEF ReadingStep, CheckEcho, ReadTimeout, Reading, AnswerStep, ReadCode, ReadCode2, ReadLast,
         ReadLine1, ReadLine2, ReadLines, ReadHead, ReadText, ReadBin, ReadEvent, Waiting
<1>2. /\ TextRead \/ Guarded(wire, out, Ends, Texts)
      /\ pc \in {"echo", "line1", "line2", "head", "text", "last"}
      /\ call = "mtTxt" <=> pc \in {"head", "text", "last"} \/ (pc = "echo" /\ call = "mtTxt")
      /\ pc = "last" => mode.verbose
  <2>1. TextRead \/ Guarded(wire, out, Ends, Texts)
    BY <1>1 DEF TInv, TextFirst
  <2>2. pc \in Stages /\ call \in CallsAt(pc) /\ (pc = "last" /\ call = "mtTxt" => mode.verbose)
    BY DEF BInv, StageCalls, IInv, TypeOK
  <2> QED
    BY <1>1, <2>1, <2>2 DEF CallsAt, WithText, LineCalls, Waiting, Stages, Reading
<1>3. CASE CheckEcho
  <2>1. Guarded(wire, out, Ends, Texts) /\ pc' # "idle"
    <3>1. pc' = FirstStage /\ call \in Asked
      BY <1>3 DEF CheckEcho, IInv, OwnStages
    <3> QED
      BY <1>2, <1>3, <3>1, FirstStages DEF CheckEcho, TextRead
  <2>2. CASE Read
    <3>1. L \notin Texts
      BY <1>3, <2>2, EchoNoText DEF CheckEcho, Read, OInv
    <3> QED
      BY <1>0, <2>1, <2>2, <3>1, ReadNoText
  <2>3. CASE UNCHANGED wire
    BY <1>0, <2>1, <2>3, SameTexts
  <2> QED
    BY <1>3, <2>2, <2>3 DEF CheckEcho
<1>4. CASE ReadTimeout
  <2>1. \/ pc' = "idle" /\ res' = "AT"
        \/ pc \in {"code", "code2", "head", "text"} /\ wire' = wire /\ pc' # "idle"
    BY <1>4 DEF ReadTimeout, Ignored, Return
  <2> QED
    BY <1>0, <1>2, <2>1, SameTexts DEF TextRead
<1>5. CASE ReadHead
  <2>1. /\ pc = "head" /\ pc' = "text" /\ Read
        /\ Guarded(wire, out, Ends, Texts)
    BY <1>2, <1>5 DEF ReadHead, TextRead
  <2>2. Guarded(wire, out, Texts, Heads)
    BY <1>2, <2>1 DEF TInv, HeadFirst
  <2>3. L \notin Texts
    BY <2>1, <2>2, GuardedTail DEF Read, L, IInv, TypeOK
  <2> QED
    BY <1>0, <2>1, <2>3, ReadNoText
<1>6. CASE ReadLine1
  <2>1. pc = "line1" /\ Read /\ Guarded(wire, out, Ends, Texts)
    BY <1>2, <1>6 DEF ReadLine1, TextRead
  <2>2. \/ pc' = "idle" /\ res' # "OK"
        \/ pc' = "line2" /\ text' = L
    BY <1>6, <2>1, ReadNoEnd DEF ReadLine1, Return
  <2>3. CASE pc' = "line2" /\ text' = L /\ L \in Texts
    BY <2>3 DEF TextRead, Texts
  <2>4. CASE pc' = "line2" /\ L \notin Texts
    BY <1>0, <2>1, <2>4, ReadNoText
  <2> QED
    BY <2>2, <2>3, <2>4
<1>7. CASE ReadLine2
  <2>1. pc = "line2" /\ Read /\ text' = text /\ pc' = "idle"
    BY <1>7, Ended DEF ReadLine2
  <2>2. res' = "OK" => StrCode(L) = "OK"
    BY <1>7, ReturnedOk DEF ReadLine2
  <2> QED
    BY <1>2, <2>1, <2>2, ReadNoEnd DEF TextRead
<1>8. CASE ReadText
  <2>1. /\ pc = "text" /\ Read /\ Guarded(wire, out, Ends, Texts) /\ call = "mtTxt"
        /\ text' = IF StrCode(L) = "UNK" THEN L ELSE NoLine
        /\ IF mode.verbose THEN pc' = "last"
           ELSE pc' = "idle" /\ (res' = "OK" => StrCode(L) = "OK" \/ TRUE \in MayEndInZero(L))
    <3>1. /\ pc = "text" /\ Read /\ Guarded(wire, out, Ends, Texts) /\ call = "mtTxt"
          /\ text' = IF StrCode(L) = "UNK" THEN L ELSE NoLine
      BY <1>2, <1>8 DEF ReadText, TextRead
    <3>2. IF mode.verbose THEN pc' = "last"
          ELSE pc' = "idle" /\ (res' = "OK" => StrCode(L) = "OK" \/ TRUE \in MayEndInZero(L))
      BY <1>8, Ended, ReturnedOk DEF ReadText, Return
    <3> QED
      BY <3>1, <3>2
  <2>2. CASE L \in Texts
    <3>1. StrCode(L) = "UNK"
      BY <2>2 DEF StrCode, Texts
    <3> QED
      BY <2>1, <2>2, <3>1 DEF TextRead, Texts
  <2>3. CASE L \notin Texts /\ mode.verbose
    BY <1>0, <2>1, <2>3, ReadNoText
  <2>4. CASE L \notin Texts /\ ~mode.verbose
    <3>1. L \notin Ends
      BY <2>1, GuardedTail DEF Read, L, IInv, TypeOK
    <3>2. L \notin OkLines
      BY <2>4, <3>1 DEF Ends
    <3>3. res' = "OK" => IsEvent(L) /\ text' = L
      BY <2>1, <2>4, <3>2, ReadType, EventIsNoCode DEF OkLines
    <3> QED
      BY <1>0, <2>1, <2>4, <3>3 DEF EventTakenForText, IsEvent, Ring
  <2> QED
    BY <2>2, <2>3, <2>4
<1>9. CASE ReadLast
  <2>1. pc = "last" /\ Read /\ text' = text /\ pc' = "idle" /\ (res' = "OK" => StrCode(L) = "OK")
    BY <1>2, <1>9 DEF ReadLast, Return
  <2> QED
    BY <1>2, <2>1, ReadNoEnd DEF TextRead
<1>10. CASE ReadCode \/ ReadCode2 \/ ReadLines \/ ReadBin \/ ReadEvent
  BY <1>2, <1>10 DEF ReadCode, ReadCode2, ReadLines, ReadBin, ReadEvent
<1> QED
  BY <1>3, <1>4, <1>5, <1>6, <1>7, <1>8, <1>9, <1>10 DEF ReadingStep, AnswerStep

LEMMA ReadingT == IInv /\ BInv /\ OInv /\ TInv /\ mode' = mode /\ ReadingStep => TInv'
<1> SUFFICES ASSUME IInv, BInv, OInv, TInv, mode' = mode, ReadingStep PROVE TInv'
  OBVIOUS
<1>1. UNCHANGED <<call, n, clean>>
  BY ReadingReads DEF ReadStep
<1>2. HeadFirst'
  BY ReadingHead
<1>3. TextFirst' /\ TextKept'
  BY <1>1, ReadingText DEF TextFirst, TextKept, Waiting, Returned, TextTakenForCode
<1> QED
  BY <1>2, <1>3 DEF TInv

LEMMA StepT == IInv /\ BInv /\ OInv /\ TInv /\ [Next]_vars => TInv'
<1> SUFFICES ASSUME IInv, BInv, OInv, TInv, [Next]_vars PROVE TInv'
  OBVIOUS
<1>1. CASE Call
  BY <1>1 DEF Call, TInv, HeadFirst, TextFirst, TextKept
<1>2. CASE DataTimeout /\ mode' = mode
  <2>1. UNCHANGED <<mode, pc, call, n, text, res, clean>>
    BY <1>2 DEF DataTimeout, dte
  <2>2. clean => call = "setMo"
    BY <1>2, CleanData DEF DataTimeout
  <2> QED
    BY <2>1, <2>2, TextSame DEF WithText
<1>3. CASE DrainWire
  BY <1>3 DEF DrainWire, TInv, HeadFirst, TextFirst, TextKept, Waiting, Returned
<1>4. CASE WriteData
  <2>1. pc' = "code2" /\ call' = "setMo"
    BY <1>4 DEF WriteData, BInv, StageCalls, CallsAt
  <2> QED
    BY <2>1 DEF TInv, HeadFirst, TextFirst, TextKept, WithText
<1>5. CASE UNCHANGED vars
  <2>1. UNCHANGED <<mode, wire, out, pc, call, n, text, res, clean>>
    BY <1>5 DEF vars, dte, modem
  <2> QED
    BY <2>1, TextSame
<1> QED
  BY <1>1, <1>2, <1>3, <1>4, <1>5, Steps, UrcT, ExecuteT, EmitT, WriteT, ReadingT

(* The answer of such a command is its own: no line of another command is  *)
(* taken for a part of it, and the text that isu_get_imei, isu_get_rtc,    *)
(* isu_mo_to_mt and isu_get_mt_txt return is the modem's, not an event;    *)
(* of isu_get_mt_txt only if no message reads like a result code: when one *)
(* does, the line in front of it is returned (isu.c:280-289).              *)
THEOREM AnswerIsTrue == Spec => []AnswerIsOwn
<1>1. Spec => []OInv
  BY InitO, StepO, LinkInvariant, AloneInvariant, PTL DEF Spec
<1>2. Spec => []TInv
  BY <1>1, InitT, StepT, LinkInvariant, AloneInvariant, PTL DEF Spec
<1>3. BInv /\ TInv => AnswerIsOwn
  BY DEF BInv, Alone, TInv, TextKept, AnswerIsOwn, WithText, Returned
<1> QED
  BY <1>2, <1>3, AloneInvariant, PTL

(***************************************************************************)
(* The message is written to a modem that waits for it.                    *)
(***************************************************************************)
Readies == {l \in Lines : l.k = "READY"}

(* READY is the last line before the modem waits, and it waits until the   *)
(* thread has written or given up.                                         *)
Ready ==
  clean /\ call = "setMo" /\ pc \in {"echo", "code", "data"} =>
    /\ Some(wire, Readies) \/ pc = "data" => mst = "data"
    /\ Some(out, Readies) => Len(out) = 1

LEMMA InitReady == Init => Ready
BY DEF Init, Ready

LEMMA PlainNoReady ==
  ASSUME NEW ls \in Seq(Plain)
  PROVE  ~Some(ls, Readies)
<1>1. \A i \in 1..Len(ls) : ls[i] \in Plain
  BY ElementOfSeq
<1> QED
  BY <1>1 DEF Some, Readies, Plain

(* What the modem sends for a command but AT+SBDWB holds no READY.         *)
LEMMA AnswerReady ==
  ASSUME IInv, NEW c \in Asked, NEW i \in Nat,
         NEW ls \in {Answer(c, i), <<Err(i)>>} \cup CodeTexts(c, i) \cup Refusals(c, i)
  PROVE  Some(ls, Readies) => c = "setMo" /\ Len(ls) = 1
<1>1. CASE c # "setMo"
  <2>1. Sendable(ls, c)
    BY AnswerType, CodeTextType, RefusalType DEF IInv
  <2> QED
    BY <1>1, <2>1, PlainNoReady DEF Sendable
<1>2. CASE c = "setMo"
  <2>1. ls = <<Line("READY", 0, i)>> \/ ls = <<Err(i)>> \/ ls = <<Digit(3, i), Ok(i)>>
    <3>1. Answer(c, i) = <<Line("READY", 0, i)>>
      BY <1>2 DEF Answer
    <3> QED
      BY <1>2, <3>1, CodeTextShapes, RefusalShapes
  <2>2. Digit(3, i) \notin Readies /\ Ok(i) \notin Readies
    BY LineFields DEF Digit, Ok, Readies
  <2>3. ~Some(<<Digit(3, i), Ok(i)>>, Readies)
    BY <2>2, Tuple2
  <2> QED
    BY <1>2, <2>1, <2>3
<1> QED
  BY <1>1, <1>2

LEMMA ClosingReady ==
  ASSUME NEW v
  PROVE  ~Some(MessageAnswer(v), Readies)
<1>1. Digit(v, Head(cmds).n) \notin Readies /\ Ok(Head(cmds).n) \notin Readies
  BY LineFields DEF Digit, Ok, Readies
<1> QED
  BY <1>1, Tuple2 DEF MessageAnswer

LEMMA StepReady == IInv /\ BInv /\ OInv /\ Ready /\ [Next]_vars => Ready'
<1> SUFFICES ASSUME IInv, BInv, OInv, Ready, [Next]_vars PROVE Ready'
  OBVIOUS
<1>1. CASE Call \/ DrainWire \/ WriteData
  BY <1>1 DEF Call, DrainWire, WriteData, Ready
<1>2. CASE Urc
  <2>1. UNCHANGED <<pc, call, mst, out, clean>>
    BY <1>2 DEF Urc, dte
  <2>2. PICK l : Event(l) /\ wire' = Append(wire, l)
    BY <1>2 DEF Urc
  <2>3. l \in Lines /\ l \notin Readies /\ wire \in Seq(Lines)
    BY <2>2, EventLine DEF Foreign, Readies, IInv, TypeOK
  <2>4. Some(wire', Readies) => Some(wire, Readies)
    BY <2>2, <2>3, SomeAppend
  <2> QED
    BY <2>1, <2>4 DEF Ready, Readies
<1>3. CASE Execute
  <2>1. mst = "idle" /\ UNCHANGED <<wire, pc, call, clean>>
    BY <1>3 DEF Execute, dte
  <2> SUFFICES ASSUME clean, call = "setMo", pc \in {"echo", "code", "data"}
               PROVE  /\ ~Some(wire, Readies) /\ pc # "data"
                      /\ Some(out', Readies) => Len(out') = 1
    BY <2>1 DEF Ready, Readies
  <2>2. /\ out' \in {Answer(call, n), <<Err(n)>>} \cup CodeTexts(call, n) \cup Refusals(call, n)
        /\ n \in Nat
    BY <1>3, CleanExecuted
  <2> QED
    BY <2>1, <2>2, AnswerReady DEF Ready, Asked, AllCalls
<1>4. CASE Emit
  <2>1. /\ out # <<>> /\ out' = Tail(out) /\ wire' = Append(wire, Next1)
        /\ UNCHANGED <<pc, call, clean>>
        /\ Tail(out) = <<>> /\ Head(out).k = "READY" => mst' = "data"
    BY <1>4 DEF Emit, dte, Next1
  <2>2. out \in Seq(Lines) /\ wire \in Seq(Lines) /\ Next1 \in Lines /\ mst = "exec"
    BY <2>1, EmitLine DEF IInv, TypeOK, Sending
  <2> SUFFICES ASSUME clean, call = "setMo", pc \in {"echo", "code", "data"}
               PROVE  /\ Some(wire', Readies) => mst' = "data"
                      /\ pc # "data"
                      /\ Some(out', Readies) => Len(out') = 1
    BY <2>1 DEF Ready, Readies
  <2>3. ~Some(wire, Readies) /\ pc # "data"
    BY <2>2 DEF Ready
  <2>4. Len(out) = 1 => Tail(out) = <<>>
    BY <2>1, <2>2, Behead, EmptySeq
  <2>5. Next1 \in Readies => Head(out) \in Readies
    BY <2>1, EmitLine DEF Readies
  <2>6. Some(out, Readies) <=> Head(out) \in Readies \/ Some(Tail(out), Readies)
    BY <2>1, <2>2, SomeTail
  <2>7. Some(wire', Readies) => Head(out) \in Readies
    BY <2>1, <2>2, <2>3, <2>5, SomeAppend
  <2>8. Some(out, Readies) => Tail(out) = <<>>
    BY <2>4 DEF Ready
  <2> QED
    BY <2>1, <2>3, <2>6, <2>7, <2>8, Tuple0 DEF Readies
<1>5. CASE DataTimeout
  <2>1. UNCHANGED <<pc, call, clean>> /\ mst = "data"
    BY <1>5 DEF DataTimeout, dte
  <2>2. clean => ~(pc \in {"echo", "code", "data"})
    BY <1>5, <2>1, CleanData DEF DataTimeout
  <2> QED
    BY <2>1, <2>2 DEF Ready
<1>6. CASE WriteCmd
  <2>1. pc = "write" /\ call \in Asked /\ UNCHANGED <<call, n, clean>>
    BY <1>6 DEF WriteCmd, IInv, OwnStages
  <2> SUFFICES ASSUME clean, pc' # "idle"
               PROVE  pc' # "data" /\ ~Some(wire', Readies) /\ ~Some(out', Readies)
    BY <2>1 DEF Ready
  <2>2. /\ Receive(call)
        /\ wire' = IF mode.echo /\ mst # "data" THEN Append(wire, Line("ECHO", 0, n)) ELSE wire
        /\ pc' = IF mode.echo THEN "echo" ELSE FirstStage
    BY <1>6 DEF WriteCmd, Return
  <2>3. /\ out' = <<>> /\ wire \in Seq(Lines) /\ Line("ECHO", 0, n) \in Lines
        /\ All(wire, Foreign)
    BY <2>1, <2>2, CleanReceived DEF BInv, Begun, IInv, TypeOK, Line, Lines, LineKinds
  <2>4. ~Some(wire, Readies)
    BY <2>3 DEF All, Some, Foreign, Readies
  <2>5. Line("ECHO", 0, n) \notin Readies
    BY LineFields DEF Readies
  <2> QED
    BY <2>1, <2>2, <2>3, <2>4, <2>5, SomeAppend, Tuple0, FirstStages
<1>7. CASE ReadingStep /\ mode' = mode
  <2>1. UNCHANGED <<call, clean, mst, out>> /\ pc' \in NextStages
    BY <1>7, ReadingReads DEF ReadStep
  <2> SUFFICES ASSUME clean, call = "setMo", pc' \in {"code", "data"}
               PROVE  /\ Some(wire', Readies) \/ pc' = "data" => mst = "data"
                      /\ pc \in {"echo", "code"}
    BY <2>1 DEF Ready, Readies, NextStages
  <2>2. CheckEcho \/ ReadCode
    BY <1>7, Ended
       DEF ReadingStep, AnswerStep, ReadTimeout, ReadCode2, ReadLast, ReadLine1, ReadLine2,
           ReadLines, ReadHead, ReadText, ReadBin, ReadEvent, Return, BInv, StageCalls, CallsAt
  <2>3. \/ wire' = wire /\ pc' # "data"
        \/ Read /\ (pc' = "data" => IsReady(L))
    <3>1. CheckEcho => pc' # "data" /\ (Read \/ wire' = wire)
      BY FirstStages DEF CheckEcho, IInv, OwnStages
    <3>2. ReadCode => Read /\ (pc' = "data" => IsReady(L))
      BY Ended DEF ReadCode
    <3> QED
      BY <2>2, <3>1, <3>2
  <2>4. Read => (Some(wire, Readies) <=> L \in Readies \/ Some(wire', Readies)) /\ L \in Lines
    BY SomeTail, Behead DEF Read, L, IInv, TypeOK
  <2>5. Some(wire', Readies) \/ pc' = "data" => Some(wire, Readies)
    BY <2>3, <2>4 DEF IsReady, Readies
  <2>6. pc \in {"echo", "code"}
    BY <2>2 DEF CheckEcho, ReadCode
  <2> QED
    BY <2>5, <2>6 DEF Ready
<1>8. CASE UNCHANGED vars
  BY <1>8 DEF vars, dte, modem, Ready, Readies
<1> QED
  BY <1>1, <1>2, <1>3, <1>4, <1>5, <1>6, <1>7, <1>8, Steps

(* When isu_set_mo, started while the modem had nothing left to do, writes *)
(* its message, the modem waits for the message of this very call: no      *)
(* event, no rest of one and no timeout makes it go on too early.  It says *)
(* nothing of a READY that comes late, for an earlier AT+SBDWB.            *)
THEOREM DataIsAwaited == Spec => DataWhenReady
<1>1. Spec => []OInv
  BY InitO, StepO, LinkInvariant, AloneInvariant, PTL DEF Spec
<1>2. Spec => []Ready
  BY <1>1, InitReady, StepReady, LinkInvariant, AloneInvariant, PTL DEF Spec
<1>3. IInv /\ BInv /\ Ready => (pc = "data" /\ clean => mst = "data" /\ Head(cmds).n = n)
  BY CleanData DEF Ready, BInv, StageCalls, CallsAt
<1>4. IInv /\ BInv /\ Ready =>
        [pc = "data" /\ pc' = "code2" /\ clean => mst = "data" /\ Head(cmds).n = n]_vars
  BY <1>3
<1> QED
  BY <1>2, <1>4, LinkInvariant, AloneInvariant, PTL DEF DataWhenReady, Spec

(***************************************************************************)
(* The message that a session carries.                                     *)
(***************************************************************************)
Setters == {"setMo", "setTxt"}
Carriers == {"sbdix", "moToMt"}

(* What was stored is this call's, and nothing that is left to do changes  *)
(* it.                                                                     *)
Stored ==
  clean /\ did /\ call \in Setters =>
    /\ mo = n /\ mst # "data" /\ (cmds # <<>> => mst = "exec") /\ ~Some(out, Readies)

(* It stays in the modem for the session: a command that the modem may     *)
(* still have to execute is the session itself.                            *)
Session ==
  prev # 0 /\ call \in Carriers =>
    /\ mo = prev /\ (did => sent = prev)
    /\ mst # "data" /\ ~Some(out, Readies)
    /\ \A i \in 1..Len(cmds) : cmds[i].call \in Carriers \/ (i = 1 /\ mst = "exec")

SInv == Stored /\ Session

LEMMA InitS == Init => SInv
BY DEF Init, SInv, Stored, Session

LEMMA SameS ==
  SInv /\ UNCHANGED <<mst, cmds, out, mo, sent, call, n, clean, did, prev>> => SInv'
BY DEF SInv, Stored, Session, Readies

LEMMA CallS == IInv /\ BInv /\ OInv /\ SInv /\ mode' = mode /\ Call => SInv'
<1> SUFFICES ASSUME IInv, BInv, OInv, SInv, mode' = mode, Call PROVE SInv'
  OBVIOUS
<1>1. /\ pc = "idle" /\ clean' = FALSE /\ did' = FALSE
      /\ prev' = IF call \in Setters /\ res = "OK" /\ clean THEN n ELSE 0
      /\ UNCHANGED <<mst, cmds, out, mo, sent>>
  BY DEF Call, modem, Setters
<1> SUFFICES ASSUME prev' # 0
             PROVE  /\ mo = n /\ mst # "data" /\ ~Some(out, Readies)
                    /\ \A i \in 1..Len(cmds) : i = 1 /\ mst = "exec"
  BY <1>1 DEF SInv, Stored, Session, Readies
<1>2. call \in Setters /\ res = "OK" /\ clean /\ n # 0 /\ n \in Nat
  BY <1>1 DEF IInv, TypeOK
<1>3. did
  BY <1>1, <1>2 DEF OInv, OkMeansDone, Returned, EventTakenForText, Setters
<1>4. mo = n /\ mst # "data" /\ (cmds # <<>> => mst = "exec") /\ ~Some(out, Readies)
  BY <1>2, <1>3 DEF SInv, Stored
<1>5. cmds \in {<<>>, <<Own>>}
  BY <1>2 DEF BInv, Alone
<1>6. \A i \in 1..Len(cmds) : i = 1 /\ cmds # <<>>
  <2>1. CASE cmds = <<>>
    BY <2>1
  <2>2. CASE cmds = <<Own>>
    <3>1. Len(<<Own>>) = 1 /\ <<Own>> # <<>>
      OBVIOUS
    <3> QED
      BY <2>2, <3>1
  <2> QED
    BY <1>5, <2>1, <2>2
<1> QED
  BY <1>4, <1>6

LEMMA ExecuteS == IInv /\ BInv /\ SInv /\ mode' = mode /\ Execute => SInv'
<1> SUFFICES ASSUME IInv, BInv, SInv, mode' = mode, Execute PROVE SInv'
  OBVIOUS
<1>1. /\ mst = "idle" /\ cmds # <<>> /\ mst' = "exec"
      /\ UNCHANGED <<cmds, call, n, clean, prev>>
  BY DEF Execute, dte
<1>2. PICK c, i : c = Head(cmds).call /\ i = Head(cmds).n
  OBVIOUS
<1>3. c \in Asked /\ i \in Nat /\ 1 \in 1..Len(cmds) /\ Head(cmds) = cmds[1]
  <2>1. cmds \in Seq([call : Asked, n : Nat])
    BY DEF IInv, Sending
  <2>2. Head(cmds) \in [call : Asked, n : Nat]
    BY <1>1, <2>1, HeadTailProperties
  <2>3. 1 \in 1..Len(cmds) /\ Head(cmds) = cmds[1]
    BY <1>1, <2>1
  <2> QED
    BY <1>2, <2>2, <2>3
<1>4. \/ /\ out' \in {Answer(c, i)} \cup CodeTexts(c, i)
         /\ mo' = IF c = "clear" THEN 0 ELSE IF c = "setTxt" THEN i ELSE mo
         /\ sent' = IF c \in Carriers THEN mo ELSE sent
         /\ did' = (did \/ (i = n /\ c # "setMo"))
      \/ /\ out' \in {<<Err(i)>>} \cup Refusals(c, i)
         /\ UNCHANGED <<mo, sent, did>>
  BY <1>2 DEF Execute, Carriers
<1>5. Some(out', Readies) => c = "setMo"
  BY <1>3, <1>4, AnswerReady
<1>6. Stored'
  <2> SUFFICES ASSUME clean, did', call \in Setters PROVE mo' = n /\ ~Some(out', Readies)
    BY <1>1 DEF Stored, Readies
  <2>1. ~did
    BY <1>1 DEF SInv, Stored
  <2>2. c = call /\ i = n
    BY <1>1, <1>2 DEF BInv, Alone, Own
  <2> QED
    BY <1>4, <1>5, <2>1, <2>2 DEF Setters
<1>7. Session'
  <2> SUFFICES ASSUME prev # 0, call \in Carriers
               PROVE  /\ mo' = prev /\ (did' => sent' = prev) /\ ~Some(out', Readies)
                      /\ \A j \in 1..Len(cmds) : cmds[j].call \in Carriers \/ j = 1
    BY <1>1 DEF Session, Readies
  <2>1. /\ mo = prev /\ (did => sent = prev)
        /\ \A j \in 1..Len(cmds) : cmds[j].call \in Carriers
    BY <1>1 DEF SInv, Session
  <2>2. c \in Carriers
    BY <1>2, <1>3, <2>1
  <2>3. mo' = mo /\ (sent' = mo \/ (sent' = sent /\ did' = did))
    BY <1>4, <2>2 DEF Carriers
  <2> QED
    BY <1>5, <2>1, <2>2, <2>3 DEF Carriers
<1> QED
  BY <1>6, <1>7 DEF SInv

LEMMA EmitS == IInv /\ BInv /\ SInv /\ mode' = mode /\ Emit => SInv'
<1> SUFFICES ASSUME IInv, BInv, SInv, mode' = mode, Emit PROVE SInv'
  OBVIOUS
<1>1. /\ out # <<>> /\ out' = Tail(out)
      /\ UNCHANGED <<call, n, clean, did, mo, sent, prev>>
      /\ \/ mst' = mst /\ cmds' = cmds
         \/ Head(out).k = "READY"
         \/ mst' = "idle" /\ cmds' = Tail(cmds)
  BY DEF Emit, dte
<1>2. out \in Seq(Lines) /\ Head(out) \in Lines /\ mst = "exec" /\ cmds # <<>>
  BY <1>1, EmitLine DEF IInv, TypeOK, Sending
<1>3. Some(out, Readies) <=> Head(out) \in Readies \/ Some(Tail(out), Readies)
  BY <1>1, <1>2, SomeTail
<1>4. ~Some(out, Readies) =>
        /\ ~Some(out', Readies)
        /\ \/ mst' = mst /\ cmds' = cmds
           \/ mst' = "idle" /\ cmds' = Tail(cmds)
  BY <1>1, <1>2, <1>3 DEF Readies
<1>5. Stored'
  <2> SUFFICES ASSUME clean, did, call \in Setters
               PROVE  mo = n /\ mst' # "data" /\ (cmds' # <<>> => mst' = "exec") /\ ~Some(out', Readies)
    BY <1>1 DEF Stored, Readies
  <2>1. cmds = <<Own>> /\ Tail(<<Own>>) = <<>>
    BY <1>2 DEF BInv, Alone
  <2> QED
    BY <1>2, <1>4, <2>1 DEF SInv, Stored
<1>6. Session'
  <2> SUFFICES ASSUME prev # 0, call \in Carriers
               PROVE  /\ mo = prev /\ (did => sent = prev) /\ mst' # "data" /\ ~Some(out', Readies)
                      /\ \A i \in 1..Len(cmds') :
                           cmds'[i].call \in Carriers \/ (i = 1 /\ mst' = "exec")
    BY <1>1 DEF Session, Readies
  <2>1. /\ mo = prev /\ (did => sent = prev) /\ ~Some(out, Readies)
        /\ \A i \in 1..Len(cmds) : cmds[i].call \in Carriers \/ i = 1
    BY DEF SInv, Session
  <2>2. CASE mst' = mst /\ cmds' = cmds
    BY <1>2, <1>4, <2>1, <2>2
  <2>3. CASE mst' = "idle" /\ cmds' = Tail(cmds)
    <3>1. cmds \in Seq([call : Asked, n : Nat])
      BY DEF IInv, Sending
    <3>2. ASSUME NEW i \in 1..Len(cmds') PROVE i + 1 \in 1..Len(cmds) /\ cmds'[i] = cmds[i + 1] /\ i + 1 # 1
      BY <1>2, <2>3, <3>1
    <3> QED
      BY <1>4, <2>1, <2>3, <3>2
  <2> QED
    BY <1>4, <2>1, <2>2, <2>3
<1> QED
  BY <1>5, <1>6 DEF SInv

LEMMA WriteS == IInv /\ BInv /\ SInv /\ mode' = mode /\ WriteCmd => SInv'
<1> SUFFICES ASSUME IInv, BInv, SInv, mode' = mode, WriteCmd PROVE SInv'
  OBVIOUS
<1>1. /\ pc = "write" /\ UNCHANGED <<call, n, clean, did, mo, sent, prev>>
  BY DEF WriteCmd
<1>2. ~did
  BY <1>1 DEF BInv, Numbers
<1>3. Session'
  <2> SUFFICES ASSUME prev # 0, call \in Carriers
               PROVE  /\ mo = prev /\ mst' # "data" /\ ~Some(out', Readies)
                      /\ \A i \in 1..Len(cmds') :
                           cmds'[i].call \in Carriers \/ (i = 1 /\ mst' = "exec")
    BY <1>1, <1>2 DEF Session, Readies
  <2>1. /\ mo = prev /\ mst # "data" /\ ~Some(out, Readies)
        /\ \A i \in 1..Len(cmds) : cmds[i].call \in Carriers \/ (i = 1 /\ mst = "exec")
    BY DEF SInv, Session
  <2>2. /\ UNCHANGED <<mst, out>>
        /\ cmds' = cmds \/ cmds' = Append(cmds, [call |-> call, n |-> n])
    BY <2>1 DEF WriteCmd, Receive
  <2>3. CASE cmds' = cmds
    BY <2>1, <2>2, <2>3
  <2>4. CASE cmds' = Append(cmds, [call |-> call, n |-> n])
    <3>1. cmds \in Seq([call : Asked, n : Nat]) /\ Len(cmds) \in Nat
      BY LenProperties DEF IInv, Sending
    <3>2. ASSUME NEW i \in 1..Len(cmds')
          PROVE  \/ i \in 1..Len(cmds) /\ cmds'[i] = cmds[i]
                 \/ cmds'[i] = [call |-> call, n |-> n]
      BY <2>4, <3>1
    <3> QED
      BY <2>1, <2>2, <3>2
  <2> QED
    BY <2>2, <2>3, <2>4
<1> QED
  BY <1>1, <1>2, <1>3 DEF SInv, Stored

LEMMA WriteDataS == IInv /\ BInv /\ SInv /\ mode' = mode /\ WriteData => SInv'
<1> SUFFICES ASSUME IInv, BInv, SInv, mode' = mode, WriteData PROVE SInv'
  OBVIOUS
<1>1. /\ call = "setMo" /\ UNCHANGED <<call, n, clean, cmds>>
  BY DEF WriteData, BInv, StageCalls, CallsAt
<1>2. \/ UNCHANGED <<mst, mo, did, out>>
      \/ mst = "data" /\ mst' = "exec" /\ mo' = n /\ did' = (Head(cmds).n = n) /\ out' = MessageAnswer(0)
      \/ mst = "data" /\ mst' = "exec" /\ UNCHANGED <<mo, did>> /\ out' = MessageAnswer(2)
  BY DEF WriteData, MessageAnswer
<1>3. Stored'
  <2> SUFFICES ASSUME clean, did'
               PROVE  mo' = n /\ mst' # "data" /\ (cmds # <<>> => mst' = "exec") /\ ~Some(out', Readies)
    BY <1>1 DEF Stored, Readies
  <2>1. did => mo = n /\ mst # "data" /\ (cmds # <<>> => mst = "exec") /\ ~Some(out, Readies)
    BY <1>1 DEF SInv, Stored, Setters
  <2> QED
    BY <1>2, <2>1, ClosingReady
<1>4. Session'
  BY <1>1 DEF Session, Carriers
<1> QED
  BY <1>3, <1>4 DEF SInv

LEMMA StepS == IInv /\ BInv /\ OInv /\ SInv /\ [Next]_vars => SInv'
<1> SUFFICES ASSUME IInv, BInv, OInv, SInv, [Next]_vars PROVE SInv'
  OBVIOUS
<1>1. CASE Urc
  BY <1>1, SameS DEF Urc, dte
<1>2. CASE DataTimeout
  <2>1. mst = "data" /\ UNCHANGED <<call, n, clean, did, prev>>
    BY <1>2 DEF DataTimeout, dte
  <2> QED
    BY <2>1 DEF SInv, Stored, Session
<1>3. CASE DrainWire
  <2>1. UNCHANGED <<mst, cmds, out, mo, sent, call, n, did, prev>> /\ ~did
    BY <1>3 DEF DrainWire, BInv, Numbers
  <2> QED
    BY <2>1 DEF SInv, Stored, Session, Readies
<1>4. CASE ReadingStep /\ mode' = mode
  BY <1>4, ReadingReads, SameS DEF ReadStep
<1>5. CASE UNCHANGED vars
  BY <1>5, SameS DEF vars, dte, modem
<1> QED
  BY <1>1, <1>2, <1>3, <1>4, <1>5, Steps, CallS, ExecuteS, EmitS, WriteS, WriteDataS

(* A session, or isu_mo_to_mt, that returns OK after an isu_set_mo or      *)
(* isu_set_mo_txt that returned OK carried that message, if both commands  *)
(* started while the modem had nothing left to do ("clean").               *)
THEOREM SessionIsTrue == Spec => []SessionCarriesMessage
<1>1. Spec => []OInv
  BY InitO, StepO, LinkInvariant, AloneInvariant, PTL DEF Spec
<1>2. Spec => []SInv
  BY <1>1, InitS, StepS, LinkInvariant, AloneInvariant, PTL DEF Spec
<1>3. OInv /\ SInv => SessionCarriesMessage
  BY DEF OInv, OkMeansDone, SInv, Session, Carriers, SessionCarriesMessage, Returned, EventTakenForText
<1> QED
  BY <1>1, <1>2, <1>3, PTL

(***************************************************************************)
(* A command that fails was not executed, by a modem that answers in time, *)
(* keeps events out of its answers and sends no text that reads like a     *)
(* result code.                                                            *)
(***************************************************************************)
Exact == ~mode.late /\ ~mode.inside /\ ~TextTakenForCode

(* What is still to be read of the answer, the echo in front of it apart.  *)
Pending == wire \o out
Stage == IF pc = "echo" THEN FirstStage ELSE pc
Rest == IF pc = "echo" THEN Tail(Pending) ELSE Pending

EchoAhead == Exact /\ clean /\ pc = "echo" => Pending # <<>> /\ Head(Pending).k = "ECHO"

(* At least k events follow.                                               *)
EventsFollow(q, k) == Len(q) >= k /\ All(q, {l \in Lines : IsEvent(l)})

(* The rest of a good answer at stage p, after what was read of it.        *)
Text == Line("TEXT", 0, n)
Finishing(p, q) ==
  CASE p = "code" -> call = "clear" /\ q = <<Digit(0, n), Ok(n)>>
    [] p = "code2" -> q = <<Digit(0, n), Ok(n)>>
    [] p = "line1" -> q = CASE call = "setTxt" -> <<Ok(n)>>
                            [] call = "sbdix" -> <<Line("SBDIX", 0, n), Ok(n)>>
                            [] OTHER -> <<Text, Ok(n)>>
    [] p = "line2" -> /\ q = <<Ok(n)>>
                      /\ call = "sbdix" => text.k = "SBDIX"
                      /\ call = "query" => text.k = "TEXT" /\ text.v = 0
    [] p = "lines" -> q \in {<<Text, Text, Ok(n)>>, <<Text, Ok(n)>>, <<Ok(n)>>}
    [] p = "bin" -> q = <<Line("BIN", 0, n), Ok(n)>>
    [] p = "head" -> q = IF mode.verbose THEN <<Line("HEAD", 0, n), Text, Ok(n)>>
                         ELSE <<Line("HEAD", 0, n), Line("TEXT0", 0, n)>>
    [] p = "text" -> q = IF mode.verbose THEN <<Text, Ok(n)>> ELSE <<Line("TEXT0", 0, n)>>
    [] p = "last" -> IF call = "evtReport"
                     THEN q # <<>> /\ Head(q) = Ok(n) /\ EventsFollow(Tail(q), 2)
                     ELSE q = <<Ok(n)>> /\ (call \in {"setMo", "clear"} => code = 0)
    [] p = "event" -> EventsFollow(q, events)
    [] OTHER -> FALSE

(* The modem will not execute the command any more.                        *)
Executed == cmds = <<>> \/ mst # "idle"

(* The calls whose caller gives the buffer for the text.  When one of them *)
(* fails there is nothing to read but ERROR; no line that another one      *)
(* reads then is longer than its buffer.                                   *)
Buffered == {"get", "moToMt", "rev", "mtTxt"}
Short == {l \in Lines : IF call \in Buffered THEN l = Err(n) ELSE l.n = n \/ l.k \notin LongKinds}
ShortAnswer ==
  call # "setMo" =>
    /\ All(Rest, Short)
    /\ call = "rev" => text = NoLine
    /\ pc = "line2" => call \notin Buffered /\ text \in Short

(* No text is there before a command is written.                           *)
Fresh == pc \in {"drain", "write"} => text = NoLine

(* The four courses of a command: it waits in the modem, it is prompted    *)
(* for its message, it fails, or it is done and the answer is complete.    *)
Unexecuted ==
  /\ ~did /\ mst = "idle" /\ cmds = <<Own>> /\ text = NoLine
  /\ Stage = FirstStage /\ Rest = <<>>
Prompted ==
  /\ ~did /\ Executed /\ call = "setMo"
  /\ \/ Stage = "code" /\ Rest = <<Line("READY", 0, n)>>
     \/ pc = "data" /\ Rest = <<>>
Failed == ~did /\ Executed /\ pc # "data" /\ ~Some(Pending, Readies) /\ ShortAnswer
Done == did /\ Executed /\ Finishing(Stage, Rest)

Course == Exact /\ clean /\ Waiting => Unexecuted \/ Prompted \/ Failed \/ Done
Settled ==
  Exact /\ clean /\ pc = "idle" /\ res # "OK" =>
    /\ Executed
    /\ res # "OVERFLOW" /\ ~CodeCutOff => ~did
    /\ res = "OVERFLOW" /\ call # "getMt" => did

FInv == EchoAhead /\ Course /\ Settled

LEMMA InitF == Init => FInv
BY DEF Init, FInv, EchoAhead, Course, Settled

LEMMA InitFresh == Init => Fresh
BY DEF Init, Fresh

LEMMA StepFresh == IInv /\ Fresh /\ [Next]_vars => Fresh'
<1> SUFFICES ASSUME IInv, Fresh, [Next]_vars PROVE Fresh'
  OBVIOUS
<1>1. CASE Call \/ DrainWire \/ WriteData
  BY <1>1 DEF Call, DrainWire, WriteData, Fresh
<1>2. CASE Urc \/ Execute \/ Emit \/ DataTimeout
  BY <1>2 DEF Urc, Execute, Emit, DataTimeout, dte, Fresh
<1>3. CASE WriteCmd
  <2>1. pc = "write" /\ call \in Asked
    BY <1>3 DEF WriteCmd, IInv, OwnStages
  <2>2. pc' \notin {"drain", "write"}
    BY <1>3, <2>1, FirstStages DEF WriteCmd, Return
  <2> QED
    BY <2>2 DEF Fresh
<1>4. CASE ReadingStep /\ mode' = mode
  BY <1>4, ReadingReads DEF ReadStep, NextStages, Fresh
<1>5. CASE UNCHANGED vars
  BY <1>5 DEF vars, dte, Fresh
<1> QED
  BY <1>1, <1>2, <1>3, <1>4, <1>5, Steps

(***************************************************************************)
(* Sequences in a row.                                                     *)
(***************************************************************************)
LEMMA Joined ==
  ASSUME NEW w \in Seq(Lines), NEW o \in Seq(Lines)
  PROVE  /\ w \o o \in Seq(Lines) /\ Len(w) \in Nat /\ Len(o) \in Nat
         /\ Len(w \o o) = Len(w) + Len(o)
         /\ \A i \in 1..Len(w) : (w \o o)[i] = w[i]
         /\ \A i \in 1..Len(o) : (w \o o)[Len(w) + i] = o[i]
BY ConcatProperties, LenProperties

LEMMA JoinedTail ==
  ASSUME NEW w \in Seq(Lines), w # <<>>, NEW o \in Seq(Lines)
  PROVE  w \o o # <<>> /\ Head(w \o o) = Head(w) /\ Tail(w \o o) = Tail(w) \o o
OBVIOUS

LEMMA JoinedNext ==
  ASSUME NEW w \in Seq(Lines), NEW o \in Seq(Lines), o # <<>>
  PROVE  Append(w, Head(o)) \o Tail(o) = w \o o
OBVIOUS

LEMMA JoinedEmpty ==
  ASSUME NEW w \in Seq(Lines)
  PROVE  w \o <<>> = w /\ <<>> \o w = w
BY ConcatEmptySeq

LEMMA JoinedSome ==
  ASSUME NEW w \in Seq(Lines), NEW o \in Seq(Lines), NEW S
  PROVE  Some(w \o o, S) <=> Some(w, S) \/ Some(o, S)
<1> DEFINE q == w \o o
<1>1. /\ Len(w) \in Nat /\ Len(o) \in Nat /\ Len(q) = Len(w) + Len(o)
      /\ \A i \in 1..Len(w) : q[i] = w[i]
      /\ \A i \in 1..Len(o) : q[Len(w) + i] = o[i]
  BY Joined
<1> HIDE DEF q
<1>2. \A i \in 1..Len(q) : i \in 1..Len(w) \/ (i - Len(w) \in 1..Len(o) /\ Len(w) + (i - Len(w)) = i)
  BY <1>1
<1>3. \A i \in 1..Len(q) : i \in 1..Len(w) \/ (i - Len(w) \in 1..Len(o) /\ q[i] = o[i - Len(w)])
  BY <1>1, <1>2
<1>4. (\A i \in 1..Len(w) : i \in 1..Len(q)) /\ (\A i \in 1..Len(o) : Len(w) + i \in 1..Len(q))
  BY <1>1
<1>5. Some(q, S) <=> Some(w, S) \/ Some(o, S)
  BY <1>1, <1>3, <1>4 DEF Some
<1> QED
  BY <1>5 DEF q

LEMMA Parts ==
  \A a, b, c : /\ <<a>> # <<>> /\ Head(<<a>>) = a /\ Tail(<<a>>) = <<>>
               /\ <<a, b>> # <<>> /\ Head(<<a, b>>) = a /\ Tail(<<a, b>>) = <<b>>
               /\ <<a, b, c>> # <<>> /\ Head(<<a, b, c>>) = a /\ Tail(<<a, b, c>>) = <<b, c>>
OBVIOUS

LEMMA PendingRead ==
  ASSUME IInv, Read, out' = out
  PROVE  /\ Pending # <<>> /\ L = Head(Pending) /\ Pending' = Tail(Pending)
         /\ Pending \in Seq(Lines) /\ L \in Lines
<1>1. wire \in Seq(Lines) /\ out \in Seq(Lines) /\ wire # <<>> /\ wire' = Tail(wire)
  BY DEF IInv, TypeOK, Read
<1> QED
  BY <1>1, JoinedTail, Joined, Behead DEF Pending, L

(* A modem that is not late has nothing left to say at a timeout.          *)
LEMMA PendingTimeout ==
  ASSUME IInv, Exact, ReadTimeout
  PROVE  wire = <<>> /\ out = <<>> /\ Pending = <<>> /\ (cmds = <<>> \/ mst = "data")
BY JoinedEmpty DEF ReadTimeout, NothingComes, Exact, Pending, IInv, TypeOK

LEMMA SameStage == UNCHANGED <<call, pc>> => Stage' = Stage
BY DEF Stage, FirstStage

LEMMA SameRest == UNCHANGED <<wire, out, pc>> => Rest' = Rest /\ Pending' = Pending
BY DEF Rest, Pending

LEMMA ExactSame == UNCHANGED <<mode, call>> => (Exact' <=> Exact)
BY DEF Exact, TextTakenForCode

LEMMA SameShort ==
  UNCHANGED <<mode, call, n, text, pc, Rest>> => (ShortAnswer' <=> ShortAnswer) /\ Short' = Short
BY DEF ShortAnswer, Short, All, Err, Digit

(* The steps that change neither the thread nor what is to be read.        *)
LEMMA SameF ==
  ASSUME FInv, UNCHANGED <<mode, call, pc, n, text, code, events, res, clean, did>>,
         Exact /\ clean => (Executed => Executed'),
         Exact /\ clean /\ (Waiting \/ pc = "idle") => Pending' = Pending,
         Exact /\ clean /\ Waiting => ~Unexecuted \/ Unexecuted'
  PROVE  FInv'
<1>1. Stage' = Stage /\ (Exact' <=> Exact)
  BY SameStage, ExactSame
<1>2. ASSUME Exact, clean, Waiting PROVE Rest' = Rest /\ Pending' = Pending
  BY <1>2 DEF Rest
<1>3. EchoAhead'
  BY <1>1, <1>2 DEF FInv, EchoAhead, Waiting
<1>4. Course'
  <2> SUFFICES ASSUME Exact, clean, Waiting PROVE (Unexecuted \/ Prompted \/ Failed \/ Done)'
    BY <1>1 DEF Course, Waiting
  <2>1. Finishing(Stage, Rest)' <=> Finishing(Stage, Rest)
    BY <1>1, <1>2 DEF Finishing, Text, Ok, EventsFollow, All, IsEvent, Ring, Digit
  <2>2. ShortAnswer' <=> ShortAnswer
    BY <1>2, SameShort
  <2> QED
    BY <1>1, <1>2, <2>1, <2>2 DEF FInv, Course, Prompted, Failed, Done, Readies
<1>5. Settled'
  BY <1>1 DEF FInv, Settled, CodeCutOff
<1> QED
  BY <1>3, <1>4, <1>5 DEF FInv

(***************************************************************************)
(* The command is written, and executed.                                   *)
(***************************************************************************)
LEMMA WriteF == IInv /\ BInv /\ Fresh /\ FInv /\ mode' = mode /\ WriteCmd => FInv'
<1> SUFFICES ASSUME IInv, BInv, Fresh, FInv, mode' = mode, WriteCmd PROVE FInv'
  OBVIOUS
<1>1. /\ pc = "write" /\ call \in Asked /\ text = NoLine
      /\ UNCHANGED <<call, n, text, clean, did>>
  BY DEF WriteCmd, IInv, OwnStages, Fresh
<1> SUFFICES ASSUME Exact, clean PROVE FInv'
  BY <1>1, ExactSame DEF FInv, EchoAhead, Course, Settled
<1>2. ~did /\ wire = <<>> /\ cmds = <<>> /\ mst = "idle"
  BY <1>1 DEF BInv, Numbers, Begun, Exact
<1>0. NoLine' = NoLine
  BY DEF NoLine, Line
<1>3. CASE pc' = "idle" /\ res' = "AT" /\ UNCHANGED <<wire, mst, cmds, out>>
  BY <1>1, <1>2, <1>3 DEF FInv, EchoAhead, Course, Settled, Executed, Waiting
<1>4. CASE /\ Receive(call)
           /\ wire' = IF mode.echo /\ mst # "data" THEN Append(wire, Line("ECHO", 0, n)) ELSE wire
           /\ pc' = IF mode.echo THEN "echo" ELSE FirstStage
  <2>1. cmds' = <<Own>> /\ out' = <<>> /\ mst' = "idle" /\ Own' = Own
    BY <1>1, <1>4, CleanReceived DEF Own
  <2>2. Pending' = wire'
    <3>1. wire' \in Seq(Lines)
      BY <1>1, WriteInv DEF IInv, TypeOK
    <3> QED
      BY <2>1, <3>1, JoinedEmpty DEF Pending
  <2>3. Stage' = FirstStage' /\ FirstStage' = FirstStage
    BY <1>1, <1>4, FirstStages DEF Stage, FirstStage
  <2>4. /\ pc' = "echo" => Pending' = <<Line("ECHO", 0, n)>>
        /\ pc' # "echo" => Pending' = <<>>
    BY <1>1, <1>2, <1>4, <2>2, FirstStages
  <2>5. Rest' = <<>> /\ (pc' = "echo" => Pending' # <<>> /\ Head(Pending').k = "ECHO")
    <3>1. CASE pc' = "echo"
      <4>1. Pending' # <<>> /\ Head(Pending') = Line("ECHO", 0, n) /\ Tail(Pending') = <<>>
        BY <2>4, <3>1, Parts
      <4> QED
        BY <3>1, <4>1, LineFields DEF Rest
    <3>2. CASE pc' # "echo"
      BY <2>4, <3>2 DEF Rest
    <3> QED
      BY <3>1, <3>2
  <2>6. pc' # "idle"
    BY <1>1, <1>4, FirstStages
  <2> QED
    BY <1>0, <1>1, <1>2, <2>1, <2>3, <2>5, <2>6 DEF FInv, EchoAhead, Course, Settled, Unexecuted
<1> QED
  BY <1>3, <1>4 DEF WriteCmd, Return

LEMMA EventsType ==
  ASSUME TypeOK
  PROVE  Svca(msvca) \in {l \in Lines : IsEvent(l)} /\ Line("SIGQ", 0, 0) \in {l \in Lines : IsEvent(l)}
<1>1. Svca(msvca) \in Lines /\ Svca(msvca).k = "SVCA"
  BY EventType DEF TypeOK
<1>2. Line("SIGQ", 0, 0) \in Lines /\ Line("SIGQ", 0, 0).k = "SIGQ"
  BY DEF Line, Lines, LineKinds
<1> QED
  BY <1>1, <1>2 DEF IsEvent

(* The answer to a command that is executed is complete.                   *)
LEMMA FinishingFirst ==
  ASSUME TypeOK, call \in Asked, call # "setMo"
  PROVE  Finishing(FirstStage, Answer(call, n))
<1>0. n \in Nat
  BY DEF TypeOK
<1>1. CASE call = "clear"
  BY <1>1 DEF Finishing, FirstStage, Answer
<1>2. CASE call = "sbdix"
  BY <1>2 DEF Finishing, FirstStage, Answer
<1>3. CASE call \in {"get", "query", "moToMt"}
  BY <1>3 DEF Finishing, FirstStage, Answer, Text
<1>4. CASE call = "rev"
  BY <1>4 DEF Finishing, FirstStage, Answer, Text
<1>5. CASE call = "getMt"
  BY <1>5 DEF Finishing, FirstStage, Answer
<1>6. CASE call = "mtTxt"
  BY <1>6 DEF Finishing, FirstStage, Answer, Text
<1>7. CASE call = "mtAlert"
  BY <1>7 DEF Finishing, FirstStage, Answer
<1>8. CASE call = "setTxt"
  BY <1>8 DEF Finishing, FirstStage, Answer
<1>9. CASE call = "evtReport"
  <2> DEFINE q == <<Ok(n), Svca(msvca), Line("SIGQ", 0, 0)>>
  <2>1. q # <<>> /\ Head(q) = Ok(n) /\ Tail(q) = <<Svca(msvca), Line("SIGQ", 0, 0)>>
    BY Parts
  <2>2. EventsFollow(Tail(q), 2)
    <3>1. All(<<Svca(msvca), Line("SIGQ", 0, 0)>>, {l \in Lines : IsEvent(l)})
      BY EventsType, Tuple2
    <3>2. Len(<<Svca(msvca), Line("SIGQ", 0, 0)>>) = 2
      OBVIOUS
    <3> QED
      BY <2>1, <3>1, <3>2 DEF EventsFollow
  <2>3. Answer(call, n) = q /\ FirstStage = "last"
    BY <1>9 DEF Answer, FirstStage
  <2> HIDE DEF q
  <2> QED
    BY <1>9, <2>1, <2>2, <2>3 DEF Finishing
<1> QED
  BY <1>1, <1>2, <1>3, <1>4, <1>5, <1>6, <1>7, <1>8, <1>9 DEF Asked, AllCalls

(* The modem begins to answer when nothing is on the line but the echo.    *)
LEMMA RestAnswer ==
  ASSUME IInv, out = <<>>, wire' = wire, pc' = pc, out' \in Seq(Lines), Rest = <<>>,
         pc = "echo" => Pending # <<>> /\ Head(Pending).k = "ECHO"
  PROVE  /\ Rest' = out'
         /\ pc = "echo" => Pending' # <<>> /\ Head(Pending').k = "ECHO"
         /\ Some(Pending', Readies) => Some(out', Readies)
<1>1. wire \in Seq(Lines) /\ Pending = wire /\ Pending' = wire \o out'
  BY JoinedEmpty DEF IInv, TypeOK, Pending
<1>2. CASE pc = "echo"
  <2>1. wire # <<>> /\ Tail(wire) = <<>> /\ Head(wire).k = "ECHO"
    BY <1>1, <1>2 DEF Rest
  <2>2. Pending' # <<>> /\ Head(Pending') = Head(wire) /\ Tail(Pending') = out'
    <3>1. /\ Pending' # <<>> /\ Head(Pending') = Head(wire)
          /\ Tail(Pending') = Tail(wire) \o out'
      BY <1>1, <2>1, JoinedTail
    <3>2. Tail(Pending') = <<>> \o out'
      BY <2>1, <3>1
    <3> QED
      BY <3>1, <3>2, JoinedEmpty
  <2>3. Pending' \in Seq(Lines)
    BY <1>1, Joined
  <2>4. Some(Pending', Readies) => Some(out', Readies)
    BY <2>1, <2>2, <2>3, SomeTail DEF Readies
  <2> QED
    BY <1>2, <2>1, <2>2, <2>4 DEF Rest
<1>3. CASE pc # "echo"
  <2>1. wire = <<>>
    BY <1>1, <1>3 DEF Rest
  <2> QED
    BY <1>1, <1>3, <2>1, JoinedEmpty DEF Rest
<1> QED
  BY <1>2, <1>3

LEMMA ExecuteF == IInv /\ BInv /\ FInv /\ mode' = mode /\ Execute => FInv'
<1> SUFFICES ASSUME IInv, BInv, FInv, mode' = mode, Execute PROVE FInv'
  OBVIOUS
<1>1. /\ mst = "idle" /\ cmds # <<>> /\ mst' = "exec"
      /\ UNCHANGED <<wire, pc, call, n, text, code, events, res, cmds, clean>>
  BY DEF Execute, dte
<1> SUFFICES ASSUME Exact, clean PROVE FInv'
  BY <1>1, ExactSame DEF FInv, EchoAhead, Course, Settled
<1>2. ~Executed /\ Executed'
  BY <1>1 DEF Executed
<1>3. Settled'
  BY <1>1, <1>2, ExactSame DEF FInv, Settled
<1> SUFFICES ASSUME Waiting PROVE EchoAhead' /\ Course'
  BY <1>1, <1>3 DEF FInv, EchoAhead, Course, Waiting
<1>4. ~did /\ text = NoLine /\ Stage = FirstStage /\ Rest = <<>>
  BY <1>2 DEF FInv, Course, Prompted, Failed, Done, Unexecuted
<1>5. /\ out = <<>>
      /\ \/ out' = Answer(call, n) /\ did' = (did \/ call # "setMo")
         \/ out' \in {<<Err(n)>>} \cup Refusals(call, n) /\ did' = did
  BY CleanExecuted DEF Exact, TextTakenForCode, CodeTexts
<1>6. out' \in Seq(Lines) /\ call \in Asked /\ n \in Nat
  BY ExecuteInv DEF IInv, TypeOK, BInv, Alone
<1>7. /\ Rest' = out'
      /\ pc = "echo" => Pending' # <<>> /\ Head(Pending').k = "ECHO"
      /\ Some(Pending', Readies) => Some(out', Readies)
  BY <1>1, <1>4, <1>5, <1>6, RestAnswer DEF FInv, EchoAhead
<1>8. Stage' = FirstStage /\ FirstStage \in {"code", "line1", "lines", "bin", "head", "last"}
  BY <1>1, <1>4, <1>6, SameStage, FirstStages
<1>9. EchoAhead'
  BY <1>1, <1>7 DEF EchoAhead
<1>10. CASE out' = Answer(call, n) /\ call = "setMo"
  <2>1. Prompted'
    <3>1. out' = <<Line("READY", 0, n)>> /\ FirstStage = "code"
      BY <1>10 DEF Answer, FirstStage
    <3>2. ~did'
      <4>1. did' = (did \/ call # "setMo") \/ did' = did
        BY <1>5
      <4> QED
        BY <1>4, <1>10, <4>1
    <3> QED
      BY <1>1, <1>2, <1>7, <1>8, <1>10, <3>1, <3>2 DEF Prompted
  <2> QED
    BY <1>9, <2>1 DEF Course
<1>11. CASE out' = Answer(call, n) /\ did'
  <2>1. CASE call = "setMo"
    BY <1>10, <1>11, <2>1
  <2>2. CASE call # "setMo"
    <3>1. Finishing(FirstStage, out')
      BY <1>6, <1>11, <2>2, FinishingFirst DEF IInv
    <3>2. Finishing(Stage, Rest)'
      BY <1>1, <1>7, <1>8, <3>1 DEF Finishing, Text, Ok, EventsFollow, All, IsEvent, Ring, Digit
    <3> QED
      BY <1>2, <1>9, <1>11, <3>2 DEF Course, Done
  <2> QED
    BY <2>1, <2>2
<1>12. CASE out' \in {<<Err(n)>>} \cup Refusals(call, n) /\ did' = did
  <2>0. \/ out' = <<Err(n)>>
        \/ call \notin Buffered /\ out' = <<Digit(3, n), Ok(n)>>
        \/ call \notin Buffered /\ out' = <<Line("TEXT", 3, n), Ok(n)>>
    BY <1>12, RefusalShapes DEF Buffered
  <2>1. ~Some(out', Readies)
    <3>1. \/ out' = <<Err(n)>>
          \/ out' = <<Digit(3, n), Ok(n)>>
          \/ out' = <<Line("TEXT", 3, n), Ok(n)>>
      BY <2>0
    <3>2. /\ Err(n) \notin Readies /\ Ok(n) \notin Readies /\ Digit(3, n) \notin Readies
          /\ Line("TEXT", 3, n) \notin Readies
      BY LineFields DEF Readies, Err, Ok, Digit
    <3> QED
      BY <3>1, <3>2, Tuple1, Tuple2
  <2>2. pc \notin {"data", "line2"}
    BY <1>4, <1>8 DEF Stage
  <2>3. ShortAnswer'
    <3>1. /\ Err(n) \in Short
          /\ call \notin Buffered => Ok(n) \in Short /\ Digit(3, n) \in Short
                                    /\ Line("TEXT", 3, n) \in Short
      BY <1>6, OwnLines, LineFields, SomeValues DEF Short, By, Err, Ok, Digit
    <3>2. All(out', Short)
      BY <2>0, <3>1, Tuple1, Tuple2
    <3>3. Short' = Short /\ NoLine' = NoLine
      BY <1>1 DEF Short, Err, Digit, Line, NoLine
    <3> QED
      BY <1>1, <1>4, <1>7, <2>2, <3>2, <3>3 DEF ShortAnswer, All
  <2>4. Failed'
    BY <1>1, <1>2, <1>4, <1>7, <1>12, <2>1, <2>2, <2>3 DEF Failed, Readies
  <2> QED
    BY <1>9, <2>4 DEF Course
<1> QED
  BY <1>5, <1>10, <1>11, <1>12, <1>4

LEMMA CallF == IInv /\ FInv /\ mode' = mode /\ Call => FInv'
BY DEF Call, FInv, EchoAhead, Course, Settled

LEMMA DrainF == IInv /\ FInv /\ mode' = mode /\ DrainWire => FInv'
BY DEF DrainWire, FInv, EchoAhead, Course, Settled, Waiting

LEMMA UrcF == IInv /\ BInv /\ FInv /\ mode' = mode /\ Urc => FInv'
<1> SUFFICES ASSUME IInv, BInv, FInv, mode' = mode, Urc PROVE FInv'
  OBVIOUS
<1>1. UNCHANGED <<pc, call, n, text, code, events, res, mst, cmds, out, clean, did>>
  BY DEF Urc, dte
<1> SUFFICES ASSUME Exact, clean PROVE FInv'
  BY <1>1, ExactSame DEF FInv, EchoAhead, Course, Settled
<1>2. cmds = <<>> /\ pc \in {"idle", "drain", "event"}
  BY DEF Urc, Exact
<1>3. wire \in Seq(Lines) /\ out = <<>>
  BY <1>2 DEF IInv, TypeOK, Sending
<1>4. PICK l : Event(l) /\ wire' = Append(wire, l)
  BY DEF Urc
<1>5. l \in {e \in Lines : IsEvent(e)} /\ l \notin Readies
  <2>1. l \in Lines /\ l \notin Readies
    BY <1>4, EventLine DEF Foreign, Readies
  <2>2. IsEvent(l)
    BY <1>4, LineFields DEF Event, IsEvent, Svca
  <2> QED
    BY <2>1, <2>2
<1>6. Pending \in Seq(Lines) /\ Pending' = Append(Pending, l)
  <2>1. Pending = wire
    BY <1>3, JoinedEmpty DEF Pending
  <2>2. Append(wire, l) \in Seq(Lines)
    BY <1>3, <1>5, Appended
  <2>3. Pending' = Append(wire, l)
    BY <1>1, <1>3, <1>4, <2>2, JoinedEmpty DEF Pending
  <2> QED
    BY <1>3, <2>1, <2>3
<1>7. EchoAhead' /\ Settled' /\ (Executed' <=> Executed)
  BY <1>1, <1>2 DEF FInv, EchoAhead, Settled, Executed, CodeCutOff
<1>8. Course'
  <2> SUFFICES ASSUME Waiting PROVE (Failed \/ Done)'
    BY <1>1 DEF Course, Waiting
  <2>1. pc = "event" /\ Stage = "event" /\ Rest = Pending /\ Rest' = Pending' /\ Stage' = "event"
    BY <1>1, <1>2 DEF Waiting, Stage, Rest
  <2>2. ~Unexecuted /\ ~Prompted
    BY <1>2, <2>1, Parts DEF Unexecuted, Prompted
  <2>3. CASE Failed
    <3>1. call \in {"evt", "evtReport"}
      BY <2>1 DEF BInv, StageCalls, CallsAt
    <3>2. l \in Short
      BY <1>4, <1>5, <3>1, LineFields DEF Event, Svca, Ring, Digit, Short, Buffered, LongKinds
    <3>3. All(Append(Pending, l), Short)
      BY <1>5, <1>6, <2>1, <2>3, <3>1, <3>2, AllAppend DEF Failed, ShortAnswer
    <3>4. Short' = Short
      BY <1>1 DEF Short, Err, Digit
    <3>5. ShortAnswer'
      BY <1>1, <1>6, <2>1, <3>1, <3>3, <3>4 DEF ShortAnswer, All
    <3> QED
      BY <1>1, <1>5, <1>6, <1>7, <2>3, <3>5, SomeAppend DEF Failed, Readies
  <2>4. CASE Done
    <3> DEFINE E == {e \in Lines : IsEvent(e)}
    <3>1. EventsFollow(Pending, events)
      BY <2>1, <2>4 DEF Done, Finishing
    <3>2. Len(Append(Pending, l)) >= events
      BY <1>5, <1>6, <3>1, Appended DEF EventsFollow, IInv, TypeOK
    <3>3. All(Append(Pending, l), E)
      BY <1>5, <1>6, <3>1, AllAppend DEF EventsFollow
    <3>4. E' = E
      BY DEF IsEvent, Ring
    <3>5. EventsFollow(Pending, events)'
      BY <1>1, <1>6, <3>2, <3>3, <3>4 DEF EventsFollow, All
    <3>6. Finishing(Stage, Rest)'
      BY <2>1, <3>5 DEF Finishing
    <3> QED
      BY <1>1, <1>7, <2>4, <3>6 DEF Done
  <2> QED
    BY <2>2, <2>3, <2>4 DEF FInv, Course
<1> QED
  BY <1>7, <1>8 DEF FInv

(***************************************************************************)
(* An SVCA line arrives with the availability of that moment: what is to   *)
(* be read then is the same but for the number in it.                      *)
(***************************************************************************)
Similar(a, b) ==
  Len(a) = Len(b) /\ \A i \in 1..Len(a) : a[i] = b[i] \/ (a[i].k = "SVCA" /\ b[i].k = "SVCA")

LEMMA SimilarEmitted ==
  ASSUME NEW w \in Seq(Lines), NEW o \in Seq(Lines), o # <<>>, NEW x \in Lines,
         x = Head(o) \/ (x.k = "SVCA" /\ Head(o).k = "SVCA")
  PROVE  Similar(Append(w, x) \o Tail(o), w \o o)
<1> DEFINE a == Append(w, x)
<1> DEFINE t == Tail(o)
<1> DEFINE p == a \o t
<1> DEFINE q == w \o o
<1>1. /\ a \in Seq(Lines) /\ Len(w) \in Nat /\ Len(a) = Len(w) + 1
      /\ \A i \in 1..Len(w) : a[i] = w[i]
      /\ a[Len(w) + 1] = x
  BY Appended
<1>2. /\ t \in Seq(Lines) /\ Len(o) \in Nat \ {0} /\ Len(t) = Len(o) - 1 /\ Head(o) = o[1]
      /\ \A i \in 1..Len(t) : t[i] = o[i + 1]
  BY Behead
<1>3. /\ Len(p) = Len(a) + Len(t)
      /\ \A i \in 1..Len(a) : p[i] = a[i]
      /\ \A i \in 1..Len(t) : p[Len(a) + i] = t[i]
  BY <1>1, <1>2, Joined
<1>4. /\ Len(q) = Len(w) + Len(o)
      /\ \A i \in 1..Len(w) : q[i] = w[i]
      /\ \A i \in 1..Len(o) : q[Len(w) + i] = o[i]
  BY Joined
<1> HIDE DEF a, t, p, q
<1>5. Len(p) = Len(q) /\ Len(p) \in Nat
  BY <1>1, <1>2, <1>3, <1>4
<1>6. ASSUME NEW i \in 1..Len(w) PROVE p[i] = q[i]
  BY <1>1, <1>3, <1>4
<1>7. p[Len(w) + 1] = x /\ q[Len(w) + 1] = Head(o)
  BY <1>1, <1>2, <1>3, <1>4
<1>8. ASSUME NEW i \in 1..Len(p), i > Len(w) + 1 PROVE p[i] = q[i]
  <2>1. i - Len(a) \in 1..Len(t) /\ Len(a) + (i - Len(a)) = i
    BY <1>1, <1>2, <1>3, <1>8
  <2>2. p[i] = t[i - Len(a)]
    BY <1>3, <2>1
  <2>3. t[i - Len(a)] = o[i - Len(w)]
    <3>1. t[i - Len(a)] = o[(i - Len(a)) + 1]
      BY <1>2, <2>1
    <3>2. (i - Len(a)) + 1 = i - Len(w)
      BY <1>1
    <3> QED
      BY <3>1, <3>2
  <2>4. i - Len(w) \in 1..Len(o) /\ Len(w) + (i - Len(w)) = i
    BY <1>1, <1>2, <2>1
  <2>5. q[i] = o[i - Len(w)]
    BY <1>4, <2>4
  <2> QED
    BY <2>2, <2>3, <2>5
<1>9. \A i \in 1..Len(p) : i \in 1..Len(w) \/ i = Len(w) + 1 \/ i > Len(w) + 1
  BY <1>1, <1>5
<1>10. Similar(p, q)
  BY <1>5, <1>6, <1>7, <1>8, <1>9 DEF Similar
<1> QED
  BY <1>10 DEF a, t, p, q

LEMMA SimilarTail ==
  ASSUME NEW a \in Seq(Lines), NEW b \in Seq(Lines), Similar(a, b), b # <<>>
  PROVE  /\ a # <<>> /\ Similar(Tail(a), Tail(b))
         /\ Head(a) = Head(b) \/ (Head(a).k = "SVCA" /\ Head(b).k = "SVCA")
<1>1. Len(b) \in Nat \ {0} /\ Len(a) = Len(b)
  BY Behead DEF Similar
<1>2. a # <<>>
  BY <1>1
<1>3. /\ Len(Tail(a)) = Len(a) - 1 /\ Head(a) = a[1]
      /\ \A i \in 1..Len(Tail(a)) : i + 1 \in 1..Len(a) /\ Tail(a)[i] = a[i + 1]
  BY <1>2, Behead
<1>4. /\ Len(Tail(b)) = Len(b) - 1 /\ Head(b) = b[1]
      /\ \A i \in 1..Len(Tail(b)) : i + 1 \in 1..Len(b) /\ Tail(b)[i] = b[i + 1]
  BY Behead
<1>5. 1 \in 1..Len(a) /\ Len(Tail(a)) = Len(Tail(b))
  BY <1>1, <1>3, <1>4
<1> QED
  BY <1>2, <1>3, <1>4, <1>5 DEF Similar

LEMMA SimilarLines ==
  ASSUME NEW a, NEW b, Similar(a, b), NEW S
  PROVE  /\ (\A l \in S : l.k # "SVCA") /\ Some(a, S) => Some(b, S)
         /\ (\A i \in 1..Len(a) : a[i].k = "SVCA" => a[i] \in S) /\ All(b, S) => All(a, S)
BY DEF Similar, Some, All

LEMMA EmitF == IInv /\ BInv /\ OInv /\ FInv /\ mode' = mode /\ Emit => FInv'
<1> SUFFICES ASSUME IInv, BInv, OInv, FInv, mode' = mode, Emit PROVE FInv'
  OBVIOUS
<1>1. /\ out # <<>> /\ out' = Tail(out) /\ wire' = Append(wire, Next1)
      /\ UNCHANGED <<pc, call, n, text, code, events, res, clean, did>>
      /\ \/ UNCHANGED <<mst, cmds>>
         \/ mst' = "data" /\ UNCHANGED cmds
         \/ mst' = "idle" /\ cmds' = Tail(cmds)
  BY DEF Emit, dte, Next1
<1> SUFFICES ASSUME Exact, clean PROVE FInv'
  BY <1>1, ExactSame DEF FInv, EchoAhead, Course, Settled
<1>2. /\ out \in Seq(Lines) /\ wire \in Seq(Lines) /\ Next1 \in Lines /\ mst = "exec"
      /\ Next1 = Head(out) \/ (Next1.k = "SVCA" /\ Head(out).k = "SVCA")
  BY <1>1, EmitLine, LineFields DEF IInv, TypeOK, Sending, Next1, Svca
<1>3. cmds = <<Own>>
  BY <1>2 DEF BInv, Alone, IInv, TypeOK
<1>4. Executed' /\ ~Unexecuted
  BY <1>1, <1>2, <1>3, Parts DEF Executed, Unexecuted
<1>5. CASE Next1 = Head(out)
  <2>1. Pending' = Pending
    BY <1>1, <1>2, <1>5, JoinedNext DEF Pending
  <2> QED
    BY <1>1, <1>4, <2>1, SameF
<1>6. CASE call = "evtReport"
  <2>1. Similar(Pending', Pending)
    BY <1>1, <1>2, SimilarEmitted DEF Pending
  <2>2. Pending \in Seq(Lines) /\ Pending' \in Seq(Lines)
    BY <1>1, <1>2, Appended, Behead, Joined DEF Pending
  <2>3. Stage' = Stage /\ (Exact' <=> Exact)
    BY <1>1, SameStage, ExactSame
  <2>4. EchoAhead'
    BY <1>1, <2>1, <2>2, SimilarTail DEF FInv, EchoAhead
  <2>5. Settled'
    BY <1>1, <1>4 DEF FInv, Settled, CodeCutOff
  <2>6. ASSUME Waiting PROVE (Failed \/ Done)'
    <3>1. ~Prompted
      BY <1>6 DEF Prompted
    <3>0. Similar(Rest', Rest) /\ Rest \in Seq(Lines) /\ Rest' \in Seq(Lines)
      <4>1. CASE pc = "echo"
        BY <1>1, <2>1, <2>2, <4>1, SimilarTail, Behead DEF Rest, FInv, EchoAhead
      <4>2. CASE pc # "echo"
        BY <1>1, <2>1, <2>2, <4>2 DEF Rest
      <4> QED
        BY <4>1, <4>2
    <3>2. CASE Failed
      <4>1. ~Some(Pending', Readies)
        BY <2>1, <3>2, SimilarLines DEF Failed, Readies
      <4>2. ShortAnswer'
        <5>1. \A i \in 1..Len(Rest') : Rest'[i].k = "SVCA" => Rest'[i] \in Short
          <6>1. \A i \in 1..Len(Rest') : Rest'[i] \in Lines
            BY <3>0, ElementOfSeq
          <6> QED
            BY <1>6, <6>1 DEF Short, Buffered, LongKinds
        <5>2. All(Rest, Short)
          BY <1>6, <3>2 DEF Failed, ShortAnswer
        <5>3. All(Rest', Short) /\ Short' = Short
          BY <1>1, <3>0, <5>1, <5>2, SimilarLines DEF Short, Err, Digit
        <5>4. NoLine' = NoLine
          BY DEF NoLine, Line
        <5> QED
          BY <1>1, <1>6, <3>2, <5>3, <5>4 DEF Failed, ShortAnswer, All
      <4> QED
        BY <1>1, <1>4, <3>2, <4>1, <4>2 DEF Failed, Readies
    <3>3. CASE Done
      <4>1. Similar(Rest', Rest) /\ Rest \in Seq(Lines) /\ Rest' \in Seq(Lines)
        BY <3>0
      <4>2. Finishing(Stage, Rest) /\ Stage \in {"last", "event"}
        <5>1. pc \in {"echo", "last", "event"}
          BY <1>6, <2>6 DEF BInv, StageCalls, CallsAt, Waiting, IInv, TypeOK, Stages, Reading, LineCalls
        <5>2. FirstStage = "last"
          BY <1>6 DEF FirstStage
        <5> QED
          BY <3>3, <5>1, <5>2 DEF Done, Stage
      <4> DEFINE E == {e \in Lines : IsEvent(e)}
      <4>3. ASSUME NEW p \in Seq(Lines), NEW q \in Seq(Lines), Similar(p, q), NEW k, EventsFollow(q, k)
            PROVE  EventsFollow(p, k)
        <5>1. \A i \in 1..Len(p) : p[i].k = "SVCA" => p[i] \in E
          BY <4>3, ElementOfSeq DEF IsEvent
        <5>2. All(p, E)
          BY <4>3, <5>1, SimilarLines DEF EventsFollow
        <5> QED
          BY <4>3, <5>2 DEF EventsFollow, Similar
      <4>4. CASE Stage = "event"
        <5>1. EventsFollow(Rest', events)
          BY <4>1, <4>2, <4>3, <4>4 DEF Finishing
        <5>2. EventsFollow(Rest, events)'
          BY <1>1, <5>1 DEF EventsFollow, All, IsEvent, Ring
        <5> QED
          BY <1>1, <1>4, <2>3, <3>3, <4>4, <5>2 DEF Done, Finishing
      <4>5. CASE Stage = "last"
        <5>1. Rest # <<>> /\ Head(Rest) = Ok(n) /\ EventsFollow(Tail(Rest), 2)
          BY <1>6, <4>2, <4>5 DEF Finishing
        <5>2. Rest' # <<>> /\ Head(Rest') = Ok(n) /\ Similar(Tail(Rest'), Tail(Rest))
          BY <4>1, <5>1, SimilarTail, LineFields DEF Ok, Digit
        <5>3. EventsFollow(Tail(Rest'), 2)
          BY <4>1, <4>3, <5>1, <5>2, Behead
        <5>4. EventsFollow(Tail(Rest), 2)' /\ Ok(n)' = Ok(n)
          BY <1>1, <5>3 DEF EventsFollow, All, IsEvent, Ring, Ok, Digit
        <5> QED
          BY <1>1, <1>4, <1>6, <2>3, <3>3, <4>5, <5>2, <5>4 DEF Done, Finishing
      <4> QED
        BY <4>2, <4>4, <4>5
    <3> QED
      BY <1>4, <2>6, <3>1, <3>2, <3>3 DEF FInv, Course
  <2> QED
    BY <1>1, <2>3, <2>4, <2>5, <2>6 DEF FInv, Course, Waiting
<1>7. call # "evtReport" => Next1 = Head(out)
  <2>1. call # "evtReport" => Head(out) \in NotSvca
    BY <1>1, <1>2, AllTail DEF OInv, Calm
  <2> QED
    BY <1>2, <2>1 DEF NotSvca
<1> QED
  BY <1>5, <1>6, <1>7

LEMMA DataTimeoutF ==
  IInv /\ BInv /\ SInv /\ FInv /\ mode' = mode /\ DataTimeout => FInv'
<1> SUFFICES ASSUME IInv, BInv, SInv, FInv, mode' = mode, DataTimeout PROVE FInv'
  OBVIOUS
<1>1. /\ mst = "data" /\ mst' = "exec" /\ out' = MessageAnswer(1)
      /\ UNCHANGED <<wire, pc, call, n, text, code, events, res, cmds, clean, did>>
  BY DEF DataTimeout, dte, MessageAnswer
<1> SUFFICES ASSUME Exact, clean PROVE FInv'
  BY <1>1, ExactSame DEF FInv, EchoAhead, Course, Settled
<1>2. out = <<>> /\ call = "setMo" /\ pc \notin {"echo", "code", "data"}
  BY <1>1, CleanData DEF DataTimeout
<1>3. Executed /\ Executed'
  BY <1>1 DEF Executed
<1>4. EchoAhead' /\ Settled'
  BY <1>1, <1>2, <1>3 DEF FInv, EchoAhead, Settled, CodeCutOff
<1>5. ASSUME Waiting PROVE Failed'
  <2>1. ~Done
    BY <1>1, <1>2 DEF Done, SInv, Stored, Setters
  <2>2. ~Unexecuted /\ ~Prompted
    BY <1>1, <1>2 DEF Unexecuted, Prompted, Stage
  <2>3. Failed
    BY <1>5, <2>1, <2>2 DEF FInv, Course
  <2>4. wire \in Seq(Lines) /\ Pending = wire
    BY <1>2, JoinedEmpty DEF Pending, IInv, TypeOK
  <2>5. MessageAnswer(1) \in Seq(Lines)
    BY <1>1, Closing, SomeValues
  <2>6. ~Some(wire \o MessageAnswer(1), Readies)
    BY <2>3, <2>4, <2>5, ClosingReady, JoinedSome DEF Failed
  <2> QED
    BY <1>1, <1>2, <1>3, <2>3, <2>6 DEF Failed, Pending, Readies, ShortAnswer
<1> QED
  BY <1>1, <1>4, <1>5 DEF FInv, Course, Waiting

LEMMA WriteDataF ==
  IInv /\ BInv /\ Ready /\ FInv /\ mode' = mode /\ WriteData => FInv'
<1> SUFFICES ASSUME IInv, BInv, Ready, FInv, mode' = mode, WriteData PROVE FInv'
  OBVIOUS
<1>1. /\ pc = "data" /\ pc' = "code2" /\ call = "setMo"
      /\ UNCHANGED <<wire, call, n, text, code, events, res, cmds, clean>>
  BY DEF WriteData, BInv, StageCalls, CallsAt
<1> SUFFICES ASSUME Exact, clean PROVE FInv'
  BY <1>1, ExactSame DEF FInv, EchoAhead, Course, Settled
<1>2. mst = "data" /\ Head(cmds).n = n /\ out = <<>>
  BY <1>1, CleanData DEF Ready
<1>3. Prompted
  <2>1. ~Unexecuted /\ ~Failed
    BY <1>1, <1>2 DEF Unexecuted, Failed
  <2>2. ~Done
    BY <1>1 DEF Done, Finishing, Stage
  <2> QED
    BY <1>1, <2>1, <2>2 DEF FInv, Course, Waiting
<1>4. ~did /\ wire = <<>>
  <2>1. Rest = <<>> /\ Rest = Pending
    BY <1>1, <1>3 DEF Prompted, Stage, Rest
  <2>2. Pending = wire
    BY <1>2, JoinedEmpty DEF Pending, IInv, TypeOK
  <2> QED
    BY <1>3, <2>1, <2>2 DEF Prompted
<1>5. /\ mst' # "idle"
      /\ \/ out' = MessageAnswer(0) /\ did'
         \/ out' = MessageAnswer(2) /\ ~did'
         \/ out' = <<>> /\ ~did'
  <2>1. \/ mst' = "exec" /\ did' = (Head(cmds).n = n) /\ out' = MessageAnswer(0)
        \/ mst' = "exec" /\ did' = did /\ out' = MessageAnswer(2)
        \/ mst' = mst /\ did' = did /\ out' = out
    BY DEF WriteData, MessageAnswer
  <2>2. CASE mst' = "exec" /\ did' = (Head(cmds).n = n) /\ out' = MessageAnswer(0)
    BY <1>2, <2>2
  <2>3. CASE did' = did /\ mst' # "idle" /\ (out' = MessageAnswer(2) \/ out' = out)
    BY <1>2, <1>4, <2>3
  <2> QED
    BY <1>2, <2>1, <2>2, <2>3
<1>6. Pending' = out' /\ Rest' = out' /\ Stage' = "code2" /\ Executed'
  <2>1. out' \in Seq(Lines)
    <3>1. out \in Seq(Lines) /\ MessageAnswer(0) \in Seq(Lines) /\ MessageAnswer(2) \in Seq(Lines)
      BY <1>2, Closing, SomeValues DEF IInv, TypeOK
    <3> QED
      BY <1>2, <1>5, <3>1
  <2>2. Pending' = out'
    BY <1>1, <1>4, <2>1, JoinedEmpty DEF Pending
  <2> QED
    BY <1>1, <1>5, <2>2 DEF Rest, Stage, Executed
<1>7. (Failed \/ Done)'
  <2>1. CASE out' = MessageAnswer(0) /\ did'
    <3>1. out' = <<Digit(0, n), Ok(n)>>
      BY <1>2, <2>1 DEF MessageAnswer
    <3>2. Finishing(Stage, Rest)'
      BY <1>1, <1>6, <3>1 DEF Finishing, Ok, Digit
    <3> QED
      BY <1>6, <2>1, <3>2 DEF Done
  <2>2. CASE (out' = MessageAnswer(2) \/ out' = <<>>) /\ ~did'
    <3>1. ~Some(out', Readies)
      BY <2>2, ClosingReady, Tuple0
    <3> QED
      BY <1>1, <1>6, <2>2, <3>1 DEF Failed, Readies, ShortAnswer
  <2> QED
    BY <1>5, <2>1, <2>2
<1> QED
  BY <1>1, <1>7 DEF FInv, EchoAhead, Course, Settled

(***************************************************************************)
(* Reading the answer.                                                     *)
(***************************************************************************)
LEMMA CodesOf ==
  ASSUME IInv
  PROVE  /\ StrCode(Ok(n)) = "OK"
         /\ \A k \in {"TEXT", "TEXT0", "SBDIX", "HEAD", "BIN"} : StrCode(Line(k, 0, n)) = "UNK"
         /\ StrCode(Err(n)) = "ERROR" /\ Err(n).k \notin LongKinds
         /\ RespCodes(Digit(0, n)) = {0}
<1>1. mode.verbose \in BOOLEAN
  BY LinkAssumption DEF IInv, TypeOK, Mode
<1>2. Ok(n).k = (IF mode.verbose THEN "OK" ELSE "DIGIT") /\ (~mode.verbose => Ok(n).v = 0)
  BY LineFields DEF Ok, Digit
<1>3. Digit(0, n).k = "DIGIT" /\ Digit(0, n).v = 0
  BY LineFields DEF Digit
<1>4. StrCode(Ok(n)) = "OK"
  BY <1>1, <1>2 DEF StrCode
<1>5. ASSUME NEW k \in {"TEXT", "TEXT0", "SBDIX", "HEAD", "BIN"}
      PROVE  StrCode(Line(k, 0, n)) = "UNK"
  BY <1>5, LineFields DEF StrCode
<1>6. StrCode(Digit(0, n)) = IF mode.verbose THEN "UNK" ELSE "OK"
  BY <1>1, <1>3 DEF StrCode
<1>7. RespCodes(Digit(0, n)) = {0}
  BY <1>3, <1>6 DEF RespCodes
<1>8. StrCode(Err(n)) = "ERROR" /\ Err(n).k \notin LongKinds
  <2>1. Err(n).k = (IF mode.verbose THEN "ERROR" ELSE "DIGIT") /\ (~mode.verbose => Err(n).v = 4)
    BY LineFields DEF Err, Digit
  <2> QED
    BY <1>1, <2>1 DEF StrCode, LongKinds
<1> QED
  BY <1>4, <1>5, <1>7, <1>8

(* The echo is skipped, and nothing else.                                  *)
LEMMA EchoF ==
  ASSUME IInv, FInv, Exact, clean, mode' = mode, CheckEcho
  PROVE  Course'
<1>1. /\ pc = "echo" /\ pc' = FirstStage /\ wire # <<>> /\ call \in Asked
      /\ UNCHANGED <<call, n, text, code, events, mst, cmds, out, clean, did>>
  BY DEF CheckEcho, Read, modem, IInv, OwnStages
<1>2. Pending # <<>> /\ Head(Pending).k = "ECHO" /\ L = Head(Pending)
  BY <1>1, JoinedTail DEF FInv, EchoAhead, Pending, L, IInv, TypeOK
<1>3. Read
  BY <1>2 DEF CheckEcho, Unopened
<1>4. Pending' = Tail(Pending) /\ Pending \in Seq(Lines)
  BY <1>1, <1>3, PendingRead
<1>5. /\ pc' \in {"code", "line1", "lines", "bin", "head", "last"} /\ FirstStage' = FirstStage
  BY <1>1, FirstStages DEF FirstStage
<1>6. Stage' = Stage /\ Rest' = Rest /\ Rest = Pending'
  BY <1>1, <1>4, <1>5 DEF Stage, Rest
<1>7. (Executed' <=> Executed) /\ Own' = Own
  BY <1>1 DEF Executed, Own
<1>8. Unexecuted => Unexecuted'
  BY <1>1, <1>5, <1>6, <1>7 DEF Unexecuted, NoLine, Line
<1>9. Prompted => Prompted'
  BY <1>1, <1>6, <1>7 DEF Prompted
<1>10. Failed => Failed'
  <2>1. ShortAnswer => ShortAnswer'
    <3>1. Short' = Short /\ NoLine' = NoLine
      BY <1>1 DEF Short, Err, Digit, Line, NoLine
    <3> QED
      BY <1>1, <1>5, <1>6, <3>1 DEF ShortAnswer, All
  <2> QED
    BY <1>1, <1>2, <1>4, <1>5, <1>7, <2>1, SomeTail DEF Failed, Readies
<1>11. Done => Done'
  <2>1. Finishing(Stage, Rest)' <=> Finishing(Stage, Rest)
    BY <1>1, <1>6 DEF Finishing, Text, Ok, EventsFollow, All, IsEvent, Ring, Digit
  <2> QED
    BY <1>1, <1>7, <2>1 DEF Done
<1> QED
  BY <1>1, <1>8, <1>9, <1>10, <1>11 DEF FInv, Course, Waiting

(* A command that waits in the modem is waited for.                        *)
LEMMA UnexecutedReads ==
  ASSUME IInv, BInv, Exact, clean, mode' = mode, ReadingStep, pc # "echo", Unexecuted
  PROVE  FALSE
<1>1. Pending = <<>> /\ cmds = <<Own>> /\ mst = "idle" /\ out' = out /\ ~CheckEcho
  BY ReadingReads DEF Unexecuted, Rest, ReadStep, CheckEcho
<1>2. ~Read
  BY <1>1, PendingRead
<1>3. wire = <<>>
  BY <1>1, JoinedTail DEF Pending, IInv, TypeOK
<1>4. ReadTimeout
  BY <1>1, <1>2, <1>3 DEF ReadingStep, AnswerStep, ReadCode, ReadCode2, ReadLast, ReadLine1,
     ReadLine2, ReadLines, ReadHead, ReadText, ReadBin, ReadEvent
<1> QED
  BY <1>1, <1>4, PendingTimeout, Parts

(* READY is read.                                                          *)
LEMMA PromptedReads ==
  ASSUME IInv, FInv, Exact, clean, mode' = mode, ReadingStep, pc # "echo", Prompted
  PROVE  Prompted' /\ pc' # "idle"
<1>1. /\ UNCHANGED <<call, n, mst, cmds, out, clean, did>> /\ ~CheckEcho
  BY ReadingReads DEF ReadStep, CheckEcho
<1>2. pc # "data"
  BY DEF ReadingStep, CheckEcho, ReadTimeout, Reading, AnswerStep, ReadCode, ReadCode2, ReadLast,
         ReadLine1, ReadLine2, ReadLines, ReadHead, ReadText, ReadBin, ReadEvent
<1>3. pc = "code" /\ Pending = <<Line("READY", 0, n)>> /\ call = "setMo"
  BY <1>2 DEF Prompted, Stage, Rest
<1>4. ~ReadTimeout
  BY <1>3, PendingTimeout, Parts
<1>5. ReadCode
  BY <1>1, <1>3, <1>4 DEF ReadingStep, AnswerStep, ReadCode2, ReadLast, ReadLine1, ReadLine2,
     ReadLines, ReadHead, ReadText, ReadBin, ReadEvent
<1>6. L = Line("READY", 0, n) /\ Pending' = <<>>
  <2>1. Read
    BY <1>5 DEF ReadCode
  <2> QED
    BY <1>1, <1>3, <2>1, PendingRead, Parts
<1>7. pc' = "data"
  <2>1. IsReady(L)
    BY <1>6, LineFields DEF IsReady
  <2> QED
    BY <1>3, <1>5, <2>1 DEF ReadCode
<1> QED
  BY <1>1, <1>3, <1>6, <1>7 DEF Prompted, Executed, Stage, Rest

(* What it reads then is short: no call but isu_get_mt says that the       *)
(* answer was too long.                                                    *)
LEMMA ShortReads ==
  ASSUME IInv, BInv, mode' = mode, Failed, pc # "echo", call # "setMo", UNCHANGED <<call, n>>,
         Read, L = Head(Pending), Pending # <<>>, Pending \in Seq(Lines),
         AnswerStep \/ ReadEvent
  PROVE  /\ L \in Short
         /\ pc' = "idle" => res' # "OVERFLOW"
         /\ pc' = "line2" => call \notin Buffered /\ text' \in Short
         /\ call = "rev" => text' = NoLine
<1>1. L \in Short /\ L \in Lines
  BY AllTail DEF Failed, ShortAnswer, Rest
<1>2. call \in Buffered => L = Err(n) /\ StrCode(L) = "ERROR"
  BY <1>1, CodesOf DEF Short
<1>3. ASSUME call \notin Buffered, NEW l \in Short, NEW r, r # "OVERFLOW", ReturnIfFits(l, r)
      PROVE  res' = r
  <2>1. call \notin Buffered => ~(l.k \in LongKinds /\ l.n # n)
    BY <1>3 DEF Short
  <2>2. MayOverflow(l) = {FALSE}
    BY <1>3, <2>1 DEF MayOverflow, Buffered
  <2> QED
    BY <1>3, <2>2 DEF ReturnIfFits, Return
<1>4. CASE ReadCode
  <2>1. call = "clear" /\ call \notin Buffered
    BY <1>4 DEF ReadCode, BInv, StageCalls, CallsAt, Buffered
  <2>2. \/ pc' = "last"
        \/ ReturnIfFits(L, "AT")
    BY <1>4, <2>1 DEF ReadCode
  <2>3. pc' = "last" \/ res' = "AT"
    BY <1>1, <1>3, <2>1, <2>2
  <2>4. pc' \in {"last", "idle"}
    BY <2>2, Ended
  <2> QED
    BY <1>1, <2>1, <2>3, <2>4
<1>5. CASE ReadLast
  <2>1. pc' = "event" \/ res' \in {"AT", "OK", "CMD"}
    BY <1>5 DEF ReadLast, Return, CodeResults
  <2>2. pc' \in {"event", "idle"} /\ call # "rev"
    BY <1>5 DEF ReadLast, Return, BInv, StageCalls, CallsAt
  <2> QED
    BY <1>1, <2>1, <2>2
<1>6. CASE ReadLine1
  <2>1. call # "rev"
    BY <1>6 DEF ReadLine1, IInv, OwnStages, LineCalls
  <2>2. call \in Buffered => pc' = "idle" /\ res' = "AT"
    BY <1>2, <1>6 DEF ReadLine1, Return
  <2>3. \/ pc' = "idle" /\ res' \in {"OK", "UNK", "AT"}
        \/ pc' = "line2" /\ text' = L
    BY <1>6 DEF ReadLine1, Return
  <2> QED
    BY <1>1, <2>1, <2>2, <2>3
<1>7. CASE ReadLine2
  <2>1. pc = "line2" /\ call \in LineCalls /\ call # "rev"
    BY <1>7 DEF ReadLine2, IInv, OwnStages, LineCalls
  <2>2. call \notin Buffered /\ text \in Short
    BY <2>1 DEF Failed, ShortAnswer
  <2> DEFINE r == CASE StrCode(L) # "OK" -> "AT"
                    [] StrCode(L) = "OK" /\ call = "sbdix" -> SbdixResult
                    [] StrCode(L) = "OK" /\ call = "query" -> QueryResult
                    [] StrCode(L) = "OK" /\ call \in AnyText -> "OK"
  <2>3. r \in {"OK", "UNK", "AT", "CMD"}
    BY <2>1 DEF LineCalls, AnyText, SbdixResult, QueryResult
  <2>4. ReturnIfFits(text, r)
    BY <1>7 DEF ReadLine2
  <2> HIDE DEF r
  <2>5. res' = r /\ pc' = "idle"
    BY <1>3, <2>2, <2>3, <2>4, Ended
  <2> QED
    BY <1>1, <2>1, <2>3, <2>5
<1>8. CASE ReadLines
  <2>1. call = "rev" /\ text = NoLine
    BY <1>8 DEF ReadLines, BInv, StageCalls, CallsAt, Failed, ShortAnswer
  <2>2. pc' = "idle" /\ res' = "AT" /\ text' = text
    BY <1>2, <1>8, <2>1 DEF ReadLines, Return, Buffered
  <2> QED
    BY <1>1, <2>1, <2>2
<1>9. CASE ReadHead \/ ReadText
  <2>1. call = "mtTxt" /\ call \in Buffered
    BY <1>9 DEF ReadHead, ReadText, BInv, StageCalls, CallsAt, Buffered
  <2>2. pc' \in {"text", "last"} \/ (pc' = "idle" /\ res' = "AT")
    BY <1>2, <1>9, <2>1 DEF ReadHead, ReadText, Return
  <2> QED
    BY <1>1, <2>1, <2>2
<1>10. CASE ReadEvent
  <2>1. call \notin Buffered /\ call # "rev" /\ pc = "event"
    BY <1>10 DEF ReadEvent, BInv, StageCalls, CallsAt, Buffered
  <2>2. \/ pc' = "idle" /\ res' = "OK"
        \/ pc' = pc
        \/ ReturnIfFits(L, IF StrCode(L) = "ERROR" THEN "AT" ELSE "UNK")
    BY <1>10 DEF ReadEvent, Return
  <2>3. CASE ReturnIfFits(L, IF StrCode(L) = "ERROR" THEN "AT" ELSE "UNK")
    <3>1. res' = (IF StrCode(L) = "ERROR" THEN "AT" ELSE "UNK") /\ pc' = "idle"
      BY <1>1, <1>3, <2>1, <2>3, Ended
    <3> QED
      BY <1>1, <2>1, <3>1
  <2> QED
    BY <1>1, <2>1, <2>2, <2>3
<1>11. ~ReadCode2
  BY DEF ReadCode2, BInv, StageCalls, CallsAt
<1> QED
  BY <1>4, <1>5, <1>6, <1>7, <1>8, <1>9, <1>10, <1>11 DEF AnswerStep

(* isu_set_mo never looks for the length of an answer.                     *)
LEMMA SetMoReads ==
  ASSUME IInv, BInv, call = "setMo", pc # "echo", AnswerStep \/ ReadEvent, pc' = "idle"
  PROVE  res' # "OVERFLOW"
<1>1. pc \in {"code", "code2", "last"}
  BY DEF BInv, StageCalls, CallsAt, LineCalls, AnswerStep, ReadCode, ReadCode2, ReadLast,
         ReadLine1, ReadLine2, ReadLines, ReadHead, ReadText, ReadEvent
<1>2. ReadLast
  BY <1>1 DEF AnswerStep, ReadCode, ReadCode2, ReadLine1, ReadLine2, ReadLines, ReadHead,
              ReadText, ReadEvent
<1> QED
  BY <1>2 DEF ReadLast, Return, CodeResults

(* A command that failed does not succeed later.                           *)
LEMMA FailedReads ==
  ASSUME IInv, BInv, FInv, Exact, clean, mode' = mode, ReadingStep, pc # "echo", Failed
  PROVE  /\ Waiting' => Failed'
         /\ ~did' /\ Executed'
         /\ pc' = "idle" => res' # "OVERFLOW" \/ call' = "getMt"
<1>1. /\ UNCHANGED <<call, n, mst, cmds, out, clean, did>> /\ ~CheckEcho /\ pc' # "echo"
  BY ReadingReads DEF ReadStep, CheckEcho, NextStages
<1>2. ~did' /\ Executed'
  BY <1>1 DEF Failed, Executed
<1>3. CASE ReadTimeout
  <2>1. /\ UNCHANGED <<wire, text>>
        /\ \/ pc' = "idle" /\ res' = "AT"
           \/ pc' \in {"text", "last"}
    BY <1>3 DEF ReadTimeout, Return
  <2>2. Pending' = Pending /\ Rest' = Rest
    BY <1>1, <2>1 DEF Pending, Rest
  <2>3. Short' = Short /\ NoLine' = NoLine
    BY <1>1 DEF Short, Err, Digit, Line, NoLine
  <2>4. pc' # "idle" => ShortAnswer'
    BY <1>1, <2>1, <2>2, <2>3 DEF Failed, ShortAnswer, All
  <2>5. pc' # "idle" => Failed'
    BY <1>2, <2>1, <2>2, <2>4 DEF Failed, Readies
  <2> QED
    BY <1>2, <2>1, <2>5 DEF Waiting
<1>4. CASE ReadBin
  <2>1. call = "getMt" /\ call' = "getMt"
    BY <1>1, <1>4 DEF ReadBin, BInv, StageCalls, CallsAt
  <2>2. \/ pc' = "idle"
        \/ Read /\ pc' = "last"
    BY <1>4 DEF ReadBin, Return
  <2>3. ASSUME Read, pc' = "last" PROVE Failed'
    <3>1. Pending # <<>> /\ Pending' = Tail(Pending) /\ Pending \in Seq(Lines)
      BY <1>1, <2>3, PendingRead
    <3>2. ~Some(Pending', Readies)
      BY <3>1, SomeTail DEF Failed
    <3>3. Rest = Pending /\ Rest' = Pending'
      BY <1>1 DEF Rest
    <3>4. All(Rest', Short)
      BY <2>1, <3>1, <3>3, AllTail DEF Failed, ShortAnswer
    <3>5. Short' = Short
      BY <1>1 DEF Short, Err, Digit
    <3>6. ShortAnswer'
      BY <2>1, <2>3, <3>4, <3>5 DEF ShortAnswer, All
    <3> QED
      BY <1>2, <2>3, <3>2, <3>6 DEF Failed, Readies
  <2> QED
    BY <1>2, <2>1, <2>2, <2>3 DEF Waiting
<1>5. CASE AnswerStep \/ ReadEvent
  <2>1. Read
    BY <1>5, AnswerFrame DEF ReadEvent
  <2>2. /\ Pending # <<>> /\ L = Head(Pending) /\ Pending' = Tail(Pending)
        /\ Pending \in Seq(Lines) /\ L \in Lines
    BY <1>1, <2>1, PendingRead
  <2>3. ~Some(Pending', Readies) /\ L \notin Readies
    BY <2>2, SomeTail DEF Failed
  <2>4. pc' # "data"
    <3>1. pc' = "data" => IsReady(L)
      BY <1>5, Ended DEF AnswerStep, ReadCode, ReadCode2, ReadLast, ReadLine1, ReadLine2,
         ReadLines, ReadHead, ReadText, ReadEvent, Return
    <3> QED
      BY <2>2, <2>3, <3>1 DEF IsReady, Readies
  <2>5. ShortAnswer' /\ (pc' = "idle" => res' # "OVERFLOW")
    <3>1. CASE call = "setMo"
      BY <1>1, <1>5, <3>1, SetMoReads DEF ShortAnswer
    <3>2. CASE call # "setMo"
      <4>1. /\ pc' = "idle" => res' # "OVERFLOW"
            /\ pc' = "line2" => call \notin Buffered /\ text' \in Short
            /\ call = "rev" => text' = NoLine
        BY <1>1, <1>5, <2>1, <2>2, <3>2, ShortReads
      <4>2. Rest = Pending /\ Rest' = Pending'
        BY <1>1 DEF Rest
      <4>3. All(Rest', Short)
        BY <2>2, <3>2, <4>2, AllTail DEF Failed, ShortAnswer
      <4>4. Short' = Short /\ NoLine' = NoLine
        BY <1>1 DEF Short, Err, Digit, Line, NoLine
      <4> QED
        BY <1>1, <4>1, <4>3, <4>4 DEF ShortAnswer, All
    <3> QED
      BY <3>1, <3>2
  <2> QED
    BY <1>2, <2>3, <2>4, <2>5 DEF Failed, Readies
<1> QED
  BY <1>1, <1>3, <1>4, <1>5 DEF ReadingStep

(* One line of a good answer is read, and the next stage goes on with the  *)
(* rest of it.                                                             *)
DoneNext ==
  IF pc' = "idle" THEN res' \in {"OK", "OVERFLOW"} \/ CodeCutOff' ELSE Finishing(pc, Pending)'

LEMMA DoneCodes ==
  ASSUME IInv, BInv, mode' = mode, Finishing(pc, Pending), Pending' = Tail(Pending),
         L = Head(Pending), ReadCode \/ ReadCode2
  PROVE  DoneNext
<1>1. /\ UNCHANGED <<call, n>>
      /\ Pending = <<Digit(0, n), Ok(n)>> /\ call \in {"setMo", "clear"}
  BY DEF ReadCode, ReadCode2, Finishing, BInv, StageCalls, CallsAt
<1>2. L = Digit(0, n) /\ Pending' = <<Ok(n)>>
  BY <1>1, Parts
<1>3. RespCodes(L) = {0} /\ NewCode(0) = 0
  BY <1>2, CodesOf DEF NewCode
<1>4. pc' = "last" /\ code' = 0
  <2>1. CASE ReadCode2
    BY <1>3, <2>1 DEF ReadCode2
  <2>2. CASE ReadCode
    <3>1. call = "clear"
      BY <2>2 DEF ReadCode, Finishing
    <3> QED
      BY <1>3, <2>2, <3>1 DEF ReadCode
  <2> QED
    BY <2>1, <2>2
<1> QED
  BY <1>1, <1>2, <1>3, <1>4 DEF DoneNext, Finishing, Ok, Digit

LEMMA DoneLine1 ==
  ASSUME IInv, BInv, mode' = mode, Finishing(pc, Pending), Pending' = Tail(Pending),
         L = Head(Pending), ReadLine1
  PROVE  DoneNext
<1>1. /\ pc = "line1" /\ UNCHANGED <<call, n>> /\ call \in LineCalls
  BY DEF ReadLine1, IInv, OwnStages
<1>2. CASE call = "setTxt"
  <2>1. L = Ok(n)
    BY <1>1, <1>2, Parts DEF Finishing
  <2>2. StrCode(L) = "OK"
    BY <2>1, CodesOf
  <2> QED
    BY <1>2, <2>2 DEF ReadLine1, Return, AnyText, DoneNext
<1>3. CASE call = "sbdix"
  <2>1. Pending = <<Line("SBDIX", 0, n), Ok(n)>>
    BY <1>1, <1>3 DEF Finishing
  <2>2. L = Line("SBDIX", 0, n) /\ Pending' = <<Ok(n)>> /\ L.k = "SBDIX"
    BY <2>1, Parts, LineFields
  <2>3. pc' = "line2" /\ text' = L
    BY <2>2, CodesOf DEF ReadLine1
  <2> QED
    BY <1>1, <1>3, <2>2, <2>3 DEF DoneNext, Finishing, Ok, Digit
<1>4. CASE call \in {"get", "query", "moToMt"}
  <2>1. Pending = <<Text, Ok(n)>>
    BY <1>1, <1>4 DEF Finishing
  <2>2. L = Text /\ Pending' = <<Ok(n)>> /\ L.k = "TEXT" /\ L.v = 0
    BY <2>1, Parts, LineFields DEF Text
  <2>3. pc' = "line2" /\ text' = L
    BY <2>2, CodesOf DEF ReadLine1, Text
  <2> QED
    BY <1>1, <1>4, <2>2, <2>3 DEF DoneNext, Finishing, Ok, Digit
<1> QED
  BY <1>1, <1>2, <1>3, <1>4 DEF LineCalls

LEMMA DoneLine2 ==
  ASSUME IInv, BInv, mode' = mode, Finishing(pc, Pending), Pending' = Tail(Pending),
         L = Head(Pending), ReadLine2
  PROVE  DoneNext
<1>1. /\ pc = "line2" /\ call \in LineCalls /\ Pending = <<Ok(n)>>
      /\ call = "sbdix" => text.k = "SBDIX"
      /\ call = "query" => text.k = "TEXT" /\ text.v = 0
  BY DEF ReadLine2, IInv, OwnStages, Finishing
<1>2. StrCode(L) = "OK"
  BY <1>1, Parts, CodesOf
<1>3. SbdixResult = "OK" \/ call # "sbdix"
  BY <1>1 DEF SbdixResult
<1>4. QueryResult = "OK" \/ call # "query"
  BY <1>1 DEF QueryResult
<1>5. ReturnIfFits(text, "OK")
  BY <1>1, <1>2, <1>3, <1>4 DEF ReadLine2, AnyText, LineCalls
<1> QED
  BY <1>5, Ended DEF DoneNext

LEMMA DoneTexts ==
  ASSUME IInv, BInv, mode' = mode, Finishing(pc, Pending), Pending' = Tail(Pending),
         L = Head(Pending), ReadLines \/ ReadHead \/ ReadText
  PROVE  DoneNext
<1>1. UNCHANGED <<call, n>> /\ pc \in {"lines", "head", "text"} /\ mode.verbose \in BOOLEAN
  BY LinkAssumption DEF ReadLines, ReadHead, ReadText, IInv, TypeOK, Mode
<1>2. CASE ReadLines
  <2>1. pc = "lines" /\ Pending \in {<<Text, Text, Ok(n)>>, <<Text, Ok(n)>>, <<Ok(n)>>}
    BY <1>2 DEF ReadLines, Finishing
  <2>2. CASE Pending = <<Ok(n)>>
    <3>1. StrCode(L) = "OK"
      BY <2>2, Parts, CodesOf
    <3>2. Return("OK") \/ ReturnIfFits(text, "OK")
      BY <1>2, <3>1 DEF ReadLines
    <3> QED
      BY <3>2, Ended DEF Return, DoneNext
  <2>3. CASE Pending \in {<<Text, Text, Ok(n)>>, <<Text, Ok(n)>>}
    <3>1. L = Text /\ Pending' \in {<<Text, Ok(n)>>, <<Ok(n)>>}
      <4>1. CASE Pending = <<Text, Text, Ok(n)>>
        BY <4>1, Parts
      <4>2. CASE Pending = <<Text, Ok(n)>>
        BY <4>2, Parts
      <4> QED
        BY <2>3, <4>1, <4>2
    <3>2. pc' = "lines"
      BY <1>2, <2>1, <3>1, CodesOf DEF ReadLines, Text
    <3>3. Text' = Text /\ Ok(n)' = Ok(n)
      BY <1>1 DEF Text, Ok, Digit
    <3> QED
      BY <3>1, <3>2, <3>3 DEF DoneNext, Finishing
  <2> QED
    BY <2>1, <2>2, <2>3
<1>3. CASE ReadHead
  <2>1. /\ pc = "head" /\ pc' = "text"
        /\ Pending = IF mode.verbose THEN <<Line("HEAD", 0, n), Text, Ok(n)>>
                     ELSE <<Line("HEAD", 0, n), Line("TEXT0", 0, n)>>
    BY <1>3 DEF ReadHead, Finishing
  <2>2. Pending' = IF mode.verbose THEN <<Text, Ok(n)>> ELSE <<Line("TEXT0", 0, n)>>
    BY <2>1, Parts
  <2> QED
    BY <1>1, <2>1, <2>2 DEF DoneNext, Finishing, Text, Ok, Digit
<1>4. CASE ReadText
  <2>1. /\ pc = "text" /\ call = "mtTxt"
        /\ Pending = IF mode.verbose THEN <<Text, Ok(n)>> ELSE <<Line("TEXT0", 0, n)>>
    BY <1>4 DEF ReadText, Finishing, BInv, StageCalls, CallsAt
  <2>2. CASE mode.verbose
    <3>1. Pending' = <<Ok(n)>> /\ pc' = "last"
      BY <1>4, <2>1, <2>2, Parts DEF ReadText
    <3> QED
      BY <1>1, <2>1, <3>1 DEF DoneNext, Finishing, Ok, Digit
  <2>3. CASE ~mode.verbose
    <3>1. L = Line("TEXT0", 0, n)
      BY <2>1, <2>3, Parts
    <3>2. StrCode(L) = "UNK" /\ L.k = "TEXT0"
      BY <3>1, CodesOf, LineFields
    <3>3. text' = L /\ \E zero \in MayEndInZero(L) : ReturnIfFits(L, IF zero THEN "OK" ELSE "AT")
      BY <1>4, <2>3, <3>2 DEF ReadText
    <3>4. pc' = "idle"
      BY <3>3, Ended
    <3> QED
      BY <1>1, <2>1, <3>2, <3>3, <3>4 DEF DoneNext, CodeCutOff
  <2> QED
    BY <1>1, <2>2, <2>3
<1> QED
  BY <1>2, <1>3, <1>4

LEMMA DoneBin ==
  ASSUME IInv, BInv, mode' = mode, Finishing(pc, Pending), Pending # <<>>,
         UNCHANGED <<call, n, out>>, ReadBin
  PROVE  DoneNext
<1>1. pc = "bin" /\ call = "getMt" /\ Pending = <<Line("BIN", 0, n), Ok(n)>> /\ wire # <<>>
  BY DEF ReadBin, Finishing, BInv, StageCalls, CallsAt
<1>3. CASE Read /\ pc' = "last"
  <2>1. Pending' = <<Ok(n)>>
    BY <1>1, <1>3, PendingRead, Parts
  <2> QED
    BY <1>1, <1>3, <2>1 DEF DoneNext, Finishing, Ok, Digit
<1>4. CASE Return("OVERFLOW")
  BY <1>4 DEF Return, DoneNext
<1> QED
  BY <1>3, <1>4 DEF ReadBin

LEMMA DoneLast ==
  ASSUME IInv, BInv, mode' = mode, Finishing(pc, Pending), Pending' = Tail(Pending),
         L = Head(Pending), ReadLast
  PROVE  DoneNext
<1>1. /\ pc = "last" /\ UNCHANGED <<call, n, events>> /\ events \in 1..2
      /\ call \in {"setMo", "clear", "getMt", "mtTxt", "mtAlert", "evtReport"}
  BY DEF ReadLast, IInv, OwnStages, BInv, StageCalls, CallsAt
<1>2. CASE call = "evtReport"
  <2>1. L = Ok(n) /\ EventsFollow(Tail(Pending), 2)
    BY <1>1, <1>2 DEF Finishing
  <2>2. pc' = "event"
    BY <1>2, <2>1, CodesOf DEF ReadLast
  <2>3. EventsFollow(Pending', events)
    BY <1>1, <2>1 DEF EventsFollow
  <2>4. EventsFollow(Pending, events)'
    BY <1>1, <2>3 DEF EventsFollow, All, IsEvent, Ring
  <2> QED
    BY <2>2, <2>4 DEF DoneNext, Finishing
<1>3. CASE call # "evtReport"
  <2>1. Pending = <<Ok(n)>> /\ (call \in {"setMo", "clear"} => code = 0)
    BY <1>1, <1>3 DEF Finishing
  <2>2. StrCode(L) = "OK"
    BY <2>1, Parts, CodesOf
  <2>3. call \in {"setMo", "clear"} => CodeResults = {"OK"}
    BY <2>1 DEF CodeResults
  <2>4. \/ call \in {"setMo", "clear"} /\ \E r \in CodeResults : Return(r)
        \/ Return("OK")
    BY <1>3, <2>2 DEF ReadLast
  <2> QED
    BY <2>3, <2>4 DEF Return, DoneNext
<1> QED
  BY <1>2, <1>3

LEMMA DoneEvent ==
  ASSUME IInv, BInv, mode' = mode, Finishing(pc, Pending), Pending' = Tail(Pending),
         Pending # <<>>, Pending \in Seq(Lines), L = Head(Pending), ReadEvent
  PROVE  DoneNext
<1> DEFINE E == {e \in Lines : IsEvent(e)}
<1>1. pc = "event" /\ EventsFollow(Pending, events) /\ events \in 1..2
  BY DEF ReadEvent, Finishing, IInv, OwnStages
<1>2. All(Tail(Pending), E) /\ L \in E /\ Len(Tail(Pending)) >= events - 1
  BY <1>1, AllTail, Behead DEF EventsFollow
<1>3. /\ events' = events - 1
      /\ IF events = 1 THEN Return("OK") ELSE UNCHANGED <<pc, res>>
  BY <1>2 DEF ReadEvent
<1>4. EventsFollow(Tail(Pending), events - 1)
  BY <1>2 DEF EventsFollow
<1>5. EventsFollow(Pending, events)'
  BY <1>3, <1>4 DEF EventsFollow, All, IsEvent, Ring
<1> QED
  BY <1>1, <1>3, <1>5 DEF Return, DoneNext, Finishing

LEMMA DoneReads ==
  ASSUME IInv, BInv, Exact, clean, mode' = mode, ReadingStep, pc # "echo", Done
  PROVE  /\ did' /\ Executed'
         /\ IF pc' = "idle" THEN res' \in {"OK", "OVERFLOW"} \/ CodeCutOff' ELSE Done'
<1>1. /\ UNCHANGED <<call, n, mst, cmds, out, clean, did>> /\ ~CheckEcho
      /\ pc' # "echo"
  BY ReadingReads DEF ReadStep, CheckEcho, NextStages
<1>2. Finishing(pc, Pending) /\ pc # "idle"
  BY DEF Done, Stage, Rest, Finishing
<1>0. did' /\ Executed'
  BY <1>1 DEF Done, Executed
<1>3. Pending # <<>>
  <2>1. CASE pc = "event"
    <3>1. EventsFollow(Pending, events) /\ events \in 1..2
      BY <1>2, <2>1 DEF Finishing, IInv, OwnStages
    <3>2. Len(<<>>) = 0
      OBVIOUS
    <3> QED
      BY <3>1, <3>2 DEF EventsFollow
  <2>2. CASE pc # "event"
    BY <1>2, <2>2, Parts DEF Finishing
  <2> QED
    BY <2>1, <2>2
<1>4. ~ReadTimeout
  BY <1>3, PendingTimeout
<1>5. CASE AnswerStep \/ ReadEvent
  <2>1. Read
    BY <1>5, AnswerFrame DEF ReadEvent
  <2>2. L = Head(Pending) /\ Pending' = Tail(Pending) /\ Pending \in Seq(Lines)
    BY <1>1, <2>1, PendingRead
  <2>3. DoneNext
    BY <1>2, <1>3, <1>5, <2>2, DoneCodes, DoneLine1, DoneLine2, DoneTexts, DoneLast, DoneEvent
       DEF AnswerStep
  <2> QED
    BY <1>1, <2>3 DEF DoneNext, Done, Stage, Rest, Executed
<1>6. CASE ReadBin
  <2>1. DoneNext
    BY <1>1, <1>2, <1>3, <1>6, DoneBin
  <2> QED
    BY <1>1, <2>1 DEF DoneNext, Done, Stage, Rest, Executed
<1> QED
  BY <1>0, <1>1, <1>4, <1>5, <1>6 DEF ReadingStep

LEMMA ReadingF == IInv /\ BInv /\ FInv /\ mode' = mode /\ ReadingStep => FInv'
<1> SUFFICES ASSUME IInv, BInv, FInv, mode' = mode, ReadingStep PROVE FInv'
  OBVIOUS
<1>1. UNCHANGED <<call, clean, did, mst, cmds>> /\ pc' \in NextStages
  BY ReadingReads DEF ReadStep
<1> SUFFICES ASSUME Exact, clean PROVE FInv'
  BY <1>1, ExactSame DEF FInv, EchoAhead, Course, Settled
<1>2. Waiting
  BY DEF ReadingStep, CheckEcho, ReadTimeout, Reading, AnswerStep, ReadCode, ReadCode2, ReadLast,
         ReadLine1, ReadLine2, ReadLines, ReadHead, ReadText, ReadBin, ReadEvent, Waiting
<1>3. EchoAhead'
  BY <1>1 DEF EchoAhead, NextStages
<1>4. CASE pc = "echo"
  <2>1. Pending # <<>>
    BY <1>4 DEF FInv, EchoAhead
  <2>2. CheckEcho
    BY <1>4, <2>1, PendingTimeout
       DEF ReadingStep, AnswerStep, ReadCode, ReadCode2, ReadLast, ReadLine1, ReadLine2,
           ReadLines, ReadHead, ReadText, ReadBin, ReadEvent
  <2>3. pc' # "idle"
    BY <2>2, FirstStages DEF CheckEcho, IInv, OwnStages
  <2> QED
    BY <1>3, <2>2, <2>3, EchoF DEF FInv, Settled
<1>5. CASE pc # "echo"
  <2>1. Prompted \/ Failed \/ Done
    BY <1>2, <1>5, UnexecutedReads DEF FInv, Course
  <2>2. Course'
    BY <1>5, <2>1, PromptedReads, FailedReads, DoneReads DEF Course, Waiting
  <2>3. Settled'
    BY <1>5, <2>1, PromptedReads, FailedReads, DoneReads DEF Settled
  <2> QED
    BY <1>3, <2>2, <2>3 DEF FInv
<1> QED
  BY <1>4, <1>5

LEMMA StepF == IInv /\ BInv /\ OInv /\ Ready /\ SInv /\ Fresh /\ FInv /\ [Next]_vars => FInv'
<1> SUFFICES ASSUME IInv, BInv, OInv, Ready, SInv, Fresh, FInv, [Next]_vars PROVE FInv'
  OBVIOUS
<1>1. CASE UNCHANGED vars
  <2>1. UNCHANGED <<mode, call, pc, n, text, code, events, res, clean, did, wire, out, mst, cmds>>
    BY <1>1 DEF vars, dte, modem
  <2>2. Stage' = Stage /\ Rest' = Rest /\ Pending' = Pending
    BY <2>1, SameStage, SameRest
  <2>3. (Executed' <=> Executed) /\ (Unexecuted' <=> Unexecuted)
    BY <2>1, <2>2 DEF Executed, Unexecuted, Own, FirstStage, NoLine, Line
  <2> QED
    BY <2>1, <2>2, <2>3, SameF
<1> QED
  BY <1>1, Steps, CallF, UrcF, ExecuteF, EmitF, DataTimeoutF, DrainF, WriteF, WriteDataF, ReadingF

(* With a modem that answers in time and keeps its events out of answers,  *)
(* a call that does not return OK was not executed by the modem, unless    *)
(* its answer did not fit into the caller's buffer: AT_UART_OVERFLOW says  *)
(* that it was executed (but for isu_get_mt, where a refusal may be read   *)
(* as a length), and with numeric result codes isu_get_mt_txt returns      *)
(* ISU_DTE_ERR_AT for a message as long as the buffer (CodeCutOff).  It    *)
(* says nothing of messages that read like result codes (isu.c:280-289).   *)
THEOREM FailIsTrue == Spec => []FailMeansNotDone
<1>1. Spec => []OInv
  BY InitO, StepO, LinkInvariant, AloneInvariant, PTL DEF Spec
<1>2. Spec => []Ready
  BY <1>1, InitReady, StepReady, LinkInvariant, AloneInvariant, PTL DEF Spec
<1>3. Spec => []SInv
  BY <1>1, InitS, StepS, LinkInvariant, AloneInvariant, PTL DEF Spec
<1>4. Spec => []Fresh
  BY InitFresh, StepFresh, LinkInvariant, PTL DEF Spec
<1>5. Spec => []FInv
  BY <1>1, <1>2, <1>3, <1>4, InitF, StepF, LinkInvariant, AloneInvariant, PTL DEF Spec
<1>6. FInv => FailMeansNotDone
  BY DEF FInv, Settled, Exact, FailMeansNotDone, Returned
<1> QED
  BY <1>5, <1>6, PTL
=============================================================================
