--------------------------- MODULE IsuLinkProofs ---------------------------
(***************************************************************************)
(* Theorems about IsuLink for any set of calls, any number of them and any *)
(* of the modems.                                                          *)
(***************************************************************************)
EXTENDS IsuLink, SequenceTheorems, TLAPS

(***************************************************************************)
(* Lines.                                                                  *)
(***************************************************************************)
LEMMA EventType ==
  /\ \A b \in 0..1 : Svca(b) \in Lines /\ Svca(b).k = "SVCA" /\ Svca(b).v = b
  /\ Ring \in Lines /\ Ring.k \notin {"SVCA", "READY"}
BY DEF Svca, Ring, Digit, Line, Lines, LineKinds

(* Numbers on a line.                                                      *)
Values == 0..126

LEMMA SomeValues == 0 \in Values /\ 1 \in Values /\ 2 \in Values /\ 3 \in Values /\ 4 \in Values
BY DEF Values

LEMMA CodeType ==
  ASSUME NEW i \in Nat
  PROVE  /\ Ok(i) \in Lines /\ Ok(i).k # "READY"
         /\ Err(i) \in Lines /\ Err(i).k # "READY"
         /\ \A v \in Values : Digit(v, i) \in Lines /\ Digit(v, i).k # "READY"
<1>1. \A v \in Values : Digit(v, i) \in Lines /\ Digit(v, i).k # "READY"
  BY DEF Digit, Line, Lines, LineKinds, Values
<1>2. \A k \in {"OK", "ERROR"} : Line(k, 0, i) \in Lines /\ Line(k, 0, i).k # "READY"
  BY DEF Line, Lines, LineKinds
<1>3. Ok(i) \in {Line("OK", 0, i), Digit(0, i)} /\ Err(i) \in {Line("ERROR", 0, i), Digit(4, i)}
  BY DEF Ok, Err
<1> QED
  BY <1>1, <1>2, <1>3, SomeValues

(* What is left of an event is a line.                                     *)
LEMMA RestType ==
  ASSUME NEW l \in Lines, NEW rest \in Rests(l)
  PROVE  rest \in Lines
<1>1. l.v \in 0..126
  BY DEF Lines
<1>2. l.v % 100 \in Values
  BY <1>1 DEF Values
<1>3. Digit(l.v % 100, 0) \in Lines
  <2>1. \A v \in Values : Digit(v, 0) \in Lines
    BY CodeType
  <2> QED
    BY <1>2, <2>1
<1>4. Line("REST", 0, 0) \in Lines
  BY DEF Line, Lines, LineKinds
<1> QED
  BY <1>3, <1>4 DEF Rests

(* Answers of lines, and those without READY.                              *)
Plain == {l \in Lines : l.k # "READY"}

LEMMA PlainSeqs ==
  /\ \A a \in Plain : <<a>> \in Seq(Plain) /\ <<a>> # <<>>
  /\ \A a, b \in Plain : <<a, b>> \in Seq(Plain) /\ <<a, b>> # <<>>
  /\ \A a, b, c \in Plain : <<a, b, c>> \in Seq(Plain) /\ <<a, b, c>> # <<>>
OBVIOUS

(* What the modem sends for a command: READY for AT+SBDWB alone.           *)
Sendable(ls, c) == ls # <<>> /\ (ls \in Seq(Plain) \/ (c = "setMo" /\ ls \in Seq(Lines)))

Asked == AllCalls \ {"evt"}

LEMMA AnswerType ==
  ASSUME TypeOK, NEW c \in Asked, NEW i \in Nat
  PROVE  Sendable(Answer(c, i), c)
<1>1. \A k \in LineKinds \ {"READY"} : Line(k, 0, i) \in Plain
  BY DEF Plain, Line, Lines
<1>2. Ok(i) \in Plain /\ Digit(0, i) \in Plain
  BY CodeType, SomeValues DEF Plain
<1>3. Svca(msvca) \in Plain /\ Line("SIGQ", 0, 0) \in Plain
  <2>1. msvca \in 0..1
    BY DEF TypeOK
  <2> QED
    BY <2>1, EventType DEF Plain, Line, Lines, LineKinds
<1>4. CASE c = "setMo"
  <2>1. Answer(c, i) = <<Line("READY", 0, i)>>
    BY <1>4 DEF Answer
  <2>2. Line("READY", 0, i) \in Lines
    BY DEF Line, Lines, LineKinds
  <2>3. \A a \in Lines : <<a>> \in Seq(Lines) /\ <<a>> # <<>>
    OBVIOUS
  <2> QED
    BY <1>4, <2>1, <2>2, <2>3 DEF Sendable
<1>5. CASE c = "clear"
  <2>1. Answer(c, i) = <<Digit(0, i), Ok(i)>>
    BY <1>5 DEF Answer
  <2> QED
    BY <1>2, <2>1, PlainSeqs DEF Sendable
<1>6. CASE c = "sbdix"
  <2>1. Answer(c, i) = <<Line("SBDIX", 0, i), Ok(i)>>
    BY <1>6 DEF Answer
  <2> QED
    BY <1>1, <1>2, <2>1, PlainSeqs DEF Sendable, LineKinds
<1>7. CASE c \in {"get", "query", "moToMt"}
  <2>1. Answer(c, i) = <<Line("TEXT", 0, i), Ok(i)>>
    BY <1>7 DEF Answer
  <2> QED
    BY <1>1, <1>2, <2>1, PlainSeqs DEF Sendable, LineKinds
<1>8. CASE c = "rev"
  <2>1. Answer(c, i) = <<Line("TEXT", 0, i), Line("TEXT", 0, i), Ok(i)>>
    BY <1>8 DEF Answer
  <2> QED
    BY <1>1, <1>2, <2>1, PlainSeqs DEF Sendable, LineKinds
<1>9. CASE c = "getMt"
  <2>1. Answer(c, i) = <<Line("BIN", 0, i), Ok(i)>>
    BY <1>9 DEF Answer
  <2> QED
    BY <1>1, <1>2, <2>1, PlainSeqs DEF Sendable, LineKinds
<1>10. CASE c = "mtTxt"
  <2>1. \/ Answer(c, i) = <<Line("HEAD", 0, i), Line("TEXT", 0, i), Ok(i)>>
        \/ Answer(c, i) = <<Line("HEAD", 0, i), Line("TEXT0", 0, i)>>
    BY <1>10 DEF Answer
  <2> QED
    BY <1>1, <1>2, <2>1, PlainSeqs DEF Sendable, LineKinds
<1>11. CASE c \in {"mtAlert", "setTxt"}
  <2>1. Answer(c, i) = <<Ok(i)>>
    BY <1>11 DEF Answer
  <2> QED
    BY <1>2, <2>1, PlainSeqs DEF Sendable
<1>12. CASE c = "evtReport"
  <2>1. Answer(c, i) = <<Ok(i), Svca(msvca), Line("SIGQ", 0, 0)>>
    BY <1>12 DEF Answer
  <2> QED
    BY <1>2, <1>3, <2>1, PlainSeqs DEF Sendable
<1> QED
  BY <1>4, <1>5, <1>6, <1>7, <1>8, <1>9, <1>10, <1>11, <1>12 DEF Asked, AllCalls

(* A message that reads like a result code.                                *)
LEMMA CodeTextType ==
  ASSUME NEW c \in Asked, NEW i \in Nat, NEW ls \in CodeTexts(c, i)
  PROVE  Sendable(ls, c)
<1>1. Ok(i) \in Plain /\ Err(i) \in Plain
  BY CodeType DEF Plain
<1>2. Line("HEAD", 0, i) \in Plain
  BY DEF Plain, Line, Lines, LineKinds
<1>3. \/ ls = <<Line("HEAD", 0, i), Ok(i), Ok(i)>>
      \/ ls = <<Line("HEAD", 0, i), Err(i), Ok(i)>>
      \/ ls = <<Line("HEAD", 0, i), Ok(i)>>
  BY DEF CodeTexts
<1> QED
  BY <1>1, <1>2, <1>3, PlainSeqs DEF Sendable

LEMMA RefusalType ==
  ASSUME NEW c \in Asked, NEW i \in Nat, NEW ls \in {<<Err(i)>>} \cup Refusals(c, i)
  PROVE  Sendable(ls, c)
<1>1. Ok(i) \in Plain /\ Err(i) \in Plain /\ Digit(3, i) \in Plain /\ Line("TEXT", 3, i) \in Plain
  <2>1. Ok(i) \in Plain /\ Err(i) \in Plain /\ Digit(3, i) \in Plain
    BY CodeType, SomeValues DEF Plain
  <2>2. Line("TEXT", 3, i) \in Plain
    BY DEF Plain, Line, Lines, LineKinds
  <2> QED
    BY <2>1, <2>2
<1>2. \/ ls = <<Err(i)>>
      \/ ls = <<Digit(3, i), Ok(i)>>
      \/ ls = <<Line("TEXT", 3, i), Ok(i)>>
  <2>1. CASE c \in {"setMo", "clear"}
    BY <2>1 DEF Refusals
  <2>2. CASE c = "query"
    BY <2>2 DEF Refusals
  <2>3. CASE c \notin {"setMo", "clear", "query"}
    BY <2>3 DEF Refusals
  <2> QED
    BY <2>1, <2>2, <2>3
<1> QED
  BY <1>1, <1>2, PlainSeqs DEF Sendable

(***************************************************************************)
(* The inductive invariant.                                                *)
(***************************************************************************)
LineCalls == {"sbdix", "get", "query", "moToMt", "setTxt"}

(* Each stage is reached by the calls that have it.                        *)
OwnStages ==
  /\ pc \in {"drain", "write", "echo"} => call \in Asked
  /\ pc \in {"line1", "line2"} => call \in LineCalls
  /\ pc # "idle" => events \in 1..2

(* The modem sends while it executes, and READY only for AT+SBDWB.         *)
Sending ==
  /\ cmds \in Seq([call : Asked, n : Nat])
  /\ out # <<>> => mst = "exec" /\ Sendable(out, Head(cmds).call)

IInv == TypeOK /\ OwnStages /\ Sending

LEMMA FirstStages ==
  ASSUME call \in Asked
  PROVE  /\ FirstStage \in {"code", "line1", "lines", "bin", "head", "last"}
         /\ FirstStage = "line1" => call \in LineCalls
<1>1. FirstStage \in {"code", "line1", "lines", "bin", "head", "last"}
  BY DEF FirstStage, Asked, AllCalls
<1>2. FirstStage = "line1" => call \in LineCalls
  BY DEF FirstStage, Asked, AllCalls, LineCalls
<1> QED
  BY <1>1, <1>2

LEMMA InitInv == Init => IInv
<1> SUFFICES ASSUME Init PROVE IInv
  OBVIOUS
<1>1. NoLine \in Lines
  BY DEF NoLine, Line, Lines, LineKinds
<1>2. clean \in BOOLEAN /\ did \in BOOLEAN /\ lost \in BOOLEAN
  BY DEF Init
<1>3. TypeOK
  BY <1>1, <1>2 DEF Init, TypeOK, Stages, AllCalls
<1> QED
  BY <1>3 DEF Init, IInv, OwnStages, Sending

(***************************************************************************)
(* The modem's steps.                                                      *)
(***************************************************************************)
(* What the steps below leave alone.                                       *)
Thread == <<mode, pc, call, n, text, code, events, svca, res, clean, used, lost, prev>>

LEMMA ExecuteInv == IInv /\ mode' = mode /\ Execute => IInv'
<1> SUFFICES ASSUME IInv, mode' = mode, Execute PROVE IInv'
  OBVIOUS
<1>1. /\ mst = "idle" /\ mst' = "exec" /\ cmds # <<>>
      /\ UNCHANGED <<wire, pc, call, n, text, code, events, svca, res, cmds, msvca, urcs,
                     clean, used, lost, prev>>
  BY DEF Execute, dte
<1>2. PICK c, i : c = Head(cmds).call /\ i = Head(cmds).n
  OBVIOUS
<1>3. c \in Asked /\ i \in Nat
  <2>1. Head(cmds) \in [call : Asked, n : Nat]
    BY <1>1, HeadTailProperties DEF IInv, Sending
  <2> QED
    BY <1>2, <2>1
<1>4. /\ \/ out' = Answer(c, i)
         \/ out' \in CodeTexts(c, i)
         \/ out' \in {<<Err(i)>>} \cup Refusals(c, i)
      /\ mo' \in {0, i, mo} /\ sent' \in {mo, sent}
      /\ did' = did \/ did' = (did \/ (i = n /\ c # "setMo"))
  BY <1>2 DEF Execute
<1>5. Sendable(out', c)
  <2>1. Sendable(Answer(c, i), c)
    BY <1>3, AnswerType DEF IInv
  <2>2. ASSUME NEW ls \in {<<Err(i)>>} \cup Refusals(c, i) PROVE Sendable(ls, c)
    BY <1>3, RefusalType
  <2>3. ASSUME NEW ls \in CodeTexts(c, i) PROVE Sendable(ls, c)
    BY <1>3, CodeTextType
  <2> QED
    BY <1>4, <2>1, <2>2, <2>3
<1>6. out' \in Seq(Lines)
  BY <1>5 DEF Sendable, Plain
<1>7. did' \in BOOLEAN
  BY <1>4 DEF IInv, TypeOK
<1>8. mo' \in Nat /\ sent' \in Nat
  BY <1>3, <1>4 DEF IInv, TypeOK
<1>9. TypeOK'
  BY <1>1, <1>6, <1>7, <1>8 DEF IInv, TypeOK
<1>10. OwnStages' /\ Sending'
  BY <1>1, <1>2, <1>5 DEF IInv, OwnStages, Sending
<1> QED
  BY <1>9, <1>10 DEF IInv

LEMMA EmitInv == IInv /\ mode' = mode /\ Emit => IInv'
<1> SUFFICES ASSUME IInv, mode' = mode, Emit PROVE IInv'
  OBVIOUS
<1>1. /\ out # <<>> /\ out' = Tail(out)
      /\ wire' = Append(wire, IF Head(out).k = "SVCA" THEN Svca(msvca) ELSE Head(out))
      /\ UNCHANGED <<pc, call, n, text, code, events, svca, res, mo, sent, msvca, urcs,
                     clean, did, used, lost, prev>>
  BY DEF Emit, dte
<1>2. /\ mst = "exec" /\ cmds # <<>> /\ cmds \in Seq([call : Asked, n : Nat])
      /\ Sendable(out, Head(cmds).call) /\ out \in Seq(Lines)
  BY <1>1 DEF IInv, TypeOK, Sending
<1>3. Head(out) \in Lines /\ Tail(out) \in Seq(Lines)
  BY <1>1, <1>2, HeadTailProperties
<1>4. wire' \in Seq(Lines)
  BY <1>1, <1>3, EventType, AppendProperties DEF IInv, TypeOK
<1>5. CASE Tail(out) # <<>>
  <2>1. mst' = mst /\ cmds' = cmds
    BY <1>5 DEF Emit
  <2>2. Sendable(Tail(out), Head(cmds).call)
    <3>1. out \in Seq(Plain) => Tail(out) \in Seq(Plain)
      BY <1>1, HeadTailProperties
    <3> QED
      BY <1>2, <1>3, <1>5, <3>1 DEF Sendable
  <2>3. TypeOK'
    BY <1>1, <1>3, <1>4, <2>1 DEF IInv, TypeOK
  <2> QED
    BY <1>1, <1>2, <2>1, <2>2, <2>3 DEF IInv, OwnStages, Sending
<1>6. CASE Tail(out) = <<>> /\ Head(out).k = "READY"
  <2>1. mst' = "data" /\ cmds' = cmds
    BY <1>6 DEF Emit
  <2>2. Head(cmds).call = "setMo"
    <3>1. out \in Seq(Plain) => Head(out) \in Plain
      BY <1>1, HeadTailProperties
    <3> QED
      BY <1>2, <1>6, <3>1 DEF Sendable, Plain
  <2>3. TypeOK'
    BY <1>1, <1>2, <1>3, <1>4, <2>1, <2>2 DEF IInv, TypeOK
  <2> QED
    BY <1>1, <1>2, <1>6, <2>1, <2>3 DEF IInv, OwnStages, Sending
<1>7. CASE Tail(out) = <<>> /\ Head(out).k # "READY"
  <2>1. mst' = "idle" /\ cmds' = Tail(cmds)
    BY <1>7 DEF Emit
  <2>2. Tail(cmds) \in Seq([call : Asked, n : Nat])
    BY <1>2, HeadTailProperties
  <2>3. Tail(cmds) \in Seq([call : AllCalls, n : Nat])
    BY <1>2, HeadTailProperties DEF IInv, TypeOK
  <2>4. TypeOK'
    BY <1>1, <1>3, <1>4, <2>1, <2>3 DEF IInv, TypeOK
  <2> QED
    BY <1>1, <1>7, <2>1, <2>2, <2>4 DEF IInv, OwnStages, Sending
<1> QED
  BY <1>5, <1>6, <1>7

(* The answer after the message: its code, and OK.                         *)
MessageAnswer(v) == <<Digit(v, Head(cmds).n), Ok(Head(cmds).n)>>

LEMMA Closing ==
  ASSUME IInv, mst = "data", NEW v \in Values
  PROVE  Sendable(MessageAnswer(v), Head(cmds).call) /\ MessageAnswer(v) \in Seq(Lines)
<1>1. Head(cmds).n \in Nat
  <2>1. Head(cmds) \in [call : Asked, n : Nat]
    BY HeadTailProperties DEF IInv, TypeOK, Sending
  <2> QED
    BY <2>1
<1>2. Digit(v, Head(cmds).n) \in Plain /\ Ok(Head(cmds).n) \in Plain
  BY <1>1, CodeType DEF Plain
<1>3. MessageAnswer(v) \in Seq(Plain) /\ MessageAnswer(v) # <<>>
  BY <1>2, PlainSeqs DEF MessageAnswer
<1>4. MessageAnswer(v) \in Seq(Lines)
  BY <1>3 DEF Plain
<1> QED
  BY <1>3, <1>4 DEF Sendable

LEMMA DataTimeoutInv == IInv /\ mode' = mode /\ DataTimeout => IInv'
<1> SUFFICES ASSUME IInv, mode' = mode, DataTimeout PROVE IInv'
  OBVIOUS
<1>1. /\ mst = "data" /\ mst' = "exec"
      /\ out' = MessageAnswer(1)
      /\ UNCHANGED <<wire, pc, call, n, text, code, events, svca, res, cmds, mo, sent, msvca,
                     urcs, clean, did, used, lost, prev>>
  BY DEF DataTimeout, dte, MessageAnswer
<1>2. Sendable(out', Head(cmds).call) /\ out' \in Seq(Lines)
  <2>1. Sendable(MessageAnswer(1), Head(cmds).call) /\ MessageAnswer(1) \in Seq(Lines)
    BY <1>1, SomeValues, Closing
  <2> QED
    BY <1>1, <2>1
<1>3. TypeOK'
  BY <1>1, <1>2 DEF IInv, TypeOK
<1> QED
  BY <1>1, <1>2, <1>3 DEF IInv, OwnStages, Sending

(* An event is a line, and an SVCA event tells what the modem knows.       *)
LEMMA EventInv ==
  ASSUME IInv, NEW l, Event(l)
  PROVE  /\ l \in Lines /\ msvca' \in 0..1 /\ urcs' \in Nat
         /\ IF l.k = "SVCA" THEN l.v = msvca' ELSE msvca' = msvca
<1>1. msvca \in 0..1 /\ urcs \in Nat
  BY DEF IInv, TypeOK
<1>2. urcs' = urcs + 1
  BY DEF Event
<1>3. CASE l = Svca(1 - msvca) /\ msvca' = 1 - msvca
  <2>1. 1 - msvca \in 0..1
    BY <1>1
  <2> QED
    BY <1>1, <1>2, <1>3, <2>1, EventType
<1>4. CASE l = Ring /\ msvca' = msvca
  BY <1>1, <1>2, <1>4, EventType
<1> QED
  BY <1>3, <1>4 DEF Event

LEMMA UrcInv == IInv /\ mode' = mode /\ Urc => IInv'
<1> SUFFICES ASSUME IInv, mode' = mode, Urc PROVE IInv'
  OBVIOUS
<1>1. UNCHANGED <<pc, call, n, text, code, events, svca, res, mst, cmds, out, mo, sent,
                  clean, did, used, lost, prev>>
  BY DEF Urc, dte
<1>2. PICK l : Event(l) /\ wire' = Append(wire, l)
  BY DEF Urc
<1>3. msvca' \in 0..1 /\ urcs' \in Nat /\ wire' \in Seq(Lines)
  <2>1. wire \in Seq(Lines)
    BY DEF IInv, TypeOK
  <2> QED
    BY <1>2, <2>1, EventInv, AppendProperties
<1>4. TypeOK'
  BY <1>1, <1>3 DEF IInv, TypeOK
<1> QED
  BY <1>1, <1>4 DEF IInv, OwnStages, Sending

(***************************************************************************)
(* The thread's steps.                                                     *)
(***************************************************************************)
(* A new call, and the drain in front of its command.                      *)
LEMMA CallInv == IInv /\ mode' = mode /\ Call => IInv'
<1> SUFFICES ASSUME IInv, mode' = mode, Call PROVE IInv'
  OBVIOUS
<1>1. /\ pc = "idle" /\ call' \in Calls /\ n' = n + 1
      /\ pc' = IF call' = "evt" THEN "event" ELSE "drain"
      /\ text' = NoLine /\ code' = -1 /\ events' = IF call' = "evt" THEN 1 ELSE 2
      /\ clean' = FALSE /\ did' = FALSE /\ used' = {} /\ res' = "none"
      /\ prev' \in {n, 0}
      /\ UNCHANGED <<wire, svca, mst, cmds, out, mo, sent, msvca, urcs, lost>>
  BY DEF Call, Events, modem
<1>2. call' \in AllCalls
  BY <1>1, LinkAssumption
<1>3. NoLine \in Lines
  BY DEF NoLine, Line, Lines, LineKinds
<1>4. clean' \in BOOLEAN /\ did' \in BOOLEAN
  BY <1>1
<1>5. n' \in Nat /\ prev' \in Nat /\ pc' \in Stages /\ events' \in 1..2
  BY <1>1 DEF IInv, TypeOK, Stages, Reading
<1>6. TypeOK'
  BY <1>1, <1>2, <1>3, <1>4, <1>5 DEF IInv, TypeOK
<1>7. OwnStages'
  BY <1>1, <1>2, <1>5 DEF OwnStages, Asked
<1> QED
  BY <1>1, <1>6, <1>7 DEF IInv, Sending

LEMMA DrainInv == IInv /\ mode' = mode /\ DrainWire => IInv'
<1> SUFFICES ASSUME IInv, mode' = mode, DrainWire PROVE IInv'
  OBVIOUS
<1>1. /\ pc = "drain" /\ pc' = "write"
      /\ UNCHANGED <<call, n, text, code, events, svca, res, mst, cmds, out, mo, sent, did,
                     used, prev>>
  BY DEF DrainWire
<1>2. clean' \in BOOLEAN /\ lost' \in BOOLEAN
  BY DEF DrainWire, CutEvent, IInv, TypeOK
<1>3. wire' \in Seq(Lines) /\ msvca' \in 0..1 /\ urcs' \in Nat
  <2>1. CASE wire' = <<>> /\ UNCHANGED <<msvca, urcs>>
    BY <2>1 DEF IInv, TypeOK
  <2>2. ASSUME NEW l, Event(l), NEW rest \in Rests(l), wire' = Append(<<>>, rest)
        PROVE  wire' \in Seq(Lines) /\ msvca' \in 0..1 /\ urcs' \in Nat
    <3>1. l \in Lines /\ msvca' \in 0..1 /\ urcs' \in Nat
      BY <2>2, EventInv
    <3>2. rest \in Lines
      BY <3>1, RestType
    <3>3. <<>> \in Seq(Lines)
      OBVIOUS
    <3> QED
      BY <2>2, <3>1, <3>2, <3>3, AppendProperties
  <2> QED
    BY <2>1, <2>2 DEF DrainWire, CutEvent, Drained
<1>4. TypeOK'
  BY <1>1, <1>2, <1>3 DEF IInv, TypeOK, Stages
<1> QED
  BY <1>1, <1>4 DEF IInv, OwnStages, Sending

(* The modem receives a command.                                           *)
LEMMA ReceiveType ==
  ASSUME IInv, call \in Asked, Receive(call)
  PROVE  /\ cmds' \in Seq([call : Asked, n : Nat]) /\ cmds' \in Seq([call : AllCalls, n : Nat])
         /\ out' \in Seq(Lines)
         /\ mst' \in {"idle", "exec", "data"}
         /\ mst' # "idle" => cmds' # <<>>
         /\ mst' = "data" => Head(cmds').call = "setMo"
         /\ out' # <<>> => mst' = "exec" /\ Sendable(out', Head(cmds').call)
<1>1. CASE /\ mst # "data" /\ cmds' = Append(cmds, [call |-> call, n |-> n])
           /\ UNCHANGED <<mst, out>>
  <2> DEFINE c == [call |-> call, n |-> n]
             more == Append(cmds, c)
  <2>1. c \in [call : Asked, n : Nat] /\ c \in [call : AllCalls, n : Nat]
    BY DEF Asked, IInv, TypeOK
  <2> HIDE DEF c
  <2>0. cmds \in Seq([call : Asked, n : Nat]) /\ cmds \in Seq([call : AllCalls, n : Nat])
    BY DEF IInv, Sending, TypeOK
  <2>2. more \in Seq([call : Asked, n : Nat]) /\ more \in Seq([call : AllCalls, n : Nat])
    BY <2>0, <2>1, AppendProperties
  <2>3. more # <<>> /\ (cmds # <<>> => Head(more) = Head(cmds))
    <3>1. /\ Len(more) = Len(cmds) + 1 /\ Len(cmds) \in Nat
          /\ \A i \in 1..Len(cmds) : more[i] = cmds[i]
      BY <2>0, <2>1, AppendProperties, LenProperties
    <3> HIDE DEF more
    <3>2. cmds # <<>> => 1 \in 1..Len(cmds) /\ Head(cmds) = cmds[1]
      BY <2>0
    <3>3. more # <<>> /\ Head(more) = more[1]
      BY <2>2, <3>1
    <3> QED
      BY <3>1, <3>2, <3>3
  <2>4. cmds' = more
    BY <1>1 DEF c
  <2> HIDE DEF more
  <2>5. mst # "idle" => cmds # <<>>
    BY DEF IInv, TypeOK
  <2> QED
    BY <1>1, <2>2, <2>3, <2>4, <2>5 DEF IInv, Sending, TypeOK
<1>2. CASE UNCHANGED <<mst, cmds, out>>
  BY <1>2 DEF IInv, TypeOK, Sending
<1>3. CASE /\ mst = "data" /\ mst' = "exec" /\ cmds' = cmds
           /\ out' = MessageAnswer(2)
  <2>2. Sendable(MessageAnswer(2), Head(cmds).call) /\ MessageAnswer(2) \in Seq(Lines)
    BY <1>3, SomeValues, Closing
  <2>3. cmds # <<>>
    BY <1>3 DEF IInv, TypeOK
  <2> QED
    BY <1>3, <2>2, <2>3 DEF IInv, TypeOK, Sending
<1> QED
  BY <1>1, <1>2, <1>3 DEF Receive, MessageAnswer

LEMMA WriteInv == IInv /\ mode' = mode /\ WriteCmd => IInv'
<1> SUFFICES ASSUME IInv, mode' = mode, WriteCmd PROVE IInv'
  OBVIOUS
<1>1. /\ pc = "write" /\ call \in Asked
      /\ UNCHANGED <<call, n, text, code, events, svca, mo, sent, msvca, urcs,
                     clean, did, used, lost, prev>>
  BY DEF WriteCmd, IInv, OwnStages
<1>2. CASE pc' = "idle" /\ res' = "AT" /\ UNCHANGED <<wire, mst, cmds, out>>
  <2>1. TypeOK'
    BY <1>1, <1>2 DEF IInv, TypeOK, Stages
  <2> QED
    BY <1>1, <1>2, <2>1 DEF IInv, OwnStages, Sending
<1>3. CASE /\ Receive(call)
           /\ wire' = IF mode.echo /\ mst # "data" THEN Append(wire, Line("ECHO", 0, n)) ELSE wire
           /\ pc' = (IF mode.echo THEN "echo" ELSE FirstStage) /\ res' = res
  <2>1. wire' \in Seq(Lines)
    <3>1. Line("ECHO", 0, n) \in Lines
      BY DEF Line, Lines, LineKinds, IInv, TypeOK
    <3>2. wire \in Seq(Lines)
      BY DEF IInv, TypeOK
    <3>3. Append(wire, Line("ECHO", 0, n)) \in Seq(Lines)
      BY <3>1, <3>2, AppendProperties
    <3> QED
      BY <1>3, <3>2, <3>3
  <2>2. /\ pc' \in {"echo", "code", "line1", "lines", "bin", "head", "last"}
        /\ pc' = "line1" => call \in LineCalls
    BY <1>1, <1>3, FirstStages
  <2>3. /\ cmds' \in Seq([call : Asked, n : Nat]) /\ cmds' \in Seq([call : AllCalls, n : Nat])
        /\ out' \in Seq(Lines)
        /\ mst' \in {"idle", "exec", "data"}
        /\ mst' # "idle" => cmds' # <<>>
        /\ mst' = "data" => Head(cmds').call = "setMo"
        /\ out' # <<>> => mst' = "exec" /\ Sendable(out', Head(cmds').call)
    BY <1>1, <1>3, ReceiveType
  <2>4. pc' \in Stages
    BY <2>2 DEF Stages, Reading
  <2>5. TypeOK'
    BY <1>1, <1>3, <2>1, <2>3, <2>4 DEF IInv, TypeOK
  <2>6. OwnStages'
    BY <1>1, <2>2 DEF IInv, OwnStages
  <2> QED
    BY <2>3, <2>5, <2>6 DEF IInv, Sending
<1> QED
  BY <1>2, <1>3 DEF WriteCmd, Return

(* A line is read.                                                         *)
LEMMA AnswersType ==
  ASSUME NEW ls \in Seq(Lines)
  PROVE  Answers(ls) \subseteq Nat
<1>1. \A i \in 1..Len(ls) : ls[i].n \in Nat
  <2>1. \A i \in 1..Len(ls) : ls[i] \in Lines
    BY ElementOfSeq
  <2> QED
    BY <2>1 DEF Lines
<1> QED
  BY <1>1 DEF Answers

LEMMA ReadType ==
  ASSUME IInv, Read
  PROVE  /\ wire # <<>> /\ wire' = Tail(wire) /\ wire' \in Seq(Lines) /\ L \in Lines
         /\ Answers(<<L>>) \subseteq Nat
<1>1. wire \in Seq(Lines) /\ wire # <<>> /\ wire' = Tail(wire)
  BY DEF Read, IInv, TypeOK
<1>2. Head(wire) \in Lines /\ Tail(wire) \in Seq(Lines)
  BY <1>1, HeadTailProperties
<1>3. <<Head(wire)>> \in Seq(Lines)
  BY <1>2
<1> QED
  BY <1>1, <1>2, <1>3, AnswersType DEF L

LEMMA AnswerRead ==
  ASSUME IInv, Read, AsAnswer
  PROVE  /\ wire' \in Seq(Lines) /\ L \in Lines
         /\ used' \subseteq Nat /\ lost' \in BOOLEAN
BY ReadType DEF AsAnswer, IInv, TypeOK

(* What a reading step may do.                                             *)
Results == {"none", "OK", "AT", "OVERFLOW", "UNK", "CMD"}
NextStages == Stages \ {"drain", "write", "echo"}
ReadStep ==
  /\ UNCHANGED <<mode, call, n, clean, did, prev, mst, cmds, out, mo, sent, msvca, urcs>>
  /\ wire' \in Seq(Lines) /\ used' \subseteq Nat /\ lost' \in BOOLEAN
  /\ text' \in Lines /\ code' \in -1..126 /\ res' \in Results
  /\ svca' \in 0..1 /\ events' \in 0..2
  /\ pc' \in NextStages
  /\ pc' \in {"line1", "line2"} => call \in LineCalls
  /\ pc' # "idle" => events' \in 1..2

LEMMA ReadStepInv == IInv /\ ReadStep => IInv'
<1> SUFFICES ASSUME IInv, ReadStep PROVE IInv'
  OBVIOUS
<1>1. TypeOK'
  BY DEF ReadStep, IInv, TypeOK, Results, NextStages
<1>2. OwnStages'
  BY DEF ReadStep, IInv, OwnStages, NextStages
<1> QED
  BY <1>1, <1>2 DEF ReadStep, IInv, Sending

(* The end of a call whose answer may be too long for the buffer.          *)
LEMMA Ended ==
  ASSUME NEW l, NEW r, ReturnIfFits(l, r)
  PROVE  pc' = "idle" /\ res' \in {r, "OVERFLOW"}
BY DEF ReturnIfFits, Return

(* The numbers of a line.                                                  *)
LEMMA CodesType ==
  ASSUME IInv, NEW l \in Lines, NEW v \in RespCodes(l)
  PROVE  NewCode(v) \in -1..126
<1>1. l.v \in 0..126
  BY DEF Lines
<1>2. v \in -1..126
  BY <1>1 DEF RespCodes
<1> QED
  BY <1>2 DEF NewCode, IInv, TypeOK

LEMMA EchoStep == IInv /\ mode' = mode /\ CheckEcho => ReadStep
<1> SUFFICES ASSUME IInv, mode' = mode, CheckEcho PROVE ReadStep
  OBVIOUS
<1>1. /\ pc = "echo" /\ call \in Asked /\ pc' = FirstStage
      /\ UNCHANGED <<call, n, text, code, events, svca, res, mst, cmds, out, mo, sent, msvca,
                     urcs, clean, did, prev>>
  BY DEF CheckEcho, modem, IInv, OwnStages
<1>2. wire' \in Seq(Lines) /\ used' \subseteq Nat /\ lost' \in BOOLEAN
  <2>1. CASE Read /\ AsAnswer
    BY <2>1, AnswerRead
  <2>2. CASE UNCHANGED <<wire, used, lost>>
    BY <2>2 DEF IInv, TypeOK
  <2> QED
    BY <2>1, <2>2 DEF CheckEcho
<1>3. pc' \in NextStages /\ pc' # "line2" /\ (pc' = "line1" => call \in LineCalls)
  BY <1>1, FirstStages DEF NextStages, Stages, Reading
<1>4. events \in 1..2
  BY <1>1 DEF IInv, OwnStages
<1> QED
  BY <1>1, <1>2, <1>3, <1>4 DEF ReadStep, IInv, TypeOK, Results

LEMMA TimeoutStep == IInv /\ mode' = mode /\ ReadTimeout => ReadStep
<1> SUFFICES ASSUME IInv, mode' = mode, ReadTimeout PROVE ReadStep
  OBVIOUS
<1>1. /\ pc \in Reading
      /\ UNCHANGED <<wire, call, n, text, code, events, svca, mst, cmds, out, mo, sent, msvca,
                     urcs, clean, did, used, lost, prev>>
  BY DEF ReadTimeout, modem
<1>2. \/ pc' \in {"text", "last"} /\ res' = res
      \/ pc' = "idle" /\ res' = "AT"
  BY DEF ReadTimeout, Return
<1>3. pc' \in NextStages /\ pc' \notin {"line1", "line2"} /\ res' \in Results
  BY <1>2 DEF NextStages, Stages, Reading, IInv, TypeOK, Results
<1>4. events \in 1..2
  BY <1>1 DEF IInv, OwnStages, Reading
<1> QED
  BY <1>1, <1>3, <1>4 DEF ReadStep, IInv, TypeOK

(* The stages that read a line as a part of the answer.                    *)
AnswerStep ==
  \/ ReadCode \/ ReadCode2 \/ ReadLast \/ ReadLine1 \/ ReadLine2 \/ ReadLines
  \/ ReadHead \/ ReadText

LEMMA AnswerFrame ==
  AnswerStep =>
    /\ Read /\ AsAnswer
    /\ UNCHANGED <<call, n, svca, mst, cmds, out, mo, sent, msvca, urcs, clean, did, prev,
                   events>>
BY DEF AnswerStep, ReadCode, ReadCode2, ReadLast, ReadLine1, ReadLine2, ReadLines,
       ReadHead, ReadText, modem

(* Where they lead, and what they keep.                                    *)
LEMMA AnswerLeads ==
  ASSUME IInv, AnswerStep
  PROVE  /\ pc \in Reading
         /\ pc' \in NextStages /\ pc' # "line1" /\ (pc' = "line2" => call \in LineCalls)
         /\ res' \in Results /\ text' \in {text, L, NoLine}
         /\ code' = code \/ \E v \in RespCodes(L) : code' = NewCode(v)
<1>1. res \in Results
  BY DEF IInv, TypeOK, Results
<1>2. CASE ReadCode
  <2>1. PICK v \in RespCodes(L) :
          /\ code' = NewCode(v)
          /\ \/ pc' \in {"data", "last"} /\ res' = res
             \/ ReturnIfFits(L, "AT")
    BY <1>2 DEF ReadCode
  <2>2. pc = "code" /\ text' = text
    BY <1>2 DEF ReadCode
  <2>3. \/ pc' \in {"data", "last"} /\ res' = res
        \/ pc' = "idle" /\ res' \in {"AT", "OVERFLOW"}
    BY <2>1, Ended
  <2> QED
    BY <1>1, <2>1, <2>2, <2>3 DEF Results, Reading, NextStages, Stages
<1>3. CASE ReadCode2
  BY <1>1, <1>3 DEF ReadCode2, Return, Results, Reading, NextStages, Stages
<1>4. CASE ReadLast
  <2>1. /\ pc = "last" /\ UNCHANGED <<text, code>>
        /\ \/ pc' = "idle" /\ res' \in {"AT", "OK", "CMD"}
           \/ pc' = "event" /\ res' = res
    BY <1>4 DEF ReadLast, Return, CodeResults
  <2> QED
    BY <1>1, <2>1 DEF Results, Reading, NextStages, Stages
<1>5. CASE ReadLine1
  <2>1. /\ pc = "line1" /\ code' = code
        /\ \/ pc' = "idle" /\ res' \in {"OK", "UNK", "AT"} /\ text' = text
           \/ pc' = "line2" /\ text' = L /\ res' = res
    BY <1>5 DEF ReadLine1, Return
  <2>2. call \in LineCalls
    BY <2>1 DEF IInv, OwnStages
  <2> QED
    BY <1>1, <2>1, <2>2 DEF Results, Reading, NextStages, Stages
<1>6. CASE ReadLine2
  <2>1. call \in LineCalls
    BY <1>6 DEF ReadLine2, IInv, OwnStages
  <2>2. PICK r \in {"OK", "UNK", "AT", "CMD"} : ReturnIfFits(text, r)
    <3> DEFINE r == CASE StrCode(L) # "OK" -> "AT"
                      [] StrCode(L) = "OK" /\ call = "sbdix" -> SbdixResult
                      [] StrCode(L) = "OK" /\ call = "query" -> QueryResult
                      [] StrCode(L) = "OK" /\ call \in AnyText -> "OK"
    <3>1. r \in {"OK", "UNK", "AT", "CMD"}
      BY <2>1 DEF LineCalls, AnyText, SbdixResult, QueryResult
    <3>2. ReturnIfFits(text, r)
      BY <1>6 DEF ReadLine2
    <3> QED
      BY <3>1, <3>2
  <2>3. pc = "line2" /\ UNCHANGED <<text, code>>
    BY <1>6 DEF ReadLine2
  <2>4. pc' = "idle" /\ res' \in {"OK", "UNK", "AT", "CMD", "OVERFLOW"}
    BY <2>2, Ended
  <2> QED
    BY <2>3, <2>4 DEF Results, Reading, NextStages, Stages
<1>7. CASE ReadLines
  <2>1. /\ pc = "lines" /\ code' = code
        /\ \/ pc' = "idle" /\ res' \in {"OK", "AT", "OVERFLOW"} /\ text' = text
           \/ pc' = pc /\ text' = L /\ res' = res
    BY <1>7, Ended DEF ReadLines, Return
  <2> QED
    BY <1>1, <2>1 DEF Results, Reading, NextStages, Stages
<1>8. CASE ReadHead
  BY <1>1, <1>8 DEF ReadHead, Results, Reading, NextStages, Stages
<1>9. CASE ReadText
  <2>1. /\ pc = "text" /\ code' = code /\ text' \in {L, NoLine}
        /\ \/ pc' = "idle" /\ res' \in {"OK", "AT", "OVERFLOW"}
           \/ pc' = "last" /\ res' = res
    BY <1>9, Ended DEF ReadText, Return
  <2> QED
    BY <1>1, <2>1 DEF Results, Reading, NextStages, Stages
<1> QED
  BY <1>2, <1>3, <1>4, <1>5, <1>6, <1>7, <1>8, <1>9 DEF AnswerStep

LEMMA AnswerStepReads == IInv /\ mode' = mode /\ AnswerStep => ReadStep
<1> SUFFICES ASSUME IInv, mode' = mode, AnswerStep PROVE ReadStep
  OBVIOUS
<1>1. /\ Read /\ AsAnswer
      /\ UNCHANGED <<call, n, svca, mst, cmds, out, mo, sent, msvca, urcs, clean, did, prev,
                     events>>
  BY AnswerFrame
<1>2. wire' \in Seq(Lines) /\ L \in Lines /\ used' \subseteq Nat /\ lost' \in BOOLEAN
  BY <1>1, AnswerRead
<1>3. /\ pc \in Reading
      /\ pc' \in NextStages /\ pc' # "line1" /\ (pc' = "line2" => call \in LineCalls)
      /\ res' \in Results /\ text' \in {text, L, NoLine}
      /\ code' = code \/ \E v \in RespCodes(L) : code' = NewCode(v)
  BY AnswerLeads
<1>4. code' \in -1..126 /\ text' \in Lines
  <2>1. NoLine \in Lines
    BY DEF NoLine, Line, Lines, LineKinds
  <2>2. code \in -1..126 /\ text \in Lines
    BY DEF IInv, TypeOK
  <2>3. \A v \in RespCodes(L) : NewCode(v) \in -1..126
    BY <1>2, CodesType
  <2> QED
    BY <1>2, <1>3, <2>1, <2>2, <2>3
<1>5. events \in 1..2
  BY <1>3 DEF IInv, OwnStages, Reading
<1> QED
  BY <1>1, <1>2, <1>3, <1>4, <1>5 DEF ReadStep, IInv, TypeOK

(* The rest of a line, and the lines after it.                             *)
RestOf(i) == <<Line("REST", 0, wire[i].n)>> \o SubSeq(wire, i + 1, Len(wire))

LEMMA RestOfType ==
  ASSUME NEW i, wire[i] \in Lines, SubSeq(wire, i + 1, Len(wire)) \in Seq(Lines)
  PROVE  RestOf(i) \in Seq(Lines)
<1>1. Line("REST", 0, wire[i].n) \in Lines
  BY DEF Line, Lines, LineKinds
<1>2. <<Line("REST", 0, wire[i].n)>> \in Seq(Lines)
  BY <1>1
<1> QED
  BY <1>2, ConcatProperties DEF RestOf

LEMMA BinStep == IInv /\ mode' = mode /\ ReadBin => ReadStep
<1> SUFFICES ASSUME IInv, mode' = mode, ReadBin PROVE ReadStep
  OBVIOUS
<1>1. /\ pc = "bin"
      /\ UNCHANGED <<call, n, text, code, events, svca, mst, cmds, out, mo, sent, msvca,
                     urcs, clean, did, prev>>
      /\ (pc' = "last" /\ res' = res) \/ (pc' = "idle" /\ res' = "OVERFLOW")
  BY DEF ReadBin, Return, modem
<1>2. wire' \in Seq(Lines) /\ used' \subseteq Nat /\ lost' \in BOOLEAN
  <2>1. CASE Read /\ AsAnswer
    BY <2>1, AnswerRead
  <2>2. ASSUME NEW i \in 1..Len(wire),
               wire' \in {RestOf(i), SubSeq(wire, i + 1, Len(wire))},
               used' = used \cup Answers(SubSeq(wire, 1, i)),
               lost' = (lost \/ HasEvent(SubSeq(wire, 1, i)))
        PROVE  wire' \in Seq(Lines) /\ used' \subseteq Nat /\ lost' \in BOOLEAN
    <3>1. wire \in Seq(Lines) /\ Len(wire) \in Nat /\ \A j \in 1..Len(wire) : wire[j] \in Lines
      BY LenProperties, ElementOfSeq DEF IInv, TypeOK
    <3>2. SubSeq(wire, i + 1, Len(wire)) \in Seq(Lines)
      <4>1. i + 1 \in Int /\ Len(wire) \in Int /\ \A j \in (i + 1)..Len(wire) : wire[j] \in Lines
        BY <3>1
      <4> QED
        BY <4>1, SubSeqProperties
    <3>3. SubSeq(wire, 1, i) \in Seq(Lines)
      <4>1. 1 \in Int /\ i \in Int /\ \A j \in 1..i : wire[j] \in Lines
        BY <3>1
      <4> QED
        BY <4>1, SubSeqProperties
    <3>4. used' \subseteq Nat
      BY <2>2, <3>3, AnswersType DEF IInv, TypeOK
    <3>5. RestOf(i) \in Seq(Lines)
      BY <3>1, <3>2, RestOfType
    <3> QED
      BY <2>2, <3>2, <3>4, <3>5 DEF IInv, TypeOK, HasEvent
  <2> QED
    BY <2>1, <2>2 DEF ReadBin, BinOverflow, RestOf
<1>3. events \in 1..2
  BY <1>1 DEF IInv, OwnStages
<1>4. pc' \in NextStages /\ pc' \notin {"line1", "line2"} /\ res' \in Results
  BY <1>1 DEF NextStages, Stages, Reading, IInv, TypeOK, Results
<1> QED
  BY <1>1, <1>2, <1>3, <1>4 DEF ReadStep, IInv, TypeOK

LEMMA EventStep == IInv /\ mode' = mode /\ ReadEvent => ReadStep
<1> SUFFICES ASSUME IInv, mode' = mode, ReadEvent PROVE ReadStep
  OBVIOUS
<1>1. /\ pc = "event" /\ Read /\ used' = used \cup Answers(<<L>>)
      /\ UNCHANGED <<call, n, text, code, mst, cmds, out, mo, sent, msvca, urcs, clean, did,
                     lost, prev>>
  BY DEF ReadEvent, modem
<1>2. wire' \in Seq(Lines) /\ L \in Lines /\ used' \subseteq Nat /\ lost' \in BOOLEAN
  BY <1>1, ReadType DEF IInv, TypeOK
<1>3. events \in 1..2 /\ svca \in 0..1 /\ res \in Results
  BY <1>1 DEF IInv, OwnStages, TypeOK, Results
<1>4. \/ /\ IsEvent(L) /\ svca' = Told(L) /\ events' = events - 1
         /\ \/ events = 1 /\ pc' = "idle" /\ res' = "OK"
            \/ events # 1 /\ pc' = pc /\ res' = res
      \/ pc' = "idle" /\ res' \in {"AT", "UNK", "OVERFLOW"} /\ UNCHANGED <<svca, events>>
  BY Ended DEF ReadEvent, Return
<1>5. IsEvent(L) => Told(L) \in 0..1
  <2>1. IsEvent(L) /\ L.k = "SVCA" => L.v \in 0..1
    BY <1>2 DEF Lines
  <2> QED
    BY <1>3, <2>1 DEF Told
<1>6. svca' \in 0..1 /\ events' \in 0..2 /\ (pc' # "idle" => events' \in 1..2)
  BY <1>3, <1>4, <1>5
<1>7. pc' \in NextStages /\ pc' \notin {"line1", "line2"} /\ res' \in Results
  BY <1>1, <1>3, <1>4 DEF NextStages, Stages, Reading, Results
<1> QED
  BY <1>1, <1>2, <1>6, <1>7 DEF ReadStep, IInv, TypeOK

(* The message is written.                                                 *)
LEMMA WriteDataInv == IInv /\ mode' = mode /\ WriteData => IInv'
<1> SUFFICES ASSUME IInv, mode' = mode, WriteData PROVE IInv'
  OBVIOUS
<1>1. /\ pc = "data" /\ pc' = "code2"
      /\ UNCHANGED <<wire, call, n, text, code, events, svca, res, cmds, sent, msvca, urcs,
                     clean, used, lost, prev>>
  BY DEF WriteData
<1>2. CASE UNCHANGED <<mst, mo, did, out>>
  <2>1. TypeOK'
    BY <1>1, <1>2 DEF IInv, TypeOK, Stages, Reading
  <2> QED
    BY <1>1, <1>2, <2>1 DEF IInv, OwnStages, Sending
<1>3. ASSUME NEW v \in Values, mst = "data", mst' = "exec",
             out' = MessageAnswer(v), mo' \in {mo, n},
             did' = did \/ did' = (Head(cmds).n = n)
      PROVE  IInv'
  <2>1. Sendable(MessageAnswer(v), Head(cmds).call) /\ MessageAnswer(v) \in Seq(Lines)
    BY <1>3, Closing
  <2>2. mo' \in Nat /\ did' \in BOOLEAN
    BY <1>3 DEF IInv, TypeOK
  <2>3. TypeOK'
    BY <1>1, <1>3, <2>1, <2>2 DEF IInv, TypeOK, Stages, Reading
  <2>4. OwnStages'
    BY <1>1, <1>3 DEF IInv, OwnStages
  <2>5. Sending'
    BY <1>1, <1>3, <2>1 DEF IInv, Sending
  <2> QED
    BY <2>3, <2>4, <2>5 DEF IInv
<1> QED
  BY <1>2, <1>3, SomeValues DEF WriteData, MessageAnswer

LEMMA StepInv == IInv /\ [Next]_vars => IInv'
<1> SUFFICES ASSUME IInv, [Next]_vars PROVE IInv'
  OBVIOUS
<1>1. CASE Start
  BY <1>1, CallInv, UrcInv DEF Start
<1>2. CASE ModemStep
  BY <1>2, ExecuteInv, EmitInv, DataTimeoutInv DEF ModemStep
<1>3. CASE DteStep
  <2>1. CASE AnswerStep
    BY <1>3, <2>1, AnswerStepReads, ReadStepInv DEF DteStep
  <2>2. CASE CheckEcho \/ ReadTimeout \/ ReadBin \/ ReadEvent
    BY <1>3, <2>2, EchoStep, TimeoutStep, BinStep, EventStep, ReadStepInv DEF DteStep
  <2>3. CASE DrainWire \/ WriteCmd \/ WriteData
    BY <1>3, <2>3, DrainInv, WriteInv, WriteDataInv DEF DteStep
  <2> QED
    BY <1>3, <2>1, <2>2, <2>3 DEF DteStep, AnswerStep
<1>4. CASE UNCHANGED vars
  <2>1. TypeOK'
    BY <1>4 DEF vars, dte, modem, IInv, TypeOK
  <2> QED
    BY <1>4, <2>1 DEF vars, dte, modem, IInv, OwnStages, Sending
<1> QED
  BY <1>1, <1>2, <1>3, <1>4 DEF Next

THEOREM LinkInvariant == Spec => []IInv
BY InitInv, StepInv, PTL DEF Spec

(***************************************************************************)
(* What it says about the code.                                            *)
(***************************************************************************)
(* Whatever lines come, and in whatever order, the stages of a command     *)
(* follow each other as the code has them, and the modem waits for a       *)
(* message only while it executes AT+SBDWB.                                *)
THEOREM TypeCorrect == Spec => []TypeOK
BY LinkInvariant, PTL DEF IInv

(***************************************************************************)
(* The service availability.                                               *)
(***************************************************************************)
(* The last SVCA event on the line tells m; without one the thread knows.  *)
NewsIs(w, m) ==
  \E i \in 1..Len(w) :
    w[i].k = "SVCA" /\ w[i].v = m /\ \A j \in 1..Len(w) : j > i => w[j].k # "SVCA"
Knows(w, s, m) == NewsIs(w, m) \/ (NoSvcaOn(w) /\ s = m)

LEMMA KnowsOther ==
  ASSUME NEW w \in Seq(Lines), NEW l \in Lines, l.k # "SVCA", NEW s, NEW m, Knows(w, s, m)
  PROVE  Knows(Append(w, l), s, m)
<1> DEFINE q == Append(w, l)
<1>1. /\ Len(q) = Len(w) + 1 /\ Len(w) \in Nat
      /\ \A i \in 1..Len(w) : q[i] = w[i]
      /\ q[Len(w) + 1] = l
  BY AppendProperties, LenProperties
<1> HIDE DEF q
<1>2. \A i \in 1..Len(q) : i \in 1..Len(w) \/ i = Len(w) + 1
  BY <1>1
<1>3. ASSUME NoSvcaOn(w) PROVE NoSvcaOn(q)
  BY <1>1, <1>2, <1>3 DEF NoSvcaOn
<1>4. ASSUME NewsIs(w, m) PROVE NewsIs(q, m)
  <2>1. PICK i \in 1..Len(w) :
          w[i].k = "SVCA" /\ w[i].v = m /\ \A j \in 1..Len(w) : j > i => w[j].k # "SVCA"
    BY <1>4 DEF NewsIs
  <2>2. i \in 1..Len(q) /\ q[i] = w[i]
    BY <1>1
  <2>3. \A j \in 1..Len(q) : j > i => q[j].k # "SVCA"
    BY <1>1, <1>2, <2>1
  <2> QED
    BY <2>1, <2>2, <2>3 DEF NewsIs
<1> QED
  BY <1>3, <1>4 DEF Knows, q

LEMMA KnowsNews ==
  ASSUME NEW w \in Seq(Lines), NEW l \in Lines, l.k = "SVCA", NEW s, NEW m, l.v = m
  PROVE  Knows(Append(w, l), s, m)
<1> DEFINE q == Append(w, l)
<1>1. Len(q) = Len(w) + 1 /\ Len(w) \in Nat /\ q[Len(w) + 1] = l
  BY AppendProperties, LenProperties
<1> HIDE DEF q
<1>2. Len(w) + 1 \in 1..Len(q) /\ \A j \in 1..Len(q) : ~(j > Len(w) + 1)
  BY <1>1
<1> QED
  BY <1>1, <1>2 DEF NewsIs, Knows, q

(* The first k lines are read, and told the thread nothing,                *)
LEMMA KnowsRest ==
  ASSUME NEW w \in Seq(Lines), NEW k \in 1..Len(w), NEW s, NEW m, Knows(w, s, m),
         \A i \in 1..k : w[i].k # "SVCA"
  PROVE  Knows(SubSeq(w, k + 1, Len(w)), s, m)
<1> DEFINE q == SubSeq(w, k + 1, Len(w))
<1>0. Len(w) \in Nat /\ k \in Nat
  BY LenProperties
<1>1. Len(q) = Len(w) - k /\ \A i \in 1..(Len(w) - k) : q[i] = w[k + i]
  BY <1>0
<1> HIDE DEF q
<1>2. ASSUME NEW i \in 1..Len(q) PROVE k + i \in 1..Len(w) /\ q[i] = w[k + i]
  BY <1>0, <1>1
<1>3. ASSUME NoSvcaOn(w) PROVE NoSvcaOn(q)
  BY <1>2, <1>3 DEF NoSvcaOn
<1>4. ASSUME NewsIs(w, m) PROVE NewsIs(q, m)
  <2>1. PICK i \in 1..Len(w) :
          w[i].k = "SVCA" /\ w[i].v = m /\ \A j \in 1..Len(w) : j > i => w[j].k # "SVCA"
    BY <1>4 DEF NewsIs
  <2>2. PICK h : h = i - k
    OBVIOUS
  <2>3. h \in 1..Len(q) /\ k + h = i
    BY <1>0, <1>1, <2>1, <2>2
  <2>4. ASSUME NEW j \in 1..Len(q), j > h PROVE q[j].k # "SVCA"
    <3>1. k + j > i
      BY <1>0, <1>1, <2>3, <2>4
    <3> QED
      BY <1>2, <2>1, <3>1
  <2> QED
    BY <1>2, <2>1, <2>3, <2>4 DEF NewsIs
<1> QED
  BY <1>3, <1>4 DEF Knows, q

(* or the first was the news.                                              *)
LEMMA KnowsTold ==
  ASSUME NEW w \in Seq(Lines), w # <<>>, Head(w).k = "SVCA", NEW s, NEW m, Knows(w, s, m)
  PROVE  Knows(Tail(w), Head(w).v, m)
<1> DEFINE q == Tail(w)
<1>0. Len(w) \in Nat \ {0} /\ Head(w) = w[1]
  BY EmptySeq, LenProperties
<1>1. Len(q) = Len(w) - 1 /\ \A i \in 1..(Len(w) - 1) : q[i] = w[i + 1]
  BY <1>0, HeadTailProperties
<1> HIDE DEF q
<1>2. ASSUME NEW i \in 1..Len(q) PROVE i + 1 \in 1..Len(w) /\ q[i] = w[i + 1]
  BY <1>0, <1>1
<1>3. 1 \in 1..Len(w) /\ ~NoSvcaOn(w)
  BY <1>0 DEF NoSvcaOn
<1>4. PICK i \in 1..Len(w) :
        w[i].k = "SVCA" /\ w[i].v = m /\ \A j \in 1..Len(w) : j > i => w[j].k # "SVCA"
  BY <1>3 DEF Knows, NewsIs
<1>5. CASE i = 1
  <2>1. ASSUME NEW j \in 1..Len(q) PROVE q[j].k # "SVCA"
    <3>1. j + 1 > i
      BY <1>5
    <3> QED
      BY <1>2, <1>4, <3>1
  <2> QED
    BY <1>0, <1>4, <1>5, <2>1 DEF Knows, NoSvcaOn, q
<1>6. CASE i # 1
  <2>1. PICK h : h = i - 1
    OBVIOUS
  <2>2. h \in 1..Len(q) /\ h + 1 = i
    BY <1>0, <1>1, <1>6, <2>1
  <2>3. ASSUME NEW j \in 1..Len(q), j > h PROVE q[j].k # "SVCA"
    <3>1. j + 1 > i
      BY <2>2, <2>3
    <3> QED
      BY <1>2, <1>4, <3>1
  <2> QED
    BY <1>2, <1>4, <2>2, <2>3 DEF Knows, NewsIs, q
<1> QED
  BY <1>5, <1>6

(* A line in front of it tells nothing.                                    *)
LEMMA KnowsCons ==
  ASSUME NEW w \in Seq(Lines), NEW l \in Lines, l.k # "SVCA", NEW s, NEW m, Knows(w, s, m)
  PROVE  Knows(<<l>> \o w, s, m)
<1> DEFINE q == <<l>> \o w
<1>1. /\ Len(q) = Len(w) + 1 /\ Len(w) \in Nat /\ q[1] = l
      /\ \A i \in 1..Len(w) : q[i + 1] = w[i]
  <2>1. <<l>> \in Seq(Lines) /\ Len(<<l>>) = 1 /\ <<l>>[1] = l
    OBVIOUS
  <2>2. /\ Len(q) = Len(<<l>>) + Len(w)
        /\ \A i \in 1..Len(q) : q[i] = IF i <= Len(<<l>>) THEN <<l>>[i] ELSE w[i - Len(<<l>>)]
    BY <2>1, ConcatProperties
  <2>3. Len(w) \in Nat
    BY LenProperties
  <2> HIDE DEF q
  <2>4. ASSUME NEW i \in 1..Len(w) PROVE q[i + 1] = w[i]
    <3>1. i + 1 \in 1..Len(q) /\ ~(i + 1 <= 1) /\ (i + 1) - 1 = i
      BY <2>1, <2>2, <2>3
    <3> QED
      BY <2>1, <2>2, <3>1
  <2>5. 1 \in 1..Len(q)
    BY <2>1, <2>2, <2>3
  <2> QED
    BY <2>1, <2>2, <2>3, <2>4, <2>5
<1> HIDE DEF q
<1>2. ASSUME NEW j \in 1..Len(q), j # 1 PROVE j - 1 \in 1..Len(w) /\ q[j] = w[j - 1]
  <2>1. j - 1 \in 1..Len(w) /\ (j - 1) + 1 = j
    BY <1>1, <1>2
  <2> QED
    BY <1>1, <2>1
<1>3. ASSUME NoSvcaOn(w) PROVE NoSvcaOn(q)
  BY <1>1, <1>2, <1>3 DEF NoSvcaOn
<1>4. ASSUME NewsIs(w, m) PROVE NewsIs(q, m)
  <2>1. PICK i \in 1..Len(w) :
          w[i].k = "SVCA" /\ w[i].v = m /\ \A j \in 1..Len(w) : j > i => w[j].k # "SVCA"
    BY <1>4 DEF NewsIs
  <2>2. i + 1 \in 1..Len(q) /\ q[i + 1] = w[i]
    BY <1>1
  <2>3. ASSUME NEW j \in 1..Len(q), j > i + 1 PROVE q[j].k # "SVCA"
    <3>1. j # 1 /\ j - 1 > i
      BY <2>3
    <3> QED
      BY <1>2, <2>1, <3>1
  <2> QED
    BY <2>1, <2>2, <2>3 DEF NewsIs
<1> QED
  BY <1>3, <1>4 DEF Knows, q

Tracks == ~lost => Knows(wire, svca, msvca)

(* The lines of the modem, and its echo.                                   *)
LEMMA TracksAppend ==
  ASSUME IInv, Tracks, NEW l \in Lines, wire' = Append(wire, l), UNCHANGED <<svca, lost>>,
         IF l.k = "SVCA" THEN l.v = msvca' ELSE msvca' = msvca
  PROVE  Tracks'
<1>1. wire \in Seq(Lines)
  BY DEF IInv, TypeOK
<1>2. CASE l.k = "SVCA"
  <2>1. Knows(Append(wire, l), svca, l.v)
    BY <1>1, <1>2, KnowsNews
  <2> QED
    BY <1>2, <2>1 DEF Tracks
<1>3. CASE l.k # "SVCA"
  <2>1. ~lost => Knows(Append(wire, l), svca, msvca)
    BY <1>1, <1>3, KnowsOther DEF Tracks
  <2> QED
    BY <1>3, <2>1 DEF Tracks
<1> QED
  BY <1>2, <1>3

LEMMA TracksSame == Tracks /\ UNCHANGED <<wire, svca, msvca, lost>> => Tracks'
BY DEF Tracks

(* A line is read: news are told, or lost.                                 *)
LEMMA TracksRead ==
  ASSUME IInv, Tracks, Read, msvca' = msvca,
         lost' = lost \/ lost' = (lost \/ IsEvent(L)),
         svca' = Told(L) \/ (svca' = svca /\ (L.k = "SVCA" => lost'))
  PROVE  Tracks'
<1> SUFFICES ASSUME ~lost' PROVE Knows(wire', svca', msvca')
  BY DEF Tracks
<1>1. /\ wire # <<>> /\ wire' = Tail(wire) /\ L = Head(wire) /\ wire \in Seq(Lines)
      /\ Len(wire) \in Nat \ {0} /\ Head(wire) = wire[1]
  BY ReadType, EmptySeq, LenProperties DEF IInv, TypeOK, L
<1>2. Knows(wire, svca, msvca)
  BY DEF Tracks
<1>3. CASE L.k = "SVCA"
  <2>1. svca' = L.v
    BY <1>3 DEF Told
  <2>2. Knows(Tail(wire), Head(wire).v, msvca)
    BY <1>1, <1>2, <1>3, KnowsTold
  <2> QED
    BY <1>1, <2>1, <2>2
<1>4. CASE L.k # "SVCA"
  <2>1. svca' = svca
    BY <1>4 DEF Told
  <2>2. Knows(SubSeq(wire, 1 + 1, Len(wire)), svca, msvca)
    <3>1. 1 \in 1..Len(wire) /\ \A i \in 1..1 : wire[i].k # "SVCA"
      BY <1>1, <1>4
    <3> QED
      BY <1>1, <1>2, <3>1, KnowsRest
  <2>3. Tail(wire) = SubSeq(wire, 1 + 1, Len(wire))
    BY <1>1, TailIsSubSeq, 1 + 1 = 2
  <2> QED
    BY <1>1, <2>1, <2>2, <2>3
<1> QED
  BY <1>3, <1>4

(* The lines of a wrong answer to AT+SBDRB.                                *)
LEMMA TracksBin ==
  ASSUME IInv, Tracks, UNCHANGED <<svca, msvca>>, NEW i \in 1..Len(wire),
         wire' \in {RestOf(i), SubSeq(wire, i + 1, Len(wire))},
         lost' = (lost \/ HasEvent(SubSeq(wire, 1, i)))
  PROVE  Tracks'
<1> SUFFICES ASSUME ~lost' PROVE Knows(wire', svca', msvca')
  BY DEF Tracks
<1>1. wire \in Seq(Lines) /\ Len(wire) \in Nat
  BY LenProperties DEF IInv, TypeOK
<1>2. ~HasEvent(SubSeq(wire, 1, i)) /\ Knows(wire, svca, msvca)
  BY DEF Tracks
<1>3. ASSUME NEW j \in 1..i PROVE wire[j].k # "SVCA"
  <2>1. Len(SubSeq(wire, 1, i)) = i /\ SubSeq(wire, 1, i)[j] = wire[j]
    BY <1>1
  <2>2. ~IsEvent(wire[j])
    BY <1>2, <2>1 DEF HasEvent
  <2> QED
    BY <2>2 DEF IsEvent
<1>4. Knows(SubSeq(wire, i + 1, Len(wire)), svca, msvca)
  BY <1>1, <1>2, <1>3, KnowsRest
<1>5. Knows(RestOf(i), svca, msvca)
  <2>1. wire[i] \in Lines /\ \A j \in (i + 1)..Len(wire) : wire[j] \in Lines
    BY <1>1, ElementOfSeq
  <2>2. Line("REST", 0, wire[i].n) \in Lines /\ Line("REST", 0, wire[i].n).k # "SVCA"
    BY <2>1 DEF Line, Lines, LineKinds
  <2>3. SubSeq(wire, i + 1, Len(wire)) \in Seq(Lines)
    BY <1>1, <2>1, SubSeqProperties
  <2> QED
    BY <1>4, <2>2, <2>3, KnowsCons DEF RestOf
<1> QED
  BY <1>4, <1>5

LEMMA InitTracks == Init => Tracks
BY DEF Init, Tracks, Knows, NoSvcaOn

LEMMA StepTracks == IInv /\ Tracks /\ [Next]_vars => Tracks'
<1> SUFFICES ASSUME IInv, Tracks, [Next]_vars PROVE Tracks'
  OBVIOUS
<1>0. wire \in Seq(Lines) /\ msvca \in 0..1
  BY DEF IInv, TypeOK
<1>1. CASE Urc
  <2>1. UNCHANGED <<svca, lost>>
    BY <1>1 DEF Urc, dte
  <2>2. PICK l : Event(l) /\ wire' = Append(wire, l)
    BY <1>1 DEF Urc
  <2>3. l \in Lines /\ IF l.k = "SVCA" THEN l.v = msvca' ELSE msvca' = msvca
    BY <2>2, EventInv
  <2> QED
    BY <2>1, <2>2, <2>3, TracksAppend
<1>2. CASE Emit
  <2>1. /\ out # <<>> /\ UNCHANGED <<svca, lost, msvca>>
        /\ wire' = Append(wire, IF Head(out).k = "SVCA" THEN Svca(msvca) ELSE Head(out))
    BY <1>2 DEF Emit, dte
  <2>2. PICK l : l = IF Head(out).k = "SVCA" THEN Svca(msvca) ELSE Head(out)
    OBVIOUS
  <2>3. Head(out) \in Lines
    BY <2>1, HeadTailProperties DEF IInv, TypeOK
  <2>4. Svca(msvca) \in Lines /\ Svca(msvca).k = "SVCA" /\ Svca(msvca).v = msvca
    BY <1>0, EventType
  <2>5. l \in Lines /\ (l.k = "SVCA" => l.v = msvca) /\ wire' = Append(wire, l)
    BY <2>1, <2>2, <2>3, <2>4
  <2> QED
    BY <2>1, <2>5, TracksAppend
<1>3. CASE DrainWire
  <2>1. \/ wire' = <<>> /\ lost' = (lost \/ HasEvent(wire)) /\ UNCHANGED <<svca, msvca>>
        \/ lost'
    BY <1>3 DEF DrainWire, CutEvent, Drained
  <2>2. ~HasEvent(wire) => NoSvcaOn(wire)
    BY DEF HasEvent, NoSvcaOn, IsEvent
  <2>3. NoSvcaOn(wire) => ~NewsIs(wire, msvca)
    BY DEF NoSvcaOn, NewsIs
  <2>4. NoSvcaOn(<<>>)
    BY DEF NoSvcaOn
  <2> QED
    BY <2>1, <2>2, <2>3, <2>4 DEF Tracks, Knows
<1>4. CASE WriteCmd
  <2>1. /\ UNCHANGED <<svca, msvca, lost>>
        /\ wire' = wire \/ wire' = Append(wire, Line("ECHO", 0, n))
    BY <1>4 DEF WriteCmd
  <2>2. CASE wire' = Append(wire, Line("ECHO", 0, n))
    <3>1. Line("ECHO", 0, n) \in Lines /\ Line("ECHO", 0, n).k # "SVCA"
      BY DEF Line, Lines, LineKinds, IInv, TypeOK
    <3> QED
      BY <2>1, <2>2, <3>1, TracksAppend
  <2> QED
    BY <2>1, <2>2, TracksSame
<1>5. CASE CheckEcho
  <2>1. UNCHANGED <<svca, msvca>> /\ ((Read /\ AsAnswer) \/ UNCHANGED <<wire, used, lost>>)
    BY <1>5 DEF CheckEcho, modem
  <2>2. CASE Read /\ AsAnswer
    BY <2>1, <2>2, TracksRead DEF AsAnswer, IsEvent
  <2> QED
    BY <2>1, <2>2, TracksSame
<1>6. CASE AnswerStep
  <2>1. Read /\ lost' = (lost \/ IsEvent(L)) /\ UNCHANGED <<svca, msvca>>
    BY <1>6, AnswerFrame DEF AsAnswer
  <2> QED
    BY <2>1, TracksRead DEF IsEvent
<1>7. CASE ReadBin
  <2>1. UNCHANGED <<svca, msvca>>
    BY <1>7 DEF ReadBin, modem
  <2>2. CASE Read /\ AsAnswer
    BY <2>1, <2>2, TracksRead DEF AsAnswer, IsEvent
  <2>3. ASSUME NEW i \in 1..Len(wire), wire' \in {RestOf(i), SubSeq(wire, i + 1, Len(wire))},
               lost' = (lost \/ HasEvent(SubSeq(wire, 1, i)))
        PROVE  Tracks'
    BY <2>1, <2>3, TracksBin
  <2> QED
    BY <1>7, <2>2, <2>3 DEF ReadBin, BinOverflow, RestOf
<1>8. CASE ReadEvent
  <2>1. /\ Read /\ UNCHANGED <<msvca, lost>>
        /\ (svca' = Told(L) \/ (~IsEvent(L) /\ svca' = svca))
    BY <1>8 DEF ReadEvent, modem
  <2>2. ~IsEvent(L) => L.k # "SVCA"
    BY DEF IsEvent
  <2> QED
    BY <2>1, <2>2, TracksRead
<1>9. CASE Call \/ Execute \/ DataTimeout
  BY <1>9, TracksSame DEF Call, Execute, DataTimeout, modem, dte
<1>10. CASE ReadTimeout \/ WriteData
  BY <1>10, TracksSame DEF ReadTimeout, WriteData, modem
<1>11. CASE UNCHANGED vars
  BY <1>11, TracksSame DEF vars, modem, dte
<1> QED
  BY <1>1, <1>2, <1>3, <1>4, <1>5, <1>6, <1>7, <1>8, <1>9, <1>10, <1>11
     DEF Next, Start, DteStep, ModemStep, AnswerStep

(* What the service thread believes of the modem's availability is true    *)
(* once it has read what there is, unless a drain or an answer took an     *)
(* event: no order of events, answers and timeouts does any other harm.    *)
THEOREM SvcaKept == Spec => []SvcaTracks
<1>1. Tracks => SvcaTracks
  BY DEF Tracks, Knows, NewsIs, NoSvcaOn, SvcaTracks
<1> QED
  BY <1>1, InitTracks, StepTracks, LinkInvariant, PTL DEF Spec
=============================================================================
