--------------------------- MODULE AtSetupProofs ---------------------------
(***************************************************************************)
(* The proofs about at_uart_setup: its types, that the result codes are of *)
(* the configured kind after a good setup, that flow control and DTR are   *)
(* set, and that a setup without a fault succeeds.                         *)
(***************************************************************************)
EXTENDS AtSetup, TLAPS, SequenceTheorems

(***************************************************************************)
(* Tokens in a row.                                                        *)
(***************************************************************************)
Holds(q, S) == \E i \in 1..Len(q) : q[i] \in S

LEMMA Behead ==
  ASSUME NEW w \in Seq(Tokens), w # <<>>
  PROVE  /\ Tail(w) \in Seq(Tokens) /\ Len(w) \in Nat \ {0} /\ Len(Tail(w)) = Len(w) - 1
         /\ Head(w) = w[1] /\ Head(w) \in Tokens
         /\ \A i \in 1..Len(Tail(w)) : i + 1 \in 1..Len(w) /\ Tail(w)[i] = w[i + 1]
OBVIOUS

LEMMA Appended ==
  ASSUME NEW w \in Seq(Tokens), NEW l \in Tokens
  PROVE  /\ Append(w, l) \in Seq(Tokens) /\ Len(w) \in Nat /\ Len(Append(w, l)) = Len(w) + 1
         /\ \A i \in 1..Len(w) : Append(w, l)[i] = w[i]
         /\ Append(w, l)[Len(w) + 1] = l
OBVIOUS

LEMMA Joined ==
  ASSUME NEW w \in Seq(Tokens), NEW o \in Seq(Tokens)
  PROVE  /\ w \o o \in Seq(Tokens) /\ Len(w) \in Nat /\ Len(o) \in Nat
         /\ Len(w \o o) = Len(w) + Len(o)
         /\ \A i \in 1..Len(w) : (w \o o)[i] = w[i]
         /\ \A i \in 1..Len(o) : (w \o o)[Len(w) + i] = o[i]
BY ConcatProperties, LenProperties

LEMMA JoinedTail ==
  ASSUME NEW w \in Seq(Tokens), w # <<>>, NEW o \in Seq(Tokens)
  PROVE  w \o o # <<>> /\ Head(w \o o) = Head(w) /\ Tail(w \o o) = Tail(w) \o o
OBVIOUS

LEMMA JoinedNext ==
  ASSUME NEW w \in Seq(Tokens), NEW o \in Seq(Tokens), o # <<>>
  PROVE  Append(w, Head(o)) \o Tail(o) = w \o o
OBVIOUS

LEMMA JoinedEmpty ==
  ASSUME NEW w \in Seq(Tokens)
  PROVE  w \o <<>> = w /\ <<>> \o w = w
BY ConcatEmptySeq

LEMMA HoldsTail ==
  ASSUME NEW w \in Seq(Tokens), w # <<>>, NEW S
  PROVE  Holds(w, S) <=> Head(w) \in S \/ Holds(Tail(w), S)
<1>1. /\ Len(w) \in Nat \ {0} /\ Len(Tail(w)) = Len(w) - 1 /\ Head(w) = w[1]
      /\ \A i \in 1..Len(Tail(w)) : i + 1 \in 1..Len(w) /\ Tail(w)[i] = w[i + 1]
  BY Behead
<1>2. 1 \in 1..Len(w)
  BY <1>1
<1>3. \A i \in 1..Len(w) : i = 1 \/ (i - 1 \in 1..Len(Tail(w)) /\ Tail(w)[i - 1] = w[i])
  BY <1>1
<1> QED
  BY <1>1, <1>2, <1>3 DEF Holds

LEMMA HoldsAppend ==
  ASSUME NEW w \in Seq(Tokens), NEW l \in Tokens, NEW S
  PROVE  Holds(Append(w, l), S) <=> Holds(w, S) \/ l \in S
<1> DEFINE q == Append(w, l)
<1>1. /\ Len(w) \in Nat /\ Len(q) = Len(w) + 1 /\ q[Len(w) + 1] = l
      /\ \A i \in 1..Len(w) : q[i] = w[i]
  BY Appended
<1> HIDE DEF q
<1>2. \A i \in 1..Len(q) : i \in 1..Len(w) \/ i = Len(w) + 1
  BY <1>1
<1>3. Len(w) + 1 \in 1..Len(q) /\ \A i \in 1..Len(w) : i \in 1..Len(q)
  BY <1>1
<1>4. Holds(q, S) <=> Holds(w, S) \/ l \in S
  BY <1>1, <1>2, <1>3 DEF Holds
<1> QED
  BY <1>4 DEF q

LEMMA HoldsJoined ==
  ASSUME NEW w \in Seq(Tokens), NEW o \in Seq(Tokens), NEW S
  PROVE  Holds(w \o o, S) <=> Holds(w, S) \/ Holds(o, S)
<1> DEFINE q == w \o o
<1>1. /\ Len(w) \in Nat /\ Len(o) \in Nat /\ Len(q) = Len(w) + Len(o)
      /\ \A i \in 1..Len(w) : q[i] = w[i]
      /\ \A i \in 1..Len(o) : q[Len(w) + i] = o[i]
  BY Joined
<1> HIDE DEF q
<1>2. \A i \in 1..Len(q) : i \in 1..Len(w) \/ (i - Len(w) \in 1..Len(o) /\ Len(w) + (i - Len(w)) = i)
  BY <1>1
<1>3. \A i \in 1..Len(q) : i \in 1..Len(w) \/ (i - Len(w) \in 1..Len(o) /\ q[i] = o[i - Len(w)])
  BY <1>1, <1>2
<1>4. (\A i \in 1..Len(w) : i \in 1..Len(q)) /\ (\A i \in 1..Len(o) : Len(w) + i \in 1..Len(q))
  BY <1>1
<1>5. Holds(q, S) <=> Holds(w, S) \/ Holds(o, S)
  BY <1>1, <1>3, <1>4 DEF Holds
<1> QED
  BY <1>5 DEF q

LEMMA HoldsNone ==
  ASSUME NEW T, NEW q \in Seq(T), NEW S, T \cap S = {}
  PROVE  ~Holds(q, S)
<1>1. \A i \in 1..Len(q) : q[i] \in T
  BY ElementOfSeq
<1> QED
  BY <1>1 DEF Holds

(***************************************************************************)
(* Types.                                                                  *)
(***************************************************************************)
LEMMA CommandsAre ==
  /\ Len(Commands) = 5
  /\ Commands[1] = "q" /\ Commands[2] = "e" /\ Commands[3] = "v" /\ Commands[4] = "&k"
  /\ Commands[5] = "&d"
  /\ \A i \in 1..5 : Commands[i] \in {"q", "e", "v", "&k", "&d"}
<1>1. /\ Len(Commands) = 5
      /\ Commands[1] = "q" /\ Commands[2] = "e" /\ Commands[3] = "v" /\ Commands[4] = "&k"
      /\ Commands[5] = "&d"
  BY DEF Commands
<1>2. \A i \in 1..5 : i = 1 \/ i = 2 \/ i = 3 \/ i = 4 \/ i = 5
  OBVIOUS
<1> QED
  BY <1>1, <1>2

LEMMA AnswerTypes ==
  /\ \A v \in BOOLEAN : Ok(v) \in Seq(Tokens) /\ Error(v) \in Seq(Tokens)
  /\ <<>> \in Seq(Tokens) /\ <<"cmd", "CR">> \in Seq(Tokens) /\ <<"LF">> \in Seq(Tokens)
  /\ <<"CR">> \in Seq(Tokens)
<1>1. /\ <<>> \in Seq(Tokens)
      /\ \A a \in Tokens : <<a>> \in Seq(Tokens)
      /\ \A a, b \in Tokens : <<a, b>> \in Seq(Tokens)
  OBVIOUS
<1>2. \A a, b, c, d, e \in Tokens : <<a, b, c, d, e>> \in Seq(Tokens)
  OBVIOUS
<1>3. \A a, b, c, d, e, f \in Tokens : <<a, b, c, d, e, f>> \in Seq(Tokens)
  OBVIOUS
<1>4. {"CR", "LF", "O", "K", "0", "4", "ERROR", "cmd"} \subseteq Tokens
  BY DEF Tokens
<1>5. Ok(TRUE) \in Seq(Tokens) /\ Ok(FALSE) \in Seq(Tokens)
  BY <1>1, <1>3, <1>4 DEF Ok
<1>6. Error(TRUE) \in Seq(Tokens) /\ Error(FALSE) \in Seq(Tokens)
  BY <1>1, <1>2, <1>4 DEF Error
<1> QED
  BY <1>1, <1>4, <1>5, <1>6

LEMMA EchoedType == Echoed \in Seq(Tokens)
BY AnswerTypes DEF Echoed

LEMMA EndType ==
  ASSUME TypeOK, pc # "done", NEW r \in {"OK", "ERR", "UNK", "TIMEOUT"}, End(r)
  PROVE  /\ step' \in 1..5 /\ pc' \in {"drain", "done"}
         /\ ret' \in {"none", "OK", "ERR", "UNK", "TIMEOUT"}
         /\ pc' = "done" <=> ret' # "none"
BY CommandsAre DEF TypeOK, End

LEMMA CodeKinds == \A s : StrCode(s) \in {"OK", "ERR", "UNK"}
BY DEF StrCode

(* What the modem sends for a command.                                     *)
LEMMA ExecuteSends ==
  ASSUME TypeOK, Execute
  PROVE  /\ inbox # <<>> /\ out = <<>> /\ inbox' = Tail(inbox)
         /\ UNCHANGED <<code, wire, inStep>>
         /\ Head(inbox) \in {"q", "e", "v", "&k", "&d"}
         /\ \/ /\ set' = After(Head(inbox)) /\ faults' = faults
               /\ out' = Echoed \o (IF set'.quiet THEN <<>> ELSE Ok(set'.verbose))
            \/ /\ set' = set /\ faults' = faults + 1 /\ faults < MaxFaults
               /\ \/ out' = Echoed
                  \/ out' = Echoed \o (IF set.quiet THEN <<>> ELSE Error(set.verbose))
<1>1. inbox # <<>> /\ inbox \in Seq({"q", "e", "v", "&k", "&d"})
  BY DEF TypeOK, Execute
<1>2. Head(inbox) \in {"q", "e", "v", "&k", "&d"}
  BY <1>1, HeadTailProperties
<1> QED
  BY <1>2 DEF Execute, Fault

LEMMA AfterType ==
  ASSUME TypeOK, NEW c \in {"q", "e", "v", "&k", "&d"}
  PROVE  /\ After(c) \in [quiet : BOOLEAN, echo : BOOLEAN, verbose : BOOLEAN,
                          flow : BOOLEAN, dtr : BOOLEAN, late : BOOLEAN]
         /\ After(c).quiet = IF c = "q" THEN FALSE ELSE set.quiet
         /\ After(c).echo = IF c = "e" THEN cfg.echo ELSE set.echo
         /\ After(c).verbose = IF c = "v" THEN cfg.verbose ELSE set.verbose
         /\ After(c).flow = IF c = "&k" THEN TRUE ELSE set.flow
         /\ After(c).dtr = IF c = "&d" THEN TRUE ELSE set.dtr
         /\ After(c).late = set.late
BY DEF TypeOK, After

LEMMA SentType ==
  ASSUME TypeOK, Execute
  PROVE  /\ set' \in [quiet : BOOLEAN, echo : BOOLEAN, verbose : BOOLEAN,
                      flow : BOOLEAN, dtr : BOOLEAN, late : BOOLEAN]
         /\ out' \in Seq(Tokens)
<1>1. set' \in [quiet : BOOLEAN, echo : BOOLEAN, verbose : BOOLEAN,
                flow : BOOLEAN, dtr : BOOLEAN, late : BOOLEAN]
  BY ExecuteSends, AfterType DEF TypeOK
<1>2. set.verbose \in BOOLEAN /\ set'.verbose \in BOOLEAN
  BY <1>1 DEF TypeOK
<1>3. \E a \in Seq(Tokens) : out' = Echoed \o a \/ out' = Echoed
  BY <1>2, ExecuteSends, AnswerTypes
<1>4. out' \in Seq(Tokens)
  BY <1>3, EchoedType, Joined
<1> QED
  BY <1>1, <1>4

LEMMA InitType == Init => TypeOK
<1>1. <<>> \in Seq({"q", "e", "v", "&k", "&d"}) /\ 0 \in 0..MaxFaults
  BY SetupAssumption
<1> SUFFICES ASSUME Init PROVE TypeOK
  OBVIOUS
<1>2. set \in [quiet : BOOLEAN, echo : BOOLEAN, verbose : BOOLEAN,
              flow : BOOLEAN, dtr : BOOLEAN, late : BOOLEAN]
  BY DEF Init
<1>3. inStep \in BOOLEAN /\ cfg \in [echo : BOOLEAN, verbose : BOOLEAN]
  BY DEF Init
<1> QED
  BY <1>1, <1>2, <1>3, CommandsAre, AnswerTypes DEF Init, TypeOK

LEMMA ReadType ==
  ASSUME TypeOK, Read
  PROVE  wire # <<>> /\ wire' = Tail(wire) /\ wire' \in Seq(Tokens) /\ C = Head(wire) /\ C \in Tokens
BY Behead DEF TypeOK, Read, C

LEMMA StepType == TypeOK /\ [Next]_vars => TypeOK'
<1> SUFFICES ASSUME TypeOK, [Next]_vars PROVE TypeOK'
  OBVIOUS
<1>0. Commands' = Commands /\ step \in 1..5 /\ Len(Commands) = 5
  BY CommandsAre DEF TypeOK, Commands
<1>1. CASE DrainWire
  BY <1>0, <1>1, AnswerTypes DEF DrainWire, TypeOK, modem
<1>2. CASE WriteCmd
  <2>1. UNCHANGED <<cfg, wire, out, set, inStep>> /\ pc = "write"
    BY <1>2 DEF WriteCmd
  <2>2. CASE /\ inbox' = Append(inbox, Commands[step])
             /\ pc' = IF SkipsEcho THEN "echo" ELSE "resp"
             /\ at_buf' = <<>>
             /\ UNCHANGED <<step, ret, faults>>
    <3>1. Commands[step] \in {"q", "e", "v", "&k", "&d"}
      BY <1>0, CommandsAre
    <3>2. inbox' \in Seq({"q", "e", "v", "&k", "&d"})
      BY <2>2, <3>1, AppendProperties DEF TypeOK
    <3> QED
      BY <1>0, <2>1, <2>2, <3>2, AnswerTypes DEF TypeOK
  <2>3. CASE Fault /\ End("TIMEOUT") /\ UNCHANGED <<inbox, at_buf>>
    <3>1. faults' \in 0..MaxFaults
      BY <2>3, SetupAssumption DEF Fault, TypeOK
    <3> QED
      BY <1>0, <2>1, <2>3, <3>1, EndType DEF TypeOK
  <2> QED
    BY <1>2, <2>2, <2>3 DEF WriteCmd
<1>3. CASE ReadEcho
  BY <1>0, <1>3, ReadType DEF ReadEcho, TypeOK, modem
<1>4. CASE ReadResp
  <2>1. /\ UNCHANGED <<cfg, inbox, out, set, faults, inStep>> /\ pc = "resp"
        /\ wire' \in Seq(Tokens) /\ C \in Tokens
    BY <1>4, ReadType DEF ReadResp, modem
  <2>2. CASE End(StrCode(at_buf)) /\ UNCHANGED at_buf
    <3>1. /\ step' \in 1..5 /\ pc' \in {"drain", "done"}
          /\ ret' \in {"none", "OK", "ERR", "UNK", "TIMEOUT"}
          /\ pc' = "done" <=> ret' # "none"
      BY <2>1, <2>2, EndType, CodeKinds
    <3> QED
      BY <1>0, <2>1, <2>2, <3>1 DEF TypeOK
  <2>3. CASE /\ at_buf' = IF C \in {"CR", "LF"} THEN at_buf ELSE Append(at_buf, C)
             /\ UNCHANGED <<pc, step, ret>>
    <3>1. at_buf' \in Seq(Tokens)
      BY <2>1, <2>3, Appended DEF TypeOK
    <3> QED
      BY <1>0, <2>1, <2>3, <3>1 DEF TypeOK
  <2> QED
    BY <1>4, <2>2, <2>3 DEF ReadResp
<1>5. CASE ReadTimeout
  <2>1. pc # "done" /\ End("TIMEOUT") /\ UNCHANGED <<cfg, at_buf, wire, modem, faults, inStep>>
    BY <1>5 DEF ReadTimeout
  <2> QED
    BY <1>0, <2>1, EndType DEF TypeOK, modem
<1>6. CASE Execute
  <2>1. inbox' \in Seq({"q", "e", "v", "&k", "&d"})
    <3>1. inbox # <<>> /\ inbox' = Tail(inbox) /\ inbox \in Seq({"q", "e", "v", "&k", "&d"})
      BY <1>6, ExecuteSends DEF TypeOK
    <3> QED
      BY <3>1, HeadTailProperties
  <2>2. faults' \in 0..MaxFaults
    BY <1>6, ExecuteSends, SetupAssumption DEF TypeOK
  <2> QED
    BY <1>0, <1>6, <2>1, <2>2, ExecuteSends, SentType DEF TypeOK, code
<1>7. CASE Emit
  BY <1>0, <1>7, Behead, Appended DEF Emit, TypeOK, code
<1>8. CASE UNCHANGED vars
  BY <1>0, <1>8 DEF vars, code, modem, TypeOK
<1> QED
  BY <1>1, <1>2, <1>3, <1>4, <1>5, <1>6, <1>7, <1>8 DEF Next

(* Every variable of the setup has its type.                               *)
THEOREM TypeCorrect == Spec => []TypeOK
BY InitType, StepType, PTL DEF Spec

(***************************************************************************)
(* The kind of the result codes.                                           *)
(***************************************************************************)
(* What only a good result code of the configured kind holds.              *)
Marks == IF cfg.verbose THEN {"O", "K"} ELSE {"0"}

Speaks == ~set.quiet /\ set.verbose = cfg.verbose

(* A mark anywhere shows that the modem speaks as it is configured.        *)
Marked ==
  /\ Holds(at_buf, Marks) \/ Holds(wire, Marks) \/ Holds(out, Marks) => Speaks
  /\ ret = "OK" => Speaks

LEMMA FewTokens ==
  /\ \A T : \A a \in T : <<a>> \in Seq(T)
  /\ \A T : \A a, b \in T : <<a, b>> \in Seq(T)
  /\ \A T : \A a, b, c, d, e \in T : <<a, b, c, d, e>> \in Seq(T)
  /\ \A T : \A a, b, c, d, e, f \in T : <<a, b, c, d, e, f>> \in Seq(T)
OBVIOUS

LEMMA Unmarked ==
  ASSUME TypeOK
  PROVE  /\ ~Holds(<<>>, Marks) /\ ~Holds(Echoed, Marks)
         /\ \A v \in BOOLEAN : ~Holds(Error(v), Marks) /\ (Holds(Ok(v), Marks) => v = cfg.verbose)
<1> DEFINE Blank == {"CR", "LF", "cmd", "ERROR", "4"}
<1>1. Blank \cap Marks = {} /\ cfg.verbose \in BOOLEAN
  BY DEF Marks, TypeOK
<1>2. <<>> \in Seq(Blank) /\ Echoed \in Seq(Blank)
  <2>1. <<>> \in Seq(Blank) /\ "cmd" \in Blank /\ "CR" \in Blank
    OBVIOUS
  <2> HIDE DEF Blank
  <2>2. <<"cmd", "CR">> \in Seq(Blank)
    BY <2>1, FewTokens
  <2> QED
    BY <2>1, <2>2 DEF Echoed
<1>3. ASSUME NEW v \in BOOLEAN PROVE Error(v) \in Seq(Blank)
  BY FewTokens DEF Error
<1>4. ASSUME NEW v \in BOOLEAN, v # cfg.verbose PROVE ~Holds(Ok(v), Marks)
  <2>1. CASE v = TRUE
    <3>1. {"CR", "LF", "O", "K"} \cap Marks = {}
      BY <1>1, <1>4, <2>1 DEF Marks
    <3>2. Ok(v) \in Seq({"CR", "LF", "O", "K"})
      BY <2>1, FewTokens DEF Ok
    <3> QED
      BY <3>1, <3>2, HoldsNone
  <2>2. CASE v = FALSE
    <3>1. {"CR", "0"} \cap Marks = {}
      BY <1>1, <1>4, <2>2 DEF Marks
    <3>2. Ok(v) \in Seq({"CR", "0"})
      BY <2>2, FewTokens DEF Ok
    <3> QED
      BY <3>1, <3>2, HoldsNone
  <2> QED
    BY <2>1, <2>2
<1> QED
  BY <1>1, <1>2, <1>3, <1>4, HoldsNone

LEMMA InitMarked == Init => Marked
BY DEF Init, Marked, Holds

(* A command never makes the modem speak otherwise than configured.        *)
LEMMA StillSpeaks ==
  ASSUME TypeOK, Execute
  PROVE  Speaks => Speaks'
<1>1. cfg' = cfg
  BY ExecuteSends DEF code
<1> QED
  BY <1>1, ExecuteSends, AfterType DEF Speaks

(* What is read as OK holds a mark.                                        *)
LEMMA OkMarked ==
  ASSUME TypeOK, StrCode(at_buf) = "OK"
  PROVE  Holds(at_buf, Marks)
<1>1. cfg.verbose \in BOOLEAN
  BY DEF TypeOK
<1>2. at_buf = IF cfg.verbose THEN <<"O", "K">> ELSE <<"0">>
  BY DEF StrCode
<1>3. at_buf # <<>> /\ Head(at_buf) \in Marks
  BY <1>1, <1>2 DEF Marks
<1> QED
  BY <1>3, HoldsTail DEF TypeOK

LEMMA ReadMarks ==
  ASSUME TypeOK, Read, NEW S
  PROVE  /\ Holds(wire, S) <=> C \in S \/ Holds(wire', S)
         /\ \A b \in Seq(Tokens) : Holds(Append(b, C), S) <=> Holds(b, S) \/ C \in S
<1>1. Holds(wire, S) <=> C \in S \/ Holds(wire', S)
  <2>1. wire # <<>> /\ wire' = Tail(wire) /\ C = Head(wire)
    BY ReadType
  <2>2. wire \in Seq(Tokens)
    BY DEF TypeOK
  <2> QED
    BY <2>1, <2>2, HoldsTail
<1>2. ASSUME NEW b \in Seq(Tokens)
      PROVE  Holds(Append(b, C), S) <=> Holds(b, S) \/ C \in S
  BY <1>2, ReadType, HoldsAppend
<1> QED
  BY <1>1, <1>2

LEMMA StepMarked == TypeOK /\ Marked /\ [Next]_vars => Marked'
<1> SUFFICES ASSUME TypeOK, Marked, [Next]_vars PROVE Marked'
  OBVIOUS
<1>1. cfg' = cfg
  BY ExecuteSends DEF Next, vars, code, modem, DrainWire, WriteCmd, ReadEcho, ReadResp, ReadTimeout, Emit
<1>2. Marks' = Marks
  BY <1>1 DEF Marks
<1>3. CASE Execute
  <2>1. UNCHANGED <<at_buf, wire, ret>> /\ out = <<>>
    BY <1>3, ExecuteSends DEF code
  <2>2. Holds(out', Marks) => Speaks'
    <3>1. set'.verbose \in BOOLEAN /\ set.verbose \in BOOLEAN
      BY <1>3, SentType DEF TypeOK
    <3>2. \/ ~set'.quiet /\ out' = Echoed \o Ok(set'.verbose)
          \/ out' \in {Echoed, Echoed \o <<>>, Echoed \o Error(set.verbose)}
      BY <1>3, ExecuteSends
    <3>3. CASE ~set'.quiet /\ out' = Echoed \o Ok(set'.verbose)
      <4>1. Holds(out', Marks) => Holds(Ok(set'.verbose), Marks)
        BY <3>1, <3>3, Unmarked, HoldsJoined, EchoedType, AnswerTypes
      <4> QED
        BY <1>1, <3>1, <3>3, <4>1, Unmarked DEF Speaks
    <3>4. CASE out' \in {Echoed, Echoed \o <<>>, Echoed \o Error(set.verbose)}
      <4>1. /\ ~Holds(Echoed, Marks) /\ ~Holds(<<>>, Marks) /\ ~Holds(Error(set.verbose), Marks)
            /\ Echoed \in Seq(Tokens) /\ <<>> \in Seq(Tokens) /\ Error(set.verbose) \in Seq(Tokens)
        BY <3>1, Unmarked, EchoedType, AnswerTypes
      <4>2. ~Holds(Echoed \o <<>>, Marks) /\ ~Holds(Echoed \o Error(set.verbose), Marks)
        BY <4>1, HoldsJoined
      <4> QED
        BY <3>4, <4>1, <4>2
    <3> QED
      BY <3>2, <3>3, <3>4
  <2> QED
    BY <1>2, <1>3, <2>1, <2>2, StillSpeaks DEF Marked
<1>4. CASE Emit
  <2>1. /\ out # <<>> /\ out' = Tail(out) /\ wire' = Append(wire, Head(out))
        /\ UNCHANGED <<at_buf, ret, set>>
    BY <1>4 DEF Emit, code
  <2>2. Holds(out, Marks) <=> Head(out) \in Marks \/ Holds(out', Marks)
    BY <2>1, HoldsTail DEF TypeOK
  <2>3. Holds(wire', Marks) <=> Holds(wire, Marks) \/ Head(out) \in Marks
    BY <2>1, HoldsAppend, Behead DEF TypeOK
  <2> QED
    BY <1>1, <1>2, <2>1, <2>2, <2>3 DEF Marked, Speaks
<1>5. CASE DrainWire
  <2>1. UNCHANGED <<at_buf, ret, out, set>> /\ wire' = <<>>
    BY <1>5 DEF DrainWire, modem
  <2> QED
    BY <1>1, <1>2, <2>1, Unmarked DEF Marked, Speaks
<1>6. CASE WriteCmd
  <2>1. UNCHANGED <<wire, out, set>> /\ at_buf' \in {at_buf, <<>>} /\ ret' \in {ret, "TIMEOUT"}
    BY <1>6 DEF WriteCmd, End
  <2> QED
    BY <1>1, <1>2, <2>1, Unmarked DEF Marked, Speaks
<1>7. CASE ReadEcho
  <2>1. Read /\ UNCHANGED <<at_buf, ret, out, set>>
    BY <1>7 DEF ReadEcho, modem
  <2> QED
    BY <1>1, <1>2, <2>1, ReadMarks DEF Marked, Speaks
<1>8. CASE ReadResp
  <2>1. Read /\ UNCHANGED <<out, set>>
    BY <1>8 DEF ReadResp, modem
  <2>2. Holds(at_buf', Marks) \/ Holds(wire', Marks) \/ Holds(out', Marks) => Speaks
    <3>1. at_buf' = at_buf \/ at_buf' = Append(at_buf, C)
      BY <1>8 DEF ReadResp
    <3> QED
      BY <2>1, <3>1, ReadMarks DEF Marked, TypeOK
  <2>3. ret' = "OK" => Speaks
    <3>1. ret' = ret \/ ret' = StrCode(at_buf)
      BY <1>8 DEF ReadResp, End
    <3> QED
      BY <3>1, OkMarked DEF Marked
  <2> QED
    BY <1>1, <1>2, <2>1, <2>2, <2>3 DEF Marked, Speaks
<1>9. CASE ReadTimeout
  <2>1. UNCHANGED <<at_buf, wire, out, set>> /\ ret' \in {ret, "TIMEOUT"}
    BY <1>9 DEF ReadTimeout, End, modem
  <2> QED
    BY <1>1, <1>2, <2>1 DEF Marked, Speaks
<1>10. CASE UNCHANGED vars
  BY <1>1, <1>2, <1>10 DEF vars, code, modem, Marked, Speaks
<1> QED
  BY <1>3, <1>4, <1>5, <1>6, <1>7, <1>8, <1>9, <1>10 DEF Next

(* A setup that returns OK leaves a modem that is not quiet and whose      *)
(* result codes are of the configured kind: an answer in the old settings  *)
(* or of an earlier command never shows it by mistake.                     *)
THEOREM VerboseIsAgreed == Spec => []VerboseAgreed
<1>1. Spec => []Marked
  BY InitMarked, StepMarked, TypeCorrect, PTL DEF Spec
<1>2. Marked => VerboseAgreed
  BY DEF Marked, Speaks, VerboseAgreed
<1> QED
  BY <1>1, <1>2, PTL

(***************************************************************************)
(* Answers and commands in step.                                           *)
(***************************************************************************)
(* What is still to be read of the answer to the command.                  *)
Pending == wire \o out

Answers == {<<>>, Ok(TRUE), Ok(FALSE), Error(TRUE), Error(FALSE)}

(* The last byte of the answer before, which may be left on the line.      *)
Lead == {<<>>, <<"LF">>}

(* Answer a was not begun, its echo was not read, its beginning was not.   *)
Fresh(p, a) == p \in {a, <<"LF">> \o a}
Unread(p, a) == p \in {<<"CR">> \o a, <<"cmd", "CR">> \o a, <<"LF">> \o (<<"cmd", "CR">> \o a)}
Opening(p) ==
  \/ \E a \in Answers : Fresh(p, a)
  \/ p \in {<<"LF", "O", "K", "CR", "LF">>, <<"O", "K", "CR", "LF">>,
            <<"LF", "ERROR", "CR", "LF">>, <<"ERROR", "CR", "LF">>}

(* b was read of the line, p is to be read: only a '\n' follows its end.   *)
Partial(b, p) ==
  \/ b = <<>> /\ Opening(p)
  \/ b = <<"O">> /\ p = <<"K", "CR", "LF">>
  \/ b \in {<<"O", "K">>, <<"ERROR">>} /\ p = <<"CR", "LF">>
  \/ b \in {<<"O", "K">>, <<"ERROR">>} /\ p = <<"LF">> /\ cfg.verbose
  \/ b \in {<<"0">>, <<"4">>} /\ p = <<"CR">>
  \/ b \in {<<"0">>, <<"4">>} /\ p = <<>> /\ cfg.verbose

Awaited == inbox = <<Commands[step]>> /\ at_buf = <<>> /\ Pending \in Lead

(* The modem has done all it was told before the next command is written,  *)
(* and what is read is the answer to the command.                          *)
Turns ==
  InStep =>
    /\ set.echo => cfg.echo
    /\ pc \in {"drain", "write"} => inbox = <<>> /\ Pending \in Lead
    /\ pc = "echo" =>
         /\ cfg.echo
         /\ \/ Awaited
            \/ /\ inbox = <<>> /\ at_buf = <<>>
               /\ \E a \in Answers : Unread(Pending, a) \/ Fresh(Pending, a)
    /\ pc = "resp" =>
         \/ Awaited /\ ~cfg.echo
         \/ inbox = <<>> /\ Partial(at_buf, Pending)

LEMMA Unfold ==
  /\ \A a : <<a>> # <<>> /\ Head(<<a>>) = a /\ Tail(<<a>>) = <<>>
  /\ \A a, b : <<a, b>> # <<>> /\ Head(<<a, b>>) = a /\ Tail(<<a, b>>) = <<b>>
  /\ \A a, b, c : <<a, b, c>> # <<>> /\ Head(<<a, b, c>>) = a /\ Tail(<<a, b, c>>) = <<b, c>>
  /\ \A a, b, c, d : /\ <<a, b, c, d>> # <<>> /\ Head(<<a, b, c, d>>) = a
                     /\ Tail(<<a, b, c, d>>) = <<b, c, d>>
  /\ \A a, b, c, d, e : /\ <<a, b, c, d, e>> # <<>> /\ Head(<<a, b, c, d, e>>) = a
                        /\ Tail(<<a, b, c, d, e>>) = <<b, c, d, e>>
  /\ \A a, b, c, d, e, f : /\ <<a, b, c, d, e, f>> # <<>> /\ Head(<<a, b, c, d, e, f>>) = a
                           /\ Tail(<<a, b, c, d, e, f>>) = <<b, c, d, e, f>>
OBVIOUS

LEMMA Longer ==
  \A a, b : Append(<<>>, a) = <<a>> /\ Append(<<a>>, b) = <<a, b>>
<1> SUFFICES ASSUME NEW a, NEW b
             PROVE  Append(<<>>, a) = <<a>> /\ Append(<<a>>, b) = <<a, b>>
  OBVIOUS
<1>1. <<>> \in Seq({a, b}) /\ <<a>> \in Seq({a, b})
  OBVIOUS
<1>2. Append(<<>>, a) = <<a>>
  BY <1>1
<1>3. Append(<<a>>, b) = <<a, b>>
  <2> DEFINE q == Append(<<a>>, b)
  <2> DEFINE r == <<a, b>>
  <2>1. q \in Seq({a, b}) /\ Len(q) = 2 /\ q[1] = a /\ q[2] = b
    BY <1>1
  <2>2. r \in Seq({a, b}) /\ Len(r) = 2 /\ r[1] = a /\ r[2] = b
    OBVIOUS
  <2> HIDE DEF q, r
  <2>3. \A i \in 1..2 : i = 1 \/ i = 2
    OBVIOUS
  <2>4. q = r
    BY <2>1, <2>2, <2>3, SeqEqual
  <2> QED
    BY <2>4 DEF q, r
<1> QED
  BY <1>2, <1>3

LEMMA AnswersType == \A a \in Answers : a \in Seq(Tokens)
BY AnswerTypes DEF Answers

LEMMA SomeAnswers == <<>> \in Answers /\ \A v \in BOOLEAN : Ok(v) \in Answers /\ Error(v) \in Answers
<1>1. \A v \in BOOLEAN : v = TRUE \/ v = FALSE
  OBVIOUS
<1> QED
  BY <1>1 DEF Answers

(* A token in front.                                                       *)
LEMMA Front ==
  ASSUME NEW a \in Seq(Tokens)
  PROVE  /\ \A x \in Tokens : /\ <<x>> \o a # <<>> /\ Head(<<x>> \o a) = x
                              /\ Tail(<<x>> \o a) = a
         /\ /\ <<"cmd", "CR">> \o a # <<>> /\ Head(<<"cmd", "CR">> \o a) = "cmd"
            /\ Tail(<<"cmd", "CR">> \o a) = <<"CR">> \o a
            /\ <<"cmd", "CR">> \o a \in Seq(Tokens)
<1>1. ASSUME NEW x \in Tokens
      PROVE  /\ <<x>> \o a # <<>> /\ Head(<<x>> \o a) = x
             /\ Tail(<<x>> \o a) = a
  <2>1. <<x>> \in Seq(Tokens) /\ <<x>> # <<>> /\ Head(<<x>>) = x /\ Tail(<<x>>) = <<>>
    BY Unfold
  <2>2. /\ <<x>> \o a # <<>> /\ Head(<<x>> \o a) = x
        /\ Tail(<<x>> \o a) = <<>> \o a
    BY <2>1, JoinedTail
  <2> QED
    BY <2>2, JoinedEmpty
<1>2. /\ <<"cmd", "CR">> \in Seq(Tokens) /\ <<"cmd", "CR">> # <<>>
      /\ Head(<<"cmd", "CR">>) = "cmd" /\ Tail(<<"cmd", "CR">>) = <<"CR">>
  BY Unfold, AnswerTypes
<1> QED
  BY <1>1, <1>2, JoinedTail, Joined

LEMMA AnswerFront ==
  /\ Head(Ok(TRUE)) = "CR" /\ Tail(Ok(TRUE)) = <<"LF", "O", "K", "CR", "LF">>
  /\ Head(Error(TRUE)) = "CR" /\ Tail(Error(TRUE)) = <<"LF", "ERROR", "CR", "LF">>
  /\ Head(Ok(FALSE)) = "0" /\ Tail(Ok(FALSE)) = <<"CR">>
  /\ Head(Error(FALSE)) = "4" /\ Tail(Error(FALSE)) = <<"CR">>
  /\ Ok(TRUE) # <<>> /\ Ok(FALSE) # <<>> /\ Error(TRUE) # <<>> /\ Error(FALSE) # <<>>
BY Unfold DEF Ok, Error

LEMMA FreshRead ==
  ASSUME NEW a \in Answers, NEW p, p # <<>>, Fresh(p, a)
  PROVE  \/ Head(p) = "LF" /\ Tail(p) = a
         \/ Head(p) = "CR" /\ p = a
              /\ Tail(p) \in {<<"LF", "O", "K", "CR", "LF">>, <<"LF", "ERROR", "CR", "LF">>}
         \/ Head(p) \in {"0", "4"} /\ p = a /\ Tail(p) = <<"CR">>
<1>1. CASE p = <<"LF">> \o a
  <2>1. a \in Seq(Tokens) /\ "LF" \in Tokens
    BY AnswersType DEF Tokens
  <2> QED
    BY <1>1, <2>1, Front
<1>2. CASE p = a
  BY <1>2, AnswerFront DEF Answers
<1> QED
  BY <1>1, <1>2 DEF Fresh

LEMMA UnreadRead ==
  ASSUME NEW a \in Answers, NEW p, Unread(p, a)
  PROVE  /\ p # <<>>
         /\ Head(p) = "CR" => Tail(p) = a
         /\ Head(p) # "CR" => Unread(Tail(p), a)
<1>1. a \in Seq(Tokens) /\ "LF" \in Tokens /\ "CR" \in Tokens /\ <<"cmd", "CR">> \o a \in Seq(Tokens)
  BY AnswersType, Front DEF Tokens
<1>2. CASE p = <<"CR">> \o a
  BY <1>1, <1>2, Front
<1>3. CASE p = <<"cmd", "CR">> \o a
  BY <1>1, <1>3, Front DEF Unread
<1>4. CASE p = <<"LF">> \o (<<"cmd", "CR">> \o a)
  BY <1>1, <1>4, Front DEF Unread
<1> QED
  BY <1>2, <1>3, <1>4 DEF Unread

LEMMA OpeningRead ==
  ASSUME NEW p, Opening(p), p # <<>>
  PROVE  \/ Head(p) \in {"CR", "LF"} /\ Opening(Tail(p))
         \/ Head(p) = "O" /\ Tail(p) = <<"K", "CR", "LF">>
         \/ Head(p) = "ERROR" /\ Tail(p) = <<"CR", "LF">>
         \/ Head(p) \in {"0", "4"} /\ Tail(p) = <<"CR">>
<1>1. CASE \E a \in Answers : Fresh(p, a)
  <2>1. PICK a \in Answers : Fresh(p, a)
    BY <1>1
  <2> QED
    BY <2>1, FreshRead DEF Opening, Fresh
<1>2. CASE p \in {<<"LF", "O", "K", "CR", "LF">>, <<"O", "K", "CR", "LF">>,
                  <<"LF", "ERROR", "CR", "LF">>, <<"ERROR", "CR", "LF">>}
  <2>1. CASE p = <<"LF", "O", "K", "CR", "LF">>
    BY <2>1, Unfold DEF Opening
  <2>2. CASE p = <<"O", "K", "CR", "LF">>
    BY <2>2, Unfold
  <2>3. CASE p = <<"LF", "ERROR", "CR", "LF">>
    BY <2>3, Unfold DEF Opening
  <2>4. CASE p = <<"ERROR", "CR", "LF">>
    BY <2>4, Unfold
  <2> QED
    BY <1>2, <2>1, <2>2, <2>3, <2>4
<1> QED
  BY <1>1, <1>2 DEF Opening

LEMMA PartialRead ==
  ASSUME TypeOK, NEW b, NEW p, Partial(b, p), p # <<>>
  PROVE  /\ Head(p) = Eol /\ b # <<>> => Tail(p) \in Lead
         /\ ~(Head(p) = Eol /\ b # <<>>) =>
              Partial(IF Head(p) \in {"CR", "LF"} THEN b ELSE Append(b, Head(p)), Tail(p))
<1>0. Eol = IF cfg.verbose THEN "LF" ELSE "CR"
  BY DEF Eol
<1>1. CASE b = <<>>
  <2>1. Opening(p)
    BY <1>1, Unfold DEF Partial
  <2>2. CASE Head(p) \in {"CR", "LF"} /\ Opening(Tail(p))
    BY <1>1, <2>2 DEF Partial
  <2>3. CASE Head(p) = "O" /\ Tail(p) = <<"K", "CR", "LF">>
    BY <1>1, <2>3, Longer DEF Partial
  <2>4. CASE Head(p) = "ERROR" /\ Tail(p) = <<"CR", "LF">>
    BY <1>1, <2>4, Longer DEF Partial
  <2>5. CASE Head(p) \in {"0", "4"} /\ Tail(p) = <<"CR">>
    BY <1>1, <2>5, Longer DEF Partial
  <2> QED
    BY <2>1, <2>2, <2>3, <2>4, <2>5, OpeningRead
<1>2. CASE b = <<"O">> /\ p = <<"K", "CR", "LF">>
  BY <1>0, <1>2, Unfold, Longer DEF Partial
<1>3. CASE b \in {<<"O", "K">>, <<"ERROR">>} /\ p = <<"CR", "LF">>
  BY <1>0, <1>3, Unfold DEF Partial, Lead
<1>4. CASE b \in {<<"O", "K">>, <<"ERROR">>} /\ p = <<"LF">> /\ cfg.verbose
  BY <1>0, <1>4, Unfold DEF Lead
<1>5. CASE b \in {<<"0">>, <<"4">>} /\ p = <<"CR">>
  BY <1>0, <1>5, Unfold DEF Partial, Lead
<1> QED
  BY <1>1, <1>2, <1>3, <1>4, <1>5 DEF Partial

LEMMA InitTurns == Init => Turns
<1> SUFFICES ASSUME Init PROVE Turns
  OBVIOUS
<1>1. Pending = <<>>
  BY JoinedEmpty, AnswerTypes DEF Init, Pending
<1>2. set.echo \in BOOLEAN /\ cfg.echo \in BOOLEAN /\ inStep = (cfg.echo \/ ~set.echo)
  BY DEF Init
<1> QED
  BY <1>1, <1>2 DEF Init, Turns, InStep, Lead

LEMMA EndStages == \A r : End(r) => pc' \in {"drain", "done"}
BY DEF End

(* The settings of the line do not change.                                 *)
LEMMA SameInStep ==
  ASSUME TypeOK, [Next]_vars
  PROVE  cfg' = cfg /\ set'.late = set.late /\ inStep' = inStep /\ (InStep' <=> InStep)
<1>1. cfg' = cfg /\ inStep' = inStep /\ set'.late = set.late
  <2>1. CASE Execute
    BY <2>1, ExecuteSends, AfterType DEF code
  <2>2. CASE ~Execute
    BY <2>2 DEF Next, vars, code, modem, DrainWire, WriteCmd, ReadEcho, ReadResp, ReadTimeout, Emit
  <2> QED
    BY <2>1, <2>2
<1> QED
  BY <1>1 DEF InStep

LEMMA LeadRest ==
  ASSUME NEW w \in Seq(Tokens), NEW o \in Seq(Tokens), w \o o \in Lead
  PROVE  o \in Lead
<1>1. CASE w = <<>>
  BY <1>1, JoinedEmpty
<1>2. CASE w # <<>>
  <2>1. w \o o # <<>> /\ Tail(w \o o) = Tail(w) \o o /\ Tail(w) \in Seq(Tokens)
    BY <1>2, JoinedTail, Behead
  <2>2. Tail(w) \o o = <<>>
    BY <2>1, Unfold DEF Lead
  <2>3. Len(Tail(w)) \in Nat /\ Len(o) \in Nat /\ Len(<<>>) = Len(Tail(w)) + Len(o)
    BY <2>1, <2>2, Joined
  <2>4. Len(o) = 0
    BY <2>3
  <2> QED
    BY <2>4, EmptySeq DEF Lead
<1> QED
  BY <1>1, <1>2

LEMMA PendingRead ==
  ASSUME TypeOK, Read, out' = out
  PROVE  Pending # <<>> /\ C = Head(Pending) /\ Pending' = Tail(Pending)
<1>1. wire \in Seq(Tokens) /\ out \in Seq(Tokens) /\ wire # <<>> /\ wire' = Tail(wire)
  BY DEF TypeOK, Read
<1> QED
  BY <1>1, JoinedTail DEF Pending, C

LEMMA PendingEmit ==
  ASSUME TypeOK, Emit
  PROVE  Pending' = Pending
<1>1. /\ wire \in Seq(Tokens) /\ out \in Seq(Tokens) /\ out # <<>>
      /\ wire' = Append(wire, Head(out)) /\ out' = Tail(out)
  BY DEF TypeOK, Emit
<1> QED
  BY <1>1, JoinedNext DEF Pending

LEMMA PendingTimeout ==
  ASSUME TypeOK, InStep, ReadTimeout
  PROVE  wire = <<>> /\ out = <<>> /\ inbox = <<>> /\ Pending = <<>>
<1>1. wire = <<>> /\ out = <<>> /\ inbox = <<>>
  BY DEF ReadTimeout, InStep
<1> QED
  BY <1>1, JoinedEmpty, AnswerTypes DEF Pending

(* The answer to the command that is executed is what there is to be read. *)
LEMMA ExecutePending ==
  ASSUME TypeOK, Execute, Pending \in Lead
  PROVE  \E a \in Answers :
           /\ IF set.echo THEN Unread(Pending', a) ELSE Fresh(Pending', a)
           /\ \/ /\ set' = After(Head(inbox)) /\ faults' = faults
                 /\ a = IF set'.quiet THEN <<>> ELSE Ok(set'.verbose)
              \/ /\ set' = set /\ faults' = faults + 1
                 /\ a \in {<<>>, Error(set.verbose)}
<1>1. /\ out = <<>> /\ wire' = wire /\ wire \in Seq(Tokens)
      /\ set.verbose \in BOOLEAN /\ set'.verbose \in BOOLEAN
      /\ set.quiet \in BOOLEAN /\ set'.quiet \in BOOLEAN /\ set.echo \in BOOLEAN
  BY ExecuteSends, SentType DEF TypeOK
<1>2. wire \in Lead
  BY <1>1, JoinedEmpty DEF Pending
<1>3. ASSUME NEW a \in Answers, out' = Echoed \o a
      PROVE  IF set.echo THEN Unread(Pending', a) ELSE Fresh(Pending', a)
  <2>0. a \in Seq(Tokens) /\ <<"cmd", "CR">> \o a \in Seq(Tokens)
    BY AnswersType, Front
  <2>1. CASE set.echo
    <3>1. out' = <<"cmd", "CR">> \o a
      BY <1>3, <2>1 DEF Echoed
    <3>2. Pending' = wire \o (<<"cmd", "CR">> \o a)
      BY <1>1, <3>1 DEF Pending
    <3> QED
      BY <1>2, <2>0, <2>1, <3>2, JoinedEmpty DEF Lead, Unread
  <2>2. CASE ~set.echo
    <3>1. out' = a
      BY <1>3, <2>0, <2>2, JoinedEmpty DEF Echoed
    <3>2. Pending' = wire \o a
      BY <1>1, <3>1 DEF Pending
    <3> QED
      BY <1>2, <2>0, <2>2, <3>2, JoinedEmpty DEF Lead, Fresh
  <2> QED
    BY <1>1, <2>1, <2>2
<1>4. Echoed = Echoed \o <<>>
  BY EchoedType, JoinedEmpty
<1>5. CASE /\ set' = After(Head(inbox)) /\ faults' = faults
           /\ out' = Echoed \o (IF set'.quiet THEN <<>> ELSE Ok(set'.verbose))
  <2> DEFINE a == IF set'.quiet THEN <<>> ELSE Ok(set'.verbose)
  <2>1. a \in Answers
    BY <1>1, SomeAnswers
  <2> QED
    BY <1>3, <1>5, <2>1
<1>6. CASE /\ set' = set /\ faults' = faults + 1
           /\ \/ out' = Echoed
              \/ out' = Echoed \o (IF set.quiet THEN <<>> ELSE Error(set.verbose))
  <2>1. \E a \in {<<>>, Error(set.verbose)} : out' = Echoed \o a
    BY <1>1, <1>4, <1>6
  <2>2. {<<>>, Error(set.verbose)} \subseteq Answers
    BY <1>1, SomeAnswers
  <2> QED
    BY <1>3, <1>6, <2>1, <2>2
<1> QED
  BY <1>5, <1>6, ExecuteSends

LEMMA EchoTurns == TypeOK /\ Turns /\ ReadEcho => Turns'
<1> SUFFICES ASSUME TypeOK, Turns, ReadEcho PROVE Turns'
  OBVIOUS
<1>1. /\ pc = "echo" /\ Read /\ pc' = (IF C = "CR" THEN "resp" ELSE "echo")
      /\ UNCHANGED <<cfg, step, at_buf, inbox, out, set, inStep>>
  BY DEF ReadEcho, modem
<1> SUFFICES ASSUME InStep PROVE Turns'
  BY <1>1 DEF Turns, InStep
<1>2. Pending # <<>> /\ C = Head(Pending) /\ Pending' = Tail(Pending)
  BY <1>1, PendingRead
<1>3. cfg.echo /\ (set.echo => cfg.echo) /\ Commands' = Commands
  BY <1>1 DEF Turns, Commands
<1>4. CASE Awaited
  <2>1. Pending = <<"LF">>
    BY <1>2, <1>4 DEF Awaited, Lead
  <2>2. C = "LF" /\ Pending' = <<>>
    BY <1>2, <2>1, Unfold
  <2> QED
    BY <1>1, <1>3, <1>4, <2>2 DEF Turns, Awaited, Lead
<1>5. CASE /\ inbox = <<>> /\ at_buf = <<>>
           /\ \E a \in Answers : Unread(Pending, a) \/ Fresh(Pending, a)
  <2>1. PICK a \in Answers : Unread(Pending, a) \/ Fresh(Pending, a)
    BY <1>5
  <2>2. C = "CR" => Opening(Pending')
    BY <1>2, <2>1, UnreadRead, FreshRead DEF Opening, Fresh
  <2>3. C # "CR" => \E b \in Answers : Unread(Pending', b) \/ Fresh(Pending', b)
    <3>1. CASE Unread(Pending, a)
      BY <1>2, <3>1, UnreadRead
    <3>2. CASE Fresh(Pending, a)
      <4>1. <<"CR">> = <<"CR">> \o <<>>
        BY JoinedEmpty, AnswerTypes
      <4>2. Unread(<<"CR">>, <<>>)
        BY <4>1 DEF Unread
      <4>3. Fresh(a, a)
        BY DEF Fresh
      <4>4. C # "CR" => Pending' = a \/ Pending' = <<"CR">>
        BY <1>2, <3>2, FreshRead
      <4> QED
        BY <4>2, <4>3, <4>4, SomeAnswers
    <3> QED
      BY <2>1, <3>1, <3>2
  <2> QED
    BY <1>1, <1>3, <1>5, <2>2, <2>3 DEF Turns, Partial, Unread, Fresh, Opening, Answers, Ok, Error
<1> QED
  BY <1>1, <1>4, <1>5 DEF Turns

LEMMA RespTurns == TypeOK /\ Turns /\ ReadResp => Turns'
<1> SUFFICES ASSUME TypeOK, Turns, ReadResp PROVE Turns'
  OBVIOUS
<1>1. /\ pc = "resp" /\ Read
      /\ UNCHANGED <<cfg, inbox, out, set, inStep>>
  BY DEF ReadResp, modem
<1> SUFFICES ASSUME InStep PROVE Turns'
  BY <1>1 DEF Turns, InStep
<1>2. Pending # <<>> /\ C = Head(Pending) /\ Pending' = Tail(Pending)
  BY <1>1, PendingRead
<1>3. (set.echo => cfg.echo) /\ Commands' = Commands
  BY <1>1 DEF Turns, Commands
<1>4. CASE Awaited /\ ~cfg.echo
  <2>1. Pending = <<"LF">> /\ at_buf = <<>>
    BY <1>2, <1>4 DEF Awaited, Lead
  <2>2. C = "LF" /\ Pending' = <<>>
    BY <1>2, <2>1, Unfold
  <2>3. UNCHANGED <<at_buf, pc, step>>
    BY <2>1, <2>2 DEF ReadResp
  <2> QED
    BY <1>1, <1>3, <1>4, <2>2, <2>3 DEF Turns, Awaited, Lead
<1>5. CASE inbox = <<>> /\ Partial(at_buf, Pending)
  <2>1. CASE C = Eol /\ at_buf # <<>>
    <3>1. Pending' \in Lead
      BY <1>2, <1>5, <2>1, PartialRead
    <3>2. pc' \in {"drain", "done"}
      BY <2>1, EndStages DEF ReadResp
    <3> QED
      BY <1>1, <1>3, <1>5, <3>1, <3>2 DEF Turns, Lead
  <2>2. CASE ~(C = Eol /\ at_buf # <<>>)
    <3>1. /\ at_buf' = IF C \in {"CR", "LF"} THEN at_buf ELSE Append(at_buf, C)
          /\ pc' = pc
      BY <2>2 DEF ReadResp
    <3>2. Partial(at_buf', Pending')
      BY <1>2, <1>5, <2>2, <3>1, PartialRead
    <3>3. Partial(at_buf, Pending)'
      BY <1>1, <3>2 DEF Partial, Opening, Fresh, Answers, Ok, Error
    <3> QED
      BY <1>1, <1>3, <1>5, <3>1, <3>3 DEF Turns
  <2> QED
    BY <2>1, <2>2
<1> QED
  BY <1>1, <1>4, <1>5 DEF Turns

LEMMA ExecuteTurns == TypeOK /\ Turns /\ Execute => Turns'
<1> SUFFICES ASSUME TypeOK, Turns, Execute PROVE Turns'
  OBVIOUS
<1>1. /\ inbox # <<>> /\ inbox' = Tail(inbox) /\ UNCHANGED <<cfg, step, pc, at_buf>>
      /\ (InStep' <=> InStep)
  BY ExecuteSends, SameInStep DEF code, Next
<1> SUFFICES ASSUME InStep PROVE Turns'
  BY <1>1 DEF Turns
<1>2. set'.echo => cfg.echo
  BY ExecuteSends, AfterType DEF Turns
<1>3. CASE pc \notin {"echo", "resp"}
  BY <1>1, <1>2, <1>3 DEF Turns
<1>4. CASE pc \in {"echo", "resp"}
  <2>1. Awaited /\ (pc = "echo" <=> cfg.echo)
    BY <1>1, <1>4 DEF Turns
  <2>2. inbox' = <<>> /\ at_buf' = <<>>
    BY <1>1, <2>1, Unfold DEF Awaited
  <2>3. PICK a \in Answers : IF set.echo THEN Unread(Pending', a) ELSE Fresh(Pending', a)
    BY <2>1, ExecutePending DEF Awaited
  <2>4. CASE pc = "echo"
    <3>1. \E b \in Answers : Unread(Pending', b) \/ Fresh(Pending', b)
      BY <2>3
    <3> QED
      BY <1>1, <1>2, <2>1, <2>2, <2>4, <3>1 DEF Turns, Unread, Fresh, Answers, Ok, Error
  <2>5. CASE pc = "resp"
    <3>1. Opening(Pending')
      BY <2>1, <2>3, <2>5 DEF Turns, Opening
    <3>2. Partial(at_buf, Pending)'
      BY <2>2, <3>1 DEF Partial, Opening, Fresh, Answers, Ok, Error
    <3> QED
      BY <1>1, <1>2, <2>2, <2>5, <3>2 DEF Turns
  <2> QED
    BY <1>4, <2>4, <2>5
<1> QED
  BY <1>3, <1>4

LEMMA StepTurns == TypeOK /\ Turns /\ [Next]_vars => Turns'
<1> SUFFICES ASSUME TypeOK, Turns, [Next]_vars PROVE Turns'
  OBVIOUS
<1> SUFFICES ASSUME InStep PROVE Turns'
  BY SameInStep DEF Turns
<1>1. cfg' = cfg /\ Commands' = Commands /\ (set.echo => cfg.echo)
  BY SameInStep DEF Turns, Commands
<1>2. CASE DrainWire
  <2>1. /\ pc = "drain" /\ pc' = "write" /\ wire' = <<>> /\ UNCHANGED <<inbox, out, set>>
    BY <1>2 DEF DrainWire, modem
  <2>2. Pending' = out
    BY <2>1, JoinedEmpty DEF Pending, TypeOK
  <2>3. out \in Lead /\ inbox = <<>>
    BY <2>1, LeadRest DEF Turns, Pending, TypeOK
  <2> QED
    BY <1>1, <2>1, <2>2, <2>3 DEF Turns, Lead
<1>3. CASE WriteCmd
  <2>1. /\ pc = "write" /\ UNCHANGED <<set, wire, out>> /\ inbox = <<>> /\ Pending \in Lead
    BY <1>3 DEF WriteCmd, Turns
  <2>2. Pending' = Pending
    BY <2>1 DEF Pending
  <2>3. CASE /\ inbox' = Append(inbox, Commands[step]) /\ at_buf' = <<>> /\ step' = step
             /\ pc' = IF SkipsEcho THEN "echo" ELSE "resp"
    <3>1. inbox' = <<Commands[step]>>
      BY <2>1, <2>3, Longer
    <3>2. Awaited'
      BY <1>1, <2>1, <2>2, <2>3, <3>1 DEF Awaited, Lead
    <3> QED
      BY <1>1, <2>1, <2>3, <3>2 DEF Turns, SkipsEcho
  <2>4. CASE End("TIMEOUT") /\ UNCHANGED <<inbox, at_buf>>
    BY <1>1, <2>1, <2>2, <2>4, EndStages DEF Turns, Lead
  <2> QED
    BY <1>3, <2>3, <2>4 DEF WriteCmd
<1>4. CASE ReadTimeout
  <2>1. /\ Pending = <<>> /\ inbox = <<>> /\ pc' \in {"drain", "done"}
        /\ UNCHANGED <<wire, inbox, out, set>>
    BY <1>4, PendingTimeout, EndStages DEF ReadTimeout, modem
  <2> QED
    BY <1>1, <2>1 DEF Turns, Lead, Pending
<1>5. CASE Emit
  <2>1. Pending' = Pending /\ UNCHANGED <<cfg, step, pc, at_buf, inbox, set>>
    BY <1>5, PendingEmit DEF Emit, code
  <2> QED
    BY <1>1, <2>1 DEF Turns, InStep, Awaited, Lead, Partial, Opening, Fresh, Unread, Answers, Ok, Error
<1>6. CASE UNCHANGED vars
  BY <1>6 DEF vars, code, modem, Turns, InStep, Pending, Awaited, Lead, Partial, Opening, Fresh,
              Unread, Answers, Ok, Error, Commands
<1> QED
  BY <1>2, <1>3, <1>4, <1>5, <1>6, EchoTurns, RespTurns, ExecuteTurns DEF Next

(***************************************************************************)
(* OK is the answer to a command that was executed.                        *)
(***************************************************************************)
(* What a command changes.                                                 *)
Applied(c) == CASE c = "q"  -> ~set.quiet
                [] c = "e"  -> set.echo = cfg.echo
                [] c = "v"  -> set.verbose = cfg.verbose
                [] c = "&k" -> set.flow
                [] c = "&d" -> set.dtr

(* What holds one of these is a good result code.                          *)
Codes == {"O", "K", "0"}
Earned ==
  InStep =>
    /\ pc \in {"echo", "resp"} /\ (Holds(at_buf, Codes) \/ Holds(Pending, Codes)) =>
         Applied(Commands[step])
    /\ \A i \in 1..(step - 1) : Checked(Commands[i]) => Applied(Commands[i])
    /\ ret = "OK" => Applied("&k") /\ Applied("&d")

LEMMA StillApplied ==
  ASSUME TypeOK, [Next]_vars, NEW c \in {"q", "e", "v", "&k", "&d"}
  PROVE  Applied(c) => Applied(c)'
<1>1. CASE Execute
  <2>1. cfg' = cfg /\ (set' = set \/ \E d \in {"q", "e", "v", "&k", "&d"} : set' = After(d))
    BY <1>1, SameInStep, ExecuteSends
  <2>2. CASE set' = set
    BY <2>1, <2>2 DEF Applied
  <2>3. ASSUME NEW d \in {"q", "e", "v", "&k", "&d"}, set' = After(d)
        PROVE  Applied(c) => Applied(c)'
    <3>1. /\ set'.quiet = IF d = "q" THEN FALSE ELSE set.quiet
          /\ set'.echo = IF d = "e" THEN cfg.echo ELSE set.echo
          /\ set'.verbose = IF d = "v" THEN cfg.verbose ELSE set.verbose
          /\ set'.flow = IF d = "&k" THEN TRUE ELSE set.flow
          /\ set'.dtr = IF d = "&d" THEN TRUE ELSE set.dtr
      BY <2>3, AfterType
    <3> QED
      BY <2>1, <3>1 DEF Applied
  <2> QED
    BY <2>1, <2>2, <2>3
<1>2. CASE ~Execute
  <2>1. set' = set /\ cfg' = cfg
    BY <1>2, SameInStep DEF Next, vars, modem, DrainWire, WriteCmd, ReadEcho, ReadResp, ReadTimeout, Emit
  <2> QED
    BY <2>1 DEF Applied
<1> QED
  BY <1>1, <1>2

LEMMA NowApplied ==
  ASSUME TypeOK, NEW c \in {"q", "e", "v", "&k", "&d"}, set' = After(c), cfg' = cfg
  PROVE  Applied(c)'
BY AfterType DEF Applied

LEMMA Codeless ==
  /\ ~Holds(<<>>, Codes) /\ ~Holds(<<"LF">>, Codes) /\ ~Holds(<<"CR">>, Codes)
  /\ ~Holds(<<"cmd", "CR">>, Codes) /\ \A v \in BOOLEAN : ~Holds(Error(v), Codes)
<1> DEFINE Blank == {"CR", "LF", "cmd", "ERROR", "4"}
<1>1. /\ Blank \cap Codes = {} /\ <<>> \in Seq(Blank)
      /\ "CR" \in Blank /\ "LF" \in Blank /\ "cmd" \in Blank /\ "ERROR" \in Blank /\ "4" \in Blank
  BY DEF Codes
<1> HIDE DEF Blank
<1>2. <<"LF">> \in Seq(Blank) /\ <<"CR">> \in Seq(Blank) /\ <<"cmd", "CR">> \in Seq(Blank)
  BY <1>1, FewTokens
<1>3. ASSUME NEW v \in BOOLEAN PROVE Error(v) \in Seq(Blank)
  BY <1>1, FewTokens DEF Error
<1> QED
  BY <1>1, <1>2, <1>3, HoldsNone

(* A refused command puts no good result code on the line.                 *)
LEMMA RefusedCodeless ==
  ASSUME NEW a \in Answers, ~Holds(a, Codes), NEW p, Unread(p, a) \/ Fresh(p, a)
  PROVE  ~Holds(p, Codes)
<1>1. /\ a \in Seq(Tokens) /\ <<"LF">> \in Seq(Tokens) /\ <<"CR">> \in Seq(Tokens)
      /\ <<"cmd", "CR">> \in Seq(Tokens) /\ <<"cmd", "CR">> \o a \in Seq(Tokens)
  BY AnswersType, AnswerTypes, Front
<1>2. ~Holds(<<"LF">> \o a, Codes) /\ ~Holds(<<"CR">> \o a, Codes) /\ ~Holds(<<"cmd", "CR">> \o a, Codes)
  BY <1>1, Codeless, HoldsJoined
<1>3. ~Holds(<<"LF">> \o (<<"cmd", "CR">> \o a), Codes)
  <2> DEFINE q == <<"cmd", "CR">> \o a
  <2>1. q \in Seq(Tokens) /\ ~Holds(q, Codes)
    BY <1>1, <1>2
  <2> HIDE DEF q
  <2>2. ~Holds(<<"LF">> \o q, Codes)
    BY <1>1, <2>1, Codeless, HoldsJoined
  <2> QED
    BY <2>2 DEF q
<1> QED
  BY <1>2, <1>3 DEF Unread, Fresh

LEMMA LeadCodeless == Pending \in Lead => ~Holds(Pending, Codes)
BY Codeless DEF Lead

LEMMA PendingType == TypeOK => Pending \in Seq(Tokens)
BY Joined DEF TypeOK, Pending

(* What is read as OK holds a code.                                        *)
LEMMA OkCode ==
  ASSUME TypeOK, StrCode(at_buf) = "OK"
  PROVE  Holds(at_buf, Codes)
<1>1. at_buf \in {<<"O", "K">>, <<"0">>}
  BY DEF StrCode
<1>2. at_buf # <<>> /\ Head(at_buf) \in Codes
  BY <1>1, Unfold DEF Codes
<1> QED
  BY <1>2, HoldsTail DEF TypeOK

LEMMA InitEarned == Init => Earned
BY DEF Init, Earned

(* A command ends.                                                         *)
LEMMA EndEarned ==
  ASSUME TypeOK, Earned, InStep, UNCHANGED <<cfg, set, inStep>>, pc \in {"write", "echo", "resp"},
         NEW r \in {"OK", "ERR", "UNK", "TIMEOUT"}, End(r), r = "OK" => Applied(Commands[step])
  PROVE  Earned'
<1>0. step \in 1..5 /\ Commands' = Commands
  BY CommandsAre DEF TypeOK, Commands
<1>1. pc' \in {"drain", "done"} /\ \A c : Applied(c)' <=> Applied(c)
  BY EndStages DEF Applied
<1>2. ASSUME NEW i \in 1..(step' - 1), Checked(Commands[i]) PROVE Applied(Commands[i])
  <2>1. CASE i \in 1..(step - 1)
    BY <1>2, <2>1 DEF Earned
  <2>2. CASE i \notin 1..(step - 1)
    <3>1. i = step /\ step' = step + 1
      BY <1>0, <1>2, <2>2 DEF End
    <3>2. r = "OK"
      BY <1>0, <1>2, <3>1 DEF End
    <3> QED
      BY <3>1, <3>2
  <2> QED
    BY <2>1, <2>2
<1>3. ASSUME ret' = "OK" PROVE Applied("&k") /\ Applied("&d")
  <2>1. CASE ret' = ret
    BY <1>3, <2>1 DEF Earned
  <2>2. CASE ret' # ret
    <3>1. ret' = r /\ step = 5
      BY <1>3, <2>2, CommandsAre DEF End
    <3>2. Applied("&d")
      BY <1>3, <3>1, CommandsAre
    <3>3. 4 \in 1..(step - 1) /\ Commands[4] = "&k" /\ Checked("&k")
      BY <3>1, CommandsAre DEF Checked
    <3> QED
      BY <3>2, <3>3 DEF Earned
  <2> QED
    BY <2>1, <2>2
<1> QED
  BY <1>0, <1>1, <1>2, <1>3 DEF Earned

LEMMA StepEarned == TypeOK /\ Turns /\ Earned /\ [Next]_vars => Earned'
<1> SUFFICES ASSUME TypeOK, Turns, Earned, [Next]_vars PROVE Earned'
  OBVIOUS
<1> SUFFICES ASSUME InStep PROVE Earned'
  BY SameInStep DEF Earned
<1>0. cfg' = cfg /\ inStep' = inStep /\ Commands' = Commands /\ step \in 1..5
  BY SameInStep, CommandsAre DEF TypeOK, Commands
(* The steps within a command.                                             *)
<1>1. ASSUME UNCHANGED <<step, ret>>,
             pc' \in {"echo", "resp"} /\ (Holds(at_buf', Codes) \/ Holds(Pending', Codes)) =>
               Applied(Commands[step])'
      PROVE  Earned'
  <2>1. \A i \in 1..5 : Applied(Commands[i]) => Applied(Commands[i])'
    BY StillApplied, CommandsAre
  <2>2. (Applied("&k") => Applied("&k")') /\ (Applied("&d") => Applied("&d")')
    BY StillApplied
  <2>3. \A i \in 1..(step - 1) : i \in 1..5
    BY <1>0
  <2> QED
    BY <1>0, <1>1, <2>1, <2>2, <2>3 DEF Earned, Codes, Checked
<1>2. CASE DrainWire
  BY <1>1, <1>2 DEF DrainWire
<1>3. CASE WriteCmd
  <2>1. pc = "write" /\ UNCHANGED <<set, wire, out>> /\ ~Holds(Pending, Codes)
    BY <1>3, LeadCodeless DEF WriteCmd, Turns
  <2>2. CASE at_buf' = <<>> /\ UNCHANGED <<step, ret>>
    <3>1. ~Holds(at_buf', Codes) /\ ~Holds(Pending', Codes)
      BY <2>1, <2>2, Codeless DEF Pending
    <3> QED
      BY <1>1, <2>2, <3>1
  <2>3. CASE End("TIMEOUT")
    BY <1>0, <2>1, <2>3, EndEarned
  <2> QED
    BY <1>3, <2>2, <2>3 DEF WriteCmd
<1>4. CASE ReadEcho
  <2>1. Read /\ pc = "echo" /\ UNCHANGED <<step, ret, at_buf, out, set>>
    BY <1>4 DEF ReadEcho, modem
  <2>2. Holds(Pending', Codes) => Holds(Pending, Codes)
    BY <2>1, PendingRead, PendingType, HoldsTail
  <2>3. Applied(Commands[step])' <=> Applied(Commands[step])
    BY <1>0, <2>1 DEF Applied
  <2> QED
    BY <1>1, <2>1, <2>2, <2>3 DEF Earned
<1>5. CASE ReadResp
  <2>1. Read /\ pc = "resp" /\ UNCHANGED <<out, set>>
    BY <1>5 DEF ReadResp, modem
  <2>2. CASE End(StrCode(at_buf))
    <3>1. StrCode(at_buf) = "OK" => Applied(Commands[step])
      BY <2>1, OkCode DEF Earned
    <3> QED
      BY <1>0, <2>1, <2>2, <3>1, CodeKinds, EndEarned
  <2>3. CASE /\ at_buf' = IF C \in {"CR", "LF"} THEN at_buf ELSE Append(at_buf, C)
             /\ UNCHANGED <<pc, step, ret>>
    <3>1. /\ Holds(Pending, Codes) <=> C \in Codes \/ Holds(Pending', Codes)
          /\ Pending # <<>> /\ C \in Tokens
      BY <2>1, PendingRead, PendingType, HoldsTail, Behead
    <3>2. Holds(Append(at_buf, C), Codes) <=> Holds(at_buf, Codes) \/ C \in Codes
      BY <3>1, HoldsAppend DEF TypeOK
    <3>3. Applied(Commands[step])' <=> Applied(Commands[step])
      BY <1>0, <2>1, <2>3 DEF Applied
    <3> QED
      BY <1>1, <2>1, <2>3, <3>1, <3>2, <3>3 DEF Earned
  <2> QED
    BY <1>5, <2>2, <2>3 DEF ReadResp
<1>6. CASE ReadTimeout
  <2>1. End("TIMEOUT") /\ pc \in {"echo", "resp"} /\ set' = set
    BY <1>6 DEF ReadTimeout, modem
  <2> QED
    BY <1>0, <2>1, EndEarned
<1>7. CASE Execute
  <2>1. UNCHANGED <<step, pc, ret, at_buf>> /\ inbox # <<>>
    BY <1>7, ExecuteSends DEF code
  <2> SUFFICES ASSUME pc \in {"echo", "resp"}, Holds(at_buf', Codes) \/ Holds(Pending', Codes)
               PROVE  Applied(Commands[step])'
    BY <1>1, <2>1
  <2>2. Awaited /\ Head(inbox) = Commands[step]
    BY <2>1, Unfold DEF Turns, Awaited
  <2>3. PICK a \in Answers :
          /\ Unread(Pending', a) \/ Fresh(Pending', a)
          /\ \/ set' = After(Head(inbox))
             \/ a \in {<<>>, Error(set.verbose)}
    BY <1>7, <2>2, ExecutePending DEF Awaited
  <2>4. ~Holds(at_buf', Codes)
    BY <2>1, <2>2, Codeless DEF Awaited
  <2>5. CASE set' = After(Head(inbox))
    <3>1. Commands[step] \in {"q", "e", "v", "&k", "&d"}
      BY <1>0, CommandsAre
    <3>2. \A c \in {"q", "e", "v", "&k", "&d"} : set' = After(c) => Applied(c)'
      BY <1>0, NowApplied
    <3>3. \A c : Commands'[step'] = c /\ Applied(c)' => Applied(Commands[step])'
      OBVIOUS
    <3> QED
      BY <1>0, <2>1, <2>2, <2>5, <3>1, <3>2, <3>3
  <2>6. CASE a \in {<<>>, Error(set.verbose)}
    <3>1. ~Holds(a, Codes)
      BY <2>6, Codeless DEF TypeOK
    <3> QED
      BY <2>3, <2>4, <3>1, RefusedCodeless
  <2> QED
    BY <2>3, <2>5, <2>6
<1>8. CASE Emit
  <2>1. UNCHANGED <<step, pc, ret, at_buf, set>> /\ Pending' = Pending
    BY <1>8, PendingEmit DEF Emit, code
  <2>2. Applied(Commands[step])' <=> Applied(Commands[step])
    BY <1>0, <2>1 DEF Applied
  <2> QED
    BY <1>1, <2>1, <2>2 DEF Earned
<1>9. CASE UNCHANGED vars
  <2>1. UNCHANGED <<step, pc, ret, at_buf, set>> /\ Pending' = Pending
    BY <1>9 DEF vars, code, modem, Pending
  <2>2. Applied(Commands[step])' <=> Applied(Commands[step])
    BY <1>0, <2>1 DEF Applied
  <2> QED
    BY <1>1, <2>1, <2>2 DEF Earned
<1> QED
  BY <1>2, <1>3, <1>4, <1>5, <1>6, <1>7, <1>8, <1>9 DEF Next

LEMMA TurnsInvariant == Spec => []Turns
BY InitTurns, StepTurns, TypeCorrect, PTL DEF Spec

(* When answers and commands are in step, a setup that returns OK has set  *)
(* flow control and DTR: each OK it looks at is the answer to the command  *)
(* of that moment, which the modem executed.                               *)
THEOREM FlowIsAgreed == Spec => []FlowAgreed
<1>1. Spec => []Earned
  BY InitEarned, StepEarned, TypeCorrect, TurnsInvariant, PTL DEF Spec
<1>2. Earned => FlowAgreed
  BY DEF Earned, Applied, FlowAgreed
<1> QED
  BY <1>1, <1>2, PTL

(***************************************************************************)
(* A setup without a fault.                                                *)
(***************************************************************************)
(* Every command is executed in its turn ...                               *)
Obeyed ==
  InStep /\ faults = 0 =>
    /\ \A i \in 1..(step - 1) : Applied(Commands[i])
    /\ pc \in {"echo", "resp"} /\ inbox = <<>> => Applied(Commands[step])

(* ... and the answers to the last two are read as OK: b was read of one,  *)
(* p is to be read.                                                        *)
Exactly(b, p) ==
  IF cfg.verbose
  THEN \/ /\ b = <<>>
          /\ Fresh(p, Ok(TRUE)) \/ p \in {<<"LF", "O", "K", "CR", "LF">>, <<"O", "K", "CR", "LF">>}
       \/ b = <<"O">> /\ p = <<"K", "CR", "LF">>
       \/ b = <<"O", "K">> /\ p \in {<<"CR", "LF">>, <<"LF">>}
  ELSE \/ b = <<>> /\ Fresh(p, Ok(FALSE))
       \/ b = <<"0">> /\ p = <<"CR">>
Understood ==
  InStep /\ faults = 0 =>
    /\ step > 3 /\ inbox = <<>> =>
         /\ pc = "echo" => Unread(Pending, Ok(cfg.verbose))
         /\ pc = "resp" => Exactly(at_buf, Pending)
    /\ ret # "none" => ret = "OK"

GInv == Obeyed /\ Understood

LEMMA InitGood == Init => GInv
BY DEF Init, GInv, Obeyed, Understood

LEMMA FewFaults ==
  ASSUME TypeOK, [Next]_vars
  PROVE  faults \in Nat /\ (faults' = faults \/ faults' = faults + 1)
<1>1. faults \in Nat
  BY SetupAssumption DEF TypeOK
<1>2. faults' = faults \/ faults' = faults + 1
  BY ExecuteSends DEF Next, vars, code, modem, DrainWire, WriteCmd, ReadEcho, ReadResp, ReadTimeout,
     Emit, Fault
<1> QED
  BY <1>1, <1>2

LEMMA ExactlyRead ==
  ASSUME TypeOK, NEW b, NEW p, Exactly(b, p)
  PROVE  /\ p # <<>>
         /\ Head(p) = Eol /\ b # <<>> => StrCode(b) = "OK"
         /\ ~(Head(p) = Eol /\ b # <<>>) =>
              Exactly(IF Head(p) \in {"CR", "LF"} THEN b ELSE Append(b, Head(p)), Tail(p))
<1>0. /\ Eol = (IF cfg.verbose THEN "LF" ELSE "CR") /\ Ok(TRUE) \in Answers /\ Ok(FALSE) \in Answers
      /\ Ok(TRUE) # <<>> /\ Ok(FALSE) # <<>>
  BY AnswerFront, SomeAnswers DEF Eol
<1>1. ASSUME NEW v \in BOOLEAN, Fresh(p, Ok(v))
      PROVE  /\ p # <<>>
             /\ \/ Head(p) = "LF" /\ Tail(p) = Ok(v)
                \/ v /\ Head(p) = "CR" /\ Tail(p) = <<"LF", "O", "K", "CR", "LF">>
                \/ ~v /\ Head(p) = "0" /\ Tail(p) = <<"CR">>
  <2>1. CASE p = Ok(v)
    BY <2>1, AnswerFront
  <2>2. CASE p = <<"LF">> \o Ok(v)
    BY <2>2, Front, AnswerTypes DEF Tokens
  <2> QED
    BY <1>1, <2>1, <2>2 DEF Fresh
<1>2. CASE cfg.verbose
  <2>1. CASE b = <<>> /\ Fresh(p, Ok(TRUE))
    BY <1>1, <1>2, <2>1 DEF Exactly, Fresh
  <2>2. CASE b = <<>> /\ p = <<"LF", "O", "K", "CR", "LF">>
    BY <1>2, <2>2, Unfold DEF Exactly
  <2>3. CASE b = <<>> /\ p = <<"O", "K", "CR", "LF">>
    <3>1. Head(p) = "O" /\ Tail(p) = <<"K", "CR", "LF">> /\ Append(b, "O") = <<"O">> /\ p # <<>>
      BY <2>3, Unfold, Longer
    <3> QED
      BY <1>2, <2>3, <3>1 DEF Exactly
  <2>4. CASE b = <<"O">> /\ p = <<"K", "CR", "LF">>
    <3>1. Head(p) = "K" /\ Tail(p) = <<"CR", "LF">> /\ Append(b, "K") = <<"O", "K">> /\ p # <<>>
      BY <2>4, Unfold, Longer
    <3> QED
      BY <1>0, <1>2, <3>1 DEF Exactly
  <2>5. CASE b = <<"O", "K">> /\ p = <<"CR", "LF">>
    <3>1. Head(p) = "CR" /\ Tail(p) = <<"LF">> /\ p # <<>>
      BY <2>5, Unfold
    <3> QED
      BY <1>0, <1>2, <2>5, <3>1 DEF Exactly
  <2>6. CASE b = <<"O", "K">> /\ p = <<"LF">>
    <3>1. Head(p) = "LF" /\ p # <<>> /\ b # <<>>
      BY <2>6, Unfold
    <3>2. StrCode(b) = "OK"
      BY <1>2, <2>6 DEF StrCode
    <3> QED
      BY <1>0, <1>2, <3>1, <3>2
  <2> QED
    BY <1>2, <2>1, <2>2, <2>3, <2>4, <2>5, <2>6 DEF Exactly
<1>3. CASE ~cfg.verbose
  <2>1. CASE b = <<>> /\ Fresh(p, Ok(FALSE))
    <3>1. Append(<<>>, "0") = <<"0">>
      BY Longer
    <3> QED
      BY <1>1, <1>3, <2>1, <3>1 DEF Exactly, Fresh
  <2>2. CASE b = <<"0">> /\ p = <<"CR">>
    <3>1. Head(p) = "CR" /\ p # <<>> /\ b # <<>>
      BY <2>2, Unfold
    <3>2. StrCode(b) = "OK"
      BY <1>3, <2>2 DEF StrCode
    <3> QED
      BY <1>0, <1>3, <3>1, <3>2
  <2> QED
    BY <1>3, <2>1, <2>2 DEF Exactly
<1> QED
  BY <1>2, <1>3

(* A command ends, well if it is one of the last two.                      *)
LEMMA EndGood ==
  ASSUME TypeOK, Turns, GInv, InStep, faults = 0, UNCHANGED <<cfg, set, inStep, faults>>,
         pc \in {"echo", "resp"}, inbox = <<>>,
         NEW r \in {"OK", "ERR", "UNK", "TIMEOUT"}, End(r), step > 3 => r = "OK"
  PROVE  GInv'
<1>1. step \in 1..5 /\ Commands' = Commands /\ Len(Commands) = 5
  BY CommandsAre DEF TypeOK, Commands
<1>2. pc' \in {"drain", "done"} /\ \A c : Applied(c)' <=> Applied(c)
  BY EndStages DEF Applied
<1>3. \A i \in 1..step : Applied(Commands[i])
  BY <1>1 DEF GInv, Obeyed
<1>4. step' = step \/ step' = step + 1
  BY DEF End
<1>5. ASSUME NEW i \in 1..(step' - 1) PROVE Applied(Commands[i])
  <2>1. step \in Nat
    BY <1>1
  <2>2. CASE step' = step
    <3>1. i \in 1..(step - 1)
      BY <1>5, <2>2
    <3> QED
      BY <1>3, <2>1, <3>1
  <2>3. CASE step' = step + 1
    <3>1. i \in 1..((step + 1) - 1)
      BY <1>5, <2>3
    <3> QED
      BY <1>3, <2>1, <3>1
  <2> QED
    BY <1>4, <2>2, <2>3
<1>6. ret' # "none" => ret' = "OK"
  BY <1>1 DEF End, GInv, Understood, Checked, Commands
<1> QED
  BY <1>1, <1>2, <1>5, <1>6 DEF GInv, Obeyed, Understood

LEMMA StepGood == TypeOK /\ Turns /\ GInv /\ [Next]_vars => GInv'
<1> SUFFICES ASSUME TypeOK, Turns, GInv, [Next]_vars PROVE GInv'
  OBVIOUS
<1> SUFFICES ASSUME InStep, faults = 0, faults' = 0 PROVE GInv'
  BY SameInStep, FewFaults DEF GInv, Obeyed, Understood
<1>0. cfg' = cfg /\ inStep' = inStep /\ Commands' = Commands /\ step \in 1..5
  BY SameInStep, CommandsAre DEF TypeOK, Commands
(* The steps within a command.                                             *)
<1>1. ASSUME UNCHANGED <<step, ret>>,
             pc' \in {"echo", "resp"} /\ inbox' = <<>> => Applied(Commands[step])',
             step > 3 /\ inbox' = <<>> =>
               /\ pc' = "echo" => Unread(Pending', Ok(cfg.verbose))
               /\ pc' = "resp" => Exactly(at_buf', Pending')
      PROVE  GInv'
  <2>1. \A i \in 1..5 : Applied(Commands[i]) => Applied(Commands[i])'
    BY StillApplied, CommandsAre
  <2>2. \A i \in 1..(step - 1) : i \in 1..5
    BY <1>0
  <2>3. Obeyed'
    BY <1>0, <1>1, <2>1, <2>2 DEF GInv, Obeyed
  <2>4. Exactly(at_buf', Pending') <=> Exactly(at_buf, Pending)'
    BY <1>0 DEF Exactly, Fresh, Ok
  <2>5. Unread(Pending', Ok(cfg.verbose)) <=> Unread(Pending, Ok(cfg.verbose))'
    BY <1>0 DEF Unread, Ok
  <2>6. Understood'
    BY <1>0, <1>1, <2>4, <2>5 DEF GInv, Understood
  <2> QED
    BY <2>3, <2>6 DEF GInv
<1>2. CASE DrainWire
  BY <1>1, <1>2 DEF DrainWire
<1>3. CASE WriteCmd
  <2>1. UNCHANGED <<step, ret>> /\ inbox' = Append(inbox, Commands[step]) /\ pc = "write"
    BY <1>3 DEF WriteCmd, Fault
  <2>2. inbox' # <<>>
    BY <2>1, Longer, Unfold DEF Turns
  <2> QED
    BY <1>1, <2>1, <2>2
<1>4. CASE ReadEcho
  <2>1. /\ Read /\ pc = "echo" /\ UNCHANGED <<step, ret, at_buf, inbox, out, set>>
        /\ pc' = (IF C = "CR" THEN "resp" ELSE "echo")
    BY <1>4 DEF ReadEcho, modem
  <2>2. Applied(Commands[step])' <=> Applied(Commands[step])
    BY <1>0, <2>1 DEF Applied
  <2>3. Pending # <<>> /\ C = Head(Pending) /\ Pending' = Tail(Pending)
    BY <2>1, PendingRead
  <2>4. ASSUME step > 3, inbox = <<>>
        PROVE  /\ C = "CR" => Exactly(at_buf, Pending')
               /\ C # "CR" => Unread(Pending', Ok(cfg.verbose))
    <3>1. Unread(Pending, Ok(cfg.verbose)) /\ Ok(cfg.verbose) \in Answers /\ at_buf = <<>>
      BY <2>1, <2>4, SomeAnswers, Unfold DEF GInv, Understood, TypeOK, Turns, Awaited
    <3>2. /\ C = "CR" => Pending' = Ok(cfg.verbose)
          /\ C # "CR" => Unread(Pending', Ok(cfg.verbose))
      BY <2>3, <3>1, UnreadRead
    <3>3. cfg.verbose \in BOOLEAN
      BY DEF TypeOK
    <3> QED
      BY <3>1, <3>2, <3>3 DEF Exactly, Fresh
  <2> QED
    BY <1>1, <2>1, <2>2, <2>4 DEF GInv, Obeyed
<1>5. CASE ReadResp
  <2>1. Read /\ pc = "resp" /\ UNCHANGED <<inbox, out, set>>
    BY <1>5 DEF ReadResp, modem
  <2>2. Pending # <<>> /\ C = Head(Pending) /\ Pending' = Tail(Pending)
    BY <2>1, PendingRead
  <2>3. CASE C = Eol /\ at_buf # <<>>
    <3>1. End(StrCode(at_buf)) /\ inbox = <<>>
      BY <1>5, <2>1, <2>3 DEF ReadResp, Turns, Awaited
    <3>2. step > 3 => StrCode(at_buf) = "OK"
      BY <2>1, <2>2, <2>3, <3>1, ExactlyRead DEF GInv, Understood
    <3> QED
      BY <1>0, <2>1, <3>1, <3>2, CodeKinds, EndGood
  <2>4. CASE ~(C = Eol /\ at_buf # <<>>)
    <3>1. /\ at_buf' = (IF C \in {"CR", "LF"} THEN at_buf ELSE Append(at_buf, C))
          /\ UNCHANGED <<pc, step, ret>>
      BY <1>5, <2>4 DEF ReadResp
    <3>2. Applied(Commands[step])' <=> Applied(Commands[step])
      BY <1>0, <2>1, <3>1 DEF Applied
    <3>3. step > 3 /\ inbox = <<>> => Exactly(at_buf', Pending')
      BY <2>1, <2>2, <2>4, <3>1, ExactlyRead DEF GInv, Understood
    <3> QED
      BY <1>1, <2>1, <3>1, <3>2, <3>3 DEF GInv, Obeyed
  <2> QED
    BY <2>3, <2>4
<1>6. CASE ReadTimeout
  <2>1. /\ End("TIMEOUT") /\ pc \in {"echo", "resp"} /\ UNCHANGED <<set, faults>>
        /\ inbox = <<>> /\ Pending = <<>>
    BY <1>6, PendingTimeout DEF ReadTimeout, modem
  <2>2. ~(step > 3)
    <3>1. Ok(cfg.verbose) \in Answers
      BY SomeAnswers DEF TypeOK
    <3> QED
      BY <2>1, <3>1, UnreadRead, ExactlyRead DEF GInv, Understood
  <2> QED
    BY <1>0, <2>1, <2>2, EndGood
<1>7. CASE Execute
  <2>1. UNCHANGED <<step, pc, ret, at_buf>> /\ inbox # <<>> /\ faults' # faults + 1
    BY <1>7, ExecuteSends DEF code
  <2>2. CASE pc \notin {"echo", "resp"}
    BY <1>1, <2>1, <2>2
  <2>3. CASE pc \in {"echo", "resp"}
    <3>1. /\ Awaited /\ Head(inbox) = Commands[step] /\ at_buf' = <<>>
          /\ pc = "echo" <=> cfg.echo
      BY <2>1, <2>3, Unfold DEF Turns, Awaited
    <3>2. PICK a \in Answers :
            /\ IF set.echo THEN Unread(Pending', a) ELSE Fresh(Pending', a)
            /\ set' = After(Head(inbox))
            /\ a = IF set'.quiet THEN <<>> ELSE Ok(set'.verbose)
      BY <1>7, <2>1, <3>1, ExecutePending DEF Awaited
    <3>3. Applied(Commands[step])'
      <4>1. Commands[step] \in {"q", "e", "v", "&k", "&d"}
        BY <1>0, CommandsAre
      <4>2. \A c \in {"q", "e", "v", "&k", "&d"} : set' = After(c) => Applied(c)'
        BY <1>0, NowApplied
      <4>3. \A c : Commands'[step'] = c /\ Applied(c)' => Applied(Commands[step])'
        OBVIOUS
      <4> QED
        BY <1>0, <2>1, <3>1, <3>2, <4>1, <4>2, <4>3
    <3>4. ASSUME step > 3
          PROVE  /\ pc = "echo" => Unread(Pending', Ok(cfg.verbose))
                 /\ pc = "resp" => Exactly(<<>>, Pending')
      <4>1. 1 \in 1..(step - 1) /\ 2 \in 1..(step - 1) /\ 3 \in 1..(step - 1)
        BY <1>0, <3>4
      <4>2. Applied("q") /\ Applied("e") /\ Applied("v")
        BY <4>1, CommandsAre DEF GInv, Obeyed
      <4>3. Applied("q")' /\ Applied("v")'
        BY <4>2, StillApplied
      <4>4. a = Ok(cfg.verbose) /\ set.echo = cfg.echo
        BY <1>0, <3>2, <4>2, <4>3 DEF Applied
      <4>5. cfg.verbose \in BOOLEAN
        BY DEF TypeOK
      <4> QED
        BY <2>3, <3>1, <3>2, <4>4, <4>5 DEF Exactly
    <3> QED
      BY <1>1, <2>1, <3>1, <3>3, <3>4
  <2> QED
    BY <2>2, <2>3
<1>8. CASE Emit
  <2>1. UNCHANGED <<step, pc, ret, at_buf, inbox, set>> /\ Pending' = Pending
    BY <1>8, PendingEmit DEF Emit, code
  <2>2. Applied(Commands[step])' <=> Applied(Commands[step])
    BY <1>0, <2>1 DEF Applied
  <2> QED
    BY <1>1, <2>1, <2>2 DEF GInv, Obeyed, Understood
<1>9. CASE UNCHANGED vars
  <2>1. UNCHANGED <<step, pc, ret, at_buf, inbox, set>> /\ Pending' = Pending
    BY <1>9 DEF vars, code, modem, Pending
  <2>2. Applied(Commands[step])' <=> Applied(Commands[step])
    BY <1>0, <2>1 DEF Applied
  <2> QED
    BY <1>1, <2>1, <2>2 DEF GInv, Obeyed, Understood
<1> QED
  BY <1>2, <1>3, <1>4, <1>5, <1>6, <1>7, <1>8, <1>9 DEF Next

(* Without a fault the setup succeeds, from any settings of the modem that *)
(* do not put answers and commands out of step: the three results that are *)
(* thrown away cost nothing.                                               *)
THEOREM SetupIsGood == Spec => []SetupSucceeds
<1>1. Spec => []GInv
  BY InitGood, StepGood, TypeCorrect, TurnsInvariant, PTL DEF Spec
<1>2. GInv => SetupSucceeds
  BY DEF GInv, Understood, SetupSucceeds
<1> QED
  BY <1>1, <1>2, PTL
=============================================================================
