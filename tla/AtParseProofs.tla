--------------------------- MODULE AtParseProofs ---------------------------
(***************************************************************************)
(* at_uart_parse_resp never writes outside the caller's buffer, stops at   *)
(* the line that ends the answer, and returns its result code and the text *)
(* before it: for every size of the buffer, number of lines and sequence   *)
(* of bytes that ParseAssumption and MaxBytes allow.                       *)
(***************************************************************************)
EXTENDS AtParse, FiniteSetTheorems, SequenceTheorems, TLAPS

(* Sizes are natural numbers, and stay what the caller passed.             *)
LEMMA SizeType == TypeOK => buf_size \in Nat /\ lines \in Nat /\ line_n \in Nat
  BY ParseAssumption DEF TypeOK

(* Writing an element leaves the buffer a buffer of its size.              *)
LEMMA PutType ==
  ASSUME NEW n \in Nat, NEW T, NEW b \in [0..(n - 1) -> T], NEW i, NEW c \in T
  PROVE  Put(b, i, c) \in [0..(n - 1) -> T]
  BY DEF Put

(* Adding a character keeps the types, and what it writes is in bounds.    *)
LEMMA AddCharSafe ==
  ASSUME TypeOK, InBounds, NEW c \in Bytes, AddChar(c), UNCHANGED params
  PROVE  /\ buf' \in [0..(buf_size' - 1) -> Bytes \cup {"NUL", "?"}]
         /\ buf_i' \in Nat /\ top' \in Nat
         /\ InBounds'
<1> DEFINE T == Bytes \cup {"NUL", "?"}
<1>1. buf_size \in Nat /\ buf_i \in Nat /\ top \in Nat
  BY SizeType DEF TypeOK
<1>2. buf \in [0..(buf_size - 1) -> T]
  BY DEF TypeOK
<1>3. buf_size' = buf_size /\ hasBuf' = hasBuf
  BY DEF params
<1>4. buf_i' \in Nat
  BY <1>1 DEF AddChar
<1>5. CASE hasBuf /\ Fits
  <2>1. buf' = Put(Put(buf, buf_i, c), buf_i + 1, "NUL") /\ top' = MaxOf(top, buf_i + 2)
    BY <1>5 DEF AddChar
  <2>2. c \in T /\ "NUL" \in T
    OBVIOUS
  <2>3. Put(buf, buf_i, c) \in [0..(buf_size - 1) -> T]
    BY <1>1, <1>2, <2>2, PutType
  <2>4. buf' \in [0..(buf_size - 1) -> T]
    BY <1>1, <2>1, <2>2, <2>3, PutType
  <2>5. top' \in Nat /\ top' <= buf_size
    BY <1>1, <1>5, <2>1 DEF MaxOf, Fits, InBounds
  <2> QED
    BY <1>3, <1>4, <1>5, <2>4, <2>5 DEF InBounds
<1>6. CASE ~(hasBuf /\ Fits)
  BY <1>1, <1>2, <1>3, <1>4, <1>6 DEF AddChar, InBounds
<1> QED
  BY <1>5, <1>6

(* One byte keeps the types and the bounds.                                *)
LEMMA ByteSafe ==
  ASSUME TypeOK, InBounds, NEW c \in Bytes, ReadByte(c)
  PROVE  TypeOK' /\ InBounds'
<1> DEFINE T == Bytes \cup {"NUL", "?"}
<1>1. seen' \in Seq(Bytes)
  BY DEF ReadByte, TypeOK
<1>2. buf_size \in Nat /\ lines \in Nat /\ line_n \in Nat /\ buf_i \in Nat /\ buf_li \in Nat /\ top \in Nat
  BY SizeType DEF TypeOK
<1>3. buf \in [0..(buf_size - 1) -> T]
  BY DEF TypeOK
<1>4. CASE c \in Printable /\ Char(c)
  <2>1. UNCHANGED params /\ AddChar(c)
    BY <1>4 DEF Char
  <2>2. at_buf' \in Seq(Printable) /\ Len(at_buf') < AtBufSize
    BY <1>4, ParseAssumption DEF Char, AtBufHasRoom, TypeOK
  <2>3. /\ buf' \in [0..(buf_size' - 1) -> T]
        /\ buf_i' \in Nat /\ top' \in Nat /\ InBounds'
    BY <2>1, AddCharSafe
  <2> QED
    BY <1>1, <1>4, <2>1, <2>2, <2>3 DEF Char, TypeOK, params
<1>5. CASE Stray(c)
  BY <1>1, <1>5 DEF Stray, TypeOK, InBounds, params
<1>6. CASE EndCode(c)
  <2>1. CASE TextOverflows
    BY <1>1, <1>6, <2>1 DEF EndCode, Return, TypeOK, InBounds, params, Results
  <2>2. CASE ~TextOverflows
    <3>1. /\ UNCHANGED <<params, line_n, buf_i, buf_li, at_buf>>
          /\ result' = StrCode(at_buf)
          /\ IF hasBuf THEN /\ buf' = Put(buf, TextEnd, "NUL")
                            /\ top' = MaxOf(top, TextEnd + 1)
                       ELSE UNCHANGED <<buf, top>>
      BY <1>6, <2>2 DEF EndCode
    <3>2. result' \in Results
      BY <3>1 DEF StrCode, Results
    <3>3. buf' \in [0..(buf_size - 1) -> T]
      <4>1. "NUL" \in T
        OBVIOUS
      <4>2. Put(buf, TextEnd, "NUL") \in [0..(buf_size - 1) -> T]
        BY <1>2, <1>3, <4>1, PutType
      <4> QED
        BY <1>3, <3>1, <4>2
    <3>4. top' \in Nat /\ InBounds'
      BY <1>2, <2>2, <3>1 DEF TextOverflows, TextEnd, MaxOf, InBounds, params
    <3> QED
      BY <1>1, <3>1, <3>2, <3>3, <3>4 DEF TypeOK, params
  <2> QED
    BY <2>1, <2>2
<1>7. CASE EndLast(c)
  BY <1>1, <1>7 DEF EndLast, Return, TypeOK, InBounds, params, Results
<1>8. CASE EndLine(c)
  <2>1. UNCHANGED params /\ AddChar("LF") /\ "LF" \in Bytes
    BY <1>8 DEF EndLine, Bytes, LineEnds
  <2>2. /\ buf' \in [0..(buf_size' - 1) -> T]
        /\ buf_i' \in Nat /\ top' \in Nat /\ InBounds'
    BY <2>1, AddCharSafe
  <2>3. /\ line_n' \in Nat /\ buf_li' \in Nat /\ result' \in Results
        /\ at_buf' \in Seq(Printable) /\ Len(at_buf') < AtBufSize
    BY <1>2, <1>8, ParseAssumption DEF EndLine, TypeOK
  <2> QED
    BY <1>1, <2>1, <2>2, <2>3 DEF TypeOK, params
<1> QED
  BY <1>4, <1>5, <1>6, <1>7, <1>8 DEF ReadByte

(* The parser writes inside the caller's buffer only.                      *)
THEOREM ParserInBounds == Spec => [](TypeOK /\ InBounds)
<1>1. Init => TypeOK /\ InBounds
  <2> SUFFICES ASSUME Init PROVE TypeOK /\ InBounds
    OBVIOUS
  <2>1. buf_size \in Nat
    BY ParseAssumption DEF Init
  <2>2. TypeOK
    BY ParseAssumption DEF Init, TypeOK, Results
  <2>3. InBounds
    BY <2>1 DEF Init, InBounds
  <2> QED
    BY <2>2, <2>3
<1>2. TypeOK /\ InBounds /\ [Next]_vars => (TypeOK /\ InBounds)'
  <2> SUFFICES ASSUME TypeOK, InBounds, [Next]_vars PROVE (TypeOK /\ InBounds)'
    OBVIOUS
  <2>1. CASE \E c \in Bytes : ReadByte(c)
    BY <2>1, ByteSafe
  <2>2. CASE Timeout
    BY <2>2 DEF Timeout, Return, TypeOK, InBounds, params, Results
  <2>3. CASE UNCHANGED vars
    BY <2>3 DEF vars, params, TypeOK, InBounds
  <2> QED
    BY <2>1, <2>2, <2>3 DEF Next
<1> QED
  BY <1>1, <1>2, PTL DEF Spec

(* The parser's locals keep their types.                                   *)
THEOREM TypeCorrect == Spec => []TypeOK
BY ParserInBounds, PTL

(* The 16-bit index and the 8-bit line number stay in their widths: the    *)
(* model's numbers are the code's.  (With lines = 0 the code counts lines, *)
(* modulo 256, but looks for a result code on each of them.)               *)
CountersFit ==
  /\ buf_i <= MaxUint16 /\ buf_li <= MaxUint16
  /\ lines > 0 => line_n <= MaxUint8

Counters ==
  /\ Len(seen) <= MaxBytes /\ buf_i <= Len(seen) /\ buf_li <= Len(seen)
  /\ lines > 0 => line_n <= lines

LEMMA CountersType ==
  TypeOK => /\ lines \in Nat /\ lines <= MaxUint8 - 1 /\ MaxBytes \in Nat
            /\ line_n \in Nat /\ buf_i \in Nat /\ buf_li \in Nat /\ Len(seen) \in Nat
<1> SUFFICES ASSUME TypeOK
             PROVE  /\ lines \in Nat /\ lines <= MaxUint8 - 1 /\ MaxBytes \in Nat
                    /\ line_n \in Nat /\ buf_i \in Nat /\ buf_li \in Nat
                    /\ Len(seen) \in Nat
  OBVIOUS
<1>1. seen \in Seq(Bytes) /\ lines \in 0..(MaxUint8 - 1) /\ MaxBytes \in Nat
  BY ParseAssumption DEF TypeOK
<1>2. Len(seen) \in Nat
  BY <1>1, LenProperties
<1> QED
  BY <1>1, <1>2, SizeType DEF TypeOK

(* at_uart_parse_resp: no answer that the assumption allows (at most 65535  *)
(* bytes, fewer than 255 lines expected) wraps buf_i, buf_li or line_n.    *)
THEOREM NoCounterWraps == Spec => []CountersFit
<1>1. Init => Counters
  <2> SUFFICES ASSUME Init PROVE Counters
    OBVIOUS
  <2>1. lines \in Nat /\ MaxBytes \in Nat /\ Len(<<>>) = 0
    BY ParseAssumption DEF Init
  <2> QED
    BY <2>1 DEF Init, Counters
<1>2. TypeOK /\ Counters /\ [Next]_vars => Counters'
  <2> SUFFICES ASSUME TypeOK, Counters, [Next]_vars PROVE Counters'
    OBVIOUS
  <2>1. ASSUME NEW c \in Bytes, ReadByte(c) PROVE Counters'
    <3>1. Len(seen') = Len(seen) + 1 /\ Len(seen) < MaxBytes
      <4>1. seen \in Seq(Bytes) /\ seen' = Append(seen, c) /\ Len(seen) < MaxBytes
        BY <2>1 DEF ReadByte, TypeOK
      <4> QED
        BY <4>1, AppendProperties
    <3>2. /\ lines' = lines /\ buf_i' \in {buf_i, buf_i + 1} /\ buf_li' \in {buf_li, buf_i}
          /\ line_n' = line_n \/ (line_n' = line_n + 1 /\ ~(lines > 0 /\ line_n + 1 > lines))
      BY <2>1 DEF ReadByte, Char, Stray, EndCode, EndLast, EndLine, AddChar, Return, params
    <3> QED
      BY <3>1, <3>2, CountersType DEF Counters
  <2>2. CASE Timeout \/ UNCHANGED vars
    BY <2>2 DEF Timeout, Return, vars, params, Counters
  <2> QED
    BY <2>1, <2>2 DEF Next
<1>3. TypeOK /\ Counters => CountersFit
  <2> SUFFICES ASSUME TypeOK, Counters PROVE CountersFit
    OBVIOUS
  <2>1. MaxUint16 \in Nat /\ MaxUint8 \in Nat /\ MaxBytes <= MaxUint16
    <3>1. MaxUint16 \in Nat /\ MaxUint8 \in Nat
      BY DEF MaxUint16, MaxUint8
    <3>2. MaxBytes \in 0..MaxUint16
      BY ParseAssumption
    <3> QED
      BY <3>1, <3>2
  <2>2. /\ lines \in Nat /\ lines <= MaxUint8 - 1 /\ MaxBytes \in Nat
        /\ line_n \in Nat /\ buf_i \in Nat /\ buf_li \in Nat /\ Len(seen) \in Nat
    BY CountersType
  <2>3. /\ Len(seen) <= MaxBytes /\ buf_i <= Len(seen) /\ buf_li <= Len(seen)
        /\ lines > 0 => line_n <= lines
    BY DEF Counters
  <2>4. buf_i <= MaxUint16 /\ buf_li <= MaxUint16
    BY <2>1, <2>2, <2>3
  <2>5. lines > 0 => line_n <= MaxUint8
    BY <2>1, <2>2, <2>3
  <2> QED
    BY <2>4, <2>5 DEF CountersFit
<1> QED
  BY <1>1, <1>2, <1>3, TypeCorrect, PTL DEF Spec

(***************************************************************************)
(* The answer.  The code counts lines, characters and the start of the     *)
(* current line as it goes; the reference speaks of positions in what was  *)
(* read.  Reading relates the two while the call runs.                     *)
(***************************************************************************)
Kept == Chars \cup Ends

(* The counters.                                                           *)
Counted ==
  /\ line_n = Cardinality(Ends) + 1 /\ (lines > 0 => line_n <= lines)
  /\ hasBuf => buf_i = Cardinality(Kept)

(* at_buf tells lines of none, one and more characters apart.              *)
LineKnown(i) ==
  \/ at_buf = <<>> /\ LineAt(i) = {}
  \/ \E p \in Chars : LineAt(i) = {p} /\ at_buf = <<seen[p]>>
  \/ Len(at_buf) > 1 /\ \E p, q \in LineAt(i) : p # q

(* buf_li is the place of the last line end.                               *)
LastEnd(j) == j \in Ends /\ \A k \in Ends : k <= j
LineEndKnown ==
  hasBuf => \/ Ends = {} /\ buf_li = 0
            \/ \E j \in Ends : LastEnd(j) /\ buf_li = Place(j)

(* What fits is in the buffer.                                             *)
Written ==
  hasBuf => \A p \in Kept : Place(p) < buf_size - 1 => buf[Place(p)] = Shown(p)

Reading ==
  result = "none" =>
    /\ \A i \in Ends : ~IsEnd(i)
    /\ Counted
    /\ LineKnown(Len(seen) + 1)
    /\ LineEndKnown
    /\ Written

Answered == EndsInTime /\ AnswerRight /\ OverflowRight

(***************************************************************************)
(* One byte more changes nothing of what was said before it.               *)
(***************************************************************************)
LEMMA Positions ==
  ASSUME TypeOK
  PROVE  /\ Len(seen) \in Nat /\ DOMAIN seen = 1..Len(seen)
         /\ Chars \subseteq 1..Len(seen) /\ Ends \subseteq 1..Len(seen) /\ Kept \subseteq 1..Len(seen)
         /\ Chars \cap Ends = {}
         /\ IsFiniteSet(Chars) /\ IsFiniteSet(Ends) /\ IsFiniteSet(Kept)
<1>1. Len(seen) \in Nat /\ DOMAIN seen = 1..Len(seen)
  BY DEF TypeOK
<1>2. Chars \subseteq 1..Len(seen) /\ Ends \subseteq 1..Len(seen) /\ Kept \subseteq 1..Len(seen)
  BY <1>1 DEF Chars, Ends, Kept
<1>3. IsFiniteSet(1..Len(seen))
  BY <1>1, FS_Interval
<1>4. Chars \cap Ends = {}
  BY DEF Chars, Ends, TypeOK, Printable, LineEnds
<1> QED
  BY <1>1, <1>2, <1>3, <1>4, FS_Subset

LEMMA Grown ==
  ASSUME TypeOK, NEW c \in Bytes, seen' = Append(seen, c), UNCHANGED params,
         NEW n, n = Len(seen)
  PROVE  /\ n \in Nat /\ Len(seen') = n + 1 /\ DOMAIN seen' = 1..(n + 1)
         /\ \A i \in 1..n : seen'[i] = seen[i]
         /\ seen'[n + 1] = c /\ eol' = eol /\ lines' = lines
BY DEF TypeOK, params

LEMMA GrownChars ==
  ASSUME TypeOK, NEW c \in Bytes, seen' = Append(seen, c), UNCHANGED params,
         NEW n, n = Len(seen)
  PROVE  Chars' = IF c \in Printable THEN Chars \cup {n + 1} ELSE Chars
<1>1. DOMAIN seen = 1..n
  BY Positions
<1>2. Chars' = {p \in 1..(n + 1) : seen'[p] \in Printable}
  BY Grown DEF Chars
<1>3. Chars = {p \in 1..n : seen[p] \in Printable}
  BY <1>1 DEF Chars
<1> QED
  BY <1>2, <1>3, Grown

LEMMA GrownLine ==
  ASSUME TypeOK, NEW c \in Bytes, seen' = Append(seen, c), UNCHANGED params,
         NEW n, n = Len(seen), NEW i \in 1..(n + 1)
  PROVE  LineAt(i)' = LineAt(i)
<1>1. n \in Nat /\ Chars \subseteq 1..n
  BY Positions, Grown
<1>2. \A p : p < i /\ p \in Chars' <=> p < i /\ p \in Chars
  BY <1>1, GrownChars
<1>3. ASSUME NEW p \in Chars, p < i
      PROVE  (\A j \in p..(i - 1) : seen'[j] # eol') <=> (\A j \in p..(i - 1) : seen[j] # eol)
  <2>1. p..(i - 1) \subseteq 1..n
    BY <1>1, <1>3
  <2> QED
    BY <2>1, Grown
<1>4. LineAt(i)' = {p \in Chars' : p < i /\ \A j \in p..(i - 1) : seen'[j] # eol'}
  BY DEF LineAt
<1> QED
  BY <1>2, <1>3, <1>4 DEF LineAt

LEMMA GrownEnds ==
  ASSUME TypeOK, NEW c \in Bytes, seen' = Append(seen, c), UNCHANGED params,
         NEW n, n = Len(seen)
  PROVE  Ends' = IF c = eol /\ LineAt(n + 1) # {} THEN Ends \cup {n + 1} ELSE Ends
<1>1. DOMAIN seen = 1..n /\ n \in Nat
  BY Positions
<1>2. Ends' = {i \in 1..(n + 1) : seen'[i] = eol /\ LineAt(i)' # {}}
  BY Grown DEF Ends
<1>3. Ends' = {i \in 1..(n + 1) : seen'[i] = eol /\ LineAt(i) # {}}
  BY <1>2, GrownLine
<1>4. Ends = {i \in 1..n : seen[i] = eol /\ LineAt(i) # {}}
  BY <1>1 DEF Ends
<1>5. 1..(n + 1) = 1..n \cup {n + 1}
  BY <1>1
<1> QED
  BY <1>3, <1>4, <1>5, Grown

(* What is said of an earlier line stays said.                             *)
LEMMA GrownCode ==
  ASSUME TypeOK, NEW c \in Bytes, seen' = Append(seen, c), UNCHANGED params,
         NEW n, n = Len(seen), NEW i \in 1..(n + 1)
  PROVE  CodeAt(i)' = CodeAt(i)
<1>1. n \in Nat /\ Chars \subseteq 1..n
  BY Positions, Grown
<1>2. LineAt(i)' = LineAt(i)
  BY GrownLine
<1>3. LineAt(i) \subseteq 1..n
  <2>1. LineAt(i) \subseteq Chars
    BY DEF LineAt
  <2> QED
    BY <1>1, <2>1
<1>4. ASSUME NEW d PROVE Says(i, d)' <=> Says(i, d)
  <2>1. Says(i, d)' <=> \E p \in Chars' : LineAt(i) = {p} /\ seen'[p] = d
    BY <1>2 DEF Says
  <2>2. \A p : LineAt(i) = {p} => p \in 1..n /\ (p \in Chars' <=> p \in Chars) /\ seen'[p] = seen[p]
    BY <1>1, <1>3, GrownChars, Grown
  <2> QED
    BY <2>1, <2>2 DEF Says
<1> QED
  BY <1>4 DEF CodeAt

LEMMA GrownEnd ==
  ASSUME TypeOK, NEW c \in Bytes, seen' = Append(seen, c), UNCHANGED params,
         NEW n, n = Len(seen), NEW i \in 1..n
  PROVE  /\ i \in Ends' <=> i \in Ends
         /\ IsCode(i)' <=> IsCode(i)
         /\ IsEnd(i)' <=> IsEnd(i)
<1>1. n \in Nat /\ i \in 1..(n + 1) /\ i < n + 1
  BY Grown
<1>2. \A j \in 1..n : j \in Ends' <=> j \in Ends
  BY <1>1, GrownEnds
<1>3. {j \in Ends' : j <= i} = {j \in Ends : j <= i}
  <2>1. Ends \subseteq 1..n
    BY Positions
  <2>2. Ends' = Ends \/ Ends' = Ends \cup {n + 1}
    BY GrownEnds
  <2>3. ~(n + 1 <= i)
    BY <1>1
  <2> QED
    BY <2>2, <2>3
<1>4. Nth(i)' = Nth(i)
  BY <1>3 DEF Nth
<1>5. IsCode(i)' <=> IsCode(i)
  BY <1>1, <1>4, GrownCode, Grown DEF IsCode
<1> QED
  BY <1>2, <1>4, <1>5, Grown DEF IsEnd

LEMMA GrownPlace ==
  ASSUME TypeOK, NEW c \in Bytes, seen' = Append(seen, c), UNCHANGED params,
         NEW n, n = Len(seen), NEW i \in 1..(n + 1)
  PROVE  Place(i)' = Place(i)
<1>1. n \in Nat /\ Kept \subseteq 1..n
  BY Positions, Grown
<1>2. Kept' = Kept \/ Kept' = Kept \cup {n + 1}
  BY GrownChars, GrownEnds DEF Kept
<1>3. {q \in Kept' : q < i} = {q \in Kept : q < i}
  BY <1>1, <1>2
<1> QED
  BY <1>3 DEF Place, Kept

LEMMA GrownShown ==
  ASSUME TypeOK, NEW c \in Bytes, seen' = Append(seen, c), UNCHANGED params,
         NEW n, n = Len(seen), NEW i \in 1..n
  PROVE  Shown(i)' = Shown(i)
BY GrownEnd, Grown DEF Shown

(* The place of the next position is the number of those kept.             *)
LEMMA NextPlace ==
  ASSUME TypeOK
  PROVE  /\ Cardinality(Kept) \in Nat /\ Place(Len(seen) + 1) = Cardinality(Kept)
         /\ \A p \in Kept : Place(p) \in Nat /\ Place(p) < Cardinality(Kept)
<1>1. Len(seen) \in Nat /\ Kept \subseteq 1..Len(seen) /\ IsFiniteSet(Kept)
  BY Positions
<1>2. {q \in Kept : q < Len(seen) + 1} = Kept
  <2>1. \A q \in 1..Len(seen) : q < Len(seen) + 1
    BY <1>1
  <2> QED
    BY <1>1, <2>1
<1>3. Cardinality(Kept) \in Nat
  BY <1>1, FS_CardinalityType
<1>4. ASSUME NEW p \in Kept PROVE Place(p) \in Nat /\ Place(p) < Cardinality(Kept)
  <2> DEFINE S == {q \in Kept : q < p}
  <2>1. S \subseteq Kept /\ p \in Kept /\ p \notin S
    BY <1>1
  <2>2. IsFiniteSet(S) /\ Cardinality(S) \in Nat
    BY <1>1, <2>1, FS_Subset, FS_CardinalityType
  <2>3. S # Kept
    BY <2>1
  <2>4. Cardinality(S) <= Cardinality(Kept) /\ Cardinality(S) # Cardinality(Kept)
    BY <1>1, <2>1, <2>3, FS_Subset
  <2> QED
    BY <1>3, <2>2, <2>4 DEF Place, Kept
<1> QED
  BY <1>2, <1>3, <1>4 DEF Place, Kept

(* A kept position more is one more in number.                             *)
LEMMA OneMore ==
  ASSUME NEW S, IsFiniteSet(S), NEW x, x \notin S
  PROVE  Cardinality(S \cup {x}) = Cardinality(S) + 1
BY FS_AddElement

LEMMA PlaceBefore ==
  ASSUME TypeOK, NEW p \in Kept, NEW j \in Nat, p < j
  PROVE  Place(p) \in Nat /\ Place(j) \in Nat /\ Place(p) < Place(j)
<1> DEFINE S(i) == {q \in Kept : q < i}
<1>1. IsFiniteSet(Kept) /\ Kept \subseteq 1..Len(seen) /\ Len(seen) \in Nat
  BY Positions
<1>2. p \in Nat
  BY <1>1
<1>3. S(p) \subseteq S(j) /\ p \in S(j) /\ p \notin S(p)
  <2>1. \A q \in 1..Len(seen) : q < p => q < j
    BY <1>1, <1>2
  <2>2. ~(p < p)
    BY <1>2
  <2> QED
    BY <1>1, <2>1, <2>2
<1>4. IsFiniteSet(S(p)) /\ IsFiniteSet(S(j)) /\ S(p) # S(j)
  BY <1>1, <1>3, FS_Subset
<1>5. /\ Cardinality(S(p)) \in Nat /\ Cardinality(S(j)) \in Nat
      /\ Cardinality(S(p)) <= Cardinality(S(j)) /\ Cardinality(S(p)) # Cardinality(S(j))
  BY <1>3, <1>4, FS_Subset, FS_CardinalityType
<1>6. Cardinality(S(p)) < Cardinality(S(j))
  BY <1>5
<1>7. Place(p) = Cardinality(S(p)) /\ Place(j) = Cardinality(S(j))
  BY DEF Place, Kept
<1> QED
  BY <1>5, <1>6, <1>7

(* What the parser thinks of the current line is what the line says.       *)
LEMMA LineSays ==
  ASSUME TypeOK, NEW i \in Nat, LineKnown(i)
  PROVE  /\ CodeAt(i) = StrCode(at_buf)
         /\ at_buf = <<>> <=> LineAt(i) = {}
<1>1. CASE at_buf = <<>> /\ LineAt(i) = {}
  BY <1>1 DEF CodeAt, Says, StrCode
<1>2. CASE \E p \in Chars : LineAt(i) = {p} /\ at_buf = <<seen[p]>>
  <2>1. PICK p \in Chars : LineAt(i) = {p} /\ at_buf = <<seen[p]>>
    BY <1>2
  <2>2. \A d : Says(i, d) <=> seen[p] = d
    BY <2>1 DEF Says
  <2>3. \A d : at_buf = <<d>> <=> seen[p] = d
    BY <2>1
  <2> QED
    BY <2>1, <2>2, <2>3 DEF CodeAt, StrCode
<1>3. CASE Len(at_buf) > 1 /\ \E p, q \in LineAt(i) : p # q
  <2>1. \A d : ~Says(i, d)
    BY <1>3 DEF Says
  <2>2. at_buf # <<>> /\ at_buf # <<"O">> /\ at_buf # <<"E">>
    <3>1. Len(<<>>) = 0 /\ Len(<<"O">>) = 1 /\ Len(<<"E">>) = 1
      OBVIOUS
    <3>2. Len(at_buf) > 1
      BY <1>3
    <3>3. Len(at_buf) \in Nat
      <4>1. at_buf \in Seq(Printable)
        BY DEF TypeOK
      <4> QED
        BY <4>1, LenProperties
    <3>4. Len(at_buf) # 0 /\ Len(at_buf) # 1
      <4>1. \A k \in Nat : k > 1 => k # 0 /\ k # 1
        OBVIOUS
      <4> QED
        BY <3>2, <3>3, <4>1, Zenon
    <3> QED
      BY <3>1, <3>4, Zenon
  <2> QED
    BY <1>3, <2>1, <2>2 DEF CodeAt, StrCode
<1> QED
  BY <1>1, <1>2, <1>3 DEF LineKnown

(* A line that ends now is a result code, or the end of the answer, if and *)
(* only if the code takes it for one.                                      *)
LEMMA EndSays ==
  ASSUME TypeOK, NEW c \in Bytes, seen' = Append(seen, c), UNCHANGED params,
         NEW n, n = Len(seen), Counted, LineKnown(n + 1), c = eol, at_buf # <<>>
  PROVE  /\ Ends' = Ends \cup {n + 1} /\ Chars' = Chars
         /\ n + 1 \notin Ends /\ n + 1 \notin Kept
         /\ CodeAt(n + 1)' = StrCode(at_buf)
         /\ IsCode(n + 1)' <=> CodeLine /\ StrCode(at_buf) # "UNK"
         /\ IsEnd(n + 1)' <=> IsCode(n + 1)' \/ (lines > 0 /\ line_n = lines)
<1>1. n \in Nat /\ n + 1 \in Nat /\ n + 1 \in 1..(n + 1) /\ ~(n + 1 \in 1..n)
  BY Grown
<1>2. Ends' = Ends \cup {n + 1}
  BY <1>1, LineSays, GrownEnds
<1>3. Chars' = Chars
  BY GrownChars DEF TypeOK, LineEnds, Printable
<1>4. Ends \subseteq 1..n /\ Kept \subseteq 1..n /\ IsFiniteSet(Ends)
  BY Positions
<1>5. n + 1 \notin Ends /\ n + 1 \notin Kept
  BY <1>1, <1>4
<1>6. CodeAt(n + 1)' = StrCode(at_buf)
  BY <1>1, LineSays, GrownCode
<1>7. {j \in Ends' : j <= n + 1} = Ends \cup {n + 1}
  <2>1. \A j \in 1..n : j <= n + 1
    BY <1>1
  <2>2. n + 1 <= n + 1
    BY <1>1
  <2> QED
    BY <1>2, <1>4, <2>1, <2>2
<1>8. Nth(n + 1)' = line_n
  <2>1. Cardinality(Ends \cup {n + 1}) = line_n
    BY <1>4, <1>5, OneMore DEF Counted
  <2> QED
    BY <1>7, <2>1 DEF Nth
<1>9. lines' = lines /\ lines \in Nat /\ line_n \in Nat
  BY Grown, SizeType
<1>10. IsCode(n + 1)' <=> CodeLine /\ StrCode(at_buf) # "UNK"
  BY <1>6, <1>8, <1>9 DEF IsCode, CodeLine
<1>11. IsEnd(n + 1)' <=> IsCode(n + 1)' \/ (lines > 0 /\ line_n = lines)
  BY <1>8, <1>9 DEF IsEnd
<1> QED
  BY <1>2, <1>3, <1>5, <1>6, <1>10, <1>11

(* What a character more does to the buffer.                               *)
LEMMA AddCharReads ==
  ASSUME TypeOK, NEW c \in Bytes, seen' = Append(seen, c), UNCHANGED params,
         NEW n, n = Len(seen), hasBuf => buf_i = Cardinality(Kept), Written,
         NEW d, AddChar(d), Kept' = Kept \cup {n + 1}, Shown(n + 1)' = d
  PROVE  Written' /\ (hasBuf' => buf_i' = Cardinality(Kept'))
<1>1. n \in Nat /\ Kept \subseteq 1..n /\ IsFiniteSet(Kept)
  BY Positions
<1>2. hasBuf' = hasBuf /\ buf_size' = buf_size /\ buf_size \in Nat
  BY SizeType DEF params
<1> SUFFICES ASSUME hasBuf PROVE Written' /\ buf_i' = Cardinality(Kept')
  BY <1>2 DEF Written
<1>3. buf_i' = Cardinality(Kept')
  <2>1. Cardinality(Kept \cup {n + 1}) = Cardinality(Kept) + 1
    BY <1>1, OneMore
  <2> QED
    BY <2>1 DEF AddChar
<1>4. \A p \in Kept : Place(p)' = Place(p) /\ Shown(p)' = Shown(p) /\ Place(p) \in Nat /\ Place(p) < buf_i
  <2>1. \A p \in 1..n : Shown(p)' = Shown(p)
    BY GrownShown
  <2>2. \A p \in 1..(n + 1) : Place(p)' = Place(p)
    BY GrownPlace
  <2>3. \A p \in 1..n : p \in 1..(n + 1)
    BY <1>1
  <2> QED
    BY <1>1, <2>1, <2>2, <2>3, NextPlace
<1>5. Place(n + 1)' = buf_i /\ buf_i \in Nat
  <2>1. n + 1 \in 1..(n + 1)
    BY <1>1
  <2> QED
    BY <2>1, GrownPlace, NextPlace
<1>6. ASSUME NEW p \in Kept', Place(p)' < buf_size' - 1 PROVE buf'[Place(p)'] = Shown(p)'
  <2>1. CASE Fits
    <3>1. buf' = Put(Put(buf, buf_i, d), buf_i + 1, "NUL")
      BY <2>1 DEF AddChar
    <3>2. DOMAIN buf = 0..(buf_size - 1)
      BY DEF TypeOK
    <3>3. \A k \in 0..(buf_size - 1) :
            buf'[k] = IF k = buf_i + 1 THEN "NUL" ELSE IF k = buf_i THEN d ELSE buf[k]
      BY <3>1, <3>2 DEF Put
    <3>4. CASE p \in Kept
      <4>1. Place(p) \in 0..(buf_size - 1) /\ Place(p) # buf_i /\ Place(p) # buf_i + 1 /\ Place(p) < buf_size - 1
        BY <1>2, <1>4, <1>5, <1>6, <3>4
      <4>2. buf'[Place(p)] = buf[Place(p)]
        BY <3>3, <4>1
      <4> QED
        BY <1>4, <3>4, <4>1, <4>2 DEF Written
    <3>5. CASE p = n + 1
      <4>1. buf_i \in 0..(buf_size - 1) /\ buf_i # buf_i + 1
        BY <1>2, <1>5, <2>1 DEF Fits
      <4> QED
        BY <1>5, <3>3, <3>5, <4>1
    <3> QED
      BY <3>4, <3>5
  <2>2. CASE ~Fits
    <3>1. buf' = buf
      BY <2>2 DEF AddChar
    <3>2. p # n + 1
      BY <1>2, <1>5, <1>6, <2>2 DEF Fits
    <3> QED
      BY <1>2, <1>4, <1>6, <3>1, <3>2 DEF Written
  <2> QED
    BY <2>1, <2>2
<1> QED
  BY <1>3, <1>6 DEF Written

(* The last line end stays the last as long as no line ends.               *)
LEMMA LineEndKept ==
  ASSUME TypeOK, NEW c \in Bytes, seen' = Append(seen, c), UNCHANGED params,
         NEW n, n = Len(seen), LineEndKnown, Ends' = Ends, buf_li' = buf_li
  PROVE  LineEndKnown'
<1>1. \A j \in Ends : Place(j)' = Place(j)
  <2>1. n \in Nat /\ Ends \subseteq 1..n
    BY Positions
  <2>2. Ends \subseteq 1..(n + 1)
    BY <2>1
  <2> QED
    BY <2>2, GrownPlace
<1>2. hasBuf' = hasBuf
  BY DEF params
<1>3. \A j : LastEnd(j)' <=> LastEnd(j)
  BY DEF LastEnd
<1>4. \A j : LastEnd(j) => j \in Ends
  BY DEF LastEnd
<1> QED
  BY <1>1, <1>2, <1>3, <1>4 DEF LineEndKnown

LEMMA NoEndKept ==
  ASSUME TypeOK, NEW c \in Bytes, seen' = Append(seen, c), UNCHANGED params,
         \A i \in Ends : ~IsEnd(i)
  PROVE  \A i \in Ends : ~IsEnd(i)'
<1>1. Ends \subseteq 1..Len(seen)
  BY Positions
<1> QED
  BY <1>1, GrownEnd

(* A printable character.                                                  *)
LEMMA CharReading ==
  ASSUME TypeOK, Reading, result = "none", NEW c \in Printable, seen' = Append(seen, c), Char(c),
         NEW n, n = Len(seen)
  PROVE  Reading' /\ result' = "none"
<1>0. UNCHANGED params /\ c \in Bytes /\ n \in Nat /\ Len(seen') = n + 1
  <2>1. UNCHANGED params /\ c \in Bytes
    BY DEF Char, Bytes
  <2> QED
    BY <2>1, Grown
<1>1. Ends' = Ends /\ Chars' = Chars \cup {n + 1} /\ Kept' = Kept \cup {n + 1}
  <2>1. c # eol
    BY DEF TypeOK, Printable, LineEnds
  <2> QED
    BY <1>0, <2>1, GrownEnds, GrownChars DEF Kept
<1>2. \A i \in Ends' : ~IsEnd(i)'
  BY <1>0, <1>1, NoEndKept DEF Reading
<1>3. Shown(n + 1)' = c
  <2>1. n + 1 \notin Ends'
    <3>1. Ends \subseteq 1..n
      BY Positions
    <3> QED
      BY <1>0, <1>1, <3>1
  <2>2. seen'[n + 1] = c
    BY <1>0, Grown
  <2> QED
    BY <2>1, <2>2 DEF Shown
<1>4. Written' /\ (hasBuf' => buf_i' = Cardinality(Kept'))
  BY <1>0, <1>1, <1>3, AddCharReads DEF Char, Reading, Counted
<1>5. Counted'
  BY <1>0, <1>1, <1>4 DEF Counted, Reading, Char, params
<1>6. LineEndKnown'
  BY <1>0, <1>1, LineEndKept DEF Char, Reading
<1>7. LineAt(n + 2)' = LineAt(n + 1) \cup {n + 1}
  <2>1. LineAt(n + 2)' = {p \in Chars \cup {n + 1} : p < n + 2 /\ \A j \in p..(n + 1) : seen'[j] # eol}
    <3>1. (n + 2) - 1 = n + 1
      BY <1>0
    <3> QED
      BY <1>0, <1>1, <3>1, Grown DEF LineAt
  <2>2. LineAt(n + 1) = {p \in Chars : p < n + 1 /\ \A j \in p..n : seen[j] # eol}
    <3>1. (n + 1) - 1 = n
      BY <1>0
    <3> QED
      BY <3>1 DEF LineAt
  <2>3. Chars \subseteq 1..n
    BY Positions
  <2>4. seen'[n + 1] # eol
    BY <1>0, Grown DEF TypeOK, Printable, LineEnds
  <2>5. ASSUME NEW p \in 1..n
        PROVE  /\ p < n + 2 /\ p < n + 1
               /\ (\A j \in p..(n + 1) : seen'[j] # eol) <=> (\A j \in p..n : seen[j] # eol)
    <3>1. p..(n + 1) = p..n \cup {n + 1} /\ p..n \subseteq 1..n
      BY <1>0
    <3>2. \A j \in 1..n : seen'[j] = seen[j]
      BY <1>0, Grown
    <3> QED
      BY <1>0, <2>4, <3>1, <3>2
  <2>6. n + 1 < n + 2 /\ \A j \in (n + 1)..(n + 1) : seen'[j] # eol
    <3>1. (n + 1)..(n + 1) = {n + 1}
      BY <1>0
    <3> QED
      BY <1>0, <2>4, <3>1
  <2> QED
    BY <2>1, <2>2, <2>3, <2>5, <2>6
<1>8. LineKnown(n + 2)'
  <2>1. /\ at_buf \in Seq(Printable) /\ LineAt(n + 1) \subseteq 1..n
        /\ at_buf' = IF AtBufHasRoom THEN Append(at_buf, c) ELSE at_buf
    <3>1. LineAt(n + 1) \subseteq Chars /\ Chars \subseteq 1..n
      BY Positions DEF LineAt
    <3> QED
      BY <3>1 DEF Char, TypeOK
  <2>2. n + 1 \in Chars' /\ seen'[n + 1] = c
    BY <1>0, <1>1, Grown
  <2>3. CASE at_buf = <<>> /\ LineAt(n + 1) = {}
    <3>1. AtBufHasRoom
      BY <2>3, ParseAssumption DEF AtBufHasRoom
    <3>2. at_buf' = <<c>> /\ LineAt(n + 2)' = {n + 1}
      BY <1>7, <2>1, <2>3, <3>1
    <3> QED
      BY <2>2, <3>2 DEF LineKnown
  <2>4. CASE \E p \in Chars : LineAt(n + 1) = {p} /\ at_buf = <<seen[p]>>
    <3>1. PICK p \in Chars : LineAt(n + 1) = {p} /\ at_buf = <<seen[p]>>
      BY <2>4
    <3>2. AtBufHasRoom /\ Len(at_buf) = 1
      BY <3>1, ParseAssumption DEF AtBufHasRoom
    <3>3. Len(at_buf') > 1
      BY <2>1, <3>2
    <3>4. p # n + 1
      BY <1>0, <2>1, <3>1
    <3> QED
      BY <1>7, <3>1, <3>3, <3>4 DEF LineKnown
  <2>5. CASE Len(at_buf) > 1 /\ \E p, q \in LineAt(n + 1) : p # q
    <3>1. Len(at_buf') > 1
      BY <2>1, <2>5
    <3> QED
      BY <1>7, <2>5, <3>1 DEF LineKnown
  <2> QED
    BY <2>3, <2>4, <2>5 DEF Reading, LineKnown
<1>9. Len(seen') + 1 = n + 2
  BY <1>0
<1> QED
  BY <1>2, <1>4, <1>5, <1>6, <1>8, <1>9 DEF Reading, Char

(* A line end that ends no line.                                           *)
LEMMA StrayReading ==
  ASSUME TypeOK, Reading, result = "none", NEW c \in LineEnds, seen' = Append(seen, c), Stray(c),
         NEW n, n = Len(seen)
  PROVE  Reading' /\ result' = "none"
<1>0. /\ UNCHANGED params /\ c \in Bytes /\ n \in Nat /\ Len(seen') = n + 1
      /\ UNCHANGED <<line_n, buf_i, buf_li, at_buf, buf, top, result>>
  <2>1. UNCHANGED params /\ c \in Bytes /\ UNCHANGED <<line_n, buf_i, buf_li, at_buf, buf, top, result>>
    BY DEF Stray, Bytes
  <2> QED
    BY <2>1, Grown
<1>1. LineKnown(n + 1) /\ (at_buf = <<>> <=> LineAt(n + 1) = {})
  BY <1>0, LineSays DEF Reading
<1>2. Ends' = Ends /\ Chars' = Chars /\ Kept' = Kept
  <2>1. c \notin Printable
    BY DEF Printable, LineEnds
  <2> QED
    BY <1>0, <1>1, <2>1, GrownEnds, GrownChars DEF Kept, Stray
<1>3. \A i \in Ends' : ~IsEnd(i)'
  BY <1>0, <1>2, NoEndKept DEF Reading
<1>4. Counted'
  BY <1>0, <1>2 DEF Counted, Reading, params
<1>5. LineEndKnown'
  BY <1>0, <1>2, LineEndKept DEF Reading
<1>6. Written'
  <2>1. \A p \in Kept : Place(p)' = Place(p) /\ Shown(p)' = Shown(p)
    <3>1. Kept \subseteq 1..n /\ Kept \subseteq 1..(n + 1)
      <4>1. Kept \subseteq 1..n
        BY Positions
      <4> QED
        BY <1>0, <4>1
    <3> QED
      BY <1>0, <3>1, GrownPlace, GrownShown
  <2>2. hasBuf' = hasBuf /\ buf_size' = buf_size /\ buf' = buf
    BY <1>0 DEF params
  <2> QED
    BY <1>2, <2>1, <2>2 DEF Written, Reading
<1>7. LineKnown(n + 2)'
  <2>1. LineAt(n + 2)' = {p \in Chars : p < n + 2 /\ \A j \in p..(n + 1) : seen'[j] # eol}
    <3>1. (n + 2) - 1 = n + 1
      BY <1>0
    <3> QED
      BY <1>0, <1>2, <3>1, Grown DEF LineAt
  <2>2. LineAt(n + 1) = {p \in Chars : p < n + 1 /\ \A j \in p..n : seen[j] # eol}
    <3>1. (n + 1) - 1 = n
      BY <1>0
    <3> QED
      BY <3>1 DEF LineAt
  <2>3. Chars \subseteq 1..n
    BY Positions
  <2>4. \A p \in 1..n : /\ p < n + 2 /\ p < n + 1
                        /\ p..(n + 1) = p..n \cup {n + 1} /\ p..n \subseteq 1..n
    BY <1>0
  <2>5. (\A j \in 1..n : seen'[j] = seen[j]) /\ seen'[n + 1] = c
    BY <1>0, Grown
  <2>6. \A p \in Chars : seen'[p] = seen[p]
    BY <2>3, <2>5
  <2>7. CASE c # eol
    <3>1. ASSUME NEW p \in 1..n
          PROVE  (\A j \in p..(n + 1) : seen'[j] # eol) <=> (\A j \in p..n : seen[j] # eol)
      <4>1. p..(n + 1) = p..n \cup {n + 1} /\ p..n \subseteq 1..n
        BY <2>4
      <4>2. \A j \in p..n : seen'[j] = seen[j]
        BY <2>5, <4>1
      <4> QED
        BY <2>5, <2>7, <4>1, <4>2
    <3>2. LineAt(n + 2)' = LineAt(n + 1)
      BY <2>1, <2>2, <2>3, <2>4, <3>1
    <3> QED
      BY <1>0, <1>1, <1>2, <2>6, <3>2 DEF LineKnown
  <2>8. CASE c = eol
    <3>1. LineAt(n + 2)' = {}
      BY <2>1, <2>3, <2>4, <2>5, <2>8
    <3>2. at_buf' = <<>>
      BY <1>0, <2>8 DEF Stray
    <3> QED
      BY <3>1, <3>2 DEF LineKnown
  <2> QED
    BY <2>7, <2>8
<1>8. Len(seen') + 1 = n + 2
  BY <1>0
<1> QED
  BY <1>0, <1>3, <1>4, <1>5, <1>6, <1>7, <1>8 DEF Reading

(* A line ends and the next one is read.                                   *)
LEMMA LineReading ==
  ASSUME TypeOK, Reading, result = "none", NEW c \in LineEnds, seen' = Append(seen, c), EndLine(c),
         NEW n, n = Len(seen)
  PROVE  Reading' /\ result' = "none"
<1>0. /\ UNCHANGED params /\ c \in Bytes /\ n \in Nat /\ Len(seen') = n + 1
      /\ c = eol /\ at_buf # <<>> /\ UNCHANGED result
  <2>1. UNCHANGED params /\ c \in Bytes /\ c = eol /\ at_buf # <<>> /\ UNCHANGED result
    BY DEF EndLine, Bytes
  <2> QED
    BY <2>1, Grown
<1>1. /\ Ends' = Ends \cup {n + 1} /\ Chars' = Chars
      /\ n + 1 \notin Ends /\ n + 1 \notin Kept
      /\ IsCode(n + 1)' <=> CodeLine /\ StrCode(at_buf) # "UNK"
      /\ IsEnd(n + 1)' <=> IsCode(n + 1)' \/ (lines > 0 /\ line_n = lines)
  BY <1>0, EndSays DEF Reading
<1>2. Kept' = Kept \cup {n + 1}
  BY <1>1 DEF Kept
<1>3. lines \in Nat /\ line_n \in Nat /\ lines' = lines /\ line_n' = line_n + 1
      /\ ~(lines > 0 /\ line_n + 1 > lines)
  BY <1>0, SizeType DEF EndLine, params
<1>4. \A i \in Ends' : ~IsEnd(i)'
  <2>1. ~IsEnd(n + 1)'
    <3>1. ~(lines > 0 /\ line_n = lines)
      BY <1>3
    <3> QED
      BY <1>1, <3>1 DEF EndLine
  <2>2. \A i \in Ends : ~IsEnd(i)'
    BY <1>0, NoEndKept DEF Reading
  <2> QED
    BY <1>1, <2>1, <2>2
<1>5. Shown(n + 1)' = "LF"
  BY <1>1 DEF Shown
<1>6. Written' /\ (hasBuf' => buf_i' = Cardinality(Kept'))
  BY <1>0, <1>2, <1>5, AddCharReads DEF EndLine, Reading, Counted
<1>7. Counted'
  <2>1. Cardinality(Ends') = Cardinality(Ends) + 1
    BY <1>1, Positions, OneMore
  <2>2. line_n = Cardinality(Ends) + 1
    BY DEF Reading, Counted
  <2>3. lines' > 0 => line_n' <= lines'
    BY <1>3
  <2> QED
    BY <1>3, <1>6, <2>1, <2>2, <2>3 DEF Counted
<1>8. LineEndKnown'
  <2>1. n + 1 \in 1..(n + 1) /\ n + 1 \in Nat
    BY <1>0
  <2>2. Place(n + 1)' = Cardinality(Kept)
    BY <1>0, <2>1, GrownPlace, NextPlace
  <2>3. hasBuf => buf_li' = Cardinality(Kept)
    BY DEF EndLine, Reading, Counted
  <2>4. LastEnd(n + 1)'
    <3>1. \A k \in 1..n : k <= n + 1
      BY <1>0
    <3>2. Ends \subseteq 1..n
      BY Positions
    <3>3. n + 1 <= n + 1
      BY <1>0
    <3> QED
      BY <1>1, <3>1, <3>2, <3>3 DEF LastEnd
  <2>5. hasBuf' = hasBuf /\ n + 1 \in Ends'
    BY <1>0, <1>1 DEF params
  <2> QED
    BY <2>2, <2>3, <2>4, <2>5 DEF LineEndKnown
<1>9. LineKnown(n + 2)'
  <2>1. LineAt(n + 2)' = {p \in Chars : p < n + 2 /\ \A j \in p..(n + 1) : seen'[j] # eol}
    <3>1. (n + 2) - 1 = n + 1
      BY <1>0
    <3> QED
      BY <1>0, <1>1, <3>1, Grown DEF LineAt
  <2>2. Chars \subseteq 1..n
    BY Positions
  <2>3. \A p \in 1..n : n + 1 \in p..(n + 1)
    BY <1>0
  <2>4. seen'[n + 1] = eol
    BY <1>0, Grown
  <2>5. LineAt(n + 2)' = {}
    BY <2>1, <2>2, <2>3, <2>4
  <2> QED
    BY <2>5 DEF LineKnown, EndLine
<1>10. Len(seen') + 1 = n + 2
  BY <1>0
<1> QED
  BY <1>0, <1>4, <1>6, <1>7, <1>8, <1>9, <1>10 DEF Reading

(* While it reads, nothing has been answered.                              *)
LEMMA ReadingAnswered ==
  ASSUME Reading', result' = "none"
  PROVE  Answered'
BY DEF Reading, Answered, EndsInTime, AnswerRight, OverflowRight

(* A result code ends the answer.  What precedes the last line end is the  *)
(* text: buf_li counts it, and the '\0' goes after it.                     *)
LEMMA CodeAnswered ==
  ASSUME TypeOK, Reading, result = "none", NEW c \in LineEnds, seen' = Append(seen, c), EndCode(c),
         NEW n, n = Len(seen)
  PROVE  Answered'
<1>0. /\ UNCHANGED params /\ c \in Bytes /\ n \in Nat /\ Len(seen') = n + 1
      /\ c = eol /\ at_buf # <<>> /\ CodeLine /\ StrCode(at_buf) # "UNK" /\ UNCHANGED <<buf_i, buf_li>>
  <2>1. /\ UNCHANGED params /\ c \in Bytes /\ c = eol /\ at_buf # <<>>
        /\ CodeLine /\ StrCode(at_buf) # "UNK" /\ UNCHANGED <<buf_i, buf_li>>
    BY DEF EndCode, Return, Bytes
  <2> QED
    BY <2>1, Grown
<1>1. /\ Ends' = Ends \cup {n + 1} /\ Chars' = Chars
      /\ n + 1 \notin Ends /\ n + 1 \notin Kept
      /\ CodeAt(n + 1)' = StrCode(at_buf) /\ IsCode(n + 1)' /\ IsEnd(n + 1)'
  BY <1>0, EndSays DEF Reading
<1>2. Kept' = Kept \cup {n + 1}
  BY <1>1 DEF Kept
<1>3. hasBuf' = hasBuf /\ buf_size' = buf_size /\ buf_size \in Nat /\ buf_li \in Nat
  BY <1>0, SizeType DEF params, TypeOK
<1>4. result' # "none" /\ result' \in {"OK", "ERR", "OVERFLOW"}
  BY <1>0 DEF EndCode, Return, StrCode
<1>5. EndsInTime'
  <2>1. \A i \in Ends' : IsEnd(i)' => i = n + 1
    BY <1>0, <1>1, NoEndKept DEF Reading
  <2> QED
    BY <1>0, <1>1, <1>4, <2>1 DEF EndsInTime
(* The text.                                                               *)
<1>6. ASSUME hasBuf
      PROVE  /\ Cardinality(TextAt(n + 1)') = buf_li
             /\ \A p \in TextAt(n + 1)' : p \in Kept /\ Place(p) \in Nat /\ Place(p) < buf_li
  <2>1. TextAt(n + 1)' = {p \in Kept \cup {n + 1} : \E j \in Ends \cup {n + 1} : p < j /\ j < n + 1}
    BY <1>1, <1>2 DEF TextAt, Kept
  <2>2. Kept \subseteq 1..n /\ Ends \subseteq 1..n
    BY Positions
  <2>3. \A j \in 1..n : j \in Nat /\ j < n + 1 /\ ~(n + 1 < j)
    BY <1>0
  <2>4. ~(n + 1 < n + 1)
    BY <1>0
  <2>5. TextAt(n + 1)' = {p \in Kept : \E j \in Ends : p < j}
    BY <2>1, <2>2, <2>3, <2>4
  <2>6. CASE Ends = {} /\ buf_li = 0
    <3>1. TextAt(n + 1)' = {}
      BY <2>5, <2>6
    <3> QED
      BY <2>6, <3>1, FS_EmptySet
  <2>7. CASE \E j \in Ends : LastEnd(j) /\ buf_li = Place(j)
    <3>1. PICK j \in Ends : LastEnd(j) /\ buf_li = Place(j)
      BY <2>7
    <3>2. \A p \in 1..n : (\E k \in Ends : p < k) <=> p < j
      <4>1. \A k \in Ends : k \in 1..n /\ k <= j
        BY <2>2, <3>1 DEF LastEnd
      <4> QED
        BY <3>1, <4>1
    <3>3. TextAt(n + 1)' = {p \in Kept : p < j}
      BY <2>2, <2>5, <3>2
    <3>4. Cardinality(TextAt(n + 1)') = buf_li
      BY <3>1, <3>3 DEF Place, Kept
    <3>5. \A p \in Kept : p < j => Place(p) \in Nat /\ Place(p) < Place(j)
      BY <2>2, <2>3, <3>1, PlaceBefore
    <3> QED
      BY <3>1, <3>3, <3>4, <3>5
  <2> QED
    BY <1>6, <2>6, <2>7 DEF Reading, LineEndKnown
<1>7. CASE TextOverflows
  <2>1. hasBuf /\ buf_li >= buf_size /\ result' = "OVERFLOW"
    BY <1>0, <1>7 DEF TextOverflows, TextEnd, EndCode, Return
  <2>2. OverflowRight'
    BY <1>0, <1>3, <1>6, <2>1 DEF OverflowRight
  <2>3. AnswerRight'
    BY <2>1 DEF AnswerRight
  <2> QED
    BY <1>5, <2>2, <2>3 DEF Answered
<1>8. CASE ~TextOverflows
  <2>1. /\ hasBuf => buf_li < buf_size /\ buf' = Put(buf, buf_li, "NUL")
        /\ result' = StrCode(at_buf)
    BY <1>3, <1>8 DEF TextOverflows, TextEnd, EndCode
  <2>2. ASSUME hasBuf PROVE Holds(TextAt(n + 1))'
    <3>1. \A k \in 0..(buf_size - 1) : buf'[k] = IF k = buf_li THEN "NUL" ELSE buf[k]
      <4>1. DOMAIN buf = 0..(buf_size - 1)
        BY DEF TypeOK
      <4> QED
        BY <2>1, <2>2, <4>1 DEF Put
    <3>2. ASSUME NEW p \in TextAt(n + 1)' PROVE buf'[Place(p)'] = Shown(p)'
      <4>1. p \in Kept /\ Place(p) \in Nat /\ Place(p) < buf_li
        BY <1>6, <2>2
      <4>2. Place(p)' = Place(p) /\ Shown(p)' = Shown(p)
        <5>1. Kept \subseteq 1..n /\ 1..n \subseteq 1..(n + 1)
          BY <1>0, Positions
        <5> QED
          BY <1>0, <4>1, <5>1, GrownPlace, GrownShown
      <4>3. /\ Place(p) \in 0..(buf_size - 1) /\ Place(p) # buf_li
            /\ Place(p) < buf_size - 1
        BY <1>3, <2>1, <2>2, <4>1
      <4>4. buf[Place(p)] = Shown(p)
        BY <2>2, <4>1, <4>3 DEF Reading, Written
      <4> QED
        BY <3>1, <4>2, <4>3, <4>4
    <3>3. buf'[buf_li] = "NUL"
      <4>1. buf_li \in 0..(buf_size - 1)
        BY <1>3, <2>1, <2>2
      <4> QED
        BY <3>1, <4>1
    <3> QED
      BY <1>3, <1>6, <2>1, <2>2, <3>2, <3>3 DEF Holds
  <2>3. AnswerRight'
    BY <1>0, <1>1, <1>3, <2>1, <2>2 DEF AnswerRight
  <2>4. OverflowRight'
    <3>1. result' # "OVERFLOW"
      BY <2>1 DEF StrCode
    <3> QED
      BY <1>0, <1>3, <1>6, <2>1, <3>1 DEF OverflowRight
  <2> QED
    BY <1>5, <2>3, <2>4 DEF Answered
<1> QED
  BY <1>7, <1>8

(* The last line expected is no result code: everything kept is text.      *)
LEMMA LastAnswered ==
  ASSUME TypeOK, Reading, result = "none", NEW c \in LineEnds, seen' = Append(seen, c), EndLast(c),
         NEW n, n = Len(seen)
  PROVE  Answered'
<1>0. /\ UNCHANGED params /\ c \in Bytes /\ n \in Nat /\ Len(seen') = n + 1
      /\ c = eol /\ at_buf # <<>> /\ ~(CodeLine /\ StrCode(at_buf) # "UNK")
      /\ result' = IF hasBuf /\ buf_i > buf_size THEN "OVERFLOW" ELSE "UNK"
  <2>1. /\ UNCHANGED params /\ c \in Bytes
        /\ c = eol /\ at_buf # <<>> /\ ~(CodeLine /\ StrCode(at_buf) # "UNK")
        /\ result' = IF hasBuf /\ buf_i > buf_size THEN "OVERFLOW" ELSE "UNK"
    BY DEF EndLast, Return, Bytes
  <2> QED
    BY <2>1, Grown
<1>1. /\ Ends' = Ends \cup {n + 1} /\ Chars' = Chars
      /\ n + 1 \notin Ends /\ n + 1 \notin Kept
      /\ ~IsCode(n + 1)'
      /\ IsEnd(n + 1)' <=> IsCode(n + 1)' \/ (lines > 0 /\ line_n = lines)
  BY <1>0, EndSays DEF Reading
<1>2. lines > 0 /\ line_n = lines
  BY SizeType DEF EndLast, Reading, Counted
<1>3. EndsInTime'
  <2>1. \A i \in Ends' : IsEnd(i)' => i = n + 1
    BY <1>0, <1>1, NoEndKept DEF Reading
  <2> QED
    BY <1>0, <1>1, <1>2, <2>1 DEF EndsInTime
<1>4. TextAt(n + 1)' = Kept
  <2>1. TextAt(n + 1)' = {p \in Kept \cup {n + 1} : p < n + 1}
    BY <1>1 DEF TextAt, Kept
  <2>2. Kept \subseteq 1..n /\ (\A p \in 1..n : p < n + 1) /\ ~(n + 1 < n + 1)
    BY <1>0, Positions
  <2> QED
    BY <2>1, <2>2
<1>5. OverflowRight'
  <2>1. hasBuf => buf_i = Cardinality(Kept)
    BY DEF Reading, Counted
  <2>2. hasBuf' = hasBuf /\ buf_size' = buf_size /\ buf_size \in Nat /\ buf_i \in Nat
    BY <1>0, SizeType DEF params, TypeOK
  <2> QED
    BY <1>0, <1>4, <2>1, <2>2 DEF OverflowRight
<1>6. AnswerRight'
  BY <1>0 DEF AnswerRight
<1> QED
  BY <1>3, <1>5, <1>6 DEF Answered

(***************************************************************************)
(* The theorem.                                                            *)
(***************************************************************************)
PInv == TypeOK /\ Reading /\ Answered

LEMMA InitAnswered == Init => Reading /\ Answered
<1> SUFFICES ASSUME Init PROVE Reading /\ Answered
  OBVIOUS
<1>1. seen = <<>> /\ result = "none" /\ DOMAIN seen = {} /\ Len(seen) = 0
  BY DEF Init
<1>2. Chars = {} /\ Ends = {} /\ Kept = {}
  BY <1>1 DEF Chars, Ends, Kept
<1>3. Cardinality({}) = 0
  BY FS_EmptySet
<1>4. LineAt(1) = {}
  BY <1>2 DEF LineAt
<1>5. lines \in Nat /\ line_n = 1 /\ buf_i = 0 /\ buf_li = 0 /\ at_buf = <<>>
  BY ParseAssumption DEF Init
<1>6. Counted
  BY <1>2, <1>3, <1>5 DEF Counted
<1>7. LineKnown(Len(seen) + 1)
  BY <1>1, <1>4, <1>5 DEF LineKnown
<1>8. Reading
  BY <1>2, <1>5, <1>6, <1>7 DEF Reading, LineEndKnown, Written
<1> QED
  BY <1>1, <1>2, <1>8 DEF Answered, EndsInTime, AnswerRight, OverflowRight

LEMMA StepAnswered == PInv /\ TypeOK' /\ [Next]_vars => PInv'
<1> SUFFICES ASSUME TypeOK, Reading, Answered, TypeOK', [Next]_vars PROVE Reading' /\ Answered'
  BY DEF PInv
<1>1. ASSUME NEW c \in Bytes, ReadByte(c) PROVE Reading' /\ Answered'
  <2>0. result = "none" /\ seen' = Append(seen, c)
    BY <1>1 DEF ReadByte
  <2>1. CASE c \in Printable /\ Char(c)
    BY <2>0, <2>1, CharReading, ReadingAnswered
  <2>2. CASE c \in LineEnds /\ Stray(c)
    BY <2>0, <2>2, StrayReading, ReadingAnswered
  <2>3. CASE c \in LineEnds /\ EndLine(c)
    BY <2>0, <2>3, LineReading, ReadingAnswered
  <2>4. CASE c \in LineEnds /\ EndCode(c)
    <3>1. result' # "none"
      BY <2>4 DEF EndCode, Return, StrCode
    <3> QED
      BY <2>0, <2>4, <3>1, CodeAnswered DEF Reading
  <2>5. CASE c \in LineEnds /\ EndLast(c)
    <3>1. result' # "none"
      BY <2>5 DEF EndLast, Return
    <3> QED
      BY <2>0, <2>5, <3>1, LastAnswered DEF Reading
  <2> QED
    BY <1>1, <2>1, <2>2, <2>3, <2>4, <2>5 DEF ReadByte
<1>2. CASE Timeout
  <2>1. result = "none" /\ result' = "TIMEOUT" /\ seen' = seen /\ UNCHANGED params
    BY <1>2 DEF Timeout, Return
  <2>2. Ends' = Ends /\ \A i : IsEnd(i)' <=> IsEnd(i)
    BY <2>1 DEF Ends, IsEnd, IsCode, Nth, CodeAt, Says, LineAt, Chars, params
  <2>3. EndsInTime'
    BY <2>1, <2>2 DEF EndsInTime, Reading
  <2> QED
    BY <2>1, <2>3 DEF Reading, Answered, AnswerRight, OverflowRight
<1>3. CASE UNCHANGED vars
  <2>1. Ends' = Ends /\ Chars' = Chars /\ \A i : LineAt(i)' = LineAt(i)
    BY <1>3 DEF vars, params, Ends, Chars, LineAt
  <2>2. \A i : (IsEnd(i)' <=> IsEnd(i)) /\ (IsCode(i)' <=> IsCode(i)) /\ CodeAt(i)' = CodeAt(i)
    BY <1>3, <2>1 DEF IsEnd, IsCode, Nth, CodeAt, Says, vars, params
  <2>3. \A p : Place(p)' = Place(p) /\ Shown(p)' = Shown(p)
    BY <1>3, <2>1 DEF Place, Shown, vars
  <2>4. \A i : TextAt(i)' = TextAt(i)
    BY <2>1, <2>2 DEF TextAt
  <2>5. Reading'
    BY <1>3, <2>1, <2>2, <2>3
       DEF Reading, Counted, LineKnown, LineEndKnown, LastEnd, Written, Kept, vars, params
  <2>6. Answered'
    BY <1>3, <2>1, <2>2, <2>3, <2>4
       DEF Answered, EndsInTime, AnswerRight, OverflowRight, Holds, vars, params
  <2> QED
    BY <2>5, <2>6
<1> QED
  BY <1>1, <1>2, <1>3 DEF Next

LEMMA ParserAnswers == Spec => []PInv
<1>1. Init /\ TypeOK => PInv
  BY InitAnswered DEF PInv
<1> QED
  BY <1>1, StepAnswered, TypeCorrect, PTL DEF Spec

(* The parser stops at the line that ends the answer, neither before nor   *)
(* after it, whatever line ends and characters come.                       *)
THEOREM EndsAtTheEnd == Spec => []EndsInTime
<1>1. PInv => EndsInTime
  BY DEF PInv, Answered
<1> QED
  BY <1>1, ParserAnswers, PTL

(* A result code that is returned is the one on the line, and the buffer   *)
(* then holds the text of all lines before it, for every buffer size.      *)
THEOREM AnswerIsRight == Spec => []AnswerRight
<1>1. PInv => AnswerRight
  BY DEF PInv, Answered
<1> QED
  BY <1>1, ParserAnswers, PTL

(* An overflow is told of texts that do not fit, and of all of them that   *)
(* end in a result code.                                                   *)
THEOREM OverflowIsRight == Spec => []OverflowRight
<1>1. PInv => OverflowRight
  BY DEF PInv, Answered
<1> QED
  BY <1>1, ParserAnswers, PTL
=============================================================================
