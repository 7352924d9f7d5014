------------------------------ MODULE AtParse ------------------------------
(***************************************************************************)
(* The parser of the modem's answers, at_uart_parse_resp                   *)
(* (lib/at_uart/at_uart.c): one call, one action for each byte it reads.   *)
(* Any byte of a text may arrive at any time, or none until the call times *)
(* out, so the model contains every answer, event, stray line end and      *)
(* truncated line of at most MaxBytes bytes.  A NUL byte, which no answer  *)
(* of the modem has and which the code counts in at_buf_i but not in the   *)
(* text, does not arrive.                                                  *)
(*                                                                         *)
(* A result code is one character: "O" is the string at_uart_get_str_code  *)
(* takes for OK ("OK", or "0" when not verbose), "E" the one for ERROR,    *)
(* and "x" is any other printable character.                               *)
(***************************************************************************)
EXTENDS Integers, Sequences, FiniteSets

CONSTANTS
  BufSizes,     \* values of buf_size
  Lines,        \* values of lines
  AtBufSize,    \* AT_MIN_BUFF_SIZE: a result code fits, with one more character
  MaxBytes      \* bound: bytes that arrive during the call

(* The counters do not wrap: buf_i (16 bits) counts bytes, and line_n (8   *)
(* bits) passes lines by one at most, or plays no part when lines is 0.    *)
MaxUint16 == 65535
MaxUint8 == 255

ASSUME ParseAssumption ==
  /\ BufSizes \subseteq 0..MaxUint16
  /\ Lines \subseteq 0..(MaxUint8 - 1)
  /\ AtBufSize \in Nat /\ AtBufSize > 2
  /\ MaxBytes \in 0..MaxUint16

VARIABLES
  eol,        \* at_uart->eol
  hasBuf,     \* buf # NULL
  buf_size,
  lines,
  line_n,     \* current line number
  buf_i,      \* buffer current index
  buf_li,     \* buffer last line end index
  at_buf,     \* the start of the current line
  buf,        \* the caller's buffer ("?": not written)
  top,        \* history: the elements of buf up to here may have been written
  seen,       \* history: the bytes read
  result      \* "none" until the call returns

params == <<eol, hasBuf, buf_size, lines>>
vars == <<params, line_n, buf_i, buf_li, at_buf, buf, top, seen, result>>

Printable == {"O", "E", "x"}
LineEnds == {"CR", "LF"}
Bytes == Printable \cup LineEnds
Results == {"none", "OK", "ERR", "UNK", "OVERFLOW", "TIMEOUT"}

MaxOf(a, b) == IF a >= b THEN a ELSE b

(***************************************************************************)
(* The code.                                                               *)
(***************************************************************************)
(* at_uart_get_str_code                                                    *)
StrCode(s) == CASE s = <<"O">> -> "OK"
                [] s = <<"E">> -> "ERR"
                [] OTHER -> "UNK"

(* Mutant: the code is looked for in the last of the expected lines only.  *)
CodeLine_LastOnly == lines = 0 \/ line_n = lines

(* The current line may be a result code.                                  *)
CodeLine == lines = 0 \/ line_n = lines \/ line_n = 1

(* Mutant: one element too many.                                           *)
Fits_OffByOne == buf_i <= buf_size - 1

(* There is room for a character and the '\0' after it.                    *)
Fits == buf_i < buf_size - 1

(* buf[ i ] = c                                                            *)
Put(b, i, c) == [b EXCEPT ![i] = c]

(* The character goes to the buffer, if any, or is only counted.           *)
AddChar(c) ==
  /\ IF hasBuf /\ Fits
     THEN /\ buf' = Put(Put(buf, buf_i, c), buf_i + 1, "NUL")
          /\ top' = MaxOf(top, buf_i + 2)
     ELSE UNCHANGED <<buf, top>>
  /\ buf_i' = IF hasBuf THEN buf_i + 1 ELSE buf_i

Return(r) ==
  /\ result' = r
  /\ UNCHANGED <<params, line_n, buf_i, buf_li, at_buf, buf, top>>

(* Mutant: no room is left for the '\0'.                                   *)
AtBufHasRoom_OffByOne == Len(at_buf) < AtBufSize

AtBufHasRoom == Len(at_buf) < AtBufSize - 1

(* A printable character.                                                  *)
Char(c) ==
  /\ AddChar(c)
  /\ at_buf' = IF AtBufHasRoom THEN Append(at_buf, c) ELSE at_buf
  /\ UNCHANGED <<params, line_n, buf_li, result>>

(* A line end that ends no line: the other half of \r\n, or an empty line. *)
Stray(c) ==
  /\ c # eol \/ at_buf = <<>>
  /\ UNCHANGED <<params, line_n, buf_i, buf_li, at_buf, buf, top, result>>

(* Mutant: the separator after the last line is part of the text.          *)
TextEnd_Late == buf_i

(* Where the text of the lines before the result code ends.                *)
TextEnd == buf_li

(* Mutant: the '\0' needs no room.                                         *)
TextOverflows_OffByOne == hasBuf /\ TextEnd > buf_size

TextOverflows == hasBuf /\ TextEnd >= buf_size

(* A line ends, and it is a result code.                                   *)
EndCode(c) ==
  /\ c = eol /\ at_buf # <<>>
  /\ CodeLine /\ StrCode(at_buf) # "UNK"
  /\ IF TextOverflows
     THEN Return("OVERFLOW")
     ELSE /\ result' = StrCode(at_buf)
          /\ IF hasBuf THEN /\ buf' = Put(buf, TextEnd, "NUL")
                            /\ top' = MaxOf(top, TextEnd + 1)
                       ELSE UNCHANGED <<buf, top>>
          /\ UNCHANGED <<params, line_n, buf_i, buf_li, at_buf>>

(* A line ends, it is no result code and the last one expected.            *)
EndLast(c) ==
  /\ c = eol /\ at_buf # <<>>
  /\ ~(CodeLine /\ StrCode(at_buf) # "UNK")
  /\ lines > 0 /\ line_n + 1 > lines
  /\ Return(IF hasBuf /\ buf_i > buf_size THEN "OVERFLOW" ELSE "UNK")

(* A line ends and the next one is read.                                   *)
EndLine(c) ==
  /\ c = eol /\ at_buf # <<>>
  /\ ~(CodeLine /\ StrCode(at_buf) # "UNK")
  /\ ~(lines > 0 /\ line_n + 1 > lines)
  /\ line_n' = line_n + 1
  /\ buf_li' = buf_i
  /\ at_buf' = <<>>
  /\ AddChar("LF")
  /\ UNCHANGED <<params, result>>

(* zuart_read of one byte succeeded.                                       *)
ReadByte(c) ==
  /\ result = "none"
  /\ Len(seen) < MaxBytes
  /\ seen' = Append(seen, c)
  /\ \/ c \in Printable /\ Char(c)
     \/ c \in LineEnds /\ (Stray(c) \/ EndCode(c) \/ EndLast(c) \/ EndLine(c))

(* zuart_read timed out.                                                   *)
Timeout ==
  /\ result = "none"
  /\ Return("TIMEOUT")
  /\ UNCHANGED seen

(* The call.  eol is '\n' when verbose, else '\r' (at_uart_setup).         *)
Init ==
  /\ eol \in LineEnds
  /\ hasBuf \in BOOLEAN /\ buf_size \in BufSizes
  /\ lines \in Lines
  /\ line_n = 1 /\ buf_i = 0 /\ buf_li = 0 /\ at_buf = <<>>
  /\ buf = [i \in 0..(buf_size - 1) |-> "?"]
  /\ top = 0 /\ seen = <<>> /\ result = "none"

Next == (\E c \in Bytes : ReadByte(c)) \/ Timeout

Spec == Init /\ [][Next]_vars

(***************************************************************************)
(* The reference: what the bytes read say, by their positions in seen.     *)
(***************************************************************************)
Chars == {p \in DOMAIN seen : seen[p] \in Printable}

(* The characters of the line that an eol at i would end.                  *)
LineAt(i) == {p \in Chars : p < i /\ \A j \in p..(i - 1) : seen[j] # eol}

(* The ends of lines.  An eol that ends no character is stray.             *)
Ends == {i \in DOMAIN seen : seen[i] = eol /\ LineAt(i) # {}}

(* The number of the line that ends at i.                                  *)
Nth(i) == Cardinality({j \in Ends : j <= i})

(* The result code that this line says.                                    *)
Says(i, c) == \E p \in Chars : LineAt(i) = {p} /\ seen[p] = c
CodeAt(i) == CASE Says(i, "O") -> "OK"
               [] Says(i, "E") -> "ERR"
               [] OTHER -> "UNK"

(* This line ends the answer: as a result code, or as the last line.       *)
IsCode(i) == (lines = 0 \/ Nth(i) \in {1, lines}) /\ CodeAt(i) # "UNK"
IsEnd(i) == IsCode(i) \/ (lines > 0 /\ Nth(i) = lines)

(* The text of an answer that ends at i is what its lines say, without the *)
(* result code, and with a '\n' for each end of a line before the last.    *)
TextAt(i) ==
  {p \in Chars \cup Ends : IF IsCode(i) THEN \E j \in Ends : p < j /\ j < i ELSE p < i}
Shown(p) == IF p \in Ends THEN "LF" ELSE seen[p]
Place(p) == Cardinality({q \in Chars \cup Ends : q < p})

(* The buffer holds the text that consists of these positions.             *)
Holds(text) ==
  /\ Cardinality(text) < buf_size
  /\ \A p \in text : buf[Place(p)] = Shown(p)
  /\ buf[Cardinality(text)] = "NUL"

(***************************************************************************)
(* Properties.                                                             *)
(***************************************************************************)
(* Every variable has its type.                                            *)
TypeOK ==
  /\ eol \in LineEnds /\ hasBuf \in BOOLEAN
  /\ buf_size \in BufSizes /\ lines \in Lines
  /\ line_n \in Nat /\ buf_i \in Nat /\ buf_li \in Nat
  /\ at_buf \in Seq(Printable) /\ Len(at_buf) < AtBufSize
  /\ buf \in [0..(buf_size - 1) -> Bytes \cup {"NUL", "?"}]
  /\ top \in Nat /\ seen \in Seq(Bytes)
  /\ result \in Results

(* The parser never writes past the end of the caller's buffer (nor        *)
(* anything without one), whatever arrives and for a buffer of size 0 too. *)
InBounds == top <= (IF hasBuf THEN buf_size ELSE 0)

(* The answer ends at the first line that is a result code in a place for  *)
(* one, or at the last line expected, and not later: what follows is left  *)
(* to the next call.                                                       *)
EndsInTime ==
  /\ \A i \in Ends : IsEnd(i) => i = Len(seen) /\ result # "none"
  /\ result \in {"OK", "ERR", "UNK", "OVERFLOW"} =>
       Len(seen) \in Ends /\ IsEnd(Len(seen))

(* OK and ERR are told only for that result code, and the buffer then      *)
(* holds the complete text of the lines before it.                         *)
AnswerRight ==
  result \in {"OK", "ERR"} =>
    /\ IsCode(Len(seen)) /\ CodeAt(Len(seen)) = result
    /\ hasBuf => Holds(TextAt(Len(seen)))

(* An overflow is told only of a text that does not fit with its '\0', and *)
(* instead of a result code whenever it does not.                          *)
OverflowRight ==
  LET size == Cardinality(TextAt(Len(seen)))
  IN /\ result = "OVERFLOW" => hasBuf /\ size >= buf_size
     /\ result \in {"OK", "ERR"} /\ hasBuf => size < buf_size

(* tests/isbd/src/test_isbd.c:148-149, "this should trigger overflow error *)
(* because there is not enough space to write trailing \0": a text that is *)
(* returned without a result code is complete, too.                        *)
TextComplete == result = "UNK" /\ hasBuf => Holds(TextAt(Len(seen)))
=============================================================================
