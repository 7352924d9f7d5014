------------------------------ MODULE IsuLink ------------------------------
(***************************************************************************)
(* The commands of lib/iridium/isu.c over the serial line: one thread (the *)
(* service thread of isbd.c) that writes a command, reads the lines of its *)
(* answer with a timeout each (at_uart.c, evt.c), and returns.             *)
(*                                                                         *)
(* The modem is not part of the repository.  It answers late or in time,   *)
(* executes, refuses or ignores a command, and puts event lines anywhere   *)
(* on the line, between those of an answer too.  What is on the line is a  *)
(* sequence of lines; AtParse models how bytes become lines.               *)
(***************************************************************************)
EXTENDS Integers, Sequences

CONSTANTS
  Modes,       \* configurations, and modems (Mode)
  Calls,       \* the calls the thread makes
  MaxCalls     \* bound: calls made

(* "get" stands for isu_get_imei and isu_get_rtc, "rev" for                *)
(* isu_get_revision, "query" for the functions that scan the text they get *)
(* (isu_get_sig_q, isu_get_mt_alert, isu_net_reg, isu_get_ring_sts).       *)
AllCalls == {"setMo", "setTxt", "clear", "sbdix", "moToMt", "get", "rev", "query",
             "getMt", "mtTxt", "mtAlert", "evtReport", "evt"}

(* config.verbose and config.echo; the modem may answer after a timeout;   *)
(* events may come between the lines of an answer; the text of a message   *)
(* may be "OK", "ERROR" or empty; bound: how many events, those that a     *)
(* command asks for not counted.                                           *)
Mode == [verbose : BOOLEAN, echo : BOOLEAN, late : BOOLEAN, inside : BOOLEAN,
         codes : BOOLEAN, urcs : Nat]

ASSUME LinkAssumption ==
  /\ Modes \subseteq Mode
  /\ Calls \subseteq AllCalls
  /\ MaxCalls \in Nat

VARIABLES
  mode,       \* the configuration and the modem: they do not change
  wire,       \* the line and the reception buffer: lines not yet read
  pc,         \* the stage of the call
  call,       \* the call
  n,          \* its number
  text,       \* the line that is the caller's text
  code,       \* "code" of isu_set_mo and isu_clear_buffer
  events,     \* "events" of isu_set_evt_report
  svca,       \* the service availability as the events told it
  res,        \* what the call returned, "none" before
  mst,        \* modem: "idle", "exec" or "data" (waits for a message)
  cmds,       \* modem: commands received, the executed one first
  out,        \* modem: lines it has still to send
  mo,         \* modem: the call whose message is in the MO buffer, or 0
  sent,       \* modem: the call whose message the last session or transfer took
  msvca,      \* modem: service availability
  urcs,       \* modem: number of events so far
  clean,      \* history: the modem had nothing left to do at n's drain (CutEvent)
  did,        \* history: the modem executed command n
  used,       \* history: the calls whose answers were read since the drain
  lost,       \* history: an event was purged, or read as part of an answer
  prev        \* history: n if call n was a good isu_set_mo or isu_set_mo_txt, else 0

dte   == <<pc, call, n, text, code, events, svca, res>>
modem == <<mst, cmds, out, mo, sent, msvca, urcs>>
vars  == <<mode, wire, dte, modem, clean, did, used, lost, prev>>

(***************************************************************************)
(* Lines.                                                                  *)
(***************************************************************************)
(* "n" is the call a line answers, 0 for an event.                         *)
Line(k, v, i) == [k |-> k, v |-> v, n |-> i]
Digit(v, i) == Line("DIGIT", v, i)
NoLine == Line("NONE", 0, 0)

(* Result codes are words in verbose mode, digits otherwise.               *)
Ok(i)  == IF mode.verbose THEN Line("OK", 0, i) ELSE Digit(0, i)
Err(i) == IF mode.verbose THEN Line("ERROR", 0, i) ELSE Digit(4, i)

(* An SVCA event, and a ring alert.                                        *)
Svca(b) == Line("SVCA", b, 0)
Ring == IF mode.verbose THEN Line("RING", 0, 0) ELSE Digit(126, 0)
IsEvent(l) == l.k \in {"SVCA", "SIGQ"} \/ l = Ring
Answers(ls) == {ls[i].n : i \in 1..Len(ls)} \ {0}
HasEvent(ls) == \E i \in 1..Len(ls) : IsEvent(ls[i])

(* What is left of an event line without its beginning: some text, or the  *)
(* number at its end (of 126, two figures).                                *)
Rests(l) == {Line("REST", 0, 0)} \cup (IF l.k = "RING" THEN {} ELSE {Digit(l.v % 100, 0)})

(* at_uart_get_str_code                                                    *)
StrCode(l) == CASE l.k \in {"OK", "ERROR"} -> l.k
                [] l.k = "DIGIT" /\ ~mode.verbose /\ l.v = 0 -> "OK"
                [] l.k = "DIGIT" /\ ~mode.verbose /\ l.v = 4 -> "ERROR"
                [] OTHER -> "UNK"

(***************************************************************************)
(* The modem.                                                              *)
(***************************************************************************)
(* A command, when it is complete, is executed after those before it.      *)
(* While another one is executed it may also be ignored; while the modem   *)
(* waits for a message its bytes are taken for the message, which may      *)
(* complete it, with a checksum that does not agree.                       *)
Receive(c) ==
  \/ /\ mst # "data"
     /\ cmds' = Append(cmds, [call |-> c, n |-> n])
     /\ UNCHANGED <<mst, out>>
  \/ mst = "exec" /\ UNCHANGED <<mst, cmds, out>>
  \/ mst = "data" /\ UNCHANGED <<mst, cmds, out>>
  \/ /\ mst = "data"
     /\ mst' = "exec"
     /\ out' = <<Digit(2, Head(cmds).n), Ok(Head(cmds).n)>>
     /\ UNCHANGED cmds

(* The answers to a command that is executed.  The message of AT+SBDRT is  *)
(* a line; with numeric result codes it is not separated from the code.    *)
Answer(c, i) ==
  CASE c = "setMo" -> <<Line("READY", 0, i)>>
    [] c = "clear" -> <<Digit(0, i), Ok(i)>>
    [] c = "sbdix" -> <<Line("SBDIX", 0, i), Ok(i)>>
    [] c \in {"get", "query", "moToMt"} -> <<Line("TEXT", 0, i), Ok(i)>>
    [] c = "rev" -> <<Line("TEXT", 0, i), Line("TEXT", 0, i), Ok(i)>>
    [] c = "getMt" -> <<Line("BIN", 0, i), Ok(i)>>
    [] c = "mtTxt" /\ mode.verbose -> <<Line("HEAD", 0, i), Line("TEXT", 0, i), Ok(i)>>
    [] c = "mtTxt" /\ ~mode.verbose -> <<Line("HEAD", 0, i), Line("TEXT0", 0, i)>>
    [] c \in {"mtAlert", "setTxt"} -> <<Ok(i)>>
    [] c = "evtReport" -> <<Ok(i), Svca(msvca), Line("SIGQ", 0, 0)>>

(* The text of a message is a line that the parser takes for a result      *)
(* code, or no line at all.                                                *)
CodeTexts(c, i) ==
  IF c = "mtTxt" /\ mode.verbose /\ mode.codes
  THEN {<<Line("HEAD", 0, i), Ok(i), Ok(i)>>, <<Line("HEAD", 0, i), Err(i), Ok(i)>>,
        <<Line("HEAD", 0, i), Ok(i)>>}
  ELSE {}

(* A refusal with a code of the command and the result code OK.            *)
Refusals(c, i) ==
  CASE c \in {"setMo", "clear"} -> {<<Digit(3, i), Ok(i)>>}
    [] c = "query" -> {<<Line("TEXT", 3, i), Ok(i)>>}
    [] OTHER -> {}

Execute ==
  /\ mst = "idle" /\ cmds # <<>>
  /\ LET c == Head(cmds).call
         i == Head(cmds).n
     IN \/ /\ out' \in {Answer(c, i)} \cup CodeTexts(c, i)
           /\ mo' = IF c = "clear" THEN 0 ELSE IF c = "setTxt" THEN i ELSE mo
           /\ sent' = IF c \in {"sbdix", "moToMt"} THEN mo ELSE sent
           /\ did' = (did \/ (i = n /\ c # "setMo"))
        \/ /\ out' \in {<<Err(i)>>} \cup Refusals(c, i)
           /\ UNCHANGED <<mo, sent, did>>
  /\ mst' = "exec"
  /\ UNCHANGED <<wire, dte, cmds, msvca, urcs, clean, used, lost, prev>>

(* A line arrives (an SVCA event with the availability of that moment);    *)
(* after the last one the command is over, or the modem waits for the      *)
(* message.                                                                *)
Emit ==
  /\ out # <<>>
  /\ wire' = Append(wire, IF Head(out).k = "SVCA" THEN Svca(msvca) ELSE Head(out))
  /\ out' = Tail(out)
  /\ IF Tail(out) # <<>>
     THEN UNCHANGED <<mst, cmds>>
     ELSE IF Head(out).k = "READY"
          THEN mst' = "data" /\ UNCHANGED cmds
          ELSE mst' = "idle" /\ cmds' = Tail(cmds)
  /\ UNCHANGED <<dte, mo, sent, msvca, urcs, clean, did, used, lost, prev>>

(* No message within the 60 seconds of the modem: long after the thread,   *)
(* whose reads wait a second at most, has or has not seen READY.           *)
DataTimeout ==
  /\ mst = "data"
  /\ ~(n = Head(cmds).n /\ pc \in {"echo", "code", "data"})
  /\ mst' = "exec"
  /\ out' = <<Digit(1, Head(cmds).n), Ok(Head(cmds).n)>>
  /\ UNCHANGED <<wire, dte, cmds, mo, sent, msvca, urcs, clean, did, used, lost, prev>>

(* The availability changes, or a message waits.                           *)
Event(l) ==
  /\ urcs < mode.urcs
  /\ urcs' = urcs + 1
  /\ \/ l = Svca(1 - msvca) /\ msvca' = 1 - msvca
     \/ l = Ring /\ UNCHANGED msvca

(* An event: anywhere, or never from the command to the end of its answer. *)
Urc ==
  /\ mode.inside \/ (cmds = <<>> /\ pc \in {"idle", "drain", "event"})
  /\ \E l \in {Svca(1 - msvca), Ring} : Event(l) /\ wire' = Append(wire, l)
  /\ UNCHANGED <<dte, mst, cmds, out, mo, sent, clean, did, used, lost, prev>>

(***************************************************************************)
(* Writing a command (at_uart_write_cmd, isu_dte_send_tiny_cmd).           *)
(***************************************************************************)
(* The first stage of reading the answer.                                  *)
FirstStage ==
  CASE call \in {"setMo", "clear"} -> "code"
    [] call \in {"sbdix", "get", "query", "moToMt", "setTxt"} -> "line1"
    [] call = "rev" -> "lines"
    [] call = "getMt" -> "bin"
    [] call = "mtTxt" -> "head"
    [] call \in {"mtAlert", "evtReport"} -> "last"

(* Mutant: one event too many is waited for.                               *)
Events_OffByOne(c) == IF c = "evt" THEN 1 ELSE 3

(* isu_set_evt_report asks for both indicators (isbd.c, its only caller)   *)
(* and waits for two events, isu_dte_evt_wait for one.                     *)
Events(c) == IF c = "evt" THEN 1 ELSE 2

Call ==
  /\ pc = "idle"
  /\ n < MaxCalls
  /\ call' \in Calls
  /\ n' = n + 1
  /\ pc' = IF call' = "evt" THEN "event" ELSE "drain"
  /\ text' = NoLine /\ code' = -1 /\ events' = Events(call') /\ res' = "none"
  /\ clean' = FALSE /\ did' = FALSE /\ used' = {}
  /\ prev' = IF call \in {"setMo", "setTxt"} /\ res = "OK" /\ clean THEN n ELSE 0
  /\ UNCHANGED <<wire, svca, modem, lost>>

(* Mutant: the reception buffer is not drained.                            *)
Drained_Not == wire

(* zuart_drain: what has arrived is thrown away.                           *)
Drained == <<>>

(* Only the first bytes of an event may be there: its rest comes after.    *)
(* With numeric result codes that can be "0", which reads as OK.           *)
CutEvent ==
  /\ mode.inside
  /\ \E l \in {Svca(1 - msvca), Ring} :
       Event(l) /\ \E rest \in Rests(l) : wire' = Append(Drained, rest)
  /\ lost' = TRUE
  /\ clean' = (mode.verbose /\ mst = "idle" /\ cmds = <<>>)

DrainWire ==
  /\ pc = "drain"
  /\ \/ /\ wire' = Drained
        /\ lost' = (lost \/ HasEvent(wire))
        /\ clean' = (mst = "idle" /\ cmds = <<>>)
        /\ UNCHANGED <<msvca, urcs>>
     \/ CutEvent
  /\ pc' = "write"
  /\ UNCHANGED <<call, n, text, code, events, svca, res, mst, cmds, out, mo, sent, did, used,
                 prev>>

Return(r) == pc' = "idle" /\ res' = r

(* The command is written; the modem echoes it unless it waits for data.   *)
(* When the write times out the call ends: what was written is a command   *)
(* without an end, for which the modem may refuse the next one.            *)
WriteCmd ==
  /\ pc = "write"
  /\ \/ /\ Receive(call)
        /\ wire' = IF mode.echo /\ mst # "data" THEN Append(wire, Line("ECHO", 0, n)) ELSE wire
        /\ pc' = IF mode.echo THEN "echo" ELSE FirstStage
        /\ UNCHANGED res
     \/ Return("AT") /\ UNCHANGED <<wire, mst, cmds, out>>
  /\ UNCHANGED <<call, n, text, code, events, svca, mo, sent, msvca, urcs,
                 clean, did, used, lost, prev>>

(***************************************************************************)
(* Reading the answer.                                                     *)
(***************************************************************************)
Reading == {"echo", "code", "code2", "line1", "line2", "lines", "head", "text", "bin",
            "last", "event"}

(* Mutant: reads have no timeout.                                          *)
NothingComes_Never == FALSE

(* A read times out: nothing is there.  A modem that is not late has then  *)
(* nothing left to say.                                                    *)
NothingComes ==
  /\ wire = <<>>
  /\ mode.late \/ (out = <<>> /\ (cmds = <<>> \/ mst = "data"))

(* The head of the line is read.                                           *)
Read == wire # <<>> /\ wire' = Tail(wire)
L == Head(wire)
AsAnswer ==
  /\ used' = used \cup Answers(<<L>>)
  /\ lost' = (lost \/ IsEvent(L))

(* No line end comes before the echo, and none before the rest of a line.  *)
Unopened(l) == l.k \in {"ECHO", "REST"} \/ (l.k = "DIGIT" /\ l.n = 0)

(* at_uart_check_echo skips what there is up to the first '\r': the echo,  *)
(* a line in front of it, the rest of one, or only the line end before it. *)
CheckEcho ==
  /\ pc = "echo"
  /\ \/ Read /\ (Unopened(L) \/ ~mode.verbose) /\ AsAnswer
     \/ wire # <<>> /\ ~Unopened(L) /\ UNCHANGED <<wire, used, lost>>
  /\ pc' = FirstStage
  /\ UNCHANGED <<call, n, text, code, events, svca, res, modem, clean, did, prev>>

(* Results that are not looked at: isu_set_mo goes on whatever             *)
(* at_uart_get_resp_code returned, isu_get_mt_txt whatever came of the     *)
(* first line, and with verbose result codes of the text too.              *)
Ignored ==
  \/ call = "setMo" /\ pc \in {"code", "code2"}
  \/ call = "mtTxt" /\ (pc = "head" \/ (pc = "text" /\ mode.verbose))

(* Any other stage ends the call with ISU_DTE_ERR_AT.                      *)
ReadTimeout ==
  /\ pc \in Reading
  /\ NothingComes
  /\ IF Ignored
     THEN pc' = (IF pc = "head" THEN "text" ELSE "last") /\ UNCHANGED res
     ELSE Return("AT")
  /\ UNCHANGED <<wire, call, n, text, code, events, svca, modem, clean, did, used, lost, prev>>

(* Mutant: any answer of the modem ends the wait for READY.                *)
IsReady_Any(l) == StrCode(l) = "UNK"

(* at_err == AT_UART_UNK && streq( str_code, CODE_READY_STR )              *)
IsReady(l) == l.k = "READY"

(* Lines that may be longer than the buffers of isu.c and evt.c are.       *)
LongKinds == {"TEXT", "TEXT0", "SBDIX", "BIN", "ECHO", "REST"}

(* Whether a line l, or the lines up to it, may be too long for the buffer *)
(* (AT_UART_OVERFLOW): one that the caller gave may be too small for any   *)
(* (its size is not modelled), isu_set_mo_txt has none, the others take    *)
(* the answers to their own commands.                                      *)
MayOverflow(l) ==
  CASE call \in {"get", "moToMt", "rev", "mtTxt"} -> BOOLEAN
    [] call = "setTxt" -> {FALSE}
    [] OTHER -> {l.k \in LongKinds /\ l.n # n, FALSE}

(* ISU_DTE_ERR_AT with the parser's AT_UART_OVERFLOW in dte->err, or r.    *)
ReturnIfFits(l, r) == \E over \in MayOverflow(l) : Return(IF over THEN "OVERFLOW" ELSE r)

(* at_uart_get_resp_code: the numbers it may leave in cmd_code; -1 stands  *)
(* for none, 1 for any but zero when the line is a text or a rest that     *)
(* begins with a figure.                                                   *)
RespCodes(l) == CASE StrCode(l) = "OK" -> {0}
                  [] l.k = "DIGIT" /\ StrCode(l) = "UNK" -> {l.v}
                  [] l.k \in {"TEXT", "TEXT0", "BIN", "REST"} -> {-1, 0, 1}
                  [] OTHER -> {-1}
NewCode(v) == IF v = -1 THEN code ELSE v

ReadCode ==
  /\ pc = "code"
  /\ Read /\ AsAnswer
  /\ \E v \in RespCodes(L) :
       /\ code' = NewCode(v)
       /\ IF call = "setMo" /\ IsReady(L) THEN pc' = "data" /\ UNCHANGED res
          ELSE IF call = "setMo" \/ v # -1 THEN pc' = "last" /\ UNCHANGED res
          ELSE ReturnIfFits(L, "AT")
  /\ UNCHANGED <<call, n, text, events, svca, modem, clean, did, prev>>

(* The message and its checksum are written, whole or (the result is not   *)
(* looked at) in part.  The modem takes the message of whoever writes it;  *)
(* noise may spoil the checksum.                                           *)
WriteData ==
  /\ pc = "data"
  /\ pc' = "code2"
  /\ \/ /\ mst = "data"
        /\ mst' = "exec"
        /\ \/ /\ mo' = n /\ did' = (Head(cmds).n = n)
              /\ out' = <<Digit(0, Head(cmds).n), Ok(Head(cmds).n)>>
           \/ /\ out' = <<Digit(2, Head(cmds).n), Ok(Head(cmds).n)>>
              /\ UNCHANGED <<mo, did>>
     \/ UNCHANGED <<mst, mo, did, out>>
  /\ UNCHANGED <<wire, call, n, text, code, events, svca, res, cmds, sent, msvca,
                 urcs, clean, used, lost, prev>>

ReadCode2 ==
  /\ pc = "code2"
  /\ Read /\ AsAnswer
  /\ \E v \in RespCodes(L) : code' = NewCode(v)
  /\ pc' = "last"
  /\ UNCHANGED <<call, n, text, events, svca, res, modem, clean, did, prev>>

(* Mutant: the code of the command is not looked at.                       *)
CodeResults_Ignored == {"OK"}

(* code == 0 ? ISU_DTE_OK : ISU_DTE_ERR_CMD.  Nothing may have been stored *)
(* in "code": then it is what the stack held.                              *)
CodeResults == IF code = -1 THEN {"OK", "CMD"} ELSE IF code = 0 THEN {"OK"} ELSE {"CMD"}

(* at_uart_skip_resp( ..., AT_1_LINE_RESP, ... )                           *)
ReadLast ==
  /\ pc = "last"
  /\ Read /\ AsAnswer
  /\ IF StrCode(L) # "OK" THEN Return("AT")
     ELSE CASE call \in {"setMo", "clear"} -> \E r \in CodeResults : Return(r)
            [] call = "evtReport" -> pc' = "event" /\ UNCHANGED res
            [] OTHER -> Return("OK")
  /\ UNCHANGED <<call, n, text, code, events, svca, modem, clean, did, prev>>

(* The commands that take any text, or no text at all.                     *)
AnyText == {"get", "moToMt", "setTxt"}

(* at_uart_parse_resp( ..., AT_2_LINE_RESP, ... )                          *)
ReadLine1 ==
  /\ pc = "line1"
  /\ Read /\ AsAnswer
  /\ CASE StrCode(L) = "OK" -> Return(IF call \in AnyText THEN "OK" ELSE "UNK") /\ UNCHANGED text
       [] StrCode(L) = "ERROR" -> Return("AT") /\ UNCHANGED text
       [] OTHER -> pc' = "line2" /\ text' = L /\ UNCHANGED res
  /\ UNCHANGED <<call, n, code, events, svca, modem, clean, did, prev>>

(* sscanf finds the prefix of the session's answer, and the numbers.       *)
SbdixResult == IF text.k = "SBDIX" THEN "OK" ELSE "UNK"

(* Mutant: the code of the answer is not looked at.                        *)
QueryResult_NoCode == IF text.k = "TEXT" THEN "OK" ELSE "UNK"

(* The same for the other answers; the one of isu_net_reg holds a code.    *)
QueryResult == IF text.k # "TEXT" THEN "UNK" ELSE IF text.v = 0 THEN "OK" ELSE "CMD"

ReadLine2 ==
  /\ pc = "line2"
  /\ Read /\ AsAnswer
  /\ ReturnIfFits(text, CASE StrCode(L) # "OK" -> "AT"
                          [] StrCode(L) = "OK" /\ call = "sbdix" -> SbdixResult
                          [] StrCode(L) = "OK" /\ call = "query" -> QueryResult
                          [] StrCode(L) = "OK" /\ call \in AnyText -> "OK")
  /\ UNCHANGED <<call, n, text, code, events, svca, modem, clean, did, prev>>

(* at_uart_parse_resp( ..., AT_UNK_LINE_RESP, ... ): up to a result code;  *)
(* then the lines before it fit into the buffer, or not.                   *)
ReadLines ==
  /\ pc = "lines"
  /\ Read /\ AsAnswer
  /\ IF StrCode(L) = "UNK" THEN text' = L /\ UNCHANGED <<pc, res>>
     ELSE LET r == IF StrCode(L) = "OK" THEN "OK" ELSE "AT"
          IN UNCHANGED text /\ (IF text = NoLine THEN Return(r) ELSE ReturnIfFits(text, r))
  /\ UNCHANGED <<call, n, code, events, svca, modem, clean, did, prev>>

(* isu_get_mt_txt skips the first line, whatever it is.                    *)
ReadHead ==
  /\ pc = "head"
  /\ Read /\ AsAnswer
  /\ pc' = "text"
  /\ UNCHANGED <<call, n, text, code, events, svca, res, modem, clean, did, prev>>

(* mt_buf[ len ] == '0': a code that was appended, or the end of a number  *)
(* or of a text; of a line that is as long as the buffer the last          *)
(* character is missing, and no overflow reported.                         *)
MayEndInZero(l) ==
  IF l.k \in {"TEXT", "TEXT0", "BIN", "SBDIX", "SIGQ", "REST"} \/ l = Svca(0) THEN BOOLEAN
  ELSE {FALSE}

(* The text: a line and then a result code, or a line that ends with it.   *)
(* A line that is itself a result code leaves the buffer empty.            *)
ReadText ==
  /\ pc = "text"
  /\ Read /\ AsAnswer
  /\ text' = IF StrCode(L) = "UNK" THEN L ELSE NoLine
  /\ IF mode.verbose THEN pc' = "last" /\ UNCHANGED res
     ELSE CASE StrCode(L) = "OK" -> Return("OK")
            [] StrCode(L) = "ERROR" -> Return("AT")
            [] OTHER -> \E zero \in MayEndInZero(L) : ReturnIfFits(L, IF zero THEN "OK" ELSE "AT")
  /\ UNCHANGED <<call, n, code, events, svca, modem, clean, did, prev>>

(* The length is larger than the buffer, as that of a message may be, and  *)
(* as the first bytes of anything else are: what the buffer takes and two  *)
(* bytes more are read, the rest of a line stays.                          *)
BinOverflow ==
  \E i \in 1..Len(wire) :
    /\ LET rest == <<Line("REST", 0, wire[i].n)>>
           more == SubSeq(wire, i + 1, Len(wire))
       IN wire' = rest \o more \/ (wire' = more /\ L.k # "BIN")
    /\ L.k = "BIN" => i = 1
    /\ used' = used \cup Answers(SubSeq(wire, 1, i))
    /\ lost' = (lost \/ HasEvent(SubSeq(wire, 1, i)))

(* _unpack_bin_resp                                                        *)
ReadBin ==
  /\ pc = "bin"
  /\ wire # <<>>
  /\ \/ L.k = "BIN" /\ Read /\ AsAnswer /\ pc' = "last" /\ UNCHANGED res
     \/ BinOverflow /\ Return("OVERFLOW")
  /\ UNCHANGED <<call, n, text, code, events, svca, modem, clean, did, prev>>

(* Mutant: only the events of a change to "available" are kept.            *)
Told_OnlyUp(l) == IF l.k = "SVCA" /\ l.v = 1 THEN 1 ELSE svca

(* The availability, after an event.                                       *)
Told(l) == IF l.k = "SVCA" THEN l.v ELSE svca

(* isu_dte_evt_wait, by itself or for the "events" that follow AT+CIER.    *)
ReadEvent ==
  /\ pc = "event"
  /\ Read
  /\ IF IsEvent(L)
     THEN /\ svca' = Told(L)
          /\ events' = events - 1
          /\ IF events = 1 THEN Return("OK") ELSE UNCHANGED <<pc, res>>
     ELSE /\ ReturnIfFits(L, IF StrCode(L) = "ERROR" THEN "AT" ELSE "UNK")
          /\ UNCHANGED <<svca, events>>
  /\ used' = used \cup Answers(<<L>>)
  /\ UNCHANGED <<call, n, text, code, modem, clean, did, lost, prev>>

(***************************************************************************)
(* The specification: after isu_dte_setup.                                 *)
(***************************************************************************)
Init ==
  /\ mode \in Modes /\ wire = <<>>
  /\ pc = "idle" /\ call = "evt" /\ n = 0 /\ text = NoLine /\ code = -1
  /\ events = 0 /\ svca = 0 /\ res = "none"
  /\ mst = "idle" /\ cmds = <<>> /\ out = <<>> /\ mo = 0 /\ sent = 0
  /\ msvca = 0 /\ urcs = 0
  /\ clean = FALSE /\ did = FALSE /\ used = {} /\ lost = FALSE /\ prev = 0

DteStep ==
  /\ UNCHANGED mode
  /\ \/ DrainWire \/ WriteCmd \/ CheckEcho \/ ReadTimeout
     \/ ReadCode \/ WriteData \/ ReadCode2 \/ ReadLast
     \/ ReadLine1 \/ ReadLine2 \/ ReadLines \/ ReadHead \/ ReadText
     \/ ReadBin \/ ReadEvent

ModemStep == UNCHANGED mode /\ (Execute \/ Emit \/ DataTimeout)

Start == UNCHANGED mode /\ (Call \/ Urc)

Next == Start \/ DteStep \/ ModemStep

Spec == Init /\ [][Next]_vars

(* The thread is scheduled, a timeout expires, and the modem goes on.      *)
FairSpec == Spec /\ WF_vars(DteStep) /\ WF_vars(ModemStep)

(***************************************************************************)
(* Properties.                                                             *)
(***************************************************************************)
LineKinds == {"OK", "ERROR", "DIGIT", "READY", "SBDIX", "HEAD", "TEXT", "TEXT0", "BIN",
              "ECHO", "SVCA", "SIGQ", "RING", "REST", "NONE"}
Lines == {l \in [k : LineKinds, v : 0..126, n : Nat] : l.k = "SVCA" => l.v \in 0..1}
Stages == Reading \cup {"idle", "drain", "write", "data"}

(* Every variable has its type; the modem waits for a message only while   *)
(* it executes AT+SBDWB.                                                   *)
TypeOK ==
  /\ mode \in Modes
  /\ wire \in Seq(Lines) /\ out \in Seq(Lines) /\ text \in Lines
  /\ pc \in Stages /\ call \in AllCalls /\ n \in Nat
  /\ code \in -1..126 /\ events \in 0..2 /\ svca \in 0..1
  /\ res \in {"none", "OK", "AT", "OVERFLOW", "UNK", "CMD"}
  /\ mst \in {"idle", "exec", "data"}
  /\ cmds \in Seq([call : AllCalls, n : Nat])
  /\ mst # "idle" => cmds # <<>>
  /\ mst = "data" => Head(cmds).call = "setMo"
  /\ mo \in Nat /\ sent \in Nat /\ msvca \in 0..1 /\ urcs \in Nat
  /\ clean \in BOOLEAN /\ did \in BOOLEAN /\ used \subseteq Nat
  /\ lost \in BOOLEAN /\ prev \in Nat

Returned == pc = "idle" /\ n > 0

(* With numeric result codes isu_get_mt_txt takes the last character of    *)
(* the second line for the result code, also when that line is an event    *)
(* ("+CIEV:1,0"): then OK shows nothing.                                   *)
EventTakenForText == call = "mtTxt" /\ ~mode.verbose /\ IsEvent(text)

(* With verbose ones it takes a text "OK" or "ERROR", or the code after an *)
(* empty text, for the end of the answer, and whatever line was in front   *)
(* for the text.                                                           *)
TextTakenForCode == call = "mtTxt" /\ mode.verbose /\ mode.codes

(* A command that starts while the modem has nothing left to do (and, with *)
(* numeric result codes, no half of an event on the line: "clean") and     *)
(* returns OK was executed by the modem: an event inside the answer, a     *)
(* code that nobody stored, a spoilt checksum or a write cut short never   *)
(* make a failure look like a success.                                     *)
OkMeansDone ==
  Returned /\ call # "evt" /\ clean /\ res = "OK" /\ ~EventTakenForText => did

(* The answer that such a command ("clean") returned is its own: no line   *)
(* of an earlier one was taken for a part of it, and a text that nobody    *)
(* looks at, like the one of isu_get_imei, is the modem's and not an       *)
(* event, unless a message reads like a result code.  (Among the lines of  *)
(* isu_get_revision there may be an event.)                                *)
AnswerIsOwn ==
  Returned /\ clean /\ res = "OK" /\ ~EventTakenForText =>
    /\ used \subseteq {n}
    /\ call \in {"get", "moToMt", "mtTxt"} /\ ~TextTakenForCode => text.k \in {"TEXT", "TEXT0"}

(* The message that a session carries, or isu_mo_to_mt copies, is the one  *)
(* whose isu_set_mo or isu_set_mo_txt returned OK just before it: what     *)
(* _handle_session_mo_msg reports as sent was, if both commands started    *)
(* while the modem had nothing left to do ("clean").                       *)
SessionCarriesMessage ==
  Returned /\ call \in {"sbdix", "moToMt"} /\ clean /\ res = "OK" /\ prev # 0 => sent = prev

(* The message of isu_set_mo is written to a modem that waits for it, if   *)
(* it had nothing left to do when the command started ("clean": no READY   *)
(* of an earlier AT+SBDWB can come late).                                  *)
DataWhenReady ==
  [][pc = "data" /\ pc' = "code2" /\ clean => mst = "data" /\ Head(cmds).n = n]_vars

(* As long as no event was purged or read as part of an answer, the        *)
(* service availability that was told is the modem's once the line is      *)
(* empty.                                                                  *)
NoSvcaOn(ls) == \A i \in 1..Len(ls) : ls[i].k # "SVCA"
SvcaTracks == ~lost /\ NoSvcaOn(wire) /\ NoSvcaOn(out) => svca = msvca

(* The buffer was as long as the line of a message, whose last character,  *)
(* the result code, is then missing.                                       *)
CodeCutOff == call = "mtTxt" /\ text.k = "TEXT0"

(* With a modem that answers in time and keeps events out of its answers,  *)
(* a command fails only if the modem did not execute it, or if the answer  *)
(* was too long for the caller's buffer; and AT_UART_OVERFLOW says that it *)
(* was executed (for isu_get_mt it may also be that there was no message). *)
FailMeansNotDone ==
  ~mode.late /\ ~mode.inside /\ Returned /\ call # "evt" /\ clean /\ ~TextTakenForCode =>
    /\ res \notin {"OK", "OVERFLOW"} /\ ~CodeCutOff => ~did
    /\ res = "OVERFLOW" /\ call # "getMt" => did

(* Every call returns.                                                     *)
CallReturns == pc # "idle" ~> pc = "idle"
=============================================================================
