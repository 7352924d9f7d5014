------------------------------ MODULE AtSetup ------------------------------
(***************************************************************************)
(* at_uart_setup (lib/at_uart/at_uart.c): five commands that bring a modem *)
(* of unknown settings to the configured ones.  The results of the first   *)
(* three are not looked at, because the modem may not yet answer in the    *)
(* way the code reads; those of the last two decide.                       *)
(*                                                                         *)
(* The modem is not part of the repository: it echoes, executes, refuses   *)
(* or ignores a command and answers in its settings of that moment.  The   *)
(* line carries tokens as small as the code's reading of it needs: "CR",   *)
(* "LF", the letters of OK, the digits, and "cmd" for an echoed command.   *)
(***************************************************************************)
EXTENDS Integers, Sequences

CONSTANTS
  MaxFaults    \* bound: commands refused, ignored or not written

ASSUME SetupAssumption == MaxFaults \in Nat

VARIABLES
  cfg,        \* config.echo and config.verbose
  step,       \* the command, an index of Commands
  pc,         \* its stage: "drain", "write", "echo", "resp"; "done" at the end
  at_buf,     \* the line being read
  ret,        \* what at_uart_setup returned
  wire,       \* what has arrived and is not read
  inbox,      \* modem: the commands received
  out,        \* modem: what it has still to send
  set,        \* modem: its settings, and if it may answer after a timeout
  faults,     \* the number of faults so far
  inStep      \* history: the settings at the start keep answers and commands
              \* in step

code  == <<cfg, step, pc, at_buf, ret>>
modem == <<inbox, out, set>>
vars  == <<code, wire, modem, faults, inStep>>

(***************************************************************************)
(* The modem.                                                              *)
(***************************************************************************)
Ok(verbose)    == IF verbose THEN <<"CR", "LF", "O", "K", "CR", "LF">> ELSE <<"0", "CR">>
Error(verbose) == IF verbose THEN <<"CR", "LF", "ERROR", "CR", "LF">> ELSE <<"4", "CR">>
Echoed == IF set.echo THEN <<"cmd", "CR">> ELSE <<>>

(* The settings after a command.                                           *)
After(c) == CASE c = "q"  -> [set EXCEPT !.quiet = FALSE]
              [] c = "e"  -> [set EXCEPT !.echo = cfg.echo]
              [] c = "v"  -> [set EXCEPT !.verbose = cfg.verbose]
              [] c = "&k" -> [set EXCEPT !.flow = TRUE]
              [] c = "&d" -> [set EXCEPT !.dtr = TRUE]

Fault == faults < MaxFaults /\ faults' = faults + 1

Execute ==
  /\ inbox # <<>> /\ out = <<>>
  /\ inbox' = Tail(inbox)
  /\ \/ /\ set' = After(Head(inbox))
        /\ out' = Echoed \o (IF set'.quiet THEN <<>> ELSE Ok(set'.verbose))
        /\ UNCHANGED faults
     \/ /\ Fault
        /\ out' \in {Echoed, Echoed \o (IF set.quiet THEN <<>> ELSE Error(set.verbose))}
        /\ UNCHANGED set
  /\ UNCHANGED <<code, wire, inStep>>

Emit ==
  /\ out # <<>>
  /\ wire' = Append(wire, Head(out))
  /\ out' = Tail(out)
  /\ UNCHANGED <<code, inbox, set, faults, inStep>>

(***************************************************************************)
(* The code.                                                               *)
(***************************************************************************)
Commands == <<"q", "e", "v", "&k", "&d">>

(* Mutant: the result of the last command alone is returned.               *)
Checked_LastOnly(c) == c = "&d"

(* The commands whose result at_uart_setup looks at.                       *)
Checked(c) == c \in {"&k", "&d"}

(* Mutant: the last command is not seen to be the last.                    *)
End_OffByOne(r) ==
  IF step > Len(Commands) \/ (r # "OK" /\ Checked(Commands[step]))
  THEN pc' = "done" /\ ret' = r /\ UNCHANGED step
  ELSE pc' = "drain" /\ step' = step + 1 /\ UNCHANGED ret

(* A command ends with result r.                                           *)
End(r) ==
  IF step = Len(Commands) \/ (r # "OK" /\ Checked(Commands[step]))
  THEN pc' = "done" /\ ret' = r /\ UNCHANGED step
  ELSE pc' = "drain" /\ step' = step + 1 /\ UNCHANGED ret

(* at_uart_write_cmd: zuart_drain.                                         *)
DrainWire ==
  /\ pc = "drain"
  /\ wire' = <<>>
  /\ pc' = "write"
  /\ UNCHANGED <<cfg, step, at_buf, ret, modem, faults, inStep>>

(* at_uart_check_echo does something.                                      *)
SkipsEcho == cfg.echo

(* The command is written, or its write times out.                         *)
WriteCmd ==
  /\ pc = "write"
  /\ \/ /\ inbox' = Append(inbox, Commands[step])
        /\ pc' = IF SkipsEcho THEN "echo" ELSE "resp"
        /\ at_buf' = <<>>
        /\ UNCHANGED <<step, ret, faults>>
     \/ Fault /\ End("TIMEOUT") /\ UNCHANGED <<inbox, at_buf>>
  /\ UNCHANGED <<cfg, wire, out, set, inStep>>

Read == wire # <<>> /\ wire' = Tail(wire)
C == Head(wire)

(* at_uart_check_echo reads up to the first '\r'.                          *)
ReadEcho ==
  /\ pc = "echo"
  /\ Read
  /\ pc' = IF C = "CR" THEN "resp" ELSE "echo"
  /\ UNCHANGED <<cfg, step, at_buf, ret, modem, faults, inStep>>

(* Mutant: codes of both kinds are understood.                             *)
StrCode_Either(s) ==
  CASE s \in {<<"O", "K">>, <<"0">>} -> "OK"
    [] s \in {<<"ERROR">>, <<"4">>} -> "ERR"
    [] OTHER -> "UNK"

(* at_uart_get_str_code                                                    *)
StrCode(s) ==
  CASE s = IF cfg.verbose THEN <<"O", "K">> ELSE <<"0">> -> "OK"
    [] s = IF cfg.verbose THEN <<"ERROR">> ELSE <<"4">> -> "ERR"
    [] OTHER -> "UNK"

(* Mutant: lines end with '\n' whatever the configuration.                 *)
Eol_Lf == "LF"

(* at_uart->eol                                                            *)
Eol == IF cfg.verbose THEN "LF" ELSE "CR"

(* at_uart_skip_resp( ..., AT_1_LINE_RESP, ... ), one byte.                *)
ReadResp ==
  /\ pc = "resp"
  /\ Read
  /\ IF C = Eol /\ at_buf # <<>>
     THEN End(StrCode(at_buf)) /\ UNCHANGED at_buf
     ELSE /\ at_buf' = IF C \in {"CR", "LF"} THEN at_buf ELSE Append(at_buf, C)
          /\ UNCHANGED <<pc, step, ret>>
  /\ UNCHANGED <<cfg, modem, faults, inStep>>

(* A read times out.  A modem that is not late has nothing more to say.    *)
ReadTimeout ==
  /\ pc \in {"echo", "resp"}
  /\ wire = <<>>
  /\ set.late \/ (out = <<>> /\ inbox = <<>>)
  /\ End("TIMEOUT")
  /\ UNCHANGED <<cfg, at_buf, wire, modem, faults, inStep>>

(* Any configuration, and any settings of the modem.  A modem that echoes  *)
(* to a code that does not expect it gives two lines for a command of      *)
(* which one is read: the code is then a line behind.                      *)
Init ==
  /\ cfg \in [echo : BOOLEAN, verbose : BOOLEAN]
  /\ step = 1 /\ pc = "drain" /\ at_buf = <<>> /\ ret = "none"
  /\ wire = <<>> /\ inbox = <<>> /\ out = <<>>
  /\ set \in [quiet : BOOLEAN, echo : BOOLEAN, verbose : BOOLEAN,
              flow : {FALSE}, dtr : {FALSE}, late : BOOLEAN]
  /\ faults = 0
  /\ inStep = (cfg.echo \/ ~set.echo)

Next == DrainWire \/ WriteCmd \/ ReadEcho \/ ReadResp \/ ReadTimeout
        \/ Execute \/ Emit

Spec == Init /\ [][Next]_vars

(***************************************************************************)
(* Properties.                                                             *)
(***************************************************************************)
Tokens == {"CR", "LF", "O", "K", "0", "4", "ERROR", "cmd"}

(* Every variable has its type; the code is at one of the five commands.   *)
TypeOK ==
  /\ cfg \in [echo : BOOLEAN, verbose : BOOLEAN]
  /\ step \in 1..Len(Commands)
  /\ pc \in {"drain", "write", "echo", "resp", "done"}
  /\ ret \in {"none", "OK", "ERR", "UNK", "TIMEOUT"}
  /\ at_buf \in Seq(Tokens) /\ wire \in Seq(Tokens) /\ out \in Seq(Tokens)
  /\ inbox \in Seq({"q", "e", "v", "&k", "&d"})
  /\ set \in [quiet : BOOLEAN, echo : BOOLEAN, verbose : BOOLEAN,
              flow : BOOLEAN, dtr : BOOLEAN, late : BOOLEAN]
  /\ faults \in 0..MaxFaults /\ inStep \in BOOLEAN
  /\ pc = "done" <=> ret # "none"

(* A setup that returns OK leaves a modem that is not quiet and whose      *)
(* result codes are of the configured kind, whatever it was set to, lost   *)
(* or answered late.                                                       *)
VerboseAgreed == ret = "OK" => ~set.quiet /\ set.verbose = cfg.verbose

(* When answers and commands are in step and no answer is late, a setup    *)
(* that returns OK has also set flow control and DTR.                      *)
InStep == inStep /\ ~set.late
FlowAgreed == ret = "OK" /\ InStep => set.flow /\ set.dtr

(* Without a fault the setup then succeeds, from any settings of the modem *)
(* whose echo does not put answers and commands out of step.               *)
SetupSucceeds == faults = 0 /\ InStep /\ ret # "none" => ret = "OK"

(* at_uart.c:386-387, "The last AT test command will finally check if the  *)
(* configuration was correctly applied to the ISU": the echo, too, at      *)
(* least when answers and commands are in step.                            *)
EchoAgreed == ret = "OK" /\ InStep => set.echo = cfg.echo
=============================================================================
