# TLA+ verification of isbd-zephyr-module

This directory models the Iridium SBD library for Zephyr (`lib/`), checks the models with TLC on small
instances, and proves theorems about them with TLAPS for every value of their constants. `PROJECT.json` names every run,
mutant, theorem and finding, and maps each definition to the source lines it stands for.

Line numbers below are those of this commit; `isbd.c` is `lib/iridium/isbd/isbd.c`, `isu.c` and `evt.c` are in
`lib/iridium/`, `at_uart.c` in `lib/at_uart/`, `zuart.c` in `lib/zuart/`.

## 1. The system

```
 application threads        isbd_send_mo_msg, isbd_request_session, isbd_wait_evt, isbd_destroy_evt
      |  mo_msgq   ^ evt_msgq                                        + heap blocks
 isbd service thread        _entry_point: one SBD session at a time
      |  call / return
 isu + dte + evt            one AT command and its answer; event lines
      |  call / return
 at_uart                    setup, framing of a command, echo, parser of the answer
      |  call / return
 zuart                      ring buffers, semaphores, interrupts
      |  UART
 the Iridium modem          (not part of the repository)
```

| Component | State | Operations | What makes it correct |
|---|---|---|---|
| **zuart** reception | `rx_rbuf`, `rx_sem`, `FLAG_OVERRUN`, `err`, `read_proto` | receive interrupt, `zuart_read` (interrupt driven, polling, or none), `zuart_drain`, `zuart_force_read_timeout` | no byte lost, repeated or reordered without an overrun report; no lost wakeup; a short read says why; a drain drains |
| **zuart** transmission | `tx_rbuf`, `tx_sem`, interrupt enable, `err`, `write_proto` | transmit interrupt, `zuart_write` (interrupt driven, polling, or none), `zuart_force_write_timeout` | order kept; the interrupt is never off with bytes to send; no lost wakeup |
| **at_uart** parser | locals of `at_uart_parse_resp` | one byte read | stays in the caller's buffer; stops at the right line; right code, complete text |
| **at_uart** setup, framing | `config`, `eol`, the modem's settings | `at_uart_setup` (5 commands), drain, write, echo | OK means that modem and code agree on the format of answers |
| **isu, evt, dte** | `dte->err`; the modem's MO buffer | every command of isu.h, in 9 shapes of answer; `isu_dte_evt_wait` | what a call returns is what the modem did; the answer is this command's |
| **isbd** | `mo_msgq`, `evt_msgq`, `svca`, `sigq`, heap blocks | the service loop; four calls of the application | each block has one owner; retries counted; messages, requests and their alert flag not lost; order |
| `isbd/util.c`, `stru` | none | checksum, string compare | - |
| samples | | the event loop of `isbd_app` is the client of isbd | every event is destroyed |

**Hard behaviours.**

- *Interrupt against thread* (zuart): the thread looks at a ring buffer and then waits on a semaphore, two steps between which
  the interrupt may run; `ring_buf_get` and `ring_buf_put` are not atomic; the transmit interrupt disables itself while the
  thread enables it; another thread may force a timeout.
- *Thread against thread* (isbd): a sender takes the only queued message out to look at it and puts it back
  (isbd.c:370-391), while other senders, requests and the service use the queue; the check and the put of a request are two calls;
  every queue is bounded and every put is `K_NO_WAIT`.
- *Partial failure*: each exchange with the modem may fail after it took effect; memory may run out; writes may be cut.
- *Ordering on the line*: answers come late, events come inside answers, and a ring alert, the code of a command and the
  result code are all numbers on a line when the modem is not verbose.
- *Numeric edges*: buffers of size 0, texts as long as their buffer, a signal equal to the threshold, zero retries, length 0.

The full list, each at its line with the properties that watch it, is `hazards` in `PROJECT.json`.

## 2. Modules

| Module | Code | One step is |
|---|---|---|
| `SbdDelivery` | what isbd.h promises for a message | one change in the life of one block |
| `IsbdService` | isbd.c, event loop of `samples/isbd_app` | the code between two kernel or modem calls of one thread |
| `ReadPort`, `WritePort` | what zuart.h promises its callers | a byte arrives, is handed over, or a call begins or ends |
| `ZuartRx`, `ZuartTx` | zuart.c, both modes and their mixture | one run of the interrupt, or the thread's code between two accesses to shared state |
| `AtParse` | `at_uart_parse_resp` (at_uart.c:122-215) | one byte |
| `AtSetup` | `at_uart_setup` and what it calls | one token of the line |
| `IsuLink` | isu.c, evt.c, framing of at_uart.c | one line of the serial line |
| `MCIsbdService`, `MCIsuLink` | values for TLC | |
| `IsbdServiceProofs`, `IsbdDeliveryProofs` | theorems about `IsbdService` | |
| `ZuartRxProofs`, `ZuartTxProofs` | theorems about `ZuartRx` and `ZuartTx` | |
| `AtParseProofs`, `AtSetupProofs` | theorems about `AtParse` and `AtSetup` | |
| `IsuLinkProofs`, `IsuAnswerProofs` | theorems about `IsuLink` | |

`SbdDelivery`, `ReadPort` and `WritePort` are abstract: they hold no queue, thread, semaphore or ring buffer, only what a caller can
tell. `IsbdService`, `ZuartRx` and `ZuartTx` implement them (properties `DeliveryKept` and `PortKept`).

The layers are checked separately, each against an environment that contains what the layer below can do: `IsbdService`
takes from an isu call any result (it succeeded or failed, any `mo_sts`, an MT message or none) and `IsuLink` shows what the results
mean; `IsuLink` takes whole lines from the wire, and `AtParse` shows how bytes become lines; `AtParse` takes any byte or a timeout, and
`ZuartRx` shows that bytes arrive in order, once, or with an overrun report.

### 2.1 IsbdService

State: `moq`, `evtq` (the kernel queues), `svca`, `sigq` (the cached indicators), the service's program counter `svcPc` with its locals
`cur` (`mo_msg` of `_entry_point`), `session`, `mt`; for each application thread `appPc`, `appMsg`, `appPeek`, `appEvt`; and `owner`,
the heap: who must free each block. History: `want` (a promised session), and in a message `asked` and `tried`.

- Service: `SvcBoot`, then `SvcIdle` or `SvcTake`, `SvcSetOk`/`SvcSetFail` (`isu_set_mo`, `isu_clear_buffer`), `SvcSbdix`
  (`isu_init_session`), `SvcUrc`* `SvcSettled`/`SvcSessionFailed`, one of `SvcNoPayload`, `SvcMoSent`, `SvcMoRetry`, `SvcMoGiveUp`
  (`_handle_session_mo_msg`), `SvcMtSkip` or `SvcMtAlloc` and `SvcMtRead`/`SvcMtReadFail` (`_handle_session_mt_msg`),
  `SvcRequestCheck`, `SvcRequestPut` (its own `isbd_request_session`), and `SvcUrc`* `SvcQuiet` (`_wait_for_dte_events`).
- Applications: `SendAlloc`, `SendUsed`, `SendPeekNone`/`SendMerge`/`SendPeek`, `SendPutback`, `SendEnqueue` (`isbd_send_mo_msg`);
  `RequestCall`, `RequestCheckBusy`/`RequestCheckEmpty`, `RequestPut`; `WaitEvt`/`WaitRing`, `DestroyEvt`.

`Leaked` is the owner of a block to which the code has just dropped the last pointer. The leaking paths are named where they happen
(`EnqueueMoMsg`, `SvcSessionFailed`, `SvcNoPayload`, `SvcSetFail`), and `NoOtherLeak` says that there is no other.
`SbdDelivery` gives each block one of the stages of a message's life (held, queued, dialled, carried, refused, told, ...) and the pairs of stages
that may follow each other. The mapping of `IsbdService` reads the stage off `owner` and, for the service's message, off its program counter;
a lost message is a leaked block. So a carried message is never queued again, a refused one never told as sent, and a failed one is
lost, as the code has it.
`mo_sts` matters as below 3 or not; `mt_sts` and `mt_queued` are folded into "none", "last", "more".

### 2.2 ZuartRx and ZuartTx

The boards have one core, so an interrupt handler is one action and may run between any two actions of the thread. Bytes are
numbered, so that order, loss and repetition can be told. `ring_buf_get` is `Claim`, `ClaimAgain` (the bytes wrap) and `Copy`;
`ring_buf_put` is `PutClaim`, `PutClaimAgain`, `PutFinish`. A semaphore is its count, and `k_sem_give` passes the token to the waiting
thread. `wiped` records that `zuart_force_*_timeout` reset a token the thread was about to find, which is what that call is for; the wakeup
properties except it.

`proto` is the function that `zuart_setup` chose: interrupt driven, polling, or none (mode MIXED without one), in which case the call
is refused. In polling mode `rx` stands for the UART's own FIFO, which drops bytes without a word; the thread takes one byte at a
time (`PollByte`) and ends when it has all, when its time is over, when the UART fails, or at the first look without a byte if it may
not wait. Mode MIXED with polled reads and interrupt driven writes is `shared`: `_uart_isr` is registered once for both directions
(zuart.c:268-272), so when it runs for the transmission and the driver reports a received byte, `StrayRxIsr` takes that byte out of the UART, for a
ring buffer without storage: it is dropped and FLAG_OVERRUN set, which a polled read never looks at. Both directions write `zuart->err`, and neither clears it, so each call starts with any error that may have been left.

`ReadPort` and `WritePort` say what a caller relies on with either technique: the bytes handed over are the first that wait, in
order; a timed call that is short has set the error that says why; an overrun is told once, by the first read that ends after it; a
drain takes away all that was there when it was called.

### 2.3 AtParse

One action per byte of `at_uart_parse_resp`, for both line ends, with and without a buffer, for every `lines` and `buf_size`. A result code is one
character ("O", "E"), any other printable character is "x". The reference speaks of positions in the bytes read (`seen`): `LineAt(i)` are
the characters of the line that a line end at `i` ends, `Ends` the line ends that end one, `Nth(i)` its number, `IsEnd(i)` says that
the answer ends there, `TextAt(i)` which positions make up its text, and `Place(p)` where a position belongs in the buffer. It
uses none of the code's counters, and no recursion, so that theorems can be proved about it.

Two assumptions: no NUL byte arrives (the code counts it in `at_buf` but not in the text; the modem's answers have none), and at most
65535 bytes and 254 lines are expected, so that the 16-bit `buf_i` and the 8-bit `line_n` do not wrap. `NoCounterWraps` proves that these bounds are
enough.

### 2.4 IsuLink

A command goes through the stages `drain`, `write`, `echo` and then those of its answer: `code`/`last` (`isu_clear_buffer`),
`code`/`data`/`code2`/`last` (`isu_set_mo`), `line1`/`line2` (session, `isu_set_mo_txt`, `isu_mo_to_mt` and the getters of one line),
`lines` (`isu_get_revision`: lines up to a result code), `bin`/`last` (`isu_get_mt`), `head`/`text`/`last` (`isu_get_mt_txt`), `last`
(`isu_set_mt_alert`), `last`/`event` (`isu_set_evt_report`), and `event` (`isu_dte_evt_wait`). `code = -1` is the uninitialised
`code` of isu.c:177 and :210: a later test of it may go either way (`CodeResults`).

With numeric result codes `isu_get_mt_txt` reads two lines and takes the last character of the second for the result code. The first
is not looked at, so when an event comes between the two lines and ends in `0` (`+CIEV:1,0`), the event is returned as the message with
ISU_DTE_OK, even before the modem has executed the command. `EventTakenForText` is this: `isu_get_mt_txt`, numeric, with an event as its text.
`OkMeansDone` and `AnswerIsOwn` say nothing of such a call.

With verbose result codes the message itself may be a line that the parser takes for a result code, or empty, so that the code follows the head
(`CodeTexts`, in the modes with `codes`). The call then takes it for the end of the text, and returns what stood in front of it, an event too, with
ISU_DTE_OK (isu.c:283-290). `TextTakenForCode` names these modes: what text is returned, and what a failure means, is not claimed there; that OK
means executed is. A text that begins with a figure is a code for `at_uart_get_resp_code` (isdigit, atoi; at_uart.c:231): `RespCodes`.

An answer may be too long for its buffer. Which answers are is not known to the model, since it has no lengths: `MayOverflow` says of each line
whether it can be, and then either happens (`ReturnIfFits`). The caller's own buffers (`isu_get_imei`, `isu_get_rtc`, `isu_mo_to_mt`, `isu_get_revision`,
`isu_get_mt_txt`) may be too small for anything; the buffers inside isu.c take the answers to their own commands, but an event, a rest or another
command's line may be longer. `BinOverflow` is the message of `isu_get_mt` (isu.c:511-514, 533): the rest of a longer one stays on the line.
The result `OVERFLOW` stands for ISU_DTE_ERR_AT with AT_UART_OVERFLOW in `dte->err`, which the caller can read (`isu_dte_get_err`;
tests/isbd/src/test_isbd.c:143-156 asks for both). So `FailMeansNotDone` has two halves: a call that returns neither OK nor OVERFLOW was
not executed, and OVERFLOW says that it was. The exceptions are `isu_get_mt`, whose OVERFLOW may also be a refusal read as a length, and
`CodeCutOff`: a numeric message exactly as long as the buffer of `isu_get_mt_txt` loses its last character, the result code, without a report
(finding 3), and the call returns ISU_DTE_ERR_AT.

The drain before a command (at_uart.c:292) may find an event whose last bytes are still on their way (`CutEvent`). They then stand before
the answer, and `at_uart_check_echo` or the parser meets them (`Rests`: text, or the number at the end). With verbose result codes
all properties hold, cut events included: at worst a command that succeeded fails. With numeric ones the rest `0` of `+CIEV:1,0` is the
result code OK, and a call may return ISU_DTE_OK before the modem has executed the command: without `mode.verbose` in `CutEvent`, TLC
finds `isu_set_mo_txt`, `isu_set_mt_alert` and `isu_get_imei` doing so. A cut event with numeric codes therefore does not count as `clean`, and nothing is
claimed of that call.

`clean` is set at the drain of a call: the modem has then no command, no answer and no message to wait for, and, with numeric codes, the drain
cut no event. `OkMeansDone`, `AnswerIsOwn`, `FailMeansNotDone`, `DataWhenReady` and `SessionCarriesMessage` (there both calls) speak of clean
calls only: an answer of an earlier command that arrives after the drain, a late READY included, is taken for the next command's, and
nothing is claimed then.

The modem is external. It executes, refuses or ignores commands, echoes, waits for a message after READY, may have a spoilt checksum, and
gives up waiting after its timeout. `Modes` says what is assumed of it: with `late` it may answer after the code's timeout, with `inside` it puts
events between the lines of an answer, and `urcs` bounds how many. Properties hold for every modem unless they name the mode.
A write that times out leaves at most an unfinished command, which counts as one the modem does not see.

### 2.5 AtSetup

The five commands of `at_uart_setup` (quiet off, echo, verbose, flow control, DTR) against a modem of any initial settings. The
results of the first three are ignored, since the modem may still answer in another format; `MaxFaults` bounds commands that are refused,
ignored or not written. No events come during the setup (`isu_set_evt_report` comes later).

## 3. Runs

| Run | Instance | What it shows |
|---|---|---|
| `isbd_one_app` | 1 application, 3 blocks, MO queue 2, event queue 1, lengths 0 and 1, retries 0 and 1 | `RetryBudget`, `NoOvertaking`, `AlertNotLost` |
| `isbd_two_apps` | 2 applications, 3 blocks, both queues 1, length 1 | `TypeOK`, `Ownership`, `NoOtherLeak`, `RequestNotForgotten`, `DeliveryKept` (refinement) |
| `isbd_live` | 1 application, 2 blocks, queues 1, signal below and at the threshold | `MessageResolved`, `RequestServed` under fairness |
| `isbd_leak` | violated | a block is leaked although every event is destroyed |
| `isbd_request_race` | violated | a session request is enqueued behind a message |
| `zuart_rx` | ring buffer 2, UART FIFO 1 (polling), 6 bytes, reads of 0, 1 and 3 | `EachByteOnce`, `NoLostWakeup`, `HolesReported`, `PortKept` (refinement), `CallReturns`, in all four protocols (mixed mode with stray interrupts too) |
| `zuart_tx` | ring buffer 2, UART FIFO 2, 8 bytes, writes of 0, 1 and 3 | `LineOrder`, `NothingStranded`, `NoLostWakeup`, `PortKept` (refinement), `EverythingSent` |
| `at_parse` | all sequences of up to 6 bytes, buffers 0-4, 0-3 lines | `InBounds`, `EndsInTime`, `AnswerRight`, `OverflowRight` |
| `at_parse_text` | violated | a text as long as its buffer is cut and not reported |
| `isu` | 2 calls of any kind, 7 modes: for each format a modem in time with 2 events apart or anywhere, and a late one with 1 event anywhere; and messages that read like result codes, with 1 event anywhere (1.7 million states) | `OkMeansDone`, `AnswerIsOwn`, `SessionCarriesMessage`, `SvcaTracks`, `FailMeansNotDone`, `DataWhenReady`, `CallReturns` |
| `at_setup` | all configurations and modem settings, 2 faults | `VerboseAgreed`, `FlowAgreed`, `SetupSucceeds` |
| `at_setup_echo` | violated, 1 fault | the setup returns OK though the echo was not set |

Every property of a passing run has a mutant: a small change of one definition, such as a code change might make, under which
TLC finds the property violated. The mutants are the definitions with an underscore next to the ones they change.

**Why the bounds are enough to meet the interesting cases.** Two applications and a queue of one are the smallest instance in which a put-back message
finds its slot taken; three blocks let a message in each sender's hands meet one in the service. A queue of two is needed for
order, and one retry for a message to go round once. A ring buffer of two with reads of three wraps, fills, overruns and
empties within one call. A buffer of 4 with 6 bytes contains texts shorter than, equal to and longer than every buffer size, and
two-line answers with stray line ends. Reads and writes of 0 are legal calls. A UART FIFO of one loses a byte
in polling mode as soon as two arrive. Two calls are what it takes for a late answer to meet the next command; two events are what
`isu_set_evt_report` waits for, and a late modem that also puts events inside an answer needs one to make every confusion happen.
`DeliveryKept` is checked for messages with content; those of length 0 take the path `SvcNoPayload`, met in `isbd_one_app`, and the theorem
covers both. `AtBufSize` is 3 instead of the 32 of at_uart.c:20: a code of one character, one more and the terminator fit, a longer
line is cut. (The assumption is `AtBufSize > 2`: with less the code could not tell a result code from a longer line.)

**Deadlock** is checked in the isbd and zuart runs. The parser, the setup and the calls of `IsuLink` end (`CHECK_DEADLOCK FALSE`).

**Symmetry** permutes blocks, and in `isbd_two_apps` the applications; it is not used in runs with liveness properties. The two action
properties of `isbd_one_app` are invariant under the permutations.

**Fairness.** `IsbdService`: weak fairness of the service thread and of each application inside a call: Zephyr schedules a ready thread,
and all puts and gets are `K_NO_WAIT`. No application is obliged to call. Fairness of `SvcStep`, of which `SvcQuiet` is a part, also means that
the stream of events pauses: `_wait_for_dte_events` calls itself as long as events follow each other, and with a modem that never pauses it
would not return. The liveness properties are conditional on the service staying usable, which the code waits for. `ZuartRx`, `ZuartTx`:
the thread runs, a K_MSEC wait ends, an enabled interrupt is served, the UART shifts. `IsuLink`: the thread runs, a read ends at its timeout,
and the modem finishes what it has started.

## 4. Findings

1. **Leaks** (`isbd_leak`): a message that finds the queue full (isbd.c:393, and on a retry :126), a message whose session failed (:205-210),
   and a message of length 0 are freed by nobody.
2. **Request race** (`isbd_request_race`): `isbd_request_session` may enqueue a request behind a message, which isbd.h:79-80 excludes.
3. **Off by one** (`at_parse_text`): at_uart.c:181 compares `buf_i > buf_size` where :165 compares `>=`; a text exactly as long as the
   buffer loses its last character without AT_UART_OVERFLOW.
4. **Setup** (`at_setup_echo`): with verbose and echo, the line end before an answer is taken for the echo, so a modem that does not echo
   passes the final check that at_uart.c:386-387 describes.

## 5. Proofs

The theorems hold for all values of the constants that satisfy the named assumptions (sizes are positive, inputs are numbers,
`NULL` is no block). TLC evaluates the assumptions in every run.

- **`IsbdServiceProofs`** (any number of threads and blocks, any queue lengths).
  `TypeCorrect`: `TypeOK` is inductive.
  `OwnershipHolds`: `Ownership` is inductive together with `TypeOK`. A block that moves belonged to the holder that gives it away, so no other holder
  refers to it (`KeepQueue`, `KeepLocal`), and the receiver owns it afterwards (`MovedLocal` and the lemmas on queues). A block taken from the heap is
  owned by nobody.
  `RequestKept`: `RequestNotForgotten` is inductive. The crucial case is the sender that empties the queue: it is then at `putback` or
  `enq`, and a put on a queue of positive length never leaves it empty (`EnqueueNotEmpty`), even when the put is refused.
  `BudgetHolds`: `RetryBudget` is inductive, with one session "spent" between `isu_init_session` and the end of `_handle_session_mo_msg`.
- **`IsbdDeliveryProofs`**. `ImplementsDelivery`: the service implements `SbdDelivery`. Besides `TypeOK` and `Ownership` it needs `HoldsCur` (where
  the service's program counter says it has a message, it has one that it owns), so that a step of another thread never changes the stage of
  the service's block. Each action then changes the stage of one block along a pair of `Lives`, or of none, a stutter (`StageStep`).
  `NothingElseLeaks`: `NoOtherLeak` is the converse of `Ownership`, "who owns a block does hold it". Its inductive form `Held` says
  for each owner where the pointer is (a queue, one of the service's or the application's variables), and needs `Hands`: what the
  program counters imply about which of these variables are in use. An action either gives a block to an owner that holds it
  afterwards, or keeps the pointers to all others (`HandsOver`, `KeepsAllBut`).
  `OrderKept` and `AlertKept` (one sending thread, any queue length for the first, two or more for the second): while the sender has the only
  message out to look at it (isbd.c:370-391), the service may enqueue, but at most one element before it takes again. `Room`
  bounds the queue together with what the service may still put (`MayPut`), so the put-back of a request finds room; `Order` says that what the
  service puts meanwhile is a request or has been in a session, so no fresh message is overtaken. With a queue of one the put of a
  retry takes the place of what the sender took out, and TLC finds a merged alert lost (the default of `mo_queue_len` is 4). `AlertNotLost` counts
  the flags, so that the loss of one of two is seen; a step may take one away only by attempting the session, or where the preparation
  of that session fails (isbd.c:187-197), in which case no session is attempted: the code gives the request up there.
- **`ZuartTxProofs`**. `IInv` strengthens `TypeOK` and `NothingStranded` with `NoRoomSeen` (a thread that waits, or is about to, without a
  token finds a full buffer), `PendNoToken` (a waiting thread has no token left unused), `NoClaim` (room is claimed only during the copy),
  `MayWait` and `OwnCode` (which calls and techniques reach which code). From it: `TypeCorrect`, `NeverStranded`, `WakeupKept`; `OrderKept`
  shows `LineOrder` inductive on top of it, with lemmas on concatenation; `ImplementsPort` maps each action to a step of `WritePort` or a stutter.
- **`ZuartRxProofs`**. `IInv` is `TypeOK` with `TokenForByte` (a thread about to wait although a byte is there will find a token),
  `PendNoToken`, `Claims` (the copy never takes more than the caller asked for, a drain all it saw), `OwnCode`, and `GivesUp` (a read
  that ends short knows that it does). From it: `TypeCorrect`, `WakeupKept`, and `ImplementsPort` for `ReadPort`.
  Without `TokenForByte` the wakeup property is not inductive: between the look at the buffer and the wait the interrupt may run.
  `EachByteKept`: the invariant `Whole` says by index what `EachByteOnce` says of the concatenation, which makes
  it inductive: one lemma for each thing that can happen to bytes (`WholeArrive`, `WholeDrop`, `WholeTake`, `WholePurge`), over any sequences, and each
  action is one of them. `HolesTold`: `HolesReported` speaks of a finished call only; `Flagged` (a drop that no report covers is
  remembered by the flag) makes it inductive through the two steps in which the flag is tested and reset.
- **`AtParseProofs`** (any buffer size, up to 254 lines and 65535 bytes, none of them NUL).
  `NoCounterWraps`: the counters never pass their 16 and 8 bits, since each grows with the bytes read or the lines expected.
  `ParserInBounds`: `TypeOK /\ InBounds` is inductive; `buf_size` = 0 is included. `TypeCorrect` follows.
  `EndsAtTheEnd`, `AnswerIsRight`, `OverflowIsRight`: the call returns at the byte that ends the answer by the reference, with its code, and its text is in
  the buffer or was cut as the code's test has it. The invariant `Reading` relates the code's counters to positions while the call
  runs: no end was read so far, `line_n` counts `Ends`, `buf_i` the characters and line ends kept, `buf_li` is the place of the last line
  end (`LineEndKnown`), what fits was written at its place (`Written`), and `at_buf` tells lines of no, one and more characters
  apart (`LineKnown`). The lemmas `Grown...` say that one byte more changes nothing of what the reference said before.
- **`AtSetupProofs`** (any configuration, settings and number of faults).
  `TypeCorrect`. `VerboseIsAgreed`: what a good result code of the configured kind holds is on its way only if the modem speaks that
  format (`Marked`).
  `FlowIsAgreed`: `Turns` says by stage what of an answer is still to be read, and that the modem has done all it was told before the
  next command is written, so that an OK cannot be an earlier command's; `Earned` adds that what is read or to be read holds an OK only if
  the command was applied.
  `SetupIsGood`: without a fault every command is applied in its turn (`Obeyed`) and the last two answers are read as OK (`Understood`).
- **`IsuLinkProofs`**. `TypeCorrect`: `IInv` adds to `TypeOK` which calls reach which stages (`OwnStages`) and what the modem may still be sending
  (`Sending`: only while it executes, and READY for AT+SBDWB alone). `SvcaKept`: `Tracks` says that the last SVCA event on the line tells the
  modem's availability, or there is none and the thread knows it; it looks at the whole line, where `SvcaTracks` looks at an empty one.
- **`IsuAnswerProofs`** (any calls, any number of them, any `Modes`). A call that starts with nothing left to do is alone on the line: all
  commands, lines and answers are its own, or events (`Alone`, `Begun`; commands are numbered in order, `Numbers`; each stage
  belongs to certain calls, `StageCalls`).
  `OkIsTrue` (`OkMeansDone`): before the command is done, an OK is on the line only behind the line that tells its refusal (`OkComesLast`,
  with `Guarded` relating the line and what the modem still sends), and the thread that has read this line will not return OK.
  `EchoFirst` and `Calm` say that the stage `echo` passes no such line and that no answer but that of AT+CIER has an SVCA event in it.
  What it leaves out is what `clean` and `EventTakenForText` leave out (2.4).
  `AnswerIsTrue` (`AnswerIsOwn`): similarly, what ends a call that returns a text comes behind its text (`TextFirst`), and behind the
  line that `isu_get_mt_txt` throws away (`HeadFirst`); a text that is not an event needs `~TextTakenForCode` too.
  `DataIsAwaited` (`DataWhenReady`): READY is the last line before the modem waits, and it waits until it is written to (`Ready`); this
  is about the READY of the call itself, not a late one of an earlier AT+SBDWB, after which a call does not start clean.
  `SessionIsTrue` (`SessionCarriesMessage`): what was stored is the last setter's message, and nothing the modem may still
  execute replaces it before the session (`Stored`, `Session`).
  `FailIsTrue` (`FailMeansNotDone`): with a modem in time and events apart, a command is not yet executed, prompted for its message,
  failed, or done, and then exactly the rest of its answer is to be read at each stage (`Exact`, `Course`, `Finishing`); a done
  command therefore ends with OK, unless its answer did not fit the buffer, and a refused one does not end with OVERFLOW, because
  what is read of a refusal fits (`ShortAnswer`; `Settled`).

The three refinements are proved as `Spec => Abstract!Spec`, with the mapping the runs check.

TLC checks each of these properties on the run's instance. Every invariant and every action property of the passing runs
is stated by a theorem. `OrderKept` and `AlertKept` have the hypothesis that one thread sends, as in the run `isbd_one_app`: with two, a
message that is put back goes behind another sender's.

Only model-checked: the liveness properties (`MessageResolved`, `RequestServed`, `CallReturns`, `EverythingSent`). Liveness under fairness is out of
reach of the prover.

## 6. Not modelled

- Failure of `zuart_setup`, whose result at_uart.c:376 ignores; `zuart_available`, which only reads a size.
- The AT commands that nothing calls (`at_uart_store_active_config` and the like); failure of `vsnprintf`; `dte->err`, except that AT_UART_OVERFLOW is told apart from
  the other reasons of ISU_DTE_ERR_AT.
- In `AtParse`: NUL bytes, and answers of more than 65535 bytes or calls for 255 lines, with which the counters would wrap.
- In `IsuLink`: `isu_set_evt_report` always asks for both indicators and waits for two events, as its only caller in lib/ does (isu.c:362-363
  allows 0 to 2). The caller's buffers are not empty, and that of `isu_get_mt_txt` has at least two bytes (with one, or with an empty text and
  numeric codes, `strlen - 1` indexes `mt_buf[65535]`, isu.c:308-310; an empty message with numeric codes is not modelled). A line that
  does not fit is a nondeterministic choice, not a comparison of lengths. Verbose `isu_get_mt_txt` overwrites the result of reading the text
  (isu.c:284-290), so a message cut by its buffer is returned with ISU_DTE_OK; the text, one line of the model, does not show the cut. The rest of
  a binary message longer than its buffer is one line, which is no result code.
- Priorities and the amount of time: a timed wait may end whenever the code could see it end.
- An event line cut by the 10 ms timeout of `isu_dte_evt_wait` (for which the modem would have to pause between two bytes), and a late
  answer cut by a drain: `IsuLink` cuts only events, and only at the drain. `IsuLink` is the line over an interrupt driven port; in
  polling mode `zuart_drain` purges nothing, so a stale answer may survive it (`Drain` of `ZuartRx` shows that).
- The overrun report of zuart is used by no caller: at_uart parses a line with a hole as if it were complete.
- The depth of the recursion of `_wait_for_dte_events`.
- Checksums and string helpers: the models use equality, and a checksum that does not agree is a choice of the modem.
- `samples/isbd_cmds`, LEDs, logging, the emulator tests.
- A late answer that arrives after the next command's drain is taken for that command's, and with numeric codes so is the rest of an event
  that the drain cut: `clean` (2.4) leaves such commands out of every property but `TypeOK`, `SvcaTracks` and `CallReturns`. An event purged by a
  drain (at_uart.c:292) leaves `svca` behind; `lost` marks it.

## 7. Plan

1. Done: the isbd service with its races, both directions and both modes of zuart, the parser, all isu commands, the setup.
2. Done: abstract specifications (`SbdDelivery`, `ReadPort`, `WritePort`), checked and proved to be implemented.
3. Left, composition: the parser over `ZuartRx`, to show what an overrun that nobody asks about does to an answer.
4. Done: theorems for every invariant and action property of the passing runs, and the three refinements. The composition of item 3
   would bring its own: that the parser's `seen` is what `ReadPort` hands over.
