------------------------------ MODULE ZuartRx ------------------------------
(***************************************************************************)
(* Reception (lib/zuart/zuart.c).  One thread calls zuart_read and         *)
(* zuart_drain ("not thread safe", zuart.h); another one may call          *)
(* zuart_force_read_timeout.  With interrupts, _uart_rx_isr fills a ring   *)
(* buffer and gives a binary semaphore to zuart_read_irq_proto; in polling *)
(* mode zuart_read_poll_proto takes the bytes from the UART itself.  When  *)
(* only the transmission uses interrupts ("shared"), the handler is there  *)
(* as well and may take a byte that nobody will find.                      *)
(*                                                                         *)
(* The boards have one core: the interrupt handler is one action, and it   *)
(* may run between any two actions of the thread.  ring_buf_get is not     *)
(* atomic: it claims bytes, copies them, and frees their room at the end.  *)
(* The bytes of the line are numbered in the order they arrive.            *)
(***************************************************************************)
EXTENDS Integers, Sequences, Functions

CONSTANTS
  RxSize,      \* config.rx_buf_size
  FifoDepth,   \* bytes the UART holds by itself, in polling mode
  MaxBytes,    \* bound: bytes that arrive on the line
  ReadSizes    \* values of n_bytes

ASSUME RxAssumption ==
  /\ RxSize \in Nat \ {0}
  /\ FifoDepth \in Nat \ {0}
  /\ MaxBytes \in Nat
  /\ ReadSizes \subseteq Nat

VARIABLES
  proto,      \* config.read_proto: "irq", "poll" or "none" (NULL); "shared"
              \* is polling beside a transmission with interrupts
  rx,         \* rx_rbuf, bytes the thread has claimed included; in polling
              \* mode the bytes in the UART
  claim,      \* number of bytes at the head of rx that are claimed
  sem,        \* count of rx_sem
  overrun,    \* FLAG_OVERRUN of zuart->flags
  err,        \* zuart->err
  pc,         \* where the reading thread is
  call,       \* the call it is in, "read" or "drain"
  timed,      \* timeout_ms > 0
  need,       \* n_bytes - total_bytes_read (size, in zuart_drain)
  semRet,     \* sem_ret < 0
  arrived,    \* history: bytes received so far
  got,        \* history: bytes zuart_read delivered, in order
  purged,     \* history: bytes zuart_drain threw away
  dropped,    \* history: bytes that found rx_rbuf full
  reported,   \* history: bytes that had arrived at the last overrun report
  wiped       \* history: k_sem_reset took the token the thread would find

line   == <<arrived, dropped>>
hist   == <<got, purged, reported>>
vars   == <<proto, rx, claim, sem, overrun, err, pc, call, timed, need, semRet,
            arrived, got, purged, dropped, reported, wiped>>

MinOf(a, b) == IF a <= b THEN a ELSE b

(***************************************************************************)
(* The interrupt.                                                          *)
(***************************************************************************)
Polled == proto \in {"poll", "shared"}

(* Mutant: without a waiting thread the give is forgotten.                 *)
GiveSem_OnlyWaiting ==
  IF pc = "pend" THEN pc' = "claim" /\ semRet' = FALSE /\ UNCHANGED sem
                 ELSE UNCHANGED <<sem, pc, semRet>>

(* k_sem_give( &zuart->rx_sem ): a pending thread gets the token, else the *)
(* count goes to its limit of one.                                         *)
GiveSem ==
  IF pc = "pend" THEN pc' = "claim" /\ semRet' = FALSE /\ UNCHANGED sem
                 ELSE sem' = 1 /\ UNCHANGED <<pc, semRet>>

(* Mutant: one byte too many.                                              *)
HasRoom_OffByOne == Len(rx) <= RxSize

HasRoom == Len(rx) < IF proto = "irq" THEN RxSize ELSE FifoDepth

(* Mutant: a full ring buffer is not recorded.                             *)
StoreByte_Silent(b) ==
  IF HasRoom THEN rx' = Append(rx, b) /\ UNCHANGED <<dropped, overrun>>
             ELSE dropped' = dropped \cup {b} /\ UNCHANGED <<rx, overrun>>

(* Mutant: a full ring buffer forgets its oldest byte.                     *)
StoreByte_Overwrite(b) ==
  /\ rx' = Append(IF HasRoom THEN rx ELSE Tail(rx), b)
  /\ UNCHANGED <<dropped, overrun>>

(* ring_buf_put( &zuart->rx_rbuf, &byte, 1 )                               *)
StoreByte(b) ==
  IF HasRoom THEN rx' = Append(rx, b) /\ UNCHANGED <<dropped, overrun>>
             ELSE dropped' = dropped \cup {b} /\ overrun' = TRUE /\ UNCHANGED rx

(* _uart_isr, receive side, with one byte in the UART FIFO.                *)
RxIsr ==
  /\ proto = "irq"
  /\ arrived < MaxBytes
  /\ arrived' = arrived + 1
  /\ StoreByte(arrived + 1)
  /\ GiveSem
  /\ wiped' = (wiped /\ pc # "pend")
  /\ UNCHANGED <<proto, claim, err, call, timed, need, got, purged, reported>>

(* In polling mode the UART keeps the byte, if it can.                     *)
FifoReceive ==
  /\ Polled
  /\ arrived < MaxBytes
  /\ arrived' = arrived + 1
  /\ IF HasRoom THEN rx' = Append(rx, arrived') /\ UNCHANGED dropped
                ELSE dropped' = dropped \cup {arrived'} /\ UNCHANGED rx
  /\ UNCHANGED <<proto, claim, sem, overrun, err, pc, call, timed, need, semRet, hist, wiped>>

(* _uart_isr again, called for the transmission: if the driver tells that  *)
(* a byte is ready, it is taken out of the UART and put in a ring buffer   *)
(* of no size.  The semaphore, of limit zero, keeps its count.             *)
StrayRxIsr ==
  /\ proto = "shared" /\ rx # <<>>
  /\ rx' = Tail(rx)
  /\ dropped' = dropped \cup {Head(rx)} /\ overrun' = TRUE
  /\ UNCHANGED <<proto, claim, sem, err, pc, call, timed, need, semRet, arrived, hist, wiped>>

(***************************************************************************)
(* zuart_read, and zuart_read_poll_proto                                   *)
(***************************************************************************)
ErrCodes == {"OK", "ERR", "OVERRUN", "TIMEOUT"}

(* zuart->err is whatever the last calls, of either direction, left.       *)
ReadCall ==
  /\ pc = "idle" /\ proto # "none"
  /\ err' \in ErrCodes
  /\ need' \in ReadSizes
  /\ timed' \in BOOLEAN
  /\ call' = "read" /\ semRet' = FALSE /\ wiped' = FALSE
  /\ pc' = IF proto = "irq" THEN "loop" ELSE "poll"
  /\ UNCHANGED <<proto, rx, claim, sem, overrun, line, hist>>

(* Without a protocol there is nothing to call.                            *)
ReadRefused ==
  /\ pc = "idle" /\ proto = "none"
  /\ err' = "ERR"
  /\ UNCHANGED <<proto, rx, claim, sem, overrun, pc, call, timed, need, semRet,
                 line, hist, wiped>>

(* uart_poll_in answers 0 with a byte.  It answers -1 when there is none:  *)
(* a timed call then yields and looks again.                               *)
PollByte ==
  /\ pc = "poll" /\ need > 0 /\ rx # <<>>
  /\ rx' = Tail(rx) /\ got' = Append(got, Head(rx)) /\ need' = need - 1
  /\ UNCHANGED <<proto, claim, sem, overrun, err, pc, call, timed, semRet, line,
                 purged, reported, wiped>>

PollEnd(e) ==
  /\ pc = "poll" /\ pc' = "idle" /\ err' = e
  /\ UNCHANGED <<proto, rx, claim, sem, overrun, call, timed, need, semRet,
                 line, hist, wiped>>

PollDone == need = 0 /\ PollEnd(err)

(* The time is looked at before each byte: it may be over with bytes there.*)
PollTimeout == need > 0 /\ timed /\ PollEnd("TIMEOUT")

(* uart_poll_in fails.                                                     *)
PollError == need > 0 /\ timed /\ PollEnd("ERR")

(* A call that may not wait ends at any answer but 0.                      *)
PollNoWait == need > 0 /\ ~timed /\ PollEnd(err)

(***************************************************************************)
(* zuart_read_irq_proto                                                    *)
(***************************************************************************)
(* while ( total_bytes_read < n_bytes ) if ( ring_buf_is_empty( ... ) )    *)
ReadLoop ==
  /\ pc = "loop"
  /\ pc' = IF need = 0 THEN "flags" ELSE IF rx = <<>> THEN "take" ELSE "claim"
  /\ UNCHANGED <<proto, rx, claim, sem, overrun, err, call, timed, need, semRet,
                 line, hist, wiped>>

(* k_sem_take( &zuart->rx_sem, k_timeout ): a token is there,              *)
TakeToken ==
  /\ pc = "take"
  /\ sem = 1
  /\ sem' = 0
  /\ pc' = "claim"
  /\ wiped' = FALSE
  /\ UNCHANGED <<proto, rx, claim, overrun, err, call, timed, need, semRet, line, hist>>

(* or the thread waits, or it may not wait (K_NO_WAIT).                    *)
TakeNone ==
  /\ pc = "take"
  /\ sem = 0
  /\ IF timed THEN pc' = "pend" /\ UNCHANGED semRet
              ELSE pc' = "flags" /\ semRet' = TRUE
  /\ UNCHANGED <<proto, rx, claim, sem, overrun, err, call, timed, need, line, hist, wiped>>

(* Mutant: the loop goes on after a failed k_sem_take.                     *)
AfterTimeout_NoBreak == "loop"

AfterTimeout == "flags"

(* The wait ends without a token (-EAGAIN).                                *)
TimeoutExpires ==
  /\ pc = "pend"
  /\ pc' = AfterTimeout
  /\ semRet' = TRUE
  /\ wiped' = FALSE
  /\ UNCHANGED <<proto, rx, claim, sem, overrun, err, call, timed, need, line, hist>>

(* ring_buf_get claims what there is,                                      *)
Claim ==
  /\ pc = "claim"
  /\ claim' = MinOf(need, Len(rx))
  /\ pc' = "copy"
  /\ UNCHANGED <<proto, rx, sem, overrun, err, call, timed, need, semRet, line, hist, wiped>>

(* claims again when the bytes wrap around the end of the buffer, with     *)
(* what arrived meanwhile,                                                 *)
ClaimAgain ==
  /\ pc = "copy"
  /\ claim < MinOf(need, Len(rx))
  /\ claim' = MinOf(need, Len(rx))
  /\ UNCHANGED <<proto, rx, sem, overrun, err, pc, call, timed, need, semRet, line, hist, wiped>>

(* Mutant: ring_buf_get is called once, as before the issue that the       *)
(* comment at zuart.c:55-67 names, and its result ends the read.           *)
AfterCopy_Once == "flags"

AfterCopy == IF call = "read" THEN "loop" ELSE "idle"

(* and ring_buf_get_finish frees their room.  zuart_drain passes no buffer.*)
Copy ==
  /\ pc = "copy"
  /\ rx' = SubSeq(rx, claim + 1, Len(rx))
  /\ IF call = "read"
     THEN got' = got \o SubSeq(rx, 1, claim) /\ UNCHANGED purged
     ELSE purged' = purged \cup {rx[i] : i \in 1..claim} /\ UNCHANGED got
  /\ need' = need - claim
  /\ claim' = 0
  /\ pc' = AfterCopy
  /\ UNCHANGED <<proto, sem, overrun, err, call, timed, semRet, line, reported, wiped>>

(* The flag is looked at, and the error code set.                          *)
CheckFlags ==
  /\ pc = "flags"
  /\ IF overrun
     THEN err' = "OVERRUN" /\ pc' = "clear"
     ELSE /\ err' = IF timed /\ semRet THEN "TIMEOUT" ELSE err
          /\ pc' = "idle"
  /\ UNCHANGED <<proto, rx, claim, sem, overrun, call, timed, need, semRet, line, hist, wiped>>

(* CLEAR_FLAG( zuart->flags, FLAG_OVERRUN ).  An overrun since CheckFlags  *)
(* is part of this report.                                                 *)
ClearFlag ==
  /\ pc = "clear"
  /\ overrun' = FALSE
  /\ reported' = arrived
  /\ pc' = "idle"
  /\ UNCHANGED <<proto, rx, claim, sem, err, call, timed, need, semRet, line,
                 got, purged, wiped>>

(***************************************************************************)
(* zuart_drain and zuart_force_read_timeout                                *)
(***************************************************************************)
(* ring_buf_size_get( &zuart->rx_rbuf ), which is empty in polling mode    *)
DrainSize == IF proto = "irq" THEN Len(rx) ELSE 0

Drain ==
  /\ pc = "idle"
  /\ call' = "drain" /\ pc' = "claim"
  /\ need' = DrainSize
  /\ UNCHANGED <<proto, rx, claim, sem, overrun, err, timed, semRet, line,
                 got, purged, reported, wiped>>

(* k_sem_reset wakes the pending thread with -EAGAIN, or takes away the    *)
(* token that the thread has not found yet.                                *)
ForceReadTimeout ==
  /\ proto = "irq"
  /\ sem' = 0
  /\ IF pc = "pend" THEN pc' = AfterTimeout /\ semRet' = TRUE
                    ELSE UNCHANGED <<pc, semRet>>
  /\ wiped' = (pc # "pend" /\ (wiped \/ (pc = "take" /\ sem = 1)))
  /\ UNCHANGED <<proto, rx, claim, overrun, err, call, timed, need, line, hist>>

(***************************************************************************)
(* The specification, after zuart_setup on a zeroed structure.             *)
(***************************************************************************)
Protos == {"irq", "poll", "shared", "none"}

(* In mode MIXED the caller chose both protocols, or none.                 *)
ReadProto(mode, given) ==
  CASE mode = "IRQ" -> "irq" [] mode = "POLL" -> "poll" [] mode = "MIXED" -> given

Init ==
  /\ \E mode \in {"IRQ", "POLL", "MIXED"}, given \in Protos : proto = ReadProto(mode, given)
  /\ rx = <<>> /\ claim = 0 /\ sem = 0
  /\ overrun = FALSE /\ err = "OK"
  /\ pc = "idle" /\ call = "read" /\ timed = FALSE /\ need = 0 /\ semRet = FALSE
  /\ arrived = 0 /\ got = <<>> /\ purged = {} /\ dropped = {}
  /\ reported = 0 /\ wiped = FALSE

(* What the reading thread does by itself, the end of its wait included.   *)
ReaderStep ==
  \/ ReadLoop \/ TakeToken \/ TakeNone \/ TimeoutExpires
  \/ Claim \/ ClaimAgain \/ Copy \/ CheckFlags \/ ClearFlag
  \/ PollByte \/ PollDone \/ PollTimeout \/ PollError \/ PollNoWait

Next ==
  \/ RxIsr \/ StrayRxIsr \/ FifoReceive
  \/ ReadCall \/ ReadRefused \/ Drain \/ ReaderStep \/ ForceReadTimeout

Spec == Init /\ [][Next]_vars

(* The thread is scheduled, and a K_MSEC timeout expires.                  *)
FairSpec == Spec /\ WF_vars(ReaderStep)

(***************************************************************************)
(* Properties.                                                             *)
(***************************************************************************)
(* Every variable has its type, and the ring buffer its capacity.          *)
TypeOK ==
  /\ proto \in Protos
  /\ rx \in Seq(Nat) /\ Len(rx) <= IF proto = "irq" THEN RxSize ELSE FifoDepth
  /\ claim \in 0..Len(rx) /\ sem \in {0, 1}
  /\ overrun \in BOOLEAN /\ err \in ErrCodes
  /\ pc \in {"idle", "poll", "loop", "take", "pend", "claim", "copy", "flags", "clear"}
  /\ call \in {"read", "drain"} /\ timed \in BOOLEAN /\ need \in Nat
  /\ semRet \in BOOLEAN
  /\ arrived \in Nat /\ got \in Seq(Nat) /\ purged \subseteq Nat
  /\ dropped \subseteq Nat /\ reported \in Nat
  /\ wiped \in BOOLEAN

Increasing(q) == \A i, j \in 1..Len(q) : i < j => q[i] < q[j]

(* The bytes the thread reads are the line's, in its order and none twice, *)
(* and every byte is delivered, still buffered, purged or counted as       *)
(* dropped: the interrupt and the copy never lose or repeat one.           *)
EachByteOnce ==
  /\ Increasing(got \o rx)
  /\ Range(got) \cup Range(rx) \cup purged \cup dropped = 1..arrived
  /\ (Range(got) \cup Range(rx) \cup purged) \cap dropped = {}
  /\ (Range(got) \cup Range(rx)) \cap purged = {}

(* No lost wakeup: a thread that waits for a byte waits on an empty ring   *)
(* buffer, unless zuart_force_read_timeout took the token away between its *)
(* look at the buffer and its wait.                                        *)
NoLostWakeup == pc = "pend" /\ ~wiped => rx = <<>>

(* A hole in the delivered data is never silent: when a call is over, each *)
(* byte dropped before the last one delivered has been reported as an      *)
(* overrun.  (In polling mode bytes are lost without a word.)              *)
HolesReported ==
  proto = "irq" /\ pc = "idle" /\ got # <<>> =>
    \A b \in dropped : b < got[Len(got)] => b <= reported

(* What the caller relies on, for every technique: a byte delivered comes  *)
(* from the head of what waits (only the interrupt of the other direction  *)
(* takes bytes away there); a timed read that is short has just set the    *)
(* error that says why, whatever error was there before; a loss of the     *)
(* interrupt driven port is told once, by the first read that ends after   *)
(* it; and a drain throws away all that was there when it was called,      *)
(* whatever comes meanwhile.                                               *)
Port == INSTANCE ReadPort WITH
  technique <- proto, queue <- rx, out <- got, wants <- need,
  missed <- overrun /\ proto = "irq",
  call <- CASE pc = "idle" -> "none" [] pc = "clear" -> "told" [] OTHER -> call
PortKept == Port!Spec

(* Every call returns, whatever arrives meanwhile.                         *)
CallReturns == pc # "idle" ~> pc = "idle"
=============================================================================
