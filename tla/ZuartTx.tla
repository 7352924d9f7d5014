------------------------------ MODULE ZuartTx ------------------------------
(***************************************************************************)
(* Transmission (lib/zuart/zuart.c): one thread calls zuart_write ("not    *)
(* thread safe", zuart.h).  zuart_write_irq_proto fills a ring buffer and  *)
(* enables the transmit interrupt; _uart_tx_isr moves bytes to the UART    *)
(* and disables the interrupt when it has nothing left to send.  In        *)
(* polling mode zuart_write_poll_proto gives the bytes to the UART itself. *)
(*                                                                         *)
(* The boards have one core: the interrupt handler is one action.  The     *)
(* bytes the thread hands to ring_buf_put are numbered in order.           *)
(***************************************************************************)
EXTENDS Integers, Sequences

CONSTANTS
  TxSize,      \* config.tx_buf_size
  HwDepth,     \* bytes the UART's own FIFO takes
  MaxBytes,    \* bound: bytes handed to the ring buffer
  WriteSizes   \* values of n_bytes

ASSUME TxAssumption ==
  /\ TxSize \in Nat \ {0}
  /\ HwDepth \in Nat \ {0}
  /\ MaxBytes \in Nat
  /\ WriteSizes \subseteq Nat

VARIABLES
  proto,      \* config.write_proto: "irq", "poll" or "none" (NULL)
  tx,         \* tx_rbuf, bytes put and not yet taken by the interrupt
  claim,      \* bytes ring_buf_put has room for and is copying
  sem,        \* count of tx_sem
  irq,        \* the transmit interrupt is enabled
  err,        \* zuart->err
  pc,         \* where the writing thread is
  timed,      \* timeout_ms > 0
  need,       \* n_bytes - total_bytes_written
  hw,         \* bytes in the UART (FIFO and shift register)
  sent,       \* history: bytes put on the line, in order
  put,        \* history: bytes put in the ring buffer so far
  wiped       \* history: k_sem_reset took the token the thread would find

uart == <<hw, sent>>
vars == <<proto, tx, claim, sem, irq, err, pc, timed, need, hw, sent, put, wiped>>

MinOf(a, b) == IF a <= b THEN a ELSE b
Bytes(from, to) == [i \in 1..(to - from) |-> from + i]

(***************************************************************************)
(* The UART and its interrupt.                                             *)
(***************************************************************************)
(* One byte leaves.  Disabling the interrupt halts the transmission too    *)
(* (the comment at zuart.c:355-358).                                       *)
LineSend ==
  /\ irq \/ proto = "poll"
  /\ hw # <<>>
  /\ sent' = Append(sent, Head(hw))
  /\ hw' = Tail(hw)
  /\ UNCHANGED <<proto, tx, claim, sem, irq, err, pc, timed, need, put, wiped>>

(* k_sem_give( &zuart->tx_sem )                                            *)
GiveSem ==
  IF pc = "pend" THEN pc' = "put" /\ UNCHANGED sem
                 ELSE sem' = 1 /\ UNCHANGED pc

(* uart_irq_tx_ready, and a byte to send                                   *)
TxIsrSend ==
  /\ irq /\ Len(hw) < HwDepth
  /\ tx # <<>>
  /\ hw' = Append(hw, Head(tx))
  /\ tx' = Tail(tx)
  /\ GiveSem
  /\ wiped' = (wiped /\ pc # "pend")
  /\ UNCHANGED <<proto, claim, irq, err, timed, need, sent, put>>

(* Mutant: disabled as soon as the ring buffer is empty.                   *)
TxComplete_Early == TRUE

(* uart_irq_tx_complete                                                    *)
TxComplete == hw = <<>>

(* Nothing to send: the interrupt is disabled once the UART is done.       *)
TxIsrStop ==
  /\ irq /\ Len(hw) < HwDepth
  /\ tx = <<>>
  /\ TxComplete
  /\ irq' = FALSE
  /\ UNCHANGED <<proto, tx, claim, sem, err, pc, timed, need, uart, put, wiped>>

(***************************************************************************)
(* zuart_write, and zuart_write_poll_proto                                 *)
(***************************************************************************)
ErrCodes == {"OK", "ERR", "OVERRUN", "TIMEOUT"}

(* zuart->err is whatever the last calls, of either direction, left.       *)
(* k_sem_reset( &zuart->tx_sem ): nobody waits for it.                     *)
WriteCall ==
  /\ pc = "idle" /\ proto # "none"
  /\ err' \in ErrCodes
  /\ need' \in {n \in WriteSizes : put + n <= MaxBytes}
  /\ timed' \in BOOLEAN
  /\ sem' = 0 /\ wiped' = FALSE
  /\ pc' = IF proto = "poll" THEN "poll" ELSE IF timed' THEN "loop" ELSE "put"
  /\ UNCHANGED <<proto, tx, claim, irq, uart, put>>

(* Without a protocol there is nothing to call.                            *)
WriteRefused ==
  /\ pc = "idle" /\ proto = "none"
  /\ err' = "ERR"
  /\ UNCHANGED <<proto, tx, claim, sem, irq, pc, timed, need, uart, put, wiped>>

(* uart_poll_out waits until the UART takes the byte.                      *)
PollOut ==
  /\ pc = "poll" /\ need > 0 /\ Len(hw) < HwDepth
  /\ hw' = Append(hw, put + 1)
  /\ put' = put + 1 /\ need' = need - 1
  /\ UNCHANGED <<proto, tx, claim, sem, irq, err, pc, timed, sent, wiped>>

PollDone ==
  /\ pc = "poll" /\ need = 0
  /\ pc' = "idle"
  /\ UNCHANGED <<proto, tx, claim, sem, irq, err, timed, need, uart, put, wiped>>

(***************************************************************************)
(* zuart_write_irq_proto                                                   *)
(***************************************************************************)
(* Mutant: waits for the semaphore without looking at the space.           *)
HasSpace_Never == FALSE

(* ring_buf_space_get( &zuart->tx_rbuf ) != 0                              *)
HasSpace == Len(tx) < TxSize

WriteLoop ==
  /\ pc = "loop"
  /\ pc' = IF need = 0 THEN "idle" ELSE IF HasSpace THEN "put" ELSE "take"
  /\ UNCHANGED <<proto, tx, claim, sem, irq, err, timed, need, uart, put, wiped>>

TakeToken ==
  /\ pc = "take" /\ sem = 1
  /\ sem' = 0 /\ pc' = "put" /\ wiped' = FALSE
  /\ UNCHANGED <<proto, tx, claim, irq, err, timed, need, uart, put>>

TakeNone ==
  /\ pc = "take" /\ sem = 0
  /\ pc' = "pend"
  /\ UNCHANGED <<proto, tx, claim, sem, irq, err, timed, need, uart, put, wiped>>

(* Mutant: a timeout is not recorded.                                      *)
TimeoutErr_Forgotten == err

TimeoutErr == "TIMEOUT"

TimeoutExpires ==
  /\ pc = "pend"
  /\ err' = TimeoutErr /\ pc' = "idle" /\ wiped' = FALSE
  /\ UNCHANGED <<proto, tx, claim, sem, irq, timed, need, uart, put>>

(* Mutant: one byte too many.                                              *)
Room_OffByOne == TxSize - Len(tx) + 1

Room == TxSize - Len(tx)

(* ring_buf_put claims room,                                               *)
PutClaim ==
  /\ pc = "put"
  /\ claim' = MinOf(need, Room)
  /\ pc' = "copy"
  /\ UNCHANGED <<proto, tx, sem, irq, err, timed, need, uart, put, wiped>>

(* again when it wraps around the end of the buffer, with the room made    *)
(* meanwhile,                                                              *)
PutClaimAgain ==
  /\ pc = "copy"
  /\ claim < MinOf(need, Room)
  /\ claim' = MinOf(need, Room)
  /\ UNCHANGED <<proto, tx, sem, irq, err, pc, timed, need, uart, put, wiped>>

(* Mutant: the transmit interrupt is not enabled again.                    *)
AfterPut_NoEnable == IF timed THEN "loop" ELSE "idle"

AfterPut == "enable"

(* Mutant: the caller assumes that everything was accepted.                *)
Accepted_Assumed == need

(* total_bytes_written += ring_buf_put( ... )                              *)
Accepted == claim

(* and ring_buf_put_finish makes the bytes visible to the interrupt.       *)
PutFinish ==
  /\ pc = "copy"
  /\ tx' = tx \o Bytes(put, put + claim)
  /\ put' = put + Accepted
  /\ need' = need - Accepted
  /\ claim' = 0
  /\ pc' = AfterPut
  /\ UNCHANGED <<proto, sem, irq, err, timed, uart, wiped>>

(* uart_irq_tx_enable( zuart->dev )                                        *)
EnableIrq ==
  /\ pc = "enable"
  /\ irq' = TRUE
  /\ pc' = IF timed THEN "loop" ELSE "idle"
  /\ UNCHANGED <<proto, tx, claim, sem, err, timed, need, uart, put, wiped>>

(* zuart_force_write_timeout, called by another thread                     *)
ForceWriteTimeout ==
  /\ proto = "irq"
  /\ sem' = 0
  /\ IF pc = "pend" THEN pc' = "idle" /\ err' = TimeoutErr
                    ELSE UNCHANGED <<pc, err>>
  /\ wiped' = (pc # "pend" /\ (wiped \/ (pc = "take" /\ sem = 1)))
  /\ UNCHANGED <<proto, tx, claim, irq, timed, need, uart, put>>

(***************************************************************************)
(* The specification, after zuart_setup.                                   *)
(***************************************************************************)
Protos == {"irq", "poll", "none"}

(* In mode MIXED the caller chose the protocol, or none.                   *)
WriteProto(mode, given) ==
  CASE mode = "IRQ" -> "irq" [] mode = "POLL" -> "poll" [] mode = "MIXED" -> given

Init ==
  /\ \E mode \in {"IRQ", "POLL", "MIXED"}, given \in Protos : proto = WriteProto(mode, given)
  /\ tx = <<>> /\ claim = 0 /\ sem = 0 /\ irq = FALSE /\ err = "OK"
  /\ pc = "idle" /\ timed = FALSE /\ need = 0
  /\ hw = <<>> /\ sent = <<>> /\ put = 0 /\ wiped = FALSE

WriterStep ==
  \/ WriteLoop \/ TakeToken \/ TakeNone \/ TimeoutExpires
  \/ PutClaim \/ PutClaimAgain \/ PutFinish \/ EnableIrq
  \/ PollOut \/ PollDone

Next ==
  \/ WriteCall \/ WriteRefused \/ WriterStep \/ ForceWriteTimeout
  \/ TxIsrSend \/ TxIsrStop \/ LineSend

Spec == Init /\ [][Next]_vars

(* The thread is scheduled, the interrupt is served, the UART sends.       *)
FairSpec == Spec /\ WF_vars(WriterStep) /\ WF_vars(TxIsrSend) /\ WF_vars(LineSend)

(***************************************************************************)
(* Properties.                                                             *)
(***************************************************************************)
(* Every variable has its type, the ring buffer and the UART their         *)
(* capacity, and the copy writes only to room that is free.                *)
TypeOK ==
  /\ proto \in Protos
  /\ tx \in Seq(Nat) /\ claim \in Nat /\ Len(tx) + claim <= TxSize
  /\ sem \in {0, 1} /\ irq \in BOOLEAN /\ err \in ErrCodes
  /\ pc \in {"idle", "poll", "loop", "take", "pend", "put", "copy", "enable"}
  /\ timed \in BOOLEAN /\ need \in Nat /\ claim <= need
  /\ hw \in Seq(Nat) /\ Len(hw) <= HwDepth
  /\ sent \in Seq(Nat) /\ put \in Nat /\ wiped \in BOOLEAN

(* What was put on the line, in the UART and in the ring buffer is, in     *)
(* this order, what the thread put: no byte is lost, repeated or overtaken *)
(* by the races between the thread's copy and the interrupt.               *)
LineOrder == sent \o hw \o tx = Bytes(0, put)

(* The interrupt is never left disabled with work to do: if it is off, the *)
(* ring buffer and the UART are empty or the thread is about to enable it. *)
NothingStranded == proto = "irq" /\ ~irq => hw = <<>> /\ (tx = <<>> \/ pc = "enable")

(* A thread that waits for room waits for an interrupt that will come: the *)
(* ring buffer is full and the interrupt enabled.  (Unless                 *)
(* zuart_force_write_timeout took the token away between its look at the   *)
(* space and its wait.)                                                    *)
NoLostWakeup == pc = "pend" /\ ~wiped => irq /\ Len(tx) = TxSize

(* What the caller relies on, for both techniques: the bytes accepted      *)
(* leave in order, and a timed write that is short has just set the error  *)
(* that says so (at_uart_write looks at it), whatever was there before.    *)
Port == INSTANCE WritePort WITH
  technique <- proto, accepted <- put, queue <- hw \o tx, out <- sent,
  busy <- pc # "idle", wants <- need
PortKept == Port!Spec

(* Every byte that was accepted reaches the line.                          *)
EverythingSent == \A n \in 1..MaxBytes : put >= n ~> Len(sent) >= n
=============================================================================
