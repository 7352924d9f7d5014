--------------------------- MODULE ZuartRxProofs ---------------------------
(***************************************************************************)
(* Theorems about ZuartRx for any size of the ring buffer and any number   *)
(* of bytes.                                                               *)
(***************************************************************************)
EXTENDS ZuartRx, SequenceTheorems, TLAPS

(***************************************************************************)
(* Lemmas about sequences.                                                 *)
(***************************************************************************)
(* The first byte, and what is left.                                       *)
LEMMA TakeFirst ==
  ASSUME NEW r \in Seq(Nat), NEW g \in Seq(Nat), r # <<>>
  PROVE  /\ Tail(r) = SubSeq(r, 1 + 1, Len(r))
         /\ Append(g, Head(r)) = g \o SubSeq(r, 1, 1)
         /\ 1 \in 1..Len(r)
<1>1. Len(r) \in Nat \ {0} /\ Head(r) = r[1] /\ r[1] \in Nat
  BY EmptySeq, ElementOfSeq
<1>2. Tail(r) = SubSeq(r, 1 + 1, Len(r))
  BY TailIsSubSeq, 1 + 1 = 2
<1>3. SubSeq(r, 1, 1) = <<r[1]>>
  <2> DEFINE q == SubSeq(r, 1, 1)
  <2>1. 1 \in Nat /\ \A i \in 1..1 : r[i] \in Nat
    BY <1>1
  <2>2. q \in Seq(Nat) /\ Len(q) = 1 /\ q[1] = r[1]
    BY <1>1, <2>1, SubSeqProperties
  <2> HIDE DEF q
  <2>3. q = <<r[1]>>
    BY <2>2
  <2> QED
    BY <2>3 DEF q
<1>4. Append(g, r[1]) = g \o <<r[1]>>
  BY <1>1
<1> QED
  BY <1>1, <1>2, <1>3, <1>4

(* Nothing is taken.                                                       *)
LEMMA TakeNothing ==
  ASSUME NEW r \in Seq(Nat), NEW g \in Seq(Nat), NEW k \in Nat, k = 0
  PROVE  SubSeq(r, k + 1, Len(r)) = r /\ g \o SubSeq(r, 1, k) = g
<1>1. SubSeq(r, k + 1, Len(r)) = r
  BY SubSeqFull, k + 1 = 1
<1>2. SubSeq(r, 1, k) = <<>>
  <2>1. SubSeq(r, 1, 0) = <<>>
    OBVIOUS
  <2> QED
    BY <2>1
<1> QED
  BY <1>1, <1>2, ConcatEmptySeq

(***************************************************************************)
(* The inductive invariant.                                                *)
(***************************************************************************)
(* A thread that is about to wait although a byte has arrived will find    *)
(* the token the interrupt left, unless a forced timeout took it.          *)
TokenForByte == pc \in {"take", "pend"} /\ ~wiped /\ rx # <<>> => sem = 1
PendNoToken == pc = "pend" => sem = 0

(* Bytes are claimed only while they are copied, and no more than needed;  *)
(* zuart_drain gets all it saw.                                            *)
Claims ==
  /\ pc = "copy" => claim <= need
  /\ pc # "copy" => claim = 0
  /\ pc = "claim" /\ call = "drain" => need <= Len(rx)
  /\ pc = "copy" /\ call = "drain" => claim = need

(* Each protocol has its own code.                                         *)
OwnCode ==
  /\ pc = "poll" => Polled /\ call = "read"
  /\ pc \in {"loop", "take", "pend", "flags", "clear"} => proto = "irq" /\ call = "read"
  /\ pc \in {"claim", "copy"} /\ call = "read" => proto = "irq"

(* A read gives up only when it lacks bytes, and remembers that it did.    *)
GivesUp ==
  /\ pc \in {"take", "pend"} => need > 0
  /\ pc \in {"loop", "take", "pend", "claim", "copy"} /\ call = "read" => ~semRet
  /\ pc = "flags" /\ timed => (semRet <=> need > 0)

(* zuart_drain finds nothing in the ring buffer of a polled port.          *)
DrainsNothing == pc \in {"claim", "copy"} /\ proto # "irq" => need = 0

Flow ==
  TokenForByte /\ PendNoToken /\ Claims /\ OwnCode /\ GivesUp /\ DrainsNothing
IInv == TypeOK /\ Flow

Capacity == IF proto = "irq" THEN RxSize ELSE FifoDepth
SeqsOK == rx \in Seq(Nat) /\ Len(rx) <= Capacity /\ claim \in 0..Len(rx) /\ got \in Seq(Nat)

LEMMA InitInv == Init => IInv
<1> SUFFICES ASSUME Init PROVE IInv
  OBVIOUS
<1>1. <<>> \in Seq(Nat) /\ Len(<<>>) = 0
  BY EmptySeq
<1>2. SeqsOK
  BY <1>1, RxAssumption DEF Init, SeqsOK, Capacity
<1>3. overrun \in BOOLEAN /\ timed \in BOOLEAN /\ semRet \in BOOLEAN /\ wiped \in BOOLEAN
  BY DEF Init
<1>4. proto \in Protos
  BY DEF Init, ReadProto, Protos
<1>5. TypeOK
  BY <1>2, <1>3, <1>4 DEF Init, SeqsOK, Capacity, TypeOK, ErrCodes
<1> QED
  BY <1>5 DEF Init, IInv, Flow, TokenForByte, PendNoToken, Claims, OwnCode, GivesUp, DrainsNothing

(* A byte arrives: it is stored if it fits, and the token is given.        *)
LEMMA RxIsrInv == IInv /\ RxIsr => IInv'
<1> SUFFICES ASSUME IInv, RxIsr PROVE IInv'
  OBVIOUS
<1>1. TypeOK /\ arrived' = arrived + 1 /\ arrived' \in Nat
      /\ wiped' = (wiped /\ pc # "pend")
      /\ UNCHANGED <<proto, claim, err, call, timed, need, got, purged, reported>>
      /\ proto = "irq" /\ Capacity = RxSize
  BY DEF RxIsr, IInv, TypeOK, Capacity
<1>2. \/ /\ Len(rx) < RxSize
         /\ rx' = Append(rx, arrived') /\ dropped' = dropped /\ overrun' = overrun
      \/ rx' = rx /\ dropped' = dropped \cup {arrived'} /\ overrun' = TRUE
  BY <1>1 DEF RxIsr, StoreByte, HasRoom
<1>3. \/ pc = "pend" /\ pc' = "claim" /\ semRet' = FALSE /\ sem' = sem
      \/ pc # "pend" /\ sem' = 1 /\ pc' = pc /\ semRet' = semRet
  BY DEF RxIsr, GiveSem
<1>4. SeqsOK'
  <2>1. CASE rx' = Append(rx, arrived') /\ Len(rx) < RxSize
    <3>1. Append(rx, arrived') \in Seq(Nat) /\ Len(Append(rx, arrived')) = Len(rx) + 1
      BY <1>1, AppendProperties DEF TypeOK
    <3>2. Len(rx) \in Nat
      BY <1>1, LenProperties DEF TypeOK
    <3> QED
      BY <1>1, <2>1, <3>1, <3>2, RxAssumption DEF TypeOK, SeqsOK, Capacity
  <2>2. CASE rx' = rx
    BY <1>1, <2>2 DEF TypeOK, SeqsOK, Capacity
  <2> QED
    BY <1>2, <2>1, <2>2
<1>5. overrun' \in BOOLEAN /\ semRet' \in BOOLEAN /\ wiped' \in BOOLEAN
  BY <1>1, <1>2, <1>3 DEF TypeOK
<1>6. dropped' \subseteq Nat
  BY <1>1, <1>2 DEF TypeOK
<1>7. sem' \in {0, 1} /\ pc' \in {"idle", "poll", "loop", "take", "pend", "claim", "copy", "flags", "clear"}
  BY <1>1, <1>3 DEF TypeOK
<1>8. TypeOK'
  BY <1>1, <1>4, <1>5, <1>6, <1>7 DEF TypeOK, SeqsOK, Capacity
<1>9. Len(rx') >= Len(rx)
  <2>1. Len(rx) \in Nat /\ Len(Append(rx, arrived')) = Len(rx) + 1
    BY <1>1, LenProperties, AppendProperties DEF TypeOK
  <2> QED
    BY <1>2, <2>1
<1>10. TokenForByte' /\ PendNoToken'
  BY <1>1, <1>3 DEF IInv, Flow, TokenForByte, PendNoToken
<1>11. Claims'
  <2>1. Len(rx) \in Nat /\ Len(rx') \in Nat /\ need \in Nat
    BY <1>1, <1>4, LenProperties DEF TypeOK, SeqsOK
  <2>2. pc' = pc \/ (pc = "pend" /\ pc' = "claim")
    BY <1>3
  <2>3. (pc = "pend" => call = "read") /\ call \in {"read", "drain"}
    BY <1>1 DEF IInv, Flow, OwnCode, TypeOK
  <2> QED
    BY <1>1, <1>9, <2>1, <2>2, <2>3 DEF IInv, Flow, Claims
<1>12. OwnCode' /\ GivesUp' /\ DrainsNothing'
  BY <1>1, <1>2, <1>3 DEF IInv, Flow, OwnCode, Polled, GivesUp, DrainsNothing
<1> QED
  BY <1>8, <1>10, <1>11, <1>12 DEF IInv, Flow

(* In polling mode the UART keeps a byte,                                  *)
LEMMA FifoReceiveInv == IInv /\ FifoReceive => IInv'
<1> SUFFICES ASSUME IInv, FifoReceive PROVE IInv'
  OBVIOUS
<1>1. /\ TypeOK /\ Len(rx) \in Nat /\ arrived' = arrived + 1 /\ arrived' \in Nat
      /\ proto # "irq" /\ Polled
      /\ UNCHANGED <<proto, claim, sem, overrun, err, pc, call, timed, need, semRet,
                     got, purged, reported, wiped>>
  BY LenProperties DEF FifoReceive, Polled, hist, IInv, TypeOK
<1>2. \/ rx' = Append(rx, arrived') /\ Len(rx) < FifoDepth /\ dropped' = dropped
      \/ rx' = rx /\ dropped' = dropped \cup {arrived'}
  BY <1>1 DEF FifoReceive, HasRoom
<1>3. Append(rx, arrived') \in Seq(Nat) /\ Len(Append(rx, arrived')) = Len(rx) + 1
  BY <1>1, AppendProperties DEF TypeOK
<1>4. /\ rx' \in Seq(Nat) /\ Len(rx') \in Nat /\ Len(rx) <= Len(rx')
      /\ Len(rx') <= FifoDepth
  <2>1. CASE rx' = rx
    BY <1>1, <2>1 DEF TypeOK
  <2>2. CASE rx' = Append(rx, arrived') /\ Len(rx) < FifoDepth
    <3> DEFINE more == Append(rx, arrived')
    <3>1. more \in Seq(Nat) /\ Len(more) = Len(rx) + 1 /\ rx' = more
      BY <1>3, <2>2
    <3> HIDE DEF more
    <3>2. Len(rx) + 1 \in Nat /\ Len(rx) <= Len(rx) + 1 /\ Len(rx) + 1 <= FifoDepth
      BY <1>1, <2>2, RxAssumption
    <3> QED
      BY <3>1, <3>2
  <2> QED
    BY <1>2, <2>1, <2>2
<1>5. dropped' \subseteq Nat
  BY <1>1, <1>2 DEF TypeOK
<1>6. TypeOK'
  BY <1>1, <1>4, <1>5 DEF TypeOK
<1>7. Flow'
  BY <1>1, <1>4 DEF IInv, Flow, TokenForByte, PendNoToken, Claims, OwnCode, GivesUp, DrainsNothing, TypeOK,
     Polled
<1> QED
  BY <1>6, <1>7 DEF IInv

(* and the thread takes one from it.                                       *)
LEMMA PollByteInv == IInv /\ PollByte => IInv'
<1> SUFFICES ASSUME IInv, PollByte PROVE IInv'
  OBVIOUS
<1>1. /\ TypeOK /\ rx # <<>> /\ pc = "poll" /\ proto # "irq" /\ claim = 0
      /\ need \in Nat /\ need > 0 /\ Len(rx) \in Nat
      /\ rx' = Tail(rx) /\ got' = Append(got, Head(rx)) /\ need' = need - 1
      /\ UNCHANGED <<proto, claim, sem, overrun, err, pc, call, timed, semRet,
                     arrived, dropped, purged, reported, wiped>>
  BY LenProperties DEF PollByte, line, IInv, Flow, Claims, OwnCode, TypeOK, Polled
<1>2. /\ Head(rx) \in Nat /\ Tail(rx) \in Seq(Nat) /\ Len(Tail(rx)) = Len(rx) - 1
      /\ Len(Tail(rx)) \in Nat
  BY <1>1, HeadTailProperties, LenProperties DEF TypeOK
<1>3. Append(got, Head(rx)) \in Seq(Nat)
  BY <1>1, <1>2, AppendProperties DEF TypeOK
<1>4. TypeOK'
  BY <1>1, <1>2, <1>3, RxAssumption DEF TypeOK
<1>5. Flow'
  BY <1>1 DEF IInv, Flow, TokenForByte, PendNoToken, Claims, OwnCode, GivesUp, DrainsNothing, Polled
<1> QED
  BY <1>4, <1>5 DEF IInv

(* The interrupt of the other direction takes one away.                    *)
LEMMA StrayInv == IInv /\ StrayRxIsr => IInv'
<1> SUFFICES ASSUME IInv, StrayRxIsr PROVE IInv'
  OBVIOUS
<1>1. /\ TypeOK /\ Flow /\ rx # <<>> /\ proto = "shared" /\ Len(rx) \in Nat
      /\ rx' = Tail(rx) /\ dropped' = dropped \cup {Head(rx)} /\ overrun' = TRUE
      /\ UNCHANGED <<proto, claim, sem, err, pc, call, timed, need, semRet, arrived,
                     got, purged, reported, wiped>>
  BY LenProperties DEF StrayRxIsr, hist, IInv, TypeOK
<1>2. /\ Head(rx) \in Nat /\ Tail(rx) \in Seq(Nat) /\ Len(Tail(rx)) = Len(rx) - 1
      /\ Len(Tail(rx)) \in Nat
  BY <1>1, HeadTailProperties, LenProperties DEF TypeOK
<1>3. call = "drain" => need = 0 \/ pc \notin {"claim", "copy"}
  BY <1>1 DEF DrainsNothing, Flow
<1>4. claim' \in 0..Len(rx')
  BY <1>1, <1>2, <1>3 DEF Flow, Claims, OwnCode, TypeOK
<1>5. TypeOK'
  <2>1. dropped' \subseteq Nat /\ overrun' \in BOOLEAN
    BY <1>1, <1>2 DEF TypeOK
  <2>2. rx' \in Seq(Nat) /\ Len(rx') <= FifoDepth /\ proto # "irq"
    BY <1>1, <1>2, RxAssumption DEF TypeOK
  <2> QED
    BY <1>1, <1>4, <2>1, <2>2 DEF TypeOK
<1>6. Flow'
  BY <1>1, <1>2, <1>3 DEF Flow, TokenForByte, PendNoToken, Claims, OwnCode, GivesUp,
     DrainsNothing, Polled, TypeOK
<1> QED
  BY <1>5, <1>6 DEF IInv

(* The claimed bytes are taken out.                                        *)
LEMMA CopyInv == IInv /\ Copy => IInv'
<1> SUFFICES ASSUME IInv, Copy PROVE IInv'
  OBVIOUS
<1>1. /\ TypeOK /\ pc = "copy" /\ claim <= need /\ rx \in Seq(Nat)
      /\ claim \in 0..Len(rx) /\ Len(rx) \in Nat /\ need \in Nat
  BY LenProperties DEF Copy, IInv, Flow, TypeOK, Claims
<1>2. /\ rx' = SubSeq(rx, claim + 1, Len(rx)) /\ need' = need - claim /\ claim' = 0
      /\ pc' = IF call = "read" THEN "loop" ELSE "idle"
      /\ UNCHANGED <<proto, sem, overrun, err, call, timed, semRet, line, reported, wiped>>
  BY DEF Copy, AfterCopy
<1>3. \/ got' = got \o SubSeq(rx, 1, claim) /\ purged' = purged
      \/ purged' = purged \cup {rx[i] : i \in 1..claim} /\ got' = got
  BY DEF Copy
<1>4. \A i \in 1..Len(rx) : rx[i] \in Nat
  BY <1>1, ElementOfSeq
<1>5. /\ SubSeq(rx, claim + 1, Len(rx)) \in Seq(Nat)
      /\ Len(SubSeq(rx, claim + 1, Len(rx))) <= Len(rx)
      /\ Len(SubSeq(rx, claim + 1, Len(rx))) \in Nat
  <2>1. \A i \in (claim + 1)..Len(rx) : rx[i] \in Nat
    BY <1>1, <1>4
  <2>2. claim + 1 \in Int /\ Len(rx) \in Int
    BY <1>1
  <2> QED
    BY <1>1, <2>1, <2>2, SubSeqProperties
<1>6. SubSeq(rx, 1, claim) \in Seq(Nat)
  BY <1>1, <1>4, SubSeqProperties
<1>7. got' \in Seq(Nat) /\ purged' \subseteq Nat
  <2>1. got \o SubSeq(rx, 1, claim) \in Seq(Nat)
    BY <1>1, <1>6, ConcatProperties DEF TypeOK
  <2>2. {rx[i] : i \in 1..claim} \subseteq Nat
    BY <1>1, <1>4
  <2> QED
    BY <1>1, <1>3, <2>1, <2>2 DEF TypeOK
<1>8. SeqsOK' /\ need' \in Nat
  BY <1>1, <1>2, <1>5, <1>7, RxAssumption DEF TypeOK, SeqsOK, Capacity
<1>9. TypeOK'
  BY <1>1, <1>2, <1>7, <1>8 DEF TypeOK, SeqsOK, Capacity, line
<1>10. Flow'
  BY <1>1, <1>2 DEF IInv, Flow, TokenForByte, PendNoToken, Claims, OwnCode, GivesUp, DrainsNothing
<1> QED
  BY <1>9, <1>10 DEF IInv

(* The steps that move no byte.                                            *)
LEMMA StepInv == IInv /\ [Next]_vars => IInv'
<1> SUFFICES ASSUME IInv, [Next]_vars PROVE IInv'
  OBVIOUS
<1> USE RxAssumption DEF IInv, TypeOK, Flow, TokenForByte, PendNoToken, Claims, OwnCode,
        GivesUp, DrainsNothing, Polled, ErrCodes, line, hist
<1>0. Len(rx) \in Nat
  BY LenProperties
<1>1. CASE ReadCall
  <2>1. need' \in Nat /\ timed' \in BOOLEAN /\ semRet' = FALSE /\ wiped' = FALSE
        /\ err' \in ErrCodes /\ proto \in {"irq", "poll", "shared"}
    BY <1>1 DEF ReadCall, Protos
  <2>2. semRet' \in BOOLEAN /\ wiped' \in BOOLEAN
    BY <2>1
  <2> QED
    BY <1>1, <2>1, <2>2 DEF ReadCall
<1>2. CASE ReadLoop
  BY <1>2 DEF ReadLoop
<1>3. CASE TakeToken
  <2>1. wiped' \in BOOLEAN
    BY <1>3 DEF TakeToken
  <2> QED
    BY <1>3, <2>1 DEF TakeToken
<1>4. CASE TakeNone
  <2>1. semRet' \in BOOLEAN
    BY <1>4 DEF TakeNone
  <2> QED
    BY <1>4, <2>1 DEF TakeNone
<1>5. CASE TimeoutExpires
  <2>1. semRet' = TRUE /\ semRet' \in BOOLEAN /\ wiped' \in BOOLEAN
    BY <1>5 DEF TimeoutExpires
  <2> QED
    BY <1>5, <2>1 DEF TimeoutExpires, AfterTimeout
<1>6. CASE Claim
  BY <1>0, <1>6 DEF Claim, MinOf
<1>7. CASE ClaimAgain
  BY <1>0, <1>7 DEF ClaimAgain, MinOf
<1>8. CASE CheckFlags
  BY <1>8 DEF CheckFlags
<1>9. CASE ClearFlag
  <2>1. overrun' = FALSE /\ overrun' \in BOOLEAN
    BY <1>9 DEF ClearFlag
  <2> QED
    BY <1>9, <2>1 DEF ClearFlag
<1>10. CASE Drain
  BY <1>0, <1>10 DEF Drain, DrainSize
<1>11. CASE ForceReadTimeout
  <2>1. semRet' \in BOOLEAN /\ wiped' \in BOOLEAN /\ sem' = 0
    BY <1>11 DEF ForceReadTimeout
  <2>2. \/ pc = "pend" /\ pc' = "flags" /\ semRet' = TRUE
        \/ pc # "pend" /\ pc' = pc /\ semRet' = semRet
    BY <1>11 DEF ForceReadTimeout, AfterTimeout
  <2>3. pc' = "take" /\ ~wiped' /\ rx' # <<>> => FALSE
    BY <1>11 DEF ForceReadTimeout, AfterTimeout
  <2>4. UNCHANGED <<proto, rx, claim, overrun, err, call, timed, need, line, hist>>
    BY <1>11 DEF ForceReadTimeout
  <2>5. TypeOK'
    BY <2>1, <2>2, <2>4
  <2> QED
    BY <2>1, <2>2, <2>3, <2>4, <2>5
<1>12. CASE ReadRefused
  BY <1>12 DEF ReadRefused
<1>13. CASE PollDone \/ PollTimeout \/ PollError \/ PollNoWait
  <2>1. /\ pc = "poll" /\ pc' = "idle" /\ err' \in ErrCodes
        /\ UNCHANGED <<proto, rx, claim, sem, overrun, call, timed, need, semRet,
                       line, hist, wiped>>
    BY <1>13 DEF PollDone, PollTimeout, PollError, PollNoWait, PollEnd
  <2> QED
    BY <2>1
<1>14. CASE UNCHANGED vars
  BY <1>14 DEF vars
<1> QED
  BY <1>1, <1>2, <1>3, <1>4, <1>5, <1>6, <1>7, <1>8, <1>9, <1>10, <1>11, <1>12, <1>13,
     <1>14, RxIsrInv, StrayInv, FifoReceiveInv, PollByteInv, CopyInv DEF Next, ReaderStep

THEOREM RxInvariant == Spec => []IInv
BY InitInv, StepInv, PTL DEF Spec

(***************************************************************************)
(* What it says about the code.                                            *)
(***************************************************************************)
(* The ring buffer keeps its capacity, and ring_buf_get claims no more     *)
(* than it holds.                                                          *)
THEOREM TypeCorrect == Spec => []TypeOK
BY RxInvariant, PTL DEF IInv

(* Whatever the interleaving of zuart_read_irq_proto with the interrupt, a *)
(* thread waits only while no byte is there.                               *)
THEOREM WakeupKept == Spec => []NoLostWakeup
<1>1. IInv => NoLostWakeup
  BY DEF IInv, Flow, TypeOK, TokenForByte, PendNoToken, NoLostWakeup
<1> QED
  BY <1>1, RxInvariant, PTL

(***************************************************************************)
(* The implementation of ReadPort.                                         *)
(***************************************************************************)
(* What the caller is in, as ReadPort sees it.                             *)
Told == CASE pc = "idle" -> "none" [] pc = "clear" -> "told" [] OTHER -> call

LEMMA ToldValues ==
  /\ pc = "idle" => Told = "none"
  /\ pc = "clear" => Told = "told"
  /\ pc \notin {"idle", "clear"} => Told = call
BY DEF Told

(* The steps that change nothing the caller sees.                          *)
Unseen ==
  /\ UNCHANGED <<proto, rx, got, overrun, arrived, need, timed, err, call>>
  /\ pc \notin {"idle", "clear"} /\ pc' \notin {"idle", "clear"}

LEMMA UnseenStutters == Unseen => UNCHANGED Port!port
<1> SUFFICES ASSUME Unseen PROVE UNCHANGED Port!port
  OBVIOUS
<1>1. Told' = Told
  BY DEF Unseen, Told
<1> QED
  BY <1>1 DEF Unseen, Told, Port!port

(* Bytes arrive, with any technique.                                       *)
LEMMA RxIsrArrives == IInv /\ RxIsr => Port!Arrive
<1> SUFFICES ASSUME IInv, RxIsr PROVE Port!Arrive
  OBVIOUS
<1>1. /\ proto = "irq" /\ arrived' = arrived + 1
      /\ UNCHANGED <<proto, got, call, need, timed, err>>
  BY DEF RxIsr
<1>2. \/ rx' = Append(rx, arrived + 1) /\ overrun' = overrun
      \/ rx' = rx /\ overrun' = TRUE
  BY DEF RxIsr, StoreByte
<1>3. pc' = pc \/ (pc = "pend" /\ pc' = "claim")
  BY DEF RxIsr, GiveSem
<1>4. Told' = Told
  BY <1>1, <1>3 DEF Told
<1> QED
  BY <1>1, <1>2, <1>4 DEF Told, Port!Arrive

LEMMA FifoArrives == IInv /\ FifoReceive => Port!Arrive
<1> SUFFICES ASSUME IInv, FifoReceive PROVE Port!Arrive
  OBVIOUS
<1>1. /\ proto \notin {"irq", "none"} /\ arrived' = arrived + 1
      /\ UNCHANGED <<proto, got, call, pc, need, timed, err, overrun>>
      /\ rx' = Append(rx, arrived + 1) \/ rx' = rx
  BY DEF FifoReceive, Polled, hist
<1>2. Told' = Told
  BY <1>1 DEF Told
<1> QED
  BY <1>1, <1>2 DEF Told, Port!Arrive

(* A byte is taken away.                                                   *)
LEMMA StraySteals == IInv /\ StrayRxIsr => Port!Steal
<1> SUFFICES ASSUME IInv, StrayRxIsr PROVE Port!Steal
  OBVIOUS
<1>1. /\ proto = "shared" /\ rx # <<>> /\ rx' = Tail(rx)
      /\ UNCHANGED <<proto, got, arrived, call, pc, need, timed, err>>
  BY DEF StrayRxIsr, hist
<1>2. Told' = Told
  BY <1>1 DEF Told
<1> QED
  BY <1>1, <1>2 DEF Told, Port!Steal

(* The bytes of a copy, or the byte of the UART, are the first that wait.  *)
LEMMA DeliversBytes ==
  ASSUME NEW k \in Nat, k \in 1..Len(rx), k <= need,
         pc \notin {"idle", "clear"}, pc' \notin {"idle", "clear"}, call = "read",
         got' = got \o SubSeq(rx, 1, k), rx' = SubSeq(rx, k + 1, Len(rx)),
         need' = need - k, UNCHANGED <<proto, arrived, overrun, call, timed, err>>
  PROVE  Port!Deliver
<1>1. Told = "read" /\ Told' = Told
  BY DEF Told
<1> QED
  BY <1>1 DEF Told, Port!Deliver

LEMMA PollByteDelivers == IInv /\ PollByte => Port!Deliver
<1> SUFFICES ASSUME IInv, PollByte PROVE Port!Deliver
  OBVIOUS
<1>1. /\ pc = "poll" /\ pc' = pc /\ call = "read" /\ need > 0 /\ rx # <<>>
      /\ rx' = Tail(rx) /\ got' = Append(got, Head(rx)) /\ need' = need - 1
      /\ UNCHANGED <<proto, arrived, overrun, call, timed, err>>
  BY DEF PollByte, line, IInv, Flow, OwnCode
<1>2. rx \in Seq(Nat) /\ got \in Seq(Nat) /\ need \in Nat
  BY DEF IInv, TypeOK
<1>3. /\ Tail(rx) = SubSeq(rx, 1 + 1, Len(rx))
      /\ Append(got, Head(rx)) = got \o SubSeq(rx, 1, 1)
      /\ 1 \in 1..Len(rx)
  BY <1>1, <1>2, TakeFirst
<1>4. 1 \in Nat /\ 1 <= need
  BY <1>1, <1>2
<1> QED
  BY <1>1, <1>3, <1>4, DeliversBytes

(* ring_buf_get: a read gets what it claimed, if anything, a drain throws  *)
(* away what it saw.                                                       *)
LEMMA CopyDelivers == IInv /\ Copy => Port!Deliver \/ Port!Purge \/ Unseen
<1> SUFFICES ASSUME IInv, Copy PROVE Port!Deliver \/ Port!Purge \/ Unseen
  OBVIOUS
<1>1. /\ pc = "copy" /\ rx \in Seq(Nat) /\ got \in Seq(Nat) /\ claim \in 0..Len(rx)
      /\ claim <= need /\ need \in Nat /\ Len(rx) \in Nat
      /\ call \in {"read", "drain"}
      /\ call = "drain" => claim = need
  BY LenProperties DEF Copy, IInv, TypeOK, Flow, Claims
<1>2. /\ rx' = SubSeq(rx, claim + 1, Len(rx)) /\ need' = need - claim
      /\ pc' = IF call = "read" THEN "loop" ELSE "idle"
      /\ UNCHANGED <<proto, overrun, err, call, timed, arrived>>
  BY DEF Copy, AfterCopy, line
<1>3. /\ call = "read" => got' = got \o SubSeq(rx, 1, claim)
      /\ call # "read" => got' = got
  BY DEF Copy
<1>4. CASE call = "read" /\ claim = 0
  <2>1. SubSeq(rx, claim + 1, Len(rx)) = rx /\ got \o SubSeq(rx, 1, claim) = got
    BY <1>1, <1>4, TakeNothing
  <2>2. need' = need
    BY <1>1, <1>2, <1>4
  <2> QED
    BY <1>1, <1>2, <1>3, <1>4, <2>1, <2>2 DEF Unseen
<1>5. CASE call = "read" /\ claim # 0
  <2>1. claim \in Nat /\ claim \in 1..Len(rx)
    BY <1>1, <1>5
  <2> QED
    BY <1>1, <1>2, <1>3, <1>5, <2>1, DeliversBytes
<1>6. CASE call = "drain"
  <2>1. Told = "drain" /\ Told' = "none"
    BY <1>1, <1>2, <1>6 DEF Told
  <2>2. need' = 0 /\ got' = got /\ rx' = SubSeq(rx, need + 1, Len(rx))
    BY <1>1, <1>2, <1>3, <1>6
  <2> QED
    BY <1>2, <2>1, <2>2 DEF Told, Port!Purge
<1> QED
  BY <1>1, <1>4, <1>5, <1>6

(* A call ends.                                                            *)
LEMMA PollEndReturns ==
  IInv /\ (PollDone \/ PollTimeout \/ PollError \/ PollNoWait) => Port!Return
<1> SUFFICES ASSUME IInv, PollDone \/ PollTimeout \/ PollError \/ PollNoWait
             PROVE  Port!Return
  OBVIOUS
<1>1. /\ pc = "poll" /\ pc' = "idle" /\ call = "read" /\ proto # "irq"
      /\ UNCHANGED <<proto, rx, got, arrived, overrun, need, timed>>
  BY DEF PollDone, PollTimeout, PollError, PollNoWait, PollEnd, line, hist,
         IInv, Flow, OwnCode, Polled
<1>2. \/ need > 0 /\ timed /\ err' \in {"TIMEOUT", "ERR"}
      \/ (need = 0 \/ ~timed) /\ err' = err
  BY DEF PollDone, PollTimeout, PollError, PollNoWait, PollEnd
<1>3. Told = "read" /\ Told' = "none"
  BY <1>1 DEF Told
<1>4. ~(need = 0 /\ need > 0)
  BY DEF IInv, TypeOK
<1>5. err' \in IF timed /\ need > 0 THEN Port!Reasons ELSE {err}
  BY <1>1, <1>2, <1>4 DEF Port!Reasons
<1> QED
  BY <1>1, <1>3, <1>5 DEF Told, Port!Return

LEMMA CheckFlagsEnds == IInv /\ CheckFlags => Port!Return \/ Port!Tell
<1> SUFFICES ASSUME IInv, CheckFlags PROVE Port!Return \/ Port!Tell
  OBVIOUS
<1>1. /\ pc = "flags" /\ call = "read" /\ proto = "irq" /\ (timed => (semRet <=> need > 0))
      /\ UNCHANGED <<proto, rx, got, arrived, overrun, call, need, timed>>
  BY DEF CheckFlags, line, hist, IInv, Flow, OwnCode, GivesUp
<1>2. \/ overrun /\ err' = "OVERRUN" /\ pc' = "clear"
      \/ /\ ~overrun /\ pc' = "idle"
         /\ err' = IF timed /\ semRet THEN "TIMEOUT" ELSE err
  BY DEF CheckFlags
<1>3. CASE overrun
  <2>1. Told = "read" /\ Told' = "told"
    BY <1>1, <1>2, <1>3 DEF Told
  <2> QED
    BY <1>1, <1>2, <1>3, <2>1 DEF Told, Port!Tell
<1>4. CASE ~overrun
  <2>1. Told = "read" /\ Told' = "none"
    BY <1>1, <1>2, <1>4 DEF Told
  <2>2. err' \in IF timed /\ need > 0 THEN Port!Reasons ELSE {err}
    BY <1>1, <1>2, <1>4 DEF Port!Reasons
  <2> QED
    BY <1>1, <1>4, <2>1, <2>2 DEF Told, Port!Return
<1> QED
  BY <1>3, <1>4

LEMMA ClearFlagEnds == IInv /\ ClearFlag => Port!ReturnTold
<1> SUFFICES ASSUME IInv, ClearFlag PROVE Port!ReturnTold
  OBVIOUS
<1>1. /\ pc = "clear" /\ pc' = "idle" /\ overrun' = FALSE
      /\ UNCHANGED <<proto, arrived, rx, got, need, timed, err>>
  BY DEF ClearFlag, line
<1>2. Told = "told" /\ Told' = "none"
  BY <1>1 DEF Told
<1> QED
  BY <1>1, <1>2 DEF Told, Port!ReturnTold

(* A call begins.                                                          *)
LEMMA CallsStart ==
  IInv /\ (ReadCall \/ ReadRefused \/ Drain) => Port!StartRead \/ Port!Refuse \/ Port!StartDrain
<1> SUFFICES ASSUME IInv, ReadCall \/ ReadRefused \/ Drain
             PROVE  Port!StartRead \/ Port!Refuse \/ Port!StartDrain
  OBVIOUS
<1>1. CASE ReadCall
  <2>1. /\ pc = "idle" /\ pc' \in {"loop", "poll"} /\ call' = "read" /\ proto # "none"
        /\ need' \in Nat /\ timed' \in BOOLEAN /\ err' \in ErrCodes
        /\ UNCHANGED <<proto, rx, got, arrived, overrun>>
    BY <1>1, RxAssumption DEF ReadCall, line, hist
  <2>2. Told = "none" /\ Told' = "read"
    BY <2>1 DEF Told
  <2> QED
    BY <2>1, <2>2 DEF Told, Port!StartRead, Port!Errors, ErrCodes
<1>2. CASE ReadRefused
  <2>1. /\ pc = "idle" /\ pc' = pc /\ proto = "none" /\ err' = "ERR"
        /\ UNCHANGED <<proto, rx, got, arrived, overrun, need, timed>>
    BY <1>2 DEF ReadRefused, line, hist
  <2>2. Told = "none" /\ Told' = "none"
    BY <2>1 DEF Told
  <2> QED
    BY <2>1, <2>2 DEF Told, Port!Refuse
<1>3. CASE Drain
  <2>1. /\ pc = "idle" /\ pc' = "claim" /\ call' = "drain"
        /\ need' = IF proto = "irq" THEN Len(rx) ELSE 0
        /\ UNCHANGED <<proto, rx, got, arrived, overrun, timed, err>>
    BY <1>3 DEF Drain, DrainSize, line
  <2>2. Told = "none" /\ Told' = "drain"
    BY <2>1 DEF Told
  <2> QED
    BY <2>1, <2>2 DEF Told, Port!StartDrain
<1> QED
  BY <1>1, <1>2, <1>3

(* Looking, taking the token, waiting and claiming are the thread's own    *)
(* business, and so is a forced time-out: the read still has to tell it.   *)
LEMMA ThreadSteps ==
  ASSUME IInv,
         \/ ReadLoop \/ TakeToken \/ TakeNone \/ TimeoutExpires \/ Claim \/ ClaimAgain
         \/ ForceReadTimeout
  PROVE  UNCHANGED Port!port
<1>1. CASE ReadLoop \/ TakeToken \/ TakeNone \/ TimeoutExpires \/ Claim \/ ClaimAgain
  <2>1. Unseen
    BY <1>1 DEF ReadLoop, TakeToken, TakeNone, TimeoutExpires, AfterTimeout, Claim,
                ClaimAgain, Unseen, line, hist
  <2> QED
    BY <2>1, UnseenStutters
<1>2. CASE ForceReadTimeout
  <2>1. /\ pc' = pc \/ (pc = "pend" /\ pc' = "flags")
        /\ UNCHANGED <<proto, rx, got, overrun, arrived, need, timed, err, call>>
    BY <1>2 DEF ForceReadTimeout, AfterTimeout, line, hist
  <2>2. Told' = Told
    BY <2>1 DEF Told
  <2> QED
    BY <2>1, <2>2 DEF Told, Port!port
<1> QED
  BY <1>1, <1>2

LEMMA StepPort == IInv /\ [Next]_vars => [Port!Next]_(Port!port)
<1> SUFFICES ASSUME IInv, [Next]_vars PROVE Port!Next \/ UNCHANGED Port!port
  OBVIOUS
<1>1. CASE RxIsr \/ StrayRxIsr \/ FifoReceive
  BY <1>1, RxIsrArrives, StraySteals, FifoArrives DEF Port!Next
<1>2. CASE PollByte
  BY <1>2, PollByteDelivers DEF Port!Next
<1>3. CASE Copy
  BY <1>3, CopyDelivers, UnseenStutters DEF Port!Next
<1>4. CASE PollDone \/ PollTimeout \/ PollError \/ PollNoWait
  BY <1>4, PollEndReturns DEF Port!Next
<1>5. CASE CheckFlags \/ ClearFlag
  BY <1>5, CheckFlagsEnds, ClearFlagEnds DEF Port!Next
<1>6. CASE ReadCall \/ ReadRefused \/ Drain
  BY <1>6, CallsStart DEF Port!Next
<1>7. CASE \/ ReadLoop \/ TakeToken \/ TakeNone \/ TimeoutExpires \/ Claim \/ ClaimAgain
           \/ ForceReadTimeout
  BY <1>7, ThreadSteps
<1>8. CASE UNCHANGED vars
  BY <1>8 DEF vars, Port!port
<1> QED
  BY <1>1, <1>2, <1>3, <1>4, <1>5, <1>6, <1>7, <1>8 DEF Next, ReaderStep

(* Whatever the technique and the interleaving with the interrupt and with *)
(* a forced time-out, zuart_read and zuart_drain keep the contract of      *)
(* zuart.h: bytes come from the head of what waits, a short timed read has *)
(* just told why, a loss is told by the first read that ends after it, and *)
(* a drain throws away all that was there when it was called.              *)
THEOREM ImplementsPort == Spec => PortKept
<1>1. Init => Port!Init
  <2> SUFFICES ASSUME Init PROVE Port!Init
    OBVIOUS
  <2>1. proto \in {"irq", "poll", "shared", "none"}
    BY DEF Init, ReadProto, Protos
  <2>2. Told = "none"
    BY DEF Init, Told
  <2> QED
    BY <2>1, <2>2 DEF Init, Told, Port!Init
<1> QED
  BY <1>1, StepPort, RxInvariant, PTL DEF Spec, PortKept, Port!Spec

(***************************************************************************)
(* The bytes delivered (g), waiting (r), purged (P) and dropped (D), of    *)
(* the first a: in order, all of them, and each in one place.              *)
(***************************************************************************)
Delivers(g, r) ==
  /\ \A i, j \in 1..Len(g) : i < j => g[i] < g[j]
  /\ \A i, j \in 1..Len(r) : i < j => r[i] < r[j]
  /\ \A i \in 1..Len(g), j \in 1..Len(r) : g[i] < r[j]
In(n, q) == \E i \in 1..Len(q) : q[i] = n
Complete(g, r, P, D, a) == \A n \in 1..a : In(n, g) \/ In(n, r) \/ n \in P \/ n \in D
Known(g, r, P, D, a) ==
  /\ \A i \in 1..Len(g) : g[i] \in 1..a
  /\ \A i \in 1..Len(r) : r[i] \in 1..a
  /\ P \subseteq 1..a /\ D \subseteq 1..a
Apart(g, r, P, D) ==
  /\ \A i \in 1..Len(g) : g[i] \notin D /\ g[i] \notin P
  /\ \A i \in 1..Len(r) : r[i] \notin D /\ r[i] \notin P
  /\ P \cap D = {}
Whole(g, r, P, D, a) ==
  Delivers(g, r) /\ Complete(g, r, P, D, a) /\ Known(g, r, P, D, a) /\ Apart(g, r, P, D)

(* A byte arrives and there is room.                                       *)
LEMMA WholeArrive ==
  ASSUME NEW g \in Seq(Nat), NEW r \in Seq(Nat), NEW P, NEW D, NEW a \in Nat,
         Whole(g, r, P, D, a)
  PROVE  Whole(g, Append(r, a + 1), P, D, a + 1)
<1> DEFINE q == Append(r, a + 1)
<1>1. /\ Len(q) = Len(r) + 1 /\ Len(r) \in Nat /\ Len(g) \in Nat
      /\ \A i \in 1..Len(r) : q[i] = r[i]
      /\ q[Len(r) + 1] = a + 1
  BY AppendProperties, LenProperties
<1> HIDE DEF q
<1>2. \A i \in 1..Len(q) : i \in 1..Len(r) \/ i = Len(r) + 1
  BY <1>1
<1>3. \A n \in 1..(a + 1) : n \in 1..a \/ n = a + 1
  OBVIOUS
<1>k. Known(g, r, P, D, a) /\ Delivers(g, r) /\ Complete(g, r, P, D, a) /\ Apart(g, r, P, D)
  BY DEF Whole
<1>4. Delivers(g, q)
  <2>1. \A i \in 1..Len(r) : r[i] < a + 1
    BY <1>k DEF Known
  <2>2. \A i \in 1..Len(g) : g[i] < a + 1
    BY <1>k DEF Known
  <2>3. \A i, j \in 1..Len(q) : i < j => q[i] < q[j]
    <3> SUFFICES ASSUME NEW i \in 1..Len(q), NEW j \in 1..Len(q), i < j PROVE q[i] < q[j]
      OBVIOUS
    <3>1. i \in 1..Len(r)
      BY <1>1, <1>2
    <3>2. CASE j \in 1..Len(r)
      BY <1>1, <1>k, <3>1, <3>2 DEF Delivers
    <3>3. CASE j = Len(r) + 1
      BY <1>1, <2>1, <3>1, <3>3
    <3> QED
      BY <1>2, <3>2, <3>3
  <2>4. \A i \in 1..Len(g), j \in 1..Len(q) : g[i] < q[j]
    <3> SUFFICES ASSUME NEW i \in 1..Len(g), NEW j \in 1..Len(q) PROVE g[i] < q[j]
      OBVIOUS
    <3>2. CASE j \in 1..Len(r)
      BY <1>1, <1>k, <3>2 DEF Delivers
    <3>3. CASE j = Len(r) + 1
      BY <1>1, <2>2, <3>3
    <3> QED
      BY <1>2, <3>2, <3>3
  <2> QED
    BY <1>k, <2>3, <2>4 DEF Delivers
<1>5. Complete(g, q, P, D, a + 1)
  <2>1. In(a + 1, q)
    BY <1>1 DEF In
  <2>2. \A n : In(n, r) => In(n, q)
    <3> SUFFICES ASSUME NEW i \in 1..Len(r) PROVE In(r[i], q)
      BY DEF In
    <3>1. i \in 1..Len(q) /\ q[i] = r[i]
      BY <1>1
    <3> QED
      BY <3>1 DEF In
  <2>3. \A n \in 1..a : In(n, g) \/ In(n, q) \/ n \in P \/ n \in D
    BY <1>k, <2>2 DEF Complete
  <2> QED
    BY <1>3, <2>1, <2>3 DEF Complete
<1>6. Known(g, q, P, D, a + 1)
  <2>1. 1..a \subseteq 1..(a + 1) /\ a + 1 \in 1..(a + 1)
    OBVIOUS
  <2>2. \A i \in 1..Len(r) : q[i] \in 1..(a + 1)
    BY <1>1, <1>k, <2>1 DEF Known
  <2>3. q[Len(r) + 1] \in 1..(a + 1)
    BY <1>1, <2>1
  <2>4. \A i \in 1..Len(q) : q[i] \in 1..(a + 1)
    BY <1>2, <2>2, <2>3
  <2> QED
    BY <1>k, <2>1, <2>4 DEF Known
<1>7. Apart(g, q, P, D)
  <2>1. a + 1 \notin P /\ a + 1 \notin D
    BY <1>k DEF Known
  <2> QED
    BY <1>1, <1>2, <1>k, <2>1 DEF Apart
<1> QED
  BY <1>4, <1>5, <1>6, <1>7 DEF Whole, q

(* There is none.                                                          *)
LEMMA WholeDrop ==
  ASSUME NEW g \in Seq(Nat), NEW r \in Seq(Nat), NEW P, NEW D, NEW a \in Nat,
         Whole(g, r, P, D, a)
  PROVE  Whole(g, r, P, D \cup {a + 1}, a + 1)
<1>k. Known(g, r, P, D, a) /\ Delivers(g, r) /\ Complete(g, r, P, D, a) /\ Apart(g, r, P, D)
  BY DEF Whole
<1>1. Known(g, r, P, D \cup {a + 1}, a + 1)
  BY <1>k DEF Known
<1>2. Apart(g, r, P, D \cup {a + 1})
  <2>1. /\ \A i \in 1..Len(g) : g[i] # a + 1
        /\ \A i \in 1..Len(r) : r[i] # a + 1
        /\ a + 1 \notin P
    BY <1>k DEF Known
  <2> QED
    BY <1>k, <2>1 DEF Apart
<1>3. Complete(g, r, P, D \cup {a + 1}, a + 1)
  <2>1. \A n \in 1..(a + 1) : n \in 1..a \/ n = a + 1
    OBVIOUS
  <2> QED
    BY <1>k, <2>1 DEF Complete
<1> QED
  BY <1>k, <1>1, <1>2, <1>3 DEF Whole

(* The first k bytes, and the rest.                                        *)
LEMMA Split ==
  ASSUME NEW r \in Seq(Nat), NEW k \in 0..Len(r)
  PROVE  /\ SubSeq(r, 1, k) \in Seq(Nat) /\ SubSeq(r, k + 1, Len(r)) \in Seq(Nat)
         /\ Len(SubSeq(r, 1, k)) = k /\ Len(SubSeq(r, k + 1, Len(r))) = Len(r) - k
         /\ \A i \in 1..k : SubSeq(r, 1, k)[i] = r[i]
         /\ \A i \in 1..(Len(r) - k) : SubSeq(r, k + 1, Len(r))[i] = r[k + i]
<1>1. Len(r) \in Nat /\ k \in Nat /\ k <= Len(r) /\ \A i \in 1..Len(r) : r[i] \in Nat
  BY LenProperties, ElementOfSeq
<1>2. /\ 1 \in Int /\ k \in Int /\ k + 1 \in Int /\ Len(r) \in Int
      /\ \A i \in 1..k : r[i] \in Nat
      /\ \A i \in (k + 1)..Len(r) : r[i] \in Nat
  BY <1>1
<1>3. /\ SubSeq(r, 1, k) \in Seq(Nat)
      /\ Len(SubSeq(r, 1, k)) = IF 1 <= k THEN k - 1 + 1 ELSE 0
      /\ \A i \in 1..(k - 1 + 1) : SubSeq(r, 1, k)[i] = r[1 + i - 1]
  BY <1>2, SubSeqProperties
<1>4. /\ SubSeq(r, k + 1, Len(r)) \in Seq(Nat)
      /\ Len(SubSeq(r, k + 1, Len(r))) = IF k + 1 <= Len(r) THEN Len(r) - (k + 1) + 1 ELSE 0
      /\ \A i \in 1..(Len(r) - (k + 1) + 1) : SubSeq(r, k + 1, Len(r))[i] = r[(k + 1) + i - 1]
  BY <1>2, SubSeqProperties
<1> DEFINE s == SubSeq(r, 1, k)
           t == SubSeq(r, k + 1, Len(r))
<1>5. s \in Seq(Nat) /\ Len(s) = k /\ \A i \in 1..k : s[i] = r[i]
  <2> HIDE DEF s
  <2>1. /\ s \in Seq(Nat)
        /\ Len(s) = IF 1 <= k THEN k - 1 + 1 ELSE 0
        /\ \A i \in 1..(k - 1 + 1) : s[i] = r[1 + i - 1]
    BY <1>3 DEF s
  <2> QED
    BY <1>1, <2>1
<1>6. t \in Seq(Nat) /\ Len(t) = Len(r) - k /\ \A i \in 1..(Len(r) - k) : t[i] = r[k + i]
  <2> HIDE DEF t
  <2>1. /\ t \in Seq(Nat)
        /\ Len(t) = IF k + 1 <= Len(r) THEN Len(r) - (k + 1) + 1 ELSE 0
        /\ \A i \in 1..(Len(r) - (k + 1) + 1) : t[i] = r[(k + 1) + i - 1]
    BY <1>4 DEF t
  <2>2. Len(t) = Len(r) - k
    BY <1>1, <2>1
  <2>3. ASSUME NEW i \in 1..(Len(r) - k) PROVE t[i] = r[k + i]
    <3>1. i \in 1..(Len(r) - (k + 1) + 1) /\ (k + 1) + i - 1 = k + i
      BY <1>1
    <3> QED
      BY <2>1, <3>1
  <2> QED
    BY <2>1, <2>2, <2>3
<1> QED
  BY <1>5, <1>6

(* Where the elements of a concatenation come from.                        *)
LEMMA Parts ==
  ASSUME NEW g \in Seq(Nat), NEW s \in Seq(Nat)
  PROVE  /\ Len(g \o s) = Len(g) + Len(s)
         /\ \A i \in 1..Len(g) : (g \o s)[i] = g[i]
         /\ \A m \in 1..Len(s) : (g \o s)[Len(g) + m] = s[m]
OBVIOUS

(* A read takes k bytes.                                                   *)
LEMMA WholeTake ==
  ASSUME NEW g \in Seq(Nat), NEW r \in Seq(Nat), NEW P, NEW D, NEW a \in Nat,
         NEW k \in 0..Len(r), Whole(g, r, P, D, a)
  PROVE  Whole(g \o SubSeq(r, 1, k), SubSeq(r, k + 1, Len(r)), P, D, a)
<1> DEFINE s == SubSeq(r, 1, k)
           t == SubSeq(r, k + 1, Len(r))
           h == g \o s
<1>0. Len(g) \in Nat /\ Len(r) \in Nat /\ k \in Nat /\ k <= Len(r)
  BY LenProperties
<1>1. /\ s \in Seq(Nat) /\ t \in Seq(Nat) /\ Len(s) = k /\ Len(t) = Len(r) - k
      /\ \A i \in 1..k : s[i] = r[i]
      /\ \A i \in 1..Len(t) : t[i] = r[k + i]
  BY Split
<1> HIDE DEF s, t
<1>2. /\ Len(h) = Len(g) + Len(s)
      /\ \A i \in 1..Len(g) : h[i] = g[i]
      /\ \A m \in 1..Len(s) : h[Len(g) + m] = s[m]
  BY <1>1, Parts
<1> HIDE DEF h
<1>3. \A i \in 1..Len(h) : \/ i \in 1..Len(g) /\ h[i] = g[i]
                           \/ \E m \in 1..k : i = Len(g) + m /\ h[i] = r[m]
  <2> SUFFICES ASSUME NEW i \in 1..Len(h), i \notin 1..Len(g)
               PROVE  \E m \in 1..k : i = Len(g) + m /\ h[i] = r[m]
    BY <1>2
  <2>1. i - Len(g) \in 1..k /\ i = Len(g) + (i - Len(g))
    BY <1>0, <1>1, <1>2
  <2>2. PICK m \in 1..k : i = Len(g) + m
    BY <2>1
  <2>3. m \in 1..Len(s) /\ h[Len(g) + m] = s[m] /\ s[m] = r[m]
    BY <1>1, <1>2
  <2> QED
    BY <2>2, <2>3
<1>4. /\ \A i \in 1..k : i \in 1..Len(r)
      /\ \A i \in 1..Len(t) : k + i \in 1..Len(r)
  <2>1. ASSUME NEW i \in 1..k PROVE i \in 1..Len(r)
    BY <1>0
  <2>2. ASSUME NEW i \in 1..(Len(r) - k) PROVE k + i \in 1..Len(r)
    BY <1>0
  <2> QED
    BY <1>1, <2>1, <2>2
<1>w. Known(g, r, P, D, a) /\ Delivers(g, r) /\ Complete(g, r, P, D, a) /\ Apart(g, r, P, D)
  BY DEF Whole
<1>5. Delivers(h, t)
  <2>1. \A i, j \in 1..Len(h) : i < j => h[i] < h[j]
    <3> SUFFICES ASSUME NEW i \in 1..Len(h), NEW j \in 1..Len(h), i < j PROVE h[i] < h[j]
      OBVIOUS
    <3>1. CASE i \in 1..Len(g) /\ j \in 1..Len(g)
      <4>1. h[i] = g[i] /\ h[j] = g[j]
        BY <1>2, <3>1
      <4> QED
        BY <1>w, <3>1, <4>1 DEF Delivers
    <3>2. ASSUME i \in 1..Len(g), NEW m \in 1..k, h[j] = r[m] PROVE h[i] < h[j]
      <4>1. h[i] = g[i] /\ m \in 1..Len(r)
        BY <1>2, <1>4, <3>2
      <4> QED
        BY <1>w, <3>2, <4>1 DEF Delivers
    <3>3. ASSUME NEW l \in 1..k, i = Len(g) + l, h[i] = r[l],
                 NEW m \in 1..k, j = Len(g) + m, h[j] = r[m]
          PROVE  h[i] < h[j]
      <4>1. l < m /\ l \in 1..Len(r) /\ m \in 1..Len(r)
        BY <1>0, <1>4, <3>3
      <4> QED
        BY <1>w, <3>3, <4>1 DEF Delivers
    <3>4. ASSUME NEW l \in 1..k, i = Len(g) + l PROVE j \notin 1..Len(g)
      BY <1>0, <3>4
    <3> QED
      BY <1>3, <3>1, <3>2, <3>3, <3>4
  <2>2. \A i, j \in 1..Len(t) : i < j => t[i] < t[j]
    <3> SUFFICES ASSUME NEW i \in 1..Len(t), NEW j \in 1..Len(t), i < j PROVE t[i] < t[j]
      OBVIOUS
    <3>1. /\ t[i] = r[k + i] /\ t[j] = r[k + j]
          /\ k + i \in 1..Len(r) /\ k + j \in 1..Len(r)
      BY <1>1, <1>4
    <3>2. k + i < k + j
      BY <1>0, <1>1
    <3> QED
      BY <1>w, <3>1, <3>2 DEF Delivers
  <2>3. \A i \in 1..Len(h), j \in 1..Len(t) : h[i] < t[j]
    <3> SUFFICES ASSUME NEW i \in 1..Len(h), NEW j \in 1..Len(t) PROVE h[i] < t[j]
      OBVIOUS
    <3>0. t[j] = r[k + j] /\ k + j \in 1..Len(r)
      BY <1>1, <1>4
    <3>1. CASE i \in 1..Len(g) /\ h[i] = g[i]
      BY <1>w, <3>0, <3>1 DEF Delivers
    <3>2. ASSUME NEW m \in 1..k, h[i] = r[m] PROVE h[i] < t[j]
      <4>1. m \in 1..Len(r) /\ m < k + j
        BY <1>0, <1>1, <1>4
      <4> QED
        BY <1>w, <3>0, <3>2, <4>1 DEF Delivers
    <3> QED
      BY <1>3, <3>1, <3>2
  <2> QED
    BY <2>1, <2>2, <2>3 DEF Delivers
<1>6. Complete(h, t, P, D, a)
  <2>1. \A n : In(n, g) => In(n, h)
    <3> SUFFICES ASSUME NEW i \in 1..Len(g) PROVE In(g[i], h)
      BY DEF In
    <3>1. i \in 1..Len(h) /\ h[i] = g[i]
      BY <1>0, <1>2
    <3> QED
      BY <3>1 DEF In
  <2>2. \A n : In(n, r) => In(n, h) \/ In(n, t)
    <3> SUFFICES ASSUME NEW i \in 1..Len(r) PROVE In(r[i], h) \/ In(r[i], t)
      BY DEF In
    <3>1. CASE i <= k
      <4>1. i \in 1..k /\ Len(g) + i \in 1..Len(h)
        BY <1>0, <1>1, <1>2, <3>1
      <4>2. h[Len(g) + i] = s[i] /\ s[i] = r[i]
        BY <1>1, <1>2, <4>1
      <4> QED
        BY <4>1, <4>2 DEF In
    <3>2. CASE i > k
      <4>1. i - k \in 1..Len(t) /\ k + (i - k) = i
        BY <1>0, <1>1, <3>2
      <4> QED
        BY <1>1, <4>1 DEF In
    <3> QED
      BY <1>0, <3>1, <3>2
  <2> QED
    BY <1>w, <2>1, <2>2 DEF Complete
<1>7. Known(h, t, P, D, a)
  <2>1. \A i \in 1..Len(h) : h[i] \in 1..a
    BY <1>3, <1>4, <1>w DEF Known
  <2>2. \A i \in 1..Len(t) : t[i] \in 1..a
    BY <1>1, <1>4, <1>w DEF Known
  <2> QED
    BY <1>w, <2>1, <2>2 DEF Known
<1>8. Apart(h, t, P, D)
  <2>1. \A i \in 1..Len(h) : h[i] \notin D /\ h[i] \notin P
    BY <1>3, <1>4, <1>w DEF Apart
  <2>2. \A i \in 1..Len(t) : t[i] \notin D /\ t[i] \notin P
    BY <1>1, <1>4, <1>w DEF Apart
  <2> QED
    BY <1>w, <2>1, <2>2 DEF Apart
<1> QED
  BY <1>5, <1>6, <1>7, <1>8 DEF Whole, h, s, t

(* A drain throws k bytes away.                                            *)
LEMMA WholePurge ==
  ASSUME NEW g \in Seq(Nat), NEW r \in Seq(Nat), NEW P, NEW D, NEW a \in Nat,
         NEW k \in 0..Len(r), Whole(g, r, P, D, a)
  PROVE  Whole(g, SubSeq(r, k + 1, Len(r)), P \cup {r[i] : i \in 1..k}, D, a)
<1> DEFINE t == SubSeq(r, k + 1, Len(r))
           Q == {r[i] : i \in 1..k}
<1>0. Len(g) \in Nat /\ Len(r) \in Nat /\ k \in Nat /\ k <= Len(r)
  BY LenProperties
<1>1. /\ t \in Seq(Nat) /\ Len(t) = Len(r) - k
      /\ \A i \in 1..Len(t) : t[i] = r[k + i]
  BY Split
<1> HIDE DEF t
<1>2. /\ \A i \in 1..k : i \in 1..Len(r)
      /\ \A i \in 1..Len(t) : k + i \in 1..Len(r)
  <2>1. ASSUME NEW i \in 1..k PROVE i \in 1..Len(r)
    BY <1>0
  <2>2. ASSUME NEW i \in 1..(Len(r) - k) PROVE k + i \in 1..Len(r)
    BY <1>0
  <2> QED
    BY <1>1, <2>1, <2>2
<1>w. Known(g, r, P, D, a) /\ Delivers(g, r) /\ Complete(g, r, P, D, a) /\ Apart(g, r, P, D)
  BY DEF Whole
<1> HIDE DEF Q
<1>q. \A n : n \in Q <=> \E i \in 1..k : r[i] = n
  BY DEF Q
<1>3. Delivers(g, t)
  <2>1. \A i, j \in 1..Len(t) : i < j => t[i] < t[j]
    <3> SUFFICES ASSUME NEW i \in 1..Len(t), NEW j \in 1..Len(t), i < j PROVE t[i] < t[j]
      OBVIOUS
    <3>1. /\ t[i] = r[k + i] /\ t[j] = r[k + j]
          /\ k + i \in 1..Len(r) /\ k + j \in 1..Len(r)
      BY <1>1, <1>2
    <3>2. k + i < k + j
      BY <1>0, <1>1
    <3> QED
      BY <1>w, <3>1, <3>2 DEF Delivers
  <2> QED
    BY <1>1, <1>2, <1>w, <2>1 DEF Delivers
<1>4. Complete(g, t, P \cup Q, D, a)
  <2>1. \A n : In(n, r) => In(n, t) \/ n \in Q
    <3> SUFFICES ASSUME NEW i \in 1..Len(r) PROVE In(r[i], t) \/ r[i] \in Q
      BY DEF In
    <3>1. CASE i <= k
      BY <1>0, <1>q, <3>1
    <3>2. CASE i > k
      <4>1. i - k \in 1..Len(t) /\ k + (i - k) = i
        BY <1>0, <1>1, <3>2
      <4> QED
        BY <1>1, <4>1 DEF In
    <3> QED
      BY <1>0, <3>1, <3>2
  <2> QED
    BY <1>w, <2>1 DEF Complete
<1>5. Known(g, t, P \cup Q, D, a)
  BY <1>1, <1>2, <1>q, <1>w DEF Known
<1>6. Apart(g, t, P \cup Q, D)
  <2>1. \A i \in 1..Len(g) : g[i] \notin Q
    <3> SUFFICES ASSUME NEW i \in 1..Len(g), NEW j \in 1..k, g[i] = r[j] PROVE FALSE
      BY <1>q
    <3>1. g[i] < r[j] /\ r[j] \in Nat
      BY <1>2, <1>w, ElementOfSeq DEF Delivers
    <3> QED
      BY <3>1
  <2>2. \A i \in 1..Len(t) : t[i] \notin Q
    <3> SUFFICES ASSUME NEW i \in 1..Len(t), NEW j \in 1..k, t[i] = r[j] PROVE FALSE
      BY <1>q
    <3>1. j < k + i /\ t[i] = r[k + i]
      BY <1>0, <1>1
    <3>2. r[j] < r[k + i] /\ r[j] \in Nat
      BY <1>2, <3>1, <1>w, ElementOfSeq DEF Delivers
    <3> QED
      BY <3>1, <3>2
  <2>3. Q \cap D = {}
    BY <1>2, <1>q, <1>w DEF Apart
  <2> QED
    BY <1>1, <1>2, <1>w, <2>1, <2>2, <2>3 DEF Apart
<1> QED
  BY <1>3, <1>4, <1>5, <1>6 DEF Whole, t, Q

(* An interrupt of the other direction throws the first one away.          *)
LEMMA WholeSwap ==
  ASSUME NEW g, NEW r, NEW P, NEW D, NEW a, Whole(g, r, P, D, a)
  PROVE  Whole(g, r, D, P, a)
<1>1. Complete(g, r, D, P, a) /\ Known(g, r, D, P, a)
  BY DEF Whole, Complete, Known
<1>2. Apart(g, r, D, P)
  BY DEF Whole, Apart
<1> QED
  BY <1>1, <1>2 DEF Whole

LEMMA WholeStray ==
  ASSUME NEW g \in Seq(Nat), NEW r \in Seq(Nat), NEW P, NEW D, NEW a \in Nat,
         r # <<>>, Whole(g, r, P, D, a)
  PROVE  Whole(g, Tail(r), P, D \cup {Head(r)}, a)
<1>1. Tail(r) = SubSeq(r, 1 + 1, Len(r)) /\ 1 \in 0..Len(r) /\ Head(r) = r[1]
  BY TakeFirst, EmptySeq
<1>2. {r[i] : i \in 1..1} = {r[1]}
  OBVIOUS
<1>3. Whole(g, SubSeq(r, 1 + 1, Len(r)), D \cup {r[i] : i \in 1..1}, P, a)
  BY <1>1, WholeSwap, WholePurge
<1>4. Whole(g, Tail(r), D \cup {Head(r)}, P, a)
  BY <1>1, <1>2, <1>3
<1> QED
  BY <1>4, WholeSwap

(***************************************************************************)
(* Every byte has one place.                                               *)
(***************************************************************************)
LEMMA WholeSaid ==
  ASSUME NEW g \in Seq(Nat), NEW r \in Seq(Nat), NEW P, NEW D, NEW a \in Nat,
         Whole(g, r, P, D, a)
  PROVE  /\ Increasing(g \o r)
         /\ Range(g) \cup Range(r) \cup P \cup D = 1..a
         /\ (Range(g) \cup Range(r) \cup P) \cap D = {}
         /\ (Range(g) \cup Range(r)) \cap P = {}
<1> DEFINE h == g \o r
<1>0. Len(g) \in Nat /\ Len(r) \in Nat
  BY LenProperties
<1>w. Known(g, r, P, D, a) /\ Delivers(g, r) /\ Complete(g, r, P, D, a) /\ Apart(g, r, P, D)
  BY DEF Whole
<1>1. /\ Len(h) = Len(g) + Len(r)
      /\ \A i \in 1..Len(g) : h[i] = g[i]
      /\ \A m \in 1..Len(r) : h[Len(g) + m] = r[m]
  BY Parts
<1> HIDE DEF h
<1>2. \A i \in 1..Len(h) : i \in 1..Len(g) \/ \E m \in 1..Len(r) : i = Len(g) + m
  <2> SUFFICES ASSUME NEW i \in 1..Len(h), i \notin 1..Len(g)
               PROVE  \E m \in 1..Len(r) : i = Len(g) + m
    OBVIOUS
  <2>1. i - Len(g) \in 1..Len(r) /\ i = Len(g) + (i - Len(g))
    BY <1>0, <1>1
  <2> QED
    BY <2>1
<1>3. ASSUME NEW i \in 1..Len(h), NEW j \in 1..Len(h), i < j
      PROVE  h[i] < h[j]
  <2>1. CASE i \in 1..Len(g) /\ j \in 1..Len(g)
    BY <1>1, <1>3, <1>w, <2>1 DEF Delivers
  <2>2. ASSUME i \in 1..Len(g), NEW m \in 1..Len(r), j = Len(g) + m PROVE h[i] < h[j]
    BY <1>1, <1>w, <2>2 DEF Delivers
  <2>3. ASSUME NEW l \in 1..Len(r), i = Len(g) + l, NEW m \in 1..Len(r), j = Len(g) + m
        PROVE  h[i] < h[j]
    <3>1. l < m
      BY <1>0, <1>3, <2>3
    <3> QED
      BY <1>1, <1>w, <2>3, <3>1 DEF Delivers
  <2>4. ASSUME NEW l \in 1..Len(r), i = Len(g) + l PROVE j \notin 1..Len(g)
    BY <1>0, <1>3, <2>4
  <2> QED
    BY <1>2, <2>1, <2>2, <2>3, <2>4
<1>4. Increasing(h)
  BY <1>3 DEF Increasing
<1>5. /\ \A n : n \in Range(g) <=> In(n, g)
      /\ \A n : n \in Range(r) <=> In(n, r)
  <2>1. DOMAIN g = 1..Len(g) /\ DOMAIN r = 1..Len(r)
    BY LenProperties
  <2> QED
    BY <2>1 DEF Range, In
<1>6. \A n : In(n, g) \/ In(n, r) => n \in 1..a /\ n \notin D /\ n \notin P
  BY <1>w DEF Known, Apart, In
<1>7. Range(g) \cup Range(r) \cup P \cup D = 1..a
  <2>1. P \subseteq 1..a /\ D \subseteq 1..a
    BY <1>w DEF Known
  <2>2. \A n \in 1..a : In(n, g) \/ In(n, r) \/ n \in P \/ n \in D
    BY <1>w DEF Complete
  <2> QED
    BY <1>5, <1>6, <2>1, <2>2
<1>8. P \cap D = {}
  BY <1>w DEF Apart
<1> QED
  BY <1>4, <1>5, <1>6, <1>7, <1>8 DEF h

Bytes == Whole(got, rx, purged, dropped, arrived)

LEMMA InitBytes == Init => Bytes
<1> SUFFICES ASSUME Init PROVE Bytes
  OBVIOUS
<1>1. got = <<>> /\ rx = <<>> /\ purged = {} /\ dropped = {} /\ arrived = 0
  BY DEF Init
<1>2. Whole(<<>>, <<>>, {}, {}, 0)
  BY DEF Whole, Delivers, Complete, Known, Apart
<1> QED
  BY <1>1, <1>2 DEF Bytes

LEMMA StepBytes == IInv /\ Bytes /\ [Next]_vars => Bytes'
<1> SUFFICES ASSUME IInv, Bytes, [Next]_vars PROVE Bytes'
  OBVIOUS
<1>0. /\ got \in Seq(Nat) /\ rx \in Seq(Nat) /\ arrived \in Nat
      /\ Whole(got, rx, purged, dropped, arrived)
  BY DEF IInv, TypeOK, Bytes
<1>1. CASE RxIsr \/ FifoReceive
  <2>1. /\ arrived' = arrived + 1 /\ got' = got /\ purged' = purged
        /\ \/ rx' = Append(rx, arrived + 1) /\ dropped' = dropped
           \/ rx' = rx /\ dropped' = dropped \cup {arrived + 1}
    BY <1>1 DEF RxIsr, FifoReceive, StoreByte, hist
  <2>2. CASE rx' = Append(rx, arrived + 1) /\ dropped' = dropped
    <3>1. Whole(got, Append(rx, arrived + 1), purged, dropped, arrived + 1)
      BY <1>0, WholeArrive
    <3> QED
      BY <2>1, <2>2, <3>1 DEF Bytes
  <2>3. CASE rx' = rx /\ dropped' = dropped \cup {arrived + 1}
    <3>1. Whole(got, rx, purged, dropped \cup {arrived + 1}, arrived + 1)
      BY <1>0, WholeDrop
    <3> QED
      BY <2>1, <2>3, <3>1 DEF Bytes
  <2> QED
    BY <2>1, <2>2, <2>3
<1>2. CASE PollByte
  <2>1. /\ rx # <<>> /\ rx' = Tail(rx) /\ got' = Append(got, Head(rx))
        /\ UNCHANGED <<purged, dropped, arrived>>
    BY <1>2 DEF PollByte, line
  <2>2. rx' = SubSeq(rx, 1 + 1, Len(rx)) /\ got' = got \o SubSeq(rx, 1, 1)
        /\ 1 \in 0..Len(rx)
    BY <1>0, <2>1, TakeFirst
  <2>3. Whole(got \o SubSeq(rx, 1, 1), SubSeq(rx, 1 + 1, Len(rx)), purged, dropped, arrived)
    BY <1>0, <2>2, WholeTake
  <2> QED
    BY <2>1, <2>2, <2>3 DEF Bytes
<1>3. CASE Copy
  <2>1. /\ claim \in 0..Len(rx) /\ rx' = SubSeq(rx, claim + 1, Len(rx))
        /\ UNCHANGED <<dropped, arrived>>
        /\ \/ got' = got \o SubSeq(rx, 1, claim) /\ purged' = purged
           \/ purged' = purged \cup {rx[i] : i \in 1..claim} /\ got' = got
    BY <1>3 DEF Copy, line, IInv, TypeOK
  <2>2. Whole(got \o SubSeq(rx, 1, claim), SubSeq(rx, claim + 1, Len(rx)),
              purged, dropped, arrived)
    BY <1>0, <2>1, WholeTake
  <2>3. Whole(got, SubSeq(rx, claim + 1, Len(rx)),
              purged \cup {rx[i] : i \in 1..claim}, dropped, arrived)
    BY <1>0, <2>1, WholePurge
  <2> QED
    BY <2>1, <2>2, <2>3 DEF Bytes
<1>8. CASE StrayRxIsr
  <2>1. /\ rx # <<>> /\ rx' = Tail(rx) /\ dropped' = dropped \cup {Head(rx)}
        /\ UNCHANGED <<got, purged, arrived>>
    BY <1>8 DEF StrayRxIsr, hist
  <2>2. Whole(got, Tail(rx), purged, dropped \cup {Head(rx)}, arrived)
    BY <1>0, <2>1, WholeStray
  <2> QED
    BY <2>1, <2>2 DEF Bytes
<1>4. CASE UNCHANGED <<got, rx, purged, dropped, arrived>>
  BY <1>0, <1>4 DEF Bytes
<1>5. CASE \/ ReadCall \/ ReadRefused \/ Drain \/ ForceReadTimeout
           \/ ReadLoop \/ TakeToken \/ TakeNone \/ TimeoutExpires
  BY <1>4, <1>5 DEF ReadCall, ReadRefused, Drain, ForceReadTimeout, ReadLoop, TakeToken,
     TakeNone, TimeoutExpires, line, hist
<1>6. CASE \/ Claim \/ ClaimAgain \/ CheckFlags \/ ClearFlag
           \/ PollDone \/ PollTimeout \/ PollError \/ PollNoWait
  BY <1>4, <1>6 DEF Claim, ClaimAgain, CheckFlags, ClearFlag, PollDone, PollTimeout,
     PollError, PollNoWait, PollEnd, line, hist
<1>7. CASE UNCHANGED vars
  BY <1>4, <1>7 DEF vars
<1> QED
  BY <1>1, <1>2, <1>3, <1>5, <1>6, <1>7, <1>8 DEF Next, ReaderStep

(* The interrupt, the copy, the polling loop and the drain, in any order,  *)
(* neither lose, repeat nor reorder a byte that was not counted as lost.   *)
THEOREM EachByteKept == Spec => []EachByteOnce
<1>1. IInv /\ Bytes => EachByteOnce
  BY WholeSaid DEF IInv, TypeOK, Bytes, EachByteOnce
<1> QED
  BY <1>1, InitBytes, StepBytes, RxInvariant, PTL DEF Spec

(***************************************************************************)
(* No silent hole.                                                         *)
(***************************************************************************)
(* What is dropped before the last byte of g has been told.                *)
Behind(g, D, n) == g # <<>> => \A b \in D : b < g[Len(g)] => b <= n

(* A drop not told yet is remembered by the flag, and between reads there  *)
(* is none behind the data.                                                *)
Flagged == proto = "irq" => \A b \in dropped : b > reported => overrun
Closed == proto = "irq" /\ (pc = "idle" \/ call = "drain") => Behind(got, dropped, reported)
Holes == Flagged /\ Closed

LEMMA ProtoKept == [Next]_vars => proto' = proto
<1>1. RxIsr \/ StrayRxIsr \/ FifoReceive => proto' = proto
  BY DEF RxIsr, StrayRxIsr, FifoReceive
<1>6. ReadCall \/ ReadRefused \/ Drain \/ ForceReadTimeout => proto' = proto
  BY DEF ReadCall, ReadRefused, Drain, ForceReadTimeout
<1>2. ReadLoop \/ TakeToken \/ TakeNone \/ TimeoutExpires \/ Claim \/ ClaimAgain => proto' = proto
  BY DEF ReadLoop, TakeToken, TakeNone, TimeoutExpires, Claim, ClaimAgain
<1>3. Copy \/ CheckFlags \/ ClearFlag => proto' = proto
  BY DEF Copy, CheckFlags, ClearFlag
<1>4. PollByte \/ PollDone \/ PollTimeout \/ PollError \/ PollNoWait => proto' = proto
  BY DEF PollByte, PollDone, PollTimeout, PollError, PollNoWait, PollEnd
<1>5. UNCHANGED vars => proto' = proto
  BY DEF vars
<1> QED
  BY <1>1, <1>2, <1>3, <1>4, <1>5, <1>6 DEF Next, ReaderStep

LEMMA InitHoles == Init => Holes
BY DEF Init, Holes, Flagged, Closed, Behind

LEMMA StepHoles == IInv /\ Bytes /\ Holes /\ [Next]_vars => Holes'
<1> SUFFICES ASSUME IInv, Bytes, Holes, [Next]_vars PROVE Holes'
  OBVIOUS
<1> SUFFICES ASSUME proto = "irq" PROVE Holes'
  <2>1. proto' = proto
    BY ProtoKept
  <2> QED
    BY <2>1 DEF Holes, Flagged, Closed
<1>0. /\ \A b \in dropped : b > reported => overrun
      /\ pc = "idle" \/ call = "drain" => Behind(got, dropped, reported)
  BY DEF Holes, Flagged, Closed
<1>1. /\ arrived \in Nat /\ reported \in Nat /\ got \in Seq(Nat)
      /\ dropped \subseteq 1..arrived /\ \A i \in 1..Len(got) : got[i] \in 1..arrived
  BY DEF IInv, TypeOK, Bytes, Whole, Known
<1>2. /\ pc \in {"loop", "take", "pend", "flags", "clear"} => call = "read"
      /\ pc # "poll" /\ call \in {"read", "drain"}
  BY DEF IInv, TypeOK, Flow, OwnCode, Polled
<1>3. CASE RxIsr
  <2>1. /\ got' = got /\ reported' = reported /\ call' = call
        /\ (pc' = pc \/ (pc = "pend" /\ pc' = "claim"))
        /\ \/ dropped' = dropped /\ overrun' = overrun
           \/ dropped' = dropped \cup {arrived + 1} /\ overrun' = TRUE
    BY <1>3 DEF RxIsr, StoreByte, GiveSem
  <2>2. Flagged'
    BY <1>0, <2>1 DEF Flagged
  <2>3. Behind(got, dropped, reported) => Behind(got, dropped \cup {arrived + 1}, reported)
    <3>1. got # <<>> => got[Len(got)] \in 1..arrived
      BY <1>1, EmptySeq, LenProperties
    <3> QED
      BY <1>1, <3>1 DEF Behind
  <2>4. Closed'
    BY <1>0, <1>2, <2>1, <2>3 DEF Closed
  <2> QED
    BY <2>2, <2>4 DEF Holes
<1>4. CASE Copy
  <2>1. /\ dropped' = dropped /\ overrun' = overrun /\ reported' = reported /\ call' = call
        /\ call = "read" => pc' = "loop"
        /\ call # "read" => got' = got
    BY <1>4 DEF Copy, AfterCopy, line
  <2>2. Flagged'
    BY <1>0, <2>1 DEF Flagged
  <2>3. Closed'
    BY <1>0, <1>2, <2>1 DEF Closed
  <2> QED
    BY <2>2, <2>3 DEF Holes
<1>5. CASE CheckFlags
  <2>1. /\ pc = "flags" /\ call' = call
        /\ UNCHANGED <<got, dropped, reported, overrun>>
        /\ (pc' = "idle" => ~overrun)
    BY <1>5 DEF CheckFlags, line, hist
  <2>2. ~overrun => Behind(got, dropped, reported)
    BY <1>0, <1>1 DEF Behind
  <2>3. Closed'
    BY <1>2, <2>1, <2>2 DEF Closed
  <2> QED
    BY <1>0, <2>1, <2>3 DEF Holes, Flagged
<1>6. CASE ClearFlag
  <2>1. UNCHANGED <<got, dropped>> /\ reported' = arrived
    BY <1>6 DEF ClearFlag, line
  <2>2. \A b \in dropped : b \in Nat /\ b <= arrived /\ ~(b > arrived)
    BY <1>1
  <2>3. Behind(got, dropped, arrived)
    BY <2>2 DEF Behind
  <2> QED
    BY <2>1, <2>2, <2>3 DEF Holes, Flagged, Closed
<1>7. ASSUME UNCHANGED <<got, dropped, reported, overrun>>,
             pc' = "idle" \/ call' = "drain" => pc = "idle" \/ call = "drain"
      PROVE  Holes'
  BY <1>0, <1>7 DEF Holes, Flagged, Closed
<1>8. CASE ReadCall \/ ReadRefused \/ Drain
  BY <1>7, <1>8 DEF ReadCall, ReadRefused, Drain, line, hist
<1>9. CASE ForceReadTimeout \/ ReadLoop \/ TakeToken \/ TakeNone \/ TimeoutExpires
  BY <1>7, <1>9 DEF ForceReadTimeout, ReadLoop, TakeToken, TakeNone, TimeoutExpires,
     AfterTimeout, line, hist
<1>10. CASE Claim \/ ClaimAgain
  BY <1>7, <1>10 DEF Claim, ClaimAgain, line, hist
<1>11. CASE StrayRxIsr \/ FifoReceive \/ PollByte \/ PollDone \/ PollTimeout \/ PollError \/ PollNoWait
  BY <1>2, <1>11 DEF StrayRxIsr, FifoReceive, Polled, PollByte, PollDone, PollTimeout,
     PollError, PollNoWait, PollEnd
<1>12. CASE UNCHANGED vars
  BY <1>7, <1>12 DEF vars
<1> QED
  BY <1>3, <1>4, <1>5, <1>6, <1>8, <1>9, <1>10, <1>11, <1>12 DEF Next, ReaderStep

(* With interrupts, no read ends with a byte missing before its last one   *)
(* that no OVERRUN has told of.                                            *)
THEOREM HolesTold == Spec => []HolesReported
<1>1. Holes => HolesReported
  BY DEF Holes, Closed, Behind, HolesReported
<1> QED
  BY <1>1, InitHoles, StepHoles, InitBytes, StepBytes, RxInvariant, PTL DEF Spec
=============================================================================
