--------------------------- MODULE ZuartTxProofs ---------------------------
(***************************************************************************)
(* Theorems about ZuartTx for any size of the ring buffer and the UART's   *)
(* FIFO and any number of bytes.                                           *)
(***************************************************************************)
EXTENDS ZuartTx, SequenceTheorems, TLAPS

(***************************************************************************)
(* Lemmas about sequences.                                                 *)
(***************************************************************************)
(* The bytes of a write are numbers, as many as were accepted.             *)
LEMMA BytesType ==
  ASSUME NEW a \in Nat, NEW b \in Nat
  PROVE  /\ Bytes(a, a + b) \in Seq(Nat)
         /\ Len(Bytes(a, a + b)) = b
         /\ \A i \in 1..b : Bytes(a, a + b)[i] = a + i
<1>1. (a + b) - a = b
  OBVIOUS
<1>2. Bytes(a, a + b) = [i \in 1..b |-> a + i]
  BY <1>1 DEF Bytes
<1>3. [i \in 1..b |-> a + i] \in [1..b -> Nat]
  OBVIOUS
<1>4. [i \in 1..b |-> a + i] \in Seq(Nat)
  BY <1>3, SeqDef
<1> QED
  BY <1>2, <1>4, LenProperties

(* The bytes of the line so far.                                           *)
LEMMA FirstBytes ==
  ASSUME NEW a \in Nat
  PROVE  /\ Bytes(0, a) \in Seq(Nat)
         /\ Len(Bytes(0, a)) = a
         /\ \A i \in 1..a : Bytes(0, a)[i] = i
<1>1. Bytes(0, a) = [i \in 1..a |-> 0 + i]
  BY a - 0 = a DEF Bytes
<1>2. [i \in 1..a |-> 0 + i] \in [1..a -> Nat]
  OBVIOUS
<1>3. Bytes(0, a) \in Seq(Nat)
  BY <1>1, <1>2, SeqDef
<1>4. Len(Bytes(0, a)) = a
  BY <1>1, <1>3, LenProperties
<1>5. \A i \in 1..a : Bytes(0, a)[i] = i
  BY <1>1
<1> QED
  BY <1>3, <1>4, <1>5

(* Concatenation is associative; hidden behind a name, an instance of it is*)
(* all a leaf sees.                                                        *)
Regroups(x, y, z) == (x \o y) \o z = x \o (y \o z)

LEMMA Regroup ==
  ASSUME NEW x \in Seq(Nat), NEW y \in Seq(Nat), NEW z \in Seq(Nat)
  PROVE  Regroups(x, y, z)
BY SMTT(60) DEF Regroups

(* Two writes in a row.                                                    *)
LEMMA BytesConcat ==
  ASSUME NEW a \in Nat, NEW b \in Nat
  PROVE  Bytes(0, a) \o Bytes(a, a + b) = Bytes(0, a + b)
<1> DEFINE s == Bytes(0, a)
           t == Bytes(a, a + b)
           u == Bytes(0, a + b)
<1>1. /\ s \in Seq(Nat) /\ Len(s) = a
      /\ \A i \in 1..a : s[i] = i
  BY FirstBytes
<1>2. /\ t \in Seq(Nat) /\ Len(t) = b
      /\ \A i \in 1..b : t[i] = a + i
  BY BytesType
<1>3. /\ u \in Seq(Nat) /\ Len(u) = a + b
      /\ \A i \in 1..(a + b) : u[i] = i
  <2>1. a + b \in Nat
    OBVIOUS
  <2> QED
    BY <2>1, FirstBytes
<1> HIDE DEF s, t, u
<1>4. /\ s \o t \in Seq(Nat) /\ Len(s \o t) = a + b
      /\ \A i \in 1..(a + b) : (s \o t)[i] = IF i <= a THEN s[i] ELSE t[i - a]
  BY <1>1, <1>2, ConcatProperties
<1>5. ASSUME NEW i \in 1..(a + b) PROVE (s \o t)[i] = u[i]
  <2>1. CASE i <= a
    BY <1>1, <1>3, <1>4, <2>1
  <2>2. CASE ~(i <= a)
    <3>1. i - a \in 1..b
      BY <2>2
    <3>2. t[i - a] = a + (i - a) /\ a + (i - a) = i
      BY <1>2, <3>1
    <3> QED
      BY <1>3, <1>4, <2>2, <3>2
  <2> QED
    BY <2>1, <2>2
<1>6. s \o t = u
  BY <1>3, <1>4, <1>5, SeqEqual
<1> QED
  BY <1>6 DEF s, t, u

(* One byte more.                                                          *)
LEMMA OneByte == ASSUME NEW a \in Nat PROVE Bytes(a, a + 1) = <<a + 1>>
<1> DEFINE t == Bytes(a, a + 1)
<1>1. t \in Seq(Nat) /\ Len(t) = 1 /\ t[1] = a + 1
  <2>1. 1 \in Nat /\ 1 \in 1..1
    OBVIOUS
  <2> QED
    BY <2>1, BytesType
<1> HIDE DEF t
<1>2. t = <<a + 1>>
  BY <1>1
<1> QED
  BY <1>2 DEF t

LEMMA BytesAppend ==
  ASSUME NEW a \in Nat
  PROVE  Append(Bytes(0, a), a + 1) = Bytes(0, a + 1)
<1> DEFINE s == Bytes(0, a)
<1>1. s \in Seq(Nat)
  BY FirstBytes
<1>2. s \o <<a + 1>> = Bytes(0, a + 1)
  BY OneByte, BytesConcat
<1> HIDE DEF s
<1>3. Append(s, a + 1) = s \o <<a + 1>>
  BY <1>1
<1>4. Append(s, a + 1) = Bytes(0, a + 1)
  BY <1>2, <1>3
<1> QED
  BY <1>4 DEF s

(* A byte that goes from the head of one sequence to the end of the one    *)
(* before it leaves the whole as it was.                                   *)
LEMMA MoveHead ==
  ASSUME NEW s \in Seq(Nat), NEW t \in Seq(Nat), t # <<>>
  PROVE  Append(s, Head(t)) \o Tail(t) = s \o t
<1>1. Len(t) \in Nat \ {0} /\ Head(t) = t[1] /\ t[1] \in Nat
  BY EmptySeq, ElementOfSeq
<1>2. Tail(t) \in Seq(Nat) /\ Tail(t) = SubSeq(t, 2, Len(t))
  BY HeadTailProperties, TailIsSubSeq
<1>3. t = <<t[1]>> \o Tail(t)
  <2>1. 1 \in 1..Len(t) /\ Len(t) \in 1..Len(t) /\ 1 + 1 = 2
    BY <1>1
  <2>2. SubSeq(t, 1, Len(t)) = <<t[1]>> \o SubSeq(t, 1 + 1, Len(t))
    BY <2>1, SubSeqRecursiveFirst
  <2> QED
    BY <1>2, <2>1, <2>2, SubSeqFull
<1>4. Append(s, t[1]) = s \o <<t[1]>>
  BY <1>1, AppendIsConcat
<1>5. <<t[1]>> \in Seq(Nat)
  BY <1>1
<1>6. Regroups(s, <<t[1]>>, Tail(t))
  BY <1>2, <1>5, Regroup
<1> QED
  BY <1>1, <1>3, <1>4, <1>6 DEF Regroups

(* The same, behind what has left already.                                 *)
LEMMA MoveHeadTwice ==
  ASSUME NEW s \in Seq(Nat), NEW h \in Seq(Nat), NEW t \in Seq(Nat), t # <<>>
  PROVE  (s \o Append(h, Head(t))) \o Tail(t) = (s \o h) \o t
<1> DEFINE a == Append(h, Head(t))
           r == Tail(t)
<1>1. a \in Seq(Nat) /\ r \in Seq(Nat)
  BY HeadTailProperties, AppendProperties
<1>2. a \o r = h \o t
  BY MoveHead
<1> HIDE DEF a, r
<1>3. Regroups(s, a, r) /\ Regroups(s, h, t)
  BY <1>1, Regroup
<1>4. (s \o a) \o r = (s \o h) \o t
  BY <1>2, <1>3 DEF Regroups
<1> QED
  BY <1>4 DEF a, r

LEMMA AppendConcat ==
  ASSUME NEW s \in Seq(Nat), NEW t \in Seq(Nat), NEW n \in Nat
  PROVE  s \o Append(t, n) = Append(s \o t, n)
OBVIOUS

(* The head of what waits is the head of its first part.                   *)
LEMMA HeadOfConcat ==
  ASSUME NEW s \in Seq(Nat), NEW t \in Seq(Nat), s # <<>>
  PROVE  /\ s \o t # <<>>
         /\ Head(s \o t) = Head(s)
         /\ Tail(s \o t) = Tail(s) \o t
<1> DEFINE h == Head(s)
           r == Tail(s)
           q == r \o t
<1>1. /\ h \in Nat /\ r \in Seq(Nat) /\ <<h>> \in Seq(Nat)
      /\ <<>> \in Seq(Nat) /\ Append(<<>>, h) = <<h>>
  BY HeadTailProperties
<1>2. q \in Seq(Nat)
  BY <1>1, ConcatProperties
<1>3. Append(<<>>, h) \o r = <<>> \o s
  BY <1>1, MoveHead
<1>4. <<>> \o s = s
  BY ConcatEmptySeq
<1>5. s = <<h>> \o r
  BY <1>1, <1>3, <1>4
<1> HIDE DEF h, r
<1>6. Regroups(<<h>>, r, t)
  BY <1>1, Regroup
<1>7. s \o t = <<h>> \o q
  BY <1>5, <1>6 DEF Regroups
<1> HIDE DEF q
<1>8. <<h>> \o q # <<>> /\ Head(<<h>> \o q) = h
  BY <1>1, <1>2
<1>9. Tail(<<h>> \o q) = q
  BY <1>1, <1>2, SMTT(30)
<1> QED
  BY <1>7, <1>8, <1>9 DEF h, r, q

(***************************************************************************)
(* The inductive invariant.                                                *)
(***************************************************************************)
(* A thread that is about to wait and will find no token has seen a full   *)
(* ring buffer, and no byte has left it since.                             *)
NoRoomSeen == pc \in {"take", "pend"} /\ sem = 0 /\ ~wiped => Len(tx) = TxSize
PendNoToken == pc = "pend" => sem = 0
NoClaim == pc # "copy" => claim = 0

(* Only a call that may wait looks for room, and only while it lacks some. *)
MayWait == /\ pc \in {"loop", "take", "pend"} => timed
           /\ pc \in {"take", "pend"} => need > 0

(* Each protocol has its own code, and only one uses the ring buffer.      *)
OwnCode == /\ pc = "poll" => proto = "poll"
           /\ pc \notin {"idle", "poll"} => proto = "irq"
           /\ proto # "irq" => tx = <<>>

Flow == NoRoomSeen /\ PendNoToken /\ NoClaim /\ MayWait /\ OwnCode
IInv == TypeOK /\ NothingStranded /\ Flow

LEMMA InitInv == Init => IInv
<1> SUFFICES ASSUME Init PROVE IInv
  OBVIOUS
<1>1. <<>> \in Seq(Nat) /\ Len(<<>>) = 0
  BY EmptySeq
<1>2. TypeOK
  <2>1. Len(tx) + claim <= TxSize /\ claim <= need /\ Len(hw) <= HwDepth
        /\ claim \in Nat /\ need \in Nat /\ put \in Nat
    BY <1>1, TxAssumption DEF Init
  <2>2. tx \in Seq(Nat) /\ hw \in Seq(Nat) /\ sent \in Seq(Nat)
    BY <1>1 DEF Init
  <2>3. irq \in BOOLEAN /\ timed \in BOOLEAN /\ wiped \in BOOLEAN
    BY DEF Init
  <2>4. proto \in Protos
    BY DEF Init, WriteProto, Protos
  <2> QED
    BY <2>1, <2>2, <2>3, <2>4 DEF Init, TypeOK, ErrCodes
<1>3. NothingStranded /\ Flow
  BY DEF Init, NothingStranded, Flow, NoRoomSeen, PendNoToken, NoClaim, MayWait, OwnCode
<1> QED
  BY <1>2, <1>3 DEF IInv

(* The interrupt takes a byte out of the ring buffer: if the thread waits  *)
(* it is woken, if it is about to wait it will find the token.             *)
LEMMA TxIsrSendInv == IInv /\ TxIsrSend => IInv'
<1> SUFFICES ASSUME IInv, TxIsrSend PROVE IInv'
  OBVIOUS
<1>1. TypeOK /\ tx # <<>>
  BY DEF IInv, TxIsrSend
<1>2. Head(tx) \in Nat /\ Tail(tx) \in Seq(Nat) /\ Len(Tail(tx)) = Len(tx) - 1
  BY <1>1, HeadTailProperties DEF TypeOK
<1>3. Append(hw, Head(tx)) \in Seq(Nat) /\ Len(Append(hw, Head(tx))) = Len(hw) + 1
  BY <1>1, <1>2, AppendProperties DEF TypeOK
<1>4. Len(hw) \in Nat /\ Len(tx) \in Nat
  BY <1>1, LenProperties DEF TypeOK
<1>5. /\ hw' = Append(hw, Head(tx)) /\ tx' = Tail(tx) /\ Len(hw) < HwDepth
      /\ irq /\ irq' = irq /\ wiped' = (wiped /\ pc # "pend")
      /\ UNCHANGED <<proto, claim, err, timed, need, sent, put>>
  BY DEF TxIsrSend
<1>6. \/ pc = "pend" /\ pc' = "put" /\ sem' = sem
      \/ pc # "pend" /\ sem' = 1 /\ pc' = pc
  BY DEF TxIsrSend, GiveSem
<1>7. TypeOK'
  BY <1>1, <1>2, <1>3, <1>4, <1>5, <1>6, TxAssumption DEF TypeOK
<1>8. NothingStranded'
  BY <1>5 DEF NothingStranded
<1>9. Flow'
  BY <1>1, <1>5, <1>6 DEF Flow, NoRoomSeen, PendNoToken, NoClaim, MayWait,
         OwnCode, IInv
<1> QED
  BY <1>7, <1>8, <1>9 DEF IInv

LEMMA LineSendInv == IInv /\ LineSend => IInv'
<1> SUFFICES ASSUME IInv, LineSend PROVE IInv'
  OBVIOUS
<1>1. TypeOK /\ hw # <<>>
  BY DEF IInv, LineSend
<1>2. Head(hw) \in Nat /\ Tail(hw) \in Seq(Nat) /\ Len(Tail(hw)) = Len(hw) - 1
  BY <1>1, HeadTailProperties DEF TypeOK
<1>3. Append(sent, Head(hw)) \in Seq(Nat)
  BY <1>1, <1>2, AppendProperties DEF TypeOK
<1>4. Len(hw) \in Nat
  BY <1>1, LenProperties DEF TypeOK
<1>5. /\ irq \/ proto = "poll"
      /\ sent' = Append(sent, Head(hw)) /\ hw' = Tail(hw)
      /\ UNCHANGED <<proto, tx, claim, sem, irq, err, pc, timed, need, put, wiped>>
  BY DEF LineSend
<1>6. TypeOK'
  BY <1>1, <1>2, <1>3, <1>4, <1>5, TxAssumption DEF TypeOK
<1>7. NothingStranded' /\ Flow'
  BY <1>5 DEF NothingStranded, Flow, NoRoomSeen, PendNoToken, NoClaim, MayWait,
         OwnCode, IInv
<1> QED
  BY <1>6, <1>7 DEF IInv

(* The copied bytes become visible: the interrupt may be off, but the      *)
(* thread is about to enable it.                                           *)
LEMMA PutFinishInv == IInv /\ PutFinish => IInv'
<1> SUFFICES ASSUME IInv, PutFinish PROVE IInv'
  OBVIOUS
<1>1. TypeOK /\ put \in Nat /\ claim \in Nat /\ need \in Nat /\ tx \in Seq(Nat)
  BY DEF IInv, TypeOK
<1>2. Bytes(put, put + claim) \in Seq(Nat) /\ Len(Bytes(put, put + claim)) = claim
  BY <1>1, BytesType
<1>3. /\ tx \o Bytes(put, put + claim) \in Seq(Nat)
      /\ Len(tx \o Bytes(put, put + claim)) = Len(tx) + claim
  BY <1>1, <1>2, ConcatProperties
<1>4. /\ tx' = tx \o Bytes(put, put + claim) /\ put' = put + claim
      /\ need' = need - claim /\ claim' = 0 /\ pc' = "enable"
      /\ pc = "copy"
      /\ UNCHANGED <<proto, sem, irq, err, timed, hw, sent, wiped>>
  BY DEF PutFinish, Accepted, AfterPut, uart
<1>5. TypeOK'
  BY <1>1, <1>3, <1>4, TxAssumption DEF TypeOK
<1>6. NothingStranded' /\ Flow'
  BY <1>4 DEF NothingStranded, Flow, NoRoomSeen, PendNoToken, NoClaim, MayWait,
         OwnCode, IInv
<1> QED
  BY <1>5, <1>6 DEF IInv

(* In polling mode the thread gives a byte to the UART itself.             *)
LEMMA PollOutInv == IInv /\ PollOut => IInv'
<1> SUFFICES ASSUME IInv, PollOut PROVE IInv'
  OBVIOUS
<1>1. TypeOK /\ pc = "poll" /\ proto = "poll" /\ claim = 0
  BY DEF IInv, Flow, OwnCode, NoClaim, PollOut
<1>2. put + 1 \in Nat /\ need - 1 \in Nat /\ Len(hw) \in Nat /\ Len(hw) < HwDepth
  BY <1>1, LenProperties DEF TypeOK, PollOut
<1>3. Append(hw, put + 1) \in Seq(Nat) /\ Len(Append(hw, put + 1)) = Len(hw) + 1
  BY <1>1, <1>2, AppendProperties DEF TypeOK
<1>4. /\ hw' = Append(hw, put + 1) /\ put' = put + 1 /\ need' = need - 1
      /\ UNCHANGED <<proto, tx, claim, sem, irq, err, pc, timed, sent, wiped>>
  BY DEF PollOut
<1>5. TypeOK'
  BY <1>1, <1>2, <1>3, <1>4, TxAssumption DEF TypeOK
<1>6. NothingStranded' /\ Flow'
  BY <1>1, <1>4 DEF NothingStranded, Flow, NoRoomSeen, PendNoToken, NoClaim, MayWait,
         OwnCode, IInv
<1> QED
  BY <1>5, <1>6 DEF IInv

LEMMA WriteCallInv == IInv /\ WriteCall => IInv'
<1> SUFFICES ASSUME IInv, WriteCall PROVE IInv'
  OBVIOUS
<1>1. /\ need' \in Nat /\ timed' \in BOOLEAN /\ err' \in ErrCodes
      /\ sem' = 0 /\ wiped' = FALSE /\ pc = "idle" /\ proto # "none"
      /\ UNCHANGED <<proto, tx, claim, irq, hw, sent, put>>
  BY TxAssumption DEF WriteCall, uart
<1>2. pc' = IF proto = "poll" THEN "poll" ELSE IF timed' THEN "loop" ELSE "put"
  BY DEF WriteCall
<1>3. TypeOK /\ claim = 0
  BY <1>1 DEF IInv, Flow, NoClaim
<1>4. TypeOK'
  <2>1. Len(tx') + claim' <= TxSize /\ claim' <= need' /\ Len(hw') <= HwDepth
    BY <1>1, <1>3 DEF TypeOK
  <2>2. sem' \in {0, 1} /\ wiped' \in BOOLEAN
    BY <1>1
  <2> QED
    BY <1>1, <1>2, <1>3, <2>1, <2>2 DEF TypeOK
<1>5. proto' \in {"irq", "poll"}
  BY <1>1, <1>3 DEF TypeOK, Protos
<1>6. NothingStranded' /\ Flow'
  BY <1>1, <1>2, <1>3, <1>5 DEF IInv, NothingStranded, Flow, NoRoomSeen, PendNoToken,
         NoClaim, MayWait, OwnCode
<1> QED
  BY <1>4, <1>6 DEF IInv

(* The steps that move no byte.                                            *)
LEMMA StepInv == IInv /\ [Next]_vars => IInv'
<1> SUFFICES ASSUME IInv, [Next]_vars PROVE IInv'
  OBVIOUS
<1> USE TxAssumption DEF IInv, TypeOK, NothingStranded, Flow, NoRoomSeen, PendNoToken,
        NoClaim, MayWait, OwnCode, ErrCodes, uart
<1>0. Len(tx) \in Nat
  BY LenProperties
<1>1. CASE WriteRefused
  BY <1>1 DEF WriteRefused
<1>2. CASE WriteLoop
  BY <1>0, <1>2 DEF WriteLoop, HasSpace
<1>3. CASE TakeToken
  BY <1>3 DEF TakeToken
<1>4. CASE TakeNone
  BY <1>4 DEF TakeNone
<1>5. CASE TimeoutExpires
  BY <1>5 DEF TimeoutExpires, TimeoutErr
<1>6. CASE PutClaim
  BY <1>0, <1>6 DEF PutClaim, MinOf, Room
<1>7. CASE PutClaimAgain
  BY <1>0, <1>7 DEF PutClaimAgain, MinOf, Room
<1>8. CASE EnableIrq
  BY <1>8 DEF EnableIrq
<1>9. CASE ForceWriteTimeout
  BY <1>9 DEF ForceWriteTimeout, TimeoutErr
<1>10. CASE TxIsrStop
  BY <1>10 DEF TxIsrStop, TxComplete
<1>11. CASE PollDone
  BY <1>11 DEF PollDone
<1>12. CASE UNCHANGED vars
  BY <1>12 DEF vars
<1> QED
  BY <1>1, <1>2, <1>3, <1>4, <1>5, <1>6, <1>7, <1>8, <1>9, <1>10, <1>11, <1>12,
     TxIsrSendInv, LineSendInv, PutFinishInv, PollOutInv, WriteCallInv DEF Next, WriterStep

THEOREM TxInvariant == Spec => []IInv
BY InitInv, StepInv, PTL DEF Spec

(***************************************************************************)
(* What it says about the code.                                            *)
(***************************************************************************)
(* The ring buffer and the UART keep their capacity, and ring_buf_put      *)
(* writes only to free room.                                               *)
THEOREM TypeCorrect == Spec => []TypeOK
BY TxInvariant, PTL DEF IInv

(* Whatever the interleaving of zuart_write_irq_proto with the interrupt   *)
(* that disables itself, no byte is left with the interrupt off.           *)
THEOREM NeverStranded == Spec => []NothingStranded
BY TxInvariant, PTL DEF IInv

(* A thread waits for room only while the interrupt that will wake it is   *)
(* enabled and has bytes to send.                                          *)
THEOREM WakeupKept == Spec => []NoLostWakeup
<1>1. IInv => NoLostWakeup
  <2> SUFFICES ASSUME IInv, pc = "pend", ~wiped PROVE irq /\ Len(tx) = TxSize
    BY DEF NoLostWakeup
  <2>1. Len(tx) = TxSize /\ proto = "irq"
    BY DEF IInv, Flow, NoRoomSeen, PendNoToken, OwnCode
  <2>2. tx # <<>>
    BY <2>1, TxAssumption, EmptySeq
  <2>3. irq
    BY <2>1, <2>2 DEF IInv, NothingStranded, TypeOK
  <2> QED
    BY <2>1, <2>3
<1> QED
  BY <1>1, TxInvariant, PTL

(* The line carries the bytes of the thread in order: none is lost,        *)
(* repeated or overtaken.                                                  *)
THEOREM OrderKept == Spec => []LineOrder
<1>1. Init => LineOrder
  <2> SUFFICES ASSUME Init PROVE LineOrder
    OBVIOUS
  <2>1. <<>> \in Seq(Nat) /\ Bytes(0, 0 + 0) \in Seq(Nat) /\ Len(Bytes(0, 0 + 0)) = 0
    BY BytesType, EmptySeq
  <2>2. Bytes(0, 0) = <<>>
    BY <2>1, EmptySeq
  <2> QED
    BY <2>1, <2>2, ConcatEmptySeq DEF Init, LineOrder
<1>2. IInv /\ LineOrder /\ [Next]_vars => LineOrder'
  <2> SUFFICES ASSUME IInv, LineOrder, [Next]_vars PROVE LineOrder'
    OBVIOUS
  <2>1. sent \in Seq(Nat) /\ hw \in Seq(Nat) /\ tx \in Seq(Nat)
        /\ put \in Nat /\ claim \in Nat
    BY DEF IInv, TypeOK
  <2>2. CASE TxIsrSend
    <3>1. hw' = Append(hw, Head(tx)) /\ tx' = Tail(tx) /\ tx # <<>>
          /\ sent' = sent /\ put' = put
      BY <2>2 DEF TxIsrSend
    <3>2. (sent \o Append(hw, Head(tx))) \o Tail(tx) = (sent \o hw) \o tx
      BY <2>1, <3>1, MoveHeadTwice
    <3> QED
      BY <3>1, <3>2 DEF LineOrder
  <2>3. CASE LineSend
    <3>1. sent' = Append(sent, Head(hw)) /\ hw' = Tail(hw) /\ hw # <<>>
          /\ tx' = tx /\ put' = put
      BY <2>3 DEF LineSend
    <3>2. Append(sent, Head(hw)) \o Tail(hw) = sent \o hw
      BY <2>1, <3>1, MoveHead
    <3> QED
      BY <3>1, <3>2 DEF LineOrder
  <2>4. CASE PutFinish
    <3>1. tx' = tx \o Bytes(put, put + claim) /\ put' = put + claim
          /\ sent' = sent /\ hw' = hw
      BY <2>4 DEF PutFinish, Accepted, uart
    <3>2. Bytes(put, put + claim) \in Seq(Nat) /\ sent \o hw \in Seq(Nat)
      BY <2>1, BytesType, ConcatProperties
    <3>3. (sent \o hw) \o (tx \o Bytes(put, put + claim))
            = ((sent \o hw) \o tx) \o Bytes(put, put + claim)
      <4> DEFINE line == sent \o hw
                 new == Bytes(put, put + claim)
      <4>1. line \in Seq(Nat) /\ new \in Seq(Nat)
        BY <3>2
      <4> HIDE DEF line, new
      <4>2. Regroups(line, tx, new)
        BY <2>1, <4>1, Regroup
      <4> QED
        BY <4>2 DEF Regroups, line, new
    <3>4. ((sent \o hw) \o tx) \o Bytes(put, put + claim) = Bytes(0, put + claim)
      BY <2>1, BytesConcat DEF LineOrder
    <3> QED
      BY <3>1, <3>3, <3>4 DEF LineOrder
  <2>5. CASE PollOut
    <3>1. /\ hw' = Append(hw, put + 1) /\ put' = put + 1
          /\ sent' = sent /\ tx' = tx /\ tx = <<>>
      BY <2>5 DEF PollOut, IInv, Flow, OwnCode
    <3>2. sent \o Append(hw, put + 1) = Append(sent \o hw, put + 1)
      BY <2>1, AppendConcat
    <3>3. sent \o hw \in Seq(Nat) /\ sent \o Append(hw, put + 1) \in Seq(Nat)
      BY <2>1, AppendProperties, ConcatProperties
    <3>4. (sent \o hw) \o <<>> = sent \o hw
      BY <3>3, ConcatEmptySeq
    <3>5. (sent \o Append(hw, put + 1)) \o <<>> = sent \o Append(hw, put + 1)
      BY <3>3, ConcatEmptySeq
    <3>6. sent \o hw = Bytes(0, put)
      BY <3>1, <3>4 DEF LineOrder
    <3>7. Append(Bytes(0, put), put + 1) = Bytes(0, put + 1)
      BY <2>1, BytesAppend
    <3> QED
      BY <3>1, <3>2, <3>5, <3>6, <3>7 DEF LineOrder
  <2>6. CASE UNCHANGED <<sent, hw, tx, put>>
    BY <2>6 DEF LineOrder
  <2>7. TxIsrSend \/ LineSend \/ PutFinish \/ PollOut \/ UNCHANGED <<sent, hw, tx, put>>
    BY DEF Next, WriterStep, vars, uart, WriteCall, WriteLoop, TakeToken, TakeNone,
           TimeoutExpires, PutClaim, PutClaimAgain, EnableIrq, ForceWriteTimeout, TxIsrStop,
           WriteRefused, PollDone
  <2> QED
    BY <2>2, <2>3, <2>4, <2>5, <2>6, <2>7
<1> QED
  BY <1>1, <1>2, TxInvariant, PTL DEF Spec

(***************************************************************************)
(* The implementation of WritePort.                                        *)
(***************************************************************************)
(* The steps that change nothing the caller sees.                          *)
Unseen ==
  /\ UNCHANGED <<proto, put, sent, need, timed, err>>
  /\ (pc' # "idle") = (pc # "idle")
  /\ hw' \o tx' = hw \o tx

LEMMA UnseenStutters == Unseen => UNCHANGED Port!port
BY DEF Unseen, Port!port

(* The call ends: a wait that was given up leaves the time-out error.      *)
Ends ==
  /\ UNCHANGED <<proto, put, sent, need, timed, hw, tx>>
  /\ pc # "idle" /\ pc' = "idle"
  /\ proto = "poll" => need = 0
  /\ err' = IF timed /\ need > 0 THEN "TIMEOUT" ELSE err

LEMMA EndsReturns == Ends => Port!Return
BY DEF Ends, Port!Return

LEMMA AcceptsBytes ==
  ASSUME NEW n \in Nat, n \in 1..need, IInv, pc # "idle", pc' # "idle",
         put' = put + n, need' = need - n,
         hw' \o tx' = (hw \o tx) \o Bytes(put, put + n),
         UNCHANGED <<proto, sent, timed, err>>
  PROVE  Port!Accept
<1>1. put \in Nat
  BY DEF IInv, TypeOK
<1>2. Bytes(put, put + n) = [i \in 1..n |-> put + i]
  <2>1. (put + n) - put = n
    BY <1>1
  <2> QED
    BY <2>1 DEF Bytes
<1>3. hw' \o tx' = (hw \o tx) \o [i \in 1..n |-> put + i]
  BY <1>2
<1>4. n \in 1..need /\ put' = put + n /\ need' = need - n
  OBVIOUS
<1>5. (pc # "idle") = TRUE /\ (pc' # "idle") = TRUE
  OBVIOUS
<1> QED
  BY <1>3, <1>4, <1>5 DEF Port!Accept

(* A byte from the thread, in polling mode.                                *)
LEMMA PollOutAccepts == IInv /\ PollOut => Port!Accept
<1> SUFFICES ASSUME IInv, PollOut PROVE Port!Accept
  OBVIOUS
<1>1. /\ pc = "poll" /\ need > 0 /\ tx = <<>> /\ tx' = tx /\ pc' = pc
      /\ hw' = Append(hw, put + 1) /\ put' = put + 1 /\ need' = need - 1
      /\ UNCHANGED <<proto, sent, timed, err>>
  BY DEF PollOut, IInv, Flow, OwnCode
<1>2. hw \in Seq(Nat) /\ put \in Nat /\ need \in Nat
  BY DEF IInv, TypeOK
<1>3. Append(hw, put + 1) \o <<>> = (hw \o <<>>) \o Bytes(put, put + 1)
  <2>1. Append(hw, put + 1) \in Seq(Nat)
    BY <1>2
  <2>2. Append(hw, put + 1) \o <<>> = Append(hw, put + 1) /\ hw \o <<>> = hw
    BY <1>2, <2>1, ConcatEmptySeq
  <2>3. Bytes(put, put + 1) = <<put + 1>>
    BY <1>2, OneByte
  <2>4. Append(hw, put + 1) = hw \o <<put + 1>>
    BY <1>2
  <2> QED
    BY <2>2, <2>3, <2>4
<1>4. 1 \in 1..need /\ 1 \in Nat
  BY <1>1, <1>2
<1> QED
  BY <1>1, <1>3, <1>4, AcceptsBytes

(* ring_buf_put, if it had room.                                           *)
LEMMA PutFinishAccepts == IInv /\ PutFinish => Port!Accept \/ Unseen
<1> SUFFICES ASSUME IInv, PutFinish PROVE Port!Accept \/ Unseen
  OBVIOUS
<1>1. /\ pc = "copy" /\ pc' = "enable" /\ tx' = tx \o Bytes(put, put + claim)
      /\ hw' = hw /\ put' = put + claim /\ need' = need - claim
      /\ UNCHANGED <<proto, sent, timed, err>>
  BY DEF PutFinish, Accepted, AfterPut, uart
<1>2. /\ hw \in Seq(Nat) /\ tx \in Seq(Nat) /\ put \in Nat /\ need \in Nat
      /\ claim \in Nat /\ claim <= need
  BY DEF IInv, TypeOK
<1>3. Bytes(put, put + claim) \in Seq(Nat)
  BY <1>2, BytesType
<1>4. hw \o (tx \o Bytes(put, put + claim)) = (hw \o tx) \o Bytes(put, put + claim)
  <2> DEFINE new == Bytes(put, put + claim)
  <2>1. new \in Seq(Nat)
    BY <1>3
  <2> HIDE DEF new
  <2>2. Regroups(hw, tx, new)
    BY <1>2, <2>1, Regroup
  <2> QED
    BY <2>2 DEF Regroups, new
<1>5. CASE claim = 0
  <2>1. Bytes(put, put + 0) = <<>>
    <3>1. 0 \in Nat
      OBVIOUS
    <3>2. Bytes(put, put + 0) \in Seq(Nat) /\ Len(Bytes(put, put + 0)) = 0
      BY <1>2, <3>1, BytesType
    <3> QED
      BY <3>2, EmptySeq
  <2>2. put + claim = put + 0
    BY <1>5
  <2>3. tx' = tx
    BY <1>1, <1>2, <2>1, <2>2, ConcatEmptySeq
  <2>4. put' = put /\ need' = need
    BY <1>1, <1>2, <1>5
  <2> QED
    BY <1>1, <2>3, <2>4 DEF Unseen
<1>6. CASE claim # 0
  <2>1. claim \in 1..need
    BY <1>2, <1>6
  <2> QED
    BY <1>1, <1>2, <1>4, <2>1, AcceptsBytes
<1> QED
  BY <1>5, <1>6

(* The interrupt only moves a byte from one place where it waits to the    *)
(* next, and the UART sends the one that waited longest.                   *)
LEMMA LineSendSends == IInv /\ LineSend => Port!Send
<1> SUFFICES ASSUME IInv, LineSend PROVE Port!Send
  OBVIOUS
<1>1. hw # <<>> /\ hw \in Seq(Nat) /\ tx \in Seq(Nat)
  BY DEF IInv, TypeOK, LineSend
<1>2. /\ sent' = Append(sent, Head(hw)) /\ hw' = Tail(hw) /\ tx' = tx
      /\ UNCHANGED <<proto, put, pc, need, timed, err>>
  BY DEF LineSend
<1>3. /\ hw \o tx # <<>> /\ Head(hw \o tx) = Head(hw)
      /\ Tail(hw \o tx) = Tail(hw) \o tx
  BY <1>1, HeadOfConcat
<1> QED
  BY <1>2, <1>3 DEF Port!Send

LEMMA TxIsrUnseen == IInv /\ TxIsrSend => Unseen
<1> SUFFICES ASSUME IInv, TxIsrSend PROVE Unseen
  OBVIOUS
<1>1. tx # <<>> /\ hw \in Seq(Nat) /\ tx \in Seq(Nat)
  BY DEF IInv, TypeOK, TxIsrSend
<1>2. /\ hw' = Append(hw, Head(tx)) /\ tx' = Tail(tx)
      /\ UNCHANGED <<proto, put, sent, need, timed, err>>
      /\ (pc = "pend" /\ pc' = "put") \/ pc' = pc
  BY DEF TxIsrSend, GiveSem
<1>3. Append(hw, Head(tx)) \o Tail(tx) = hw \o tx
  BY <1>1, MoveHead
<1> QED
  BY <1>2, <1>3 DEF Unseen

(* The thread's own steps: each is unseen or ends the call.                *)
LEMMA ThreadSteps ==
  ASSUME IInv,
         \/ WriteLoop \/ TakeToken \/ TakeNone \/ TimeoutExpires \/ PutClaim
         \/ PutClaimAgain \/ EnableIrq \/ PollDone \/ ForceWriteTimeout \/ TxIsrStop
  PROVE  Unseen \/ Ends
<1> USE DEF IInv, TypeOK, Flow, MayWait, OwnCode, uart
<1>1. CASE WriteLoop
  BY <1>1 DEF WriteLoop, Unseen, Ends
<1>2. CASE TakeToken \/ TakeNone \/ PutClaim \/ PutClaimAgain \/ TxIsrStop
  BY <1>2 DEF TakeToken, TakeNone, PutClaim, PutClaimAgain, TxIsrStop, Unseen
<1>3. CASE TimeoutExpires
  BY <1>3 DEF TimeoutExpires, TimeoutErr, Ends
<1>4. CASE EnableIrq
  BY <1>4 DEF EnableIrq, Unseen, Ends
<1>5. CASE PollDone
  BY <1>5 DEF PollDone, Ends
<1>6. CASE ForceWriteTimeout
  BY <1>6 DEF ForceWriteTimeout, TimeoutErr, Unseen, Ends
<1> QED
  BY <1>1, <1>2, <1>3, <1>4, <1>5, <1>6

LEMMA StepPort == IInv /\ [Next]_vars => [Port!Next]_(Port!port)
<1> SUFFICES ASSUME IInv, [Next]_vars PROVE Port!Next \/ UNCHANGED Port!port
  OBVIOUS
<1>1. CASE WriteCall
  <2>1. need' \in Nat /\ timed' \in BOOLEAN /\ err' \in ErrCodes
        /\ pc = "idle" /\ proto # "none" /\ UNCHANGED <<proto, put, sent, hw, tx>>
    BY <1>1, TxAssumption DEF WriteCall, uart
  <2>2. pc' # "idle"
    BY <1>1 DEF WriteCall
  <2>3. Port!StartWrite
    BY <2>1, <2>2 DEF Port!StartWrite, Port!Errors, ErrCodes
  <2> QED
    BY <2>3 DEF Port!Next
<1>2. CASE WriteRefused
  <2>1. Port!Refuse
    BY <1>2 DEF WriteRefused, Port!Refuse, uart
  <2> QED
    BY <2>1 DEF Port!Next
<1>3. CASE PollOut
  BY <1>3, PollOutAccepts DEF Port!Next
<1>4. CASE PutFinish
  BY <1>4, PutFinishAccepts, UnseenStutters DEF Port!Next
<1>5. CASE LineSend
  BY <1>5, LineSendSends DEF Port!Next
<1>6. CASE TxIsrSend
  BY <1>6, TxIsrUnseen, UnseenStutters
<1>7. CASE \/ WriteLoop \/ TakeToken \/ TakeNone \/ TimeoutExpires \/ PutClaim
           \/ PutClaimAgain \/ EnableIrq \/ PollDone \/ ForceWriteTimeout \/ TxIsrStop
  BY <1>7, ThreadSteps, UnseenStutters, EndsReturns DEF Port!Next
<1>8. CASE UNCHANGED vars
  BY <1>8 DEF vars, Port!port
<1> QED
  BY <1>1, <1>2, <1>3, <1>4, <1>5, <1>6, <1>7, <1>8 DEF Next, WriterStep

(* Whatever the technique and the interleaving with the interrupt and with *)
(* a forced time-out, zuart_write keeps the contract of zuart.h: what it   *)
(* accepted is sent in order, and what it did not accept it has told.      *)
THEOREM ImplementsPort == Spec => PortKept
<1>1. Init => Port!Init
  <2> SUFFICES ASSUME Init PROVE Port!Init
    OBVIOUS
  <2>1. proto \in {"irq", "poll", "none"}
    BY DEF Init, WriteProto, Protos
  <2>2. <<>> \o <<>> = <<>>
    BY ConcatEmptySeq, <<>> \in Seq(Nat)
  <2> QED
    BY <2>1, <2>2 DEF Init, Port!Init
<1> QED
  BY <1>1, StepPort, TxInvariant, PTL DEF Spec, PortKept, Port!Spec
=============================================================================
