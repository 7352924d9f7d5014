------------------------- MODULE IsbdServiceProofs -------------------------
(***************************************************************************)
(* Theorems about IsbdService for any number of application threads, heap  *)
(* blocks and queue lengths.                                               *)
(***************************************************************************)
EXTENDS IsbdService, SequenceTheorems, TLAPS

(***************************************************************************)
(* Lemmas about the operators of the model.                                *)
(***************************************************************************)
(* The owners that actions hand blocks to are owners.                      *)
LEMMA OwnersType ==
  /\ Free \in Owners /\ InMoq \in Owners /\ InEvtq \in Owners
  /\ SvcMo \in Owners /\ SvcMt \in Owners /\ Leaked \in Owners
  /\ \A t \in Apps : ByMsg(t) \in Owners /\ ByPeek(t) \in Owners /\ ByEvt(t) \in Owners
BY DEF Owners, Free, InMoq, InEvtq, SvcMo, SvcMt, Leaked, ByMsg, ByPeek, ByEvt

(* The constant messages and events have their types.                      *)
LEMMA DataType ==
  /\ NoMsg \in MoMsg
  /\ \A alert \in BOOLEAN : RequestMsg(alert) \in MoMsg
  /\ NoEvt \in Evt /\ RingEvt \in Evt
  /\ NoSession \in Session
BY DEF NoMsg, MoMsg, RequestMsg, NoEvt, RingEvt, Evt, EvtIds, NoSession, Session

(* k_msgq_put keeps a queue within its capacity.                           *)
LEMMA PutType ==
  ASSUME NEW S, NEW q \in Seq(S), NEW e \in S, NEW n \in Nat, Len(q) < n
  PROVE  Append(q, e) \in Seq(S) /\ Len(Append(q, e)) <= n
BY AppendProperties

(* k_msgq_get keeps a queue within its capacity.                           *)
LEMMA GetType ==
  ASSUME NEW S, NEW q \in Seq(S), NEW n \in Nat, Len(q) <= n, q # <<>>
  PROVE  Head(q) \in S /\ Tail(q) \in Seq(S) /\ Len(Tail(q)) <= n
BY HeadTailProperties

(* A session, and a retry used up, leave a message well typed.             *)
LEMMA MsgType ==
  ASSUME NEW m \in MoMsg
  PROVE  /\ m.data \in Blocks \cup {NULL}
         /\ [m EXCEPT !.tried = @ + 1] \in MoMsg
         /\ m.retries > 0 => OneRetryLess(m) \in MoMsg
BY DEF MoMsg, OneRetryLess

(* What EnqueueMoMsg does to the types.                                    *)
LEMMA EnqueueType ==
  ASSUME TypeOK, NEW m \in MoMsg, EnqueueMoMsg(m)
  PROVE  /\ moq' \in Seq(MoMsg) /\ Len(moq') <= MoQueueLen
         /\ owner' \in [Blocks -> Owners]
<1>1. m.data \in Blocks \cup {NULL}
  BY MsgType
<1>2. /\ owner \in [Blocks -> Owners] /\ MoQueueLen \in Nat
      /\ moq \in Seq(MoMsg) /\ Len(moq) <= MoQueueLen
  BY QueueAssumption DEF TypeOK
<1>3. moq' \in Seq(MoMsg) /\ Len(moq') <= MoQueueLen
  <2>1. CASE Len(moq) < MoQueueLen
    BY <1>2, <2>1, PutType DEF EnqueueMoMsg
  <2>2. CASE ~(Len(moq) < MoQueueLen)
    BY <1>2, <2>2 DEF EnqueueMoMsg
  <2>3. QED
    BY <2>1, <2>2
<1>4. owner' = Move(owner, m.data, InMoq) \/ owner' = Move(owner, m.data, Leaked)
  BY DEF EnqueueMoMsg
<1>5. owner' \in [Blocks -> Owners]
  BY <1>1, <1>2, <1>4, OwnersType DEF Move
<1>6. QED
  BY <1>3, <1>5

(* What PutEvt does to the types.                                          *)
LEMMA PutEvtType ==
  ASSUME TypeOK, NEW e \in Evt, PutEvt(e)
  PROVE  evtq' \in Seq(Evt) /\ Len(evtq') <= EvtQueueLen
BY PutType, QueueAssumption DEF PutEvt, EvtqHasRoom, TypeOK

(* What NotifyMsg and NotifyErr do to the types.                           *)
LEMMA NotifyType ==
  ASSUME TypeOK, NEW id \in EvtIds, NEW b \in Blocks \cup {NULL},
         NotifyMsg(id, b) \/ NotifyErr(b)
  PROVE  /\ evtq' \in Seq(Evt) /\ Len(evtq') <= EvtQueueLen
         /\ owner' \in [Blocks -> Owners]
<1>1. [id |-> id, data |-> b] \in Evt
  BY DEF Evt
<1>2. evtq' \in Seq(Evt) /\ Len(evtq') <= EvtQueueLen
  BY <1>1, PutEvtType, DataType DEF NotifyMsg, NotifyErr
<1>3. owner \in [Blocks -> Owners]
  BY DEF TypeOK
<1>4. owner' \in [Blocks -> Owners]
  BY <1>3, OwnersType DEF NotifyMsg, NotifyErr, Move
<1>5. QED
  BY <1>2, <1>4

(***************************************************************************)
(* Type correctness.                                                       *)
(***************************************************************************)
LEMMA InitType == Init => TypeOK
<1> SUFFICES ASSUME Init PROVE TypeOK
  OBVIOUS
<1>1. <<>> \in Seq(MoMsg) /\ <<>> \in Seq(Evt) /\ Len(<<>>) = 0
  OBVIOUS
<1>2. NoMsg \in MoMsg /\ NoEvt \in Evt /\ NoSession \in Session /\ Free \in Owners
  BY DataType, OwnersType
<1>3. MoQueueLen \in Nat /\ EvtQueueLen \in Nat /\ 0 \in SigLevels
  BY QueueAssumption, InputAssumption
<1>4. /\ appPc \in [Apps -> AppPcs] /\ appMsg \in [Apps -> MoMsg]
      /\ appPeek \in [Apps -> MoMsg] /\ appEvt \in [Apps -> Evt]
      /\ owner \in [Blocks -> Owners]
  BY <1>2 DEF Init, AppPcs
<1>5. /\ moq \in Seq(MoMsg) /\ Len(moq) <= MoQueueLen
      /\ evtq \in Seq(Evt) /\ Len(evtq) <= EvtQueueLen
  BY <1>1, <1>3 DEF Init
<1>6. /\ svca \in BOOLEAN /\ sigq \in SigLevels /\ svcPc \in SvcPcs
      /\ cur \in MoMsg /\ session \in Session /\ mt \in Blocks \cup {NULL}
      /\ want \in BOOLEAN
  BY <1>2, <1>3 DEF Init, SvcPcs
<1>7. QED
  BY <1>4, <1>5, <1>6 DEF TypeOK

LEMMA SvcType == ASSUME TypeOK, SvcStep \/ SvcUrc PROVE TypeOK'
<1>0. /\ cur.data \in Blocks \cup {NULL} /\ cur \in MoMsg
      /\ owner \in [Blocks -> Owners]
  BY MsgType DEF TypeOK
<1> USE DEF TypeOK, SvcPcs
<1>1. CASE SvcBoot \/ SvcIdle \/ SvcSetOk \/ SvcQuiet \/ SvcSettled
  BY <1>1 DEF SvcBoot, SvcIdle, SvcSetOk, SvcQuiet, SvcSettled, appVars
<1>2. CASE SvcTake
  <2>1. Head(moq) \in MoMsg /\ Tail(moq) \in Seq(MoMsg) /\ Len(Tail(moq)) <= MoQueueLen
    BY <1>2, GetType, QueueAssumption DEF SvcTake
  <2>2. Head(moq).data \in Blocks \cup {NULL}
    BY <2>1 DEF MoMsg
  <2>3. owner' \in [Blocks -> Owners]
    BY <1>2, <2>2, OwnersType DEF Move, SvcTake
  <2>4. QED
    BY <1>2, <2>1, <2>3 DEF SvcTake, appVars
<1>3. CASE SvcSetFail \/ SvcSessionFailed
  <2>1. owner' \in [Blocks -> Owners]
    BY <1>0, <1>3, OwnersType DEF Move, SvcSetFail, SvcSessionFailed
  <2>2. QED
    BY <1>3, <2>1, DataType DEF SvcSetFail, SvcSessionFailed, appVars
<1>4. CASE SvcSbdix
  <2>1. session' \in Session
    BY <1>4, DataType DEF SvcSbdix
  <2>2. cur' \in MoMsg
    BY <1>0, <1>4, MsgType DEF SvcSbdix
  <2>3. QED
    BY <1>4, <2>1, <2>2 DEF SvcSbdix, appVars
<1>5. CASE SvcUrc
  <2>1. svca' \in BOOLEAN /\ sigq' \in SigLevels
    BY <1>5 DEF SvcUrc
  <2>2. evtq' \in Seq(Evt) /\ Len(evtq') <= EvtQueueLen
    BY <1>5, PutEvtType, DataType DEF SvcUrc
  <2>3. QED
    BY <1>5, <2>1, <2>2 DEF SvcUrc, appVars
<1>6. CASE SvcNoPayload \/ SvcMoSent \/ SvcMoRetry \/ SvcMoGiveUp
  <2>1. svcPc' = "mt" /\ cur' \in MoMsg /\ session' \in Session
    BY <1>6, DataType
       DEF SvcNoPayload, SvcMoSent, SvcMoRetry, SvcMoGiveUp, AfterMo, Session
  <2>2. UNCHANGED <<svca, sigq, mt, appVars, want>>
    BY <1>6 DEF SvcNoPayload, SvcMoSent, SvcMoRetry, SvcMoGiveUp, AfterMo
  <2>3. CASE SvcNoPayload
    BY <1>0, <2>1, <2>2, <2>3, OwnersType DEF Move, SvcNoPayload, appVars
  <2>4. CASE SvcMoSent \/ SvcMoGiveUp
    BY <1>0, <2>1, <2>2, <2>4, NotifyType DEF SvcMoSent, SvcMoGiveUp, appVars, EvtIds
  <2>5. CASE SvcMoRetry
    <3>1. OneRetryLess(cur) \in MoMsg
      BY <1>0, <2>5, MsgType DEF SvcMoRetry
    <3>2. QED
      BY <2>1, <2>2, <2>5, <3>1, EnqueueType DEF SvcMoRetry, appVars
  <2>6. QED
    BY <1>6, <2>3, <2>4, <2>5
<1>7. CASE SvcMtSkip \/ SvcMtAlloc
  <2>1. owner' \in [Blocks -> Owners]
    BY <1>7, OwnersType DEF Move, SvcMtSkip, SvcMtAlloc, FreeBlocks
  <2>2. QED
    BY <1>7, <2>1, DataType DEF SvcMtSkip, SvcMtAlloc, FreeBlocks, AfterMt, appVars
<1>8. CASE SvcMtRead \/ SvcMtReadFail
  <2>1. /\ evtq' \in Seq(Evt) /\ Len(evtq') <= EvtQueueLen
        /\ owner' \in [Blocks -> Owners]
    BY <1>8, NotifyType DEF SvcMtRead, SvcMtReadFail, EvtIds
  <2>2. QED
    BY <1>8, <2>1, DataType DEF SvcMtRead, SvcMtReadFail, AfterMt, appVars
<1>9. CASE SvcRequestCheck
  BY <1>9 DEF SvcRequestCheck, appVars
<1>10. CASE SvcRequestPut
  BY <1>10, EnqueueType, DataType DEF SvcRequestPut, PutRequest, appVars
<1>11. QED
  BY <1>1, <1>2, <1>3, <1>4, <1>5, <1>6, <1>7, <1>8, <1>9, <1>10 DEF SvcStep

LEMMA AppType == ASSUME TypeOK, NEW t \in Apps, AppStep(t) \/ AppCall(t) PROVE TypeOK'
<1>0. /\ owner \in [Blocks -> Owners]
      /\ appPc \in [Apps -> AppPcs]
      /\ appMsg \in [Apps -> MoMsg] /\ appPeek \in [Apps -> MoMsg]
      /\ appEvt \in [Apps -> Evt] /\ appEvt[t].data \in Blocks \cup {NULL}
      /\ NoMsg \in MoMsg /\ NoEvt \in Evt
  BY DataType DEF TypeOK, Evt
<1> USE DEF TypeOK, svcVars, AtApp
<1>1. CASE SendAlloc(t)
  <2>1. PICK b \in FreeBlocks, n \in MsgLens, r \in RetryBudgets :
          /\ appMsg' = [appMsg EXCEPT ![t] =
               [data |-> b, len |-> n, alert |-> FALSE,
                retries |-> r, tried |-> 0, asked |-> r]]
          /\ owner' = Move(owner, b, ByMsg(t))
    BY <1>1 DEF SendAlloc
  <2>2. b \in Blocks /\ n \in Nat /\ r \in Nat
    BY InputAssumption DEF FreeBlocks
  <2>3. [data |-> b, len |-> n, alert |-> FALSE,
         retries |-> r, tried |-> 0, asked |-> r] \in MoMsg
    BY <2>2 DEF MoMsg
  <2>4. appMsg' \in [Apps -> MoMsg]
    BY <1>0, <2>1, <2>3
  <2>5. owner' \in [Blocks -> Owners]
    BY <1>0, <2>1, <2>2, OwnersType DEF Move
  <2>6. appPc' \in [Apps -> AppPcs]
    BY <1>0, <1>1 DEF SendAlloc, AppPcs
  <2>7. QED
    BY <1>1, <2>4, <2>5, <2>6 DEF SendAlloc
<1>2. CASE SendUsed(t) \/ SendPeekNone(t) \/ RequestCheckEmpty(t)
  <2>1. appPc' \in [Apps -> AppPcs]
    BY <1>0, <1>2 DEF SendUsed, SendPeekNone, RequestCheckEmpty, AppPcs
  <2>2. QED
    BY <1>2, <2>1 DEF SendUsed, SendPeekNone, RequestCheckEmpty
<1>3. CASE SendMerge(t) \/ SendPeek(t)
  <2>1. Head(moq) \in MoMsg /\ Tail(moq) \in Seq(MoMsg) /\ Len(Tail(moq)) <= MoQueueLen
    BY <1>3, GetType, QueueAssumption DEF SendMerge, SendPeek
  <2>2. Head(moq).data \in Blocks \cup {NULL}
    BY <2>1, MsgType
  <2>3. appPc' \in [Apps -> AppPcs]
    BY <1>0, <1>3 DEF SendMerge, SendPeek, AppPcs
  <2>4. CASE SendMerge(t)
    <3>1. MergeRequest(appMsg[t], Head(moq)) \in MoMsg
      BY <1>0, <2>1 DEF MergeRequest, MoMsg
    <3>2. appMsg' \in [Apps -> MoMsg]
      BY <1>0, <2>4, <3>1 DEF SendMerge
    <3>3. QED
      BY <2>1, <2>3, <2>4, <3>2 DEF SendMerge
  <2>5. CASE SendPeek(t)
    <3>1. appPeek' \in [Apps -> MoMsg]
      BY <1>0, <2>1, <2>5 DEF SendPeek
    <3>2. owner' \in [Blocks -> Owners]
      BY <1>0, <2>2, <2>5, OwnersType DEF Move, SendPeek
    <3>3. QED
      BY <2>1, <2>3, <2>5, <3>1, <3>2 DEF SendPeek
  <2>6. QED
    BY <1>3, <2>4, <2>5
<1>4. CASE SendPutback(t)
  <2>1. appPc' \in [Apps -> AppPcs] /\ appPeek' \in [Apps -> MoMsg]
    BY <1>0, <1>4 DEF SendPutback, AppPcs
  <2>2. appPeek[t] \in MoMsg /\ EnqueueMoMsg(appPeek[t])
    BY <1>0, <1>4 DEF SendPutback
  <2>3. QED
    BY <1>4, <2>1, <2>2, EnqueueType DEF SendPutback
<1>5. CASE SendEnqueue(t) \/ RequestPut(t)
  <2>1. appPc' \in [Apps -> AppPcs] /\ appMsg' \in [Apps -> MoMsg]
    BY <1>0, <1>5 DEF SendEnqueue, RequestPut, AppPcs
  <2>2. appMsg[t] \in MoMsg /\ EnqueueMoMsg(appMsg[t])
    BY <1>0, <1>5 DEF SendEnqueue, RequestPut, PutRequest
  <2>3. QED
    BY <1>5, <2>1, <2>2, EnqueueType DEF SendEnqueue, RequestPut, PutRequest
<1>6. CASE RequestCheckBusy(t) \/ \E alert \in BOOLEAN : RequestCall(t, alert)
  <2>1. appPc' \in [Apps -> AppPcs]
    BY <1>0, <1>6 DEF RequestCheckBusy, RequestCall, AppPcs
  <2>2. \E m \in MoMsg : appMsg' = [appMsg EXCEPT ![t] = m]
    BY <1>0, <1>6, DataType DEF RequestCheckBusy, RequestCall
  <2>3. appMsg' \in [Apps -> MoMsg]
    BY <1>0, <2>2
  <2>4. QED
    BY <1>6, <2>1, <2>3 DEF RequestCheckBusy, RequestCall
<1>7. CASE WaitEvt(t) \/ WaitRing(t)
  <2>1. Head(evtq) \in Evt /\ Tail(evtq) \in Seq(Evt) /\ Len(Tail(evtq)) <= EvtQueueLen
    BY <1>7, GetType, QueueAssumption DEF WaitEvt, WaitRing
  <2>2. Head(evtq).data \in Blocks \cup {NULL}
    BY <2>1 DEF Evt
  <2>3. /\ appPc' \in [Apps -> AppPcs] /\ appMsg' \in [Apps -> MoMsg]
        /\ appEvt' \in [Apps -> Evt]
    BY <1>0, <1>7, <2>1, DataType DEF WaitEvt, WaitRing, AppPcs
  <2>4. owner' \in [Blocks -> Owners]
    BY <1>0, <1>7, <2>2, OwnersType DEF Move, WaitEvt, WaitRing
  <2>5. QED
    BY <1>7, <2>1, <2>3, <2>4 DEF WaitEvt, WaitRing
<1>8. CASE DestroyEvt(t)
  <2>1. appPc' \in [Apps -> AppPcs] /\ appEvt' \in [Apps -> Evt]
    BY <1>0, <1>8 DEF DestroyEvt, AppPcs
  <2>2. owner' \in [Blocks -> Owners]
    BY <1>0, <1>8, OwnersType DEF Move, DestroyEvt
  <2>3. QED
    BY <1>8, <2>1, <2>2 DEF DestroyEvt
<1>9. QED
  BY <1>1, <1>2, <1>3, <1>4, <1>5, <1>6, <1>7, <1>8 DEF AppStep, AppCall

(* The variables of isbd.c keep their types, and its two queues never hold *)
(* more elements than isbd_setup made room for.                            *)
THEOREM TypeCorrect == Spec => []TypeOK
<1>1. TypeOK /\ [Next]_vars => TypeOK'
  <2> SUFFICES ASSUME TypeOK, [Next]_vars PROVE TypeOK'
    OBVIOUS
  <2>1. CASE Next
    BY <2>1, SvcType, AppType DEF Next
  <2>2. CASE UNCHANGED vars
    BY <2>2 DEF vars, TypeOK
  <2>3. QED
    BY <2>1, <2>2
<1>2. QED
  BY InitType, <1>1, PTL DEF Spec

(***************************************************************************)
(* Ownership of the heap blocks.                                           *)
(***************************************************************************)
(* No two holders are the same owner.                                      *)
LEMMA OwnersDistinct ==
  /\ Free # InMoq /\ Free # InEvtq /\ Free # SvcMo /\ Free # SvcMt
  /\ Leaked # InMoq /\ Leaked # InEvtq /\ Leaked # SvcMo /\ Leaked # SvcMt
  /\ InMoq # InEvtq /\ InMoq # SvcMo /\ InMoq # SvcMt
  /\ InEvtq # SvcMo /\ InEvtq # SvcMt /\ SvcMo # SvcMt
  /\ \A t \in Apps :
       /\ ByMsg(t) \notin {Free, Leaked, InMoq, InEvtq, SvcMo, SvcMt}
       /\ ByPeek(t) \notin {Free, Leaked, InMoq, InEvtq, SvcMo, SvcMt}
       /\ ByEvt(t) \notin {Free, Leaked, InMoq, InEvtq, SvcMo, SvcMt}
  /\ \A t, u \in Apps :
       /\ ByMsg(t) # ByPeek(u) /\ ByMsg(t) # ByEvt(u) /\ ByPeek(t) # ByEvt(u)
       /\ t # u => /\ ByMsg(t) # ByMsg(u) /\ ByPeek(t) # ByPeek(u)
                   /\ ByEvt(t) # ByEvt(u)
BY DEF Free, InMoq, InEvtq, SvcMo, SvcMt, Leaked, ByMsg, ByPeek, ByEvt

(* Moving a block that the queue does not own leaves the queue alone.      *)
LEMMA KeepQueue ==
  ASSUME NEW S, NEW q \in Seq(S), \A e \in S : e.data \in Blocks \cup {NULL},
         NEW own \in [Blocks -> Owners], NEW b \in Blocks \cup {NULL},
         NEW o, NEW p, OwnsQueue(own, q, o), b # NULL => own[b] # o
  PROVE  OwnsQueue(Move(own, b, p), q, o)
<1>1. \A i \in 1..Len(q) : q[i].data \in Blocks \cup {NULL}
  BY ElementOfSeq
<1>2. QED
  BY <1>1 DEF OwnsQueue, Move

(* The same for one pointer.                                               *)
LEMMA KeepLocal ==
  ASSUME NEW own \in [Blocks -> Owners], NEW c \in Blocks \cup {NULL},
         NEW b \in Blocks \cup {NULL},
         NEW o, NEW p, OwnsLocal(own, c, o), b # NULL => own[b] # o
  PROVE  OwnsLocal(Move(own, b, p), c, o)
BY DEF OwnsLocal, Move

(* The one who gets a block owns it.                                       *)
LEMMA MovedLocal ==
  ASSUME NEW own \in [Blocks -> Owners], NEW b \in Blocks \cup {NULL}, NEW o
  PROVE  OwnsLocal(Move(own, b, o), b, o)
BY DEF OwnsLocal, Move

(* k_msgq_put of an element whose block the queue does not own yet.        *)
LEMMA PutQueue ==
  ASSUME NEW S, NEW q \in Seq(S), NEW m \in S,
         \A e \in S : e.data \in Blocks \cup {NULL},
         NEW own \in [Blocks -> Owners], NEW o, OwnsQueue(own, q, o),
         m.data # NULL => own[m.data] # o
  PROVE  OwnsQueue(Move(own, m.data, o), Append(q, m), o)
<1> DEFINE r == Append(q, m)
<1>1. /\ Len(r) = Len(q) + 1 /\ Len(q) \in Nat
      /\ \A i \in 1..Len(q) : r[i] = q[i]
      /\ r[Len(q) + 1] = m
  BY AppendProperties
<1>2. \A i \in 1..Len(q) : q[i].data \in Blocks \cup {NULL}
  BY ElementOfSeq
<1>3. m.data \in Blocks \cup {NULL}
  OBVIOUS
<1>4. \A i \in 1..Len(q) : r[i].data # NULL => own[r[i].data] = o /\ r[i].data # m.data
  BY <1>1 DEF OwnsQueue
<1>5. \A i \in 1..Len(r) : r[i].data # NULL => Move(own, m.data, o)[r[i].data] = o
  <2> SUFFICES ASSUME NEW i \in 1..Len(r), r[i].data # NULL
               PROVE  Move(own, m.data, o)[r[i].data] = o
    OBVIOUS
  <2>1. CASE i = Len(q) + 1
    BY <1>1, <1>3, <2>1 DEF Move
  <2>2. CASE i \in 1..Len(q)
    BY <1>1, <1>2, <1>3, <1>4, <2>2 DEF Move
  <2>3. QED
    BY <1>1, <2>1, <2>2
<1>6. \A i, j \in 1..Len(r) : r[i].data = r[j].data /\ i # j => r[i].data = NULL
  <2> SUFFICES ASSUME NEW i \in 1..Len(r), NEW j \in 1..Len(r),
                      r[i].data = r[j].data, i # j
               PROVE  r[i].data = NULL
    OBVIOUS
  <2>1. CASE i \in 1..Len(q) /\ j \in 1..Len(q)
    BY <1>1, <2>1 DEF OwnsQueue
  <2>2. CASE i = Len(q) + 1 \/ j = Len(q) + 1
    BY <1>1, <1>4, <2>2
  <2>3. QED
    BY <1>1, <2>1, <2>2
<1>7. QED
  BY <1>5, <1>6 DEF OwnsQueue

(* k_msgq_get: what leaves the queue is owned by whoever it goes to.       *)
LEMMA GetQueue ==
  ASSUME NEW S, NEW q \in Seq(S), q # <<>>,
         \A e \in S : e.data \in Blocks \cup {NULL},
         NEW own \in [Blocks -> Owners], NEW o, NEW p, OwnsQueue(own, q, o)
  PROVE  /\ OwnsLocal(own, Head(q).data, o)
         /\ OwnsQueue(Move(own, Head(q).data, p), Tail(q), o)
<1> DEFINE r == Tail(q)
<1>1. /\ Head(q) = q[1] /\ Len(q) \in Nat /\ Len(q) >= 1
      /\ Len(r) = Len(q) - 1
      /\ \A i \in 1..Len(r) : r[i] = q[i+1]
  BY HeadTailProperties, EmptySeq, LenProperties
<1>2. \A i \in 1..Len(q) : q[i].data \in Blocks \cup {NULL}
  BY ElementOfSeq
<1>3. OwnsLocal(own, Head(q).data, o)
  BY <1>1 DEF OwnsLocal, OwnsQueue
<1>4. \A i \in 1..Len(r) : r[i].data # NULL => own[r[i].data] = o /\ r[i].data # q[1].data
  BY <1>1 DEF OwnsQueue
<1>5. \A i \in 1..Len(r) : r[i].data # NULL => Move(own, q[1].data, p)[r[i].data] = o
  BY <1>1, <1>2, <1>4 DEF Move
<1>6. \A i, j \in 1..Len(r) : r[i].data = r[j].data /\ i # j => r[i].data = NULL
  BY <1>1 DEF OwnsQueue
<1>7. QED
  BY <1>1, <1>3, <1>5, <1>6 DEF OwnsQueue

(* The pointers of the state are blocks or NULL.                           *)
LEMMA PointerType ==
  ASSUME TypeOK
  PROVE  /\ owner \in [Blocks -> Owners]
         /\ moq \in Seq(MoMsg) /\ evtq \in Seq(Evt)
         /\ \A e \in MoMsg : e.data \in Blocks \cup {NULL}
         /\ \A e \in Evt : e.data \in Blocks \cup {NULL}
         /\ cur.data \in Blocks \cup {NULL} /\ mt \in Blocks \cup {NULL}
         /\ \A t \in Apps : /\ appMsg[t].data \in Blocks \cup {NULL}
                            /\ appPeek[t].data \in Blocks \cup {NULL}
                            /\ appEvt[t].data \in Blocks \cup {NULL}
                            /\ appMsg[t] \in MoMsg /\ appPeek[t] \in MoMsg
BY DEF TypeOK, MoMsg, Evt

(* A block b of the holder src changes hands: whatever other holders hold  *)
(* is still theirs.                                                        *)
OthersKeep(own, src) ==
  /\ src # InMoq => OwnsQueue(own, moq, InMoq)
  /\ src # InEvtq => OwnsQueue(own, evtq, InEvtq)
  /\ src # SvcMo => OwnsLocal(own, cur.data, SvcMo)
  /\ src # SvcMt => OwnsLocal(own, mt, SvcMt)
  /\ \A t \in Apps :
       /\ src # ByMsg(t) => OwnsLocal(own, appMsg[t].data, ByMsg(t))
       /\ src # ByPeek(t) => OwnsLocal(own, appPeek[t].data, ByPeek(t))
       /\ src # ByEvt(t) => OwnsLocal(own, appEvt[t].data, ByEvt(t))

LEMMA Transfer ==
  ASSUME TypeOK, Ownership, NEW b \in Blocks \cup {NULL}, NEW src, NEW p,
         OwnsLocal(owner, b, src)
  PROVE  OthersKeep(Move(owner, b, p), src)
<1>1. \A o : src # o => (b # NULL => owner[b] # o)
  BY DEF OwnsLocal
<1>2. src # InMoq => OwnsQueue(Move(owner, b, p), moq, InMoq)
  BY <1>1, KeepQueue, PointerType DEF Ownership
<1>3. src # InEvtq => OwnsQueue(Move(owner, b, p), evtq, InEvtq)
  BY <1>1, KeepQueue, PointerType DEF Ownership
<1>4. /\ src # SvcMo => OwnsLocal(Move(owner, b, p), cur.data, SvcMo)
      /\ src # SvcMt => OwnsLocal(Move(owner, b, p), mt, SvcMt)
  BY <1>1, KeepLocal, PointerType DEF Ownership
<1>5. ASSUME NEW t \in Apps
      PROVE  /\ src # ByMsg(t) => OwnsLocal(Move(owner, b, p), appMsg[t].data, ByMsg(t))
             /\ src # ByPeek(t) => OwnsLocal(Move(owner, b, p), appPeek[t].data, ByPeek(t))
             /\ src # ByEvt(t) => OwnsLocal(Move(owner, b, p), appEvt[t].data, ByEvt(t))
  <2>1. /\ OwnsLocal(owner, appMsg[t].data, ByMsg(t))
        /\ OwnsLocal(owner, appPeek[t].data, ByPeek(t))
        /\ OwnsLocal(owner, appEvt[t].data, ByEvt(t))
    BY DEF Ownership
  <2>2. QED
    BY <1>1, <2>1, KeepLocal, PointerType
<1>6. QED
  BY <1>2, <1>3, <1>4, <1>5 DEF OthersKeep

(* What _enqueue_mo_msg does to the ownership.                             *)
LEMMA EnqueueOwned ==
  ASSUME TypeOK, Ownership, NEW m \in MoMsg, NEW src, src # InMoq,
         OwnsLocal(owner, m.data, src), EnqueueMoMsg(m)
  PROVE  OwnsQueue(owner', moq', InMoq) /\ OthersKeep(owner', src)
<1>1. m.data \in Blocks \cup {NULL}
  BY MsgType
<1>2. OwnsQueue(owner, moq, InMoq)
  BY DEF Ownership
<1>3. m.data # NULL => owner[m.data] # InMoq
  BY DEF OwnsLocal
<1>4. CASE Len(moq) < MoQueueLen
  <2>1. moq' = Append(moq, m) /\ owner' = Move(owner, m.data, InMoq)
    BY <1>4 DEF EnqueueMoMsg
  <2>2. OwnsQueue(owner', moq', InMoq)
    BY <1>2, <1>3, <2>1, PutQueue, PointerType
  <2>3. QED
    BY <1>1, <2>1, <2>2, Transfer
<1>5. CASE ~(Len(moq) < MoQueueLen)
  <2>1. moq' = moq /\ owner' = Move(owner, m.data, Leaked)
    BY <1>5 DEF EnqueueMoMsg
  <2>2. OthersKeep(owner', src)
    BY <1>1, <2>1, Transfer
  <2>3. QED
    BY <2>1, <2>2 DEF OthersKeep
<1>6. QED
  BY <1>4, <1>5

(* What an event put in the queue does to it, if it carries no block.      *)
LEMMA PutEvtOwned ==
  ASSUME TypeOK, NEW own \in [Blocks -> Owners], OwnsQueue(own, evtq, InEvtq),
         NEW e \in Evt, e.data = NULL, PutEvt(e)
  PROVE  OwnsQueue(own, evtq', InEvtq)
<1>1. Move(own, e.data, InEvtq) = own
  BY DEF Move
<1>2. CASE EvtqHasRoom
  <2>1. OwnsQueue(Move(own, e.data, InEvtq), Append(evtq, e), InEvtq)
    BY PutQueue, PointerType
  <2>2. QED
    BY <1>1, <1>2, <2>1 DEF PutEvt
<1>3. CASE ~EvtqHasRoom
  BY <1>3 DEF PutEvt
<1>4. QED
  BY <1>2, <1>3

(* What _notify_m?_msg and _notify_err do to the ownership.                *)
LEMMA NotifyOwned ==
  ASSUME TypeOK, Ownership, NEW b \in Blocks \cup {NULL}, NEW src, src # InEvtq,
         OwnsLocal(owner, b, src), NEW id \in EvtIds,
         NotifyMsg(id, b) \/ NotifyErr(b)
  PROVE  OwnsQueue(owner', evtq', InEvtq) /\ OthersKeep(owner', src)
<1> DEFINE e == [id |-> id, data |-> b]
<1>1. e \in Evt /\ e.data = b
  BY DEF Evt
<1>2. OwnsQueue(owner, evtq, InEvtq) /\ (b # NULL => owner[b] # InEvtq)
  BY DEF Ownership, OwnsLocal
<1>3. CASE NotifyMsg(id, b) /\ EvtqHasRoom
  <2>1. evtq' = Append(evtq, e) /\ owner' = Move(owner, b, InEvtq)
    BY <1>3 DEF NotifyMsg, PutEvt
  <2>2. OwnsQueue(Move(owner, e.data, InEvtq), Append(evtq, e), InEvtq)
    BY <1>1, <1>2, PutQueue, PointerType
  <2>3. QED
    BY <1>1, <2>1, <2>2, Transfer
<1>4. CASE NotifyMsg(id, b) /\ ~EvtqHasRoom
  <2>1. evtq' = evtq /\ owner' = Move(owner, b, Free)
    BY <1>4 DEF NotifyMsg, PutEvt
  <2>2. OthersKeep(owner', src)
    BY <2>1, Transfer
  <2>3. QED
    BY <2>1, <2>2 DEF OthersKeep
<1>5. CASE NotifyErr(b)
  <2>1. owner' = Move(owner, b, Free) /\ PutEvt(NoEvt)
    BY <1>5 DEF NotifyErr
  <2>2. OthersKeep(owner', src) /\ owner' \in [Blocks -> Owners]
    BY <1>5, <2>1, Transfer, NotifyType
  <2>3. NoEvt \in Evt /\ NoEvt.data = NULL
    BY DataType DEF NoEvt
  <2>4. OwnsQueue(owner', evtq, InEvtq)
    BY <2>2 DEF OthersKeep
  <2>5. QED
    BY <2>1, <2>2, <2>3, <2>4, PutEvtOwned
<1>6. QED
  BY <1>3, <1>4, <1>5

LEMMA SvcOwned ==
  ASSUME TypeOK, Ownership, SvcStep \/ SvcUrc
  PROVE  Ownership'
<1>0. \A o : OwnsLocal(owner', NULL, o) /\ OwnsLocal(owner, NULL, o)
  BY DEF OwnsLocal
<1>1. CASE SvcBoot \/ SvcIdle \/ SvcSetOk \/ SvcSbdix \/ SvcQuiet \/ SvcSettled
           \/ SvcMtSkip \/ SvcRequestCheck
  <2>1. UNCHANGED <<moq, evtq, mt, appMsg, appPeek, appEvt, owner>>
    BY <1>1 DEF SvcBoot, SvcIdle, SvcSetOk, SvcSbdix, SvcQuiet, SvcSettled,
                SvcMtSkip, AfterMt, SvcRequestCheck, appVars
  <2>2. cur'.data = cur.data
    BY <1>1 DEF SvcBoot, SvcIdle, SvcSetOk, SvcSbdix, SvcQuiet, SvcSettled,
                SvcMtSkip, AfterMt, SvcRequestCheck, TypeOK, MoMsg
  <2>3. QED
    BY <2>1, <2>2 DEF Ownership
<1>2. CASE SvcTake
  <2> DEFINE b == Head(moq).data
  <2>1. /\ cur' = Head(moq) /\ moq' = Tail(moq) /\ owner' = Move(owner, b, SvcMo)
        /\ moq # <<>> /\ UNCHANGED <<evtq, mt, appMsg, appPeek, appEvt>>
    BY <1>2 DEF SvcTake, appVars
  <2>2. b \in Blocks \cup {NULL}
    BY <2>1, PointerType, HeadTailProperties
  <2>3. OwnsLocal(owner, b, InMoq) /\ OwnsQueue(owner', moq', InMoq)
    BY <2>1, GetQueue, PointerType DEF Ownership
  <2>4. OwnsLocal(owner', cur'.data, SvcMo)
    BY <2>1, <2>2, MovedLocal, PointerType
  <2>5. OthersKeep(owner', InMoq)
    BY <2>1, <2>2, <2>3, Transfer
  <2>6. QED
    BY <2>1, <2>3, <2>4, <2>5, OwnersDistinct DEF OthersKeep, Ownership
<1>3. CASE SvcSetFail \/ SvcSessionFailed \/ SvcNoPayload
  <2>1. /\ cur' = NoMsg /\ UNCHANGED <<moq, evtq, mt, appMsg, appPeek, appEvt>>
        /\ \E p : owner' = Move(owner, cur.data, p)
    BY <1>3 DEF SvcSetFail, SvcSessionFailed, SvcNoPayload, AfterMo, appVars
  <2>2. OthersKeep(owner', SvcMo)
    BY <2>1, Transfer, PointerType DEF Ownership
  <2>3. cur'.data = NULL
    BY <2>1 DEF NoMsg
  <2>4. QED
    BY <1>0, <2>1, <2>2, <2>3, OwnersDistinct DEF OthersKeep, Ownership
<1>4. CASE SvcUrc
  <2>1. UNCHANGED <<moq, cur, mt, appMsg, appPeek, appEvt, owner>>
    BY <1>4 DEF SvcUrc, appVars
  <2>2. PutEvt(NoEvt) \/ PutEvt(RingEvt)
    BY <1>4 DEF SvcUrc
  <2>3. NoEvt \in Evt /\ NoEvt.data = NULL /\ RingEvt \in Evt /\ RingEvt.data = NULL
    BY DataType DEF NoEvt, RingEvt
  <2>4. OwnsQueue(owner, evtq', InEvtq)
    BY <2>2, <2>3, PutEvtOwned, PointerType DEF Ownership
  <2>5. QED
    BY <2>1, <2>4 DEF Ownership
<1>5. CASE SvcMoSent \/ SvcMoGiveUp
  <2>1. /\ cur' = NoMsg /\ UNCHANGED <<moq, mt, appMsg, appPeek, appEvt>>
        /\ NotifyMsg("MO", cur.data) \/ NotifyErr(cur.data)
    BY <1>5 DEF SvcMoSent, SvcMoGiveUp, AfterMo, appVars
  <2>2. "MO" \in EvtIds /\ cur'.data = NULL /\ SvcMo # InEvtq
    BY <2>1, OwnersDistinct DEF EvtIds, NoMsg
  <2>3. OwnsQueue(owner', evtq', InEvtq) /\ OthersKeep(owner', SvcMo)
    BY <2>1, <2>2, NotifyOwned, PointerType DEF Ownership
  <2>4. QED
    BY <1>0, <2>1, <2>2, <2>3, OwnersDistinct DEF OthersKeep, Ownership
<1>6. CASE SvcMoRetry
  <2> DEFINE m == OneRetryLess(cur)
  <2>1. /\ cur' = NoMsg /\ UNCHANGED <<evtq, mt, appMsg, appPeek, appEvt>>
        /\ EnqueueMoMsg(m)
    BY <1>6 DEF SvcMoRetry, AfterMo, appVars
  <2>2. m \in MoMsg /\ m.data = cur.data
    BY <1>6, MsgType DEF SvcMoRetry, OneRetryLess, TypeOK, MoMsg
  <2>3. OwnsLocal(owner, m.data, SvcMo) /\ SvcMo # InMoq
    BY <2>2, OwnersDistinct DEF Ownership
  <2>4. OwnsQueue(owner', moq', InMoq) /\ OthersKeep(owner', SvcMo)
    BY <2>1, <2>2, <2>3, EnqueueOwned
  <2>5. cur'.data = NULL
    BY <2>1 DEF NoMsg
  <2>6. QED
    BY <1>0, <2>1, <2>4, <2>5, OwnersDistinct DEF OthersKeep, Ownership
<1>7. CASE SvcMtAlloc
  <2>1. PICK b \in FreeBlocks : mt' = b /\ owner' = Move(owner, b, SvcMt)
    BY <1>7 DEF SvcMtAlloc
  <2>2. UNCHANGED <<moq, evtq, cur, appMsg, appPeek, appEvt>>
    BY <1>7 DEF SvcMtAlloc, appVars
  <2>3. b \in Blocks \cup {NULL} /\ OwnsLocal(owner, b, Free)
    BY DEF FreeBlocks, OwnsLocal
  <2>4. OthersKeep(owner', Free)
    BY <2>1, <2>3, Transfer
  <2>5. OwnsLocal(owner', mt', SvcMt)
    BY <2>1, <2>3, MovedLocal, PointerType
  <2>6. QED
    BY <2>2, <2>4, <2>5, OwnersDistinct DEF OthersKeep, Ownership
<1>8. CASE SvcMtRead \/ SvcMtReadFail
  <2>1. /\ mt' = NULL /\ UNCHANGED <<moq, cur, appMsg, appPeek, appEvt>>
        /\ NotifyMsg("MT", mt) \/ NotifyErr(mt)
    BY <1>8 DEF SvcMtRead, SvcMtReadFail, AfterMt, appVars
  <2>2. "MT" \in EvtIds /\ SvcMt # InEvtq
    BY OwnersDistinct DEF EvtIds
  <2>3. OwnsQueue(owner', evtq', InEvtq) /\ OthersKeep(owner', SvcMt)
    BY <2>1, <2>2, NotifyOwned, PointerType DEF Ownership
  <2>4. QED
    BY <1>0, <2>1, <2>3, OwnersDistinct DEF OthersKeep, Ownership
<1>9. CASE SvcRequestPut
  <2> DEFINE m == RequestMsg(FALSE)
  <2>1. /\ UNCHANGED <<evtq, cur, mt, appMsg, appPeek, appEvt>>
        /\ EnqueueMoMsg(m)
    BY <1>9 DEF SvcRequestPut, PutRequest, appVars
  <2>2. m \in MoMsg /\ m.data = NULL
    BY DataType DEF RequestMsg, NoMsg
  <2>3. OwnsQueue(owner', moq', InMoq) /\ OthersKeep(owner', Free)
    BY <1>0, <2>1, <2>2, EnqueueOwned, OwnersDistinct
  <2>4. QED
    BY <2>1, <2>3, OwnersDistinct DEF OthersKeep, Ownership
<1>10. QED
  BY <1>1, <1>2, <1>3, <1>4, <1>5, <1>6, <1>7, <1>8, <1>9 DEF SvcStep

(* The part of Ownership about the pointers of one application thread.     *)
AppOwns(u) ==
  /\ OwnsLocal(owner, appMsg[u].data, ByMsg(u))
  /\ OwnsLocal(owner, appPeek[u].data, ByPeek(u))
  /\ OwnsLocal(owner, appEvt[u].data, ByEvt(u))

LEMMA AppOwned ==
  ASSUME TypeOK, Ownership, NEW t \in Apps, AppStep(t) \/ AppCall(t)
  PROVE  Ownership'
<1>0. /\ \A o : OwnsLocal(owner', NULL, o) /\ OwnsLocal(owner, NULL, o)
      /\ appMsg \in [Apps -> MoMsg] /\ appPeek \in [Apps -> MoMsg]
      /\ appEvt \in [Apps -> Evt] /\ NoMsg.data = NULL /\ NoEvt.data = NULL
      /\ \A alert \in BOOLEAN : RequestMsg(alert).data = NULL
      /\ \A u \in Apps : AppOwns(u)
  BY DEF OwnsLocal, TypeOK, NoMsg, NoEvt, RequestMsg, Ownership, AppOwns
<1> USE DEF AtApp, svcVars
<1>1. CASE SendAlloc(t)
  <2>1. PICK b \in FreeBlocks :
          /\ \E n \in MsgLens, r \in RetryBudgets :
               appMsg' = [appMsg EXCEPT ![t] =
                  [data |-> b, len |-> n, alert |-> FALSE,
                   retries |-> r, tried |-> 0, asked |-> r]]
          /\ owner' = Move(owner, b, ByMsg(t))
    BY <1>1 DEF SendAlloc
  <2>2. b \in Blocks \cup {NULL} /\ OwnsLocal(owner, b, Free)
    BY DEF FreeBlocks, OwnsLocal
  <2>3. OthersKeep(owner', Free)
    BY <2>1, <2>2, Transfer
  <2>4. OwnsLocal(owner', b, ByMsg(t))
    BY <2>1, <2>2, MovedLocal, PointerType
  <2>5. appMsg'[t].data = b /\ \A u \in Apps : u # t => appMsg'[u] = appMsg[u]
    BY <1>0, <2>1
  <2>6. UNCHANGED <<moq, evtq, cur, mt, appPeek, appEvt>>
    BY <1>1 DEF SendAlloc
  <2>7. ASSUME NEW u \in Apps PROVE AppOwns(u)'
    BY <2>3, <2>4, <2>5, <2>6, OwnersDistinct DEF AppOwns, OthersKeep
  <2>8. QED
    BY <2>3, <2>6, <2>7, OwnersDistinct DEF OthersKeep, Ownership, AppOwns
<1>2. CASE SendUsed(t) \/ SendPeekNone(t) \/ RequestCheckEmpty(t)
  BY <1>2 DEF SendUsed, SendPeekNone, RequestCheckEmpty, Ownership
<1>3. CASE SendMerge(t)
  <2> DEFINE b == Head(moq).data
  <2>1. /\ moq' = Tail(moq) /\ moq # <<>> /\ b = NULL
        /\ UNCHANGED <<evtq, cur, mt, appPeek, appEvt, owner>>
    BY <1>3 DEF SendMerge
  <2>2. Move(owner, b, Free) = owner
    BY <2>1 DEF Move
  <2>3. OwnsQueue(owner', moq', InMoq)
    BY <2>1, <2>2, GetQueue, PointerType DEF Ownership
  <2>4. \A u \in Apps : appMsg'[u].data = appMsg[u].data
    BY <1>0, <1>3 DEF SendMerge, MergeRequest, MoMsg
  <2>5. QED
    BY <2>1, <2>3, <2>4 DEF Ownership
<1>4. CASE SendPeek(t)
  <2> DEFINE b == Head(moq).data
  <2>1. /\ moq' = Tail(moq) /\ moq # <<>>
        /\ appPeek' = [appPeek EXCEPT ![t] = Head(moq)]
        /\ owner' = Move(owner, b, ByPeek(t))
        /\ UNCHANGED <<evtq, cur, mt, appMsg, appEvt>>
    BY <1>4 DEF SendPeek
  <2>2. b \in Blocks \cup {NULL}
    BY <2>1, PointerType, HeadTailProperties
  <2>3. OwnsLocal(owner, b, InMoq) /\ OwnsQueue(owner', moq', InMoq)
    BY <2>1, GetQueue, PointerType DEF Ownership
  <2>4. OthersKeep(owner', InMoq)
    BY <2>1, <2>2, <2>3, Transfer
  <2>5. OwnsLocal(owner', b, ByPeek(t))
    BY <2>1, <2>2, MovedLocal, PointerType
  <2>6. appPeek'[t].data = b /\ \A u \in Apps : u # t => appPeek'[u] = appPeek[u]
    BY <1>0, <2>1
  <2>7. ASSUME NEW u \in Apps PROVE AppOwns(u)'
    BY <2>1, <2>4, <2>5, <2>6, OwnersDistinct DEF AppOwns, OthersKeep
  <2>8. QED
    BY <2>1, <2>3, <2>4, <2>7, OwnersDistinct DEF OthersKeep, Ownership, AppOwns
<1>5. CASE SendPutback(t)
  <2>1. /\ EnqueueMoMsg(appPeek[t])
        /\ UNCHANGED <<evtq, cur, mt, appMsg, appEvt>>
    BY <1>5 DEF SendPutback
  <2>2. appPeek'[t].data = NULL /\ \A u \in Apps : u # t => appPeek'[u] = appPeek[u]
    BY <1>0, <1>5 DEF SendPutback
  <2>3. OwnsQueue(owner', moq', InMoq) /\ OthersKeep(owner', ByPeek(t))
    BY <1>0, <2>1, EnqueueOwned, OwnersDistinct DEF AppOwns
  <2>4. ASSUME NEW u \in Apps PROVE AppOwns(u)'
    BY <1>0, <2>1, <2>2, <2>3, OwnersDistinct DEF AppOwns, OthersKeep
  <2>5. QED
    BY <2>1, <2>3, <2>4, OwnersDistinct DEF OthersKeep, Ownership, AppOwns
<1>6. CASE SendEnqueue(t) \/ RequestPut(t)
  <2>1. /\ EnqueueMoMsg(appMsg[t])
        /\ UNCHANGED <<evtq, cur, mt, appPeek, appEvt>>
    BY <1>6 DEF SendEnqueue, RequestPut, PutRequest
  <2>2. appMsg'[t].data = NULL /\ \A u \in Apps : u # t => appMsg'[u] = appMsg[u]
    BY <1>0, <1>6 DEF SendEnqueue, RequestPut
  <2>3. OwnsQueue(owner', moq', InMoq) /\ OthersKeep(owner', ByMsg(t))
    BY <1>0, <2>1, EnqueueOwned, OwnersDistinct DEF AppOwns
  <2>4. ASSUME NEW u \in Apps PROVE AppOwns(u)'
    BY <1>0, <2>1, <2>2, <2>3, OwnersDistinct DEF AppOwns, OthersKeep
  <2>5. QED
    BY <2>1, <2>3, <2>4, OwnersDistinct DEF OthersKeep, Ownership, AppOwns
<1>7. CASE RequestCheckBusy(t) \/ \E alert \in BOOLEAN : RequestCall(t, alert)
  <2>1. UNCHANGED <<moq, evtq, cur, mt, appPeek, appEvt, owner>>
    BY <1>7 DEF RequestCheckBusy, RequestCall
  <2>2. \A u \in Apps : appMsg'[u] = appMsg[u] \/ appMsg'[u].data = NULL
    BY <1>0, <1>7 DEF RequestCheckBusy, RequestCall
  <2>3. ASSUME NEW u \in Apps PROVE AppOwns(u)'
    BY <1>0, <2>1, <2>2 DEF AppOwns
  <2>4. QED
    BY <2>1, <2>3 DEF Ownership, AppOwns
<1>8. CASE WaitEvt(t)
  <2> DEFINE b == Head(evtq).data
  <2>1. /\ evtq' = Tail(evtq) /\ evtq # <<>>
        /\ appEvt' = [appEvt EXCEPT ![t] = Head(evtq)]
        /\ owner' = Move(owner, b, ByEvt(t))
        /\ UNCHANGED <<moq, cur, mt, appMsg, appPeek>>
    BY <1>8 DEF WaitEvt
  <2>2. b \in Blocks \cup {NULL}
    BY <2>1, PointerType, HeadTailProperties
  <2>3. OwnsLocal(owner, b, InEvtq) /\ OwnsQueue(owner', evtq', InEvtq)
    BY <2>1, GetQueue, PointerType DEF Ownership
  <2>4. OthersKeep(owner', InEvtq)
    BY <2>1, <2>2, <2>3, Transfer
  <2>5. OwnsLocal(owner', b, ByEvt(t))
    BY <2>1, <2>2, MovedLocal, PointerType
  <2>6. appEvt'[t].data = b /\ \A u \in Apps : u # t => appEvt'[u] = appEvt[u]
    BY <1>0, <2>1
  <2>7. ASSUME NEW u \in Apps PROVE AppOwns(u)'
    BY <2>1, <2>4, <2>5, <2>6, OwnersDistinct DEF AppOwns, OthersKeep
  <2>8. QED
    BY <2>1, <2>3, <2>4, <2>7, OwnersDistinct DEF OthersKeep, Ownership, AppOwns
<1>9. CASE WaitRing(t)
  <2> DEFINE b == Head(evtq).data
  <2>1. /\ evtq' = Tail(evtq) /\ evtq # <<>>
        /\ appMsg' = [appMsg EXCEPT ![t] = RequestMsg(TRUE)]
        /\ UNCHANGED <<moq, cur, mt, appPeek, appEvt, owner>>
    BY <1>9 DEF WaitRing
  <2>2. OwnsQueue(owner', evtq', InEvtq)
    <3>1. /\ evtq \in Seq(Evt) /\ Len(evtq') \in Nat /\ Len(evtq) = Len(evtq') + 1
          /\ \A i \in 1..Len(evtq') : evtq'[i] = evtq[i+1]
      BY <2>1, PointerType, HeadTailProperties, LenProperties, EmptySeq
    <3>2. QED
      BY <2>1, <3>1 DEF Ownership, OwnsQueue
  <2>3. \A u \in Apps : appMsg'[u] = appMsg[u] \/ appMsg'[u].data = NULL
    BY <1>0, <2>1
  <2>4. ASSUME NEW u \in Apps PROVE AppOwns(u)'
    BY <1>0, <2>1, <2>3 DEF AppOwns
  <2>5. QED
    BY <2>1, <2>2, <2>4 DEF Ownership, AppOwns
<1>10. CASE DestroyEvt(t)
  <2>1. /\ owner' = Move(owner, appEvt[t].data, Free) \/ owner' = owner
        /\ UNCHANGED <<moq, evtq, cur, mt, appMsg, appPeek>>
    BY <1>10 DEF DestroyEvt
  <2>2. appEvt'[t].data = NULL /\ \A u \in Apps : u # t => appEvt'[u] = appEvt[u]
    BY <1>0, <1>10 DEF DestroyEvt
  <2>3. OthersKeep(owner', ByEvt(t))
    <3>1. OthersKeep(Move(owner, appEvt[t].data, Free), ByEvt(t))
      BY <1>0, Transfer, PointerType DEF AppOwns
    <3>2. OthersKeep(owner, ByEvt(t))
      BY DEF OthersKeep, Ownership
    <3>3. QED
      BY <2>1, <3>1, <3>2
  <2>4. ASSUME NEW u \in Apps PROVE AppOwns(u)'
    BY <1>0, <2>1, <2>2, <2>3, OwnersDistinct DEF AppOwns, OthersKeep
  <2>5. QED
    BY <2>1, <2>3, <2>4, OwnersDistinct DEF OthersKeep, Ownership, AppOwns
<1>11. QED
  BY <1>1, <1>2, <1>3, <1>4, <1>5, <1>6, <1>7, <1>8, <1>9, <1>10 DEF AppStep, AppCall

(* Whatever the interleaving, queue lengths and number of threads, every   *)
(* pointer of the service points to a block that its holder alone must     *)
(* free: isbd.c frees no block twice and hands out no freed block.         *)
THEOREM OwnershipHolds == Spec => []Ownership
<1>1. Init => Ownership
  BY DEF Init, Ownership, OwnsQueue, OwnsLocal, NoMsg, NoEvt
<1>2. TypeOK /\ Ownership /\ [Next]_vars => Ownership'
  <2> SUFFICES ASSUME TypeOK, Ownership, [Next]_vars PROVE Ownership'
    OBVIOUS
  <2>1. CASE Next
    BY <2>1, SvcOwned, AppOwned DEF Next
  <2>2. CASE UNCHANGED vars
    BY <2>2 DEF vars, Ownership
  <2>3. QED
    BY <2>1, <2>2
<1>3. QED
  BY <1>1, <1>2, TypeCorrect, PTL DEF Spec

(***************************************************************************)
(* Promised sessions.                                                      *)
(***************************************************************************)
(* After _enqueue_mo_msg the queue is not empty, whether it had room.      *)
LEMMA EnqueueNotEmpty ==
  ASSUME TypeOK, NEW m \in MoMsg, EnqueueMoMsg(m)
  PROVE  moq' # <<>>
<1>1. moq \in Seq(MoMsg) /\ Len(moq) \in Nat /\ MoQueueLen \in Nat \ {0}
  BY QueueAssumption, LenProperties DEF TypeOK
<1>2. CASE Len(moq) < MoQueueLen
  BY <1>1, <1>2, AppendProperties DEF EnqueueMoMsg
<1>3. CASE ~(Len(moq) < MoQueueLen)
  BY <1>1, <1>3, EmptySeq DEF EnqueueMoMsg
<1>4. QED
  BY <1>2, <1>3

(* A session that isbd_request_session promised is never forgotten by the  *)
(* races between the senders' peek and the service's take: until it is     *)
(* attempted, the queue has an element or somebody is about to fill it.    *)
THEOREM RequestKept == Spec => []RequestNotForgotten
<1>1. Init => RequestNotForgotten
  BY DEF Init, RequestNotForgotten
<1>2. TypeOK /\ RequestNotForgotten /\ [Next]_vars => RequestNotForgotten'
  <2> SUFFICES ASSUME TypeOK, RequestNotForgotten, [Next]_vars
               PROVE  RequestNotForgotten'
    OBVIOUS
  <2> USE DEF RequestNotForgotten
  <2>0. /\ appPc \in [Apps -> AppPcs] /\ cur \in MoMsg
        /\ \A t \in Apps : appMsg[t] \in MoMsg /\ appPeek[t] \in MoMsg
    BY DEF TypeOK
  <2>1. CASE SvcStep
    <3>1. CASE SvcTake \/ SvcSetFail \/ SvcSetOk \/ SvcSbdix
      BY <3>1 DEF SvcTake, SvcSetFail, SvcSetOk, SvcSbdix, appVars
    <3>2. CASE SvcMoRetry
      <4>1. OneRetryLess(cur) \in MoMsg
        BY <2>0, <3>2, MsgType DEF SvcMoRetry
      <4>2. QED
        BY <3>2, <4>1, EnqueueNotEmpty DEF SvcMoRetry
    <3>3. CASE SvcRequestPut
      BY <3>3, EnqueueNotEmpty, DataType DEF SvcRequestPut, PutRequest
    <3>4. CASE SvcRequestCheck
      BY <3>4 DEF SvcRequestCheck, PendingRequests, appVars
    <3>5. CASE SvcBoot \/ SvcIdle \/ SvcQuiet \/ SvcSettled \/ SvcSessionFailed
               \/ SvcNoPayload \/ SvcMoSent \/ SvcMoGiveUp
               \/ SvcMtSkip \/ SvcMtAlloc \/ SvcMtRead \/ SvcMtReadFail
      <4>1. UNCHANGED <<moq, appPc, want>> /\ svcPc \notin {"set", "sbdix"}
        BY <3>5 DEF SvcBoot, SvcIdle, SvcQuiet, SvcSettled, SvcSessionFailed,
                    SvcNoPayload, SvcMoSent, SvcMoGiveUp, SvcMtSkip, SvcMtAlloc,
                    SvcMtRead, SvcMtReadFail, AfterMo, AfterMt, appVars
      <4>2. QED
        BY <4>1
    <3>6. QED
      BY <2>1, <3>1, <3>2, <3>3, <3>4, <3>5 DEF SvcStep
  <2>2. CASE SvcUrc
    BY <2>2 DEF SvcUrc, appVars
  <2>3. ASSUME NEW t \in Apps, AppStep(t) \/ AppCall(t)
        PROVE  RequestNotForgotten'
    <3> USE DEF AtApp, svcVars
    <3>1. CASE SendPutback(t) \/ SendEnqueue(t) \/ RequestPut(t)
      BY <2>0, <3>1, EnqueueNotEmpty DEF SendPutback, SendEnqueue, RequestPut, PutRequest
    <3>2. CASE SendPeekNone(t) \/ SendMerge(t) \/ SendPeek(t)
      BY <2>0, <3>2 DEF SendPeekNone, SendMerge, SendPeek
    <3>3. CASE RequestCheckBusy(t)
      BY <3>3 DEF RequestCheckBusy, PendingRequests
    <3>4. CASE \/ SendAlloc(t) \/ SendUsed(t) \/ RequestCheckEmpty(t)
               \/ (\E alert \in BOOLEAN : RequestCall(t, alert))
               \/ WaitEvt(t) \/ WaitRing(t) \/ DestroyEvt(t)
      <4>1. /\ UNCHANGED <<moq, svcPc, want>>
            /\ appPc[t] \notin {"putback", "enq"}
            /\ \A u \in Apps : u # t => appPc'[u] = appPc[u]
        BY <2>0, <3>4 DEF SendAlloc, SendUsed, RequestCheckEmpty, RequestCall,
                          WaitEvt, WaitRing, DestroyEvt
      <4>2. QED
        BY <4>1
    <3>5. QED
      BY <2>3, <3>1, <3>2, <3>3, <3>4 DEF AppStep, AppCall
  <2>4. CASE UNCHANGED vars
    BY <2>4 DEF vars
  <2>5. QED
    BY <2>1, <2>2, <2>3, <2>4 DEF Next
<1>3. QED
  BY <1>1, <1>2, TypeCorrect, PTL DEF Spec
(***************************************************************************)
(* The retry counter.                                                      *)
(***************************************************************************)
(* Putting a message whose budget is kept into the queue keeps the budget  *)
(* of every queued message.                                                *)
LEMMA EnqueueBudget ==
  ASSUME TypeOK, NEW m \in MoMsg, EnqueueMoMsg(m), BudgetKept(m, 0),
         \A i \in 1..Len(moq) : BudgetKept(moq[i], 0)
  PROVE  \A i \in 1..Len(moq') : BudgetKept(moq'[i], 0)
<1>1. moq \in Seq(MoMsg) /\ Len(moq) \in Nat
  BY LenProperties DEF TypeOK
<1>2. CASE moq' = moq
  BY <1>2
<1>3. CASE moq' = Append(moq, m)
  <2>1. /\ Len(moq') = Len(moq) + 1
        /\ \A i \in 1..Len(moq) : moq'[i] = moq[i]
        /\ moq'[Len(moq) + 1] = m
    BY <1>1, <1>3, AppendProperties
  <2>2. \A i \in 1..Len(moq') : i \in 1..Len(moq) \/ i = Len(moq) + 1
    BY <1>1, <2>1
  <2>3. QED
    BY <2>1, <2>2
<1>4. QED
  BY <1>2, <1>3 DEF EnqueueMoMsg

(* Taking the first message out keeps the budget of those that stay.       *)
LEMMA TakeBudget ==
  ASSUME TypeOK, moq # <<>>, \A i \in 1..Len(moq) : BudgetKept(moq[i], 0)
  PROVE  /\ BudgetKept(Head(moq), 0)
         /\ \A i \in 1..Len(Tail(moq)) : BudgetKept(Tail(moq)[i], 0)
<1>1. /\ moq \in Seq(MoMsg) /\ Len(moq) \in Nat /\ Head(moq) = moq[1]
      /\ Len(Tail(moq)) = Len(moq) - 1
      /\ \A i \in 1..Len(Tail(moq)) : Tail(moq)[i] = moq[i + 1]
  BY HeadTailProperties, LenProperties DEF TypeOK
<1>2. Len(moq) > 0
  BY <1>1, EmptySeq
<1>3. 1 \in 1..Len(moq) /\ \A i \in 1..Len(Tail(moq)) : i + 1 \in 1..Len(moq)
  BY <1>1, <1>2
<1>4. QED
  BY <1>1, <1>3

(* A message without a payload has no budget to keep.                      *)
LEMMA NoBudget ==
  \A n : /\ BudgetKept(NoMsg, n)
         /\ \A alert \in BOOLEAN : BudgetKept(RequestMsg(alert), n)
BY DEF BudgetKept, HasPayload, NoMsg, RequestMsg

(* The service's steps keep the budget of the message it carries and of    *)
(* those it puts back.                                                     *)
LEMMA SvcBudget ==
  ASSUME TypeOK, RetryBudget, SvcStep \/ SvcUrc PROVE RetryBudget'
<1>0. /\ cur \in MoMsg /\ svcPc \in SvcPcs
      /\ \A i \in 1..Len(moq) : BudgetKept(moq[i], 0)
      /\ \A t \in Apps : BudgetKept(appMsg[t], 0) /\ BudgetKept(appPeek[t], 0)
      /\ BudgetKept(cur, AfterSbdix)
  BY DEF TypeOK, RetryBudget
<1>1. UNCHANGED appVars
  BY DEF SvcStep, SvcUrc, SvcBoot, SvcIdle, SvcTake, SvcSetOk, SvcSetFail, SvcSbdix,
         SvcQuiet, SvcSettled, SvcSessionFailed, SvcNoPayload, SvcMoSent, SvcMoRetry,
         SvcMoGiveUp, SvcMtSkip, SvcMtAlloc, SvcMtRead, SvcMtReadFail,
         SvcRequestCheck, SvcRequestPut, AfterMo, AfterMt
<1>2. \A t \in Apps : BudgetKept(appMsg'[t], 0) /\ BudgetKept(appPeek'[t], 0)
  BY <1>0, <1>1 DEF appVars
<1>3. SUFFICES /\ \A i \in 1..Len(moq') : BudgetKept(moq'[i], 0)
               /\ BudgetKept(cur', AfterSbdix')
  BY <1>2 DEF RetryBudget, BudgetKept, HasPayload
<1>4. CASE SvcTake
  <2>1. AfterSbdix' = 0
    BY <1>4 DEF SvcTake, AfterSbdix
  <2>2. QED
    BY <1>0, <1>4, <2>1, TakeBudget DEF SvcTake
<1>5. CASE SvcSbdix
  <2>1. AfterSbdix = 0 /\ AfterSbdix' = 1 /\ moq' = moq
        /\ cur' = [cur EXCEPT !.tried = @ + 1]
    BY <1>5 DEF SvcSbdix, AfterSbdix
  <2>2. /\ cur'.data = cur.data /\ cur'.len = cur.len /\ cur'.tried = cur.tried + 1
        /\ cur'.retries = cur.retries /\ cur'.asked = cur.asked
        /\ cur.tried \in Nat /\ cur.retries \in Nat /\ cur.asked \in Nat
    BY <1>0, <2>1 DEF MoMsg
  <2>3. QED
    BY <1>0, <2>1, <2>2 DEF BudgetKept, HasPayload
<1>6. CASE SvcSetFail \/ SvcSessionFailed \/ SvcNoPayload \/ SvcMoSent \/ SvcMoGiveUp
  <2>1. moq' = moq /\ cur' = NoMsg
    BY <1>6 DEF SvcSetFail, SvcSessionFailed, SvcNoPayload, SvcMoSent, SvcMoGiveUp,
                AfterMo
  <2>2. QED
    BY <1>0, <2>1, NoBudget
<1>7. CASE SvcMoRetry
  <2>1. /\ cur' = NoMsg /\ EnqueueMoMsg(OneRetryLess(cur)) /\ cur.retries > 0
        /\ AfterSbdix = 1
    BY <1>7 DEF SvcMoRetry, AfterMo, AfterSbdix
  <2>2. OneRetryLess(cur) \in MoMsg
    BY <1>0, <2>1, MsgType
  <2>3. BudgetKept(OneRetryLess(cur), 0)
    <3>1. /\ OneRetryLess(cur).data = cur.data /\ OneRetryLess(cur).len = cur.len
          /\ OneRetryLess(cur).tried = cur.tried
          /\ OneRetryLess(cur).asked = cur.asked
          /\ OneRetryLess(cur).retries = cur.retries - 1
          /\ cur.tried \in Nat /\ cur.retries \in Nat /\ cur.asked \in Nat
      BY <1>0 DEF OneRetryLess, MoMsg
    <3>2. BudgetKept(cur, 1)
      BY <1>0, <2>1
    <3>3. QED
      BY <3>1, <3>2 DEF BudgetKept, HasPayload
  <2>4. QED
    BY <1>0, <2>1, <2>2, <2>3, EnqueueBudget, NoBudget
<1>8. CASE SvcRequestPut
  <2>1. EnqueueMoMsg(RequestMsg(FALSE)) /\ cur' = cur /\ AfterSbdix' = AfterSbdix
    BY <1>8 DEF SvcRequestPut, PutRequest, AfterSbdix
  <2>2. QED
    BY <1>0, <2>1, DataType, NoBudget, EnqueueBudget
<1>9. CASE SvcBoot \/ SvcIdle \/ SvcSetOk \/ SvcQuiet \/ SvcSettled \/ SvcUrc
           \/ SvcMtSkip \/ SvcMtAlloc \/ SvcMtRead \/ SvcMtReadFail \/ SvcRequestCheck
  <2>1. UNCHANGED <<moq, cur>> /\ AfterSbdix' = AfterSbdix
    BY <1>9 DEF SvcBoot, SvcIdle, SvcSetOk, SvcQuiet, SvcSettled, SvcUrc, SvcMtSkip,
                SvcMtAlloc, SvcMtRead, SvcMtReadFail, SvcRequestCheck, AfterMt,
                AfterSbdix
  <2>2. QED
    BY <1>0, <2>1
<1>10. QED
  BY <1>4, <1>5, <1>6, <1>7, <1>8, <1>9 DEF SvcStep

(* The senders' steps start a message with its whole budget and change it  *)
(* neither by the peek nor by the merge with a request.                    *)
LEMMA AppBudget ==
  ASSUME TypeOK, RetryBudget, NEW t \in Apps, AppStep(t) \/ AppCall(t)
  PROVE  RetryBudget'
<1>0. /\ appMsg \in [Apps -> MoMsg] /\ appPeek \in [Apps -> MoMsg]
      /\ \A i \in 1..Len(moq) : BudgetKept(moq[i], 0)
      /\ \A u \in Apps : BudgetKept(appMsg[u], 0) /\ BudgetKept(appPeek[u], 0)
      /\ BudgetKept(cur, AfterSbdix)
  BY DEF TypeOK, RetryBudget
<1>1. UNCHANGED <<cur, svcPc>>
  BY DEF AppStep, AppCall, SendAlloc, SendUsed, SendPeekNone, SendMerge, SendPeek,
         SendPutback, SendEnqueue, RequestCall, RequestCheckBusy, RequestCheckEmpty,
         RequestPut, WaitEvt, WaitRing, DestroyEvt, svcVars
<1>2. BudgetKept(cur', AfterSbdix')
  BY <1>0, <1>1 DEF AfterSbdix
<1>3. SUFFICES /\ \A i \in 1..Len(moq') : BudgetKept(moq'[i], 0)
               /\ \A u \in Apps : BudgetKept(appMsg'[u], 0) /\ BudgetKept(appPeek'[u], 0)
  BY <1>2 DEF RetryBudget, BudgetKept, HasPayload
<1>4. CASE SendAlloc(t)
  <2>1. PICK b \in FreeBlocks, n \in MsgLens, r \in RetryBudgets :
          appMsg' = [appMsg EXCEPT ![t] =
            [data |-> b, len |-> n, alert |-> FALSE,
             retries |-> r, tried |-> 0, asked |-> r]]
    BY <1>4 DEF SendAlloc
  <2>2. r \in Nat
    BY InputAssumption
  <2>3. BudgetKept([data |-> b, len |-> n, alert |-> FALSE,
                    retries |-> r, tried |-> 0, asked |-> r], 0)
    BY <2>2 DEF BudgetKept
  <2>4. moq' = moq /\ appPeek' = appPeek
    BY <1>4 DEF SendAlloc
  <2>5. QED
    BY <1>0, <2>1, <2>3, <2>4
<1>5. CASE SendMerge(t)
  <2>1. /\ moq # <<>> /\ moq' = Tail(moq) /\ appPeek' = appPeek
        /\ appMsg' = [appMsg EXCEPT ![t] = [@ EXCEPT !.alert = Head(moq).alert]]
    BY <1>5 DEF SendMerge, MergeRequest
  <2>2. BudgetKept([appMsg[t] EXCEPT !.alert = Head(moq).alert], 0)
    BY <1>0 DEF BudgetKept, HasPayload, MoMsg
  <2>3. QED
    BY <1>0, <2>1, <2>2, TakeBudget
<1>6. CASE SendPeek(t)
  <2>1. /\ moq # <<>> /\ moq' = Tail(moq) /\ appMsg' = appMsg
        /\ appPeek' = [appPeek EXCEPT ![t] = Head(moq)]
    BY <1>6 DEF SendPeek
  <2>2. QED
    BY <1>0, <2>1, TakeBudget
<1>7. CASE SendPutback(t)
  <2>1. /\ EnqueueMoMsg(appPeek[t]) /\ appPeek[t] \in MoMsg /\ appMsg' = appMsg
        /\ appPeek' = [appPeek EXCEPT ![t] = NoMsg]
    BY <1>0, <1>7 DEF SendPutback
  <2>2. QED
    BY <1>0, <2>1, EnqueueBudget, NoBudget
<1>8. CASE SendEnqueue(t) \/ RequestPut(t)
  <2>1. /\ EnqueueMoMsg(appMsg[t]) /\ appMsg[t] \in MoMsg /\ appPeek' = appPeek
        /\ appMsg' = [appMsg EXCEPT ![t] = NoMsg]
    BY <1>0, <1>8 DEF SendEnqueue, RequestPut, PutRequest
  <2>2. QED
    BY <1>0, <2>1, EnqueueBudget, NoBudget
<1>9. CASE RequestCheckBusy(t) \/ WaitRing(t)
           \/ \E alert \in BOOLEAN : RequestCall(t, alert)
  <2>1. /\ moq' = moq /\ appPeek' = appPeek
        /\ \/ appMsg' = [appMsg EXCEPT ![t] = NoMsg]
           \/ \E alert \in BOOLEAN : appMsg' = [appMsg EXCEPT ![t] = RequestMsg(alert)]
    BY <1>9 DEF RequestCheckBusy, WaitRing, RequestCall
  <2>2. QED
    BY <1>0, <2>1, NoBudget
<1>10. CASE SendUsed(t) \/ SendPeekNone(t) \/ RequestCheckEmpty(t) \/ WaitEvt(t)
            \/ DestroyEvt(t)
  <2>1. UNCHANGED <<moq, appMsg, appPeek>>
    BY <1>10 DEF SendUsed, SendPeekNone, RequestCheckEmpty, WaitEvt, DestroyEvt
  <2>2. QED
    BY <1>0, <2>1
<1>11. QED
  BY <1>4, <1>5, <1>6, <1>7, <1>8, <1>9, <1>10 DEF AppStep, AppCall

(* A message with a payload is carried by asked + 1 sessions at most: each *)
(* session uses up one retry, whichever senders take the message out and   *)
(* put it back in between.                                                 *)
THEOREM BudgetHolds == Spec => []RetryBudget
<1>1. Init => RetryBudget
  <2>1. Init => /\ \A t \in Apps : appMsg[t] = NoMsg /\ appPeek[t] = NoMsg
                /\ cur = NoMsg /\ Len(moq) = 0
    BY DEF Init
  <2>2. QED
    BY <2>1, NoBudget DEF RetryBudget
<1>2. TypeOK /\ RetryBudget /\ [Next]_vars => RetryBudget'
  <2> SUFFICES ASSUME TypeOK, RetryBudget, [Next]_vars PROVE RetryBudget'
    OBVIOUS
  <2>1. CASE Next
    BY <2>1, SvcBudget, AppBudget DEF Next
  <2>2. CASE UNCHANGED vars
    BY <2>2 DEF vars, RetryBudget, BudgetKept, HasPayload, AfterSbdix
  <2>3. QED
    BY <2>1, <2>2
<1>3. QED
  BY <1>1, <1>2, TypeCorrect, PTL DEF Spec
=============================================================================
