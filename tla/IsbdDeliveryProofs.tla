------------------------- MODULE IsbdDeliveryProofs -------------------------
(***************************************************************************)
(* IsbdService implements SbdDelivery, and it leaks blocks on no path but  *)
(* the four it names, for any number of application threads, heap blocks   *)
(* and queue lengths.  With one sending thread it also keeps the order of  *)
(* messages and the alert flag of requests.                                *)
(***************************************************************************)
EXTENDS IsbdServiceProofs, FiniteSetTheorems, FunctionTheorems

(***************************************************************************)
(* What the service thread holds.                                          *)
(***************************************************************************)
(* The service owns no message but the one of _entry_point, and a session  *)
(* is handled only if it took place.                                       *)
HoldsCur ==
  /\ \A b \in Blocks : owner[b] = SvcMo => cur.data = b
  /\ svcPc \notin {"set", "sbdix", "settle", "mo"} => cur = NoMsg
  /\ svcPc = "mo" => session.ok

(* What the queue operations do with the block they are given.             *)
LEMMA EnqueueMoves ==
  ASSUME NEW m, EnqueueMoMsg(m)
  PROVE  owner' = Move(owner, m.data, InMoq) \/ owner' = Move(owner, m.data, Leaked)
BY DEF EnqueueMoMsg

LEMMA NotifyMoves ==
  ASSUME NEW id, NEW b, NotifyMsg(id, b) \/ NotifyErr(b)
  PROVE  \/ NotifyMsg(id, b) /\ owner' = Move(owner, b, InEvtq)
         \/ owner' = Move(owner, b, Free)
BY DEF NotifyMsg, NotifyErr

(***************************************************************************)
(* Every step gives at most one block to a new owner.                      *)
(***************************************************************************)
(* A step of a thread moves block b (or none) to owner o.                  *)
MovesTo(b, o) == b \in Blocks \cup {NULL} /\ o \in Owners /\ owner' = Move(owner, b, o)

(* An application step touches no block of the service.                    *)
AppMoves(b, o) ==
  /\ MovesTo(b, o)
  /\ b # NULL => <<owner[b][1], o[1]>> \in
       {<<"free", "msg">>, <<"moq", "peek">>, <<"evtq", "evt">>, <<"evt", "free">>}
         \cup {"msg", "peek"} \X {"moq", "leaked"}

LEMMA AppStepMoves ==
  ASSUME TypeOK, Ownership, NEW t \in Apps, AppStep(t) \/ AppCall(t)
  PROVE  \E b, o : AppMoves(b, o)
<1>0. /\ owner \in [Blocks -> Owners]
      /\ \A u \in Apps : /\ appMsg[u].data \in Blocks \cup {NULL}
                         /\ appPeek[u].data \in Blocks \cup {NULL}
                         /\ appEvt[u].data \in Blocks \cup {NULL}
      /\ moq \in Seq(MoMsg) /\ evtq \in Seq(Evt)
      /\ \A e \in MoMsg : e.data \in Blocks \cup {NULL}
      /\ \A e \in Evt : e.data \in Blocks \cup {NULL}
      /\ NULL \notin Blocks
  BY PointerType, HeapAssumption
<1>1. CASE UNCHANGED owner
  <2>1. AppMoves(NULL, Free)
    BY <1>1, OwnersType DEF AppMoves, MovesTo, Move
  <2> QED
    BY <2>1
<1>2. CASE SendAlloc(t)
  <2>1. PICK b \in FreeBlocks : owner' = Move(owner, b, ByMsg(t))
    BY <1>2 DEF SendAlloc
  <2>2. AppMoves(b, ByMsg(t))
    BY <2>1, OwnersType DEF FreeBlocks, AppMoves, MovesTo, ByMsg, Free
  <2> QED
    BY <2>2
<1>3. CASE SendPeek(t)
  <2>1. Head(moq).data \in Blocks \cup {NULL} /\ OwnsLocal(owner, Head(moq).data, InMoq)
    BY <1>0, <1>3, HeadTailProperties, GetQueue DEF SendPeek, Ownership
  <2>2. AppMoves(Head(moq).data, ByPeek(t))
    BY <1>3, <2>1, OwnersType DEF SendPeek, AppMoves, MovesTo, OwnsLocal, ByPeek, InMoq
  <2> QED
    BY <2>2
<1>4. CASE SendPutback(t) \/ SendEnqueue(t) \/ RequestPut(t)
  <2>1. PICK m : /\ EnqueueMoMsg(m) /\ m.data \in Blocks \cup {NULL}
                 /\ m.data # NULL => owner[m.data] \in {ByMsg(t), ByPeek(t)}
    BY <1>0, <1>4 DEF SendPutback, SendEnqueue, RequestPut, PutRequest, Ownership, OwnsLocal
  <2>2. AppMoves(m.data, InMoq) \/ AppMoves(m.data, Leaked)
    BY <2>1, EnqueueMoves, OwnersType DEF AppMoves, MovesTo, ByMsg, ByPeek, InMoq, Leaked
  <2> QED
    BY <2>2
<1>5. CASE WaitEvt(t)
  <2>1. Head(evtq).data \in Blocks \cup {NULL} /\ OwnsLocal(owner, Head(evtq).data, InEvtq)
    BY <1>0, <1>5, HeadTailProperties, GetQueue DEF WaitEvt, Ownership
  <2>2. AppMoves(Head(evtq).data, ByEvt(t))
    BY <1>5, <2>1, OwnersType DEF WaitEvt, AppMoves, MovesTo, OwnsLocal, ByEvt, InEvtq
  <2> QED
    BY <2>2
<1>6. CASE DestroyEvt(t)
  <2>1. owner' = Move(owner, appEvt[t].data, Free) \/ owner' = owner
    BY <1>6 DEF DestroyEvt
  <2>2. CASE owner' = Move(owner, appEvt[t].data, Free)
    <3>1. AppMoves(appEvt[t].data, Free)
      BY <1>0, <2>2, OwnersType DEF AppMoves, MovesTo, Ownership, OwnsLocal, ByEvt, Free
    <3> QED
      BY <3>1
  <2> QED
    BY <1>1, <2>1, <2>2
<1> QED
  BY <1>1, <1>2, <1>3, <1>4, <1>5, <1>6
     DEF AppStep, AppCall, SendUsed, SendPeekNone, SendMerge, RequestCheckBusy,
         RequestCheckEmpty, RequestCall, WaitRing

(***************************************************************************)
(* The service holds its message until the session is handled.             *)
(***************************************************************************)
LEMMA NoneHeld ==
  ASSUME HoldsCur, svcPc \notin {"set", "sbdix", "settle", "mo"}
  PROVE  cur.data = NULL /\ \A c \in Blocks : owner[c] # SvcMo
BY HeapAssumption DEF HoldsCur, NoMsg

LEMMA AppHolds ==
  ASSUME TypeOK, HoldsCur, NEW b, NEW o, AppMoves(b, o), UNCHANGED <<cur, svcPc, session>>
  PROVE  HoldsCur'
<1>1. owner \in [Blocks -> Owners] /\ NULL \notin Blocks
  BY PointerType, HeapAssumption
<1>2. o # SvcMo \/ b = NULL
  BY DEF AppMoves, SvcMo
<1>3. ASSUME NEW d \in Blocks, owner'[d] = SvcMo PROVE owner[d] = SvcMo
  BY <1>1, <1>2, <1>3 DEF AppMoves, MovesTo, Move
<1> QED
  BY <1>3 DEF HoldsCur

LEMMA SvcHolds ==
  ASSUME TypeOK, Ownership, HoldsCur, SvcStep \/ SvcUrc
  PROVE  HoldsCur'
<1>0. /\ owner \in [Blocks -> Owners] /\ NULL \notin Blocks
      /\ cur.data \in Blocks \cup {NULL} /\ mt \in Blocks \cup {NULL}
      /\ moq \in Seq(MoMsg) /\ \A e \in MoMsg : e.data \in Blocks \cup {NULL}
      /\ \A c \in Blocks : owner[c] = SvcMo => c = cur.data
      /\ Free # SvcMo /\ InMoq # SvcMo /\ InEvtq # SvcMo /\ SvcMt # SvcMo /\ Leaked # SvcMo
  BY PointerType, HeapAssumption, OwnersDistinct DEF HoldsCur
<1>2. CASE SvcSettled
  BY <1>2 DEF SvcSettled, HoldsCur
<1>3. CASE SvcTake
  <2>1. /\ cur' = Head(moq) /\ owner' = Move(owner, Head(moq).data, SvcMo) /\ svcPc' = "set"
        /\ Head(moq).data \in Blocks \cup {NULL} /\ svcPc = "loop"
    BY <1>0, <1>3, HeadTailProperties DEF SvcTake
  <2>2. \A c \in Blocks : owner[c] # SvcMo
    BY <2>1, NoneHeld
  <2>3. \A c \in Blocks : owner'[c] = SvcMo => cur'.data = c
    BY <1>0, <2>1, <2>2 DEF Move
  <2> QED
    BY <2>1, <2>3 DEF HoldsCur
<1>4. CASE SvcSbdix
  <2>1. owner' = owner /\ svcPc' = "settle" /\ cur'.data = cur.data
    <3>1. cur \in MoMsg
      BY DEF TypeOK
    <3> QED
      BY <1>4, <3>1 DEF SvcSbdix, MoMsg
  <2> QED
    BY <2>1 DEF HoldsCur
<1>5. CASE \E o : /\ owner' = Move(owner, cur.data, o) /\ o # SvcMo
                  /\ cur' = NoMsg /\ svcPc' \in {"wait", "mt"}
  <2>1. PICK o : owner' = Move(owner, cur.data, o) /\ o # SvcMo
    BY <1>5
  <2>2. \A d \in Blocks : owner'[d] # SvcMo
    BY <1>0, <2>1 DEF Move
  <2> QED
    BY <1>5, <2>2 DEF HoldsCur
<1>6. CASE \E b \in Blocks \cup {NULL} : \E o :
              /\ owner' = Move(owner, b, o) /\ o # SvcMo /\ cur' = cur
              /\ svcPc \in {"mt", "read", "reqput"} /\ svcPc' \in {"read", "reqcheck", "wait"}
  <2>1. PICK b \in Blocks \cup {NULL} : \E o : owner' = Move(owner, b, o) /\ o # SvcMo
    BY <1>6
  <2>2. \A d \in Blocks : owner[d] # SvcMo
    BY <1>6, NoneHeld
  <2>3. \A d \in Blocks : owner'[d] # SvcMo
    BY <1>0, <2>1, <2>2 DEF Move
  <2> QED
    BY <1>6, <2>3 DEF HoldsCur
<1>7. CASE SvcBoot \/ SvcIdle \/ SvcSetOk \/ SvcUrc \/ SvcQuiet \/ SvcRequestCheck
  <2>1. UNCHANGED <<owner, cur, session>>
    BY <1>7 DEF SvcBoot, SvcIdle, SvcSetOk, SvcUrc, SvcQuiet, SvcRequestCheck
  <2>2. CASE SvcUrc
    BY <2>1, <2>2 DEF SvcUrc, HoldsCur
  <2>3. CASE SvcSetOk
    BY <2>1, <2>3 DEF SvcSetOk, HoldsCur
  <2>4. CASE SvcBoot \/ SvcIdle \/ SvcQuiet \/ SvcRequestCheck
    <3>1. svcPc \in {"boot", "loop", "wait", "reqcheck"} /\ svcPc' \in {"loop", "wait", "reqput"}
      BY <2>4 DEF SvcBoot, SvcIdle, SvcQuiet, SvcRequestCheck
    <3> QED
      BY <2>1, <3>1 DEF HoldsCur
  <2> QED
    BY <1>7, <2>2, <2>3, <2>4
<1>8. CASE SvcSetFail \/ SvcSessionFailed \/ SvcNoPayload
  <2>1. \/ owner' = Move(owner, cur.data, Free)
        \/ owner' = Move(owner, cur.data, Leaked)
    BY <1>8 DEF SvcSetFail, SvcSessionFailed, SvcNoPayload
  <2>2. cur' = NoMsg /\ svcPc' \in {"wait", "mt"}
    BY <1>8 DEF SvcSetFail, SvcSessionFailed, SvcNoPayload, AfterMo
  <2> QED
    BY <1>0, <1>5, <2>1, <2>2
<1>9. CASE SvcMoSent \/ SvcMoGiveUp
  <2>1. owner' = Move(owner, cur.data, InEvtq) \/ owner' = Move(owner, cur.data, Free)
    BY <1>9, NotifyMoves DEF SvcMoSent, SvcMoGiveUp
  <2>2. cur' = NoMsg /\ svcPc' = "mt"
    BY <1>9 DEF SvcMoSent, SvcMoGiveUp, AfterMo
  <2> QED
    BY <1>0, <1>5, <2>1, <2>2
<1>10. CASE SvcMoRetry
  <2>1. OneRetryLess(cur).data = cur.data
    <3>1. cur \in MoMsg
      BY DEF TypeOK
    <3> QED
      BY <3>1 DEF OneRetryLess, MoMsg
  <2>2. owner' = Move(owner, cur.data, InMoq) \/ owner' = Move(owner, cur.data, Leaked)
    BY <1>10, <2>1, EnqueueMoves DEF SvcMoRetry
  <2>3. \E o : owner' = Move(owner, cur.data, o) /\ o # SvcMo
    BY <1>0, <2>2
  <2>4. AfterMo
    BY <1>10 DEF SvcMoRetry
  <2>5. cur' = NoMsg /\ svcPc' = "mt"
    BY <2>4, Zenon DEF AfterMo
  <2> QED
    BY <1>5, <2>3, <2>5
<1>11. CASE SvcMtSkip
  <2>1. owner' = Move(owner, NULL, Free)
    BY <1>11 DEF SvcMtSkip, Move
  <2> QED
    BY <1>0, <1>6, <1>11, <2>1 DEF SvcMtSkip, AfterMt
<1>12. CASE SvcMtAlloc
  <2>1. PICK b \in FreeBlocks : owner' = Move(owner, b, SvcMt)
    BY <1>12 DEF SvcMtAlloc
  <2>2. b \in Blocks
    BY DEF FreeBlocks
  <2> QED
    BY <1>0, <1>6, <1>12, <2>1, <2>2 DEF SvcMtAlloc
<1>13. CASE SvcMtRead \/ SvcMtReadFail
  <2>1. owner' = Move(owner, mt, InEvtq) \/ owner' = Move(owner, mt, Free)
    BY <1>13, NotifyMoves DEF SvcMtRead, SvcMtReadFail
  <2>2. cur' = cur /\ svcPc = "read" /\ svcPc' \in {"reqcheck", "wait"}
    BY <1>13 DEF SvcMtRead, SvcMtReadFail, AfterMt
  <2> QED
    BY <1>0, <1>6, <2>1, <2>2
<1>14. CASE SvcRequestPut
  <2>1. RequestMsg(FALSE).data = NULL
    BY DEF RequestMsg, NoMsg
  <2>2. owner' = Move(owner, NULL, InMoq) \/ owner' = Move(owner, NULL, Leaked)
    BY <1>14, <2>1, EnqueueMoves DEF SvcRequestPut, PutRequest
  <2> QED
    BY <1>0, <1>6, <1>14, <2>2 DEF SvcRequestPut
<1> QED
  BY <1>2, <1>3, <1>4, <1>7, <1>8, <1>9, <1>10, <1>11, <1>12, <1>13, <1>14 DEF SvcStep

(***************************************************************************)
(* The refinement.                                                         *)
(***************************************************************************)
Stages == [b \in Blocks |-> StageAt(owner[b], InService)]

(* Whoever else holds a block, its stage does not depend on the service.   *)
LEMMA StageKinds ==
  /\ \A s : StageAt(SvcMo, s) = s
  /\ \A o, s : o[1] # "svcMo" => StageAt(o, s) = StageWith[o[1]]
  /\ \A o, s, r : o # SvcMo => StageAt(o, s) = StageAt(o, r)
BY DEF StageAt, SvcMo

(* One block changes hands, or one block of the service its prospects.     *)
LEMMA StageStep ==
  ASSUME TypeOK, NEW b \in Blocks \cup {NULL}, NEW o, owner' = Move(owner, b, o),
         \A c \in Blocks : c # b /\ owner[c] = SvcMo => InService' = InService,
         b # NULL => \/ <<StageAt(owner[b], InService), StageAt(o, InService')>> \in Delivery!Lives
                    \/ StageAt(owner[b], InService) = StageAt(o, InService')
  PROVE  Delivery!Next \/ Stages' = Stages
<1> DEFINE after == Stages'
           s == InService'
<1>0. owner \in [Blocks -> Owners] /\ NULL \notin Blocks
  BY PointerType, HeapAssumption
<1>1. after = [c \in Blocks |-> StageAt(owner'[c], s)]
  BY DEF Stages
<1>2. ASSUME NEW c \in Blocks, c # b PROVE after[c] = Stages[c]
  <2>1. owner'[c] = owner[c]
    BY <1>0, <1>2 DEF Move
  <2>2. StageAt(owner[c], s) = StageAt(owner[c], InService)
    BY <1>2, StageKinds
  <2> QED
    BY <1>1, <2>1, <2>2 DEF Stages
<1>3. CASE b = NULL
  BY <1>0, <1>1, <1>2, <1>3 DEF Stages
<1>4. CASE b # NULL
  <2>1. after[b] = StageAt(o, s) /\ Stages[b] = StageAt(owner[b], InService)
    BY <1>0, <1>1, <1>4 DEF Stages, Move
  <2>2. CASE after[b] = Stages[b]
    BY <1>1, <1>2, <2>2 DEF Stages
  <2>3. CASE <<Stages[b], after[b]>> \in Delivery!Lives
    <3>1. /\ b \in Blocks /\ <<Stages[b], after[b]>> \in Delivery!Lives
          /\ \A c \in Blocks \ {b} : after[c] = Stages[c]
      BY <1>2, <1>4, <2>3
    <3> QED
      BY <3>1 DEF Stages, Delivery!Next, Delivery!Live
  <2> QED
    BY <1>4, <2>1, <2>2, <2>3
<1> QED
  BY <1>3, <1>4

(* A thread of the application: the service is where it was.               *)
LEMMA AppStages ==
  ASSUME TypeOK, Ownership, NEW t \in Apps, AppStep(t) \/ AppCall(t)
  PROVE  Delivery!Next \/ Stages' = Stages
<1>1. UNCHANGED <<cur, svcPc, session>>
  BY DEF AppStep, AppCall, SendUsed, SendPeekNone, SendMerge, SendPeek, SendPutback,
         SendEnqueue, RequestCheckBusy, RequestCheckEmpty, RequestPut, DestroyEvt,
         SendAlloc, RequestCall, WaitEvt, WaitRing, svcVars
<1>2. InService' = InService
  BY <1>1 DEF InService, HasPayload
<1>3. PICK b, o : AppMoves(b, o)
  BY AppStepMoves
<1>4. ASSUME b # NULL
      PROVE  <<StageAt(owner[b], InService), StageAt(o, InService)>> \in Delivery!Lives
  <2>1. <<owner[b][1], o[1]>> \in
          {<<"free", "msg">>, <<"moq", "peek">>, <<"evtq", "evt">>, <<"evt", "free">>}
            \cup {"msg", "peek"} \X {"moq", "leaked"}
    BY <1>3, <1>4 DEF AppMoves
  <2>2. owner[b][1] # "svcMo" /\ o[1] # "svcMo"
    BY <2>1
  <2>3. /\ StageAt(owner[b], InService) = StageWith[owner[b][1]]
        /\ StageAt(o, InService) = StageWith[o[1]]
    BY <2>2, StageKinds
  <2>4. <<StageWith[owner[b][1]], StageWith[o[1]]>> \in Delivery!Sent \cup Delivery!Handled
    BY <2>1 DEF StageWith, Delivery!Sent, Delivery!Handled
  <2> QED
    BY <2>3, <2>4 DEF Delivery!Lives
<1> QED
  BY <1>2, <1>3, <1>4, StageStep DEF AppMoves, MovesTo

(* A step of the service that moves no block but the one it carries.       *)
LEMMA SvcMoStage ==
  ASSUME TypeOK, Ownership, HoldsCur, NEW o, owner' = Move(owner, cur.data, o),
         cur.data # NULL => \/ <<InService, StageAt(o, InService')>> \in Delivery!Lives
                            \/ InService = StageAt(o, InService')
  PROVE  Delivery!Next \/ Stages' = Stages
<1>1. cur.data \in Blocks \cup {NULL}
  BY PointerType
<1>2. cur.data # NULL => owner[cur.data] = SvcMo
  BY DEF Ownership, OwnsLocal
<1>3. \A c \in Blocks : ~(c # cur.data /\ owner[c] = SvcMo)
  BY DEF HoldsCur
<1> QED
  BY <1>1, <1>2, <1>3, StageStep, StageKinds

(* A step of the service that moves a block while it carries none.         *)
LEMMA SvcOtherStage ==
  ASSUME TypeOK, HoldsCur, svcPc \notin {"set", "sbdix", "settle", "mo"},
         NEW b \in Blocks \cup {NULL}, NEW o, owner' = Move(owner, b, o),
         b # NULL => <<StageAt(owner[b], InService), StageAt(o, InService')>> \in Delivery!Lives
  PROVE  Delivery!Next \/ Stages' = Stages
<1>1. \A c \in Blocks : ~(c # b /\ owner[c] = SvcMo)
  BY NoneHeld
<1> QED
  BY <1>1, StageStep

(* The stages by name, for the steps below.                                *)
LEMMA StagesOf ==
  ASSUME NEW s
  PROVE  /\ StageAt(Free, s) = "none" /\ StageAt(InMoq, s) = "queued"
         /\ StageAt(InEvtq, s) = "told" /\ StageAt(SvcMt, s) = "reading"
         /\ StageAt(Leaked, s) = "lost" /\ StageAt(SvcMo, s) = s
BY DEF StageAt, StageWith, Free, InMoq, InEvtq, SvcMt, SvcMo, Leaked

LEMMA SvcStages ==
  ASSUME TypeOK, Ownership, HoldsCur, SvcStep \/ SvcUrc
  PROVE  Delivery!Next \/ Stages' = Stages
<1>0. /\ owner \in [Blocks -> Owners] /\ NULL \notin Blocks
      /\ cur \in MoMsg /\ mt \in Blocks \cup {NULL}
      /\ moq \in Seq(MoMsg) /\ \A e \in MoMsg : e.data \in Blocks \cup {NULL}
  BY PointerType, HeapAssumption DEF TypeOK
<1>1. CASE /\ UNCHANGED <<owner, cur, session>>
           /\ \/ svcPc' = svcPc
              \/ svcPc = "set" /\ svcPc' = "sbdix"
              \/ svcPc = "settle" /\ svcPc' = "mo"
              \/ svcPc \notin {"set", "sbdix", "settle", "mo"}
  <2>1. CASE svcPc \notin {"set", "sbdix", "settle", "mo"}
    <3>1. owner' = Move(owner, NULL, Free)
      BY <1>1 DEF Move
    <3> QED
      BY <2>1, <3>1, SvcOtherStage
  <2>2. CASE svcPc \in {"set", "sbdix", "settle", "mo"}
    <3>1. InService' = InService
      BY <1>1, <2>2 DEF InService, HasPayload
    <3>2. Stages' = Stages
      BY <1>1, <3>1 DEF Stages
    <3> QED
      BY <3>2
  <2> QED
    BY <2>1, <2>2
<1>2. CASE SvcBoot \/ SvcIdle \/ SvcSetOk \/ SvcUrc \/ SvcQuiet \/ SvcSettled \/ SvcRequestCheck
  BY <1>1, <1>2 DEF SvcBoot, SvcIdle, SvcSetOk, SvcUrc, SvcQuiet, SvcSettled, SvcRequestCheck
<1>3. CASE SvcTake
  <2> DEFINE b == Head(moq).data
  <2>1. /\ b \in Blocks \cup {NULL} /\ owner' = Move(owner, b, SvcMo)
        /\ b # NULL => owner[b] = InMoq
    BY <1>0, <1>3, HeadTailProperties, GetQueue DEF SvcTake, Ownership, OwnsLocal
  <2>2. InService' \in {"dialled", "void"}
    BY <1>3 DEF SvcTake, InService
  <2>3. b # NULL => <<StageAt(owner[b], InService), StageAt(SvcMo, InService')>> \in Delivery!Lives
    BY <2>1, <2>2, StagesOf DEF Delivery!Lives, Delivery!Dialled
  <2>4. svcPc \notin {"set", "sbdix", "settle", "mo"}
    BY <1>3 DEF SvcTake
  <2> HIDE DEF b
  <2> QED
    BY <2>1, <2>3, <2>4, SvcOtherStage
<1>4. CASE SvcSetFail
  <2>1. CASE HasPayload(cur)
    <3>1. owner' = Move(owner, cur.data, Free) /\ InService = "dialled"
      BY <1>4, <2>1 DEF SvcSetFail, InService
    <3> QED
      BY <3>1, StagesOf, SvcMoStage DEF Delivery!Lives, Delivery!Dialled
  <2>2. CASE ~HasPayload(cur)
    <3>1. owner' = Move(owner, cur.data, Leaked) /\ InService = "void"
      BY <1>4, <2>2 DEF SvcSetFail, InService
    <3> QED
      BY <3>1, StagesOf, SvcMoStage DEF Delivery!Lives, Delivery!Ended
  <2> QED
    BY <2>1, <2>2
<1>5. CASE SvcSbdix
  <2>1. /\ svcPc = "sbdix" /\ svcPc' = "settle" /\ owner' = owner
        /\ cur'.data = cur.data /\ cur'.len = cur.len
    BY <1>0, <1>5 DEF SvcSbdix, MoMsg
  <2>2. owner' = Move(owner, cur.data, SvcMo)
    BY <1>0, <2>1 DEF Move, Ownership, OwnsLocal
  <2>3. \/ InService = "void" /\ InService' = "void"
        \/ InService = "dialled" /\ InService' \in {"carried", "refused", "failed"}
    <3>1. HasPayload(cur)' = HasPayload(cur)
      BY <2>1 DEF HasPayload
    <3> QED
      BY <2>1, <3>1 DEF InService
  <2>4. \/ <<InService, StageAt(SvcMo, InService')>> \in Delivery!Lives
        \/ InService = StageAt(SvcMo, InService')
    BY <2>3, StagesOf DEF Delivery!Lives, Delivery!Dialled
  <2> QED
    BY <2>2, <2>4, SvcMoStage
<1>6. CASE SvcSessionFailed \/ SvcNoPayload
  <2>1. owner' = Move(owner, cur.data, Leaked) /\ InService \in {"failed", "void"}
    BY <1>6 DEF SvcSessionFailed, SvcNoPayload, InService
  <2>2. <<InService, StageAt(Leaked, InService')>> \in Delivery!Lives
    BY <2>1, StagesOf DEF Delivery!Lives, Delivery!Ended
  <2> QED
    BY <2>1, <2>2, SvcMoStage
<1>7. CASE SvcMoSent
  <2>1. owner' = Move(owner, cur.data, InEvtq) \/ owner' = Move(owner, cur.data, Free)
    BY <1>7, NotifyMoves DEF SvcMoSent
  <2>2. InService = "carried"
    BY <1>7 DEF SvcMoSent, SentByIsu, InService, HoldsCur
  <2> QED
    BY <2>1, <2>2, StagesOf, SvcMoStage DEF Delivery!Lives, Delivery!Ended
<1>8. CASE SvcMoRetry \/ SvcMoGiveUp
  <2>1. OneRetryLess(cur).data = cur.data
    BY <1>0 DEF OneRetryLess, MoMsg
  <2>2. \E o \in {Free, InMoq, Leaked} : owner' = Move(owner, cur.data, o)
    BY <1>8, <2>1, EnqueueMoves DEF SvcMoRetry, SvcMoGiveUp, NotifyErr
  <2>3. InService = "refused"
    BY <1>8 DEF SvcMoRetry, SvcMoGiveUp, SentByIsu, InService, HoldsCur
  <2>4. ASSUME NEW o \in {Free, InMoq, Leaked}
        PROVE  <<InService, StageAt(o, InService')>> \in Delivery!Lives
    BY <2>3, StagesOf DEF Delivery!Lives, Delivery!Ended
  <2> QED
    BY <2>2, <2>4, SvcMoStage
<1>9. CASE SvcMtSkip \/ SvcRequestPut
  <2>1. RequestMsg(FALSE).data = NULL
    BY DEF RequestMsg, NoMsg
  <2>2. owner' = Move(owner, NULL, Free)
    BY <1>9, <2>1, EnqueueMoves DEF SvcMtSkip, SvcRequestPut, PutRequest, Move
  <2>3. svcPc \notin {"set", "sbdix", "settle", "mo"}
    BY <1>9 DEF SvcMtSkip, SvcRequestPut
  <2> QED
    BY <2>2, <2>3, SvcOtherStage
<1>10. CASE SvcMtAlloc
  <2>1. PICK b \in FreeBlocks : owner' = Move(owner, b, SvcMt)
    BY <1>10 DEF SvcMtAlloc
  <2>2. b \in Blocks /\ owner[b] = Free /\ svcPc \notin {"set", "sbdix", "settle", "mo"}
    BY <1>10 DEF FreeBlocks, SvcMtAlloc
  <2>3. <<StageAt(owner[b], InService), StageAt(SvcMt, InService')>> \in Delivery!Lives
    BY <2>2, StagesOf DEF Delivery!Lives, Delivery!Received
  <2> QED
    BY <2>1, <2>2, <2>3, SvcOtherStage
<1>11. CASE SvcMtRead \/ SvcMtReadFail
  <2>1. \E o \in {InEvtq, Free} : owner' = Move(owner, mt, o)
    BY <1>11, NotifyMoves DEF SvcMtRead, SvcMtReadFail
  <2>2. /\ svcPc \notin {"set", "sbdix", "settle", "mo"}
        /\ mt # NULL => owner[mt] = SvcMt
    BY <1>11 DEF SvcMtRead, SvcMtReadFail, Ownership, OwnsLocal
  <2>3. mt # NULL => \A o \in {InEvtq, Free} :
          <<StageAt(owner[mt], InService), StageAt(o, InService')>> \in Delivery!Lives
    BY <2>2, StagesOf DEF Delivery!Lives, Delivery!Received
  <2> QED
    BY <1>0, <2>1, <2>2, <2>3, SvcOtherStage
<1> QED
  BY <1>2, <1>3, <1>4, <1>5, <1>6, <1>7, <1>8, <1>9, <1>10, <1>11 DEF SvcStep

(***************************************************************************)
(* The theorems.                                                           *)
(***************************************************************************)
(* The service carries one message at a time, the one it took, and looks   *)
(* at a session's result only when there is one.                           *)
THEOREM ServiceHolds == Spec => []HoldsCur
<1>1. Init => HoldsCur
  BY OwnersDistinct DEF Init, HoldsCur
<1>2. TypeOK /\ Ownership /\ HoldsCur /\ [Next]_vars => HoldsCur'
  <2> SUFFICES ASSUME TypeOK, Ownership, HoldsCur, [Next]_vars
               PROVE  HoldsCur'
    OBVIOUS
  <2>1. CASE SvcStep \/ SvcUrc
    BY <2>1, SvcHolds
  <2>2. ASSUME NEW t \in Apps, AppStep(t) \/ AppCall(t)
        PROVE  HoldsCur'
    <3>1. UNCHANGED <<cur, svcPc, session>>
      BY <2>2 DEF AppStep, AppCall, SendUsed, SendPeekNone, SendMerge, SendPeek,
                  SendPutback, SendEnqueue, RequestCheckBusy, RequestCheckEmpty,
                  RequestPut, DestroyEvt, SendAlloc, RequestCall, WaitEvt, WaitRing, svcVars
    <3>2. PICK b, o : AppMoves(b, o)
      BY <2>2, AppStepMoves
    <3> QED
      BY <3>1, <3>2, AppHolds
  <2>3. CASE UNCHANGED vars
    BY <2>3 DEF vars, HoldsCur
  <2> QED
    BY <2>1, <2>2, <2>3 DEF Next
<1> QED
  BY <1>1, <1>2, TypeCorrect, OwnershipHolds, PTL DEF Spec

(* The service implements SbdDelivery: whatever the threads do, a carried  *)
(* message is never queued again, a refused one is never told as sent, and *)
(* the only messages that disappear are those of the code's error paths.   *)
THEOREM ImplementsDelivery == Spec => DeliveryKept
<1>1. Init => Delivery!Init
  <2> SUFFICES ASSUME Init PROVE Stages = [b \in Blocks |-> "none"]
    BY DEF Stages, Delivery!Init
  <2> QED
    BY StagesOf DEF Init, Stages
<1>2. TypeOK /\ Ownership /\ HoldsCur /\ [Next]_vars => [Delivery!Next]_Stages
  <2> SUFFICES ASSUME TypeOK, Ownership, HoldsCur, [Next]_vars
               PROVE  Delivery!Next \/ Stages' = Stages
    OBVIOUS
  <2>1. CASE SvcStep \/ SvcUrc
    BY <2>1, SvcStages
  <2>2. CASE \E t \in Apps : AppStep(t) \/ AppCall(t)
    BY <2>2, AppStages
  <2>3. CASE UNCHANGED vars
    BY <2>3 DEF vars, Stages, StageAt, InService, HasPayload
  <2> QED
    BY <2>1, <2>2, <2>3 DEF Next
<1> QED
  BY <1>1, <1>2, TypeCorrect, OwnershipHolds, ServiceHolds, PTL
     DEF Spec, DeliveryKept, Delivery!Spec, Stages

(***************************************************************************)
(* Who holds a block.                                                      *)
(***************************************************************************)
(* The one who must free block c has a pointer to it; nobody has to free   *)
(* the others.                                                             *)
Holds(o, c) ==
  \/ o \in {Free, Leaked}
  \/ o = InMoq /\ InQueue(c, moq)
  \/ o = InEvtq /\ InQueue(c, evtq)
  \/ o = SvcMo /\ cur.data = c
  \/ o = SvcMt /\ mt = c
  \/ \E t \in Apps : \/ o = ByMsg(t) /\ appMsg[t].data = c
                     \/ o = ByPeek(t) /\ appPeek[t].data = c
                     \/ o = ByEvt(t) /\ appEvt[t].data = c

Held == \A c \in Blocks : Holds(owner[c], c)

LEMMA HeldMeansNoOtherLeak == Held => NoOtherLeak
BY OwnersDistinct DEF Held, Holds, NoOtherLeak

(* Nobody drops a pointer to a block other than b.                         *)
KeepsAllBut(b) == \A c \in Blocks \ {b} : \A o : Holds(o, c) => Holds(o, c)'

(* A step that hands b from one holder to the next.                        *)
HandsOver(b, p) ==
  /\ b \in Blocks \cup {NULL}
  /\ owner' = Move(owner, b, p)
  /\ KeepsAllBut(b)
  /\ b # NULL => Holds(p, b)'

LEMMA HandOver ==
  ASSUME TypeOK, NEW b, NEW p, HandsOver(b, p), Held
  PROVE  Held'
<1> SUFFICES ASSUME NEW c \in Blocks PROVE Holds(owner[c], c)'
  BY DEF Held
<1>0. owner \in [Blocks -> Owners] /\ NULL \notin Blocks
  BY PointerType, HeapAssumption
<1>1. CASE c = b
  <2>1. owner'[c] = p /\ Holds(p, c)'
    BY <1>0, <1>1 DEF HandsOver, Move
  <2> QED
    BY <2>1 DEF Holds
<1>2. CASE c # b
  <2>1. owner'[c] = owner[c]
    BY <1>0, <1>2 DEF HandsOver, Move
  <2>2. \A o : Holds(o, c) => Holds(o, c)'
    BY <1>2 DEF HandsOver, KeepsAllBut
  <2> QED
    BY <2>1, <2>2 DEF Held, Holds
<1> QED
  BY <1>1, <1>2

(***************************************************************************)
(* Queues.                                                                 *)
(***************************************************************************)
LEMMA PutIn ==
  ASSUME NEW S, NEW q \in Seq(S), NEW m \in S
  PROVE  InQueue(m.data, Append(q, m)) /\ \A c : InQueue(c, q) => InQueue(c, Append(q, m))
<1>1. /\ Len(Append(q, m)) = Len(q) + 1 /\ Len(q) \in Nat
      /\ \A i \in 1..Len(q) : Append(q, m)[i] = q[i]
      /\ Append(q, m)[Len(q) + 1] = m
  BY AppendProperties, LenProperties
<1>2. Len(q) + 1 \in 1..Len(Append(q, m)) /\ \A i \in 1..Len(q) : i \in 1..Len(Append(q, m))
  BY <1>1
<1> QED
  BY <1>1, <1>2 DEF InQueue

LEMMA GetOut ==
  ASSUME NEW S, NEW q \in Seq(S), q # <<>>
  PROVE  \A c : InQueue(c, q) /\ c # Head(q).data => InQueue(c, Tail(q))
<1>1. /\ Head(q) = q[1] /\ Len(q) \in Nat /\ Len(Tail(q)) = Len(q) - 1
      /\ \A i \in 1..Len(Tail(q)) : Tail(q)[i] = q[i + 1]
  BY HeadTailProperties, LenProperties
<1> SUFFICES ASSUME NEW c, NEW i \in 1..Len(q), q[i].data = c, c # q[1].data
             PROVE  InQueue(c, Tail(q))
  BY <1>1 DEF InQueue
<1>2. i - 1 \in 1..Len(Tail(q)) /\ (i - 1) + 1 = i
  BY <1>1
<1> QED
  BY <1>1, <1>2 DEF InQueue

(* What the queue operations hold on to.                                   *)
LEMMA EnqueueHolds ==
  ASSUME TypeOK, NEW m \in MoMsg, EnqueueMoMsg(m)
  PROVE  /\ \A c : InQueue(c, moq) => InQueue(c, moq')
         /\ \/ owner' = Move(owner, m.data, InMoq) /\ InQueue(m.data, moq')
            \/ owner' = Move(owner, m.data, Leaked)
<1>1. moq \in Seq(MoMsg)
  BY DEF TypeOK
<1> QED
  BY <1>1, PutIn DEF EnqueueMoMsg

LEMMA PutEvtHolds ==
  ASSUME TypeOK, NEW e \in Evt, PutEvt(e)
  PROVE  /\ \A c : InQueue(c, evtq) => InQueue(c, evtq')
         /\ EvtqHasRoom => InQueue(e.data, evtq')
<1>1. evtq \in Seq(Evt)
  BY DEF TypeOK
<1> QED
  BY <1>1, PutIn DEF PutEvt

LEMMA NotifyHolds ==
  ASSUME TypeOK, NEW id \in EvtIds, NEW b \in Blocks \cup {NULL},
         NotifyMsg(id, b) \/ NotifyErr(b)
  PROVE  /\ \A c : InQueue(c, evtq) => InQueue(c, evtq')
         /\ \/ owner' = Move(owner, b, InEvtq) /\ InQueue(b, evtq')
            \/ owner' = Move(owner, b, Free)
<1>1. [id |-> id, data |-> b] \in Evt /\ NoEvt \in Evt
  BY DataType DEF Evt
<1> QED
  BY <1>1, PutEvtHolds DEF NotifyMsg, NotifyErr

(***************************************************************************)
(* Empty hands.                                                            *)
(***************************************************************************)
(* Only the events "sent" and "received" carry a block.                    *)
Carries(e) == e.data # NULL => e.id \in {"MO", "MT"}

(* A thread takes a pointer only into a variable that holds none.          *)
SvcHands ==
  /\ svcPc \notin {"set", "sbdix", "settle", "mo"} => cur.data = NULL
  /\ svcPc # "read" => mt = NULL
AppHands(t) ==
  /\ appPc[t] \in {"idle", "handle", "reqcheck", "reqput"} => appMsg[t].data = NULL
  /\ appPc[t] # "putback" => appPeek[t].data = NULL
  /\ appPc[t] # "handle" => appEvt[t].data = NULL
  /\ Carries(appEvt[t])
Hands ==
  /\ SvcHands
  /\ \A t \in Apps : AppHands(t)
  /\ \A i \in 1..Len(evtq) : Carries(evtq[i])

AllCarry(q) == \A i \in 1..Len(q) : Carries(q[i])

LEMMA PutCarries ==
  ASSUME TypeOK, AllCarry(evtq), NEW e \in Evt, Carries(e), PutEvt(e)
  PROVE  AllCarry(evtq')
<1>1. /\ evtq \in Seq(Evt) /\ Len(evtq) \in Nat
      /\ Len(Append(evtq, e)) = Len(evtq) + 1 /\ Append(evtq, e)[Len(evtq) + 1] = e
      /\ \A i \in 1..Len(evtq) : Append(evtq, e)[i] = evtq[i]
  BY AppendProperties, LenProperties DEF TypeOK
<1>2. \A i \in 1..Len(evtq) + 1 : i \in 1..Len(evtq) \/ i = Len(evtq) + 1
  BY <1>1
<1>3. AllCarry(Append(evtq, e))
  BY <1>1, <1>2 DEF AllCarry
<1> QED
  BY <1>3 DEF PutEvt

LEMMA GetCarries ==
  ASSUME TypeOK, AllCarry(evtq), evtq # <<>>
  PROVE  Carries(Head(evtq)) /\ AllCarry(Tail(evtq))
<1>1. /\ evtq \in Seq(Evt) /\ Len(evtq) \in Nat /\ Len(evtq) > 0
      /\ Head(evtq) = evtq[1] /\ Len(Tail(evtq)) = Len(evtq) - 1
      /\ \A i \in 1..Len(Tail(evtq)) : Tail(evtq)[i] = evtq[i + 1]
  BY HeadTailProperties, LenProperties, EmptySeq DEF TypeOK
<1>2. 1 \in 1..Len(evtq) /\ \A i \in 1..Len(Tail(evtq)) : i + 1 \in 1..Len(evtq)
  BY <1>1
<1> QED
  BY <1>1, <1>2 DEF AllCarry

LEMMA SvcHandsKept ==
  ASSUME TypeOK, Hands, SvcStep \/ SvcUrc
  PROVE  Hands'
<1>0. /\ cur \in MoMsg /\ moq \in Seq(MoMsg) /\ NoMsg.data = NULL
      /\ cur.data \in Blocks \cup {NULL} /\ mt \in Blocks \cup {NULL}
  BY PointerType DEF TypeOK, NoMsg
<1>1. \A t \in Apps : AppHands(t)'
  BY DEF Hands, AppHands, SvcStep, SvcUrc, SvcBoot, SvcIdle, SvcTake, SvcSetOk, SvcSetFail,
         SvcSbdix, SvcQuiet, SvcSettled, SvcSessionFailed, SvcNoPayload, SvcMoSent,
         SvcMoRetry, SvcMoGiveUp, SvcMtSkip, SvcMtAlloc, SvcMtRead, SvcMtReadFail,
         SvcRequestCheck, SvcRequestPut, AfterMo, AfterMt, appVars
<1>2. AllCarry(evtq')
  <2>1. NoEvt \in Evt /\ RingEvt \in Evt /\ Carries(NoEvt) /\ Carries(RingEvt)
    BY DataType DEF Carries, NoEvt, RingEvt
  <2>2. ASSUME NEW id \in {"MO", "MT"}, NEW b \in Blocks \cup {NULL},
               NotifyMsg(id, b) \/ NotifyErr(b)
        PROVE  AllCarry(evtq')
    <3>1. [id |-> id, data |-> b] \in Evt /\ Carries([id |-> id, data |-> b])
      BY DEF Carries, Evt, EvtIds
    <3> QED
      BY <2>1, <2>2, <3>1, PutCarries DEF NotifyMsg, NotifyErr, Hands, AllCarry
  <2>3. CASE SvcUrc
    BY <2>1, <2>3, PutCarries DEF SvcUrc, Hands, AllCarry
  <2>4. CASE SvcMoSent \/ SvcMoGiveUp \/ SvcMtRead \/ SvcMtReadFail
    BY <1>0, <2>2, <2>4 DEF SvcMoSent, SvcMoGiveUp, SvcMtRead, SvcMtReadFail
  <2>5. CASE evtq' = evtq
    BY <2>5 DEF Hands, AllCarry
  <2> QED
    BY <2>3, <2>4, <2>5 DEF SvcStep, SvcBoot, SvcIdle, SvcTake, SvcSetOk, SvcSetFail,
       SvcSbdix, SvcQuiet, SvcSettled, SvcSessionFailed, SvcNoPayload, SvcMoRetry,
       SvcMtSkip, SvcMtAlloc, SvcRequestCheck, SvcRequestPut
<1>3. SvcHands'
  <2>1. CASE SvcTake
    BY <2>1 DEF SvcTake, Hands, SvcHands
  <2>2. CASE SvcSbdix
    BY <1>0, <2>2 DEF SvcSbdix, Hands, SvcHands, MoMsg
  <2>3. CASE SvcSetFail \/ SvcSessionFailed \/ SvcNoPayload \/ SvcMoSent \/ SvcMoRetry
             \/ SvcMoGiveUp
    <3>1. cur' = NoMsg /\ svcPc \in {"set", "settle", "mo"} /\ mt' = mt /\ svcPc' # "read"
      BY <2>3 DEF SvcSetFail, SvcSessionFailed, SvcNoPayload, SvcMoSent, SvcMoRetry,
                  SvcMoGiveUp, AfterMo
    <3> QED
      BY <1>0, <3>1 DEF Hands, SvcHands
  <2>4. CASE SvcMtAlloc \/ SvcMtRead \/ SvcMtReadFail
    BY <2>4 DEF SvcMtAlloc, SvcMtRead, SvcMtReadFail, AfterMt, Hands, SvcHands
  <2>5. CASE SvcSetOk \/ SvcSettled \/ SvcUrc
    BY <2>5 DEF SvcSetOk, SvcSettled, SvcUrc, Hands, SvcHands
  <2>6. CASE SvcBoot \/ SvcIdle \/ SvcQuiet \/ SvcMtSkip \/ SvcRequestCheck \/ SvcRequestPut
    BY <2>6 DEF SvcBoot, SvcIdle, SvcQuiet, SvcMtSkip, SvcRequestCheck, SvcRequestPut,
                AfterMt, Hands, SvcHands
  <2> QED
    BY <2>1, <2>2, <2>3, <2>4, <2>5, <2>6 DEF SvcStep
<1> QED
  BY <1>1, <1>2, <1>3 DEF Hands, AllCarry

LEMMA AppHandsKept ==
  ASSUME TypeOK, Hands, NEW t \in Apps, AppStep(t) \/ AppCall(t)
  PROVE  Hands'
<1>0. /\ appPc \in [Apps -> AppPcs] /\ appMsg \in [Apps -> MoMsg]
      /\ appPeek \in [Apps -> MoMsg] /\ appEvt \in [Apps -> Evt]
      /\ NoMsg.data = NULL /\ NoEvt.data = NULL
      /\ \A alert \in BOOLEAN : RequestMsg(alert).data = NULL
      /\ \A u \in Apps : AppHands(u)
  BY DEF TypeOK, NoMsg, NoEvt, RequestMsg, Hands
<1> USE DEF AtApp, svcVars
<1>1. SvcHands'
  BY DEF Hands, SvcHands, AppStep, AppCall, SendAlloc, SendUsed, SendPeekNone, SendMerge,
         SendPeek, SendPutback, SendEnqueue, RequestCall, RequestCheckBusy,
         RequestCheckEmpty, RequestPut, WaitEvt, WaitRing, DestroyEvt
<1>2. AllCarry(evtq')
  <2>1. CASE evtq # <<>> /\ evtq' = Tail(evtq)
    BY <2>1, GetCarries DEF Hands, AllCarry
  <2>2. CASE evtq' = evtq
    BY <2>2 DEF Hands, AllCarry
  <2> QED
    BY <2>1, <2>2
       DEF AppStep, AppCall, SendAlloc, SendUsed, SendPeekNone, SendMerge,
           SendPeek, SendPutback, SendEnqueue, RequestCall, RequestCheckBusy,
           RequestCheckEmpty, RequestPut, WaitEvt, WaitRing, DestroyEvt
<1>3. ASSUME NEW u \in Apps, u # t PROVE AppHands(u)'
  <2>1. /\ appPc'[u] = appPc[u] /\ appMsg'[u] = appMsg[u]
        /\ appPeek'[u] = appPeek[u] /\ appEvt'[u] = appEvt[u]
    BY <1>0, <1>3
       DEF AppStep, AppCall, SendAlloc, SendUsed, SendPeekNone, SendMerge,
           SendPeek, SendPutback, SendEnqueue, RequestCall, RequestCheckBusy,
           RequestCheckEmpty, RequestPut, WaitEvt, WaitRing, DestroyEvt
  <2> QED
    BY <1>0, <2>1 DEF AppHands
<1>4. AppHands(t)'
  <2> USE DEF AppHands
  <2>1. CASE SendAlloc(t) \/ SendUsed(t) \/ SendPeekNone(t)
    BY <1>0, <2>1 DEF SendAlloc, SendUsed, SendPeekNone
  <2>2. CASE SendMerge(t) \/ SendPeek(t) \/ SendPutback(t)
    BY <1>0, <2>2 DEF SendMerge, SendPeek, SendPutback
  <2>3. CASE SendEnqueue(t) \/ RequestPut(t) \/ RequestCheckBusy(t) \/ RequestCheckEmpty(t)
             \/ \E alert \in BOOLEAN : RequestCall(t, alert)
    BY <1>0, <2>3 DEF SendEnqueue, RequestPut, RequestCheckBusy, RequestCheckEmpty, RequestCall
  <2>4. CASE WaitEvt(t)
    <3>1. Carries(Head(evtq))
      BY <2>4, GetCarries DEF WaitEvt, Hands, AllCarry
    <3> QED
      BY <1>0, <2>4, <3>1 DEF WaitEvt
  <2>5. CASE WaitRing(t) \/ DestroyEvt(t)
    BY <1>0, <2>5 DEF WaitRing, DestroyEvt, Carries
  <2> QED
    BY <2>1, <2>2, <2>3, <2>4, <2>5 DEF AppStep, AppCall
<1> QED
  BY <1>1, <1>2, <1>3, <1>4 DEF Hands, AllCarry

(***************************************************************************)
(* Every step hands one block over, or none.                               *)
(***************************************************************************)
LEMMA NothingMoves ==
  ASSUME UNCHANGED owner, KeepsAllBut(NULL)
  PROVE  HandsOver(NULL, Free)
BY DEF HandsOver, Move

LEMMA SvcHandsOver ==
  ASSUME TypeOK, Hands, SvcStep \/ SvcUrc
  PROVE  \E b, p : HandsOver(b, p)
<1>0. /\ cur \in MoMsg /\ moq \in Seq(MoMsg) /\ NULL \notin Blocks
      /\ cur.data \in Blocks \cup {NULL} /\ mt \in Blocks \cup {NULL}
      /\ RequestMsg(FALSE) \in MoMsg /\ RequestMsg(FALSE).data = NULL
      /\ NoEvt \in Evt /\ RingEvt \in Evt
  BY PointerType, HeapAssumption, DataType DEF TypeOK, RequestMsg, NoMsg
<1>1. UNCHANGED <<appMsg, appPeek, appEvt>>
  BY DEF SvcStep, SvcUrc, SvcBoot, SvcIdle, SvcTake, SvcSetOk, SvcSetFail,
         SvcSbdix, SvcQuiet, SvcSettled, SvcSessionFailed, SvcNoPayload, SvcMoSent,
         SvcMoRetry, SvcMoGiveUp, SvcMtSkip, SvcMtAlloc, SvcMtRead, SvcMtReadFail,
         SvcRequestCheck, SvcRequestPut, AfterMo, AfterMt, appVars
<1>2. CASE \/ SvcBoot \/ SvcIdle \/ SvcSetOk \/ SvcSbdix \/ SvcQuiet \/ SvcSettled
           \/ SvcMtSkip \/ SvcRequestCheck \/ SvcUrc
  <2>1. UNCHANGED <<owner, moq, mt>> /\ cur'.data = cur.data
    BY <1>0, <1>2 DEF SvcBoot, SvcIdle, SvcSetOk, SvcSbdix, SvcQuiet, SvcSettled,
                      SvcMtSkip, SvcRequestCheck, SvcUrc, AfterMt, MoMsg
  <2>2. \A c : InQueue(c, evtq) => InQueue(c, evtq')
    BY <1>0, <1>2, PutEvtHolds
       DEF SvcBoot, SvcIdle, SvcSetOk, SvcSbdix, SvcQuiet, SvcSettled,
           SvcMtSkip, SvcRequestCheck, SvcUrc
  <2>3. KeepsAllBut(NULL)
    BY <1>1, <2>1, <2>2 DEF KeepsAllBut, Holds
  <2> QED
    BY <2>1, <2>3, NothingMoves
<1>3. CASE SvcTake
  <2>0. PICK b \in Blocks \cup {NULL} : b = Head(moq).data
    BY <1>0, <1>3, PointerType, HeadTailProperties DEF SvcTake
  <2>1. /\ owner' = Move(owner, b, SvcMo) /\ cur'.data = b
        /\ cur.data = NULL /\ UNCHANGED <<evtq, mt>>
    BY <1>3, <2>0 DEF SvcTake, Hands, SvcHands
  <2>2. \A c : InQueue(c, moq) /\ c # b => InQueue(c, moq')
    BY <1>0, <1>3, <2>0, GetOut DEF SvcTake
  <2>3. KeepsAllBut(b)
    BY <1>0, <1>1, <2>1, <2>2 DEF KeepsAllBut, Holds
  <2>4. Holds(SvcMo, b)'
    BY <2>1 DEF Holds
  <2> QED
    BY <2>1, <2>3, <2>4 DEF HandsOver
<1>4. CASE SvcSetFail \/ SvcSessionFailed \/ SvcNoPayload
  <2>0. PICK b \in Blocks \cup {NULL} : b = cur.data
    BY <1>0
  <2>1. /\ UNCHANGED <<evtq, moq, mt>>
        /\ \E p \in {Free, Leaked} : owner' = Move(owner, b, p)
    BY <2>0, <1>4 DEF SvcSetFail, SvcSessionFailed, SvcNoPayload, AfterMo
  <2>2. KeepsAllBut(b)
    BY <2>0, <1>1, <2>1 DEF KeepsAllBut, Holds
  <2>3. \A p \in {Free, Leaked} : Holds(p, b)'
    BY DEF Holds
  <2> QED
    BY <1>0, <2>1, <2>2, <2>3 DEF HandsOver
<1>5. CASE SvcMoSent \/ SvcMoGiveUp
  <2>0. PICK b \in Blocks \cup {NULL} : b = cur.data
    BY <1>0
  <2>1. /\ \A c : InQueue(c, evtq) => InQueue(c, evtq')
        /\ \/ owner' = Move(owner, b, InEvtq) /\ InQueue(b, evtq')
           \/ owner' = Move(owner, b, Free)
    BY <2>0, <1>0, <1>5, NotifyHolds DEF SvcMoSent, SvcMoGiveUp, EvtIds
  <2>2. UNCHANGED <<moq, mt>>
    BY <1>5 DEF SvcMoSent, SvcMoGiveUp, AfterMo
  <2>3. KeepsAllBut(b)
    BY <2>0, <1>1, <2>1, <2>2 DEF KeepsAllBut, Holds
  <2>4. (InQueue(b, evtq') => Holds(InEvtq, b)') /\ Holds(Free, b)'
    BY DEF Holds
  <2> QED
    BY <1>0, <2>1, <2>3, <2>4 DEF HandsOver
<1>6. CASE SvcMoRetry
  <2>0. PICK b \in Blocks \cup {NULL} : b = cur.data
    BY <1>0
  <2>1. OneRetryLess(cur) \in MoMsg /\ OneRetryLess(cur).data = cur.data
    BY <1>0, <1>6, MsgType DEF SvcMoRetry, OneRetryLess, MoMsg
  <2>2. /\ \A c : InQueue(c, moq) => InQueue(c, moq')
        /\ \/ owner' = Move(owner, b, InMoq) /\ InQueue(b, moq')
           \/ owner' = Move(owner, b, Leaked)
    BY <2>0, <1>6, <2>1, EnqueueHolds DEF SvcMoRetry
  <2>3. UNCHANGED <<evtq, mt>>
    BY <1>6 DEF SvcMoRetry, AfterMo
  <2>4. KeepsAllBut(b)
    BY <2>0, <1>1, <2>2, <2>3 DEF KeepsAllBut, Holds
  <2>5. (InQueue(b, moq') => Holds(InMoq, b)') /\ Holds(Leaked, b)'
    BY DEF Holds
  <2> QED
    BY <1>0, <2>2, <2>4, <2>5 DEF HandsOver
<1>7. CASE SvcMtAlloc
  <2>1. PICK b \in FreeBlocks : mt' = b /\ owner' = Move(owner, b, SvcMt)
    BY <1>7 DEF SvcMtAlloc
  <2>2. b \in Blocks /\ mt = NULL /\ UNCHANGED <<moq, evtq, cur>>
    BY <1>7 DEF SvcMtAlloc, FreeBlocks, Hands, SvcHands
  <2>3. KeepsAllBut(b)
    BY <1>0, <1>1, <2>1, <2>2 DEF KeepsAllBut, Holds
  <2>4. Holds(SvcMt, b)'
    BY <2>1 DEF Holds
  <2> QED
    BY <2>1, <2>2, <2>3, <2>4 DEF HandsOver
<1>8. CASE SvcMtRead \/ SvcMtReadFail
  <2>0. PICK b \in Blocks \cup {NULL} : b = mt
    BY <1>0
  <2>1. /\ \A c : InQueue(c, evtq) => InQueue(c, evtq')
        /\ \/ owner' = Move(owner, b, InEvtq) /\ InQueue(b, evtq')
           \/ owner' = Move(owner, b, Free)
    BY <2>0, <1>0, <1>8, NotifyHolds DEF SvcMtRead, SvcMtReadFail, EvtIds
  <2>2. UNCHANGED <<moq, cur>>
    BY <1>8 DEF SvcMtRead, SvcMtReadFail, AfterMt
  <2>3. KeepsAllBut(b)
    BY <2>0, <1>1, <2>1, <2>2 DEF KeepsAllBut, Holds
  <2>4. (InQueue(b, evtq') => Holds(InEvtq, b)') /\ Holds(Free, b)'
    BY DEF Holds
  <2> QED
    BY <1>0, <2>1, <2>3, <2>4 DEF HandsOver
<1>9. CASE SvcRequestPut
  <2>1. /\ \A c : InQueue(c, moq) => InQueue(c, moq')
        /\ owner' = owner
    BY <1>0, <1>9, EnqueueHolds DEF SvcRequestPut, PutRequest, Move
  <2>2. UNCHANGED <<evtq, cur, mt>>
    BY <1>9 DEF SvcRequestPut
  <2>3. KeepsAllBut(NULL)
    BY <1>1, <2>1, <2>2 DEF KeepsAllBut, Holds
  <2> QED
    BY <2>1, <2>3, NothingMoves
<1> QED
  BY <1>2, <1>3, <1>4, <1>5, <1>6, <1>7, <1>8, <1>9 DEF SvcStep

(* An application thread keeps everything but b, when its own pointers and *)
(* the queues do.                                                          *)
LEMMA AppKeeps ==
  ASSUME TypeOK, NEW t \in Apps, NEW b, NULL \notin Blocks,
         UNCHANGED <<cur, mt>>,
         \A u \in Apps \ {t} : /\ appMsg'[u] = appMsg[u] /\ appPeek'[u] = appPeek[u]
                               /\ appEvt'[u] = appEvt[u],
         appMsg[t].data \in {b, NULL} \/ appMsg'[t].data = appMsg[t].data,
         appPeek[t].data \in {b, NULL} \/ appPeek'[t].data = appPeek[t].data,
         appEvt[t].data \in {b, NULL} \/ appEvt'[t].data = appEvt[t].data,
         \A c \in Blocks : InQueue(c, moq) /\ c # b => InQueue(c, moq'),
         \A c \in Blocks : InQueue(c, evtq) /\ c # b => InQueue(c, evtq')
  PROVE  KeepsAllBut(b)
<1> SUFFICES ASSUME NEW c \in Blocks, c # b, NEW o, Holds(o, c) PROVE Holds(o, c)'
  BY DEF KeepsAllBut
<1>1. ASSUME NEW u \in Apps
      PROVE  /\ appMsg[u].data = c => appMsg'[u].data = c
             /\ appPeek[u].data = c => appPeek'[u].data = c
             /\ appEvt[u].data = c => appEvt'[u].data = c
  OBVIOUS
<1> QED
  BY <1>1 DEF Holds

LEMMA AppHandsOver ==
  ASSUME TypeOK, Hands, NEW t \in Apps, AppStep(t) \/ AppCall(t)
  PROVE  \E b, p : HandsOver(b, p)
<1>0. /\ appPc \in [Apps -> AppPcs] /\ appMsg \in [Apps -> MoMsg]
      /\ appPeek \in [Apps -> MoMsg] /\ appEvt \in [Apps -> Evt]
      /\ moq \in Seq(MoMsg) /\ evtq \in Seq(Evt) /\ NULL \notin Blocks
      /\ AppHands(t)
  BY HeapAssumption DEF TypeOK, Hands
<1>p. /\ appMsg[t].data \in Blocks \cup {NULL} /\ appPeek[t].data \in Blocks \cup {NULL}
      /\ appEvt[t].data \in Blocks \cup {NULL}
  BY PointerType
<1> USE DEF AtApp
<1>1. /\ UNCHANGED <<cur, mt>>
      /\ \A u \in Apps \ {t} : /\ appMsg'[u] = appMsg[u] /\ appPeek'[u] = appPeek[u]
                               /\ appEvt'[u] = appEvt[u]
  BY <1>0 DEF AppStep, AppCall, SendAlloc, SendUsed, SendPeekNone, SendMerge,
           SendPeek, SendPutback, SendEnqueue, RequestCall, RequestCheckBusy,
           RequestCheckEmpty, RequestPut, WaitEvt, WaitRing, DestroyEvt, svcVars
<1>2. CASE SendAlloc(t)
  <2>1. PICK b \in FreeBlocks : /\ appMsg'[t].data = b
                                /\ owner' = Move(owner, b, ByMsg(t))
    BY <1>0, <1>2 DEF SendAlloc
  <2>2. /\ b \in Blocks /\ appMsg[t].data = NULL
        /\ UNCHANGED <<moq, evtq, appPeek, appEvt>>
    BY <1>0, <1>2 DEF SendAlloc, FreeBlocks, AppHands
  <2>3. KeepsAllBut(b)
    BY <1>0, <1>1, <2>2, AppKeeps
  <2>4. Holds(ByMsg(t), b)'
    BY <2>1 DEF Holds
  <2> QED
    BY <2>1, <2>2, <2>3, <2>4 DEF HandsOver
<1>3. CASE SendPeek(t)
  <2>0. PICK b \in Blocks \cup {NULL} : b = Head(moq).data
    BY <1>0, <1>3, PointerType, HeadTailProperties DEF SendPeek
  <2>1. /\ appPeek'[t].data = b /\ owner' = Move(owner, b, ByPeek(t))
        /\ appPeek[t].data = NULL /\ UNCHANGED <<evtq, appMsg, appEvt>>
    BY <1>0, <1>3, <2>0 DEF SendPeek, AppHands
  <2>2. \A c : InQueue(c, moq) /\ c # b => InQueue(c, moq')
    BY <1>0, <1>3, <2>0, GetOut DEF SendPeek
  <2>3. KeepsAllBut(b)
    BY <1>0, <1>1, <2>1, <2>2, AppKeeps
  <2>4. Holds(ByPeek(t), b)'
    BY <2>1 DEF Holds
  <2> QED
    BY <2>1, <2>3, <2>4 DEF HandsOver
<1>4. CASE SendPutback(t)
  <2>0. PICK b \in Blocks \cup {NULL} : b = appPeek[t].data
    BY <1>p
  <2>1. /\ \A c : InQueue(c, moq) => InQueue(c, moq')
        /\ \/ owner' = Move(owner, b, InMoq) /\ InQueue(b, moq')
           \/ owner' = Move(owner, b, Leaked)
    BY <1>0, <1>4, <2>0, EnqueueHolds DEF SendPutback
  <2>2. UNCHANGED <<evtq, appMsg, appEvt>>
    BY <1>4 DEF SendPutback
  <2>3. KeepsAllBut(b)
    BY <1>0, <1>1, <2>0, <2>1, <2>2, AppKeeps
  <2>4. (InQueue(b, moq') => Holds(InMoq, b)') /\ Holds(Leaked, b)'
    BY DEF Holds
  <2> QED
    BY <2>0, <2>1, <2>3, <2>4 DEF HandsOver
<1>5. CASE SendEnqueue(t) \/ RequestPut(t)
  <2>0. PICK b \in Blocks \cup {NULL} : b = appMsg[t].data
    BY <1>p
  <2>1. /\ \A c : InQueue(c, moq) => InQueue(c, moq')
        /\ \/ owner' = Move(owner, b, InMoq) /\ InQueue(b, moq')
           \/ owner' = Move(owner, b, Leaked)
    BY <1>0, <1>5, <2>0, EnqueueHolds DEF SendEnqueue, RequestPut, PutRequest
  <2>2. UNCHANGED <<evtq, appPeek, appEvt>>
    BY <1>5 DEF SendEnqueue, RequestPut
  <2>3. KeepsAllBut(b)
    BY <1>0, <1>1, <2>0, <2>1, <2>2, AppKeeps
  <2>4. (InQueue(b, moq') => Holds(InMoq, b)') /\ Holds(Leaked, b)'
    BY DEF Holds
  <2> QED
    BY <2>0, <2>1, <2>3, <2>4 DEF HandsOver
<1>6. CASE WaitEvt(t)
  <2>0. PICK b \in Blocks \cup {NULL} : b = Head(evtq).data
    BY <1>0, <1>6, PointerType, HeadTailProperties DEF WaitEvt
  <2>1. /\ appEvt'[t].data = b /\ owner' = Move(owner, b, ByEvt(t))
        /\ appEvt[t].data = NULL /\ UNCHANGED <<moq, appMsg, appPeek>>
    BY <1>0, <1>6, <2>0 DEF WaitEvt, AppHands
  <2>2. \A c : InQueue(c, evtq) /\ c # b => InQueue(c, evtq')
    BY <1>0, <1>6, <2>0, GetOut DEF WaitEvt
  <2>3. KeepsAllBut(b)
    BY <1>0, <1>1, <2>1, <2>2, AppKeeps
  <2>4. Holds(ByEvt(t), b)'
    BY <2>1 DEF Holds
  <2> QED
    BY <2>1, <2>3, <2>4 DEF HandsOver
<1>7. CASE DestroyEvt(t)
  <2>0. PICK b \in Blocks \cup {NULL} : b = appEvt[t].data
    BY <1>p
  <2>1. owner' = Move(owner, b, Free) /\ UNCHANGED <<moq, evtq, appMsg, appPeek>>
    BY <1>0, <1>7, <2>0 DEF DestroyEvt, AppHands, Carries, Move
  <2>2. KeepsAllBut(b)
    BY <1>0, <1>1, <2>0, <2>1, AppKeeps
  <2>3. Holds(Free, b)'
    BY DEF Holds
  <2> QED
    BY <2>1, <2>2, <2>3 DEF HandsOver
<1>8. CASE \/ SendUsed(t) \/ SendPeekNone(t) \/ SendMerge(t) \/ RequestCheckBusy(t)
           \/ RequestCheckEmpty(t) \/ WaitRing(t) \/ \E alert \in BOOLEAN : RequestCall(t, alert)
  <2>1. UNCHANGED <<owner, appPeek, appEvt>>
    BY <1>8 DEF SendUsed, SendPeekNone, SendMerge, RequestCheckBusy, RequestCheckEmpty,
                WaitRing, RequestCall
  <2>2. appMsg[t].data = NULL \/ appMsg'[t].data = appMsg[t].data
    <3>1. CASE RequestCheckBusy(t)
      BY <1>0, <3>1 DEF RequestCheckBusy, AppHands
    <3>2. CASE WaitRing(t) \/ \E alert \in BOOLEAN : RequestCall(t, alert)
      BY <1>0, <3>2 DEF WaitRing, RequestCall, AppHands
    <3>3. CASE SendMerge(t)
      BY <1>0, <3>3 DEF SendMerge, MergeRequest, MoMsg
    <3> QED
      BY <1>8, <3>1, <3>2, <3>3 DEF SendUsed, SendPeekNone, RequestCheckEmpty
  <2>3. \A c \in Blocks : InQueue(c, moq) /\ c # NULL => InQueue(c, moq')
    <3>1. CASE SendMerge(t)
      BY <1>0, <3>1, GetOut DEF SendMerge
    <3> QED
      BY <1>8, <3>1 DEF SendUsed, SendPeekNone, RequestCheckBusy, RequestCheckEmpty,
                        WaitRing, RequestCall
  <2>4. \A c \in Blocks : InQueue(c, evtq) /\ c # NULL => InQueue(c, evtq')
    <3>1. CASE WaitRing(t)
      <4>1. Head(evtq).data = NULL
        <5>1. Carries(Head(evtq))
          BY <3>1, GetCarries DEF WaitRing, Hands, AllCarry
        <5> QED
          BY <3>1, <5>1 DEF WaitRing, Carries
      <4> QED
        BY <1>0, <3>1, <4>1, GetOut DEF WaitRing
    <3> QED
      BY <1>8, <3>1 DEF SendUsed, SendPeekNone, SendMerge, RequestCheckBusy,
                        RequestCheckEmpty, RequestCall
  <2>5. KeepsAllBut(NULL)
    BY <1>0, <1>1, <2>1, <2>2, <2>3, <2>4, AppKeeps
  <2> QED
    BY <2>1, <2>5, NothingMoves
<1> QED
  BY <1>2, <1>3, <1>4, <1>5, <1>6, <1>7, <1>8 DEF AppStep, AppCall

(***************************************************************************)
(* The theorem.                                                            *)
(***************************************************************************)
(* A thread never drops the last pointer to a block but where the model    *)
(* says so: the leaking paths of isbd.c (a full queue, a failed session, a *)
(* message of length 0) are all there are, with any number of threads,     *)
(* blocks and queue elements.                                              *)
THEOREM NothingElseLeaks == Spec => []NoOtherLeak
<1>1. Init => Hands /\ Held
  BY DEF Init, Hands, SvcHands, AppHands, Carries, NoMsg, NoEvt, Held, Holds
<1>2. TypeOK /\ Hands /\ Held /\ [Next]_vars => Hands' /\ Held'
  <2> SUFFICES ASSUME TypeOK, Hands, Held, [Next]_vars PROVE Hands' /\ Held'
    OBVIOUS
  <2>1. CASE Next
    <3>1. Hands'
      BY <2>1, SvcHandsKept, AppHandsKept DEF Next
    <3>2. \E b, p : HandsOver(b, p)
      BY <2>1, SvcHandsOver, AppHandsOver DEF Next
    <3> QED
      BY <3>1, <3>2, HandOver
  <2>2. CASE UNCHANGED vars
    BY <2>2 DEF vars, Hands, SvcHands, AppHands, Carries, Held, Holds, InQueue
  <2> QED
    BY <2>1, <2>2
<1> QED
  BY <1>1, <1>2, TypeCorrect, HeldMeansNoOtherLeak, PTL DEF Spec

(***************************************************************************)
(* One sending thread.  It takes the only queued message out and puts it   *)
(* back; in between, only the service may enqueue.                         *)
(***************************************************************************)
(* The service may still enqueue something before it takes again.          *)
MayPut ==
  \/ svcPc \in {"set", "sbdix", "settle", "mo", "reqput"}
  \/ svcPc \in {"mt", "read", "reqcheck"} /\ moq = <<>>

(* The queue has at most n elements until then.                            *)
AtMost(n) == Len(moq) <= n /\ (MayPut => Len(moq) < n)

(* The sender finds room for what it took out.  Until it meets a request   *)
(* its own message has no alert flag.                                      *)
Room(t) ==
  /\ appPc[t] = "peek" => AtMost(2)
  /\ appPc[t] = "putback" => AtMost(1)
  /\ appPc[t] = "enq" /\ appMsg[t].alert => AtMost(1)
  /\ appPc[t] \in {"used", "peek", "putback"} => ~appMsg[t].alert

(* What the service enqueues while the sender looks at the queue has been  *)
(* in a session before.                                                    *)
NoneFresh(q, from) == \A i \in from..Len(q) : ~Fresh(q[i])
Order(t) ==
  /\ appPc[t] = "peek" => NoneFresh(moq, 2)
  /\ appPc[t] = "putback" => NoneFresh(moq, 1)
  /\ svcPc \in {"settle", "mo"} => cur.tried > 0

LEMMA QueueLen ==
  ASSUME TypeOK
  PROVE  /\ moq \in Seq(MoMsg) /\ Len(moq) \in Nat /\ Len(moq) <= MoQueueLen
         /\ moq = <<>> <=> Len(moq) = 0
         /\ MoQueueLen \in Nat
BY EmptySeq, LenProperties, QueueAssumption DEF TypeOK

(* What an element more, or one less at the head, does to the queue.       *)
LEMMA AppendIs ==
  ASSUME TypeOK, NEW m, EnqueueMoMsg(m), m \in MoMsg
  PROVE  \/ moq' = moq /\ Len(moq) = MoQueueLen
         \/ /\ Len(moq) < MoQueueLen /\ Len(moq') = Len(moq) + 1 /\ moq'[Len(moq) + 1] = m
            /\ moq' # <<>>
            /\ \A i \in 1..Len(moq) : moq'[i] = moq[i]
<1>1. /\ Len(moq) \in Nat /\ Len(moq) <= MoQueueLen /\ MoQueueLen \in Nat /\ moq \in Seq(MoMsg)
  BY QueueLen
<1>2. CASE Len(moq) < MoQueueLen
  <2>1. moq' = Append(moq, m)
    BY <1>2 DEF EnqueueMoMsg
  <2> QED
    BY <1>1, <1>2, <2>1, AppendProperties, EmptySeq
<1>3. CASE ~(Len(moq) < MoQueueLen)
  BY <1>1, <1>3 DEF EnqueueMoMsg
<1> QED
  BY <1>2, <1>3

LEMMA TailIs ==
  ASSUME TypeOK, moq # <<>>, moq' = Tail(moq)
  PROVE  /\ Len(moq) > 0 /\ Len(moq') = Len(moq) - 1 /\ Head(moq) = moq[1]
         /\ moq' = <<>> <=> Len(moq) = 1
         /\ \A i \in 1..Len(moq') : i + 1 \in 1..Len(moq) /\ moq'[i] = moq[i + 1]
         /\ \A i \in 1..Len(moq) : i = 1 \/ (i - 1 \in 1..Len(moq') /\ moq'[i - 1] = moq[i])
<1>1. /\ moq \in Seq(MoMsg) /\ Len(moq) \in Nat /\ Len(moq) # 0
  BY QueueLen
<1>2. /\ Tail(moq) \in Seq(MoMsg) /\ Len(Tail(moq)) = Len(moq) - 1 /\ Head(moq) = moq[1]
      /\ \A i \in 1..Len(Tail(moq)) : Tail(moq)[i] = moq[i + 1]
  BY <1>1, HeadTailProperties
<1>3. Tail(moq) = <<>> <=> Len(Tail(moq)) = 0
  BY <1>2, EmptySeq
<1>4. \A i \in 1..Len(moq') : i + 1 \in 1..Len(moq) /\ moq'[i] = moq[i + 1]
  BY <1>1, <1>2
<1>5. ASSUME NEW i \in 1..Len(moq), i # 1
      PROVE  i - 1 \in 1..Len(moq') /\ moq'[i - 1] = moq[i]
  <2>1. i - 1 \in 1..Len(moq') /\ (i - 1) + 1 = i
    BY <1>1, <1>2, <1>5
  <2> QED
    BY <1>4, <2>1
<1> QED
  BY <1>1, <1>2, <1>3, <1>4, <1>5

(* What the service enqueues is not fresh.                                 *)
LEMMA NotFresh ==
  ASSUME TypeOK
  PROVE  /\ cur.tried > 0 => ~Fresh(OneRetryLess(cur))
         /\ \A alert \in BOOLEAN : ~Fresh(RequestMsg(alert))
         /\ ~Fresh(NoMsg)
<1>1. OneRetryLess(cur).tried = cur.tried /\ cur.tried \in Nat
  BY DEF OneRetryLess, MoMsg, TypeOK
<1> QED
  BY <1>1 DEF Fresh, HasPayload, RequestMsg, NoMsg

(* Appending an element that is not fresh, or taking the head, keeps the   *)
(* rest of the queue free of fresh messages.                               *)
LEMMA AppendNoneFresh ==
  ASSUME TypeOK, NEW m \in MoMsg, EnqueueMoMsg(m), ~Fresh(m), NEW from \in {1, 2}, NoneFresh(moq, from)
  PROVE  NoneFresh(moq', from)
<1>1. Len(moq) \in Nat
  BY QueueLen
<1>2. CASE moq' = moq
  BY <1>2
<1>3. CASE /\ Len(moq') = Len(moq) + 1 /\ moq'[Len(moq) + 1] = m
           /\ \A i \in 1..Len(moq) : moq'[i] = moq[i]
  <2>1. ASSUME NEW i \in from..Len(moq'), Fresh(moq'[i]) PROVE FALSE
    <3>1. i = Len(moq) + 1 \/ (i \in from..Len(moq) /\ i \in 1..Len(moq))
      BY <1>1, <1>3
    <3> QED
      BY <1>3, <2>1, <3>1 DEF NoneFresh
  <2> QED
    BY <2>1 DEF NoneFresh
<1> QED
  BY <1>2, <1>3, AppendIs

LEMMA TailNoneFresh ==
  ASSUME TypeOK, moq # <<>>, moq' = Tail(moq)
  PROVE  /\ NoneFresh(moq, 1) => NoneFresh(moq', 1)
         /\ NoneFresh(moq, 2) => NoneFresh(moq', 1) /\ NoneFresh(moq', 2)
<1>1. Len(moq) \in Nat /\ Len(moq') = Len(moq) - 1
  BY QueueLen, TailIs
<1>2. ASSUME NEW i \in 1..Len(moq')
      PROVE  i + 1 \in 1..Len(moq) /\ i + 1 \in 2..Len(moq) /\ moq'[i] = moq[i + 1]
  BY <1>1, <1>2, TailIs
<1>3. \A i \in 2..Len(moq') : i \in 1..Len(moq')
  BY <1>1
<1> QED
  BY <1>2, <1>3 DEF NoneFresh

(***************************************************************************)
(* Room and Order are kept.                                                *)
(***************************************************************************)
LEMMA SvcRoom ==
  ASSUME TypeOK, NEW t \in Apps, Room(t), SvcStep \/ SvcUrc
  PROVE  Room(t)'
<1>0. /\ Len(moq) \in Nat /\ (moq = <<>> <=> Len(moq) = 0) /\ UNCHANGED appVars
  BY QueueLen DEF SvcStep, SvcUrc, SvcBoot, SvcIdle, SvcTake, SvcSetOk, SvcSetFail, SvcSbdix,
         SvcQuiet, SvcSettled, SvcSessionFailed, SvcNoPayload, SvcMoSent, SvcMoRetry,
         SvcMoGiveUp, SvcMtSkip, SvcMtAlloc, SvcMtRead, SvcMtReadFail,
         SvcRequestCheck, SvcRequestPut, AfterMo, AfterMt
<1>1. SUFFICES \A n \in {1, 2} : AtMost(n) => AtMost(n)'
  BY <1>0 DEF Room, appVars
<1>2. CASE SvcTake
  <2>1. Len(moq') = Len(moq) - 1 /\ ~MayPut
    BY <1>2, TailIs DEF SvcTake, MayPut
  <2> QED
    BY <1>0, <2>1 DEF AtMost
<1>3. CASE SvcMoRetry \/ SvcRequestPut
  <2>1. MayPut /\ (MayPut' => moq' = <<>>)
    BY <1>3 DEF SvcMoRetry, SvcRequestPut, AfterMo, MayPut
  <2>2. PICK m \in MoMsg : EnqueueMoMsg(m)
    <3>1. RequestMsg(FALSE) \in MoMsg
      BY DataType
    <3>2. SvcMoRetry => OneRetryLess(cur) \in MoMsg
      BY MsgType DEF SvcMoRetry, TypeOK
    <3> QED
      BY <1>3, <3>1, <3>2 DEF SvcMoRetry, SvcRequestPut, PutRequest
  <2>3. (moq' = moq /\ Len(moq) > 0) \/ (Len(moq') = Len(moq) + 1 /\ moq' # <<>>)
    BY <1>0, <2>2, AppendIs, QueueAssumption
  <2> QED
    BY <1>0, <2>1, <2>3 DEF AtMost
<1>4. CASE SvcRequestCheck
  <2>1. moq' = moq /\ (MayPut' => MayPut)
    BY <1>0, <1>4 DEF SvcRequestCheck, MayPut, PendingRequests
  <2> QED
    BY <2>1 DEF AtMost
<1>5. CASE SvcBoot \/ SvcIdle \/ SvcSetOk \/ SvcQuiet \/ SvcSettled \/ SvcUrc
           \/ SvcMtSkip \/ SvcMtAlloc \/ SvcMtRead \/ SvcMtReadFail
           \/ SvcSetFail \/ SvcSbdix \/ SvcSessionFailed \/ SvcNoPayload \/ SvcMoSent \/ SvcMoGiveUp
  <2>1. moq' = moq /\ (MayPut' => MayPut)
    BY <1>5 DEF SvcBoot, SvcIdle, SvcSetOk, SvcQuiet, SvcSettled, SvcUrc, SvcMtSkip,
                SvcMtAlloc, SvcMtRead, SvcMtReadFail, SvcSetFail, SvcSbdix, SvcSessionFailed,
                SvcNoPayload, SvcMoSent, SvcMoGiveUp, AfterMo, AfterMt, MayPut
  <2> QED
    BY <2>1 DEF AtMost
<1> QED
  BY <1>2, <1>3, <1>4, <1>5 DEF SvcStep

LEMMA SvcOrder ==
  ASSUME TypeOK, NEW t \in Apps, Order(t), SvcStep \/ SvcUrc
  PROVE  Order(t)'
<1>0. cur.tried \in Nat /\ cur \in MoMsg /\ UNCHANGED appVars
  BY DEF TypeOK, MoMsg, SvcStep, SvcUrc, SvcBoot, SvcIdle, SvcTake, SvcSetOk, SvcSetFail, SvcSbdix,
         SvcQuiet, SvcSettled, SvcSessionFailed, SvcNoPayload, SvcMoSent, SvcMoRetry,
         SvcMoGiveUp, SvcMtSkip, SvcMtAlloc, SvcMtRead, SvcMtReadFail,
         SvcRequestCheck, SvcRequestPut, AfterMo, AfterMt
<1>1. SUFFICES /\ NoneFresh(moq, 1) => NoneFresh(moq', 1)
               /\ NoneFresh(moq, 2) => NoneFresh(moq', 2)
               /\ svcPc' \in {"settle", "mo"} => cur'.tried > 0
  BY <1>0 DEF Order, appVars, NoneFresh, Fresh, HasPayload
<1>2. CASE SvcTake
  BY <1>2, TailNoneFresh DEF SvcTake
<1>3. CASE SvcMoRetry \/ SvcRequestPut
  <2>1. PICK m \in MoMsg : EnqueueMoMsg(m) /\ ~Fresh(m)
    <3>1. RequestMsg(FALSE) \in MoMsg /\ ~Fresh(RequestMsg(FALSE))
      BY DataType, NotFresh
    <3>2. SvcMoRetry => OneRetryLess(cur) \in MoMsg /\ ~Fresh(OneRetryLess(cur))
      BY MsgType, NotFresh DEF SvcMoRetry, TypeOK, Order
    <3> QED
      BY <1>3, <3>1, <3>2 DEF SvcMoRetry, SvcRequestPut, PutRequest
  <2>2. svcPc' \notin {"settle", "mo"}
    BY <1>3 DEF SvcMoRetry, SvcRequestPut, AfterMo
  <2> QED
    BY <2>1, <2>2, AppendNoneFresh
<1>4. CASE SvcSbdix
  <2>1. cur'.tried = cur.tried + 1 /\ moq' = moq
    BY <1>0, <1>4 DEF SvcSbdix, MoMsg
  <2> QED
    BY <1>0, <2>1
<1>5. CASE SvcSettled \/ SvcUrc
  BY <1>5 DEF SvcSettled, SvcUrc, Order
<1>6. CASE SvcBoot \/ SvcIdle \/ SvcSetOk \/ SvcQuiet \/ SvcRequestCheck
           \/ SvcMtSkip \/ SvcMtAlloc \/ SvcMtRead \/ SvcMtReadFail
           \/ SvcSetFail \/ SvcSessionFailed \/ SvcNoPayload \/ SvcMoSent \/ SvcMoGiveUp
  <2>1. moq' = moq /\ svcPc' \notin {"settle", "mo"}
    BY <1>6 DEF SvcBoot, SvcIdle, SvcSetOk, SvcQuiet, SvcRequestCheck, SvcMtSkip,
                SvcMtAlloc, SvcMtRead, SvcMtReadFail, SvcSetFail, SvcSessionFailed,
                SvcNoPayload, SvcMoSent, SvcMoGiveUp, AfterMo, AfterMt
  <2> QED
    BY <2>1
<1> QED
  BY <1>2, <1>3, <1>4, <1>5, <1>6 DEF SvcStep

LEMMA AppRoomOrder ==
  ASSUME TypeOK, NEW t \in Apps, Room(t), Order(t), AppStep(t) \/ AppCall(t)
  PROVE  Room(t)' /\ Order(t)'
<1>0. /\ appPc \in [Apps -> AppPcs] /\ appMsg \in [Apps -> MoMsg]
      /\ Len(moq) \in Nat /\ (moq = <<>> <=> Len(moq) = 0)
  BY QueueLen DEF TypeOK
<1>1. UNCHANGED <<cur, svcPc>>
  BY DEF AppStep, AppCall, SendAlloc, SendUsed, SendPeekNone, SendMerge, SendPeek,
         SendPutback, SendEnqueue, RequestCall, RequestCheckBusy, RequestCheckEmpty,
         RequestPut, WaitEvt, WaitRing, DestroyEvt, svcVars
<1> USE DEF AtApp
<1>2. CASE SendAlloc(t)
  <2>1. appPc'[t] = "used" /\ appMsg'[t].alert = FALSE
    BY <1>0, <1>2 DEF SendAlloc
  <2> QED
    BY <1>1, <2>1 DEF Room, Order
<1>3. CASE SendUsed(t)
  <2>1. /\ appPc[t] = "used" /\ UNCHANGED <<moq, appMsg>>
        /\ appPc'[t] = IF Len(moq) = 1 THEN "peek" ELSE "enq"
    BY <1>0, <1>3 DEF SendUsed, OneQueued
  <2>2. ~appMsg'[t].alert
    BY <2>1 DEF Room
  <2>3. appPc'[t] = "peek" => AtMost(2)' /\ NoneFresh(moq', 2)
    <3> SUFFICES ASSUME appPc'[t] = "peek" PROVE AtMost(2)' /\ NoneFresh(moq', 2)
      OBVIOUS
    <3>1. Len(moq') = 1
      BY <2>1
    <3>2. 2..Len(moq') = {}
      BY <3>1
    <3> QED
      BY <3>1, <3>2 DEF AtMost, NoneFresh
  <2> QED
    BY <1>1, <2>1, <2>2, <2>3 DEF Room, Order
<1>4. CASE SendPeekNone(t)
  <2>1. appPc[t] = "peek" /\ UNCHANGED <<moq, appMsg>> /\ appPc'[t] = "enq"
    BY <1>0, <1>4 DEF SendPeekNone
  <2> QED
    BY <1>1, <2>1 DEF Room, Order
<1>5. CASE SendMerge(t) \/ SendPeek(t)
  <2>1. /\ appPc[t] = "peek" /\ moq # <<>> /\ moq' = Tail(moq)
        /\ appPc'[t] = "enq" \/ (appPc'[t] = "putback" /\ appMsg' = appMsg)
    BY <1>0, <1>5 DEF SendMerge, SendPeek
  <2>2. Len(moq) > 0 /\ Len(moq') = Len(moq) - 1 /\ (moq' = <<>> <=> Len(moq) = 1)
    BY <2>1, TailIs
  <2>3. AtMost(1)'
    <3>1. MayPut' => MayPut \/ Len(moq) = 1
      BY <1>1, <2>2 DEF MayPut
    <3> QED
      BY <1>0, <2>1, <2>2, <3>1 DEF Room, AtMost
  <2>4. NoneFresh(moq', 1)
    BY <2>1, TailNoneFresh DEF Order
  <2> QED
    BY <1>1, <2>1, <2>3, <2>4 DEF Room, Order
<1>6. CASE SendPutback(t)
  <2>1. appPc[t] = "putback" /\ appMsg' = appMsg /\ appPc'[t] = "enq"
    BY <1>0, <1>6 DEF SendPutback
  <2> QED
    BY <1>1, <2>1 DEF Room, Order
<1>7. CASE SendEnqueue(t) \/ RequestPut(t) \/ RequestCheckBusy(t) \/ RequestCheckEmpty(t)
           \/ (\E alert \in BOOLEAN : RequestCall(t, alert))
           \/ WaitEvt(t) \/ WaitRing(t) \/ DestroyEvt(t)
  <2>1. appPc'[t] \notin {"used", "peek", "putback", "enq"}
    BY <1>0, <1>7 DEF SendEnqueue, RequestPut, RequestCheckBusy, RequestCheckEmpty,
                      RequestCall, WaitEvt, WaitRing, DestroyEvt
  <2> QED
    BY <1>1, <2>1 DEF Room, Order
<1> QED
  BY <1>2, <1>3, <1>4, <1>5, <1>6, <1>7 DEF AppStep, AppCall

(***************************************************************************)
(* The two promises to a thread that alone sends messages.                 *)
(***************************************************************************)
LEMMA OneSender ==
  ASSUME NEW t, Apps = {t}
  PROVE  Spec => [](Room(t) /\ Order(t))
<1>0. t \in Apps
  OBVIOUS
<1>1. Init => Room(t) /\ Order(t)
  BY <1>0 DEF Init, Room, Order, NoneFresh
<1>2. TypeOK /\ Room(t) /\ Order(t) /\ [Next]_vars => (Room(t) /\ Order(t))'
  <2> SUFFICES ASSUME TypeOK, Room(t), Order(t), [Next]_vars PROVE Room(t)' /\ Order(t)'
    OBVIOUS
  <2>1. CASE Next
    BY <1>0, <2>1, SvcRoom, SvcOrder, AppRoomOrder DEF Next
  <2>2. CASE UNCHANGED vars
    <3>1. (AtMost(1)' <=> AtMost(1)) /\ (AtMost(2)' <=> AtMost(2))
      BY <2>2 DEF vars, AtMost, MayPut
    <3>2. NoneFresh(moq', 1) <=> NoneFresh(moq, 1)
      BY <2>2 DEF vars, NoneFresh, Fresh, HasPayload
    <3> QED
      BY <2>2, <3>1, <3>2 DEF vars, Room, Order, AtMost, MayPut, NoneFresh, Fresh, HasPayload
  <2> QED
    BY <2>1, <2>2
<1> QED
  BY <1>1, <1>2, TypeCorrect, PTL DEF Spec

(* Every step leaves the queue, takes its head or appends an element.      *)
LEMMA QueueSteps ==
  ASSUME TypeOK, [Next]_vars
  PROVE  \/ moq' = moq
         \/ moq # <<>> /\ moq' = Tail(moq)
         \/ \E m \in MoMsg : EnqueueMoMsg(m)
<1>1. CASE SvcTake \/ \E t \in Apps : SendMerge(t) \/ SendPeek(t)
  BY <1>1 DEF SvcTake, SendMerge, SendPeek
<1>2. CASE SvcMoRetry
  <2>1. OneRetryLess(cur) \in MoMsg
    BY <1>2, MsgType DEF SvcMoRetry, TypeOK
  <2> QED
    BY <1>2, <2>1 DEF SvcMoRetry
<1>3. CASE SvcRequestPut
  BY <1>3, DataType DEF SvcRequestPut, PutRequest
<1>4. CASE \E t \in Apps : SendPutback(t) \/ SendEnqueue(t) \/ RequestPut(t)
  <2>1. \A t \in Apps : appMsg[t] \in MoMsg /\ appPeek[t] \in MoMsg
    BY DEF TypeOK
  <2> QED
    BY <1>4, <2>1 DEF SendPutback, SendEnqueue, RequestPut, PutRequest
<1>5. CASE \/ SvcUrc \/ SvcBoot \/ SvcIdle \/ SvcSetOk \/ SvcSetFail \/ SvcSbdix
           \/ SvcQuiet \/ SvcSettled \/ SvcSessionFailed
           \/ SvcNoPayload \/ SvcMoSent \/ SvcMoGiveUp
           \/ SvcMtSkip \/ SvcMtAlloc \/ SvcMtRead \/ SvcMtReadFail \/ SvcRequestCheck
  BY <1>5 DEF SvcUrc, SvcBoot, SvcIdle, SvcSetOk, SvcSetFail, SvcSbdix, SvcQuiet, SvcSettled,
     SvcSessionFailed, SvcNoPayload, SvcMoSent, SvcMoGiveUp, SvcMtSkip, SvcMtAlloc,
     SvcMtRead, SvcMtReadFail, SvcRequestCheck, AfterMo, AfterMt
<1>6. CASE \E t \in Apps : \/ SendAlloc(t) \/ SendUsed(t) \/ SendPeekNone(t)
                           \/ RequestCheckBusy(t) \/ RequestCheckEmpty(t)
                           \/ (\E alert \in BOOLEAN : RequestCall(t, alert))
                           \/ WaitEvt(t) \/ WaitRing(t) \/ DestroyEvt(t)
  BY <1>6 DEF SendAlloc, SendUsed, SendPeekNone, RequestCheckBusy, RequestCheckEmpty,
     RequestCall, WaitEvt, WaitRing, DestroyEvt
<1>7. CASE UNCHANGED vars
  BY <1>7 DEF vars
<1> QED
  BY <1>1, <1>2, <1>3, <1>4, <1>5, <1>6, <1>7 DEF Next, SvcStep, AppStep, AppCall

(* Neither change of the queue turns the order of two elements around.     *)
LEMMA QueueKeepsOrder ==
  ASSUME TypeOK, OwnsQueue(owner, moq, InMoq), OwnsQueue(owner', moq', InMoq), [Next]_vars,
         NEW a \in Blocks, NEW b \in Blocks,
         NEW i \in 1..Len(moq), NEW j \in 1..Len(moq), i < j, moq[i].data = a, moq[j].data = b,
         NEW k \in 1..Len(moq'), NEW l \in 1..Len(moq'), k < l, moq'[k].data = b, moq'[l].data = a
  PROVE  FALSE
<1>0. a # NULL /\ b # NULL /\ Len(moq) \in Nat
  BY HeapAssumption, QueueLen
<1>1. \A n \in 1..Len(moq) : (moq[n].data = a => n = i) /\ (moq[n].data = b => n = j)
  BY <1>0 DEF OwnsQueue
<1>2. CASE moq' = moq
  <2>1. k = j /\ l = i
    BY <1>1, <1>2
  <2> QED
    BY <1>0, <2>1
<1>3. CASE moq # <<>> /\ moq' = Tail(moq)
  <2>1. /\ k + 1 \in 1..Len(moq) /\ moq'[k] = moq[k + 1]
        /\ l + 1 \in 1..Len(moq) /\ moq'[l] = moq[l + 1]
        /\ Len(moq') = Len(moq) - 1
    BY <1>3, TailIs
  <2>2. k + 1 = j /\ l + 1 = i
    BY <1>1, <2>1
  <2> QED
    BY <1>0, <2>1, <2>2
<1>4. CASE \E m \in MoMsg : EnqueueMoMsg(m)
  <2>1. CASE moq' = moq
    BY <1>2, <2>1
  <2>2. CASE Len(moq') = Len(moq) + 1 /\ \A n \in 1..Len(moq) : moq'[n] = moq[n]
    <3>1. i \in 1..Len(moq') /\ j \in 1..Len(moq') /\ moq'[i].data = a /\ moq'[j].data = b
      BY <1>0, <2>2
    <3>2. k = j /\ l = i
      BY <1>0, <3>1 DEF OwnsQueue
    <3> QED
      BY <1>0, <3>2
  <2> QED
    BY <1>4, <2>1, <2>2, AppendIs
<1> QED
  BY <1>2, <1>3, <1>4, QueueSteps

LEMMA HandsHold == Spec => []Hands
<1>1. Init => Hands
  BY DEF Init, Hands, SvcHands, AppHands, Carries, NoMsg, NoEvt
<1>2. TypeOK /\ Hands /\ [Next]_vars => Hands'
  <2> SUFFICES ASSUME TypeOK, Hands, [Next]_vars PROVE Hands'
    OBVIOUS
  <2>1. CASE Next
    BY <2>1, SvcHandsKept, AppHandsKept DEF Next
  <2>2. CASE UNCHANGED vars
    BY <2>2 DEF vars, Hands, SvcHands, AppHands, Carries
  <2> QED
    BY <2>1, <2>2
<1> QED
  BY <1>1, <1>2, TypeCorrect, PTL DEF Spec

(* Only the queue itself orders fresh messages: what is queued behind the  *)
(* message a sender holds is not fresh.                                    *)
LEMMA OrderIsQueued ==
  ASSUME TypeOK, Hands, NEW t, Apps = {t}, Order(t), NEW a \in Blocks, NEW b \in Blocks, QueuedBefore(a, b)
  PROVE  \E i, j \in 1..Len(moq) : i < j /\ moq[i].data = a /\ moq[j].data = b
<1>1. a # NULL /\ t \in Apps
  BY HeapAssumption
<1>2. ASSUME appPeek[t].data = a, NEW j \in 1..Len(moq), Fresh(moq[j]) PROVE FALSE
  BY <1>1, <1>2 DEF Hands, AppHands, Order, NoneFresh
<1> QED
  BY <1>2 DEF QueuedBefore

(* A message that no session has carried is never overtaken by a later     *)
(* one, although its only sender takes it out of the queue and puts it at  *)
(* the end: what may have come in between had its turn before.             *)
THEOREM OrderKept ==
  ASSUME NEW t, Apps = {t}
  PROVE  Spec => NoOvertaking
<1>1. TypeOK /\ Hands /\ Ownership /\ Order(t) /\ TypeOK' /\ Hands' /\ Ownership' /\ Order(t)'
        /\ [Next]_vars
        => [\A a, b \in Blocks : QueuedBefore(a, b) => ~QueuedBefore(b, a)']_vars
  <2> SUFFICES ASSUME TypeOK, Hands, Ownership, Order(t), TypeOK', Hands', Ownership', Order(t)',
                      [Next]_vars,
                      NEW a \in Blocks, NEW b \in Blocks, QueuedBefore(a, b), QueuedBefore(b, a)'
               PROVE  FALSE
    OBVIOUS
  <2>1. PICK i, j \in 1..Len(moq) : i < j /\ moq[i].data = a /\ moq[j].data = b
    BY OrderIsQueued
  <2>2. PICK k, l \in 1..Len(moq') : k < l /\ moq'[k].data = b /\ moq'[l].data = a
    <3>1. b # NULL /\ t \in Apps
      BY HeapAssumption
    <3>2. ASSUME appPeek'[t].data = b, NEW n \in 1..Len(moq'), Fresh(moq'[n]) PROVE FALSE
      BY <3>1, <3>2 DEF Hands, AppHands, Order, NoneFresh
    <3> QED
      BY <3>2 DEF QueuedBefore, Fresh, HasPayload
  <2> QED
    BY <2>1, <2>2, QueueKeepsOrder DEF Ownership
<1> QED
  BY <1>1, TypeCorrect, HandsHold, OwnershipHolds, OneSender, PTL DEF Spec, NoOvertaking

(***************************************************************************)
(* The alert flags, counted.                                               *)
(***************************************************************************)
Bit(b) == IF b THEN 1 ELSE 0
QueuedAlerts == Cardinality(Flagged(moq))
AppAlert(t) == IF HoldsFlag(t) THEN 1 ELSE 0
SvcAlert == IF SvcHoldsFlag THEN 1 ELSE 0

LEMMA FlagsFinite ==
  ASSUME TypeOK
  PROVE  IsFiniteSet(Flagged(moq)) /\ QueuedAlerts \in Nat
<1>1. Len(moq) \in Int /\ 1 \in Int /\ Flagged(moq) \in SUBSET (1..Len(moq))
  BY QueueLen DEF Flagged
<1>2. IsFiniteSet(1..Len(moq))
  BY <1>1, FS_Interval
<1>3. IsFiniteSet(Flagged(moq))
  BY <1>1, <1>2, FS_Subset
<1> QED
  BY <1>3, FS_CardinalityType DEF QueuedAlerts

(* An element that finds room brings its flag, and moves no other.         *)
LEMMA EnqueueAlert ==
  ASSUME TypeOK, NEW m \in MoMsg, EnqueueMoMsg(m)
  PROVE  /\ QueuedAlerts' = QueuedAlerts \/ QueuedAlerts' = QueuedAlerts + Bit(m.alert)
         /\ Len(moq) < MoQueueLen => QueuedAlerts' = QueuedAlerts + Bit(m.alert)
<1>1. Len(moq) \in Nat /\ MoQueueLen \in Nat /\ QueuedAlerts \in Nat
  BY QueueLen, FlagsFinite
<1>2. CASE moq' = moq /\ Len(moq) = MoQueueLen
  <2>1. ~(Len(moq) < MoQueueLen)
    BY <1>1, <1>2
  <2>2. QueuedAlerts' = QueuedAlerts
    BY <1>2 DEF QueuedAlerts
  <2> QED
    BY <2>1, <2>2
<1>3. CASE /\ Len(moq') = Len(moq) + 1 /\ moq'[Len(moq) + 1] = m
           /\ \A i \in 1..Len(moq) : moq'[i] = moq[i]
  <2>1. /\ \A i \in 1..Len(moq') : i \in 1..Len(moq) \/ i = Len(moq) + 1
        /\ \A i \in 1..Len(moq) : i \in 1..Len(moq')
        /\ Len(moq) + 1 \in 1..Len(moq') /\ Len(moq) + 1 \notin 1..Len(moq)
    BY <1>1, <1>3
  <2>2. CASE m.alert
    <3>1. Flagged(moq') = Flagged(moq) \cup {Len(moq) + 1}
      BY <1>3, <2>1, <2>2 DEF Flagged
    <3>2. Len(moq) + 1 \notin Flagged(moq)
      BY <2>1 DEF Flagged
    <3>3. Cardinality(Flagged(moq) \cup {Len(moq) + 1}) = Cardinality(Flagged(moq)) + 1
      BY <3>2, FlagsFinite, FS_AddElement
    <3> QED
      BY <2>2, <3>1, <3>3 DEF QueuedAlerts, Bit
  <2>3. CASE ~m.alert
    <3>1. Flagged(moq') = Flagged(moq)
      BY <1>3, <2>1, <2>3 DEF Flagged
    <3> QED
      BY <1>1, <2>3, <3>1 DEF QueuedAlerts, Bit
  <2> QED
    BY <2>2, <2>3
<1> QED
  BY <1>2, <1>3, AppendIs

(* Who takes the head takes its flag.                                      *)
LEMMA TakeAlert ==
  ASSUME TypeOK, moq # <<>>, moq' = Tail(moq)
  PROVE  /\ QueuedAlerts = QueuedAlerts' + Bit(Head(moq).alert)
         /\ QueuedAlerts' \in Int
<1> DEFINE S == Flagged(moq) \ {1}
           T == Flagged(moq')
           shift == [i \in S |-> i - 1]
<1>1. Len(moq) \in Nat /\ IsFiniteSet(Flagged(moq)) /\ QueuedAlerts \in Nat
  BY QueueLen, FlagsFinite
<1>2. /\ Len(moq) > 0 /\ Len(moq') = Len(moq) - 1 /\ Head(moq) = moq[1]
      /\ \A i \in 1..Len(moq') : i + 1 \in 1..Len(moq) /\ moq'[i] = moq[i + 1]
      /\ \A i \in 1..Len(moq) : i = 1 \/ (i - 1 \in 1..Len(moq') /\ moq'[i - 1] = moq[i])
  BY TailIs
<1>3. IsFiniteSet(S) /\ Cardinality(S) = IF 1 \in Flagged(moq) THEN QueuedAlerts - 1 ELSE QueuedAlerts
  BY <1>1, FS_RemoveElement DEF QueuedAlerts
<1>4. 1 \in Flagged(moq) <=> Head(moq).alert
  BY <1>1, <1>2 DEF Flagged
<1>5. ExistsBijection(S, T)
  <2>1. \A i \in S : i \in Int /\ i - 1 \in T
    BY <1>1, <1>2 DEF Flagged
  <2>2. shift \in [S -> T]
    BY <2>1
  <2>3. \A a, b \in S : shift[a] = shift[b] => a = b
    BY <2>1
  <2>4. ASSUME NEW i \in T PROVE \E a \in S : shift[a] = i
    <3>1. i \in 1..Len(moq') /\ moq'[i].alert
      BY <2>4 DEF Flagged
    <3>2. i + 1 \in 1..Len(moq) /\ moq[i + 1].alert /\ i \in Int /\ i >= 1
      BY <1>2, <3>1
    <3>3. i + 1 \in S /\ (i + 1) - 1 = i
      BY <3>2 DEF Flagged
    <3> QED
      BY <3>3
  <2> HIDE DEF S, T, shift
  <2>5. shift \in Bijection(S, T)
    BY <2>2, <2>3, <2>4, Fun_IsBij
  <2> QED
    BY <2>5 DEF ExistsBijection
<1>6. Cardinality(T) = Cardinality(S)
  <2> HIDE DEF S, T
  <2> QED
    BY <1>3, <1>5, FS_Bijection
<1>7. QueuedAlerts' = IF Head(moq).alert THEN QueuedAlerts - 1 ELSE QueuedAlerts
  BY <1>3, <1>4, <1>6 DEF QueuedAlerts
<1> QED
  BY <1>1, <1>7 DEF Bit

(* With one thread, the flags are those of the queue, of that thread and   *)
(* of the service.                                                         *)
LEMMA AlertsAre ==
  ASSUME NEW t, Apps = {t}
  PROVE  /\ Alerts = QueuedAlerts + AppAlert(t) + SvcAlert
         /\ Alerts' = QueuedAlerts' + AppAlert(t)' + SvcAlert'
<1>1. Cardinality({u \in Apps : HoldsFlag(u)}) = AppAlert(t)
  <2>1. {u \in Apps : HoldsFlag(u)} = IF HoldsFlag(t) THEN {t} ELSE {}
    OBVIOUS
  <2> QED
    BY <2>1, FS_Singleton, FS_EmptySet DEF AppAlert
<1>2. Cardinality({u \in Apps : HoldsFlag(u)'}) = AppAlert(t)'
  <2>1. {u \in Apps : HoldsFlag(u)'} = IF HoldsFlag(t)' THEN {t} ELSE {}
    OBVIOUS
  <2> QED
    BY <2>1, FS_Singleton, FS_EmptySet DEF AppAlert
<1> QED
  BY <1>1, <1>2 DEF Alerts, QueuedAlerts, SvcAlert

LEMMA MoreOrLess ==
  /\ \A q \in Int, a \in Int, b \in Int : b >= a => q + b >= q + a
  /\ \A p, q, a, b, c \in Int : p + a + b < q + a + c => ~(p + b >= q + c)
OBVIOUS

LEMMA AlertTypes ==
  ASSUME TypeOK
  PROVE  /\ QueuedAlerts \in Nat /\ SvcAlert \in {0, 1}
         /\ \A t \in Apps : AppAlert(t) \in {0, 1}
         /\ \A m \in MoMsg : Bit(m.alert) \in {0, 1}
BY FlagsFinite DEF SvcAlert, AppAlert, Bit

(* A flag leaves the service thread's hands by the two ways only.          *)
FlagLeaves ==
  /\ SvcHoldsFlag /\ ~SvcHoldsFlag' /\ QueuedAlerts' = QueuedAlerts
  /\ SessionAttempted \/ PreparationFailed

LEMMA SvcKeepsAlert ==
  ASSUME TypeOK, SvcStep \/ SvcUrc
  PROVE  FlagLeaves \/ QueuedAlerts' + SvcAlert' >= QueuedAlerts + SvcAlert
<1>0. QueuedAlerts \in Nat /\ SvcAlert \in {0, 1} /\ \A m \in MoMsg : Bit(m.alert) \in {0, 1}
  BY AlertTypes
<1>s. SvcAlert' \in Int /\ SvcAlert' >= 0
  BY DEF SvcAlert
<1>1. CASE SvcTake
  <2>1. /\ moq # <<>> /\ moq' = Tail(moq) /\ cur' = Head(moq) /\ svcPc' = "set"
        /\ svcPc = "loop"
    BY <1>1 DEF SvcTake
  <2>2. SvcAlert = 0 /\ SvcAlert' = Bit(Head(moq).alert)
    BY <2>1 DEF SvcAlert, SvcHoldsFlag, Bit
  <2>3. QueuedAlerts = QueuedAlerts' + Bit(Head(moq).alert)
    BY <2>1, TakeAlert
  <2>4. QueuedAlerts' + SvcAlert' = QueuedAlerts + SvcAlert
    BY <1>0, <2>2, <2>3
  <2>5. QueuedAlerts + SvcAlert \in Nat
    BY <1>0
  <2> QED
    BY <2>4, <2>5
<1>2. CASE SvcMoRetry \/ SvcRequestPut
  <2>1. PICK m \in MoMsg : EnqueueMoMsg(m)
    <3>1. RequestMsg(FALSE) \in MoMsg
      BY DataType
    <3>2. SvcMoRetry => OneRetryLess(cur) \in MoMsg
      BY MsgType DEF SvcMoRetry, TypeOK
    <3> QED
      BY <1>2, <3>1, <3>2 DEF SvcMoRetry, SvcRequestPut, PutRequest
  <2>2. SvcAlert = 0
    BY <1>2 DEF SvcMoRetry, SvcRequestPut, SvcAlert, SvcHoldsFlag
  <2>3. QueuedAlerts' = QueuedAlerts \/ QueuedAlerts' = QueuedAlerts + Bit(m.alert)
    BY <2>1, EnqueueAlert
  <2> QED
    BY <1>0, <1>s, <2>2, <2>3
<1>3. CASE SvcSetOk
  <2>1. moq' = moq /\ cur' = cur /\ svcPc = "set" /\ svcPc' = "sbdix"
    BY <1>3 DEF SvcSetOk
  <2>2. QueuedAlerts' = QueuedAlerts /\ SvcAlert' = SvcAlert
    BY <2>1 DEF QueuedAlerts, SvcAlert, SvcHoldsFlag
  <2> QED
    BY <1>0, <2>2
<1>4. CASE SvcSetFail \/ SvcSbdix
  <2>1. /\ moq' = moq /\ svcPc' \notin {"set", "sbdix"}
        /\ SessionAttempted \/ PreparationFailed
    BY <1>4 DEF SvcSetFail, SvcSbdix, SessionAttempted, PreparationFailed
  <2>2. QueuedAlerts' = QueuedAlerts /\ ~SvcHoldsFlag' /\ SvcAlert' = 0
    BY <2>1 DEF QueuedAlerts, SvcHoldsFlag, SvcAlert
  <2>3. CASE SvcHoldsFlag
    BY <2>1, <2>2, <2>3 DEF FlagLeaves
  <2>4. CASE ~SvcHoldsFlag
    <3>1. SvcAlert = 0
      BY <2>4 DEF SvcAlert
    <3> QED
      BY <1>0, <2>2, <3>1
  <2> QED
    BY <2>3, <2>4
<1>5. CASE \/ SvcUrc \/ SvcBoot \/ SvcIdle
           \/ SvcQuiet \/ SvcSettled \/ SvcSessionFailed
           \/ SvcNoPayload \/ SvcMoSent \/ SvcMoGiveUp
           \/ SvcMtSkip \/ SvcMtAlloc \/ SvcMtRead \/ SvcMtReadFail \/ SvcRequestCheck
  <2>1. moq' = moq /\ svcPc \notin {"set", "sbdix"}
    BY <1>5 DEF SvcUrc, SvcBoot, SvcIdle, SvcQuiet, SvcSettled,
       SvcSessionFailed, SvcNoPayload, SvcMoSent, SvcMoGiveUp, SvcMtSkip, SvcMtAlloc,
       SvcMtRead, SvcMtReadFail, SvcRequestCheck, AfterMo, AfterMt
  <2>2. QueuedAlerts' = QueuedAlerts /\ SvcAlert = 0
    BY <2>1 DEF QueuedAlerts, SvcAlert, SvcHoldsFlag
  <2>3. QueuedAlerts \in Int /\ SvcAlert \in Int /\ SvcAlert' >= SvcAlert
    BY <1>0, <1>s, <2>2
  <2>4. QueuedAlerts' + SvcAlert' >= QueuedAlerts + SvcAlert
    BY <1>s, <2>2, <2>3, MoreOrLess
  <2> QED
    BY <2>4
<1> QED
  BY <1>1, <1>2, <1>3, <1>4, <1>5 DEF SvcStep

LEMMA AppKeepsAlert ==
  ASSUME TypeOK, NEW t \in Apps, Room(t), MoQueueLen > 1, AppStep(t) \/ AppCall(t)
  PROVE  QueuedAlerts' + AppAlert(t)' >= QueuedAlerts + AppAlert(t)
<1>0. /\ appPc \in [Apps -> AppPcs] /\ appMsg \in [Apps -> MoMsg] /\ appPeek \in [Apps -> MoMsg]
      /\ Len(moq) \in Nat /\ MoQueueLen \in Nat
  BY QueueLen DEF TypeOK
<1>a. /\ QueuedAlerts \in Nat /\ AppAlert(t) \in {0, 1} /\ AppAlert(t)' \in {0, 1}
      /\ \A m \in MoMsg : Bit(m.alert) \in {0, 1}
  BY AlertTypes DEF AppAlert
<1> USE DEF AtApp
<1>1. CASE SendMerge(t) \/ SendPeek(t)
  <2>1. appPc[t] = "peek" /\ moq # <<>> /\ moq' = Tail(moq)
    BY <1>1 DEF SendMerge, SendPeek
  <2>2. \/ appPc'[t] = "enq" /\ appMsg'[t].alert = Head(moq).alert
        \/ appPc'[t] = "putback" /\ appPeek'[t] = Head(moq)
    BY <1>0, <1>1 DEF SendMerge, SendPeek, MergeRequest, MoMsg
  <2>3. AppAlert(t) = 0 /\ AppAlert(t)' = Bit(Head(moq).alert)
    BY <2>1, <2>2 DEF AppAlert, HoldsFlag, Bit
  <2>4. QueuedAlerts = QueuedAlerts' + Bit(Head(moq).alert)
    BY <2>1, TakeAlert
  <2>5. QueuedAlerts' + AppAlert(t)' = QueuedAlerts + AppAlert(t)
    BY <1>a, <2>3, <2>4
  <2>6. QueuedAlerts + AppAlert(t) \in Nat
    BY <1>a
  <2> QED
    BY <2>5, <2>6
<1>3. CASE SendPutback(t)
  <2>1. appPc[t] = "putback" /\ EnqueueMoMsg(appPeek[t]) /\ appPeek[t] \in MoMsg
    BY <1>0, <1>3 DEF SendPutback
  <2>2. Len(moq) < MoQueueLen
    BY <1>0, <2>1 DEF Room, AtMost
  <2>3. QueuedAlerts' = QueuedAlerts + Bit(appPeek[t].alert)
    BY <2>1, <2>2, EnqueueAlert
  <2>4. AppAlert(t) = Bit(appPeek[t].alert)
    BY <2>1 DEF AppAlert, HoldsFlag, Bit
  <2> QED
    BY <1>a, <2>3, <2>4
<1>4. CASE SendEnqueue(t)
  <2>1. appPc[t] = "enq" /\ EnqueueMoMsg(appMsg[t]) /\ appMsg[t] \in MoMsg
    BY <1>0, <1>4 DEF SendEnqueue
  <2>2. appMsg[t].alert => Len(moq) < MoQueueLen
    BY <1>0, <2>1 DEF Room, AtMost
  <2>3. AppAlert(t) = Bit(appMsg[t].alert)
    BY <2>1 DEF AppAlert, HoldsFlag, Bit
  <2>4. CASE appMsg[t].alert
    <3>1. QueuedAlerts' = QueuedAlerts + Bit(appMsg[t].alert)
      BY <2>1, <2>2, <2>4, EnqueueAlert
    <3> QED
      BY <1>a, <2>3, <3>1
  <2>5. CASE ~appMsg[t].alert
    <3>1. Bit(appMsg[t].alert) = 0
      BY <2>5 DEF Bit
    <3>2. QueuedAlerts' = QueuedAlerts \/ QueuedAlerts' = QueuedAlerts + 0
      BY <2>1, <3>1, EnqueueAlert
    <3> QED
      BY <1>a, <2>3, <3>1, <3>2
  <2> QED
    BY <2>4, <2>5
<1>5. CASE RequestPut(t)
  <2>1. appPc[t] = "reqput" /\ EnqueueMoMsg(appMsg[t]) /\ appMsg[t] \in MoMsg
    BY <1>0, <1>5 DEF RequestPut, PutRequest
  <2>2. AppAlert(t) = 0
    BY <2>1 DEF AppAlert, HoldsFlag
  <2>3. QueuedAlerts' = QueuedAlerts \/ QueuedAlerts' = QueuedAlerts + Bit(appMsg[t].alert)
    BY <2>1, EnqueueAlert
  <2> QED
    BY <1>a, <2>1, <2>2, <2>3
<1>6. CASE \/ SendAlloc(t) \/ SendUsed(t) \/ SendPeekNone(t)
           \/ RequestCheckBusy(t) \/ RequestCheckEmpty(t)
           \/ (\E alert \in BOOLEAN : RequestCall(t, alert))
           \/ WaitEvt(t) \/ WaitRing(t) \/ DestroyEvt(t)
  <2>1. appPc[t] \notin {"putback", "enq"} /\ moq' = moq
    BY <1>6 DEF SendAlloc, SendUsed, SendPeekNone, RequestCheckBusy, RequestCheckEmpty,
       RequestCall, WaitEvt, WaitRing, DestroyEvt
  <2>2. AppAlert(t) = 0 /\ QueuedAlerts' = QueuedAlerts
    BY <2>1 DEF AppAlert, HoldsFlag, QueuedAlerts
  <2> QED
    BY <1>a, <2>2
<1> QED
  BY <1>1, <1>3, <1>4, <1>5, <1>6 DEF AppStep, AppCall

(* An alert flag is used up by the session attempted with it or by the     *)
(* failed preparation of that session, one at a time, and by nothing else, *)
(* also when a message replaces the request: the one sender always finds   *)
(* room for what it took out, provided the queue has two elements.         *)
THEOREM AlertKept ==
  ASSUME NEW t, Apps = {t}, MoQueueLen > 1
  PROVE  Spec => AlertNotLost
<1>1. TypeOK /\ Room(t) /\ TypeOK' /\ [Next]_vars
        => [Alerts' < Alerts => /\ SvcHoldsFlag /\ Alerts' = Alerts - 1
                                /\ SessionAttempted \/ PreparationFailed]_vars
  <2> SUFFICES ASSUME TypeOK, Room(t), [Next]_vars, Alerts' < Alerts
               PROVE  FlagLeaves /\ Alerts' = Alerts - 1
    BY DEF FlagLeaves
  <2>0. t \in Apps
    OBVIOUS
  <2>1. /\ Alerts = QueuedAlerts + AppAlert(t) + SvcAlert
        /\ Alerts' = QueuedAlerts' + AppAlert(t)' + SvcAlert'
    BY AlertsAre
  <2>2. /\ QueuedAlerts \in Nat /\ SvcAlert \in {0, 1} /\ AppAlert(t) \in {0, 1}
        /\ SvcAlert' \in {0, 1} /\ AppAlert(t)' \in {0, 1}
    BY AlertTypes DEF AppAlert, SvcAlert
  <2>i. /\ SvcAlert \in Int /\ AppAlert(t) \in Int /\ SvcAlert' \in Int /\ AppAlert(t)' \in Int
    BY <2>2
  <2>q. QueuedAlerts' \in Int
    <3>1. CASE moq' = moq
      BY <2>2, <3>1 DEF QueuedAlerts
    <3>2. CASE moq # <<>> /\ moq' = Tail(moq)
      BY <3>2, TakeAlert
    <3>3. CASE \E m \in MoMsg : EnqueueMoMsg(m)
      BY <2>2, <3>3, EnqueueAlert, AlertTypes
    <3> QED
      BY <3>1, <3>2, <3>3, QueueSteps
  <2>3. CASE SvcStep \/ SvcUrc
    <3>1. UNCHANGED appVars
      BY <2>3 DEF SvcStep, SvcUrc, SvcBoot, SvcIdle, SvcTake, SvcSetOk, SvcSetFail, SvcSbdix,
         SvcQuiet, SvcSettled, SvcSessionFailed, SvcNoPayload, SvcMoSent, SvcMoRetry,
         SvcMoGiveUp, SvcMtSkip, SvcMtAlloc, SvcMtRead, SvcMtReadFail,
         SvcRequestCheck, SvcRequestPut, AfterMo, AfterMt
    <3>2. AppAlert(t)' = AppAlert(t)
      BY <3>1 DEF AppAlert, HoldsFlag, appVars
    <3>3. ~(QueuedAlerts' + SvcAlert' >= QueuedAlerts + SvcAlert)
      <4>1. QueuedAlerts' + AppAlert(t) + SvcAlert' < QueuedAlerts + AppAlert(t) + SvcAlert
        BY <2>1, <3>2
      <4>2. QueuedAlerts \in Int
        BY <2>2
      <4> QED
        BY <2>i, <2>q, <4>1, <4>2, MoreOrLess
    <3>4. FlagLeaves
      BY <2>3, <3>3, SvcKeepsAlert
    <3>5. SvcAlert = 1 /\ SvcAlert' = 0 /\ QueuedAlerts' = QueuedAlerts
      BY <3>4 DEF FlagLeaves, SvcAlert
    <3> QED
      BY <2>1, <2>2, <3>2, <3>4, <3>5
  <2>4. CASE AppStep(t) \/ AppCall(t)
    <3>1. UNCHANGED svcVars
      BY <2>4 DEF AppStep, AppCall, SendAlloc, SendUsed, SendPeekNone, SendMerge, SendPeek,
         SendPutback, SendEnqueue, RequestCall, RequestCheckBusy, RequestCheckEmpty,
         RequestPut, WaitEvt, WaitRing, DestroyEvt
    <3>2. SvcAlert' = SvcAlert
      BY <3>1 DEF SvcAlert, SvcHoldsFlag, svcVars
    <3>3. QueuedAlerts' + AppAlert(t)' >= QueuedAlerts + AppAlert(t)
      BY <2>0, <2>4, AppKeepsAlert
    <3> QED
      BY <2>1, <2>2, <2>q, <3>2, <3>3
  <2>5. CASE UNCHANGED vars
    <3>1. QueuedAlerts' = QueuedAlerts /\ SvcAlert' = SvcAlert /\ AppAlert(t)' = AppAlert(t)
      BY <2>5 DEF vars, QueuedAlerts, SvcAlert, SvcHoldsFlag, AppAlert, HoldsFlag
    <3> QED
      BY <2>1, <2>2, <3>1
  <2> QED
    BY <2>3, <2>4, <2>5 DEF Next
<1> QED
  BY <1>1, TypeCorrect, OneSender, PTL DEF Spec, AlertNotLost
=============================================================================
