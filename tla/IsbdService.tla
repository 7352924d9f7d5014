---------------------------- MODULE IsbdService ----------------------------
(***************************************************************************)
(* The Iridium SBD service (lib/iridium/isbd/isbd.c): one service thread   *)
(* running _entry_point, and the application threads that call             *)
(* isbd_send_mo_msg, isbd_request_session, isbd_wait_evt and               *)
(* isbd_destroy_evt.  They share two kernel message queues (mo_msgq and    *)
(* evt_msgq) and the heap blocks whose addresses travel through them.      *)
(*                                                                         *)
(* The threads are preemptive, so an action ends at each kernel call that  *)
(* touches a queue and at each exchange with the modem (isu_...): the rest *)
(* of the code between two such points only touches locals.                *)
(***************************************************************************)
EXTENDS Integers, Sequences, FiniteSets

CONSTANTS
  Apps,            \* application threads that call the API
  Blocks,          \* heap blocks k_malloc may hand out
  NULL,            \* the null pointer
  MoQueueLen,      \* cnf.mo_queue_len
  EvtQueueLen,     \* cnf.evt_queue_len
  RetryBudgets,    \* values of "retries" an application passes
  MsgLens,         \* lengths an application passes
  SigLevels,       \* signal levels the modem reports
  SigqThreshold,   \* cnf.sigq_threshold
  MoStatuses       \* mo_sts values the modem answers

ASSUME QueueAssumption ==
  /\ MoQueueLen \in Nat \ {0}
  /\ EvtQueueLen \in Nat \ {0}

ASSUME HeapAssumption == NULL \notin Blocks

ASSUME InputAssumption ==
  /\ RetryBudgets \subseteq Nat
  /\ MsgLens \subseteq Nat
  /\ SigLevels \subseteq Nat /\ 0 \in SigLevels
  /\ SigqThreshold \in Nat
  /\ MoStatuses \subseteq Nat

VARIABLES
  moq,        \* g_isbd.mo_msgq
  evtq,       \* g_isbd.evt_msgq
  svca,       \* g_isbd.svca, the cached service availability
  sigq,       \* g_isbd.sigq, the cached signal quality
  svcPc,      \* where the service thread is
  cur,        \* mo_msg of _entry_point
  session,    \* session of _init_session
  mt,         \* mt_msg.data of _handle_session_mt_msg
  appPc,      \* where each application thread is
  appMsg,     \* mo_msg of isbd_send_mo_msg / isbd_request_session
  appPeek,    \* _mo_msg of isbd_send_mo_msg
  appEvt,     \* the event an application thread is handling
  owner,      \* the heap: who must free each block ("free": nobody)
  want        \* history: isbd_request_session answered ISBD_OK, and no
              \* session was attempted since

svcVars == <<svca, sigq, svcPc, cur, session, mt>>
appVars == <<appPc, appMsg, appPeek, appEvt>>
vars == <<moq, evtq, svca, sigq, svcPc, cur, session, mt,
          appPc, appMsg, appPeek, appEvt, owner, want>>

(***************************************************************************)
(* Data.                                                                   *)
(***************************************************************************)
(* struct isbd_mo_msg.  "asked" and "tried" are history: the retries the   *)
(* application asked for and the sessions that carried the message.        *)
MoMsg == [data : Blocks \cup {NULL}, len : Nat, alert : BOOLEAN,
          retries : Nat, tried : Nat, asked : Nat]

NoMsg == [data |-> NULL, len |-> 0, alert |-> FALSE,
          retries |-> 0, tried |-> 0, asked |-> 0]

(* The element isbd_request_session enqueues.                              *)
RequestMsg(alert) == [NoMsg EXCEPT !.alert = alert]

(* isbd_evt_t: of the union only the heap pointer of MT and MO matters.    *)
(* "INFO" stands for the ids that no handler acts on: SVCA, SIGQ, ERR and  *)
(* UNK (which the service also puts for an AREG event of the modem).       *)
EvtIds == {"MT", "MO", "RING", "INFO"}
Evt == [id : EvtIds, data : Blocks \cup {NULL}]
NoEvt == [id |-> "INFO", data |-> NULL]
RingEvt == [id |-> "RING", data |-> NULL]

(* isu_session_ext_t, with the result of isu_init_session in "ok".         *)
(* "mt" folds mt_sts and mt_queued: no MT message was received, the last   *)
(* one was, or one was and more are queued at the gateway.                 *)
Session == [ok : BOOLEAN, moSts : MoStatuses \cup {0},
            mt : {"none", "last", "more"}]
NoSession == [ok |-> FALSE, moSts |-> 0, mt |-> "none"]

(* Who must free a block.                                                  *)
Free   == <<"free", NULL>>
InMoq  == <<"moq", NULL>>
InEvtq == <<"evtq", NULL>>
SvcMo  == <<"svcMo", NULL>>
SvcMt  == <<"svcMt", NULL>>
Leaked == <<"leaked", NULL>>
ByMsg(t)  == <<"msg", t>>
ByPeek(t) == <<"peek", t>>
ByEvt(t)  == <<"evt", t>>

Owners == ({"free", "moq", "evtq", "svcMo", "svcMt", "leaked"} \X {NULL})
             \cup ({"msg", "peek", "evt"} \X Apps)

(* k_malloc / k_free / handing a pointer over: block b now belongs to o.   *)
Move(own, b, o) == IF b = NULL THEN own ELSE [own EXCEPT ![b] = o]

FreeBlocks == {b \in Blocks : owner[b] = Free}

(* mo_msg->data && mo_msg->len > 0                                         *)
HasPayload(m) == m.data # NULL /\ m.len > 0

(***************************************************************************)
(* Queue operations (all K_NO_WAIT).                                       *)
(***************************************************************************)
(* _enqueue_mo_msg where no caller frees a message the queue refused: its  *)
(* block is then referenced by nobody.                                     *)
EnqueueMoMsg(m) ==
  IF Len(moq) < MoQueueLen
  THEN moq' = Append(moq, m) /\ owner' = Move(owner, m.data, InMoq)
  ELSE moq' = moq /\ owner' = Move(owner, m.data, Leaked)

(* k_msgq_put on the event queue; the result is not looked at.             *)
(* Mutant: one element too many.                                           *)
EvtqHasRoom_OffByOne == Len(evtq) <= EvtQueueLen

EvtqHasRoom == Len(evtq) < EvtQueueLen
PutEvt(e) == evtq' = IF EvtqHasRoom THEN Append(evtq, e) ELSE evtq

(* Mutant: the event is put and its block freed nevertheless.              *)
NotifyMsg_FreesAlways(id, b) ==
  /\ PutEvt([id |-> id, data |-> b])
  /\ owner' = Move(owner, b, Free)

(* Mutant: the result of the put is not looked at.                         *)
NotifyMsg_Unchecked(id, b) ==
  /\ PutEvt([id |-> id, data |-> b])
  /\ owner' = Move(owner, b, InEvtq)

(* _notify_mo_msg, _notify_mt_msg: a refused event frees its block.        *)
NotifyMsg(id, b) ==
  /\ PutEvt([id |-> id, data |-> b])
  /\ owner' = Move(owner, b, IF EvtqHasRoom THEN InEvtq ELSE Free)

(* _notify_err followed by isbd_destroy_m?_msg.                            *)
NotifyErr(b) ==
  /\ PutEvt(NoEvt)
  /\ owner' = Move(owner, b, Free)

(***************************************************************************)
(* isbd_request_session: the check of the queue and the put are separate   *)
(* calls, made by an application or by the service for an MT message that  *)
(* is still queued at the gateway.                                         *)
(***************************************************************************)
(* Mutant: a busy service counts as a pending request.                     *)
PendingRequests_Busy ==
  IF svcPc \in {"boot", "loop", "wait"} THEN Len(moq) ELSE Len(moq) + 1

(* k_msgq_num_used_get( ISBD_MO_Q )                                        *)
PendingRequests == Len(moq)

PutRequest(m) ==
  /\ EnqueueMoMsg(m)
  /\ want' = (want \/ Len(moq) < MoQueueLen)

(***************************************************************************)
(* The service thread.                                                     *)
(***************************************************************************)
(* _entry_point up to the loop: isu_set_evt_report fills sigq and svca     *)
(* with the values that arrive, or leaves them when it fails.              *)
SvcBoot ==
  /\ svcPc = "boot"
  /\ svca' \in BOOLEAN
  /\ sigq' \in SigLevels
  /\ svcPc' = "loop"
  /\ UNCHANGED <<moq, evtq, cur, session, mt, appVars, owner, want>>

(* Mutant: a signal at the threshold is not enough.                        *)
ServiceUsable_Above == svca /\ sigq > SigqThreshold

ServiceUsable == svca /\ sigq >= SigqThreshold

(* One turn of DO_FOREVER up to the first wait for events.                 *)
SvcIdle ==
  /\ svcPc = "loop"
  /\ ~ServiceUsable \/ moq = <<>>
  /\ svcPc' = "wait"
  /\ UNCHANGED <<moq, evtq, svca, sigq, cur, session, mt, appVars, owner, want>>

SvcTake ==
  /\ svcPc = "loop"
  /\ ServiceUsable
  /\ moq # <<>>
  /\ cur' = Head(moq)
  /\ moq' = Tail(moq)
  /\ owner' = Move(owner, Head(moq).data, SvcMo)
  /\ svcPc' = "set"
  /\ UNCHANGED <<evtq, svca, sigq, session, mt, appVars, want>>

(* _init_session: isu_set_mo or isu_clear_buffer answered OK.              *)
SvcSetOk ==
  /\ svcPc = "set"
  /\ svcPc' = "sbdix"
  /\ UNCHANGED <<moq, evtq, svca, sigq, cur, session, mt, appVars, owner, want>>

(* isu_set_mo failed: the message is destroyed.  isu_clear_buffer failed:  *)
(* nothing is done with the message, not even with an empty payload.       *)
SvcSetFail ==
  /\ svcPc = "set"
  /\ owner' = Move(owner, cur.data, IF HasPayload(cur) THEN Free ELSE Leaked)
  /\ want' = FALSE
  /\ cur' = NoMsg
  /\ svcPc' = "wait"
  /\ UNCHANGED <<moq, evtq, svca, sigq, session, mt, appVars>>

(* isu_init_session: AT+SBDIX or, with the alert flag, AT+SBDIXA.          *)
SvcSbdix ==
  /\ svcPc = "sbdix"
  /\ session' \in {s \in Session : s.ok /\ s.moSts \in MoStatuses} \cup {NoSession}
  /\ cur' = [cur EXCEPT !.tried = @ + 1]
  /\ want' = FALSE
  /\ svcPc' = "settle"
  /\ UNCHANGED <<moq, evtq, svca, sigq, mt, appVars, owner>>

(* _wait_for_dte_events got an event and calls itself again.               *)
SvcUrc ==
  /\ svcPc \in {"settle", "wait"}
  /\ \/ svca' \in BOOLEAN /\ UNCHANGED sigq /\ PutEvt(NoEvt)
     \/ sigq' \in SigLevels /\ UNCHANGED svca /\ PutEvt(NoEvt)
     \/ UNCHANGED <<svca, sigq>> /\ PutEvt(RingEvt)
  /\ UNCHANGED <<moq, svcPc, cur, session, mt, appVars, owner, want>>

(* The wait times out, or reads a line that is not an event.               *)
SvcQuiet ==
  /\ svcPc = "wait"
  /\ svcPc' = "loop"
  /\ UNCHANGED <<moq, evtq, svca, sigq, cur, session, mt, appVars, owner, want>>

SvcSettled ==
  /\ svcPc = "settle"
  /\ session.ok
  /\ svcPc' = "mo"
  /\ UNCHANGED <<moq, evtq, svca, sigq, cur, session, mt, appVars, owner, want>>

(* The session failed: mo_msg goes out of scope as it is.                  *)
SvcSessionFailed ==
  /\ svcPc = "settle"
  /\ ~session.ok
  /\ owner' = Move(owner, cur.data, Leaked)
  /\ cur' = NoMsg
  /\ svcPc' = "wait"
  /\ UNCHANGED <<moq, evtq, svca, sigq, session, mt, appVars, want>>

(* Mutant: status 3 counts as sent.                                        *)
SentByIsu_OffByOne == session.moSts <= 3

(* _handle_session_mo_msg                                                  *)
SentByIsu == session.moSts < 3

AfterMo ==
  /\ svcPc' = "mt"
  /\ cur' = NoMsg
  /\ session' = [session EXCEPT !.moSts = 0]     \* not read again
  /\ UNCHANGED <<svca, sigq, mt, appVars, want>>

(* A session request, or a message of length 0, whose block nobody frees.  *)
SvcNoPayload ==
  /\ svcPc = "mo"
  /\ ~HasPayload(cur)
  /\ owner' = Move(owner, cur.data, Leaked)
  /\ AfterMo
  /\ UNCHANGED <<moq, evtq>>

SvcMoSent ==
  /\ svcPc = "mo"
  /\ HasPayload(cur)
  /\ SentByIsu
  /\ NotifyMsg("MO", cur.data)
  /\ AfterMo
  /\ UNCHANGED moq

(* Mutant: the retry is enqueued with the counter it had.                  *)
OneRetryLess_Forgotten(m) == m

OneRetryLess(m) == [m EXCEPT !.retries = @ - 1]

SvcMoRetry ==
  /\ svcPc = "mo"
  /\ HasPayload(cur)
  /\ ~SentByIsu
  /\ cur.retries > 0
  /\ EnqueueMoMsg(OneRetryLess(cur))
  /\ AfterMo
  /\ UNCHANGED evtq

SvcMoGiveUp ==
  /\ svcPc = "mo"
  /\ HasPayload(cur)
  /\ ~SentByIsu
  /\ cur.retries = 0
  /\ NotifyErr(cur.data)
  /\ AfterMo
  /\ UNCHANGED moq

(* _handle_session_mt_msg                                                  *)
AfterMt(pc) ==
  /\ svcPc' = pc
  /\ session' = NoSession
  /\ UNCHANGED <<moq, svca, sigq, cur, appVars>>

(* No MT message, or no memory for it: nothing else is done.               *)
SvcMtSkip ==
  /\ svcPc = "mt"
  /\ AfterMt("wait")
  /\ UNCHANGED <<evtq, mt, owner, want>>

SvcMtAlloc ==
  /\ svcPc = "mt"
  /\ session.mt # "none"
  /\ \E b \in FreeBlocks : mt' = b /\ owner' = Move(owner, b, SvcMt)
  /\ svcPc' = "read"
  /\ UNCHANGED <<moq, evtq, svca, sigq, cur, session, appVars, want>>

(* _read_mt_msg read the message and its checksum agrees.  The session     *)
(* that the rest of the gateway's queue needs is asked for afterwards.     *)
SvcMtRead ==
  /\ svcPc = "read"
  /\ NotifyMsg("MT", mt)
  /\ mt' = NULL
  /\ AfterMt(IF session.mt = "more" THEN "reqcheck" ELSE "wait")
  /\ UNCHANGED want

SvcMtReadFail ==
  /\ svcPc = "read"
  /\ NotifyErr(mt)
  /\ mt' = NULL
  /\ AfterMt("wait")
  /\ UNCHANGED want

(* isbd_request_session( false ) of the service thread                     *)
SvcRequestCheck ==
  /\ svcPc = "reqcheck"
  /\ IF PendingRequests = 0
     THEN svcPc' = "reqput" /\ UNCHANGED want
     ELSE svcPc' = "wait" /\ want' = TRUE
  /\ UNCHANGED <<moq, evtq, svca, sigq, cur, session, mt, appVars, owner>>

SvcRequestPut ==
  /\ svcPc = "reqput"
  /\ PutRequest(RequestMsg(FALSE))
  /\ svcPc' = "wait"
  /\ UNCHANGED <<evtq, svca, sigq, cur, session, mt, appVars>>

(* What the service thread does by itself, once scheduled.                 *)
SvcStep ==
  \/ SvcBoot \/ SvcIdle \/ SvcTake \/ SvcSetOk \/ SvcSetFail \/ SvcSbdix
  \/ SvcQuiet \/ SvcSettled \/ SvcSessionFailed
  \/ SvcNoPayload \/ SvcMoSent \/ SvcMoRetry \/ SvcMoGiveUp
  \/ SvcMtSkip \/ SvcMtAlloc \/ SvcMtRead \/ SvcMtReadFail
  \/ SvcRequestCheck \/ SvcRequestPut

(***************************************************************************)
(* The application threads.                                                *)
(***************************************************************************)
AtApp(t, from, to) == appPc[t] = from /\ appPc' = [appPc EXCEPT ![t] = to]

(* isbd_send_mo_msg: the copy of the message; without memory the call ends *)
(* there.  k_malloc( 0 ) returns a block too.                              *)
SendAlloc(t) ==
  /\ AtApp(t, "idle", "used")
  /\ \E b \in FreeBlocks, n \in MsgLens, r \in RetryBudgets :
       /\ appMsg' = [appMsg EXCEPT ![t] =
            [data |-> b, len |-> n, alert |-> FALSE,
             retries |-> r, tried |-> 0, asked |-> r]]
       /\ owner' = Move(owner, b, ByMsg(t))
  /\ UNCHANGED <<moq, evtq, svcVars, appPeek, appEvt, want>>

(* Mutant: the head is looked at whenever there is one.                    *)
OneQueued_OrMore == Len(moq) >= 1

(* k_msgq_num_used_get( ISBD_MO_Q ) == 1                                   *)
OneQueued == Len(moq) = 1

SendUsed(t) ==
  /\ AtApp(t, "used", IF OneQueued THEN "peek" ELSE "enq")
  /\ UNCHANGED <<moq, evtq, svcVars, appMsg, appPeek, appEvt, owner, want>>

(* The one queued message is gone when k_msgq_get looks for it.            *)
SendPeekNone(t) ==
  /\ AtApp(t, "peek", "enq")
  /\ moq = <<>>
  /\ UNCHANGED <<moq, evtq, svcVars, appMsg, appPeek, appEvt, owner, want>>

(* Mutant: the request is replaced and its alert flag forgotten.           *)
MergeRequest_NoAlert(m, request) == m

(* mo_msg.alert = _mo_msg.alert                                            *)
MergeRequest(m, request) == [m EXCEPT !.alert = request.alert]

(* It is a session request: the message replaces it.                       *)
SendMerge(t) ==
  /\ AtApp(t, "peek", "enq")
  /\ moq # <<>>
  /\ Head(moq).data = NULL
  /\ moq' = Tail(moq)
  /\ appMsg' = [appMsg EXCEPT ![t] = MergeRequest(@, Head(moq))]
  /\ UNCHANGED <<evtq, svcVars, appPeek, appEvt, owner, want>>

(* It is a message: it is out of the queue until it is put back.           *)
SendPeek(t) ==
  /\ AtApp(t, "peek", "putback")
  /\ moq # <<>>
  /\ Head(moq).data # NULL
  /\ moq' = Tail(moq)
  /\ appPeek' = [appPeek EXCEPT ![t] = Head(moq)]
  /\ owner' = Move(owner, Head(moq).data, ByPeek(t))
  /\ UNCHANGED <<evtq, svcVars, appMsg, appEvt, want>>

SendPutback(t) ==
  /\ AtApp(t, "putback", "enq")
  /\ EnqueueMoMsg(appPeek[t])
  /\ appPeek' = [appPeek EXCEPT ![t] = NoMsg]
  /\ UNCHANGED <<evtq, svcVars, appMsg, appEvt, want>>

(* return _enqueue_mo_msg( &mo_msg ): ISBD_ERR_SPACE does not free it.     *)
SendEnqueue(t) ==
  /\ AtApp(t, "enq", "idle")
  /\ EnqueueMoMsg(appMsg[t])
  /\ appMsg' = [appMsg EXCEPT ![t] = NoMsg]
  /\ UNCHANGED <<evtq, svcVars, appPeek, appEvt, want>>

(* isbd_request_session                                                    *)
RequestCall(t, alert) ==
  /\ AtApp(t, "idle", "reqcheck")
  /\ appMsg' = [appMsg EXCEPT ![t] = RequestMsg(alert)]
  /\ UNCHANGED <<moq, evtq, svcVars, appPeek, appEvt, owner, want>>

RequestCheckBusy(t) ==
  /\ AtApp(t, "reqcheck", "idle")
  /\ PendingRequests # 0
  /\ want' = TRUE
  /\ appMsg' = [appMsg EXCEPT ![t] = NoMsg]
  /\ UNCHANGED <<moq, evtq, svcVars, appPeek, appEvt, owner>>

RequestCheckEmpty(t) ==
  /\ AtApp(t, "reqcheck", "reqput")
  /\ PendingRequests = 0
  /\ UNCHANGED <<moq, evtq, svcVars, appMsg, appPeek, appEvt, owner, want>>

RequestPut(t) ==
  /\ AtApp(t, "reqput", "idle")
  /\ PutRequest(appMsg[t])
  /\ appMsg' = [appMsg EXCEPT ![t] = NoMsg]
  /\ UNCHANGED <<evtq, svcVars, appPeek, appEvt>>

(* isbd_wait_evt returns true: the event and its block are the caller's.   *)
WaitEvt(t) ==
  /\ evtq # <<>>
  /\ Head(evtq).id # "RING"
  /\ AtApp(t, "idle", "handle")
  /\ evtq' = Tail(evtq)
  /\ appEvt' = [appEvt EXCEPT ![t] = Head(evtq)]
  /\ owner' = Move(owner, Head(evtq).data, ByEvt(t))
  /\ UNCHANGED <<moq, svcVars, appMsg, appPeek, want>>

(* For a ring alert, the handler of the sample application asks for a      *)
(* session; isbd_destroy_evt has nothing to free.                          *)
WaitRing(t) ==
  /\ evtq # <<>>
  /\ Head(evtq).id = "RING"
  /\ AtApp(t, "idle", "reqcheck")
  /\ evtq' = Tail(evtq)
  /\ appMsg' = [appMsg EXCEPT ![t] = RequestMsg(TRUE)]
  /\ UNCHANGED <<moq, svcVars, appPeek, appEvt, owner, want>>

(* isbd_destroy_evt frees the block of an MO or MT event.                  *)
DestroyEvt(t) ==
  /\ AtApp(t, "handle", "idle")
  /\ owner' = IF appEvt[t].id \in {"MO", "MT"}
              THEN Move(owner, appEvt[t].data, Free) ELSE owner
  /\ appEvt' = [appEvt EXCEPT ![t] = NoEvt]
  /\ UNCHANGED <<moq, evtq, svcVars, appMsg, appPeek, want>>

(* The rest of a call, once it was made.                                   *)
AppStep(t) ==
  \/ SendUsed(t) \/ SendPeekNone(t) \/ SendMerge(t) \/ SendPeek(t)
  \/ SendPutback(t) \/ SendEnqueue(t)
  \/ RequestCheckBusy(t) \/ RequestCheckEmpty(t) \/ RequestPut(t)
  \/ DestroyEvt(t)

AppCall(t) ==
  \/ SendAlloc(t)
  \/ \E alert \in BOOLEAN : RequestCall(t, alert)
  \/ WaitEvt(t)
  \/ WaitRing(t)

(***************************************************************************)
(* The specification: isbd_setup has created the queues and the thread.    *)
(***************************************************************************)
Init ==
  /\ moq = <<>> /\ evtq = <<>>
  /\ svca = FALSE /\ sigq = 0
  /\ svcPc = "boot" /\ cur = NoMsg /\ session = NoSession /\ mt = NULL
  /\ appPc = [t \in Apps |-> "idle"]
  /\ appMsg = [t \in Apps |-> NoMsg]
  /\ appPeek = [t \in Apps |-> NoMsg]
  /\ appEvt = [t \in Apps |-> NoEvt]
  /\ owner = [b \in Blocks |-> Free]
  /\ want = FALSE

Next ==
  \/ SvcStep
  \/ SvcUrc
  \/ \E t \in Apps : AppStep(t) \/ AppCall(t)

Spec == Init /\ [][Next]_vars

(* The kernel schedules every thread that can run; a call, once made, goes *)
(* on, but no application is obliged to call and no event to arrive.       *)
Fairness == WF_vars(SvcStep) /\ \A t \in Apps : WF_vars(AppStep(t))

FairSpec == Spec /\ Fairness

(***************************************************************************)
(* Properties.                                                             *)
(***************************************************************************)
SvcPcs == {"boot", "loop", "set", "sbdix", "settle", "mo", "mt", "read",
           "reqcheck", "reqput", "wait"}
AppPcs == {"idle", "used", "peek", "putback", "enq", "reqcheck", "reqput", "handle"}

(* Every variable has its type, and the queues never hold more than their  *)
(* capacity.                                                               *)
TypeOK ==
  /\ moq \in Seq(MoMsg) /\ Len(moq) <= MoQueueLen
  /\ evtq \in Seq(Evt) /\ Len(evtq) <= EvtQueueLen
  /\ svca \in BOOLEAN /\ sigq \in SigLevels
  /\ svcPc \in SvcPcs /\ cur \in MoMsg /\ session \in Session
  /\ mt \in Blocks \cup {NULL}
  /\ appPc \in [Apps -> AppPcs]
  /\ appMsg \in [Apps -> MoMsg]
  /\ appPeek \in [Apps -> MoMsg]
  /\ appEvt \in [Apps -> Evt]
  /\ owner \in [Blocks -> Owners]
  /\ want \in BOOLEAN

(* The elements of q that carry a block carry different blocks, and o is   *)
(* the one who must free them.                                             *)
OwnsQueue(own, q, o) ==
  /\ \A i \in 1..Len(q) : q[i].data # NULL => own[q[i].data] = o
  /\ \A i, j \in 1..Len(q) : q[i].data = q[j].data /\ i # j => q[i].data = NULL

OwnsLocal(own, b, o) == b # NULL => own[b] = o

(* Every pointer in a queue or in a thread's hands points to an allocated  *)
(* block that this queue or thread alone must free: no interleaving of     *)
(* sends, peeks, retries and events frees a block twice, leaves a pointer  *)
(* to a freed block or lets two holders share one.                         *)
Ownership ==
  /\ OwnsQueue(owner, moq, InMoq)
  /\ OwnsQueue(owner, evtq, InEvtq)
  /\ OwnsLocal(owner, cur.data, SvcMo)
  /\ OwnsLocal(owner, mt, SvcMt)
  /\ \A t \in Apps : /\ OwnsLocal(owner, appMsg[t].data, ByMsg(t))
                     /\ OwnsLocal(owner, appPeek[t].data, ByPeek(t))
                     /\ OwnsLocal(owner, appEvt[t].data, ByEvt(t))

InQueue(b, q) == \E i \in 1..Len(q) : q[i].data = b

(* The other direction: a block that was allocated and not written off by  *)
(* one of the code's leaking paths is still held by the one who must free  *)
(* it.  No other path loses a block.                                       *)
NoOtherLeak ==
  \A b \in Blocks :
    /\ owner[b] = InMoq  => InQueue(b, moq)
    /\ owner[b] = InEvtq => InQueue(b, evtq)
    /\ owner[b] = SvcMo  => cur.data = b
    /\ owner[b] = SvcMt  => mt = b
    /\ \A t \in Apps : /\ owner[b] = ByMsg(t)  => appMsg[t].data = b
                       /\ owner[b] = ByPeek(t) => appPeek[t].data = b
                       /\ owner[b] = ByEvt(t)  => appEvt[t].data = b

(* The life of a message: a message that a session carried is never queued *)
(* again and becomes the application's event, one that the gateway refused *)
(* is never told as sent, and none disappears but as the code's error      *)
(* paths make it.  (For a block of the service, what the session made of   *)
(* it.)                                                                    *)
InService ==
  IF ~HasPayload(cur) THEN "void"
  ELSE IF svcPc \in {"set", "sbdix"} THEN "dialled"
  ELSE IF ~session.ok THEN "failed"
  ELSE IF session.moSts < 3 THEN "carried" ELSE "refused"
StageWith == [free |-> "none", msg |-> "held", peek |-> "held", moq |-> "queued",
              svcMt |-> "reading", evtq |-> "told", evt |-> "handled", leaked |-> "lost"]
StageAt(o, inService) == IF o = SvcMo THEN inService ELSE StageWith[o[1]]
Delivery == INSTANCE SbdDelivery WITH
  stage <- [b \in Blocks |-> StageAt(owner[b], InService)]
DeliveryKept == Delivery!Spec

(* A session attempt uses up one retry: a message with a payload is sent   *)
(* in at most asked + 1 sessions, however often a sender takes it out of   *)
(* the queue and puts it back.                                             *)
BudgetKept(m, spent) == HasPayload(m) => m.tried + m.retries = m.asked + spent
AfterSbdix == IF svcPc \in {"settle", "mo"} THEN 1 ELSE 0
RetryBudget ==
  /\ \A i \in 1..Len(moq) : BudgetKept(moq[i], 0)
  /\ \A t \in Apps : BudgetKept(appMsg[t], 0) /\ BudgetKept(appPeek[t], 0)
  /\ BudgetKept(cur, AfterSbdix)

(* A session that isbd_request_session promised (ISBD_OK) is still going   *)
(* to take place: a message or request is queued, the service is about to  *)
(* dial, or a sender that emptied the queue is about to fill it again.     *)
RequestNotForgotten ==
  want =>
    \/ moq # <<>>
    \/ svcPc \in {"set", "sbdix"}
    \/ \E t \in Apps : appPc[t] \in {"putback", "enq"}

(* An alert flag in the queue or in the threads' hands is neither dropped  *)
(* nor merged with another one: each goes by the service alone, one at a   *)
(* time, in a session it attempts with AT+SBDIXA, or when the preparation  *)
(* of that session fails (isu_set_mo or isu_clear_buffer): the request is  *)
(* then given up, and nothing is attempted.  This holds also when messages *)
(* take the place of requests (for one sending thread and a queue of two   *)
(* or more: with one, a retry takes the place).                            *)
Flagged(q) == {i \in 1..Len(q) : q[i].alert}
HoldsFlag(t) == \/ appPc[t] = "putback" /\ appPeek[t].alert
                \/ appPc[t] = "enq" /\ appMsg[t].alert
SvcHoldsFlag == svcPc \in {"set", "sbdix"} /\ cur.alert
Alerts == Cardinality(Flagged(moq)) + Cardinality({t \in Apps : HoldsFlag(t)})
            + (IF SvcHoldsFlag THEN 1 ELSE 0)
SessionAttempted == svcPc = "sbdix" /\ svcPc' = "settle"
PreparationFailed == svcPc = "set" /\ svcPc' = "wait"
AlertNotLost ==
  [][Alerts' < Alerts => /\ SvcHoldsFlag /\ Alerts' = Alerts - 1
                         /\ SessionAttempted \/ PreparationFailed]_vars

(* The order of two messages that no session has carried yet: a is handed  *)
(* to the modem before b.                                                  *)
Fresh(m) == HasPayload(m) /\ m.tried = 0
QueuedBefore(a, b) ==
  \/ \E i, j \in 1..Len(moq) : i < j /\ moq[i].data = a /\ moq[j].data = b
                               /\ Fresh(moq[i]) /\ Fresh(moq[j])
  \/ \E t \in Apps : /\ appPeek[t].data = a /\ Fresh(appPeek[t])
                     /\ \E j \in 1..Len(moq) : moq[j].data = b /\ Fresh(moq[j])

(* With one sending thread, taking the queued message out and putting it   *)
(* back never lets a later message overtake an earlier one that no session *)
(* has carried yet, whatever the service enqueues in between.              *)
NoOvertaking ==
  [][\A a, b \in Blocks : QueuedBefore(a, b) => ~QueuedBefore(b, a)']_vars

(* While the service stays usable, a block that is handed over to          *)
(* isbd_send_mo_msg reaches its end: an event, a free or a leaking path.   *)
(* No message waits forever in the queue, in a sender's hands or in a      *)
(* retry loop.                                                             *)
StaysUsable == <>[](svca /\ sigq >= SigqThreshold)
Pending(b) == owner[b][1] \in {"moq", "svcMo", "msg", "peek"}
MessageResolved == StaysUsable => \A b \in Blocks : Pending(b) ~> ~Pending(b)

(* While the service stays usable, every promised session takes place (or  *)
(* its preparation fails).                                                 *)
RequestServed == StaysUsable => want ~> ~want

(* isbd.h:79-80, "If there is currently any message in the mobile          *)
(* originated queue (or any session request) no session request will be    *)
(* enqueued": a session request is appended to an empty queue only.        *)
RequestOnlyWhenEmpty ==
  [][Len(moq') > Len(moq) /\ moq'[Len(moq')].data = NULL => moq = <<>>]_vars

(* samples/isbd_app/src/main.c:197-198, "The user is obliged to call this  *)
(* function, otherwise memory leaks are a possibility": an application     *)
(* that destroys every event it gets leaks nothing.                        *)
NoLeak == \A b \in Blocks : owner[b] # Leaked
=============================================================================
