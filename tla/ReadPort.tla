------------------------------ MODULE ReadPort ------------------------------
(***************************************************************************)
(* What zuart_read and zuart_drain promise their caller (lib/zuart/inc/    *)
(* zuart.h), whichever technique moves the bytes: a channel from which     *)
(* bytes come in order and once, a call that is short only for a reason it *)
(* tells, and a loss that is told once.  ZuartRx implements it.            *)
(***************************************************************************)
EXTENDS Integers, Sequences

VARIABLES
  technique,  \* "irq", "poll", "shared" (polling beside an interrupt), or
              \* "none": the port has no way to read
  arrived,    \* number of bytes that came from the line
  queue,      \* those that wait to be read, in order
  out,        \* those delivered, in order
  missed,     \* a byte was lost since the last report
  call,       \* "none", "read", "told" (a read that reported a loss), "drain"
  wants,      \* bytes the call has not got yet
  timed,      \* the call may wait
  err         \* what zuart_get_err returns

port == <<technique, arrived, queue, out, missed, call, wants, timed, err>>

Errors == {"OK", "ERR", "OVERRUN", "TIMEOUT"}

(* A byte comes; if it is lost, the interrupt driven port takes note.      *)
Arrive ==
  /\ technique # "none"
  /\ arrived' = arrived + 1
  /\ \/ queue' = Append(queue, arrived + 1) /\ UNCHANGED missed
     \/ missed' = (missed \/ technique = "irq") /\ UNCHANGED queue
  /\ UNCHANGED <<technique, out, call, wants, timed, err>>

(* A polled port that shares the interrupt loses the byte that is next in  *)
(* line, and nobody is told.                                               *)
Steal ==
  /\ technique = "shared" /\ queue # <<>>
  /\ queue' = Tail(queue)
  /\ UNCHANGED <<technique, arrived, out, missed, call, wants, timed, err>>

(* The calls of the other direction share "err".                           *)
StartRead ==
  /\ call = "none" /\ technique # "none"
  /\ call' = "read" /\ wants' \in Nat /\ timed' \in BOOLEAN /\ err' \in Errors
  /\ UNCHANGED <<technique, arrived, queue, out, missed>>

Refuse ==
  /\ call = "none" /\ technique = "none"
  /\ err' = "ERR"
  /\ UNCHANGED <<technique, arrived, queue, out, missed, call, wants, timed>>

Deliver ==
  /\ call = "read"
  /\ \E k \in 1..Len(queue) :
       /\ k <= wants
       /\ out' = out \o SubSeq(queue, 1, k)
       /\ queue' = SubSeq(queue, k + 1, Len(queue))
       /\ wants' = wants - k
  /\ UNCHANGED <<technique, arrived, missed, call, timed, err>>

(* Why a call may be short.                                                *)
Reasons == IF technique = "irq" THEN {"TIMEOUT"} ELSE {"TIMEOUT", "ERR"}

(* A timed call that is short has just set "err"; no other call sets it.   *)
Return ==
  /\ call = "read" /\ ~missed
  /\ err' \in IF timed /\ wants > 0 THEN Reasons ELSE {err}
  /\ call' = "none"
  /\ UNCHANGED <<technique, arrived, queue, out, missed, wants, timed>>

(* A loss is told by the call that ends after it, and only then.           *)
Tell ==
  /\ call = "read" /\ missed
  /\ err' = "OVERRUN" /\ call' = "told"
  /\ UNCHANGED <<technique, arrived, queue, out, missed, wants, timed>>

ReturnTold ==
  /\ call = "told"
  /\ missed' = FALSE /\ call' = "none"
  /\ UNCHANGED <<technique, arrived, queue, out, wants, timed, err>>

(* A drain throws away what was there when it was called, in polling mode  *)
(* nothing.                                                                *)
StartDrain ==
  /\ call = "none"
  /\ call' = "drain"
  /\ wants' = IF technique = "irq" THEN Len(queue) ELSE 0
  /\ UNCHANGED <<technique, arrived, queue, out, missed, timed, err>>

Purge ==
  /\ call = "drain"
  /\ queue' = SubSeq(queue, wants + 1, Len(queue))
  /\ wants' = 0 /\ call' = "none"
  /\ UNCHANGED <<technique, arrived, out, missed, timed, err>>

Init ==
  /\ technique \in {"irq", "poll", "shared", "none"}
  /\ arrived = 0 /\ queue = <<>> /\ out = <<>> /\ missed = FALSE
  /\ call = "none" /\ wants = 0 /\ timed = FALSE /\ err = "OK"

Next ==
  \/ Arrive \/ Steal \/ StartRead \/ Refuse \/ Deliver \/ Return
  \/ Tell \/ ReturnTold \/ StartDrain \/ Purge

Spec == Init /\ [][Next]_port
=============================================================================
