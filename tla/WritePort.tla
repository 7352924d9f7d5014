----------------------------- MODULE WritePort -----------------------------
(***************************************************************************)
(* What zuart_write promises its caller (lib/zuart/inc/zuart.h), whichever *)
(* technique moves the bytes: a channel that sends what it accepted, in    *)
(* order, and a call that accepts less than it was given only for a reason *)
(* it tells.  ZuartTx implements it.  The bytes are numbered.              *)
(***************************************************************************)
EXTENDS Integers, Sequences

VARIABLES
  technique,  \* "irq", "poll", or "none": the port has no way to write
  accepted,   \* number of bytes accepted so far
  queue,      \* those that wait to be sent, in order
  out,        \* those on the line, in order
  busy,       \* the thread is in a call
  wants,      \* bytes of the call that are not accepted yet
  timed,      \* the call may wait
  err         \* what zuart_get_err returns

port == <<technique, accepted, queue, out, busy, wants, timed, err>>

Errors == {"OK", "ERR", "OVERRUN", "TIMEOUT"}

(* The calls of the other direction share "err".                           *)
StartWrite ==
  /\ ~busy /\ technique # "none"
  /\ busy' = TRUE /\ wants' \in Nat /\ timed' \in BOOLEAN /\ err' \in Errors
  /\ UNCHANGED <<technique, accepted, queue, out>>

Refuse ==
  /\ ~busy /\ technique = "none"
  /\ err' = "ERR"
  /\ UNCHANGED <<technique, accepted, queue, out, busy, wants, timed>>

Accept ==
  /\ busy
  /\ \E k \in 1..wants :
       /\ accepted' = accepted + k
       /\ queue' = queue \o [i \in 1..k |-> accepted + i]
       /\ wants' = wants - k
  /\ UNCHANGED <<technique, out, busy, timed, err>>

Send ==
  /\ queue # <<>>
  /\ out' = Append(out, Head(queue))
  /\ queue' = Tail(queue)
  /\ UNCHANGED <<technique, accepted, busy, wants, timed, err>>

(* A timed call that is short has just set "err"; no other call sets it.   *)
(* Polling takes all the bytes.                                            *)
Return ==
  /\ busy /\ (technique = "poll" => wants = 0)
  /\ busy' = FALSE
  /\ err' = IF timed /\ wants > 0 THEN "TIMEOUT" ELSE err
  /\ UNCHANGED <<technique, accepted, queue, out, wants, timed>>

Init ==
  /\ technique \in {"irq", "poll", "none"}
  /\ accepted = 0 /\ queue = <<>> /\ out = <<>>
  /\ busy = FALSE /\ wants = 0 /\ timed = FALSE /\ err = "OK"

Next == StartWrite \/ Refuse \/ Accept \/ Send \/ Return

Spec == Init /\ [][Next]_port
=============================================================================
