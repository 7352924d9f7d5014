---------------------------- MODULE SbdDelivery ----------------------------
(***************************************************************************)
(* What becomes of a message of the application, or from the gateway, as   *)
(* the interface lib/iridium/inc/isbd.h promises it: the life of each heap *)
(* block that holds one, whatever the threads and queues that hand it on.  *)
(* IsbdService implements it.                                              *)
(***************************************************************************)
CONSTANT Blocks

VARIABLE stage   \* of each block


(* A sender copies the message, and queues it or is refused.  While the    *)
(* message waits another sender may hold it for a moment.                  *)
Sent == {<<"none", "held">>, <<"held", "queued">>, <<"held", "lost">>, <<"queued", "held">>}

(* The service takes it for the one session that has it, unless it cannot  *)
(* be set; without content it carries nothing.                             *)
Dialled == {<<"queued", "dialled">>, <<"queued", "void">>, <<"dialled", "none">>}
              \cup {"dialled"} \X {"carried", "refused", "failed"}

(* Only a carried message becomes an event (or is dropped with a full      *)
(* queue of events), and it is never sent again; only a refused one goes   *)
(* back to the queue, or is given up.                                      *)
Ended == {"carried"} \X {"told", "none"} \cup {"refused"} \X {"queued", "lost", "none"}
           \cup {"failed", "void"} \X {"lost"}

(* A message from the gateway is read and becomes an event.                *)
Received == {<<"none", "reading">>, <<"reading", "told">>, <<"reading", "none">>}

(* The application takes the event, and destroys it.                       *)
Handled == {<<"told", "handled">>, <<"handled", "none">>}

Lives == Sent \cup Dialled \cup Ended \cup Received \cup Handled

Init == stage = [b \in Blocks |-> "none"]

Live(b) ==
  /\ <<stage[b], stage'[b]>> \in Lives
  /\ \A c \in Blocks \ {b} : stage'[c] = stage[c]

Next == \E b \in Blocks : Live(b)

Spec == Init /\ [][Next]_stage
=============================================================================
