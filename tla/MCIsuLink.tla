----------------------------- MODULE MCIsuLink -----------------------------
(***************************************************************************)
(* Values for model checking IsuLink: numeric and verbose result codes,    *)
(* each with a modem that answers in time and keeps events apart, one that *)
(* answers in time with events anywhere, and one that is late too; and     *)
(* messages that read like result codes, with an event anywhere.           *)
(***************************************************************************)
EXTENDS IsuLink

Kind(v, l, i, m) ==
  [verbose |-> v, echo |-> v, late |-> l, inside |-> i, codes |-> FALSE, urcs |-> m]
CodeTextKind == [Kind(TRUE, FALSE, TRUE, 1) EXCEPT !.codes = TRUE]

MCModes ==
  UNION {{Kind(v, FALSE, FALSE, 2), Kind(v, FALSE, TRUE, 2), Kind(v, TRUE, TRUE, 1)} :
           v \in BOOLEAN}
    \cup {CodeTextKind}
=============================================================================
