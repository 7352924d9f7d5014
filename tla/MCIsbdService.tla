--------------------------- MODULE MCIsbdService ---------------------------
(***************************************************************************)
(* Values for model checking IsbdService: two signal levels around the     *)
(* threshold, message lengths 0 and 1, mo_sts values around the "< 3" of   *)
(* _handle_session_mo_msg.                                                 *)
(***************************************************************************)
EXTENDS IsbdService, TLC

MCMsgLens == {0, 1}
MCOneLen == {1}
MCRetries == {0, 1}
MCOneRetry == {1}
MCSigLevels == {0, 1}
MCOneLevel == {0}
MCMoStatuses == {2, 3}
Symmetry == Permutations(Blocks)
AppSymmetry == Permutations(Blocks) \cup Permutations(Apps)
=============================================================================
