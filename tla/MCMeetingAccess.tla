---------------------------- MODULE MCMeetingAccess ----------------------------
(***************************************************************************)
(* Small instances of MeetingAccess for TLC.                               *)
(***************************************************************************)
EXTENDS MeetingAccess, TLC

\* Calls are interchangeable.
Symmetry == Permutations(Calls)
=============================================================================
