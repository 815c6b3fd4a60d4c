--------------------------- MODULE MCReviewApproval ---------------------------
(***************************************************************************)
(* Small instances of ReviewApproval for TLC.                              *)
(***************************************************************************)
EXTENDS ReviewApproval, TLC

\* Reviewers are interchangeable, and so are recipients.
Symmetry == Permutations(Approvers) \cup Permutations(People)
=============================================================================
