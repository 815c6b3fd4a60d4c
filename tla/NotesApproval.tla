---------------------------- MODULE NotesApproval ----------------------------
(***************************************************************************)
(* What the review of a meeting promises, without requests, locks, claims, *)
(* fingerprints or a mail service: the notes are mailed at most once and   *)
(* as the reviewer saw them, they stay as mailed, and the approval names   *)
(* what was shown to whoever approved.                                     *)
(***************************************************************************)
CONSTANTS Reviewers, Recipients, Notes, FirstNotes, Decisions, FirstDecisions, None

VARIABLES
  notes,      (* the action items as they stand                            *)
  decisions,  (* the decisions as they stand                               *)
  shown,      (* the letter each reviewer looks at, or None                *)
  outgoing,   (* the letter that is bound to be the one mailed, or None    *)
  mailed,     (* the letters that left, in order                           *)
  approval    (* the letter approved, by whom and whether it left, or None *)

review == <<notes, decisions, shown, outgoing, mailed, approval>>

Letter(to) == [to |-> to, notes |-> notes]

Init ==
  /\ notes = FirstNotes /\ decisions = FirstDecisions
  /\ shown = [a \in Reviewers |-> None]
  /\ outgoing = None /\ mailed = <<>> /\ approval = None

\* Nothing is revised behind a letter on its way or an approval.
Revise ==
  /\ approval = None /\ outgoing = None
  /\ notes' \in Notes /\ decisions' \in Decisions
  /\ UNCHANGED <<shown, outgoing, mailed, approval>>

Look(a) ==
  /\ \E to \in SUBSET Recipients : shown' = [shown EXCEPT ![a] = Letter(to)]
  /\ UNCHANGED <<notes, decisions, outgoing, mailed, approval>>

LookAway(a) ==
  /\ shown' = [shown EXCEPT ![a] = None]
  /\ UNCHANGED <<notes, decisions, outgoing, mailed, approval>>

\* A reviewer has the letter mailed that they look at, if it is what the notes say now.
Bind(a) ==
  /\ approval = None /\ outgoing = None
  /\ shown[a] # None /\ shown[a].notes = notes
  /\ outgoing' = shown[a]
  /\ UNCHANGED <<notes, decisions, shown, mailed, approval>>

Send ==
  /\ outgoing # None /\ mailed = <<>>
  /\ mailed' = <<outgoing>>
  /\ UNCHANGED <<notes, decisions, shown, outgoing, approval>>

\* The letter certainly did not leave: everything may be revised again.
GiveUp(a) ==
  /\ approval = None /\ mailed = <<>> /\ shown[a] = outgoing
  /\ outgoing' = None
  /\ shown' = [shown EXCEPT ![a] = None]
  /\ UNCHANGED <<notes, decisions, mailed, approval>>

Approved(a, sent) == [letter |-> shown[a], by |-> a, sent |-> sent]

\* Whoever looks at the letter that left may approve it ...
ApproveSent(a) ==
  /\ approval = None /\ outgoing # None
  /\ shown[a] = outgoing /\ mailed = <<outgoing>>
  /\ approval' = Approved(a, TRUE)
  /\ shown' = [shown EXCEPT ![a] = None]
  /\ UNCHANGED <<notes, decisions, outgoing, mailed>>

\* ... and a letter that need not leave, if it is what the notes say now.
ApproveUnsent(a) ==
  /\ approval = None /\ outgoing = None
  /\ shown[a] # None /\ shown[a].notes = notes
  /\ approval' = Approved(a, FALSE)
  /\ shown' = [shown EXCEPT ![a] = None]
  /\ UNCHANGED <<notes, decisions, outgoing, mailed>>

Next ==
  \/ Revise \/ Send
  \/ \E a \in Reviewers : Look(a) \/ LookAway(a) \/ Bind(a) \/ GiveUp(a)
                          \/ ApproveSent(a) \/ ApproveUnsent(a)

Spec == Init /\ [][Next]_review
=============================================================================
