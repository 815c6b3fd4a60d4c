---------------------------- MODULE ReviewApproval ----------------------------
(***************************************************************************)
(* The review of one meeting: its draft is edited, previewed, approved and *)
(* mailed, while a reprocessing job may still replace it.                  *)
(*                                                                         *)
(* Handlers that lock the meeting row are one step.  Approving is locked   *)
(* up to the commit of its claim; the answer of the mail service and the   *)
(* final commit are steps of their own.  Saving the transcript or the      *)
(* speaker names takes no lock: it reads in one step and writes in another.*)
(***************************************************************************)
EXTENDS Naturals, Sequences, FiniteSets

CONSTANTS
  Approvers,   (* reviewers, each with a page of the meeting open          *)
  Editors,     (* requests that save the transcript or the speaker names   *)
  People,      (* possible recipients                                      *)
  Wordings,    (* what an editor may make of the action items              *)
  MailEnabled, (* mails are sent, and the meeting has an organizer         *)
  Nobody,      (* stands for NULL                                          *)
  MaxAttempts, (* bound on the deliveries claimed                          *)
  MaxSaves,    (* bound on the times decisions are saved                   *)
  MaxResults   (* bound on the results reprocessing installs               *)

ASSUME BoundsAreNaturals == MaxAttempts \in Nat /\ MaxSaves \in Nat /\ MaxResults \in Nat

VARIABLES
  meeting,    (* review state, approved_by and approved_recipients         *)
  delivery,   (* the email_delivery_* columns                              *)
  actions,    (* the action items, as a whole                              *)
  decisions,  (* the meeting's decisions: how often they have been saved   *)
  extracted,  (* extracted_json: result, speaker names, decision revision  *)
  transcript, (* the transcript: whose result, and whether it was edited   *)
  page,       (* what each reviewer sees, and where their approval is      *)
  note,       (* the unlocked save each editor's request is in             *)
  rework,     (* the reprocessing job                                      *)
  inbox       (* external: the mails the mail service accepted, in order   *)

vars == <<meeting, delivery, actions, decisions, extracted, transcript, page, note, rework, inbox>>

Results == 0..MaxResults
Items == [result : Results, text : Wordings \cup {"extracted"}, edited : BOOLEAN, approved : BOOLEAN]
\* Revision 0 is an absent manual_decisions_revision.
Extracted == [result : Results, named : BOOLEAN, revision : 0..MaxSaves]

\* A fingerprint is what it hashes: the recipients, the mail, the decision revision.
Content == [result : Results, items : Results, text : Wordings \cup {"extracted"}]
Fingerprints == [to : SUBSET People, content : Content, revision : 0..MaxSaves]
ASSUME NobodyIsNone == Nobody \notin Approvers \cup Fingerprints

Statuses == {"none", "sending", "sent", "failed", "not_required"}
Page == [at : {"closed", "shown", "posting", "accepted", "rejected", "uncertain"},
         print : Fingerprints \cup {Nobody}, seen : 0..MaxSaves]
ClosedPage == [at |-> "closed", print |-> Nobody, seen |-> 0]
Note == [kind : {"none", "transcript", "speakers"}, saw : Extracted]

FirstResult == [result |-> 0, named |-> FALSE, revision |-> 0]
NoNote == [kind |-> "none", saw |-> FirstResult]
NewItems(r) == [result |-> r, text |-> "extracted", edited |-> FALSE, approved |-> FALSE]

Init ==
  /\ meeting = [state |-> "awaiting_review", by |-> Nobody, to |-> {}]
  /\ delivery = [status |-> "none", print |-> Nobody, attempts |-> 0]
  /\ actions = NewItems(0)
  /\ decisions = 0
  /\ extracted = FirstResult
  /\ transcript = [result |-> 0, edited |-> FALSE]
  /\ page = [a \in Approvers |-> ClosedPage]
  /\ note = [e \in Editors |-> NoNote]
  /\ rework = [busy |-> FALSE, base |-> <<>>]
  /\ inbox = <<>>

-----------------------------------------------------------------------------
(* Editing the draft.                                                      *)

\* Mutant: an edit is refused only once the review is over.
Editable_DuringDelivery == meeting.state = "awaiting_review"

\* Mutant: only a delivery freezes the notes, an approval without mail does not.
Editable_UntilMailed == delivery.status \notin {"sending", "sent"}

\* The guard of both handlers that hold the row the approval locks.
Editable == meeting.state = "awaiting_review" /\ delivery.status \notin {"sending", "sent"}

EditItem(text) ==
  /\ Editable
  /\ actions' = [actions EXCEPT !.text = text, !.edited = TRUE]
  /\ UNCHANGED <<meeting, delivery, decisions, extracted, transcript, page, note, rework, inbox>>

SaveDecisions ==
  /\ Editable /\ decisions < MaxSaves
  /\ decisions' = decisions + 1
  /\ extracted' = [extracted EXCEPT !.revision = decisions + 1]
  /\ UNCHANGED <<meeting, delivery, actions, transcript, page, note, rework, inbox>>

\* Transcript and speaker names: checked and read without the lock ...
ReadNotes(e, kind) ==
  /\ note[e] = NoNote /\ meeting.state = "awaiting_review"
  /\ note' = [note EXCEPT ![e] = [kind |-> kind, saw |-> extracted]]
  /\ UNCHANGED <<meeting, delivery, actions, decisions, extracted, transcript, page, rework, inbox>>

\* ... and written whatever has happened since, extracted_json as a whole.
WriteNotes(e) ==
  /\ \/ /\ note[e].kind = "transcript"
        /\ transcript' = [transcript EXCEPT !.edited = TRUE]
        /\ UNCHANGED extracted
     \/ /\ note[e].kind = "speakers"
        /\ \E named \in BOOLEAN : extracted' = [note[e].saw EXCEPT !.named = named]
        /\ UNCHANGED transcript
  /\ note' = [note EXCEPT ![e] = NoNote]
  /\ UNCHANGED <<meeting, delivery, actions, decisions, page, rework, inbox>>

-----------------------------------------------------------------------------
(* Reprocessing the draft.                                                 *)

\* is_clean_reprocess_candidate.
Clean ==
  /\ meeting.state = "awaiting_review" /\ meeting.by = Nobody /\ meeting.to = {}
  /\ delivery.status \notin {"sending", "sent"}
  /\ transcript = [result |-> extracted.result, edited |-> FALSE] /\ ~extracted.named
  /\ ~actions.edited /\ ~actions.approved

\* result_fingerprint; decisions count through their revision.
ResultPrint == <<meeting, delivery.status, delivery.print, actions, extracted, transcript>>

StartRework ==
  /\ ~rework.busy /\ Clean /\ extracted.result < MaxResults
  /\ rework' = [busy |-> TRUE, base |-> ResultPrint]
  /\ UNCHANGED <<meeting, delivery, actions, decisions, extracted, transcript, page, note, inbox>>

\* The new result is installed if the draft is what the job started from; a conflict, a
\* failure or a cancellation of the job leaves everything as it is.
EndRework ==
  LET r == extracted.result + 1 IN
  /\ rework.busy
  /\ \/ /\ Clean /\ rework.base = ResultPrint /\ r <= MaxResults
        /\ extracted' = [extracted EXCEPT !.result = r, !.named = FALSE]
        /\ actions' = NewItems(r)
        /\ transcript' = [result |-> r, edited |-> FALSE]
     \/ UNCHANGED <<actions, extracted, transcript>>
  /\ rework' = [busy |-> FALSE, base |-> <<>>]
  /\ UNCHANGED <<meeting, delivery, decisions, page, note, inbox>>

-----------------------------------------------------------------------------
(* Previewing and approving.                                               *)

\* build_meeting_email renders neither the decisions nor the speaker names.
Mail == [result |-> extracted.result, items |-> actions.result, text |-> actions.text]
Fingerprint(to) == [to |-> to, content |-> Mail, revision |-> extracted.revision]

At(a, stage) == page[a].at = stage
GoTo(a, stage) == page' = [page EXCEPT ![a].at = stage]
Close(a) == page' = [page EXCEPT ![a] = ClosedPage]

\* The reviewer opens the page, decisions included, and previews the mail.
Preview(a, to) ==
  /\ At(a, "closed")
  /\ page' = [page EXCEPT ![a] = [at |-> "shown", print |-> Fingerprint(to), seen |-> decisions]]
  /\ UNCHANGED <<meeting, delivery, actions, decisions, extracted, transcript, note, rework, inbox>>

Fresh(a) == page[a].print = Fingerprint(page[a].print.to)

\* Mutant: a claim somebody else has made is not looked at.
Approvable_Claimed(a) == At(a, "shown") /\ Fresh(a) /\ meeting.state = "awaiting_review"

\* Everything approve checks under the lock.
Approvable(a) == At(a, "shown") /\ Fresh(a)
                 /\ delivery.status # "sending" /\ meeting.state = "awaiting_review"

\* Whether this approval is to be mailed.
Deliverable(a) == MailEnabled /\ page[a].print.to # {}

\* If so, the claim of the delivery is committed before anything is sent.
Claim(a) ==
  LET print == page[a].print IN
  /\ Approvable(a) /\ Deliverable(a) /\ delivery.attempts < MaxAttempts
  /\ delivery' = [status |-> "sending", print |-> print, attempts |-> delivery.attempts + 1]
  /\ meeting' = [meeting EXCEPT !.to = print.to]
  /\ GoTo(a, "posting")
  /\ UNCHANGED <<actions, decisions, extracted, transcript, note, rework, inbox>>

Decided(a, state) ==
  /\ meeting' = [state |-> state, by |-> a, to |-> page[a].print.to]
  /\ actions' = [actions EXCEPT !.approved = TRUE]

\* If not, one commit approves the notes.
ApproveUnsent(a) ==
  /\ Approvable(a) /\ ~Deliverable(a)
  /\ delivery' = [delivery EXCEPT !.status = "not_required", !.print = page[a].print]
  /\ Decided(a, "approved") /\ Close(a)
  /\ UNCHANGED <<decisions, extracted, transcript, note, rework, inbox>>

\* External: the mail service takes the mail or not, and the answer arrives or not; a
\* rejection is never the answer to an accepted mail.
Post(a) ==
  /\ At(a, "posting")
  /\ \/ /\ inbox' = Append(inbox, [attempt |-> delivery.attempts, print |-> page[a].print])
        /\ GoTo(a, "accepted") \/ GoTo(a, "uncertain")
     \/ /\ UNCHANGED inbox
        /\ GoTo(a, "rejected") \/ GoTo(a, "uncertain")
  /\ UNCHANGED <<meeting, delivery, actions, decisions, extracted, transcript, note, rework>>

\* The final commit after a success.
Conclude(a) ==
  /\ At(a, "accepted")
  /\ delivery' = [delivery EXCEPT !.status = "sent"]
  /\ Decided(a, "sent") /\ Close(a)
  /\ UNCHANGED <<decisions, extracted, transcript, note, rework, inbox>>

\* Mutant: every exception counts as a failed submission.
StatusAfter_Failed(stage) == "failed"

\* submission_failure: only a known rejection may be tried again.
StatusAfter(stage) == IF stage = "rejected" THEN "failed" ELSE "sending"

\* Mutant: a failed delivery is forgotten.
NoteFailure_Forgets(a) ==
  /\ At(a, "rejected") \/ At(a, "uncertain")
  /\ delivery' = [delivery EXCEPT !.status = "none"]
  /\ Close(a)
  /\ UNCHANGED <<meeting, actions, decisions, extracted, transcript, note, rework, inbox>>

NoteFailure(a) ==
  /\ At(a, "rejected") \/ At(a, "uncertain")
  /\ delivery' = [delivery EXCEPT !.status = StatusAfter(page[a].at)]
  /\ Close(a)
  /\ UNCHANGED <<meeting, actions, decisions, extracted, transcript, note, rework, inbox>>

\* A refused approval, a repeated one (already_sent), a page that is closed; and, once the
\* delivery is claimed, a crash or a commit that fails.
Leave(a) ==
  /\ ~At(a, "closed") /\ Close(a)
  /\ UNCHANGED <<meeting, delivery, actions, decisions, extracted, transcript, note, rework, inbox>>

Next ==
  \/ \E text \in Wordings : EditItem(text)
  \/ SaveDecisions
  \/ \E e \in Editors, kind \in {"transcript", "speakers"} : ReadNotes(e, kind)
  \/ \E e \in Editors : WriteNotes(e)
  \/ StartRework \/ EndRework
  \/ \E a \in Approvers, to \in SUBSET People : Preview(a, to)
  \/ \E a \in Approvers : Claim(a) \/ ApproveUnsent(a) \/ Post(a) \/ Conclude(a)
                          \/ NoteFailure(a) \/ Leave(a)

Spec == Init /\ [][Next]_vars

-----------------------------------------------------------------------------
(* Properties.                                                             *)

\* The columns and the pages hold values of their types; a delivery that was claimed or
\* not required keeps its status and its fingerprint together.
TypeOK ==
  /\ meeting \in [state : {"awaiting_review", "approved", "sent"},
                  by : Approvers \cup {Nobody}, to : SUBSET People]
  /\ delivery \in [status : Statuses, print : Fingerprints \cup {Nobody}, attempts : 0..MaxAttempts]
  /\ delivery.status = "none" <=> delivery.print = Nobody
  /\ actions \in Items
  /\ decisions \in 0..MaxSaves
  /\ extracted \in Extracted
  /\ transcript \in [result : Results, edited : BOOLEAN]
  /\ page \in [Approvers -> Page]
  /\ \A a \in Approvers : At(a, "closed") <=> page[a].print = Nobody
  /\ note \in [Editors -> Note]
  /\ rework.busy \in BOOLEAN
  /\ inbox \in Seq([attempt : 1..MaxAttempts, print : Fingerprints])

\* The recipients never get the notes twice, whatever crashes, times out or is approved at
\* once (models.py:300, "this is safer than emailing attendees twice").
OneMail == Len(inbox) <= 1

\* The notes on record are the notes that were mailed, to the people on record, from the
\* moment the mail leaves and however the approval ends (reviews.py:760, "so an edit cannot
\* race the rendered send payload").
MailIsOnRecord ==
  \A k \in 1..Len(inbox) :
    /\ delivery.status \in {"sending", "sent"} /\ delivery.print = inbox[k].print
    /\ inbox[k].print.to = meeting.to
    /\ inbox[k].print.content.items = actions.result
    /\ inbox[k].print.content.text = actions.text

\* "sent" is never claimed for a mail that did not leave, nor for an earlier attempt.
SentWasMailed ==
  meeting.state = "sent" =>
    /\ delivery.status = "sent"
    /\ \E k \in 1..Len(inbox) : inbox[k].attempt = delivery.attempts

Decides(a) == meeting.state = "awaiting_review" /\ meeting'.state # "awaiting_review"
              /\ meeting'.by = a

\* Whoever approves has seen the action items and the recipients that are approved, even if
\* the mail took its time (reviews.py:960, "Review a fresh preview before approving").
ApprovedAsShown ==
  [][\A a \in Approvers : Decides(a) =>
       /\ page[a].print.to = meeting'.to
       /\ page[a].print.content.items = actions'.result
       /\ page[a].print.content.text = actions'.text]_vars

\* Nothing that was approved changes afterwards: not the items, not the decisions, not who
\* approved them for whom, not what is known of the mail.
ApprovalIsFinal ==
  [][meeting.state # "awaiting_review" => UNCHANGED <<meeting, delivery, actions, decisions, inbox>>]_vars

\* What a comment promises (reviews.py:745, "stale previews must not approve unseen edits"):
\* whoever approves has seen the decisions that are approved.
ApprovedDecisionsSeen ==
  [][\A a \in Approvers : Decides(a) => page[a].seen = decisions]_vars

-----------------------------------------------------------------------------
(* What the review promises, in terms of NotesApproval.                    *)

NotesNow == [result |-> actions.result, text |-> actions.text]
AllNotes == [result : Results, text : Wordings \cup {"extracted"}]
ASSUME NobodyIsNoLetter == Nobody \notin [to : SUBSET People, notes : AllNotes]

Letter(print) ==
  [to |-> print.to, notes |-> [result |-> print.content.items, text |-> print.content.text]]

Shown == [a \in Approvers |-> IF At(a, "closed") THEN Nobody ELSE Letter(page[a].print)]

\* A letter is bound to leave from the commit of its claim to a known rejection.
Outgoing == IF delivery.status \in {"sending", "sent"} THEN Letter(delivery.print) ELSE Nobody

Posted == [k \in 1..Len(inbox) |-> Letter(inbox[k].print)]

\* What was approved is read off the record.
Approval ==
  IF meeting.state = "awaiting_review" THEN Nobody
  ELSE [letter |-> [to |-> meeting.to, notes |-> NotesNow],
        by |-> meeting.by, sent |-> meeting.state = "sent"]

Promise == INSTANCE NotesApproval WITH
  Reviewers <- Approvers, Recipients <- People, None <- Nobody,
  Notes <- AllNotes, FirstNotes <- [result |-> 0, text |-> "extracted"],
  Decisions <- 0..MaxSaves, FirstDecisions <- 0,
  notes <- NotesNow, shown <- Shown, outgoing <- Outgoing, mailed <- Posted, approval <- Approval

\* Whatever crashes, times out, is edited, reprocessed or approved at once: the notes leave
\* once, as the reviewer who had them mailed saw them (reviews.py:960, "Review a fresh preview
\* before approving"), and nothing that was approved changes afterwards (reviews.py:725).
ImplementsPromise == Promise!Spec
=============================================================================
