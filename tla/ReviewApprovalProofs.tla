------------------------- MODULE ReviewApprovalProofs -------------------------
(***************************************************************************)
(* What ReviewApproval guarantees for any number of reviewers, editors and *)
(* recipients.  The inductive invariant says that a delivery is claimed by *)
(* one reviewer at a time, that a claim holds the record still, and where  *)
(* a mail may be at every stage of its approval.                           *)
(***************************************************************************)
EXTENDS ReviewApproval, TLAPS

InFlight(a) == page[a].at \in {"posting", "accepted", "rejected", "uncertain"}

\* A claimed delivery, and a completed one, is that of the record as it stands.
OnRecord ==
  delivery.status \in {"sending", "sent"} =>
    /\ delivery.print \in Fingerprints
    /\ delivery.attempts > 0
    /\ delivery.print.to = meeting.to
    /\ delivery.print.content.items = actions.result
    /\ delivery.print.content.text = actions.text

\* The delivery says which way the review ended.
Ended ==
  /\ meeting.state = "sent" <=> delivery.status = "sent"
  /\ meeting.state = "approved" <=> delivery.status = "not_required"

\* Whoever is delivering holds the claim, alone.
Claimed ==
  /\ \A a \in Approvers : InFlight(a) => delivery.status = "sending"
                                         /\ delivery.print = page[a].print
  /\ \A a, b \in Approvers : InFlight(a) /\ InFlight(b) => a = b

\* No mail has left before the post nor after a rejection; a success has one.
Mailed ==
  /\ inbox # <<>> => /\ Len(inbox) = 1
                     /\ delivery.status \in {"sending", "sent"}
                     /\ inbox[1] = [attempt |-> delivery.attempts, print |-> delivery.print]
  /\ \A a \in Approvers : At(a, "posting") \/ At(a, "rejected") => inbox = <<>>
  /\ \A a \in Approvers : At(a, "accepted") => inbox # <<>>
  /\ meeting.state = "sent" => inbox # <<>>

IInv == TypeOK /\ OnRecord /\ Ended /\ Claimed /\ Mailed

-----------------------------------------------------------------------------
(* Types.                                                                  *)

\* The initial states satisfy the invariant.
LEMMA InvInit == Init => IInv
<1>1. Init => TypeOK
  BY NobodyIsNone, BoundsAreNaturals
     DEF Init, TypeOK, NewItems, FirstResult, Items, Results, Extracted, Statuses, Page, ClosedPage,
         Note, NoNote, At
<1>2. Init => OnRecord /\ Ended /\ Claimed /\ Mailed
  BY DEF Init, OnRecord, Ended, Claimed, Mailed, InFlight, ClosedPage, At
<1>3. QED BY <1>1, <1>2 DEF IInv

\* A preview computes a fingerprint.
LEMMA FingerprintType ==
  ASSUME TypeOK, NEW to \in SUBSET People
  PROVE  Fingerprint(to) \in Fingerprints
  BY DEF TypeOK, Fingerprint, Fingerprints, Mail, Content, Extracted, Items

\* The part of TypeOK that speaks of pages.
PagesTyped ==
  /\ page \in [Approvers -> Page]
  /\ \A a \in Approvers : At(a, "closed") <=> page[a].print = Nobody

\* Opening a page, closing it and moving an approval on keep that part.
LEMMA OpenTypes ==
  ASSUME TypeOK, NEW a \in Approvers, NEW to \in SUBSET People, Preview(a, to)
  PROVE  PagesTyped'
<1>1. Fingerprint(to) \in Fingerprints /\ Fingerprint(to) # Nobody
  BY FingerprintType, NobodyIsNone
<1>2. [at |-> "shown", print |-> Fingerprint(to), seen |-> decisions] \in Page
  BY <1>1 DEF TypeOK, Page
<1>3. QED BY <1>1, <1>2 DEF Preview, TypeOK, PagesTyped, At

LEMMA CloseTypes ==
  ASSUME TypeOK, NEW a \in Approvers, Close(a)
  PROVE  PagesTyped'
<1>1. ClosedPage \in Page
  BY BoundsAreNaturals DEF ClosedPage, Page
<1>2. QED BY <1>1 DEF Close, TypeOK, PagesTyped, At, ClosedPage

LEMMA MoveTypes ==
  ASSUME TypeOK, NEW a \in Approvers, ~At(a, "closed"),
         NEW stage \in {"posting", "accepted", "rejected", "uncertain"}, GoTo(a, stage)
  PROVE  PagesTyped'
<1>1. [page[a] EXCEPT !.at = stage] \in Page
  BY DEF TypeOK, Page
<1>2. QED BY <1>1 DEF GoTo, TypeOK, PagesTyped, At, Page

\* A page that is open shows a fingerprint.
LEMMA OpenPage ==
  ASSUME TypeOK, NEW a \in Approvers, ~At(a, "closed")
  PROVE  page[a].print \in Fingerprints /\ page[a].print.to \in SUBSET People
  BY DEF TypeOK, Page, Fingerprints

\* Editing and reprocessing keep the types.
LEMMA DraftTypes ==
  ASSUME TypeOK,
         \/ \E text \in Wordings : EditItem(text)
         \/ SaveDecisions
         \/ \E e \in Editors, kind \in {"transcript", "speakers"} : ReadNotes(e, kind)
         \/ \E e \in Editors : WriteNotes(e)
         \/ StartRework \/ EndRework
  PROVE  TypeOK'
<1>1. CASE \E text \in Wordings : EditItem(text)
  BY <1>1 DEF EditItem, TypeOK, Items, At
<1>2. CASE SaveDecisions
  <2>1. decisions' \in 0..MaxSaves
    BY <1>2, BoundsAreNaturals DEF SaveDecisions, TypeOK
  <2>2. extracted' \in Extracted
    BY <1>2, <2>1 DEF SaveDecisions, TypeOK, Extracted
  <2>3. QED BY <1>2, <2>1, <2>2 DEF SaveDecisions, TypeOK, At
<1>3. CASE \E e \in Editors, kind \in {"transcript", "speakers"} : ReadNotes(e, kind)
  BY <1>3 DEF ReadNotes, TypeOK, Note, At
<1>4. CASE \E e \in Editors : WriteNotes(e)
  <2>1. PICK e \in Editors : WriteNotes(e)
    BY <1>4
  <2>2. NoNote \in Note
    BY BoundsAreNaturals DEF NoNote, Note, FirstResult, Extracted, Results
  <2>3. extracted' \in Extracted /\ transcript' \in [result : Results, edited : BOOLEAN]
    BY <2>1 DEF WriteNotes, TypeOK, Note, Extracted
  <2>4. QED BY <2>1, <2>2, <2>3 DEF WriteNotes, TypeOK, At
<1>5. CASE StartRework
  BY <1>5 DEF StartRework, TypeOK, At
<1>6. CASE EndRework
  <2>1. /\ extracted' \in Extracted /\ actions' \in Items
        /\ transcript' \in [result : Results, edited : BOOLEAN]
    <3>1. CASE UNCHANGED <<actions, extracted, transcript>>
      BY <3>1 DEF TypeOK
    <3>2. CASE extracted.result + 1 <= MaxResults /\ ~UNCHANGED <<actions, extracted, transcript>>
      <4>1. extracted.result + 1 \in Results
        BY <3>2, BoundsAreNaturals DEF TypeOK, Extracted, Results
      <4>2. /\ extracted' = [extracted EXCEPT !.result = extracted.result + 1, !.named = FALSE]
            /\ actions' = NewItems(extracted.result + 1)
            /\ transcript' = [result |-> extracted.result + 1, edited |-> FALSE]
        BY <1>6, <3>2 DEF EndRework
      <4>3. extracted' \in Extracted
        BY <4>1, <4>2 DEF TypeOK, Extracted
      <4>4. QED BY <4>1, <4>2, <4>3 DEF Items, NewItems
    <3>3. QED BY <1>6, <3>1, <3>2 DEF EndRework
  <2>2. QED BY <1>6, <2>1 DEF EndRework, TypeOK, At
<1>7. QED BY <1>1, <1>2, <1>3, <1>4, <1>5, <1>6

\* So does what a reviewer does.
LEMMA ApprovalTypes ==
  ASSUME IInv, NEW a \in Approvers,
         \/ \E to \in SUBSET People : Preview(a, to)
         \/ Claim(a) \/ ApproveUnsent(a) \/ Post(a) \/ Conclude(a) \/ NoteFailure(a) \/ Leave(a)
  PROVE  TypeOK'
<1>0. TypeOK /\ OnRecord /\ Claimed
  BY DEF IInv
<1>1. CASE \E to \in SUBSET People : Preview(a, to)
  <2>1. PagesTyped'
    BY <1>0, <1>1, OpenTypes
  <2>2. QED BY <1>0, <1>1, <2>1 DEF Preview, TypeOK, PagesTyped
<1>2. CASE Claim(a)
  <2>1. PagesTyped'
    BY <1>0, <1>2, MoveTypes DEF Claim, Approvable, At
  <2>2. page[a].print \in Fingerprints /\ page[a].print.to \in SUBSET People /\ page[a].print # Nobody
    BY <1>0, <1>2, OpenPage, NobodyIsNone DEF Claim, Approvable, At
  <2>3. /\ delivery' \in [status : Statuses, print : Fingerprints \cup {Nobody}, attempts : 0..MaxAttempts]
        /\ delivery'.status # "none" /\ delivery'.print # Nobody
    BY <1>0, <1>2, <2>2, BoundsAreNaturals DEF Claim, TypeOK, Statuses
  <2>4. QED BY <1>0, <1>2, <2>1, <2>2, <2>3 DEF Claim, TypeOK, PagesTyped
<1>3. CASE ApproveUnsent(a)
  <2>1. PagesTyped'
    BY <1>0, <1>3, CloseTypes DEF ApproveUnsent
  <2>2. page[a].print \in Fingerprints /\ page[a].print.to \in SUBSET People /\ page[a].print # Nobody
    BY <1>0, <1>3, OpenPage, NobodyIsNone DEF ApproveUnsent, Approvable, At
  <2>3. /\ delivery' \in [status : Statuses, print : Fingerprints \cup {Nobody}, attempts : 0..MaxAttempts]
        /\ delivery'.status # "none" /\ delivery'.print # Nobody
    BY <1>0, <1>3, <2>2 DEF ApproveUnsent, TypeOK, Statuses
  <2>4. actions' \in Items
    BY <1>0, <1>3 DEF ApproveUnsent, Decided, TypeOK, Items
  <2>5. QED BY <1>0, <1>3, <2>1, <2>2, <2>3, <2>4 DEF ApproveUnsent, Decided, TypeOK, PagesTyped
<1>4. CASE Post(a)
  <2>1. PagesTyped'
    BY <1>0, <1>4, MoveTypes DEF Post, At
  <2>2. page[a].print \in Fingerprints
    BY <1>0, <1>4, OpenPage DEF Post, At
  <2>3. delivery.attempts \in 1..MaxAttempts
    BY <1>0, <1>4, BoundsAreNaturals DEF Post, At, Claimed, InFlight, OnRecord, TypeOK
  <2> DEFINE mail == [attempt |-> delivery.attempts, print |-> page[a].print]
             Letters == [attempt : 1..MaxAttempts, print : Fingerprints]
  <2>4. mail \in Letters
    BY <2>2, <2>3
  <2>5. inbox' \in Seq(Letters)
    <3>1. inbox \in Seq(Letters) /\ (inbox' = Append(inbox, mail) \/ inbox' = inbox)
      BY <1>0, <1>4 DEF Post, TypeOK
    <3> HIDE DEF mail, Letters
    <3>2. QED BY <2>4, <3>1
  <2>6. QED BY <1>0, <1>4, <2>1, <2>5 DEF Post, TypeOK, PagesTyped
<1>5. CASE Conclude(a)
  <2>1. PagesTyped'
    BY <1>0, <1>5, CloseTypes DEF Conclude
  <2>2. page[a].print.to \in SUBSET People
    BY <1>0, <1>5, OpenPage DEF Conclude, At
  <2>3. delivery.status = "sending"
    BY <1>0, <1>5 DEF Conclude, At, Claimed, InFlight
  <2>4. actions' \in Items
    BY <1>0, <1>5 DEF Conclude, Decided, TypeOK, Items
  <2>5. QED BY <1>0, <1>5, <2>1, <2>2, <2>3, <2>4 DEF Conclude, Decided, TypeOK, PagesTyped, Statuses
<1>6. CASE NoteFailure(a)
  <2>1. PagesTyped'
    BY <1>0, <1>6, CloseTypes DEF NoteFailure
  <2>2. delivery.status = "sending"
    BY <1>0, <1>6 DEF NoteFailure, At, Claimed, InFlight
  <2>3. StatusAfter(page[a].at) \in {"failed", "sending"}
    BY DEF StatusAfter
  <2>4. QED BY <1>0, <1>6, <2>1, <2>2, <2>3 DEF NoteFailure, TypeOK, PagesTyped, Statuses
<1>7. CASE Leave(a)
  <2>1. PagesTyped'
    BY <1>0, <1>7, CloseTypes DEF Leave
  <2>2. QED BY <1>0, <1>7, <2>1 DEF Leave, TypeOK, PagesTyped
<1>8. QED BY <1>1, <1>2, <1>3, <1>4, <1>5, <1>6, <1>7

-----------------------------------------------------------------------------
(* The stages of an approval.                                              *)

\* Editing and reprocessing leave a claimed record alone.
LEMMA DraftKeeps ==
  ASSUME IInv,
         \/ \E text \in Wordings : EditItem(text)
         \/ SaveDecisions
         \/ \E e \in Editors, kind \in {"transcript", "speakers"} : ReadNotes(e, kind)
         \/ \E e \in Editors : WriteNotes(e)
         \/ StartRework \/ EndRework
  PROVE  (OnRecord /\ Ended /\ Claimed /\ Mailed)'
<1>1. UNCHANGED <<meeting, delivery, page, inbox>>
  BY DEF EditItem, SaveDecisions, ReadNotes, WriteNotes, StartRework, EndRework
<1>2. delivery.status \in {"sending", "sent"} => UNCHANGED actions
  BY DEF EditItem, Editable, SaveDecisions, ReadNotes, WriteNotes, StartRework, EndRework, Clean
<1>3. OnRecord'
  BY <1>1, <1>2 DEF IInv, OnRecord
<1>4. (Ended /\ Claimed /\ Mailed)'
  BY <1>1 DEF IInv, Ended, Claimed, Mailed, InFlight, At
<1>5. QED BY <1>3, <1>4

\* Whoever may approve meets an unclaimed record, of which no mail has left.
LEMMA Unclaimed ==
  ASSUME IInv, NEW a \in Approvers, Approvable(a)
  PROVE  /\ delivery.status \notin {"sending", "sent"} /\ inbox = <<>>
         /\ \A b \in Approvers : ~InFlight(b)
         /\ page[a].print \in Fingerprints
         /\ page[a].print.content.items = actions.result
         /\ page[a].print.content.text = actions.text
<1>1. meeting.state = "awaiting_review" /\ delivery.status # "sending"
      /\ At(a, "shown") /\ Fresh(a)
  BY DEF Approvable
<1>2. delivery.status \notin {"sending", "sent"}
  BY <1>1 DEF IInv, Ended
<1>3. inbox = <<>> /\ \A b \in Approvers : ~InFlight(b)
  BY <1>2 DEF IInv, Mailed, Claimed
<1>4. page[a].print \in Fingerprints
  BY <1>1, OpenPage DEF IInv, At
<1>5. page[a].print.content = Mail
  BY <1>1 DEF Fresh, Fingerprint
<1>6. QED BY <1>2, <1>3, <1>4, <1>5 DEF Mail

\* Claiming a delivery binds it to the record.
LEMMA ClaimKeeps ==
  ASSUME IInv, NEW a \in Approvers, Claim(a)
  PROVE  (OnRecord /\ Ended /\ Claimed /\ Mailed)'
<1>1. Approvable(a) /\ At(a, "shown")
  BY DEF Claim, Approvable
<1>2. OnRecord'
  BY <1>1, Unclaimed DEF Claim, IInv, OnRecord, TypeOK
<1>3. Ended'
  BY <1>1, Unclaimed DEF Claim, Approvable, IInv, Ended, TypeOK
<1>4. page' = [page EXCEPT ![a].at = "posting"] /\ page \in [Approvers -> Page]
  BY DEF Claim, GoTo, IInv, TypeOK
<1>5. \A b \in Approvers : InFlight(b)' => b = a
  BY <1>1, <1>4, Unclaimed DEF InFlight
<1>6. page'[a].print = page[a].print
  BY <1>4 DEF Page
<1>7. Claimed'
  BY <1>5, <1>6 DEF Claim, Claimed
<1>8. \A b \in Approvers : At(b, "accepted")' => b = a
  BY <1>5 DEF At, InFlight
<1>9. Mailed'
  BY <1>1, <1>4, <1>8, Unclaimed DEF Claim, Approvable, Mailed, At, IInv, TypeOK
<1>10. QED BY <1>2, <1>3, <1>7, <1>9

\* An approval without mail ends the review with an empty inbox.
LEMMA UnsentKeeps ==
  ASSUME IInv, NEW a \in Approvers, ApproveUnsent(a)
  PROVE  (OnRecord /\ Ended /\ Claimed /\ Mailed)'
<1>1. Approvable(a)
  BY DEF ApproveUnsent
<1>2. delivery'.status = "not_required" /\ meeting'.state = "approved" /\ inbox' = <<>>
  BY <1>1, Unclaimed DEF ApproveUnsent, Decided, IInv, TypeOK
<1>3. \A b \in Approvers : ~InFlight(b)'
  BY <1>1, Unclaimed DEF ApproveUnsent, Close, ClosedPage, InFlight, IInv, TypeOK
<1>4. \A b \in Approvers : ~At(b, "accepted")' /\ ~At(b, "posting")' /\ ~At(b, "rejected")'
  BY <1>3 DEF InFlight, At
<1>5. QED BY <1>2, <1>3, <1>4 DEF OnRecord, Ended, Claimed, Mailed

\* The mail service's answer: nothing has left before.
LEMMA PostKeeps ==
  ASSUME IInv, NEW a \in Approvers, Post(a)
  PROVE  (OnRecord /\ Ended /\ Claimed /\ Mailed)'
<1>1. inbox = <<>> /\ InFlight(a) /\ delivery.status = "sending" /\ delivery.print = page[a].print
  BY DEF Post, At, InFlight, IInv, Claimed, Mailed
<1>2. UNCHANGED <<meeting, delivery, actions>>
  BY DEF Post
<1>3. PICK stage \in {"accepted", "rejected", "uncertain"} :
        /\ GoTo(a, stage)
        /\ \/ stage # "rejected"
              /\ inbox' = Append(inbox, [attempt |-> delivery.attempts, print |-> page[a].print])
           \/ stage # "accepted" /\ inbox' = inbox
  BY DEF Post
<1>4. page' = [page EXCEPT ![a].at = stage] /\ page \in [Approvers -> Page]
  BY <1>3 DEF GoTo, IInv, TypeOK
<1>5. \A b \in Approvers : InFlight(b)' => InFlight(b) /\ page'[b].print = page[b].print
  BY <1>1, <1>4 DEF InFlight, Page
<1>6. OnRecord' /\ Ended' /\ Claimed'
  BY <1>2, <1>5 DEF IInv, OnRecord, Ended, Claimed
<1>7. \A b \in Approvers : At(b, "posting")' \/ At(b, "rejected")' \/ At(b, "accepted")' => b = a
  BY <1>1, <1>5 DEF At, InFlight, IInv, Claimed
<1>8. At(a, stage)'
  BY <1>4 DEF At, Page
<1>9. meeting.state # "sent"
  BY <1>1 DEF IInv, Ended
<1>10. CASE inbox' = inbox /\ stage # "accepted"
  <2>1. inbox' = <<>> /\ meeting'.state # "sent"
    BY <1>1, <1>2, <1>9, <1>10
  <2>2. \A b \in Approvers : ~At(b, "accepted")'
    BY <1>7, <1>8, <1>10 DEF At
  <2>3. QED BY <1>6, <2>1, <2>2 DEF Mailed
<1>11. CASE inbox' = Append(inbox, [attempt |-> delivery.attempts, print |-> page[a].print])
            /\ stage # "rejected"
  <2>1. inbox' = <<[attempt |-> delivery.attempts, print |-> delivery.print]>>
    BY <1>1, <1>11
  <2>2. inbox' # <<>> /\ Len(inbox') = 1
        /\ inbox'[1] = [attempt |-> delivery'.attempts, print |-> delivery'.print]
    BY <1>2, <2>1
  <2>3. \A b \in Approvers : ~At(b, "posting")' /\ ~At(b, "rejected")'
    BY <1>7, <1>8, <1>11 DEF At
  <2>4. delivery'.status = "sending"
    BY <1>1, <1>2
  <2>5. QED BY <1>6, <2>2, <2>3, <2>4 DEF Mailed
<1>12. QED BY <1>3, <1>6, <1>10, <1>11

\* The end of a delivery, known or not.
LEMMA EndKeeps ==
  ASSUME IInv, NEW a \in Approvers, Conclude(a) \/ NoteFailure(a)
  PROVE  (OnRecord /\ Ended /\ Claimed /\ Mailed)'
<1>1. InFlight(a) /\ delivery.status = "sending" /\ delivery.print = page[a].print
  BY DEF Conclude, NoteFailure, At, InFlight, IInv, Claimed
<1>2. \A b \in Approvers : ~InFlight(b)'
  BY <1>1 DEF Conclude, NoteFailure, Close, ClosedPage, InFlight, IInv, TypeOK, Claimed
<1>3. \A b \in Approvers : ~At(b, "accepted")' /\ ~At(b, "posting")' /\ ~At(b, "rejected")'
  BY <1>2 DEF InFlight, At
<1>4. delivery'.print = delivery.print /\ delivery'.attempts = delivery.attempts /\ inbox' = inbox
      /\ actions'.result = actions.result /\ actions'.text = actions.text
      /\ meeting'.to = meeting.to
  BY <1>1 DEF Conclude, NoteFailure, Decided, IInv, OnRecord, TypeOK, Items
<1>5. CASE Conclude(a)
  <2>1. delivery'.status = "sent" /\ meeting'.state = "sent" /\ inbox # <<>>
    BY <1>5 DEF Conclude, Decided, IInv, Mailed, TypeOK
  <2>2. QED BY <1>1, <1>2, <1>3, <1>4, <2>1 DEF IInv, OnRecord, Ended, Claimed, Mailed
<1>6. CASE NoteFailure(a)
  <2>1. /\ delivery'.status \in {"failed", "sending"} /\ meeting' = meeting
        /\ delivery'.status = "failed" => inbox = <<>>
    BY <1>6 DEF NoteFailure, StatusAfter, At, IInv, Mailed, TypeOK
  <2>2. QED BY <1>1, <1>2, <1>3, <1>4, <2>1 DEF IInv, OnRecord, Ended, Claimed, Mailed
<1>7. QED BY <1>5, <1>6

\* Opening and leaving a page.
LEMMA PageKeeps ==
  ASSUME IInv, NEW a \in Approvers,
         Leave(a) \/ \E to \in SUBSET People : Preview(a, to)
  PROVE  (OnRecord /\ Ended /\ Claimed /\ Mailed)'
<1>1. UNCHANGED <<meeting, delivery, actions, inbox>>
  BY DEF Leave, Preview
<1>2. \A b \in Approvers : InFlight(b)' => page'[b] = page[b]
  BY DEF Leave, Preview, Close, ClosedPage, InFlight, IInv, TypeOK
<1>3. \A b \in Approvers : InFlight(b)' => InFlight(b) /\ page'[b].print = page[b].print
  BY <1>2 DEF InFlight
<1>4. \A b \in Approvers : /\ At(b, "posting")' \/ At(b, "rejected")' => At(b, "posting") \/ At(b, "rejected")
                           /\ At(b, "accepted")' => At(b, "accepted")
  BY <1>2 DEF InFlight, At
<1>5. QED BY <1>1, <1>3, <1>4 DEF IInv, OnRecord, Ended, Claimed, Mailed

-----------------------------------------------------------------------------
(* The invariant and the theorems.                                         *)

LEMMA InvStep == IInv /\ [Next]_vars => IInv'
<1> SUFFICES ASSUME IInv, [Next]_vars
             PROVE  IInv'
  OBVIOUS
<1>1. CASE \/ \E text \in Wordings : EditItem(text)
           \/ SaveDecisions
           \/ \E e \in Editors, kind \in {"transcript", "speakers"} : ReadNotes(e, kind)
           \/ \E e \in Editors : WriteNotes(e)
           \/ StartRework \/ EndRework
  BY <1>1, DraftTypes, DraftKeeps DEF IInv
<1>2. ASSUME NEW a \in Approvers,
             \/ \E to \in SUBSET People : Preview(a, to)
             \/ Claim(a) \/ ApproveUnsent(a) \/ Post(a) \/ Conclude(a) \/ NoteFailure(a) \/ Leave(a)
      PROVE  IInv'
  BY <1>2, ApprovalTypes, ClaimKeeps, UnsentKeeps, PostKeeps, EndKeeps, PageKeeps DEF IInv
<1>3. CASE UNCHANGED vars
  <2>1. TypeOK'
    BY <1>3 DEF vars, IInv, TypeOK, At
  <2>2. (OnRecord /\ Ended)'
    BY <1>3 DEF vars, IInv, OnRecord, Ended
  <2>3. (Claimed /\ Mailed)'
    BY <1>3 DEF vars, IInv, Claimed, Mailed, InFlight, At
  <2>4. QED BY <2>1, <2>2, <2>3 DEF IInv
<1>4. QED BY <1>1, <1>2, <1>3 DEF Next

\* The invariant holds in every reachable state.
THEOREM ReviewInvariant == Spec => []IInv
<1>1. QED BY InvInit, InvStep, PTL DEF Spec

\* The columns, the pages and the requests are always well typed.
THEOREM ReviewTypes == Spec => []TypeOK
<1>1. IInv => TypeOK
  BY DEF IInv
<1>2. QED BY <1>1, ReviewInvariant, PTL

\* No recipient gets the notes twice, with any number of reviewers, crashes and attempts.
THEOREM MailsOnce == Spec => []OneMail
<1>1. IInv => OneMail
  <2> SUFFICES ASSUME IInv PROVE OneMail
    OBVIOUS
  <2>1. CASE inbox = <<>>
    BY <2>1 DEF OneMail
  <2>2. CASE inbox # <<>>
    <3>1. Len(inbox) = 1
      BY <2>2 DEF IInv, Mailed
    <3>2. QED BY <3>1 DEF OneMail
  <2>3. QED BY <2>1, <2>2
<1>2. QED BY <1>1, ReviewInvariant, PTL

\* What was mailed is what the record says, from the moment it was mailed.
THEOREM RecordIsMailed == Spec => []MailIsOnRecord
<1>1. IInv => MailIsOnRecord
  BY DEF IInv, Mailed, OnRecord, MailIsOnRecord
<1>2. QED BY <1>1, ReviewInvariant, PTL

\* A meeting is "sent" only if the mail of its last attempt left.
THEOREM SentIsTrue == Spec => []SentWasMailed
<1>1. IInv => SentWasMailed
  BY DEF IInv, Mailed, Ended, SentWasMailed
<1>2. QED BY <1>1, ReviewInvariant, PTL

\* Nobody approves action items or recipients they have not seen.
THEOREM ApprovalIsInformed == Spec => ApprovedAsShown
<1>1. ASSUME IInv, NEW a \in Approvers, Next, Decides(a)
      PROVE  /\ page[a].print.to = meeting'.to
             /\ page[a].print.content.items = actions'.result
             /\ page[a].print.content.text = actions'.text
  <2>1. PICK b \in Approvers : ApproveUnsent(b) \/ Conclude(b)
    BY <1>1 DEF Decides, Next, EditItem, SaveDecisions, ReadNotes, WriteNotes, StartRework, EndRework,
                Preview, Claim, Post, NoteFailure, Leave, IInv, TypeOK
  <2>2. a = b /\ page[b].print.to = meeting'.to
        /\ actions'.result = actions.result /\ actions'.text = actions.text
    BY <1>1, <2>1 DEF ApproveUnsent, Conclude, Decided, Decides, IInv, TypeOK, Items
  <2>3. CASE ApproveUnsent(b)
    BY <1>1, <2>2, <2>3, Unclaimed DEF ApproveUnsent
  <2>4. CASE Conclude(b)
    BY <1>1, <2>2, <2>4 DEF Conclude, At, InFlight, IInv, Claimed, OnRecord
  <2>5. QED BY <2>1, <2>3, <2>4
<1>2. IInv /\ [Next]_vars =>
        [\A a \in Approvers : Decides(a) =>
           /\ page[a].print.to = meeting'.to
           /\ page[a].print.content.items = actions'.result
           /\ page[a].print.content.text = actions'.text]_vars
  BY <1>1
<1>3. QED BY <1>2, ReviewInvariant, PTL DEF Spec, ApprovedAsShown

\* What was approved never changes again.
THEOREM ApprovalStays == Spec => ApprovalIsFinal
<1>1. ASSUME IInv, Next, meeting.state # "awaiting_review"
      PROVE  UNCHANGED <<meeting, delivery, actions, decisions, inbox>>
  <2>1. \A a \in Approvers : ~Claim(a) /\ ~ApproveUnsent(a)
    BY <1>1 DEF Claim, ApproveUnsent, Approvable
  <2>2. \A a \in Approvers : ~InFlight(a)
    BY <1>1 DEF IInv, Claimed, Ended, TypeOK
  <2>3. \A a \in Approvers : ~Post(a) /\ ~Conclude(a) /\ ~NoteFailure(a)
    BY <2>2 DEF Post, Conclude, NoteFailure, At, InFlight
  <2>4. QED BY <1>1, <2>1, <2>3 DEF Next, EditItem, Editable, SaveDecisions, ReadNotes, WriteNotes,
                                    StartRework, EndRework, Clean, Preview, Leave
<1>2. IInv /\ [Next]_vars =>
        [meeting.state # "awaiting_review" => UNCHANGED <<meeting, delivery, actions, decisions, inbox>>]_vars
  BY <1>1
<1>3. QED BY <1>2, ReviewInvariant, PTL DEF Spec, ApprovalIsFinal

-----------------------------------------------------------------------------
(* ReviewApproval implements NotesApproval.                                *)

\* The initial state is the promise's.
LEMMA PromiseInit == Init => Promise!Init
<1> SUFFICES ASSUME Init PROVE Promise!Init
  OBVIOUS
<1>1. NotesNow = [result |-> 0, text |-> "extracted"] /\ decisions = 0
  BY DEF Init, NewItems, NotesNow
<1>2. Shown = [a \in Approvers |-> Nobody]
  BY DEF Init, Shown, At, ClosedPage
<1>3. Outgoing = Nobody /\ Approval = Nobody
  BY DEF Init, Outgoing, Approval
<1>4. Posted = <<>>
  BY DEF Init, Posted
<1>5. QED BY <1>1, <1>2, <1>3, <1>4 DEF Promise!Init

\* A fingerprint stands for a letter, never for the absence of one.
LEMMA LettersAreLetters ==
  ASSUME NEW print \in Fingerprints
  PROVE  Letter(print) # Nobody
<1>1. Letter(print) \in [to : SUBSET People, notes : AllNotes]
  BY DEF Letter, AllNotes, Fingerprints, Content
<1>2. QED BY <1>1, NobodyIsNoLetter

\* What a reviewer is shown when a page closes, moves on or stays.
LEMMA ShownClosed ==
  ASSUME TypeOK, NEW a \in Approvers, Close(a)
  PROVE  Shown' = [Shown EXCEPT ![a] = Nobody]
<1>1. page' = [page EXCEPT ![a] = ClosedPage] /\ page \in [Approvers -> Page]
  BY DEF Close, TypeOK
<1>2. \A b \in Approvers : Shown'[b] = IF b = a THEN Nobody ELSE Shown[b]
  BY <1>1 DEF Shown, At, ClosedPage
<1>3. QED BY <1>2 DEF Shown

LEMMA ShownMoves ==
  ASSUME TypeOK, NEW a \in Approvers, ~At(a, "closed"),
         NEW stage \in {"posting", "accepted", "rejected", "uncertain"}, GoTo(a, stage)
  PROVE  Shown' = Shown
<1>1. page' = [page EXCEPT ![a].at = stage] /\ page \in [Approvers -> Page]
  BY DEF GoTo, TypeOK
<1>2. \A b \in Approvers : /\ page'[b].print = page[b].print
                           /\ page'[b].at = "closed" <=> page[b].at = "closed"
  BY <1>1 DEF At, Page
<1>3. QED BY <1>2 DEF Shown, At

LEMMA ShownStays ==
  ASSUME UNCHANGED page
  PROVE  Shown' = Shown
  BY DEF Shown, At

\* An open page shows a letter; one that is fresh shows the notes as they are.
LEMMA ShownLetter ==
  ASSUME TypeOK, NEW a \in Approvers, ~At(a, "closed")
  PROVE  Shown[a] = Letter(page[a].print) /\ Shown[a] # Nobody
<1>1. page[a].print \in Fingerprints
  BY OpenPage
<1>2. Letter(page[a].print) # Nobody
  BY <1>1, LettersAreLetters
<1>3. QED BY <1>2 DEF Shown

LEMMA FreshLetter ==
  ASSUME TypeOK, NEW a \in Approvers, Approvable(a)
  PROVE  Shown[a] = [to |-> page[a].print.to, notes |-> NotesNow] /\ Shown[a] # Nobody
<1>1. ~At(a, "closed") /\ page[a].print = Fingerprint(page[a].print.to)
  BY DEF Approvable, At, Fresh
<1>2. page[a].print.content = Mail
  BY <1>1 DEF Fingerprint
<1>3. Letter(page[a].print) = [to |-> page[a].print.to, notes |-> NotesNow]
  BY <1>2 DEF Letter, NotesNow, Mail
<1>4. QED BY <1>1, <1>3, ShownLetter

\* What has been mailed, before and after the post.
LEMMA NothingPosted ==
  ASSUME inbox = <<>>
  PROVE  Posted = <<>>
  BY DEF Posted

LEMMA OnePosted ==
  ASSUME IInv, inbox # <<>>
  PROVE  Posted = <<Outgoing>>
<1>1. Len(inbox) = 1 /\ inbox[1].print = delivery.print /\ delivery.status \in {"sending", "sent"}
  BY DEF IInv, Mailed
<1>2. Posted = [k \in 1..1 |-> Letter(delivery.print)]
  BY <1>1 DEF Posted
<1>3. Outgoing = Letter(delivery.print)
  BY <1>1 DEF Outgoing
<1>4. QED BY <1>2, <1>3

\* A step that moves none of these is none of the promise's business.
LEMMA PromiseSleeps ==
  ASSUME UNCHANGED <<meeting, delivery, decisions, page, inbox>>, NotesNow' = NotesNow
  PROVE  UNCHANGED Promise!review
<1>1. Shown' = Shown /\ Outgoing' = Outgoing /\ Posted' = Posted /\ decisions' = decisions
  BY ShownStays DEF Outgoing, Posted
<1>2. Approval' = Approval
  BY DEF Approval
<1>3. QED BY <1>1, <1>2 DEF Promise!review

\* Editing, saving decisions and reprocessing revise, and only where that is allowed.
LEMMA DraftRevises ==
  ASSUME IInv, IInv',
         \/ \E text \in Wordings : EditItem(text)
         \/ SaveDecisions
         \/ \E e \in Editors, kind \in {"transcript", "speakers"} : ReadNotes(e, kind)
         \/ \E e \in Editors : WriteNotes(e)
         \/ StartRework \/ EndRework
  PROVE  [Promise!Next]_Promise!review
<1>1. UNCHANGED <<meeting, delivery, page, inbox>>
  BY DEF EditItem, SaveDecisions, ReadNotes, WriteNotes, StartRework, EndRework
<1>2. CASE UNCHANGED <<actions, decisions>>
  BY <1>1, <1>2, PromiseSleeps DEF NotesNow
<1>3. CASE ~UNCHANGED <<actions, decisions>>
  <2>1. meeting.state = "awaiting_review" /\ delivery.status \notin {"sending", "sent"}
    BY <1>3 DEF EditItem, SaveDecisions, ReadNotes, WriteNotes, StartRework, EndRework, Editable, Clean
  <2>2. Approval = Nobody /\ Outgoing = Nobody /\ Approval' = Nobody /\ Outgoing' = Nobody
    BY <1>1, <2>1 DEF Approval, Outgoing
  <2>3. NotesNow' \in AllNotes /\ decisions' \in 0..MaxSaves
    BY DEF NotesNow, AllNotes, IInv, TypeOK, Items
  <2>4. Shown' = Shown /\ Posted' = Posted
    BY <1>1, ShownStays DEF Posted
  <2>5. Promise!Revise
    BY <2>2, <2>3, <2>4 DEF Promise!Revise
  <2>6. QED BY <2>5 DEF Promise!Next
<1>4. QED BY <1>2, <1>3

\* Every step of a reviewer is one of the promise's or none.
LEMMA PreviewLooks ==
  ASSUME IInv, NEW a \in Approvers, NEW to \in SUBSET People, Preview(a, to)
  PROVE  Promise!Look(a)
<1>1. /\ page' = [page EXCEPT ![a] = [at |-> "shown", print |-> Fingerprint(to), seen |-> decisions]]
      /\ page \in [Approvers -> Page]
  BY DEF Preview, IInv, TypeOK
<1>2. Letter(Fingerprint(to)) = [to |-> to, notes |-> NotesNow]
  BY DEF Letter, Fingerprint, Mail, NotesNow
<1>3. \A b \in Approvers : Shown'[b] = IF b = a THEN Letter(Fingerprint(to)) ELSE Shown[b]
  BY <1>1 DEF Shown, At
<1>4. Shown' = [Shown EXCEPT ![a] = Promise!Letter(to)]
  BY <1>2, <1>3 DEF Shown, Promise!Letter
<1>5. UNCHANGED <<NotesNow, decisions, Outgoing, Posted, Approval>>
  BY DEF Preview, NotesNow, Outgoing, Posted, Approval
<1>6. QED BY <1>4, <1>5 DEF Promise!Look

LEMMA ClaimBinds ==
  ASSUME IInv, NEW a \in Approvers, Claim(a)
  PROVE  Promise!Bind(a)
<1>1. Approvable(a) /\ ~At(a, "closed") /\ GoTo(a, "posting") /\ TypeOK
  BY DEF Claim, Approvable, At, IInv
<1>2. Shown' = Shown
  BY <1>1, ShownMoves
<1>3. Approval = Nobody /\ Approval' = Nobody
  BY <1>1 DEF Claim, Approvable, Approval, TypeOK
<1>4. Outgoing = Nobody
  BY <1>1, Unclaimed DEF Outgoing
<1>5. Outgoing' = Letter(page[a].print)
  BY DEF Claim, Outgoing
<1>6. Shown[a] = Letter(page[a].print) /\ Shown[a] # Nobody
  BY <1>1, ShownLetter
<1>7. Shown[a].notes = NotesNow
  <2>1. Shown[a] = [to |-> page[a].print.to, notes |-> NotesNow]
    BY <1>1, FreshLetter
  <2>2. QED BY <2>1
<1>8. UNCHANGED <<NotesNow, decisions, Posted>>
  BY DEF Claim, NotesNow, Posted
<1>9. QED BY <1>2, <1>3, <1>4, <1>5, <1>6, <1>7, <1>8 DEF Promise!Bind

LEMMA UnsentApproves ==
  ASSUME IInv, NEW a \in Approvers, ApproveUnsent(a)
  PROVE  Promise!ApproveUnsent(a)
<1>1. Approvable(a) /\ TypeOK
  BY DEF ApproveUnsent, IInv
<1>2. Shown' = [Shown EXCEPT ![a] = Nobody]
  BY <1>1, ShownClosed DEF ApproveUnsent
<1>3. Approval = Nobody /\ Outgoing = Nobody
  BY <1>1, Unclaimed DEF Approvable, Approval, Outgoing
<1>4. Outgoing' = Nobody
  BY <1>1 DEF ApproveUnsent, Outgoing, TypeOK
<1>5. Shown[a] = [to |-> page[a].print.to, notes |-> NotesNow] /\ Shown[a] # Nobody
      /\ Shown[a].notes = NotesNow
  BY <1>1, FreshLetter
<1>6. UNCHANGED <<NotesNow, decisions, Posted>>
  BY <1>1 DEF ApproveUnsent, Decided, NotesNow, Posted, TypeOK, Items
<1>7. Approval' = Promise!Approved(a, FALSE)
  BY <1>1, <1>5, <1>6 DEF ApproveUnsent, Decided, Approval, Promise!Approved
<1>8. QED BY <1>2, <1>3, <1>4, <1>5, <1>6, <1>7 DEF Promise!ApproveUnsent

LEMMA PostSends ==
  ASSUME IInv, IInv', NEW a \in Approvers, Post(a)
  PROVE  Promise!Send \/ UNCHANGED Promise!review
<1>1. inbox = <<>> /\ ~At(a, "closed") /\ delivery.status = "sending" /\ delivery.print \in Fingerprints
  BY DEF Post, At, InFlight, IInv, Claimed, Mailed, OnRecord
<1>2. Shown' = Shown
  BY <1>1, ShownMoves DEF Post, IInv
<1>3. UNCHANGED <<NotesNow, decisions, Outgoing, Approval>>
  BY DEF Post, NotesNow, Outgoing, Approval
<1>4. CASE inbox' = inbox
  <2>1. Posted' = Posted
    BY <1>4 DEF Posted
  <2>2. QED BY <1>2, <1>3, <2>1 DEF Promise!review
<1>5. CASE inbox' # inbox
  <2>1. Posted' = <<Outgoing'>>
    <3>1. inbox' # <<>>
      BY <1>1, <1>5
    <3>2. /\ Len(inbox') = 1 /\ inbox'[1].print = delivery'.print
          /\ delivery'.status \in {"sending", "sent"}
      BY <3>1 DEF IInv, Mailed
    <3>3. Posted' = [k \in 1..1 |-> Letter(delivery'.print)]
      BY <3>2 DEF Posted, Letter
    <3>4. Outgoing' = Letter(delivery'.print)
      BY <3>2 DEF Outgoing, Letter
    <3>5. QED BY <3>3, <3>4
  <2>2. Posted = <<>> /\ Outgoing # Nobody
    BY <1>1, NothingPosted, LettersAreLetters DEF Outgoing
  <2>3. QED BY <1>2, <1>3, <2>1, <2>2 DEF Promise!Send
<1>6. QED BY <1>4, <1>5

LEMMA ConcludeApproves ==
  ASSUME IInv, NEW a \in Approvers, Conclude(a)
  PROVE  Promise!ApproveSent(a)
<1>1. TypeOK /\ ~At(a, "closed") /\ At(a, "accepted") /\ InFlight(a) /\ inbox # <<>>
  BY DEF Conclude, At, InFlight, IInv, Mailed
<1>2. delivery.status = "sending" /\ delivery.print = page[a].print
  BY <1>1 DEF IInv, Claimed
<1>3. delivery.print \in Fingerprints /\ meeting.to = delivery.print.to
      /\ Letter(delivery.print) = [to |-> meeting.to, notes |-> NotesNow]
  BY <1>2 DEF IInv, OnRecord, Letter, NotesNow
<1>4. Outgoing = Letter(delivery.print) /\ Outgoing # Nobody /\ Outgoing' = Outgoing
  BY <1>1, <1>2, <1>3, LettersAreLetters DEF Conclude, Outgoing, TypeOK
<1>5. Shown[a] = Outgoing
  BY <1>1, <1>2, <1>4, ShownLetter
<1>6. Shown' = [Shown EXCEPT ![a] = Nobody]
  BY <1>1, ShownClosed DEF Conclude
<1>7. Posted = <<Outgoing>> /\ Posted' = Posted
  BY <1>1, OnePosted DEF Conclude, Posted
<1>8. UNCHANGED <<NotesNow, decisions>>
  BY <1>1 DEF Conclude, Decided, NotesNow, TypeOK, Items
<1>9. Approval = Nobody
  BY <1>2 DEF IInv, TypeOK, Ended, Approval
<1>10. Approval' = Promise!Approved(a, TRUE)
  BY <1>2, <1>3, <1>4, <1>5, <1>8 DEF Conclude, Decided, Approval, Promise!Approved
<1>11. QED BY <1>4, <1>5, <1>6, <1>7, <1>8, <1>9, <1>10 DEF Promise!ApproveSent

LEMMA LeaveLooksAway ==
  ASSUME IInv, NEW a \in Approvers, Leave(a)
  PROVE  Promise!LookAway(a)
<1>1. Shown' = [Shown EXCEPT ![a] = Nobody]
  BY ShownClosed DEF Leave, IInv
<1>2. UNCHANGED <<NotesNow, decisions, Outgoing, Posted, Approval>>
  BY DEF Leave, NotesNow, Outgoing, Posted, Approval
<1>3. QED BY <1>1, <1>2 DEF Promise!LookAway

LEMMA FailureGivesUp ==
  ASSUME IInv, NEW a \in Approvers, NoteFailure(a)
  PROVE  Promise!GiveUp(a) \/ Promise!LookAway(a)
<1>1. TypeOK /\ ~At(a, "closed") /\ InFlight(a)
  BY DEF NoteFailure, At, InFlight, IInv
<1>2. delivery.status = "sending" /\ delivery.print = page[a].print
  BY <1>1 DEF IInv, Claimed
<1>3. Shown' = [Shown EXCEPT ![a] = Nobody]
  BY <1>1, ShownClosed DEF NoteFailure
<1>4. UNCHANGED <<NotesNow, decisions, Posted, Approval>>
  BY DEF NoteFailure, NotesNow, Posted, Approval
<1>5. CASE At(a, "uncertain")
  <2>1. delivery' = [delivery EXCEPT !.status = "sending"]
    BY <1>5 DEF NoteFailure, StatusAfter, At
  <2>2. Outgoing' = Outgoing
    BY <1>1, <1>2, <2>1 DEF Outgoing, TypeOK
  <2>3. QED BY <1>3, <1>4, <2>2 DEF Promise!LookAway
<1>6. CASE At(a, "rejected")
  <2>1. delivery' = [delivery EXCEPT !.status = "failed"]
    BY <1>6 DEF NoteFailure, StatusAfter, At
  <2>2. Outgoing' = Nobody
    BY <1>1, <2>1 DEF Outgoing, TypeOK
  <2>3. inbox = <<>> /\ Approval = Nobody
    BY <1>2, <1>6 DEF IInv, Mailed, Ended, TypeOK, Approval
  <2>4. Posted = <<>>
    BY <2>3, NothingPosted
  <2>5. Shown[a] = Outgoing
    BY <1>1, <1>2, ShownLetter DEF Outgoing
  <2>6. QED BY <1>3, <1>4, <2>2, <2>3, <2>4, <2>5 DEF Promise!GiveUp
<1>7. QED BY <1>5, <1>6 DEF NoteFailure

\* So every step of the review is a step of the promise or none.
LEMMA PromiseStep == IInv /\ IInv' /\ [Next]_vars => [Promise!Next]_Promise!review
<1> SUFFICES ASSUME IInv, IInv', [Next]_vars
             PROVE  [Promise!Next]_Promise!review
  OBVIOUS
<1>1. CASE \/ \E text \in Wordings : EditItem(text)
           \/ SaveDecisions
           \/ \E e \in Editors, kind \in {"transcript", "speakers"} : ReadNotes(e, kind)
           \/ \E e \in Editors : WriteNotes(e)
           \/ StartRework \/ EndRework
  BY <1>1, DraftRevises
<1>2. ASSUME NEW a \in Approvers, NEW to \in SUBSET People, Preview(a, to)
      PROVE  Promise!Next
  BY <1>2, PreviewLooks DEF Promise!Next
<1>3. ASSUME NEW a \in Approvers,
             Claim(a) \/ ApproveUnsent(a) \/ Post(a) \/ Conclude(a) \/ NoteFailure(a) \/ Leave(a)
      PROVE  [Promise!Next]_Promise!review
  BY <1>3, ClaimBinds, UnsentApproves, PostSends, ConcludeApproves, FailureGivesUp, LeaveLooksAway
     DEF Promise!Next
<1>4. CASE UNCHANGED vars
  <2>1. UNCHANGED <<meeting, delivery, decisions, page, inbox>> /\ NotesNow' = NotesNow
    BY <1>4 DEF vars, NotesNow
  <2>2. QED BY <2>1, PromiseSleeps
<1>5. QED BY <1>1, <1>2, <1>3, <1>4 DEF Next

\* The review, with any number of reviewers, editors, crashes and lost answers, implements the
\* promise: one letter, as shown, bound before it leaves and frozen with the approval.
THEOREM PromiseIsKept == Spec => ImplementsPromise
<1>1. QED BY PromiseInit, PromiseStep, ReviewInvariant, PTL DEF Spec, Promise!Spec, ImplementsPromise

-----------------------------------------------------------------------------
(* Approving decisions nobody has shown, and the one request that allows it.*)

\* A page carries the revision of the decisions it shows, and nothing has been saved since it
\* was posted.
DecisionsShown ==
  /\ extracted.revision = decisions
  /\ \A a \in Approvers : ~At(a, "closed") => page[a].print.revision = page[a].seen
  /\ \A a \in Approvers : InFlight(a) => page[a].seen = decisions

\* Where nobody saves speaker names, the revision follows the decisions.
LEMMA RevisionFollows ==
  ASSUME Editors = {}, IInv, DecisionsShown, [Next]_vars
  PROVE  DecisionsShown'
<1>0. page \in [Approvers -> Page] /\ extracted \in Extracted
  BY DEF IInv, TypeOK
<1>1. CASE UNCHANGED <<decisions, extracted, page>>
  BY <1>1 DEF DecisionsShown, At, InFlight
<1>2. CASE SaveDecisions
  <2>1. \A a \in Approvers : ~InFlight(a)
    BY <1>2 DEF SaveDecisions, Editable, IInv, Claimed
  <2>2. extracted'.revision = decisions' /\ page' = page
    BY <1>0, <1>2 DEF SaveDecisions, Extracted
  <2>3. QED BY <2>1, <2>2 DEF DecisionsShown, At, InFlight
<1>3. CASE EndRework
  <2>1. extracted'.revision = extracted.revision /\ UNCHANGED <<decisions, page>>
    BY <1>0, <1>3 DEF EndRework, Extracted
  <2>2. QED BY <2>1 DEF DecisionsShown, At, InFlight
<1>4. ASSUME NEW a \in Approvers, NEW to \in SUBSET People, Preview(a, to)
      PROVE  DecisionsShown'
  <2>1. Fingerprint(to).revision = decisions /\ UNCHANGED <<decisions, extracted>>
    BY <1>4 DEF DecisionsShown, Fingerprint, Preview
  <2>2. page' = [page EXCEPT ![a] = [at |-> "shown", print |-> Fingerprint(to), seen |-> decisions]]
    BY <1>4 DEF Preview
  <2>3. \A b \in Approvers : \/ page'[b] = page[b]
                             \/ page'[b].at = "shown" /\ page'[b].print.revision = page'[b].seen
    BY <1>0, <2>1, <2>2
  <2>4. QED BY <2>1, <2>3 DEF DecisionsShown, At, InFlight
<1>5. ASSUME NEW a \in Approvers, Claim(a)
      PROVE  DecisionsShown'
  <2>1. page[a].seen = decisions
    BY <1>5 DEF Claim, Approvable, Fresh, Fingerprint, At, DecisionsShown
  <2>2. \A b \in Approvers : /\ page'[b].print = page[b].print /\ page'[b].seen = page[b].seen
                             /\ b = a \/ page'[b].at = page[b].at
    BY <1>0, <1>5 DEF Claim, GoTo, Page
  <2>3. ~At(a, "closed") /\ UNCHANGED <<decisions, extracted>>
    BY <1>5 DEF Claim, Approvable, At
  <2>4. QED BY <2>1, <2>2, <2>3 DEF DecisionsShown, At, InFlight
<1>6. ASSUME NEW a \in Approvers, Post(a)
      PROVE  DecisionsShown'
  <2>1. InFlight(a) /\ ~At(a, "closed") /\ UNCHANGED <<decisions, extracted>>
    BY <1>6 DEF Post, InFlight, At
  <2>2. \A b \in Approvers : /\ page'[b].print = page[b].print /\ page'[b].seen = page[b].seen
                             /\ b = a \/ page'[b].at = page[b].at
    BY <1>0, <1>6 DEF Post, GoTo, Page
  <2>3. QED BY <2>1, <2>2 DEF DecisionsShown, At, InFlight
<1>7. ASSUME NEW a \in Approvers, ApproveUnsent(a) \/ Conclude(a) \/ NoteFailure(a) \/ Leave(a)
      PROVE  DecisionsShown'
  <2>1. Close(a) /\ UNCHANGED <<decisions, extracted>>
    BY <1>7 DEF ApproveUnsent, Conclude, NoteFailure, Leave
  <2>2. \A b \in Approvers : page'[b] = page[b] \/ page'[b].at = "closed"
    BY <1>0, <2>1 DEF Close, ClosedPage
  <2>3. QED BY <2>1, <2>2 DEF DecisionsShown, At, InFlight
<1>8. CASE (\E text \in Wordings : EditItem(text)) \/ StartRework \/ UNCHANGED vars
  BY <1>1, <1>8 DEF EditItem, StartRework, vars
<1>9. QED BY <1>2, <1>3, <1>4, <1>5, <1>6, <1>7, <1>8 DEF Next

\* Unseen decisions are approved through those unlocked saves alone (reviews.py:789-819): where
\* none is made, whoever approves has seen the decisions that are approved, whatever the mail,
\* the crashes and the reprocessing do.
THEOREM OnlyUnlockedSavesHideDecisions ==
  ASSUME Editors = {}
  PROVE  Spec => ApprovedDecisionsSeen
<1>1. Init => DecisionsShown
  BY DEF Init, DecisionsShown, FirstResult, ClosedPage, At, InFlight
<1>2. IInv /\ DecisionsShown /\ [Next]_vars => DecisionsShown'
  BY RevisionFollows
<1>3. ASSUME IInv, DecisionsShown, NEW a \in Approvers, Next, Decides(a)
      PROVE  page[a].seen = decisions
  <2>1. PICK b \in Approvers : ApproveUnsent(b) \/ Conclude(b)
    BY <1>3 DEF Decides, Next, EditItem, SaveDecisions, ReadNotes, WriteNotes, StartRework, EndRework,
                Preview, Claim, Post, NoteFailure, Leave, IInv, TypeOK
  <2>2. a = b
    BY <1>3, <2>1 DEF ApproveUnsent, Conclude, Decided, Decides, IInv, TypeOK
  <2>3. CASE ApproveUnsent(b)
    BY <1>3, <2>2, <2>3 DEF ApproveUnsent, Approvable, Fresh, Fingerprint, At, DecisionsShown
  <2>4. CASE Conclude(b)
    BY <1>3, <2>2, <2>4 DEF Conclude, At, InFlight, DecisionsShown
  <2>5. QED BY <2>1, <2>3, <2>4
<1>4. IInv /\ DecisionsShown /\ [Next]_vars =>
        [\A a \in Approvers : Decides(a) => page[a].seen = decisions]_vars
  BY <1>3
<1>5. QED BY <1>1, <1>2, <1>4, ReviewInvariant, PTL DEF Spec, ApprovedDecisionsSeen
=============================================================================
