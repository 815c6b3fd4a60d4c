----------------------------- MODULE MeetingAccess -----------------------------
(***************************************************************************)
(* Who may see and edit one meeting: its participant rows, the requests    *)
(* and decisions about them, and the accounts of the people concerned.     *)
(*                                                                         *)
(* A call of the API reads in one step and commits in another; the unit of *)
(* work then writes the columns the call changed, over whatever is there.  *)
(* Decisions and revocations hold the lock of the meeting row in between;  *)
(* requests, shares and account changes hold none.                         *)
(***************************************************************************)
EXTENDS Naturals, FiniteSets

CONSTANTS
  Users,     (* people of the company                                      *)
  Organizer, (* organizer_upn                                              *)
  Owner,     (* the owner of the recording                                 *)
  Attendees, (* attendees_raw: the calendar's attendees                    *)
  Founders,  (* the administrators to begin with                           *)
  Calls,     (* API calls that may be in flight at once                    *)
  Nobody,    (* stands for NULL                                            *)
  MaxChanges (* bound on the changes of accounts                           *)

ASSUME PeopleAreUsers == Organizer \in Users /\ Owner \in Users /\ Attendees \subseteq Users
ASSUME SomebodyAdministers == Founders \subseteq Users /\ Founders # {}
ASSUME NobodyIsNoUser == Nobody \notin Users
ASSUME BoundIsNatural == MaxChanges \in Nat

VARIABLES
  account, (* the users table: no row, a member or an administrator        *)
  changes, (* how often it has changed                                     *)
  row,     (* the participant row of each user: access type, edit status   *)
  meeting, (* its processing state                                         *)
  publish, (* the worker's last stage: whether it runs, the rows it adds   *)
  call,    (* what each call in flight has read and means to write         *)
  barred   (* history: whose access was taken away and not asked for since *)

vars == <<account, changes, row, meeting, publish, call, barred>>

NoView == {"request_view", "request_edit", "revoked"}
Types == {"none", "participant", "shared", "historical"} \cup NoView
Edits == {"none", "pending", "approved", "denied"}
Rows == [type : Types, edit : Edits]
NoRow == [type |-> "none", edit |-> "none"]

RowOps == {"ask_edit", "ask_access", "share", "decide", "revoke_view", "revoke_edit"}
AccountOps == {"remove", "demote"}
\* What a call writes to each column, "same" if it leaves it alone; whether the row is new;
\* the other administrators it has counted.
Same == [type |-> "same", edit |-> "same"]
Puts == [type : Types \cup {"same"}, edit : Edits \cup {"same"}]
Idle == [op |-> "none", target |-> Nobody, put |-> Same, new |-> FALSE, others |-> {}]
Busy == [op : RowOps \cup AccountOps, target : Users, put : Puts, new : BOOLEAN,
         others : SUBSET Users]
NoPublish == [on |-> FALSE, add |-> {}]

Invited == Attendees \cup {Organizer, Owner}
Admins == {u \in Users : account[u] = "admin"}

\* has_view_access, of a row that may be missing.
HasView(r) == r.type \notin NoView \cup {"none"}

\* _is_attendee_participant: shared rows and pending ones count by the calendar only.
Attends(u, r) == r # NoRow /\ (r.type \in {"participant", "historical"} \/ u \in Attendees)

\* _authorize.
Sees(u) == HasView(row[u])

Init ==
  /\ account = [u \in Users |-> IF u \in Founders THEN "admin" ELSE "member"]
  /\ changes = 0
  /\ row = [u \in Users |-> NoRow]
  /\ meeting = "processing"
  /\ publish = NoPublish
  /\ call = [c \in Calls |-> Idle]
  /\ barred = [u \in Users |-> FALSE]

-----------------------------------------------------------------------------
(* What a call reads.                                                      *)

\* The unit of work will update the columns that differ from what was read.
Change(saw, next) ==
  [type |-> IF next.type = saw.type THEN "same" ELSE next.type,
   edit |-> IF next.edit = saw.edit THEN "same" ELSE next.edit]

Start(c, op, u, put, new, others) ==
  /\ call[c] = Idle
  /\ call' = [call EXCEPT ![c] =
       [op |-> op, target |-> u, put |-> put, new |-> new, others |-> others]]
  /\ UNCHANGED <<account, changes, row, meeting, publish, barred>>

Begin(c, op, u, next) == Start(c, op, u, Change(row[u], next), row[u] = NoRow, {})
Count(c, op, u) == changes < MaxChanges /\ Start(c, op, u, Same, FALSE, Admins \ {u})

LockedOps == {"decide", "revoke_view", "revoke_edit"}

\* Mutant: the meeting row is not locked.
LockFree_Ignored == TRUE

LockFree == \A c \in Calls : call[c].op \notin LockedOps

\* request_edit_access, for somebody who sees the meeting.
MayAskEdit(u) ==
  /\ Sees(u) /\ meeting = "awaiting_review"
  /\ u # Organizer /\ Attends(u, row[u]) /\ row[u].edit \in {"none", "denied"}

AskEdit(c, u) ==
  MayAskEdit(u) /\ Begin(c, "ask_edit", u, [row[u] EXCEPT !.edit = "pending"])

\* request_historical_access, for somebody who does not.
MayAskAccess(u, type) ==
  LET again == row[u].type = "revoked" \/ row[u] = [type |-> "request_view", edit |-> "denied"] IN
  /\ account[u] # "none" /\ ~HasView(row[u])
  /\ ~(type = "request_view" /\ row[u] = [type |-> "request_view", edit |-> "pending"])
  /\ u \in Attendees \/ (type = "request_view" /\ again)

AskAccess(c, u, type) ==
  MayAskAccess(u, type) /\ Begin(c, "ask_access", u, [type |-> type, edit |-> "pending"])

Share(c, u) ==
  /\ Sees(Organizer) /\ row[u] = NoRow
  /\ Begin(c, "share", u, [type |-> "shared", edit |-> "none"])

\* Mutant: the decision does not look at who asked.
Decidable_Anybody(u) == row[u] # NoRow /\ u # Organizer /\ row[u].edit = "pending"

\* The request decide_edit_access finds, if any.
Decidable(u) == Attends(u, row[u]) /\ u # Organizer /\ row[u].edit = "pending"

\* The organizer, if they see the meeting, or any administrator.
SomebodyDecides == Sees(Organizer) \/ Admins # {}

\* Mutant: a decision always grants the view.
Decision_Historical(r, approved) ==
  IF ~approved THEN [r EXCEPT !.edit = "denied"] ELSE [type |-> "historical", edit |-> "approved"]

\* Mutant: a refusal takes the view as well.
Decision_Revokes(r, approved) ==
  IF ~approved THEN [type |-> "revoked", edit |-> "denied"] ELSE [r EXCEPT !.edit = "approved"]

Decision(r, approved) ==
  IF ~approved THEN [r EXCEPT !.edit = "denied"]
  ELSE [type |-> IF r.type \in {"request_view", "request_edit"} THEN "historical" ELSE r.type,
        edit |-> IF r.type = "request_view" THEN "none" ELSE "approved"]

Decide(c, u, approved) ==
  LockFree /\ SomebodyDecides /\ Decidable(u) /\ Begin(c, "decide", u, Decision(row[u], approved))

RevokeView(c, u) ==
  /\ LockFree /\ Admins # {} /\ u # Organizer /\ HasView(row[u])
  /\ Begin(c, "revoke_view", u, [type |-> "revoked", edit |-> "denied"])

RevokeEdit(c, u) ==
  /\ LockFree /\ Admins # {} /\ u # Organizer /\ row[u].edit = "approved"
  /\ Begin(c, "revoke_edit", u, [row[u] EXCEPT !.edit = "denied"])

\* Mutant: an administrator may always step down.
NotTheLast_Unchecked(u) == TRUE

\* _ensure_not_last_admin.
NotTheLast(u) == account[u] = "admin" => Cardinality(Admins) > 1

\* remove_user: by another administrator.
Remove(c, u) ==
  /\ account[u] # "none" /\ Admins \ {u} # {} /\ NotTheLast(u)
  /\ Count(c, "remove", u)

\* update_user with is_admin off, by any administrator.
Demote(c, u) ==
  account[u] = "admin" /\ NotTheLast(u) /\ Count(c, "demote", u)

-----------------------------------------------------------------------------
(* What a call commits.                                                    *)

Applied(put, r) ==
  [type |-> IF put.type = "same" THEN r.type ELSE put.type,
   edit |-> IF put.edit = "same" THEN r.edit ELSE put.edit]

Return(c) == call' = [call EXCEPT ![c] = Idle]

\* An insert fails if the row has come to exist (uq_meeting_user).
Collides(c) == call[c].new /\ row[call[c].target] # NoRow

CommitRow(c) ==
  LET u == call[c].target IN
  /\ call[c].op \in RowOps /\ ~Collides(c)
  /\ row' = [row EXCEPT ![u] = Applied(call[c].put, row[u])]
  /\ barred' = [barred EXCEPT ![u] =
       call[c].op = "revoke_view" \/ (barred[u] /\ call[c].op # "ask_access")]
  /\ Return(c) /\ UNCHANGED <<account, changes, meeting, publish>>

SetAccount(u, role) ==
  /\ changes < MaxChanges /\ changes' = changes + 1
  /\ account' = [account EXCEPT ![u] = role]

Alone(c) == \A d \in Calls \ {c} : call[d].target # call[c].target

\* One transaction revokes the user's rows and deletes the account.
CommitRemoval(c) ==
  LET u == call[c].target IN
  /\ call[c].op = "remove" /\ account[u] # "none"
  /\ SetAccount(u, "none")
  /\ row' = [row EXCEPT ![u] = IF @ = NoRow THEN NoRow ELSE [type |-> "revoked", edit |-> "denied"]]
  /\ barred' = [barred EXCEPT ![u] = row[u] # NoRow /\ (barred[u] \/ Alone(c))]
  /\ Return(c) /\ UNCHANGED <<meeting, publish>>

CommitDemotion(c) ==
  LET u == call[c].target IN
  /\ call[c].op = "demote" /\ account[u] # "none"
  /\ SetAccount(u, "member")
  /\ Return(c) /\ UNCHANGED <<row, meeting, publish, barred>>

\* A commit that fails, a refusal after the read, a call that is cut off.
Abandon(c) == call[c] # Idle /\ Return(c) /\ UNCHANGED <<account, changes, row, meeting, publish, barred>>

-----------------------------------------------------------------------------
(* The rest of the system.                                                 *)

\* update_user with is_admin on.
Promote(u) ==
  /\ account[u] = "member" /\ Admins # {}
  /\ SetAccount(u, "admin")
  /\ UNCHANGED <<row, meeting, publish, call, barred>>

\* get_me registers whoever signs in.
SignIn(u) ==
  /\ account[u] = "none" /\ SetAccount(u, "member")
  /\ UNCHANGED <<row, meeting, publish, call, barred>>

\* register_user, by an administrator.
Register(u, role) ==
  /\ account[u] = "none" /\ Admins # {} /\ SetAccount(u, role)
  /\ UNCHANGED <<row, meeting, publish, call, barred>>

Participant == [type |-> "participant", edit |-> "none"]

\* process_recording shows the meeting to the owner first of all ...
AddOwner ==
  /\ meeting = "processing" /\ ~publish.on /\ row[Owner] = NoRow
  /\ row' = [row EXCEPT ![Owner] = Participant]
  /\ UNCHANGED <<account, changes, meeting, publish, call, barred>>

\* ... and, when it has its result, to everybody invited who is registered.
ReadInvited ==
  /\ meeting = "processing" /\ ~publish.on
  /\ publish' = [on |-> TRUE, add |-> {u \in Invited : account[u] # "none" /\ row[u] = NoRow}]
  /\ UNCHANGED <<account, changes, row, meeting, call, barred>>

Publish ==
  /\ publish.on /\ \A u \in publish.add : row[u] = NoRow
  /\ row' = [u \in Users |-> IF u \in publish.add THEN Participant ELSE row[u]]
  /\ meeting' = "awaiting_review" /\ publish' = NoPublish
  /\ UNCHANGED <<account, changes, call, barred>>

\* The commit fails, or the worker does; the job is tried again.
PublishFails ==
  /\ publish.on /\ publish' = NoPublish
  /\ UNCHANGED <<account, changes, row, meeting, call, barred>>

Next ==
  \/ \E c \in Calls, u \in Users :
       \/ AskEdit(c, u) \/ Share(c, u) \/ RevokeView(c, u) \/ RevokeEdit(c, u)
       \/ \E type \in {"request_view", "request_edit"} : AskAccess(c, u, type)
       \/ \E approved \in BOOLEAN : Decide(c, u, approved)
       \/ Remove(c, u) \/ Demote(c, u)
  \/ \E c \in Calls : CommitRow(c) \/ CommitRemoval(c) \/ CommitDemotion(c) \/ Abandon(c)
  \/ \E u \in Users : SignIn(u) \/ Promote(u) \/ \E role \in {"member", "admin"} : Register(u, role)
  \/ AddOwner \/ ReadInvited \/ Publish \/ PublishFails

Spec == Init /\ [][Next]_vars

-----------------------------------------------------------------------------
(* What the organizer is shown, and who may edit.                          *)

\* _to_out, to the organizer: the requests to decide.
ShowsRequest(u) == row[u] # NoRow /\ row[u].edit = "pending"

\* _require_editor, of somebody who is no administrator.
Editor(u) == u = Organizer \/ (Attends(u, row[u]) /\ row[u].edit = "approved")

-----------------------------------------------------------------------------
(* Properties.                                                             *)

\* Accounts, rows and calls hold values of their types; a call means to write a row that
\* exists, and decisions and revocations are one at a time.
TypeOK ==
  /\ account \in [Users -> {"none", "member", "admin"}] /\ changes \in 0..MaxChanges
  /\ row \in [Users -> Rows]
  /\ \A u \in Users : row[u].type = "none" => row[u] = NoRow
  /\ meeting \in {"processing", "awaiting_review"}
  /\ publish \in [on : BOOLEAN, add : SUBSET Invited]
  /\ call \in [Calls -> Busy \cup {Idle}]
  /\ \A c \in Calls : call[c].op \in RowOps => call[c].put.type # "none"
  /\ \A c, d \in Calls : call[c].op \in LockedOps /\ call[d].op \in LockedOps => c = d
  /\ barred \in [Users -> BOOLEAN]

\* Access that was revoked, or went with the account, stays revoked until the user asks for
\* it again, whatever requests, shares, decisions and results are still on their way
\* (admin.py:427, "must not remain a source of access after the account is removed"; a removal
\* is meant here that no other call on the same row overlaps).
RevocationSticks == \A u \in Users : barred[u] => row[u].type = "revoked"

\* Only people of the meeting become editors or count as its attendees: a colleague it was
\* shared with does neither, through no sequence of requests and decisions (reviews.py:111,
\* "Distinguish real attendees from users who only received shared view access").
OnlyInvitedEdit ==
  \A u \in Users : Editor(u) \/ row[u].type \in {"participant", "historical"} => u \in Invited

\* Nobody loses sight of a meeting but by a revocation, by the removal of their account, or
\* by a request of their own, which they could not make while they had it.
LossIsDeliberate ==
  [][\A u \in Users : HasView(row[u]) /\ ~HasView(row'[u]) =>
       \E c \in Calls :
         /\ call[c].target = u /\ call'[c] = Idle
         /\ \/ call[c].op \in {"revoke_view", "remove"}
            \/ call[c].op = "ask_access" /\ call[c].put.type # "same"]_vars

\* The last administrator goes only if another one, counted when the call began, has gone
\* since (admin.py:97, "Keep at least one registered admin able to manage the platform").
LastAdminNeedsRace ==
  [][Admins # {} /\ Admins' = {} =>
       \E c \in Calls : call'[c] = Idle /\ call[c].op \in {"remove", "demote"}
                        /\ call[c].others \ Admins # {}]_vars

\* What the model and a test say of a request (models.py:338, "pending owner approval";
\* test_api_reviews.py:526, "revoked or rejected view can be requested again"): a request the
\* organizer is shown is one that can be decided.
ShownIsDecidable == \A u \in Users \ {Organizer} : ShowsRequest(u) => Decidable(u)
=============================================================================
