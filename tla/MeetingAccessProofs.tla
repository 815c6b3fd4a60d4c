-------------------------- MODULE MeetingAccessProofs --------------------------
(***************************************************************************)
(* What MeetingAccess guarantees for any number of users, attendees, calls *)
(* and changes of accounts.  The inductive invariant says what a call that *)
(* is still in flight can do to the row when it commits.                   *)
(***************************************************************************)
EXTENDS MeetingAccess, FiniteSetTheorems, TLAPS

\* What a call on a row may mean to write: it inserts a row or has read one, it makes nobody
\* an attendee who was not invited, and it gives nothing back to whom everything was taken
\* from, unless it is their own request.
Fit(op, u, put, new) ==
  /\ put.type # "none"
  /\ IF new THEN put.type # "same" ELSE row[u] # NoRow
  /\ put.type \in {"participant", "historical"} => u \in Invited
  /\ op \in {"ask_edit", "revoke_edit"} => put.type = "same"
  /\ op = "share" => new
  /\ op = "revoke_view" => put.type = "revoked"
  /\ op = "decide" => put.type \in {"same", "historical"}
  /\ barred[u] => op = "ask_access" \/ put.type \in {"same", "revoked"} \/ new

Prepared ==
  \A c \in Calls : call[c].op \in RowOps =>
    Fit(call[c].op, call[c].target, call[c].put, call[c].new)

InvitedOnly == \A u \in Users : row[u].type \in {"participant", "historical"} => u \in Invited

IInv == TypeOK /\ RevocationSticks /\ InvitedOnly /\ Prepared

-----------------------------------------------------------------------------
(* Constants and initial states.                                           *)

\* A call that is idle is not one that is busy.
LEMMA IdleIsNotBusy ==
  /\ Idle \notin Busy /\ Idle.op \notin RowOps \cup AccountOps
  /\ LockedOps \subseteq RowOps /\ RowOps \cap AccountOps = {}
  BY DEF Idle, Busy, RowOps, AccountOps, LockedOps

\* The initial states satisfy the invariant.
LEMMA InvInit == Init => IInv
<1> SUFFICES ASSUME Init PROVE IInv
  OBVIOUS
<1>1. NoRow \in Rows /\ NoRow.type = "none"
  BY DEF NoRow, Rows, Types, Edits
<1>2. TypeOK
  BY <1>1, BoundIsNatural, IdleIsNotBusy DEF Init, TypeOK, NoPublish
<1>3. RevocationSticks /\ InvitedOnly /\ Prepared
  BY <1>1, IdleIsNotBusy DEF Init, RevocationSticks, InvitedOnly, Prepared
<1>4. QED BY <1>2, <1>3 DEF IInv

-----------------------------------------------------------------------------
(* What a call reads.                                                      *)

\* A call that starts with something fit to write keeps the invariant.
LEMMA StartKeeps ==
  ASSUME IInv, NEW c \in Calls, NEW u \in Users, NEW op \in RowOps \cup AccountOps,
         NEW put \in Puts, NEW new \in BOOLEAN, NEW others \in SUBSET Users,
         Start(c, op, u, put, new, others),
         op \in LockedOps => LockFree,
         op \in RowOps => Fit(op, u, put, new)
  PROVE  IInv'
<1> DEFINE started == [op |-> op, target |-> u, put |-> put, new |-> new, others |-> others]
<1>1. /\ call' = [call EXCEPT ![c] = started] /\ started \in Busy
      /\ UNCHANGED <<account, changes, row, meeting, publish, barred>>
  BY DEF Start, Busy
<1>2. TypeOK'
  <2>1. call' \in [Calls -> Busy \cup {Idle}]
    BY <1>1 DEF IInv, TypeOK
  <2>2. \A d \in Calls : call'[d].op \in RowOps => call'[d].put.type # "none"
    BY <1>1 DEF IInv, TypeOK, Fit
  <2>3. \A d, e \in Calls : call'[d].op \in LockedOps /\ call'[e].op \in LockedOps => d = e
    BY <1>1 DEF IInv, TypeOK, LockFree
  <2>4. QED BY <1>1, <2>1, <2>2, <2>3 DEF IInv, TypeOK
<1>3. RevocationSticks' /\ InvitedOnly'
  BY <1>1 DEF IInv, RevocationSticks, InvitedOnly
<1>4. Prepared'
  BY <1>1 DEF IInv, TypeOK, Prepared, Fit
<1>5. QED BY <1>2, <1>3, <1>4 DEF IInv

\* What Change makes of two rows.
LEMMA ChangeType ==
  ASSUME NEW saw \in Rows, NEW next \in Rows
  PROVE  /\ Change(saw, next) \in Puts
         /\ next.type = saw.type => Change(saw, next).type = "same"
         /\ next.type # saw.type => Change(saw, next).type = next.type
  BY DEF Change, Puts, Rows

LEMMA RowTyped ==
  ASSUME TypeOK, NEW u \in Users
  PROVE  /\ row[u] \in Rows /\ row[u].type \in Types /\ row[u].edit \in Edits
         /\ row[u].type = "none" <=> row[u] = NoRow
  BY DEF TypeOK, Rows, NoRow

\* A call on a row that begins keeps the invariant, if the row it means to write is fit.
LEMMA BeginKeeps ==
  ASSUME IInv, NEW c \in Calls, NEW u \in Users, NEW op \in RowOps, NEW next \in Rows,
         Begin(c, op, u, next), op \in LockedOps => LockFree,
         Fit(op, u, Change(row[u], next), row[u] = NoRow)
  PROVE  IInv'
<1>1. PICK put \in Puts : put = Change(row[u], next)
  BY RowTyped, ChangeType DEF IInv
<1>2. PICK new \in BOOLEAN : new = (row[u] = NoRow)
  OBVIOUS
<1>3. PICK others \in SUBSET Users : others = {}
  OBVIOUS
<1>4. Start(c, op, u, put, new, others) /\ Fit(op, u, put, new)
  BY <1>1, <1>2, <1>3 DEF Begin
<1>5. QED BY <1>4, StartKeeps

\* Reading for a request, a share, a decision or a revocation.
LEMMA ReadKeeps ==
  ASSUME IInv, NEW c \in Calls, NEW u \in Users,
         \/ AskEdit(c, u) \/ Share(c, u) \/ RevokeView(c, u) \/ RevokeEdit(c, u)
         \/ \E type \in {"request_view", "request_edit"} : AskAccess(c, u, type)
         \/ \E approved \in BOOLEAN : Decide(c, u, approved)
  PROVE  IInv'
<1>1. /\ row[u] \in Rows /\ row[u].type \in Types /\ row[u].edit \in Edits
      /\ row[u].type = "none" <=> row[u] = NoRow
  BY RowTyped DEF IInv
<1>2. barred[u] => row[u].type = "revoked"
  BY DEF IInv, RevocationSticks
<1>3. CASE AskEdit(c, u)
  <2> DEFINE next == [row[u] EXCEPT !.edit = "pending"]
  <2>1. next \in Rows /\ next.type = row[u].type
    BY <1>1 DEF Rows, Edits
  <2>2. Change(row[u], next).type = "same"
    BY <1>1, <2>1, ChangeType
  <2>3. row[u] # NoRow
    BY <1>1, <1>3 DEF AskEdit, MayAskEdit, Sees, HasView
  <2>4. Fit("ask_edit", u, Change(row[u], next), row[u] = NoRow)
    BY <2>2, <2>3 DEF Fit
  <2>5. QED BY <1>3, <2>1, <2>4, BeginKeeps DEF AskEdit, RowOps, LockedOps
<1>4. CASE Share(c, u)
  <2> DEFINE next == [type |-> "shared", edit |-> "none"]
  <2>1. next \in Rows /\ row[u] = NoRow
    BY <1>4 DEF Share, Rows, Types, Edits
  <2>2. Change(row[u], next).type = "shared"
    BY <1>1, <2>1, ChangeType
  <2>3. Fit("share", u, Change(row[u], next), row[u] = NoRow)
    BY <2>1, <2>2 DEF Fit
  <2>4. QED BY <1>4, <2>1, <2>3, BeginKeeps DEF Share, RowOps, LockedOps
<1>5. CASE RevokeView(c, u)
  <2> DEFINE next == [type |-> "revoked", edit |-> "denied"]
  <2>1. next \in Rows
    BY DEF Rows, Types, Edits, NoView
  <2>2. row[u] # NoRow /\ row[u].type # "revoked"
    BY <1>1, <1>5 DEF RevokeView, HasView, NoView
  <2>3. Change(row[u], next).type = "revoked"
    BY <1>1, <2>1, <2>2, ChangeType
  <2>4. Fit("revoke_view", u, Change(row[u], next), row[u] = NoRow)
    BY <2>2, <2>3 DEF Fit
  <2>5. QED BY <1>5, <2>1, <2>4, BeginKeeps DEF RevokeView, RowOps
<1>6. CASE RevokeEdit(c, u)
  <2> DEFINE next == [row[u] EXCEPT !.edit = "denied"]
  <2>1. next \in Rows /\ next.type = row[u].type
    BY <1>1 DEF Rows, Edits
  <2>2. Change(row[u], next).type = "same"
    BY <1>1, <2>1, ChangeType
  <2>3. row[u] # NoRow
    BY <1>6 DEF RevokeEdit, NoRow
  <2>4. Fit("revoke_edit", u, Change(row[u], next), row[u] = NoRow)
    BY <2>2, <2>3 DEF Fit
  <2>5. QED BY <1>6, <2>1, <2>4, BeginKeeps DEF RevokeEdit, RowOps
<1>7. ASSUME NEW type \in {"request_view", "request_edit"}, AskAccess(c, u, type)
      PROVE  IInv'
  <2> DEFINE next == [type |-> type, edit |-> "pending"]
  <2>1. next \in Rows /\ next.type = type
    BY DEF Rows, Types, Edits, NoView
  <2>2. Change(row[u], next).type = IF type = row[u].type THEN "same" ELSE type
    BY <1>1, <2>1, ChangeType
  <2>3. Fit("ask_access", u, Change(row[u], next), row[u] = NoRow)
    BY <1>1, <2>2 DEF Fit
  <2>4. QED BY <1>7, <2>1, <2>3, BeginKeeps DEF AskAccess, RowOps, LockedOps
<1>8. ASSUME NEW approved \in BOOLEAN, Decide(c, u, approved)
      PROVE  IInv'
  <2> DEFINE next == Decision(row[u], approved)
  <2>1. next \in Rows
    BY <1>1 DEF Decision, Rows, Types, Edits
  <2>2. \/ next.type = row[u].type
        \/ next.type = "historical" /\ row[u].type \in {"request_view", "request_edit"}
    BY <1>1 DEF Decision, Rows
  <2>3. \/ Change(row[u], next).type = "same"
        \/ /\ Change(row[u], next).type = "historical"
           /\ row[u].type \in {"request_view", "request_edit"}
    BY <1>1, <2>1, <2>2, ChangeType
  <2>4. row[u] # NoRow /\ (row[u].type \in {"request_view", "request_edit"} => u \in Invited)
    BY <1>8 DEF Decide, Decidable, Attends, Invited
  <2>5. Fit("decide", u, Change(row[u], next), row[u] = NoRow)
    BY <1>2, <2>3, <2>4 DEF Fit
  <2>6. QED BY <1>8, <2>1, <2>5, BeginKeeps DEF Decide, RowOps
<1>9. QED BY <1>3, <1>4, <1>5, <1>6, <1>7, <1>8

\* Counting the administrators for a removal or a demotion.
LEMMA CountKeeps ==
  ASSUME IInv, NEW c \in Calls, NEW u \in Users, Remove(c, u) \/ Demote(c, u)
  PROVE  IInv'
<1>1. Same \in Puts /\ Admins \ {u} \in SUBSET Users
  BY DEF Same, Puts, Admins
<1>2. PICK op \in AccountOps : Start(c, op, u, Same, FALSE, Admins \ {u})
  BY DEF Remove, Demote, Count, AccountOps
<1>3. QED BY <1>1, <1>2, IdleIsNotBusy, StartKeeps

-----------------------------------------------------------------------------
(* What a call commits.                                                    *)

\* The calls once c has returned.
LEMMA Returned ==
  ASSUME TypeOK, NEW c \in Calls, Return(c)
  PROVE  /\ call' \in [Calls -> Busy \cup {Idle}]
         /\ \A d \in Calls : call'[d].op \in RowOps \cup AccountOps => d # c /\ call'[d] = call[d]
         /\ \A d \in Calls : call'[d].op \in RowOps => call'[d].put.type # "none"
         /\ \A d, e \in Calls : call'[d].op \in LockedOps /\ call'[e].op \in LockedOps => d = e
<1>1. call' = [call EXCEPT ![c] = Idle] /\ call \in [Calls -> Busy \cup {Idle}]
  BY DEF Return, TypeOK
<1>2. \A d \in Calls : call'[d] = IF d = c THEN Idle ELSE call[d]
  BY <1>1
<1>3. QED BY <1>1, <1>2, IdleIsNotBusy DEF TypeOK

\* The target of a call.
LEMMA Target ==
  ASSUME TypeOK, NEW c \in Calls, call[c].op \in RowOps \cup AccountOps
  PROVE  call[c].target \in Users /\ call[c].put \in Puts /\ call[c].new \in BOOLEAN
<1>1. call[c] \in Busy
  BY IdleIsNotBusy DEF TypeOK
<1>2. QED BY <1>1 DEF Busy

\* Committing a request, a share, a decision or a revocation.
LEMMA CommitRowKeeps ==
  ASSUME IInv, NEW c \in Calls, CommitRow(c)
  PROVE  IInv'
<1> DEFINE u == call[c].target
           put == call[c].put
<1>1. /\ call[c].op \in RowOps /\ ~Collides(c)
      /\ row' = [row EXCEPT ![u] = Applied(put, row[u])]
      /\ barred' = [barred EXCEPT ![u] =
           call[c].op = "revoke_view" \/ (barred[u] /\ call[c].op # "ask_access")]
      /\ Return(c) /\ UNCHANGED <<account, changes, meeting, publish>>
  BY DEF CommitRow
<1>2. /\ u \in Users /\ put \in Puts /\ call[c].new \in BOOLEAN
      /\ put.type \in Types \cup {"same"} /\ put.edit \in Edits \cup {"same"}
  BY <1>1, Target DEF IInv, Puts
<1>3. /\ row[u] \in Rows /\ row[u].type \in Types /\ row[u].edit \in Edits
      /\ row[u].type = "none" <=> row[u] = NoRow
  BY <1>2, RowTyped DEF IInv
<1>4. Fit(call[c].op, u, put, call[c].new)
  BY <1>1 DEF IInv, Prepared
<1>5. /\ Applied(put, row[u]) \in Rows
      /\ Applied(put, row[u]).type = IF put.type = "same" THEN row[u].type ELSE put.type
  BY <1>2, <1>3 DEF Applied, Rows
<1>6. Applied(put, row[u]).type # "none"
  BY <1>3, <1>4, <1>5 DEF Fit
<1>7. Applied(put, row[u]) # NoRow
  BY <1>6 DEF NoRow
<1>8. row' \in [Users -> Rows] /\ barred' \in [Users -> BOOLEAN]
  BY <1>1, <1>2, <1>5 DEF IInv, TypeOK
<1>9. /\ row'[u] = Applied(put, row[u])
      /\ \A v \in Users : v # u => row'[v] = row[v] /\ barred'[v] = barred[v]
      /\ barred'[u] = (call[c].op = "revoke_view" \/ (barred[u] /\ call[c].op # "ask_access"))
  BY <1>1, <1>2 DEF IInv, TypeOK
<1>10. TypeOK'
  <2>1. \A v \in Users : row'[v].type = "none" => row'[v] = NoRow
    BY <1>6, <1>9, <1>5 DEF IInv, TypeOK
  <2>2. QED BY <1>1, <1>8, <2>1, Returned DEF IInv, TypeOK
<1>11. RevocationSticks'
  <2>1. ASSUME barred'[u] PROVE row'[u].type = "revoked"
    <3>1. CASE call[c].op = "revoke_view"
      BY <3>1, <1>4, <1>5, <1>9 DEF Fit
    <3>2. CASE barred[u] /\ call[c].op # "ask_access"
      <4>1. row[u].type = "revoked"
        BY <3>2, <1>2 DEF IInv, RevocationSticks
      <4>2. ~call[c].new
        BY <4>1, <1>1, <1>3 DEF Collides, NoRow
      <4>3. QED BY <3>2, <4>1, <4>2, <1>4, <1>5, <1>9 DEF Fit
    <3>3. QED BY <2>1, <3>1, <3>2, <1>9
  <2>2. QED BY <2>1, <1>9 DEF IInv, RevocationSticks
<1>12. InvitedOnly'
  BY <1>2, <1>4, <1>5, <1>9 DEF IInv, InvitedOnly, Fit, Invited
<1>13. Prepared'
  <2> SUFFICES ASSUME NEW d \in Calls, call'[d].op \in RowOps
               PROVE  Fit(call[d].op, call[d].target, call[d].put, call[d].new)'
    BY DEF Prepared
  <2>1. d # c /\ call'[d] = call[d]
    BY <1>1, Returned DEF IInv
  <2>2. Fit(call[d].op, call[d].target, call[d].put, call[d].new)
    BY <2>1 DEF IInv, Prepared
  <2>3. call[d].target \in Users /\ call[d].put \in Puts
    BY <2>1, Target DEF IInv
  <2>4. row[call[d].target] # NoRow => row'[call[d].target] # NoRow
    BY <2>3, <1>7, <1>9
  <2>5. barred'[call[d].target] =>
           call[d].op = "ask_access" \/ call[d].put.type \in {"same", "revoked"} \/ call[d].new
    <3>1. CASE barred[call[d].target]
      BY <3>1, <2>2 DEF Fit
    <3>2. CASE call[c].op = "revoke_view"
      <4>1. call[d].op \notin LockedOps
        BY <2>1, <3>2 DEF IInv, TypeOK, LockedOps
      <4>2. QED BY <2>1, <2>2, <4>1 DEF Fit, LockedOps, RowOps
    <3>3. QED BY <2>3, <3>1, <3>2, <1>9
  <2>6. QED BY <2>1, <2>2, <2>4, <2>5 DEF Fit, Invited
<1>14. QED BY <1>10, <1>11, <1>12, <1>13 DEF IInv

\* Removing an account takes its rows along.
LEMMA CommitRemovalKeeps ==
  ASSUME IInv, NEW c \in Calls, CommitRemoval(c)
  PROVE  IInv'
<1> DEFINE u == call[c].target
           gone == [type |-> "revoked", edit |-> "denied"]
<1>1. /\ call[c].op = "remove" /\ Return(c) /\ UNCHANGED <<meeting, publish>>
      /\ changes < MaxChanges /\ changes' = changes + 1
      /\ account' = [account EXCEPT ![u] = "none"]
      /\ row' = [row EXCEPT ![u] = IF row[u] = NoRow THEN NoRow ELSE gone]
      /\ barred' = [barred EXCEPT ![u] = row[u] # NoRow /\ (barred[u] \/ Alone(c))]
  BY DEF CommitRemoval, SetAccount
<1>2. u \in Users
  BY <1>1, Target DEF IInv, AccountOps
<1>3. gone \in Rows /\ NoRow \in Rows /\ gone # NoRow /\ NoRow.type = "none"
  BY DEF Rows, Types, Edits, NoView, NoRow
<1>4. /\ row'[u] = IF row[u] = NoRow THEN NoRow ELSE gone
      /\ \A v \in Users : v # u => row'[v] = row[v] /\ barred'[v] = barred[v]
      /\ barred'[u] <=> row[u] # NoRow /\ (barred[u] \/ Alone(c))
      /\ row' \in [Users -> Rows] /\ barred' \in [Users -> BOOLEAN]
  BY <1>1, <1>2, <1>3 DEF IInv, TypeOK
<1>5. TypeOK'
  <2>1. \A v \in Users : row'[v].type = "none" => row'[v] = NoRow
    BY <1>3, <1>4 DEF IInv, TypeOK
  <2>2. changes' \in 0..MaxChanges
    BY <1>1, BoundIsNatural DEF IInv, TypeOK
  <2>3. account' \in [Users -> {"none", "member", "admin"}]
    BY <1>1 DEF IInv, TypeOK
  <2>4. QED BY <1>1, <1>4, <2>1, <2>2, <2>3, Returned DEF IInv, TypeOK
<1>6. RevocationSticks' /\ InvitedOnly'
  BY <1>3, <1>4 DEF IInv, RevocationSticks, InvitedOnly, Invited
<1>7. Prepared'
  <2> SUFFICES ASSUME NEW d \in Calls, call'[d].op \in RowOps
               PROVE  Fit(call[d].op, call[d].target, call[d].put, call[d].new)'
    BY DEF Prepared
  <2>1. d # c /\ call'[d] = call[d]
    BY <1>1, Returned DEF IInv
  <2>2. Fit(call[d].op, call[d].target, call[d].put, call[d].new)
    BY <2>1 DEF IInv, Prepared
  <2>3. call[d].target \in Users
    BY <2>1, Target DEF IInv
  <2>4. row[call[d].target] # NoRow => row'[call[d].target] # NoRow
    BY <2>3, <1>3, <1>4
  <2>5. barred'[call[d].target] => barred[call[d].target]
    BY <2>1, <2>3, <1>2, <1>4 DEF Alone
  <2>6. QED BY <2>1, <2>2, <2>4, <2>5 DEF Fit, Invited
<1>8. QED BY <1>5, <1>6, <1>7 DEF IInv

\* A call that returns without touching a row.
LEMMA ReturnKeeps ==
  ASSUME IInv, NEW c \in Calls, CommitDemotion(c) \/ Abandon(c)
  PROVE  IInv'
<1>1. Return(c) /\ UNCHANGED <<row, meeting, publish, barred>>
  BY DEF CommitDemotion, Abandon
<1>2. account' \in [Users -> {"none", "member", "admin"}] /\ changes' \in 0..MaxChanges
  BY BoundIsNatural DEF IInv, TypeOK, CommitDemotion, Abandon, SetAccount
<1>3. TypeOK' /\ RevocationSticks' /\ InvitedOnly'
  BY <1>1, <1>2, Returned DEF IInv, TypeOK, RevocationSticks, InvitedOnly
<1>4. Prepared'
  BY <1>1, Returned DEF IInv, Prepared, Fit
<1>5. QED BY <1>3, <1>4 DEF IInv

-----------------------------------------------------------------------------
(* The rest of the system.                                                 *)

\* Registering and promoting touch accounts only.
LEMMA AccountKeeps ==
  ASSUME IInv, NEW u \in Users,
         SignIn(u) \/ Promote(u) \/ \E role \in {"member", "admin"} : Register(u, role)
  PROVE  IInv'
<1>1. UNCHANGED <<row, meeting, publish, call, barred>>
  BY DEF SignIn, Register, Promote
<1>2. account' \in [Users -> {"none", "member", "admin"}] /\ changes' \in 0..MaxChanges
  BY BoundIsNatural DEF IInv, TypeOK, SignIn, Register, Promote, SetAccount
<1>3. QED BY <1>1, <1>2
       DEF IInv, TypeOK, RevocationSticks, InvitedOnly, Prepared, Fit

\* The worker adds rows of invited people where there are none.
LEMMA WorkerKeeps ==
  ASSUME IInv, AddOwner \/ ReadInvited \/ Publish \/ PublishFails
  PROVE  IInv'
<1>1. Participant \in Rows /\ Participant # NoRow /\ Participant.type = "participant"
  BY DEF Participant, Rows, Types, Edits, NoRow
<1>2. PICK add \in SUBSET Invited :
        /\ \A v \in add : row[v] = NoRow
        /\ row' = [v \in Users |-> IF v \in add THEN Participant ELSE row[v]]
  <2>1. CASE AddOwner
    <3>1. row' = [v \in Users |-> IF v \in {Owner} THEN Participant ELSE row[v]]
      BY <2>1 DEF AddOwner, IInv, TypeOK
    <3>2. row[Owner] = NoRow /\ {Owner} \in SUBSET Invited
      BY <2>1 DEF AddOwner, Invited
    <3>3. QED BY <3>1, <3>2
  <2>2. CASE ReadInvited \/ PublishFails
    <3>1. row' = [v \in Users |-> IF v \in {} THEN Participant ELSE row[v]]
      BY <2>2 DEF ReadInvited, PublishFails, IInv, TypeOK
    <3>2. {} \in SUBSET Invited /\ \A v \in {} : row[v] = NoRow
      OBVIOUS
    <3>3. QED BY <3>1, <3>2, Zenon
  <2>3. CASE Publish
    BY <2>3 DEF Publish, IInv, TypeOK
  <2>4. QED BY <2>1, <2>2, <2>3
<1>3. UNCHANGED <<account, changes, call, barred>>
  BY DEF AddOwner, ReadInvited, Publish, PublishFails
<1>4. \A v \in Users : row'[v] = IF v \in add THEN Participant ELSE row[v]
  BY <1>2
<1>5. TypeOK'
  <2>1. row' \in [Users -> Rows]
    BY <1>1, <1>2 DEF IInv, TypeOK
  <2>2. \A v \in Users : row'[v].type = "none" => row'[v] = NoRow
    BY <1>1, <1>4 DEF IInv, TypeOK
  <2>3. publish' \in [on : BOOLEAN, add : SUBSET Invited]
    <3>1. {v \in Invited : account[v] # "none" /\ row[v] = NoRow} \in SUBSET Invited
      OBVIOUS
    <3>2. NoPublish \in [on : BOOLEAN, add : SUBSET Invited]
      BY DEF NoPublish
    <3>3. CASE ReadInvited
      BY <3>1, <3>3 DEF ReadInvited
    <3>4. CASE AddOwner
      BY <3>4 DEF AddOwner, IInv, TypeOK
    <3>5. CASE Publish \/ PublishFails
      BY <3>2, <3>5 DEF Publish, PublishFails
    <3>6. QED BY <3>3, <3>4, <3>5
  <2>4. meeting' \in {"processing", "awaiting_review"}
    BY DEF IInv, TypeOK, AddOwner, ReadInvited, Publish, PublishFails
  <2>5. QED BY <1>3, <2>1, <2>2, <2>3, <2>4 DEF IInv, TypeOK
<1>6. RevocationSticks'
  <2>1. \A v \in Users : barred[v] => row[v] # NoRow
    BY DEF IInv, RevocationSticks, NoRow
  <2>2. QED BY <1>2, <1>3, <1>4, <2>1 DEF IInv, RevocationSticks
<1>7. InvitedOnly'
  BY <1>4 DEF IInv, InvitedOnly, Invited
<1>8. Prepared'
  <2> SUFFICES ASSUME NEW d \in Calls, call[d].op \in RowOps
               PROVE  Fit(call[d].op, call[d].target, call[d].put, call[d].new)'
    BY <1>3 DEF Prepared
  <2>1. call[d].target \in Users /\ Fit(call[d].op, call[d].target, call[d].put, call[d].new)
    BY Target DEF IInv, Prepared
  <2>2. row[call[d].target] # NoRow => row'[call[d].target] # NoRow
    BY <1>1, <1>4, <2>1
  <2>3. QED BY <1>3, <2>1, <2>2 DEF Fit, Invited
<1>9. QED BY <1>5, <1>6, <1>7, <1>8 DEF IInv

\* Every step keeps the invariant.
LEMMA InvNext == IInv /\ [Next]_vars => IInv'
<1> SUFFICES ASSUME IInv, [Next]_vars PROVE IInv'
  OBVIOUS
<1>1. CASE UNCHANGED vars
  BY <1>1 DEF vars, IInv, TypeOK, RevocationSticks, InvitedOnly, Prepared, Fit, Invited, LockedOps
<1>2. ASSUME NEW c \in Calls, NEW u \in Users,
             \/ AskEdit(c, u) \/ Share(c, u) \/ RevokeView(c, u) \/ RevokeEdit(c, u)
             \/ \E type \in {"request_view", "request_edit"} : AskAccess(c, u, type)
             \/ \E approved \in BOOLEAN : Decide(c, u, approved)
      PROVE  IInv'
  BY <1>2, ReadKeeps
<1>3. ASSUME NEW c \in Calls, NEW u \in Users, Remove(c, u) \/ Demote(c, u)
      PROVE  IInv'
  BY <1>3, CountKeeps
<1>4. ASSUME NEW c \in Calls, CommitRow(c)
      PROVE  IInv'
  BY <1>4, CommitRowKeeps
<1>5. ASSUME NEW c \in Calls, CommitRemoval(c)
      PROVE  IInv'
  BY <1>5, CommitRemovalKeeps
<1>6. ASSUME NEW c \in Calls, CommitDemotion(c) \/ Abandon(c)
      PROVE  IInv'
  BY <1>6, ReturnKeeps
<1>7. ASSUME NEW u \in Users,
             SignIn(u) \/ Promote(u) \/ \E role \in {"member", "admin"} : Register(u, role)
      PROVE  IInv'
  BY <1>7, AccountKeeps
<1>8. CASE AddOwner \/ ReadInvited \/ Publish \/ PublishFails
  BY <1>8, WorkerKeeps
<1>9. QED BY <1>1, <1>2, <1>3, <1>4, <1>5, <1>6, <1>7, <1>8 DEF Next

-----------------------------------------------------------------------------
(* The theorems.                                                           *)

\* The invariant holds in every behaviour.
LEMMA InvHolds == Spec => []IInv
<1>1. QED BY InvInit, InvNext, PTL DEF Spec

\* Accounts, rows and calls keep their types; locked calls are one at a time.
THEOREM AccessTypes == Spec => []TypeOK
<1>1. IInv => TypeOK
  BY DEF IInv
<1>2. QED BY <1>1, InvHolds, PTL

\* What was revoked stays revoked until it is asked for.
THEOREM RevocationHolds == Spec => []RevocationSticks
<1>1. IInv => RevocationSticks
  BY DEF IInv
<1>2. QED BY <1>1, InvHolds, PTL

\* Editors and attendees were invited.
THEOREM EditorsInvited == Spec => []OnlyInvitedEdit
<1>1. IInv => OnlyInvitedEdit
  BY DEF IInv, InvitedOnly, OnlyInvitedEdit, Editor, Attends, Invited
<1>2. QED BY <1>1, InvHolds, PTL

\* A lost view was revoked, or given up by a request of one's own.
THEOREM ViewLost == Spec => LossIsDeliberate
<1> DEFINE Loss == \A u \in Users : HasView(row[u]) /\ ~HasView(row'[u]) =>
       \E c \in Calls :
         /\ call[c].target = u /\ call'[c] = Idle
         /\ \/ call[c].op \in {"revoke_view", "remove"}
            \/ call[c].op = "ask_access" /\ call[c].put.type # "same"
<1>1. IInv /\ [Next]_vars => [Loss]_vars
  <2> SUFFICES ASSUME IInv, Next, NEW u \in Users, HasView(row[u]), ~HasView(row'[u])
               PROVE  \E c \in Calls :
                        /\ call[c].target = u /\ call'[c] = Idle
                        /\ \/ call[c].op \in {"revoke_view", "remove"}
                           \/ call[c].op = "ask_access" /\ call[c].put.type # "same"
    OBVIOUS
  <2>1. row[u] \in Rows /\ row[u] # NoRow
    BY RowTyped DEF IInv, HasView, NoRow
  <2>2. ASSUME NEW c \in Calls, CommitRow(c)
        PROVE  /\ call[c].target = u /\ call'[c] = Idle
               /\ \/ call[c].op = "revoke_view"
                  \/ call[c].op = "ask_access" /\ call[c].put.type # "same"
    <3>1. /\ call[c].op \in RowOps /\ ~Collides(c) /\ Return(c)
          /\ row' = [row EXCEPT ![call[c].target] = Applied(call[c].put, row[call[c].target])]
      BY <2>2 DEF CommitRow
    <3>2. call[c].target = u
      BY <3>1 DEF IInv, TypeOK
    <3>3. call'[c] = Idle
      BY <3>1 DEF Return, IInv, TypeOK
    <3>4. ~call[c].new
      BY <2>1, <3>1, <3>2 DEF Collides
    <3>5. ~HasView(Applied(call[c].put, row[u]))
      BY <3>1, <3>2 DEF IInv, TypeOK
    <3>6. call[c].put.type # "same" /\ call[c].put.type \in NoView \cup {"none"}
      BY <3>5 DEF Applied, HasView
    <3>7. Fit(call[c].op, call[c].target, call[c].put, call[c].new)
      BY <3>1 DEF IInv, Prepared
    <3>8. QED BY <3>1, <3>2, <3>3, <3>4, <3>6, <3>7 DEF Fit, RowOps, NoView
  <2>3. ASSUME NEW c \in Calls, CommitRemoval(c)
        PROVE  call[c].target = u /\ call'[c] = Idle /\ call[c].op = "remove"
    BY <2>3 DEF CommitRemoval, Return, IInv, TypeOK
  <2>4. CASE AddOwner \/ ReadInvited \/ Publish \/ PublishFails
    <3>1. HasView(Participant)
      BY DEF HasView, Participant, NoView
    <3>2. QED BY <2>4, <3>1 DEF AddOwner, ReadInvited, Publish, PublishFails, IInv, TypeOK
  <2>5. CASE row' = row
    BY <2>5
  <2>6. QED BY <2>2, <2>3, <2>4, <2>5
          DEF Next, AskEdit, Share, RevokeView, RevokeEdit, AskAccess, Decide, Remove, Demote,
              Begin, Count, Start, CommitDemotion, Abandon, SignIn, Register, Promote
<1>2. QED BY <1>1, InvHolds, PTL DEF Spec, LossIsDeliberate

-----------------------------------------------------------------------------
(* The last administrator.                                                 *)

\* A call that takes an administrator away has counted another one.
Counted ==
  \A c \in Calls : call[c].op \in AccountOps =>
    call[c].others # {} /\ call[c].target \notin call[c].others

\* Somebody else is an administrator if there are more than one.
LEMMA AnotherAdmin ==
  ASSUME NEW u \in Users, Cardinality(Admins) > 1
  PROVE  Admins \ {u} # {}
<1> SUFFICES ASSUME Admins \ {u} = {} PROVE FALSE
  OBVIOUS
<1>1. Admins = {} \/ Admins = {u}
  OBVIOUS
<1>2. Cardinality({}) = 0 /\ Cardinality({u}) = 1
  BY FS_EmptySet, FS_Singleton
<1>3. QED BY <1>1, <1>2

\* A call starts as what it is.
LEMMA Started ==
  ASSUME TypeOK, NEW c \in Calls, NEW op, NEW u, NEW put, NEW new, NEW others,
         Start(c, op, u, put, new, others), Counted,
         op \in AccountOps => others # {} /\ u \notin others
  PROVE  Counted'
<1>1. /\ call' = [call EXCEPT ![c] =
          [op |-> op, target |-> u, put |-> put, new |-> new, others |-> others]]
      /\ call \in [Calls -> Busy \cup {Idle}]
  BY DEF Start, TypeOK
<1>2. QED BY <1>1 DEF Counted

\* Every step keeps this; the calls that commit or give up are idle afterwards.
LEMMA CountedNext == TypeOK /\ Counted /\ [Next]_vars => Counted'
<1> SUFFICES ASSUME TypeOK, Counted, [Next]_vars PROVE Counted'
  OBVIOUS
<1>1. CASE UNCHANGED call
  BY <1>1 DEF Counted
<1>2. ASSUME NEW c \in Calls, Return(c)
      PROVE  Counted'
  BY <1>2, Returned DEF Counted
<1>3. ASSUME NEW c \in Calls, NEW u \in Users, NEW op \in RowOps, NEW next, Begin(c, op, u, next)
      PROVE  Counted'
  <2>1. op \notin AccountOps
    BY IdleIsNotBusy
  <2>2. QED BY <1>3, <2>1, Started DEF Begin
<1>4. ASSUME NEW c \in Calls, NEW u \in Users, Remove(c, u) \/ Demote(c, u)
      PROVE  Counted'
  <2>1. Admins \ {u} # {}
    BY <1>4, AnotherAdmin DEF Remove, Demote, NotTheLast
  <2>2. PICK op \in AccountOps : Start(c, op, u, Same, FALSE, Admins \ {u})
    BY <1>4 DEF Remove, Demote, Count, AccountOps
  <2>3. QED BY <2>1, <2>2, Started
<1>5. ASSUME NEW c \in Calls, NEW u \in Users,
             \/ AskEdit(c, u) \/ Share(c, u) \/ RevokeView(c, u) \/ RevokeEdit(c, u)
             \/ \E type \in {"request_view", "request_edit"} : AskAccess(c, u, type)
             \/ \E approved \in BOOLEAN : Decide(c, u, approved)
      PROVE  Counted'
  <2>1. \E op \in RowOps : \E next : Begin(c, op, u, next)
    BY <1>5 DEF AskEdit, Share, RevokeView, RevokeEdit, AskAccess, Decide, RowOps
  <2>2. QED BY <2>1, <1>3
<1>6. CASE \E c \in Calls : CommitRow(c) \/ CommitRemoval(c) \/ CommitDemotion(c) \/ Abandon(c)
  BY <1>6, <1>2 DEF CommitRow, CommitRemoval, CommitDemotion, Abandon
<1>7. CASE \/ \E u \in Users : SignIn(u) \/ Promote(u)
                              \/ \E role \in {"member", "admin"} : Register(u, role)
           \/ AddOwner \/ ReadInvited \/ Publish \/ PublishFails
           \/ UNCHANGED vars
  BY <1>1, <1>7 DEF SignIn, Register, Promote, AddOwner, ReadInvited, Publish, PublishFails, vars
<1>8. QED BY <1>4, <1>5, <1>6, <1>7 DEF Next

\* Only the commit of a removal or a demotion takes administrators away, and only its own.
LEMMA AdminLost ==
  ASSUME IInv, [Next]_vars, Admins # {}, Admins' = {}
  PROVE  \E c \in Calls : /\ call'[c] = Idle /\ call[c].op \in {"remove", "demote"}
                          /\ Admins \subseteq {call[c].target}
<1>1. PICK a \in Users : account[a] = "admin" /\ account'[a] # "admin"
  BY DEF Admins
<1>2. ASSUME NEW c \in Calls, CommitRemoval(c) \/ CommitDemotion(c)
      PROVE  /\ call'[c] = Idle /\ call[c].op \in {"remove", "demote"}
             /\ Admins \subseteq {call[c].target}
  <2>1. /\ call[c].op \in {"remove", "demote"} /\ Return(c)
        /\ \E role \in {"none", "member"} : account' = [account EXCEPT ![call[c].target] = role]
    BY <1>2 DEF CommitRemoval, CommitDemotion, SetAccount
  <2>2. call'[c] = Idle
    BY <2>1 DEF Return, IInv, TypeOK
  <2>3. \A v \in Users : v # call[c].target => account'[v] = account[v]
    BY <2>1 DEF IInv, TypeOK
  <2>4. QED BY <2>1, <2>2, <2>3 DEF Admins
<1>3. ASSUME NEW u \in Users,
             SignIn(u) \/ Promote(u) \/ \E role \in {"member", "admin"} : Register(u, role)
      PROVE  FALSE
  <2>1. PICK role : account' = [account EXCEPT ![u] = role] /\ account[u] # "admin"
    BY <1>3 DEF SignIn, Register, Promote, SetAccount
  <2>2. account'[a] = account[a]
    BY <1>1, <2>1 DEF IInv, TypeOK
  <2>3. QED BY <1>1, <2>2
<1>4. CASE account' = account
  BY <1>1, <1>4
<1>5. QED BY <1>2, <1>3, <1>4
  DEF Next, vars, AskEdit, Share, RevokeView, RevokeEdit, AskAccess, Decide, Remove, Demote,
      Begin, Count, Start, CommitRow, Abandon, AddOwner, ReadInvited, Publish, PublishFails

\* The platform is left without an administrator only if two calls overlap.
THEOREM AdminsRace == Spec => LastAdminNeedsRace
<1> DEFINE Race == Admins # {} /\ Admins' = {} =>
       \E c \in Calls : call'[c] = Idle /\ call[c].op \in {"remove", "demote"}
                        /\ call[c].others \ Admins # {}
<1>1. Init => Counted
  BY IdleIsNotBusy DEF Init, Counted
<1>2. Spec => []Counted
  <2>1. IInv => TypeOK
    BY DEF IInv
  <2>2. QED BY <1>1, <2>1, CountedNext, InvHolds, PTL DEF Spec
<1>3. IInv /\ Counted /\ [Next]_vars => [Race]_vars
  <2> SUFFICES ASSUME IInv, Counted, [Next]_vars, Admins # {}, Admins' = {}
               PROVE  \E c \in Calls : call'[c] = Idle /\ call[c].op \in {"remove", "demote"}
                                       /\ call[c].others \ Admins # {}
    OBVIOUS
  <2>1. PICK c \in Calls : /\ call'[c] = Idle /\ call[c].op \in {"remove", "demote"}
                           /\ Admins \subseteq {call[c].target}
    BY AdminLost
  <2>2. call[c].others # {} /\ call[c].target \notin call[c].others
    BY <2>1 DEF Counted, AccountOps
  <2>3. QED BY <2>1, <2>2
<1>4. QED BY <1>2, <1>3, InvHolds, PTL DEF Spec, LastAdminNeedsRace

-----------------------------------------------------------------------------
(* The requests nobody can decide.                                         *)

\* A request the organizer is shown and cannot decide is a repeated one for the view, or one
\* that outlived a revocation, of somebody who is not on the calendar's list.
OnlyOutsidersAreStuck ==
  \A u \in Users \ {Organizer} : ShowsRequest(u) /\ ~Decidable(u) =>
    u \notin Attendees /\ row[u].type \in {"request_view", "revoked"}

\* What the rows of people outside that list never are, ...
Outside(r) == r.type # "request_edit" /\ (r.type = "shared" => r.edit # "pending")

\* ... and what no call means to write to them.
Meant(put, new, r) ==
  /\ put.type # "request_edit"
  /\ put.type = "shared" => new /\ put.edit = "same"
  /\ put.edit = "pending" /\ put.type = "same" => r.type \notin {"none", "shared"}

Outsiders ==
  \A u \in Users \ Attendees :
    /\ Outside(row[u])
    /\ \A c \in Calls : call[c].op \in RowOps /\ call[c].target = u
                          => Meant(call[c].put, call[c].new, row[u])

\* A call that begins for an outsider means no more than that.
LEMMA BeginsMeant ==
  ASSUME IInv, NEW c \in Calls, NEW u \in Users \ Attendees,
         \/ AskEdit(c, u) \/ Share(c, u) \/ RevokeView(c, u) \/ RevokeEdit(c, u)
         \/ \E type \in {"request_view", "request_edit"} : AskAccess(c, u, type)
         \/ \E approved \in BOOLEAN : Decide(c, u, approved)
  PROVE  \E op, next : Begin(c, op, u, next) /\ Meant(Change(row[u], next), row[u] = NoRow, row[u])
<1>1. /\ row[u] \in Rows /\ row[u].type \in Types /\ row[u].edit \in Edits
      /\ row[u].type = "none" <=> row[u] = NoRow
  BY RowTyped DEF IInv
<1>2. CASE AskEdit(c, u)
  <2>1. row[u].type \in {"participant", "historical"}
    BY <1>2 DEF AskEdit, MayAskEdit, Attends
  <2>2. Change(row[u], [row[u] EXCEPT !.edit = "pending"]).type = "same"
    BY <1>1 DEF Change, Rows
  <2>3. QED BY <1>2, <2>1, <2>2 DEF AskEdit, Meant
<1>3. CASE Share(c, u)
  <2>1. row[u] = NoRow
    BY <1>3 DEF Share
  <2>2. Change(row[u], [type |-> "shared", edit |-> "none"]) = [type |-> "shared", edit |-> "same"]
    BY <2>1 DEF Change, NoRow
  <2>3. QED BY <1>3, <2>1, <2>2 DEF Share, Meant
<1>4. CASE RevokeView(c, u)
  <2>1. /\ Change(row[u], [type |-> "revoked", edit |-> "denied"]).type \in {"same", "revoked"}
        /\ Change(row[u], [type |-> "revoked", edit |-> "denied"]).edit \in {"same", "denied"}
    BY DEF Change
  <2>2. QED BY <1>4, <2>1 DEF RevokeView, Meant
<1>5. CASE RevokeEdit(c, u)
  <2>1. /\ Change(row[u], [row[u] EXCEPT !.edit = "denied"]).type = "same"
        /\ Change(row[u], [row[u] EXCEPT !.edit = "denied"]).edit \in {"same", "denied"}
    BY <1>1 DEF Change, Rows
  <2>2. QED BY <1>5, <2>1 DEF RevokeEdit, Meant
<1>6. CASE AskAccess(c, u, "request_view")
  <2> DEFINE next == [type |-> "request_view", edit |-> "pending"]
  <2>1. /\ Change(row[u], next).type \in {"same", "request_view"}
        /\ Change(row[u], next).type = "same" => row[u].type = "request_view"
    BY DEF Change
  <2>2. QED BY <1>6, <2>1 DEF AskAccess, Meant
<1>7. ~AskAccess(c, u, "request_edit")
  BY DEF AskAccess, MayAskAccess
<1>8. ASSUME NEW approved \in BOOLEAN, Decide(c, u, approved)
      PROVE  \E op, next :
               Begin(c, op, u, next) /\ Meant(Change(row[u], next), row[u] = NoRow, row[u])
  <2> DEFINE next == Decision(row[u], approved)
  <2>1. next.type \in {row[u].type, "historical"} /\ next.edit \in {"none", "approved", "denied"}
    BY <1>1 DEF Decision, Rows
  <2>2. /\ Change(row[u], next).type \in {"same", "historical"}
        /\ Change(row[u], next).edit # "pending"
    BY <2>1 DEF Change
  <2>3. QED BY <1>8, <2>2 DEF Decide, Meant
<1>9. QED BY <1>2, <1>3, <1>4, <1>5, <1>6, <1>7, <1>8

\* The row of an outsider stays one.
RowStays(u) ==
  /\ Outside(row'[u])
  /\ row[u].type \notin {"none", "shared"} => row'[u].type \notin {"none", "shared"}

\* The calls that commit to it mean no more than Meant.
LEMMA CommitsStay ==
  ASSUME IInv, Outsiders, NEW u \in Users \ Attendees, NEW c \in Calls,
         CommitRow(c) \/ CommitRemoval(c)
  PROVE  RowStays(u)
<1>1. /\ row \in [Users -> Rows] /\ Outside(row[u])
      /\ row[u].type = "none" <=> row[u] = NoRow
  BY RowTyped DEF IInv, TypeOK, Outsiders
<1>2. CASE call[c].target # u
  <2>1. row'[u] = row[u]
    BY <1>1, <1>2 DEF CommitRow, CommitRemoval
  <2>2. QED BY <1>1, <2>1 DEF RowStays
<1>3. CASE CommitRow(c) /\ call[c].target = u
  <2> DEFINE put == call[c].put
  <2>1. put.type # "none" /\ Meant(put, call[c].new, row[u]) /\ ~Collides(c)
    BY <1>3 DEF CommitRow, Outsiders, IInv, TypeOK
  <2>2. row'[u] = Applied(put, row[u])
    BY <1>1, <1>3 DEF CommitRow
  <2>3. /\ row'[u].type = IF put.type = "same" THEN row[u].type ELSE put.type
        /\ row'[u].edit = IF put.edit = "same" THEN row[u].edit ELSE put.edit
    BY <2>2 DEF Applied
  <2>4. put.type = "shared" => row[u].type = "none" /\ row'[u].edit = "none"
    BY <1>3, <2>1, <2>3 DEF Meant, Collides, NoRow
  <2>5. CASE put.type = "same"
    BY <1>1, <2>1, <2>3, <2>5 DEF Meant, Outside, RowStays
  <2>6. CASE put.type # "same"
    BY <1>1, <2>1, <2>3, <2>4, <2>6 DEF Meant, Outside, RowStays
  <2>7. QED BY <2>5, <2>6
<1>4. CASE CommitRemoval(c) /\ call[c].target = u
  <2>1. row'[u] = IF row[u] = NoRow THEN NoRow ELSE [type |-> "revoked", edit |-> "denied"]
    BY <1>1, <1>4 DEF CommitRemoval
  <2>2. QED BY <1>1, <2>1 DEF RowStays, Outside, NoRow
<1>5. QED BY <1>2, <1>3, <1>4

\* So does the worker, which only adds rows.
LEMMA WorkerStays ==
  ASSUME IInv, Outsiders, NEW u \in Users \ Attendees, AddOwner \/ Publish
  PROVE  RowStays(u)
<1>1. row'[u] = row[u] \/ (row[u] = NoRow /\ row'[u] = Participant)
  BY DEF AddOwner, Publish, IInv, TypeOK
<1>2. Outside(row[u])
  BY DEF Outsiders
<1>3. QED BY <1>1, <1>2 DEF RowStays, Outside, Participant, NoRow

\* Every step keeps all of it.
LEMMA OutsidersNext == IInv /\ Outsiders /\ [Next]_vars => Outsiders'
<1> SUFFICES ASSUME IInv, Outsiders, [Next]_vars, NEW u \in Users \ Attendees
             PROVE  /\ Outside(row'[u])
                    /\ \A c \in Calls : call'[c].op \in RowOps /\ call'[c].target = u
                                          => Meant(call'[c].put, call'[c].new, row'[u])
  BY DEF Outsiders
<1>1. ASSUME RowStays(u),
             \A c \in Calls : call'[c].op \in RowOps => call'[c] = call[c]
      PROVE  /\ Outside(row'[u])
             /\ \A c \in Calls : call'[c].op \in RowOps /\ call'[c].target = u
                                   => Meant(call'[c].put, call'[c].new, row'[u])
  BY <1>1 DEF RowStays, Outsiders, Meant
<1>2. row' = row => RowStays(u)
  BY DEF Outsiders, RowStays
<1>3. ASSUME NEW c \in Calls, Return(c)
      PROVE  \A d \in Calls : call'[d].op \in RowOps => call'[d] = call[d]
  BY <1>3, Returned DEF IInv
<1>4. CASE \E c \in Calls : CommitRow(c) \/ CommitRemoval(c) \/ CommitDemotion(c) \/ Abandon(c)
  <2>1. RowStays(u)
    BY <1>2, <1>4, CommitsStay DEF CommitDemotion, Abandon
  <2>2. \E c \in Calls : Return(c)
    BY <1>4 DEF CommitRow, CommitRemoval, CommitDemotion, Abandon
  <2>3. QED BY <1>1, <1>3, <2>1, <2>2
<1>5. CASE \/ \E v \in Users : SignIn(v) \/ Promote(v)
                              \/ \E role \in {"member", "admin"} : Register(v, role)
           \/ AddOwner \/ ReadInvited \/ Publish \/ PublishFails
           \/ UNCHANGED vars
  <2>1. call' = call
    BY <1>5 DEF SignIn, Promote, Register, AddOwner, ReadInvited, Publish, PublishFails, vars
  <2>2. row' = row \/ AddOwner \/ Publish
    BY <1>5 DEF SignIn, Promote, Register, ReadInvited, PublishFails, vars
  <2>3. QED BY <1>1, <1>2, <2>1, <2>2, WorkerStays
<1>6. ASSUME NEW c \in Calls, NEW v \in Users, NEW op, NEW put, NEW new, NEW others,
             Start(c, op, v, put, new, others),
             op \in RowOps /\ v = u => Meant(put, new, row[u])
      PROVE  /\ Outside(row'[u])
             /\ \A d \in Calls : call'[d].op \in RowOps /\ call'[d].target = u
                                   => Meant(call'[d].put, call'[d].new, row'[u])
  <2>1. /\ row' = row
        /\ call' = [call EXCEPT ![c] =
             [op |-> op, target |-> v, put |-> put, new |-> new, others |-> others]]
    BY <1>6 DEF Start
  <2>2. /\ call'[c] = [op |-> op, target |-> v, put |-> put, new |-> new, others |-> others]
        /\ \A d \in Calls \ {c} : call'[d] = call[d]
    BY <2>1 DEF IInv, TypeOK
  <2>3. Meant(call'[c].put, call'[c].new, row[u]) \/ ~(call'[c].op \in RowOps /\ call'[c].target = u)
    BY <1>6, <2>2
  <2>4. \A d \in Calls \ {c} : call'[d].op \in RowOps /\ call'[d].target = u
                                 => Meant(call'[d].put, call'[d].new, row[u])
    BY <2>2 DEF Outsiders
  <2>5. QED BY <2>1, <2>3, <2>4 DEF Outsiders
<1>7. ASSUME NEW c \in Calls, NEW v \in Users,
             \/ AskEdit(c, v) \/ Share(c, v) \/ RevokeView(c, v) \/ RevokeEdit(c, v)
             \/ \E type \in {"request_view", "request_edit"} : AskAccess(c, v, type)
             \/ \E approved \in BOOLEAN : Decide(c, v, approved)
      PROVE  \E op, put, new, others : /\ Start(c, op, v, put, new, others)
                                       /\ op \in RowOps /\ v = u => Meant(put, new, row[u])
  <2>1. CASE v = u
    BY <1>7, <2>1, BeginsMeant DEF Begin
  <2>2. CASE v # u
    BY <1>7, <2>2 DEF AskEdit, Share, RevokeView, RevokeEdit, AskAccess, Decide, Begin
  <2>3. QED BY <2>1, <2>2
<1>8. ASSUME NEW c \in Calls, NEW v \in Users, Remove(c, v) \/ Demote(c, v)
      PROVE  \E op, put, new, others : /\ Start(c, op, v, put, new, others)
                                       /\ op \in RowOps /\ v = u => Meant(put, new, row[u])
  <2>1. "remove" \notin RowOps /\ "demote" \notin RowOps
    BY DEF RowOps
  <2>2. QED BY <1>8, <2>1 DEF Remove, Demote, Count
<1>9. QED BY <1>4, <1>5, <1>6, <1>7, <1>8 DEF Next

\* The whole of the fault behind ShownIsDecidable: everybody on the calendar's list gets an
\* answer, and of the others only who asks for the view again, or whose question outlived a
\* revocation, waits for ever (reviews.py:111, _is_attendee_participant, against 168, _to_out).
THEOREM StuckAreOutsiders == Spec => []OnlyOutsidersAreStuck
<1>1. Init => Outsiders
  <2> SUFFICES ASSUME Init PROVE Outsiders
    OBVIOUS
  <2>1. QED BY IdleIsNotBusy DEF Init, Outsiders, Outside, NoRow
<1>2. Spec => []Outsiders
  BY <1>1, OutsidersNext, InvHolds, PTL DEF Spec
<1>3. IInv /\ Outsiders => OnlyOutsidersAreStuck
  <2> SUFFICES ASSUME IInv, Outsiders, NEW u \in Users \ {Organizer},
                      row[u] # NoRow, row[u].edit = "pending", ~Attends(u, row[u])
               PROVE  u \notin Attendees /\ row[u].type \in {"request_view", "revoked"}
    BY DEF OnlyOutsidersAreStuck, ShowsRequest, Decidable
  <2>1. u \notin Attendees /\ row[u].type \notin {"participant", "historical"}
    BY DEF Attends
  <2>2. row[u].type \in Types /\ (row[u].type = "none" <=> row[u] = NoRow)
    BY RowTyped DEF IInv
  <2>3. Outside(row[u])
    BY <2>1 DEF Outsiders
  <2>4. QED BY <2>1, <2>2, <2>3 DEF Outside, Types, NoView
<1>4. QED BY <1>2, <1>3, InvHolds, PTL
=============================================================================
