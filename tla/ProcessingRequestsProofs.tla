----------------------- MODULE ProcessingRequestsProofs -----------------------
(***************************************************************************)
(* What ProcessingRequests guarantees for any number of users, concurrent  *)
(* calls and requests.  The inductive invariant says what a call in flight *)
(* can still rely on when it commits: what its locks keep, what it read    *)
(* that cannot be undone, and otherwise that it has been overtaken.        *)
(***************************************************************************)
EXTENDS ProcessingRequests, TLAPS

\* A call that decides, from the moment it has locked its request.
Approving(c) == call[c].op = "approve" /\ call[c].at \in {"locked", "read"}

\* The request is there and, once locked, pending; nobody else decides it.
Deciding ==
  /\ \A c \in Calls : call[c].op = "approve" =>
       call[c].of \in Requests /\ requests[call[c].of].by \in Users
  /\ \A c \in Calls : Approving(c) => requests[call[c].of].status = "pending"
  /\ \A c, d \in Calls : Approving(c) /\ Approving(d) /\ call[c].of = call[d].of => c = d

\* A call on its way to a job acts for a subscribed owner or an administrator, or has been
\* overtaken; the owner's own Process, once it has asked again, keeps the owner subscribed.
Consenting ==
  \A c \in Calls :
    /\ call[c].at = "idle" <=> call[c].op = "none"
    /\ call[c].at # "idle" => call[c].by \in Users
    /\ call[c].at \in {"locked", "read"} => call[c].op \in {"create", "process", "approve"}
    /\ call[c].at = "looked" => call[c].op \in {"import", "retry"}
    /\ call[c].op = "process" => call[c].by = Owner
    /\ call[c].op = "process" /\ call[c].at \in {"locked", "read"} => Owner \in subscribed
    /\ \/ call[c].op \in {"import", "notify"} \/ Approving(c)
       \/ call[c].op = "approve" /\ call[c].by = Owner /\ call[c].sub
       \/ call[c].op = "retry" /\ call[c].by \notin Admins
       => Owner \in subscribed \/ call[c].overtaken

\* What a call saw of the recording was claimed, and claims are not given up.
Remembered ==
  /\ job.before => ledger
  /\ \A c \in Calls :
       call[c].at = "looked" \/ (call[c].at = "read" /\ call[c].saw.state # "unclaimed") => ledger

\* Somebody asked for every request there is.
AskedBySomebody == \A q \in Requests : requests[q].status # "absent" => requests[q].by \in Users

IInv == /\ TypeOK /\ AskedBySomebody /\ Deciding /\ Consenting /\ Remembered
        /\ OptOutStops /\ QueuedHasWork /\ ApprovedIsShown

-----------------------------------------------------------------------------
(* Constants and initial states.                                           *)

\* The records the module names are what their fields say.
LEMMA NamedRecords ==
  /\ Idle \in Call /\ Idle.at = "idle" /\ Idle.op = "none"
  /\ Unasked \in Asked /\ Unasked.status = "absent"
  /\ NoJob \in Job /\ NoJob.status = "none" /\ ~NoJob.before
  /\ NoMeeting \in Meeting /\ NoMeeting.state = "none"
  /\ Blank \in Extracted
  BY DEF Idle, Started, Call, Snapshot, NoSnapshot, Ops, Unasked, Asked, NoJob, Job,
         NoMeeting, Meeting, States, Blank, Extracted

\* The initial states satisfy the invariant.
LEMMA InvInit == Init => IInv
<1> SUFFICES ASSUME Init PROVE IInv
  OBVIOUS
<1>1. TypeOK
  BY NamedRecords DEF Init, TypeOK
<1>2. AskedBySomebody /\ Deciding /\ Consenting /\ Remembered
  BY NamedRecords DEF Init, AskedBySomebody, Deciding, Approving, Consenting, Remembered
<1>3. OptOutStops /\ QueuedHasWork /\ ApprovedIsShown
  BY NamedRecords DEF Init, OptOutStops, Pending, QueuedHasWork, ApprovedIsShown
<1>4. QED BY <1>1, <1>2, <1>3 DEF IInv

-----------------------------------------------------------------------------
(* Type correctness.                                                       *)

\* A step of a call that does not touch the rows.
LEMMA CallTypes ==
  ASSUME TypeOK, NEW c \in Calls,
         \/ \E op \in Ops, u \in Users, q \in Requests \cup {Nobody} : Begin(c, op, u, q)
         \/ Abandon(c) \/ Lock(c) \/ ReadState(c) \/ Look(c)
  PROVE  TypeOK' /\ UNCHANGED rows
<1>1. call[c] \in Call /\ call \in [Calls -> Call]
  BY DEF TypeOK
<1>2. UNCHANGED rows
  BY DEF Begin, Abandon, Lock, ReadState, Look
<1>3. call' \in [Calls -> Call]
  <2>1. CASE \E op \in Ops, u \in Users, q \in Requests \cup {Nobody} : Begin(c, op, u, q)
    BY <1>1, <2>1 DEF Begin, Started, Call, Ops, Snapshot, NoSnapshot
  <2>2. CASE Abandon(c)
    BY <1>1, <2>2, NamedRecords DEF Abandon, Ended
  <2>3. CASE Lock(c)
    BY <1>1, <2>3 DEF Lock, Call
  <2>4. CASE ReadState(c)
    <3>1. Read \in Snapshot
      BY DEF TypeOK, Read, Snapshot, Meeting, Extracted
    <3>2. QED BY <1>1, <2>4, <3>1 DEF ReadState, Call
  <2>5. CASE Look(c)
    <3>1. \A x \in Call, st \in {"none", "open"} :
            [x EXCEPT !.at = "looked", !.saw.state = st] \in Call
      BY DEF Call, Snapshot
    <3>2. QED BY <1>1, <2>5, <3>1 DEF Look
  <2>6. QED BY <2>1, <2>2, <2>3, <2>4, <2>5
<1>4. QED BY <1>2, <1>3 DEF TypeOK, rows

\* What Queue leaves of the meeting.
LEMMA BoundType ==
  ASSUME TypeOK, NEW c \in Calls, NEW s \in Snapshot,
         call[c].op = "approve" => call[c].of \in Requests /\ requests[call[c].of].by \in Users
  PROVE  /\ Bound(c, s) \in Meeting
         /\ ~Kept(s) => /\ Bound(c, s).state = IF NeedsMeeting(s) THEN "queued" ELSE meeting.state
                        /\ Bound(c, s).json.bound /\ Bound(c, s).same
                        /\ Bound(c, s).seen = Users
         /\ Kept(s) => /\ Bound(c, s).state = meeting.state /\ Bound(c, s).json = meeting.json
                       /\ Bound(c, s).same = meeting.same
                       /\ meeting.seen \subseteq Bound(c, s).seen
<1>1. meeting \in Meeting
  BY DEF TypeOK
<1>2. CASE ~Kept(s)
  BY <1>1, <1>2 DEF Bound, Rewritten, NeedsMeeting, Meeting, States, Extracted, Snapshot
<1>3. CASE Kept(s)
  BY <1>1, <1>3 DEF Bound, Meeting
<1>4. QED BY <1>2, <1>3

\* Queue preserves the types, and a recording it queues or binds is claimed.
LEMMA QueueTypes ==
  ASSUME TypeOK, Deciding, Remembered, NEW c \in Calls, Queue(c)
  PROVE  TypeOK'
<1> DEFINE s == call[c].saw
<1>1. call[c] \in Call /\ s \in Snapshot /\ call[c].at = "read"
  BY DEF TypeOK, Call, Queue
<1>2. ledger' \in BOOLEAN /\ (ledger => ledger') /\ (NeedsJob(s) => ledger')
  BY DEF Queue, Claimed, TypeOK
<1>3. job' \in Job
  BY <1>1 DEF Queue, Queued, Job, TypeOK, Call, Active, Pending
<1>4. meeting' \in Meeting
  BY <1>1, BoundType DEF Queue, Deciding
<1>5. requests' \in [Requests -> Asked]
  <2>1. CASE call[c].op # "approve"
    BY <2>1 DEF Queue, TypeOK
  <2>2. CASE call[c].op = "approve"
    <3>1. requests \in [Requests -> Asked] /\ call[c].of \in Requests
      BY <2>2 DEF TypeOK, Deciding
    <3>2. requests' = [requests EXCEPT ![call[c].of].status = "approved",
                                       ![call[c].of].late = (s.state = "done")]
      BY <2>2 DEF Queue
    <3>3. QED BY <3>1, <3>2 DEF Asked
  <2>3. QED BY <2>1, <2>2
<1>6. call' \in [Calls -> Call]
  BY NamedRecords DEF Queue, Ended, TypeOK
<1>7. job'.status # "none" \/ meeting'.state # "none" => ledger'
  BY <1>1, <1>2 DEF Remembered, NeedsJob
<1>8. QED BY <1>2, <1>3, <1>4, <1>5, <1>6, <1>7 DEF TypeOK, Queue

\* The other steps.
LEMMA RowTypes ==
  ASSUME TypeOK, Remembered,
         \/ \E u \in Users : Subscribe(u) \/ Unsubscribe(u)
         \/ \E c \in Calls, q \in Requests : Create(c, q)
         \/ \E c \in Calls : Claim(c) \/ Requeue(c)
         \/ \E q \in Requests : Deny(q)
         \/ Discover \/ Cancel \/ WorkerStep
  PROVE  TypeOK'
<1> USE DEF TypeOK
<1>1. CASE \E u \in Users : Subscribe(u)
  BY <1>1 DEF Subscribe
<1>2. ASSUME NEW u \in Users, Unsubscribe(u) PROVE TypeOK'
  <2>1. Stopped(u) \in Job /\ (Stopped(u).status # "none" => job.status # "none")
    BY DEF Stopped, Job, Pending
  <2>2. \A x \in Call, b \in BOOLEAN : x.overtaken \in BOOLEAN /\ [x EXCEPT !.overtaken = b] \in Call
    BY DEF Call
  <2>3. \A d \in Calls : [call[d] EXCEPT !.overtaken = @ \/ (u = Owner /\ call[d].op \in Unfenced)]
                          \in Call
    BY <2>2
  <2>4. call' \in [Calls -> Call]
    BY <1>2, <2>3 DEF Unsubscribe
  <2>5. QED BY <1>2, <2>1, <2>4 DEF Unsubscribe
<1>3. CASE \E c \in Calls : Requeue(c)
  <2>1. PICK c \in Calls : Requeue(c)
    BY <1>3
  <2>2. ledger' = ledger /\ ledger
    BY <2>1 DEF Requeue, Remembered
  <2>3. job' \in Job /\ meeting' \in Meeting
    BY <2>1 DEF Requeue, Queued, Job, Call, Meeting, States
  <2>4. QED BY <2>1, <2>2, <2>3, NamedRecords DEF Requeue, Ended
<1>4. CASE \E c \in Calls, q \in Requests : Create(c, q)
  BY <1>4, NamedRecords DEF Create, Ended, Asked, Call
<1>5. CASE \E c \in Calls : Claim(c)
  <2>1. PICK c \in Calls : Claim(c)
    BY <1>5
  <2>2. job' \in Job /\ ledger'
    BY <2>1 DEF Claim, Queued, Job, Call
  <2>3. QED BY <2>1, <2>2, NamedRecords DEF Claim, Ended
<1>6. CASE \E q \in Requests : Deny(q)
  BY <1>6 DEF Deny, Asked
<1>7. CASE Discover
  BY <1>7 DEF Discover
<1>8. CASE Cancel
  BY <1>8 DEF Cancel, CancelledMeeting, Job, Meeting, States, Pending
<1>9. CASE WorkerStep
  <2>1. CASE Start
    <3>1. meeting.seen \cup {Owner} \in SUBSET Users
      BY OwnerIsUser DEF Meeting
    <3>2. meeting' \in Meeting /\ copy' \in Extracted /\ job' \in Job /\ ledger
      BY <2>1, <3>1 DEF Start, Job, Meeting, States
    <3>3. QED BY <2>1, <3>2 DEF Start
  <2>2. CASE Save
    BY <2>2 DEF Save, Meeting, States
  <2>3. ASSUME NEW m \in {"none", "same", "other"}, Publish(m) PROVE TypeOK'
    BY <2>3, NamedRecords DEF Publish, Job, Meeting, States, Extracted, Rebound, Enriched
  <2>4. CASE Fail
    BY <2>4, NamedRecords DEF Fail, CancelledMeeting, Job, Meeting, States
  <2>5. CASE Skip
    BY <2>5 DEF Skip, Job
  <2>6. QED BY <1>9, <2>1, <2>2, <2>3, <2>4, <2>5 DEF WorkerStep
<1>10. QED
  BY <1>1, <1>2, <1>3, <1>4, <1>5, <1>6, <1>7, <1>8, <1>9

-----------------------------------------------------------------------------
(* What the calls in flight rely on.                                       *)

\* A call that is over relies on nothing.
LEMMA EndedRelies ==
  ASSUME TypeOK, NEW c \in Calls, call' = Ended(c)
  PROVE  /\ call'[c] = Idle /\ ~Approving(c)'
         /\ \A d \in Calls : d # c => call'[d] = call[d]
  BY NamedRecords DEF Ended, TypeOK, Approving

\* What a decision relies on: the steps of calls.
LEMMA CallDeciding ==
  ASSUME TypeOK, AskedBySomebody, Deciding, Consenting, NEW c \in Calls, CallStep(c)
  PROVE  AskedBySomebody' /\ Deciding'
<1>1. call \in [Calls -> Call] /\ requests \in [Requests -> Asked]
  BY DEF TypeOK
<1>2. ASSUME NEW op \in Ops, NEW u \in Users, NEW q \in Requests \cup {Nobody},
             Begin(c, op, u, q)
      PROVE  AskedBySomebody' /\ Deciding'
  <2>1. requests' = requests
    BY <1>2 DEF Begin, rows
  <2>2. \A d \in Calls : Approving(d)' => Approving(d) /\ call'[d] = call[d]
    BY <1>1, <1>2 DEF Begin, Started, Approving
  <2>3. \A d \in Calls : call'[d].op = "approve" =>
          call'[d].of \in Requests /\ requests[call'[d].of].by \in Users
    BY <1>1, <1>2 DEF Begin, Started, Deciding, AskedBySomebody
  <2>4. QED BY <2>1, <2>2, <2>3 DEF Deciding, AskedBySomebody
<1>3. CASE Lock(c)
  <2>1. requests' = requests
    BY <1>3 DEF Lock, rows
  <2>2. \A d \in Calls : call'[d].op = call[d].op /\ call'[d].of = call[d].of
                         /\ (d # c => Approving(d)' = Approving(d))
    BY <1>1, <1>3 DEF Lock, Approving
  <2>3. Approving(c)' => /\ requests[call[c].of].status = "pending"
                         /\ \A d \in Calls : ~(Approving(d) /\ call[d].of = call[c].of)
    BY <1>1, <1>3, <2>2 DEF Lock, Checks, RequestFree, Approving
  <2>4. QED BY <2>1, <2>2, <2>3 DEF Deciding, AskedBySomebody
<1>4. CASE ReadState(c)
  <2>1. requests' = requests
    BY <1>4 DEF ReadState, rows
  <2>2. \A d \in Calls : /\ call'[d].op = call[d].op /\ call'[d].of = call[d].of
                         /\ Approving(d)' = Approving(d)
    BY <1>1, <1>4 DEF ReadState, Approving
  <2>3. QED BY <2>1, <2>2 DEF Deciding, AskedBySomebody
<1>5. CASE \E q \in Requests : Create(c, q)
  <2>1. PICK q \in Requests : Create(c, q)
    BY <1>5
  <2>2. /\ requests[q].status = "absent" /\ call' = Ended(c) /\ call[c].by \in Users \cup {Nobody}
        /\ requests' = [requests EXCEPT ![q] = [status |-> "pending", by |-> call[c].by,
                                                late |-> FALSE]]
    BY <1>1, <2>1 DEF Create, Call
  <2>3. call[c].by \in Users
    BY <2>1 DEF Create, Consenting
  <2>4. QED BY <1>1, <2>2, <2>3, EndedRelies, NamedRecords DEF Deciding, AskedBySomebody, Approving
<1>6. CASE Queue(c)
  <2>1. call' = Ended(c) /\ call[c].at = "read"
    BY <1>6 DEF Queue
  <2>2. \A q \in Requests :
          /\ requests'[q].by = requests[q].by
          /\ (requests'[q].status = "absent") <=> (requests[q].status = "absent")
          /\ requests'[q].status = requests[q].status \/ (Approving(c) /\ q = call[c].of)
    BY <1>1, <1>6 DEF Queue, Deciding, Approving
  <2>3. \A d \in Calls : Approving(d)' => d # c /\ Approving(d) /\ call'[d] = call[d]
    BY <2>1, EndedRelies DEF Approving
  <2>4. \A d \in Calls : call'[d].op = "approve" => d # c /\ call'[d] = call[d]
    BY <2>1, EndedRelies, NamedRecords
  <2>5. ASSUME NEW d \in Calls, Approving(d)' PROVE requests'[call'[d].of].status = "pending"
    <3>1. d # c /\ Approving(d) /\ call'[d] = call[d]
      BY <2>3, <2>5
    <3>2. call[d].of \in Requests /\ requests[call[d].of].status = "pending"
      BY <3>1 DEF Deciding, Approving
    <3>3. ~(Approving(c) /\ call[d].of = call[c].of)
      BY <3>1 DEF Deciding
    <3>4. QED BY <2>2, <3>1, <3>2, <3>3
  <2>6. \A d, e \in Calls :
          Approving(d)' /\ Approving(e)' /\ call'[d].of = call'[e].of => d = e
    BY <2>3 DEF Deciding
  <2>7. ASSUME NEW d \in Calls, call'[d].op = "approve"
        PROVE  call'[d].of \in Requests /\ requests'[call'[d].of].by \in Users
    <3>1. call'[d] = call[d] /\ call[d].op = "approve"
      BY <2>4, <2>7
    <3>2. call[d].of \in Requests /\ requests[call[d].of].by \in Users
      BY <3>1 DEF Deciding
    <3>3. QED BY <2>2, <3>1, <3>2
  <2>8. ASSUME NEW q \in Requests, requests'[q].status # "absent"
        PROVE  requests'[q].by \in Users
    <3>1. requests[q].status # "absent" /\ requests'[q].by = requests[q].by
      BY <2>2, <2>8
    <3>2. QED BY <3>1 DEF AskedBySomebody
  <2>9. QED BY <2>5, <2>6, <2>7, <2>8 DEF Deciding, AskedBySomebody
<1>7. CASE Claim(c) \/ Requeue(c) \/ Abandon(c)
  <2>1. call' = Ended(c) /\ requests' = requests
    BY <1>7 DEF Claim, Requeue, Abandon, rows
  <2>2. QED BY <2>1, EndedRelies, NamedRecords DEF Deciding, AskedBySomebody, Approving
<1>8. CASE Look(c)
  <2>1. requests' = requests
    BY <1>8 DEF Look, rows
  <2>2. \A d \in Calls : /\ call'[d].op = call[d].op /\ call'[d].of = call[d].of
                         /\ Approving(d)' => Approving(d)
    BY <1>1, <1>8 DEF Look, Approving, Call
  <2>3. QED BY <2>1, <2>2 DEF Deciding, AskedBySomebody
<1>9. QED BY <1>2, <1>3, <1>4, <1>5, <1>6, <1>7, <1>8 DEF CallStep

\* What a decision relies on: the other steps.
LEMMA RowDeciding ==
  ASSUME TypeOK, AskedBySomebody, Deciding,
         \/ \E u \in Users : Subscribe(u) \/ Unsubscribe(u)
         \/ \E q \in Requests : Deny(q)
         \/ Discover \/ Cancel \/ WorkerStep
  PROVE  AskedBySomebody' /\ Deciding'
<1>1. call \in [Calls -> Call] /\ requests \in [Requests -> Asked]
  BY DEF TypeOK
<1>2. ASSUME requests' = requests,
             \A d \in Calls : /\ call'[d].op = call[d].op /\ call'[d].of = call[d].of
                             /\ call'[d].at = call[d].at
      PROVE  AskedBySomebody' /\ Deciding'
  BY <1>2 DEF AskedBySomebody, Deciding, Approving
<1>3. CASE \E u \in Users : Unsubscribe(u)
  <2>1. \A d \in Calls : /\ call'[d].op = call[d].op /\ call'[d].of = call[d].of
                         /\ call'[d].at = call[d].at
    BY <1>1, <1>3 DEF Unsubscribe, Call
  <2>2. requests' = requests
    BY <1>3 DEF Unsubscribe
  <2>3. QED BY <1>2, <2>1, <2>2
<1>4. ASSUME NEW q \in Requests, Deny(q) PROVE AskedBySomebody' /\ Deciding'
  <2>1. /\ call' = call /\ requests[q].status = "pending"
        /\ requests' = [requests EXCEPT ![q].status = "denied"]
        /\ \A c \in Calls : Approving(c) => call[c].of # q
    BY <1>4 DEF Deny, RequestFree, Approving
  <2>2. QED BY <1>1, <2>1 DEF AskedBySomebody, Deciding, Approving
<1>5. CASE \/ \E u \in Users : Subscribe(u)
           \/ Discover \/ Cancel \/ WorkerStep
  <2>1. call' = call /\ requests' = requests
    BY <1>5 DEF Subscribe, Discover, Cancel, WorkerStep, Start, Skip, Save, Publish, Fail
  <2>2. QED BY <1>2, <2>1
<1>6. QED BY <1>3, <1>4, <1>5

\* What a call on its way to a job relies on: the steps of calls.
LEMMA CallConsenting ==
  ASSUME TypeOK, Deciding, Consenting, NEW c \in Calls, CallStep(c)
  PROVE  Consenting'
<1>1. call \in [Calls -> Call]
  BY DEF TypeOK
<1>2. ASSUME NEW op \in Ops, NEW u \in Users, NEW q \in Requests \cup {Nobody},
             Begin(c, op, u, q)
      PROVE  Consenting'
  <2>1. subscribed' = subscribed
    BY <1>2 DEF Begin, rows
  <2>2. /\ call'[c].at = "start" /\ call'[c].op = op /\ call'[c].by = u
        /\ call'[c].sub = (op = "approve" /\ u \in subscribed)
        /\ \A d \in Calls : d # c => call'[d] = call[d]
    BY <1>1, <1>2 DEF Begin, Started
  <2>3. /\ op # "none"
        /\ op = "process" => u = Owner
        /\ op \in {"import", "notify"} => Owner \in subscribed
        /\ op = "retry" => Owner \in subscribed \/ u \in Admins
    BY <1>2 DEF Begin, Admits, Ops
  <2>4. \A d \in Calls : d # c => Approving(d)' = Approving(d)
    BY <2>2 DEF Approving
  <2>5. ~Approving(c)' /\ Owner \in Users
    BY <2>2, OwnerIsUser DEF Approving
  <2>6. QED BY <2>1, <2>2, <2>3, <2>4, <2>5 DEF Consenting
<1>3. CASE Lock(c)
  <2>1. subscribed' = subscribed
    BY <1>3 DEF Lock, rows
  <2>2. /\ call[c].at = "start" /\ call[c].op \in {"create", "process", "approve"}
        /\ call[c].op = "approve" => Subscribed(c, Owner)
        /\ call[c].op = "process" => Owner \in subscribed
    BY <1>3 DEF Lock, Checks, Discovers
  <2>3. /\ call'[c].at = "locked" /\ call'[c].op = call[c].op /\ call'[c].by = call[c].by
        /\ call'[c].sub = call[c].sub /\ call'[c].overtaken = call[c].overtaken
        /\ \A d \in Calls : d # c => call'[d] = call[d]
    BY <1>1, <1>3 DEF Lock, Call
  <2>4. call[c].op = "approve" => Owner \in subscribed \/ call[c].overtaken
    BY <2>2 DEF Subscribed, Consenting
  <2>5. QED BY <2>1, <2>2, <2>3, <2>4 DEF Consenting, Approving
<1>4. CASE ReadState(c)
  <2>1. subscribed' = subscribed
    BY <1>4 DEF ReadState, rows
  <2>2. call[c].at = "locked"
    BY <1>4 DEF ReadState
  <2>3. /\ call'[c].at = "read" /\ call'[c].op = call[c].op /\ call'[c].by = call[c].by
        /\ call'[c].sub = call[c].sub /\ call'[c].overtaken = call[c].overtaken
        /\ \A d \in Calls : d # c => call'[d] = call[d]
    BY <1>1, <1>4 DEF ReadState, Call
  <2>4. QED BY <2>1, <2>2, <2>3 DEF Consenting, Approving
<1>5. CASE \/ \E q \in Requests : Create(c, q)
           \/ Queue(c) \/ Claim(c) \/ Requeue(c) \/ Abandon(c)
  <2>1. call' = Ended(c) /\ subscribed' = subscribed
    BY <1>5 DEF Create, Queue, Claim, Requeue, Abandon, rows
  <2>2. QED BY <2>1, EndedRelies, NamedRecords DEF Consenting, Approving
<1>6. CASE Look(c)
  <2>1. subscribed' = subscribed
    BY <1>6 DEF Look, rows
  <2>2. call[c].at = "start" /\ call[c].op \in {"import", "retry"}
    BY <1>6 DEF Look
  <2>3. /\ call'[c].at = "looked" /\ call'[c].op = call[c].op /\ call'[c].by = call[c].by
        /\ call'[c].sub = call[c].sub /\ call'[c].overtaken = call[c].overtaken
        /\ \A d \in Calls : d # c => call'[d] = call[d]
    BY <1>1, <1>6 DEF Look, Call
  <2>4. QED BY <2>1, <2>2, <2>3 DEF Consenting, Approving
<1>7. QED BY <1>2, <1>3, <1>4, <1>5, <1>6 DEF CallStep

\* What a call on its way to a job relies on: opting out overtakes it or waits for it.
LEMMA RowConsenting ==
  ASSUME TypeOK, Deciding, Consenting,
         \/ \E u \in Users : Subscribe(u) \/ Unsubscribe(u)
         \/ \E q \in Requests : Deny(q)
         \/ Discover \/ Cancel \/ WorkerStep
  PROVE  Consenting'
<1>1. call \in [Calls -> Call]
  BY DEF TypeOK
<1>2. ASSUME NEW u \in Users, Unsubscribe(u) PROVE Consenting'
  <2>1. /\ subscribed' = subscribed \ {u}
        /\ \A d \in Calls : /\ call'[d].at = call[d].at /\ call'[d].op = call[d].op
                           /\ call'[d].by = call[d].by /\ call'[d].sub = call[d].sub
                           /\ call'[d].overtaken = (call[d].overtaken
                                \/ (u = Owner /\ call[d].op \in Unfenced))
    BY <1>1, <1>2 DEF Unsubscribe, Call
  <2>2. \A d \in Calls : call[d].at \in {"locked", "read"} => call[d].by # u
    BY <1>2 DEF Unsubscribe, UserFree, Holds
  <2>3. \A d \in Calls : Approving(d)' = Approving(d)
    BY <2>1 DEF Approving
  <2>4. \A d \in Calls : Owner \in subscribed => Owner \in subscribed'
                           \/ call[d].op \notin Unfenced \/ call'[d].overtaken
    BY <2>1
  <2>5. ASSUME NEW d \in Calls, call[d].op = "process" /\ call[d].at \in {"locked", "read"}
        PROVE  Owner \in subscribed'
    <3>1. call[d].by = Owner /\ Owner \in subscribed /\ call[d].by # u
      BY <2>2, <2>5 DEF Consenting
    <3>2. QED BY <2>1, <3>1
  <2>6. ASSUME NEW d \in Calls, \/ call[d].op \in {"import", "notify"} \/ Approving(d)
                                \/ call[d].op = "approve" /\ call[d].by = Owner /\ call[d].sub
                                \/ call[d].op = "retry" /\ call[d].by \notin Admins
        PROVE  Owner \in subscribed' \/ call'[d].overtaken
    <3>1. Owner \in subscribed \/ call[d].overtaken
      BY <2>6 DEF Consenting
    <3>2. call[d].op \in Unfenced
      BY <2>6 DEF Unfenced, Approving
    <3>3. QED BY <2>1, <2>4, <3>1, <3>2
  <2>7. QED BY <2>1, <2>3, <2>5, <2>6 DEF Consenting
<1>3. CASE \E u \in Users : Subscribe(u)
  <2>1. call' = call /\ subscribed \subseteq subscribed'
    BY <1>3 DEF Subscribe
  <2>2. QED BY <2>1 DEF Consenting, Approving
<1>4. CASE \/ \E q \in Requests : Deny(q)
           \/ Discover \/ Cancel \/ WorkerStep
  <2>1. call' = call /\ subscribed' = subscribed
    BY <1>4 DEF Deny, Discover, Cancel, WorkerStep, Start, Skip, Save, Publish, Fail
  <2>2. QED BY <2>1 DEF Consenting, Approving
<1>5. QED BY <1>2, <1>3, <1>4

\* A call has seen a job or a meeting only of a recording that is claimed by now.
LEMMA RememberedStep ==
  ASSUME TypeOK, Remembered, Next
  PROVE  Remembered'
<1>1. call \in [Calls -> Call] /\ job \in Job
  BY DEF TypeOK
<1>2. ledger => ledger'
  BY DEF Next, CallStep, WorkerStep, Begin, Lock, Create, ReadState, Queue, Claimed, Claim, Look,
         Requeue, Abandon, Subscribe, Unsubscribe, Deny, Discover, Cancel, Start, Skip, Save,
         Publish, Fail, rows
<1>3. job'.before => ledger
  <2>1. job'.before => job.before \/ job.status # "none"
    BY <1>1 DEF Next, CallStep, WorkerStep, Begin, Lock, Create, ReadState, Queue, Claim, Look,
         Requeue, Queued, Abandon, Subscribe, Unsubscribe, Stopped, Pending, Deny, Discover, Cancel,
         Start, Skip, Save, Publish, Fail, rows, Job
  <2>2. QED BY <2>1 DEF TypeOK, Remembered
<1> DEFINE Relies(d) == \/ call[d].at = "looked"
                        \/ call[d].at = "read" /\ call[d].saw.state # "unclaimed"
<1>4. ASSUME NEW c \in Calls, CallStep(c) PROVE Remembered'
  <2>1. \A d \in Calls : d # c => call'[d] = call[d]
    BY <1>1, <1>4 DEF CallStep, Begin, Lock, Create, ReadState, Queue, Claim, Look, Requeue,
         Abandon, Ended
  <2>2. ASSUME Relies(c)' PROVE ledger
    <3>1. ~\E op \in Ops, u \in Users, q \in Requests \cup {Nobody} : Begin(c, op, u, q)
      BY <1>1, <2>2 DEF Begin, Started
    <3>2. ~Lock(c)
      BY <1>1, <2>2 DEF Lock, Call
    <3>3. call' # Ended(c)
      BY <1>1, <2>2, NamedRecords DEF Ended
    <3>4. ReadState(c) \/ Look(c)
      BY <1>4, <3>1, <3>2, <3>3 DEF CallStep, Create, Queue, Claim, Requeue, Abandon
    <3>5. CASE ReadState(c)
      <4>1. call'[c].saw = Read
        BY <1>1, <3>5 DEF ReadState, Call
      <4>2. call'[c].at = "read"
        BY <1>1, <3>5 DEF ReadState, Call
      <4>3. QED BY <2>2, <4>1, <4>2 DEF Read
    <3>6. CASE Look(c)
      BY <3>6 DEF Look, Remembered
    <3>7. QED BY <3>4, <3>5, <3>6
  <2>3. QED BY <1>2, <1>3, <2>1, <2>2 DEF Remembered
<1>5. ASSUME NEW u \in Users, Unsubscribe(u) PROVE Remembered'
  <2>1. \A d \in Calls : call'[d].at = call[d].at /\ call'[d].saw = call[d].saw
    BY <1>1, <1>5 DEF Unsubscribe, Call
  <2>2. QED BY <1>2, <1>3, <2>1 DEF Remembered
<1>6. CASE \/ \E u \in Users : Subscribe(u)
           \/ \E q \in Requests : Deny(q)
           \/ Discover \/ Cancel \/ WorkerStep
  <2>1. call' = call
    BY <1>6 DEF Subscribe, Deny, Discover, Cancel, WorkerStep, Start, Skip, Save, Publish, Fail
  <2>2. QED BY <1>2, <1>3, <2>1 DEF Remembered
<1>7. QED BY <1>4, <1>5, <1>6 DEF Next

-----------------------------------------------------------------------------
(* The safety properties.                                                  *)

\* Opting out stops what is pending, and what is queued afterwards is marked as late.
LEMMA OptOutStep ==
  ASSUME TypeOK, Consenting, OptOutStops, Next
  PROVE  OptOutStops'
<1> USE DEF OptOutStops, Pending
<1>1. job \in Job /\ call \in [Calls -> Call]
  BY DEF TypeOK
<1>2. ASSUME NEW c \in Calls, Queue(c) PROVE OptOutStops'
  <2>1. subscribed' = subscribed /\ call[c].at = "read"
    BY <1>2 DEF Queue
  <2>2. Owner \in subscribed \/ call[c].overtaken
    <3>1. call[c].op \in {"process", "approve"}
      BY <1>2, <2>1 DEF Queue, Consenting
    <3>2. QED BY <2>1, <3>1 DEF Consenting, Approving
  <2>3. \/ job'.status = job.status /\ job'.late = job.late
        \/ job' = Queued("unauthorized", call[c].overtaken)
    BY <1>1, <1>2 DEF Queue, Job
  <2>4. QED BY <1>1, <2>1, <2>2, <2>3 DEF Queued, Job
<1>3. ASSUME NEW c \in Calls, Claim(c) \/ Requeue(c) PROVE OptOutStops'
  <2>1. CASE Claim(c)
    <3>1. /\ subscribed' = subscribed /\ job'.late = call[c].overtaken
          /\ Owner \in subscribed \/ call[c].overtaken
      BY <1>1, <2>1 DEF Claim, Queued, Job, Consenting
    <3>2. QED BY <3>1
  <2>2. CASE Requeue(c)
    <3>1. /\ subscribed' = subscribed
          /\ job'.late = (call[c].overtaken \/ (call[c].op = "retry" /\ call[c].by \in Admins))
      BY <1>1, <2>2 DEF Requeue, Queued, Job
    <3>2. \/ Owner \in subscribed \/ call[c].overtaken
          \/ call[c].op = "retry" /\ call[c].by \in Admins
      BY <2>2 DEF Requeue, Consenting
    <3>3. QED BY <3>1, <3>2
  <2>3. QED BY <1>3, <2>1, <2>2
<1>4. ASSUME NEW u \in Users, Unsubscribe(u) PROVE OptOutStops'
  BY <1>1, <1>4 DEF Unsubscribe, Stopped, Job
<1>5. ASSUME NEW u \in Users, Subscribe(u) PROVE OptOutStops'
  BY <1>5 DEF Subscribe
<1>6. CASE Cancel \/ Start \/ Skip \/ (\E m \in {"none", "same", "other"} : Publish(m)) \/ Fail
  BY <1>1, <1>6 DEF Cancel, Start, Skip, Publish, Fail, Job
<1>7. ASSUME job' = job, subscribed' = subscribed PROVE OptOutStops'
  BY <1>7
<1>8. ASSUME NEW c \in Calls, CallStep(c) PROVE OptOutStops'
  BY <1>2, <1>3, <1>7, <1>8 DEF CallStep, Begin, Lock, Create, ReadState, Look, Abandon, rows
<1>9. CASE Discover \/ Save \/ \E q \in Requests : Deny(q)
  BY <1>7, <1>9 DEF Discover, Save, Deny
<1>10. QED BY <1>4, <1>5, <1>6, <1>8, <1>9 DEF Next, WorkerStep

\* A queued meeting has an active job, or its job went quietly.
LEMMA QueuedStep ==
  ASSUME TypeOK, Deciding, QueuedHasWork, Next
  PROVE  QueuedHasWork'
<1> USE DEF QueuedHasWork, Active, Pending
<1>1. job \in Job /\ meeting \in Meeting /\ call \in [Calls -> Call]
  BY DEF TypeOK
<1>2. ASSUME NEW c \in Calls, Queue(c) PROVE QueuedHasWork'
  <2> DEFINE s == call[c].saw
  <2>1. s \in Snapshot /\ meeting' = Bound(c, s)
    BY <1>1, <1>2 DEF Queue, Call
  <2>2. NeedsMeeting(s) \/ meeting'.state = meeting.state
    BY <1>2, <2>1, BoundType DEF Deciding, Queue
  <2>3. CASE NeedsJob(s)
    BY <1>1, <1>2, <2>3 DEF Queue, Queued, Job
  <2>4. CASE ~NeedsJob(s)
    <3>1. /\ job'.status = job.status
          /\ job'.quiet = (job.quiet \/ (NeedsMeeting(s) /\ ~Active))
      BY <1>1, <1>2, <2>4 DEF Queue, Job
    <3>2. QED BY <2>2, <3>1
  <2>5. QED BY <2>3, <2>4
<1>3. ASSUME NEW u \in Users, Unsubscribe(u) PROVE QueuedHasWork'
  BY <1>1, <1>3 DEF Unsubscribe, Stopped, Job
<1>4. ASSUME NEW c \in Calls, Requeue(c) PROVE QueuedHasWork'
  BY <1>1, <1>4 DEF Requeue, Queued, Job
<1>5. ASSUME NEW c \in Calls, Claim(c) PROVE QueuedHasWork'
  BY <1>1, <1>5 DEF Claim, Queued, Job
<1>6. CASE Cancel
  BY <1>1, <1>6 DEF Cancel, CancelledMeeting, Meeting
<1>7. CASE WorkerStep
  BY <1>1, <1>7 DEF WorkerStep, Start, Skip, Save, Publish, Fail, CancelledMeeting, Job, Meeting
<1>8. ASSUME job' = job, meeting' = meeting PROVE QueuedHasWork'
  BY <1>8
<1>9. ASSUME NEW c \in Calls, CallStep(c) PROVE QueuedHasWork'
  BY <1>2, <1>4, <1>5, <1>8, <1>9 DEF CallStep, Begin, Lock, Create, ReadState, Look, Abandon, rows
<1>10. CASE \/ Discover \/ \E u \in Users : Subscribe(u)
            \/ \E q \in Requests : Deny(q)
  BY <1>8, <1>10 DEF Discover, Subscribe, Deny
<1>11. QED BY <1>3, <1>6, <1>7, <1>9, <1>10 DEF Next

\* The card shows the meeting to those who see its result.
LEMMA ShownMeansSeen ==
  ApprovedIsShown <=>
    (meeting.state = "done" =>
       \A q \in Requests : requests[q].status = "approved" /\ ~requests[q].late =>
         SeesResult(requests[q].by))
  BY DEF ApprovedIsShown, Card

\* An approval binds the meeting or is late, and the worker finds the approved requests.
LEMMA ShownStep ==
  ASSUME TypeOK, AskedBySomebody, AskedBySomebody', Deciding, ApprovedIsShown, Next
  PROVE  ApprovedIsShown'
<1> DEFINE Shown == meeting.state = "done" =>
             \A q \in Requests : requests[q].status = "approved" /\ ~requests[q].late =>
               SeesResult(requests[q].by)
<1>1. Shown /\ (Shown' => ApprovedIsShown')
  BY ShownMeansSeen, PTL
<1> SUFFICES Shown'
  BY <1>1
<1>2. meeting \in Meeting /\ call \in [Calls -> Call] /\ requests \in [Requests -> Asked]
  BY DEF TypeOK
<1>3. ASSUME NEW c \in Calls, Queue(c) PROVE Shown'
  <2> DEFINE s == call[c].saw
  <2>1. s \in Snapshot /\ meeting' = Bound(c, s)
    BY <1>2, <1>3 DEF Queue, Call
  <2>2. CASE Kept(s)
    <3>1. /\ meeting'.state = meeting.state /\ meeting'.json = meeting.json
          /\ meeting'.same = meeting.same /\ meeting.seen \subseteq meeting'.seen
      BY <2>1, <2>2, BoundType DEF Deciding
    <3>2. ASSUME NEW q \in Requests, requests'[q].status = "approved", ~requests'[q].late
          PROVE  requests'[q] = requests[q]
      BY <1>2, <1>3, <2>2, <3>2 DEF Queue, Kept, Deciding, Asked
    <3>3. QED BY <1>1, <3>1, <3>2 DEF SeesResult
  <2>3. CASE ~Kept(s)
    <3>1. meeting'.json.bound /\ meeting'.seen = Users
      BY <2>1, <2>3, BoundType DEF Deciding
    <3>2. QED BY <3>1 DEF SeesResult, AskedBySomebody
  <2>4. QED BY <2>2, <2>3
<1>4. ASSUME NEW m \in {"none", "same", "other"}, Publish(m) PROVE Shown'
  <2>1. requests' = requests
    BY <1>4 DEF Publish
  <2>2. ASSUME NEW q \in Requests, requests[q].status = "approved"
        PROVE  SeesResult(requests[q].by)'
    <3>1. Rebound
      BY <2>2 DEF Rebound
    <3>2. meeting'.state = "done" /\ meeting'.json.bound /\ meeting'.seen = Users
      BY <1>2, <1>4, <3>1 DEF Publish, Meeting
    <3>3. requests[q].by \in Users
      BY <2>2 DEF AskedBySomebody
    <3>4. QED BY <2>1, <3>2, <3>3 DEF SeesResult
  <2>3. QED BY <2>1, <2>2
<1>5. ASSUME NEW q \in Requests, Deny(q) PROVE Shown'
  BY <1>1, <1>2, <1>5 DEF Deny, SeesResult, Asked
<1>6. ASSUME meeting'.state # "done" \/ (meeting' = meeting /\ requests' = requests)
      PROVE  Shown'
  BY <1>1, <1>6 DEF SeesResult
<1>7. ASSUME NEW c \in Calls, CallStep(c) PROVE Shown'
  <2>1. CASE Requeue(c)
    <3>1. meeting' = meeting \/ meeting'.state # "done"
      BY <1>2, <2>1 DEF Requeue, Meeting
    <3>2. requests' = requests
      BY <2>1 DEF Requeue
    <3>3. QED BY <1>6, <3>1, <3>2
  <2>2. ASSUME NEW q \in Requests, Create(c, q) PROVE Shown'
    BY <1>1, <1>2, <2>2 DEF Create, SeesResult, Asked
  <2>3. QED
    BY <1>3, <1>6, <1>7, <2>1, <2>2 DEF CallStep, Begin, Lock, ReadState, Claim, Look, Abandon, rows
<1>8. CASE \E u \in Users : Subscribe(u) \/ Unsubscribe(u)
  BY <1>2, <1>6, <1>8 DEF Subscribe, Unsubscribe, Meeting
<1>9. CASE Cancel
  <2>1. meeting.state = "done" => meeting' = meeting
    BY <1>2, <1>9 DEF Cancel, CancelledMeeting, Meeting
  <2>2. meeting.state # "done" => meeting'.state # "done"
    BY <1>2, <1>9 DEF Cancel, CancelledMeeting, Meeting
  <2>3. requests' = requests
    BY <1>9 DEF Cancel
  <2>4. QED BY <1>6, <2>1, <2>2, <2>3
<1>10. CASE Discover \/ Start \/ Skip \/ Save \/ Fail
  <2>1. /\ requests' = requests
        /\ meeting' = meeting \/ meeting'.state # "done" \/ Fail
    BY <1>2, <1>10 DEF Discover, Start, Skip, Save, Fail, Meeting
  <2>2. Fail => meeting'.state # "done" \/ meeting' = meeting
    BY <1>2 DEF Fail, CancelledMeeting, Meeting
  <2>3. QED BY <1>6, <2>1, <2>2
<1>11. QED BY <1>4, <1>5, <1>7, <1>8, <1>9, <1>10 DEF Next, WorkerStep

-----------------------------------------------------------------------------
(* The inductive invariant and the theorems.                               *)

\* Every step preserves the invariant.
LEMMA InvStep == IInv /\ [Next]_vars => IInv'
<1> SUFFICES ASSUME IInv, [Next]_vars PROVE IInv'
  OBVIOUS
<1>1. CASE UNCHANGED vars
  BY <1>1 DEF vars, IInv, TypeOK, AskedBySomebody, Deciding, Approving, Consenting, Remembered,
              OptOutStops, Pending, QueuedHasWork, Active, ApprovedIsShown, Card, SeesResult, LiveOf
<1>2. CASE Next
  <2> USE DEF IInv
  <2>1. TypeOK'
    BY <1>2, CallTypes, QueueTypes, RowTypes DEF Next, CallStep
  <2>2. AskedBySomebody' /\ Deciding'
    BY <1>2, CallDeciding, RowDeciding DEF Next
  <2>3. Consenting'
    BY <1>2, CallConsenting, RowConsenting DEF Next
  <2>4. Remembered'
    BY <1>2, RememberedStep
  <2>5. OptOutStops' /\ QueuedHasWork' /\ ApprovedIsShown'
    BY <1>2, <2>2, OptOutStep, QueuedStep, ShownStep
  <2>6. QED BY <2>1, <2>2, <2>3, <2>4, <2>5
<1>3. QED BY <1>1, <1>2

\* The invariant holds in every reachable state, whatever the calls and the worker do.
THEOREM Invariant == Spec => []IInv
  BY InvInit, InvStep, PTL DEF Spec

\* Types, and whatever has a job or a meeting is claimed in the ledger.
THEOREM TypesHold == Spec => []TypeOK
<1>1. IInv => TypeOK
  BY DEF IInv
<1>2. QED BY <1>1, Invariant, PTL

\* Nothing is pending for an owner who opted out, but what was under way.
THEOREM OptOutHolds == Spec => []OptOutStops
<1>1. IInv => OptOutStops
  BY DEF IInv
<1>2. QED BY <1>1, Invariant, PTL

\* A meeting shown as queued has an active job, or lost it quietly.
THEOREM QueuedHolds == Spec => []QueuedHasWork
<1>1. IInv => QueuedHasWork
  BY DEF IInv
<1>2. QED BY <1>1, Invariant, PTL

\* Who was approved before the result was there is shown the result.
THEOREM ShownHolds == Spec => []ApprovedIsShown
<1>1. IInv => ApprovedIsShown
  BY DEF IInv
<1>2. QED BY <1>1, Invariant, PTL

\* No step takes a decision back.
LEMMA DecisionStep ==
  ASSUME IInv, [Next]_vars, NEW q \in Requests, requests[q].status \in {"approved", "denied"}
  PROVE  requests'[q] = requests[q]
<1>1. requests \in [Requests -> Asked]
  BY DEF IInv, TypeOK
<1>2. ASSUME NEW c \in Calls, CallStep(c) PROVE requests'[q] = requests[q]
  <2>1. CASE \E r \in Requests : Create(c, r)
    BY <1>1, <2>1 DEF Create
  <2>2. CASE Queue(c)
    <3>1. requests' = requests \/ (Approving(c) /\ call[c].of # q)
      BY <2>2 DEF Queue, IInv, Deciding, Approving
    <3>2. QED BY <1>1, <2>2, <3>1 DEF Queue
  <2>3. QED
    BY <1>2, <2>1, <2>2 DEF CallStep, Begin, Lock, ReadState, Claim, Look, Requeue, Abandon, rows
<1>3. CASE \E r \in Requests : Deny(r)
  BY <1>1, <1>3 DEF Deny
<1>4. CASE \/ \E u \in Users : Subscribe(u) \/ Unsubscribe(u)
           \/ Discover \/ Cancel \/ WorkerStep
  BY <1>4 DEF Subscribe, Unsubscribe, Discover, Cancel, WorkerStep, Start, Skip, Save,
              Publish, Fail
<1>5. CASE UNCHANGED vars
  BY <1>5 DEF vars
<1>6. QED BY <1>2, <1>3, <1>4, <1>5 DEF Next

\* A decision is taken once, by however many owners and administrators decide.
THEOREM DecidedOnceHolds == Spec => DecidedOnce
<1>1. IInv /\ [Next]_vars => [\A q \in Requests : requests[q].status \in {"approved", "denied"} =>
                                 requests'[q] = requests[q]]_vars
  BY DecisionStep
<1>2. QED BY <1>1, Invariant, PTL DEF Spec, DecidedOnce

\* Only a call that read the meeting earlier touches a finished result.
LEMMA KeptStep ==
  ASSUME IInv, [Next]_vars, meeting.state = "done",
         <<meeting'.json, meeting'.same>> # <<meeting.json, meeting.same>>
  PROVE  \E c \in Calls : /\ call[c].at = "read" /\ call[c].saw.state # "done"
                          /\ call'[c].at = "idle"
<1>1. meeting \in Meeting /\ call \in [Calls -> Call] /\ meeting' # meeting
  BY DEF IInv, TypeOK
<1>2. \E c \in Calls : Queue(c)
  <2>1. ~\E c \in Calls : Requeue(c)
    BY <1>1 DEF Requeue, Meeting
  <2>2. ~Cancel
    BY <1>1 DEF Cancel, CancelledMeeting, Meeting
  <2>3. ~(Save \/ Skip \/ \E m \in {"none", "same", "other"} : Publish(m))
    BY <1>1 DEF Save, Skip, Publish
  <2>4. ~Start /\ ~Fail
    BY <1>1 DEF Start, Fail, CancelledMeeting, Meeting
  <2>5. QED
    BY <1>1, <2>1, <2>2, <2>3, <2>4
       DEF Next, CallStep, WorkerStep, Begin, Lock, Create, ReadState, Claim, Look, Abandon,
           Subscribe, Unsubscribe, Deny, Discover, rows, vars
<1>3. PICK c \in Calls : Queue(c)
  BY <1>2
<1>4. call[c].at = "read" /\ call[c].saw \in Snapshot /\ meeting' = Bound(c, call[c].saw)
  BY <1>1, <1>3 DEF Queue, Call
<1>5. ~Kept(call[c].saw)
  BY <1>4, BoundType DEF IInv, Deciding
<1>6. call'[c].at = "idle"
  BY <1>1, <1>3, NamedRecords DEF Queue, Ended
<1>7. QED BY <1>4, <1>5, <1>6 DEF Kept

\* A finished result keeps its metadata, but for a call that had read it unfinished.
THEOREM ResultKeptHolds == Spec => ResultKept
<1>1. IInv /\ [Next]_vars =>
        [meeting.state = "done" /\ <<meeting'.json, meeting'.same>> # <<meeting.json, meeting.same>>
           => \E c \in Calls : call[c].at = "read" /\ call[c].saw.state # "done"
                              /\ call'[c].at = "idle"]_vars
  BY KeptStep
<1>2. QED BY <1>1, Invariant, PTL DEF Spec, ResultKept

-----------------------------------------------------------------------------
(* ProcessingRequests implements OwnersDecision.                           *)

\* There is a result only where somebody authorized its processing, and what a call read of the
\* recording's jobs stays true.
Results ==
  /\ meeting.state = "done" => job.status \notin {"none", "unauthorized"}
  /\ \A c \in Calls : call[c].at = "read" =>
       /\ call[c].saw.state # "unclaimed" => job.status # "none"
       /\ call[c].saw.state = "done" => job.status \notin {"none", "unauthorized"}

\* Who asks is not the owner, holds their account alone and has no other request alive.
Askers ==
  /\ \A c \in Calls : call[c].op = "create" => call[c].by # Owner
  /\ \A c \in Calls : call[c].op = "create" /\ call[c].at \in {"locked", "read"} =>
       LiveOf(call[c].by) = {}
  /\ \A c, d \in Calls : call[c].at \in {"locked", "read"} /\ call[d].at \in {"locked", "read"}
                           /\ call[c].by = call[d].by => c = d

\* A recording that has a job keeps one, and one that was authorized stays so.
LEMMA JobMoves ==
  ASSUME TypeOK, Remembered, Next
  PROVE  /\ job.status # "none" => job'.status # "none"
         /\ job.status \notin {"none", "unauthorized"} => job'.status \notin {"none", "unauthorized"}
<1>1. job \in Job /\ (job.status # "none" => ledger)
  BY DEF TypeOK
<1>2. ASSUME NEW c \in Calls, Queue(c)
      PROVE  job'.status = job.status \/ (job.status = "none" /\ job'.status = "unauthorized")
  <2>1. CASE NeedsJob(call[c].saw)
    BY <1>1, <1>2, <2>1 DEF Queue, Queued, Job
  <2>2. CASE ~NeedsJob(call[c].saw)
    BY <1>1, <1>2, <2>2 DEF Queue, Job
  <2>3. QED BY <2>1, <2>2
<1>3. ASSUME NEW c \in Calls, Claim(c) \/ Requeue(c)
      PROVE  job'.status = "pending" \/ (job.status = "none" /\ job'.status = "unauthorized")
  BY <1>1, <1>3 DEF Claim, Requeue, Queued, Job
<1>4. ASSUME NEW u \in Users, Unsubscribe(u)
      PROVE  job'.status = job.status \/ job'.status = "ended"
  BY <1>1, <1>4 DEF Unsubscribe, Stopped, Job
<1>5. CASE Cancel \/ WorkerStep
  <2>1. job'.status = job.status \/ job'.status \in {"processing", "completed", "ended"}
    BY <1>1, <1>5 DEF Cancel, WorkerStep, Start, Skip, Save, Publish, Fail, Job
  <2>2. QED BY <2>1
<1>6. ASSUME job' = job
      PROVE  job'.status = job.status
  BY <1>6
<1>7. QED BY <1>2, <1>3, <1>4, <1>5, <1>6 DEF Next, CallStep, Begin, Lock, Create, ReadState,
               Look, Abandon, Subscribe, Deny, Discover, rows

\* What calls have read is not taken back.
LEMMA ResultsStep ==
  ASSUME TypeOK, Deciding, Consenting, Remembered, Results, Next
  PROVE  Results'
<1>1. job \in Job /\ call \in [Calls -> Call] /\ meeting \in Meeting
  BY DEF TypeOK
<1>2. /\ job.status # "none" => job'.status # "none"
      /\ job.status \notin {"none", "unauthorized"} => job'.status \notin {"none", "unauthorized"}
  BY JobMoves
<1>3. meeting'.state = "done" => job'.status \notin {"none", "unauthorized"}
  <2>1. CASE \E m \in {"none", "same", "other"} : Publish(m)
    BY <1>1, <2>1 DEF Publish, Job
  <2>2. ASSUME meeting'.state = meeting.state
        PROVE  meeting'.state = "done" => job'.status \notin {"none", "unauthorized"}
    BY <1>2, <2>2 DEF Results
  <2>3. ASSUME NEW c \in Calls, Queue(c)
        PROVE  meeting'.state # "done" \/ meeting'.state = meeting.state
    <3>1. call[c].saw \in Snapshot /\ (call[c].op = "approve" =>
                                        call[c].of \in Requests /\ requests[call[c].of].by \in Users)
      BY <1>1 DEF Call, Deciding
    <3>2. QED BY <2>3, <3>1, BoundType DEF Queue
  <2>4. ASSUME NEW c \in Calls, Requeue(c)
        PROVE  meeting'.state # "done" \/ meeting'.state = meeting.state
    BY <1>1, <2>4 DEF Requeue, Meeting
  <2>5. ASSUME Cancel \/ Start \/ Save \/ Fail
        PROVE  meeting'.state # "done" \/ meeting'.state = meeting.state
    BY <1>1, <2>5 DEF Cancel, CancelledMeeting, Start, Save, Fail, Meeting
  <2>6. ASSUME meeting' = meeting
        PROVE  meeting'.state = meeting.state
    BY <2>6
  <2>7. QED BY <2>1, <2>2, <2>3, <2>4, <2>5, <2>6 DEF Next, CallStep, WorkerStep, Begin, Lock,
                 Create, ReadState, Claim, Look, Abandon, Subscribe, Unsubscribe, Deny, Discover,
                 Skip, rows
<1>4. ASSUME NEW c \in Calls, call'[c].at = "read"
      PROVE  /\ call'[c].saw.state # "unclaimed" => job'.status # "none"
             /\ call'[c].saw.state = "done" => job'.status \notin {"none", "unauthorized"}
  <2>1. CASE call[c].at = "read" /\ call'[c].saw = call[c].saw
    BY <1>2, <2>1 DEF Results
  <2>2. CASE ReadState(c)
    <3>1. call'[c].saw = Read /\ job' = job /\ call[c].at = "locked"
      BY <1>1, <2>2 DEF ReadState, rows, Call
    <3>2. call[c].op \in {"create", "process", "approve"}
      BY <3>1 DEF Consenting
    <3>3. Read.state # "unclaimed" => ledger /\ MayQueue
      BY <2>2, <3>2 DEF ReadState, Read, Untouched
    <3>4. Read.state = "done" => meeting.state = "done"
      BY DEF Read
    <3>5. Read.state # "unclaimed" => job.status # "none"
      BY <3>3 DEF MayQueue, Active, Pending, Results
    <3>6. QED BY <3>1, <3>4, <3>5 DEF Results
  <2>3. ASSUME NEW d \in Calls, d # c, ReadState(d)
        PROVE  call'[c] = call[c]
    BY <1>1, <2>3 DEF ReadState
  <2>4. ASSUME NEW d \in Calls, call' = Ended(d)
        PROVE  call'[c] = call[c]
    BY <1>4, <2>4, EndedRelies, NamedRecords
  <2>5. ASSUME NEW d \in Calls,
               \/ Lock(d) \/ Look(d)
               \/ \E op \in Ops, u \in Users, q \in Requests \cup {Nobody} : Begin(d, op, u, q)
        PROVE  call'[c] = call[c]
    <3>1. CASE Lock(d)
      BY <1>1, <1>4, <3>1 DEF Lock
    <3>2. CASE Look(d)
      BY <1>1, <1>4, <3>2 DEF Look, Call
    <3>3. ASSUME NEW op \in Ops, NEW u \in Users, NEW q \in Requests \cup {Nobody},
                 Begin(d, op, u, q)
          PROVE  call'[c] = call[c]
      <4>1. \A sub : Started(op, u, q, sub).at = "start"
        BY DEF Started
      <4>2. QED BY <1>1, <1>4, <3>3, <4>1 DEF Begin
    <3>4. QED BY <2>5, <3>1, <3>2, <3>3
  <2>6. ASSUME NEW u \in Users, Unsubscribe(u)
        PROVE  call[c].at = "read" /\ call'[c].saw = call[c].saw
    BY <1>1, <1>4, <2>6 DEF Unsubscribe, Call
  <2>7. call' = call => call'[c] = call[c]
    OBVIOUS
  <2>8. QED BY <1>4, <2>1, <2>2, <2>3, <2>4, <2>5, <2>6, <2>7 DEF Next, CallStep, WorkerStep,
                 Create, Queue, Claim, Requeue, Abandon, Subscribe, Deny, Discover, Cancel, Start,
                 Skip, Save, Publish, Fail
<1>5. QED BY <1>3, <1>4 DEF Results

\* The locks of accounts do what they are there for.
LEMMA AskersStep ==
  ASSUME TypeOK, Deciding, Askers, Next
  PROVE  Askers'
<1>1. call \in [Calls -> Call] /\ requests \in [Requests -> Asked]
  BY DEF TypeOK
<1> DEFINE Locked(c) == call[c].at \in {"locked", "read"}
           Alive(q, u) == requests[q].status \in Live /\ requests[q].by = u
<1>2. ASSUME \A c \in Calls : /\ Locked(c)' => Locked(c) /\ call'[c].by = call[c].by
                              /\ call'[c].op = "create" =>
                                   call[c].op = "create" /\ call'[c].by = call[c].by
                              /\ call'[c].op = "create" /\ Locked(c)' => Locked(c),
             \A q \in Requests : \A u : Alive(q, u)' => Alive(q, u)
      PROVE  Askers'
  BY <1>2 DEF Askers, LiveOf
<1>3. ASSUME requests' = requests, call' = call
      PROVE  Askers'
  BY <1>2, <1>3
<1>4. ASSUME NEW c \in Calls, call' = Ended(c)
      PROVE  \A d \in Calls : /\ Locked(d)' => Locked(d) /\ call'[d].by = call[d].by
                              /\ call'[d].op = "create" =>
                                   call[d].op = "create" /\ call'[d].by = call[d].by
                              /\ call'[d].op = "create" /\ Locked(d)' => Locked(d)
  BY <1>4, EndedRelies, NamedRecords
<1>5. ASSUME NEW c \in Calls, NEW op \in Ops, NEW u \in Users, NEW q \in Requests \cup {Nobody},
             Begin(c, op, u, q)
      PROVE  Askers'
  <2>1. /\ requests' = requests /\ (op = "create" => u # Owner)
        /\ call'[c].at = "start" /\ call'[c].op = op /\ call'[c].by = u
        /\ \A d \in Calls : d # c => call'[d] = call[d]
    BY <1>1, <1>5 DEF Begin, rows, Started, Admits
  <2>2. QED BY <2>1 DEF Askers, LiveOf
<1>6. ASSUME NEW c \in Calls, Lock(c)
      PROVE  Askers'
  <2>1. /\ requests' = requests
        /\ \A d \in Calls : call'[d].op = call[d].op /\ call'[d].by = call[d].by
        /\ \A d \in Calls : d # c => call'[d] = call[d]
        /\ \A d \in Calls : ~(Locked(d) /\ call[d].by = call[c].by)
        /\ call[c].op = "create" => LiveOf(call[c].by) = {}
    BY <1>1, <1>6 DEF Lock, rows, UserFree, Holds, Checks, MayAsk
  <2>2. \A u : LiveOf(u)' = LiveOf(u)
    BY <2>1 DEF LiveOf
  <2>3. QED BY <2>1, <2>2 DEF Askers
<1>7. ASSUME NEW c \in Calls, ReadState(c)
      PROVE  Askers'
  <2>1. /\ requests' = requests /\ call[c].at = "locked" /\ call'[c].at = "read"
        /\ \A d \in Calls : call'[d].op = call[d].op /\ call'[d].by = call[d].by
        /\ \A d \in Calls : d # c => call'[d] = call[d]
    BY <1>1, <1>7 DEF ReadState, rows
  <2>2. QED BY <1>2, <2>1
<1>8. ASSUME NEW c \in Calls, NEW q \in Requests, Create(c, q)
      PROVE  Askers'
  <2>1. /\ call' = Ended(c) /\ call[c].at = "read"
        /\ \A r \in Requests : \A u : Alive(r, u)' => Alive(r, u) \/ u = call[c].by
    BY <1>1, <1>8 DEF Create
  <2>3. \A d \in Calls : call'[d].op = "create" => d # c /\ call'[d] = call[d]
    BY <2>1, EndedRelies, NamedRecords
  <2>4. \A d \in Calls : Locked(d)' => d # c /\ call'[d] = call[d]
    BY <2>1, EndedRelies, NamedRecords
  <2>5. ASSUME NEW d \in Calls, call'[d].op = "create", Locked(d)'
        PROVE  LiveOf(call[d].by)' = {}
    <3>1. d # c /\ call'[d] = call[d] /\ call[d].by # call[c].by /\ LiveOf(call[d].by) = {}
      BY <2>1, <2>4, <2>5 DEF Askers
    <3>2. \A r \in Requests : ~Alive(r, call[d].by)'
      BY <2>1, <3>1 DEF LiveOf
    <3>3. QED BY <3>2 DEF LiveOf
  <2>6. \A d \in Calls : call'[d].op = "create" => call'[d].by # Owner
    BY <2>3 DEF Askers
  <2>7. \A d, e \in Calls : Locked(d)' /\ Locked(e)' /\ call'[d].by = call'[e].by => d = e
    BY <2>4 DEF Askers
  <2>8. QED BY <2>4, <2>5, <2>6, <2>7 DEF Askers
<1>9. ASSUME NEW c \in Calls, Queue(c)
      PROVE  Askers'
  <2>1. \A q \in Requests : \A u : Alive(q, u)' => Alive(q, u)
    <3>1. Approving(c) => requests[call[c].of].status = "pending"
      BY DEF Deciding
    <3>2. \A q \in Requests : /\ requests'[q].by = requests[q].by
                              /\ \/ requests'[q].status = requests[q].status
                                 \/ Approving(c) /\ q = call[c].of
      BY <1>1, <1>9 DEF Queue, Approving
    <3>3. QED BY <3>1, <3>2 DEF Live
  <2>2. call' = Ended(c)
    BY <1>9 DEF Queue
  <2>3. QED BY <1>2, <1>4, <2>1, <2>2
<1>10. ASSUME NEW c \in Calls, Claim(c) \/ Requeue(c) \/ Abandon(c) \/ Look(c)
       PROVE  Askers'
  <2>1. CASE Look(c)
    <3>1. /\ requests' = requests /\ call[c].at = "start" /\ call'[c].at = "looked"
          /\ \A d \in Calls : call'[d].op = call[d].op /\ call'[d].by = call[d].by
          /\ \A d \in Calls : d # c => call'[d] = call[d]
      BY <1>1, <2>1 DEF Look, rows, Call
    <3>2. QED BY <1>2, <3>1
  <2>2. CASE Claim(c) \/ Requeue(c) \/ Abandon(c)
    BY <1>2, <1>4, <2>2 DEF Claim, Requeue, Abandon, rows
  <2>3. QED BY <1>10, <2>1, <2>2
<1>11. ASSUME NEW u \in Users, Unsubscribe(u)
       PROVE  Askers'
  <2>1. /\ requests' = requests
        /\ \A c \in Calls : call'[c].op = call[c].op /\ call'[c].by = call[c].by
                            /\ call'[c].at = call[c].at
    BY <1>1, <1>11 DEF Unsubscribe, Call
  <2>2. QED BY <1>2, <2>1
<1>12. ASSUME NEW q \in Requests, Deny(q)
       PROVE  Askers'
  <2>1. \A r \in Requests : \A u : Alive(r, u)' => Alive(r, u)
    BY <1>1, <1>12 DEF Deny, Live
  <2>2. QED BY <1>2, <1>12, <2>1 DEF Deny
<1>13. QED BY <1>3, <1>5, <1>6, <1>7, <1>8, <1>9, <1>10, <1>11, <1>12 DEF Next, CallStep,
         WorkerStep, Subscribe, Discover, Cancel, Start, Skip, Save, Publish, Fail

\* Both hold to begin with, and all along.
LEMMA PromiseRests == Spec => [](IInv /\ Results /\ Askers)
<1>1. Init => Results /\ Askers
  <2> SUFFICES ASSUME Init PROVE Results /\ Askers
    OBVIOUS
  <2>1. QED BY NamedRecords DEF Init, Results, Askers, Unasked
<1>2. IInv /\ Results /\ Askers /\ [Next]_vars => Results' /\ Askers'
  <2> SUFFICES ASSUME IInv, Results, Askers, [Next]_vars PROVE Results' /\ Askers'
    OBVIOUS
  <2>1. CASE UNCHANGED vars
    BY <2>1 DEF vars, Results, Askers, LiveOf
  <2>2. CASE Next
    BY <2>2, ResultsStep, AskersStep DEF IInv
  <2>3. QED BY <2>1, <2>2
<1>3. QED BY <1>1, <1>2, Invariant, PTL DEF Spec

\* Without a result there are no viewers, and they are the meeting's.
LEMMA ViewersOf ==
  /\ ~Finished => Viewers = {}
  /\ ~Finished' => Viewers' = {}
  /\ meeting' = meeting => Viewers' = Viewers /\ Finished' = Finished
  /\ Viewers \subseteq Users /\ Viewers' \subseteq Users
  BY DEF Finished, Viewers, SeesResult

\* What changes nothing of this is not promised.
LEMMA PromiseSleeps ==
  ASSUME UNCHANGED <<requests, Viewers, Finished>>, job'.status = job.status, Consents' <=> Consents
  PROVE  UNCHANGED Promise!consent
  BY DEF Promise!consent, Consents

\* The commit of a call queues the recording once, and hides the result from nobody; what it
\* did not know to be finished it shows to everybody.
LEMMA QueueShows ==
  ASSUME IInv, Results, NEW c \in Calls, Queue(c)
  PROVE  /\ Promise!Enqueue /\ Promise!MoreViewers
         /\ call[c].saw.state = "done" => job.status \notin {"none", "unauthorized"}
         /\ Finished /\ call[c].saw.state # "done" => Viewers' = Users
         /\ Consents' <=> Consents
<1> DEFINE s == call[c].saw
<1>1. /\ job \in Job /\ meeting \in Meeting /\ s \in Snapshot /\ call[c].at = "read"
      /\ subscribed' = subscribed
      /\ call[c].op = "approve" => call[c].of \in Requests /\ requests[call[c].of].by \in Users
  BY DEF Queue, IInv, TypeOK, Call, Deciding
<1>2. /\ s.state # "unclaimed" => job.status # "none"
      /\ s.state = "done" => job.status \notin {"none", "unauthorized"}
  BY <1>1 DEF Results
<1>3. Promise!Enqueue
  <2>1. CASE NeedsJob(s)
    <3>1. job.status = "none" /\ job' = Queued("unauthorized", call[c].overtaken)
      BY <2>1 DEF Queue, IInv, TypeOK
    <3>2. QED BY <1>1, <3>1 DEF Queued, Job, Promise!Enqueue
  <2>2. CASE ~NeedsJob(s)
    <3>1. job.status # "none" /\ job'.status = job.status
      BY <1>1, <1>2, <2>2 DEF Queue, NeedsJob, Job
    <3>2. QED BY <3>1 DEF Promise!Enqueue
  <2>3. QED BY <2>1, <2>2
<1>4. meeting' = Bound(c, s) /\ (NeedsMeeting(s) => meeting.state = "none")
  BY DEF Queue
<1>5. Finished' = Finished
  <2>1. \/ meeting'.state = meeting.state
        \/ meeting.state = "none" /\ meeting'.state = "queued"
    BY <1>1, <1>4, BoundType DEF IInv
  <2>2. QED BY <2>1 DEF Finished
<1>6. CASE ~Finished
  <2>1. Viewers' = Viewers /\ Viewers' \in SUBSET Users
    BY <1>5, <1>6, ViewersOf
  <2>2. QED BY <1>1, <1>2, <1>3, <1>5, <1>6, <2>1 DEF Promise!MoreViewers, Consents
<1>7. CASE Finished /\ Kept(s)
  <2>1. Viewers' \in SUBSET Users
    BY ViewersOf
  <2>2. /\ meeting'.state = meeting.state /\ meeting'.json = meeting.json
        /\ meeting'.same = meeting.same /\ meeting.seen \subseteq meeting'.seen
    BY <1>1, <1>4, <1>7, BoundType DEF IInv
  <2>3. Viewers \subseteq Viewers'
    BY <2>2 DEF Viewers, SeesResult
  <2>4. QED BY <1>1, <1>2, <1>3, <1>5, <1>7, <2>1, <2>3 DEF Promise!MoreViewers, Consents, Kept
<1>8. CASE Finished /\ ~Kept(s)
  <2>1. meeting'.state = "done" /\ meeting'.json.bound /\ meeting'.seen = Users
    BY <1>1, <1>4, <1>8, BoundType DEF IInv, Finished
  <2>2. Viewers' = Users /\ Viewers \subseteq Users
    BY <2>1, ViewersOf DEF Viewers, SeesResult
  <2>3. QED BY <1>1, <1>2, <1>3, <1>5, <1>8, <2>2 DEF Promise!MoreViewers, Consents
<1>9. QED BY <1>6, <1>7, <1>8

\* A call that commits asks, approves, notices, authorizes or is the owner's own.
LEMMA CallKeeps ==
  ASSUME IInv, Results, Askers, NEW c \in Calls, CallStep(c)
  PROVE  Promise!Next \/ UNCHANGED Promise!consent
<1>1. /\ job \in Job /\ call[c] \in Call /\ requests \in [Requests -> Asked]
      /\ meeting \in Meeting
  BY DEF IInv, TypeOK
<1>2. CASE UNCHANGED rows
  <2>1. UNCHANGED <<requests, Viewers, Finished>> /\ job' = job /\ (Consents' <=> Consents)
    BY <1>2, ViewersOf DEF rows, Consents
  <2>2. QED BY <2>1, PromiseSleeps
<1>3. ASSUME NEW q \in Requests, Create(c, q)
      PROVE  Promise!Next
  <2>1. PICK u \in Users : u = call[c].by
    BY <1>3 DEF Create, IInv, Consenting
  <2>2. /\ Consents' = Consents /\ job' = job /\ UNCHANGED <<Viewers, Finished>>
        /\ requests[q].status = "absent"
        /\ requests' = [requests EXCEPT ![q] = [status |-> "pending", by |-> u, late |-> FALSE]]
    BY <1>3, <2>1, ViewersOf DEF Create, Consents
  <2>3. u # Owner /\ LiveOf(u) = {}
    BY <1>3, <2>1 DEF Create, Askers
  <2>4. \A r \in Requests : Promise!Alive(r) => requests[r].by # u
    BY <2>3 DEF LiveOf, Live, Promise!Alive
  <2>5. Promise!Ask(q, u)
    BY <2>2, <2>3, <2>4 DEF Promise!Ask
  <2>6. QED BY <2>5 DEF Promise!Next
<1>4. CASE Queue(c) /\ call[c].op = "approve"
  <2>1. PICK q \in Requests : q = call[c].of
    BY <1>4 DEF IInv, Deciding
  <2>2. PICK late \in BOOLEAN : late = (call[c].saw.state = "done")
    OBVIOUS
  <2>3. /\ requests[q].status = "pending" /\ requests[q].by \in Users
        /\ requests' = [requests EXCEPT ![q] = [@ EXCEPT !.status = "approved", !.late = late]]
    <3>1. requests[q].status = "pending" /\ requests[q].by \in Users
      BY <1>4, <2>1 DEF IInv, Deciding, Approving, Queue
    <3>2. requests' = [requests EXCEPT ![q].status = "approved", ![q].late = late]
      BY <1>4, <2>1, <2>2 DEF Queue
    <3>3. QED BY <1>1, <3>1, <3>2 DEF Asked
  <2>4. /\ Promise!Enqueue /\ Promise!MoreViewers /\ (Consents' <=> Consents)
        /\ IF late THEN job.status \notin {"none", "unauthorized"}
                   ELSE Finished => requests[q].by \in Viewers'
    BY <1>4, <2>2, <2>3, QueueShows
  <2>5. Promise!Approve(q, late)
    <3>1. Consents' = Consents
      BY <2>4 DEF Consents
    <3>2. CASE late
      BY <2>3, <2>4, <3>1, <3>2 DEF Promise!Approve
    <3>3. CASE ~late
      BY <2>3, <2>4, <3>1, <3>3 DEF Promise!Approve
    <3>4. QED BY <3>2, <3>3
  <2>6. QED BY <2>5 DEF Promise!Next
<1>5. CASE Queue(c) /\ call[c].op # "approve"
  <2>1. Consents
    BY <1>5 DEF Queue, IInv, Consenting, Consents
  <2>2. requests' = requests /\ Promise!Enqueue /\ Promise!MoreViewers /\ (Consents' <=> Consents)
    BY <1>5, QueueShows DEF Queue
  <2>3. Promise!Process
    BY <2>1, <2>2 DEF Promise!Process
  <2>4. QED BY <2>3 DEF Promise!Next
<1>6. CASE Claim(c)
  <2>1. /\ job.status = "none" /\ UNCHANGED <<requests, Viewers, Finished>>
        /\ Consents' = Consents
        /\ job'.status \in {"pending", "unauthorized"}
    BY <1>1, <1>6, ViewersOf DEF Claim, Queued, Job, Consents, IInv, TypeOK
  <2>2. CASE job'.status = "pending"
    BY <2>1, <2>2 DEF Promise!Authorize, Promise!Next
  <2>3. CASE job'.status = "unauthorized"
    BY <2>1, <2>3 DEF Promise!Notice, Promise!Next
  <2>4. QED BY <2>1, <2>2, <2>3
<1>7. CASE Requeue(c)
  <2>1. /\ job.status \in {"none", "ended", "completed"} /\ job'.status = "pending"
        /\ UNCHANGED requests /\ Consents' = Consents
    BY <1>1, <1>7 DEF Requeue, Active, Pending, Queued, Job, Consents
  <2>2. meeting' = meeting \/ meeting'.state = "queued"
    BY <1>1, <1>7 DEF Requeue, Meeting
  <2>3. CASE UNCHANGED <<Viewers, Finished>>
    BY <2>1, <2>3 DEF Promise!Authorize, Promise!Next
  <2>4. CASE ~UNCHANGED <<Viewers, Finished>>
    <3>1. Finished /\ ~Finished'
      BY <2>2, <2>4, ViewersOf DEF Finished
    <3>2. job.status # "none" /\ Finished' = FALSE /\ Viewers' = {}
      BY <3>1, ViewersOf DEF Finished, Results
    <3>3. QED BY <2>1, <3>2 DEF Promise!Authorize, Promise!Next
  <2>5. QED BY <2>3, <2>4
<1>8. QED BY <1>2, <1>3, <1>4, <1>5, <1>6, <1>7 DEF CallStep, Begin, Lock, ReadState, Look, Abandon

\* So does everything else.
LEMMA RestKeeps ==
  ASSUME IInv, IInv',
         \/ \E u \in Users : Subscribe(u) \/ Unsubscribe(u)
         \/ \E q \in Requests : Deny(q)
         \/ Discover \/ Cancel \/ WorkerStep
  PROVE  Promise!Next \/ UNCHANGED Promise!consent
<1>1. job \in Job /\ requests \in [Requests -> Asked] /\ meeting \in Meeting
  BY DEF IInv, TypeOK
<1>2. ASSUME NEW u \in Users, Subscribe(u)
      PROVE  Promise!Next \/ UNCHANGED Promise!consent
  <2>1. job' = job /\ UNCHANGED <<requests, Viewers, Finished>>
    BY <1>2, ViewersOf DEF Subscribe
  <2>2. CASE u = Owner
    <3>1. Consents' = TRUE
      BY <1>2, <2>2 DEF Subscribe, Consents
    <3>2. Promise!OptIn
      BY <2>1, <3>1 DEF Promise!OptIn
    <3>3. QED BY <3>2 DEF Promise!Next
  <2>3. CASE u # Owner
    <3>1. Consents' <=> Consents
      BY <1>2, <2>3 DEF Subscribe, Consents
    <3>2. QED BY <2>1, <3>1, PromiseSleeps
  <2>4. QED BY <2>2, <2>3
<1>3. ASSUME NEW u \in Users, Unsubscribe(u)
      PROVE  Promise!Next \/ UNCHANGED Promise!consent
  <2>1. /\ UNCHANGED <<requests, Viewers, Finished>> /\ subscribed' = subscribed \ {u}
        /\ job' = Stopped(u)
    BY <1>3, ViewersOf DEF Unsubscribe
  <2>2. CASE u = Owner
    <3>1. Consents' = FALSE
      BY <2>1, <2>2 DEF Consents
    <3>2. job'.status = IF job.status \in {"unauthorized", "pending"} THEN "ended" ELSE job.status
      BY <1>1, <2>1, <2>2 DEF Stopped, Pending, Job
    <3>3. Promise!OptOut
      BY <2>1, <3>1, <3>2 DEF Promise!OptOut, Promise!Waiting
    <3>4. QED BY <3>3 DEF Promise!Next
  <2>3. CASE u # Owner
    <3>1. job' = job /\ (Consents' <=> Consents)
      BY <2>1, <2>3 DEF Stopped, Consents
    <3>2. QED BY <2>1, <3>1, PromiseSleeps
  <2>4. QED BY <2>2, <2>3
<1>4. ASSUME NEW q \in Requests, Deny(q)
      PROVE  Promise!Next
  <2>1. job' = job /\ UNCHANGED <<Viewers, Finished>> /\ (Consents' <=> Consents)
    BY <1>4, ViewersOf DEF Deny, Consents
  <2>2. Promise!Deny(q)
    BY <1>4, <2>1 DEF Deny, Promise!Deny
  <2>3. QED BY <2>2 DEF Promise!Next
<1>5. CASE Discover \/ Save
  <2>1. UNCHANGED requests /\ job' = job /\ (Consents' <=> Consents)
    BY <1>5 DEF Discover, Save, Consents
  <2>2. meeting' = meeting \/ (meeting.state # "done" /\ meeting'.state = "extracting")
    BY <1>1, <1>5 DEF Discover, Save, Meeting
  <2>3. UNCHANGED <<Viewers, Finished>>
    BY <2>2, ViewersOf DEF Finished
  <2>4. QED BY <2>1, <2>3, PromiseSleeps
<1>6. CASE Start \/ (Skip /\ job.status = "pending")
  <2>1. /\ job.status = "pending" /\ job'.status = "processing" /\ UNCHANGED requests
        /\ Consents' = Consents
    BY <1>1, <1>6 DEF Start, Skip, Job, Consents
  <2>2. meeting' = meeting \/ (meeting.state # "done" /\ meeting'.state # "done")
    BY <1>1, <1>6 DEF Start, Skip, Meeting
  <2>3. UNCHANGED <<Viewers, Finished>>
    BY <2>2, ViewersOf DEF Finished
  <2>4. Promise!Start
    BY <2>1, <2>3 DEF Promise!Start
  <2>5. QED BY <2>4 DEF Promise!Next
<1>7. CASE Cancel \/ Fail
  <2>1. /\ job.status \in {"unauthorized", "pending", "processing"} /\ job'.status = "ended"
        /\ UNCHANGED requests /\ Consents' = Consents
    BY <1>1, <1>7 DEF Cancel, Fail, Pending, Job, Consents
  <2>2. meeting' = meeting \/ (meeting.state # "done" /\ meeting'.state # "done")
    BY <1>1, <1>7 DEF Cancel, Fail, CancelledMeeting, Meeting
  <2>3. UNCHANGED <<Viewers, Finished>>
    BY <2>2, ViewersOf DEF Finished
  <2>4. job.status \in {"unauthorized", "pending"} \/ job.status = "processing"
    BY <2>1
  <2>5. Promise!Stop
    BY <2>1, <2>3, <2>4 DEF Promise!Stop, Promise!Waiting
  <2>6. QED BY <2>5 DEF Promise!Next
<1>8. CASE Skip /\ job.status # "pending"
  <2>1. /\ job.status = "processing" /\ job'.status = "completed" /\ meeting' = meeting
        /\ UNCHANGED requests /\ Consents' = Consents /\ Finished
    BY <1>1, <1>8 DEF Skip, Job, Consents, Finished
  <2>2. UNCHANGED <<Viewers, Finished>>
    BY <2>1, ViewersOf
  <2>3. Promise!Finish
    BY <2>1, <2>2 DEF Promise!Finish
  <2>4. QED BY <2>3 DEF Promise!Next
<1>9. ASSUME NEW m \in {"none", "same", "other"}, Publish(m)
      PROVE  Promise!Next
  <2>1. /\ job.status = "processing" /\ job'.status = "completed" /\ UNCHANGED requests
        /\ Consents' = Consents /\ ~Finished /\ Finished' = TRUE
    BY <1>1, <1>9 DEF Publish, Job, Consents, Finished, Meeting
  <2>2. ASSUME NEW q \in Requests, requests[q].status = "approved"
        PROVE  requests[q].by \in Viewers'
    <3>1. requests[q].by \in Users /\ Rebound
      BY <2>2 DEF IInv, AskedBySomebody, Rebound
    <3>2. meeting'.state = "done" /\ meeting'.json.bound /\ meeting'.seen = Users
      BY <1>1, <1>9, <3>1 DEF Publish, Meeting
    <3>3. QED BY <3>1, <3>2 DEF Viewers, SeesResult
  <2>3. Viewers' \in SUBSET Users
    BY ViewersOf
  <2>4. Promise!Finish
    BY <2>1, <2>2, <2>3 DEF Promise!Finish
  <2>5. QED BY <2>4 DEF Promise!Next
<1>10. QED BY <1>2, <1>3, <1>4, <1>5, <1>6, <1>7, <1>8, <1>9 DEF WorkerStep

\* For any number of users, calls and requests the handlers, with their locks, their reads
\* before Graph and before they queue, and the worker's own copy of the meeting, do what
\* OwnersDecision does.
THEOREM PromiseIsKept == Spec => ImplementsPromise
<1>1. Init => Promise!Init
  BY DEF Init, Promise!Init, Consents, Finished, Viewers, SeesResult, NoJob, NoMeeting, Unasked
<1>2. IInv /\ IInv' /\ Results /\ Askers /\ [Next]_vars => [Promise!Next]_(Promise!consent)
  <2> SUFFICES ASSUME IInv, IInv', Results, Askers, [Next]_vars
               PROVE  Promise!Next \/ UNCHANGED Promise!consent
    OBVIOUS
  <2>1. CASE UNCHANGED vars
    <3>1. UNCHANGED <<requests, Viewers, Finished>> /\ job' = job /\ (Consents' <=> Consents)
      BY <2>1, ViewersOf DEF vars, Consents
    <3>2. QED BY <3>1, PromiseSleeps
  <2>2. CASE Next
    BY <2>2, CallKeeps, RestKeeps DEF Next
  <2>3. QED BY <2>1, <2>2
<1>3. QED BY <1>1, <1>2, PromiseRests, PTL DEF Spec, ImplementsPromise, Promise!Spec
=============================================================================
