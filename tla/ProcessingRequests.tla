-------------------------- MODULE ProcessingRequests --------------------------
(***************************************************************************)
(* Requests to process a recording found in somebody else's OneDrive: an   *)
(* invited user asks, the recording's owner or an administrator decides,   *)
(* and an approval queues the recording and binds its meeting to the       *)
(* Calendar occurrence.                                                    *)
(*                                                                         *)
(* One recording of one occurrence, to which all the users are invited.    *)
(* A call reads the caller's account when it authenticates, locks the      *)
(* account (and the request it decides), asks Graph, reads the rows of the *)
(* recording without a lock and commits; imports, retries and              *)
(* notifications of Graph read without any lock.  Every step may meet any  *)
(* other call, the owner opting out, and the worker with its own copy of   *)
(* the meeting.  A call that is refused, or that Graph fails, changes      *)
(* nothing.                                                                *)
(***************************************************************************)
EXTENDS Naturals, FiniteSets

CONSTANTS
  Users,      (* registered users, all of them invited to the occurrence   *)
  Owner,      (* the user whose OneDrive holds the recording               *)
  Admins,     (* administrators                                            *)
  Calls,      (* concurrent HTTP requests                                  *)
  Requests,   (* pool of processing requests; its size bounds asking       *)
  Nobody      (* stands for NULL: no user, no request                      *)

ASSUME OwnerIsUser == Owner \in Users
ASSUME AdminsAreUsers == Admins \subseteq Users
ASSUME NobodyIsNone == Nobody \notin Users \cup Requests

VARIABLES
  subscribed, (* registered_users.is_subscribed                            *)
  requests,   (* recording_processing_requests                             *)
  ledger,     (* processed_items holds the recording                       *)
  job,        (* the recording's latest row of recording_jobs              *)
  meeting,    (* the recording's meeting and its participants              *)
  copy,       (* extracted_json as the worker's session loaded it          *)
  call        (* where each HTTP request is, and what it has read          *)

vars == <<subscribed, requests, ledger, job, meeting, copy, call>>
rows == <<subscribed, requests, ledger, job, meeting, copy>>

\* late: approved when the result was already there.
Asked == [status : {"absent", "pending", "approved", "denied"}, by : Users \cup {Nobody},
          late : BOOLEAN]
Unasked == [status |-> "absent", by |-> Nobody, late |-> FALSE]
Live == {"pending", "approved"}

\* A pending job without an authorization is "unauthorized"; "ended" stands for failed and
\* cancelled.  late, of a pending job: queued by a call that was under way when the owner opted out,
\* or by an administrator's retry; quiet: ended, or given a meeting, without the meeting knowing;
\* before: this row of the recording or an earlier one has ended, and may be retried.
Job == [status : {"none", "unauthorized", "pending", "processing", "completed", "ended"},
        late : BOOLEAN, quiet : BOOLEAN, before : BOOLEAN]
NoJob == [status |-> "none", late |-> FALSE, quiet |-> FALSE, before |-> FALSE]

\* A new row.
Queued(status, late) == [job EXCEPT !.status = status, !.late = late, !.quiet = FALSE]

\* extracted_json: bound to the occurrence by a verified Calendar event, and the result.
Extracted == [bound : BOOLEAN, result : BOOLEAN]
Blank == [bound |-> FALSE, result |-> FALSE]

\* same: title, time and organizer are those of the occurrence; "failed" stands for
\* failed and cancelled, "done" for awaiting_review, approved and sent.
States == {"none", "queued", "transcribing", "extracting", "done", "failed"}
Meeting == [state : States, json : Extracted, text : BOOLEAN, same : BOOLEAN,
            seen : SUBSET Users]
NoMeeting == [state |-> "none", json |-> Blank, text |-> FALSE, same |-> FALSE, seen |-> {}]

\* What a call reads of the recording: that nothing has claimed it, that it has no meeting, one
\* that is not done ("open") or one that is, and the result in the metadata.
Snapshot == [state : {"unclaimed", "none", "open", "done"}, result : BOOLEAN]
NoSnapshot == [state |-> "none", result |-> FALSE]

\* "notify" is a change notification of Graph: by is then the subscriber found for the drive.
Ops == {"create", "process", "approve", "import", "retry", "notify"}
\* What may still queue a job after its owner opted out.
Unfenced == {"approve", "import", "retry", "notify"}
\* "looked": an import or a retry has read its rows and holds no lock.
Call == [at : {"idle", "start", "locked", "read", "looked"}, op : Ops \cup {"none"},
         by : Users \cup {Nobody}, of : Requests \cup {Nobody}, sub : BOOLEAN,
         overtaken : BOOLEAN, saw : Snapshot]
Started(op, u, q, sub) ==
  [at |-> "start", op |-> op, by |-> u, of |-> q, sub |-> sub, overtaken |-> FALSE,
   saw |-> NoSnapshot]
Idle == [Started("none", Nobody, Nobody, FALSE) EXCEPT !.at = "idle"]

\* The account row a call locks FOR UPDATE until it commits.
Holds(c, u) == call[c].at \in {"locked", "read"} /\ call[c].by = u

\* Mutant: the requester's account is read without FOR UPDATE.
UserFree_Unlocked(u) == u \in Users

UserFree(u) == \A c \in Calls : ~Holds(c, u)

\* Mutant: the request is read without FOR UPDATE.
RequestFree_Unlocked(q) == q \in Requests

RequestFree(q) == \A c \in Calls :
  ~(call[c].at \in {"locked", "read"} /\ call[c].op = "approve" /\ call[c].of = q)

Pending == job.status \in {"unauthorized", "pending"}
Active == Pending \/ job.status = "processing"

\* visible_result: the meeting is found by its binding or by its labels.
SeesResult(u) == meeting.state = "done" /\ u \in meeting.seen
                   /\ (meeting.json.bound \/ meeting.same)

\* The request that blocks another one of the same user for the occurrence.
LiveOf(u) == {q \in Requests : requests[q].status \in Live /\ requests[q].by = u}

Init ==
  /\ subscribed = {}
  /\ requests = [q \in Requests |-> Unasked]
  /\ ledger = FALSE /\ job = NoJob /\ meeting = NoMeeting /\ copy = Blank
  /\ call = [c \in Calls |-> Idle]

-----------------------------------------------------------------------------
(* Accounts.                                                               *)

Subscribe(u) ==
  /\ u \notin subscribed /\ UserFree(u)
  /\ subscribed' = subscribed \cup {u}
  /\ UNCHANGED <<requests, ledger, job, meeting, copy, call>>

\* Mutant: opting out leaves the pending jobs.
Stopped_Ignored(u) == job

\* The jobs opting out cancels; their meetings are left alone.
Stopped(u) == IF u = Owner /\ Pending
              THEN [job EXCEPT !.status = "ended", !.late = FALSE, !.quiet = TRUE, !.before = TRUE]
              ELSE job

Unsubscribe(u) ==
  /\ u \in subscribed /\ UserFree(u)
  /\ subscribed' = subscribed \ {u}
  /\ job' = Stopped(u)
  /\ call' = [c \in Calls |->
       [call[c] EXCEPT !.overtaken = @ \/ (u = Owner /\ call[c].op \in Unfenced)]]
  /\ UNCHANGED <<requests, ledger, meeting, copy>>

-----------------------------------------------------------------------------
(* The steps calls share.                                                  *)

\* Who gets anywhere: subscribed users, who ask for the recording unless it is theirs, and
\* those who may decide or retry.  Others are refused without an effect.
Admits(op, u) ==
  CASE op = "create" -> u # Owner /\ u \in subscribed
    [] op \in {"process", "import", "notify"} -> u = Owner /\ u \in subscribed
    [] op = "approve" -> u = Owner \/ u \in Admins
    [] op = "retry" -> (u = Owner /\ u \in subscribed) \/ u \in Admins

\* The session keeps the account as it is now: a later SELECT FOR UPDATE locks the row
\* but does not refresh the object, which an approval looks at again.
Begin(c, op, u, q) ==
  /\ call[c].at = "idle" /\ Admits(op, u)
  /\ IF op = "approve" THEN q \in Requests /\ requests[q].status = "pending"
     ELSE q = Nobody
  /\ call' = [call EXCEPT ![c] = Started(op, u, q, op = "approve" /\ u \in subscribed)]
  /\ UNCHANGED rows

Ended(c) == [call EXCEPT ![c] = Idle]

\* A refusal, a Graph error, a crash, or the answer to a repeated decision.
Abandon(c) ==
  /\ call[c].at # "idle"
  /\ call' = Ended(c)
  /\ UNCHANGED rows

\* An account as the call's session has it: its own is the one it authenticated with.
Subscribed(c, u) == IF u = call[c].by THEN call[c].sub ELSE u \in subscribed

MayAsk(u) == ~SeesResult(u) /\ LiveOf(u) = {}

\* Mutant: the owner's own Process trusts the subscription it was admitted with.
Discovers_Early(c) == call[c].op = "create" => Owner \in subscribed

\* discover selects the subscribed owners anew.
Discovers(c) == Owner \in subscribed

\* The checks made under the locks, before the recording is looked for and verified in Graph.
Checks(c) ==
  LET u == call[c].by  q == call[c].of IN
  CASE call[c].op = "create" -> MayAsk(u) /\ Discovers(c)
    [] call[c].op = "process" -> ~SeesResult(u) /\ Discovers(c)
    [] call[c].op = "approve" -> /\ RequestFree(q) /\ requests[q].status = "pending"
                                 /\ Subscribed(c, Owner) /\ Subscribed(c, requests[q].by)
    [] OTHER -> FALSE

Lock(c) ==
  /\ call[c].at = "start" /\ UserFree(call[c].by) /\ Checks(c)
  /\ call' = [call EXCEPT ![c].at = "locked"]
  /\ UNCHANGED rows

\* An administrator may not approve what has a transcription or a result already.
AdminMayQueue == ~meeting.text /\ meeting.state # "done" /\ job.status # "completed"

\* What may be asked for: nothing was done with the recording.
Untouched == ~ledger /\ job.status = "none" /\ meeting.state = "none"

\* What may be queued or bound: a recording with work under way or a result, or an unclaimed one.
MayQueue == (meeting.state # "none" => ledger) /\ (meeting.state = "done" \/ Active \/ ~ledger)

Read == [result |-> meeting.json.result,
         state |-> IF ~ledger THEN "unclaimed"
                   ELSE IF meeting.state \in {"none", "done"} THEN meeting.state ELSE "open"]

\* recording_state, read without a lock after the last Graph request.
ReadState(c) ==
  /\ call[c].at = "locked"
  /\ CASE call[c].op = "create" -> Untouched
       [] call[c].op = "approve" -> MayQueue /\ (call[c].by # Owner => AdminMayQueue)
       [] OTHER -> MayQueue
  /\ call' = [call EXCEPT ![c].at = "read", ![c].saw = Read]
  /\ UNCHANGED rows

-----------------------------------------------------------------------------
(* Asking and denying.                                                     *)

\* The owner may have opted out, and the recording been queued, since they were read.
Create(c, q) ==
  LET u == call[c].by IN
  /\ call[c].at = "read" /\ call[c].op = "create"
  /\ requests[q].status = "absent"
  /\ \A r \in Requests : ~(requests[r].status = "pending" /\ requests[r].by = u)
  /\ requests' = [requests EXCEPT ![q] = [status |-> "pending", by |-> u, late |-> FALSE]]
  /\ call' = Ended(c)
  /\ UNCHANGED <<subscribed, ledger, job, meeting, copy>>

Deny(q) ==
  /\ requests[q].status = "pending" /\ RequestFree(q)
  /\ \E u \in Users : (u = Owner \/ u \in Admins) /\ UserFree(u)
  /\ requests' = [requests EXCEPT ![q].status = "denied"]
  /\ UNCHANGED <<subscribed, ledger, job, meeting, copy, call>>

-----------------------------------------------------------------------------
(* Queueing a verified recording: queue_verified.                          *)

\* The result was there: neither its transcription nor its metadata is replaced.
Kept(s) == s.state = "done"

\* What had work under way goes on as it is.
NeedsJob(s) == s.state = "unclaimed"

NeedsMeeting(s) == s.state \in {"unclaimed", "none"}

\* Mutant: the job is queued without claiming the recording.
Claimed_Unless(s) == ledger

Claimed(s) == ledger \/ NeedsJob(s)

\* The metadata, rewritten from the copy the call read, and the invited users' rows.
Rewritten(s) == [meeting EXCEPT !.state = IF NeedsMeeting(s) THEN "queued" ELSE @,
                                !.json = [bound |-> TRUE, result |-> s.result],
                                !.same = TRUE, !.seen = Users]

\* Mutant: a meeting with a result is bound like any other.
Bound_Always(c, s) == Rewritten(s)

\* With a result there, the approved requester gets a row and nothing else changes.
Bound(c, s) ==
  IF ~Kept(s) THEN Rewritten(s)
  ELSE IF call[c].op = "approve"
       THEN [meeting EXCEPT !.seen = @ \cup {requests[call[c].of].by}] ELSE meeting

\* The call's own commit: the ledger's key and the meeting's make it fail when another
\* call or the worker was faster.  A new job carries no authorization.
Queue(c) ==
  LET s == call[c].saw IN
  /\ call[c].at = "read" /\ call[c].op # "create"
  /\ NeedsJob(s) => ~ledger
  /\ NeedsMeeting(s) => meeting.state = "none"
  /\ ledger' = Claimed(s)
  /\ job' = IF NeedsJob(s)
            THEN Queued("unauthorized", call[c].overtaken)
            ELSE [job EXCEPT !.quiet = @ \/ (NeedsMeeting(s) /\ ~Active)]
  /\ meeting' = Bound(c, s)
  /\ requests' = IF call[c].op = "approve"
                 THEN [requests EXCEPT ![call[c].of].status = "approved",
                                       ![call[c].of].late = (s.state = "done")]
                 ELSE requests
  /\ call' = Ended(c)
  /\ UNCHANGED <<subscribed, copy>>

-----------------------------------------------------------------------------
(* The other ways to a job.  Discovery only claims the file.               *)

Discover ==
  /\ ~ledger
  /\ ledger' = TRUE
  /\ UNCHANGED <<subscribed, requests, job, meeting, copy, call>>

\* enqueue_recording_job for an import, which authorizes, or a notification, which does not: the
\* ledger's key refuses the second of two.
Claim(c) ==
  /\ call[c].at = "start" /\ call[c].op \in {"import", "notify"}
  /\ ~ledger
  /\ ledger' = TRUE
  /\ job' = Queued(IF call[c].op = "import" THEN "pending" ELSE "unauthorized", call[c].overtaken)
  /\ call' = Ended(c)
  /\ UNCHANGED <<subscribed, requests, meeting, copy>>

\* What an import of a claimed file and a retry check before they enqueue_retry_job.
Look(c) ==
  /\ call[c].at = "start"
  /\ \/ call[c].op = "import" /\ ledger /\ job.status = "none"
     \/ call[c].op = "retry" /\ job.before /\ meeting.state # "done"
  /\ call' = [call EXCEPT ![c].at = "looked", ![c].saw.state =
       IF call[c].op = "import" \/ meeting.state \in {"none", "queued"} THEN "none" ELSE "open"]
  /\ UNCHANGED rows

\* A retry writes the state of the meeting it read, unless there was none or it was queued, and
\* takes a result that has come meanwhile out of sight; it refuses only to be the second active job.
Requeue(c) ==
  /\ call[c].at = "looked" /\ ~Active
  /\ job' = Queued("pending", call[c].overtaken \/ (call[c].op = "retry" /\ call[c].by \in Admins))
  /\ meeting' = IF call[c].op = "retry" /\ call[c].saw.state = "open"
                THEN [meeting EXCEPT !.state = "queued"] ELSE meeting
  /\ call' = Ended(c)
  /\ UNCHANGED <<subscribed, requests, ledger, copy>>

\* Mutant: cancelling a pending job leaves its meeting queued.
CancelledMeeting_Forgotten == meeting.state

CancelledMeeting == IF meeting.state \in {"none", "done"} THEN meeting.state ELSE "failed"

Cancel ==
  /\ Pending
  /\ job' = [job EXCEPT !.status = "ended", !.late = FALSE, !.before = TRUE]
  /\ meeting' = [meeting EXCEPT !.state = CancelledMeeting]
  /\ UNCHANGED <<subscribed, requests, ledger, copy, call>>

-----------------------------------------------------------------------------
(* The worker, as far as it shares the meeting with these calls.           *)

\* It claims authorized jobs only, and keeps the meeting it loads to the end.  A transcript
\* kept from an earlier attempt is used again.
Start ==
  /\ job.status = "pending" /\ meeting.state # "done"
  /\ job' = [job EXCEPT !.status = "processing", !.late = FALSE]
  /\ meeting' = [meeting EXCEPT !.state = IF meeting.text THEN @ ELSE "transcribing",
                                !.seen = @ \cup {Owner}]
  /\ copy' = meeting.json
  /\ UNCHANGED <<subscribed, requests, ledger, call>>

\* A finished meeting is left alone and the job completed.
Skip ==
  /\ meeting.state = "done"
  /\ \/ job.status = "pending" /\ job' = [job EXCEPT !.status = "processing", !.late = FALSE]
     \/ job.status = "processing" /\ job' = [job EXCEPT !.status = "completed"]
  /\ UNCHANGED <<subscribed, requests, ledger, meeting, copy, call>>

\* The transcript is committed with the metadata the worker had loaded.
Save ==
  /\ job.status = "processing" /\ meeting.state \notin {"extracting", "done"}
  /\ meeting' = [meeting EXCEPT !.state = "extracting", !.text = TRUE, !.json = copy]
  /\ UNCHANGED <<subscribed, requests, ledger, job, copy, call>>

\* Mutant: the worker does not look for a request approved meanwhile.
Rebound_Never == copy.bound

\* An approval commits before the worker has the row, or waits for its last commit.
Rebound == copy.bound \/ \E q \in Requests : requests[q].status = "approved"

\* enrich_recording_from_outlook: a binding stands; without one the file may match the
\* occurrence, another event, or none.
Enriched(match) == Rebound \/ match = "same" \/ (match = "none" /\ meeting.same)

Publish(match) ==
  /\ job.status = "processing" /\ meeting.state = "extracting"
  /\ job' = [job EXCEPT !.status = "completed"]
  /\ meeting' = [meeting EXCEPT
       !.state = "done", !.json = [bound |-> Rebound, result |-> TRUE],
       !.same = Enriched(match),
       !.seen = IF Rebound \/ match = "same" THEN Users ELSE @]
  /\ copy' = Blank
  /\ UNCHANGED <<subscribed, requests, ledger, call>>

Fail ==
  /\ job.status = "processing"
  /\ job' = [job EXCEPT !.status = "ended", !.before = TRUE]
  /\ meeting' = [meeting EXCEPT !.state = CancelledMeeting]
  /\ copy' = Blank
  /\ UNCHANGED <<subscribed, requests, ledger, call>>

-----------------------------------------------------------------------------

CallStep(c) ==
  \/ \E op \in Ops, u \in Users, q \in Requests \cup {Nobody} :
       Begin(c, op, u, q)
  \/ Lock(c) \/ \E q \in Requests : Create(c, q)
  \/ ReadState(c) \/ Queue(c) \/ Claim(c) \/ Look(c) \/ Requeue(c) \/ Abandon(c)

WorkerStep ==
  Start \/ Skip \/ Save \/ (\E m \in {"none", "same", "other"} : Publish(m)) \/ Fail

Next ==
  \/ \E c \in Calls : CallStep(c)
  \/ \E u \in Users : Subscribe(u) \/ Unsubscribe(u)
  \/ \E q \in Requests : Deny(q)
  \/ Discover \/ Cancel \/ WorkerStep

Spec == Init /\ [][Next]_vars

-----------------------------------------------------------------------------
(* Properties.                                                             *)

\* Types, and what recording_state relies on: whatever has a job or a meeting is claimed.
TypeOK ==
  /\ subscribed \subseteq Users
  /\ requests \in [Requests -> Asked]
  /\ ledger \in BOOLEAN
  /\ job \in Job /\ meeting \in Meeting /\ copy \in Extracted
  /\ call \in [Calls -> Call]
  /\ job.status # "none" \/ meeting.state # "none" => ledger

\* A decision stands: no repeated, opposite or concurrent decision of the owner or an
\* administrator changes a request that was decided (cross_user_recordings.py:508-514).
DecidedOnce ==
  [][\A q \in Requests : requests[q].status \in {"approved", "denied"} =>
       requests'[q] = requests[q]]_vars

\* The card of the occurrence on the page of recent meetings (recent_states).
Card(u) ==
  IF SeesResult(u) THEN "view"
  ELSE IF \E q \in LiveOf(u) : requests[q].status = "pending" THEN "request_pending"
  ELSE IF LiveOf(u) # {} THEN "processing" ELSE "no_recording"

\* A user whose request was approved while there was no result is shown the meeting once
\* it is processed: the worker, which rewrites the metadata from its own copy and may
\* match the file to another event, does not lose the approved binding (steps.py:480-491).
ApprovedIsShown ==
  meeting.state = "done" =>
    \A q \in Requests : requests[q].status = "approved" /\ ~requests[q].late =>
      Card(requests[q].by) = "view"

\* The metadata and labels of a finished result are replaced only by a call that had read
\* the meeting before it was finished ("No transcription or review metadata replacement",
\* queue_verified, cross_user_recordings.py:476-477), or once a retry that had read it so has
\* taken it back to the queue.
ResultKept ==
  [][meeting.state = "done" /\ <<meeting'.json, meeting'.same>> # <<meeting.json, meeting.same>>
       => \E c \in Calls : call[c].at = "read" /\ call[c].saw.state # "done"
                          /\ call'[c].at = "idle"]_vars

\* Nothing is pending for an owner who opted out ("Stop all future background ...
\* processing", users.py:128), unless a call or notification that was then under way, other than
\* the owner's own Process, or an administrator's retry queued it.
OptOutStops == Pending /\ Owner \notin subscribed => job.late

\* A meeting shown as queued has an active job, unless the owner opted out or the job
\* ended before the approval that waited on it created the meeting.
QueuedHasWork == meeting.state = "queued" /\ ~Active => job.quiet

\* The calls, accounts and copies implement what is promised to the owner and those who ask:
\* one live request a user (cross_user_recordings.py:419, "request_exists"), decisions in one
\* step with their effect, nothing processed for an approval or a notification alone, and viewers
\* who stay unless a retry takes the result from all of them.
Consents == Owner \in subscribed
Finished == meeting.state = "done"
Viewers == {u \in Users : SeesResult(u)}
Promise == INSTANCE OwnersDecision WITH
  consents <- Consents, asked <- requests, work <- job.status, ready <- Finished,
  viewers <- Viewers

ImplementsPromise == Promise!Spec
=============================================================================
