------------------------------ MODULE QueueApi ------------------------------
(***************************************************************************)
(* What the HTTP handlers and the discovery jobs do to the recording       *)
(* queue: new recordings, imports, retries, reprocesses, cancellations,    *)
(* cleanup, unsubscription, and the reviewers of the finished draft.       *)
(*                                                                         *)
(* A handler that decides from rows it holds locked, or by one statement,  *)
(* is one action.  A request for a further job of a known recording is     *)
(* not: it looks for jobs in the way (Blocked) in one statement and        *)
(* inserts in another (Enqueue), with no lock on the recording's jobs, and *)
(* a retry reads the meeting without a lock before that (RetryRead).       *)
(* Answers that change nothing (4xx, idempotent repeats) are stuttering    *)
(* steps.                                                                  *)
(***************************************************************************)
EXTENDS JobRows

\* controlled_job holds the row of the failed job until the request is concluded.
RowLocked(j) == \E h \in Handlers : request[h].old = j

-----------------------------------------------------------------------------
(* New recordings.                                                         *)

\* A Graph notification: the job carries nobody's authorization, so no worker claims it.
Webhook(j) ==
  /\ EnqueueRecording(j, FALSE)
  /\ UNCHANGED <<meeting, transcript, draft, lock, worker, request, posts>>

\* Reconciliation records the file and leaves processing to an explicit selection.
Reconcile(i) ==
  /\ ~ledger[i]
  /\ ledger' = [ledger EXCEPT ![i] = TRUE]
  /\ UNCHANGED <<job, meeting, transcript, draft, lock, worker, request, posts>>

\* queue_verified, the owner's approval of a processing request: the job is queued, again
\* without an authorization, and the meeting row is created at once.
QueueVerified(j) ==
  /\ EnqueueRecording(j, FALSE)
  /\ meeting' = [meeting EXCEPT ![ItemOf[j]] = IF @ = "none" THEN "queued" ELSE @]
  /\ UNCHANGED <<transcript, draft, lock, worker, request, posts>>

\* The same approval when it had read an active job, which may have ended since.
AttachMeeting(i) ==
  /\ Inserted(i) # {} /\ meeting[i] = "none"
  /\ meeting' = [meeting EXCEPT ![i] = "queued"]
  /\ UNCHANGED <<job, ledger, transcript, draft, lock, worker, request, posts>>

\* The user selects a recording that is not in the ledger.
Import(j) ==
  /\ EnqueueRecording(j, TRUE)
  /\ UNCHANGED <<meeting, transcript, draft, lock, worker, request, posts>>

-----------------------------------------------------------------------------
(* Further jobs: import again, retry, reprocess.                           *)

\* The mark of a request that found nothing in the way.
Checked(r) == [r EXCEPT !.step = "checked", !.known = Inserted(r.item)]

\* The user selects a recording of the ledger, for which no job row exists.  The two
\* queries that say so are one step: what they could miss between them, the wait for the
\* insert lets pass as well.
ImportAgain(h, i) ==
  /\ request[h] = NoRequest
  /\ ledger[i] /\ \A j \in JobsOf(i) : ~Exists(j)
  /\ request' = [request EXCEPT ![h] = Checked([@ EXCEPT !.item = i])]
  /\ UNCHANGED <<rows, lock, worker, posts>>

\* The provider states in which this very job may not be retried.
MayRetry(j) ==
  /\ job[j].status \in RetryableStatuses
  /\ job[j].provider \notin UnresolvedProviders \cup {"completed"}

\* A retried reprocess is a reprocess again.
RetrySource(j) == IF job[j].source = "manual_reprocess" THEN job[j].source ELSE "manual_retry"

RetryRead(h, j) ==
  LET i == ItemOf[j] IN
  /\ request[h] = NoRequest /\ ~RowLocked(j)
  /\ MayRetry(j)
  /\ meeting[i] \in ReviewStates => job[j].source = "manual_reprocess" /\ Clean(i)
  /\ request' = [request EXCEPT ![h] =
                   [@ EXCEPT !.step = "read", !.item = i, !.old = j,
                             !.source = RetrySource(j), !.saw = meeting[i]]]
  /\ UNCHANGED <<rows, lock, worker, posts>>

\* The query, with the write of the meeting flushed ahead of it.
RetryCheck(h) ==
  /\ request[h].step = "read" /\ ~Blocked(request[h].item)
  /\ Requeues(request[h]) => MeetingFree(request[h].item)
  /\ request' = [request EXCEPT ![h] = Checked(@)]
  /\ UNCHANGED <<rows, lock, worker, posts>>

\* _queue_reprocess holds the meeting row locked from its checks to its commit.
Reprocess(h, i) ==
  /\ request[h] = NoRequest
  /\ ledger[i] /\ Clean(i) /\ MeetingFree(i)
  /\ \E j \in JobsOf(i) : job[j].status = "completed"
  /\ ~Blocked(i)
  /\ request' = [request EXCEPT ![h] =
                   Checked([@ EXCEPT !.item = i, !.source = "manual_reprocess"])]
  /\ UNCHANGED <<rows, lock, worker, posts>>

\* The insert and the commit, with the meeting write of a retry.
Enqueue(h, j) ==
  LET i == ItemOf[j] IN
  /\ request[h].step = "checked" /\ request[h].item = i
  /\ EnqueueRetry(j, request[h].source, request[h].known)
  /\ meeting' = [meeting EXCEPT ![i] = IF Requeues(request[h]) THEN "queued" ELSE @]
  /\ request' = [request EXCEPT ![h] = NoRequest]
  /\ UNCHANGED <<ledger, transcript, draft, lock, worker, posts>>

\* 409, everything rolled back; also the client giving up.
RequestRefused(h) ==
  /\ request[h] # NoRequest
  /\ request' = [request EXCEPT ![h] = NoRequest]
  /\ UNCHANGED <<rows, lock, worker, posts>>

-----------------------------------------------------------------------------
(* Cancelling and cleaning up.                                             *)

\* A pending job is cancelled at once; a running one is asked to stop.
Cancel(j) ==
  /\ \/ /\ job[j].status = "pending"
        /\ job' = [job EXCEPT ![j] = CancelledRow([@ EXCEPT !.cancel = TRUE])]
        /\ IF meeting[ItemOf[j]] \in ReviewStates \cup {"none"}
           THEN UNCHANGED meeting
           ELSE /\ MeetingFree(ItemOf[j])
                /\ meeting' = [meeting EXCEPT ![ItemOf[j]] = "cancelled"]
     \/ /\ job[j].status = "processing" /\ ~job[j].cancel
        /\ job' = [job EXCEPT ![j].cancel = TRUE]
        /\ UNCHANGED meeting
  /\ UNCHANGED <<ledger, transcript, draft, lock, worker, request, posts>>

\* The owner opts out: pending jobs are cancelled, their meetings stay as they are.
Withdrawn(o, j) == OwnerOf[ItemOf[j]] = o /\ job[j].status = "pending"
Unsubscribe(o) ==
  /\ \E j \in Jobs : Withdrawn(o, j)
  /\ job' = [j \in Jobs |-> IF Withdrawn(o, j)
                            THEN CancelledRow([job[j] EXCEPT !.cancel = TRUE]) ELSE job[j]]
  /\ UNCHANGED <<ledger, meeting, transcript, draft, lock, worker, request, posts>>

\* cleanup_job removes a finished row; a retry holding the row makes it wait.  The other
\* columns stay in the model for a late worker that has the row in memory.
Cleanup(admin, j) ==
  /\ job[j].status \in RetryableStatuses /\ ~RowLocked(j)
  /\ job' = [job EXCEPT ![j].status = "deleted"]
  /\ UNCHANGED <<ledger, meeting, transcript, draft, lock, worker, request, posts>>

-----------------------------------------------------------------------------
(* The reviewers of the finished draft: all of them write the meeting's    *)
(* row or hold it locked.                                                  *)

\* An action item, the transcript or the speaker names.
EditDraft(i) ==
  /\ MeetingFree(i) /\ meeting[i] = "awaiting_review" /\ ~draft[i].dirty
  /\ draft' = [draft EXCEPT ![i].dirty = TRUE]
  /\ UNCHANGED <<job, ledger, meeting, transcript, lock, worker, request, posts>>

\* Saving decisions changes the fingerprint of the draft but not its cleanliness.
SaveDecisions(i) ==
  /\ MeetingFree(i) /\ meeting[i] = "awaiting_review" /\ draft[i].saves < MaxSaves
  /\ draft' = [draft EXCEPT ![i].saves = @ + 1]
  /\ UNCHANGED <<job, ledger, meeting, transcript, lock, worker, request, posts>>

Approve(i) ==
  /\ MeetingFree(i) /\ meeting[i] = "awaiting_review"
  /\ meeting' = [meeting EXCEPT ![i] = "approved"]
  /\ UNCHANGED <<job, ledger, transcript, draft, lock, worker, request, posts>>
=============================================================================
