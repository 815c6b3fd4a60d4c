------------------------ MODULE RecordingQueueProofs ------------------------
(***************************************************************************)
(* Theorems about the recording queue, for any number of recordings, jobs, *)
(* workers, requests and reviewers.                                        *)
(***************************************************************************)
EXTENDS RecordingQueue, TLAPS

-----------------------------------------------------------------------------
(* Rows.                                                                   *)

\* The row updates stay within JobRow and touch neither the kind of the job nor its
\* provider history except as FailedRow says.
LEMMA RowUpdates ==
  ASSUME NEW r \in JobRow
  PROVE  /\ FailedRow(r) \in JobRow
         /\ CancelledRow(r) \in JobRow
         /\ CompletedRow(r) \in JobRow
         /\ InterruptedRow(r) \in JobRow
         /\ FailedRow(r).source = r.source
         /\ CompletedRow(r).source = r.source
         /\ InterruptedRow(r).source = r.source
         /\ FailedRow(r).admitted = r.admitted
         /\ CompletedRow(r).admitted = r.admitted
         /\ InterruptedRow(r).admitted = r.admitted
         /\ FailedRow(r).unseen = r.unseen
         /\ CompletedRow(r).unseen = r.unseen
         /\ InterruptedRow(r).unseen = r.unseen
         /\ FailedRow(r).status = "failed"
         /\ CancelledRow(r).status = "cancelled"
         /\ CompletedRow(r).status = "completed"
         /\ InterruptedRow(r).status \in {"failed", "cancelled"}
BY DEF FailedRow, CancelledRow, CompletedRow, InterruptedRow, JobRow, Statuses, Providers

\* No attempt and no paid request has been made, and nobody asked to stop.
Unused(r) == r.attempts = 0 /\ r.submissions = 0 /\ ~r.cancel

LEMMA NewRows ==
  ASSUME NEW source \in Sources, NEW admitted \in BOOLEAN, NEW unseen \in SUBSET Jobs
  PROVE  /\ NewRow(source, admitted, unseen) \in JobRow
         /\ NewRow(source, admitted, unseen).status = "pending"
         /\ Unused(NewRow(source, admitted, unseen))
BY DEF NewRow, JobRow, Statuses, Providers, Unused

LEMMA AbsentRows == AbsentRow \in JobRow
BY DEF AbsentRow, NewRow, JobRow, Statuses, Providers, Sources

LEMMA InterruptedMeetings ==
  ASSUME NEW i \in Items, NEW r, TypeOK
  PROVE  /\ InterruptedMeeting(i, r) \in MeetingStates
         /\ InterruptedMeeting(i, r) \notin InProgressStates
BY DEF InterruptedMeeting, InterruptibleStates, TypeOK, MeetingStates, InProgressStates,
   ReviewStates

\* A busy worker has a job, and everything it knows of it is well formed.
LEMMA BusyWorker ==
  ASSUME TypeOK, NEW w \in Workers, ~At(w, "idle")
  PROVE  /\ worker[w].job \in Jobs
         /\ Row(w) \in JobRow
         /\ Item(w) \in Items
BY ItemOfAssumption DEF TypeOK, At, WorkerState, Row, Item

-----------------------------------------------------------------------------
(* How a step may change the rows.                                         *)

\* What may become of one row of recording_jobs in one step, whoever takes it: the life of
\* a job only goes forward, from a row nobody writes before it is claimed or cancelled; it
\* is claimed with an authorization only and completes only without a cancellation request.
RowStep(r, s) ==
  /\ s \in JobRow
  /\ r.status # "absent" => /\ s.source = r.source /\ s.admitted = r.admitted
                            /\ s.unseen = r.unseen
  /\ s.status = "pending" => s = r \/ Unused(s)
  /\ s.status = "processing" => r.status = "processing" \/ s.admitted
  /\ \/ s.status = r.status /\ s.token = r.token
     \/ r.status = "absent" /\ s.status = "pending"
     \/ r.status = "pending" /\ s.status \in {"processing", "cancelled"}
     \/ r.status = "processing" /\ s.status \in {"failed", "cancelled"}
     \/ r.status = "processing" /\ ~r.cancel /\ s.status = "completed"
     \/ r.status \in RetryableStatuses /\ s.status = "deleted"

RowsStep ==
  /\ job' \in [Jobs -> JobRow]
  /\ \A j \in Jobs : RowStep(job[j], job'[j])

\* A new row appears alone, and only when the recording has no active job.
RowsAppearAlone ==
  \A j \in Jobs : job[j].status = "absent" /\ job'[j].status # "absent" =>
    NoActiveJob(ItemOf[j]) /\ \A k \in Jobs \ {j} : job'[k] = job[k]

LEMMA OneRowStep ==
  ASSUME TypeOK, NEW k \in Jobs, NEW row, RowStep(job[k], row), job[k].status # "absent",
         job' = [job EXCEPT ![k] = row]
  PROVE  RowsStep /\ RowsAppearAlone
BY DEF TypeOK, RowsStep, RowStep, RowsAppearAlone, JobRow

LEMMA NoRowStep ==
  ASSUME TypeOK, job' = job
  PROVE  RowsStep /\ RowsAppearAlone
BY DEF TypeOK, RowsStep, RowStep, RowsAppearAlone, JobRow

\* The ways an attempt in progress may go on or end.
LEMMA AttemptRows ==
  ASSUME NEW r \in JobRow, r.status = "processing"
  PROVE  /\ RowStep(r, FailedRow(r))
         /\ RowStep(r, InterruptedRow(r))
         /\ ~r.cancel => RowStep(r, CompletedRow(r))
         /\ RowStep(r, [r EXCEPT !.live = TRUE])
         /\ RowStep(r, [r EXCEPT !.live = FALSE])
         /\ RowStep(r, [r EXCEPT !.cancel = TRUE])
         /\ RowStep(r, [r EXCEPT !.submissions = 1, !.provider = "submitting"])
         /\ \A status \in Providers : RowStep(r, [r EXCEPT !.provider = status])
<1>1. FailedRow(r) \in JobRow /\ CompletedRow(r) \in JobRow /\ InterruptedRow(r) \in JobRow
  BY RowUpdates
<1>2. RowStep(r, FailedRow(r)) /\ RowStep(r, InterruptedRow(r))
  BY <1>1, RowUpdates DEF RowStep
<1>3. ~r.cancel => RowStep(r, CompletedRow(r))
  BY <1>1, RowUpdates DEF RowStep
<1>4. /\ RowStep(r, [r EXCEPT !.live = TRUE])
      /\ RowStep(r, [r EXCEPT !.live = FALSE])
      /\ RowStep(r, [r EXCEPT !.cancel = TRUE])
  BY DEF RowStep, JobRow
<1>5. \A status \in Providers : RowStep(r, [r EXCEPT !.provider = status])
  BY DEF RowStep, JobRow
<1>6. RowStep(r, [r EXCEPT !.submissions = 1, !.provider = "submitting"])
  <2>1. "submitting" \in Providers
    BY DEF Providers
  <2> QED
    BY <2>1 DEF RowStep, JobRow
<1> QED
  BY <1>2, <1>3, <1>4, <1>5, <1>6

\* A worker that still owns its job writes one row, that of an attempt in progress.
LEMMA OwnerWrites ==
  ASSUME TypeOK, NEW w \in Workers, ~At(w, "idle"), Owned(w),
         NEW row, RowStep(Row(w), row), SetRow(w, row)
  PROVE  RowsStep /\ RowsAppearAlone
<1>1. worker[w].job \in Jobs /\ Row(w) = job[worker[w].job]
  BY BusyWorker DEF Row
<1>2. job[worker[w].job].status = "processing"
  BY <1>1 DEF Owned
<1> QED
  BY <1>1, <1>2, OneRowStep DEF SetRow

\* A provider checkpoint is such a write.
LEMMA CheckpointWrites ==
  ASSUME TypeOK, NEW w \in Workers, ~At(w, "idle"), NEW status \in Providers,
         Checkpoint(w, status)
  PROVE  RowsStep /\ RowsAppearAlone
<1>1. Owned(w) /\ SetRow(w, [Row(w) EXCEPT !.provider = status])
  BY DEF Checkpoint, MayCheckpoint, Fenced
<1>2. RowStep(Row(w), [Row(w) EXCEPT !.provider = status])
  BY <1>1, BusyWorker, AttemptRows DEF Owned
<1> QED
  BY <1>1, <1>2, OwnerWrites

\* The end of an attempt by _finish or by the recovery scan.
LEMMA AttemptEnds ==
  ASSUME TypeOK, NEW j \in Jobs, job[j].status = "processing", EndAttempt(j)
  PROVE  RowsStep /\ RowsAppearAlone
<1>1. job[j] \in JobRow
  BY DEF TypeOK
<1>2. RowStep(job[j], InterruptedRow(job[j]))
  BY <1>1, AttemptRows
<1> QED
  BY <1>2, OneRowStep DEF EndAttempt

\* What the worker actions write to recording_jobs.
LEMMA WorkRows ==
  ASSUME TypeOK, NEW w \in Workers, Work(w)
  PROVE  RowsStep /\ RowsAppearAlone
<1>1. CASE TryLock(w)
  BY <1>1, NoRowStep DEF TryLock, rows
<1>2. CASE Renew(w)
  <2>1. CASE job' = job
    BY <2>1, NoRowStep
  <2>2. CASE Owned(w) /\ SetRow(w, [Row(w) EXCEPT !.live = TRUE])
    BY <1>2, <2>2, BusyWorker, AttemptRows, OwnerWrites DEF Renew, Owned, At
  <2> QED
    BY <1>2, <2>1, <2>2 DEF Renew, Commits, Fenced
<1>3. CASE Begin(w)
  BY <1>3, NoRowStep DEF Begin, rows
<1>4. CASE StopConflict(w)
  <2>1. CASE Owned(w) /\ SetRow(w, FailedRow(Row(w)))
    BY <1>4, <2>1, BusyWorker, AttemptRows, OwnerWrites DEF StopConflict, Owned, At
  <2> QED
    BY <1>4, <2>1, NoRowStep DEF StopConflict
<1>5. CASE Prepare(w) \/ StartDownload(w) \/ Fetch(w)
  BY <1>5, NoRowStep DEF Prepare, StartDownload, Fetch
<1>6. CASE Reserve(w)
  <2>1. Owned(w) /\ SetRow(w, [Row(w) EXCEPT !.submissions = 1, !.provider = "submitting"])
    BY <1>6 DEF Reserve, MayReserve, MayCheckpoint, Fenced, ReserveRow
  <2> QED
    BY <1>6, <2>1, BusyWorker, AttemptRows, OwnerWrites DEF Reserve, Owned, At
<1>7. CASE ReserveRefused(w) \/ Post(w)
  BY <1>7, NoRowStep DEF ReserveRefused, Post, rows
<1>8. CASE NoteUnsure(w) \/ NoteRejected(w) \/ NoteLost(w)
  <2>1. {"submission_unknown", "error", "poll_unknown"} \subseteq Providers
    BY DEF Providers
  <2>2. ~At(w, "idle")
    BY <1>8 DEF NoteUnsure, NoteRejected, NoteLost, Note, At
  <2>3. \/ \E status \in Providers : Checkpoint(w, status)
        \/ job' = job
    BY <1>8, <2>1 DEF NoteUnsure, NoteRejected, NoteLost, Note
  <2> QED
    BY <2>2, <2>3, CheckpointWrites, NoRowStep
<1>9. CASE NoteSubmitted(w) \/ NoteCompleted(w)
  <2>1. {"submitted", "completed"} \subseteq Providers
    BY DEF Providers
  <2>2. ~At(w, "idle")
    BY <1>9 DEF NoteSubmitted, NoteCompleted, Advance, At
  <2>3. \/ \E status \in Providers : Checkpoint(w, status)
        \/ job' = job
    BY <1>9, <2>1 DEF NoteSubmitted, NoteCompleted, Advance
  <2> QED
    BY <2>2, <2>3, CheckpointWrites, NoRowStep
<1>10. CASE PollEnds(w)
  <2>1. {"completed", "error"} \subseteq Providers
    BY DEF Providers
  <2> QED
    BY <1>10, <2>1, CheckpointWrites, NoRowStep DEF PollEnds, At
<1>11. CASE Save(w) \/ Extract(w)
  BY <1>11, NoRowStep DEF Save, Extract, rows
<1>12. CASE Install(w)
  <2>1. CASE Fenced(w) /\ SetRow(w, CompletedRow(Row(w)))
    BY <1>12, <2>1, BusyWorker, AttemptRows, OwnerWrites DEF Install, Fenced, Owned, At
  <2> QED
    BY <1>12, <2>1, NoRowStep DEF Install, Commits
<1>13. CASE InstallReprocess(w)
  <2>1. CASE Fenced(w) /\ SetRow(w, CompletedRow(Row(w)))
    BY <1>13, <2>1, BusyWorker, AttemptRows, OwnerWrites
       DEF InstallReprocess, Fenced, Owned, At
  <2>2. CASE Fenced(w) /\ SetRow(w, FailedRow(Row(w)))
    BY <1>13, <2>2, BusyWorker, AttemptRows, OwnerWrites
       DEF InstallReprocess, Fenced, Owned, At
  <2> QED
    BY <1>13, <2>1, <2>2, NoRowStep DEF InstallReprocess, Commits
<1>14. CASE MarkFailed(w)
  BY <1>14, NoRowStep DEF MarkFailed
<1>15. CASE FinishOk(w)
  <2>1. CASE Fenced(w) /\ SetRow(w, CompletedRow(Row(w)))
    BY <1>15, <2>1, BusyWorker, AttemptRows, OwnerWrites DEF FinishOk, Fenced, Owned, At
  <2>2. CASE Owned(w) /\ EndAttempt(worker[w].job)
    BY <1>15, <2>2, BusyWorker, AttemptEnds DEF FinishOk, Owned, At, Row
  <2> QED
    BY <1>15, <2>1, <2>2, NoRowStep DEF FinishOk
<1>16. CASE Unlock(w) \/ Unwind(w)
  BY <1>16, NoRowStep DEF Unlock, Unwind, rows
<1>17. CASE FinishError(w)
  <2>1. CASE Owned(w) /\ EndAttempt(worker[w].job)
    BY <1>17, <2>1, BusyWorker, AttemptEnds DEF FinishError, Owned, At, Row
  <2> QED
    BY <1>17, <2>1, NoRowStep DEF FinishError
<1> QED
  BY <1>1, <1>2, <1>3, <1>4, <1>5, <1>6, <1>7, <1>8, <1>9, <1>10, <1>11, <1>12, <1>13,
     <1>14, <1>15, <1>16, <1>17 DEF Work

LEMMA DisturbRows ==
  ASSUME TypeOK, NEW w \in Workers, Disturb(w)
  PROVE  RowsStep /\ RowsAppearAlone
<1>1. CASE PollProgress(w)
  <2>1. {"queued", "processing"} \subseteq Providers
    BY DEF Providers
  <2> QED
    BY <1>1, <2>1, CheckpointWrites DEF PollProgress, At
<1>2. CASE Heartbeat(w)
  <2>1. ~At(w, "idle")
    BY <1>2 DEF Heartbeat, At, PipelineStages, ProviderStages
  <2> QED
    BY <1>2, <2>1, BusyWorker, AttemptRows, OwnerWrites DEF Heartbeat, Fenced, Owned
<1>3. CASE ~(PollProgress(w) \/ Heartbeat(w))
  BY <1>3, NoRowStep DEF Disturb, StopAfterClaim, PrepareFails, StepFails, FinishFails,
     Interrupt, Crash, LockLost, rows
<1> QED
  BY <1>1, <1>2, <1>3

LEMMA QueueRows ==
  ASSUME TypeOK, NEW w \in Workers, NEW j \in Jobs, Claim(w, j) \/ Recover(w, j)
  PROVE  RowsStep /\ RowsAppearAlone
<1>1. job[j] \in JobRow
  BY DEF TypeOK
<1>2. CASE Claim(w, j)
  <2> DEFINE row == [job[j] EXCEPT !.status = "processing", !.attempts = @ + 1,
                                   !.token = job[j].attempts + 1, !.live = TRUE]
  <2>1. job' = [job EXCEPT ![j] = row] /\ job[j].status = "pending"
    BY <1>1, <1>2 DEF Claim, TakeLease, Fresh, TypeOK
  <2>2. row \in JobRow
    <3>1. job[j].attempts \in Nat /\ job[j].attempts + 1 \in Nat
      BY <1>1 DEF JobRow
    <3> QED
      BY <1>1, <3>1 DEF JobRow, Statuses
  <2>3. /\ row.status = "processing" /\ row.source = job[j].source
        /\ row.admitted /\ job[j].admitted /\ row.unseen = job[j].unseen
    BY <1>1, <1>2 DEF JobRow, Claim
  <2>4. RowStep(job[j], row)
    BY <2>1, <2>2, <2>3 DEF RowStep
  <2> QED
    BY <2>1, <2>4, OneRowStep
<1>3. CASE Recover(w, j)
  BY <1>3, AttemptEnds DEF Recover, Recoverable
<1> QED
  BY <1>2, <1>3

LEMMA ExpireRows ==
  ASSUME TypeOK, NEW j \in Jobs, Expire(j)
  PROVE  RowsStep /\ RowsAppearAlone
<1>1. job[j] \in JobRow
  BY DEF TypeOK
<1>2. job' = [job EXCEPT ![j] = [job[j] EXCEPT !.live = FALSE]]
  BY DEF Expire, TypeOK
<1> QED
  BY <1>1, <1>2, AttemptRows, OneRowStep DEF Expire

\* A handler that inserts a row.
LEMMA InsertWrites ==
  ASSUME TypeOK, NEW j \in Jobs, NEW source \in Sources, NEW admitted \in BOOLEAN,
         NEW unseen \in SUBSET Jobs, Insert(j, NewRow(source, admitted, unseen))
  PROVE  RowsStep /\ RowsAppearAlone
<1>1. RowStep(job[j], NewRow(source, admitted, unseen))
  BY NewRows DEF Insert, RowStep, TypeOK
<1> QED
  BY <1>1 DEF Insert, RowsStep, RowStep, RowsAppearAlone, TypeOK, JobRow

\* A request inserts a job of one of the sources, which has missed some jobs.
LEMMA EnqueueInserts ==
  ASSUME TypeOK, NEW h \in Handlers, NEW j \in Jobs, Enqueue(h, j)
  PROVE  /\ request[h].source \in Sources
         /\ Inserted(ItemOf[j]) \ request[h].known \in SUBSET Jobs
         /\ Insert(j, NewRow(request[h].source, TRUE, Inserted(ItemOf[j]) \ request[h].known))
BY DEF Enqueue, EnqueueRetry, TypeOK, RequestState, Inserted, JobsOf

LEMMA ApiRows ==
  ASSUME TypeOK, ApiStep
  PROVE  RowsStep /\ RowsAppearAlone
<1>1. "recording" \in Sources /\ {} \in SUBSET Jobs
  BY DEF Sources
<1>2. ASSUME NEW j \in Jobs, Webhook(j) \/ QueueVerified(j) \/ Import(j)
      PROVE  RowsStep /\ RowsAppearAlone
  <2>1. \E admitted \in BOOLEAN : Insert(j, NewRow("recording", admitted, {}))
    BY <1>2 DEF Webhook, QueueVerified, Import, EnqueueRecording
  <2> QED
    BY <1>1, <2>1, InsertWrites
<1>3. ASSUME NEW j \in Jobs, Cancel(j)
      PROVE  RowsStep /\ RowsAppearAlone
  <2>1. job[j] \in JobRow
    BY DEF TypeOK
  <2>2. CASE job[j].status = "pending"
    <3> DEFINE row == CancelledRow([job[j] EXCEPT !.cancel = TRUE])
    <3>1. RowStep(job[j], row)
      BY <2>1, <2>2 DEF RowStep, CancelledRow, JobRow, Statuses
    <3>2. job' = [job EXCEPT ![j] = row]
      BY <1>3, <2>2 DEF Cancel, TypeOK
    <3> QED
      BY <2>2, <3>1, <3>2, OneRowStep
  <2>3. CASE job[j].status = "processing"
    <3>1. job' = [job EXCEPT ![j] = [job[j] EXCEPT !.cancel = TRUE]]
      BY <1>3, <2>3 DEF Cancel, TypeOK
    <3> QED
      BY <2>1, <2>3, <3>1, AttemptRows, OneRowStep
  <2> QED
    BY <1>3, <2>2, <2>3 DEF Cancel
<1>4. ASSUME NEW i \in Items, Reconcile(i) \/ AttachMeeting(i)
      PROVE  RowsStep /\ RowsAppearAlone
  BY <1>4, NoRowStep DEF Reconcile, AttachMeeting
<1>5. ASSUME NEW h \in Handlers, NEW j \in Jobs, Enqueue(h, j)
      PROVE  RowsStep /\ RowsAppearAlone
  BY <1>5, EnqueueInserts, InsertWrites
<1>6. ASSUME NEW h \in Handlers,
             \/ \E i \in Items : ImportAgain(h, i) \/ Reprocess(h, i)
             \/ \E j \in Jobs : RetryRead(h, j)
             \/ RetryCheck(h) \/ RequestRefused(h)
      PROVE  RowsStep /\ RowsAppearAlone
  BY <1>6, NoRowStep DEF ImportAgain, Reprocess, RetryRead, RetryCheck, RequestRefused, rows
<1>7. ASSUME NEW o \in Owners, Unsubscribe(o)
      PROVE  RowsStep /\ RowsAppearAlone
  <2>1. \A j \in Jobs : job[j] \in JobRow
    BY DEF TypeOK
  <2>2. \A j \in Jobs : Withdrawn(o, j) =>
          RowStep(job[j], CancelledRow([job[j] EXCEPT !.cancel = TRUE]))
    <3>1. SUFFICES ASSUME NEW j \in Jobs, job[j].status = "pending"
                   PROVE  RowStep(job[j], CancelledRow([job[j] EXCEPT !.cancel = TRUE]))
      BY DEF Withdrawn
    <3>2. job[j] \in JobRow
      BY <2>1
    <3> QED
      BY <3>1, <3>2 DEF RowStep, CancelledRow, JobRow, Statuses
  <2>3. \A j \in Jobs : ~Withdrawn(o, j) => RowStep(job[j], job[j])
    BY <2>1 DEF RowStep
  <2>4. RowsStep
    <3>1. \A j \in Jobs : RowStep(job[j], job'[j])
      BY <1>7, <2>2, <2>3 DEF Unsubscribe
    <3>2. job' \in [Jobs -> JobRow]
      BY <1>7, <3>1 DEF Unsubscribe, RowStep
    <3> QED
      BY <3>1, <3>2 DEF RowsStep
  <2>5. RowsAppearAlone
    BY <1>7 DEF Unsubscribe, Withdrawn, RowsAppearAlone
  <2> QED
    BY <2>4, <2>5
<1>8. ASSUME NEW admin \in Admins, NEW j \in Jobs, Cleanup(admin, j)
      PROVE  RowsStep /\ RowsAppearAlone
  <2>1. job' = [job EXCEPT ![j] = [job[j] EXCEPT !.status = "deleted"]]
    BY <1>8 DEF Cleanup, TypeOK
  <2>2. job[j] \in JobRow /\ job[j].status \in {"failed", "cancelled"}
    BY <1>8 DEF Cleanup, RetryableStatuses, TypeOK
  <2>3. RowStep(job[j], [job[j] EXCEPT !.status = "deleted"])
    <3> DEFINE row == [job[j] EXCEPT !.status = "deleted"]
    <3>1. row \in JobRow /\ row.status = "deleted" /\ row.source = job[j].source
            /\ row.attempts = job[j].attempts /\ row.token = job[j].token
      BY <2>2 DEF JobRow, Statuses
    <3>2. row.admitted = job[j].admitted
      BY <2>2 DEF JobRow
    <3> QED
      BY <2>2, <3>1, <3>2 DEF RowStep, RetryableStatuses
  <2> QED
    BY <2>1, <2>2, <2>3, OneRowStep
<1> QED
  BY <1>2, <1>3, <1>4, <1>5, <1>6, <1>7, <1>8 DEF ApiStep

\* Every step of the queue moves every job along its life, one new job at a time.
LEMMA NextRows ==
  ASSUME TypeOK, [Next]_vars
  PROVE  RowsStep /\ RowsAppearAlone
<1>1. CASE WorkerStep
  BY <1>1, WorkRows, DisturbRows, QueueRows, ExpireRows DEF WorkerStep
<1>2. CASE ReviewStep
  BY <1>2, NoRowStep DEF ReviewStep, EditDraft, SaveDecisions, Approve
<1>3. CASE UNCHANGED vars
  BY <1>3, NoRowStep DEF vars
<1> QED
  BY <1>1, <1>2, <1>3, ApiRows DEF Next

-----------------------------------------------------------------------------
(* How a step may move the workers.                                        *)

WorkersTyped ==
  /\ worker \in [Workers -> WorkerState]
  /\ \A w \in Workers : At(w, "idle") <=> worker[w].job = Nobody

Busy == Stages \ {"idle"}

\* The stages reserved to one kind of job, and the way into "finish".
MovesTo(w, stage) ==
  /\ stage = "conflict" => At(w, "conflict") \/ Reprocessing(w)
  /\ stage \in {"prepare", "download"} =>
       At(w, "prepare") \/ At(w, "download") \/ ~Reprocessing(w)
  /\ stage = "finish" => \/ At(w, "finish")
                         \/ meeting[Item(w)] \in ReviewStates /\ meeting' = meeting
                         \/ job'[worker[w].job].status # "processing"

\* A worker stays as it is, goes on with its job, drops it, or claims one.
WorkerMove(w) ==
  \/ worker'[w] = worker[w]
  \/ /\ ~At(w, "idle")
     /\ worker'[w].job = worker[w].job /\ worker'[w].token = worker[w].token
     /\ MovesTo(w, worker'[w].pc)
  \/ worker'[w] = IdleWorker
  \/ /\ \A v \in Workers \ {w} : worker'[v] = worker[v]
     /\ worker'[w].pc = "claimed"
     /\ \E j \in Jobs : /\ worker'[w].job = j /\ job[j].status = "pending"
                         /\ job'[j].status = "processing"

WorkersMove == \A w \in Workers : WorkerMove(w)

LEMMA StagesAreBusy ==
  {"claimed", "locked", "begin", "conflict", "prepare", "download", "fetch", "upload",
   "reserved", "accepted", "unsure", "polling", "fetched", "rejected", "lost",
   "transcribed", "extract", "ready", "failing", "failing_text", "finish", "unlock",
   "unwind", "finish_error"} \subseteq Busy
BY DEF Busy, Stages, PipelineStages, ProviderStages

LEMMA IdleWorkers == IdleWorker \in WorkerState
<1>1. "idle" \in Stages
  BY DEF Stages
<1>2. CleanDraft \in Draft
  BY MaxSavesAssumption DEF CleanDraft, Draft
<1> QED
  BY <1>1, <1>2 DEF IdleWorker, WorkerState

\* A busy worker goes on with its job.
LEMMA GoesOn ==
  ASSUME TypeOK, NEW w \in Workers, ~At(w, "idle"), NEW next \in WorkerState,
         next.pc \in Busy, MovesTo(w, next.pc),
         next.job = worker[w].job, next.token = worker[w].token,
         worker' = [worker EXCEPT ![w] = next]
  PROVE  WorkersTyped' /\ WorkersMove
<1>1. worker[w].job \in Jobs
  BY BusyWorker
<1>2. worker' \in [Workers -> WorkerState]
  BY DEF TypeOK
<1>3. \A v \in Workers : worker'[v] = IF v = w THEN next ELSE worker[v]
  BY DEF TypeOK
<1>4. next.pc # "idle"
  BY DEF Busy
<1>5. \A v \in Workers : worker'[v].pc = "idle" <=> worker'[v].job = Nobody
  BY <1>1, <1>3, <1>4, NobodyAssumption DEF TypeOK, At
<1>6. WorkersMove
  BY <1>3 DEF WorkersMove, WorkerMove
<1> QED
  BY <1>2, <1>5, <1>6 DEF WorkersTyped, At

LEMMA GoesTo ==
  ASSUME TypeOK, NEW w \in Workers, ~At(w, "idle"), NEW stage \in Busy,
         MovesTo(w, stage), Goto(w, stage)
  PROVE  WorkersTyped' /\ WorkersMove
<1> DEFINE next == [worker[w] EXCEPT !.pc = stage]
<1>1. worker[w] \in WorkerState /\ stage \in Stages
  BY DEF TypeOK, Busy
<1>2. next \in WorkerState
  BY <1>1 DEF WorkerState
<1>3. next.pc = stage /\ next.job = worker[w].job /\ next.token = worker[w].token
  BY <1>1 DEF WorkerState
<1>4. worker' = [worker EXCEPT ![w] = next]
  BY DEF Goto, TypeOK
<1> QED
  BY <1>2, <1>3, <1>4, GoesOn

LEMMA GivesUp ==
  ASSUME TypeOK, NEW w \in Workers, worker' = [worker EXCEPT ![w] = IdleWorker]
  PROVE  WorkersTyped' /\ WorkersMove
<1>1. \A v \in Workers : worker'[v] = IF v = w THEN IdleWorker ELSE worker[v]
  BY DEF TypeOK
<1>2. IdleWorker.pc = "idle" /\ IdleWorker.job = Nobody
  BY DEF IdleWorker
<1>3. worker' \in [Workers -> WorkerState]
  BY IdleWorkers DEF TypeOK
<1> QED
  BY <1>1, <1>2, <1>3 DEF TypeOK, WorkersTyped, At, WorkersMove, WorkerMove

LEMMA StaysPut ==
  ASSUME TypeOK, worker' = worker
  PROVE  WorkersTyped' /\ WorkersMove
BY DEF TypeOK, WorkersTyped, At, WorkersMove, WorkerMove

\* Most stages are open to every busy worker.
LEMMA OpenStages ==
  ASSUME NEW w \in Workers, NEW stage, stage \notin {"conflict", "prepare", "download", "finish"}
  PROVE  MovesTo(w, stage)
BY DEF MovesTo

LEMMA FailsMoves ==
  ASSUME TypeOK, NEW w \in Workers, ~At(w, "idle"), Fails(w)
  PROVE  WorkersTyped' /\ WorkersMove
<1>1. \E stage \in {"failing", "failing_text", "unwind"} : Goto(w, stage)
  BY DEF Fails
<1> QED
  BY <1>1, StagesAreBusy, GoesTo, OpenStages

LEMMA RefusedMoves ==
  ASSUME TypeOK, NEW w \in Workers, ~At(w, "idle"), Refused(w)
  PROVE  WorkersTyped' /\ WorkersMove
BY StagesAreBusy, GoesTo, OpenStages DEF Refused

\* What the worker actions do to the worker that takes them.
LEMMA WorkMoves ==
  ASSUME TypeOK, NEW w \in Workers, Work(w)
  PROVE  WorkersTyped' /\ WorkersMove
<1>1. CASE TryLock(w)
  BY <1>1, StagesAreBusy, GoesTo, OpenStages DEF TryLock, At
<1>2. CASE Renew(w)
  BY <1>2, StagesAreBusy, GoesTo, OpenStages, RefusedMoves DEF Renew, Commits, At
<1>3. CASE Begin(w)
  <2>1. ~At(w, "idle")
    BY <1>3 DEF Begin, At
  <2>2. CASE Refused(w)
    BY <2>1, <2>2, RefusedMoves
  <2>3. CASE Reprocessing(w) /\ Goto(w, "conflict")
    <3>1. MovesTo(w, "conflict")
      BY <2>3 DEF MovesTo
    <3> QED
      BY <2>1, <2>3, <3>1, StagesAreBusy, GoesTo
  <2>4. CASE ~Reprocessing(w) /\ Goto(w, "prepare")
    <3>1. MovesTo(w, "prepare")
      BY <2>4 DEF MovesTo
    <3> QED
      BY <2>1, <2>4, <3>1, StagesAreBusy, GoesTo
  <2>5. CASE meeting[Item(w)] \in ReviewStates /\ Goto(w, "finish")
    <3>1. MovesTo(w, "finish")
      BY <1>3, <2>5 DEF MovesTo, Begin, rows
    <3> QED
      BY <2>1, <2>5, <3>1, StagesAreBusy, GoesTo
  <2>6. CASE worker' = [worker EXCEPT ![w].pc = "fetch", ![w].base = draft[Item(w)]]
    <3> DEFINE next == [worker[w] EXCEPT !.pc = "fetch", !.base = draft[Item(w)]]
    <3>1. worker[w] \in WorkerState /\ draft[Item(w)] \in Draft /\ "fetch" \in Busy
      BY <2>1, BusyWorker, StagesAreBusy DEF TypeOK
    <3>2. next \in WorkerState
      BY <3>1 DEF WorkerState, Busy
    <3>3. next.pc = "fetch" /\ next.job = worker[w].job /\ next.token = worker[w].token
      BY <3>1 DEF WorkerState
    <3>4. worker' = [worker EXCEPT ![w] = next]
      BY <2>6 DEF TypeOK
    <3>5. MovesTo(w, "fetch")
      BY OpenStages
    <3> HIDE DEF next
    <3> QED
      BY <2>1, <3>1, <3>2, <3>3, <3>4, <3>5, GoesOn
  <2> QED
    BY <1>3, <2>2, <2>3, <2>4, <2>5, <2>6 DEF Begin, Commits
<1>4. CASE StopConflict(w)
  BY <1>4, StagesAreBusy, GoesTo, OpenStages DEF StopConflict, At
<1>5. CASE Prepare(w)
  <2>1. ~At(w, "idle") /\ MovesTo(w, "download")
    BY <1>5 DEF Prepare, At, MovesTo
  <2>2. Refused(w) \/ Goto(w, "transcribed") \/ Goto(w, "download")
    BY <1>5 DEF Prepare
  <2> QED
    BY <2>1, <2>2, StagesAreBusy, GoesTo, OpenStages, RefusedMoves
<1>6. CASE StartDownload(w)
  BY <1>6, StagesAreBusy, GoesTo, OpenStages, RefusedMoves DEF StartDownload, Commits, At
<1>7. CASE Fetch(w)
  BY <1>7, StagesAreBusy, GoesTo, OpenStages, RefusedMoves DEF Fetch, Commits, At
<1>8. CASE Reserve(w)
  BY <1>8, StagesAreBusy, GoesTo, OpenStages, FailsMoves DEF Reserve, At
<1>9. CASE ReserveRefused(w)
  BY <1>9, FailsMoves DEF ReserveRefused, At
<1>10. CASE Post(w)
  BY <1>10, StagesAreBusy, GoesTo, OpenStages DEF Post, At
<1>11. CASE NoteUnsure(w) \/ NoteRejected(w) \/ NoteLost(w)
  <2>1. ~At(w, "idle")
    BY <1>11 DEF NoteUnsure, NoteRejected, NoteLost, Note, At
  <2>2. Goto(w, "unwind") \/ Fails(w)
    BY <1>11 DEF NoteUnsure, NoteRejected, NoteLost, Note, AfterNote
  <2> QED
    BY <2>1, <2>2, StagesAreBusy, GoesTo, OpenStages, FailsMoves
<1>12. CASE NoteSubmitted(w) \/ NoteCompleted(w)
  <2>1. ~At(w, "idle")
    BY <1>12 DEF NoteSubmitted, NoteCompleted, Advance, At
  <2>2. Goto(w, "polling") \/ Goto(w, "transcribed") \/ Fails(w)
    BY <1>12 DEF NoteSubmitted, NoteCompleted, Advance
  <2> QED
    BY <2>1, <2>2, StagesAreBusy, GoesTo, OpenStages, FailsMoves
<1>13. CASE PollEnds(w)
  BY <1>13, StagesAreBusy, GoesTo, OpenStages DEF PollEnds, At
<1>14. CASE Save(w)
  BY <1>14, StagesAreBusy, GoesTo, OpenStages, RefusedMoves DEF Save, Commits, At
<1>15. CASE Extract(w)
  BY <1>15, StagesAreBusy, GoesTo, OpenStages, RefusedMoves DEF Extract, Commits, At
<1>16. CASE Install(w) \/ InstallReprocess(w)
  <2>1. ~At(w, "idle")
    BY <1>16 DEF Install, InstallReprocess, At
  <2>2. \/ Refused(w) \/ Goto(w, "unwind")
        \/ Goto(w, "finish") /\ SetRow(w, CompletedRow(Row(w)))
    BY <1>16 DEF Install, InstallReprocess, Commits
  <2>3. CASE Goto(w, "finish") /\ SetRow(w, CompletedRow(Row(w)))
    <3>1. job'[worker[w].job].status = "completed"
      BY <2>1, <2>3, BusyWorker, RowUpdates DEF SetRow, TypeOK
    <3>2. MovesTo(w, "finish")
      BY <3>1 DEF MovesTo
    <3> QED
      BY <2>1, <2>3, <3>2, StagesAreBusy, GoesTo
  <2> QED
    BY <2>1, <2>2, <2>3, StagesAreBusy, GoesTo, OpenStages, RefusedMoves
<1>17. CASE MarkFailed(w)
  BY <1>17, StagesAreBusy, GoesTo, OpenStages DEF MarkFailed, At
<1>18. CASE FinishOk(w)
  BY <1>18, StagesAreBusy, GoesTo, OpenStages DEF FinishOk, At
<1>19. CASE Unwind(w)
  BY <1>19, StagesAreBusy, GoesTo, OpenStages DEF Unwind, At
<1>20. CASE Unlock(w) \/ FinishError(w)
  BY <1>20, GivesUp DEF Unlock, FinishError
<1> QED
  BY <1>1, <1>2, <1>3, <1>4, <1>5, <1>6, <1>7, <1>8, <1>9, <1>10, <1>11, <1>12, <1>13,
     <1>14, <1>15, <1>16, <1>17, <1>18, <1>19, <1>20 DEF Work

LEMMA DisturbMoves ==
  ASSUME TypeOK, NEW w \in Workers, Disturb(w)
  PROVE  WorkersTyped' /\ WorkersMove
<1>1. CASE StopAfterClaim(w) \/ PrepareFails(w) \/ FinishFails(w)
  BY <1>1, StagesAreBusy, GoesTo, OpenStages
     DEF StopAfterClaim, PrepareFails, FinishFails, At
<1>2. CASE StepFails(w)
  BY <1>2, FailsMoves DEF StepFails, At
<1>3. CASE PollProgress(w) \/ Heartbeat(w) \/ LockLost(w)
  BY <1>3, StaysPut DEF PollProgress, Heartbeat, LockLost
<1>4. CASE Crash(w)
  BY <1>4, GivesUp DEF Crash
<1>5. CASE Interrupt(w)
  <2>1. ~At(w, "idle")
    BY <1>5 DEF Interrupt, At, PipelineStages, ProviderStages
  <2>2. \E stage \in {"reserved", "unwind", "unsure", "lost"} :
          worker' = [worker EXCEPT ![w].pc = stage, ![w].stop = TRUE]
    BY <1>5 DEF Interrupt
  <2>3. PICK stage \in {"reserved", "unwind", "unsure", "lost"} :
          worker' = [worker EXCEPT ![w].pc = stage, ![w].stop = TRUE]
    BY <2>2
  <2> DEFINE next == [worker[w] EXCEPT !.pc = stage, !.stop = TRUE]
  <2>4. worker[w] \in WorkerState /\ stage \in Busy
    BY StagesAreBusy DEF TypeOK
  <2>5. next \in WorkerState
    BY <2>4 DEF WorkerState, Busy
  <2>6. next.pc = stage /\ next.job = worker[w].job /\ next.token = worker[w].token
    BY <2>4 DEF WorkerState
  <2>7. worker' = [worker EXCEPT ![w] = next]
    BY <2>3 DEF TypeOK
  <2>8. MovesTo(w, stage)
    BY OpenStages
  <2> HIDE DEF next
  <2> QED
    BY <2>1, <2>4, <2>5, <2>6, <2>7, <2>8, GoesOn
<1> QED
  BY <1>1, <1>2, <1>3, <1>4, <1>5 DEF Disturb

LEMMA QueueMoves ==
  ASSUME TypeOK, NEW w \in Workers, NEW j \in Jobs, Claim(w, j) \/ Recover(w, j)
  PROVE  WorkersTyped' /\ WorkersMove
<1>1. CASE Recover(w, j)
  BY <1>1, StaysPut DEF Recover
<1>2. CASE Claim(w, j)
  <2> DEFINE next == [IdleWorker EXCEPT !.pc = "claimed", !.job = j,
                                        !.token = job[j].attempts + 1]
  <2>1. job[j] \in JobRow /\ job[j].attempts + 1 \in Nat
    BY DEF TypeOK, JobRow
  <2>2. next \in WorkerState
    BY <2>1, IdleWorkers, StagesAreBusy DEF WorkerState, Busy
  <2>3. next.pc = "claimed" /\ next.job = j
    BY IdleWorkers DEF WorkerState
  <2>4. worker' = [worker EXCEPT ![w] = next]
    BY <1>2 DEF Claim, TakeLease
  <2>5. \A v \in Workers : worker'[v] = IF v = w THEN next ELSE worker[v]
    BY <2>4 DEF TypeOK
  <2>6. job[j].status = "pending" /\ job'[j].status = "processing"
    BY <1>2, <2>1 DEF Claim, TakeLease, Fresh, TypeOK, JobRow
  <2> HIDE DEF next
  <2>7. worker' \in [Workers -> WorkerState]
    BY <2>2, <2>4 DEF TypeOK
  <2>8. WorkersMove
    BY <2>3, <2>5, <2>6 DEF WorkersMove, WorkerMove
  <2>9. \A v \in Workers : worker'[v].pc = "idle" <=> worker'[v].job = Nobody
    BY <2>3, <2>5, NobodyAssumption DEF TypeOK, At
  <2> QED
    BY <2>7, <2>8, <2>9 DEF WorkersTyped, At
<1> QED
  BY <1>1, <1>2

\* Every step leaves each worker where it is, moves it on with its job, frees it, or gives
\* one of them a pending job.
LEMMA NextWorkers ==
  ASSUME TypeOK, [Next]_vars
  PROVE  WorkersTyped' /\ WorkersMove
<1>1. CASE WorkerStep
  BY <1>1, WorkMoves, DisturbMoves, QueueMoves, StaysPut DEF WorkerStep, Expire
<1>2. CASE ApiStep
  <2>1. worker' = worker
    BY <1>2 DEF ApiStep, Webhook, QueueVerified, Import, Cancel, Reconcile, AttachMeeting,
       ImportAgain, Reprocess, RetryRead, RetryCheck, Enqueue, RequestRefused, Unsubscribe,
       Cleanup
  <2> QED
    BY <2>1, StaysPut
<1>3. CASE ReviewStep \/ UNCHANGED vars
  BY <1>3, StaysPut DEF ReviewStep, EditDraft, SaveDecisions, Approve, vars
<1> QED
  BY <1>1, <1>2, <1>3 DEF Next

-----------------------------------------------------------------------------
(* Type correctness.                                                       *)

RecordingsTyped ==
  /\ ledger \in [Items -> BOOLEAN]
  /\ meeting \in [Items -> MeetingStates]
  /\ transcript \in [Items -> BOOLEAN]
  /\ draft \in [Items -> Draft]
  /\ lock \in [Items -> Workers \cup {Nobody}]
  /\ request \in [Handlers -> RequestState]
  /\ posts \in [Jobs -> Nat]

LEMMA MeetingNames ==
  {"none", "queued", "failed", "cancelled", "downloading", "transcribing", "extracting",
   "awaiting_review", "approved"} \subseteq MeetingStates
BY DEF MeetingStates, InProgressStates, ReviewStates

\* The ends of an attempt write a proper meeting state.
LEMMA EndsTyped ==
  ASSUME TypeOK, NEW j \in Jobs, EndAttempt(j)
  PROVE  meeting' \in [Items -> MeetingStates]
<1>1. ItemOf[j] \in Items
  BY ItemOfAssumption
<1>2. InterruptedMeeting(ItemOf[j], job[j]) \in MeetingStates
  BY <1>1, InterruptedMeetings
<1> QED
  BY <1>2 DEF EndAttempt, TypeOK

LEMMA WorkTyped ==
  ASSUME TypeOK, NEW w \in Workers, Work(w)
  PROVE  RecordingsTyped'
<1>1. CASE TryLock(w)
  BY <1>1 DEF TryLock, rows, TypeOK, RecordingsTyped
<1>2. CASE Renew(w) \/ StopConflict(w)
  BY <1>2 DEF Renew, StopConflict, TypeOK, RecordingsTyped
<1>3. CASE Begin(w) \/ Extract(w) \/ ReserveRefused(w)
  BY <1>3 DEF Begin, Extract, ReserveRefused, rows, TypeOK, RecordingsTyped
<1>4. CASE Prepare(w) \/ StartDownload(w) \/ Fetch(w)
  <2>1. meeting' \in [Items -> MeetingStates]
    BY <1>4, MeetingNames DEF Prepare, StartDownload, Fetch, SetMeeting, TypeOK
  <2> QED
    BY <1>4, <2>1 DEF Prepare, StartDownload, Fetch, TypeOK, RecordingsTyped
<1>5. CASE Reserve(w) \/ NoteUnsure(w) \/ NoteRejected(w) \/ NoteLost(w)
  BY <1>5 DEF Reserve, NoteUnsure, NoteRejected, NoteLost, Note, TypeOK, RecordingsTyped
<1>6. CASE NoteSubmitted(w) \/ NoteCompleted(w) \/ PollEnds(w)
  BY <1>6 DEF NoteSubmitted, NoteCompleted, Advance, PollEnds, TypeOK, RecordingsTyped
<1>7. CASE Post(w)
  <2>1. posts' \in [Jobs -> Nat]
    BY <1>7 DEF Post, TypeOK
  <2> QED
    BY <1>7, <2>1 DEF Post, rows, TypeOK, RecordingsTyped
<1>8. CASE Save(w)
  <2>1. meeting' \in [Items -> MeetingStates]
    BY <1>8, MeetingNames DEF Save, SetMeeting, TypeOK
  <2>2. transcript' \in [Items -> BOOLEAN]
    BY <1>8 DEF Save, TypeOK
  <2> QED
    BY <1>8, <2>1, <2>2 DEF Save, TypeOK, RecordingsTyped
<1>9. CASE Install(w) \/ InstallReprocess(w)
  <2>1. meeting' \in [Items -> MeetingStates]
    BY <1>9, MeetingNames DEF Install, InstallReprocess, SetMeeting, TypeOK
  <2>2. \A i \in Items, dirty \in BOOLEAN : [draft[i] EXCEPT !.dirty = dirty] \in Draft
    BY DEF TypeOK, Draft
  <2>3. Item(w) \in Items /\ draft[Item(w)] \in Draft
    BY <1>9, BusyWorker DEF Install, InstallReprocess, At, TypeOK
  <2>4. \/ draft' = draft
        \/ \E dirty \in BOOLEAN :
             draft' = [draft EXCEPT ![Item(w)] = [draft[Item(w)] EXCEPT !.dirty = dirty]]
    <3>1. draft[Item(w)].dirty \in BOOLEAN
      BY <2>3 DEF Draft
    <3> QED
      BY <1>9, <2>3, <3>1 DEF Install, InstallReprocess, TypeOK
  <2>5. draft' \in [Items -> Draft]
    BY <2>2, <2>3, <2>4 DEF TypeOK
  <2> QED
    BY <1>9, <2>1, <2>5 DEF Install, InstallReprocess, TypeOK, RecordingsTyped
<1>10. CASE MarkFailed(w)
  <2>1. meeting' \in [Items -> MeetingStates]
    BY <1>10, MeetingNames DEF MarkFailed, SetMeeting, TypeOK
  <2>2. transcript' \in [Items -> BOOLEAN]
    BY <1>10 DEF MarkFailed, TypeOK
  <2> QED
    BY <1>10, <2>1, <2>2 DEF MarkFailed, TypeOK, RecordingsTyped
<1>11. CASE FinishOk(w) \/ FinishError(w)
  <2>1. worker[w].job \in Jobs
    BY <1>11, BusyWorker DEF FinishOk, FinishError, At
  <2>2. meeting' \in [Items -> MeetingStates]
    BY <1>11, <2>1, EndsTyped DEF FinishOk, FinishError, TypeOK
  <2> QED
    BY <1>11, <2>2 DEF FinishOk, FinishError, TypeOK, RecordingsTyped
<1>12. CASE Unlock(w) \/ Unwind(w)
  <2>1. lock' \in [Items -> Workers \cup {Nobody}]
    BY <1>12 DEF Unlock, Unwind, Unlocked, TypeOK
  <2> QED
    BY <1>12, <2>1 DEF Unlock, Unwind, rows, TypeOK, RecordingsTyped
<1> QED
  BY <1>1, <1>2, <1>3, <1>4, <1>5, <1>6, <1>7, <1>8, <1>9, <1>10, <1>11, <1>12 DEF Work

LEMMA DisturbTyped ==
  ASSUME TypeOK, NEW w \in Workers, Disturb(w)
  PROVE  RecordingsTyped'
<1>1. CASE Crash(w) \/ LockLost(w)
  <2>1. lock' \in [Items -> Workers \cup {Nobody}]
    BY <1>1 DEF Crash, LockLost, Unlocked, TypeOK
  <2> QED
    BY <1>1, <2>1 DEF Crash, LockLost, rows, TypeOK, RecordingsTyped
<1>2. CASE PollProgress(w) \/ Heartbeat(w)
  BY <1>2 DEF PollProgress, Heartbeat, TypeOK, RecordingsTyped
<1>3. CASE StopAfterClaim(w) \/ PrepareFails(w) \/ StepFails(w) \/ FinishFails(w) \/ Interrupt(w)
  BY <1>3 DEF StopAfterClaim, PrepareFails, StepFails, FinishFails, Interrupt, rows, TypeOK,
     RecordingsTyped
<1> QED
  BY <1>1, <1>2, <1>3 DEF Disturb

LEMMA NoRequests == NoRequest \in RequestState
BY MeetingNames DEF NoRequest, RequestState, Sources

\* A request moves on to another state of a request.
RequestMoves(h) == \E r \in RequestState : request' = [request EXCEPT ![h] = r]

LEMMA RequestsTyped ==
  ASSUME TypeOK, NEW h \in Handlers
  PROVE  /\ \A i \in Items : ImportAgain(h, i) => RequestMoves(h)
         /\ \A i \in Items : Reprocess(h, i) => RequestMoves(h)
         /\ \A j \in Jobs : RetryRead(h, j) => RequestMoves(h)
         /\ RetryCheck(h) => RequestMoves(h)
         /\ RequestRefused(h) => RequestMoves(h)
<1>1. ASSUME NEW r \in RequestState
      PROVE  Checked(r) \in RequestState
  BY DEF Checked, Inserted, JobsOf, RequestState
<1>2. request \in [Handlers -> RequestState]
  BY DEF TypeOK
<1>3. ASSUME NEW i \in Items
      PROVE  [NoRequest EXCEPT !.item = i] \in RequestState
  BY NoRequests DEF RequestState
<1>4. ASSUME NEW i \in Items
      PROVE  [NoRequest EXCEPT !.item = i, !.source = "manual_reprocess"] \in RequestState
  BY NoRequests DEF RequestState, Sources
<1>5. ASSUME NEW i \in Items, ImportAgain(h, i)
      PROVE  RequestMoves(h)
  <2>1. request' = [request EXCEPT ![h] = Checked([NoRequest EXCEPT !.item = i])]
    BY <1>2, <1>5 DEF ImportAgain
  <2> QED
    BY <1>1, <1>3, <2>1 DEF RequestMoves
<1>6. ASSUME NEW i \in Items, Reprocess(h, i)
      PROVE  RequestMoves(h)
  <2>1. request' = [request EXCEPT ![h] =
                      Checked([NoRequest EXCEPT !.item = i, !.source = "manual_reprocess"])]
    BY <1>2, <1>6 DEF Reprocess
  <2> QED
    BY <1>1, <1>4, <2>1 DEF RequestMoves
<1>7. ASSUME NEW j \in Jobs, RetryRead(h, j)
      PROVE  RequestMoves(h)
  <2>1. ItemOf[j] \in Items /\ meeting[ItemOf[j]] \in MeetingStates
    BY ItemOfAssumption DEF TypeOK
  <2>2. RetrySource(j) \in Sources
    BY DEF RetrySource, Sources
  <2>3. [NoRequest EXCEPT !.step = "read", !.item = ItemOf[j], !.old = j,
                          !.source = RetrySource(j), !.saw = meeting[ItemOf[j]]]
          \in RequestState
    BY <2>1, <2>2, NoRequests DEF RequestState
  <2>4. request' = [request EXCEPT ![h] =
           [NoRequest EXCEPT !.step = "read", !.item = ItemOf[j], !.old = j,
                             !.source = RetrySource(j), !.saw = meeting[ItemOf[j]]]]
    BY <1>2, <1>7 DEF RetryRead
  <2> QED
    BY <2>3, <2>4 DEF RequestMoves
<1>8. ASSUME RetryCheck(h)
      PROVE  RequestMoves(h)
  <2>1. request' = [request EXCEPT ![h] = Checked(request[h])]
    BY <1>2, <1>8 DEF RetryCheck
  <2> QED
    BY <1>1, <1>2, <2>1 DEF RequestMoves
<1>9. ASSUME RequestRefused(h)
      PROVE  RequestMoves(h)
  BY <1>9, NoRequests DEF RequestRefused, RequestMoves
<1> QED
  BY <1>5, <1>6, <1>7, <1>8, <1>9

LEMMA ApiTyped ==
  ASSUME TypeOK, ApiStep
  PROVE  RecordingsTyped'
<1>1. ASSUME NEW j \in Jobs, Webhook(j) \/ QueueVerified(j) \/ Import(j)
      PROVE  RecordingsTyped'
  <2>1. ledger' \in [Items -> BOOLEAN]
    BY <1>1 DEF Webhook, QueueVerified, Import, EnqueueRecording, TypeOK
  <2>2. meeting' \in [Items -> MeetingStates]
    BY <1>1, MeetingNames DEF Webhook, QueueVerified, Import, TypeOK
  <2> QED
    BY <1>1, <2>1, <2>2 DEF Webhook, QueueVerified, Import, TypeOK, RecordingsTyped
<1>2. ASSUME NEW j \in Jobs, Cancel(j)
      PROVE  RecordingsTyped'
  <2>1. meeting' \in [Items -> MeetingStates]
    BY <1>2, MeetingNames DEF Cancel, TypeOK
  <2> QED
    BY <1>2, <2>1 DEF Cancel, TypeOK, RecordingsTyped
<1>3. ASSUME NEW i \in Items, Reconcile(i) \/ AttachMeeting(i)
      PROVE  RecordingsTyped'
  BY <1>3, MeetingNames DEF Reconcile, AttachMeeting, TypeOK, RecordingsTyped
<1>4. ASSUME NEW h \in Handlers, request' = request \/ RequestMoves(h),
             UNCHANGED <<rows, lock, posts>>
      PROVE  RecordingsTyped'
  BY <1>4 DEF RequestMoves, rows, TypeOK, RecordingsTyped
<1>5. ASSUME NEW h \in Handlers, NEW i \in Items, ImportAgain(h, i) \/ Reprocess(h, i)
      PROVE  RecordingsTyped'
  BY <1>4, <1>5, RequestsTyped DEF ImportAgain, Reprocess
<1>6. ASSUME NEW h \in Handlers, NEW j \in Jobs, RetryRead(h, j)
      PROVE  RecordingsTyped'
  BY <1>4, <1>6, RequestsTyped DEF RetryRead
<1>7. ASSUME NEW h \in Handlers, RetryCheck(h) \/ RequestRefused(h)
      PROVE  RecordingsTyped'
  BY <1>4, <1>7, RequestsTyped DEF RetryCheck, RequestRefused
<1>10. ASSUME NEW h \in Handlers, NEW j \in Jobs, Enqueue(h, j)
      PROVE  RecordingsTyped'
  <2>1. request' \in [Handlers -> RequestState]
    BY <1>10, NoRequests DEF Enqueue, TypeOK
  <2>2. meeting' \in [Items -> MeetingStates]
    BY <1>10, MeetingNames, ItemOfAssumption DEF Enqueue, TypeOK
  <2> QED
    BY <1>10, <2>1, <2>2 DEF Enqueue, TypeOK, RecordingsTyped
<1>8. ASSUME NEW o \in Owners, Unsubscribe(o)
      PROVE  RecordingsTyped'
  BY <1>8 DEF Unsubscribe, TypeOK, RecordingsTyped
<1>9. ASSUME NEW admin \in Admins, NEW j \in Jobs, Cleanup(admin, j)
      PROVE  RecordingsTyped'
  BY <1>9 DEF Cleanup, TypeOK, RecordingsTyped
<1> QED
  BY <1>1, <1>2, <1>3, <1>5, <1>6, <1>7, <1>8, <1>9, <1>10 DEF ApiStep

LEMMA ReviewTyped ==
  ASSUME TypeOK, ReviewStep
  PROVE  RecordingsTyped'
<1>1. \A i \in Items : draft[i] \in Draft
  BY DEF TypeOK
<1>2. ASSUME NEW i \in Items, EditDraft(i)
      PROVE  RecordingsTyped'
  <2>1. [draft[i] EXCEPT !.dirty = TRUE] \in Draft
    BY <1>1 DEF Draft
  <2>2. draft' \in [Items -> Draft]
    BY <1>2, <2>1 DEF EditDraft, TypeOK
  <2> QED
    BY <1>2, <2>2 DEF EditDraft, TypeOK, RecordingsTyped
<1>3. ASSUME NEW i \in Items, SaveDecisions(i)
      PROVE  RecordingsTyped'
  <2>1. [draft[i] EXCEPT !.saves = @ + 1] \in Draft
    BY <1>1, <1>3, MaxSavesAssumption DEF SaveDecisions, Draft
  <2>2. draft' \in [Items -> Draft]
    BY <1>3, <2>1 DEF SaveDecisions, TypeOK
  <2> QED
    BY <1>3, <2>2 DEF SaveDecisions, TypeOK, RecordingsTyped
<1>4. ASSUME NEW i \in Items, Approve(i)
      PROVE  RecordingsTyped'
  BY <1>4, MeetingNames DEF Approve, TypeOK, RecordingsTyped
<1> QED
  BY <1>2, <1>3, <1>4 DEF ReviewStep

LEMMA TypeInit == Init => TypeOK
<1> SUFFICES ASSUME Init PROVE TypeOK
  OBVIOUS
<1>1. AbsentRow \in JobRow /\ IdleWorker \in WorkerState
  BY AbsentRows, IdleWorkers
<1>2. NoRequest \in RequestState /\ CleanDraft \in Draft
  BY NoRequests, MaxSavesAssumption DEF CleanDraft, Draft
<1>3. IdleWorker.pc = "idle" /\ IdleWorker.job = Nobody
  BY DEF IdleWorker
<1> QED
  BY <1>1, <1>2, <1>3, MeetingNames DEF Init, TypeOK, At

LEMMA TypeStep == TypeOK /\ [Next]_vars => TypeOK'
<1> SUFFICES ASSUME TypeOK, [Next]_vars PROVE TypeOK'
  OBVIOUS
<1>1. job' \in [Jobs -> JobRow]
  BY NextRows DEF RowsStep
<1>2. WorkersTyped'
  BY NextWorkers
<1>3. RecordingsTyped'
  <2>1. CASE WorkerStep
    <3>1. ASSUME NEW w \in Workers, NEW j \in Jobs, Claim(w, j) \/ Recover(w, j)
          PROVE  RecordingsTyped'
      BY <3>1, EndsTyped DEF Claim, TakeLease, Recover, TypeOK, RecordingsTyped
    <3>2. ASSUME NEW j \in Jobs, Expire(j)
          PROVE  RecordingsTyped'
      BY <3>2 DEF Expire, TypeOK, RecordingsTyped
    <3> QED
      BY <2>1, <3>1, <3>2, WorkTyped, DisturbTyped DEF WorkerStep
  <2>2. CASE UNCHANGED vars
    BY <2>2 DEF vars, TypeOK, RecordingsTyped
  <2> QED
    BY <2>1, <2>2, ApiTyped, ReviewTyped DEF Next
<1> QED
  BY <1>1, <1>2, <1>3 DEF TypeOK, WorkersTyped, RecordingsTyped, At

\* Every variable stays in its domain, and a worker without a job is idle: TypeOK, for
\* every number of recordings, jobs, workers and requests.
THEOREM TypeCorrect == Spec => []TypeOK
BY TypeInit, TypeStep, PTL DEF Spec

\* No step completes a running job once its owner asked to cancel it: CancelWins, whoever
\* takes the step.
THEOREM CancellationWins == Spec => CancelWins
<1>1. ASSUME TypeOK, [Next]_vars
      PROVE  \A j \in Jobs : job[j].status = "processing" /\ job[j].cancel
                               => job'[j].status # "completed"
  BY <1>1, NextRows DEF RowsStep, RowStep, RetryableStatuses
<1> QED
  BY <1>1, TypeCorrect, PTL DEF Spec, CancelWins

-----------------------------------------------------------------------------
(* No orphaned progress: the inductive invariant.                          *)

\* The partial unique index, which no action reads, holds across all of them.
OneActiveJob ==
  \A j, k \in Jobs : ItemOf[j] = ItemOf[k] /\ Active(j) /\ Active(k) => j = k

\* A worker's job was claimed, by this worker alone.
Holding == \A w \in Workers : ~At(w, "idle") => Row(w).status \notin {"absent", "pending"}
SoleHolder ==
  \A v, w \in Workers : ~At(v, "idle") /\ ~At(w, "idle") /\ worker[v].job = worker[w].job
                          => v = w

\* Only a reprocess meets a conflict, and only a recording is prepared and downloaded.
Kinds ==
  \A w \in Workers : /\ At(w, "conflict") => Reprocessing(w)
                     /\ At(w, "prepare") \/ At(w, "download") => ~Reprocessing(w)

\* The strengthening of NoOrphanedProgress: the job under way is not a reprocess, whose
\* conflicts end it without touching the meeting.
Progress ==
  \A i \in Items : meeting[i] \in InProgressStates =>
    \E j \in JobsOf(i) : job[j].status = "processing" /\ job[j].source # "manual_reprocess"

\* A pipeline that returned while its job is still running left a meeting under review.
Settled ==
  \A w \in Workers : At(w, "finish") /\ Owned(w) => meeting[Item(w)] \notin InProgressStates

IInv ==
  TypeOK /\ OneActiveJob /\ Holding /\ SoleHolder /\ Kinds /\ Progress /\ Settled

LEMMA OneActiveJobStep ==
  ASSUME TypeOK, OneActiveJob, RowsStep, RowsAppearAlone
  PROVE  OneActiveJob'
<1> SUFFICES ASSUME NEW j \in Jobs, NEW k \in Jobs, ItemOf[j] = ItemOf[k],
                    Active(j)', Active(k)', j # k
             PROVE  FALSE
  BY DEF OneActiveJob
<1>1. \A x \in Jobs : Active(x)' => Active(x) \/ job[x].status = "absent"
  BY DEF RowsStep, RowStep, Active, ActiveStatuses, RetryableStatuses
<1>2. \A x \in Jobs : job[x].status = "absent" /\ Active(x)' =>
        NoActiveJob(ItemOf[x]) /\ \A y \in Jobs \ {x} : job'[y] = job[y]
  BY DEF RowsAppearAlone, Active, ActiveStatuses
<1>3. CASE Active(j) /\ Active(k)
  BY <1>3 DEF OneActiveJob
<1>4. CASE job[j].status = "absent"
  <2>1. NoActiveJob(ItemOf[j]) /\ job'[k] = job[k]
    BY <1>2, <1>4
  <2> QED
    BY <2>1 DEF NoActiveJob, JobsOf, Active
<1>5. CASE job[k].status = "absent"
  <2>1. NoActiveJob(ItemOf[k]) /\ job'[j] = job[j]
    BY <1>2, <1>5
  <2> QED
    BY <2>1 DEF NoActiveJob, JobsOf, Active
<1> QED
  BY <1>1, <1>3, <1>4, <1>5

LEMMA HoldingStep ==
  ASSUME TypeOK, Holding, RowsStep, WorkersMove
  PROVE  Holding'
<1> SUFFICES ASSUME NEW w \in Workers, worker'[w].pc # "idle"
             PROVE  job'[worker'[w].job].status \notin {"absent", "pending"}
  BY DEF Holding, At, Row
<1>1. \A j \in Jobs : job[j].status \notin {"absent", "pending"} =>
        job'[j].status \notin {"absent", "pending"}
  BY DEF RowsStep, RowStep, RetryableStatuses
<1>2. WorkerMove(w)
  BY DEF WorkersMove
<1>3. CASE worker'[w].job = worker[w].job /\ ~At(w, "idle")
  BY <1>1, <1>3, BusyWorker DEF Holding, Row
<1>4. CASE worker'[w] = worker[w]
  BY <1>3, <1>4 DEF At
<1> QED
  BY <1>2, <1>3, <1>4 DEF WorkerMove, IdleWorker

LEMMA SoleHolderStep ==
  ASSUME TypeOK, Holding, SoleHolder, WorkersMove
  PROVE  SoleHolder'
<1> SUFFICES ASSUME NEW v \in Workers, NEW w \in Workers, v # w,
                    worker'[v].pc # "idle", worker'[w].pc # "idle",
                    worker'[v].job = worker'[w].job
             PROVE  FALSE
  BY DEF SoleHolder, At
<1>1. WorkerMove(v) /\ WorkerMove(w)
  BY DEF WorkersMove
<1> DEFINE Kept(u) == ~At(u, "idle") /\ worker'[u].job = worker[u].job
           Claimed(u) == /\ \A x \in Workers \ {u} : worker'[x] = worker[x]
                         /\ job[worker'[u].job].status = "pending"
<1>2. \A u \in {v, w} : Kept(u) \/ Claimed(u)
  BY <1>1 DEF WorkerMove, IdleWorker, At
<1>3. CASE Kept(v) /\ Kept(w)
  BY <1>3 DEF SoleHolder
<1>4. CASE Claimed(v)
  BY <1>4 DEF Holding, At, Row
<1>5. CASE Claimed(w)
  BY <1>5 DEF Holding, At, Row
<1> QED
  BY <1>2, <1>3, <1>4, <1>5

LEMMA KindsStep ==
  ASSUME TypeOK, Holding, Kinds, RowsStep, WorkersMove
  PROVE  Kinds'
<1> SUFFICES ASSUME NEW w \in Workers, worker'[w].pc \in {"conflict", "prepare", "download"}
             PROVE  worker'[w].pc = "conflict" <=>
                      job'[worker'[w].job].source = "manual_reprocess"
  BY DEF Kinds, At, Reprocessing, Row
<1>1. WorkerMove(w)
  BY DEF WorkersMove
<1>2. ~At(w, "idle") /\ worker'[w].job = worker[w].job
  BY <1>1 DEF WorkerMove, IdleWorker, At
<1>3. worker[w].job \in Jobs /\ job'[worker[w].job].source = Row(w).source
  BY <1>2, BusyWorker DEF Holding, Row, RowsStep, RowStep
<1>4. worker'[w].pc = "conflict" <=> Reprocessing(w)
  BY <1>1 DEF WorkerMove, MovesTo, Kinds, At, IdleWorker
<1> QED
  BY <1>2, <1>3, <1>4 DEF Reprocessing

\* How a step may move a meeting: out of progress, not at all while its job goes on, or
\* by the worker that owns that job.
GoesOnFor(i) ==
  \A j \in JobsOf(i) : job[j].status = "processing" /\ job[j].source # "manual_reprocess"
                         => job'[j].status = "processing"
Advances(w, i) ==
  /\ ~At(w, "idle") /\ ~At(w, "finish")
  /\ Owned(w) /\ ~Reprocessing(w) /\ Item(w) = i /\ job' = job
MeetingMove(i) ==
  \/ meeting'[i] \notin InProgressStates
  \/ meeting'[i] = meeting[i] /\ GoesOnFor(i)
  \/ \E w \in Workers : Advances(w, i)
MeetingsMove == \A i \in Items : MeetingMove(i)

LEMMA MeetingsStay ==
  ASSUME meeting' = meeting, job' = job
  PROVE  MeetingsMove
BY DEF MeetingsMove, MeetingMove, GoesOnFor, JobsOf

\* A step that writes one row without ending an attempt at a recording.
LEMMA MeetingsStayUnder ==
  ASSUME TypeOK, meeting' = meeting, NEW k \in Jobs, NEW row, job' = [job EXCEPT ![k] = row],
         job[k].status = "processing" /\ job[k].source # "manual_reprocess"
           => row.status = "processing"
  PROVE  MeetingsMove
<1>1. \A j \in Jobs : job'[j] = IF j = k THEN row ELSE job[j]
  BY DEF TypeOK
<1> QED
  BY <1>1 DEF MeetingsMove, MeetingMove, GoesOnFor, JobsOf

\* A step that ends or completes an attempt and leaves its meeting out of progress.
LEMMA MeetingSettles ==
  ASSUME TypeOK, NEW k \in Jobs, NEW row, NEW state \in MeetingStates \ InProgressStates,
         job' = [job EXCEPT ![k] = row],
         meeting' = [meeting EXCEPT ![ItemOf[k]] = state]
  PROVE  MeetingsMove
<1>1. \A j \in Jobs : job'[j] = IF j = k THEN row ELSE job[j]
  BY DEF TypeOK
<1>2. \A i \in Items : meeting'[i] = IF i = ItemOf[k] THEN state ELSE meeting[i]
  BY DEF TypeOK
<1> QED
  BY <1>1, <1>2 DEF MeetingsMove, MeetingMove, GoesOnFor, JobsOf

LEMMA MeetingEnds ==
  ASSUME TypeOK, NEW j \in Jobs, EndAttempt(j)
  PROVE  MeetingsMove
<1>1. ItemOf[j] \in Items
  BY ItemOfAssumption
<1>2. InterruptedMeeting(ItemOf[j], job[j]) \in MeetingStates \ InProgressStates
  BY <1>1, InterruptedMeetings
<1> QED
  BY <1>2, MeetingSettles DEF EndAttempt

\* A step that writes one meeting and no job row.
LEMMA MeetingLeaves ==
  ASSUME TypeOK, NEW w \in Workers, ~At(w, "idle"), NEW state, state \notin InProgressStates,
         SetMeeting(w, state), job' = job
  PROVE  MeetingsMove
<1>1. \A i \in Items : meeting'[i] = IF i = Item(w) THEN state ELSE meeting[i]
  BY BusyWorker DEF SetMeeting, TypeOK
<1> QED
  BY <1>1 DEF MeetingsMove, MeetingMove, GoesOnFor, JobsOf

LEMMA MeetingAdvances ==
  ASSUME TypeOK, NEW w \in Workers, ~At(w, "idle"), ~At(w, "finish"), NEW state,
         SetMeeting(w, state), job' = job, Owned(w), ~Reprocessing(w)
  PROVE  MeetingsMove
<1>1. \A i \in Items : meeting'[i] = IF i = Item(w) THEN state ELSE meeting[i]
  BY BusyWorker DEF SetMeeting, TypeOK
<1> QED
  BY <1>1 DEF MeetingsMove, MeetingMove, GoesOnFor, JobsOf, Advances

LEMMA CheckpointsStay ==
  ASSUME TypeOK, NEW w \in Workers, ~At(w, "idle"), meeting' = meeting,
         job' = job \/ \E status : Checkpoint(w, status)
  PROVE  MeetingsMove
<1>1. CASE job' = job
  BY <1>1, MeetingsStay
<1>2. CASE \E status : Checkpoint(w, status)
  <2>1. PICK status : Checkpoint(w, status)
    BY <1>2
  <2>2. Row(w) \in JobRow /\ worker[w].job \in Jobs
    BY BusyWorker
  <2>3. [Row(w) EXCEPT !.provider = status].status = Row(w).status
    BY <2>2 DEF JobRow
  <2>4. Row(w).status = "processing"
    BY <2>1 DEF Checkpoint, MayCheckpoint, Fenced, Owned
  <2> QED
    BY <2>1, <2>2, <2>3, <2>4, MeetingsStayUnder DEF Checkpoint, SetRow, Row
<1> QED
  BY <1>1, <1>2

LEMMA WorkMeetings ==
  ASSUME TypeOK, Kinds, Settled, NEW w \in Workers, Work(w)
  PROVE  MeetingsMove
<1>1. CASE TryLock(w) \/ Begin(w) \/ ReserveRefused(w) \/ Post(w) \/ Extract(w)
  BY <1>1, MeetingsStay DEF TryLock, Begin, ReserveRefused, Post, Extract, rows
<1>2. CASE Renew(w)
  <2>1. ~At(w, "idle")
    BY <1>2 DEF Renew, At
  <2>2. CASE job' = job
    BY <1>2, <2>2, MeetingsStay DEF Renew
  <2>3. CASE SetRow(w, [Row(w) EXCEPT !.live = TRUE])
    <3>1. Row(w) \in JobRow /\ worker[w].job \in Jobs
      BY <2>1, BusyWorker
    <3>2. [Row(w) EXCEPT !.live = TRUE].status = Row(w).status
      BY <3>1 DEF JobRow
    <3> QED
      BY <1>2, <2>3, <3>1, <3>2, MeetingsStayUnder DEF Renew, SetRow, Row
  <2> QED
    BY <1>2, <2>2, <2>3 DEF Renew
<1>3. CASE StopConflict(w)
  <2>1. ~At(w, "idle") /\ Reprocessing(w) /\ meeting' = meeting
    BY <1>3 DEF StopConflict, At, Kinds
  <2>2. worker[w].job \in Jobs /\ job[worker[w].job].source = "manual_reprocess"
    BY <2>1, BusyWorker DEF Reprocessing, Row
  <2> QED
    BY <1>3, <2>1, <2>2, MeetingsStay, MeetingsStayUnder DEF StopConflict, SetRow
<1>4. CASE Prepare(w)
  <2>1. CASE meeting' = meeting
    BY <1>4, <2>1, MeetingsStay DEF Prepare
  <2>2. CASE meeting' = [meeting EXCEPT ![Item(w)] = IF @ = "none" THEN "queued" ELSE @]
    <3>1. \A i \in Items : meeting'[i] = meeting[i] \/ meeting'[i] = "queued"
      BY <2>2 DEF TypeOK
    <3>2. job' = job
      BY <1>4 DEF Prepare
    <3> QED
      BY <3>1, <3>2 DEF MeetingsMove, MeetingMove, GoesOnFor, JobsOf, InProgressStates
  <2> QED
    BY <1>4, <2>1, <2>2 DEF Prepare
<1>5. CASE StartDownload(w) \/ Fetch(w) \/ Save(w)
  <2>1. ~At(w, "idle") /\ ~At(w, "finish") /\ job' = job
    BY <1>5 DEF StartDownload, Fetch, Save, At
  <2>2. \/ meeting' = meeting
        \/ Owned(w) /\ ~Reprocessing(w) /\ \E state : SetMeeting(w, state)
    BY <1>5 DEF StartDownload, Fetch, Save, Commits, Fenced, Kinds
  <2> QED
    BY <2>1, <2>2, MeetingsStay, MeetingAdvances
<1>6. CASE Reserve(w)
  <2>1. ~At(w, "idle") /\ Row(w).status = "processing"
    BY <1>6 DEF Reserve, At, MayReserve, MayCheckpoint, Fenced, Owned
  <2>2. Row(w) \in JobRow /\ worker[w].job \in Jobs
    BY <2>1, BusyWorker
  <2>3. [Row(w) EXCEPT !.submissions = 1, !.provider = "submitting"].status = "processing"
    BY <2>1, <2>2 DEF JobRow
  <2> QED
    BY <1>6, <2>2, <2>3, MeetingsStayUnder DEF Reserve, ReserveRow, SetRow
<1>7. CASE NoteUnsure(w) \/ NoteRejected(w) \/ NoteLost(w)
  BY <1>7, CheckpointsStay DEF NoteUnsure, NoteRejected, NoteLost, Note, At
<1>8. CASE NoteSubmitted(w) \/ NoteCompleted(w) \/ PollEnds(w)
  BY <1>8, CheckpointsStay DEF NoteSubmitted, NoteCompleted, Advance, PollEnds, At
<1>9. CASE Install(w) \/ InstallReprocess(w)
  <2>1. ~At(w, "idle")
    BY <1>9 DEF Install, InstallReprocess, At
  <2>2. worker[w].job \in Jobs
    BY <2>1, BusyWorker
  <2>3. CASE meeting' = meeting /\ job' = job
    BY <2>3, MeetingsStay
  <2>4. CASE meeting' = meeting /\ Reprocessing(w) /\ SetRow(w, FailedRow(Row(w)))
    <3>1. job[worker[w].job].source = "manual_reprocess"
      BY <2>4 DEF Reprocessing, Row
    <3> QED
      BY <2>2, <2>4, <3>1, MeetingsStayUnder DEF SetRow
  <2>5. CASE SetMeeting(w, "awaiting_review") /\ SetRow(w, CompletedRow(Row(w)))
    <3>1. "awaiting_review" \in MeetingStates \ InProgressStates
      BY MeetingNames DEF InProgressStates
    <3> QED
      BY <2>2, <2>5, <3>1, MeetingSettles DEF SetMeeting, SetRow, Item
  <2> QED
    BY <1>9, <2>3, <2>4, <2>5 DEF Install, InstallReprocess
<1>10. CASE MarkFailed(w)
  <2>1. ~At(w, "idle") /\ ~At(w, "finish") /\ "failed" \notin InProgressStates
    BY <1>10 DEF MarkFailed, At, InProgressStates
  <2>2. job' = job /\ (SetMeeting(w, "failed") \/ meeting' = meeting)
    BY <1>10 DEF MarkFailed
  <2>3. CASE SetMeeting(w, "failed")
    BY <2>1, <2>2, <2>3, MeetingLeaves
  <2>4. CASE meeting' = meeting
    BY <2>2, <2>4, MeetingsStay
  <2> QED
    BY <2>2, <2>3, <2>4
<1>11. CASE FinishOk(w)
  <2>1. ~At(w, "idle")
    BY <1>11 DEF FinishOk, At
  <2>2. worker[w].job \in Jobs /\ Item(w) \in Items /\ Item(w) = ItemOf[worker[w].job]
    BY <2>1, BusyWorker DEF Item
  <2>3. CASE EndAttempt(worker[w].job)
    BY <2>2, <2>3, MeetingEnds
  <2>4. CASE Owned(w) /\ SetRow(w, CompletedRow(Row(w))) /\ meeting' = meeting
    <3>1. meeting[Item(w)] \in MeetingStates \ InProgressStates
      BY <1>11, <2>2, <2>4 DEF FinishOk, Settled, TypeOK
    <3>2. meeting' = [meeting EXCEPT ![Item(w)] = meeting[Item(w)]]
      BY <2>2, <2>4 DEF TypeOK
    <3> QED
      BY <2>2, <2>4, <3>1, <3>2, MeetingSettles DEF SetRow
  <2> QED
    BY <1>11, <2>3, <2>4, MeetingsStay DEF FinishOk, Fenced
<1>12. CASE Unlock(w) \/ Unwind(w)
  BY <1>12, MeetingsStay DEF Unlock, Unwind, rows
<1>13. CASE FinishError(w)
  <2>1. worker[w].job \in Jobs
    BY <1>13, BusyWorker DEF FinishError, At
  <2> QED
    BY <1>13, <2>1, MeetingEnds, MeetingsStay DEF FinishError
<1> QED
  BY <1>1, <1>2, <1>3, <1>4, <1>5, <1>6, <1>7, <1>8, <1>9, <1>10, <1>11, <1>12, <1>13 DEF Work

LEMMA DisturbMeetings ==
  ASSUME TypeOK, NEW w \in Workers, Disturb(w)
  PROVE  MeetingsMove
<1>1. CASE PollProgress(w)
  BY <1>1, CheckpointsStay DEF PollProgress, At
<1>2. CASE Heartbeat(w)
  <2>1. ~At(w, "idle")
    BY <1>2 DEF Heartbeat, At, PipelineStages, ProviderStages
  <2>2. Row(w) \in JobRow /\ worker[w].job \in Jobs
    BY <2>1, BusyWorker
  <2>3. [Row(w) EXCEPT !.live = TRUE].status = Row(w).status
    BY <2>2 DEF JobRow
  <2> QED
    BY <1>2, <2>2, <2>3, MeetingsStayUnder DEF Heartbeat, SetRow, Row
<1>3. CASE ~(PollProgress(w) \/ Heartbeat(w))
  BY <1>3, MeetingsStay DEF Disturb, StopAfterClaim, PrepareFails, StepFails, FinishFails,
     Interrupt, Crash, LockLost, rows
<1> QED
  BY <1>1, <1>2, <1>3

LEMMA QueueMeetings ==
  ASSUME TypeOK, NEW j \in Jobs,
         (\E w \in Workers : Claim(w, j) \/ Recover(w, j)) \/ Expire(j)
  PROVE  MeetingsMove
<1>1. CASE \E w \in Workers : Recover(w, j)
  BY <1>1, MeetingEnds DEF Recover
<1>2. ASSUME NEW w \in Workers, Claim(w, j)
      PROVE  MeetingsMove
  <2>1. \A k \in Jobs \ {j} : job'[k] = job[k]
    BY <1>2 DEF Claim, TakeLease, TypeOK
  <2>2. job[j].status = "pending" /\ meeting' = meeting
    BY <1>2 DEF Claim, TakeLease, Fresh
  <2> QED
    BY <2>1, <2>2 DEF MeetingsMove, MeetingMove, GoesOnFor, JobsOf
<1>3. CASE Expire(j)
  <2>1. job' = [job EXCEPT ![j] = [job[j] EXCEPT !.live = FALSE]] /\ meeting' = meeting
    BY <1>3 DEF Expire, TypeOK
  <2>2. [job[j] EXCEPT !.live = FALSE].status = job[j].status
    BY DEF TypeOK, JobRow
  <2> QED
    BY <2>1, <2>2, MeetingsStayUnder
<1> QED
  BY <1>1, <1>2, <1>3

\* No request puts a meeting in progress or ends a running attempt.
LEMMA ApiMeetings ==
  ASSUME TypeOK, ApiStep
  PROVE  MeetingsMove
<1> DEFINE Quiet == \A i \in Items : meeting'[i] = meeting[i] \/ meeting'[i] \notin InProgressStates
           NoneEnds == \A j \in Jobs : job[j].status = "processing" => job'[j].status = "processing"
<1>1. ASSUME Quiet, NoneEnds
      PROVE  MeetingsMove
  BY <1>1 DEF MeetingsMove, MeetingMove, GoesOnFor, JobsOf
<1>2. "queued" \notin InProgressStates /\ "cancelled" \notin InProgressStates
  BY DEF InProgressStates
<1>3. ASSUME NEW j \in Jobs, Webhook(j) \/ QueueVerified(j) \/ Import(j)
      PROVE  MeetingsMove
  <2>1. \E row : job' = [job EXCEPT ![j] = row] /\ job[j].status = "absent"
    BY <1>3 DEF Webhook, QueueVerified, Import, EnqueueRecording, Insert
  <2>2. NoneEnds
    BY <2>1 DEF TypeOK
  <2>3. Quiet
    BY <1>2, <1>3 DEF Webhook, QueueVerified, Import, TypeOK
  <2> QED
    BY <1>1, <2>2, <2>3
<1>4. ASSUME NEW j \in Jobs, Cancel(j)
      PROVE  MeetingsMove
  <2>1. NoneEnds
    BY <1>4 DEF Cancel, TypeOK, JobRow
  <2>2. Quiet
    BY <1>2, <1>4 DEF Cancel, TypeOK
  <2> QED
    BY <1>1, <2>1, <2>2
<1>5. ASSUME NEW i \in Items, Reconcile(i) \/ AttachMeeting(i)
      PROVE  MeetingsMove
  <2>1. NoneEnds
    BY <1>5 DEF Reconcile, AttachMeeting
  <2>2. Quiet
    BY <1>2, <1>5 DEF Reconcile, AttachMeeting, TypeOK
  <2> QED
    BY <1>1, <2>1, <2>2
<1>6. ASSUME NEW h \in Handlers, NEW j \in Jobs, Enqueue(h, j)
      PROVE  MeetingsMove
  <2>1. NoneEnds
    BY <1>6 DEF Enqueue, EnqueueRetry, Insert, TypeOK
  <2>2. Quiet
    BY <1>2, <1>6 DEF Enqueue, TypeOK
  <2> QED
    BY <1>1, <2>1, <2>2
<1>7. ASSUME NEW h \in Handlers,
             \/ \E i \in Items : ImportAgain(h, i) \/ Reprocess(h, i)
             \/ \E j \in Jobs : RetryRead(h, j)
             \/ RetryCheck(h) \/ RequestRefused(h)
      PROVE  MeetingsMove
  BY <1>7, MeetingsStay DEF ImportAgain, Reprocess, RetryRead, RetryCheck, RequestRefused, rows
<1>8. ASSUME NEW o \in Owners, Unsubscribe(o)
      PROVE  MeetingsMove
  <2>1. NoneEnds /\ Quiet
    BY <1>8 DEF Unsubscribe, Withdrawn
  <2> QED
    BY <1>1, <2>1
<1>9. ASSUME NEW admin \in Admins, NEW j \in Jobs, Cleanup(admin, j)
      PROVE  MeetingsMove
  <2>1. NoneEnds /\ Quiet
    BY <1>9 DEF Cleanup, RetryableStatuses, TypeOK
  <2> QED
    BY <1>1, <2>1
<1> QED
  BY <1>3, <1>4, <1>5, <1>6, <1>7, <1>8, <1>9 DEF ApiStep

LEMMA NextMeetings ==
  ASSUME TypeOK, Kinds, Settled, [Next]_vars
  PROVE  MeetingsMove
<1>1. CASE WorkerStep
  BY <1>1, WorkMeetings, DisturbMeetings, QueueMeetings DEF WorkerStep
<1>2. ASSUME NEW i \in Items, EditDraft(i) \/ SaveDecisions(i) \/ Approve(i)
      PROVE  MeetingsMove
  <2>1. CASE EditDraft(i) \/ SaveDecisions(i)
    BY <2>1, MeetingsStay DEF EditDraft, SaveDecisions
  <2>2. CASE Approve(i)
    <3>1. \A k \in Items : meeting'[k] = meeting[k] \/ meeting'[k] = "approved"
      BY <2>2 DEF Approve, TypeOK
    <3>2. job' = job
      BY <2>2 DEF Approve
    <3> QED
      BY <3>1, <3>2 DEF MeetingsMove, MeetingMove, GoesOnFor, JobsOf, InProgressStates
  <2> QED
    BY <1>2, <2>1, <2>2
<1>3. CASE UNCHANGED vars
  BY <1>3, MeetingsStay DEF vars
<1> QED
  BY <1>1, <1>2, <1>3, ApiMeetings DEF Next, ReviewStep

LEMMA ProgressStep ==
  ASSUME TypeOK, Progress, RowsStep, MeetingsMove
  PROVE  Progress'
<1> SUFFICES ASSUME NEW i \in Items, meeting'[i] \in InProgressStates
             PROVE  \E j \in JobsOf(i) : /\ job'[j].status = "processing"
                                          /\ job'[j].source # "manual_reprocess"
  BY DEF Progress, JobsOf
<1>1. \A j \in Jobs : job[j].status = "processing" => job'[j].source = job[j].source
  BY DEF RowsStep, RowStep
<1>2. MeetingMove(i)
  BY DEF MeetingsMove
<1>3. CASE meeting'[i] = meeting[i] /\ GoesOnFor(i)
  BY <1>1, <1>3 DEF Progress, GoesOnFor, JobsOf
<1>4. CASE \E w \in Workers : Advances(w, i)
  <2>1. PICK w \in Workers : Advances(w, i)
    BY <1>4
  <2>2. worker[w].job \in JobsOf(i)
    BY <2>1, BusyWorker DEF Advances, JobsOf, Item
  <2>3. job'[worker[w].job].status = "processing"
    BY <2>1 DEF Advances, Owned, Row
  <2>4. job'[worker[w].job].source # "manual_reprocess"
    BY <2>1 DEF Advances, Reprocessing, Row
  <2> QED
    BY <2>2, <2>3, <2>4
<1> QED
  BY <1>2, <1>3, <1>4 DEF MeetingMove

LEMMA SettledStep ==
  ASSUME TypeOK, OneActiveJob, Holding, SoleHolder, Settled,
         RowsStep, WorkersMove, MeetingsMove
  PROVE  Settled'
<1> SUFFICES ASSUME NEW w \in Workers, worker'[w].pc = "finish",
                    job'[worker'[w].job].status = "processing",
                    job'[worker'[w].job].token = worker'[w].token
             PROVE  meeting'[ItemOf[worker'[w].job]] \notin InProgressStates
  BY DEF Settled, At, Owned, Row, Item
<1>1. /\ ~At(w, "idle")
      /\ worker'[w].job = worker[w].job /\ worker'[w].token = worker[w].token
      /\ \/ At(w, "finish")
         \/ meeting[Item(w)] \in ReviewStates /\ meeting' = meeting
  <2>1. WorkerMove(w)
    BY DEF WorkersMove
  <2>2. CASE worker'[w] = worker[w]
    BY <2>2 DEF At
  <2>3. CASE ~At(w, "idle") /\ worker'[w].job = worker[w].job
               /\ worker'[w].token = worker[w].token /\ MovesTo(w, "finish")
    BY <2>3 DEF MovesTo
  <2> QED
    BY <2>1, <2>2, <2>3 DEF WorkerMove, IdleWorker
<1>2. CASE meeting[Item(w)] \in ReviewStates /\ meeting' = meeting
  BY <1>1, <1>2 DEF ReviewStates, InProgressStates, Item
<1>3. CASE At(w, "finish")
  <2>1. worker[w].job \in Jobs /\ Item(w) \in Items
    BY <1>1, BusyWorker
  <2>2. Owned(w)
    BY <1>1, <2>1 DEF Holding, RowsStep, RowStep, Owned, Row, RetryableStatuses
  <2>3. meeting[Item(w)] \notin InProgressStates
    BY <1>3, <2>2 DEF Settled
  <2>4. ASSUME NEW v \in Workers, Advances(v, Item(w))
        PROVE  FALSE
    <3>1. worker[v].job \in Jobs /\ worker[v].job # worker[w].job
      BY <1>1, <1>3, <2>4, BusyWorker DEF Advances, SoleHolder
    <3>2. Active(worker[v].job) /\ Active(worker[w].job)
      BY <2>2, <2>4 DEF Advances, Owned, Row, Active, ActiveStatuses
    <3>3. ItemOf[worker[v].job] = ItemOf[worker[w].job]
      BY <2>4 DEF Advances, Item
    <3> QED
      BY <2>1, <3>1, <3>2, <3>3 DEF OneActiveJob
  <2>5. MeetingMove(Item(w))
    BY <2>1 DEF MeetingsMove
  <2> QED
    BY <1>1, <2>3, <2>4, <2>5 DEF MeetingMove, Item
<1> QED
  BY <1>1, <1>2, <1>3

LEMMA InvInit == Init => IInv
<1> SUFFICES ASSUME Init PROVE IInv
  OBVIOUS
<1>1. \A w \in Workers : worker[w].pc = "idle"
  BY DEF Init, IdleWorker
<1>2. \A j \in Jobs : job[j].status = "absent"
  BY DEF Init, AbsentRow, NewRow
<1>3. \A i \in Items : meeting[i] \notin InProgressStates
  BY DEF Init, InProgressStates
<1> QED
  BY <1>1, <1>2, <1>3, TypeInit DEF IInv, OneActiveJob, Holding, SoleHolder, Kinds, Progress,
     Settled, At, Active, ActiveStatuses

LEMMA InvStep == IInv /\ [Next]_vars => IInv'
<1> SUFFICES ASSUME IInv, [Next]_vars PROVE IInv'
  OBVIOUS
<1>1. TypeOK' /\ RowsStep /\ RowsAppearAlone /\ WorkersMove /\ MeetingsMove
  BY TypeStep, NextRows, NextWorkers, NextMeetings DEF IInv
<1> QED
  BY <1>1, OneActiveJobStep, HoldingStep, SoleHolderStep, KindsStep, ProgressStep,
     SettledStep DEF IInv

\* A meeting in progress has a job under way: NoOrphanedProgress, for any number of
\* recordings, attempts, workers and concurrent requests.
THEOREM ProgressIsOwned == Spec => []NoOrphanedProgress
<1>1. IInv => NoOrphanedProgress
  BY DEF IInv, Progress, NoOrphanedProgress
<1> QED
  BY InvInit, InvStep, <1>1, PTL DEF Spec

\* A recording never has two active jobs, whichever workers, requests and recoveries
\* race for it.
THEOREM ActiveJobIsAlone == Spec => []OneActiveJob
<1>1. IInv => OneActiveJob
  BY DEF IInv
<1> QED
  BY InvInit, InvStep, <1>1, PTL DEF Spec

-----------------------------------------------------------------------------
(* The course of an attempt.                                               *)

\* How far a worker is in its attempt, on any of the ways through it.
Depth ==
  [stage \in Stages |->
     CASE stage = "claimed" -> 1
       [] stage = "locked" -> 2
       [] stage = "begin" -> 3
       [] stage \in {"conflict", "prepare"} -> 4
       [] stage = "download" -> 5
       [] stage = "fetch" -> 6
       [] stage = "upload" -> 7
       [] stage = "reserved" -> 8
       [] stage \in {"accepted", "unsure"} -> 9
       [] stage = "polling" -> 10
       [] stage \in {"fetched", "rejected"} -> 11
       [] stage = "lost" -> 12
       [] stage = "transcribed" -> 13
       [] stage = "extract" -> 14
       [] stage = "ready" -> 15
       [] stage \in {"failing", "failing_text"} -> 16
       [] stage = "finish" -> 17
       [] stage = "unlock" -> 18
       [] stage = "unwind" -> 19
       [] stage = "finish_error" -> 20
       [] stage = "idle" -> 21]

\* The stages at which a worker may hold the advisory lock of its recording.
LockStages == PipelineStages \cup {"locked", "finish", "unlock", "unwind"}

\* A worker that moves in its attempt moves on, or is told, once, to stop where it is.
MovesOn(w) ==
  worker[w].job # Nobody /\ worker'[w] # worker[w] =>
    \/ Depth[worker'[w].pc] > Depth[worker[w].pc]
    \/ worker'[w].pc = worker[w].pc /\ ~worker[w].stop /\ worker'[w].stop

\* A worker keeps the advisory lock through the stages that need it, and nobody else gets
\* one meanwhile.
KeepsLocks(w) ==
  /\ \A v \in Workers \ {w} : worker'[v] = worker[v]
  /\ lock' = lock
  /\ worker[w].pc \in LockStages =>
       worker'[w].pc \in LockStages /\ worker'[w].job = worker[w].job

\* The depth of every stage.
LEMMA Depths ==
  /\ Depth["claimed"] = 1 /\ Depth["locked"] = 2 /\ Depth["begin"] = 3
  /\ Depth["conflict"] = 4 /\ Depth["prepare"] = 4 /\ Depth["download"] = 5
  /\ Depth["fetch"] = 6 /\ Depth["upload"] = 7 /\ Depth["reserved"] = 8
  /\ Depth["accepted"] = 9 /\ Depth["unsure"] = 9 /\ Depth["polling"] = 10
  /\ Depth["fetched"] = 11 /\ Depth["rejected"] = 11 /\ Depth["lost"] = 12
  /\ Depth["transcribed"] = 13 /\ Depth["extract"] = 14 /\ Depth["ready"] = 15
  /\ Depth["failing"] = 16 /\ Depth["failing_text"] = 16
  /\ Depth["finish"] = 17 /\ Depth["unlock"] = 18
  /\ Depth["unwind"] = 19 /\ Depth["finish_error"] = 20 /\ Depth["idle"] = 21
BY DEF Depth, Stages, PipelineStages, ProviderStages

\* A worker goes to a later stage, and keeps its lock if that stage may.
LEMMA GoesFurther ==
  ASSUME TypeOK, NEW w \in Workers, NEW stage, Goto(w, stage),
         Depth[stage] > Depth[worker[w].pc],
         worker[w].pc \in LockStages => stage \in LockStages
  PROVE  /\ \A v \in Workers : MovesOn(v)
         /\ lock' = lock => KeepsLocks(w)
<1>1. /\ \A v \in Workers \ {w} : worker'[v] = worker[v]
      /\ worker'[w].pc = stage /\ worker'[w].job = worker[w].job
  BY DEF Goto, TypeOK, WorkerState
<1> QED
  BY <1>1 DEF MovesOn, KeepsLocks

\* A failing pipeline step goes on to the handler of the failure or to the way out.
LEMMA FailsFurther ==
  ASSUME TypeOK, NEW w \in Workers, Fails(w) \/ Refused(w),
         Depth[worker[w].pc] < 16
  PROVE  /\ \A v \in Workers : MovesOn(v)
         /\ lock' = lock => KeepsLocks(w)
<1>1. {"failing", "failing_text", "unwind"} \subseteq LockStages
  BY DEF LockStages, PipelineStages
<1>2. worker[w].pc \in Stages
  BY DEF TypeOK, WorkerState
<1>3. Depth[worker[w].pc] \in Nat
  BY <1>2, Depths DEF Stages, PipelineStages, ProviderStages
<1>4. Goto(w, "failing") \/ Goto(w, "failing_text") \/ Goto(w, "unwind")
  BY DEF Fails, Refused
<1> QED
  BY <1>1, <1>3, <1>4, Depths, GoesFurther

\* A worker that drops its job is as far as it gets.
LEMMA DropsFurther ==
  ASSUME TypeOK, NEW w \in Workers, worker' = [worker EXCEPT ![w] = IdleWorker]
  PROVE  \A v \in Workers : MovesOn(v)
<1>1. \A v \in Workers \ {w} : worker'[v] = worker[v]
  BY DEF TypeOK
<1>2. worker'[w].pc = "idle"
  BY DEF TypeOK, IdleWorker
<1>3. worker[w].job # Nobody => worker[w].pc \in Stages \ {"idle"}
  BY DEF TypeOK, WorkerState, At
<1>4. \A stage \in Stages \ {"idle"} : Depth[stage] < Depth["idle"]
  BY Depths DEF Stages, PipelineStages, ProviderStages
<1> QED
  BY <1>1, <1>2, <1>3, <1>4 DEF MovesOn

\* Nobody moves.
LEMMA NobodyMoves ==
  ASSUME worker' = worker
  PROVE  \A v \in Workers : MovesOn(v)
BY DEF MovesOn

\* What a step of one worker does to its attempt and to the locks: it keeps what it holds,
\* it takes the free lock of its recording, or it gives its own lock up.
LockMove(w) ==
  \/ KeepsLocks(w)
  \/ /\ \A v \in Workers \ {w} : worker'[v] = worker[v]
     /\ At(w, "claimed") /\ worker'[w].pc = "locked" /\ worker'[w].job = worker[w].job
     /\ lock[Item(w)] = Nobody /\ lock' = [lock EXCEPT ![Item(w)] = w]
  \/ /\ \A v \in Workers \ {w} : worker'[v] = worker[v]
     /\ lock' = Unlocked(w)

\* What a worker left alone does.
LEMMA WorkAdvances ==
  ASSUME TypeOK, NEW w \in Workers, Work(w)
  PROVE  (\A v \in Workers : MovesOn(v)) /\ LockMove(w)
<1>0. /\ PipelineStages \subseteq LockStages
      /\ {"locked", "finish", "unlock", "unwind"} \subseteq LockStages
      /\ {"claimed", "finish_error"} \cap LockStages = {}
      /\ {"begin", "conflict", "prepare", "download", "fetch", "upload", "reserved",
          "accepted", "unsure", "polling", "fetched", "rejected", "lost", "transcribed",
          "extract", "ready", "failing"} \subseteq PipelineStages
  BY DEF LockStages, PipelineStages, ProviderStages
<1>1. CASE TryLock(w)
  <2>1. CASE lock[Item(w)] = Nobody
    <3>1. At(w, "claimed") /\ Goto(w, "locked") /\ lock' = [lock EXCEPT ![Item(w)] = w]
      BY <1>1, <2>1 DEF TryLock
    <3>2. \A v \in Workers : MovesOn(v)
      BY <1>0, <3>1, Depths, GoesFurther DEF At
    <3>3. /\ \A v \in Workers \ {w} : worker'[v] = worker[v]
          /\ worker'[w].pc = "locked" /\ worker'[w].job = worker[w].job
      BY <3>1 DEF Goto, TypeOK, WorkerState
    <3> QED
      BY <2>1, <3>1, <3>2, <3>3 DEF LockMove
  <2>2. CASE lock[Item(w)] # Nobody
    <3>1. At(w, "claimed") /\ Goto(w, "finish_error") /\ lock' = lock
      BY <1>1, <2>2 DEF TryLock
    <3> QED
      BY <1>0, <3>1, Depths, GoesFurther DEF At, LockMove
  <2> QED
    BY <2>1, <2>2
<1>2. CASE Renew(w) \/ StopConflict(w) \/ StartDownload(w)
  <2>1. lock' = lock
    BY <1>2 DEF Renew, StopConflict, StartDownload
  <2>2. \/ Refused(w) /\ worker[w].pc \in {"locked", "download"}
        \/ At(w, "locked") /\ Goto(w, "begin")
        \/ At(w, "conflict") /\ Goto(w, "unwind")
        \/ At(w, "download") /\ Goto(w, "fetch")
    BY <1>2 DEF Renew, StopConflict, StartDownload, Commits, At
  <2> QED
    BY <1>0, <2>1, <2>2, Depths, GoesFurther, FailsFurther DEF At, LockMove
<1>3. CASE Begin(w)
  <2>1. lock' = lock /\ At(w, "begin")
    BY <1>3 DEF Begin
  <2>2. CASE worker' = [worker EXCEPT ![w].pc = "fetch", ![w].base = draft[Item(w)]]
    <3>1. /\ \A v \in Workers \ {w} : worker'[v] = worker[v]
          /\ worker'[w].pc = "fetch" /\ worker'[w].job = worker[w].job
      BY <2>2 DEF TypeOK, WorkerState
    <3> QED
      BY <1>0, <2>1, <3>1, Depths DEF At, MovesOn, KeepsLocks, LockMove
  <2>3. CASE \/ Refused(w) \/ Goto(w, "conflict") \/ Goto(w, "finish") \/ Goto(w, "prepare")
    BY <1>0, <2>1, <2>3, Depths, GoesFurther, FailsFurther DEF At, LockMove
  <2> QED
    BY <1>3, <2>2, <2>3 DEF Begin, Commits
<1>4. CASE Prepare(w) \/ Fetch(w)
  <2>1. lock' = lock
    BY <1>4 DEF Prepare, Fetch
  <2>2. \/ Refused(w) /\ worker[w].pc \in {"prepare", "fetch"}
        \/ At(w, "prepare") /\ (Goto(w, "transcribed") \/ Goto(w, "download"))
        \/ At(w, "fetch") /\ Goto(w, "upload")
    BY <1>4 DEF Prepare, Fetch, Commits, At
  <2> QED
    BY <1>0, <2>1, <2>2, Depths, GoesFurther, FailsFurther DEF At, LockMove
<1>5. CASE Reserve(w) \/ ReserveRefused(w)
  <2>1. lock' = lock /\ At(w, "upload") /\ (Fails(w) \/ Goto(w, "reserved"))
    BY <1>5 DEF Reserve, ReserveRefused
  <2> QED
    BY <1>0, <2>1, Depths, GoesFurther, FailsFurther DEF At, LockMove
<1>6. CASE Post(w)
  <2>1. lock' = lock /\ At(w, "reserved") /\ (Goto(w, "accepted") \/ Goto(w, "unsure"))
    BY <1>6 DEF Post
  <2> QED
    BY <1>0, <2>1, Depths, GoesFurther DEF At, LockMove
<1>7. CASE NoteUnsure(w) \/ NoteRejected(w) \/ NoteLost(w)
  <2>1. /\ lock' = lock /\ worker[w].pc \in {"unsure", "rejected", "lost"}
        /\ Fails(w) \/ Goto(w, "unwind")
    BY <1>7 DEF NoteUnsure, NoteRejected, NoteLost, Note, AfterNote, At
  <2> QED
    BY <1>0, <2>1, Depths, GoesFurther, FailsFurther DEF LockMove
<1>8. CASE NoteSubmitted(w) \/ NoteCompleted(w) \/ PollEnds(w)
  <2>1. lock' = lock
    BY <1>8 DEF NoteSubmitted, NoteCompleted, PollEnds, Advance
  <2>2. \/ Fails(w) /\ worker[w].pc \in {"accepted", "fetched"}
        \/ At(w, "accepted") /\ Goto(w, "polling")
        \/ At(w, "fetched") /\ Goto(w, "transcribed")
        \/ At(w, "polling") /\ (Goto(w, "fetched") \/ Goto(w, "rejected") \/ Goto(w, "lost"))
    BY <1>8 DEF NoteSubmitted, NoteCompleted, PollEnds, Advance, At
  <2> QED
    BY <1>0, <2>1, <2>2, Depths, GoesFurther, FailsFurther DEF At, LockMove
<1>9. CASE Save(w) \/ Extract(w)
  <2>1. lock' = lock
    BY <1>9 DEF Save, Extract, rows
  <2>2. \/ Refused(w) /\ worker[w].pc \in {"transcribed", "extract"}
        \/ At(w, "transcribed") /\ Goto(w, "extract")
        \/ At(w, "extract") /\ Goto(w, "ready")
    BY <1>9 DEF Save, Extract, Commits, At
  <2> QED
    BY <1>0, <2>1, <2>2, Depths, GoesFurther, FailsFurther DEF At, LockMove
<1>10. CASE Install(w) \/ InstallReprocess(w)
  <2>1. /\ lock' = lock /\ At(w, "ready")
        /\ Refused(w) \/ Goto(w, "finish") \/ Goto(w, "unwind")
    BY <1>10 DEF Install, InstallReprocess, Commits
  <2> QED
    BY <1>0, <2>1, Depths, GoesFurther, FailsFurther DEF At, LockMove
<1>11. CASE MarkFailed(w) \/ FinishOk(w)
  <2>1. /\ lock' = lock
        /\ \/ At(w, "failing") /\ Goto(w, "unwind")
           \/ At(w, "failing_text") /\ Goto(w, "unwind")
           \/ At(w, "finish") /\ Goto(w, "unlock")
    BY <1>11 DEF MarkFailed, FinishOk
  <2> QED
    BY <1>0, <2>1, Depths, GoesFurther DEF At, LockMove
<1>12. CASE Unlock(w)
  <2>1. lock' = Unlocked(w) /\ worker' = [worker EXCEPT ![w] = IdleWorker]
    BY <1>12 DEF Unlock
  <2>2. \A v \in Workers \ {w} : worker'[v] = worker[v]
    BY <2>1 DEF TypeOK
  <2> QED
    BY <2>1, <2>2, DropsFurther DEF LockMove
<1>13. CASE Unwind(w)
  <2>1. lock' = Unlocked(w) /\ At(w, "unwind") /\ Goto(w, "finish_error")
    BY <1>13 DEF Unwind
  <2>2. worker'[w].pc = "finish_error" /\ \A v \in Workers \ {w} : worker'[v] = worker[v]
    BY <2>1 DEF Goto, TypeOK, WorkerState
  <2>3. \A v \in Workers : MovesOn(v)
    BY <2>1, <2>2, Depths DEF At, MovesOn
  <2> QED
    BY <2>1, <2>2, <2>3 DEF LockMove
<1>14. CASE FinishError(w)
  <2>1. /\ lock' = lock /\ At(w, "finish_error")
        /\ worker' = [worker EXCEPT ![w] = IdleWorker]
    BY <1>14 DEF FinishError
  <2>2. \A v \in Workers \ {w} : worker'[v] = worker[v]
    BY <2>1 DEF TypeOK
  <2>3. KeepsLocks(w)
    BY <1>0, <2>1, <2>2 DEF KeepsLocks, At
  <2> QED
    BY <2>1, <2>3, DropsFurther DEF LockMove
<1> QED
  BY <1>1, <1>2, <1>3, <1>4, <1>5, <1>6, <1>7, <1>8, <1>9, <1>10, <1>11, <1>12, <1>13, <1>14
     DEF Work

\* What may happen to it.
LEMMA DisturbAdvances ==
  ASSUME TypeOK, NEW w \in Workers, Disturb(w)
  PROVE  (\A v \in Workers : MovesOn(v)) /\ LockMove(w)
<1>0. /\ PipelineStages \subseteq LockStages
      /\ {"locked", "finish", "unlock", "unwind"} \subseteq LockStages
      /\ {"claimed", "finish_error"} \cap LockStages = {}
      /\ {"begin", "conflict", "prepare", "download", "fetch", "upload", "reserved",
          "accepted", "unsure", "polling", "fetched", "rejected", "lost", "transcribed",
          "extract", "ready", "failing", "failing_text"} = PipelineStages
  BY DEF LockStages, PipelineStages, ProviderStages
<1>1. CASE StopAfterClaim(w) \/ PrepareFails(w) \/ FinishFails(w)
  <2>1. /\ lock' = lock
        /\ \/ At(w, "claimed") /\ Goto(w, "finish_error")
           \/ At(w, "prepare") /\ Goto(w, "unwind")
           \/ At(w, "finish") /\ Goto(w, "unwind")
    BY <1>1 DEF StopAfterClaim, PrepareFails, FinishFails
  <2> QED
    BY <1>0, <2>1, Depths, GoesFurther DEF At, LockMove
<1>2. CASE StepFails(w)
  <2>1. /\ lock' = lock /\ Fails(w)
        /\ worker[w].pc \in {"download", "fetch", "upload", "transcribed", "extract", "ready"}
    BY <1>2 DEF StepFails
  <2> QED
    BY <2>1, Depths, FailsFurther DEF LockMove
<1>3. CASE PollProgress(w) \/ Heartbeat(w)
  <2>1. lock' = lock /\ worker' = worker
    BY <1>3 DEF PollProgress, Heartbeat
  <2> QED
    BY <2>1, NobodyMoves DEF KeepsLocks, LockMove
<1>4. CASE LockLost(w)
  <2>1. lock' = Unlocked(w) /\ worker' = worker
    BY <1>4 DEF LockLost
  <2> QED
    BY <2>1, NobodyMoves DEF LockMove
<1>5. CASE Crash(w)
  <2>1. lock' = Unlocked(w) /\ worker' = [worker EXCEPT ![w] = IdleWorker]
    BY <1>5 DEF Crash
  <2>2. \A v \in Workers \ {w} : worker'[v] = worker[v]
    BY <2>1 DEF TypeOK
  <2> QED
    BY <2>1, <2>2, DropsFurther DEF LockMove
<1>6. CASE Interrupt(w)
  <2>1. lock' = lock /\ worker[w].pc \in PipelineStages /\ ~worker[w].stop
    BY <1>6 DEF Interrupt
  <2>2. PICK stage \in {"reserved", "unwind", "unsure", "lost"} :
          /\ worker' = [worker EXCEPT ![w].pc = stage, ![w].stop = TRUE]
          /\ stage = "reserved" => At(w, "reserved")
          /\ stage = "unsure" => At(w, "unsure")
          /\ stage = "lost" => worker[w].pc \in {"polling", "fetched", "rejected"}
    BY <1>6 DEF Interrupt, At
  <2>3. /\ \A v \in Workers \ {w} : worker'[v] = worker[v]
        /\ worker'[w].pc = stage /\ worker'[w].job = worker[w].job /\ worker'[w].stop
    BY <2>2 DEF TypeOK, WorkerState
  <2>4. KeepsLocks(w)
    BY <1>0, <2>1, <2>3 DEF KeepsLocks
  <2>5. stage = worker[w].pc \/ Depth[stage] > Depth[worker[w].pc]
    BY <1>0, <2>1, <2>2, Depths DEF At
  <2> QED
    BY <2>1, <2>3, <2>4, <2>5 DEF MovesOn, LockMove
<1> QED
  BY <1>1, <1>2, <1>3, <1>4, <1>5, <1>6 DEF Disturb

\* Who else may move: a worker that claims a job, none otherwise.
LEMMA OthersAdvance ==
  ASSUME TypeOK, [Next]_vars
  PROVE  \/ \E w \in Workers : (\A v \in Workers : MovesOn(v)) /\ LockMove(w)
         \/ worker' = worker /\ lock' = lock
         \/ /\ \E w \in Workers : /\ At(w, "idle")
                                  /\ \A v \in Workers \ {w} : worker'[v] = worker[v]
            /\ lock' = lock
<1>1. ASSUME NEW w \in Workers, NEW j \in Jobs, Claim(w, j)
      PROVE  /\ At(w, "idle") /\ lock' = lock
             /\ \A v \in Workers \ {w} : worker'[v] = worker[v]
  BY <1>1 DEF Claim, TakeLease, TypeOK
<1>2. ASSUME NEW w \in Workers, NEW j \in Jobs, Recover(w, j)
      PROVE  worker' = worker /\ lock' = lock
  BY <1>2 DEF Recover
<1>3. ASSUME NEW j \in Jobs, Expire(j)
      PROVE  worker' = worker /\ lock' = lock
  BY <1>3 DEF Expire
<1>4. CASE ApiStep
  BY <1>4 DEF ApiStep, Webhook, QueueVerified, Import, Cancel, Reconcile, AttachMeeting,
     ImportAgain, Reprocess, RetryRead, RetryCheck, Enqueue, RequestRefused, Unsubscribe,
     Cleanup
<1>5. CASE ReviewStep \/ UNCHANGED vars
  BY <1>5 DEF ReviewStep, EditDraft, SaveDecisions, Approve, vars
<1> QED
  BY <1>1, <1>2, <1>3, <1>4, <1>5, WorkAdvances, DisturbAdvances DEF Next, WorkerStep

\* No stage twice: a worker that has a job only moves to a later stage of its attempt, or is
\* told, once, to stop where it is.
AttemptsMoveOn == [][\A w \in Workers : MovesOn(w)]_vars

\* However commits are refused, steps fail and the attempt is interrupted, no worker ever
\* comes back to a stage it has left with the same claim, so an attempt ends after boundedly
\* many of its own steps: the safety half of EveryAttemptEnds.
THEOREM AttemptsGoForward == Spec => AttemptsMoveOn
<1>1. ASSUME TypeOK, [Next]_vars
      PROVE  \A w \in Workers : MovesOn(w)
  <2>1. CASE \E w \in Workers : /\ At(w, "idle")
                                /\ \A v \in Workers \ {w} : worker'[v] = worker[v]
    BY <1>1, <2>1 DEF MovesOn, TypeOK
  <2> QED
    BY <1>1, <2>1, OthersAdvance, NobodyMoves
<1> QED
  BY <1>1, TypeCorrect, PTL DEF Spec, AttemptsMoveOn

\* The advisory lock of a recording is held only by a worker that is busy with that very
\* recording and has yet to release it.
LocksAreHeld ==
  \A i \in Items, w \in Workers :
    lock[i] = w => worker[w].pc \in LockStages /\ Item(w) = i

\* A step of a worker keeps it so.
LEMMA LocksMove ==
  ASSUME TypeOK, LocksAreHeld, NEW w \in Workers, LockMove(w)
  PROVE  LocksAreHeld'
<1> SUFFICES ASSUME NEW i \in Items, NEW v \in Workers, lock'[i] = v
             PROVE  worker'[v].pc \in LockStages /\ ItemOf[worker'[v].job] = i
  BY DEF LocksAreHeld, Item
<1>1. CASE KeepsLocks(w)
  <2>1. worker[v].pc \in LockStages /\ ItemOf[worker[v].job] = i
    BY <1>1 DEF KeepsLocks, LocksAreHeld, Item
  <2> QED
    BY <1>1, <2>1 DEF KeepsLocks
<1>2. CASE /\ \A u \in Workers \ {w} : worker'[u] = worker[u]
           /\ worker'[w].pc = "locked" /\ worker'[w].job = worker[w].job
           /\ At(w, "claimed") /\ lock' = [lock EXCEPT ![Item(w)] = w]
  <2>1. "locked" \in LockStages /\ worker[w].pc \notin LockStages
    BY <1>2 DEF LockStages, PipelineStages, ProviderStages, At
  <2>2. CASE v = w
    <3>1. lock[i] # w
      BY <2>1 DEF LocksAreHeld
    <3>2. i = Item(w)
      BY <1>2, <2>2, <3>1 DEF TypeOK
    <3> QED
      BY <1>2, <2>1, <2>2, <3>2 DEF Item
  <2>3. CASE v # w
    <3>1. lock[i] = v
      BY <1>2, <2>3 DEF TypeOK
    <3> QED
      BY <1>2, <2>3, <3>1 DEF LocksAreHeld, Item
  <2> QED
    BY <2>2, <2>3
<1>3. CASE /\ \A u \in Workers \ {w} : worker'[u] = worker[u]
           /\ lock' = Unlocked(w)
  <2>1. lock[i] = v /\ (i = Item(w) => v # w)
    BY <1>3, NobodyAssumption DEF Unlocked, TypeOK
  <2>2. v # w
    BY <2>1 DEF LocksAreHeld
  <2> QED
    BY <1>3, <2>1, <2>2 DEF LocksAreHeld, Item
<1> QED
  BY <1>1, <1>2, <1>3 DEF LockMove

\* No advisory lock leaks: no crash, lost session, refused commit or early stop leaves one
\* behind, so a recovery that finds a recording locked has met a worker still busy with it.
THEOREM LocksDoNotLeak == Spec => []LocksAreHeld
<1>1. Init => LocksAreHeld
  BY NobodyAssumption DEF Init, LocksAreHeld
<1>2. ASSUME TypeOK, LocksAreHeld, [Next]_vars
      PROVE  LocksAreHeld'
  <2>1. CASE worker' = worker /\ lock' = lock
    BY <1>2, <2>1 DEF LocksAreHeld, Item
  <2>2. CASE /\ lock' = lock
             /\ \E w \in Workers : /\ At(w, "idle")
                                   /\ \A v \in Workers \ {w} : worker'[v] = worker[v]
    <3>1. PICK w \in Workers : /\ At(w, "idle")
                               /\ \A v \in Workers \ {w} : worker'[v] = worker[v]
      BY <2>2
    <3>2. \A i \in Items : lock[i] # w
      BY <1>2, <3>1 DEF LocksAreHeld, At, LockStages, PipelineStages, ProviderStages
    <3> QED
      BY <1>2, <2>2, <3>1, <3>2 DEF LocksAreHeld, Item
  <2> QED
    BY <1>2, <2>1, <2>2, OthersAdvance, LocksMove
<1> QED
  BY <1>1, <1>2, TypeCorrect, PTL DEF Spec

-----------------------------------------------------------------------------
(* No job is out of reach.                                                 *)

\* What waits has not been tried, and what is under way was authorized.
RowsWithinReach ==
  \A j \in Jobs : /\ job[j].status = "pending" => Unused(job[j])
                  /\ job[j].status = "processing" => job[j].admitted

\* A worker that asks for work is not refused it: whatever is authorized and waits meets the
\* claim query, and an attempt gone silent the recovery query, unless a worker still at work
\* holds the lock of the recording.
NoJobIsStranded ==
  \A w \in Workers, j \in Selected : At(w, "idle") =>
    /\ job[j].status = "pending" /\ job[j].admitted => Fresh(j)
    /\ job[j].status = "processing" /\ ~job[j].live =>
         \/ Recoverable(w, j)
         \/ \E v \in Workers : /\ lock[ItemOf[j]] = v
                               /\ worker[v].pc \in LockStages /\ Item(v) = ItemOf[j]

\* The conditions on attempts, submission_count and the admission columns (worker.py:126-130,
\* worker.py:70-73) leave no job behind: with AttemptsGoForward, what of AuthorizedJobsStart
\* and EveryAttemptEnds is safety.  No row meets the branch for exhausted jobs.
THEOREM JobsStayWithinReach == Spec => []NoJobIsStranded
<1>1. Init => RowsWithinReach
  BY DEF Init, RowsWithinReach, AbsentRow, NewRow
<1>2. ASSUME TypeOK, RowsWithinReach, [Next]_vars
      PROVE  RowsWithinReach'
  <2>1. \A j \in Jobs : RowStep(job[j], job'[j])
    BY <1>2, NextRows DEF RowsStep
  <2>2. ASSUME NEW j \in Jobs, job'[j].status = "pending"
        PROVE  Unused(job'[j])
    BY <1>2, <2>1, <2>2 DEF RowsWithinReach, RowStep
  <2>3. ASSUME NEW j \in Jobs, job'[j].status = "processing"
        PROVE  job'[j].admitted
    BY <1>2, <2>1, <2>3 DEF RowsWithinReach, RowStep
  <2> QED
    BY <2>2, <2>3 DEF RowsWithinReach, Unused
<1>3. TypeOK /\ RowsWithinReach /\ LocksAreHeld => NoJobIsStranded
  BY SelectedAssumption, ItemOfAssumption
     DEF TypeOK, RowsWithinReach, LocksAreHeld, NoJobIsStranded, Unused, Fresh, Recoverable
<1> QED
  BY <1>1, <1>2, <1>3, TypeCorrect, LocksDoNotLeak, PTL DEF Spec
=============================================================================
