--------------------------- MODULE WorkerPipeline ---------------------------
(***************************************************************************)
(* A worker process: it claims a job, takes the recording's advisory lock, *)
(* runs the pipeline under a heartbeat, and finishes the job; it recovers  *)
(* jobs whose lease expired.                                               *)
(*                                                                         *)
(* Each action ends at a commit or at an await on another service, so any  *)
(* step of another process may come between two of them.  worker[w].pc is  *)
(* the await the worker is at:                                             *)
(*                                                                         *)
(*   idle -> claimed -> locked -> begin                                    *)
(*   begin -> prepare -> download -> fetch        a recording              *)
(*   begin -> fetch  (or conflict)                a reprocess              *)
(*   fetch -> upload -> reserved -> accepted -> polling -> fetched         *)
(*         -> transcribed -> extract -> ready -> finish -> unlock -> idle  *)
(*                                                                         *)
(* and, leaving that path, unsure / rejected / lost for the provider call, *)
(* failing for the handler that marks the meeting failed (failing_text if  *)
(* the session holds a transcript not yet committed), unwind for the       *)
(* release of the lock under an exception, finish_error for _finish(exc).  *)
(***************************************************************************)
EXTENDS JobRows

ProviderStages == {"reserved", "accepted", "unsure", "polling", "fetched", "rejected",
                   "lost"}
PipelineStages == {"begin", "conflict", "prepare", "download", "fetch", "upload",
                   "transcribed", "extract", "ready", "failing", "failing_text"}
                    \cup ProviderStages
Stages == {"idle", "claimed", "locked", "finish", "unlock", "unwind", "finish_error"}
            \cup PipelineStages

\* stop: the pipeline task was cancelled; base: the draft a reprocess fingerprinted.
WorkerState == [pc : Stages, job : Jobs \cup {Nobody}, token : Nat, stop : BOOLEAN,
                base : Draft]

CleanDraft == [dirty |-> FALSE, saves |-> 0]
IdleWorker == [pc |-> "idle", job |-> Nobody, token |-> 0, stop |-> FALSE,
               base |-> CleanDraft]

-----------------------------------------------------------------------------
(* What a worker knows of its job, and the fences its commits carry.       *)

Item(w) == ItemOf[worker[w].job]
Row(w) == job[worker[w].job]
Reprocessing(w) == Row(w).source = "manual_reprocess"

\* The lease is still this worker's: _owned.
Owned(w) == Row(w).status = "processing" /\ Row(w).token = worker[w].token

\* Mutant: the fence checks the lease and not the cancellation request.
Fenced_IgnoresCancel(w) == Owned(w)

\* guarded_commit and _renew also refuse once a cancellation was requested.
Fenced(w) == Owned(w) /\ ~Row(w).cancel

\* A provider checkpoint also refuses without admission or with an expired lease.
MayCheckpoint(w) == Fenced(w) /\ Row(w).admitted /\ Row(w).live

At(w, stage) == worker[w].pc = stage
Goto(w, stage) == worker' = [worker EXCEPT ![w].pc = stage]
SetRow(w, row) == job' = [job EXCEPT ![worker[w].job] = row]
SetMeeting(w, state) ==
  MeetingFree(Item(w)) /\ meeting' = [meeting EXCEPT ![Item(w)] = state]
Checkpoint(w, status) == MayCheckpoint(w) /\ SetRow(w, [Row(w) EXCEPT !.provider = status])

\* An exception in the pipeline: only the recording path has a handler for it.
Fails(w) ==
  Goto(w, IF Reprocessing(w) THEN "unwind"
          ELSE IF At(w, "transcribed") THEN "failing_text" ELSE "failing")

\* A pipeline step commits under the fence, or is refused and unwinds.
Commits(w, next) == Fenced(w) /\ Goto(w, next)
Refused(w) == ~Fenced(w) /\ Goto(w, "unwind")

-----------------------------------------------------------------------------
(* Claiming, locking, starting.                                            *)

\* The claim: a new lease, the one attempt used up.
TakeLease(w, j) ==
  LET token == job[j].attempts + 1 IN
  /\ job' = [job EXCEPT ![j].status = "processing", ![j].attempts = @ + 1,
                        ![j].token = token, ![j].live = TRUE]
  /\ worker' = [worker EXCEPT ![w] = [IdleWorker EXCEPT !.pc = "claimed", !.job = j,
                                        !.token = token]]
  /\ UNCHANGED <<ledger, meeting, transcript, draft, lock, request, posts>>

Fresh(j) == job[j].status = "pending" /\ job[j].attempts = 0 /\ job[j].submissions = 0

\* Mutant: the admission columns are not part of the claim query.
Claim_Unadmitted(w, j) ==
  At(w, "idle") /\ j \in Selected /\ Fresh(j) /\ TakeLease(w, j)

\* Mutant: recordings that already reached review are passed over, reprocesses with them.
Claim_SkipsReview(w, j) ==
  /\ At(w, "idle") /\ j \in Selected /\ Fresh(j) /\ job[j].admitted
  /\ meeting[ItemOf[j]] \notin ReviewStates
  /\ TakeLease(w, j)

\* _claim_next: the row lock is taken with SKIP LOCKED, so a claim is one step.
Claim(w, j) ==
  At(w, "idle") /\ j \in Selected /\ Fresh(j) /\ job[j].admitted /\ TakeLease(w, j)

\* A stop request between the claim and the start of the attempt, or while it locks.
StopAfterClaim(w) ==
  /\ At(w, "claimed")
  /\ Goto(w, "finish_error")
  /\ UNCHANGED <<rows, lock, request, posts>>

\* _recording_lock: never waits, a held lock fails the attempt.
TryLock(w) ==
  /\ At(w, "claimed")
  /\ \/ lock[Item(w)] = Nobody /\ lock' = [lock EXCEPT ![Item(w)] = w] /\ Goto(w, "locked")
     \/ lock[Item(w)] # Nobody /\ Goto(w, "finish_error") /\ UNCHANGED lock
  /\ UNCHANGED <<rows, request, posts>>

\* The first _renew, under the lock, before the pipeline task starts.
Renew(w) ==
  /\ At(w, "locked")
  /\ \/ Commits(w, "begin") /\ SetRow(w, [Row(w) EXCEPT !.live = TRUE])
     \/ Refused(w) /\ UNCHANGED job
  /\ UNCHANGED <<ledger, meeting, transcript, draft, lock, request, posts>>

\* process_recording up to its first decision: the fence, then the meeting is read.
Begin(w) ==
  /\ At(w, "begin")
  /\ \/ /\ Fenced(w) /\ Reprocessing(w) /\ Clean(Item(w))
        /\ worker' = [worker EXCEPT ![w].pc = "fetch", ![w].base = draft[Item(w)]]
     \/ Reprocessing(w) /\ ~Clean(Item(w)) /\ Commits(w, "conflict")
     \/ ~Reprocessing(w) /\ meeting[Item(w)] \in ReviewStates /\ Commits(w, "finish")
     \/ ~Reprocessing(w) /\ meeting[Item(w)] \notin ReviewStates /\ Commits(w, "prepare")
     \/ Refused(w)
  /\ UNCHANGED <<rows, lock, request, posts>>

\* _stop_reprocess_conflict: needs the lease only, so a cancellation request is ignored.
StopConflict(w) ==
  /\ At(w, "conflict")
  /\ IF Owned(w) THEN SetRow(w, FailedRow(Row(w))) ELSE UNCHANGED job
  /\ Goto(w, "unwind")
  /\ UNCHANGED <<ledger, meeting, transcript, draft, lock, request, posts>>

-----------------------------------------------------------------------------
(* The pipeline: metadata, download, transcription, extraction.            *)

\* The meeting row, the owner as participant and the attendees; a row already complete
\* leaves nothing to commit here.  A saved transcript skips the paid transcription.
Prepare(w) ==
  /\ At(w, "prepare")
  /\ \/ /\ Fenced(w) \/ meeting[Item(w)] # "none"
        /\ meeting' = [meeting EXCEPT ![Item(w)] = IF @ = "none" THEN "queued" ELSE @]
        /\ Goto(w, IF transcript[Item(w)] THEN "transcribed" ELSE "download")
     \/ Refused(w) /\ UNCHANGED meeting
  /\ UNCHANGED <<job, ledger, transcript, draft, lock, request, posts>>

\* An error of Graph or of the database here: not yet inside the handler that marks the
\* meeting failed.
PrepareFails(w) ==
  /\ At(w, "prepare")
  /\ Goto(w, "unwind")
  /\ UNCHANGED <<rows, lock, request, posts>>

StartDownload(w) ==
  /\ At(w, "download")
  /\ \/ Commits(w, "fetch") /\ SetMeeting(w, "downloading")
     \/ Refused(w) /\ UNCHANGED meeting
  /\ UNCHANGED <<job, ledger, transcript, draft, lock, request, posts>>

\* The download; a reprocess keeps the old result visible and commits nothing.
Fetch(w) ==
  /\ At(w, "fetch")
  /\ \/ Reprocessing(w) /\ Goto(w, "upload") /\ UNCHANGED meeting
     \/ ~Reprocessing(w) /\ Commits(w, "upload") /\ SetMeeting(w, "transcribing")
     \/ ~Reprocessing(w) /\ Refused(w) /\ UNCHANGED meeting
  /\ UNCHANGED <<job, ledger, transcript, draft, lock, request, posts>>

\* Upload of the audio, then the submit reservation.
MayReserve(w) == MayCheckpoint(w) /\ Row(w).submissions = 0
ReserveRow(w) ==
  SetRow(w, [Row(w) EXCEPT !.submissions = 1, !.provider = "submitting"])

Reserve(w) ==
  /\ At(w, "upload")
  /\ MayReserve(w) /\ ReserveRow(w)
  /\ \/ Goto(w, "reserved")
     \/ Fails(w)               \* committed, but the acknowledgement was lost
  /\ UNCHANGED <<ledger, meeting, transcript, draft, lock, request, posts>>

\* Mutant: a refused reservation does not stop the submission.
ReserveRefused_Proceeds(w) ==
  /\ At(w, "upload") /\ ~MayReserve(w)
  /\ Goto(w, "reserved")
  /\ UNCHANGED <<rows, lock, request, posts>>

ReserveRefused(w) ==
  /\ At(w, "upload") /\ ~MayReserve(w)
  /\ Fails(w)
  /\ UNCHANGED <<rows, lock, request, posts>>

\* The only paid request.  It may not leave at all, and its answer may be lost; after a
\* stop request the call is drained and its answer dropped.
Post(w) ==
  /\ At(w, "reserved")
  /\ \/ /\ posts' = [posts EXCEPT ![worker[w].job] = @ + 1]
        /\ \/ ~worker[w].stop /\ Goto(w, "accepted")
           \/ Goto(w, "unsure")
     \/ Goto(w, "unsure") /\ UNCHANGED posts
  /\ UNCHANGED <<rows, lock, request>>

\* After an unsuccessful checkpoint, or a successful one of a lost call, an exception is
\* on its way: a plain error reaches the handler, a cancellation does not.
AfterNote(w, noted) == IF noted /\ worker[w].stop THEN Goto(w, "unwind") ELSE Fails(w)

Note(w, stage, status) ==
  /\ At(w, stage)
  /\ \/ Checkpoint(w, status) /\ AfterNote(w, TRUE)
     \/ ~MayCheckpoint(w) /\ UNCHANGED job /\ AfterNote(w, FALSE)
  /\ UNCHANGED <<ledger, meeting, transcript, draft, lock, request, posts>>

NoteUnsure(w) == Note(w, "unsure", "submission_unknown")
NoteRejected(w) == Note(w, "rejected", "error")
NoteLost(w) == Note(w, "lost", "poll_unknown")

\* The provider's identifier and, later, its result must be checkpointed to go on.
Advance(w, stage, status, next) ==
  /\ At(w, stage)
  /\ \/ Checkpoint(w, status) /\ Goto(w, next)
     \/ ~MayCheckpoint(w) /\ Fails(w) /\ UNCHANGED job
  /\ UNCHANGED <<ledger, meeting, transcript, draft, lock, request, posts>>

NoteSubmitted(w) == Advance(w, "accepted", "submitted", "polling")
NoteCompleted(w) == Advance(w, "fetched", "completed", "transcribed")

\* The polling thread reports each new status it sees; a refused report ends the polling.
PollProgress(w) ==
  /\ At(w, "polling")
  /\ \E status \in {"queued", "processing"} : Checkpoint(w, status)
  /\ UNCHANGED <<ledger, meeting, transcript, draft, lock, worker, request, posts>>

PollEnds(w) ==
  /\ At(w, "polling")
  /\ \/ Checkpoint(w, "completed") /\ Goto(w, "fetched")
     \/ Checkpoint(w, "error") /\ Goto(w, "rejected")
     \/ Goto(w, "lost") /\ UNCHANGED job     \* deadline, network error or refusal
  /\ UNCHANGED <<ledger, meeting, transcript, draft, lock, request, posts>>

\* The transcript becomes durable with the commit that precedes the extraction.
Save(w) ==
  /\ At(w, "transcribed")
  /\ \/ /\ Commits(w, "extract") /\ ~Reprocessing(w)
        /\ SetMeeting(w, "extracting")
        /\ transcript' = [transcript EXCEPT ![Item(w)] = TRUE]
     \/ Commits(w, "extract") /\ Reprocessing(w) /\ UNCHANGED <<meeting, transcript>>
     \/ Refused(w) /\ UNCHANGED <<meeting, transcript>>
  /\ UNCHANGED <<job, ledger, draft, lock, request, posts>>

\* The extraction; its outcome is recorded under the fence.
Extract(w) ==
  /\ At(w, "extract")
  /\ Commits(w, "ready") \/ Refused(w)
  /\ UNCHANGED <<rows, lock, request, posts>>

\* The new actions replace the old ones, the meeting opens for review and the job
\* completes, in one commit.  Speaker names and an edited transcript stay.
Install(w) ==
  /\ At(w, "ready") /\ ~Reprocessing(w)
  /\ \/ /\ Commits(w, "finish")
        /\ SetMeeting(w, "awaiting_review")
        /\ \E still \in {FALSE, draft[Item(w)].dirty} :
             draft' = [draft EXCEPT ![Item(w)].dirty = still]
        /\ SetRow(w, CompletedRow(Row(w)))
     \/ Refused(w) /\ UNCHANGED <<job, meeting, draft>>
  /\ UNCHANGED <<ledger, transcript, lock, request, posts>>

\* Mutant: the fingerprint is not compared again.
SameDraft_CleanOnly(w) == Clean(Item(w))

\* _commit_reprocess_result: the draft must be the one fingerprinted at the start.
SameDraft(w) == Clean(Item(w)) /\ draft[Item(w)] = worker[w].base

InstallReprocess(w) ==
  /\ At(w, "ready") /\ Reprocessing(w)
  /\ \/ /\ SameDraft(w) /\ Commits(w, "finish")
        /\ SetMeeting(w, "awaiting_review")
        /\ draft' = [draft EXCEPT ![Item(w)].dirty = FALSE]
        /\ SetRow(w, CompletedRow(Row(w)))
     \/ /\ MeetingFree(Item(w)) /\ ~SameDraft(w) /\ Fenced(w) /\ Goto(w, "unwind")
        /\ SetRow(w, FailedRow(Row(w)))
        /\ UNCHANGED <<meeting, draft>>
     \/ Refused(w) /\ UNCHANGED <<job, meeting, draft>>
  /\ UNCHANGED <<ledger, transcript, lock, request, posts>>

\* Notices, download, upload, empty transcript, extraction, the queries before the final
\* commit: any of them may raise.
StepFails(w) ==
  /\ worker[w].pc \in {"download", "fetch", "upload", "transcribed", "extract", "ready"}
  /\ Fails(w)
  /\ UNCHANGED <<rows, lock, request, posts>>

\* The handler of process_recording marks the meeting failed, under the fence; the commit
\* may itself be refused or fail.  It also makes a transcript durable that was set and not
\* yet committed, unless the transcript is empty.
MarkFailed(w) ==
  /\ At(w, "failing") \/ At(w, "failing_text")
  /\ Goto(w, "unwind")
  /\ \/ /\ Fenced(w) /\ SetMeeting(w, "failed")
        /\ \E text \in {FALSE, At(w, "failing_text")} :
             transcript' = [transcript EXCEPT ![Item(w)] = @ \/ text]
     \/ UNCHANGED <<meeting, transcript>>
  /\ UNCHANGED <<job, ledger, draft, lock, request, posts>>

-----------------------------------------------------------------------------
(* Finishing, heartbeat, crash and recovery.                               *)

EndAttempt(j) ==
  /\ meeting[ItemOf[j]] \in InterruptibleStates => MeetingFree(ItemOf[j])
  /\ job' = [job EXCEPT ![j] = InterruptedRow(job[j])]
  /\ meeting' = [meeting EXCEPT ![ItemOf[j]] = InterruptedMeeting(ItemOf[j], job[j])]

\* _finish(job, token) once the pipeline returned; after a committed result, a no-op.
FinishOk(w) ==
  /\ At(w, "finish")
  /\ \/ Owned(w) /\ Row(w).cancel /\ EndAttempt(worker[w].job)
     \/ Fenced(w) /\ SetRow(w, CompletedRow(Row(w))) /\ UNCHANGED meeting
     \/ ~Owned(w) /\ UNCHANGED <<job, meeting>>
  /\ Goto(w, "unlock")
  /\ UNCHANGED <<ledger, transcript, draft, lock, request, posts>>

\* The ready-for-review notice or the finishing transaction raises.
FinishFails(w) ==
  /\ At(w, "finish")
  /\ Goto(w, "unwind")
  /\ UNCHANGED <<rows, lock, request, posts>>

Unlocked(w) == [lock EXCEPT ![Item(w)] = IF @ = w THEN Nobody ELSE @]

\* Mutant: the finished job is not forgotten.
Unlock_KeepsJob(w) ==
  /\ At(w, "unlock")
  /\ lock' = Unlocked(w)
  /\ Goto(w, "idle")
  /\ UNCHANGED <<rows, request, posts>>

Unlock(w) ==
  /\ At(w, "unlock")
  /\ lock' = Unlocked(w)
  /\ worker' = [worker EXCEPT ![w] = IdleWorker]
  /\ UNCHANGED <<rows, request, posts>>

\* The exception leaves the block that holds the advisory lock before _finish sees it.
Unwind(w) ==
  /\ At(w, "unwind")
  /\ lock' = Unlocked(w)
  /\ Goto(w, "finish_error")
  /\ UNCHANGED <<rows, request, posts>>

\* _finish(job, token, exc): only the owner of the lease ends the attempt.
FinishError(w) ==
  /\ At(w, "finish_error")
  /\ IF Owned(w) THEN EndAttempt(worker[w].job) ELSE UNCHANGED <<job, meeting>>
  /\ worker' = [worker EXCEPT ![w] = IdleWorker]
  /\ UNCHANGED <<ledger, transcript, draft, lock, request, posts>>

Heartbeat(w) ==
  /\ worker[w].pc \in PipelineStages /\ ~worker[w].stop
  /\ Fenced(w) /\ SetRow(w, [Row(w) EXCEPT !.live = TRUE])
  /\ UNCHANGED <<ledger, meeting, transcript, draft, lock, worker, request, posts>>

\* A refused heartbeat or a shutdown cancels the pipeline task.  A call in flight drains
\* first, so a submission cancelled under way still goes out.
Interrupt(w) ==
  /\ worker[w].pc \in PipelineStages /\ ~worker[w].stop
  /\ \E next \in CASE At(w, "reserved") -> {"reserved", "unwind"}
                   [] At(w, "unsure") -> {"unsure", "unwind"}
                   [] At(w, "polling") -> {"lost"}
                   [] worker[w].pc \in {"fetched", "rejected"} -> {"lost", "unwind"}
                   [] OTHER -> {"unwind"} :
       worker' = [worker EXCEPT ![w].pc = next, ![w].stop = TRUE]
  /\ UNCHANGED <<rows, lock, request, posts>>

\* The process dies: its sessions end, which releases its advisory lock; it restarts.
Crash(w) ==
  /\ ~At(w, "idle")
  /\ lock' = Unlocked(w)
  /\ worker' = [worker EXCEPT ![w] = IdleWorker]
  /\ UNCHANGED <<rows, request, posts>>

\* The session holding the advisory lock dies and nothing notices: the pipeline goes on.
LockLost(w) ==
  /\ ~At(w, "idle") /\ lock[Item(w)] = w
  /\ lock' = Unlocked(w)
  /\ UNCHANGED <<rows, worker, request, posts>>

\* Time passes without a heartbeat until the lease is old.
Expire(j) ==
  /\ job[j].status = "processing" /\ job[j].live
  /\ job' = [job EXCEPT ![j].live = FALSE]
  /\ UNCHANGED <<ledger, meeting, transcript, draft, lock, worker, request, posts>>

\* The recovery query and the lock it tries.
Recoverable(w, j) ==
  /\ At(w, "idle")
  /\ j \in Selected
  /\ job[j].status = "processing" /\ job[j].admitted /\ ~job[j].live
  /\ lock[ItemOf[j]] = Nobody

\* Mutant: jobs with a cancellation request are left to their worker.
Recover_NotCancelled(w, j) ==
  /\ Recoverable(w, j) /\ ~job[j].cancel
  /\ EndAttempt(j)
  /\ UNCHANGED <<ledger, transcript, draft, lock, worker, request, posts>>

\* _recover_interrupted_jobs, for one row of its batch.
Recover(w, j) ==
  /\ Recoverable(w, j)
  /\ EndAttempt(j)
  /\ UNCHANGED <<ledger, transcript, draft, lock, worker, request, posts>>
=============================================================================
