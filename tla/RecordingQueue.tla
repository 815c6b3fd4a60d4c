--------------------------- MODULE RecordingQueue ---------------------------
(***************************************************************************)
(* The recording queue as a whole: worker processes, HTTP handlers,        *)
(* discovery jobs and reviewers acting on the same rows.                   *)
(***************************************************************************)
EXTENDS WorkerPipeline, QueueApi

Init ==
  /\ job = [j \in Jobs |-> AbsentRow]
  /\ ledger = [i \in Items |-> FALSE]
  /\ meeting = [i \in Items |-> "none"]
  /\ transcript = [i \in Items |-> FALSE]
  /\ draft = [i \in Items |-> CleanDraft]
  /\ lock = [i \in Items |-> Nobody]
  /\ worker = [w \in Workers |-> IdleWorker]
  /\ request = [h \in Handlers |-> NoRequest]
  /\ posts = [j \in Jobs |-> 0]

\* What a running worker does next, left alone.
Work(w) ==
  \/ TryLock(w) \/ Renew(w) \/ Begin(w) \/ StopConflict(w)
  \/ Prepare(w) \/ StartDownload(w) \/ Fetch(w)
  \/ Reserve(w) \/ ReserveRefused(w) \/ Post(w) \/ NoteUnsure(w)
  \/ NoteSubmitted(w) \/ PollEnds(w) \/ NoteCompleted(w) \/ NoteRejected(w) \/ NoteLost(w)
  \/ Save(w) \/ Extract(w) \/ Install(w) \/ InstallReprocess(w)
  \/ MarkFailed(w) \/ FinishOk(w) \/ Unlock(w) \/ Unwind(w) \/ FinishError(w)

\* What may happen to it.
Disturb(w) ==
  \/ StopAfterClaim(w) \/ PrepareFails(w) \/ StepFails(w) \/ FinishFails(w)
  \/ PollProgress(w) \/ Heartbeat(w) \/ Interrupt(w) \/ Crash(w) \/ LockLost(w)

WorkerStep ==
  \/ \E w \in Workers : Work(w) \/ Disturb(w)
  \/ \E w \in Workers, j \in Jobs : Claim(w, j) \/ Recover(w, j)
  \/ \E j \in Jobs : Expire(j)

ApiStep ==
  \/ \E j \in Jobs : Webhook(j) \/ QueueVerified(j) \/ Import(j) \/ Cancel(j)
  \/ \E i \in Items : Reconcile(i) \/ AttachMeeting(i)
  \/ \E h \in Handlers, i \in Items : ImportAgain(h, i) \/ Reprocess(h, i)
  \/ \E h \in Handlers, j \in Jobs : RetryRead(h, j) \/ Enqueue(h, j)
  \/ \E h \in Handlers : RetryCheck(h) \/ RequestRefused(h)
  \/ \E o \in Owners : Unsubscribe(o)
  \/ \E admin \in Admins, j \in Jobs : Cleanup(admin, j)

ReviewStep == \E i \in Items : EditDraft(i) \/ SaveDecisions(i) \/ Approve(i)

Next == WorkerStep \/ ApiStep \/ ReviewStep

Spec == Init /\ [][Next]_vars

\* How a request ends, which awaits nothing but the database.
Conclude(h) == RequestRefused(h) \/ \E j \in Jobs : Enqueue(h, j)

\* Workers keep running (a crashed one is restarted), leases of silent workers grow old,
\* the claim and recovery queries are repeated, and no request stays open for good.
\* Nothing is assumed of users, failures, heartbeats or the provider's progress.
FairSpec ==
  /\ Spec
  /\ \A w \in Workers : WF_vars(Work(w))
  /\ \A h \in Handlers : WF_vars(Conclude(h))
  /\ \A j \in Jobs : /\ WF_vars(Expire(j))
                     /\ WF_vars(\E w \in Workers : Claim(w, j))
                     /\ WF_vars(\E w \in Workers : Recover(w, j))

-----------------------------------------------------------------------------
(* Properties.                                                             *)

\* Every variable stays in its domain, and a worker or a request without a job is idle.
TypeOK ==
  /\ job \in [Jobs -> JobRow]
  /\ ledger \in [Items -> BOOLEAN]
  /\ meeting \in [Items -> MeetingStates]
  /\ transcript \in [Items -> BOOLEAN]
  /\ draft \in [Items -> Draft]
  /\ lock \in [Items -> Workers \cup {Nobody}]
  /\ worker \in [Workers -> WorkerState]
  /\ request \in [Handlers -> RequestState]
  /\ posts \in [Jobs -> Nat]
  /\ \A w \in Workers : At(w, "idle") <=> worker[w].job = Nobody

\* A meeting shown as downloading, transcribing or extracting has a job under way that
\* will move it on: no interleaving of crashes, lost locks, cancellations and recoveries
\* leaves the review page transcribing for ever (worker.py:51, _mark_meeting_interrupted).
NoOrphanedProgress ==
  \A i \in Items : meeting[i] \in InProgressStates =>
    \E j \in JobsOf(i) : job[j].status = "processing"

\* A paid request leaves only after its reservation is durable and once at most for a
\* job; while the job's row exists it stays visible that one may have left
\* (transcription_submission.py:74, "Commit BEFORE making the only paid submit request").
ReservationPrecedesPost ==
  \A j \in Jobs :
    /\ posts[j] <= 1
    /\ posts[j] = 1 /\ Exists(j) => job[j].submissions = 1 /\ job[j].provider # "none"

\* Once the owner asked to cancel a running job no later commit reports it completed,
\* whatever the pipeline was doing and whoever finishes it.
CancelWins ==
  [][\A j \in Jobs : job[j].status = "processing" /\ job[j].cancel
                       => job'[j].status # "completed"]_vars

\* A worker, however late or wrongly revived, never takes a meeting out of review, never
\* drops edits of a draft under review, and replaces a draft only if nothing in it,
\* decisions included, changed since the worker fingerprinted it.
ReviewOutlivesWorkers ==
  [][worker' # worker =>
       \A i \in Items : meeting[i] \in ReviewStates =>
         /\ meeting'[i] = meeting[i]
         /\ draft'[i] = draft[i]
         /\ \A w \in Workers :
              At(w, "ready") /\ Item(w) = i /\ Row(w).status # job'[worker[w].job].status
                /\ job'[worker[w].job].status = "completed"
              => draft[i] = worker[w].base]_vars

\* One of two jobs of a recording was inserted while the request for the other had looked
\* for jobs in its way and not yet inserted its own.
Overlapped(j, k) == j \in job[k].unseen \/ k \in job[j].unseen

\* While a paid request for a recording may still be answered, or its fate is unknown, a
\* second one leaves for that recording only if the row of one of the two jobs was deleted
\* or the requests for them overlapped (jobs.py:67 and 76, the query and the insert that
\* nothing ties together): no crash, recovery, late worker, cancellation or retry of an
\* older job lets one leave otherwise.
ReplayIsExplained ==
  [][\A j, k \in Jobs :
       /\ j # k /\ ItemOf[j] = ItemOf[k] /\ posts'[j] > posts[j] /\ posts[k] > 0
       /\ Exists(j) /\ Exists(k) /\ ~Overlapped(j, k)
       => job[k].provider \in {"completed", "error"}]_vars

\* What the retry handler promises of a submission whose fate is open
\* (recording_jobs.py:192, "it will not be resubmitted"): while a paid request for a
\* recording may still be answered, or its fate is unknown, no second one is sent for that
\* recording by another job.
UncertainNeverReplayed ==
  [][\A j, k \in Jobs :
       j # k /\ ItemOf[j] = ItemOf[k] /\ posts'[j] > posts[j] /\ posts[k] > 0
         => job[k].provider \in {"completed", "error"}]_vars

\* What the retry handler claims when it answers 409 (recording_jobs.py:201, "Meeting is
\* already available for review; it will not be overwritten"): no request takes a
\* meeting out of review.
RequestsKeepReview ==
  [][request' # request =>
       \A i \in Items : meeting[i] \in ReviewStates => meeting'[i] = meeting[i]]_vars

\* What the retry handler claims of a submitted recording (recording_jobs.py:191, the
\* states up to "completed": "it will not be resubmitted"): apart from a reprocess, a
\* recording is paid for again only when the service reported an error.
SubmittedNeverResubmitted ==
  [][\A j, k \in Jobs :
       /\ j # k /\ ItemOf[j] = ItemOf[k] /\ job[j].source # "manual_reprocess"
       /\ posts'[j] > posts[j] /\ posts[k] > 0
       => job[k].provider = "error"]_vars

\* Every attempt ends: a crash, a lost lock or a refused commit anywhere leaves the job to
\* the recovery scan, never processing for ever.
EveryAttemptEnds ==
  \A j \in Selected : job[j].status = "processing" ~> job[j].status # "processing"

\* A job somebody authorized is started or withdrawn.
AuthorizedJobsStart ==
  \A j \in Selected : job[j].status = "pending" /\ job[j].admitted
                        ~> job[j].status # "pending"

\* The queue implements the life cycle its jobs are promised.
Lifecycle == INSTANCE JobLifecycle WITH
  status <- [j \in Jobs |-> job[j].status],
  authorized <- [j \in Jobs |-> job[j].admitted],
  charged <- [j \in Jobs |-> posts[j] > 0]

ImplementsLifecycle == Lifecycle!Spec
=============================================================================
