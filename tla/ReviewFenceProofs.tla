------------------------- MODULE ReviewFenceProofs -------------------------
(***************************************************************************)
(* Workers and reviewers: for any number of recordings, jobs, workers and  *)
(* requests, no worker takes a meeting out of review, drops an edit, or    *)
(* replaces a draft that changed since it looked.  A retry can be queued   *)
(* beside a meeting under review, and a worker that lost its lease goes on *)
(* for minutes, so the argument is about who owns the lease at each stage. *)
(***************************************************************************)
EXTENDS RecordingQueueProofs

-----------------------------------------------------------------------------
(* The invariant.                                                          *)

\* The stages after the decision of Begin.
Working == PipelineStages \ {"begin", "conflict"}

\* A worker that may still commit works on a recording whose result nobody reviews yet.
Ahead ==
  \A w \in Workers : worker[w].pc \in Working /\ Owned(w) /\ ~Reprocessing(w)
                       => meeting[Item(w)] \notin ReviewStates

\* Only the recording path has a handler that marks the meeting failed.
HandlerStages == {"failing", "failing_text"}
Failing == \A w \in Workers : worker[w].pc \in HandlerStages => ~Reprocessing(w)

Fence == Ahead /\ Failing
FInv == IInv /\ Fence

-----------------------------------------------------------------------------
(* How a step may move workers, rows and meetings.                         *)

\* A worker enters its working stages for a reprocess, or having seen no review.
Enters(w) ==
  /\ worker'[w].pc \in Working =>
       /\ ~At(w, "idle")
       /\ worker'[w].job = worker[w].job /\ worker'[w].token = worker[w].token
       /\ \/ worker[w].pc \in Working
          \/ Reprocessing(w)
          \/ meeting[Item(w)] \notin ReviewStates /\ meeting' = meeting
  /\ worker'[w].pc \in HandlerStages => worker[w].pc \in HandlerStages \/ ~Reprocessing(w)

WorkersEnter == \A w \in Workers : Enters(w)

\* The result of worker v opens its meeting for review.
Installs(v, i) ==
  ~At(v, "idle") /\ Item(v) = i /\ Owned(v) /\ worker'[v].pc = "finish"

\* What becomes of the meetings under review, and how a meeting gets there.
ReviewsOpen ==
  \A i \in Items : meeting'[i] \in ReviewStates =>
    meeting[i] \in ReviewStates \/ \E v \in Workers : Installs(v, i)

\* What a worker's step leaves alone.
ReviewsStay ==
  \A i \in Items : meeting[i] \in ReviewStates =>
    meeting'[i] = meeting[i] /\ draft'[i] = draft[i]

\* The stages after the decision of Begin, and those before and after them.
LEMMA WorkingStages ==
  /\ {"prepare", "download", "fetch", "upload", "transcribed", "extract", "ready", "failing",
      "failing_text", "reserved", "accepted", "unsure", "polling", "fetched", "rejected", "lost"}
       \subseteq Working
  /\ HandlerStages \subseteq Working
  /\ HandlerStages \cap {"prepare", "download", "fetch", "upload", "transcribed", "extract",
                         "ready", "reserved", "accepted", "unsure", "polling", "fetched",
                         "rejected", "lost"} = {}
  /\ {"idle", "claimed", "locked", "begin", "conflict", "finish", "unlock", "unwind",
      "finish_error"} \cap Working = {}
BY DEF Working, PipelineStages, ProviderStages, HandlerStages

\* A worker that goes to a stage outside, or from one working stage to another.
LEMMA GoesOut ==
  ASSUME TypeOK, NEW w \in Workers, NEW stage, stage \notin Working, Goto(w, stage)
  PROVE  WorkersEnter
<1>1. stage \notin HandlerStages
  BY WorkingStages
<1>2. \A v \in Workers : v # w => worker'[v] = worker[v]
  BY DEF Goto, TypeOK
<1>3. worker'[w].pc = stage
  BY DEF Goto, TypeOK, WorkerState
<1> QED
  BY <1>1, <1>2, <1>3, WorkingStages DEF WorkersEnter, Enters, At

\* A worker that goes on from one working stage.
LEMMA GoesWorking ==
  ASSUME TypeOK, NEW w \in Workers, worker[w].pc \in Working,
         NEW stage, stage \notin HandlerStages \/ ~Reprocessing(w), Goto(w, stage)
  PROVE  WorkersEnter
<1>1. \A v \in Workers : v # w => worker'[v] = worker[v]
  BY DEF Goto, TypeOK
<1>2. /\ worker'[w].pc = stage
      /\ worker'[w].job = worker[w].job /\ worker'[w].token = worker[w].token
  BY DEF Goto, TypeOK, WorkerState
<1> QED
  BY <1>1, <1>2, WorkingStages DEF WorkersEnter, Enters, At

\* A worker whose pipeline fails there.
LEMMA FailsWorking ==
  ASSUME TypeOK, NEW w \in Workers, worker[w].pc \in Working, Fails(w)
  PROVE  WorkersEnter
BY GoesWorking, WorkingStages DEF Fails

\* A worker whose commit is refused.
LEMMA RefusedOut ==
  ASSUME TypeOK, NEW w \in Workers, Refused(w)
  PROVE  WorkersEnter
BY GoesOut, WorkingStages DEF Refused

\* A worker that gives its job up.
LEMMA GivesUpOut ==
  ASSUME TypeOK, NEW w \in Workers, worker' = [worker EXCEPT ![w] = IdleWorker]
  PROVE  WorkersEnter
<1>1. /\ \A v \in Workers : v # w => worker'[v] = worker[v]
      /\ worker'[w].pc = "idle"
  BY DEF TypeOK, IdleWorker
<1> QED
  BY <1>1, WorkingStages DEF WorkersEnter, Enters, At

\* No worker moves.
LEMMA StaysEntered ==
  ASSUME worker' = worker
  PROVE  WorkersEnter
BY WorkingStages DEF WorkersEnter, Enters, At

\* Begin alone lets a worker in.
LEMMA WorkEnters ==
  ASSUME TypeOK, Kinds, NEW w \in Workers, Work(w)
  PROVE  WorkersEnter
<1>1. CASE TryLock(w) \/ Renew(w) \/ StopConflict(w) \/ MarkFailed(w) \/ FinishOk(w)
           \/ Unwind(w)
  BY <1>1, GoesOut, RefusedOut, WorkingStages
     DEF TryLock, Renew, Commits, StopConflict, MarkFailed, FinishOk, Unwind
<1>2. CASE Unlock(w) \/ FinishError(w)
  BY <1>2, GivesUpOut DEF Unlock, FinishError
<1>3. CASE Begin(w)
  <2>1. At(w, "begin") /\ meeting' = meeting
    BY <1>3 DEF Begin, rows
  <2>2. CASE Reprocessing(w) /\ worker' = [worker EXCEPT ![w].pc = "fetch",
                                                         ![w].base = draft[Item(w)]]
    <3>1. /\ \A v \in Workers : v # w => worker'[v] = worker[v]
          /\ worker'[w].pc = "fetch"
          /\ worker'[w].job = worker[w].job /\ worker'[w].token = worker[w].token
      BY <2>2 DEF TypeOK, WorkerState
    <3> QED
      BY <2>1, <2>2, <3>1, WorkingStages DEF WorkersEnter, Enters, At
  <2>3. CASE meeting[Item(w)] \notin ReviewStates /\ Goto(w, "prepare")
    <3>1. /\ \A v \in Workers : v # w => worker'[v] = worker[v]
          /\ worker'[w].pc = "prepare"
          /\ worker'[w].job = worker[w].job /\ worker'[w].token = worker[w].token
      BY <2>3 DEF Goto, TypeOK, WorkerState
    <3> QED
      BY <2>1, <2>3, <3>1, WorkingStages DEF WorkersEnter, Enters, At
  <2>4. CASE Goto(w, "conflict") \/ Goto(w, "finish") \/ Refused(w)
    BY <2>4, GoesOut, RefusedOut, WorkingStages
  <2> QED
    BY <1>3, <2>2, <2>3, <2>4 DEF Begin, Commits
<1>4. CASE Prepare(w) \/ StartDownload(w) \/ Fetch(w) \/ Save(w) \/ Extract(w)
  <2>1. worker[w].pc \in Working
    BY <1>4, WorkingStages DEF Prepare, StartDownload, Fetch, Save, Extract, At
  <2> QED
    BY <1>4, <2>1, GoesWorking, RefusedOut, WorkingStages
       DEF Prepare, StartDownload, Fetch, Save, Extract, Commits
<1>5. CASE Reserve(w) \/ ReserveRefused(w) \/ Post(w)
  <2>1. worker[w].pc \in Working
    BY <1>5, WorkingStages DEF Reserve, ReserveRefused, Post, At
  <2> QED
    BY <1>5, <2>1, GoesWorking, FailsWorking, WorkingStages DEF Reserve, ReserveRefused, Post
<1>6. CASE NoteUnsure(w) \/ NoteRejected(w) \/ NoteLost(w)
  <2>1. worker[w].pc \in Working
    BY <1>6, WorkingStages DEF NoteUnsure, NoteRejected, NoteLost, Note, At
  <2> QED
    BY <1>6, <2>1, GoesWorking, FailsWorking, WorkingStages
       DEF NoteUnsure, NoteRejected, NoteLost, Note, AfterNote
<1>7. CASE NoteSubmitted(w) \/ NoteCompleted(w) \/ PollEnds(w)
  <2>1. worker[w].pc \in Working
    BY <1>7, WorkingStages DEF NoteSubmitted, NoteCompleted, PollEnds, Advance, At
  <2> QED
    BY <1>7, <2>1, GoesWorking, FailsWorking, WorkingStages
       DEF NoteSubmitted, NoteCompleted, PollEnds, Advance
<1>8. CASE Install(w) \/ InstallReprocess(w)
  BY <1>8, GoesOut, RefusedOut, WorkingStages DEF Install, InstallReprocess, Commits
<1> QED
  BY <1>1, <1>2, <1>3, <1>4, <1>5, <1>6, <1>7, <1>8 DEF Work

\* Nothing that happens to a worker lets it in.
LEMMA DisturbEnters ==
  ASSUME TypeOK, NEW w \in Workers, Disturb(w)
  PROVE  WorkersEnter
<1>1. CASE StopAfterClaim(w) \/ PrepareFails(w) \/ FinishFails(w)
  BY <1>1, GoesOut, WorkingStages DEF StopAfterClaim, PrepareFails, FinishFails
<1>2. CASE StepFails(w)
  BY <1>2, FailsWorking, WorkingStages DEF StepFails
<1>3. CASE PollProgress(w) \/ Heartbeat(w) \/ LockLost(w)
  BY <1>3, StaysEntered DEF PollProgress, Heartbeat, LockLost
<1>4. CASE Crash(w)
  BY <1>4, GivesUpOut DEF Crash
<1>5. CASE Interrupt(w)
  <2>1. PICK stage \in {"reserved", "unwind", "unsure", "lost"} :
          /\ worker' = [worker EXCEPT ![w].pc = stage, ![w].stop = TRUE]
          /\ stage # "unwind" => worker[w].pc \in {"reserved", "unsure", "polling", "fetched",
                                                   "rejected"}
    BY <1>5 DEF Interrupt, At
  <2>2. /\ \A v \in Workers : v # w => worker'[v] = worker[v]
        /\ worker'[w].pc = stage
        /\ worker'[w].job = worker[w].job /\ worker'[w].token = worker[w].token
    BY <2>1 DEF TypeOK, WorkerState
  <2>3. stage \in Working => worker[w].pc \in Working
    BY <2>1, WorkingStages
  <2> QED
    BY <2>1, <2>2, <2>3, WorkingStages DEF WorkersEnter, Enters, At
<1> QED
  BY <1>1, <1>2, <1>3, <1>4, <1>5 DEF Disturb

\* Nor does any other step.
LEMMA NextEnters ==
  ASSUME TypeOK, Kinds, [Next]_vars
  PROVE  WorkersEnter
<1>1. ASSUME NEW w \in Workers, NEW j \in Jobs, Claim(w, j)
      PROVE  WorkersEnter
  <2>1. /\ \A v \in Workers : v # w => worker'[v] = worker[v]
        /\ worker'[w].pc = "claimed"
    BY <1>1 DEF Claim, TakeLease, TypeOK, IdleWorker
  <2> QED
    BY <2>1, WorkingStages DEF WorkersEnter, Enters, At
<1>2. CASE WorkerStep
  BY <1>1, <1>2, WorkEnters, DisturbEnters, StaysEntered DEF WorkerStep, Recover, Expire
<1>3. CASE ApiStep
  <2>1. worker' = worker
    BY <1>3 DEF ApiStep, Webhook, QueueVerified, Import, ImportAgain, Reprocess, Cancel,
       Reconcile, AttachMeeting, RetryRead, RetryCheck, Enqueue, RequestRefused, Unsubscribe,
       Cleanup, rows
  <2> QED
    BY <2>1, StaysEntered
<1>4. CASE ReviewStep \/ UNCHANGED vars
  BY <1>4, StaysEntered DEF ReviewStep, EditDraft, SaveDecisions, Approve, vars
<1> QED
  BY <1>2, <1>3, <1>4 DEF Next

-----------------------------------------------------------------------------
(* What a step does to meetings and drafts under review.                   *)

\* A step that writes no meeting and no draft.
LEMMA ReviewsUntouched ==
  ASSUME meeting' = meeting, draft' = draft
  PROVE  ReviewsOpen /\ ReviewsStay
BY DEF ReviewsOpen, ReviewsStay

\* A worker's write to a meeting nobody reviews.
LEMMA ReviewsElsewhere ==
  ASSUME TypeOK, NEW w \in Workers, ~At(w, "idle"), meeting[Item(w)] \notin ReviewStates,
         NEW state, state \notin ReviewStates, draft' = draft,
         meeting' = [meeting EXCEPT ![Item(w)] = state]
  PROVE  ReviewsOpen /\ ReviewsStay
<1>1. \A i \in Items : meeting'[i] = IF i = Item(w) THEN state ELSE meeting[i]
  BY BusyWorker DEF TypeOK
<1> QED
  BY <1>1 DEF ReviewsOpen, ReviewsStay

\* The end of an attempt never overwrites a committed result.
LEMMA EndsReviews ==
  ASSUME TypeOK, NEW j \in Jobs, EndAttempt(j), draft' = draft
  PROVE  ReviewsOpen /\ ReviewsStay
<1>1. ItemOf[j] \in Items
  BY ItemOfAssumption
<1>2. \A i \in Items : meeting'[i] = IF i = ItemOf[j]
                                     THEN InterruptedMeeting(ItemOf[j], job[j])
                                     ELSE meeting[i]
  BY <1>1 DEF EndAttempt, TypeOK
<1>3. IF meeting[ItemOf[j]] \in ReviewStates
      THEN InterruptedMeeting(ItemOf[j], job[j]) = meeting[ItemOf[j]]
      ELSE InterruptedMeeting(ItemOf[j], job[j]) \notin ReviewStates
  BY DEF InterruptedMeeting, InterruptibleStates, ReviewStates, InProgressStates
<1> QED
  BY <1>2, <1>3 DEF ReviewsOpen, ReviewsStay

\* A worker that may commit a stage of a recording sees no review.
LEMMA WorkerIsAhead ==
  ASSUME Ahead, NEW w \in Workers, worker[w].pc \in Working, Fenced(w), ~Reprocessing(w)
  PROVE  meeting[Item(w)] \notin ReviewStates
BY DEF Ahead, Fenced

\* The commit that opens the review of a recording.
LEMMA InstallReviews ==
  ASSUME TypeOK, Ahead, NEW w \in Workers, Install(w)
  PROVE  ReviewsOpen /\ ReviewsStay
<1>1. ~At(w, "idle") /\ worker[w].pc \in Working /\ ~Reprocessing(w)
  BY WorkingStages DEF Install, At
<1>2. CASE Refused(w) /\ meeting' = meeting /\ draft' = draft
  BY <1>2, ReviewsUntouched
<1>3. CASE /\ Commits(w, "finish") /\ SetMeeting(w, "awaiting_review")
           /\ \E still \in {FALSE, draft[Item(w)].dirty} :
                draft' = [draft EXCEPT ![Item(w)].dirty = still]
  <2>1. Fenced(w) /\ Goto(w, "finish")
    BY <1>3 DEF Commits
  <2>2. meeting[Item(w)] \notin ReviewStates
    BY <1>1, <2>1, WorkerIsAhead
  <2>3. worker'[w].pc = "finish" /\ Owned(w)
    BY <2>1 DEF Goto, Fenced, TypeOK, WorkerState
  <2>4. \A i \in Items : i # Item(w) => meeting'[i] = meeting[i] /\ draft'[i] = draft[i]
    BY <1>3 DEF SetMeeting, TypeOK
  <2> QED
    BY <1>1, <2>2, <2>3, <2>4 DEF ReviewsOpen, ReviewsStay, Installs
<1> QED
  BY <1>2, <1>3 DEF Install

\* A reprocess leaves the review open, and changes nothing of a clean draft but its content.
LEMMA InstallReprocessReviews ==
  ASSUME TypeOK, NEW w \in Workers, InstallReprocess(w)
  PROVE  ReviewsOpen /\ ReviewsStay
<1>1. ~At(w, "idle")
  BY DEF InstallReprocess, At
<1>2. CASE meeting' = meeting /\ draft' = draft
  BY <1>2, ReviewsUntouched
<1>3. CASE /\ SameDraft(w) /\ SetMeeting(w, "awaiting_review")
           /\ draft' = [draft EXCEPT ![Item(w)].dirty = FALSE]
  <2>1. meeting[Item(w)] = "awaiting_review" /\ ~draft[Item(w)].dirty /\ Item(w) \in Items
    BY <1>1, <1>3, BusyWorker DEF SameDraft, Clean
  <2>2. \A i \in Items : meeting'[i] = meeting[i]
    BY <1>3, <2>1 DEF SetMeeting, TypeOK
  <2>3. draft[Item(w)] \in Draft /\ draft[Item(w)].dirty = FALSE
    BY <2>1 DEF TypeOK, Draft
  <2>4. [draft[Item(w)] EXCEPT !.dirty = FALSE] = draft[Item(w)]
    BY <2>3 DEF Draft
  <2>5. \A i \in Items : draft'[i] = draft[i]
    BY <1>3, <2>1, <2>4 DEF TypeOK
  <2> QED
    BY <2>2, <2>5 DEF ReviewsOpen, ReviewsStay
<1> QED
  BY <1>2, <1>3 DEF InstallReprocess

\* Left alone, a worker never touches a review that is open.
LEMMA WorkReviews ==
  ASSUME TypeOK, Kinds, Ahead, Failing, NEW w \in Workers, Work(w)
  PROVE  ReviewsOpen /\ ReviewsStay
<1>1. CASE TryLock(w) \/ Renew(w) \/ Begin(w) \/ StopConflict(w) \/ Extract(w) \/ Unlock(w)
           \/ Unwind(w)
  BY <1>1, ReviewsUntouched DEF TryLock, Renew, Begin, StopConflict, Extract, Unlock, Unwind,
     rows
<1>2. CASE Reserve(w) \/ ReserveRefused(w) \/ Post(w) \/ NoteUnsure(w) \/ NoteSubmitted(w)
           \/ PollEnds(w) \/ NoteCompleted(w) \/ NoteRejected(w) \/ NoteLost(w)
  BY <1>2, ReviewsUntouched DEF Reserve, ReserveRefused, Post, NoteUnsure, NoteSubmitted,
     PollEnds, NoteCompleted, NoteRejected, NoteLost, Note, Advance, rows
<1>3. CASE Prepare(w)
  <2>1. ~At(w, "idle") /\ draft' = draft /\ Item(w) \in Items
    BY <1>3, BusyWorker DEF Prepare, At
  <2>2. CASE meeting' = meeting
    BY <2>1, <2>2, ReviewsUntouched
  <2>3. CASE meeting' # meeting
    <3>1. /\ meeting[Item(w)] = "none"
          /\ meeting' = [meeting EXCEPT ![Item(w)] = "queued"]
      BY <1>3, <2>1, <2>3 DEF Prepare, TypeOK
    <3>2. "none" \notin ReviewStates /\ "queued" \notin ReviewStates
      BY DEF ReviewStates
    <3> QED
      BY <2>1, <3>1, <3>2, ReviewsElsewhere
  <2> QED
    BY <2>2, <2>3
<1>4. CASE StartDownload(w) \/ Fetch(w) \/ Save(w) \/ MarkFailed(w)
  <2>1. ~At(w, "idle") /\ draft' = draft /\ worker[w].pc \in Working
    BY <1>4, WorkingStages DEF StartDownload, Fetch, Save, MarkFailed, At
  <2>2. CASE meeting' = meeting
    BY <2>1, <2>2, ReviewsUntouched
  <2>3. CASE meeting' # meeting
    <3>1. PICK state \in {"downloading", "transcribing", "extracting", "failed"} :
            SetMeeting(w, state) /\ Fenced(w) /\ ~Reprocessing(w)
      BY <1>4, <2>3 DEF StartDownload, Fetch, Save, MarkFailed, Commits, Kinds, Failing,
         HandlerStages, At
    <3>2. meeting[Item(w)] \notin ReviewStates /\ state \notin ReviewStates
      BY <2>1, <3>1, WorkerIsAhead DEF ReviewStates
    <3> QED
      BY <2>1, <3>1, <3>2, ReviewsElsewhere DEF SetMeeting
  <2> QED
    BY <2>2, <2>3
<1>5. CASE Install(w) \/ InstallReprocess(w)
  BY <1>5, InstallReviews, InstallReprocessReviews
<1>6. CASE FinishOk(w) \/ FinishError(w)
  <2>1. worker[w].job \in Jobs /\ draft' = draft
    BY <1>6, BusyWorker DEF FinishOk, FinishError, At
  <2>2. EndAttempt(worker[w].job) \/ meeting' = meeting
    BY <1>6 DEF FinishOk, FinishError
  <2> QED
    BY <2>1, <2>2, EndsReviews, ReviewsUntouched
<1> QED
  BY <1>1, <1>2, <1>3, <1>4, <1>5, <1>6 DEF Work

\* Nor does it when something happens to it, nor when a job is claimed or recovered.
LEMMA QueueReviews ==
  ASSUME TypeOK, Kinds, Ahead, Failing, WorkerStep
  PROVE  ReviewsOpen /\ ReviewsStay
<1>1. ASSUME NEW w \in Workers, Disturb(w)
      PROVE  ReviewsOpen /\ ReviewsStay
  BY <1>1, ReviewsUntouched DEF Disturb, StopAfterClaim, PrepareFails, StepFails, FinishFails,
     PollProgress, Heartbeat, Interrupt, Crash, LockLost, rows
<1>2. ASSUME NEW w \in Workers, NEW j \in Jobs, Claim(w, j) \/ Recover(w, j)
      PROVE  ReviewsOpen /\ ReviewsStay
  <2>1. draft' = draft /\ (meeting' = meeting \/ EndAttempt(j))
    BY <1>2 DEF Claim, TakeLease, Recover
  <2> QED
    BY <2>1, EndsReviews, ReviewsUntouched
<1>3. ASSUME NEW j \in Jobs, Expire(j)
      PROVE  ReviewsOpen /\ ReviewsStay
  BY <1>3, ReviewsUntouched DEF Expire
<1> QED
  BY <1>1, <1>2, <1>3, WorkReviews DEF WorkerStep

\* No request opens a review, and only a reviewer approves.
LEMMA RequestReviews ==
  ASSUME TypeOK, ApiStep \/ ReviewStep
  PROVE  ReviewsOpen
<1>1. "queued" \notin ReviewStates /\ "cancelled" \notin ReviewStates
  BY DEF ReviewStates
<1>2. ASSUME \A i \in Items : meeting'[i] = meeting[i] \/ meeting'[i] \in {"queued", "cancelled"}
      PROVE  ReviewsOpen
  BY <1>1, <1>2 DEF ReviewsOpen
<1>3. ASSUME NEW j \in Jobs, Webhook(j) \/ QueueVerified(j) \/ Import(j) \/ Cancel(j)
      PROVE  ReviewsOpen
  BY <1>2, <1>3 DEF Webhook, QueueVerified, Import, Cancel, TypeOK
<1>4. ASSUME NEW i \in Items, Reconcile(i) \/ AttachMeeting(i)
      PROVE  ReviewsOpen
  BY <1>2, <1>4 DEF Reconcile, AttachMeeting, TypeOK
<1>5. ASSUME NEW h \in Handlers, NEW j \in Jobs, RetryRead(h, j) \/ Enqueue(h, j)
      PROVE  ReviewsOpen
  BY <1>2, <1>5 DEF RetryRead, Enqueue, rows, TypeOK
<1>6. CASE \/ \E h \in Handlers : RetryCheck(h) \/ RequestRefused(h)
           \/ \E h \in Handlers, i \in Items : ImportAgain(h, i) \/ Reprocess(h, i)
           \/ \E o \in Owners : Unsubscribe(o)
           \/ \E admin \in Admins, j \in Jobs : Cleanup(admin, j)
  BY <1>2, <1>6 DEF RetryCheck, RequestRefused, ImportAgain, Reprocess, Unsubscribe, Cleanup, rows
<1>7. ASSUME NEW i \in Items, EditDraft(i) \/ SaveDecisions(i) \/ Approve(i)
      PROVE  ReviewsOpen
  <2>1. CASE Approve(i)
    <3>1. meeting[i] \in ReviewStates
      BY <2>1 DEF Approve, ReviewStates
    <3>2. \A k \in Items : k # i => meeting'[k] = meeting[k]
      BY <2>1 DEF Approve, TypeOK
    <3> QED
      BY <3>1, <3>2 DEF ReviewsOpen
  <2> QED
    BY <1>2, <1>7, <2>1 DEF EditDraft, SaveDecisions
<1> QED
  BY <1>3, <1>4, <1>5, <1>6, <1>7 DEF ApiStep, ReviewStep

\* Only a result installed by the owner of the lease opens a review.
LEMMA NextReviews ==
  ASSUME TypeOK, Kinds, Ahead, Failing, [Next]_vars
  PROVE  ReviewsOpen
<1>1. CASE UNCHANGED vars
  BY <1>1, ReviewsUntouched DEF vars
<1> QED
  BY <1>1, QueueReviews, RequestReviews DEF Next

-----------------------------------------------------------------------------
(* The invariant holds.                                                    *)

\* A lease is only ever lost, and a job does not change its kind.
LEMMA LeasesPass ==
  ASSUME TypeOK, Holding, RowsStep, NEW w \in Workers, ~At(w, "idle"),
         worker'[w].job = worker[w].job, worker'[w].token = worker[w].token
  PROVE  /\ Owned(w)' => Owned(w)
         /\ Reprocessing(w)' <=> Reprocessing(w)
<1>1. worker[w].job \in Jobs /\ Row(w).status \notin {"absent", "pending"}
  BY BusyWorker DEF Holding
<1>2. RowStep(job[worker[w].job], job'[worker[w].job])
  BY <1>1 DEF RowsStep
<1> QED
  BY <1>1, <1>2 DEF RowStep, Owned, Reprocessing, Row, RetryableStatuses

\* The owner of the lease is the only one who could open the review behind its own back.
LEMMA AheadStep ==
  ASSUME TypeOK, OneActiveJob, Holding, SoleHolder, Ahead, RowsStep, WorkersEnter, ReviewsOpen
  PROVE  Ahead'
<1> SUFFICES ASSUME NEW w \in Workers, worker'[w].pc \in Working, Owned(w)',
                    ~Reprocessing(w)', meeting'[Item(w)'] \in ReviewStates
             PROVE  FALSE
  BY DEF Ahead
<1>1. /\ ~At(w, "idle")
      /\ worker'[w].job = worker[w].job /\ worker'[w].token = worker[w].token
      /\ \/ worker[w].pc \in Working
         \/ Reprocessing(w)
         \/ meeting[Item(w)] \notin ReviewStates /\ meeting' = meeting
  BY DEF WorkersEnter, Enters
<1>2. Owned(w) /\ ~Reprocessing(w)
  BY <1>1, LeasesPass
<1>3. Item(w)' = Item(w) /\ Item(w) \in Items
  BY <1>1, BusyWorker DEF Item
<1>4. meeting[Item(w)] \notin ReviewStates
  BY <1>1, <1>2, <1>3 DEF Ahead
<1>5. PICK v \in Workers : Installs(v, Item(w))
  BY <1>3, <1>4 DEF ReviewsOpen
<1>6. v # w
  BY <1>5, WorkingStages DEF Installs
<1>7. worker[v].job \in Jobs /\ worker[w].job \in Jobs /\ worker[v].job # worker[w].job
  BY <1>1, <1>5, <1>6, BusyWorker DEF Installs, SoleHolder
<1>8. Active(worker[v].job) /\ Active(worker[w].job)
  BY <1>2, <1>5 DEF Installs, Owned, Row, Active, ActiveStatuses
<1>9. ItemOf[worker[v].job] = ItemOf[worker[w].job]
  BY <1>5 DEF Installs, Item
<1> QED
  BY <1>7, <1>8, <1>9 DEF OneActiveJob

\* A reprocess never comes to the handler that marks meetings failed.
LEMMA FailingStep ==
  ASSUME TypeOK, Holding, Failing, RowsStep, WorkersEnter
  PROVE  Failing'
<1> SUFFICES ASSUME NEW w \in Workers, worker'[w].pc \in HandlerStages
             PROVE  ~Reprocessing(w)'
  BY DEF Failing
<1>1. /\ ~At(w, "idle")
      /\ worker'[w].job = worker[w].job /\ worker'[w].token = worker[w].token
      /\ worker[w].pc \in HandlerStages \/ ~Reprocessing(w)
  BY WorkingStages DEF WorkersEnter, Enters
<1> QED
  BY <1>1, LeasesPass DEF Failing

\* At first no worker works.
LEMMA FenceInit == Init => FInv
<1> SUFFICES ASSUME Init PROVE FInv
  OBVIOUS
<1>1. \A w \in Workers : worker[w].pc = "idle"
  BY DEF Init, IdleWorker
<1> QED
  BY <1>1, InvInit, WorkingStages DEF FInv, Fence, Ahead, Failing, At

\* Every step keeps the invariant.
LEMMA FenceStep == FInv /\ [Next]_vars => FInv'
<1> SUFFICES ASSUME FInv, [Next]_vars PROVE FInv'
  OBVIOUS
<1>1. IInv /\ TypeOK /\ OneActiveJob /\ Holding /\ SoleHolder /\ Kinds /\ Ahead /\ Failing
  BY DEF FInv, IInv, Fence
<1>2. IInv' /\ RowsStep /\ WorkersEnter /\ ReviewsOpen
  BY <1>1, InvStep, NextRows, NextEnters, NextReviews
<1> QED
  BY <1>1, <1>2, AheadStep, FailingStep DEF FInv, Fence

-----------------------------------------------------------------------------
(* The property.                                                           *)

\* A job completes at the hands of its worker, which at its last stage owns a recording, or
\* has found the draft it fingerprinted.
Finds(w) ==
  At(w, "ready") => SameDraft(w) \/ (Owned(w) /\ ~Reprocessing(w))
Completions ==
  \A j \in Jobs : job'[j].status = "completed" /\ job[j].status # "completed" =>
    \E w \in Workers : ~At(w, "idle") /\ worker[w].job = j /\ Finds(w)

\* A step that completes no job.
LEMMA NothingCompletes ==
  ASSUME \A j \in Jobs : job'[j].status = job[j].status \/ job'[j].status # "completed"
  PROVE  Completions
BY DEF Completions

\* A worker that writes its row, and either leaves the status or may complete the job.
LEMMA WorkerCompletes ==
  ASSUME TypeOK, NEW w \in Workers, ~At(w, "idle"), NEW row, SetRow(w, row),
         \/ row.status = Row(w).status
         \/ row.status # "completed"
         \/ Finds(w)
  PROVE  Completions
<1>1. worker[w].job \in Jobs
  BY BusyWorker
<1>2. \A j \in Jobs : job'[j] = IF j = worker[w].job THEN row ELSE job[j]
  BY <1>1 DEF SetRow, TypeOK
<1> QED
  BY <1>1, <1>2 DEF Completions, Row

\* A provider checkpoint completes no job.
LEMMA CheckpointCompletes ==
  ASSUME TypeOK, NEW w \in Workers, ~At(w, "idle"),
         job' = job \/ \E status : Checkpoint(w, status)
  PROVE  Completions
<1>1. CASE job' = job
  BY <1>1, NothingCompletes
<1>2. CASE \E status : Checkpoint(w, status)
  <2>1. PICK status : Checkpoint(w, status)
    BY <1>2
  <2>2. Row(w) \in JobRow
    BY BusyWorker
  <2>3. [Row(w) EXCEPT !.provider = status].status = Row(w).status
    BY <2>2 DEF JobRow
  <2> QED
    BY <2>1, <2>3, WorkerCompletes DEF Checkpoint
<1> QED
  BY <1>1, <1>2

\* The end of an attempt completes no job.
LEMMA EndCompletes ==
  ASSUME TypeOK, NEW j \in Jobs, EndAttempt(j)
  PROVE  Completions
<1>1. InterruptedRow(job[j]).status # "completed"
  BY RowUpdates DEF TypeOK
<1>2. \A k \in Jobs : job'[k] = IF k = j THEN InterruptedRow(job[j]) ELSE job[k]
  BY DEF EndAttempt, TypeOK
<1> QED
  BY <1>1, <1>2, NothingCompletes

\* Jobs complete by the last commits of the pipeline and by _finish.
LEMMA WorkCompletes ==
  ASSUME TypeOK, NEW w \in Workers, Work(w)
  PROVE  Completions
<1>1. CASE job' = job
  BY <1>1, NothingCompletes
<1>2. CASE Renew(w)
  <2>1. ~At(w, "idle")
    BY <1>2 DEF Renew, At
  <2>2. Row(w) \in JobRow
    BY <2>1, BusyWorker
  <2>3. [Row(w) EXCEPT !.live = TRUE].status = Row(w).status
    BY <2>2 DEF JobRow
  <2> QED
    BY <1>1, <1>2, <2>1, <2>3, WorkerCompletes DEF Renew
<1>3. CASE StopConflict(w)
  <2>1. ~At(w, "idle")
    BY <1>3 DEF StopConflict, At
  <2>2. FailedRow(Row(w)).status # "completed"
    BY <2>1, BusyWorker, RowUpdates
  <2> QED
    BY <1>1, <1>3, <2>1, <2>2, WorkerCompletes DEF StopConflict
<1>4. CASE Reserve(w)
  <2>1. ~At(w, "idle")
    BY <1>4 DEF Reserve, At
  <2>2. Row(w) \in JobRow
    BY <2>1, BusyWorker
  <2>3. [Row(w) EXCEPT !.submissions = 1, !.provider = "submitting"].status = Row(w).status
    BY <2>2 DEF JobRow
  <2> QED
    BY <1>4, <2>1, <2>3, WorkerCompletes DEF Reserve, ReserveRow
<1>5. CASE NoteUnsure(w) \/ NoteRejected(w) \/ NoteLost(w)
  BY <1>5, CheckpointCompletes DEF NoteUnsure, NoteRejected, NoteLost, Note, At
<1>6. CASE NoteSubmitted(w) \/ NoteCompleted(w) \/ PollEnds(w)
  BY <1>6, CheckpointCompletes DEF NoteSubmitted, NoteCompleted, Advance, PollEnds, At
<1>7. CASE Install(w)
  <2>1. ~At(w, "idle")
    BY <1>7 DEF Install, At
  <2>2. job' = job \/ (SetRow(w, CompletedRow(Row(w))) /\ Finds(w))
    BY <1>7 DEF Install, Commits, Fenced, Finds
  <2> QED
    BY <1>1, <2>1, <2>2, WorkerCompletes
<1>8. CASE InstallReprocess(w)
  <2>1. ~At(w, "idle")
    BY <1>8 DEF InstallReprocess, At
  <2>2. FailedRow(Row(w)).status # "completed"
    BY <2>1, BusyWorker, RowUpdates
  <2>3. \/ job' = job
        \/ SetRow(w, CompletedRow(Row(w))) /\ Finds(w)
        \/ SetRow(w, FailedRow(Row(w)))
    BY <1>8 DEF InstallReprocess, Finds
  <2> QED
    BY <1>1, <2>1, <2>2, <2>3, WorkerCompletes
<1>9. CASE FinishOk(w)
  <2>1. ~At(w, "idle") /\ Finds(w)
    BY <1>9 DEF FinishOk, At, Finds
  <2>2. worker[w].job \in Jobs
    BY <2>1, BusyWorker
  <2>3. job' = job \/ EndAttempt(worker[w].job) \/ SetRow(w, CompletedRow(Row(w)))
    BY <1>9 DEF FinishOk
  <2> QED
    BY <1>1, <2>1, <2>2, <2>3, WorkerCompletes, EndCompletes
<1>10. CASE FinishError(w)
  <2>1. worker[w].job \in Jobs
    BY <1>10, BusyWorker DEF FinishError, At
  <2> QED
    BY <1>1, <1>10, <2>1, EndCompletes DEF FinishError
<1>11. CASE TryLock(w) \/ Begin(w) \/ Prepare(w) \/ StartDownload(w) \/ Fetch(w)
            \/ ReserveRefused(w) \/ Post(w) \/ Save(w) \/ Extract(w) \/ MarkFailed(w)
            \/ Unlock(w) \/ Unwind(w)
  BY <1>1, <1>11 DEF TryLock, Begin, Prepare, StartDownload, Fetch, ReserveRefused, Post, Save,
     Extract, MarkFailed, Unlock, Unwind, rows
<1> QED
  BY <1>2, <1>3, <1>4, <1>5, <1>6, <1>7, <1>8, <1>9, <1>10, <1>11 DEF Work

\* Nothing that happens to a worker completes its job.
LEMMA DisturbCompletes ==
  ASSUME TypeOK, NEW w \in Workers, Disturb(w)
  PROVE  Completions
<1>1. CASE PollProgress(w)
  BY <1>1, CheckpointCompletes DEF PollProgress, At
<1>2. CASE Heartbeat(w)
  <2>1. ~At(w, "idle")
    BY <1>2 DEF Heartbeat, At, PipelineStages, ProviderStages
  <2>2. Row(w) \in JobRow
    BY <2>1, BusyWorker
  <2>3. [Row(w) EXCEPT !.live = TRUE].status = Row(w).status
    BY <2>2 DEF JobRow
  <2> QED
    BY <1>2, <2>1, <2>3, WorkerCompletes DEF Heartbeat
<1>3. CASE job' = job
  BY <1>3, NothingCompletes
<1> QED
  BY <1>1, <1>2, <1>3 DEF Disturb, StopAfterClaim, PrepareFails, StepFails, FinishFails,
     Interrupt, Crash, LockLost, rows

\* The steps that move a worker complete jobs only so.
LEMMA MovesComplete ==
  ASSUME TypeOK, WorkerStep, worker' # worker
  PROVE  Completions
<1>1. ASSUME NEW w \in Workers, NEW j \in Jobs, Claim(w, j)
      PROVE  Completions
  <2>1. \A k \in Jobs \ {j} : job'[k] = job[k]
    BY <1>1 DEF Claim, TakeLease, TypeOK
  <2>2. job'[j].status = "processing"
    BY <1>1 DEF Claim, TakeLease, TypeOK, JobRow
  <2> QED
    BY <2>1, <2>2, NothingCompletes
<1> QED
  BY <1>1, WorkCompletes, DisturbCompletes DEF WorkerStep, Recover, Expire

\* No step of a worker, however late, takes a meeting out of review, drops edits of its
\* draft or replaces a draft that changed since it was fingerprinted: ReviewOutlivesWorkers,
\* for any number of workers, jobs and reviewers.
THEOREM ReviewIsRespected == Spec => ReviewOutlivesWorkers
<1> DEFINE Respected ==
      worker' # worker =>
        \A i \in Items : meeting[i] \in ReviewStates =>
          /\ meeting'[i] = meeting[i]
          /\ draft'[i] = draft[i]
          /\ \A w \in Workers :
               At(w, "ready") /\ Item(w) = i /\ Row(w).status # job'[worker[w].job].status
                 /\ job'[worker[w].job].status = "completed"
               => draft[i] = worker[w].base
<1>1. FInv /\ [Next]_vars => Respected
  <2> SUFFICES ASSUME FInv, [Next]_vars, worker' # worker,
                      NEW i \in Items, meeting[i] \in ReviewStates
               PROVE  /\ meeting'[i] = meeting[i]
                      /\ draft'[i] = draft[i]
                      /\ \A w \in Workers :
                           At(w, "ready") /\ Item(w) = i
                             /\ Row(w).status # job'[worker[w].job].status
                             /\ job'[worker[w].job].status = "completed"
                           => draft[i] = worker[w].base
    OBVIOUS
  <2>1. TypeOK /\ SoleHolder /\ Kinds /\ Ahead /\ Failing
    BY DEF FInv, IInv, Fence
  <2>2. WorkerStep
    BY DEF Next, vars, rows, ApiStep, ReviewStep, Webhook, QueueVerified, Import, ImportAgain,
       Reprocess, Cancel, Reconcile, AttachMeeting, RetryRead, RetryCheck, Enqueue,
       RequestRefused, Unsubscribe, Cleanup, EditDraft, SaveDecisions, Approve
  <2>3. ReviewsStay /\ Completions
    BY <2>1, <2>2, QueueReviews, MovesComplete
  <2>4. ASSUME NEW w \in Workers, At(w, "ready"), Item(w) = i,
               Row(w).status # job'[worker[w].job].status,
               job'[worker[w].job].status = "completed"
        PROVE  draft[i] = worker[w].base
    <3>1. worker[w].job \in Jobs /\ ~At(w, "idle") /\ worker[w].pc \in Working
      BY <2>1, <2>4, BusyWorker, WorkingStages DEF At
    <3>2. PICK v \in Workers : ~At(v, "idle") /\ worker[v].job = worker[w].job /\ Finds(v)
      BY <2>3, <2>4, <3>1 DEF Completions, Row
    <3>3. v = w
      BY <2>1, <3>1, <3>2 DEF SoleHolder
    <3>4. SameDraft(w)
      BY <2>1, <2>4, <3>1, <3>2, <3>3 DEF Finds, Ahead
    <3> QED
      BY <2>4, <3>4 DEF SameDraft
  <2> QED
    BY <2>3, <2>4 DEF ReviewsStay
<1>2. Spec => [][Respected]_vars
  BY FenceInit, FenceStep, <1>1, PTL DEF Spec
<1> QED
  BY <1>2 DEF ReviewOutlivesWorkers

-----------------------------------------------------------------------------
(* What else can take a meeting out of review.                             *)

\* A retry of a recording that read the meeting before its result was there.
StaleRetry(h, new, i) ==
  /\ request[h].item = i /\ request[h].old # Nobody
  /\ request[h].source = "manual_retry" /\ request[h].saw \notin ReviewStates
  /\ Enqueue(h, new)

\* A meeting under review stays as it is unless it is approved or such a retry commits.
OnlyStaleRetriesReopen ==
  [][\A i \in Items : meeting[i] \in ReviewStates /\ meeting'[i] # meeting[i] =>
       Approve(i) \/ \E h \in Handlers, new \in Jobs : StaleRetry(h, new, i)]_vars

\* A request that read a meeting under review does not retry a recording.
ReadsAreHeld ==
  \A h \in Handlers : request[h].source = "manual_retry" => request[h].saw \notin ReviewStates

\* Only the first read of a request says what it will do.
LEMMA ReadsStayHeld == TypeOK /\ ReadsAreHeld /\ [Next]_vars => ReadsAreHeld'
<1> SUFFICES ASSUME TypeOK, ReadsAreHeld, [Next]_vars, NEW h \in Handlers,
                    request'[h].source = "manual_retry"
             PROVE  request'[h].saw \notin ReviewStates
  BY DEF ReadsAreHeld
<1>1. request \in [Handlers -> RequestState] /\ NoRequest \in RequestState
  BY NoRequests DEF TypeOK
<1>2. CASE request'[h].source = request[h].source /\ request'[h].saw = request[h].saw
  BY <1>2 DEF ReadsAreHeld
<1>3. ASSUME NEW r \in RequestState
      PROVE  Checked(r).source = r.source /\ Checked(r).saw = r.saw
  BY DEF Checked, RequestState
<1>5. ASSUME NEW g \in Handlers, NEW i \in Items, ImportAgain(g, i)
      PROVE  g # h
  <2>1. request'[g] = Checked([NoRequest EXCEPT !.item = i])
    BY <1>1, <1>5 DEF ImportAgain
  <2>2. /\ [NoRequest EXCEPT !.item = i] \in RequestState
        /\ [NoRequest EXCEPT !.item = i].source = "recording"
    BY <1>1 DEF RequestState, NoRequest
  <2>3. request'[g].source = "recording"
    BY <1>3, <2>1, <2>2
  <2> QED
    BY <2>3
<1>6. ASSUME NEW g \in Handlers, NEW i \in Items, Reprocess(g, i)
      PROVE  g # h
  <2>1. request'[g] = Checked([NoRequest EXCEPT !.item = i, !.source = "manual_reprocess"])
    BY <1>1, <1>6 DEF Reprocess
  <2>2. /\ [NoRequest EXCEPT !.item = i, !.source = "manual_reprocess"] \in RequestState
        /\ [NoRequest EXCEPT !.item = i, !.source = "manual_reprocess"].source
             = "manual_reprocess"
    BY <1>1 DEF RequestState, NoRequest, Sources
  <2>3. request'[g].source = "manual_reprocess"
    BY <1>3, <2>1, <2>2
  <2> QED
    BY <2>3
<1>7. ASSUME NEW g \in Handlers, NEW j \in Jobs, RetryRead(g, j), g = h
      PROVE  request'[h].saw \notin ReviewStates
  <2>1. request'[h] = [NoRequest EXCEPT !.step = "read", !.item = ItemOf[j], !.old = j,
                                        !.source = RetrySource(j), !.saw = meeting[ItemOf[j]]]
    BY <1>1, <1>7 DEF RetryRead
  <2>2. request'[h].source = RetrySource(j) /\ request'[h].saw = meeting[ItemOf[j]]
    BY <1>1, <2>1 DEF RequestState
  <2>3. meeting[ItemOf[j]] \in ReviewStates => job[j].source = "manual_reprocess"
    BY <1>7 DEF RetryRead
  <2> QED
    BY <2>2, <2>3 DEF RetrySource
<1>8. ASSUME NEW g \in Handlers, RetryCheck(g)
      PROVE  request'[h].source = request[h].source /\ request'[h].saw = request[h].saw
  <2>1. request' = [request EXCEPT ![g] = Checked(request[g])]
    BY <1>1, <1>8 DEF RetryCheck
  <2> QED
    BY <1>1, <1>3, <2>1
<1>9. ASSUME NEW g \in Handlers, request' = [request EXCEPT ![g] = NoRequest]
      PROVE  g # h
  BY <1>1, <1>9 DEF NoRequest
<1>10. ASSUME NEW g \in Handlers, NEW r, request' = [request EXCEPT ![g] = r], g # h
       PROVE  request'[h] = request[h]
  BY <1>1, <1>10
<1>11. CASE request' = request
  BY <1>2, <1>11
<1>12. CASE WorkerStep
  <2>1. request' = request
    BY <1>12 DEF WorkerStep, Work, Disturb, TryLock, Renew, Begin, StopConflict, Prepare,
       StartDownload, Fetch, Save, Extract, Install, InstallReprocess, MarkFailed, Unlock, Unwind,
       Reserve, ReserveRefused, Post, NoteUnsure, NoteSubmitted, PollEnds, NoteCompleted,
       NoteRejected, NoteLost, Note, Advance, FinishOk, FinishError, EndAttempt, StopAfterClaim,
       PrepareFails, StepFails, FinishFails, PollProgress, Heartbeat, Interrupt, Crash, LockLost,
       Claim, TakeLease, Recover, Expire
  <2> QED
    BY <1>11, <2>1
<1>13. CASE ReviewStep \/ UNCHANGED vars
  BY <1>11, <1>13 DEF ReviewStep, EditDraft, SaveDecisions, Approve, vars
<1>14. CASE \E g \in Handlers : RequestRefused(g) \/ \E j \in Jobs : Enqueue(g, j)
  BY <1>2, <1>9, <1>10, <1>14 DEF RequestRefused, Enqueue
<1>15. CASE \E g \in Handlers, i \in Items : ImportAgain(g, i) \/ Reprocess(g, i)
  BY <1>2, <1>5, <1>6, <1>10, <1>15 DEF ImportAgain, Reprocess
<1>16. CASE \E g \in Handlers, j \in Jobs : RetryRead(g, j)
  BY <1>2, <1>7, <1>10, <1>16 DEF RetryRead
<1>17. CASE \E g \in Handlers : RetryCheck(g)
  BY <1>2, <1>8, <1>17
<1>18. CASE ApiStep
  BY <1>11, <1>14, <1>15, <1>16, <1>17, <1>18 DEF ApiStep, Webhook, QueueVerified, Import, Cancel,
     Reconcile, AttachMeeting, Unsubscribe, Cleanup
<1> QED
  BY <1>12, <1>13, <1>18 DEF Next

\* Of the requests only a stale retry moves a meeting under review.
LEMMA RequestsReopen ==
  ASSUME TypeOK, ReadsAreHeld, ApiStep,
         NEW i \in Items, meeting[i] \in ReviewStates, meeting'[i] # meeting[i]
  PROVE  \E h \in Handlers, new \in Jobs : StaleRetry(h, new, i)
<1>1. "none" \notin ReviewStates
  BY DEF ReviewStates
<1>2. ~\E j \in Jobs : Webhook(j) \/ Import(j)
  BY DEF Webhook, Import
<1>3. ASSUME NEW j \in Jobs, QueueVerified(j) \/ Cancel(j)
      PROVE  FALSE
  BY <1>1, <1>3 DEF QueueVerified, Cancel, TypeOK
<1>4. ~\E k \in Items : Reconcile(k) \/ AttachMeeting(k)
  BY <1>1 DEF Reconcile, AttachMeeting, TypeOK
<1>5. ASSUME NEW h \in Handlers, NEW new \in Jobs, Enqueue(h, new)
      PROVE  StaleRetry(h, new, i)
  <2>1. /\ request[h].item = ItemOf[new]
        /\ meeting' = [meeting EXCEPT ![ItemOf[new]] = IF Requeues(request[h]) THEN "queued" ELSE @]
    BY <1>5 DEF Enqueue
  <2>2. i = ItemOf[new] /\ Requeues(request[h])
    BY <2>1 DEF TypeOK
  <2> QED
    BY <1>5, <2>1, <2>2 DEF Requeues, ReadsAreHeld, StaleRetry
<1>6. ~\/ \E h \in Handlers, j \in Jobs : RetryRead(h, j)
       \/ \E h \in Handlers : RetryCheck(h) \/ RequestRefused(h)
       \/ \E h \in Handlers, k \in Items : ImportAgain(h, k) \/ Reprocess(h, k)
       \/ \E o \in Owners : Unsubscribe(o)
       \/ \E admin \in Admins, j \in Jobs : Cleanup(admin, j)
  BY DEF RetryRead, RetryCheck, RequestRefused, ImportAgain, Reprocess, Unsubscribe, Cleanup, rows
<1> QED
  BY <1>2, <1>3, <1>4, <1>5, <1>6 DEF ApiStep

\* The whole of the fault behind RequestsKeepReview: whatever workers, users and failures do,
\* a meeting leaves its review only by a retry that had read it before the result was there
\* (recording_jobs.py:199, read without a lock and written after further awaits).
THEOREM StaleRetriesReopen == Spec => OnlyStaleRetriesReopen
<1> DEFINE Reopens ==
      \A i \in Items : meeting[i] \in ReviewStates /\ meeting'[i] # meeting[i] =>
        Approve(i) \/ \E h \in Handlers, new \in Jobs : StaleRetry(h, new, i)
<1>1. Init => ReadsAreHeld
  BY DEF Init, ReadsAreHeld, NoRequest
<1>2. FInv => TypeOK
  BY DEF FInv, IInv
<1>3. Spec => []ReadsAreHeld
  BY <1>1, <1>2, FenceInit, FenceStep, ReadsStayHeld, PTL DEF Spec
<1>4. FInv /\ ReadsAreHeld /\ [Next]_vars => [Reopens]_vars
  <2> SUFFICES ASSUME FInv, ReadsAreHeld, Next,
                      NEW i \in Items, meeting[i] \in ReviewStates, meeting'[i] # meeting[i]
               PROVE  Approve(i) \/ \E h \in Handlers, new \in Jobs : StaleRetry(h, new, i)
    OBVIOUS
  <2>1. TypeOK /\ Kinds /\ Ahead /\ Failing
    BY DEF FInv, IInv, Fence
  <2>2. CASE WorkerStep
    <3>1. ReviewsStay
      BY <2>1, <2>2, QueueReviews
    <3>2. QED BY <3>1 DEF ReviewsStay
  <2>3. CASE ApiStep
    BY <2>1, <2>3, RequestsReopen
  <2>4. CASE ReviewStep
    BY <2>1, <2>4 DEF ReviewStep, EditDraft, SaveDecisions, Approve, TypeOK
  <2>5. QED BY <2>2, <2>3, <2>4 DEF Next
<1>5. QED BY <1>3, <1>4, FenceInit, FenceStep, PTL DEF Spec, OnlyStaleRetriesReopen
=============================================================================
