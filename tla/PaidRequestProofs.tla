------------------------- MODULE PaidRequestProofs -------------------------
(***************************************************************************)
(* What the recording queue spends, for any number of recordings, jobs,    *)
(* workers, requests and reviewers: the reservation before the request,    *)
(* the recordings whose request has an open fate, and the refinement of    *)
(* the life cycle JobLifecycle.  The argument sorts every step by what it  *)
(* does to the rows and to the stages of the provider call.                *)
(***************************************************************************)
EXTENDS RecordingQueueProofs

-----------------------------------------------------------------------------
(* The kinds of steps.                                                     *)

\* A request whose fate is open, or that may still be made: what Blocked looks for.
Open(j) == Exists(j) /\ (Active(j) \/ job[j].provider \in UnresolvedProviders)

\* A request for a further job is about a recording of the ledger, and the jobs it knows
\* when it has looked are closed; those an import knows are gone.
Asks(r) ==
  /\ r.step # "idle" => r.item \in Items /\ ledger[r.item]
  /\ r.step = "read" => r.source # "recording"
  /\ r.step = "checked" => \A k \in r.known :
       /\ job[k].status # "absent" /\ ~Open(k)
       /\ r.source = "recording" => ~Exists(k)

\* When it looks, it knows all jobs of its recording.
Sees(r) == r.step = "checked" => r.known = Inserted(r.item)

\* What may become of a row without the provider being asked or heard: its admission and
\* its history stay, but for a reservation given up.
Moves(r, s) ==
  /\ s \in JobRow
  /\ s.admitted = r.admitted /\ s.submissions = r.submissions /\ s.unseen = r.unseen
  /\ \/ s.provider = r.provider
     \/ r.provider = "submitting" /\ s.provider = "submission_unknown"
  /\ \/ s.status = r.status
     \/ r.status = "pending" /\ r.admitted /\ s.status = "processing"
     \/ r.status = "pending" /\ s.status = "cancelled"
     \/ r.status = "processing" /\ s.status \in {"failed", "cancelled", "completed"}
     \/ r.status \in RetryableStatuses /\ s.status = "deleted" /\ Admins # {}

\* Whoever completes a job holds it and is not waiting for the provider.
EndedBy(k) ==
  \E w \in Workers : worker[w].job = k /\ ~At(w, "idle") /\ worker[w].pc \notin ProviderStages

RowMoves ==
  \/ job' = job
  \/ \E k \in Jobs : \E row \in JobRow :
       /\ job' = [job EXCEPT ![k] = row]
       /\ Moves(job[k], row)
       /\ row.status = "completed" /\ job[k].status # "completed" => EndedBy(k)

\* No worker enters a stage of the provider call from outside, nor goes back to its first.
Calm ==
  \A w \in Workers : worker'[w].pc \in ProviderStages =>
    /\ worker[w].pc \in ProviderStages
    /\ worker'[w].job = worker[w].job
    /\ worker'[w].pc = "reserved" => At(w, "reserved")

Remembers ==
  /\ \A i \in Items : ledger[i] => ledger'[i]
  /\ \A h \in Handlers : request'[h] = request[h] \/ (Asks(request'[h]) /\ Sees(request'[h]))

\* A step that asks the provider nothing.
PlainStep == RowMoves /\ Calm /\ Remembers /\ posts' = posts

\* A new row: the first of its recording, or one a request has looked for.
FirstJob ==
  /\ \E j \in Jobs, admitted \in BOOLEAN : EnqueueRecording(j, admitted)
  /\ request' = request
FurtherJob(h) ==
  /\ \E j \in Jobs : /\ request[h].step = "checked" /\ request[h].item = ItemOf[j]
                      /\ EnqueueRetry(j, request[h].source, request[h].known)
  /\ request' = [request EXCEPT ![h] = NoRequest]
  /\ ledger' = ledger
InsertStep ==
  /\ FirstJob \/ \E h \in Handlers : FurtherJob(h)
  /\ worker' = worker /\ posts' = posts

\* What a worker learns of its request.
HearStep(w) ==
  /\ worker[w].pc \in ProviderStages \ {"reserved"}
  /\ \E status \in Providers \ {"none", "submitting"} : Checkpoint(w, status)
  /\ Calm /\ Remembers /\ posts' = posts

-----------------------------------------------------------------------------
(* Rows.                                                                   *)

\* The ways the holder of a running job rewrites its row.
LEMMA UpdatesMove ==
  ASSUME NEW r \in JobRow
  PROVE  /\ r.status = "processing" => /\ Moves(r, FailedRow(r))
                                       /\ Moves(r, InterruptedRow(r))
                                       /\ Moves(r, CompletedRow(r))
         /\ r.status = "pending" => Moves(r, CancelledRow([r EXCEPT !.cancel = TRUE]))
         /\ Moves(r, [r EXCEPT !.live = TRUE])
         /\ Moves(r, [r EXCEPT !.live = FALSE])
         /\ Moves(r, [r EXCEPT !.cancel = TRUE])
<1>1. /\ FailedRow(r) \in JobRow /\ InterruptedRow(r) \in JobRow /\ CompletedRow(r) \in JobRow
      /\ FailedRow(r).status = "failed" /\ CompletedRow(r).status = "completed"
      /\ InterruptedRow(r).status \in {"failed", "cancelled"}
  BY RowUpdates
<1>2. r.status = "processing" => Moves(r, FailedRow(r)) /\ Moves(r, CompletedRow(r))
  BY <1>1 DEF Moves, FailedRow, CompletedRow, JobRow
<1>3. r.status = "processing" => Moves(r, InterruptedRow(r))
  BY <1>1 DEF Moves, InterruptedRow, FailedRow, CancelledRow, JobRow
<1>4. r.status = "pending" => Moves(r, CancelledRow([r EXCEPT !.cancel = TRUE]))
  BY DEF Moves, CancelledRow, JobRow, Statuses
<1>5. /\ Moves(r, [r EXCEPT !.live = TRUE])
      /\ Moves(r, [r EXCEPT !.live = FALSE])
      /\ Moves(r, [r EXCEPT !.cancel = TRUE])
  BY DEF Moves, JobRow
<1> QED
  BY <1>2, <1>3, <1>4, <1>5

\* One row moves without completing.
LEMMA OneRowMoves ==
  ASSUME TypeOK, NEW k \in Jobs, NEW row, job' = [job EXCEPT ![k] = row],
         Moves(job[k], row), row.status # "completed" \/ row.status = job[k].status
  PROVE  RowMoves
BY DEF RowMoves, Moves

\* The holder of a job moves its row.
LEMMA HolderMoves ==
  ASSUME TypeOK, NEW w \in Workers, ~At(w, "idle"), NEW row,
         SetRow(w, row), Moves(Row(w), row),
         row.status = "completed" => worker[w].pc \notin ProviderStages
  PROVE  RowMoves
<1>1. worker[w].job \in Jobs
  BY BusyWorker
<1>2. row.status = "completed" => EndedBy(worker[w].job)
  BY DEF EndedBy
<1>3. row \in JobRow
  BY DEF Moves
<1> QED
  BY <1>1, <1>2, <1>3 DEF RowMoves, SetRow, Row

\* The end of an attempt moves its row.
LEMMA EndsMove ==
  ASSUME TypeOK, NEW j \in Jobs, job[j].status = "processing", EndAttempt(j)
  PROVE  RowMoves
<1>1. job[j] \in JobRow
  BY DEF TypeOK
<1>2. Moves(job[j], InterruptedRow(job[j])) /\ InterruptedRow(job[j]).status # "completed"
  BY <1>1, UpdatesMove, RowUpdates
<1> QED
  BY <1>2, OneRowMoves DEF EndAttempt

-----------------------------------------------------------------------------
(* Workers.                                                                *)

\* The stages that neither reserve nor send.
LEMMA CalmStages ==
  {"idle", "claimed", "locked", "finish", "unlock", "unwind", "finish_error", "begin",
   "conflict", "prepare", "download", "fetch", "upload", "transcribed", "extract", "ready",
   "failing", "failing_text"} \cap ProviderStages = {}
BY DEF ProviderStages

\* A worker outside the provider call, or leaving it.
LEMMA LeavesCalmly ==
  ASSUME TypeOK, NEW w \in Workers, NEW stage, stage \notin ProviderStages, Goto(w, stage)
  PROVE  Calm
BY DEF Goto, Calm, TypeOK, WorkerState, At

\* A worker going on with the provider call.
LEMMA WaitsCalmly ==
  ASSUME TypeOK, NEW w \in Workers, worker[w].pc \in ProviderStages,
         NEW stage, stage # "reserved", Goto(w, stage)
  PROVE  Calm
BY DEF Goto, Calm, TypeOK, WorkerState, At

\* A worker that gives its job up.
LEMMA DropsCalmly ==
  ASSUME TypeOK, NEW w \in Workers, worker' = [worker EXCEPT ![w] = IdleWorker]
  PROVE  Calm
BY CalmStages DEF Calm, TypeOK, At, IdleWorker

\* No worker moves.
LEMMA StaysCalmly ==
  ASSUME worker' = worker
  PROVE  Calm
BY DEF Calm, At

\* A worker whose pipeline fails leaves the provider call.
LEMMA FailsCalmly ==
  ASSUME TypeOK, NEW w \in Workers, Fails(w) \/ Refused(w)
  PROVE  Calm
BY LeavesCalmly, CalmStages DEF Fails, Refused

\* Where the ledger and the requests are left alone, nothing is forgotten.
LEMMA NothingForgotten ==
  ASSUME ledger' = ledger, request' = request
  PROVE  Remembers
BY DEF Remembers

-----------------------------------------------------------------------------
(* Every step is of one of the kinds.                                      *)

\* What a worker left alone does, the two steps that reserve and send apart.
LEMMA WorkKinds ==
  ASSUME TypeOK, NEW w \in Workers, Work(w)
  PROVE  PlainStep \/ HearStep(w) \/ Reserve(w) \/ Post(w)
<1> SUFFICES ASSUME ~Reserve(w), ~Post(w)
             PROVE  PlainStep \/ HearStep(w)
  OBVIOUS
<1>1. ledger' = ledger /\ request' = request /\ posts' = posts
  BY DEF Work, TryLock, Renew, Begin, StopConflict, Prepare, StartDownload, Fetch,
     ReserveRefused, NoteUnsure, NoteSubmitted, PollEnds, NoteCompleted, NoteRejected,
     NoteLost, Note, Advance, Save, Extract, Install, InstallReprocess, MarkFailed, FinishOk,
     Unlock, Unwind, FinishError, rows
<1>2. Remembers
  BY <1>1, NothingForgotten
<1>3. CASE TryLock(w) \/ Begin(w) \/ Prepare(w) \/ StartDownload(w) \/ Fetch(w)
  <2>1. job' = job
    BY <1>3 DEF TryLock, Begin, Prepare, StartDownload, Fetch, rows
  <2>2. Calm
    <3>1. CASE worker' = [worker EXCEPT ![w].pc = "fetch", ![w].base = draft[Item(w)]]
      BY <3>1, CalmStages DEF Calm, TypeOK, WorkerState, At
    <3> QED
      BY <1>3, <3>1, LeavesCalmly, FailsCalmly, CalmStages
         DEF TryLock, Begin, Prepare, StartDownload, Fetch, Commits
  <2> QED
    BY <1>1, <1>2, <2>1, <2>2 DEF PlainStep, RowMoves
<1>4. CASE ReserveRefused(w) \/ Save(w) \/ Extract(w) \/ MarkFailed(w) \/ Unlock(w) \/ Unwind(w)
  <2>1. job' = job
    BY <1>4 DEF ReserveRefused, Save, Extract, MarkFailed, Unlock, Unwind, rows
  <2>2. Calm
    BY <1>4, LeavesCalmly, FailsCalmly, DropsCalmly, CalmStages
       DEF ReserveRefused, Save, Extract, MarkFailed, Unlock, Unwind, Commits
  <2> QED
    BY <1>1, <1>2, <2>1, <2>2 DEF PlainStep, RowMoves
<1>5. CASE Renew(w)
  <2>1. ~At(w, "idle") /\ Calm
    BY <1>5, LeavesCalmly, FailsCalmly, CalmStages DEF Renew, Commits, At
  <2>2. CASE Owned(w) /\ SetRow(w, [Row(w) EXCEPT !.live = TRUE])
    <3>1. Row(w) \in JobRow /\ Row(w).status = "processing"
      BY <2>1, <2>2, BusyWorker DEF Owned
    <3>2. [Row(w) EXCEPT !.live = TRUE].status = "processing"
      BY <3>1 DEF JobRow
    <3>3. RowMoves
      BY <2>1, <2>2, <3>1, <3>2, UpdatesMove, HolderMoves
    <3> QED
      BY <1>1, <1>2, <2>1, <3>3 DEF PlainStep
  <2>3. CASE job' = job
    BY <1>1, <1>2, <2>1, <2>3 DEF PlainStep, RowMoves
  <2> QED
    BY <1>5, <2>2, <2>3 DEF Renew, Commits, Fenced
<1>6. CASE StopConflict(w)
  <2>1. ~At(w, "idle") /\ Calm
    BY <1>6, LeavesCalmly, CalmStages DEF StopConflict, At
  <2>2. CASE Owned(w) /\ SetRow(w, FailedRow(Row(w)))
    <3>1. RowMoves
      BY <2>1, <2>2, BusyWorker, RowUpdates, UpdatesMove, HolderMoves DEF Owned
    <3> QED
      BY <1>1, <1>2, <2>1, <3>1 DEF PlainStep
  <2>3. CASE job' = job
    BY <1>1, <1>2, <2>1, <2>3 DEF PlainStep, RowMoves
  <2> QED
    BY <1>6, <2>2, <2>3 DEF StopConflict
<1>7. CASE NoteUnsure(w) \/ NoteRejected(w) \/ NoteLost(w)
  <2>1. /\ worker[w].pc \in ProviderStages \ {"reserved"}
        /\ {"submission_unknown", "error", "poll_unknown"}
             \subseteq Providers \ {"none", "submitting"}
    BY <1>7 DEF NoteUnsure, NoteRejected, NoteLost, Note, At, ProviderStages, Providers
  <2>2. Calm
    BY <1>7, LeavesCalmly, FailsCalmly, CalmStages
       DEF NoteUnsure, NoteRejected, NoteLost, Note, AfterNote
  <2>3. CASE job' = job
    BY <1>1, <1>2, <2>2, <2>3 DEF PlainStep, RowMoves
  <2>4. CASE \E status \in Providers \ {"none", "submitting"} : Checkpoint(w, status)
    BY <1>1, <1>2, <2>1, <2>2, <2>4 DEF HearStep
  <2> QED
    BY <1>7, <2>1, <2>3, <2>4 DEF NoteUnsure, NoteRejected, NoteLost, Note
<1>8. CASE NoteSubmitted(w) \/ NoteCompleted(w) \/ PollEnds(w)
  <2>1. /\ worker[w].pc \in ProviderStages \ {"reserved"}
        /\ {"submitted", "completed", "error"} \subseteq Providers \ {"none", "submitting"}
    BY <1>8 DEF NoteSubmitted, NoteCompleted, PollEnds, Advance, At, ProviderStages, Providers
  <2>2. Calm
    BY <1>8, <2>1, LeavesCalmly, WaitsCalmly, FailsCalmly, CalmStages
       DEF NoteSubmitted, NoteCompleted, PollEnds, Advance
  <2>3. CASE job' = job
    BY <1>1, <1>2, <2>2, <2>3 DEF PlainStep, RowMoves
  <2>4. CASE \E status \in Providers \ {"none", "submitting"} : Checkpoint(w, status)
    BY <1>1, <1>2, <2>1, <2>2, <2>4 DEF HearStep
  <2> QED
    BY <1>8, <2>1, <2>3, <2>4 DEF NoteSubmitted, NoteCompleted, PollEnds, Advance
<1>9. CASE Install(w) \/ InstallReprocess(w)
  <2>1. ~At(w, "idle") /\ worker[w].pc \notin ProviderStages
    BY <1>9, CalmStages DEF Install, InstallReprocess, At
  <2>2. Calm
    BY <1>9, LeavesCalmly, FailsCalmly, CalmStages DEF Install, InstallReprocess, Commits
  <2>3. CASE /\ Owned(w)
             /\ SetRow(w, CompletedRow(Row(w))) \/ SetRow(w, FailedRow(Row(w)))
    <3>1. RowMoves
      BY <2>1, <2>3, BusyWorker, RowUpdates, UpdatesMove, HolderMoves DEF Owned
    <3> QED
      BY <1>1, <1>2, <2>2, <3>1 DEF PlainStep
  <2>4. CASE job' = job
    BY <1>1, <1>2, <2>2, <2>4 DEF PlainStep, RowMoves
  <2> QED
    BY <1>9, <2>3, <2>4 DEF Install, InstallReprocess, Commits, Fenced
<1>10. CASE FinishOk(w) \/ FinishError(w)
  <2>1. ~At(w, "idle") /\ worker[w].pc \notin ProviderStages
    BY <1>10, CalmStages DEF FinishOk, FinishError, At
  <2>2. Calm
    BY <1>10, LeavesCalmly, DropsCalmly, CalmStages DEF FinishOk, FinishError
  <2>3. CASE Owned(w) /\ SetRow(w, CompletedRow(Row(w)))
    <3>1. RowMoves
      BY <2>1, <2>3, BusyWorker, UpdatesMove, HolderMoves DEF Owned
    <3> QED
      BY <1>1, <1>2, <2>2, <3>1 DEF PlainStep
  <2>4. CASE Owned(w) /\ EndAttempt(worker[w].job)
    <3>1. RowMoves
      BY <2>1, <2>4, BusyWorker, EndsMove DEF Owned, Row
    <3> QED
      BY <1>1, <1>2, <2>2, <3>1 DEF PlainStep
  <2>5. CASE job' = job
    BY <1>1, <1>2, <2>2, <2>5 DEF PlainStep, RowMoves
  <2> QED
    BY <1>10, <2>3, <2>4, <2>5 DEF FinishOk, FinishError, Fenced
<1> QED
  BY <1>3, <1>4, <1>5, <1>6, <1>7, <1>8, <1>9, <1>10 DEF Work

\* What may happen to a worker.
LEMMA DisturbKinds ==
  ASSUME TypeOK, NEW w \in Workers, Disturb(w)
  PROVE  PlainStep \/ HearStep(w)
<1>1. ledger' = ledger /\ request' = request /\ posts' = posts
  BY DEF Disturb, StopAfterClaim, PrepareFails, StepFails, FinishFails, PollProgress, Heartbeat,
     Interrupt, Crash, LockLost, rows
<1>2. Remembers
  BY <1>1, NothingForgotten
<1>3. CASE PollProgress(w)
  <2>1. /\ worker[w].pc \in ProviderStages \ {"reserved"}
        /\ {"queued", "processing"} \subseteq Providers \ {"none", "submitting"}
    BY <1>3 DEF PollProgress, At, ProviderStages, Providers
  <2>2. Calm
    BY <1>3, StaysCalmly DEF PollProgress
  <2> QED
    BY <1>1, <1>2, <1>3, <2>1, <2>2 DEF PollProgress, HearStep
<1>4. CASE Heartbeat(w)
  <2>1. ~At(w, "idle")
    BY <1>4 DEF Heartbeat, At, PipelineStages, ProviderStages
  <2>2. Row(w) \in JobRow /\ Row(w).status = "processing"
    BY <1>4, <2>1, BusyWorker DEF Heartbeat, Fenced, Owned
  <2>3. [Row(w) EXCEPT !.live = TRUE].status = "processing"
    BY <2>2 DEF JobRow
  <2>4. RowMoves
    BY <1>4, <2>1, <2>2, <2>3, UpdatesMove, HolderMoves DEF Heartbeat
  <2> QED
    BY <1>1, <1>2, <1>4, <2>4, StaysCalmly DEF Heartbeat, PlainStep
<1>5. CASE StopAfterClaim(w) \/ PrepareFails(w) \/ StepFails(w) \/ FinishFails(w) \/ LockLost(w)
           \/ Crash(w)
  <2>1. job' = job
    BY <1>5 DEF StopAfterClaim, PrepareFails, StepFails, FinishFails, LockLost, Crash, rows
  <2>2. Calm
    BY <1>5, LeavesCalmly, FailsCalmly, DropsCalmly, StaysCalmly, CalmStages
       DEF StopAfterClaim, PrepareFails, StepFails, FinishFails, LockLost, Crash
  <2> QED
    BY <1>1, <1>2, <2>1, <2>2 DEF PlainStep, RowMoves
<1>6. CASE Interrupt(w)
  <2>1. job' = job
    BY <1>6 DEF Interrupt, rows
  <2>2. PICK next \in CASE At(w, "reserved") -> {"reserved", "unwind"}
                       [] At(w, "unsure") -> {"unsure", "unwind"}
                       [] At(w, "polling") -> {"lost"}
                       [] worker[w].pc \in {"fetched", "rejected"} -> {"lost", "unwind"}
                       [] OTHER -> {"unwind"} :
          worker' = [worker EXCEPT ![w].pc = next, ![w].stop = TRUE]
    BY <1>6 DEF Interrupt
  <2>3. next \in ProviderStages => worker[w].pc \in ProviderStages
    BY <2>2 DEF At, ProviderStages
  <2>4. next = "reserved" => At(w, "reserved")
    BY <2>2 DEF At
  <2>5. \A v \in Workers : /\ v # w => worker'[v] = worker[v]
                           /\ worker'[w].pc = next /\ worker'[w].job = worker[w].job
    BY <2>2 DEF TypeOK, WorkerState
  <2>6. Calm
    BY <2>3, <2>4, <2>5 DEF Calm, At
  <2> QED
    BY <1>1, <1>2, <2>1, <2>6 DEF PlainStep, RowMoves
<1> QED
  BY <1>3, <1>4, <1>5, <1>6 DEF Disturb

\* Claims and recoveries are plain steps.
LEMMA QueueKinds ==
  ASSUME TypeOK, NEW w \in Workers, NEW j \in Jobs, Claim(w, j) \/ Recover(w, j)
  PROVE  PlainStep
<1>1. Remembers /\ posts' = posts
  BY NothingForgotten DEF Claim, TakeLease, Recover
<1>2. CASE Claim(w, j)
  <2> DEFINE row == [job[j] EXCEPT !.status = "processing", !.attempts = @ + 1,
                                   !.token = job[j].attempts + 1, !.live = TRUE]
  <2>1. job[j] \in JobRow
    BY DEF TypeOK
  <2>2. job' = [job EXCEPT ![j] = row] /\ job[j].status = "pending" /\ job[j].admitted
    BY <1>2, <2>1 DEF Claim, TakeLease, Fresh, TypeOK
  <2>3. row \in JobRow
    <3>1. job[j].attempts \in Nat /\ job[j].attempts + 1 \in Nat
      BY <2>1 DEF JobRow
    <3> QED
      BY <2>1, <3>1 DEF JobRow, Statuses
  <2>4. /\ row.status = "processing" /\ row.admitted = job[j].admitted
        /\ row.submissions = job[j].submissions /\ row.provider = job[j].provider
        /\ row.unseen = job[j].unseen
    BY <2>1 DEF JobRow
  <2> HIDE DEF row
  <2>5. RowMoves
    BY <2>2, <2>3, <2>4, OneRowMoves DEF Moves
  <2>6. Calm
    BY <1>2, CalmStages DEF Claim, TakeLease, Calm, TypeOK, WorkerState, IdleWorker, At
  <2> QED
    BY <1>1, <2>5, <2>6 DEF PlainStep
<1>3. CASE Recover(w, j)
  <2>1. RowMoves
    BY <1>3, EndsMove DEF Recover, Recoverable
  <2> QED
    BY <1>1, <1>3, <2>1, StaysCalmly DEF Recover, PlainStep
<1> QED
  BY <1>2, <1>3

\* So is the ageing of a lease.
LEMMA ExpireKind ==
  ASSUME TypeOK, NEW j \in Jobs, Expire(j)
  PROVE  PlainStep
<1>1. job[j] \in JobRow
  BY DEF TypeOK
<1>2. job' = [job EXCEPT ![j] = [job[j] EXCEPT !.live = FALSE]]
  BY DEF Expire, TypeOK
<1>3. [job[j] EXCEPT !.live = FALSE].status = job[j].status
  BY <1>1 DEF JobRow
<1>4. RowMoves
  BY <1>1, <1>2, <1>3, UpdatesMove, OneRowMoves
<1> QED
  BY <1>4, StaysCalmly, NothingForgotten DEF Expire, PlainStep

-----------------------------------------------------------------------------
(* The invariant.                                                          *)

\* Two open jobs of a recording overlapped: no request passes an open job it could see.
OneOpenJob ==
  \A j, k \in Jobs : ItemOf[j] = ItemOf[k] /\ Open(j) /\ Open(k) => j = k \/ Overlapped(j, k)

\* A recording with a job is in the ledger, and every request asks for what it should.
Known == \A j \in Jobs : job[j].status # "absent" => ledger[ItemOf[j]]
Asked == \A h \in Handlers : Asks(request[h])

\* What a row says of its paid request, against what left.
Accounted(r, sent) ==
  \/ r.submissions = 0 /\ r.provider = "none" /\ sent = 0
  \/ /\ r.submissions = 1 /\ r.provider # "none" /\ sent \in {0, 1}
     /\ r.status \notin {"absent", "pending"}
Accounts == \A j \in Jobs : Accounted(job[j], posts[j])

\* A worker at the provider works on a reservation that was admitted and that nobody ends
\* as completed; before the request nothing has left.
Reserved ==
  \A w \in Workers : worker[w].pc \in ProviderStages =>
    /\ Row(w).submissions = 1 /\ Row(w).admitted /\ Row(w).status # "completed"
    /\ At(w, "reserved") => /\ posts[worker[w].job] = 0
                           /\ Row(w).provider \in {"submitting", "submission_unknown"}

Spending == OneOpenJob /\ Known /\ Asked /\ Accounts /\ Reserved
PInv == IInv /\ Spending

\* An open job blocks its recording.
LEMMA BlockedOpens ==
  ASSUME NEW i \in Items
  PROVE  Blocked(i) <=> \E j \in Jobs : ItemOf[j] = i /\ Open(j)
BY DEF Blocked, Open, JobsOf

\* A request that has just looked knows jobs that are closed.
LEMMA LooksAsk ==
  ASSUME TypeOK, NEW r \in RequestState, r.item \in Items, ledger[r.item], ~Blocked(r.item),
         r.source = "recording" => \A j \in JobsOf(r.item) : ~Exists(j)
  PROVE  Asks(Checked(r)) /\ Sees(Checked(r))
<1>1. /\ Checked(r).step = "checked" /\ Checked(r).item = r.item
      /\ Checked(r).source = r.source /\ Checked(r).known = Inserted(r.item)
  BY DEF Checked, RequestState
<1>2. \A k \in Inserted(r.item) : /\ job[k].status # "absent" /\ ~Open(k)
                                  /\ r.source = "recording" => ~Exists(k)
  BY BlockedOpens DEF Inserted, JobsOf
<1> QED
  BY <1>1, <1>2 DEF Asks, Sees

\* So a request that moves alone is remembered if it asks for what it should.
LEMMA RequestRemembered ==
  ASSUME TypeOK, NEW h \in Handlers, NEW r, Asks(r), Sees(r),
         request' = [request EXCEPT ![h] = r], UNCHANGED <<rows, lock, worker, posts>>
  PROVE  PlainStep
<1>1. Remembers
  BY DEF Remembers, rows, TypeOK
<1> QED
  BY <1>1, StaysCalmly DEF rows, PlainStep, RowMoves

\* A request adds a job, withdraws jobs, or is a plain step.
LEMMA ApiKinds ==
  ASSUME TypeOK, Known, Asked, ApiStep
  PROVE  PlainStep \/ InsertStep \/ \E o \in Owners : Unsubscribe(o)
<1>1. request \in [Handlers -> RequestState] /\ NoRequest \in RequestState
  BY NoRequests DEF TypeOK
<1>2. ASSUME NEW j \in Jobs, Webhook(j) \/ QueueVerified(j) \/ Import(j)
      PROVE  InsertStep
  BY <1>2 DEF Webhook, QueueVerified, Import, InsertStep, FirstJob
<1>3. ASSUME NEW h \in Handlers, NEW j \in Jobs, Enqueue(h, j)
      PROVE  InsertStep
  BY <1>3 DEF Enqueue, InsertStep, FurtherJob
<1>4. ASSUME NEW h \in Handlers, NEW i \in Items, ImportAgain(h, i) \/ Reprocess(h, i)
      PROVE  PlainStep
  <2>1. CASE ImportAgain(h, i)
    <3> DEFINE r == [NoRequest EXCEPT !.item = i]
    <3>1. r \in RequestState /\ r.item = i
      BY <1>1 DEF RequestState
    <3>2. ledger[i] /\ ~Blocked(i) /\ \A j \in JobsOf(i) : ~Exists(j)
      BY <2>1 DEF ImportAgain, Blocked
    <3>3. request' = [request EXCEPT ![h] = Checked(r)] /\ UNCHANGED <<rows, lock, worker, posts>>
      BY <1>1, <2>1 DEF ImportAgain
    <3> HIDE DEF r
    <3> QED
      BY <3>1, <3>2, <3>3, LooksAsk, RequestRemembered
  <2>2. CASE Reprocess(h, i)
    <3> DEFINE r == [NoRequest EXCEPT !.item = i, !.source = "manual_reprocess"]
    <3>1. r \in RequestState /\ r.item = i /\ r.source # "recording"
      BY <1>1 DEF RequestState, Sources
    <3>2. ledger[i] /\ ~Blocked(i)
      BY <2>2 DEF Reprocess
    <3>3. request' = [request EXCEPT ![h] = Checked(r)] /\ UNCHANGED <<rows, lock, worker, posts>>
      BY <1>1, <2>2 DEF Reprocess
    <3> HIDE DEF r
    <3> QED
      BY <3>1, <3>2, <3>3, LooksAsk, RequestRemembered
  <2> QED
    BY <1>4, <2>1, <2>2
<1>5. ASSUME NEW j \in Jobs, Cancel(j)
      PROVE  PlainStep
  <2>1. job[j] \in JobRow
    BY DEF TypeOK
  <2>2. Calm /\ Remembers /\ posts' = posts
    BY <1>5, StaysCalmly, NothingForgotten DEF Cancel
  <2>3. CASE job[j].status = "pending"
    <3> DEFINE row == CancelledRow([job[j] EXCEPT !.cancel = TRUE])
    <3>1. job' = [job EXCEPT ![j] = row]
      BY <1>5, <2>3 DEF Cancel, TypeOK
    <3>2. Moves(job[j], row) /\ row.status = "cancelled"
      BY <2>1, <2>3, UpdatesMove DEF CancelledRow, JobRow
    <3> HIDE DEF row
    <3> QED
      BY <2>2, <3>1, <3>2, OneRowMoves DEF PlainStep
  <2>4. CASE job[j].status = "processing"
    <3>1. job' = [job EXCEPT ![j] = [job[j] EXCEPT !.cancel = TRUE]]
      BY <1>5, <2>4 DEF Cancel, TypeOK
    <3>2. [job[j] EXCEPT !.cancel = TRUE].status = job[j].status
      BY <2>1 DEF JobRow
    <3>3. RowMoves
      BY <2>1, <3>1, <3>2, UpdatesMove, OneRowMoves
    <3> QED
      BY <2>2, <3>3 DEF PlainStep
  <2> QED
    BY <1>5, <2>3, <2>4 DEF Cancel
<1>6. ASSUME NEW i \in Items, Reconcile(i) \/ AttachMeeting(i)
      PROVE  PlainStep
  <2>1. Remembers
    BY <1>6 DEF Reconcile, AttachMeeting, Remembers, TypeOK
  <2> QED
    BY <1>6, <2>1, StaysCalmly DEF Reconcile, AttachMeeting, PlainStep, RowMoves
<1>7. ASSUME NEW h \in Handlers, NEW j \in Jobs, RetryRead(h, j)
      PROVE  PlainStep
  <2> DEFINE r == [NoRequest EXCEPT !.step = "read", !.item = ItemOf[j], !.old = j,
                                    !.source = RetrySource(j), !.saw = meeting[ItemOf[j]]]
  <2>1. /\ ItemOf[j] \in Items
        /\ job[j].status # "absent"
        /\ request' = [request EXCEPT ![h] = r] /\ UNCHANGED <<rows, lock, worker, posts>>
    BY <1>1, <1>7, ItemOfAssumption DEF RetryRead, MayRetry, RetryableStatuses
  <2>2. r.step = "read" /\ r.item = ItemOf[j] /\ r.source = RetrySource(j)
    BY <1>1 DEF RequestState
  <2>3. r.source # "recording"
    BY <2>2 DEF RetrySource
  <2> HIDE DEF r
  <2>4. Asks(r) /\ Sees(r)
    BY <2>1, <2>2, <2>3 DEF Asks, Sees, Known
  <2> QED
    BY <2>1, <2>4, RequestRemembered
<1>8. ASSUME NEW h \in Handlers, RetryCheck(h)
      PROVE  PlainStep
  <2>1. /\ request[h] \in RequestState /\ request[h].step = "read" /\ ~Blocked(request[h].item)
        /\ request' = [request EXCEPT ![h] = Checked(request[h])]
        /\ UNCHANGED <<rows, lock, worker, posts>>
    BY <1>1, <1>8 DEF RetryCheck
  <2>2. /\ request[h].item \in Items /\ ledger[request[h].item]
        /\ request[h].source # "recording"
    BY <2>1 DEF Asked, Asks
  <2>3. Asks(Checked(request[h])) /\ Sees(Checked(request[h]))
    BY <2>1, <2>2, LooksAsk
  <2> QED
    BY <2>1, <2>3, RequestRemembered
<1>9. ASSUME NEW h \in Handlers, RequestRefused(h)
      PROVE  PlainStep
  <2>1. Asks(NoRequest) /\ Sees(NoRequest)
    BY DEF Asks, Sees, NoRequest
  <2> QED
    BY <1>9, <2>1, RequestRemembered DEF RequestRefused
<1>10. ASSUME NEW admin \in Admins, NEW j \in Jobs, Cleanup(admin, j)
       PROVE  PlainStep
  <2> DEFINE row == [job[j] EXCEPT !.status = "deleted"]
  <2>1. job[j] \in JobRow
    BY DEF TypeOK
  <2>2. job' = [job EXCEPT ![j] = row] /\ job[j].status \in RetryableStatuses
    BY <1>10 DEF Cleanup, TypeOK
  <2>3. Moves(job[j], row) /\ row.status = "deleted"
    BY <2>1, <2>2 DEF Moves, JobRow, Statuses
  <2> HIDE DEF row
  <2>4. RowMoves
    BY <2>2, <2>3, OneRowMoves
  <2> QED
    BY <1>10, <2>4, StaysCalmly, NothingForgotten DEF Cleanup, PlainStep
<1> QED
  BY <1>2, <1>3, <1>4, <1>5, <1>6, <1>7, <1>8, <1>9, <1>10 DEF ApiStep

\* Every step is plain, adds a job, withdraws an owner's jobs, or deals with the provider.
LEMMA NextKinds ==
  ASSUME TypeOK, Known, Asked, [Next]_vars
  PROVE  \/ PlainStep \/ InsertStep
         \/ \E o \in Owners : Unsubscribe(o)
         \/ \E w \in Workers : HearStep(w) \/ Reserve(w) \/ Post(w)
<1>1. CASE WorkerStep
  BY <1>1, WorkKinds, DisturbKinds, QueueKinds, ExpireKind DEF WorkerStep
<1>2. CASE ReviewStep
  BY <1>2, StaysCalmly, NothingForgotten
     DEF ReviewStep, EditDraft, SaveDecisions, Approve, PlainStep, RowMoves
<1>3. CASE UNCHANGED vars
  BY <1>3, StaysCalmly, NothingForgotten DEF vars, PlainStep, RowMoves
<1> QED
  BY <1>1, <1>2, <1>3, ApiKinds DEF Next

-----------------------------------------------------------------------------
(* Each kind of step keeps the invariant.                                  *)

\* A row that moves stays accounted for.
LEMMA MovesAccount ==
  ASSUME NEW r \in JobRow, NEW s, NEW sent, Moves(r, s), Accounted(r, sent)
  PROVE  Accounted(s, sent)
BY DEF Moves, Accounted, RetryableStatuses

\* Where rows only move, what is open was open.
LEMMA MovesOpen ==
  ASSUME NEW k \in Jobs, job[k] \in JobRow, Moves(job[k], job'[k]), Open(k)'
  PROVE  Open(k)
<1>1. job'[k].provider \in UnresolvedProviders => job[k].provider \in UnresolvedProviders
  BY DEF Moves, UnresolvedProviders
<1>2. Exists(k)' => \/ job[k].status = job'[k].status
                     \/ job[k].status \in {"pending", "processing"}
  BY DEF Moves, Exists, RetryableStatuses
<1> QED
  BY <1>1, <1>2 DEF Open, Exists, Active, ActiveStatuses

\* The rows after a plain step, each on its own.
LEMMA PlainRows ==
  ASSUME TypeOK, RowMoves, NEW k \in Jobs
  PROVE  Moves(job[k], job'[k])
<1>1. \A j \in Jobs : Moves(job[j], job[j])
  BY DEF TypeOK, Moves
<1> QED
  BY <1>1 DEF RowMoves, TypeOK

\* A job, once closed, stays closed.
LEMMA NoneReopens ==
  ASSUME TypeOK, Known, Asked, [Next]_vars, NEW k \in Jobs, job[k].status # "absent", Open(k)'
  PROVE  Open(k)
<1>1. job[k] \in JobRow
  BY DEF TypeOK
<1>2. CASE PlainStep
  BY <1>1, <1>2, PlainRows, MovesOpen DEF PlainStep
<1>3. CASE job'[k] = job[k]
  BY <1>3 DEF Open, Exists, Active
<1>4. CASE job[k].status \in ActiveStatuses
  BY <1>4 DEF Open, Exists, Active, ActiveStatuses
<1>5. CASE InsertStep
  <2>1. PICK n \in Jobs : \E row : Insert(n, row)
    BY <1>5 DEF InsertStep, FirstJob, FurtherJob, EnqueueRecording, EnqueueRetry
  <2> QED
    BY <1>3, <2>1 DEF Insert, TypeOK
<1>6. ASSUME NEW o \in Owners, Unsubscribe(o)
      PROVE  Open(k)
  BY <1>3, <1>4, <1>6 DEF Unsubscribe, Withdrawn, ActiveStatuses
<1>7. ASSUME NEW w \in Workers, HearStep(w) \/ Reserve(w) \/ Post(w)
      PROVE  Open(k)
  <2>1. CASE Post(w)
    BY <1>3, <2>1 DEF Post, rows
  <2>2. CASE HearStep(w) \/ Reserve(w)
    <3>1. ~At(w, "idle") /\ Owned(w) /\ \E row : SetRow(w, row)
      BY <2>2, CalmStages DEF HearStep, Reserve, ReserveRow, At, Checkpoint, MayReserve,
         MayCheckpoint, Fenced
    <3>2. worker[w].job = k => job[k].status \in ActiveStatuses
      BY <3>1 DEF Owned, Row, ActiveStatuses
    <3>3. worker[w].job # k => job'[k] = job[k]
      BY <1>1, <3>1 DEF SetRow, TypeOK
    <3> QED
      BY <1>3, <1>4, <3>2, <3>3
  <2> QED
    BY <1>7, <2>1, <2>2
<1> QED
  BY <1>1, <1>2, <1>5, <1>6, <1>7, NextKinds

\* A row that moves neither appears nor vanishes.
LEMMA MovesStayPresent ==
  ASSUME NEW r, NEW s, Moves(r, s)
  PROVE  r.status = "absent" <=> s.status = "absent"
BY DEF Moves, RetryableStatuses

\* Only an insert makes a job appear.
LEMMA JobsAppear ==
  ASSUME TypeOK, Known, Asked, [Next]_vars,
         NEW k \in Jobs, job[k].status = "absent", job'[k].status # "absent"
  PROVE  InsertStep
<1>1. ASSUME PlainStep PROVE FALSE
  <2>1. Moves(job[k], job'[k])
    BY <1>1, PlainRows DEF PlainStep
  <2> QED
    BY <2>1, MovesStayPresent
<1>2. ASSUME NEW o \in Owners, Unsubscribe(o)
      PROVE  FALSE
  BY <1>2 DEF Unsubscribe, Withdrawn
<1>3. ASSUME NEW w \in Workers, HearStep(w) \/ Reserve(w) \/ Post(w)
      PROVE  FALSE
  <2>1. CASE Post(w)
    BY <2>1 DEF Post, rows
  <2>2. CASE HearStep(w) \/ Reserve(w)
    <3>1. Owned(w) /\ \E row : SetRow(w, row)
      BY <2>2 DEF HearStep, Reserve, ReserveRow, Checkpoint, MayReserve, MayCheckpoint, Fenced
    <3>2. worker[w].job # k
      BY <3>1 DEF Owned, Row
    <3> QED
      BY <3>1, <3>2 DEF SetRow, TypeOK
  <2> QED
    BY <1>3, <2>1, <2>2
<1> QED
  BY <1>1, <1>2, <1>3, NextKinds

\* A job that appears is known to the ledger, and of the other jobs of its recording those
\* it did not overlap are closed, or gone if it comes from an import.
LEMMA InsertFindsClosed ==
  ASSUME TypeOK, Known, Asked, InsertStep,
         NEW k \in Jobs, job[k].status = "absent", job'[k].status # "absent"
  PROVE  /\ ledger'[ItemOf[k]]
         /\ \A j \in Jobs : /\ ItemOf[j] = ItemOf[k] /\ job[j].status # "absent"
                            /\ j \notin job'[k].unseen
                            => ~Open(j) /\ (job'[k].source = "recording" => ~Exists(j))
<1>1. ItemOf[k] \in Items
  BY ItemOfAssumption
<1>2. CASE FirstJob
  <2>1. PICK n \in Jobs, admitted \in BOOLEAN : EnqueueRecording(n, admitted)
    BY <1>2 DEF FirstJob
  <2>2. n = k
    BY <2>1 DEF EnqueueRecording, Insert, TypeOK
  <2>3. ~ledger[ItemOf[k]] /\ ledger'[ItemOf[k]]
    BY <1>1, <2>1, <2>2 DEF EnqueueRecording, TypeOK
  <2> QED
    BY <2>3 DEF Known
<1>3. ASSUME NEW h \in Handlers, FurtherJob(h)
      PROVE  /\ ledger'[ItemOf[k]]
             /\ \A j \in Jobs : /\ ItemOf[j] = ItemOf[k] /\ job[j].status # "absent"
                                /\ j \notin job'[k].unseen
                                => ~Open(j) /\ (job'[k].source = "recording" => ~Exists(j))
  <2>1. PICK n \in Jobs : /\ request[h].step = "checked" /\ request[h].item = ItemOf[n]
                          /\ EnqueueRetry(n, request[h].source, request[h].known)
    BY <1>3 DEF FurtherJob
  <2>2. n = k
    BY <2>1 DEF EnqueueRetry, Insert, TypeOK
  <2>3. /\ job'[k].source = request[h].source
        /\ job'[k].unseen = Inserted(ItemOf[k]) \ request[h].known
    BY <2>1, <2>2 DEF EnqueueRetry, Insert, NewRow, TypeOK
  <2>4. /\ ledger[ItemOf[k]]
        /\ \A j \in request[h].known : ~Open(j) /\ (request[h].source = "recording" => ~Exists(j))
    BY <2>1, <2>2 DEF Asked, Asks
  <2>5. ledger' = ledger
    BY <1>3 DEF FurtherJob
  <2> QED
    BY <2>3, <2>4, <2>5 DEF Inserted, JobsOf
<1> QED
  BY <1>2, <1>3 DEF InsertStep

\* Every step remembers the ledger and what requests have seen.
LEMMA StepsRemember ==
  ASSUME TypeOK, Known, Asked, [Next]_vars
  PROVE  Remembers
<1>1. CASE FirstJob
  BY <1>1 DEF FirstJob, EnqueueRecording, Remembers, TypeOK
<1>2. ASSUME NEW h \in Handlers, FurtherJob(h)
      PROVE  Remembers
  BY <1>2 DEF FurtherJob, Remembers, Asks, Sees, NoRequest, TypeOK
<1>3. ASSUME NEW w \in Workers, Reserve(w) \/ Post(w)
      PROVE  Remembers
  BY <1>3, NothingForgotten DEF Reserve, Post, rows
<1>4. ASSUME NEW o \in Owners, Unsubscribe(o)
      PROVE  Remembers
  BY <1>4, NothingForgotten DEF Unsubscribe
<1> QED
  BY <1>1, <1>2, <1>3, <1>4, NextKinds DEF PlainStep, HearStep, InsertStep

\* Rows that are there keep their source and what they missed, stay there, and do not come
\* back once removed.
LEMMA RowsStay ==
  ASSUME TypeOK, [Next]_vars, NEW k \in Jobs, job[k].status # "absent"
  PROVE  /\ job'[k].status # "absent"
         /\ job'[k].source = job[k].source /\ job'[k].unseen = job[k].unseen
         /\ Exists(k)' => Exists(k)
BY NextRows DEF RowsStep, RowStep, Exists, RetryableStatuses

\* The ledger and the requests go on knowing the jobs they know.
LEMMA KnownStep ==
  ASSUME TypeOK, TypeOK', Known, Asked, [Next]_vars
  PROVE  Known' /\ Asked'
<1>1. Remembers
  BY StepsRemember
<1>2. ASSUME NEW k \in Jobs, job'[k].status # "absent"
      PROVE  ledger'[ItemOf[k]]
  <2>1. CASE job[k].status = "absent"
    BY <1>2, <2>1, JobsAppear, InsertFindsClosed
  <2>2. CASE job[k].status # "absent"
    BY <1>1, <2>2, ItemOfAssumption DEF Known, Remembers
  <2> QED
    BY <2>1, <2>2
<1>3. ASSUME NEW h \in Handlers
      PROVE  Asks(request[h])'
  <2>1. request'[h] \in RequestState
    BY DEF TypeOK
  <2>2. /\ request'[h].step # "idle" => request'[h].item \in Items /\ ledger[request'[h].item]
        /\ request'[h].step = "read" => request'[h].source # "recording"
        /\ request'[h].step = "checked" => \A k \in request'[h].known :
             /\ job[k].status # "absent" /\ ~Open(k)
             /\ request'[h].source = "recording" => ~Exists(k)
    BY <1>1 DEF Remembers, Asked, Asks
  <2>3. \A k \in request'[h].known : k \in Jobs
    BY <2>1 DEF RequestState
  <2>4. \A k \in Jobs : job[k].status # "absent" /\ ~Open(k) =>
          job'[k].status # "absent" /\ ~Open(k)' /\ (~Exists(k) => ~Exists(k)')
    BY RowsStay, NoneReopens
  <2>5. request'[h].step # "idle" => request'[h].item \in Items /\ ledger'[request'[h].item]
    BY <1>1, <2>2 DEF Remembers
  <2> QED
    BY <2>2, <2>3, <2>4, <2>5 DEF Asks
<1> QED
  BY <1>2, <1>3 DEF Known, Asked

\* Two open jobs of a recording overlapped: the later of them missed the other.
LEMMA OneOpenJobStep ==
  ASSUME TypeOK, TypeOK', Known, Asked, OneOpenJob, [Next]_vars
  PROVE  OneOpenJob'
<1> SUFFICES ASSUME NEW j \in Jobs, NEW k \in Jobs, j # k, ItemOf[j] = ItemOf[k],
                    Open(j)', Open(k)'
             PROVE  j \in job'[k].unseen \/ k \in job'[j].unseen
  BY DEF OneOpenJob, Overlapped
<1>1. RowsAppearAlone
  BY NextRows
<1>2. ASSUME NEW x \in Jobs, NEW y \in Jobs, x # y, ItemOf[x] = ItemOf[y],
             job[x].status = "absent", Open(x)', Open(y)'
      PROVE  y \in job'[x].unseen
  <2>1. job'[x].status # "absent" /\ job'[y].status # "absent"
    BY <1>2 DEF Open, Exists
  <2>2. job'[y] = job[y]
    BY <1>1, <1>2, <2>1 DEF RowsAppearAlone
  <2>3. Open(y) /\ job[y].status # "absent"
    BY <1>2, <2>1, <2>2 DEF Open, Exists, Active
  <2> QED
    BY <1>2, <2>1, <2>3, JobsAppear, InsertFindsClosed
<1>3. CASE job[j].status = "absent" \/ job[k].status = "absent"
  BY <1>2, <1>3
<1>4. CASE job[j].status # "absent" /\ job[k].status # "absent"
  <2>1. Open(j) /\ Open(k)
    BY <1>4, NoneReopens
  <2>2. job'[j].unseen = job[j].unseen /\ job'[k].unseen = job[k].unseen
    BY <1>4, RowsStay
  <2> QED
    BY <2>1, <2>2 DEF OneOpenJob, Overlapped
<1> QED
  BY <1>3, <1>4

\* A plain step completes a job only by its holder, away from the provider.
LEMMA PlainCompletes ==
  ASSUME TypeOK, RowMoves, NEW k \in Jobs, job'[k].status = "completed"
  PROVE  job[k].status = "completed" \/ EndedBy(k)
BY DEF RowMoves, TypeOK

\* A plain step keeps the invariant.
LEMMA PlainSpends ==
  ASSUME TypeOK, TypeOK', SoleHolder, Spending, PlainStep
  PROVE  Accounts' /\ Reserved'
<1>1. \A k \in Jobs : job[k] \in JobRow /\ Moves(job[k], job'[k])
  BY PlainRows DEF TypeOK, PlainStep
<1>4. Accounts'
  BY <1>1, MovesAccount DEF Spending, Accounts, PlainStep
<1>5. Reserved'
  <2> SUFFICES ASSUME NEW w \in Workers, worker'[w].pc \in ProviderStages
               PROVE  /\ job'[worker'[w].job].submissions = 1
                      /\ job'[worker'[w].job].admitted
                      /\ job'[worker'[w].job].status # "completed"
                      /\ worker'[w].pc = "reserved" =>
                           /\ posts'[worker'[w].job] = 0
                           /\ job'[worker'[w].job].provider
                                 \in {"submitting", "submission_unknown"}
    BY DEF Reserved, At, Row
  <2> DEFINE k == worker[w].job
  <2>1. /\ worker[w].pc \in ProviderStages /\ worker'[w].job = k
        /\ worker'[w].pc = "reserved" => At(w, "reserved")
    BY DEF PlainStep, Calm
  <2>2. ~At(w, "idle") /\ k \in Jobs
    BY <2>1, BusyWorker, CalmStages DEF At
  <2>3. /\ job[k].submissions = 1 /\ job[k].admitted /\ job[k].status # "completed"
        /\ At(w, "reserved") => /\ posts[k] = 0
                               /\ job[k].provider \in {"submitting", "submission_unknown"}
    BY <2>1 DEF Spending, Reserved, Row
  <2>4. Moves(job[k], job'[k])
    BY <1>1, <2>2
  <2>5. job'[k].status # "completed"
    <3>1. ~EndedBy(k)
      BY <2>1, <2>2 DEF EndedBy, SoleHolder
    <3> QED
      BY <2>2, <2>3, <3>1, PlainCompletes DEF PlainStep
  <2> HIDE DEF k
  <2> QED
    BY <2>1, <2>3, <2>4, <2>5 DEF Moves, PlainStep
<1> QED
  BY <1>4, <1>5

\* A worker at the provider when nobody moves and its own row keeps its history.
LEMMA ReservedStays ==
  ASSUME TypeOK, Reserved, worker' = worker, posts' = posts,
         \A w \in Workers : worker[w].pc \in ProviderStages =>
           /\ job'[worker[w].job].submissions = 1 /\ job'[worker[w].job].admitted
           /\ job'[worker[w].job].status # "completed"
           /\ job'[worker[w].job].provider = job[worker[w].job].provider
  PROVE  Reserved'
BY DEF Reserved, At, Row

\* A new row is not yet paid for.
LEMMA InsertSpends ==
  ASSUME TypeOK, TypeOK', Holding, Spending, InsertStep
  PROVE  Accounts' /\ Reserved'
<1>0. PICK k \in Jobs : \E source, admitted, unseen : Insert(k, NewRow(source, admitted, unseen))
  BY DEF InsertStep, FirstJob, FurtherJob, EnqueueRecording, EnqueueRetry
<1>1. PICK source, admitted, unseen : Insert(k, NewRow(source, admitted, unseen))
  BY <1>0
<1>2. /\ job[k].status = "absent" /\ job'[k] = NewRow(source, admitted, unseen)
      /\ \A x \in Jobs : x # k => job'[x] = job[x]
  BY <1>1 DEF Insert, TypeOK
<1>3. /\ job'[k].status = "pending" /\ job'[k].submissions = 0 /\ job'[k].provider = "none"
  BY <1>2 DEF NewRow
<1>6. Accounts'
  <2>1. posts'[k] = 0
    BY <1>2 DEF Spending, Accounts, Accounted, InsertStep
  <2> QED
    BY <1>2, <1>3, <2>1 DEF Spending, Accounts, Accounted, InsertStep
<1>7. Reserved'
  <2>1. ASSUME NEW w \in Workers, worker[w].pc \in ProviderStages
        PROVE  job'[worker[w].job] = job[worker[w].job]
    <3>1. ~At(w, "idle")
      BY <2>1, CalmStages DEF At
    <3> QED
      BY <1>2, <3>1, BusyWorker DEF Holding, Row
  <2> QED
    BY <2>1, ReservedStays DEF InsertStep, Spending, Reserved, Row
<1> QED
  BY <1>6, <1>7

\* Withdrawn jobs were pending, hence in nobody's hands and not paid for.
LEMMA WithdrawSpends ==
  ASSUME TypeOK, TypeOK', Holding, Spending, NEW o \in Owners, Unsubscribe(o)
  PROVE  Accounts' /\ Reserved'
<1>1. ASSUME NEW k \in Jobs
      PROVE  Moves(job[k], job'[k]) /\ (job'[k].status = "completed" => job'[k] = job[k])
  <2>1. job[k] \in JobRow
    BY DEF TypeOK
  <2>2. CASE Withdrawn(o, k)
    <3>1. job'[k] = CancelledRow([job[k] EXCEPT !.cancel = TRUE])
      BY <2>2 DEF Unsubscribe
    <3>2. Moves(job[k], job'[k])
      BY <2>1, <2>2, <3>1, UpdatesMove DEF Withdrawn
    <3>3. job'[k].status = "cancelled"
      BY <2>1, <3>1 DEF CancelledRow, JobRow
    <3> QED
      BY <3>2, <3>3
  <2>3. CASE ~Withdrawn(o, k)
    BY <2>1, <2>3 DEF Unsubscribe, Moves
  <2> QED
    BY <2>2, <2>3
<1>2. \A k \in Jobs : job[k] \in JobRow
  BY DEF TypeOK
<1>5. Accounts'
  BY <1>1, <1>2, MovesAccount DEF Spending, Accounts, Unsubscribe
<1>6. Reserved'
  <2>1. ASSUME NEW w \in Workers, worker[w].pc \in ProviderStages
        PROVE  job'[worker[w].job] = job[worker[w].job]
    <3>1. ~At(w, "idle")
      BY <2>1, CalmStages DEF At
    <3>2. worker[w].job \in Jobs /\ job[worker[w].job].status # "pending"
      BY <3>1, BusyWorker DEF Holding, Row
    <3> QED
      BY <3>2 DEF Unsubscribe, Withdrawn
  <2>2. worker' = worker /\ posts' = posts
    BY DEF Unsubscribe
  <2>3. Reserved
    BY DEF Spending
  <2> QED
    BY <2>1, <2>2, <2>3, ReservedStays DEF Reserved, Row
<1> QED
  BY <1>5, <1>6

\* The holder of a running job writes what it reserves or learns.
LEMMA HolderWrites ==
  ASSUME TypeOK, NEW w \in Workers, ~At(w, "idle"), NEW row, SetRow(w, row)
  PROVE  /\ worker[w].job \in Jobs /\ job'[worker[w].job] = row
         /\ \A k \in Jobs : k # worker[w].job => job'[k] = job[k]
BY BusyWorker DEF SetRow, TypeOK

\* So does hearing from the service.
LEMMA HearSpends ==
  ASSUME TypeOK, TypeOK', SoleHolder, Spending, NEW w \in Workers, HearStep(w)
  PROVE  Accounts' /\ Reserved'
<1>1. PICK status \in Providers \ {"none", "submitting"} : Checkpoint(w, status)
  BY DEF HearStep
<1> DEFINE k == worker[w].job
           row == [Row(w) EXCEPT !.provider = status]
<1>2. ~At(w, "idle") /\ Owned(w) /\ SetRow(w, row)
  BY <1>1, CalmStages DEF HearStep, At, Checkpoint, MayCheckpoint, Fenced
<1>3. Row(w) \in JobRow /\ Row(w).status = "processing" /\ Row(w) = job[k]
  BY <1>2, BusyWorker DEF Owned, Row
<1>4. /\ row \in JobRow /\ row.status = "processing" /\ row.provider = status
      /\ row.submissions = job[k].submissions /\ row.admitted = job[k].admitted
  BY <1>3 DEF JobRow
<1> HIDE DEF row
<1>5. k \in Jobs /\ job'[k] = row /\ \A x \in Jobs : x # k => job'[x] = job[x]
  BY <1>2, HolderWrites
<1>7. job[k].submissions = 1 /\ job[k].admitted
  BY DEF HearStep, Spending, Reserved, Row
<1>8. Accounts'
  <2>1. Accounted(job'[k], posts'[k])
    BY <1>3, <1>4, <1>5, <1>7 DEF Spending, Accounts, Accounted, HearStep
  <2> QED
    BY <1>5, <2>1 DEF Spending, Accounts, HearStep
<1>9. Reserved'
  <2> SUFFICES ASSUME NEW v \in Workers, worker'[v].pc \in ProviderStages
               PROVE  /\ job'[worker'[v].job].submissions = 1
                      /\ job'[worker'[v].job].admitted
                      /\ job'[worker'[v].job].status # "completed"
                      /\ worker'[v].pc = "reserved" =>
                           /\ posts'[worker'[v].job] = 0
                           /\ job'[worker'[v].job].provider
                                 \in {"submitting", "submission_unknown"}
    BY DEF Reserved, At, Row
  <2>1. /\ worker[v].pc \in ProviderStages /\ worker'[v].job = worker[v].job
        /\ worker'[v].pc = "reserved" => At(v, "reserved")
    BY DEF HearStep, Calm
  <2>2. ~At(v, "idle") /\ worker[v].job \in Jobs
    BY <2>1, BusyWorker, CalmStages DEF At
  <2>3. CASE v = w
    BY <1>3, <1>4, <1>5, <1>7, <2>1, <2>3 DEF HearStep, At
  <2>4. CASE v # w
    <3>1. worker[v].job # k
      BY <1>2, <2>2, <2>4 DEF SoleHolder
    <3> QED
      BY <1>5, <2>1, <2>2, <3>1 DEF Spending, Reserved, Row, HearStep
  <2> QED
    BY <2>3, <2>4
<1> QED
  BY <1>8, <1>9

\* So does the reservation.
LEMMA ReserveSpends ==
  ASSUME TypeOK, TypeOK', SoleHolder, Spending, NEW w \in Workers, Reserve(w)
  PROVE  Accounts' /\ Reserved'
<1> DEFINE k == worker[w].job
           row == [Row(w) EXCEPT !.submissions = 1, !.provider = "submitting"]
<1>1. /\ ~At(w, "idle") /\ Owned(w) /\ SetRow(w, row) /\ Row(w).admitted
      /\ Row(w).submissions = 0 /\ ledger' = ledger /\ request' = request /\ posts' = posts
      /\ Goto(w, "reserved") \/ Fails(w)
  BY DEF Reserve, At, MayReserve, MayCheckpoint, Fenced, ReserveRow
<1>2. Row(w) \in JobRow /\ Row(w).status = "processing" /\ Row(w) = job[k]
  BY <1>1, BusyWorker DEF Owned, Row
<1>3. /\ row \in JobRow /\ row.status = "processing" /\ row.provider = "submitting"
      /\ row.submissions = 1 /\ row.admitted
  <2>1. "submitting" \in Providers
    BY DEF Providers
  <2> QED
    BY <1>1, <1>2, <2>1 DEF JobRow
<1> HIDE DEF row
<1>4. k \in Jobs /\ job'[k] = row /\ \A x \in Jobs : x # k => job'[x] = job[x]
  BY <1>1, HolderWrites
<1>6. posts[k] = 0
  BY <1>1, <1>2, <1>4 DEF Spending, Accounts, Accounted
<1>7. Accounts'
  <2>1. Accounted(job'[k], posts'[k])
    BY <1>1, <1>3, <1>4, <1>6 DEF Accounted
  <2> QED
    BY <1>1, <1>4, <2>1 DEF Spending, Accounts
<1>8. Reserved'
  <2> SUFFICES ASSUME NEW v \in Workers, worker'[v].pc \in ProviderStages
               PROVE  /\ job'[worker'[v].job].submissions = 1
                      /\ job'[worker'[v].job].admitted
                      /\ job'[worker'[v].job].status # "completed"
                      /\ worker'[v].pc = "reserved" =>
                           /\ posts'[worker'[v].job] = 0
                           /\ job'[worker'[v].job].provider
                                 \in {"submitting", "submission_unknown"}
    BY DEF Reserved, At, Row
  <2>1. worker'[v].job = worker[v].job /\ (v # w => worker'[v] = worker[v])
    BY <1>1 DEF Goto, Fails, TypeOK, WorkerState
  <2>2. CASE v = w
    BY <1>1, <1>3, <1>4, <1>6, <2>1, <2>2
  <2>3. CASE v # w
    <3>1. ~At(v, "idle") /\ worker[v].job \in Jobs /\ worker[v].pc \in ProviderStages
      BY <2>1, <2>3, BusyWorker, CalmStages DEF At
    <3>2. worker[v].job # k
      BY <1>1, <2>3, <3>1 DEF SoleHolder
    <3> QED
      BY <1>1, <1>4, <2>1, <2>3, <3>1, <3>2 DEF Spending, Reserved, Row, At
  <2> QED
    BY <2>2, <2>3
<1> QED
  BY <1>7, <1>8

\* The request: it leaves once, from the stage at which nothing had left.
LEMMA PostSpends ==
  ASSUME TypeOK, TypeOK', SoleHolder, Spending, NEW w \in Workers, Post(w)
  PROVE  Accounts' /\ Reserved'
<1> DEFINE k == worker[w].job
<1>1. /\ At(w, "reserved") /\ job' = job /\ ledger' = ledger /\ request' = request
      /\ Goto(w, "accepted") \/ Goto(w, "unsure")
      /\ posts' = [posts EXCEPT ![k] = @ + 1] \/ posts' = posts
  BY DEF Post, rows
<1>2. ~At(w, "idle") /\ worker[w].pc \in ProviderStages
  BY <1>1 DEF At, ProviderStages
<1>3. k \in Jobs /\ posts[k] = 0 /\ job[k].submissions = 1
  BY <1>1, <1>2, BusyWorker DEF Spending, Reserved, Row
<1>4. posts'[k] \in {0, 1} /\ \A x \in Jobs : x # k => posts'[x] = posts[x]
  BY <1>1, <1>3 DEF TypeOK
<1>6. Accounts'
  <2>1. Accounted(job'[k], posts'[k])
    BY <1>1, <1>3, <1>4 DEF Spending, Accounts, Accounted
  <2> QED
    BY <1>1, <1>4, <2>1 DEF Spending, Accounts
<1>7. Reserved'
  <2> SUFFICES ASSUME NEW v \in Workers, worker'[v].pc \in ProviderStages
               PROVE  /\ job'[worker'[v].job].submissions = 1
                      /\ job'[worker'[v].job].admitted
                      /\ job'[worker'[v].job].status # "completed"
                      /\ worker'[v].pc = "reserved" =>
                           /\ posts'[worker'[v].job] = 0
                           /\ job'[worker'[v].job].provider
                                 \in {"submitting", "submission_unknown"}
    BY DEF Reserved, At, Row
  <2>1. /\ worker'[v].job = worker[v].job
        /\ v # w => worker'[v] = worker[v]
        /\ worker'[w].pc \in {"accepted", "unsure"}
    BY <1>1 DEF Goto, TypeOK, WorkerState
  <2>2. CASE v = w
    BY <1>1, <1>2, <2>1, <2>2 DEF Spending, Reserved, Row
  <2>3. CASE v # w
    <3>1. ~At(v, "idle") /\ worker[v].job \in Jobs /\ worker[v].pc \in ProviderStages
      BY <2>1, <2>3, BusyWorker, CalmStages DEF At
    <3>2. worker[v].job # k
      BY <1>2, <2>3, <3>1 DEF SoleHolder
    <3> QED
      BY <1>1, <1>4, <2>1, <2>3, <3>1, <3>2 DEF Spending, Reserved, Row, At
  <2> QED
    BY <2>2, <2>3
<1> QED
  BY <1>6, <1>7

\* The invariant holds at first, when no job exists.
LEMMA SpendingInit == Init => Spending
<1> SUFFICES ASSUME Init PROVE Spending
  OBVIOUS
<1>1. \A j \in Jobs : /\ job[j].status = "absent" /\ job[j].submissions = 0
                      /\ job[j].provider = "none" /\ posts[j] = 0
  BY DEF Init, AbsentRow, NewRow
<1>2. \A w \in Workers : worker[w].pc \notin ProviderStages
  BY CalmStages DEF Init, IdleWorker
<1>3. Asked
  BY DEF Init, NoRequest, Asked, Asks
<1> QED
  BY <1>1, <1>2, <1>3 DEF Spending, OneOpenJob, Open, Exists, Known, Accounts, Accounted, Reserved

\* Each kind of step keeps it.
LEMMA SpendingStep == PInv /\ [Next]_vars => PInv'
<1> SUFFICES ASSUME PInv, [Next]_vars PROVE PInv'
  OBVIOUS
<1>1. IInv' /\ TypeOK /\ TypeOK' /\ Holding /\ SoleHolder /\ Spending
  BY InvStep DEF PInv, IInv
<1>2. OneOpenJob' /\ Known' /\ Asked'
  BY <1>1, KnownStep, OneOpenJobStep DEF Spending
<1>3. Accounts' /\ Reserved'
  BY <1>1, NextKinds, PlainSpends, InsertSpends, WithdrawSpends, HearSpends, ReserveSpends,
     PostSpends DEF Spending
<1> QED
  BY <1>1, <1>2, <1>3 DEF PInv, Spending

\* Hence always.
LEMMA SpendingHolds == Spec => []PInv
<1>1. Init => PInv
  BY InvInit, SpendingInit DEF PInv
<1> QED
  BY <1>1, SpendingStep, PTL DEF Spec

-----------------------------------------------------------------------------
(* The theorems.                                                           *)

\* A paid request leaves only behind a durable reservation, once for a job, and the row
\* goes on to say so: ReservationPrecedesPost.
THEOREM ReservationComesFirst == Spec => []ReservationPrecedesPost
<1>1. PInv => ReservationPrecedesPost
  BY DEF PInv, Spending, Accounts, Accounted, ReservationPrecedesPost
<1> QED
  BY SpendingHolds, <1>1, PTL

\* Beside a job that may still be paid for, or whose request may still be answered, there
\* is another one of the recording only if one of them was inserted between the query and
\* the insert of the request for the other.
THEOREM OpenJobIsAlone == Spec => []OneOpenJob
<1>1. PInv => OneOpenJob
  BY DEF PInv, Spending
<1> QED
  BY SpendingHolds, <1>1, PTL

\* Where no administrator cleans up, rows stay.
NoneRemoved == \A j \in Jobs : job[j].status # "deleted"

\* Without administrators no row is removed.
LEMMA NoneRemovedStep ==
  ASSUME Admins = {}, PInv, NoneRemoved, [Next]_vars
  PROVE  NoneRemoved'
<1>1. TypeOK /\ Known /\ Asked
  BY DEF PInv, IInv, Spending
<1>2. CASE PlainStep
  <2>1. \A k \in Jobs : Moves(job[k], job'[k])
    BY <1>1, <1>2, PlainRows DEF PlainStep
  <2> QED
    BY <2>1 DEF Moves, NoneRemoved
<1>3. CASE InsertStep
  <2>1. PICK n \in Jobs : \E source, admitted, unseen : Insert(n, NewRow(source, admitted, unseen))
    BY <1>3 DEF InsertStep, FirstJob, FurtherJob, EnqueueRecording, EnqueueRetry
  <2> QED
    BY <1>1, <2>1 DEF Insert, NewRow, NoneRemoved, TypeOK
<1>4. ASSUME NEW o \in Owners, Unsubscribe(o)
      PROVE  NoneRemoved'
  <2>1. ASSUME NEW k \in Jobs
        PROVE  CancelledRow([job[k] EXCEPT !.cancel = TRUE]).status # "deleted"
    <3>1. job[k] \in JobRow
      BY <1>1 DEF TypeOK
    <3> QED
      BY <3>1 DEF CancelledRow, JobRow
  <2> QED
    BY <1>4, <2>1 DEF Unsubscribe, NoneRemoved
<1>5. ASSUME NEW w \in Workers, Post(w)
      PROVE  NoneRemoved'
  BY <1>5 DEF Post, rows, NoneRemoved
<1>6. ASSUME NEW w \in Workers, HearStep(w) \/ Reserve(w)
      PROVE  NoneRemoved'
  <2>1. ~At(w, "idle") /\ Owned(w)
    BY <1>6, CalmStages DEF HearStep, Reserve, At, Checkpoint, MayReserve, MayCheckpoint, Fenced
  <2>2. Row(w) \in JobRow /\ Row(w).status = "processing"
    BY <1>1, <2>1, BusyWorker DEF Owned
  <2>3. /\ \A status : [Row(w) EXCEPT !.provider = status].status = "processing"
        /\ [Row(w) EXCEPT !.submissions = 1, !.provider = "submitting"].status = "processing"
    BY <2>2 DEF JobRow
  <2>4. \E row : SetRow(w, row) /\ row.status = "processing"
    BY <1>6, <2>3 DEF HearStep, Reserve, ReserveRow, Checkpoint
  <2> QED
    BY <1>1, <2>4 DEF SetRow, NoneRemoved, TypeOK
<1> QED
  BY <1>1, <1>2, <1>3, <1>4, <1>5, <1>6, NextKinds

\* Only Post sends, and the job it sends for is open, unless its row is gone.
LEMMA SendingJobs ==
  ASSUME PInv, [Next]_vars, NEW j \in Jobs, posts'[j] > posts[j]
  PROVE  Open(j) \/ job[j].status = "deleted"
<1>1. TypeOK /\ Holding /\ Spending
  BY DEF PInv, IInv
<1>2. \A k \in Jobs : posts[k] \in Nat /\ ~(posts[k] > posts[k])
  BY <1>1 DEF TypeOK
<1>3. PICK w \in Workers : Post(w)
  <2>1. posts' # posts
    BY <1>2
  <2> QED
    BY <1>1, <2>1, NextKinds
       DEF Spending, PlainStep, InsertStep, Unsubscribe, HearStep, Reserve
<1>4. At(w, "reserved") /\ ~At(w, "idle") /\ worker[w].pc \in ProviderStages
  BY <1>3 DEF Post, At, ProviderStages
<1>5. worker[w].job = j
  BY <1>1, <1>2, <1>3 DEF Post, TypeOK
<1>6. job[j].provider \in UnresolvedProviders
  BY <1>1, <1>4, <1>5 DEF Spending, Reserved, Row, UnresolvedProviders
<1>7. job[j].status # "absent"
  BY <1>1, <1>4, <1>5 DEF Holding, Row
<1> QED
  BY <1>6, <1>7 DEF Open, Exists

\* A job that was paid for is closed only by the answer, or goes with its row.
LEMMA PaidJobs ==
  ASSUME PInv, NEW k \in Jobs, posts[k] > 0, ~Open(k)
  PROVE  job[k].provider \in {"completed", "error"} \/ job[k].status = "deleted"
<1>1. /\ job[k].provider \in Providers \ {"none"}
      /\ job[k].status # "absent"
  BY DEF PInv, IInv, TypeOK, JobRow, Spending, Accounts, Accounted
<1>2. CASE job[k].status # "deleted"
  <2>1. job[k].provider \notin UnresolvedProviders
    BY <1>1, <1>2 DEF Open, Exists
  <2> QED
    BY <1>1, <2>1 DEF Providers, UnresolvedProviders
<1> QED
  BY <1>2

\* Whatever workers, retries, imports and lost locks do, the queue pays beside an open
\* request only after cleanup_job deleted a row, or where two requests overlapped:
\* ReplayIsExplained, the exact extent to which UncertainNeverReplayed fails.
THEOREM ReplaysAreExplained == Spec => ReplayIsExplained
<1>1. ASSUME PInv, [Next]_vars, NEW j \in Jobs, NEW k \in Jobs, j # k,
             ItemOf[j] = ItemOf[k], posts'[j] > posts[j], posts[k] > 0,
             Exists(j), Exists(k), ~Overlapped(j, k)
      PROVE  job[k].provider \in {"completed", "error"}
  <2>1. Open(j)
    BY <1>1, SendingJobs DEF Exists
  <2>2. ~Open(k)
    BY <1>1, <2>1 DEF PInv, Spending, OneOpenJob
  <2> QED
    BY <1>1, <2>2, PaidJobs DEF Exists
<1>2. PInv /\ [Next]_vars =>
        [\A j, k \in Jobs :
           /\ j # k /\ ItemOf[j] = ItemOf[k] /\ posts'[j] > posts[j] /\ posts[k] > 0
           /\ Exists(j) /\ Exists(k) /\ ~Overlapped(j, k)
           => job[k].provider \in {"completed", "error"}]_vars
  BY <1>1
<1> QED
  BY SpendingHolds, <1>2, PTL DEF Spec, ReplayIsExplained

-----------------------------------------------------------------------------
(* Requests one at a time.                                                 *)

\* With one request at a time no job was missed, nor is one being missed.
NoneMissed ==
  /\ \A j \in Jobs : job[j].status # "absent" => job[j].unseen = {}
  /\ \A h \in Handlers : Sees(request[h])

\* The jobs of a recording stay the same, unless one is inserted for it.
LEMMA InsertedStays ==
  ASSUME TypeOK, [Next]_vars, Known, Asked, NEW i \in Items,
         InsertStep => FirstJob /\ ledger[i]
  PROVE  {k \in JobsOf(i) : job'[k].status # "absent"} = Inserted(i)
<1>1. \A k \in Jobs : job[k].status # "absent" => job'[k].status # "absent"
  BY RowsStay
<1>2. ASSUME NEW k \in Jobs, ItemOf[k] = i, job[k].status = "absent", job'[k].status # "absent"
      PROVE  FALSE
  <2>1. InsertStep
    BY <1>2, JobsAppear
  <2>2. PICK n \in Jobs, admitted \in BOOLEAN : EnqueueRecording(n, admitted)
    BY <2>1 DEF FirstJob
  <2>3. n = k
    BY <1>2, <2>2 DEF EnqueueRecording, Insert, TypeOK
  <2> QED
    BY <1>2, <2>1, <2>2, <2>3 DEF EnqueueRecording
<1>3. \A k \in Jobs : ItemOf[k] = i => (job'[k].status # "absent" <=> job[k].status # "absent")
  BY <1>1, <1>2
<1> QED
  BY <1>3 DEF Inserted, JobsOf

LEMMA NoneMissedStep ==
  ASSUME \A g, h \in Handlers : g = h,
         TypeOK, TypeOK', Known, Asked, NoneMissed, [Next]_vars
  PROVE  NoneMissed'
<1>1. ASSUME NEW k \in Jobs, job'[k].status # "absent"
      PROVE  job'[k].unseen = {}
  <2>1. CASE job[k].status # "absent"
    BY <2>1, RowsStay DEF NoneMissed
  <2>3. CASE job[k].status = "absent"
    <3>1. InsertStep
      BY <1>1, <2>3, JobsAppear
    <3>2. ASSUME NEW h \in Handlers, NEW n \in Jobs,
                 request[h].step = "checked", request[h].item = ItemOf[n],
                 EnqueueRetry(n, request[h].source, request[h].known)
          PROVE  job'[k].unseen = {}
      <4>1. n = k
        BY <1>1, <2>3, <3>2 DEF EnqueueRetry, Insert, TypeOK
      <4>2. job'[k].unseen = Inserted(ItemOf[k]) \ request[h].known
        BY <3>2, <4>1 DEF EnqueueRetry, Insert, NewRow, TypeOK
      <4> QED
        BY <3>2, <4>1, <4>2 DEF NoneMissed, Sees
    <3>3. ASSUME NEW n \in Jobs, NEW admitted \in BOOLEAN, EnqueueRecording(n, admitted)
          PROVE  job'[k].unseen = {}
      <4>1. n = k
        BY <1>1, <2>3, <3>3 DEF EnqueueRecording, Insert, TypeOK
      <4> QED
        BY <3>3, <4>1 DEF EnqueueRecording, Insert, NewRow, TypeOK
    <3> QED
      BY <3>1, <3>2, <3>3 DEF InsertStep, FirstJob, FurtherJob
  <2> QED
    BY <2>1, <2>3
<1>2. ASSUME NEW h \in Handlers
      PROVE  Sees(request[h])'
  <2>1. CASE \E g \in Handlers : FurtherJob(g)
    BY <2>1 DEF FurtherJob, NoRequest, Sees, TypeOK
  <2>2. CASE ~\E g \in Handlers : FurtherJob(g)
    <3>1. SUFFICES ASSUME request'[h].step = "checked"
                   PROVE  request'[h].known =
                            {k \in JobsOf(request'[h].item) : job'[k].status # "absent"}
      BY DEF Sees, Inserted
    <3>2. /\ request'[h].item \in Items /\ ledger[request'[h].item]
          /\ request'[h].known = Inserted(request'[h].item)
      BY <3>1, StepsRemember DEF Remembers, Asked, Asks, NoneMissed, Sees
    <3>3. InsertStep => FirstJob /\ ledger[request'[h].item]
      BY <2>2, <3>2 DEF InsertStep
    <3> QED
      BY <3>2, <3>3, InsertedStays
  <2> QED
    BY <2>1, <2>2
<1> QED
  BY <1>1, <1>2 DEF NoneMissed

\* While a request of a recording may be answered or its fate is unknown, no other job of
\* the recording sends one: UncertainNeverReplayed, where retries, imports and reprocesses
\* come one at a time and no administrator deletes the row that remembers it.
THEOREM UncertainStaysAlone ==
  ASSUME Admins = {}, \A g, h \in Handlers : g = h
  PROVE  Spec => UncertainNeverReplayed
<1> DEFINE Inv == PInv /\ NoneRemoved /\ NoneMissed
<1>1. Init => NoneRemoved /\ NoneMissed
  BY DEF Init, AbsentRow, NewRow, NoneRemoved, NoneMissed, NoRequest, Sees
<1>2. Inv /\ [Next]_vars => Inv'
  <2>1. ASSUME Inv, [Next]_vars PROVE Inv'
    <3>1. PInv' /\ NoneRemoved'
      BY <2>1, SpendingStep, NoneRemovedStep
    <3>2. TypeOK /\ TypeOK' /\ Known /\ Asked
      BY <2>1, <3>1 DEF PInv, IInv, Spending
    <3>3. NoneMissed'
      BY <2>1, <3>2, NoneMissedStep
    <3> QED
      BY <3>1, <3>3
  <2> QED
    BY <2>1
<1>3. ASSUME Inv, [Next]_vars, NEW j \in Jobs, NEW k \in Jobs, j # k,
             ItemOf[j] = ItemOf[k], posts'[j] > posts[j], posts[k] > 0
      PROVE  job[k].provider \in {"completed", "error"}
  <2>1. Open(j)
    BY <1>3, SendingJobs DEF NoneRemoved
  <2>2. ~Open(k)
    BY <1>3, <2>1 DEF PInv, Spending, OneOpenJob, NoneMissed, Overlapped, Open, Exists
  <2> QED
    BY <1>3, <2>2, PaidJobs DEF NoneRemoved
<1>4. Inv /\ [Next]_vars =>
        [\A j, k \in Jobs :
           j # k /\ ItemOf[j] = ItemOf[k] /\ posts'[j] > posts[j] /\ posts[k] > 0
             => job[k].provider \in {"completed", "error"}]_vars
  BY <1>3
<1>5. Spec => []Inv
  <2>1. Init => Inv
    BY <1>1, InvInit, SpendingInit DEF PInv
  <2> HIDE DEF Inv
  <2> QED
    BY <1>2, <2>1, PTL DEF Spec
<1> HIDE DEF Inv
<1> QED
  BY <1>4, <1>5, PTL DEF Spec, UncertainNeverReplayed

-----------------------------------------------------------------------------
(* Paying again for a recording.                                           *)

\* A job made by a notification, an approval or an import is closed by the time the
\* recording has another one it did not overlap.
FirstJobClosed ==
  \A j, k \in Jobs :
    /\ j # k /\ ItemOf[j] = ItemOf[k] /\ job[j].source = "recording"
    /\ Exists(j) /\ Exists(k) /\ ~Overlapped(j, k)
    => ~Open(j)

LEMMA FirstJobClosedStep ==
  ASSUME TypeOK, Known, Asked, FirstJobClosed, [Next]_vars
  PROVE  FirstJobClosed'
<1> SUFFICES ASSUME NEW j \in Jobs, NEW k \in Jobs, j # k, ItemOf[j] = ItemOf[k],
                    job'[j].source = "recording", Exists(j)', Exists(k)',
                    j \notin job'[k].unseen, k \notin job'[j].unseen, Open(j)'
             PROVE  FALSE
  BY DEF FirstJobClosed, Overlapped
<1>1. job'[j].status # "absent" /\ job'[k].status # "absent"
  BY DEF Exists
<1>2. CASE job[j].status = "absent"
  <2>1. job'[k] = job[k]
    BY <1>1, <1>2, NextRows DEF RowsAppearAlone
  <2>2. job[k].status # "absent" /\ Exists(k)
    BY <1>1, <2>1 DEF Exists
  <2> QED
    BY <1>1, <1>2, <2>2, JobsAppear, InsertFindsClosed
<1>3. CASE job[j].status # "absent" /\ job[k].status = "absent"
  <2>1. ~Open(j)
    BY <1>1, <1>3, JobsAppear, InsertFindsClosed
  <2> QED
    BY <1>3, <2>1, NoneReopens
<1>4. CASE job[j].status # "absent" /\ job[k].status # "absent"
  <2>1. /\ Exists(j) /\ Exists(k) /\ job[j].source = "recording"
        /\ job[j].unseen = job'[j].unseen /\ job[k].unseen = job'[k].unseen
    BY <1>4, RowsStay
  <2>2. ~Open(j)
    BY <2>1 DEF FirstJobClosed, Overlapped
  <2> QED
    BY <1>4, <2>2, NoneReopens
<1> QED
  BY <1>2, <1>3, <1>4

\* A job that is neither a retry nor a reprocess pays for a recording another job was paid
\* for only if the two overlapped, or the row of one is gone.
OnlyRetriesPayAgain ==
  [][\A j, k \in Jobs :
       /\ j # k /\ ItemOf[j] = ItemOf[k] /\ job[j].source = "recording"
       /\ posts'[j] > posts[j] /\ posts[k] > 0 /\ Exists(j) /\ Exists(k)
       => Overlapped(j, k)]_vars

\* What the retry handler claims of a submitted recording (SubmittedNeverResubmitted) is
\* broken by retries alone: notifications, approvals and imports, in any order with
\* crashes, recoveries, retries and reprocesses, pay for a recording the queue has paid for
\* only where a row was deleted or two requests overlapped.
THEOREM OnlyRetriesResubmit == Spec => OnlyRetriesPayAgain
<1> DEFINE Inv == PInv /\ FirstJobClosed
<1>1. Init => FirstJobClosed
  BY DEF Init, AbsentRow, NewRow, Exists, FirstJobClosed
<1>2. Inv /\ [Next]_vars => Inv'
  BY SpendingStep, FirstJobClosedStep DEF PInv, IInv, Spending
<1>3. ASSUME Inv, [Next]_vars, NEW j \in Jobs, NEW k \in Jobs,
             j # k, ItemOf[j] = ItemOf[k], job[j].source = "recording",
             posts'[j] > posts[j], posts[k] > 0, Exists(j), Exists(k)
      PROVE  Overlapped(j, k)
  <2>1. Open(j)
    BY <1>3, SendingJobs DEF Exists
  <2> QED
    BY <1>3, <2>1 DEF FirstJobClosed
<1>4. Inv /\ [Next]_vars =>
        [\A j, k \in Jobs :
           /\ j # k /\ ItemOf[j] = ItemOf[k] /\ job[j].source = "recording"
           /\ posts'[j] > posts[j] /\ posts[k] > 0 /\ Exists(j) /\ Exists(k)
           => Overlapped(j, k)]_vars
  BY <1>3
<1>5. Spec => []Inv
  <2>1. Init => Inv
    BY <1>1, InvInit, SpendingInit DEF PInv
  <2> HIDE DEF Inv
  <2> QED
    BY <1>2, <2>1, PTL DEF Spec
<1> HIDE DEF Inv
<1> QED
  BY <1>4, <1>5, PTL DEF Spec, OnlyRetriesPayAgain

-----------------------------------------------------------------------------
(* The refinement of the life cycle.                                       *)

\* No job exists at first, in either specification.
LEMMA LifecycleInit == Init => Lifecycle!Init
<1> SUFFICES ASSUME Init PROVE Lifecycle!Init
  OBVIOUS
<1>1. \A j \in Jobs : /\ job[j].status = "absent" /\ job[j].admitted = FALSE
                      /\ ~(posts[j] > 0)
  BY DEF Init, AbsentRow, NewRow
<1>2. [j \in Jobs |-> job[j].status] = [j \in Jobs |-> "absent"]
  BY <1>1
<1>3. [j \in Jobs |-> job[j].admitted] = [j \in Jobs |-> FALSE]
  BY <1>1
<1>4. \A j \in Jobs : (posts[j] > 0) = FALSE
  BY <1>1
<1>5. [j \in Jobs |-> posts[j] > 0] = [j \in Jobs |-> FALSE]
  BY <1>4, Zenon
<1> QED
  BY <1>2, <1>3, <1>5 DEF Lifecycle!Init

\* A step that touches neither status, nor admission, nor what was sent, is a stutter.
LEMMA Stutters ==
  ASSUME posts' = posts,
         \A j \in Jobs : job'[j].status = job[j].status /\ job'[j].admitted = job[j].admitted
  PROVE  UNCHANGED Lifecycle!lifecycle
BY DEF Lifecycle!lifecycle

\* One row moves to another status: it starts, ends, is withdrawn or removed.
LEMMA OneRowLives ==
  ASSUME TypeOK, NEW k \in Jobs, NEW row, job' = [job EXCEPT ![k] = row],
         Moves(job[k], row), posts' = posts
  PROVE  Lifecycle!Next \/ UNCHANGED Lifecycle!lifecycle
<1> DEFINE status == [j \in Jobs |-> job[j].status]
<1>1. /\ job'[k] = row /\ \A j \in Jobs : j # k => job'[j] = job[j]
      /\ row.admitted = job[k].admitted
  BY DEF TypeOK, Moves
<1>2. /\ [j \in Jobs |-> job'[j].status] = [status EXCEPT ![k] = row.status]
      /\ [j \in Jobs |-> job'[j].admitted] = [j \in Jobs |-> job[j].admitted]
      /\ [j \in Jobs |-> posts'[j] > 0] = [j \in Jobs |-> posts[j] > 0]
  <2>1. [j \in Jobs |-> job'[j].status] = [status EXCEPT ![k] = row.status]
    <3>1. \A j \in Jobs : job'[j].status = IF j = k THEN row.status ELSE job[j].status
      BY <1>1
    <3> QED
      BY <3>1, Zenon
  <2>2. \A j \in Jobs : job'[j].admitted = job[j].admitted
    BY <1>1
  <2>3. [j \in Jobs |-> job'[j].admitted] = [j \in Jobs |-> job[j].admitted]
    BY <2>2, Zenon
  <2>4. [j \in Jobs |-> posts'[j] > 0] = [j \in Jobs |-> posts[j] > 0]
    BY Zenon
  <2> QED
    BY <2>1, <2>3, <2>4
<1>3. CASE row.status = job[k].status
  BY <1>1, <1>3, Stutters
<1>4. CASE job[k].status = "pending" /\ job[k].admitted /\ row.status = "processing"
  <2>1. Lifecycle!Start(k)
    BY <1>2, <1>4 DEF Lifecycle!Start
  <2> QED
    BY <2>1 DEF Lifecycle!Next
<1>5. CASE job[k].status = "pending" /\ row.status = "cancelled"
  <2>1. /\ {k} \in SUBSET {j \in Jobs : status[j] = "pending"} /\ {k} # {}
        /\ [status EXCEPT ![k] = row.status]
             = [j \in Jobs |-> IF j \in {k} THEN "cancelled" ELSE status[j]]
    BY <1>5
  <2>2. Lifecycle!Withdraw
    BY <1>2, <2>1 DEF Lifecycle!Withdraw
  <2> QED
    BY <2>2 DEF Lifecycle!Next
<1>6. CASE job[k].status = "processing" /\ row.status \in {"failed", "cancelled", "completed"}
  <2>1. Lifecycle!End(k)
    BY <1>2, <1>6 DEF Lifecycle!End, Lifecycle!Ends
  <2> QED
    BY <2>1 DEF Lifecycle!Next
<1>7. CASE job[k].status \in RetryableStatuses /\ row.status = "deleted"
  <2>1. Lifecycle!Remove(k)
    BY <1>2, <1>7 DEF Lifecycle!Remove, RetryableStatuses
  <2> QED
    BY <2>1 DEF Lifecycle!Next
<1> QED
  BY <1>3, <1>4, <1>5, <1>6, <1>7 DEF Moves

\* A job that is added is one the life cycle creates.
LEMMA InsertLives ==
  ASSUME TypeOK, InsertStep
  PROVE  Lifecycle!Next
<1>0. PICK k \in Jobs, admitted \in BOOLEAN : \E source, unseen :
        Insert(k, NewRow(source, admitted, unseen))
  BY DEF InsertStep, FirstJob, FurtherJob, EnqueueRecording, EnqueueRetry
<1>1. PICK source, unseen : Insert(k, NewRow(source, admitted, unseen))
  BY <1>0
<1>2. /\ job[k].status = "absent" /\ job'[k].status = "pending" /\ job'[k].admitted = admitted
      /\ \A j \in Jobs : j # k => job'[j] = job[j]
  BY <1>1 DEF Insert, NewRow, TypeOK
<1>3. \A j \in Jobs : ItemOf[j] = ItemOf[k] => job[j].status \notin {"pending", "processing"}
  BY <1>1 DEF Insert, NoActiveJob, JobsOf, Active, ActiveStatuses
<1>4. /\ [j \in Jobs |-> job'[j].status] = [[j \in Jobs |-> job[j].status] EXCEPT ![k] = "pending"]
      /\ [j \in Jobs |-> job'[j].admitted]
           = [[j \in Jobs |-> job[j].admitted] EXCEPT ![k] = admitted]
  BY <1>2
<1>5. Lifecycle!Create(k)
  BY <1>2, <1>3, <1>4 DEF Lifecycle!Create, Lifecycle!UnderWay, InsertStep
<1> QED
  BY <1>5 DEF Lifecycle!Next

\* An owner who opts out withdraws jobs, all at once.
LEMMA WithdrawLives ==
  ASSUME TypeOK, NEW o \in Owners, Unsubscribe(o)
  PROVE  Lifecycle!Next
<1> DEFINE S == {j \in Jobs : Withdrawn(o, j)}
<1>1. \A j \in Jobs : job[j] \in JobRow
  BY DEF TypeOK
<1>2. \A j \in Jobs : /\ job'[j].status = IF j \in S THEN "cancelled" ELSE job[j].status
                      /\ job'[j].admitted = job[j].admitted
  BY <1>1 DEF Unsubscribe, CancelledRow, JobRow
<1>3. S # {} /\ S \in SUBSET {j \in Jobs : job[j].status = "pending"} /\ posts' = posts
  BY DEF Unsubscribe, Withdrawn
<1>4. Lifecycle!Withdraw
  BY <1>2, <1>3 DEF Lifecycle!Withdraw
<1> QED
  BY <1>4 DEF Lifecycle!Next

\* Truth values that differ at one point only.
LEMMA SetsTrue ==
  ASSUME NEW f \in [Jobs -> BOOLEAN], NEW g \in [Jobs -> BOOLEAN], NEW k \in Jobs, g[k],
         \A j \in Jobs : j # k => g[j] = f[j]
  PROVE  g = [f EXCEPT ![k] = TRUE]
<1>1. \A j \in Jobs : g[j] = [f EXCEPT ![k] = TRUE][j]
  BY Zenon
<1>2. [f EXCEPT ![k] = TRUE] \in [Jobs -> BOOLEAN]
  BY Zenon
<1> QED
  BY <1>1, <1>2, Zenon

\* The request counts once for a job that started, was authorized and has not completed.
LEMMA PostLives ==
  ASSUME PInv, NEW w \in Workers, Post(w)
  PROVE  Lifecycle!Next \/ UNCHANGED Lifecycle!lifecycle
<1>1. TypeOK /\ Holding /\ Spending
  BY DEF PInv, IInv
<1>2. At(w, "reserved") /\ ~At(w, "idle") /\ worker[w].pc \in ProviderStages
  BY DEF Post, At, ProviderStages
<1>3. PICK k \in Jobs : k = worker[w].job
  BY <1>1, <1>2, BusyWorker
<1>4. job' = job /\ (posts' = [posts EXCEPT ![k] = @ + 1] \/ posts' = posts)
  BY <1>3 DEF Post, rows
<1>5. /\ k \in Jobs /\ posts[k] = 0 /\ job[k].admitted
      /\ job[k].status \notin {"absent", "pending", "completed"}
  BY <1>1, <1>2, <1>3 DEF Spending, Reserved, Holding, Row
<1>6. CASE posts' = posts
  BY <1>4, <1>6, Stutters
<1>7. CASE posts' = [posts EXCEPT ![k] = @ + 1]
  <2>1. posts'[k] > 0 /\ ~(posts[k] > 0) /\ \A j \in Jobs : j # k => posts'[j] = posts[j]
    BY <1>1, <1>5, <1>7 DEF TypeOK
  <2> DEFINE charged == [j \in Jobs |-> posts[j] > 0]
             charging == [j \in Jobs |-> posts'[j] > 0]
  <2>2. /\ charged \in [Jobs -> BOOLEAN] /\ charging \in [Jobs -> BOOLEAN]
        /\ charging[k] /\ ~charged[k] /\ \A j \in Jobs : j # k => charging[j] = charged[j]
    <3>1. charged \in [Jobs -> BOOLEAN] /\ charging \in [Jobs -> BOOLEAN]
      <4>1. \A j \in Jobs : (posts[j] > 0) \in BOOLEAN /\ (posts'[j] > 0) \in BOOLEAN
        OBVIOUS
      <4> QED
        BY <4>1, Zenon
    <3>2. charging[k] = (posts'[k] > 0) /\ charged[k] = (posts[k] > 0)
      BY <1>5, Zenon
    <3>3. \A j \in Jobs : j # k => charging[j] = charged[j]
      BY <2>1, Zenon
    <3> QED
      BY <2>1, <3>1, <3>2, <3>3, Zenon
  <2> HIDE DEF charged, charging
  <2>3. charging = [charged EXCEPT ![k] = TRUE]
    BY <1>5, <2>2, SetsTrue
  <2>4. /\ [j \in Jobs |-> job'[j].status] = [j \in Jobs |-> job[j].status]
        /\ [j \in Jobs |-> job'[j].admitted] = [j \in Jobs |-> job[j].admitted]
    BY <1>4
  <2>5. Lifecycle!Charge(k)
    <3>1. [j \in Jobs |-> job[j].admitted][k]
      BY <1>5, Zenon
    <3>2. [j \in Jobs |-> job[j].status][k] \notin {"absent", "pending", "completed"}
      BY <1>5
    <3> QED
      BY <2>2, <2>3, <2>4, <3>1, <3>2, Zenon DEF Lifecycle!Charge, charged, charging
  <2>6. \E j \in Jobs : Lifecycle!Charge(j)
    BY <1>5, <2>5
  <2> QED
    BY <2>6 DEF Lifecycle!Next
<1> QED
  BY <1>4, <1>6, <1>7

\* Every step of the queue is a step of the life cycle or a stutter.
LEMMA LifecycleStep ==
  ASSUME PInv, [Next]_vars
  PROVE  Lifecycle!Next \/ UNCHANGED Lifecycle!lifecycle
<1>1. TypeOK /\ Known /\ Asked
  BY DEF PInv, IInv, Spending
<1>2. CASE PlainStep
  <2>1. CASE job' = job
    BY <1>2, <2>1, Stutters DEF PlainStep
  <2> QED
    BY <1>1, <1>2, <2>1, OneRowLives DEF PlainStep, RowMoves
<1>3. CASE InsertStep
  BY <1>1, <1>3, InsertLives
<1>4. ASSUME NEW o \in Owners, Unsubscribe(o)
      PROVE  Lifecycle!Next
  BY <1>1, <1>4, WithdrawLives
<1>5. ASSUME NEW w \in Workers, HearStep(w) \/ Reserve(w)
      PROVE  UNCHANGED Lifecycle!lifecycle
  <2>1. ~At(w, "idle") /\ posts' = posts
    BY <1>5, CalmStages DEF HearStep, Reserve, At
  <2>2. Row(w) \in JobRow /\ worker[w].job \in Jobs
    BY <1>1, <2>1, BusyWorker
  <2>3. PICK row : /\ SetRow(w, row)
                   /\ row.status = Row(w).status /\ row.admitted = Row(w).admitted
    <3>1. \A status : LET row == [Row(w) EXCEPT !.provider = status] IN
            row.status = Row(w).status /\ row.admitted = Row(w).admitted
      BY <2>2 DEF JobRow
    <3>2. LET row == [Row(w) EXCEPT !.submissions = 1, !.provider = "submitting"] IN
            row.status = Row(w).status /\ row.admitted = Row(w).admitted
      BY <2>2 DEF JobRow
    <3> QED
      BY <1>5, <3>1, <3>2 DEF HearStep, Reserve, ReserveRow, Checkpoint
  <2>4. \A j \in Jobs : job'[j].status = job[j].status /\ job'[j].admitted = job[j].admitted
    BY <1>1, <2>2, <2>3 DEF SetRow, Row, TypeOK
  <2> QED
    BY <2>1, <2>4, Stutters
<1> QED
  BY <1>1, <1>2, <1>3, <1>4, <1>5, PostLives, NextKinds

\* The queue implements the life cycle its jobs are promised: ImplementsLifecycle, with
\* statuses, authorizations and the requests the service received read off the rows.
THEOREM LifecycleIsImplemented == Spec => ImplementsLifecycle
<1>1. PInv /\ [Next]_vars => [Lifecycle!Next]_(Lifecycle!lifecycle)
  BY LifecycleStep
<1> QED
  BY SpendingHolds, LifecycleInit, <1>1, PTL DEF Spec, ImplementsLifecycle, Lifecycle!Spec
=============================================================================
