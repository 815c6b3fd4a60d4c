------------------------------ MODULE JobRows ------------------------------
(***************************************************************************)
(* The durable rows the recording queue is made of, and the row updates    *)
(* that the worker, the provider checkpoint and the HTTP handlers share.   *)
(*                                                                         *)
(* One row of recording_jobs is one attempt at one recording: a job is     *)
(* claimed at most once (attempts = 0 is required), so a retry is a new    *)
(* row.  A row knows who may act on it through its lease token; the token  *)
(* a claim draws (uuid4 in the code) is modelled by the number of the      *)
(* claim, which no earlier claim of the row has used, and NULL by 0.       *)
(***************************************************************************)
EXTENDS Naturals

CONSTANTS
  Items,      (* recordings (OneDrive drive items)                         *)
  Jobs,       (* pool of job identifiers; its size bounds enqueueing       *)
  ItemOf,     (* the recording a job identifier will be used for           *)
  Owners,     (* registered users owning recordings                        *)
  OwnerOf,    (* the owner of each recording                               *)
  Workers,    (* worker processes                                          *)
  Handlers,   (* concurrent HTTP requests for a further job of a recording *)
  Admins,     (* administrators using the job cleanup endpoint             *)
  Selected,   (* jobs admitted by the PROCESS_ONLY_* filters               *)
  MaxSaves,   (* bound on reviewer saves of meeting decisions              *)
  Nobody      (* stands for NULL: no worker, no job                        *)

ASSUME ItemOfAssumption == ItemOf \in [Jobs -> Items]
ASSUME OwnerOfAssumption == OwnerOf \in [Items -> Owners]
ASSUME SelectedAssumption == Selected \subseteq Jobs
ASSUME MaxSavesAssumption == MaxSaves \in Nat
ASSUME NobodyAssumption == Nobody \notin Workers \cup Jobs \cup Items

VARIABLES
  job,        (* recording_jobs: one row per identifier                    *)
  ledger,     (* processed_items: the recording is known                   *)
  meeting,    (* meetings.state per recording, "none" before the row       *)
  transcript, (* meetings.transcript is durable                            *)
  draft,      (* what reviewers did to the result: see Draft               *)
  lock,       (* advisory lock per recording: the session holding it       *)
  worker,     (* control state of each worker process                      *)
  request,    (* control state of each such request: see RequestState       *)
  posts       (* paid transcription POSTs sent for a job (the provider)    *)

rows == <<job, ledger, meeting, transcript, draft>>
vars == <<job, ledger, meeting, transcript, draft, lock, worker, request, posts>>

Statuses == {"absent", "pending", "processing", "completed", "failed",
             "cancelled", "deleted"}
ActiveStatuses == {"pending", "processing"}
RetryableStatuses == {"failed", "cancelled"}

Providers == {"none", "submitting", "submission_unknown", "submitted", "queued",
              "processing", "poll_unknown", "completed", "error"}
\* Mutant: a reservation its worker did not live to use is taken for a request never sent.
UnresolvedProviders_Sent == {"submission_unknown", "submitted", "queued", "processing",
                             "poll_unknown"}

\* A paid request whose fate is open: it blocks any new job for the recording.
UnresolvedProviders == {"submitting", "submission_unknown", "submitted", "queued",
                        "processing", "poll_unknown"}

InProgressStates == {"downloading", "transcribing", "extracting"}
InterruptibleStates == InProgressStates \cup {"queued", "failed"}
ReviewStates == {"awaiting_review", "approved"}  \* approved stands for approved and sent
MeetingStates == {"none", "queued", "failed", "cancelled"} \cup InProgressStates
                   \cup ReviewStates

\* recording stands for every source a first job may have.
Sources == {"recording", "manual_retry", "manual_reprocess"}

\* unseen is history, not a column: the jobs of the recording inserted after the request
\* for this one had looked for them and before it inserted this one.
JobRow == [status : Statuses, source : Sources, admitted : BOOLEAN, attempts : Nat,
           submissions : Nat, provider : Providers, token : Nat, live : BOOLEAN,
           cancel : BOOLEAN, unseen : SUBSET Jobs]

\* dirty: an action, the transcript, the speakers or a delivery claim changed, so the
\* draft is no longer provably untouched; saves: decision saves, which leave it clean.
Draft == [dirty : BOOLEAN, saves : 0..MaxSaves]

NewRow(source, admitted, unseen) ==
  [status |-> "pending", source |-> source, admitted |-> admitted, attempts |-> 0,
   submissions |-> 0, provider |-> "none", token |-> 0, live |-> FALSE, cancel |-> FALSE,
   unseen |-> unseen]
AbsentRow == [NewRow("recording", FALSE, {}) EXCEPT !.status = "absent"]

-----------------------------------------------------------------------------
(* Row predicates and updates.                                             *)

Exists(j) == job[j].status \notin {"absent", "deleted"}
Active(j) == job[j].status \in ActiveStatuses
JobsOf(i) == {j \in Jobs : ItemOf[j] = i}
NoActiveJob(i) == \A j \in JobsOf(i) : ~Active(j)

\* The jobs of a recording inserted so far.
Inserted(i) == {j \in JobsOf(i) : job[j].status # "absent"}

\* An untouched draft still waiting for review may be reprocessed.
Clean(i) == meeting[i] = "awaiting_review" /\ ~draft[i].dirty

\* A failed attempt gives its lease up; an open reservation becomes an unknown outcome.
FailedRow(r) ==
  [r EXCEPT !.status = "failed", !.token = 0, !.live = FALSE,
            !.provider = IF @ = "submitting" THEN "submission_unknown" ELSE @]

CancelledRow(r) == [r EXCEPT !.status = "cancelled", !.token = 0, !.live = FALSE]

CompletedRow(r) == [r EXCEPT !.status = "completed", !.token = 0, !.live = FALSE]

\* How an attempt that did not finish its work ends: the cancellation request wins.
InterruptedRow(r) == IF r.cancel THEN CancelledRow(r) ELSE FailedRow(r)

\* Mutant: the list of states to mark lacks the last stage.
InterruptedMeeting_NotExtracting(i, r) ==
  IF meeting[i] \in {"downloading", "transcribing", "queued", "failed"}
  THEN IF r.cancel THEN "cancelled" ELSE "failed"
  ELSE meeting[i]

\* The meeting of an interrupted attempt, never overwriting a committed result.
InterruptedMeeting(i, r) ==
  IF meeting[i] \in InterruptibleStates
  THEN IF r.cancel THEN "cancelled" ELSE "failed"
  ELSE meeting[i]

\* Insert a job row; the partial unique index allows one active row per recording.
Insert(j, row) ==
  /\ job[j].status = "absent"
  /\ NoActiveJob(ItemOf[j])
  /\ job' = [job EXCEPT ![j] = row]

\* The new-recording path: claim the ledger row and add the job in one transaction.
EnqueueRecording(j, admitted) ==
  /\ ~ledger[ItemOf[j]]
  /\ ledger' = [ledger EXCEPT ![ItemOf[j]] = TRUE]
  /\ Insert(j, NewRow("recording", admitted, {}))

\* What refuses a further job for a recording that already has some: the query
\* enqueue_retry_job begins with.
Blocked(i) == \E j \in JobsOf(i) :
  Exists(j) /\ (Active(j) \/ job[j].provider \in UnresolvedProviders)

\* The insert it ends with.  Nothing is locked in between, and of what may have come up
\* meanwhile the index refuses an active job only.
EnqueueRetry(j, source, known) ==
  Insert(j, NewRow(source, TRUE, Inserted(ItemOf[j]) \ known))

-----------------------------------------------------------------------------
(* A request for a further job of a recording, between its statements.     *)

\* read: a retry holds the failed job's row, old, and has read the meeting, saw; checked:
\* the query found nothing in the way, and known were the jobs there were.
RequestState == [step : {"idle", "read", "checked"}, item : Items \cup {Nobody},
                 old : Jobs \cup {Nobody}, source : Sources, saw : MeetingStates,
                 known : SUBSET Jobs]
NoRequest == [step |-> "idle", item |-> Nobody, old |-> Nobody, source |-> "recording",
              saw |-> "none", known |-> {}]

\* A retry sets the meeting to queued, and the ORM writes it if that is a change from the
\* state it had read.
Requeues(r) == r.old # Nobody /\ r.source = "manual_retry" /\ r.saw \notin {"none", "queued"}

\* The query flushes that write first, and a reprocess has read the meeting for update: in
\* both cases the meeting's row is locked until the request is concluded.
HoldsMeeting(r) ==
  /\ r.step = "checked"
  /\ Requeues(r) \/ (r.old = Nobody /\ r.source = "manual_reprocess")

MeetingFree(i) == \A h \in Handlers : request[h].item = i => ~HoldsMeeting(request[h])
=============================================================================
