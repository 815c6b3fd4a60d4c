# Meeting Intel: verification project

Meeting Intel turns a Teams recording in OneDrive into a reviewed meeting record: it downloads
the file, pays an external service to transcribe it, extracts action items with a language
model, and lets the owner review, correct, approve and send the result. Python, FastAPI and
SQLAlchemy over PostgreSQL; several API processes and several worker processes share nothing but
the database. This directory models the parts of that program in which they meet, checks them
with TLC, and proves the most important results with TLAPS for every size of the system.

To check: `tlc -config <run>.cfg <module>` for each run below, `tlapm <module>` for each proof module.

## 1. The system

Paths are relative to `src/app/`.

| component | state | operations | hard because |
|---|---|---|---|
| Recording queue (`services/jobs.py`, `services/job_control.py`, `services/ledger.py`, `models.py`) | `recording_jobs`, `processed_items`, `meetings`; the partial unique index of active jobs | enqueue, retry, guarded commit, finish, cancel | every commit races every other; only conditions on rows protect it |
| Recording worker (`queue/worker.py`) | a lease token, an advisory lock, a pipeline task, a heartbeat task | claim, renew, process, finish, recover, stop | crashes, slow workers, a lock whose session dies unnoticed |
| Recording pipeline (`pipeline/steps.py`, `services/reprocessing.py`) | commits of one attempt; the fingerprint of the draft | download, transcribe, extract, install; reprocess | minutes pass between reading and writing; reviewers act meanwhile |
| Paid submission (`services/transcription_submission.py`, `pipeline/transcribe.py`) | `submission_attempts`, `provider_status` | reserve, submit, poll, checkpoint | the request cannot be taken back, its answer may be lost |
| Queue handlers (`api/recording_jobs.py`, `api/recordings.py`, `api/webhooks.py`, `api/users.py`, `workers/reconcile.py`) | one transaction each | select, import, retry, reprocess, cancel, clean up, unsubscribe | what is in the way of a job is looked for in one statement and the job inserted in another |
| Review, approval and delivery (`api/reviews.py`, `services/email_audit.py`) | actions, decisions, speakers, `email_audit` | edit, save, approve, send | lost updates, a mail that must not be sent twice |
| Manual calendar sync (`services/calendar_runs.py`, `services/calendar_sync.py`) | `calendar_sync_runs` with a singleton slot, an advisory lock, a task per accepted run | submit, execute, heartbeat, progress, finish, shut down | outcomes that cannot be known must stay blocked; opt-outs race reads |
| Meeting access (`api/reviews.py`, `services/access.py`, `api/admin.py`) | `meeting_participants`: access type and edit status | publish, request, share, decide, revoke | a row read early is written late |
| Administrators (`api/admin.py`, `api/users.py`) | `registered_users`, roles | register, sign in, promote, demote, remove | the last administrator, counted without a lock |
| Processing requests (`services/cross_user_recordings.py`, `api/recording_processing_requests.py`) | `recording_processing_requests`, the binding in `meetings.extracted_json` | ask, approve, deny, process | Graph is asked between the check and the commit; owner, administrators and the worker act meanwhile |
| AI providers (`ai/*.py`) | a registry and a policy, a usage ledger per host, a permit all hosts share | select, build, attempt, retry, reserve, post, record | a post cannot be taken back; processes share a ledger, hosts share a permit |
| Recording discovery (`services/recording_update.py` and others) | signed cursors, candidates | page, match, enrich | a cursor replayed elsewhere |
| Graph client, authentication, audit queries, frontend, migrations | – | – | I/O, rendering and append-only logs |

Interaction is through rows, with two exceptions: PostgreSQL advisory locks (one per recording,
one for the calendar), which vanish with their session, and calls to Graph, to the transcription
service and to the language model, which may fail, time out or lose their answer.

`PROJECT.json` lists every component with what is modelled of it, and the hazards, each at its
line. What makes each component correct:

* queue – one active job per recording, one attempt per job, a cancellation wins, a meeting never
  looks busy without a job, every attempt ends;
* submission – at most one paid request per job, none without a durable reservation, none while
  an earlier one of the recording is open, except where the queue's checks are known to miss it;
* pipeline against review – a worker never takes a meeting out of review and never overwrites
  what a reviewer changed;
* review – one mail at most, the record is what was mailed, nobody approves what they have not
  been shown, an approval is final;
* calendar – one run at a time, honest counters and results, no run after an unknown one, no
  reading after an opt-out;
* access – what was revoked stays revoked, only invited people become editors, nobody loses a view
  by accident, an administrator remains unless two calls race;
* processing requests – a decision is final, an approved colleague sees the result, opting out
  stops what it can stop, a finished result is replaced only by a call that read it unfinished;
* AI – at most one external call is ever posted, every post is reserved and within limits, a
  surprise in the usage blocks its host, and no route stands in for the one asked for.

## 2. Modules

| module | models | lines up with |
|---|---|---|
| `JobRows` | the rows of the queue, their predicates and shared updates, both enqueue paths | `models.py`, `jobs.py`, `job_control.py`, `ledger.py` |
| `WorkerPipeline` | a worker process from claim to finish, with heartbeat, crash and recovery | `worker.py`, `steps.py`, `reprocessing.py`, `transcription_submission.py`, `transcribe.py` |
| `QueueApi` | handlers and reviewers | `recording_jobs.py`, `recordings.py`, `reviews.py`, `admin.py`, `users.py`, `webhooks.py`, `reconcile.py` |
| `RecordingQueue` | their composition, fairness, properties | `worker.py` (`run_worker`) |
| `JobLifecycle` | abstract: what the queue promises of a job | – |
| `MCRecordingQueue` | instances for TLC | – |
| `RecordingQueueProofs` | theorems about `RecordingQueue`: types, progress, cancellation | – |
| `PaidRequestProofs`, `ReviewFenceProofs` | further theorems on it: what is paid for and the refinement; workers beside reviewers | – |
| `CalendarRuns` | manual calendar sync, with its properties | `calendar_runs.py`, `calendar_sync.py`, `api/calendar.py`, `users.py` |
| `OneCalendarRun` | abstract: what the sync promises | – |
| `MCCalendarRuns`, `CalendarRunsProofs` | instances and theorems | – |
| `ReviewApproval` | editing, previewing, approving and mailing one meeting, with its properties | `reviews.py`, `email_audit.py`, `reprocessing.py`, `steps.py` |
| `NotesApproval` | abstract: what reviewing the notes promises | – |
| `MCReviewApproval`, `ReviewApprovalProofs` | instances and theorems | – |
| `MeetingAccess` | participants, requests, decisions and accounts around one meeting, with its properties | `reviews.py`, `access.py`, `admin.py`, `users.py`, `steps.py`, `cross_user_recordings.py` (the pages) |
| `MCMeetingAccess`, `MeetingAccessProofs` | instances and theorems | – |
| `ProcessingRequests` | requests to process a colleague's recording, with its properties | `cross_user_recordings.py`, `recording_processing_requests.py`, `recordings.py`, `recording_jobs.py`, `webhooks.py`, `users.py`, `jobs.py`, `steps.py` |
| `OwnersDecision` | abstract: what asking a colleague promises | – |
| `MCProcessingRequests`, `ProcessingRequestsProofs` | an instance and theorems | – |
| `ProviderCalls` | policies, registry, attempts, ledgers and permit, with its properties | `ai/contracts.py`, `policy.py`, `registry.py`, `processing.py`, `runtime_bridge.py`, `businessai*.py` |
| `SpendingLedger` | abstract: what the accounting of external calls promises | – |
| `MCProviderCalls`, `ProviderCallsProofs` | an instance and theorems | – |

`PROJECT.json` maps each definition to the lines it stands for. Five components have an abstract
specification, which knows nothing of locks, calls in flight or crashes, and implement it under the
refinement mapping at the end of their module (`Lifecycle` in `RecordingQueue`, `Promise` in the others):

| abstract | promises | mapped from |
|---|---|---|
| `JobLifecycle` | one job under way per recording, one attempt per job, final ends, one charge per authorized attempt | the rows and what the service received |
| `OneCalendarRun` | a run starts when none is open, settles every subscriber as he wishes, ends with the verdict its settlements give, and stays as it ended; an unknown end blocks | the rows' status, what became of each subscriber, subscriptions |
| `NotesApproval` | nothing is revised behind a letter on its way or an approval; one letter leaves, as the reviewer saw it; the approval names it | items, decisions, what a page shows, the claim, the inbox, the record |
| `OwnersDecision` | one live request per user; a decision is made once, with its effect; an approval or a notification alone lets nothing be processed; a result is shown until it is taken back for another attempt; opting out ends what has not begun | request rows, the recording's job, whether there is a result, participants, the owner's subscription |
| `SpendingLedger` | a reservation fits and is written at once; one call is sent, for a reservation; usage is recorded once; a surprise blocks its host | ledgers, posts, month |

### The recording queue

A row of `recording_jobs` is one attempt: a claim requires `attempts = 0` and
`submission_attempts = 0`, so a retry is a new row. `job[j]` is the row; `token` is the
lease (a fresh uuid in the code, the number of the claim here), `live` says that the lease is not
older than its limit. `meeting[i]` is `meetings.state`. `draft[i]` keeps of a review only what a
worker must respect: `dirty` (something no longer provably untouched) and `saves` (decision
saves, which change the fingerprint only). `posts[j]` counts the paid requests the *service*
received; no code reads it.

A worker's `pc` names the await it is at. Every action ends at a commit or at an await on another
service, so another process may step in wherever the code really yields. Three fences recur:
`Owned` (`_owned`), `Fenced` (`guarded_commit`, `_renew`: also no cancellation) and
`MayCheckpoint` (`_checkpoint`: also admission and a live lease). A refused commit, an exception,
a lost answer and a stop request leave the path where the code's handlers send them, to `failing`,
`unwind` or `finish_error`. Work in flight drains: a submission cancelled under way may still go
out (`Interrupt` in `reserved`).

A handler that decides on rows it holds locked, or by one statement, is one action. A request for a
further job of a known recording is not. `retry_job` reads the meeting without a lock (`RetryRead`).
Then `enqueue_retry_job` looks for active and unresolved jobs in one statement (`Blocked`, in
`RetryCheck`; an import and a reprocess begin here, `ImportAgain` and `Reprocess`) and inserts in
another (`Enqueue`). Nothing ties the two together: the unique index covers pending and processing
jobs, so a sibling that was inserted, ran and failed in between is not noticed. `known` is what the
query saw, and `unseen`, a history field of the new row, the jobs inserted since; two jobs are
`Overlapped` if one is in the other's `unseen`. From the query on, a retry that changes the meeting
and a reprocess hold its row, whose write was flushed or which they locked (`HoldsMeeting`); other
writers of the meeting wait (`MeetingFree`). A failing pipeline commits its session in `MarkFailed`,
and with it a transcript that was waiting to be committed.

What is abstracted: a batch of the recovery scan is a sequence of steps on one job; `created_at`
order of claims, i.e. any eligible job may be claimed; `available_at`, which is always now; authorization and subscription checks of handlers, which restrict who acts and not
what happens; the refusal of `cleanup_job` for jobs linked to a processing request; the mock
transcriber; the branch of `_claim_next` for exhausted jobs, which no reachable row satisfies (`JobsStayWithinReach`);
audit rows and texts.

### Calendar runs

`run[r]` is the row: status, `slot` (the unique nullable `active_slot`), counters, and `fresh`,
the age of the heartbeat against its 60 seconds. `request[p]` is the submission API process
`p` serves, `task[r]` the lifespan-owned task of an accepted run in its process, `outcome[r]`
what became of each subscriber in the run's snapshot. The advisory lock is tried by submissions
and by tasks and belongs to a session (`calendarLock`), the row lock of a subscriber to the task
that reads his calendar (`userLock`). A subscriber who is no longer eligible is skipped in one step
(`SkipUser`), although the code reads him and commits the counter later: it locks and writes nothing
in between, the counter does not depend on what he has become, and a task that ends in between has
counted nothing. `LegacySync` is the synchronous sync of an earlier release,
which takes the same advisory lock.

What is abstracted: `submit`'s two reads before it locks are one step; shutdown is `Interrupt`
followed by `Crash`; a lost acknowledgement of a commit is that commit followed by `Interrupt`; events,
error categories and the admin rows are left out; the 90 seconds of a Graph read are the fairness of the step that ends it.

### Review and approval

One meeting awaiting review. `meeting` is its state with `approved_by` and
`approved_recipients`, `delivery` the `email_delivery_*` columns, `actions` the action items taken
together, `extracted` what `extracted_json` holds of the extraction, of the speaker names and of
the decision revision. A fingerprint is the record of what it hashes. `page[a]` is a reviewer's
browser page and, from the claim on, the request that approves; `seen` is how often decisions had
been saved when the page showed them. `inbox` is external: the mails the mail service accepted.

`edit_item`, `save_meeting_decisions` and the first part of `approve` hold the meeting row from
their checks to their commit and are one action each. `approve` commits its claim (`Claim`), calls
the mail service without any lock (`Post`) and commits again (`Conclude`, `NoteFailure`); a crash or a
failing commit in between is `Leave`. `edit_transcript` and `save_speaker_mappings` take no lock:
`ReadNotes`, then `WriteNotes`, which writes `extracted_json` whole. A reprocessing job takes its
baseline in `StartRework` and installs or gives up in `EndRework`.

What is abstracted: who may edit and approve (see Meeting access), and which recipients are known to the meeting; the
words of notes and mails (`Wordings` stands for what an editor makes of the items); times, audit events and error categories; every refusal, a repeated approval answered
`already_sent` included, is `Leave`, since it changes nothing.

### Meeting access

One meeting and its participants. `row[u]` is the participant row of a user (access type, edit
status), `account[u]` the row of `registered_users`, `publish` the last stage of the worker, which
adds a row for everybody invited. A call (`request_edit_access`, `request_historical_access`,
`share`, `decide_edit_access`, `revoke_access`, `remove_user`, `update_user`) reads in one
step and commits in another. What it means to write is kept in `put`, column by column: the unit of
work updates the columns that differ from what was read, over whatever has been committed since, and
an insert fails on the unique key (`Collides`). Decisions and revocations lock the meeting row
(`LockFree`), the others nothing. `barred` is history for `RevocationSticks`: whose access was taken
and not asked for since. It is set by a removal only if no other call on that user was under way:
`remove_user` locks nothing, so a decision already read can still give the deleted account's row
its view back, and the property says no more than the code keeps.

What the recent meetings, the past ones and the meeting's page offer is not modelled: they compute it
by rules of their own and offer to ask for editing in every state of the meeting, although
`request_edit_access` (`reviews.py:860`) refuses in all but `awaiting_review`. What is abstracted:
`organizer_upn` and `attendees_raw` are constants, `is_organizer` follows them; edit locks by the meeting's state other than `awaiting_review`; names,
business units, welcome mails; repeated answers that change nothing. `MaxChanges` bounds how often
accounts change.

### Processing requests

One recording in one owner's OneDrive, of one occurrence all users are invited to. A call to ask, to
approve or to process one's own recording goes `start`, `locked` (the caller's account and, for a
decision, the request are held `FOR UPDATE`), `read` (`ReadState`: `recording_state`, after the last
Graph request) and commits (`Create`, `Queue`). What it read is not locked, so the owner may opt out
and the recording may be queued by somebody else before the commit. Imports, retries and Graph
notifications (`webhooks.py:45-63`) hold no lock at all: they check the subscription when they start
and then claim the recording (`Claim`: `enqueue_recording_job`), or read the rows (`Look`) and commit
a further job (`Requeue`). A retry writes the state of the meeting it read, so a stale one takes a
finished result out of sight.

Two more things are stale by construction and modelled so: the session keeps the account object it
authenticated with, which a later `SELECT ... FOR UPDATE` locks but does not refresh (`sub`), and
`queue_verified` decides and rewrites `extracted_json` from rows read without a lock (`saw`). The
owner's own Process is safe all the same, because `discover` selects the subscribed owners anew.
`copy` is the meeting as the worker's session loaded it, which `Save` writes back; a finished meeting
is left alone (`Skip`). `steps.py:480` looks for an approved request before the last commit
(`Rebound`); the autoflush of the summary there locks the row, so an approval commits before it or
waits.

The properties state what this leaves true, and name what they except. `OptOutStops` says nothing of
a job queued by a call or notification that was under way when the owner opted out, other than the
owner's own Process, or by an administrator's retry (`late`). `QueuedHasWork` excepts the two ways in
which the code itself leaves a meeting queued (`quiet`: `unsubscribe`, `users.py:139`, cancels jobs and
not meetings; an approval creates the meeting of a job that has just ended), and says that there is
no third. `ResultKept` excepts the call that had read the meeting before it was finished, and ends
where a retry has taken the meeting back. `ApprovedIsShown` excepts an approval after the result.
`OwnersDecision` does not promise that the owner still takes part, or that the recording is untouched,
when a request is entered: neither is checked under a lock. And its viewers keep a result only until
`Authorize` takes it back for another attempt, from all of them at once, which is the stale retry.

The model shows without a property that a job queued by an approval or a notification carries no
authorization and waits for the owner to cancel and retry it, that an approved request whose job
fails keeps its requester from asking again, and that an administrator who attends may approve his
own request. What is abstracted: other recordings and occurrences, collisions of drive identifiers
and ambiguous matches (refusals: `Abandon`), what `enqueue_retry_job` looks for before it inserts (it may
refuse; what it misses is a matter of `RecordingQueue`), reprocessing, cleanup and revocation.

### AI providers

A `Configuration` is a registry of routes, a policy and the id that is asked for; `Created` is what
`ProviderRegistry.create` builds from it: valid registry and policy (`ValidRegistry`, `ValidPolicy`),
the first permitted candidate (`Select`), and an implementation for that very route (`Builds`).
`Runtime` holds the configurations the code itself makes. `extract_with_foundation` uses the local
ones; the external adapter is reached by an operator's script (`scripts/businessai_synthetic_test.py`) and
by an injected registry. `Configs` adds registries and policies nobody has written yet, as the
contracts allow.

A run attempts a call: `built`, `dated` (`ReadMonth`: it has taken the month from the clock), `counting`
(`Count`: inside `BEGIN IMMEDIATE` of the SQLite ledger of its host), `reserved`, `admitted` (the
PostgreSQL permit is consumed), `posted`, `done`. Since the month is read before the lock, a reservation
for a month that has ended may follow one for the next. A permit may be committed and its answer lost
(`Consume` with an outcome), a call may be cancelled or its process may die anywhere (`Leave`), which
gives nothing back. `Retry` follows `RetryPolicy.delay_after`; no caller in `src/` retries yet, and a retried external call is refused
as a duplicate fingerprint. When the ledger is locked at the end, the row stays `reserved`, which does
not block the host. What is abstracted: what a provider writes and its JSON validation are one
choice (valid or not); the tokens a call reserves are a constant; a permit whose statement commits after
the client gave up is taken as committed before; local providers answer at once; what a cloud route
claims of its features is believed, as the code does.

## 3. Runs

| run | instance | shows |
|---|---|---|
| `queue_core` | 1 recording, 2 attempts, 2 workers, a request for a further job, an administrator, one decision save | types; no meeting is left in progress; reservation before request; a cancellation wins; a paid request is repeated only over a deleted row; reviews outlive workers; refinement of `JobLifecycle` |
| `queue_liveness` | 2 attempts, 1 worker, a request for a further job, fair | every attempt ends; every authorized job starts or is withdrawn |
| `retry_race` | 3 attempts, 1 worker | **violation**: a retry takes a finished draft out of review |
| `resubmission` | 3 attempts, 1 worker | **violation**: a completed transcription is paid for again |
| `cleanup_replay` | 2 attempts, an administrator | **violation**: cleanup forgets an unknown submission |
| `calendar_core` | 2 runs for one user, or 1 run for 2 linked users and one without a link; 2 processes; fair | types; one run works; true counters and results; opt-outs; results are final; refinement of `OneCalendarRun` (unknown blocks); an accepted run does not look busy for ever |
| `review_core` | 2 reviewers, 2 recipients, an unlocked editor, 2 deliveries, 1 reprocessing | types; one mail; the record is what was mailed; `sent` is true; approved as shown; refinement of `NotesApproval` (an approval is final) |
| `unseen_decisions` | 1 reviewer, the same editor | **violation**: decisions are approved that no page has shown |
| `access_core` | an organizer who recorded the meeting, an attendee, an outsider; 2 calls; 2 changes of accounts | types; revocations stick; only invited editors; a view is lost deliberately; the last administrator |
| `undecidable_request` | an organizer and an outsider | **violation**: a request is shown that no decision accepts |
| `requests_core` | an owner, 2 colleagues who are administrators, 2 calls, 2 requests | types; refinement of `OwnersDecision` (decisions are final); approved is shown; opting out stops; queued has work; a result is kept, with the exceptions of section 2 |
| `ai_core` | 2 runs, 2 hosts, 2 requests, 2 months, 2 attempts, thousands of configurations | types; one send; accounted and limited; refinement of `SpendingLedger` (surprises block); the route is honoured |

**Why the bounds are enough.** All actions of the queue but `Unsubscribe` touch one recording, and
no row of one recording is read by an action on another, so a single recording loses nothing but
the trivial parallelism of several; `Unsubscribe` writes pending rows only, each as `Cancel` does.
A job row is never reused, so the number of attempts is the length of the
history: two suffice for a stale worker beside its successor; the violations that need the retry of a
job that is not the newest take three. The liveness run has one worker, to
keep it small: it recovers after its own crash what a second would recover. `queue_core` has two, which
give every race of two attempts; the lost lock, not more workers, is what makes a third party. One
request at a time, so there `ReplayIsExplained` comes down to deleted rows: two requests whose query
and insert overlap need two handlers and three jobs, which is left to the theorem of that name, for
any number of either. `MaxSaves = 1` distinguishes a draft saved since it was
fingerprinted. The pool of jobs being finite, the queue really stops when it is used up:
`CHECK_DEADLOCK FALSE`. In the calendar the pool of runs is finite too, but an opt-out is always
possible, and deadlock is checked. In the review two reviewers make every race for the claim, two
recipients let them send to different people, two attempts are a failure and its retry,
one decision save and one new result make a preview stale; a page can always be opened, and
deadlock is checked. The calendar has three users, two of them with an identity link, so that a run
may succeed for one, fail for another and skip a third, in any order with opt-outs, crashes and lost
acknowledgements. `MCSpec` bounds the instance: a second run is submitted, and further users subscribe,
only while at most one run is in use or nobody but one linked user is concerned. Two runs beside each other
are about slots and locks and not about how many subscribers each has; both with several is left to the
theorems.

Access: an organizer, an attendee and an outsider are the three relations to a meeting; two calls
make every pair of read and write cross, two changes of accounts are a removal and a demotion or a
removal and a return. No account may change any more when the bound is used up, and then nothing
need be possible: `CHECK_DEADLOCK FALSE`. Requests: two colleagues compete for an occurrence, and as
administrators they may decide or retry too; two calls give a decision beside another, or beside the
owner's Process, an import, a retry or a notification. `MCSpec` bounds who comes and goes: the colleagues
subscribe first and stay, the owner joins, or joins again, only while no call is under way, and opts out
at any time. A colleague's subscription is looked at when a call begins and by an approval under the
locks, and nothing depends on it later. AI: two runs on one host race for its ledger, on two hosts for
the permit; a budget of 3 with a cost of 2 is exceeded by the second call of a month, before the limit on their number, which is left to
the proof; two months tell a limit that is monthly from a block that is not. `Catalogue` holds routes that
fail one check of contracts, policy or registry each, beside valid ones. The constants of all three are
arbitrary in the proofs.

`Symmetry` permutes interchangeable job identifiers, workers, runs, hosts, reviewers, recipients,
calls, requests and users, in runs without liveness properties only.

**Fairness.** Queue: a worker does what its `pc` says (the process runs, and a crashed one is
restarted by its supervisor: `Crash` leaves it idle), a silent lease grows old, and the claim and
recovery queries are repeated by some worker (`run_worker` polls). A request that has looked for jobs in
its way ends (`Conclude`), since it awaits nothing but the database; it may be refused. Nothing is assumed
of users, of failures, of heartbeats or of the provider: `PollProgress` need not happen, and `PollEnds` is
bounded by the polling deadline. Calendar: a task nothing stops goes on, its Graph read being bounded
by 90 seconds and the run by 15 minutes, and time passes (`Stale`). No fairness of submissions,
`Accept` included: the process may die after the row is durable and before the task exists, which
is why an administrator is shown `unknown` for a stale row. Review, access,
requests and AI: none. People decide when they like, a delivery or a reservation whose outcome is
unknown stays blocked on purpose, and retries are left to callers.

## 4. What the violations say

Each shows one execution; the theorem named with it says, for every size of the system, what such an
execution cannot do without.

* `retry_race` – `retry_job` reads the meeting's state without a lock (`recording_jobs.py:195`) and
  writes `queued` after several awaits. If a sibling job finishes in between, a meeting awaiting
  review is put back into the queue, although the handler promises it "will not be overwritten".
  `StaleRetriesReopen`: besides its approval, only a retry that read the meeting before its result was
  there ever changes a meeting under review.
* `resubmission` – a job whose own provider status is `completed` is refused a retry ("will not
  be resubmitted"), but a sibling's `completed` does not count as unresolved: the retry of an older
  failed job pays for the transcription again.
  `OnlyRetriesResubmit`: apart from retries and reprocesses, a recording already paid for is paid for
  again only if a row was deleted or two requests overlapped.
* `cleanup_replay` – deleting a failed job with `submission_unknown` makes the recording importable
  again, and the uncertain request is replayed.
  `ReplaysAreExplained`: a second request beside an open one takes the deletion of one of the two rows,
  or requests for the two jobs of which one inserted between the query and the insert of the other
  (`jobs.py:67` and `:76`). `UncertainStaysAlone`: with neither there is none.
* `unseen_decisions` – `save_speaker_mappings` writes back the `extracted_json` it read before
  (`reviews.py:817`) and so erases the revision a decision save had put there. The fingerprint is
  again that of an older preview, and `approve` accepts a page that never showed those decisions.
  `OnlyUnlockedSavesHideDecisions`: without that unlocked save every approval covers what was shown.
* `undecidable_request` – a colleague the meeting had been shared with, whose view was revoked, may
  ask for it again (`reviews.py:1149`, and a test wants it so). The organizer is shown the request, but
  `decide_edit_access` takes only attendees' requests and answers 404 to every decision; the colleague
  cannot repeat the request either. `StuckAreOutsiders`: such a request always belongs to somebody who
  is not on the invitation, and repeats or outlives a revoked view.

## 5. Proofs

All theorems are `Spec => ...` for arbitrary constants under the named assumptions of `JobRows`
(`ItemOf`, `OwnerOf` functions, `Selected` a set of jobs, `MaxSaves` a number, `Nobody` no worker
and no job), `CalendarRuns` (`Nobody` and `Legacy` are no run and no process, no run is a process,
users are finitely many), `MeetingAccess` (organizer, owner, attendees and founders are users, there
is a founder, `Nobody` is no user, `MaxChanges` a number), `ProcessingRequests` (owner and
administrators are users, `Nobody` is no user and no request) and `ProviderCalls` (bounds are
numbers, `None` is no host and no request, requests are finitely many, `Configs` are
configurations).

`RecordingQueueProofs`: `TypeCorrect`, `ActiveJobIsAlone` (the partial unique index is respected by
every path), `CancellationWins`, `ProgressIsOwned`. The property `NoOrphanedProgress` is not
inductive: a stale worker must be known to be fenced off. The invariant `IInv` adds the unique index
(`OneActiveJob`), that a busy worker's job was claimed and by that worker alone (`Holding`,
`SoleHolder`), that only a reprocess meets a conflict and only a recording is downloaded (`Kinds`),
that the job behind a meeting in progress is no reprocess, whose conflicts end it without touching
the meeting (`Progress`), and that a pipeline that returned under its lease left the meeting out of
progress (`Settled`). The proof first classifies how any step may change a row (`RowStep`), a worker
and a meeting, and then argues once per class rather than once per action. `LocksDoNotLeak`: an
advisory lock is held by a worker at work on that very recording. `AttemptsGoForward`: a worker's
attempt never returns to a stage it has left. `JobsStayWithinReach`: the conditions of the claim and
recovery queries leave no job behind; what is pending was never tried, what is under way was
authorized.

`PaidRequestProofs`: `ReservationComesFirst`, `OpenJobIsAlone`, `ReplaysAreExplained`,
`UncertainStaysAlone`, `OnlyRetriesResubmit`, `LifecycleIsImplemented`. That a job is paid for once
cannot be seen from its row alone, since a worker may be between its reservation and its request.
`PInv` extends `IInv`: two jobs of a recording are open, i.e. pending, running or with an unresolved
request, only if they overlapped (`OneOpenJob`); whatever has a job is in the ledger (`Known`); a
request that has looked knows no open job (`Asked`); what was posted is on the row (`Accounts`); a
worker about to post has reserved, and nothing has left for its job (`Reserved`). Every step is plain
(rows move forward, the provider is asked nothing), adds a row, withdraws an owner's rows, hears from
the service, reserves or posts (`NextKinds`), and the invariant is kept kind by kind. A closed job
never reopens, so a job inserted after a query that found nothing can only meet jobs that are closed or
that it did not see. `UncertainStaysAlone` assumes `Admins = {}` and one request at a time, and adds
that then no row goes and no request misses an insert (`NoneRemoved`, `NoneMissed`); without these
assumptions `ReplaysAreExplained` says exactly what is left. `OnlyRetriesResubmit` adds that a
recording's first job, once another is there, is closed unless the two overlapped (`FirstJobClosed`).
The refinement of `JobLifecycle` maps the same kinds to its actions; it needs the unique index only,
and no query.

`ReviewFenceProofs`: `ReviewIsRespected`, `StaleRetriesReopen`. A recording's job may be pending or
at work while its meeting is under review, so the lease has to be followed: `FInv` adds that a
worker past its first decision that still owns its lease and does not reprocess works on a meeting
nobody reviews (`Ahead`), and that a reprocess never reaches the handler that marks meetings failed
(`Failing`). A meeting enters review by the final commit of the lease's owner only (`ReviewsOpen`),
and by `OneActiveJob` and `SoleHolder` that owner is no other worker. `StaleRetriesReopen` adds that
a request which read a meeting under review holds the row of a reprocess (`ReadsAreHeld`), so that a
recording is put back by a stale read only.

`CalendarRunsProofs`: `CalendarTypes`, `OneRunAtATime`, `OptOutHolds`, `CountersAreTrue`,
`ResultsAreTrue`, `ResultsStay`, `OpenRunsBlock`, `PromiseIsKept`, `RunsGoForward`. Mutual exclusion
does **not** rest on the advisory lock, which may be lost with its session: `IInv` says that the
slot is held exactly by open runs and by one run at most (`Slots`), that a task at work has an open
row (`Stages`), that an inserted submission owns its row and no task exists for it yet (`Inserted`),
and that the task that reads a calendar holds the subscriber's row (`Reading`). The counters need
`Counting` and three lemmas on cardinalities (`CountStep`, `CountTypes`, `CountNone`); the step is
again argued by the ways a run may move (`RunMoves`), and each of these ways is a step of
`OneCalendarRun` or none, given that the counters a verdict is taken from are true. `RunsGoForward`
gives every step of a run a measure: its stage, the subscribers left, the point within one of them.

`ReviewApprovalProofs`: `ReviewTypes`, `MailsOnce`, `RecordIsMailed`, `SentIsTrue`,
`ApprovalIsInformed`, `ApprovalStays`, `PromiseIsKept`, `OnlyUnlockedSavesHideDecisions`, for any
number of reviewers, editors and recipients and any bounds, mails enabled or not, provided `Nobody`
is no reviewer, no fingerprint and no letter. That one mail leaves is not inductive: a second claim
must be impossible once the first may have been mailed. `IInv` says that a claimed delivery is that
of the record as it stands (`OnRecord`), that the status says how the review ended (`Ended`), that
an approval in flight holds the claim alone (`Claimed`), and at which stages a mail may have left
(`Mailed`). By `OnRecord` and `Claimed` a claim, a post and an approval are `Bind`, `Send` and
`ApproveSent` of `NotesApproval`; the fingerprint is where the code finds out that the letter still
is what the notes say. `OnlyUnlockedSavesHideDecisions` assumes `Editors = {}` and adds that the
revision follows the decisions, and that a page shows those its fingerprint covers
(`DecisionsShown`).

`MeetingAccessProofs`: `AccessTypes`, `RevocationHolds`, `EditorsInvited`, `ViewLost`,
`AdminsRace`, `StuckAreOutsiders`. A row alone says nothing of what a call will write to it. `IInv`
adds what a call in flight may still mean to write (`Prepared`, `Fit`): it inserts or has read a
row, makes nobody uninvited an attendee, and gives nothing back to whom it was taken from, unless at
their own request. `StuckAreOutsiders` adds what the row of somebody not invited never becomes, and
what no call means to write to it (`Outsiders`).

`ProcessingRequestsProofs`: `TypesHold`, `OptOutHolds`, `QueuedHolds`, `ShownHolds`,
`DecidedOnceHolds`, `ResultKeptHolds`, `PromiseIsKept`. `IInv` says what a call can rely on when it
commits: what its locks keep (`Deciding`), whose consent it acts with, unless overtaken
(`Consenting`), and what it read that cannot be undone (`Remembered`). The refinement of
`OwnersDecision` needs more: how far the job, the meeting's state and what a call read of them agree
(`Results`); and that a call that is to insert a request holds its account's lock, which it shares with
no other, while no request of its user is alive (`Askers`). That the owner takes part or that no work
has begun is not among it, and not promised.

`ProviderCallsProofs`: `TypesHold`, `OneSendHolds`, `AccountedHolds`, `RouteHolds`, `SurprisesHold`,
`PromiseIsKept`, for any configuration. `IInv` follows a run: it holds what its configuration builds
(`Routed`), what it counted is still so under the lock (`Counted`), a call on its way is reserved
(`Limited`), and one run only is let through by the permit (`Single`). With these every step is one
of `SpendingLedger` or none: what was counted is still so when it is reserved, although the month
may have changed.

**Only model-checked**: liveness (`EveryAttemptEnds`, `AuthorizedJobsStart`, `RunsSettle`), which
needs fairness and ENABLED and is beyond the prover. `AttemptsGoForward` and `RunsGoForward` prove
what is safety in the first and the last: no step goes back. That a step is always possible, and
hence that the end is reached, rests on TLC. `JobsStayWithinReach` adds for `AuthorizedJobsStart`
that the query which must start the job always finds it.

## 6. Not modelled, and the plan

In this order:

1. `ReviewApproval`, what is left: personal copies (`send-copy`), sharing by mail, task completion. The
   unlocked saves that are written after the approval or beside a newer result are behaviours of the
   model (`WriteNotes`); no document of the repository says they must not happen, so no run states it.
2. `RecordingUpdate` – signed cursors and paging of recording discovery; matching and enrichment are
   pure algorithms over Graph data and enter `ProcessingRequests` as a choice.
3. Reprocessing, cleanup and revocation beside `ProcessingRequests`; a second occurrence of a recording.
   What the pages offer, beside `MeetingAccess`.
4. The rest of the administrators' pages: names, business units, mails.

Left out for good: text of prompts, parsing of model output, rendering of mails, Graph and token
handling, read-only queries, the frontend and migrations. They keep no state of their own that
another part relies on. The scheduled sync of `workers/sync_microsoft.py` upserts rows one event at
a time and promises nothing across them.
