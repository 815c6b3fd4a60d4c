----------------------------- MODULE CalendarRuns -----------------------------
(***************************************************************************)
(* The manual calendar synchronization: an administrator's request makes   *)
(* a durable run, a task of the API process that accepted it executes the  *)
(* run, user by user, and the row says what is known of it afterwards.     *)
(*                                                                         *)
(* A request is at: idle -> clear -> locked -> inserted -> idle.   *)
(* A task is at: none -> started -> locked -> snapshot -> next, then per   *)
(* user reading -> saving or noting -> next, and at last leaving -> none;  *)
(* marking is the handler that records an unknown outcome.  Every action   *)
(* ends at a commit or at an await on another service.                     *)
(***************************************************************************)
EXTENDS Naturals, FiniteSets

CONSTANTS
  Runs,     (* run identifiers drawn by browsers                           *)
  Procs,    (* API processes sharing the database                          *)
  Users,    (* registered users                                            *)
  Linked,   (* users with an Entra identity link                           *)
  Nobody,   (* stands for NULL                                             *)
  Legacy    (* a synchronous sync of an earlier release, without a run row *)

ASSUME LinkedAssumption == Linked \subseteq Users
ASSUME UsersAssumption == IsFiniteSet(Users)
ASSUME NobodyIsNobody == Nobody \notin Runs \cup Procs \cup {Legacy}
ASSUME HoldersDiffer == Runs \cap Procs = {} /\ Legacy \notin Runs \cup Procs

VARIABLES
  run,         (* calendar_sync_runs                                       *)
  outcome,     (* what a run committed for a user, calendar and sync state *)
  request,     (* the submission each API process is handling              *)
  task,        (* the task executing each run, in memory of its process    *)
  calendarLock,(* who holds the advisory lock _MANUAL_SYNC_LOCK            *)
  userLock,    (* the run whose transaction holds the user's row           *)
  subscribed   (* registered_users.is_subscribed                           *)

vars == <<run, outcome, request, task, calendarLock, userLock, subscribed>>

Results == {"success", "partial", "failed"}
RunRow == [status : {"absent", "queued", "running", "unknown"} \cup Results,
           slot : BOOLEAN, fresh : BOOLEAN,
           succeeded : Nat, failed : Nat, skipped : Nat]
AbsentRun == [status |-> "absent", slot |-> FALSE, fresh |-> FALSE,
              succeeded |-> 0, failed |-> 0, skipped |-> 0]
QueuedRun == [AbsentRun EXCEPT !.status = "queued", !.slot = TRUE, !.fresh = TRUE]

\* "todo": in the task's snapshot of subscribers and not yet dealt with.
Outcomes == {"none", "todo", "saved", "failed", "skipped"}

Request == [pc : {"idle", "clear", "locked", "inserted"}, run : Runs \cup {Nobody}]
NoRequest == [pc |-> "idle", run |-> Nobody]

Working == {"locked", "snapshot", "next", "reading", "saving", "noting"}
Task == [pc : {"none", "started", "leaving", "marking"} \cup Working,
         proc : Procs \cup {Nobody}, user : Users \cup {Nobody}]
NoTask == [pc |-> "none", proc |-> Nobody, user |-> Nobody]

Init ==
  /\ run = [r \in Runs |-> AbsentRun]
  /\ outcome = [r \in Runs |-> [u \in Users |-> "none"]]
  /\ request = [p \in Procs |-> NoRequest]
  /\ task = [r \in Runs |-> NoTask]
  /\ calendarLock = Nobody
  /\ userLock = [u \in Users |-> Nobody]
  /\ subscribed \in [Users -> BOOLEAN]

-----------------------------------------------------------------------------
(* Locks are released with the transaction or session that holds them.     *)

WithoutHolders(H) == IF calendarLock \in H THEN Nobody ELSE calendarLock
UserRowsWithout(H) == [u \in Users |-> IF userLock[u] \in H THEN Nobody ELSE userLock[u]]

RequestAt(p, pc) == request[p].pc = pc
Answer(p) == request' = [request EXCEPT ![p] = NoRequest]
TaskAt(r, pc) == task[r].pc = pc
TaskTo(r, pc) == task' = [task EXCEPT ![r] = [@ EXCEPT !.pc = pc, !.user = Nobody]]

\* An exception or a cancellation leaves the transactions of the task, then marks.
Unwound(r) == TaskTo(r, "marking")
              /\ calendarLock' = WithoutHolders({r}) /\ userLock' = UserRowsWithout({r})

-----------------------------------------------------------------------------
(* submit.                                                                 *)

SlotTaken == \E r \in Runs : run[r].slot

\* A run that exists is returned and never started again; an active one is returned
\* instead of the requested one.
Submit(p, r) ==
  /\ RequestAt(p, "idle")
  /\ run[r].status = "absent" /\ ~SlotTaken
  /\ request' = [request EXCEPT ![p] = [pc |-> "clear", run |-> r]]
  /\ UNCHANGED <<run, outcome, task, calendarLock, userLock, subscribed>>

\* exclusive_sync around the insert; 409 if somebody else holds the lock.
LockSubmission(p) ==
  /\ RequestAt(p, "clear")
  /\ IF calendarLock = Nobody
     THEN /\ calendarLock' = p
          /\ request' = [request EXCEPT ![p].pc = "locked"]
     ELSE Answer(p) /\ UNCHANGED calendarLock
  /\ UNCHANGED <<run, outcome, task, userLock, subscribed>>

\* Mutant: only the primary key is unique, not the active slot.
Rejected_OnlySameRun(r) == run[r].status # "absent"

\* The primary key and the unique active slot.
Rejected(r) == run[r].status # "absent" \/ SlotTaken

Insert(p) ==
  /\ RequestAt(p, "locked")
  /\ IF Rejected(request[p].run)
     THEN Answer(p) /\ calendarLock' = WithoutHolders({p}) /\ UNCHANGED run
     ELSE /\ run' = [run EXCEPT ![request[p].run] = QueuedRun]
          /\ request' = [request EXCEPT ![p].pc = "inserted"]
          /\ UNCHANGED calendarLock
  /\ UNCHANGED <<outcome, task, userLock, subscribed>>

\* The lock is released, then the task is created.
Accept(p) ==
  /\ RequestAt(p, "inserted")
  /\ task' = [task EXCEPT ![request[p].run] = [NoTask EXCEPT !.pc = "started", !.proc = p]]
  /\ Answer(p) /\ calendarLock' = WithoutHolders({p})
  /\ UNCHANGED <<run, outcome, userLock, subscribed>>

\* The request ends in an error: a database failure, a lost commit acknowledgement, a
\* failing release of the lock, the ceiling of the HTTP request.
SubmitFails(p) ==
  /\ ~RequestAt(p, "idle")
  /\ Answer(p) /\ calendarLock' = WithoutHolders({p})
  /\ UNCHANGED <<run, outcome, task, userLock, subscribed>>

-----------------------------------------------------------------------------
(* execute and _sync_subscribers.                                          *)

\* The lock again, under which the whole run executes.
LockRun(r) ==
  /\ TaskAt(r, "started")
  /\ IF calendarLock = Nobody
     THEN calendarLock' = r /\ TaskTo(r, "locked")
     ELSE /\ task' = [task EXCEPT ![r] = [@ EXCEPT !.pc = "marking"]]
          /\ UNCHANGED calendarLock
  /\ UNCHANGED <<run, outcome, request, userLock, subscribed>>

StartRun(r) ==
  /\ TaskAt(r, "locked")
  /\ run' = [run EXCEPT ![r] = [@ EXCEPT !.status = "running", !.fresh = TRUE]]
  /\ TaskTo(r, "snapshot")
  /\ UNCHANGED <<outcome, request, calendarLock, userLock, subscribed>>

Snapshot(r) ==
  /\ TaskAt(r, "snapshot")
  /\ outcome' = [outcome EXCEPT ![r] = [u \in Users |-> IF subscribed[u] THEN "todo" ELSE "none"]]
  /\ TaskTo(r, "next")
  /\ UNCHANGED <<run, request, calendarLock, userLock, subscribed>>

Todo(r) == {u \in Users : outcome[r][u] = "todo"}
Eligible(u) == subscribed[u] /\ u \in Linked

\* The row lock is taken before Graph is asked and kept until the user is committed.
ReadUser(r, u) ==
  /\ TaskAt(r, "next") /\ u \in Todo(r) /\ userLock[u] = Nobody /\ Eligible(u)
  /\ userLock' = [userLock EXCEPT ![u] = r]
  /\ task' = [task EXCEPT ![r] = [@ EXCEPT !.pc = "reading", !.user = u]]
  /\ UNCHANGED <<run, outcome, request, calendarLock, subscribed>>

\* One user's writes, his sync state and the counters of the run, in one transaction.
Commit(r, u, how, row) ==
  /\ run[r].status = "running"
  /\ outcome' = [outcome EXCEPT ![r][u] = how]
  /\ run' = [run EXCEPT ![r] = [row EXCEPT !.fresh = TRUE]]

\* Whoever is not found eligible is skipped.  The read that does not find him and the commit
\* that counts him are one step here: nothing is locked or written in between, the count
\* does not depend on who he has become, and a task that ends in between has not counted him.
SkipUser(r, u) ==
  /\ TaskAt(r, "next") /\ u \in Todo(r) /\ userLock[u] = Nobody /\ ~Eligible(u)
  /\ Commit(r, u, "skipped", [run[r] EXCEPT !.skipped = @ + 1])
  /\ UNCHANGED <<request, task, calendarLock, userLock, subscribed>>

\* Graph answers, or fails or takes longer than its 90 seconds, which rolls back.
GraphAnswers(r) ==
  /\ TaskAt(r, "reading")
  /\ \/ task' = [task EXCEPT ![r].pc = "saving"] /\ UNCHANGED userLock
     \/ task' = [task EXCEPT ![r].pc = "noting"] /\ userLock' = UserRowsWithout({r})
  /\ UNCHANGED <<run, outcome, request, calendarLock, subscribed>>

\* Mutant: the calendar is committed on its own, before the counters.
SaveUser_CountsLater(r) ==
  LET u == task[r].user IN
  /\ TaskAt(r, "saving")
  /\ \/ /\ Commit(r, u, "saved", [run[r] EXCEPT !.succeeded = @ + 1])
        /\ TaskTo(r, "next") /\ userLock' = UserRowsWithout({r}) /\ UNCHANGED calendarLock
     \/ Commit(r, u, "saved", run[r]) /\ Unwound(r)
  /\ UNCHANGED <<request, subscribed>>

SaveUser(r) ==
  /\ TaskAt(r, "saving")
  /\ Commit(r, task[r].user, "saved", [run[r] EXCEPT !.succeeded = @ + 1])
  /\ TaskTo(r, "next") /\ userLock' = UserRowsWithout({r})
  /\ UNCHANGED <<request, calendarLock, subscribed>>

NoteFailure(r) ==
  /\ TaskAt(r, "noting")
  /\ Commit(r, task[r].user, "failed", [run[r] EXCEPT !.failed = @ + 1])
  /\ TaskTo(r, "next")
  /\ UNCHANGED <<request, calendarLock, userLock, subscribed>>

-----------------------------------------------------------------------------
(* finish, mark_unknown, heartbeat.                                        *)

\* Mutant: a result is overwritten, and its slot taken again, by a later cleanup failure.
Finished_Overwrites(row, status) ==
  [row EXCEPT !.status = status, !.fresh = TRUE, !.slot = (status = "unknown")]

\* Mutant: an unknown outcome frees the slot.
Finished_FreesSlot(row, status) ==
  IF row.status \in Results THEN row
  ELSE [row EXCEPT !.status = status, !.fresh = TRUE, !.slot = FALSE]

\* finish: a result is kept, and an unknown outcome keeps the slot.
Finished(row, status) ==
  IF row.status \in Results THEN row
  ELSE [row EXCEPT !.status = status, !.fresh = TRUE, !.slot = (status = "unknown")]

\* Mutant: any failure makes the result partial.
Result_AlwaysPartial(row) == IF row.failed > 0 THEN "partial" ELSE "success"

\* The task counts as the row does: it only gets here if every commit succeeded.
Result(row) ==
  CASE row.failed > 0 /\ row.succeeded > 0 -> "partial"
    [] row.failed > 0 /\ row.succeeded = 0 -> "failed"
    [] OTHER -> "success"

FinishRun(r) ==
  /\ TaskAt(r, "next") /\ Todo(r) = {}
  /\ run' = [run EXCEPT ![r] = Finished(@, Result(@))]
  /\ TaskTo(r, "leaving")
  /\ UNCHANGED <<outcome, request, calendarLock, userLock, subscribed>>

\* The end of exclusive_sync, which raises when its session is gone.
LeaveRun(r) ==
  /\ TaskAt(r, "leaving")
  /\ \/ task' = [task EXCEPT ![r] = NoTask]
     \/ TaskTo(r, "marking")
  /\ calendarLock' = WithoutHolders({r})
  /\ UNCHANGED <<run, outcome, request, userLock, subscribed>>

\* Mutant: the finished task stays registered.
MarkUnknown_KeepsTask(r) ==
  /\ TaskAt(r, "marking")
  /\ run' = [run EXCEPT ![r] = Finished(@, "unknown")] \/ UNCHANGED run
  /\ TaskTo(r, "none")
  /\ UNCHANGED <<outcome, request, calendarLock, userLock, subscribed>>

\* mark_unknown, or its failure, which leaves the row to grow stale.
MarkUnknown(r) ==
  /\ TaskAt(r, "marking")
  /\ run' = [run EXCEPT ![r] = Finished(@, "unknown")] \/ UNCHANGED run
  /\ task' = [task EXCEPT ![r] = NoTask]
  /\ UNCHANGED <<outcome, request, calendarLock, userLock, subscribed>>

\* The 15 minutes are over, the heartbeat or the database failed, the process shuts down,
\* or the acknowledgement of the commit just made was lost.
Interrupt(r) ==
  /\ task[r].pc \in Working \cup {"started", "leaving"}
  /\ Unwound(r)
  /\ UNCHANGED <<run, outcome, request, subscribed>>

Heartbeat(r) ==
  /\ task[r].pc \in Working \cup {"marking"} /\ run[r].status = "running"
  /\ run' = [run EXCEPT ![r].fresh = TRUE]
  /\ UNCHANGED <<outcome, request, task, calendarLock, userLock, subscribed>>

\* A minute passes without a heartbeat.
Stale(r) ==
  /\ run[r].status \in {"queued", "running"} /\ run[r].fresh
  /\ run' = [run EXCEPT ![r].fresh = FALSE]
  /\ UNCHANGED <<outcome, request, task, calendarLock, userLock, subscribed>>

\* Mutant: the heartbeat does not count.
Shown_AsStored(r) == run[r].status

\* projection: what the administrator sees.
Shown(r) ==
  IF run[r].status \in {"queued", "running"} /\ ~run[r].fresh THEN "unknown" ELSE run[r].status

-----------------------------------------------------------------------------
(* Processes, sessions, users and the earlier release.                     *)

TasksOf(p) == {r \in Runs : task[r].proc = p}

\* The process ends, orderly or not, with all it had in memory, and starts again.
Crash(p) ==
  /\ ~RequestAt(p, "idle") \/ TasksOf(p) # {}
  /\ task' = [r \in Runs |-> IF r \in TasksOf(p) THEN NoTask ELSE task[r]]
  /\ calendarLock' = WithoutHolders(TasksOf(p) \cup {p})
  /\ userLock' = UserRowsWithout(TasksOf(p))
  /\ Answer(p)
  /\ UNCHANGED <<run, outcome, subscribed>>

\* The session holding the advisory lock dies and the run goes on.
LockLost(r) ==
  /\ calendarLock = r
  /\ calendarLock' = Nobody
  /\ UNCHANGED <<run, outcome, request, task, userLock, subscribed>>

\* Mutant: the opt-out does not take the row lock.
Unsubscribe_NoLock(u) ==
  /\ subscribed[u]
  /\ subscribed' = [subscribed EXCEPT ![u] = FALSE]
  /\ UNCHANGED <<run, outcome, request, task, calendarLock, userLock>>

\* The opt-out waits for the row.
Unsubscribe(u) ==
  /\ subscribed[u] /\ userLock[u] = Nobody
  /\ subscribed' = [subscribed EXCEPT ![u] = FALSE]
  /\ UNCHANGED <<run, outcome, request, task, calendarLock, userLock>>

Subscribe(u) ==
  /\ ~subscribed[u] /\ userLock[u] = Nobody
  /\ subscribed' = [subscribed EXCEPT ![u] = TRUE]
  /\ UNCHANGED <<run, outcome, request, task, calendarLock, userLock>>

LegacySync ==
  /\ \/ calendarLock = Nobody /\ calendarLock' = Legacy
     \/ calendarLock = Legacy /\ calendarLock' = Nobody
  /\ UNCHANGED <<run, outcome, request, task, userLock, subscribed>>

Proceed(r) ==
  \/ LockRun(r) \/ StartRun(r) \/ Snapshot(r) \/ GraphAnswers(r) \/ SaveUser(r)
  \/ NoteFailure(r) \/ FinishRun(r) \/ LeaveRun(r) \/ MarkUnknown(r)
  \/ \E u \in Users : ReadUser(r, u) \/ SkipUser(r, u)

\* What administrators and users ask for.
Ask ==
  \/ \E p \in Procs, r \in Runs : Submit(p, r)
  \/ \E u \in Users : Subscribe(u)

\* What becomes of it, and what else happens.
Go ==
  \/ \E p \in Procs : \/ LockSubmission(p) \/ Insert(p) \/ Accept(p)
                      \/ SubmitFails(p) \/ Crash(p)
  \/ \E r \in Runs : Proceed(r) \/ Interrupt(r) \/ Heartbeat(r) \/ Stale(r) \/ LockLost(r)
  \/ \E u \in Users : Unsubscribe(u)
  \/ LegacySync

Next == Ask \/ Go

Spec == Init /\ [][Next]_vars

\* A task that nothing stops goes on, and time passes.
Fairness == \A r \in Runs : WF_vars(Proceed(r)) /\ WF_vars(Stale(r))

FairSpec == Spec /\ Fairness

-----------------------------------------------------------------------------
(* Properties.                                                             *)

CountOf(r, how) == Cardinality({u \in Users : outcome[r][u] = how})

\* Every variable stays in its domain, and a task without a process is no task.
TypeOK ==
  /\ run \in [Runs -> RunRow]
  /\ outcome \in [Runs -> [Users -> Outcomes]]
  /\ request \in [Procs -> Request]
  /\ task \in [Runs -> Task]
  /\ calendarLock \in Procs \cup Runs \cup {Legacy, Nobody}
  /\ userLock \in [Users -> Runs \cup {Nobody}]
  /\ subscribed \in [Users -> BOOLEAN]
  /\ \A p \in Procs : RequestAt(p, "idle") <=> request[p].run = Nobody
  /\ \A r \in Runs : TaskAt(r, "none") <=> task[r].proc = Nobody

\* Two runs never read calendars at the same time, not even when the session holding the
\* advisory lock is lost and several API processes take submissions (models.py:115, "One
\* explicit operation").
OneRunWorks ==
  \A r, s \in Runs : task[r].pc \in Working /\ task[s].pc \in Working => r = s

\* A run whose outcome nobody knows is never followed by another one: users it may have
\* committed are not synchronized again behind the administrator's back
\* (calendar_runs.py:121, "Unknown retains the singleton slot").
UnknownBlocks ==
  [][\A r, s \in Runs :
       r # s /\ run[r].status # "running" /\ run'[r].status = "running"
         => run[s].status \in Results \cup {"absent"}]_vars

\* A durable result survives everything that still goes wrong, a failing release of the
\* lock included (calendar_runs.py:116, "cannot erase an already durable result").
ResultIsFinal ==
  [][\A r \in Runs : run[r].status \in Results => run'[r] = run[r]]_vars

\* The counters an administrator sees are exactly what was committed for the users,
\* wherever the run stopped (calendar_runs.py:99, "in the SAME transaction").
CountsAreCommitted ==
  \A r \in Runs : /\ run[r].succeeded = CountOf(r, "saved")
                  /\ run[r].failed = CountOf(r, "failed")
                  /\ run[r].skipped = CountOf(r, "skipped")

\* A result speaks for every subscriber of the snapshot: none is left over, success means
\* that no read failed, partial that some did and some did not, failed that all did.
ResultIsHonest ==
  \A r \in Runs : run[r].status \in Results =>
    /\ Todo(r) = {}
    /\ run[r].status = "success" <=> CountOf(r, "failed") = 0
    /\ run[r].status = "failed" <=> CountOf(r, "failed") > 0 /\ CountOf(r, "saved") = 0

\* Graph is never asked for the calendar of somebody who has opted out
\* (calendar_sync.py:66, "an opt-out cannot race this read").
OptOutRespected ==
  \A r \in Runs : TaskAt(r, "reading") \/ TaskAt(r, "saving") => subscribed[task[r].user]

\* An accepted run does not look busy for ever, even if its process died at once.
RunsSettle ==
  \A r \in Runs : run[r].status # "absent" ~> [](Shown(r) \notin {"queued", "running"})

-----------------------------------------------------------------------------
(* What the synchronization promises, in terms of OneCalendarRun.          *)

Statuses == [r \in Runs |-> run[r].status]

Promise == INSTANCE OneCalendarRun WITH
  People <- Users, Known <- Linked, state <- Statuses, fate <- outcome, wants <- subscribed

\* Whatever crashes, loses its lock or is submitted at once, the runs are those of one
\* executor that takes them one by one, stops for good when it cannot tell what it has
\* committed (calendar_runs.py:121, "Unknown retains the singleton slot"), and whose results
\* say what became of every subscriber.
ImplementsPromise == Promise!Spec
=============================================================================
