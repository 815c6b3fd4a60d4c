-------------------------- MODULE CalendarRunsProofs --------------------------
(***************************************************************************)
(* What CalendarRuns guarantees for any number of runs, API processes and  *)
(* users.  The inductive invariant says who holds the singleton slot, what *)
(* a task's stage says of its row, and that a request about to create a    *)
(* task has inserted a row nobody executes yet.                            *)
(***************************************************************************)
EXTENDS CalendarRuns, FiniteSetTheorems, TLAPS

Open == {"queued", "running", "unknown"}

\* The slot is held by exactly the unresolved runs, and by one at most.
Slots ==
  /\ \A r \in Runs : run[r].slot <=> run[r].status \in Open
  /\ \A r, s \in Runs : run[r].slot /\ run[s].slot => r = s

\* What the stage of a task says of the row it executes.
Stage(r) ==
  /\ task[r].pc \in {"started", "locked"} => run[r].status = "queued"
  /\ task[r].pc \in Working \ {"locked"} => run[r].status = "running"
  /\ TaskAt(r, "leaving") => run[r].status \in Results
  /\ ~TaskAt(r, "none") => run[r].status # "absent"
Stages == \A r \in Runs : Stage(r)

\* A request that inserted a row is alone with it until it creates the task.
Inserted ==
  /\ \A p \in Procs : RequestAt(p, "inserted") =>
       /\ run[request[p].run].status = "queued"
       /\ TaskAt(request[p].run, "none")
  /\ \A p, q \in Procs :
       RequestAt(p, "inserted") /\ RequestAt(q, "inserted") /\ request[p].run = request[q].run
         => p = q

\* The row of the user a task works on: locked and subscribed while Graph is asked.
Holding(r, u) == userLock[u] = r /\ subscribed[u]
ReadingOf(r) ==
  /\ TaskAt(r, "reading") \/ TaskAt(r, "saving") => Holding(r, task[r].user)
  /\ task[r].pc \in {"reading", "saving", "noting"} => task[r].user \in Todo(r)
Reading == \A r \in Runs : ReadingOf(r)

IInv == TypeOK /\ Slots /\ Stages /\ Inserted /\ Reading

-----------------------------------------------------------------------------
(* Types.                                                                  *)

\* The initial states satisfy the invariant.
LEMMA InvInit == Init => IInv
  BY NobodyIsNobody DEF Init, IInv, TypeOK, Slots, Stages, Stage, Inserted, Reading, ReadingOf, Todo,
     Open,      RunRow, AbsentRun, Results, Outcomes, Request, NoRequest, Task, NoTask, Working,
     RequestAt, TaskAt

\* Releasing locks keeps the lock variables in their domains.
LEMMA ReleaseTypes ==
  ASSUME TypeOK, NEW H
  PROVE  /\ WithoutHolders(H) \in Procs \cup Runs \cup {Legacy, Nobody}
         /\ UserRowsWithout(H) \in [Users -> Runs \cup {Nobody}]
  BY DEF TypeOK, WithoutHolders, UserRowsWithout

\* finish keeps a row a row.
LEMMA FinishedRow ==
  ASSUME NEW row \in RunRow, NEW status \in Results \cup {"unknown"}
  PROVE  Finished(row, status) \in RunRow
  BY DEF Finished, RunRow, Results

\* The part of TypeOK that speaks of requests.
RequestTyped ==
  /\ request \in [Procs -> Request]
  /\ \A p \in Procs : RequestAt(p, "idle") <=> request[p].run = Nobody

\* Answering a request, or moving it on, keeps that part.
LEMMA AnswerTypes ==
  ASSUME TypeOK, NEW p \in Procs, Answer(p)
  PROVE  RequestTyped'
  BY DEF TypeOK, Answer, NoRequest, Request, RequestAt, RequestTyped

LEMMA MoveTypes ==
  ASSUME TypeOK, NEW p \in Procs, ~RequestAt(p, "idle"), NEW pc \in {"clear", "locked", "inserted"},
         request' = [request EXCEPT ![p].pc = pc]
  PROVE  RequestTyped'
<1>1. request[p].run # Nobody
  BY DEF TypeOK
<1>2. request' \in [Procs -> Request]
  BY DEF TypeOK, Request
<1>3. \A q \in Procs : RequestAt(q, "idle")' <=> request'[q].run = Nobody
  BY <1>1 DEF TypeOK, Request, RequestAt
<1>4. QED BY <1>2, <1>3 DEF RequestTyped

\* What one process does with its submission keeps the types.
LEMMA RequestTypes ==
  ASSUME IInv, NEW p \in Procs, Accept(p) \/ SubmitFails(p) \/ LockSubmission(p) \/ Insert(p)
                               \/ Crash(p) \/ \E r \in Runs : Submit(p, r)
  PROVE  TypeOK'
<1>0. TypeOK
  BY DEF IInv
<1>1. CASE \E r \in Runs : Submit(p, r)
  BY <1>0, <1>1, NobodyIsNobody DEF Submit, TypeOK, Request, RequestAt, TaskAt
<1>2. CASE LockSubmission(p)
  <2>1. RequestTyped'
    BY <1>0, <1>2, AnswerTypes, MoveTypes DEF LockSubmission, RequestAt
  <2>2. QED BY <1>0, <1>2, <2>1 DEF LockSubmission, TypeOK, RequestTyped, TaskAt
<1>3. CASE Insert(p)
  <2>1. RequestTyped'
    BY <1>0, <1>3, AnswerTypes, MoveTypes DEF Insert, RequestAt
  <2>2. QueuedRun \in RunRow
    BY DEF QueuedRun, AbsentRun, RunRow, Results
  <2>3. run' \in [Runs -> RunRow] /\ calendarLock' \in Procs \cup Runs \cup {Legacy, Nobody}
    BY <1>0, <1>3, <2>2, ReleaseTypes DEF Insert, TypeOK
  <2>4. QED BY <1>0, <1>3, <2>1, <2>3 DEF Insert, TypeOK, RequestTyped, TaskAt
<1>4. CASE Accept(p)
  <2>1. RequestTyped'
    BY <1>0, <1>4, AnswerTypes DEF Accept
  <2> DEFINE started == [NoTask EXCEPT !.pc = "started", !.proc = p]
  <2>2. started \in Task /\ started.proc # Nobody /\ started.pc # "none"
    BY NobodyIsNobody DEF NoTask, Task
  <2>3. task' \in [Runs -> Task] /\ \A r \in Runs : TaskAt(r, "none")' <=> task'[r].proc = Nobody
    BY <1>0, <1>4, <2>2 DEF Accept, TypeOK, TaskAt
  <2>4. QED BY <1>0, <1>4, <2>1, <2>3, ReleaseTypes DEF Accept, TypeOK, RequestTyped
<1>5. CASE SubmitFails(p)
  <2>1. RequestTyped'
    BY <1>0, <1>5, AnswerTypes DEF SubmitFails
  <2>2. QED BY <1>0, <1>5, <2>1, ReleaseTypes DEF SubmitFails, TypeOK, RequestTyped, TaskAt
<1>6. CASE Crash(p)
  <2>1. RequestTyped'
    BY <1>0, <1>6, AnswerTypes DEF Crash
  <2>2. task' \in [Runs -> Task] /\ \A r \in Runs : TaskAt(r, "none")' <=> task'[r].proc = Nobody
    BY <1>0, <1>6 DEF Crash, TypeOK, TaskAt, NoTask, Task
  <2>3. QED BY <1>0, <1>6, <2>1, <2>2, ReleaseTypes DEF Crash, TypeOK, RequestTyped
<1>7. QED BY <1>1, <1>2, <1>3, <1>4, <1>5, <1>6

\* The part of TypeOK that speaks of tasks, and how a task moves without losing it.
TaskTyped ==
  /\ task \in [Runs -> Task]
  /\ \A r \in Runs : TaskAt(r, "none") <=> task[r].proc = Nobody

LEMMA TaskToTypes ==
  ASSUME TypeOK, NEW r \in Runs, ~TaskAt(r, "none"),
         NEW pc \in {"leaving", "marking"} \cup Working, TaskTo(r, pc)
  PROVE  TaskTyped'
<1>1. [task[r] EXCEPT !.pc = pc, !.user = Nobody] \in Task
  <2>1. ASSUME NEW state \in Task PROVE [state EXCEPT !.pc = pc, !.user = Nobody] \in Task
    BY DEF Task
  <2>2. QED BY <2>1 DEF TypeOK
<1>a. task' \in [Runs -> Task]
  BY <1>1 DEF TypeOK, TaskTo
<1>2. \A s \in Runs : TaskAt(s, "none")' <=> task'[s].proc = Nobody
  BY DEF TypeOK, TaskTo, Task, TaskAt, Working
<1>3. QED BY <1>a, <1>2 DEF TaskTyped

LEMMA TaskEndTypes ==
  ASSUME TypeOK, NEW r \in Runs, task' = [task EXCEPT ![r] = NoTask]
  PROVE  TaskTyped'
  BY DEF TypeOK, NoTask, Task, TaskAt, TaskTyped

\* A commit for one user keeps the rows rows.
LEMMA CommitTypes ==
  ASSUME TypeOK, NEW r \in Runs, NEW u \in Users, NEW how \in Outcomes, NEW row \in RunRow,
         Commit(r, u, how, row)
  PROVE  run' \in [Runs -> RunRow] /\ outcome' \in [Runs -> [Users -> Outcomes]]
<1>1. [row EXCEPT !.fresh = TRUE] \in RunRow
  BY DEF RunRow
<1>2. QED BY <1>1 DEF TypeOK, Commit

\* What a task does keeps the types.
LEMMA TaskTypes ==
  ASSUME IInv, NEW r \in Runs, Proceed(r)
  PROVE  TypeOK'
<1>0. TypeOK
  BY DEF IInv
<1> DEFINE row == run[r]
<1>r. row \in RunRow /\ row.succeeded \in Nat /\ row.failed \in Nat /\ row.skipped \in Nat
  BY <1>0 DEF TypeOK, RunRow
<1>1. CASE LockRun(r)
  <2>1. CASE calendarLock = Nobody
    <3>1. TaskTyped'
      BY <1>0, <1>1, <2>1, TaskToTypes DEF LockRun, TaskAt, Working
    <3>2. QED BY <1>0, <1>1, <2>1, <3>1 DEF LockRun, TypeOK, TaskTyped, RequestAt
  <2>2. CASE calendarLock # Nobody
    <3> DEFINE busy == [task[r] EXCEPT !.pc = "marking"]
    <3>1. /\ task' = [task EXCEPT ![r] = busy] /\ busy \in Task
          /\ busy.pc = "marking" /\ busy.proc = task[r].proc
      BY <1>0, <1>1, <2>2 DEF LockRun, TypeOK, Task
    <3>2. task' \in [Runs -> Task] /\ \A s \in Runs : TaskAt(s, "none")' <=> task'[s].proc = Nobody
      <4> HIDE DEF busy
      <4> QED BY <1>0, <1>1, <3>1 DEF LockRun, TypeOK, TaskAt
    <3>3. QED BY <1>0, <1>1, <2>2, <3>2 DEF LockRun, TypeOK, RequestAt
  <2>3. QED BY <2>1, <2>2
<1>2. CASE StartRun(r)
  <2>1. TaskTyped'
    BY <1>0, <1>2, TaskToTypes DEF StartRun, TaskAt, Working
  <2>2. run' \in [Runs -> RunRow]
    <3>1. [row EXCEPT !.status = "running", !.fresh = TRUE] \in RunRow
      BY <1>r DEF RunRow
    <3>2. QED BY <1>0, <1>2, <3>1 DEF StartRun, TypeOK
  <2>3. QED BY <1>0, <1>2, <2>1, <2>2 DEF StartRun, TypeOK, TaskTyped, RequestAt
<1>3. CASE Snapshot(r)
  <2>1. TaskTyped'
    BY <1>0, <1>3, TaskToTypes DEF Snapshot, TaskAt, Working
  <2>2. outcome' \in [Runs -> [Users -> Outcomes]]
    BY <1>0, <1>3 DEF Snapshot, TypeOK, Outcomes
  <2>3. QED BY <1>0, <1>3, <2>1, <2>2 DEF Snapshot, TypeOK, TaskTyped, RequestAt
<1>4. CASE GraphAnswers(r)
  <2>1. PICK pc \in {"saving", "noting"} : task' = [task EXCEPT ![r].pc = pc]
    BY <1>4 DEF GraphAnswers
  <2>a. [task[r] EXCEPT !.pc = pc] \in Task
    BY <1>0 DEF TypeOK, Task, Working
  <2>2. task' \in [Runs -> Task]
    BY <1>0, <2>1, <2>a DEF TypeOK
  <2>3. \A s \in Runs : TaskAt(s, "none")' <=> task'[s].proc = Nobody
    BY <1>0, <1>4, <2>1 DEF GraphAnswers, TypeOK, Task, TaskAt
  <2>4. QED BY <1>0, <1>4, <2>2, <2>3, ReleaseTypes DEF GraphAnswers, TypeOK, RequestAt
<1>5. CASE SaveUser(r)
  <2>1. task[r].user \in Users
    BY <1>5 DEF IInv, Reading, ReadingOf, SaveUser, TaskAt, Todo
  <2>2. TaskTyped'
    BY <1>0, <1>5, TaskToTypes DEF SaveUser, TaskAt, Working
  <2>3. [row EXCEPT !.succeeded = @ + 1] \in RunRow
    BY <1>r DEF RunRow
  <2>4. run' \in [Runs -> RunRow] /\ outcome' \in [Runs -> [Users -> Outcomes]]
    BY <1>0, <1>5, <2>1, <2>3, CommitTypes DEF SaveUser, Outcomes
  <2>5. QED BY <1>0, <1>5, <2>2, <2>4, ReleaseTypes DEF SaveUser, TypeOK, TaskTyped, RequestAt
<1>6. CASE NoteFailure(r)
  <2>1. task[r].user \in Users
    BY <1>6 DEF IInv, Reading, ReadingOf, NoteFailure, TaskAt, Todo
  <2>2. TaskTyped'
    BY <1>0, <1>6, TaskToTypes DEF NoteFailure, TaskAt, Working
  <2>3. [row EXCEPT !.failed = @ + 1] \in RunRow
    BY <1>r DEF RunRow
  <2>4. run' \in [Runs -> RunRow] /\ outcome' \in [Runs -> [Users -> Outcomes]]
    BY <1>0, <1>6, <2>1, <2>3, CommitTypes DEF NoteFailure, Outcomes
  <2>5. QED BY <1>0, <1>6, <2>2, <2>4 DEF NoteFailure, TypeOK, TaskTyped, RequestAt
<1>7. CASE FinishRun(r)
  <2>1. TaskTyped'
    BY <1>0, <1>7, TaskToTypes DEF FinishRun, TaskAt
  <2>2. Finished(row, Result(row)) \in RunRow
    BY <1>r, FinishedRow DEF Result, Results
  <2>3. QED BY <1>0, <1>7, <2>1, <2>2 DEF FinishRun, TypeOK, TaskTyped, RequestAt
<1>8. CASE LeaveRun(r)
  <2>1. TaskTyped'
    BY <1>0, <1>8, TaskToTypes, TaskEndTypes DEF LeaveRun, TaskAt
  <2>2. QED BY <1>0, <1>8, <2>1, ReleaseTypes DEF LeaveRun, TypeOK, TaskTyped, RequestAt
<1>9. CASE MarkUnknown(r)
  <2>1. TaskTyped'
    BY <1>0, <1>9, TaskEndTypes DEF MarkUnknown
  <2>2. Finished(row, "unknown") \in RunRow
    BY <1>r, FinishedRow
  <2>3. QED BY <1>0, <1>9, <2>1, <2>2 DEF MarkUnknown, TypeOK, TaskTyped, RequestAt
<1>10. CASE \E u \in Users : ReadUser(r, u)
  <2>1. task' \in [Runs -> Task]
    <3>1. PICK u \in Users : ReadUser(r, u)
      BY <1>10
    <3>2. [task[r] EXCEPT !.pc = "reading", !.user = u] \in Task
      BY <1>0 DEF TypeOK, Task, Working
    <3>3. QED BY <1>0, <3>1, <3>2 DEF ReadUser, TypeOK
  <2>2. \A s \in Runs : TaskAt(s, "none")' <=> task'[s].proc = Nobody
    BY <1>0, <1>10 DEF ReadUser, TypeOK, Task, TaskAt
  <2>3. QED BY <1>0, <1>10, <2>1, <2>2 DEF ReadUser, TypeOK, RequestAt
<1>11. CASE \E u \in Users : SkipUser(r, u)
  <2>1. [row EXCEPT !.skipped = @ + 1] \in RunRow
    BY <1>r DEF RunRow
  <2>2. run' \in [Runs -> RunRow] /\ outcome' \in [Runs -> [Users -> Outcomes]]
    BY <1>0, <1>11, <2>1, CommitTypes DEF SkipUser, Outcomes
  <2>3. QED BY <1>0, <1>11, <2>2 DEF SkipUser, TypeOK, RequestAt, TaskAt
<1>12. QED
  BY <1>1, <1>2, <1>3, <1>4, <1>5, <1>6, <1>7, <1>8, <1>9, <1>10, <1>11 DEF Proceed

\* Time, users and the rest keep the types.
LEMMA TypeStep == IInv /\ [Next]_vars => TypeOK'
<1> SUFFICES ASSUME IInv, [Next]_vars PROVE TypeOK'
  OBVIOUS
<1>0. TypeOK
  BY DEF IInv
<1>1. CASE \E p \in Procs : \/ Accept(p) \/ SubmitFails(p) \/ LockSubmission(p) \/ Insert(p)
                           \/ Crash(p) \/ \E r \in Runs : Submit(p, r)
  BY <1>1, RequestTypes
<1>2. CASE \E r \in Runs : Proceed(r)
  BY <1>2, TaskTypes
<1>3. ASSUME NEW r \in Runs, Interrupt(r) PROVE TypeOK'
  <2>1. TaskTyped' /\ calendarLock' = WithoutHolders({r}) /\ userLock' = UserRowsWithout({r})
    BY <1>0, <1>3, TaskToTypes DEF Interrupt, Unwound, TaskAt, Working
  <2>2. QED BY <1>0, <1>3, <2>1, ReleaseTypes DEF Interrupt, TypeOK, TaskTyped, RequestAt
<1>4. ASSUME NEW r \in Runs, Heartbeat(r) \/ Stale(r) PROVE TypeOK'
  <2>1. \A fresh \in BOOLEAN : [run[r] EXCEPT !.fresh = fresh] \in RunRow
    BY <1>0 DEF TypeOK, RunRow
  <2>2. run' \in [Runs -> RunRow]
    BY <1>0, <1>4, <2>1 DEF Heartbeat, Stale, TypeOK
  <2>3. QED BY <1>0, <1>4, <2>2 DEF Heartbeat, Stale, TypeOK, RequestAt, TaskAt
<1>5. ASSUME NEW r \in Runs, LockLost(r) PROVE TypeOK'
  BY <1>0, <1>5 DEF LockLost, TypeOK, RequestAt, TaskAt
<1>6. ASSUME NEW u \in Users, Unsubscribe(u) \/ Subscribe(u) PROVE TypeOK'
  BY <1>0, <1>6 DEF Unsubscribe, Subscribe, TypeOK, RequestAt, TaskAt
<1>7. CASE LegacySync
  BY <1>0, <1>7 DEF LegacySync, TypeOK, RequestAt, TaskAt
<1>8. CASE UNCHANGED vars
  BY <1>0, <1>8 DEF vars, TypeOK, RequestAt, TaskAt
<1>9. QED
  BY <1>1, <1>2, <1>3, <1>4, <1>5, <1>6, <1>7, <1>8 DEF Next, Ask, Go

-----------------------------------------------------------------------------
(* Rows and their slot.                                                    *)

\* One row changes: it takes the slot only if it had it or nobody has it.
LEMMA SlotsLocal ==
  ASSUME IInv, NEW r \in Runs, NEW row, run' = [run EXCEPT ![r] = row],
         row.slot <=> row.status \in Open,
         row.slot => run[r].slot \/ ~SlotTaken
  PROVE  Slots'
  BY DEF IInv, TypeOK, Slots, SlotTaken

\* A finished row, of a run that had the slot or a result.
LEMMA FinishedSlots ==
  ASSUME IInv, NEW r \in Runs, run[r].status # "absent", NEW status \in Results \cup {"unknown"},
         run' = [run EXCEPT ![r] = Finished(@, status)]
  PROVE  Slots'
<1> DEFINE row == Finished(run[r], status)
<1>1. run[r] \in RunRow /\ (run[r].slot <=> run[r].status \in Open)
  BY DEF IInv, TypeOK, Slots
<1>2. (row.slot <=> row.status \in Open) /\ (row.slot => run[r].slot)
  BY <1>1 DEF Finished, RunRow, Results, Open
<1>3. run' = [run EXCEPT ![r] = row]
  OBVIOUS
<1> HIDE DEF row
<1>4. QED BY <1>2, <1>3, SlotsLocal

\* A commit leaves the status and the slot alone.
LEMMA CommitSlots ==
  ASSUME IInv, NEW r \in Runs, NEW u, NEW how, NEW row \in RunRow, Commit(r, u, how, row),
         row.status = run[r].status, row.slot = run[r].slot
  PROVE  Slots'
<1> DEFINE new == [row EXCEPT !.fresh = TRUE]
<1>1. new.status = run[r].status /\ new.slot = run[r].slot /\ run' = [run EXCEPT ![r] = new]
  BY DEF RunRow, Commit
<1> HIDE DEF new
<1>2. QED BY <1>1, SlotsLocal DEF IInv, Slots

LEMMA SlotsStep == IInv /\ [Next]_vars => Slots'
<1> SUFFICES ASSUME IInv, [Next]_vars PROVE Slots'
  OBVIOUS
<1>0. /\ Slots /\ Stages
      /\ \A r \in Runs : run[r] \in RunRow
  BY DEF IInv, TypeOK
<1>1. CASE UNCHANGED run
  BY <1>0, <1>1 DEF Slots
<1>2. ASSUME NEW p \in Procs, Insert(p), ~UNCHANGED run PROVE Slots'
  <2>1. /\ request[p].run \in Runs /\ ~SlotTaken
        /\ run' = [run EXCEPT ![request[p].run] = QueuedRun]
    BY <1>2 DEF IInv, TypeOK, Request, Insert, Rejected, RequestAt
  <2>2. QueuedRun.slot /\ QueuedRun.status \in Open
    BY DEF QueuedRun, AbsentRun, Open
  <2>3. QED BY <2>1, <2>2, SlotsLocal
<1>3. ASSUME NEW r \in Runs, StartRun(r) PROVE Slots'
  <2> DEFINE row == [run[r] EXCEPT !.status = "running", !.fresh = TRUE]
  <2>1. row.status = "running" /\ row.slot = run[r].slot
    BY <1>0 DEF RunRow
  <2>2. run[r].status = "queued" /\ run' = [run EXCEPT ![r] = row]
    BY <1>0, <1>3 DEF StartRun, Stages, Stage, TaskAt
  <2> HIDE DEF row
  <2>3. QED BY <1>0, <2>1, <2>2, SlotsLocal DEF Slots, Open
<1>4. ASSUME NEW r \in Runs, SaveUser(r) \/ NoteFailure(r) \/ \E u \in Users : SkipUser(r, u)
      PROVE  Slots'
  <2>1. /\ [run[r] EXCEPT !.succeeded = @ + 1] \in RunRow
        /\ [run[r] EXCEPT !.failed = @ + 1] \in RunRow
        /\ [run[r] EXCEPT !.skipped = @ + 1] \in RunRow
    BY <1>0 DEF RunRow
  <2>2. /\ [run[r] EXCEPT !.succeeded = @ + 1].status = run[r].status
        /\ [run[r] EXCEPT !.failed = @ + 1].status = run[r].status
        /\ [run[r] EXCEPT !.skipped = @ + 1].status = run[r].status
        /\ [run[r] EXCEPT !.succeeded = @ + 1].slot = run[r].slot
        /\ [run[r] EXCEPT !.failed = @ + 1].slot = run[r].slot
        /\ [run[r] EXCEPT !.skipped = @ + 1].slot = run[r].slot
    BY <1>0 DEF RunRow
  <2>3. QED BY <1>4, <2>1, <2>2, CommitSlots DEF SaveUser, NoteFailure, SkipUser
<1>5. ASSUME NEW r \in Runs, FinishRun(r) PROVE Slots'
  <2>1. run[r].status # "absent"
    BY <1>0, <1>5 DEF FinishRun, Stages, Stage, TaskAt
  <2>2. Result(run[r]) \in Results
    BY DEF Result, Results
  <2>3. QED BY <1>5, <2>1, <2>2, FinishedSlots DEF FinishRun
<1>6. ASSUME NEW r \in Runs, MarkUnknown(r) PROVE Slots'
  <2>1. run[r].status # "absent"
    BY <1>0, <1>6 DEF MarkUnknown, Stages, Stage, TaskAt
  <2>2. QED BY <1>1, <1>6, <2>1, FinishedSlots DEF MarkUnknown
<1>7. ASSUME NEW r \in Runs, Heartbeat(r) \/ Stale(r) PROVE Slots'
  <2>1. PICK fresh \in BOOLEAN : run' = [run EXCEPT ![r].fresh = fresh]
    BY <1>7 DEF Heartbeat, Stale
  <2> DEFINE row == [run[r] EXCEPT !.fresh = fresh]
  <2>2. row.status = run[r].status /\ row.slot = run[r].slot /\ run' = [run EXCEPT ![r] = row]
    BY <1>0, <2>1 DEF RunRow
  <2> HIDE DEF row
  <2>3. QED BY <1>0, <2>2, SlotsLocal DEF Slots
<1>8. QED
  BY <1>1, <1>2, <1>3, <1>4, <1>5, <1>6, <1>7
     DEF Next, Ask, Go, vars, Proceed, Submit, LockSubmission, Insert, Accept, SubmitFails, Crash, LockRun,
         Snapshot, GraphAnswers, LeaveRun, ReadUser, Interrupt, LockLost, Unsubscribe,
         Subscribe, LegacySync

-----------------------------------------------------------------------------
(* Tasks and their rows.                                                   *)

\* One run's task and row change.
LEMMA StagesLocal ==
  ASSUME IInv, NEW r \in Runs,
         \A s \in Runs \ {r} : run'[s] = run[s] /\ task'[s] = task[s],
         Stage(r)'
  PROVE  Stages'
<1>1. ASSUME NEW s \in Runs, s # r PROVE Stage(s)'
  <2>1. run'[s] = run[s] /\ task'[s] = task[s] /\ Stage(s)
    BY <1>1 DEF IInv, Stages
  <2>2. QED BY <2>1 DEF Stage, TaskAt
<1>2. QED BY <1>1 DEF Stages

\* What the commit of one user leaves of the row.
LEMMA CommitRow ==
  ASSUME IInv, NEW r \in Runs, NEW u \in Users,
         \/ Commit(r, u, "saved", [run[r] EXCEPT !.succeeded = @ + 1])
         \/ Commit(r, u, "failed", [run[r] EXCEPT !.failed = @ + 1])
         \/ Commit(r, u, "skipped", [run[r] EXCEPT !.skipped = @ + 1])
  PROVE  /\ run[r].status = "running" /\ run'[r].status = "running"
         /\ \A s \in Runs \ {r} : run'[s] = run[s] /\ outcome'[s] = outcome[s]
         /\ \A v \in Users \ {u} : outcome'[r][v] = outcome[r][v]
<1>1. /\ run \in [Runs -> RunRow] /\ outcome \in [Runs -> [Users -> Outcomes]]
      /\ run[r].status = "running"
  BY DEF IInv, TypeOK, Commit
<1> DEFINE more == {[run[r] EXCEPT !.succeeded = @ + 1], [run[r] EXCEPT !.failed = @ + 1],
                    [run[r] EXCEPT !.skipped = @ + 1]}
<1>a. \A row \in more : row \in RunRow /\ row.status = run[r].status
  BY <1>1 DEF RunRow
<1>b. \E how \in Outcomes, row \in more : Commit(r, u, how, row)
  BY DEF Outcomes
<1> HIDE DEF more
<1>2. PICK how \in Outcomes, row \in more :
        Commit(r, u, how, row) /\ row \in RunRow /\ row.status = run[r].status
  BY <1>a, <1>b
<1>3. [row EXCEPT !.fresh = TRUE].status = "running"
  BY <1>1, <1>2 DEF RunRow
<1>4. QED BY <1>1, <1>2, <1>3 DEF Commit

\* How a task goes on.
LEMMA MovedTask ==
  ASSUME IInv, NEW r \in Runs, NEW pc, TaskTo(r, pc)
  PROVE  task'[r].pc = pc /\ \A s \in Runs \ {r} : task'[s] = task[s]
  BY DEF IInv, TypeOK, Task, TaskTo

LEMMA StagesStep == IInv /\ [Next]_vars => Stages'
<1> SUFFICES ASSUME IInv, [Next]_vars PROVE Stages'
  OBVIOUS
<1>0. TypeOK /\ Stages
  BY DEF IInv
<1>1. CASE UNCHANGED <<run, task>>
  BY <1>0, <1>1 DEF Stages, Stage, TaskAt
<1>2. ASSUME NEW p \in Procs, Insert(p) PROVE Stages'
  <2>1. CASE UNCHANGED run
    BY <1>1, <1>2, <2>1 DEF Insert
  <2>2. CASE ~UNCHANGED run
    <3>1. PICK r \in Runs : /\ r = request[p].run /\ run[r].status = "absent"
                           /\ run' = [run EXCEPT ![r] = QueuedRun] /\ UNCHANGED task
      BY <1>0, <1>2, <2>2 DEF TypeOK, Request, Insert, Rejected, RequestAt
    <3>2. TaskAt(r, "none")
      BY <1>0, <3>1 DEF Stages, Stage
    <3>3. Stage(r)'
      BY <1>0, <3>1, <3>2 DEF TypeOK, Stage, TaskAt, Working, QueuedRun, AbsentRun
    <3>4. QED BY <1>0, <3>1, <3>3, StagesLocal DEF TypeOK
  <2>3. QED BY <2>1, <2>2
<1>3. ASSUME NEW p \in Procs, Accept(p) PROVE Stages'
  <2>1. PICK r \in Runs : r = request[p].run /\ run[r].status = "queued"
    BY <1>0, <1>3 DEF IInv, Inserted, TypeOK, Request, Accept, RequestAt
  <2>2. /\ UNCHANGED run /\ task'[r].pc = "started"
        /\ \A s \in Runs \ {r} : task'[s] = task[s]
    BY <1>0, <1>3, <2>1 DEF Accept, TypeOK, NoTask
  <2>3. Stage(r)'
    BY <2>1, <2>2 DEF Stage, TaskAt, Working
  <2>4. QED BY <2>1, <2>2, <2>3, StagesLocal
<1>4. ASSUME NEW p \in Procs, Crash(p) PROVE Stages'
  BY <1>0, <1>4 DEF Crash, Stages, Stage, TaskAt, NoTask, Working, TypeOK
<1>5. ASSUME NEW r \in Runs, LockRun(r) PROVE Stages'
  <2>1. UNCHANGED run /\ run[r].status = "queued"
    BY <1>0, <1>5 DEF LockRun, Stages, Stage, TaskAt
  <2>2. /\ task'[r].pc \in {"locked", "marking"}
        /\ \A s \in Runs \ {r} : task'[s] = task[s]
    <3>1. CASE calendarLock = Nobody
      BY <1>5, <3>1, MovedTask DEF LockRun
    <3>2. CASE calendarLock # Nobody
      BY <1>0, <1>5, <3>2 DEF LockRun, TypeOK, Task
    <3>3. QED BY <3>1, <3>2
  <2>3. QED BY <2>1, <2>2, StagesLocal DEF Stage, TaskAt, Working
<1>6. ASSUME NEW r \in Runs, StartRun(r) PROVE Stages'
  <2>1. /\ run'[r].status = "running" /\ task'[r].pc = "snapshot"
        /\ \A s \in Runs \ {r} : run'[s] = run[s] /\ task'[s] = task[s]
    BY <1>0, <1>6, MovedTask DEF StartRun, TypeOK, RunRow
  <2>2. QED BY <2>1, StagesLocal DEF Stage, TaskAt, Working
<1>7. ASSUME NEW r \in Runs, Snapshot(r) \/ GraphAnswers(r) \/ \E u \in Users : ReadUser(r, u)
      PROVE  Stages'
  <2>1. UNCHANGED run /\ run[r].status = "running"
    BY <1>0, <1>7 DEF Snapshot, GraphAnswers, ReadUser, Stages, Stage, TaskAt, Working
  <2>2. /\ task'[r].pc \in {"next", "saving", "noting", "reading"}
        /\ \A s \in Runs \ {r} : task'[s] = task[s]
    <3>1. CASE Snapshot(r)
      BY <3>1, MovedTask DEF Snapshot
    <3>2. CASE GraphAnswers(r)
      BY <1>0, <3>2 DEF GraphAnswers, TypeOK, Task
    <3>3. CASE \E u \in Users : ReadUser(r, u)
      BY <1>0, <3>3 DEF ReadUser, TypeOK, Task
    <3>4. QED BY <1>7, <3>1, <3>2, <3>3
  <2>3. QED BY <2>1, <2>2, StagesLocal DEF Stage, TaskAt, Working
<1>8. ASSUME NEW r \in Runs, SaveUser(r) \/ NoteFailure(r) PROVE Stages'
  <2>1. task[r].user \in Users
    BY <1>8 DEF IInv, Reading, ReadingOf, Todo, SaveUser, NoteFailure, TaskAt
  <2>2. /\ run'[r].status = "running" /\ task'[r].pc = "next"
        /\ \A s \in Runs \ {r} : run'[s] = run[s] /\ task'[s] = task[s]
    BY <1>8, <2>1, CommitRow, MovedTask DEF SaveUser, NoteFailure
  <2>3. QED BY <2>2, StagesLocal DEF Stage, TaskAt, Working
<1>9. ASSUME NEW r \in Runs, NEW u \in Users, SkipUser(r, u) PROVE Stages'
  <2>1. /\ run'[r].status = "running" /\ task'[r].pc = "next" /\ UNCHANGED task
        /\ \A s \in Runs \ {r} : run'[s] = run[s]
    BY <1>9, CommitRow DEF SkipUser, TaskAt
  <2>2. QED BY <2>1, StagesLocal DEF Stage, TaskAt, Working
<1>10. ASSUME NEW r \in Runs, FinishRun(r) PROVE Stages'
  <2>1. /\ task'[r].pc = "leaving" /\ run'[r] = Finished(run[r], Result(run[r]))
        /\ \A s \in Runs \ {r} : run'[s] = run[s] /\ task'[s] = task[s]
    BY <1>0, <1>10, MovedTask DEF FinishRun, TypeOK
  <2>2. run'[r].status \in Results
    BY <1>0, <2>1 DEF Finished, Result, Results, TypeOK, RunRow
  <2>3. QED BY <2>1, <2>2, StagesLocal DEF Stage, TaskAt, Working, Results
<1>11. ASSUME NEW r \in Runs, LeaveRun(r) \/ Interrupt(r) PROVE Stages'
  <2>1. /\ UNCHANGED run /\ task'[r].pc \in {"none", "marking"} /\ ~TaskAt(r, "none")
        /\ \A s \in Runs \ {r} : task'[s] = task[s]
    BY <1>0, <1>11, MovedTask
       DEF LeaveRun, Interrupt, Unwound, TypeOK, TaskAt, NoTask, Working
  <2>2. run[r].status # "absent"
    BY <1>0, <2>1 DEF Stages, Stage
  <2>3. QED BY <2>1, <2>2, StagesLocal DEF Stage, TaskAt, Working
<1>12. ASSUME NEW r \in Runs, MarkUnknown(r) PROVE Stages'
  <2>1. /\ task'[r].pc = "none"
        /\ \A s \in Runs \ {r} : run'[s] = run[s] /\ task'[s] = task[s]
    BY <1>0, <1>12 DEF MarkUnknown, TypeOK, NoTask
  <2>2. QED BY <2>1, StagesLocal DEF Stage, TaskAt, Working
<1>13. ASSUME NEW r \in Runs, Heartbeat(r) \/ Stale(r) PROVE Stages'
  <2>1. /\ run'[r].status = run[r].status /\ UNCHANGED task
        /\ \A s \in Runs \ {r} : run'[s] = run[s]
    BY <1>0, <1>13 DEF Heartbeat, Stale, TypeOK, RunRow
  <2>2. Stage(r)'
    BY <1>0, <2>1 DEF Stages, Stage, TaskAt
  <2>3. QED BY <2>1, <2>2, StagesLocal
<1>14. QED
  BY <1>1, <1>2, <1>3, <1>4, <1>5, <1>6, <1>7, <1>8, <1>9, <1>10, <1>11, <1>12, <1>13
     DEF Next, Ask, Go, vars, Proceed, Submit, LockSubmission, SubmitFails, LockLost, Unsubscribe,
         Subscribe, LegacySync

\* A task touches its own run only.
LEMMA ProceedLocal ==
  ASSUME IInv, NEW r \in Runs, Proceed(r) \/ Interrupt(r)
  PROVE  /\ ~TaskAt(r, "none") /\ UNCHANGED <<request, subscribed>>
         /\ \A s \in Runs \ {r} : run'[s] = run[s] /\ task'[s] = task[s] /\ outcome'[s] = outcome[s]
<1>0. TypeOK
  BY DEF IInv
<1>1. CASE LockRun(r)
  BY <1>0, <1>1 DEF LockRun, TypeOK, TaskAt, TaskTo
<1>2. CASE StartRun(r) \/ Snapshot(r) \/ GraphAnswers(r) \/ FinishRun(r) \/ Interrupt(r)
  BY <1>0, <1>2
     DEF StartRun, Snapshot, GraphAnswers, FinishRun, Interrupt, Unwound, TypeOK, TaskAt, TaskTo, Working
<1>3. CASE SaveUser(r) \/ NoteFailure(r)
  BY <1>0, <1>3 DEF SaveUser, NoteFailure, Commit, TypeOK, TaskAt, TaskTo
<1>4. CASE \E u \in Users : ReadUser(r, u) \/ SkipUser(r, u)
  BY <1>0, <1>4 DEF ReadUser, SkipUser, Commit, TypeOK, TaskAt
<1>5. CASE LeaveRun(r) \/ MarkUnknown(r)
  BY <1>0, <1>5 DEF LeaveRun, MarkUnknown, TypeOK, TaskAt, TaskTo
<1>6. QED BY <1>1, <1>2, <1>3, <1>4, <1>5 DEF Proceed

\* Heartbeats and the passing of time leave all but the freshness of a row.
LEMMA FreshOnly ==
  ASSUME IInv, NEW r \in Runs, Heartbeat(r) \/ Stale(r)
  PROVE  /\ UNCHANGED <<outcome, request, task, calendarLock, userLock, subscribed>>
         /\ \E fresh \in BOOLEAN : run' = [run EXCEPT ![r].fresh = fresh]
         /\ \A s \in Runs : /\ run'[s].status = run[s].status
                            /\ run'[s].succeeded = run[s].succeeded
                            /\ run'[s].failed = run[s].failed
                            /\ run'[s].skipped = run[s].skipped
<1>1. PICK fresh \in BOOLEAN : run' = [run EXCEPT ![r].fresh = fresh]
  BY DEF Heartbeat, Stale
<1>2. run \in [Runs -> RunRow]
  BY DEF IInv, TypeOK
<1>3. QED BY <1>1, <1>2 DEF Heartbeat, Stale, RunRow

-----------------------------------------------------------------------------
(* Requests that inserted a row.                                           *)

\* Nothing happens to a queued row that no task executes.
LEMMA InsertedKept ==
  ASSUME IInv, UNCHANGED request,
         \A s \in Runs : TaskAt(s, "none") /\ run[s].status = "queued"
                          => TaskAt(s, "none")' /\ run'[s].status = "queued"
  PROVE  Inserted'
<1>1. ASSUME NEW p \in Procs, RequestAt(p, "inserted") PROVE request[p].run \in Runs
  BY <1>1 DEF IInv, TypeOK, Request, RequestAt
<1>2. QED BY <1>1 DEF IInv, Inserted, RequestAt, TaskAt

LEMMA InsertedStep == IInv /\ [Next]_vars => Inserted'
<1> SUFFICES ASSUME IInv, [Next]_vars PROVE Inserted'
  OBVIOUS
<1>0. TypeOK /\ Stages /\ Inserted
  BY DEF IInv
<1>t. \A p \in Procs : RequestAt(p, "inserted") => request[p].run \in Runs
  BY <1>0 DEF TypeOK, Request, RequestAt
<1>1. CASE UNCHANGED <<request, run, task>>
  BY <1>1, InsertedKept DEF TaskAt
<1>2. ASSUME NEW r \in Runs, Proceed(r) \/ Interrupt(r) PROVE Inserted'
  BY <1>2, ProceedLocal, InsertedKept DEF TaskAt
<1>3. ASSUME NEW r \in Runs, Heartbeat(r) \/ Stale(r) PROVE Inserted'
  BY <1>3, FreshOnly, InsertedKept DEF TaskAt
<1>4. ASSUME NEW p \in Procs, UNCHANGED <<run, task>>,
             \A q \in Procs \ {p} : request'[q] = request[q],
             request'[p].pc # "inserted"
      PROVE  Inserted'
  BY <1>0, <1>4 DEF Inserted, RequestAt, TaskAt
<1>5. ASSUME NEW p \in Procs, NEW r \in Runs, Submit(p, r) PROVE Inserted'
  BY <1>0, <1>4, <1>5 DEF Submit, TypeOK
<1>6. ASSUME NEW p \in Procs, LockSubmission(p) \/ SubmitFails(p) PROVE Inserted'
  BY <1>0, <1>4, <1>6 DEF LockSubmission, SubmitFails, Answer, NoRequest, TypeOK, Request
<1>7. ASSUME NEW p \in Procs, Insert(p) PROVE Inserted'
  <2>1. CASE Rejected(request[p].run)
    BY <1>0, <1>4, <1>7, <2>1 DEF Insert, Answer, NoRequest, TypeOK
  <2>2. CASE ~Rejected(request[p].run)
    <3>1. PICK r \in Runs : r = request[p].run
      BY <1>0, <1>7 DEF Insert, TypeOK, Request, RequestAt
    <3>2. /\ run[r].status = "absent" /\ run' = [run EXCEPT ![r] = QueuedRun] /\ UNCHANGED task
          /\ request' = [request EXCEPT ![p].pc = "inserted"]
      BY <1>7, <2>2, <3>1 DEF Insert, Rejected
    <3>3. TaskAt(r, "none") /\ run'[r].status = "queued"
      BY <1>0, <3>2 DEF Stages, Stage, TypeOK, QueuedRun, AbsentRun
    <3>4. /\ request'[p].run = r
          /\ \A q \in Procs \ {p} : request'[q] = request[q]
          /\ \A q \in Procs \ {p} : RequestAt(q, "inserted") => request[q].run # r
          /\ \A s \in Runs \ {r} : run'[s] = run[s]
      BY <1>0, <3>1, <3>2 DEF Inserted, TypeOK, Request
    <3>5. \A q \in Procs : RequestAt(q, "inserted")' =>
            run'[request'[q].run].status = "queued" /\ task'[request'[q].run].pc = "none"
      BY <1>0, <1>t, <3>2, <3>3, <3>4 DEF Inserted, RequestAt, TaskAt
    <3>6. \A q1, q2 \in Procs :
            RequestAt(q1, "inserted")' /\ RequestAt(q2, "inserted")' /\ request'[q1].run = request'[q2].run
              => q1 = q2
      BY <1>0, <3>4 DEF Inserted, RequestAt
    <3>7. QED BY <3>5, <3>6 DEF Inserted, TaskAt
  <2>3. QED BY <2>1, <2>2
<1>8. ASSUME NEW p \in Procs, Accept(p) PROVE Inserted'
  <2>1. PICK r \in Runs : r = request[p].run /\ RequestAt(p, "inserted")
    BY <1>t, <1>8 DEF Accept
  <2>2. /\ UNCHANGED run /\ request'[p].pc = "idle"
        /\ \A q \in Procs \ {p} : request'[q] = request[q]
        /\ \A s \in Runs \ {r} : task'[s] = task[s]
    BY <1>0, <1>8, <2>1 DEF Accept, Answer, NoRequest, TypeOK
  <2>3. \A q \in Procs \ {p} : RequestAt(q, "inserted") => request[q].run # r
    BY <1>0, <2>1 DEF Inserted
  <2>4. \A q \in Procs : RequestAt(q, "inserted")' => q # p
    BY <2>2 DEF RequestAt
  <2>5. QED BY <1>0, <1>t, <2>2, <2>3, <2>4 DEF Inserted, RequestAt, TaskAt
<1>9. ASSUME NEW p \in Procs, Crash(p) PROVE Inserted'
  <2>1. /\ UNCHANGED run /\ request'[p].pc = "idle"
        /\ \A q \in Procs \ {p} : request'[q] = request[q]
        /\ \A s \in Runs : TaskAt(s, "none") => task'[s].pc = "none"
    BY <1>0, <1>9 DEF Crash, Answer, NoRequest, NoTask, TypeOK, TaskAt
  <2>2. QED BY <1>0, <1>t, <2>1 DEF Inserted, RequestAt, TaskAt
<1>10. QED
  BY <1>1, <1>2, <1>3, <1>5, <1>6, <1>7, <1>8, <1>9
     DEF Next, Ask, Go, vars, LockLost, Unsubscribe, Subscribe, LegacySync

-----------------------------------------------------------------------------
(* The user being read.                                                    *)

\* A run keeps the user rows it has locked while others work.
LEMMA LocksKept ==
  ASSUME IInv, NEW s \in Runs, Proceed(s) \/ Interrupt(s), NEW r \in Runs, r # s,
         NEW u \in Users, userLock[u] = r
  PROVE  userLock'[u] = r
<1>0. TypeOK
  BY DEF IInv
<1>1. CASE UNCHANGED userLock
  BY <1>1
<1>2. CASE userLock' = UserRowsWithout({s})
  BY <1>2 DEF UserRowsWithout
<1>3. CASE \E v \in Users : userLock[v] = Nobody /\ userLock' = [userLock EXCEPT ![v] = s]
  BY <1>0, <1>3, NobodyIsNobody DEF TypeOK
<1>4. QED
  BY <1>1, <1>2, <1>3
     DEF Proceed, Interrupt, Unwound, LockRun, StartRun, Snapshot, GraphAnswers, SaveUser, NoteFailure,
         FinishRun, LeaveRun, MarkUnknown, ReadUser, SkipUser

\* A run nothing happens to, beyond locks and subscriptions that keep what it reads.
LEMMA ReadingKept ==
  ASSUME IInv, NEW r \in Runs, task'[r] = task[r], outcome'[r] = outcome[r],
         \A u \in Users : Holding(r, u) => userLock'[u] = r /\ subscribed'[u]
  PROVE  ReadingOf(r)'
<1>1. ReadingOf(r)
  BY DEF IInv, Reading
<1>2. TaskAt(r, "reading") \/ TaskAt(r, "saving") => task[r].user \in Users
  BY <1>1 DEF ReadingOf, Todo, TaskAt
<1>3. QED BY <1>1, <1>2 DEF ReadingOf, TaskAt, Todo, Holding

LEMMA ReadingStep == IInv /\ [Next]_vars => Reading'
<1> SUFFICES ASSUME IInv, [Next]_vars, NEW r \in Runs PROVE ReadingOf(r)'
  BY DEF Reading
<1>0. TypeOK /\ ReadingOf(r) /\ r # Nobody
  BY NobodyIsNobody DEF IInv, Reading
<1>1. CASE UNCHANGED <<task, outcome, userLock, subscribed>>
  BY <1>1, ReadingKept DEF Holding
<1>2. ASSUME NEW s \in Runs \ {r}, Proceed(s) \/ Interrupt(s) PROVE ReadingOf(r)'
  BY <1>2, ProceedLocal, LocksKept, ReadingKept DEF Holding
<1>3. CASE Interrupt(r) \/ Proceed(r)
  <2>1. CASE task'[r].pc \notin {"reading", "saving", "noting"}
    BY <2>1 DEF ReadingOf, TaskAt
  <2>2. CASE \E u \in Users : ReadUser(r, u)
    <3>1. PICK u \in Users : ReadUser(r, u)
      BY <2>2
    <3>2. /\ task'[r].user = u /\ userLock'[u] = r /\ subscribed'[u]
          /\ u \in Todo(r) /\ UNCHANGED outcome
      BY <1>0, <3>1 DEF ReadUser, Eligible, TypeOK, Task
    <3>3. QED BY <3>2 DEF ReadingOf, Todo, Holding
  <2>3. CASE GraphAnswers(r)
    <3>1. /\ task'[r].user = task[r].user /\ UNCHANGED <<outcome, subscribed>>
          /\ task[r].pc = "reading"
          /\ task'[r].pc = "noting" \/ (task'[r].pc = "saving" /\ UNCHANGED userLock)
      BY <1>0, <2>3 DEF GraphAnswers, TypeOK, Task, TaskAt
    <3>2. QED BY <1>0, <3>1 DEF ReadingOf, Todo, TaskAt, Holding
  <2>4. CASE \E u \in Users : SkipUser(r, u)
    BY <2>1, <2>4 DEF SkipUser, TaskAt
  <2>5. CASE LockRun(r)
    <3>1. CASE calendarLock = Nobody
      BY <2>1, <2>5, <3>1, MovedTask DEF LockRun
    <3>2. CASE calendarLock # Nobody
      <4>1. task'[r].pc = "marking"
        BY <1>0, <2>5, <3>2 DEF LockRun, TypeOK, Task
      <4>2. QED BY <2>1, <4>1
    <3>3. QED BY <3>1, <3>2
  <2>6. CASE MarkUnknown(r) \/ LeaveRun(r)
    BY <1>0, <2>1, <2>6, MovedTask DEF MarkUnknown, LeaveRun, TypeOK, NoTask
  <2>7. CASE Interrupt(r) \/ StartRun(r) \/ Snapshot(r) \/ SaveUser(r) \/ NoteFailure(r) \/ FinishRun(r)
    BY <2>1, <2>7, MovedTask
       DEF Interrupt, Unwound, StartRun, Snapshot, SaveUser, NoteFailure, FinishRun
  <2>8. QED BY <1>3, <2>2, <2>3, <2>4, <2>5, <2>6, <2>7 DEF Proceed
<1>4. ASSUME NEW s \in Runs, Heartbeat(s) \/ Stale(s) PROVE ReadingOf(r)'
  BY <1>1, <1>4, FreshOnly
<1>5. ASSUME NEW p \in Procs, Accept(p) PROVE ReadingOf(r)'
  <2>1. CASE r = request[p].run
    BY <1>0, <1>5, <2>1 DEF Accept, TypeOK, NoTask, ReadingOf, TaskAt
  <2>2. CASE r # request[p].run
    <3>1. task'[r] = task[r] /\ UNCHANGED <<outcome, userLock, subscribed>>
      BY <1>0, <1>5, <2>2 DEF Accept, TypeOK
    <3>2. QED BY <3>1, ReadingKept DEF Holding
  <2>3. QED BY <2>1, <2>2
<1>6. ASSUME NEW p \in Procs, Crash(p) PROVE ReadingOf(r)'
  <2>1. CASE r \in TasksOf(p)
    BY <1>0, <1>6, <2>1 DEF Crash, TypeOK, NoTask, ReadingOf, TaskAt
  <2>2. CASE r \notin TasksOf(p)
    <3>1. task'[r] = task[r] /\ UNCHANGED <<outcome, subscribed>>
      BY <1>0, <1>6, <2>2 DEF Crash, TypeOK
    <3>2. \A u \in Users : userLock[u] = r => userLock'[u] = r
      BY <1>6, <2>2 DEF Crash, UserRowsWithout
    <3>3. QED BY <3>1, <3>2, ReadingKept DEF Holding
  <2>3. QED BY <2>1, <2>2
<1>7. ASSUME NEW u \in Users, Unsubscribe(u) \/ Subscribe(u) PROVE ReadingOf(r)'
  <2>1. /\ UNCHANGED <<task, outcome, userLock>> /\ userLock[u] = Nobody
        /\ \A v \in Users \ {u} : subscribed'[v] = subscribed[v]
    BY <1>0, <1>7 DEF Unsubscribe, Subscribe, TypeOK
  <2>2. QED BY <1>0, <2>1, ReadingKept DEF Holding
<1>8. QED
  BY <1>1, <1>2, <1>3, <1>4, <1>5, <1>6, <1>7
     DEF Next, Ask, Go, vars, Submit, LockSubmission, Insert, SubmitFails, LockLost, LegacySync

-----------------------------------------------------------------------------
(* What a step may do to one run.                                          *)

\* The commit of one user of the run, and what it counts.
Counted(r, u, how) ==
  /\ how \in {"saved", "failed", "skipped"} /\ u \in Todo(r)
  /\ run[r].status = "running" /\ run'[r].status = "running"
  /\ outcome'[r] = [outcome[r] EXCEPT ![u] = how]
  /\ run'[r].succeeded = run[r].succeeded + (IF how = "saved" THEN 1 ELSE 0)
  /\ run'[r].failed = run[r].failed + (IF how = "failed" THEN 1 ELSE 0)
  /\ run'[r].skipped = run[r].skipped + (IF how = "skipped" THEN 1 ELSE 0)
  /\ task'[r].pc = "next"

\* Everything else that may happen to a run.
Untouched(r) ==
  /\ run'[r] = run[r] /\ outcome'[r] = outcome[r]
  /\ TaskAt(r, "snapshot")' => TaskAt(r, "snapshot")
Queued(r) ==
  run[r].status = "absent" /\ run'[r] = QueuedRun /\ outcome'[r] = outcome[r]
Freshened(r) ==
  /\ \E fresh \in BOOLEAN : run'[r] = [run[r] EXCEPT !.fresh = fresh]
  /\ run[r].status \in {"queued", "running"}
  /\ outcome'[r] = outcome[r] /\ task'[r] = task[r]
Marked(r) ==
  /\ run'[r] = Finished(run[r], "unknown") /\ run[r].status # "absent"
  /\ outcome'[r] = outcome[r] /\ task'[r].pc = "none"

LEMMA RunMoves ==
  ASSUME IInv, [Next]_vars, NEW r \in Runs
  PROVE  \/ Untouched(r) \/ Queued(r) \/ Freshened(r) \/ Marked(r)
         \/ StartRun(r) \/ Snapshot(r) \/ FinishRun(r)
         \/ \E u \in Users, how \in Outcomes : Counted(r, u, how)
<1>0. /\ TypeOK /\ Stages /\ ReadingOf(r)
      /\ run[r] \in RunRow
  BY DEF IInv, Reading, TypeOK
<1>1. CASE UNCHANGED <<run, outcome, task>>
  BY <1>1 DEF Untouched, TaskAt
<1>2. ASSUME NEW s \in Runs \ {r}, Proceed(s) \/ Interrupt(s) PROVE Untouched(r)
  BY <1>2, ProceedLocal DEF Untouched, TaskAt
<1>3. ASSUME NEW p \in Procs, Insert(p) PROVE Untouched(r) \/ Queued(r)
  BY <1>0, <1>1, <1>3 DEF Insert, Rejected, TypeOK, Untouched, Queued, TaskAt
<1>4. ASSUME NEW p \in Procs, Accept(p) \/ Crash(p) PROVE Untouched(r)
  <2>1. UNCHANGED <<run, outcome>>
    BY <1>4 DEF Accept, Crash
  <2>2. task'[r] = task[r] \/ task'[r].pc \in {"none", "started"}
    <3>1. CASE Crash(p)
      <4>1. task'[r] = task[r] \/ task'[r] = NoTask
        BY <3>1 DEF Crash
      <4>2. QED BY <4>1 DEF NoTask
    <3>2. CASE Accept(p)
      <4>1. task'[r] = task[r] \/ task'[r] = [NoTask EXCEPT !.pc = "started", !.proc = p]
        BY <1>0, <3>2 DEF Accept, TypeOK
      <4>2. [NoTask EXCEPT !.pc = "started", !.proc = p].pc = "started"
        BY DEF NoTask
      <4>3. QED BY <4>1, <4>2
    <3>3. QED BY <1>4, <3>1, <3>2
  <2>3. QED BY <2>1, <2>2 DEF Untouched, TaskAt
<1>5. ASSUME NEW s \in Runs, Heartbeat(s) \/ Stale(s) PROVE Untouched(r) \/ Freshened(r)
  <2>1. CASE s = r
    BY <1>0, <1>5, <2>1 DEF Heartbeat, Stale, TypeOK, Freshened
  <2>2. CASE s # r
    BY <1>0, <1>5, <2>2 DEF Heartbeat, Stale, TypeOK, Untouched, TaskAt
  <2>3. QED BY <2>1, <2>2
<1>6. CASE Interrupt(r) \/ LeaveRun(r)
  <2>1. UNCHANGED <<run, outcome>> /\ task'[r].pc \in {"none", "marking"}
    BY <1>0, <1>6, MovedTask DEF Interrupt, Unwound, LeaveRun, TypeOK, NoTask
  <2>2. QED BY <2>1 DEF Untouched, TaskAt
<1>7. CASE LockRun(r) \/ GraphAnswers(r) \/ \E u \in Users : ReadUser(r, u)
  <2>1. UNCHANGED <<run, outcome>>
    BY <1>7 DEF LockRun, GraphAnswers, ReadUser
  <2>2. task'[r].pc # "snapshot"
    <3>1. CASE LockRun(r)
      <4>1. CASE calendarLock = Nobody
        <5>1. task'[r].pc = "locked"
          BY <3>1, <4>1, MovedTask DEF LockRun
        <5>2. QED BY <5>1
      <4>2. CASE calendarLock # Nobody
        BY <1>0, <3>1, <4>2 DEF LockRun, TypeOK, Task
      <4>3. QED BY <4>1, <4>2
    <3>2. CASE GraphAnswers(r)
      BY <1>0, <3>2 DEF GraphAnswers, TypeOK, Task
    <3>3. CASE \E u \in Users : ReadUser(r, u)
      BY <1>0, <3>3 DEF ReadUser, TypeOK, Task
    <3>4. QED BY <1>7, <3>1, <3>2, <3>3
  <2>3. QED BY <2>1, <2>2 DEF Untouched, TaskAt
<1>8. CASE MarkUnknown(r)
  <2>1. run[r].status # "absent" /\ task'[r].pc = "none" /\ UNCHANGED outcome
    BY <1>0, <1>8 DEF MarkUnknown, Stages, Stage, TypeOK, TaskAt, NoTask
  <2>2. UNCHANGED run \/ run'[r] = Finished(run[r], "unknown")
    BY <1>0, <1>8 DEF MarkUnknown, TypeOK
  <2>3. QED BY <2>1, <2>2 DEF Marked, Untouched, TaskAt
<1>9. CASE SaveUser(r)
  <2>1. PICK u \in Todo(r) : u = task[r].user
    BY <1>0, <1>9 DEF SaveUser, ReadingOf, TaskAt
  <2>2. /\ Commit(r, u, "saved", [run[r] EXCEPT !.succeeded = @ + 1])
        /\ task'[r].pc = "next"
    BY <1>9, <2>1, MovedTask DEF SaveUser
  <2>3. Counted(r, u, "saved")
    BY <1>0, <2>2 DEF Commit, Counted, TypeOK, RunRow
  <2>4. QED BY <2>3 DEF Todo, Outcomes
<1>10. CASE NoteFailure(r)
  <2>1. PICK u \in Todo(r) : u = task[r].user
    BY <1>0, <1>10 DEF NoteFailure, ReadingOf, TaskAt
  <2>2. /\ Commit(r, u, "failed", [run[r] EXCEPT !.failed = @ + 1])
        /\ task'[r].pc = "next"
    BY <1>10, <2>1, MovedTask DEF NoteFailure
  <2>3. Counted(r, u, "failed")
    BY <1>0, <2>2 DEF Commit, Counted, TypeOK, RunRow
  <2>4. QED BY <2>3 DEF Todo, Outcomes
<1>11. ASSUME NEW u \in Users, SkipUser(r, u)
       PROVE  \E v \in Users, how \in Outcomes : Counted(r, v, how)
  <2>1. Counted(r, u, "skipped")
    BY <1>0, <1>11 DEF SkipUser, Commit, Counted, TypeOK, RunRow, TaskAt
  <2>2. QED BY <2>1 DEF Outcomes
<1>12. QED
  BY <1>1, <1>2, <1>3, <1>4, <1>5, <1>6, <1>7, <1>8, <1>9, <1>10, <1>11
     DEF Next, Ask, Go, vars, Proceed, Submit, LockSubmission, SubmitFails, LockLost, Unsubscribe,
         Subscribe, LegacySync

-----------------------------------------------------------------------------
(* Counters and results.                                                   *)

CountIn(f, how) == Cardinality({u \in Users : f[u] = how})

\* Dealing with one user counts him, and nobody else.
LEMMA CountStep ==
  ASSUME NEW f \in [Users -> Outcomes], NEW u \in Users, f[u] = "todo",
         NEW how \in {"saved", "failed", "skipped"}, NEW kind \in {"saved", "failed", "skipped"}
  PROVE  CountIn([f EXCEPT ![u] = how], kind)
           = CountIn(f, kind) + (IF kind = how THEN 1 ELSE 0)
<1> DEFINE before == {v \in Users : f[v] = kind}
           after == {v \in Users : [f EXCEPT ![u] = how][v] = kind}
<1>1. IsFiniteSet(before) /\ u \notin before
  BY UsersAssumption, FS_Subset
<1>2. CASE kind = how
  <2>1. after = before \cup {u}
    BY <1>2
  <2>2. Cardinality(after) = Cardinality(before) + 1
    BY <1>1, <2>1, FS_AddElement
  <2>3. QED BY <1>2, <2>2 DEF CountIn
<1>3. CASE kind # how
  <2>1. after = before
    BY <1>3
  <2>2. Cardinality(before) \in Nat
    BY <1>1, FS_CardinalityType
  <2>3. QED BY <1>3, <2>1, <2>2 DEF CountIn
<1>4. QED BY <1>2, <1>3

\* Counts are natural numbers, and zero before anything is recorded.
LEMMA CountTypes ==
  ASSUME NEW f, NEW kind
  PROVE  CountIn(f, kind) \in Nat
  BY UsersAssumption, FS_Subset, FS_CardinalityType DEF CountIn

LEMMA CountNone ==
  ASSUME NEW f, NEW kind, \A u \in Users : f[u] # kind
  PROVE  CountIn(f, kind) = 0
<1>1. {u \in Users : f[u] = kind} = {}
  OBVIOUS
<1>2. QED BY <1>1, FS_EmptySet DEF CountIn

BlankRun(r) ==
  /\ outcome[r] = [u \in Users |-> "none"]
  /\ run[r].succeeded = 0 /\ run[r].failed = 0 /\ run[r].skipped = 0
CountsOf(r) ==
  /\ run[r].succeeded = CountIn(outcome[r], "saved")
  /\ run[r].failed = CountIn(outcome[r], "failed")
  /\ run[r].skipped = CountIn(outcome[r], "skipped")
HonestOf(r) ==
  run[r].status \in Results =>
    /\ Todo(r) = {}
    /\ run[r].status = "success" <=> CountIn(outcome[r], "failed") = 0
    /\ run[r].status = "failed" <=>
         CountIn(outcome[r], "failed") > 0 /\ CountIn(outcome[r], "saved") = 0

\* The invariant of the counters.
Counting ==
  \A r \in Runs :
    /\ run[r].status \in {"absent", "queued"} \/ TaskAt(r, "snapshot") => BlankRun(r)
    /\ CountsOf(r)
    /\ HonestOf(r)

LEMMA CountingInit == Init => Counting
<1> SUFFICES ASSUME Init, NEW r \in Runs PROVE BlankRun(r) /\ CountsOf(r) /\ HonestOf(r)
  BY DEF Counting
<1>1. run[r] = AbsentRun /\ outcome[r] = [u \in Users |-> "none"]
  BY DEF Init
<1>2. \A kind \in {"saved", "failed", "skipped"} : CountIn(outcome[r], kind) = 0
  BY <1>1, CountNone
<1>3. QED BY <1>1, <1>2 DEF AbsentRun, BlankRun, CountsOf, HonestOf, Results

LEMMA CountingStep == IInv /\ Counting /\ [Next]_vars => Counting'
<1> SUFFICES ASSUME IInv, Counting, [Next]_vars, NEW r \in Runs
             PROVE  /\ run'[r].status \in {"absent", "queued"} \/ TaskAt(r, "snapshot")' => BlankRun(r)'
                    /\ CountsOf(r)' /\ HonestOf(r)'
  BY DEF Counting
<1>0. /\ run[r].status \in {"absent", "queued"} \/ TaskAt(r, "snapshot") => BlankRun(r)
      /\ CountsOf(r) /\ HonestOf(r)
      /\ Stage(r) /\ run[r] \in RunRow /\ outcome[r] \in [Users -> Outcomes]
  BY DEF Counting, IInv, Stages, TypeOK
<1>1. CASE Untouched(r)
  BY <1>0, <1>1 DEF Untouched, BlankRun, CountsOf, HonestOf, Todo, TaskAt
<1>2. CASE Queued(r)
  <2>1. BlankRun(r)' /\ CountsOf(r)' /\ run'[r].status = "queued"
    BY <1>0, <1>2 DEF Queued, QueuedRun, AbsentRun, BlankRun, CountsOf
  <2>2. QED BY <2>1 DEF HonestOf, Results
<1>3. CASE Freshened(r)
  <2>1. /\ run'[r].status = run[r].status /\ run'[r].succeeded = run[r].succeeded
        /\ run'[r].failed = run[r].failed /\ run'[r].skipped = run[r].skipped
    BY <1>0, <1>3 DEF Freshened, RunRow
  <2>2. QED BY <1>0, <1>3, <2>1 DEF Freshened, BlankRun, CountsOf, HonestOf, Todo, TaskAt, Results
<1>4. CASE Marked(r)
  <2>1. CASE run[r].status \in Results
    BY <1>0, <1>4, <2>1 DEF Marked, Finished, CountsOf, HonestOf, Todo, TaskAt, Results
  <2>2. CASE run[r].status \notin Results
    <3>1. /\ run'[r].status = "unknown" /\ run'[r].succeeded = run[r].succeeded
          /\ run'[r].failed = run[r].failed /\ run'[r].skipped = run[r].skipped
      BY <1>0, <1>4, <2>2 DEF Marked, Finished, RunRow
    <3>2. QED BY <1>0, <1>4, <3>1 DEF Marked, CountsOf, HonestOf, TaskAt, Results
  <2>3. QED BY <2>1, <2>2
<1>5. CASE StartRun(r)
  <2>1. /\ run[r].status = "queued" /\ run'[r].status = "running" /\ UNCHANGED outcome
        /\ run'[r].succeeded = run[r].succeeded
        /\ run'[r].failed = run[r].failed /\ run'[r].skipped = run[r].skipped
    BY <1>0, <1>5 DEF StartRun, Stage, TaskAt, IInv, TypeOK, RunRow
  <2>2. QED BY <1>0, <2>1 DEF BlankRun, CountsOf, HonestOf, Results
<1>6. CASE Snapshot(r)
  <2>1. /\ BlankRun(r) /\ run'[r] = run[r] /\ run[r].status = "running" /\ task'[r].pc = "next"
        /\ outcome'[r] = [u \in Users |-> IF subscribed[u] THEN "todo" ELSE "none"]
    BY <1>0, <1>6, MovedTask DEF Snapshot, Stage, TaskAt, IInv, TypeOK, Working
  <2>2. \A kind \in {"saved", "failed", "skipped"} : CountIn(outcome'[r], kind) = 0
    BY <2>1, CountNone
  <2>3. QED BY <2>1, <2>2 DEF BlankRun, CountsOf, HonestOf, TaskAt, Results
<1>7. CASE FinishRun(r)
  <2>1. /\ run'[r] = Finished(run[r], Result(run[r])) /\ UNCHANGED outcome
        /\ run[r].status = "running" /\ Todo(r) = {} /\ task'[r].pc = "leaving"
    BY <1>0, <1>7, MovedTask DEF FinishRun, Stage, TaskAt, IInv, TypeOK, Working
  <2>2. /\ run'[r].status = Result(run[r]) /\ run'[r].succeeded = run[r].succeeded
        /\ run'[r].failed = run[r].failed /\ run'[r].skipped = run[r].skipped
    BY <1>0, <2>1 DEF Finished, Results, RunRow
  <2>3. CountsOf(r)'
    BY <1>0, <2>1, <2>2 DEF CountsOf
  <2>4. run[r].failed \in Nat /\ run[r].succeeded \in Nat
    BY <1>0 DEF RunRow
  <2>5. HonestOf(r)'
    BY <1>0, <2>1, <2>2, <2>4 DEF Result, CountsOf, HonestOf, Todo
  <2>6. QED BY <2>1, <2>2, <2>3, <2>5 DEF Result, TaskAt
<1>8. CASE \E u \in Users, how \in Outcomes : Counted(r, u, how)
  <2>1. PICK u \in Users, how \in {"saved", "failed", "skipped"} : Counted(r, u, how)
    BY <1>8 DEF Counted
  <2>2. outcome[r][u] = "todo" /\ outcome'[r] = [outcome[r] EXCEPT ![u] = how]
    BY <2>1 DEF Counted, Todo
  <2>3. \A kind \in {"saved", "failed", "skipped"} :
          CountIn(outcome'[r], kind) = CountIn(outcome[r], kind) + (IF kind = how THEN 1 ELSE 0)
    <3>1. PICK f \in [Users -> Outcomes] : f = outcome[r]
      BY <1>0
    <3>2. outcome'[r] = [f EXCEPT ![u] = how] /\ f[u] = "todo"
      BY <2>2, <3>1
    <3>3. \A kind \in {"saved", "failed", "skipped"} :
            CountIn([f EXCEPT ![u] = how], kind) = CountIn(f, kind) + (IF kind = how THEN 1 ELSE 0)
      BY <3>2, CountStep
    <3>4. QED BY <3>1, <3>2, <3>3
  <2>4. CountsOf(r)'
    BY <1>0, <2>1, <2>3 DEF Counted, CountsOf
  <2>5. QED BY <2>1, <2>4 DEF Counted, HonestOf, TaskAt, Results
<1>9. QED
  BY RunMoves, <1>1, <1>2, <1>3, <1>4, <1>5, <1>6, <1>7, <1>8

-----------------------------------------------------------------------------
(* Theorems.                                                               *)

LEMMA InvStep == IInv /\ [Next]_vars => IInv'
  BY TypeStep, SlotsStep, StagesStep, InsertedStep, ReadingStep DEF IInv

LEMMA Invariance == Spec => []IInv
  BY InvInit, InvStep, PTL DEF Spec

\* In every instance the variables keep their types.
THEOREM CalendarTypes == Spec => []TypeOK
<1>1. IInv => TypeOK
  BY DEF IInv
<1>2. QED BY <1>1, Invariance, PTL

\* However many API processes take submissions and lose their locks, calendars are never
\* read by two runs at once: a working run's row holds the slot.
THEOREM OneRunAtATime == Spec => []OneRunWorks
<1>1. IInv => OneRunWorks
  <2> SUFFICES ASSUME IInv, NEW r \in Runs, NEW s \in Runs, task[r].pc \in Working, task[s].pc \in Working
               PROVE  r = s
    BY DEF OneRunWorks
  <2>1. run[r].status \in {"queued", "running"} /\ run[s].status \in {"queued", "running"}
    BY DEF IInv, Stages, Stage, Working
  <2>2. QED BY <2>1 DEF IInv, Slots, Open
<1>2. QED BY <1>1, Invariance, PTL

\* For every set of users, nobody's calendar is read once he has opted out.
THEOREM OptOutHolds == Spec => []OptOutRespected
<1>1. IInv => OptOutRespected
  BY DEF IInv, Reading, ReadingOf, Holding, OptOutRespected
<1>2. QED BY <1>1, Invariance, PTL

\* For every set of users and however a run ends, its counters are what it committed.
THEOREM CountersAreTrue == Spec => []CountsAreCommitted
<1>1. Counting => CountsAreCommitted
  BY DEF Counting, CountsOf, CountIn, CountsAreCommitted, CountOf
<1>2. QED BY <1>1, InvInit, InvStep, CountingInit, CountingStep, PTL DEF Spec

\* For every set of users, a result says what happened to all subscribers of the snapshot.
THEOREM ResultsAreTrue == Spec => []ResultIsHonest
<1>1. Counting => ResultIsHonest
  BY DEF Counting, HonestOf, CountIn, ResultIsHonest, CountOf
<1>2. QED BY <1>1, InvInit, InvStep, CountingInit, CountingStep, PTL DEF Spec

\* In every instance, a durable result is never changed.
THEOREM ResultsStay == Spec => ResultIsFinal
<1>1. ASSUME IInv, [Next]_vars, NEW r \in Runs, run[r].status \in Results PROVE run'[r] = run[r]
  <2>1. Stage(r)
    BY <1>1 DEF IInv, Stages
  <2>2. ~StartRun(r) /\ ~Snapshot(r) /\ ~FinishRun(r)
    BY <1>1, <2>1 DEF Stage, StartRun, Snapshot, FinishRun, TaskAt, Working, Results
  <2>3. ~Queued(r) /\ ~Freshened(r) /\ ~\E u \in Users, how \in Outcomes : Counted(r, u, how)
    BY <1>1 DEF Queued, Freshened, Counted, Results
  <2>4. QED BY <1>1, <2>2, <2>3, RunMoves DEF Untouched, Marked, Finished
<1>2. IInv /\ [Next]_vars => [\A r \in Runs : run[r].status \in Results => run'[r] = run[r]]_vars
  BY <1>1
<1>3. QED BY <1>2, Invariance, PTL DEF Spec, ResultIsFinal

\* In every instance, no run starts while the outcome of another one is open.
THEOREM OpenRunsBlock == Spec => UnknownBlocks
<1>1. ASSUME IInv, [Next]_vars, NEW r \in Runs, NEW s \in Runs, r # s,
             run[r].status # "running", run'[r].status = "running"
      PROVE  run[s].status \in Results \cup {"absent"}
  <2>1. run[r].status \in {"queued", "running"}
    <3>1. Stage(r) /\ run[r] \in RunRow
      BY <1>1 DEF IInv, Stages, TypeOK
    <3>2. CASE StartRun(r) \/ Snapshot(r) \/ FinishRun(r)
      BY <3>1, <3>2 DEF StartRun, Snapshot, FinishRun, Stage, TaskAt, Working
    <3>3. CASE Queued(r) \/ Untouched(r) \/ Freshened(r)
                 \/ \E u \in Users, how \in Outcomes : Counted(r, u, how)
      BY <1>1, <3>1, <3>3 DEF Queued, QueuedRun, AbsentRun, Untouched, Freshened, Counted
    <3>4. CASE Marked(r)
      BY <1>1, <3>1, <3>4 DEF Marked, Finished, RunRow, Results
    <3>5. QED BY <1>1, <3>2, <3>3, <3>4, RunMoves
  <2>2. run[r].slot /\ ~run[s].slot
    BY <1>1, <2>1 DEF IInv, Slots, Open
  <2>3. QED BY <1>1, <2>2 DEF IInv, TypeOK, RunRow, Slots, Open
<1>2. IInv /\ [Next]_vars =>
        [\A r, s \in Runs :
           r # s /\ run[r].status # "running" /\ run'[r].status = "running"
             => run[s].status \in Results \cup {"absent"}]_vars
  BY <1>1
<1>3. QED BY <1>2, Invariance, PTL DEF Spec, UnknownBlocks

-----------------------------------------------------------------------------
(* CalendarRuns implements OneCalendarRun.                                 *)

\* The initial states are the promise's.
LEMMA PromiseInit == Init => Promise!Init
<1> SUFFICES ASSUME Init PROVE Promise!Init
  OBVIOUS
<1>1. Statuses = [r \in Runs |-> "absent"]
  BY DEF Init, Statuses, AbsentRun
<1>2. outcome = [r \in Runs |-> Promise!Nothing] /\ subscribed \in [Users -> BOOLEAN]
  BY DEF Init, Promise!Nothing
<1>3. QED BY <1>1, <1>2 DEF Promise!Init

\* One row changes, and its status with it.
LEMMA StatusMoves ==
  ASSUME TypeOK, NEW r \in Runs, NEW row, run' = [run EXCEPT ![r] = row]
  PROVE  Statuses' = [Statuses EXCEPT ![r] = row.status]
  BY DEF TypeOK, Statuses

\* A row may change otherwise.
LEMMA StatusStays ==
  ASSUME TypeOK, NEW r \in Runs, NEW row, run' = [run EXCEPT ![r] = row],
         row.status = run[r].status
  PROVE  Statuses' = Statuses
  BY DEF TypeOK, Statuses

\* What changes no status, no user's outcome and no subscription is not promised.
LEMMA PromiseSleeps ==
  ASSUME UNCHANGED <<outcome, subscribed>>, Statuses' = Statuses
  PROVE  UNCHANGED Promise!sync
  BY DEF Promise!sync

\* A row is inserted where no run is open.
LEMMA InsertAccepts ==
  ASSUME IInv, NEW p \in Procs, Insert(p)
  PROVE  Promise!Next \/ UNCHANGED Promise!sync
<1>1. CASE Rejected(request[p].run)
  <2>1. Statuses' = Statuses /\ UNCHANGED <<outcome, subscribed>>
    BY <1>1 DEF Insert, Statuses
  <2>2. QED BY <2>1, PromiseSleeps
<1>2. CASE ~Rejected(request[p].run)
  <2>1. PICK r \in Runs : r = request[p].run
    BY DEF Insert, IInv, TypeOK, Request, RequestAt
  <2>2. run' = [run EXCEPT ![r] = QueuedRun] /\ UNCHANGED <<outcome, subscribed>>
    BY <1>2, <2>1 DEF Insert
  <2>3. Statuses' = [Statuses EXCEPT ![r] = "queued"]
    <3>1. QueuedRun.status = "queued" /\ TypeOK
      BY DEF QueuedRun, AbsentRun, IInv
    <3>2. QED BY <2>2, <3>1, StatusMoves
  <2>4. Statuses[r] = "absent"
    BY <1>2, <2>1 DEF Rejected, Statuses
  <2>5. \A s \in Runs : run[s].status \notin Open
    BY <1>2 DEF Rejected, SlotTaken, IInv, Slots
  <2>6. \A s \in Runs : ~Promise!Open(s)
    BY <2>5 DEF Promise!Open, Open, Statuses
  <2>7. Promise!Accept(r)
    BY <2>2, <2>3, <2>4, <2>6 DEF Promise!Accept
  <2>8. QED BY <2>7 DEF Promise!Next
<1>3. QED BY <1>1, <1>2

\* A commit for one user settles him, as he wants it.
LEMMA CommitSettles ==
  ASSUME IInv, NEW r \in Runs, NEW u \in Todo(r), NEW how \in {"saved", "failed", "skipped"},
         NEW row \in RunRow, row.status = run[r].status, Commit(r, u, how, row),
         Promise!Fits(u, how), UNCHANGED subscribed
  PROVE  Promise!Next
<1>1. TypeOK /\ u \in Users /\ outcome[r][u] = "todo" /\ run[r].status = "running"
  BY DEF IInv, Todo, Commit
<1>2. [row EXCEPT !.fresh = TRUE].status = run[r].status
  BY DEF RunRow
<1>3. Statuses' = Statuses
  BY <1>1, <1>2, StatusStays DEF Commit
<1>4. outcome' = [outcome EXCEPT ![r] = [outcome[r] EXCEPT ![u] = how]]
  BY <1>1 DEF Commit, TypeOK
<1>5. Statuses[r] = "running"
  BY <1>1 DEF Statuses
<1>6. Promise!Settle(r, u)
  BY <1>1, <1>3, <1>4, <1>5 DEF Promise!Settle
<1>7. QED BY <1>1, <1>6 DEF Promise!Next

\* Counters of zero, and only they, mean that nobody is counted.
LEMMA CountSome ==
  ASSUME NEW f, NEW kind
  PROVE  CountIn(f, kind) > 0 <=> Promise!Some(f, kind)
<1> DEFINE S == {u \in Users : f[u] = kind}
<1>1. IsFiniteSet(S)
  BY UsersAssumption, FS_Subset
<1>2. Cardinality(S) \in Nat /\ (Cardinality(S) = 0 <=> S = {})
  BY <1>1, FS_CardinalityType, FS_EmptySet
<1>3. S # {} <=> Promise!Some(f, kind)
  BY DEF Promise!Some
<1>4. QED BY <1>2, <1>3 DEF CountIn

\* The result computed from the counters is the verdict on the users.
LEMMA ResultIsVerdict ==
  ASSUME IInv, NEW r \in Runs, CountsOf(r)
  PROVE  Result(run[r]) = Promise!Verdict(outcome[r])
<1>1. run[r].failed \in Nat /\ run[r].succeeded \in Nat
  BY DEF IInv, TypeOK, RunRow
<1>2. /\ run[r].failed > 0 <=> Promise!Some(outcome[r], "failed")
      /\ run[r].succeeded > 0 <=> Promise!Some(outcome[r], "saved")
  BY CountSome DEF CountsOf
<1>3. run[r].succeeded = 0 <=> ~(run[r].succeeded > 0)
  BY <1>1
<1>4. QED BY <1>2, <1>3 DEF Result, Promise!Verdict

\* Every step of the execution of a run is one of the promise's or none.
LEMMA ProceedKeeps ==
  ASSUME IInv, Counting, NEW r \in Runs, Proceed(r)
  PROVE  Promise!Next \/ UNCHANGED Promise!sync
<1>0. TypeOK /\ Stage(r) /\ CountsOf(r) /\ run[r] \in RunRow /\ ReadingOf(r)
  BY DEF IInv, Stages, Reading, Counting, TypeOK
<1>1. CASE LockRun(r) \/ GraphAnswers(r) \/ LeaveRun(r) \/ \E u \in Users : ReadUser(r, u)
  <2>1. Statuses' = Statuses /\ UNCHANGED <<outcome, subscribed>>
    BY <1>1 DEF LockRun, GraphAnswers, LeaveRun, ReadUser, Statuses
  <2>2. QED BY <2>1, PromiseSleeps
<1>2. CASE StartRun(r)
  <2>1. run[r].status = "queued" /\ UNCHANGED <<outcome, subscribed>>
    BY <1>0, <1>2 DEF StartRun, Stage, TaskAt
  <2>2. [run[r] EXCEPT !.status = "running", !.fresh = TRUE].status = "running"
    BY <1>0 DEF RunRow
  <2>3. Statuses' = [Statuses EXCEPT ![r] = "running"]
    BY <1>0, <1>2, <2>2, StatusMoves DEF StartRun
  <2>4. Promise!Start(r)
    BY <2>1, <2>3 DEF Promise!Start, Statuses
  <2>5. QED BY <2>4 DEF Promise!Next
<1>3. CASE Snapshot(r)
  <2>1. run[r].status = "running" /\ Statuses' = Statuses /\ UNCHANGED subscribed
    BY <1>0, <1>3 DEF Snapshot, Stage, TaskAt, Working, Statuses
  <2>2. outcome[r] = Promise!Nothing
    BY <1>3 DEF Snapshot, Counting, BlankRun, Promise!Nothing
  <2>3. outcome' = [outcome EXCEPT ![r] = [u \in Users |-> IF subscribed[u] THEN "todo" ELSE "none"]]
    BY <1>3 DEF Snapshot
  <2>4. Promise!Enlist(r)
    BY <2>1, <2>2, <2>3 DEF Promise!Enlist, Statuses
  <2>5. QED BY <2>4 DEF Promise!Next
<1>4. CASE SaveUser(r)
  <2>1. task[r].user \in Todo(r) /\ subscribed[task[r].user]
    BY <1>0, <1>4 DEF SaveUser, ReadingOf, Holding, TaskAt
  <2>2. Promise!Fits(task[r].user, "saved")
    BY <2>1 DEF Promise!Fits
  <2>3. [run[r] EXCEPT !.succeeded = @ + 1] \in RunRow
        /\ [run[r] EXCEPT !.succeeded = @ + 1].status = run[r].status
    BY <1>0 DEF RunRow
  <2>4. QED BY <1>4, <2>1, <2>2, <2>3, CommitSettles DEF SaveUser
<1>5. CASE NoteFailure(r)
  <2>1. task[r].user \in Todo(r)
    BY <1>0, <1>5 DEF NoteFailure, ReadingOf, TaskAt
  <2>2. Promise!Fits(task[r].user, "failed")
    BY DEF Promise!Fits
  <2>3. [run[r] EXCEPT !.failed = @ + 1] \in RunRow
        /\ [run[r] EXCEPT !.failed = @ + 1].status = run[r].status
    BY <1>0 DEF RunRow
  <2>4. QED BY <1>5, <2>1, <2>2, <2>3, CommitSettles DEF NoteFailure
<1>6. ASSUME NEW u \in Users, SkipUser(r, u)
      PROVE  Promise!Next
  <2>1. Promise!Fits(u, "skipped")
    BY <1>6 DEF SkipUser, Eligible, Promise!Fits
  <2>2. [run[r] EXCEPT !.skipped = @ + 1] \in RunRow
        /\ [run[r] EXCEPT !.skipped = @ + 1].status = run[r].status
    BY <1>0 DEF RunRow
  <2>3. QED BY <1>6, <2>1, <2>2, CommitSettles DEF SkipUser
<1>7. CASE FinishRun(r)
  <2>1. run[r].status = "running" /\ UNCHANGED <<outcome, subscribed>>
    BY <1>0, <1>7 DEF FinishRun, Stage, TaskAt, Working
  <2>2. Result(run[r]) = Promise!Verdict(outcome[r])
    BY <1>0, ResultIsVerdict
  <2>3. Finished(run[r], Result(run[r])).status = Result(run[r])
    BY <1>0, <2>1 DEF Finished, Results, RunRow
  <2>4. Statuses' = [Statuses EXCEPT ![r] = Promise!Verdict(outcome[r])]
    BY <1>0, <1>7, <2>2, <2>3, StatusMoves DEF FinishRun
  <2>5. ~Promise!Some(outcome[r], "todo")
    BY <1>7 DEF FinishRun, Todo, Promise!Some
  <2>6. Promise!Finish(r)
    BY <2>1, <2>4, <2>5 DEF Promise!Finish, Statuses
  <2>7. QED BY <2>6 DEF Promise!Next
<1>8. CASE MarkUnknown(r)
  <2>1. UNCHANGED <<outcome, subscribed>> /\ run[r].status # "absent"
    BY <1>0, <1>8 DEF MarkUnknown, Stage, TaskAt
  <2>2. CASE run' = run
    <3>1. Statuses' = Statuses
      BY <2>2 DEF Statuses
    <3>2. QED BY <2>1, <3>1, PromiseSleeps
  <2>3. CASE run' = [run EXCEPT ![r] = Finished(run[r], "unknown")]
    <3>1. CASE run[r].status \in Results \cup {"unknown"}
      <4>1. Finished(run[r], "unknown").status = run[r].status
        BY <1>0, <3>1 DEF Finished, RunRow
      <4>2. Statuses' = Statuses
        BY <1>0, <2>3, <4>1, StatusStays
      <4>3. QED BY <2>1, <4>2, PromiseSleeps
    <3>2. CASE run[r].status \in {"queued", "running"}
      <4>1. Finished(run[r], "unknown").status = "unknown"
        BY <1>0, <3>2 DEF Finished, RunRow, Results
      <4>2. Statuses' = [Statuses EXCEPT ![r] = "unknown"]
        BY <1>0, <2>3, <4>1, StatusMoves
      <4>3. Promise!Lose(r)
        BY <2>1, <3>2, <4>2 DEF Promise!Lose, Statuses
      <4>4. QED BY <4>3 DEF Promise!Next
    <3>3. QED BY <1>0, <2>1, <3>1, <3>2 DEF RunRow
  <2>4. QED BY <1>8, <2>2, <2>3 DEF MarkUnknown
<1>9. QED BY <1>1, <1>2, <1>3, <1>4, <1>5, <1>6, <1>7, <1>8 DEF Proceed

\* So is every other step.
LEMMA PromiseStep == IInv /\ Counting /\ [Next]_vars => [Promise!Next]_Promise!sync
<1> SUFFICES ASSUME IInv, Counting, [Next]_vars
             PROVE  [Promise!Next]_Promise!sync
  OBVIOUS
<1>0. TypeOK
  BY DEF IInv
<1>1. CASE UNCHANGED <<run, outcome, subscribed>>
  <2>1. Statuses' = Statuses
    BY <1>1 DEF Statuses
  <2>2. QED BY <1>1, <2>1, PromiseSleeps
<1>2. ASSUME NEW p \in Procs, Insert(p)
      PROVE  [Promise!Next]_Promise!sync
  BY <1>2, InsertAccepts
<1>3. ASSUME NEW r \in Runs, Proceed(r)
      PROVE  [Promise!Next]_Promise!sync
  BY <1>3, ProceedKeeps
<1>4. ASSUME NEW r \in Runs, Heartbeat(r) \/ Stale(r)
      PROVE  [Promise!Next]_Promise!sync
  <2>1. PICK fresh \in BOOLEAN : run' = [run EXCEPT ![r].fresh = fresh]
    BY <1>4 DEF Heartbeat, Stale
  <2>2. \A s \in Runs : run'[s].status = run[s].status
    BY <1>0, <2>1 DEF TypeOK, RunRow
  <2>3. Statuses' = Statuses /\ UNCHANGED <<outcome, subscribed>>
    BY <1>4, <2>2 DEF Statuses, Heartbeat, Stale
  <2>4. QED BY <2>3, PromiseSleeps
<1>5. ASSUME NEW u \in Users, Unsubscribe(u) \/ Subscribe(u)
      PROVE  [Promise!Next]_Promise!sync
  <2>1. Statuses' = Statuses /\ outcome' = outcome
    BY <1>5 DEF Unsubscribe, Subscribe, Statuses
  <2>2. subscribed' = [subscribed EXCEPT ![u] = ~subscribed[u]]
    BY <1>0, <1>5, Zenon DEF Unsubscribe, Subscribe, TypeOK
  <2>3. Promise!ChangeMind(u)
    BY <2>1, <2>2 DEF Promise!ChangeMind
  <2>4. QED BY <2>3 DEF Promise!Next
<1>6. QED
  BY <1>1, <1>2, <1>3, <1>4, <1>5
     DEF Next, Ask, Go, vars, Submit, LockSubmission, Accept, SubmitFails, Crash, Interrupt, LockLost,
         LegacySync

\* The manual synchronization, with any number of API processes, crashes and lost locks,
\* implements its promise: the runs of one executor, one after the other.
THEOREM PromiseIsKept == Spec => ImplementsPromise
<1>1. QED BY InvInit, InvStep, CountingInit, CountingStep, PromiseInit, PromiseStep, PTL
             DEF Spec, Promise!Spec, ImplementsPromise

-----------------------------------------------------------------------------
(* What makes a run end.                                                   *)

\* The stages of a run, in their order, and those of one user within the fourth.
Phase(pc) == CASE pc = "started"  -> 1
               [] pc = "locked"   -> 2
               [] pc = "snapshot" -> 3
               [] pc \in {"next", "reading", "saving", "noting"} -> 4
               [] pc = "leaving"  -> 5
               [] pc = "marking"  -> 6
               [] pc = "none"     -> 7
Within(pc) == CASE pc = "next" -> 0 [] pc = "reading" -> 1 [] pc \in {"saving", "noting"} -> 2

\* The phase grows, or fewer users are left, or the user at hand gets further.
Forward(r) ==
  \/ Phase(task[r].pc) < Phase(task'[r].pc)
  \/ /\ Phase(task[r].pc) = 4 /\ Phase(task'[r].pc) = 4
     /\ Todo(r)' \subseteq Todo(r)
     /\ Todo(r)' # Todo(r) \/ Within(task[r].pc) < Within(task'[r].pc)

\* A run is executed by the task its own submission creates and by no other, every step of
\* which goes forward: nothing it does, or that happens to it, makes it do a user again.
RunsMoveOn ==
  [][\A r \in Runs :
       \/ task'[r] = task[r] /\ Todo(r)' \subseteq Todo(r)
       \/ ~TaskAt(r, "none") /\ Forward(r)
       \/ /\ TaskAt(r, "none") /\ outcome'[r] = outcome[r]
          /\ \E p \in Procs : RequestAt(p, "inserted") /\ request[p].run = r
                              /\ ~RequestAt(p, "inserted")']_vars

\* What a step does for one run.
Moves(r) ==
  \/ task'[r] = task[r] /\ Todo(r)' \subseteq Todo(r)
  \/ ~TaskAt(r, "none") /\ Forward(r)
  \/ /\ TaskAt(r, "none") /\ outcome'[r] = outcome[r]
     /\ \E p \in Procs : RequestAt(p, "inserted") /\ request[p].run = r
                         /\ ~RequestAt(p, "inserted")'

\* A run nobody touches stays.
LEMMA RunStays ==
  ASSUME NEW r \in Runs, task'[r] = task[r], outcome'[r] = outcome[r]
  PROVE  Moves(r)
  BY DEF Moves, Todo

\* A task that goes to a later phase goes forward.
LEMMA PhaseGrows ==
  ASSUME TypeOK, NEW r \in Runs, ~TaskAt(r, "none"), NEW pc, task'[r].pc = pc,
         Phase(task[r].pc) < Phase(pc)
  PROVE  Moves(r)
  BY DEF Moves, Forward

\* A user who is dealt with is no longer to be done.
LEMMA UserDone ==
  ASSUME TypeOK, NEW r \in Runs, NEW u \in Todo(r), NEW how \in {"saved", "failed", "skipped"},
         outcome' = [outcome EXCEPT ![r][u] = how]
  PROVE  /\ Todo(r)' \subseteq Todo(r) /\ Todo(r)' # Todo(r)
         /\ \A s \in Runs \ {r} : outcome'[s] = outcome[s]
<1>1. outcome \in [Runs -> [Users -> Outcomes]] /\ u \in Users /\ outcome[r][u] = "todo"
  BY DEF TypeOK, Todo
<1>2. outcome'[r] = [outcome[r] EXCEPT ![u] = how]
  BY <1>1
<1>3. outcome'[r][u] = how /\ \A v \in Users \ {u} : outcome'[r][v] = outcome[r][v]
  BY <1>1, <1>2
<1>4. Todo(r)' = Todo(r) \ {u}
  BY <1>1, <1>3 DEF Todo
<1>5. QED BY <1>1, <1>4

\* The steps of the execution itself.
LEMMA ProceedMoves ==
  ASSUME IInv, NEW r \in Runs, Proceed(r)
  PROVE  \A s \in Runs : Moves(s)
<1>0. TypeOK /\ ReadingOf(r) /\ task \in [Runs -> Task] /\ outcome \in [Runs -> [Users -> Outcomes]]
  BY DEF IInv, Reading, TypeOK
<1>1. CASE LockRun(r) \/ StartRun(r) \/ FinishRun(r) \/ LeaveRun(r) \/ MarkUnknown(r)
  <2>1. /\ outcome' = outcome
        /\ \A s \in Runs \ {r} : task'[s] = task[s]
    BY <1>0, <1>1 DEF LockRun, StartRun, FinishRun, LeaveRun, MarkUnknown, TaskTo
  <2>2. \/ task[r].pc = "started" /\ task'[r].pc \in {"locked", "marking"}
        \/ task[r].pc = "locked" /\ task'[r].pc = "snapshot"
        \/ task[r].pc = "next" /\ task'[r].pc = "leaving"
        \/ task[r].pc = "leaving" /\ task'[r].pc \in {"none", "marking"}
        \/ task[r].pc = "marking" /\ task'[r].pc = "none"
    <3>1. CASE LockRun(r)
      BY <1>0, <3>1 DEF LockRun, TaskTo, TaskAt, NoTask, Task
    <3>2. CASE StartRun(r)
      BY <1>0, <3>2 DEF StartRun, TaskTo, TaskAt, NoTask, Task
    <3>3. CASE FinishRun(r)
      BY <1>0, <3>3 DEF FinishRun, TaskTo, TaskAt, NoTask, Task
    <3>4. CASE LeaveRun(r)
      <4>1. task[r].pc = "leaving"
        BY <3>4 DEF LeaveRun, TaskAt
      <4>2. CASE task' = [task EXCEPT ![r] = NoTask]
        BY <1>0, <4>1, <4>2 DEF NoTask
      <4>3. CASE TaskTo(r, "marking")
        BY <1>0, <4>1, <4>3 DEF TaskTo, Task
      <4>4. QED BY <3>4, <4>2, <4>3 DEF LeaveRun
    <3>5. CASE MarkUnknown(r)
      BY <1>0, <3>5 DEF MarkUnknown, TaskTo, TaskAt, NoTask, Task
    <3>6. QED BY <1>1, <3>1, <3>2, <3>3, <3>4, <3>5
  <2>3. ~TaskAt(r, "none") /\ Phase(task[r].pc) < Phase(task'[r].pc)
    BY <2>2 DEF Phase, TaskAt
  <2>4. Moves(r)
    BY <1>0, <2>3, PhaseGrows
  <2>5. QED BY <2>1, <2>4, RunStays
<1>2. CASE Snapshot(r)
  <2>1. /\ \A s \in Runs \ {r} : task'[s] = task[s] /\ outcome'[s] = outcome[s]
        /\ task[r].pc = "snapshot" /\ task'[r].pc = "next"
    BY <1>0, <1>2 DEF Snapshot, TaskAt, TaskTo, Task
  <2>2. ~TaskAt(r, "none") /\ Phase(task[r].pc) < Phase(task'[r].pc)
    BY <2>1 DEF Phase, TaskAt
  <2>3. Moves(r)
    BY <1>0, <2>2, PhaseGrows
  <2>4. QED BY <2>1, <2>3, RunStays
<1>3. CASE GraphAnswers(r) \/ \E u \in Users : ReadUser(r, u)
  <2>1. /\ outcome' = outcome
        /\ \A s \in Runs \ {r} : task'[s] = task[s]
    BY <1>0, <1>3 DEF GraphAnswers, ReadUser
  <2>2. \/ task[r].pc = "next" /\ task'[r].pc = "reading"
        \/ task[r].pc = "reading" /\ task'[r].pc \in {"saving", "noting"}
    <3>1. CASE GraphAnswers(r)
      BY <1>0, <3>1 DEF GraphAnswers, TaskAt, Task
    <3>2. ASSUME NEW u \in Users, ReadUser(r, u)
          PROVE  task[r].pc = "next" /\ task'[r].pc = "reading"
      BY <1>0, <3>2 DEF ReadUser, TaskAt, Task
    <3>3. QED BY <1>3, <3>1, <3>2
  <2>3. /\ ~TaskAt(r, "none") /\ Phase(task[r].pc) = 4 /\ Phase(task'[r].pc) = 4
        /\ Within(task[r].pc) < Within(task'[r].pc)
    BY <2>2 DEF Phase, Within, TaskAt
  <2>4. Todo(r)' = Todo(r)
    BY <2>1 DEF Todo
  <2>5. Moves(r)
    BY <2>3, <2>4 DEF Moves, Forward
  <2>6. QED BY <2>1, <2>5, RunStays
<1>4. CASE SaveUser(r) \/ NoteFailure(r)
  <2>1. PICK u \in Todo(r), how \in {"saved", "failed"} :
          outcome' = [outcome EXCEPT ![r][u] = how]
    <3>1. task[r].user \in Todo(r)
      BY <1>0, <1>4 DEF SaveUser, NoteFailure, ReadingOf, TaskAt
    <3>2. QED BY <1>4, <3>1 DEF SaveUser, NoteFailure, Commit
  <2>2. /\ Todo(r)' \subseteq Todo(r) /\ Todo(r)' # Todo(r)
        /\ \A s \in Runs \ {r} : outcome'[s] = outcome[s]
    BY <1>0, <2>1, UserDone
  <2>3. /\ \A s \in Runs \ {r} : task'[s] = task[s]
        /\ task[r].pc \in {"saving", "noting"} /\ task'[r].pc = "next"
    BY <1>0, <1>4 DEF SaveUser, NoteFailure, TaskAt, TaskTo, Task
  <2>4. ~TaskAt(r, "none") /\ Phase(task[r].pc) = 4 /\ Phase(task'[r].pc) = 4
    BY <2>3 DEF Phase, TaskAt
  <2>5. Moves(r)
    BY <2>2, <2>4 DEF Moves, Forward
  <2>6. QED BY <2>2, <2>3, <2>5, RunStays
<1>5. ASSUME NEW u \in Users, SkipUser(r, u)
      PROVE  \A s \in Runs : Moves(s)
  <2>1. u \in Todo(r) /\ outcome' = [outcome EXCEPT ![r][u] = "skipped"] /\ task' = task
    BY <1>5 DEF SkipUser, Commit
  <2>2. /\ Todo(r)' \subseteq Todo(r)
        /\ \A s \in Runs \ {r} : outcome'[s] = outcome[s]
    BY <1>0, <2>1, UserDone
  <2>3. Moves(r)
    BY <2>1, <2>2 DEF Moves
  <2>4. QED BY <2>1, <2>2, <2>3, RunStays
<1>6. QED BY <1>1, <1>2, <1>3, <1>4, <1>5 DEF Proceed

\* Every other step, crashes and lost locks included.
LEMMA RestMoves ==
  ASSUME IInv, [Next]_vars, ~\E r \in Runs : Proceed(r)
  PROVE  \A s \in Runs : Moves(s)
<1>0. TypeOK /\ task \in [Runs -> Task] /\ request \in [Procs -> Request]
  BY DEF IInv, TypeOK
<1>1. CASE UNCHANGED <<task, outcome>>
  BY <1>1, RunStays
<1>2. ASSUME NEW p \in Procs, Accept(p)
      PROVE  \A s \in Runs : Moves(s)
  <2>1. PICK r \in Runs : r = request[p].run
    BY <1>0, <1>2 DEF Accept, TypeOK, Request, RequestAt
  <2>2. TaskAt(r, "none") /\ RequestAt(p, "inserted") /\ outcome' = outcome
    BY <1>2, <2>1 DEF Accept, IInv, Inserted
  <2>3. ~RequestAt(p, "inserted")'
    BY <1>0, <1>2 DEF Accept, Answer, NoRequest, RequestAt
  <2>4. Moves(r)
    BY <2>1, <2>2, <2>3 DEF Moves
  <2>5. \A s \in Runs \ {r} : task'[s] = task[s]
    BY <1>0, <1>2, <2>1 DEF Accept
  <2>6. QED BY <2>2, <2>4, <2>5, RunStays
<1>3. ASSUME NEW r \in Runs, Interrupt(r)
      PROVE  \A s \in Runs : Moves(s)
  <2>1. /\ \A s \in Runs \ {r} : task'[s] = task[s]
        /\ task'[r].pc = "marking" /\ outcome' = outcome
    BY <1>0, <1>3 DEF Interrupt, Unwound, TaskTo, Task
  <2>2. ~TaskAt(r, "none") /\ Phase(task[r].pc) < Phase(task'[r].pc)
    BY <1>3, <2>1 DEF Interrupt, Working, Phase, TaskAt
  <2>3. Moves(r)
    BY <1>0, <2>2, PhaseGrows
  <2>4. QED BY <2>1, <2>3, RunStays
<1>4. ASSUME NEW p \in Procs, Crash(p)
      PROVE  \A s \in Runs : Moves(s)
  <2> SUFFICES ASSUME NEW s \in Runs PROVE Moves(s)
    OBVIOUS
  <2>1. outcome' = outcome /\ task'[s] = IF s \in TasksOf(p) THEN NoTask ELSE task[s]
    BY <1>0, <1>4 DEF Crash
  <2>2. CASE s \notin TasksOf(p)
    BY <2>1, <2>2, RunStays
  <2>3. CASE s \in TasksOf(p)
    <3>1. task[s].proc = p /\ p # Nobody /\ task'[s].pc = "none"
      BY <2>1, <2>3, NobodyIsNobody DEF TasksOf, NoTask
    <3>2. ~TaskAt(s, "none")
      BY <1>0, <3>1 DEF TypeOK
    <3>3. Phase(task[s].pc) < Phase(task'[s].pc)
      BY <1>0, <3>1, <3>2 DEF Phase, TaskAt, Task, Working
    <3>4. QED BY <1>0, <3>2, <3>3, PhaseGrows
  <2>4. QED BY <2>2, <2>3
<1>5. QED BY <1>1, <1>2, <1>3, <1>4
     DEF Next, Ask, Go, vars, Submit, LockSubmission, Insert, SubmitFails, Heartbeat, Stale, LockLost,
         Unsubscribe, Subscribe, LegacySync

\* The measure behind RunsSettle: however many runs, users and processes there are, a run is
\* executed once, and each of its steps goes forward (calendar_runs.py:71, "Never restart
\* an idempotent request.").
THEOREM RunsGoForward == Spec => RunsMoveOn
<1>1. ASSUME IInv, [Next]_vars PROVE \A r \in Runs : Moves(r)
  BY <1>1, ProceedMoves, RestMoves
<1>2. Spec => []IInv
  BY InvInit, InvStep, PTL DEF Spec
<1>3. IInv /\ [Next]_vars => [\A r \in Runs :
       \/ task'[r] = task[r] /\ Todo(r)' \subseteq Todo(r)
       \/ ~TaskAt(r, "none") /\ Forward(r)
       \/ /\ TaskAt(r, "none") /\ outcome'[r] = outcome[r]
          /\ \E p \in Procs : RequestAt(p, "inserted") /\ request[p].run = r
                              /\ ~RequestAt(p, "inserted")']_vars
  BY <1>1 DEF Moves
<1>4. QED BY <1>2, <1>3, PTL DEF Spec, RunsMoveOn
=============================================================================
