-------------------------- MODULE ProviderCallsProofs --------------------------
(***************************************************************************)
(* What ProviderCalls guarantees for any number of runs, hosts, requests   *)
(* and months and every configuration.  The invariant says what a run      *)
(* holds at each stage: a ledger nobody else counts, a reservation that    *)
(* stays, and the one right to post.                                       *)
(***************************************************************************)
EXTENDS ProviderCalls, FiniteSetTheorems, TLAPS

\* A run that may post, has posted, or was answered.
Spends(r) == \/ run[r].at \in {"admitted", "posted"}
             \/ External(r) /\ run[r].outcome = "succeeded"

\* A run that is somewhere has a host and a request; only one that ended has an outcome.
Placed ==
  \A r \in Runs : /\ run[r].at # "idle" => run[r].host \in Hosts /\ run[r].request \in Requests
                  /\ run[r].at # "done" => run[r].outcome = "none"

\* A run holds what its configuration builds.
Routed == \A r \in Runs : run[r].route \subseteq Created(config)

\* The permit lets one run through, once.
Single ==
  /\ \A r \in Runs : Spends(r) => permit
  /\ \A r, s \in Runs : Spends(r) /\ Spends(s) => r = s
  /\ Len(sent) <= 1 /\ (sent # <<>> => permit)
  /\ \A r \in Runs : run[r].at = "admitted" => sent = <<>>

\* The month a run counts is this one or one before.
Dated == \A r \in Runs : run[r].at \in {"dated", "counting"} => run[r].month \in 1 .. month

\* What a count found is still so when its reservation is written.
CountedBy(r) ==
  /\ ledger[run[r].host][run[r].request].status = "absent"
  /\ ~Surprised(run[r].host)
  /\ Cardinality(Reserved(run[r].host, run[r].month)) < MaxRequests
  /\ Cardinality(Reserved(run[r].host, run[r].month)) * Cost + Cost <= Budget
  /\ \A s \in Runs : run[s].at = "counting" /\ run[s].host = run[r].host => s = r

Counted == \A r \in Runs : run[r].at = "counting" => CountedBy(r)

\* Limits of every host and month; a call that is on its way or posted is reserved.
Limited ==
  /\ \A h \in Hosts, m \in 1 .. MaxMonth :
       /\ Cardinality(Reserved(h, m)) <= MaxRequests
       /\ Cardinality(Reserved(h, m)) * Cost <= Budget
  /\ \A r \in Runs : run[r].at \in {"reserved", "admitted", "posted"} =>
       ledger[run[r].host][run[r].request].status # "absent"
  /\ \A i \in DOMAIN sent : ledger[sent[i][1]][sent[i][2]].status # "absent"
  /\ \A r \in Runs : External(r) /\ run[r].outcome = "succeeded" =>
       ledger[run[r].host][run[r].request].status = "reported"

IInv ==
  /\ TypeOK /\ month \in 1 .. MaxMonth
  /\ Placed /\ Routed /\ Single /\ Dated /\ Counted /\ Limited

-----------------------------------------------------------------------------
(* Configurations and initial states.                                      *)

\* The runtime's configurations are configurations.
LEMMA RuntimeConfigurations == Runtime \subseteq Configuration
<1>1. ASSUME NEW k \in Local PROVE LocalRoute(k) \in Routes
  BY <1>1 DEF Local, LocalRoute, Routes, Ids, Kinds, Features, Analysis
<1>2. ASSUME NEW k \in Local PROVE LocalRuntime(k) \in Configuration
  <2>1. {LocalRoute(j) : j \in Local} \in SUBSET Routes
    BY <1>1
  <2>2. <<LocalRoute(k).id>> \in Seq(Ids) /\ LocalRoute(k).id \in Ids
    BY <1>1, <1>2 DEF Routes
  <2>3. LocalRoute(k).features \in SUBSET Features
    BY <1>1, <1>2 DEF Routes
  <2>4. QED BY <2>1, <2>2, <2>3 DEF LocalRuntime, Configuration
<1>3. ASSUME NEW b \in BOOLEAN PROVE BusinessRuntime(b) \in Configuration
  <2> DEFINE route == [id |-> "businessai.chat", kind |-> "cloud", open |-> b,
                       features |-> Analysis, inside |-> FALSE, private |-> FALSE,
                       fallback |-> FALSE, factory |-> "none", named |-> TRUE]
  <2>1. route \in Routes
    BY DEF Routes, Ids, Kinds, Features, Analysis
  <2>2. "businessai.chat" \in Ids /\ <<"businessai.chat">> \in Seq(Ids)
    BY DEF Ids
  <2>3. Analysis \in SUBSET Features
    BY DEF Analysis, Features
  <2>4. {route} \in SUBSET Routes
    BY <2>1
  <2> HIDE DEF route
  <2>5. BusinessRuntime(b) =
          [routes |-> {route}, mode |-> "capability", allowed |-> <<"businessai.chat">>,
           requested |-> "businessai.chat", required |-> Analysis,
           adapter |-> IF b THEN "reviewed" ELSE "wrong"]
    BY DEF BusinessRuntime, route
  <2>6. QED BY <2>2, <2>3, <2>4, <2>5 DEF Configuration
<1>4. QED BY <1>2, <1>3 DEF Runtime

\* What is built is registered.
LEMMA CreatedRegistered ==
  ASSUME NEW c \in Configuration PROVE Created(c) \subseteq Routes
  BY DEF Created, Configuration

\* The initial states satisfy the invariant.
LEMMA InvInit == Init => IInv
<1> SUFFICES ASSUME Init PROVE IInv
  OBVIOUS
<1>1. config \in Configuration
  BY RuntimeConfigurations, ConfigsAreConfigurations DEF Init
<1>2. NoRow \in Row /\ NoRow.status = "absent" /\ NoRow.month = 0
  BY Bounds DEF NoRow, Row
<1>3. IdleRun \in RunState /\ IdleRun.at = "idle" /\ IdleRun.outcome = "none"
      /\ IdleRun.route = {}
  BY Bounds DEF IdleRun, RunState, Stages, Outcomes
<1>4. TypeOK /\ month \in 1 .. MaxMonth
  <2>1. ledger \in [Hosts -> [Requests -> Row]]
    BY <1>2 DEF Init
  <2>2. run \in [Runs -> RunState]
    BY <1>3 DEF Init
  <2>3. sent \in Seq(Hosts \X Requests) /\ permit \in BOOLEAN
    <3>1. sent = <<>> /\ permit = FALSE
      BY DEF Init
    <3>2. <<>> \in Seq(Hosts \X Requests)
      OBVIOUS
    <3>3. QED BY <3>1, <3>2
  <2>4. month \in 0 .. MaxMonth /\ month \in 1 .. MaxMonth
    BY Bounds DEF Init
  <2>5. QED BY <1>1, <2>1, <2>2, <2>3, <2>4 DEF TypeOK
<1>5. Placed /\ Routed /\ Single /\ Dated /\ Counted
  BY <1>3 DEF Init, Placed, Routed, Single, Spends, External, Dated, Counted
<1>6. \A h \in Hosts, m \in 1 .. MaxMonth : Reserved(h, m) = {}
  BY <1>2 DEF Init, Reserved
<1>7. Cardinality({}) = 0 /\ 0 <= MaxRequests /\ 0 * Cost <= Budget
  BY FS_EmptySet, Bounds
<1>8. Limited
  <2>1. \A h \in Hosts, m \in 1 .. MaxMonth :
          Cardinality(Reserved(h, m)) <= MaxRequests /\ Cardinality(Reserved(h, m)) * Cost <= Budget
    BY <1>6, <1>7
  <2>2. \A s \in Runs : run[s] = IdleRun
    BY DEF Init
  <2>3. DOMAIN sent = {}
    BY DEF Init
  <2>4. QED BY <1>3, <2>1, <2>2, <2>3 DEF Limited
<1>9. QED BY <1>4, <1>5, <1>8 DEF IInv

-----------------------------------------------------------------------------
(* Types, places and routes.                                               *)

\* What a step of one run does to it, in one place for the cases below.
LEMMA StepTypes ==
  ASSUME IInv, NEW r \in Runs, Step(r)
  PROVE  TypeOK' /\ month' \in 1 .. MaxMonth /\ Placed' /\ Routed'
<1>1. run \in [Runs -> RunState] /\ run[r] \in RunState /\ config \in Configuration
      /\ Created(config) \subseteq Routes /\ month \in 1 .. MaxMonth
  BY CreatedRegistered DEF IInv, TypeOK
<1>2. config' = config /\ month' = month
  BY DEF Step, Begin, Retry, Attempt, Leave, AnswerLocally, ReadMonth, Count, Refuse,
         Reserve, Consume, Post, NoResult, Record
<1>3. ASSUME NEW at \in Stages, Goes(r, at), at # "done", run[r].at \notin {"idle", "done"}
      PROVE  run' \in [Runs -> RunState] /\ Placed' /\ Routed'
  BY <1>1, <1>2, <1>3 DEF Goes, RunState, Placed, Routed, IInv
<1>4. ASSUME NEW outcome \in Outcomes, Ends(r, outcome), run[r].at # "idle"
      PROVE  run' \in [Runs -> RunState] /\ Placed' /\ Routed'
  <2>1. ASSUME NEW state \in RunState
        PROVE  [state EXCEPT !.at = "done", !.outcome = outcome, !.month = 0] \in RunState
    <3>1. 0 \in 0 .. MaxMonth /\ "done" \in Stages
      BY Bounds DEF Stages
    <3>2. QED BY <1>4, <2>1, <3>1 DEF RunState
  <2>2. run' \in [Runs -> RunState]
    BY <1>1, <1>4, <2>1 DEF Ends
  <2>3. /\ run'[r].at = "done" /\ run'[r].host = run[r].host
        /\ run'[r].request = run[r].request /\ run'[r].route = run[r].route
        /\ \A s \in Runs \ {r} : run'[s] = run[s]
    BY <1>1, <1>4 DEF Ends, RunState
  <2>4. QED BY <1>2, <1>4, <2>2, <2>3 DEF Placed, Routed, IInv
<1>5. ASSUME NEW h \in Hosts, NEW q \in Requests, NEW n \in 1 .. MaxAttempts,
             Attempt(r, h, q, n)
      PROVE  run' \in [Runs -> RunState] /\ Placed' /\ Routed'
  <2> DEFINE new == [at |-> IF Created(config) = {} THEN "done" ELSE "built", host |-> h,
                     request |-> q, route |-> Created(config), month |-> 0, attempt |-> n,
                     outcome |-> IF Created(config) = {} THEN "configuration" ELSE "none"]
  <2>1. run' = [run EXCEPT ![r] = new]
    BY <1>5 DEF Attempt
  <2>2. new \in RunState
    BY <1>1, <1>5, Bounds DEF RunState, Stages, Outcomes, Lasting
  <2>3. /\ new.host \in Hosts /\ new.request \in Requests /\ new.route = Created(config)
        /\ new.at # "done" => new.outcome = "none"
    BY <1>5
  <2> HIDE DEF new
  <2>4. QED BY <1>1, <1>2, <2>1, <2>2, <2>3 DEF Placed, Routed, IInv
<1>6. ledger' \in [Hosts -> [Requests -> Row]] /\ permit' \in BOOLEAN
      /\ sent' \in Seq(Hosts \X Requests)
  <2>1. ledger \in [Hosts -> [Requests -> Row]] /\ permit \in BOOLEAN
        /\ sent \in Seq(Hosts \X Requests)
        /\ (run[r].at # "idle" => run[r].host \in Hosts /\ run[r].request \in Requests)
    BY DEF IInv, TypeOK, Placed
  <2>2. CASE Reserve(r)
    <3>1. [status |-> "reserved", month |-> run[r].month] \in Row
      BY <1>1 DEF RunState, Row
    <3>2. QED BY <2>1, <2>2, <3>1 DEF Reserve
  <2>3. CASE \E usage \in {"reported"} \cup Surprises, valid \in BOOLEAN : Record(r, usage, valid)
    <3>1. PICK usage \in {"reported"} \cup Surprises, valid \in BOOLEAN : Record(r, usage, valid)
      BY <2>3
    <3>2. run[r].host \in Hosts /\ run[r].request \in Requests
      BY <2>1, <3>1 DEF Record
    <3>3. ASSUME NEW row \in Row PROVE [row EXCEPT !.status = usage] \in Row
      BY <3>1 DEF Row
    <3>4. QED BY <2>1, <3>1, <3>2, <3>3 DEF Record
  <2>4. CASE Post(r)
    BY <2>1, <2>4 DEF Post
  <2>5. CASE \E o \in {"none", "configuration", "timeout"} : Consume(r, o)
    BY <2>1, <2>5 DEF Consume
  <2>6. QED
    BY <2>1, <2>2, <2>3, <2>4, <2>5
    DEF Step, Begin, Retry, Attempt, Leave, AnswerLocally, ReadMonth, Count, Refuse, NoResult
<1>7. run' \in [Runs -> RunState] /\ Placed' /\ Routed'
  <2>1. CASE \E h \in Hosts, q \in Requests : Begin(r, h, q)
    BY <1>5, <2>1, Bounds DEF Begin
  <2>2. CASE Retry(r)
    <3>1. run[r].host \in Hosts /\ run[r].request \in Requests
      BY <2>2 DEF Retry, IInv, Placed
    <3>2. run[r].attempt + 1 \in 1 .. MaxAttempts
      BY <1>1, <2>2, Bounds DEF Retry, MayRetry, RunState
    <3>3. QED BY <1>5, <2>2, <3>1, <3>2 DEF Retry
  <2>3. CASE Leave(r)
    <3>1. IdleRun \in RunState /\ IdleRun.at = "idle" /\ IdleRun.outcome = "none"
          /\ IdleRun.route = {}
      BY Bounds DEF IdleRun, RunState, Stages, Outcomes
    <3>2. run' = [run EXCEPT ![r] = IdleRun]
      BY <2>3 DEF Leave
    <3>3. QED BY <1>1, <1>2, <3>1, <3>2 DEF Placed, Routed, IInv
  <2>13. CASE Count(r)
    BY <1>3, <2>13 DEF Count, Stages
  <2>4. CASE ReadMonth(r)
    <3>1. run' = [run EXCEPT ![r].at = "dated", ![r].month = month]
      BY <2>4 DEF ReadMonth
    <3>2. run[r].at = "built"
      BY <2>4 DEF ReadMonth
    <3>3. month \in 0 .. MaxMonth /\ "dated" \in Stages
      BY <1>1 DEF Stages
    <3>4. ASSUME NEW state \in RunState
          PROVE  [state EXCEPT !.at = "dated", !.month = month] \in RunState
      BY <3>3, <3>4 DEF RunState
    <3>5. run' \in [Runs -> RunState]
      BY <1>1, <3>1, <3>4
    <3>6. /\ run'[r].host = run[r].host /\ run'[r].request = run[r].request
          /\ run'[r].route = run[r].route /\ run'[r].outcome = run[r].outcome
          /\ \A s \in Runs \ {r} : run'[s] = run[s]
      BY <1>1, <3>1 DEF RunState
    <3>7. QED BY <1>2, <3>2, <3>5, <3>6 DEF Placed, Routed, IInv
  <2>5. CASE \E o \in {"succeeded", "invalid_output"} : AnswerLocally(r, o)
    BY <1>4, <2>5 DEF AnswerLocally, Outcomes
  <2>6. CASE \E o \in {"configuration", "timeout"} : Refuse(r, o)
    BY <1>4, <2>6 DEF Refuse, Outcomes, Lasting, Retryable
  <2>7. CASE Reserve(r)
    <3>1. ASSUME NEW state \in RunState
          PROVE  [state EXCEPT !.at = "reserved", !.month = 0] \in RunState
      <4>1. 0 \in 0 .. MaxMonth /\ "reserved" \in Stages
        BY Bounds DEF Stages
      <4>2. QED BY <3>1, <4>1 DEF RunState
    <3>2. run' = [run EXCEPT ![r].at = "reserved", ![r].month = 0] /\ run[r].at = "counting"
      BY <2>7 DEF Reserve
    <3>3. run' \in [Runs -> RunState]
      BY <1>1, <3>1, <3>2
    <3>4. /\ run'[r].host = run[r].host /\ run'[r].request = run[r].request
          /\ run'[r].route = run[r].route /\ run'[r].outcome = run[r].outcome
          /\ \A s \in Runs \ {r} : run'[s] = run[s]
      BY <1>1, <3>2 DEF RunState
    <3>5. QED BY <1>2, <3>2, <3>3, <3>4 DEF Placed, Routed, IInv
  <2>8. CASE \E o \in {"none", "configuration", "timeout"} : Consume(r, o)
    BY <1>3, <1>4, <2>8 DEF Consume, Stages, Outcomes, Lasting, Retryable
  <2>9. CASE Post(r)
    BY <1>3, <2>9 DEF Post, Stages
  <2>10. CASE \E o \in Retryable \cup Lasting : NoResult(r, o)
    BY <1>4, <2>10 DEF NoResult, Outcomes
  <2>11. CASE \E usage \in {"reported"} \cup Surprises, valid \in BOOLEAN : Record(r, usage, valid)
    BY <1>4, <2>11 DEF Record, Outcomes
  <2>12. QED
    BY <2>1, <2>2, <2>3, <2>4, <2>5, <2>6, <2>7, <2>8, <2>9, <2>10, <2>11, <2>13 DEF Step
<1>8. QED BY <1>1, <1>2, <1>6, <1>7 DEF TypeOK

-----------------------------------------------------------------------------
(* The one call.                                                           *)

\* A step of a run leaves the others where they are.
LEMMA OthersStay ==
  ASSUME IInv, NEW r \in Runs, Step(r)
  PROVE  \A s \in Runs \ {r} : run'[s] = run[s]
<1>1. run \in [Runs -> RunState]
  BY DEF IInv, TypeOK
<1>2. QED
  BY <1>1 DEF Step, Begin, Retry, Attempt, Leave, AnswerLocally, ReadMonth, Count, Refuse, Reserve,
              Consume, Post, NoResult, Record, Goes, Ends

\* Only the permit lets a run begin to spend.
LEMMA SpendsBefore ==
  ASSUME IInv, NEW r \in Runs, Step(r),
         ~ \E o \in {"none", "configuration", "timeout"} : Consume(r, o)
  PROVE  /\ permit' = permit
         /\ Spends(r)' => Spends(r)
         /\ run'[r].at # "admitted"
<1>1. run \in [Runs -> RunState] /\ run[r] \in RunState
  BY DEF IInv, TypeOK
<1>2. permit' = permit
  BY DEF Step, Begin, Retry, Attempt, Leave, AnswerLocally, ReadMonth, Count, Refuse, Reserve,
         Post, NoResult, Record
<1>3. ASSUME NEW h \in Hosts \cup {None}, NEW q \in Requests \cup {None}, NEW n \in Nat,
             Attempt(r, h, q, n)
      PROVE  ~Spends(r)' /\ run'[r].at # "admitted"
  BY <1>1, <1>3 DEF Attempt, Spends, External
<1>4. ASSUME NEW outcome, Ends(r, outcome)
      PROVE  run'[r].at = "done" /\ run'[r].outcome = outcome /\ run'[r].route = run[r].route
  BY <1>1, <1>4 DEF Ends, RunState
<1>5. ASSUME NEW at, Goes(r, at)
      PROVE  run'[r].at = at /\ run'[r].outcome = run[r].outcome /\ run'[r].route = run[r].route
  BY <1>1, <1>5 DEF Goes, RunState
<1>6. (Spends(r)' => Spends(r)) /\ run'[r].at # "admitted"
  <2>1. CASE \E h \in Hosts, q \in Requests : Begin(r, h, q)
    BY <1>3, <2>1 DEF Begin
  <2>2. CASE Retry(r)
    <3>1. run[r].host \in Hosts \cup {None} /\ run[r].request \in Requests \cup {None}
          /\ run[r].attempt + 1 \in Nat
      BY <1>1, Bounds DEF RunState
    <3>2. QED BY <1>3, <2>2, <3>1 DEF Retry
  <2>3. CASE Leave(r)
    BY <1>1, <2>3 DEF Leave, IdleRun, Spends, External
  <2>4. CASE ReadMonth(r) \/ Count(r)
    BY <1>1, <2>4 DEF ReadMonth, Count, Goes, Spends, External, RunState
  <2>5. CASE \E o \in {"succeeded", "invalid_output"} : AnswerLocally(r, o)
    BY <1>4, <2>5 DEF AnswerLocally, Spends, External
  <2>6. CASE \E o \in {"configuration", "timeout"} : Refuse(r, o)
    BY <1>4, <2>6 DEF Refuse, Spends
  <2>7. CASE Reserve(r)
    BY <1>1, <2>7 DEF Reserve, Spends, External, RunState
  <2>8. CASE Post(r)
    BY <1>5, <2>8 DEF Post, Spends
  <2>9. CASE \E o \in Retryable \cup Lasting : NoResult(r, o)
    BY <1>4, <2>9 DEF NoResult, Spends, Retryable, Lasting
  <2>10. CASE \E usage \in {"reported"} \cup Surprises, valid \in BOOLEAN : Record(r, usage, valid)
    BY <1>4, <2>10 DEF Record, Spends
  <2>11. QED
    BY <2>1, <2>2, <2>3, <2>4, <2>5, <2>6, <2>7, <2>8, <2>9, <2>10 DEF Step
<1>7. QED BY <1>2, <1>6

\* The permit lets one run through, once.
LEMMA StepSingle ==
  ASSUME IInv, NEW r \in Runs, Step(r)
  PROVE  Single'
<1>1. /\ run \in [Runs -> RunState] /\ sent \in Seq(Hosts \X Requests)
      /\ Single /\ Placed
  BY DEF IInv, TypeOK
<1>2. \A s \in Runs \ {r} : (Spends(s)' <=> Spends(s)) /\ run'[s] = run[s]
  BY OthersStay DEF Spends, External
<1>3. CASE \E o \in {"none", "configuration", "timeout"} : Consume(r, o)
  <2>1. ~permit /\ permit' /\ sent' = sent
    BY <1>3 DEF Consume, Admitted
  <2>2. sent = <<>> /\ \A s \in Runs : ~Spends(s)
    BY <1>1, <2>1 DEF Single
  <2>3. \A s \in Runs : Spends(s)' => s = r
    BY <1>2, <2>2
  <2>4. QED BY <1>1, <2>1, <2>2, <2>3 DEF Single
<1>4. CASE ~ \E o \in {"none", "configuration", "timeout"} : Consume(r, o)
  <2>1. permit' = permit /\ (Spends(r)' => Spends(r)) /\ run'[r].at # "admitted"
    BY <1>4, SpendsBefore
  <2>2. \A s \in Runs : Spends(s)' => Spends(s)
    BY <1>2, <2>1
  <2>3. CASE Post(r)
    <3>1. Spends(r) /\ sent = <<>> /\ sent' = Append(sent, <<run[r].host, run[r].request>>)
      BY <1>1, <2>3 DEF Post, Spends, Single
    <3>2. Len(sent') = 1
      BY <3>1
    <3>3. \A s \in Runs : run'[s].at # "admitted"
      BY <1>1, <1>2, <2>1, <3>1 DEF Single, Spends
    <3>4. QED BY <1>1, <2>1, <2>2, <3>1, <3>2, <3>3 DEF Single
  <2>4. CASE ~Post(r)
    <3>1. sent' = sent
      BY <1>4, <2>4 DEF Step, Begin, Retry, Attempt, Leave, AnswerLocally, ReadMonth, Count, Refuse,
                        Reserve, NoResult, Record
    <3>2. \A s \in Runs : run'[s].at = "admitted" => run[s].at = "admitted"
      BY <1>2, <2>1
    <3>3. QED BY <1>1, <2>1, <2>2, <3>1, <3>2 DEF Single
  <2>5. QED BY <2>3, <2>4
<1>5. QED BY <1>3, <1>4

-----------------------------------------------------------------------------
(* The ledgers.                                                            *)

\* A ledger is written by the run that counts it, or while nobody counts it.
LEMMA LedgerStep ==
  ASSUME IInv, NEW r \in Runs, Step(r)
  PROVE  \/ Reserve(r)
         \/ \E usage \in {"reported"} \cup Surprises, valid \in BOOLEAN : Record(r, usage, valid)
         \/ ledger' = ledger
  BY DEF Step, Begin, Retry, Attempt, Leave, AnswerLocally, ReadMonth, Count, Refuse, Consume, Post,
         NoResult

\* Months pass only forwards.
LEMMA StepDated ==
  ASSUME IInv, NEW r \in Runs, Step(r)
  PROVE  Dated'
<1>1. /\ run \in [Runs -> RunState] /\ run[r] \in RunState /\ Dated
      /\ month \in 1 .. MaxMonth /\ MaxMonth \in Nat
  BY Bounds DEF IInv, TypeOK
<1>2. month' = month /\ \A s \in Runs \ {r} : run'[s] = run[s]
  BY OthersStay DEF Step, Begin, Retry, Attempt, Leave, AnswerLocally, ReadMonth, Count, Refuse,
                    Reserve, Consume, Post, NoResult, Record
<1>3. ASSUME run'[r].at \in {"dated", "counting"} PROVE run'[r].month \in 1 .. month
  <2>1. CASE ReadMonth(r)
    BY <1>1, <2>1 DEF ReadMonth, RunState
  <2>2. CASE Count(r)
    BY <1>1, <2>2 DEF Count, Goes, RunState, Dated
  <2>3. ASSUME NEW outcome, Ends(r, outcome) PROVE FALSE
    BY <1>1, <1>3, <2>3 DEF Ends, RunState
  <2>4. ASSUME NEW at \in {"admitted", "posted"}, Goes(r, at) PROVE FALSE
    BY <1>1, <1>3, <2>4 DEF Goes, RunState
  <2>9. ~Reserve(r)
    BY <1>1, <1>3 DEF Reserve, RunState
  <2>5. ASSUME NEW h \in Hosts \cup {None}, NEW q \in Requests \cup {None}, NEW n,
               Attempt(r, h, q, n)
        PROVE  FALSE
    BY <1>1, <1>3, <2>5 DEF Attempt
  <2>6. ~Leave(r)
    BY <1>1, <1>3 DEF Leave, IdleRun
  <2>7. ~Retry(r) /\ ~ \E h \in Hosts, q \in Requests : Begin(r, h, q)
    <3>1. run[r].host \in Hosts \cup {None} /\ run[r].request \in Requests \cup {None}
      BY <1>1 DEF RunState
    <3>2. QED BY <2>5, <3>1 DEF Retry, Begin
  <2>8. QED BY <2>1, <2>2, <2>3, <2>4, <2>6, <2>7, <2>9
            DEF Step, AnswerLocally, Refuse, Consume, Post, NoResult, Record
<1>4. QED BY <1>1, <1>2, <1>3 DEF Dated

\* What a count found is still so when its reservation is written.
LEMMA StepCounted ==
  ASSUME IInv, NEW r \in Runs, Step(r)
  PROVE  Counted'
<1>1. /\ run \in [Runs -> RunState] /\ ledger \in [Hosts -> [Requests -> Row]]
      /\ Counted /\ Placed /\ month \in 1 .. MaxMonth
  BY DEF IInv, TypeOK
<1>2. \A s \in Runs \ {r} : run'[s] = run[s]
  BY OthersStay
<1>3. ASSUME NEW h \in Hosts, ledger'[h] = ledger[h]
      PROVE  (Surprised(h)' <=> Surprised(h)) /\ \A m : Reserved(h, m)' = Reserved(h, m)
  BY <1>3 DEF Surprised, Reserved
<1>4. CASE Count(r)
  <2>1. /\ run'[r].at = "counting" /\ run'[r].host = run[r].host
        /\ run'[r].request = run[r].request /\ run'[r].month = run[r].month /\ ledger' = ledger
    BY <1>1, <1>4 DEF Count, Goes, RunState
  <2>2. LockFree(run[r].host) /\ Admissible(run[r].host, run[r].request, run[r].month)
        /\ run[r].host \in Hosts /\ run[r].request \in Requests
    BY <1>1, <1>4 DEF Count, Placed
  <2>3. \A s \in Runs : run'[s].at = "counting" /\ run'[s].host = run[r].host => s = r
    BY <1>2, <2>2 DEF LockFree
  <2>4. \A s \in Runs \ {r} : run'[s].at = "counting" => run'[s].host # run[r].host
    BY <2>3
  <2>5. ASSUME NEW s \in Runs, run'[s].at = "counting"
        PROVE  CountedBy(s)'
    <3>1. CASE s = r
      <4>1. (~Surprised(run[r].host))' /\ \A m : Reserved(run[r].host, m)' = Reserved(run[r].host, m)
        BY <2>1, <2>2, <1>3, <3>1 DEF Admissible, Surprised
      <4>2. QED BY <1>1, <2>1, <2>2, <2>3, <3>1, <4>1 DEF CountedBy, Admissible, Reserved
    <3>2. CASE s # r
      <4>1. run'[s] = run[s] /\ run[s].at = "counting" /\ run[s].host \in Hosts
        BY <1>1, <1>2, <2>5, <3>2 DEF Placed
      <4>2. \A p \in Runs : run'[p].at = "counting" /\ run'[p].host = run[s].host => p = s
        BY <1>1, <1>2, <2>1, <2>4, <2>5, <3>2, <4>1 DEF Counted, CountedBy
      <4>3. CountedBy(s)
        BY <1>1, <4>1 DEF Counted
      <4>4. QED BY <2>1, <4>1, <4>2, <4>3 DEF CountedBy, Surprised, Reserved
    <3>3. QED BY <3>1, <3>2
  <2>6. QED BY <2>5 DEF Counted
<1>5. CASE ~Count(r)
  <2>1. ASSUME NEW s \in Runs, run'[s].at = "counting"
        PROVE  run'[s] = run[s] /\ s # r
    <3>1. run'[r].at # "counting"
      <4>1. ASSUME NEW h \in Hosts \cup {None}, NEW q \in Requests \cup {None}, NEW n,
                   Attempt(r, h, q, n)
            PROVE  run'[r].at # "counting"
        BY <1>1, <4>1 DEF Attempt
      <4>2. CASE Retry(r)
        <5>1. run[r].host \in Hosts \cup {None} /\ run[r].request \in Requests \cup {None}
          BY <1>1 DEF RunState
        <5>2. QED BY <4>1, <4>2, <5>1 DEF Retry
      <4>3. CASE \E h \in Hosts, q \in Requests : Begin(r, h, q)
        BY <4>1, <4>3 DEF Begin
      <4>4. CASE Leave(r)
        BY <1>1, <4>4 DEF Leave, IdleRun
      <4>5. CASE ReadMonth(r) \/ Reserve(r) \/ Post(r)
        BY <1>1, <4>5 DEF ReadMonth, Reserve, Post, Goes, RunState
      <4>6. CASE \E o \in {"none", "configuration", "timeout"} : Consume(r, o)
        BY <1>1, <4>6 DEF Consume, Goes, Ends, RunState
      <4>7. ASSUME NEW outcome, Ends(r, outcome) PROVE run'[r].at # "counting"
        BY <1>1, <4>7 DEF Ends, RunState
      <4>8. QED BY <1>5, <4>2, <4>3, <4>4, <4>5, <4>6, <4>7
                DEF Step, AnswerLocally, Refuse, NoResult, Record
    <3>2. QED BY <1>2, <2>1, <3>1
  <2>2. ASSUME NEW s \in Runs, run'[s].at = "counting"
        PROVE  run[s].host \in Hosts /\ ledger'[run[s].host] = ledger[run[s].host]
    <3>1. run[s].at = "counting" /\ run[s].host \in Hosts /\ s # r
      BY <1>1, <2>1, <2>2 DEF Placed
    <3>2. CASE Reserve(r)
      <4>1. run[r].at = "counting" /\ run[r].host # run[s].host
        BY <1>1, <3>1, <3>2 DEF Reserve, Counted, CountedBy
      <4>2. QED BY <1>1, <3>1, <3>2, <4>1 DEF Reserve
    <3>3. CASE \E usage \in {"reported"} \cup Surprises, valid \in BOOLEAN : Record(r, usage, valid)
      <4>1. run[r].host # run[s].host
        BY <3>1, <3>3 DEF Record, LockFree
      <4>2. QED BY <1>1, <3>1, <3>3, <4>1 DEF Record
    <3>4. QED BY <3>1, <3>2, <3>3, LedgerStep
  <2>3. ASSUME NEW s \in Runs, run'[s].at = "counting"
        PROVE  CountedBy(s)'
    <3>1. run'[s] = run[s] /\ run[s].host \in Hosts /\ ledger'[run[s].host] = ledger[run[s].host]
      BY <2>1, <2>2, <2>3
    <3>2. CountedBy(s)
      BY <1>1, <2>3, <3>1 DEF Counted
    <3>3. \A p \in Runs : run'[p].at = "counting" /\ run'[p].host = run[s].host => p = s
      BY <2>1, <3>2 DEF CountedBy
    <3>4. QED BY <3>1, <3>2, <3>3 DEF CountedBy, Surprised, Reserved
  <2>4. QED BY <2>3 DEF Counted
<1>6. QED BY <1>4, <1>5

\* The reservation of a count that was admitted stays within the limits.
LEMMA OneMore ==
  ASSUME IInv, NEW h \in Hosts, NEW q \in Requests, NEW m \in 1 .. MaxMonth,
         ledger[h][q].status = "absent",
         Cardinality(Reserved(h, m)) < MaxRequests,
         Cardinality(Reserved(h, m)) * Cost + Cost <= Budget,
         ledger' = [ledger EXCEPT ![h][q] = [status |-> "reserved", month |-> m]]
  PROVE  \A g \in Hosts, n \in 1 .. MaxMonth :
           /\ Cardinality(Reserved(g, n)') <= MaxRequests
           /\ Cardinality(Reserved(g, n)') * Cost <= Budget
<1>1. ledger \in [Hosts -> [Requests -> Row]] /\ Limited
  BY DEF IInv, TypeOK
<1>2. SUFFICES ASSUME NEW g \in Hosts, NEW n \in 1 .. MaxMonth
               PROVE  /\ Cardinality(Reserved(g, n)') <= MaxRequests
                      /\ Cardinality(Reserved(g, n)') * Cost <= Budget
  OBVIOUS
<1>3. CASE g = h /\ n = m
  <2>1. Reserved(g, n)' = Reserved(h, m) \cup {q} /\ q \notin Reserved(h, m)
    BY <1>1, <1>3 DEF Reserved
  <2>2. IsFiniteSet(Reserved(h, m))
    BY RequestsAreFinite, FS_Subset DEF Reserved
  <2>3. Cardinality(Reserved(g, n)') = Cardinality(Reserved(h, m)) + 1
    BY <2>1, <2>2, FS_AddElement
  <2>4. Cardinality(Reserved(h, m)) \in Nat
    BY <2>2, FS_CardinalityType
  <2>5. ASSUME NEW k \in Nat, k < MaxRequests, k * Cost + Cost <= Budget
        PROVE  k + 1 <= MaxRequests /\ (k + 1) * Cost <= Budget
    <3>1. (k + 1) * Cost = k * Cost + Cost
      BY Bounds
    <3>2. QED BY <2>5, <3>1, Bounds
  <2>6. QED BY <2>3, <2>4, <2>5
<1>4. CASE ~(g = h /\ n = m)
  <2>1. Reserved(g, n)' = Reserved(g, n)
    BY <1>1, <1>4 DEF Reserved
  <2>2. QED BY <1>1, <2>1 DEF Limited
<1>5. QED BY <1>3, <1>4

\* A written row is not given up.
LEMMA RowsStay ==
  ASSUME IInv, NEW r \in Runs, Step(r)
  PROVE  \A h \in Hosts, q \in Requests :
           ledger[h][q].status # "absent" => ledger'[h][q].status # "absent"
<1>1. ledger \in [Hosts -> [Requests -> Row]] /\ Placed
  BY DEF IInv, TypeOK
<1>2. CASE Reserve(r)
  BY <1>1, <1>2 DEF Reserve
<1>3. CASE \E usage \in {"reported"} \cup Surprises, valid \in BOOLEAN : Record(r, usage, valid)
  <2>1. PICK usage \in {"reported"} \cup Surprises, valid \in BOOLEAN : Record(r, usage, valid)
    BY <1>3
  <2>2. run[r].host \in Hosts /\ run[r].request \in Requests /\ usage # "absent"
    BY <1>1, <2>1 DEF Record, Placed, Surprises
  <2>3. ASSUME NEW row \in Row PROVE [row EXCEPT !.status = usage].status = usage
    BY DEF Row
  <2>4. ledger'[run[r].host][run[r].request].status = usage
    BY <1>1, <2>1, <2>2, <2>3 DEF Record
  <2>5. QED BY <1>1, <2>1, <2>2, <2>4 DEF Record
<1>4. QED BY <1>2, <1>3, LedgerStep

\* Reservations stay within the limits.
LEMMA StepLimits ==
  ASSUME IInv, NEW r \in Runs, Step(r)
  PROVE  \A h \in Hosts, m \in 1 .. MaxMonth :
           /\ Cardinality(Reserved(h, m)') <= MaxRequests
           /\ Cardinality(Reserved(h, m)') * Cost <= Budget
<1>1. /\ ledger \in [Hosts -> [Requests -> Row]] /\ Placed /\ Dated /\ Counted /\ Limited
      /\ month \in 1 .. MaxMonth
  BY DEF IInv, TypeOK
<1>2. CASE Reserve(r)
  <2>1. /\ CountedBy(r) /\ run[r].host \in Hosts /\ run[r].request \in Requests
        /\ run[r].month \in 1 .. MaxMonth
    BY <1>1, <1>2, Bounds DEF Reserve, Dated, Counted, Placed
  <2>2. QED BY <1>2, <2>1, OneMore DEF Reserve, CountedBy
<1>3. CASE \E usage \in {"reported"} \cup Surprises, valid \in BOOLEAN : Record(r, usage, valid)
  <2>1. PICK usage \in {"reported"} \cup Surprises, valid \in BOOLEAN : Record(r, usage, valid)
    BY <1>3
  <2>2. /\ run[r].host \in Hosts /\ run[r].request \in Requests /\ usage # "absent"
        /\ ledger[run[r].host][run[r].request].status # "absent"
    BY <1>1, <2>1 DEF Record, Placed, Limited, Surprises
  <2>3. ASSUME NEW row \in Row
        PROVE  /\ [row EXCEPT !.status = usage].status = usage
               /\ [row EXCEPT !.status = usage].month = row.month
    BY DEF Row
  <2>4. \A h \in Hosts, q \in Requests :
          /\ ledger'[h][q].month = ledger[h][q].month
          /\ ledger'[h][q].status = "absent" <=> ledger[h][q].status = "absent"
    <3>1. ledger'[run[r].host][run[r].request].month = ledger[run[r].host][run[r].request].month
          /\ ledger'[run[r].host][run[r].request].status = usage
      BY <1>1, <2>1, <2>2, <2>3 DEF Record
    <3>2. QED BY <1>1, <2>1, <2>2, <3>1 DEF Record
  <2>5. \A h \in Hosts, m \in 1 .. MaxMonth : Reserved(h, m)' = Reserved(h, m)
    BY <2>4 DEF Reserved
  <2>6. QED BY <1>1, <2>5 DEF Limited
<1>4. CASE ledger' = ledger
  BY <1>1, <1>4 DEF Reserved, Limited
<1>5. QED BY <1>2, <1>3, <1>4, LedgerStep

\* A run that may still post, and every call posted, is reserved.
LEMMA StepReserved ==
  ASSUME IInv, NEW r \in Runs, Step(r)
  PROVE  /\ \A s \in Runs : run'[s].at \in {"reserved", "admitted", "posted"} =>
              ledger'[run'[s].host][run'[s].request].status # "absent"
         /\ \A i \in DOMAIN sent' : ledger'[sent'[i][1]][sent'[i][2]].status # "absent"
<1>1. /\ run \in [Runs -> RunState] /\ run[r] \in RunState /\ sent \in Seq(Hosts \X Requests)
      /\ ledger \in [Hosts -> [Requests -> Row]] /\ Placed /\ Limited
  BY DEF IInv, TypeOK
<1>2. \A s \in Runs \ {r} : run'[s] = run[s]
  BY OthersStay
<1>3. ASSUME NEW s \in Runs, s # r, run'[s].at \in {"reserved", "admitted", "posted"}
      PROVE  ledger'[run'[s].host][run'[s].request].status # "absent"
  BY <1>1, <1>2, <1>3, RowsStay DEF Placed, Limited
<1>4. ASSUME run'[r].at \in {"reserved", "admitted", "posted"}
      PROVE  ledger'[run'[r].host][run'[r].request].status # "absent"
  <2>1. CASE Reserve(r)
    <3>1. /\ run[r].host \in Hosts /\ run[r].request \in Requests
          /\ run'[r].host = run[r].host /\ run'[r].request = run[r].request
      BY <1>1, <2>1 DEF Reserve, Goes, RunState, Placed
    <3>2. ledger'[run[r].host][run[r].request] = [status |-> "reserved", month |-> run[r].month]
      BY <1>1, <2>1, <3>1 DEF Reserve
    <3>3. QED BY <3>1, <3>2
  <2>2. CASE Post(r) \/ \E o \in {"none", "configuration", "timeout"} : Consume(r, o)
    <3>1. /\ run[r].at \in {"reserved", "admitted"}
          /\ run'[r].host = run[r].host /\ run'[r].request = run[r].request
      BY <1>1, <2>2 DEF Post, Consume, Goes, Ends, RunState
    <3>2. QED BY <1>1, <3>1, RowsStay DEF Placed, Limited
  <2>3. ASSUME NEW outcome, Ends(r, outcome) PROVE FALSE
    BY <1>1, <1>4, <2>3 DEF Ends, RunState
  <2>4. ASSUME NEW h \in Hosts \cup {None}, NEW q \in Requests \cup {None}, NEW n,
               Attempt(r, h, q, n)
        PROVE  FALSE
    BY <1>1, <1>4, <2>4 DEF Attempt
  <2>5. ~Leave(r)
    BY <1>1, <1>4 DEF Leave, IdleRun
  <2>6. ~ReadMonth(r) /\ ~Count(r)
    BY <1>1, <1>4 DEF ReadMonth, Count, Goes, RunState
  <2>7. ~Retry(r)
    <3>1. run[r].host \in Hosts \cup {None} /\ run[r].request \in Requests \cup {None}
      BY <1>1 DEF RunState
    <3>2. QED BY <2>4, <3>1 DEF Retry
  <2>8. ~ \E h \in Hosts, q \in Requests : Begin(r, h, q)
    BY <2>4 DEF Begin
  <2>9. QED BY <2>1, <2>2, <2>3, <2>5, <2>6, <2>7, <2>8
            DEF Step, AnswerLocally, Refuse, NoResult, Record
<1>5. ASSUME NEW i \in DOMAIN sent'
      PROVE  ledger'[sent'[i][1]][sent'[i][2]].status # "absent"
  <2>1. CASE Post(r)
    <3>1. /\ run[r].at = "admitted" /\ run[r].host \in Hosts /\ run[r].request \in Requests
          /\ sent' = Append(sent, <<run[r].host, run[r].request>>)
      BY <1>1, <2>1 DEF Post, Placed
    <3>2. \/ i \in DOMAIN sent /\ sent'[i] = sent[i]
          \/ sent'[i] = <<run[r].host, run[r].request>>
      BY <1>1, <1>5, <3>1
    <3>3. CASE i \in DOMAIN sent /\ sent'[i] = sent[i]
      <4>1. sent[i][1] \in Hosts /\ sent[i][2] \in Requests
        BY <1>1, <3>3
      <4>2. QED BY <1>1, <3>3, <4>1, RowsStay DEF Limited
    <3>4. CASE sent'[i] = <<run[r].host, run[r].request>>
      BY <1>1, <3>1, <3>4, RowsStay DEF Limited
    <3>5. QED BY <3>2, <3>3, <3>4
  <2>2. CASE ~Post(r)
    <3>1. sent' = sent
      BY <2>2 DEF Step, Begin, Retry, Attempt, Leave, AnswerLocally, ReadMonth, Count, Refuse,
                  Reserve, Consume, NoResult, Record
    <3>2. sent[i][1] \in Hosts /\ sent[i][2] \in Requests
      BY <1>1, <1>5, <3>1
    <3>3. QED BY <1>1, <1>5, <3>1, <3>2, RowsStay DEF Limited
  <2>3. QED BY <2>1, <2>2
<1>6. QED BY <1>3, <1>4, <1>5

\* A run that succeeded with the adapter has its usage on record.
LEMMA StepReported ==
  ASSUME IInv, NEW r \in Runs, Step(r)
  PROVE  \A s \in Runs : (External(s) /\ run[s].outcome = "succeeded")' =>
           ledger'[run'[s].host][run'[s].request].status = "reported"
<1>1. /\ run \in [Runs -> RunState] /\ run[r] \in RunState
      /\ ledger \in [Hosts -> [Requests -> Row]] /\ Placed /\ Limited /\ Single /\ Counted
  BY DEF IInv, TypeOK
<1>2. \A s \in Runs \ {r} : run'[s] = run[s] /\ (External(s)' <=> External(s))
  BY OthersStay DEF External
<1>3. ASSUME NEW s \in Runs, s # r, (External(s) /\ run[s].outcome = "succeeded")'
      PROVE  ledger'[run'[s].host][run'[s].request].status = "reported"
  <2>1. /\ run'[s] = run[s] /\ External(s) /\ run[s].outcome = "succeeded"
    BY <1>2, <1>3
  <2>2. /\ Spends(s) /\ run[s].host \in Hosts /\ run[s].request \in Requests
        /\ ledger[run[s].host][run[s].request].status = "reported"
    BY <1>1, <2>1 DEF Spends, Placed, Limited
  <2>3. CASE Reserve(r)
    <3>1. /\ run[r].host \in Hosts /\ run[r].request \in Requests
          /\ ledger[run[r].host][run[r].request].status = "absent"
      BY <1>1, <2>3 DEF Reserve, Counted, CountedBy, Placed
    <3>2. QED BY <1>1, <2>1, <2>2, <2>3, <3>1 DEF Reserve
  <2>4. CASE \E usage \in {"reported"} \cup Surprises, valid \in BOOLEAN : Record(r, usage, valid)
    <3>1. Spends(r)
      BY <2>4 DEF Record, Spends
    <3>2. QED BY <1>1, <1>3, <2>2, <3>1 DEF Single
  <2>5. CASE ledger' = ledger
    BY <2>1, <2>2, <2>5
  <2>6. QED BY <2>3, <2>4, <2>5, LedgerStep
<1>4. ASSUME (External(r) /\ run[r].outcome = "succeeded")'
      PROVE  ledger'[run'[r].host][run'[r].request].status = "reported"
  <2>1. ASSUME NEW h \in Hosts \cup {None}, NEW q \in Requests \cup {None}, NEW n,
               Attempt(r, h, q, n)
        PROVE  FALSE
    BY <1>1, <1>4, <2>1 DEF Attempt
  <2>2. ASSUME NEW outcome, Ends(r, outcome)
        PROVE  outcome = "succeeded" /\ External(r)
    BY <1>1, <1>4, <2>2 DEF Ends, RunState, External
  <2>3. ASSUME NEW at, Goes(r, at) PROVE run[r].at = "done"
    BY <1>1, <1>4, <2>3 DEF Goes, RunState, Placed
  <2>4. ~Leave(r)
    BY <1>1, <1>4 DEF Leave, IdleRun
  <2>5. ~ReadMonth(r) /\ ~Count(r)
    BY <1>1, <1>4 DEF ReadMonth, Count, Goes, RunState, Placed
  <2>6. ~Retry(r)
    <3>1. run[r].host \in Hosts \cup {None} /\ run[r].request \in Requests \cup {None}
      BY <1>1 DEF RunState
    <3>2. QED BY <2>1, <3>1 DEF Retry
  <2>7. ~ \E h \in Hosts, q \in Requests : Begin(r, h, q)
    BY <2>1 DEF Begin
  <2>8. ~(Reserve(r) \/ Post(r))
    BY <1>1, <1>4, <2>3 DEF Reserve, RunState, Placed, Post
  <2>9. ~ \E o \in {"none", "configuration", "timeout"} : Consume(r, o)
    BY <2>2, <2>3 DEF Consume
  <2>10. ~ \E o \in {"succeeded", "invalid_output"} : AnswerLocally(r, o)
    BY <2>2 DEF AnswerLocally
  <2>11. ~ \E o \in {"configuration", "timeout"} : Refuse(r, o)
    BY <2>2 DEF Refuse
  <2>12. ~ \E o \in Retryable \cup Lasting : NoResult(r, o)
    BY <2>2 DEF NoResult, Retryable, Lasting
  <2>13. PICK usage \in {"reported"} \cup Surprises, valid \in BOOLEAN : Record(r, usage, valid)
    BY <2>4, <2>5, <2>6, <2>7, <2>8, <2>9, <2>10, <2>11, <2>12 DEF Step
  <2>14. /\ usage = "reported" /\ run[r].host \in Hosts /\ run[r].request \in Requests
         /\ run'[r].host = run[r].host /\ run'[r].request = run[r].request
    <3>1. usage = "reported"
      BY <2>2, <2>13 DEF Record
    <3>2. run[r].at = "posted" /\ \E outcome : Ends(r, outcome)
      BY <2>13 DEF Record
    <3>3. run'[r].host = run[r].host /\ run'[r].request = run[r].request
      BY <1>1, <3>2 DEF Ends, RunState
    <3>4. QED BY <1>1, <3>1, <3>2, <3>3 DEF Placed
  <2>15. ASSUME NEW row \in Row PROVE [row EXCEPT !.status = usage].status = usage
    BY DEF Row
  <2>16. QED BY <1>1, <2>13, <2>14, <2>15 DEF Record
<1>5. QED BY <1>3, <1>4

-----------------------------------------------------------------------------
(* The invariant and what follows from it.                                 *)

\* A run's step preserves the invariant.
LEMMA StepInv ==
  ASSUME IInv, NEW r \in Runs, Step(r)
  PROVE  IInv'
<1>1. Limited'
  BY StepLimits, StepReserved, StepReported DEF Limited
<1>2. QED BY <1>1, StepTypes, StepSingle, StepDated, StepCounted DEF IInv

\* Time that passes, and nothing, preserve the invariant.
LEMMA TickInv ==
  ASSUME IInv, Tick \/ UNCHANGED vars
  PROVE  IInv'
<1>1. UNCHANGED <<config, ledger, permit, run, sent>>
  BY DEF Tick, vars
<1>2. month' \in 1 .. MaxMonth /\ month' \in 0 .. MaxMonth
  BY Bounds DEF IInv, Tick, vars
<1>3. TypeOK'
  BY <1>1, <1>2 DEF IInv, TypeOK
<1>4. Placed' /\ Routed'
  BY <1>1 DEF IInv, Placed, Routed
<1>5. Single'
  BY <1>1 DEF IInv, Single, Spends, External
<1>6. Dated' /\ Counted'
  <2>1. month' = month \/ month' = month + 1
    BY DEF Tick, vars
  <2>2. Dated'
    BY <1>1, <2>1, Bounds DEF IInv, Dated
  <2>3. QED BY <1>1, <2>2 DEF IInv, Counted, CountedBy, Surprised, Reserved
<1>7. Limited'
  BY <1>1 DEF IInv, Limited, External, Reserved
<1>8. QED BY <1>2, <1>3, <1>4, <1>5, <1>6, <1>7 DEF IInv

\* The invariant holds of every reachable state.
THEOREM Invariant == Spec => []IInv
<1>1. IInv /\ [Next]_vars => IInv'
  BY StepInv, TickInv DEF Next
<1>2. QED BY InvInit, <1>1, PTL DEF Spec

\* Every reachable state is well typed; in particular no attempt is retried beyond the policy.
THEOREM TypesHold == Spec => []TypeOK
<1>1. IInv => TypeOK
  BY DEF IInv
<1>2. QED BY <1>1, Invariant, PTL

\* However many hosts, runs, retries and crashes there are, at most one call is posted.
THEOREM OneSendHolds == Spec => []OneSend
<1>1. IInv => OneSend
  BY DEF IInv, Single, OneSend
<1>2. QED BY <1>1, Invariant, PTL

\* Reservations stay within a month's limits whatever counts race, nothing is posted without
\* one, and an answer is used only with its usage on record.
THEOREM AccountedHolds == Spec => []SendsAreAccounted
<1>1. IInv => SendsAreAccounted
  BY DEF IInv, Limited, SendsAreAccounted
<1>2. QED BY <1>1, Invariant, PTL

\* What a configuration builds is the permitted route it asks for.
LEMMA CreatedHonoured ==
  ASSUME NEW c \in Configuration, NEW route \in Created(c)
  PROVE  /\ route.id = c.requested /\ route.open
         /\ c.mode # "privacy"
         /\ c.mode = "disabled" => route.factory = "transcript_only" /\ c.required = {}
         /\ c.mode = "capability" => /\ c.required \subseteq route.features
                                     /\ route.factory # "transcript_only"
<1>1. /\ route \in c.routes /\ route \in Routes /\ ValidRegistry(c) /\ Builds(c, route)
      /\ route.id \in Select(c, <<c.requested>>)
  BY DEF Created, Configuration
<1>2. PICK i \in DOMAIN <<c.requested>> :
        /\ route.id = <<c.requested>>[i]
        /\ \E s \in c.routes : s.id = <<c.requested>>[i] /\ Permitted(c, s)
  BY <1>1 DEF Select
<1>3. route.id = c.requested
  BY <1>2
<1>4. Permitted(c, route)
  BY <1>1, <1>2 DEF ValidRegistry
<1>5. ValidPreparation(route) /\ ValidRoute(route)
  BY <1>1 DEF ValidRegistry
<1>6. c.mode # "privacy"
  BY <1>1, <1>4 DEF Permitted, Builds, Local
<1>7. c.mode = "disabled" => route.factory = "transcript_only" /\ c.required = {}
  BY <1>1, <1>4, <1>5 DEF Permitted, Builds, Local, ValidPreparation
<1>8. c.mode = "capability" =>
        c.required \subseteq route.features /\ route.factory # "transcript_only"
  BY <1>1, <1>4, <1>5 DEF Permitted, ValidPreparation, Local
<1>9. QED BY <1>3, <1>4, <1>6, <1>7, <1>8 DEF Permitted

\* Whatever is registered and allowed, a run executes the route its configuration asks for.
THEOREM RouteHolds == Spec => []RouteHonoured
<1>1. IInv => RouteHonoured
  BY CreatedHonoured DEF IInv, TypeOK, Routed, RouteHonoured
<1>2. QED BY <1>1, Invariant, PTL

\* A host that recorded a surprising usage reserves nothing more.
THEOREM SurprisesHold == Spec => SurprisesBlock
<1>1. ASSUME IInv, [Next]_vars
      PROVE  [\A h \in Hosts, q \in Requests :
                ledger[h][q].status = "absent" /\ ledger'[h][q].status # "absent" =>
                  \A p \in Requests : ledger[h][p].status \notin Surprises]_vars
  <2>1. SUFFICES ASSUME NEW h \in Hosts, NEW q \in Requests, ledger[h][q].status = "absent",
                        ledger'[h][q].status # "absent"
                 PROVE  \A p \in Requests : ledger[h][p].status \notin Surprises
    OBVIOUS
  <2>2. PICK r \in Runs : Step(r)
    BY <1>1, <2>1 DEF Next, Tick, vars
  <2>3. ledger \in [Hosts -> [Requests -> Row]] /\ Counted /\ Limited /\ Placed
    BY <1>1 DEF IInv, TypeOK
  <2>4. CASE Reserve(r)
    <3>1. h = run[r].host
      BY <2>1, <2>3, <2>4 DEF Reserve
    <3>2. ~Surprised(run[r].host)
      BY <2>3, <2>4 DEF Reserve, Counted, CountedBy
    <3>3. QED BY <3>1, <3>2 DEF Surprised
  <2>5. CASE \E usage \in {"reported"} \cup Surprises, valid \in BOOLEAN : Record(r, usage, valid)
    <3>1. /\ run[r].host \in Hosts /\ run[r].request \in Requests
          /\ ledger[run[r].host][run[r].request].status # "absent"
      BY <2>3, <2>5 DEF Record, Placed, Limited
    <3>2. ledger'[h][q] = ledger[h][q]
      BY <2>1, <2>3, <2>5, <3>1 DEF Record
    <3>3. QED BY <2>1, <3>2
  <2>6. QED BY <1>1, <2>1, <2>2, <2>4, <2>5, LedgerStep
<1>2. QED BY <1>1, Invariant, PTL DEF Spec, SurprisesBlock

-----------------------------------------------------------------------------
(* ProviderCalls implements SpendingLedger.                                *)

Holds(r) == run[r].at \in {"reserved", "admitted", "posted"}

\* A reservation belongs to one run until its usage is recorded or the run is over; the call
\* of a run that waits for its answer is the one that was sent.
Booking ==
  /\ \A r \in Runs : Holds(r) => ledger[run[r].host][run[r].request].status = "reserved"
  /\ \A r, s \in Runs :
       Holds(r) /\ Holds(s) /\ run[r].host = run[s].host /\ run[r].request = run[s].request
         => r = s
  /\ \A r \in Runs : run[r].at = "posted" => sent = <<<<run[r].host, run[r].request>>>>

\* A run comes to hold a reservation by making it, and goes on holding the same one.
LEMMA HoldsBefore ==
  ASSUME IInv, NEW r \in Runs, Step(r), Holds(r)'
  PROVE  /\ Reserve(r) \/ Post(r) \/ \E o \in {"none", "configuration", "timeout"} : Consume(r, o)
         /\ run'[r].host = run[r].host /\ run'[r].request = run[r].request
         /\ run[r].host \in Hosts /\ run[r].request \in Requests
         /\ run'[r].at = "posted" => Post(r)
<1>1. run \in [Runs -> RunState] /\ run[r] \in RunState /\ Placed
  BY DEF IInv, TypeOK
<1>2. ASSUME NEW outcome, Ends(r, outcome) PROVE FALSE
  BY <1>1, <1>2 DEF Ends, RunState, Holds
<1>3. ASSUME NEW h \in Hosts \cup {None}, NEW q \in Requests \cup {None}, NEW n,
             Attempt(r, h, q, n)
      PROVE  FALSE
  BY <1>1, <1>3 DEF Attempt, Holds
<1>4. ~Leave(r)
  BY <1>1 DEF Leave, IdleRun, Holds
<1>5. ~ReadMonth(r) /\ ~Count(r)
  BY <1>1 DEF ReadMonth, Count, Goes, RunState, Holds
<1>6. ~Retry(r)
  <2>1. run[r].host \in Hosts \cup {None} /\ run[r].request \in Requests \cup {None}
    BY <1>1 DEF RunState
  <2>2. QED BY <1>3, <2>1 DEF Retry
<1>7. ~ \E h \in Hosts, q \in Requests : Begin(r, h, q)
  BY <1>3 DEF Begin
<1>8. Reserve(r) \/ Post(r) \/ \E o \in {"none", "configuration", "timeout"} : Consume(r, o)
  BY <1>2, <1>4, <1>5, <1>6, <1>7 DEF Step, AnswerLocally, Refuse, NoResult, Record
<1>9. CASE Reserve(r)
  BY <1>1, <1>9 DEF Reserve, RunState, Placed
<1>10. CASE ~Reserve(r)
  <2>1. \E at \in {"admitted", "posted"} :
          Goes(r, at) /\ (at = "posted" => Post(r)) /\ run[r].at # "idle"
    BY <1>2, <1>8, <1>10 DEF Post, Consume
  <2>2. QED BY <1>1, <1>8, <2>1 DEF Goes, RunState, Placed
<1>11. QED BY <1>8, <1>9, <1>10

\* The row of a run that goes on holding it is not touched by others, nor by itself.
LEMMA HeldRows ==
  ASSUME IInv, Booking, NEW r \in Runs, Step(r), NEW s \in Runs, Holds(s), Holds(s)'
  PROVE  ledger'[run[s].host][run[s].request] = ledger[run[s].host][run[s].request]
<1>1. /\ run \in [Runs -> RunState] /\ ledger \in [Hosts -> [Requests -> Row]]
      /\ Placed /\ Counted
  BY DEF IInv, TypeOK
<1>2. run[s].host \in Hosts /\ run[s].request \in Requests
      /\ ledger[run[s].host][run[s].request].status = "reserved"
  BY <1>1 DEF Placed, Booking, Holds
<1>3. CASE Reserve(r)
  <2>1. run[r].host \in Hosts /\ run[r].request \in Requests
        /\ ledger[run[r].host][run[r].request].status = "absent"
    BY <1>1, <1>3 DEF Reserve, Counted, CountedBy, Placed
  <2>2. QED BY <1>1, <1>2, <1>3, <2>1 DEF Reserve
<1>4. CASE \E usage \in {"reported"} \cup Surprises, valid \in BOOLEAN : Record(r, usage, valid)
  <2>1. Holds(r) /\ ~Holds(r)' /\ run[r].host \in Hosts /\ run[r].request \in Requests
    BY <1>1, <1>4 DEF Record, Ends, RunState, Holds, Placed
  <2>2. r # s
    BY <2>1
  <2>3. ~(run[r].host = run[s].host /\ run[r].request = run[s].request)
    BY <2>1, <2>2 DEF Booking
  <2>4. QED BY <1>1, <1>2, <1>4, <2>1, <2>3 DEF Record
<1>5. QED BY <1>3, <1>4, LedgerStep

LEMMA BookingStep ==
  ASSUME IInv, Booking, NEW r \in Runs, Step(r)
  PROVE  Booking'
<1>1. /\ run \in [Runs -> RunState] /\ run[r] \in RunState
      /\ ledger \in [Hosts -> [Requests -> Row]] /\ Placed /\ Counted /\ Single /\ month \in Nat
  BY DEF IInv, TypeOK
<1>2. \A s \in Runs \ {r} : run'[s] = run[s] /\ (Holds(s)' <=> Holds(s))
  BY OthersStay DEF Holds
<1>3. ASSUME NEW s \in Runs, Holds(s)'
      PROVE  /\ ledger'[run'[s].host][run'[s].request].status = "reserved"
             /\ run'[s].host = run[s].host /\ run'[s].request = run[s].request
             /\ Holds(s) \/ (s = r /\ Reserve(r))
  <2>1. CASE s = r /\ Reserve(r)
    <3>1. /\ run[r].host \in Hosts /\ run[r].request \in Requests
          /\ run'[r].host = run[r].host /\ run'[r].request = run[r].request
      BY <1>3, <2>1, HoldsBefore
    <3>2. ledger'[run[r].host][run[r].request] = [status |-> "reserved", month |-> run[r].month]
      BY <1>1, <2>1, <3>1 DEF Reserve
    <3>3. QED BY <2>1, <3>1, <3>2
  <2>2. CASE ~(s = r /\ Reserve(r))
    <3>1. Holds(s) /\ run'[s].host = run[s].host /\ run'[s].request = run[s].request
      <4>1. CASE s = r
        BY <1>3, <2>2, <4>1, HoldsBefore DEF Post, Consume, Holds
      <4>2. CASE s # r
        BY <1>2, <1>3, <4>2
      <4>3. QED BY <4>1, <4>2
    <3>2. ledger'[run[s].host][run[s].request] = ledger[run[s].host][run[s].request]
      BY <1>3, <3>1, HeldRows
    <3>3. ledger[run[s].host][run[s].request].status = "reserved"
      BY <3>1 DEF Booking
    <3>4. ledger'[run'[s].host][run'[s].request] = ledger'[run[s].host][run[s].request]
      BY <3>1
    <3>5. QED BY <3>1, <3>2, <3>3, <3>4, Zenon
  <2>3. QED BY <2>1, <2>2
<1>4. ASSUME NEW s \in Runs, NEW t \in Runs, Holds(s)', Holds(t)',
             run'[s].host = run'[t].host, run'[s].request = run'[t].request
      PROVE  s = t
  <2>1. /\ run[s].host = run[t].host /\ run[s].request = run[t].request
        /\ Holds(s) \/ (s = r /\ Reserve(r))
        /\ Holds(t) \/ (t = r /\ Reserve(r))
    BY <1>3, <1>4
  <2>2. CASE Holds(s) /\ Holds(t)
    BY <2>1, <2>2 DEF Booking
  <2>3. CASE Reserve(r) /\ (s = r \/ t = r)
    <3>1. ledger[run[r].host][run[r].request].status = "absent" /\ ~Holds(r)
      BY <1>1, <2>3 DEF Reserve, Counted, CountedBy, Holds
    <3>2. QED BY <2>1, <2>3, <3>1 DEF Booking
  <2>4. QED BY <2>1, <2>2, <2>3
<1>6. ASSUME NEW s \in Runs, run'[s].at = "posted"
      PROVE  sent' = <<<<run'[s].host, run'[s].request>>>>
  <2>1. CASE s = r
    <3>1. Post(r) /\ run'[r].host = run[r].host /\ run'[r].request = run[r].request
      BY <1>6, <2>1, HoldsBefore DEF Holds
    <3>2. sent = <<>> /\ sent' = Append(sent, <<run[r].host, run[r].request>>)
      BY <1>1, <3>1 DEF Post, Single
    <3>3. QED BY <2>1, <3>1, <3>2
  <2>2. CASE s # r
    <3>1. run'[s] = run[s] /\ Spends(s) /\ sent = <<<<run[s].host, run[s].request>>>>
      BY <1>2, <1>6, <2>2 DEF Booking, Spends
    <3>2. ~Post(r)
      BY <1>1, <2>2, <3>1 DEF Post, Single, Spends
    <3>3. sent' = sent
      BY <3>2 DEF Step, Begin, Retry, Attempt, Leave, AnswerLocally, ReadMonth, Count, Refuse,
                  Reserve, Consume, NoResult, Record
    <3>4. QED BY <3>1, <3>3
  <2>3. QED BY <2>1, <2>2
<1>7. \A s \in Runs : Holds(s)' => ledger'[run'[s].host][run'[s].request].status = "reserved"
  BY <1>3
<1>8. \A s, t \in Runs :
        Holds(s)' /\ Holds(t)' /\ run'[s].host = run'[t].host /\ run'[s].request = run'[t].request
          => s = t
  BY <1>4
<1>9. \A s \in Runs : run'[s].at = "posted" => sent' = <<<<run'[s].host, run'[s].request>>>>
  BY <1>6
<1>10. QED BY <1>7, <1>8, <1>9 DEF Booking

\* The initial states and the passing of time.
LEMMA BookingInit == Init => Booking
<1> SUFFICES ASSUME Init PROVE Booking
  OBVIOUS
<1>1. \A r \in Runs : run[r].at = "idle"
  BY DEF Init, IdleRun
<1>2. QED BY <1>1 DEF Booking, Holds

LEMMA BookingTick ==
  ASSUME IInv, Booking, Tick \/ UNCHANGED vars
  PROVE  Booking'
<1>1. UNCHANGED <<ledger, run, sent>>
  BY DEF Tick, vars
<1>2. QED BY <1>1 DEF Booking, Holds

\* The accountant counts as everybody does.
LEMMA SameCount ==
  ASSUME NEW S
  PROVE  Promise!Cardinality(S) = Cardinality(S)
  BY DEF Promise!Cardinality, Cardinality, Promise!IsFiniteSet, IsFiniteSet

\* A reservation is written where, and as, the accountant would have counted.
LEMMA ReserveBooks ==
  ASSUME IInv, Booking, NEW r \in Runs, Reserve(r)
  PROVE  Promise!Next
<1>1. /\ CountedBy(r) /\ run[r].host \in Hosts /\ run[r].request \in Requests
      /\ run[r].month \in 1 .. month /\ month \in 1 .. MaxMonth
  BY DEF IInv, Reserve, Counted, Dated, Placed
<1>2. PICK h \in Hosts, q \in Requests, m \in 1 .. month :
        h = run[r].host /\ q = run[r].request /\ m = run[r].month
  BY <1>1, Bounds
<1>3. Promise!Fits(h, m)
  <2>1. Promise!Booked(h, m) = Reserved(run[r].host, run[r].month)
    BY <1>2 DEF Promise!Booked, Reserved
  <2>2. /\ Cardinality(Reserved(run[r].host, run[r].month)) < MaxRequests
        /\ Cardinality(Reserved(run[r].host, run[r].month)) * Cost + Cost <= Budget
    BY <1>1 DEF CountedBy
  <2>3. Promise!Cardinality(Promise!Booked(h, m)) = Cardinality(Reserved(run[r].host, run[r].month))
    BY <2>1, SameCount
  <2>4. Promise!Cardinality(Promise!Booked(h, m)) * Cost
          = Cardinality(Reserved(run[r].host, run[r].month)) * Cost
    BY <2>3
  <2>5. QED BY <2>2, <2>3, <2>4 DEF Promise!Fits
<1>4. \A p \in Requests : ledger[h][p].status \notin Promise!Surprising
  BY <1>1, <1>2 DEF CountedBy, Surprised, Surprises, Promise!Surprising
<1>5. ledger[h][q].status = "absent" /\ m <= month
  BY <1>1, <1>2 DEF CountedBy
<1>6. ledger' = [ledger EXCEPT ![h][q] = [status |-> "reserved", month |-> m]]
      /\ UNCHANGED <<month, sent>>
  BY <1>2 DEF Reserve
<1>7. Promise!Reserve(h, q, m)
  BY <1>3, <1>4, <1>5, <1>6 DEF Promise!Reserve
<1>8. QED BY <1>7 DEF Promise!Next

\* A call is sent on a reservation, and its usage recorded on the same.
LEMMA PostSends ==
  ASSUME IInv, Booking, NEW r \in Runs, Post(r)
  PROVE  Promise!Next
<1>1. PICK h \in Hosts, q \in Requests : h = run[r].host /\ q = run[r].request
  BY DEF IInv, Placed, Post
<1>2. sent = <<>> /\ ledger[h][q].status = "reserved"
  BY <1>1 DEF IInv, Single, Booking, Holds, Post
<1>3. sent' = <<<<h, q>>>> /\ UNCHANGED <<month, ledger>>
  BY <1>1, <1>2 DEF Post
<1>4. Promise!Send(h, q)
  BY <1>2, <1>3 DEF Promise!Send
<1>5. QED BY <1>4 DEF Promise!Next

LEMMA RecordRecords ==
  ASSUME IInv, Booking, NEW r \in Runs, NEW usage \in {"reported"} \cup Surprises,
         NEW valid \in BOOLEAN, Record(r, usage, valid)
  PROVE  Promise!Next
<1>1. PICK h \in Hosts, q \in Requests : h = run[r].host /\ q = run[r].request
  BY DEF IInv, Placed, Record
<1>2. sent = <<<<h, q>>>> /\ ledger[h][q].status = "reserved"
  BY <1>1 DEF Booking, Holds, Record
<1>3. usage \in {"reported"} \cup Promise!Surprising /\ UNCHANGED <<month, sent>>
      /\ ledger' = [ledger EXCEPT ![h][q] = [@ EXCEPT !.status = usage]]
  BY <1>1 DEF Record, Surprises, Promise!Surprising
<1>4. Promise!Record(h, q)
  BY <1>2, <1>3 DEF Promise!Record
<1>5. QED BY <1>4 DEF Promise!Next

\* Every other step of a run is hidden.
LEMMA PromiseStep == IInv /\ Booking /\ [Next]_vars => [Promise!Next]_Promise!spending
<1> SUFFICES ASSUME IInv, Booking, [Next]_vars
             PROVE  [Promise!Next]_Promise!spending
  OBVIOUS
<1>1. CASE Tick
  <2>1. Promise!PassTime
    BY <1>1 DEF Tick, Promise!PassTime
  <2>2. QED BY <2>1 DEF Promise!Next
<1>2. CASE UNCHANGED vars
  BY <1>2 DEF vars, Promise!spending
<1>3. ASSUME NEW r \in Runs, Step(r)
      PROVE  [Promise!Next]_Promise!spending
  <2>1. CASE UNCHANGED <<month, ledger, sent>>
    BY <2>1 DEF Promise!spending
  <2>2. QED
    BY <1>3, <2>1, ReserveBooks, PostSends, RecordRecords
       DEF Step, Begin, Retry, Attempt, Leave, AnswerLocally, ReadMonth, Count, Refuse, Consume,
           NoResult
<1>4. QED BY <1>1, <1>2, <1>3 DEF Next

\* For every number of runs and hosts, counting and reserving are one step, one call is sent,
\* and each reservation has one usage at most: the concurrent runs implement the accountant.
THEOREM PromiseIsKept == Spec => ImplementsPromise
<1>1. Init => Promise!Init
  BY DEF Init, NoRow, Promise!Init
<1>2. Booking /\ IInv /\ [Next]_vars => Booking'
  BY BookingStep, BookingTick DEF Next
<1>3. QED BY <1>1, <1>2, BookingInit, Invariant, PromiseStep, PTL
             DEF Spec, Promise!Spec, ImplementsPromise
=============================================================================
