----------------------------- MODULE ProviderCalls -----------------------------
(***************************************************************************)
(* The AI providers: which route a processing policy permits, what the     *)
(* registry builds from it, and how the one external adapter spends its    *)
(* admission.                                                              *)
(*                                                                         *)
(* A run builds the provider its configuration asks for and makes one      *)
(* attempt.  The external adapter reserves the call in the SQLite ledger   *)
(* of its host, consumes a permit all hosts share, posts once, and records *)
(* the usage that was answered; each step is durable before the next, and  *)
(* a run may be cancelled or crash in between.                             *)
(***************************************************************************)
EXTENDS Naturals, Sequences, FiniteSets

CONSTANTS
  Runs,         (* processes that attempt a call                           *)
  Hosts,        (* hosts, each with a ledger of its own                    *)
  Requests,     (* fingerprints: a meeting, a model and the fixed text     *)
  Configs,      (* registries and policies besides those of the runtime    *)
  MaxMonth,     (* bounds time                                             *)
  MaxAttempts,  (* RetryPolicy.max_attempts                                *)
  MaxRequests,  (* reservations a month and host                           *)
  Cost,         (* tokens a call reserves                                  *)
  Budget,       (* tokens a month and host                                 *)
  None          (* no provider, host or request                            *)

ASSUME Bounds == /\ {MaxMonth, MaxAttempts} \subseteq Nat \ {0}
                 /\ {MaxRequests, Cost, Budget} \subseteq Nat
ASSUME NoneIsNone == None \notin Hosts \cup Requests
ASSUME RequestsAreFinite == IsFiniteSet(Requests)

VARIABLES
  config,  (* what the processes are configured with                       *)
  month,   (* the current month                                            *)
  ledger,  (* table calls of every host                                    *)
  permit,  (* businessai_synthetic_permits holds the permit                *)
  run,     (* where each attempt is                                        *)
  sent     (* history: the calls posted, in order                          *)

vars == <<config, month, ledger, permit, run, sent>>

-----------------------------------------------------------------------------
(* Routes and policies.                                                    *)

Kinds == {"local_transcript", "local_mock", "cloud", "workspace"}
Local == {"local_transcript", "local_mock"}
Features == {"summary", "action_items", "decisions"}
Analysis == {"summary", "action_items"}
Ids == {"local.transcript_only", "local.mock", "businessai.chat", "other"}

\* open: enabled, approved and of the policy's contract version; inside: in a workspace the
\* policy allows; private: verified, and not forwarded to a cloud; named: carries the
\* adapter's model and prompt version.
Routes == [id : Ids, kind : Kinds, open : BOOLEAN, features : SUBSET Features,
           inside : BOOLEAN, private : BOOLEAN, fallback : BOOLEAN,
           factory : {"none", "transcript_only", "mock"}, named : BOOLEAN]

\* ProviderCapabilities.valid_route.
ValidRoute(r) ==
  /\ r.kind = "local_transcript" => r.features = {}
  /\ r.kind \in Local => ~r.inside /\ ~r.private
  /\ r.kind = "local_mock" => r.features \subseteq Analysis

\* ProviderDescriptor.valid_preparation.
ValidPreparation(r) ==
  /\ r.kind \notin Local => r.factory = "none"
  /\ r.kind \in Local => /\ r.factory \in {"none", IF r.kind = "local_mock" THEN "mock"
                                                    ELSE "transcript_only"}
                         /\ ~r.named

\* adapter: no BusinessAI configuration, one its constructor or the registry refuses, or the
\* reviewed one.
Configuration ==
  [routes : SUBSET Routes, mode : {"disabled", "capability", "privacy"},
   allowed : Seq(Ids), required : SUBSET Features, requested : Ids,
   adapter : {"none", "wrong", "reviewed"}]
ASSUME ConfigsAreConfigurations == Configs \subseteq Configuration

ValidRegistry(c) ==
  /\ \A r \in c.routes : ValidRoute(r) /\ ValidPreparation(r)
  /\ \A r, s \in c.routes : r.id = s.id => r = s

ValidPolicy(c) == \A i, j \in DOMAIN c.allowed : c.allowed[i] = c.allowed[j] => i = j

\* Mutant: with AI disabled the transcript route stands in for a required analysis.
Permitted_Disguise(c, r) == r.open /\ r.kind = "local_transcript" /\ c.mode = "disabled"

Permitted(c, r) ==
  /\ r.open
  /\ IF c.mode = "disabled" THEN r.kind = "local_transcript" /\ c.required = {}
     ELSE /\ r.kind # "local_transcript" /\ c.required \subseteq r.features
          /\ r.kind = "workspace" => r.inside
          /\ c.mode = "privacy" => r.kind = "workspace" /\ r.private /\ ~r.fallback

\* select_provider: the first permitted candidate; a request is the only candidate.
Select(c, candidates) ==
  LET Fits(i) == \E r \in c.routes :
        r.id = candidates[i] /\ candidates[i] \in {c.allowed[j] : j \in DOMAIN c.allowed}
          /\ Permitted(c, r)
      fitting == {i \in DOMAIN candidates : Fits(i)}
  IN {candidates[i] : i \in {j \in fitting : \A k \in fitting : j <= k}}

\* The adapter is built for its own cloud route only, and a local factory for a route that
\* names it; nothing else can be executed.
Builds(c, r) ==
  IF r.id = "businessai.chat" /\ c.adapter # "none"
  THEN r.kind = "cloud" /\ ~r.fallback /\ r.named /\ c.adapter = "reviewed"
  ELSE /\ r.kind \in Local /\ r.factory # "none"
       /\ r.id = IF r.factory = "mock" THEN "local.mock" ELSE "local.transcript_only"

\* ProviderRegistry.create: the route a configuration builds, or none.
Created(c) ==
  {r \in c.routes : /\ ValidRegistry(c) /\ ValidPolicy(c)
                    /\ r.id \in Select(c, <<c.requested>>) /\ Builds(c, r)}

-----------------------------------------------------------------------------
(* The configurations of the runtime.                                      *)

LocalRoute(kind) ==
  [id |-> IF kind = "local_mock" THEN "local.mock" ELSE "local.transcript_only",
   kind |-> kind, open |-> TRUE, features |-> IF kind = "local_mock" THEN Analysis ELSE {},
   inside |-> FALSE, private |-> FALSE, fallback |-> FALSE,
   factory |-> IF kind = "local_mock" THEN "mock" ELSE "transcript_only", named |-> FALSE]

\* local_runtime_configuration, for the two implementations the bridge accepts.
LocalRuntime(kind) ==
  [routes |-> {LocalRoute(k) : k \in Local},
   mode |-> IF kind = "local_mock" THEN "capability" ELSE "disabled",
   allowed |-> <<LocalRoute(kind).id>>, requested |-> LocalRoute(kind).id,
   required |-> LocalRoute(kind).features, adapter |-> "none"]

\* businessai_runtime_configuration.
BusinessRuntime(enabled) ==
  [routes |-> {[id |-> "businessai.chat", kind |-> "cloud", open |-> enabled,
                features |-> Analysis, inside |-> FALSE, private |-> FALSE,
                fallback |-> FALSE, factory |-> "none", named |-> TRUE]},
   mode |-> "capability", allowed |-> <<"businessai.chat">>, requested |-> "businessai.chat",
   required |-> Analysis, adapter |-> IF enabled THEN "reviewed" ELSE "wrong"]

Runtime == {LocalRuntime(k) : k \in Local} \cup {BusinessRuntime(b) : b \in BOOLEAN}

-----------------------------------------------------------------------------
(* Ledgers and runs.                                                       *)

Surprises == {"usage_unknown", "over_limit"}
Row == [status : {"absent", "reserved", "reported"} \cup Surprises, month : 0 .. MaxMonth]
NoRow == [status |-> "absent", month |-> 0]

Retryable == {"timeout", "rate_limited", "unavailable"}
Lasting == {"configuration", "unknown"}
Outcomes == {"none", "succeeded", "invalid_output"} \cup Lasting \cup Retryable

\* dated: reserve knows the month it will count; counting: between BEGIN IMMEDIATE and the
\* commit of the reservation.
Stages == {"idle", "built", "dated", "counting", "reserved", "admitted", "posted", "done"}
RunState == [at : Stages, host : Hosts \cup {None}, request : Requests \cup {None},
             route : SUBSET Routes, month : 0 .. MaxMonth, attempt : 0 .. MaxAttempts,
             outcome : Outcomes]
IdleRun == [at |-> "idle", host |-> None, request |-> None, route |-> {}, month |-> 0,
            attempt |-> 0, outcome |-> "none"]

Init ==
  /\ config \in Configs \cup Runtime
  /\ month = 1 /\ permit = FALSE /\ sent = <<>>
  /\ ledger = [h \in Hosts |-> [q \in Requests |-> NoRow]]
  /\ run = [r \in Runs |-> IdleRun]

Goes(r, at) == run' = [run EXCEPT ![r].at = at]
Ends(r, outcome) ==
  run' = [run EXCEPT ![r].at = "done", ![r].outcome = outcome, ![r].month = 0]
External(r) == \E route \in run[r].route : route.id = "businessai.chat"

Tick ==
  /\ month < MaxMonth
  /\ month' = month + 1
  /\ UNCHANGED <<config, ledger, permit, run, sent>>

-----------------------------------------------------------------------------
(* An attempt: processing.process.                                         *)

\* A configuration that builds nothing fails the attempt before anything is started.
Attempt(r, h, q, n) ==
  LET route == Created(config) IN
  /\ run' = [run EXCEPT ![r] =
       [at |-> IF route = {} THEN "done" ELSE "built", host |-> h, request |-> q,
        route |-> route, month |-> 0, attempt |-> n,
        outcome |-> IF route = {} THEN "configuration" ELSE "none"]]
  /\ UNCHANGED <<config, month, ledger, permit, sent>>

Begin(r, h, q) == run[r].at = "idle" /\ Attempt(r, h, q, 1)

\* Mutant: every failure is retried, however often.
MayRetry_Forever(r) == run[r].outcome \notin {"none", "succeeded"}

\* RetryPolicy.delay_after gives a delay.
MayRetry(r) == run[r].outcome \in Retryable /\ run[r].attempt < MaxAttempts

Retry(r) ==
  /\ run[r].at = "done" /\ MayRetry(r)
  /\ Attempt(r, run[r].host, run[r].request, run[r].attempt + 1)

\* A new task, a cancellation or a crash: an open transaction is rolled back, and nothing
\* else is given back.
Leave(r) ==
  /\ run[r].at # "idle"
  /\ run' = [run EXCEPT ![r] = IdleRun]
  /\ UNCHANGED <<config, month, ledger, permit, sent>>

\* The local providers answer at once; their output is validated like any other.
AnswerLocally(r, outcome) ==
  /\ run[r].at = "built" /\ ~External(r)
  /\ outcome \in {"succeeded", "invalid_output"}
  /\ Ends(r, outcome)
  /\ UNCHANGED <<config, month, ledger, permit, sent>>

-----------------------------------------------------------------------------
(* The external call: BusinessAIProvider.process.                          *)

\* Mutant: the transaction locks the ledger only when it writes.
LockFree_Deferred(h) == h \in Hosts

\* BEGIN IMMEDIATE: one transaction of a ledger at a time.
LockFree(h) == \A r \in Runs : ~(run[r].at = "counting" /\ run[r].host = h)

Reserved(h, m) == {q \in Requests : ledger[h][q].status # "absent" /\ ledger[h][q].month = m}

\* Mutant: only this month's surprises block.
Surprised_ThisMonth(h) ==
  \E q \in Requests : ledger[h][q].status \in Surprises /\ ledger[h][q].month = month

Surprised(h) == \E q \in Requests : ledger[h][q].status \in Surprises

Admissible(h, q, m) ==
  /\ ~Surprised(h) /\ ledger[h][q].status = "absent"
  /\ Cardinality(Reserved(h, m)) < MaxRequests
  /\ Cardinality(Reserved(h, m)) * Cost + Cost <= Budget

\* The month is the one before the lock is waited for ...
ReadMonth(r) ==
  /\ run[r].at = "built" /\ External(r)
  /\ run' = [run EXCEPT ![r].at = "dated", ![r].month = month]
  /\ UNCHANGED <<config, month, ledger, permit, sent>>

\* ... and may be over when its reservations are counted.
Count(r) ==
  LET h == run[r].host IN
  /\ run[r].at = "dated" /\ LockFree(h) /\ Admissible(h, run[r].request, run[r].month)
  /\ Goes(r, "counting")
  /\ UNCHANGED <<config, month, ledger, permit, sent>>

\* Other input, a full or locked ledger, a permit that is gone or a database that fails; the
\* time of the attempt may run out while the permit is asked for.
Refuse(r, outcome) ==
  /\ run[r].at \in {"built", "dated", "counting", "reserved"} /\ External(r)
  /\ \/ outcome = "configuration"
     \/ run[r].at = "reserved" /\ outcome = "timeout"
  /\ Ends(r, outcome)
  /\ UNCHANGED <<config, month, ledger, permit, sent>>

Reserve(r) ==
  LET h == run[r].host IN
  /\ run[r].at = "counting"
  /\ ledger' = [ledger EXCEPT ![h][run[r].request] =
                  [status |-> "reserved", month |-> run[r].month]]
  /\ run' = [run EXCEPT ![r].at = "reserved", ![r].month = 0]
  /\ UNCHANGED <<config, month, permit, sent>>

\* Mutant: a permit that is already there admits as well.
Admitted_Again == TRUE

\* INSERT ... ON CONFLICT DO NOTHING RETURNING: the permit was not there.
Admitted == ~permit

\* The statement commits, and its answer arrives; when it does not, the run ends with the
\* permit consumed.
Consume(r, outcome) ==
  /\ run[r].at = "reserved"
  /\ Admitted /\ permit' = TRUE
  /\ IF outcome = "none" THEN Goes(r, "admitted") ELSE Ends(r, outcome)
  /\ UNCHANGED <<config, month, ledger, sent>>

Post(r) ==
  /\ run[r].at = "admitted"
  /\ sent' = Append(sent, <<run[r].host, run[r].request>>)
  /\ Goes(r, "posted")
  /\ UNCHANGED <<config, month, ledger, permit>>

\* Any answer but 200, or none in time: the reservation stays as it is.
NoResult(r, outcome) ==
  /\ run[r].at = "posted" /\ outcome \in Retryable \cup Lasting
  /\ Ends(r, outcome)
  /\ UNCHANGED <<config, month, ledger, permit, sent>>

\* UsageLedger.record, then the content is validated.  When the ledger cannot be written in
\* time the row stays reserved.
Record(r, usage, valid) ==
  LET h == run[r].host IN
  /\ run[r].at = "posted" /\ LockFree(h)
  /\ usage \in {"reported"} \cup Surprises
  /\ ledger' = [ledger EXCEPT ![h][run[r].request] = [@ EXCEPT !.status = usage]]
  /\ Ends(r, IF usage = "reported" /\ valid THEN "succeeded" ELSE "invalid_output")
  /\ UNCHANGED <<config, month, permit, sent>>

-----------------------------------------------------------------------------

Step(r) ==
  \/ \E h \in Hosts, q \in Requests : Begin(r, h, q)
  \/ Retry(r) \/ Leave(r)
  \/ \E o \in {"succeeded", "invalid_output"} : AnswerLocally(r, o)
  \/ ReadMonth(r) \/ Count(r) \/ Reserve(r)
  \/ \E o \in {"configuration", "timeout"} : Refuse(r, o)
  \/ \E o \in {"none", "configuration", "timeout"} : Consume(r, o)
  \/ Post(r)
  \/ \E o \in Retryable \cup Lasting : NoResult(r, o)
  \/ \E usage \in {"reported"} \cup Surprises, valid \in BOOLEAN : Record(r, usage, valid)

Next == Tick \/ \E r \in Runs : Step(r)

Spec == Init /\ [][Next]_vars

-----------------------------------------------------------------------------
(* Properties.                                                             *)

\* Configurations, ledgers and runs hold values of their types.
TypeOK ==
  /\ config \in Configuration
  /\ month \in 0 .. MaxMonth /\ permit \in BOOLEAN
  /\ ledger \in [Hosts -> [Requests -> Row]]
  /\ run \in [Runs -> RunState]
  /\ sent \in Seq(Hosts \X Requests)

\* Over all hosts, restarts, cancellations and retries at most one call is posted ("Shared,
\* lifetime single-use permit commits BEFORE any external send", businessai.py:91-93).
OneSend == Len(sent) <= 1

\* A month's reservations never exceed the request limit and the token budget, whatever runs
\* count at once and though the month may end before they do, and every call posted keeps its
\* reservation ("Every send consumes a reservation", businessai_budget.py:3); a run succeeds
\* only with its usage on record.
SendsAreAccounted ==
  /\ \A h \in Hosts, m \in 1 .. MaxMonth :
       /\ Cardinality(Reserved(h, m)) <= MaxRequests
       /\ Cardinality(Reserved(h, m)) * Cost <= Budget
  /\ \A i \in DOMAIN sent : ledger[sent[i][1]][sent[i][2]].status # "absent"
  /\ \A r \in Runs : External(r) /\ run[r].outcome = "succeeded" =>
       ledger[run[r].host][run[r].request].status = "reported"

\* Once a host has recorded a usage that is unknown or over the limit, it reserves nothing
\* more, not even for a run that was under way or after the month ends
\* (businessai_budget.py:42-44).
SurprisesBlock ==
  [][\A h \in Hosts, q \in Requests :
       ledger[h][q].status = "absent" /\ ledger'[h][q].status # "absent" =>
         \A p \in Requests : ledger[h][p].status \notin Surprises]_vars

\* Whatever is registered, a run executes the route that was asked for and no other: nothing
\* under a privacy policy, the bare transcript and no missing analysis with AI disabled, and
\* otherwise a route that has the required features ("Explicit requests never fall back",
\* policy.py:133; policy.py:113).
RouteHonoured ==
  \A r \in Runs : \A route \in run[r].route :
    /\ route.id = config.requested /\ route.open
    /\ config.mode # "privacy"
    /\ config.mode = "disabled" => route.factory = "transcript_only" /\ config.required = {}
    /\ config.mode = "capability" => /\ config.required \subseteq route.features
                                     /\ route.factory # "transcript_only"

-----------------------------------------------------------------------------
(* What the accounting promises, in terms of SpendingLedger.               *)

Promise == INSTANCE SpendingLedger WITH calls <- sent

\* Runs, transactions, permits, cancellations and crashes hidden, the ledgers and the calls are
\* those of an accountant who counts and reserves in one step, sends once, and writes down
\* usage for that call only (businessai_budget.py:42-44, businessai.py:91-93).
ImplementsPromise == Promise!Spec
=============================================================================
