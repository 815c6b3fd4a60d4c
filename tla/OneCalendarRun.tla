---------------------------- MODULE OneCalendarRun ----------------------------
(***************************************************************************)
(* What the manual calendar synchronization promises, without requests,    *)
(* tasks, processes, locks or heartbeats: one run at a time, a run whose   *)
(* end is unknown is followed by none, nobody is synchronized against his  *)
(* will, and a result says what became of every subscriber and stays.      *)
(***************************************************************************)
CONSTANTS Runs, People, Known

VARIABLES
  state,   (* of each run                                                  *)
  fate,    (* what became of each person in each run                       *)
  wants    (* who is subscribed                                            *)

sync == <<state, fate, wants>>

Nothing == [u \in People |-> "none"]
Open(r) == state[r] \in {"queued", "running", "unknown"}

Init ==
  /\ state = [r \in Runs |-> "absent"]
  /\ fate = [r \in Runs |-> Nothing]
  /\ wants \in [People -> BOOLEAN]

Accept(r) ==
  /\ state[r] = "absent" /\ \A s \in Runs : ~Open(s)
  /\ state' = [state EXCEPT ![r] = "queued"]
  /\ UNCHANGED <<fate, wants>>

Start(r) ==
  /\ state[r] = "queued"
  /\ state' = [state EXCEPT ![r] = "running"]
  /\ UNCHANGED <<fate, wants>>

Enlist(r) ==
  /\ state[r] = "running" /\ fate[r] = Nothing
  /\ fate' = [fate EXCEPT ![r] = [u \in People |-> IF wants[u] THEN "todo" ELSE "none"]]
  /\ UNCHANGED <<state, wants>>

\* Whoever has changed his mind is left out, whoever has not is not skipped.
Fits(u, how) ==
  CASE how = "saved"   -> wants[u]
    [] how = "skipped" -> ~(wants[u] /\ u \in Known)
    [] how = "failed"  -> TRUE

Settle(r, u) ==
  /\ state[r] = "running" /\ fate[r][u] = "todo"
  /\ \E how \in {"saved", "failed", "skipped"} :
       Fits(u, how) /\ fate' = [fate EXCEPT ![r] = [fate[r] EXCEPT ![u] = how]]
  /\ UNCHANGED <<state, wants>>

Some(f, how) == \E u \in People : f[u] = how

Verdict(f) ==
  CASE ~Some(f, "failed")                     -> "success"
    [] Some(f, "failed") /\ Some(f, "saved")  -> "partial"
    [] Some(f, "failed") /\ ~Some(f, "saved") -> "failed"

Finish(r) ==
  /\ state[r] = "running" /\ ~Some(fate[r], "todo")
  /\ state' = [state EXCEPT ![r] = Verdict(fate[r])]
  /\ UNCHANGED <<fate, wants>>

\* Nobody can tell any more how far the run came.
Lose(r) ==
  /\ state[r] \in {"queued", "running"}
  /\ state' = [state EXCEPT ![r] = "unknown"]
  /\ UNCHANGED <<fate, wants>>

ChangeMind(u) ==
  /\ wants' = [wants EXCEPT ![u] = ~wants[u]]
  /\ UNCHANGED <<state, fate>>

Next ==
  \/ \E r \in Runs : \/ Accept(r) \/ Start(r) \/ Enlist(r) \/ Finish(r) \/ Lose(r)
                     \/ \E u \in People : Settle(r, u)
  \/ \E u \in People : ChangeMind(u)

Spec == Init /\ [][Next]_sync
=============================================================================
