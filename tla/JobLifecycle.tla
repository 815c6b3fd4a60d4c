---------------------------- MODULE JobLifecycle ----------------------------
(***************************************************************************)
(* What the recording queue promises of its jobs, without workers, leases, *)
(* locks or requests: each recording has at most one job under way, a job  *)
(* is attempted once, the end of an attempt is final, a job that nobody    *)
(* authorized never starts, and the paid transcription service is asked at *)
(* most once for an attempt that started.                                  *)
(***************************************************************************)
CONSTANTS Items, Jobs, ItemOf

VARIABLES
  status,      (* of each job                                              *)
  authorized,  (* somebody asked for this job                              *)
  charged      (* the service was asked to transcribe for this job         *)

lifecycle == <<status, authorized, charged>>

Ends == {"completed", "failed", "cancelled"}
UnderWay(j) == status[j] \in {"pending", "processing"}

Init ==
  /\ status = [j \in Jobs |-> "absent"]
  /\ authorized = [j \in Jobs |-> FALSE]
  /\ charged = [j \in Jobs |-> FALSE]

Create(j) ==
  /\ status[j] = "absent"
  /\ \A k \in Jobs : ItemOf[k] = ItemOf[j] => ~UnderWay(k)
  /\ status' = [status EXCEPT ![j] = "pending"]
  /\ \E yes \in BOOLEAN : authorized' = [authorized EXCEPT ![j] = yes]
  /\ UNCHANGED charged

Start(j) ==
  /\ status[j] = "pending" /\ authorized[j]
  /\ status' = [status EXCEPT ![j] = "processing"]
  /\ UNCHANGED <<authorized, charged>>

\* A request may still be on its way when the attempt has been given up.
Charge(j) ==
  /\ authorized[j] /\ status[j] \notin {"absent", "pending", "completed"} /\ ~charged[j]
  /\ charged' = [charged EXCEPT ![j] = TRUE]
  /\ UNCHANGED <<status, authorized>>

End(j) ==
  /\ status[j] = "processing"
  /\ \E end \in Ends : status' = [status EXCEPT ![j] = end]
  /\ UNCHANGED <<authorized, charged>>

\* One owner's pending jobs may all be withdrawn at once.
Withdraw ==
  /\ \E S \in SUBSET {j \in Jobs : status[j] = "pending"} :
       S # {} /\ status' = [j \in Jobs |-> IF j \in S THEN "cancelled" ELSE status[j]]
  /\ UNCHANGED <<authorized, charged>>

Remove(j) ==
  /\ status[j] \in {"failed", "cancelled"}
  /\ status' = [status EXCEPT ![j] = "deleted"]
  /\ UNCHANGED <<authorized, charged>>

Next == Withdraw \/ \E j \in Jobs : Create(j) \/ Start(j) \/ Charge(j) \/ End(j) \/ Remove(j)

Spec == Init /\ [][Next]_lifecycle
=============================================================================
