---------------------------- MODULE SpendingLedger ----------------------------
(***************************************************************************)
(* What the accounting of the external AI calls promises, without runs,    *)
(* permits, transactions or retries: a reservation is found to fit and     *)
(* written at once, one call is ever sent and only for a reservation, and  *)
(* usage is recorded once, for the call that was sent.                     *)
(***************************************************************************)
EXTENDS Naturals, Sequences, FiniteSets

CONSTANTS Hosts, Requests, MaxRequests, Cost, Budget

VARIABLES
  month,   (* the current month                                            *)
  ledger,  (* of every host: what became of each request, and in which month *)
  calls    (* the calls sent, in order                                     *)

spending == <<month, ledger, calls>>

Surprising == {"usage_unknown", "over_limit"}

Init ==
  /\ month = 1 /\ calls = <<>>
  /\ ledger = [h \in Hosts |-> [q \in Requests |-> [status |-> "absent", month |-> 0]]]

PassTime == month' = month + 1 /\ UNCHANGED <<ledger, calls>>

Booked(h, m) == {q \in Requests : ledger[h][q].status # "absent" /\ ledger[h][q].month = m}

Fits(h, m) == /\ Cardinality(Booked(h, m)) < MaxRequests
              /\ Cardinality(Booked(h, m)) * Cost + Cost <= Budget

\* The month may have ended since the room in it was found.
Reserve(h, q, m) ==
  /\ ledger[h][q].status = "absent" /\ m <= month /\ Fits(h, m)
  /\ \A p \in Requests : ledger[h][p].status \notin Surprising
  /\ ledger' = [ledger EXCEPT ![h][q] = [status |-> "reserved", month |-> m]]
  /\ UNCHANGED <<month, calls>>

Send(h, q) ==
  /\ calls = <<>> /\ ledger[h][q].status = "reserved"
  /\ calls' = <<<<h, q>>>>
  /\ UNCHANGED <<month, ledger>>

Record(h, q) ==
  /\ calls = <<<<h, q>>>> /\ ledger[h][q].status = "reserved"
  /\ \E usage \in {"reported"} \cup Surprising :
       ledger' = [ledger EXCEPT ![h][q] = [@ EXCEPT !.status = usage]]
  /\ UNCHANGED <<month, calls>>

Next ==
  \/ PassTime
  \/ \E h \in Hosts, q \in Requests : Send(h, q) \/ Record(h, q)
                                      \/ \E m \in 1 .. month : Reserve(h, q, m)

Spec == Init /\ [][Next]_spending
=============================================================================
