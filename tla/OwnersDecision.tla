---------------------------- MODULE OwnersDecision ----------------------------
(***************************************************************************)
(* What the requests to process somebody else's recording promise, without *)
(* calls, account locks, Graph, copies of rows or the meeting's metadata:  *)
(* each user has one request alive, a decision is made once and with its   *)
(* effect, it lets nothing be processed that nobody authorized, and those  *)
(* it was made for are among the viewers of the result, who stay until it  *)
(* is taken back for another attempt.  It does not promise that the owner  *)
(* still takes part, or that the recording is untouched, when a request    *)
(* is entered.                                                             *)
(***************************************************************************)
CONSTANTS Users, Owner, Requests, Nobody

VARIABLES
  consents,  (* whether the owner of the recording takes part              *)
  asked,     (* the requests: their status, who asked, whether the result
                was in sight when they were approved                       *)
  work,      (* what becomes of the recording                              *)
  ready,     (* whether there is a result                                  *)
  viewers    (* who is shown the result                                    *)

consent == <<consents, asked, work, ready, viewers>>

Init ==
  /\ consents = FALSE /\ work = "none" /\ ready = FALSE /\ viewers = {}
  /\ asked = [q \in Requests |-> [status |-> "absent", by |-> Nobody, late |-> FALSE]]

Waiting == work \in {"unauthorized", "pending"}
Alive(q) == asked[q].status \in {"pending", "approved"}

OptIn == consents' = TRUE /\ UNCHANGED <<asked, work, ready, viewers>>

\* What has not begun is not done for an owner who left.
OptOut ==
  /\ consents' = FALSE
  /\ work' = IF Waiting THEN "ended" ELSE work
  /\ UNCHANGED <<asked, ready, viewers>>

Ask(q, u) ==
  /\ u # Owner
  /\ asked[q].status = "absent" /\ \A r \in Requests : Alive(r) => asked[r].by # u
  /\ asked' = [asked EXCEPT ![q] = [status |-> "pending", by |-> u, late |-> FALSE]]
  /\ UNCHANGED <<consents, work, ready, viewers>>

Deny(q) ==
  /\ asked[q].status = "pending"
  /\ asked' = [asked EXCEPT ![q].status = "denied"]
  /\ UNCHANGED <<consents, work, ready, viewers>>

\* The recording is queued unless it has been; nobody has authorized its processing.
Enqueue == work' = IF work = "none" THEN "unauthorized" ELSE work

\* Nobody is shown what is not there, and no request takes the result from those shown it.
MoreViewers ==
  /\ viewers' \in SUBSET Users /\ viewers \subseteq viewers'
  /\ ready \/ viewers' = viewers
  /\ UNCHANGED ready

\* Whoever was approved without the result in sight is shown it if it has come meanwhile;
\* there is none in sight before somebody authorized its processing.
Approve(q, late) ==
  /\ asked[q].status = "pending"
  /\ Enqueue /\ MoreViewers
  /\ IF late THEN work \notin {"none", "unauthorized"} ELSE ready => asked[q].by \in viewers'
  /\ asked' = [asked EXCEPT ![q] = [@ EXCEPT !.status = "approved", !.late = late]]
  /\ UNCHANGED consents

\* The owner wants it processed.
Process == consents /\ Enqueue /\ MoreViewers /\ UNCHANGED <<consents, asked>>

\* The file is found in the drive of somebody who took part: nobody has authorized anything.
Notice ==
  /\ work = "none" /\ work' = "unauthorized"
  /\ UNCHANGED <<consents, asked, ready, viewers>>

\* The owner's import, or a retry: another attempt while none is waiting or under way.  The result
\* may be taken back for it, from all who were shown it.
Authorize ==
  /\ work \in {"none", "ended", "completed"} /\ work' = "pending"
  /\ \/ UNCHANGED <<ready, viewers>>
     \/ work # "none" /\ ready' = FALSE /\ viewers' = {}
  /\ UNCHANGED <<consents, asked>>

Start ==
  /\ work = "pending" /\ work' = "processing"
  /\ UNCHANGED <<consents, asked, ready, viewers>>

\* The attempt gives a result, or there is one and it stands.
Finish ==
  /\ work = "processing" /\ work' = "completed"
  /\ IF ready THEN UNCHANGED <<ready, viewers>>
     ELSE /\ ready' = TRUE /\ viewers' \in SUBSET Users
          /\ \A q \in Requests : asked[q].status = "approved" => asked[q].by \in viewers'
  /\ UNCHANGED <<consents, asked>>

Stop ==
  /\ Waiting \/ work = "processing"
  /\ work' = "ended"
  /\ UNCHANGED <<consents, asked, ready, viewers>>

Next ==
  \/ OptIn \/ OptOut \/ Process \/ Notice \/ Authorize \/ Start \/ Finish \/ Stop
  \/ \E q \in Requests : \/ Deny(q) \/ \E late \in BOOLEAN : Approve(q, late)
                         \/ \E u \in Users : Ask(q, u)

Spec == Init /\ [][Next]_consent
=============================================================================
