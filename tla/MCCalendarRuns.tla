---------------------------- MODULE MCCalendarRuns ----------------------------
(***************************************************************************)
(* A small instance of CalendarRuns for TLC: two runs one after the other, *)
(* or at once, for one subscriber, or one run for all users.               *)
(***************************************************************************)
EXTENDS CalendarRuns, TLC

UsedRuns == {r \in Runs : run[r].status # "absent" \/ \E p \in Procs : request[p].run = r}

\* Users who are, or were when a run took them up, subscribers.
Touched == {u \in Users : subscribed[u] \/ \E r \in Runs : outcome[r][u] # "none"}

First == CHOOSE u \in Linked : TRUE

\* The bound: a second run only while nobody but First is concerned.
InScope == Cardinality(UsedRuns) <= 1 \/ Touched \subseteq {First}

MCSpec == Init /\ [][(Ask /\ InScope') \/ Go]_vars /\ Fairness
=============================================================================
