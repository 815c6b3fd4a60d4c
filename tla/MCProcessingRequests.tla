------------------------ MODULE MCProcessingRequests ------------------------
(***************************************************************************)
(* A small instance of ProcessingRequests for TLC.                         *)
(***************************************************************************)
EXTENDS ProcessingRequests, TLC

\* Calls, requests and the users who do not own the recording are interchangeable.
Symmetry == UNION {Permutations(S) : S \in {Calls, Requests, Users \ {Owner}}}

\* The bound of the run: the colleagues subscribe first and stay, and the owner joins, or joins
\* again, only while no call is under way.  He opts out at any time.
Colleagues == Users \ {Owner}
InScope ==
  IF Colleagues \subseteq subscribed
  THEN /\ Colleagues \subseteq subscribed'
       /\ Owner \in subscribed' \ subscribed => \A c \in Calls : call[c].at = "idle"
  ELSE subscribed' # subscribed

MCSpec == Init /\ [][Next /\ InScope]_vars
=============================================================================
