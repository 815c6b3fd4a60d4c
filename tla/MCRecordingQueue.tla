-------------------------- MODULE MCRecordingQueue --------------------------
(***************************************************************************)
(* Small instances of RecordingQueue for TLC.                              *)
(***************************************************************************)
EXTENDS RecordingQueue, TLC

CONSTANTS i1, o1, j1, j2, j3, w1, w2, h1, h2, a1

OneItem == [j \in Jobs |-> i1]
OneOwner == [i \in Items |-> o1]

\* With one recording, its attempts are interchangeable, and so are the workers and the
\* handlers.
Symmetry == Permutations(Jobs) \cup Permutations(Workers) \cup Permutations(Handlers)
=============================================================================
