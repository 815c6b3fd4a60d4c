---------------------------- MODULE MCProviderCalls ----------------------------
(***************************************************************************)
(* A small instance of ProviderCalls for TLC.                              *)
(***************************************************************************)
EXTENDS ProviderCalls, TLC

\* Runs, hosts and requests are interchangeable.
Symmetry == UNION {Permutations(S) : S \in {Runs, Hosts, Requests}}

Closed(r) == [r EXCEPT !.open = FALSE]
Cloud == CHOOSE r \in BusinessRuntime(TRUE).routes : TRUE
Workspace == [Cloud EXCEPT !.id = "other", !.kind = "workspace", !.features = Features,
                           !.inside = TRUE, !.private = TRUE]

\* Local, cloud and workspace routes, and variants of them that a check must stop.
Catalogue ==
  LET transcript == LocalRoute("local_transcript")  mock == LocalRoute("local_mock")
  IN {transcript, Closed(transcript), mock,
      [transcript EXCEPT !.features = Analysis], [mock EXCEPT !.factory = "transcript_only"],
      [mock EXCEPT !.id = "other"], Cloud, Closed(Cloud), [Cloud EXCEPT !.fallback = TRUE],
      [Cloud EXCEPT !.kind = "workspace", !.inside = TRUE, !.private = TRUE],
      Workspace, [Workspace EXCEPT !.private = FALSE], [Workspace EXCEPT !.inside = FALSE]}

\* Each of them beside a sound route of its own or of another kind.
Sound == {LocalRoute(k) : k \in Local} \cup {Workspace}

MCConfigs ==
  [routes : {{a, b} : a \in Catalogue, b \in Sound}, mode : {"disabled", "capability", "privacy"},
   allowed : {<<>>, <<"other", "local.mock">>, <<"local.transcript_only", "businessai.chat">>,
              <<"local.mock", "local.mock">>},
   required : {{}, Analysis, {"decisions"}}, requested : Ids, adapter : {"none", "wrong", "reviewed"}]
=============================================================================
