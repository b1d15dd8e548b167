---------------------------- MODULE AssistantMC ----------------------------
(***************************************************************************)
(* The runs of two conversations, and which model server a conversation    *)
(* may reach: two components that share no state, one in each half of the  *)
(* behaviours (part).                                                      *)
(***************************************************************************)
EXTENDS AssistantRuns, LocalModels, TLC

CONSTANT v2

VARIABLE part

\* Bound: the second screen makes its calls while there are no sites.
SecondScreen ==
  screen[v2] # IdleCall =>
    saved = [n \in Names |-> None] /\ sites = [n \in Names |-> None]

\* Bound: a site's rule is turned off while no run is on.
RunOrSettings ==
  turns # NoTurns => \A u \in Users : screen[u].at \notin {"earlier", "clear"}

\* Bound: keys are typed in and the provider is deleted while no run is on.
RunOrKeys ==
  turns # NoTurns =>
    /\ key = None /\ addr # None
    /\ \A u \in Users : screen[u].at \in {"unkey", "row"} => screen[u].arg # None
    /\ \A u \in Users : screen[u].at # "verify"

\* Bound: later turns are those of a client elsewhere.
LaterElsewhere == turns.by = "turn" => client.addr = "hosted"

\* Bound: nothing else happens while a run checks the rule for the first time,
\* which it does again for its client.
FirstRule ==
  turns.by = "run" /\ turns.at \in {"row", "config", "rule"} =>
    UNCHANGED <<siteVars, providerVars, screen>>

MCInit ==
  /\ part \in {"runs", "models"}
  /\ Init /\ LocalInit /\ (part = "runs" => conv = None)

MCNext ==
  /\ UNCHANGED part
  /\ \/ part = "runs" /\ Next /\ UNCHANGED localVars
     \/ /\ part = "models" /\ LocalNext /\ UNCHANGED vars
        /\ (SecondScreen /\ RunOrSettings /\ RunOrKeys /\ LaterElsewhere)' /\ FirstRule

MCSpec == MCInit /\ [][MCNext]_<<part, vars, localVars>>

MCSymmetry == Permutations(Names) \cup Permutations(Urls)
=============================================================================
