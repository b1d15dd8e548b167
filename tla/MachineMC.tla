----------------------------- MODULE MachineMC ------------------------------
(***************************************************************************)
(* What ffc and the app keep on one machine, for TLC: the MCP server in    *)
(* the background, its audit log, the ffc binary and the app's own copy.   *)
(* They share no state, so each has the behaviours of one part.            *)
(***************************************************************************)
EXTENDS McpDaemon, AuditLog, FfcBinary, AppUpdates, TLC

VARIABLE part

machineVars == <<daemonVars, auditVars, binaryVars, appVars>>

\* The other parts stay in one initial state.
MCInit ==
  /\ part \in {"daemon", "audit", "binary", "app"}
  /\ DaemonInit /\ AuditInit /\ BinaryInit /\ AppInit
  /\ exe = CHOOSE v \in Versions : TRUE
  /\ part # "binary" => ~windows
  /\ part # "app" => goos = "darwin" /\ app = NoApp

\* Bounds: at most one old copy has a name of its own; on Windows only one
\* release is ever kept as ffc.prev.
OneOwnName == Cardinality({t \in Tools : aside'[t] # NoAside}) <= 1
PrevIsOne == windows => prev' \in {NoFile, CHOOSE v \in Versions : TRUE}

MCNext ==
  /\ UNCHANGED part
  /\ \/ part = "daemon" /\ DaemonNext /\ UNCHANGED <<auditVars, binaryVars, appVars>>
     \/ part = "audit" /\ AuditNext /\ UNCHANGED <<daemonVars, binaryVars, appVars>>
     \/ part = "binary" /\ BinaryNext /\ OneOwnName /\ PrevIsOne
        /\ UNCHANGED <<daemonVars, auditVars, appVars>>
     \/ part = "app" /\ AppNext /\ UNCHANGED <<daemonVars, auditVars, binaryVars>>

MCSpec == MCInit /\ [][MCNext]_<<part, machineVars>>

MCSymmetry == Permutations(Cmds) \cup Permutations(Pids) \cup Permutations(Tools)
=============================================================================
