-------------------------- MODULE ServerLifecycle ---------------------------
(***************************************************************************)
(* What the assistant engine promises of each MCP server it hosts: it is   *)
(* opened once and closed once, a caller gets it only while it is open and *)
(* keeps it open by having it, and one that nobody has is closed in the    *)
(* end.  EngineServers implements this with reference counts, a cache,     *)
(* idle timers and two-phase closing.                                      *)
(***************************************************************************)
CONSTANTS Callers, Servers

VARIABLES
  state,  \* of each server: none, open, closed
  users   \* who has each server

vars == <<state, users>>

Init ==
  /\ state = [s \in Servers |-> "none"]
  /\ users = [s \in Servers |-> {}]

Open(s) ==
  /\ state[s] = "none"
  /\ state' = [state EXCEPT ![s] = "open"]
  /\ UNCHANGED users

Join(c, s) ==
  /\ state[s] = "open"
  /\ \A t \in Servers : c \notin users[t]
  /\ users' = [users EXCEPT ![s] = @ \cup {c}]
  /\ UNCHANGED state

Part(c, s) ==
  /\ c \in users[s]
  /\ users' = [users EXCEPT ![s] = @ \ {c}]
  /\ UNCHANGED state

Close(s) ==
  /\ state[s] = "open" /\ users[s] = {}
  /\ state' = [state EXCEPT ![s] = "closed"]
  /\ UNCHANGED users

Next ==
  \E s \in Servers :
    \/ Open(s) \/ Close(s)
    \/ \E c \in Callers : Join(c, s) \/ Part(c, s)

Spec == Init /\ [][Next]_vars

FairSpec == Spec /\ \A s \in Servers : WF_vars(Close(s))
=============================================================================
