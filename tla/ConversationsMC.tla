-------------------------- MODULE ConversationsMC --------------------------
(***************************************************************************)
(* For TLC: what the app stores of a conversation (Conversations), and, in *)
(* the other half of the behaviours, which share no variable with it, the  *)
(* sites screens over the ffc config (SiteScreens).                        *)
(***************************************************************************)
EXTENDS Conversations, SiteScreens, TLC

CONSTANTS c1, c2, h1, h2

VARIABLE part

Url(host, tls) == [host |-> host, tls |-> tls]
MCUrls == {Url(h1, TRUE), Url(h1, FALSE), Url(h2, TRUE)}
MCAdds == {[url |-> Url(h1, TRUE), auth |-> "oauth"], [url |-> Url(h2, TRUE), auth |-> "key"]}
\* One screen makes any call; another moves sites to other addresses.
MCDoes == c1 :> Ops @@ c2 :> {"url"}

\* The other half stays in one initial state.
MCInit ==
  /\ part \in {"conversation", "screens"}
  /\ Init /\ (part = "screens" => rows = <<>> /\ kind = "openai")
  /\ ScreenInit

MCNext ==
  /\ UNCHANGED part
  /\ \/ part = "conversation" /\ Next /\ UNCHANGED screenVars
     \/ part = "screens" /\ ScreenNext /\ UNCHANGED vars

MCSpec == MCInit /\ [][MCNext]_<<part, vars, screenVars>>
=============================================================================
