-------------------------- MODULE AssistantProofs --------------------------
(***************************************************************************)
(* Proofs about the assistant's runs (AssistantRuns) and about which model *)
(* server a conversation may reach (LocalModels), for any conversations,   *)
(* sites and numbers of callers, runs and screens.                         *)
(***************************************************************************)
EXTENDS AssistantRuns, LocalModels, TLAPS

-----------------------------------------------------------------------------
(* The provider's key.                                                     *)

InCall == {"unkey", "row", "unrow", "verify"}

ProviderDomain ==
  /\ DOMAIN screen = Users
  /\ \A u \in Users :
       screen[u] \in [at : InCall \cup {"idle", "earlier", "clear"},
                      arg : Names \cup Addrs \cup {None}, clear : SUBSET Names]
  /\ addr \in Addrs \cup {None}
  /\ key \in Addrs \cup {None}

\* A screen that changes the provider holds its lock.
LockHeld == \A u \in Users : screen[u].at \in InCall => holder = u

\* What a screen may rely on while it holds the lock.
CallKnows ==
  \A u \in Users :
    /\ screen[u].at \in {"unkey", "row"} => screen[u].arg \in Addrs \cup {None}
    /\ screen[u].at = "row" => key = None \/ key = screen[u].arg
    /\ screen[u].at = "verify" => addr = screen[u].arg

KeyInv == ProviderDomain /\ LockHeld /\ CallKnows /\ KeyIsOfItsAddress

LEMMA KeyBegins == LocalInit => KeyInv
  BY NoneIsNothing DEF LocalInit, KeyInv, ProviderDomain, LockHeld, CallKnows,
     KeyIsOfItsAddress, IdleCall, InCall, Addrs

\* A screen that goes on without the lock and leaves provider and key alone.
LEMMA KeyUnlocked ==
  ASSUME KeyInv, NEW u \in Users,
         screen[u].at \notin InCall,
         UNCHANGED providerVars,
         DOMAIN screen' = Users,
         \A v \in Users \ {u} : screen'[v] = screen[v],
         screen'[u] \in [at : {"idle", "earlier", "clear"},
                         arg : Names \cup Addrs \cup {None}, clear : SUBSET Names]
  PROVE  KeyInv'
  BY DEF KeyInv, ProviderDomain, LockHeld, CallKnows, KeyIsOfItsAddress, InCall,
     providerVars

LEMMA KeyStays ==
  ASSUME KeyInv, UNCHANGED <<providerVars, screen>>
  PROVE  KeyInv'
  BY DEF KeyInv, ProviderDomain, LockHeld, CallKnows, KeyIsOfItsAddress, InCall,
     providerVars

\* The steps of the settings' screens.
LEMMA KeySettings ==
  ASSUME KeyInv, NEW u \in Users,
         \/ \E n \in Names, on \in BOOLEAN : SaveSettings(u, n, on)
         \/ ListEarlier(u) \/ ClearEarlier(u)
  PROVE  KeyInv'
<1>1. CASE \E n \in Names, on \in BOOLEAN : SaveSettings(u, n, on)
  <2>1. PICK n \in Names, on \in BOOLEAN : SaveSettings(u, n, on)
    BY <1>1
  <2>2. CASE on
    BY <2>1, <2>2, KeyStays DEF SaveSettings
  <2>3. CASE ~on
    <3>1. screen' = [screen EXCEPT ![u] = [IdleCall EXCEPT !.at = "earlier", !.arg = n]]
      BY <2>1, <2>3, Zenon DEF SaveSettings
    <3>2. screen[u].at = "idle" /\ UNCHANGED providerVars
      BY <2>1 DEF SaveSettings
    <3> QED BY <3>1, <3>2, KeyUnlocked DEF KeyInv, ProviderDomain, InCall, IdleCall
  <2> QED BY <2>2, <2>3
<1>2. CASE ListEarlier(u)
  <2>1. PICK D \in SUBSET Names :
          screen' = [screen EXCEPT ![u] = [@ EXCEPT !.at = "clear", !.clear = D]]
    <3> DEFINE D == {m \in Names \ {screen[u].arg} :
                       /\ ~InConfig(m) /\ saved[m] # None /\ saved[m].on
                       /\ saved[m].url = saved[screen[u].arg].url}
    <3>1. screen' = [screen EXCEPT ![u] = [@ EXCEPT !.at = "clear", !.clear = D]]
      BY <1>2, Zenon DEF ListEarlier
    <3>2. D \in SUBSET Names
      OBVIOUS
    <3> QED BY <3>1, <3>2, Zenon
  <2>2. screen[u].at = "earlier" /\ UNCHANGED providerVars
    BY <1>2 DEF ListEarlier
  <2>3. screen'[u] \in [at : {"idle", "earlier", "clear"},
                         arg : Names \cup Addrs \cup {None}, clear : SUBSET Names]
    BY <2>1 DEF KeyInv, ProviderDomain
  <2>4. DOMAIN screen' = Users /\ \A v \in Users \ {u} : screen'[v] = screen[v]
    BY <2>1 DEF KeyInv, ProviderDomain
  <2> QED BY <2>2, <2>3, <2>4, KeyUnlocked DEF InCall
<1>3. CASE ClearEarlier(u)
  BY <1>3, KeyUnlocked DEF ClearEarlier, KeyInv, ProviderDomain, IdleCall, InCall
<1> QED BY <1>1, <1>2, <1>3

\* A call begins: it takes the lock and knows what it read.
LEMMA KeyBegin ==
  ASSUME KeyInv, NEW u \in Users,
         \/ \E a \in Addrs : BeginSave(u, a)
         \/ BeginDeleteProvider(u) \/ BeginSetKey(u)
  PROVE  KeyInv'
<1> USE NoneIsNothing DEF KeyInv, ProviderDomain, LockHeld, CallKnows,
        KeyIsOfItsAddress, InCall, Lock, IdleCall
<1>1. ASSUME NEW a \in Addrs, BeginSave(u, a) PROVE KeyInv'
  <2>1. CASE addr = a
    BY <1>1, <2>1 DEF BeginSave
  <2>2. CASE addr # a
    BY <1>1, <2>2 DEF BeginSave
  <2> QED BY <2>1, <2>2
<1>2. CASE BeginDeleteProvider(u)
  BY <1>2 DEF BeginDeleteProvider
<1>3. CASE BeginSetKey(u)
  BY <1>3 DEF BeginSetKey
<1> QED BY <1>1, <1>2, <1>3

\* A step of the screen that holds the lock.
LEMMA KeyCall ==
  ASSUME KeyInv, NEW u \in Users,
         DropKey(u) \/ SaveRow(u) \/ DeleteRow(u) \/ SaveKey(u) \/ CallFails(u)
  PROVE  KeyInv'
<1>1. CASE DropKey(u)
  BY <1>1, NoneIsNothing DEF KeyInv, ProviderDomain, LockHeld, CallKnows,
     KeyIsOfItsAddress, InCall, DropKey
<1>2. CASE SaveRow(u) \/ DeleteRow(u)
  BY <1>2, NoneIsNothing DEF KeyInv, ProviderDomain, LockHeld, CallKnows,
     KeyIsOfItsAddress, InCall, SaveRow, DeleteRow, Returns, Unlock, IdleCall
<1>3. CASE SaveKey(u) \/ CallFails(u)
  BY <1>3, NoneIsNothing DEF KeyInv, ProviderDomain, LockHeld, CallKnows,
     KeyIsOfItsAddress, InCall, SaveKey, CallFails, Returns, Unlock, IdleCall
<1> QED BY <1>1, <1>2, <1>3

LEMMA KeyEnds ==
  ASSUME KeyInv, AppDies \/ DataIsLost
  PROVE  KeyInv'
  BY NoneIsNothing DEF KeyInv, ProviderDomain, LockHeld, CallKnows,
     KeyIsOfItsAddress, InCall, AppDies, DataIsLost, IdleCall

LEMMA KeyStep ==
  ASSUME KeyInv, [LocalNext]_localVars
  PROVE  KeyInv'
<1>1. CASE UNCHANGED localVars
  BY <1>1, KeyStays DEF localVars
<1>2. CASE \/ \E n \in Names, x \in Urls : AddSite(n, x) \/ MoveSite(n, x)
           \/ \E n \in Names : RemoveSite(n) \/ NewConversation(n)
           \/ \E m, n \in Names : RenameSite(m, n)
           \/ StartTurns \/ ReadSite \/ AdoptUrl \/ ReadRow \/ ReadConfig
           \/ ReadRule \/ ReadKey \/ LaterTurn \/ EndTurns \/ DeleteConversation
  BY <1>2, KeyStays DEF AddSite, MoveSite, RemoveSite, NewConversation,
     RenameSite, StartTurns, ReadSite, AdoptUrl, ReadRow, ReadConfig, ReadRule,
     ReadKey, LaterTurn, EndTurns, DeleteConversation
<1>3. CASE \/ \E u \in Users, n \in Names, on \in BOOLEAN : SaveSettings(u, n, on)
           \/ \E u \in Users : ListEarlier(u) \/ ClearEarlier(u)
  BY <1>3, KeySettings
<1>4. CASE \/ \E u \in Users, a \in Addrs : BeginSave(u, a)
           \/ \E u \in Users : BeginDeleteProvider(u) \/ BeginSetKey(u)
  BY <1>4, KeyBegin
<1>5. CASE \E u \in Users : \/ DropKey(u) \/ SaveRow(u) \/ DeleteRow(u)
                            \/ SaveKey(u) \/ CallFails(u)
  BY <1>5, KeyCall
<1>6. CASE AppDies \/ DataIsLost
  BY <1>6, KeyEnds
<1> QED BY <1>1, <1>2, <1>3, <1>4, <1>5, <1>6 DEF LocalNext, LocalStep

\* A saved key is never one that was typed in for another address than the
\* provider has now (SaveProvider, SetKey, DeleteProvider).
THEOREM KeyAtHome == LocalSpec => []KeyIsOfItsAddress
<1>1. LocalSpec => []KeyInv
  BY KeyBegins, KeyStep, PTL DEF LocalSpec
<1>2. KeyInv => KeyIsOfItsAddress
  BY DEF KeyInv
<1> QED BY <1>1, <1>2, PTL

-----------------------------------------------------------------------------
(* The run's turns.                                                        *)

\* The steps of other processes, which leave the run and its conversation.
Elsewhere ==
  \/ \E n \in Names, x \in Urls : AddSite(n, x) \/ MoveSite(n, x)
  \/ \E n \in Names : RemoveSite(n)
  \/ \E m, n \in Names : RenameSite(m, n)
  \/ \E u \in Users, n \in Names, on \in BOOLEAN : SaveSettings(u, n, on)
  \/ \E u \in Users : ListEarlier(u) \/ ClearEarlier(u)
  \/ \E u \in Users, a \in Addrs : BeginSave(u, a)
  \/ \E u \in Users : DropKey(u) \/ SaveRow(u) \/ BeginDeleteProvider(u)
                        \/ DeleteRow(u) \/ BeginSetKey(u) \/ SaveKey(u)
                        \/ CallFails(u)

LEMMA ElsewhereStays ==
  ASSUME Elsewhere
  PROVE  UNCHANGED <<conv, modelVars>>
  BY DEF Elsewhere, AddSite, MoveSite, RemoveSite, RenameSite, SaveSettings,
     ListEarlier, ClearEarlier, BeginSave, DropKey, SaveRow, BeginDeleteProvider,
     DeleteRow, BeginSetKey, SaveKey, CallFails, Lock

\* What the config and the store hold; a screen that clears earlier names'
\* settings has them, and a run its conversation.
StoreOK ==
  /\ sites \in [Names -> Urls \cup {None}]
  /\ saved \in [Names -> {None} \cup Settings]
  /\ conv \in {None} \cup Conversation
  /\ \A u \in Users : screen[u].at = "clear" =>
       \A m \in screen[u].clear : m \in Names /\ saved[m] # None
  /\ turns.at # "off" => conv # None
  /\ turns.at = "adopt" => check.url \in Urls \cup {None}

\* The records are whole.
TurnsDomain ==
  /\ turns = [at |-> turns.at, by |-> turns.by, n |-> turns.n]
  /\ check = [url |-> check.url, addr |-> check.addr, sites |-> check.sites]
  /\ client = [addr |-> client.addr, key |-> client.key]
  /\ seen = [rules |-> seen.rules, moved |-> seen.moved]

\* What a run knows at each step of its check: the site has not been elsewhere
\* all the time, and every setting that was in force all the time is among
\* those that the config it read will give it.
TurnsKnow ==
  /\ turns.at \in {"adopt", "row", "config", "rule", "key", "sent"} => ~seen.moved
  /\ turns.at = "rule" => seen.rules \subseteq RulesOf(check.sites, conv.site, conv.url)
  /\ turns.at \in {"key", "sent"} /\ client.addr = "hosted"
       => seen.rules = {} \/ check.addr # "hosted"

TurnsInv == StoreOK /\ TurnsDomain /\ TurnsKnow

LEMMA TurnsBegin == LocalInit => TurnsInv
  BY NoneIsNothing DEF LocalInit, TurnsInv, StoreOK, TurnsDomain, TurnsKnow, NoTurns,
     NoCheck, NoClient, Unseen, OldConversations, IdleCall

\* The store's part, under the steps of other processes.
LEMMA StoreElsewhere ==
  ASSUME StoreOK, KeyInv, Elsewhere
  PROVE  StoreOK'
<1> USE DEF StoreOK
<1>0. UNCHANGED <<conv, turns, check>>
  BY ElsewhereStays DEF modelVars
<1>1. CASE \/ \E n \in Names, x \in Urls : AddSite(n, x) \/ MoveSite(n, x)
           \/ \E n \in Names : RemoveSite(n)
           \/ \E m, n \in Names : RenameSite(m, n)
  <2>1. UNCHANGED <<saved, screen>>
    BY <1>1 DEF AddSite, MoveSite, RemoveSite, RenameSite
  <2>2. sites' \in [Names -> Urls \cup {None}]
    BY <1>1 DEF AddSite, MoveSite, RemoveSite, RenameSite
  <2> QED BY <1>0, <2>1, <2>2
<1>2. ASSUME NEW u \in Users, NEW n \in Names, NEW on \in BOOLEAN, SaveSettings(u, n, on)
      PROVE  StoreOK'
  <2>1. /\ saved' = [saved EXCEPT ![n] = [url |-> sites[n], on |-> on]]
        /\ UNCHANGED sites
    BY <1>2 DEF SaveSettings
  <2>2. [url |-> sites[n], on |-> on] \in Settings
    BY DEF Settings
  <2>3. saved' \in [Names -> {None} \cup Settings]
    BY <2>1, <2>2
  <2>4. \A v \in Users : screen'[v].at = "clear" => screen[v] = screen'[v]
    BY <1>2 DEF SaveSettings, IdleCall, KeyInv, ProviderDomain
  <2>5. \A m \in Names : saved[m] # None => saved'[m] # None
    BY <2>1, <2>2, NoneIsNothing
  <2> QED BY <1>0, <2>1, <2>3, <2>4, <2>5
<1>3. ASSUME NEW u \in Users, ListEarlier(u)
      PROVE  StoreOK'
  <2>1. UNCHANGED <<sites, saved>> /\ DOMAIN screen = Users
    BY <1>3 DEF ListEarlier, siteVars, KeyInv, ProviderDomain
  <2>2. \A v \in Users \ {u} : screen'[v] = screen[v]
    BY <1>3, <2>1 DEF ListEarlier
  <2>3. \A m \in screen'[u].clear : m \in Names /\ saved[m] # None
    BY <1>3 DEF ListEarlier, KeyInv, ProviderDomain
  <2> QED BY <1>0, <2>1, <2>2, <2>3
<1>4. ASSUME NEW u \in Users, ClearEarlier(u)
      PROVE  StoreOK'
  <2>1. CASE UNCHANGED saved
    BY <1>0, <1>4, <2>1 DEF ClearEarlier, siteVars, KeyInv, ProviderDomain, IdleCall
  <2>2. CASE \E m \in screen[u].clear :
               /\ saved' = [saved EXCEPT ![m].on = FALSE]
               /\ screen' = [screen EXCEPT ![u].clear = @ \ {m}]
    <3>1. PICK m \in screen[u].clear :
               /\ saved' = [saved EXCEPT ![m].on = FALSE]
               /\ screen' = [screen EXCEPT ![u].clear = @ \ {m}]
      BY <2>2
    <3>2. m \in Names /\ saved[m] \in Settings
      BY <1>4 DEF ClearEarlier
    <3>3. [saved[m] EXCEPT !.on = FALSE] \in Settings
      BY <3>2 DEF Settings
    <3>4. saved' \in [Names -> {None} \cup Settings]
      BY <3>1, <3>2, <3>3
    <3>5. \A l \in Names : saved[l] # None => saved'[l] # None
      BY <3>1, <3>2, <3>3, NoneIsNothing
    <3>6. \A v \in Users : screen'[v].at = screen[v].at
                             /\ screen'[v].clear \subseteq screen[v].clear
      BY <3>1 DEF KeyInv, ProviderDomain
    <3>7. UNCHANGED sites
      BY <1>4 DEF ClearEarlier
    <3> QED BY <1>0, <3>4, <3>5, <3>6, <3>7
  <2> QED BY <1>4, <2>1, <2>2 DEF ClearEarlier
<1>5. CASE \/ \E u \in Users, a \in Addrs : BeginSave(u, a)
           \/ \E u \in Users : DropKey(u) \/ SaveRow(u) \/ BeginDeleteProvider(u)
                        \/ DeleteRow(u) \/ BeginSetKey(u) \/ SaveKey(u)
                        \/ CallFails(u)
  <2>1. UNCHANGED <<sites, saved>>
    BY <1>5 DEF BeginSave, DropKey, SaveRow, BeginDeleteProvider, DeleteRow,
       BeginSetKey, SaveKey, CallFails, Lock, siteVars
  <2>2. \A v \in Users : screen'[v].at = "clear" => screen'[v] = screen[v]
    <3> USE DEF KeyInv, ProviderDomain
    <3>1. CASE \/ \E u \in Users, a \in Addrs : BeginSave(u, a)
               \/ \E u \in Users : BeginDeleteProvider(u) \/ BeginSetKey(u)
      <4>1. PICK u \in Users, at \in {"row", "unkey", "verify"}, a \in Addrs \cup {None} :
              Lock(u, at, a)
        BY <3>1, Zenon DEF BeginSave, BeginDeleteProvider, BeginSetKey
      <4> QED BY <4>1 DEF Lock, IdleCall
    <3>2. CASE \E u \in Users : DropKey(u)
      BY <3>2 DEF DropKey
    <3>3. CASE \E u \in Users : SaveRow(u) \/ DeleteRow(u) \/ SaveKey(u) \/ CallFails(u)
      BY <3>3 DEF SaveRow, DeleteRow, SaveKey, CallFails, Returns, IdleCall
    <3> QED BY <1>5, <3>1, <3>2, <3>3
  <2> QED BY <1>0, <2>1, <2>2
<1> QED BY <1>1, <1>2, <1>3, <1>4, <1>5 DEF Elsewhere

\* A setting in force all the time stays among those the run will find: its
\* address changes only while its site is in the config.
LEMMA RulesStand ==
  ASSUME StoreOK, StoreOK', Elsewhere, turns.at = "rule",
         NEW m \in RulesOf(check.sites, conv.site, conv.url), m \in InForce'
  PROVE  m \in RulesOf(check.sites, conv.site, conv.url)'
<1>0. UNCHANGED <<conv, check>>
  BY ElsewhereStays DEF modelVars
<1>1. /\ m \in Names /\ saved[m] # None /\ saved[m] \in Settings
      /\ m = conv.site \/ (/\ check.sites[m] = None
                           /\ saved[m].url \in {conv.url, check.sites[conv.site]} \ {None})
  BY DEF RulesOf, Applies, StoreOK
<1>2. /\ saved'[m] # None /\ saved'[m].on
      /\ m = conv.site \/ sites'[m] = None
  BY <1>0 DEF InForce, RulesOf, Applies
<1>3. m = conv.site \/ saved'[m].url = saved[m].url
  <2>1. CASE UNCHANGED saved
    BY <2>1
  <2>2. ASSUME NEW u \in Users, NEW n \in Names, NEW on \in BOOLEAN, SaveSettings(u, n, on)
        PROVE  m = conv.site \/ saved'[m].url = saved[m].url
    BY <1>1, <1>2, <2>2 DEF SaveSettings, InConfig, StoreOK
  <2>3. ASSUME NEW u \in Users, ClearEarlier(u)
        PROVE  m = conv.site \/ saved'[m].url = saved[m].url
    BY <1>1, <2>3 DEF ClearEarlier, StoreOK, Settings
  <2> QED BY <2>1, <2>2, <2>3 DEF Elsewhere, AddSite, MoveSite, RemoveSite,
        RenameSite, ListEarlier, BeginSave, DropKey, SaveRow,
        BeginDeleteProvider, DeleteRow, BeginSetKey, SaveKey, CallFails, Lock, siteVars
<1> QED BY <1>0, <1>1, <1>2, <1>3 DEF RulesOf, Applies

LEMMA TurnsElsewhere ==
  ASSUME TurnsInv, KeyInv, Elsewhere, Remembers
  PROVE  TurnsInv'
<1> USE DEF TurnsInv
<1>0. UNCHANGED <<conv, turns, check, client>>
  BY ElsewhereStays DEF modelVars
<1>1. StoreOK'
  BY StoreElsewhere
<1>2. CASE turns.at = "off"
  <2>1. seen' = Unseen
    BY <1>0, <1>2 DEF Remembers
  <2> QED BY <1>0, <1>1, <1>2, <2>1 DEF TurnsDomain, TurnsKnow, Unseen
<1>3. CASE turns.at # "off"
  <2>1. seen' = [rules |-> seen.rules \cap InForce', moved |-> seen.moved /\ Moved']
    BY <1>0, <1>3 DEF Remembers
  <2>2. seen'.rules = seen.rules \cap InForce' /\ (~seen.moved => ~seen'.moved)
    BY <2>1
  <2>3. TurnsDomain'
    BY <1>0, <2>1 DEF TurnsDomain
  <2>4. turns.at = "rule" =>
          seen'.rules \subseteq RulesOf(check.sites, conv.site, conv.url)'
    BY <1>1, <2>2, RulesStand DEF TurnsKnow
  <2>5. TurnsKnow'
    BY <1>0, <2>2, <2>4 DEF TurnsKnow
  <2> QED BY <1>1, <2>3, <2>5
<1> QED BY <1>2, <1>3

\* What is remembered of one check: it shrinks.
LEMMA SeenGoesOn ==
  ASSUME Remembers, turns'.at # "off", turns.at \notin {"off", "sent"},
         turns.by # "run" \/ turns'.by # "client"
  PROVE  /\ seen' = [rules |-> seen.rules \cap InForce', moved |-> seen.moved /\ Moved']
         /\ seen'.moved => seen.moved /\ Moved'
<1> DEFINE anew  == turns.at \in {"off", "sent"} /\ turns' # turns
           again == turns.by = "run" /\ turns'.by = "client"
<1>1. seen' = [rules |-> IF anew \/ again THEN InForce' ELSE seen.rules \cap InForce',
               moved |-> (anew \/ seen.moved) /\ Moved']
  BY Zenon DEF Remembers
<1>2. ~anew /\ ~again
  OBVIOUS
<1> HIDE DEF anew, again
<1>3. ((anew \/ seen.moved) /\ Moved') = (seen.moved /\ Moved')
  BY <1>2, Zenon
<1>4. (IF anew \/ again THEN InForce' ELSE seen.rules \cap InForce') = seen.rules \cap InForce'
  BY <1>2, Zenon
<1>5. seen' = [rules |-> seen.rules \cap InForce', moved |-> seen.moved /\ Moved']
  BY <1>1, <1>3, <1>4, Zenon
<1>6. seen'.moved = (seen.moved /\ Moved')
  BY <1>5
<1> QED BY <1>5, <1>6, Zenon

LEMMA SeenIsWhole ==
  ASSUME Remembers, turns'.at # "off"
  PROVE  seen' = [rules |-> seen'.rules, moved |-> seen'.moved]
<1>1. PICK R, M : seen' = [rules |-> R, moved |-> M]
  BY Zenon DEF Remembers
<1> QED BY <1>1

\* A step of the run, which leaves the screens, the config and the settings:
\* what was in force is, and what the check read is as it was.
LEMMA TurnsGo ==
  ASSUME TurnsInv, UNCHANGED <<siteVars, screen>>, Remembers,
         \/ StartTurns \/ ReadSite \/ AdoptUrl \/ ReadRow \/ ReadConfig \/ ReadRule
         \/ ReadKey \/ LaterTurn
  PROVE  TurnsInv'
<1> USE DEF TurnsInv
<1>0. UNCHANGED <<sites, saved, screen>>
  BY DEF siteVars
<1>k. conv' = conv => InForce' = InForce /\ Moved' = Moved
  BY <1>0 DEF InForce, Moved, RulesOf, Applies
<1>1. CASE StartTurns \/ LaterTurn
  <2>1. /\ UNCHANGED <<conv, check, client>> /\ turns'.at = "site" /\ conv # None
        /\ turns' = [at |-> turns'.at, by |-> turns'.by, n |-> turns'.n]
    <3>1. CASE StartTurns
      BY <3>1 DEF StartTurns
    <3>2. CASE LaterTurn
      BY <3>2 DEF LaterTurn, CheckTurn, TurnsDomain, StoreOK
    <3> QED BY <1>1, <3>1, <3>2
  <2>2. seen' = [rules |-> seen'.rules, moved |-> seen'.moved]
    BY <2>1, SeenIsWhole
  <2> QED BY <1>0, <2>1, <2>2 DEF StoreOK, TurnsDomain, TurnsKnow
<1>2. CASE ReadSite
  <2>c. PICK at \in {"adopt", "row"} : turns' = [turns EXCEPT !.at = at]
    BY <1>2, Zenon DEF ReadSite, Goes
  <2>d. check' = [url |-> check'.url, addr |-> check'.addr, sites |-> check'.sites]
    BY <1>2 DEF ReadSite, NoCheck
  <2>1. /\ UNCHANGED <<conv, client>> /\ turns.at = "site" /\ turns'.at = at
        /\ turns' = [turns EXCEPT !.at = turns'.at]
        /\ check' = [url |-> check'.url, addr |-> check'.addr, sites |-> check'.sites]
    BY <1>2, <2>c, <2>d DEF ReadSite, TurnsDomain
  <2>a. check'.url \in Urls \cup {None}
    BY <1>2 DEF ReadSite, NoCheck, StoreOK, Conversation
  <2>b. ~Moved
    BY <1>2 DEF ReadSite, Moved
  <2>2. seen' = [rules |-> seen.rules \cap InForce', moved |-> seen.moved /\ Moved']
    BY <2>1, SeenGoesOn DEF TurnsDomain
  <2>3. ~seen'.moved
    <3>1. seen'.moved => seen.moved /\ Moved'
      BY <2>1, SeenGoesOn DEF TurnsDomain
    <3>2. conv' = conv
      BY <2>1
    <3>3. Moved' = Moved
      BY <1>k, <3>2
    <3>4. ~Moved'
      BY <2>b, <3>3
    <3> QED BY <3>1, <3>4
  <2> QED BY <1>0, <2>1, <2>a, <2>2, <2>3 DEF StoreOK, TurnsDomain, TurnsKnow
<1>3. CASE AdoptUrl
  <2>1. /\ UNCHANGED client /\ turns.at = "adopt" /\ turns' = [turns EXCEPT !.at = "row"]
        /\ check' = NoCheck /\ conv' = [conv EXCEPT !.url = check.url]
    BY <1>3 DEF AdoptUrl, Goes
  <2>2. conv' \in Conversation /\ conv' # None
    BY <2>1, NoneIsNothing DEF StoreOK, Conversation
  <2>3. seen' = [rules |-> seen.rules \cap InForce', moved |-> seen.moved /\ Moved']
    BY <2>1, SeenGoesOn DEF TurnsDomain
  <2>4. ~seen'.moved
    BY <2>1, <2>3 DEF TurnsKnow
  <2> QED BY <1>0, <2>1, <2>2, <2>3, <2>4 DEF StoreOK, TurnsDomain, TurnsKnow, NoCheck
<1>4. CASE ReadRow \/ ReadConfig
  <2>1. /\ UNCHANGED <<conv, client>> /\ turns.at \in {"row", "config"}
        /\ turns' = [turns EXCEPT !.at = turns'.at] /\ turns'.at \in {"config", "rule"}
        /\ check' = [url |-> check'.url, addr |-> check'.addr, sites |-> check'.sites]
        /\ turns'.at = "rule" => check'.sites = sites
    BY <1>4 DEF ReadRow, ReadConfig, Goes, NoCheck, TurnsDomain
  <2>2. seen' = [rules |-> seen.rules \cap InForce', moved |-> seen.moved /\ Moved']
    BY <2>1, SeenGoesOn DEF TurnsDomain
  <2>3. ~seen'.moved /\ seen'.rules \subseteq InForce
    BY <1>k, <2>1, <2>2 DEF TurnsKnow
  <2>4. turns'.at = "rule" =>
          seen'.rules \subseteq RulesOf(check.sites, conv.site, conv.url)'
    BY <1>0, <2>1, <2>3 DEF InForce, RulesOf, Applies
  <2> QED BY <1>0, <2>1, <2>2, <2>3, <2>4 DEF StoreOK, TurnsDomain, TurnsKnow
<1>5. CASE ReadRule /\ turns.by = "run"
  <2>1. /\ UNCHANGED <<conv, client>> /\ turns.at = "rule"
        /\ turns' = [turns EXCEPT !.at = "row", !.by = "client"]
        /\ check' = [check EXCEPT !.sites = None]
    BY <1>5 DEF ReadRule
  <2>2. seen' = [rules |-> InForce', moved |-> seen.moved /\ Moved']
    BY <1>5, <2>1 DEF Remembers, TurnsDomain
  <2>3. ~seen'.moved
    BY <2>1, <2>2 DEF TurnsKnow
  <2> QED BY <1>0, <2>1, <2>2, <2>3 DEF StoreOK, TurnsDomain, TurnsKnow
<1>6. CASE ReadRule /\ turns.by # "run"
  <2>1. /\ UNCHANGED conv /\ turns.at = "rule" /\ turns'.at \in {"key", "sent"}
        /\ turns' = [at |-> turns'.at, by |-> turns'.by, n |-> turns'.n]
        /\ client' = [addr |-> client'.addr, key |-> client'.key]
        /\ check' = [check EXCEPT !.sites = None]
        /\ turns'.by = turns.by
    BY <1>6 DEF ReadRule, Goes, TurnsDomain
  <2>2. seen' = [rules |-> seen.rules \cap InForce', moved |-> seen.moved /\ Moved']
    BY <1>6, <2>1, SeenGoesOn
  <2>3. ~seen'.moved
    BY <2>1, <2>2 DEF TurnsKnow
  <2>4. seen'.rules = {} \/ check'.addr # "hosted"
    BY <1>6, <2>1, <2>2 DEF ReadRule, TurnsKnow, TurnsDomain
  <2> QED BY <1>0, <2>1, <2>2, <2>3, <2>4 DEF StoreOK, TurnsDomain, TurnsKnow
<1>7. CASE ReadKey
  <2>1. /\ UNCHANGED <<conv, check>> /\ turns.at = "key" /\ turns'.at = "sent"
        /\ turns' = [turns EXCEPT !.at = "sent", !.n = 1]
        /\ client' = [client EXCEPT !.key = key]
    BY <1>7 DEF ReadKey, TurnsDomain
  <2>2. seen' = [rules |-> seen.rules \cap InForce', moved |-> seen.moved /\ Moved']
    BY <2>1, SeenGoesOn DEF TurnsDomain
  <2> QED BY <1>0, <2>1, <2>2 DEF StoreOK, TurnsDomain, TurnsKnow
<1> QED BY <1>1, <1>2, <1>3, <1>4, <1>5, <1>6, <1>7

LEMMA TurnsStep ==
  ASSUME TurnsInv, KeyInv, [LocalNext]_localVars
  PROVE  TurnsInv'
<1> USE DEF TurnsInv
<1>1. CASE UNCHANGED localVars
  BY <1>1 DEF localVars, siteVars, providerVars, modelVars, StoreOK, TurnsDomain,
     TurnsKnow, RulesOf, Applies
<1>2. CASE Elsewhere /\ Remembers
  BY <1>2, TurnsElsewhere
<1>3. CASE Remembers /\ (\/ StartTurns \/ ReadSite \/ AdoptUrl \/ ReadRow
                         \/ ReadConfig \/ ReadRule \/ ReadKey \/ LaterTurn)
  <2>1. UNCHANGED <<siteVars, screen>>
    BY <1>3 DEF StartTurns, ReadSite, AdoptUrl, ReadRow, ReadConfig, ReadRule,
       ReadKey, LaterTurn
  <2> QED BY <1>3, <2>1, TurnsGo
<1>4. CASE Remembers /\ (EndTurns \/ AppDies)
  <2>1. /\ turns' = NoTurns /\ check' = NoCheck /\ client' = NoClient
        /\ UNCHANGED <<sites, saved, conv>>
        /\ \A u \in Users : screen'[u] = screen[u] \/ screen'[u] = IdleCall
    BY <1>4 DEF EndTurns, AppDies, siteVars
  <2>2. seen' = Unseen
    BY <1>4, <2>1 DEF Remembers, NoTurns
  <2> QED BY <2>1, <2>2 DEF StoreOK, TurnsDomain, TurnsKnow, NoTurns, NoCheck, NoClient,
        Unseen, IdleCall
<1>5. CASE Remembers /\ (\/ \E n \in Names : NewConversation(n)
                         \/ DeleteConversation \/ DataIsLost)
  <2>1. /\ turns.at = "off" /\ UNCHANGED <<sites, screen, modelVars>>
        /\ conv' \in {None} \cup Conversation
        /\ \/ UNCHANGED saved
           \/ saved' = [n \in Names |-> None] /\ \A u \in Users : screen[u] = IdleCall
    BY <1>5 DEF NewConversation, DeleteConversation, DataIsLost, NoTurns, StoreOK,
       siteVars, Conversation, InConfig
  <2>2. seen' = Unseen
    BY <1>5, <2>1 DEF Remembers, modelVars
  <2> QED BY <2>1, <2>2 DEF StoreOK, TurnsDomain, TurnsKnow, modelVars, Unseen, IdleCall
<1> QED BY <1>1, <1>2, <1>3, <1>4, <1>5 DEF LocalNext, LocalStep, Elsewhere

\* Whatever changes between the reads of a turn's check, no setting that was in
\* force all along is passed over by a turn that goes to a server elsewhere,
\* unless the provider's row has another address by then than the run's
\* client; and none is about a site that was elsewhere all along (checkRun,
\* checkLocalOnly, providerFor).
THEOREM TurnsChecked == LocalSpec => []TurnsObeyRules
<1>1. LocalSpec => [](KeyInv /\ TurnsInv)
  <2>1. LocalInit => KeyInv /\ TurnsInv
    BY KeyBegins, TurnsBegin
  <2>2. KeyInv /\ TurnsInv /\ [LocalNext]_localVars => (KeyInv /\ TurnsInv)'
    BY KeyStep, TurnsStep
  <2> QED BY <2>1, <2>2, PTL DEF LocalSpec
<1>2. TurnsInv => TurnsObeyRules
  BY DEF TurnsInv, TurnsKnow, TurnsObeyRules
<1> QED BY <1>1, <1>2, PTL

-----------------------------------------------------------------------------
(* The local-only rule and a rename.                                       *)

SitesDomain == DOMAIN sites = Names

LEMMA SitesStep ==
  ASSUME SitesDomain, [LocalNext]_localVars
  PROVE  SitesDomain'
<1> USE DEF SitesDomain
<1>1. CASE \/ \E n \in Names, x \in Urls : AddSite(n, x) \/ MoveSite(n, x)
           \/ \E n \in Names : RemoveSite(n)
           \/ \E m, n \in Names : RenameSite(m, n)
  BY <1>1 DEF AddSite, MoveSite, RemoveSite, RenameSite
<1>2. CASE UNCHANGED sites
  BY <1>2
<1>3. CASE \/ \E n \in Names : NewConversation(n)
           \/ DeleteConversation \/ DataIsLost
           \/ StartTurns \/ ReadSite \/ AdoptUrl \/ ReadRow \/ ReadConfig
           \/ ReadRule \/ ReadKey \/ LaterTurn \/ EndTurns \/ AppDies
  BY <1>2, <1>3 DEF NewConversation, DeleteConversation, DataIsLost, StartTurns,
     ReadSite, AdoptUrl, ReadRow, ReadConfig, ReadRule, ReadKey, LaterTurn,
     EndTurns, AppDies, siteVars
<1>4. CASE \/ \E u \in Users, n \in Names, on \in BOOLEAN : SaveSettings(u, n, on)
           \/ \E u \in Users : ListEarlier(u) \/ ClearEarlier(u)
           \/ \E u \in Users, a \in Addrs : BeginSave(u, a)
           \/ \E u \in Users : DropKey(u) \/ SaveRow(u) \/ BeginDeleteProvider(u)
                        \/ DeleteRow(u) \/ BeginSetKey(u) \/ SaveKey(u)
                        \/ CallFails(u)
  BY <1>2, <1>4 DEF SaveSettings, ListEarlier, ClearEarlier, BeginSave, DropKey,
     SaveRow, BeginDeleteProvider, DeleteRow, BeginSetKey, SaveKey, CallFails,
     Lock, siteVars
<1>5. CASE UNCHANGED localVars
  BY <1>2, <1>5 DEF localVars, siteVars
<1> QED BY <1>1, <1>3, <1>4, <1>5 DEF LocalNext, LocalStep

\* The config's step and the settings' are never the same.
LEMMA SettingsWait ==
  ASSUME [LocalNext]_localVars
  PROVE  UNCHANGED sites \/ UNCHANGED saved
<1>1. CASE \/ \E n \in Names, x \in Urls : AddSite(n, x) \/ MoveSite(n, x)
           \/ \E n \in Names : RemoveSite(n) \/ NewConversation(n)
           \/ \E m, n \in Names : RenameSite(m, n)
           \/ DeleteConversation \/ DataIsLost
           \/ StartTurns \/ ReadSite \/ AdoptUrl \/ ReadRow \/ ReadConfig
           \/ ReadRule \/ ReadKey \/ LaterTurn \/ EndTurns \/ AppDies
  BY <1>1 DEF AddSite, MoveSite, RemoveSite, RenameSite, NewConversation,
     DeleteConversation, DataIsLost, StartTurns, ReadSite, AdoptUrl, ReadRow,
     ReadConfig, ReadRule, ReadKey, LaterTurn, EndTurns, AppDies, siteVars
<1>2. CASE \/ \E u \in Users, n \in Names, on \in BOOLEAN : SaveSettings(u, n, on)
           \/ \E u \in Users : ListEarlier(u) \/ ClearEarlier(u)
           \/ \E u \in Users, a \in Addrs : BeginSave(u, a)
           \/ \E u \in Users : DropKey(u) \/ SaveRow(u) \/ BeginDeleteProvider(u)
                        \/ DeleteRow(u) \/ BeginSetKey(u) \/ SaveKey(u)
                        \/ CallFails(u)
  BY <1>2 DEF SaveSettings, ListEarlier, ClearEarlier, BeginSave, DropKey,
     SaveRow, BeginDeleteProvider, DeleteRow, BeginSetKey, SaveKey, CallFails,
     Lock, siteVars
<1>3. CASE UNCHANGED localVars
  BY <1>3 DEF localVars, siteVars
<1> QED BY <1>1, <1>2, <1>3 DEF LocalNext, LocalStep

LEMMA RenameCarries ==
  ASSUME SitesDomain, [LocalNext]_localVars,
         NEW m \in Names, NEW n \in Names, Renamed(m, n),
         NEW k \in RulesOf(sites, m, None), saved[k].url = sites[m]
  PROVE  LocalOnly(n, None)'
<1>1. m # n /\ sites'[m] = None /\ sites'[n] = sites[m] /\ sites[m] # None
      /\ \A l \in Names \ {m, n} : sites'[l] = sites[l]
  BY DEF Renamed, InConfig, SitesDomain
<1>2. saved' = saved
  BY <1>1, SettingsWait
<1>3. (k = n \/ sites'[k] = None) /\ saved'[k] # None
      /\ saved'[k].on /\ saved'[k].url = sites'[n]
  BY <1>1, <1>2 DEF RulesOf, Applies, InConfig
<1> QED BY <1>1, <1>3 DEF LocalOnly, RulesOf, Applies, InConfig

\* A rename of a site that has the address its settings were saved with never
\* turns local only off (siteSettingsFor).
THEOREM RenameKept == LocalSpec => RenameKeepsUnmoved
<1>1. LocalInit => SitesDomain
  BY DEF LocalInit, SitesDomain
<1>2. SitesDomain /\ [LocalNext]_localVars =>
        SitesDomain' /\ (\A m, n \in Names :
          /\ Renamed(m, n)
          /\ \E k \in RulesOf(sites, m, None) : saved[k].url = sites[m]
          => LocalOnly(n, None)')
  BY SitesStep, RenameCarries
<1> QED BY <1>1, <1>2, PTL DEF LocalSpec, RenameKeepsUnmoved

-----------------------------------------------------------------------------
(* The runs.                                                               *)

\* CreateRun's numbers go up: the runs there are not yet are the highest.
InOrder == \E k \in 0..MaxRuns : \A r \in Runs : convOf[r] = NoConv <=> r > k

IsLast(r) == \A q \in Runs : convOf[q] = convOf[r] => q <= r

\* What a run's place says: it is active until its outcome is stored, and one
\* that is being titled was done and is not started again.
PlacesOK ==
  \A r \in Runs :
    /\ pc[r] # "none" => convOf[r] \in Convs
    /\ r \in active <=> pc[r] \in {"loop", "finish", "unlist"}
    /\ pc[r] = "finish" => out[r] \in Ends
    /\ pc[r] = "unlist" => /\ status[r] # "running" \/ r \in lost
                           /\ out[r] = "done" => status[r] = "done"
    /\ pc[r] \in Titling => status[r] \in {"done", "none"}

ActiveOK == \A r \in active : convOf[r] \in exists /\ IsLast(r)
PausedOK == \A r \in Runs : status[r] = "paused" => convOf[r] \in exists /\ IsLast(r)
RunningOK == \A r \in Runs : status[r] = "running" => r \in active \cup lost

InTitleCall == Titling \ {"title"}
Unpaid == {"titleConv", "titleCall", "titleUsage"}

\* A title call has its conversation to itself, and is not paid for until its
\* usage is.
TitlesOK ==
  /\ \A r \in Runs :
       /\ pc[r] \in InTitleCall => titleOf[convOf[r]] = r
       /\ pc[r] \in Unpaid => titleRows[convOf[r]] = 0
  /\ \A c \in Convs : titleRows[c] <= 1

\* What each phase of the shutdown waited for.
LifeOK ==
  /\ svc \in {"draining", "engine", "locked"} => rclosed
  /\ svc \in {"engine", "locked", "closed", "off"} =>
       \A r \in Runs : pc[r] \in {"none", "gone"}
  /\ svc \in {"locked", "closed", "off"} => \A u \in Callers : call[u] = Idle
  /\ storeOpen = (svc \notin {"closed", "off"})

RunsInv == /\ TypeOK /\ InOrder /\ PlacesOK /\ ActiveOK /\ PausedOK
           /\ RunningOK /\ TitlesOK /\ LifeOK

\* The invariant's parts about the store's runs, its titles and the places.
Parts == InOrder /\ PlacesOK /\ ActiveOK /\ PausedOK /\ RunningOK /\ TitlesOK

LEMMA RunsBegin == Init => RunsInv
<1> SUFFICES ASSUME Init PROVE RunsInv
  OBVIOUS
<1>1. TypeOK
  BY MaxRunsIsNat, NoConvIsNone DEF Init, TypeOK, Idle, Ends, Titles, PCs
<1>2. InOrder
  BY MaxRunsIsNat DEF Init, InOrder, Runs
<1>3. PlacesOK /\ ActiveOK /\ PausedOK /\ RunningOK /\ TitlesOK /\ LifeOK
  BY DEF Init, PlacesOK, ActiveOK, PausedOK, RunningOK, TitlesOK, LifeOK, Titling,
     InTitleCall, Unpaid
<1> QED BY <1>1, <1>2, <1>3 DEF RunsInv

LEMMA PartsStay ==
  ASSUME Parts, UNCHANGED <<exists, titleRows, status, convOf, pc, out, active,
                            titleOf, lost>>
  PROVE  Parts'
  BY DEF Parts, InOrder, PlacesOK, ActiveOK, PausedOK, RunningOK, TitlesOK, IsLast

\* A call of the web view that starts no run changes no place; only when the
\* service is open does one begin.
LEMMA LifeOfCalls ==
  ASSUME TypeOK, LifeOK, NEW u \in Callers, call[u].at # "idle" \/ svc = "open",
         UNCHANGED <<svc, storeOpen, rclosed, pc>>
  PROVE  LifeOK'
  BY DEF LifeOK, TypeOK, Idle

LEMMA CallsOnly ==
  ASSUME RunsInv, NEW u \in Callers,
         \/ \E c \in Convs : Enter(u, c)
         \/ SendReads(u) \/ Exit(u) \/ \E r \in Runs : Cancel(u, r)
  PROVE  RunsInv'
<1>1. Parts'
  BY PartsStay DEF RunsInv, Parts, Enter, SendReads, Exit, Cancel, storeVars,
     runVars, titleVars
<1>2. LifeOK'
  BY LifeOfCalls DEF RunsInv, Enter, SendReads, Exit, Cancel, storeVars, runVars
<1>3. TypeOK'
  <2>1. CASE \E c \in Convs : Enter(u, c)
    BY <2>1 DEF RunsInv, TypeOK, Enter, storeVars, runVars, titleVars
  <2>2. CASE SendReads(u)
    BY <2>2 DEF RunsInv, TypeOK, SendReads, Goto, storeVars, runVars, titleVars
  <2>3. CASE Exit(u)
    BY <2>3 DEF RunsInv, TypeOK, Exit, Idle, storeVars, runVars, titleVars
  <2>4. CASE \E r \in Runs : Cancel(u, r)
    BY <2>4 DEF RunsInv, TypeOK, Cancel, Goto, storeVars, titleVars
  <2> QED BY <2>1, <2>2, <2>3, <2>4
<1> QED BY <1>1, <1>2, <1>3 DEF RunsInv, Parts

\* Calls that give a conversation a title.
LEMMA TitlesGiven ==
  ASSUME RunsInv, NEW u \in Callers, SendTitles(u) \/ Rename(u)
  PROVE  RunsInv'
<1>1. Parts'
  BY PartsStay DEF RunsInv, Parts, SendTitles, Rename, runVars, titleVars
<1>2. LifeOK'
  BY LifeOfCalls DEF RunsInv, SendTitles, Rename, runVars
<1>3. TypeOK'
  <2>1. CASE SendTitles(u)
    BY <2>1 DEF RunsInv, TypeOK, SendTitles, Goto, Titles, runVars, titleVars
  <2>2. CASE Rename(u)
    BY <2>2 DEF RunsInv, TypeOK, Rename, Goto, Titles, runVars, titleVars
  <2> QED BY <2>1, <2>2
<1> QED BY <1>1, <1>2, <1>3 DEF RunsInv, Parts

\* Paused runs that are closed are of a conversation where no run is active.
LEMMA Abandoned ==
  ASSUME RunsInv, NEW c \in Convs,
         status' = Abandon(status, c),
         UNCHANGED <<exists, titleRows, convOf, pc, out, active, titleOf, lost>>
  PROVE  Parts' /\ status' \in [Runs -> {"none", "running"} \cup Ends]
  BY DEF RunsInv, TypeOK, Parts, InOrder, PlacesOK, ActiveOK, PausedOK, RunningOK,
     TitlesOK, IsLast, Abandon, Ends

LEMMA PausedClosed ==
  ASSUME RunsInv, NEW u \in Callers, SendFails(u) \/ TakeBack(u)
  PROVE  RunsInv'
<1>1. Parts' /\ status' \in [Runs -> {"none", "running"} \cup Ends]
  <2>1. CASE UNCHANGED status
    BY <2>1, PartsStay DEF RunsInv, Parts, TypeOK, SendFails, TakeBack, runVars,
       titleVars
  <2>2. CASE On(u) \in exists /\ status' = Abandon(status, On(u))
    BY <2>2, Abandoned DEF RunsInv, TypeOK, SendFails, TakeBack, runVars, titleVars
  <2> QED BY <2>1, <2>2 DEF SendFails, TakeBack
<1>2. LifeOK'
  BY LifeOfCalls DEF RunsInv, SendFails, TakeBack, runVars
<1>3. TypeOK'
  BY <1>1 DEF RunsInv, TypeOK, SendFails, TakeBack, Goto, runVars, titleVars
<1> QED BY <1>1, <1>2, <1>3 DEF RunsInv, Parts

\* Conversations that go take the status of their runs with them.
LEMMA Forgotten ==
  ASSUME RunsInv, NEW D \in SUBSET Convs, \A c \in D : ~Busy(c), Forget(D),
         UNCHANGED <<convOf, pc, out, active, titleOf, lost>>
  PROVE  /\ Parts'
         /\ exists' \subseteq Convs /\ title' \in [Convs -> Titles]
         /\ titleRows' \in [Convs -> Nat]
         /\ status' \in [Runs -> {"none", "running"} \cup Ends]
<1> USE DEF RunsInv, TypeOK, Forget
<1>1. /\ exists' \subseteq Convs /\ title' \in [Convs -> Titles]
      /\ titleRows' \in [Convs -> Nat]
      /\ status' \in [Runs -> {"none", "running"} \cup Ends]
  BY DEF Titles
<1>2. InOrder'
  BY DEF InOrder
<1>3. PlacesOK'
  BY DEF PlacesOK, Busy
<1>4. ActiveOK' /\ PausedOK' /\ RunningOK'
  BY DEF ActiveOK, PausedOK, RunningOK, IsLast, Busy
<1>5. TitlesOK'
  BY DEF TitlesOK, PlacesOK, Unpaid
<1> QED BY <1>1, <1>2, <1>3, <1>4, <1>5 DEF Parts

LEMMA ConvsGo ==
  ASSUME RunsInv, NEW u \in Callers, Delete(u) \/ Sweep(u)
  PROVE  RunsInv'
<1>1. PICK D \in SUBSET Convs : (\A c \in D : ~Busy(c)) /\ Forget(D)
  <2>1. CASE Delete(u)
    BY <2>1 DEF Delete, RunsInv, TypeOK
  <2>2. CASE Sweep(u)
    BY <2>2 DEF Sweep, Sweepable, RunsInv, TypeOK
  <2> QED BY <2>1, <2>2
<1>2. UNCHANGED <<convOf, storeOpen, pc, out, active, cancelled, rclosed, titleOf,
                  svc, starts, lost>>
  BY DEF Delete, Sweep, runVars, titleVars
<1>3. Goto(u, "exit") /\ call[u].at = "in" /\ titleStop' \subseteq Convs
  BY DEF Delete, Sweep, RunsInv, TypeOK, titleVars
<1>4. /\ Parts'
      /\ exists' \subseteq Convs /\ title' \in [Convs -> Titles]
      /\ titleRows' \in [Convs -> Nat]
      /\ status' \in [Runs -> {"none", "running"} \cup Ends]
  BY <1>1, <1>2, Forgotten
<1>5. LifeOK'
  BY <1>2, <1>3, LifeOfCalls DEF RunsInv
<1>6. TypeOK'
  BY <1>2, <1>3, <1>4 DEF RunsInv, TypeOK, Goto
<1> QED BY <1>4, <1>5, <1>6 DEF RunsInv, Parts

\* CreateRun takes the lowest number there is.
LEMMA NextIsLowest ==
  ASSUME RunsInv, Unused # {}
  PROVE  /\ NextRun \in Runs
         /\ \A r \in Runs : convOf[r] = NoConv <=> r >= NextRun
<1>1. PICK k \in 0..MaxRuns : \A r \in Runs : convOf[r] = NoConv <=> r > k
  BY DEF RunsInv, InOrder
<1>2. k + 1 \in Unused /\ \A q \in Unused : k + 1 <= q
  BY <1>1, MaxRunsIsNat DEF Unused, Runs
<1>3. NextRun \in Unused /\ \A q \in Unused : NextRun <= q
  BY <1>2 DEF NextRun
<1>4. NextRun = k + 1
  BY <1>2, <1>3, MaxRunsIsNat DEF Unused, Runs
<1> QED BY <1>1, <1>2, <1>4, MaxRunsIsNat DEF Unused, Runs

\* A new run is its conversation's last and only active one.
LEMMA Started ==
  ASSUME RunsInv, NEW c \in exists, ~Busy(c), StartRun(c), UNCHANGED titleOf
  PROVE  Parts' /\ UNCHANGED <<exists, title, titleRows, storeOpen, rclosed>>
         /\ convOf' \in [Runs -> Convs \cup {NoConv}]
         /\ status' \in [Runs -> {"none", "running"} \cup Ends]
         /\ pc' \in [Runs -> PCs] /\ out' \in [Runs -> {"none"} \cup Ends]
         /\ active' \subseteq Runs /\ cancelled' \subseteq Runs /\ lost' \subseteq Runs
<1> DEFINE n == NextRun
<1>1. n \in Runs /\ \A r \in Runs : convOf[r] = NoConv <=> r >= n
  BY NextIsLowest DEF StartRun
<1>2. c \in Convs /\ c # NoConv
  BY NoConvIsNone DEF RunsInv, TypeOK
<1>3. /\ convOf' = [convOf EXCEPT ![n] = c]
      /\ status' = [Abandon(status, c) EXCEPT ![n] = "running"]
      /\ active' = active \cup {n} /\ pc' = [pc EXCEPT ![n] = "loop"]
      /\ out' = [out EXCEPT ![n] = "none"]
      /\ cancelled' = cancelled \ {n} /\ lost' = lost \ {n}
      /\ UNCHANGED <<exists, title, titleRows, storeOpen, rclosed, titleOf>>
  BY DEF StartRun, Launch
<1>4. pc[n] = "none" /\ n \notin active
  <2>1. convOf[n] = NoConv
    BY <1>1, MaxRunsIsNat DEF Runs
  <2> QED BY <1>1, <2>1, NoConvIsNone DEF RunsInv, PlacesOK
<1> HIDE DEF n
<1>5. /\ convOf' \in [Runs -> Convs \cup {NoConv}]
      /\ status' \in [Runs -> {"none", "running"} \cup Ends]
      /\ pc' \in [Runs -> PCs] /\ out' \in [Runs -> {"none"} \cup Ends]
      /\ active' \subseteq Runs /\ cancelled' \subseteq Runs /\ lost' \subseteq Runs
  <2>1. Abandon(status, c) \in [Runs -> {"none", "running"} \cup Ends]
    BY DEF RunsInv, TypeOK, Abandon, Ends
  <2>2. status' \in [Runs -> {"none", "running"} \cup Ends]
    BY <1>1, <1>3, <2>1
  <2>3. n \in Runs
    BY <1>1
  <2> QED BY <2>3, <1>2, <1>3, <2>2 DEF RunsInv, TypeOK, PCs
<1>6. InOrder'
  <2>1. n \in 0..MaxRuns /\ n \in Int
    BY <1>1, MaxRunsIsNat DEF Runs
  <2>2. ASSUME NEW r \in Runs PROVE convOf'[r] = NoConv <=> r > n
    <3>1. CASE r = n
      BY <1>1, <1>2, <1>3, <2>1, <3>1 DEF RunsInv, TypeOK
    <3>2. CASE r # n
      <4>1. convOf'[r] = convOf[r] /\ r \in Int
        BY <1>3, <3>2, MaxRunsIsNat DEF RunsInv, TypeOK, Runs
      <4> QED BY <1>1, <2>1, <3>2, <4>1
    <3> QED BY <3>1, <3>2
  <2> QED BY <2>1, <2>2 DEF InOrder
<1>7. /\ status'[n] = "running"
      /\ \A r \in Runs \ {n} :
           /\ status'[r] = IF convOf[r] = c /\ status[r] = "paused"
                           THEN "done" ELSE status[r]
           /\ pc'[r] = pc[r] /\ convOf'[r] = convOf[r] /\ out'[r] = out[r]
      /\ pc'[n] = "loop" /\ convOf'[n] = c
  BY <1>1, <1>3 DEF RunsInv, TypeOK, Abandon
<1>8. PlacesOK'
  BY <1>1, <1>2, <1>3, <1>7 DEF RunsInv, TypeOK, PlacesOK, Titling, Ends
<1>9. ActiveOK'
  BY <1>1, <1>2, <1>3, <1>7 DEF RunsInv, TypeOK, ActiveOK, IsLast, Runs, Busy
<1>10. PausedOK'
  BY <1>1, <1>2, <1>3, <1>7 DEF RunsInv, TypeOK, PausedOK, IsLast, Runs
<1>11. RunningOK'
  BY <1>1, <1>3, <1>7 DEF RunsInv, RunningOK
<1>12. TitlesOK'
  BY <1>1, <1>3, <1>7 DEF RunsInv, TitlesOK, InTitleCall, Titling, Unpaid
<1> QED BY <1>3, <1>5, <1>6, <1>8, <1>9, <1>10, <1>11, <1>12 DEF Parts

\* A run goes on: it was paused, so its conversation's last, and in no title.
LEMMA WentOn ==
  ASSUME RunsInv, NEW u \in Callers, NEW r \in Runs, Continue(u, r)
  PROVE  Parts'
<1>1. /\ status' = [status EXCEPT ![r] = "running"]
      /\ active' = active \cup {r} /\ pc' = [pc EXCEPT ![r] = "loop"]
      /\ out' = [out EXCEPT ![r] = "none"] /\ lost' = lost \ {r}
      /\ UNCHANGED <<exists, titleRows, convOf, titleOf>>
      /\ ~Busy(convOf[r]) /\ convOf[r] \in exists /\ status[r] = "paused"
  BY DEF Continue, Launch, Admit, titleVars
<1>2. convOf[r] \in Convs /\ IsLast(r)
  BY <1>1 DEF RunsInv, TypeOK, PausedOK
<1> USE DEF RunsInv, TypeOK
<1>3. InOrder'
  BY <1>1 DEF InOrder
<1>4. PlacesOK'
  BY <1>1, <1>2 DEF PlacesOK, Titling
<1>5. ActiveOK' /\ PausedOK' /\ RunningOK'
  BY <1>1, <1>2 DEF ActiveOK, PausedOK, RunningOK, IsLast
<1>6. TitlesOK'
  BY <1>1, <1>2 DEF TitlesOK, InTitleCall, Titling, Unpaid
<1> QED BY <1>3, <1>4, <1>5, <1>6 DEF Parts

\* A run starts only while the runner is open, so while nothing is waited for.
LEMMA LifeOfStarts ==
  ASSUME TypeOK, LifeOK, NEW u \in Callers, call[u].at # "idle",
         ~rclosed, UNCHANGED <<svc, storeOpen, rclosed>>
  PROVE  LifeOK'
  BY DEF LifeOK, TypeOK, Idle

LEMMA RunsStart ==
  ASSUME RunsInv, NEW u \in Callers,
         SendStarts(u) \/ Retry(u) \/ \E r \in Runs : Continue(u, r)
  PROVE  RunsInv'
<1>1. call[u].at \in {"in", "untitled", "titled"} /\ ~rclosed
      /\ UNCHANGED <<svc, storeOpen, rclosed>>
  BY DEF SendStarts, Retry, Continue, Admit, StartRun, Launch
<1>2. LifeOK'
  BY <1>1, LifeOfStarts DEF RunsInv
<1>3. CASE SendStarts(u) \/ Retry(u)
  <2>1. On(u) \in exists /\ ~Busy(On(u)) /\ StartRun(On(u))
        /\ UNCHANGED <<titleOf, titleStop, svc, starts>>
    BY <1>3 DEF SendStarts, Retry, Admit, titleVars
  <2>2. call' \in [Callers -> [at : {"idle", "in", "untitled", "titled", "sent", "exit"},
                              conv : Convs \cup {NoConv}]]
    BY <1>3 DEF RunsInv, TypeOK, SendStarts, Retry, Goto
  <2>3. Parts' /\ TypeOK'
    BY <2>1, <2>2, Started DEF RunsInv, TypeOK
  <2> QED BY <1>2, <2>3 DEF RunsInv, Parts
<1>4. ASSUME NEW r \in Runs, Continue(u, r) PROVE RunsInv'
  <2>1. Parts'
    BY <1>4, WentOn
  <2>2. TypeOK'
    BY <1>4 DEF RunsInv, TypeOK, Continue, Launch, Goto, PCs, titleVars
  <2> QED BY <1>2, <2>1, <2>2 DEF RunsInv, Parts
<1> QED BY <1>3, <1>4

\* A goroutine runs only while nothing has waited for it.
LEMMA LifeOfGoroutines ==
  ASSUME LifeOK, NEW r \in Runs, pc[r] \notin {"none", "gone"},
         UNCHANGED <<svc, storeOpen, rclosed, call>>
  PROVE  LifeOK'
  BY DEF LifeOK

\* The loop and the outcome.
LEMMA LoopSteps ==
  ASSUME RunsInv, NEW r \in Runs,
         LoopEnds(r) \/ FinishRun(r) \/ FinishFails(r) \/ Unlist(r)
  PROVE  RunsInv'
<1>1. pc[r] \in {"loop", "finish", "unlist"}
      /\ UNCHANGED <<svc, storeOpen, rclosed, call, exists, titleRows, convOf,
                     titleOf, title, cancelled, titleStop, starts>>
  BY DEF LoopEnds, FinishRun, FinishFails, Unlist, storeVars, titleVars
<1>2. LifeOK'
  BY <1>1, LifeOfGoroutines DEF RunsInv
<1>3. r \in active /\ convOf[r] \in exists /\ convOf[r] \in Convs /\ IsLast(r)
  BY <1>1 DEF RunsInv, TypeOK, PlacesOK, ActiveOK
<1>4. InOrder'
  BY <1>1 DEF RunsInv, InOrder
<1>5. CASE LoopEnds(r)
  <2>1. PICK o \in Ends : out' = [out EXCEPT ![r] = o]
    BY <1>5 DEF LoopEnds
  <2>2. pc' = [pc EXCEPT ![r] = "finish"] /\ UNCHANGED <<status, active, lost>>
    BY <1>5 DEF LoopEnds, storeVars
  <2>3. TypeOK'
    BY <1>1, <2>1, <2>2 DEF RunsInv, TypeOK, PCs
  <2>4. PlacesOK'
    BY <1>1, <1>3, <2>1, <2>2 DEF RunsInv, TypeOK, PlacesOK, Titling
  <2>5. ActiveOK' /\ PausedOK' /\ RunningOK'
    BY <1>1, <2>2 DEF RunsInv, ActiveOK, PausedOK, RunningOK, IsLast
  <2>6. TitlesOK'
    BY <1>1, <2>2 DEF RunsInv, TypeOK, TitlesOK, InTitleCall, Titling, Unpaid
  <2> QED BY <1>2, <1>4, <2>3, <2>4, <2>5, <2>6 DEF RunsInv
<1>6. CASE FinishRun(r)
  <2>1. /\ status' = [status EXCEPT ![r] = out[r]] /\ out[r] \in Ends
        /\ pc' = [pc EXCEPT ![r] = "unlist"] /\ UNCHANGED <<out, active, lost>>
    BY <1>6 DEF FinishRun, RunsInv, PlacesOK
  <2>2. TypeOK'
    BY <1>1, <2>1 DEF RunsInv, TypeOK, PCs
  <2>3. PlacesOK'
    BY <1>1, <1>3, <2>1 DEF RunsInv, TypeOK, PlacesOK, Titling, Ends
  <2>4. ActiveOK' /\ PausedOK' /\ RunningOK'
    BY <1>1, <1>3, <2>1 DEF RunsInv, TypeOK, ActiveOK, PausedOK, RunningOK, IsLast
  <2>5. TitlesOK'
    BY <1>1, <2>1 DEF RunsInv, TypeOK, TitlesOK, InTitleCall, Titling, Unpaid
  <2> QED BY <1>2, <1>4, <2>2, <2>3, <2>4, <2>5 DEF RunsInv
<1>7. CASE FinishFails(r)
  <2>1. /\ out' = [out EXCEPT ![r] = "error"] /\ lost' = lost \cup {r}
        /\ pc' = [pc EXCEPT ![r] = "unlist"] /\ UNCHANGED <<status, active>>
    BY <1>7 DEF FinishFails, storeVars
  <2>2. TypeOK'
    BY <1>1, <2>1 DEF RunsInv, TypeOK, PCs, Ends
  <2>3. PlacesOK'
    BY <1>1, <1>3, <2>1 DEF RunsInv, TypeOK, PlacesOK, Titling
  <2>4. ActiveOK' /\ PausedOK' /\ RunningOK'
    BY <1>1, <2>1 DEF RunsInv, ActiveOK, PausedOK, RunningOK, IsLast
  <2>5. TitlesOK'
    BY <1>1, <2>1 DEF RunsInv, TypeOK, TitlesOK, InTitleCall, Titling, Unpaid
  <2> QED BY <1>2, <1>4, <2>2, <2>3, <2>4, <2>5 DEF RunsInv
<1>8. CASE Unlist(r)
  <2>1. /\ active' = active \ {r} /\ pc[r] = "unlist"
        /\ pc' = [pc EXCEPT ![r] = IF out[r] = "done" THEN "title" ELSE "gone"]
        /\ UNCHANGED <<status, out, lost>>
    BY <1>8 DEF Unlist, storeVars
  <2>2. TypeOK'
    BY <1>1, <2>1 DEF RunsInv, TypeOK, PCs, Titling
  <2>3. PlacesOK'
    BY <1>1, <1>3, <2>1 DEF RunsInv, TypeOK, PlacesOK, Titling
  <2>4. ActiveOK' /\ PausedOK' /\ RunningOK'
    BY <1>1, <2>1 DEF RunsInv, PlacesOK, ActiveOK, PausedOK, RunningOK, IsLast
  <2>5. TitlesOK'
    BY <1>1, <2>1 DEF RunsInv, TypeOK, TitlesOK, InTitleCall, Titling, Unpaid
  <2> QED BY <1>2, <1>4, <2>2, <2>3, <2>4, <2>5 DEF RunsInv
<1> QED BY <1>5, <1>6, <1>7, <1>8

\* The title, which changes no run but the place of its own.
LEMMA TitleSteps ==
  ASSUME RunsInv, NEW r \in Runs,
         \/ StartTitle(r) \/ CheckTitle(r) \/ AskTitle(r) \/ TitleAnswers(r)
         \/ PayTitle(r) \/ SetTitle(r) \/ EndTitle(r)
  PROVE  RunsInv'
<1> USE DEF Step, Conv
<1>1. PICK to \in Titling \cup {"gone"} :
        pc[r] \in Titling /\ pc' = [pc EXCEPT ![r] = to]
  BY DEF StartTitle, CheckTitle, AskTitle, TitleAnswers, PayTitle, SetTitle,
     EndTitle, Titling
<1>2. UNCHANGED <<exists, status, convOf, storeOpen, out, active, cancelled,
                  rclosed, call, svc, starts, lost>>
  BY DEF StartTitle, CheckTitle, AskTitle, TitleAnswers, PayTitle, SetTitle,
     EndTitle, storeVars
<1>3. LifeOK'
  BY <1>1, <1>2, LifeOfGoroutines DEF RunsInv, Titling
<1>4. InOrder' /\ ActiveOK' /\ PausedOK' /\ RunningOK'
  BY <1>2 DEF RunsInv, InOrder, ActiveOK, PausedOK, RunningOK, IsLast
<1>5. PlacesOK'
  BY <1>1, <1>2 DEF RunsInv, TypeOK, PlacesOK, Titling
<1>6. convOf[r] \in Convs
  BY <1>1 DEF RunsInv, PlacesOK, Titling
<1>7. TypeOK'
  <2>1. title' \in [Convs -> Titles]
    BY <1>6 DEF RunsInv, TypeOK, Titles, StartTitle, CheckTitle, AskTitle,
       TitleAnswers, PayTitle, SetTitle, EndTitle, storeVars
  <2>2. titleRows' \in [Convs -> Nat]
    BY <1>6 DEF RunsInv, TypeOK, StartTitle, CheckTitle, AskTitle,
       TitleAnswers, PayTitle, SetTitle, EndTitle, storeVars
  <2>3. titleOf' \in [Convs -> Runs \cup {0}] /\ titleStop' \subseteq Convs
    BY <1>6 DEF RunsInv, TypeOK, StartTitle, CheckTitle, AskTitle,
       TitleAnswers, PayTitle, SetTitle, EndTitle, titleVars
  <2>4. pc' \in [Runs -> PCs]
    BY <1>1 DEF RunsInv, TypeOK, PCs
  <2> QED BY <1>2, <2>1, <2>2, <2>3, <2>4 DEF RunsInv, TypeOK
<1>8. TitlesOK'
  <2> USE DEF RunsInv, TypeOK, TitlesOK, InTitleCall, Titling, Unpaid
  <2>1. CASE StartTitle(r)
    <3>1. titleRows' = titleRows
      BY <2>1 DEF StartTitle, storeVars
    <3>2. CASE pc' = [pc EXCEPT ![r] = "gone"] /\ titleOf' = titleOf
      BY <1>2, <3>1, <3>2
    <3>3. CASE /\ pc' = [pc EXCEPT ![r] = "titleState"] /\ titleOf[convOf[r]] = 0
               /\ titleOf' = [titleOf EXCEPT ![convOf[r]] = r]
      BY <1>2, <1>6, <3>1, <3>3, MaxRunsIsNat DEF Runs
    <3> QED BY <2>1, <3>2, <3>3 DEF StartTitle, titleVars
  <2>2. CASE CheckTitle(r)
    BY <1>2, <1>6, <2>2 DEF CheckTitle, WantsTitle, titleVars, storeVars
  <2>3. CASE AskTitle(r) \/ TitleAnswers(r)
    BY <1>2, <1>6, <2>3 DEF AskTitle, TitleAnswers, titleVars, storeVars
  <2>4. CASE PayTitle(r)
    BY <1>2, <1>6, <2>4 DEF PayTitle, titleVars
  <2>5. CASE SetTitle(r)
    BY <1>2, <1>6, <2>5 DEF SetTitle, titleVars
  <2>6. CASE EndTitle(r)
    BY <1>2, <1>6, <2>6, MaxRunsIsNat DEF EndTitle, storeVars, Runs
  <2> QED BY <2>1, <2>2, <2>3, <2>4, <2>5, <2>6
<1> QED BY <1>3, <1>4, <1>5, <1>7, <1>8 DEF RunsInv

\* A step of the service's life that leaves the runs as they are.
LEMMA LifeSteps ==
  ASSUME RunsInv, ShutdownBegins \/ ShutdownRuns \/ RunsDrained \/ ShutdownLocks
  PROVE  RunsInv'
<1>1. Parts'
  BY PartsStay DEF RunsInv, Parts, ShutdownBegins, ShutdownRuns, RunsDrained,
     ShutdownLocks, storeVars, runVars, titleVars
<1>2. TypeOK'
  BY DEF RunsInv, TypeOK, ShutdownBegins, ShutdownRuns, RunsDrained,
     ShutdownLocks, storeVars, runVars, titleVars
<1>3. LifeOK'
  BY DEF RunsInv, LifeOK, ShutdownBegins, ShutdownRuns, RunsDrained,
     ShutdownLocks, storeVars, runVars, titleVars
<1> QED BY <1>1, <1>2, <1>3 DEF RunsInv, Parts

\* Once every goroutine has returned no run is active.
LEMMA NoneActive ==
  ASSUME RunsInv, svc \in {"engine", "locked", "closed", "off"}
  PROVE  active = {}
  BY DEF RunsInv, TypeOK, LifeOK, PlacesOK

LEMMA StoreCloses ==
  ASSUME RunsInv, ShutdownEnds
  PROVE  RunsInv'
<1>1. /\ Parts'
      /\ exists' \subseteq Convs /\ title' \in [Convs -> Titles]
      /\ titleRows' \in [Convs -> Nat]
      /\ status' \in [Runs -> {"none", "running"} \cup Ends]
  <2>1. exists \cap Ephemeral \in SUBSET Convs
        /\ \A c \in exists \cap Ephemeral : ~Busy(c)
    BY NoneActive, EphemeralAreConvs DEF ShutdownEnds, Busy
  <2> QED BY <2>1, Forgotten DEF ShutdownEnds, runVars, titleVars
<1>2. TypeOK'
  BY <1>1 DEF RunsInv, TypeOK, ShutdownEnds, runVars, titleVars
<1>3. LifeOK'
  BY DEF RunsInv, LifeOK, ShutdownEnds, runVars
<1> QED BY <1>1, <1>2, <1>3 DEF RunsInv, Parts

LEMMA FreshTypes ==
  ASSUME FreshProcess
  PROVE  /\ pc' \in [Runs -> PCs] /\ out' \in [Runs -> {"none"} \cup Ends]
         /\ active' = {} /\ cancelled' = {} /\ rclosed' = FALSE /\ titleStop' = {}
         /\ titleOf' \in [Convs -> Runs \cup {0}]
         /\ call' \in [Callers -> [at : {"idle", "in", "untitled", "titled", "sent", "exit"},
                                   conv : Convs \cup {NoConv}]]
         /\ \A r \in Runs : pc'[r] = "none"
         /\ \A u \in Callers : call'[u] = Idle
  BY DEF FreshProcess, PCs, Idle

LEMMA ProcessDies ==
  ASSUME RunsInv, Crash
  PROVE  RunsInv'
<1>1. /\ svc' = "off" /\ storeOpen' = FALSE
      /\ lost' = lost \cup {r \in Runs : status[r] = "running"}
      /\ FreshProcess
      /\ UNCHANGED <<exists, title, titleRows, status, convOf, starts>>
  BY DEF Crash
<1>2. TypeOK'
  BY <1>1, FreshTypes DEF RunsInv, TypeOK
<1>3. LifeOK'
  BY <1>1, FreshTypes DEF LifeOK
<1>4. InOrder' /\ ActiveOK' /\ PausedOK' /\ RunningOK'
  BY <1>1, FreshTypes DEF RunsInv, InOrder, ActiveOK, PausedOK, RunningOK, IsLast
<1>5. PlacesOK' /\ TitlesOK'
  BY <1>1, FreshTypes DEF RunsInv, PlacesOK, TitlesOK, Titling, InTitleCall, Unpaid
<1> QED BY <1>2, <1>3, <1>4, <1>5 DEF RunsInv

LEMMA ProcessStarts ==
  ASSUME RunsInv, Start
  PROVE  RunsInv'
<1>1. /\ svc' = "open" /\ storeOpen' = TRUE /\ starts' = starts + 1
      /\ Forget(exists \cap Ephemeral) /\ FreshProcess /\ UNCHANGED <<convOf, lost>>
  BY DEF Start
<1>2. active = {}
  BY NoneActive DEF Start
<1>3. /\ exists' \subseteq exists
      /\ \A r \in Runs : \/ status'[r] = "none"
                        \/ /\ status'[r] = status[r]
                           /\ convOf[r] \in exists => convOf[r] \in exists'
      /\ \A c \in Convs : titleRows'[c] \in {0, titleRows[c]}
  BY <1>1 DEF Forget
<1>4. TypeOK'
  BY <1>1, FreshTypes DEF RunsInv, TypeOK, Forget, Titles
<1>5. LifeOK'
  BY <1>1, FreshTypes DEF LifeOK
<1>6. InOrder' /\ ActiveOK' /\ PausedOK' /\ RunningOK'
  BY <1>1, <1>2, <1>3, FreshTypes DEF RunsInv, InOrder, ActiveOK, PausedOK,
     RunningOK, IsLast
<1>7. PlacesOK' /\ TitlesOK'
  BY <1>1, <1>3, FreshTypes DEF RunsInv, PlacesOK, TitlesOK, Titling, InTitleCall,
     Unpaid
<1> QED BY <1>4, <1>5, <1>6, <1>7 DEF RunsInv

LEMMA RunsStep ==
  ASSUME RunsInv, [Next]_vars
  PROVE  RunsInv'
<1>1. CASE \E u \in Callers : WebCall(u)
  BY <1>1, CallsOnly, TitlesGiven, PausedClosed, ConvsGo, RunsStart DEF WebCall
<1>2. CASE \E r \in Runs : Goroutine(r)
  BY <1>2, LoopSteps, TitleSteps DEF Goroutine
<1>3. CASE Life
  BY <1>3, LifeSteps, StoreCloses, ProcessDies, ProcessStarts DEF Life
<1>4. CASE UNCHANGED vars
  <2>1. Parts'
    BY <1>4, PartsStay DEF RunsInv, Parts, vars, storeVars, runVars, titleVars
  <2>2. TypeOK' /\ LifeOK'
    BY <1>4 DEF RunsInv, TypeOK, LifeOK, vars, storeVars, runVars, titleVars
  <2> QED BY <2>1, <2>2 DEF RunsInv, Parts
<1> QED BY <1>1, <1>2, <1>3, <1>4 DEF Next

\* What the runs' properties rest on: in every reachable state runs are numbered
\* as they were made, an active one is its conversation's last, and a title call
\* has its conversation to itself.
THEOREM RunsHold == Spec => []RunsInv
  BY RunsBegin, RunsStep, PTL DEF Spec

LEMMA LastIs ==
  ASSUME NEW r \in Runs, IsLast(r)
  PROVE  r = Last(convOf[r])
<1>1. r \in RunsOf(convOf[r]) /\ \A q \in RunsOf(convOf[r]) : q <= r
  BY DEF IsLast, RunsOf
<1>2. /\ Last(convOf[r]) \in RunsOf(convOf[r])
      /\ \A q \in RunsOf(convOf[r]) : q <= Last(convOf[r])
  BY <1>1 DEF Last
<1> QED BY <1>1, <1>2, MaxRunsIsNat DEF RunsOf, Runs

\* Only the last run of a conversation is ever paused, however sends, retries,
\* continues, rewinds, sweeps and crashes interleave (Continue, GetConversation).
THEOREM PausedLast == Spec => []PausedIsLast
<1>1. RunsInv => PausedIsLast
  BY LastIs DEF RunsInv, PausedOK, PausedIsLast
<1> QED BY <1>1, RunsHold, PTL

\* A conversation has one goroutine until its outcome is stored, and its title
\* is paid for at most once (admit, startTitle, wantsTitle).
THEOREM Once == Spec => []OncePerConv
<1>1. ASSUME RunsInv PROVE OncePerConv
  <2>1. ASSUME NEW r \in Runs, NEW q \in Runs,
               {pc[r], pc[q]} \subseteq {"loop", "finish", "unlist"},
               convOf[r] = convOf[q]
        PROVE  r = q
    <3>0. pc[r] \in {"loop", "finish", "unlist"} /\ pc[q] \in {"loop", "finish", "unlist"}
      BY <2>1
    <3>1. r \in active /\ q \in active
      BY <1>1, <3>0 DEF RunsInv, PlacesOK
    <3>2. q <= r /\ r <= q
      BY <1>1, <2>1, <3>1 DEF RunsInv, ActiveOK, IsLast
    <3> QED BY <3>2, MaxRunsIsNat DEF Runs
  <2>2. \A c \in Convs : titleRows[c] <= 1
    BY <1>1 DEF RunsInv, TitlesOK
  <2> QED BY <2>1, <2>2 DEF OncePerConv
<1> QED BY <1>1, RunsHold, PTL

\* The runs of a conversation take turns (admit, Continue, Retry).
THEOREM TurnsTaken == Spec => []RunsTakeTurns
BY PausedLast, Once, PTL DEF RunsTakeTurns

\* ServiceShutdown closes the store only after everything that uses it, and a
\* run the store says is running is active, or its outcome was lost.
THEOREM StoreOutlives == Spec => []StoreOpenWhenUsed
<1>1. RunsInv => StoreOpenWhenUsed
  BY DEF RunsInv, TypeOK, LifeOK, RunningOK, StoreOpenWhenUsed
<1> QED BY <1>1, RunsHold, PTL
=============================================================================
