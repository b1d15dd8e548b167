---------------------------- MODULE LocalModels ----------------------------
(***************************************************************************)
(* Which model server a conversation may reach and with which key          *)
(* (desktop/services: sitecontext.go, assistant.go, keys.go, sites.go;     *)
(* internal/sitesetup/store.go; desktop/store: api.go, profiles.go).       *)
(*                                                                         *)
(* The sites are in the ffc config, which ffc and the app edit; the site   *)
(* settings and the provider are rows of the app's store; the key is in    *)
(* the keychain.  No transaction spans two of the three.  One provider, a  *)
(* custom server, whose address is on this computer or elsewhere.          *)
(***************************************************************************)
EXTENDS Integers, FiniteSets

CONSTANTS
  Names,     \* site names
  Urls,      \* site addresses
  Users,     \* goroutines of the provider and settings screens
  MaxChecks, \* bound: the model turns of a run that are checked
  None

Addrs == {"local", "hosted"}

\* A conversation and a site's settings as the store keeps them.
Conversation == [site : Names, url : Urls \cup {None}]
Settings     == [url : Urls \cup {None}, on : BOOLEAN]

ASSUME NoneIsNothing == None \notin Addrs \cup Users \cup Conversation \cup Settings

VARIABLES
  sites,   \* the ffc config: the address of each site, or None
  saved,   \* store: the settings saved for each name, [url, on] or None
  addr,    \* store: the provider's address, or None
  key,     \* keychain: the address the provider's key was typed in for
  holder,  \* who holds the provider's lock (plocks)
  screen,    \* each screen's call
  conv,    \* store: the conversation's site and its address, or None
  turns,   \* where the run is: its check's next step, what it is for, its turn
  check,   \* what the run's check has read: an address, the row, the config
  client,  \* the run's client: its address and key
  seen     \* history: what has held since the turn's check began

siteVars     == <<sites, saved>>
providerVars == <<addr, key, holder>>
modelVars    == <<turns, check, client>>
localVars    == <<siteVars, providerVars, screen, conv, modelVars, seen>>

IdleCall == [at |-> "idle", arg |-> None, clear |-> {}]
NoTurns  == [at |-> "off", by |-> None, n |-> 0]
NoCheck  == [url |-> None, addr |-> None, sites |-> None]
NoClient == [addr |-> None, key |-> None]
Unseen   == [rules |-> {}, moved |-> FALSE]

\* A conversation stored before addresses were kept has none.
OldConversations == {c \in Conversation : c.url = None}

LocalInit ==
  /\ sites = [n \in Names |-> None]
  /\ saved = [n \in Names |-> None]
  /\ addr = None /\ key = None /\ holder = None
  /\ screen = [u \in Users |-> IdleCall]
  /\ conv \in {None} \cup OldConversations
  /\ turns = NoTurns /\ check = NoCheck /\ client = NoClient /\ seen = Unseen

InConfig(n) == sites[n] # None

-----------------------------------------------------------------------------
(* The sites, as ffc and the sites screen edit them.                       *)

\* AddOrInit, Add: a site is added or replaced.
AddSite(n, x) ==
  /\ sites' = [sites EXCEPT ![n] = x]
  /\ UNCHANGED <<saved, providerVars, screen, conv, modelVars>>

\* SetURL, Move.
MoveSite(n, x) == InConfig(n) /\ AddSite(n, x)

RemoveSite(n) == InConfig(n) /\ AddSite(n, None)

\* RenameSite: not to a name there is.
RenameSite(m, n) ==
  /\ InConfig(m) /\ ~InConfig(n)
  /\ sites' = [sites EXCEPT ![n] = sites[m], ![m] = None]
  /\ UNCHANGED <<saved, providerVars, screen, conv, modelVars>>

-----------------------------------------------------------------------------
(* The site settings.                                                      *)

\* Mutant of Applies: a site's own settings are the only ones.
AppliesByName(config, m, n, urls) == saved[m] # None /\ m = n

\* siteSettingsFor: the settings of the name, and those of an earlier name
\* with one of the addresses, which is not in the config any more.
Applies(config, m, n, urls) ==
  /\ saved[m] # None
  /\ m = n \/ (config[m] = None /\ saved[m].url \in urls)

\* settingsOf: the settings that make site n local only, for a conversation
\* that began at convUrl, with the config as it was read.
RulesOf(config, n, convUrl) ==
  {m \in Names : Applies(config, m, n, {convUrl, config[n]} \ {None}) /\ saved[m].on}

LocalOnly(n, convUrl) == RulesOf(sites, n, convUrl) # {}

\* SaveSiteSettings; turning the rule off goes on to the earlier names.
SaveSettings(u, n, on) ==
  /\ screen[u].at = "idle" /\ InConfig(n)
  /\ saved' = [saved EXCEPT ![n] = [url |-> sites[n], on |-> on]]
  /\ screen' = IF on THEN screen
             ELSE [screen EXCEPT ![u] = [IdleCall EXCEPT !.at = "earlier", !.arg = n]]
  /\ UNCHANGED <<sites, providerVars, conv, modelVars>>

ListEarlier(u) ==
  LET n == screen[u].arg
  IN  /\ screen[u].at = "earlier"
      /\ screen' = [screen EXCEPT ![u] =
           [@ EXCEPT !.at = "clear",
                     !.clear = {m \in Names \ {n} :
                                  /\ ~InConfig(m) /\ saved[m] # None
                                  /\ saved[m].on /\ saved[m].url = saved[n].url}]]
      /\ UNCHANGED <<siteVars, providerVars, conv, modelVars>>

\* The earlier names' settings are saved again one by one; the screen may fail
\* before each.
ClearEarlier(u) ==
  /\ screen[u].at = "clear"
  /\ \/ \E m \in screen[u].clear :
          /\ saved' = [saved EXCEPT ![m].on = FALSE]
          /\ screen' = [screen EXCEPT ![u].clear = @ \ {m}]
     \/ UNCHANGED saved /\ screen' = [screen EXCEPT ![u] = IdleCall]
  /\ UNCHANGED <<sites, providerVars, conv, modelVars>>

-----------------------------------------------------------------------------
(* The provider and its key.                                               *)

Returns(u) == screen' = [screen EXCEPT ![u] = IdleCall]
Unlock == holder' = None

\* SaveProvider, SetKey and DeleteProvider take the provider's lock and read
\* its row.
Lock(u, at, arg) ==
  /\ screen[u].at = "idle" /\ holder = None
  /\ holder' = u
  /\ screen' = [screen EXCEPT ![u] = [IdleCall EXCEPT !.at = at, !.arg = arg]]
  /\ UNCHANGED <<siteVars, addr, key, conv, modelVars>>

\* Mutant of BeginSave: a key saved for another address stays.
BeginSaveRow(u, a) == Lock(u, "row", a)

\* SaveProvider: a new row owns no key, nor does one with a new address.
BeginSave(u, a) == Lock(u, IF addr = a THEN "row" ELSE "unkey", a)

DropKey(u) ==
  /\ screen[u].at = "unkey"
  /\ key' = None
  /\ screen' = [screen EXCEPT ![u].at = IF @ = "unkey" /\ screen[u].arg = None
                                    THEN "unrow" ELSE "row"]
  /\ UNCHANGED <<siteVars, addr, holder, conv, modelVars>>

\* UpsertProvider.
SaveRow(u) ==
  /\ screen[u].at = "row"
  /\ addr' = screen[u].arg
  /\ Returns(u) /\ Unlock
  /\ UNCHANGED <<siteVars, key, conv, modelVars>>

\* DeleteProvider: the key, then the row.
BeginDeleteProvider(u) == addr # None /\ Lock(u, "unkey", None)

DeleteRow(u) ==
  /\ screen[u].at = "unrow"
  /\ addr' = None
  /\ Returns(u) /\ Unlock
  /\ UNCHANGED <<siteVars, key, conv, modelVars>>

\* SetKey, verifyAndSaveKey: the key is tried at the address of the row read
\* under the lock, and saved when it is accepted.
BeginSetKey(u) == addr # None /\ Lock(u, "verify", addr)

SaveKey(u) ==
  /\ screen[u].at = "verify"
  /\ key' = screen[u].arg
  /\ Returns(u) /\ Unlock
  /\ UNCHANGED <<siteVars, addr, conv, modelVars>>

\* The keychain, the store or the provider refused: the screen returns.
CallFails(u) ==
  /\ screen[u].at \in {"unkey", "row", "unrow", "verify"}
  /\ Returns(u) /\ Unlock
  /\ UNCHANGED <<siteVars, addr, key, conv, modelVars>>

-----------------------------------------------------------------------------
(* The conversation and its run.                                           *)

\* NewConversation: at the site's address, with a provider it may have.  What
\* changes between its reads and its insert might as well change after it:
\* every run checks again.
NewConversation(n) ==
  /\ conv = None /\ InConfig(n) /\ addr # None
  /\ addr = "hosted" => ~LocalOnly(n, sites[n])
  /\ conv' = [site |-> n, url |-> sites[n]]
  /\ UNCHANGED <<siteVars, providerVars, screen, modelVars>>

Goes(at) == turns' = [turns EXCEPT !.at = at]

\* loop: a run is checked before anything else (checkRun).
StartTurns ==
  /\ conv # None /\ turns = NoTurns
  /\ turns' = [at |-> "site", by |-> "run", n |-> 0]
  /\ UNCHANGED <<siteVars, providerVars, screen, conv, check, client>>

\* checkRun: the site's address in the config, when there is one, is the one
\* the conversation began with.
ReadSite ==
  /\ turns.at = "site"
  /\ \/ /\ conv.url = None /\ InConfig(conv.site)
        /\ Goes("adopt") /\ check' = [NoCheck EXCEPT !.url = sites[conv.site]]
     \/ /\ sites[conv.site] \in {None, conv.url}
        /\ Goes("row") /\ check' = NoCheck
  /\ UNCHANGED <<siteVars, providerVars, screen, conv, client>>

\* SetConversationSiteURL: one without an address gets the one read.
AdoptUrl ==
  /\ turns.at = "adopt"
  /\ conv' = [conv EXCEPT !.url = check.url]
  /\ Goes("row") /\ check' = NoCheck
  /\ UNCHANGED <<siteVars, providerVars, screen, client>>

\* The provider's row, or the run is refused.
ReadRow ==
  /\ turns.at = "row" /\ addr # None
  /\ Goes("config") /\ check' = [NoCheck EXCEPT !.addr = addr]
  /\ UNCHANGED <<siteVars, providerVars, screen, conv, client>>

\* settingsOf: the config is read again, then the settings.
ReadConfig ==
  /\ turns.at = "config"
  /\ Goes("rule") /\ check' = [check EXCEPT !.sites = sites]
  /\ UNCHANGED <<siteVars, providerVars, screen, conv, client>>

\* checkLocalOnly, and what was waiting for it: the run makes its client
\* (providerFor: the row, the config and the rule again), the client takes
\* the address of the row just read, or the next turn is sent.
ReadRule ==
  /\ turns.at = "rule"
  /\ check.addr = "hosted" => RulesOf(check.sites, conv.site, conv.url) = {}
  /\ check' = [check EXCEPT !.sites = None]
  /\ \/ /\ turns.by = "run" /\ UNCHANGED client
        /\ turns' = [turns EXCEPT !.at = "row", !.by = "client"]
     \/ /\ turns.by = "client" /\ client' = [addr |-> check.addr, key |-> None]
        /\ Goes("key")
     \/ /\ turns.by = "turn" /\ UNCHANGED client
        /\ turns' = [turns EXCEPT !.at = "sent", !.n = @ + 1]
  /\ UNCHANGED <<siteVars, providerVars, screen, conv>>

\* keyFor; the first turn is sent.
ReadKey ==
  /\ turns.at = "key"
  /\ client' = [client EXCEPT !.key = key]
  /\ turns' = [turns EXCEPT !.at = "sent", !.n = 1]
  /\ UNCHANGED <<siteVars, providerVars, screen, conv, check>>

\* Mutant of CheckTurn: the run was checked when it began.
CheckTurnNever == [turns EXCEPT !.n = @ + 1]

\* loop: checked again before every later turn, which goes to the run's client.
CheckTurn == [turns EXCEPT !.at = "site", !.by = "turn"]

LaterTurn ==
  /\ turns.at = "sent" /\ turns.n < MaxChecks
  /\ turns' = CheckTurn
  /\ UNCHANGED <<siteVars, providerVars, screen, conv, check, client>>

\* The run ends: it is done, refused or cancelled.
EndTurns ==
  /\ turns # NoTurns
  /\ turns' = NoTurns /\ check' = NoCheck /\ client' = NoClient
  /\ UNCHANGED <<siteVars, providerVars, screen, conv>>

DeleteConversation ==
  /\ conv # None /\ turns = NoTurns
  /\ conv' = None
  /\ UNCHANGED <<siteVars, providerVars, screen, modelVars>>

-----------------------------------------------------------------------------
\* The app dies: what it stored and the keychain stay.
AppDies ==
  /\ screen' = [u \in Users |-> IdleCall] /\ holder' = None
  /\ turns' = NoTurns /\ check' = NoCheck /\ client' = NoClient
  /\ UNCHANGED <<siteVars, addr, key, conv>>

\* The app's data directory is deleted while it is closed; the keychain is
\* not in it.
DataIsLost ==
  /\ screen = [u \in Users |-> IdleCall] /\ turns = NoTurns
  /\ addr' = None /\ saved' = [n \in Names |-> None] /\ conv' = None
  /\ UNCHANGED <<sites, key, holder, screen, modelVars>>

LocalStep ==
  \/ \E n \in Names, x \in Urls : AddSite(n, x) \/ MoveSite(n, x)
  \/ \E n \in Names : RemoveSite(n) \/ NewConversation(n)
  \/ \E m, n \in Names : RenameSite(m, n)
  \/ \E u \in Users, n \in Names, on \in BOOLEAN : SaveSettings(u, n, on)
  \/ \E u \in Users : ListEarlier(u) \/ ClearEarlier(u)
  \/ \E u \in Users, a \in Addrs : BeginSave(u, a)
  \/ \E u \in Users : DropKey(u) \/ SaveRow(u) \/ BeginDeleteProvider(u)
                        \/ DeleteRow(u) \/ BeginSetKey(u) \/ SaveKey(u)
                        \/ CallFails(u)
  \/ StartTurns \/ ReadSite \/ AdoptUrl \/ ReadRow \/ ReadConfig \/ ReadRule
  \/ ReadKey \/ LaterTurn \/ EndTurns
  \/ DeleteConversation \/ AppDies \/ DataIsLost

\* The settings in force for the conversation, and whether its site has
\* another address.
InForce == RulesOf(sites, conv.site, conv.url)
Moved   == conv.url # None /\ sites[conv.site] \notin {None, conv.url}

\* What has held in every state since the turn's check began.  The check of
\* the client is one of its own for the rule, not for the address.
Remembers ==
  LET anew  == turns.at \in {"off", "sent"} /\ turns' # turns
      again == turns.by = "run" /\ turns'.by = "client"
  IN  seen' = IF turns'.at = "off" THEN Unseen
              ELSE [rules |-> IF anew \/ again THEN InForce' ELSE seen.rules \cap InForce',
                    moved |-> (anew \/ seen.moved) /\ Moved']

LocalNext == LocalStep /\ Remembers

LocalSpec == LocalInit /\ [][LocalNext]_localVars

-----------------------------------------------------------------------------
(* Properties.                                                             *)

\* The key in the keychain was typed in for the address the provider has,
\* whatever failed or died on the way (SaveProvider: a key can never be sent
\* to a host the user did not give it to).
KeyIsOfItsAddress == addr # None /\ key # None => key = addr

\* Whatever changes between the reads of a turn's check: no setting was in
\* force from its beginning on when the turn goes to a server elsewhere,
\* unless the provider's row has another address by then than the run's
\* client, which keeps the one it was made with; and the site has not had
\* another address than the conversation's all that time (checkRun,
\* checkLocalOnly, providerFor).
TurnsObeyRules ==
  turns.at = "sent" =>
    /\ client.addr = "hosted" => seen.rules = {} \/ check.addr # "hosted"
    /\ ~seen.moved

\* What a rename is, of the config alone.
Renamed(m, n) == /\ InConfig(m) /\ ~InConfig(n)
                 /\ sites' = [sites EXCEPT ![n] = sites[m], ![m] = None]

\* A rename never turns local only off (docs/desktop/using.md).
RenameKeepsLocalOnly ==
  [][\A m, n \in Names :
       Renamed(m, n) /\ LocalOnly(m, None) => LocalOnly(n, None)']_localVars

\* It does not for a site that has the address its settings were saved with.
RenameKeepsUnmoved ==
  [][\A m, n \in Names :
       /\ Renamed(m, n)
       /\ \E k \in RulesOf(sites, m, None) : saved[k].url = sites[m]
       => LocalOnly(n, None)']_localVars
=============================================================================
