----------------------------- MODULE SiteScreens ----------------------------
(***************************************************************************)
(* The sites of the config file as people change them: the app's Sites     *)
(* screen (desktop/services/sites.go) and ffc init, site add, edit,        *)
(* rename, use and remove (internal/cmd).  Each reads the file, asks the   *)
(* site, and only then writes through sitesetup.Store under the config's   *)
(* lock, one after another (ConfigLock); what it read may be old by then.  *)
(***************************************************************************)
EXTENDS Integers, FiniteSets

CONSTANTS
  SiteNames, \* bound: the names
  Urls,      \* bound: the addresses, [host, tls]
  Adds,      \* bound: the addresses and kinds of sign-in that are added
  Does,      \* bound: the calls and commands there may be at once, each with
             \*   what it may be: a function to subsets of Ops
  NoSite,
  NoName,
  Rule       \* what an mcp block says; NoSite stands for none

Hosts == {u.host : u \in Urls}
Screens == DOMAIN Does
Ops   == {"add", "init", "url", "edit", "remove"}
Auths == {"key", "oauth"}    \* "password" is treated as "key" is

VARIABLES
  entry,     \* [SiteNames -> [url, auth, of, mcp]]: "of" is the server the
             \*   stored sign-in was made for
  default,   \* default_site
  change,    \* [Screens -> where each is and what it works with]
  outrun     \* history: names whose site was moved to another server, or
             \*   replaced, while a change of address there was being checked,
             \*   and those ffc site edit pointed at a server somebody chose,
             \*   until the site is saved anew

screenVars == <<entry, default, change, outrun>>

\* A site's entry.
Site == [url : Urls, auth : Auths, of : Hosts, mcp : {NoSite, Rule}]

ASSUME NoSiteAssumption == NoSite \notin Site
ASSUME NoNameAssumption == NoName \notin SiteNames
ASSUME AddsAssumption == Adds \subseteq [url : Urls, auth : Auths]

IsSite(n) == entry[n] # NoSite
Free  == [at |-> "free"]
InFile == {n \in SiteNames : IsSite(n)}

-----------------------------------------------------------------------------
(* config.File and sitesetup.Store.                                        *)

\* Mutant of PutSite: the rules of the site replaced are not kept.
PutBare(n, s) ==
  /\ entry' = [entry EXCEPT ![n] = s]
  /\ default' = IF default = NoName THEN n ELSE default

\* A site replaced keeps its mcp block; the first becomes the default.
PutSite(n, s) ==
  /\ entry' = [entry EXCEPT ![n] = IF IsSite(n) THEN [s EXCEPT !.mcp = entry[n].mcp] ELSE s]
  /\ default' = IF default = NoName THEN n ELSE default

\* The default becomes one that is left (the file's first).
RemoveSite(n) ==
  /\ IsSite(n)
  /\ entry' = [entry EXCEPT ![n] = NoSite]
  /\ IF default # n THEN UNCHANGED default
     ELSE IF InFile = {n} THEN default' = NoName
     ELSE default' \in InFile \ {n}

RenameSite(n, m) ==
  /\ IsSite(n) /\ ~IsSite(m)
  /\ entry' = [entry EXCEPT ![m] = entry[n], ![n] = NoSite]
  /\ default' = IF default = n THEN m ELSE default

SetSiteURL(n, u) ==
  /\ IsSite(n)
  /\ entry' = [entry EXCEPT ![n].url = u]
  /\ UNCHANGED default

\* Store.Init: the file then holds this site only.
Init1(n, s) ==
  /\ entry' = [m \in SiteNames |-> IF m = n THEN s ELSE NoSite]
  /\ default' = n

\* Store.Move, which looks once more at where the site points.
Move(n, from, s) == IsSite(n) /\ entry[n].url = from /\ PutSite(n, s)

-----------------------------------------------------------------------------
(* The calls.                                                              *)

Becomes(c, state) == change' = [change EXCEPT ![c] = state]
Over(c) == Becomes(c, Free)

\* Screens of address that are being checked while name n comes to be another
\* server's: by the names they work on.
Passed(n) ==
  {n} \cap {change[c].name : c \in {d \in Screens : change[d].at = "resend"}}

\* outrun, with name n saved anew.
Rewritten(n) == (outrun \ {n}) \cup Passed(n)

Signed(u, auth) == [url |-> u, auth |-> auth, of |-> u.host, mcp |-> NoSite]

\* A name that is taken is refused unless it is to be replaced.
Prepared(n, replace) == replace \/ ~IsSite(n)

\* ffc init looks for the file, asks, and does not look again.
StartAdd(c, n, u, auth, replace, op) ==
  /\ change[c].at = "free" /\ op \in Does[c]
  /\ IF op = "init" THEN replace \/ InFile = {} ELSE Prepared(n, replace)
  /\ Becomes(c, [at |-> op, name |-> n, new |-> Signed(u, auth)])
  /\ UNCHANGED <<entry, default, outrun>>

\* The sign-in is checked at the site, or the browser's is made; it fails, or
\* the site is saved (AddOrInit, Add).
Added(c) ==
  /\ change[c].at = "add"
  /\ \/ /\ PutSite(change[c].name, change[c].new)
        /\ outrun' = Rewritten(change[c].name)
     \/ UNCHANGED <<entry, default, outrun>>
  /\ Over(c)
Initialised(c) ==
  /\ change[c].at = "init"
  /\ \/ /\ Init1(change[c].name, change[c].new)
        /\ outrun' = Rewritten(change[c].name)
     \/ UNCHANGED <<entry, default, outrun>>
  /\ Over(c)

SameServer(u, v) == u.host = v.host /\ (u.tls => v.tls)

\* ChangeURL: the saved sign-in is asked again at another address of the same
\* server; for another server it is typed again.  An OAuth site is refused.
StartChangeURL(c, n, u) ==
  /\ change[c].at = "free" /\ "url" \in Does[c]
  /\ IsSite(n) /\ entry[n].auth # "oauth"
  /\ Becomes(c, IF SameServer(entry[n].url, u)
                THEN [at |-> "resend", name |-> n, url |-> u]
                ELSE [at |-> "move", name |-> n, from |-> entry[n].url,
                      new |-> Signed(u, entry[n].auth)])
  /\ UNCHANGED <<entry, default, outrun>>

\* ffc site edit: the saved sign-in is asked at whatever address is given.
StartEdit(c, n, u) ==
  /\ change[c].at = "free" /\ "edit" \in Does[c]
  /\ IsSite(n) /\ entry[n].auth # "oauth"
  /\ Becomes(c, [at |-> "edit", name |-> n, url |-> u])
  /\ UNCHANGED <<entry, default, outrun>>
Edited(c) ==
  /\ change[c].at = "edit"
  /\ \/ SetSiteURL(change[c].name, change[c].url) /\ outrun' = outrun \cup {change[c].name}
     \/ UNCHANGED <<entry, default, outrun>>
  /\ Over(c)

ChangedURL(c) ==
  /\ change[c].at = "resend"
  /\ SetSiteURL(change[c].name, change[c].url) \/ UNCHANGED <<entry, default>>
  /\ Over(c)
  /\ UNCHANGED outrun

MovedURL(c) ==
  /\ change[c].at = "move"
  /\ \/ /\ Move(change[c].name, change[c].from, change[c].new)
        /\ outrun' = Rewritten(change[c].name)
     \/ UNCHANGED <<entry, default, outrun>>
  /\ Over(c)

\* Remove: an OAuth site's token is revoked first, from what was read.
StartRemove(c, n) ==
  /\ change[c].at = "free" /\ "remove" \in Does[c] /\ IsSite(n)
  /\ Becomes(c, [at |-> "remove", name |-> n])
  /\ UNCHANGED <<entry, default, outrun>>
RemovedSite(c) ==
  /\ change[c].at = "remove"
  /\ RemoveSite(change[c].name) \/ UNCHANGED <<entry, default>>
  /\ Over(c)
  /\ UNCHANGED outrun

Rename(n, m) ==
  /\ RenameSite(n, m)
  /\ outrun' = IF n \in outrun THEN outrun \cup {m} ELSE Rewritten(m)
  /\ UNCHANGED change

SetDefault(n) ==
  /\ IsSite(n)
  /\ default' = n
  /\ UNCHANGED <<entry, change, outrun>>

\* The rules a person gives the site (SavePolicy; SafetyScreen).
SetRule(n) ==
  /\ IsSite(n)
  /\ entry' = [entry EXCEPT ![n].mcp = Rule]
  /\ UNCHANGED <<default, change, outrun>>

-----------------------------------------------------------------------------
ScreenInit ==
  /\ entry = [n \in SiteNames |-> NoSite]
  /\ default = NoName
  /\ change = [c \in Screens |-> Free]
  /\ outrun = {}

ScreenNext ==
  \/ \E c \in Screens :
       \/ \E n \in SiteNames, a \in Adds, replace \in BOOLEAN, op \in {"add", "init"} :
            StartAdd(c, n, a.url, a.auth, replace, op)
       \/ \E n \in SiteNames, u \in Urls : StartChangeURL(c, n, u) \/ StartEdit(c, n, u)
       \/ \E n \in SiteNames : StartRemove(c, n)
       \/ Added(c) \/ Initialised(c) \/ ChangedURL(c) \/ Edited(c) \/ MovedURL(c) \/ RemovedSite(c)
  \/ \E n, m \in SiteNames : Rename(n, m)
  \/ \E n \in SiteNames : SetDefault(n) \/ SetRule(n)

ScreenSpec == ScreenInit /\ [][ScreenNext]_screenVars

-----------------------------------------------------------------------------
\* A stored sign-in stands next to an address of the server it was made for,
\* but where ffc site edit was told to move it, or, as SetURL does not look
\* again, where the site was moved or replaced while an address was checked
\* for it; and there again once it is saved with a sign-in.  The default is a
\* site there is, as long as there is one.
SignInsStayHome ==
  /\ \A n \in InFile \ outrun : entry[n].url.host = entry[n].of
  /\ IF InFile = {} THEN default = NoName ELSE default \in InFile

\* A site's rules stay, under its name or another; or it is removed, or ffc
\* init replaces the whole file.
RuleStays(n) ==
  \/ IsSite(n)' /\ entry'[n].mcp = Rule
  \/ ~IsSite(n)' /\ \E m \in SiteNames \ InFile : entry'[m] = entry[n]
  \/ \E c \in Screens : change[c].at \in {"init", "remove"} /\ change'[c] = Free

\* Replacing or moving a site, or renaming it, never loses its rules; only
\* removing it does, and ffc init, which replaces the whole file.
RulesStay ==
  [][\A n \in InFile : entry[n].mcp # NoSite => RuleStays(n)]_screenVars

\* A site keeps to its server's sign-in, but for the two edits that outrun
\* names, and it keeps its rules.
SitesAreKept == []SignInsStayHome /\ RulesStay
=============================================================================
