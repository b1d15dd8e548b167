----------------------------- MODULE SitesProofs ----------------------------
(***************************************************************************)
(* For any number of sites, addresses, screens and commands: a stored      *)
(* sign-in stays next to an address of its own server, and a site's rules  *)
(* are never lost (SiteScreens).  For any number of sign-ins: the browser  *)
(* that comes back answers the one that sent it, and a cancelled one saves *)
(* nothing (SignIns).  For a conversation of any length, with any files:   *)
(* the answer a paused run stopped in, and every prompt's files, are there *)
(* (Conversations); and what a run sends is what its provider accepts      *)
(* (ModelTurns).                                                           *)
(***************************************************************************)
EXTENDS SiteScreens, SignIns, Conversations, SelectionProofs

\* A site as it is saved for the first time: its sign-in was made there.
Fresh == {s \in Site : s.of = s.url.host /\ s.mcp = NoSite}

Adding == {"add", "init", "move"}   \* the changes that save a site
Going  == {"resend", "edit"}        \* those that save an address

\* What each change works with.
ChangeOK(c) ==
  /\ change[c].at \in {"free", "remove"} \cup Adding \cup Going
  /\ change[c].at # "free" => change[c].name \in SiteNames
  /\ change[c].at \in Adding => change[c].new \in Fresh
  /\ change[c].at \in Going => change[c].url \in Urls

\* A sign-in stands next to its own server.
Home(n) == n \in outrun \/ ~IsSite(n) \/ entry[n].url.host = entry[n].of

\* An address that is being checked is one of the server the site is at.
Checked(c) ==
  change[c].at = "resend" =>
    LET n == change[c].name
    IN  n \in outrun \/ ~IsSite(n) \/ change[c].url.host = entry[n].of

DefaultIsThere ==
  IF InFile = {} THEN default = NoName ELSE default \in InFile

\* What holds of the file alone.
FileInv ==
  /\ entry \in [SiteNames -> Site \cup {NoSite}]
  /\ default \in SiteNames \cup {NoName}
  /\ outrun \subseteq SiteNames
  /\ \A n \in SiteNames : Home(n)
  /\ DefaultIsThere

\* The file, and every change that is under way.
ScreenInv ==
  /\ FileInv
  /\ DOMAIN change = Screens
  /\ \A c \in Screens : ChangeOK(c) /\ Checked(c)

-----------------------------------------------------------------------------
(* Lemmas about the operators.                                             *)

LEMMA SignedIsFresh ==
  ASSUME NEW u \in Urls, NEW auth \in Auths
  PROVE  Signed(u, auth) \in Fresh
BY DEF Signed, Fresh, Site, Hosts

LEMMA AddsAreTyped ==
  ASSUME NEW a \in Adds
  PROVE  a.url \in Urls /\ a.auth \in Auths
BY AddsAssumption

\* Two addresses of the same server have its name.
LEMMA SameServerHost ==
  ASSUME NEW u, NEW v, SameServer(u, v)
  PROVE  v.host = u.host
BY DEF SameServer

\* Once a change is set out or over, the others are as they were.
LEMMA BecomesOne ==
  ASSUME DOMAIN change = Screens, NEW c \in Screens, NEW state, Becomes(c, state)
  PROVE  /\ DOMAIN change' = Screens
         /\ change'[c] = state
         /\ \A d \in Screens \ {c} : change'[d] = change[d]
BY DEF Becomes

\* A site is none of the values that stand for no site.
LEMMA SiteIsThere == \A s \in Site : s # NoSite /\ [s EXCEPT !.mcp = Rule] \in Site
BY NoSiteAssumption DEF Site

-----------------------------------------------------------------------------
(* What each way to write the file keeps of it.                            *)

\* The changes under way are still sound after a write.
OthersSound == \A d \in Screens : change'[d] = change[d] => Checked(d)'

\* A site saved, with the rules of the one it replaces.
LEMMA PutSiteInv ==
  ASSUME ScreenInv, NEW n \in SiteNames, NEW s \in Fresh,
         PutSite(n, s), outrun' = Rewritten(n)
  PROVE  FileInv' /\ OthersSound
<1> DEFINE saved == IF IsSite(n) THEN [s EXCEPT !.mcp = entry[n].mcp] ELSE s
<1>1. entry[n] \in Site \cup {NoSite}
  BY DEF ScreenInv, FileInv
<1>2. s \in Site /\ s.of = s.url.host
  BY DEF Fresh
<1>3. saved \in Site /\ saved.of = saved.url.host
  BY <1>1, <1>2 DEF Site, IsSite
<1>4. entry' = [entry EXCEPT ![n] = saved]
  BY DEF PutSite
<1> HIDE DEF saved
<1>5. entry' \in [SiteNames -> Site \cup {NoSite}] /\ entry'[n] = saved
  BY <1>3, <1>4 DEF ScreenInv, FileInv
<1>6. \A m \in SiteNames \ {n} : entry'[m] = entry[m]
  BY <1>4 DEF ScreenInv, FileInv
<1>7. outrun' \subseteq SiteNames
  BY DEF ScreenInv, FileInv, Rewritten, Passed
<1>11. outrun \ {n} \subseteq outrun'
  BY DEF Rewritten
<1>8. \A m \in SiteNames : Home(m)'
  BY <1>3, <1>5, <1>6, <1>11 DEF ScreenInv, FileInv, Home, IsSite
<1>9. default' \in SiteNames \cup {NoName} /\ DefaultIsThere'
  <2>1. InFile' = InFile \cup {n}
    BY <1>3, <1>5, <1>6, NoSiteAssumption DEF InFile, IsSite
  <2>2. default' = IF default = NoName THEN n ELSE default
    BY DEF PutSite
  <2> QED
    BY <2>1, <2>2 DEF ScreenInv, FileInv, DefaultIsThere
<1>10. OthersSound
  <2> SUFFICES ASSUME NEW d \in Screens, change'[d] = change[d], change[d].at = "resend"
               PROVE  Checked(d)'
    BY DEF OthersSound, Checked
  <2>1. change[d].name \in SiteNames
    BY DEF ScreenInv, ChangeOK
  <2>2. CASE change[d].name = n
    BY <2>2 DEF Rewritten, Passed, Checked
  <2>3. CASE change[d].name # n
    BY <2>1, <2>3, <1>6, <1>11 DEF ScreenInv, Checked, IsSite
  <2> QED
    BY <2>2, <2>3
<1> QED
  BY <1>5, <1>7, <1>8, <1>9, <1>10 DEF FileInv

\* ffc init: the file has this site only.
LEMMA Init1Inv ==
  ASSUME ScreenInv, NEW n \in SiteNames, NEW s \in Fresh,
         Init1(n, s), outrun' = Rewritten(n)
  PROVE  FileInv' /\ OthersSound
<1>1. /\ entry' = [m \in SiteNames |-> IF m = n THEN s ELSE NoSite]
      /\ default' = n
  BY DEF Init1
<1>2. s \in Site /\ s.of = s.url.host /\ s # NoSite
  BY NoSiteAssumption DEF Fresh
<1>3. entry' \in [SiteNames -> Site \cup {NoSite}] /\ outrun' \subseteq SiteNames
  BY <1>1, <1>2 DEF ScreenInv, FileInv, Rewritten, Passed
<1>4. \A m \in SiteNames : Home(m)'
  BY <1>1, <1>2 DEF Home, IsSite
<1>5. DefaultIsThere'
  BY <1>1, <1>2 DEF DefaultIsThere, InFile, IsSite
<1>6. OthersSound
  <2> SUFFICES ASSUME NEW d \in Screens, change'[d] = change[d], change[d].at = "resend"
               PROVE  Checked(d)'
    BY DEF OthersSound, Checked
  <2>1. change[d].name \in SiteNames
    BY DEF ScreenInv, ChangeOK
  <2>2. CASE change[d].name = n
    BY <2>2 DEF Rewritten, Passed, Checked
  <2>3. CASE change[d].name # n
    BY <2>1, <2>3, <1>1 DEF Checked, IsSite
  <2> QED
    BY <2>2, <2>3
<1> QED
  BY <1>1, <1>3, <1>4, <1>5, <1>6 DEF FileInv

\* An address saved next to the sign-in that is there.
LEMMA SetSiteURLInv ==
  ASSUME ScreenInv, NEW n \in SiteNames, NEW u \in Urls, SetSiteURL(n, u),
         outrun \subseteq outrun', outrun' \subseteq SiteNames,
         n \in outrun' \/ u.host = entry[n].of
  PROVE  FileInv' /\ OthersSound
<1>1. /\ IsSite(n) /\ default' = default
      /\ entry' = [entry EXCEPT ![n].url = u]
  BY DEF SetSiteURL
<1>2. entry[n] \in Site
  BY <1>1 DEF ScreenInv, FileInv, IsSite
<1>3. /\ [entry[n] EXCEPT !.url = u] \in Site
      /\ [entry[n] EXCEPT !.url = u].of = entry[n].of
      /\ [entry[n] EXCEPT !.url = u].url = u
  BY <1>2 DEF Site
<1>4. /\ entry'[n] = [entry[n] EXCEPT !.url = u]
      /\ \A m \in SiteNames \ {n} : entry'[m] = entry[m]
      /\ entry' \in [SiteNames -> Site \cup {NoSite}]
  BY <1>1, <1>3 DEF ScreenInv, FileInv
<1>5. \A m \in SiteNames : Home(m)'
  BY <1>3, <1>4 DEF ScreenInv, FileInv, Home, IsSite
<1>6. InFile' = InFile
  BY <1>1, <1>3, <1>4, NoSiteAssumption DEF InFile, IsSite
<1>7. OthersSound
  BY <1>1, <1>3, <1>4 DEF ScreenInv, OthersSound, ChangeOK, Checked, IsSite
<1> QED
  BY <1>1, <1>4, <1>5, <1>6, <1>7 DEF FileInv, ScreenInv, DefaultIsThere

LEMMA RemoveSiteInv ==
  ASSUME ScreenInv, NEW n \in SiteNames, RemoveSite(n), outrun' = outrun
  PROVE  FileInv' /\ OthersSound
<1>1. /\ entry' = [entry EXCEPT ![n] = NoSite]
      /\ n \in InFile
  BY DEF RemoveSite, InFile
<1>2. /\ entry' \in [SiteNames -> Site \cup {NoSite}]
      /\ entry'[n] = NoSite
      /\ \A m \in SiteNames \ {n} : entry'[m] = entry[m]
  BY <1>1 DEF ScreenInv, FileInv
<1>3. InFile' = InFile \ {n}
  BY <1>2 DEF InFile, IsSite
<1>4. \A m \in SiteNames : Home(m)'
  BY <1>2 DEF ScreenInv, FileInv, Home, IsSite
<1>5. default' \in SiteNames \cup {NoName} /\ DefaultIsThere'
  <2>1. default \in InFile
    BY <1>1 DEF ScreenInv, FileInv, DefaultIsThere
  <2>2. CASE default # n
    BY <1>1, <1>3, <2>1, <2>2 DEF RemoveSite, DefaultIsThere, InFile
  <2>3. CASE default = n /\ InFile = {n}
    BY <1>3, <2>3 DEF RemoveSite, DefaultIsThere
  <2>4. CASE default = n /\ InFile # {n}
    BY <1>1, <1>3, <2>4 DEF RemoveSite, DefaultIsThere, InFile
  <2> QED
    BY <2>2, <2>3, <2>4
<1>6. OthersSound
  BY <1>2 DEF ScreenInv, OthersSound, ChangeOK, Checked, IsSite
<1> QED
  BY <1>2, <1>4, <1>5, <1>6 DEF FileInv, ScreenInv

\* A site under another name, which an address may be checked for.
LEMMA RenameSiteInv ==
  ASSUME ScreenInv, NEW n \in SiteNames, NEW m \in SiteNames, RenameSite(n, m),
         outrun' = IF n \in outrun THEN outrun \cup {m} ELSE Rewritten(m)
  PROVE  FileInv' /\ OthersSound
<1>1. /\ n \in InFile /\ m \notin InFile /\ n # m
      /\ entry' = [entry EXCEPT ![m] = entry[n], ![n] = NoSite]
      /\ default' = IF default = n THEN m ELSE default
  BY DEF RenameSite, InFile
<1>2. /\ entry' \in [SiteNames -> Site \cup {NoSite}]
      /\ entry'[m] = entry[n] /\ entry'[n] = NoSite
      /\ \A k \in SiteNames \ {n, m} : entry'[k] = entry[k]
  BY <1>1 DEF ScreenInv, FileInv
<1>3. InFile' = (InFile \ {n}) \cup {m}
  BY <1>1, <1>2 DEF InFile, IsSite
<1>4. /\ outrun \ {m} \subseteq outrun' /\ outrun' \subseteq SiteNames
      /\ n \in outrun => m \in outrun'
  BY DEF ScreenInv, FileInv, Rewritten, Passed
<1>5. \A k \in SiteNames : Home(k)'
  BY <1>1, <1>2, <1>4 DEF ScreenInv, FileInv, Home, IsSite
<1>6. default' \in SiteNames \cup {NoName} /\ DefaultIsThere'
  BY <1>1, <1>3 DEF ScreenInv, FileInv, DefaultIsThere
<1>7. OthersSound
  <2> SUFFICES ASSUME NEW d \in Screens, change'[d] = change[d], change[d].at = "resend"
               PROVE  Checked(d)'
    BY DEF OthersSound, Checked
  <2>1. change[d].name \in SiteNames
    BY DEF ScreenInv, ChangeOK
  <2>2. CASE change[d].name = m
    BY <2>2 DEF Rewritten, Passed, Checked
  <2>3. CASE change[d].name = n
    BY <2>3, <1>2 DEF Checked, IsSite
  <2>4. CASE change[d].name \notin {n, m}
    BY <2>1, <2>4, <1>2, <1>4 DEF ScreenInv, Checked, IsSite
  <2> QED
    BY <2>2, <2>3, <2>4
<1> QED
  BY <1>2, <1>4, <1>5, <1>6, <1>7 DEF FileInv

\* The rules a person gives a site.
LEMMA SetRuleInv ==
  ASSUME ScreenInv, NEW n \in SiteNames, SetRule(n)
  PROVE  ScreenInv'
<1>1. /\ IsSite(n) /\ default' = default /\ outrun' = outrun /\ change' = change
      /\ entry' = [entry EXCEPT ![n].mcp = Rule]
  BY DEF SetRule
<1>2. entry[n] \in Site
  BY <1>1 DEF ScreenInv, FileInv, IsSite
<1>3. /\ [entry[n] EXCEPT !.mcp = Rule] \in Site
      /\ [entry[n] EXCEPT !.mcp = Rule].of = entry[n].of
      /\ [entry[n] EXCEPT !.mcp = Rule].url = entry[n].url
  BY <1>2 DEF Site
<1>4. /\ entry'[n] = [entry[n] EXCEPT !.mcp = Rule]
      /\ \A m \in SiteNames \ {n} : entry'[m] = entry[m]
      /\ entry' \in [SiteNames -> Site \cup {NoSite}]
  BY <1>1, <1>3 DEF ScreenInv, FileInv
<1>5. \A m \in SiteNames : Home(m)'
  BY <1>1, <1>3, <1>4 DEF ScreenInv, FileInv, Home, IsSite
<1>6. InFile' = InFile
  BY <1>1, <1>3, <1>4, NoSiteAssumption DEF InFile, IsSite
<1>7. \A c \in Screens : ChangeOK(c)' /\ Checked(c)'
  BY <1>1, <1>3, <1>4 DEF ScreenInv, ChangeOK, Checked, IsSite
<1> QED
  BY <1>1, <1>4, <1>5, <1>6, <1>7 DEF FileInv, ScreenInv, DefaultIsThere

-----------------------------------------------------------------------------
(* The calls.                                                              *)

\* A change is set out, or is over, and the file is sound.
LEMMA BecomesInv ==
  ASSUME ScreenInv, NEW c \in Screens, NEW state, Becomes(c, state),
         FileInv', OthersSound, ChangeOK(c)', Checked(c)'
  PROVE  ScreenInv'
<1>1. /\ DOMAIN change' = Screens
      /\ \A d \in Screens \ {c} : change'[d] = change[d]
  BY BecomesOne DEF ScreenInv
<1>2. \A d \in Screens \ {c} : ChangeOK(d)' /\ Checked(d)'
  BY <1>1 DEF ScreenInv, ChangeOK, OthersSound
<1> QED
  BY <1>1, <1>2 DEF ScreenInv

LEMMA OverInv ==
  ASSUME ScreenInv, NEW c \in Screens, Over(c), FileInv', OthersSound
  PROVE  ScreenInv'
<1>1. Becomes(c, Free) /\ change'[c] = Free
  BY BecomesOne DEF Over, ScreenInv
<1>2. ChangeOK(c)' /\ Checked(c)'
  BY <1>1 DEF ChangeOK, Checked, Free, Adding, Going
<1> QED
  BY <1>1, <1>2, BecomesInv

\* The file as it is keeps what held.
LEMMA SameFileInv ==
  ASSUME ScreenInv, UNCHANGED <<entry, default, outrun>>
  PROVE  FileInv' /\ OthersSound
<1>1. FileInv'
  BY DEF ScreenInv, FileInv, Home, DefaultIsThere, InFile, IsSite
<1>2. OthersSound
  BY DEF ScreenInv, OthersSound, Checked, IsSite
<1> QED
  BY <1>1, <1>2

LEMMA StartInv ==
  ASSUME ScreenInv, NEW c \in Screens, NEW n \in SiteNames,
         \/ \E a \in Adds, replace \in BOOLEAN, how \in {"add", "init"} :
              StartAdd(c, n, a.url, a.auth, replace, how)
         \/ \E u \in Urls : StartChangeURL(c, n, u) \/ StartEdit(c, n, u)
         \/ StartRemove(c, n)
  PROVE  ScreenInv'
<1>1. FileInv' /\ OthersSound
  BY SameFileInv DEF StartAdd, StartChangeURL, StartEdit, StartRemove
<1>2. ASSUME NEW a \in Adds, NEW how \in {"add", "init"}, NEW replace \in BOOLEAN,
             StartAdd(c, n, a.url, a.auth, replace, how)
      PROVE  ScreenInv'
  <2> DEFINE state == [at |-> how, name |-> n, new |-> Signed(a.url, a.auth)]
  <2>1. Becomes(c, state)
    BY <1>2 DEF StartAdd
  <2>2. change'[c] = state
    BY <2>1, BecomesOne DEF ScreenInv
  <2>3. Signed(a.url, a.auth) \in Fresh
    BY AddsAreTyped, SignedIsFresh
  <2>4. ChangeOK(c)' /\ Checked(c)'
    BY <2>2, <2>3 DEF ChangeOK, Checked, Adding, Going
  <2> QED
    BY <1>1, <2>1, <2>4, BecomesInv
<1>3. ASSUME NEW u \in Urls, StartEdit(c, n, u)
      PROVE  ScreenInv'
  <2> DEFINE state == [at |-> "edit", name |-> n, url |-> u]
  <2>1. Becomes(c, state)
    BY <1>3 DEF StartEdit
  <2>2. change'[c] = state
    BY <2>1, BecomesOne DEF ScreenInv
  <2>3. ChangeOK(c)' /\ Checked(c)'
    BY <2>2 DEF ChangeOK, Checked, Adding, Going
  <2> QED
    BY <1>1, <2>1, <2>3, BecomesInv
<1>4. ASSUME StartRemove(c, n)
      PROVE  ScreenInv'
  <2> DEFINE state == [at |-> "remove", name |-> n]
  <2>1. Becomes(c, state)
    BY <1>4 DEF StartRemove
  <2>2. change'[c] = state
    BY <2>1, BecomesOne DEF ScreenInv
  <2>3. ChangeOK(c)' /\ Checked(c)'
    BY <2>2 DEF ChangeOK, Checked, Adding, Going
  <2> QED
    BY <1>1, <2>1, <2>3, BecomesInv
<1>5. ASSUME NEW u \in Urls, StartChangeURL(c, n, u)
      PROVE  ScreenInv'
  <2>1. IsSite(n) /\ entry[n] \in Site /\ UNCHANGED <<entry, default, outrun>>
    BY <1>5 DEF StartChangeURL, ScreenInv, FileInv, IsSite
  <2>2. CASE SameServer(entry[n].url, u)
    <3> DEFINE state == [at |-> "resend", name |-> n, url |-> u]
    <3>1. Becomes(c, state)
      BY <1>5, <2>2 DEF StartChangeURL
    <3>2. change'[c] = state
      BY <3>1, BecomesOne DEF ScreenInv
    <3>3. ChangeOK(c)'
      BY <3>2 DEF ChangeOK, Adding, Going
    <3>4. n \in outrun \/ u.host = entry[n].of
      BY <2>1, <2>2, SameServerHost DEF ScreenInv, FileInv, Home
    <3>5. Checked(c)'
      BY <2>1, <3>2, <3>4 DEF Checked, IsSite
    <3> QED
      BY <1>1, <3>1, <3>3, <3>5, BecomesInv
  <2>3. CASE ~SameServer(entry[n].url, u)
    <3> DEFINE state == [at |-> "move", name |-> n, from |-> entry[n].url,
                         new |-> Signed(u, entry[n].auth)]
    <3>1. Becomes(c, state)
      BY <1>5, <2>3 DEF StartChangeURL
    <3>2. change'[c] = state
      BY <3>1, BecomesOne DEF ScreenInv
    <3>3. Signed(u, entry[n].auth) \in Fresh
      BY <2>1, SignedIsFresh DEF Site
    <3>4. ChangeOK(c)' /\ Checked(c)'
      BY <3>2, <3>3 DEF ChangeOK, Checked, Adding, Going
    <3> QED
      BY <1>1, <3>1, <3>4, BecomesInv
  <2> QED
    BY <2>2, <2>3
<1> QED
  BY <1>2, <1>3, <1>4, <1>5

\* A call that saves a site, an address, or the file without a site.
LEMMA EndInv ==
  ASSUME ScreenInv, NEW c \in Screens,
         \/ Added(c) \/ Initialised(c) \/ ChangedURL(c)
         \/ Edited(c) \/ MovedURL(c) \/ RemovedSite(c)
  PROVE  ScreenInv'
<1> DEFINE n == change[c].name
<1>1. Over(c)
  BY DEF Added, Initialised, ChangedURL, Edited, MovedURL, RemovedSite
<1>2. ChangeOK(c) /\ Checked(c)
  BY DEF ScreenInv
<1>3. CASE UNCHANGED <<entry, default, outrun>>
  BY <1>1, <1>3, SameFileInv, OverInv
<1>4. CASE Added(c) /\ ~UNCHANGED <<entry, default, outrun>>
  <2>1. /\ n \in SiteNames /\ change[c].new \in Fresh
        /\ PutSite(n, change[c].new) /\ outrun' = Rewritten(n)
    BY <1>2, <1>4 DEF Added, ChangeOK, Adding
  <2> QED
    BY <1>1, <2>1, PutSiteInv, OverInv
<1>5. CASE Initialised(c) /\ ~UNCHANGED <<entry, default, outrun>>
  <2>1. /\ n \in SiteNames /\ change[c].new \in Fresh
        /\ Init1(n, change[c].new) /\ outrun' = Rewritten(n)
    BY <1>2, <1>5 DEF Initialised, ChangeOK, Adding
  <2> QED
    BY <1>1, <2>1, Init1Inv, OverInv
<1>6. CASE MovedURL(c) /\ ~UNCHANGED <<entry, default, outrun>>
  <2>1. /\ n \in SiteNames /\ change[c].new \in Fresh
        /\ PutSite(n, change[c].new) /\ outrun' = Rewritten(n)
    BY <1>2, <1>6 DEF MovedURL, Move, ChangeOK, Adding
  <2> QED
    BY <1>1, <2>1, PutSiteInv, OverInv
<1>7. CASE ChangedURL(c) /\ ~UNCHANGED <<entry, default, outrun>>
  <2>1. /\ n \in SiteNames /\ change[c].url \in Urls
        /\ SetSiteURL(n, change[c].url) /\ outrun' = outrun
        /\ n \in outrun \/ change[c].url.host = entry[n].of
    BY <1>2, <1>7 DEF ChangedURL, ChangeOK, Checked, Going, SetSiteURL
  <2>2. outrun' \subseteq SiteNames
    BY <2>1 DEF ScreenInv, FileInv
  <2> QED
    BY <1>1, <2>1, <2>2, SetSiteURLInv, OverInv
<1>8. CASE Edited(c) /\ ~UNCHANGED <<entry, default, outrun>>
  <2>1. /\ n \in SiteNames /\ change[c].url \in Urls
        /\ SetSiteURL(n, change[c].url) /\ outrun' = outrun \cup {n}
    BY <1>2, <1>8 DEF Edited, ChangeOK, Going
  <2>2. outrun' \subseteq SiteNames /\ outrun \subseteq outrun' /\ n \in outrun'
    BY <2>1 DEF ScreenInv, FileInv
  <2> QED
    BY <1>1, <2>1, <2>2, SetSiteURLInv, OverInv
<1>9. CASE RemovedSite(c) /\ ~UNCHANGED <<entry, default, outrun>>
  <2>1. n \in SiteNames /\ RemoveSite(n) /\ outrun' = outrun
    BY <1>2, <1>9 DEF RemovedSite, ChangeOK
  <2> QED
    BY <1>1, <2>1, RemoveSiteInv, OverInv
<1> QED
  BY <1>3, <1>4, <1>5, <1>6, <1>7, <1>8, <1>9

LEMMA ScreenInitInv == ScreenInit => ScreenInv
<1> SUFFICES ASSUME ScreenInit PROVE ScreenInv
  OBVIOUS
<1>1. FileInv
  BY DEF ScreenInit, FileInv, Home, DefaultIsThere, InFile, IsSite
<1>2. \A c \in Screens : ChangeOK(c) /\ Checked(c)
  BY DEF ScreenInit, ChangeOK, Checked, Free, Adding, Going
<1> QED
  BY <1>1, <1>2 DEF ScreenInit, ScreenInv

LEMMA ScreenNextInv == ScreenInv /\ [ScreenNext]_screenVars => ScreenInv'
<1> SUFFICES ASSUME ScreenInv, [ScreenNext]_screenVars PROVE ScreenInv'
  OBVIOUS
<1>1. CASE UNCHANGED screenVars
  BY <1>1 DEF screenVars, ScreenInv, FileInv, Home, DefaultIsThere, InFile, IsSite,
              ChangeOK, Checked
<1>2. ASSUME NEW c \in Screens, NEW n \in SiteNames,
             \/ \E a \in Adds, replace \in BOOLEAN, how \in {"add", "init"} :
                  StartAdd(c, n, a.url, a.auth, replace, how)
             \/ \E u \in Urls : StartChangeURL(c, n, u) \/ StartEdit(c, n, u)
             \/ StartRemove(c, n)
      PROVE  ScreenInv'
  BY <1>2, StartInv
<1>3. ASSUME NEW c \in Screens,
             \/ Added(c) \/ Initialised(c) \/ ChangedURL(c)
             \/ Edited(c) \/ MovedURL(c) \/ RemovedSite(c)
      PROVE  ScreenInv'
  BY <1>3, EndInv
<1>4. ASSUME NEW n \in SiteNames, NEW m \in SiteNames, Rename(n, m)
      PROVE  ScreenInv'
  <2>1. FileInv' /\ OthersSound /\ change' = change
    BY <1>4, RenameSiteInv DEF Rename
  <2> QED
    BY <2>1 DEF ScreenInv, OthersSound, ChangeOK
<1>5. ASSUME NEW n \in SiteNames, SetDefault(n)
      PROVE  ScreenInv'
  <2>1. /\ IsSite(n) /\ default' = n /\ UNCHANGED <<entry, change, outrun>>
    BY <1>5 DEF SetDefault
  <2>2. FileInv'
    BY <2>1 DEF ScreenInv, FileInv, Home, DefaultIsThere, InFile, IsSite
  <2> QED
    BY <2>1, <2>2 DEF ScreenInv, ChangeOK, Checked, IsSite
<1>6. ASSUME NEW n \in SiteNames, SetRule(n)
      PROVE  ScreenInv'
  BY <1>6, SetRuleInv
<1> QED
  BY <1>1, <1>2, <1>3, <1>4, <1>5, <1>6 DEF ScreenNext

\* A stored sign-in stands next to an address of the server it was made for,
\* but where ffc site edit moved it, or where the site was moved or replaced
\* while an address was checked for it, and until it is saved anew; and the
\* default is a site there is.
THEOREM SignInsHome == ScreenSpec => []SignInsStayHome
<1>1. ScreenInv => SignInsStayHome
  BY DEF ScreenInv, FileInv, Home, DefaultIsThere, SignInsStayHome, InFile
<1> QED
  BY <1>1, ScreenInitInv, ScreenNextInv, PTL DEF ScreenSpec

-----------------------------------------------------------------------------
(* The rules.                                                              *)

\* No call that changes the file loses a site's rules.
LEMMA RuleStaysLemma ==
  ASSUME ScreenInv, ScreenNext, NEW n \in InFile, entry[n].mcp # NoSite
  PROVE  RuleStays(n)
<1>1. /\ n \in SiteNames /\ entry[n] \in Site /\ entry[n] # NoSite /\ entry[n].mcp = Rule
      /\ entry \in [SiteNames -> Site \cup {NoSite}]
      /\ DOMAIN change = Screens
  BY DEF InFile, IsSite, ScreenInv, FileInv, Site
<1>2. CASE entry' = entry
  BY <1>1, <1>2 DEF RuleStays, IsSite
<1>3. ASSUME NEW m \in SiteNames, NEW s \in Fresh, PutSite(m, s)
      PROVE  RuleStays(n)
  <2>1. CASE m # n
    BY <1>1, <1>3, <2>1 DEF PutSite, RuleStays, IsSite
  <2>2. CASE m = n
    <3>1. entry' = [entry EXCEPT ![n] = [s EXCEPT !.mcp = Rule]]
      BY <1>1, <1>3, <2>2 DEF PutSite, IsSite
    <3>2. /\ [s EXCEPT !.mcp = Rule] \in Site
          /\ [s EXCEPT !.mcp = Rule].mcp = Rule
      BY DEF Fresh, Site
    <3>3. entry'[n] = [s EXCEPT !.mcp = Rule]
      BY <1>1, <3>1
    <3> QED
      BY <3>2, <3>3, NoSiteAssumption DEF RuleStays, IsSite
  <2> QED
    BY <2>1, <2>2
<1>4. ASSUME NEW m \in SiteNames, NEW u \in Urls, SetSiteURL(m, u)
      PROVE  RuleStays(n)
  <2>1. CASE m # n
    BY <1>1, <1>4, <2>1 DEF SetSiteURL, RuleStays, IsSite
  <2>2. CASE m = n
    <3>1. entry'[n] = [entry[n] EXCEPT !.url = u]
      BY <1>1, <1>4, <2>2 DEF SetSiteURL
    <3>2. /\ [entry[n] EXCEPT !.url = u] \in Site
          /\ [entry[n] EXCEPT !.url = u].mcp = Rule
      BY <1>1 DEF Site
    <3> QED
      BY <3>1, <3>2, NoSiteAssumption DEF RuleStays, IsSite
  <2> QED
    BY <2>1, <2>2
<1>5. ASSUME NEW c \in Screens, Over(c), change[c].at \in {"init", "remove"}
      PROVE  RuleStays(n)
  BY <1>1, <1>5, BecomesOne DEF Over, RuleStays
<1>6. ASSUME NEW c \in Screens, Added(c) \/ MovedURL(c)
      PROVE  RuleStays(n)
  <2>1. change[c].name \in SiteNames /\ change[c].new \in Fresh
    BY <1>6 DEF ScreenInv, ChangeOK, Added, MovedURL, Adding
  <2> QED
    BY <1>2, <1>3, <1>6, <2>1 DEF Added, MovedURL, Move
<1>7. ASSUME NEW c \in Screens, ChangedURL(c) \/ Edited(c)
      PROVE  RuleStays(n)
  <2>1. change[c].name \in SiteNames /\ change[c].url \in Urls
    BY <1>7 DEF ScreenInv, ChangeOK, ChangedURL, Edited, Going
  <2> QED
    BY <1>2, <1>4, <1>7, <2>1 DEF ChangedURL, Edited
<1>8. ASSUME NEW k \in SiteNames, NEW m \in SiteNames, Rename(k, m)
      PROVE  RuleStays(n)
  <2>1. /\ k # m /\ m \notin InFile /\ m # n
        /\ entry' = [entry EXCEPT ![m] = entry[k], ![k] = NoSite]
    BY <1>8 DEF Rename, RenameSite, InFile, IsSite
  <2>2. CASE k = n
    BY <1>1, <2>1, <2>2 DEF RuleStays, IsSite
  <2>3. CASE k # n
    BY <1>1, <2>1, <2>3 DEF RuleStays, IsSite
  <2> QED
    BY <2>2, <2>3
<1>9. ASSUME NEW m \in SiteNames, SetRule(m)
      PROVE  RuleStays(n)
  <2>1. entry' = [entry EXCEPT ![m].mcp = Rule]
    BY <1>9 DEF SetRule
  <2>2. CASE m # n
    BY <1>1, <2>1, <2>2 DEF RuleStays, IsSite
  <2>3. CASE m = n
    <3>1. entry'[n] = [entry[n] EXCEPT !.mcp = Rule]
      BY <1>1, <2>1, <2>3
    <3>2. /\ [entry[n] EXCEPT !.mcp = Rule] \in Site
          /\ [entry[n] EXCEPT !.mcp = Rule].mcp = Rule
      BY <1>1 DEF Site
    <3> QED
      BY <3>1, <3>2, NoSiteAssumption DEF RuleStays, IsSite
  <2> QED
    BY <2>2, <2>3
<1> QED
  BY <1>2, <1>5, <1>6, <1>7, <1>8, <1>9
     DEF ScreenNext, StartAdd, StartChangeURL, StartEdit, StartRemove, SetDefault,
         Initialised, RemovedSite

\* Replacing, moving or renaming a site never loses its rules.
THEOREM RulesKept == ScreenSpec => RulesStay
<1>1. ScreenInv /\ [ScreenNext]_screenVars
        => [\A n \in InFile : entry[n].mcp # NoSite => RuleStays(n)]_screenVars
  BY RuleStaysLemma
<1> QED
  BY <1>1, ScreenInitInv, ScreenNextInv, PTL DEF ScreenSpec, RulesStay

\* A site keeps its rules, whoever edits the sites meanwhile, and keeps to its
\* server's sign-in but for two edits: ffc site edit, which moves it where it
\* is told to, and an address that was checked before the site was moved or
\* replaced (AddOrInit, SetURL, RenameSite, RemoveSite).
THEOREM SitesKept == ScreenSpec => SitesAreKept
BY SignInsHome, RulesKept, PTL DEF SitesAreKept
-----------------------------------------------------------------------------
(* Sign-ins (SignIns).                                                     *)

\* Where an attempt has not sent its code, and where it is over.
Unsent == {"new", "replace", "bind", "app", "open", "wait", "exchange"}
Leaving == {"leave", "done", "ended"}
SignSteps == Unsent \cup {"answer", "user", "save"} \cup Leaving

SignTypeOK ==
  /\ by \in [Attempts -> {"screen", "wizard", "key"}]
  /\ step \in [Attempts -> SignSteps]
  /\ current \in [Services -> Attempts \cup {NoAttempt}]
  /\ before \in [Attempts -> Attempts \cup {NoAttempt}]
  /\ DOMAIN port = Attempts
  /\ result \in [Attempts -> Attempts \cup {NoAttempt, "denied", "error"}]
  /\ spent \in [Attempts -> 0 .. 1]
  /\ DOMAIN end = Attempts

\* What an attempt's redirect and its code are.
ResultOK(a) ==
  /\ result[a] \in Attempts => result[a] = a
  /\ step[a] = "exchange" => result[a] = a
  /\ step[a] \in Unsent => spent[a] = 0

\* Its port, and the attempt it waited for.
PortOK(a) ==
  /\ step[a] \in {"done", "ended"} => port[a] = 0
  /\ step[a] = "new" => before[a] = NoAttempt
  /\ before[a] # NoAttempt /\ step[a] \notin {"new", "replace"} \cup Leaving
       => step[before[a]] = "ended"

\* The key it got.
MadeOK(a) ==
  /\ step[a] \notin Leaving => end[a] = ""
  /\ step[a] \in Unsent \cup {"answer"} => a \notin traded
  /\ step[a] = "user" => by[a] # "key"
  /\ step[a] = "save" /\ by[a] = "key" => a \in traded
  /\ a \in traded /\ by[a] = "key" => end[a] # "cancelled"

SignInv ==
  /\ SignTypeOK
  /\ \A a \in Attempts : ResultOK(a) /\ PortOK(a) /\ MadeOK(a)

LEMMA SignInitInv == SignInit => SignInv
<1> SUFFICES ASSUME SignInit PROVE SignInv
  OBVIOUS
<1>1. SignTypeOK
  <2>1. by \in [Attempts -> {"screen", "wizard", "key"}]
    BY OwnersAssumption DEF SignInit
  <2>2. 0 \in 0 .. 1 /\ "new" \in SignSteps
    BY DEF SignSteps, Unsent
  <2>3. /\ step \in [Attempts -> SignSteps] /\ spent \in [Attempts -> 0 .. 1]
        /\ current \in [Services -> Attempts \cup {NoAttempt}]
        /\ before \in [Attempts -> Attempts \cup {NoAttempt}]
        /\ result \in [Attempts -> Attempts \cup {NoAttempt, "denied", "error"}]
        /\ DOMAIN port = Attempts /\ DOMAIN end = Attempts
    BY <2>2 DEF SignInit
  <2> QED
    BY <2>1, <2>3 DEF SignTypeOK
<1>2. \A a \in Attempts : ResultOK(a) /\ PortOK(a) /\ MadeOK(a)
  BY AttemptsAssumption DEF SignInit, ResultOK, PortOK, MadeOK, Unsent, Leaving
<1> QED
  BY <1>1, <1>2 DEF SignInv

\* All that is an attempt's own, of another attempt.
Untouched(b) ==
  /\ step'[b] = step[b] /\ before'[b] = before[b] /\ port'[b] = port[b]
  /\ result'[b] = result[b] /\ spent'[b] = spent[b] /\ end'[b] = end[b]
  /\ b \in traded' <=> b \in traded

\* A step of one attempt, which had not ended, leaves the others sound.
LEMMA OneMoves ==
  ASSUME SignInv, NEW a \in Attempts, step[a] # "ended", by' = by,
         \A b \in Attempts \ {a} : Untouched(b)
  PROVE  \A b \in Attempts \ {a} :
           ResultOK(b)' /\ PortOK(b)' /\ MadeOK(b)' /\ KeepsCancel(b)
<1> SUFFICES ASSUME NEW b \in Attempts \ {a}
             PROVE  ResultOK(b)' /\ PortOK(b)' /\ MadeOK(b)' /\ KeepsCancel(b)
  OBVIOUS
<1>1. Untouched(b) /\ ResultOK(b) /\ PortOK(b) /\ MadeOK(b)
  BY DEF SignInv
<1>2. ResultOK(b)'
  BY <1>1 DEF Untouched, ResultOK
<1>3. PortOK(b)'
  <2>1. before[b] \in Attempts /\ step[before[b]] = "ended" => step'[before[b]] = "ended"
    BY DEF Untouched
  <2> QED
    BY <1>1, <2>1 DEF Untouched, PortOK, SignInv, SignTypeOK
<1>4. MadeOK(b)' /\ KeepsCancel(b)
  BY <1>1 DEF Untouched, MadeOK, KeepsCancel
<1> QED
  BY <1>2, <1>3, <1>4

\* A step of an attempt that goes somewhere, and may end for some reason.
LEMMA GoesInv ==
  ASSUME SignInv, NEW a \in Attempts, NEW to \in SignSteps, StepsTo(a, to),
         step[a] # "ended", UNCHANGED <<by, result>>,
         current' \in [Services -> Attempts \cup {NoAttempt}],
         before' = before
           \/ \E b \in Attempts \cup {NoAttempt} : before' = [before EXCEPT ![a] = b],
         port' = port \/ \E p : port' = [port EXCEPT ![a] = p],
         spent' = spent \/ (spent' = [spent EXCEPT ![a] = 1]),
         traded' = traded \/ (traded' = traded \cup {a}),
         end' = end \/ \E how : end' = [end EXCEPT ![a] = how],
         ResultOK(a)', PortOK(a)', MadeOK(a)', KeepsCancel(a)
  PROVE  SignInv' /\ \A b \in Attempts : KeepsCancel(b)
<1>1. SignTypeOK'
  BY DEF SignInv, SignTypeOK, StepsTo
<1>2. ASSUME NEW b \in Attempts \ {a}
      PROVE  Untouched(b)
  BY <1>2 DEF SignInv, SignTypeOK, StepsTo, Untouched
<1> QED
  BY <1>1, <1>2, OneMoves DEF SignInv

\* Where an attempt gives up, its port may be closed.
LEMMA GivesUpInv ==
  ASSUME SignInv, NEW a \in Attempts, NEW how \in {"cancelled", "refused", "failed", "saved"},
         step[a] \notin Leaving, GivesUp(a, how),
         UNCHANGED <<by, givenUp, current, result, before, spent>>,
         port' = port \/ (port' = [port EXCEPT ![a] = 0]),
         traded' = traded \/ (traded' = traded \cup {a}),
         how = "cancelled" => by[a] # "key" \/ (step[a] # "save" /\ traded' = traded)
  PROVE  SignInv' /\ \A b \in Attempts : KeepsCancel(b)
<1>1. /\ StepsTo(a, "leave") /\ end' = [end EXCEPT ![a] = how]
      /\ step'[a] = "leave" /\ end'[a] = how /\ step[a] # "ended"
  BY DEF GivesUp, StepsTo, SignInv, SignTypeOK, Leaving
<1>2. ResultOK(a) /\ PortOK(a) /\ MadeOK(a)
  BY DEF SignInv
<1>3. ResultOK(a)'
  BY <1>1, <1>2 DEF ResultOK, Unsent
<1>4. PortOK(a)'
  BY <1>1 DEF PortOK, Leaving
<1>5. MadeOK(a)' /\ KeepsCancel(a)
  BY <1>1, <1>2 DEF MadeOK, KeepsCancel, Unsent, Leaving, SignInv, SignTypeOK, SignSteps
<1>6. "leave" \in SignSteps /\ current' \in [Services -> Attempts \cup {NoAttempt}]
  BY DEF SignSteps, Leaving, SignInv, SignTypeOK
<1> QED
  BY <1>1, <1>3, <1>4, <1>5, <1>6, GoesInv

\* One step of an attempt keeps what holds of every attempt.
LEMMA StepsInv ==
  ASSUME SignInv, NEW a \in Attempts, BeginSignIn(a) \/ Steps(a)
  PROVE  SignInv' /\ \A b \in Attempts : KeepsCancel(b)
<1>1. /\ SignTypeOK /\ ResultOK(a) /\ PortOK(a) /\ MadeOK(a)
      /\ current \in [Services -> Attempts \cup {NoAttempt}]
  BY DEF SignInv, SignTypeOK
<1> USE DEF SignTypeOK, StepsTo
<1>2. CASE BeginSignIn(a)
  <2>1. PICK to \in {"bind", "replace"} : StepsTo(a, to)
    BY <1>2 DEF BeginSignIn
  <2>2. /\ step[a] = "new" /\ step'[a] = to
        /\ UNCHANGED <<by, port, result, spent, traded, end>>
    BY <1>1, <1>2, <2>1 DEF BeginSignIn
  <2>3. /\ current' \in [Services -> Attempts \cup {NoAttempt}]
        /\ before' = before
             \/ \E b \in Attempts \cup {NoAttempt} : before' = [before EXCEPT ![a] = b]
        /\ to = "bind" => before'[a] = NoAttempt
    <3>1. CASE by[a] \in Services
      BY <1>1, <1>2, <2>1, <2>2, <3>1 DEF BeginSignIn, Services
    <3>2. CASE by[a] \notin Services
      BY <1>1, <1>2, <2>2, <3>2 DEF BeginSignIn, PortOK
    <3> QED
      BY <3>1, <3>2
  <2>4. ResultOK(a)' /\ PortOK(a)' /\ MadeOK(a)' /\ KeepsCancel(a)
    BY <1>1, <2>2, <2>3
       DEF ResultOK, PortOK, MadeOK, KeepsCancel, Unsent, Leaving
  <2>5. to \in SignSteps
    BY DEF SignSteps, Unsent
  <2> QED
    BY <2>1, <2>2, <2>3, <2>4, <2>5, GoesInv
<1>3. CASE Replace(a)
  <2>1. CASE Stopped(a) /\ UNCHANGED before
    BY <1>3, <2>1, GivesUpInv DEF Replace, Stopped, Leaving
  <2>2. CASE ~(Stopped(a) /\ UNCHANGED before)
    <3>1. /\ step[a] = "replace" /\ StepsTo(a, "bind") /\ step'[a] = "bind"
          /\ UNCHANGED <<by, current, port, result, spent, traded, end>>
          /\ \/ before' = before /\ step[before[a]] = "ended"
             \/ before' = [before EXCEPT ![a] = NoAttempt]
      BY <1>1, <1>3, <2>2 DEF Replace
    <3>2. before[a] # NoAttempt /\ step[before[a]] = "ended" => step'[before[a]] = "ended"
      BY <1>1, <3>1
    <3>3. ResultOK(a)' /\ PortOK(a)' /\ MadeOK(a)' /\ KeepsCancel(a)
      BY <1>1, <3>1, <3>2 DEF ResultOK, PortOK, MadeOK, KeepsCancel, Unsent, Leaving
    <3>4. "bind" \in SignSteps
      BY DEF SignSteps, Unsent
    <3> QED
      BY <1>1, <3>1, <3>3, <3>4, GoesInv
  <2> QED
    BY <2>1, <2>2
<1>4. CASE Bind(a) \/ (App(a) /\ StepsTo(a, "open") /\ UNCHANGED end) \/ OpenPage(a)
  <2>1. PICK to \in {"app", "open", "wait"} : StepsTo(a, to)
    BY <1>4 DEF Bind, OpenPage
  <2>2. /\ step[a] \in {"bind", "app", "open"} /\ step'[a] = to
        /\ UNCHANGED <<by, current, before, result, spent, traded, end>>
        /\ port' = port \/ \E p : port' = [port EXCEPT ![a] = p]
    BY <1>1, <1>4, <2>1 DEF Bind, App, OpenPage
  <2>3. before[a] # NoAttempt => step'[before[a]] = "ended"
    BY <1>1, <2>1, <2>2 DEF PortOK, Leaving
  <2>4. ResultOK(a)' /\ PortOK(a)' /\ MadeOK(a)' /\ KeepsCancel(a)
    BY <1>1, <2>2, <2>3 DEF ResultOK, PortOK, MadeOK, KeepsCancel, Unsent, Leaving
  <2>5. to \in SignSteps
    BY DEF SignSteps, Unsent
  <2> QED
    BY <1>1, <2>1, <2>2, <2>4, <2>5, GoesInv
<1>5. CASE App(a) /\ ~(StepsTo(a, "open") /\ UNCHANGED end)
  BY <1>5, GivesUpInv DEF App, Stopped, Leaving
<1>6. CASE Wait(a)
  <2>1. /\ step[a] = "wait" /\ port' = [port EXCEPT ![a] = 0]
        /\ UNCHANGED <<by, givenUp, current, before, result, spent, traded>>
    BY <1>6 DEF Wait
  <2>2. CASE GivesUp(a, "cancelled") \/ GivesUp(a, "refused") \/ GivesUp(a, "failed")
    BY <2>1, <2>2, GivesUpInv DEF Leaving
  <2>3. CASE result[a] \in Attempts /\ StepsTo(a, "exchange") /\ UNCHANGED end
    <3>1. step'[a] = "exchange" /\ (before[a] # NoAttempt => step'[before[a]] = "ended")
      BY <1>1, <2>1, <2>3 DEF PortOK, Leaving
    <3>2. ResultOK(a)' /\ PortOK(a)' /\ MadeOK(a)' /\ KeepsCancel(a)
      BY <1>1, <2>1, <2>3, <3>1 DEF ResultOK, PortOK, MadeOK, KeepsCancel, Unsent, Leaving
    <3>3. "exchange" \in SignSteps
      BY DEF SignSteps, Unsent
    <3> QED
      BY <1>1, <2>1, <2>3, <3>2, <3>3, GoesInv
  <2>4. TimesOut(a) => GivesUp(a, "cancelled") \/ GivesUp(a, "failed")
    BY DEF TimesOut
  <2> QED
    BY <1>6, <2>2, <2>3, <2>4 DEF Wait, Stopped
<1>7. CASE Exchange(a)
  <2>1. step[a] = "exchange" /\ result[a] = a
    BY <1>1, <1>7 DEF Exchange, ResultOK
  <2>2. CASE Stopped(a) /\ UNCHANGED spent
    BY <1>7, <2>1, <2>2, GivesUpInv DEF Exchange, Stopped, Leaving
  <2>3. CASE ~(Stopped(a) /\ UNCHANGED spent)
    <3>1. /\ StepsTo(a, "answer") /\ step'[a] = "answer"
          /\ spent' = [spent EXCEPT ![a] = 1]
          /\ UNCHANGED <<by, current, before, port, result, traded, end>>
          /\ before[a] # NoAttempt => step'[before[a]] = "ended"
      BY <1>1, <1>7, <2>1, <2>3 DEF Exchange, ResultOK, PortOK, Unsent, Leaving
    <3>2. ResultOK(a)' /\ PortOK(a)' /\ MadeOK(a)' /\ KeepsCancel(a)
      BY <1>1, <2>1, <3>1 DEF ResultOK, PortOK, MadeOK, KeepsCancel, Unsent, Leaving
    <3>3. "answer" \in SignSteps
      BY DEF SignSteps
    <3> QED
      BY <1>1, <2>1, <3>1, <3>2, <3>3, GoesInv
  <2> QED
    BY <2>2, <2>3
<1>8. CASE Answered(a)
  <2>1. /\ step[a] = "answer"
        /\ UNCHANGED <<by, givenUp, current, before, port, result, spent>>
    BY <1>8 DEF Answered
  <2>2. ASSUME NEW to \in {"save", "user"}, StepsTo(a, to), traded' = traded \cup {a}, UNCHANGED end,
               by[a] = "key" <=> to = "save", to = "user" => a \notin givenUp
        PROVE  SignInv' /\ \A b \in Attempts : KeepsCancel(b)
    <3>1. step'[a] = to /\ (before[a] # NoAttempt => step'[before[a]] = "ended")
      BY <1>1, <2>1, <2>2 DEF PortOK, Leaving
    <3>2. ResultOK(a)' /\ PortOK(a)' /\ MadeOK(a)' /\ KeepsCancel(a)
      BY <1>1, <2>1, <2>2, <3>1 DEF ResultOK, PortOK, MadeOK, KeepsCancel, Unsent, Leaving
    <3>3. to \in SignSteps
      BY DEF SignSteps
    <3> QED
      BY <1>1, <2>1, <2>2, <3>2, <3>3, GoesInv
  <2>3. CASE traded' = traded /\ (GivesUp(a, "cancelled") \/ GivesUp(a, "failed"))
    BY <2>1, <2>3, GivesUpInv DEF Leaving
  <2>4. CASE by[a] # "key" /\ traded' = traded \cup {a} /\ GivesUp(a, "cancelled")
    BY <2>1, <2>4, GivesUpInv DEF Leaving
  <2>5. CASE by[a] = "key"
    BY <1>8, <2>2, <2>3, <2>5 DEF Answered, MayGoOn, Stopped
  <2>6. CASE by[a] # "key" /\ a \in givenUp
    BY <1>8, <2>3, <2>4, <2>6 DEF Answered, MayGoOn, Stopped
  <2>7. CASE by[a] # "key" /\ a \notin givenUp
    BY <1>8, <2>2, <2>3, <2>7 DEF Answered, MayGoOn, Stopped
  <2> QED
    BY <2>5, <2>6, <2>7
<1>9. CASE User(a)
  <2>1. /\ step[a] = "user" /\ by[a] # "key"
        /\ UNCHANGED <<by, givenUp, current, before, port, result, spent, traded>>
    BY <1>1, <1>9 DEF User, MadeOK
  <2>2. CASE Stopped(a)
    BY <2>1, <2>2, GivesUpInv DEF Stopped, Leaving
  <2>3. CASE a \notin givenUp /\ StepsTo(a, "save") /\ UNCHANGED end
    <3>1. step'[a] = "save" /\ (before[a] # NoAttempt => step'[before[a]] = "ended")
      BY <1>1, <2>1, <2>3 DEF PortOK, Leaving
    <3>2. ResultOK(a)' /\ PortOK(a)' /\ MadeOK(a)' /\ KeepsCancel(a)
      BY <1>1, <2>1, <2>3, <3>1 DEF ResultOK, PortOK, MadeOK, KeepsCancel, Unsent, Leaving
    <3>3. "save" \in SignSteps
      BY DEF SignSteps
    <3> QED
      BY <1>1, <2>1, <2>3, <3>2, <3>3, GoesInv
  <2> QED
    BY <1>9, <2>1, <2>2, <2>3 DEF User, MayGoOn
<1>10. CASE StoreIt(a)
  BY <1>10, GivesUpInv DEF StoreIt, Leaving
<1>11. CASE Leave(a)
  <2>1. /\ step[a] = "leave" /\ StepsTo(a, "done") /\ step'[a] = "done"
        /\ port' = [port EXCEPT ![a] = 0] /\ port'[a] = 0
        /\ UNCHANGED <<by, current, before, result, spent, traded, end>>
    BY <1>1, <1>11 DEF Leave
  <2>2. ResultOK(a)' /\ PortOK(a)' /\ MadeOK(a)' /\ KeepsCancel(a)
    BY <1>1, <2>1 DEF ResultOK, PortOK, MadeOK, KeepsCancel, Unsent, Leaving
  <2>3. "done" \in SignSteps
    BY DEF SignSteps, Leaving
  <2> QED
    BY <1>1, <2>1, <2>2, <2>3, GoesInv
<1>12. CASE Done(a)
  <2>1. /\ step[a] = "done" /\ StepsTo(a, "ended") /\ step'[a] = "ended"
        /\ current' \in [Services -> Attempts \cup {NoAttempt}]
        /\ UNCHANGED <<by, before, port, result, spent, traded, end>>
    BY <1>1, <1>12 DEF Done
  <2>2. ResultOK(a)' /\ PortOK(a)' /\ MadeOK(a)' /\ KeepsCancel(a)
    BY <1>1, <2>1 DEF ResultOK, PortOK, MadeOK, KeepsCancel, Unsent, Leaving
  <2>3. "ended" \in SignSteps
    BY DEF SignSteps, Leaving
  <2> QED
    BY <1>1, <2>1, <2>2, <2>3, GoesInv
<1> QED
  BY <1>2, <1>3, <1>4, <1>5, <1>6, <1>7, <1>8, <1>9, <1>10, <1>11, <1>12 DEF Steps

\* A redirect is taken by the attempt whose page it comes from.
LEMMA RedirectInv ==
  ASSUME SignInv, NEW b \in Attempts, NEW what \in {"code", "denied", "error"},
         Redirect(b, what)
  PROVE  SignInv' /\ \A a \in Attempts : KeepsCancel(a)
<1>1. PICK a \in Attempts :
        /\ result[a] = NoAttempt /\ Accepts(a, b, what)
        /\ result' = [result EXCEPT ![a] = IF what = "code" THEN b ELSE what]
  BY DEF Redirect
<1>2. /\ UNCHANGED <<by, step, givenUp, current, before, port, spent, traded, end>>
  BY DEF Redirect
<1>3. what = "code" => a = b
  BY <1>1 DEF Accepts
<1>4. result' = [result EXCEPT ![a] = a] \/ result' = [result EXCEPT ![a] = "denied"]
        \/ result' = [result EXCEPT ![a] = "error"]
  BY <1>1, <1>3
<1>5. step[a] # "exchange"
  BY <1>1, AttemptsAssumption DEF SignInv, ResultOK
<1>6. SignTypeOK'
  BY <1>2, <1>4 DEF SignInv, SignTypeOK
<1>7. \A c \in Attempts : ResultOK(c)' /\ PortOK(c)' /\ MadeOK(c)'
  <2> SUFFICES ASSUME NEW c \in Attempts
               PROVE  ResultOK(c)' /\ PortOK(c)' /\ MadeOK(c)'
    OBVIOUS
  <2>1. ResultOK(c) /\ PortOK(c) /\ MadeOK(c) /\ SignTypeOK
    BY DEF SignInv
  <2>2. PortOK(c)' /\ MadeOK(c)'
    BY <1>2, <2>1 DEF PortOK, MadeOK
  <2>3. c = a => result'[c] \in {a, "denied", "error"}
    BY <1>4, <2>1 DEF SignTypeOK
  <2>4. c # a => result'[c] = result[c]
    BY <1>4, <2>1 DEF SignTypeOK
  <2>5. ResultOK(c)'
    BY <1>2, <1>5, <2>1, <2>3, <2>4, AttemptsAssumption DEF ResultOK
  <2> QED
    BY <2>2, <2>5
<1>8. \A c \in Attempts : KeepsCancel(c)
  BY <1>2 DEF SignInv, KeepsCancel, MadeOK
<1> QED
  BY <1>6, <1>7, <1>8 DEF SignInv

LEMMA SignNextInv ==
  ASSUME SignInv, [SignNext]_signVars
  PROVE  SignInv' /\ [\A a \in Attempts : KeepsCancel(a)]_signVars
<1>1. CASE UNCHANGED signVars
  BY <1>1 DEF signVars, SignInv, SignTypeOK, ResultOK, PortOK, MadeOK
<1>2. ASSUME NEW a \in Attempts, BeginSignIn(a) \/ Steps(a)
      PROVE  SignInv' /\ \A b \in Attempts : KeepsCancel(b)
  BY <1>2, StepsInv
<1>3. ASSUME NEW a \in Attempts, NEW what \in {"code", "denied", "error"}, Redirect(a, what)
      PROVE  SignInv' /\ \A b \in Attempts : KeepsCancel(b)
  BY <1>3, RedirectInv
<1>4. CASE Shutdown \/ RemoveProvider \/ \E a \in Attempts : CancelSignIn(a)
  <2>1. UNCHANGED <<by, step, current, before, port, result, spent, traded, end>>
    BY <1>4 DEF Shutdown, RemoveProvider, CancelSignIn
  <2> QED
    BY <2>1 DEF SignInv, SignTypeOK, ResultOK, PortOK, MadeOK, KeepsCancel
<1> QED
  BY <1>1, <1>2, <1>3, <1>4 DEF SignNext

\* A sign-in ends with the redirect of its own page and no other, its code is
\* sent once, and an attempt that waited for the last finds its port free.
THEOREM AnswersOwn == SignSpec => []AnswersItsOwn
<1>1. SignInv => AnswersItsOwn
  BY DEF SignInv, SignTypeOK, ResultOK, PortOK, AnswersItsOwn, Leaving, SignSteps
<1> QED
  BY <1>1, SignInitInv, SignNextInv, PTL DEF SignSpec

\* A sign-in cancelled before its last look saves nothing, and a key that
\* exists is not given up.
THEOREM CancelKept == SignSpec => CancelIsKept
BY SignInitInv, SignNextInv, PTL DEF SignSpec, CancelIsKept

\* However attempts replace, cancel and outwait each other, one ends with what
\* its own page brought, or with nothing (SignInWithBrowser, oauth.Login).
THEOREM SignInsOwn == SignSpec => SignInsAreOwn
BY AnswersOwn, CancelKept, PTL DEF SignInsAreOwn

-----------------------------------------------------------------------------
(* A conversation.                                                         *)

ActsOnRow == {"delete", "rewind", "retry"}

RowsOK ==
  /\ rows \in Seq(ToSet(rows)) /\ made \in Nat
  /\ \A i \in DOMAIN rows :
       /\ rows[i].id \in Int
       /\ ~rows[i].imported => rows[i].id \in 1..made
       /\ rows[i].id <= made
       /\ rows[i].m.files \subseteq Files
  /\ \A i, j \in DOMAIN rows : rows[i].id = rows[j].id => i = j

FilesOK ==
  /\ file \in [Files -> Int]
  /\ sends \in [Callers -> SUBSET Files]
  /\ FilesAreThere

RunOK ==
  /\ run \in [at : {"off", "loop", "stream", "calls", "results", "finish"},
              turns : Nat, tries : Nat,
              out : {"none", "ended", "paused"}]
  /\ run.at = "finish" => run.out # "none"
  /\ run # NoRun => op = NoOp /\ status # "paused" /\ rows # <<>>

\* A prompt after the one op is about.
PromptBehind == \E i, j \in DOMAIN rows : rows[i].id = op.row /\ i < j /\ IsPrompt(j)

\* Before it adds or deletes, a call has closed the paused run, unless it
\* deletes an earlier exchange.
OpOK ==
  /\ op \in [what : {"none", "send"} \cup ActsOnRow,
             at : {"none", "abandon", "append", "delete", "create"},
             row : Int, files : SUBSET Files]
  /\ op.what = "none" => op = NoOp
  /\ op.at = "none" => op = NoOp
  /\ op.what \in ActsOnRow => \E i \in DOMAIN rows : rows[i].id = op.row
  /\ op.at \in {"append", "create"} => status # "paused"
  /\ op.at = "append" => op.what = "send"
  /\ op.at = "delete" =>
       op.what \in ActsOnRow /\ (status # "paused" \/ (op.what = "delete" /\ PromptBehind))
  /\ op.at = "create" => rows # <<>>

ConvInv == RowsOK /\ FilesOK /\ RunOK /\ OpOK /\ PausedAnswerIsThere

-----------------------------------------------------------------------------
LEMMA SeqIsOfItsSet ==
  ASSUME NEW S, NEW s \in Seq(S)
  PROVE  s \in Seq(ToSet(s))
<1>1. s \in [1..Len(s) -> S] /\ Len(s) \in Nat
  OBVIOUS
<1>2. s \in [1..Len(s) -> ToSet(s)]
  BY <1>1 DEF ToSet
<1> QED
  BY <1>1, <1>2

LEMMA AppendIs ==
  ASSUME NEW s, s \in Seq(ToSet(s)), NEW e
  PROVE  /\ Append(s, e) \in Seq(ToSet(Append(s, e)))
         /\ DOMAIN s = 1..Len(s) /\ Len(s) \in Nat
         /\ DOMAIN Append(s, e) = 1..(Len(s) + 1)
         /\ Len(Append(s, e)) = Len(s) + 1
         /\ \A i \in DOMAIN s : Append(s, e)[i] = s[i]
         /\ Append(s, e)[Len(s) + 1] = e
<1> DEFINE T == ToSet(s) \cup {e}
<1>1. s \in Seq(T)
  BY SeqMonotonic
<1> HIDE DEF T
<1>2. e \in T
  BY DEF T
<1>3. /\ Append(s, e) \in Seq(T)
      /\ Len(s) \in Nat /\ DOMAIN s = 1..Len(s)
      /\ Len(Append(s, e)) = Len(s) + 1
      /\ \A i \in 1..Len(s) : Append(s, e)[i] = s[i]
      /\ Append(s, e)[Len(s) + 1] = e
  BY <1>1, <1>2, AppendProperties, LenProperties
<1>4. Append(s, e) \in Seq(ToSet(Append(s, e)))
  BY <1>3, SeqIsOfItsSet
<1> QED
  BY <1>3, <1>4, LenProperties

LEMMA PartIs ==
  ASSUME NEW S, NEW s \in Seq(S), NEW m \in 1..(Len(s) + 1), NEW n \in (m - 1)..Len(s)
  PROVE  /\ SubSeq(s, m, n) \in Seq(S)
         /\ Len(SubSeq(s, m, n)) = n - m + 1
         /\ \A i \in 1..(n - m + 1) : SubSeq(s, m, n)[i] = s[m + i - 1]
<1>1. m \in Int /\ n \in Int /\ Len(s) \in Nat
  BY LenProperties
<1>2. \A i \in m..n : s[i] \in S
  BY <1>1, ElementOfSeq
<1>3. /\ SubSeq(s, m, n) \in Seq(S)
      /\ Len(SubSeq(s, m, n)) = IF m <= n THEN n - m + 1 ELSE 0
      /\ \A i \in 1..(n - m + 1) : SubSeq(s, m, n)[i] = s[m + i - 1]
  BY <1>1, <1>2, SubSeqProperties, SMT
<1> QED
  BY <1>1, <1>3

\* A sequence without its elements a to b.
Without(s, a, b) == SubSeq(s, 1, a - 1) \o SubSeq(s, b + 1, Len(s))

LEMMA CutIs ==
  ASSUME NEW S, NEW s \in Seq(S), NEW a \in 1..(Len(s) + 1), NEW b \in (a - 1)..Len(s)
  PROVE  /\ Without(s, a, b) \in Seq(ToSet(Without(s, a, b)))
         /\ DOMAIN Without(s, a, b) = 1..Len(Without(s, a, b))
         /\ Len(Without(s, a, b)) = Len(s) - (b + 1 - a)
         /\ \A i \in DOMAIN Without(s, a, b) :
              Without(s, a, b)[i] = IF i < a THEN s[i] ELSE s[i + (b + 1 - a)]
<1> DEFINE t == Without(s, a, b)
<1> DEFINE p == SubSeq(s, 1, a - 1)
           q == SubSeq(s, b + 1, Len(s))
<1>1. /\ Len(s) \in Nat /\ DOMAIN s = 1..Len(s) /\ a \in Int /\ b \in Int
      /\ \A i \in 1..Len(s) : s[i] \in S
  BY LenProperties, ElementOfSeq
<1>2. /\ p \in Seq(S) /\ Len(p) = a - 1 /\ \A i \in 1..(a - 1) : p[i] = s[i]
  <2>1. 1 \in 1..(Len(s) + 1) /\ a - 1 \in (1 - 1)..Len(s)
    BY <1>1
  <2>2. /\ p \in Seq(S) /\ Len(p) = (a - 1) - 1 + 1
        /\ \A i \in 1..((a - 1) - 1 + 1) : p[i] = s[1 + i - 1]
    BY <2>1, PartIs
  <2> HIDE DEF p
  <2> QED
    BY <1>1, <2>2
<1>3. /\ q \in Seq(S) /\ Len(q) = Len(s) - b
      /\ \A i \in 1..(Len(s) - b) : q[i] = s[b + i]
  <2>1. b + 1 \in 1..(Len(s) + 1) /\ Len(s) \in ((b + 1) - 1)..Len(s)
    BY <1>1
  <2>2. /\ q \in Seq(S) /\ Len(q) = Len(s) - (b + 1) + 1
        /\ \A i \in 1..(Len(s) - (b + 1) + 1) : q[i] = s[(b + 1) + i - 1]
    BY <2>1, PartIs
  <2> HIDE DEF q
  <2> QED
    BY <1>1, <2>2
<1>4. /\ t \in Seq(S) /\ Len(t) = Len(p) + Len(q)
      /\ \A i \in 1..(Len(p) + Len(q)) :
           t[i] = IF i <= Len(p) THEN p[i] ELSE q[i - Len(p)]
  <2>1. t = p \o q
    BY DEF Without
  <2> HIDE DEF t, p, q
  <2>2. p \in Seq(S) /\ q \in Seq(S)
    BY <1>2, <1>3
  <2>3. /\ p \o q \in Seq(S) /\ Len(p \o q) = Len(p) + Len(q)
        /\ \A i \in 1..(Len(p) + Len(q)) :
             (p \o q)[i] = IF i <= Len(p) THEN p[i] ELSE q[i - Len(p)]
    BY <2>2, ConcatProperties, Zenon
  <2> QED
    BY <2>1, <2>3, Zenon
<1>5. DOMAIN t = 1..Len(t) /\ Len(t) = Len(s) - (b + 1 - a)
  <2> HIDE DEF t, p, q
  <2>1. DOMAIN t = 1..Len(t)
    BY <1>4, LenProperties
  <2>2. Len(t) = Len(p) + Len(q) /\ Len(p) = a - 1 /\ Len(q) = Len(s) - b
    BY <1>2, <1>3, <1>4
  <2>3. Len(t) = a - 1 + (Len(s) - b)
    BY <2>2
  <2>4. a - 1 + (Len(s) - b) = Len(s) - (b + 1 - a)
    BY <1>1
  <2> QED
    BY <2>1, <2>3, <2>4
<1>6. ASSUME NEW i \in DOMAIN t
      PROVE  t[i] = IF i < a THEN s[i] ELSE s[i + (b + 1 - a)]
  <2> HIDE DEF t, p, q
  <2>1. i \in 1..(Len(p) + Len(q)) /\ Len(p) = a - 1 /\ Len(q) = Len(s) - b
    BY <1>2, <1>3, <1>4, <1>5, <1>6
  <2>2. CASE i < a
    <3>1. i <= Len(p) /\ i \in 1..(a - 1)
      BY <1>1, <2>1, <2>2
    <3> QED
      BY <1>2, <1>4, <2>1, <2>2, <3>1
  <2>3. CASE ~(i < a)
    <3>1. ~(i <= Len(p)) /\ i - Len(p) \in 1..(Len(s) - b)
      BY <1>1, <2>1, <2>3
    <3>2. t[i] = q[i - Len(p)] /\ q[i - Len(p)] = s[b + (i - Len(p))]
      BY <1>3, <1>4, <2>1, <3>1
    <3>3. b + (i - Len(p)) = i + (b + 1 - a)
      BY <1>1, <2>1
    <3> QED
      BY <2>3, <3>2, <3>3
  <2> QED
    BY <2>2, <2>3
<1>7. t \in Seq(ToSet(t))
  <2> HIDE DEF t
  <2> QED
    BY <1>4, SeqIsOfItsSet
<1> QED
  BY <1>5, <1>6, <1>7

\* Min, of FiniteSetsExt.
LEMMA MinIsThere ==
  ASSUME NEW S \in SUBSET Nat, S # {}
  PROVE  Min(S) \in S /\ \A y \in S : Min(S) <= y
<1>1. PICK x \in S : \A y \in S : x <= y
  BY LeastIsThere
<1> QED
  BY <1>1 DEF Min

\* An exchange ends before the next prompt.
LEMMA EndIs ==
  ASSUME RowsOK, NEW i \in DOMAIN rows
  PROVE  /\ EndOf(i) \in i..Len(rows)
         /\ EndOf(i) = Len(rows) <=> ~ \E j \in DOMAIN rows : i < j /\ IsPrompt(j)
<1> DEFINE S == {j \in (i + 1)..Len(rows) : IsPrompt(j)} \cup {Len(rows) + 1}
<1>1. DOMAIN rows = 1..Len(rows) /\ Len(rows) \in Nat
  BY LenProperties DEF RowsOK
<1>2. S \in SUBSET Nat /\ Len(rows) + 1 \in S /\ S \subseteq (i + 1)..(Len(rows) + 1)
  BY <1>1
<1>3. Min(S) \in S /\ \A y \in S : Min(S) <= y
  <2> HIDE DEF S
  <2> QED
    BY <1>2, MinIsThere
<1>4. EndOf(i) = Min(S) - 1
  BY DEF EndOf
<1>5. Min(S) = Len(rows) + 1 <=> ~ \E j \in (i + 1)..Len(rows) : IsPrompt(j)
  BY <1>1, <1>3
<1>6. Min(S) \in (i + 1)..(Len(rows) + 1)
  BY <1>2, <1>3
<1> HIDE DEF S
<1> QED
  BY <1>1, <1>4, <1>5, <1>6

LEMMA IndexIs ==
  ASSUME RowsOK, NEW i \in DOMAIN rows
  PROVE  IndexOf(rows[i].id) = i
BY DEF IndexOf, RowsOK

LEMMA InitConv == Init => ConvInv
<1> SUFFICES ASSUME Init PROVE ConvInv
  OBVIOUS
<1>1. \/ rows = <<>> /\ made = 0
      \/ rows = Imported /\ made = 1
  BY DEF Init
<1>2. RowsOK
  <2>1. CASE rows = <<>> /\ made = 0
    BY <2>1 DEF RowsOK, ToSet
  <2>2. CASE rows = Imported /\ made = 1
    <3> DEFINE x == Imported[1]
               y == Imported[2]
    <3>1. x.id = -1 /\ y.id = -2 /\ x.imported /\ y.imported
      BY DEF Imported, Row
    <3>2. x.m.files = {} /\ y.m.files = {}
      BY DEF Imported, Row, NoMessage
    <3>3. rows = <<x, y>>
      BY <2>2 DEF Imported
    <3> HIDE DEF x, y
    <3>4. rows \in Seq({x, y}) /\ DOMAIN rows = {1, 2} /\ rows[1] = x /\ rows[2] = y
      BY <3>3
    <3>5. rows \in Seq(ToSet(rows))
      BY <3>4, SeqIsOfItsSet
    <3> QED
      BY <2>2, <3>1, <3>2, <3>4, <3>5 DEF RowsOK
  <2> QED
    BY <1>1, <2>1, <2>2
<1>3. FilesOK
  <2>1. \A i \in DOMAIN rows : rows[i].imported
    BY <1>1 DEF Imported, Row
  <2> QED
    BY <2>1 DEF Init, FilesOK, FilesAreThere, New, NoFiles
<1>4. RunOK /\ OpOK /\ PausedAnswerIsThere
  BY DEF Init, RunOK, OpOK, NoOp, NoRun, PausedAnswerIsThere, ActsOnRow
<1> QED
  BY <1>2, <1>3, <1>4 DEF ConvInv

\* A message is stored.
LEMMA StoredRows ==
  ASSUME RowsOK, FilesOK, NEW m, m.files \subseteq Files, Stored(m),
         \A f \in m.files : file[f] = Staged,
         file' = [f \in Files |-> IF f \in m.files THEN made + 1 ELSE file[f]],
         sends' = sends
  PROVE  RowsOK' /\ FilesOK' /\ rows' # <<>>
<1>1. /\ rows' = Append(rows, Row(made + 1, FALSE, m)) /\ made' = made + 1
      /\ rows \in Seq(ToSet(rows)) /\ made \in Nat
  BY DEF Stored, RowsOK
<1>0. made \in Nat /\ made' = made + 1
  BY <1>1
<1>2. /\ rows' \in Seq(ToSet(rows'))
      /\ DOMAIN rows = 1..Len(rows) /\ Len(rows) \in Nat
      /\ DOMAIN rows' = 1..(Len(rows) + 1) /\ Len(rows') = Len(rows) + 1
      /\ \A i \in DOMAIN rows : rows'[i] = rows[i]
      /\ rows'[Len(rows) + 1] = Row(made + 1, FALSE, m)
  <2> DEFINE e == Row(made + 1, FALSE, m)
  <2> HIDE DEF e
  <2>1. /\ Append(rows, e) \in Seq(ToSet(Append(rows, e)))
        /\ DOMAIN rows = 1..Len(rows) /\ Len(rows) \in Nat
        /\ DOMAIN Append(rows, e) = 1..(Len(rows) + 1)
        /\ Len(Append(rows, e)) = Len(rows) + 1
        /\ \A i \in DOMAIN rows : Append(rows, e)[i] = rows[i]
        /\ Append(rows, e)[Len(rows) + 1] = e
    BY <1>1, AppendIs, Zenon
  <2>2. rows' = Append(rows, e)
    BY <1>1 DEF e
  <2> QED
    BY <2>1, <2>2, Zenon DEF e
<1>3. /\ rows'[Len(rows) + 1].id = made + 1 /\ ~rows'[Len(rows) + 1].imported
      /\ rows'[Len(rows) + 1].m = m
  BY <1>2 DEF Row
<1>4. \A i \in DOMAIN rows' : i \in DOMAIN rows \/ i = Len(rows) + 1
  BY <1>2
<1>5. \A i \in DOMAIN rows : rows'[i] = rows[i] /\ rows[i].id <= made /\ rows[i].id \in Int
                             /\ rows[i].m.files \subseteq Files
                             /\ (~rows[i].imported => rows[i].id \in 1..made)
  BY <1>2 DEF RowsOK
<1>6. RowsOK'
  <2>1. \A i, j \in DOMAIN rows' : rows'[i].id = rows'[j].id => i = j
    <3> SUFFICES ASSUME NEW i \in DOMAIN rows', NEW j \in DOMAIN rows', rows'[i].id = rows'[j].id
                 PROVE  i = j
      OBVIOUS
    <3>1. CASE i \in DOMAIN rows /\ j \in DOMAIN rows
      <4>1. rows[i].id = rows[j].id
        BY <1>5, <3>1
      <4> QED
        BY <3>1, <4>1 DEF RowsOK
    <3>2. CASE i \notin DOMAIN rows /\ j \in DOMAIN rows
      <4>1. rows'[i].id = made + 1
        BY <1>3, <1>4, <3>2
      <4>2. rows'[j].id <= made /\ rows'[j].id \in Int
        BY <1>5, <3>2
      <4> QED
        BY <1>0, <4>1, <4>2
    <3>3. CASE i \in DOMAIN rows /\ j \notin DOMAIN rows
      <4>1. rows'[j].id = made + 1
        BY <1>3, <1>4, <3>3
      <4>2. rows'[i].id <= made /\ rows'[i].id \in Int
        BY <1>5, <3>3
      <4> QED
        BY <1>0, <4>1, <4>2
    <3>4. CASE i \notin DOMAIN rows /\ j \notin DOMAIN rows
      BY <1>4, <3>4
    <3> QED
      BY <3>1, <3>2, <3>3, <3>4
  <2>2. \A i \in DOMAIN rows' :
          /\ rows'[i].id \in Int
          /\ ~rows'[i].imported => rows'[i].id \in 1..made'
          /\ rows'[i].id <= made'
          /\ rows'[i].m.files \subseteq Files
    <3> SUFFICES ASSUME NEW i \in DOMAIN rows'
                 PROVE  /\ rows'[i].id \in Int
                        /\ ~rows'[i].imported => rows'[i].id \in 1..made'
                        /\ rows'[i].id <= made'
                        /\ rows'[i].m.files \subseteq Files
      OBVIOUS
    <3>1. CASE i \in DOMAIN rows
      <4>1. rows'[i] = rows[i]
        BY <1>2, <3>1
      <4>2. /\ rows[i].id <= made /\ rows[i].id \in Int
            /\ rows[i].m.files \subseteq Files
            /\ (~rows[i].imported => rows[i].id \in 1..made)
        BY <1>5, <3>1
      <4> QED
        BY <1>0, <4>1, <4>2
    <3>2. CASE i = Len(rows) + 1
      BY <1>0, <1>3, <3>2
    <3>3. i \in DOMAIN rows \/ i = Len(rows) + 1
      BY <1>4
    <3> QED
      BY <3>1, <3>2, <3>3
  <2>3. rows' \in Seq(ToSet(rows')) /\ made' \in Nat
    BY <1>0, <1>2
  <2> QED
    BY <2>1, <2>2, <2>3 DEF RowsOK
<1>7. FilesOK'
  <2>1. file' \in [Files -> Int]
    BY <1>1 DEF FilesOK
  <2>2. ASSUME NEW i \in DOMAIN rows', ~rows'[i].imported, NEW f \in rows'[i].m.files
        PROVE  file'[f] = rows'[i].id
    <3>1. CASE i \in DOMAIN rows
      <4>1. file[f] = rows[i].id /\ f \in Files /\ rows[i].id \in 1..made
        BY <1>5, <2>2, <3>1 DEF FilesOK, FilesAreThere
      <4>2. f \notin m.files
        BY <4>1 DEF Staged
      <4> QED
        BY <1>5, <3>1, <4>1, <4>2
    <3>2. CASE i = Len(rows) + 1
      <4>1. f \in m.files /\ f \in Files /\ rows'[i].id = made + 1
        BY <1>3, <2>2, <3>2
      <4> QED
        BY <4>1
    <3> QED
      BY <1>4, <3>1, <3>2
  <2> QED
    BY <2>1, <2>2 DEF FilesOK, FilesAreThere
<1>8. rows' # <<>>
  BY <1>2
<1> QED
  BY <1>6, <1>7, <1>8

\* A message of the run, without files.
LEMMA StoredPlain ==
  ASSUME RowsOK, FilesOK, NEW m, m.files = {}, Stored(m), UNCHANGED <<file, sends>>
  PROVE  RowsOK' /\ FilesOK' /\ rows' # <<>>
<1>1. file' = [f \in Files |-> IF f \in m.files THEN made + 1 ELSE file[f]]
  BY DEF FilesOK
<1> QED
  BY <1>1, StoredRows

\* Messages are deleted.
LEMMA DeletedRows ==
  ASSUME RowsOK, FilesOK, NEW a \in 1..(Len(rows) + 1), NEW b \in (a - 1)..Len(rows),
         NEW r, r = 0 \/ \E k \in a..b : r = rows[k].id,
         DeleteMessages(a, b, r), UNCHANGED <<made, sends>>
  PROVE  /\ RowsOK' /\ FilesOK'
         /\ DOMAIN rows' = 1..Len(rows') /\ Len(rows') = Len(rows) - (b + 1 - a)
         /\ \A i \in DOMAIN rows' :
              rows'[i] = IF i < a THEN rows[i] ELSE rows[i + (b + 1 - a)]
<1>1. /\ rows \in Seq(ToSet(rows)) /\ DOMAIN rows = 1..Len(rows) /\ Len(rows) \in Nat
      /\ a \in Int /\ b \in Int /\ made \in Nat
  BY LenProperties DEF RowsOK
<1> DEFINE at(i) == IF i < a THEN i ELSE i + (b + 1 - a)
<1>2. /\ rows' \in Seq(ToSet(rows')) /\ DOMAIN rows' = 1..Len(rows')
      /\ Len(rows') = Len(rows) - (b + 1 - a)
      /\ \A i \in DOMAIN rows' : rows'[i] = IF i < a THEN rows[i] ELSE rows[i + (b + 1 - a)]
  <2>1. rows' = Without(rows, a, b)
    BY DEF DeleteMessages, Without
  <2>2. rows \in Seq(ToSet(rows))
    BY <1>1
  <2> QED
    BY <2>1, <2>2, CutIs, Zenon
<1>3. \A i \in DOMAIN rows' : at(i) \in DOMAIN rows /\ at(i) \notin a..b /\ rows'[i] = rows[at(i)]
  BY <1>1, <1>2
<1>4. \A i, j \in DOMAIN rows' : at(i) = at(j) => i = j
  BY <1>1, <1>2
<1> HIDE DEF at
<1>5. RowsOK'
  <2>1. \A i \in DOMAIN rows' :
          /\ rows'[i].id \in Int
          /\ ~rows'[i].imported => rows'[i].id \in 1..made
          /\ rows'[i].id <= made
          /\ rows'[i].m.files \subseteq Files
    BY <1>3 DEF RowsOK
  <2>2. \A i, j \in DOMAIN rows' : rows'[i].id = rows'[j].id => i = j
    BY <1>3, <1>4 DEF RowsOK
  <2> QED
    BY <1>1, <1>2, <2>1, <2>2 DEF RowsOK
<1> DEFINE ids == {rows[i].id : i \in a..b}
<1>6. file' = [f \in Files |-> CASE file[f] < 1 \/ file[f] \notin ids -> file[f]
                                 [] file[f] = r -> Staged
                                 [] OTHER -> Gone]
  BY DEF DeleteMessages
<1>7. FilesOK'
  <2>1. file' \in [Files -> Int]
    BY <1>6 DEF FilesOK, Staged, Gone
  <2>2. ASSUME NEW i \in DOMAIN rows', ~rows'[i].imported, NEW f \in rows'[i].m.files
        PROVE  file'[f] = rows'[i].id
    <3>1. /\ at(i) \in DOMAIN rows /\ at(i) \notin a..b /\ rows'[i] = rows[at(i)]
      BY <1>3
    <3>2. file[f] = rows[at(i)].id /\ f \in Files /\ file[f] \in 1..made
      <4>1. ~rows[at(i)].imported /\ f \in rows[at(i)].m.files
        BY <2>2, <3>1
      <4>2. rows[at(i)].m.files \subseteq Files /\ rows[at(i)].id \in 1..made
        BY <3>1, <4>1 DEF RowsOK
      <4> QED
        BY <3>1, <4>1, <4>2 DEF FilesOK, FilesAreThere
    <3>3. ASSUME NEW k \in a..b PROVE k \in DOMAIN rows /\ rows[k].id # rows[at(i)].id
      <4>1. k \in DOMAIN rows
        BY <1>1
      <4>2. at(i) \in DOMAIN rows /\ at(i) # k
        BY <3>1
      <4>3. rows[at(i)].id = rows[k].id => at(i) = k
        BY <4>1, <4>2 DEF RowsOK
      <4> QED
        BY <4>1, <4>2, <4>3
    <3>4. file[f] \notin ids /\ file[f] # r
      BY <1>1, <3>2, <3>3
    <3>5. file'[f] = file[f]
      <4> HIDE DEF ids
      <4> QED
        BY <1>6, <3>2, <3>4
    <3> QED
      BY <3>1, <3>2, <3>5
  <2> QED
    BY <2>1, <2>2 DEF FilesOK, FilesAreThere
<1> QED
  BY <1>2, <1>5, <1>7

\* What is said of the messages, the files and op stays while none changes.
LEMMA RowsStay ==
  ASSUME ConvInv, UNCHANGED <<rows, made>>,
         file' \in [Files -> Int],
         \A f \in Files : file[f] >= 1 => file'[f] = file[f],
         sends' \in [Callers -> SUBSET Files]
  PROVE  /\ RowsOK' /\ FilesOK'
         /\ PromptBehind /\ op'.row = op.row => PromptBehind'
<1>1. RowsOK'
  BY DEF ConvInv, RowsOK
<1>2. ASSUME NEW i \in DOMAIN rows, ~rows[i].imported, NEW f \in rows[i].m.files
      PROVE  file'[f] = rows[i].id
  <2>1. file[f] = rows[i].id /\ f \in Files /\ rows[i].id \in 1..made /\ made \in Nat
    BY <1>2 DEF ConvInv, FilesOK, FilesAreThere, RowsOK
  <2> QED
    BY <2>1
<1>3. FilesOK'
  BY <1>2 DEF FilesOK, FilesAreThere
<1>4. PromptBehind /\ op'.row = op.row => PromptBehind'
  BY DEF PromptBehind, IsPrompt
<1> QED
  BY <1>1, <1>3, <1>4

LEMMA FilesStay ==
  ASSUME ConvInv, UNCHANGED <<rows, made, file, sends>>
  PROVE  /\ RowsOK' /\ FilesOK'
         /\ PromptBehind /\ op'.row = op.row => PromptBehind'
<1>1. /\ file' \in [Files -> Int]
      /\ \A f \in Files : file[f] >= 1 => file'[f] = file[f]
      /\ sends' \in [Callers -> SUBSET Files]
  BY DEF ConvInv, FilesOK
<1> QED
  BY <1>1, RowsStay

LEMMA ComposerInv ==
  ASSUME ConvInv,
         \/ \E f \in Files : AddAttachment(f) \/ RemoveAttachment(f)
         \/ \E u \in Callers, fs \in SUBSET Files : Send(u, fs)
  PROVE  ConvInv'
<1>1. UNCHANGED <<rows, made, status, op, run, upTo>>
  BY DEF AddAttachment, RemoveAttachment, Send, runVars, stored
<1>2. /\ file' \in [Files -> Int]
      /\ \A f \in Files : file[f] >= 1 => file'[f] = file[f]
  BY DEF AddAttachment, RemoveAttachment, Send, stored, ConvInv, FilesOK, New,
         Staged, Gone
<1>3. sends' \in [Callers -> SUBSET Files]
  BY DEF AddAttachment, RemoveAttachment, Send, ConvInv, FilesOK
<1>4. RowsOK' /\ FilesOK' /\ (PromptBehind => PromptBehind')
  BY <1>1, <1>2, <1>3, RowsStay
<1> QED
  BY <1>1, <1>4 DEF ConvInv, RunOK, OpOK, PausedAnswerIsThere

\* A call takes the runner's lock.
LEMMA BeginsInv ==
  ASSUME ConvInv,
         \/ \E u \in Callers : StartParts(u)
         \/ \E i \in DOMAIN rows : BeginDelete(i) \/ BeginRewind(i)
         \/ BeginRetry
  PROVE  ConvInv'
<1>1. UNCHANGED <<rows, made, file, status, run, upTo>>
  BY DEF StartParts, BeginDelete, BeginRewind, BeginRetry, stored, runVars
<1>2. /\ file' \in [Files -> Int]
      /\ \A f \in Files : file[f] >= 1 => file'[f] = file[f]
  BY <1>1 DEF ConvInv, FilesOK
<1>3. sends' \in [Callers -> SUBSET Files]
  BY DEF StartParts, BeginDelete, BeginRewind, BeginRetry, ConvInv, FilesOK, NoFiles
<1>4. RowsOK' /\ FilesOK' /\ PausedAnswerIsThere'
  BY <1>1, <1>2, <1>3, RowsStay DEF ConvInv, PausedAnswerIsThere
<1>5. /\ op' # op => op = NoOp /\ run = NoRun
      /\ op' = op \/ \/ \E u \in Callers :
                          op' = [what |-> "send", at |-> "abandon", row |-> 0,
                                 files |-> sends[u]]
                     \/ \E i \in DOMAIN rows, what \in ActsOnRow, at \in {"abandon", "delete"} :
                          /\ op' = [what |-> what, at |-> at, row |-> rows[i].id, files |-> {}]
                          /\ at = "delete" => what = "delete" /\ EndOf(i) # Len(rows)
  BY DEF StartParts, BeginDelete, BeginRewind, BeginRetry, Begins, Idle, ActsOnRow
<1>6. RunOK'
  BY <1>1, <1>5 DEF ConvInv, RunOK
<1>7. OpOK'
  <2>1. CASE op' = op
    <3>1. PromptBehind => PromptBehind'
      BY <1>1, <2>1 DEF PromptBehind, IsPrompt
    <3> QED
      BY <1>1, <2>1, <3>1 DEF ConvInv, OpOK
  <2>2. ASSUME NEW u \in Callers,
               op' = [what |-> "send", at |-> "abandon", row |-> 0, files |-> sends[u]]
        PROVE  OpOK'
    BY <1>1, <2>2 DEF ConvInv, FilesOK, OpOK, ActsOnRow
  <2>3. ASSUME NEW i \in DOMAIN rows, NEW what \in ActsOnRow, NEW at \in {"abandon", "delete"},
               op' = [what |-> what, at |-> at, row |-> rows[i].id, files |-> {}],
               at = "delete" => what = "delete" /\ EndOf(i) # Len(rows)
        PROVE  OpOK'
    <3>1. rows[i].id \in Int /\ RowsOK
      BY DEF ConvInv, RowsOK
    <3>2. at = "delete" => \E j \in DOMAIN rows : i < j /\ IsPrompt(j)
      BY <2>3, <3>1, EndIs
    <3>3. at = "delete" => PromptBehind'
      BY <1>1, <2>3, <3>2 DEF PromptBehind, IsPrompt
    <3> QED
      BY <1>1, <2>3, <3>1, <3>3 DEF OpOK, ActsOnRow
  <2> QED
    BY <1>5, <2>1, <2>2, <2>3
<1> QED
  BY <1>4, <1>6, <1>7 DEF ConvInv

\* Steps of a call, and of the settings, that leave the messages.
LEMMA OpStepsInv ==
  ASSUME ConvInv,
         Abandon \/ CreateRun \/ Continue \/ OpFails \/ \E k \in Kinds : SetProvider(k)
  PROVE  ConvInv'
<1>1. UNCHANGED <<rows, made, file, sends>>
  BY DEF Abandon, CreateRun, Continue, OpFails, SetProvider, stored
<1>2. RowsOK' /\ FilesOK' /\ (PromptBehind /\ op'.row = op.row => PromptBehind')
  BY <1>1, FilesStay
<1>3. CASE Abandon
  BY <1>1, <1>2, <1>3
     DEF Abandon, AbandonPausedRuns, Goes, ConvInv, RunOK, OpOK, runVars, ActsOnRow,
         PausedAnswerIsThere, NoOp
<1>4. CASE CreateRun
  BY <1>1, <1>2, <1>4
     DEF CreateRun, Launch, ConvInv, RunOK, OpOK, NoOp, NoRun, ActsOnRow,
         PausedAnswerIsThere
<1>5. CASE Continue
  BY <1>1, <1>2, <1>5
     DEF Continue, Idle, Launch, ConvInv, RunOK, OpOK, NoOp, NoRun, ActsOnRow,
         PausedAnswerIsThere
<1>6. CASE OpFails
  BY <1>1, <1>2, <1>6
     DEF OpFails, ConvInv, RunOK, OpOK, NoOp, ActsOnRow, runVars, PausedAnswerIsThere
<1>7. ASSUME NEW k \in Kinds, SetProvider(k) PROVE ConvInv'
  BY <1>1, <1>2, <1>7
     DEF SetProvider, Idle, ConvInv, RunOK, OpOK, NoOp, runVars, PausedAnswerIsThere
<1> QED
  BY <1>3, <1>4, <1>5, <1>6, <1>7

LEMMA AppendInv ==
  ASSUME ConvInv, AppendPrompt
  PROVE  ConvInv'
<1> DEFINE m == [NoMessage EXCEPT !.said = op.files = {}, !.files = op.files]
<1>1. /\ m.files = op.files /\ op.files \subseteq Files
  BY DEF NoMessage, ConvInv, OpOK
<1>2. /\ AppendUserMessage(m, op.files) /\ op.what = "send" /\ op.at = "append"
      /\ op' = [op EXCEPT !.at = "create"]
      /\ UNCHANGED <<status, sends, run, upTo>>
  BY DEF AppendPrompt, At, Goes, runVars
<1> HIDE DEF m
<1>3. /\ \A f \in m.files : file[f] = Staged
      /\ file' = [f \in Files |-> IF f \in m.files THEN made + 1 ELSE file[f]]
      /\ Stored(m)
  BY <1>1, <1>2 DEF AppendUserMessage, StagedFiles
<1>4. RowsOK' /\ FilesOK' /\ rows' # <<>>
  BY <1>1, <1>2, <1>3, StoredRows DEF ConvInv
<1>5. op # NoOp /\ status # "paused" /\ run = NoRun
  BY <1>2 DEF ConvInv, OpOK, RunOK, NoOp
<1>6. RunOK' /\ OpOK' /\ PausedAnswerIsThere'
  BY <1>2, <1>4, <1>5 DEF ConvInv, RunOK, OpOK, ActsOnRow, NoOp, PausedAnswerIsThere
<1> QED
  BY <1>4, <1>6 DEF ConvInv

LEMMA DeleteInv ==
  ASSUME ConvInv, DeleteRows
  PROVE  ConvInv'
<1>1. /\ op.at = "delete" /\ op.what \in ActsOnRow /\ op # NoOp /\ run = NoRun
      /\ status # "paused" \/ (op.what = "delete" /\ PromptBehind)
      /\ UNCHANGED <<made, status, sends, run, upTo>>
  BY DEF DeleteRows, ConvInv, OpOK, RunOK, NoOp, runVars
<1>2. PICK i \in DOMAIN rows : rows[i].id = op.row
  BY <1>1 DEF ConvInv, OpOK
<1>3. /\ IndexOf(op.row) = i /\ EndOf(i) \in i..Len(rows)
      /\ RowsOK /\ FilesOK
  BY <1>2, IndexIs, EndIs DEF ConvInv
<1>4. rows \in Seq(ToSet(rows)) /\ DOMAIN rows = 1..Len(rows) /\ Len(rows) \in Nat
  BY <1>3, LenProperties DEF RowsOK
<1>5. CASE op.what = "delete"
  <2>1. DeleteMessages(i, EndOf(i), 0) /\ op' = NoOp
    BY <1>3, <1>5 DEF DeleteRows
  <2>2. i \in 1..(Len(rows) + 1) /\ EndOf(i) \in (i - 1)..Len(rows)
    BY <1>3, <1>4
  <2> DEFINE b == EndOf(i)
  <2> HIDE DEF b
  <2>3. /\ RowsOK' /\ FilesOK'
        /\ DOMAIN rows' = 1..Len(rows') /\ Len(rows') = Len(rows) - (b + 1 - i)
        /\ \A j \in DOMAIN rows' :
             rows'[j] = IF j < i THEN rows[j] ELSE rows[j + (b + 1 - i)]
    BY <1>1, <1>3, <2>1, <2>2, DeletedRows DEF b
  <2>4. ASSUME status = "paused" PROVE rows' # <<>> /\ rows'[Len(rows')].id = upTo
    <3>1. \E j \in DOMAIN rows : i < j /\ IsPrompt(j)
      <4>1. PICK k, j \in DOMAIN rows : rows[k].id = op.row /\ k < j /\ IsPrompt(j)
        BY <1>1, <2>4 DEF PromptBehind
      <4>2. k = i
        BY <1>2, <1>3, <4>1 DEF RowsOK
      <4> QED
        BY <4>1, <4>2
    <3>2. b # Len(rows)
      BY <1>3, <3>1, EndIs DEF b
    <3>3. b \in i..(Len(rows) - 1)
      BY <1>3, <1>4, <3>2 DEF b
    <3>4. /\ Len(rows') \in DOMAIN rows' /\ ~(Len(rows') < i)
          /\ Len(rows') + (b + 1 - i) = Len(rows)
      BY <1>4, <2>3, <3>3
    <3>5. rows'[Len(rows')] = rows[Len(rows)]
      BY <2>3, <3>4
    <3>6. rows[Len(rows)].id = upTo
      BY <2>4 DEF ConvInv, PausedAnswerIsThere
    <3>7. rows' # <<>>
      BY <3>4
    <3> QED
      BY <3>5, <3>6, <3>7
  <2>5. RunOK' /\ OpOK' /\ PausedAnswerIsThere'
    BY <1>1, <2>1, <2>4
       DEF ConvInv, RunOK, OpOK, NoOp, ActsOnRow, PausedAnswerIsThere
  <2> QED
    BY <2>3, <2>5 DEF ConvInv
<1>6. CASE op.what = "rewind"
  <2>1. DeleteMessages(i, Len(rows), op.row) /\ op' = NoOp
    BY <1>3, <1>6 DEF DeleteRows
  <2>2. /\ i \in 1..(Len(rows) + 1) /\ Len(rows) \in (i - 1)..Len(rows)
        /\ \E k \in i..Len(rows) : op.row = rows[k].id
    BY <1>2, <1>4
  <2>3. RowsOK' /\ FilesOK'
    BY <1>1, <1>3, <2>1, <2>2, DeletedRows
  <2>4. RunOK' /\ OpOK' /\ PausedAnswerIsThere'
    BY <1>1, <1>6, <2>1
       DEF ConvInv, RunOK, OpOK, NoOp, ActsOnRow, PausedAnswerIsThere
  <2> QED
    BY <2>3, <2>4 DEF ConvInv
<1>7. CASE op.what = "retry"
  <2>1. DeleteMessages(i + 1, Len(rows), 0) /\ op' = [op EXCEPT !.at = "create"]
    BY <1>3, <1>7 DEF DeleteRows, Goes
  <2>2. i + 1 \in 1..(Len(rows) + 1) /\ Len(rows) \in ((i + 1) - 1)..Len(rows)
    BY <1>4
  <2>3. /\ RowsOK' /\ FilesOK'
        /\ DOMAIN rows' = 1..Len(rows')
        /\ Len(rows') = Len(rows) - (Len(rows) + 1 - (i + 1))
        /\ \A j \in DOMAIN rows' :
             rows'[j] = IF j < i + 1 THEN rows[j]
                        ELSE rows[j + (Len(rows) + 1 - (i + 1))]
    BY <1>1, <1>3, <2>1, <2>2, DeletedRows
  <2>4. i \in DOMAIN rows' /\ rows'[i] = rows[i]
    BY <1>4, <2>3
  <2>5. rows' # <<>> /\ \E j \in DOMAIN rows' : rows'[j].id = op.row
    BY <1>2, <2>4
  <2>6. RunOK' /\ OpOK' /\ PausedAnswerIsThere'
    BY <1>1, <1>7, <2>1, <2>5
       DEF ConvInv, RunOK, OpOK, NoOp, ActsOnRow, PausedAnswerIsThere
  <2> QED
    BY <2>3, <2>6 DEF ConvInv
<1> QED
  BY <1>1, <1>5, <1>6, <1>7 DEF ActsOnRow

-----------------------------------------------------------------------------
\* The run's record.
LEMMA RunGoesOn ==
  ASSUME RunOK,
         NEW at \in {"loop", "stream", "calls", "results"},
         NEW turns \in Nat, NEW tries \in Nat, NEW how \in {"ended", "paused"},
         run' \in {[run EXCEPT !.at = "finish", !.out = how],
                   [run EXCEPT !.at = at],
                   [run EXCEPT !.at = at, !.turns = turns, !.tries = tries]}
  PROVE  /\ run' \in [at : {"off", "loop", "stream", "calls", "results", "finish"},
                      turns : Nat, tries : Nat, out : {"none", "ended", "paused"}]
         /\ run'.at = "finish" => run'.out # "none"
<1> USE DEF RunOK
<1>1. CASE run' = [run EXCEPT !.at = "finish", !.out = how]
  BY <1>1
<1>2. CASE run' = [run EXCEPT !.at = at]
  BY <1>2
<1>3. CASE run' = [run EXCEPT !.at = at, !.turns = turns, !.tries = tries]
  BY <1>3
<1> QED
  BY <1>1, <1>2, <1>3

\* Steps of the run that store no message.
LEMMA RunStepsInv ==
  ASSUME ConvInv,
         \/ NextTurn \/ CallsRun \/ RunFails \/ Cancel \/ Finish \/ Crash
  PROVE  ConvInv'
<1>1. UNCHANGED <<rows, made, file>> /\ sends' \in [Callers -> SUBSET Files]
  BY DEF NextTurn, CallsRun, RunFails, Cancel, Finish, Crash, stored, ConvInv,
         FilesOK, NoFiles
<1>2. RowsOK' /\ FilesOK' /\ (PromptBehind /\ op'.row = op.row => PromptBehind')
  <2>1. file' \in [Files -> Int] /\ \A f \in Files : file[f] >= 1 => file'[f] = file[f]
    BY <1>1 DEF ConvInv, FilesOK
  <2> QED
    BY <1>1, <2>1, RowsStay
<1>3. CASE NextTurn \/ CallsRun \/ RunFails
  <2>1. run # NoRun /\ op = NoOp /\ status # "paused" /\ rows # <<>>
    BY <1>3 DEF NextTurn, CallsRun, RunFails, NoRun, ConvInv, RunOK
  <2>2. UNCHANGED <<op, status, upTo>>
    BY <1>3 DEF NextTurn, CallsRun, RunFails
  <2>3. /\ run' \in [at : {"off", "loop", "stream", "calls", "results", "finish"},
                     turns : Nat, tries : Nat, out : {"none", "ended", "paused"}]
        /\ run'.at = "finish" => run'.out # "none"
    <3>1. run.turns + 1 \in Nat /\ 0 \in Nat /\ RunOK
      BY DEF ConvInv, RunOK
    <3>2. \E at \in {"loop", "stream", "calls", "results"}, how \in {"ended", "paused"} :
            run' \in {[run EXCEPT !.at = "finish", !.out = how],
                      [run EXCEPT !.at = at],
                      [run EXCEPT !.at = at, !.turns = run.turns + 1, !.tries = 0]}
      BY <1>3 DEF NextTurn, CallsRun, RunFails, RunEnds, RunGoes
    <3> QED
      BY <3>1, <3>2, RunGoesOn
  <2>4. RunOK'
    BY <1>1, <2>1, <2>2, <2>3 DEF ConvInv, RunOK
  <2> QED
    BY <1>1, <1>2, <2>1, <2>2, <2>4 DEF ConvInv, OpOK, PausedAnswerIsThere, NoOp,
       ActsOnRow
<1>4. CASE Cancel
  BY <1>1, <1>2, <1>4 DEF Cancel, ConvInv, RunOK, OpOK, PausedAnswerIsThere
<1>5. CASE Finish
  <2>1. /\ run # NoRun /\ op = NoOp /\ status # "paused" /\ rows # <<>>
        /\ run' = NoRun /\ op' = op
    BY <1>5 DEF Finish, NoRun, ConvInv, RunOK
  <2>2. PausedAnswerIsThere'
    BY <1>1, <1>5, <2>1 DEF Finish, PausedAnswerIsThere
  <2> QED
    BY <1>2, <2>1, <2>2 DEF ConvInv, OpOK, NoOp, ActsOnRow, RunOK, NoRun
<1>6. CASE Crash
  BY <1>1, <1>2, <1>6
     DEF Crash, ConvInv, RunOK, OpOK, NoOp, NoRun, ActsOnRow, PausedAnswerIsThere
<1> QED
  BY <1>3, <1>4, <1>5, <1>6

\* Steps of the run that may store a message.
LEMMA RunStoresInv ==
  ASSUME ConvInv,
         \/ ResultsAreStored
         \/ run.at = "stream" /\ \E o \in Outcomes[kind] : StreamBreaks(o) \/ TurnStops(o)
  PROVE  ConvInv'
<1>1. /\ run # NoRun /\ op = NoOp /\ status # "paused" /\ rows # <<>>
      /\ UNCHANGED <<op, status, upTo, sends>>
  BY DEF ResultsAreStored, StreamBreaks, TurnStops, NoRun, ConvInv, RunOK
<1>2. \/ UNCHANGED <<rows, made, file>>
      \/ file' = file /\ \E m : m.files = {} /\ Stored(m)
  <2>1. ASSUME ResultsAreStored
        PROVE  \E m : file' = file /\ m.files = {} /\ Stored(m)
    <3> DEFINE m == [NoMessage EXCEPT !.results = [i \in 1..turn.calls |-> i]]
    <3>1. Stored(m) /\ file' = file
      BY <2>1 DEF ResultsAreStored
    <3>2. m.files = {}
      BY DEF NoMessage
    <3> QED
      BY <3>1, <3>2
  <2>2. ASSUME NEW o, StreamBreaks(o)
        PROVE  \/ UNCHANGED <<rows, made, file>>
               \/ file' = file /\ \E m : m.files = {} /\ Stored(m)
    <3> DEFINE m == [NoMessage EXCEPT !.role = "assistant", !.said = TRUE]
    <3>1. UNCHANGED <<rows, made, file>> \/ (Stored(m) /\ file' = file)
      BY <2>2 DEF StreamBreaks, KeepPartial, stored
    <3>2. m.files = {}
      BY DEF NoMessage
    <3> QED
      BY <3>1, <3>2
  <2>3. ASSUME NEW o, TurnStops(o)
        PROVE  \/ UNCHANGED <<rows, made, file>>
               \/ file' = file /\ \E m : m.files = {} /\ Stored(m)
    <3>1. UNCHANGED <<rows, made, file>> \/ (Stored(MessageOf(o)) /\ file' = file)
      BY <2>3 DEF TurnStops, stored
    <3>2. MessageOf(o).files = {}
      BY DEF NoMessage, MessageOf
    <3> QED
      BY <3>1, <3>2
  <2> QED
    BY <2>1, <2>2, <2>3
<1>3. RowsOK' /\ FilesOK' /\ rows' # <<>>
  <2>1. CASE UNCHANGED <<rows, made, file>>
    BY <1>1, <2>1, FilesStay
  <2>2. CASE file' = file /\ \E m : m.files = {} /\ Stored(m)
    BY <1>1, <2>2, StoredPlain DEF ConvInv
  <2> QED
    BY <1>2, <2>1, <2>2
<1>4. RunOK'
  <2>1. RunOK /\ run.turns \in Nat /\ run.tries + 1 \in Nat
    BY DEF ConvInv, RunOK
  <2>2. \E at \in {"loop", "stream", "calls", "results"}, how \in {"ended", "paused"} :
          run' \in {[run EXCEPT !.at = "finish", !.out = how],
                    [run EXCEPT !.at = at],
                    [run EXCEPT !.at = at, !.turns = run.turns, !.tries = run.tries + 1]}
    <3>1. \/ run' \in {[run EXCEPT !.at = "finish", !.out = "ended"],
                       [run EXCEPT !.at = "finish", !.out = "paused"],
                       [run EXCEPT !.at = "loop"], [run EXCEPT !.at = "calls"]}
          \/ run.at = "stream" /\ run' = [run EXCEPT !.tries = @ + 1]
      BY DEF ResultsAreStored, StreamBreaks, TurnStops, RunEnds, RunGoes
    <3>2. ASSUME run.at = "stream", run' = [run EXCEPT !.tries = @ + 1]
          PROVE  run' = [run EXCEPT !.at = "stream", !.turns = run.turns,
                                    !.tries = run.tries + 1]
      BY <2>1, <3>2 DEF RunOK
    <3> QED
      BY <3>1, <3>2
  <2>3. /\ run' \in [at : {"off", "loop", "stream", "calls", "results", "finish"},
                     turns : Nat, tries : Nat, out : {"none", "ended", "paused"}]
        /\ run'.at = "finish" => run'.out # "none"
    BY <2>1, <2>2, RunGoesOn
  <2> QED
    BY <1>1, <1>3, <2>3 DEF RunOK
<1> QED
  BY <1>1, <1>3, <1>4 DEF ConvInv, OpOK, NoOp, ActsOnRow, PausedAnswerIsThere

LEMMA NextConv == ConvInv /\ [Next]_vars => ConvInv'
<1> SUFFICES ASSUME ConvInv, [Next]_vars PROVE ConvInv'
  OBVIOUS
<1>1. CASE UNCHANGED vars
  <2>1. UNCHANGED <<rows, made, file, status, sends, op, run, upTo>>
    BY <1>1 DEF vars, stored, runVars
  <2>2. RowsOK' /\ FilesOK' /\ (PromptBehind => PromptBehind')
    BY <2>1, FilesStay
  <2> QED
    BY <2>1, <2>2 DEF ConvInv, RunOK, OpOK, PausedAnswerIsThere
<1>2. CASE Next
  BY <1>2, ComposerInv, BeginsInv, OpStepsInv, AppendInv, DeleteInv, RunStepsInv,
     RunStoresInv DEF Next
<1> QED
  BY <1>1, <1>2

\* What the view shows of a conversation is there to go on with.
THEOREM ShownThere == Spec => []ShownIsThere
<1>1. Init => ConvInv
  BY InitConv
<1>2. ConvInv /\ [Next]_vars => ConvInv'
  BY NextConv
<1>3. ConvInv => ShownIsThere
  BY DEF ConvInv, FilesOK, ShownIsThere
<1> QED
  BY <1>1, <1>2, <1>3, PTL DEF Spec

-----------------------------------------------------------------------------
(***************************************************************************)
(* What the app sends a model: a history is repaired, its files are left   *)
(* out or sent, and an adapter makes its requests of it (ModelTurns).      *)
(***************************************************************************)
Message(F) ==
  [role : {"user", "assistant", "tool"}, said : BOOLEAN, thinks : SUBSET Kinds,
   files : SUBSET F, uses : Seq(Nat), results : Seq(Nat), fromFile : BOOLEAN]

\* A user message has no calls and an assistant's no results.
Speaks(m) ==
  /\ ~m.fromFile /\ m.role \in {"user", "assistant"}
  /\ m.role = "user" => m.uses = <<>> /\ m.thinks = {}
  /\ m.role = "assistant" => m.results = <<>>

\* A turn's calls are numbered in order.
Numbered(m) == m.uses = [j \in 1..Len(m.uses) |-> j]

SpeaksAll(h) == \A i \in DOMAIN h : Speaks(h[i])

\* It begins with something the user said.
Opens(h) ==
  h # <<>> => h[1].role = "user" /\ h[1].results = <<>> /\ (h[1].said \/ h[1].files # {})

\* Results stand after calls.
ResultsFollow(h) ==
  \A i \in DOMAIN h : h[i].results # <<>> => i - 1 \in DOMAIN h /\ h[i - 1].uses # <<>>

\* Calls and results stand next to each other, one for one.
Paired(h) ==
  \A i \in DOMAIN h :
    /\ h[i].uses # <<>> => i + 1 \in DOMAIN h /\ h[i + 1].results = h[i].uses
    /\ h[i].results # <<>> => i - 1 \in DOMAIN h /\ h[i - 1].uses = h[i].results

\* What is left of it when its empty messages are not sent.
LEMMA SentIsAccepted ==
  ASSUME NEW F, NEW who, NEW x \in Seq(Message(F)), Opens(x), Paired(x),
         \A i \in DOMAIN x : x[i].thinks \subseteq {who} /\ ~x[i].fromFile
  PROVE  NotEmpty(x) # <<>> =>
           /\ Accepted(who, NotEmpty(x))
           /\ \A i \in DOMAIN NotEmpty(x) : ~NotEmpty(x)[i].fromFile
<1> SUFFICES ASSUME NotEmpty(x) # <<>>
             PROVE  /\ Accepted(who, NotEmpty(x))
                    /\ \A i \in DOMAIN NotEmpty(x) : ~NotEmpty(x)[i].fromFile
  OBVIOUS
<1> DEFINE S == {i \in DOMAIN x : ~IsEmpty(x[i])}
           w == NotEmpty(x)
<1>1. S \in SUBSET DOMAIN x /\ w = Chosen(x, S)
  BY DEF NotEmpty
<1>2. \A i \in S : i \in DOMAIN x /\ ~IsEmpty(x[i])
  OBVIOUS
<1>3. \A i \in DOMAIN x : x[i].uses # <<>> \/ x[i].results # <<>> \/ x[i].said \/ x[i].files # {} => i \in S
  BY DEF IsEmpty
<1> HIDE DEF S, w
<1>4. PICK a : TurnPlaces(a, w, x, S)
  BY <1>1, ChosenPlaces, Zenon
<1>5. w \in Seq(Message(F)) /\ Len(w) \in Nat /\ DOMAIN w = 1..Len(w)
  BY <1>1, ChosenPlaces
<1> USE <1>4 DEF TurnPlaces
<1>6. w # <<>>
  BY DEF w
<1>7. 1 \in DOMAIN w
  BY <1>5, <1>6
<1>8. x # <<>> /\ 1 \in DOMAIN x
  <2>1. a[1] \in DOMAIN x
    BY <1>2, <1>7
  <2> QED
    BY <2>1
<1>9. w[1].role = "user"
  <2>1. 1 \in S
    BY <1>3, <1>8 DEF Opens
  <2>2. w[1] = x[1]
    BY <2>1
  <2> QED
    BY <1>8, <2>2 DEF Opens
<1>10. ASSUME NEW k \in DOMAIN w
       PROVE  /\ ~IsEmpty(w[k]) /\ w[k].thinks \subseteq {who} /\ ~w[k].fromFile
              /\ w[k].uses # <<>> => k < Len(w) /\ w[k + 1].results = w[k].uses
              /\ w[k].results # <<>> => k > 1 /\ w[k - 1].uses = w[k].results
  <2> DEFINE i == a[k]
  <2>1. i \in DOMAIN x /\ w[k] = x[i] /\ ~IsEmpty(x[i])
    BY <1>2
  <2>2. ASSUME w[k].uses # <<>> PROVE k < Len(w) /\ w[k + 1].results = w[k].uses
    <3>1. i + 1 \in DOMAIN x /\ x[i + 1].results = x[i].uses
      BY <2>1, <2>2 DEF Paired
    <3>2. i + 1 \in S
      BY <1>3, <2>1, <2>2, <3>1
    <3>3. k + 1 \in DOMAIN w /\ a[k + 1] = i + 1
      BY <3>2
    <3>4. w[k + 1] = x[i + 1]
      BY <3>3
    <3>5. k < Len(w)
      BY <1>5, <3>3
    <3> QED
      BY <2>1, <3>1, <3>4, <3>5
  <2>3. ASSUME w[k].results # <<>> PROVE k > 1 /\ w[k - 1].uses = w[k].results
    <3>1. i - 1 \in DOMAIN x /\ x[i - 1].uses = x[i].results
      BY <2>1, <2>3 DEF Paired
    <3>2. i - 1 \in S
      BY <1>3, <2>1, <2>3, <3>1
    <3>3. k - 1 \in DOMAIN w /\ a[k - 1] = i - 1
      BY <3>2
    <3>4. w[k - 1] = x[i - 1]
      BY <3>3
    <3>5. k > 1
      BY <1>5, <3>3
    <3> QED
      BY <2>1, <3>1, <3>4, <3>5
  <2> QED
    BY <2>1, <2>2, <2>3
<1>11. Accepted(who, w) /\ \A k \in DOMAIN w : ~w[k].fromFile
  BY <1>6, <1>9, <1>10 DEF Accepted
<1> QED
  BY <1>11 DEF w

\* repairHistory leaves every call answered and no other result.
LEMMA RepairAnswers ==
  ASSUME NEW F, NEW h \in Seq(Message(F)), SpeaksAll(h), Opens(h), ResultsFollow(h),
         \A i \in DOMAIN h : Numbered(h[i])
  PROVE  /\ RepairHistory(h) \in Seq(Message(F)) /\ SpeaksAll(RepairHistory(h))
         /\ Opens(RepairHistory(h)) /\ Paired(RepairHistory(h))
<1> DEFINE Asks(i) == i \in DOMAIN h /\ h[i].role = "user"
           ids(i) == Ascending(ToSet(h[i].uses))
           Next1(i) == IF Asks(i + 1) THEN h[i + 1] ELSE NoMessage
           answer == [i \in DOMAIN h |-> [Next1(i) EXCEPT !.results = ids(i)]]
           kept == {i \in DOMAIN h : ~(Asks(i) /\ Calls(h, i - 1))}
           S == {2 * i - 1 : i \in kept} \cup {2 * i : i \in {j \in DOMAIN h : Calls(h, j)}}
           x == InTurn(h, answer)
           g == Chosen(x, S)
<1>1. RepairHistory(h) = g
  BY DEF RepairHistory
<1>2. Len(h) \in Nat /\ DOMAIN h = 1..Len(h) /\ \A i \in DOMAIN h : h[i] \in Message(F) /\ Speaks(h[i])
  BY ElementOfSeq DEF SpeaksAll
<1>3. NoMessage \in Message(F) /\ Speaks(NoMessage)
  BY DEF NoMessage, Message, Speaks
<1>4. ASSUME NEW i \in DOMAIN h PROVE ids(i) = h[i].uses /\ ids(i) \in Seq(Nat)
  <2>1. h[i].uses \in Seq(Nat)
    BY <1>2 DEF Message
  <2> DEFINE u == h[i].uses
  <2>2. u \in Seq(Nat) /\ u = [j \in 1..Len(u) |-> j]
    BY <2>1 DEF Numbered
  <2> HIDE DEF u
  <2>3. Ascending(ToSet(u)) = u
    <3> DEFINE n == Len(u)
    <3>1. n \in Nat
      BY <2>2
    <3>2. u = [j \in 1..n |-> j]
      BY <2>2
    <3> HIDE DEF n
    <3>3. u \in [1..n -> Nat] /\ \A j, k \in 1..n : j < k => u[j] < u[k]
      BY <3>1, <3>2
    <3>4. ToSet(u) = {u[j] : j \in 1..n}
      BY <3>2 DEF ToSet
    <3> QED
      BY <3>1, <3>3, <3>4, RisingIsAscending
  <2> QED
    BY <2>2, <2>3 DEF u
<1>5. ASSUME NEW i \in DOMAIN h
      PROVE  /\ answer[i] \in Message(F) /\ Speaks(answer[i]) /\ answer[i].role = "user"
             /\ answer[i].uses = <<>> /\ answer[i].results = h[i].uses
  <2>1. Next1(i) \in Message(F) /\ Speaks(Next1(i)) /\ Next1(i).role = "user"
    BY <1>2, <1>3 DEF NoMessage
  <2> DEFINE m == Next1(i)
             r == ids(i)
  <2>2. r = h[i].uses /\ r \in Seq(Nat) /\ answer[i] = [m EXCEPT !.results = r]
    BY <1>4
  <2> HIDE DEF m, r
  <2>3. m \in Message(F) /\ Speaks(m) /\ m.role = "user"
    BY <2>1 DEF m
  <2> DEFINE e == [m EXCEPT !.results = r]
  <2>4. e \in Message(F) /\ Speaks(e) /\ e.role = "user" /\ e.uses = <<>> /\ e.results = r
    BY <2>2, <2>3 DEF Message, Speaks
  <2>5. answer[i] = e
    BY <2>2
  <2> HIDE DEF e
  <2> QED
    BY <2>2, <2>4, <2>5
<1>6. answer \in Seq(Message(F)) /\ Len(answer) = Len(h)
  <2>1. answer \in [1..Len(h) -> Message(F)]
    BY <1>2, <1>5
  <2> HIDE DEF answer
  <2> QED
    BY <1>2, <2>1
<1> HIDE DEF answer
<1>7. /\ x \in Seq(Message(F)) /\ DOMAIN x = 1..(2 * Len(h))
      /\ \A i \in DOMAIN h : /\ 2 * i - 1 \in 1..(2 * Len(h)) /\ 2 * i \in 1..(2 * Len(h))
                             /\ x[2 * i - 1] = h[i] /\ x[2 * i] = answer[i]
      /\ \A k \in DOMAIN x : \E i \in DOMAIN h : k = 2 * i - 1 \/ k = 2 * i
  <2>1. h \in Seq(Message(F)) /\ answer \in Seq(Message(F)) /\ Len(h) = Len(answer)
    BY <1>6
  <2>2. x \in Seq(Message(F)) /\ OneByOne(x, h, answer)
    BY <2>1, InTurnIs, Zenon
  <2> HIDE DEF x
  <2> QED
    BY <1>2, <2>2 DEF OneByOne
<1> HIDE DEF x
<1>8. S \in SUBSET DOMAIN x
  BY <1>7
<1>9. \A i \in DOMAIN h : /\ 2 * i - 1 \in S <=> i \in kept
                          /\ 2 * i \in S <=> Calls(h, i)
  BY <1>2
<1> HIDE DEF S
<1>10. PICK a : TurnPlaces(a, g, x, S)
  BY <1>7, <1>8, ChosenPlaces, Zenon
<1>11. g \in Seq(Message(F)) /\ Len(g) \in Nat /\ DOMAIN g = 1..Len(g)
  BY <1>7, <1>8, ChosenPlaces, Zenon
<1> HIDE DEF g
<1> USE <1>10 DEF TurnPlaces
<1>12. \A k \in DOMAIN g : Speaks(g[k])
  <2> SUFFICES ASSUME NEW k \in DOMAIN g PROVE Speaks(g[k])
    OBVIOUS
  <2>1. PICK i \in DOMAIN h : a[k] = 2 * i - 1 \/ a[k] = 2 * i
    BY <1>7, <1>8, <1>10
  <2>2. g[k] = x[a[k]] /\ x[2 * i - 1] = h[i] /\ x[2 * i] = answer[i]
    BY <1>7, <1>10
  <2> QED
    BY <1>2, <1>5, <2>1, <2>2
<1>13. Opens(g)
  <2> SUFFICES ASSUME g # <<>>
               PROVE g[1].role = "user" /\ g[1].results = <<>> /\ (g[1].said \/ g[1].files # {})
    BY DEF Opens
  <2>1. 1 \in DOMAIN g
    BY <1>11
  <2>2. 1 \in DOMAIN h /\ h # <<>>
    <3>1. a[1] \in DOMAIN x
      BY <1>8, <1>10, <2>1
    <3>2. PICK i \in DOMAIN h : TRUE
      BY <1>7, <3>1
    <3> QED
      BY <1>2, <3>2
  <2>3. 1 \in kept
    BY <1>2, <2>2 DEF Calls
  <2>4. 1 \in S
    BY <1>9, <2>2, <2>3
  <2>5. g[1] = h[1]
    BY <1>7, <1>10, <2>2, <2>4
  <2> QED
    BY <2>2, <2>5 DEF Opens
<1>14. ASSUME NEW k \in DOMAIN g
       PROVE  /\ g[k].uses # <<>> => k + 1 \in DOMAIN g /\ g[k + 1].results = g[k].uses
              /\ g[k].results # <<>> => k - 1 \in DOMAIN g /\ g[k - 1].uses = g[k].results
  <2>1. a[k] \in S
    BY <1>10
  <2>2. PICK i \in DOMAIN h : a[k] = 2 * i - 1 \/ a[k] = 2 * i
    BY <1>7, <1>8, <2>1
  <2>3. h[i] \in Message(F) /\ Speaks(h[i])
    BY <1>2
  <2>4. CASE a[k] = 2 * i - 1
    <3>1. g[k] = h[i] /\ i \in kept
      BY <1>7, <1>9, <1>10, <2>1, <2>4
    <3>2. g[k].results = <<>>
      <4>1. SUFFICES ASSUME h[i].results # <<>> PROVE FALSE
        BY <3>1
      <4>2. i - 1 \in DOMAIN h /\ h[i - 1].uses # <<>>
        BY <4>1 DEF ResultsFollow
      <4>3. Speaks(h[i - 1])
        BY <1>2, <4>2
      <4>4. Calls(h, i - 1) /\ Asks(i)
        BY <2>3, <4>1, <4>2, <4>3 DEF Calls, Speaks
      <4> QED
        BY <3>1, <4>4
    <3>3. ASSUME g[k].uses # <<>> PROVE k + 1 \in DOMAIN g /\ g[k + 1].results = g[k].uses
      <4>1. Calls(h, i)
        BY <2>3, <3>1, <3>3 DEF Calls, Speaks
      <4>2. 2 * i \in S /\ a[k] + 1 = 2 * i
        BY <1>2, <1>9, <2>4, <4>1
      <4>3. k + 1 \in DOMAIN g /\ a[k + 1] = 2 * i
        BY <1>10, <4>2
      <4>4. g[k + 1] = answer[i]
        BY <1>7, <1>10, <4>3
      <4> QED
        BY <1>5, <3>1, <4>3, <4>4
    <3> QED
      BY <3>2, <3>3
  <2>5. CASE a[k] = 2 * i
    <3>1. g[k] = answer[i] /\ Calls(h, i)
      <4>1. 2 * i \in S
        BY <2>1, <2>5
      <4>2. Calls(h, i)
        BY <1>9, <4>1
      <4>3. g[k] = x[2 * i]
        BY <2>5
      <4>4. x[2 * i] = answer[i]
        BY <1>7
      <4> QED
        BY <4>2, <4>3, <4>4
    <3>2. g[k].uses = <<>> /\ g[k].results = h[i].uses
      BY <1>5, <3>1
    <3>3. i \in kept
      BY <3>1 DEF Calls
    <3>4. 2 * i - 1 \in S /\ a[k] - 1 = 2 * i - 1
      BY <1>2, <1>9, <2>5, <3>3
    <3>5. k - 1 \in DOMAIN g /\ a[k - 1] = 2 * i - 1
      BY <1>10, <3>4
    <3>6. g[k - 1] = h[i]
      BY <1>7, <1>10, <3>5
    <3> QED
      BY <3>2, <3>5, <3>6
  <2> QED
    BY <2>2, <2>4, <2>5
<1>15. SpeaksAll(g) /\ Paired(g)
  BY <1>12, <1>14 DEF SpeaksAll, Paired
<1> QED
  BY <1>1, <1>11, <1>13, <1>15

\* Each of these leaves a history one.
LEMMA FoldKeeps ==
  ASSUME NEW F, NEW own \in Seq(Message(F)), NEW imported, SpeaksAll(own), Opens(own),
         ResultsFollow(own), \A i \in DOMAIN own : Numbered(own[i])
  PROVE  LET h == FoldImported(own, imported)
         IN  /\ h \in Seq(Message(F)) /\ SpeaksAll(h) /\ Opens(h) /\ ResultsFollow(h)
             /\ \A i \in DOMAIN h : Numbered(h[i])
<1> DEFINE h == FoldImported(own, imported)
           block == [NoMessage EXCEPT !.said = TRUE]
<1>1. CASE imported = <<>>
  BY <1>1 DEF FoldImported
<1>2. CASE imported # <<>> /\ own # <<>>
  <2>1. own[1].role = "user" /\ 1 \in DOMAIN own /\ own[1] \in Message(F)
    BY <1>2 DEF Opens
  <2> DEFINE m == [own[1] EXCEPT !.said = TRUE]
  <2>2. h = [own EXCEPT ![1] = m]
    BY <1>2, <2>1 DEF FoldImported
  <2>3. /\ m \in Message(F) /\ m.said /\ m.uses = own[1].uses /\ m.results = own[1].results
        /\ m.role = own[1].role /\ m.thinks = own[1].thinks /\ m.fromFile = own[1].fromFile
    BY <2>1 DEF Message
  <2> HIDE DEF m, h
  <2>4. /\ h \in Seq(Message(F)) /\ DOMAIN h = DOMAIN own /\ h[1] = m
        /\ \A i \in DOMAIN own : i # 1 => h[i] = own[i]
    BY <2>1, <2>2, <2>3
  <2>5. \A i \in DOMAIN own : /\ h[i].uses = own[i].uses /\ h[i].results = own[i].results
                              /\ h[i].role = own[i].role /\ h[i].thinks = own[i].thinks
                              /\ h[i].fromFile = own[i].fromFile
    BY <2>3, <2>4
  <2>6. SpeaksAll(h)
    BY <2>4, <2>5 DEF SpeaksAll, Speaks
  <2>7. Opens(h)
    BY <1>2, <2>1, <2>3, <2>4 DEF Opens
  <2>8. ResultsFollow(h)
    BY <2>4, <2>5 DEF ResultsFollow
  <2>9. \A i \in DOMAIN h : Numbered(h[i])
    BY <2>4, <2>5 DEF Numbered
  <2> QED
    BY <2>4, <2>6, <2>7, <2>8, <2>9 DEF h
<1>3. CASE imported # <<>> /\ own = <<>>
  <2>1. h = <<block>>
    <3>1. h = <<block>> \o <<>>
      BY <1>3, Zenon DEF FoldImported
    <3> QED
      BY <3>1
  <2>2. /\ block \in Message(F) /\ block.said /\ block.role = "user" /\ block.uses = <<>>
        /\ block.results = <<>> /\ block.thinks = {} /\ ~block.fromFile
    <3>1. NoMessage \in Message(F)
      BY DEF NoMessage, Message
    <3>2. /\ NoMessage.role = "user" /\ NoMessage.uses = <<>> /\ NoMessage.results = <<>>
          /\ NoMessage.thinks = {} /\ ~NoMessage.fromFile
      BY DEF NoMessage
    <3> QED
      BY <3>1, <3>2 DEF Message
  <2> HIDE DEF block, h
  <2>3. h \in Seq(Message(F)) /\ DOMAIN h = {1} /\ h[1] = block
    BY <2>1, <2>2
  <2>4. Numbered(block)
    BY <2>2 DEF Numbered
  <2>5. SpeaksAll(h) /\ Opens(h) /\ ResultsFollow(h) /\ \A i \in DOMAIN h : Numbered(h[i])
    BY <2>2, <2>3, <2>4 DEF SpeaksAll, Speaks, Opens, ResultsFollow
  <2> QED
    BY <2>3, <2>5 DEF h
<1> QED
  BY <1>1, <1>2, <1>3

LEMMA SendKeeps ==
  ASSUME NEW F, NEW h \in Seq(Message(F)), NEW reads, SpeaksAll(h), Opens(h), Paired(h)
  PROVE  LET g == SendFiles(h, reads)
         IN  g \in Seq(Message(F)) /\ SpeaksAll(g) /\ Opens(g) /\ Paired(g)
<1> DEFINE g == SendFiles(h, reads)
           Sent(i) == [h[i] EXCEPT !.files = @ \cap reads,
                                 !.said = @ \/ ~(h[i].files \subseteq reads)]
<1>1. g = [i \in DOMAIN h |-> Sent(i)] /\ Len(h) \in Nat /\ DOMAIN h = 1..Len(h)
  BY DEF SendFiles
<1>2. ASSUME NEW i \in DOMAIN h
      PROVE  /\ Sent(i) \in Message(F) /\ Sent(i).uses = h[i].uses /\ Sent(i).results = h[i].results
             /\ Sent(i).role = h[i].role /\ Sent(i).thinks = h[i].thinks
             /\ Sent(i).fromFile = h[i].fromFile
             /\ h[i].said \/ h[i].files # {} => Sent(i).said \/ Sent(i).files # {}
  <2>1. h[i] \in Message(F)
    BY ElementOfSeq
  <2>2. PICK m \in Message(F) : m = h[i]
    BY <2>1
  <2> DEFINE f == m.files \cap reads
             b == m.said \/ ~(m.files \subseteq reads)
             e == [m EXCEPT !.files = f, !.said = b]
  <2>3. f \in SUBSET F /\ b \in BOOLEAN /\ (m.said \/ m.files # {} => b \/ f # {})
    BY DEF Message
  <2> HIDE DEF f, b
  <2>4. /\ e \in Message(F) /\ e.uses = m.uses /\ e.results = m.results /\ e.role = m.role
        /\ e.thinks = m.thinks /\ e.fromFile = m.fromFile /\ e.said = b /\ e.files = f
    BY <2>3 DEF Message
  <2>5. Sent(i) = e
    BY <2>2 DEF Message, f, b
  <2> HIDE DEF e, Sent
  <2> QED
    BY <2>2, <2>3, <2>4, <2>5
<1> HIDE DEF Sent
<1>3. \A i \in DOMAIN h :
        /\ g[i] \in Message(F) /\ g[i].uses = h[i].uses /\ g[i].results = h[i].results
        /\ g[i].role = h[i].role /\ g[i].thinks = h[i].thinks
        /\ g[i].fromFile = h[i].fromFile
        /\ h[i].said \/ h[i].files # {} => g[i].said \/ g[i].files # {}
  BY <1>1, <1>2
<1>4. g \in Seq(Message(F)) /\ DOMAIN g = DOMAIN h
  <2>1. g \in [1..Len(h) -> Message(F)]
    BY <1>1, <1>3
  <2> HIDE DEF g
  <2> QED
    BY <1>1, <2>1, FunctionIsSeq
<1> HIDE DEF g
<1>5. SpeaksAll(g)
  BY <1>3, <1>4 DEF SpeaksAll, Speaks
<1>6. Opens(g)
  <2>1. SUFFICES ASSUME g # <<>>
                 PROVE g[1].role = "user" /\ g[1].results = <<>> /\ (g[1].said \/ g[1].files # {})
    BY DEF Opens
  <2>2. 1 \in DOMAIN h /\ h # <<>>
    BY <1>1, <1>4, <2>1
  <2> QED
    BY <1>3, <2>2 DEF Opens
<1>7. Paired(g)
  BY <1>3, <1>4 DEF Paired
<1> QED
  BY <1>4, <1>5, <1>6, <1>7 DEF g

\* A run of messages of one role, from i on.
LEMMA RunIs ==
  ASSUME NEW F, NEW h \in Seq(Message(F)), NEW i \in DOMAIN h
  PROVE  /\ EndOfRun(h, i) \in i..Len(h)
         /\ \A j \in i..EndOfRun(h, i) : h[j].role = h[i].role
         /\ EndOfRun(h, i) # Len(h) => h[EndOfRun(h, i) + 1].role # h[i].role
<1> DEFINE J == {j \in i..Len(h) : j = Len(h) \/ h[j + 1].role # h[i].role}
           e == EndOfRun(h, i)
<1>1. Len(h) \in Nat /\ DOMAIN h = 1..Len(h) /\ i \in Nat
  OBVIOUS
<1>2. J \in SUBSET Nat /\ Len(h) \in J
  BY <1>1
<1>3. e = Min(J)
  BY DEF EndOfRun
<1>4. e \in J /\ \A j \in J : e <= j
  <2> HIDE DEF J, e
  <2>1. \E x \in J : \A y \in J : x <= y
    BY <1>2, LeastIsThere
  <2> QED
    BY <1>3, <2>1 DEF Min
<1>5. e \in i..Len(h) /\ (e # Len(h) => h[e + 1].role # h[i].role)
  BY <1>4
<1> HIDE DEF e
<1>6. ASSUME NEW j \in i..e PROVE h[j].role = h[i].role
  <2>1. CASE j = i
    BY <2>1
  <2>2. CASE j # i
    <3> HIDE DEF J
    <3>1. j - 1 \in i..Len(h) /\ ~(e <= j - 1) /\ (j - 1) + 1 = j
      <4>1. i \in Int /\ e \in Int /\ Len(h) \in Int /\ e <= Len(h)
        <5>1. e \in i..Len(h)
          BY <1>5
        <5>2. i \in Int /\ Len(h) \in Int
          BY <1>1
        <5> QED
          BY <5>1, <5>2
      <4>2. j \in Int /\ i <= j /\ j <= e
        BY <4>1
      <4> QED
        BY <2>2, <4>1, <4>2
    <3>2. j - 1 \notin J
      BY <1>4, <3>1
    <3> QED
      BY <3>1, <3>2 DEF J
  <2> QED
    BY <2>1, <2>2
<1> QED
  BY <1>5, <1>6 DEF e

\* One message made of it: its last calls and its first results are all there are.
LEMMA JoinedIs ==
  ASSUME NEW F, NEW h \in Seq(Message(F)), SpeaksAll(h), Paired(h), NEW i \in DOMAIN h
  PROVE  LET m == Joined(SubSeq(h, i, EndOfRun(h, i)))
         IN  /\ m \in Message(F) /\ Speaks(m) /\ m.role = h[i].role
             /\ m.uses = h[EndOfRun(h, i)].uses /\ m.results = h[i].results
             /\ h[i].said => m.said
             /\ h[i].files \subseteq m.files
<1> DEFINE e == EndOfRun(h, i)
           r == SubSeq(h, i, e)
           n == e - i + 1
           m == Joined(r)
<1>1. /\ Len(h) \in Nat /\ DOMAIN h = 1..Len(h) /\ i \in Nat /\ e \in i..Len(h)
      /\ \A j \in i..e : h[j].role = h[i].role
  BY RunIs
<1> HIDE DEF e
<1>2. n \in Nat /\ n >= 1 /\ i \in 1..(Len(h) + 1) /\ e \in (i - 1)..Len(h)
  BY <1>1
<1>3. r \in Seq(Message(F)) /\ Len(r) = n /\ \A j \in 1..n : r[j] = h[i + j - 1]
  BY <1>2, PartIs
<1> HIDE DEF r
<1>4. DOMAIN r = 1..n
  BY <1>3
<1>5. ASSUME NEW j \in 1..n
      PROVE  /\ i + j - 1 \in DOMAIN h /\ i + j - 1 \in i..e /\ r[j] = h[i + j - 1]
             /\ r[j] \in Message(F) /\ Speaks(r[j]) /\ r[j].role = h[i].role
  <2>1. i + j - 1 \in i..e /\ i + j - 1 \in DOMAIN h
    BY <1>1, <1>2
  <2>2. r[j] = h[i + j - 1] /\ r[j] \in Message(F)
    BY <1>3, <1>4
  <2> QED
    BY <1>1, <2>1, <2>2 DEF SpeaksAll
<1>6. 1 \in 1..n /\ n \in 1..n /\ r[1] = h[i] /\ r[n] = h[e]
  BY <1>1, <1>2, <1>3
<1>7. ASSUME NEW j \in 1..n, j # n PROVE r[j].uses = <<>>
  <2>1. SUFFICES ASSUME r[j].uses # <<>> PROVE FALSE
    OBVIOUS
  <2>2. j + 1 \in 1..n /\ i + (j + 1) - 1 = (i + j - 1) + 1
    BY <1>2, <1>7
  <2>3. r[j + 1].results = r[j].uses
    BY <1>5, <2>1, <2>2 DEF Paired
  <2>4. Speaks(r[j]) /\ Speaks(r[j + 1]) /\ r[j].role = r[j + 1].role
    BY <1>5, <2>2
  <2> QED
    BY <2>1, <2>3, <2>4 DEF Speaks
<1>8. ASSUME NEW j \in 1..n, j # 1 PROVE r[j].results = <<>>
  <2>1. SUFFICES ASSUME r[j].results # <<>> PROVE FALSE
    OBVIOUS
  <2>2. j - 1 \in 1..n /\ i + (j - 1) - 1 = (i + j - 1) - 1
    BY <1>2, <1>8
  <2>3. r[j - 1].uses = r[j].results
    BY <1>5, <2>1, <2>2 DEF Paired
  <2>4. Speaks(r[j]) /\ Speaks(r[j - 1]) /\ r[j].role = r[j - 1].role
    BY <1>5, <2>2
  <2> QED
    BY <2>1, <2>3, <2>4 DEF Speaks
<1> DEFINE us == [j \in DOMAIN r |-> r[j].uses]
           rs == [j \in DOMAIN r |-> r[j].results]
<1>9. FlattenSeq(us) = r[n].uses /\ FlattenSeq(rs) = r[1].results
  <2>1. us \in Seq(Seq(Nat)) /\ Len(us) = n /\ DOMAIN us = 1..n
    <3>1. us \in [1..n -> Seq(Nat)]
      BY <1>4, <1>5 DEF Message
    <3> HIDE DEF us
    <3> QED
      BY <1>2, <3>1, FunctionIsSeq
  <2>2. rs \in Seq(Seq(Nat)) /\ Len(rs) = n /\ DOMAIN rs = 1..n
    <3>1. rs \in [1..n -> Seq(Nat)]
      BY <1>4, <1>5 DEF Message
    <3> HIDE DEF rs
    <3> QED
      BY <1>2, <3>1, FunctionIsSeq
  <2>3. \A j \in 1..n : us[j] = r[j].uses /\ rs[j] = r[j].results
    BY <1>4
  <2> HIDE DEF us, rs
  <2>4. FlattenSeq(us) = us[n]
    <3>1. n \in 1..Len(us) /\ \A j \in DOMAIN us : j # n => us[j] = <<>>
      BY <1>6, <1>7, <2>1, <2>3
    <3> QED
      BY <2>1, <3>1, FlattenOne, Zenon
  <2>5. FlattenSeq(rs) = rs[1]
    <3>1. 1 \in 1..Len(rs) /\ \A j \in DOMAIN rs : j # 1 => rs[j] = <<>>
      BY <1>6, <1>8, <2>2, <2>3
    <3> QED
      BY <2>2, <3>1, FlattenOne, Zenon
  <2> QED
    BY <1>6, <2>3, <2>4, <2>5
<1> DEFINE said == \E j \in DOMAIN r : r[j].said
           thinks == UNION {r[j].thinks : j \in DOMAIN r}
           files == UNION {r[j].files : j \in DOMAIN r}
           from == \E j \in DOMAIN r : r[j].fromFile
<1>10. m = [role |-> r[1].role, said |-> said, thinks |-> thinks, files |-> files,
            uses |-> FlattenSeq(us), results |-> FlattenSeq(rs), fromFile |-> from]
  BY DEF Joined
<1>11. thinks \in SUBSET Kinds /\ files \in SUBSET F
  BY <1>4, <1>5 DEF Message
<1>12. said \in BOOLEAN /\ from \in BOOLEAN /\ from = FALSE
  BY <1>4, <1>5 DEF Speaks
<1>13. (h[i].said => said) /\ h[i].files \subseteq files
  BY <1>4, <1>6
<1>14. h[i].role = "user" => thinks = {}
  BY <1>4, <1>5 DEF Speaks
<1>15. r[1] \in Message(F) /\ r[n] \in Message(F) /\ Speaks(r[1]) /\ Speaks(r[n]) /\ r[n].role = r[1].role
  BY <1>5, <1>6
<1> HIDE DEF us, rs, said, thinks, files, from
<1> DEFINE u == FlattenSeq(us)
           q == FlattenSeq(rs)
<1>16. /\ u \in Seq(Nat) /\ q \in Seq(Nat) /\ u = h[e].uses /\ q = h[i].results
       /\ r[1].role \in {"user", "assistant"} /\ r[1].role = h[i].role
       /\ r[1].role = "user" => u = <<>>
       /\ r[1].role = "assistant" => q = <<>>
  BY <1>6, <1>9, <1>15 DEF Message, Speaks
<1> HIDE DEF u, q
<1>17. m = [role |-> r[1].role, said |-> said, thinks |-> thinks, files |-> files,
            uses |-> u, results |-> q, fromFile |-> from]
  BY <1>10 DEF u, q
<1> HIDE DEF m
<1>18. m \in Message(F)
  BY <1>11, <1>12, <1>16, <1>17 DEF Message
<1>19. Speaks(m)
  BY <1>12, <1>14, <1>16, <1>17 DEF Speaks
<1> QED
  BY <1>13, <1>16, <1>17, <1>18, <1>19 DEF m, r, e

LEMMA MergeKeeps ==
  ASSUME NEW F, NEW h \in Seq(Message(F)), SpeaksAll(h), Opens(h), Paired(h)
  PROVE  /\ MergeSameRole(h) \in Seq(Message(F)) /\ SpeaksAll(MergeSameRole(h))
         /\ Opens(MergeSameRole(h)) /\ Paired(MergeSameRole(h))
<1> DEFINE x == [i \in DOMAIN h |-> Joined(SubSeq(h, i, EndOfRun(h, i)))]
           S == {i \in DOMAIN h : i = 1 \/ h[i - 1].role # h[i].role}
           c == Chosen(x, S)
           e(i) == EndOfRun(h, i)
<1>1. MergeSameRole(h) = c
  BY DEF MergeSameRole
<1>2. Len(h) \in Nat /\ DOMAIN h = 1..Len(h) /\ \A i \in DOMAIN h : h[i] \in Message(F) /\ Speaks(h[i])
  BY ElementOfSeq DEF SpeaksAll
<1>3. ASSUME NEW i \in DOMAIN h
      PROVE  /\ x[i] \in Message(F) /\ Speaks(x[i]) /\ x[i].role = h[i].role
             /\ x[i].uses = h[e(i)].uses /\ x[i].results = h[i].results
             /\ h[i].said => x[i].said
             /\ h[i].files \subseteq x[i].files
  BY JoinedIs
<1>4. x \in Seq(Message(F)) /\ DOMAIN x = DOMAIN h
  <2>1. x \in [1..Len(h) -> Message(F)]
    BY <1>2, <1>3
  <2> HIDE DEF x
  <2> QED
    BY <1>2, <2>1, FunctionIsSeq
<1>5. ASSUME NEW i \in DOMAIN h
      PROVE  /\ e(i) \in DOMAIN h /\ i <= e(i) /\ e(i) \in Int /\ i \in Int
             /\ \A j \in i..e(i) : h[j].role = h[i].role
             /\ e(i) + 1 \in DOMAIN h => h[e(i) + 1].role # h[i].role
  <2>1. /\ e(i) \in i..Len(h)
        /\ \A j \in i..e(i) : h[j].role = h[i].role
        /\ e(i) # Len(h) => h[e(i) + 1].role # h[i].role
    BY RunIs
  <2> HIDE DEF e
  <2>2. e(i) \in DOMAIN h /\ i <= e(i) /\ e(i) \in Int /\ i \in Int
    BY <1>2, <2>1
  <2>3. e(i) + 1 \in DOMAIN h => e(i) # Len(h)
    BY <1>2, <2>2
  <2> QED
    BY <2>1, <2>2, <2>3
<1> HIDE DEF x, e
<1>6. S \in SUBSET DOMAIN x /\ S \in SUBSET Nat
  BY <1>2, <1>4
<1>7. ASSUME NEW i \in DOMAIN h, e(i) + 1 \in DOMAIN h PROVE e(i) + 1 \in S
  <2>1. e(i) \in i..e(i) /\ (e(i) + 1) - 1 = e(i)
    BY <1>5
  <2>2. h[e(i)].role = h[i].role /\ h[e(i) + 1].role # h[i].role
    BY <1>5, <1>7, <2>1
  <2> QED
    BY <1>7, <2>1, <2>2
<1>8. ASSUME NEW i \in DOMAIN h, NEW m \in S PROVE m <= i \/ e(i) + 1 <= m
  <2>1. SUFFICES ASSUME i < m, m <= e(i) PROVE FALSE
    BY <1>2, <1>5
  <2>2. m \in DOMAIN h /\ (m = 1 \/ h[m - 1].role # h[m].role)
    OBVIOUS
  <2>3. m \in i..e(i) /\ m - 1 \in i..e(i) /\ m # 1
    <3>1. m \in Int /\ i \in Int /\ e(i) \in Int /\ i >= 1
      BY <1>2, <1>5, <2>2
    <3> QED
      BY <2>1, <3>1
  <2>4. h[m].role = h[i].role /\ h[m - 1].role = h[i].role
    BY <1>5, <2>3
  <2> QED
    BY <2>2, <2>3, <2>4
<1>9. h # <<>> => 1 \in S
  BY <1>2
<1> HIDE DEF S
<1>10. PICK a : TurnPlaces(a, c, x, S)
  BY <1>4, <1>6, ChosenPlaces, Zenon
<1>11. c \in Seq(Message(F)) /\ Len(c) \in Nat /\ DOMAIN c = 1..Len(c)
  BY <1>4, <1>6, ChosenPlaces, Zenon
<1> HIDE DEF c
<1>12. ASSUME NEW k \in DOMAIN c
       PROVE  a[k] \in S /\ a[k] \in DOMAIN h /\ c[k] = x[a[k]]
  BY <1>4, <1>6, <1>10 DEF TurnPlaces
<1>13. ASSUME NEW k \in DOMAIN c, e(a[k]) + 1 \in DOMAIN h
       PROVE  k + 1 \in DOMAIN c /\ a[k + 1] = e(a[k]) + 1
  <2> DEFINE n == e(a[k]) + 1
  <2>1. n \in S /\ a[k] < n
    BY <1>5, <1>7, <1>12, <1>13
  <2>2. \A m \in S : m <= a[k] \/ n <= m
    BY <1>8, <1>12
  <2>3. RisesByNext(a, c, S)
    BY <1>6, <1>10, <1>11, NextPlace, Zenon
  <2> HIDE DEF n
  <2>4. k + 1 \in DOMAIN c /\ a[k + 1] = n
    BY <2>1, <2>2, <2>3, Zenon DEF RisesByNext
  <2> QED
    BY <2>4 DEF n
<1>14. SpeaksAll(c)
  BY <1>3, <1>12 DEF SpeaksAll
<1>15. Opens(c)
  <2> SUFFICES ASSUME c # <<>>
               PROVE c[1].role = "user" /\ c[1].results = <<>> /\ (c[1].said \/ c[1].files # {})
    BY DEF Opens
  <2>1. 1 \in DOMAIN c
    BY <1>11
  <2>2. h # <<>> /\ 1 \in DOMAIN h
    <3>1. a[1] \in DOMAIN h
      BY <1>12, <2>1
    <3> QED
      BY <1>2, <3>1
  <2>3. a[1] = 1
    BY <1>9, <1>10, <2>2 DEF TurnPlaces
  <2>4. c[1] = x[1]
    BY <1>12, <2>1, <2>3
  <2> QED
    BY <1>3, <2>2, <2>4 DEF Opens
<1>16. ASSUME NEW k \in DOMAIN c, c[k].uses # <<>>
       PROVE  k + 1 \in DOMAIN c /\ c[k + 1].results = c[k].uses
  <2>1. c[k].uses = h[e(a[k])].uses /\ e(a[k]) \in DOMAIN h
    BY <1>3, <1>5, <1>12
  <2>2. e(a[k]) + 1 \in DOMAIN h /\ h[e(a[k]) + 1].results = c[k].uses
    BY <1>16, <2>1 DEF Paired
  <2>3. k + 1 \in DOMAIN c /\ a[k + 1] = e(a[k]) + 1
    BY <1>13, <2>2
  <2>4. c[k + 1].results = h[e(a[k]) + 1].results
    BY <1>3, <1>12, <2>3
  <2> QED
    BY <2>2, <2>3, <2>4
<1>17. ASSUME NEW k \in DOMAIN c, c[k].results # <<>>
       PROVE  k - 1 \in DOMAIN c /\ c[k - 1].uses = c[k].results
  <2>1. c[k].results = h[a[k]].results /\ a[k] \in DOMAIN h
    BY <1>3, <1>12
  <2>2. a[k] - 1 \in DOMAIN h /\ h[a[k] - 1].uses = c[k].results
    BY <1>17, <2>1 DEF Paired
  <2>3. a[k] # 1 /\ h # <<>>
    BY <1>2, <2>2
  <2>4. k # 1
    BY <1>9, <1>10, <2>3 DEF TurnPlaces
  <2>5. k - 1 \in DOMAIN c /\ (k - 1) + 1 = k /\ k - 1 < k
    BY <1>11, <2>4
  <2> DEFINE p == a[k - 1]
  <2>6. p \in DOMAIN h /\ p < a[k] /\ p \in Int /\ a[k] \in Int
    <3>1. p < a[k]
      BY <1>10, <2>5 DEF TurnPlaces
    <3> QED
      BY <1>2, <1>12, <2>5, <3>1
  <2>7. e(p) + 1 <= a[k]
    <3>1. a[k] <= p \/ e(p) + 1 <= a[k]
      BY <1>8, <1>12, <2>6
    <3> QED
      BY <2>6, <3>1
  <2>8. e(p) + 1 \in DOMAIN h
    <3>1. e(p) \in DOMAIN h /\ e(p) \in Int
      BY <1>5, <2>6
    <3> HIDE DEF p
    <3>2. a[k] <= Len(h) /\ e(p) >= 1
      BY <1>2, <2>1, <3>1
    <3> QED
      BY <1>2, <2>6, <2>7, <3>1, <3>2
  <2>9. a[k] = e(p) + 1
    BY <1>13, <2>5, <2>8
  <2>10. e(p) = a[k] - 1
    BY <1>5, <2>6, <2>9
  <2>11. c[k - 1].uses = h[e(p)].uses
    BY <1>3, <1>12, <2>5
  <2> QED
    BY <2>2, <2>5, <2>10, <2>11
<1>18. Paired(c)
  BY <1>16, <1>17 DEF Paired
<1> QED
  BY <1>1, <1>11, <1>14, <1>15, <1>18

\* The same talk, whatever was thought.
SameTalk(x, g) ==
  /\ DOMAIN x = DOMAIN g
  /\ \A i \in DOMAIN g :
       /\ x[i].role = g[i].role /\ x[i].said = g[i].said /\ x[i].files = g[i].files
       /\ x[i].uses = g[i].uses /\ x[i].results = g[i].results /\ x[i].fromFile = g[i].fromFile

LEMMA SameTalkKeeps ==
  ASSUME NEW F, NEW x \in Seq(Message(F)), NEW g \in Seq(Message(F)), SameTalk(x, g),
         SpeaksAll(g), Opens(g), Paired(g)
  PROVE  Opens(x) /\ Paired(x) /\ \A i \in DOMAIN x : ~x[i].fromFile
<1>1. Opens(x)
  <2>1. SUFFICES ASSUME x # <<>>
                 PROVE x[1].role = "user" /\ x[1].results = <<>> /\ (x[1].said \/ x[1].files # {})
    BY DEF Opens
  <2>2. 1 \in DOMAIN g /\ g # <<>>
    <3>1. DOMAIN x = 1..Len(x) /\ Len(x) \in Nat /\ Len(x) # 0
      BY <2>1, EmptySeq
    <3>2. 1 \in DOMAIN x
      BY <3>1
    <3> QED
      BY <3>2 DEF SameTalk
  <2> QED
    BY <2>2 DEF Opens, SameTalk
<1>2. Paired(x)
  BY DEF Paired, SameTalk
<1>3. \A i \in DOMAIN x : ~x[i].fromFile
  BY DEF SameTalk, SpeaksAll, Speaks
<1> QED
  BY <1>1, <1>2, <1>3

\* The three ways the adapters put a history together.
LEMMA AnthropicAccepted ==
  ASSUME NEW F, NEW h \in Seq(Message(F)), SpeaksAll(h), Opens(h), Paired(h),
         AnthropicWire(h) # <<>>
  PROVE  /\ Accepted("anthropic", AnthropicWire(h))
         /\ \A i \in DOMAIN AnthropicWire(h) : ~AnthropicWire(h)[i].fromFile
<1> DEFINE g == MergeSameRole(h)
           x == [i \in DOMAIN g |-> [g[i] EXCEPT !.thinks = @ \cap {"anthropic"}]]
<1>1. AnthropicWire(h) = NotEmpty(x)
  BY DEF AnthropicWire
<1>2. g \in Seq(Message(F)) /\ SpeaksAll(g) /\ Opens(g) /\ Paired(g)
  BY MergeKeeps
<1> HIDE DEF g
<1>3. Len(g) \in Nat /\ DOMAIN g = 1..Len(g) /\ \A i \in DOMAIN g : g[i] \in Message(F)
  BY <1>2, ElementOfSeq
<1>4. ASSUME NEW i \in DOMAIN g
      PROVE  /\ x[i] \in Message(F) /\ x[i].thinks \subseteq {"anthropic"}
             /\ x[i].role = g[i].role /\ x[i].said = g[i].said /\ x[i].files = g[i].files
             /\ x[i].uses = g[i].uses /\ x[i].results = g[i].results
             /\ x[i].fromFile = g[i].fromFile
  <2> DEFINE m == g[i]
             e == x[i]
  <2>1. m \in Message(F)
    BY <1>3
  <2>2. e = [m EXCEPT !.thinks = @ \cap {"anthropic"}]
    OBVIOUS
  <2> HIDE DEF x, m, e
  <2>3. /\ e \in Message(F) /\ e.thinks \subseteq {"anthropic"}
        /\ e.role = m.role /\ e.said = m.said /\ e.files = m.files /\ e.uses = m.uses
        /\ e.results = m.results /\ e.fromFile = m.fromFile
    BY <2>1, <2>2 DEF Message
  <2> QED
    BY <2>3 DEF m, e
<1>5. x \in Seq(Message(F)) /\ DOMAIN x = DOMAIN g
  <2>1. x \in [1..Len(g) -> Message(F)]
    BY <1>3, <1>4
  <2> HIDE DEF x
  <2> QED
    BY <1>3, <2>1, FunctionIsSeq
<1> HIDE DEF x
<1>6. SameTalk(x, g)
  BY <1>4, <1>5 DEF SameTalk
<1>7. Opens(x) /\ Paired(x) /\ \A i \in DOMAIN x : ~x[i].fromFile
  BY <1>2, <1>5, <1>6, SameTalkKeeps, Zenon
<1>8. \A i \in DOMAIN x : x[i].thinks \subseteq {"anthropic"} /\ ~x[i].fromFile
  BY <1>4, <1>5, <1>7
<1>9. NotEmpty(x) # <<>>
  BY <1>1
<1> QED
  BY <1>1, <1>5, <1>7, <1>8, <1>9, SentIsAccepted

LEMMA GeminiAccepted ==
  ASSUME NEW F, NEW h \in Seq(Message(F)), SpeaksAll(h), Opens(h), Paired(h),
         GeminiWire(h) # <<>>
  PROVE  /\ Accepted("gemini", GeminiWire(h))
         /\ \A i \in DOMAIN GeminiWire(h) : ~GeminiWire(h)[i].fromFile
<1> DEFINE g == MergeSameRole(h)
           n == Len(g)
           Sent(i) == IF g[i].role = "assistant"
                      THEN [g[i] EXCEPT !.thinks = @ \cap {"gemini"}]
                      ELSE IF i > 1 THEN [g[i] EXCEPT !.results = g[i - 1].uses]
                      ELSE Own(g[i])
           last == IF Calls(g, n) THEN <<[NoMessage EXCEPT !.results = g[n].uses]>> ELSE <<>>
           x == [i \in 1..n |-> Sent(i)]
<1>1. GeminiWire(h) = NotEmpty(x \o last)
  BY DEF GeminiWire
<1>2. g \in Seq(Message(F)) /\ SpeaksAll(g) /\ Opens(g) /\ Paired(g)
  BY MergeKeeps
<1> HIDE DEF g
<1>3. /\ n \in Nat /\ DOMAIN g = 1..n
      /\ \A i \in DOMAIN g : g[i] \in Message(F) /\ Speaks(g[i])
  BY <1>2, ElementOfSeq DEF SpeaksAll
<1> HIDE DEF n
<1>4. last = <<>>
  <2>1. n + 1 \notin DOMAIN g
    BY <1>3
  <2>2. ~Calls(g, n)
    BY <1>2, <2>1 DEF Calls, Paired
  <2> QED
    BY <2>2
<1>5. ASSUME NEW i \in DOMAIN g
      PROVE  /\ Sent(i) \in Message(F) /\ Sent(i).thinks \subseteq {"gemini"}
             /\ Sent(i).role = g[i].role /\ Sent(i).said = g[i].said
             /\ Sent(i).files = g[i].files /\ Sent(i).uses = g[i].uses
             /\ Sent(i).results = g[i].results /\ Sent(i).fromFile = g[i].fromFile
  <2>1. g[i] \in Message(F) /\ Speaks(g[i])
    BY <1>3
  <2>2. CASE g[i].role = "assistant"
    <3> DEFINE m == g[i]
               e == Sent(i)
    <3>1. m \in Message(F) /\ e = [m EXCEPT !.thinks = @ \cap {"gemini"}]
      BY <2>1, <2>2
    <3> HIDE DEF Sent, m, e
    <3>2. /\ e \in Message(F) /\ e.thinks \subseteq {"gemini"}
          /\ e.role = m.role /\ e.said = m.said /\ e.files = m.files /\ e.uses = m.uses
          /\ e.results = m.results /\ e.fromFile = m.fromFile
      BY <3>1 DEF Message
    <3> QED
      BY <3>2 DEF m, e
  <2>3. CASE g[i].role # "assistant" /\ i > 1
    <3>1. i - 1 \in DOMAIN g /\ (i - 1) + 1 = i
      BY <1>3, <2>3
    <3>2. g[i - 1].uses = g[i].results
      BY <1>2, <3>1 DEF Paired
    <3> DEFINE q == g[i - 1].uses
    <3>3. q \in Seq(Nat) /\ Sent(i) = [g[i] EXCEPT !.results = q]
      BY <1>3, <2>3, <3>1 DEF Message
    <3>4. q = g[i].results /\ g[i].thinks = {}
      BY <2>1, <2>3, <3>2 DEF Speaks
    <3> DEFINE m == g[i]
               e == Sent(i)
    <3> HIDE DEF q, Sent, m, e
    <3>5. /\ e \in Message(F)
          /\ e.role = m.role /\ e.said = m.said /\ e.files = m.files /\ e.uses = m.uses
          /\ e.results = q /\ e.thinks = m.thinks /\ e.fromFile = m.fromFile
      <4>1. m \in Message(F) /\ e = [m EXCEPT !.results = q]
        BY <2>1, <3>3 DEF m, e
      <4> QED
        BY <3>3, <4>1 DEF Message
    <3> QED
      BY <3>4, <3>5 DEF m, e
  <2>4. CASE g[i].role # "assistant" /\ ~(i > 1)
    <3>1. i = 1 /\ g # <<>>
      BY <1>3, <2>4
    <3>2. g[i].results = <<>> /\ g[i].thinks = {}
      BY <1>2, <2>1, <2>4, <3>1 DEF Opens, Speaks
    <3> DEFINE q == <<>>
    <3>3. q \in Seq(Nat) /\ q = g[i].results
      BY <3>2
    <3> DEFINE m == g[i]
               e == Sent(i)
    <3>4. m \in Message(F) /\ e = [m EXCEPT !.results = q]
      BY <2>1, <2>4 DEF Own
    <3> HIDE DEF q, Sent, m, e
    <3>5. /\ e \in Message(F)
          /\ e.role = m.role /\ e.said = m.said /\ e.files = m.files /\ e.uses = m.uses
          /\ e.results = q /\ e.thinks = m.thinks /\ e.fromFile = m.fromFile
      BY <3>3, <3>4 DEF Message
    <3> QED
      BY <3>2, <3>3, <3>5 DEF m, e
  <2> QED
    BY <2>2, <2>3, <2>4
<1> HIDE DEF Sent
<1>6. x \in Seq(Message(F)) /\ DOMAIN x = DOMAIN g
  <2>1. x \in [1..n -> Message(F)]
    BY <1>3, <1>5
  <2> HIDE DEF x
  <2> QED
    BY <1>3, <2>1, FunctionIsSeq
<1>7. ASSUME NEW i \in DOMAIN g PROVE x[i] = Sent(i)
  BY <1>3
<1> HIDE DEF x, last
<1>8. SameTalk(x, g)
  BY <1>5, <1>6, <1>7 DEF SameTalk
<1>9. Opens(x) /\ Paired(x) /\ \A i \in DOMAIN x : ~x[i].fromFile
  BY <1>2, <1>6, <1>8, SameTalkKeeps, Zenon
<1>10. \A i \in DOMAIN x : x[i].thinks \subseteq {"gemini"} /\ ~x[i].fromFile
  BY <1>5, <1>6, <1>7, <1>9
<1>11. GeminiWire(h) = NotEmpty(x)
  <2>1. x \o <<>> = x
    BY <1>6
  <2> QED
    BY <1>1, <1>4, <2>1
<1>12. NotEmpty(x) # <<>>
  BY <1>11
<1> QED
  BY <1>6, <1>9, <1>10, <1>11, <1>12, SentIsAccepted

LEMMA ItemsAccepted ==
  ASSUME NEW F, NEW h \in Seq(Message(F)), SpeaksAll(h), Opens(h), Paired(h),
         NEW who \in Kinds, NEW keep \in SUBSET {who}, ItemWire(h, keep) # <<>>
  PROVE  /\ Accepted(who, ItemWire(h, keep))
         /\ \A i \in DOMAIN ItemWire(h, keep) : ~ItemWire(h, keep)[i].fromFile
<1> DEFINE g == MergeSameRole(h)
           Sent(i) == IF g[i].role = "assistant"
                      THEN [g[i] EXCEPT !.thinks = @ \cap keep] ELSE Own(g[i])
           turns == [i \in DOMAIN g |-> Sent(i)]
           outs == [i \in DOMAIN g |-> Outputs(g[i].uses)]
           x == InTurn(turns, outs)
<1>1. ItemWire(h, keep) = NotEmpty(x)
  BY DEF ItemWire
<1>2. g \in Seq(Message(F)) /\ SpeaksAll(g) /\ Opens(g) /\ Paired(g)
  BY MergeKeeps
<1> HIDE DEF g
<1>3. /\ Len(g) \in Nat /\ DOMAIN g = 1..Len(g)
      /\ \A i \in DOMAIN g : g[i] \in Message(F) /\ Speaks(g[i])
  BY <1>2, ElementOfSeq DEF SpeaksAll
<1>4. ASSUME NEW i \in DOMAIN g
      PROVE  /\ Sent(i) \in Message(F) /\ Sent(i).thinks \subseteq {who}
             /\ Sent(i).role = g[i].role /\ Sent(i).said = g[i].said
             /\ Sent(i).files = g[i].files /\ Sent(i).uses = g[i].uses
             /\ Sent(i).results = <<>> /\ ~Sent(i).fromFile
  <2>1. g[i] \in Message(F) /\ Speaks(g[i])
    BY <1>3
  <2>2. CASE g[i].role = "assistant"
    <3> DEFINE m == g[i]
               e == Sent(i)
    <3>1. m \in Message(F) /\ e = [m EXCEPT !.thinks = @ \cap keep]
      BY <2>1, <2>2
    <3> HIDE DEF Sent, m, e
    <3>2. /\ e \in Message(F) /\ e.thinks \subseteq keep
          /\ e.role = m.role /\ e.said = m.said /\ e.files = m.files /\ e.uses = m.uses
          /\ e.results = m.results /\ e.fromFile = m.fromFile
      BY <3>1 DEF Message
    <3> QED
      BY <2>1, <2>2, <3>2 DEF m, e, Speaks
  <2>3. CASE g[i].role # "assistant"
    <3> DEFINE q == <<>>
    <3>1. q \in Seq(Nat) /\ q = <<>>
      OBVIOUS
    <3>2. g[i].thinks = {} /\ ~g[i].fromFile
      BY <2>1, <2>3 DEF Speaks
    <3> DEFINE m == g[i]
               e == Sent(i)
    <3>3. m \in Message(F) /\ e = [m EXCEPT !.results = q]
      BY <2>1, <2>3 DEF Own
    <3> HIDE DEF q, Sent, m, e
    <3>4. /\ e \in Message(F)
          /\ e.role = m.role /\ e.said = m.said /\ e.files = m.files /\ e.uses = m.uses
          /\ e.results = q /\ e.thinks = m.thinks /\ e.fromFile = m.fromFile
      BY <3>1, <3>3 DEF Message
    <3> QED
      BY <3>1, <3>2, <3>4 DEF m, e
  <2> QED
    BY <2>2, <2>3
<1>5. ASSUME NEW i \in DOMAIN g
      PROVE  /\ outs[i] \in Message(F) /\ outs[i].thinks = {} /\ ~outs[i].fromFile
             /\ outs[i].uses = <<>> /\ outs[i].results = g[i].uses
  <2> DEFINE q == g[i].uses
             m == [NoMessage EXCEPT !.role = "tool"]
  <2>1. q \in Seq(Nat)
    BY <1>3 DEF Message
  <2>2. m \in Message(F) /\ m.thinks = {} /\ ~m.fromFile /\ m.uses = <<>>
    <3>1. NoMessage \in Message(F)
      BY DEF NoMessage, Message
    <3>2. NoMessage.thinks = {} /\ ~NoMessage.fromFile /\ NoMessage.uses = <<>>
      BY DEF NoMessage
    <3> QED
      BY <3>1, <3>2 DEF Message
  <2>3. outs[i] = [m EXCEPT !.results = q]
    BY DEF Outputs, NoMessage
  <2> HIDE DEF outs, q, m
  <2>4. /\ outs[i] \in Message(F) /\ outs[i].results = q /\ outs[i].thinks = m.thinks
        /\ outs[i].fromFile = m.fromFile /\ outs[i].uses = m.uses
    <3> DEFINE e == outs[i]
    <3>1. e = [m EXCEPT !.results = q]
      BY <2>3
    <3> HIDE DEF e
    <3>2. e \in Message(F) /\ e.results = q /\ e.thinks = m.thinks
          /\ e.fromFile = m.fromFile /\ e.uses = m.uses
      BY <2>1, <2>2, <3>1 DEF Message
    <3> QED
      BY <3>2 DEF e
  <2> QED
    BY <2>2, <2>4 DEF q
<1> HIDE DEF Sent
<1>6. turns \in Seq(Message(F)) /\ Len(turns) = Len(g)
  <2>1. turns \in [1..Len(g) -> Message(F)]
    BY <1>3, <1>4
  <2> HIDE DEF turns
  <2> QED
    BY <1>3, <2>1, FunctionIsSeq
<1>7. outs \in Seq(Message(F)) /\ Len(outs) = Len(g)
  <2>1. outs \in [1..Len(g) -> Message(F)]
    BY <1>3, <1>5
  <2> HIDE DEF outs
  <2> QED
    BY <1>3, <2>1, FunctionIsSeq
<1>8. \A i \in DOMAIN g : turns[i] = Sent(i)
  OBVIOUS
<1> HIDE DEF turns, outs
<1>9. x \in Seq(Message(F)) /\ OneByOne(x, turns, outs)
  <2>1. Len(turns) = Len(outs)
    BY <1>6, <1>7
  <2> QED
    BY <1>6, <1>7, <2>1, InTurnIs, Zenon
<1> HIDE DEF x
<1>10. /\ \A i \in DOMAIN g : /\ 2 * i - 1 \in DOMAIN x /\ 2 * i \in DOMAIN x
                              /\ x[2 * i - 1] = Sent(i) /\ x[2 * i] = outs[i]
       /\ \A k \in DOMAIN x : \E i \in DOMAIN g : k = 2 * i - 1 \/ k = 2 * i
  BY <1>3, <1>6, <1>8, <1>9 DEF OneByOne
<1>11. Paired(x)
  <2> SUFFICES ASSUME NEW k \in DOMAIN x
               PROVE  /\ x[k].uses # <<>> => k + 1 \in DOMAIN x /\ x[k + 1].results = x[k].uses
                      /\ x[k].results # <<>> => k - 1 \in DOMAIN x /\ x[k - 1].uses = x[k].results
    BY DEF Paired
  <2>1. PICK i \in DOMAIN g : k = 2 * i - 1 \/ k = 2 * i
    BY <1>10
  <2>2. /\ 2 * i - 1 \in DOMAIN x /\ 2 * i \in DOMAIN x
        /\ x[2 * i - 1].uses = g[i].uses /\ x[2 * i - 1].results = <<>>
        /\ x[2 * i].uses = <<>> /\ x[2 * i].results = g[i].uses /\ i \in Int
    <3>1. /\ 2 * i - 1 \in DOMAIN x /\ 2 * i \in DOMAIN x
          /\ x[2 * i - 1] = Sent(i) /\ x[2 * i] = outs[i]
      BY <1>10
    <3>2. i \in Int
      BY <1>3
    <3>3. Sent(i).uses = g[i].uses /\ Sent(i).results = <<>>
      BY <1>4
    <3>4. outs[i].uses = <<>> /\ outs[i].results = g[i].uses
      BY <1>5
    <3> QED
      BY <3>1, <3>2, <3>3, <3>4
  <2>3. (2 * i - 1) + 1 = 2 * i
    BY <2>2
  <2> QED
    BY <2>1, <2>2, <2>3
<1>12. Opens(x)
  <2>1. SUFFICES ASSUME x # <<>>
                 PROVE x[1].role = "user" /\ x[1].results = <<>> /\ (x[1].said \/ x[1].files # {})
    BY DEF Opens
  <2>2. 1 \in DOMAIN x
    <3>1. DOMAIN x = 1..Len(x) /\ Len(x) \in Nat /\ Len(x) # 0
      BY <1>9, <2>1, EmptySeq
    <3> QED
      BY <3>1
  <2>3. 1 \in DOMAIN g /\ g # <<>>
    <3>1. PICK i \in DOMAIN g : TRUE
      BY <1>10, <2>2
    <3> QED
      BY <1>3, <3>1
  <2>4. x[1] = Sent(1)
    <3>1. x[2 * 1 - 1] = Sent(1) /\ 2 * 1 - 1 = 1
      BY <1>10, <2>3
    <3> QED
      BY <3>1
  <2> QED
    BY <1>2, <1>4, <2>3, <2>4 DEF Opens
<1>13. \A k \in DOMAIN x : x[k].thinks \subseteq {who} /\ ~x[k].fromFile
  <2> SUFFICES ASSUME NEW k \in DOMAIN x
               PROVE x[k].thinks \subseteq {who} /\ ~x[k].fromFile
    OBVIOUS
  <2>1. PICK i \in DOMAIN g : k = 2 * i - 1 \/ k = 2 * i
    BY <1>10
  <2>2. x[k] = Sent(i) \/ x[k] = outs[i]
    BY <1>10, <2>1
  <2> QED
    BY <1>4, <1>5, <2>2
<1>14. NotEmpty(x) # <<>>
  BY <1>1
<1> QED
  BY <1>1, <1>9, <1>11, <1>12, <1>13, <1>14, SentIsAccepted

LEMMA WireAccepted ==
  ASSUME NEW F, NEW h \in Seq(Message(F)), SpeaksAll(h), Opens(h), Paired(h),
         NEW who \in Kinds, Wire(who, h) # <<>>
  PROVE  /\ Accepted(who, Wire(who, h))
         /\ \A i \in DOMAIN Wire(who, h) : ~Wire(who, h)[i].fromFile
<1>1. CASE who = "anthropic"
  BY <1>1, AnthropicAccepted DEF Wire
<1>2. CASE who = "gemini"
  BY <1>2, GeminiAccepted DEF Wire
<1>3. CASE who = "openai"
  <2>1. Wire(who, h) = ItemWire(h, {"openai"}) /\ {"openai"} \in SUBSET {who}
    BY <1>3 DEF Wire, OpenAIWire
  <2> QED
    BY <2>1, ItemsAccepted
<1>4. CASE who = "compat"
  <2>1. Wire(who, h) = ItemWire(h, {}) /\ {} \in SUBSET {who}
    BY <1>4 DEF Wire, CompatWire
  <2> QED
    BY <2>1, ItemsAccepted
<1> QED
  BY <1>1, <1>2, <1>3, <1>4 DEF Kinds

-----------------------------------------------------------------------------
(***************************************************************************)
(* A conversation as the app stores it.                                    *)
(***************************************************************************)

\* A message of this app: its results are all that it holds.
Talks(m) ==
  /\ m \in Message(Files) /\ Speaks(m) /\ Numbered(m)
  /\ m.results # <<>> => ~m.said /\ m.files = {}

IsAsk(m) == m.role = "user" /\ m.results = <<>> /\ (m.said \/ m.files # {})

\* What is not a prompt follows a message of this app, and results follow calls.
Follows(m, prior) == ~prior.imported /\ (m.results # <<>> => prior.m.uses # <<>>)

TalkOK ==
  /\ \A i \in DOMAIN rows :
       /\ rows[i].imported \in BOOLEAN
       /\ ~rows[i].imported => Talks(rows[i].m)
  /\ \A i \in DOMAIN rows :
       ~rows[i].imported /\ ~IsAsk(rows[i].m) =>
         i - 1 \in DOMAIN rows /\ Follows(rows[i].m, rows[i - 1])

LastOwn == rows # <<>> /\ ~rows[Len(rows)].imported

\* What a provider's stream may have cut off and still runs.
CutRuns(k) == IF k = "compat" THEN {"none"} ELSE {}

\* A run goes on from a message of this app, and its results answer the calls
\* of the last one.
TurnOK ==
  /\ kind \in Kinds
  /\ run # NoRun \/ status = "paused" \/ op.at = "create" => LastOwn
  /\ op.what = "retry" => \A i \in DOMAIN rows : rows[i].id = op.row => ~rows[i].imported
  /\ run.at \in {"calls", "results"} =>
       rows[Len(rows)].m.uses # <<>> /\ turn.calls \in Nat \ {0}
  /\ run.at = "calls" => turn.cut \subseteq CutRuns(kind)

SentOK ==
  /\ request # <<>> => run.at = "stream"
  /\ RequestIsAccepted

TalkInv == TalkOK /\ TurnOK /\ SentOK

\* The messages of this app, in their order.
LEMMA OwnMessages ==
  ASSUME RowsOK, TalkOK
  PROVE  LET h == Messages(FALSE)
         IN  /\ h \in Seq(Message(Files)) /\ SpeaksAll(h) /\ Opens(h) /\ ResultsFollow(h)
             /\ \A i \in DOMAIN h : Numbered(h[i])
<1> DEFINE S == {i \in DOMAIN rows : rows[i].imported = FALSE}
           of == Chosen(rows, S)
           h == [k \in DOMAIN of |-> of[k].m]
<1>1. Messages(FALSE) = h
  BY DEF Messages
<1>2. rows \in Seq(ToSet(rows)) /\ S \in SUBSET DOMAIN rows
  BY DEF RowsOK
<1>3. \A i \in DOMAIN rows : i \in S <=> ~rows[i].imported
  BY DEF TalkOK
<1>4. \A i \in S : i \in DOMAIN rows /\ Talks(rows[i].m)
  BY <1>3 DEF TalkOK
<1>5. \A i \in S : ~IsAsk(rows[i].m) =>
        i - 1 \in S /\ (rows[i].m.results # <<>> => rows[i - 1].m.uses # <<>>)
  BY <1>3 DEF TalkOK, Follows
<1>6. S \subseteq Int
  BY <1>2, LenProperties
<1> HIDE DEF S, of
<1>7. /\ Len(of) \in Nat /\ DOMAIN of = 1..Len(of)
      /\ \E a : TurnPlaces(a, of, rows, S)
  <2>1. S \in SUBSET DOMAIN rows
    BY <1>2
  <2> QED
    BY <1>2, <2>1, ChosenPlaces, Zenon DEF of
<1>8. PICK a : TurnPlaces(a, of, rows, S)
  BY <1>7
<1>9. ASSUME NEW k \in DOMAIN of
      PROVE  a[k] \in S /\ h[k] = rows[a[k]].m /\ Talks(h[k])
  BY <1>4, <1>8 DEF TurnPlaces
<1>10. h \in Seq(Message(Files)) /\ DOMAIN h = DOMAIN of
  <2>1. h \in [1..Len(of) -> Message(Files)]
    BY <1>7, <1>9 DEF Talks
  <2> HIDE DEF h
  <2> QED
    BY <1>7, <2>1, FunctionIsSeq
<1> HIDE DEF h
<1>11. ASSUME NEW k \in DOMAIN of, ~IsAsk(h[k])
       PROVE  k - 1 \in DOMAIN of /\ (h[k].results # <<>> => h[k - 1].uses # <<>>)
  <2>1. a[k] \in S /\ h[k] = rows[a[k]].m
    BY <1>9
  <2>2. a[k] - 1 \in S /\ (h[k].results # <<>> => rows[a[k] - 1].m.uses # <<>>)
    BY <1>5, <1>11, <2>1
  <2>3. k - 1 \in DOMAIN of /\ a[k - 1] = a[k] - 1
    BY <1>8, <2>2 DEF TurnPlaces
  <2>4. h[k - 1] = rows[a[k] - 1].m
    BY <1>9, <2>3
  <2> QED
    BY <2>2, <2>3, <2>4
<1>12. Opens(h)
  <2>1. SUFFICES ASSUME h # <<>>
                 PROVE h[1].role = "user" /\ h[1].results = <<>> /\ (h[1].said \/ h[1].files # {})
    BY DEF Opens
  <2>2. 1 \in DOMAIN of
    <3>1. DOMAIN h = 1..Len(h) /\ Len(h) \in Nat /\ Len(h) # 0
      BY <1>10, <2>1, EmptySeq
    <3> QED
      BY <1>10, <3>1
  <2>3. 1 - 1 \notin DOMAIN of
    BY <1>7
  <2>4. IsAsk(h[1])
    BY <1>11, <2>2, <2>3
  <2> QED
    BY <2>4 DEF IsAsk
<1>13. ResultsFollow(h)
  <2> SUFFICES ASSUME NEW k \in DOMAIN h, h[k].results # <<>>
               PROVE k - 1 \in DOMAIN h /\ h[k - 1].uses # <<>>
    BY DEF ResultsFollow
  <2>1. ~IsAsk(h[k])
    BY DEF IsAsk
  <2> QED
    BY <1>10, <1>11, <2>1
<1>14. SpeaksAll(h) /\ \A k \in DOMAIN h : Numbered(h[k])
  BY <1>9, <1>10 DEF Talks, SpeaksAll
<1> QED
  BY <1>1, <1>10, <1>12, <1>13, <1>14

\* What a run sends its provider takes.
LEMMA SentHistory ==
  ASSUME RowsOK, TalkOK, kind \in Kinds, Wire(kind, History) # <<>>
  PROVE  /\ Accepted(kind, Wire(kind, History))
         /\ \A i \in DOMAIN Wire(kind, History) : ~Wire(kind, History)[i].fromFile
<1> DEFINE own == Messages(FALSE)
           imported == Messages(TRUE)
           h == FoldImported(own, imported)
           g == RepairHistory(h)
           s == SendFiles(g, Reads(kind))
<1>1. History = s
  BY DEF History
<1>2. /\ own \in Seq(Message(Files)) /\ SpeaksAll(own) /\ Opens(own) /\ ResultsFollow(own)
      /\ \A i \in DOMAIN own : Numbered(own[i])
  BY OwnMessages
<1> HIDE DEF own, imported
<1>3. /\ h \in Seq(Message(Files)) /\ SpeaksAll(h) /\ Opens(h) /\ ResultsFollow(h)
      /\ \A i \in DOMAIN h : Numbered(h[i])
  BY <1>2, FoldKeeps
<1> HIDE DEF h
<1>4. g \in Seq(Message(Files)) /\ SpeaksAll(g) /\ Opens(g) /\ Paired(g)
  BY <1>3, RepairAnswers
<1> HIDE DEF g
<1>5. s \in Seq(Message(Files)) /\ SpeaksAll(s) /\ Opens(s) /\ Paired(s)
  BY <1>4, SendKeeps
<1> HIDE DEF s
<1>6. Wire(kind, s) # <<>>
  BY <1>1
<1>7. /\ Accepted(kind, Wire(kind, s))
      /\ \A i \in DOMAIN Wire(kind, s) : ~Wire(kind, s)[i].fromFile
  BY <1>5, <1>6, WireAccepted
<1> QED
  BY <1>1, <1>7

-----------------------------------------------------------------------------
(* A turn as the model ends it.                                            *)

Blocks == FullBlocks \cup CutBlocks

LEMMA ScriptBlocks ==
  ASSUME NEW bs \in Complete \cup CutOff
  PROVE  bs \in Seq(Blocks)
<1>1. \/ bs = <<>>
      \/ \E b \in Blocks : bs = <<b>>
      \/ \E b, c \in Blocks : bs = <<b, c>>
  BY DEF Complete, CutOff, Blocks
<1>2. CASE bs = <<>>
  BY <1>2
<1>3. ASSUME NEW b \in Blocks, bs = <<b>> PROVE bs \in Seq(Blocks)
  BY <1>3
<1>4. ASSUME NEW b \in Blocks, NEW c \in Blocks, bs = <<b, c>> PROVE bs \in Seq(Blocks)
  BY <1>4
<1> QED
  BY <1>1, <1>2, <1>3, <1>4

\* The calls of a turn: a sequence, and what of those cut off can run.
CallsAre(calls, cut) ==
  /\ \E n \in Nat : DOMAIN calls = 1..n /\ Len(calls) = n
  /\ \A i \in DOMAIN calls : calls[i].cut /\ ~calls[i].err => calls[i].args \in cut

LEMMA KeptCalls ==
  ASSUME NEW bs \in Seq(Blocks), NEW S \in SUBSET DOMAIN bs, NEW cut, NEW calls,
         calls = [i \in DOMAIN Chosen(bs, S) |-> calls[i]],
         \A i \in DOMAIN Chosen(bs, S), j \in S :
           Chosen(bs, S)[i] = bs[j] =>
             (calls[i].cut /\ ~calls[i].err => calls[i].args \in cut)
  PROVE  CallsAre(calls, cut)
<1> DEFINE kept == Chosen(bs, S)
           n == Len(kept)
<1>1. /\ kept \in Seq(Blocks) /\ n \in Nat
      /\ \A i \in DOMAIN kept : \E j \in S : kept[i] = bs[j]
  BY ChosenIs
<1>2. DOMAIN kept = 1..n
  <2> HIDE DEF kept
  <2> QED
    BY <1>1, LenProperties
<1>3. \A i \in DOMAIN kept : calls[i].cut /\ ~calls[i].err => calls[i].args \in cut
  BY <1>1
<1>4. DOMAIN calls = DOMAIN kept
  OBVIOUS
<1> HIDE DEF kept, n
<1>5. Len(calls) = n
  BY <1>1, <1>2, <1>4
<1> QED
  BY <1>1, <1>2, <1>3, <1>4, <1>5 DEF CallsAre

LEMMA FinishedCalls ==
  ASSUME NEW bs \in Seq(Blocks), NEW reason, NEW cut
  PROVE  CallsAre(CallsOf(bs, reason, FinishedCall, FinishedCall), cut)
<1> DEFINE S == {i \in DOMAIN bs : bs[i].is = "use" /\ (reason = "max_tokens" => FinishedCall(bs[i]))}
           kept == Chosen(bs, S)
           calls == [i \in DOMAIN kept |-> CallOf(kept[i], FinishedCall(kept[i]))]
<1>1. CallsOf(bs, reason, FinishedCall, FinishedCall) = calls
  BY DEF CallsOf
<1>2. S \in SUBSET DOMAIN bs
  OBVIOUS
<1>3. \A i \in DOMAIN kept : ~(calls[i].cut /\ ~calls[i].err)
  BY DEF CallOf, FinishedCall
<1>4. calls = [i \in DOMAIN kept |-> calls[i]]
  OBVIOUS
<1> HIDE DEF S, calls
<1>5. CallsAre(calls, cut)
  BY <1>2, <1>3, <1>4, KeptCalls
<1> QED
  BY <1>1, <1>5

LEMMA ReadableCalls ==
  ASSUME NEW bs \in Seq(Blocks), NEW reason
  PROVE  CallsAre(CallsOf(bs, reason, ReadableCall, ReadableCall), {"none"})
<1> DEFINE S == {i \in DOMAIN bs : bs[i].is = "use" /\ (reason = "max_tokens" => ReadableCall(bs[i]))}
           kept == Chosen(bs, S)
           calls == [i \in DOMAIN kept |-> CallOf(kept[i], ReadableCall(kept[i]))]
<1>1. CallsOf(bs, reason, ReadableCall, ReadableCall) = calls
  BY DEF CallsOf
<1>2. S \in SUBSET DOMAIN bs
  OBVIOUS
<1>3. \A i \in DOMAIN kept : calls[i].cut /\ ~calls[i].err => calls[i].args \in {"none"}
  BY DEF CallOf, ReadableCall
<1>4. calls = [i \in DOMAIN kept |-> calls[i]]
  OBVIOUS
<1> HIDE DEF S, calls
<1>5. CallsAre(calls, {"none"})
  BY <1>2, <1>3, <1>4, KeptCalls
<1> QED
  BY <1>1, <1>5

LEMMA WholeCalls ==
  ASSUME NEW bs \in Seq(Blocks), NEW cut,
         \A i \in DOMAIN bs : bs[i].is = "use" => bs[i].done
  PROVE  LET uses == Chosen(bs, {i \in DOMAIN bs : bs[i].is = "use"})
         IN  CallsAre([i \in DOMAIN uses |-> CallOf(uses[i], TRUE)], cut)
<1> DEFINE S == {i \in DOMAIN bs : bs[i].is = "use"}
           uses == Chosen(bs, S)
           calls == [i \in DOMAIN uses |-> CallOf(uses[i], TRUE)]
<1>1. S \in SUBSET DOMAIN bs /\ \A j \in S : bs[j].done
  OBVIOUS
<1>2. \A i \in DOMAIN uses : calls[i].cut => ~uses[i].done
  BY DEF CallOf
<1>3. calls = [i \in DOMAIN uses |-> calls[i]]
  OBVIOUS
<1> HIDE DEF S, calls
<1>4. \A i \in DOMAIN uses, j \in S : uses[i] = bs[j] => ~calls[i].cut
  BY <1>1, <1>2
<1>5. CallsAre(calls, cut)
  BY <1>1, <1>3, <1>4, KeptCalls
<1> QED
  BY <1>5 DEF calls, S

\* What the model's stop leaves of a turn, from any provider.
StopIs(o, k) == o.said \in BOOLEAN /\ o.thinks \subseteq Kinds /\ CallsAre(o.calls, CutRuns(k))

LEMMA AnthropicStops ==
  ASSUME NEW o \in AnthropicScripts
  PROVE  StopIs(o, "anthropic")
<1>1. PICK bs \in Complete \cup CutOff, r \in {"end_turn", "tool_use", "pause_turn", "refusal", "max_tokens"} :
        o = AnthropicTurn(bs, r)
  BY DEF AnthropicScripts
<1>2. bs \in Seq(Blocks)
  BY ScriptBlocks
<1> DEFINE calls == CallsOf(bs, r, FinishedCall, FinishedCall)
<1>3. CallsAre(calls, {})
  BY <1>2, FinishedCalls
<1> HIDE DEF calls
<1>4. o.said \in BOOLEAN /\ o.thinks \subseteq {"anthropic"} /\ o.calls = calls
  BY <1>1 DEF AnthropicTurn, Turn, Has, calls
<1> QED
  BY <1>3, <1>4 DEF StopIs, CutRuns, Kinds

LEMMA OpenAIStops ==
  ASSUME NEW o \in OpenAIScripts
  PROVE  StopIs(o, "openai")
<1>1. PICK bs \in Complete \cup CutOff, r \in {"end_turn", "refused", "max_tokens"} :
        o = OpenAITurn(bs, r)
  BY DEF OpenAIScripts
<1>2. bs \in Seq(Blocks)
  BY ScriptBlocks
<1> DEFINE tool == Has(bs, "use")
           why == CASE r = "end_turn" /\ tool -> "tool_use"
                    [] r = "refused" -> IF tool THEN "tool_use" ELSE "refusal"
                    [] OTHER -> r
           calls == CallsOf(bs, why, FinishedCall, FinishedCall)
<1>3. CallsAre(calls, {})
  BY <1>2, FinishedCalls
<1>4. /\ o.said = (Has(bs, "text") \/ r = "refused") /\ o.calls = calls
      /\ o.thinks \subseteq {"openai"}
  <2> HIDE DEF calls
  <2>1. o = Turn(why, Has(bs, "text") \/ r = "refused",
                 IF \E i \in DOMAIN bs : bs[i].is = "think" /\ bs[i].done THEN {"openai"} ELSE {},
                 calls)
    BY <1>1 DEF OpenAITurn, calls
  <2> HIDE DEF why
  <2> QED
    BY <2>1 DEF Turn
<1> HIDE DEF calls
<1>5. o.said \in BOOLEAN
  BY <1>4 DEF Has
<1> QED
  BY <1>3, <1>4, <1>5 DEF StopIs, CutRuns, Kinds

LEMMA CompatStops ==
  ASSUME NEW o \in CompatScripts
  PROVE  StopIs(o, "compat")
<1>1. PICK bs \in Complete \cup CutOff, r \in {"end_turn", "tool_use", "refusal", "max_tokens"} :
        o = CompatTurn(bs, r)
  BY DEF CompatScripts
<1>2. bs \in Seq(Blocks)
  BY ScriptBlocks
<1> DEFINE calls == CallsOf(bs, r, ReadableCall, ReadableCall)
<1>3. CallsAre(calls, {"none"})
  BY <1>2, ReadableCalls
<1> HIDE DEF calls
<1>4. o.said \in BOOLEAN /\ o.thinks = {} /\ o.calls = calls
  BY <1>1 DEF CompatTurn, Turn, Has, calls
<1> QED
  BY <1>3, <1>4 DEF StopIs, CutRuns

LEMMA GeminiStops ==
  ASSUME NEW o \in GeminiScripts, o.ends = "stop"
  PROVE  StopIs(o, "gemini")
<1>1. PICK bs \in Complete \cup CutOff, r \in {"end_turn", "max_tokens", "refusal", "malformed"} :
        /\ \A i \in DOMAIN bs : bs[i].is = "use" => bs[i].done
        /\ o = GeminiTurn(bs, r)
  BY DEF GeminiScripts
<1>2. bs \in Seq(Blocks)
  BY ScriptBlocks
<1> DEFINE uses == Chosen(bs, {i \in DOMAIN bs : bs[i].is = "use"})
           calls == [i \in DOMAIN uses |-> CallOf(uses[i], TRUE)]
           why == IF r = "end_turn" /\ Has(bs, "use") THEN "tool_use" ELSE r
           thinks == IF Has(bs, "think") THEN {"gemini"} ELSE {}
<1>3. CallsAre(calls, {})
  BY <1>1, <1>2, WholeCalls
<1>4. r # "malformed"
  BY <1>1 DEF GeminiTurn, Failed
<1>5. o = Turn(why, Has(bs, "text"), thinks, calls)
  BY <1>1, <1>4 DEF GeminiTurn
<1> HIDE DEF calls, why, thinks
<1>6. o.said = Has(bs, "text") /\ o.thinks = thinks /\ o.calls = calls
  BY <1>5 DEF Turn
<1>7. o.said \in BOOLEAN /\ o.thinks \subseteq {"gemini"}
  BY <1>6 DEF Has, thinks
<1> QED
  BY <1>3, <1>6, <1>7 DEF StopIs, CutRuns, Kinds

LEMMA OutcomeIs ==
  ASSUME NEW k \in Kinds, NEW o \in Outcomes[k], o.ends = "stop"
  PROVE  StopIs(o, k)
<1>1. o \in Scripts(k) \cup Broken
  BY DEF Outcomes
<1>2. o \in Scripts(k)
  BY <1>1 DEF Broken, Failed
<1> QED
  BY <1>2, AnthropicStops, OpenAIStops, CompatStops, GeminiStops DEF Scripts, Kinds

-----------------------------------------------------------------------------
(* Each step keeps it.                                                     *)

LEMMA InitTalk == Init => TalkInv
<1> SUFFICES ASSUME Init PROVE TalkInv
  OBVIOUS
<1>1. \A i \in DOMAIN rows : rows[i].imported = TRUE
  BY DEF Init, Imported, Row
<1>2. TalkOK
  BY <1>1 DEF TalkOK
<1>3. TurnOK /\ SentOK
  BY DEF Init, TurnOK, SentOK, RequestIsAccepted, NoOp, NoRun
<1> QED
  BY <1>2, <1>3 DEF TalkInv

LEMMA SameRows ==
  ASSUME TalkOK, rows' = rows
  PROVE  TalkOK' /\ (LastOwn => LastOwn')
BY DEF TalkOK, LastOwn

LEMMA StoredTalk ==
  ASSUME RowsOK, TalkOK, NEW m, Talks(m), Stored(m),
         \/ IsAsk(m)
         \/ LastOwn /\ (m.results # <<>> => rows[Len(rows)].m.uses # <<>>)
  PROVE  TalkOK' /\ LastOwn' /\ rows'[Len(rows')].m = m
<1> DEFINE e == Row(made + 1, FALSE, m)
           n == Len(rows)
<1>1. rows' = Append(rows, e) /\ rows \in Seq(ToSet(rows))
  BY DEF Stored, RowsOK
<1>2. e.imported = FALSE /\ e.m = m
  BY DEF Row
<1> HIDE DEF e
<1>3. /\ DOMAIN rows = 1..n /\ n \in Nat /\ Len(rows') = n + 1
      /\ DOMAIN rows' = 1..(n + 1)
      /\ \A i \in DOMAIN rows : rows'[i] = rows[i]
      /\ rows'[n + 1] = e
  BY <1>1, AppendIs
<1> HIDE DEF n
<1>4. \A i \in DOMAIN rows' : i \in DOMAIN rows \/ i = n + 1
  BY <1>3
<1>5. \A i \in DOMAIN rows' :
        rows'[i].imported \in BOOLEAN /\ (~rows'[i].imported => Talks(rows'[i].m))
  BY <1>2, <1>3, <1>4 DEF TalkOK
<1>6. ASSUME NEW i \in DOMAIN rows', ~rows'[i].imported, ~IsAsk(rows'[i].m)
      PROVE  i - 1 \in DOMAIN rows' /\ Follows(rows'[i].m, rows'[i - 1])
  <2>1. CASE i \in DOMAIN rows
    <3>1. rows'[i] = rows[i]
      BY <1>3, <2>1
    <3>2. i - 1 \in DOMAIN rows /\ Follows(rows[i].m, rows[i - 1])
      BY <1>6, <2>1, <3>1 DEF TalkOK
    <3>3. i - 1 \in DOMAIN rows' /\ rows'[i - 1] = rows[i - 1]
      BY <1>3, <3>2
    <3> QED
      BY <3>1, <3>2, <3>3
  <2>2. CASE i = n + 1
    <3>1. rows'[i].m = m
      BY <1>2, <1>3, <2>2
    <3>2. LastOwn /\ (m.results # <<>> => rows[n].m.uses # <<>>)
      BY <1>6, <3>1 DEF n
    <3>3. n \in DOMAIN rows /\ ~rows[n].imported
      <4>1. n # 0
        BY <1>1, <3>2, EmptySeq DEF LastOwn, n
      <4>2. ~rows[n].imported
        BY <3>2 DEF LastOwn, n
      <4> QED
        BY <1>3, <4>1, <4>2
    <3>4. i - 1 = n /\ n \in DOMAIN rows' /\ rows'[n] = rows[n]
      BY <1>3, <2>2, <3>3
    <3> QED
      BY <3>1, <3>2, <3>3, <3>4 DEF Follows
  <2> QED
    BY <1>4, <2>1, <2>2
<1>7. TalkOK'
  BY <1>5, <1>6 DEF TalkOK
<1>8. rows' # <<>>
  BY <1>3
<1> QED
  BY <1>2, <1>3, <1>7, <1>8 DEF LastOwn

LEMMA DeletedTalk ==
  ASSUME RowsOK, TalkOK, NEW a \in 1..(Len(rows) + 1), NEW b \in (a - 1)..Len(rows),
         b = Len(rows) \/ IsPrompt(b + 1),
         DOMAIN rows' = 1..Len(rows'), Len(rows') = Len(rows) - (b + 1 - a),
         \A i \in DOMAIN rows' : rows'[i] = IF i < a THEN rows[i] ELSE rows[i + (b + 1 - a)]
  PROVE  TalkOK'
<1> DEFINE d == b + 1 - a
           n == Len(rows)
<1>1. DOMAIN rows = 1..n /\ n \in Nat /\ a \in Int /\ b \in Int /\ d \in Int
  BY LenProperties DEF RowsOK
<1>2. a \in 1..(n + 1) /\ b \in (a - 1)..n /\ (b = n \/ IsPrompt(b + 1))
      /\ DOMAIN rows' = 1..(n - d)
      /\ \A i \in DOMAIN rows' : rows'[i] = IF i < a THEN rows[i] ELSE rows[i + d]
  OBVIOUS
<1> HIDE DEF n
<1>3. ASSUME NEW i \in DOMAIN rows'
      PROVE  \/ i < a /\ i \in DOMAIN rows /\ rows'[i] = rows[i]
             \/ ~(i < a) /\ i + d \in DOMAIN rows /\ rows'[i] = rows[i + d]
  BY <1>1, <1>2
<1>4. \A i \in DOMAIN rows' :
        rows'[i].imported \in BOOLEAN /\ (~rows'[i].imported => Talks(rows'[i].m))
  BY <1>3 DEF TalkOK
<1>5. ASSUME NEW i \in DOMAIN rows', ~rows'[i].imported, ~IsAsk(rows'[i].m)
      PROVE  i - 1 \in DOMAIN rows' /\ Follows(rows'[i].m, rows'[i - 1])
  <2>1. CASE i < a
    <3>1. i \in DOMAIN rows /\ rows'[i] = rows[i]
      BY <1>3, <2>1
    <3>2. i - 1 \in DOMAIN rows /\ Follows(rows[i].m, rows[i - 1])
      BY <1>5, <3>1 DEF TalkOK
    <3>3. i - 1 \in DOMAIN rows' /\ i - 1 < a
      BY <1>1, <1>2, <2>1, <3>2
    <3>4. rows'[i - 1] = rows[i - 1]
      BY <1>2, <3>3
    <3> QED
      BY <3>1, <3>2, <3>3, <3>4
  <2>2. CASE ~(i < a)
    <3> DEFINE k == i + d
    <3>1. k \in DOMAIN rows /\ rows'[i] = rows[k]
      BY <1>3, <2>2
    <3>2. k - 1 \in DOMAIN rows /\ Follows(rows[k].m, rows[k - 1])
      <4>1. ~rows[k].imported /\ ~IsAsk(rows[k].m)
        BY <1>5, <3>1
      <4> HIDE DEF k
      <4> QED
        BY <3>1, <4>1 DEF TalkOK
    <3>3. k # b + 1
      <4>1. SUFFICES ASSUME k = b + 1 PROVE FALSE
        OBVIOUS
      <4>2. IsPrompt(k)
        BY <1>1, <1>2, <3>1, <4>1
      <4>3. Talks(rows[k].m) /\ ~IsAsk(rows[k].m)
        BY <1>5, <3>1 DEF TalkOK
      <4> HIDE DEF k
      <4> QED
        BY <4>2, <4>3 DEF IsPrompt, Talks, IsAsk
    <3>4. i - 1 \in DOMAIN rows' /\ ~(i - 1 < a) /\ (i - 1) + d = k - 1
      <4>1. i \in Int /\ i \in 1..(n - d) /\ a >= 1
        BY <1>1, <1>2
      <4>2. i # a
        BY <1>1, <3>3, <4>1
      <4>3. i - 1 >= a /\ (i - 1) + d = k - 1
        BY <1>1, <2>2, <4>1, <4>2
      <4>4. i - 1 \in 1..(n - d)
        <5> HIDE DEF d
        <5> QED
          BY <1>1, <4>1, <4>3
      <4> QED
        BY <1>2, <4>1, <4>3, <4>4
    <3>5. rows'[i - 1] = rows[k - 1]
      BY <1>2, <3>4
    <3> QED
      BY <3>1, <3>2, <3>4, <3>5
  <2> QED
    BY <2>1, <2>2
<1> QED
  BY <1>4, <1>5 DEF TalkOK

\* What follows an exchange is a prompt.
LEMMA AfterEnd ==
  ASSUME RowsOK, NEW i \in DOMAIN rows
  PROVE  EndOf(i) = Len(rows) \/ IsPrompt(EndOf(i) + 1)
<1> DEFINE S == {j \in (i + 1)..Len(rows) : IsPrompt(j)} \cup {Len(rows) + 1}
<1>1. DOMAIN rows = 1..Len(rows) /\ Len(rows) \in Nat
  BY LenProperties DEF RowsOK
<1>2. S \in SUBSET Nat /\ S # {}
  BY <1>1
<1>3. Min(S) \in S /\ Min(S) \in Nat
  <2> HIDE DEF S
  <2> QED
    BY <1>2, MinIsThere
<1>4. EndOf(i) = Min(S) - 1
  BY DEF EndOf
<1>5. Min(S) = Len(rows) + 1 \/ IsPrompt(Min(S))
  BY <1>3
<1> HIDE DEF S
<1> QED
  BY <1>1, <1>3, <1>4, <1>5

LEMMA PlainMessage ==
  /\ NoMessage \in Message(Files)
  /\ NoMessage.role = "user" /\ ~NoMessage.said /\ NoMessage.thinks = {} /\ NoMessage.files = {}
  /\ NoMessage.uses = <<>> /\ NoMessage.results = <<>> /\ ~NoMessage.fromFile
BY DEF NoMessage, Message

\* Calls that leave the messages and the run.
LEMMA ComposerTalk ==
  ASSUME ConvInv, TalkInv,
         \/ UNCHANGED vars
         \/ \E f \in Files : AddAttachment(f) \/ RemoveAttachment(f)
         \/ \E u \in Callers, fs \in SUBSET Files : Send(u, fs)
         \/ OpFails
  PROVE  TalkInv'
<1>1. UNCHANGED <<rows, status, kind, runVars>> /\ (op' = op \/ op' = NoOp)
  BY DEF AddAttachment, RemoveAttachment, Send, OpFails, stored, vars
<1>2. UNCHANGED <<rows, status, kind, run, turn, request, ranCut>>
  BY <1>1 DEF runVars
<1>3. op'.at = "create" => op.at = "create"
  BY <1>1 DEF NoOp
<1>4. op'.what = "retry" => op' = op
  BY <1>1 DEF NoOp
<1>5. TalkOK' /\ TurnOK' /\ SentOK'
  BY <1>2, <1>3, <1>4
     DEF TalkInv, TalkOK, TurnOK, SentOK, LastOwn, RequestIsAccepted
<1> QED
  BY <1>5 DEF TalkInv

LEMMA BeginsTalk ==
  ASSUME ConvInv, TalkInv,
         \/ \E u \in Callers : StartParts(u)
         \/ \E i \in DOMAIN rows : BeginDelete(i) \/ BeginRewind(i)
         \/ BeginRetry
  PROVE  TalkInv'
<1>1. UNCHANGED <<rows, status, kind, run, turn, request, ranCut>>
  BY DEF StartParts, BeginDelete, BeginRewind, BeginRetry, stored, runVars
<1>2. /\ op'.at = "create" => op' = op
      /\ \/ op' = op
         \/ op'.what = "retry" =>
              \E i \in DOMAIN rows : ~rows[i].imported /\ op'.row = rows[i].id
  <2>1. ASSUME NEW u \in Callers, StartParts(u)
        PROVE  op' = op \/ (op'.what # "retry" /\ op'.at # "create")
    BY <2>1 DEF StartParts, Begins
  <2>2. ASSUME NEW i \in DOMAIN rows, BeginDelete(i)
        PROVE  op'.what # "retry" /\ op'.at # "create"
    BY <2>2 DEF BeginDelete, Begins
  <2>3. ASSUME NEW i \in DOMAIN rows, BeginRewind(i)
        PROVE  op'.what # "retry" /\ op'.at # "create"
    BY <2>3 DEF BeginRewind, Begins
  <2>4. ASSUME NEW i \in DOMAIN rows, ~rows[i].imported, Begins("retry", "abandon", rows[i].id, {})
        PROVE  op'.at # "create" /\ op'.row = rows[i].id
    BY <2>4 DEF Begins
  <2> QED
    BY <2>1, <2>2, <2>3, <2>4 DEF BeginRetry
<1>4. op'.what = "retry" => \A i \in DOMAIN rows : rows[i].id = op'.row => ~rows[i].imported
  <2>1. CASE op' = op
    BY <2>1 DEF TalkInv, TurnOK
  <2>2. ASSUME op'.what = "retry", NEW i \in DOMAIN rows, ~rows[i].imported, op'.row = rows[i].id,
               NEW j \in DOMAIN rows, rows[j].id = op'.row
        PROVE  ~rows[j].imported
    <3>1. j = i
      BY <2>2 DEF ConvInv, RowsOK
    <3> QED
      BY <2>2, <3>1
  <2> QED
    BY <1>2, <2>1, <2>2
<1>5. TalkOK' /\ TurnOK' /\ SentOK'
  BY <1>1, <1>2, <1>4
     DEF TalkInv, TalkOK, TurnOK, SentOK, LastOwn, RequestIsAccepted
<1> QED
  BY <1>5 DEF TalkInv

LEMMA OpStepsTalk ==
  ASSUME ConvInv, TalkInv,
         Abandon \/ CreateRun \/ Continue \/ \E k \in Kinds : SetProvider(k)
  PROVE  TalkInv'
<1>1. UNCHANGED <<rows, turn, request, ranCut>>
  BY DEF Abandon, CreateRun, Continue, SetProvider, stored, runVars
<1>2. run = NoRun /\ run.at = "off" /\ request = <<>>
  <2>1. run = NoRun
    BY DEF Abandon, CreateRun, Continue, SetProvider, Idle, ConvInv, RunOK, NoOp
  <2> QED
    BY <2>1 DEF NoRun, TalkInv, SentOK
<1>3. TalkOK' /\ (LastOwn => LastOwn')
  BY <1>1, SameRows DEF TalkInv
<1>4. SentOK'
  BY <1>1, <1>2 DEF TalkInv, SentOK, RequestIsAccepted
<1>5. CASE Abandon
  <2>1. /\ UNCHANGED <<run, kind>> /\ status' # "paused" /\ op'.at # "create"
        /\ op'.what = op.what /\ op'.row = op.row
    BY <1>5 DEF Abandon, AbandonPausedRuns, Goes, runVars, ConvInv, OpOK
  <2> QED
    BY <1>1, <1>2, <1>3, <1>4, <2>1 DEF TalkInv, TurnOK
<1>6. CASE CreateRun
  <2>1. LastOwn /\ run'.at = "loop" /\ op' = NoOp /\ kind' = kind
    BY <1>6 DEF CreateRun, Launch, NoRun, TalkInv, TurnOK
  <2> QED
    BY <1>1, <1>3, <1>4, <2>1 DEF TalkInv, TurnOK, NoOp
<1>7. CASE Continue
  <2>1. LastOwn /\ run'.at = "loop" /\ op' = NoOp /\ kind' = kind
    BY <1>7 DEF Continue, Launch, NoRun, TalkInv, TurnOK
  <2> QED
    BY <1>1, <1>3, <1>4, <2>1 DEF TalkInv, TurnOK, NoOp
<1>8. ASSUME NEW k \in Kinds, SetProvider(k) PROVE TalkInv'
  <2>1. UNCHANGED <<status, op, run>> /\ kind' \in Kinds
    BY <1>8 DEF SetProvider, runVars
  <2> QED
    BY <1>1, <1>2, <1>3, <1>4, <2>1 DEF TalkInv, TurnOK
<1> QED
  BY <1>5, <1>6, <1>7, <1>8

LEMMA AppendTalk ==
  ASSUME ConvInv, TalkInv, AppendPrompt
  PROVE  TalkInv'
<1> DEFINE m == [NoMessage EXCEPT !.said = op.files = {}, !.files = op.files]
<1>1. Talks(m) /\ IsAsk(m)
  <2>1. op.files \subseteq Files
    BY DEF ConvInv, OpOK
  <2>2. m \in Message(Files)
    <3> DEFINE t == op.files = {}
    <3>1. t \in BOOLEAN /\ m = [NoMessage EXCEPT !.said = t, !.files = op.files]
      OBVIOUS
    <3> HIDE DEF t, m
    <3> QED
      BY <2>1, <3>1, PlainMessage DEF Message
  <2>3. /\ m.role = "user" /\ m.uses = <<>> /\ m.results = <<>> /\ m.thinks = {}
        /\ ~m.fromFile /\ (m.said \/ m.files # {})
    BY DEF NoMessage
  <2>4. Numbered(m)
    BY <2>3 DEF Numbered
  <2> HIDE DEF m
  <2> QED
    BY <2>2, <2>3, <2>4 DEF Talks, IsAsk, Speaks
<1>2. /\ Stored(m) /\ op.what = "send" /\ op.at = "append"
      /\ op' = [op EXCEPT !.at = "create"]
      /\ UNCHANGED <<status, kind, run, turn, request, ranCut>>
  BY DEF AppendPrompt, AppendUserMessage, At, Goes, runVars
<1> HIDE DEF m
<1>3. TalkOK' /\ LastOwn'
  BY <1>1, <1>2, StoredTalk DEF ConvInv, TalkInv
<1>4. run = NoRun /\ run.at = "off" /\ op'.what = "send"
  BY <1>2 DEF ConvInv, OpOK, RunOK, NoOp, NoRun
<1>5. TurnOK' /\ SentOK'
  BY <1>2, <1>3, <1>4 DEF TalkInv, TurnOK, SentOK, RequestIsAccepted
<1> QED
  BY <1>3, <1>5 DEF TalkInv

LEMMA DeleteTalk ==
  ASSUME ConvInv, TalkInv, DeleteRows
  PROVE  TalkInv'
<1>1. /\ op.at = "delete" /\ op.what \in ActsOnRow /\ run = NoRun /\ run.at = "off"
      /\ status # "paused" \/ (op.what = "delete" /\ PromptBehind)
      /\ UNCHANGED <<made, status, kind, sends, run, turn, request, ranCut>>
  BY DEF DeleteRows, ConvInv, OpOK, RunOK, NoOp, runVars, NoRun
<1>2. PICK i \in DOMAIN rows : rows[i].id = op.row
  BY <1>1 DEF ConvInv, OpOK
<1>3. /\ IndexOf(op.row) = i /\ EndOf(i) \in i..Len(rows)
      /\ EndOf(i) = Len(rows) \/ IsPrompt(EndOf(i) + 1)
      /\ RowsOK /\ FilesOK /\ TalkOK
  BY <1>2, IndexIs, EndIs, AfterEnd DEF ConvInv, TalkInv
<1>4. rows \in Seq(ToSet(rows)) /\ DOMAIN rows = 1..Len(rows) /\ Len(rows) \in Nat
  BY <1>3, LenProperties DEF RowsOK
<1>5. SentOK'
  BY <1>1 DEF TalkInv, SentOK, RequestIsAccepted
<1>6. CASE op.what = "delete"
  <2>1. DeleteMessages(i, EndOf(i), 0) /\ op' = NoOp
    BY <1>3, <1>6 DEF DeleteRows
  <2>2. i \in 1..(Len(rows) + 1) /\ EndOf(i) \in (i - 1)..Len(rows)
    BY <1>3, <1>4
  <2> DEFINE b == EndOf(i)
  <2>3. b = Len(rows) \/ IsPrompt(b + 1)
    BY <1>3
  <2> HIDE DEF b
  <2>4. /\ DOMAIN rows' = 1..Len(rows') /\ Len(rows') = Len(rows) - (b + 1 - i)
        /\ \A j \in DOMAIN rows' :
             rows'[j] = IF j < i THEN rows[j] ELSE rows[j + (b + 1 - i)]
    BY <1>1, <1>3, <2>1, <2>2, DeletedRows DEF b
  <2>5. TalkOK'
    BY <1>3, <2>2, <2>3, <2>4, DeletedTalk DEF b
  <2>6. ASSUME status = "paused" PROVE LastOwn'
    <3>1. b # Len(rows)
      <4>1. PICK k, j \in DOMAIN rows : rows[k].id = op.row /\ k < j /\ IsPrompt(j)
        BY <1>1, <2>6 DEF PromptBehind
      <4>2. k = i
        BY <1>2, <1>3, <4>1 DEF RowsOK
      <4> QED
        BY <1>3, <4>1, <4>2, EndIs DEF b
    <3>2. b \in i..(Len(rows) - 1)
      BY <1>3, <1>4, <3>1 DEF b
    <3>3. /\ Len(rows') \in DOMAIN rows' /\ ~(Len(rows') < i)
          /\ Len(rows') + (b + 1 - i) = Len(rows)
      BY <1>4, <2>4, <3>2
    <3>4. rows'[Len(rows')] = rows[Len(rows)]
      BY <2>4, <3>3
    <3>5. ~rows[Len(rows)].imported
      BY <2>6 DEF TalkInv, TurnOK, LastOwn
    <3>6. rows' # <<>>
      BY <3>3
    <3> QED
      BY <3>4, <3>5, <3>6 DEF LastOwn
  <2>7. TurnOK'
    BY <1>1, <2>1, <2>6 DEF TalkInv, TurnOK, NoOp
  <2> QED
    BY <1>5, <2>5, <2>7 DEF TalkInv
<1>7. CASE op.what = "rewind"
  <2>1. DeleteMessages(i, Len(rows), op.row) /\ op' = NoOp
    BY <1>3, <1>7 DEF DeleteRows
  <2>2. /\ i \in 1..(Len(rows) + 1) /\ Len(rows) \in (i - 1)..Len(rows)
        /\ \E k \in i..Len(rows) : op.row = rows[k].id
    BY <1>2, <1>4
  <2>3. /\ DOMAIN rows' = 1..Len(rows') /\ Len(rows') = Len(rows) - (Len(rows) + 1 - i)
        /\ \A j \in DOMAIN rows' :
             rows'[j] = IF j < i THEN rows[j] ELSE rows[j + (Len(rows) + 1 - i)]
    BY <1>1, <1>3, <2>1, <2>2, DeletedRows
  <2>4. TalkOK'
    BY <1>3, <2>2, <2>3, DeletedTalk
  <2>5. TurnOK'
    BY <1>1, <1>7, <2>1 DEF TalkInv, TurnOK, NoOp
  <2> QED
    BY <1>5, <2>4, <2>5 DEF TalkInv
<1>8. CASE op.what = "retry"
  <2>1. DeleteMessages(i + 1, Len(rows), 0) /\ op' = [op EXCEPT !.at = "create"]
    BY <1>3, <1>8 DEF DeleteRows, Goes
  <2>2. i + 1 \in 1..(Len(rows) + 1) /\ Len(rows) \in ((i + 1) - 1)..Len(rows)
    BY <1>4
  <2>3. /\ DOMAIN rows' = 1..Len(rows')
        /\ Len(rows') = Len(rows) - (Len(rows) + 1 - (i + 1))
        /\ \A j \in DOMAIN rows' :
             rows'[j] = IF j < i + 1 THEN rows[j]
                        ELSE rows[j + (Len(rows) + 1 - (i + 1))]
    BY <1>1, <1>3, <2>1, <2>2, DeletedRows
  <2>4. TalkOK'
    BY <1>3, <2>2, <2>3, DeletedTalk
  <2>5. /\ Len(rows') = i /\ DOMAIN rows' = 1..i
        /\ \A j \in DOMAIN rows' : j \in DOMAIN rows /\ rows'[j] = rows[j]
    BY <1>4, <2>3
  <2>6. /\ ~rows[i].imported
        /\ \A j \in DOMAIN rows : rows[j].id = op.row => ~rows[j].imported
    BY <1>2, <1>8 DEF TalkInv, TurnOK
  <2>7. i \in DOMAIN rows' /\ rows' # <<>>
    BY <1>4, <2>5
  <2>8. LastOwn'
    BY <2>5, <2>6, <2>7 DEF LastOwn
  <2>9. op'.what = op.what /\ op'.row = op.row
    BY <2>1 DEF ConvInv, OpOK
  <2>10. TurnOK'
    BY <1>1, <2>5, <2>6, <2>8, <2>9 DEF TalkInv, TurnOK
  <2> QED
    BY <1>5, <2>4, <2>10 DEF TalkInv
<1> QED
  BY <1>1, <1>6, <1>7, <1>8 DEF ActsOnRow

LEMMA RunStepsTalk ==
  ASSUME ConvInv, TalkInv,
         CallsRun \/ RunFails \/ Cancel \/ Finish \/ Crash
  PROVE  TalkInv'
<1>1. rows' = rows /\ kind' = kind /\ TalkOK' /\ (LastOwn => LastOwn')
  <2>1. rows' = rows /\ kind' = kind
    BY DEF CallsRun, RunFails, Cancel, Finish, Crash, stored
  <2> QED
    BY <2>1, SameRows DEF TalkInv
<1>2. run \in [at : {"off", "loop", "stream", "calls", "results", "finish"},
               turns : Nat, tries : Nat, out : {"none", "ended", "paused"}]
  BY DEF ConvInv, RunOK
<1>3. CASE CallsRun
  <2>1. /\ run # NoRun /\ run.at = "calls" /\ run'.at = "results"
        /\ UNCHANGED <<status, op, turn, request>>
    BY <1>2, <1>3 DEF CallsRun, RunGoes, NoRun
  <2>2. ranCut' \subseteq {<<"compat", "none">>}
    <3>1. turn.cut \subseteq CutRuns(kind)
      BY <2>1 DEF TalkInv, TurnOK
    <3> QED
      BY <1>3, <3>1 DEF CallsRun, CutRuns
  <2>3. request = <<>>
    BY <2>1 DEF TalkInv, SentOK
  <2>4. TurnOK' /\ SentOK'
    BY <1>1, <2>1, <2>2, <2>3 DEF TalkInv, TurnOK, SentOK, RequestIsAccepted
  <2> QED
    BY <1>1, <2>4 DEF TalkInv
<1>4. CASE RunFails
  <2>1. /\ run # NoRun /\ run'.at = "finish" /\ request' = <<>> /\ ranCut' = {}
        /\ UNCHANGED <<status, op>>
    BY <1>2, <1>4 DEF RunFails, RunEnds, NoRun
  <2>2. TurnOK' /\ SentOK'
    BY <1>1, <2>1 DEF TalkInv, TurnOK, SentOK, RequestIsAccepted
  <2> QED
    BY <1>1, <2>2 DEF TalkInv
<1>5. CASE Cancel
  <2>1. UNCHANGED <<status, op, run, turn, request, ranCut>>
    BY <1>5 DEF Cancel
  <2>2. TurnOK' /\ SentOK'
    BY <1>1, <2>1 DEF TalkInv, TurnOK, SentOK, RequestIsAccepted
  <2> QED
    BY <1>1, <2>2 DEF TalkInv
<1>6. CASE Finish
  <2>1. /\ run # NoRun /\ run.at = "finish" /\ run' = NoRun /\ NoRun.at = "off"
        /\ UNCHANGED <<op, turn, request, ranCut>>
    BY <1>6 DEF Finish, NoRun
  <2>2. request = <<>> /\ LastOwn
    BY <2>1 DEF TalkInv, SentOK, TurnOK
  <2>3. TurnOK' /\ SentOK'
    BY <1>1, <2>1, <2>2 DEF TalkInv, TurnOK, SentOK, RequestIsAccepted
  <2> QED
    BY <1>1, <2>3 DEF TalkInv
<1>7. CASE Crash
  <2>1. /\ run' = NoRun /\ NoRun.at = "off" /\ request' = <<>> /\ ranCut' = {}
        /\ op'.what = "none" /\ op'.at = "none" /\ status' = status
    BY <1>7 DEF Crash, NoRun, NoOp
  <2>2. TurnOK' /\ SentOK'
    BY <1>1, <2>1 DEF TalkInv, TurnOK, SentOK, RequestIsAccepted
  <2> QED
    BY <1>1, <2>2 DEF TalkInv
<1> QED
  BY <1>3, <1>4, <1>5, <1>6, <1>7

\* A request is sent.
LEMMA NextTurnTalk ==
  ASSUME ConvInv, TalkInv, NextTurn
  PROVE  TalkInv'
<1>1. /\ rows' = rows /\ kind' = kind /\ run # NoRun /\ run.at = "loop"
      /\ UNCHANGED <<status, op, turn, ranCut>>
  BY DEF NextTurn, stored, NoRun
<1>2. TalkOK' /\ (LastOwn => LastOwn') /\ request = <<>>
  BY <1>1, SameRows DEF TalkInv, SentOK
<1>3. \/ run'.at = "finish" /\ request' = request
      \/ run'.at = "stream" /\ request' = Wire(kind, History)
  BY DEF NextTurn, RunEnds, ConvInv, RunOK
<1>4. TurnOK'
  BY <1>1, <1>2, <1>3 DEF TalkInv, TurnOK
<1>5. request' # <<>> =>
        /\ run'.at = "stream" /\ Accepted(kind', request')
        /\ \A i \in DOMAIN request' : ~request'[i].fromFile
  <2>1. SUFFICES ASSUME request' # <<>>
                 PROVE  /\ run'.at = "stream" /\ Accepted(kind', request')
                        /\ \A i \in DOMAIN request' : ~request'[i].fromFile
    OBVIOUS
  <2>2. run'.at = "stream" /\ request' = Wire(kind, History)
    BY <1>2, <1>3, <2>1
  <2>3. RowsOK /\ TalkOK /\ kind \in Kinds
    BY DEF ConvInv, TalkInv, TurnOK
  <2>4. /\ Accepted(kind, Wire(kind, History))
        /\ \A i \in DOMAIN Wire(kind, History) : ~Wire(kind, History)[i].fromFile
    BY <2>1, <2>2, <2>3, SentHistory
  <2> QED
    BY <1>1, <2>2, <2>4, Zenon
<1>6. SentOK'
  BY <1>1, <1>5 DEF TalkInv, SentOK, RequestIsAccepted
<1> QED
  BY <1>2, <1>4, <1>6 DEF TalkInv

\* The messages of a run.
LEMMA AnswerTalks ==
  ASSUME NEW o, NEW cut, o.said \in BOOLEAN, o.thinks \subseteq Kinds, CallsAre(o.calls, cut)
  PROVE  LET m == MessageOf(o)
         IN  /\ Talks(m) /\ m.results = <<>>
             /\ o.calls # <<>> => m.uses # <<>> /\ Len(o.calls) \in Nat \ {0} /\ ~IsEmpty(m)
<1> DEFINE uses == [i \in DOMAIN o.calls |-> i]
           m == MessageOf(o)
<1>1. PICK n \in Nat : DOMAIN o.calls = 1..n /\ Len(o.calls) = n
  BY DEF CallsAre
<1>2. uses \in Seq(Nat) /\ Len(uses) = n /\ uses = [j \in 1..n |-> j]
  <2>1. uses \in [1..n -> Nat] /\ uses = [j \in 1..n |-> j]
    BY <1>1
  <2> HIDE DEF uses
  <2> QED
    BY <2>1, FunctionIsSeq
<1>3. m = [NoMessage EXCEPT !.role = "assistant", !.said = o.said, !.thinks = o.thinks,
                            !.uses = uses]
  BY DEF MessageOf
<1> HIDE DEF uses, m
<1>4. /\ m \in Message(Files) /\ m.role = "assistant" /\ m.results = <<>> /\ ~m.fromFile
      /\ m.uses = uses
  BY <1>2, <1>3, PlainMessage DEF Message
<1>5. Talks(m) /\ m.results = <<>>
  BY <1>2, <1>4 DEF Talks, Speaks, Numbered
<1>6. ASSUME o.calls # <<>> PROVE m.uses # <<>> /\ Len(o.calls) \in Nat \ {0} /\ ~IsEmpty(m)
  <2>1. n # 0
    <3>1. SUFFICES ASSUME n = 0 PROVE FALSE
      OBVIOUS
    <3>2. DOMAIN uses = {}
      BY <1>1, <1>2, <3>1
    <3> QED
      BY <1>1, <1>6, <3>1 DEF CallsAre
  <2>2. m.uses # <<>>
    BY <1>2, <1>4, <2>1
  <2> QED
    BY <1>1, <2>1, <2>2 DEF IsEmpty
<1> QED
  BY <1>5, <1>6 DEF m

LEMMA PartialTalks ==
  LET m == [NoMessage EXCEPT !.role = "assistant", !.said = TRUE]
  IN  Talks(m) /\ m.results = <<>>
<1> DEFINE m == [NoMessage EXCEPT !.role = "assistant", !.said = TRUE]
<1>1. /\ m \in Message(Files) /\ m.role = "assistant" /\ m.results = <<>> /\ ~m.fromFile
      /\ m.uses = <<>>
  BY PlainMessage DEF Message
<1> HIDE DEF m
<1>2. Talks(m) /\ m.results = <<>>
  BY <1>1 DEF Talks, Speaks, Numbered
<1> QED
  BY <1>2 DEF m

LEMMA ResultsTalk ==
  ASSUME NEW n \in Nat \ {0}
  PROVE  LET m == [NoMessage EXCEPT !.results = [i \in 1..n |-> i]]
         IN  Talks(m)
<1> DEFINE ids == [i \in 1..n |-> i]
           m == [NoMessage EXCEPT !.results = ids]
<1>1. ids \in Seq(Nat)
  <2>1. ids \in [1..n -> Nat]
    OBVIOUS
  <2> HIDE DEF ids
  <2> QED
    BY <2>1, FunctionIsSeq
<1> HIDE DEF ids
<1>2. /\ m \in Message(Files) /\ m.role = "user" /\ ~m.said /\ m.files = {} /\ ~m.fromFile
      /\ m.uses = <<>> /\ m.thinks = {}
  BY <1>1, PlainMessage DEF Message
<1> HIDE DEF m
<1>3. Talks(m)
  BY <1>2 DEF Talks, Speaks, Numbered
<1> QED
  BY <1>3 DEF m, ids

\* A stream that broke off.
LEMMA BreaksTalk ==
  ASSUME ConvInv, TalkInv, NEW o, StreamBreaks(o)
  PROVE  TalkInv'
<1>1. /\ kind' = kind /\ run # NoRun /\ run.at = "stream"
      /\ UNCHANGED <<status, op, turn, ranCut>> /\ op.what = "none"
  BY DEF StreamBreaks, NoRun, ConvInv, RunOK, NoOp
<1>2. LastOwn /\ RowsOK /\ TalkOK
  BY <1>1 DEF ConvInv, TalkInv, TurnOK
<1>3. \/ run'.at = "finish" /\ request' = <<>>
      \/ run'.at = "stream" /\ request' = request
  BY <1>1 DEF StreamBreaks, RunEnds, ConvInv, RunOK
<1>4. TalkOK' /\ LastOwn'
  <2> DEFINE m == [NoMessage EXCEPT !.role = "assistant", !.said = TRUE]
  <2>1. rows' = rows \/ Stored(m)
    BY DEF StreamBreaks, KeepPartial, stored
  <2>2. Talks(m) /\ m.results = <<>>
    BY PartialTalks
  <2> HIDE DEF m
  <2>3. CASE rows' = rows
    BY <1>2, <2>3, SameRows
  <2>4. CASE Stored(m)
    BY <1>2, <2>2, <2>4, StoredTalk
  <2> QED
    BY <2>1, <2>3, <2>4
<1>5. TurnOK' /\ SentOK'
  BY <1>1, <1>3, <1>4 DEF TalkInv, TurnOK, SentOK, RequestIsAccepted
<1> QED
  BY <1>4, <1>5 DEF TalkInv

\* The model's stop.
LEMMA StopsTalk ==
  ASSUME ConvInv, TalkInv, NEW o \in Outcomes[kind], TurnStops(o)
  PROVE  TalkInv'
<1>1. /\ kind' = kind /\ run # NoRun /\ run.at = "stream" /\ o.ends = "stop"
      /\ UNCHANGED <<status, op, ranCut>> /\ request' = <<>> /\ op.what = "none"
  BY DEF TurnStops, NoRun, ConvInv, RunOK, NoOp
<1>2. LastOwn /\ RowsOK /\ TalkOK /\ kind \in Kinds
  BY <1>1 DEF ConvInv, TalkInv, TurnOK
<1>3. o.said \in BOOLEAN /\ o.thinks \subseteq Kinds /\ CallsAre(o.calls, CutRuns(kind))
  BY <1>1, <1>2, OutcomeIs DEF StopIs
<1> DEFINE m == MessageOf(o)
<1>4. /\ Talks(m) /\ m.results = <<>>
      /\ o.calls # <<>> => m.uses # <<>> /\ Len(o.calls) \in Nat \ {0} /\ ~IsEmpty(m)
  BY <1>3, AnswerTalks
<1>5. IF IsEmpty(m) THEN rows' = rows ELSE Stored(m)
  BY DEF TurnStops, stored
<1> HIDE DEF m
<1>6. TalkOK' /\ LastOwn' /\ (~IsEmpty(m) => rows'[Len(rows')].m = m)
  <2>1. CASE IsEmpty(m)
    BY <1>2, <1>5, <2>1, SameRows
  <2>2. CASE ~IsEmpty(m)
    BY <1>2, <1>4, <1>5, <2>2, StoredTalk
  <2> QED
    BY <2>1, <2>2
<1>7. \/ /\ o.calls # <<>> /\ run'.at = "calls" /\ turn' = Answerable(o)
      \/ run'.at \in {"loop", "finish"} /\ turn' = turn
  BY DEF TurnStops, RunGoes, RunEnds, ConvInv, RunOK
<1>8. TurnOK'
  <2>1. CASE o.calls # <<>> /\ run'.at = "calls" /\ turn' = Answerable(o)
    <3>1. rows'[Len(rows')].m.uses # <<>>
      BY <1>4, <1>6, <2>1
    <3>2. turn'.calls = Len(o.calls) /\ turn'.calls \in Nat \ {0}
      BY <1>4, <2>1 DEF Answerable
    <3>3. turn'.cut \subseteq CutRuns(kind)
      BY <1>3, <2>1 DEF Answerable, CallsAre
    <3> QED
      BY <1>1, <1>6, <2>1, <3>1, <3>2, <3>3 DEF TalkInv, TurnOK
  <2>2. CASE run'.at \in {"loop", "finish"} /\ turn' = turn
    BY <1>1, <1>6, <2>2 DEF TalkInv, TurnOK
  <2> QED
    BY <1>7, <2>1, <2>2
<1>9. SentOK'
  BY <1>1 DEF TalkInv, SentOK, RequestIsAccepted
<1> QED
  BY <1>6, <1>8, <1>9 DEF TalkInv

\* The results of a turn's calls.
LEMMA ResultsStoredTalk ==
  ASSUME ConvInv, TalkInv, ResultsAreStored
  PROVE  TalkInv'
<1> DEFINE n == turn.calls
           m == [NoMessage EXCEPT !.results = [i \in 1..n |-> i]]
<1>1. /\ kind' = kind /\ run # NoRun /\ run.at = "results" /\ Stored(m)
      /\ UNCHANGED <<status, op, request>> /\ ranCut' = {} /\ op.what = "none"
  BY DEF ResultsAreStored, NoRun, ConvInv, RunOK, NoOp
<1>2. LastOwn /\ RowsOK /\ TalkOK /\ rows[Len(rows)].m.uses # <<>> /\ n \in Nat \ {0}
      /\ request = <<>>
  BY <1>1 DEF ConvInv, TalkInv, TurnOK, SentOK
<1> HIDE DEF n
<1>3. Talks(m)
  BY <1>2, ResultsTalk
<1> HIDE DEF m
<1>4. TalkOK' /\ LastOwn'
  BY <1>1, <1>2, <1>3, StoredTalk
<1>5. run'.at \in {"loop", "finish"}
  BY DEF ResultsAreStored, RunGoes, RunEnds, ConvInv, RunOK
<1>6. TurnOK' /\ SentOK'
  BY <1>1, <1>2, <1>4, <1>5 DEF TalkInv, TurnOK, SentOK, RequestIsAccepted
<1> QED
  BY <1>4, <1>6 DEF TalkInv

LEMMA NextTalk == ConvInv /\ TalkInv /\ [Next]_vars => TalkInv'
<1> SUFFICES ASSUME ConvInv, TalkInv, [Next]_vars PROVE TalkInv'
  OBVIOUS
<1> QED
  BY ComposerTalk, BeginsTalk, OpStepsTalk, AppendTalk, DeleteTalk, RunStepsTalk,
     NextTurnTalk, BreaksTalk, StopsTalk, ResultsStoredTalk DEF Next

\* Whatever was deleted, interrupted, imported or answered by another provider
\* before, what a run sends is a conversation its provider accepts
\* (repairHistory and the adapters' own repair), with no imported turn in it,
\* and no call runs with half of its arguments.
THEOREM RequestAccepted == Spec => []RequestIsAccepted
<1>1. Init => ConvInv /\ TalkInv
  BY InitConv, InitTalk
<1>2. (ConvInv /\ TalkInv) /\ [Next]_vars => (ConvInv /\ TalkInv)'
  BY NextConv, NextTalk
<1>3. TalkInv => RequestIsAccepted
  BY DEF TalkInv, SentOK
<1> QED
  BY <1>1, <1>2, <1>3, PTL DEF Spec
=============================================================================
