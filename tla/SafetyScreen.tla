---------------------------- MODULE SafetyScreen ----------------------------
(***************************************************************************)
(* The Safety screen of the desktop app (desktop/services/policy.go): it   *)
(* edits a site's MCP rules in the ffc config, which ffc, an editor and    *)
(* other windows change meanwhile, and asks before a change that opens     *)
(* access.  Rules are those of McpPolicy; normalisation is the identity on *)
(* sets, the default mode being "".                                        *)
(***************************************************************************)
EXTENDS McpPolicy

CONSTANTS
  Drafts,       \* bound: the rules there may be
  ServerFlags,  \* the flags of the servers the rules are compared for
  Scopes,       \* the calls they are compared on
  NoRule        \* the site is gone

\* The config's decoder refuses other modes.
ASSUME RulesAssumption ==
  /\ NoRule \notin Drafts
  /\ \A r \in Drafts : r.confirm \in {"", "never", "if-supported", "always"}

VARIABLES
  rules,   \* the ffc config: the site's rules, or NoRule
  odd,     \* does a list have a blank entry, by a hand edit?
  window   \* the screen: where it is, the rules it showed, those to save, is
           \*   what they open confirmed, and the rules SavePolicy read

screenVars == <<rules, odd, window>>

Blank == [at |-> "off", base |-> NoRule, draft |-> NoRule, ok |-> FALSE, cur |-> NoRule]

ScreenInit == rules \in Drafts /\ odd = FALSE /\ window = Blank

\* GetPolicy answers: rules a list of which has a blank entry are refused.
Readable == rules # NoRule /\ ~odd

-----------------------------------------------------------------------------
(* What a change opens: comparePolicies.                                   *)

ScreenRank(mode) == IF mode = "never" THEN 0 ELSE IF mode = "always" THEN 2 ELSE 1

\* An allow list lifted, or with an entry more.
AllowOpens(o, n) == o # {} /\ (n = {} \/ n \ o # {})

\* SensitiveDoctype, and UnlocksDeniedMethod: does the entry cover one?
UnlocksSensitive(o, n) == (n \ o) \cap SensitiveDoctypes # {}
UnlocksDenied(o, n)    == \E x \in n \ o : Covered(x) \cap DeniedMethods # {}

methodsBlocked(r) == r.allowDoctypes # {} /\ r.allowMethods = {}

Opens(o, n) ==
  \/ o.readOnly /\ ~n.readOnly
  \/ ScreenRank(n.confirm) < ScreenRank(o.confirm)
  \/ AllowOpens(o.allowTools, n.allowTools)
  \/ AllowOpens(o.allowDoctypes, n.allowDoctypes)
  \/ AllowOpens(o.allowMethods, n.allowMethods)
  \/ o.denyDoctypes \ n.denyDoctypes # {} \/ o.denyMethods \ n.denyMethods # {}
  \/ UnlocksSensitive(o.allowDoctypes, n.allowDoctypes)
  \/ UnlocksDenied(o.allowMethods, n.allowMethods)
  \/ methodsBlocked(o) /\ ~methodsBlocked(n)

-----------------------------------------------------------------------------
Show ==
  /\ window.at = "off" /\ Readable
  /\ window' = [Blank EXCEPT !.at = "shown", !.base = rules]
  /\ UNCHANGED <<rules, odd>>

\* PreviewPolicy compares with the rules there are now, and the dialog asks about what it
\* says they open.
Preview(d) ==
  /\ window.at = "shown" /\ Readable /\ d # window.base
  /\ window' = [window EXCEPT !.at = "save", !.draft = d, !.ok = Opens(rules, d)]
  /\ UNCHANGED <<rules, odd>>

Leave ==
  /\ window.at \in {"shown", "save"} /\ window' = Blank
  /\ UNCHANGED <<rules, odd>>

Save(cur) ==
  IF /\ cur = window.base
     /\ cur # window.draft
     /\ Opens(cur, window.draft) => window.ok
  THEN window' = [window EXCEPT !.at = "edit", !.cur = cur]
  ELSE window' = Blank

\* SavePolicy reads the rules and checks the change from them.
SavePolicy ==
  /\ window.at = "save"
  /\ IF Readable THEN Save(rules) ELSE window' = Blank
  /\ UNCHANGED <<rules, odd>>

\* Mutant of Unmoved: the site is still there.
StillThere == rules # NoRule

\* Under the config's lock: nothing moved on since.
Unmoved == Readable /\ rules = window.cur

Commit ==
  /\ window.at = "edit"
  /\ rules' \in IF Unmoved THEN {window.draft, rules} ELSE {rules}
  /\ window' = Blank
  /\ UNCHANGED odd

\* ffc, an editor or another window changes the rules, or removes the site.
\* Bound: while the screen shows them.
OthersEdit ==
  /\ window.at # "off"
  /\ \/ rules' \in Drafts \cup {NoRule} /\ odd' = FALSE
     \/ rules # NoRule /\ UNCHANGED rules /\ odd' = TRUE
  /\ UNCHANGED window

ScreenNext ==
  \/ Show \/ Leave \/ SavePolicy \/ Commit
  \/ \E d \in Drafts : Preview(d)
  \/ OthersEdit

ScreenSpec == ScreenInit /\ [][ScreenNext]_screenVars

-----------------------------------------------------------------------------
\* A server with --allow-doctypes and no --allow-methods refuses call_method
\* until its site's rules list a first method.
FirstMethods(o, n, f) ==
  f.allowDoctypes # {} /\ f.allowMethods = {} /\ o.allowMethods = {} /\ n.allowMethods # {}

(* A change that opens access is asked about, and only the rules the       *)
(* screen showed are replaced: what the rules refused before a save that   *)
(* was not confirmed they refuse after it, whatever MCP server they are    *)
(* read by (comment at the head of policy.go), and no edit made meanwhile  *)
(* is lost.  One opening is not asked about and is left out: comparePolicies *)
(* does not know a server's flags, so the first methods that a site lists  *)
(* open call_method on a server that has --allow-doctypes alone.           *)
Refused(r, f, sc) ==
  LET p == [cfg |-> r, flag |-> f]
  IN  ~Check(p, sc) \/ ~CheckReport(p, sc) \/ ~CheckRestore(p, sc)

Mode(r, f) == Rank(ConfirmMode([cfg |-> r, flag |-> f]))

Looser(o, n) ==
  \E f \in ServerFlags :
    \/ Mode(n, f) < Mode(o, f)
    \/ \E sc \in Scopes : /\ Refused(o, f, sc) /\ ~Refused(n, f, sc)
                          /\ ~(FirstMethods(o, n, f) /\ sc.tool = "call_method")

OpeningIsAsked ==
  [][window.at = "edit" /\ rules' # rules /\ window' # window =>
       rules = window.base /\ ~odd /\ (Looser(rules, rules') => window.ok)]_screenVars
=============================================================================
