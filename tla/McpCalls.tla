------------------------------ MODULE McpCalls ------------------------------
(* The calls of one `ffc mcp` server: each runs in a handler of its own,      *)
(* through the argument checks, the policy of its site as the config reads    *)
(* then, the user's confirmation, the site's client and the tool itself       *)
(* (mcp_args.go toolHandler and run, mcp_confirm.go, mcp.go newMCPEnv).       *)
(*                                                                            *)
(* The MCP client may make any call of the scene at any time, several at      *)
(* once, with the state of any question it was ever asked: sent twice, late,  *)
(* or with other arguments than the question was about.                       *)
EXTENDS McpTools, Sequences, TLC

CONSTANTS
  Scenes,      \* the situations to look at, a sequence of
               \* [sites, configs, flags, later, toolsets, calls, prompts,
               \*  cached, elicits, workers, closes, until]: the served
               \* sites; the rules a site may have, those of the flags and
               \* those an edit may bring; the tool sets exposed; the calls
               \* the client makes and whether it can ask its user; the
               \* tools each prompt needs and the DocTypes cached; the
               \* handlers that run at once; whether the server is closed;
               \* the bound on the clock
  TTL,         \* how long a question stays answerable
  MaxAsked,    \* bound on the questions that reach the user
  MaxEdits     \* bound on the edits of the config

ASSUME McpAssumption == TTL \in Nat \ {0} /\ MaxAsked \in Nat /\ MaxEdits \in Nat

(* The tools a template or a prompt needs (mcpPrompts). *)
PromptTools ==
  {"get_doc", "get_schema", "list_docs", "count_docs", "bulk_create", "run_report"}

(* Handlers are numbered. Only call_method names a method, and the methods    *)
(* that share or comment take no filters.                                     *)
ASSUME ScenesAssumption ==
  \A n \in DOMAIN Scenes :
    /\ Scenes[n].workers \subseteq Nat \ {0}
    /\ \A c \in Scenes[n].calls :
         /\ c.method # "" => c.tool = "call_method"
         /\ c.method \in {"frappe.share.add", "add_comment"} => "table" \notin c.opts
    /\ \A tools \in Scenes[n].prompts : tools \subseteq PromptTools

None == 0

VARIABLES
  scene,     \* the situation, by its place in Scenes
  flags,     \* the rules of the flags the server was started with
  config,    \* site -> its rules in the config file, as it is now
  edits,     \* edits of the config so far
  served,    \* the tools registered when the server started
  now,       \* the clock
  asked,     \* the questions issued: [site, call, exp], by the number of the state
  said,      \* what the user said to each: "none", "yes" or "no"
  used,      \* the spent states (confirmer.used)
  runs,      \* history: how often each "yes" was taken
  h,         \* the handlers
  known,     \* sites with an entry in the map of clients
  client,    \* site -> "none", "open" or "stale" (credentials changed since)
  building,  \* site -> the handler building its client, or None (siteClient.mu)
  closing,   \* Close: "no", "sites" or "done"
  left       \* the sites Close has yet to close

questions == <<now, asked, said, used, runs>>
setting == <<scene, flags, config, edits, served>>
clients == <<known, client, building, closing, left>>
mcpVars == <<setting, questions, clients, h>>

S == Scenes[scene]

Idle == [pc |-> "idle", call |-> <<>>, st |-> None, site |-> "", rules |-> <<>>,
         at |-> 0, yes |-> FALSE, show |-> {}, write |-> {}]

McpInit ==
  /\ scene \in DOMAIN Scenes
  /\ flags \in S.flags
  /\ config \in [S.sites -> S.configs]
  /\ served = Registered({[cfg |-> config[s], flag |-> flags] : s \in S.sites}, S.toolsets)
  /\ edits = 0 /\ now = 0
  /\ asked = <<>> /\ said = <<>> /\ used = {} /\ runs = <<>>
  /\ h = [i \in S.workers |-> Idle]
  /\ known = {}
  /\ client = [s \in S.sites |-> "none"]
  /\ building = [s \in S.sites |-> None]
  /\ closing = "no" /\ left = {}

Policy(i) == [cfg |-> h[i].rules, flag |-> flags]

(* Close holds the lock of the map until it has closed every client. *)
MapFree == closing # "sites"
Closed == closing # "no"

(* The site a call is for: the one it names, which a server of several sites  *)
(* requires; "" when there is none such.                                      *)
SiteFor(c) ==
  IF c.site \in S.sites THEN c.site
  ELSE IF c.site = "" /\ \E s \in S.sites : S.sites = {s}
    THEN CHOOSE s \in S.sites : TRUE ELSE ""

(* toolHandler, prepare and check: the arguments, then the site's rules as    *)
(* the config has them now, then the policy. Nothing is sent yet.             *)
Prepare(i, c, st) ==
  LET site == SiteFor(c)
      rules == config[site]
  IN /\ h[i].pc = "idle"
     /\ c.tool \in served
     /\ h' = [h EXCEPT ![i] =
          IF Siteless(c.tool)
            THEN [Idle EXCEPT !.pc = "end", !.call = c]
          ELSE IF ~Valid(c) \/ site = ""
            THEN [Idle EXCEPT !.pc = "end", !.call = c]
          ELSE [Idle EXCEPT !.call = c, !.st = st, !.site = site, !.rules = rules,
                  !.pc = IF Check([cfg |-> rules, flag |-> flags], ScopeOf(c))
                           THEN "confirm" ELSE "end"]]
     /\ UNCHANGED <<setting, questions, clients>>

(* A call that comes with an answer to the question of its state. *)
Answered(i) == h[i].st # None /\ said[h[i].st] # "none"

(* The mutant signs the site only. *)
GenuineForSite(i) ==
  LET q == asked[h[i].st] IN now < q.exp /\ q.site = h[i].site

(* spend's first half: the state is unexpired and its signature is of this    *)
(* site, tool and arguments.                                                  *)
Genuine(i) ==
  LET q == asked[h[i].st]
  IN  now < q.exp /\ q.site = h[i].site /\ q.call = h[i].call

MustConfirm(i) == ScopeOf(h[i].call).confirm /\ ConfirmMode(Policy(i)) # "never"

Goto(i, pc) == h' = [h EXCEPT ![i].pc = pc]

ConfirmOff(i) ==
  /\ h[i].pc = "confirm"
  /\ ~MustConfirm(i)
  /\ Goto(i, "client")
  /\ UNCHANGED <<setting, questions, clients>>

(* spend reads the clock and checks the signature before it takes the lock. *)
LookAtState(i) ==
  /\ h[i].pc = "confirm"
  /\ MustConfirm(i)
  /\ Answered(i)
  /\ Genuine(i)
  /\ h' = [h EXCEPT ![i].pc = "spend", ![i].at = now]
  /\ UNCHANGED <<setting, questions, clients>>

(* The rest of spend, under the lock: states that had expired by the time     *)
(* read before are forgotten, a spent one is refused, this one is spent.      *)
Spend(i) ==
  LET st == h[i].st
      kept == {u \in used : h[i].at < asked[u].exp}
  IN /\ h[i].pc = "spend"
     /\ IF st \in kept
          THEN /\ used' = kept
               /\ Goto(i, "ask")
               /\ UNCHANGED runs
          ELSE /\ used' = kept \cup {st}
               /\ runs' = [runs EXCEPT ![st] = @ + 1]
               /\ h' = [h EXCEPT ![i].yes = said[st] = "yes",
                          ![i].pc = IF said[st] = "yes" THEN "client" ELSE "end"]
     /\ UNCHANGED <<setting, now, asked, said, clients>>

(* No answer, or none that counts: ask (again), unless the client cannot. A   *)
(* question beyond the bound is one whose user never sees it.                 *)
MayAsk(i) ==
  \/ h[i].pc = "ask"
  \/ h[i].pc = "confirm" /\ MustConfirm(i) /\ ~(Answered(i) /\ Genuine(i))

Ask(i) ==
  /\ MayAsk(i)
  /\ S.elicits
  /\ IF Len(asked) < MaxAsked
       THEN /\ asked' = Append(asked, [site |-> h[i].site, call |-> h[i].call,
                                        exp |-> now + TTL])
            /\ said' = Append(said, "none")
            /\ runs' = Append(runs, 0)
       ELSE UNCHANGED <<asked, said, runs>>
  /\ Goto(i, "end")
  /\ UNCHANGED <<setting, now, used, clients>>

CannotAsk(i) ==
  /\ MayAsk(i)
  /\ ~S.elicits
  /\ Goto(i, IF ConfirmMode(Policy(i)) = "always" THEN "end" ELSE "client")
  /\ UNCHANGED <<setting, questions, clients>>

(* get: the entry of the map, unless the server is closed. *)
GetEntry(i) ==
  /\ h[i].pc = "client"
  /\ MapFree
  /\ IF Closed THEN Goto(i, "end") /\ UNCHANGED known
     ELSE Goto(i, "entry") /\ known' = known \cup {h[i].site}
  /\ UNCHANGED <<setting, questions, client, building, closing, left>>

(* The mutant does not look at closed again under the site's lock. *)
GetClientUnchecked(i) ==
  LET s == h[i].site
  IN /\ h[i].pc = "entry"
     /\ building[s] = None
     /\ IF client[s] = "open" THEN Goto(i, "call") /\ UNCHANGED building
        ELSE Goto(i, "build") /\ building' = [building EXCEPT ![s] = i]
     /\ UNCHANGED <<setting, questions, known, client, closing, left>>

(* Under the site's lock: closed meanwhile, the client at hand, or build one. *)
GetClient(i) ==
  LET s == h[i].site
  IN /\ h[i].pc = "entry"
     /\ building[s] = None
     /\ IF Closed THEN Goto(i, "end") /\ UNCHANGED building
        ELSE IF client[s] = "open" THEN Goto(i, "call") /\ UNCHANGED building
        ELSE Goto(i, "build") /\ building' = [building EXCEPT ![s] = i]
     /\ UNCHANGED <<setting, questions, known, client, closing, left>>

(* refreshSite and newSiteClient, which may sign in, still under the lock. *)
Build(i) ==
  LET s == h[i].site
  IN /\ h[i].pc = "build"
     /\ building' = [building EXCEPT ![s] = None]
     /\ \/ client' = [client EXCEPT ![s] = "open"] /\ Goto(i, "call")
        \/ Goto(i, "end") /\ UNCHANGED client
     /\ UNCHANGED <<setting, questions, known, closing, left>>

(* The rules that take a request (checkReport, checkRestore,                  *)
(* checkCommentAuthor), then the tool.                                        *)
Call(i) ==
  LET c == h[i].call
      p == Policy(i)
      sc == ScopeOf(c)
      runsIt == /\ CheckReport(p, sc)
                /\ CheckRestore(p, sc)
                /\ ~("as_other" \in c.opts /\ c.method = "add_comment")
                /\ ~ToolRefuses(p, c)
  IN /\ h[i].pc = "call"
     /\ h' = [h EXCEPT ![i].pc = IF runsIt THEN "ran" ELSE "end",
                       ![i].show = IF runsIt THEN Does(p, c).show ELSE {},
                       ![i].write = IF runsIt THEN Does(p, c).write ELSE {}]
     /\ UNCHANGED <<setting, questions, clients>>

(* The result is returned and its line is in the audit log. *)
Return(i) ==
  /\ h[i].pc \in {"end", "ran"}
  /\ h' = [h EXCEPT ![i] = Idle]
  /\ UNCHANGED <<setting, questions, clients>>

-----------------------------------------------------------------------------
(* What happens around the handlers. *)

UserAnswers(q, answer) ==
  /\ q \in DOMAIN said
  /\ said[q] = "none"
  /\ said' = [said EXCEPT ![q] = answer]
  /\ UNCHANGED <<setting, now, asked, used, runs, clients, h>>

Tick ==
  /\ now < S.until
  /\ now' = now + 1
  /\ UNCHANGED <<setting, asked, said, used, runs, clients, h>>

(* The site's owner edits its rules and its credentials. *)
EditConfig(s, rules) ==
  /\ edits < MaxEdits
  /\ edits' = edits + 1
  /\ config' = [config EXCEPT ![s] = rules]
  /\ client' = [client EXCEPT ![s] = IF @ = "open" THEN "stale" ELSE @]
  /\ UNCHANGED <<scene, flags, served, questions, known, building, closing, left, h>>

(* Close, with the lock of the map held to its end. *)
Close ==
  /\ S.closes
  /\ closing = "no"
  /\ closing' = "sites"
  /\ left' = known
  /\ UNCHANGED <<setting, questions, known, client, building, h>>

CloseSite(s) ==
  /\ s \in left
  /\ building[s] = None
  /\ client' = [client EXCEPT ![s] = "none"]
  /\ left' = left \ {s}
  /\ UNCHANGED <<setting, questions, known, building, closing, h>>

CloseReturns ==
  /\ closing = "sites"
  /\ left = {}
  /\ closing' = "done"
  /\ UNCHANGED <<setting, questions, known, client, building, left, h>>

Handler(i) ==
  \/ ConfirmOff(i) \/ LookAtState(i) \/ Spend(i) \/ Ask(i) \/ CannotAsk(i)
  \/ GetEntry(i) \/ GetClient(i) \/ Build(i) \/ Call(i) \/ Return(i)

McpNext ==
  \/ \E i \in S.workers : Handler(i)
  \/ \E i \in S.workers, c \in S.calls, st \in {None} \cup DOMAIN asked :
       Prepare(i, c, st)
  \/ \E q \in DOMAIN said, answer \in {"yes", "no"} : UserAnswers(q, answer)
  \/ Tick
  \/ \E s \in S.sites, r \in S.later : EditConfig(s, r)
  \/ Close
  \/ \E s \in S.sites : CloseSite(s)
  \/ CloseReturns

McpSpec == McpInit /\ [][McpNext]_mcpVars

-----------------------------------------------------------------------------
(* Properties. *)

(* What a completion offers for a template's or prompt's argument. *)
OffersServed(p, tools) ==
  /\ \A dt \in OfferedDoctypes(p, served, tools, S.cached), t \in tools :
       Check(p, ScopeOf(PlainCall(t, dt)))
  /\ "run_report" \in tools =>
       \A dt \in OfferedReports(p, served, tools, S.cached) :
         CheckReport(p, ScopeOf([PlainCall("run_report", "") EXCEPT !.behind = dt]))

(* What a call shows is data of DocTypes its site's rules let the client      *)
(* read, and what it has the site write is of DocTypes they let it write, and *)
(* nothing under read-only. It holds of what the tool's own code does, which  *)
(* the check before the call only knows by the arguments. The Deleted         *)
(* Document of a restore is held to the deny lists alone; a prepared report   *)
(* is a result the site keeps, of no DocType the rules speak of. What a       *)
(* completion offers for a template's or prompt's argument is served, too.    *)
KeepsToPolicy ==
  \A i \in S.workers : h[i].pc = "ran" =>
    LET p == Policy(i)
        lifted == IF h[i].call.tool = "restore_doc" THEN {"Deleted Document"} ELSE {}
    IN /\ \A dt \in h[i].show \ lifted : DoctypeAllowed(p, dt, FALSE)
       /\ \A dt \in h[i].write \ {"Prepared Report"} : DoctypeAllowed(p, dt, TRUE)
       /\ ReadOnly(p) => h[i].write = {}
       /\ \A tools \in S.prompts : OffersServed(p, tools)

(* Where the mode is "always", a call that destroys documents or gives users  *)
(* access to one runs only after the user said yes to a question about this   *)
(* call on this site; so does every call Classify promises a question for.    *)
(* While a question is answerable, a "yes" to it has let at most one call run, *)
(* however often the client sends it.                                          *)
NeverUnasked ==
  /\ \A q \in DOMAIN asked : now < asked[q].exp => runs[q] <= 1
  /\ \A i \in S.workers :
    (/\ h[i].pc = "ran"
     /\ \/ ConfirmMode(Policy(i)) = "always"
             /\ (Destroys(h[i].call) \/ Grants(h[i].call))
        \/ WillAsk(Policy(i), ScopeOf(h[i].call))) =>
      /\ h[i].yes
      /\ said[h[i].st] = "yes"
      /\ asked[h[i].st].site = h[i].site
      /\ asked[h[i].st].call = h[i].call

(* Once Close has returned no site has a client, not even one whose build was  *)
(* under way when it began.                                                    *)
NoClientOutlivesClose ==
  closing = "done" => \A s \in S.sites : client[s] = "none" /\ building[s] = None

=============================================================================
