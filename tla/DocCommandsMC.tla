--------------------------- MODULE DocCommandsMC ----------------------------
(***************************************************************************)
(* The commands on a site, for TLC, and signing in to one.  They share no  *)
(* state, so each has the behaviours of one part: a command of each kind   *)
(* that changes documents, on a site with a draft that has a row, a draft  *)
(* that has none and a name that is free; the jobs; the reads that fill a  *)
(* file; customizations; aggregates; a document's context and the rights.  *)
(***************************************************************************)
EXTENDS DocCommands, SignIns, SiteJobs, SiteFiles, Customize, Aggregates,
        DocContext, TLC

CONSTANTS a1, a2, x1, x2, f1, f2

VARIABLE part

Line(name, val, link, rows) ==
  [name |-> name, val |-> val, link |-> link, owner |-> FALSE, rows |-> rows]
Row(name, shown) == <<[name |-> name, shown |-> shown]>>
Command(kind, lines) ==
  [kind |-> kind, lines |-> lines, json |-> FALSE, keepsName |-> TRUE, submit |-> FALSE,
   workers |-> 2, failFast |-> TRUE, dry |-> FALSE, filters |-> FALSE, from |-> 0, set |-> 1]

Draft(rows) == [NoDoc EXCEPT !.there = TRUE, !.ver = 1, !.rows = rows, !.made = Len(rows)]
OneRow == <<[name |-> 1, shown |-> 1, hidden |-> 1]>>
MCSites == {[n \in Names |-> IF n = 1 THEN Draft(OneRow) ELSE IF n = 2 THEN Draft(<<>>) ELSE NoDoc]}

\* An exported file, with a value changed and a row added below.
Exported == Flatten(1, Draft(OneRow)) \o <<Line(None, 0, None, Row(0, 1)), Line(2, 1, None, <<>>)>>
Blank == Line(None, 0, None, <<>>)
MCJobs ==
  {Command("update", Exported),
   [Command("update", Exported) EXCEPT !.dry = TRUE],
   Command("update", <<Line(1, 0, None, Row(0, 0)), Line(2, 1, None, Row(0, 1))>>),
   [Command("update", <<Line(2, 1, None, Row(0, 1))>>) EXCEPT !.submit = TRUE, !.json = TRUE],
   Command("insert", <<Line(3, 1, None, Row(1, 0)), Line(2, 0, 3, <<>>)>>),
   Command("insert", <<Line(2, 0, 3, <<>>), Line(3, 1, None, <<>>)>>),
   Command("insert", <<Line(2, 1, None, <<>>), Line(3, 0, 2, <<>>)>>),
   Command("insert", <<Line(None, 1, None, <<>>), Line(3, 0, None, <<>>)>>),
   [Command("insert", <<Line(None, 1, None, Row(1, 1))>>) EXCEPT !.keepsName = FALSE, !.submit = TRUE],
   Command("update", <<Line(None, 0, None, Row(1, 1)), [Blank EXCEPT !.owner = TRUE]>>),
   Command("update", <<Line(1, Bad, None, <<>>)>>),
   [Command("insert", <<Blank, Line(3, 0, None, <<>>)>>) EXCEPT !.json = TRUE],
   Command("set", <<Line(1, 1, None, <<>>), Line(3, 1, None, <<>>), Line(2, 1, None, <<>>)>>),
   [Command("submit", <<>>) EXCEPT !.filters = TRUE],
   [Command("cancel", <<Line(1, 0, None, <<>>), Line(2, 0, None, <<>>)>>) EXCEPT !.from = 1],
   Command("delete", <<Line(1, 0, None, <<>>), Line(2, 0, None, <<>>)>>)}

MCOwners ==
  {a1 :> p[1] @@ a2 :> p[2] :
     p \in {<<"screen", "screen">>, <<"key", "key">>, <<"wizard", "screen">>, <<"screen", "key">>}}

\* The jobs: one command of any kind, and another that resumes or asks for a
\* report of its own.
MCAsks == x1 :> (Imports \cup Reports)
            @@ x2 :> ({[cmd |-> "resume"]} \cup {r \in Reports : ~r.reuse /\ r.filters = f1})

\* The files: a DocType with fields and tables, of which some may not be read.
Meta(table, name, kind, may) == [table |-> table, name |-> name, kind |-> kind, readable |-> may]
MCMetaFields ==
  {Meta("", "a", "data", TRUE), Meta("", "b", "data", FALSE), Meta("", "p", "password", TRUE),
   Meta("", "t", "table", TRUE), Meta("", "u", "table", FALSE), Meta("t", "a", "data", TRUE),
   Meta("t", "p", "password", TRUE), Meta("u", "a", "data", TRUE)}
In(table, name) == [table |-> table, name |-> name]
Want(kind, to, force, fields, tables) ==
  [kind |-> kind, to |-> to, force |-> force, limit |-> 0, order |-> "default", field |-> FALSE,
   sel |-> [fields |-> fields, tables |-> tables]]
Download == Want("download", "file", TRUE, {}, {})
Pdf == Want("pdf", "file", FALSE, {}, {})
Upload == Want("upload", "out", FALSE, {}, {})
MCWants ==
  x1 :> {Want("export", "file", FALSE, {}, {"all"}),
         [Want("export", "out", FALSE, {In("", "a"), In("t", "a")}, {"all"}) EXCEPT !.limit = 1],
         Want("export", "file", FALSE, {In("", "b")}, {"all"}),
         Want("export", "file", TRUE, {}, {"u"}),
         [Want("pages", "out", FALSE, {}, {}) EXCEPT !.order = "own"],
         Want("workbook", "file", TRUE, {In("t", "*")}, {"all"}),
         Pdf, Download, Upload, [Upload EXCEPT !.field = TRUE]}
    @@ x2 :> {Download, Pdf}

\* Customizations: of a DocType with rows, one with scripts, and a third
\* whose file has the first's name.
Newer(a, b) == <<[col |-> a, newer |-> b]>>
MCSourceSites ==
  {[d \in Customs |-> IF d = 1 THEN CustomDoc(1, "text 1", Newer(1, 0), 2)
                      ELSE IF d = 2 THEN CustomDoc(Cleared, NoScript, <<>>, x) ELSE NoCustom] :
     x \in {First, 1}}
MCTargetSites ==
  {[d \in Customs |-> NoCustom],
   [d \in Customs |-> IF d = 1 THEN CustomDoc(2, NoScript, Newer(1, 1), First)
                      ELSE IF d = 2 THEN CustomDoc(1, NoScript, <<>>, First) ELSE NoCustom]}
Pulled(script, rows, after) ==
  [there |-> TRUE, plain |-> 1, script |-> script, rows |-> rows, after |-> after]
MCDirs ==
  {[json |-> [d \in Customs |-> NoCustomFile], sidecar |-> [d \in Customs |-> "none"]],
   [json |-> [d \in Customs |-> IF d = 2 THEN Pulled(Beside, <<>>, First)
                                ELSE IF d = 3 THEN Pulled(NoScript, <<1>>, 1) ELSE NoCustomFile],
    sidecar |-> [d \in Customs |-> IF d = 2 THEN "text 1" ELSE "none"]]}
MCSameFile == {<<1, 3>>, <<3, 1>>}

\* Aggregates: any question and, at once, whoami or a plain one.
MCQuestions ==
  x1 :> {q \in Queries : q.limit # 2 /\ (q.hidden \/ q.wrong # "no" => q.limit = 1) /\ (q.byIt => q.hidden)}
    @@ x2 :> (Whoamis \cup {[cmd |-> "aggregate", limit |-> 1, hidden |-> FALSE, byIt |-> FALSE, wrong |-> "no"]})

\* The rights: fields of several levels, read by a role, by all or by Desk
\* User, and a history that changed each.
F(table, name, kind, level) == [table |-> table, name |-> name, kind |-> kind, level |-> level]
MCFields(level) ==
  {F("", "a", "data", 0), F("", "b", "data", level), F("", "p", "password", 0), F("", "t", "table", 0),
   F("", "u", "table", 1), F("t", "a", "data", 0), F("t", "b", "data", 1), F("u", "a", "data", 0)}
Perm(role, level, rights, owner) == [role |-> role, level |-> level, rights |-> rights, owner |-> owner]
ByRole == {Perm("Clerk", 0, {"read", "create"}, FALSE), Perm("Clerk", 1, {"read"}, FALSE)}
ByAll == {Perm("All", 0, {"read", "create", "submit"}, TRUE), Perm("Desk User", 1, {"read"}, FALSE),
          Perm("Desk User", 0, {"submit", "select"}, FALSE)}
DocType(level, perms, submittable) ==
  [fields |-> MCFields(level), perms |-> perms, submittable |-> submittable]
Plain == [DocType(1, {}, TRUE) EXCEPT !.fields = {F("", "a", "data", 0), F("", "b", "data", 1), F("", "p", "password", 0)}]
MCMetas == {Plain, DocType(1, ByRole, FALSE), DocType(2, ByRole, TRUE), DocType(1, ByAll, TRUE)}
Change(what, table, field) == [what |-> what, table |-> table, field |-> field]
MCVersions ==
  <<Change("changed", "", "a"), Change("changed", "", "b"), Change("changed", "", "docstatus"),
    Change("changed", "", "p"), Change("row", "t", "b"), Change("row", "u", "a"),
    Change("added", "u", ""), Change("removed", "t", ""), Change("changed", "", "gone")>>
MCTimeline == <<{}, {"Version"}, {"Comment", "ToDo"}, {"?"}, {"Comment"}>>
\* Bound: --full with both of the other parts.
FullHasParts == {q \in Contexts : q.full => q.links /\ q.timeline}
MCViews == x1 :> (FullHasParts \cup Cans)

-----------------------------------------------------------------------------
parts == <<vars, signVars, siteJobVars, readerVars, customVars, aggVars, contextVars>>

\* The other parts stay in one initial state.
MCInit ==
  /\ part \in {"docs", "signin", "imports", "reports", "files", "customs", "aggregates", "context"}
  /\ Init /\ (part # "docs" => job = Command("delete", <<Line(1, 0, None, <<>>), Line(2, 0, None, <<>>)>>))
  /\ SignInit /\ (part # "signin" => by = a1 :> "screen" @@ a2 :> "screen")
  /\ JobInit /\ (part # "imports" => ~marks) /\ (part # "reports" => reports = <<>>)
  /\ FileInit /\ (part # "files" => disk = NoOutput /\ links)
  /\ CustomInit /\ (part # "customs" =>
                    source[2].after = 1 /\ ~target[1].there /\ ~json[2].there)
  /\ AggInit /\ (part # "aggregates" => major = 16 /\ ~unordered /\ cache = NoCache)
  /\ ContextInit /\ (part # "context" => meta = Plain /\ user = "Guest")

\* An import and a report are not run at once.
OneKindOfJob ==
  \A c \in Runs : run[c].at # "idle" => (run[c].ask.cmd = "report") = (part = "reports")

MCNext ==
  /\ UNCHANGED part
  /\ \/ part = "docs" /\ Next
          /\ UNCHANGED <<signVars, siteJobVars, readerVars, customVars, aggVars, contextVars>>
     \/ part = "signin" /\ SignNext
          /\ UNCHANGED <<vars, siteJobVars, readerVars, customVars, aggVars, contextVars>>
     \/ part \in {"imports", "reports"} /\ JobNext /\ OneKindOfJob'
          /\ UNCHANGED <<vars, signVars, readerVars, customVars, aggVars, contextVars>>
     \/ part = "files" /\ FileNext
          /\ UNCHANGED <<vars, signVars, siteJobVars, customVars, aggVars, contextVars>>
     \/ part = "customs" /\ CustomNext
          /\ UNCHANGED <<vars, signVars, siteJobVars, readerVars, aggVars, contextVars>>
     \/ part = "aggregates" /\ AggNext
          /\ UNCHANGED <<vars, signVars, siteJobVars, readerVars, customVars, contextVars>>
     \/ part = "context" /\ ContextNext
          /\ UNCHANGED <<vars, signVars, siteJobVars, readerVars, customVars, aggVars>>

MCSpec == MCInit /\ [][MCNext]_<<part, parts>>
=============================================================================
