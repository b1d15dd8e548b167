------------------------------ MODULE BulkRuns ------------------------------
(***************************************************************************)
(* One command that changes many documents (internal/cmd): ffc import,     *)
(* bulk-update, bulk-delete, bulk-submit and bulk-cancel.  The command     *)
(* reads its file or lists the documents, checks what it can before it     *)
(* writes anything, and hands the items to workers (bulk.go, runBulk).     *)
(* Each item is one or several requests, and other people save the same    *)
(* documents between any two of them.                                      *)
(***************************************************************************)
EXTENDS SiteDocs

CONSTANT Jobs      \* the commands of the instance

Bad == -1          \* a value of a file that its field cannot take

\* A line of a file, and a command with its flags.
FileRows == Seq([name: Nat, shown: Vals])
Lines == [name: Nat, val: Vals \cup {Bad}, link: Nat, owner: BOOLEAN, rows: FileRows]
Commands ==
  [kind: {"insert", "update", "set", "submit", "cancel", "delete"}, lines: Seq(Lines),
   json: BOOLEAN, keepsName: BOOLEAN, submit: BOOLEAN, workers: Nat \ {0}, failFast: BOOLEAN,
   dry: BOOLEAN, filters: BOOLEAN, from: 0..2, set: Vals]
ASSUME JobsAreCommands ==
  Jobs \subseteq Commands /\ \A j \in Jobs : j.submit => j.kind \in {"insert", "update"}

VARIABLES
  job,        \* the command: its kind, its lines and its flags
  phase,      \* where the command is
  docs,       \* the documents it is to change, in order
  problems,   \* whether the file has problems
  sameFile,   \* some document links to one created earlier in the file
  at,         \* the document the checks are at
  next,       \* the first item that was not handed to a worker
  dispatch,   \* the loop that hands them out: "look", "offer" or "closed"
  worker,     \* each worker: its item and where it is
  stopped,    \* an item failed under --fail-fast
  cancelled,  \* Ctrl+C
  report,     \* what is reported of each item
  \* History variables.
  applied,    \* the writes of each item that reached the site
  sent,       \* the items of which a request was sent
  seen        \* the rows each document had had when they were checked

fileVars == <<job, docs, problems, sameFile, at, seen>>
runVars == <<next, dispatch, worker, stopped, report, applied, sent>>
bulkVars == <<phase, fileVars, cancelled, runVars>>

Items == DOMAIN docs
Workers == DOMAIN worker
IsImport == job.kind \in {"insert", "update"}
Idle == [pc |-> "idle", i |-> 0, name |-> None, doc |-> NoDoc, did |-> "none"]
Unreported == [status |-> "none", why |-> "none", did |-> "none"]

BulkTypeOK ==
  /\ site \in [Names -> Documents]
  /\ job \in Jobs
  /\ phase \in {"parse", "links", "rows", "confirm", "run", "reported", "refused"}
  /\ {problems, sameFile, stopped, cancelled} \subseteq BOOLEAN
  /\ dispatch \in {"look", "offer", "closed"} /\ next \in 1..(Len(docs) + 1)
  /\ \A w \in Workers : worker[w].i \in Items \cup {0}
  /\ \A i \in DOMAIN report : report[i].status \in
       {"none", "done", "error", "interrupted", "skipped", "planned"}

BulkInit ==
  /\ job \in Jobs
  /\ phase = "parse" /\ docs = <<>> /\ at = 1 /\ problems = FALSE /\ sameFile = FALSE
  /\ next = 1 /\ dispatch = "look" /\ worker = [w \in 1..job.workers |-> Idle]
  /\ stopped = FALSE /\ cancelled = FALSE
  /\ report = <<>> /\ applied = <<>> /\ sent = {}
  /\ seen = [name \in Names |-> 0]

-----------------------------------------------------------------------------
(***************************************************************************)
(* The file.  A line of a CSV file has the document's values, at most one  *)
(* row of the table, and a mark in a column that is ignored; an item of a  *)
(* JSON file has all the document's rows.                                  *)
(***************************************************************************)
HasValues(line) == line.name # None \/ line.val # 0 \/ line.link # None
Document(line) == [name |-> line.name, val |-> line.val, link |-> line.link, rows |-> line.rows]

\* A line with one of the document's values, or a marked one with a row,
\* starts a document, as each item does; the other lines continue it.  A
\* line of which nothing would be imported, and a row above the first
\* document, are problems.
Starts ==
  {l \in DOMAIN job.lines :
     LET line == job.lines[l]
     IN HasValues(line) \/ (line.rows # <<>> /\ (job.json \/ line.owner))}
Stray(l) ==
  /\ l \in DOMAIN job.lines \ Starts
  /\ LET line == job.lines[l]
     IN IF line.rows = <<>> THEN job.json \/ line.owner ELSE \A s \in Starts : l < s

RowLines(first) ==
  {l \in DOMAIN job.lines :
     first <= l /\ job.lines[l].rows # <<>> /\ \A s \in Starts : s <= first \/ l < s}
RowsFrom(first) ==
  IF job.json THEN job.lines[first].rows
  ELSE LET lines == Chosen(job.lines, RowLines(first))
       IN [k \in DOMAIN lines |-> lines[k].rows[1]]
FileDocs ==
  LET starts == Ascending(Starts)
  IN [i \in DOMAIN starts |-> [Document(job.lines[starts[i]]) EXCEPT !.rows = RowsFrom(starts[i])]]

\* export lays a document out in lines: the first has its values and its
\* first row, the others a row each.
Cell(row) == [name |-> row.name, shown |-> row.shown]
Flatten(name, doc) ==
  [i \in 1..(IF Len(doc.rows) > 1 THEN Len(doc.rows) ELSE 1) |->
     [name |-> IF i = 1 THEN name ELSE None, val |-> IF i = 1 THEN doc.val ELSE 0,
      link |-> None, owner |-> FALSE,
      rows |-> IF i > Len(doc.rows) THEN <<>> ELSE <<Cell(doc.rows[i])>>]]

\* The names are checked before anything is converted: each document of an
\* update has one, a document or a row appears once.
Named(d) == d.name # None /\ (job.kind = "update" \/ job.keepsName)
Twice(f) == \E i, j \in DOMAIN f : i < j /\ f[i].name = f[j].name /\ f[i].name # 0
NamesWrong(ds) ==
  \/ \E i, j \in DOMAIN ds : i < j /\ Named(ds[i]) /\ ds[i].name = ds[j].name
  \/ job.kind = "update" /\ \E i \in DOMAIN ds : ds[i].name = None \/ Twice(ds[i].rows)

\* A value its field cannot take is a problem, and is left out.
Unconverted(ds) == \E i \in DOMAIN ds : ds[i].val = Bad
Convert(ds) == [i \in DOMAIN ds |-> IF ds[i].val = Bad THEN [ds[i] EXCEPT !.val = 0] ELSE ds[i]]

\* Everything that is done before the site is asked.
Parse ==
  /\ phase = "parse" /\ IsImport
  /\ docs' = Convert(FileDocs)
  /\ problems' = ((\E l \in DOMAIN job.lines : Stray(l)) \/ NamesWrong(FileDocs) \/ Unconverted(FileDocs))
  /\ phase' = IF Starts = {} THEN "refused" ELSE "links"
  /\ UNCHANGED <<job, sameFile, at, seen, cancelled, runVars>>

\* A bulk command takes its items from its file, or lists the documents
\* that are in the state it needs.
Listed == Ascending({n \in Names : Exists(n) /\ site[n].ds = job.from})
Item(name) == [name |-> name, val |-> job.set, link |-> None, rows |-> <<>>]
Select ==
  /\ phase = "parse" /\ ~IsImport
  /\ LET named == [i \in DOMAIN job.lines |-> job.lines[i].name]
         names == IF job.filters THEN Listed ELSE named
     IN /\ docs' = [i \in DOMAIN names |-> Item(names[i])]
        /\ phase' = IF names = <<>> \/ \E i \in DOMAIN names : names[i] = None
                    THEN "refused" ELSE "confirm"
  /\ UNCHANGED <<job, problems, sameFile, at, seen, cancelled, runVars>>

\* The names an insert keeps, with the document that brings them.
FileNames == IF job.kind = "insert" /\ job.keepsName
             THEN {docs[i].name : i \in Items} \ {None} ELSE {}
Creates(name) == CHOOSE i \in Items : docs[i].name = name

\* Links name a document of the site, or one created earlier in the file;
\* a user who may not list the documents leaves them to the site.
CheckLinks ==
  /\ phase = "links"
  /\ LET missing == {i \in Items : docs[i].link # None /\ ~Exists(docs[i].link)}
         above == {i \in missing : docs[i].link \in FileNames /\ Creates(docs[i].link) < i}
     IN \/ /\ problems' = (problems \/ missing # above)
           /\ sameFile' = (above # {})
        \/ /\ \E i \in Items : docs[i].link # None
           /\ UNCHANGED <<problems, sameFile>>
  /\ phase' = "rows"
  /\ UNCHANGED <<job, docs, at, seen, cancelled, runVars>>

\* An update must not replace rows that the file does not name: the
\* documents for which it would are read, one after the other.
Unnamed(d) == job.kind = "update" /\ d.name # None /\ d.rows # <<>> /\ RowNames(d.rows) = {}
CheckUnnamedRows ==
  /\ phase = "rows" /\ at \in Items
  /\ LET d == docs[at]
     IN IF Unnamed(d) /\ Exists(d.name)
        THEN /\ problems' = (problems \/ site[d.name].rows # <<>>)
             /\ seen' = [seen EXCEPT ![d.name] = site[d.name].made]
        ELSE UNCHANGED <<problems, seen>>
  /\ at' = at + 1
  /\ UNCHANGED <<job, phase, docs, sameFile, cancelled, runVars>>

\* Any problem: nothing is written.  Else the workers start, one when a
\* document links to another of the file.
Begin(workers) ==
  /\ phase' = "run"
  /\ worker' = [w \in 1..workers |-> Idle]
  /\ report' = [i \in Items |-> Unreported] /\ applied' = [i \in Items |-> <<>>]
  /\ UNCHANGED <<fileVars, cancelled, next, dispatch, stopped, sent>>
BeginImport ==
  /\ phase = "rows" /\ at \notin Items /\ ~problems
  /\ Begin(IF sameFile \/ job.dry THEN 1 ELSE job.workers)
Confirm == phase = "confirm" /\ Begin(job.workers)
Refuse ==
  /\ \/ phase = "rows" /\ at \notin Items /\ problems
     \/ phase = "confirm"
  /\ phase' = "refused"
  /\ UNCHANGED <<fileVars, cancelled, runVars>>

-----------------------------------------------------------------------------
(***************************************************************************)
(* runBulk: a loop hands the items out over a channel without a buffer.    *)
(***************************************************************************)
Halted == stopped \/ cancelled

Look ==
  /\ phase = "run" /\ dispatch = "look"
  /\ IF next \in Items /\ ~Halted THEN dispatch' = "offer" ELSE dispatch' = "closed"
  /\ report' = IF Halted
               THEN [i \in Items |-> IF i < next THEN report[i]
                                     ELSE [Unreported EXCEPT !.status = "skipped"]]
               ELSE report
  /\ UNCHANGED <<phase, fileVars, cancelled, next, worker, stopped, applied, sent>>

Take(w) ==
  /\ phase = "run" /\ dispatch = "offer" /\ worker[w].pc = "idle"
  /\ worker' = [worker EXCEPT ![w] = [Idle EXCEPT !.pc = "recheck", !.i = next]]
  /\ next' = next + 1 /\ dispatch' = "look"
  /\ UNCHANGED <<phase, fileVars, cancelled, stopped, report, applied, sent>>

\* The item may have been handed over before the command was stopped.
Skip(w) ==
  /\ worker[w].pc = "recheck" /\ Halted
  /\ report' = [report EXCEPT ![worker[w].i].status = "skipped"]
  /\ worker' = [worker EXCEPT ![w] = Idle]
  /\ UNCHANGED <<phase, fileVars, cancelled, next, dispatch, stopped, applied, sent>>

FirstStep == CASE job.kind = "insert" -> "create"
               [] job.kind \in {"update", "submit", "cancel"} -> "read"
               [] job.kind = "set" -> "write"
               [] OTHER -> "delete"
Start(w) ==
  /\ worker[w].pc = "recheck" /\ ~Halted
  /\ worker' = [worker EXCEPT ![w].pc = FirstStep]
  /\ UNCHANGED <<phase, fileVars, cancelled, next, dispatch, stopped, report, applied, sent>>

End(w, status, why, did) ==
  /\ report' = [report EXCEPT ![worker[w].i] = [status |-> status, why |-> why, did |-> did]]
  /\ stopped' = (stopped \/ (status = "error" /\ job.failFast))
  /\ worker' = [worker EXCEPT ![w] = Idle]
Finish(w, status, why) == End(w, status, why, worker[w].did)

CutSkipped(w) == Finish(w, IF cancelled THEN "skipped" ELSE "error", "lost")   \* mutant

\* No answer: a request cut off by the cancellation is told apart.
Cut(w) == \/ Finish(w, "error", "lost")
          \/ cancelled /\ Finish(w, "interrupted", "lost")

GoOn(w, pc, name, doc, did) ==
  /\ worker' = [worker EXCEPT ![w] = [@ EXCEPT !.pc = pc, !.name = name, !.doc = doc, !.did = did]]
  /\ UNCHANGED <<stopped, report>>

Sends(w) ==
  /\ sent' = sent \cup {worker[w].i}
  /\ UNCHANGED <<phase, fileVars, cancelled, next, dispatch>>

\* A dry run's write is held back.
HeldBack(w) == job.dry /\ Finish(w, "planned", "none")

\* A write of item w.i, of which "what" is done at the site when it gets
\* there; Then is what follows its answer.
Write(w, name, what, answer, Then(_)) ==
  /\ Sends(w)
  /\ \/ HeldBack(w) /\ UNCHANGED <<site, applied>>
     \/ /\ ~job.dry /\ answer.err = "ok"
        /\ Apply(name, answer)
        /\ applied' = [applied EXCEPT ![worker[w].i] = Append(@, what)]
        /\ Then(answer.doc) \/ Cut(w)
     \/ /\ ~job.dry /\ answer.err # "ok"
        /\ Finish(w, "error", answer.err)
        /\ UNCHANGED <<site, applied>>
     \/ ~job.dry /\ Cut(w) /\ UNCHANGED <<site, applied>>

NotRead(w, name) == GetDoc(name).err # "ok" /\ Finish(w, "error", GetDoc(name).err)
Reads(w, name, Then(_)) ==
  /\ Sends(w)
  /\ \/ GetDoc(name).err = "ok" /\ Then(GetDoc(name).doc)
     \/ NotRead(w, name)
     \/ Cut(w)
  /\ UNCHANGED <<site, applied>>

-----------------------------------------------------------------------------
(***************************************************************************)
(* One item: importJob.one, lifecycleBulk.op, and the single requests of   *)
(* bulk-update and bulk-delete.                                            *)
(***************************************************************************)
It(w) == docs[worker[w].i]

\* An import with --submit submits what it wrote when it is a draft.
Submitting(w, name, doc, did) ==
  IF ~job.submit \/ doc.ds = 1 THEN End(w, "done", "none", did)
  ELSE IF doc.ds = 2 THEN End(w, "error", "state", did)
  ELSE GoOn(w, "sread", name, doc, did)

New(row) == [name |-> 0, shown |-> row.shown, hidden |-> 0]
SentRows(d) == Chosen(d.rows, {i \in DOMAIN d.rows : d.rows[i].shown # 0})
InsertBody(d) ==
  Body(IF d.val = 0 THEN <<>> ELSE <<d.val>>,
       <<[i \in DOMAIN SentRows(d) |-> New(SentRows(d)[i])]>>, 0)
MadeUp == CHOOSE name \in Names : ~Exists(name)
Create(w) ==
  /\ worker[w].pc = "create"
  /\ job.keepsName \/ \E name \in Names : ~Exists(name)   \* bound
  /\ LET name == IF job.keepsName THEN It(w).name ELSE MadeUp
     IN Write(w, name, "create", CreateDoc(name, InsertBody(It(w)), It(w).link),
              LAMBDA doc : Submitting(w, name, doc, "created"))

\* The file's document on top of the site's: the field when it differs, the
\* table whole when it differs in any way, the rows it names with the
\* values they have.
Kept(rows, row) == CHOOSE old \in ToSet(rows) : old.name = row.name
Merged(rows, row) ==
  IF row.name # 0 /\ row.name \in RowNames(rows)
  THEN [Kept(rows, row) EXCEPT !.shown = IF row.shown = 0 THEN @ ELSE row.shown]
  ELSE New(row)
UpdateBodyUnpinned(doc, d) ==       \* mutant: "modified" is not sent
  LET rows == [i \in DOMAIN d.rows |-> Merged(doc.rows, d.rows[i])]
  IN Body(IF d.val \in {0, doc.val} THEN <<>> ELSE <<d.val>>,
          IF d.rows = <<>> \/ rows = doc.rows THEN <<>> ELSE <<rows>>, 0)
UpdateBody(doc, d) ==
  LET rows == [i \in DOMAIN d.rows |-> Merged(doc.rows, d.rows[i])]
  IN Body(IF d.val \in {0, doc.val} THEN <<>> ELSE <<d.val>>,
          IF d.rows = <<>> \/ rows = doc.rows THEN <<>> ELSE <<rows>>,
          doc.ver)

ReadUpdate(w) ==
  /\ worker[w].pc = "read" /\ job.kind = "update"
  /\ Reads(w, It(w).name, LAMBDA doc :
       LET body == UpdateBody(doc, It(w))
       IN IF body.val = <<>> /\ body.rows = <<>>
          THEN Submitting(w, It(w).name, doc, "unchanged")
          ELSE GoOn(w, "write", It(w).name, doc, "none"))
WriteUpdate(w) ==
  /\ worker[w].pc = "write" /\ job.kind = "update"
  /\ Write(w, It(w).name, "update", UpdateDoc(It(w).name, UpdateBody(worker[w].doc, It(w))),
           LAMBDA doc : Submitting(w, It(w).name, doc, "updated"))

\* bulk-update sends the fields it was given, without "modified".
WriteSet(w) ==
  /\ worker[w].pc = "write" /\ job.kind = "set"
  /\ Write(w, It(w).name, "update", UpdateDoc(It(w).name, Body(<<It(w).val>>, <<>>, 0)),
           LAMBDA doc : Finish(w, "done", "none"))

\* bulk-submit and bulk-cancel read the document first, for its state.
ReadState(w) ==
  /\ worker[w].pc = "read" /\ job.kind \in {"submit", "cancel"}
  /\ Reads(w, It(w).name, LAMBDA doc :
       IF doc.ds # job.from THEN Finish(w, "error", "state")
       ELSE GoOn(w, IF job.kind = "submit" THEN "sread" ELSE "cancel", It(w).name, doc, "none"))
Cancel(w) ==
  /\ worker[w].pc = "cancel"
  /\ Write(w, It(w).name, "cancel", CancelDoc(It(w).name), LAMBDA doc : Finish(w, "done", "none"))
Delete(w) ==
  /\ worker[w].pc = "delete"
  /\ Write(w, It(w).name, "delete", DeleteDoc(It(w).name), LAMBDA doc : Finish(w, "done", "none"))

\* SubmitDoc reads the document again and sends it back as read.
ReadSubmit(w) ==
  /\ worker[w].pc = "sread"
  /\ Reads(w, worker[w].name, LAMBDA doc : GoOn(w, "submit", worker[w].name, doc, worker[w].did))
Submit(w) ==
  /\ worker[w].pc = "submit"
  /\ Write(w, worker[w].name, "submit", SubmitDoc(worker[w].name, worker[w].doc),
           LAMBDA doc : Finish(w, "done", "none"))

Work(w) ==
  Take(w) \/ Skip(w) \/ Start(w) \/ Create(w) \/ ReadUpdate(w) \/ WriteUpdate(w)
    \/ WriteSet(w) \/ ReadState(w) \/ Cancel(w) \/ Delete(w) \/ ReadSubmit(w) \/ Submit(w)

Report ==
  /\ phase = "run" /\ dispatch = "closed" /\ \A w \in Workers : worker[w].pc = "idle"
  /\ phase' = "reported"
  /\ UNCHANGED <<fileVars, cancelled, runVars>>

\* Ctrl+C, while the command checks or while it writes.
Interrupt ==
  /\ phase \in {"links", "rows", "confirm", "run"} /\ ~cancelled
  /\ cancelled' = TRUE
  /\ phase' = IF phase = "run" THEN phase ELSE "refused"
  /\ UNCHANGED <<fileVars, runVars>>
=============================================================================
