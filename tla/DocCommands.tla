---------------------------- MODULE DocCommands -----------------------------
(***************************************************************************)
(* A command over many documents, an edit-doc session and other people, at *)
(* work on the same documents at once.                                     *)
(***************************************************************************)
EXTENDS BulkRuns, EditDoc

CONSTANTS
  Sites,       \* the documents there are when the commands start
  MaxDesk      \* bound: what other people do meanwhile

ASSUME SitesAreWellFormed ==
  \A s \in Sites : s \in [Names -> Documents] /\ \A name \in Names : WellFormed(s[name])

VARIABLE desk  \* how often they did

vars == <<site, bulkVars, edit, desk>>

Init ==
  /\ site \in Sites /\ desk = 0
  /\ BulkInit /\ EditInit

\* Somebody saves, submits or deletes a document in the desk: the columns
\* no command's file shows change too, and rows come and go.
Other(v) == CHOOSE w \in Vals : w # v
Hide(doc) == [doc EXCEPT !.ver = @ + 1,
                         !.rows = [i \in DOMAIN doc.rows |-> [doc.rows[i] EXCEPT !.hidden = Other(@)]]]
AddRow(doc, v) ==
  [doc EXCEPT !.ver = @ + 1, !.made = @ + 1,
              !.rows = Append(@, [name |-> doc.made + 1, shown |-> v, hidden |-> v])]
Changes(doc) ==
  LET v == Other(0)
  IN {[doc EXCEPT !.ver = @ + 1, !.val = v], Hide(doc), AddRow(doc, v)}

Desk ==
  /\ desk < MaxDesk /\ desk' = desk + 1 /\ (phase # "parse" => edit.pc = "start")
  /\ \E name \in Names :
       /\ Exists(name) /\ site[name].ds = 0
       /\ \E doc \in Changes(site[name]) \cup {[site[name] EXCEPT !.ver = @ + 1, !.ds = 1], Removal(site[name])} :
            site' = [site EXCEPT ![name] = doc]
  /\ UNCHANGED <<bulkVars, edit>>

Silent == UNCHANGED <<site, edit, desk>>
Bulk ==
  \/ /\ Parse \/ Select \/ CheckLinks \/ CheckUnnamedRows \/ BeginImport \/ Confirm \/ Refuse
          \/ Look \/ Report
     /\ Silent
  \/ \E w \in Workers :
       \/ (Take(w) \/ Skip(w) \/ Start(w)) /\ Silent
       \/ (Create(w) \/ ReadUpdate(w) \/ WriteUpdate(w) \/ WriteSet(w) \/ ReadState(w)
             \/ Cancel(w) \/ Delete(w) \/ ReadSubmit(w) \/ Submit(w))
          /\ UNCHANGED <<edit, desk>>
Editor == (phase # "parse" => desk = 0) /\ EditNext /\ UNCHANGED <<bulkVars, desk>>
CtrlC == Interrupt /\ Silent

\* Bounds: two of the three work at a time, and a session that runs beside
\* a command has its file written when the command starts.
Bound ==
  /\ phase # "parse" => desk = 0 \/ edit.pc = "start"
  /\ phase # "parse" => edit.pc # "editor"

Next == (Bulk \/ Editor \/ CtrlC \/ Desk) /\ Bound'

Spec == Init /\ [][Next]_vars

-----------------------------------------------------------------------------
TypeOK == BulkTypeOK /\ EditTypeOK

\* What one step did to a document.
Gone(name) == {row \in ToSet(site[name].rows) : row.name \notin RowNames(site'[name].rows)}
Stays(name) == {row \in ToSet(site[name].rows) : row.name \in RowNames(site'[name].rows)}
ByEdit(name) == site'[name] # site[name] /\ edit' # edit
ByImport(name) == site'[name] # site[name] /\ IsImport /\ worker' # worker

\* Neither an import nor an edit loses what its file does not show: a row
\* that stays keeps its hidden column, whoever saved it last; edit-doc
\* removes only rows its user saw removed, and never one that is there
\* again without its name; and an import that names no row of a table
\* replaces only rows that were added since it looked (importJob.one,
\* checkUnnamedRows, editForm.body, checkReplaced).
KeepsUnseen ==
  [][\A name \in Names :
       /\ (ByEdit(name) \/ ByImport(name)) =>
            \A row \in Stays(name), new \in ToSet(site'[name].rows) :
              new.name = row.name => new.hidden = row.hidden
       /\ ByEdit(name) =>
            /\ Gone(name) = IF edit.file.rows = <<>> THEN {} ELSE Removed(edit.doc, edit.file.rows[1])
            /\ \A row \in Gone(name), new \in ToSet(site'[name].rows) \ ToSet(site[name].rows) :
                 new.name \notin RowNames(site[name].rows) => new.shown # row.shown
       /\ ByImport(name) =>
            \A i \in Items : docs[i].name = name /\ Unnamed(docs[i]) =>
              \A row \in Gone(name) : row.name > seen[name]]_vars

\* What a document's writes are when it is done, and a true line of the report.
Wanted(i) ==
  LET first == CASE job.kind = "insert" -> <<"create">>
                 [] job.kind \in {"update", "set"} ->
                      IF report[i].did = "unchanged" THEN <<>> ELSE <<"update">>
                 [] OTHER -> <<job.kind>>
      both == first \o <<"submit">>
  IN IF ~job.submit THEN {first} ELSE IF job.kind = "insert" THEN {both} ELSE {first, both}
Told(i) ==
  LET r == report[i]
  IN /\ r.status \in {"done", "skipped", "planned", "error", "interrupted"}
     /\ r.status = "done" => applied[i] \in Wanted(i)
     /\ r.status = "skipped" => i \notin sent
     /\ r.status = "planned" => applied[i] = <<>>
     /\ r.status \in {"error", "interrupted"} /\ applied[i] # <<>> =>
          r.why = "lost" \/ r.did \in {"created", "updated"}

\* The report is true: what is "done" was applied once and whole, what is
\* "skipped" or held back never reached the site, and what failed with the
\* site's answer was not applied, unless the report says what was
\* (bulk.go, runBulk; import.go, importJob.one).  Once the checks found a
\* link that only the file's own documents can satisfy, a document that
\* links to one above it is refused for that link only when the other was
\* not created, or is gone again (checkLinks, sameFile: the file's order).
ReportIsTrue ==
  phase = "reported" =>
    /\ \A i \in Items : Told(i)
    /\ \A i, j \in Items :
         sameFile /\ report[j].why = "noLink" /\ docs[j].link = docs[i].name /\ i < j =>
           report[i].status # "done" \/ ~Exists(docs[i].name)
=============================================================================
