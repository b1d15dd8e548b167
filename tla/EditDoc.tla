------------------------------ MODULE EditDoc -------------------------------
(***************************************************************************)
(* ffc edit-doc (internal/cmd/edit_doc.go): a document is read, its        *)
(* editable part is written to a file, the user edits the file until it    *)
(* parses, sees what changes, and the changes are saved on top of the      *)
(* document as it was read.                                                *)
(***************************************************************************)
EXTENDS SiteDocs

CONSTANT MaxRows       \* bound: rows of a table in the edited file

ASSUME MaxRowsIsNat == MaxRows \in Nat

VARIABLE edit          \* the session: where it is, the document and the file

editVars == <<edit>>

NoFileYet == [val |-> <<>>, rows |-> <<>>]
EditTypeOK ==
  /\ edit.pc \in {"start", "editor", "confirm", "saved", "over"}
  /\ edit.doc \in Documents

\* The editable part: the field, and the rows with the column shown.  Once
\* the document is submitted the field is left out and the rows are fixed.
Submitted(doc) == doc.ds = 1
Shown(row) == [name |-> row.name, shown |-> row.shown]
Rendered(doc) == [val |-> IF Submitted(doc) THEN <<>> ELSE <<doc.val>>,
                  rows |-> <<[i \in DOMAIN doc.rows |-> Shown(doc.rows[i])]>>]

\* What the user may write: the table left out, values changed, rows moved,
\* removed, added, or without their "name" line.
Files(doc) ==
  LET cells == {[name |-> n, shown |-> v] : n \in RowNames(doc.rows) \cup {0}, v \in Vals}
  IN [val: IF Submitted(doc) THEN {<<>>} ELSE {<<v>> : v \in Vals},
      rows: {<<>>} \cup {<<rows>> : rows \in UNION {[1..n -> cells] : n \in 0..MaxRows}}]

OldRow(doc, name) == CHOOSE row \in ToSet(doc.rows) : row.name = name
Removed(doc, rows) == {row \in ToSet(doc.rows) : row.name \notin RowNames(rows)}

\* A new row that is a removed one without its "name" line would lose the
\* columns that are not shown.
Replaces(doc, rows) ==
  \E i \in DOMAIN rows, old \in Removed(doc, rows) : rows[i].name = 0 /\ rows[i].shown = old.shown

\* The rows of a submitted document can be changed, not added, removed or
\* moved.
Moved(doc, rows) == [i \in DOMAIN rows |-> rows[i].name] # [i \in DOMAIN doc.rows |-> doc.rows[i].name]

Unparsable(doc, file) ==
  /\ file.rows # <<>>
  /\ LET rows == file.rows[1]
     IN \/ \E i, j \in DOMAIN rows : i < j /\ rows[i].name = rows[j].name /\ rows[i].name # 0
        \/ Submitted(doc) /\ Moved(doc, rows)
        \/ Replaces(doc, rows)

\* The changes: the field when it differs, the table when any row does.
FieldChanged(doc, file) == file.val # <<>> /\ file.val[1] # doc.val
TableChanged(doc, file) == file.rows # <<>> /\ file.rows # Rendered(doc).rows

\* A changed table is sent whole: the rows it keeps as they were read, with
\* the changes on top, and the new ones.
SentRow(doc, row) ==
  IF row.name = 0 THEN [name |-> 0, shown |-> row.shown, hidden |-> 0]
  ELSE [OldRow(doc, row.name) EXCEPT !.shown = row.shown]
EditBody(doc, file) ==
  Body(IF FieldChanged(doc, file) THEN file.val ELSE <<>>,
       IF TableChanged(doc, file)
       THEN <<[i \in DOMAIN file.rows[1] |-> SentRow(doc, file.rows[1][i])]>> ELSE <<>>,
       doc.ver)

-----------------------------------------------------------------------------
Closed(pc) == [pc |-> pc, name |-> None, doc |-> NoDoc, file |-> NoFileYet]
EditInit == edit = Closed("start")

Open(name) ==
  /\ edit.pc = "start"
  /\ LET answer == GetDoc(name)
     IN edit' = IF answer.err # "ok" \/ answer.doc.ds = 2 THEN Closed("over")
                ELSE [pc |-> "editor", name |-> name, doc |-> answer.doc, file |-> Rendered(answer.doc)]
  /\ UNCHANGED site

\* The editor closes: a file that does not parse is opened again, below the
\* error; one that changes nothing ends the edit.
Edit(file) ==
  /\ edit.pc = "editor" /\ ~Unparsable(edit.doc, file)
  /\ edit' = IF FieldChanged(edit.doc, file) \/ TableChanged(edit.doc, file)
             THEN [edit EXCEPT !.pc = "confirm", !.file = file]
             ELSE Closed("over")
  /\ UNCHANGED site

\* The user gives up: the file is left as it was opened, or empty, the editor
\* fails, the question is answered with no.
GiveUp ==
  /\ edit.pc \in {"editor", "confirm"}
  /\ edit' = Closed("over")
  /\ UNCHANGED site

\* The user agrees to the changes shown.
Save ==
  /\ edit.pc = "confirm"
  /\ LET answer == UpdateDoc(edit.name, EditBody(edit.doc, edit.file))
     IN IF answer.err = "ok"
        THEN Apply(edit.name, answer) /\ edit' = Closed("saved")
        ELSE edit' = Closed("over") /\ UNCHANGED site

EditNext ==
  \/ \E name \in Names : Open(name)
  \/ edit.pc = "editor" /\ \E file \in Files(edit.doc) : Edit(file)
  \/ GiveUp \/ Save
=============================================================================
