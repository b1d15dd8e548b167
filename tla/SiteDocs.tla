------------------------------ MODULE SiteDocs ------------------------------
(***************************************************************************)
(* The documents of one DocType on a site, as the client's calls read and  *)
(* change them (internal/client/client.go, lifecycle.go).  A document has  *)
(* one field of its own, one Link to a document of the same DocType and    *)
(* one child table, whose rows have a column the commands' files show and  *)
(* one they do not.                                                        *)
(***************************************************************************)
EXTENDS Integers, Sequences, FiniteSets, SequencesExt, Selection

CONSTANTS
  Names,      \* the document names of the instance, in their order
  Vals        \* the values of a field; 0 is its default

ASSUME NamesAreOrdered == Names \subseteq Nat \ {0} /\ IsFiniteSet(Names)
ASSUME ValsHaveDefault == 0 \in Vals /\ Vals \subseteq Nat /\ \E v \in Vals : v # 0

VARIABLE site     \* the document under each name; ver is its "modified", which
                  \* grows also when a name is used again

None == 0
Rows == Seq([name: Nat, shown: Vals, hidden: Vals])
Documents == [there: BOOLEAN, ver: Nat, ds: 0..2, val: Vals, rows: Rows, made: Nat]
NoDoc == [there |-> FALSE, ver |-> 0, ds |-> 0, val |-> 0, rows |-> <<>>, made |-> 0]

Exists(name) == name \in Names /\ site[name].there
Removal(doc) == [NoDoc EXCEPT !.ver = doc.ver, !.made = doc.made]
RowNames(rows) == {rows[i].name : i \in DOMAIN rows} \ {0}

\* The site gives each row a name of its own, and what is gone has none.
WellFormed(doc) ==
  /\ \A i \in DOMAIN doc.rows : doc.rows[i].name \in 1..doc.made
  /\ \A i, j \in DOMAIN doc.rows : doc.rows[i].name = doc.rows[j].name => i = j
  /\ IF doc.there THEN doc.ver # 0 ELSE doc.rows = <<>> /\ doc.ds = 0

\* A body of a write: a sequence of one value, or of none for a key that is
\* not sent; modified is 0 when it is not sent.
Body(val, rows, modified) == [val |-> val, rows |-> rows, modified |-> modified]

\* The site saves a document: a table that is sent replaces the table, and
\* its rows without a name get new ones.
Saved(doc, body) ==
  LET rows == IF body.rows = <<>> THEN doc.rows ELSE body.rows[1]
      new(i) == Cardinality({j \in 1..i : rows[j].name = 0})
  IN [doc EXCEPT !.there = TRUE, !.ver = @ + 1,
                 !.val = IF body.val = <<>> THEN @ ELSE body.val[1],
                 !.rows = [i \in DOMAIN rows |->
                             IF rows[i].name # 0 THEN rows[i]
                             ELSE [rows[i] EXCEPT !.name = doc.made + new(i)]],
                 !.made = @ + new(Len(rows))]

\* What the site says of each call, and the documents after it.  It refuses
\* a write to a version that is not the last, one of a document that is
\* cancelled, a Link to nothing, and a document without a name where the
\* file's names are kept; Ok carries the document.
Answer(err, doc) == [err |-> err, doc |-> doc]
Refused(err) == Answer(err, NoDoc)

GetDoc(name) == IF Exists(name) THEN Answer("ok", site[name]) ELSE Refused("notFound")

CreateDoc(name, body, link) ==
  IF name \notin Names THEN Refused("unnamed")
  ELSE IF Exists(name) THEN Refused("duplicate")
  ELSE IF link # None /\ ~Exists(link) THEN Refused("noLink")
  ELSE Answer("ok", Saved(site[name], body))

UpdateDoc(name, body) ==
  IF ~Exists(name) THEN Refused("notFound")
  ELSE IF body.modified \notin {0, site[name].ver} THEN Refused("stale")
  ELSE IF site[name].ds = 2 THEN Refused("state")
  ELSE Answer("ok", Saved(site[name], body))

\* frappe.client.submit takes the document as it was read, and cancel only
\* its name.
SubmitDoc(name, read) ==
  IF ~Exists(name) THEN Refused("notFound")
  ELSE IF read.ver # site[name].ver THEN Refused("stale")
  ELSE IF site[name].ds # 0 THEN Refused("state")
  ELSE Answer("ok", [site[name] EXCEPT !.ver = @ + 1, !.ds = 1])

CancelDoc(name) ==
  IF ~Exists(name) THEN Refused("notFound")
  ELSE IF site[name].ds # 1 THEN Refused("state")
  ELSE Answer("ok", [site[name] EXCEPT !.ver = @ + 1, !.ds = 2])

DeleteDoc(name) ==
  IF ~Exists(name) THEN Refused("notFound")
  ELSE IF site[name].ds = 1 THEN Refused("state")
  ELSE Answer("ok", Removal(site[name]))

Apply(name, answer) == site' = [site EXCEPT ![name] = answer.doc]
=============================================================================
