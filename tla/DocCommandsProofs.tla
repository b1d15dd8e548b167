-------------------------- MODULE DocCommandsProofs --------------------------
(***************************************************************************)
(* For any commands, documents and sites, and whatever other people do     *)
(* meanwhile: a bulk command's report is true, and neither an import nor   *)
(* an edit loses what its file does not show (DocCommands).  For any       *)
(* rights, roles and history: a user is shown what they may read and told  *)
(* of their rights what is so (DocContext).  For any groups: an aggregate  *)
(* is the top ones (Aggregates).                                           *)
(***************************************************************************)
EXTENDS DocCommands, DocContext, Aggregates, SelectionProofs

-----------------------------------------------------------------------------
(***************************************************************************)
(* What a call makes of a document of the site.                            *)
(***************************************************************************)
IsDocument(doc) == doc \in Documents /\ WellFormed(doc)

\* What any number of changes may make of a document: its version grows
\* with each, and a row that was not there gets a name that was never used.
Evolves(old, new) ==
  /\ IsDocument(new)
  /\ old.ver <= new.ver /\ old.made <= new.made
  /\ new # old /\ new.there => old.ver < new.ver
  /\ \A name \in RowNames(new.rows) : name \in RowNames(old.rows) \/ old.made < name

\* A body whose table fits a document: the rows it names are there.
Fits(doc, rows) ==
  /\ rows \in Rows
  /\ RowNames(rows) \subseteq RowNames(doc.rows)
  /\ \A i, j \in DOMAIN rows : rows[i].name = rows[j].name /\ rows[i].name # 0 => i = j
Sendable(doc, body) ==
  /\ body.val = <<>> \/ \E v \in Vals : body.val = <<v>>
  /\ body.rows = <<>> \/ \E rows \in Rows : body.rows = <<rows>> /\ Fits(doc, rows)

NewUpTo(rows, i) == Cardinality({j \in 1..i : rows[j].name = 0})

LEMMA NewAreCounted ==
  ASSUME NEW rows, NEW n \in Nat
  PROVE  /\ \A i \in 0..n : NewUpTo(rows, i) \in Nat
         /\ \A i \in 1..n : rows[i].name = 0 => NewUpTo(rows, i) >= 1
         /\ \A i, j \in 0..n : i <= j => NewUpTo(rows, i) <= NewUpTo(rows, j)
         /\ \A i, j \in 0..n : i < j /\ rows[j].name = 0 => NewUpTo(rows, i) < NewUpTo(rows, j)
<1> DEFINE Zero(i) == {j \in 1..i : rows[j].name = 0}
<1>1. \A i \in 0..n : IsFiniteSet(Zero(i)) /\ Cardinality(Zero(i)) \in Nat
  <2> TAKE i \in 0..n
  <2>1. IsFiniteSet(1..i)
    BY FS_Interval
  <2> QED
    BY <2>1, FS_Subset, FS_CardinalityType
<1>2. ASSUME NEW i \in 0..n, NEW j \in 0..n, i <= j PROVE Cardinality(Zero(i)) <= Cardinality(Zero(j))
  <2>1. Zero(i) \subseteq Zero(j)
    BY <1>2
  <2> HIDE DEF Zero
  <2> QED
    BY <1>1, <2>1, FS_Subset
<1>3. ASSUME NEW i \in 0..n, NEW j \in 0..n, i < j, rows[j].name = 0
      PROVE  Cardinality(Zero(i)) < Cardinality(Zero(j))
  <2>1. Zero(i) \cup {j} \subseteq Zero(j) /\ j \notin Zero(i)
    BY <1>3
  <2> HIDE DEF Zero
  <2>2. IsFiniteSet(Zero(i) \cup {j}) /\ Cardinality(Zero(i) \cup {j}) = Cardinality(Zero(i)) + 1
    BY <1>1, <2>1, FS_AddElement
  <2>3. Cardinality(Zero(i) \cup {j}) <= Cardinality(Zero(j))
    BY <1>1, <2>1, FS_Subset
  <2> QED
    BY <1>1, <2>2, <2>3
<1>4. ASSUME NEW i \in 1..n, rows[i].name = 0 PROVE Cardinality(Zero(i)) >= 1
  <2>1. 0 \in 0..n /\ i \in 0..n /\ 0 < i
    OBVIOUS
  <2> HIDE DEF Zero
  <2> QED
    BY <1>1, <1>3, <1>4, <2>1
<1> QED
  BY <1>1, <1>2, <1>3, <1>4 DEF NewUpTo

LEMMA SavedIs ==
  ASSUME NEW doc, IsDocument(doc), NEW body, Sendable(doc, body)
  PROVE  LET old == IF body.rows = <<>> THEN doc.rows ELSE body.rows[1]
             new == Saved(doc, body)
         IN /\ Evolves(doc, new)
            /\ new.there /\ new.ver = doc.ver + 1 /\ new.ds = doc.ds
            /\ DOMAIN new.rows = DOMAIN old
            /\ \A i \in DOMAIN old :
                 /\ new.rows[i].shown = old[i].shown /\ new.rows[i].hidden = old[i].hidden
                 /\ old[i].name # 0 => new.rows[i] = old[i]
                 /\ old[i].name = 0 => doc.made < new.rows[i].name
            /\ body.rows = <<>> => new.rows = doc.rows
<1> DEFINE Row == [name: Nat, shown: Vals, hidden: Vals]
           rows == IF body.rows = <<>> THEN doc.rows ELSE body.rows[1]
           new == Saved(doc, body)
           val == IF body.val = <<>> THEN doc.val ELSE body.val[1]
           n == Len(rows)
           name == [i \in 1..n |-> IF rows[i].name # 0 THEN rows[i].name
                                   ELSE doc.made + NewUpTo(rows, i)]
           made == doc.made + NewUpTo(rows, n)
<1>1. doc \in Documents /\ WellFormed(doc)
  BY DEF IsDocument
<1>2. Fits(doc, rows)
  <2>1. CASE body.rows = <<>>
    BY <1>1, <2>1 DEF Fits, Documents, WellFormed, RowNames
  <2>2. CASE body.rows # <<>>
    BY <2>2 DEF Sendable
  <2> QED
    BY <2>1, <2>2
<1>3. val \in Vals
  BY <1>1 DEF Sendable, Documents
<1>4. n \in Nat /\ DOMAIN rows = 1..n /\ \A i \in 1..n : rows[i] \in Row
  <2> HIDE DEF rows, val, new, name, made
  <2>1. rows \in Seq(Row)
    BY <1>2 DEF Fits, Rows
  <2> HIDE DEF Row
  <2> QED
    BY <2>1 DEF n
<1>5. new = [doc EXCEPT !.there = TRUE, !.ver = @ + 1, !.val = val,
                        !.rows = [i \in 1..n |-> IF rows[i].name # 0 THEN rows[i]
                                    ELSE [rows[i] EXCEPT !.name = doc.made + NewUpTo(rows, i)]],
                        !.made = @ + NewUpTo(rows, n)]
  BY <1>4 DEF Saved, NewUpTo
<1>6. /\ \A i \in 1..n : NewUpTo(rows, i) \in Nat /\ NewUpTo(rows, i) <= NewUpTo(rows, n)
      /\ NewUpTo(rows, n) \in Nat
      /\ \A i \in 1..n : rows[i].name = 0 => NewUpTo(rows, i) >= 1
      /\ \A i, j \in 1..n : i < j /\ rows[j].name = 0 => NewUpTo(rows, i) < NewUpTo(rows, j)
  <2> HIDE DEF n, rows
  <2>1. \A i \in 1..n : i \in 0..n /\ n \in 0..n /\ i <= n
    BY <1>4
  <2>2. n \in 0..n
    BY <1>4
  <2> QED
    BY <1>4, <2>1, <2>2, NewAreCounted
<1>7. \A i \in 1..n : /\ rows[i].name # 0 => name[i] = rows[i].name
                      /\ rows[i].name = 0 => name[i] = doc.made + NewUpTo(rows, i)
  OBVIOUS
<1>8. doc.made \in Nat /\ doc.ver \in Nat /\ doc.ds \in 0..2
  BY <1>1 DEF Documents
<1> HIDE DEF rows, val, n, name, new
<1>9. \A i \in 1..n : rows[i].name # 0 => rows[i].name \in RowNames(doc.rows) /\ rows[i].name \in 1..doc.made
  <2> SUFFICES ASSUME NEW i \in 1..n, rows[i].name # 0
               PROVE  rows[i].name \in RowNames(doc.rows) /\ rows[i].name \in 1..doc.made
    OBVIOUS
  <2>1. rows[i].name \in RowNames(rows)
    BY <1>4 DEF RowNames
  <2>2. rows[i].name \in RowNames(doc.rows)
    BY <1>2, <2>1 DEF Fits
  <2>3. PICK j \in DOMAIN doc.rows : rows[i].name = doc.rows[j].name
    BY <2>2 DEF RowNames
  <2> QED
    BY <1>1, <2>2, <2>3 DEF WellFormed
<1>10. \A i \in 1..n : name[i] \in 1..made /\ (rows[i].name = 0 => doc.made < name[i])
  <2> TAKE i \in 1..n
  <2>1. NewUpTo(rows, i) \in Nat /\ NewUpTo(rows, i) <= NewUpTo(rows, n) /\ NewUpTo(rows, n) \in Nat
    BY <1>6
  <2>2. CASE rows[i].name # 0
    BY <1>7, <1>8, <1>9, <2>1, <2>2
  <2>3. CASE rows[i].name = 0
    <3>1. NewUpTo(rows, i) >= 1 /\ name[i] = doc.made + NewUpTo(rows, i)
      BY <1>6, <1>7, <2>3
    <3> QED
      BY <1>8, <2>1, <2>3, <3>1
  <2> QED
    BY <2>2, <2>3
<1>11. ASSUME NEW i \in 1..n, NEW j \in 1..n, name[i] = name[j] PROVE i = j
  <2>2. CASE rows[i].name # 0 /\ rows[j].name # 0
    BY <1>2, <1>4, <1>7, <1>11, <2>2 DEF Fits
  <2>3. CASE rows[i].name # 0 /\ rows[j].name = 0
    BY <1>7, <1>8, <1>9, <1>10, <1>11, <2>3
  <2>4. CASE rows[i].name = 0 /\ rows[j].name # 0
    BY <1>7, <1>8, <1>9, <1>10, <1>11, <2>4
  <2>5. CASE rows[i].name = 0 /\ rows[j].name = 0
    <3>1. name[i] = doc.made + NewUpTo(rows, i) /\ name[j] = doc.made + NewUpTo(rows, j)
      BY <1>7, <2>5
    <3>2. NewUpTo(rows, i) \in Nat /\ NewUpTo(rows, j) \in Nat
      BY <1>6
    <3> DEFINE u == NewUpTo(rows, i)
               v == NewUpTo(rows, j)
    <3> HIDE DEF u, v, made
    <3>3. u = v
      <4>1. u \in Nat /\ v \in Nat
        BY <3>2 DEF u, v
      <4>2. doc.made + u = doc.made + v
        BY <1>11, <3>1 DEF u, v
      <4> QED
        BY <1>8, <4>1, <4>2
    <3>4. ~(i < j) /\ ~(j < i)
      BY <1>6, <2>5, <3>2, <3>3 DEF u, v
    <3> QED
      BY <1>4, <3>4
  <2> QED
    BY <2>2, <2>3, <2>4, <2>5
<1>12. /\ new = [there |-> TRUE, ver |-> doc.ver + 1, ds |-> doc.ds, val |-> val,
                 rows |-> new.rows, made |-> made]
       /\ DOMAIN new.rows = 1..n
       /\ \A i \in 1..n : new.rows[i] = IF rows[i].name # 0 THEN rows[i]
                                         ELSE [rows[i] EXCEPT !.name = doc.made + NewUpTo(rows, i)]
       /\ new.rows = [i \in 1..n |-> new.rows[i]]
  BY <1>1, <1>5 DEF Documents
<1>13. \A i \in 1..n : /\ new.rows[i] \in Row
                       /\ new.rows[i].name = name[i]
                       /\ new.rows[i].shown = rows[i].shown /\ new.rows[i].hidden = rows[i].hidden
                       /\ rows[i].name # 0 => new.rows[i] = rows[i]
  <2> TAKE i \in 1..n
  <2>1. rows[i] \in Row
    BY <1>4
  <2>2. CASE rows[i].name # 0
    BY <1>7, <1>12, <2>1, <2>2
  <2>3. CASE rows[i].name = 0
    <3>1. doc.made + NewUpTo(rows, i) \in Nat /\ name[i] = doc.made + NewUpTo(rows, i)
      BY <1>6, <1>7, <1>8, <2>3
    <3>2. new.rows[i] = [rows[i] EXCEPT !.name = doc.made + NewUpTo(rows, i)]
      BY <1>12, <2>3
    <3> QED
      BY <2>1, <2>3, <3>1, <3>2
  <2> QED
    BY <2>2, <2>3
<1>14. new.there /\ new.ver = doc.ver + 1 /\ new.ds = doc.ds /\ new.val = val /\ new.made = made
  BY <1>12
<1>15. made \in Nat /\ doc.made <= made
  BY <1>6, <1>8
<1> HIDE DEF made
<1>16. IsDocument(new)
  <2>1. new.rows \in Rows
    <3>1. new.rows \in [1..n -> Row]
      BY <1>12, <1>13
    <3> QED
      BY <1>4, <3>1, FunctionIsSeq DEF Rows
  <2>2. new \in Documents
    <3>1. doc.ver + 1 \in Nat
      BY <1>8
    <3> HIDE DEF Row
    <3> DEFINE rs == new.rows
               ver == doc.ver + 1
    <3>2. new = [there |-> TRUE, ver |-> ver, ds |-> doc.ds, val |-> val, rows |-> rs, made |-> made]
      BY <1>12
    <3>3. rs \in Rows /\ ver \in Nat
      BY <2>1, <3>1
    <3> HIDE DEF rs, ver
    <3> QED
      BY <1>3, <1>8, <1>15, <3>2, <3>3 DEF Documents
  <2>3. WellFormed(new)
    <3>1. new.ver # 0
      BY <1>8, <1>14
    <3>2. \A i \in 1..n : new.rows[i].name = name[i]
      BY <1>13
    <3>3. \A i \in 1..n : new.rows[i].name \in 1..new.made
      BY <1>10, <1>14, <3>2
    <3>4. \A i, j \in 1..n : new.rows[i].name = new.rows[j].name => i = j
      BY <1>11, <3>2
    <3> QED
      BY <1>12, <1>14, <3>1, <3>3, <3>4 DEF WellFormed
  <2> QED
    BY <2>2, <2>3 DEF IsDocument
<1>17. ASSUME NEW m \in RowNames(new.rows) PROVE m \in RowNames(doc.rows) \/ doc.made < m
  <2>1. PICK i \in DOMAIN new.rows : m = new.rows[i].name
    BY DEF RowNames
  <2>2. i \in 1..n /\ m = name[i]
    BY <1>12, <1>13, <2>1
  <2> QED
    BY <1>7, <1>9, <1>10, <2>2
<1>18. Evolves(doc, new)
  BY <1>8, <1>14, <1>15, <1>16, <1>17 DEF Evolves
<1>19. ASSUME body.rows = <<>> PROVE new.rows = doc.rows
  <2>1. rows = doc.rows
    BY <1>19 DEF rows
  <2>2. \A i \in 1..n : rows[i].name # 0
    BY <1>1, <1>4, <2>1 DEF WellFormed
  <2>3. doc.rows \in Seq(Row)
    BY <1>1 DEF Documents, Rows
  <2>4. doc.rows = [i \in 1..n |-> doc.rows[i]]
    BY <1>4, <2>1, <2>3
  <2> QED
    BY <1>12, <1>13, <2>1, <2>2, <2>4
<1> QED
  BY <1>4, <1>10, <1>12, <1>13, <1>14, <1>18, <1>19 DEF rows, new

SiteInv == site \in [Names -> Documents] /\ \A name \in Names : WellFormed(site[name])
SiteEvolves == site' \in [Names -> Documents] /\ \A name \in Names : Evolves(site[name], site'[name])

LEMMA Unmoved ==
  ASSUME NEW doc, IsDocument(doc)
  PROVE  Evolves(doc, doc)
BY DEF Evolves, IsDocument, Documents

LEMMA DocumentHas ==
  ASSUME NEW doc \in Documents
  PROVE  /\ doc.there \in BOOLEAN /\ doc.ver \in Nat /\ doc.ds \in 0..2 /\ doc.val \in Vals
         /\ doc.rows \in Rows /\ doc.made \in Nat
         /\ doc = [there |-> doc.there, ver |-> doc.ver, ds |-> doc.ds, val |-> doc.val,
                   rows |-> doc.rows, made |-> doc.made]
BY DEF Documents

\* What other calls make of a document.
LEMMA CallsEvolve ==
  ASSUME NEW doc, IsDocument(doc)
  PROVE  /\ doc.there => Evolves(doc, [doc EXCEPT !.ver = @ + 1, !.ds = 1])
         /\ doc.there => Evolves(doc, [doc EXCEPT !.ver = @ + 1, !.ds = 2])
         /\ Evolves(doc, Removal(doc))
<1>1. doc \in Documents /\ WellFormed(doc)
  BY DEF IsDocument
<1>2. doc.ver \in Nat /\ doc.made \in Nat /\ doc.rows \in Rows /\ doc.val \in Vals
  BY <1>1, DocumentHas
<1>3. ASSUME NEW ds \in 0..2, doc.there, NEW ver \in Nat, ver = doc.ver + 1,
             NEW new, new = [doc EXCEPT !.ver = ver, !.ds = ds]
      PROVE  Evolves(doc, new)
  <2>1. /\ new \in Documents
        /\ new.there = doc.there /\ new.ver = ver /\ new.rows = doc.rows /\ new.made = doc.made
    BY <1>1, <1>2, <1>3 DEF Documents
  <2> QED
    BY <1>1, <1>2, <1>3, <2>1 DEF Evolves, IsDocument, WellFormed
<1>4. Evolves(doc, Removal(doc))
  <2>1. NoDoc \in Documents /\ ~NoDoc.there /\ NoDoc.rows = <<>> /\ NoDoc.ds = 0
    <3>1. <<>> \in Rows
      BY DEF Rows
    <3> QED
      BY <3>1, ValsHaveDefault DEF NoDoc, Documents
  <2>2. PICK new : new = Removal(doc)
    OBVIOUS
  <2>3. new = [NoDoc EXCEPT !.ver = doc.ver, !.made = doc.made]
    BY <2>2 DEF Removal
  <2>4. /\ new \in Documents /\ ~new.there /\ new.rows = <<>> /\ new.ver = doc.ver
        /\ new.made = doc.made /\ new.ds = 0
    BY <1>2, <2>1, <2>3 DEF Documents
  <2>5. Evolves(doc, new)
    BY <1>1, <1>2, <2>4 DEF Evolves, IsDocument, WellFormed, RowNames
  <2> QED
    BY <2>2, <2>5
<1>5. doc.ver + 1 \in Nat
  BY <1>2
<1>6. ASSUME NEW ds \in 0..2, doc.there PROVE Evolves(doc, [doc EXCEPT !.ver = @ + 1, !.ds = ds])
  BY <1>3, <1>5, <1>6, Zenon
<1> QED
  BY <1>4, <1>6

LEMMA AppliedIs ==
  ASSUME SiteInv, NEW name \in Names, NEW doc, Evolves(site[name], doc),
         site' = [site EXCEPT ![name] = doc]
  PROVE  SiteEvolves
<1>1. \A n \in Names : IsDocument(site[n])
  BY DEF SiteInv, IsDocument
<1>2. \A n \in Names : site'[n] = IF n = name THEN doc ELSE site[n]
  BY DEF SiteInv
<1>3. doc \in Documents
  BY DEF Evolves, IsDocument
<1> QED
  BY <1>1, <1>2, <1>3, Unmoved DEF SiteEvolves, SiteInv

LEMMA SiteUnchanged ==
  ASSUME SiteInv, UNCHANGED site
  PROVE  SiteEvolves
BY Unmoved DEF SiteInv, SiteEvolves, IsDocument

\* The changes other people make.
LEMMA DeskEvolves ==
  ASSUME SiteInv, Desk
  PROVE  SiteEvolves
<1>1. PICK name \in Names :
        /\ Exists(name)
        /\ \E doc \in Changes(site[name]) \cup {[site[name] EXCEPT !.ver = @ + 1, !.ds = 1], Removal(site[name])} :
             site' = [site EXCEPT ![name] = doc]
  BY DEF Desk
<1> DEFINE old == site[name]
<1>2. PICK doc \in Changes(old) \cup {[old EXCEPT !.ver = @ + 1, !.ds = 1], Removal(old)} :
        site' = [site EXCEPT ![name] = doc]
  BY <1>1
<1>3. IsDocument(old) /\ old.there
  BY <1>1 DEF SiteInv, IsDocument, Exists
<1>4. \A v \in Vals : Other(v) \in Vals
  BY ValsHaveDefault DEF Other
<1>5. old \in Documents /\ WellFormed(old) /\ old.ver \in Nat /\ old.made \in Nat /\ old.rows \in Rows
  BY <1>3 DEF IsDocument, Documents
<1> DEFINE Row == [name: Nat, shown: Vals, hidden: Vals]
<1>6. Len(old.rows) \in Nat /\ DOMAIN old.rows = 1..Len(old.rows) /\ \A i \in DOMAIN old.rows : old.rows[i] \in Row
  <2>1. old.rows \in Seq(Row)
    BY <1>5 DEF Rows
  <2> HIDE DEF Row, old
  <2> QED
    BY <2>1
<1> HIDE DEF old
<1> DEFINE ver == old.ver + 1
<1>7. ver = old.ver + 1
  OBVIOUS
<1>8. ver \in Nat /\ Other(0) \in Vals
  BY <1>4, <1>5, ValsHaveDefault
<1> HIDE DEF ver
<1>9. Evolves(old, doc)
  <2>1. CASE doc = [old EXCEPT !.ver = ver, !.val = Other(0)]
    <3>1. doc \in Documents /\ doc.rows = old.rows /\ doc.made = old.made /\ doc.there /\ doc.ver = ver
      BY <1>3, <1>5, <1>8, <2>1 DEF Documents
    <3> QED
      BY <1>5, <1>7, <1>8, <3>1 DEF Evolves, IsDocument, WellFormed
  <2>2. CASE doc = Hide(old)
    <3> DEFINE rows == [i \in DOMAIN old.rows |-> [old.rows[i] EXCEPT !.hidden = Other(@)]]
    <3>1. doc = [old EXCEPT !.ver = ver, !.rows = rows]
      BY <2>2 DEF Hide, ver
    <3>2. DOMAIN rows = DOMAIN old.rows /\ \A i \in DOMAIN rows : rows[i] \in Row /\ rows[i].name = old.rows[i].name
      BY <1>4, <1>6
    <3>3. rows \in Rows
      <4>1. rows \in [1..Len(old.rows) -> Row]
        BY <1>6, <3>2
      <4> HIDE DEF rows
      <4> QED
        BY <1>6, <4>1, FunctionIsSeq DEF Rows
    <3> HIDE DEF rows
    <3>4. doc.rows = rows /\ doc.made = old.made /\ doc.there /\ doc.ver = ver /\ doc \in Documents
      BY <1>3, <1>5, <1>8, <3>1, <3>3 DEF Documents
    <3>5. RowNames(rows) = RowNames(old.rows)
      BY <3>2 DEF RowNames
    <3>6. WellFormed(doc)
      BY <1>5, <1>7, <3>2, <3>4 DEF WellFormed
    <3> QED
      BY <1>5, <1>7, <3>4, <3>5, <3>6 DEF Evolves, IsDocument
  <2>3. CASE doc = AddRow(old, Other(0))
    <3> DEFINE row == [name |-> old.made + 1, shown |-> Other(0), hidden |-> Other(0)]
               rows == Append(old.rows, row)
               n == Len(old.rows)
    <3>1. doc = [old EXCEPT !.ver = ver, !.made = old.made + 1, !.rows = rows]
      BY <2>3 DEF AddRow, ver
    <3>2. row \in Row
      BY <1>4, <1>5, ValsHaveDefault
    <3>3. /\ rows \in Rows /\ DOMAIN rows = 1..(n + 1) /\ rows[n + 1] = row
          /\ \A i \in 1..n : rows[i] = old.rows[i]
      <4>1. old.rows \in Seq(Row)
        BY <1>5 DEF Rows
      <4> HIDE DEF row, Row
      <4> QED
        BY <1>6, <3>2, <4>1 DEF Rows, Row
    <3> HIDE DEF rows
    <3>4. /\ doc.rows = rows /\ doc.made = old.made + 1 /\ doc.there /\ doc.ver = ver
          /\ doc \in Documents
      <4> DEFINE made == old.made + 1
      <4>1. made \in Nat
        BY <1>5
      <4> HIDE DEF made
      <4>2. doc = [old EXCEPT !.ver = ver, !.made = made, !.rows = rows]
        BY <3>1 DEF made
      <4>3. /\ doc.rows = rows /\ doc.made = made /\ doc.there /\ doc.ver = ver
            /\ doc \in Documents
        BY <1>3, <1>5, <1>8, <3>3, <4>1, <4>2 DEF Documents
      <4> QED
        BY <4>3 DEF made
    <3>5. \A i \in 1..n : rows[i].name \in 1..old.made
      BY <1>5, <1>6, <3>3 DEF WellFormed
    <3>6. \A i \in 1..(n + 1) : i \in 1..n \/ i = n + 1
      BY <1>6
    <3>7. rows[n + 1].name = old.made + 1
      BY <3>3
    <3>8. \A i \in 1..(n + 1) : rows[i].name \in 1..doc.made
      BY <1>5, <3>4, <3>5, <3>6, <3>7
    <3>9. ASSUME NEW i \in 1..(n + 1), NEW j \in 1..(n + 1), rows[i].name = rows[j].name PROVE i = j
      <4>1. CASE i \in 1..n /\ j \in 1..n
        BY <1>5, <1>6, <3>3, <3>9, <4>1 DEF WellFormed
      <4>2. CASE i = n + 1 \/ j = n + 1
        BY <1>5, <3>5, <3>6, <3>7, <3>9, <4>2
      <4> QED
        BY <3>6, <4>1, <4>2
    <3>10. WellFormed(doc)
      BY <1>5, <1>7, <3>3, <3>4, <3>8, <3>9 DEF WellFormed
    <3>11. \A m \in RowNames(rows) : m \in RowNames(old.rows) \/ old.made < m
      <4> SUFFICES ASSUME NEW i \in DOMAIN rows, rows[i].name # 0
                   PROVE  rows[i].name \in RowNames(old.rows) \/ old.made < rows[i].name
        BY DEF RowNames
      <4>1. CASE i \in 1..n
        BY <1>6, <3>3, <4>1 DEF RowNames
      <4>2. CASE i = n + 1
        BY <1>5, <3>7, <4>2
      <4> QED
        BY <3>3, <3>6, <4>1, <4>2
    <3> QED
      BY <1>5, <1>7, <3>4, <3>10, <3>11 DEF Evolves, IsDocument
  <2>4. CASE doc = [old EXCEPT !.ver = @ + 1, !.ds = 1] \/ doc = Removal(old)
    BY <1>3, <2>4, CallsEvolve
  <2> QED
    BY <1>2, <2>1, <2>2, <2>3, <2>4 DEF Changes, ver
<1> QED
  BY <1>2, <1>9, AppliedIs DEF old

-----------------------------------------------------------------------------
(***************************************************************************)
(* The inductive invariant.                                                *)
(***************************************************************************)
FileDocuments == [name: Nat, val: Vals, link: Nat, rows: FileRows]
Dids == {"none", "created", "updated", "unchanged"}
Places == {"idle", "recheck", "create", "read", "write", "sread", "submit", "cancel", "delete"}
WorkerStates == [pc: Places, i: Nat, name: Nat, doc: Documents, did: Dids]
Statuses == {"none", "done", "error", "interrupted", "skipped", "planned"}
Whys == {"none", "lost", "notFound", "stale", "state", "noLink", "duplicate", "unnamed"}
ReportValues == [status: Statuses, why: Whys, did: Dids]

BulkTypes ==
  /\ job \in Jobs /\ docs \in Seq(FileDocuments)
  /\ phase \in {"parse", "links", "rows", "confirm", "run", "reported", "refused"}
  /\ problems \in BOOLEAN /\ sameFile \in BOOLEAN /\ stopped \in BOOLEAN /\ cancelled \in BOOLEAN
  /\ at \in Nat \ {0} /\ seen \in [Names -> Nat]
  /\ next \in 1..(Len(docs) + 1) /\ dispatch \in {"look", "offer", "closed"}
  /\ worker \in [Workers -> WorkerStates]
  /\ report \in [DOMAIN report -> ReportValues]

\* What the checks of an import leave.
Checked ==
  /\ \A i, j \in Items : i < j /\ Named(docs[i]) => docs[i].name # docs[j].name
  /\ job.kind = "update" => \A i \in Items : docs[i].name # None /\ ~Twice(docs[i].rows)

Running == phase \in {"run", "reported"}
AllIdle == \A w \in Workers : worker[w].pc = "idle"
Phases ==
  /\ phase \in {"links", "rows"} => IsImport
  /\ phase = "confirm" => ~IsImport
  /\ phase \in {"parse", "links"} => at = 1
  /\ phase = "parse" => ~sameFile
  /\ sameFile => job.kind = "insert" /\ job.keepsName
  /\ phase # "parse" /\ IsImport /\ ~problems => Checked
  /\ IF Running
     THEN /\ DOMAIN report = Items /\ DOMAIN applied = Items
          /\ IsImport => ~problems
          /\ sameFile => Workers = {1}
     ELSE next = 1 /\ dispatch = "look" /\ report = <<>> /\ sent = {} /\ AllIdle
  /\ dispatch = "offer" => next \in Items
  /\ phase = "reported" => dispatch = "closed" /\ AllIdle

\* What the site did for an item, and where the item's worker may be.
Made(did) == CASE did = "created" -> <<"create">> [] did = "updated" -> <<"update">> [] OTHER -> <<>>
Place(w) ==
  LET me == worker[w]
  IN /\ me.i \in Items /\ me.i < next /\ report[me.i] = Unreported
     /\ applied[me.i] = Made(me.did) /\ (job.dry => applied[me.i] = <<>>)
     /\ me.pc = "recheck" => me.i \notin sent
     /\ me.pc = "create" => job.kind = "insert"
     /\ me.pc = "read" => job.kind \in {"update", "submit", "cancel"}
     /\ me.pc = "write" => job.kind \in {"update", "set"}
     /\ me.pc \in {"cancel", "delete"} => job.kind = me.pc
     /\ me.pc \notin {"sread", "submit"} => me.did = "none"
     /\ me.pc \in {"sread", "submit"} =>
          \/ job.kind = "submit" /\ me.did = "none"
          \/ job.kind = "insert" /\ job.submit /\ me.did = "created"
          \/ job.kind = "update" /\ job.submit /\ me.did \in {"updated", "unchanged"}
Holds(w, i) == worker[w].pc # "idle" /\ worker[w].i = i
Holders ==
  /\ \A w \in Workers : worker[w].pc # "idle" => Place(w)
  /\ \A v, w \in Workers, i \in Items : Holds(v, i) /\ Holds(w, i) => v = w

Skipped == [Unreported EXCEPT !.status = "skipped"]
Tells ==
  Running =>
    \A i \in Items :
      /\ i < next => Told(i) \/ \E w \in Workers : Holds(w, i)
      /\ next <= i => /\ i \notin sent /\ applied[i] = <<>>
                      /\ report[i] = IF dispatch = "closed" THEN Skipped ELSE Unreported

LinksTold ==
  Running /\ sameFile =>
    \A i, j \in Items :
      i < j /\ report[j].why = "noLink" /\ docs[j].link = docs[i].name =>
        report[i].status # "none" /\ (report[i].status = "done" => ~Exists(docs[i].name))

\* A document as it was read is the site's, until its version changes.
AsRead(doc, name) ==
  /\ name \in Names /\ IsDocument(doc) /\ doc.there
  /\ doc.ver <= site[name].ver
  /\ doc.ver = site[name].ver /\ site[name].there => doc = site[name]

RowsAsSeen ==
  /\ \A name \in Names : seen[name] <= site[name].made
  /\ (phase = "rows" \/ Running) /\ ~problems =>
       \A i \in Items :
         (Running \/ i < at) /\ Unnamed(docs[i]) /\ docs[i].name \in Names =>
           \A m \in RowNames(site[docs[i].name].rows) : seen[docs[i].name] < m
WritesAsRead ==
  \A w \in Workers :
    worker[w].pc = "write" /\ job.kind = "update" => AsRead(worker[w].doc, It(w).name)

EditFiles == [val: Seq(Vals), rows: Seq(FileRows)]
Edits ==
  /\ edit \in [pc: {"start", "editor", "confirm", "saved", "over"}, name: Nat, doc: Documents, file: EditFiles]
  /\ edit.pc \in {"editor", "confirm"} => AsRead(edit.doc, edit.name)
  /\ edit.pc = "confirm" => edit.file \in Files(edit.doc) /\ ~Unparsable(edit.doc, edit.file)

BulkInv == BulkTypes /\ Phases /\ Holders /\ Tells
DocsInv == SiteInv /\ RowsAsSeen /\ WritesAsRead /\ Edits
IInv == BulkInv /\ LinksTold /\ DocsInv

-----------------------------------------------------------------------------
(***************************************************************************)
(* A worker's step touches its own item alone: the worker is then done     *)
(* with it and what is reported is true, or it is where it may be.         *)
(***************************************************************************)
Touches(k) ==
  /\ UNCHANGED <<phase, fileVars, cancelled, next, dispatch>>
  /\ sent \subseteq sent' /\ sent' \subseteq sent \cup {k}
  /\ DOMAIN applied' = Items /\ \A i \in Items \ {k} : applied'[i] = applied[i]

WorkStep(w, k) ==
  /\ Touches(k)
  /\ stopped' \in BOOLEAN
  /\ worker' \in [Workers -> WorkerStates] /\ \A v \in Workers \ {w} : worker'[v] = worker[v]
  /\ report' \in [Items -> ReportValues] /\ \A i \in Items \ {k} : report'[i] = report[i]
  /\ \/ worker'[w] = Idle /\ Told(k)'
     \/ worker'[w].i = k /\ worker'[w].pc # "idle" /\ Place(w)'

LEMMA BusyIs ==
  ASSUME BulkInv, NEW w \in Workers, worker[w].pc # "idle"
  PROVE  /\ phase = "run" /\ Running /\ worker[w].i \in Items /\ Place(w) /\ worker[w] \in WorkerStates
         /\ DOMAIN report = Items /\ DOMAIN applied = Items /\ report \in [Items -> ReportValues]
         /\ docs[worker[w].i] \in FileDocuments
<1>1. Place(w)
  BY DEF BulkInv, Holders
<1>2. Running /\ phase = "run"
  BY DEF BulkInv, Phases, AllIdle, Running
<1>3. docs \in Seq(FileDocuments) /\ worker[w] \in WorkerStates
  BY DEF BulkInv, BulkTypes
<1>4. docs[worker[w].i] \in FileDocuments
  <2> DEFINE D == FileDocuments
  <2>1. docs \in Seq(D) /\ worker[w].i \in DOMAIN docs
    BY <1>1, <1>3 DEF Place, Items
  <2> HIDE DEF D
  <2>2. docs[worker[w].i] \in D
    BY <2>1
  <2> QED
    BY <2>2 DEF D
<1> QED
  BY <1>1, <1>2, <1>3, <1>4 DEF BulkInv, BulkTypes, Phases, Place

LEMMA WorkKeeps ==
  ASSUME BulkInv, NEW w \in Workers, worker[w].pc # "idle", NEW k, k = worker[w].i, WorkStep(w, k)
  PROVE  BulkInv'
<1>1. Running /\ phase = "run" /\ k \in Items /\ k < next
  BY BusyIs DEF Place
<1>2. Items' = Items /\ Workers' = Workers /\ docs' = docs /\ job' = job /\ next' = next
      /\ phase' = phase /\ dispatch' = dispatch /\ sameFile' = sameFile /\ problems' = problems
      /\ cancelled' = cancelled /\ at' = at /\ seen' = seen
  BY DEF WorkStep, Touches, Items, Workers, BulkInv, BulkTypes, fileVars
<1>3. BulkTypes'
  BY <1>2 DEF WorkStep, BulkInv, BulkTypes, Workers
<1>4. Phases'
  BY <1>1, <1>2 DEF WorkStep, Touches, BulkInv, Phases, Running, Checked, IsImport, Named
<1>5. \A v \in Workers \ {w} : worker'[v] = worker[v]
  BY DEF WorkStep
<1>6. \A v \in Workers \ {w} : worker[v].pc # "idle" => worker[v].i \in Items /\ worker[v].i # k
  BY <1>1 DEF BulkInv, Holders, Place, Holds
<1>7. \A i \in Items \ {k} : report'[i] = report[i] /\ applied'[i] = applied[i] /\ (i \in sent' <=> i \in sent)
  BY DEF WorkStep, Touches
<1>8. ASSUME NEW v \in Workers, (worker[v].pc # "idle")' PROVE Place(v)'
  <2>1. CASE v = w
    BY <1>8, <2>1 DEF WorkStep, Idle
  <2>2. CASE v # w
    <3>1. worker'[v] = worker[v] /\ worker[v].pc # "idle" /\ worker[v].i \in Items \ {k}
      BY <1>5, <1>6, <1>8, <2>2
    <3>2. Place(v)
      BY <3>1 DEF BulkInv, Holders
    <3> QED
      BY <1>2, <1>7, <3>1, <3>2 DEF Place
  <2> QED
    BY <2>1, <2>2
<1>9. \A v \in Workers, i \in Items : Holds(v, i)' => Holds(v, i)
  BY <1>5, BusyIs DEF Holds, WorkStep, Idle
<1>10. Holders'
  BY <1>2, <1>8, <1>9 DEF Holders, BulkInv
<1>11. ASSUME NEW i \in Items, i < next PROVE Told(i)' \/ \E v \in Workers : Holds(v, i)'
  <2>1. CASE i = k
    BY <2>1 DEF WorkStep, Holds
  <2>2. CASE i # k /\ Told(i)
    BY <1>2, <1>7, <2>2 DEF Told, Wanted
  <2>3. CASE \E v \in Workers : i # k /\ Holds(v, i)
    BY <1>5, <2>3 DEF Holds
  <2> QED
    BY <1>1, <1>11, <2>1, <2>2, <2>3 DEF BulkInv, Tells
<1>12. ASSUME NEW i \in Items, next <= i
       PROVE  /\ i \notin sent' /\ applied'[i] = <<>>
              /\ report'[i] = IF dispatch = "closed" THEN Skipped ELSE Unreported
  <2>1. i # k
    BY <1>1, <1>12 DEF BulkInv, BulkTypes, Items
  <2> QED
    BY <1>1, <1>7, <1>12, <2>1 DEF BulkInv, Tells
<1>13. Tells'
  BY <1>2, <1>11, <1>12 DEF Tells, Running, Skipped, Unreported
<1> QED
  BY <1>3, <1>4, <1>10, <1>13 DEF BulkInv

\* A worker is done with its item.
WantedOf(did) ==
  LET first == CASE job.kind = "insert" -> <<"create">>
                 [] job.kind \in {"update", "set"} -> IF did = "unchanged" THEN <<>> ELSE <<"update">>
                 [] OTHER -> <<job.kind>>
      both == first \o <<"submit">>
  IN IF ~job.submit THEN {first} ELSE IF job.kind = "insert" THEN {both} ELSE {first, both}
Truly(status, why, did, done) ==
  /\ status \in {"done", "planned", "error", "interrupted"} /\ why \in Whys /\ did \in Dids
  /\ status = "done" => done \in WantedOf(did)
  /\ status = "planned" => done = <<>>
  /\ status \in {"error", "interrupted"} => done = <<>> \/ why = "lost" \/ did \in {"created", "updated"}

LEMMA IdleIs ==
  Idle \in WorkerStates /\ Idle.pc = "idle" /\ NoDoc \in Documents
<1>1. <<>> \in Rows
  BY DEF Rows
<1>2. NoDoc \in Documents
  BY <1>1, ValsHaveDefault DEF NoDoc, Documents
<1> QED
  BY <1>2 DEF Idle, WorkerStates, Places, Dids, None

LEMMA EndIs ==
  ASSUME BulkInv, NEW w \in Workers, worker[w].pc # "idle", NEW k, k = worker[w].i,
         NEW status, NEW why, NEW did, Touches(k), End(w, status, why, did),
         Truly(status, why, did, applied'[k])
  PROVE  WorkStep(w, k)
<1>1. Running /\ k \in Items /\ DOMAIN report = Items /\ DOMAIN applied = Items
      /\ report \in [Items -> ReportValues]
  BY BusyIs
<1>2. worker \in [Workers -> WorkerStates] /\ worker' = [worker EXCEPT ![w] = Idle]
  BY DEF BulkInv, BulkTypes, End
<1>3. worker' \in [Workers -> WorkerStates] /\ worker'[w] = Idle /\ \A v \in Workers \ {w} : worker'[v] = worker[v]
  BY <1>2, IdleIs
<1> DEFINE told == [status |-> status, why |-> why, did |-> did]
<1>4. told \in ReportValues
  BY DEF Truly, ReportValues, Statuses, Dids
<1>5. report' = [report EXCEPT ![k] = told]
  BY DEF End
<1>6. report'[k] = told /\ report' \in [Items -> ReportValues] /\ \A i \in Items \ {k} : report'[i] = report[i]
  <2> HIDE DEF told
  <2> QED
    BY <1>1, <1>4, <1>5
<1>7. report'[k].status = status /\ report'[k].why = why /\ report'[k].did = did
  BY <1>6
<1>8. Wanted(k)' = WantedOf(did)
  BY <1>7 DEF Wanted, WantedOf, Touches, fileVars
<1>9. Told(k)'
  BY <1>7, <1>8 DEF Told, Truly
<1>10. stopped' \in BOOLEAN
  BY DEF End
<1> QED
  BY <1>3, <1>6, <1>9, <1>10 DEF WorkStep

\* A worker goes on with its item.
LEMMA GoOnIs ==
  ASSUME BulkInv, NEW w \in Workers, worker[w].pc # "idle", NEW k, k = worker[w].i,
         NEW pc \in Places \ {"idle", "recheck"}, NEW name \in Nat, NEW doc \in Documents, NEW did \in Dids,
         Touches(k), GoOn(w, pc, name, doc, did),
         applied'[k] = Made(did), job.dry => applied'[k] = <<>>,
         pc = "create" => job.kind = "insert",
         pc = "read" => job.kind \in {"update", "submit", "cancel"},
         pc = "write" => job.kind \in {"update", "set"},
         pc \in {"cancel", "delete"} => job.kind = pc,
         pc \notin {"sread", "submit"} => did = "none",
         pc \in {"sread", "submit"} =>
           \/ job.kind = "submit" /\ did = "none"
           \/ job.kind = "insert" /\ job.submit /\ did = "created"
           \/ job.kind = "update" /\ job.submit /\ did \in {"updated", "unchanged"}
  PROVE  /\ WorkStep(w, k)
         /\ worker'[w].pc = pc /\ worker'[w].doc = doc
<1>1. k \in Items /\ k < next /\ report[k] = Unreported /\ report \in [Items -> ReportValues]
      /\ worker[w] \in WorkerStates
  BY BusyIs DEF Place
<1> DEFINE me == [worker[w] EXCEPT !.pc = pc, !.name = name, !.doc = doc, !.did = did]
<1>2. me \in WorkerStates /\ me.pc = pc /\ me.doc = doc /\ me.did = did /\ me.i = k
  BY <1>1 DEF WorkerStates
<1>3. worker \in [Workers -> WorkerStates] /\ worker' = [worker EXCEPT ![w] = me]
  BY DEF BulkInv, BulkTypes, GoOn
<1> HIDE DEF me
<1>4. worker' \in [Workers -> WorkerStates] /\ worker'[w] = me /\ \A v \in Workers \ {w} : worker'[v] = worker[v]
  BY <1>2, <1>3
<1>5. report' = report /\ stopped' = stopped /\ stopped \in BOOLEAN /\ Items' = Items /\ job' = job /\ next' = next
  BY DEF GoOn, Touches, BulkInv, BulkTypes, fileVars, Items
<1>6. Place(w)'
  BY <1>1, <1>2, <1>4, <1>5 DEF Place, Unreported
<1> QED
  BY <1>1, <1>2, <1>4, <1>5, <1>6 DEF WorkStep

-----------------------------------------------------------------------------
(***************************************************************************)
(* What a step of an item leaves: its worker's part, and the site's.       *)
(***************************************************************************)
\* Only a worker that creates its item's document makes one exist.
MakesItsOwn(w) ==
  \A name \in Names :
    site'[name].there /\ ~site[name].there =>
      worker[w].pc = "create" /\ (job.keepsName => name = It(w).name)

\* A row that stays has the columns no file shows as they were.
KeepsHidden(doc, rows) ==
  \A i \in DOMAIN rows, j \in DOMAIN doc.rows :
    rows[i].name # 0 /\ rows[i].name = doc.rows[j].name => rows[i].hidden = doc.rows[j].hidden
HiddenStays == \A name \in Names : KeepsHidden(site[name], site'[name].rows)

SiteStep(w) == SiteEvolves /\ MakesItsOwn(w) /\ HiddenStays
ItemStep(w, k) ==
  /\ WorkStep(w, k) /\ SiteStep(w)
  /\ report'[k].why = "noLink" => ~Exists(docs[k].link)'
  /\ worker'[w].pc = "write" /\ job.kind = "update" => AsRead(worker[w].doc, docs[k].name)'

LEMMA SequencesAre ==
  /\ \A what : Append(<<>>, what) = <<what>> /\ Append(<<>>, what) # <<>>
  /\ Append(<<"create">>, "submit") = <<"create">> \o <<"submit">>
  /\ Append(<<"update">>, "submit") = <<"update">> \o <<"submit">>
  /\ <<"submit">> = <<>> \o <<"submit">>
OBVIOUS

LEMMA SendsTouches ==
  ASSUME BulkInv, NEW w \in Workers, worker[w].pc # "idle", NEW k, k = worker[w].i, Sends(w),
         \/ UNCHANGED applied
         \/ \E what : applied' = [applied EXCEPT ![k] = Append(@, what)]
  PROVE  Touches(k)
<1>1. DOMAIN applied = Items
  BY BusyIs
<1> QED
  BY <1>1 DEF Touches, Sends

LEMMA UntouchedIs ==
  ASSUME SiteInv, NEW w, UNCHANGED site
  PROVE  SiteStep(w)
BY SiteUnchanged DEF SiteStep, MakesItsOwn, HiddenStays, KeepsHidden, SiteInv, WellFormed

LEMMA EndStep ==
  ASSUME BulkInv, NEW w \in Workers, worker[w].pc # "idle", NEW k, k = worker[w].i,
         NEW status, NEW why, NEW did, Touches(k), End(w, status, why, did),
         Truly(status, why, did, applied'[k]), SiteStep(w),
         why = "noLink" => ~Exists(docs[k].link)'
  PROVE  ItemStep(w, k)
<1>1. WorkStep(w, k)
  BY EndIs
<1>2. worker'[w].pc = "idle"
  BY IdleIs DEF End, BulkInv, BulkTypes
<1>3. report'[k].why = why
  BY BusyIs DEF End
<1> QED
  BY <1>1, <1>2, <1>3 DEF ItemStep

\* A request that did nothing: held back, refused or cut off.
LEMMA NothingDone ==
  ASSUME BulkInv, SiteInv, NEW w \in Workers, worker[w].pc # "idle", NEW k, k = worker[w].i,
         Sends(w), UNCHANGED <<site, applied>>,
         \/ job.dry /\ Finish(w, "planned", "none")
         \/ \E why \in Whys : Finish(w, "error", why) /\ (why = "noLink" => ~Exists(docs[k].link))
         \/ Cut(w)
  PROVE  ItemStep(w, k)
<1>1. Touches(k) /\ SiteStep(w)
  BY SendsTouches, UntouchedIs
<1>2. applied'[k] = Made(worker[w].did) /\ (job.dry => applied'[k] = <<>>) /\ worker[w].did \in Dids
  BY BusyIs DEF Place, WorkerStates
<1>3. applied'[k] = <<>> \/ worker[w].did \in {"created", "updated"}
  BY <1>2 DEF Made, Dids
<1>4. \A status, why : Finish(w, status, why) => End(w, status, why, worker[w].did)
  BY DEF Finish
<1>5. docs' = docs
  BY DEF Sends, fileVars
<1>6. ASSUME NEW why \in Whys, NEW status \in {"error", "interrupted"}, Finish(w, status, why),
             why = "noLink" => ~Exists(docs[k].link)
      PROVE  ItemStep(w, k)
  <2>1. Truly(status, why, worker[w].did, applied'[k])
    BY <1>2, <1>3 DEF Truly
  <2>2. why = "noLink" => ~Exists(docs[k].link)'
    BY <1>5, <1>6 DEF Exists
  <2> QED
    BY <1>1, <1>4, <1>6, <2>1, <2>2, EndStep
<1>7. CASE job.dry /\ Finish(w, "planned", "none")
  <2>1. Truly("planned", "none", worker[w].did, applied'[k])
    BY <1>2, <1>7 DEF Truly, Whys
  <2> QED
    BY <1>1, <1>4, <1>7, <2>1, EndStep
<1>8. CASE Cut(w)
  BY <1>6, <1>8 DEF Cut, Whys
<1> QED
  BY <1>6, <1>7, <1>8

\* A write that got there, and no answer.
LEMMA CutDone ==
  ASSUME BulkInv, NEW w \in Workers, worker[w].pc # "idle", NEW k, k = worker[w].i,
         Touches(k), Cut(w), SiteStep(w)
  PROVE  ItemStep(w, k)
<1>1. worker[w].did \in Dids
  BY BusyIs DEF WorkerStates
<1>2. \A status \in {"error", "interrupted"} : Truly(status, "lost", worker[w].did, applied'[k])
  BY <1>1 DEF Truly, Whys
<1>3. PICK status \in {"error", "interrupted"} : End(w, status, "lost", worker[w].did)
  BY DEF Cut, Finish
<1> QED
  BY <1>2, <1>3, EndStep

\* What a successful write of an item makes of its history.
LEMMA AppliedOne ==
  ASSUME BulkInv, NEW w \in Workers, worker[w].pc # "idle", NEW k, k = worker[w].i, NEW what, Sends(w),
         applied' = [applied EXCEPT ![k] = Append(@, what)]
  PROVE  Touches(k) /\ applied'[k] = Append(Made(worker[w].did), what)
<1>1. DOMAIN applied = Items /\ applied[k] = Made(worker[w].did) /\ k \in Items
  BY BusyIs DEF Place
<1>2. applied'[k] = Append(applied[k], what)
  BY <1>1
<1> QED
  BY <1>1, <1>2, SendsTouches

LEMMA GoOnStep ==
  ASSUME BulkInv, NEW w \in Workers, worker[w].pc # "idle", NEW k, k = worker[w].i,
         WorkStep(w, k), UNCHANGED report, worker'[w].pc # "write", SiteStep(w)
  PROVE  ItemStep(w, k)
<1>1. report'[k].why = "none"
  BY BusyIs DEF Place, Unreported
<1> QED
  BY <1>1 DEF ItemStep

\* What follows an import's write, or finding that there is nothing to write.
LEMMA SubmittingStep ==
  ASSUME BulkInv, NEW w \in Workers, worker[w].pc # "idle", NEW k, k = worker[w].i,
         NEW name \in Nat, NEW doc \in Documents, NEW did,
         \/ job.kind = "insert" /\ did = "created" /\ doc.ds = 0
         \/ job.kind = "update" /\ did \in {"updated", "unchanged"},
         Touches(k), applied'[k] = Made(did), job.dry => applied'[k] = <<>>,
         SiteStep(w), Submitting(w, name, doc, did)
  PROVE  ItemStep(w, k)
<1>1. did \in Dids
  BY DEF Dids
<1>2. CASE ~job.submit \/ doc.ds = 1
  <2>1. End(w, "done", "none", did)
    BY <1>2 DEF Submitting
  <2>2. applied'[k] \in WantedOf(did)
    BY <1>2 DEF Made, WantedOf
  <2>3. Truly("done", "none", did, applied'[k])
    BY <1>1, <2>2 DEF Truly, Whys
  <2> QED
    BY <2>1, <2>3, EndStep
<1>3. CASE job.submit /\ doc.ds = 2
  <2>1. End(w, "error", "state", did)
    BY <1>3 DEF Submitting
  <2>2. Truly("error", "state", did, applied'[k])
    BY <1>1, <1>3 DEF Truly, Whys, Made
  <2> QED
    BY <2>1, <2>2, EndStep
<1>4. CASE job.submit /\ doc.ds \notin {1, 2}
  <2>1. GoOn(w, "sread", name, doc, did)
    BY <1>4 DEF Submitting
  <2>2. WorkStep(w, k) /\ worker'[w].pc = "sread"
    BY <1>1, <1>4, <2>1, GoOnIs DEF Places
  <2>3. report' = report
    BY <2>1 DEF GoOn
  <2> QED
    BY <2>2, <2>3, GoOnStep
<1> QED
  BY <1>2, <1>3, <1>4

\* Handing an item back, or beginning it.
LEMMA SkipStep ==
  ASSUME BulkInv, SiteInv, NEW w \in Workers, Skip(w), Silent, NEW k, k = worker[w].i
  PROVE  worker[w].pc # "idle" /\ ItemStep(w, k)
<1>1. worker[w].pc = "recheck"
  BY DEF Skip
<1>2. /\ k \in Items /\ k \notin sent /\ report[k] = Unreported /\ applied[k] = Made(worker[w].did)
      /\ DOMAIN report = Items /\ DOMAIN applied = Items /\ report \in [Items -> ReportValues]
  BY <1>1, BusyIs DEF Place
<1>3. Touches(k) /\ stopped' \in BOOLEAN
  BY <1>2 DEF Skip, Touches, BulkInv, BulkTypes
<1>4. worker \in [Workers -> WorkerStates] /\ worker' = [worker EXCEPT ![w] = Idle]
  BY DEF BulkInv, BulkTypes, Skip
<1>5. worker' \in [Workers -> WorkerStates] /\ worker'[w] = Idle /\ \A v \in Workers \ {w} : worker'[v] = worker[v]
  BY <1>4, IdleIs
<1>6. Unreported \in ReportValues /\ Skipped \in ReportValues /\ Skipped.status = "skipped" /\ Skipped.why = "none"
  BY DEF Unreported, Skipped, ReportValues, Statuses, Whys, Dids
<1>7. report' = [report EXCEPT ![k] = Skipped]
  BY <1>2 DEF Skip, Skipped
<1>8. report' \in [Items -> ReportValues] /\ report'[k] = Skipped /\ \A i \in Items \ {k} : report'[i] = report[i]
  BY <1>2, <1>6, <1>7
<1>9. Told(k)'
  BY <1>2, <1>6, <1>8 DEF Told, Skip
<1>10. WorkStep(w, k)
  BY <1>3, <1>5, <1>8, <1>9 DEF WorkStep
<1> QED
  BY <1>1, <1>5, <1>6, <1>8, <1>10, UntouchedIs, IdleIs DEF ItemStep, Silent

LEMMA StartStep ==
  ASSUME BulkInv, SiteInv, NEW w \in Workers, Start(w), Silent, NEW k, k = worker[w].i
  PROVE  worker[w].pc # "idle" /\ ItemStep(w, k)
<1>1. worker[w].pc = "recheck"
  BY DEF Start
<1>2. /\ k \in Items /\ k < next /\ report[k] = Unreported /\ applied[k] = Made(worker[w].did) /\ worker[w].did = "none"
      /\ job.dry => applied[k] = <<>>
      /\ worker[w] \in WorkerStates
      /\ DOMAIN report = Items /\ DOMAIN applied = Items /\ report \in [Items -> ReportValues]
  BY <1>1, BusyIs DEF Place
<1>3. Touches(k) /\ stopped' \in BOOLEAN
  BY <1>2 DEF Start, Touches, BulkInv, BulkTypes
<1>4. job.kind \in {"insert", "update", "set", "submit", "cancel", "delete"}
  BY JobsAreCommands DEF BulkInv, BulkTypes, Commands
<1>5. /\ FirstStep \in {"create", "read", "write", "delete"}
      /\ FirstStep = "create" => job.kind = "insert"
      /\ FirstStep = "read" => job.kind \in {"update", "submit", "cancel"}
      /\ FirstStep = "write" => job.kind = "set"
      /\ FirstStep = "delete" => job.kind = "delete"
  BY <1>4 DEF FirstStep
<1> DEFINE me == [worker[w] EXCEPT !.pc = FirstStep]
<1>6. me \in WorkerStates /\ me.pc = FirstStep /\ me.i = k /\ me.did = "none"
  BY <1>2, <1>5 DEF WorkerStates, Places
<1>7. worker \in [Workers -> WorkerStates] /\ worker' = [worker EXCEPT ![w] = me]
  BY DEF BulkInv, BulkTypes, Start
<1> HIDE DEF me
<1>8. worker' \in [Workers -> WorkerStates] /\ worker'[w] = me /\ \A v \in Workers \ {w} : worker'[v] = worker[v]
  BY <1>6, <1>7
<1>9. report' = report /\ applied' = applied /\ Items' = Items /\ job' = job /\ next' = next /\ sent' = sent
  BY DEF Start, fileVars, Items
<1>10. Place(w)'
  BY <1>2, <1>5, <1>6, <1>8, <1>9 DEF Place
<1>11. WorkStep(w, k)
  BY <1>2, <1>3, <1>5, <1>6, <1>8, <1>9, <1>10 DEF WorkStep
<1> QED
  BY <1>1, <1>2, <1>5, <1>6, <1>8, <1>9, <1>11, UntouchedIs DEF ItemStep, Silent, Unreported

\* An insert.
LEMMA InsertBodyIs ==
  ASSUME NEW d \in FileDocuments, NEW doc, IsDocument(doc)
  PROVE  Sendable(doc, InsertBody(d))
<1> DEFINE Row == [name: Nat, shown: Vals]
           S == {i \in DOMAIN d.rows : d.rows[i].shown # 0}
           rows == SentRows(d)
           full == [i \in DOMAIN rows |-> New(rows[i])]
<1>1. d.val \in Vals /\ d.rows \in Seq(Row)
  BY DEF FileDocuments, FileRows
<1>2. rows \in Seq(Row)
  <2> HIDE DEF Row
  <2>1. S \subseteq DOMAIN d.rows
    OBVIOUS
  <2>2. Chosen(d.rows, S) \in Seq(Row)
    BY <1>1, <2>1, ChosenIsSeq
  <2> QED
    BY <2>2 DEF SentRows
<1> HIDE DEF rows
<1>3. Len(rows) \in Nat /\ DOMAIN rows = 1..Len(rows) /\ \A i \in 1..Len(rows) : rows[i] \in Row
  <2> HIDE DEF Row
  <2> QED
    BY <1>2
<1> DEFINE Full == [name: Nat, shown: Vals, hidden: Vals]
<1>4. full \in [1..Len(rows) -> Full] /\ \A i \in DOMAIN full : full[i].name = 0
  BY <1>3, ValsHaveDefault DEF New
<1> HIDE DEF full
<1>5. full \in Rows
  <2> HIDE DEF Full
  <2>1. full \in Seq(Full)
    BY <1>3, <1>4, FunctionIsSeq
  <2> QED
    BY <2>1 DEF Full, Rows
<1>6. Fits(doc, full)
  BY <1>4, <1>5 DEF Fits, RowNames
<1> DEFINE val == IF d.val = 0 THEN <<>> ELSE <<d.val>>
<1>7. val = <<>> \/ \E v \in Vals : val = <<v>>
  BY <1>1
<1> HIDE DEF val
<1>8. InsertBody(d) = [val |-> val, rows |-> <<full>>, modified |-> 0]
  BY DEF InsertBody, Body, rows, full, val
<1>9. InsertBody(d).val = val /\ InsertBody(d).rows = <<full>>
  BY <1>8
<1> QED
  BY <1>5, <1>6, <1>7, <1>9 DEF Sendable

LEMMA ApplyStep ==
  ASSUME SiteInv, NEW w, NEW name \in Names, NEW doc, Evolves(site[name], doc),
         KeepsHidden(site[name], doc.rows),
         doc.there /\ ~site[name].there => worker[w].pc = "create" /\ (job.keepsName => name = It(w).name),
         site' = [site EXCEPT ![name] = doc]
  PROVE  SiteStep(w)
<1>1. SiteEvolves
  BY AppliedIs
<1>2. \A n \in Names : site'[n] = IF n = name THEN doc ELSE site[n]
  BY DEF SiteInv
<1>3. \A n \in Names : KeepsHidden(site[n], site[n].rows)
  BY DEF SiteInv, KeepsHidden, WellFormed
<1> QED
  BY <1>1, <1>2, <1>3 DEF SiteStep, MakesItsOwn, HiddenStays

\* A saved document keeps what it had, when the body's rows do.
LEMMA SaveStep ==
  ASSUME SiteInv, NEW w, NEW name \in Names, NEW body, Sendable(site[name], body),
         body.rows # <<>> => KeepsHidden(site[name], body.rows[1]),
         ~site[name].there => worker[w].pc = "create" /\ (job.keepsName => name = It(w).name),
         site' = [site EXCEPT ![name] = Saved(site[name], body)]
  PROVE  SiteStep(w)
<1> DEFINE doc == site[name]
           new == Saved(doc, body)
           old == IF body.rows = <<>> THEN doc.rows ELSE body.rows[1]
<1>1. IsDocument(doc)
  BY DEF SiteInv, IsDocument
<1>2. /\ Evolves(doc, new)
      /\ DOMAIN new.rows = DOMAIN old
      /\ \A i \in DOMAIN old :
           /\ new.rows[i].hidden = old[i].hidden
           /\ old[i].name # 0 => new.rows[i] = old[i]
           /\ old[i].name = 0 => doc.made < new.rows[i].name
  BY <1>1, SavedIs
<1>3. KeepsHidden(doc, old)
  BY <1>1 DEF IsDocument, KeepsHidden, WellFormed
<1>4. \A j \in DOMAIN doc.rows : doc.rows[j].name <= doc.made /\ doc.rows[j].name \in Nat
  BY <1>1 DEF IsDocument, WellFormed
<1> HIDE DEF old
<1>5. KeepsHidden(doc, new.rows)
  <2> SUFFICES ASSUME NEW i \in DOMAIN old, NEW j \in DOMAIN doc.rows,
                      new.rows[i].name = doc.rows[j].name
               PROVE  new.rows[i].hidden = doc.rows[j].hidden
    BY <1>2 DEF KeepsHidden
  <2>1. old[i].name # 0
    <3>1. ~(doc.made < new.rows[i].name)
      BY <1>1, <1>4 DEF IsDocument, Documents
    <3> QED
      BY <1>2, <3>1
  <2> QED
    BY <1>2, <1>3, <2>1 DEF KeepsHidden
<1> HIDE DEF new
<1>6. PICK saved : saved = new
  OBVIOUS
<1>7. site' = [site EXCEPT ![name] = saved]
  BY <1>6 DEF new
<1> QED
  BY <1>2, <1>5, <1>6, <1>7, ApplyStep

LEMMA ItIs ==
  ASSUME BulkInv, NEW w \in Workers, worker[w].pc # "idle", NEW k, k = worker[w].i
  PROVE  /\ It(w) = docs[k] /\ It(w) \in FileDocuments /\ It(w).name \in Nat /\ It(w).val \in Vals
         /\ It(w).rows \in FileRows
         /\ worker[w].name \in Nat /\ worker[w].doc \in Documents /\ worker[w].did \in Dids
<1>1. docs[k] \in FileDocuments /\ worker[w] \in WorkerStates
  BY BusyIs
<1> QED
  BY <1>1 DEF It, FileDocuments, WorkerStates

LEMMA CreateStep ==
  ASSUME BulkInv, SiteInv, NEW w \in Workers, Create(w), NEW k, k = worker[w].i
  PROVE  worker[w].pc # "idle" /\ ItemStep(w, k)
<1> DEFINE name == IF job.keepsName THEN It(w).name ELSE MadeUp
           body == InsertBody(It(w))
           answer == CreateDoc(name, body, It(w).link)
<1>1. worker[w].pc = "create"
  BY DEF Create
<1>2. /\ job.kind = "insert" /\ worker[w].did = "none" /\ applied[k] = <<>>
  BY <1>1, BusyIs DEF Place, Made
<1>3. It(w) = docs[k] /\ It(w) \in FileDocuments /\ It(w).name \in Nat
  BY <1>1, ItIs
<1>4. name \in Nat
  <2>1. CASE job.keepsName
    BY <1>3, <2>1
  <2>2. CASE ~job.keepsName
    <3>1. \E n \in Names : ~Exists(n)
      BY <2>2 DEF Create
    <3>2. MadeUp \in Names
      BY <3>1 DEF MadeUp
    <3> QED
      BY <2>2, <3>2, NamesAreOrdered
  <2> QED
    BY <2>1, <2>2
<1>5. /\ Sends(w)
      /\ \/ HeldBack(w) /\ UNCHANGED <<site, applied>>
         \/ /\ ~job.dry /\ answer.err = "ok" /\ Apply(name, answer)
            /\ applied' = [applied EXCEPT ![worker[w].i] = Append(@, "create")]
            /\ Submitting(w, name, answer.doc, "created") \/ Cut(w)
         \/ /\ ~job.dry /\ answer.err # "ok"
            /\ Finish(w, "error", answer.err)
            /\ UNCHANGED <<site, applied>>
         \/ ~job.dry /\ Cut(w) /\ UNCHANGED <<site, applied>>
  BY DEF Create, Write
<1> HIDE DEF name
<1>6. CASE /\ ~job.dry /\ answer.err = "ok" /\ Apply(name, answer)
           /\ applied' = [applied EXCEPT ![worker[w].i] = Append(@, "create")]
           /\ Submitting(w, name, answer.doc, "created") \/ Cut(w)
  <2>1. name \in Names /\ ~site[name].there /\ answer.doc = Saved(site[name], body)
    <3> HIDE DEF body
    <3> QED
      BY <1>6 DEF CreateDoc, Refused, Answer, Exists
  <2>2. IsDocument(site[name]) /\ site[name].rows = <<>> /\ site[name].ds = 0
    BY <2>1 DEF SiteInv, IsDocument, WellFormed
  <2>3. Sendable(site[name], body)
    BY <1>3, <2>2, InsertBodyIs
  <2>4. KeepsHidden(site[name], body.rows[1])
    BY <2>2 DEF KeepsHidden
  <2>5. SiteStep(w)
    <3>1. job.keepsName => name = It(w).name
      BY DEF name
    <3>2. site' = [site EXCEPT ![name] = Saved(site[name], body)]
      BY <1>6, <2>1 DEF Apply
    <3> HIDE DEF body
    <3> QED
      BY <1>1, <2>1, <2>3, <2>4, <3>1, <3>2, SaveStep
  <2>6. answer.doc \in Documents /\ answer.doc.ds = 0
    <3> HIDE DEF body
    <3> QED
      BY <2>1, <2>2, <2>3, SavedIs DEF Evolves, IsDocument
  <2>7. Touches(k) /\ applied'[k] = Made("created")
    <3>1. Touches(k) /\ applied'[k] = Append(Made(worker[w].did), "create")
      BY <1>1, <1>5, <1>6, AppliedOne
    <3> QED
      BY <1>2, <3>1, SequencesAre DEF Made
  <2> HIDE DEF answer
  <2>8. CASE Submitting(w, name, answer.doc, "created")
    BY <1>1, <1>2, <1>4, <1>6, <2>5, <2>6, <2>7, <2>8, SubmittingStep
  <2>9. CASE Cut(w)
    BY <1>1, <2>5, <2>7, <2>9, CutDone
  <2> QED
    BY <1>1, <1>6, <2>8, <2>9
<1>7. CASE HeldBack(w) \/ Cut(w) \/ (answer.err # "ok" /\ Finish(w, "error", answer.err))
  <2> SUFFICES ASSUME UNCHANGED <<site, applied>> PROVE ItemStep(w, k)
    BY <1>1, <1>5, <1>6
  <2>1. answer.err \in Whys \cup {"ok"}
    BY DEF CreateDoc, Refused, Answer, Whys
  <2>2. answer.err = "noLink" => ~Exists(docs[k].link)
    <3> HIDE DEF body
    <3> QED
      BY <1>3 DEF CreateDoc, Refused, Answer
  <2> HIDE DEF answer
  <2> QED
    BY <1>1, <1>5, <1>7, <2>1, <2>2, NothingDone DEF HeldBack
<1> QED
  BY <1>1, <1>5, <1>6, <1>7

\* An update.
LEMMA UpdateBodyIs ==
  ASSUME NEW d \in FileDocuments, ~Twice(d.rows), NEW doc, IsDocument(doc)
  PROVE  LET body == UpdateBody(doc, d)
         IN /\ Sendable(doc, body) /\ body.modified = doc.ver
            /\ body.rows # <<>> => KeepsHidden(doc, body.rows[1])
<1> DEFINE Row == [name: Nat, shown: Vals]
           Full == [name: Nat, shown: Vals, hidden: Vals]
           n == Len(d.rows)
           m == Len(doc.rows)
           rows == [i \in DOMAIN d.rows |-> Merged(doc.rows, d.rows[i])]
           val == IF d.val \in {0, doc.val} THEN <<>> ELSE <<d.val>>
           part == IF d.rows = <<>> \/ rows = doc.rows THEN <<>> ELSE <<rows>>
<1>1. d.val \in Vals /\ n \in Nat /\ DOMAIN d.rows = 1..n /\ \A i \in 1..n : d.rows[i] \in Row
  <2>1. d.rows \in Seq(Row) /\ d.val \in Vals
    BY DEF FileDocuments, FileRows
  <2> HIDE DEF Row
  <2> QED
    BY <2>1
<1>2. m \in Nat /\ DOMAIN doc.rows = 1..m /\ \A j \in 1..m : doc.rows[j] \in Full
  <2>1. doc.rows \in Seq(Full)
    BY DEF IsDocument, Documents, Rows
  <2> HIDE DEF Full
  <2> QED
    BY <2>1
<1>3. \A i, j \in 1..m : doc.rows[i].name = doc.rows[j].name => i = j
  BY <1>2 DEF IsDocument, WellFormed
<1> HIDE DEF n, m
<1>4. ASSUME NEW row \in Row
      PROVE  /\ Merged(doc.rows, row) \in Full
             /\ Merged(doc.rows, row).name # 0 =>
                  /\ Merged(doc.rows, row).name = row.name
                  /\ \E j \in 1..m : Merged(doc.rows, row).name = doc.rows[j].name
                                     /\ Merged(doc.rows, row).hidden = doc.rows[j].hidden
  <2>1. CASE row.name # 0 /\ row.name \in RowNames(doc.rows)
    <3>1. PICK j \in 1..m : doc.rows[j].name = row.name
      BY <1>2, <2>1 DEF RowNames
    <3>2. \A i \in 1..m : doc.rows[i].name = row.name => doc.rows[i] = doc.rows[j]
      BY <1>3, <3>1
    <3>3. Kept(doc.rows, row) = doc.rows[j]
      BY <1>2, <3>1, <3>2 DEF Kept, ToSet
    <3>4. Merged(doc.rows, row) = [doc.rows[j] EXCEPT !.shown = IF row.shown = 0 THEN @ ELSE row.shown]
      BY <2>1, <3>3 DEF Merged
    <3>5. doc.rows[j] \in Full
      BY <1>2
    <3> QED
      BY <3>1, <3>4, <3>5
  <2>2. CASE ~(row.name # 0 /\ row.name \in RowNames(doc.rows))
    <3>1. Merged(doc.rows, row) = [name |-> 0, shown |-> row.shown, hidden |-> 0]
      BY <2>2 DEF Merged, New
    <3> QED
      BY <3>1, ValsHaveDefault
  <2> QED
    BY <2>1, <2>2
<1>5. /\ DOMAIN rows = 1..n /\ rows \in [1..n -> Full]
      /\ \A i \in 1..n : rows[i] = Merged(doc.rows, d.rows[i])
  BY <1>1, <1>4
<1> HIDE DEF rows
<1>6. rows \in Rows
  <2> HIDE DEF Full
  <2>1. rows \in Seq(Full)
    BY <1>1, <1>5, FunctionIsSeq
  <2> QED
    BY <2>1 DEF Full, Rows
<1>7. \A i \in 1..n : rows[i].name # 0 =>
        /\ rows[i].name = d.rows[i].name
        /\ \E j \in 1..m : rows[i].name = doc.rows[j].name /\ rows[i].hidden = doc.rows[j].hidden
  BY <1>1, <1>4, <1>5
<1>8. ASSUME NEW i \in 1..n, NEW j \in 1..n, rows[i].name = rows[j].name, rows[i].name # 0 PROVE i = j
  <2>1. d.rows[i].name = d.rows[j].name /\ d.rows[i].name # 0
    BY <1>7, <1>8
  <2>2. ~(i < j) /\ ~(j < i)
    BY <1>1, <2>1 DEF Twice
  <2> QED
    BY <1>1, <2>2
<1>9. RowNames(rows) \subseteq RowNames(doc.rows)
  BY <1>2, <1>5, <1>7 DEF RowNames
<1>10. Fits(doc, rows)
  BY <1>5, <1>6, <1>8, <1>9 DEF Fits
<1>11. KeepsHidden(doc, rows)
  BY <1>2, <1>3, <1>5, <1>7 DEF KeepsHidden
<1>12. UpdateBody(doc, d) = [val |-> val, rows |-> part, modified |-> doc.ver]
  BY DEF UpdateBody, Body, rows
<1>13. (val = <<>> \/ \E v \in Vals : val = <<v>>) /\ (part = <<>> \/ part = <<rows>>)
  BY <1>1
<1> HIDE DEF val, part
<1>14. UpdateBody(doc, d).val = val /\ UpdateBody(doc, d).rows = part /\ UpdateBody(doc, d).modified = doc.ver
  BY <1>12
<1>15. part # <<>> => part[1] = rows
  BY <1>13
<1> QED
  BY <1>6, <1>10, <1>11, <1>13, <1>14, <1>15 DEF Sendable

LEMMA ReadUpdateStep ==
  ASSUME BulkInv, SiteInv, NEW w \in Workers, ReadUpdate(w), NEW k, k = worker[w].i
  PROVE  worker[w].pc # "idle" /\ ItemStep(w, k)
<1> DEFINE name == It(w).name
           doc == GetDoc(name).doc
           body == UpdateBody(doc, It(w))
<1>1. worker[w].pc = "read" /\ job.kind = "update"
  BY DEF ReadUpdate
<1>2. worker[w].did = "none" /\ applied[k] = <<>>
  BY <1>1, BusyIs DEF Place, Made
<1>3. It(w) = docs[k] /\ name \in Nat
  BY <1>1, ItIs
<1>4. /\ Sends(w) /\ UNCHANGED <<site, applied>>
      /\ \/ /\ GetDoc(name).err = "ok"
            /\ IF body.val = <<>> /\ body.rows = <<>>
               THEN Submitting(w, name, doc, "unchanged")
               ELSE GoOn(w, "write", name, doc, "none")
         \/ NotRead(w, name)
         \/ Cut(w)
  BY DEF ReadUpdate, Reads
<1> HIDE DEF name
<1>5. Touches(k) /\ SiteStep(w) /\ applied'[k] = <<>>
  BY <1>1, <1>2, <1>4, SendsTouches, UntouchedIs
<1>6. ASSUME GetDoc(name).err = "ok"
      PROVE  name \in Names /\ site[name].there /\ doc = site[name] /\ IsDocument(doc) /\ doc \in Documents
  BY <1>6 DEF GetDoc, Answer, Refused, Exists, SiteInv, IsDocument
<1>7. GetDoc(name).err \in Whys \cup {"ok"} /\ GetDoc(name).err # "noLink"
  BY DEF GetDoc, Answer, Refused, Whys
<1> HIDE DEF doc, body
<1>8. CASE GetDoc(name).err = "ok" /\ Submitting(w, name, doc, "unchanged")
  <2>1. applied'[k] = Made("unchanged")
    BY <1>5 DEF Made
  <2> QED
    BY <1>1, <1>3, <1>5, <1>6, <1>8, <2>1, SubmittingStep
<1>9. CASE GetDoc(name).err = "ok" /\ GoOn(w, "write", name, doc, "none")
  <2>1. applied'[k] = Made("none")
    BY <1>5 DEF Made
  <2>2. WorkStep(w, k) /\ worker'[w].doc = doc
    BY <1>1, <1>3, <1>5, <1>6, <1>9, <2>1, GoOnIs DEF Places, Dids
  <2>3. report'[k].why = "none"
    BY <1>1, <1>9, BusyIs DEF GoOn, Place, Unreported
  <2>4. docs' = docs /\ site' = site
    BY <1>4 DEF Sends, fileVars
  <2>5. docs'[k].name \in Names /\ IsDocument(worker'[w].doc) /\ worker'[w].doc = site'[docs'[k].name]
        /\ site'[docs'[k].name].there
    BY <1>3, <1>6, <1>9, <2>2, <2>4 DEF name
  <2>6. AsRead(worker[w].doc, docs[k].name)'
    <3>1. worker'[w].doc.ver \in Nat
      BY <2>5, DocumentHas DEF IsDocument
    <3> QED
      BY <2>5, <3>1 DEF AsRead
  <2> QED
    BY <1>1, <1>5, <2>2, <2>3, <2>6 DEF ItemStep
<1>10. CASE NotRead(w, name)
  BY <1>1, <1>4, <1>7, <1>10, NothingDone DEF NotRead
<1>11. CASE Cut(w)
  BY <1>1, <1>4, <1>11, NothingDone
<1> QED
  BY <1>1, <1>4, <1>8, <1>9, <1>10, <1>11

LEMMA WriteUpdateStep ==
  ASSUME BulkInv, SiteInv, WritesAsRead, NEW w \in Workers, WriteUpdate(w), NEW k, k = worker[w].i
  PROVE  worker[w].pc # "idle" /\ ItemStep(w, k)
<1> DEFINE name == It(w).name
           doc == worker[w].doc
           body == UpdateBody(doc, It(w))
           answer == UpdateDoc(name, body)
<1>1. worker[w].pc = "write" /\ job.kind = "update"
  BY DEF WriteUpdate
<1>2. worker[w].did = "none" /\ applied[k] = <<>> /\ k \in Items
  BY <1>1, BusyIs DEF Place, Made
<1>3. It(w) = docs[k] /\ It(w) \in FileDocuments /\ name \in Nat
  BY <1>1, ItIs
<1>4. AsRead(doc, name)
  BY <1>1 DEF WritesAsRead
<1>5. ~Twice(It(w).rows)
  <2>1. Checked
    BY <1>1, BusyIs DEF BulkInv, Phases, IsImport, Running
  <2> QED
    BY <1>1, <1>2, <1>3, <2>1 DEF Checked
<1>6. /\ Sends(w)
      /\ \/ HeldBack(w) /\ UNCHANGED <<site, applied>>
         \/ /\ ~job.dry /\ answer.err = "ok" /\ Apply(name, answer)
            /\ applied' = [applied EXCEPT ![worker[w].i] = Append(@, "update")]
            /\ Submitting(w, name, answer.doc, "updated") \/ Cut(w)
         \/ /\ ~job.dry /\ answer.err # "ok"
            /\ Finish(w, "error", answer.err)
            /\ UNCHANGED <<site, applied>>
         \/ ~job.dry /\ Cut(w) /\ UNCHANGED <<site, applied>>
  BY DEF WriteUpdate, Write
<1> HIDE DEF name, doc
<1>7. CASE /\ ~job.dry /\ answer.err = "ok" /\ Apply(name, answer)
           /\ applied' = [applied EXCEPT ![worker[w].i] = Append(@, "update")]
           /\ Submitting(w, name, answer.doc, "updated") \/ Cut(w)
  <2>1. IsDocument(doc) /\ name \in Names
    BY <1>4 DEF AsRead
  <2>2. body.modified = doc.ver
    BY <1>3, <1>5, <2>1, UpdateBodyIs
  <2>3. /\ site[name].there /\ body.modified \in {0, site[name].ver}
        /\ answer.doc = Saved(site[name], body)
    <3> HIDE DEF body
    <3> QED
      BY <1>7 DEF UpdateDoc, Refused, Answer, Exists
  <2>4. doc.ver # 0
    BY <1>4, <2>1 DEF AsRead, IsDocument, WellFormed
  <2>5. doc = site[name]
    <3> HIDE DEF body
    <3> QED
      BY <1>4, <2>2, <2>3, <2>4 DEF AsRead
  <2>6. Sendable(doc, body) /\ (body.rows # <<>> => KeepsHidden(doc, body.rows[1]))
    BY <1>3, <1>5, <2>1, UpdateBodyIs
  <2> HIDE DEF body
  <2>7. SiteStep(w)
    <3>1. site' = [site EXCEPT ![name] = Saved(site[name], body)]
      BY <1>7, <2>3 DEF Apply
    <3>2. Sendable(site[name], body) /\ (body.rows # <<>> => KeepsHidden(site[name], body.rows[1]))
      BY <2>5, <2>6
    <3> QED
      BY <2>1, <2>3, <3>1, <3>2, SaveStep
  <2>8. answer.doc \in Documents
    BY <2>1, <2>3, <2>5, <2>6, SavedIs DEF Evolves, IsDocument
  <2>9. Touches(k) /\ applied'[k] = Made("updated")
    <3>1. Touches(k) /\ applied'[k] = Append(Made(worker[w].did), "update")
      BY <1>1, <1>6, <1>7, AppliedOne
    <3> QED
      BY <1>2, <3>1, SequencesAre DEF Made
  <2> HIDE DEF answer
  <2>10. CASE Submitting(w, name, answer.doc, "updated")
    BY <1>1, <1>3, <1>7, <2>7, <2>8, <2>9, <2>10, SubmittingStep
  <2>11. CASE Cut(w)
    BY <1>1, <2>7, <2>9, <2>11, CutDone
  <2> QED
    BY <1>1, <1>7, <2>10, <2>11
<1>8. CASE HeldBack(w) \/ Cut(w) \/ (answer.err # "ok" /\ Finish(w, "error", answer.err))
  <2> SUFFICES ASSUME UNCHANGED <<site, applied>> PROVE ItemStep(w, k)
    BY <1>1, <1>6, <1>7
  <2>1. answer.err \in Whys \cup {"ok"} /\ answer.err # "noLink"
    <3> HIDE DEF body
    <3> QED
      BY DEF UpdateDoc, Refused, Answer, Whys
  <2> HIDE DEF answer
  <2> QED
    BY <1>1, <1>6, <1>8, <2>1, NothingDone DEF HeldBack
<1> QED
  BY <1>1, <1>6, <1>7, <1>8

\* A write that ends its item.
LEMMA LastWriteDone ==
  ASSUME BulkInv, SiteInv, NEW w \in Workers, worker[w].pc # "idle", NEW k, k = worker[w].i,
         NEW name \in Names, NEW what, NEW doc, Sends(w),
         applied' = [applied EXCEPT ![k] = Append(@, what)],
         Append(Made(worker[w].did), what) \in WantedOf(worker[w].did),
         Finish(w, "done", "none") \/ Cut(w),
         site[name].there, Evolves(site[name], doc), KeepsHidden(site[name], doc.rows),
         site' = [site EXCEPT ![name] = doc]
  PROVE  ItemStep(w, k)
<1>1. SiteStep(w)
  BY ApplyStep
<1>2. Touches(k) /\ applied'[k] = Append(Made(worker[w].did), what)
  <2>1. DOMAIN applied = Items /\ applied[k] = Made(worker[w].did) /\ k \in Items
    BY BusyIs DEF Place
  <2>2. applied'[k] = Append(applied[k], what)
    BY <2>1
  <2>3. Touches(k)
    BY <2>1 DEF Touches, Sends
  <2> QED
    BY <2>1, <2>2, <2>3
<1>3. CASE Finish(w, "done", "none")
  <2>1. Truly("done", "none", worker[w].did, applied'[k])
    BY <1>2, ItIs DEF Truly, Whys
  <2> QED
    BY <1>1, <1>2, <1>3, <2>1, EndStep DEF Finish
<1>4. CASE Cut(w)
  BY <1>1, <1>2, <1>4, CutDone
<1> QED
  BY <1>3, <1>4

LEMMA LastWrite ==
  ASSUME BulkInv, SiteInv, NEW w \in Workers, worker[w].pc # "idle", NEW k, k = worker[w].i,
         NEW name, NEW what, NEW answer, Sends(w),
         \/ HeldBack(w) /\ UNCHANGED <<site, applied>>
         \/ /\ ~job.dry /\ answer.err = "ok" /\ Apply(name, answer)
            /\ applied' = [applied EXCEPT ![worker[w].i] = Append(@, what)]
            /\ Finish(w, "done", "none") \/ Cut(w)
         \/ /\ ~job.dry /\ answer.err # "ok"
            /\ Finish(w, "error", answer.err)
            /\ UNCHANGED <<site, applied>>
         \/ ~job.dry /\ Cut(w) /\ UNCHANGED <<site, applied>>,
         Append(Made(worker[w].did), what) \in WantedOf(worker[w].did),
         answer.err \in (Whys \ {"noLink"}) \cup {"ok"},
         answer.err = "ok" =>
           /\ name \in Names /\ site[name].there
           /\ Evolves(site[name], answer.doc) /\ KeepsHidden(site[name], answer.doc.rows)
  PROVE  ItemStep(w, k)
<1>1. CASE /\ answer.err = "ok" /\ Apply(name, answer)
           /\ applied' = [applied EXCEPT ![worker[w].i] = Append(@, what)]
           /\ Finish(w, "done", "none") \/ Cut(w)
  <2>1. applied' = [applied EXCEPT ![k] = Append(@, what)] /\ site' = [site EXCEPT ![name] = answer.doc]
    BY <1>1 DEF Apply
  <2>2. PICK doc : doc = answer.doc
    OBVIOUS
  <2>3. /\ name \in Names /\ site[name].there
        /\ Evolves(site[name], doc) /\ KeepsHidden(site[name], doc.rows) /\ site' = [site EXCEPT ![name] = doc]
    BY <1>1, <2>1, <2>2
  <2> QED
    BY <1>1, <2>1, <2>3, LastWriteDone
<1>2. CASE HeldBack(w) /\ UNCHANGED <<site, applied>>
  BY <1>2, NothingDone DEF HeldBack
<1>3. CASE Cut(w) /\ UNCHANGED <<site, applied>>
  BY <1>3, NothingDone
<1>4. CASE answer.err # "ok" /\ Finish(w, "error", answer.err) /\ UNCHANGED <<site, applied>>
  BY <1>4, NothingDone
<1> QED
  BY <1>1, <1>2, <1>3, <1>4

\* What a call that leaves the rows, or no row, keeps.
LEMMA RowsAreKept ==
  ASSUME SiteInv, NEW name \in Names, NEW rows, rows = site[name].rows \/ rows = <<>>
  PROVE  IsDocument(site[name]) /\ KeepsHidden(site[name], rows)
BY DEF SiteInv, IsDocument, WellFormed, KeepsHidden

LEMMA CancelStep ==
  ASSUME BulkInv, SiteInv, NEW w \in Workers, Cancel(w), NEW k, k = worker[w].i
  PROVE  worker[w].pc # "idle" /\ ItemStep(w, k)
<1> DEFINE name == It(w).name
           answer == CancelDoc(name)
           doc == [site[name] EXCEPT !.ver = @ + 1, !.ds = 2]
<1>1. worker[w].pc = "cancel"
  BY DEF Cancel
<1>2. job.kind = "cancel" /\ worker[w].did = "none"
  BY <1>1, BusyIs DEF Place
<1>3. ~job.submit
  BY <1>2, JobsAreCommands DEF BulkInv, BulkTypes
<1>4. Append(Made(worker[w].did), "cancel") \in WantedOf(worker[w].did)
  BY <1>2, <1>3, SequencesAre DEF Made, WantedOf
<1>5. answer.err \in (Whys \ {"noLink"}) \cup {"ok"}
  BY DEF CancelDoc, Refused, Answer, Whys
<1>6. ASSUME answer.err = "ok"
      PROVE  /\ name \in Names /\ site[name].there
             /\ Evolves(site[name], answer.doc) /\ KeepsHidden(site[name], answer.doc.rows)
  <2>1. name \in Names /\ site[name].there /\ answer.doc = doc
    BY <1>6 DEF CancelDoc, Refused, Answer, Exists
  <2>2. IsDocument(site[name])
    BY <2>1, RowsAreKept
  <2>3. doc.rows = site[name].rows
    BY <2>2 DEF IsDocument, Documents
  <2>4. Evolves(site[name], doc)
    BY <2>1, <2>2, CallsEvolve
  <2> QED
    BY <2>1, <2>3, <2>4, RowsAreKept
<1>7. Write(w, name, "cancel", answer, LAMBDA d : Finish(w, "done", "none"))
  BY DEF Cancel
<1> HIDE DEF name, answer
<1> QED
  BY <1>1, <1>4, <1>5, <1>6, <1>7, LastWrite DEF Write

LEMMA DeleteStep ==
  ASSUME BulkInv, SiteInv, NEW w \in Workers, Delete(w), NEW k, k = worker[w].i
  PROVE  worker[w].pc # "idle" /\ ItemStep(w, k)
<1> DEFINE name == It(w).name
           answer == DeleteDoc(name)
<1>1. worker[w].pc = "delete"
  BY DEF Delete
<1>2. job.kind = "delete" /\ worker[w].did = "none"
  BY <1>1, BusyIs DEF Place
<1>3. ~job.submit
  BY <1>2, JobsAreCommands DEF BulkInv, BulkTypes
<1>4. Append(Made(worker[w].did), "delete") \in WantedOf(worker[w].did)
  BY <1>2, <1>3, SequencesAre DEF Made, WantedOf
<1>5. answer.err \in (Whys \ {"noLink"}) \cup {"ok"}
  BY DEF DeleteDoc, Refused, Answer, Whys
<1>6. ASSUME answer.err = "ok"
      PROVE  /\ name \in Names /\ site[name].there
             /\ Evolves(site[name], answer.doc) /\ KeepsHidden(site[name], answer.doc.rows)
  <2>1. name \in Names /\ site[name].there /\ answer.doc = Removal(site[name])
    BY <1>6 DEF DeleteDoc, Refused, Answer, Exists
  <2>2. Removal(site[name]).rows = <<>>
    BY DEF Removal, NoDoc
  <2> QED
    BY <2>1, <2>2, CallsEvolve, RowsAreKept
<1>7. Write(w, name, "delete", answer, LAMBDA d : Finish(w, "done", "none"))
  BY DEF Delete
<1> HIDE DEF name, answer
<1> QED
  BY <1>1, <1>4, <1>5, <1>6, <1>7, LastWrite DEF Write

LEMMA WriteSetStep ==
  ASSUME BulkInv, SiteInv, NEW w \in Workers, WriteSet(w), NEW k, k = worker[w].i
  PROVE  worker[w].pc # "idle" /\ ItemStep(w, k)
<1> DEFINE name == It(w).name
           body == Body(<<It(w).val>>, <<>>, 0)
           answer == UpdateDoc(name, body)
<1>1. worker[w].pc = "write" /\ job.kind = "set"
  BY DEF WriteSet
<1>2. worker[w].did = "none" /\ It(w).val \in Vals
  BY <1>1, BusyIs, ItIs DEF Place
<1>3. ~job.submit
  BY <1>1, JobsAreCommands DEF BulkInv, BulkTypes
<1>4. Append(Made(worker[w].did), "update") \in WantedOf(worker[w].did)
  BY <1>1, <1>2, <1>3, SequencesAre DEF Made, WantedOf
<1>5. body.rows = <<>> /\ body.val = <<It(w).val>>
  BY DEF Body
<1>6. \A doc : Sendable(doc, body)
  BY <1>2, <1>5 DEF Sendable
<1>7. Write(w, name, "update", answer, LAMBDA d : Finish(w, "done", "none"))
  BY DEF WriteSet
<1> HIDE DEF name, body
<1>8. answer.err \in (Whys \ {"noLink"}) \cup {"ok"}
  BY DEF UpdateDoc, Refused, Answer, Whys
<1>9. ASSUME answer.err = "ok"
      PROVE  /\ name \in Names /\ site[name].there
             /\ Evolves(site[name], answer.doc) /\ KeepsHidden(site[name], answer.doc.rows)
  <2>1. name \in Names /\ site[name].there /\ answer.doc = Saved(site[name], body)
    BY <1>9 DEF UpdateDoc, Refused, Answer, Exists
  <2>2. IsDocument(site[name])
    BY <2>1, RowsAreKept
  <2>3. Evolves(site[name], Saved(site[name], body)) /\ Saved(site[name], body).rows = site[name].rows
    BY <1>5, <1>6, <2>2, SavedIs
  <2> QED
    BY <2>1, <2>3, RowsAreKept
<1> HIDE DEF answer
<1> QED
  BY <1>1, <1>4, <1>7, <1>8, <1>9, LastWrite DEF Write

LEMMA SubmitStep ==
  ASSUME BulkInv, SiteInv, NEW w \in Workers, Submit(w), NEW k, k = worker[w].i
  PROVE  worker[w].pc # "idle" /\ ItemStep(w, k)
<1> DEFINE name == worker[w].name
           answer == SubmitDoc(name, worker[w].doc)
           doc == [site[name] EXCEPT !.ver = @ + 1, !.ds = 1]
<1>1. worker[w].pc = "submit"
  BY DEF Submit
<1>2. \/ job.kind = "submit" /\ worker[w].did = "none"
      \/ job.kind = "insert" /\ job.submit /\ worker[w].did = "created"
      \/ job.kind = "update" /\ job.submit /\ worker[w].did \in {"updated", "unchanged"}
  BY <1>1, BusyIs DEF Place
<1>3. job.kind = "submit" => ~job.submit
  BY JobsAreCommands DEF BulkInv, BulkTypes
<1>4. Append(Made(worker[w].did), "submit") \in WantedOf(worker[w].did)
  BY <1>2, <1>3, SequencesAre DEF Made, WantedOf
<1>5. answer.err \in (Whys \ {"noLink"}) \cup {"ok"}
  BY DEF SubmitDoc, Refused, Answer, Whys
<1>6. ASSUME answer.err = "ok"
      PROVE  /\ name \in Names /\ site[name].there
             /\ Evolves(site[name], answer.doc) /\ KeepsHidden(site[name], answer.doc.rows)
  <2>1. name \in Names /\ site[name].there /\ answer.doc = doc
    BY <1>6 DEF SubmitDoc, Refused, Answer, Exists
  <2>2. IsDocument(site[name])
    BY <2>1, RowsAreKept
  <2>3. doc.rows = site[name].rows
    BY <2>2 DEF IsDocument, Documents
  <2>4. Evolves(site[name], doc)
    BY <2>1, <2>2, CallsEvolve
  <2> QED
    BY <2>1, <2>3, <2>4, RowsAreKept
<1>7. Write(w, name, "submit", answer, LAMBDA d : Finish(w, "done", "none"))
  BY DEF Submit
<1> HIDE DEF name, answer
<1> QED
  BY <1>1, <1>4, <1>5, <1>6, <1>7, LastWrite DEF Write

\* The reads.
LEMMA ReadIs ==
  ASSUME SiteInv, NEW name
  PROVE  /\ GetDoc(name).err \in (Whys \ {"noLink"}) \cup {"ok"}
         /\ GetDoc(name).err = "ok" => name \in Names /\ GetDoc(name).doc = site[name] /\ site[name].there
                                       /\ IsDocument(site[name]) /\ site[name] \in Documents
BY DEF GetDoc, Answer, Refused, Exists, SiteInv, IsDocument, Whys

LEMMA ReadStateStep ==
  ASSUME BulkInv, SiteInv, NEW w \in Workers, ReadState(w), NEW k, k = worker[w].i
  PROVE  worker[w].pc # "idle" /\ ItemStep(w, k)
<1> DEFINE name == It(w).name
           doc == GetDoc(name).doc
           pc == IF job.kind = "submit" THEN "sread" ELSE "cancel"
<1>1. worker[w].pc = "read" /\ job.kind \in {"submit", "cancel"}
  BY DEF ReadState
<1>2. worker[w].did = "none" /\ applied[k] = <<>>
  BY <1>1, BusyIs DEF Place, Made
<1>3. name \in Nat
  BY <1>1, ItIs
<1>4. /\ Sends(w) /\ UNCHANGED <<site, applied>>
      /\ \/ /\ GetDoc(name).err = "ok"
            /\ IF doc.ds # job.from THEN Finish(w, "error", "state") ELSE GoOn(w, pc, name, doc, "none")
         \/ NotRead(w, name)
         \/ Cut(w)
  BY DEF ReadState, Reads
<1> HIDE DEF name
<1>5. Touches(k) /\ SiteStep(w) /\ applied'[k] = Made("none")
  BY <1>1, <1>2, <1>4, SendsTouches, UntouchedIs DEF Made
<1>6. GetDoc(name).err = "ok" => doc \in Documents
  BY ReadIs
<1>7. GetDoc(name).err \in (Whys \ {"noLink"}) \cup {"ok"}
  BY ReadIs
<1>8. CASE GetDoc(name).err = "ok" /\ GoOn(w, pc, name, doc, "none")
  <2> HIDE DEF doc
  <2>1. WorkStep(w, k) /\ worker'[w].pc = pc
    BY <1>1, <1>3, <1>5, <1>6, <1>8, GoOnIs DEF Places, Dids, Made
  <2>2. report' = report
    BY <1>8 DEF GoOn
  <2> QED
    BY <1>1, <1>5, <2>1, <2>2, GoOnStep
<1>9. CASE Finish(w, "error", "state")
  BY <1>1, <1>4, <1>9, NothingDone DEF Whys
<1>10. CASE NotRead(w, name)
  BY <1>1, <1>4, <1>7, <1>10, NothingDone DEF NotRead
<1>11. CASE Cut(w)
  BY <1>1, <1>4, <1>11, NothingDone
<1> QED
  BY <1>1, <1>4, <1>8, <1>9, <1>10, <1>11

LEMMA ReadSubmitStep ==
  ASSUME BulkInv, SiteInv, NEW w \in Workers, ReadSubmit(w), NEW k, k = worker[w].i
  PROVE  worker[w].pc # "idle" /\ ItemStep(w, k)
<1> DEFINE name == worker[w].name
           doc == GetDoc(name).doc
           did == worker[w].did
<1>1. worker[w].pc = "sread"
  BY DEF ReadSubmit
<1>2. /\ applied[k] = Made(did) /\ (job.dry => applied[k] = <<>>)
      /\ \/ job.kind = "submit" /\ did = "none"
         \/ job.kind = "insert" /\ job.submit /\ did = "created"
         \/ job.kind = "update" /\ job.submit /\ did \in {"updated", "unchanged"}
  BY <1>1, BusyIs DEF Place
<1>3. name \in Nat /\ did \in Dids
  BY <1>1, ItIs
<1>4. /\ Sends(w) /\ UNCHANGED <<site, applied>>
      /\ \/ GetDoc(name).err = "ok" /\ GoOn(w, "submit", name, doc, did)
         \/ NotRead(w, name)
         \/ Cut(w)
  BY DEF ReadSubmit, Reads
<1> HIDE DEF name
<1>5. Touches(k) /\ SiteStep(w) /\ applied'[k] = Made(did) /\ (job.dry => applied'[k] = <<>>)
  BY <1>1, <1>2, <1>4, SendsTouches, UntouchedIs
<1>6. GetDoc(name).err = "ok" => doc \in Documents
  BY ReadIs
<1>7. GetDoc(name).err \in (Whys \ {"noLink"}) \cup {"ok"}
  BY ReadIs
<1>8. CASE GetDoc(name).err = "ok" /\ GoOn(w, "submit", name, doc, did)
  <2> HIDE DEF doc, did
  <2>1. WorkStep(w, k) /\ worker'[w].pc = "submit"
    BY <1>1, <1>2, <1>3, <1>5, <1>6, <1>8, GoOnIs DEF Places
  <2>2. report' = report
    BY <1>8 DEF GoOn
  <2> QED
    BY <1>1, <1>5, <2>1, <2>2, GoOnStep
<1>9. CASE NotRead(w, name)
  BY <1>1, <1>4, <1>7, <1>9, NothingDone DEF NotRead
<1>10. CASE Cut(w)
  BY <1>1, <1>4, <1>10, NothingDone
<1> QED
  BY <1>1, <1>4, <1>8, <1>9, <1>10

-----------------------------------------------------------------------------
(***************************************************************************)
(* What every step leaves of the rest: the documents as they were read,    *)
(* the rows as they were seen, and the edit.                               *)
(***************************************************************************)
LEMMA SiteKeeps ==
  ASSUME SiteInv, SiteEvolves
  PROVE  SiteInv'
BY DEF SiteInv, SiteEvolves, Evolves, IsDocument

LEMMA ReadStays ==
  ASSUME SiteInv, SiteEvolves, NEW doc, NEW name, AsRead(doc, name)
  PROVE  AsRead(doc, name)'
<1>1. Evolves(site[name], site'[name]) /\ site[name] \in Documents /\ doc \in Documents
  BY DEF AsRead, SiteEvolves, SiteInv, IsDocument
<1>2. doc.ver \in Nat /\ site[name].ver \in Nat /\ site'[name].ver \in Nat
  BY <1>1, DocumentHas DEF Evolves, IsDocument
<1>3. CASE site'[name] = site[name]
  BY <1>3 DEF AsRead
<1>4. CASE site'[name] # site[name]
  BY <1>1, <1>2, <1>4 DEF AsRead, Evolves
<1> QED
  BY <1>3, <1>4

\* The rows that were seen stay seen, and every other is younger.
LEMMA SeenStays ==
  ASSUME SiteInv, SiteEvolves, UNCHANGED seen, seen \in [Names -> Nat], NEW name \in Names,
         seen[name] <= site[name].made
  PROVE  /\ seen'[name] <= site'[name].made
         /\ (\A m \in RowNames(site[name].rows) : seen[name] < m) =>
              \A m \in RowNames(site'[name].rows) : seen'[name] < m
<1>1. Evolves(site[name], site'[name]) /\ site[name] \in Documents /\ IsDocument(site'[name])
  BY DEF SiteEvolves, SiteInv, Evolves
<1>2. /\ site[name].made \in Nat /\ site'[name].made \in Nat /\ seen[name] \in Nat
      /\ site[name].made <= site'[name].made
  BY <1>1 DEF Documents, Evolves, IsDocument
<1>3. \A m \in RowNames(site'[name].rows) : m \in Nat
  <2>1. \A i \in DOMAIN site'[name].rows : site'[name].rows[i].name \in 1..site'[name].made
    BY <1>1 DEF IsDocument, WellFormed
  <2> QED
    BY <1>2, <2>1 DEF RowNames
<1>4. \A m \in RowNames(site'[name].rows) : m \in RowNames(site[name].rows) \/ site[name].made < m
  BY <1>1 DEF Evolves
<1> QED
  BY <1>2, <1>3, <1>4

LEMMA RowsSeenStay ==
  ASSUME SiteInv, SiteEvolves, BulkTypes, RowsAsSeen, UNCHANGED fileVars,
         Running' => Running \/ (phase = "rows" /\ \A i \in Items : i < at),
         phase' = "rows" => phase = "rows" \/ at = 1
  PROVE  RowsAsSeen'
<1>1. seen \in [Names -> Nat] /\ UNCHANGED seen
  BY DEF BulkTypes, fileVars
<1>2. \A name \in Names : seen[name] <= site[name].made
  BY DEF RowsAsSeen
<1>3. \A name \in Names : seen'[name] <= site'[name].made
  BY <1>1, <1>2, SeenStays
<1>4. ASSUME (phase = "rows" \/ Running)', ~problems', NEW i \in Items,
             (Running \/ i < at)', Unnamed(docs[i])', docs[i].name \in Names
      PROVE  \A m \in RowNames(site'[docs[i].name].rows) : seen'[docs[i].name] < m
  <2>1. ~problems /\ Unnamed(docs[i]) /\ at' = at
    BY <1>4 DEF fileVars, Unnamed
  <2>2. i \in Nat \ {0} /\ ~(i < 1)
    BY DEF Items, BulkTypes
  <2>3. (phase = "rows" \/ Running) /\ (Running \/ i < at)
    BY <1>4, <2>1, <2>2 DEF Running
  <2>4. \A m \in RowNames(site[docs[i].name].rows) : seen[docs[i].name] < m
    BY <1>4, <2>1, <2>3 DEF RowsAsSeen
  <2> QED
    BY <1>1, <1>2, <1>4, <2>4, SeenStays
<1> QED
  BY <1>3, <1>4 DEF RowsAsSeen, fileVars, Items

LEMMA EditStays ==
  ASSUME SiteInv, SiteEvolves, Edits, UNCHANGED edit
  PROVE  Edits'
<1>1. edit.pc \in {"editor", "confirm"} => AsRead(edit.doc, edit.name)'
  BY ReadStays DEF Edits, AsRead
<1> QED
  BY <1>1 DEF Edits, AsRead

-----------------------------------------------------------------------------
(***************************************************************************)
(* A step of a worker with an item keeps the invariant.                    *)
(***************************************************************************)
ItemActs(w) ==
  \/ (Skip(w) \/ Start(w)) /\ Silent
  \/ (Create(w) \/ ReadUpdate(w) \/ WriteUpdate(w) \/ WriteSet(w) \/ ReadState(w)
        \/ Cancel(w) \/ Delete(w) \/ ReadSubmit(w) \/ Submit(w))
     /\ UNCHANGED <<edit, desk>>

LEMMA ItemActsStep ==
  ASSUME BulkInv, SiteInv, WritesAsRead, NEW w \in Workers, ItemActs(w), NEW k, k = worker[w].i
  PROVE  worker[w].pc # "idle" /\ ItemStep(w, k) /\ UNCHANGED edit
<1>1. UNCHANGED edit
  BY DEF ItemActs, Silent
<1>2. CASE (Skip(w) \/ Start(w)) /\ Silent
  BY <1>1, <1>2, SkipStep, StartStep
<1>3. CASE Create(w) \/ ReadUpdate(w) \/ WriteUpdate(w)
  BY <1>1, <1>3, CreateStep, ReadUpdateStep, WriteUpdateStep
<1>4. CASE WriteSet(w) \/ ReadState(w) \/ Cancel(w)
  BY <1>1, <1>4, WriteSetStep, ReadStateStep, CancelStep
<1>5. CASE Delete(w) \/ ReadSubmit(w) \/ Submit(w)
  BY <1>1, <1>5, DeleteStep, ReadSubmitStep, SubmitStep
<1> QED
  BY <1>2, <1>3, <1>4, <1>5 DEF ItemActs

LEMMA ItemKeeps ==
  ASSUME IInv, NEW w \in Workers, ItemActs(w)
  PROVE  IInv' /\ HiddenStays
<1>1. PICK k : k = worker[w].i
  OBVIOUS
<1>2. BulkInv /\ SiteInv /\ RowsAsSeen /\ WritesAsRead /\ Edits /\ LinksTold
  BY DEF IInv, DocsInv
<1>3. worker[w].pc # "idle" /\ ItemStep(w, k) /\ UNCHANGED edit
  BY <1>1, <1>2, ItemActsStep
<1>4. WorkStep(w, k) /\ SiteEvolves /\ MakesItsOwn(w) /\ HiddenStays
  BY <1>3 DEF ItemStep, SiteStep
<1>5. BulkInv' /\ SiteInv'
  BY <1>1, <1>2, <1>3, <1>4, WorkKeeps, SiteKeeps
<1>6. /\ UNCHANGED <<phase, fileVars, next>> /\ Items' = Items /\ docs' = docs /\ job' = job
      /\ sameFile' = sameFile
  BY <1>4 DEF WorkStep, Touches, fileVars, Items
<1>7. RowsAsSeen' /\ Edits'
  BY <1>2, <1>3, <1>4, <1>6, RowsSeenStay, EditStays DEF BulkInv, Running
<1>8. /\ k \in Items /\ k < next /\ report[k] = Unreported /\ phase = "run" /\ Running
      /\ docs[k] = It(w)
  BY <1>1, <1>2, <1>3, BusyIs DEF Place, It
<1>9. /\ \A v \in Workers \ {w} : worker'[v] = worker[v]
      /\ \A i \in Items \ {k} : report'[i] = report[i]
      /\ Workers' = Workers
  BY <1>2, <1>4 DEF WorkStep, BulkInv, BulkTypes, Workers
<1>10. WritesAsRead'
  <2> SUFFICES ASSUME NEW v \in Workers, worker'[v].pc = "write", job.kind = "update"
               PROVE  AsRead(worker[v].doc, It(v).name)'
    BY <1>6, <1>9 DEF WritesAsRead
  <2>1. CASE v = w
    <3>1. AsRead(worker[w].doc, docs[k].name)'
      BY <1>3, <2>1 DEF ItemStep
    <3>2. worker'[w].i = k
      BY <1>4, <2>1, IdleIs DEF WorkStep
    <3> QED
      BY <2>1, <3>1, <3>2 DEF It, AsRead
  <2>2. CASE v # w
    <3>1. worker'[v] = worker[v]
      BY <1>9, <2>2
    <3>2. AsRead(worker[v].doc, It(v).name)
      BY <1>2, <3>1 DEF WritesAsRead
    <3>3. PICK doc, name : doc = worker[v].doc /\ name = It(v).name
      OBVIOUS
    <3>4. AsRead(doc, name)'
      BY <1>2, <1>4, <3>2, <3>3, ReadStays
    <3> QED
      BY <1>6, <3>1, <3>3, <3>4 DEF AsRead, It
  <2> QED
    BY <2>1, <2>2
<1>11. LinksTold'
  <2> SUFFICES ASSUME Running, sameFile, NEW i \in Items, NEW j \in Items, i < j,
                      report'[j].why = "noLink", docs[j].link = docs[i].name
               PROVE  /\ report'[i].status # "none"
                      /\ report'[i].status = "done" => ~Exists(docs[i].name)'
    BY <1>6, <1>8 DEF LinksTold, Running
  <2>1. \A v \in Workers : v = w
    BY <1>2 DEF BulkInv, Phases
  <2>2. IsImport /\ job.keepsName /\ Checked /\ i \in Nat /\ j \in Nat
    BY <1>2 DEF BulkInv, Phases, IsImport, Running, BulkTypes, Items
  <2>3. CASE j = k
    <3>1. Told(i)
      <4>1. i < next /\ ~Holds(w, i)
        BY <1>1, <1>2, <1>8, <2>2, <2>3 DEF Holds, BulkInv, BulkTypes, Items
      <4> QED
        BY <1>2, <2>1, <4>1 DEF BulkInv, Tells
    <3>2. report'[i] = report[i] /\ report[i].status # "none"
      BY <1>9, <2>2, <2>3, <3>1 DEF Told
    <3>3. ~Exists(docs[k].link)'
      BY <1>3, <2>3 DEF ItemStep
    <3>4. ~Exists(docs[i].name)'
      BY <1>6, <2>3, <3>3 DEF Exists
    <3> QED
      BY <3>2, <3>4
  <2>4. CASE j # k
    <3>1. report'[j] = report[j]
      BY <1>9, <2>4
    <3>2. report[i].status # "none" /\ (report[i].status = "done" => ~Exists(docs[i].name))
      BY <1>2, <3>1 DEF LinksTold
    <3>3. i # k /\ report'[i] = report[i]
      BY <1>8, <1>9, <3>2 DEF Unreported
    <3>4. ASSUME Exists(docs[i].name)' PROVE Exists(docs[i].name)
      <4>1. docs[i].name \in Names /\ site'[docs[i].name].there
        BY <1>6, <3>4 DEF Exists
      <4>2. CASE ~site[docs[i].name].there
        <5>1. docs[i].name = docs[k].name /\ docs[i].name # None
          BY <1>4, <1>8, <2>2, <4>1, <4>2, NamesAreOrdered DEF MakesItsOwn, None
        <5>2. Named(docs[i]) /\ Named(docs[k])
          BY <2>2, <5>1 DEF Named
        <5>3. k \in Nat /\ (i < k \/ k < i)
          BY <1>2, <1>8, <2>2, <3>3 DEF BulkInv, BulkTypes, Items
        <5> QED
          BY <1>8, <2>2, <5>1, <5>2, <5>3 DEF Checked
      <4> QED
        BY <4>1, <4>2 DEF Exists
    <3> QED
      BY <3>2, <3>3, <3>4
  <2> QED
    BY <2>3, <2>4
<1> QED
  BY <1>4, <1>5, <1>7, <1>10, <1>11 DEF IInv, DocsInv

-----------------------------------------------------------------------------
(***************************************************************************)
(* Reading the file, and the checks.                                       *)
(***************************************************************************)
RawDocuments == [name: Nat, val: Vals \cup {Bad}, link: Nat, rows: FileRows]

LEMMA JobIs ==
  ASSUME BulkTypes
  PROVE  /\ job \in Commands /\ job.lines \in Seq(Lines) /\ Len(job.lines) \in Nat
         /\ DOMAIN job.lines = 1..Len(job.lines) /\ \A l \in DOMAIN job.lines : job.lines[l] \in Lines
<1>1. job \in Commands
  BY JobsAreCommands DEF BulkTypes
<1>2. job.lines \in Seq(Lines)
  BY <1>1 DEF Commands
<1> QED
  BY <1>1, <1>2

LEMMA RowsFromAre ==
  ASSUME BulkTypes, NEW first \in DOMAIN job.lines
  PROVE  RowsFrom(first) \in FileRows
<1> DEFINE Row == [name: Nat, shown: Vals]
           S == RowLines(first)
           T == {job.lines[l] : l \in S}
           lines == Chosen(job.lines, S)
<1>1. job.lines \in Seq(Lines) /\ \A l \in DOMAIN job.lines : job.lines[l] \in Lines
  BY JobIs
<1>2. CASE job.json
  BY <1>1, <1>2 DEF RowsFrom, Lines
<1>3. CASE ~job.json
  <2>1. S \subseteq DOMAIN job.lines /\ \A l \in S : job.lines[l].rows # <<>>
    BY DEF RowLines
  <2>2. \A l \in S : job.lines[l].rows \in Seq(Row)
    BY <1>1, <2>1 DEF Lines, FileRows
  <2> HIDE DEF S
  <2>3. lines \in Seq(T)
    BY <1>1, <2>1, ChosenIsOf
  <2>4. \A line \in T : line.rows \in Seq(Row) /\ line.rows # <<>>
    BY <2>1, <2>2
  <2> HIDE DEF T, lines, Row
  <2>5. \A line \in T : line.rows[1] \in Row
    BY <2>4
  <2>6. Len(lines) \in Nat /\ DOMAIN lines = 1..Len(lines) /\ \A k \in 1..Len(lines) : lines[k] \in T
    BY <2>3
  <2>7. [k \in DOMAIN lines |-> lines[k].rows[1]] \in [1..Len(lines) -> Row]
    BY <2>5, <2>6
  <2>8. [k \in DOMAIN lines |-> lines[k].rows[1]] \in Seq(Row)
    BY <2>6, <2>7, FunctionIsSeq
  <2>9. RowsFrom(first) = [k \in DOMAIN lines |-> lines[k].rows[1]]
    BY <1>3 DEF RowsFrom, lines, S
  <2> QED
    BY <2>8, <2>9 DEF FileRows, Row
<1> QED
  BY <1>2, <1>3

LEMMA FileDocsAre ==
  ASSUME BulkTypes
  PROVE  /\ FileDocs \in Seq(RawDocuments)
         /\ Convert(FileDocs) \in Seq(FileDocuments)
         /\ DOMAIN Convert(FileDocs) = DOMAIN FileDocs
         /\ \A i \in DOMAIN FileDocs : /\ Convert(FileDocs)[i].name = FileDocs[i].name
                                       /\ Convert(FileDocs)[i].rows = FileDocs[i].rows
<1> DEFINE starts == Ascending(Starts)
           n == Cardinality(Starts)
           raw == FileDocs
<1>1. Starts \subseteq DOMAIN job.lines /\ IsFiniteSet(DOMAIN job.lines) /\ DOMAIN job.lines \subseteq Nat
  <2>1. PICK m \in Nat : DOMAIN job.lines = 1..m
    BY JobIs
  <2>2. IsFiniteSet(1..m)
    BY <2>1, FS_Interval
  <2> QED
    BY <2>1, <2>2 DEF Starts
<1>2. IsFiniteSet(Starts) /\ Starts \in SUBSET Nat
  BY <1>1, FS_Subset
<1>3. n \in Nat /\ starts \in [1..n -> Starts]
  BY <1>2, AscendingIsOf
<1>4. ASSUME NEW first \in Starts
      PROVE  [Document(job.lines[first]) EXCEPT !.rows = RowsFrom(first)] \in RawDocuments
  <2>1. RowsFrom(first) \in FileRows /\ job.lines[first] \in Lines
    BY <1>1, JobIs, RowsFromAre
  <2> DEFINE line == job.lines[first]
             rows == RowsFrom(first)
             d == Document(line)
  <2>2. d \in RawDocuments
    BY <2>1 DEF RawDocuments, Document, Lines
  <2> HIDE DEF rows, d
  <2>3. [d EXCEPT !.rows = rows] \in RawDocuments
    BY <2>1, <2>2 DEF RawDocuments, rows
  <2> QED
    BY <2>3 DEF d, rows
<1>5. raw = [i \in DOMAIN starts |-> [Document(job.lines[starts[i]]) EXCEPT !.rows = RowsFrom(starts[i])]]
  BY DEF FileDocs
<1> HIDE DEF starts, n, raw
<1>6. raw \in [1..n -> RawDocuments]
  BY <1>3, <1>4, <1>5
<1>7. raw \in Seq(RawDocuments)
  BY <1>3, <1>6, FunctionIsSeq
<1> DEFINE Clean(d) == IF d.val = Bad THEN [d EXCEPT !.val = 0] ELSE d
<1>8. \A d \in RawDocuments : Clean(d) \in FileDocuments /\ Clean(d).name = d.name /\ Clean(d).rows = d.rows
  <2> TAKE d \in RawDocuments
  <2>1. CASE d.val = Bad
    BY <2>1, ValsHaveDefault DEF RawDocuments, FileDocuments
  <2>2. CASE d.val # Bad
    BY <2>2 DEF RawDocuments, FileDocuments
  <2> QED
    BY <2>1, <2>2
<1>9. Convert(raw) = [i \in 1..n |-> Clean(raw[i])]
  BY <1>6 DEF Convert
<1> HIDE DEF Clean
<1>10. /\ Convert(raw) \in [1..n -> FileDocuments] /\ DOMAIN Convert(raw) = DOMAIN raw
       /\ \A i \in DOMAIN raw : Convert(raw)[i].name = raw[i].name /\ Convert(raw)[i].rows = raw[i].rows
  BY <1>6, <1>8, <1>9
<1>11. Convert(raw) \in Seq(FileDocuments)
  BY <1>3, <1>10, FunctionIsSeq
<1> QED
  BY <1>7, <1>10, <1>11 DEF raw

\* A step before the workers start, or beside them, that sends nothing.
Quiet == UNCHANGED <<site, edit>>

LEMMA QuietKeeps ==
  ASSUME IInv, Quiet, BulkInv', LinksTold', RowsAsSeen', WritesAsRead'
  PROVE  IInv' /\ HiddenStays
<1>1. SiteInv /\ SiteEvolves /\ Edits /\ UNCHANGED edit
  BY SiteUnchanged DEF IInv, DocsInv, Quiet
<1>2. SiteInv' /\ Edits'
  BY <1>1, SiteKeeps, EditStays
<1>3. HiddenStays
  BY <1>1, UntouchedIs DEF Quiet, SiteStep
<1> QED
  BY <1>2, <1>3 DEF IInv, DocsInv

\* Before the workers start nothing is reported and nobody writes.
LEMMA EarlyIs ==
  ASSUME BulkTypes, ~Running, AllIdle
  PROVE  LinksTold /\ WritesAsRead /\ Holders /\ Tells
BY DEF LinksTold, WritesAsRead, AllIdle, Holders, Tells, Holds

LEMMA EarlyKeeps ==
  ASSUME IInv, Quiet, ~Running, UNCHANGED runVars, BulkTypes', Phases', ~Running', RowsAsSeen'
  PROVE  IInv' /\ HiddenStays
<1>1. AllIdle
  BY DEF IInv, BulkInv, Phases
<1>2. AllIdle'
  BY <1>1 DEF AllIdle, runVars, Workers
<1>3. LinksTold' /\ WritesAsRead' /\ Holders' /\ Tells'
  BY <1>2 DEF LinksTold, WritesAsRead, AllIdle, Holders, Tells, Holds
<1> QED
  BY <1>3, QuietKeeps DEF BulkInv

LEMMA ParseKeeps ==
  ASSUME IInv, Parse, Quiet
  PROVE  IInv' /\ HiddenStays
<1>1. BulkTypes /\ Phases /\ RowsAsSeen /\ phase = "parse" /\ IsImport /\ ~Running
  BY DEF IInv, BulkInv, DocsInv, Parse, Running
<1>2. /\ docs' = Convert(FileDocs) /\ phase' \in {"refused", "links"}
      /\ ~problems' => ~NamesWrong(FileDocs)
      /\ problems' \in BOOLEAN
      /\ UNCHANGED <<job, sameFile, at, seen, cancelled, runVars>>
  BY DEF Parse
<1>3. next = 1 /\ dispatch = "look" /\ report = <<>> /\ sent = {} /\ AllIdle
  BY <1>1 DEF Phases
<1>4. docs' \in Seq(FileDocuments) /\ Len(docs') \in Nat
  <2> DEFINE D == FileDocuments
  <2>1. docs' \in Seq(D)
    BY <1>1, <1>2, FileDocsAre
  <2> HIDE DEF D
  <2>2. Len(docs') \in Nat
    BY <2>1
  <2> QED
    BY <2>1, <2>2 DEF D
<1>5. BulkTypes'
  BY <1>1, <1>2, <1>3, <1>4 DEF BulkTypes, runVars, Workers
<1>6. ~problems' => Checked'
  <2> SUFFICES ASSUME ~NamesWrong(FileDocs) PROVE Checked'
    BY <1>2
  <2>1. /\ DOMAIN docs' = DOMAIN FileDocs
        /\ \A i \in DOMAIN FileDocs : docs'[i].name = FileDocs[i].name /\ docs'[i].rows = FileDocs[i].rows
    BY <1>1, <1>2, FileDocsAre
  <2> QED
    BY <1>2, <2>1 DEF NamesWrong, Checked, Named, Twice, Items
<1>7. Phases'
  BY <1>1, <1>2, <1>3, <1>6 DEF Phases, Running, IsImport, AllIdle, runVars, Workers
<1>8. ~Running' /\ phase' # "rows"
  BY <1>2 DEF Running
<1>9. RowsAsSeen'
  BY <1>1, <1>2, <1>8 DEF RowsAsSeen, Quiet
<1> QED
  BY <1>1, <1>2, <1>5, <1>7, <1>8, <1>9, EarlyKeeps

LEMMA SelectKeeps ==
  ASSUME IInv, Select, Quiet
  PROVE  IInv' /\ HiddenStays
<1>1. BulkTypes /\ Phases /\ RowsAsSeen /\ phase = "parse" /\ ~IsImport /\ ~Running
  BY DEF IInv, BulkInv, DocsInv, Select, Running
<1> DEFINE named == [i \in DOMAIN job.lines |-> job.lines[i].name]
           chosen == IF job.filters THEN Listed ELSE named
<1>2. /\ docs' = [i \in DOMAIN chosen |-> Item(chosen[i])] /\ phase' \in {"refused", "confirm"}
      /\ UNCHANGED <<job, problems, sameFile, at, seen, cancelled, runVars>>
  BY DEF Select
<1>3. next = 1 /\ dispatch = "look" /\ report = <<>> /\ sent = {} /\ AllIdle
  BY <1>1 DEF Phases
<1>4. \E n \in Nat : DOMAIN chosen = 1..n /\ \A i \in 1..n : chosen[i] \in Nat
  <2>1. CASE job.filters
    <3> DEFINE S == {n \in Names : Exists(n) /\ site[n].ds = job.from}
    <3>1. S \in SUBSET Nat /\ IsFiniteSet(S)
      BY NamesAreOrdered, FS_Subset
    <3>2. Cardinality(S) \in Nat /\ Ascending(S) \in [1..Cardinality(S) -> S]
      BY <3>1, AscendingIsOf
    <3>3. chosen = Ascending(S)
      BY <2>1 DEF Listed
    <3> HIDE DEF S, chosen
    <3> QED
      BY <3>1, <3>2, <3>3
  <2>2. CASE ~job.filters
    BY <1>1, <2>2, JobIs DEF Lines
  <2> QED
    BY <2>1, <2>2
<1>5. PICK n \in Nat : DOMAIN chosen = 1..n /\ \A i \in 1..n : chosen[i] \in Nat
  BY <1>4
<1> HIDE DEF chosen
<1>6. \A name \in Nat : Item(name) \in FileDocuments
  <2>1. job.set \in Vals /\ <<>> \in FileRows
    BY <1>1, JobIs DEF Commands, FileRows
  <2> QED
    BY <2>1 DEF Item, FileDocuments, None
<1>7. docs' \in Seq(FileDocuments) /\ Len(docs') \in Nat
  <2>1. docs' \in [1..n -> FileDocuments]
    BY <1>2, <1>5, <1>6
  <2> QED
    BY <2>1, FunctionIsSeq
<1>8. BulkTypes'
  BY <1>1, <1>2, <1>3, <1>7 DEF BulkTypes, runVars, Workers
<1>9. Phases'
  BY <1>1, <1>2, <1>3 DEF Phases, Running, IsImport, AllIdle, runVars, Workers
<1>10. ~Running' /\ phase' # "rows"
  BY <1>2 DEF Running
<1>11. RowsAsSeen'
  BY <1>1, <1>2, <1>10 DEF RowsAsSeen, Quiet
<1> QED
  BY <1>1, <1>2, <1>8, <1>9, <1>10, <1>11, EarlyKeeps

LEMMA CheckLinksKeeps ==
  ASSUME IInv, CheckLinks, Quiet
  PROVE  IInv' /\ HiddenStays
<1>1. BulkTypes /\ Phases /\ RowsAsSeen /\ phase = "links" /\ IsImport /\ ~Running /\ at = 1
  BY DEF IInv, BulkInv, DocsInv, CheckLinks, Running, Phases
<1>2. /\ phase' = "rows" /\ UNCHANGED <<job, docs, at, seen, cancelled, runVars>>
      /\ problems' \in BOOLEAN /\ (problems => problems')
      /\ sameFile' \in BOOLEAN /\ (sameFile' => sameFile \/ FileNames # {})
  <2> DEFINE missing == {i \in Items : docs[i].link # None /\ ~Exists(docs[i].link)}
             above == {i \in missing : docs[i].link \in FileNames /\ Creates(docs[i].link) < i}
             some == above # {}
  <2>1. /\ phase' = "rows" /\ UNCHANGED <<job, docs, at, seen, cancelled, runVars>>
        /\ \/ problems' = (problems \/ missing # above) /\ sameFile' = some
           \/ UNCHANGED <<problems, sameFile>>
    BY DEF CheckLinks
  <2>2. some => FileNames # {}
    OBVIOUS
  <2>3. problems \in BOOLEAN /\ sameFile \in BOOLEAN /\ some \in BOOLEAN
    BY <1>1 DEF BulkTypes
  <2> HIDE DEF missing, above, some
  <2>4. problems' \in BOOLEAN /\ (problems => problems')
    BY <2>1, <2>3, Zenon
  <2>5. sameFile' = some \/ sameFile' = sameFile
    BY <2>1, Zenon
  <2>6. sameFile' \in BOOLEAN /\ (sameFile' => sameFile \/ some)
    <3>1. CASE sameFile' = some
      BY <2>3, <3>1
    <3>2. CASE sameFile' = sameFile
      BY <2>3, <3>2
    <3> QED
      BY <2>5, <3>1, <3>2, Zenon
  <2> QED
    BY <2>1, <2>2, <2>4, <2>6, Zenon
<1>3. next = 1 /\ dispatch = "look" /\ report = <<>> /\ sent = {} /\ AllIdle
  BY <1>1 DEF Phases
<1>4. BulkTypes'
  BY <1>1, <1>2 DEF BulkTypes, runVars, Workers
<1>5. sameFile' => job.kind = "insert" /\ job.keepsName
  BY <1>1, <1>2 DEF Phases, FileNames
<1>6. ~problems' => Checked'
  BY <1>1, <1>2 DEF Phases, Checked, Items, Named
<1>7. Phases'
  BY <1>1, <1>2, <1>3, <1>5, <1>6 DEF Phases, Running, IsImport, AllIdle, runVars, Workers
<1>8. ~Running'
  BY <1>2 DEF Running
<1>9. RowsAsSeen'
  <2>1. \A i \in Items' : ~(i < at')
    BY <1>1, <1>2, <1>4 DEF BulkTypes, Items
  <2> QED
    BY <1>1, <1>2, <1>8, <2>1 DEF RowsAsSeen, Quiet
<1> QED
  BY <1>1, <1>2, <1>4, <1>7, <1>8, <1>9, EarlyKeeps

LEMMA CheckUnnamedRowsKeeps ==
  ASSUME IInv, CheckUnnamedRows, Quiet
  PROVE  IInv' /\ HiddenStays
<1> DEFINE d == docs[at]
           read == Unnamed(d) /\ Exists(d.name)
<1>1. BulkTypes /\ Phases /\ RowsAsSeen /\ SiteInv /\ phase = "rows" /\ IsImport /\ ~Running /\ at \in Items
  BY DEF IInv, BulkInv, DocsInv, CheckUnnamedRows, Running, Phases
<1>2. /\ at' = at + 1 /\ UNCHANGED <<job, phase, docs, sameFile, cancelled, runVars>>
      /\ read => /\ problems' = (problems \/ site[d.name].rows # <<>>)
                 /\ seen' = [seen EXCEPT ![d.name] = site[d.name].made]
      /\ ~read => UNCHANGED <<problems, seen>>
  BY DEF CheckUnnamedRows
<1>3. next = 1 /\ dispatch = "look" /\ report = <<>> /\ sent = {} /\ AllIdle
  BY <1>1 DEF Phases, Running
<1>4. at \in Nat \ {0} /\ at + 1 \in Nat \ {0} /\ seen \in [Names -> Nat] /\ problems \in BOOLEAN
  BY <1>1 DEF BulkTypes
<1>5. /\ problems' \in BOOLEAN /\ (problems => problems') /\ seen' \in [Names -> Nat]
      /\ \A name \in Names : seen'[name] <= site[name].made
  <2>1. \A name \in Names : site[name].made \in Nat /\ seen[name] <= site[name].made
    BY <1>1 DEF SiteInv, Documents, RowsAsSeen
  <2>2. CASE read
    <3>1. d.name \in Names
      BY <2>2 DEF Exists
    <3> HIDE DEF d
    <3>2. seen' \in [Names -> Nat] /\ \A name \in Names : seen'[name] = IF name = d.name THEN site[name].made ELSE seen[name]
      BY <1>2, <1>4, <2>1, <2>2, <3>1
    <3> QED
      BY <1>2, <1>4, <2>1, <2>2, <3>2
  <2>3. CASE ~read
    BY <1>2, <1>4, <2>1, <2>3
  <2> QED
    BY <2>2, <2>3
<1>6. BulkTypes'
  BY <1>1, <1>2, <1>4, <1>5 DEF BulkTypes, runVars, Workers
<1>7. Phases'
  BY <1>1, <1>2, <1>3, <1>5 DEF Phases, Running, IsImport, AllIdle, runVars, Workers, Checked, Items, Named
<1>8. ~Running'
  BY <1>1, <1>2 DEF Running
<1>9. ASSUME ~problems', NEW i \in Items, i < at + 1, Unnamed(docs[i]), docs[i].name \in Names
      PROVE  \A m \in RowNames(site[docs[i].name].rows) : seen'[docs[i].name] < m
  <2>1. CASE i = at \/ (read /\ d.name = docs[i].name)
    <3>1. site[docs[i].name].rows = <<>>
      <4>1. CASE read
        BY <1>2, <1>9, <2>1, <4>1
      <4>2. CASE ~read
        <5>1. ~site[docs[i].name].there
          BY <1>9, <2>1, <4>2 DEF Exists
        <5> QED
          BY <1>1, <1>9, <5>1 DEF SiteInv, WellFormed
      <4> QED
        BY <4>1, <4>2
    <3> QED
      BY <3>1 DEF RowNames
  <2>2. CASE i # at /\ ~(read /\ d.name = docs[i].name)
    <3>1. i \in Nat /\ i < at
      BY <1>1, <1>4, <1>9, <2>2 DEF BulkTypes, Items
    <3>2. ~problems
      BY <1>5, <1>9
    <3>3. \A m \in RowNames(site[docs[i].name].rows) : seen[docs[i].name] < m
      BY <1>1, <1>9, <3>1, <3>2 DEF RowsAsSeen
    <3>4. seen'[docs[i].name] = seen[docs[i].name]
      <4> HIDE DEF d
      <4> QED
        BY <1>2, <1>4, <1>9, <2>2
    <3> QED
      BY <3>3, <3>4
  <2> QED
    BY <2>1, <2>2
<1>10. RowsAsSeen'
  BY <1>1, <1>2, <1>5, <1>8, <1>9 DEF RowsAsSeen, Quiet, Items, Unnamed
<1> QED
  BY <1>1, <1>2, <1>6, <1>7, <1>8, <1>10, EarlyKeeps

\* The command is given up before it writes.
LEMMA GivenUpKeeps ==
  ASSUME IInv, Quiet, ~Running, phase # "parse", phase' = "refused", UNCHANGED <<fileVars, runVars>>, cancelled' \in BOOLEAN
  PROVE  IInv' /\ HiddenStays
<1>1. BulkTypes /\ Phases /\ RowsAsSeen /\ ~Running
  BY DEF IInv, BulkInv, DocsInv
<1>2. UNCHANGED <<job, docs, problems, sameFile, at, seen>>
  BY DEF fileVars
<1>3. next = 1 /\ dispatch = "look" /\ report = <<>> /\ sent = {} /\ AllIdle
  BY <1>1 DEF Phases
<1>4. BulkTypes'
  BY <1>1, <1>2 DEF BulkTypes, runVars, Workers
<1>5. Phases'
  BY <1>1, <1>2, <1>3 DEF Phases, Running, IsImport, AllIdle, runVars, Workers, Checked, Items, Named
<1>6. ~Running'
  BY DEF Running
<1>7. RowsAsSeen'
  BY <1>1, <1>2, <1>6 DEF RowsAsSeen, Quiet
<1> QED
  BY <1>4, <1>5, <1>6, <1>7, EarlyKeeps

\* The workers start.
LEMMA BeginKeeps ==
  ASSUME IInv, Quiet, BeginImport \/ Confirm
  PROVE  IInv' /\ HiddenStays
<1>1. BulkTypes /\ Phases /\ RowsAsSeen /\ SiteInv /\ ~Running /\ phase # "parse"
      /\ ((phase = "confirm" /\ Confirm) \/ (phase = "rows" /\ at \notin Items /\ ~problems /\ BeginImport))
  BY DEF IInv, BulkInv, DocsInv, BeginImport, Confirm, Running
<1>2. next = 1 /\ dispatch = "look" /\ report = <<>> /\ sent = {} /\ AllIdle
  BY <1>1 DEF Phases
<1>3. job.workers \in Nat \ {0}
  BY <1>1, JobIs DEF Commands
<1>4. PICK n \in Nat \ {0} : Begin(n) /\ (sameFile => n = 1)
  <2>1. CASE Confirm /\ phase = "confirm"
    BY <1>1, <1>3, <2>1 DEF Confirm, Phases, IsImport
  <2>2. CASE BeginImport
    BY <1>3, <2>2 DEF BeginImport
  <2> QED
    BY <1>1, <2>1, <2>2
<1>5. /\ phase' = "run" /\ worker' = [w \in 1..n |-> Idle]
      /\ report' = [i \in Items |-> Unreported] /\ applied' = [i \in Items |-> <<>>]
      /\ UNCHANGED <<job, docs, problems, sameFile, at, seen, cancelled, next, dispatch, stopped, sent>>
  BY <1>4 DEF Begin, fileVars
<1>6. Workers' = 1..n /\ Items' = Items /\ Running' /\ \A w \in 1..n : worker'[w] = Idle
  BY <1>5 DEF Workers, Items, Running
<1>7. AllIdle'
  BY <1>6, IdleIs DEF AllIdle
<1>8. worker' \in [Workers' -> WorkerStates] /\ report' \in [DOMAIN report' -> ReportValues]
  BY <1>5, <1>6, IdleIs DEF Unreported, ReportValues, Statuses, Whys, Dids
<1>9. BulkTypes'
  BY <1>1, <1>5, <1>8 DEF BulkTypes
<1>10. Phases'
  <2>1. sameFile => Workers' = {1}
    BY <1>4, <1>6
  <2>2. IsImport => ~problems
    BY <1>1 DEF Phases
  <2>3. Checked' <=> Checked
    BY <1>5 DEF Checked, Items, Named
  <2> QED
    BY <1>1, <1>2, <1>5, <1>6, <1>7, <2>1, <2>2, <2>3 DEF Phases, Running, IsImport
<1>11. Holders' /\ LinksTold' /\ WritesAsRead'
  <2>1. \A i \in Items : report'[i].why = "none"
    BY <1>5 DEF Unreported
  <2> QED
    BY <1>5, <1>6, <1>7, <2>1 DEF Holders, LinksTold, WritesAsRead, AllIdle, Holds
<1>12. Tells'
  <2>1. \A i \in Items : ~(i < 1)
    BY <1>1 DEF BulkTypes, Items
  <2> QED
    BY <1>2, <1>5, <1>6, <2>1 DEF Tells
<1>13. RowsAsSeen'
  <2>1. CASE phase = "rows" /\ at \notin Items
    <3>1. \A i \in Items : i < at
      BY <1>1, <2>1 DEF BulkTypes, Items
    <3> QED
      BY <1>1, <1>5, <1>6, <2>1, <3>1 DEF RowsAsSeen, Quiet, Unnamed
  <2>2. CASE phase = "confirm"
    BY <1>1, <1>5, <1>6, <2>2 DEF RowsAsSeen, Quiet, Unnamed, Phases, IsImport
  <2> QED
    BY <1>1, <2>1, <2>2
<1> QED
  BY <1>9, <1>10, <1>11, <1>12, <1>13, QuietKeeps DEF BulkInv

\* The loop that hands the items out.
LEMMA LookKeeps ==
  ASSUME IInv, Quiet, Look
  PROVE  IInv' /\ HiddenStays
<1>1. BulkTypes /\ Phases /\ RowsAsSeen /\ Holders /\ Tells /\ LinksTold /\ WritesAsRead /\ Running
      /\ DOMAIN report = Items /\ next \in Nat
  BY DEF IInv, BulkInv, DocsInv, Look, Running, Phases, BulkTypes
<1>2. /\ UNCHANGED <<phase, job, docs, problems, sameFile, at, seen, cancelled, next, worker, stopped, applied, sent>>
      /\ phase = "run" /\ dispatch = "look" /\ dispatch' \in {"offer", "closed"}
      /\ dispatch' = "offer" => next \in Items /\ report' = report
      /\ dispatch' = "closed" /\ ~Halted => next \notin Items /\ report' = report
      /\ Halted => report' = [i \in Items |-> IF i < next THEN report[i] ELSE Skipped]
  BY DEF Look, fileVars, Skipped
<1>3. Items' = Items /\ Workers' = Workers /\ Running' /\ Items \subseteq Nat
  BY <1>1, <1>2 DEF Items, Workers, Running, BulkTypes
<1>4. Skipped \in ReportValues /\ Skipped.why = "none"
  BY DEF Skipped, Unreported, ReportValues, Statuses, Whys, Dids
<1>5. /\ report' \in [Items -> ReportValues]
      /\ \A i \in Items : i < next => report'[i] = report[i]
      /\ \A i \in Items : next <= i =>
           report'[i] = IF dispatch' = "closed" THEN Skipped ELSE Unreported
      /\ \A i \in Items : report'[i] = report[i] \/ report'[i].why = "none"
  <2>1. report \in [Items -> ReportValues] /\ \A i \in Items : next <= i => report[i] = Unreported
    BY <1>1, <1>2 DEF BulkTypes, Tells
  <2>2. CASE Halted
    <3>1. \A i \in Items : next <= i => ~(i < next)
      BY <1>1, <1>3
    <3>2. dispatch' = "closed"
      BY <2>2 DEF Look
    <3> QED
      BY <1>2, <1>4, <2>1, <2>2, <3>1, <3>2
  <2>3. CASE ~Halted /\ dispatch' = "offer"
    BY <1>2, <2>1, <2>3
  <2>4. CASE ~Halted /\ dispatch' = "closed"
    <3>1. \A i \in Items : ~(next <= i)
      BY <1>1, <1>2, <2>4 DEF BulkTypes, Items
    <3> QED
      BY <1>2, <2>1, <2>4, <3>1
  <2> QED
    BY <1>2, <2>2, <2>3, <2>4
<1>6. BulkTypes'
  BY <1>1, <1>2, <1>3, <1>5 DEF BulkTypes, Workers
<1>7. Phases'
  BY <1>1, <1>2, <1>3, <1>5 DEF Phases, Running, IsImport, Checked, Named
<1>8. Holders'
  BY <1>1, <1>2, <1>3, <1>5 DEF Holders, Place, Holds, Made
<1>9. Tells'
  <2>1. \A i \in Items : i < next /\ Told(i) => Told(i)'
    BY <1>2, <1>5 DEF Told, Wanted
  <2> QED
    BY <1>1, <1>2, <1>3, <1>5, <2>1 DEF Tells, Holds, Skipped, Unreported
<1>10. LinksTold'
  <2> SUFFICES ASSUME sameFile, NEW i \in Items, NEW j \in Items, i < j,
                      report'[j].why = "noLink", docs[j].link = docs[i].name
               PROVE  report'[i].status # "none" /\ (report'[i].status = "done" => ~Exists(docs[i].name))
    BY <1>2, <1>3 DEF LinksTold, Exists, Quiet
  <2>1. report'[j] = report[j]
    BY <1>5
  <2>2. report[i].status # "none" /\ (report[i].status = "done" => ~Exists(docs[i].name))
    BY <1>1, <2>1 DEF LinksTold
  <2>3. i < next
    <3>1. ~(next <= i)
      BY <1>1, <1>2, <2>2 DEF Tells, Unreported
    <3> QED
      BY <1>1, <1>3, <3>1
  <2> QED
    BY <1>5, <2>2, <2>3
<1>11. WritesAsRead' /\ RowsAsSeen'
  BY <1>1, <1>2, <1>3 DEF WritesAsRead, RowsAsSeen, AsRead, It, Quiet, Unnamed, Running
<1> QED
  BY <1>6, <1>7, <1>8, <1>9, <1>10, <1>11, QuietKeeps DEF BulkInv

\* An item is handed over.
LEMMA TakeKeeps ==
  ASSUME IInv, NEW w \in Workers, Take(w), Silent
  PROVE  IInv' /\ HiddenStays
<1>1. BulkTypes /\ Phases /\ RowsAsSeen /\ Holders /\ Tells /\ LinksTold /\ WritesAsRead /\ Running
      /\ DOMAIN report = Items /\ DOMAIN applied = Items /\ next \in Items
  BY DEF IInv, BulkInv, DocsInv, Take, Running, Phases
<1> DEFINE me == [Idle EXCEPT !.pc = "recheck", !.i = next]
<1>2. /\ UNCHANGED <<phase, job, docs, problems, sameFile, at, seen, cancelled, stopped, report, applied, sent>>
      /\ phase = "run" /\ dispatch = "offer" /\ dispatch' = "look" /\ next' = next + 1
      /\ worker' = [worker EXCEPT ![w] = me] /\ worker[w].pc = "idle"
  BY DEF Take, fileVars
<1>3. Items' = Items /\ Running' /\ Items \subseteq Nat /\ next \in Nat /\ Len(docs) \in Nat /\ Items = 1..Len(docs)
  BY <1>1, <1>2 DEF Items, Running, BulkTypes
<1>4. me \in WorkerStates /\ me.pc = "recheck" /\ me.i = next /\ me.did = "none"
  BY <1>3, IdleIs DEF Idle, WorkerStates, Places
<1> HIDE DEF me
<1>5. /\ worker' \in [Workers -> WorkerStates] /\ worker'[w] = me /\ Workers' = Workers
      /\ \A v \in Workers \ {w} : worker'[v] = worker[v]
  BY <1>1, <1>2, <1>4 DEF BulkTypes, Workers
<1>6. report[next] = Unreported /\ applied[next] = <<>> /\ next \notin sent
  BY <1>1, <1>2, <1>3 DEF Tells
<1>7. BulkTypes'
  BY <1>1, <1>2, <1>3, <1>5 DEF BulkTypes
<1>8. Phases'
  BY <1>1, <1>2, <1>3, <1>5 DEF Phases, Running, IsImport, Checked, Named
<1>9. \A v \in Workers : worker[v].pc # "idle" => worker[v].i \in Items /\ worker[v].i < next /\ v # w
  BY <1>1, <1>2 DEF Holders, Place
<1>10. ASSUME NEW v \in Workers, worker'[v].pc # "idle" PROVE Place(v)'
  <2>1. CASE v = w
    BY <1>1, <1>2, <1>3, <1>4, <1>5, <1>6, <2>1 DEF Place, Made, Unreported
  <2>2. CASE v # w
    <3>1. worker'[v] = worker[v] /\ Place(v) /\ worker[v].i \in Nat
      BY <1>1, <1>3, <1>5, <1>10, <2>2 DEF Holders, Place
    <3> QED
      BY <1>2, <1>3, <3>1 DEF Place, Made, Unreported
  <2> QED
    BY <2>1, <2>2
<1>11. Holders'
  <2> SUFFICES ASSUME NEW u \in Workers, NEW v \in Workers, NEW i \in Items, Holds(u, i)', Holds(v, i)'
               PROVE  u = v
    BY <1>3, <1>5, <1>10 DEF Holders
  <2>1. \A x \in Workers : Holds(x, i)' => (x = w /\ i = next) \/ (x # w /\ i < next /\ Holds(x, i))
    BY <1>4, <1>5, <1>9 DEF Holds
  <2> QED
    BY <1>1, <1>3, <2>1 DEF Holders
<1>12. Tells'
  <2>1. ASSUME NEW i \in Items, i < next + 1 PROVE Told(i)' \/ \E v \in Workers : Holds(v, i)'
    <3>1. CASE i = next
      BY <1>4, <1>5, <3>1 DEF Holds
    <3>2. CASE i # next
      <4>1. i < next
        BY <1>3, <2>1, <3>2
      <4>2. Told(i) \/ \E v \in Workers : Holds(v, i)
        BY <1>1, <4>1 DEF Tells
      <4>3. Told(i) => Told(i)'
        BY <1>2 DEF Told, Wanted
      <4>4. \A v \in Workers : Holds(v, i) => Holds(v, i)'
        BY <1>2, <1>5 DEF Holds
      <4> QED
        BY <4>2, <4>3, <4>4
    <3> QED
      BY <3>1, <3>2
  <2>2. ASSUME NEW i \in Items, next + 1 <= i
        PROVE  i \notin sent /\ applied[i] = <<>> /\ report[i] = Unreported
    BY <1>1, <1>2, <1>3, <2>2 DEF Tells
  <2> QED
    BY <1>2, <1>3, <1>5, <2>1, <2>2 DEF Tells, Unreported
<1>13. LinksTold'
  BY <1>1, <1>2, <1>3 DEF LinksTold, Exists, Silent
<1>14. WritesAsRead' /\ RowsAsSeen'
  <2>1. \A v \in Workers : worker'[v].pc = "write" => worker'[v] = worker[v]
    BY <1>4, <1>5
  <2> QED
    BY <1>1, <1>2, <1>3, <1>5, <2>1 DEF WritesAsRead, RowsAsSeen, AsRead, It, Silent, Unnamed, Running
<1> QED
  BY <1>7, <1>8, <1>11, <1>12, <1>13, <1>14, QuietKeeps DEF BulkInv, Quiet, Silent

LEMMA ReportKeeps ==
  ASSUME IInv, Report, Quiet
  PROVE  IInv' /\ HiddenStays
<1>1. BulkTypes /\ Phases /\ RowsAsSeen /\ Holders /\ Tells /\ LinksTold /\ WritesAsRead /\ Running
  BY DEF IInv, BulkInv, DocsInv, Report, Running
<1>2. /\ UNCHANGED <<job, docs, problems, sameFile, at, seen, cancelled, next, dispatch, worker, stopped, report, applied, sent>>
      /\ phase = "run" /\ dispatch = "closed" /\ phase' = "reported" /\ AllIdle
  BY DEF Report, fileVars, runVars, AllIdle
<1>3. Items' = Items /\ Workers' = Workers /\ Running'
  BY <1>2 DEF Items, Workers, Running
<1>4. BulkTypes'
  BY <1>1, <1>2, <1>3 DEF BulkTypes, Workers
<1>5. Phases'
  BY <1>1, <1>2, <1>3 DEF Phases, Running, IsImport, Checked, Named, AllIdle
<1>6. Holders' /\ Tells'
  <2>1. Holders'
    BY <1>2, <1>3 DEF Holders, AllIdle, Holds
  <2>2. \A i \in Items : (Told(i)' <=> Told(i)) /\ \A w \in Workers : Holds(w, i)' <=> Holds(w, i)
    BY <1>2 DEF Told, Wanted, Holds
  <2>3. Tells'
    BY <1>1, <1>2, <1>3, <2>2 DEF Tells, Skipped, Unreported
  <2> QED
    BY <2>1, <2>3
<1>7. LinksTold' /\ WritesAsRead' /\ RowsAsSeen'
  BY <1>1, <1>2, <1>3 DEF LinksTold, Exists, WritesAsRead, RowsAsSeen, AsRead, It, Quiet, Unnamed, Running, AllIdle
<1> QED
  BY <1>4, <1>5, <1>6, <1>7, QuietKeeps DEF BulkInv

LEMMA CtrlCKeeps ==
  ASSUME IInv, CtrlC
  PROVE  IInv' /\ HiddenStays
<1>1. BulkTypes /\ Phases /\ RowsAsSeen /\ Holders /\ Tells /\ LinksTold /\ WritesAsRead /\ Interrupt /\ Quiet
  BY DEF IInv, BulkInv, DocsInv, CtrlC, Silent, Quiet
<1>2. CASE phase # "run"
  BY <1>1, <1>2, GivenUpKeeps DEF Interrupt, Running
<1>3. CASE phase = "run"
  <2>1. /\ UNCHANGED <<phase, job, docs, problems, sameFile, at, seen, next, dispatch, worker, stopped, report, applied, sent>>
        /\ cancelled' = TRUE
    BY <1>1, <1>3 DEF Interrupt, fileVars, runVars
  <2>2. Items' = Items /\ Workers' = Workers /\ Running /\ Running'
    BY <1>3, <2>1 DEF Items, Workers, Running
  <2>3. BulkTypes'
    BY <1>1, <2>1, <2>2 DEF BulkTypes, Workers
  <2>4. Phases'
    BY <1>1, <2>1, <2>2 DEF Phases, Running, IsImport, Checked, Named, AllIdle
  <2>5. Holders' /\ Tells'
    <3>1. Holders'
      BY <1>1, <2>1, <2>2 DEF Holders, Place, Holds, Made, Unreported
    <3>2. \A i \in Items : (Told(i)' <=> Told(i)) /\ \A w \in Workers : Holds(w, i)' <=> Holds(w, i)
      BY <2>1 DEF Told, Wanted, Holds
    <3>3. Tells'
      BY <1>1, <2>1, <2>2, <3>2 DEF Tells, Skipped, Unreported
    <3> QED
      BY <3>1, <3>3
  <2>6. LinksTold' /\ WritesAsRead' /\ RowsAsSeen'
    BY <1>1, <2>1, <2>2 DEF LinksTold, Exists, WritesAsRead, RowsAsSeen, AsRead, It, Quiet, Unnamed, Running
  <2> QED
    BY <1>1, <2>3, <2>4, <2>5, <2>6, QuietKeeps DEF BulkInv
<1> QED
  BY <1>2, <1>3

-----------------------------------------------------------------------------
(***************************************************************************)
(* The edit, and other people.                                             *)
(***************************************************************************)
LEMMA OneIsSeq ==
  ASSUME NEW S, NEW v \in S
  PROVE  <<v>> \in Seq(S) /\ <<>> \in Seq(S)
OBVIOUS

LEMMA EditFilesAre ==
  ASSUME NEW doc, IsDocument(doc)
  PROVE  Rendered(doc) \in EditFiles /\ Files(doc) \subseteq EditFiles
<1> DEFINE Row == [name: Nat, shown: Vals]
           Full == [name: Nat, shown: Vals, hidden: Vals]
           shown == [i \in DOMAIN doc.rows |-> Shown(doc.rows[i])]
           cells == {[name |-> nm, shown |-> v] : nm \in RowNames(doc.rows) \cup {0}, v \in Vals}
           n == Len(doc.rows)
<1>1. n \in Nat /\ DOMAIN doc.rows = 1..n /\ \A i \in 1..n : doc.rows[i] \in Full
  <2>1. doc.rows \in Seq(Full)
    BY DEF IsDocument, Documents, Rows
  <2> HIDE DEF Full
  <2> QED
    BY <2>1
<1>2. doc.val \in Vals
  BY DEF IsDocument, Documents
<1> HIDE DEF n
<1>3. shown \in FileRows
  <2>1. shown \in [1..n -> Row]
    BY <1>1 DEF Shown
  <2> HIDE DEF shown, Row
  <2>2. shown \in Seq(Row)
    BY <1>1, <2>1, FunctionIsSeq
  <2> QED
    BY <2>2 DEF FileRows, Row
<1>4. cells \subseteq Row
  <2>1. RowNames(doc.rows) \subseteq Nat
    BY <1>1 DEF RowNames
  <2> QED
    BY <2>1
<1>5. \A x : \A S : x \in S => <<x>> \in Seq(S) /\ <<>> \in Seq(S)
  OBVIOUS
<1>6. Rendered(doc) \in EditFiles
  <2> HIDE DEF shown
  <2> DEFINE val == IF Submitted(doc) THEN <<>> ELSE <<doc.val>>
  <2>1. val \in Seq(Vals) /\ <<shown>> \in Seq(FileRows)
    BY <1>2, <1>3, <1>5
  <2>2. Rendered(doc) = [val |-> val, rows |-> <<shown>>]
    BY DEF Rendered, shown
  <2> HIDE DEF val
  <2> QED
    BY <2>1, <2>2 DEF EditFiles
<1>7. ASSUME NEW file \in Files(doc) PROVE file \in EditFiles
  <2> DEFINE vals == IF Submitted(doc) THEN {<<>>} ELSE {<<v>> : v \in Vals}
             tables == {<<>>} \cup {<<rows>> : rows \in UNION {[1..m -> cells] : m \in 0..MaxRows}}
  <2>1. vals \subseteq Seq(Vals)
    <3> SUFFICES ASSUME NEW x \in vals PROVE x \in Seq(Vals)
      OBVIOUS
    <3>1. x = <<>> \/ \E v \in Vals : x = <<v>>
      OBVIOUS
    <3> HIDE DEF vals
    <3>2. CASE \E v \in Vals : x = <<v>>
      <4>1. PICK v \in Vals : x = <<v>>
        BY <3>2
      <4> QED
        BY <4>1, OneIsSeq
    <3> QED
      BY <3>1, <3>2, OneIsSeq, ValsHaveDefault
  <2>2. \A m \in 0..MaxRows : [1..m -> cells] \subseteq FileRows
    <3> TAKE m \in 0..MaxRows
    <3>1. m \in Nat
      BY MaxRowsIsNat
    <3> SUFFICES ASSUME NEW rows \in [1..m -> cells] PROVE rows \in FileRows
      OBVIOUS
    <3> HIDE DEF cells, Row
    <3>2. rows \in [1..m -> Row]
      BY <1>4
    <3>3. rows \in Seq(Row)
      BY <3>1, <3>2, FunctionIsSeq
    <3> QED
      BY <3>3 DEF FileRows, Row
  <2>3. tables \subseteq Seq(FileRows)
    <3> SUFFICES ASSUME NEW x \in tables PROVE x \in Seq(FileRows)
      OBVIOUS
    <3>1. x = <<>> \/ \E m \in 0..MaxRows : \E rows \in [1..m -> cells] : x = <<rows>>
      OBVIOUS
    <3> HIDE DEF cells, tables
    <3>2. x = <<>> \/ \E rows \in FileRows : x = <<rows>>
      BY <2>2, <3>1
    <3>3. CASE \E rows \in FileRows : x = <<rows>>
      <4>1. PICK rows \in FileRows : x = <<rows>>
        BY <3>3
      <4> QED
        BY <4>1, OneIsSeq
    <3>4. CASE x = <<>>
      BY <3>4
    <3> QED
      BY <3>2, <3>3, <3>4
  <2>4. file \in [val: vals, rows: tables]
    BY DEF Files
  <2> HIDE DEF vals, tables
  <2> QED
    BY <2>1, <2>3, <2>4 DEF EditFiles
<1> QED
  BY <1>6, <1>7

LEMMA ClosedIs ==
  ASSUME NEW pc \in {"start", "saved", "over"}, edit' = Closed(pc)
  PROVE  Edits'
<1>1. NoFileYet \in EditFiles
  <2>1. <<>> \in Seq(Vals) /\ <<>> \in Seq(FileRows)
    OBVIOUS
  <2> QED
    BY <2>1 DEF NoFileYet, EditFiles
<1> QED
  BY <1>1, IdleIs DEF Closed, Edits, None

\* Every row of the body is one that was read, with what its file shows, or
\* a new one of the file.
LEMMA EditBodyIs ==
  ASSUME NEW doc, IsDocument(doc), NEW file \in Files(doc), ~Unparsable(doc, file)
  PROVE  LET body == EditBody(doc, file)
         IN /\ Sendable(doc, body) /\ body.modified = doc.ver
            /\ body.rows # <<>> =>
                 /\ file.rows # <<>> /\ KeepsHidden(doc, body.rows[1])
                 /\ DOMAIN body.rows[1] = DOMAIN file.rows[1]
                 /\ \A i \in DOMAIN file.rows[1] :
                      /\ body.rows[1][i].name = file.rows[1][i].name
                      /\ body.rows[1][i].shown = file.rows[1][i].shown
            /\ body.rows = <<>> /\ file.rows # <<>> => file.rows = Rendered(doc).rows
<1> DEFINE Full == [name: Nat, shown: Vals, hidden: Vals]
           Cells == {[name |-> nm, shown |-> v] : nm \in RowNames(doc.rows) \cup {0}, v \in Vals}
           m == Len(doc.rows)
           wanted == file.rows[1]
           rows == [i \in DOMAIN wanted |-> SentRow(doc, wanted[i])]
           val == IF FieldChanged(doc, file) THEN file.val ELSE <<>>
           part == IF TableChanged(doc, file) THEN <<rows>> ELSE <<>>
<1>1. m \in Nat /\ DOMAIN doc.rows = 1..m /\ \A j \in 1..m : doc.rows[j] \in Full
  <2>1. doc.rows \in Seq(Full)
    BY DEF IsDocument, Documents, Rows
  <2> HIDE DEF Full
  <2> QED
    BY <2>1
<1>2. \A i, j \in 1..m : doc.rows[i].name = doc.rows[j].name => i = j
  BY <1>1 DEF IsDocument, WellFormed
<1> HIDE DEF m
<1>3. /\ file.val = <<>> \/ \E v \in Vals : file.val = <<v>>
      /\ file.rows = <<>> \/ \E n \in 0..MaxRows : \E r \in [1..n -> Cells] : file.rows = <<r>>
  BY DEF Files
<1>4. val = <<>> \/ \E v \in Vals : val = <<v>>
  BY <1>3
<1>5. EditBody(doc, file) = [val |-> val, rows |-> part, modified |-> doc.ver]
  BY DEF EditBody, Body
<1> HIDE DEF val
<1>6. CASE ~TableChanged(doc, file)
  BY <1>4, <1>5, <1>6 DEF Sendable, TableChanged
<1>7. CASE TableChanged(doc, file)
  <2>0. PICK n \in 0..MaxRows : \E r \in [1..n -> Cells] : file.rows = <<r>>
    BY <1>3, <1>7 DEF TableChanged
  <2>1. PICK r \in [1..n -> Cells] : file.rows = <<r>>
    BY <2>0
  <2>2. n \in Nat /\ wanted = r /\ DOMAIN r = 1..n
    BY <2>1, MaxRowsIsNat
  <2>3. ASSUME NEW i \in 1..n
        PROVE  /\ rows[i] \in Full /\ rows[i].name = r[i].name /\ rows[i].shown = r[i].shown
               /\ r[i].name # 0 => \E j \in 1..m : doc.rows[j].name = r[i].name /\ doc.rows[j].hidden = rows[i].hidden
    <3>1. r[i] \in Cells /\ rows[i] = SentRow(doc, r[i])
      BY <2>2
    <3>2. PICK name \in RowNames(doc.rows) \cup {0}, v \in Vals : r[i] = [name |-> name, shown |-> v]
      BY <3>1
    <3>3. r[i].name = name /\ r[i].shown = v
      BY <3>2
    <3>4. CASE name = 0
      <4>1. rows[i] = [name |-> 0, shown |-> v, hidden |-> 0]
        BY <3>1, <3>3, <3>4 DEF SentRow
      <4>2. rows[i] \in Full
        BY <4>1, ValsHaveDefault
      <4> QED
        BY <3>3, <3>4, <4>1, <4>2
    <3>5. CASE name # 0
      <4>1. PICK j \in 1..m : doc.rows[j].name = name
        BY <1>1, <3>5 DEF RowNames
      <4>2. \A k \in 1..m : doc.rows[k].name = name => doc.rows[k] = doc.rows[j]
        BY <1>2, <4>1
      <4>3. OldRow(doc, name) = doc.rows[j]
        BY <1>1, <4>1, <4>2 DEF OldRow, ToSet
      <4>4. rows[i] = [doc.rows[j] EXCEPT !.shown = v] /\ doc.rows[j] \in Full
        BY <1>1, <3>1, <3>3, <3>5, <4>3 DEF SentRow
      <4> QED
        BY <3>3, <4>1, <4>4
    <3> QED
      BY <3>4, <3>5
  <2>4. DOMAIN rows = 1..n /\ rows \in [1..n -> Full]
    BY <2>2, <2>3
  <2> HIDE DEF rows, wanted
  <2>5. rows \in Rows
    <3> HIDE DEF Full
    <3>1. rows \in Seq(Full)
      BY <2>2, <2>4, FunctionIsSeq
    <3> QED
      BY <3>1 DEF Full, Rows
  <2>6. \A i, j \in 1..n : i < j => ~(r[i].name = r[j].name /\ r[i].name # 0)
    BY <2>1, <2>2 DEF Unparsable, wanted
  <2>7. \A i, j \in 1..n : rows[i].name = rows[j].name /\ rows[i].name # 0 => i = j
    <3> SUFFICES ASSUME NEW i \in 1..n, NEW j \in 1..n, rows[i].name = rows[j].name, rows[i].name # 0
                 PROVE  i = j
      OBVIOUS
    <3>1. r[i].name = r[j].name /\ r[i].name # 0 /\ r[j].name # 0
      BY <2>3
    <3>2. ~(i < j) /\ ~(j < i)
      BY <2>6, <3>1
    <3> QED
      BY <2>2, <3>2
  <2>8. RowNames(rows) \subseteq RowNames(doc.rows) /\ KeepsHidden(doc, rows)
    <3> HIDE DEF Full
    <3>1. ASSUME NEW i \in 1..n, rows[i].name # 0
          PROVE  \E j \in 1..m : doc.rows[j].name = rows[i].name /\ doc.rows[j].hidden = rows[i].hidden
      <4>1. rows[i].name = r[i].name /\ (r[i].name # 0 =>
               \E j \in 1..m : doc.rows[j].name = r[i].name /\ doc.rows[j].hidden = rows[i].hidden)
        BY <2>3
      <4> QED
        BY <3>1, <4>1
    <3>2. RowNames(rows) \subseteq RowNames(doc.rows)
      <4>1. ASSUME NEW x \in RowNames(rows)  PROVE  x \in RowNames(doc.rows)
        <5>1. PICK i \in 1..n : rows[i].name = x /\ x # 0
          BY <2>4, <4>1 DEF RowNames
        <5>2. PICK j \in 1..m : doc.rows[j].name = x
          BY <3>1, <5>1
        <5> QED
          BY <1>1, <5>1, <5>2 DEF RowNames
      <4> QED
        BY <4>1
    <3>3. ASSUME NEW i \in 1..n, NEW k \in 1..m, rows[i].name # 0, rows[i].name = doc.rows[k].name
          PROVE  rows[i].hidden = doc.rows[k].hidden
      <4>1. PICK j \in 1..m : doc.rows[j].name = rows[i].name /\ doc.rows[j].hidden = rows[i].hidden
        BY <3>1, <3>3
      <4>2. j = k
        BY <1>2, <3>3, <4>1
      <4> QED
        BY <4>1, <4>2
    <3>4. DOMAIN rows = 1..n /\ DOMAIN doc.rows = 1..m
      BY <1>1, <2>4
    <3>5. KeepsHidden(doc, rows)
      BY <3>3, <3>4 DEF KeepsHidden
    <3> QED
      BY <3>2, <3>5
  <2>9. Fits(doc, rows)
    BY <2>4, <2>5, <2>7, <2>8 DEF Fits
  <2>10. part = <<rows>> /\ file.rows # <<>>
    BY <1>7 DEF TableChanged
  <2> HIDE DEF part
  <2>11. EditBody(doc, file).val = val /\ EditBody(doc, file).rows = <<rows>> /\ EditBody(doc, file).modified = doc.ver
    BY <1>5, <2>10
  <2>12. Sendable(doc, EditBody(doc, file))
    BY <1>4, <2>5, <2>9, <2>11 DEF Sendable
  <2>13. file.rows[1] = r
    BY <2>1
  <2> QED
    BY <2>2, <2>3, <2>4, <2>8, <2>10, <2>11, <2>12, <2>13
<1> QED
  BY <1>6, <1>7

LEMMA SaveIs ==
  ASSUME SiteInv, Edits, Save
  PROVE  /\ SiteEvolves /\ HiddenStays /\ Edits'
         /\ \A name \in Names : site'[name].there => site[name].there
         /\ \A name \in Names : site'[name] # site[name] =>
              /\ Gone(name) = IF edit.file.rows = <<>> THEN {} ELSE Removed(edit.doc, edit.file.rows[1])
              /\ \A row \in Gone(name), new \in ToSet(site'[name].rows) \ ToSet(site[name].rows) :
                   new.name \notin RowNames(site[name].rows) => new.shown # row.shown
<1> DEFINE name == edit.name
           doc == edit.doc
           file == edit.file
           body == EditBody(doc, file)
           answer == UpdateDoc(name, body)
<1>1. edit.pc = "confirm" /\ AsRead(doc, name) /\ file \in Files(doc) /\ ~Unparsable(doc, file)
  BY DEF Save, Edits
<1>2. IsDocument(doc) /\ name \in Names
  BY <1>1 DEF AsRead
<1>3. CASE answer.err # "ok"
  <2>1. UNCHANGED site /\ edit' = Closed("over")
    BY <1>3 DEF Save
  <2> HIDE DEF name, answer
  <2>2. Edits' /\ SiteEvolves /\ HiddenStays
    BY <2>1, ClosedIs, UntouchedIs DEF SiteStep
  <2> QED
    BY <2>1, <2>2
<1>4. CASE answer.err = "ok"
  <2>1. Apply(name, answer) /\ edit' = Closed("saved")
    BY <1>4 DEF Save
  <2>2. /\ Sendable(doc, body) /\ body.modified = doc.ver
        /\ body.rows # <<>> =>
             /\ file.rows # <<>> /\ KeepsHidden(doc, body.rows[1])
             /\ DOMAIN body.rows[1] = DOMAIN file.rows[1]
             /\ \A i \in DOMAIN file.rows[1] :
                  /\ body.rows[1][i].name = file.rows[1][i].name
                  /\ body.rows[1][i].shown = file.rows[1][i].shown
        /\ body.rows = <<>> /\ file.rows # <<>> => file.rows = Rendered(doc).rows
    <3> HIDE DEF doc, file
    <3> QED
      BY <1>1, <1>2, EditBodyIs
  <2> HIDE DEF body
  <2>3. site[name].there /\ body.modified \in {0, site[name].ver} /\ answer.doc = Saved(site[name], body)
    BY <1>4 DEF UpdateDoc, Refused, Answer, Exists
  <2>4. doc.ver # 0
    BY <1>1, <1>2 DEF AsRead, IsDocument, WellFormed
  <2> HIDE DEF name, doc, file
  <2>5. doc = site[name]
    BY <1>1, <2>2, <2>3, <2>4 DEF AsRead
  <2>6. site' = [site EXCEPT ![name] = Saved(doc, body)]
    BY <2>1, <2>3, <2>5 DEF Apply
  <2> DEFINE old == IF body.rows = <<>> THEN doc.rows ELSE body.rows[1]
  <2>7. PICK new : new = Saved(doc, body)
    OBVIOUS
  <2>8. /\ Evolves(doc, new) /\ DOMAIN new.rows = DOMAIN old
        /\ \A i \in DOMAIN old :
             /\ new.rows[i].shown = old[i].shown
             /\ old[i].name # 0 => new.rows[i] = old[i]
             /\ old[i].name = 0 => doc.made < new.rows[i].name
        /\ body.rows = <<>> => new.rows = doc.rows
    BY <1>2, <2>2, <2>7, SavedIs
  <2>9. SiteEvolves /\ HiddenStays
    <3>1. PICK w : w = 1
      OBVIOUS
    <3>2. SiteStep(w)
      BY <1>2, <2>2, <2>3, <2>5, <2>6, SaveStep
    <3> QED
      BY <3>2 DEF SiteStep
  <2>10. \A n \in Names : site'[n] = IF n = name THEN new ELSE site[n]
    BY <2>6, <2>7 DEF SiteInv
  <2>11. Edits'
    BY <2>1, ClosedIs
  <2>12. /\ Gone(name) = {row \in ToSet(doc.rows) : row.name \notin RowNames(new.rows)}
         /\ site'[name] = new
    BY <1>2, <2>5, <2>10 DEF Gone
  <2>13. \A j \in DOMAIN doc.rows : doc.rows[j].name \in 1..doc.made
    BY <1>2 DEF IsDocument, WellFormed
  <2>14. CASE body.rows = <<>>
    <3>1. Gone(name) = {}
      <4>1. \A row \in ToSet(doc.rows) : row.name \in RowNames(doc.rows)
        BY <2>13 DEF ToSet, RowNames
      <4> QED
        BY <2>8, <2>12, <2>14, <4>1
    <3>2. file.rows # <<>> => Removed(doc, file.rows[1]) = {}
      <4> SUFFICES ASSUME file.rows # <<>>, NEW row \in ToSet(doc.rows)
                   PROVE  row.name \in RowNames(file.rows[1])
        BY DEF Removed
      <4> DEFINE shown == [i \in DOMAIN doc.rows |-> Shown(doc.rows[i])]
      <4>1. file.rows[1] = shown
        BY <2>2, <2>14 DEF Rendered
      <4>2. PICK j \in DOMAIN doc.rows : row = doc.rows[j]
        BY DEF ToSet
      <4>3. shown[j].name = row.name /\ DOMAIN shown = DOMAIN doc.rows /\ row.name # 0
        BY <2>13, <4>2 DEF Shown
      <4> HIDE DEF shown
      <4> QED
        BY <4>1, <4>2, <4>3 DEF RowNames
    <3> QED
      BY <2>3, <2>9, <2>10, <2>11, <3>1, <3>2 DEF name, doc, file
  <2>15. CASE body.rows # <<>>
    <3> DEFINE sent0 == body.rows[1]
               wanted == file.rows[1]
    <3>1. /\ file.rows # <<>> /\ DOMAIN sent0 = DOMAIN wanted /\ old = sent0
          /\ \A i \in DOMAIN wanted : sent0[i].name = wanted[i].name /\ sent0[i].shown = wanted[i].shown
      BY <2>2, <2>15
    <3> HIDE DEF sent0, wanted, old
    <3>2. ASSUME NEW m \in 1..doc.made PROVE m \in RowNames(new.rows) <=> m \in RowNames(wanted)
      <4>1. m # 0 /\ m \in Nat /\ doc.made \in Nat /\ ~(doc.made < m)
        BY <1>2 DEF IsDocument, Documents
      <4>2. ASSUME NEW i \in DOMAIN old PROVE new.rows[i].name = m <=> old[i].name = m
        BY <2>8, <4>1, <4>2
      <4> QED
        BY <2>8, <3>1, <4>1, <4>2 DEF RowNames
    <3>3. \A row \in ToSet(doc.rows) : row.name \in 1..doc.made
      BY <2>13 DEF ToSet
    <3>4. Gone(name) = Removed(doc, wanted)
      BY <2>12, <3>2, <3>3 DEF Removed
    <3>5. ASSUME NEW row \in Gone(name), NEW added \in ToSet(new.rows),
                 added.name \notin RowNames(doc.rows)
          PROVE  added.shown # row.shown
      <4>1. PICK i \in DOMAIN old : added = new.rows[i]
        BY <2>8 DEF ToSet
      <4>2. old[i].name = 0
        <5>1. CASE old[i].name # 0
          <6>1. added.name = old[i].name /\ added.name \in RowNames(old)
            BY <2>8, <4>1, <5>1 DEF RowNames
          <6>2. RowNames(old) \subseteq RowNames(doc.rows)
            BY <2>2, <2>15, <3>1 DEF Sendable, Fits, sent0
          <6> QED
            BY <3>5, <6>1, <6>2
        <5> QED
          BY <5>1
      <4>3. added.shown = wanted[i].shown /\ wanted[i].name = 0 /\ i \in DOMAIN wanted
        BY <2>8, <3>1, <4>1, <4>2
      <4>4. ~Replaces(doc, wanted)
        BY <1>1, <3>1 DEF Unparsable, wanted, doc, file
      <4> QED
        BY <3>4, <3>5, <4>3, <4>4 DEF Replaces
    <3> QED
      BY <2>3, <2>5, <2>9, <2>10, <2>11, <2>12, <3>1, <3>4, <3>5 DEF name, doc, file, wanted
  <2> QED
    BY <2>14, <2>15
<1> QED
  BY <1>3, <1>4

\* A step that leaves the command as it is.
LEMMA AsideKeeps ==
  ASSUME IInv, SiteEvolves, Edits', UNCHANGED bulkVars,
         \A name \in Names : site'[name].there => site[name].there
  PROVE  IInv'
<1>1. BulkInv /\ LinksTold /\ SiteInv /\ RowsAsSeen /\ WritesAsRead
  BY DEF IInv, DocsInv
<1>2. /\ UNCHANGED <<phase, job, docs, problems, sameFile, at, seen, cancelled, next, dispatch, worker, stopped,
                     report, applied, sent>>
      /\ UNCHANGED fileVars
  BY DEF bulkVars, fileVars, runVars
<1>3. Items' = Items /\ Workers' = Workers /\ (Running' <=> Running)
  BY <1>2 DEF Items, Workers, Running
<1>4. BulkTypes'
  BY <1>1, <1>2, <1>3 DEF BulkInv, BulkTypes, Workers
<1>5. Phases'
  BY <1>1, <1>2, <1>3 DEF BulkInv, Phases, Running, IsImport, Checked, Named, AllIdle
<1>6. Holders' /\ Tells'
  <2>1. Holders'
    BY <1>1, <1>2, <1>3 DEF BulkInv, Holders, Place, Holds, Made, Unreported
  <2>2. \A i \in Items : (Told(i)' <=> Told(i)) /\ \A w \in Workers : Holds(w, i)' <=> Holds(w, i)
    BY <1>2 DEF Told, Wanted, Holds
  <2>3. Tells'
    BY <1>1, <1>2, <1>3, <2>2 DEF BulkInv, Tells, Skipped, Unreported
  <2> QED
    BY <2>1, <2>3
<1>7. LinksTold'
  BY <1>1, <1>2, <1>3 DEF LinksTold, Exists
<1>8. RowsAsSeen'
  BY <1>1, <1>2, <1>3, RowsSeenStay DEF BulkInv
<1>9. SiteInv'
  BY <1>1, SiteKeeps
<1>10. WritesAsRead'
  <2> SUFFICES ASSUME NEW v \in Workers, worker[v].pc = "write", job.kind = "update"
               PROVE  AsRead(worker[v].doc, It(v).name)'
    BY <1>2, <1>3 DEF WritesAsRead
  <2>1. AsRead(worker[v].doc, It(v).name)
    BY <1>1 DEF WritesAsRead
  <2>2. PICK doc, name : doc = worker[v].doc /\ name = It(v).name
    OBVIOUS
  <2>3. AsRead(doc, name)'
    BY <1>1, <2>1, <2>2, ReadStays
  <2> QED
    BY <1>2, <2>2, <2>3 DEF AsRead, It
<1> QED
  BY <1>4, <1>5, <1>6, <1>7, <1>8, <1>9, <1>10 DEF IInv, BulkInv, DocsInv

LEMMA DeskKeeps ==
  ASSUME IInv, Desk
  PROVE  IInv'
<1>1. SiteInv /\ Edits
  BY DEF IInv, DocsInv
<1>2. SiteEvolves /\ UNCHANGED <<bulkVars, edit>>
  BY <1>1, DeskEvolves DEF Desk
<1>3. Edits'
  BY <1>1, <1>2, EditStays
<1>4. \A name \in Names : site'[name].there => site[name].there
  BY <1>1 DEF Desk, SiteInv, Exists
<1> QED
  BY <1>2, <1>3, <1>4, AsideKeeps

LEMMA EditorKeeps ==
  ASSUME IInv, Editor
  PROVE  IInv'
<1>1. SiteInv /\ Edits /\ UNCHANGED bulkVars
  BY DEF IInv, DocsInv, Editor
<1>2. CASE Save
  BY <1>1, <1>2, SaveIs, AsideKeeps
<1>3. ASSUME UNCHANGED site, Edits' PROVE IInv'
  <2>1. SiteEvolves
    BY <1>1, <1>3, SiteUnchanged
  <2> QED
    BY <1>1, <1>3, <2>1, AsideKeeps
<1>4. CASE GiveUp
  BY <1>3, <1>4, ClosedIs DEF GiveUp
<1>5. ASSUME NEW name \in Names, Open(name) PROVE IInv'
  <2> DEFINE answer == GetDoc(name)
  <2>1. UNCHANGED site
    BY <1>5 DEF Open
  <2>2. CASE answer.err # "ok" \/ answer.doc.ds = 2
    BY <1>3, <1>5, <2>1, <2>2, ClosedIs DEF Open
  <2>3. CASE answer.err = "ok" /\ answer.doc.ds # 2
    <3>1. answer.doc = site[name] /\ site[name].there /\ IsDocument(site[name]) /\ site[name] \in Documents
      BY <1>1, <2>3, ReadIs
    <3>2. edit' = [pc |-> "editor", name |-> name, doc |-> site[name], file |-> Rendered(site[name])]
      BY <1>5, <2>3, <3>1 DEF Open
    <3>3. Rendered(site[name]) \in EditFiles /\ name \in Nat
      BY <3>1, EditFilesAre, NamesAreOrdered
    <3>4. PICK doc, file : doc = site[name] /\ file = Rendered(site[name])
      OBVIOUS
    <3>5. edit' = [pc |-> "editor", name |-> name, doc |-> doc, file |-> file]
      BY <3>2, <3>4
    <3>6. edit'.pc = "editor" /\ edit'.doc = doc /\ edit'.name = name
      BY <3>5
    <3>7. edit' \in [pc: {"start", "editor", "confirm", "saved", "over"}, name: Nat, doc: Documents, file: EditFiles]
      BY <3>1, <3>3, <3>4, <3>5
    <3>8. AsRead(edit.doc, edit.name)'
      BY <2>1, <3>1, <3>4, <3>6, DocumentHas DEF AsRead, IsDocument
    <3>9. Edits'
      BY <3>6, <3>7, <3>8 DEF Edits
    <3> QED
      BY <1>3, <2>1, <3>9
  <2> QED
    BY <2>2, <2>3
<1>6. ASSUME NEW file \in Files(edit.doc), Edit(file) PROVE IInv'
  <2>1. UNCHANGED site /\ edit.pc = "editor" /\ ~Unparsable(edit.doc, file)
    BY <1>6 DEF Edit
  <2>2. CASE edit' = Closed("over")
    BY <1>3, <2>1, <2>2, ClosedIs
  <2>3. CASE edit' = [edit EXCEPT !.pc = "confirm", !.file = file]
    <3>1. AsRead(edit.doc, edit.name)
      BY <1>1, <2>1 DEF Edits
    <3>2. file \in EditFiles
      BY <3>1, EditFilesAre DEF AsRead
    <3>3. /\ edit' \in [pc: {"start", "editor", "confirm", "saved", "over"}, name: Nat, doc: Documents, file: EditFiles]
          /\ edit'.pc = "confirm" /\ edit'.doc = edit.doc /\ edit'.name = edit.name /\ edit'.file = file
      BY <1>1, <2>3, <3>2 DEF Edits
    <3>4. AsRead(edit.doc, edit.name)'
      BY <2>1, <3>1, <3>3 DEF AsRead
    <3>5. Edits'
      BY <1>6, <2>1, <3>3, <3>4 DEF Edits
    <3> QED
      BY <1>3, <2>1, <3>5
  <2> QED
    BY <1>6, <2>2, <2>3 DEF Edit
<1> QED
  BY <1>2, <1>4, <1>5, <1>6 DEF Editor, EditNext

-----------------------------------------------------------------------------
(***************************************************************************)
(* The theorems.                                                           *)
(***************************************************************************)
LEMMA InitIs ==
  ASSUME Init
  PROVE  IInv
<1>1. site \in [Names -> Documents] /\ \A name \in Names : WellFormed(site[name])
  BY SitesAreWellFormed DEF Init
<1>2. /\ job \in Jobs
      /\ phase = "parse" /\ docs = <<>> /\ at = 1 /\ problems = FALSE /\ sameFile = FALSE
      /\ next = 1 /\ dispatch = "look" /\ worker = [w \in 1..job.workers |-> Idle]
      /\ stopped = FALSE /\ cancelled = FALSE
      /\ report = <<>> /\ applied = <<>> /\ sent = {}
      /\ seen = [name \in Names |-> 0] /\ edit = Closed("start")
  BY DEF Init, BulkInit, EditInit
<1>3. BulkTypes
  <2>1. docs \in Seq(FileDocuments) /\ Len(docs) = 0
    BY <1>2
  <2>2. worker \in [Workers -> WorkerStates]
    <3>1. Workers = 1..job.workers
      BY <1>2 DEF Workers
    <3> QED
      BY <1>2, <3>1, IdleIs
  <2>3. report \in [DOMAIN report -> ReportValues]
    BY <1>2
  <2>4. next \in 1..(Len(docs) + 1) /\ dispatch \in {"look", "offer", "closed"}
    BY <1>2, <2>1
  <2>5. at \in Nat \ {0} /\ seen \in [Names -> Nat]
    BY <1>2
  <2>6. /\ problems \in BOOLEAN /\ sameFile \in BOOLEAN /\ stopped \in BOOLEAN /\ cancelled \in BOOLEAN
        /\ phase \in {"parse", "links", "rows", "confirm", "run", "reported", "refused"}
    BY <1>2
  <2> QED
    BY <1>2, <2>1, <2>2, <2>3, <2>4, <2>5, <2>6 DEF BulkTypes
<1>4. AllIdle /\ ~Running
  BY <1>2, IdleIs DEF AllIdle, Running, Workers
<1>5. Phases
  BY <1>2, <1>4 DEF Phases, Running
<1>6. LinksTold /\ WritesAsRead /\ Holders /\ Tells
  BY <1>3, <1>4, EarlyIs
<1>7. RowsAsSeen
  <2>1. \A name \in Names : site[name].made \in Nat
    BY <1>1 DEF Documents
  <2> QED
    BY <1>2, <1>4, <2>1 DEF RowsAsSeen
<1>8. Edits
  <2>1. NoFileYet \in EditFiles
    <3>1. <<>> \in Seq(Vals) /\ <<>> \in Seq(FileRows)
      OBVIOUS
    <3> QED
      BY <3>1 DEF NoFileYet, EditFiles
  <2> QED
    BY <1>2, <2>1, IdleIs DEF Closed, Edits, None
<1> QED
  BY <1>1, <1>3, <1>5, <1>6, <1>7, <1>8 DEF IInv, BulkInv, DocsInv, SiteInv

\* Every step of a command keeps the columns no file shows.
LEMMA BulkKeeps ==
  ASSUME IInv, Bulk \/ CtrlC
  PROVE  IInv' /\ HiddenStays
<1>1. CASE CtrlC
  BY <1>1, CtrlCKeeps
<1>2. CASE (Parse \/ Select \/ CheckLinks \/ CheckUnnamedRows) /\ Silent
  BY <1>2, ParseKeeps, SelectKeeps, CheckLinksKeeps, CheckUnnamedRowsKeeps DEF Silent, Quiet
<1>3. CASE (BeginImport \/ Confirm \/ Look \/ Report) /\ Silent
  BY <1>3, BeginKeeps, LookKeeps, ReportKeeps DEF Silent, Quiet
<1>4. CASE Refuse /\ Silent
  <2>1. ~Running /\ phase # "parse" /\ phase' = "refused" /\ UNCHANGED <<fileVars, runVars>> /\ cancelled' \in BOOLEAN
    BY <1>4 DEF Refuse, Running, IInv, BulkInv, BulkTypes
  <2> QED
    BY <1>4, <2>1, GivenUpKeeps DEF Silent, Quiet
<1>5. CASE \E w \in Workers : Take(w) /\ Silent
  BY <1>5, TakeKeeps
<1>6. CASE \E w \in Workers : ItemActs(w)
  BY <1>6, ItemKeeps
<1> QED
  BY <1>1, <1>2, <1>3, <1>4, <1>5, <1>6 DEF Bulk, ItemActs

LEMMA IsInductive == Spec => []IInv
<1>1. Init => IInv
  BY InitIs
<1>2. IInv /\ [Next]_vars => IInv'
  <2> SUFFICES ASSUME IInv, [Next]_vars PROVE IInv'
    OBVIOUS
  <2>1. CASE UNCHANGED vars
    <3>1. UNCHANGED site /\ UNCHANGED bulkVars /\ UNCHANGED edit /\ SiteInv /\ Edits
      BY <2>1 DEF vars, IInv, DocsInv
    <3>2. SiteEvolves /\ HiddenStays
      BY <3>1, UntouchedIs DEF SiteStep
    <3> QED
      BY <3>1, <3>2, EditStays, AsideKeeps
  <2>2. CASE Bulk \/ CtrlC
    BY <2>2, BulkKeeps
  <2>3. CASE Editor \/ Desk
    BY <2>3, EditorKeeps, DeskKeeps
  <2> QED
    BY <2>1, <2>2, <2>3 DEF Next
<1> QED
  BY <1>1, <1>2, PTL DEF Spec

\* A worker without an item has no item's number.
NoItem == \A w \in Workers : worker[w].pc = "idle" => worker[w].i = 0

LEMMA NoItemIsInductive == Spec => []NoItem
<1>1. Init => NoItem
  BY DEF Init, BulkInit, NoItem, Idle, Workers
<1>2. IInv /\ NoItem /\ [Next]_vars => NoItem'
  <2> SUFFICES ASSUME IInv, NoItem, [Next]_vars PROVE NoItem'
    OBVIOUS
  <2>1. CASE UNCHANGED worker
    BY <2>1 DEF NoItem, Workers
  <2>2. CASE \E w \in Workers : ItemActs(w)
    <3>1. PICK w \in Workers : ItemActs(w)
      BY <2>2
    <3>2. PICK k : k = worker[w].i
      OBVIOUS
    <3>3. BulkInv /\ WorkStep(w, k)
      BY <3>1, <3>2, ItemActsStep DEF IInv, DocsInv, ItemStep
    <3>4. Workers' = Workers /\ \A v \in Workers \ {w} : worker'[v] = worker[v]
      BY <3>3 DEF WorkStep, Workers
    <3>5. worker'[w].pc = "idle" => worker'[w].i = 0
      BY <3>3 DEF WorkStep, Idle
    <3> QED
      BY <3>4, <3>5 DEF NoItem
  <2>3. CASE \E w \in Workers : Take(w)
    <3>1. PICK w \in Workers : Take(w)
      BY <2>3
    <3> DEFINE me == [Idle EXCEPT !.pc = "recheck", !.i = next]
    <3>2. worker' = [worker EXCEPT ![w] = me] /\ me.pc # "idle"
      BY <3>1 DEF Take, Idle
    <3> HIDE DEF me
    <3>3. worker \in [Workers -> WorkerStates]
      BY DEF IInv, BulkInv, BulkTypes
    <3>4. Workers' = Workers /\ worker'[w] = me /\ \A v \in Workers \ {w} : worker'[v] = worker[v]
      BY <3>2, <3>3 DEF Workers
    <3> QED
      BY <3>2, <3>4 DEF NoItem
  <2>4. ASSUME NEW n, Begin(n) PROVE NoItem'
    <3>1. worker' = [w \in 1..n |-> Idle]
      BY <2>4 DEF Begin
    <3> QED
      BY <3>1 DEF NoItem, Idle, Workers
  <2>5. CASE BeginImport \/ Confirm
    BY <2>4, <2>5 DEF BeginImport, Confirm
  <2>6. CASE Parse \/ Select \/ CheckLinks \/ CheckUnnamedRows \/ Refuse \/ Look \/ Report
    <3>1. UNCHANGED worker
      BY <2>6 DEF Parse, Select, CheckLinks, CheckUnnamedRows, Refuse, Look, Report, runVars
    <3> QED
      BY <2>1, <3>1
  <2>7. CASE CtrlC \/ Editor \/ Desk \/ UNCHANGED vars
    <3>1. UNCHANGED worker
      BY <2>7 DEF CtrlC, Interrupt, Editor, Desk, vars, bulkVars, runVars
    <3> QED
      BY <2>1, <3>1
  <2> QED
    BY <2>2, <2>3, <2>5, <2>6, <2>7 DEF Next, Bulk, ItemActs
<1> QED
  BY <1>1, <1>2, IsInductive, PTL DEF Spec

\* Every variable of a command and of a session has a value of its type
\* (bulk.go, runBulk; edit_doc.go): a worker's item is one of the file's, a
\* line of the report has one of its statuses.
THEOREM TypeCorrect == Spec => []TypeOK
<1>1. IInv /\ NoItem => TypeOK
  <2> SUFFICES ASSUME IInv, NoItem PROVE TypeOK
    OBVIOUS
  <2>1. BulkTypes /\ Holders /\ Edits /\ SiteInv
    BY DEF IInv, BulkInv, DocsInv
  <2>2. \A w \in Workers : worker[w].i \in Items \cup {0}
    BY <2>1 DEF NoItem, Holders, Place
  <2>3. \A i \in DOMAIN report : report[i].status \in Statuses
    BY <2>1 DEF BulkTypes, ReportValues
  <2>4. BulkTypeOK
    BY <2>1, <2>2, <2>3 DEF BulkTypes, BulkTypeOK, SiteInv, IsDocument, Statuses
  <2>5. EditTypeOK
    BY <2>1 DEF Edits, EditTypeOK
  <2> QED
    BY <2>4, <2>5 DEF TypeOK
<1> QED
  BY <1>1, IsInductive, NoItemIsInductive, PTL

\* The report of every command over many documents is true, whatever other
\* people did meanwhile and wherever it was stopped: what is "done" was
\* applied once and whole, what is "skipped" or held back never reached the
\* site, what failed with an answer was not applied (bulk.go, runBulk).
THEOREM ReportsTrue == Spec => []ReportIsTrue
<1>1. IInv => ReportIsTrue
  <2> SUFFICES ASSUME IInv, phase = "reported" PROVE ReportIsTrue
    BY DEF ReportIsTrue
  <2>1. BulkTypes /\ Tells /\ LinksTold /\ Running /\ dispatch = "closed" /\ AllIdle
    BY DEF IInv, BulkInv, Phases, Running
  <2>2. ASSUME NEW i \in Items PROVE Told(i)
    <3>1. CASE i < next
      BY <2>1, <3>1 DEF Tells, AllIdle, Holds
    <3>2. CASE ~(i < next)
      <4>1. next <= i
        BY <2>1, <3>2 DEF BulkTypes, Items
      <4>2. i \notin sent /\ report[i] = Skipped
        BY <2>1, <4>1 DEF Tells
      <4> QED
        BY <4>2 DEF Told, Skipped, Unreported
    <3> QED
      BY <3>1, <3>2
  <2>3. ASSUME NEW i \in Items, NEW j \in Items,
               sameFile, report[j].why = "noLink", docs[j].link = docs[i].name, i < j
        PROVE  report[i].status # "done" \/ ~Exists(docs[i].name)
    BY <2>1, <2>3 DEF LinksTold
  <2> QED
    BY <2>2, <2>3 DEF ReportIsTrue
<1> QED
  BY <1>1, IsInductive, PTL

\* A step that leaves the hidden columns.
LEMMA StayingKeeps ==
  ASSUME HiddenStays, NEW name \in Names, NEW row \in Stays(name), NEW new \in ToSet(site'[name].rows),
         new.name = row.name
  PROVE  new.hidden = row.hidden
<1>1. PICK i \in DOMAIN site'[name].rows : new = site'[name].rows[i]
  BY DEF ToSet
<1>2. row \in ToSet(site[name].rows) /\ row.name # 0
  BY DEF Stays, RowNames
<1>3. PICK j \in DOMAIN site[name].rows : row = site[name].rows[j]
  BY <1>2 DEF ToSet
<1> QED
  BY <1>1, <1>2, <1>3 DEF HiddenStays, KeepsHidden

\* An import that names no row replaces only rows that came since it looked.
LEMMA UnnamedReplacesNew ==
  ASSUME IInv, Running, IsImport, NEW name \in Names, NEW i \in Items,
         docs[i].name = name, Unnamed(docs[i]), NEW row \in Gone(name)
  PROVE  row.name > seen[name]
<1>1. BulkTypes /\ RowsAsSeen /\ SiteInv /\ ~problems
  BY DEF IInv, BulkInv, DocsInv, Phases
<1>2. \A m \in RowNames(site[name].rows) : seen[name] < m
  BY <1>1 DEF RowsAsSeen
<1>3. PICK j \in DOMAIN site[name].rows : row = site[name].rows[j]
  BY DEF Gone, ToSet
<1>4. row.name \in 1..site[name].made /\ site[name].made \in Nat /\ seen[name] \in Nat
  BY <1>1, <1>3 DEF SiteInv, IsDocument, WellFormed, Documents, BulkTypes
<1>5. row.name \in RowNames(site[name].rows)
  BY <1>3, <1>4 DEF RowNames
<1> QED
  BY <1>2, <1>4, <1>5

\* No import and no edit loses what its file does not show: in every step a
\* row that stays keeps its hidden column, an edit removes only the rows its
\* user saw removed, and an import that names no row replaces only rows that
\* were added since it looked (import.go, importJob.one, checkUnnamedRows;
\* edit_doc.go, editForm.body, checkReplaced).
THEOREM UnseenKept == Spec => KeepsUnseen
<1> DEFINE Keeps(name) ==
      /\ (ByEdit(name) \/ ByImport(name)) =>
           \A row \in Stays(name), new \in ToSet(site'[name].rows) :
             new.name = row.name => new.hidden = row.hidden
      /\ ByEdit(name) =>
           /\ Gone(name) = IF edit.file.rows = <<>> THEN {} ELSE Removed(edit.doc, edit.file.rows[1])
           /\ \A row \in Gone(name), new \in ToSet(site'[name].rows) \ ToSet(site[name].rows) :
                new.name \notin RowNames(site[name].rows) => new.shown # row.shown
      /\ ByImport(name) =>
           \A i \in Items : docs[i].name = name /\ Unnamed(docs[i]) =>
             \A row \in Gone(name) : row.name > seen[name]
<1>1. ASSUME IInv, [Next]_vars, NEW name \in Names PROVE Keeps(name)
  <2>1. CASE Bulk \/ CtrlC
    <3>1. HiddenStays /\ edit' = edit
      BY <1>1, <2>1, BulkKeeps DEF Bulk, CtrlC, Silent
    <3>2. ASSUME ByImport(name) PROVE Running
      <4>1. PICK w \in Workers : ItemActs(w)
        BY <2>1, <3>2 DEF ByImport, Bulk, CtrlC, Silent, ItemActs
      <4>2. worker[w].pc # "idle" /\ BulkInv
        BY <1>1, <4>1, ItemActsStep DEF IInv, DocsInv
      <4> QED
        BY <4>2, BusyIs
    <3>3. ~ByEdit(name)
      BY <3>1 DEF ByEdit
    <3>4. ByImport(name) => IsImport
      BY DEF ByImport
    <3> QED
      BY <1>1, <3>1, <3>2, <3>3, <3>4, StayingKeeps, UnnamedReplacesNew
  <2>2. CASE UNCHANGED worker /\ UNCHANGED site
    BY <2>2 DEF ByEdit, ByImport
  <2>3. CASE Desk
    <3>1. UNCHANGED worker /\ UNCHANGED edit
      BY <2>3 DEF Desk, bulkVars, runVars
    <3> QED
      BY <3>1 DEF ByEdit, ByImport
  <2>4. CASE Editor
    <3>1. UNCHANGED worker
      BY <2>4 DEF Editor, bulkVars, runVars
    <3>2. ~ByImport(name)
      BY <3>1 DEF ByImport
    <3>3. CASE Save
      <4>1. HiddenStays /\ (site'[name] # site[name] =>
              /\ Gone(name) = IF edit.file.rows = <<>> THEN {} ELSE Removed(edit.doc, edit.file.rows[1])
              /\ \A row \in Gone(name), new \in ToSet(site'[name].rows) \ ToSet(site[name].rows) :
                   new.name \notin RowNames(site[name].rows) => new.shown # row.shown)
        BY <1>1, <3>3, SaveIs DEF IInv, DocsInv
      <4>2. ByEdit(name) => site'[name] # site[name]
        BY DEF ByEdit
      <4> QED
        BY <3>2, <4>1, <4>2, StayingKeeps
    <3>4. CASE ~Save
      <4>1. UNCHANGED site
        BY <2>4, <3>4 DEF Editor, EditNext, Open, Edit, GiveUp
      <4> QED
        BY <2>2, <3>1, <4>1
    <3> QED
      BY <3>3, <3>4
  <2> QED
    BY <1>1, <2>1, <2>2, <2>3, <2>4 DEF Next, vars, bulkVars, runVars
<1>2. IInv /\ [Next]_vars => [\A name \in Names : Keeps(name)]_vars
  <2> HIDE DEF Keeps
  <2> QED
    BY <1>1
<1> QED
  BY <1>2, IsInductive, PTL DEF Spec, KeepsUnseen

-----------------------------------------------------------------------------
(***************************************************************************)
(* What a user is shown of a document and told of their rights: the        *)
(* inductive invariant.                                                    *)
(***************************************************************************)
ViewFields == {"at", "q", "exit", "who", "access", "m", "have", "desk", "versions", "notes", "links", "timeline", "out",
               "hidden", "sections", "omitted"}
IsView(r) == DOMAIN r = ViewFields /\ r.q \in Contexts \cup Cans
ContextSteps == {"docinfo", "user", "meta", "roles", "links", "timeline", "compact"}
CanSteps == {"who", "has", "type", "can"}

ContextTypes ==
  /\ DOMAIN view = Viewers /\ user \in {"Administrator", "user", "Guest"} /\ <<meta, roles>> \in was
  /\ changed \subseteq {"meta", "roles"}

\* The fields and levels of the DocType and the roles at one time, unless
\* both were changed.
AccessIs(access) ==
  changed = {"meta", "roles"} \/
    \E pair \in was : access.fields = pair[1].fields /\ access.levels = Levels(pair[1], user, pair[2])

\* A request's answers so far.
Reading(r) ==
  LET had(steps) == r.at \in steps IN
  /\ r.q \in Contexts /\ r.exit = "none" /\ DOMAIN r.access = {"fields", "levels"}
  /\ r.out = <<>> /\ r.hidden = 0 /\ r.omitted = 0 /\ r.sections = {}
  /\ \/ r.at = "docinfo" /\ r.versions = <<>>
     \/ ~had({"docinfo"}) /\ r.versions = IF "versions" \in r.notes THEN <<>> ELSE Versions
  /\ had({"docinfo", "user", "meta", "roles"}) => r.notes = {}
  /\ ~had({"docinfo"}) => user # "Guest"
  /\ had({"meta", "roles"}) => r.who = user
  /\ had({"roles"}) =>
       /\ user # "Administrator"
       /\ r.access.fields = r.m.fields
       /\ "meta" \notin changed => r.m = meta
       /\ "roles" \notin changed => <<r.m, roles>> \in was
  /\ had({"links", "timeline", "compact"}) => r.versions = <<>> \/ AccessIs(r.access)
  /\ r.links = IF had({"timeline", "compact"}) /\ r.q.links /\ "links" \notin r.notes THEN Linked ELSE {}
  /\ r.timeline = IF had({"compact"}) /\ r.q.timeline /\ "timeline" \notin r.notes THEN Timeline ELSE <<>>
  /\ "links" \in r.notes => had({"timeline", "compact"})
  /\ "timeline" \in r.notes => had({"compact"})

\* What is shown of the history.
ShownReadable(r) ==
  r.q.full \/ changed = {"meta", "roles"} \/
    \A i \in DOMAIN r.out :
      LET c == r.out[i] IN
      \E pair \in was :
        /\ c.what # "changed" => MayReadField(pair, [table |-> "", name |-> c.table])
        /\ c.what = "changed" => MayReadField(pair, [table |-> "", name |-> c.field])
        /\ c.what = "row" => MayReadField(pair, [table |-> c.table, name |-> c.field])
ShownCounted(r) ==
  /\ ~r.q.full /\ r.out # <<>> => "versions" \notin r.notes
  /\ "versions" \notin r.notes =>
       Len(r.out) + Len(r.timeline) + Cardinality(r.links) + r.hidden + r.omitted =
         Len(Versions) + (IF r.q.timeline /\ "timeline" \notin r.notes THEN Len(Timeline) ELSE 0)
           + (IF r.q.links /\ "links" \notin r.notes THEN Cardinality(Linked) ELSE 0)
  /\ r.q.mcp =>
       /\ r.out # <<>> => "Version" \in MayRead
       /\ r.links \cup (UNION ToSet(r.timeline)) \cup r.sections \subseteq MayRead

\* The roles that can counts, and its answer.
Asking(r) ==
  /\ r.q \in Cans /\ r.exit = "none"
  /\ r.at # "who" => user # "Administrator"
  /\ r.at \in {"who", "has", "type"} => r.desk = "no"
  /\ r.at \in {"has", "type"} => user = "user"
  /\ r.at = "type" /\ changed = {} => r.have = roles \cup {"All", "Guest"}
  /\ r.at = "can" /\ changed = {} =>
       LET has == Has(user, roles, system) IN
       has = r.have \/ (r.desk = "unknown" /\ has = r.have \cup {"Desk User"})
AnswerRight(r) ==
  /\ r.out.ownerOnly => MayDo(r.q.right, FALSE)
  /\ r.out.allowed /\ ~r.out.ownerOnly => MayDo(r.q.right, r.q.right # "create")
  /\ ~r.out.allowed => ~MayDo(r.q.right, ~r.out.ownerOnly \/ r.q.right # "create")
  /\ ~r.out.allowed /\ ~r.out.ownerOnly => ~MayDo(r.q.right, FALSE)

ViewGood(r) ==
  \/ r.at = "idle"
  \/ /\ IsView(r)
     /\ \/ r.at \in ContextSteps /\ Reading(r)
        \/ r.at \in CanSteps /\ Asking(r)
        \/ r.at = "over" /\ r.exit = "failed"
        \/ r.at = "over" /\ r.exit = "ok" /\ r.q \in Contexts /\ ShownReadable(r) /\ ShownCounted(r)
        \/ r.at = "over" /\ r.exit = "ok" /\ r.q \in Cans /\ (changed = {} /\ r.notes = {} => AnswerRight(r))

RightsInv == ContextTypes /\ \A v \in Viewers : ViewGood(view[v])

-----------------------------------------------------------------------------
\* What FieldAccess lets show, the site lets the user read.
LEMMA AccessReads ==
  ASSUME user \in {"Administrator", "user"}, NEW pair, NEW access, access.fields = pair[1].fields,
         access.levels = Levels(pair[1], user, pair[2]), NEW table, NEW name
  PROVE  /\ FieldReadable(access, table, name) => MayReadField(pair, [table |-> table, name |-> name])
         /\ FieldIsReadable(access, name) => MayReadField(pair, [table |-> "", name |-> name])
<1> DEFINE m == pair[1]
           given == pair[2]
<1>1. ASSUME NEW t, FieldReadable(access, t, name)  PROVE  MayReadField(pair, [table |-> t, name |-> name])
  <2>1. PICK f \in m.fields : f.table = t /\ f.name = name /\ (access.levels = NoLevels \/ f.level \in access.levels)
    BY <1>1 DEF FieldReadable
  <2>2. \/ user = "Administrator" \/ m.perms = {} \/ f.level = 0
        \/ \E p \in m.perms : p.role \in Has(user, given, system) /\ p.level = f.level /\ "read" \in p.rights
    <3>1. SUFFICES ASSUME user = "user", m.perms # {}, f.level # 0
                   PROVE  \E p \in m.perms : p.role \in Has(user, given, system) /\ p.level = f.level /\ "read" \in p.rights
      OBVIOUS
    <3> DEFINE L == {p.level : p \in {q \in m.perms : "read" \in q.rights /\ q.role \in given \cup {"All", "Guest"}}}
    <3>2. access.levels = L \cup {0}
      BY <3>1 DEF Levels
    <3>3. 0 \in access.levels /\ 0 \notin NoLevels
      BY <3>2 DEF NoLevels
    <3>4. f.level \in L
      BY <2>1, <3>1, <3>2, <3>3
    <3> QED
      BY <3>1, <3>4 DEF Has
  <2> QED
    BY <2>1, <2>2 DEF MayReadField, SiteReads
<1>2. ASSUME name = "docstatus"  PROVE  MayReadField(pair, [table |-> "", name |-> name])
  BY <1>2 DEF MayReadField, SiteReads
<1> QED
  BY <1>1, <1>2 DEF FieldIsReadable

\* Of a version, what is shown the user may read.
LEMMA ShowsReads ==
  ASSUME user \in {"Administrator", "user"}, NEW pair, NEW access, access.fields = pair[1].fields,
         access.levels = Levels(pair[1], user, pair[2]), NEW c, Shows(access, c)
  PROVE  /\ c.what # "changed" => MayReadField(pair, [table |-> "", name |-> c.table])
         /\ c.what = "changed" => MayReadField(pair, [table |-> "", name |-> c.field])
         /\ c.what = "row" => MayReadField(pair, [table |-> c.table, name |-> c.field])
<1>1. \A table, name : FieldReadable(access, table, name) => MayReadField(pair, [table |-> table, name |-> name])
  BY AccessReads
<1>2. \A name : FieldIsReadable(access, name) => MayReadField(pair, [table |-> "", name |-> name])
  BY AccessReads
<1> QED
  BY <1>1, <1>2 DEF Shows, ReadableRow

\* roleRight.
LEMMA RoleRightIs ==
  ASSUME NEW rows, NEW right
  PROVE  LET any   == \E p \in rows : right \in p.rights
             plain == \E p \in rows : right \in p.rights /\ ~p.owner
             own   == RoleRight(rows, right)
         IN  /\ own.allowed <=> any /\ (plain \/ right \in {"create", "select", "read"})
             /\ own.ownerOnly <=> any /\ ~plain /\ right # "create"
BY DEF RoleRight

\* What EvalDocTypePermission makes of all the user's roles.
LEMMA EvalIsRight ==
  ASSUME user # "Administrator", NEW right \in Rights
  PROVE  LET out == EvalDocTypePermission(meta, Has(user, roles, system), right) IN
         /\ out.ownerOnly => MayDo(right, FALSE)
         /\ out.allowed /\ ~out.ownerOnly => MayDo(right, right # "create")
         /\ ~out.allowed => ~MayDo(right, ~out.ownerOnly \/ right # "create")
         /\ ~out.allowed /\ ~out.ownerOnly => ~MayDo(right, FALSE)
<1> DEFINE have == Has(user, roles, system)
           rows == {p \in meta.perms : p.role \in have /\ p.level = 0}
           any(x) == \E p \in rows : x \in p.rights
           plain(x) == \E p \in rows : x \in p.rights /\ ~p.owner
           own == RoleRight(rows, right)
           read == RoleRight(rows, "read")
           out == EvalDocTypePermission(meta, have, right)
<1>1. /\ MayDo(right, FALSE) <=> /\ right = "submit" => meta.submittable
                                 /\ any(right) \/ (right = "select" /\ any("read"))
      /\ MayDo(right, TRUE) <=> /\ right = "submit" => meta.submittable
                                /\ plain(right) \/ (right = "select" /\ plain("read"))
  BY DEF MayDo
<1>2. /\ own.allowed <=> any(right) /\ (plain(right) \/ right \in {"create", "select", "read"})
      /\ own.ownerOnly <=> any(right) /\ ~plain(right) /\ right # "create"
      /\ read.allowed <=> any("read")
      /\ read.ownerOnly <=> any("read") /\ ~plain("read")
  BY RoleRightIs
<1>3. out = IF right = "submit" /\ ~meta.submittable THEN [allowed |-> FALSE, ownerOnly |-> FALSE]
            ELSE IF right = "select" /\ ~own.allowed THEN read ELSE own
  BY DEF EvalDocTypePermission
<1>4. (plain(right) => any(right)) /\ (plain("read") => any("read"))
  OBVIOUS
<1>5. right \in {"select", "read", "create", "submit"}
  BY DEF Rights
<1> HIDE DEF out, own, read, any, plain, rows, have
<1> DEFINE some == MayDo(right, FALSE)
           others == MayDo(right, TRUE)
<1>6. /\ some <=> /\ right = "submit" => meta.submittable
                  /\ any(right) \/ (right = "select" /\ any("read"))
      /\ others <=> /\ right = "submit" => meta.submittable
                    /\ plain(right) \/ (right = "select" /\ plain("read"))
  BY <1>1
<1>7. \A b \in BOOLEAN : MayDo(right, b) <=> (b /\ others) \/ (~b /\ some)
  OBVIOUS
<1> HIDE DEF some, others
<1>8. /\ out.ownerOnly => some /\ right # "create"
      /\ out.allowed /\ ~out.ownerOnly => (right = "create" /\ some) \/ (right # "create" /\ others)
      /\ ~out.allowed => ~others
      /\ ~out.allowed /\ ~out.ownerOnly => ~some
  <2>1. CASE right = "submit" /\ ~meta.submittable
    BY <1>3, <1>6, <2>1
  <2>2. CASE right = "submit" /\ meta.submittable
    BY <1>2, <1>3, <1>4, <1>6, <2>2
  <2>3. CASE right \in {"create", "read"}
    BY <1>2, <1>3, <1>4, <1>6, <2>3
  <2>4. CASE right = "select" /\ own.allowed
    BY <1>2, <1>3, <1>4, <1>6, <2>4
  <2>5. CASE right = "select" /\ ~own.allowed
    BY <1>2, <1>3, <1>4, <1>6, <2>5
  <2> QED
    BY <1>5, <2>1, <2>2, <2>3, <2>4, <2>5
<1>9. /\ out.ownerOnly => MayDo(right, FALSE)
      /\ out.allowed /\ ~out.ownerOnly => MayDo(right, right # "create")
      /\ ~out.allowed => ~MayDo(right, ~out.ownerOnly \/ right # "create")
      /\ ~out.allowed /\ ~out.ownerOnly => ~MayDo(right, FALSE)
  <2>1. MayDo(right, right # "create") <=> (right # "create" /\ others) \/ (right = "create" /\ some)
    BY <1>7
  <2> DEFINE b == ~out.ownerOnly \/ right # "create"
  <2>2. MayDo(right, b) <=> (b /\ others) \/ (~b /\ some)
    BY <1>7
  <2>3. ~out.allowed => ~MayDo(right, b)
    BY <1>8, <2>2
  <2> QED
    BY <1>8, <2>1, <2>3 DEF some
<1> QED
  BY <1>9 DEF out, have

-----------------------------------------------------------------------------
LEMMA ViewStays ==
  ASSUME OnlyView, NEW r, ViewGood(r), NEW w, view'[w] = r
  PROVE  ViewGood(view[w])'
<1>1. Reading(view[w])' <=> Reading(r)
  BY DEF OnlyView, Reading, AccessIs
<1>2. ShownReadable(view[w])' <=> ShownReadable(r)
  BY DEF OnlyView, ShownReadable, MayReadField
<1>3. ShownCounted(view[w])' <=> ShownCounted(r)
  BY DEF ShownCounted
<1>4. Asking(view[w])' <=> Asking(r)
  BY DEF OnlyView, Asking
<1>5. AnswerRight(view[w])' <=> AnswerRight(r)
  BY DEF OnlyView, AnswerRight, MayDo
<1>6. changed' = changed
  BY DEF OnlyView
<1> QED
  BY <1>1, <1>2, <1>3, <1>4, <1>5, <1>6 DEF ViewGood, IsView

\* A command goes on, and the others' good standing is not touched.
LEMMA ViewMoves ==
  ASSUME RightsInv, NEW v \in Viewers, OnlyView, DOMAIN view' = Viewers,
         \A w \in Viewers \ {v} : view'[w] = view[w], ViewGood(view[v])'
  PROVE  RightsInv'
<1>1. ContextTypes'
  BY DEF RightsInv, ContextTypes, OnlyView
<1>2. ASSUME NEW w \in Viewers \ {v}  PROVE  ViewGood(view[w])'
  <2>1. ViewGood(view[w])
    BY DEF RightsInv
  <2> QED
    BY <1>2, <2>1, ViewStays DEF OnlyView
<1> QED
  BY <1>1, <1>2 DEF RightsInv

LEMMA ViewIs ==
  ASSUME RightsInv, NEW v \in Viewers
  PROVE  /\ DOMAIN view = Viewers /\ user \in {"Administrator", "user", "Guest"} /\ <<meta, roles>> \in was
         /\ view[v].at # "idle" => IsView(view[v])
         /\ view[v].at \in ContextSteps => Reading(view[v])
         /\ view[v].at \in CanSteps => Asking(view[v])
BY DEF RightsInv, ContextTypes, ViewGood, ContextSteps, CanSteps

LEMMA ViewFails ==
  ASSUME RightsInv, NEW v \in Viewers, view[v].at # "idle", ViewEnds(v, "failed"), OnlyView
  PROVE  RightsInv'
<1>1. IsView(view[v]) /\ DOMAIN view = Viewers
  BY ViewIs
<1>2. DOMAIN view' = Viewers /\ \A w \in Viewers \ {v} : view'[w] = view[w]
  BY <1>1 DEF ViewEnds
<1>3. view'[v].at = "over" /\ view'[v].exit = "failed" /\ view'[v].q = view[v].q /\ DOMAIN view'[v] = ViewFields
  BY <1>1 DEF ViewEnds, IsView, ViewFields
<1>4. ViewGood(view[v])'
  BY <1>1, <1>3 DEF ViewGood, IsView
<1> QED
  BY <1>2, <1>4, ViewMoves

-----------------------------------------------------------------------------
\* People change fields and roles: what was so at some time stays so.
LEMMA ChangeKeeps ==
  ASSUME RightsInv, ChangeMeta \/ ChangeRoles
  PROVE  RightsInv'
<1>1. /\ UNCHANGED <<user, system, view>> /\ was \subseteq was' /\ <<meta, roles>>' \in was' /\ changed' # {}
      /\ changed # {"meta", "roles"} /\ changed \subseteq changed'
  BY DEF ChangeMeta, ChangeRoles
<1>2. ContextTypes'
  BY <1>1 DEF RightsInv, ContextTypes, ChangeMeta, ChangeRoles
<1>3. ASSUME NEW access, AccessIs(access)  PROVE  AccessIs(access)'
  BY <1>1, <1>3 DEF AccessIs
<1>4. ASSUME NEW v \in Viewers, Reading(view[v])  PROVE  Reading(view[v])'
  <2>1. AccessIs(view[v].access) => AccessIs(view[v].access)'
    BY <1>1, <1>3
  <2>2. view[v].at = "roles" =>
          /\ "meta" \notin changed' => view[v].m = meta'
          /\ "roles" \notin changed' => <<view[v].m, roles'>> \in was'
    <3>1. CASE ChangeMeta
      BY <1>1, <1>4, <3>1 DEF ChangeMeta, Reading
    <3>2. CASE ChangeRoles
      BY <1>1, <1>4, <3>2 DEF ChangeRoles, Reading
    <3> QED
      BY <3>1, <3>2
  <2> QED
    BY <1>1, <1>4, <2>1, <2>2 DEF Reading
<1>5. ASSUME NEW v \in Viewers, ShownReadable(view[v])  PROVE  ShownReadable(view[v])'
  <2>1. \A pair, c : MayReadField(pair, c)' <=> MayReadField(pair, c)
    BY <1>1 DEF MayReadField
  <2> QED
    BY <1>1, <1>5, <2>1 DEF ShownReadable
<1>6. ASSUME NEW v \in Viewers, ShownCounted(view[v])  PROVE  ShownCounted(view[v])'
  BY <1>1, <1>6 DEF ShownCounted
<1>7. ASSUME NEW v \in Viewers, Asking(view[v])  PROVE  Asking(view[v])'
  BY <1>1, <1>7 DEF Asking
<1>8. ASSUME NEW v \in Viewers  PROVE  ViewGood(view[v])'
  <2>1. ViewGood(view[v])
    BY DEF RightsInv
  <2> QED
    BY <1>1, <1>4, <1>5, <1>6, <1>7, <2>1 DEF ViewGood, IsView
<1> QED
  BY <1>2, <1>8 DEF RightsInv

LEMMA StartViewKeeps ==
  ASSUME RightsInv, NEW v \in Viewers, NEW q \in Views[v], StartView(v, q)
  PROVE  RightsInv'
<1> DEFINE r == [at |-> IF q.cmd = "can" THEN "who" ELSE "docinfo", q |-> q, exit |-> "none", who |-> "none",
                 access |-> [fields |-> {}, levels |-> {}], m |-> [perms |-> {}], have |-> {}, desk |-> "no",
                 versions |-> <<>>, notes |-> {}, links |-> {}, timeline |-> <<>>, out |-> <<>>, hidden |-> 0,
                 sections |-> {}, omitted |-> 0]
<1>1. q \in Contexts \cup Cans /\ DOMAIN view = Viewers
  BY ViewsAre, ViewIs
<1>2. view' = [view EXCEPT ![v] = r] /\ OnlyView
  BY DEF StartView
<1>3. DOMAIN view' = Viewers /\ (\A w \in Viewers \ {v} : view'[w] = view[w]) /\ view'[v] = r
  BY <1>1, <1>2
<1>4. /\ DOMAIN r = ViewFields /\ r.at = (IF q.cmd = "can" THEN "who" ELSE "docinfo") /\ r.q = q /\ r.exit = "none"
      /\ DOMAIN r.access = {"fields", "levels"} /\ r.desk = "no" /\ r.versions = <<>> /\ r.notes = {} /\ r.links = {}
      /\ r.timeline = <<>> /\ r.out = <<>> /\ r.hidden = 0 /\ r.sections = {} /\ r.omitted = 0
  BY DEF ViewFields
<1> HIDE DEF r
<1>5. CASE q \in Cans
  <2>1. r.at = "who"
    BY <1>4, <1>5 DEF Cans
  <2> QED
    BY <1>1, <1>2, <1>3, <1>4, <1>5, <2>1, ViewMoves DEF ViewGood, IsView, Asking, CanSteps
<1>6. CASE q \in Contexts
  <2>1. r.at = "docinfo"
    BY <1>4, <1>6 DEF Contexts
  <2>2. Reading(view[v])'
    BY <1>3, <1>4, <1>6, <2>1 DEF Reading
  <2> QED
    BY <1>1, <1>2, <1>3, <1>4, <1>6, <2>1, <2>2, ViewMoves DEF ViewGood, IsView, ContextSteps
<1> QED
  BY <1>1, <1>5, <1>6

-----------------------------------------------------------------------------
(***************************************************************************)
(* The parts of a document's context.                                      *)
(***************************************************************************)
LEMMA AccessStays ==
  ASSUME OnlyView, NEW v, NEW access, view'[v].access = access, AccessIs(access)
  PROVE  AccessIs(view[v].access)'
BY DEF OnlyView, AccessIs

\* A part was read: the record but for what it says.
SameRead(r, s) ==
  /\ DOMAIN s = ViewFields /\ s.q = r.q /\ s.exit = r.exit /\ s.out = r.out /\ s.hidden = r.hidden
  /\ s.omitted = r.omitted /\ s.sections = r.sections

LEMMA ReadingMoves ==
  ASSUME RightsInv, NEW v \in Viewers, view[v].at \in ContextSteps, OnlyView, DOMAIN view' = Viewers,
         \A w \in Viewers \ {v} : view'[w] = view[w], view'[v].at \in ContextSteps,
         SameRead(view[v], view'[v]), Reading(view[v])'
  PROVE  RightsInv'
<1>1. IsView(view[v])
  BY ViewIs DEF ContextSteps
<1>2. ViewGood(view[v])'
  BY <1>1 DEF ViewGood, IsView, SameRead
<1> QED
  BY <1>2, ViewMoves

LEMMA FetchDocinfoKeeps ==
  ASSUME RightsInv, NEW v \in Viewers, FetchDocinfo(v)
  PROVE  RightsInv'
<1>1. view[v].at = "docinfo" /\ OnlyView /\ view[v].at \in ContextSteps /\ view[v].at # "idle"
  BY DEF FetchDocinfo, ViewAt, ContextSteps
<1>2. Reading(view[v]) /\ IsView(view[v]) /\ DOMAIN view = Viewers
  BY <1>1, ViewIs
<1>3. CASE ViewEnds(v, "failed")
  BY <1>1, <1>3, ViewFails
<1>4. CASE /\ user # "Guest"
           /\ view' = [view EXCEPT ![v].versions = Versions, ![v].at = IF Versions = <<>> THEN "links" ELSE "user"]
  <2>1. /\ DOMAIN view' = Viewers /\ (\A w \in Viewers \ {v} : view'[w] = view[w])
        /\ view'[v] = [view[v] EXCEPT !.versions = Versions, !.at = IF Versions = <<>> THEN "links" ELSE "user"]
    BY <1>2, <1>4
  <2> DEFINE s == view'[v]
             r == view[v]
  <2>2. /\ SameRead(r, s) /\ s.versions = Versions /\ s.at = (IF Versions = <<>> THEN "links" ELSE "user")
        /\ s.notes = r.notes /\ s.access = r.access /\ s.links = r.links /\ s.timeline = r.timeline
    BY <1>2, <2>1 DEF SameRead, IsView, ViewFields
  <2>3. Reading(view[v])'
    <3>1. r.at = "docinfo" /\ r.notes = {} /\ r.links = {} /\ r.timeline = <<>>
      BY <1>1, <1>2 DEF Reading
    <3>2. s.at \in {"links", "user"} /\ (s.at = "links" => s.versions = <<>>)
      BY <2>2
    <3> QED
      BY <1>1, <1>2, <1>4, <2>2, <3>1, <3>2 DEF Reading, SameRead, OnlyView
  <2> QED
    BY <1>1, <2>1, <2>2, <2>3, ReadingMoves DEF ContextSteps
<1> QED
  BY <1>3, <1>4 DEF FetchDocinfo

\* ReadableFields fails.
LEMMA NoAccessKeeps ==
  ASSUME RightsInv, NEW v \in Viewers, view[v].at \in {"user", "meta", "roles"}, NoAccess(v), OnlyView
  PROVE  RightsInv'
<1>1. Reading(view[v]) /\ IsView(view[v]) /\ DOMAIN view = Viewers /\ view[v].at \in ContextSteps
  BY ViewIs DEF ContextSteps
<1>2. CASE ViewEnds(v, "failed")
  BY <1>1, <1>2, ViewFails DEF ContextSteps
<1>3. CASE view' = [view EXCEPT ![v].at = "links", ![v].versions = <<>>, ![v].notes = @ \cup {"versions"}]
  <2> DEFINE s == view'[v]
             r == view[v]
  <2>1. /\ DOMAIN view' = Viewers /\ (\A w \in Viewers \ {v} : view'[w] = view[w])
        /\ s = [r EXCEPT !.at = "links", !.versions = <<>>, !.notes = r.notes \cup {"versions"}]
    BY <1>1, <1>3
  <2>2. /\ SameRead(r, s) /\ s.versions = <<>> /\ s.at = "links" /\ s.notes = r.notes \cup {"versions"}
        /\ s.access = r.access /\ s.links = r.links /\ s.timeline = r.timeline
    BY <1>1, <2>1 DEF SameRead, IsView, ViewFields
  <2>3. Reading(view[v])'
    BY <1>1, <2>2 DEF Reading, SameRead, OnlyView
  <2> QED
    BY <1>1, <2>1, <2>2, <2>3, ReadingMoves DEF ContextSteps
<1> QED
  BY <1>2, <1>3 DEF NoAccess

LEMMA AccessUserKeeps ==
  ASSUME RightsInv, NEW v \in Viewers, AccessUser(v)
  PROVE  RightsInv'
<1>1. view[v].at = "user" /\ OnlyView /\ view[v].at \in ContextSteps /\ view[v].at # "idle"
  BY DEF AccessUser, ViewAt, ContextSteps
<1>2. Reading(view[v]) /\ IsView(view[v]) /\ DOMAIN view = Viewers
  BY <1>1, ViewIs
<1>3. CASE NoAccess(v)
  BY <1>1, <1>3, NoAccessKeeps
<1>4. CASE view' = [view EXCEPT ![v].who = user, ![v].at = "meta"]
  <2> DEFINE s == view'[v]
             r == view[v]
  <2>1. /\ DOMAIN view' = Viewers /\ (\A w \in Viewers \ {v} : view'[w] = view[w])
        /\ s = [r EXCEPT !.who = user, !.at = "meta"]
    BY <1>2, <1>4
  <2>2. /\ SameRead(r, s) /\ s.versions = r.versions /\ s.at = "meta" /\ s.who = user
        /\ s.notes = r.notes /\ s.access = r.access /\ s.links = r.links /\ s.timeline = r.timeline
    BY <1>2, <2>1 DEF SameRead, IsView, ViewFields
  <2>3. Reading(view[v])'
    BY <1>1, <1>2, <2>2 DEF Reading, SameRead, OnlyView
  <2> QED
    BY <1>1, <2>1, <2>2, <2>3, ReadingMoves DEF ContextSteps
<1> QED
  BY <1>3, <1>4 DEF AccessUser

LEMMA AccessMetaKeeps ==
  ASSUME RightsInv, NEW v \in Viewers, AccessMeta(v)
  PROVE  RightsInv'
<1>1. view[v].at = "meta" /\ OnlyView /\ view[v].at \in ContextSteps /\ view[v].at # "idle"
  BY DEF AccessMeta, ViewAt, ContextSteps
<1>2. Reading(view[v]) /\ IsView(view[v]) /\ DOMAIN view = Viewers /\ <<meta, roles>> \in was
  BY <1>1, ViewIs
<1>3. CASE NoAccess(v)
  BY <1>1, <1>3, NoAccessKeeps
<1>4. CASE view' = [view EXCEPT ![v].m = meta,
                                ![v].access = [fields |-> meta.fields, levels |-> Levels(meta, view[v].who, {})],
                                ![v].at = IF meta.perms = {} \/ view[v].who = "Administrator" THEN "links" ELSE "roles"]
  <2> DEFINE s == view'[v]
             r == view[v]
             all == meta.perms = {} \/ user = "Administrator"
             access == [fields |-> meta.fields, levels |-> Levels(meta, user, {})]
  <2>1. r.who = user /\ r.notes = {} /\ r.links = {} /\ r.timeline = <<>> /\ user # "Guest"
    BY <1>1, <1>2 DEF Reading
  <2>2. /\ DOMAIN view' = Viewers /\ (\A w \in Viewers \ {v} : view'[w] = view[w])
        /\ s = [r EXCEPT !.m = meta, !.access = access, !.at = IF all THEN "links" ELSE "roles"]
    BY <1>2, <1>4, <2>1
  <2> HIDE DEF access, all
  <2>3. /\ SameRead(r, s) /\ s.versions = r.versions /\ s.at = (IF all THEN "links" ELSE "roles") /\ s.who = user
        /\ s.m = meta /\ s.notes = {} /\ s.access = access /\ s.links = {} /\ s.timeline = <<>>
    BY <1>2, <2>1, <2>2 DEF SameRead, IsView, ViewFields
  <2>4. DOMAIN access = {"fields", "levels"} /\ access.fields = meta.fields /\ (~all => user # "Administrator")
    BY DEF access, all
  <2>5. all => AccessIs(access)
    <3>1. SUFFICES ASSUME all  PROVE  access.levels = Levels(meta, user, roles)
      BY <1>2, <2>4, <3>1 DEF AccessIs
    <3>2. CASE meta.perms = {}
      BY <3>2 DEF access, Levels
    <3>3. CASE user = "Administrator"
      BY <3>3 DEF access, Levels
    <3> QED
      BY <3>1, <3>2, <3>3 DEF all
  <2>6. s.at \in {"links", "roles"} /\ (s.at = "links" => AccessIs(view[v].access)')
    BY <1>1, <2>3, <2>5, AccessStays
  <2>7. Reading(view[v])'
    <3>1. r.versions = Versions
      BY <1>1, <1>2, <2>1 DEF Reading
    <3>2. s.at = "roles" => user # "Administrator" /\ s.access.fields = s.m.fields /\ s.m = meta /\ <<s.m, roles>> \in was
      BY <1>2, <2>3, <2>4
    <3> QED
      BY <1>1, <1>2, <2>1, <2>3, <2>4, <2>6, <3>1, <3>2 DEF Reading, SameRead, OnlyView
  <2> QED
    BY <1>1, <2>2, <2>3, <2>6, <2>7, ReadingMoves DEF ContextSteps
<1> QED
  BY <1>3, <1>4 DEF AccessMeta

LEMMA AccessRolesKeeps ==
  ASSUME RightsInv, NEW v \in Viewers, AccessRoles(v)
  PROVE  RightsInv'
<1>1. view[v].at = "roles" /\ OnlyView /\ view[v].at \in ContextSteps /\ view[v].at # "idle"
  BY DEF AccessRoles, ViewAt, ContextSteps
<1>2. Reading(view[v]) /\ IsView(view[v]) /\ DOMAIN view = Viewers /\ <<meta, roles>> \in was
  BY <1>1, ViewIs
<1>3. CASE NoAccess(v)
  BY <1>1, <1>3, NoAccessKeeps
<1>4. CASE view' = [view EXCEPT ![v].access.levels = Levels(view[v].m, view[v].who, roles), ![v].at = "links"]
  <2> DEFINE s == view'[v]
             r == view[v]
             levels == Levels(r.m, user, roles)
             access == [r.access EXCEPT !.levels = levels]
  <2>1. /\ r.who = user /\ r.notes = {} /\ r.links = {} /\ r.timeline = <<>> /\ user # "Guest" /\ r.versions = Versions
        /\ DOMAIN r.access = {"fields", "levels"} /\ r.access.fields = r.m.fields
        /\ "meta" \notin changed => r.m = meta
        /\ "roles" \notin changed => <<r.m, roles>> \in was
    BY <1>1, <1>2 DEF Reading
  <2>2. DOMAIN access = {"fields", "levels"} /\ access.fields = r.m.fields /\ access.levels = levels
    BY <2>1
  <2>3. /\ DOMAIN view' = Viewers /\ (\A w \in Viewers \ {v} : view'[w] = view[w])
        /\ s = [r EXCEPT !.access = access, !.at = "links"]
    BY <1>2, <1>4, <2>1 DEF IsView, ViewFields
  <2> HIDE DEF access
  <2>4. /\ SameRead(r, s) /\ s.versions = r.versions /\ s.at = "links"
        /\ s.notes = {} /\ s.access = access /\ s.links = {} /\ s.timeline = <<>>
    BY <1>2, <2>1, <2>3 DEF SameRead, IsView, ViewFields
  <2>5. AccessIs(access)
    <3>1. changed # {"meta", "roles"} => <<r.m, roles>> \in was
      <4>1. ASSUME changed # {"meta", "roles"}, ~("meta" \in changed /\ "roles" \in changed)  PROVE  <<r.m, roles>> \in was
        BY <1>2, <2>1, <4>1
      <4> QED
        BY <4>1 DEF RightsInv, ContextTypes
    <3> QED
      BY <2>2, <3>1 DEF AccessIs
  <2>6. Reading(view[v])'
    <3>1. AccessIs(view[v].access)'
      BY <1>1, <2>4, <2>5, AccessStays
    <3> QED
      BY <1>1, <1>2, <2>1, <2>2, <2>4, <3>1 DEF Reading, SameRead, OnlyView
  <2> QED
    BY <1>1, <2>3, <2>4, <2>6, ReadingMoves DEF ContextSteps
<1> QED
  BY <1>3, <1>4 DEF AccessRoles

\* An optional part was read, or is named in the notes.
LEMMA LinkCountsKeeps ==
  ASSUME RightsInv, NEW v \in Viewers, LinkCounts(v)
  PROVE  RightsInv'
<1>1. view[v].at = "links" /\ OnlyView /\ view[v].at \in ContextSteps /\ view[v].at # "idle"
  BY DEF LinkCounts, ViewAt, ContextSteps
<1>2. Reading(view[v]) /\ IsView(view[v]) /\ DOMAIN view = Viewers
  BY <1>1, ViewIs
<1>3. CASE ViewEnds(v, "failed")
  BY <1>1, <1>3, ViewFails
<1>4. CASE ~ViewEnds(v, "failed")
  <2> DEFINE s == view'[v]
             r == view[v]
  <2>1. /\ r.links = {} /\ r.timeline = <<>> /\ "links" \notin r.notes /\ "timeline" \notin r.notes
        /\ r.versions = (IF "versions" \in r.notes THEN <<>> ELSE Versions)
        /\ r.versions = <<>> \/ AccessIs(r.access)
    BY <1>1, <1>2 DEF Reading
  <2>2. /\ DOMAIN view' = Viewers /\ (\A w \in Viewers \ {v} : view'[w] = view[w])
        /\ SameRead(r, s) /\ s.versions = r.versions /\ s.at = "timeline" /\ s.access = r.access /\ s.timeline = <<>>
        /\ \/ ~r.q.links /\ s.links = {} /\ s.notes = r.notes
           \/ r.q.links /\ s.links = Linked /\ s.notes = r.notes
           \/ r.q.links /\ s.links = {} /\ s.notes = r.notes \cup {"links"}
    BY <1>2, <1>4, <2>1 DEF LinkCounts, ViewTo, SameRead, IsView, ViewFields
  <2>3. s.versions = <<>> \/ AccessIs(view[v].access)'
    BY <1>1, <2>1, <2>2, AccessStays
  <2>4. s.links = (IF r.q.links /\ "links" \notin s.notes THEN Linked ELSE {}) /\ "timeline" \notin s.notes
        /\ ("versions" \in s.notes <=> "versions" \in r.notes)
    BY <2>1, <2>2
  <2>5. Reading(view[v])'
    BY <1>1, <1>2, <2>1, <2>2, <2>3, <2>4 DEF Reading, SameRead, OnlyView
  <2> QED
    BY <1>1, <2>2, <2>5, ReadingMoves DEF ContextSteps
<1> QED
  BY <1>3, <1>4

LEMMA ActivityTimelineKeeps ==
  ASSUME RightsInv, NEW v \in Viewers, ActivityTimeline(v)
  PROVE  RightsInv'
<1>1. view[v].at = "timeline" /\ OnlyView /\ view[v].at \in ContextSteps /\ view[v].at # "idle"
  BY DEF ActivityTimeline, ViewAt, ContextSteps
<1>2. Reading(view[v]) /\ IsView(view[v]) /\ DOMAIN view = Viewers
  BY <1>1, ViewIs
<1>3. CASE ViewEnds(v, "failed")
  BY <1>1, <1>3, ViewFails
<1>4. CASE ~ViewEnds(v, "failed")
  <2> DEFINE s == view'[v]
             r == view[v]
  <2>1. /\ r.timeline = <<>> /\ "timeline" \notin r.notes
        /\ r.links = (IF r.q.links /\ "links" \notin r.notes THEN Linked ELSE {})
        /\ r.versions = (IF "versions" \in r.notes THEN <<>> ELSE Versions)
        /\ r.versions = <<>> \/ AccessIs(r.access)
    BY <1>1, <1>2 DEF Reading
  <2>2. /\ DOMAIN view' = Viewers /\ (\A w \in Viewers \ {v} : view'[w] = view[w])
        /\ SameRead(r, s) /\ s.versions = r.versions /\ s.at = "compact" /\ s.access = r.access /\ s.links = r.links
        /\ \/ ~r.q.timeline /\ s.timeline = <<>> /\ s.notes = r.notes
           \/ r.q.timeline /\ s.timeline = Timeline /\ s.notes = r.notes
           \/ r.q.timeline /\ s.timeline = <<>> /\ s.notes = r.notes \cup {"timeline"}
    BY <1>2, <1>4, <2>1 DEF ActivityTimeline, ViewTo, SameRead, IsView, ViewFields
  <2>3. s.versions = <<>> \/ AccessIs(view[v].access)'
    BY <1>1, <2>1, <2>2, AccessStays
  <2>4. s.timeline = (IF r.q.timeline /\ "timeline" \notin s.notes THEN Timeline ELSE <<>>)
        /\ ("versions" \in s.notes <=> "versions" \in r.notes) /\ ("links" \in s.notes <=> "links" \in r.notes)
    BY <2>1, <2>2
  <2>5. Reading(view[v])'
    BY <1>1, <1>2, <2>1, <2>2, <2>3, <2>4 DEF Reading, SameRead, OnlyView
  <2> QED
    BY <1>1, <2>2, <2>5, ReadingMoves DEF ContextSteps
<1> QED
  BY <1>3, <1>4

-----------------------------------------------------------------------------
\* The first n of a sequence and the last n, for n its length or MaxShown.
LEMMA CutIs ==
  ASSUME NEW T, NEW s \in Seq(T)
  PROVE  LET n == Min({MaxShown, Len(s)})
             cut == SubSeq(s, 1, n)
             newest == SubSeq(s, Len(s) - n + 1, Len(s))
         IN  /\ n \in 0 .. Len(s)
             /\ Len(cut) = n /\ (\A k \in DOMAIN cut : k \in DOMAIN s /\ cut[k] = s[k])
             /\ Len(newest) = n /\ (\A k \in DOMAIN newest : \E i \in DOMAIN s : newest[k] = s[i])
<1> DEFINE n == Min({MaxShown, Len(s)})
           cut == SubSeq(s, 1, n)
           newest == SubSeq(s, Len(s) - n + 1, Len(s))
<1>1. Len(s) \in Nat /\ DOMAIN s = 1 .. Len(s) /\ MaxShown \in Nat
  BY HistoryIs
<1>2. n \in 0 .. Len(s)
  BY <1>1, LeastOfTwo
<1> HIDE DEF n
<1>3. Len(cut) = n /\ \A k \in DOMAIN cut : k \in DOMAIN s /\ cut[k] = s[k]
  BY <1>1, <1>2
<1>4. Len(newest) = n /\ \A k \in DOMAIN newest : \E i \in DOMAIN s : newest[k] = s[i]
  <2> DEFINE l == Len(s)
  <2>1. l \in Nat /\ n \in Nat /\ n <= l
    BY <1>1, <1>2
  <2>2. Len(newest) = n /\ DOMAIN newest = 1 .. n
    BY <2>1
  <2>3. ASSUME NEW k \in 1 .. n  PROVE  l - n + k \in 1 .. l /\ newest[k] = s[l - n + k]
    <3>1. l - n + k \in 1 .. l /\ l - n + 1 + k - 1 = l - n + k
      BY <2>1
    <3> QED
      BY <2>1, <3>1
  <2> HIDE DEF newest, l
  <2> QED
    BY <1>1, <2>2, <2>3 DEF l
<1> QED
  BY <1>2, <1>3, <1>4 DEF n

LEMMA ShownStays ==
  ASSUME OnlyView, NEW v, NEW s, view'[v] = s, ShownReadable(s), ShownCounted(s)
  PROVE  (ShownReadable(view[v]) /\ ShownCounted(view[v]))'
BY DEF OnlyView, ShownReadable, MayReadField, ShownCounted

LEMMA CompactDocContextKeeps ==
  ASSUME RightsInv, NEW v \in Viewers, CompactDocContext(v)
  PROVE  RightsInv'
<1> DEFINE r == view[v]
           shown == Chosen(r.versions, {i \in DOMAIN r.versions : Shows(r.access, r.versions[i])})
           lines == Chosen(r.timeline, {i \in DOMAIN r.timeline : r.timeline[i] \subseteq MayRead})
           kept == r.links \cap MayRead
           size(t) == Min({MaxShown, Len(t)})
           out == IF "Version" \in MayRead THEN shown ELSE <<>>
           s == view'[v]
<1>1. view[v].at = "compact" /\ OnlyView /\ view[v].at \in ContextSteps /\ view[v].at # "idle"
  BY DEF CompactDocContext, ViewAt, ContextSteps
<1>2. Reading(r) /\ IsView(r) /\ DOMAIN view = Viewers /\ user \in {"Administrator", "user", "Guest"}
  BY <1>1, ViewIs
<1>3. /\ r.exit = "none" /\ r.omitted = 0 /\ user \in {"Administrator", "user"} /\ r.q \in Contexts
      /\ r.versions = (IF "versions" \in r.notes THEN <<>> ELSE Versions)
      /\ r.versions = <<>> \/ AccessIs(r.access)
      /\ r.links = (IF r.q.links /\ "links" \notin r.notes THEN Linked ELSE {})
      /\ r.timeline = (IF r.q.timeline /\ "timeline" \notin r.notes THEN Timeline ELSE <<>>)
  BY <1>1, <1>2 DEF Reading
<1> DEFINE T == [what : {"changed", "row", "added", "removed"}, table : STRING, field : STRING]
<1>4. r.versions \in Seq(T) /\ r.timeline \in Seq(SUBSET STRING) /\ IsFiniteSet(r.links)
  <2>1. IsFiniteSet({}) /\ <<>> \in Seq(T) /\ <<>> \in Seq(SUBSET STRING)
    BY FS_EmptySet
  <2> HIDE DEF T
  <2> QED
    BY <1>3, <2>1, HistoryIs DEF T
<1>5. /\ shown \in Seq(T) /\ Len(shown) \in Nat
      /\ \A k \in DOMAIN shown : \E i \in DOMAIN r.versions : shown[k] = r.versions[i] /\ Shows(r.access, r.versions[i])
  <2> DEFINE S == {i \in DOMAIN r.versions : Shows(r.access, r.versions[i])}
  <2>1. S \in SUBSET DOMAIN r.versions /\ \A i \in S : Shows(r.access, r.versions[i])
    OBVIOUS
  <2>2. shown = Chosen(r.versions, S)
    OBVIOUS
  <2> HIDE DEF S, shown, T, r
  <2>3. shown \in Seq(T) /\ Len(shown) \in Nat /\ \A k \in DOMAIN shown : \E i \in S : shown[k] = r.versions[i]
    BY <1>4, <2>1, <2>2, ChosenIs
  <2> QED
    BY <2>1, <2>3
<1>6. /\ lines \in Seq(SUBSET STRING) /\ Len(lines) \in Nat /\ \A k \in DOMAIN lines : lines[k] \subseteq MayRead
  <2> DEFINE S == {i \in DOMAIN r.timeline : r.timeline[i] \subseteq MayRead}
  <2>1. S \in SUBSET DOMAIN r.timeline /\ \A i \in S : r.timeline[i] \subseteq MayRead
    OBVIOUS
  <2>2. lines = Chosen(r.timeline, S)
    OBVIOUS
  <2> HIDE DEF S, lines, r
  <2>3. /\ lines \in Seq(SUBSET STRING) /\ Len(lines) \in Nat
        /\ \A k \in DOMAIN lines : \E i \in S : lines[k] = r.timeline[i]
    BY <1>4, <2>1, <2>2, ChosenIs
  <2> QED
    BY <2>1, <2>3
<1>7. /\ DOMAIN view' = Viewers /\ (\A w \in Viewers \ {v} : view'[w] = view[w])
      /\ s = [Compact(v) EXCEPT !.at = "over", !.exit = "ok"]
  BY <1>2 DEF CompactDocContext
<1> HIDE DEF T
<1>8. /\ DOMAIN s = ViewFields /\ s.q = r.q /\ s.at = "over" /\ s.exit = "ok" /\ s.notes = r.notes
      /\ r.q.full => /\ ~r.q.mcp /\ s.out = Versions /\ s.hidden = 0 /\ s.omitted = 0
                     /\ s.links = r.links /\ s.timeline = r.timeline
      /\ ~r.q.mcp /\ ~r.q.full =>
                     /\ s.out = shown /\ s.hidden = Len(r.versions) - Len(shown) /\ s.omitted = 0
                     /\ s.links = r.links /\ s.timeline = r.timeline
      /\ r.q.mcp => /\ s.out = SubSeq(out, 1, size(out))
                    /\ s.hidden = (Len(r.versions) - Len(shown)) + (Len(shown) - Len(out))
                                    + (Len(r.timeline) - Len(lines)) + Cardinality(r.links \ kept)
                    /\ s.sections = Section \cap MayRead /\ s.links = kept
                    /\ s.timeline = SubSeq(lines, Len(lines) - size(lines) + 1, Len(lines))
                    /\ s.omitted = (Len(out) - size(out)) + (Len(lines) - size(lines))
  <2>1. Compact(v) = IF r.q.full THEN [r EXCEPT !.out = Versions, !.sections = Section] ELSE IF ~r.q.mcp
        THEN [r EXCEPT !.out = shown, !.hidden = Len(r.versions) - Len(shown), !.sections = Section]
        ELSE [r EXCEPT !.out = SubSeq(out, 1, size(out)),
                       !.hidden = (Len(r.versions) - Len(shown)) + (Len(shown) - Len(out))
                                    + (Len(r.timeline) - Len(lines)) + Cardinality(r.links \ kept),
                       !.sections = Section \cap MayRead, !.links = kept,
                       !.timeline = SubSeq(lines, Len(lines) - size(lines) + 1, Len(lines)),
                       !.omitted = (Len(out) - size(out)) + (Len(lines) - size(lines))]
    BY DEF Compact, FullAnswer
  <2> DEFINE hiddenHere == Len(r.versions) - Len(shown)
             hidden == (Len(r.versions) - Len(shown)) + (Len(shown) - Len(out)) + (Len(r.timeline) - Len(lines))
                         + Cardinality(r.links \ kept)
             sections == Section \cap MayRead
             few == SubSeq(out, 1, size(out))
             newest == SubSeq(lines, Len(lines) - size(lines) + 1, Len(lines))
             omitted == (Len(out) - size(out)) + (Len(lines) - size(lines))
  <2>2. /\ Compact(v) = IF r.q.full THEN [r EXCEPT !.out = Versions, !.sections = Section]
                        ELSE IF ~r.q.mcp THEN [r EXCEPT !.out = shown, !.hidden = hiddenHere, !.sections = Section]
                        ELSE [r EXCEPT !.out = few, !.hidden = hidden, !.sections = sections, !.links = kept,
                                       !.timeline = newest, !.omitted = omitted]
    BY <2>1
  <2>3. DOMAIN r = ViewFields /\ r.omitted = 0 /\ r.hidden = 0 /\ ~(r.q.mcp /\ r.q.full)
    BY <1>2, <1>3 DEF IsView, Reading, Contexts
  <2> HIDE DEF shown, lines, kept, out, size, hiddenHere, hidden, sections, few, newest, omitted, r
  <2>6. CASE r.q.full
    <3>1. s = [[r EXCEPT !.out = Versions, !.sections = Section] EXCEPT !.at = "over", !.exit = "ok"]
      BY <1>7, <2>2, <2>6
    <3> HIDE DEF s
    <3>2. /\ DOMAIN s = ViewFields /\ s.q = r.q /\ s.at = "over" /\ s.exit = "ok" /\ s.notes = r.notes
          /\ s.out = Versions /\ s.hidden = 0 /\ s.omitted = 0 /\ s.links = r.links /\ s.timeline = r.timeline
      BY <2>3, <3>1 DEF ViewFields
    <3> QED
      BY <2>3, <2>6, <3>2
  <2>4. CASE ~r.q.mcp /\ ~r.q.full
    <3>1. s = [[r EXCEPT !.out = shown, !.hidden = hiddenHere, !.sections = Section] EXCEPT !.at = "over", !.exit = "ok"]
      BY <1>7, <2>2, <2>4
    <3> HIDE DEF s
    <3>2. /\ DOMAIN s = ViewFields /\ s.q = r.q /\ s.at = "over" /\ s.exit = "ok" /\ s.notes = r.notes
          /\ s.out = shown /\ s.hidden = hiddenHere /\ s.omitted = 0 /\ s.links = r.links /\ s.timeline = r.timeline
      BY <2>3, <3>1 DEF ViewFields
    <3> QED
      BY <2>4, <3>2 DEF hiddenHere
  <2>5. CASE r.q.mcp /\ ~r.q.full
    <3>1. s = [[r EXCEPT !.out = few, !.hidden = hidden, !.sections = sections, !.links = kept,
                         !.timeline = newest, !.omitted = omitted] EXCEPT !.at = "over", !.exit = "ok"]
      BY <1>7, <2>2, <2>5
    <3> HIDE DEF s
    <3>2. /\ DOMAIN s = ViewFields /\ s.q = r.q /\ s.at = "over" /\ s.exit = "ok" /\ s.notes = r.notes
          /\ s.out = few /\ s.hidden = hidden /\ s.sections = sections /\ s.links = kept
          /\ s.timeline = newest /\ s.omitted = omitted
      BY <2>3, <3>1 DEF ViewFields
    <3> QED
      BY <2>5, <3>2 DEF hidden, sections, few, newest, omitted
  <2> QED
    BY <2>3, <2>4, <2>5, <2>6
<1>9. /\ out \in Seq(T) /\ Len(out) \in Nat /\ (\A k \in DOMAIN out : k \in DOMAIN shown /\ out[k] = shown[k])
      /\ ("Version" \notin MayRead => out = <<>>)
  <2> HIDE DEF shown
  <2>1. <<>> \in Seq(T) /\ Len(<<>>) = 0 /\ DOMAIN <<>> = {}
    OBVIOUS
  <2> QED
    BY <1>5, <2>1
<1> HIDE DEF out, lines
<1> DEFINE few == SubSeq(out, 1, size(out))
           newest == SubSeq(lines, Len(lines) - size(lines) + 1, Len(lines))
<1>10. size(out) \in 0 .. Len(out) /\ Len(few) = size(out) /\ \A k \in DOMAIN few : k \in DOMAIN out /\ few[k] = out[k]
  BY <1>9, CutIs
<1>11. size(lines) \in 0 .. Len(lines) /\ Len(newest) = size(lines)
       /\ \A k \in DOMAIN newest : \E i \in DOMAIN lines : newest[k] = lines[i]
  BY <1>6, CutIs
<1>12. r.q.mcp => s.out = few /\ s.timeline = newest
  BY <1>8
<1> HIDE DEF size, few, newest
<1>13. ~r.q.full => \A k \in DOMAIN s.out : \E i \in DOMAIN r.versions : s.out[k] = r.versions[i] /\ Shows(r.access, r.versions[i])
  <2> HIDE DEF shown, r, s
  <2> SUFFICES ASSUME ~r.q.full
               PROVE  \A k \in DOMAIN s.out : \E i \in DOMAIN r.versions :
                        s.out[k] = r.versions[i] /\ Shows(r.access, r.versions[i])
    OBVIOUS
  <2>1. CASE ~r.q.mcp
    BY <1>5, <1>8, <2>1
  <2>2. CASE r.q.mcp
    BY <1>5, <1>9, <1>10, <1>12, <2>2
  <2> QED
    BY <2>1, <2>2
<1> HIDE DEF s, shown
<1>14. ShownReadable(s)
  <2> SUFFICES ASSUME ~r.q.full, changed # {"meta", "roles"}, NEW k \in DOMAIN s.out
               PROVE  LET c == s.out[k] IN
                      \E pair \in was :
                        /\ c.what # "changed" => MayReadField(pair, [table |-> "", name |-> c.table])
                        /\ c.what = "changed" => MayReadField(pair, [table |-> "", name |-> c.field])
                        /\ c.what = "row" => MayReadField(pair, [table |-> c.table, name |-> c.field])
    BY <1>8 DEF ShownReadable
  <2>1. PICK i \in DOMAIN r.versions : s.out[k] = r.versions[i] /\ Shows(r.access, r.versions[i])
    BY <1>13
  <2>2. r.versions # <<>>
    BY <2>1
  <2>3. PICK pair \in was : r.access.fields = pair[1].fields /\ r.access.levels = Levels(pair[1], user, pair[2])
    BY <1>3, <2>2 DEF AccessIs
  <2> DEFINE c == s.out[k]
             access == r.access
  <2>4. Shows(access, c) /\ access.fields = pair[1].fields /\ access.levels = Levels(pair[1], user, pair[2])
    BY <2>1, <2>3
  <2> HIDE DEF c, access
  <2>5. /\ c.what # "changed" => MayReadField(pair, [table |-> "", name |-> c.table])
        /\ c.what = "changed" => MayReadField(pair, [table |-> "", name |-> c.field])
        /\ c.what = "row" => MayReadField(pair, [table |-> c.table, name |-> c.field])
    BY <1>3, <2>4, ShowsReads
  <2> QED
    BY <2>5 DEF c
<1>15. ~s.q.full /\ s.out # <<>> => "versions" \notin s.notes
  <2>1. ASSUME ~r.q.full, "versions" \in r.notes  PROVE  s.out = <<>>
    <3>1. DOMAIN r.versions = {}
      BY <1>3, <2>1
    <3>2. shown = <<>>
      <4>1. DOMAIN shown = {}
        BY <1>5, <3>1
      <4> QED
        BY <1>5, <4>1
    <3>3. out = <<>> /\ Len(out) = 0
      BY <3>2 DEF out
    <3>4. few = <<>>
      BY <1>9, <1>10, <3>3 DEF few
    <3> QED
      BY <1>8, <1>12, <2>1, <3>2, <3>4
  <2> QED
    BY <1>8, <2>1
<1>16. "versions" \notin s.notes =>
         Len(s.out) + Len(s.timeline) + Cardinality(s.links) + s.hidden + s.omitted =
           Len(Versions) + (IF s.q.timeline /\ "timeline" \notin s.notes THEN Len(Timeline) ELSE 0)
             + (IF s.q.links /\ "links" \notin s.notes THEN Cardinality(Linked) ELSE 0)
  <2> DEFINE tl == IF s.q.timeline /\ "timeline" \notin s.notes THEN Len(Timeline) ELSE 0
             ln == IF s.q.links /\ "links" \notin s.notes THEN Cardinality(Linked) ELSE 0
             a == Len(r.versions)
             b == Len(shown)
             c == Len(out)
             d == Len(lines)
             e == Len(r.timeline)
             f == Cardinality(r.links)
             g == Cardinality(kept)
             h == Cardinality(r.links \ kept)
             m == size(out)
             n == size(lines)
  <2>1. e = tl /\ f = ln
    <3>1. Len(<<>>) = 0 /\ Cardinality({}) = 0
      BY FS_EmptySet
    <3> QED
      BY <1>3, <1>8, <3>1
  <2>2. "versions" \notin s.notes => a = Len(Versions)
    BY <1>3, <1>8
  <2>3. a \in Nat /\ b \in Nat /\ c \in Nat /\ d \in Nat /\ e \in Nat
    BY <1>4, <1>5, <1>6, <1>9
  <2>4. f \in Nat /\ g \in Nat /\ h \in Nat /\ g + h = f
    <3>1. IsFiniteSet(kept) /\ IsFiniteSet(r.links \ kept) /\ r.links = kept \cup (r.links \ kept)
          /\ kept \cap (r.links \ kept) = {}
      BY <1>4, FS_Subset
    <3>2. Cardinality(kept \cup (r.links \ kept)) = g + h - Cardinality(kept \cap (r.links \ kept))
      BY <3>1, FS_Union
    <3>3. g \in Nat /\ h \in Nat /\ f = g + h - 0
      BY <3>1, <3>2, FS_CardinalityType, FS_EmptySet
    <3> HIDE DEF f, g, h
    <3> QED
      BY <3>3
  <2>5. m \in 0 .. c /\ n \in 0 .. d /\ Len(SubSeq(out, 1, m)) = m /\ Len(SubSeq(lines, d - n + 1, d)) = n
    BY <1>10, <1>11 DEF few, newest
  <2>6. /\ r.q.full => /\ Len(s.out) = Len(Versions) /\ s.hidden = 0 /\ s.omitted = 0 /\ Cardinality(s.links) = f
                       /\ Len(s.timeline) = e
        /\ ~r.q.mcp /\ ~r.q.full => Len(s.out) = b /\ s.hidden = a - b /\ s.omitted = 0 /\ Cardinality(s.links) = f /\ Len(s.timeline) = e
        /\ r.q.mcp => /\ Len(s.out) = m /\ s.hidden = (a - b) + (b - c) + (e - d) + h /\ Cardinality(s.links) = g
                      /\ Len(s.timeline) = n /\ s.omitted = (c - m) + (d - n)
    BY <1>8, <2>5
  <2>7. "versions" \notin s.notes =>
          Len(s.out) + Len(s.timeline) + Cardinality(s.links) + s.hidden + s.omitted = a + e + f
    <3>3. CASE r.q.full
      <4>1. a + e + f + 0 + 0 = a + e + f
        <5> HIDE DEF a, e, f
        <5> QED
          BY <2>3, <2>4
      <4> QED
        BY <2>2, <2>6, <3>3, <4>1
    <3>1. CASE ~r.q.mcp /\ ~r.q.full
      <4>1. b + e + f + (a - b) + 0 = a + e + f
        <5> HIDE DEF a, b, e, f
        <5> QED
          BY <2>3, <2>4
      <4> QED
        BY <2>6, <3>1, <4>1
    <3>2. CASE r.q.mcp /\ ~r.q.full
      <4>1. m + n + g + ((a - b) + (b - c) + (e - d) + h) + ((c - m) + (d - n)) = a + e + f
        <5>1. m \in Nat /\ n \in Nat
          BY <2>3, <2>5
        <5> HIDE DEF a, b, c, d, e, f, g, h, m, n
        <5> QED
          BY <2>3, <2>4, <5>1
      <4> QED
        BY <2>6, <3>2, <4>1
    <3> QED
      BY <1>2, <1>3, <3>1, <3>2, <3>3 DEF Contexts
  <2> HIDE DEF a, e, f
  <2> QED
    BY <2>1, <2>2, <2>7
<1>17. s.q.mcp =>
         /\ s.out # <<>> => "Version" \in MayRead
         /\ s.links \cup (UNION ToSet(s.timeline)) \cup s.sections \subseteq MayRead
  <2>1. SUFFICES ASSUME r.q.mcp
                 PROVE  /\ s.out # <<>> => "Version" \in MayRead
                        /\ s.links \cup (UNION ToSet(s.timeline)) \cup s.sections \subseteq MayRead
    BY <1>8
  <2>2. "Version" \notin MayRead => s.out = <<>>
    <3>1. ASSUME "Version" \notin MayRead  PROVE  s.out = <<>>
      <4>1. out = <<>> /\ Len(out) = 0
        BY <1>9, <3>1
      <4>2. few = <<>>
        BY <1>9, <1>10, <4>1 DEF few
      <4> QED
        BY <1>12, <2>1, <4>2
    <3> QED
      BY <3>1
  <2>3. \A k \in DOMAIN s.timeline : s.timeline[k] \subseteq MayRead
    <3>1. \A k \in DOMAIN s.timeline : \E i \in DOMAIN lines : s.timeline[k] = lines[i]
      BY <1>11, <1>12, <2>1
    <3> QED
      BY <1>6, <3>1
  <2>4. UNION ToSet(s.timeline) \subseteq MayRead
    BY <2>3 DEF ToSet
  <2> QED
    BY <1>8, <2>1, <2>2, <2>4
<1>18. ShownCounted(s)
  BY <1>15, <1>16, <1>17 DEF ShownCounted
<1>19. ViewGood(view[v])'
  <2>1. (ShownReadable(view[v]) /\ ShownCounted(view[v]))'
    BY <1>1, <1>14, <1>18, ShownStays DEF s
  <2>2. view'[v].q \in Contexts /\ DOMAIN view'[v] = ViewFields /\ view'[v].at = "over" /\ view'[v].exit = "ok"
    BY <1>3, <1>8 DEF s
  <2> QED
    BY <2>1, <2>2 DEF ViewGood, IsView
<1> QED
  BY <1>1, <1>7, <1>19, ViewMoves

-----------------------------------------------------------------------------
(***************************************************************************)
(* can.                                                                    *)
(***************************************************************************)
LEMMA CanUserKeeps ==
  ASSUME RightsInv, NEW v \in Viewers, CanUser(v)
  PROVE  RightsInv'
<1> DEFINE r == view[v]
           s == view'[v]
<1>1. r.at = "who" /\ OnlyView /\ r.at \in CanSteps /\ r.at # "idle"
  BY DEF CanUser, ViewAt, CanSteps
<1>2. Asking(r) /\ IsView(r) /\ DOMAIN view = Viewers /\ user \in {"Administrator", "user", "Guest"}
  BY <1>1, ViewIs
<1>3. r.q \in Cans /\ r.exit = "none" /\ DOMAIN r = ViewFields
  BY <1>2 DEF Asking, IsView
<1>4. CASE ViewEnds(v, "failed")
  BY <1>1, <1>4, ViewFails
<1>5. CASE /\ user = "Administrator"
           /\ view' = [view EXCEPT ![v].at = "over", ![v].exit = "ok", ![v].out = [allowed |-> TRUE, ownerOnly |-> FALSE]]
  <2>1. /\ DOMAIN view' = Viewers /\ (\A w \in Viewers \ {v} : view'[w] = view[w])
        /\ DOMAIN s = ViewFields /\ s.at = "over" /\ s.exit = "ok" /\ s.q = r.q
        /\ s.out = [allowed |-> TRUE, ownerOnly |-> FALSE]
    BY <1>2, <1>3, <1>5 DEF ViewFields
  <2>2. AnswerRight(view[v])'
    BY <1>1, <1>5, <2>1 DEF AnswerRight, MayDo, OnlyView
  <2>3. ViewGood(view[v])'
    BY <1>3, <2>1, <2>2 DEF ViewGood, IsView
  <2> QED
    BY <1>1, <2>1, <2>3, ViewMoves
<1>6. CASE user = "Guest" /\ view' = [view EXCEPT ![v].have = {"Guest"}, ![v].at = "can"]
  <2>1. /\ DOMAIN view' = Viewers /\ (\A w \in Viewers \ {v} : view'[w] = view[w])
        /\ DOMAIN s = ViewFields /\ s.at = "can" /\ s.exit = "none" /\ s.q = r.q /\ s.have = {"Guest"}
    BY <1>2, <1>3, <1>6 DEF ViewFields
  <2>2. Asking(view[v])'
    BY <1>1, <1>3, <1>6, <2>1 DEF Asking, OnlyView, Has
  <2>3. ViewGood(view[v])'
    BY <1>3, <2>1, <2>2 DEF ViewGood, IsView, CanSteps
  <2> QED
    BY <1>1, <2>1, <2>3, ViewMoves
<1>7. CASE user = "user" /\ ViewTo(v, "has")
  <2>1. /\ DOMAIN view' = Viewers /\ (\A w \in Viewers \ {v} : view'[w] = view[w])
        /\ DOMAIN s = ViewFields /\ s.at = "has" /\ s.exit = "none" /\ s.q = r.q /\ s.desk = r.desk
    BY <1>2, <1>3, <1>7 DEF ViewFields, ViewTo
  <2>2. Asking(view[v])'
    BY <1>1, <1>2, <1>3, <1>7, <2>1 DEF Asking, OnlyView
  <2>3. ViewGood(view[v])'
    BY <1>3, <2>1, <2>2 DEF ViewGood, IsView, CanSteps
  <2> QED
    BY <1>1, <2>1, <2>3, ViewMoves
<1> QED
  BY <1>4, <1>5, <1>6, <1>7 DEF CanUser

LEMMA CanRolesKeeps ==
  ASSUME RightsInv, NEW v \in Viewers, CanRoles(v)
  PROVE  RightsInv'
<1> DEFINE r == view[v]
           s == view'[v]
<1>1. r.at = "has" /\ OnlyView /\ r.at \in CanSteps /\ r.at # "idle"
  BY DEF CanRoles, ViewAt, CanSteps
<1>2. Asking(r) /\ IsView(r) /\ DOMAIN view = Viewers
  BY <1>1, ViewIs
<1>3. r.q \in Cans /\ r.exit = "none" /\ DOMAIN r = ViewFields /\ user = "user" /\ r.desk = "no"
  BY <1>1, <1>2 DEF Asking, IsView
<1>4. CASE ViewEnds(v, "failed")
  BY <1>1, <1>4, ViewFails
<1>5. CASE view' = [view EXCEPT ![v].have = roles \cup {"All", "Guest"}, ![v].at = "type"]
  <2>1. /\ DOMAIN view' = Viewers /\ (\A w \in Viewers \ {v} : view'[w] = view[w])
        /\ DOMAIN s = ViewFields /\ s.at = "type" /\ s.exit = "none" /\ s.q = r.q /\ s.desk = "no"
        /\ s.have = roles \cup {"All", "Guest"}
    BY <1>2, <1>3, <1>5 DEF ViewFields
  <2>2. Asking(view[v])'
    BY <1>1, <1>3, <2>1 DEF Asking, OnlyView
  <2>3. ViewGood(view[v])'
    BY <1>3, <2>1, <2>2 DEF ViewGood, IsView, CanSteps
  <2> QED
    BY <1>1, <2>1, <2>3, ViewMoves
<1> QED
  BY <1>4, <1>5 DEF CanRoles

LEMMA IsSystemUserKeeps ==
  ASSUME RightsInv, NEW v \in Viewers, IsSystemUser(v)
  PROVE  RightsInv'
<1> DEFINE r == view[v]
           s == view'[v]
<1>1. r.at = "type" /\ OnlyView /\ r.at \in CanSteps /\ r.at # "idle"
  BY DEF IsSystemUser, ViewAt, CanSteps
<1>2. Asking(r) /\ IsView(r) /\ DOMAIN view = Viewers
  BY <1>1, ViewIs
<1>3. /\ r.q \in Cans /\ r.exit = "none" /\ DOMAIN r = ViewFields /\ user = "user" /\ r.desk = "no"
      /\ changed = {} => r.have = roles \cup {"All", "Guest"}
  BY <1>1, <1>2 DEF Asking, IsView
<1>4. /\ DOMAIN view' = Viewers /\ (\A w \in Viewers \ {v} : view'[w] = view[w])
      /\ DOMAIN s = ViewFields /\ s.at = "can" /\ s.exit = "none" /\ s.q = r.q
      /\ \/ s.have = IF system THEN r.have \cup {"Desk User"} ELSE r.have
         \/ s.desk = "unknown" /\ s.have = r.have
  <2> DEFINE have == IF system THEN r.have \cup {"Desk User"} ELSE r.have
  <2>1. \/ view' = [view EXCEPT ![v] = [r EXCEPT !.have = have, !.at = "can"]]
        \/ view' = [view EXCEPT ![v] = [r EXCEPT !.desk = "unknown", !.at = "can"]]
    BY <1>2 DEF IsSystemUser
  <2> HIDE DEF have, r
  <2>2. CASE view' = [view EXCEPT ![v] = [r EXCEPT !.have = have, !.at = "can"]]
    BY <1>2, <1>3, <2>2 DEF ViewFields, have
  <2>3. CASE view' = [view EXCEPT ![v] = [r EXCEPT !.desk = "unknown", !.at = "can"]]
    BY <1>2, <1>3, <2>3 DEF ViewFields
  <2> QED
    BY <2>1, <2>2, <2>3
<1>5. changed = {} =>
        LET has == Has(user, roles, system) IN has = s.have \/ (s.desk = "unknown" /\ has = s.have \cup {"Desk User"})
  <2>1. Has(user, roles, system) = roles \cup {"All", "Guest"} \cup IF system THEN {"Desk User"} ELSE {}
    BY <1>3 DEF Has
  <2> QED
    BY <1>3, <1>4, <2>1
<1>6. Asking(view[v])'
  BY <1>1, <1>3, <1>4, <1>5 DEF Asking, OnlyView
<1>7. ViewGood(view[v])'
  BY <1>3, <1>4, <1>6 DEF ViewGood, IsView, CanSteps
<1> QED
  BY <1>1, <1>4, <1>7, ViewMoves

LEMMA CanKeeps ==
  ASSUME RightsInv, NEW v \in Viewers, Can(v)
  PROVE  RightsInv'
<1> DEFINE r == view[v]
           s == view'[v]
           out == EvalDocTypePermission(meta, r.have, r.q.right)
           with == EvalDocTypePermission(meta, r.have \cup {"Desk User"}, r.q.right)
           notes == IF r.desk = "unknown" /\ with # out THEN {"desk"} ELSE {}
<1>1. r.at = "can" /\ OnlyView /\ r.at \in CanSteps /\ r.at # "idle"
  BY DEF Can, ViewAt, CanSteps
<1>2. Asking(r) /\ IsView(r) /\ DOMAIN view = Viewers
  BY <1>1, ViewIs
<1>3. /\ r.q \in Cans /\ r.q.right \in Rights /\ DOMAIN r = ViewFields /\ user # "Administrator"
      /\ changed = {} => \/ Has(user, roles, system) = r.have
                         \/ r.desk = "unknown" /\ Has(user, roles, system) = r.have \cup {"Desk User"}
  BY <1>1, <1>2 DEF Asking, IsView, Cans
<1>4. CASE ViewEnds(v, "failed")
  BY <1>1, <1>4, ViewFails
<1>5. CASE view' = [view EXCEPT ![v] = CanAnswer(v)]
  <2>1. CanAnswer(v) = [r EXCEPT !.at = "over", !.exit = "ok", !.out = out, !.notes = notes]
    BY DEF CanAnswer
  <2>2. changed = {} /\ notes = {} => out = EvalDocTypePermission(meta, Has(user, roles, system), r.q.right)
    BY <1>3
  <2> HIDE DEF out, notes
  <2>3. /\ DOMAIN view' = Viewers /\ (\A w \in Viewers \ {v} : view'[w] = view[w])
        /\ DOMAIN s = ViewFields /\ s.at = "over" /\ s.exit = "ok" /\ s.q = r.q /\ s.out = out /\ s.notes = notes
    BY <1>2, <1>3, <1>5, <2>1 DEF ViewFields
  <2>4. changed = {} /\ notes = {} =>
          /\ out.ownerOnly => MayDo(r.q.right, FALSE)
          /\ out.allowed /\ ~out.ownerOnly => MayDo(r.q.right, r.q.right # "create")
          /\ ~out.allowed => ~MayDo(r.q.right, ~out.ownerOnly \/ r.q.right # "create")
          /\ ~out.allowed /\ ~out.ownerOnly => ~MayDo(r.q.right, FALSE)
    BY <1>3, <2>2, EvalIsRight
  <2>5. (changed = {} /\ view[v].notes = {} => AnswerRight(view[v]))'
    <3>1. \A right, others : MayDo(right, others)' <=> MayDo(right, others)
      BY <1>1 DEF MayDo, OnlyView
    <3> QED
      BY <1>1, <2>3, <2>4, <3>1 DEF AnswerRight, OnlyView
  <2>6. ViewGood(view[v])'
    BY <1>3, <2>3, <2>5 DEF ViewGood, IsView
  <2> QED
    BY <1>1, <2>3, <2>6, ViewMoves
<1> QED
  BY <1>4, <1>5 DEF Can

-----------------------------------------------------------------------------
LEMMA RightsInvInit == ContextInit => RightsInv
BY DEF ContextInit, RightsInv, ContextTypes, ViewGood

LEMMA RightsInvStep == RightsInv /\ [ContextNext]_contextVars => RightsInv'
<1> SUFFICES ASSUME RightsInv, [ContextNext]_contextVars  PROVE  RightsInv'
  OBVIOUS
<1>1. ASSUME ChangeMeta \/ ChangeRoles  PROVE  RightsInv'
  BY <1>1, ChangeKeeps
<1>2. ASSUME NEW v \in Viewers, NEW q \in Views[v], StartView(v, q)  PROVE  RightsInv'
  BY <1>2, StartViewKeeps
<1>3. ASSUME NEW v \in Viewers, FetchDocinfo(v) \/ AccessUser(v) \/ AccessMeta(v) \/ AccessRoles(v)  PROVE  RightsInv'
  BY <1>3, FetchDocinfoKeeps, AccessUserKeeps, AccessMetaKeeps, AccessRolesKeeps
<1>4. ASSUME NEW v \in Viewers, LinkCounts(v) \/ ActivityTimeline(v) \/ CompactDocContext(v)  PROVE  RightsInv'
  BY <1>4, LinkCountsKeeps, ActivityTimelineKeeps, CompactDocContextKeeps
<1>5. ASSUME NEW v \in Viewers, CanUser(v) \/ CanRoles(v) \/ IsSystemUser(v) \/ Can(v)  PROVE  RightsInv'
  BY <1>5, CanUserKeeps, CanRolesKeeps, IsSystemUserKeeps, CanKeeps
<1>6. CASE UNCHANGED contextVars
  <2>1. OnlyView /\ view' = view
    BY <1>6 DEF contextVars, OnlyView
  <2>2. ContextTypes'
    BY <2>1 DEF RightsInv, ContextTypes, OnlyView
  <2>3. ASSUME NEW v \in Viewers  PROVE  ViewGood(view[v])'
    BY <2>1, ViewStays DEF RightsInv
  <2> QED
    BY <2>2, <2>3 DEF RightsInv
<1> QED
  BY <1>1, <1>2, <1>3, <1>4, <1>5, <1>6 DEF ContextNext

LEMMA RightsInvSays == RightsInv => RightsAreKept
<1> SUFFICES ASSUME RightsInv  PROVE  RightsAreKept
  OBVIOUS
<1>1. ASSUME NEW v \in Viewers, ViewShown(v, "context")  PROVE  ShownReadable(view[v]) /\ ShownCounted(view[v])
  <2>1. view[v].at = "over" /\ view[v].exit = "ok" /\ view[v].q \notin Cans
    BY <1>1 DEF ViewShown, ViewAt, Cans
  <2> QED
    BY <2>1 DEF RightsInv, ViewGood, ContextSteps, CanSteps
<1>2. ASSUME NEW v \in Viewers, ViewShown(v, "can"), changed = {}, view[v].notes = {}  PROVE  AnswerRight(view[v])
  <2>1. view[v].at = "over" /\ view[v].exit = "ok" /\ view[v].q \notin Contexts
    BY <1>2 DEF ViewShown, ViewAt, Contexts
  <2> QED
    BY <1>2, <2>1 DEF RightsInv, ViewGood, ContextSteps, CanSteps
<1>3. ContextIsReadable
  BY <1>1 DEF ContextIsReadable, ShownReadable, ShownCounted
<1>4. CanIsRight
  BY <1>2 DEF CanIsRight, AnswerRight
<1> QED
  BY <1>3, <1>4 DEF RightsAreKept

\* doc-info and get_doc_context show no change that the user could not read
\* and count what they leave out, and can is right of a user whose rights
\* nobody changes, for any DocType, roles, history, commands and rules
\* (doc_info.go, fetchDocContext; fieldaccess.go, ReadableFields; server.go,
\* DocTypePermission).
THEOREM RightsKept == ContextSpec => []RightsAreKept
BY RightsInvInit, RightsInvStep, RightsInvSays, PTL DEF ContextSpec

-----------------------------------------------------------------------------
(***************************************************************************)
(* The groups of a site in their order, and a page of them.                *)
(***************************************************************************)
GroupCount == Cardinality(Groups)
InOrderTo(k) == [i \in 1..k |-> Ascending(Groups)[i]]
LastBack(k)  == [i \in 1..k |-> Ascending(Groups)[GroupCount - i + 1]]

LEMMA GroupsInOrder ==
  /\ GroupCount \in Nat /\ Ascending(Groups) \in [1..GroupCount -> Nat]
  /\ Len(Ascending(Groups)) = GroupCount
  /\ \A i, j \in 1..GroupCount : i < j => Ascending(Groups)[i] < Ascending(Groups)[j]
<1>1. GroupCount \in Nat /\ Ascending(Groups) \in [1..GroupCount -> Groups]
  BY GroupsAre, AscendingIsOf DEF GroupCount
<1>2. Ascending(Groups) \in [1..GroupCount -> Nat]
  BY <1>1, GroupsAre
<1> QED
  BY <1>1, <1>2, GroupsAre, AscendingRises DEF GroupCount

\* Of n groups asked for, and all for 0, so many there are.
PageSize(n) == IF n = 0 \/ n > GroupCount THEN GroupCount ELSE n

LEMMA PageIs ==
  ASSUME NEW n \in Nat
  PROVE  /\ PageSize(n) \in 0..GroupCount
         /\ PageOf(n) \in {InOrderTo(PageSize(n)), LastBack(PageSize(n))}
<1> DEFINE all == Ascending(Groups)
           k == IF n = 0 THEN Len(all) ELSE Min({n, Len(all)})
<1>1. GroupCount \in Nat /\ all \in [1..GroupCount -> Nat] /\ Len(all) = GroupCount
  BY GroupsInOrder
<1>2. k = PageSize(n) /\ k \in 0..GroupCount
  BY <1>1, LeastOfTwo DEF PageSize
<1> HIDE DEF k
<1>3. SubSeq(all, 1, k) = [i \in 1..k |-> all[i]]
  BY <1>1, <1>2
<1>4. Reverse(SubSeq(all, Len(all) - k + 1, Len(all))) = [i \in 1..k |-> all[GroupCount - i + 1]]
  <2> DEFINE back == SubSeq(all, Len(all) - k + 1, Len(all))
             c == GroupCount
  <2>1. c \in Nat /\ k \in 0..c /\ Len(all) = c /\ all \in [1..c -> Nat]
    BY <1>1, <1>2
  <2> HIDE DEF c, all
  <2>2. Len(back) = k /\ \A i \in 1..k : back[i] = all[c - k + i]
    BY <2>1
  <2> HIDE DEF back
  <2>3. ASSUME NEW i \in 1..k PROVE back[(k - i) + 1] = all[c - i + 1]
    <3>1. (k - i) + 1 \in 1..k /\ c - k + ((k - i) + 1) = c - i + 1
      BY <2>1
    <3> QED
      BY <2>2, <3>1
  <2>4. Reverse(back) = [i \in 1..k |-> all[c - i + 1]]
    BY <2>2, <2>3 DEF Reverse
  <2> QED
    BY <2>4 DEF back, c
<1>5. PageOf(n) = IF unordered THEN Reverse(SubSeq(all, Len(all) - k + 1, Len(all))) ELSE SubSeq(all, 1, k)
  BY DEF PageOf, k
<1> QED
  BY <1>2, <1>3, <1>4, <1>5 DEF InOrderTo, LastBack

LEMMA PageLen ==
  ASSUME NEW k \in 0..GroupCount, NEW rows \in {InOrderTo(k), LastBack(k)}
  PROVE  Len(rows) = k /\ DOMAIN rows = 1..k
<1>1. k \in Nat
  BY GroupsInOrder
<1> QED
  BY <1>1 DEF InOrderTo, LastBack

\* A page in the order of the site is in order, and so is all there is.
LEMMA PageSorted ==
  ASSUME NEW k \in 0..GroupCount, NEW rows \in {InOrderTo(k), LastBack(k)},
         rows = InOrderTo(k) \/ k = GroupCount
  PROVE  Ascending(ToSet(rows)) = InOrderTo(k)
<1>1. k \in Nat /\ GroupCount \in Nat /\ k <= GroupCount
  BY GroupsInOrder
<1>2. InOrderTo(k) \in [1..k -> Nat]
  BY <1>1, GroupsInOrder DEF InOrderTo
<1>3. ASSUME NEW i \in 1..k, NEW j \in 1..k, i < j PROVE InOrderTo(k)[i] < InOrderTo(k)[j]
  <2>1. i \in 1..GroupCount /\ j \in 1..GroupCount
    BY <1>1
  <2> QED
    BY <1>3, <2>1, GroupsInOrder DEF InOrderTo
<1>4. Ascending({InOrderTo(k)[i] : i \in 1..k}) = InOrderTo(k)
  BY <1>1, <1>2, <1>3, RisingIsAscending
<1>5. ToSet(rows) = {InOrderTo(k)[i] : i \in 1..k}
  <2>1. DOMAIN rows = 1..k
    BY PageLen
  <2>2. CASE rows = InOrderTo(k)
    BY <2>1, <2>2 DEF ToSet
  <2>3. CASE rows = LastBack(k) /\ k = GroupCount
    <3>1. ASSUME NEW i \in 1..k
          PROVE  k - i + 1 \in 1..k /\ rows[i] = InOrderTo(k)[k - i + 1] /\ InOrderTo(k)[i] = rows[k - i + 1]
      <4>1. k - i + 1 \in 1..k /\ k - (k - i + 1) + 1 = i
        BY <1>1
      <4> QED
        BY <1>1, <2>3, <4>1 DEF LastBack, InOrderTo
    <3>2. {rows[i] : i \in 1..k} = {InOrderTo(k)[i] : i \in 1..k}
      BY <3>1
    <3> QED
      BY <2>1, <3>2 DEF ToSet
  <2> QED
    BY <2>2, <2>3
<1> QED
  BY <1>4, <1>5

\* Cut to as many as were asked for, it is the top groups.
LEMMA CutIsTop ==
  ASSUME NEW q \in Queries, NEW k \in 0..GroupCount, NEW rows \in {InOrderTo(k), LastBack(k)},
         rows = InOrderTo(k) \/ k = GroupCount,
         k = GroupCount \/ (q.limit > 0 /\ k > q.limit)
  PROVE  CutRows(q, rows, FALSE) = [is |-> "groups", rows |-> TopGroups(q.limit),
                                    truncated |-> q.limit > 0 /\ GroupCount > q.limit, warning |-> FALSE]
<1> DEFINE sorted == Ascending(ToSet(rows))
           more == q.limit > 0 /\ Len(sorted) > q.limit
           c == GroupCount
           l == q.limit
           all == Ascending(Groups)
<1>1. sorted = InOrderTo(k)
  BY PageSorted
<1>2. c \in Nat /\ k \in Nat /\ k <= c /\ l \in Nat /\ Len(sorted) = k
  BY <1>1, GroupsInOrder, PageLen, CapsAre DEF Queries
<1>3. all \in [1..c -> Nat] /\ Len(all) = c
  BY GroupsInOrder
<1>4. CutRows(q, rows, FALSE) =
        [is |-> "groups", rows |-> IF more THEN SubSeq(sorted, 1, l) ELSE sorted, truncated |-> more, warning |-> FALSE]
  BY DEF CutRows
<1>5. TopGroups(l) = SubSeq(all, 1, IF l = 0 THEN c ELSE Min({l, c}))
  BY DEF TopGroups, GroupCount
<1>6. more = (l > 0 /\ c > l)
  BY <1>2
<1>7. (IF more THEN SubSeq(sorted, 1, l) ELSE sorted) = TopGroups(l)
  <2>0. sorted = [i \in 1..k |-> all[i]]
    BY <1>1 DEF InOrderTo
  <2> HIDE DEF sorted, all, c, l
  <2>1. CASE l > 0 /\ c > l
    <3>1. TopGroups(l) = SubSeq(all, 1, l) /\ l <= k /\ k > l
      BY <1>2, <1>5, <2>1, LeastOfTwo DEF l, c
    <3>2. SubSeq(sorted, 1, l) = [i \in 1..l |-> sorted[i]]
      BY <1>2, <2>0, <3>1
    <3>3. SubSeq(all, 1, l) = [i \in 1..l |-> all[i]]
      BY <1>2, <1>3, <3>1
    <3>4. \A i \in 1..l : sorted[i] = all[i]
      BY <1>2, <2>0, <3>1
    <3> QED
      BY <1>6, <2>1, <3>1, <3>2, <3>3, <3>4
  <2>2. CASE ~(l > 0 /\ c > l)
    <3>1. k = c
      BY <1>2, <2>2 DEF l, c
    <3>2. TopGroups(l) = SubSeq(all, 1, c)
      BY <1>2, <1>5, <2>2, LeastOfTwo
    <3>3. SubSeq(all, 1, c) = [i \in 1..c |-> all[i]]
      BY <1>2, <1>3
    <3> QED
      BY <1>6, <2>0, <2>2, <3>1, <3>2, <3>3
  <2> QED
    BY <2>1, <2>2
<1> HIDE DEF more, sorted
<1>8. (IF more THEN SubSeq(sorted, 1, l) ELSE sorted) = TopGroups(l) /\ more = (l > 0 /\ c > l)
  BY <1>6, <1>7 DEF more, sorted
<1> QED
  BY <1>4, <1>8

-----------------------------------------------------------------------------
(***************************************************************************)
(* Aggregates: the inductive invariant.                                    *)
(***************************************************************************)
Syntaxes == {Dict, Str}

\* A query that the site, as it is now, has taken or will take in a syntax,
\* unless it was upgraded since the command began.
Speaks(r) == r.syntax = SyntaxFor(major) \/ r.began # major
Answerable(q) == ~q.hidden /\ q.wrong = "no"

Steps == {"user", "versions", "keep", "access", "version", "ask", "other", "probe", "all"}
AskerFields == {"at", "q", "syntax", "known", "read", "why", "rows", "began"}

\* What a command under way holds: why the site refused the first syntax; a
\* page of the groups, when it took one.
AskerIs(r) ==
  /\ r.q \in Queries \cup Whoamis
  /\ r.at \in {"access", "version", "ask", "other", "probe", "all"} => r.q \in Queries
  /\ r.at \in {"user", "versions"} => r.q \in Whoamis
  /\ r.syntax \in Syntaxes
  /\ r.at = "keep" => r.read \in {15, 16}
  /\ r.at = "other" =>
       /\ r.why \in {"syntax", "wrong"}
       /\ r.why = "syntax" => r.syntax # SyntaxFor(major) \/ r.began # major
       /\ r.why = "wrong" => r.q.wrong # "no"
  /\ r.at \in {"probe", "all"} => Answerable(r.q) /\ Speaks(r)
  /\ r.at = "probe" =>
       r.rows \in {InOrderTo(PageSize(Asked(r.q))), LastBack(PageSize(Asked(r.q)))}

ResultIsRight(r) ==
  r.q.cmd = "aggregate" =>
    /\ r.result.is = "groups" =>
         /\ Answerable(r.q)
         /\ IF r.result.warning THEN GroupCount > FetchCap
            ELSE /\ r.result.rows = TopGroups(r.q.limit)
                 /\ r.result.truncated = (r.q.limit > 0 /\ GroupCount > r.q.limit)
    /\ r.result.is = "error" =>
         \/ r.result.why = "down"
         \/ r.result.why = "unreadable" /\ r.q.hidden
         \/ r.result.why = "wrong" /\ r.q.wrong # "no"
         \/ r.result.why = "syntax" /\ (r.began # major \/ r.q.wrong = "417")

AskerInv(r) ==
  /\ r.at \in Steps \cup {"idle", "over"}
  /\ r.at # "idle" => r.began \in {15, 16} /\ r.began <= major
  /\ r.at \in Steps => DOMAIN r = AskerFields /\ AskerIs(r)
  /\ r.at = "over" => ResultIsRight(r)

AggInv ==
  /\ major \in {15, 16}
  /\ cache \in {NoCache, Old, 15, 16}
  /\ DOMAIN asker = Askers
  /\ \A a \in Askers : AskerInv(asker[a])

\* An upgrade leaves what an asker knows true: the command began before it.
LEMMA UpgradeKeeps ==
  ASSUME AggInv, UpgradeSite
  PROVE  AggInv'
<1>1. major = 15 /\ major' = 16 /\ asker' = asker /\ cache' = cache
  BY DEF UpgradeSite
<1>2. ASSUME NEW a \in Askers PROVE AskerInv(asker[a])'
  <2>1. AskerInv(asker[a])
    BY DEF AggInv
  <2>2. asker[a].at # "idle" => asker[a].began = 15
    BY <1>1, <2>1 DEF AskerInv
  <2>3. asker'[a] = asker[a]
    BY <1>1
  <2> QED
    BY <1>1, <2>1, <2>2, <2>3 DEF AskerInv, AskerIs, ResultIsRight, Speaks, Answerable
<1> QED
  BY <1>1, <1>2 DEF AggInv

\* A step of a command: the site is as it was, and so are the others.
LEMMA AskerSteps ==
  ASSUME AggInv, NEW a \in Askers, NEW r, SameSite,
         asker' = [asker EXCEPT ![a] = r], AskerInv(r), cache' \in {NoCache, Old, 15, 16}
  PROVE  AggInv'
<1>1. major' = major
  BY DEF SameSite
<1>2. ASSUME NEW b \in Askers PROVE AskerInv(asker[b])'
  <2>1. AskerInv(asker[b]) /\ asker'[b] \in {asker[b], r}
    BY DEF AggInv
  <2>2. AskerInv(asker'[b])
    BY <2>1
  <2> QED
    BY <1>1, <2>2 DEF AskerInv, AskerIs, ResultIsRight, Speaks, Answerable
<1> QED
  BY <1>1, <1>2 DEF AggInv

\* The command ends; or goes on with what it holds.
LEMMA AskerEnds ==
  ASSUME AggInv, NEW a \in Askers, NEW result, Says(a, result), SameSite, asker[a].at \in Steps,
         cache' \in {NoCache, Old, 15, 16},
         ResultIsRight([at |-> "over", q |-> asker[a].q, began |-> asker[a].began, result |-> result])
  PROVE  AggInv'
<1> DEFINE r == [at |-> "over", q |-> asker[a].q, began |-> asker[a].began, result |-> result]
<1>1. asker' = [asker EXCEPT ![a] = r]
  BY DEF Says, AggInv
<1>2. AskerInv(asker[a])
  BY DEF AggInv
<1>3. AskerInv(r)
  BY <1>2 DEF AskerInv, Steps
<1> HIDE DEF r
<1> QED
  BY <1>1, <1>3, AskerSteps

LEMMA AskerFails ==
  ASSUME AggInv, NEW a \in Askers, NEW why, Fails(a, why), SameSite, asker[a].at \in Steps,
         cache' \in {NoCache, Old, 15, 16},
         asker[a].q.cmd = "aggregate" =>
           \/ why = "down"
           \/ why = "unreadable" /\ asker[a].q.hidden
           \/ why = "wrong" /\ asker[a].q.wrong # "no"
           \/ why = "syntax" /\ (asker[a].began # major \/ asker[a].q.wrong = "417")
  PROVE  AggInv'
<1> DEFINE result == [is |-> "error", why |-> why]
<1>1. Says(a, result)
  BY DEF Fails
<1>2. ResultIsRight([at |-> "over", q |-> asker[a].q, began |-> asker[a].began, result |-> result])
  BY DEF ResultIsRight
<1> HIDE DEF result
<1> QED
  BY <1>1, <1>2, AskerEnds

LEMMA AskerGoes ==
  ASSUME AggInv, NEW a \in Askers, NEW to \in Steps, asker[a].at \in Steps, SameSite,
         asker' = [asker EXCEPT ![a].at = to], cache' \in {NoCache, Old, 15, 16},
         AskerIs([asker[a] EXCEPT !.at = to])
  PROVE  AggInv'
<1> DEFINE r == [asker[a] EXCEPT !.at = to]
<1>1. asker' = [asker EXCEPT ![a] = r]
  BY DEF AggInv
<1>2. AskerInv(asker[a]) /\ DOMAIN asker[a] = AskerFields
  BY DEF AggInv, AskerInv
<1>3. r.at = to /\ r.began = asker[a].began /\ DOMAIN r = AskerFields
  BY <1>2 DEF AskerFields
<1> HIDE DEF r
<1>4. AskerIs(r)
  BY DEF r
<1>5. AskerInv(r)
  BY <1>2, <1>3, <1>4 DEF AskerInv, Steps
<1> QED
  BY <1>1, <1>5, AskerSteps

LEMMA AskerHas ==
  ASSUME AggInv, NEW a \in Askers
  PROVE  /\ AskerInv(asker[a]) /\ DOMAIN asker = Askers
         /\ asker[a].at \in Steps => DOMAIN asker[a] = AskerFields /\ AskerIs(asker[a])
         /\ major \in {15, 16} /\ cache \in {NoCache, Old, 15, 16}
BY DEF AggInv, AskerInv

LEMMA QueriesDiffer ==
  /\ \A q \in Queries : q.cmd = "aggregate" /\ q.limit \in Nat /\ q.hidden \in BOOLEAN /\ q.wrong \in {"no", "417", "other"}
  /\ \A q \in Whoamis : q.cmd = "whoami"
BY CapsAre DEF Queries, Whoamis

LEMMA StartAskerKeeps ==
  ASSUME AggInv, NEW a \in Askers, NEW q \in Questions[a], StartAsker(a, q)
  PROVE  AggInv'
<1> DEFINE r == [at |-> IF q.cmd = "whoami" THEN "user" ELSE "access", q |-> q,
                 syntax |-> Dict, known |-> FALSE, read |-> 0, why |-> "none", rows |-> <<>>, began |-> major]
<1>1. asker' = [asker EXCEPT ![a] = r] /\ SameSite /\ cache' = cache
  BY DEF StartAsker
<1>2. q \in Queries \cup Whoamis /\ major \in {15, 16} /\ cache \in {NoCache, Old, 15, 16}
  BY QuestionsAre DEF AggInv
<1>3. AskerIs(r)
  BY <1>2, QueriesDiffer DEF AskerIs, Syntaxes
<1>4. AskerInv(r)
  BY <1>2, <1>3 DEF AskerInv, Steps, AskerFields
<1> HIDE DEF r
<1> QED
  BY <1>1, <1>2, <1>4, AskerSteps

LEMMA CheckReadableKeeps ==
  ASSUME AggInv, NEW a \in Askers, CheckReadable(a)
  PROVE  AggInv'
<1>1. asker[a].at = "access" /\ "access" \in Steps /\ "version" \in Steps /\ SameSite /\ cache' = cache
  BY DEF CheckReadable, AskerAt, Steps
<1>2. AskerIs(asker[a]) /\ DOMAIN asker[a] = AskerFields /\ cache \in {NoCache, Old, 15, 16}
  BY <1>1, AskerHas
<1>3. CASE asker[a].q.hidden /\ Fails(a, "unreadable")
  BY <1>1, <1>2, <1>3, AskerFails
<1>4. CASE AskerTo(a, "version")
  <2>1. AskerIs([asker[a] EXCEPT !.at = "version"])
    BY <1>1, <1>2 DEF AskerIs, AskerFields
  <2> QED
    BY <1>1, <1>2, <1>4, <2>1, AskerGoes DEF AskerTo
<1> QED
  BY <1>3, <1>4 DEF CheckReadable

\* With a version read, from the cache or the site, it asks in its syntax.
LEMMA AskerAsks ==
  ASSUME AggInv, NEW a \in Askers, NEW known, NEW syntax \in Syntaxes, SameSite,
         asker[a].at \in Steps, asker[a].q \in Queries, cache' \in {NoCache, Old, 15, 16},
         asker' = [asker EXCEPT ![a].at = "ask", ![a].known = known, ![a].syntax = syntax]
  PROVE  AggInv'
<1> DEFINE r == [asker[a] EXCEPT !.at = "ask", !.known = known, !.syntax = syntax]
<1>1. asker' = [asker EXCEPT ![a] = r]
  BY DEF AggInv
<1>2. AskerInv(asker[a]) /\ DOMAIN asker[a] = AskerFields
  BY AskerHas
<1>3. AskerInv(r)
  BY <1>2 DEF AskerInv, AskerIs, Steps, AskerFields
<1> HIDE DEF r
<1> QED
  BY <1>1, <1>3, AskerSteps

LEMMA VersionsKeep ==
  ASSUME AggInv, NEW a \in Askers, SameSite, ServerVersions(a), asker[a].at \in Steps
  PROVE  AggInv'
<1> DEFINE r == [asker[a] EXCEPT !.at = "keep", !.read = major]
<1>1. asker' = [asker EXCEPT ![a] = r] /\ cache' = cache
  BY DEF AggInv, ServerVersions
<1>2. AskerInv(asker[a]) /\ DOMAIN asker[a] = AskerFields /\ AskerIs(asker[a]) /\ major \in {15, 16} /\ cache \in {NoCache, Old, 15, 16}
  BY AskerHas
<1>3. AskerInv(r)
  BY <1>2 DEF AskerInv, AskerIs, Steps, AskerFields
<1> HIDE DEF r
<1> QED
  BY <1>1, <1>2, <1>3, AskerSteps

LEMMA SyntaxIs == \A n : SyntaxFor(n) \in Syntaxes
BY DEF SyntaxFor, Syntaxes

LEMMA ServerInfoKeeps ==
  ASSUME AggInv, NEW a \in Askers, ServerInfo(a)
  PROVE  AggInv'
<1>1. asker[a].at = "version" /\ "version" \in Steps /\ "ask" \in Steps /\ SameSite
  BY DEF ServerInfo, AskerAt, Steps
<1>2. AskerIs(asker[a]) /\ DOMAIN asker[a] = AskerFields /\ cache \in {NoCache, Old, 15, 16} /\ asker[a].q \in Queries
  BY <1>1, AskerHas DEF AskerIs
<1>3. CASE /\ cache' = cache
           /\ asker' = [asker EXCEPT ![a].at = "ask", ![a].known = TRUE, ![a].syntax = SyntaxFor(cache)]
  BY <1>1, <1>2, <1>3, SyntaxIs, AskerAsks
<1>4. CASE ServerVersions(a)
  BY <1>1, <1>4, VersionsKeep
<1>5. CASE AskerTo(a, "ask") /\ NoVersions
  <2>1. AskerIs([asker[a] EXCEPT !.at = "ask"])
    BY <1>1, <1>2 DEF AskerIs, AskerFields
  <2> QED
    BY <1>1, <1>2, <1>5, <2>1, AskerGoes DEF AskerTo, NoVersions
<1> QED
  BY <1>3, <1>4, <1>5 DEF ServerInfo

LEMMA WriteServerCacheKeeps ==
  ASSUME AggInv, NEW a \in Askers, WriteServerCache(a)
  PROVE  AggInv'
<1>1. asker[a].at = "keep" /\ "keep" \in Steps /\ SameSite /\ cache' \in {cache, asker[a].read}
  BY DEF WriteServerCache, AskerAt, Steps
<1>2. AskerIs(asker[a]) /\ DOMAIN asker[a] = AskerFields /\ cache \in {NoCache, Old, 15, 16}
  BY <1>1, AskerHas
<1>3. cache' \in {NoCache, Old, 15, 16} /\ asker[a].q \in Queries \cup Whoamis
  BY <1>1, <1>2 DEF AskerIs
<1>4. CASE asker[a].q.cmd = "whoami" /\ Says(a, [is |-> "versions"])
  <2>1. ResultIsRight([at |-> "over", q |-> asker[a].q, began |-> asker[a].began, result |-> [is |-> "versions"]])
    BY DEF ResultIsRight
  <2> QED
    BY <1>1, <1>3, <1>4, <2>1, AskerEnds
<1>5. CASE /\ asker[a].q.cmd # "whoami"
           /\ asker' = [asker EXCEPT ![a].at = "ask", ![a].known = TRUE, ![a].syntax = SyntaxFor(asker[a].read)]
  <2>1. asker[a].q \in Queries
    BY <1>3, <1>5, QueriesDiffer
  <2> QED
    BY <1>1, <1>3, <1>5, <2>1, SyntaxIs, AskerAsks
<1> QED
  BY <1>4, <1>5 DEF WriteServerCache

LEMMA WhoamiUserKeeps ==
  ASSUME AggInv, NEW a \in Askers, WhoamiUser(a)
  PROVE  AggInv'
<1>1. asker[a].at = "user" /\ "user" \in Steps /\ "versions" \in Steps /\ SameSite
  BY DEF WhoamiUser, AskerAt, Steps
<1>2. AskerIs(asker[a]) /\ DOMAIN asker[a] = AskerFields /\ cache \in {NoCache, Old, 15, 16}
  BY <1>1, AskerHas
<1>3. CASE Fails(a, "down") /\ cache' \in {cache, NoCache}
  BY <1>1, <1>2, <1>3, AskerFails
<1>4. CASE AskerTo(a, "versions") /\ cache' = cache
  <2>1. AskerIs([asker[a] EXCEPT !.at = "versions"])
    BY <1>1, <1>2 DEF AskerIs, AskerFields
  <2> QED
    BY <1>1, <1>2, <1>4, <2>1, AskerGoes DEF AskerTo
<1> QED
  BY <1>3, <1>4 DEF WhoamiUser

LEMMA WhoamiVersionsKeeps ==
  ASSUME AggInv, NEW a \in Askers, WhoamiVersions(a)
  PROVE  AggInv'
<1>1. asker[a].at = "versions" /\ "versions" \in Steps /\ SameSite
  BY DEF WhoamiVersions, AskerAt, Steps
<1>2. AskerIs(asker[a]) /\ cache \in {NoCache, Old, 15, 16}
  BY <1>1, AskerHas
<1>3. \A is \in {"versions", "note"} :
        ResultIsRight([at |-> "over", q |-> asker[a].q, began |-> asker[a].began, result |-> [is |-> is]])
  BY DEF ResultIsRight
<1>4. CASE Says(a, [is |-> "versions"]) /\ cache' = cache
  BY <1>1, <1>2, <1>3, <1>4, AskerEnds
<1>5. CASE ServerVersions(a)
  BY <1>1, <1>5, VersionsKeep
<1>6. CASE Says(a, [is |-> "note"]) /\ NoVersions
  BY <1>1, <1>2, <1>3, <1>6, AskerEnds DEF NoVersions
<1> QED
  BY <1>4, <1>5, <1>6 DEF WhoamiVersions

\* What the site answers, and whether it looks like a refusal of the syntax.
LEMMA AnswerIs ==
  ASSUME NEW q \in Queries, NEW syntax \in Syntaxes
  PROVE  LET answer == SiteAnswer(q, syntax)
             about == ReadColumns(answer.about)
         IN  /\ \/ about = "syntax" /\ syntax # SyntaxFor(major) /\ SyntaxRejected(answer, syntax)
                \/ about = "wrong" /\ q.wrong # "no"
                \/ about = "unreadable" /\ q.hidden /\ ~SyntaxRejected(answer, syntax)
                \/ about = "rows" /\ Answerable(q) /\ syntax = SyntaxFor(major) /\ ~SyntaxRejected(answer, syntax)
             /\ SyntaxRejected(answer, syntax) =>
                  \/ answer.about = "syntax" /\ syntax # SyntaxFor(major)
                  \/ answer.about = "wrong" /\ q.wrong = "417"
<1>1. q.hidden \in BOOLEAN /\ q.wrong \in {"no", "417", "other"}
  BY QueriesDiffer
<1>2. CASE syntax # SyntaxFor(major)
  BY <1>1, <1>2 DEF SiteAnswer, ReadColumns, SyntaxRejected, Syntaxes, Dict, Str
<1>3. CASE syntax = SyntaxFor(major) /\ q.wrong # "no"
  <2>1. SiteAnswer(q, syntax) = [about |-> "wrong", status |-> q.wrong]
    BY <1>3 DEF SiteAnswer
  <2>2. ReadColumns(SiteAnswer(q, syntax).about) = "wrong" /\ SiteAnswer(q, syntax).about = "wrong"
    BY <2>1 DEF ReadColumns
  <2>3. SyntaxRejected(SiteAnswer(q, syntax), syntax) => q.wrong = "417"
    BY <1>1, <1>3, <2>1 DEF SyntaxRejected
  <2> QED
    BY <1>3, <2>2, <2>3
<1>4. CASE syntax = SyntaxFor(major) /\ q.wrong = "no" /\ q.hidden /\ major = 16
  BY <1>1, <1>4 DEF SiteAnswer, ReadColumns, SyntaxRejected, Syntaxes, Dict, Str
<1>5. CASE syntax = SyntaxFor(major) /\ q.wrong = "no" /\ q.hidden /\ major # 16
  BY <1>1, <1>5 DEF SiteAnswer, ReadColumns, SyntaxRejected, Syntaxes, Dict, Str
<1>6. CASE syntax = SyntaxFor(major) /\ q.wrong = "no" /\ ~q.hidden
  BY <1>1, <1>6 DEF SiteAnswer, ReadColumns, SyntaxRejected, Syntaxes, Dict, Str, Answerable
<1> QED
  BY <1>1, <1>2, <1>3, <1>4, <1>5, <1>6

LEMMA AskedIs ==
  ASSUME NEW q \in Queries
  PROVE  /\ Asked(q) \in Nat /\ (q.limit = 0 => Asked(q) = 0)
         /\ q.limit > 0 => Asked(q) > q.limit /\ Asked(q) >= 2
<1>1. q.limit \in Nat /\ ProbeRows \in Nat
  BY QueriesDiffer, CapsAre
<1>2. \A m, n \in Nat : Max({m, n}) = IF m >= n THEN m ELSE n
  BY DEF Max
<1>3. q.limit + 1 \in Nat
  BY <1>1
<1>4. Max({q.limit + 1, ProbeRows}) = IF q.limit + 1 >= ProbeRows THEN q.limit + 1 ELSE ProbeRows
  BY <1>1, <1>2, <1>3
<1> QED
  BY <1>1, <1>4 DEF Asked

LEMMA TakesRowsKeeps ==
  ASSUME AggInv, NEW a \in Askers, NEW syntax \in Syntaxes, SameSite,
         asker[a].at \in {"ask", "other"}, cache' \in {NoCache, Old, 15, 16},
         ~SyntaxRejected(SiteAnswer(asker[a].q, syntax), syntax),
         TakesRows(a, syntax, SiteAnswer(asker[a].q, syntax))
  PROVE  AggInv'
<1> DEFINE answer == SiteAnswer(asker[a].q, syntax)
           about == ReadColumns(answer.about)
           q == asker[a].q
           r == [asker[a] EXCEPT !.at = "probe", !.rows = PageOf(Asked(q)), !.syntax = syntax]
<1>1. asker[a].at \in Steps /\ AskerInv(asker[a]) /\ AskerIs(asker[a]) /\ DOMAIN asker[a] = AskerFields /\ DOMAIN asker = Askers
  BY AskerHas DEF Steps
<1>2. q \in Queries
  BY <1>1 DEF AskerIs
<1>3. \/ about = "wrong" /\ q.wrong # "no"
      \/ about = "unreadable" /\ q.hidden
      \/ about = "rows" /\ Answerable(q) /\ syntax = SyntaxFor(major)
  BY <1>2, AnswerIs
<1>4. CASE about # "rows"
  <2>1. Fails(a, about)
    BY <1>4 DEF TakesRows
  <2> HIDE DEF about
  <2> QED
    BY <1>1, <1>3, <1>4, <2>1, AskerFails
<1>5. CASE about = "rows"
  <2>1. asker' = [asker EXCEPT ![a] = r]
    BY <1>1, <1>5 DEF TakesRows
  <2>2. Asked(q) \in Nat
    BY <1>2, AskedIs
  <2>3. PageOf(Asked(q)) \in {InOrderTo(PageSize(Asked(q))), LastBack(PageSize(Asked(q)))}
    BY <2>2, PageIs
  <2>4. /\ r.at = "probe" /\ r.q = q /\ r.began = asker[a].began /\ DOMAIN r = AskerFields
        /\ r.syntax = syntax /\ r.rows = PageOf(Asked(q))
    BY <1>1 DEF AskerFields
  <2>5. Answerable(q) /\ syntax = SyntaxFor(major)
    BY <1>3, <1>5
  <2> HIDE DEF r
  <2>6. AskerIs(r)
    BY <1>2, <2>3, <2>4, <2>5 DEF AskerIs, Speaks
  <2>7. AskerInv(r)
    BY <1>1, <2>4, <2>6 DEF AskerInv, Steps
  <2> QED
    BY <2>1, <2>7, AskerSteps
<1> QED
  BY <1>4, <1>5

LEMMA AskFirstKeeps ==
  ASSUME AggInv, NEW a \in Askers, AskFirst(a)
  PROVE  AggInv'
<1> DEFINE q == asker[a].q
           syntax == asker[a].syntax
           answer == SiteAnswer(q, syntax)
           r == [asker[a] EXCEPT !.at = "other", !.why = answer.about]
<1>1. asker[a].at = "ask" /\ asker[a].at \in Steps /\ SameSite /\ cache' = cache
  BY DEF AskFirst, AskerAt, Steps
<1>2. /\ AskerInv(asker[a]) /\ AskerIs(asker[a]) /\ DOMAIN asker[a] = AskerFields /\ DOMAIN asker = Askers
      /\ cache' \in {NoCache, Old, 15, 16}
  BY <1>1, AskerHas
<1>3. q \in Queries /\ syntax \in Syntaxes
  BY <1>1, <1>2 DEF AskerIs
<1>4. CASE Fails(a, "down")
  BY <1>1, <1>2, <1>4, AskerFails
<1>5. CASE SyntaxRejected(answer, syntax) /\ asker' = [asker EXCEPT ![a].at = "other", ![a].why = answer.about]
  <2>1. asker' = [asker EXCEPT ![a] = r]
    BY <1>2, <1>5
  <2>2. \/ answer.about = "syntax" /\ syntax # SyntaxFor(major)
        \/ answer.about = "wrong" /\ q.wrong = "417"
    BY <1>3, <1>5, AnswerIs
  <2>3. /\ r.at = "other" /\ r.q = q /\ r.began = asker[a].began /\ DOMAIN r = AskerFields
        /\ r.syntax = syntax /\ r.why = answer.about
    BY <1>2 DEF AskerFields
  <2> HIDE DEF r, answer
  <2>4. AskerIs(r)
    BY <1>3, <2>2, <2>3 DEF AskerIs
  <2>5. AskerInv(r)
    BY <1>1, <1>2, <2>3, <2>4 DEF AskerInv, Steps
  <2> QED
    BY <1>1, <1>2, <2>1, <2>5, AskerSteps
<1>6. CASE ~SyntaxRejected(answer, syntax) /\ TakesRows(a, syntax, answer)
  BY <1>1, <1>2, <1>3, <1>6, TakesRowsKeeps
<1> QED
  BY <1>4, <1>5, <1>6 DEF AskFirst

LEMMA AskOtherKeeps ==
  ASSUME AggInv, NEW a \in Askers, AskOther(a)
  PROVE  AggInv'
<1> DEFINE q == asker[a].q
           other == OtherSyntax(asker[a].syntax)
           answer == SiteAnswer(q, other)
<1>1. asker[a].at = "other" /\ asker[a].at \in Steps /\ SameSite /\ (cache' = cache \/ cache' = NoCache)
  BY DEF AskOther, AskerAt, Steps
<1>2. /\ AskerInv(asker[a]) /\ AskerIs(asker[a]) /\ cache' \in {NoCache, Old, 15, 16}
  BY <1>1, AskerHas
<1>3. /\ q \in Queries /\ other \in Syntaxes /\ asker[a].syntax \in Syntaxes
      /\ asker[a].why = "syntax" => asker[a].syntax # SyntaxFor(major) \/ asker[a].began # major
      /\ asker[a].why = "wrong" => q.wrong # "no"
      /\ asker[a].why \in {"syntax", "wrong"}
  BY <1>1, <1>2 DEF AskerIs, OtherSyntax, Syntaxes
<1>4. CASE Fails(a, "down")
  BY <1>1, <1>2, <1>4, AskerFails
<1>5. CASE SyntaxRejected(answer, other) /\ Fails(a, asker[a].why)
  <2>1. other # SyntaxFor(major) \/ q.wrong = "417"
    BY <1>3, <1>5, AnswerIs
  <2>2. other # SyntaxFor(major) => asker[a].syntax = SyntaxFor(major)
    BY <1>3 DEF OtherSyntax, Syntaxes, SyntaxFor
  <2>3. \/ asker[a].why = "wrong" /\ q.wrong # "no"
        \/ asker[a].why = "syntax" /\ (asker[a].began # major \/ q.wrong = "417")
    BY <1>3, <2>1, <2>2
  <2> QED
    BY <1>1, <1>2, <1>5, <2>3, AskerFails
<1>6. CASE ~SyntaxRejected(answer, other) /\ TakesRows(a, other, answer)
  BY <1>1, <1>2, <1>3, <1>6, TakesRowsKeeps
<1> QED
  BY <1>4, <1>5, <1>6 DEF AskOther

\* A full page that is not in order is no top.
LEMMA BackIsUnsorted ==
  ASSUME NEW k \in 0..GroupCount, k >= 2, RowsSorted(LastBack(k))
  PROVE  FALSE
<1> DEFINE rows == LastBack(k)
           c == GroupCount
           all == Ascending(Groups)
<1>1. c \in Nat /\ k \in Nat /\ k <= c
  BY GroupsInOrder
<1>2. Len(rows) = k
  BY PageLen
<1>3. rows[1] <= rows[1 + 1]
  BY <1>1, <1>2 DEF RowsSorted
<1>4. rows[1] = all[c] /\ rows[1 + 1] = all[c - 1]
  BY <1>1 DEF LastBack
<1>5. c - 1 \in 1..c /\ c \in 1..c /\ c - 1 < c
  BY <1>1
<1>6. all[c - 1] < all[c] /\ all[c] \in Nat /\ all[c - 1] \in Nat
  BY <1>5, GroupsInOrder
<1> HIDE DEF rows, all, c
<1> QED
  BY <1>3, <1>4, <1>6

LEMMA ProbeKeeps ==
  ASSUME AggInv, NEW a \in Askers, Probe(a)
  PROVE  AggInv'
<1> DEFINE r == asker[a]
           q == r.q
           k == PageSize(Asked(q))
<1>1. r.at = "probe" /\ r.at \in Steps /\ SameSite /\ cache' = cache
  BY DEF Probe, AskerAt, Steps
<1>2. /\ AskerInv(r) /\ AskerIs(r) /\ DOMAIN r = AskerFields /\ cache' \in {NoCache, Old, 15, 16}
  BY <1>1, AskerHas
<1>3. /\ q \in Queries /\ Answerable(q) /\ Speaks(r) /\ r.rows \in {InOrderTo(k), LastBack(k)}
  BY <1>1, <1>2 DEF AskerIs
<1>4. /\ Asked(q) \in Nat /\ (q.limit = 0 => Asked(q) = 0) /\ q.limit \in Nat
      /\ q.limit > 0 => Asked(q) > q.limit /\ Asked(q) >= 2
  BY <1>3, AskedIs, QueriesDiffer
<1>5. k \in 0..GroupCount /\ GroupCount \in Nat /\ k \in Nat
  BY <1>4, PageIs, GroupsInOrder
<1>6. Len(r.rows) = k
  BY <1>3, <1>5, PageLen
<1> DEFINE full == q.limit > 0 /\ Len(r.rows) >= Asked(q) /\ ~RowsSorted(r.rows)
<1>7. CASE full
  <2>1. asker' = [asker EXCEPT ![a].at = "all"] /\ "all" \in Steps
    BY <1>7 DEF Probe, AskerTo, Steps
  <2>2. AskerIs([r EXCEPT !.at = "all"])
    BY <1>1, <1>2, <1>3 DEF AskerIs, AskerFields, Speaks
  <2> QED
    BY <1>1, <1>2, <2>1, <2>2, AskerGoes
<1>8. CASE ~full
  <2>1. Says(a, CutRows(q, r.rows, FALSE))
    BY <1>8 DEF Probe
  <2>2. k = GroupCount \/ (q.limit > 0 /\ k > q.limit /\ k = Asked(q))
    BY <1>4, <1>5 DEF PageSize
  <2>3. r.rows = InOrderTo(k) \/ k = GroupCount
    <3>1. SUFFICES ASSUME k # GroupCount, r.rows = LastBack(k) PROVE FALSE
      BY <1>3
    <3>2. q.limit > 0 /\ k = Asked(q) /\ k >= 2
      BY <1>4, <2>2, <3>1
    <3>3. RowsSorted(r.rows)
      BY <1>4, <1>6, <1>8, <3>2
    <3> HIDE DEF k
    <3> QED
      BY <1>5, <3>1, <3>2, <3>3, BackIsUnsorted
  <2> DEFINE result == CutRows(q, r.rows, FALSE)
  <2>4. /\ result.is = "groups" /\ result.warning = FALSE /\ result.rows = TopGroups(q.limit)
        /\ result.truncated = (q.limit > 0 /\ GroupCount > q.limit)
    <3> HIDE DEF k
    <3>1. result = [is |-> "groups", rows |-> TopGroups(q.limit),
                    truncated |-> q.limit > 0 /\ GroupCount > q.limit, warning |-> FALSE]
      BY <1>3, <1>5, <2>2, <2>3, CutIsTop
    <3> HIDE DEF result
    <3> QED
      BY <3>1
  <2> HIDE DEF result
  <2>5. ResultIsRight([at |-> "over", q |-> asker[a].q, began |-> asker[a].began, result |-> result])
    BY <1>3, <2>4 DEF ResultIsRight
  <2> QED
    BY <1>1, <1>2, <2>1, <2>5, AskerEnds DEF result
<1> QED
  BY <1>7, <1>8

LEMMA FetchAllKeeps ==
  ASSUME AggInv, NEW a \in Askers, FetchAll(a)
  PROVE  AggInv'
<1> DEFINE r == asker[a]
           q == r.q
           about == ReadColumns(SiteAnswer(q, r.syntax).about)
           rows == PageOf(FetchCap + 1)
           k == PageSize(FetchCap + 1)
           cut == SubSeq(rows, 1, Min({FetchCap, Len(rows)}))
           result == CutRows(q, cut, Len(rows) > FetchCap)
<1>1. r.at = "all" /\ r.at \in Steps /\ SameSite /\ cache' = cache
  BY DEF FetchAll, AskerAt, Steps
<1>2. /\ AskerInv(r) /\ AskerIs(r) /\ cache' \in {NoCache, Old, 15, 16}
  BY <1>1, AskerHas
<1>3. q \in Queries /\ Answerable(q) /\ Speaks(r) /\ r.syntax \in Syntaxes
  BY <1>1, <1>2 DEF AskerIs
<1>4. CASE Fails(a, "down")
  BY <1>1, <1>2, <1>4, AskerFails
<1>5. CASE about # "rows" /\ Fails(a, about)
  <2>1. \/ about = "syntax" /\ r.syntax # SyntaxFor(major)
        \/ about = "wrong" /\ q.wrong # "no"
        \/ about = "unreadable" /\ q.hidden
    BY <1>3, <1>5, AnswerIs
  <2>2. about = "syntax" => r.began # major
    BY <1>3, <2>1 DEF Speaks
  <2> HIDE DEF about
  <2> QED
    BY <1>1, <1>2, <1>5, <2>1, <2>2, AskerFails
<1>6. CASE Says(a, result)
  <2>1. FetchCap \in Nat /\ FetchCap + 1 \in Nat /\ GroupCount \in Nat
    BY CapsAre, GroupsInOrder
  <2>2. k \in 0..GroupCount /\ rows \in {InOrderTo(k), LastBack(k)}
    BY <2>1, PageIs
  <2>3. Len(rows) = k
    BY <2>2, PageLen
  <2>4. CASE Len(rows) > FetchCap
    <3>1. GroupCount > FetchCap
      BY <2>1, <2>2, <2>3, <2>4
    <3>2. result.is = "groups" /\ result.warning = TRUE
      BY <2>4 DEF CutRows
    <3> HIDE DEF result
    <3>3. ResultIsRight([at |-> "over", q |-> asker[a].q, began |-> asker[a].began, result |-> result])
      BY <1>3, <3>1, <3>2 DEF ResultIsRight
    <3> QED
      BY <1>1, <1>2, <1>6, <3>3, AskerEnds
  <2>5. CASE ~(Len(rows) > FetchCap)
    <3>1. k = GroupCount
      BY <2>1, <2>3, <2>5 DEF PageSize
    <3>2. cut = rows
      <4>1. Min({FetchCap, Len(rows)}) = k /\ k \in Nat
        BY <2>1, <2>2, <2>3, <2>5, LeastOfTwo
      <4>2. rows \in [1..k -> Nat]
        <5>1. \A i \in 1..k : k - i + 1 \in 1..k
          BY <4>1
        <5> QED
          BY <2>2, <3>1, <5>1, GroupsInOrder DEF InOrderTo, LastBack
      <4> HIDE DEF rows, k
      <4>3. SubSeq(rows, 1, k) = [i \in 1..k |-> rows[i]]
        BY <2>3, <4>1, <4>2
      <4>4. [i \in 1..k |-> rows[i]] = rows
        BY <4>2
      <4> QED
        BY <4>1, <4>3, <4>4
    <3>3. /\ result.is = "groups" /\ result.warning = FALSE /\ result.rows = TopGroups(q.limit)
          /\ result.truncated = (q.limit > 0 /\ GroupCount > q.limit)
      <4>1. (Len(rows) > FetchCap) = FALSE
        BY <2>5
      <4>2. result = CutRows(q, rows, FALSE)
        BY <3>2, <4>1, Zenon
      <4> HIDE DEF rows, k
      <4>3. result = [is |-> "groups", rows |-> TopGroups(q.limit),
                      truncated |-> q.limit > 0 /\ GroupCount > q.limit, warning |-> FALSE]
        BY <1>3, <2>2, <3>1, <4>2, CutIsTop
      <4> HIDE DEF result
      <4> QED
        BY <4>3
    <3> HIDE DEF result
    <3>4. ResultIsRight([at |-> "over", q |-> asker[a].q, began |-> asker[a].began, result |-> result])
      BY <1>3, <3>3 DEF ResultIsRight
    <3> QED
      BY <1>1, <1>2, <1>6, <3>4, AskerEnds
  <2> QED
    BY <2>4, <2>5
<1> QED
  BY <1>4, <1>5, <1>6 DEF FetchAll

LEMMA AggInvInit == AggInit => AggInv
BY DEF AggInit, AggInv, AskerInv, Steps

LEMMA AggInvStep == AggInv /\ [AggNext]_aggVars => AggInv'
<1> SUFFICES ASSUME AggInv, [AggNext]_aggVars PROVE AggInv'
  OBVIOUS
<1>1. CASE UNCHANGED aggVars
  BY <1>1 DEF aggVars, AggInv, AskerInv, AskerIs, ResultIsRight, Speaks, Answerable
<1>2. CASE UpgradeSite
  BY <1>2, UpgradeKeeps
<1>3. CASE ExpireVersions
  BY <1>3 DEF ExpireVersions, SameSite, AggInv, AskerInv, AskerIs, ResultIsRight, Speaks, Answerable
<1>4. CASE \E a \in Askers : \E q \in Questions[a] : StartAsker(a, q)
  BY <1>4, StartAskerKeeps
<1>5. CASE \E a \in Askers : CheckReadable(a) \/ ServerInfo(a) \/ WriteServerCache(a)
  BY <1>5, CheckReadableKeeps, ServerInfoKeeps, WriteServerCacheKeeps
<1>6. CASE \E a \in Askers : WhoamiUser(a) \/ WhoamiVersions(a)
  BY <1>6, WhoamiUserKeeps, WhoamiVersionsKeeps
<1>7. CASE \E a \in Askers : AskFirst(a) \/ AskOther(a) \/ Probe(a) \/ FetchAll(a)
  BY <1>7, AskFirstKeeps, AskOtherKeeps, ProbeKeeps, FetchAllKeeps
<1> QED
  BY <1>1, <1>2, <1>3, <1>4, <1>5, <1>6, <1>7 DEF AggNext

LEMMA AggInvSays == AggInv => AggregatesAreRight
<1> SUFFICES ASSUME AggInv, NEW a \in Askers, AskerAt(a, "over"), asker[a].q.cmd = "aggregate"
             PROVE  ResultIsRight(asker[a])
  BY DEF AggregatesAreRight, ResultIsRight, Answerable, GroupCount
<1> QED
  BY DEF AggInv, AskerInv, AskerAt

\* Whatever version the site has, is believed to have or is upgraded to, and
\* whatever it does with the order: an aggregate is the top groups, cut off
\* only when it says so, of no column that may not be read; and its error is
\* about the query, unless the site was upgraded between two tries or refused
\* the query on 15 as it refuses a syntax: for any commands, groups and limits
\* (runAggregate, aggregateRows).
THEOREM AggregatesRight == AggSpec => []AggregatesAreRight
<1>1. AggInit => AggInv
  BY AggInvInit
<1>2. AggInv /\ [AggNext]_aggVars => AggInv'
  BY AggInvStep
<1>3. AggInv => AggregatesAreRight
  BY AggInvSays
<1> QED
  BY <1>1, <1>2, <1>3, PTL DEF AggSpec
=============================================================================
