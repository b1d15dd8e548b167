------------------------------ MODULE Customize -----------------------------
(***************************************************************************)
(* ffc customize (internal/cmd/customize.go, customize_push.go): pull      *)
(* writes the customizations of one site to a folder, a JSON file for each *)
(* document with its multi-line field in a file beside it; push compares   *)
(* the folder with another site, asks, and sends what differs.  A pull is  *)
(* killed between any two files, people save documents on both sites while *)
(* the commands run, requests fail and answers are lost.                   *)
(***************************************************************************)
EXTENDS Integers, Sequences, FiniteSets

CONSTANTS
  Customs,      \* the documents' names, numbers: the order of a folder
  SourceSites,  \* bound: the documents of the site to pull from, at first
  TargetSites,  \* bound: and of the site to push to
  CustomDirs,   \* bound: the folder, as earlier pulls left it
  SameFile,     \* the pairs of names that are one file where case is ignored
  MaxSaved      \* bound: how often people save a document meanwhile

Beside   == "beside"       \* {"$file": name}
Text     == {"text 1", "text 2"}
NoScript == "line"
First == 0     \* inserted after none

\* A document: a plain field, which may be cleared; a field with a script of
\* one line or more; the rows of a table, which on the target have a column
\* more; a field only the source has; a password; and the Custom Field it is
\* inserted after.  ver is the time of its last change, and stays when it is
\* deleted.
CustomDocs ==
  [there : {TRUE}, ver : Nat, plain : Nat, script : Text \cup {NoScript},
   rows : Seq([col : Nat, newer : Nat]), after : Nat, secret : {"old", "none"}]
CustomDoc(plain, script, rows, after) ==
  [there |-> TRUE, ver |-> 1, plain |-> plain, script |-> script, rows |-> rows,
   after |-> after, secret |-> "old"]
NotThere(ver) == [there |-> FALSE, ver |-> ver]
NoCustom  == NotThere(0)

\* A document as files: its JSON file may name the file of its script.
CustomFiles == [there : {TRUE}, plain : Nat, script : Text \cup {NoScript}, rows : Seq(Nat), after : Nat]
NoCustomFile == [there |-> FALSE]
WithScript(file, script) == [file EXCEPT !.script = script]

ASSUME CustomsAreNumbers == Customs \subseteq Nat \ {0} /\ IsFiniteSet(Customs)
ASSUME SitesAreOfCustoms ==
  \A site \in SourceSites \cup TargetSites : site \in [Customs -> CustomDocs \cup {NoCustom}]
ASSUME DirsAreWhole ==
  \A dir \in CustomDirs :
    /\ DOMAIN dir.json = Customs /\ dir.sidecar \in [Customs -> Text \cup {"none"}]
    /\ \A d \in Customs :
         \/ dir.json[d] = NoCustomFile
         \/ dir.json[d] \in CustomFiles
         \/ dir.json[d].script = Beside /\ WithScript(dir.json[d], dir.sidecar[d]) \in CustomFiles

VARIABLES
  source, target,  \* the two sites, [Customs -> a document or NoCustom]
  json, sidecar,   \* the folder: what the JSON files hold; the files beside
  pull, push,      \* the two commands
  had,             \* the documents that the source ever had, as files
  saved            \* how often people saved

customVars == <<source, target, json, sidecar, pull, push, had, saved>>

Cleared == 0

-----------------------------------------------------------------------------
(* pull.                                                                   *)

\* normalizeCustomDoc, splitSidecars: no times, passwords or columns of rows
\* that are null, a cleared field is left out, a script of more lines is put
\* beside.
Normal(doc) == [there |-> TRUE, plain |-> doc.plain, script |-> doc.script,
                rows |-> [i \in DOMAIN doc.rows |-> doc.rows[i].col], after |-> doc.after]
InJson(norm) == IF norm.script \in Text THEN WithScript(norm, Beside) ELSE norm

NamedCustoms == {d \in Customs : source[d].there}
PullGoes(at) == pull' = [pull EXCEPT !.at = at]
OnlyPull == UNCHANGED <<source, target, push, had, saved>>
NoPullWrite == OnlyPull /\ UNCHANGED <<json, sidecar>>

\* pullCustomizations: customNames, then each document; nothing is written
\* before all are read.
CustomNames ==
  /\ pull.at = "start"
  /\ \/ PullGoes("failed")
     \/ pull' = [pull EXCEPT !.at = "read", !.names = NamedCustoms, !.rest = NamedCustoms]
  /\ NoPullWrite
FetchCustomDoc(d) ==
  /\ pull.at = "read" /\ d \in pull.rest /\ \A e \in pull.rest : d <= e
  /\ \/ PullGoes("failed")
     \/ /\ source[d].there
        /\ pull' = [pull EXCEPT !.rest = @ \ {d}, !.docs[d] = Normal(source[d])]
  /\ NoPullWrite

\* writeCustomizations: every file is named first, and a clash writes none.
NameFiles ==
  /\ pull.at = "read" /\ pull.rest = {}
  /\ IF \E d, e \in pull.names : d # e /\ <<d, e>> \in SameFile
     THEN PullGoes("clash")
     ELSE pull' = [pull EXCEPT !.at = "sidecar", !.rest = pull.names]
  /\ NoPullWrite

WritesNow(d, at) == pull.at = at /\ d \in pull.rest /\ \A e \in pull.rest : d <= e
WriteSidecar(d) ==
  /\ WritesNow(d, "sidecar")
  /\ \/ PullGoes("failed") /\ UNCHANGED sidecar
     \/ /\ sidecar' = IF pull.docs[d].script \in Text THEN [sidecar EXCEPT ![d] = pull.docs[d].script]
                      ELSE sidecar
        /\ PullGoes("json")
  /\ OnlyPull /\ UNCHANGED json

\* What the old file named (sidecarRefs) and the new one does not is removed.
WriteJson(d) ==
  /\ WritesNow(d, "json")
  /\ \/ PullGoes("torn") /\ UNCHANGED json
     \/ /\ json' = [json EXCEPT ![d] = InJson(pull.docs[d])]
        /\ pull' = [pull EXCEPT !.at = "remove",
                                !.old = json[d].there /\ json[d].script = Beside
                                          /\ pull.docs[d].script \notin Text]
  /\ OnlyPull /\ UNCHANGED sidecar
RemoveSidecar(d) ==
  /\ WritesNow(d, "remove")
  /\ sidecar' = IF pull.old THEN [sidecar EXCEPT ![d] = "none"] ELSE sidecar
  /\ pull' = [pull EXCEPT !.at = "sidecar", !.rest = @ \ {d}]
  /\ OnlyPull /\ UNCHANGED json

\* staleCustomFiles: listed, and kept.
StaleCustomFiles ==
  /\ pull.at = "sidecar" /\ pull.rest = {}
  /\ pull' = [pull EXCEPT !.at = "done", !.stale = {d \in Customs : json[d].there} \ pull.names]
  /\ NoPullWrite

\* Killed between two files; "torn" between those of a document.
PullKilled ==
  /\ pull.at \in {"sidecar", "json", "remove"}
  /\ PullGoes(IF pull.at = "json" THEN "torn" ELSE "failed") /\ NoPullWrite
PullEnded == pull.at \in {"done", "failed", "clash", "torn"}

-----------------------------------------------------------------------------
(* push.                                                                   *)

\* readCustomFile: none when the file beside is missing.
Readable(d) == json[d].script = Beside => sidecar[d] # "none"
InFolder(d) == IF json[d].script = Beside THEN WithScript(json[d], sidecar[d]) ELSE json[d]

OnlyPush == UNCHANGED <<source, json, sidecar, pull, had, saved>>
NoRequest == OnlyPush /\ UNCHANGED target
PushGoes(at) == push' = [push EXCEPT !.at = at]

\* readCustomDir: one file that cannot be read stops the push.
ReadCustomDir(dry, yes) ==
  /\ push.at = "start" /\ PullEnded
  /\ LET files == {d \in Customs : json[d].there}
     IN  IF \E d \in files : ~Readable(d) THEN PushGoes("refused")
         ELSE push' = [push EXCEPT !.at = "plan", !.rest = files, !.dry = dry, !.yes = yes,
                                   !.docs = [d \in Customs |-> IF d \in files THEN InFolder(d) ELSE NoCustomFile]]
  /\ NoRequest

\* sameCustomValue, of a table: the columns that the file has.
SameRows(rows, onSite) ==
  Len(rows) = Len(onSite) /\ \A i \in DOMAIN rows : rows[i] = onSite[i].col

\* The fields that the file has, that the site knows and that differ.
Differs(file, doc) ==
  {f \in {"plain", "script", "after"} : file[f] # doc[f] /\ (f = "plain" => file.plain # Cleared)}
    \cup (IF SameRows(file.rows, doc.rows) THEN {} ELSE {"rows"})

\* planCustomPush, of a document: its action and the time it was read at.
PlanCustomPush(d) ==
  /\ push.at = "plan" /\ d \in push.rest /\ \A e \in push.rest : d <= e
  /\ \/ PushGoes("failed")
     \/ LET diff == Differs(push.docs[d], target[d])
            item == IF ~target[d].there THEN [act |-> "create", doc |-> d]
                    ELSE IF diff = {} THEN [act |-> "unchanged", doc |-> d]
                    ELSE [act |-> "update", doc |-> d, fields |-> diff, ver |-> target[d].ver]
        IN  push' = [push EXCEPT !.rest = @ \ {d}, !.items = Append(@, item)]
  /\ NoRequest

\* orderCustomFields: the fields that a visit of d comes to, each the one that
\* the last is inserted after, up to `end`.
Pushed == {d \in Customs : push.docs[d].there}
After(d) == push.docs[d].after
Way(d, end) ==
  {e \in Pushed : \A S \in SUBSET Pushed :
     d \in S /\ (\A f \in S \ {end} : After(f) \in Pushed => After(f) \in S) => e \in S}
Reached(d) == Way(d, First)

\* The visits are in the order of the folder; each adds what no earlier one
\* did, the last it comes to first.
VisitOf(e) == CHOOSE d \in Pushed : e \in Reached(d) /\ \A c \in Pushed : c < d => e \notin Reached(c)
Sooner(d, e) ==
  LET c == VisitOf(d)
      r == VisitOf(e)
  IN  c < r \/ (c = r /\ Cardinality(Way(r, e)) < Cardinality(Way(c, d)))
PlaceOf(item, items) == Cardinality({other \in items : Sooner(other.doc, item.doc)}) + 1
InOrder(items) ==
  [k \in 1 .. Cardinality(items) |-> CHOOSE item \in items : PlaceOf(item, items) = k]

\* The plan is shown; a dry run and an empty plan stop there.
ShowPlan ==
  /\ push.at = "plan" /\ push.rest = {}
  /\ LET changes == InOrder({push.items[i] : i \in {j \in DOMAIN push.items : push.items[j].act # "unchanged"}})
     IN  push' = [push EXCEPT !.items = changes, !.status = [i \in DOMAIN changes |-> "waits"],
                              !.at = IF push.dry \/ changes = <<>> THEN "shown"
                                     ELSE IF push.yes THEN "apply" ELSE "ask"]
  /\ NoRequest
AnswerPlan(answer) ==
  /\ push.at = "ask"
  /\ IF answer THEN push' = [push EXCEPT !.at = "apply", !.yes = TRUE] ELSE PushGoes("cancelled")
  /\ NoRequest

\* What the site has after it takes an item; the rows of a table are
\* replaced, and the columns the file lacks have their defaults.
NewRows(rows) == [i \in DOMAIN rows |-> [col |-> rows[i], newer |-> 0]]
Created(file, ver) ==
  [there |-> TRUE, ver |-> ver + 1, plain |-> file.plain, script |-> file.script,
   rows |-> NewRows(file.rows), after |-> file.after, secret |-> "none"]
Updated(doc, file, fields) ==
  [f \in DOMAIN doc |-> IF f = "ver" THEN doc.ver + 1
                        ELSE IF f \notin fields THEN doc[f]
                        ELSE IF f = "rows" THEN NewRows(file.rows) ELSE file[f]]

\* Mutant of Takes: the update has no time.
TakesAny(item) == (item.act = "create") = ~target[item.doc].there
\* The site refuses a create of what is there, an update of what is not and
\* one with another time (check_if_latest).
Takes(item) ==
  IF item.act = "create" THEN ~target[item.doc].there
  ELSE target[item.doc].there /\ target[item.doc].ver = item.ver

\* customPushItem.apply, one after the other (runBulk with one worker).
ApplyItem(i, failFast) ==
  /\ push.at = "apply" /\ push.status[i] = "waits" /\ \A j \in 1 .. i - 1 : push.status[j] # "waits"
  /\ LET item == push.items[i]
         d    == item.doc
         file == push.docs[d]
     IN  \/ /\ Takes(item)
            /\ target' = [target EXCEPT ![d] =
                 IF item.act = "create" THEN Created(file, @.ver) ELSE Updated(@, file, item.fields)]
            /\ \E s \in {"done", "error"} :    \* or its answer is lost
                 push' = [push EXCEPT !.status[i] = s,
                                      !.at = IF s = "error" /\ failFast THEN "stopped" ELSE @,
                                      !.wrote[d] = target'[d].ver]
         \/ /\ push' = [push EXCEPT !.status[i] = "error", !.at = IF failFast THEN "stopped" ELSE @]
            /\ UNCHANGED target
  /\ OnlyPush
\* Ctrl+C or --fail-fast: the rest is skipped.
StopPush ==
  /\ push.at \in {"apply", "stopped"}
  /\ push' = [push EXCEPT !.at = "done",
                          !.status = [i \in DOMAIN @ |-> IF @[i] = "waits" THEN "skipped" ELSE @[i]]]
  /\ NoRequest

-----------------------------------------------------------------------------
(* People save, make and delete documents of both sites.                   *)
Edits(doc) ==
  {[doc EXCEPT !.ver = @ + 1, !.script = s] : s \in {"text 2", NoScript}}
    \cup {[doc EXCEPT !.ver = @ + 1, !.plain = Cleared]}
Saves(site, d) == IF site[d].there THEN Edits(site[d]) \cup {NotThere(site[d].ver)}
                  ELSE {[CustomDoc(1, "text 1", <<>>, First) EXCEPT !.ver = site[d].ver + 1]}
SaveCustom ==
  /\ saved < MaxSaved /\ saved' = saved + 1
  /\ \E d \in Customs :
       \/ /\ pull.at \in {"start", "read"}
          /\ \E doc \in Saves(source, d) :
               /\ source' = [source EXCEPT ![d] = doc]
               /\ had' = IF doc.there THEN had \cup {<<d, Normal(doc)>>} ELSE had
          /\ UNCHANGED target
       \/ /\ PullEnded
          /\ \E doc \in Saves(target, d) : target' = [target EXCEPT ![d] = doc]
          /\ UNCHANGED <<source, had>>
  /\ UNCHANGED <<json, sidecar, pull, push>>

CustomInit ==
  /\ source \in SourceSites /\ target \in TargetSites
  /\ \E dir \in CustomDirs : json = dir.json /\ sidecar = dir.sidecar
  /\ pull = [at |-> "start", names |-> {}, rest |-> {}, docs |-> [d \in Customs |-> NoCustomFile],
             old |-> FALSE, stale |-> {}]
  /\ push = [at |-> "start", rest |-> {}, docs |-> [d \in Customs |-> NoCustomFile], items |-> <<>>,
             status |-> <<>>, dry |-> FALSE, yes |-> FALSE, wrote |-> [d \in Customs |-> 0]]
  /\ had = {<<d, Normal(source[d])>> : d \in NamedCustoms}
             \cup {<<d, InFolder(d)>> : d \in {e \in Customs : json[e].there}}
  /\ saved = 0

CustomNext ==
  \/ CustomNames \/ NameFiles \/ StaleCustomFiles \/ PullKilled
  \/ \E d \in Customs : FetchCustomDoc(d) \/ WriteSidecar(d) \/ WriteJson(d) \/ RemoveSidecar(d)
  \/ \E dry, yes \in BOOLEAN : ReadCustomDir(dry, yes)
  \/ \E d \in Customs : PlanCustomPush(d)
  \/ ShowPlan \/ \E answer \in BOOLEAN : AnswerPlan(answer)
  \/ \E i \in DOMAIN push.items, failFast \in BOOLEAN : ApplyItem(i, failFast)
  \/ StopPush
  \/ SaveCustom

CustomSpec == CustomInit /\ [][CustomNext]_customVars

-----------------------------------------------------------------------------
\* What a push reads of a document is one save of it, though its parts are
\* in two files (unless a pull stopped between the two).
FolderIsWhole ==
  PullEnded =>
    \A d \in Customs :
      json[d].there /\ ~(pull.at = "torn" /\ d \in pull.rest /\ \A e \in pull.rest : d <= e) =>
        Readable(d) /\ <<d, InFolder(d)>> \in had

\* A document that was pushed has what its file has, though the site knows
\* other fields and columns; pushed again it would be unchanged.
PushedOnce ==
  \A i \in DOMAIN push.status :
    LET d == push.items[i].doc IN
    push.status[i] = "done" /\ target[d].there /\ target[d].ver = push.wrote[d] =>
      Differs(push.docs[d], target[d]) = {}

\* A Custom Field goes after the one it is inserted after, unless they are
\* inserted after each other.
InCycle(d) == d \in Reached(After(d))
InOrderOfAfter ==
  push.at \notin {"plan", "failed"} =>
    \A i, j \in DOMAIN push.items :
      After(push.items[i].doc) = push.items[j].doc /\ i < j => InCycle(push.items[i].doc)

\* What the push writes is what its plan showed, asked for: who saves a
\* document after the plan was made does not lose the save.
PlanIsKept ==
  \A d \in Customs :
    target'[d] # target[d] /\ push' # push =>
      /\ push.yes /\ ~push.dry /\ target'[d].there
      /\ \E i \in DOMAIN push.items :
           /\ push.items[i].doc = d
           /\ IF target[d].there THEN push.items[i].fields = Differs(push.docs[d], target[d])
              ELSE push.items[i].act = "create"

\* Customizations arrive as one site had them, in an order that works, where
\* nobody changed them since they were compared (customize.go,
\* writeCustomizations; customize_push.go, planCustomPush, apply).
CustomsArrive == [](FolderIsWhole /\ PushedOnce /\ InOrderOfAfter) /\ [][PlanIsKept]_customVars
=============================================================================
