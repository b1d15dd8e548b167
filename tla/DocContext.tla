----------------------------- MODULE DocContext -----------------------------
(***************************************************************************)
(* What ffc shows a user of a document's history and of their own rights:  *)
(* doc-info and the get_doc_context tool (internal/cmd/doc_info.go,        *)
(* mcp_doc_context.go, internal/client/docinfo.go), the fields a user may  *)
(* read (internal/client/fieldaccess.go), and can (internal/cmd/can.go,    *)
(* internal/client/server.go).  Each reads the rights in several requests; *)
(* any may fail, and people change fields and roles between two.           *)
(***************************************************************************)
EXTENDS Integers, Sequences, FiniteSets, SequencesExt, Selection

CONSTANTS
  Viewers,   \* bound: the commands
  Views,     \* bound: what each may ask, [Viewers -> a set of Contexts and Cans]
  Metas,     \* bound: the DocType as it may be, each
             \*   [fields, perms, submittable]: a field is [table, name, kind,
             \*   level], a row of perms [role, level, rights, owner]
  Roles,     \* the roles a user is given
  Versions,  \* the changes there were: [what, table, field]
  Timeline,  \* the DocTypes that each line of the timeline is read from
  Linked,    \* the DocTypes that documents are linked from
  MayRead,   \* the DocTypes that the server's rules allow
  MaxShown   \* mcpContextChanges, mcpContextTimeline

Rights == {"select", "read", "create", "submit"}
\* full: --full, of doc-info alone.
Contexts ==
  {q \in [cmd : {"context"}, mcp : BOOLEAN, full : BOOLEAN, links : BOOLEAN, timeline : BOOLEAN] : ~(q.mcp /\ q.full)}
Cans == [cmd : {"can"}, right : Rights]

ASSUME ViewsAre == Views \in [Viewers -> SUBSET (Contexts \cup Cans)]
ASSUME HistoryIs ==
  /\ Versions \in Seq([what : {"changed", "row", "added", "removed"}, table : STRING, field : STRING])
  /\ Timeline \in Seq(SUBSET STRING) /\ IsFiniteSet(Linked) /\ MaxShown \in Nat

VARIABLES
  meta,    \* the DocType as it is
  user,    \* "Administrator", "user" or "Guest"
  roles,   \* the roles the user has
  system,  \* the user is a System User
  changed, \* what was changed of these: "meta", "roles"
  was,     \* history: the DocType and the roles as they were at any time
  view     \* [Viewers -> where each command is]

contextVars == <<meta, user, roles, system, changed, was, view>>

Section == {"Version", "Comment", "File", "ToDo"}   \* of contextSections
NoLevels == {-2}     \* no permission rows: every level may be read

ViewAt(v, at) == view[v].at = at
ViewTo(v, at) == view' = [view EXCEPT ![v].at = at]
ViewEnds(v, exit) == view' = [view EXCEPT ![v].at = "over", ![v].exit = exit]
OnlyView == UNCHANGED <<meta, user, roles, system, changed, was>>

-----------------------------------------------------------------------------
(* What Frappe gives.                                                      *)
Has(who, given, isSystem) ==
  CASE who = "Guest" -> {"Guest"}
    [] OTHER -> given \cup {"All", "Guest"} \cup IF isSystem THEN {"Desk User"} ELSE {}
SiteReads(m, who, given, isSystem, f) ==
  \/ f.name = "docstatus"
  \/ \E g \in m.fields :
       /\ g.table = f.table /\ g.name = f.name
       /\ \/ who = "Administrator" \/ m.perms = {} \/ g.level = 0
          \/ \E p \in m.perms : p.role \in Has(who, given, isSystem) /\ p.level = g.level /\ "read" \in p.rights

-----------------------------------------------------------------------------
(* FieldAccess.                                                            *)

\* Mutant of Levels: Desk User counts for all.
LevelsOfDesk(m, who, given) ==
  {p.level : p \in {q \in m.perms : "read" \in q.rights /\ q.role \in given \cup {"All", "Guest", "Desk User"}}} \cup {0}
\* ReadableFields: Desk User is not counted.
Levels(m, who, given) ==
  IF m.perms = {} THEN NoLevels
  ELSE {p.level : p \in {q \in m.perms : /\ "read" \in q.rights
                                         /\ who = "Administrator" \/ q.role \in given \cup {"All", "Guest"}}} \cup {0}

FieldReadable(access, table, name) ==
  \E f \in access.fields :
    /\ f.table = table /\ f.name = name /\ f.kind # "password"
    /\ access.levels = NoLevels \/ f.level \in access.levels
FieldIsReadable(access, name) == name = "docstatus" \/ FieldReadable(access, "", name)
\* ReadableRow: the table field too.
ReadableRow(access, table, name) ==
  FieldIsReadable(access, table) /\ FieldReadable(access, table, name)

-----------------------------------------------------------------------------
(* doc-info.                                                               *)
StartView(v, q) ==
  /\ ViewAt(v, "idle") /\ q \in Views[v]
  /\ view' = [view EXCEPT ![v] =
       [at |-> IF q.cmd = "can" THEN "who" ELSE "docinfo", q |-> q, exit |-> "none", who |-> "none",
        access |-> [fields |-> {}, levels |-> {}], m |-> [perms |-> {}], have |-> {}, desk |-> "no",
        versions |-> <<>>, notes |-> {}, links |-> {}, timeline |-> <<>>, out |-> <<>>, hidden |-> 0,
        sections |-> {}, omitted |-> 0]]
  /\ OnlyView

\* DocInfo: what the sidebar shows, all versions as they are; none for
\* Guest.
FetchDocinfo(v) ==
  /\ ViewAt(v, "docinfo")
  /\ \/ ViewEnds(v, "failed")
     \/ /\ user # "Guest"
        /\ view' = [view EXCEPT ![v].versions = Versions,
                                ![v].at = IF Versions = <<>> THEN "links" ELSE "user"]
  /\ OnlyView

\* ReadableFields fails: the versions are left out, with a note; an
\* interrupted command fails.
NoAccess(v) ==
  \/ view' = [view EXCEPT ![v].at = "links", ![v].versions = <<>>, ![v].notes = @ \cup {"versions"}]
  \/ ViewEnds(v, "failed")
AccessUser(v) ==
  /\ ViewAt(v, "user")
  /\ NoAccess(v) \/ view' = [view EXCEPT ![v].who = user, ![v].at = "meta"]
  /\ OnlyView
AccessMeta(v) ==
  /\ ViewAt(v, "meta")
  /\ \/ NoAccess(v)
     \/ view' = [view EXCEPT ![v].m = meta,
                             ![v].access = [fields |-> meta.fields, levels |-> Levels(meta, view[v].who, {})],
                             ![v].at = IF meta.perms = {} \/ view[v].who = "Administrator" THEN "links" ELSE "roles"]
  /\ OnlyView
AccessRoles(v) ==
  /\ ViewAt(v, "roles")
  /\ \/ NoAccess(v)
     \/ view' = [view EXCEPT ![v].access.levels = Levels(view[v].m, view[v].who, roles), ![v].at = "links"]
  /\ OnlyView

\* An optional part that the site refuses is a note.
LinkCounts(v) ==
  /\ ViewAt(v, "links")
  /\ \/ ~view[v].q.links /\ ViewTo(v, "timeline")
     \/ view[v].q.links /\ view' = [view EXCEPT ![v].links = Linked, ![v].at = "timeline"]
     \/ view[v].q.links /\ view' = [view EXCEPT ![v].notes = @ \cup {"links"}, ![v].at = "timeline"]
     \/ view[v].q.links /\ ViewEnds(v, "failed")
  /\ OnlyView
ActivityTimeline(v) ==
  /\ ViewAt(v, "timeline")
  /\ \/ ~view[v].q.timeline /\ ViewTo(v, "compact")
     \/ view[v].q.timeline /\ view' = [view EXCEPT ![v].timeline = Timeline, ![v].at = "compact"]
     \/ view[v].q.timeline /\ view' = [view EXCEPT ![v].notes = @ \cup {"timeline"}, ![v].at = "compact"]
     \/ view[v].q.timeline /\ ViewEnds(v, "failed")
  /\ OnlyView

\* compactVersion: what was changed, in rows as well, and rows added and
\* removed; what may not be read is counted.
Shows(access, c) == IF c.what = "row" THEN ReadableRow(access, c.table, c.field)
                    ELSE IF c.what = "changed" THEN FieldIsReadable(access, c.field)
                    ELSE FieldIsReadable(access, c.table)
\* --full: the site's answers as they are, all versions, also where a note
\* says that they are left out.
FullAnswer(r) == [r EXCEPT !.out = Versions, !.sections = Section]
\* filterDocContext: of a DocType that may not be read nothing stays; a line
\* stays only when each it is read from may be.
Compact(v) ==
  LET r == view[v]
      shown  == Chosen(r.versions, {i \in DOMAIN r.versions : Shows(r.access, r.versions[i])})
      lines  == Chosen(r.timeline, {i \in DOMAIN r.timeline : r.timeline[i] \subseteq MayRead})
      links  == r.links \cap MayRead
      cut(s) == SubSeq(s, 1, Min({MaxShown, Len(s)}))
      newest(s) == SubSeq(s, Len(s) - Min({MaxShown, Len(s)}) + 1, Len(s))
      \* trimDocContext.
      few(s) == Len(s) - Min({MaxShown, Len(s)})
      out    == IF "Version" \in MayRead THEN shown ELSE <<>>
  IN  IF r.q.full
      THEN FullAnswer(r)
      ELSE IF ~r.q.mcp
      THEN [r EXCEPT !.out = shown, !.hidden = Len(r.versions) - Len(shown), !.sections = Section]
      ELSE [r EXCEPT !.out = cut(out),
                     !.hidden = (Len(r.versions) - Len(shown)) + (Len(shown) - Len(out))
                                  + (Len(r.timeline) - Len(lines)) + Cardinality(r.links \ links),
                     !.sections = Section \cap MayRead,
                     !.links = links, !.timeline = newest(lines), !.omitted = few(out) + few(lines)]
CompactDocContext(v) ==
  /\ ViewAt(v, "compact")
  /\ view' = [view EXCEPT ![v] = [Compact(v) EXCEPT !.at = "over", !.exit = "ok"]]
  /\ OnlyView

-----------------------------------------------------------------------------
(* can, without a name.                                                    *)

\* roleRight: [allowed, ownerOnly].
RoleRight(rows, right) ==
  LET granting == {p \in rows : right \in p.rights}
      plain    == \E p \in granting : ~p.owner
  IN  IF granting = {} THEN [allowed |-> FALSE, ownerOnly |-> FALSE]
      ELSE IF ~plain /\ right # "create"
      THEN [allowed |-> right \in {"select", "read"}, ownerOnly |-> TRUE]
      ELSE [allowed |-> TRUE, ownerOnly |-> FALSE]

\* EvalDocTypePermission: rows of level 0; select is implied by read.
EvalDocTypePermission(m, have, right) ==
  LET rows == {p \in m.perms : p.role \in have /\ p.level = 0}
      own  == RoleRight(rows, right)
  IN  IF right = "submit" /\ ~m.submittable THEN [allowed |-> FALSE, ownerOnly |-> FALSE]
      ELSE IF right = "select" /\ ~own.allowed THEN RoleRight(rows, "read")
      ELSE own

\* DocTypePermission: the user, the Has Role rows, the user's type where it
\* may be read, the meta.
CanUser(v) ==
  /\ ViewAt(v, "who")
  /\ \/ ViewEnds(v, "failed")
     \/ /\ user = "Administrator"
        /\ view' = [view EXCEPT ![v].at = "over", ![v].exit = "ok", ![v].out = [allowed |-> TRUE, ownerOnly |-> FALSE]]
     \/ user = "Guest" /\ view' = [view EXCEPT ![v].have = {"Guest"}, ![v].at = "can"]
     \/ user = "user" /\ ViewTo(v, "has")
  /\ OnlyView
CanRoles(v) ==
  /\ ViewAt(v, "has")
  /\ \/ ViewEnds(v, "failed")
     \/ view' = [view EXCEPT ![v].have = roles \cup {"All", "Guest"}, ![v].at = "type"]
  /\ OnlyView
IsSystemUser(v) ==
  /\ ViewAt(v, "type")
  /\ \/ view' = [view EXCEPT ![v].have = IF system THEN @ \cup {"Desk User"} ELSE @, ![v].at = "can"]
     \/ view' = [view EXCEPT ![v].desk = "unknown", ![v].at = "can"]
  /\ OnlyView
\* With a note where Desk User would change the answer.
CanAnswer(v) ==
  LET r    == view[v]
      out  == EvalDocTypePermission(meta, r.have, r.q.right)
      with == EvalDocTypePermission(meta, r.have \cup {"Desk User"}, r.q.right)
  IN  [r EXCEPT !.at = "over", !.exit = "ok", !.out = out,
                !.notes = IF r.desk = "unknown" /\ with # out THEN {"desk"} ELSE {}]
Can(v) ==
  /\ ViewAt(v, "can")
  /\ ViewEnds(v, "failed") \/ view' = [view EXCEPT ![v] = CanAnswer(v)]
  /\ OnlyView

-----------------------------------------------------------------------------
\* Somebody changes the DocType, or gives and takes roles.
ChangeMeta ==
  /\ "meta" \notin changed /\ changed' = changed \cup {"meta"}
  /\ meta' \in Metas /\ was' = was \cup {<<meta', roles>>}
  /\ UNCHANGED <<user, roles, system, view>>
ChangeRoles ==
  /\ user = "user"
  /\ "roles" \notin changed /\ changed' = changed \cup {"roles"}
  /\ roles' \in SUBSET Roles /\ was' = was \cup {<<meta, roles'>>}
  /\ UNCHANGED <<meta, user, system, view>>

ContextInit ==
  /\ meta \in Metas /\ user \in {"Administrator", "user", "Guest"}
  /\ roles \in SUBSET Roles /\ system \in BOOLEAN /\ (user # "user" => roles = {} /\ ~system)
  /\ changed = {} /\ was = {<<meta, roles>>}
  /\ view = [v \in Viewers |-> [at |-> "idle"]]
ContextNext ==
  \/ ChangeMeta \/ ChangeRoles
  \/ \E v \in Viewers :
       \/ \E q \in Views[v] : StartView(v, q)
       \/ FetchDocinfo(v) \/ AccessUser(v) \/ AccessMeta(v) \/ AccessRoles(v)
       \/ LinkCounts(v) \/ ActivityTimeline(v) \/ CompactDocContext(v)
       \/ CanUser(v) \/ CanRoles(v) \/ IsSystemUser(v) \/ Can(v)
ContextSpec == ContextInit /\ [][ContextNext]_contextVars

-----------------------------------------------------------------------------
ViewShown(v, cmd) == ViewAt(v, "over") /\ view[v].exit = "ok" /\ view[v].q.cmd = cmd

\* Without --full, no change is shown that the user could not read at any
\* time, unless both the field's level and the user's roles were changed
\* meanwhile, and none where the rights could not be read; what is left out
\* is counted, and get_doc_context has nothing of a DocType that its server
\* may not read (fetchDocContext, compactVersion, filterDocContext,
\* trimDocContext).  doc-info --full shows every version as the site gave it,
\* whatever the user may read (docContextRaw.full).
MayReadField(pair, c) == SiteReads(pair[1], user, pair[2], system, c)
ContextIsReadable ==
  \A v \in Viewers :
    ViewShown(v, "context") =>
      LET r == view[v] IN
      /\ r.q.full \/ changed = {"meta", "roles"} \/
           \A i \in DOMAIN r.out :
             LET c == r.out[i] IN
             \E pair \in was :
               /\ c.what # "changed" => MayReadField(pair, [table |-> "", name |-> c.table])
               /\ c.what = "changed" => MayReadField(pair, [table |-> "", name |-> c.field])
               /\ c.what = "row" => MayReadField(pair, [table |-> c.table, name |-> c.field])
      /\ ~r.q.full /\ r.out # <<>> => "versions" \notin r.notes
      /\ "versions" \notin r.notes =>
           Len(r.out) + Len(r.timeline) + Cardinality(r.links) + r.hidden + r.omitted =
             Len(Versions) + (IF r.q.timeline /\ "timeline" \notin r.notes THEN Len(Timeline) ELSE 0)
               + (IF r.q.links /\ "links" \notin r.notes THEN Cardinality(Linked) ELSE 0)
      /\ r.q.mcp =>
           /\ r.out # <<>> => "Version" \in MayRead
           /\ r.links \cup (UNION ToSet(r.timeline)) \cup r.sections \subseteq MayRead

\* "ffc can" is right about a user whose rights nobody changes: what it
\* allows without a note is allowed on documents of others (for create, and
\* owner_only, on one's own), and what it denies is not; a note is given
\* where it could not know (DocTypePermission).
MayDo(right, others) ==
  \/ user = "Administrator"
  \/ /\ right = "submit" => meta.submittable
     /\ \E p \in meta.perms :
          /\ p.level = 0 /\ p.role \in Has(user, roles, system) /\ (others => ~p.owner)
          /\ right \in p.rights \/ (right = "select" /\ "read" \in p.rights)
CanIsRight ==
  \A v \in Viewers :
    ViewShown(v, "can") /\ changed = {} /\ view[v].notes = {} =>
      LET r == view[v] IN
      /\ r.out.ownerOnly => MayDo(r.q.right, FALSE)
      /\ r.out.allowed /\ ~r.out.ownerOnly => MayDo(r.q.right, r.q.right # "create")
      /\ ~r.out.allowed => ~MayDo(r.q.right, ~r.out.ownerOnly \/ r.q.right # "create")
      /\ ~r.out.allowed /\ ~r.out.ownerOnly => ~MayDo(r.q.right, FALSE)

\* Without --full, ffc shows of a document's history what the user may know;
\* and it tells of the user's rights what is so.
RightsAreKept == ContextIsReadable /\ CanIsRight
=============================================================================
