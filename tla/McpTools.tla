------------------------------ MODULE McpTools ------------------------------
(* The tools of `ffc mcp`: what a call touches according to its arguments,    *)
(* which is what the policy judges (scopeOf), and what the tool's own code    *)
(* then shows the client and has the site write (mcp_tools.go and the files   *)
(* of the tool sets). The two are separate code, and so are separate here.    *)
(*                                                                            *)
(* A call c is [tool, site, doctype, other, method, opts, behind, hits]:      *)
(*   doctype  the DocType its arguments name, "" for none                     *)
(*   other    a second one: of a four-element filter, of a linked field, or   *)
(*            what erp_map maps to                                            *)
(*   opts     the options given, of those that change what is touched         *)
(*   behind   the DocType only the site knows: of the report, or of the       *)
(*            deleted document                                                *)
(*   hits     the DocTypes of the rows a search, the links of a document or   *)
(*            the Error Log bring up                                          *)
EXTENDS McpPolicy, FiniteSets

QueryTools == {"list_docs", "count_docs", "aggregate"}
ErpTools == {"erp_map", "erp_payment", "erp_item", "erp_stock", "erp_party"}

Siteless(tool) == tool = "list_sites"

(* Tools for which no DocType means none, and those that take none. *)
OptionalDoctype == {"search", "list_errors", "erp_item", "erp_party", "restore_doc"}
NoDoctype ==
  {"list_sites", "ping", "list_doctypes", "list_reports", "run_report",
   "whoami", "site_health", "list_jobs", "scheduler_status", "erp_stock",
   "call_method"}

Valid(c) ==
  /\ c.doctype # "" \/ c.tool \in OptionalDoctype \cup NoDoctype
  /\ "fresh" \in c.opts => "prepared" \in c.opts
  /\ ~({"fresh", "named"} \subseteq c.opts)

(* The tool set a tool belongs to. *)
Toolset(tool) ==
  CASE tool \in {"submit_doc", "cancel_doc", "bulk_submit", "bulk_cancel",
                 "amend_doc", "copy_doc", "rename_doc", "apply_workflow",
                 "restore_doc", "get_transitions"} -> "lifecycle"
    [] tool \in {"add_comment", "assign_to", "remove_assignment", "add_tag",
                 "remove_tag"} -> "collab"
    [] tool \in {"share_doc", "unshare_doc", "site_health", "list_jobs",
                 "list_errors", "scheduler_status"} -> "admin"
    [] tool \in {"list_attachments", "attach_file", "get_print_html"} -> "files"
    [] tool \in ErpTools -> "erp"
    [] OTHER -> "core"

InToolsets(sets, tool) ==
  \/ Siteless(tool)
  \/ Toolset(tool) \in (IF sets = {} THEN {"core", "lifecycle"} ELSE sets)

(* The tools that are registered: of a tool set the server exposes, and not   *)
(* refused by the policy of every site.                                       *)
Registered(ps, sets) == {t \in Tools : AnyAllows(ps, t) /\ InToolsets(sets, t)}

-----------------------------------------------------------------------------
(* What the policy is asked about. *)

(* DocTypes the collaboration and the admin tools touch besides the document. *)
Beside(tool) ==
  CASE tool = "add_comment" -> {"Comment"}
    [] tool \in {"assign_to", "remove_assignment"} -> {"ToDo"}
    [] tool = "add_tag" -> {"Tag Link", "Tag"}
    [] tool = "remove_tag" -> {"Tag Link"}
    [] tool \in {"share_doc", "unshare_doc"} -> {"DocShare"}
    [] tool = "site_health" ->
         {"System Health Report", "Scheduled Job Type", "Error Log", "RQ Job",
          "Email Queue", "User"}
    [] tool = "list_jobs" -> {"RQ Job"}
    [] tool = "list_errors" -> {"Error Log", "System Settings"}
    [] tool = "scheduler_status" ->
         {"Scheduled Job Type", "Scheduled Job Log", "System Settings"}
    [] OTHER -> {}

Parties(c) ==
  (IF "customer" \in c.opts THEN {"Customer"} ELSE {}) \cup
  (IF "supplier" \in c.opts THEN {"Supplier"} ELSE {})

ErpDoctypes(c) ==
  CASE c.tool = "erp_map" ->
         {c.doctype, c.other} \cup
         (IF c.doctype = "Quotation" THEN {"Customer"} ELSE {})
    [] c.tool = "erp_payment" ->
         {c.doctype, "Payment Entry"} \cup
         (IF "bank" \in c.opts THEN {"Account"} ELSE {})
    [] c.tool = "erp_item" ->
         {"Item", "Price List", "Bin"} \cup Parties(c) \cup
         (IF "warehouse" \in c.opts THEN {"Warehouse"} ELSE {})
    [] c.tool = "erp_stock" -> {"Item", "Warehouse", "Bin"}
    [] c.tool = "erp_party" -> {"Address", "Contact"} \cup Parties(c)
    [] OTHER -> {}

(* The mutant forgets the method behind add_comment. *)
CommentToolSavesFiles(c) == c.tool = "add_comment" /\ "data" \in c.opts

(* An HTML comment with a data URI: the site saves the image as a File. *)
CommentSavesFiles(c) ==
  /\ "data" \in c.opts
  /\ c.tool = "add_comment" \/ c.method = "add_comment"

(* The DocType a tool's own doctype argument adds. *)
NamedDoctypes(c) ==
  IF c.tool \in {"erp_item", "erp_party"} THEN {} ELSE {c.doctype} \ {""}

FilterTables(c) ==
  IF "table" \in c.opts /\ c.tool \in QueryTools \cup {"call_method"}
    THEN {c.other} ELSE {}

ToolDoctypes(c) ==
  CASE c.tool = "whoami" -> {"User"}
    [] c.tool \in {"list_attachments", "attach_file"} -> {"File"}
    [] c.tool = "restore_doc" -> {"Deleted Document"}
    [] c.tool = "call_method" /\ c.doctype # "" -> ImplicitDoctypes(c.method)
    [] OTHER -> {}

(* Calls that destroy, cancel or merge documents or widen who sees them. *)
NeedsConfirm(c) ==
  \/ c.tool \in {"delete_doc", "bulk_delete", "cancel_doc", "bulk_submit",
                 "bulk_cancel", "apply_workflow", "share_doc", "assign_to"}
  \/ c.tool = "rename_doc" /\ "merge" \in c.opts
  \/ /\ c.tool = "call_method"
     /\ \/ c.method \in {"frappe.client.delete", "frappe.share.add"}
        \/ AnyMatch({"frappe.handler.run_doc_method"}, c.method)
             /\ "cancel" \in c.opts

ScopeOf(c) ==
  LET named == NamedDoctypes(c) \cup ToolDoctypes(c) \cup FilterTables(c)
                 \cup Beside(c.tool) \cup ErpDoctypes(c)
  IN  [tool |-> c.tool,
       doctypes |-> named \cup
         (IF named # {} /\ CommentSavesFiles(c) THEN {"File"} ELSE {}),
       method |-> c.method,
       bypass |-> "bypass" \in c.opts,
       joins |-> "join" \in c.opts /\ c.tool \in QueryTools \cup {"call_method"},
       report |-> [asked |-> c.tool = "run_report", doctype |-> c.behind],
       restore |-> [asked |-> c.tool = "restore_doc", doctype |-> c.behind],
       confirm |-> NeedsConfirm(c)]

-----------------------------------------------------------------------------
(* What the tools do: the DocTypes whose data the result shows, and those the *)
(* site writes documents of. The names of DocTypes and reports, and their     *)
(* schemas, are not data.                                                     *)

Effect(show, write) == [show |-> show, write |-> write]
Named(c) == {c.doctype} \ {""}
Reached(c) == IF c.opts \cap {"join", "table"} # {} THEN {c.other} ELSE {}

ReadsOne(c) == Effect(Named(c), {})
QueryReads(c) == Effect({c.doctype} \cup Reached(c), {})
SearchReads(p, c) ==
  Effect(IF c.doctype # "" THEN {c.doctype} ELSE FilterDoctypes(p, c.hits), {})

(* The parts of a document's context, by the DocType each is read from, and   *)
(* a timeline entry, read from one or two.                                    *)
ContextSections ==
  {"Version", "Comment", "Communication", "File", "ToDo", "DocShare", "Tag Link"}
TimelineSources == {{"Version"}, {"Comment"}, {"Communication"}, {"Comment", "File"}}

FilterDocContext(p, c) ==
  FilterDoctypes(p, ContextSections)
    \cup (IF "links" \in c.opts THEN FilterDoctypes(p, c.hits) ELSE {})
    \cup (IF "timeline" \in c.opts
            THEN UNION {s \in TimelineSources : s = FilterDoctypes(p, s)} ELSE {})

ContextReads(p, c) == Effect({c.doctype} \cup FilterDocContext(p, c), {})

(* A prepared report is started unless it is named; read-only only reuses     *)
(* one, so that "fresh" is refused.                                           *)
PreparedMayStart(p, c) ==
  /\ ~ReadOnly(p)
  /\ "prepared" \in c.opts
  /\ "named" \notin c.opts

ToolRefuses(p, c) == c.tool = "run_report" /\ "fresh" \in c.opts /\ ReadOnly(p)

ReportRuns(p, c) ==
  Effect({c.behind}, IF PreparedMayStart(p, c) THEN {"Prepared Report"} ELSE {})

DocWrites(c) == Effect(Named(c), Named(c))
BulkWrites(c) == Effect(Named(c), Named(c))

(* A comment, and the File the site makes of an image in it. *)
CommentSaved(c) == {"Comment"} \cup (IF "data" \in c.opts THEN {"File"} ELSE {})

MethodRuns(c) ==
  Effect(Named(c) \cup Reached(c),
    CASE c.method = "frappe.share.add" -> {"DocShare"}
      [] c.method = "add_comment" -> CommentSaved(c)
      [] c.method \in {"frappe.client.get", "frappe.client.get_time_zone"} -> {}
      [] OTHER -> Named(c))

CoreDoes(p, c) ==
  CASE c.tool \in QueryTools -> QueryReads(c)
    [] c.tool \in {"get_doc", "get_schema", "check_permission"} -> ReadsOne(c)
    [] c.tool = "search" -> SearchReads(p, c)
    [] c.tool = "get_doc_context" -> ContextReads(p, c)
    [] c.tool = "run_report" -> ReportRuns(p, c)
    [] c.tool = "whoami" -> Effect({"User"}, {})
    [] c.tool = "call_method" -> MethodRuns(c)
    [] c.tool \in {"create_doc", "update_doc", "delete_doc"} -> DocWrites(c)
    [] c.tool \in {"bulk_create", "bulk_update", "bulk_delete"} -> BulkWrites(c)
    [] OTHER -> Effect({}, {})

LifecycleDoes(c) ==
  CASE c.tool = "get_transitions" -> ReadsOne(c)
    [] c.tool = "restore_doc" -> Effect({}, {c.behind})
    [] OTHER -> Effect(Named(c), Named(c))

CollabDoes(c) ==
  Effect(Named(c),
    CASE c.tool = "add_comment" -> CommentSaved(c)
      [] c.tool \in {"assign_to", "remove_assignment"} -> {"ToDo"}
      [] c.tool = "add_tag" -> {"Tag", "Tag Link"}
      [] OTHER -> {"Tag Link"})

AdminDoes(p, c) ==
  CASE c.tool \in {"share_doc", "unshare_doc"} -> Effect(Named(c), {"DocShare"})
    [] c.tool = "list_errors" ->
         Effect({"Error Log"} \cup FilterDoctypes(p, c.hits), {})
    [] OTHER -> Effect(Beside(c.tool), {})

FilesDo(c) ==
  CASE c.tool = "attach_file" ->
         Effect(Named(c), {"File"} \cup
                  (IF "field" \in c.opts THEN Named(c) ELSE {}))
    [] c.tool = "list_attachments" -> Effect({"File"}, {})
    [] OTHER -> ReadsOne(c)

(* ERPNext's drafts and lookups are answered unsaved. *)
ERPDoes(c) == Effect(ErpDoctypes(c), {})

Does(p, c) ==
  CASE Toolset(c.tool) = "core" -> CoreDoes(p, c)
    [] Toolset(c.tool) = "lifecycle" -> LifecycleDoes(c)
    [] Toolset(c.tool) = "collab" -> CollabDoes(c)
    [] Toolset(c.tool) = "admin" -> AdminDoes(p, c)
    [] Toolset(c.tool) = "files" -> FilesDo(c)
    [] OTHER -> ERPDoes(c)

(* What cannot be undone, or gives other users access to a document. *)
Destroys(c) ==
  \/ c.tool \in {"delete_doc", "bulk_delete", "cancel_doc", "bulk_cancel",
                 "apply_workflow"}
  \/ c.tool = "rename_doc" /\ "merge" \in c.opts
  \/ c.method = "frappe.client.delete"
  \/ c.method \in {"run_doc_method", "frappe.handler.run_doc_method"}
       /\ "cancel" \in c.opts

Grants(c) == c.tool \in {"share_doc", "assign_to"} \/ c.method = "frappe.share.add"

-----------------------------------------------------------------------------
(* A call that names one DocType and no option. *)
PlainCall(tool, dt) ==
  [tool |-> tool, site |-> "", doctype |-> dt, other |-> "", method |-> "",
   opts |-> {}, behind |-> "", hits |-> {}]

(* A completion for a template or prompt that needs tools: every one of them  *)
(* is registered and the site's rules allow it.                               *)
Offers(p, served, tools) ==
  tools \subseteq served /\ \A t \in tools : ToolAllowed(p, t)

(* The mutant offers what may be read for the argument of a writing prompt. *)
OfferedForReading(p, served, tools, cached) ==
  IF Offers(p, served, tools) THEN FilterDoctypes(p, cached) ELSE {}

(* The DocTypes offered for its argument, from the cached lists. *)
OfferedDoctypes(p, served, tools, cached) ==
  IF Offers(p, served, tools)
    THEN {dt \in cached : DoctypeAllowed(p, dt, ~(tools \subseteq ReadTools))}
    ELSE {}

(* The reports offered, each by its DocType. *)
OfferedReports(p, served, tools, cached) ==
  IF Offers(p, served, tools)
    THEN {dt \in cached : HasDoctypeRules(p) => dt # "" /\ DoctypeAllowed(p, dt, FALSE)}
    ELSE {}
=============================================================================
