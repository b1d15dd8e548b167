----------------------------- MODULE McpPolicy -----------------------------
(* The policy of `ffc mcp` on one site: the rules of the site's config, which *)
(* may loosen the built-in rules, and those of the command line's flags,      *)
(* which only tighten (mcp_policy.go, mcp_confirm.go, mcp_server.go).         *)
(*                                                                            *)
(* A policy p is [cfg |-> rules, flag |-> rules] and rules are                *)
(*   [readOnly, allowTools, allowDoctypes, denyDoctypes, allowMethods,        *)
(*    denyMethods, confirm].                                                  *)
(* A list is the set of its names and {} is no list; the code folds the case  *)
(* of DocTypes and trims names, here one name has one spelling.               *)
(*                                                                            *)
(* What a call touches is a scope (toolScope):                                *)
(*   [tool, doctypes, method, bypass, joins, report, restore, confirm].       *)
(* joins holds when its filters or fields reach another table; report and     *)
(* restore are [asked, doctype]: whether the check through the site applies,  *)
(* and the DocType the site then tells ("" for none).                         *)
EXTENDS Naturals

(* The tools, as the policy sees them. *)
ReadTools ==
  {"list_sites", "ping", "get_doc", "list_docs", "count_docs", "get_schema",
   "list_doctypes", "list_reports", "run_report", "get_transitions", "search",
   "whoami", "check_permission", "get_doc_context", "aggregate",
   "list_attachments", "get_print_html", "site_health", "list_jobs",
   "list_errors", "scheduler_status", "erp_map", "erp_payment", "erp_item",
   "erp_stock", "erp_party"}

WriteTools ==
  {"create_doc", "update_doc", "delete_doc", "bulk_create", "bulk_update",
   "bulk_delete", "submit_doc", "cancel_doc", "amend_doc", "bulk_submit",
   "bulk_cancel", "copy_doc", "rename_doc", "apply_workflow", "restore_doc",
   "add_comment", "assign_to", "remove_assignment", "add_tag", "remove_tag",
   "share_doc", "unshare_doc", "attach_file"}

Tools == ReadTools \cup WriteTools \cup {"call_method"}

(* DocTypes that may be read and are written only when the config lists them: *)
(* of the code's list, those some tool reads or writes by itself, and         *)
(* "Server Script" for the rest.                                              *)
SensitiveDoctypes ==
  {"User", "File", "DocShare", "Report", "System Settings",
   "Scheduled Job Type", "Deleted Document", "Server Script"}

(* Methods: one of each kind the rules tell apart, and their names' wildcards. *)
DeniedMethods == {"generate_keys", "deleted_document.restore"}
ClientMethods == {"frappe.client.get", "frappe.client.delete",
                  "frappe.client.get_time_zone"}
ShareMethods == {"frappe.share.add"}
DocMethods == {"frappe.client.*", "frappe.handler.run_doc_method",
               "frappe.share.*", "add_comment"}
DocMethodsWithoutDoctype == {"frappe.client.get_time_zone"}
ImplicitDoctypes(m) ==
  CASE m = "frappe.share.add" -> {"DocShare"}
    [] m = "add_comment" -> {"Comment"}
    [] OTHER -> {}

(* The names a method is matched under: an undotted name is also a handler. *)
MethodNames(m) ==
  IF m = "run_doc_method" THEN {m, "frappe.handler.run_doc_method"} ELSE {m}

Covered(entry) ==
  CASE entry = "frappe.client.*" -> ClientMethods
    [] entry = "frappe.share.*" -> ShareMethods
    [] OTHER -> {entry}

AnyMatch(list, m) == \E x \in list : Covered(x) \cap MethodNames(m) # {}

Passes(list, x) == list = {} \/ x \in list

ReadOnly(p) == p.cfg.readOnly \/ p.flag.readOnly

(* Whether a tool may be registered and called. *)
ToolAllowed(p, tool) ==
  /\ Passes(p.cfg.allowTools, tool)
  /\ Passes(p.flag.allowTools, tool)
  /\ tool \in Tools
  /\ ReadOnly(p) => tool \in ReadTools

DoctypeDenied(p, dt) == dt \in p.cfg.denyDoctypes \/ dt \in p.flag.denyDoctypes

DoctypeAllowed(p, dt, write) ==
  /\ ~DoctypeDenied(p, dt)
  /\ Passes(p.cfg.allowDoctypes, dt)
  /\ Passes(p.flag.allowDoctypes, dt)
  /\ (write /\ dt \in SensitiveDoctypes) => dt \in p.cfg.allowDoctypes

(* A method can reach any DocType: a list of DocTypes needs a list of methods *)
(* of the same source or a stricter one.                                      *)
MethodAllowed(p, m) ==
  /\ ~AnyMatch(p.cfg.denyMethods, m)
  /\ ~AnyMatch(p.flag.denyMethods, m)
  /\ AnyMatch(DeniedMethods, m) => AnyMatch(p.cfg.allowMethods, m)
  /\ p.cfg.allowMethods # {} => AnyMatch(p.cfg.allowMethods, m)
  /\ p.flag.allowMethods # {} => AnyMatch(p.flag.allowMethods, m)
  /\ p.cfg.allowDoctypes # {} => p.cfg.allowMethods # {}
  /\ p.flag.allowDoctypes # {} =>
       p.cfg.allowMethods # {} \/ p.flag.allowMethods # {}

HasDoctypeRules(p) ==
  \E r \in {p.cfg, p.flag} : r.allowDoctypes # {} \/ r.denyDoctypes # {}

CheckQueryFields(p, sc) == HasDoctypeRules(p) => ~sc.joins

CheckDoctypes(p, sc) ==
  \A dt \in sc.doctypes :
    IF sc.tool = "restore_doc" /\ dt = "Deleted Document"
      THEN ~DoctypeDenied(p, dt)
      ELSE DoctypeAllowed(p, dt, sc.tool \notin ReadTools)

CheckMethod(p, sc) ==
  /\ ~sc.bypass
  /\ (AnyMatch(DocMethods, sc.method)
        /\ ~AnyMatch(DocMethodsWithoutDoctype, sc.method)) => sc.doctypes # {}
  /\ MethodAllowed(p, sc.method)

(* The rules a call is held to before any request is sent. *)
Check(p, sc) ==
  /\ ToolAllowed(p, sc.tool)
  /\ CheckDoctypes(p, sc)
  /\ CheckQueryFields(p, sc)
  /\ sc.tool = "call_method" => CheckMethod(p, sc)

(* The rules that need the site: the DocType of a report, and of the document *)
(* a Deleted Document would restore.                                          *)
CheckReport(p, sc) ==
  (sc.report.asked /\ HasDoctypeRules(p)) =>
    sc.report.doctype # "" /\ DoctypeAllowed(p, sc.report.doctype, FALSE)

CheckRestore(p, sc) ==
  sc.restore.asked =>
    sc.restore.doctype # "" /\ DoctypeAllowed(p, sc.restore.doctype, TRUE)

(* The stricter of the site's mode, "if-supported" when unset, and the flag's. *)
Rank(mode) ==
  CASE mode = "always" -> 3
    [] mode = "if-supported" -> 2
    [] mode = "never" -> 1
    [] OTHER -> 0

ConfirmMode(p) ==
  LET own == IF p.cfg.confirm = "" THEN "if-supported" ELSE p.cfg.confirm
  IN  IF Rank(p.flag.confirm) > Rank(own) THEN p.flag.confirm ELSE own

(* MCPServer.Classify: ffc is certain to ask before such a call. *)
WillAsk(p, sc) == sc.confirm /\ Check(p, sc) /\ ConfirmMode(p) = "always"

(* A tool is served when some served site's policy allows it. *)
AnyAllows(ps, tool) == \E p \in ps : ToolAllowed(p, tool)

(* The rows of a global search that are kept. *)
FilterDoctypes(p, dts) == {dt \in dts : DoctypeAllowed(p, dt, FALSE)}
=============================================================================
