---------------------------- MODULE McpCallsMC ----------------------------
(* The situations TLC looks at. In the first one call at a time is made under *)
(* every combination of rules below: it is about what the rules let through.  *)
(* In the others a few calls meet: answers that come twice, late or with      *)
(* another call, edits of the config, sign-ins and Close.                     *)
EXTENDS McpCalls, ConfigLock, SafetyScreen

NoRules == [readOnly |-> FALSE, allowTools |-> {}, allowDoctypes |-> {},
            denyDoctypes |-> {}, allowMethods |-> {}, denyMethods |-> {},
            confirm |-> ""]

DoctypeLists ==
  {{}, {"Task"}, {"Task", "Comment", "ToDo", "Error Log"},
   {"Task", "Quotation", "Order", "DocShare", "File", "Tag", "Tag Link"}}

DoctypeRules ==
  {[NoRules EXCEPT !.allowDoctypes = a, !.denyDoctypes = d, !.readOnly = r] :
     a \in DoctypeLists, d \in {{}, {"File"}, {"Secret"}, {"Customer", "Comment"},
                                {"Deleted Document"}}, r \in BOOLEAN}

MethodRules ==
  {[NoRules EXCEPT !.allowMethods = a, !.denyMethods = d, !.allowDoctypes = t] :
     a \in {{}, {"frappe.client.*", "generate_keys"}},
     d \in {{}, {"frappe.client.delete", "run_doc_method"}}, t \in {{}, {"Task"}}}

OtherRules ==
  {[NoRules EXCEPT !.confirm = "always"], [NoRules EXCEPT !.confirm = "never"],
   [NoRules EXCEPT !.allowTools = {"search", "get_doc", "delete_doc"}]}

Flags ==
  {NoRules, [NoRules EXCEPT !.confirm = "always"],
   [NoRules EXCEPT !.allowDoctypes = {"Task", "Comment", "Server Script"}],
   [NoRules EXCEPT !.denyDoctypes = {"Task"}, !.allowMethods = {"add_comment"}]}

Plain(tool) ==
  [PlainCall(tool, IF tool \in OptionalDoctype \cup NoDoctype THEN "" ELSE "Task")
     EXCEPT !.other = "Secret", !.hits = {"Task", "Secret"}]

With(tool, options) == {[Plain(tool) EXCEPT !.opts = o] : o \in options}

Method(m, options) ==
  {[Plain("call_method") EXCEPT !.method = m, !.doctype = dt, !.opts = o] :
     dt \in {"", "Task", "Server Script"}, o \in options}

Calls ==
  {Plain(t) : t \in Tools}
    \cup UNION {With(t, {{"join"}, {"table"}}) : t \in QueryTools}
    \cup With("add_comment", {{"data"}})
    \cup With("attach_file", {{"field"}})
    \cup With("rename_doc", {{"merge"}})
    \cup With("get_doc_context", {{"links", "timeline"}})
    \cup With("run_report", {{"prepared"}, {"prepared", "fresh"}, {"prepared", "named"}})
    \cup {[Plain("run_report") EXCEPT !.behind = dt] : dt \in {"Task", "Secret"}}
    \cup {[Plain("restore_doc") EXCEPT !.behind = dt] : dt \in {"Task", "Server Script"}}
    \cup {[Plain(t) EXCEPT !.doctype = "Server Script"] :
            t \in {"get_doc", "create_doc", "delete_doc", "copy_doc"}}
    \cup {[Plain("search") EXCEPT !.doctype = "Secret"]}
    \cup {[Plain("erp_map") EXCEPT !.doctype = "Quotation", !.other = "Order"]}
    \cup With("erp_payment", {{"bank"}})
    \cup With("erp_item", {{"customer", "warehouse"}, {"supplier"}})
    \cup With("erp_party", {{"customer"}, {"supplier"}})
    \cup Method("frappe.client.get", {{}, {"join"}, {"table"}})
    \cup Method("frappe.client.delete", {{}, {"bypass"}})
    \cup Method("frappe.client.get_time_zone", {{}})
    \cup Method("frappe.share.add", {{}})
    \cup Method("run_doc_method", {{}, {"cancel"}})
    \cup Method("add_comment", {{}, {"data"}, {"as_other"}})
    \cup Method("generate_keys", {{}})
    \cup Method("custom", {{}})

AllSets == {"core", "lifecycle", "collab", "admin", "files", "erp"}

Sweep == [sites |-> {"s1"}, configs |-> DoctypeRules \cup MethodRules \cup OtherRules,
          flags |-> Flags, later |-> {}, toolsets |-> AllSets, calls |-> Calls,
          prompts |-> {{"get_doc"}, {"get_schema"}, {"get_schema", "list_docs", "count_docs"},
                       {"get_schema", "bulk_create", "list_docs", "count_docs"},
                       {"get_doc", "list_docs"}, {"run_report", "get_doc"}},
          cached |-> {"Task", "Secret", "Server Script", ""},
          elicits |-> FALSE,
          workers |-> {1}, closes |-> FALSE, until |-> 0]

Always == [NoRules EXCEPT !.confirm = "always"]
Delete(site) == [Plain("delete_doc") EXCEPT !.site = site]

Answers == [sites |-> {"s1"}, configs |-> {Always}, flags |-> {NoRules}, later |-> {}, toolsets |-> {},
            calls |-> {Delete(""), [Delete("") EXCEPT !.doctype = "Note"]},
            prompts |-> {}, cached |-> {}, elicits |-> TRUE, workers |-> {1, 2}, closes |-> FALSE, until |-> 1]

TwoSites == [sites |-> {"s1", "s2"}, configs |-> {Always}, flags |-> {NoRules},
             later |-> {[NoRules EXCEPT !.readOnly = TRUE]}, toolsets |-> {},
             calls |-> {Delete("s1"), Delete("s2"), [Delete("s1") EXCEPT !.site = ""]},
             prompts |-> {}, cached |-> {}, elicits |-> TRUE, workers |-> {1}, closes |-> FALSE, until |-> 1]

Closing == [sites |-> {"s1", "s2"}, configs |-> {NoRules}, flags |-> {NoRules},
            later |-> {[NoRules EXCEPT !.readOnly = TRUE]}, toolsets |-> {},
            calls |-> {[Plain("get_doc") EXCEPT !.site = s] : s \in {"s1", "s2"}},
            prompts |-> {}, cached |-> {}, elicits |-> FALSE, workers |-> {1, 2}, closes |-> TRUE, until |-> 0]

MCScenes == <<Sweep, Answers, TwoSites, Closing>>

(* The rules the Safety screen goes through, and the calls they are compared  *)
(* on, for servers with and without flags.                                    *)
MCDrafts ==
  {[NoRules EXCEPT !.allowDoctypes = a, !.allowMethods = m] :
     a \in {{}, {"Task"}, {"Task", "Server Script"}},
     m \in {{}, {"frappe.client.*"}, {"generate_keys"}}}
    \cup {[NoRules EXCEPT !.readOnly = TRUE], [NoRules EXCEPT !.denyDoctypes = {"Task"}],
          [NoRules EXCEPT !.confirm = "always"],
          [NoRules EXCEPT !.confirm = "never"], [NoRules EXCEPT !.allowTools = {"get_doc"}],
          [NoRules EXCEPT !.denyMethods = {"frappe.client.get"}]}

MCServerFlags ==
  {NoRules, [NoRules EXCEPT !.confirm = "if-supported"],
   [NoRules EXCEPT !.denyDoctypes = {"Secret"}, !.allowMethods = {"frappe.client.*"}],
   [NoRules EXCEPT !.allowDoctypes = {"Task"}, !.allowMethods = {"generate_keys"}],
   [NoRules EXCEPT !.allowDoctypes = {"Task"}]}

MCScopes ==
  {ScopeOf(c) : c \in UNION {
     {[Plain(t) EXCEPT !.doctype = dt, !.opts = o] :
        t \in {"get_doc", "create_doc", "list_docs"}, dt \in {"Task", "Secret", "Server Script"},
        o \in {{}, {"join"}}},
     {[Plain("run_report") EXCEPT !.behind = dt] : dt \in {"Task", "Secret"}},
     UNION {Method(m, {{}}) : m \in {"frappe.client.get", "frappe.client.delete", "generate_keys"}}}}

-----------------------------------------------------------------------------
(* Three components: a server's calls, the lock of the config file its rules  *)
(* are in, and the screen that edits them, each in a part of the behaviours.  *)
VARIABLE part

MCInit ==
  /\ part \in {"calls", "lock", "screen"}
  /\ McpInit /\ Init /\ ScreenInit
  /\ part # "calls" => scene = 2
  /\ part # "screen" => rules = NoRules

MCNext ==
  /\ UNCHANGED part
  /\ \/ part = "calls" /\ McpNext /\ UNCHANGED <<vars, screenVars>>
     \/ part = "lock" /\ Next /\ UNCHANGED <<mcpVars, screenVars>>
     \/ part = "screen" /\ ScreenNext /\ UNCHANGED <<mcpVars, vars>>

(* The lock's steps are enabled in its own part alone: its fairness is as it  *)
(* stands.                                                                    *)
MCSpec ==
  /\ MCInit /\ [][MCNext]_<<part, mcpVars, vars, screenVars>>
  /\ Fairness
=============================================================================
