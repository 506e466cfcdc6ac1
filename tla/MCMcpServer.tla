---------------------------- MODULE MCMcpServer ----------------------------
(* Instances of McpServer for TLC, with one line of each kind that the      *)
(* loop, validate or dispatch treats differently, and what the comment of  *)
(* validate claims.                                                        *)
EXTENDS McpServer, TLC

CONSTANTS one, two

NoFields == [f \in Fields |-> "absent"]
Say(form, id, method, tool, action, fields) ==
    [form |-> form, id |-> id, method |-> method, tool |-> tool, action |-> action, fields |-> fields]

Form(form) == Say(form, Null, "other", "other", "none", NoFields)
Ask(id, method) == Say("json", id, method, "other", "none", NoFields)
CallOf(id, tool, action, fields) == Say("json", id, "tools/call", tool, action, fields)
Override(domain) == ("host" :> "text" @@ "domain" :> domain) @@ NoFields
Command(given) == ("command" :> given) @@ NoFields

MCLines == {
    Form("blank"), Form("garbage"), Form("binary"),
    Ask(one, "tools/list"), Ask(two, "other"),
    CallOf(two, "other", "get_devices", NoFields),
    CallOf(two, "network", "ssh_command", Command("text")),
    CallOf(Null, "network", "delete_dns_override", Override("text")),
    CallOf(one, "network", "delete_dns_override", Override("text")),
    CallOf(two, "network", "delete_dns_override", Override("other")),
    CallOf(one, "pfsense_ssh", "ssh_command", Command("empty")),
    CallOf(two, "pfsense_ssh", "ssh_command", Command("other")) }

\* mcp.rs:103: a field that is "absent or not a string" is answered "as an MCP
\* `isError` response before making any network call": what reaches the router
\* was asked for with a string in every required field.
RefusedBeforeTheNetwork ==
    \A k \in DOMAIN reached :
        LET line == written[reached[k]] IN
        \A f \in Required(line.tool, line.action) : line.fields[f] \notin {"absent", "other"}
=============================================================================
