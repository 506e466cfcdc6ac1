--------------------------- MODULE MCConfigClaims ---------------------------
(* Statements of the repository about the write path that its code does not *)
(* keep, with one request each.                                             *)
EXTENDS MCConfigWrites

\* nas and bare are overrides, once each; printer has a static mapping on an
\* optional interface and none on the LAN.
ClaimConfig ==
    [dns |-> <<Old(nas), Old(bare)>>, lan |-> << >>, opt |-> <<Old(printer)>>]

ClaimCalls == [r \in Requests |-> {
    Ask("delete", "dns", bare, addr, "admin"),
    Ask("update", "dns", nas, addr, "admin"),
    Ask("delete", "lan", printer, addr, "admin") }]

\* parse_dns_overrides: GET /dns/overrides and the page list what is under
\* <unbound>, a missing domain as "", each on the page with a delete button.
ListedOverrides(cfg) == {e.name : e \in EntriesIn(cfg, "dns")}

\* routes.rs:69: "A domain-less override is valid", so that a domain-less
\* delete is not refused: the delete of an override that is listed is never
\* answered 400.
ListedIsDeletable ==
    \A r \in Requests :
        LET c == call[r] IN
        (/\ c.kind = "delete" /\ c.section = "dns" /\ c.caller = "admin"
         /\ c.name \in ListedOverrides(versions[since[r]]))
            => reply[r] # "bad_request"

\* routes.rs:216: "Delete + re-add is the pfSense pattern for an update": an
\* update that was answered ok leaves one override of its name, if it found
\* no more than one.
UpdateReplaces ==
    \A r \in Requests :
        reply[r] = "ok" /\ call[r].kind = "update"
            => Cardinality(Matches(disk, call[r])) <= 1

\* parse_static_mappings: GET /dhcp/static and the page list the mappings of
\* every interface under <dhcpd>, each on the page with a delete button.
ListedMappings(cfg) ==
    {e.name : e \in EntriesIn(cfg, "lan") \cup EntriesIn(cfg, "opt")}

\* pfsense.rs:374: "Delete a static DHCP mapping by MAC address": a mapping
\* that was listed once, and whose delete was answered ok after its script
\* had run to its end, is listed no more.
DeletedIsGone ==
    \A r \in Requests :
        LET c == call[r] IN
        (/\ reply[r] = "ok" /\ c.kind = "delete" /\ c.section = "lan"
         /\ stage[<<r, "delete">>] = "exited")
            => c.name \notin ListedMappings(disk)
=============================================================================
