--------------------------- MODULE MCConfigWrites ---------------------------
(* Instances of ConfigWrites for TLC. *)
EXTENDS ConfigWrites

CONSTANTS r1, r2, r3, nas, printer, bare, addr, junk

\* `bare` is an override without a domain, made on the router's own pages;
\* nas is listed in every section, twice under unbound.
Old(n) == [name |-> n, value |-> addr, by |-> NoRequest]
MCInitialConfig ==
    [dns |-> <<Old(nas), Old(bare), Old(nas)>>, lan |-> <<Old(nas)>>, opt |-> <<Old(nas)>>]

Ask(kind, section, name, value, caller) ==
    [kind |-> kind, section |-> section, name |-> name, value |-> value, caller |-> caller]

\* One call of each kind that behaves differently.
AllCalls == {
    Ask("add", "dns", printer, addr, "admin"),
    Ask("delete", "dns", nas, addr, "admin"),
    Ask("update", "dns", nas, addr, "admin"),
    Ask("add", "lan", printer, addr, "host"),
    Ask("delete", "lan", nas, addr, "admin"),
    Ask("delete", "lan", printer, addr, "host"),
    Ask("add", "lan", printer, addr, "member"),
    Ask("add", "dns", printer, addr, "anonymous"),
    Ask("add", "dns", printer, junk, "admin"),
    Ask("update", "dns", nas, junk, "admin"),
    Ask("delete", "dns", bare, addr, "host") }

\* Writers that meet, in one section and in two.
RaceCalls == [r \in Requests |->
    CASE r = r1 -> {Ask("add", "dns", nas, addr, "admin")}
      [] r = r2 -> {Ask("delete", "dns", nas, addr, "host")}
      [] OTHER -> {Ask("add", "lan", printer, addr, "admin")}]

\* Any call beside another writer; an update's own two scripts may meet too.
PairCalls == [r \in Requests |->
    IF r = r1 THEN AllCalls
              ELSE {Ask("delete", "dns", nas, addr, "admin"), Ask("add", "lan", printer, addr, "host")}]
=============================================================================
