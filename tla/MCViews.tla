------------------------------ MODULE MCViews ------------------------------
(* Instances of Views for TLC, and a statement of the repository about its  *)
(* leases that the code does not keep.                                      *)
EXTENDS Views

CONSTANTS r1, nas, printer, addr, ip1, ip2, vpn1, vpn2, alice

\* nas is mapped on the LAN; printer, mapped on an optional interface, may get
\* a mapping on the LAN too or lose its override, or nas its mapping.
Old(n) == [name |-> n, value |-> addr, by |-> NoRequest]
MCInitialConfig == [dns |-> <<Old(nas), Old(printer)>>, lan |-> <<Old(nas)>>, opt |-> <<>>]
Edit1(kind, section, name) ==
    [kind |-> kind, section |-> section, name |-> name, value |-> addr, caller |-> "admin"]
MCCalls == [r \in Requests |-> {
    Edit1("add", "lan", printer), Edit1("delete", "lan", nas), Edit1("delete", "dns", nas)}]

Leased(ip, mac, ends, active) == [ip |-> ip, mac |-> mac, ends |-> ends, active |-> active]
\* A lease, one that ends later, the release of either, one that never ends,
\* the same address for another client, and a block without a client.
MCBlocks == {
    Leased(ip1, nas, 1, TRUE), Leased(ip2, nas, 2, TRUE), Leased(ip2, nas, 1, FALSE),
    Leased(ip2, printer, NoEnd, TRUE), Leased(ip1, NoMac, 2, FALSE)}

MCLogs == {
    <<Leased(ip1, nas, 1, TRUE)>>,
    <<Leased(ip2, nas, 2, TRUE), Leased(ip1, NoMac, 2, FALSE), Leased(ip1, printer, 1, TRUE)>>}

MCArpTables == {
    <<[ip |-> ip1, mac |-> nas], [ip |-> ip2, mac |-> printer], [ip |-> ip1, mac |-> Incomplete]>>}

MCServers == <<vpn1, vpn2>>
MCClients == (vpn1 :> <<alice>>) @@ (vpn2 :> <<>>)

\* The forwarder's host, which has no say while unbound resolves.
MCOtherHosts == <<Old(printer)>>

\* pfsense.rs:881: "active leases, deduplicated by MAC (keeping latest)".  Less
\* than that: at some time since the request a lease that is listed is active,
\* by the last block of its address, or no other of its client outlasts it.
Outlasts(b, l) == b.mac = l.mac /\ l.ends # NoEnd /\ (b.ends = NoEnd \/ b.ends > l.ends)
NewestOf(ip, n) == CHOOSE i \in 1 .. n :
    log[i].ip = ip /\ \A j \in 1 .. n : log[j].ip = ip => j <= i
IsActive(l, n) == log[NewestOf(l.ip, n)].active /\ log[NewestOf(l.ip, n)].mac = l.mac
ListedIsActiveOrLatest ==
    status = "answered" /\ lost = 0 =>
        \A l \in shown.leases : \E n \in began.log .. Len(log) :
            IsActive(l, n) \/ ~\E i \in 1 .. n : Outlasts(log[i], l)

\* A lease that was released before its end, and a new one that never ends.
ReleasedLogs == {<<Leased(ip1, nas, 2, TRUE), Leased(ip1, nas, 1, FALSE)>>}
EndlessBlocks == {Leased(ip2, nas, NoEnd, TRUE), Leased(ip2, printer, 1, TRUE)}
=============================================================================
