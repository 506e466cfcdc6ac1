------------------------------- MODULE Views -------------------------------
(***************************************************************************)
(* Everything leo-pfsense-app shows of the router: the lists of the REST   *)
(* API and of the MCP tools, the dashboard and the Network page.           *)
(*                                                                         *)
(* A view is put together from commands that are sent one after the other, *)
(* each over a connection of its own: a list of the router's at the time   *)
(* of its command, all of it or, if the connection broke, the start of it. *)
(* Meanwhile requests edit config.xml - any way that ConfigService allows, *)
(* which is what the write path implements -, dhcpd writes leases, the WAN *)
(* link goes up and down, and the router stops answering and comes back.   *)
(* Nothing that is shown is kept, so one reader is all there is to see.    *)
(***************************************************************************)
EXTENDS ConfigService, Leases

CONSTANTS
    ViewNames,      \* the views that are asked for
    Blocks,         \* what dhcpd may append to dhcpd.leases
    InitialLogs,    \* what dhcpd.leases may hold at first
    MaxTurns,       \* bound: how often the log, the WAN link or the router change
    MaxLosses,      \* bound: outputs lost while the router answers
    ArpTables,      \* what arp may print, a sequence of rows
    Incomplete,     \* the MAC of a row that is unresolved or broadcast
    OtherHosts,     \* the <hosts> that config.xml has before <unbound>
    Servers,        \* the OpenVPN servers of config.xml, in order
    ClientsOf       \* ClientsOf[s]: who is connected to server s

Row == [ip : Addresses, mac : Macs \cup {Incomplete}]
ResolvedRow == [ip : Addresses, mac : Macs]

ASSUME ViewsAssumption ==
    /\ Macs \subseteq Names
    /\ Incomplete \notin Macs
    /\ Blocks \subseteq Block
    /\ ArpTables \subseteq Seq(Row)
    /\ InitialLogs \subseteq Seq(Block)
    /\ MaxTurns \in Nat /\ MaxLosses \in Nat
    /\ OtherHosts \in Seq(Entry)
    /\ Servers \in Seq(ToSet(Servers))
    /\ \A s \in ToSet(Servers) : ClientsOf[s] \in Seq(ToSet(ClientsOf[s]))

\* The service methods a view awaits, in order.
MethodsOf ==
    [page |-> <<"devices", "statics", "dns", "vpn", "wan", "lan">>,
     dashboard |-> <<"wan", "lan", "devices", "leases", "statics", "vpn", "dns">>,
     devices |-> <<"devices">>, leases |-> <<"leases">>, statics |-> <<"statics">>,
     dns |-> <<"dns">>, vpn |-> <<"vpn">>, wan |-> <<"wan">>, lan |-> <<"lan">>,
     haproxy |-> <<"haproxy">>]

\* The commands a method sends, in order; vpn adds a "status" for each server.
CommandsOf ==
    [devices |-> <<"arp", "leases", "config">>, leases |-> <<"leases">>,
     statics |-> <<"config">>, dns |-> <<"config">>, vpn |-> <<"config">>,
     wan |-> <<"config", "ifconfig", "route">>, lan |-> <<"config", "ifconfig">>,
     haproxy |-> <<"haproxy">>]

Methods == DOMAIN CommandsOf

ASSUME ViewNamesAssumption == ViewNames \subseteq DOMAIN MethodsOf

VARIABLES
    \* the router, beside its configuration
    log,        \* dhcpd.leases
    arp,        \* its ARP table
    link,       \* the WAN interface is up
    reachable,  \* it answers
    turns,      \* how often one of log, link and reachable has changed
    \* the view
    view,       \* its name
    status,     \* "idle", "reading", "answered", "failed"
    at,         \* which of its methods is at hand
    done,       \* how many of the commands of that method are over
    local,      \* what the method at hand has read
    shown,      \* what the methods have returned
    \* history
    began,      \* how long versions and log were when the view was asked for
    links,      \* what link has been since then
    lost,       \* how many commands have failed or lost output
    harm        \* harm[m]: what that did to method m: "none", "cut", "failed"

routerVars == <<log, arp, link, reachable, turns>>
viewVars == <<view, status, at, done, local, shown, began, links, lost, harm>>
vars == <<aVars, routerVars, viewVars>>

\* What a method of the page defaults to when it fails.
NothingRead == [arp |-> <<>>, leases |-> {}, named |-> FALSE, up |-> FALSE]
NothingShown ==
    [devices |-> <<>>, leases |-> {}, statics |-> <<>>, dns |-> <<>>, vpn |-> <<>>,
     wan |-> "unreachable", lan |-> "unreachable", haproxy |-> "none"]

Init ==
    /\ AInit
    /\ log \in InitialLogs
    /\ arp \in ArpTables
    /\ link = TRUE
    /\ reachable = TRUE
    /\ turns = 0
    /\ view \in ViewNames
    /\ status = "idle"
    /\ at = 1
    /\ done = 0
    /\ local = NothingRead
    /\ shown = NothingShown
    /\ began = [versions |-> 1, log |-> Len(log)]
    /\ links = {}
    /\ lost = 0
    /\ harm = [m \in Methods |-> "none"]

---------------------------------------------------------------------------
(* The router.                                                             *)

\* What changes after the answer is not followed.
Unanswered == status \in {"idle", "reading"}

Edit ==
    /\ Unanswered
    /\ ANext
    /\ UNCHANGED <<routerVars, viewVars>>

Turn ==
    /\ Unanswered
    /\ turns < MaxTurns
    /\ turns' = turns + 1

WriteLease ==
    /\ Turn
    /\ \E b \in Blocks : log' = Append(log, b)
    /\ UNCHANGED <<aVars, arp, link, reachable, viewVars>>

FlipLink ==
    /\ Turn
    /\ link' = ~link
    /\ links' = links \cup {link'}
    /\ UNCHANGED <<aVars, log, arp, reachable, view, status, at, done, local, shown, began, lost, harm>>

GoOrComeBack ==
    /\ Turn
    /\ reachable' = ~reachable
    /\ UNCHANGED <<aVars, log, arp, link, viewVars>>

---------------------------------------------------------------------------
(* The commands.                                                           *)

Ask ==
    /\ status = "idle"
    /\ status' = "reading"
    /\ began' = [versions |-> Len(versions), log |-> Len(log)]
    /\ links' = {link}
    /\ UNCHANGED <<aVars, routerVars, view, at, done, local, shown, lost, harm>>

Method == MethodsOf[view][at]

\* The command to send next: after its first, vpn sends a "status" for each server.
Command == IF Method = "vpn" /\ done > 0 THEN "status" ELSE CommandsOf[Method][done + 1]

Awaiting == status = "reading" /\ at <= Len(MethodsOf[view])

At(command) ==
    /\ Awaiting
    /\ Command = command
    /\ reachable

\* The command's output came to its end, or the connection broke before.
Whole == UNCHANGED <<lost, harm>>
Broken ==
    /\ lost < MaxLosses
    /\ lost' = lost + 1
    /\ harm' = [harm EXCEPT ![Method] = "cut"]

Cuts(s) == {SubSeq(s, 1, n) : n \in 0 .. Len(s) - 1}
Outputs(s) == {s} \cup Cuts(s)

Received(s, output) ==
    \/ Whole /\ output = s
    \/ Broken /\ output \in Cuts(s)

\* The method at hand goes on to its next command, or is over.
Further == done' = done + 1 /\ at' = at
Over == at' = at + 1 /\ done' = 0

GoesOn(read) ==
    /\ local' = read
    /\ Further
    /\ UNCHANGED <<aVars, routerVars, view, status, shown, began, links>>
Returns(result) ==
    /\ local' = NothingRead
    /\ shown' = [shown EXCEPT ![Method] = result]
    /\ Over
    /\ UNCHANGED <<aVars, routerVars, view, status, began, links>>

\* parse_static_mappings takes every interface's, parse_dns_overrides all
\* that is under <unbound>.
Mappings(cfg) == cfg["lan"] \o cfg["opt"]
Overrides(cfg) == cfg["dns"]

\* A file that is cut inside <unbound> has no </unbound> and is searched from
\* its start; one that is cut before has no <unbound> either.
CutOverrides(list) == {<<>>} \cup {OtherHosts \o some : some \in Outputs(list)}

\* Faulty: the configuration is read once and kept.
FirstDisk == versions[1]

Disk == versions[Len(versions)]

ReadArp ==
    /\ At("arp")
    /\ \E rows \in Outputs(arp) :
        Received(arp, rows) /\ GoesOn([local EXCEPT !.arp = rows])

ReadLeases ==
    /\ At("leases")
    /\ \E lines \in {Lines(log)} : \E output \in Outputs(lines) :
        /\ Received(lines, output)
        /\ IF Method = "leases"
           THEN Returns(ParsedLeases(output))
           ELSE GoesOn([local EXCEPT !.leases = ParsedLeases(output)])

---------------------------------------------------------------------------
(* get_devices.                                                            *)

\* lease_by_ip: of two leases of one address, either.
ByAddress(leases) ==
    LET ips == {l.ip : l \in leases} IN
    {byIp \in [ips -> leases] : \A ip \in ips : byIp[ip].ip = ip}

\* static_by_mac: of two mappings of one MAC, the last.
LastOf(statics, mac) ==
    statics[CHOOSE i \in DOMAIN statics :
                /\ statics[i].name = mac
                /\ \A j \in DOMAIN statics : statics[j].name = mac => j <= i]

IsMapped(statics, mac) == \E i \in DOMAIN statics : statics[i].name = mac

\* Faulty: the lease goes before the mapping.
DeviceByLease(row, byIp, statics) ==
    IF row.ip \in DOMAIN byIp
    THEN [row |-> row, source |-> "dhcp", named |-> {byIp[row.ip]}]
    ELSE [row |-> row, source |-> "arp", named |-> {}]

\* `named` is the mapping or lease that the name of the device is taken from.
DeviceOf(row, byIp, statics) ==
    CASE IsMapped(statics, row.mac) ->
            [row |-> row, source |-> "static", named |-> {LastOf(statics, row.mac)}]
      [] ~IsMapped(statics, row.mac) /\ row.ip \in DOMAIN byIp ->
            [row |-> row, source |-> "dhcp", named |-> {byIp[row.ip]}]
      [] OTHER -> [row |-> row, source |-> "arp", named |-> {}]

\* Faulty: rows that are not resolved are devices too.
AllRows(rows) == rows

AfterRow[kept \in Seq(ResolvedRow)] == [row \in Row |->
    IF row.mac = Incomplete THEN kept ELSE Append(kept, row)]

Resolved(rows) == Folded(AfterRow, <<>>, rows)

Joined(byIp, statics) ==
    LET rows == Resolved(local.arp) IN
    [i \in DOMAIN rows |-> DeviceOf(rows[i], byIp, statics)]

---------------------------------------------------------------------------
\* read_config_xml, for the list the method wants of it.
ReadConfigForDevices ==
    /\ At("config") /\ Method = "devices"
    /\ \E list \in Outputs(Mappings(Disk)), byIp \in ByAddress(local.leases) :
        Received(Mappings(Disk), list) /\ Returns(Joined(byIp, list))

ReadConfigForStatics ==
    /\ At("config") /\ Method = "statics"
    /\ \E list \in Outputs(Mappings(Disk)) :
        Received(Mappings(Disk), list) /\ Returns(list)

ReadConfigForDns ==
    /\ At("config") /\ Method = "dns"
    /\ \/ Whole /\ Returns(Overrides(Disk))
       \/ Broken /\ \E list \in CutOverrides(Overrides(Disk)) : Returns(list)

\* extract_openvpn_servers; a status.log is read for each.
ReadConfigForVpn ==
    /\ At("config") /\ Method = "vpn"
    /\ \E list \in Outputs(Servers) :
        /\ Received(Servers, list)
        /\ shown' = [shown EXCEPT !.vpn = [i \in DOMAIN list |-> [server |-> list[i], clients |-> <<>>]]]
        /\ IF list = <<>> THEN Over ELSE Further
    /\ UNCHANGED <<aVars, routerVars, view, status, local, began, links>>

\* On to the next server, if there is one.
NextServer == IF done = Len(shown.vpn) THEN Over ELSE Further

ReadStatus ==
    /\ At("status")
    /\ LET clients == ClientsOf[shown.vpn[done].server]
       IN \E list \in Outputs(clients) :
            /\ Received(clients, list)
            /\ shown' = [shown EXCEPT !.vpn[done].clients = list]
    /\ NextServer
    /\ UNCHANGED <<aVars, routerVars, view, status, local, began, links>>

\* The interface is named in config.xml; without it, the word "wan" or "lan"
\* is, which ifconfig does not know.
ReadConfigForInterface ==
    /\ At("config") /\ Method \in {"wan", "lan"}
    /\ \E named \in BOOLEAN :
        /\ (Whole /\ named) \/ Broken
        /\ GoesOn([local EXCEPT !.named = named])

\* The first line says UP.  The LAN's interface is up as long as it answers.
ReadIfconfig ==
    /\ At("ifconfig") /\ Method \in {"wan", "lan"}
    /\ LET up == local.named /\ (Method = "wan" => link) IN
       \E says \in {up, FALSE} :
        /\ (Whole /\ says = up) \/ Broken
        /\ IF Method = "lan"
           THEN Returns(IF says THEN "up" ELSE "down")
           ELSE GoesOn([local EXCEPT !.up = says])

ReadRoute ==
    /\ At("route") /\ Method = "wan"
    /\ Whole \/ Broken
    /\ Returns(IF local.up THEN "up" ELSE "down")

\* JSON that is cut does not parse, and is an empty configuration.
ReadHaproxy ==
    /\ At("haproxy") /\ Method = "haproxy"
    /\ \/ Whole /\ Returns("whole")
       \/ Broken /\ Returns("empty")

---------------------------------------------------------------------------
(* Failures.                                                               *)

\* Faulty: `?` on all of them.
NothingOptional == FALSE

\* unwrap_or_default and ok() on all of the page but its devices.
Optional == view = "page" /\ Method # "devices"

\* Faulty: a router that does not answer is waited for.
FailsAlive == reachable /\ lost < MaxLosses

MayFail == ~reachable \/ lost < MaxLosses

\* run_command returns an error: connect, or one of its timeouts.
CommandFails ==
    /\ Awaiting
    /\ MayFail
    /\ lost' = lost + 1
    /\ harm' = [harm EXCEPT ![Method] = IF Command = "status" THEN "cut" ELSE "failed"]
    /\ \/ /\ Command = "status"
          /\ NextServer
          /\ UNCHANGED <<status, local>>
       \/ /\ Command # "status"
          /\ Optional
          /\ Over
          /\ local' = NothingRead
          /\ UNCHANGED status
       \/ /\ Command # "status"
          /\ ~Optional
          /\ status' = "failed"
          /\ UNCHANGED <<at, done, local>>
    /\ UNCHANGED <<aVars, routerVars, view, shown, began, links>>

Respond ==
    /\ status = "reading"
    /\ at > Len(MethodsOf[view])
    /\ status' = "answered"
    /\ UNCHANGED <<aVars, routerVars, view, at, done, local, shown, began, links, lost, harm>>

---------------------------------------------------------------------------
Read ==
    \/ ReadArp \/ ReadLeases \/ ReadStatus
    \/ ReadConfigForDevices \/ ReadConfigForStatics \/ ReadConfigForDns
    \/ ReadConfigForVpn \/ ReadConfigForInterface
    \/ ReadIfconfig \/ ReadRoute \/ ReadHaproxy
    \/ CommandFails \/ Respond

Router == Edit \/ WriteLease \/ FlipLink \/ GoOrComeBack

Next == Router \/ Ask \/ Read

\* connect and inactivity_timeout end every command one way or the other.
Fairness == WF_vars(Read)

Spec == Init /\ [][Next]_vars
FairSpec == Spec /\ Fairness
---------------------------------------------------------------------------
(* Properties.                                                             *)

Client == UNION {ToSet(ClientsOf[s]) : s \in ToSet(Servers)}
Device == [row : ResolvedRow, source : {"static", "dhcp", "arp"},
           named : SUBSET (Entry \cup Lease)]

\* Every variable keeps its type; no device is a row that was not resolved.
TypeOK ==
    /\ log \in Seq(Block)
    /\ arp \in Seq(Row)
    /\ link \in BOOLEAN
    /\ reachable \in BOOLEAN
    /\ turns \in Nat
    /\ view \in DOMAIN MethodsOf
    /\ status \in {"idle", "reading", "answered", "failed"}
    /\ at \in 1 .. Len(MethodsOf[view]) + 1
    /\ done \in Nat
    /\ local.arp \in Seq(Row) /\ local.leases \subseteq Lease
    /\ local.named \in BOOLEAN /\ local.up \in BOOLEAN
    /\ shown.devices \in Seq(Device)
    /\ shown.leases \subseteq Lease
    /\ shown.statics \in Seq(Entry)
    /\ shown.dns \in Seq(Entry)
    /\ shown.vpn \in Seq([server : ToSet(Servers), clients : Seq(Client)])
    /\ shown.wan \in {"unreachable", "up", "down"}
    /\ shown.lan \in {"unreachable", "up", "down"}
    /\ shown.haproxy \in {"none", "whole", "empty"}
    /\ began.versions \in Nat /\ began.log \in Nat
    /\ links \subseteq BOOLEAN
    /\ lost \in Nat
    /\ harm \in [Methods -> {"none", "cut", "failed"}]

\* The configurations config.xml had while the view was put together.
Configs == {versions[i] : i \in began.versions .. Len(versions)}

\* Nothing stale and nothing invented: what a view lists of config.xml is the
\* start of a list that config.xml held between the request and the answer, a
\* device named by a mapping has that mapping in one of them, and a WAN that
\* is up was up, although each command is of another moment and any output
\* may be cut (get_devices, get_wan_info, the parsers).  Only if an output
\* was lost may the <hosts> of another resolver be listed before the overrides.
NothingInvented ==
    status \in {"reading", "answered"} =>
        /\ \E cfg \in Configs : shown.statics \in Outputs(Mappings(cfg))
        /\ \E cfg \in Configs :
            \/ shown.dns \in {<<>>, Overrides(cfg)}
            \/ lost > 0 /\ shown.dns \in CutOverrides(Overrides(cfg))
        /\ \E cfg \in Configs : \A i \in DOMAIN shown.devices :
            LET d == shown.devices[i] IN
            d.source = "static" =>
                \E e \in ToSet(Mappings(cfg)) : d.named = {e} /\ e.name = d.row.mac
        /\ shown.wan = "up" => TRUE \in links

\* What a device is said to be follows from one configuration and one log.
SourceIn(row, cfg, leases) ==
    CASE IsMapped(Mappings(cfg), row.mac) -> "static"
      [] ~IsMapped(Mappings(cfg), row.mac) /\ (\E l \in leases : l.ip = row.ip) -> "dhcp"
      [] OTHER -> "arp"

AreJoined(devices, rows, cfg, leases) ==
    [i \in DOMAIN devices |-> <<devices[i].row, devices[i].source>>]
        = [i \in DOMAIN rows |-> <<rows[i], SourceIn(rows[i], cfg, leases)>>]

\* What a method shows is all there was at one moment since the request: the
\* mappings, the overrides, each resolved ARP row once and with its source,
\* the servers with their clients, the WAN.
StaticsExact == \E cfg \in Configs : shown.statics = Mappings(cfg)
DnsExact == \E cfg \in Configs : shown.dns = Overrides(cfg)
DevicesExact ==
    \E cfg \in Configs, n \in began.log .. Len(log) :
        AreJoined(shown.devices, Resolved(arp), cfg, ParsedLeases(Lines(SubSeq(log, 1, n))))
VpnExact ==
    shown.vpn = [i \in DOMAIN Servers |-> [server |-> Servers[i], clients |-> ClientsOf[Servers[i]]]]
WanExact == (shown.wan = "up") \in links
HaproxyExact == shown.haproxy = "whole"

Exact(method) ==
    /\ method = "statics" => StaticsExact
    /\ method = "dns" => DnsExact
    /\ method = "devices" => DevicesExact
    /\ method = "vpn" => VpnExact
    /\ method = "wan" => WanExact
    /\ method = "haproxy" => HaproxyExact

Included == ToSet(MethodsOf[view])

\* An answer that lost nothing is exact, each list as of one moment since the
\* request; with config.xml unchanged meanwhile, the device list and the tabs
\* of the page agree.
WholeViewIsExact ==
    status = "answered" /\ lost = 0 => \A method \in Included : Exact(method)

\* "Devices are the core dataset - fail the page if they can't load.
\* Everything else degrades to empty so one broken subsystem doesn't blank
\* the whole surface" (network_data): whatever fails or is cut before or after
\* it, a method of the page that lost nothing is exact, one that failed shows
\* nothing, and the page fails with its devices and with nothing else.
PageDegrades ==
    view = "page" =>
        /\ status = "failed" => harm["devices"] = "failed"
        /\ status = "answered" =>
            /\ harm["devices"] # "failed"
            /\ \A method \in Included :
                /\ harm[method] = "none" => Exact(method)
                /\ harm[method] = "failed" => shown[method] = NothingShown[method]

\* Every client with a block when the list was asked for is listed, with a
\* lease that no other of its leases outlasts that ends at all.
LeasesExact ==
    \A i \in 1 .. began.log :
        log[i].mac # NoMac =>
            \E l \in shown.leases :
                l.mac = log[i].mac /\ (log[i].ends # NoEnd => l.ends >= log[i].ends)

\* parse_isc_leases, wherever the log is cut: one lease a client, that dhcpd
\* has written; and if nothing was lost, each client's, of those that end the
\* one that ends last.  It need not be the newest, and one that never ends
\* gives way to any that ends.
OneLeaseAClient ==
    /\ \A l, m \in shown.leases : l.mac = m.mac => l = m
    /\ \A l \in shown.leases : \E i \in DOMAIN log :
            l = [ip |-> log[i].ip, mac |-> log[i].mac, ends |-> log[i].ends]
    /\ status = "answered" /\ harm["leases"] = "none" /\ "leases" \in Included => LeasesExact

\* Every view is answered or fails, a router that stops answering or not.
EveryViewEnds == status = "reading" ~> status \in {"answered", "failed"}
=============================================================================
