------------------------------ MODULE Leases ------------------------------
(***************************************************************************)
(* dhcpd.leases as dhcpd writes it, line by line, and what                 *)
(* parse_isc_leases in src/src/pfsense.rs makes of it.  dhcpd appends a    *)
(* block whenever a lease changes, so a client has several.                *)
(*                                                                         *)
(* The parser compares end times as text.  Written out in full they are in *)
(* the order of time, so they are numbers here.  A block that says "ends   *)
(* never" has no text for an end, which is less than any other, though its *)
(* lease outlasts all: NoEnd.                                              *)
(***************************************************************************)
EXTENDS SequencesExt, TLC

CONSTANTS
    Macs,
    NoMac,      \* of a block without a "hardware ethernet" line
    Addresses,
    LastTime    \* bound of the end times

ASSUME LeasesAssumption == NoMac \notin Macs /\ LastTime \in Nat

Times == 0 .. LastTime
NoEnd == 0

\* `active` is the "binding state", which no code reads.
Block == [ip : Addresses, mac : Macs \cup {NoMac}, ends : Times, active : BOOLEAN]

Lease == [ip : Addresses, mac : Macs, ends : Times]

\* A loop over a list: step[acc][x] is what an element x makes of acc.
Folded(step, first, list) ==
    LET after[n \in 0 .. Len(list)] ==
            IF n = 0 THEN first ELSE step[after[n - 1]][list[n]]
    IN after[Len(list)]

---------------------------------------------------------------------------
(* The file. "other" is any line that the parser passes over.              *)

LogLine ==
    [key : {"lease"}, value : Addresses] \cup [key : {"hardware"}, value : Macs]
        \cup [key : {"ends"}, value : Times] \cup [key : {"other", "}"}, value : {0}]

Line(key, value) == [key |-> key, value |-> value]

Text(b) ==
    IF b.mac = NoMac
    THEN <<Line("lease", b.ip), Line("ends", b.ends), Line("other", 0), Line("}", 0)>>
    ELSE <<Line("lease", b.ip), Line("ends", b.ends), Line("other", 0), Line("hardware", b.mac), Line("}", 0)>>

AfterBlock[lines \in Seq(LogLine)] == [b \in Block |-> lines \o Text(b)]

Lines(log) == Folded(AfterBlock, <<>>, log)

---------------------------------------------------------------------------
(* The loop over the lines: the block it is in, if any, and those it has   *)
(* left.                                                                   *)

NoBlock == [in |-> FALSE]
Current == {NoBlock} \cup [in : {TRUE}, ip : Addresses, mac : Macs \cup {NoMac}, ends : Times]
Loop == [current : Current, leases : Seq(Lease)]

AfterLine[state \in Loop] == [line \in LogLine |->
    CASE line.key = "lease" ->
            [state EXCEPT !.current = [in |-> TRUE, ip |-> line.value, mac |-> NoMac, ends |-> NoEnd]]
      [] state.current.in /\ line.key = "hardware" -> [state EXCEPT !.current.mac = line.value]
      [] state.current.in /\ line.key = "ends" -> [state EXCEPT !.current.ends = line.value]
      [] state.current.in /\ line.key = "}" ->
            [current |-> NoBlock,
             leases |-> IF state.current.mac = NoMac THEN state.leases
                        ELSE Append(state.leases, [ip |-> state.current.ip,
                                                   mac |-> state.current.mac,
                                                   ends |-> state.current.ends])]
      [] OTHER -> state]

Start == [current |-> NoBlock, leases |-> <<>>]

Parsed(lines) == Folded(AfterLine, Start, lines).leases

---------------------------------------------------------------------------
(* by_mac: one lease a MAC.                                                *)

ByMac == UNION {[macs -> Lease] : macs \in SUBSET Macs}

NoLeases == [mac \in {} |-> mac]

\* A lease that ends as late as this one, and came first, stays.
Keep[byMac \in ByMac] == [lease \in Lease |->
    IF lease.mac \in DOMAIN byMac /\ byMac[lease.mac].ends >= lease.ends
    THEN byMac
    ELSE [mac \in DOMAIN byMac \cup {lease.mac} |-> IF mac = lease.mac THEN lease ELSE byMac[mac]]]

\* Faulty: every block is a lease.
ParsedBlocks(lines) == ToSet(Parsed(lines))

\* The leases in no order: by_mac is a HashMap.
ParsedLeases(lines) ==
    LET kept == Folded(Keep, NoLeases, Parsed(lines)) IN {kept[mac] : mac \in DOMAIN kept}
===========================================================================
