----------------------------- MODULE Bandwidth -----------------------------
(***************************************************************************)
(* The throughput shown for the router's WAN and LAN: the background task  *)
(* of src/src/sampler.rs, the BandwidthMonitor of src/src/bandwidth.rs     *)
(* that it feeds, and the callers of GET /bandwidth that read it.          *)
(*                                                                         *)
(* The sampler asks the router which interface is the WAN and which the    *)
(* LAN, keeps the answer until a round trip fails, and reads the byte      *)
(* counters of every interface in one `netstat`.  run_command takes a lost *)
(* connection for the end of the output, so either answer may be cut short *)
(* and still count as an answer.                                           *)
(*                                                                         *)
(* A rate is the difference of two readings; what the code does to it      *)
(* afterwards (times 8, by the seconds between them, which are more than   *)
(* none) is left out.                                                      *)
(***************************************************************************)
EXTENDS Integers, Functions

CONSTANTS
    Nics,       \* the router's interfaces
    Readers,    \* callers of GET /bandwidth
    Wrap,       \* a byte counter counts modulo Wrap
    Base,       \* and is printed in this base
    FirstCount, \* what the counters stand at when the app starts
    MaxTraffic  \* bound: the bytes that pass each interface

Links == {"wan", "lan"}

\* What wan_lan_interface_names answers for a link it finds no name for.
Names == Nics \cup Links
Fallback == [l \in Links |-> l]

NoNames == [none |-> "names"]
NoReading == [none |-> "reading"]
NoRate == [none |-> "rate"]
Counters == [rx : 0 .. Wrap - 1, tx : 0 .. Wrap - 1]
Traffic == [rx : 0 .. MaxTraffic, tx : 0 .. MaxTraffic]
Rates == [down : 0 .. Wrap - 1, up : 0 .. Wrap - 1]

ASSUME BandwidthAssumption ==
    /\ Nics \cap Links = {}
    /\ Wrap \in Nat \ {0} /\ Base \in Nat \ {0, 1} /\ MaxTraffic \in Nat
    /\ FirstCount \in 0 .. Wrap - 1

VARIABLES
    \* the router
    up,         \* it answers
    settled,    \* it stays as it is, up or down: nothing fails any more
    assigned,   \* assigned[l]: the interface that is l in config.xml
    counter,    \* counter[n]: the totals netstat prints for interface n
    passed,     \* history: the bytes that have passed n
    \* the sampler
    stage,      \* "idle", "resolving", "sampling", "touching"
    interfaces, \* the names it keeps
    \* the monitor
    prev,       \* prev[l]: the reading Sampler l compares with
    latest,     \* latest[l]: the rate shown for l
    error,      \* router_error is set
    updated,    \* last_update is set
    \* the readers
    view        \* view[u]: what reader u was given: a rate, an error, an age

routerVars == <<up, settled, assigned, counter, passed>>
monitorVars == <<prev, latest, error, updated>>
vars == <<routerVars, stage, interfaces, monitorVars, view>>

\* A reading, with what history knows of it: the interface, whether its row
\* was complete, and what had passed the interface by then.
Readings == [count : Counters, nic : Nics, row : {"whole", "cut"}, passed : Traffic]

Init ==
    /\ up = TRUE
    /\ settled = FALSE
    /\ assigned \in {f \in [Links -> Nics] : f["wan"] # f["lan"]}
    /\ counter = [n \in Nics |-> [rx |-> FirstCount, tx |-> FirstCount]]
    /\ passed = [n \in Nics |-> [rx |-> 0, tx |-> 0]]
    /\ stage = "idle"
    /\ interfaces = NoNames
    /\ prev = [l \in Links |-> NoReading]
    /\ latest = [l \in Links |-> NoRate]
    /\ error = FALSE
    /\ updated = FALSE
    /\ view = [u \in Readers |-> [rates |-> FALSE, error |-> FALSE, age |-> "none"]]

---------------------------------------------------------------------------
(* The router.                                                             *)

Pass(n, d) ==
    /\ passed[n].rx + passed[n].tx < MaxTraffic
    /\ counter' = [counter EXCEPT ![n][d] = (@ + 1) % Wrap]
    /\ passed' = [passed EXCEPT ![n][d] = @ + 1]
    /\ UNCHANGED <<up, settled, assigned, stage, interfaces, monitorVars, view>>

Reboot ==
    /\ ~settled
    /\ counter' = [n \in Nics |-> [rx |-> 0, tx |-> 0]]
    /\ UNCHANGED <<up, settled, assigned, passed, stage, interfaces, monitorVars, view>>

\* The router's own pages give a link to another interface.
Reassign ==
    /\ ~settled
    /\ assigned' \in {f \in [Links -> Nics] : f["wan"] # f["lan"]}
    /\ UNCHANGED <<up, settled, counter, passed, stage, interfaces, monitorVars, view>>

GoUpOrDown ==
    /\ ~settled
    /\ up' = ~up
    /\ UNCHANGED <<settled, assigned, counter, passed, stage, interfaces, monitorVars, view>>

Settle ==
    /\ ~settled
    /\ settled' = TRUE
    /\ UNCHANGED <<up, assigned, counter, passed, stage, interfaces, monitorVars, view>>

---------------------------------------------------------------------------
(* The sampler.                                                            *)

Tick ==
    /\ stage = "idle"
    /\ stage' = IF interfaces = NoNames THEN "resolving" ELSE "sampling"
    /\ UNCHANGED <<routerVars, interfaces, monitorVars, view>>

\* wan_lan_interface_names: in a config.xml that is cut before </interfaces>
\* it finds neither name.
NamesArrive ==
    /\ stage = "resolving" /\ up
    /\ \/ interfaces' = assigned
       \/ ~settled /\ interfaces' = Fallback
    /\ stage' = "sampling"
    /\ UNCHANGED <<routerVars, monitorVars, view>>

\* The last number of a row that is cut, when a digit is left of it.
CutShort(n) == {m \in 1 .. n : \E k \in 1 .. Wrap : m = n \div Base ^ k}

\* What is left of the output of `netstat -ibn`, up to one row cut short: the
\* output is a function from the interfaces it has a row for.
Outputs ==
    IF settled THEN {counter}
    ELSE UNION {{Restrict(counter, kept)} \cup
                UNION {{[Restrict(counter, kept) EXCEPT ![n].tx = tx] :
                            tx \in CutShort(counter[n].tx)} : n \in kept} : kept \in SUBSET Nics}

\* Faulty: wrapping_sub where checked_sub should stand.
ObserveWraps(before, now) ==
    IF before = NoReading THEN NoRate
    ELSE [down |-> (now.rx - before.count.rx) % Wrap, up |-> (now.tx - before.count.tx) % Wrap]

\* Faulty: a reading that went backwards is not dropped.
ObserveUnchecked(before, now) ==
    IF before = NoReading THEN NoRate
    ELSE [down |-> now.rx - before.count.rx, up |-> now.tx - before.count.tx]

\* Sampler::observe: no rate from the first reading, nor when either counter
\* went backwards.
Observe(before, now) ==
    IF before = NoReading \/ now.rx < before.count.rx \/ now.tx < before.count.tx
    THEN NoRate
    ELSE [down |-> now.rx - before.count.rx, up |-> now.tx - before.count.tx]

Reading(text, n) ==
    [count |-> text[n], nic |-> n, passed |-> passed[n],
     row |-> IF text[n] = counter[n] THEN "whole" ELSE "cut"]

\* Faulty: a reading that gives no rate does not become the one to compare with.
KeepsBase(before, text, n) ==
    IF n \in DOMAIN text /\ (before = NoReading \/ Observe(before, text[n]) # NoRate)
    THEN Reading(text, n)
    ELSE before

\* prev after parse_netstat_ibn and observe: every reading is the new base.
Rebased(before, text, n) ==
    IF n \in DOMAIN text
    THEN Reading(text, n)
    ELSE before

\* Faulty: the first reading is compared with none at all.
FirstIsRate(shown, before, text, n) ==
    IF n \notin DOMAIN text THEN shown
    ELSE IF before = NoReading THEN [down |-> text[n].rx, up |-> text[n].tx]
    ELSE IF Observe(before, text[n]) = NoRate THEN shown ELSE Observe(before, text[n])

\* latest after them: without a reading, or a rate from it, the old one stays.
Shown(shown, before, text, n) ==
    IF n \notin DOMAIN text \/ Observe(before, text[n]) = NoRate
    THEN shown
    ELSE Observe(before, text[n])

\* BandwidthMonitor::record_router, which holds the lock of `latest`.
CountersArrive ==
    /\ stage = "sampling" /\ up
    /\ \E text \in Outputs :
        /\ prev' = [l \in Links |-> Rebased(prev[l], text, interfaces[l])]
        /\ latest' = [l \in Links |-> Shown(latest[l], prev[l], text, interfaces[l])]
    /\ error' = FALSE
    /\ stage' = "touching"
    /\ UNCHANGED <<routerVars, interfaces, updated, view>>

\* ... and its touch(), after the lock is released.
Touch ==
    /\ stage = "touching"
    /\ updated' = TRUE
    /\ stage' = "idle"
    /\ UNCHANGED <<routerVars, interfaces, prev, latest, error, view>>

\* Faulty: the loop goes on without a word.
FailsSilently ==
    /\ stage \in {"resolving", "sampling"}
    /\ ~settled \/ ~up
    /\ interfaces' = NoNames
    /\ stage' = "idle"
    /\ UNCHANGED <<routerVars, monitorVars, view>>

\* with_timeout: an Err, or 8 s without an answer.  record_router_error, and
\* the names are forgotten.
Fails ==
    /\ stage \in {"resolving", "sampling"}
    /\ ~settled \/ ~up
    /\ latest' = [l \in Links |-> NoRate]
    /\ error' = TRUE
    /\ interfaces' = NoNames
    /\ stage' = "idle"
    /\ UNCHANGED <<routerVars, prev, updated, view>>

---------------------------------------------------------------------------
(* BandwidthMonitor::snapshot takes the two locks one after the other.     *)

CopyLatest(u) ==
    /\ view' = [view EXCEPT ![u] =
                    [rates |-> \E l \in Links : latest[l] # NoRate, error |-> error, age |-> "unread"]]
    /\ UNCHANGED <<routerVars, stage, interfaces, monitorVars>>

ReadAge(u) ==
    /\ view[u].age = "unread"
    /\ view' = [view EXCEPT ![u].age = IF updated THEN "some" ELSE "none"]
    /\ UNCHANGED <<routerVars, stage, interfaces, monitorVars>>

---------------------------------------------------------------------------
Answer == NamesArrive \/ CountersArrive \/ Fails

Next ==
    \/ \E n \in Nics, d \in {"rx", "tx"} : Pass(n, d)
    \/ Reboot \/ Reassign \/ GoUpOrDown \/ Settle
    \/ Tick \/ Answer \/ Touch
    \/ \E u \in Readers : CopyLatest(u) \/ ReadAge(u)

Spec == Init /\ [][Next]_vars

\* The interval ticks for ever, and with_timeout ends every round trip.
Fairness == WF_vars(Tick) /\ WF_vars(Answer) /\ WF_vars(Touch)

FairSpec == Spec /\ Fairness
---------------------------------------------------------------------------
(* Properties.                                                             *)

\* Every variable keeps its type.
TypeOK ==
    /\ up \in BOOLEAN /\ settled \in BOOLEAN /\ error \in BOOLEAN /\ updated \in BOOLEAN
    /\ assigned \in [Links -> Nics]
    /\ counter \in [Nics -> Counters]
    /\ passed \in [Nics -> Traffic]
    /\ stage \in {"idle", "resolving", "sampling", "touching"}
    /\ interfaces \in [Links -> Names] \cup {NoNames}
    /\ stage \in {"sampling", "touching"} => interfaces # NoNames
    /\ prev \in [Links -> Readings \cup {NoReading}]
    /\ latest \in [Links -> Rates \cup {NoRate}]
    /\ view \in [Readers -> [rates : BOOLEAN, error : BOOLEAN, age : {"unread", "none", "some"}]]

\* A rate that replaces another claims no more bytes than passed the
\* interface between the two readings it is made from.
Claims(l, read) ==
    (latest'[l] \notin {latest[l], NoRate} /\ read) =>
        /\ latest'[l].down <= prev'[l].passed.rx - prev[l].passed.rx
        /\ latest'[l].up <= prev'[l].passed.tx - prev[l].passed.tx

\* ... over reboots and counter wraps, if both readings are of one interface
\* and neither row was cut short (the checked_sub of Sampler::observe).
Step_NeverOverstates ==
    \A l \in Links :
        Claims(l, /\ prev[l] # NoReading /\ prev[l].nic = prev'[l].nic
                  /\ prev[l].row = "whole" /\ prev'[l].row = "whole")
NeverOverstates == [][Step_NeverOverstates]_vars

\* GET /bandwidth never answers a rate with an error beside it or without an
\* age, though it takes two locks one after the other.  The age may be of a
\* later sample than the rates.
ViewIsCoherent ==
    \A u \in Readers :
        view[u].age # "unread" /\ view[u].rates => view[u].age = "some" /\ ~view[u].error

\* If the router goes down for good, the monitor comes to say so and shows no
\* rate again, even if nothing ever answers (ROUTER_TIMEOUT).
OutageShows == (settled /\ ~up) ~> [](error /\ \A l \in Links : latest[l] = NoRate)

\* Once the router stays up and the sampler has the right names, both rates
\* come to be shown, whatever the counters did before (the re-basing).
RatesReturn ==
    (settled /\ up /\ interfaces = assigned) ~> []\A l \in Links : latest[l] # NoRate
=============================================================================
