-------------------------- MODULE BandwidthProofs --------------------------
(***************************************************************************)
(* Theorems about the throughput monitor, for any number of interfaces and *)
(* readers, any width of the counters and any traffic.                     *)
(***************************************************************************)
EXTENDS Bandwidth, TLAPS

\* Since a complete reading of an interface, its counter has risen by no more
\* than what has passed it: a wrap and a reboot only lower the counter.
CoveredBy(r) ==
    r # NoReading /\ r.row = "whole" =>
        \A d \in {"rx", "tx"} : counter[r.nic][d] - r.count[d] <= passed[r.nic][d] - r.passed[d]
Covered == \A l \in Links : CoveredBy(prev[l])

IInv == TypeOK /\ Covered

\* A counter that counts one more stays a counter, and rises by one at most.
LEMMA Modulo ==
    ASSUME NEW n \in 0 .. Wrap - 1
    PROVE  (n + 1) % Wrap \in 0 .. Wrap - 1 /\ (n + 1) % Wrap <= n + 1
BY BandwidthAssumption

---------------------------------------------------------------------------
(* Type correctness. *)

\* What is left of the output has rows of interfaces only, and counters in them.
LEMMA OutputType ==
    ASSUME TypeOK, NEW text \in Outputs
    PROVE  \A n \in DOMAIN text : n \in Nics /\ text[n] \in Counters
<1>1. CASE settled
  BY <1>1 DEF Outputs, TypeOK
<1>2. CASE ~settled
  <2>1. PICK kept \in SUBSET Nics :
            \/ text = Restrict(counter, kept)
            \/ \E n \in kept : \E tx \in CutShort(counter[n].tx) :
                    text = [Restrict(counter, kept) EXCEPT ![n].tx = tx]
    BY <1>2 DEF Outputs
  <2>2. DOMAIN Restrict(counter, kept) = kept
        /\ \A n \in kept : Restrict(counter, kept)[n] = counter[n] /\ counter[n] \in Counters
    BY DEF Restrict, TypeOK
  <2>3. ASSUME NEW n \in kept, NEW tx \in CutShort(counter[n].tx),
               text = [Restrict(counter, kept) EXCEPT ![n].tx = tx]
        PROVE  \A m \in DOMAIN text : m \in Nics /\ text[m] \in Counters
    <3>1. tx \in 1 .. counter[n].tx
      BY DEF CutShort
    <3>2. [counter[n] EXCEPT !.tx = tx] \in Counters
      BY <2>2, <3>1, BandwidthAssumption DEF Counters
    <3> QED BY <2>2, <2>3, <3>2
  <2> QED BY <2>1, <2>2, <2>3
<1> QED BY <1>1, <1>2

\* What a Sampler makes of two readings is a rate or none.
LEMMA ObserveType ==
    ASSUME NEW before \in Readings \cup {NoReading}, NEW now \in Counters
    PROVE  Observe(before, now) \in Rates \cup {NoRate}
<1>1. CASE Observe(before, now) = NoRate
  BY <1>1
<1>2. CASE Observe(before, now) # NoRate
  <2>1. /\ before \in Readings
        /\ ~(now.rx < before.count.rx) /\ ~(now.tx < before.count.tx)
        /\ Observe(before, now) = [down |-> now.rx - before.count.rx, up |-> now.tx - before.count.tx]
    BY <1>2 DEF Observe
  <2>2. before.count \in Counters
    BY <2>1 DEF Readings
  <2>3. now.rx - before.count.rx \in 0 .. Wrap - 1 /\ now.tx - before.count.tx \in 0 .. Wrap - 1
    BY <2>1, <2>2, BandwidthAssumption DEF Counters
  <2> QED BY <2>1, <2>3 DEF Rates
<1> QED BY <1>1, <1>2

\* What record_router leaves of a link: the reading and the rate it had, or
\* new ones.
LEMMA RecordType ==
    ASSUME TypeOK, NEW text \in Outputs, NEW l \in Links, NEW n \in Names
    PROVE  /\ Rebased(prev[l], text, n) \in Readings \cup {NoReading}
           /\ Shown(latest[l], prev[l], text, n) \in Rates \cup {NoRate}
<1>0. prev[l] \in Readings \cup {NoReading} /\ latest[l] \in Rates \cup {NoRate}
  BY DEF TypeOK
<1>1. CASE n \notin DOMAIN text
  BY <1>0, <1>1 DEF Rebased, Shown
<1>2. CASE n \in DOMAIN text
  <2>1. n \in Nics /\ text[n] \in Counters /\ passed[n] \in Traffic
    BY <1>2, OutputType DEF TypeOK
  <2>2. Rebased(prev[l], text, n) \in Readings
    BY <1>2, <2>1 DEF Rebased, Reading, Readings
  <2>3. Shown(latest[l], prev[l], text, n) \in Rates \cup {NoRate}
    BY <1>0, <2>1, ObserveType DEF Shown
  <2> QED BY <2>2, <2>3
<1> QED BY <1>1, <1>2

\* The sampler starts with values of their types.
LEMMA TypeInit == Init => TypeOK
<1> SUFFICES ASSUME Init PROVE TypeOK
  OBVIOUS
<1>1. counter \in [Nics -> Counters] /\ passed \in [Nics -> Traffic]
  BY BandwidthAssumption DEF Init, Counters, Traffic
<1> QED BY <1>1 DEF Init, TypeOK

\* Every step of the sampler, a reader or the router keeps the types.
LEMMA TypeStep == TypeOK /\ [Next]_vars => TypeOK'
<1> SUFFICES ASSUME TypeOK, [Next]_vars PROVE TypeOK'
  OBVIOUS
<1> USE DEF TypeOK, routerVars, monitorVars
<1>1. ASSUME NEW n \in Nics, NEW d \in {"rx", "tx"}, Pass(n, d) PROVE TypeOK'
  <2>1. counter[n] \in Counters /\ passed[n] \in Traffic
    OBVIOUS
  <2>2. counter[n][d] \in 0 .. Wrap - 1 /\ passed[n][d] + 1 \in 0 .. MaxTraffic
    BY <1>1, <2>1, BandwidthAssumption DEF Counters, Traffic, Pass
  <2>3. (counter[n][d] + 1) % Wrap \in 0 .. Wrap - 1
    BY <2>2, Modulo
  <2>4. /\ [counter[n] EXCEPT ![d] = (@ + 1) % Wrap] \in Counters
        /\ [passed[n] EXCEPT ![d] = @ + 1] \in Traffic
    BY <2>1, <2>2, <2>3 DEF Counters, Traffic
  <2>5. counter' \in [Nics -> Counters] /\ passed' \in [Nics -> Traffic]
    BY <1>1, <2>4 DEF Pass
  <2> QED BY <1>1, <2>5 DEF Pass
<1>2. CASE Reboot
  <2>1. counter' \in [Nics -> Counters]
    BY <1>2, BandwidthAssumption DEF Reboot, Counters
  <2> QED BY <1>2, <2>1 DEF Reboot
<1>3. CASE Reassign \/ GoUpOrDown \/ Settle
  BY <1>3 DEF Reassign, GoUpOrDown, Settle
<1>4. CASE Tick
  BY <1>4 DEF Tick
<1>5. CASE NamesArrive
  <2>1. interfaces' \in [Links -> Names] /\ interfaces' # NoNames
    <3>1. interfaces' \in [Links -> Names]
      BY <1>5 DEF NamesArrive, Fallback, Names
    <3>2. NoNames \notin [Links -> Names]
      <4>1. DOMAIN NoNames = {"none"}
        BY DEF NoNames
      <4>2. \A f \in [Links -> Names] : DOMAIN f = Links
        OBVIOUS
      <4>3. "wan" \in Links /\ "wan" \notin {"none"}
        BY DEF Links
      <4> QED BY <4>1, <4>2, <4>3
    <3> QED BY <3>1, <3>2
  <2> QED BY <1>5, <2>1 DEF NamesArrive
<1>6. CASE CountersArrive
  <2>1. \A l \in Links : interfaces[l] \in Names
    BY <1>6 DEF CountersArrive
  <2>2. prev' \in [Links -> Readings \cup {NoReading}] /\ latest' \in [Links -> Rates \cup {NoRate}]
    BY <1>6, <2>1, RecordType DEF CountersArrive
  <2> QED BY <1>6, <2>2 DEF CountersArrive
<1>7. CASE Fails \/ Touch
  BY <1>7 DEF Fails, Touch
<1>8. ASSUME NEW u \in Readers, CopyLatest(u) \/ ReadAge(u) PROVE TypeOK'
  <2>1. view[u] \in [rates : BOOLEAN, error : BOOLEAN, age : {"unread", "none", "some"}]
    OBVIOUS
  <2>2. [view[u] EXCEPT !.age = IF updated THEN "some" ELSE "none"]
            \in [rates : BOOLEAN, error : BOOLEAN, age : {"unread", "none", "some"}]
    BY <2>1
  <2>3. [rates |-> \E l \in Links : latest[l] # NoRate, error |-> error, age |-> "unread"]
            \in [rates : BOOLEAN, error : BOOLEAN, age : {"unread", "none", "some"}]
    OBVIOUS
  <2>4. view' \in [Readers -> [rates : BOOLEAN, error : BOOLEAN, age : {"unread", "none", "some"}]]
    BY <1>8, <2>2, <2>3 DEF CopyLatest, ReadAge
  <2> QED BY <1>8, <2>4 DEF CopyLatest, ReadAge
<1>9. CASE UNCHANGED vars
  BY <1>9 DEF vars
<1> QED BY <1>1, <1>2, <1>3, <1>4, <1>5, <1>6, <1>7, <1>8, <1>9 DEF Next, Answer

---------------------------------------------------------------------------
(* The counters and what has passed. *)

\* Traffic raises a counter and what has passed alike; a wrap or a reboot lowers it.
LEMMA CoveredStep ==
    ASSUME TypeOK, TypeOK', Covered, [Next]_vars
    PROVE  Covered'
<1> SUFFICES ASSUME NEW l \in Links, prev'[l] # NoReading, prev'[l].row = "whole", NEW d \in {"rx", "tx"}
             PROVE  counter'[prev'[l].nic][d] - prev'[l].count[d] <= passed'[prev'[l].nic][d] - prev'[l].passed[d]
  BY DEF Covered, CoveredBy
<1>1. CASE CountersArrive /\ prev'[l] # prev[l]
  <2>1. PICK text \in Outputs : prev' = [k \in Links |-> Rebased(prev[k], text, interfaces[k])]
    BY <1>1 DEF CountersArrive
  <2>2. PICK n : n = interfaces[l]
    OBVIOUS
  <2>3. n \in DOMAIN text
    BY <1>1, <2>1, <2>2 DEF Rebased
  <2>4. prev'[l] = Reading(text, n)
    BY <2>1, <2>2, <2>3 DEF Rebased
  <2>5. prev'[l].count = counter[n] /\ prev'[l].nic = n /\ prev'[l].passed = passed[n] /\ n \in Nics
    BY <2>3, <2>4, OutputType DEF Reading
  <2>6. counter[n][d] \in Int /\ passed[n][d] \in Int
    BY <2>5, BandwidthAssumption DEF TypeOK, Counters, Traffic
  <2>7. counter' = counter /\ passed' = passed
    BY <1>1 DEF CountersArrive, routerVars
  <2> QED BY <2>5, <2>6, <2>7
<1>2. CASE prev'[l] = prev[l]
  <2>0. PICK n \in Nics : n = prev[l].nic
    BY <1>2 DEF TypeOK, Readings
  <2>1. /\ counter[n][d] \in Int /\ counter[n][d] >= 0 /\ passed[n][d] \in Int
        /\ prev[l].count[d] \in Int /\ prev[l].passed[d] \in Int
    BY <1>2, BandwidthAssumption DEF TypeOK, Readings, Counters, Traffic
  <2>2. counter[n][d] - prev[l].count[d] <= passed[n][d] - prev[l].passed[d]
    BY <1>2, <2>0 DEF Covered, CoveredBy
  <2>3. \/ counter'[n][d] <= counter[n][d] /\ passed'[n][d] = passed[n][d]
        \/ counter'[n][d] <= counter[n][d] + 1 /\ passed'[n][d] = passed[n][d] + 1
    <3>1. ASSUME NEW m \in Nics, NEW e \in {"rx", "tx"}, Pass(m, e) PROVE <2>3
      <4>1. CASE m = n /\ e = d
        <5>1. counter'[n][d] = (counter[n][d] + 1) % Wrap /\ passed'[n][d] = passed[n][d] + 1
          BY <3>1, <4>1 DEF Pass, TypeOK, Counters, Traffic
        <5>2. counter[n][d] \in 0 .. Wrap - 1
          BY DEF TypeOK, Counters
        <5> QED BY <5>1, <5>2, Modulo
      <4>2. CASE m # n \/ e # d
        <5>1. counter'[n][d] = counter[n][d] /\ passed'[n][d] = passed[n][d]
          BY <3>1, <4>2 DEF Pass, TypeOK, Counters, Traffic
        <5> QED BY <2>1, <5>1
      <4> QED BY <4>1, <4>2
    <3>2. CASE Reboot
      <4>1. counter'[n][d] = 0 /\ passed' = passed
        BY <3>2 DEF Reboot
      <4> QED BY <2>1, <4>1
    <3>3. CASE UNCHANGED <<counter, passed>>
      BY <2>1, <3>3
    <3> QED BY <3>1, <3>2, <3>3 DEF Next, Answer, vars, routerVars, Reassign, GoUpOrDown, Settle, Tick,
               NamesArrive, CountersArrive, Fails, Touch, CopyLatest, ReadAge
  <2>4. counter'[n][d] \in Int /\ passed'[n][d] \in Int
    BY BandwidthAssumption DEF TypeOK, Counters, Traffic
  <2> QED BY <1>2, <2>0, <2>1, <2>2, <2>3, <2>4
<1>3. prev'[l] = prev[l] \/ CountersArrive
  BY DEF Next, Answer, vars, routerVars, monitorVars, Pass, Reboot, Reassign, GoUpOrDown, Settle, Tick,
     NamesArrive, Fails, Touch, CopyLatest, ReadAge
<1> QED BY <1>1, <1>2, <1>3

---------------------------------------------------------------------------
(* One moment in two locks. *)

\* The first reading gives no rate, so a rate has seen an earlier touch; and a
\* failure takes the rates away in the step that sets the error.
RateInv == \A l \in Links :
    /\ prev[l] # NoReading => updated \/ stage = "touching"
    /\ latest[l] # NoRate => updated /\ ~error
ShownInv == \A u \in Readers : view[u].rates => updated /\ ~view[u].error /\ view[u].age # "none"

CoherentInv == RateInv /\ ShownInv

\* A link with a reading has seen an update or is about to, and one with a rate no error since.
LEMMA RateStep ==
    ASSUME RateInv, [Next]_vars
    PROVE  RateInv'
<1> USE DEF RateInv
<1>1. CASE CountersArrive
  <2>1. PICK text \in Outputs :
            /\ prev' = [l \in Links |-> Rebased(prev[l], text, interfaces[l])]
            /\ latest' = [l \in Links |-> Shown(latest[l], prev[l], text, interfaces[l])]
    BY <1>1 DEF CountersArrive
  <2>2. ASSUME NEW l \in Links, latest'[l] # NoRate PROVE updated
    <3>1. CASE latest'[l] = latest[l]
      BY <2>2, <3>1
    <3>2. CASE latest'[l] # latest[l]
      <4>1. Observe(prev[l], text[interfaces[l]]) # NoRate
        BY <2>1, <3>2 DEF Shown
      <4> QED BY <1>1, <4>1 DEF Observe, CountersArrive
    <3> QED BY <3>1, <3>2
  <2> QED BY <1>1, <2>2 DEF CountersArrive
<1>2. CASE Fails
  BY <1>2 DEF Fails
<1>3. CASE Touch
  BY <1>3 DEF Touch
<1>4. CASE Tick \/ NamesArrive
  BY <1>4 DEF Tick, NamesArrive, monitorVars
<1>5. CASE UNCHANGED <<stage, monitorVars>>
  BY <1>5 DEF monitorVars
<1> QED BY <1>1, <1>2, <1>3, <1>4, <1>5 DEF Next, Answer, vars, Pass, Reboot, Reassign, GoUpOrDown, Settle,
         CopyLatest, ReadAge

\* What a reader has copied of the snapshot agrees with the time it reads later.
LEMMA ShownStep ==
    ASSUME TypeOK, RateInv, ShownInv, [Next]_vars
    PROVE  ShownInv'
<1> USE DEF ShownInv
<1>1. ASSUME NEW u \in Readers, CopyLatest(u) PROVE ShownInv'
  <2>1. \A v \in Readers : v # u => view'[v] = view[v]
    BY <1>1 DEF CopyLatest, TypeOK
  <2>2. view'[u] = [rates |-> \E l \in Links : latest[l] # NoRate, error |-> error, age |-> "unread"]
    BY <1>1 DEF CopyLatest, TypeOK
  <2>3. updated' = updated
    BY <1>1 DEF CopyLatest, monitorVars
  <2> QED BY <2>1, <2>2, <2>3 DEF RateInv
<1>2. ASSUME NEW u \in Readers, ReadAge(u) PROVE ShownInv'
  <2>1. \A v \in Readers : v # u => view'[v] = view[v]
    BY <1>2 DEF ReadAge, TypeOK
  <2>2. view'[u] = [view[u] EXCEPT !.age = IF updated THEN "some" ELSE "none"]
    BY <1>2 DEF ReadAge, TypeOK
  <2>3. view[u] \in [rates : BOOLEAN, error : BOOLEAN, age : {"unread", "none", "some"}]
    BY DEF TypeOK
  <2>4. updated' = updated
    BY <1>2 DEF ReadAge, monitorVars
  <2> QED BY <2>1, <2>2, <2>3, <2>4
<1>3. CASE UNCHANGED view /\ (updated' = updated \/ updated')
  BY <1>3
<1> QED BY <1>1, <1>2, <1>3 DEF Next, Answer, vars, monitorVars, Pass, Reboot, Reassign, GoUpOrDown, Settle,
         Tick, NamesArrive, CountersArrive, Touch, Fails

---------------------------------------------------------------------------
(* The theorems. *)

\* The types, and no counter ahead of the traffic, in every state.
THEOREM Invariant == Spec => []IInv
<1>1. Init => IInv
  <2>1. Init => Covered
    BY DEF Init, Covered, CoveredBy
  <2> QED BY <2>1, TypeInit DEF IInv
<1>2. IInv /\ [Next]_vars => IInv'
  BY TypeStep, CoveredStep DEF IInv
<1> QED BY <1>1, <1>2, PTL DEF Spec

\* The monitor, the sampler and the readers keep their types; above all no
\* rate is negative (checked_sub).
THEOREM TypeCorrect == Spec => []TypeOK
<1>1. IInv => TypeOK
  BY DEF IInv
<1> QED BY <1>1, Invariant, PTL

\* A rate made from two complete readings of one interface never claims more
\* than what passed the interface, whatever reboots and wraps came between.
THEOREM NoPhantomTraffic == Spec => NeverOverstates
<1>1. ASSUME IInv, IInv', [Next]_vars PROVE Step_NeverOverstates
  <2> SUFFICES ASSUME NEW l \in Links, latest'[l] \notin {latest[l], NoRate},
                      prev[l] # NoReading, prev[l].nic = prev'[l].nic, prev[l].row = "whole", prev'[l].row = "whole"
               PROVE  /\ latest'[l].down <= prev'[l].passed.rx - prev[l].passed.rx
                      /\ latest'[l].up <= prev'[l].passed.tx - prev[l].passed.tx
    BY DEF Step_NeverOverstates, Claims
  <2>0. TypeOK /\ CoveredBy(prev[l])
    BY <1>1 DEF IInv, Covered
  <2>1. CountersArrive
    BY <1>1, <2>0 DEF TypeOK, Next, Answer, vars, routerVars, monitorVars, Pass, Reboot, Reassign, GoUpOrDown,
       Settle, Tick, NamesArrive, Fails, Touch, CopyLatest, ReadAge
  <2>2. PICK text \in Outputs :
            /\ prev' = [k \in Links |-> Rebased(prev[k], text, interfaces[k])]
            /\ latest' = [k \in Links |-> Shown(latest[k], prev[k], text, interfaces[k])]
    BY <2>1 DEF CountersArrive
  <2>3. PICK n : n = interfaces[l]
    OBVIOUS
  <2>4. n \in DOMAIN text /\ Observe(prev[l], text[n]) # NoRate /\ latest'[l] = Observe(prev[l], text[n])
    BY <2>2, <2>3 DEF Shown
  <2>5. prev'[l] = Reading(text, n)
    BY <2>2, <2>3, <2>4 DEF Rebased
  <2>6. text[n] = counter[n] /\ prev'[l].nic = n /\ prev'[l].passed = passed[n]
    BY <2>5 DEF Reading
  <2>7. latest'[l] = [down |-> counter[n].rx - prev[l].count.rx, up |-> counter[n].tx - prev[l].count.tx]
    BY <2>4, <2>6 DEF Observe
  <2>8. /\ counter[n]["rx"] - prev[l].count["rx"] <= passed[n]["rx"] - prev[l].passed["rx"]
        /\ counter[n]["tx"] - prev[l].count["tx"] <= passed[n]["tx"] - prev[l].passed["tx"]
    BY <2>0, <2>6 DEF CoveredBy
  <2> QED BY <2>6, <2>7, <2>8
<1>2. IInv /\ IInv' /\ [Next]_vars => [Step_NeverOverstates]_vars
  BY <1>1
<1> QED BY <1>2, Invariant, PTL DEF NeverOverstates, Spec

\* snapshot takes two locks, with any steps of the sampler between them, and
\* still a rate never comes with an error or without an age.
THEOREM Coherent == Spec => []ViewIsCoherent
<1>1. Init => CoherentInv
  BY DEF Init, CoherentInv, RateInv, ShownInv
<1>2. TypeOK /\ CoherentInv /\ [Next]_vars => CoherentInv'
  BY RateStep, ShownStep DEF CoherentInv
<1>3. TypeOK /\ CoherentInv => ViewIsCoherent
  <2> SUFFICES ASSUME TypeOK, ShownInv, NEW u \in Readers, view[u].age # "unread", view[u].rates
               PROVE  view[u].age = "some" /\ ~view[u].error
    BY DEF CoherentInv, ViewIsCoherent
  <2>1. view[u] \in [rates : BOOLEAN, error : BOOLEAN, age : {"unread", "none", "some"}]
    BY DEF TypeOK
  <2> QED BY <2>1 DEF ShownInv
<1> QED BY <1>1, <1>2, <1>3, TypeCorrect, PTL DEF Spec
=============================================================================
