---------------------------- MODULE ViewsProofs ----------------------------
(***************************************************************************)
(* What the views show is neither stale nor invented, and whole if nothing *)
(* was lost, for any number of writers, any lists in config.xml, any log,  *)
(* any router and any losses.                                              *)
(***************************************************************************)
EXTENDS Views, RouterConfigProofs, LeasesProofs

---------------------------------------------------------------------------
(* Lists that may be cut. *)

\* An output may be empty: a connection may break before the first byte.
LEMMA EmptyOutput ==
    ASSUME NEW S, NEW s \in Seq(S)
    PROVE  <<>> \in Outputs(s)
<1>1. CASE Len(s) = 0
  <2>1. s = <<>>
    BY <1>1, EmptySeq
  <2> QED BY <2>1 DEF Outputs
<1>2. CASE Len(s) # 0
  <2>1. 0 \in 0 .. Len(s) - 1
    BY <1>2, LenProperties
  <2>2. SubSeq(s, 1, 0) = <<>>
    OBVIOUS
  <2> QED BY <2>1, <2>2 DEF Outputs, Cuts
<1> QED BY <1>1, <1>2

\* What is in an output is in the list.
LEMMA OutputElements ==
    ASSUME NEW S, NEW s \in Seq(S), NEW o \in Outputs(s)
    PROVE  /\ DOMAIN o = 1 .. Len(o) /\ Len(o) \in Nat
           /\ \A i \in DOMAIN o : o[i] \in ToSet(s)
<1>1. CASE o = s
  BY <1>1, LenProperties DEF ToSet
<1>2. CASE o \in Cuts(s)
  <2>1. PICK n \in 0 .. Len(s) - 1 : o = SubSeq(s, 1, n)
    BY <1>2 DEF Cuts
  <2>2. Len(s) \in Nat /\ n \in Int /\ DOMAIN s = 1 .. Len(s)
    BY LenProperties
  <2>3. \A i \in 1 .. n : s[i] \in S
    BY <2>2, ElementOfSeq
  <2>4. /\ o \in Seq(S)
        /\ Len(o) = IF 1 <= n THEN n - 1 + 1 ELSE 0
        /\ \A i \in 1 .. n - 1 + 1 : o[i] = s[1 + i - 1]
    BY <2>1, <2>2, <2>3, SubSeqProperties, 1 \in Int
  <2>5. DOMAIN o = 1 .. Len(o) /\ Len(o) = n
    BY <2>1, <2>4, LenProperties
  <2>6. \A i \in 1 .. n : o[i] = s[i] /\ i \in DOMAIN s
    BY <2>2, <2>4
  <2> QED BY <2>1, <2>5, <2>6 DEF ToSet
<1> QED BY <1>1, <1>2 DEF Outputs

\* An output is the start of the list, the whole of it if nothing was lost.
LEMMA OutputIsStart ==
    ASSUME NEW S, NEW s \in Seq(S), NEW o \in Outputs(s)
    PROVE  /\ o \in Seq(S)
           /\ \E n \in 0 .. Len(s) : o = SubSeq(s, 1, n)
<1>0. Len(s) \in Nat /\ \A i \in 1 .. Len(s) : s[i] \in S
  BY LenProperties, ElementOfSeq
<1>1. PICK n \in 0 .. Len(s) : o = SubSeq(s, 1, n)
  <2>1. CASE o = s
    BY <1>0, <2>1, SubSeqFull
  <2>2. CASE o \in Cuts(s)
    BY <1>0, <2>2 DEF Cuts
  <2> QED BY <2>1, <2>2 DEF Outputs
<1>2. o \in Seq(S)
  BY <1>0, <1>1, SubSeqProperties, 1 \in Int, n \in Int
<1> QED BY <1>1, <1>2

\* A list with a mapping of a MAC has a last one.
LEMMA LastOfMapped ==
    ASSUME NEW list, DOMAIN list = 1 .. Len(list), Len(list) \in Nat,
           NEW mac, IsMapped(list, mac)
    PROVE  \E i \in DOMAIN list : LastOf(list, mac) = list[i] /\ list[i].name = mac
<1> DEFINE T == {i \in DOMAIN list : list[i].name = mac}
<1> DEFINE D == {Len(list) - i : i \in T}
<1>1. D \in SUBSET Nat /\ D # {}
  BY DEF IsMapped
<1>2. \E x \in D : \A y \in D : x <= y
  <2> HIDE DEF D
  <2> QED BY <1>1, LeastPosition
<1>3. \E i \in DOMAIN list : list[i].name = mac /\ \A j \in DOMAIN list : list[j].name = mac => j <= i
  <2>1. PICK i \in T : \A j \in T : Len(list) - i <= Len(list) - j
    BY <1>2
  <2> QED BY <2>1
<1> QED BY <1>3 DEF LastOf

---------------------------------------------------------------------------
(* The configuration. *)

ConfigInv ==
    /\ versions \in Seq(Config)
    /\ Len(versions) >= 1
    /\ call \in [Requests -> Call \cup {NoCall}]
    /\ since \in [Requests -> Nat]
    /\ \A r \in Requests : call[r] # NoCall => since[r] \in 1 .. Len(versions)

\* A version is never taken back.
Grows == /\ Len(versions') >= Len(versions)
         /\ \A i \in 1 .. Len(versions) : versions'[i] = versions[i]

\* The first version is the configuration there was.
LEMMA ConfigInit == AInit => ConfigInv /\ Len(versions) = 1
<1> SUFFICES ASSUME AInit PROVE ConfigInv /\ Len(versions) = 1
  OBVIOUS
<1>1. versions \in Seq(Config) /\ Len(versions) = 1
  BY ConfigAssumption DEF AInit
<1> QED BY <1>1 DEF AInit, ConfigInv

\* Whatever edit ConfigService allows makes a version of the old ones.
LEMMA ConfigStep ==
    ASSUME ConfigInv, ANext
    PROVE  ConfigInv' /\ Grows
<1>0. Len(versions) \in Nat /\ \A i \in 1 .. Len(versions) : versions[i] \in Config
  BY LenProperties, ElementOfSeq DEF ConfigInv
<1>1. ASSUME NEW r \in Requests, Open(r) PROVE ConfigInv' /\ Grows
  <2>1. PICK c \in CallsOf[r] : call' = [call EXCEPT ![r] = c]
    BY <1>1 DEF Open
  <2>2. c \in Call
    BY ConfigAssumption
  <2>3. versions' = versions /\ since' = [since EXCEPT ![r] = Len(versions)]
    BY <1>1 DEF Open
  <2> QED BY <1>0, <2>1, <2>2, <2>3 DEF ConfigInv, Grows
<1>2. ASSUME NEW r \in Requests, NEW step \in Steps, Apply(r, step) PROVE ConfigInv' /\ Grows
  <2>1. PICK v \in since[r] .. Len(versions) :
            /\ Edits(versions[v], call[r], step)
            /\ versions' = Append(versions, Edited(versions[v], call[r], step, r))
    BY <1>2 DEF Apply
  <2>2. call[r] \in Call /\ v \in 1 .. Len(versions)
    BY <1>0, <1>2, <2>1 DEF Apply, ConfigInv
  <2>3. Edited(versions[v], call[r], step, r) \in Config
    BY <1>0, <2>1, <2>2, EditedType
  <2>4. /\ versions' \in Seq(Config)
        /\ Len(versions') = Len(versions) + 1
        /\ \A i \in 1 .. Len(versions) : versions'[i] = versions[i]
    BY <2>1, <2>3, AppendProperties DEF ConfigInv
  <2>5. UNCHANGED <<call, since>>
    BY <1>2 DEF Apply
  <2> QED BY <1>0, <2>4, <2>5 DEF ConfigInv, Grows
<1>3. ASSUME NEW r \in Requests, AnswerOk(r) \/ AnswerError(r) PROVE ConfigInv' /\ Grows
  BY <1>0, <1>3 DEF AnswerOk, AnswerError, ConfigInv, Grows
<1> QED BY <1>1, <1>2, <1>3 DEF ANext

---------------------------------------------------------------------------
(* What is read and what is shown. *)

Fields == DOMAIN NothingRead

\* `shown` and `local` are records; the link has been as it is; nothing has
\* been read before the view was asked for.
ReadInv ==
    /\ began.versions \in 1 .. Len(versions)
    /\ shown = [m \in Methods |-> shown[m]]
    /\ local = [k \in Fields |-> local[k]]
    /\ local.named \in BOOLEAN
    /\ local.up \in BOOLEAN
    /\ link \in BOOLEAN
    /\ status \in {"idle", "reading", "answered", "failed"}
    /\ status = "idle" => shown = NothingShown /\ ~local.up
    /\ status = "reading" => link \in links /\ (local.up => TRUE \in links)

IInv == ConfigInv /\ ReadInv /\ lost \in Nat /\ NothingInvented

\* A step loses nothing, or it does some harm to the method at hand, which a
\* command that is not a status makes fail.
LEMMA Losses ==
    ASSUME [Next]_vars
    PROVE  \/ UNCHANGED <<lost, harm>>
           \/ /\ Awaiting /\ lost' = lost + 1
              /\ \E h \in {"cut", "failed"} :
                    /\ harm' = [harm EXCEPT ![Method] = h]
                    /\ h = "failed" => CommandFails /\ Command # "status"
                    /\ h = "cut" /\ CommandFails => Command = "status"
<1> DEFINE Goal == \/ UNCHANGED <<lost, harm>>
                   \/ /\ Awaiting /\ lost' = lost + 1
                      /\ \E h \in {"cut", "failed"} :
                            /\ harm' = [harm EXCEPT ![Method] = h]
                            /\ h = "failed" => CommandFails /\ Command # "status"
                            /\ h = "cut" /\ CommandFails => Command = "status"
<1> SUFFICES Goal
  OBVIOUS
<1>1. ASSUME Awaiting, Whole \/ Broken, ~CommandFails PROVE Goal
  BY <1>1 DEF Whole, Broken
<1>2. CASE CommandFails
  <2>1. CASE Command = "status"
    BY <1>2, <2>1 DEF CommandFails
  <2>2. CASE Command # "status"
    BY <1>2, <2>2 DEF CommandFails
  <2> QED BY <2>1, <2>2
<1>3. CASE Router \/ Ask \/ Respond \/ UNCHANGED vars
  BY <1>3 DEF Router, Edit, WriteLease, FlipLink, GoOrComeBack, Ask, Respond, vars, viewVars
<1>4. ASSUME Read, ~CommandFails, ~Respond PROVE Awaiting /\ (Whole \/ Broken)
  BY <1>4 DEF Read, ReadArp, ReadLeases, ReadConfigForDevices, ReadConfigForStatics, ReadConfigForDns,
     ReadConfigForVpn, ReadStatus, ReadConfigForInterface, ReadIfconfig, ReadRoute, ReadHaproxy, Received, At
<1> HIDE DEF Goal
<1>5. CASE Read
  BY <1>1, <1>2, <1>3, <1>4, <1>5
<1> QED BY <1>3, <1>5 DEF Next

\* A method that goes on or returns leaves records, and no WAN that is up
\* without the link having been.
LEMMA ReadStep ==
    ASSUME ConfigInv, ReadInv, [Next]_vars
    PROVE  ReadInv'
<1> USE DEF ReadInv
<1>0. Len(versions) \in Nat
  BY LenProperties DEF ConfigInv
<1>1. CASE Edit
  <2>1. ConfigInv' /\ Grows
    BY <1>1, ConfigStep DEF Edit
  <2>2. Len(versions') \in Nat
    BY <2>1, LenProperties DEF ConfigInv
  <2>3. UNCHANGED <<link, status, local, shown, began, links>>
    BY <1>1 DEF Edit, routerVars, viewVars
  <2>4. began.versions \in 1 .. Len(versions')
    BY <1>0, <2>1, <2>2 DEF Grows
  <2> QED BY <2>3, <2>4
<1>2. CASE WriteLease \/ GoOrComeBack
  BY <1>2 DEF WriteLease, GoOrComeBack, Turn, aVars, viewVars
<1>3. CASE FlipLink
  BY <1>3 DEF FlipLink, Turn, aVars
<1>4. CASE Ask
  <2>1. began'.versions = Len(versions) /\ links' = {link} /\ status = "idle" /\ status' = "reading"
    BY <1>4 DEF Ask
  <2>2. UNCHANGED <<versions, link, local, shown>>
    BY <1>4 DEF Ask, aVars, routerVars
  <2>3. began'.versions \in 1 .. Len(versions')
    BY <1>0, <2>1, <2>2 DEF ConfigInv
  <2> QED BY <2>1, <2>2, <2>3
<1>5. ASSUME NEW read, GoesOn(read), status = "reading",
             read = [k \in Fields |-> read[k]], read.named \in BOOLEAN, read.up \in BOOLEAN,
             read.up => local.up \/ link
      PROVE  ReadInv'
  BY <1>5 DEF GoesOn, aVars, routerVars
<1>6. ASSUME NEW result, Returns(result), status = "reading" PROVE ReadInv'
  <2>1. shown' = [m \in Methods |-> shown'[m]]
    BY <1>6 DEF Returns
  <2> QED BY <1>6, <2>1 DEF Returns, aVars, routerVars, NothingRead, Fields
<1>7. CASE ReadArp
  <2>1. PICK rows \in Outputs(arp) : GoesOn([local EXCEPT !.arp = rows])
    BY <1>7 DEF ReadArp
  <2> QED BY <1>5, <1>7, <2>1 DEF ReadArp, At, Awaiting, Fields, NothingRead
<1>8. CASE ReadLeases
  <2>1. PICK output \in Outputs(Lines(log)) :
            \/ Returns(ParsedLeases(output))
            \/ GoesOn([local EXCEPT !.leases = ParsedLeases(output)])
    BY <1>8 DEF ReadLeases
  <2> QED BY <1>5, <1>6, <1>8, <2>1 DEF ReadLeases, At, Awaiting, Fields, NothingRead
<1>9. CASE ReadConfigForDevices \/ ReadConfigForStatics \/ ReadConfigForDns \/ ReadRoute \/ ReadHaproxy
  BY <1>6, <1>9 DEF ReadConfigForDevices, ReadConfigForStatics, ReadConfigForDns, ReadRoute, ReadHaproxy, At, Awaiting
<1>10. CASE ReadConfigForVpn
  <2>1. shown' = [m \in Methods |-> shown'[m]]
    BY <1>10 DEF ReadConfigForVpn
  <2> QED BY <1>10, <2>1 DEF ReadConfigForVpn, At, Awaiting, aVars, routerVars
<1>11. CASE ReadStatus
  <2>1. shown' = [m \in Methods |-> shown'[m]]
    BY <1>11 DEF ReadStatus
  <2> QED BY <1>11, <2>1 DEF ReadStatus, At, Awaiting, aVars, routerVars
<1>12. CASE ReadConfigForInterface
  <2>1. PICK named \in BOOLEAN : GoesOn([local EXCEPT !.named = named])
    BY <1>12 DEF ReadConfigForInterface
  <2> QED BY <1>5, <1>12, <2>1 DEF ReadConfigForInterface, At, Awaiting, Fields, NothingRead
<1>13. CASE ReadIfconfig
  <2>1. PICK says \in {local.named /\ (Method = "wan" => link), FALSE} :
            IF Method = "lan" THEN Returns(IF says THEN "up" ELSE "down")
                              ELSE GoesOn([local EXCEPT !.up = says])
    BY <1>13 DEF ReadIfconfig
  <2>2. says \in BOOLEAN /\ (Method = "lan" \/ (says => link))
    BY <1>13, <2>1 DEF ReadIfconfig
  <2> QED BY <1>5, <1>6, <1>13, <2>1, <2>2 DEF ReadIfconfig, At, Awaiting, Fields, NothingRead
<1>14. CASE CommandFails
  <2>1. local' = local \/ local' = NothingRead
    BY <1>14 DEF CommandFails
  <2>2. /\ local' = [k \in Fields |-> local'[k]]
        /\ local'.named \in BOOLEAN /\ local'.up \in BOOLEAN /\ (local'.up => local.up)
    <3>1. CASE local' = local
      BY <3>1
    <3>2. CASE local' = NothingRead
      BY <3>2 DEF NothingRead, Fields
    <3> QED BY <2>1, <3>1, <3>2
  <2>3. status' \in {"reading", "failed"} /\ status = "reading"
    BY <1>14 DEF CommandFails, Awaiting
  <2>4. UNCHANGED <<versions, link, shown, began, links>>
    BY <1>14 DEF CommandFails, aVars, routerVars
  <2> QED BY <2>2, <2>3, <2>4
<1>15. CASE Respond
  BY <1>15 DEF Respond, aVars, routerVars
<1>16. CASE UNCHANGED vars
  BY <1>16 DEF vars, aVars, routerVars, viewVars
<1> QED BY <1>1, <1>2, <1>3, <1>4, <1>7, <1>8, <1>9, <1>10, <1>11, <1>12, <1>13, <1>14, <1>15, <1>16
        DEF Next, Router, Read

---------------------------------------------------------------------------
(* Nothing invented. *)

StaticsListed == \E cfg \in Configs : shown.statics \in Outputs(Mappings(cfg))
DnsListed ==
    \E cfg \in Configs :
        \/ shown.dns \in {<<>>, Overrides(cfg)}
        \/ lost > 0 /\ shown.dns \in CutOverrides(Overrides(cfg))
DevicesMapped ==
    \E cfg \in Configs : \A i \in DOMAIN shown.devices :
        shown.devices[i].source = "static" =>
            \E e \in ToSet(Mappings(cfg)) :
                shown.devices[i].named = {e} /\ e.name = shown.devices[i].row.mac
WanSeen == shown.wan = "up" => TRUE \in links

Shows(status_) == status_ \in {"reading", "answered"}

\* NothingInvented by the lists it is about.
LEMMA Parts ==
    NothingInvented <=> (Shows(status) => StaticsListed /\ DnsListed /\ DevicesMapped /\ WanSeen)
BY DEF NothingInvented, StaticsListed, DnsListed, DevicesMapped, WanSeen, Shows

\* The lists of a configuration are lists of entries.
LEMMA ListTypes ==
    ASSUME NEW cfg \in Config
    PROVE  Mappings(cfg) \in Seq(Entry) /\ Overrides(cfg) \in Seq(Entry)
<1>1. cfg["lan"] \in Seq(Entry) /\ cfg["opt"] \in Seq(Entry) /\ cfg["dns"] \in Seq(Entry)
  BY DEF Config, Sections
<1> QED BY <1>1, ConcatProperties DEF Mappings, Overrides

\* What is listed of a file that is cut is a list of entries too.
LEMMA CutOverridesType ==
    ASSUME NEW list \in Seq(Entry), NEW o \in CutOverrides(list)
    PROVE  o \in Seq(Entry)
<1>1. <<>> \in Seq(Entry)
  BY EmptySeq
<1>2. ASSUME NEW some \in Outputs(list) PROVE OtherHosts \o some \in Seq(Entry)
  <2>1. some \in Seq(Entry) /\ OtherHosts \in Seq(Entry)
    BY OutputIsStart, ViewsAssumption
  <2> QED BY <2>1, ConcatProperties
<1> QED BY <1>1, <1>2 DEF CutOverrides

\* A configuration of the time of the view remains one.
LEMMA ConfigsGrow ==
    ASSUME ConfigInv, ReadInv, [Next]_vars, status # "idle"
    PROVE  Configs \subseteq Configs'
<1>0. Len(versions) \in Nat /\ began.versions \in 1 .. Len(versions)
  BY LenProperties DEF ConfigInv, ReadInv
<1>1. CASE Edit
  <2>1. ConfigInv' /\ Grows
    BY <1>1, ConfigStep DEF Edit
  <2>2. Len(versions') \in Nat
    BY <2>1, LenProperties DEF ConfigInv
  <2>3. began' = began
    BY <1>1 DEF Edit, viewVars
  <2> QED BY <1>0, <2>1, <2>2, <2>3 DEF Grows, Configs
<1>2. CASE UNCHANGED <<versions, began>>
  BY <1>2 DEF Configs
<1> QED BY <1>1, <1>2 DEF Next, Router, Read, vars, aVars, viewVars, WriteLease, FlipLink, GoOrComeBack, Ask,
         ReadArp, ReadLeases, ReadConfigForDevices, ReadConfigForStatics, ReadConfigForDns, ReadConfigForVpn,
         ReadStatus, ReadConfigForInterface, ReadIfconfig, ReadRoute, ReadHaproxy, GoesOn, Returns,
         CommandFails, Respond

\* The configuration that a command reads is of the time of the view.
LEMMA DiskIsCurrent ==
    ASSUME ConfigInv, ReadInv
    PROVE  Disk \in Configs /\ Disk \in Config
<1>1. Len(versions) \in Nat /\ \A i \in 1 .. Len(versions) : versions[i] \in Config
  BY LenProperties, ElementOfSeq DEF ConfigInv
<1>2. Len(versions) \in began.versions .. Len(versions)
  BY <1>1 DEF ReadInv
<1> QED BY <1>1, <1>2 DEF Disk, Configs, ConfigInv

\* A device with a static name has it from a mapping of the list that was read.
LEMMA StaticDevice ==
    ASSUME NEW list, DOMAIN list = 1 .. Len(list), Len(list) \in Nat, NEW row, NEW byIp,
           DeviceOf(row, byIp, list).source = "static"
    PROVE  /\ DeviceOf(row, byIp, list).row = row
           /\ \E i \in DOMAIN list :
                DeviceOf(row, byIp, list).named = {list[i]} /\ list[i].name = row.mac
<1>1. IsMapped(list, row.mac)
  <2> SUFFICES ASSUME ~IsMapped(list, row.mac) PROVE FALSE
    OBVIOUS
  <2>1. DeviceOf(row, byIp, list).source \in {"dhcp", "arp"}
    BY DEF DeviceOf
  <2> QED BY <2>1
<1>2. DeviceOf(row, byIp, list) = [row |-> row, source |-> "static", named |-> {LastOf(list, row.mac)}]
  BY <1>1 DEF DeviceOf
<1>3. PICK i \in DOMAIN list : LastOf(list, row.mac) = list[i] /\ list[i].name = row.mac
  BY <1>1, LastOfMapped
<1> QED BY <1>2, <1>3

\* get_devices names no device by a mapping that config.xml did not hold.
LEMMA DevicesJoined ==
    ASSUME NEW cfg \in Config, NEW list \in Outputs(Mappings(cfg)), NEW byIp,
           NEW i \in DOMAIN Joined(byIp, list), Joined(byIp, list)[i].source = "static"
    PROVE  \E e \in ToSet(Mappings(cfg)) :
                Joined(byIp, list)[i].named = {e} /\ e.name = Joined(byIp, list)[i].row.mac
<1>1. PICK row : Joined(byIp, list)[i] = DeviceOf(row, byIp, list)
  BY DEF Joined
<1>2. /\ DOMAIN list = 1 .. Len(list) /\ Len(list) \in Nat
      /\ \A k \in DOMAIN list : list[k] \in ToSet(Mappings(cfg))
  BY ListTypes, OutputElements
<1>3. DeviceOf(row, byIp, list).source = "static"
  BY <1>1
<1>4. /\ DeviceOf(row, byIp, list).row = row
      /\ \E k \in DOMAIN list :
            DeviceOf(row, byIp, list).named = {list[k]} /\ list[k].name = row.mac
  BY <1>2, <1>3, StaticDevice
<1> QED BY <1>1, <1>2, <1>4

\* Before a view is asked for nothing is shown, and nothing is the start of
\* any list.
LEMMA AskStep ==
    ASSUME ConfigInv, ReadInv, ReadInv', Ask
    PROVE  NothingInvented'
<1>1. shown' = NothingShown /\ versions' = versions
  BY DEF Ask, ReadInv, aVars
<1>2. Disk' \in Configs' /\ Disk' \in Config
  <2>1. Disk' = Disk /\ Disk \in Config
    BY <1>1, DiskIsCurrent DEF Disk
  <2>2. Len(versions) \in Nat /\ began'.versions = Len(versions)
    BY LenProperties DEF Ask, ConfigInv
  <2> QED BY <1>1, <2>1, <2>2 DEF Configs, Disk
<1>3. <<>> \in Outputs(Mappings(Disk'))
  BY <1>2, ListTypes, EmptyOutput
<1>4. StaticsListed' /\ DnsListed' /\ DevicesMapped' /\ WanSeen'
  <2>1. /\ shown'.statics = <<>> /\ shown'.dns = <<>> /\ shown'.devices = <<>>
        /\ shown'.wan = "unreachable"
    BY <1>1 DEF NothingShown
  <2>2. StaticsListed' /\ DnsListed'
    BY <1>2, <1>3, <2>1 DEF StaticsListed, DnsListed, Outputs, Cuts, Mappings
  <2>3. DevicesMapped' /\ WanSeen'
    BY <1>2, <2>1 DEF DevicesMapped, WanSeen
  <2> QED BY <2>2, <2>3
<1> QED BY <1>4 DEF NothingInvented, StaticsListed, DnsListed, DevicesMapped, WanSeen

\* What has been shown keeps its configuration.
LEMMA KeepsShown ==
    ASSUME ConfigInv, ReadInv, NothingInvented, [Next]_vars, Shows(status), lost' = lost \/ lost' > 0
    PROVE  /\ shown'.statics = shown.statics => StaticsListed'
           /\ shown'.dns = shown.dns => DnsListed'
           /\ shown'.devices = shown.devices => DevicesMapped'
           /\ shown'.wan = shown.wan /\ links \subseteq links' => WanSeen'
<1>1. Configs \subseteq Configs'
  BY ConfigsGrow DEF Shows
<1>2. StaticsListed /\ DnsListed /\ DevicesMapped /\ WanSeen
  BY Parts
<1>3. shown'.statics = shown.statics => StaticsListed'
  BY <1>1, <1>2 DEF StaticsListed, Outputs, Cuts, Mappings
<1>4. shown'.dns = shown.dns => DnsListed'
  BY <1>1, <1>2 DEF DnsListed, CutOverrides, Outputs, Cuts, Overrides
<1>5. shown'.devices = shown.devices => DevicesMapped'
  BY <1>1, <1>2 DEF DevicesMapped, Mappings
<1>6. shown'.wan = shown.wan /\ links \subseteq links' => WanSeen'
  BY <1>2 DEF WanSeen
<1> QED BY <1>3, <1>4, <1>5, <1>6

\* Each method shows what it read, and leaves what the others have shown.
LEMMA InventedStep ==
    ASSUME IInv, ReadInv', [Next]_vars
    PROVE  NothingInvented'
<1> USE DEF IInv
<1>0. NothingInvented' <=> (Shows(status') => StaticsListed' /\ DnsListed' /\ DevicesMapped' /\ WanSeen')
  BY DEF NothingInvented, StaticsListed, DnsListed, DevicesMapped, WanSeen, Shows
<1>1. CASE Ask
  BY <1>1, AskStep
<1>2. CASE ~Ask /\ ~Shows(status)
  <2>1. status \in {"idle", "failed"} /\ status' = status
    BY <1>2 DEF ReadInv, Shows, Next, Router, Read, vars, viewVars, Edit, WriteLease, FlipLink, GoOrComeBack,
       ReadArp, ReadLeases, ReadConfigForDevices, ReadConfigForStatics, ReadConfigForDns, ReadConfigForVpn,
       ReadStatus, ReadConfigForInterface, ReadIfconfig, ReadRoute, ReadHaproxy, At, Awaiting, CommandFails, Respond
  <2> QED BY <1>0, <2>1 DEF Shows
<1>3. CASE ~Ask /\ Shows(status)
  <2>0. /\ shown'.statics = shown.statics => StaticsListed'
        /\ shown'.dns = shown.dns => DnsListed'
        /\ shown'.devices = shown.devices => DevicesMapped'
        /\ shown'.wan = shown.wan /\ links \subseteq links' => WanSeen'
    <3>1. lost' = lost \/ lost' > 0
      BY Losses
    <3> QED BY <1>3, <3>1, KeepsShown
  <2>1. CASE shown' = shown /\ links \subseteq links'
    BY <1>0, <2>0, <2>1
  <2>2. ASSUME NEW result, Returns(result)
        PROVE  \A m \in Methods : shown'[m] = IF m = Method THEN result ELSE shown[m]
    BY <2>2 DEF Returns, ReadInv
  <2>3. {"statics", "dns", "devices", "wan", "lan", "leases", "vpn", "haproxy"} = Methods
    BY DEF Methods, CommandsOf
  <2>4. ASSUME \A m \in {"statics", "dns", "devices", "wan"} : shown'[m] = shown[m], links' = links
        PROVE  NothingInvented'
    BY <1>0, <2>0, <2>4
  <2>5. CASE ReadLeases
    <3>1. PICK output \in Outputs(Lines(log)) :
            IF Method = "leases" THEN Returns(ParsedLeases(output))
                                 ELSE GoesOn([local EXCEPT !.leases = ParsedLeases(output)])
      BY <2>5 DEF ReadLeases
    <3>2. CASE Method = "leases"
      BY <2>2, <2>3, <2>4, <3>1, <3>2 DEF Returns
    <3>3. CASE Method # "leases"
      BY <2>1, <3>1, <3>3 DEF GoesOn
    <3> QED BY <3>2, <3>3
  <2>6. CASE ReadConfigForDevices
    <3>1. PICK list \in Outputs(Mappings(Disk)), byIp \in ByAddress(local.leases) :
            Returns(Joined(byIp, list))
      BY <2>6 DEF ReadConfigForDevices
    <3>2. shown'.devices = Joined(byIp, list)
      BY <2>2, <2>3, <2>6, <3>1 DEF ReadConfigForDevices
    <3>3. Disk \in Config /\ Disk \in Configs'
      BY <1>3, DiskIsCurrent, ConfigsGrow DEF Shows
    <3>4. DevicesMapped'
      <4>1. \A i \in DOMAIN Joined(byIp, list) : Joined(byIp, list)[i].source = "static" =>
                \E e \in ToSet(Mappings(Disk)) :
                    Joined(byIp, list)[i].named = {e} /\ e.name = Joined(byIp, list)[i].row.mac
        BY <3>3, DevicesJoined
      <4> HIDE DEF Joined
      <4> QED BY <3>2, <3>3, <4>1 DEF DevicesMapped, Mappings
    <3>5. shown'.statics = shown.statics /\ shown'.dns = shown.dns /\ shown'.wan = shown.wan /\ links' = links
      BY <2>2, <2>3, <2>6, <3>1 DEF ReadConfigForDevices, Returns
    <3> QED BY <1>0, <2>0, <3>4, <3>5
  <2>7. CASE ReadConfigForStatics
    <3>1. PICK list \in Outputs(Mappings(Disk)) : Returns(list)
      BY <2>7 DEF ReadConfigForStatics
    <3>2. shown'.statics = list /\ Disk \in Configs'
      BY <1>3, <2>2, <2>3, <2>7, <3>1, DiskIsCurrent, ConfigsGrow DEF ReadConfigForStatics, Shows
    <3>3. StaticsListed'
      BY <3>1, <3>2 DEF StaticsListed, Outputs, Cuts, Mappings
    <3>4. shown'.devices = shown.devices /\ shown'.dns = shown.dns /\ shown'.wan = shown.wan /\ links' = links
      BY <2>2, <2>3, <2>7, <3>1 DEF ReadConfigForStatics, Returns
    <3> QED BY <1>0, <2>0, <3>3, <3>4
  <2>8. CASE ReadConfigForDns
    <3>1. PICK list :
            /\ Returns(list)
            /\ list = Overrides(Disk) \/ (lost' = lost + 1 /\ list \in CutOverrides(Overrides(Disk)))
      BY <2>8 DEF ReadConfigForDns, Broken
    <3>2. shown'.dns = list /\ Disk \in Configs'
      BY <1>3, <2>2, <2>3, <2>8, <3>1, DiskIsCurrent, ConfigsGrow DEF ReadConfigForDns, Shows
    <3>3. DnsListed'
      BY <3>1, <3>2 DEF DnsListed, CutOverrides, Outputs, Cuts, Overrides
    <3>4. /\ shown'.devices = shown.devices /\ shown'.statics = shown.statics
          /\ shown'.wan = shown.wan /\ links' = links
      BY <2>2, <2>3, <2>8, <3>1 DEF ReadConfigForDns, Returns
    <3> QED BY <1>0, <2>0, <3>3, <3>4
  <2>9. CASE ReadConfigForVpn \/ ReadStatus
    <3>1. \A m \in {"statics", "dns", "devices", "wan"} : shown'[m] = shown[m]
      BY <2>3, <2>9 DEF ReadConfigForVpn, ReadStatus, ReadInv
    <3> QED BY <2>4, <2>9, <3>1 DEF ReadConfigForVpn, ReadStatus
  <2>10. CASE ReadIfconfig
    <3>1. PICK says \in {local.named /\ (Method = "wan" => link), FALSE} :
            IF Method = "lan" THEN Returns(IF says THEN "up" ELSE "down")
                              ELSE GoesOn([local EXCEPT !.up = says])
      BY <2>10 DEF ReadIfconfig
    <3>2. CASE Method = "lan"
      BY <2>2, <2>3, <2>4, <3>1, <3>2 DEF Returns
    <3>3. CASE Method # "lan"
      BY <2>1, <3>1, <3>3 DEF GoesOn
    <3> QED BY <3>2, <3>3
  <2>11. CASE ReadRoute
    <3>1. /\ shown'.wan = IF local.up THEN "up" ELSE "down"
          /\ shown'.devices = shown.devices /\ shown'.statics = shown.statics /\ shown'.dns = shown.dns
          /\ links' = links
      BY <2>2, <2>3, <2>11 DEF ReadRoute, Returns
    <3>2. WanSeen'
      BY <2>11, <3>1 DEF WanSeen, ReadInv, ReadRoute, At, Awaiting
    <3> QED BY <1>0, <2>0, <3>1, <3>2
  <2>12. CASE ReadHaproxy
    <3>1. PICK result : Returns(result) /\ Method = "haproxy"
      BY <2>12 DEF ReadHaproxy
    <3> QED BY <2>2, <2>3, <2>4, <3>1 DEF Returns
  <2>13. (shown' = shown /\ links \subseteq links') \/ ReadLeases \/ ReadConfigForDevices \/ ReadConfigForStatics
            \/ ReadConfigForDns \/ ReadConfigForVpn \/ ReadStatus \/ ReadIfconfig \/ ReadRoute \/ ReadHaproxy
    BY <1>3 DEF Next, Router, Read, vars, viewVars, Edit, WriteLease, FlipLink, GoOrComeBack, ReadArp, GoesOn,
       ReadConfigForInterface, CommandFails, Respond
  <2> QED BY <2>1, <2>5, <2>6, <2>7, <2>8, <2>9, <2>10, <2>11, <2>12, <2>13
<1> QED BY <1>1, <1>2, <1>3

---------------------------------------------------------------------------
(* The theorems. *)

\* The configuration, what is being read and what is shown, in every state.
THEOREM Invariant == Spec => []IInv
<1>1. Init => IInv
  <2>1. Init => ConfigInv /\ ReadInv
    <3> SUFFICES ASSUME Init PROVE ConfigInv /\ ReadInv
      OBVIOUS
    <3>1. ConfigInv /\ Len(versions) = 1
      BY ConfigInit DEF Init
    <3>2. shown = [m \in Methods |-> shown[m]]
      BY DEF Init, Methods, CommandsOf, NothingShown
    <3>3. local = [k \in Fields |-> local[k]] /\ ~local.up /\ local.named = FALSE /\ local.up = FALSE
      BY DEF Init, NothingRead, Fields
    <3>4. began.versions \in 1 .. Len(versions)
      BY <3>1 DEF Init
    <3> QED BY <3>1, <3>2, <3>3, <3>4 DEF Init, ReadInv
  <2>2. Init => lost \in Nat /\ NothingInvented
    BY DEF Init, NothingInvented
  <2> QED BY <2>1, <2>2 DEF IInv
<1>2. IInv /\ [Next]_vars => IInv'
  <2> SUFFICES ASSUME IInv, [Next]_vars PROVE IInv'
    OBVIOUS
  <2>1. ConfigInv'
    <3>1. CASE Edit
      BY <3>1, ConfigStep DEF Edit, IInv
    <3>2. CASE UNCHANGED aVars
      BY <3>2 DEF aVars, ConfigInv, IInv
    <3> QED BY <3>1, <3>2 DEF Next, Router, Read, vars, WriteLease, FlipLink, GoOrComeBack, Ask,
         ReadArp, ReadLeases, ReadConfigForDevices, ReadConfigForStatics, ReadConfigForDns, ReadConfigForVpn,
         ReadStatus, ReadConfigForInterface, ReadIfconfig, ReadRoute, ReadHaproxy, GoesOn, Returns,
         CommandFails, Respond
  <2>2. ReadInv'
    BY ReadStep DEF IInv
  <2>3. NothingInvented'
    BY <2>2, InventedStep
  <2>4. lost' \in Nat
    BY Losses DEF IInv
  <2> QED BY <2>1, <2>2, <2>3, <2>4 DEF IInv
<1> QED BY <1>1, <1>2, PTL DEF Spec

\* Whatever a view lists of config.xml was in it while the view was put
\* together, and a WAN that is up was up, whoever edits and whatever is cut.
THEOREM Authentic == Spec => []NothingInvented
<1>1. IInv => NothingInvented
  BY DEF IInv
<1> QED BY <1>1, Invariant, PTL

---------------------------------------------------------------------------
(* Where the view is: at one of its methods, at one of its commands. *)

\* The view is where it says: at one of its methods, which it awaits once, and
\* at one of that method's commands.
PlaceInv ==
    /\ view \in DOMAIN MethodsOf
    /\ at \in 1 .. Len(MethodsOf[view]) + 1
    /\ done \in Nat
    /\ status = "idle" => at = 1 /\ done = 0
    /\ status = "answered" => at = Len(MethodsOf[view]) + 1
    /\ status = "failed" => at <= Len(MethodsOf[view]) /\ ~Optional
    /\ at <= Len(MethodsOf[view]) =>
        IF Method = "vpn" THEN done <= Len(shown.vpn) ELSE done < Len(CommandsOf[Method])

\* A view awaits some methods, and each of them once.
LEMMA MethodsOnce ==
    ASSUME NEW name \in DOMAIN MethodsOf
    PROVE  /\ Len(MethodsOf[name]) \in Nat /\ Len(MethodsOf[name]) >= 1
           /\ DOMAIN MethodsOf[name] = 1 .. Len(MethodsOf[name])
           /\ \A i \in 1 .. Len(MethodsOf[name]) : MethodsOf[name][i] \in Methods
           /\ \A i, j \in 1 .. Len(MethodsOf[name]) :
                MethodsOf[name][i] = MethodsOf[name][j] => i = j
<1>1. CASE name = "page"
  <2>1. MethodsOf[name] = <<"devices", "statics", "dns", "vpn", "wan", "lan">>
    BY <1>1 DEF MethodsOf
  <2> QED BY <2>1 DEF Methods, CommandsOf
<1>2. CASE name = "dashboard"
  <2>1. MethodsOf[name] = <<"wan", "lan", "devices", "leases", "statics", "vpn", "dns">>
    BY <1>2 DEF MethodsOf
  <2> QED BY <2>1 DEF Methods, CommandsOf
<1>3. CASE name \in {"devices", "leases", "statics", "dns", "vpn", "wan", "lan", "haproxy"}
  <2>1. MethodsOf[name] = <<name>>
    BY <1>3 DEF MethodsOf
  <2>2. name \in Methods
    BY <1>3 DEF Methods, CommandsOf
  <2> QED BY <2>1, <2>2
<1> QED BY <1>1, <1>2, <1>3 DEF MethodsOf

\* What the method at hand has done so far, by the command that is next.
LEMMA CommandsAt ==
    ASSUME PlaceInv, at <= Len(MethodsOf[view])
    PROVE  /\ Method \in Methods
           /\ Command = "arp" => Method = "devices" /\ done = 0
           /\ Command = "leases" => (Method = "devices" /\ done = 1) \/ (Method = "leases" /\ done = 0)
           /\ Command = "config" /\ Method = "devices" => done = 2
           /\ Command = "config" /\ Method # "devices" => done = 0
           /\ Command = "ifconfig" => Method \in {"wan", "lan"} /\ done = 1
           /\ Command = "route" => Method = "wan" /\ done = 2
           /\ Command = "haproxy" => Method = "haproxy" /\ done = 0
           /\ Command = "status" => Method = "vpn" /\ done \in 1 .. Len(shown.vpn)
           /\ Method = "vpn" /\ done > 0 => Command = "status"
<1>1. Method \in Methods
  <2>1. view \in DOMAIN MethodsOf /\ at \in 1 .. Len(MethodsOf[view])
    BY MethodsOnce DEF PlaceInv
  <2> QED BY <2>1, MethodsOnce DEF Method
<1>2. done \in Nat
  BY DEF PlaceInv
<1>3. CASE Method = "vpn"
  <2>1. done <= Len(shown.vpn)
    BY <1>3 DEF PlaceInv
  <2>2. CASE done = 0
    <3>1. Command = "config"
      BY <1>3, <2>2 DEF Command, CommandsOf
    <3> QED BY <1>1, <1>3, <2>2, <3>1
  <2>3. CASE done > 0
    <3>1. Command = "status" /\ done \in 1 .. Len(shown.vpn)
      BY <1>2, <1>3, <2>1, <2>3 DEF Command
    <3> QED BY <1>1, <1>3, <3>1
  <2> QED BY <1>2, <2>2, <2>3
<1>4. CASE Method # "vpn"
  <2>1. done < Len(CommandsOf[Method]) /\ Command = CommandsOf[Method][done + 1]
    BY <1>4 DEF PlaceInv, Command
  <2>2. CASE Method = "devices"
    <3>1. CommandsOf[Method] = <<"arp", "leases", "config">>
      BY <2>2 DEF CommandsOf
    <3>2. done \in {0, 1, 2}
      BY <1>2, <2>1, <3>1
    <3> QED BY <1>1, <2>1, <2>2, <3>1, <3>2
  <2>3. CASE Method = "wan"
    <3>1. CommandsOf[Method] = <<"config", "ifconfig", "route">>
      BY <2>3 DEF CommandsOf
    <3>2. done \in {0, 1, 2}
      BY <1>2, <2>1, <3>1
    <3> QED BY <1>1, <2>1, <2>3, <3>1, <3>2
  <2>4. CASE Method = "lan"
    <3>1. CommandsOf[Method] = <<"config", "ifconfig">>
      BY <2>4 DEF CommandsOf
    <3>2. done \in {0, 1}
      BY <1>2, <2>1, <3>1
    <3> QED BY <1>1, <2>1, <2>4, <3>1, <3>2
  <2>5. CASE Method \in {"leases", "statics", "dns", "haproxy"}
    <3>1. CommandsOf[Method] = IF Method = "leases" THEN <<"leases">>
                               ELSE IF Method = "haproxy" THEN <<"haproxy">> ELSE <<"config">>
      BY <2>5 DEF CommandsOf
    <3>2. Len(CommandsOf[Method]) = 1
      BY <3>1
    <3>3. done = 0
      BY <1>2, <2>1, <3>2
    <3>4. Command = IF Method = "leases" THEN "leases"
                    ELSE IF Method = "haproxy" THEN "haproxy" ELSE "config"
      BY <2>1, <3>1, <3>3
    <3> QED BY <1>1, <2>5, <3>3, <3>4
  <2> QED BY <1>1, <1>4, <2>2, <2>3, <2>4, <2>5 DEF Methods, CommandsOf
<1> QED BY <1>3, <1>4

---------------------------------------------------------------------------
(* Types. *)

ShownIn ==
    [devices |-> Seq(Device), leases |-> SUBSET Lease, statics |-> Seq(Entry), dns |-> Seq(Entry),
     vpn |-> Seq([server : ToSet(Servers), clients : Seq(Client)]),
     wan |-> {"unreachable", "up", "down"}, lan |-> {"unreachable", "up", "down"},
     haproxy |-> {"none", "whole", "empty"}]

RouterTypes == /\ log \in Seq(Block) /\ arp \in Seq(Row) /\ link \in BOOLEAN /\ reachable \in BOOLEAN
               /\ turns \in Nat
LocalTypes == /\ local.arp \in Seq(Row) /\ local.leases \subseteq Lease
              /\ local.named \in BOOLEAN /\ local.up \in BOOLEAN
ShownTypes == \A m \in Methods : shown[m] \in ShownIn[m]
HistoryTypes == /\ began.versions \in Nat /\ began.log \in Nat /\ links \subseteq BOOLEAN /\ lost \in Nat
                /\ harm \in [Methods -> {"none", "cut", "failed"}]
PlaceTypes == /\ view \in DOMAIN MethodsOf
              /\ status \in {"idle", "reading", "answered", "failed"}
              /\ at \in 1 .. Len(MethodsOf[view]) + 1 /\ done \in Nat

\* TypeOK by what it is about.
LEMMA TypeParts == TypeOK <=> RouterTypes /\ PlaceTypes /\ LocalTypes /\ ShownTypes /\ HistoryTypes
<1>1. ShownTypes <=>
        /\ shown.devices \in Seq(Device) /\ shown.leases \subseteq Lease
        /\ shown.statics \in Seq(Entry) /\ shown.dns \in Seq(Entry)
        /\ shown.vpn \in Seq([server : ToSet(Servers), clients : Seq(Client)])
        /\ shown.wan \in {"unreachable", "up", "down"} /\ shown.lan \in {"unreachable", "up", "down"}
        /\ shown.haproxy \in {"none", "whole", "empty"}
  BY DEF ShownTypes, ShownIn, Methods, CommandsOf
<1> QED BY <1>1 DEF TypeOK, RouterTypes, PlaceTypes, LocalTypes, HistoryTypes

\* A list of rows that are resolved, one for each row that is.
LEMMA ResolvedType ==
    ASSUME NEW rows \in Seq(Row)
    PROVE  Resolved(rows) \in Seq(ResolvedRow)
<1>1. \A kept \in Seq(ResolvedRow), row \in Row :
        (IF row.mac = Incomplete THEN kept ELSE Append(kept, row)) \in Seq(ResolvedRow)
  <2> TAKE kept \in Seq(ResolvedRow), row \in Row
  <2>1. row.mac # Incomplete => row \in ResolvedRow
    BY DEF Row, ResolvedRow
  <2> QED BY <2>1, AppendProperties
<1>2. AfterRow \in LoopBody(Seq(ResolvedRow), Row)
  BY <1>1 DEF AfterRow, LoopBody
<1>3. <<>> \in Seq(ResolvedRow)
  BY EmptySeq
<1> QED BY <1>2, <1>3, FoldedList DEF Resolved

\* Every row is joined to a device.
LEMMA JoinedType ==
    ASSUME LocalTypes, NEW byIp \in ByAddress(local.leases), NEW statics \in Seq(Entry)
    PROVE  Joined(byIp, statics) \in Seq(Device)
<1> DEFINE rows == Resolved(local.arp)
<1>1. rows \in Seq(ResolvedRow)
  BY ResolvedType DEF LocalTypes
<1>2. Len(rows) \in Nat /\ DOMAIN rows = 1 .. Len(rows) /\ \A i \in 1 .. Len(rows) : rows[i] \in ResolvedRow
  BY <1>1, LenProperties, ElementOfSeq
<1> HIDE DEF rows
<1>3. ASSUME NEW row \in ResolvedRow PROVE DeviceOf(row, byIp, statics) \in Device
  <2>1. CASE IsMapped(statics, row.mac)
    <3>1. Len(statics) \in Nat /\ DOMAIN statics = 1 .. Len(statics)
      BY LenProperties
    <3>2. LastOf(statics, row.mac) \in Entry
      BY <2>1, <3>1, LastOfMapped, ElementOfSeq
    <3>3. DeviceOf(row, byIp, statics)
            = [row |-> row, source |-> "static", named |-> {LastOf(statics, row.mac)}]
      BY <2>1 DEF DeviceOf
    <3> QED BY <3>2, <3>3 DEF Device
  <2>2. CASE ~IsMapped(statics, row.mac) /\ row.ip \in DOMAIN byIp
    <3>1. byIp[row.ip] \in Lease
      BY <2>2 DEF ByAddress, LocalTypes
    <3>2. DeviceOf(row, byIp, statics) = [row |-> row, source |-> "dhcp", named |-> {byIp[row.ip]}]
      BY <2>2 DEF DeviceOf
    <3> QED BY <3>1, <3>2 DEF Device
  <2>3. CASE ~IsMapped(statics, row.mac) /\ row.ip \notin DOMAIN byIp
    <3>1. DeviceOf(row, byIp, statics) = [row |-> row, source |-> "arp", named |-> {}]
      BY <2>3 DEF DeviceOf
    <3> QED BY <3>1 DEF Device
  <2> QED BY <2>1, <2>2, <2>3
<1>4. Joined(byIp, statics) \in [1 .. Len(rows) -> Device]
  BY <1>2, <1>3 DEF Joined, rows
<1> QED BY <1>2, <1>4, SeqDef

\* What is parsed of the leases file, whole or cut, while the view reads it.
LEMMA ParsedOutput ==
    ASSUME RouterTypes, NEW output \in Outputs(Lines(log))
    PROVE  /\ ParsedLeases(output) \subseteq Lease
           /\ ParsedLeases(output) \subseteq LeasesOf(log)
           /\ \A l, k \in ParsedLeases(output) : l.mac = k.mac => l = k
           /\ output = Lines(log) =>
                \A l \in LeasesOf(log) :
                    \E k \in ParsedLeases(output) : k.mac = l.mac /\ (l.ends # NoEnd => k.ends >= l.ends)
<1>1. log \in Seq(Block) /\ Lines(log) \in Seq(LogLine)
  BY LinesOf DEF RouterTypes
<1>2. output \in Starts(Lines(log))
  BY <1>1, OutputIsStart DEF Starts
<1> QED BY <1>1, <1>2, OneOfEachClient

\* A view is the same view throughout; the router's lists remain lists, of
\* which the ARP table stays as it is and the log only grows.
LEMMA RouterStep ==
    ASSUME ConfigInv, RouterTypes, HistoryTypes, [Next]_vars
    PROVE  /\ RouterTypes' /\ HistoryTypes'
           /\ view' = view /\ arp' = arp
           /\ log' = log \/ \E b \in Block : log' = Append(log, b)
<1> USE DEF RouterTypes
<1>0. lost' \in Nat /\ harm' \in [Methods -> {"none", "cut", "failed"}]
  <2>1. CASE UNCHANGED <<lost, harm>>
    BY <2>1 DEF HistoryTypes
  <2>2. CASE ~UNCHANGED <<lost, harm>>
    <3>1. PICK h \in {"cut", "failed"} : lost' = lost + 1 /\ harm' = [harm EXCEPT ![Method] = h]
      BY <2>2, Losses
    <3>2. h \in {"none", "cut", "failed"}
      OBVIOUS
    <3>3. harm' \in [Methods -> {"none", "cut", "failed"}]
      BY <3>1, <3>2 DEF HistoryTypes
    <3> QED BY <3>1, <3>3 DEF HistoryTypes
  <2> QED BY <2>1, <2>2
<1> USE <1>0 DEF HistoryTypes
<1>1. CASE WriteLease
  <2>1. PICK b \in Blocks : log' = Append(log, b)
    BY <1>1 DEF WriteLease
  <2>2. b \in Block /\ log' \in Seq(Block)
    BY <2>1, ViewsAssumption, AppendProperties
  <2> QED BY <1>1, <2>1, <2>2 DEF WriteLease, Turn, viewVars
<1>2. CASE Edit \/ GoOrComeBack \/ FlipLink \/ UNCHANGED vars
  <2>1. UNCHANGED <<log, arp, view, began>>
    BY <1>2 DEF Edit, FlipLink, GoOrComeBack, Turn, vars, routerVars, viewVars
  <2>2. link' \in BOOLEAN /\ reachable' \in BOOLEAN
    BY <1>2 DEF Edit, FlipLink, GoOrComeBack, Turn, vars, routerVars, viewVars
  <2>3. turns' \in Nat
    BY <1>2 DEF Edit, FlipLink, GoOrComeBack, Turn, vars, routerVars, viewVars
  <2>4. links' = links \/ links' = links \cup {link'}
    BY <1>2 DEF Edit, FlipLink, GoOrComeBack, Turn, vars, routerVars, viewVars
  <2> QED BY <2>1, <2>2, <2>3, <2>4
<1>3. CASE Ask
  <2>1. Len(versions) \in Nat /\ Len(log) \in Nat
    BY LenProperties DEF ConfigInv
  <2> QED BY <1>3, <2>1 DEF Ask, routerVars
<1>4. CASE Read
  <2>1. UNCHANGED <<log, arp, link, reachable, turns, view, began, links>>
    BY <1>4 DEF Read, routerVars, ReadArp, ReadLeases, ReadConfigForDevices, ReadConfigForStatics,
       ReadConfigForDns, ReadConfigForVpn, ReadStatus, ReadConfigForInterface, ReadIfconfig, ReadRoute,
       ReadHaproxy, GoesOn, Returns, CommandFails, Respond
  <2> QED BY <2>1
<1> QED BY <1>1, <1>2, <1>3, <1>4 DEF Next, Router

LocalRecords == [arp : Seq(Row), leases : SUBSET Lease, named : BOOLEAN, up : BOOLEAN]

\* The record of what the method at hand has read.
LEMMA LocalRecord ==
    ReadInv => (LocalTypes <=> local \in LocalRecords)
BY DEF ReadInv, LocalTypes, LocalRecords, Fields, NothingRead

\* A command that is over, but for the two of vpn.
Reads ==
    \/ ReadArp \/ ReadLeases
    \/ ReadConfigForDevices \/ ReadConfigForStatics \/ ReadConfigForDns
    \/ ReadConfigForInterface \/ ReadIfconfig \/ ReadRoute \/ ReadHaproxy

\* It was not the last of its method, or the method returns what it should.
LEMMA ReadsOn ==
    ASSUME ConfigInv, ReadInv, PlaceInv, RouterTypes, local \in LocalRecords, Reads
    PROVE  /\ Awaiting /\ Method # "vpn"
           /\ \/ \E result \in ShownIn[Method] : Returns(result)
              \/ done + 1 < Len(CommandsOf[Method]) /\ \E read \in LocalRecords : GoesOn(read)
<1>0. Disk \in Config /\ Mappings(Disk) \in Seq(Entry) /\ Overrides(Disk) \in Seq(Entry)
  BY DiskIsCurrent, ListTypes
<1>1. CASE ReadArp
  <2>1. PICK rows \in Outputs(arp) : GoesOn([local EXCEPT !.arp = rows])
    BY <1>1 DEF ReadArp
  <2>2. Awaiting /\ Method = "devices" /\ done = 0
    BY <1>1, CommandsAt DEF ReadArp, At, Awaiting
  <2>3. rows \in Seq(Row)
    BY OutputIsStart DEF RouterTypes
  <2>4. [local EXCEPT !.arp = rows] \in LocalRecords
    BY <2>3 DEF LocalRecords
  <2> QED BY <2>1, <2>2, <2>4 DEF CommandsOf
<1>2. CASE ReadLeases
  <2>1. PICK output \in Outputs(Lines(log)) :
            IF Method = "leases" THEN Returns(ParsedLeases(output))
                                 ELSE GoesOn([local EXCEPT !.leases = ParsedLeases(output)])
    BY <1>2 DEF ReadLeases
  <2>2. Awaiting /\ ((Method = "devices" /\ done = 1) \/ (Method = "leases" /\ done = 0))
    BY <1>2, CommandsAt DEF ReadLeases, At, Awaiting
  <2>3. ParsedLeases(output) \subseteq Lease
    BY ParsedOutput
  <2>4. CASE Method = "leases"
    BY <2>1, <2>2, <2>3, <2>4 DEF ShownIn
  <2>5. CASE Method = "devices" /\ done = 1
    <3>1. [local EXCEPT !.leases = ParsedLeases(output)] \in LocalRecords
      BY <2>3 DEF LocalRecords
    <3> QED BY <2>1, <2>2, <2>5, <3>1 DEF CommandsOf
  <2> QED BY <2>2, <2>4, <2>5
<1>3. CASE ReadConfigForDevices
  <2>1. PICK list \in Outputs(Mappings(Disk)), byIp \in ByAddress(local.leases) :
            Returns(Joined(byIp, list))
    BY <1>3 DEF ReadConfigForDevices
  <2>2. list \in Seq(Entry)
    BY <1>0, OutputIsStart
  <2>3. Joined(byIp, list) \in Seq(Device)
    BY <2>2, LocalRecord, JoinedType
  <2> QED BY <1>3, <2>1, <2>3 DEF ReadConfigForDevices, At, ShownIn
<1>4. CASE ReadConfigForStatics
  <2>1. PICK list \in Outputs(Mappings(Disk)) : Returns(list)
    BY <1>4 DEF ReadConfigForStatics
  <2>2. list \in Seq(Entry)
    BY <1>0, OutputIsStart
  <2> QED BY <1>4, <2>1, <2>2 DEF ReadConfigForStatics, At, ShownIn
<1>5. CASE ReadConfigForDns
  <2>1. PICK list : Returns(list) /\ (list = Overrides(Disk) \/ list \in CutOverrides(Overrides(Disk)))
    BY <1>5 DEF ReadConfigForDns
  <2>2. list \in Seq(Entry)
    BY <1>0, <2>1, CutOverridesType
  <2> QED BY <1>5, <2>1, <2>2 DEF ReadConfigForDns, At, ShownIn
<1>6. CASE ReadConfigForInterface
  <2>1. PICK named \in BOOLEAN : GoesOn([local EXCEPT !.named = named])
    BY <1>6 DEF ReadConfigForInterface
  <2>2. Awaiting /\ Method \in {"wan", "lan"} /\ done = 0
    BY <1>6, CommandsAt DEF ReadConfigForInterface, At, Awaiting
  <2>3. [local EXCEPT !.named = named] \in LocalRecords
    BY DEF LocalRecords
  <2> QED BY <2>1, <2>2, <2>3 DEF CommandsOf
<1>7. CASE ReadIfconfig
  <2>1. PICK says \in {local.named /\ (Method = "wan" => link), FALSE} :
            IF Method = "lan" THEN Returns(IF says THEN "up" ELSE "down")
                              ELSE GoesOn([local EXCEPT !.up = says])
    BY <1>7 DEF ReadIfconfig
  <2>2. Awaiting /\ Method \in {"wan", "lan"} /\ done = 1
    BY <1>7, CommandsAt DEF ReadIfconfig, At, Awaiting
  <2>3. says \in BOOLEAN
    BY <2>1 DEF ReadInv
  <2>4. [local EXCEPT !.up = says] \in LocalRecords
    BY <2>3 DEF LocalRecords
  <2>5. CASE Method = "lan"
    BY <2>1, <2>2, <2>5 DEF ShownIn
  <2>6. CASE Method = "wan"
    BY <2>1, <2>2, <2>4, <2>6 DEF CommandsOf
  <2> QED BY <2>2, <2>5, <2>6
<1>8. CASE ReadRoute \/ ReadHaproxy
  BY <1>8 DEF ReadRoute, ReadHaproxy, At, ShownIn
<1> QED BY <1>1, <1>2, <1>3, <1>4, <1>5, <1>6, <1>7, <1>8 DEF Reads

\* A step of the router, or none: the view stays where it is.
Rests == \/ Edit \/ WriteLease \/ FlipLink \/ GoOrComeBack \/ UNCHANGED vars

\* Every step is one of these.
LEMMA Kinds ==
    [Next]_vars => Rests \/ Ask \/ Reads \/ ReadConfigForVpn \/ ReadStatus \/ CommandFails \/ Respond
BY DEF Next, Router, Read, Reads, Rests

\* A step of the router leaves the view alone.
LEMMA Resting ==
    Rests => UNCHANGED <<view, status, at, done, local, shown, began, lost, harm>>
BY DEF Rests, Edit, WriteLease, FlipLink, GoOrComeBack, vars, viewVars

\* The servers of config.xml, none of them asked for its clients yet.
LEMMA ServersListed ==
    ASSUME ReadInv, ShownTypes, ReadConfigForVpn
    PROVE  /\ Awaiting /\ Method = "vpn"
           /\ \E list \in Outputs(Servers) :
                /\ Received(Servers, list)
                /\ list \in Seq(ToSet(Servers)) /\ DOMAIN list = 1 .. Len(list) /\ Len(list) \in Nat
                /\ shown'.vpn = [i \in DOMAIN list |-> [server |-> list[i], clients |-> <<>>]]
                /\ Len(shown'.vpn) = Len(list)
                /\ IF list = <<>> THEN Over ELSE Further
           /\ \A m \in Methods \ {"vpn"} : shown'[m] = shown[m]
           /\ ShownTypes'
<1>1. PICK list \in Outputs(Servers) :
        /\ Received(Servers, list)
        /\ shown' = [shown EXCEPT !.vpn = [i \in DOMAIN list |-> [server |-> list[i], clients |-> <<>>]]]
        /\ IF list = <<>> THEN Over ELSE Further
  BY DEF ReadConfigForVpn
<1>2. list \in Seq(ToSet(Servers))
  BY ViewsAssumption, OutputIsStart
<1>3. DOMAIN list = 1 .. Len(list) /\ Len(list) \in Nat /\ \A i \in DOMAIN list : list[i] \in ToSet(Servers)
  BY <1>2, LenProperties, ElementOfSeq
<1>4. "vpn" \in Methods
  BY DEF Methods, CommandsOf
<1>5. /\ shown'.vpn = [i \in DOMAIN list |-> [server |-> list[i], clients |-> <<>>]]
      /\ \A m \in Methods \ {"vpn"} : shown'[m] = shown[m]
  BY <1>1, <1>4 DEF ReadInv
<1> DEFINE new == [i \in DOMAIN list |-> [server |-> list[i], clients |-> <<>>]]
<1>6. new \in Seq([server : ToSet(Servers), clients : Seq(Client)]) /\ Len(new) = Len(list)
  <2>1. <<>> \in Seq(Client)
    BY EmptySeq
  <2>2. new \in [1 .. Len(list) -> [server : ToSet(Servers), clients : Seq(Client)]]
    BY <1>3, <2>1
  <2> QED BY <1>3, <2>2, SeqDef, LenProperties
<1> HIDE DEF new
<1>7. ShownTypes'
  <2>1. shown'.vpn \in ShownIn.vpn
    BY <1>5, <1>6 DEF ShownIn, new
  <2> QED BY <1>5, <2>1 DEF ShownTypes
<1> QED BY <1>1, <1>2, <1>3, <1>5, <1>6, <1>7 DEF ReadConfigForVpn, At, new

\* One server has its clients, all or the first of them.
LEMMA ClientsListed ==
    ASSUME ReadInv, PlaceInv, ShownTypes, ReadStatus
    PROVE  /\ Awaiting /\ Method = "vpn" /\ done \in 1 .. Len(shown.vpn) /\ NextServer
           /\ Len(shown'.vpn) = Len(shown.vpn) /\ DOMAIN shown'.vpn = DOMAIN shown.vpn
           /\ DOMAIN shown.vpn = 1 .. Len(shown.vpn) /\ Len(shown.vpn) \in Nat
           /\ shown.vpn[done].server \in ToSet(Servers)
           /\ \E list \in Outputs(ClientsOf[shown.vpn[done].server]) :
                /\ Received(ClientsOf[shown.vpn[done].server], list)
                /\ shown'.vpn[done] = [server |-> shown.vpn[done].server, clients |-> list]
           /\ \A i \in DOMAIN shown.vpn : i # done => shown'.vpn[i] = shown.vpn[i]
           /\ \A m \in Methods \ {"vpn"} : shown'[m] = shown[m]
           /\ ShownTypes'
<1>1. Awaiting /\ Method = "vpn" /\ done \in 1 .. Len(shown.vpn) /\ NextServer
  BY CommandsAt DEF ReadStatus, At, Awaiting
<1> DEFINE one == shown.vpn[done]
<1>2. PICK list \in Outputs(ClientsOf[one.server]) :
        /\ Received(ClientsOf[one.server], list)
        /\ shown' = [shown EXCEPT !.vpn[done].clients = list]
  BY DEF ReadStatus
<1>3. "vpn" \in Methods /\ shown.vpn \in Seq([server : ToSet(Servers), clients : Seq(Client)])
  <2>1. "vpn" \in Methods
    BY DEF Methods, CommandsOf
  <2> QED BY <2>1 DEF ShownTypes, ShownIn
<1>4. /\ DOMAIN shown.vpn = 1 .. Len(shown.vpn) /\ Len(shown.vpn) \in Nat
      /\ \A i \in DOMAIN shown.vpn : shown.vpn[i] \in [server : ToSet(Servers), clients : Seq(Client)]
  BY <1>3, LenProperties, ElementOfSeq
<1>5. one \in [server : ToSet(Servers), clients : Seq(Client)]
  BY <1>1, <1>4
<1>6. list \in Seq(Client)
  <2>1. list \in Seq(ToSet(ClientsOf[one.server]))
    BY <1>5, ViewsAssumption, OutputIsStart
  <2>2. ToSet(ClientsOf[one.server]) \subseteq Client
    BY <1>5 DEF Client
  <2> HIDE DEF one
  <2>3. DOMAIN list = 1 .. Len(list) /\ Len(list) \in Nat /\ \A i \in 1 .. Len(list) : list[i] \in Client
    BY <2>1, <2>2, LenProperties, ElementOfSeq
  <2>4. list = [i \in 1 .. Len(list) |-> list[i]]
    BY <2>1, LenProperties
  <2>5. list \in [1 .. Len(list) -> Client]
    BY <2>3, <2>4
  <2> QED BY <2>3, <2>5, SeqDef
<1>7. /\ shown'.vpn = [shown.vpn EXCEPT ![done].clients = list]
      /\ \A m \in Methods \ {"vpn"} : shown'[m] = shown[m]
  BY <1>2, <1>3 DEF ReadInv
<1>8. shown'.vpn[done] = [server |-> one.server, clients |-> list]
  BY <1>1, <1>4, <1>5, <1>7
<1>9. /\ DOMAIN shown'.vpn = DOMAIN shown.vpn
      /\ \A i \in DOMAIN shown.vpn : i # done => shown'.vpn[i] = shown.vpn[i]
  BY <1>7
<1>10. shown'.vpn \in Seq([server : ToSet(Servers), clients : Seq(Client)]) /\ Len(shown'.vpn) = Len(shown.vpn)
  <2> DEFINE S == [server : ToSet(Servers), clients : Seq(Client)]
  <2>1. shown'.vpn = [i \in DOMAIN shown.vpn |-> shown'.vpn[i]]
    BY <1>7
  <2>2. [server |-> one.server, clients |-> list] \in S
    BY <1>5, <1>6
  <2>3. \A i \in DOMAIN shown.vpn : shown.vpn[i] \in S
    BY <1>4
  <2> HIDE DEF S
  <2>4. \A i \in DOMAIN shown.vpn : shown'.vpn[i] \in S
    BY <1>8, <1>9, <2>2, <2>3
  <2>5. shown'.vpn \in [1 .. Len(shown.vpn) -> S]
    BY <1>4, <2>1, <2>4
  <2>6. shown'.vpn \in Seq(S)
    BY <1>4, <2>5, SeqDef
  <2>7. DOMAIN shown'.vpn = 1 .. Len(shown'.vpn) /\ Len(shown'.vpn) \in Nat
    BY <2>6, LenProperties
  <2>8. Len(shown'.vpn) = Len(shown.vpn)
    BY <1>4, <1>9, <2>7
  <2> QED BY <2>6, <2>8 DEF S
<1>11. ShownTypes'
  <2>1. shown'.vpn \in ShownIn.vpn
    BY <1>10 DEF ShownIn
  <2> QED BY <1>7, <2>1 DEF ShownTypes
<1> QED BY <1>1, <1>2, <1>4, <1>5, <1>7, <1>8, <1>9, <1>10, <1>11

\* Whatever happens, a view moves to a place, and all keeps its type.
LEMMA TypeStep ==
    ASSUME ConfigInv, ReadInv, ReadInv', PlaceInv, TypeOK, [Next]_vars
    PROVE  TypeOK'
<1>0. RouterTypes /\ PlaceTypes /\ LocalTypes /\ ShownTypes /\ HistoryTypes /\ local \in LocalRecords
  BY TypeParts, LocalRecord
<1>1. RouterTypes' /\ HistoryTypes' /\ view' = view
  BY <1>0, RouterStep
<1>2. status' \in {"idle", "reading", "answered", "failed"}
  BY DEF ReadInv
<1>3. Len(MethodsOf[view]) \in Nat
  BY <1>0, MethodsOnce DEF PlaceTypes
<1>4. NothingRead \in LocalRecords
  <2>1. <<>> \in Seq(Row)
    BY EmptySeq
  <2> QED BY <2>1 DEF NothingRead, LocalRecords
<1>5. ASSUME Awaiting, (Over \/ Further \/ UNCHANGED <<at, done>>) PROVE PlaceTypes'
  BY <1>0, <1>1, <1>2, <1>3, <1>5 DEF PlaceTypes, Awaiting, Over, Further
<1>6. ASSUME PlaceTypes', local' \in LocalRecords, ShownTypes' PROVE TypeOK'
  <2>1. LocalTypes'
    BY <1>6 DEF LocalRecords, LocalTypes
  <2>2. (TypeOK <=> RouterTypes /\ PlaceTypes /\ LocalTypes /\ ShownTypes /\ HistoryTypes)'
    BY TypeParts, PTL
  <2> QED BY <1>1, <1>6, <2>1, <2>2
<1>7. CASE Rests
  BY <1>0, <1>7, Resting, <1>6 DEF PlaceTypes, ShownTypes
<1>8. CASE Ask \/ Respond
  <2>1. UNCHANGED <<at, done, local, shown>>
    BY <1>8 DEF Ask, Respond
  <2> QED BY <1>0, <1>1, <1>2, <1>6, <2>1 DEF PlaceTypes, ShownTypes
<1>9. CASE Reads
  <2>1. /\ Awaiting /\ Method # "vpn"
        /\ \/ \E result \in ShownIn[Method] : Returns(result)
           \/ \E read \in LocalRecords : GoesOn(read)
    BY <1>0, <1>9, ReadsOn
  <2>2. ASSUME NEW result \in ShownIn[Method], Returns(result) PROVE TypeOK'
    <3>1. \A m \in Methods : shown'[m] = IF m = Method THEN result ELSE shown[m]
      BY <2>2 DEF Returns, ReadInv
    <3>2. ShownTypes'
      BY <1>0, <3>1 DEF ShownTypes
    <3> QED BY <1>4, <1>5, <1>6, <2>1, <2>2, <3>2 DEF Returns
  <2>3. ASSUME NEW read \in LocalRecords, GoesOn(read) PROVE TypeOK'
    BY <1>0, <1>5, <1>6, <2>1, <2>3 DEF GoesOn, ShownTypes
  <2> QED BY <2>1, <2>2, <2>3
<1>10. CASE ReadConfigForVpn
  <2>1. Awaiting /\ (Over \/ Further) /\ ShownTypes'
    BY <1>0, <1>10, ServersListed
  <2>2. local' = local
    BY <1>10 DEF ReadConfigForVpn
  <2> QED BY <1>0, <1>5, <1>6, <2>1, <2>2
<1>11. CASE ReadStatus
  <2>1. Awaiting /\ NextServer /\ ShownTypes'
    BY <1>0, <1>11, ClientsListed
  <2>2. local' = local
    BY <1>11 DEF ReadStatus
  <2> QED BY <1>0, <1>5, <1>6, <2>1, <2>2 DEF NextServer
<1>12. CASE CommandFails
  <2>1. /\ Awaiting /\ (Over \/ Further \/ UNCHANGED <<at, done>>)
        /\ local' \in {local, NothingRead} /\ shown' = shown
    BY <1>12 DEF CommandFails, NextServer
  <2> QED BY <1>0, <1>4, <1>5, <1>6, <2>1 DEF ShownTypes
<1> QED BY <1>7, <1>8, <1>9, <1>10, <1>11, <1>12, Kinds

\* A method that is over is followed by the first command of the next one.
LEMMA NextMethod ==
    ASSUME PlaceInv, PlaceTypes', ShownTypes', view' = view, Awaiting, Over, status' = status
    PROVE  PlaceInv'
<1>1. /\ at' \in 1 .. Len(MethodsOf[view]) + 1 /\ at' = at + 1 /\ at \in Nat /\ at >= 1
      /\ done' = 0 /\ status' = "reading" /\ Len(MethodsOf[view]) \in Nat
  BY MethodsOnce DEF PlaceTypes, Over, Awaiting, PlaceInv
<1>2. ASSUME at' <= Len(MethodsOf[view])
      PROVE  IF Method' = "vpn" THEN done' <= Len(shown'.vpn) ELSE done' < Len(CommandsOf[Method'])
  <2>1. Method' \in Methods
    BY <1>1, <1>2, MethodsOnce DEF Method, PlaceTypes
  <2>2. Len(shown'.vpn) \in Nat
    <3>1. shown'.vpn \in Seq([server : ToSet(Servers), clients : Seq(Client)])
      BY DEF ShownTypes, ShownIn, Methods, CommandsOf
    <3> QED BY <3>1, LenProperties
  <2>3. \A m \in Methods : 0 < Len(CommandsOf[m])
    BY DEF Methods, CommandsOf
  <2> QED BY <1>1, <2>1, <2>2, <2>3
<1> QED BY <1>1, <1>2 DEF PlaceInv, PlaceTypes, Method

\* No method goes past its commands.
LEMMA PlaceStep ==
    ASSUME ConfigInv, ReadInv, PlaceInv, TypeOK, TypeOK', [Next]_vars
    PROVE  PlaceInv'
<1>0. /\ RouterTypes /\ PlaceTypes /\ LocalTypes /\ ShownTypes /\ HistoryTypes /\ local \in LocalRecords
      /\ PlaceTypes' /\ ShownTypes' /\ view' = view
  <2>1. (TypeOK <=> RouterTypes /\ PlaceTypes /\ LocalTypes /\ ShownTypes /\ HistoryTypes)'
    BY TypeParts, PTL
  <2> QED BY <2>1, TypeParts, LocalRecord, RouterStep
<1>1. CASE Rests
  BY <1>0, <1>1, Resting DEF PlaceInv, Method, Optional
<1>2. CASE Ask \/ Respond
  <2>1. UNCHANGED <<at, done, shown>>
    BY <1>2 DEF Ask, Respond
  <2>2. status' = "reading" \/ (status' = "answered" /\ at = Len(MethodsOf[view]) + 1)
    <3>1. Len(MethodsOf[view]) \in Nat
      BY <1>0, MethodsOnce DEF PlaceTypes
    <3> QED BY <1>0, <1>2, <3>1 DEF Ask, Respond, PlaceTypes
  <2> QED BY <1>0, <2>1, <2>2 DEF PlaceInv, Method
<1>3. ASSUME Awaiting, Over, status' = status PROVE PlaceInv'
  BY <1>0, <1>3, NextMethod
<1>4. CASE Reads
  <2>1. /\ Awaiting /\ Method # "vpn"
        /\ \/ \E result \in ShownIn[Method] : Returns(result)
           \/ done + 1 < Len(CommandsOf[Method]) /\ \E read \in LocalRecords : GoesOn(read)
    BY <1>0, <1>4, ReadsOn
  <2>2. CASE \E result \in ShownIn[Method] : Returns(result)
    BY <1>3, <2>1, <2>2 DEF Returns
  <2>3. ASSUME done + 1 < Len(CommandsOf[Method]), NEW read \in LocalRecords, GoesOn(read) PROVE PlaceInv'
    <3>1. UNCHANGED <<at, status, shown>> /\ done' = done + 1 /\ Method' = Method /\ status = "reading"
      BY <1>0, <2>1, <2>3 DEF GoesOn, Further, Method, Awaiting
    <3> QED BY <1>0, <2>1, <2>3, <3>1 DEF PlaceInv
  <2> QED BY <2>1, <2>2, <2>3
<1>5. ASSUME Awaiting, Method = "vpn", Further, status' = status, done' <= Len(shown'.vpn) PROVE PlaceInv'
  <2>1. Method' = Method /\ at' = at /\ done' = done + 1 /\ status' = "reading"
    BY <1>0, <1>5 DEF Further, Method, Awaiting
  <2> QED BY <1>0, <1>5, <2>1 DEF PlaceInv, PlaceTypes
<1>6. CASE ReadConfigForVpn
  <2>1. PICK list :
            /\ Awaiting /\ Method = "vpn" /\ Len(list) \in Nat /\ DOMAIN list = 1 .. Len(list)
            /\ Len(shown'.vpn) = Len(list)
            /\ IF list = <<>> THEN Over ELSE Further
            /\ list \in Seq(ToSet(Servers))
    BY <1>0, <1>6, ServersListed
  <2>2. status' = status /\ done = 0
    BY <1>6, <2>1, CommandsAt DEF ReadConfigForVpn, At, Awaiting
  <2>3. CASE list = <<>>
    BY <1>3, <2>1, <2>2, <2>3
  <2>4. CASE list # <<>>
    <3>1. Len(list) # 0
      BY <2>1, <2>4, EmptySeq
    <3> QED BY <1>5, <2>1, <2>2, <2>4, <3>1 DEF Further
  <2> QED BY <2>3, <2>4
<1>7. ASSUME Awaiting, Command = "status", NextServer, status' = status, Len(shown'.vpn) = Len(shown.vpn)
      PROVE  PlaceInv'
  <2>1. Method = "vpn" /\ done \in 1 .. Len(shown.vpn)
    BY <1>7, CommandsAt DEF Awaiting
  <2>2. Len(shown.vpn) \in Nat
    <3>1. shown.vpn \in Seq([server : ToSet(Servers), clients : Seq(Client)])
      BY <1>0 DEF ShownTypes, ShownIn, Methods, CommandsOf
    <3> QED BY <3>1, LenProperties
  <2>3. CASE done = Len(shown.vpn)
    BY <1>3, <1>7, <2>3 DEF NextServer
  <2>4. CASE done # Len(shown.vpn)
    BY <1>5, <1>7, <2>1, <2>2, <2>4 DEF NextServer, Further
  <2> QED BY <2>3, <2>4
<1>8. CASE ReadStatus
  <2>1. Awaiting /\ NextServer /\ Len(shown'.vpn) = Len(shown.vpn)
    BY <1>0, <1>8, ClientsListed
  <2> QED BY <1>7, <1>8, <2>1 DEF ReadStatus, At
<1>9. CASE CommandFails
  <2>1. Awaiting /\ shown' = shown
    BY <1>9 DEF CommandFails
  <2>2. CASE Command = "status"
    BY <1>7, <1>9, <2>1, <2>2 DEF CommandFails
  <2>3. CASE Command # "status" /\ Optional
    BY <1>3, <1>9, <2>1, <2>3 DEF CommandFails
  <2>4. CASE Command # "status" /\ ~Optional
    <3>1. status' = "failed" /\ UNCHANGED <<at, done>> /\ Method' = Method
      BY <1>0, <1>9, <2>4 DEF CommandFails, Method
    <3> QED BY <1>0, <2>1, <2>4, <3>1 DEF PlaceInv, Optional, Awaiting
  <2> QED BY <2>2, <2>3, <2>4
<1> QED BY <1>1, <1>2, <1>4, <1>6, <1>8, <1>9, Kinds

---------------------------------------------------------------------------
(* The leases. *)

\* The leases that are shown, of a log that may have been cut.
LeasesInv ==
    /\ began.log \in 0 .. Len(log)
    /\ \A l, m \in shown.leases : l.mac = m.mac => l = m
    /\ shown.leases \subseteq LeasesOf(log)

\* dhcpd only appends: what was read of the log is read of it later.
LEMMA LogGrows ==
    ASSUME RouterTypes, log' = log \/ \E b \in Block : log' = Append(log, b)
    PROVE  /\ Len(log) \in Nat /\ Len(log') \in Nat /\ Len(log) <= Len(log')
           /\ \A i \in 1 .. Len(log) : log'[i] = log[i]
           /\ \A n \in 0 .. Len(log) : SubSeq(log', 1, n) = SubSeq(log, 1, n)
           /\ LeasesOf(log) \subseteq LeasesOf(log')
<1>1. log \in Seq(Block) /\ Len(log) \in Nat
  BY LenProperties DEF RouterTypes
<1>2. CASE log' = log
  BY <1>1, <1>2 DEF LeasesOf
<1>3. ASSUME NEW b \in Block, log' = Append(log, b)
      PROVE  /\ Len(log') \in Nat /\ Len(log) <= Len(log')
             /\ \A i \in 1 .. Len(log) : log'[i] = log[i]
             /\ \A n \in 0 .. Len(log) : SubSeq(log', 1, n) = SubSeq(log, 1, n)
             /\ LeasesOf(log) \subseteq LeasesOf(log')
  <2>1. Len(log') = Len(log) + 1 /\ \A i \in 1 .. Len(log) : log'[i] = log[i]
    BY <1>1, <1>3, AppendProperties
  <2>2. \A n \in 0 .. Len(log) : SubSeq(log', 1, n) = SubSeq(log, 1, n)
    BY <1>1, <1>3, PrefixOfAppend
  <2>3. LeasesOf(log) \subseteq LeasesOf(log')
    BY <1>1, <1>3, LeasesOfAppend
  <2> QED BY <1>1, <2>1, <2>2, <2>3
<1> QED BY <1>1, <1>2, <1>3

\* A step shows nothing but of the method at hand.
LEMMA OthersStay ==
    ASSUME ReadInv, PlaceInv, [Next]_vars
    PROVE  \A m \in Methods : shown'[m] = shown[m] \/ (Awaiting /\ m = Method)
<1>1. CASE shown' = shown
  BY <1>1
<1>2. ASSUME NEW result, Returns(result), Awaiting
      PROVE  \A m \in Methods : shown'[m] = shown[m] \/ (Awaiting /\ m = Method)
  BY <1>2 DEF Returns, ReadInv
<1>3. CASE ReadConfigForVpn
  <2>1. Awaiting /\ Method = "vpn" /\ \A m \in Methods \ {"vpn"} : shown'[m] = shown[m]
    BY <1>3 DEF ReadConfigForVpn, At, ReadInv
  <2> QED BY <2>1
<1>4. CASE ReadStatus
  <2>1. Awaiting /\ \A m \in Methods \ {"vpn"} : shown'[m] = shown[m]
    BY <1>4 DEF ReadStatus, At, ReadInv
  <2>2. Command = "status"
    BY <1>4 DEF ReadStatus, At
  <2>3. Method = "vpn"
    BY <2>1, <2>2, CommandsAt DEF Awaiting
  <2> QED BY <2>1, <2>3
<1>5. CASE Reads
  <2>1. Awaiting
    BY <1>5 DEF Reads, ReadArp, ReadLeases, ReadConfigForDevices, ReadConfigForStatics, ReadConfigForDns,
       ReadConfigForInterface, ReadIfconfig, ReadRoute, ReadHaproxy, At
  <2>2. shown' = shown \/ \E result : Returns(result)
    BY <1>5 DEF Reads, ReadArp, ReadLeases, ReadConfigForDevices, ReadConfigForStatics, ReadConfigForDns,
       ReadConfigForInterface, ReadIfconfig, ReadRoute, ReadHaproxy, GoesOn
  <2> QED BY <1>1, <1>2, <2>1, <2>2
<1>6. Rests \/ Ask \/ CommandFails \/ Respond => shown' = shown
  BY Resting DEF Ask, CommandFails, Respond
<1> QED BY <1>1, <1>3, <1>4, <1>5, <1>6, Kinds

\* Only the leases that parse_isc_leases returns are ever shown.
LEMMA LeasesStep ==
    ASSUME ConfigInv, ReadInv, PlaceInv, TypeOK, LeasesInv, [Next]_vars
    PROVE  LeasesInv'
<1>0. RouterTypes /\ HistoryTypes
  BY TypeParts
<1>1. log' = log \/ \E b \in Block : log' = Append(log, b)
  BY <1>0, RouterStep
<1>2. /\ Len(log) \in Nat /\ Len(log') \in Nat /\ Len(log) <= Len(log')
      /\ LeasesOf(log) \subseteq LeasesOf(log')
  BY <1>0, <1>1, LogGrows
<1>3. began' = began \/ (began'.log = Len(log) /\ log' = log)
  <2>1. Ask => began'.log = Len(log) /\ log' = log
    BY DEF Ask, routerVars
  <2>2. ~Ask => began' = began
    BY Kinds, Resting DEF Reads, ReadArp, ReadLeases, ReadConfigForDevices, ReadConfigForStatics,
       ReadConfigForDns, ReadConfigForVpn, ReadStatus, ReadConfigForInterface, ReadIfconfig, ReadRoute,
       ReadHaproxy, GoesOn, Returns, CommandFails, Respond
  <2> QED BY <2>1, <2>2
<1>4. began'.log \in 0 .. Len(log')
  BY <1>2, <1>3 DEF LeasesInv
<1>5. CASE shown'.leases = shown.leases
  BY <1>2, <1>4, <1>5 DEF LeasesInv
<1>6. CASE shown'.leases # shown.leases
  <2>1. Awaiting /\ Method = "leases"
    BY <1>6, OthersStay DEF Methods, CommandsOf
  <2>2. ReadLeases
    <3>1. Command = "leases"
      BY <2>1, CommandsAt DEF Awaiting, Command, CommandsOf, PlaceInv
    <3>2. shown' # shown
      BY <1>6
    <3> QED BY <2>1, <3>1, <3>2, Kinds, Resting DEF Reads, ReadArp, ReadConfigForDevices, ReadConfigForStatics,
         ReadConfigForDns, ReadConfigForVpn, ReadStatus, ReadConfigForInterface, ReadIfconfig, ReadRoute,
         ReadHaproxy, At, Ask, CommandFails, Respond
  <2>3. PICK output \in Outputs(Lines(log)) : Returns(ParsedLeases(output))
    BY <2>1, <2>2 DEF ReadLeases
  <2>4. shown'.leases = ParsedLeases(output)
    BY <2>1, <2>3 DEF Returns, ReadInv, Methods, CommandsOf
  <2>5. /\ ParsedLeases(output) \subseteq LeasesOf(log)
        /\ \A l, k \in ParsedLeases(output) : l.mac = k.mac => l = k
    BY <1>0, ParsedOutput
  <2> QED BY <1>2, <1>4, <2>4, <2>5 DEF LeasesInv
<1> QED BY <1>5, <1>6

---------------------------------------------------------------------------
(* What was lost, and what it did to which method. *)

\* The methods that have returned.
Returned == {MethodsOf[view][i] : i \in 1 .. at - 1}

\* The method that is over is the one that has now returned.
LEMMA OneReturned ==
    ASSUME PlaceInv, Awaiting, view' = view
    PROVE  /\ Method \in Methods \ Returned /\ Returned \subseteq Methods
           /\ Over => Returned' = Returned \cup {Method}
           /\ at' = at => Returned' = Returned /\ Method' = Method
<1>1. /\ Len(MethodsOf[view]) \in Nat /\ at \in 1 .. Len(MethodsOf[view])
      /\ \A i \in 1 .. Len(MethodsOf[view]) : MethodsOf[view][i] \in Methods
      /\ \A i, j \in 1 .. Len(MethodsOf[view]) : MethodsOf[view][i] = MethodsOf[view][j] => i = j
  BY MethodsOnce DEF PlaceInv, Awaiting
<1>2. Method \in Methods \ Returned /\ Returned \subseteq Methods
  BY <1>1 DEF Method, Returned
<1>3. ASSUME Over PROVE Returned' = Returned \cup {Method}
  <2>1. at' - 1 = at /\ 1 .. at = (1 .. at - 1) \cup {at}
    BY <1>1, <1>3 DEF Over
  <2> QED BY <2>1 DEF Returned, Method
<1>4. at' = at => Returned' = Returned /\ Method' = Method
  BY DEF Returned, Method
<1> QED BY <1>2, <1>3, <1>4

\* The servers are shown before their clients have been read.
HalfShown(m) == at <= Len(MethodsOf[view]) /\ m = Method /\ m = "vpn" /\ done >= 1

\* A method shows nothing before it returns, and nothing if it failed; then the
\* view has failed too, or is the page and goes on without it.
HarmInv ==
    /\ lost = 0 => \A m \in Methods : harm[m] = "none"
    /\ status = "failed" => at <= Len(MethodsOf[view]) /\ harm[Method] = "failed"
    /\ \A m \in Methods :
        harm[m] = "failed" =>
            /\ shown[m] = NothingShown[m]
            /\ status = "failed" \/ (view = "page" /\ m # "devices" /\ m \in Returned)
    /\ \A m \in Methods \ Returned : shown[m] = NothingShown[m] \/ HalfShown(m)

\* The methods but the one at hand keep what they show and what was done to them.
LEMMA OneHarmed ==
    ASSUME ReadInv, PlaceInv, HistoryTypes, [Next]_vars
    PROVE  \A m \in Methods :
            (shown'[m] = shown[m] /\ harm'[m] = harm[m]) \/ (Awaiting /\ m = Method)
<1>1. \A m \in Methods : shown'[m] = shown[m] \/ (Awaiting /\ m = Method)
  BY OthersStay
<1>2. \A m \in Methods : harm'[m] = harm[m] \/ (Awaiting /\ m = Method)
  BY Losses DEF HistoryTypes
<1> QED BY <1>1, <1>2

\* What a step does to the method at hand is cut it, or make it fail.
LEMMA HarmAtHand ==
    ASSUME HistoryTypes, Method \in Methods, [Next]_vars
    PROVE  /\ harm'[Method] \in {harm[Method], "cut", "failed"}
           /\ harm'[Method] = "none" => UNCHANGED <<lost, harm>>
           /\ harm'[Method] = "failed" => harm[Method] = "failed" \/ (CommandFails /\ Command # "status")
           /\ CommandFails => harm'[Method] = IF Command = "status" THEN "cut" ELSE "failed"
           /\ lost' = 0 => lost = 0 /\ UNCHANGED harm
<1>1. CASE UNCHANGED <<lost, harm>>
  <2>1. ~CommandFails
    BY <1>1 DEF CommandFails, HistoryTypes
  <2> QED BY <1>1, <2>1
<1>2. CASE ~UNCHANGED <<lost, harm>>
  <2>1. PICK h \in {"cut", "failed"} :
            /\ lost' = lost + 1
            /\ harm' = [harm EXCEPT ![Method] = h]
            /\ h = "failed" => CommandFails /\ Command # "status"
            /\ h = "cut" /\ CommandFails => Command = "status"
    BY <1>2, Losses
  <2>2. harm'[Method] = h /\ lost' # 0
    BY <2>1 DEF HistoryTypes
  <2> QED BY <2>1, <2>2
<1> QED BY <1>1, <1>2

\* A command harms its own method only, and shows nothing of one that failed.
LEMMA HarmStep ==
    ASSUME ConfigInv, ReadInv, PlaceInv, PlaceInv', TypeOK, HarmInv, [Next]_vars
    PROVE  HarmInv'
<1>0. /\ RouterTypes /\ ShownTypes /\ HistoryTypes /\ view' = view
      /\ \A m \in Methods :
            (shown'[m] = shown[m] /\ harm'[m] = harm[m]) \/ (Awaiting /\ m = Method)
      /\ Len(MethodsOf[view]) \in Nat
  BY TypeParts, RouterStep, OneHarmed, MethodsOnce DEF PlaceInv
<1>1. CASE Rests \/ Ask \/ Respond
  <2>1. UNCHANGED <<view, at, done, shown, lost, harm>>
    BY <1>0, <1>1, Resting DEF Ask, Respond
  <2>2. status' = status \/ (status # "failed" /\ status' # "failed")
    BY <1>1, Resting DEF Ask, Respond
  <2>3. UNCHANGED <<Method, Returned>> /\ \A m : HalfShown(m)' = HalfShown(m)
    BY <2>1 DEF Method, Returned, HalfShown
  <2> QED BY <2>1, <2>2, <2>3 DEF HarmInv
<1>2. CASE Reads \/ ReadConfigForVpn \/ ReadStatus \/ CommandFails
  <2>1. Awaiting
    BY <1>2 DEF Reads, ReadArp, ReadLeases, ReadConfigForDevices, ReadConfigForStatics, ReadConfigForDns,
       ReadConfigForVpn, ReadStatus, ReadConfigForInterface, ReadIfconfig, ReadRoute, ReadHaproxy, At, CommandFails
  <2>2. PICK n \in Methods : n = Method /\ n \notin Returned
    BY <1>0, <2>1, OneReturned
  <2>3. /\ Over => Returned' = Returned \cup {n}
        /\ at' = at => Returned' = Returned /\ Method' = n
    BY <1>0, <2>1, <2>2, OneReturned
  <2>4. /\ harm'[n] = "failed" => CommandFails /\ Command # "status"
        /\ CommandFails => harm'[n] = IF Command = "status" THEN "cut" ELSE "failed"
        /\ lost' = 0 => lost = 0 /\ UNCHANGED harm
    <3>1. harm[n] # "failed"
      BY <2>1, <2>2 DEF HarmInv, Awaiting
    <3> QED BY <1>0, <2>2, <3>1, HarmAtHand
  <2>5. \A m \in Methods : m # n => shown'[m] = shown[m] /\ harm'[m] = harm[m]
    BY <1>0, <2>2
  <2>6. status = "reading" /\ at <= Len(MethodsOf[view]) /\ at \in Nat /\ done \in Nat
    BY <2>1 DEF Awaiting, PlaceInv
  <2>7. lost' = 0 => \A m \in Methods : harm'[m] = "none"
    BY <2>4 DEF HarmInv
  \* The command did not make the method fail.
  <2>8. ASSUME status' = "reading", harm'[n] # "failed",
               Over \/ (at' = at /\ (shown'[n] = shown[n] \/ n = "vpn") /\ (n = "vpn" => done' >= 1))
        PROVE  HarmInv'
    <3>1. \A m \in Methods :
            harm'[m] = "failed" =>
                /\ shown'[m] = NothingShown[m]
                /\ status' = "failed" \/ (view' = "page" /\ m # "devices" /\ m \in Returned')
      <4> TAKE m \in Methods
      <4>1. m # n => (harm[m] = "failed" => m \in Returned /\ shown[m] = NothingShown[m] /\ view = "page" /\ m # "devices")
        BY <2>6 DEF HarmInv
      <4>2. Returned \subseteq Returned'
        BY <2>3, <2>8
      <4> QED BY <1>0, <2>5, <2>8, <4>1, <4>2
    <3>2. \A m \in Methods \ Returned' : shown'[m] = NothingShown[m] \/ HalfShown(m)'
      <4> TAKE m \in Methods \ Returned'
      <4>1. CASE m # n
        <5>1. m \notin Returned /\ ~HalfShown(m)
          BY <2>2, <2>3, <2>8, <4>1 DEF HalfShown
        <5> QED BY <2>5, <4>1, <5>1 DEF HarmInv
      <4>2. CASE m = n
        <5>1. at' = at /\ Method' = n /\ (n = "vpn" => done' >= 1) /\ (n = "vpn" \/ shown'[n] = shown[n])
          BY <2>3, <2>8, <4>2
        <5>2. n = "vpn" => HalfShown(n)'
          BY <1>0, <2>6, <5>1 DEF HalfShown
        <5>3. n # "vpn" => shown[n] = NothingShown[n]
          BY <2>2 DEF HarmInv, HalfShown
        <5> QED BY <4>2, <5>1, <5>2, <5>3
      <4> QED BY <4>1, <4>2
    <3> QED BY <2>7, <2>8, <3>1, <3>2 DEF HarmInv
  <2>9. Reads \/ ReadConfigForVpn \/ ReadStatus => harm'[n] # "failed" /\ status' = "reading"
    <3>1. Reads \/ ReadConfigForVpn \/ ReadStatus => (Whole \/ Broken) /\ status' = status
      BY DEF Reads, ReadArp, ReadLeases, ReadConfigForDevices, ReadConfigForStatics, ReadConfigForDns,
         ReadConfigForVpn, ReadStatus, ReadConfigForInterface, ReadIfconfig, ReadRoute, ReadHaproxy, Received,
         GoesOn, Returns
    <3>2. harm[n] # "failed"
      BY <2>1, <2>2 DEF HarmInv, Awaiting
    <3>3. Whole => harm'[n] = harm[n]
      BY DEF Whole
    <3>4. Broken => harm'[n] = "cut"
      BY <1>0, <2>2 DEF Broken, HistoryTypes
    <3> QED BY <2>6, <3>1, <3>2, <3>3, <3>4
  <2>10. CASE Reads \/ ReadConfigForVpn \/ ReadStatus
    <3>1. CASE Reads
      <4>1. n # "vpn" /\ ((\E result : Returns(result)) \/ (\E read : GoesOn(read)))
        BY <1>0, <2>2, <3>1, LocalRecord, TypeParts, ReadsOn
      <4>2. Over \/ (at' = at /\ shown' = shown)
        BY <4>1 DEF Returns, GoesOn, Further
      <4> QED BY <2>8, <2>9, <3>1, <4>1, <4>2
    <3>2. CASE ReadConfigForVpn \/ ReadStatus
      <4>1. n = "vpn" /\ (Over \/ Further)
        <5>1. CASE ReadConfigForVpn
          BY <1>0, <2>2, <5>1, ServersListed
        <5>2. CASE ReadStatus
          BY <1>0, <2>2, <5>2, ClientsListed, CommandsAt DEF NextServer, Awaiting, ReadStatus, At
        <5> QED BY <3>2, <5>1, <5>2
      <4> QED BY <2>6, <2>8, <2>9, <3>2, <4>1 DEF Further
    <3> QED BY <2>10, <3>1, <3>2
  <2>11. CASE CommandFails /\ Command = "status"
    <3>1. n = "vpn" /\ NextServer /\ done >= 1 /\ UNCHANGED <<status, shown>> /\ harm'[n] = "cut"
      BY <2>1, <2>2, <2>4, <2>6, <2>11, CommandsAt DEF CommandFails
    <3> QED BY <2>6, <2>8, <3>1 DEF NextServer, Further
  <2>12. CASE CommandFails /\ Command # "status"
    <3>1. shown' = shown /\ harm'[n] = "failed" /\ shown[n] = NothingShown[n]
      <4>1. ~HalfShown(n)
        BY <2>2, <2>6, <2>12 DEF HalfShown, Command
      <4> QED BY <2>2, <2>4, <2>12, <4>1 DEF CommandFails, HarmInv
    <3>2. \/ Optional /\ Over /\ status' = "reading"
          \/ status' = "failed" /\ UNCHANGED <<at, done>>
      BY <2>6, <2>12 DEF CommandFails
    <3>3. CASE Optional /\ Over /\ status' = "reading"
      <4>1. Returned' = Returned \cup {n} /\ view' = "page" /\ n # "devices"
        BY <1>0, <2>2, <2>3, <3>3 DEF Optional
      <4>2. \A m \in Methods : harm'[m] = "failed" => shown'[m] = NothingShown[m] /\ m # "devices" /\ m \in Returned'
        BY <2>5, <2>6, <3>1, <4>1 DEF HarmInv
      <4>3. \A m \in Methods \ Returned' : shown'[m] = NothingShown[m]
        BY <2>2, <2>5, <4>1 DEF HarmInv, HalfShown
      <4> QED BY <2>7, <3>3, <4>1, <4>2, <4>3 DEF HarmInv
    <3>4. CASE status' = "failed" /\ UNCHANGED <<at, done>>
      <4>1. Returned' = Returned /\ Method' = n
        BY <2>3, <3>4
      <4>2. \A m \in Methods : harm'[m] = "failed" => shown'[m] = NothingShown[m]
        BY <2>5, <3>1 DEF HarmInv
      <4>3. \A m \in Methods \ Returned' : shown'[m] = NothingShown[m]
        BY <2>2, <2>5, <3>1, <4>1 DEF HarmInv, HalfShown
      <4> QED BY <1>0, <2>6, <2>7, <3>1, <3>4, <4>1, <4>2, <4>3 DEF HarmInv
    <3> QED BY <3>2, <3>3, <3>4
  <2> QED BY <1>2, <2>10, <2>11, <2>12
<1> QED BY <1>1, <1>2, Kinds

---------------------------------------------------------------------------
(* What was not lost. *)

\* What a method shows that lost nothing.
ShownExact(m) ==
    /\ m = "statics" => StaticsExact
    /\ m = "dns" => DnsExact
    /\ m = "devices" => DevicesExact
    /\ m = "vpn" => VpnExact
    /\ m = "wan" => WanExact
    /\ m = "haproxy" => HaproxyExact
    /\ m = "leases" => LeasesExact

\* What the method at hand has read if it lost nothing.
DevicesRead ==
    /\ done >= 1 => local.arp = arp
    /\ done >= 2 => \E n \in began.log .. Len(log) : local.leases = ParsedLeases(Lines(SubSeq(log, 1, n)))
VpnRead ==
    done >= 1 =>
        /\ DOMAIN shown.vpn = DOMAIN Servers
        /\ \A i \in DOMAIN Servers :
            shown.vpn[i] = [server |-> Servers[i],
                            clients |-> IF i < done THEN ClientsOf[Servers[i]] ELSE <<>>]
WanRead ==
    /\ done >= 1 => local.named
    /\ done >= 2 => local.up \in links

ReadExact ==
    /\ Method = "devices" => DevicesRead
    /\ Method = "vpn" => VpnRead
    /\ Method = "wan" => WanRead

ReturnedExact == \A m \in Returned : harm[m] = "none" => ShownExact(m)
AtHandExact == at <= Len(MethodsOf[view]) /\ harm[Method] = "none" => ReadExact

ExactInv == status \in {"reading", "answered"} => ReturnedExact /\ AtHandExact

\* What a method has shown stays as exact as it was.
LEMMA StaysExact ==
    ASSUME ConfigInv, ReadInv, TypeOK, LeasesInv, [Next]_vars, status # "idle",
           NEW m \in Methods, ShownExact(m), shown'[m] = shown[m]
    PROVE  ShownExact(m)'
<1>0. Configs \subseteq Configs'
  BY ConfigsGrow
<1>1. arp' = arp /\ (log' = log \/ \E b \in Block : log' = Append(log, b)) /\ RouterTypes
  BY TypeParts, RouterStep
<1>2. began' = began /\ links \subseteq links'
  BY Kinds DEF Rests, Edit, WriteLease, FlipLink, GoOrComeBack, vars, viewVars, Ask,
     Reads, ReadArp, ReadLeases, ReadConfigForDevices, ReadConfigForStatics,
     ReadConfigForDns, ReadConfigForVpn, ReadStatus, ReadConfigForInterface, ReadIfconfig, ReadRoute,
     ReadHaproxy, GoesOn, Returns, CommandFails, Respond
<1>3. /\ Len(log) \in Nat /\ Len(log') \in Nat /\ Len(log) <= Len(log')
      /\ \A i \in 1 .. Len(log) : log'[i] = log[i]
      /\ \A n \in 0 .. Len(log) : SubSeq(log', 1, n) = SubSeq(log, 1, n)
  BY <1>1, LogGrows
<1>4. began.log \in 0 .. Len(log)
  BY DEF LeasesInv
<1>5. CASE m = "statics"
  BY <1>0, <1>5 DEF ShownExact, StaticsExact, Mappings
<1>6. CASE m = "dns"
  BY <1>0, <1>6 DEF ShownExact, DnsExact, Overrides
<1>7. CASE m = "devices"
  <2>1. PICK cfg \in Configs, n \in began.log .. Len(log) :
            AreJoined(shown.devices, Resolved(arp), cfg, ParsedLeases(Lines(SubSeq(log, 1, n))))
    BY <1>7 DEF ShownExact, DevicesExact
  <2>2. cfg \in Configs' /\ n \in began'.log .. Len(log') /\ SubSeq(log', 1, n) = SubSeq(log, 1, n)
    BY <1>0, <1>2, <1>3, <1>4
  <2>3. shown'.devices = shown.devices
    BY <1>7
  <2>4. AreJoined(shown'.devices, Resolved(arp'), cfg, ParsedLeases(Lines(SubSeq(log', 1, n))))
    BY <1>1, <2>1, <2>2, <2>3
  <2>5. DevicesExact'
    BY <2>2, <2>4 DEF DevicesExact
  <2> QED BY <1>7, <2>5 DEF ShownExact
<1>8. CASE m \in {"vpn", "wan", "haproxy"}
  BY <1>2, <1>8 DEF ShownExact, VpnExact, WanExact, HaproxyExact
<1>9. CASE m = "leases"
  BY <1>2, <1>3, <1>4, <1>9 DEF ShownExact, LeasesExact
<1>10. CASE m = "lan"
  BY <1>10 DEF ShownExact
<1> QED BY <1>5, <1>6, <1>7, <1>8, <1>9, <1>10 DEF Methods, CommandsOf

\* What the method at hand has read stays as it was while the router changes.
LEMMA StaysRead ==
    ASSUME TypeOK, LeasesInv, ReadExact, [Next]_vars,
           UNCHANGED <<at, done, local, shown, began>>, links \subseteq links'
    PROVE  ReadExact'
<1>1. view' = view /\ arp' = arp /\ (log' = log \/ \E b \in Block : log' = Append(log, b)) /\ RouterTypes
  <2>1. view' = view
    BY DEF Next, Router, Read, vars, viewVars, Edit, WriteLease, FlipLink, GoOrComeBack, Ask,
       ReadArp, ReadLeases, ReadConfigForDevices, ReadConfigForStatics, ReadConfigForDns, ReadConfigForVpn,
       ReadStatus, ReadConfigForInterface, ReadIfconfig, ReadRoute, ReadHaproxy, GoesOn, Returns, CommandFails,
       Respond
  <2>2. arp' = arp /\ (log' = log \/ \E b \in Block : log' = Append(log, b))
    <3>1. CASE WriteLease
      BY <3>1, ViewsAssumption DEF WriteLease
    <3>2. CASE ~WriteLease
      BY <3>2 DEF Next, Router, Read, vars, routerVars, Edit, FlipLink, GoOrComeBack, Ask,
         ReadArp, ReadLeases, ReadConfigForDevices, ReadConfigForStatics, ReadConfigForDns, ReadConfigForVpn,
         ReadStatus, ReadConfigForInterface, ReadIfconfig, ReadRoute, ReadHaproxy, GoesOn, Returns, CommandFails,
         Respond
    <3> QED BY <3>1, <3>2
  <2> QED BY <2>1, <2>2, TypeParts
<1>2. /\ Len(log) \in Nat /\ Len(log') \in Nat /\ Len(log) <= Len(log')
      /\ \A n \in 0 .. Len(log) : SubSeq(log', 1, n) = SubSeq(log, 1, n)
  BY <1>1, LogGrows
<1>3. began.log \in 0 .. Len(log)
  BY DEF LeasesInv
<1>4. Method' = Method
  BY <1>1 DEF Method
<1>5. DevicesRead => DevicesRead'
  <2> SUFFICES ASSUME DevicesRead PROVE DevicesRead'
    OBVIOUS
  <2>1. ASSUME done >= 2
        PROVE  \E n \in began'.log .. Len(log') : local'.leases = ParsedLeases(Lines(SubSeq(log', 1, n)))
    <3>1. PICK n \in began.log .. Len(log) : local.leases = ParsedLeases(Lines(SubSeq(log, 1, n)))
      BY <2>1 DEF DevicesRead
    <3>2. n \in began'.log .. Len(log') /\ SubSeq(log', 1, n) = SubSeq(log, 1, n)
      BY <1>2, <1>3
    <3> QED BY <3>1, <3>2
  <2> QED BY <1>1, <2>1 DEF DevicesRead
<1>6. (VpnRead => VpnRead') /\ (WanRead => WanRead')
  BY DEF VpnRead, WanRead
<1> QED BY <1>4, <1>5, <1>6 DEF ReadExact

\* Without a loss an output is the list.
LEMMA NothingLost ==
    ASSUME TypeOK, lost' = lost
    PROVE  ~Broken /\ \A s, output : Received(s, output) => output = s
BY DEF TypeOK, Broken, Received

\* get_devices joins the rows to the leases and mappings that were read.
LEMMA JoinedExactly ==
    ASSUME LocalTypes, NEW cfg, NEW byIp \in ByAddress(local.leases)
    PROVE  AreJoined(Joined(byIp, Mappings(cfg)), Resolved(local.arp), cfg, local.leases)
<1> DEFINE rows == Resolved(local.arp)
<1> DEFINE statics == Mappings(cfg)
<1>1. DOMAIN byIp = {l.ip : l \in local.leases}
  BY DEF ByAddress
<1>2. ASSUME NEW row
      PROVE  /\ DeviceOf(row, byIp, statics).row = row
             /\ DeviceOf(row, byIp, statics).source = SourceIn(row, cfg, local.leases)
  <2>1. row.ip \in DOMAIN byIp <=> \E l \in local.leases : l.ip = row.ip
    BY <1>1
  <2>2. CASE IsMapped(statics, row.mac)
    <3>1. DeviceOf(row, byIp, statics)
            = [row |-> row, source |-> "static", named |-> {LastOf(statics, row.mac)}]
      BY <2>2 DEF DeviceOf
    <3> QED BY <2>2, <3>1 DEF SourceIn
  <2>3. CASE ~IsMapped(statics, row.mac) /\ row.ip \in DOMAIN byIp
    <3>1. DeviceOf(row, byIp, statics) = [row |-> row, source |-> "dhcp", named |-> {byIp[row.ip]}]
      BY <2>3 DEF DeviceOf
    <3> QED BY <2>1, <2>3, <3>1 DEF SourceIn
  <2>4. CASE ~IsMapped(statics, row.mac) /\ row.ip \notin DOMAIN byIp
    <3>1. DeviceOf(row, byIp, statics) = [row |-> row, source |-> "arp", named |-> {}]
      BY <2>4 DEF DeviceOf
    <3> QED BY <2>1, <2>4, <3>1 DEF SourceIn
  <2> QED BY <2>2, <2>3, <2>4
<1>3. Joined(byIp, statics) = [i \in DOMAIN rows |-> DeviceOf(rows[i], byIp, statics)]
  BY DEF Joined
<1> HIDE DEF rows, statics
<1>4. AreJoined(Joined(byIp, statics), rows, cfg, local.leases)
  BY <1>2, <1>3 DEF AreJoined
<1> QED BY <1>4 DEF rows, statics

\* A method that returns shows what its list was when the command was sent.
LEMMA ReturnsExact ==
    ASSUME IInv, PlaceInv, TypeOK, LeasesInv, ReadExact, Reads, lost' = lost,
           NEW result, Returns(result), Configs \subseteq Configs',
           NEW m \in Methods, m = Method
    PROVE  ShownExact(m)'
<1>0. /\ ConfigInv /\ ReadInv /\ LocalTypes /\ RouterTypes
      /\ Disk \in Configs /\ Disk \in Configs' /\ Disk \in Config
  BY TypeParts, DiskIsCurrent DEF IInv
<1>1. /\ UNCHANGED <<view, log, arp, began, links>> /\ shown'[m] = result
      /\ \A r : Returns(r) => r = result
  BY DEF Returns, routerVars, ReadInv, IInv
<1>2. ~Broken /\ \A s, output : Received(s, output) => output = s
  BY NothingLost
<1>3. CASE ReadLeases
  <2>1. m = "leases" /\ result = ParsedLeases(Lines(log))
    <3>1. Method = "leases"
      <4>1. UNCHANGED <<at, shown>> \/ Method = "leases"
        BY <1>3 DEF ReadLeases, GoesOn, Further
      <4>2. at' # at
        BY DEF Returns, Over, PlaceInv
      <4> QED BY <4>1, <4>2
    <3>2. PICK output : Received(Lines(log), output) /\ Returns(ParsedLeases(output))
      BY <1>3, <3>1 DEF ReadLeases
    <3> QED BY <1>1, <1>2, <3>1, <3>2
  <2>2. \A l \in LeasesOf(log) :
            \E k \in ParsedLeases(Lines(log)) : k.mac = l.mac /\ (l.ends # NoEnd => k.ends >= l.ends)
    <3>1. Lines(log) \in Outputs(Lines(log))
      BY DEF Outputs
    <3> QED BY <1>0, <3>1, ParsedOutput
  <2>3. LeasesExact'
    <3> SUFFICES ASSUME NEW i \in 1 .. began.log, log[i].mac # NoMac
                 PROVE  \E l \in result : l.mac = log[i].mac /\ (log[i].ends # NoEnd => l.ends >= log[i].ends)
      BY <1>1, <2>1 DEF LeasesExact
    <3>1. DOMAIN log = 1 .. Len(log) /\ Len(log) \in Nat
      BY <1>0, LenProperties DEF RouterTypes
    <3>2. i \in DOMAIN log
      BY <3>1 DEF LeasesInv
    <3>3. LeaseOf(log[i]) \in LeasesOf(log)
      BY <3>2 DEF LeasesOf
    <3>4. LeaseOf(log[i]).mac = log[i].mac /\ LeaseOf(log[i]).ends = log[i].ends
      BY DEF LeaseOf
    <3> QED BY <2>1, <2>2, <3>3, <3>4
  <2> QED BY <2>1, <2>3 DEF ShownExact
<1>4. CASE ReadConfigForDevices
  <2>1. PICK byIp \in ByAddress(local.leases) :
            result = Joined(byIp, Mappings(Disk)) /\ m = "devices" /\ Command = "config" /\ Awaiting
    <3>1. PICK list \in Outputs(Mappings(Disk)), byIp \in ByAddress(local.leases) :
            Received(Mappings(Disk), list) /\ Returns(Joined(byIp, list))
      BY <1>4 DEF ReadConfigForDevices
    <3>2. list = Mappings(Disk) /\ result = Joined(byIp, list)
      BY <1>1, <1>2, <3>1
    <3> QED BY <1>4, <3>2 DEF ReadConfigForDevices, At
  <2>2. /\ local.arp = arp
        /\ \E n \in began.log .. Len(log) : local.leases = ParsedLeases(Lines(SubSeq(log, 1, n)))
    <3>1. done = 2
      BY <2>1, CommandsAt DEF Awaiting
    <3> QED BY <2>1, <3>1 DEF ReadExact, DevicesRead
  <2>3. AreJoined(result, Resolved(arp), Disk, local.leases)
    BY <1>0, <2>1, <2>2, JoinedExactly
  <2>4. DevicesExact'
    <3>1. PICK n \in began.log .. Len(log) : local.leases = ParsedLeases(Lines(SubSeq(log, 1, n)))
      BY <2>2
    <3>2. AreJoined(shown'.devices, Resolved(arp'), Disk, ParsedLeases(Lines(SubSeq(log', 1, n))))
      BY <1>1, <2>1, <2>3, <3>1
    <3> QED BY <1>0, <1>1, <3>2 DEF DevicesExact
  <2> QED BY <2>1, <2>4 DEF ShownExact
<1>5. CASE ReadConfigForStatics
  <2>1. m = "statics" /\ result = Mappings(Disk)
    BY <1>1, <1>2, <1>5 DEF ReadConfigForStatics
  <2>2. StaticsExact'
    BY <1>0, <1>1, <2>1 DEF StaticsExact, Mappings
  <2> QED BY <2>1, <2>2 DEF ShownExact
<1>6. CASE ReadConfigForDns
  <2>1. m = "dns" /\ result = Overrides(Disk)
    BY <1>1, <1>2, <1>6 DEF ReadConfigForDns
  <2>2. DnsExact'
    BY <1>0, <1>1, <2>1 DEF DnsExact, Overrides
  <2> QED BY <2>1, <2>2 DEF ShownExact
<1>7. CASE ReadRoute
  <2>1. m = "wan" /\ done = 2 /\ result = IF local.up THEN "up" ELSE "down"
    <3>1. Command = "route" /\ Awaiting
      BY <1>7 DEF ReadRoute, At
    <3>2. done = 2
      BY <3>1, CommandsAt DEF Awaiting
    <3> QED BY <1>1, <1>7, <3>2 DEF ReadRoute
  <2>2. local.up \in links
    BY <2>1 DEF ReadExact, WanRead
  <2>3. WanExact'
    <3>1. local.up \in BOOLEAN
      BY <1>0 DEF LocalTypes
    <3>2. shown'.wan = IF local.up THEN "up" ELSE "down"
      BY <1>1, <2>1
    <3>3. CASE local.up
      <4>1. (shown'.wan = "up") = TRUE /\ local.up = TRUE
        BY <3>2, <3>3
      <4> QED BY <1>1, <2>2, <4>1 DEF WanExact
    <3>4. CASE ~local.up
      <4>1. (shown'.wan = "up") = FALSE /\ local.up = FALSE
        BY <3>1, <3>2, <3>4
      <4> QED BY <1>1, <2>2, <4>1 DEF WanExact
    <3> QED BY <3>3, <3>4
  <2> QED BY <2>1, <2>3 DEF ShownExact
<1>8. CASE ReadHaproxy
  <2>1. m = "haproxy" /\ result = "whole"
    BY <1>1, <1>2, <1>8 DEF ReadHaproxy
  <2>2. HaproxyExact'
    BY <1>1, <2>1 DEF HaproxyExact
  <2> QED BY <2>1, <2>2 DEF ShownExact
<1>9. CASE ReadIfconfig
  <2>1. at' # at
    BY DEF Returns, Over, PlaceInv
  <2>2. m = "lan"
    BY <1>9, <2>1 DEF ReadIfconfig, GoesOn, Further
  <2> QED BY <2>2 DEF ShownExact
<1>10. ~ReadArp /\ ~ReadConfigForInterface
  <2>1. at' # at
    BY DEF Returns, Over, PlaceInv
  <2> QED BY <2>1 DEF ReadArp, ReadConfigForInterface, GoesOn, Further
<1> QED BY <1>3, <1>4, <1>5, <1>6, <1>7, <1>8, <1>9, <1>10 DEF Reads

\* A method that goes on has read what its command should give.
LEMMA GoesOnExact ==
    ASSUME IInv, PlaceInv, TypeOK, LeasesInv, ReadExact, Reads, lost' = lost,
           NEW read, GoesOn(read)
    PROVE  ReadExact'
<1>0. /\ ConfigInv /\ ReadInv /\ local \in LocalRecords /\ Awaiting
      /\ ~Broken /\ \A s, output : Received(s, output) => output = s
  <2>1. Awaiting
    BY DEF Reads, ReadArp, ReadLeases, ReadConfigForDevices, ReadConfigForStatics, ReadConfigForDns,
       ReadConfigForInterface, ReadIfconfig, ReadRoute, ReadHaproxy, At
  <2> QED BY <2>1, TypeParts, LocalRecord, NothingLost DEF IInv
<1>1. /\ UNCHANGED <<view, log, arp, began, links, at, shown>> /\ local' = read /\ done' = done + 1
      /\ Method' = Method
      /\ \A r : GoesOn(r) => r = read
      /\ \A r : ~Returns(r)
  BY DEF GoesOn, Returns, Over, Further, routerVars, Method, PlaceInv
<1>2. CASE ReadArp
  <2>1. Method = "devices" /\ done = 0
    BY <1>0, <1>2, CommandsAt DEF ReadArp, At, Awaiting
  <2>2. local'.arp = arp
    <3>1. PICK rows \in Outputs(arp) : Received(arp, rows) /\ GoesOn([local EXCEPT !.arp = rows])
      BY <1>2 DEF ReadArp
    <3> QED BY <1>0, <1>1, <3>1 DEF LocalRecords
  <2> QED BY <1>1, <2>1, <2>2 DEF ReadExact, DevicesRead
<1>3. CASE ReadLeases
  <2>1. PICK output :
            /\ Received(Lines(log), output) /\ Method # "leases"
            /\ GoesOn([local EXCEPT !.leases = ParsedLeases(output)])
    BY <1>1, <1>3 DEF ReadLeases
  <2>2. Method = "devices" /\ done = 1
    BY <1>0, <1>3, <2>1, CommandsAt DEF ReadLeases, At, Awaiting
  <2>3. local'.leases = ParsedLeases(Lines(log)) /\ local'.arp = local.arp
    BY <1>0, <1>1, <2>1 DEF LocalRecords
  <2>4. Len(log) \in began.log .. Len(log) /\ SubSeq(log, 1, Len(log)) = log
    <3>1. log \in Seq(Block) /\ Len(log) \in Nat
      BY LenProperties DEF TypeOK
    <3> QED BY <3>1, SubSeqFull DEF LeasesInv
  <2>5. \E n \in began'.log .. Len(log') : local'.leases = ParsedLeases(Lines(SubSeq(log', 1, n)))
    BY <1>1, <2>3, <2>4
  <2>6. local.arp = arp
    BY <2>2 DEF ReadExact, DevicesRead
  <2>7. DevicesRead'
    BY <1>1, <2>3, <2>5, <2>6 DEF DevicesRead
  <2> QED BY <1>1, <2>2, <2>7 DEF ReadExact
<1>4. CASE ReadConfigForInterface
  <2>1. Method \in {"wan", "lan"} /\ done = 0
    BY <1>0, <1>4, CommandsAt DEF ReadConfigForInterface, At, Awaiting
  <2>2. local'.named
    <3>1. GoesOn([local EXCEPT !.named = TRUE])
      BY <1>0, <1>4 DEF ReadConfigForInterface
    <3> QED BY <1>0, <1>1, <3>1 DEF LocalRecords
  <2> QED BY <1>1, <2>1, <2>2 DEF ReadExact, WanRead
<1>5. CASE ReadIfconfig
  <2>1. Method \in {"wan", "lan"} /\ done = 1
    BY <1>0, <1>5, CommandsAt DEF ReadIfconfig, At, Awaiting
  <2>2. Method = "wan" /\ \E says : says = (local.named /\ link) /\ GoesOn([local EXCEPT !.up = says])
    BY <1>0, <1>1, <1>5, <2>1 DEF ReadIfconfig
  <2>3. local.named /\ local.named \in BOOLEAN /\ link \in links /\ link \in BOOLEAN
    BY <1>0, <2>1, <2>2 DEF ReadExact, WanRead, ReadInv, Awaiting
  <2>4. local'.up = link /\ local'.named = local.named
    BY <1>0, <1>1, <2>2, <2>3 DEF LocalRecords
  <2> QED BY <1>1, <2>1, <2>2, <2>3, <2>4 DEF ReadExact, WanRead
<1>6. ~ReadConfigForDevices /\ ~ReadConfigForStatics /\ ~ReadConfigForDns /\ ~ReadRoute /\ ~ReadHaproxy
  BY <1>1 DEF ReadConfigForDevices, ReadConfigForStatics, ReadConfigForDns, ReadRoute, ReadHaproxy
<1> QED BY <1>2, <1>3, <1>4, <1>5, <1>6 DEF Reads

\* vpn lists every server, and after its last command every client.
LEMMA VpnExactly ==
    ASSUME IInv, PlaceInv, TypeOK, ReadExact, ReadConfigForVpn \/ ReadStatus, lost' = lost
    PROVE  /\ Awaiting /\ Method = "vpn"
           /\ (Over /\ VpnExact') \/ (Further /\ VpnRead')
<1>0. ReadInv /\ ShownTypes /\ ~Broken /\ \A s, output : Received(s, output) => output = s
  BY TypeParts, NothingLost DEF IInv
<1>1. DOMAIN Servers = 1 .. Len(Servers) /\ Len(Servers) \in Nat
  BY ViewsAssumption, LenProperties
<1>2. CASE ReadConfigForVpn
  <2>1. /\ Awaiting /\ Method = "vpn"
        /\ shown'.vpn = [i \in DOMAIN Servers |-> [server |-> Servers[i], clients |-> <<>>]]
        /\ IF Servers = <<>> THEN Over ELSE Further
    BY <1>0, <1>2, ServersListed
  <2>2. CASE Servers = <<>>
    <3>1. DOMAIN Servers = {}
      BY <2>2
    <3> QED BY <2>1, <2>2, <3>1 DEF VpnExact
  <2>3. CASE Servers # <<>>
    <3>1. done' = 1
      BY <1>2, <2>1, <2>3, CommandsAt DEF Further, ReadConfigForVpn, At, Awaiting
    <3>2. \A i \in DOMAIN Servers : ~(i < done')
      BY <1>1, <3>1
    <3>3. VpnRead'
      BY <2>1, <3>2 DEF VpnRead
    <3> QED BY <2>1, <2>3, <3>3
  <2> QED BY <2>2, <2>3
<1>3. CASE ReadStatus
  <2>1. /\ Awaiting /\ Method = "vpn" /\ done \in 1 .. Len(shown.vpn) /\ NextServer
        /\ DOMAIN shown'.vpn = DOMAIN shown.vpn
        /\ DOMAIN shown.vpn = 1 .. Len(shown.vpn) /\ Len(shown.vpn) \in Nat
        /\ shown'.vpn[done] = [server |-> shown.vpn[done].server,
                               clients |-> ClientsOf[shown.vpn[done].server]]
        /\ \A i \in DOMAIN shown.vpn : i # done => shown'.vpn[i] = shown.vpn[i]
    BY <1>0, <1>3, ClientsListed
  <2>2. /\ DOMAIN shown.vpn = DOMAIN Servers
        /\ \A i \in DOMAIN Servers :
            shown.vpn[i] = [server |-> Servers[i],
                            clients |-> IF i < done THEN ClientsOf[Servers[i]] ELSE <<>>]
    BY <2>1 DEF ReadExact, VpnRead
  <2>3. \A i \in DOMAIN Servers :
            shown'.vpn[i] = [server |-> Servers[i],
                             clients |-> IF i < done + 1 THEN ClientsOf[Servers[i]] ELSE <<>>]
    <3>1. shown'.vpn[done] = [server |-> Servers[done], clients |-> ClientsOf[Servers[done]]]
      <4>1. done \in DOMAIN Servers
        BY <2>1, <2>2
      <4>2. PICK clients : shown.vpn[done] = [server |-> Servers[done], clients |-> clients]
        BY <2>2, <4>1
      <4> QED BY <2>1, <4>1, <4>2
    <3>2. \A i \in DOMAIN Servers : i # done => (i < done <=> i < done + 1)
      BY <1>1, <2>1
    <3>3. done < done + 1
      BY <2>1
    <3> QED BY <2>1, <2>2, <3>1, <3>2, <3>3
  <2>4. CASE done = Len(shown.vpn)
    <3>1. \A i \in DOMAIN Servers : i < done + 1
      BY <2>1, <2>2, <2>4
    <3>2. \A i \in DOMAIN Servers : shown'.vpn[i] = [server |-> Servers[i], clients |-> ClientsOf[Servers[i]]]
      BY <2>3, <3>1
    <3>3. \E S : shown'.vpn \in Seq(S)
      <4>1. ShownTypes'
        BY <1>0, <1>3, ClientsListed
      <4> QED BY <4>1 DEF ShownTypes, ShownIn, Methods, CommandsOf
    <3>4. VpnExact'
      BY <2>1, <2>2, <3>2, <3>3 DEF VpnExact
    <3> QED BY <2>1, <2>4, <3>4 DEF NextServer
  <2>5. CASE done # Len(shown.vpn)
    <3>1. Further /\ done' = done + 1
      BY <2>1, <2>5 DEF NextServer, Further
    <3>2. VpnRead'
      BY <2>1, <2>2, <2>3, <3>1 DEF VpnRead
    <3> QED BY <2>1, <3>1, <3>2
  <2> QED BY <2>4, <2>5
<1> QED BY <1>2, <1>3

\* What has been shown and what has been read is exact of every method that lost
\* nothing, whatever happened to the others.
LEMMA ExactStep ==
    ASSUME IInv, IInv', PlaceInv, PlaceInv', TypeOK, TypeOK', LeasesInv, ExactInv, [Next]_vars
    PROVE  ExactInv'
<1> SUFFICES ASSUME status' \in {"reading", "answered"}
             PROVE  ReturnedExact' /\ AtHandExact'
  BY DEF ExactInv
<1>0. /\ ConfigInv /\ ReadInv /\ RouterTypes /\ ShownTypes /\ HistoryTypes
      /\ view' = view
  BY TypeParts, RouterStep DEF IInv, TypeOK
<1>1. CASE Ask
  <2>1. at' = 1 /\ done' = 0
    BY <1>1 DEF Ask, PlaceInv
  <2>2. Returned' = {}
    BY <2>1 DEF Returned
  <2>3. ReadExact'
    BY <2>1 DEF ReadExact, DevicesRead, VpnRead, WanRead
  <2> QED BY <2>2, <2>3 DEF ReturnedExact, AtHandExact
<1>2. CASE ~Ask
  <2>0. status \in {"reading", "answered"}
    BY <1>2, Kinds, Resting DEF Reads, ReadArp, ReadLeases, ReadConfigForDevices, ReadConfigForStatics,
       ReadConfigForDns, ReadConfigForVpn, ReadStatus, ReadConfigForInterface, ReadIfconfig, ReadRoute,
       ReadHaproxy, At, Awaiting, Respond, CommandFails
  <2>1. ReturnedExact /\ AtHandExact
    BY <2>0 DEF ExactInv
  <2>2. Returned \subseteq Methods
    BY MethodsOnce DEF Returned, PlaceInv
  <2>3. Configs \subseteq Configs'
    BY <1>0, <2>0, ConfigsGrow
  <2>4. ASSUME NEW m \in Returned, shown'[m] = shown[m], harm'[m] = harm[m], harm'[m] = "none"
        PROVE  ShownExact(m)'
    <3>1. ShownExact(m) /\ m \in Methods
      BY <2>1, <2>2, <2>4 DEF ReturnedExact
    <3> QED BY <1>0, <2>0, <2>4, <3>1, StaysExact
  <2>5. CASE Rests \/ Respond
    <3>1. UNCHANGED <<at, done, local, shown, began, harm>> /\ links \subseteq links'
      BY <2>5, Resting DEF Respond, Rests, Edit, WriteLease, FlipLink, GoOrComeBack, vars, viewVars
    <3>2. Returned' = Returned /\ Method' = Method
      BY <1>0, <3>1 DEF Returned, Method
    <3>3. AtHandExact'
      BY <1>0, <2>1, <3>1, <3>2, StaysRead DEF AtHandExact
    <3>4. ReturnedExact'
      BY <2>4, <3>1, <3>2 DEF ReturnedExact
    <3> QED BY <3>3, <3>4
  <2>6. CASE Reads \/ ReadConfigForVpn \/ ReadStatus \/ CommandFails
    <3>1. Awaiting
      BY <2>6 DEF Reads, ReadArp, ReadLeases, ReadConfigForDevices, ReadConfigForStatics, ReadConfigForDns,
         ReadConfigForVpn, ReadStatus, ReadConfigForInterface, ReadIfconfig, ReadRoute, ReadHaproxy, At, CommandFails
    <3>2. PICK n \in Methods : n = Method /\ n \notin Returned
      BY <1>0, <3>1, OneReturned
    <3>3. /\ Over => Returned' = Returned \cup {n}
          /\ at' = at => Returned' = Returned /\ Method' = n
      BY <1>0, <3>1, <3>2, OneReturned
    <3>4. \A m \in Returned : harm'[m] = "none" => ShownExact(m)'
      <4> SUFFICES ASSUME NEW m \in Returned, harm'[m] = "none" PROVE ShownExact(m)'
        OBVIOUS
      <4>1. shown'[m] = shown[m] /\ harm'[m] = harm[m]
        BY <1>0, <2>2, <3>2, OneHarmed
      <4> QED BY <2>4, <4>1
    <3>5. ASSUME Over, harm'[n] = "none" => ShownExact(n)' PROVE ReturnedExact' /\ AtHandExact'
      <4>1. ReturnedExact'
        BY <3>3, <3>4, <3>5 DEF ReturnedExact
      <4>2. ReadExact'
        BY <3>5 DEF Over, ReadExact, DevicesRead, VpnRead, WanRead
      <4> QED BY <4>1, <4>2 DEF AtHandExact
    <3>6. ASSUME at' = at, harm'[n] = "none" => ReadExact' PROVE ReturnedExact' /\ AtHandExact'
      <4>1. Returned' = Returned /\ Method' = n
        BY <3>3, <3>6
      <4> QED BY <3>4, <3>6, <4>1 DEF ReturnedExact, AtHandExact
    <3>7. Over \/ at' = at
      BY <1>0, <2>6 DEF Reads, ReadArp, ReadLeases, ReadConfigForDevices, ReadConfigForStatics, ReadConfigForDns,
         ReadConfigForVpn, ReadStatus, ReadConfigForInterface, ReadIfconfig, ReadRoute, ReadHaproxy, GoesOn, Returns,
         NextServer, Further, CommandFails
    <3>8. CASE harm'[n] # "none"
      BY <3>5, <3>6, <3>7, <3>8
    <3>9. CASE harm'[n] = "none"
      <4>0. UNCHANGED <<lost, harm>> /\ ~CommandFails /\ ReadExact
        <5>1. UNCHANGED <<lost, harm>> /\ ~CommandFails
          BY <1>0, <3>2, <3>9, HarmAtHand
        <5>2. ReadExact
          BY <2>1, <3>1, <3>2, <3>9, <5>1 DEF AtHandExact, Awaiting
        <5> QED BY <5>1, <5>2
      <4>1. CASE Reads
        <5>1. (\E result : Returns(result)) \/ (\E read : GoesOn(read))
          BY <4>1 DEF Reads, ReadArp, ReadLeases, ReadConfigForDevices, ReadConfigForStatics, ReadConfigForDns,
             ReadConfigForInterface, ReadIfconfig, ReadRoute, ReadHaproxy
        <5>2. ASSUME NEW result, Returns(result) PROVE ReturnedExact' /\ AtHandExact'
          <6>1. ShownExact(n)'
            BY <2>3, <3>2, <4>0, <4>1, <5>2, ReturnsExact
          <6> QED BY <3>5, <5>2, <6>1 DEF Returns
        <5>3. ASSUME NEW read, GoesOn(read) PROVE ReturnedExact' /\ AtHandExact'
          <6>1. ReadExact'
            BY <4>0, <4>1, <5>3, GoesOnExact
          <6> QED BY <3>6, <5>3, <6>1 DEF GoesOn, Further
        <5> QED BY <5>1, <5>2, <5>3
      <4>2. CASE ReadConfigForVpn \/ ReadStatus
        <5>1. Method = "vpn" /\ ((Over /\ VpnExact') \/ (Further /\ VpnRead'))
          BY <4>0, <4>2, VpnExactly
        <5>2. CASE Over /\ VpnExact'
          <6>1. ShownExact(n)'
            BY <3>2, <5>1, <5>2 DEF ShownExact
          <6> QED BY <3>5, <5>2, <6>1
        <5>3. CASE Further /\ VpnRead'
          <6>1. at' = at /\ Method' = "vpn"
            BY <3>2, <3>3, <5>1, <5>3 DEF Further
          <6>2. ReadExact'
            BY <5>3, <6>1 DEF ReadExact
          <6> QED BY <3>6, <6>1, <6>2
        <5> QED BY <5>1, <5>2, <5>3
      <4> QED BY <2>6, <4>0, <4>1, <4>2
    <3> QED BY <3>8, <3>9
  <2> QED BY <1>2, <2>5, <2>6, Kinds
<1> QED BY <1>1, <1>2

---------------------------------------------------------------------------
(* The theorems about whole views. *)

\* Where a view is, what it has read and what it shows.
ViewInv == IInv /\ TypeOK /\ PlaceInv /\ LeasesInv /\ HarmInv /\ ExactInv

\* Before a view is asked for it is at its first command.
LEMMA FirstPlace ==
    ASSUME Init, IInv
    PROVE  TypeOK /\ PlaceInv /\ LeasesInv /\ HarmInv /\ ExactInv
<1>1. /\ log \in Seq(Block) /\ Len(log) \in Nat /\ arp \in Seq(Row)
      /\ view \in DOMAIN MethodsOf /\ Len(MethodsOf[view]) \in Nat /\ Len(MethodsOf[view]) >= 1
  <2>1. log \in Seq(Block) /\ arp \in Seq(Row) /\ view \in DOMAIN MethodsOf
    BY ViewsAssumption, ViewNamesAssumption DEF Init
  <2> QED BY <2>1, MethodsOnce, LenProperties
<1>2. TypeOK
  <2>1. \A S : <<>> \in Seq(S)
    BY EmptySeq
  <2>2. <<>> \in Seq(Device) /\ <<>> \in Seq(Entry) /\ <<>> \in Seq([server : ToSet(Servers), clients : Seq(Client)])
    BY <2>1
  <2>3. RouterTypes
    BY <1>1 DEF Init, RouterTypes
  <2>4. LocalTypes
    BY <2>1 DEF Init, LocalTypes, NothingRead
  <2>5. /\ shown.devices \in Seq(Device) /\ shown.leases \subseteq Lease
        /\ shown.statics \in Seq(Entry) /\ shown.dns \in Seq(Entry)
        /\ shown.vpn \in Seq([server : ToSet(Servers), clients : Seq(Client)])
        /\ shown.wan \in {"unreachable", "up", "down"} /\ shown.lan \in {"unreachable", "up", "down"}
        /\ shown.haproxy \in {"none", "whole", "empty"}
    <3>1. shown = NothingShown
      BY DEF Init
    <3>2. /\ NothingShown.devices = <<>> /\ NothingShown.leases = {} /\ NothingShown.statics = <<>>
          /\ NothingShown.dns = <<>> /\ NothingShown.vpn = <<>> /\ NothingShown.wan = "unreachable"
          /\ NothingShown.lan = "unreachable" /\ NothingShown.haproxy = "none"
      BY DEF NothingShown
    <3> QED BY <2>2, <3>1, <3>2
  <2>6. HistoryTypes /\ PlaceTypes
    BY <1>1 DEF Init, HistoryTypes, PlaceTypes
  <2> QED BY <2>3, <2>4, <2>5, <2>6 DEF TypeOK, RouterTypes, LocalTypes, HistoryTypes, PlaceTypes
<1>3. PlaceInv
  <2>1. Method \in Methods
    BY <1>1, MethodsOnce DEF Init, Method
  <2>2. \A m \in Methods : 0 < Len(CommandsOf[m])
    BY DEF Methods, CommandsOf
  <2>3. Len(shown.vpn) = 0
    BY DEF Init, NothingShown
  <2> QED BY <1>1, <2>1, <2>2, <2>3 DEF Init, PlaceInv
<1>4. LeasesInv
  BY <1>1 DEF Init, LeasesInv, NothingShown
<1>5. HarmInv
  BY DEF Init, HarmInv
<1>6. ExactInv
  BY DEF Init, ExactInv
<1> QED BY <1>2, <1>3, <1>4, <1>5, <1>6

\* In every state of every view the method at hand is at one of its commands,
\* and a method that lost nothing has read, and shows, what there was.
THEOREM ViewInvariant == Spec => []ViewInv
<1>1. Init /\ IInv => ViewInv
  BY FirstPlace DEF ViewInv
<1>2. ViewInv /\ IInv' /\ [Next]_vars => ViewInv'
  <2> SUFFICES ASSUME ViewInv, IInv', [Next]_vars PROVE ViewInv'
    OBVIOUS
  <2>1. ConfigInv /\ ReadInv /\ ReadInv'
    BY DEF ViewInv, IInv
  <2>2. TypeOK'
    BY <2>1, TypeStep DEF ViewInv
  <2>3. PlaceInv'
    BY <2>1, <2>2, PlaceStep DEF ViewInv
  <2>4. LeasesInv'
    BY <2>1, LeasesStep DEF ViewInv
  <2>5. HarmInv'
    BY <2>1, <2>3, HarmStep DEF ViewInv
  <2>6. ExactInv'
    BY <2>2, <2>3, ExactStep DEF ViewInv
  <2> QED BY <2>2, <2>3, <2>4, <2>5, <2>6 DEF ViewInv
<1> QED BY <1>1, <1>2, Invariant, PTL DEF Spec

\* Every variable has its type, and no device is a row that was not resolved,
\* whatever the lists are and wherever they are cut.
THEOREM TypeCorrect == Spec => []TypeOK
<1>1. ViewInv => TypeOK
  BY DEF ViewInv
<1> QED BY <1>1, ViewInvariant, PTL

\* All that an answer includes has returned, and is exact if it lost nothing.
LEMMA AnsweredExact ==
    ASSUME ViewInv, status = "answered"
    PROVE  \A m \in Included : m \in Methods /\ (harm[m] = "none" => ShownExact(m))
<1>1. /\ at - 1 = Len(MethodsOf[view]) /\ DOMAIN MethodsOf[view] = 1 .. Len(MethodsOf[view])
      /\ \A i \in 1 .. Len(MethodsOf[view]) : MethodsOf[view][i] \in Methods
  BY MethodsOnce DEF ViewInv, PlaceInv
<1>2. Included = Returned
  BY <1>1 DEF Included, Returned, ToSet
<1>3. Included \subseteq Methods
  BY <1>1 DEF Included, ToSet
<1> QED BY <1>2, <1>3 DEF ViewInv, ExactInv, ReturnedExact

\* An answer that lost nothing is all there was, each list at one moment since
\* the request: mappings, overrides, devices, servers, clients, the WAN.
THEOREM WholeAnswers == Spec => []WholeViewIsExact
<1>1. ViewInv => WholeViewIsExact
  <2> SUFFICES ASSUME ViewInv, status = "answered", lost = 0, NEW m \in Included PROVE Exact(m)
    BY DEF WholeViewIsExact
  <2>1. ShownExact(m)
    BY AnsweredExact DEF ViewInv, HarmInv
  <2> QED BY <2>1 DEF ShownExact, Exact
<1> QED BY <1>1, ViewInvariant, PTL

\* For every log and every cut, one lease a client, that dhcpd wrote; and if
\* nothing was lost, every client's, of those that end one that ends last.
THEOREM OneLease == Spec => []OneLeaseAClient
<1>1. ViewInv => OneLeaseAClient
  <2> SUFFICES ASSUME ViewInv PROVE OneLeaseAClient
    OBVIOUS
  <2>1. \A l, m \in shown.leases : l.mac = m.mac => l = m
    BY DEF ViewInv, LeasesInv
  <2>2. \A l \in shown.leases : \E i \in DOMAIN log :
            l = [ip |-> log[i].ip, mac |-> log[i].mac, ends |-> log[i].ends]
    BY DEF ViewInv, LeasesInv, LeasesOf, LeaseOf
  <2>3. ASSUME status = "answered", harm["leases"] = "none", "leases" \in Included PROVE LeasesExact
    <3>1. ShownExact("leases")
      BY <2>3, AnsweredExact
    <3> QED BY <3>1 DEF ShownExact
  <2> QED BY <2>1, <2>2, <2>3 DEF OneLeaseAClient
<1> QED BY <1>1, ViewInvariant, PTL

\* Whatever fails or is cut, and wherever: the page fails with its devices and
\* with nothing else, a method of it that lost nothing is exact and one that
\* failed shows nothing.
THEOREM Degradation == Spec => []PageDegrades
<1>1. ViewInv => PageDegrades
  <2> SUFFICES ASSUME ViewInv, view = "page" PROVE PageDegrades
    BY DEF PageDegrades
  <2>1. ASSUME status = "failed" PROVE harm["devices"] = "failed"
    <3>1. at <= Len(MethodsOf[view]) /\ ~Optional /\ harm[Method] = "failed"
      BY <2>1 DEF ViewInv, PlaceInv, HarmInv
    <3> QED BY <3>1 DEF Optional
  <2>2. ASSUME status = "answered" PROVE harm["devices"] # "failed"
    <3>1. "devices" \in Methods
      BY DEF Methods, CommandsOf
    <3> QED BY <2>2, <3>1 DEF ViewInv, HarmInv
  <2>3. ASSUME status = "answered", NEW m \in Included
        PROVE  /\ harm[m] = "none" => Exact(m)
               /\ harm[m] = "failed" => shown[m] = NothingShown[m]
    <3>1. m \in Methods /\ (harm[m] = "none" => ShownExact(m))
      BY <2>3, AnsweredExact
    <3> QED BY <3>1 DEF ViewInv, HarmInv, ShownExact, Exact
  <2> QED BY <2>1, <2>2, <2>3 DEF PageDegrades
<1> QED BY <1>1, ViewInvariant, PTL
=============================================================================
