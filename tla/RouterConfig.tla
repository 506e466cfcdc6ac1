--------------------------- MODULE RouterConfig ---------------------------
(***************************************************************************)
(* The data every write of leo-pfsense-app is about: the router's          *)
(* config.xml as far as the app edits it, the calls that edit it, and what *)
(* the PHP bodies in src/src/pfsense.rs make of a configuration.           *)
(*                                                                         *)
(* A DNS override is named by its (host, domain) pair and a static mapping *)
(* by its normalised MAC; both carry a payload (address, host name).       *)
(* Entries also carry the request that wrote them, which the router does   *)
(* not store: it lets the properties tell two equal entries apart.         *)
(***************************************************************************)
EXTENDS SequencesExt

CONSTANTS
    Requests,       \* calls of the app, by any client, over REST or MCP
    NoRequest,      \* the author of the entries that were there at the start
    Names,          \* (host, domain) pairs and MACs
    RefusedNames,   \* names the validators refuse, a blank domain for one
    Values,         \* payloads of an entry
    RefusedValues,  \* payloads refused: not an address, a blank host name
    InitialConfig,  \* what config.xml holds before the first call
    CallsOf         \* CallsOf[r]: the calls request r may turn out to be

\* config.xml keeps the overrides under <unbound>, and the static mappings
\* under <dhcpd>, one list per interface: the LAN and the optional ones.
Sections == {"dns", "lan", "opt"}

\* The two services that are reconfigured after a write.
Services == {"dns", "lan"}

Authors == Requests \cup {NoRequest}
Entry == [name : Names, value : Values, by : Authors]
Config == [Sections -> Seq(Entry)]

\* Who calls: over REST the hub's headers say who; "host" is the MCP host,
\* which no gate stands before.
Callers == {"anonymous", "member", "admin", "host"}

\* `update` is PUT /dns/overrides; nothing updates a static mapping.
Call == [kind : {"add", "delete", "update"}, section : Services,
         name : Names, value : Values, caller : Callers]

NoCall == [kind |-> "none"]

Legal(c) == c.kind = "update" => c.section = "dns" /\ c.caller # "host"

\* The methods of PfSenseService a call makes; each runs one PHP script.
Steps == {"delete", "add"}
StepsOf(c) == IF c.kind = "update" THEN Steps ELSE {c.kind}
LastStep(c) == IF c.kind = "delete" THEN "delete" ELSE "add"
FirstStep(c) == IF c.kind = "add" THEN "add" ELSE "delete"
Scripts == Requests \X Steps

ASSUME ConfigAssumption ==
    /\ NoRequest \notin Requests
    /\ RefusedNames \subseteq Names
    /\ RefusedValues \subseteq Values
    /\ CallsOf \in [Requests -> SUBSET {c \in Call : Legal(c)}]
    /\ InitialConfig \in Config
    /\ \A sec \in Sections : \A i \in DOMAIN InitialConfig[sec] :
            InitialConfig[sec][i].by = NoRequest

---------------------------------------------------------------------------
(* The validators of src/src/pfsense.rs.  Delete looks at the name only. *)

Accepts(c, step) ==
    /\ c.name \notin RefusedNames
    /\ step = "add" => c.value \notin RefusedValues

(* The body of the add scripts: append, whatever the list already holds. *)
WithEntry(config, c, r) ==
    [config EXCEPT ![c.section] =
        Append(@, [name |-> c.name, value |-> c.value, by |-> r])]

Matches(config, c) ==
    {i \in DOMAIN config[c.section] : config[c.section][i].name = c.name}

(* The body of the delete scripts: unset the first match, re-index, break. *)
\* Faulty: a loop that breaks one entry late.
AfterFirstMatch(config, c) ==
    1 + CHOOSE i \in Matches(config, c) : \A j \in Matches(config, c) : i <= j

FirstMatch(config, c) ==
    CHOOSE i \in Matches(config, c) : \A j \in Matches(config, c) : i <= j

WithoutFirst(config, c) ==
    [config EXCEPT ![c.section] = RemoveAt(@, FirstMatch(config, c))]

Edited(config, c, step, r) ==
    IF step = "add" THEN WithEntry(config, c, r) ELSE WithoutFirst(config, c)

\* A delete script writes only if it found a match.
Edits(config, c, step) == step = "add" \/ Matches(config, c) # {}

---------------------------------------------------------------------------
EntriesIn(config, sec) == ToSet(config[sec])
===========================================================================
