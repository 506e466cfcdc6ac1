# Formal model of leo-pfsense-app

TLA+ modules, TLC runs and machine-checked proofs about `leo-pfsense-app`: the
process that the Leo hub starts to show and edit a pfSense router over SSH. Paths
are those of the repository's crate (`src/src/...`).

## The system

```
 hub proxy --HTTP--> routes.rs / ui.rs --+
                     (auth.rs gate)      |                    +-> sh -> php script --+
 MCP host --stdio--> mcp.rs -------------+-> PfSenseService --+                      |
                                         |   (pfsense.rs) SSH |   cat, netstat, arp  |
 sampler.rs (every 10 s) ----------------+                    +-> ...          config.xml,
     |                                                                         unbound, dhcpd
     +-> BandwidthMonitor (bandwidth.rs) <-- GET /bandwidth
```

| component | state | operations | what makes it correct |
|---|---|---|---|
| REST write API (`routes.rs`, `auth.rs`, `error.rs`) | none; one task per request | POST/PUT/DELETE `/dns/overrides`, POST/DELETE `/dhcp/static` (and two aliases), POST `/pfsense/php` | only admins write; "ok" is the truth; every request ends |
| MCP (`mcp.rs`) | the line it is at; one request at a time | `initialize`, `tools/list`, `tools/call` of 13 + 3 actions | each request is answered once, in order, under its id; a call reaches the router whole or not at all; the process ends with its host |
| `PfSenseService` (`pfsense.rs`) | none; one SSH connection per command | `connect`, `run_command`, add and delete scripts, reads | an edit is made at most once and damages no other entry |
| the router | `config.xml`; the configuration that `unbound` and `dhcpd` run; PHP processes | `config.inc`, `write_config`, `services_*_configure` | services run what the file says |
| sampler (`sampler.rs`) | the cached interface names | tick, resolve, read counters, give up after 8 s | an outage shows; the rates come back |
| monitor (`bandwidth.rs`) | two `Sampler`s, the latest snapshot, the time of the last update, each behind a lock | `record_router`, `record_router_error`, `snapshot` | no rate that was not there |
| readers and page (`pfsense.rs`, `routes.rs`, `ui.rs`) | none; from one command a view to ten and more | dashboard, devices, leases, mappings, overrides, VPN, HAProxy, interfaces, `network_data` | nothing stale, nothing invented; a broken part of the page takes no other with it |
| parsers (`pfsense.rs`) | none | `dhcpd.leases`, `config.xml`, `status.log`, `ifconfig`, `netstat` | one lease a client; nothing that the text does not say |
| settings (`config.rs`) | read once | | |

**How they interact.** Requests share nothing inside the app but the monitor: every
command opens its own SSH connection. What they share is the router. A write is a
PHP script sent over a channel; the task then waits for the channel to end.

**What is hard.** The script is a process of its own. Two of them interleave, each
with a private copy of the whole `config.xml`. A task may lose its channel, run into
`inactivity_timeout` or be dropped when its client hangs up, and its script goes on.
`run_command` cannot tell the end of the output from the end of the connection, and
does not read the exit code. PUT is two such scripts. The sampler lives with the same
transport: counters restart at reboots and wrap, names go stale, an output may be cut.
A view is put together from commands of different moments, while requests edit the file,
`dhcpd` writes leases, the link goes down and the router does; an output that was cut
parses as a shorter list. The MCP loop sits between two pipes: the host may write ahead,
not read, close stdin, or kill it in the middle of a call; an answer it has written may still
be in tokio's buffer, and the command it waits for may never end.
`PROJECT.json` lists each hazard at its line with the properties that watch it.

## Modules

| module | what it is |
|---|---|
| `RouterConfig` | the lists in `config.xml`, the calls, the validators, and what the PHP bodies make of a list |
| `ConfigService` | abstract: what the write API promises to one caller |
| `ConfigWrites` | detailed: requests, channels, scripts, router; implements `ConfigService` |
| `MCConfigWrites`, `MCConfigClaims` | instances for TLC; statements of the repository that the write path does not keep |
| `Bandwidth`, `MCBandwidth` | sampler, monitor, readers and the router's counters; instances for TLC |
| `McpServer`, `MCMcpServer` | the MCP loop, tokio's stdout and the host at the other end of the pipes; instances for TLC; a statement the loop does not keep |
| `Leases` | `dhcpd.leases` line by line and what `parse_isc_leases` makes of it |
| `Views`, `MCViews` | every read of the router, beside the writers of `ConfigService`; instances for TLC; a statement the leases do not keep |
| `Induction` | lemmas: induction over naturals and over lists, and what a loop over a list computes |
| `RouterConfigProofs`, `LeasesProofs` | lemmas about the lists of `config.xml` and their edits; what `parse_isc_leases` returns |
| `ConfigWritesProofs`, `ServiceProofs` | theorems of the write path; `ServiceProofs` has the refinement |
| `BandwidthProofs`, `McpServerProofs`, `ViewsProofs` | theorems of the three others |

`Views` extends `ConfigService`: the writers beside a reader are those of the abstract
specification, and `PromiseKept` below says that the write path is one of them. So a safety
property of the views that holds beside every writer of the promise holds beside the code's.

### ConfigWrites and the code

A request `r` goes through `pc`: `idle`, `connecting` (in `connect`), `waiting` (in
the loop over `channel.wait()`), `replied` or `cancelled`; `step[r]` is the service
method it is in. A script `<<r, method>>` goes through `stage`: `sent`, `loaded`
(`require_once('config.inc')`), `written` (`write_config`), `configured`
(`services_*_configure`), `exited`; `died` is the script that stops half-way.

| action | code |
|---|---|
| `Arrive` | `AdminCaller`, or the arm of `dispatch`; then the validators of the first method |
| `ConnectFails`, `SendScript` | `connect`, `channel_open_session`, `exec` |
| `OutputEnds` | the channel ends after all of the output |
| `OutputLost` | it ends before: the connection broke, 30 s without a byte, or the script died. The task goes on with an empty `Ok` |
| `Return` (in the two above) | the caller of the method: `update_dns` goes on to its add, all else maps the result to an answer |
| `Cancel` | the handler is dropped with its connection; the process ends |
| `LoadConfig`, `WriteConfig`, `Reconfigure`, `Echo`, `EchoNotFound`, `Die` | the PHP text that `add_*` and `delete_*` format |

An entry is a name (the `(host, domain)` pair or the MAC), a payload and its author.
The author is history, as are `versions`, `since`, `base`, `wrote` and `overlapped`:
no action decides by them. PUT is refused by the add's validators when its delete's
were; a PUT with a good name and a bad address runs its delete first, in the model as
in the code. The output is one word that the script prints last, so a cut output
is an empty one.

`ConfigService` keeps the history of versions and lets a request apply each of its
edits at most once to any version that is not older than the request. That is less
than an atomic update, on purpose: the scripts take no lock, and lost updates are what
the code does. What is left is still a promise: nothing is applied twice, from an
older copy than the request has a right to, without validation, or before an "ok".
The mapping takes `wrote[s] > 0` for "applied" and every refusal for "error".

### Bandwidth and the code

`stage` is where the sampler's loop is: `idle` (in `tick`), `resolving` (in
`wan_lan_interface_names`), `sampling` (in `interface_counters_raw`), `touching`
(between the two locks of `record_router`). `prev` is the two `Sampler`s, `latest`,
`error` and `updated` the snapshot and its time. A reading also carries history: which
interface it is of, whether its row was whole, and what had passed by then.
`Outputs` is every set of rows a cut `netstat` may leave, the last row cut at
any digit. `Fails` is an error or the 8 seconds of `with_timeout`. A reader copies
`latest` and then reads the time, as `snapshot` does.

The router's actions are external: `Pass` (traffic), `Reboot`, `Reassign`,
`GoUpOrDown`, and `Settle`, after which nothing fails any more; it is what the
liveness properties start from and never has to happen.

### McpServer and the code

The loop of `run` is at line `pos` and in `stage`: `reading` (in `next_line`), `calling`
(`dispatch` has chosen an arm), `running` (something has been sent to the router), `endless`
(it runs a command that never ends), `answering` (in `write_all`), `ended` (the loop),
`exited` (the process) or `killed`. A line is what the loop can tell of it:
whether it parses, its id, method, tool and action, and for each field whether it is
absent, empty, a text or another value. `answers` is what `write_all` has taken, `piped` how
many of them are in the pipe: `write_all` on tokio's stdout returns when its buffer has the
answer, a thread writes it to the pipe later, and the next `write_all` waits for that. Nothing
calls `flush`. So the loop may be at the router with the next call while the last answer is
still in the buffer, and a process that is killed, or exits, may lose it.

| action | code |
|---|---|
| `SkipLine` | `continue` on a blank line, and on a message without an id |
| `ReadGarbage` | the parse error under the id null |
| `ReadRequest` | `handle_request`; what `validate` refuses and unknown tools are answered at once |
| `CallFails`, `CallSends`, `CallEnds` | the arm of `dispatch`: refused or not connected, sent, returned |
| `WriteAnswer`, `WriteFails` | `write_all` waits for the write before it; its error is dropped |
| `Flush` | tokio's thread writes to the pipe when that has room (external) |
| `NeverEnds` | `run_command`, which has no limit but 30 s of silence, runs an `ssh_command` or `php_exec` that goes on printing |
| `Exit` | `main` returns after the loop |
| `EndUnreadable`, `EndClosed` | `next_line` fails on a line that is not UTF-8, or is at the end of stdin |
| `WriteLine`, `CloseInput`, `ReadAnswer`, `StopListening`, `Kill` | the host (external) |

`get_str` makes `""` of what is not a string, and `validate` lets it through. The service's
own validators then refuse it, so that `CallSends` of the tool `network` needs texts;
`ssh_command` and `php_exec` have no validators and run.

### Leases, Views and the code

`Leases` has the parser's loop as the function `AfterLine`, one case for each arm, and
`Keep` for `by_mac`. `Folded` applies such a function along a list; it is a recursive function
and not an operator, so that it can be proved about. A log may be cut after any line.

`Views` follows one view. `MethodsOf` lists the service methods that a route, a tool, the
dashboard or the page awaits, in their order, `CommandsOf` the commands of a method.
`at` is the method at hand, `done` how many of its commands are over, `local` its local
variables, `shown` what the methods have returned.

| action | code |
|---|---|
| `ReadArp`, `ReadLeases`, `ReadConfigForDevices` | `get_devices`: three commands, then the join (`DeviceOf`) |
| `ReadLeases`, `ReadConfigForStatics`, `ReadConfigForDns`, `ReadHaproxy` | the methods of one command; a file cut inside `<unbound>` has no end tag and is searched as a whole (`CutOverrides`), so that the `<hosts>` of another resolver (`OtherHosts`) come before the overrides |
| `ReadConfigForVpn`, `ReadStatus` | `get_vpn_status`: the servers, then a `status.log` each; one that fails shows no client |
| `ReadConfigForInterface`, `ReadIfconfig`, `ReadRoute` | `get_wan_info`, `get_lan_info` |
| `CommandFails` | an error of `run_command`: for a status it does not matter, for what is optional on the page it is an empty list, for all else it ends the view |
| `Ask`, `Respond` | the handler |
| `Edit` | any step of `ConfigService` |
| `WriteLease`, `FlipLink`, `GoOrComeBack` | the router (external) |

An output is all of the list or, if the connection broke, the start of it. `began`,
`links`, `lost` and `harm` (which methods lost output or failed) are history. A lease that
says `ends never` has no text for its end; the parser takes that for less than any end, so
`NoEnd` is 0 although such a lease outlasts all.

## Runs

| run | asks | bounds |
|---|---|---|
| `ConfigWrites_pair` | `OnlyAskedFor`, `ServedIsDisk`, `OkMeansEdited`, `EveryRequestEnds`, `ServiceSpec` | one of eleven calls beside one of two writers |
| `ConfigWrites_race` | `TypeOK`, `AtMostOnce`, `OnlyStaleWritesStray` | three requests: add and delete of one name, and an add in the other section |
| `ConfigClaims_domainless`, `_put`, `_listed` | three statements the code breaks | one request |
| `Bandwidth_safety` | `TypeOK`, `ViewIsCoherent`, `NeverOverstates` | two interfaces, one reader, counters modulo 4 from 3, one byte each, binary digits |
| `Bandwidth_live` | `OutageShows`, `RatesReturn` | two interfaces, counters modulo 2 |
| `Bandwidth_cut` | one statement the code breaks | as `Bandwidth_safety` without a reader |
| `McpServer` | `TypeOK`, `AnswersInOrder`, `OnlyWholeCallsReach`, `AtMostTwoInDoubt`, `EveryRequestAnswered`, `EndsAfterClose` | three lines of twelve kinds, a pipe that holds one answer |
| `McpServer_fields` | one statement the code breaks | as `McpServer` |
| `Views` | `TypeOK`, `NothingInvented`, `WholeViewIsExact`, `OneLeaseAClient`, `PageDegrades`, `EveryViewEnds` | ten views; one writer with three edits, one change of the router, one loss |
| `Views_leases` | one statement the code breaks | the list of leases of a log with a lease that was released, one more block, no loss |

**Why the bounds are enough.** The eleven calls are one for each way a call can differ:
the gate's three outcomes, both callers, the sections, found or not, good or refused
name and value. The initial file lists one name in every section and twice under
`unbound`, so that deletes have a first match to miss. Three requests are enough for a
writer, one it overwrites and one that overwrites it; in `ConfigWrites_pair` an update
brings two scripts of its own beside the other writer's, with a good and a bad address. The
counters start one below a wrap, so that one byte wraps them; a reboot takes them to zero; three in binary has two digits, so that a row can be cut to a
smaller number. Three lines are one that is answered, one that is skipped or breaks, and
one behind it; two calls and the answer to the first are enough for two in doubt;
the twelve kinds are one for each way that the loop, `validate` and `dispatch` part, twice where an id or a field makes the difference; a pipe of one is full
after one answer. Of the views, one edit is enough for a list that is stale or that two
methods see differently, and one loss for an output cut anywhere or a method that fails,
while a router that is down fails every command after it. The logs have a client with two
blocks whose ends are in either order, a block without a client, two clients of one
address, and a lease that never ends, after one that does. Requests, views and the MCP process end
and scripts stop, so the runs of the write path, the views and the MCP loop may come to a state without
a successor; those of the sampler check that it never does.

**Fairness.** `ConfigWrites`: weak fairness of each request's own step. `connect` and
the channel end one way or the other because of `inactivity_timeout` (30 s of silence;
the scripts print nothing before their last word). No script is fair: nothing on the
router makes one go on, and `EveryRequestEnds` holds all the same. `Bandwidth`: the
tick, because the interval never ends; the answer of a round trip, because `with_timeout`
turns silence into a failure; and `touch`, which waits for nothing but a short lock.
`McpServer`: the loop, which never sleeps; tokio's thread; the exit of a process whose loop
has ended; and the host's reading of answers while it listens, without which a full pipe holds
the loop for ever; nothing else of the host. A call is fair as part of the loop only as long as
its command ends or falls silent for 30 s: an `ssh_command` or `php_exec` may choose
`NeverEnds`, and the liveness properties name that outcome. `Views`: the reads, whose commands
the code chooses (`cat`, `arp`, `ifconfig`, `route`, a PHP script) and which end or fall silent;
neither the writers nor the router.
Traffic, reboots and outages are not fair. A cancelled round trip of the sampler leaves
no state behind. One thing the fairness of the requests, the views and the
MCP calls takes from outside these
sources: that `inactivity_timeout`, which `russh` applies, covers the set-up of a connection
too, and not only the wait on a channel. If it did not, a router that takes the connection and
then says nothing would hold `connect`, and `EveryRequestEnds`, `EveryViewEnds`
and the two of `McpServer` would be lost; the sampler has its own `with_timeout` and does not need it.

**What the runs that fail show.** Each is a line of the repository that the code does
not keep:

1. `routes.rs:69` says a domain-less override is valid and can be deleted;
   `validate_domain` refuses it.
2. `routes.rs:226` ignores a failed delete because "the old entry may not exist"; it
   ignores a delete that never reached the router too, and answers ok with two
   overrides of one name.
3. `pfsense.rs:968` means to list the LAN's mappings and lists every interface's; the
   delete script looks under `lan` only, and the route answers ok when it finds nothing.
4. `bandwidth.rs:48` says that dropping a sample whose counter went backwards and re-basing
   "can't lie"; a row that was cut inside its last number becomes the base, and the next rate
   is the spike the comment is about. In the shortest trace nothing goes backwards: the cut
   reading is the first one.
5. `pfsense.rs:881` and `:320` speak of active leases and of "keeping latest". The parser does
   not read the binding state, so a lease that was released counts like any other; and `ends
   never` is no end, which is less than any date. A client that releases a lease and takes
   another that never ends is listed with the released one, which is neither active nor the
   latest.
6. `mcp.rs:103` says that a field that is absent or not a string is refused before any network
   call. `validate` lets a number or a list through, `get_str` makes `""` of it, and an
   `ssh_command` or `php_exec` goes to the router. (The tool `network` is safe: its service
   methods refuse `""`, which is what `OnlyWholeCallsReach` says.)

## Proofs

For any number of requests, names, calls and entries (`ConfigWritesProofs`):

| theorem | establishes |
|---|---|
| `TypeCorrect` | `[]TypeOK` |
| `Authorship` | `[]OnlyAskedFor` |
| `NoDuplicates` | `[]AtMostOnce` |
| `OkIsTrue` | `[]OkMeansEdited` |
| `StraysAreStale` | `OnlyStaleWritesStray` |
| `ServedAsWritten` (`ServiceProofs`) | `[]ServedIsDisk` |
| `PromiseKept` (`ServiceProofs`) | `ServiceSpec`: `ConfigWrites` implements `ConfigService` |

They assume `ConfigAssumption` only: the calls are well formed and the entries that
were there at the start have no author among the requests. None of the properties is
inductive. A script writes what it loaded some time ago, so the invariant has to say
what every copy holds, not only the file. `IInv` has these parts:

- `TaskInv`: a request that waits has passed the gate and the validators;
- `FreshInv`: a script its task has yet to send does not exist, so none is sent twice;
- `ScriptInv`: what a script has done by each stage, and which word it can have printed;
- `VersionInv`: a copy is a past version no older than its request, and what a script
  wrote is one entry longer or shorter than what it loaded;
- `ContentInv`: the file and every copy hold no entry twice, none that nobody asked for,
  and none of a script that has yet to write. The last is why writing a stale copy back
  cannot make a duplicate;
- `AnswerInv`: only the word of a script that wrote makes an answer ok.

`RouterConfigProofs` has the lemmas about the lists: what `RemoveAt` leaves, that the
first match is one, that an edit keeps the type, which entries it adds or removes.

`ServiceProofs` adds two invariants to `IInv`. `ServedInv`: while no two scripts overlap
there is one at a time, its copy is the file, and only its section may wait to be
reconfigured. `ReplyInv`: a request that goes on has no answer. The refinement has one
lemma for each kind of step: an arrival is `Open`, a write is `Apply` to the version that the
script loaded (`VersionInv` says it is no older than the request), a return is `AnswerOk`,
`AnswerError` or a stutter, all else a stutter. The words of `RouterConfig` on both levels
(`SameWords`, `SameEdits`) have to be shown equal, because `INSTANCE` makes copies of them.

For any interfaces, readers, width and traffic (`BandwidthProofs`): `TypeCorrect`,
`NoPhantomTraffic` (`NeverOverstates`) and `Coherent` (`ViewIsCoherent`). The invariant
`Covered` says that since a whole reading of an interface its counter has risen by no more
than what has passed: a wrap and a reboot only lower it. `CoherentInv` says that the first
reading gives no rate, so a rate has seen an earlier `touch`, and that a failure takes the
rates away in the step that sets the error; that is why two locks are enough.

For any lines, in any number, and any pipe (`McpServerProofs`): `TypeCorrect`,
`AnsweredInOrder`, `OnlyWholeCalls` and `TwoInDoubt`. `StageInv` says that a line that is
called or answered deserves it, `ReachedInv` that no line beyond the one at hand has reached
the router, and that one only after it was sent. tokio holds one answer at most (`TypeOK`),
so that two calls are the most a listening host can be in doubt about.

For any log (`LeasesProofs`): `OneOfEachClient`. Of a `dhcpd.leases` of any length, cut
after any line, `parse_isc_leases` returns leases of the log, one a client, and of a whole log
one of every client: of its leases that end, one that ends last. That need not be the newest,
and one that never ends gives way to any that ends. The proof follows the file block by block. A block
is appended as its lines, one by one, and after each the loop is inside the block with what
has come of it (`BlockRead`); only the closing brace adds a lease, so a log that ends earlier
has all the blocks before it and nothing of this one (`Parser`). A second induction, over the
leases, says that `Keep` never lets one go but for one that ends as late (`Deduplicated`).
The induction theorems of the library cannot be used with the provers at hand, which do not
instantiate an operator; `Induction` has the principles for sets instead: a set of naturals
has a least one (`LeastPosition`), a set with `<<>>` that is closed under `Append` has every
list (`ListInduction`), and `Folded` is unfolded by the last element (`FoldedList`).

For any writers of the promise, lists, logs, ARP tables, servers and losses (`ViewsProofs`):

| theorem | establishes |
|---|---|
| `TypeCorrect` | `[]TypeOK` |
| `Authentic` | `[]NothingInvented` |
| `WholeAnswers` | `[]WholeViewIsExact` |
| `OneLease` | `[]OneLeaseAClient` |
| `Degradation` | `[]PageDegrades` |

They assume `ConfigAssumption`, `LeasesAssumption`, `ViewsAssumption` and
`ViewNamesAssumption`: the lists are lists of what they should hold. `WholeViewIsExact` speaks
of the answer only, so the invariant has to say what is true on the way to it:

- `ConfigInv`, `ReadInv`: versions are configurations and are never taken back; the view
  began at one of them; nothing is shown before it; a WAN that was read as up was up;
- `PlaceInv`: the view is at one of its methods and the method at one of its commands, and
  each method comes once (`MethodsOnce`), so no later method overwrites what an earlier one
  returned;
- `LeasesInv`: the leases shown are in the log and one a client;
- `HarmInv`: as long as nothing was lost no method is harmed; a method that failed shows
  nothing, and either it ended the view or it is one the page can do without; a method that
  has not returned shows nothing but the VPN servers it has come to (`HalfShown`);
- `ExactInv`: the methods that returned and lost nothing show exactly what they should
  (`ShownExact`), and the method at hand, if it has lost nothing so far, has read exactly what
  its commands gave (`ReadExact`): the ARP table and a log no older than the request, the
  clients of the servers that were asked, the name and the state of the WAN. It is stated for
  each method by itself: that is what makes `PageDegrades` follow beside `WholeViewIsExact`.

`StaysExact` says that what was exact stays so while requests edit the file, `dhcpd` appends
and the link changes; `ReturnsExact`, `GoesOnExact` and `VpnExactly` that a command adds
nothing else. TLC checked the invariants on the instance of `Views` before they were proved.

**Only model-checked:** the liveness properties (`EveryRequestEnds`, `OutageShows`,
`RatesReturn`, `EveryRequestAnswered`, `EndsAfterClose`, `EveryViewEnds`), which are out of
the prover's reach. Every other property of the passing runs is a theorem. That the views may
be composed with the write path rests on `PromiseKept` and on the two sharing no variable
besides those of `ConfigService`; the composed specification itself is not written down.

## Not modelled

- What `POST /pfsense/php`, `php_exec` and `ssh_command` do to the router, and edits on the
  router's own pages during a request: they may change anything, and no property of the app
  survives them.
- Descriptions, escaping, JSON, XML and regex text, schemas, the descriptor of the page and
  the rendering of its rows, logging.
- How `connect` picks key or password: one failure with one of two errors.
- Times: an age is there or not, a rate is a number of bytes, an end time a number.
- The interfaces of a router whose file names no WAN or LAN; a cut file gives the fallback
  names in the models too.
- The ARP table, the VPN servers and their clients stay as they are during a view.
- Which of two leases of one address names a device: the order of a `HashMap`; either may.
- Answers longer than tokio's buffer, which go to the pipe in parts.
- Settings and start-up: read once, before anything else.
- Single routes: `Admission` is one operator for all write routes, so one that took `Caller`
  where `AdminCaller` should stand is not expressible. That is what `admin_gate_test.rs` tests,
  route by route. `OnlyAskedFor` is about something else: that gate, validators and scripts
  together let nothing into `config.xml` that was not asked for.

## Plan

Done, in this order: `RouterConfig`, `ConfigWrites` with `ConfigService`, their theorems,
`Bandwidth` with its theorems; then `McpServer` with its theorems, `Leases` and `Views`, the
refinement, and `ServedIsDisk`, `ViewIsCoherent` and `NothingInvented` as theorems; then the
parser of the leases and the other safety properties of `Views`. What is left:

1. `Views` beside `ConfigWrites` itself, with `Spec` of `Views` as a property of the composition,
   so that the step from one to the other is a theorem too.
2. Age and freshness in `Bandwidth`: what a client can tell from `age_secs` when outputs
   come without a usable row.
3. `McpServer` over `ConfigWrites`: the host that kills the process and starts another, and
   what the two calls in doubt may do after that. `ConfigWrites` has the lost task and
   `AtMostTwoInDoubt` the number of them; the composition would join the two.
4. The parser of a `config.xml` that is cut, over a sequence of tags. `CutOverrides` has what it
   lists of a file cut inside `<unbound>`, as an operator of its own.
