---------------------------- MODULE ConfigWrites ----------------------------
(***************************************************************************)
(* The write path of leo-pfsense-app, from the HTTP handler or MCP tool    *)
(* call that asks for an edit, through the SSH channel of run_command, to  *)
(* the PHP script on the router that makes it.                             *)
(*                                                                         *)
(* A request is a task of the app: it validates, connects, sends one       *)
(* script and awaits its output; PUT /dns/overrides does so twice.  The    *)
(* script is a process of its own on the router.  It loads config.xml,     *)
(* edits its copy, writes all of it back, reconfigures the service and     *)
(* prints one word.  Nothing orders the scripts of two requests, and       *)
(* nothing stops a script whose task has gone: the channel may be lost, or *)
(* the client may hang up, at any moment.                                  *)
(***************************************************************************)
EXTENDS RouterConfig

VARIABLES
    \* the app
    pc,         \* pc[r]: "idle", "connecting", "waiting", "replied", "cancelled"
    call,       \* call[r]: what r asks for, NoCall before it arrives
    step,       \* step[r]: the service method r is in
    reply,      \* reply[r]: what the caller was answered
    \* the scripts on the router
    stage,      \* stage[s]: how far script s has come
    config,     \* config[s]: its copy of the configuration, $config
    output,     \* output[s]: what it printed
    \* the router
    disk,       \* config.xml
    served,     \* what unbound and dhcpd were last configured with
    \* history, which no action reads to decide anything
    versions,   \* every content config.xml has had
    since,      \* since[r]: Len(versions) when r arrived
    base,       \* base[s]: Len(versions) when s loaded its copy
    wrote,      \* wrote[s]: Len(versions) after s wrote, 0 before
    overlapped  \* two scripts were on the router at one time

taskVars == <<pc, call, step, reply, since>>
scriptVars == <<stage, config, output, base, wrote>>
routerVars == <<disk, served, versions>>
vars == <<taskVars, scriptVars, routerVars, overlapped>>

Replies == {"none", "ok", "bad_request", "unauthorized", "forbidden",
            "bad_gateway", "tool_error"}
Stages == {"unborn", "sent", "loaded", "written", "configured", "exited", "died"}
Outputs == {"", "OK", "DELETED", "NOT_FOUND"}
Live == {"sent", "loaded", "written", "configured"}

Init ==
    /\ pc = [r \in Requests |-> "idle"]
    /\ call = [r \in Requests |-> NoCall]
    /\ step = [r \in Requests |-> "add"]
    /\ reply = [r \in Requests |-> "none"]
    /\ since = [r \in Requests |-> 0]
    /\ stage = [s \in Scripts |-> "unborn"]
    /\ config = [s \in Scripts |-> InitialConfig]
    /\ output = [s \in Scripts |-> ""]
    /\ base = [s \in Scripts |-> 0]
    /\ wrote = [s \in Scripts |-> 0]
    /\ disk = InitialConfig
    /\ served = [sec \in Services |-> InitialConfig[sec]]
    /\ versions = <<InitialConfig>>
    /\ overlapped = FALSE

---------------------------------------------------------------------------
(* The app: src/src/auth.rs, routes.rs, mcp.rs and pfsense.rs.             *)

\* Faulty: Caller where AdminCaller should stand.
AdmitsMembers(c) == IF c.caller = "anonymous" THEN "unauthorized" ELSE "admitted"

\* The gate: AdminCaller stands before every write route, nothing before MCP.
Admission(c) ==
    CASE c.caller = "anonymous" -> "unauthorized"
      [] c.caller = "member" -> "forbidden"
      [] OTHER -> "admitted"

\* What a service method may return.  Ok(()) and Ok(true) are "done",
\* Ok(false) is "absent", the rest are the variants of Error.
Results == {"done", "absent", "validation", "ssh", "auth", "other"}

\* The status of each error in Error::into_response.
StatusOf(result) ==
    CASE result = "validation" -> "bad_request"
      [] result = "auth" -> "unauthorized"
      [] OTHER -> "bad_gateway"

\* Faulty: whatever is not a refusal is a success.
ResultUnlessNotFound(st, out) == IF out = "NOT_FOUND" THEN "absent" ELSE "done"

\* add_* and delete_* decide on the output alone; the exit code is not read.
ResultOf(st, out) ==
    IF st = "add"
    THEN IF out = "OK" THEN "done" ELSE "other"
    ELSE IF out = "DELETED" THEN "done" ELSE "absent"

\* Faulty: the result of the service method is the answer.
AnswerUnmapped(c, result) == result

\* delete_dhcp_static drops the bool, delete_dns turns false into an error.
AnswerTo(c, result) ==
    IF c.caller = "host"
    THEN IF result = "done" THEN "ok" ELSE "tool_error"
    ELSE IF result = "done" \/ (result = "absent" /\ c.section = "lan")
         THEN "ok"
         ELSE StatusOf(result)

\* r goes on to method st: validate, then connect.  A validator's refusal is
\* the answer.  The add of an update validates all the delete does and more,
\* so a refused delete, though ignored, is a refused update.
Enter(r, c, st) ==
    /\ step' = [step EXCEPT ![r] = st]
    /\ IF Accepts(c, st)
       THEN /\ pc' = [pc EXCEPT ![r] = "connecting"]
            /\ UNCHANGED reply
       ELSE /\ pc' = [pc EXCEPT ![r] = "replied"]
            /\ reply' = [reply EXCEPT ![r] = AnswerTo(c, "validation")]

Arrive(r) ==
    /\ pc[r] = "idle"
    /\ \E c \in CallsOf[r] :
        /\ call' = [call EXCEPT ![r] = c]
        /\ IF Admission(c) = "admitted"
           THEN Enter(r, c, FirstStep(c))
           ELSE /\ pc' = [pc EXCEPT ![r] = "replied"]
                /\ reply' = [reply EXCEPT ![r] = Admission(c)]
                /\ UNCHANGED step
    /\ since' = [since EXCEPT ![r] = Len(versions)]
    /\ UNCHANGED <<scriptVars, routerVars, overlapped>>

\* Method step[r] has returned: an update goes on whatever its delete
\* returned, all else answers.
Return(r, result) ==
    IF step[r] # LastStep(call[r])
    THEN Enter(r, call[r], LastStep(call[r]))
    ELSE /\ pc' = [pc EXCEPT ![r] = "replied"]
         /\ reply' = [reply EXCEPT ![r] = AnswerTo(call[r], result)]
         /\ UNCHANGED step

\* connect, the channel or the exec request fails: the script is not sent.
ConnectFails(r) ==
    /\ pc[r] = "connecting"
    /\ \E result \in {"ssh", "auth"} : Return(r, result)
    /\ UNCHANGED <<call, since, scriptVars, routerVars, overlapped>>

SendScript(r) ==
    /\ pc[r] = "connecting"
    /\ pc' = [pc EXCEPT ![r] = "waiting"]
    /\ stage' = [stage EXCEPT ![<<r, step[r]>>] = "sent"]
    /\ overlapped' = (overlapped \/ \E s \in Scripts : stage[s] \in Live)
    /\ UNCHANGED <<call, step, reply, since, config, output, base, wrote, routerVars>>

\* channel.wait() returns None after all of the output.
OutputEnds(r) ==
    /\ pc[r] = "waiting"
    /\ stage[<<r, step[r]>>] = "exited"
    /\ Return(r, ResultOf(step[r], output[<<r, step[r]>>]))
    /\ UNCHANGED <<call, since, scriptVars, routerVars, overlapped>>

\* Faulty: wait only ends with the script, there is no inactivity_timeout.
OutputLostOnDeathOnly(r) ==
    /\ pc[r] = "waiting"
    /\ stage[<<r, step[r]>>] = "died"
    /\ Return(r, ResultOf(step[r], ""))
    /\ UNCHANGED <<call, since, scriptVars, routerVars, overlapped>>

\* Faulty: a lost script is sent once more.
OutputLostResends(r) ==
    /\ pc[r] = "waiting"
    /\ stage' = [stage EXCEPT ![<<r, step[r]>>] = "sent"]
    /\ UNCHANGED <<taskVars, config, output, base, wrote, routerVars, overlapped>>

\* channel.wait() returns None before: the connection broke, was silent for
\* the 30 s of inactivity_timeout, or the script died.  run_command returns
\* Ok with what it has, which is nothing: the scripts print one word, last.
OutputLost(r) ==
    /\ pc[r] = "waiting"
    /\ Return(r, ResultOf(step[r], ""))
    /\ UNCHANGED <<call, since, scriptVars, routerVars, overlapped>>

\* The client of the HTTP request hangs up, or the process ends.
Cancel(r) ==
    /\ pc[r] \in {"connecting", "waiting"}
    /\ pc' = [pc EXCEPT ![r] = "cancelled"]
    /\ UNCHANGED <<call, step, reply, since, scriptVars, routerVars, overlapped>>

---------------------------------------------------------------------------
(* The router: the PHP that add_* and delete_* format.                     *)

\* Faulty: the script edits the configuration the app once read.
LoadCached(s) ==
    /\ stage[s] = "sent"
    /\ stage' = [stage EXCEPT ![s] = "loaded"]
    /\ config' = [config EXCEPT ![s] = versions[1]]
    /\ base' = [base EXCEPT ![s] = Len(versions)]
    /\ UNCHANGED <<output, wrote, taskVars, routerVars, overlapped>>

\* require_once('config.inc')
LoadConfig(s) ==
    /\ stage[s] = "sent"
    /\ stage' = [stage EXCEPT ![s] = "loaded"]
    /\ config' = [config EXCEPT ![s] = disk]
    /\ base' = [base EXCEPT ![s] = Len(versions)]
    /\ UNCHANGED <<output, wrote, taskVars, routerVars, overlapped>>

\* write_config() writes the whole of $config.
WriteConfig(s) ==
    /\ stage[s] = "loaded"
    /\ Edits(config[s], call[s[1]], s[2])
    /\ LET new == Edited(config[s], call[s[1]], s[2], s[1]) IN
        /\ config' = [config EXCEPT ![s] = new]
        /\ disk' = new
        /\ versions' = Append(versions, new)
    /\ stage' = [stage EXCEPT ![s] = "written"]
    /\ wrote' = [wrote EXCEPT ![s] = Len(versions) + 1]
    /\ UNCHANGED <<output, base, served, taskVars, overlapped>>

\* Faulty: every script ends with services_unbound_configure().
ReconfigureUnbound(s) ==
    /\ stage[s] = "written"
    /\ stage' = [stage EXCEPT ![s] = "configured"]
    /\ served' = [served EXCEPT !["dns"] = config[s]["dns"]]
    /\ UNCHANGED <<config, output, base, wrote, disk, versions, taskVars, overlapped>>

\* services_unbound_configure(), services_dhcpd_configure()
Reconfigure(s) ==
    /\ stage[s] = "written"
    /\ stage' = [stage EXCEPT ![s] = "configured"]
    /\ served' = [served EXCEPT ![call[s[1]].section] = config[s][call[s[1]].section]]
    /\ UNCHANGED <<config, output, base, wrote, disk, versions, taskVars, overlapped>>

Echo(s) ==
    /\ stage[s] = "configured"
    /\ stage' = [stage EXCEPT ![s] = "exited"]
    /\ output' = [output EXCEPT ![s] = IF s[2] = "add" THEN "OK" ELSE "DELETED"]
    /\ UNCHANGED <<config, base, wrote, taskVars, routerVars, overlapped>>

EchoNotFound(s) ==
    /\ stage[s] = "loaded"
    /\ ~Edits(config[s], call[s[1]], s[2])
    /\ stage' = [stage EXCEPT ![s] = "exited"]
    /\ output' = [output EXCEPT ![s] = "NOT_FOUND"]
    /\ UNCHANGED <<config, base, wrote, taskVars, routerVars, overlapped>>

\* The script ends early: a PHP error, a signal, or it never got the command.
Die(s) ==
    /\ stage[s] \in Live
    /\ stage' = [stage EXCEPT ![s] = "died"]
    /\ UNCHANGED <<config, output, base, wrote, taskVars, routerVars, overlapped>>

---------------------------------------------------------------------------
Await(r) == ConnectFails(r) \/ SendScript(r) \/ OutputEnds(r) \/ OutputLost(r)

Script(s) ==
    \/ LoadConfig(s) \/ WriteConfig(s) \/ Reconfigure(s)
    \/ Echo(s) \/ EchoNotFound(s) \/ Die(s)

Next ==
    \/ \E r \in Requests : Arrive(r) \/ Await(r) \/ Cancel(r)
    \/ \E s \in Scripts : Script(s)

Spec == Init /\ [][Next]_vars

\* connect ends one way or the other, and inactivity_timeout ends every wait.
\* Nothing makes a script on the router go on.
Fairness == \A r \in Requests : WF_vars(Await(r))

FairSpec == Spec /\ Fairness
---------------------------------------------------------------------------
(* Properties.                                                             *)

\* Every variable keeps its type.
TypeOK ==
    /\ pc \in [Requests -> {"idle", "connecting", "waiting", "replied", "cancelled"}]
    /\ call \in [Requests -> Call \cup {NoCall}]
    /\ step \in [Requests -> Steps]
    /\ reply \in [Requests -> Replies]
    /\ since \in [Requests -> Nat]
    /\ stage \in [Scripts -> Stages]
    /\ config \in [Scripts -> Config]
    /\ output \in [Scripts -> Outputs]
    /\ base \in [Scripts -> Nat]
    /\ wrote \in [Scripts -> Nat]
    /\ disk \in Config
    /\ served \in [Services -> Seq(Entry)]
    /\ versions \in Seq(Config)
    /\ overlapped \in BOOLEAN

\* Whatever is in config.xml and was not there at the start is what an admin
\* or the MCP host asked for, accepted by the validators and put where it was
\* asked for (AdminCaller, validate_*, the add scripts).
AskedFor(e, sec) ==
    LET c == call[e.by] IN
    /\ c.caller \in {"admin", "host"}
    /\ c.kind # "delete"
    /\ Accepts(c, "add")
    /\ e.name = c.name /\ e.value = c.value /\ sec = c.section
OnlyAskedFor ==
    \A sec \in Sections : \A i \in DOMAIN disk[sec] :
        disk[sec][i].by # NoRequest => AskedFor(disk[sec][i], sec)

\* No request leaves two entries in config.xml, however its channels fail and
\* whichever stale copies of the configuration are written back.
NoneTwice(cfg) ==
    \A sec1, sec2 \in Sections :
        \A i \in DOMAIN cfg[sec1], j \in DOMAIN cfg[sec2] :
            (cfg[sec1][i].by = cfg[sec2][j].by /\ cfg[sec1][i].by # NoRequest)
                => sec1 = sec2 /\ i = j
AtMostOnce == NoneTwice(disk)

\* DELETE /dhcp/static answers ok whatever its script found or printed; every
\* other ok is meant to say that the edit was made.
Promises(c) == ~(c.kind = "delete" /\ c.section = "lan" /\ c.caller # "host")

\* "ok" is the truth: the script of the request's last method has loaded a
\* configuration no older than the request, written it with one entry more
\* (add) or less (delete), reconfigured the service and ended, although
\* run_command takes a lost connection for the end of the output.
OkMeansEdited ==
    \A r \in Requests :
        LET c == call[r]
            s == <<r, LastStep(c)>>
        IN reply[r] = "ok" /\ Promises(c) =>
            /\ stage[s] = "exited"
            /\ since[r] <= base[s]
            /\ base[s] < wrote[s]
            /\ Len(versions[wrote[s]][c.section])
                 = Len(versions[base[s]][c.section]) + (IF s[2] = "add" THEN 1 ELSE -1)

\* A write removes an entry it was not asked to delete, or brings in one that
\* it was not asked to add, only if config.xml changed after the script had
\* loaded its copy (the scripts take no lock around load and write_config).
Step_OnlyStaleWritesStray ==
    \A s \in Scripts : wrote'[s] # wrote[s] /\ base[s] = Len(versions) =>
        LET c == call[s[1]] IN
        \A sec \in Sections :
            /\ \A e \in EntriesIn(disk, sec) \ EntriesIn(disk', sec) :
                    s[2] = "delete" /\ sec = c.section /\ e.name = c.name
            /\ \A e \in EntriesIn(disk', sec) \ EntriesIn(disk, sec) :
                    s[2] = "add" /\ sec = c.section /\ e.by = s[1]
OnlyStaleWritesStray == [][Step_OnlyStaleWritesStray]_vars

\* Once the router is quiet, unbound and dhcpd run what config.xml says,
\* unless two scripts were on the router at a time (their reconfigurations
\* may come in another order than their writes) or one died in between.
ServedIsDisk ==
    (/\ ~overlapped
     /\ \A s \in Scripts : stage[s] \notin Live
     /\ \A s \in Scripts : stage[s] = "died" => wrote[s] = 0)
        => \A sec \in Services : served[sec] = disk[sec]

\* Every request that was admitted is answered or given up by its client,
\* even if its script hangs: inactivity_timeout ends the wait.
EveryRequestEnds ==
    \A r \in Requests :
        pc[r] \in {"connecting", "waiting"} ~> pc[r] \in {"replied", "cancelled"}

\* The write path implements the promise of ConfigService.
Service == INSTANCE ConfigService WITH
    answers <- [r \in Requests |-> IF reply[r] \in {"none", "ok"} THEN reply[r] ELSE "error"],
    applied <- {s \in Scripts : wrote[s] > 0}
ServiceSpec == Service!ConfigServiceSpec
=============================================================================
