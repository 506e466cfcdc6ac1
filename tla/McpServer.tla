----------------------------- MODULE McpServer -----------------------------
(***************************************************************************)
(* The MCP process of leo-pfsense-app (src/src/mcp.rs): a loop that reads  *)
(* one JSON-RPC message a line from stdin, makes at most one call of       *)
(* PfSenseService of it, and writes one answer a line to stdout.  The host *)
(* at the other end may write ahead of the answers, close stdin, stop      *)
(* reading stdout or kill the process at any moment.                       *)
(*                                                                         *)
(* write_all of tokio's stdout returns when its buffer has the answer, and *)
(* nothing here calls flush: a thread of tokio's writes it to the pipe     *)
(* while the loop is at the next line already.                             *)
(*                                                                         *)
(* A line is what the loop can tell of it.  The content of an answer is    *)
(* left out, except whether it is a result, a tool's error (isError) or an *)
(* error of the protocol.                                                  *)
(***************************************************************************)
EXTENDS Naturals, Sequences, FiniteSets

CONSTANTS
    Ids,        \* what a host uses as an id
    Null,       \* no id, or null
    Lines,      \* the lines the host may write
    MaxLines,   \* bound: how many it writes
    PipeSize    \* how many answers stdout holds before the host reads one

NetworkActions == {
    "get_dashboard", "get_devices", "get_dhcp_leases",
    "get_dhcp_static_mappings", "add_dhcp_static_mapping",
    "delete_dhcp_static_mapping", "get_dns_overrides", "add_dns_override",
    "delete_dns_override", "get_vpn_status", "get_wan_info", "get_lan_info",
    "get_haproxy_config"}

SshActions == {"ssh_command", "php_exec", "read_config"}

\* What they run on the router is the caller's, and may never end.
OpenEnded == {"ssh_command", "php_exec"}

\* The arms of dispatch.
ActionsOf(tool) ==
    CASE tool = "network" -> NetworkActions
      [] tool = "pfsense_ssh" -> SshActions
      [] OTHER -> {}

\* "absent" is null too, "other" a value that is not a string.
Fields == {"mac", "ip", "hostname", "host", "domain", "command", "code"}
Given == {"absent", "empty", "text", "other"}

\* "binary" is not UTF-8.  A method, tool or action "other" is one the code
\* does not know; the action "none" is one that is missing or not a string.
Line == [form : {"blank", "garbage", "binary", "json"},
         id : Ids \cup {Null},
         method : {"initialize", "tools/list", "tools/call", "other"},
         tool : {"network", "pfsense_ssh", "other"},
         action : NetworkActions \cup SshActions \cup {"none", "other"},
         fields : [Fields -> Given]]

ASSUME McpAssumption ==
    /\ Null \notin Ids
    /\ Lines \subseteq Line
    /\ MaxLines \in Nat
    /\ PipeSize \in Nat \ {0}

VARIABLES
    \* the host
    written,    \* the lines it has written to stdin
    closed,     \* it has closed stdin
    listening,  \* it holds its end of stdout open
    taken,      \* how many answers it has read
    \* the loop
    stage,      \* "reading", "calling", "running", "endless", "answering",
                \* "ended" the loop, "exited" the process, "killed"
    pos,        \* the line the loop is at
    outcome,    \* what the line it is at will be answered
    answers,    \* what write_all has taken, each with the line it is to
    piped,      \* how many of them tokio has got into the pipe: all, or all but one
    \* history
    reached     \* the lines whose calls sent something to the router

hostVars == <<written, closed, listening, taken>>
loopVars == <<stage, pos, outcome, answers, piped>>
vars == <<hostVars, loopVars, reached>>

Outcomes == {"none", "result", "tool_error", "parse_error", "method_not_found"}
Answer == [to : Nat \ {0}, id : Ids \cup {Null}, outcome : Outcomes]

Init ==
    /\ written = <<>>
    /\ closed = FALSE
    /\ listening = TRUE
    /\ taken = 0
    /\ stage = "reading"
    /\ pos = 1
    /\ outcome = "none"
    /\ answers = <<>>
    /\ piped = 0
    /\ reached = <<>>

---------------------------------------------------------------------------
(* The host.                                                               *)

WriteLine ==
    /\ ~closed
    /\ Len(written) < MaxLines
    /\ \E line \in Lines : written' = Append(written, line)
    /\ UNCHANGED <<closed, listening, taken, loopVars, reached>>

CloseInput ==
    /\ ~closed
    /\ closed' = TRUE
    /\ UNCHANGED <<written, listening, taken, loopVars, reached>>

ReadAnswer ==
    /\ listening
    /\ taken < piped
    /\ taken' = taken + 1
    /\ UNCHANGED <<written, closed, listening, loopVars, reached>>

StopListening ==
    /\ listening
    /\ listening' = FALSE
    /\ UNCHANGED <<written, closed, taken, loopVars, reached>>

Kill ==
    /\ stage \notin {"exited", "killed"}
    /\ stage' = "killed"
    /\ UNCHANGED <<hostVars, pos, outcome, answers, piped, reached>>

---------------------------------------------------------------------------
(* The loop.                                                               *)

\* Faulty: a notification is taken for a request.
AnyJson(line) == line.form = "json"

\* A message with an id.  An array of messages has none.
IsRequest(line) == line.form = "json" /\ line.id # Null

\* validate.
Required(tool, action) ==
    CASE tool = "network" /\ action = "add_dhcp_static_mapping" -> {"mac", "ip", "hostname"}
      [] tool = "network" /\ action = "delete_dhcp_static_mapping" -> {"mac"}
      [] tool = "network" /\ action = "add_dns_override" -> {"host", "domain", "ip"}
      [] tool = "network" /\ action = "delete_dns_override" -> {"host", "domain"}
      [] tool = "pfsense_ssh" /\ action = "ssh_command" -> {"command"}
      [] tool = "pfsense_ssh" /\ action = "php_exec" -> {"code"}
      [] OTHER -> {}

\* Faulty: a field that is there is enough.
HasFieldsMaybeEmpty(line) ==
    \A f \in Required(line.tool, line.action) : line.fields[f] # "absent"

HasFields(line) ==
    \A f \in Required(line.tool, line.action) : line.fields[f] \notin {"absent", "empty"}

\* What get_str makes of the fields the arm reads: "" of all but a string.
EmptyArguments(line) ==
    {f \in Required(line.tool, line.action) : line.fields[f] # "text"}

\* The service is called.
IsCall(line) ==
    /\ line.method = "tools/call"
    /\ line.action \in ActionsOf(line.tool)
    /\ HasFields(line)

\* What is answered when it is not.
Direct(line) ==
    CASE line.method \in {"initialize", "tools/list"} -> "result"
      [] line.method = "tools/call" -> "tool_error"
      [] OTHER -> "method_not_found"

HasLine == stage = "reading" /\ pos <= Len(written)

\* Faulty: the line after a blank one is swallowed.
SkipTwo ==
    /\ HasLine
    /\ written[pos].form \in {"blank", "json"}
    /\ ~IsRequest(written[pos])
    /\ pos' = pos + 2
    /\ UNCHANGED <<hostVars, stage, outcome, answers, piped, reached>>

SkipLine ==
    /\ HasLine
    /\ written[pos].form \in {"blank", "json"}
    /\ ~IsRequest(written[pos])
    /\ pos' = pos + 1
    /\ UNCHANGED <<hostVars, stage, outcome, answers, piped, reached>>

ReadGarbage ==
    /\ HasLine
    /\ written[pos].form = "garbage"
    /\ stage' = "answering"
    /\ outcome' = "parse_error"
    /\ UNCHANGED <<hostVars, pos, answers, piped, reached>>

ReadRequest ==
    /\ HasLine
    /\ IsRequest(written[pos])
    /\ IF IsCall(written[pos])
       THEN /\ stage' = "calling"
            /\ UNCHANGED outcome
       ELSE /\ stage' = "answering"
            /\ outcome' = Direct(written[pos])
    /\ UNCHANGED <<hostVars, pos, answers, piped, reached>>

\* next_line fails on a line that is not UTF-8, and the loop ends.
EndUnreadable ==
    /\ HasLine
    /\ written[pos].form = "binary"
    /\ stage' = "ended"
    /\ UNCHANGED <<hostVars, pos, outcome, answers, piped, reached>>

\* Faulty: the end of stdin is seen before the lines it still holds.
EndWithoutDraining ==
    /\ stage = "reading"
    /\ closed
    /\ stage' = "ended"
    /\ UNCHANGED <<hostVars, pos, outcome, answers, piped, reached>>

\* Faulty: the end of stdin is taken for a blank line.
EndIsBlank ==
    /\ stage = "reading"
    /\ closed
    /\ pos > Len(written)
    /\ UNCHANGED vars

EndClosed ==
    /\ stage = "reading"
    /\ closed
    /\ pos > Len(written)
    /\ stage' = "ended"
    /\ UNCHANGED <<hostVars, pos, outcome, answers, piped, reached>>

\* The service refuses what its validators refuse, "" for one, and connect
\* may fail: nothing has been sent.  ssh_command and php_exec validate nothing.
CallFails ==
    /\ stage = "calling"
    /\ stage' = "answering"
    /\ outcome' = "tool_error"
    /\ UNCHANGED <<hostVars, pos, answers, piped, reached>>

\* Faulty: the call is spawned, and the next line read.
SendsAndGoesOn ==
    /\ stage = "calling"
    /\ stage' = "reading"
    /\ pos' = pos + 1
    /\ reached' = Append(reached, pos)
    /\ UNCHANGED <<hostVars, outcome, answers, piped>>

CallSends ==
    /\ stage = "calling"
    /\ written[pos].tool = "network" => EmptyArguments(written[pos]) = {}
    /\ stage' = "running"
    /\ reached' = Append(reached, pos)
    /\ UNCHANGED <<hostVars, pos, outcome, answers, piped>>

\* Ok, Ok(false) and Err of the service.
CallEnds ==
    /\ stage = "running"
    /\ stage' = "answering"
    /\ outcome' \in {"result", "tool_error"}
    /\ UNCHANGED <<hostVars, pos, answers, piped, reached>>

\* The answer to garbage has the id null.
IdOf(line) == IF line.form = "garbage" THEN Null ELSE line.id

\* write_all waits for the write before it, and the loop goes on.
WriteAnswer ==
    /\ stage = "answering"
    /\ listening
    /\ piped = Len(answers)
    /\ answers' = Append(answers, [to |-> pos, id |-> IdOf(written[pos]), outcome |-> outcome])
    /\ stage' = "reading"
    /\ pos' = pos + 1
    /\ UNCHANGED <<hostVars, outcome, piped, reached>>

\* Nobody holds the other end: write_all fails, or its thread does.  The loop
\* goes on either way.
WriteFails ==
    /\ stage = "answering"
    /\ ~listening
    /\ stage' = "reading"
    /\ pos' = pos + 1
    /\ UNCHANGED <<hostVars, outcome, answers, piped, reached>>

---------------------------------------------------------------------------
(* Around the loop.                                                        *)

\* tokio's thread writes what write_all has taken when the pipe has room,
\* until the process is gone.
Flush ==
    /\ stage \notin {"exited", "killed"}
    /\ listening
    /\ piped < Len(answers)
    /\ piped - taken < PipeSize
    /\ piped' = piped + 1
    /\ UNCHANGED <<hostVars, stage, pos, outcome, answers, reached>>

\* main returns: tokio promises nothing of an answer that is not flushed, and
\* one that is still in the buffer may be lost.
Exit ==
    /\ stage = "ended"
    /\ stage' = "exited"
    /\ UNCHANGED <<hostVars, pos, outcome, answers, piped, reached>>

\* run_command stops at the end of the output or after 30 s without any, and
\* a command that goes on printing gives it neither.
NeverEnds ==
    /\ stage = "running"
    /\ written[pos].action \in OpenEnded
    /\ stage' = "endless"
    /\ UNCHANGED <<hostVars, pos, outcome, answers, piped, reached>>

---------------------------------------------------------------------------
Host == WriteLine \/ CloseInput \/ ReadAnswer \/ StopListening \/ Kill

Loop ==
    \/ SkipLine \/ ReadGarbage \/ ReadRequest \/ EndUnreadable \/ EndClosed
    \/ CallFails \/ CallSends \/ CallEnds \/ WriteAnswer \/ WriteFails

Next == Host \/ Loop \/ Flush \/ Exit \/ NeverEnds

\* The loop never sleeps, and a call whose command ends or falls silent ends,
\* by the inactivity_timeout of its connection.  tokio writes what it holds,
\* and a host that listens reads what it is answered.
Fairness == WF_vars(Loop) /\ WF_vars(Flush) /\ WF_vars(Exit) /\ WF_vars(ReadAnswer)

Spec == Init /\ [][Next]_vars
FairSpec == Spec /\ Fairness
---------------------------------------------------------------------------
(* Properties.                                                             *)

\* Every variable keeps its type, the loop is at a line that is there, and
\* tokio holds one answer at most.
TypeOK ==
    /\ written \in Seq(Line)
    /\ closed \in BOOLEAN
    /\ listening \in BOOLEAN
    /\ taken \in 0 .. piped
    /\ stage \in {"reading", "calling", "running", "endless", "answering",
                  "ended", "exited", "killed"}
    /\ pos \in 1 .. Len(written) + 1
    /\ outcome \in Outcomes
    /\ answers \in Seq(Answer)
    /\ piped \in {Len(answers), Len(answers) - 1}
    /\ reached \in Seq(Nat \ {0})

\* JSON-RPC: a request is answered under its id, a line that does not parse
\* under null, a notification not at all.
Deserves(line) == line.form = "garbage" \/ (line.form = "json" /\ line.id # Null)

\* write_all has taken its answer; it is in the pipe.
Handed(i) == \E k \in DOMAIN answers : answers[k].to = i
Answered(i) == \E k \in 1 .. piped : answers[k].to = i

\* The host may pair answers with what it wrote by order alone: each line that
\* deserves an answer gets one, under its own id and in its turn, whatever
\* notifications, blank lines and garbage stand between, however slowly the
\* host reads; the others get none (run).  What is in the pipe is all of it,
\* or all but the last.
AnswersInOrder ==
    /\ \A k \in DOMAIN answers :
        LET line == written[answers[k].to] IN
        /\ answers[k].to < pos
        /\ Deserves(line)
        /\ line.form = "json" => answers[k].id = line.id
        /\ line.form = "garbage" => answers[k].id = Null
    /\ \A j, k \in DOMAIN answers : j < k => answers[j].to < answers[k].to
    /\ listening => \A i \in 1 .. pos - 1 : Deserves(written[i]) => Handed(i)

\* A call that touched the router was asked for with an id, of a tool that has
\* the action, with something in every field that its arm of dispatch reads,
\* and a call of `network` with a string there; each line is carried out at
\* most once and in its turn (validate, get_str, the service's validators).
OnlyWholeCallsReach ==
    /\ \A k \in DOMAIN reached :
        LET line == written[reached[k]] IN
        /\ reached[k] <= pos
        /\ line.form = "json" /\ line.id # Null
        /\ line.method = "tools/call"
        /\ line.action \in ActionsOf(line.tool)
        /\ \A f \in Required(line.tool, line.action) :
            /\ line.fields[f] \notin {"absent", "empty"}
            /\ line.tool = "network" => line.fields[f] = "text"
    /\ \A j, k \in DOMAIN reached : j < k => reached[j] < reached[k]

\* A host that has listened so far knows of every call but the last two
\* whether it was carried out, even if the process is killed: one may be at the
\* router, and the answer to the one before it in tokio's buffer.
AtMostTwoInDoubt ==
    listening =>
        \A k \in DOMAIN reached : ~Answered(reached[k]) => k >= Len(reached) - 1

\* A request is answered in the end, those still in the pipe when the host
\* closes stdin too, unless the host stops listening or kills the process, a
\* line before it ends the loop or a call before it never ends, or its answer
\* is the last and the process exits with it in the buffer.
EveryRequestAnswered ==
    \A i \in 1 .. MaxLines :
        (/\ i <= Len(written)
         /\ Deserves(written[i])
         /\ \A j \in 1 .. i - 1 : written[j].form # "binary")
            ~> \/ Answered(i)
               \/ ~listening
               \/ stage = "killed"
               \/ stage = "endless" /\ pos <= i
               \/ stage = "exited" /\ piped < Len(answers) /\ answers[Len(answers)].to = i

\* "Run the MCP stdio loop until stdin closes": a process whose host has closed
\* stdin comes to its end in the middle of a call or of a full pipe too, unless
\* the call is one that never ends.
EndsAfterClose == closed ~> stage \in {"exited", "killed", "endless"}
=============================================================================
