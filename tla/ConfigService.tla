--------------------------- MODULE ConfigService ---------------------------
(***************************************************************************)
(* What the write API promises to the caller of one request, and no more.  *)
(* The configuration has a version per write.  A request may apply each of *)
(* its edits at most once, to any version that is not older than the       *)
(* request: the router's scripts read the whole configuration and write it *)
(* back without a lock, so two requests may start from one version and the *)
(* later write then drops the earlier one.  An answer "ok" promises that   *)
(* the last edit has been applied; any other answer promises nothing, and  *)
(* an edit may still be applied after it.                                  *)
(***************************************************************************)
EXTENDS RouterConfig

VARIABLES
    versions,   \* every configuration written so far, the initial one first
    call,       \* call[r]: what r asks for
    since,      \* since[r]: the number of versions when r was made
    answers,    \* answers[r]: "none", "ok" or "error"
    applied     \* the edits that were written

aVars == <<versions, call, since, answers, applied>>

AInit ==
    /\ versions = <<InitialConfig>>
    /\ call = [r \in Requests |-> NoCall]
    /\ since = [r \in Requests |-> 0]
    /\ answers = [r \in Requests |-> "none"]
    /\ applied = {}

\* A request is made.  It may be refused at once.
Open(r) ==
    /\ call[r] = NoCall
    /\ \E c \in CallsOf[r] : call' = [call EXCEPT ![r] = c]
    /\ since' = [since EXCEPT ![r] = Len(versions)]
    /\ \E a \in {"none", "error"} : answers' = [answers EXCEPT ![r] = a]
    /\ UNCHANGED <<versions, applied>>

Apply(r, step) ==
    /\ call[r] # NoCall
    /\ step \in StepsOf(call[r])
    /\ <<r, step>> \notin applied
    /\ Accepts(call[r], step)
    /\ \E v \in since[r] .. Len(versions) :
        /\ Edits(versions[v], call[r], step)
        /\ versions' = Append(versions, Edited(versions[v], call[r], step, r))
    /\ applied' = applied \cup {<<r, step>>}
    /\ UNCHANGED <<call, since, answers>>

\* DELETE /dhcp/static answers ok whatever the script found.
Promises(c) == ~(c.kind = "delete" /\ c.section = "lan" /\ c.caller # "host")

AnswerOk(r) ==
    /\ call[r] # NoCall
    /\ answers[r] = "none"
    /\ Promises(call[r]) => <<r, LastStep(call[r])>> \in applied
    /\ answers' = [answers EXCEPT ![r] = "ok"]
    /\ UNCHANGED <<versions, call, since, applied>>

AnswerError(r) ==
    /\ call[r] # NoCall
    /\ answers[r] = "none"
    /\ answers' = [answers EXCEPT ![r] = "error"]
    /\ UNCHANGED <<versions, call, since, applied>>

ANext ==
    \E r \in Requests :
        \/ Open(r)
        \/ \E step \in Steps : Apply(r, step)
        \/ AnswerOk(r)
        \/ AnswerError(r)

ConfigServiceSpec == AInit /\ [][ANext]_aVars
===========================================================================
