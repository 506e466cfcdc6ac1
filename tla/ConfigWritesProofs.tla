------------------------- MODULE ConfigWritesProofs -------------------------
(***************************************************************************)
(* Theorems about the write path, for any number of requests, any calls    *)
(* and any initial configuration.                                          *)
(***************************************************************************)
EXTENDS ConfigWrites, RouterConfigProofs

---------------------------------------------------------------------------
(* The inductive invariant. *)

\* r has passed the gate and may be in method st.
Admitted(r, st) ==
    /\ call[r] \in Call
    /\ call[r].caller \in {"admin", "host"}
    /\ st \in StepsOf(call[r])
    /\ Accepts(call[r], st)

\* A request that awaits its script was admitted.
TaskInv ==
    \A r \in Requests :
        /\ pc[r] = "idle" <=> call[r] = NoCall
        /\ pc[r] \in {"connecting", "waiting"} => Admitted(r, step[r])
        /\ since[r] <= Len(versions)

\* No script is sent twice: one that its task has yet to send is not there.
ToSend(r, st) ==
    \/ pc[r] = "idle"
    \/ pc[r] = "connecting" /\ (st = step[r] \/ st = "add")
    \/ pc[r] = "waiting" /\ st # step[r] /\ st = "add"
FreshInv ==
    \A r \in Requests : \A st \in Steps : ToSend(r, st) => stage[<<r, st>>] = "unborn"

\* What a script has done when it has come to each stage.
ScriptInv ==
    \A s \in Scripts :
        /\ stage[s] # "unborn" => Admitted(s[1], s[2])
        /\ stage[s] \in {"unborn", "sent", "loaded"} => wrote[s] = 0
        /\ stage[s] \in {"written", "configured"} => wrote[s] > 0
        /\ stage[s] = "loaded" => base[s] > 0 /\ config[s] = versions[base[s]]
        /\ output[s] # "" => stage[s] = "exited"
        /\ output[s] = "OK" => s[2] = "add" /\ wrote[s] > 0
        /\ output[s] = "DELETED" => s[2] = "delete" /\ wrote[s] > 0

\* How the writes relate to the versions they started from.
VersionInv ==
    /\ Len(versions) > 0
    /\ disk = versions[Len(versions)]
    /\ \A s \in Scripts :
        /\ base[s] <= Len(versions)
        /\ base[s] > 0 => since[s[1]] <= base[s]
        /\ stage[s] \in {"unborn", "sent"} => base[s] = 0
        /\ wrote[s] > 0 =>
            /\ stage[s] # "unborn"
            /\ 0 < base[s] /\ base[s] < wrote[s] /\ wrote[s] <= Len(versions)
            /\ Len(versions[wrote[s]][call[s[1]].section])
                 = Len(versions[base[s]][call[s[1]].section])
                   + (IF s[2] = "add" THEN 1 ELSE -1)

\* Every copy of the configuration is free of what nobody asked for, of
\* duplicates, and of what the scripts have yet to write.
Sound(cfg) ==
    /\ NoneTwice(cfg)
    /\ \A sec \in Sections : \A i \in DOMAIN cfg[sec] :
            cfg[sec][i].by # NoRequest =>
                /\ wrote[<<cfg[sec][i].by, "add">>] > 0
                /\ AskedFor(cfg[sec][i], sec)
ContentInv == Sound(disk) /\ \A s \in Scripts : Sound(config[s])

\* Only the output of a script that wrote makes an answer ok.
AnswerInv ==
    \A r \in Requests :
        /\ reply[r] = "ok" => pc[r] = "replied"
        /\ reply[r] = "ok" /\ Promises(call[r]) =>
                output[<<r, LastStep(call[r])>>] \in {"OK", "DELETED"}

IInv == TypeOK /\ TaskInv /\ FreshInv /\ ScriptInv /\ VersionInv /\ ContentInv /\ AnswerInv

---------------------------------------------------------------------------
(* Type correctness. *)

\* The first and the last method of a call are methods of it.
LEMMA StepTypes ==
    \A c \in Call : FirstStep(c) \in Steps /\ LastStep(c) \in Steps /\ LastStep(c) \in StepsOf(c)
                     /\ FirstStep(c) \in StepsOf(c)
BY DEF Call, FirstStep, LastStep, Steps, StepsOf

\* A result is answered by a reply.
LEMMA AnswerType ==
    ASSUME NEW c \in Call, NEW result
    PROVE  AnswerTo(c, result) \in Replies \ {"none"}
BY DEF AnswerTo, StatusOf, Replies

\* The gate and the validators let a call in or refuse it by an error.
LEMMA AdmissionType ==
    ASSUME NEW c \in Call
    PROVE  Admission(c) = "admitted" \/ Admission(c) \in Replies \ {"none", "ok"}
BY DEF Admission, Replies

\* The variables of the app keep their types when r enters a method.
LEMMA EnterType ==
    ASSUME TypeOK, NEW r \in Requests, NEW c \in Call, NEW st \in Steps, Enter(r, c, st)
    PROVE  /\ pc' \in [Requests -> {"idle", "connecting", "waiting", "replied", "cancelled"}]
           /\ step' \in [Requests -> Steps]
           /\ reply' \in [Requests -> Replies]
<1>1. AnswerTo(c, "validation") \in Replies
  BY AnswerType
<1>2. reply' \in [Requests -> Replies]
  BY <1>1 DEF TypeOK, Enter
<1> QED BY <1>2 DEF TypeOK, Enter

\* The variables of the app keep their types when a method returns.
LEMMA ReturnType ==
    ASSUME TypeOK, NEW r \in Requests, call[r] \in Call, NEW result, Return(r, result)
    PROVE  /\ pc' \in [Requests -> {"idle", "connecting", "waiting", "replied", "cancelled"}]
           /\ step' \in [Requests -> Steps]
           /\ reply' \in [Requests -> Replies]
<1>1. CASE step[r] # LastStep(call[r])
  BY <1>1, EnterType, StepTypes DEF Return
<1>2. CASE step[r] = LastStep(call[r])
  <2>1. AnswerTo(call[r], result) \in Replies
    BY AnswerType
  <2> QED BY <1>2, <2>1 DEF Return, TypeOK
<1> QED BY <1>1, <1>2

\* A request that awaits something has a call.
LEMMA HasCall ==
    ASSUME TypeOK, TaskInv, NEW r \in Requests, pc[r] # "idle"
    PROVE  call[r] \in Call
BY DEF TypeOK, TaskInv

\* The write path starts with values of their types.
LEMMA TypeInit == Init => TypeOK
<1> SUFFICES ASSUME Init PROVE TypeOK
  OBVIOUS
<1>1. InitialConfig \in Config /\ <<InitialConfig>> \in Seq(Config)
  BY ConfigAssumption
<1>2. served \in [Services -> Seq(Entry)]
  BY <1>1 DEF Init, Config, Services, Sections
<1> QED BY <1>1, <1>2 DEF Init, TypeOK, Steps, Replies, Stages, Outputs

\* Every step of a task, a script or the router keeps the types.
LEMMA TypeStep ==
    ASSUME TypeOK, TaskInv, ScriptInv, [Next]_vars
    PROVE  TypeOK'
<1> USE DEF TypeOK
<1>1. ASSUME NEW r \in Requests, Arrive(r) PROVE TypeOK'
  <2>1. PICK c \in CallsOf[r] :
            /\ call' = [call EXCEPT ![r] = c]
            /\ IF Admission(c) = "admitted"
               THEN Enter(r, c, FirstStep(c))
               ELSE /\ pc' = [pc EXCEPT ![r] = "replied"]
                    /\ reply' = [reply EXCEPT ![r] = Admission(c)]
                    /\ UNCHANGED step
    BY <1>1 DEF Arrive
  <2>2. c \in Call
    BY ConfigAssumption
  <2>3. /\ pc' \in [Requests -> {"idle", "connecting", "waiting", "replied", "cancelled"}]
        /\ step' \in [Requests -> Steps]
        /\ reply' \in [Requests -> Replies]
    <3>1. CASE Admission(c) = "admitted"
      BY <2>1, <2>2, <3>1, EnterType, StepTypes
    <3>2. CASE Admission(c) # "admitted"
      BY <2>1, <2>2, <3>2, AdmissionType
    <3> QED BY <3>1, <3>2
  <2>4. call' \in [Requests -> Call \cup {NoCall}]
    BY <2>1, <2>2
  <2>5. since' \in [Requests -> Nat]
    BY <1>1, LenProperties DEF Arrive
  <2> QED BY <1>1, <2>3, <2>4, <2>5 DEF Arrive, scriptVars, routerVars
<1>2. ASSUME NEW r \in Requests, ConnectFails(r) PROVE TypeOK'
  BY <1>2, HasCall, ReturnType DEF ConnectFails, scriptVars, routerVars
<1>3. ASSUME NEW r \in Requests, SendScript(r) PROVE TypeOK'
  <2>1. stage' \in [Scripts -> Stages]
    BY <1>3 DEF SendScript, Stages
  <2> QED BY <1>3, <2>1 DEF SendScript, routerVars
<1>4. ASSUME NEW r \in Requests, OutputEnds(r) PROVE TypeOK'
  BY <1>4, HasCall, ReturnType DEF OutputEnds, scriptVars, routerVars
<1>5. ASSUME NEW r \in Requests, OutputLost(r) PROVE TypeOK'
  BY <1>5, HasCall, ReturnType DEF OutputLost, scriptVars, routerVars
<1>6. ASSUME NEW r \in Requests, Cancel(r) PROVE TypeOK'
  BY <1>6 DEF Cancel, scriptVars, routerVars
<1>7. ASSUME NEW s \in Scripts, LoadConfig(s) PROVE TypeOK'
  BY <1>7, LenProperties DEF LoadConfig, taskVars, routerVars, Stages
<1>8. ASSUME NEW s \in Scripts, WriteConfig(s) PROVE TypeOK'
  <2> DEFINE new == Edited(config[s], call[s[1]], s[2], s[1])
  <2>1. call[s[1]] \in Call /\ s[1] \in Requests /\ s[2] \in Steps
    BY <1>8 DEF WriteConfig, ScriptInv, Admitted, Scripts
  <2>2. new \in Config
    BY <1>8, <2>1, EditedType DEF WriteConfig
  <2> HIDE DEF new
  <2>3. config' = [config EXCEPT ![s] = new] /\ disk' = new /\ versions' = Append(versions, new)
    BY <1>8 DEF WriteConfig, new
  <2>4. versions' \in Seq(Config) /\ Len(versions) + 1 \in Nat
    BY <2>2, <2>3, AppendProperties, LenProperties
  <2>5. stage' \in [Scripts -> Stages] /\ wrote' \in [Scripts -> Nat]
    BY <1>8, <2>4 DEF WriteConfig, Stages
  <2> QED BY <1>8, <2>2, <2>3, <2>4, <2>5 DEF WriteConfig, taskVars
<1>9. ASSUME NEW s \in Scripts, Reconfigure(s) PROVE TypeOK'
  <2>1. call[s[1]].section \in Sections /\ config[s][call[s[1]].section] \in Seq(Entry)
    <3>1. call[s[1]] \in Call
      BY <1>9 DEF Reconfigure, ScriptInv, Admitted
    <3>2. config[s] \in Config
      OBVIOUS
    <3> HIDE DEF TypeOK
    <3> QED BY <3>1, <3>2 DEF Call, Config, Services, Sections
  <2>2. served' \in [Services -> Seq(Entry)]
    BY <1>9, <2>1 DEF Reconfigure
  <2> QED BY <1>9, <2>2 DEF Reconfigure, taskVars, Stages
<1>10. ASSUME NEW s \in Scripts, Echo(s) PROVE TypeOK'
  BY <1>10 DEF Echo, taskVars, routerVars, Stages, Outputs
<1>11. ASSUME NEW s \in Scripts, EchoNotFound(s) PROVE TypeOK'
  BY <1>11 DEF EchoNotFound, taskVars, routerVars, Stages, Outputs
<1>12. ASSUME NEW s \in Scripts, Die(s) PROVE TypeOK'
  BY <1>12 DEF Die, taskVars, routerVars, Stages
<1>13. CASE UNCHANGED vars
  BY <1>13 DEF vars, taskVars, scriptVars, routerVars
<1> QED BY <1>1, <1>2, <1>3, <1>4, <1>5, <1>6, <1>7, <1>8, <1>9, <1>10, <1>11, <1>12, <1>13
         DEF Next, Await, Script

---------------------------------------------------------------------------
(* The tasks of the app. *)

\* A call, once made, does not change, and admission is for good.
LEMMA CallStays ==
    ASSUME TypeOK, TaskInv, [Next]_vars, NEW r \in Requests, call[r] # NoCall
    PROVE  /\ call'[r] = call[r]
           /\ \A st \in Steps : Admitted(r, st) => Admitted(r, st)'
<1>1. call'[r] = call[r]
  <2>1. ASSUME NEW q \in Requests, Arrive(q) PROVE call'[r] = call[r]
    BY <2>1 DEF Arrive, TaskInv, TypeOK
  <2>2. CASE call' = call
    BY <2>2
  <2> QED
    BY <2>1, <2>2 DEF Next, Await, Script, vars, taskVars, ConnectFails, SendScript, OutputEnds,
       OutputLost, Cancel, LoadConfig, WriteConfig, Reconfigure, Echo, EchoNotFound, Die
<1> QED BY <1>1 DEF Admitted

\* NoCall is not a call.
LEMMA NoCallIsNone == NoCall \notin Call
<1> SUFFICES ASSUME NoCall \in Call PROVE FALSE
  OBVIOUS
<1>1. NoCall.kind \in {"add", "delete", "update"}
  BY DEF Call
<1> QED BY <1>1 DEF NoCall

\* What Enter leaves of a request whose caller has passed the gate.
LEMMA EnterAdmits ==
    ASSUME TypeOK, NEW r \in Requests, NEW c \in Call, NEW st \in Steps, Enter(r, c, st)
    PROVE  /\ \/ pc'[r] = "connecting" /\ step'[r] = st /\ Accepts(c, st)
              \/ pc'[r] = "replied" /\ reply'[r] # "ok"
           /\ \A q \in Requests \ {r} : pc'[q] = pc[q] /\ step'[q] = step[q] /\ reply'[q] = reply[q]
<1>1. AnswerTo(c, "validation") # "ok"
  BY DEF AnswerTo, StatusOf
<1> QED BY <1>1 DEF Enter, TypeOK

\* A method that returns goes on to the add of an update, admitted, or is answered.
LEMMA ReturnAdmits ==
    ASSUME TypeOK, TaskInv, NEW r \in Requests, pc[r] \in {"connecting", "waiting"},
           NEW result, Return(r, result)
    PROVE  /\ \/ pc'[r] = "connecting" /\ step'[r] = "add" /\ step[r] = "delete" /\ Admitted(r, "add")
              \/ pc'[r] = "replied"
           /\ \A q \in Requests \ {r} : pc'[q] = pc[q] /\ step'[q] = step[q] /\ reply'[q] = reply[q]
<1>1. call[r] \in Call /\ Admitted(r, step[r])
  BY HasCall DEF TaskInv
<1>2. CASE step[r] # LastStep(call[r])
  <2>1. step[r] = "delete" /\ LastStep(call[r]) = "add" /\ "add" \in StepsOf(call[r])
    BY <1>1, <1>2 DEF TypeOK, Steps, LastStep, StepsOf, Admitted, Call
  <2>2. Enter(r, call[r], "add")
    BY <1>2, <2>1 DEF Return
  <2> QED BY <1>1, <2>1, <2>2, EnterAdmits DEF Admitted, Steps
<1>3. CASE step[r] = LastStep(call[r])
  BY <1>3 DEF Return, TypeOK
<1> QED BY <1>2, <1>3

\* A call that arrives is admitted to its first method or answered by an error.
LEMMA ArriveOutcome ==
    ASSUME TypeOK, NEW r \in Requests, Arrive(r)
    PROVE  \E c \in Call :
            /\ call' = [call EXCEPT ![r] = c] /\ call'[r] = c /\ c # NoCall
            /\ \/ /\ pc'[r] = "connecting" /\ step'[r] = FirstStep(c)
                  /\ Accepts(c, FirstStep(c)) /\ c.caller \in {"admin", "host"}
               \/ pc'[r] = "replied" /\ reply'[r] # "ok"
            /\ \A q \in Requests \ {r} : pc'[q] = pc[q] /\ step'[q] = step[q]
                                         /\ reply'[q] = reply[q] /\ call'[q] = call[q]
<1>1. PICK c \in CallsOf[r] :
        /\ call' = [call EXCEPT ![r] = c]
        /\ IF Admission(c) = "admitted"
           THEN Enter(r, c, FirstStep(c))
           ELSE /\ pc' = [pc EXCEPT ![r] = "replied"]
                /\ reply' = [reply EXCEPT ![r] = Admission(c)]
                /\ UNCHANGED step
  BY DEF Arrive
<1>2. c \in Call /\ call'[r] = c /\ c # NoCall /\ \A q \in Requests \ {r} : call'[q] = call[q]
  BY <1>1, ConfigAssumption, NoCallIsNone DEF TypeOK
<1>3. CASE Admission(c) = "admitted"
  <2>1. c.caller \in {"admin", "host"}
    BY <1>2, <1>3 DEF Admission, Call, Callers
  <2>2. FirstStep(c) \in Steps /\ Enter(r, c, FirstStep(c))
    BY <1>1, <1>2, <1>3, StepTypes
  <2> QED BY <1>1, <1>2, <2>1, <2>2, EnterAdmits
<1>4. CASE Admission(c) # "admitted"
  <2>1. pc'[r] = "replied" /\ reply'[r] = Admission(c) /\ reply'[r] # "ok"
    BY <1>1, <1>2, <1>4, AdmissionType DEF TypeOK
  <2>2. \A q \in Requests \ {r} : pc'[q] = pc[q] /\ step'[q] = step[q] /\ reply'[q] = reply[q]
    BY <1>1, <1>4 DEF TypeOK
  <2> QED BY <1>1, <1>2, <2>1, <2>2
<1> QED BY <1>3, <1>4

\* A request is not ok as it arrives.
LEMMA ArriveReply ==
    ASSUME TypeOK, NEW r \in Requests, Arrive(r)
    PROVE  reply' = reply \/ reply'[r] # "ok"
<1>1. PICK c \in CallsOf[r] :
        IF Admission(c) = "admitted"
        THEN Enter(r, c, FirstStep(c))
        ELSE reply' = [reply EXCEPT ![r] = Admission(c)]
  BY DEF Arrive
<1>2. c \in Call
  BY ConfigAssumption
<1>3. AnswerTo(c, "validation") # "ok"
  BY DEF AnswerTo, StatusOf
<1> QED BY <1>1, <1>2, <1>3, AdmissionType DEF Enter, TypeOK

\* The three actions in which a method returns.
Returns(r) == ConnectFails(r) \/ OutputEnds(r) \/ OutputLost(r)

\* However a method ends, its request goes on admitted or is answered, and no other moves.
LEMMA ReturnOutcome ==
    ASSUME TypeOK, TaskInv, NEW r \in Requests, Returns(r)
    PROVE  /\ pc[r] \in {"connecting", "waiting"}
           /\ \/ pc'[r] = "connecting" /\ step'[r] = "add" /\ step[r] = "delete" /\ Admitted(r, "add")
              \/ pc'[r] = "replied"
           /\ \A q \in Requests \ {r} : pc'[q] = pc[q] /\ step'[q] = step[q] /\ reply'[q] = reply[q]
           /\ call' = call
<1>1. /\ pc[r] \in {"connecting", "waiting"}
      /\ \E result : Return(r, result)
      /\ call' = call
  BY DEF Returns, ConnectFails, OutputEnds, OutputLost
<1>2. PICK result : Return(r, result)
  BY <1>1
<1> QED BY <1>1, <1>2, ReturnAdmits

\* No step lets a request wait that the gate or the validators refuse.
LEMMA TaskStep ==
    ASSUME TypeOK, TypeOK', TaskInv, [Next]_vars
    PROVE  TaskInv'
<1> DEFINE T(r) == /\ pc[r] = "idle" <=> call[r] = NoCall
                   /\ pc[r] \in {"connecting", "waiting"} => Admitted(r, step[r])
                   /\ since[r] <= Len(versions)
<1>0. \A r \in Requests : T(r)
  BY DEF TaskInv
<1>1. ASSUME NEW r \in Requests, Arrive(r) PROVE TaskInv'
  <2>1. PICK c \in Call :
            /\ call'[r] = c /\ c # NoCall
            /\ \/ /\ pc'[r] = "connecting" /\ step'[r] = FirstStep(c)
                  /\ Accepts(c, FirstStep(c)) /\ c.caller \in {"admin", "host"}
               \/ pc'[r] = "replied" /\ reply'[r] # "ok"
            /\ \A q \in Requests \ {r} : pc'[q] = pc[q] /\ step'[q] = step[q]
                                         /\ reply'[q] = reply[q] /\ call'[q] = call[q]
    BY <1>1, ArriveOutcome
  <2>2. \A q \in Requests : since'[q] <= Len(versions')
    BY <1>0, <1>1, LenProperties DEF Arrive, TypeOK, routerVars
  <2>3. ASSUME NEW q \in Requests \ {r} PROVE T(q)'
    BY <1>0, <2>1, <2>2, <2>3 DEF Admitted
  <2>4. T(r)'
    BY <2>1, <2>2, StepTypes DEF Admitted
  <2> QED BY <2>3, <2>4 DEF TaskInv
<1>2. ASSUME NEW r \in Requests, Returns(r) PROVE TaskInv'
  <2>1. \A q \in Requests : call'[q] = call[q] /\ since'[q] <= Len(versions')
    BY <1>0, <1>2 DEF Returns, ConnectFails, OutputEnds, OutputLost, routerVars
  <2>2. ASSUME NEW q \in Requests \ {r} PROVE T(q)'
    BY <1>0, <1>2, <2>1, <2>2, ReturnOutcome DEF Admitted
  <2>3. T(r)'
    BY <1>0, <1>2, <2>1, ReturnOutcome DEF Admitted
  <2> QED BY <2>2, <2>3 DEF TaskInv
<1>3. ASSUME NEW r \in Requests, SendScript(r) \/ Cancel(r) PROVE TaskInv'
  BY <1>0, <1>3 DEF SendScript, Cancel, TypeOK, TaskInv, Admitted, routerVars
<1>4. ASSUME UNCHANGED taskVars, Len(versions') >= Len(versions) PROVE TaskInv'
  BY <1>0, <1>4, LenProperties DEF TypeOK, TaskInv, Admitted, taskVars
<1>5. ASSUME NEW s \in Scripts, Script(s) PROVE UNCHANGED taskVars /\ Len(versions') >= Len(versions)
  <2>1. CASE WriteConfig(s)
    <3>1. disk' \in Config /\ versions' = Append(versions, disk')
      BY <2>1 DEF WriteConfig, TypeOK
    <3>2. Len(versions') = Len(versions) + 1 /\ Len(versions) \in Nat
      BY <3>1, AppendProperties, LenProperties DEF TypeOK
    <3> QED BY <2>1, <3>2 DEF WriteConfig
  <2>2. CASE UNCHANGED versions
    <3>1. Len(versions) \in Nat
      BY LenProperties DEF TypeOK
    <3> QED BY <1>5, <2>2, <3>1 DEF Script, LoadConfig, WriteConfig, Reconfigure, Echo, EchoNotFound, Die
  <2> QED BY <1>5, <2>1, <2>2 DEF Script, LoadConfig, Reconfigure, Echo, EchoNotFound, Die, routerVars
<1>6. CASE UNCHANGED vars
  BY <1>4, <1>6, LenProperties DEF vars, routerVars, TypeOK
<1> QED
  <2>1. ASSUME NEW r \in Requests, Await(r) PROVE TaskInv'
    BY <2>1, <1>2, <1>3 DEF Await, Returns
  <2> QED BY <1>1, <1>3, <1>4, <1>5, <1>6, <2>1 DEF Next

\* The actions that leave the scripts and the router as they are.
AppStep(r) == Arrive(r) \/ Returns(r) \/ Cancel(r)

\* A task that arrives, returns or is cancelled touches no script and no file.
LEMMA AppStepFrame ==
    ASSUME NEW r \in Requests, AppStep(r)
    PROVE  UNCHANGED <<stage, config, output, base, wrote, disk, served, versions, overlapped>>
BY DEF AppStep, Returns, Arrive, ConnectFails, OutputEnds, OutputLost, Cancel, scriptVars, routerVars

\* A script touches no task.
LEMMA ScriptFrame ==
    ASSUME NEW s \in Scripts, Script(s)
    PROVE  UNCHANGED <<pc, call, step, reply, since, overlapped>>
BY DEF Script, LoadConfig, WriteConfig, Reconfigure, Echo, EchoNotFound, Die, taskVars

\* Every step is of a task, of a script, between them, or none.
LEMMA Cases ==
    ASSUME [Next]_vars
    PROVE  \/ \E r \in Requests : AppStep(r)
           \/ \E r \in Requests : SendScript(r)
           \/ \E s \in Scripts : Script(s)
           \/ UNCHANGED vars
BY DEF Next, Await, AppStep, Returns

\* A script is told by its request and its method.
LEMMA ScriptId ==
    /\ \A r \in Requests : \A st \in Steps :
          <<r, st>> \in Scripts /\ <<r, st>>[1] = r /\ <<r, st>>[2] = st
    /\ \A s \in Scripts : s[1] \in Requests /\ s[2] \in Steps /\ s = <<s[1], s[2]>>
BY DEF Scripts

\* A script that its task has yet to send stays unborn.
LEMMA FreshStep ==
    ASSUME TypeOK, TypeOK', TaskInv, FreshInv, ScriptInv, [Next]_vars
    PROVE  FreshInv'
<1> USE ScriptId
<1>1. ASSUME NEW r \in Requests, AppStep(r) PROVE FreshInv'
  <2>0. stage' = stage
    BY <1>1, AppStepFrame
  <2>1. ASSUME NEW q \in Requests \ {r}, NEW st \in Steps, ToSend(q, st)' PROVE ToSend(q, st)
    <3>1. CASE Arrive(r)
      BY <2>1, <3>1, ArriveOutcome DEF ToSend
    <3>2. CASE Cancel(r)
      BY <2>1, <3>2 DEF Cancel, TypeOK, ToSend
    <3>3. CASE Returns(r)
      BY <2>1, <3>3, ReturnOutcome DEF ToSend
    <3> QED BY <1>1, <3>1, <3>2, <3>3 DEF AppStep
  <2>2. ASSUME NEW st \in Steps, ToSend(r, st)' PROVE stage[<<r, st>>] = "unborn"
    <3>1. CASE Arrive(r)
      BY <3>1 DEF Arrive, FreshInv, ToSend
    <3>2. CASE Cancel(r)
      BY <2>2, <3>2 DEF Cancel, TypeOK, ToSend
    <3>3. CASE Returns(r)
      <4>1. \/ pc'[r] = "connecting" /\ step'[r] = "add" /\ step[r] = "delete"
            \/ pc'[r] = "replied"
        BY <3>3, ReturnOutcome
      <4>2. st = "add" /\ step[r] = "delete"
        BY <2>2, <4>1 DEF ToSend
      <4>3. ToSend(r, st)
        BY <3>3, <4>2, ReturnOutcome DEF ToSend
      <4> QED BY <4>3 DEF FreshInv
    <3> QED BY <1>1, <3>1, <3>2, <3>3 DEF AppStep
  <2> QED BY <2>0, <2>1, <2>2 DEF FreshInv
<1>2. ASSUME NEW r \in Requests, SendScript(r) PROVE FreshInv'
  <2> SUFFICES ASSUME NEW q \in Requests, NEW st \in Steps, ToSend(q, st)'
               PROVE  stage'[<<q, st>>] = "unborn"
    BY DEF FreshInv
  <2>1. step' = step /\ pc' = [pc EXCEPT ![r] = "waiting"]
        /\ stage' = [stage EXCEPT ![<<r, step[r]>>] = "sent"]
    BY <1>2 DEF SendScript
  <2>2. CASE q = r
    <3>1. st # step[r] /\ st = "add"
      BY <2>1, <2>2 DEF ToSend, TypeOK
    <3>2. stage[<<r, st>>] = "unborn"
      BY <1>2, <3>1 DEF FreshInv, ToSend, SendScript
    <3> QED BY <2>1, <2>2, <3>1, <3>2 DEF TypeOK
  <2>3. CASE q # r
    <3>1. ToSend(q, st)
      BY <2>1, <2>3 DEF ToSend, TypeOK
    <3> QED BY <2>1, <2>3, <3>1 DEF FreshInv, TypeOK
  <2> QED BY <2>2, <2>3
<1>3. ASSUME NEW s \in Scripts, Script(s) PROVE FreshInv'
  <2> SUFFICES ASSUME NEW q \in Requests, NEW st \in Steps, ToSend(q, st)'
               PROVE  stage'[<<q, st>>] = "unborn"
    BY DEF FreshInv
  <2>1. stage[<<q, st>>] = "unborn"
    BY <1>3, ScriptFrame DEF FreshInv, ToSend
  <2>2. stage[s] # "unborn" /\ \A z \in Scripts \ {s} : stage'[z] = stage[z]
    BY <1>3 DEF Script, LoadConfig, WriteConfig, Reconfigure, Echo, EchoNotFound, Die, TypeOK, Live
  <2> QED BY <2>1, <2>2
<1>4. CASE UNCHANGED vars
  BY <1>4 DEF vars, taskVars, scriptVars, FreshInv, ToSend
<1> QED BY <1>1, <1>2, <1>3, <1>4, Cases

---------------------------------------------------------------------------
(* The scripts. *)

\* A script does its stages in order and prints the word of what it did.
LEMMA ScriptStep ==
    ASSUME TypeOK, TypeOK', TaskInv, FreshInv, ScriptInv, VersionInv, [Next]_vars
    PROVE  ScriptInv'
<1> DEFINE P(s) ==
        /\ stage[s] # "unborn" => Admitted(s[1], s[2])
        /\ stage[s] \in {"unborn", "sent", "loaded"} => wrote[s] = 0
        /\ stage[s] \in {"written", "configured"} => wrote[s] > 0
        /\ stage[s] = "loaded" => base[s] > 0 /\ config[s] = versions[base[s]]
        /\ output[s] # "" => stage[s] = "exited"
        /\ output[s] = "OK" => s[2] = "add" /\ wrote[s] > 0
        /\ output[s] = "DELETED" => s[2] = "delete" /\ wrote[s] > 0
<1>0. \A s \in Scripts : P(s)
  BY DEF ScriptInv
<1>a. \A s \in Scripts : stage[s] # "unborn" => Admitted(s[1], s[2])'
  <2> SUFFICES ASSUME NEW s \in Scripts, stage[s] # "unborn" PROVE Admitted(s[1], s[2])'
    OBVIOUS
  <2>1. Admitted(s[1], s[2]) /\ s[1] \in Requests /\ s[2] \in Steps
    BY <1>0, ScriptId
  <2>2. call[s[1]] # NoCall
    BY <2>1, NoCallIsNone DEF Admitted
  <2> QED BY <2>1, <2>2, CallStays
<1>b. \A s \in Scripts : base[s] \in 1 .. Len(versions) => versions'[base[s]] = versions[base[s]]
  <2>1. CASE UNCHANGED versions
    BY <2>1
  <2>2. ASSUME NEW s \in Scripts, WriteConfig(s)
        PROVE  \A n \in 1 .. Len(versions) : versions'[n] = versions[n]
    <3>1. disk' \in Config /\ versions' = Append(versions, disk')
      BY <2>2 DEF WriteConfig, TypeOK
    <3> QED BY <3>1, AppendProperties DEF TypeOK
  <2>3. UNCHANGED versions \/ \E s \in Scripts : WriteConfig(s)
    BY Cases, AppStepFrame DEF SendScript, Script, LoadConfig, Reconfigure, Echo, EchoNotFound, Die,
       routerVars, vars
  <2> QED BY <2>1, <2>2, <2>3
<1>1. ASSUME NEW r \in Requests, AppStep(r) PROVE ScriptInv'
  <2>1. UNCHANGED <<stage, config, output, base, wrote, versions>>
    BY <1>1, AppStepFrame
  <2> QED BY <1>0, <1>a, <2>1 DEF ScriptInv
<1>2. ASSUME NEW r \in Requests, SendScript(r) PROVE ScriptInv'
  <2>0. PICK z \in Scripts : z = <<r, step[r]>>
    BY ScriptId DEF TypeOK
  <2>1. z \in Scripts /\ z[1] = r /\ z[2] = step[r] /\ stage[z] = "unborn"
    BY <1>2, <2>0, ScriptId DEF SendScript, FreshInv, ToSend, TypeOK
  <2>2. Admitted(r, step[r])'
    BY <1>2 DEF SendScript, TaskInv, Admitted
  <2>3. wrote[z] = 0 /\ output[z] = ""
    BY <1>0, <2>1
  <2>4. /\ stage' = [stage EXCEPT ![z] = "sent"]
        /\ UNCHANGED <<config, output, base, wrote, versions, step>>
    BY <1>2, <2>0 DEF SendScript, routerVars
  <2>5. P(z)'
    <3>1. stage'[z] = "sent" /\ wrote'[z] = 0 /\ output'[z] = ""
      BY <2>1, <2>3, <2>4 DEF TypeOK
    <3>2. Admitted(z[1], z[2])'
      BY <2>1, <2>2, <2>4 DEF Admitted
    <3> QED BY <3>1, <3>2
  <2>6. ASSUME NEW s \in Scripts \ {z} PROVE P(s)'
    BY <1>0, <1>a, <2>4, <2>6 DEF TypeOK
  <2>7. \A s \in Scripts : P(s)'
    BY <2>5, <2>6
  <2> QED BY <2>7 DEF ScriptInv
<1>3. ASSUME NEW z \in Scripts, Script(z) PROVE ScriptInv'
  <2>0. stage[z] # "unborn"
    BY <1>3 DEF Script, LoadConfig, WriteConfig, Reconfigure, Echo, EchoNotFound, Die, Live
  <2>1. \A s \in Scripts \ {z} : /\ stage'[s] = stage[s] /\ config'[s] = config[s] /\ output'[s] = output[s]
                                 /\ base'[s] = base[s] /\ wrote'[s] = wrote[s]
    BY <1>3 DEF Script, LoadConfig, WriteConfig, Reconfigure, Echo, EchoNotFound, Die, TypeOK
  <2>2. ASSUME NEW s \in Scripts \ {z} PROVE P(s)'
    <3>1. base[s] > 0 => base[s] \in 1 .. Len(versions)
      <4>1. base[s] \in Nat /\ base[s] <= Len(versions)
        BY DEF VersionInv, TypeOK
      <4>2. Len(versions) \in Nat
        BY LenProperties DEF TypeOK
      <4> QED BY <4>1, <4>2
    <3>2. base[s] > 0 => versions'[base[s]] = versions[base[s]]
      BY <1>b, <3>1
    <3>3. /\ stage'[s] = stage[s] /\ config'[s] = config[s] /\ output'[s] = output[s]
          /\ base'[s] = base[s] /\ wrote'[s] = wrote[s]
      BY <2>1
    <3>4. P(s) /\ (stage[s] # "unborn" => Admitted(s[1], s[2])')
      BY <1>0, <1>a
    <3> QED BY <3>2, <3>3, <3>4
  <2>3. P(z)'
    <3>1. CASE LoadConfig(z)
      BY <1>0, <1>a, <2>0, <3>1, LenProperties DEF LoadConfig, TypeOK, VersionInv, routerVars
    <3>2. CASE WriteConfig(z)
      <4>1. Len(versions) \in Nat
        BY LenProperties DEF TypeOK
      <4>2. stage'[z] = "written" /\ wrote'[z] = Len(versions) + 1 /\ output'[z] = output[z]
        BY <3>2 DEF WriteConfig, TypeOK
      <4>4. output[z] = ""
        BY <1>0, <3>2 DEF WriteConfig
      <4>3. Admitted(z[1], z[2])'
        BY <1>a, <2>0
      <4>5. wrote'[z] > 0
        BY <4>1, <4>2
      <4> QED BY <4>2, <4>3, <4>4, <4>5
    <3>3. CASE Reconfigure(z)
      BY <1>0, <1>a, <2>0, <3>3 DEF Reconfigure, TypeOK
    <3>4. CASE Echo(z)
      <4>1. stage'[z] = "exited" /\ wrote'[z] = wrote[z] /\ wrote[z] > 0
        BY <1>0, <3>4 DEF Echo, TypeOK
      <4>2. output'[z] = IF z[2] = "add" THEN "OK" ELSE "DELETED"
        BY <3>4 DEF Echo, TypeOK
      <4>3. Admitted(z[1], z[2])' /\ z[2] \in {"add", "delete"}
        BY <1>a, <2>0, ScriptId DEF Steps
      <4> QED BY <4>1, <4>2, <4>3
    <3>5. CASE EchoNotFound(z)
      BY <1>0, <1>a, <2>0, <3>5 DEF EchoNotFound, TypeOK
    <3>6. CASE Die(z)
      BY <1>0, <1>a, <2>0, <3>6 DEF Die, TypeOK, Live
    <3> QED BY <1>3, <3>1, <3>2, <3>3, <3>4, <3>5, <3>6 DEF Script
  <2>4. \A s \in Scripts : P(s)'
    BY <2>2, <2>3
  <2> QED BY <2>4 DEF ScriptInv
<1>4. CASE UNCHANGED vars
  BY <1>0, <1>a, <1>4 DEF vars, scriptVars, routerVars, ScriptInv
<1> QED BY <1>1, <1>2, <1>3, <1>4, Cases

---------------------------------------------------------------------------
(* The versions of config.xml. *)

\* A write adds a version; every other action keeps them.
LEMMA VersionsGrow ==
    ASSUME TypeOK, TypeOK', [Next]_vars
    PROVE  /\ Len(versions) \in Nat /\ Len(versions') \in Nat /\ Len(versions') >= Len(versions)
           /\ \A n \in 1 .. Len(versions) : versions'[n] = versions[n]
           /\ \/ UNCHANGED <<versions, disk>>
              \/ Len(versions') = Len(versions) + 1 /\ versions'[Len(versions')] = disk'
<1>0. Len(versions) \in Nat
  BY LenProperties DEF TypeOK
<1>1. CASE UNCHANGED <<versions, disk>>
  BY <1>0, <1>1
<1>2. ASSUME NEW s \in Scripts, WriteConfig(s)
      PROVE  /\ Len(versions') = Len(versions) + 1 /\ versions'[Len(versions')] = disk'
             /\ \A n \in 1 .. Len(versions) : versions'[n] = versions[n]
  <2>1. disk' \in Config /\ versions' = Append(versions, disk')
    BY <1>2 DEF WriteConfig, TypeOK
  <2> QED BY <2>1, AppendProperties DEF TypeOK
<1>3. UNCHANGED <<versions, disk>> \/ \E s \in Scripts : WriteConfig(s)
  BY Cases, AppStepFrame DEF SendScript, Script, LoadConfig, Reconfigure, Echo, EchoNotFound, Die,
     routerVars, vars
<1> QED BY <1>0, <1>1, <1>2, <1>3

\* What a script loaded stays a version, and what it writes is that one edited.
LEMMA VersionStep ==
    ASSUME TypeOK, TypeOK', TaskInv, FreshInv, ScriptInv, VersionInv, [Next]_vars
    PROVE  VersionInv'
<1> DEFINE Grown(s) == Len(versions[wrote[s]][call[s[1]].section])
                        = Len(versions[base[s]][call[s[1]].section])
                            + (IF s[2] = "add" THEN 1 ELSE -1)
<1> DEFINE V(s) ==
        /\ base[s] <= Len(versions)
        /\ base[s] > 0 => since[s[1]] <= base[s]
        /\ stage[s] \in {"unborn", "sent"} => base[s] = 0
        /\ wrote[s] > 0 => /\ stage[s] # "unborn"
                           /\ 0 < base[s] /\ base[s] < wrote[s] /\ wrote[s] <= Len(versions)
                           /\ Grown(s)
<1>0. \A s \in Scripts : V(s)
  BY DEF VersionInv
<1>a. Len(versions) \in Nat /\ Len(versions') \in Nat /\ Len(versions') >= Len(versions)
  BY VersionsGrow
<1>1. Len(versions') > 0 /\ disk' = versions'[Len(versions')]
  BY VersionsGrow DEF VersionInv
\* A script that keeps base and wrote keeps what holds of them.
<1>2. ASSUME NEW s \in Scripts, base'[s] = base[s], wrote'[s] = wrote[s],
             stage[s] # "unborn" => stage'[s] # "unborn",
             stage'[s] \in {"unborn", "sent"} => stage[s] \in {"unborn", "sent"},
             stage[s] # "unborn" => since'[s[1]] = since[s[1]]
      PROVE  V(s)'
  <2>1. base[s] \in Nat /\ wrote[s] \in Nat /\ V(s) /\ s[1] \in Requests
    BY <1>0, ScriptId DEF TypeOK
  <2>7. wrote[s] > 0 => 0 < base[s] /\ base[s] < wrote[s] /\ wrote[s] <= Len(versions)
    BY <2>1
  <2>8. base[s] \in Nat /\ wrote[s] \in Nat
    BY <2>1
  <2>2. base'[s] <= Len(versions')
    BY <1>2, <2>1, VersionsGrow
  <2>3. base[s] > 0 => stage[s] # "unborn"
    BY <2>1
  <2>4. base'[s] > 0 => since'[s[1]] <= base'[s]
    BY <1>2, <2>1, <2>3
  <2>5. ASSUME wrote[s] > 0 PROVE Grown(s)'
    <3>1. base[s] \in 1 .. Len(versions) /\ wrote[s] \in 1 .. Len(versions) /\ stage[s] # "unborn"
      <4>1. stage[s] # "unborn"
        BY <2>1, <2>5
      <4> HIDE DEF V
      <4> QED BY <1>a, <2>5, <2>7, <2>8, <4>1
    <3>2. versions'[base[s]] = versions[base[s]] /\ versions'[wrote[s]] = versions[wrote[s]]
      BY <3>1, VersionsGrow
    <3>3. call[s[1]] # NoCall
      BY <2>1, <3>1, NoCallIsNone DEF ScriptInv, Admitted
    <3>4. call'[s[1]] = call[s[1]]
      BY <2>1, <3>3, CallStays
    <3> QED BY <1>2, <2>1, <2>5, <3>2, <3>4
  <2>6. wrote'[s] > 0 => wrote'[s] <= Len(versions')
    <3> HIDE DEF V
    <3> QED BY <1>a, <1>2, <2>7, <2>8
  <2> QED BY <1>2, <2>1, <2>2, <2>4, <2>5, <2>6
<1>3. ASSUME NEW r \in Requests, AppStep(r), NEW s \in Scripts PROVE V(s)'
  <2>1. UNCHANGED <<base, wrote, stage>>
    BY <1>3, AppStepFrame
  <2>2. stage[s] # "unborn" => since'[s[1]] = since[s[1]]
    <3>1. CASE Arrive(r)
      <4>1. call[r] = NoCall
        BY <3>1 DEF Arrive, TaskInv
      <4>2. stage[s] # "unborn" => s[1] # r
        BY <4>1, NoCallIsNone DEF ScriptInv, Admitted
      <4>3. s[1] \in Requests
        BY ScriptId
      <4> QED BY <3>1, <4>2, <4>3 DEF Arrive, TypeOK
    <3> QED BY <1>3, <3>1 DEF AppStep, Returns, ConnectFails, OutputEnds, OutputLost, Cancel
  <2> QED BY <1>2, <2>1, <2>2
<1>4. ASSUME NEW r \in Requests, SendScript(r), NEW s \in Scripts PROVE V(s)'
  <2>0. PICK z \in Scripts : z = <<r, step[r]>>
    BY ScriptId DEF TypeOK
  <2>1. UNCHANGED <<base, wrote, since>> /\ stage' = [stage EXCEPT ![z] = "sent"]
    BY <1>4, <2>0 DEF SendScript
  <2>2. stage[z] = "unborn"
    BY <1>4, <2>0 DEF SendScript, FreshInv, ToSend, TypeOK
  <2> QED BY <1>2, <2>1, <2>2 DEF TypeOK
<1>5. ASSUME NEW z \in Scripts, Script(z), NEW s \in Scripts PROVE V(s)'
  <2>0. since' = since /\ call' = call /\ z[1] \in Requests /\ z[2] \in Steps
    BY <1>5, ScriptFrame, ScriptId
  <2>1. CASE LoadConfig(z) /\ s = z
    <3>1. base'[z] = Len(versions) /\ wrote'[z] = wrote[z] /\ stage'[z] = "loaded" /\ versions' = versions
      BY <2>1 DEF LoadConfig, TypeOK, routerVars
    <3>2. wrote[z] = 0 /\ since[z[1]] <= Len(versions)
      BY <2>0, <2>1 DEF LoadConfig, ScriptInv, TaskInv
    <3> QED BY <2>0, <2>1, <3>1, <3>2, VersionsGrow
  <2>2. CASE WriteConfig(z) /\ s = z
    <3> DEFINE new == Edited(config[z], call[z[1]], z[2], z[1])
    <3>1. /\ base' = base /\ wrote'[z] = Len(versions) + 1 /\ stage'[z] = "written"
          /\ versions' = Append(versions, new) /\ stage[z] = "loaded"
          /\ Edits(config[z], call[z[1]], z[2])
      BY <2>2 DEF WriteConfig, TypeOK
    <3>2. call[z[1]] \in Call /\ base[z] > 0 /\ config[z] = versions[base[z]]
      BY <3>1 DEF ScriptInv, Admitted
    <3>3. config[z] \in Config /\ base[z] \in 1 .. Len(versions) /\ since[z[1]] <= base[z]
      <4>1. V(z) /\ base[z] \in Nat /\ config[z] \in Config
        BY <1>0 DEF TypeOK
      <4> QED BY <1>a, <3>2, <4>1
    <3>4. /\ new \in Config
          /\ Len(new[call[z[1]].section]) = Len(config[z][call[z[1]].section]) + (IF z[2] = "add" THEN 1 ELSE -1)
      BY <2>0, <3>1, <3>2, <3>3, EditedType
    <3> HIDE DEF new
    <3>5. versions'[Len(versions) + 1] = new /\ Len(versions') = Len(versions) + 1
          /\ versions'[base[z]] = config[z]
      BY <3>1, <3>2, <3>3, <3>4, AppendProperties DEF TypeOK
    <3>6. Grown(z)'
      BY <2>0, <3>1, <3>4, <3>5
    <3>7. base'[z] <= Len(versions') /\ since'[z[1]] <= base'[z] /\ 0 < base'[z]
          /\ base'[z] < wrote'[z] /\ wrote'[z] <= Len(versions')
      BY <2>0, <3>1, <3>3, <3>5, VersionsGrow
    <3> QED BY <2>2, <3>1, <3>6, <3>7
  <2>3. CASE s # z
    BY <1>2, <1>5, <2>0, <2>3 DEF Script, LoadConfig, WriteConfig, Reconfigure, Echo, EchoNotFound, Die, TypeOK
  <2>4. CASE s = z /\ (Reconfigure(z) \/ Echo(z) \/ EchoNotFound(z) \/ Die(z))
    BY <1>2, <2>0, <2>4 DEF Reconfigure, Echo, EchoNotFound, Die, TypeOK, Live
  <2> QED BY <1>5, <2>1, <2>2, <2>3, <2>4 DEF Script
<1>6. ASSUME UNCHANGED vars, NEW s \in Scripts PROVE V(s)'
  BY <1>2, <1>6 DEF vars, taskVars, scriptVars
<1>7. \A s \in Scripts : V(s)'
  BY <1>3, <1>4, <1>5, <1>6, Cases
<1> QED BY <1>1, <1>7 DEF VersionInv

---------------------------------------------------------------------------
(* The content of the configurations. *)

\* Adding an entry by r to a configuration without one leaves none twice.
LEMMA AddNoneTwice ==
    ASSUME NEW cfg \in Config, NEW c \in Call, NEW r \in Requests, NoneTwice(cfg),
           \A sec \in Sections : \A i \in DOMAIN cfg[sec] : cfg[sec][i].by # r
    PROVE  NoneTwice(WithEntry(cfg, c, r))
<1> DEFINE new == WithEntry(cfg, c, r)
<1> DEFINE n == Len(cfg[c.section]) + 1
<1>1. \A sec \in Sections \ {c.section} : new[sec] = cfg[sec]
  BY DEF WithEntry, Config
<1>2. /\ DOMAIN new[c.section] = DOMAIN cfg[c.section] \cup {n}
      /\ \A i \in DOMAIN cfg[c.section] : new[c.section][i] = cfg[c.section][i]
      /\ new[c.section][n].by = r
      /\ n \notin DOMAIN cfg[c.section]
      /\ c.section \in Sections
  <2>1. c.section \in Sections /\ Len(cfg[c.section]) \in Nat
    BY LenProperties DEF Config, Call, Services, Sections
  <2>2. Extends(new[c.section], cfg[c.section], [name |-> c.name, value |-> c.value, by |-> r])
    BY AddedEntries
  <2> HIDE DEF new
  <2>3. new[c.section][n].by = r
    BY <2>2 DEF Extends
  <2> QED BY <2>1, <2>2, <2>3 DEF Extends
<1> HIDE DEF new, n
\* An entry by another than r is where it was.
<1>3. ASSUME NEW sec \in Sections, NEW i \in DOMAIN new[sec], new[sec][i].by # r
      PROVE  i \in DOMAIN cfg[sec] /\ new[sec][i] = cfg[sec][i]
  BY <1>1, <1>2, <1>3
<1>4. ASSUME NEW sec \in Sections, NEW i \in DOMAIN new[sec], new[sec][i].by = r
      PROVE  sec = c.section /\ i = n
  BY <1>1, <1>2, <1>4
<1>5. NoneTwice(new)
  <2> SUFFICES ASSUME NEW sec1 \in Sections, NEW sec2 \in Sections,
                      NEW i \in DOMAIN new[sec1], NEW j \in DOMAIN new[sec2],
                      new[sec1][i].by = new[sec2][j].by, new[sec1][i].by # NoRequest
               PROVE  sec1 = sec2 /\ i = j
    BY DEF NoneTwice
  <2>1. CASE new[sec1][i].by = r
    BY <2>1, <1>4
  <2>2. CASE new[sec1][i].by # r
    BY <2>2, <1>3 DEF NoneTwice
  <2> QED BY <2>1, <2>2
<1> QED BY <1>5 DEF new

\* Where an entry of an edited configuration was before.
LEMMA DeleteNoneTwice ==
    ASSUME NEW cfg \in Config, NEW c \in Call, NoneTwice(cfg), Matches(cfg, c) # {}
    PROVE  /\ NoneTwice(WithoutFirst(cfg, c))
           /\ \A sec \in Sections : \A i \in DOMAIN WithoutFirst(cfg, c)[sec] :
                \E j \in DOMAIN cfg[sec] : WithoutFirst(cfg, c)[sec][i] = cfg[sec][j]
<1> DEFINE new == WithoutFirst(cfg, c)
<1> DEFINE was(sec, i) == IF sec = c.section THEN Origin(cfg, c, i) ELSE i
<1>0. c.section \in Sections /\ Len(cfg[c.section]) \in Nat
  BY LenProperties DEF Config, Call, Services, Sections
<1>1. \A sec \in Sections \ {c.section} : new[sec] = cfg[sec]
  BY DEF WithoutFirst, Config
<1>2. /\ DOMAIN new[c.section] = 1 .. Len(cfg[c.section]) - 1
      /\ FirstMatch(cfg, c) \in 1 .. Len(cfg[c.section])
      /\ \A i \in DOMAIN new[c.section] :
            Origin(cfg, c, i) \in DOMAIN cfg[c.section] /\ new[c.section][i] = cfg[c.section][Origin(cfg, c, i)]
  BY RemainingEntries
<1> HIDE DEF new
<1>3. \A sec \in Sections : \A i \in DOMAIN new[sec] :
        was(sec, i) \in DOMAIN cfg[sec] /\ new[sec][i] = cfg[sec][was(sec, i)]
  BY <1>1, <1>2
<1>4. \A i, j \in DOMAIN new[c.section] : Origin(cfg, c, i) = Origin(cfg, c, j) => i = j
  BY <1>0, <1>2 DEF Origin
<1>5. \A sec \in Sections : \A i, j \in DOMAIN new[sec] : was(sec, i) = was(sec, j) => i = j
  BY <1>4
<1>6. NoneTwice(new)
  <2> SUFFICES ASSUME NEW sec1 \in Sections, NEW sec2 \in Sections,
                      NEW i \in DOMAIN new[sec1], NEW j \in DOMAIN new[sec2],
                      new[sec1][i].by = new[sec2][j].by, new[sec1][i].by # NoRequest
               PROVE  sec1 = sec2 /\ i = j
    BY DEF NoneTwice
  <2>1. sec1 = sec2 /\ was(sec1, i) = was(sec2, j)
    <3> HIDE DEF was
    <3> QED BY <1>3 DEF NoneTwice
  <2> QED BY <2>1, <1>5
<1>7. \A sec \in Sections : \A i \in DOMAIN new[sec] : \E j \in DOMAIN cfg[sec] : new[sec][i] = cfg[sec][j]
  BY <1>3
<1> QED BY <1>6, <1>7 DEF new

\* A sound configuration stays sound while scripts and requests go on.
LEMMA SoundStays ==
    ASSUME TypeOK, TypeOK', TaskInv, ScriptInv, VersionInv, [Next]_vars,
           NEW cfg \in Config, Sound(cfg)
    PROVE  Sound(cfg)'
<1> SUFFICES ASSUME NEW sec \in Sections, NEW i \in DOMAIN cfg[sec], cfg[sec][i].by # NoRequest
             PROVE  /\ wrote'[<<cfg[sec][i].by, "add">>] > 0
                    /\ AskedFor(cfg[sec][i], sec)'
  BY DEF Sound, NoneTwice
<1> DEFINE r == cfg[sec][i].by
<1> DEFINE s == <<r, "add">>
<1>1. r \in Requests
  <2>1. cfg[sec] \in Seq(Entry)
    BY DEF Config
  <2>2. cfg[sec][i] \in Entry
    BY <2>1, ElementOfSeq, LenProperties
  <2> QED BY <2>2 DEF Entry, Authors
<1>2. s \in Scripts /\ s[1] = r /\ wrote[s] > 0 /\ AskedFor(cfg[sec][i], sec)
  BY <1>1, ScriptId DEF Sound, Steps
<1> HIDE DEF s, r
<1>3. stage[s] # "unborn"
  BY <1>2 DEF VersionInv
<1>4. call[r] # NoCall
  BY <1>2, <1>3, NoCallIsNone DEF ScriptInv, Admitted
<1>5. call'[r] = call[r]
  BY <1>1, <1>4, CallStays
<1>6. wrote'[s] > 0
  <2>1. ASSUME NEW z \in Scripts, WriteConfig(z) PROVE wrote'[s] > 0
    BY <1>2, <2>1, VersionsGrow DEF WriteConfig, TypeOK
  <2>2. UNCHANGED wrote \/ \E z \in Scripts : WriteConfig(z)
    BY Cases, AppStepFrame DEF SendScript, Script, LoadConfig, Reconfigure, Echo, EchoNotFound, Die,
       scriptVars, vars
  <2> QED BY <1>2, <2>1, <2>2
<1> QED BY <1>2, <1>5, <1>6 DEF s, r, AskedFor

\* No write brings an entry in twice, nor one that was not asked for.
LEMMA ContentStep ==
    ASSUME TypeOK, TypeOK', TaskInv, ScriptInv, VersionInv, ContentInv, [Next]_vars
    PROVE  ContentInv'
<1>1. \A cfg \in Config : Sound(cfg) => Sound(cfg)'
  BY SoundStays
\* Every copy but the one being written is one of before.
<1>2. ASSUME NEW cfg \in {disk} \cup {config[s] : s \in Scripts} PROVE cfg \in Config /\ Sound(cfg)
  BY <1>2 DEF ContentInv, TypeOK
<1>3. ASSUME disk' = disk, \A s \in Scripts : config'[s] \in {config[s], disk} PROVE ContentInv'
  <2>1. disk \in Config /\ Sound(disk) /\ \A s \in Scripts : config[s] \in Config /\ Sound(config[s])
    BY <1>2
  <2>2. PICK d \in Config : d = disk /\ d = disk'
    BY <1>3, <2>1
  <2>3. Sound(d)'
    BY <1>1, <2>1, <2>2 DEF Sound
  <2>4. Sound(disk)'
    BY <2>2, <2>3 DEF Sound, NoneTwice, AskedFor
  <2>5. ASSUME NEW s \in Scripts PROVE Sound(config[s])'
    <3>1. PICK k \in Config : k = config'[s] /\ Sound(k)
      BY <1>3, <2>1
    <3>2. Sound(k)'
      BY <1>1, <3>1
    <3> QED BY <3>1, <3>2 DEF Sound, NoneTwice, AskedFor
  <2> QED BY <2>4, <2>5 DEF ContentInv
<1>4. ASSUME NEW z \in Scripts, WriteConfig(z) PROVE ContentInv'
  <2>0. PICK old \in Config, c \in Call, r \in Requests, st \in Steps :
            /\ old = config[z] /\ c = call[z[1]] /\ c = call'[z[1]] /\ r = z[1] /\ st = z[2] /\ z = <<r, st>>
            /\ Edits(old, c, st) /\ stage[z] = "loaded"
            /\ Sound(old) /\ Admitted(r, st)
    <3>1. z[1] \in Requests /\ z[2] \in Steps /\ z = <<z[1], z[2]>>
      BY ScriptId
    <3>2. stage[z] = "loaded" /\ Edits(config[z], call[z[1]], z[2]) /\ call' = call
      BY <1>4 DEF WriteConfig, taskVars
    <3>3. Admitted(z[1], z[2]) /\ call[z[1]] \in Call
      BY <3>2 DEF ScriptInv, Admitted
    <3>4. config[z] \in Config /\ Sound(config[z])
      BY <1>2
    <3> QED BY <3>1, <3>2, <3>3, <3>4
  <2>1. PICK new \in Config : new = Edited(old, c, st, r)
    BY <2>0, EditedType
  <2>2. disk' = new /\ config' = [config EXCEPT ![z] = new] /\ wrote' = [wrote EXCEPT ![z] = Len(versions) + 1]
    BY <1>4, <2>0, <2>1 DEF WriteConfig
  <2>3. Sound(old)'
    BY <1>1, <2>0
  <2>4. Sound(new)'
    <3>1. CASE st = "add"
      <4>1. new = WithEntry(old, c, r)
        BY <2>1, <3>1 DEF Edited
      <4>2. \A sec \in Sections : \A i \in DOMAIN old[sec] : old[sec][i].by # r
        <5>1. wrote[<<r, "add">>] = 0 /\ r # NoRequest
          BY <2>0, <3>1, ConfigAssumption DEF ScriptInv
        <5> QED BY <2>0, <5>1 DEF Sound
      <4>3. NoneTwice(new)
        BY <2>0, <4>1, <4>2, AddNoneTwice DEF Sound
      <4>4. ASSUME NEW sec \in Sections, NEW i \in DOMAIN new[sec], new[sec][i].by # NoRequest
            PROVE  wrote'[<<new[sec][i].by, "add">>] > 0 /\ AskedFor(new[sec][i], sec)'
        <5>1. CASE i \in DOMAIN old[sec] /\ new[sec][i] = old[sec][i]
          BY <2>3, <4>4, <5>1 DEF Sound
        <5>2. CASE sec = c.section /\ new[sec][i] = [name |-> c.name, value |-> c.value, by |-> r]
          <6>1. Len(versions) + 1 > 0 /\ wrote'[<<r, "add">>] = Len(versions) + 1
            BY <2>0, <2>2, <3>1, LenProperties DEF TypeOK
          <6>2. /\ new[sec][i].by = r /\ new[sec][i].name = c.name /\ new[sec][i].value = c.value
            BY <5>2
          <6>3. c.caller \in {"admin", "host"} /\ c.kind # "delete" /\ Accepts(c, "add")
            BY <2>0, <3>1 DEF Admitted, StepsOf, Call, Steps
          <6>4. call'[r] = c
            BY <2>0
          <6> QED BY <5>2, <6>1, <6>2, <6>3, <6>4 DEF AskedFor
        <5>3. CASE sec # c.section
          BY <4>1, <5>1, <5>3 DEF WithEntry, Config
        <5>4. CASE sec = c.section
          <6>1. /\ DOMAIN old[sec] = 1 .. Len(old[sec])
                /\ DOMAIN new[sec] = 1 .. Len(old[sec]) + 1
                /\ \A k \in DOMAIN old[sec] : new[sec][k] = old[sec][k]
                /\ new[sec][Len(old[sec]) + 1] = [name |-> c.name, value |-> c.value, by |-> r]
            <7>1. Extends(WithEntry(old, c, r)[c.section], old[c.section],
                          [name |-> c.name, value |-> c.value, by |-> r])
              BY AddedEntries
            <7> QED BY <7>1, <4>1, <5>4 DEF Extends
          <6>2. Len(old[sec]) \in Nat
            BY LenProperties DEF Config
          <6>3. i \in DOMAIN old[sec] \/ i = Len(old[sec]) + 1
            BY <6>1, <6>2
          <6> QED BY <5>1, <5>2, <5>4, <6>1, <6>3
        <5> QED BY <5>3, <5>4
      <4> QED BY <4>3, <4>4 DEF Sound, NoneTwice
    <3>2. CASE st # "add"
      <4>1. new = WithoutFirst(old, c) /\ Matches(old, c) # {}
        BY <2>0, <2>1, <3>2 DEF Edited, Edits
      <4>2. /\ NoneTwice(new)
            /\ \A sec \in Sections : \A i \in DOMAIN new[sec] :
                    \E j \in DOMAIN old[sec] : new[sec][i] = old[sec][j]
        BY <2>0, <4>1, DeleteNoneTwice DEF Sound
      <4> QED BY <2>3, <4>2 DEF Sound, NoneTwice
    <3> QED BY <3>1, <3>2
  <2>5. Sound(disk)'
    BY <2>2, <2>4 DEF Sound, NoneTwice, AskedFor
  <2>6. ASSUME NEW s \in Scripts PROVE Sound(config[s])'
    <3>1. PICK k \in Config : k = config'[s] /\ (k = new \/ Sound(k))
      BY <1>2, <2>2 DEF TypeOK
    <3>2. CASE k = new
      BY <2>4, <3>1, <3>2 DEF Sound, NoneTwice, AskedFor
    <3>3. CASE Sound(k)
      <4>1. Sound(k)'
        BY <1>1, <3>1, <3>3
      <4>2. NoneTwice(config'[s]) = NoneTwice(k)
        BY <3>1
      <4> QED BY <4>1, <4>2, <3>1 DEF Sound, AskedFor
    <3> QED BY <3>1, <3>2, <3>3
  <2> QED BY <2>5, <2>6 DEF ContentInv
<1>5. \/ \E z \in Scripts : WriteConfig(z)
      \/ disk' = disk /\ \A s \in Scripts : config'[s] \in {config[s], disk}
  <2>1. ASSUME NEW z \in Scripts, LoadConfig(z)
        PROVE  disk' = disk /\ \A s \in Scripts : config'[s] \in {config[s], disk}
    BY <2>1 DEF LoadConfig, routerVars, TypeOK
  <2>2. \/ UNCHANGED <<disk, config>>
        \/ \E z \in Scripts : LoadConfig(z) \/ WriteConfig(z)
    BY Cases, AppStepFrame DEF SendScript, Script, Reconfigure, Echo, EchoNotFound, Die,
       scriptVars, routerVars, vars
  <2> QED BY <2>1, <2>2
<1> QED BY <1>3, <1>4, <1>5

---------------------------------------------------------------------------
(* The answers. *)

\* An ok that promises something comes from the word of a script that wrote.
LEMMA OkComesFromOutput ==
    ASSUME TypeOK, TaskInv, NEW r \in Requests, Returns(r), reply'[r] = "ok", reply[r] # "ok"
    PROVE  /\ pc'[r] = "replied"
           /\ Promises(call[r]) => output[<<r, LastStep(call[r])>>] \in {"OK", "DELETED"}
<1>1. pc[r] \in {"connecting", "waiting"} /\ call[r] \in Call /\ Admitted(r, step[r])
  BY ReturnOutcome, HasCall DEF TaskInv
<1>2. PICK result :
        /\ Return(r, result)
        /\ \/ result \in {"ssh", "auth"}
           \/ result = ResultOf(step[r], "")
           \/ result = ResultOf(step[r], output[<<r, step[r]>>])
  BY DEF Returns, ConnectFails, OutputEnds, OutputLost
<1>3. step[r] = LastStep(call[r])
  <2> SUFFICES ASSUME step[r] # LastStep(call[r]) PROVE FALSE
    OBVIOUS
  <2>1. Enter(r, call[r], LastStep(call[r]))
    BY <1>2 DEF Return
  <2>2. reply' = reply \/ reply'[r] # "ok"
    BY <1>1, <2>1, StepTypes, EnterAdmits DEF Enter
  <2> QED BY <2>2
<1>4. pc'[r] = "replied" /\ reply'[r] = AnswerTo(call[r], result)
  BY <1>2, <1>3 DEF Return, TypeOK
<1>5. ASSUME Promises(call[r]) PROVE output[<<r, step[r]>>] \in {"OK", "DELETED"}
  <2>1. call[r].kind \in {"add", "delete", "update"} /\ call[r].section \in {"dns", "lan"}
    BY <1>1 DEF Call, Services
  <2>2. result = "done" \/ (result = "absent" /\ call[r].section = "lan" /\ call[r].caller # "host")
    BY <1>4 DEF AnswerTo, StatusOf
  <2>3. result = "absent" => step[r] # "add"
    BY <1>2 DEF ResultOf
  <2>4. step[r] # "add" => call[r].kind = "delete"
    BY <1>3, <2>1 DEF LastStep
  <2>5. result = "done"
    BY <1>5, <2>2, <2>3, <2>4 DEF Promises
  <2> QED BY <1>2, <2>5 DEF ResultOf
<1> QED BY <1>3, <1>4, <1>5

\* Only the word of a script that edited is answered ok.
LEMMA AnswerStep ==
    ASSUME TypeOK, TypeOK', TaskInv, ScriptInv, AnswerInv, [Next]_vars
    PROVE  AnswerInv'
<1> DEFINE A(r) == /\ reply[r] = "ok" => pc[r] = "replied"
                   /\ reply[r] = "ok" /\ Promises(call[r]) =>
                        output[<<r, LastStep(call[r])>>] \in {"OK", "DELETED"}
<1>0. \A r \in Requests : A(r)
  BY DEF AnswerInv
<1>1. ASSUME NEW q \in Requests, AppStep(q), NEW r \in Requests PROVE A(r)'
  <2>0. output' = output
    BY <1>1, AppStepFrame
  <2>1. CASE r # q
    <3>1. pc'[r] = pc[r] /\ reply'[r] = reply[r] /\ call'[r] = call[r]
      BY <1>1, <2>1, ArriveOutcome, ReturnOutcome DEF AppStep, Cancel, TypeOK
    <3> QED BY <1>0, <2>0, <3>1
  <2>2. CASE r = q /\ Arrive(r)
    <3>1. reply[r] # "ok"
      BY <1>0, <2>2 DEF Arrive
    <3>2. reply' = reply \/ reply'[r] # "ok"
      BY <2>2, ArriveReply
    <3> QED BY <3>1, <3>2
  <2>3. CASE r = q /\ Cancel(r)
    BY <1>0, <2>3 DEF Cancel
  <2>4. CASE r = q /\ Returns(r)
    <3>1. reply[r] # "ok" /\ call' = call
      BY <1>0, <2>4, ReturnOutcome
    <3> QED BY <2>0, <2>4, <3>1, OkComesFromOutput
  <2> QED BY <1>1, <2>1, <2>2, <2>3, <2>4 DEF AppStep
<1>2. ASSUME NEW q \in Requests, SendScript(q), NEW r \in Requests PROVE A(r)'
  <2>1. reply' = reply /\ call' = call /\ output' = output /\ pc[q] = "connecting"
        /\ pc' = [pc EXCEPT ![q] = "waiting"]
    BY <1>2 DEF SendScript
  <2> QED BY <1>0, <2>1 DEF TypeOK
<1>3. ASSUME NEW z \in Scripts, Script(z), NEW r \in Requests PROVE A(r)'
  <2>1. reply' = reply /\ call' = call /\ pc' = pc
    BY <1>3, ScriptFrame
  <2>2. \A s \in Scripts : stage[s] = "exited" => output'[s] = output[s]
    BY <1>3 DEF Script, LoadConfig, WriteConfig, Reconfigure, Echo, EchoNotFound, Die, TypeOK
  <2>3. ASSUME reply[r] = "ok", Promises(call[r])
        PROVE  output'[<<r, LastStep(call[r])>>] \in {"OK", "DELETED"}
    <3>1. LastStep(call[r]) \in Steps
      BY DEF LastStep, Steps
    <3>2. PICK s \in Scripts : s = <<r, LastStep(call[r])>>
      BY <3>1, ScriptId
    <3>3. output[s] \in {"OK", "DELETED"}
      BY <1>0, <2>3, <3>2
    <3>4. output'[s] = output[s]
      BY <2>2, <3>3 DEF ScriptInv
    <3> QED BY <3>2, <3>3, <3>4
  <2> QED BY <1>0, <2>1, <2>3
<1>4. ASSUME UNCHANGED vars, NEW r \in Requests PROVE A(r)'
  BY <1>0, <1>4 DEF vars, taskVars, scriptVars
<1>5. \A r \in Requests : A(r)'
  BY <1>1, <1>2, <1>3, <1>4, Cases
<1> QED BY <1>5 DEF AnswerInv

---------------------------------------------------------------------------
(* The theorems. *)

\* The invariant holds before the first request.
LEMMA InvInit == Init => IInv
<1> SUFFICES ASSUME Init PROVE IInv
  OBVIOUS
<1>1. TypeOK
  BY TypeInit
<1>2. \A s \in Scripts : stage[s] = "unborn" /\ wrote[s] = 0 /\ base[s] = 0 /\ output[s] = ""
                          /\ config[s] = InitialConfig
  BY DEF Init
<1>3. \A r \in Requests : pc[r] = "idle" /\ call[r] = NoCall /\ reply[r] = "none" /\ since[r] = 0
  BY DEF Init
<1>4. Len(versions) = 1 /\ disk = versions[1]
  BY DEF Init
<1>5. TaskInv
  BY <1>3, <1>4 DEF TaskInv
<1>6. FreshInv
  BY <1>2, ScriptId DEF FreshInv
<1>7. ScriptInv
  BY <1>2 DEF ScriptInv
<1>8. VersionInv
  <2>1. ASSUME NEW s \in Scripts PROVE base[s] <= Len(versions) /\ ~(base[s] > 0) /\ ~(wrote[s] > 0)
    <3>1. base[s] = 0 /\ wrote[s] = 0
      BY <1>2
    <3> QED BY <3>1, <1>4
  <2>2. Len(versions) > 0
    BY <1>4
  <2> QED BY <1>2, <1>4, <2>1, <2>2 DEF VersionInv
<1>9. Sound(InitialConfig)
  BY ConfigAssumption DEF Sound, NoneTwice
<1>10. ContentInv
  <2>1. disk = InitialConfig
    BY DEF Init
  <2> QED BY <1>2, <1>9, <2>1 DEF ContentInv
<1>11. AnswerInv
  BY <1>3 DEF AnswerInv
<1> QED BY <1>1, <1>5, <1>6, <1>7, <1>8, <1>10, <1>11 DEF IInv

\* Every step keeps the invariant.
LEMMA InvStep == IInv /\ [Next]_vars => IInv'
<1> SUFFICES ASSUME IInv, [Next]_vars PROVE IInv'
  OBVIOUS
<1>1. TypeOK /\ TaskInv /\ FreshInv /\ ScriptInv /\ VersionInv /\ ContentInv /\ AnswerInv
  BY DEF IInv
<1>2. TypeOK'
  BY <1>1, TypeStep
<1>3. TaskInv' /\ FreshInv' /\ ScriptInv'
  BY <1>1, <1>2, TaskStep, FreshStep, ScriptStep
<1>4. VersionInv' /\ ContentInv' /\ AnswerInv'
  BY <1>1, <1>2, VersionStep, ContentStep, AnswerStep
<1> QED BY <1>2, <1>3, <1>4 DEF IInv

\* The invariant holds in every state that any interleaving of requests,
\* scripts and failures reaches.
THEOREM Invariant == Spec => []IInv
BY InvInit, InvStep, PTL DEF Spec

\* Every variable keeps its type, whatever the router and the network do.
THEOREM TypeCorrect == Spec => []TypeOK
<1>1. IInv => TypeOK
  BY DEF IInv
<1> QED BY <1>1, Invariant, PTL

\* config.xml never holds an entry that an admin or the MCP host did not ask
\* for, that the validators refuse, or that is in another section.
THEOREM Authorship == Spec => []OnlyAskedFor
<1>1. IInv => OnlyAskedFor
  BY DEF IInv, ContentInv, Sound, OnlyAskedFor
<1> QED BY <1>1, Invariant, PTL

\* No request leaves two entries, though stale copies of the configuration
\* are written back and any channel may be lost at any moment.
THEOREM NoDuplicates == Spec => []AtMostOnce
<1>1. IInv => AtMostOnce
  BY DEF IInv, ContentInv, Sound, AtMostOnce
<1> QED BY <1>1, Invariant, PTL

\* Unless it answers DELETE /dhcp/static, "ok" means that the script wrote,
\* starting from a configuration at least as new as the request.
THEOREM OkIsTrue == Spec => []OkMeansEdited
<1>1. ASSUME IInv PROVE OkMeansEdited
  <2> SUFFICES ASSUME NEW r \in Requests, reply[r] = "ok", Promises(call[r])
               PROVE  LET c == call[r]
                          s == <<r, LastStep(c)>>
                      IN /\ stage[s] = "exited"
                         /\ since[r] <= base[s]
                         /\ base[s] < wrote[s]
                         /\ Len(versions[wrote[s]][c.section])
                              = Len(versions[base[s]][c.section]) + (IF s[2] = "add" THEN 1 ELSE -1)
    BY DEF OkMeansEdited
  <2>1. PICK s \in Scripts : s = <<r, LastStep(call[r])>> /\ s[1] = r
    BY ScriptId DEF LastStep, Steps
  <2>2. output[s] \in {"OK", "DELETED"}
    BY <1>1, <2>1 DEF IInv, AnswerInv
  <2>3. stage[s] = "exited" /\ wrote[s] > 0
    BY <1>1, <2>2 DEF IInv, ScriptInv
  <2>4. /\ 0 < base[s] /\ base[s] < wrote[s] /\ since[s[1]] <= base[s]
        /\ Len(versions[wrote[s]][call[s[1]].section])
             = Len(versions[base[s]][call[s[1]].section]) + (IF s[2] = "add" THEN 1 ELSE -1)
    <3>1. base[s] \in Nat
      BY <1>1 DEF IInv, TypeOK
    <3> QED BY <1>1, <2>3, <3>1 DEF IInv, VersionInv
  <2> QED BY <2>1, <2>3, <2>4
<1> QED BY <1>1, Invariant, PTL

\* A script that writes to the configuration it loaded changes it by its own
\* entry only.
LEMMA EditStrays ==
    ASSUME NEW old \in Config, NEW c \in Call, NEW st \in Steps, NEW r \in Requests,
           Edits(old, c, st), NEW sec \in Sections
    PROVE  /\ \A e \in EntriesIn(old, sec) \ EntriesIn(Edited(old, c, st, r), sec) :
                st = "delete" /\ sec = c.section /\ e.name = c.name
           /\ \A e \in EntriesIn(Edited(old, c, st, r), sec) \ EntriesIn(old, sec) :
                st = "add" /\ sec = c.section /\ e.by = r
<1> DEFINE new == Edited(old, c, st, r)
<1>1. /\ EntriesIn(old, sec) = {old[sec][i] : i \in DOMAIN old[sec]}
      /\ EntriesIn(new, sec) = {new[sec][i] : i \in DOMAIN new[sec]}
  BY DEF EntriesIn, ToSet
<1>2. CASE sec # c.section
  <2>1. new[sec] = old[sec]
    <3>1. \A z \in Sections \ {c.section} : new[z] = old[z]
      BY EditedType
    <3> QED BY <1>2, <3>1
  <2> QED BY <2>1, <1>1
<1>3. CASE sec = c.section /\ st = "add"
  <2>1. Extends(new[sec], old[sec], [name |-> c.name, value |-> c.value, by |-> r])
    <3>1. new = WithEntry(old, c, r)
      BY <1>3 DEF Edited
    <3>2. Extends(WithEntry(old, c, r)[c.section], old[c.section],
                  [name |-> c.name, value |-> c.value, by |-> r])
      BY AddedEntries
    <3> HIDE DEF new
    <3> QED BY <1>3, <3>1, <3>2
  <2>2. old[sec] \in Seq(Entry) /\ Len(old[sec]) \in Nat
    BY LenProperties DEF Config
  <2> HIDE DEF new
  <2>3. \A i \in DOMAIN old[sec] : i \in DOMAIN new[sec] /\ new[sec][i] = old[sec][i]
    BY <2>1, <2>2 DEF Extends
  <2>4. \A i \in DOMAIN new[sec] : i \in DOMAIN old[sec] \/ i = Len(old[sec]) + 1
    BY <2>1, <2>2 DEF Extends
  <2>5. new[sec][Len(old[sec]) + 1].by = r
    BY <2>1 DEF Extends
  <2>6. \A i \in DOMAIN new[sec] : (\E j \in DOMAIN old[sec] : new[sec][i] = old[sec][j]) \/ new[sec][i].by = r
    BY <2>3, <2>4, <2>5
  <2>7. EntriesIn(old, sec) \subseteq EntriesIn(new, sec)
    BY <1>1, <2>3
  <2>8. \A e \in EntriesIn(new, sec) \ EntriesIn(old, sec) : e.by = r
    BY <1>1, <2>6
  <2> QED BY <1>3, <2>7, <2>8 DEF new
<1>4. CASE sec = c.section /\ st = "delete"
  <2>1. new = WithoutFirst(old, c) /\ Matches(old, c) # {}
    BY <1>4 DEF Edited, Edits
  <2>2. /\ \A i \in DOMAIN new[sec] : \E j \in DOMAIN old[sec] : new[sec][i] = old[sec][j]
        /\ \A i \in DOMAIN old[sec] :
              old[sec][i].name = c.name \/ \E j \in DOMAIN new[sec] : old[sec][i] = new[sec][j]
    BY <1>4, <2>1, RemainingOrigins
  <2> HIDE DEF new
  <2>3. EntriesIn(new, sec) \subseteq EntriesIn(old, sec)
    BY <1>1, <2>2
  <2>4. \A e \in EntriesIn(old, sec) \ EntriesIn(new, sec) : e.name = c.name
    BY <1>1, <2>2
  <2> QED BY <1>4, <2>3, <2>4 DEF new
<1> QED BY <1>2, <1>3, <1>4 DEF Steps

\* A script whose copy is still what config.xml holds removes nothing but what
\* it was asked to delete and brings in nothing but its own entry: every stray
\* change of an entry is a lost update.
THEOREM StraysAreStale == Spec => OnlyStaleWritesStray
<1>1. ASSUME IInv, [Next]_vars PROVE Step_OnlyStaleWritesStray
  <2> SUFFICES ASSUME NEW s \in Scripts, wrote'[s] # wrote[s], base[s] = Len(versions), NEW sec \in Sections
               PROVE  /\ \A e \in EntriesIn(disk, sec) \ EntriesIn(disk', sec) :
                            s[2] = "delete" /\ sec = call[s[1]].section /\ e.name = call[s[1]].name
                      /\ \A e \in EntriesIn(disk', sec) \ EntriesIn(disk, sec) :
                            s[2] = "add" /\ sec = call[s[1]].section /\ e.by = s[1]
    BY DEF Step_OnlyStaleWritesStray
  <2>0. TypeOK /\ ScriptInv /\ VersionInv
    BY <1>1 DEF IInv
  <2>1. WriteConfig(s)
    <3>1. ASSUME NEW z \in Scripts, WriteConfig(z) PROVE z = s
      BY <2>0, <3>1 DEF WriteConfig, TypeOK
    <3>2. UNCHANGED wrote \/ \E z \in Scripts : WriteConfig(z)
      BY <1>1, Cases, AppStepFrame DEF SendScript, Script, LoadConfig, Reconfigure, Echo, EchoNotFound, Die,
         scriptVars, vars
    <3> QED BY <3>1, <3>2
  <2>2. stage[s] = "loaded" /\ Edits(config[s], call[s[1]], s[2])
        /\ disk' = Edited(config[s], call[s[1]], s[2], s[1])
    BY <2>1 DEF WriteConfig
  <2>3. config[s] = disk
    BY <2>0, <2>2 DEF ScriptInv, VersionInv
  <2>4. call[s[1]] \in Call /\ disk \in Config /\ s[1] \in Requests /\ s[2] \in Steps
    BY <2>0, <2>2, ScriptId DEF ScriptInv, Admitted, TypeOK
  <2> QED BY <2>2, <2>3, <2>4, EditStrays
<1>2. IInv /\ [Next]_vars => [Step_OnlyStaleWritesStray]_vars
  BY <1>1
<1> QED BY <1>2, Invariant, PTL DEF OnlyStaleWritesStray, Spec
=============================================================================
