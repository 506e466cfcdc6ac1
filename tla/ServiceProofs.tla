--------------------------- MODULE ServiceProofs ---------------------------
(***************************************************************************)
(* What the write path keeps over several steps of several scripts: the    *)
(* services run what config.xml says unless two scripts overlap, and all   *)
(* of it implements the promise of ConfigService.                          *)
(***************************************************************************)
EXTENDS ConfigWritesProofs

---------------------------------------------------------------------------
(* unbound and dhcpd. *)

\* While no two scripts are on the router at a time, the one that is there has
\* the file as it is, and only its section may wait to be reconfigured.
ServedInv ==
    ~overlapped =>
        /\ \A s, t \in Scripts : stage[s] \in Live /\ stage[t] \in Live => s = t
        /\ \A s \in Scripts : stage[s] \in {"loaded", "written"} => config[s] = disk
        /\ (\A s \in Scripts : stage[s] = "died" => wrote[s] = 0) =>
            \A sec \in Services :
                \/ served[sec] = disk[sec]
                \/ \E s \in Scripts : stage[s] = "written" /\ call[s[1]].section = sec

\* An untouched router serves what its file says.
LEMMA ServedInit == Init => ServedInv
<1> SUFFICES ASSUME Init PROVE ServedInv
  OBVIOUS
<1>1. \A s \in Scripts : stage[s] = "unborn"
  BY DEF Init
<1>2. \A sec \in Services : served[sec] = disk[sec]
  BY DEF Init
<1> QED BY <1>1, <1>2 DEF ServedInv, Live

\* A task that starts, returns or is dropped leaves the router as it is.
LEMMA ServedAppStep ==
    ASSUME IInv, ServedInv, NEW r \in Requests, AppStep(r), [Next]_vars
    PROVE  ServedInv'
<1>1. UNCHANGED <<stage, config, wrote, disk, served, overlapped>>
  BY AppStepFrame
<1>2. \A s \in Scripts : stage[s] = "written" => call'[s[1]] = call[s[1]]
  <2> SUFFICES ASSUME NEW s \in Scripts, stage[s] = "written" PROVE call'[s[1]] = call[s[1]]
    OBVIOUS
  <2>0. s[1] \in Requests /\ Admitted(s[1], s[2])
    BY ScriptId DEF IInv, ScriptInv
  <2>1. call[s[1]] # NoCall
    BY <2>0, NoCallIsNone DEF Admitted
  <2> QED BY <2>0, <2>1, CallStays DEF IInv
<1> QED BY <1>1, <1>2 DEF ServedInv

\* A script that is sent is the only one, or two have overlapped.
LEMMA ServedSend ==
    ASSUME IInv, ServedInv, NEW r \in Requests, SendScript(r)
    PROVE  ServedInv'
<1> SUFFICES ASSUME ~overlapped' PROVE ServedInv'
  BY DEF ServedInv
<1>1. PICK z \in Scripts : z = <<r, step[r]>>
  BY ScriptId DEF IInv, TypeOK
<1>2. /\ stage' = [stage EXCEPT ![z] = "sent"]
      /\ UNCHANGED <<call, config, wrote, disk, served>>
      /\ ~overlapped /\ \A s \in Scripts : stage[s] \notin Live
  BY <1>1 DEF SendScript, routerVars
<1>3. stage[z] = "unborn"
  <2>1. ToSend(r, step[r])
    BY DEF SendScript, ToSend
  <2> QED BY <1>1, <2>1 DEF IInv, FreshInv, TypeOK
<1>4. \A s \in Scripts : s # z => stage'[s] = stage[s]
  BY <1>2 DEF IInv, TypeOK
<1>5. stage'[z] = "sent"
  BY <1>2 DEF IInv, TypeOK
<1>6. \A s \in Scripts : stage'[s] = stage[s] \/ s = z
  BY <1>4
<1>7. \A s \in Scripts : stage'[s] \in {"loaded", "written", "died"} <=> stage[s] \in {"loaded", "written", "died"}
  BY <1>3, <1>5, <1>6
<1>8. \A s \in Scripts : stage[s] \in {"loaded", "written", "died"} => stage'[s] = stage[s]
  BY <1>3, <1>6
<1>9. \A s, t \in Scripts : stage'[s] \in Live /\ stage'[t] \in Live => s = t
  BY <1>2, <1>6
<1> QED
  <2>1. \A s \in Scripts : stage'[s] \in {"loaded", "written"} => config'[s] = disk'
    BY <1>2, <1>7, <1>8 DEF ServedInv
  <2>2. ASSUME \A s \in Scripts : stage'[s] = "died" => wrote'[s] = 0, NEW sec \in Services
        PROVE  \/ served'[sec] = disk'[sec]
               \/ \E s \in Scripts : stage'[s] = "written" /\ call'[s[1]].section = sec
    <3>1. \A s \in Scripts : stage[s] = "died" => wrote[s] = 0
      BY <1>2, <1>8, <2>2
    <3> QED BY <1>2, <1>8, <3>1 DEF ServedInv
  <2> QED BY <1>9, <2>1, <2>2 DEF ServedInv

\* A script that goes on keeps the file and its copy together.
LEMMA ServedScript ==
    ASSUME IInv, ServedInv, NEW z \in Scripts, Script(z)
    PROVE  ServedInv'
<1> SUFFICES ASSUME ~overlapped' PROVE ServedInv'
  BY DEF ServedInv
<1>0. TypeOK /\ ScriptInv /\ VersionInv
  BY DEF IInv
<1>1. /\ ~overlapped /\ call' = call
      /\ \A s, t \in Scripts : stage[s] \in Live /\ stage[t] \in Live => s = t
      /\ \A s \in Scripts : stage[s] \in {"loaded", "written"} => config[s] = disk
  BY ScriptFrame DEF ServedInv
<1>2. stage[z] \in Live /\ stage[z] # "died"
  BY DEF Script, LoadConfig, WriteConfig, Reconfigure, Echo, EchoNotFound, Die, Live
<1>3. \A s \in Scripts : s # z =>
        stage'[s] = stage[s] /\ config'[s] = config[s] /\ wrote'[s] = wrote[s] /\ stage[s] \notin Live
  <2>1. \A s \in Scripts : s # z =>
        stage'[s] = stage[s] /\ config'[s] = config[s] /\ wrote'[s] = wrote[s]
    BY <1>0 DEF Script, LoadConfig, WriteConfig, Reconfigure, Echo, EchoNotFound, Die, TypeOK
  <2> QED BY <1>1, <1>2, <2>1
<1>4. \A s, t \in Scripts : stage'[s] \in Live /\ stage'[t] \in Live => s = t
  BY <1>3
<1>5. call[z[1]] \in Call /\ z[1] \in Requests /\ z[2] \in Steps
  BY <1>2, ScriptId DEF Live, IInv, ScriptInv, Admitted
<1>6. Services \subseteq Sections
  BY DEF Services, Sections
<1>7. \A s \in Scripts : stage'[s] \in {"loaded", "written"} => s = z
  BY <1>3 DEF Live
<1>8. \A s \in Scripts : stage[s] \in {"loaded", "written"} => s = z
  BY <1>1, <1>2 DEF Live
<1> DEFINE Clean == \A s \in Scripts : stage[s] = "died" => wrote[s] = 0
           Due(sec) == \E s \in Scripts : stage[s] = "written" /\ call[s[1]].section = sec
<1>9. Clean' => Clean
  BY <1>2, <1>3
<1>10. Clean => \A sec \in Services : served[sec] = disk[sec] \/ Due(sec)
  BY <1>1 DEF ServedInv
<1>11. CASE LoadConfig(z)
  <2>1. stage'[z] = "loaded" /\ config'[z] = disk /\ stage[z] = "sent" /\ UNCHANGED <<disk, served, wrote>>
    BY <1>0, <1>11 DEF LoadConfig, TypeOK, routerVars
  <2>2. \A s \in Scripts : stage'[s] \in {"loaded", "written"} => config'[s] = disk'
    BY <1>7, <2>1
  <2>3. Clean => \A sec \in Services : served[sec] = disk[sec]
    BY <1>8, <1>10, <2>1
  <2> QED BY <1>4, <1>9, <2>1, <2>2, <2>3 DEF ServedInv
<1>12. CASE WriteConfig(z)
  <2> DEFINE new == Edited(config[z], call[z[1]], z[2], z[1])
  <2>1. /\ stage'[z] = "written" /\ config'[z] = new /\ disk' = new /\ stage[z] = "loaded"
        /\ served' = served /\ Edits(config[z], call[z[1]], z[2])
    BY <1>0, <1>12 DEF WriteConfig, TypeOK
  <2>2. config[z] = disk /\ config[z] \in Config
    BY <1>0, <1>1, <2>1 DEF TypeOK
  <2>3. \A sec \in Sections \ {call[z[1]].section} : new[sec] = disk[sec]
    BY <1>5, <2>1, <2>2, EditedType
  <2> HIDE DEF new
  <2>4. \A s \in Scripts : stage'[s] \in {"loaded", "written"} => config'[s] = disk'
    BY <1>7, <2>1
  <2>5. Clean => \A sec \in Services : served[sec] = disk[sec]
    BY <1>8, <1>10, <2>1
  <2>6. Clean => \A sec \in Services : served'[sec] = disk'[sec] \/ call'[z[1]].section = sec
    BY <1>1, <1>6, <2>1, <2>3, <2>5
  <2> QED BY <1>4, <1>9, <2>1, <2>4, <2>6 DEF ServedInv
<1>13. CASE Reconfigure(z)
  <2>1. /\ stage'[z] = "configured" /\ stage[z] = "written" /\ UNCHANGED <<config, disk, wrote>>
        /\ served' = [served EXCEPT ![call[z[1]].section] = config[z][call[z[1]].section]]
    BY <1>0, <1>13 DEF Reconfigure, TypeOK
  <2>2. config[z] = disk
    BY <1>1, <2>1
  <2>3. \A s \in Scripts : stage'[s] \notin {"loaded", "written"}
    BY <1>7, <2>1
  <2>4. ASSUME Clean, NEW sec \in Services PROVE served'[sec] = disk'[sec]
    <3>1. CASE sec = call[z[1]].section
      BY <1>0, <2>1, <2>2, <3>1 DEF TypeOK
    <3>2. CASE sec # call[z[1]].section
      BY <1>0, <1>8, <1>10, <2>1, <2>4, <3>2 DEF TypeOK
    <3> QED BY <3>1, <3>2
  <2> QED BY <1>4, <1>9, <2>3, <2>4 DEF ServedInv
<1>14. CASE Echo(z) \/ EchoNotFound(z)
  <2>1. /\ stage'[z] = "exited" /\ stage[z] \in {"loaded", "configured"}
        /\ UNCHANGED <<config, disk, served, wrote>>
    BY <1>0, <1>14 DEF Echo, EchoNotFound, TypeOK, routerVars
  <2>2. \A s \in Scripts : stage'[s] \notin {"loaded", "written"}
    BY <1>7, <2>1
  <2>3. Clean => \A sec \in Services : served[sec] = disk[sec]
    BY <1>8, <1>10, <2>1
  <2> QED BY <1>4, <1>9, <2>1, <2>2, <2>3 DEF ServedInv
<1>15. CASE Die(z)
  <2>1. stage'[z] = "died" /\ UNCHANGED <<config, disk, served, wrote>>
    BY <1>0, <1>15 DEF Die, TypeOK, routerVars
  <2>2. \A s \in Scripts : stage'[s] \notin {"loaded", "written"}
    BY <1>7, <2>1
  <2>3. Clean' => stage[z] # "written"
    <3>1. Clean' => wrote[z] = 0
      BY <2>1
    <3>2. stage[z] = "written" => wrote[z] > 0
      BY <1>0 DEF ScriptInv
    <3> QED BY <3>1, <3>2
  <2>4. Clean' => \A sec \in Services : served[sec] = disk[sec]
    BY <1>8, <1>9, <1>10, <2>3
  <2> QED BY <1>4, <2>1, <2>2, <2>4 DEF ServedInv
<1> QED BY <1>11, <1>12, <1>13, <1>14, <1>15 DEF Script

\* Once the router is quiet the services run what config.xml says, for any
\* number of requests, unless two scripts overlapped or one died half-way.
THEOREM ServedAsWritten == Spec => []ServedIsDisk
<1>1. IInv /\ ServedInv /\ [Next]_vars => ServedInv'
  <2> SUFFICES ASSUME IInv, ServedInv, [Next]_vars PROVE ServedInv'
    OBVIOUS
  <2>1. CASE UNCHANGED vars
    BY <2>1 DEF ServedInv, vars, taskVars, scriptVars, routerVars
  <2> QED BY <2>1, Cases, ServedAppStep, ServedSend, ServedScript
<1>2. ServedInv => ServedIsDisk
  BY DEF ServedInv, ServedIsDisk, Live
<1> QED BY <1>1, <1>2, ServedInit, Invariant, PTL DEF Spec

---------------------------------------------------------------------------
(* The refinement of ConfigService. *)

\* A request that has no answer yet is at "none", which becomes "ok" or an error.
ReplyInv == \A r \in Requests : pc[r] \notin {"replied", "cancelled"} => reply[r] = "none"

\* A step of the app answers at most the request it is a step of.
LEMMA ReplyStep ==
    ASSUME IInv, ReplyInv, [Next]_vars
    PROVE  ReplyInv'
<1>0. TypeOK /\ TaskInv
  BY DEF IInv
<1>1. ASSUME NEW r \in Requests, Arrive(r) PROVE ReplyInv'
  <2>1. PICK c \in CallsOf[r] :
            IF Admission(c) = "admitted"
            THEN Enter(r, c, FirstStep(c))
            ELSE pc' = [pc EXCEPT ![r] = "replied"] /\ reply' = [reply EXCEPT ![r] = Admission(c)]
    BY <1>1 DEF Arrive
  <2> QED BY <1>0, <1>1, <2>1 DEF Arrive, Enter, ReplyInv, TypeOK
<1>2. ASSUME NEW r \in Requests, Returns(r) PROVE ReplyInv'
  <2>1. PICK result : Return(r, result) /\ pc[r] \in {"connecting", "waiting"}
    BY <1>2 DEF Returns, ConnectFails, OutputEnds, OutputLost
  <2> QED BY <1>0, <2>1 DEF Return, Enter, ReplyInv, TypeOK
<1>3. ASSUME NEW r \in Requests, Cancel(r) \/ SendScript(r) PROVE ReplyInv'
  BY <1>0, <1>3 DEF Cancel, SendScript, ReplyInv, TypeOK
<1>4. ASSUME NEW s \in Scripts, Script(s) PROVE ReplyInv'
  BY <1>4, ScriptFrame DEF ReplyInv
<1>5. CASE UNCHANGED vars
  BY <1>5 DEF ReplyInv, vars, taskVars
<1> QED BY <1>1, <1>2, <1>3, <1>4, <1>5, Cases DEF AppStep

\* The words of RouterConfig mean the same on both levels.
LEMMA SameWords ==
    /\ Service!NoCall = NoCall /\ Service!Steps = Steps
    /\ \A c : Service!StepsOf(c) = StepsOf(c) /\ Service!LastStep(c) = LastStep(c)
    /\ \A c, st : Service!Accepts(c, st) = Accepts(c, st)
    /\ \A c : Service!Promises(c) = Promises(c)
BY DEF Service!NoCall, Service!Steps, Service!StepsOf, Service!LastStep, Service!Accepts,
   Service!Promises, NoCall, Steps, StepsOf, LastStep, Accepts, Promises

\* So do the edits of a configuration.
LEMMA SameEdits ==
    ASSUME NEW cfg, NEW c, NEW st, NEW r
    PROVE  /\ Service!Edits(cfg, c, st) = Edits(cfg, c, st)
           /\ Service!Edited(cfg, c, st, r) = Edited(cfg, c, st, r)
<1>1. Service!Matches(cfg, c) = Matches(cfg, c)
  BY DEF Service!Matches, Matches
<1>2. Service!FirstMatch(cfg, c) = FirstMatch(cfg, c)
  BY <1>1 DEF Service!FirstMatch, FirstMatch
<1>3. Service!WithoutFirst(cfg, c) = WithoutFirst(cfg, c)
  BY <1>2 DEF Service!WithoutFirst, WithoutFirst, Service!RemoveAt, RemoveAt
<1>4. Service!WithEntry(cfg, c, r) = WithEntry(cfg, c, r)
  BY DEF Service!WithEntry, WithEntry
<1> QED BY <1>1, <1>3, <1>4 DEF Service!Edits, Edits, Service!Edited, Edited

\* What the callers of ConfigService see of the answers and of the edits.
Answers == [r \in Requests |-> IF reply[r] \in {"none", "ok"} THEN reply[r] ELSE "error"]
Applied == {s \in Scripts : wrote[s] > 0}

\* The abstract state and its start.
LEMMA Mapped ==
    /\ Service!aVars = <<versions, call, since, Answers, Applied>>
    /\ Service!AInit <=> /\ versions = <<InitialConfig>>
                         /\ call = [r \in Requests |-> NoCall]
                         /\ since = [r \in Requests |-> 0]
                         /\ Answers = [r \in Requests |-> "none"]
                         /\ Applied = {}
BY SameWords DEF Service!aVars, Service!AInit, Answers, Applied

\* The actions of ConfigService, in the words of ConfigWrites.
LEMMA MappedActions ==
    ASSUME NEW r \in Requests
    PROVE  /\ Service!Open(r) <=>
                /\ call[r] = NoCall
                /\ \E c \in CallsOf[r] : call' = [call EXCEPT ![r] = c]
                /\ since' = [since EXCEPT ![r] = Len(versions)]
                /\ \E a \in {"none", "error"} : Answers' = [Answers EXCEPT ![r] = a]
                /\ UNCHANGED <<versions, Applied>>
           /\ Service!AnswerOk(r) <=>
                /\ call[r] # NoCall
                /\ Answers[r] = "none"
                /\ Promises(call[r]) => <<r, LastStep(call[r])>> \in Applied
                /\ Answers' = [Answers EXCEPT ![r] = "ok"]
                /\ UNCHANGED <<versions, call, since, Applied>>
           /\ Service!AnswerError(r) <=>
                /\ call[r] # NoCall
                /\ Answers[r] = "none"
                /\ Answers' = [Answers EXCEPT ![r] = "error"]
                /\ UNCHANGED <<versions, call, since, Applied>>
BY SameWords DEF Service!Open, Service!AnswerOk, Service!AnswerError, Answers, Applied

\* And the edit that is applied.
LEMMA MappedApply ==
    ASSUME NEW r \in Requests, NEW st \in Steps,
           call[r] # NoCall, st \in StepsOf(call[r]), <<r, st>> \notin Applied,
           Accepts(call[r], st),
           NEW v \in since[r] .. Len(versions),
           Edits(versions[v], call[r], st),
           versions' = Append(versions, Edited(versions[v], call[r], st, r)),
           Applied' = Applied \cup {<<r, st>>},
           UNCHANGED <<call, since, Answers>>
    PROVE  Service!Apply(r, st)
<1>1. /\ Service!Edits(versions[v], call[r], st)
      /\ versions' = Append(versions, Service!Edited(versions[v], call[r], st, r))
  BY SameEdits
<1>2. \E w \in since[r] .. Len(versions) :
        /\ Service!Edits(versions[w], call[r], st)
        /\ versions' = Append(versions, Service!Edited(versions[w], call[r], st, r))
  BY <1>1
<1> QED BY <1>2, SameWords DEF Service!Apply, Answers, Applied

\* An answer that changes for one request changes for it alone.
LEMMA AnswersChange ==
    ASSUME TypeOK, NEW r \in Requests, NEW a \in Replies, reply' = [reply EXCEPT ![r] = a]
    PROVE  Answers' = [Answers EXCEPT ![r] = IF a \in {"none", "ok"} THEN a ELSE "error"]
BY DEF Answers, TypeOK

\* A request that arrives is opened, refused or not.
LEMMA ArriveOpens ==
    ASSUME IInv, ReplyInv, NEW r \in Requests, Arrive(r)
    PROVE  Service!Open(r)
<1>0. TypeOK /\ call[r] = NoCall /\ reply[r] = "none"
  BY DEF IInv, TaskInv, ReplyInv, Arrive
<1>1. PICK c \in CallsOf[r] :
        /\ call' = [call EXCEPT ![r] = c]
        /\ IF Admission(c) = "admitted"
           THEN Enter(r, c, FirstStep(c))
           ELSE reply' = [reply EXCEPT ![r] = Admission(c)]
  BY DEF Arrive
<1>2. c \in Call
  BY ConfigAssumption
<1>3. \E a \in Replies \ {"ok"} : reply' = [reply EXCEPT ![r] = a]
  <2>1. CASE Admission(c) = "admitted" /\ Accepts(c, FirstStep(c))
    <3>1. reply' = reply
      BY <1>1, <2>1 DEF Enter
    <3>2. reply' = [reply EXCEPT ![r] = "none"]
      BY <1>0, <3>1 DEF TypeOK
    <3> QED BY <3>2 DEF Replies
  <2>2. CASE Admission(c) = "admitted" /\ ~Accepts(c, FirstStep(c))
    <3>1. reply' = [reply EXCEPT ![r] = AnswerTo(c, "validation")]
      BY <1>1, <2>2 DEF Enter
    <3>2. AnswerTo(c, "validation") # "ok"
      BY DEF AnswerTo, StatusOf
    <3>3. AnswerTo(c, "validation") \in Replies
      BY <1>2, AnswerType
    <3> QED BY <3>1, <3>2, <3>3
  <2>3. CASE Admission(c) # "admitted"
    BY <1>1, <1>2, <2>3, AdmissionType
  <2> QED BY <2>1, <2>2, <2>3
<1>4. \E a \in {"none", "error"} : Answers' = [Answers EXCEPT ![r] = a]
  BY <1>0, <1>3, AnswersChange
<1>5. since' = [since EXCEPT ![r] = Len(versions)] /\ UNCHANGED <<versions, wrote>>
  BY DEF Arrive, scriptVars, routerVars
<1> QED BY <1>0, <1>1, <1>4, <1>5, MappedActions DEF Applied

\* A method that returns answers, ok only with the edit behind it, or goes on.
LEMMA ReturnAnswers ==
    ASSUME IInv, IInv', ReplyInv, NEW r \in Requests, Returns(r)
    PROVE  \/ Service!AnswerOk(r) \/ Service!AnswerError(r)
           \/ UNCHANGED <<versions, call, since, Answers, Applied>>
<1>1. /\ TypeOK /\ TypeOK' /\ pc[r] \in {"connecting", "waiting"} /\ call[r] \in Call
      /\ reply[r] = "none"
  BY ReturnOutcome, HasCall DEF IInv, ReplyInv
<1>2. UNCHANGED <<versions, call, since, wrote>>
  BY DEF Returns, ConnectFails, OutputEnds, OutputLost, scriptVars, routerVars
<1>3. reply' = reply \/ \E a : reply' = [reply EXCEPT ![r] = a]
  <2>1. PICK result : Return(r, result)
    BY DEF Returns, ConnectFails, OutputEnds, OutputLost
  <2> QED BY <2>1 DEF Return, Enter
<1>4. CASE reply' = reply
  BY <1>2, <1>4 DEF Answers, Applied
<1>5. CASE \E a : reply' = [reply EXCEPT ![r] = a]
  <2>1. reply'[r] \in Replies /\ reply' = [reply EXCEPT ![r] = reply'[r]]
    BY <1>1, <1>5 DEF TypeOK
  <2>2. Answers' = [Answers EXCEPT ![r] =
            IF reply'[r] \in {"none", "ok"} THEN reply'[r] ELSE "error"]
    BY <1>1, <2>1, AnswersChange
  <2>3. Answers[r] = "none" /\ Applied' = Applied
    BY <1>1, <1>2 DEF Answers, Applied
  <2>4. call[r] # NoCall
    BY <1>1, NoCallIsNone
  <2>5. CASE reply'[r] = "ok"
    <3>1. PICK s \in Scripts : s = <<r, LastStep(call[r])>>
      BY ScriptId DEF LastStep, Steps
    <3>2. Promises(call[r]) => output'[s] \in {"OK", "DELETED"}
      BY <1>2, <2>5, <3>1 DEF IInv, AnswerInv
    <3>3. Promises(call[r]) => wrote'[s] > 0
      BY <3>2 DEF IInv, ScriptInv
    <3>4. Promises(call[r]) => s \in Applied
      BY <1>2, <3>3 DEF Applied
    <3> QED BY <1>2, <2>2, <2>3, <2>4, <2>5, <3>1, <3>4, MappedActions
  <2>6. CASE reply'[r] = "none"
    <3>1. reply' = reply
      BY <1>1, <2>1, <2>6 DEF TypeOK
    <3> QED BY <1>4, <3>1
  <2>7. CASE reply'[r] \notin {"none", "ok"}
    BY <1>2, <2>2, <2>3, <2>4, <2>7, MappedActions
  <2> QED BY <2>5, <2>6, <2>7
<1> QED BY <1>3, <1>4, <1>5

\* A script that writes applies its edit to the version that it loaded.
LEMMA WriteApplies ==
    ASSUME IInv, NEW s \in Scripts, WriteConfig(s)
    PROVE  Service!Apply(s[1], s[2])
<1>0. TypeOK /\ ScriptInv /\ VersionInv /\ stage[s] = "loaded"
  BY DEF IInv, WriteConfig
<1>1. s[1] \in Requests /\ s[2] \in Steps /\ s = <<s[1], s[2]>>
  BY ScriptId
<1>2. Admitted(s[1], s[2]) /\ wrote[s] = 0 /\ base[s] > 0 /\ config[s] = versions[base[s]]
  BY <1>0 DEF ScriptInv
<1>3. call[s[1]] # NoCall
  BY <1>2, NoCallIsNone DEF Admitted
<1>4. base[s] \in since[s[1]] .. Len(versions)
  <2>1. base[s] <= Len(versions) /\ since[s[1]] <= base[s]
    BY <1>0, <1>2 DEF VersionInv
  <2>2. base[s] \in Nat /\ since[s[1]] \in Nat /\ Len(versions) \in Nat
    BY <1>0, <1>1, LenProperties DEF TypeOK
  <2> QED BY <2>1, <2>2
<1>5. /\ Edits(versions[base[s]], call[s[1]], s[2])
      /\ versions' = Append(versions, Edited(versions[base[s]], call[s[1]], s[2], s[1]))
      /\ wrote' = [wrote EXCEPT ![s] = Len(versions) + 1]
      /\ UNCHANGED <<call, since, reply>>
  BY <1>2 DEF WriteConfig, taskVars
<1>6. s \notin Applied /\ Applied' = Applied \cup {s}
  <2>1. Len(versions) + 1 > 0
    BY <1>0, LenProperties DEF TypeOK
  <2> QED BY <1>0, <1>2, <1>5, <2>1 DEF Applied, TypeOK
<1>7. UNCHANGED <<call, since, Answers>>
  BY <1>5 DEF Answers
<1> QED BY <1>1, <1>2, <1>3, <1>4, <1>5, <1>6, <1>7, MappedApply DEF Admitted

\* Every step of the write path is one that ConfigService allows, or changes
\* nothing that it speaks of.
LEMMA StepIsAllowed ==
    ASSUME IInv, IInv', ReplyInv, [Next]_vars
    PROVE  [Service!ANext]_(Service!aVars)
<1>1. ASSUME UNCHANGED <<versions, call, since, reply, wrote>>
      PROVE  UNCHANGED Service!aVars
  BY <1>1 DEF Service!aVars
<1>2. ASSUME NEW r \in Requests, AppStep(r) PROVE [Service!ANext]_(Service!aVars)
  <2>1. CASE Arrive(r)
    BY <2>1, ArriveOpens DEF Service!ANext
  <2>2. CASE Cancel(r)
    BY <1>1, <2>2 DEF Cancel, scriptVars, routerVars
  <2>3. CASE Returns(r)
    <3>1. CASE Service!AnswerOk(r) \/ Service!AnswerError(r)
      BY <3>1 DEF Service!ANext
    <3>2. CASE UNCHANGED <<versions, call, since, Answers, Applied>>
      BY <3>2 DEF Service!aVars, Answers, Applied
    <3> QED BY <2>3, <3>1, <3>2, ReturnAnswers
  <2> QED BY <1>2, <2>1, <2>2, <2>3 DEF AppStep
<1>3. ASSUME NEW r \in Requests, SendScript(r) PROVE UNCHANGED Service!aVars
  BY <1>1, <1>3 DEF SendScript, routerVars
<1>4. ASSUME NEW s \in Scripts, Script(s) PROVE [Service!ANext]_(Service!aVars)
  <2>1. CASE WriteConfig(s)
    <3>1. Service!Apply(s[1], s[2]) /\ s[1] \in Requests /\ s[2] \in Service!Steps
      BY <2>1, WriteApplies, ScriptId, SameWords
    <3> QED BY <3>1 DEF Service!ANext
  <2>2. CASE ~WriteConfig(s)
    <3>1. UNCHANGED <<versions, wrote>>
      BY <1>4, <2>2 DEF Script, LoadConfig, Reconfigure, Echo, EchoNotFound, Die, routerVars
    <3> QED BY <1>1, <1>4, <3>1, ScriptFrame
  <2> QED BY <2>1, <2>2
<1>5. CASE UNCHANGED vars
  BY <1>1, <1>5 DEF vars, taskVars, scriptVars, routerVars
<1> QED BY <1>2, <1>3, <1>4, <1>5, Cases

\* The write path keeps the promise of ConfigService for any number of
\* requests: whatever is lost, cancelled or written back stale, an edit is
\* applied once, validated, to a version no older than its request, and an ok
\* that promises it comes after it.
THEOREM PromiseKept == Spec => ServiceSpec
<1>1. Init => Service!AInit /\ ReplyInv
  <2> SUFFICES ASSUME Init PROVE Service!AInit /\ ReplyInv
    OBVIOUS
  <2>1. Answers = [r \in Requests |-> "none"] /\ Applied = {}
    <3>1. \A r \in Requests : reply[r] = "none"
      BY DEF Init
    <3>2. \A s \in Scripts : wrote[s] = 0
      BY DEF Init
    <3> QED BY <3>1, <3>2 DEF Answers, Applied
  <2> QED BY <2>1, Mapped DEF Init, ReplyInv
<1>2. IInv /\ ReplyInv /\ [Next]_vars => ReplyInv'
  BY ReplyStep
<1>3. IInv /\ IInv' /\ ReplyInv /\ [Next]_vars => [Service!ANext]_(Service!aVars)
  BY StepIsAllowed
<1> QED BY <1>1, <1>2, <1>3, Invariant, PTL DEF Spec, ServiceSpec, Service!ConfigServiceSpec
=============================================================================
