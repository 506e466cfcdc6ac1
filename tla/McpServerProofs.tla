-------------------------- MODULE McpServerProofs --------------------------
(***************************************************************************)
(* What the loop of McpServer keeps, for every set of lines a host may     *)
(* write, in any number and order, and every size of the pipe.             *)
(***************************************************************************)
EXTENDS McpServer, TLAPS

\* A line that is being called or answered deserves it.
StageInv ==
    /\ stage \in {"calling", "running"} =>
            /\ pos <= Len(written)
            /\ IsRequest(written[pos])
            /\ IsCall(written[pos])
    /\ stage = "answering" =>
            /\ pos <= Len(written)
            /\ Deserves(written[pos])

\* Only the line the loop is at can have reached the router this late.
ReachedInv ==
    \A k \in DOMAIN reached :
        /\ reached[k] <= pos
        /\ reached[k] <= Len(written)
        /\ stage \in {"reading", "calling"} => reached[k] < pos

IInv == TypeOK /\ StageInv /\ AnswersInOrder /\ ReachedInv /\ OnlyWholeCallsReach

---------------------------------------------------------------------------
\* A list that is appended to is one longer, and ends with what was appended.
LEMMA AppendEnds ==
    ASSUME NEW S, NEW s \in Seq(S), NEW e \in S
    PROVE  /\ Append(s, e) \in Seq(S)
           /\ Len(Append(s, e)) = Len(s) + 1
           /\ Append(s, e)[Len(s) + 1] = e
           /\ DOMAIN Append(s, e) = DOMAIN s \cup {Len(s) + 1}
           /\ DOMAIN s = 1 .. Len(s)
  OBVIOUS

\* A line of the model is one of those the host writes.
LEMMA LineType ==
    ASSUME TypeOK, NEW i \in 1 .. Len(written)
    PROVE  written[i] \in Line
  BY DEF TypeOK

\* An answer is to a line.
LEMMA AnswerType ==
    ASSUME TypeOK, NEW k \in DOMAIN answers
    PROVE  answers[k].to \in Nat /\ answers[k].to >= 1
<1>1. answers[k] \in Answer BY DEF TypeOK
<1>2. QED BY <1>1 DEF Answer

\* The loop starts in a state the invariant describes.
LEMMA InitIInv == ASSUME Init PROVE IInv
<1>0. <<>> \in Seq(Line) /\ <<>> \in Seq(Answer) /\ <<>> \in Seq(Nat \ {0}) /\ Len(<<>>) = 0
  OBVIOUS
<1>1. TypeOK
  <2>1. written \in Seq(Line) /\ answers \in Seq(Answer) /\ reached \in Seq(Nat \ {0})
    BY <1>0 DEF Init
  <2>2. taken \in 0 .. piped /\ piped = Len(answers) /\ pos \in 1 .. Len(written) + 1
    BY <1>0 DEF Init
  <2>3. QED BY <2>1, <2>2 DEF Init, TypeOK, Outcomes
<1>2. StageInv BY DEF Init, StageInv
<1>3. DOMAIN answers = {} /\ DOMAIN reached = {} /\ 1 .. pos - 1 = {}
  BY DEF Init
<1>4. AnswersInOrder BY <1>3 DEF AnswersInOrder
<1>5. ReachedInv /\ OnlyWholeCallsReach BY <1>3 DEF ReachedInv, OnlyWholeCallsReach
<1>6. QED BY <1>1, <1>2, <1>4, <1>5 DEF IInv

\* Every step keeps the types.
LEMMA StepType == ASSUME IInv, Next PROVE TypeOK'
<1> USE DEF TypeOK, IInv, hostVars, loopVars
<1>1. CASE WriteLine BY <1>1, McpAssumption DEF WriteLine
<1>2. CASE CloseInput BY <1>2 DEF CloseInput
<1>3. CASE ReadAnswer BY <1>3 DEF ReadAnswer
<1>4. CASE StopListening BY <1>4 DEF StopListening
<1>5. CASE Kill BY <1>5 DEF Kill
<1>6. CASE SkipLine BY <1>6 DEF SkipLine, HasLine
<1>7. CASE ReadGarbage BY <1>7 DEF ReadGarbage, Outcomes
<1>8. CASE ReadRequest BY <1>8 DEF ReadRequest, Direct, Outcomes
<1>9. CASE EndUnreadable BY <1>9 DEF EndUnreadable
<1>10. CASE EndClosed BY <1>10 DEF EndClosed
<1>11. CASE CallFails BY <1>11 DEF CallFails, Outcomes
<1>12. CASE CallSends BY <1>12, AppendEnds DEF CallSends
<1>13. CASE CallEnds BY <1>13 DEF CallEnds, Outcomes
<1>14. CASE WriteAnswer
  <2> DEFINE a == [to |-> pos, id |-> IdOf(written[pos]), outcome |-> outcome]
  <2>1. pos \in 1 .. Len(written) /\ written[pos] \in Line
    BY <1>14, LineType DEF WriteAnswer, StageInv
  <2>2. a \in Answer
    BY <2>1 DEF Answer, IdOf, Line
  <2>3. QED BY <1>14, <2>1, <2>2 DEF WriteAnswer
<1>15. CASE WriteFails BY <1>15 DEF WriteFails, StageInv
<1>16. CASE Flush BY <1>16 DEF Flush
<1>17. CASE Exit \/ NeverEnds BY <1>17 DEF Exit, NeverEnds
<1>18. QED
  BY <1>1, <1>2, <1>3, <1>4, <1>5, <1>6, <1>7, <1>8, <1>9, <1>10, <1>11, <1>12, <1>13,
     <1>14, <1>15, <1>16, <1>17 DEF Next, Host, Loop

\* Every step leaves the line at hand one that deserves what happens to it.
LEMMA StepStage == ASSUME IInv, Next PROVE StageInv'
<1> USE DEF IInv, StageInv, hostVars, loopVars
<1>1. CASE WriteLine
  <2>1. PICK line \in Lines : written' = Append(written, line)
    BY <1>1 DEF WriteLine
  <2>2. \A i \in 1 .. Len(written) : written'[i] = written[i]
    BY <2>1, McpAssumption DEF TypeOK
  <2>3. Len(written') = Len(written) + 1 /\ pos \in Nat \ {0} /\ Len(written) \in Nat
    BY <2>1, McpAssumption DEF TypeOK
  <2>4. stage' = stage /\ pos' = pos
    BY <1>1 DEF WriteLine
  <2>5. pos <= Len(written) => written'[pos'] = written[pos] /\ pos <= Len(written')
    BY <2>2, <2>3, <2>4
  <2>6. QED BY <2>4, <2>5 DEF IsRequest, IsCall, HasFields, Deserves
<1>2. CASE CloseInput \/ ReadAnswer \/ StopListening \/ Flush
  BY <1>2 DEF CloseInput, ReadAnswer, StopListening, Flush, IsRequest, IsCall, HasFields, Deserves
<1>3. CASE Kill BY <1>3 DEF Kill
<1>4. CASE SkipLine BY <1>4 DEF SkipLine, HasLine
<1>5. CASE ReadGarbage BY <1>5 DEF ReadGarbage, HasLine, Deserves
<1>6. CASE ReadRequest
  BY <1>6 DEF ReadRequest, HasLine, Deserves, IsRequest, IsCall, HasFields
<1>7. CASE EndUnreadable \/ EndClosed \/ Exit \/ NeverEnds
  BY <1>7 DEF EndUnreadable, EndClosed, Exit, NeverEnds
<1>8. CASE CallFails \/ CallSends \/ CallEnds
  BY <1>8 DEF CallFails, CallSends, CallEnds, Deserves, IsRequest, IsCall, HasFields
<1>9. CASE WriteAnswer \/ WriteFails BY <1>9 DEF WriteAnswer, WriteFails
<1>10. QED
  BY <1>1, <1>2, <1>3, <1>4, <1>5, <1>6, <1>7, <1>8, <1>9 DEF Next, Host, Loop

---------------------------------------------------------------------------
\* The answers to the lines that the loop has left are in order; this is what
\* a step that writes no answer and leaves no line has to keep.
LEMMA AnswersKept ==
    ASSUME IInv, answers' = answers, pos' = pos,
           Len(written') \in Nat,
           \A i \in 1 .. Len(written) : written'[i] = written[i],
           listening' => listening
    PROVE  AnswersInOrder'
<1>1. \A k \in DOMAIN answers : answers[k].to \in 1 .. pos - 1
  BY AnswerType DEF IInv, TypeOK, AnswersInOrder
<1>2. \A i \in 1 .. pos - 1 : written'[i] = written[i]
  BY DEF IInv, TypeOK
<1>3. \A i : Handed(i)' <=> Handed(i)
  BY DEF Handed
<1>4. \A k \in DOMAIN answers' : written'[answers'[k].to] = written[answers[k].to]
  BY <1>1, <1>2
<1>5. \A k \in DOMAIN answers' :
        LET line == written'[answers'[k].to] IN
        /\ answers'[k].to < pos'
        /\ Deserves(line)
        /\ line.form = "json" => answers'[k].id = line.id
        /\ line.form = "garbage" => answers'[k].id = Null
  BY <1>4 DEF IInv, AnswersInOrder
<1>6. \A j, k \in DOMAIN answers' : j < k => answers'[j].to < answers'[k].to
  BY DEF IInv, AnswersInOrder
<1>7. listening' => \A i \in 1 .. pos' - 1 : Deserves(written'[i]) => Handed(i)'
  BY <1>2, <1>3 DEF IInv, AnswersInOrder
<1>8. QED BY <1>5, <1>6, <1>7 DEF AnswersInOrder

\* A line that is left without an answer deserves none, or nobody listens.
LEMMA AnswersPassed ==
    ASSUME IInv, UNCHANGED <<answers, written, listening>>, pos' = pos + 1,
           listening => ~Deserves(written[pos])
    PROVE  AnswersInOrder'
<1>1. \A k \in DOMAIN answers : answers[k].to \in Nat
  BY AnswerType DEF IInv
<1>2. pos \in Nat /\ \A i \in 1 .. pos' - 1 : i = pos \/ i \in 1 .. pos - 1
  BY DEF IInv, TypeOK
<1>3. \A k \in DOMAIN answers : answers[k].to < pos => answers[k].to < pos'
  BY <1>1, <1>2
<1>4. listening => \A i \in 1 .. pos' - 1 : Deserves(written[i]) => Handed(i)
  BY <1>2 DEF IInv, AnswersInOrder
<1>5. QED BY <1>3, <1>4 DEF IInv, AnswersInOrder, Handed

\* The answer that is written is the next in order, to the line at hand.
LEMMA AnswersWritten == ASSUME IInv, WriteAnswer PROVE AnswersInOrder'
<1> DEFINE a == [to |-> pos, id |-> IdOf(written[pos]), outcome |-> outcome]
           last == Len(answers) + 1
<1>1. /\ pos \in 1 .. Len(written) /\ pos \in Nat /\ written[pos] \in Line
      /\ Deserves(written[pos])
  BY LineType DEF WriteAnswer, StageInv, IInv, TypeOK
<1>2. a \in Answer
  BY <1>1 DEF IInv, TypeOK, Answer, IdOf, Line
<1>3. /\ DOMAIN answers' = DOMAIN answers \cup {last}
      /\ answers'[last] = a
      /\ \A k \in DOMAIN answers : answers'[k] = answers[k] /\ k \in Nat /\ k < last
      /\ last \in Nat
  BY <1>2 DEF WriteAnswer, IInv, TypeOK
<1>4. /\ written' = written /\ listening' = listening /\ pos' = pos + 1
      /\ a.to = pos /\ a.id = IdOf(written[pos])
  BY DEF WriteAnswer, hostVars
<1>5. \A k \in DOMAIN answers : answers[k].to \in Nat /\ answers[k].to < pos
  BY AnswerType DEF IInv, AnswersInOrder
<1>6. \A k \in DOMAIN answers' :
        LET line == written'[answers'[k].to] IN
        /\ answers'[k].to < pos'
        /\ Deserves(line)
        /\ line.form = "json" => answers'[k].id = line.id
        /\ line.form = "garbage" => answers'[k].id = Null
  <2> SUFFICES ASSUME NEW k \in DOMAIN answers'
               PROVE  LET line == written[answers'[k].to] IN
                      /\ answers'[k].to < pos + 1
                      /\ Deserves(line)
                      /\ line.form = "json" => answers'[k].id = line.id
                      /\ line.form = "garbage" => answers'[k].id = Null
    BY <1>4
  <2>1. CASE k = last
    BY <2>1, <1>1, <1>3, <1>4 DEF IdOf
  <2>2. CASE k \in DOMAIN answers
    <3>1. answers'[k] = answers[k] /\ answers[k].to < pos + 1
      BY <2>2, <1>1, <1>3, <1>5
    <3>2. QED BY <2>2, <3>1 DEF IInv, AnswersInOrder
  <2>3. QED BY <2>1, <2>2, <1>3
<1>7. \A j, k \in DOMAIN answers' : j < k => answers'[j].to < answers'[k].to
  <2> SUFFICES ASSUME NEW j \in DOMAIN answers', NEW k \in DOMAIN answers', j < k
               PROVE  answers'[j].to < answers'[k].to
    OBVIOUS
  <2>1. j \in DOMAIN answers /\ (k \in DOMAIN answers \/ k = last)
    BY <1>3
  <2>2. CASE k \in DOMAIN answers
    BY <2>1, <2>2, <1>3 DEF IInv, AnswersInOrder
  <2>3. CASE k = last
    BY <2>1, <2>3, <1>3, <1>4, <1>5
  <2>4. QED BY <2>1, <2>2, <2>3
<1>8. \A i \in 1 .. pos' - 1 : Deserves(written'[i]) => Handed(i)'
  <2> SUFFICES ASSUME NEW i \in 1 .. pos' - 1, Deserves(written[i])
               PROVE  Handed(i)'
    BY <1>4
  <2>1. CASE i = pos
    BY <2>1, <1>3, <1>4 DEF Handed
  <2>2. CASE i \in 1 .. pos - 1
    <3>1. listening BY DEF WriteAnswer
    <3>2. PICK k \in DOMAIN answers : answers[k].to = i
      BY <2>2, <3>1 DEF IInv, AnswersInOrder, Handed
    <3>3. k \in DOMAIN answers' /\ answers'[k].to = i
      BY <3>2, <1>3
    <3>4. QED BY <3>3 DEF Handed
  <2>3. QED BY <2>1, <2>2, <1>1, <1>4
<1>9. QED BY <1>6, <1>7, <1>8 DEF AnswersInOrder

\* Every step keeps the answers in order.
LEMMA StepAnswers == ASSUME IInv, Next PROVE AnswersInOrder'
<1> USE DEF hostVars, loopVars
<1>0. Len(written) \in Nat BY DEF IInv, TypeOK
<1>1. CASE WriteLine
  <2>1. PICK line \in Lines : written' = Append(written, line)
    BY <1>1 DEF WriteLine
  <2>2. /\ Len(written') \in Nat
        /\ \A i \in 1 .. Len(written) : written'[i] = written[i]
    BY <2>1, McpAssumption DEF IInv, TypeOK
  <2>3. QED BY <1>1, <2>2, AnswersKept DEF WriteLine
<1>2. CASE CloseInput \/ ReadAnswer \/ StopListening \/ Kill
  BY <1>0, <1>2, AnswersKept DEF CloseInput, ReadAnswer, StopListening, Kill
<1>3. CASE SkipLine
  BY <1>3, AnswersPassed DEF SkipLine, IsRequest, Deserves
<1>4. CASE ReadGarbage \/ ReadRequest \/ EndUnreadable \/ EndClosed \/ Exit
  BY <1>0, <1>4, AnswersKept DEF ReadGarbage, ReadRequest, EndUnreadable, EndClosed, Exit
<1>5. CASE CallFails \/ CallSends \/ CallEnds \/ NeverEnds \/ Flush
  BY <1>0, <1>5, AnswersKept DEF CallFails, CallSends, CallEnds, NeverEnds, Flush
<1>6. CASE WriteAnswer BY <1>6, AnswersWritten
<1>7. CASE WriteFails BY <1>7, AnswersPassed DEF WriteFails
<1>8. QED BY <1>1, <1>2, <1>3, <1>4, <1>5, <1>6, <1>7 DEF Next, Host, Loop

---------------------------------------------------------------------------
\* What a call that touched the router was asked with.
Whole(line) ==
    /\ line.form = "json" /\ line.id # Null
    /\ line.method = "tools/call"
    /\ line.action \in ActionsOf(line.tool)
    /\ \A f \in Required(line.tool, line.action) :
        /\ line.fields[f] \notin {"absent", "empty"}
        /\ line.tool = "network" => line.fields[f] = "text"

\* OnlyWholeCallsReach, in short.
LEMMA OnlyWhole ==
    OnlyWholeCallsReach <=>
        /\ \A k \in DOMAIN reached : reached[k] <= pos /\ Whole(written[reached[k]])
        /\ \A j, k \in DOMAIN reached : j < k => reached[j] < reached[k]
  BY DEF OnlyWholeCallsReach, Whole

\* A call that is at hand has something in all its fields, and is refused by
\* the service if it is one of `network` and that is not a string.
LEMMA CallIsWhole == ASSUME IInv, CallSends PROVE Whole(written[pos])
<1> DEFINE line == written[pos]
<1>1. IsRequest(line) /\ IsCall(line)
  BY DEF IInv, StageInv, CallSends
<1>2. \A f \in Required(line.tool, line.action) : line.fields[f] \notin {"absent", "empty"}
  BY <1>1 DEF IsCall, HasFields
<1>3. line.tool = "network" =>
        \A f \in Required(line.tool, line.action) : line.fields[f] = "text"
  BY DEF CallSends, EmptyArguments
<1>4. QED BY <1>1, <1>2, <1>3 DEF Whole, IsRequest, IsCall

\* What has reached the router stays whole and in order while nothing else does.
LEMMA ReachedKept ==
    ASSUME IInv, reached' = reached, pos' \in {pos, pos + 1},
           Len(written') \in Nat, Len(written) <= Len(written'),
           \A i \in 1 .. Len(written) : written'[i] = written[i],
           stage' \in {"reading", "calling"} =>
               pos' = pos + 1 \/ stage \in {"reading", "calling"}
    PROVE  ReachedInv' /\ OnlyWholeCallsReach'
<1>1. \A k \in DOMAIN reached :
        /\ reached[k] \in 1 .. Len(written)
        /\ reached[k] <= pos
        /\ written'[reached[k]] = written[reached[k]]
  BY DEF IInv, TypeOK, ReachedInv
<1>2. pos \in Nat /\ Len(written) \in Nat /\ pos' \in Nat
  BY DEF IInv, TypeOK
<1>3. ReachedInv'
  BY <1>1, <1>2 DEF IInv, ReachedInv
<1>4. \A k \in DOMAIN reached' : reached'[k] <= pos' /\ Whole(written'[reached'[k]])
  BY <1>1, <1>2, OnlyWhole DEF IInv
<1>5. \A j, k \in DOMAIN reached' : j < k => reached'[j] < reached'[k]
  BY OnlyWhole DEF IInv
<1>6. OnlyWholeCallsReach'
  BY <1>4, <1>5 DEF OnlyWholeCallsReach, Whole
<1>7. QED BY <1>3, <1>6

\* The call that is sent is whole, and later than all before it.
LEMMA ReachedSent == ASSUME IInv, CallSends PROVE ReachedInv' /\ OnlyWholeCallsReach'
<1> DEFINE last == Len(reached) + 1
<1>1. /\ pos \in Nat \ {0} /\ pos <= Len(written) /\ Len(written) \in Nat
      /\ \A k \in DOMAIN reached : reached[k] \in Nat /\ reached[k] < pos
  BY DEF IInv, TypeOK, ReachedInv, StageInv, CallSends
<1>2. /\ DOMAIN reached' = DOMAIN reached \cup {last}
      /\ reached'[last] = pos
      /\ \A k \in DOMAIN reached : reached'[k] = reached[k] /\ k \in Nat /\ k < last
      /\ last \in Nat
  BY <1>1 DEF CallSends, IInv, TypeOK
<1>3. written' = written /\ pos' = pos /\ stage' = "running"
  BY DEF CallSends, hostVars
<1>4. ReachedInv'
  BY <1>1, <1>2, <1>3 DEF IInv, ReachedInv
<1>5. \A k \in DOMAIN reached' : reached'[k] <= pos' /\ Whole(written'[reached'[k]])
  BY <1>1, <1>2, <1>3, CallIsWhole, OnlyWhole DEF IInv
<1>6. \A j, k \in DOMAIN reached' : j < k => reached'[j] < reached'[k]
  <2> SUFFICES ASSUME NEW j \in DOMAIN reached', NEW k \in DOMAIN reached', j < k
               PROVE  reached'[j] < reached'[k]
    OBVIOUS
  <2>1. j \in DOMAIN reached
    BY <1>2
  <2>2. CASE k \in DOMAIN reached
    BY <2>1, <2>2, <1>2, OnlyWhole DEF IInv
  <2>3. CASE k = last
    BY <2>1, <2>3, <1>1, <1>2
  <2>4. QED BY <2>2, <2>3, <1>2
<1>7. OnlyWholeCallsReach'
  BY <1>5, <1>6 DEF OnlyWholeCallsReach, Whole
<1>8. QED BY <1>4, <1>7

\* Every step keeps what has reached the router whole and in order.
LEMMA StepReached == ASSUME IInv, Next PROVE ReachedInv' /\ OnlyWholeCallsReach'
<1> USE DEF hostVars, loopVars
<1>0. Len(written) \in Nat BY DEF IInv, TypeOK
<1>1. CASE WriteLine
  <2>1. PICK line \in Lines : written' = Append(written, line)
    BY <1>1 DEF WriteLine
  <2>2. /\ Len(written') \in Nat /\ Len(written) <= Len(written')
        /\ \A i \in 1 .. Len(written) : written'[i] = written[i]
    BY <2>1, McpAssumption DEF IInv, TypeOK
  <2>3. QED BY <1>1, <2>2, ReachedKept DEF WriteLine
<1>2. CASE CloseInput \/ ReadAnswer \/ StopListening \/ Kill
  BY <1>0, <1>2, ReachedKept DEF CloseInput, ReadAnswer, StopListening, Kill
<1>3. CASE SkipLine
  BY <1>0, <1>3, ReachedKept DEF SkipLine, HasLine
<1>4. CASE ReadGarbage \/ ReadRequest \/ EndUnreadable \/ EndClosed \/ Exit
  BY <1>0, <1>4, ReachedKept DEF ReadGarbage, ReadRequest, EndUnreadable, EndClosed, Exit, HasLine
<1>5. CASE CallFails \/ CallEnds \/ NeverEnds \/ Flush
  BY <1>0, <1>5, ReachedKept DEF CallFails, CallEnds, NeverEnds, Flush
<1>6. CASE CallSends BY <1>6, ReachedSent
<1>7. CASE WriteAnswer \/ WriteFails
  BY <1>0, <1>7, ReachedKept DEF WriteAnswer, WriteFails
<1>8. QED BY <1>1, <1>2, <1>3, <1>4, <1>5, <1>6, <1>7 DEF Next, Host, Loop

---------------------------------------------------------------------------
\* The inductive invariant of the loop.
THEOREM Invariant == Spec => []IInv
<1>1. IInv /\ [Next]_vars => IInv'
  <2> SUFFICES ASSUME IInv, [Next]_vars PROVE IInv' OBVIOUS
  <2>1. CASE Next
    BY <2>1, StepType, StepStage, StepAnswers, StepReached DEF IInv
  <2>2. CASE UNCHANGED vars
    BY <2>2 DEF IInv, TypeOK, StageInv, AnswersInOrder, ReachedInv, OnlyWholeCallsReach,
       Handed, IsCall, HasFields, vars, hostVars, loopVars
  <2>3. QED BY <2>1, <2>2
<1>2. QED BY InitIInv, <1>1, PTL DEF Spec

\* Every variable keeps its type, whatever lines the host writes.
THEOREM TypeCorrect == Spec => []TypeOK
<1>1. IInv => TypeOK BY DEF IInv
<1>2. QED BY <1>1, Invariant, PTL

\* The answers are in the order of the requests, each under its own id, and
\* none is missing of the lines the loop has left, for any number of lines and
\* any pipe (run).
THEOREM AnsweredInOrder == Spec => []AnswersInOrder
<1>1. IInv => AnswersInOrder BY DEF IInv
<1>2. QED BY <1>1, Invariant, PTL

\* What reaches the router was asked for whole, in order and once (dispatch,
\* validate).
THEOREM OnlyWholeCalls == Spec => []OnlyWholeCallsReach
<1>1. IInv => OnlyWholeCallsReach BY DEF IInv
<1>2. QED BY <1>1, Invariant, PTL

\* A host that listens is in doubt about two calls at most, the one at the
\* router and the one whose answer tokio still holds: all that reached the
\* router before have their answers in the pipe, and no line is carried out
\* twice.
THEOREM TwoInDoubt == Spec => []AtMostTwoInDoubt
<1>1. IInv => AtMostTwoInDoubt
  <2> DEFINE last == Len(reached)
             held == Len(answers)
  <2> SUFFICES ASSUME IInv, listening, NEW k \in DOMAIN reached,
                      ~Answered(reached[k]), ~(k >= last - 1)
               PROVE  FALSE
    BY DEF AtMostTwoInDoubt
  <2>1. /\ k \in Nat /\ last \in Nat /\ k < last - 1
        /\ last \in DOMAIN reached /\ last - 1 \in DOMAIN reached
        /\ \A n \in DOMAIN reached : reached[n] \in Nat \ {0}
        /\ pos \in Nat /\ held \in Nat /\ DOMAIN answers = 1 .. held
    BY DEF IInv, TypeOK
  <2>2. reached[k] < reached[last - 1] /\ reached[last - 1] < reached[last] /\ reached[last] <= pos
    <3>1. reached[k] < reached[last - 1]
      BY <2>1 DEF IInv, OnlyWholeCallsReach
    <3>2. reached[last - 1] < reached[last]
      BY <2>1 DEF IInv, OnlyWholeCallsReach
    <3>3. QED BY <3>1, <3>2, <2>1 DEF IInv, ReachedInv
  <2>3. Handed(reached[k]) /\ Handed(reached[last - 1])
    <3>1. /\ Deserves(written[reached[k]]) /\ reached[k] \in 1 .. pos - 1
          /\ Deserves(written[reached[last - 1]]) /\ reached[last - 1] \in 1 .. pos - 1
      BY <2>1, <2>2 DEF IInv, OnlyWholeCallsReach, Deserves
    <3>2. QED BY <3>1 DEF IInv, AnswersInOrder
  <2>4. PICK i \in Nat : i \in 1 .. held /\ answers[i].to = reached[k]
    BY <2>1, <2>3 DEF Handed
  <2>5. PICK j \in Nat : j \in 1 .. held /\ answers[j].to = reached[last - 1]
    BY <2>1, <2>3 DEF Handed
  <2>6. i = held
    <3>1. ~(i \in 1 .. piped) BY <2>4 DEF Answered
    <3>2. piped = held \/ piped = held - 1 BY DEF IInv, TypeOK
    <3>3. i <= held /\ ~(i <= piped) /\ held \in Nat
      BY <3>1, <3>2, <2>1, <2>4
    <3>4. QED BY <3>2, <3>3
  <2>7. ~(j < i) /\ i # j
    BY <2>1, <2>2, <2>4, <2>5 DEF IInv, AnswersInOrder
  <2>8. j <= held /\ held \in Nat BY <2>1, <2>5
  <2>9. QED BY <2>5, <2>6, <2>7, <2>8
<1>2. QED BY <1>1, Invariant, PTL
=============================================================================
