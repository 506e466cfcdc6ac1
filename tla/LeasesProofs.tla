---------------------------- MODULE LeasesProofs ----------------------------
(***************************************************************************)
(* What parse_isc_leases makes of any dhcpd.leases, whole or cut after any *)
(* line: leases that dhcpd has written, one a client, and of a whole file  *)
(* none that another of the client outlasts.                               *)
(***************************************************************************)
EXTENDS Leases, Induction

---------------------------------------------------------------------------
(* The loop over a list. *)

\* What a loop does with an element of B leads from A to A.
LoopBody(A, B) == [A -> [B -> A]]

\* A loop starts with what it is given, and its last element is its last step.
LEMMA FoldedList ==
    ASSUME NEW A, NEW B, NEW step \in LoopBody(A, B), NEW first \in A
    PROVE  /\ Folded(step, first, <<>>) = first
           /\ \A s \in Seq(B) : Folded(step, first, s) \in A
           /\ \A s \in Seq(B), x \in B :
                Folded(step, first, Append(s, x)) = step[Folded(step, first, s)][x]
<1> DEFINE g(s) == CHOOSE f : IsIteration(f, step, first, s)
<1>1. ASSUME NEW s \in Seq(B)
      PROVE  /\ IsIteration(g(s), step, first, s)
             /\ Folded(step, first, s) = g(s)[Len(s)]
  <2>1. \E f : IsIteration(f, step, first, s)
    BY IterationExists DEF LoopBody
  <2>2. IsIteration(g(s), step, first, s)
    BY <2>1
  <2>3. Folded(step, first, s) = g(s)[Len(s)]
    BY DEF Folded, IsIteration
  <2> QED BY <2>2, <2>3
<1> HIDE DEF g
<1>2. Folded(step, first, <<>>) = first
  <2>1. <<>> \in Seq(B) /\ Len(<<>>) = 0
    BY EmptySeq
  <2>2. IsIteration(g(<<>>), step, first, <<>>) /\ Folded(step, first, <<>>) = g(<<>>)[0]
    BY <1>1, <2>1
  <2> QED BY <2>1, <2>2 DEF IsIteration
<1>3. ASSUME NEW s \in Seq(B), NEW x \in B
      PROVE  Folded(step, first, Append(s, x)) = step[Folded(step, first, s)][x]
  <2> DEFINE t == Append(s, x)
  <2>0. /\ Len(s) \in Nat /\ t \in Seq(B) /\ Len(t) = Len(s) + 1 /\ t[Len(s) + 1] = x
        /\ SubSeq(t, 1, Len(s)) = s
    <3>1. Len(s) \in Nat
      BY LenProperties
    <3>2. SubSeq(t, 1, Len(s)) = SubSeq(s, 1, Len(s))
      BY <3>1, PrefixOfAppend, Len(s) \in 0 .. Len(s)
    <3> QED BY <3>1, <3>2, AppendProperties, SubSeqFull
  <2> HIDE DEF t
  <2>1. IsIteration(g(s), step, first, s) /\ IsIteration(g(t), step, first, t)
    BY <1>1, <2>0
  <2>2. g(s)[Len(s)] = g(t)[Len(s)]
    <3>1. Len(s) \in 0 .. Len(t)
      BY <2>0
    <3>2. IsIteration(g(s), step, first, SubSeq(t, 1, Len(s)))
      BY <2>0, <2>1, Zenon
    <3> QED BY <2>0, <2>1, <3>1, <3>2, IterationOfPrefix
  <2>3. g(t)[Len(s) + 1] = step[g(t)[Len(s)]][x]
    <3>1. Len(s) + 1 \in 0 .. Len(t) /\ Len(s) + 1 # 0 /\ (Len(s) + 1) - 1 = Len(s)
      BY <2>0
    <3>2. g(t)[Len(s) + 1] = step[g(t)[(Len(s) + 1) - 1]][t[Len(s) + 1]]
      BY <2>1, <3>1 DEF IsIteration
    <3> QED BY <2>0, <3>1, <3>2
  <2>4. Folded(step, first, s) = g(s)[Len(s)] /\ Folded(step, first, t) = g(t)[Len(s) + 1]
    BY <1>1, <2>0
  <2> QED BY <2>2, <2>3, <2>4 DEF t
<1>4. \A s \in Seq(B) : Folded(step, first, s) \in A
  <2> DEFINE T == {s \in Seq(B) : Folded(step, first, s) \in A}
  <2>1. <<>> \in T
    BY <1>2, EmptySeq
  <2>2. \A s \in Seq(B), x \in B : s \in T => Append(s, x) \in T
    BY <1>3, AppendProperties DEF LoopBody
  <2>3. Seq(B) \subseteq T
    <3> HIDE DEF T
    <3> QED BY <2>1, <2>2, ListInduction
  <2> QED BY <2>3
<1> QED BY <1>2, <1>3, <1>4

---------------------------------------------------------------------------
(* The file. *)

Opening(b) == Line("lease", b.ip)
Ending(b) == Line("ends", b.ends)
OtherLine == Line("other", 0)
Hardware(b) == Line("hardware", b.mac)
Closing == Line("}", 0)

\* A block is four lines, or five if it has a client.
LEMMA TextLines ==
    ASSUME NEW b \in Block
    PROVE  /\ Opening(b) \in LogLine /\ Ending(b) \in LogLine /\ OtherLine \in LogLine
           /\ Closing \in LogLine
           /\ b.mac # NoMac => Hardware(b) \in LogLine
           /\ Text(b) \in Seq(LogLine)
           /\ Len(Text(b)) = IF b.mac = NoMac THEN 4 ELSE 5
           /\ Text(b)[1] = Opening(b) /\ Text(b)[2] = Ending(b) /\ Text(b)[3] = OtherLine
           /\ b.mac # NoMac => Text(b)[4] = Hardware(b)
           /\ Text(b)[Len(Text(b))] = Closing
<1>1. b.ip \in Addresses /\ b.ends \in Times /\ b.mac \in Macs \cup {NoMac}
  BY DEF Block
<1>2. /\ Opening(b) \in LogLine /\ Ending(b) \in LogLine /\ OtherLine \in LogLine
      /\ Closing \in LogLine
      /\ b.mac # NoMac => Hardware(b) \in LogLine
  BY <1>1 DEF LogLine, Line, Opening, Ending, OtherLine, Hardware, Closing
<1> HIDE DEF LogLine
<1>3. CASE b.mac = NoMac
  <2>1. Text(b) = <<Opening(b), Ending(b), OtherLine, Closing>>
    BY <1>3 DEF Text, Opening, Ending, OtherLine, Closing
  <2>2. Len(Text(b)) = 4
    BY <2>1
  <2> QED BY <1>2, <1>3, <2>1, <2>2
<1>4. CASE b.mac # NoMac
  <2>1. Text(b) = <<Opening(b), Ending(b), OtherLine, Hardware(b), Closing>>
    BY <1>4 DEF Text, Opening, Ending, OtherLine, Hardware, Closing
  <2>2. Len(Text(b)) = 5
    BY <2>1
  <2> QED BY <1>2, <1>4, <2>1, <2>2
<1> QED BY <1>3, <1>4

\* The lines of a log that a block is appended to.
LEMMA LinesOf ==
    /\ Lines(<<>>) = <<>>
    /\ \A log \in Seq(Block) : Lines(log) \in Seq(LogLine)
    /\ \A log \in Seq(Block), b \in Block : Lines(Append(log, b)) = Lines(log) \o Text(b)
<1>1. AfterBlock \in LoopBody(Seq(LogLine), Block)
  <2>1. \A lines \in Seq(LogLine), b \in Block : lines \o Text(b) \in Seq(LogLine)
    BY TextLines, ConcatProperties
  <2> QED BY <2>1 DEF AfterBlock, LoopBody
<1>2. <<>> \in Seq(LogLine)
  BY EmptySeq
<1>3. /\ Folded(AfterBlock, <<>>, <<>>) = <<>>
      /\ \A log \in Seq(Block) : Folded(AfterBlock, <<>>, log) \in Seq(LogLine)
      /\ \A log \in Seq(Block), b \in Block :
            Folded(AfterBlock, <<>>, Append(log, b)) = AfterBlock[Folded(AfterBlock, <<>>, log)][b]
  BY <1>1, <1>2, FoldedList
<1>4. \A lines \in Seq(LogLine), b \in Block : AfterBlock[lines][b] = lines \o Text(b)
  BY DEF AfterBlock
<1> QED BY <1>3, <1>4 DEF Lines

\* A block is appended line by line.
LEMMA TextAppended ==
    ASSUME NEW lines \in Seq(LogLine), NEW b \in Block
    PROVE  lines \o Text(b) =
            LET rest == Append(Append(Append(lines, Opening(b)), Ending(b)), OtherLine) IN
            Append(IF b.mac = NoMac THEN rest ELSE Append(rest, Hardware(b)), Closing)
<1> DEFINE l1 == Append(lines, Opening(b))
<1> DEFINE l2 == Append(l1, Ending(b))
<1> DEFINE l3 == Append(l2, OtherLine)
<1> DEFINE l4 == IF b.mac = NoMac THEN l3 ELSE Append(l3, Hardware(b))
<1> DEFINE whole == lines \o Text(b)
<1> DEFINE l5 == Append(l4, Closing)
<1>0. Len(lines) \in Nat
  BY LenProperties
<1>1. /\ l1 \in Seq(LogLine) /\ Len(l1) = Len(lines) + 1 /\ l1[Len(lines) + 1] = Opening(b)
      /\ \A i \in 1 .. Len(lines) : l1[i] = lines[i]
  BY TextLines, AppendProperties
<1> HIDE DEF l1
<1>2. /\ l2 \in Seq(LogLine) /\ Len(l2) = Len(l1) + 1 /\ l2[Len(l1) + 1] = Ending(b)
      /\ \A i \in 1 .. Len(l1) : l2[i] = l1[i]
  BY <1>1, TextLines, AppendProperties
<1> HIDE DEF l2
<1>3. /\ l3 \in Seq(LogLine) /\ Len(l3) = Len(l2) + 1 /\ l3[Len(l2) + 1] = OtherLine
      /\ \A i \in 1 .. Len(l2) : l3[i] = l2[i]
  BY <1>2, TextLines, AppendProperties
<1> HIDE DEF l3
<1>4. /\ l4 \in Seq(LogLine)
      /\ Len(l4) = IF b.mac = NoMac THEN Len(l3) ELSE Len(l3) + 1
      /\ b.mac # NoMac => l4[Len(l3) + 1] = Hardware(b)
      /\ \A i \in 1 .. Len(l3) : l4[i] = l3[i]
  BY <1>3, TextLines, AppendProperties
<1> HIDE DEF l4
<1>5. /\ l5 \in Seq(LogLine) /\ Len(l5) = Len(l4) + 1 /\ l5[Len(l4) + 1] = Closing
      /\ \A i \in 1 .. Len(l4) : l5[i] = l4[i]
  BY <1>4, TextLines, AppendProperties
<1> HIDE DEF l5
<1>6. /\ Text(b) \in Seq(LogLine)
      /\ Len(Text(b)) = IF b.mac = NoMac THEN 4 ELSE 5
      /\ Text(b)[1] = Opening(b) /\ Text(b)[2] = Ending(b) /\ Text(b)[3] = OtherLine
      /\ b.mac # NoMac => Text(b)[4] = Hardware(b)
      /\ Text(b)[Len(Text(b))] = Closing
  BY TextLines
<1>7. /\ whole \in Seq(LogLine)
      /\ Len(whole) = Len(lines) + Len(Text(b))
      /\ \A i \in 1 .. Len(lines) + Len(Text(b)) :
            whole[i] = IF i <= Len(lines) THEN lines[i] ELSE Text(b)[i - Len(lines)]
  BY <1>6, ConcatProperties
<1> HIDE DEF whole
<1>8. Len(l1) = Len(lines) + 1 /\ Len(l2) = Len(lines) + 2 /\ Len(l3) = Len(lines) + 3
  BY <1>0, <1>1, <1>2, <1>3
<1>9. \A i \in 1 .. Len(l3) : l5[i] = l3[i]
  <2> TAKE i \in 1 .. Len(l3)
  <2>1. i \in 1 .. Len(l4)
    BY <1>0, <1>4, <1>8
  <2> QED BY <2>1, <1>4, <1>5
<1>10. \A i \in 1 .. Len(lines) : l5[i] = lines[i]
  <2> TAKE i \in 1 .. Len(lines)
  <2>1. i \in 1 .. Len(l1) /\ i \in 1 .. Len(l2) /\ i \in 1 .. Len(l3)
    BY <1>0, <1>8
  <2> QED BY <2>1, <1>1, <1>2, <1>3, <1>9
<1>11. /\ l5[Len(lines) + 1] = Opening(b)
       /\ l5[Len(lines) + 2] = Ending(b)
       /\ l5[Len(lines) + 3] = OtherLine
  <2>1. l3[Len(lines) + 1] = Opening(b)
    BY <1>0, <1>1, <1>2, <1>3, <1>8
  <2>2. l3[Len(lines) + 2] = Ending(b) /\ l3[Len(lines) + 3] = OtherLine
    BY <1>0, <1>2, <1>3, <1>8
  <2> QED BY <1>0, <1>8, <1>9, <2>1, <2>2
<1>12. Len(Text(b)) \in Nat /\ Len(Text(b)) = IF b.mac = NoMac THEN 4 ELSE 5
  BY <1>6
<1>13. \A i \in 1 .. Len(lines) : whole[i] = lines[i]
  <2> TAKE i \in 1 .. Len(lines)
  <2>1. i \in 1 .. Len(lines) + Len(Text(b)) /\ i <= Len(lines)
    BY <1>0, <1>12
  <2> QED BY <1>7, <2>1
<1>14. \A k \in 1 .. Len(Text(b)) : whole[Len(lines) + k] = Text(b)[k]
  <2> TAKE k \in 1 .. Len(Text(b))
  <2>1. /\ Len(lines) + k \in 1 .. Len(lines) + Len(Text(b)) /\ ~(Len(lines) + k <= Len(lines))
        /\ (Len(lines) + k) - Len(lines) = k
    BY <1>0, <1>12
  <2> QED BY <1>7, <2>1
<1>15. /\ whole[Len(lines) + 1] = Opening(b)
       /\ whole[Len(lines) + 2] = Ending(b)
       /\ whole[Len(lines) + 3] = OtherLine
  <2>1. 1 \in 1 .. Len(Text(b)) /\ 2 \in 1 .. Len(Text(b)) /\ 3 \in 1 .. Len(Text(b))
    BY <1>12
  <2> QED BY <1>6, <1>14, <2>1
<1>16. CASE b.mac = NoMac
  <2>1. Len(l4) = Len(lines) + 3 /\ Len(Text(b)) = 4
    BY <1>4, <1>8, <1>12, <1>16
  <2>2. Len(l5) = Len(lines) + 4 /\ l5[Len(lines) + 4] = Closing
    BY <1>0, <1>5, <2>1
  <2>3. Len(whole) = Len(lines) + 4 /\ whole[Len(lines) + 4] = Closing
    <3>1. 4 \in 1 .. Len(Text(b))
      BY <2>1
    <3>2. Text(b)[4] = Closing
      BY <1>6, <2>1
    <3> QED BY <1>7, <1>14, <2>1, <3>1, <3>2
  <2>4. \A i \in 1 .. Len(l5) : l5[i] = whole[i]
    BY <1>0, <1>10, <1>11, <1>13, <1>15, <2>2, <2>3
  <2> QED BY <1>5, <1>7, <2>2, <2>3, <2>4, SeqEqual DEF l1, l2, l3, l4, l5, whole
<1>17. CASE b.mac # NoMac
  <2>1. Len(l4) = Len(lines) + 4 /\ l4[Len(lines) + 4] = Hardware(b) /\ Len(Text(b)) = 5
    <3>1. (Len(lines) + 3) + 1 = Len(lines) + 4
      BY <1>0
    <3> QED BY <1>4, <1>8, <1>12, <1>17, <3>1
  <2>2. /\ Len(l5) = Len(lines) + 5 /\ l5[Len(lines) + 5] = Closing
        /\ l5[Len(lines) + 4] = Hardware(b)
    <3>1. (Len(lines) + 4) + 1 = Len(lines) + 5 /\ Len(lines) + 4 \in 1 .. Len(lines) + 4
      BY <1>0
    <3> QED BY <1>5, <2>1, <3>1
  <2>3. /\ Len(whole) = Len(lines) + 5 /\ whole[Len(lines) + 5] = Closing
        /\ whole[Len(lines) + 4] = Hardware(b)
    <3>1. 4 \in 1 .. Len(Text(b)) /\ 5 \in 1 .. Len(Text(b))
      BY <2>1
    <3>2. Text(b)[4] = Hardware(b)
      BY <1>6, <1>17
    <3>3. Text(b)[5] = Closing
      BY <1>6, <2>1
    <3> QED BY <1>7, <1>14, <2>1, <3>1, <3>2, <3>3
  <2>4. \A i \in 1 .. Len(l5) : l5[i] = whole[i]
    BY <1>0, <1>10, <1>11, <1>13, <1>15, <2>2, <2>3
  <2> QED BY <1>5, <1>7, <2>2, <2>3, <2>4, SeqEqual DEF l1, l2, l3, l4, l5, whole
<1> QED BY <1>16, <1>17

---------------------------------------------------------------------------
(* The parser. *)

State(lines) == Folded(AfterLine, Start, lines)

InBlock == [in : {TRUE}, ip : Addresses, mac : Macs \cup {NoMac}, ends : Times]

\* The parser is in a block or it is not.
LEMMA CurrentKinds ==
    ASSUME NEW c \in Current
    PROVE  c.in \in BOOLEAN /\ (c.in => c \in InBlock)
<1>1. NoBlock.in = FALSE
  BY DEF NoBlock
<1>2. c = NoBlock \/ c \in InBlock
  BY DEF Current, InBlock
<1>3. c \in InBlock => c.in = TRUE
  BY DEF InBlock
<1> QED BY <1>1, <1>2, <1>3

\* A line leaves the parser in a block or between two, with leases behind it.
LEMMA AfterLineType == AfterLine \in LoopBody(Loop, LogLine)
<1> SUFFICES ASSUME NEW state \in Loop, NEW line \in LogLine PROVE AfterLine[state][line] \in Loop
  <2>1. AfterLine = [state \in Loop |-> [line \in LogLine |-> AfterLine[state][line]]]
    BY DEF AfterLine
  <2> QED BY <2>1 DEF LoopBody
<1>0. /\ state.current \in Current /\ state.leases \in Seq(Lease)
      /\ state = [current |-> state.current, leases |-> state.leases]
  BY DEF Loop
<1>1. CASE line.key = "lease"
  <2>1. line.value \in Addresses
    BY <1>1 DEF LogLine
  <2>2. NoEnd \in Times
    BY LeasesAssumption DEF Times, NoEnd
  <2>3. [in |-> TRUE, ip |-> line.value, mac |-> NoMac, ends |-> NoEnd] \in Current
    BY <2>1, <2>2 DEF Current
  <2>4. AfterLine[state][line]
            = [state EXCEPT !.current = [in |-> TRUE, ip |-> line.value, mac |-> NoMac, ends |-> NoEnd]]
    BY <1>1 DEF AfterLine
  <2> QED BY <1>0, <2>3, <2>4 DEF Loop
<1>2. CASE line.key = "hardware" /\ state.current.in
  <2>1. line.value \in Macs
    BY <1>2 DEF LogLine
  <2>2. state.current \in InBlock
    BY <1>0, <1>2, CurrentKinds
  <2>3. [state.current EXCEPT !.mac = line.value] \in Current
    BY <2>1, <2>2 DEF Current, InBlock
  <2>4. AfterLine[state][line] = [state EXCEPT !.current.mac = line.value]
    BY <1>2 DEF AfterLine
  <2> QED BY <1>0, <2>3, <2>4 DEF Loop
<1>3. CASE line.key = "ends" /\ state.current.in
  <2>1. line.value \in Times
    BY <1>3 DEF LogLine
  <2>2. state.current \in InBlock
    BY <1>0, <1>3, CurrentKinds
  <2>3. [state.current EXCEPT !.ends = line.value] \in Current
    BY <2>1, <2>2 DEF Current, InBlock
  <2>4. AfterLine[state][line] = [state EXCEPT !.current.ends = line.value]
    BY <1>3 DEF AfterLine
  <2> QED BY <1>0, <2>3, <2>4 DEF Loop
<1>4. CASE line.key = "}" /\ state.current.in
  <2>1. state.current \in InBlock
    BY <1>0, <1>4, CurrentKinds
  <2> DEFINE l == [ip |-> state.current.ip, mac |-> state.current.mac, ends |-> state.current.ends]
  <2>2. state.current.mac # NoMac => l \in Lease
    BY <2>1 DEF InBlock, Lease
  <2>3. state.current.mac # NoMac => Append(state.leases, l) \in Seq(Lease)
    BY <1>0, <2>2, AppendProperties
  <2>4. NoBlock \in Current
    BY DEF Current
  <2>5. AfterLine[state][line] =
            [current |-> NoBlock,
             leases |-> IF state.current.mac = NoMac THEN state.leases ELSE Append(state.leases, l)]
    BY <1>4 DEF AfterLine
  <2> HIDE DEF l
  <2> QED BY <1>0, <2>3, <2>4, <2>5 DEF Loop
<1>5. CASE (~state.current.in /\ line.key # "lease") \/ line.key = "other"
  <2>1. AfterLine[state][line] = state
    BY <1>5 DEF AfterLine
  <2> QED BY <2>1
<1>6. line.key \in {"lease", "hardware", "ends", "other", "}"}
  BY DEF LogLine
<1>7. state.current.in \in BOOLEAN
  BY <1>0, CurrentKinds
<1> QED BY <1>1, <1>2, <1>3, <1>4, <1>5, <1>6, <1>7

\* The parser goes on line by line.
LEMMA StateSteps ==
    /\ State(<<>>) = Start
    /\ \A lines \in Seq(LogLine) : State(lines) \in Loop
    /\ \A lines \in Seq(LogLine), line \in LogLine :
            State(Append(lines, line)) = AfterLine[State(lines)][line]
<1>1. Start \in Loop
  BY EmptySeq DEF Start, Loop, Current
<1>2. /\ Folded(AfterLine, Start, <<>>) = Start
      /\ \A lines \in Seq(LogLine) : Folded(AfterLine, Start, lines) \in Loop
      /\ \A lines \in Seq(LogLine), line \in LogLine :
            Folded(AfterLine, Start, Append(lines, line)) = AfterLine[Folded(AfterLine, Start, lines)][line]
  BY <1>1, AfterLineType, FoldedList
<1> QED BY <1>2 DEF State

\* The lease that a block is about.
LeaseOf(b) == [ip |-> b.ip, mac |-> b.mac, ends |-> b.ends]

\* The leases of a log, of any of a client's blocks.
LeasesOf(log) == {LeaseOf(log[i]) : i \in {j \in DOMAIN log : log[j].mac # NoMac}}

\* `lines` with one, two, three, all but one and all of the lines of a block.
WrittenOut(lines, b, l1, l2, l3, l4, l5) ==
    /\ l1 = Append(lines, Opening(b))
    /\ l2 = Append(l1, Ending(b))
    /\ l3 = Append(l2, OtherLine)
    /\ l4 = IF b.mac = NoMac THEN l3 ELSE Append(l3, Hardware(b))
    /\ l5 = Append(l4, Closing)

\* No line of a block but the last makes a lease, and the last makes the one
\* that the block is about.
LEMMA BlockRead ==
    ASSUME NEW lines \in Seq(LogLine), NEW b \in Block,
           NEW l1, NEW l2, NEW l3, NEW l4, NEW l5, WrittenOut(lines, b, l1, l2, l3, l4, l5)
    PROVE  /\ l1 \in Seq(LogLine) /\ l2 \in Seq(LogLine) /\ l3 \in Seq(LogLine)
           /\ l4 \in Seq(LogLine) /\ l5 \in Seq(LogLine)
           /\ State(l1).leases = State(lines).leases
           /\ State(l2).leases = State(lines).leases
           /\ State(l3).leases = State(lines).leases
           /\ State(l4).leases = State(lines).leases
           /\ State(l5).leases = IF b.mac = NoMac THEN State(lines).leases
                                 ELSE Append(State(lines).leases, LeaseOf(b))
<1>0. /\ Opening(b) \in LogLine /\ Ending(b) \in LogLine /\ OtherLine \in LogLine
      /\ Closing \in LogLine
      /\ b.mac # NoMac => Hardware(b) \in LogLine
  BY TextLines
<1> USE DEF WrittenOut
<1>1. l1 \in Seq(LogLine) /\ l2 \in Seq(LogLine) /\ l3 \in Seq(LogLine)
      /\ l4 \in Seq(LogLine) /\ l5 \in Seq(LogLine)
  <2>1. l1 \in Seq(LogLine)
    BY <1>0, AppendProperties
  <2>2. l2 \in Seq(LogLine)
    BY <1>0, <2>1, AppendProperties
  <2>3. l3 \in Seq(LogLine)
    BY <1>0, <2>2, AppendProperties
  <2>4. l4 \in Seq(LogLine)
    BY <1>0, <2>3, AppendProperties
  <2> QED BY <1>0, <2>1, <2>2, <2>3, <2>4, AppendProperties
<1>00. PICK t, zero : t = TRUE /\ zero = NoEnd
  OBVIOUS
<1> DEFINE Within(mac, ends) == [in |-> t, ip |-> b.ip, mac |-> mac, ends |-> ends]
<1>2. State(lines) \in Loop
  BY StateSteps
<1>3. State(l1) = [current |-> Within(NoMac, zero), leases |-> State(lines).leases]
  <2>1. State(l1) = AfterLine[State(lines)][Opening(b)]
    BY <1>0, StateSteps
  <2>2. Opening(b).key = "lease" /\ Opening(b).value = b.ip
    BY DEF Opening, Line
  <2>3. AfterLine[State(lines)][Opening(b)]
            = [State(lines) EXCEPT !.current = [in |-> TRUE, ip |-> Opening(b).value, mac |-> NoMac, ends |-> NoEnd]]
    BY <1>0, <1>2, <2>2 DEF AfterLine
  <2>4. State(lines) = [current |-> State(lines).current, leases |-> State(lines).leases]
    BY <1>2 DEF Loop
  <2> QED BY <1>00, <2>1, <2>2, <2>3, <2>4
<1>4. State(l1) \in Loop /\ State(l2) \in Loop /\ State(l3) \in Loop /\ State(l4) \in Loop
  BY <1>1, StateSteps
<1>5. State(l2) = [current |-> Within(NoMac, b.ends), leases |-> State(lines).leases]
  <2>1. State(l2) = AfterLine[State(l1)][Ending(b)]
    BY <1>0, <1>1, StateSteps
  <2>2. Ending(b).key = "ends" /\ Ending(b).value = b.ends
    BY DEF Ending, Line
  <2>3. State(l1).current.in
    BY <1>00, <1>3
  <2>4. AfterLine[State(l1)][Ending(b)] = [State(l1) EXCEPT !.current.ends = Ending(b).value]
    BY <1>0, <1>4, <2>2, <2>3 DEF AfterLine
  <2>5. [[current |-> Within(NoMac, zero), leases |-> State(lines).leases] EXCEPT !.current.ends = b.ends]
            = [current |-> Within(NoMac, b.ends), leases |-> State(lines).leases]
    OBVIOUS
  <2> HIDE DEF Within
  <2> QED BY <1>3, <2>1, <2>2, <2>4, <2>5
<1>6. State(l3) = State(l2)
  <2>1. State(l3) = AfterLine[State(l2)][OtherLine]
    BY <1>0, <1>1, StateSteps
  <2>2. OtherLine.key = "other"
    BY DEF OtherLine, Line
  <2> QED BY <1>0, <1>4, <2>1, <2>2 DEF AfterLine
<1>7. State(l4) = [current |-> Within(b.mac, b.ends), leases |-> State(lines).leases]
  <2>1. CASE b.mac = NoMac
    BY <2>1, <1>5, <1>6
  <2>2. CASE b.mac # NoMac
    <3>1. State(l4) = AfterLine[State(l3)][Hardware(b)]
      BY <1>0, <1>1, <2>2, StateSteps
    <3>2. Hardware(b).key = "hardware" /\ Hardware(b).value = b.mac
      BY DEF Hardware, Line
    <3>3. State(l3).current.in
      BY <1>00, <1>5, <1>6
    <3>4. AfterLine[State(l3)][Hardware(b)] = [State(l3) EXCEPT !.current.mac = Hardware(b).value]
      BY <1>0, <1>4, <2>2, <3>2, <3>3 DEF AfterLine
    <3>5. [[current |-> Within(NoMac, b.ends), leases |-> State(lines).leases] EXCEPT !.current.mac = b.mac]
            = [current |-> Within(b.mac, b.ends), leases |-> State(lines).leases]
      OBVIOUS
    <3> HIDE DEF Within
    <3> QED BY <1>5, <1>6, <3>1, <3>2, <3>4, <3>5
  <2> QED BY <2>1, <2>2
<1>8. State(l5).leases = IF b.mac = NoMac THEN State(lines).leases
                         ELSE Append(State(lines).leases, LeaseOf(b))
  <2>1. State(l5) = AfterLine[State(l4)][Closing]
    BY <1>0, <1>1, StateSteps
  <2>2. Closing.key = "}"
    BY DEF Closing, Line
  <2>3. State(l4).current.in
    BY <1>00, <1>7
  <2> DEFINE made == IF State(l4).current.mac = NoMac THEN State(l4).leases
                     ELSE Append(State(l4).leases, [ip |-> State(l4).current.ip,
                                                    mac |-> State(l4).current.mac,
                                                    ends |-> State(l4).current.ends])
  <2>4. AfterLine[State(l4)][Closing] = [current |-> NoBlock, leases |-> made]
    BY <1>0, <1>4, <2>2, <2>3 DEF AfterLine
  <2>5. made = IF b.mac = NoMac THEN State(lines).leases ELSE Append(State(lines).leases, LeaseOf(b))
    BY <1>7 DEF LeaseOf
  <2> HIDE DEF made
  <2>6. State(l5).leases = made
    BY <2>1, <2>4
  <2> QED BY <2>5, <2>6
<1> QED BY <1>1, <1>3, <1>5, <1>6, <1>7, <1>8

\* Wherever these lines are cut, what has been parsed is in S.
ParsedWithin(lines, S) ==
    \A n \in 0 .. Len(lines) : ToSet(State(SubSeq(lines, 1, n)).leases) \subseteq S

\* One more line is one more place to cut.
LEMMA WithinAppend ==
    ASSUME NEW S, NEW lines \in Seq(LogLine), ParsedWithin(lines, S), NEW line \in LogLine,
           ToSet(State(Append(lines, line)).leases) \subseteq S
    PROVE  ParsedWithin(Append(lines, line), S)
<1>0. Len(lines) \in Nat /\ Len(Append(lines, line)) = Len(lines) + 1
  BY LenProperties, AppendProperties
<1> SUFFICES ASSUME NEW n \in 0 .. Len(lines) + 1
             PROVE  ToSet(State(SubSeq(Append(lines, line), 1, n)).leases) \subseteq S
  BY <1>0 DEF ParsedWithin
<1>1. CASE n = Len(lines) + 1
  <2>1. SubSeq(Append(lines, line), 1, Len(lines) + 1) = Append(lines, line)
    BY <1>0, PrefixOfAppend, 0 \in 0 .. Len(lines)
  <2> QED BY <1>1, <2>1
<1>2. CASE n # Len(lines) + 1
  <2>1. n \in 0 .. Len(lines)
    BY <1>0, <1>2
  <2>2. SubSeq(Append(lines, line), 1, n) = SubSeq(lines, 1, n)
    BY <2>1, PrefixOfAppend
  <2> QED BY <2>1, <2>2 DEF ParsedWithin
<1> QED BY <1>1, <1>2

\* All of the log's leases, and no others wherever it is cut.
ParsesAll(log) ==
    /\ ToSet(State(Lines(log)).leases) = LeasesOf(log)
    /\ ParsedWithin(Lines(log), LeasesOf(log))

\* The elements of a list that is one longer.
LEMMA SetOfAppend ==
    ASSUME NEW S, NEW s \in Seq(S), NEW x \in S
    PROVE  ToSet(Append(s, x)) = ToSet(s) \cup {x}
<1>0. /\ Len(s) \in Nat /\ DOMAIN s = 1 .. Len(s)
      /\ DOMAIN Append(s, x) = 1 .. Len(s) + 1
      /\ \A i \in 1 .. Len(s) : Append(s, x)[i] = s[i]
      /\ Append(s, x)[Len(s) + 1] = x
  <2>1. Append(s, x) \in Seq(S) /\ Len(Append(s, x)) = Len(s) + 1
    BY AppendProperties
  <2> QED BY <2>1, LenProperties, AppendProperties
<1>1. Len(s) + 1 \in 1 .. Len(s) + 1 /\ \A i \in 1 .. Len(s) : i \in 1 .. Len(s) + 1
  BY <1>0
<1>2. \A i \in 1 .. Len(s) + 1 : i \in 1 .. Len(s) \/ i = Len(s) + 1
  BY <1>0
<1> QED BY <1>0, <1>1, <1>2 DEF ToSet

\* A block adds its lease to those of the log.
LEMMA LeasesOfAppend ==
    ASSUME NEW log \in Seq(Block), NEW b \in Block
    PROVE  LeasesOf(Append(log, b)) =
                LeasesOf(log) \cup (IF b.mac = NoMac THEN {} ELSE {LeaseOf(b)})
<1>1. \A l, s : l \in LeasesOf(s) <=> \E x \in ToSet(s) : x.mac # NoMac /\ l = LeaseOf(x)
  BY DEF LeasesOf, ToSet
<1>2. ToSet(Append(log, b)) = ToSet(log) \cup {b}
  BY SetOfAppend
<1> HIDE DEF LeasesOf
<1> QED BY <1>1, <1>2

\* However long the log, the parser finds every block that has a client, and
\* in a log that is cut nothing else.
LEMMA Parser == \A log \in Seq(Block) : ParsesAll(log)
<1> DEFINE T == {log \in Seq(Block) : ParsesAll(log)}
<1>1. <<>> \in T
  <2>1. Lines(<<>>) = <<>> /\ State(<<>>) = Start /\ <<>> \in Seq(LogLine)
    BY LinesOf, StateSteps, EmptySeq
  <2>2. LeasesOf(<<>>) = {} /\ ToSet(Start.leases) = {}
    BY DEF LeasesOf, ToSet, Start
  <2>3. \A n \in 0 .. Len(<<>>) : SubSeq(<<>>, 1, n) = <<>>
    BY EmptySeq, SubSeqEmpty, 0 \in Int, 1 \in Int
  <2>4. ParsesAll(<<>>)
    BY <2>1, <2>2, <2>3 DEF ParsesAll, ParsedWithin
  <2> QED BY <2>4, EmptySeq
<1>2. ASSUME NEW log \in Seq(Block), NEW b \in Block, log \in T PROVE Append(log, b) \in T
  <2>0. Append(log, b) \in Seq(Block) /\ ParsesAll(log)
    BY <1>2, AppendProperties
  <2> DEFINE S == LeasesOf(Append(log, b))
  <2>1. S = LeasesOf(log) \cup (IF b.mac = NoMac THEN {} ELSE {LeaseOf(b)})
    BY LeasesOfAppend
  <2> HIDE DEF S
  <2> DEFINE lines == Lines(log)
  <2>2. lines \in Seq(LogLine) /\ Lines(Append(log, b)) = lines \o Text(b)
    BY LinesOf
  <2>3. ToSet(State(lines).leases) = LeasesOf(log) /\ ParsedWithin(lines, S)
    BY <2>0, <2>1 DEF ParsesAll, ParsedWithin
  <2> HIDE DEF lines
  <2>4. PICK l1, l2, l3, l4, l5 : WrittenOut(lines, b, l1, l2, l3, l4, l5)
    BY DEF WrittenOut
  <2>5. lines \o Text(b) = l5
    BY <2>2, <2>4, TextAppended DEF WrittenOut
  <2>6. /\ l1 \in Seq(LogLine) /\ l2 \in Seq(LogLine) /\ l3 \in Seq(LogLine)
         /\ l4 \in Seq(LogLine) /\ l5 \in Seq(LogLine)
         /\ State(l1).leases = State(lines).leases
         /\ State(l2).leases = State(lines).leases
         /\ State(l3).leases = State(lines).leases
         /\ State(l4).leases = State(lines).leases
         /\ State(l5).leases = IF b.mac = NoMac THEN State(lines).leases
                               ELSE Append(State(lines).leases, LeaseOf(b))
    BY <2>2, <2>4, BlockRead
  <2>7. ToSet(State(l5).leases) = S
    <3>1. State(lines).leases \in Seq(Lease)
      BY <2>2, StateSteps DEF Loop
    <3>2. b.mac # NoMac => LeaseOf(b) \in Lease
      BY DEF Block, Lease, LeaseOf
    <3>3. b.mac # NoMac => ToSet(State(l5).leases) = ToSet(State(lines).leases) \cup {LeaseOf(b)}
      BY <2>6, <3>1, <3>2, SetOfAppend
    <3> QED BY <2>1, <2>3, <2>6, <3>3
  <2>8. ToSet(State(lines).leases) \subseteq S
    BY <2>1, <2>3
  <2>9. ParsedWithin(l1, S)
    BY <2>2, <2>3, <2>4, <2>6, <2>8, TextLines, WithinAppend DEF WrittenOut
  <2>10. ParsedWithin(l2, S)
    BY <2>4, <2>6, <2>8, <2>9, TextLines, WithinAppend DEF WrittenOut
  <2>11. ParsedWithin(l3, S)
    BY <2>4, <2>6, <2>8, <2>10, TextLines, WithinAppend DEF WrittenOut
  <2>12. ParsedWithin(l4, S)
    BY <2>4, <2>6, <2>8, <2>11, TextLines, WithinAppend DEF WrittenOut
  <2>13. ParsedWithin(l5, S)
    BY <2>4, <2>6, <2>7, <2>12, TextLines, WithinAppend DEF WrittenOut
  <2>14. ParsesAll(Append(log, b))
    BY <2>2, <2>5, <2>7, <2>13 DEF ParsesAll, S
  <2> QED BY <2>0, <2>14
<1>3. Seq(Block) \subseteq T
  <2> HIDE DEF T
  <2> QED BY <1>1, <1>2, ListInduction
<1> QED BY <1>3

---------------------------------------------------------------------------
(* by_mac. *)

\* A lease that is dominated changes nothing.
Dominated(byMac, lease) == lease.mac \in DOMAIN byMac /\ byMac[lease.mac].ends >= lease.ends

\* What a lease makes of by_mac.
LEMMA KeepLease ==
    ASSUME NEW byMac \in ByMac, NEW lease \in Lease
    PROVE  /\ Keep[byMac][lease] \in ByMac
           /\ Dominated(byMac, lease) => Keep[byMac][lease] = byMac
           /\ ~Dominated(byMac, lease) =>
                /\ DOMAIN Keep[byMac][lease] = DOMAIN byMac \cup {lease.mac}
                /\ \A mac \in DOMAIN byMac \cup {lease.mac} :
                    Keep[byMac][lease][mac] = IF mac = lease.mac THEN lease ELSE byMac[mac]
<1> DEFINE with == [mac \in DOMAIN byMac \cup {lease.mac} |-> IF mac = lease.mac THEN lease ELSE byMac[mac]]
<1>1. PICK macs \in SUBSET Macs : byMac \in [macs -> Lease]
  BY DEF ByMac
<1>2. lease.mac \in Macs
  BY DEF Lease
<1>3. with \in [macs \cup {lease.mac} -> Lease]
  BY <1>1
<1>4. Keep[byMac][lease] = IF Dominated(byMac, lease) THEN byMac ELSE with
  BY DEF Keep, Dominated
<1>5. with \in ByMac
  <2> HIDE DEF with
  <2> QED BY <1>1, <1>2, <1>3 DEF ByMac
<1> QED BY <1>4, <1>5

\* One lease a client, one of those that came, and none of them ends later.
IsLatest(kept, leases) ==
    /\ \A mac \in DOMAIN kept : kept[mac].mac = mac /\ kept[mac] \in leases
    /\ \A l \in leases : l.mac \in DOMAIN kept /\ kept[l.mac].ends >= l.ends

\* by_mac has the latest lease of each client, in whatever order they came.
LEMMA Deduplicated ==
    ASSUME NEW leases \in Seq(Lease)
    PROVE  Folded(Keep, NoLeases, leases) \in ByMac /\ IsLatest(Folded(Keep, NoLeases, leases), ToSet(leases))
<1> DEFINE kept(q) == Folded(Keep, NoLeases, q)
<1> DEFINE T == {q \in Seq(Lease) : IsLatest(kept(q), ToSet(q))}
<1>1. /\ kept(<<>>) = NoLeases
      /\ \A q \in Seq(Lease) : kept(q) \in ByMac
      /\ \A q \in Seq(Lease), l \in Lease : kept(Append(q, l)) = Keep[kept(q)][l]
  <2>1. Keep \in LoopBody(ByMac, Lease)
    <3>1. Keep = [byMac \in ByMac |-> [lease \in Lease |-> Keep[byMac][lease]]]
      BY DEF Keep
    <3> QED BY <3>1, KeepLease DEF LoopBody
  <2>2. NoLeases \in ByMac
    <3>1. NoLeases \in [{} -> Lease] /\ {} \in SUBSET Macs
      BY DEF NoLeases
    <3> QED BY <3>1 DEF ByMac
  <2> QED BY <2>1, <2>2, FoldedList
<1> HIDE DEF kept
<1>2. <<>> \in T
  <2>1. DOMAIN NoLeases = {} /\ ToSet(<<>>) = {}
    BY DEF NoLeases, ToSet
  <2> QED BY <1>1, <2>1, EmptySeq DEF IsLatest
<1>3. ASSUME NEW q \in Seq(Lease), NEW l \in Lease, q \in T PROVE Append(q, l) \in T
  <2> DEFINE old == kept(q)
  <2> DEFINE new == kept(Append(q, l))
  <2>0. /\ Append(q, l) \in Seq(Lease) /\ ToSet(Append(q, l)) = ToSet(q) \cup {l}
        /\ IsLatest(old, ToSet(q)) /\ old \in ByMac /\ new = Keep[old][l]
    BY <1>1, <1>3, AppendProperties, SetOfAppend
  <2> HIDE DEF old, new
  <2>1. \A k \in ToSet(q) \cup {l} : k \in Lease /\ k.ends \in Int
    <3>1. \A k \in ToSet(q) : k \in Lease
      BY LenProperties, ElementOfSeq DEF ToSet
    <3> QED BY <3>1, LeasesAssumption DEF Lease, Times
  <2>2. CASE Dominated(old, l)
    <3>1. new = old
      BY <2>0, <2>2, KeepLease
    <3> QED BY <2>0, <2>2, <3>1 DEF IsLatest, Dominated, new
  <2>3. CASE ~Dominated(old, l)
    <3>1. /\ DOMAIN new = DOMAIN old \cup {l.mac}
          /\ \A mac \in DOMAIN old \cup {l.mac} : new[mac] = IF mac = l.mac THEN l ELSE old[mac]
          /\ l.mac \in DOMAIN old => ~(old[l.mac].ends >= l.ends)
      BY <2>0, <2>3, KeepLease DEF Dominated
    <3>2. \A mac \in DOMAIN new : new[mac].mac = mac /\ new[mac] \in ToSet(q) \cup {l}
      BY <2>0, <3>1 DEF IsLatest
    <3>3. ASSUME NEW k \in ToSet(q) \cup {l} PROVE k.mac \in DOMAIN new /\ new[k.mac].ends >= k.ends
      <4>1. CASE k = l
        BY <2>1, <3>1, <4>1
      <4>2. CASE k # l /\ k.mac # l.mac
        BY <2>0, <3>1, <4>2 DEF IsLatest
      <4>3. CASE k # l /\ k.mac = l.mac
        <5>1. l.mac \in DOMAIN old /\ old[l.mac].ends >= k.ends /\ old[l.mac] \in ToSet(q)
          BY <2>0, <4>3 DEF IsLatest
        <5>2. new[k.mac] = l
          BY <3>1, <4>3
        <5> QED BY <2>1, <3>1, <4>3, <5>1, <5>2
      <4> QED BY <4>1, <4>2, <4>3
    <3> QED BY <2>0, <3>2, <3>3 DEF IsLatest, new
  <2> QED BY <2>2, <2>3
<1>4. Seq(Lease) \subseteq T
  <2> HIDE DEF T
  <2> QED BY <1>2, <1>3, ListInduction
<1> QED BY <1>1, <1>4 DEF kept

---------------------------------------------------------------------------
\* What may come of lines that are cut: they may, from the front, all have come.
Starts(lines) == {SubSeq(lines, 1, n) : n \in 0 .. Len(lines)}

\* Of any log, whole or cut after any line, parse_isc_leases returns leases that
\* the log has, one a client, and of a whole log every client's: of those that
\* end one that ends last, which need not be the newest; one that never ends
\* gives way to any that ends.
THEOREM OneOfEachClient ==
    ASSUME NEW log \in Seq(Block), NEW output \in Starts(Lines(log))
    PROVE  /\ ParsedLeases(output) \subseteq Lease
           /\ ParsedLeases(output) \subseteq LeasesOf(log)
           /\ \A l, k \in ParsedLeases(output) : l.mac = k.mac => l = k
           /\ output = Lines(log) =>
                \A l \in LeasesOf(log) :
                    \E k \in ParsedLeases(output) : k.mac = l.mac /\ (l.ends # NoEnd => k.ends >= l.ends)
<1>1. Lines(log) \in Seq(LogLine) /\ ParsesAll(log)
  BY LinesOf, Parser
<1>2. PICK n \in 0 .. Len(Lines(log)) : output = SubSeq(Lines(log), 1, n)
  BY DEF Starts
<1>3. output \in Seq(LogLine)
  <2>1. \A i \in 1 .. n : Lines(log)[i] \in LogLine
    BY <1>1, LenProperties, ElementOfSeq
  <2> QED BY <1>1, <1>2, <2>1, SubSeqProperties, 1 \in Int, n \in Int
<1>4. Parsed(output) \in Seq(Lease) /\ Parsed(output) = State(output).leases
  BY <1>3, StateSteps DEF Parsed, State, Loop
<1>5. ToSet(Parsed(output)) \subseteq LeasesOf(log)
  BY <1>1, <1>2, <1>4 DEF ParsesAll, ParsedWithin
<1>6. output = Lines(log) => ToSet(Parsed(output)) = LeasesOf(log)
  BY <1>1, <1>4 DEF ParsesAll
<1>7. PICK kept \in ByMac : kept = Folded(Keep, NoLeases, Parsed(output)) /\ IsLatest(kept, ToSet(Parsed(output)))
  BY <1>4, Deduplicated
<1>8. ParsedLeases(output) = {kept[mac] : mac \in DOMAIN kept}
  BY <1>7 DEF ParsedLeases
<1>9. ParsedLeases(output) \subseteq Lease
  BY <1>8 DEF ByMac
<1>10. \A l, k \in ParsedLeases(output) : l.mac = k.mac => l = k
  BY <1>7, <1>8 DEF IsLatest
<1> QED BY <1>5, <1>6, <1>7, <1>8, <1>9, <1>10 DEF IsLatest
=============================================================================
