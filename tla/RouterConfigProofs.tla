------------------------- MODULE RouterConfigProofs -------------------------
(***************************************************************************)
(* What the edits of RouterConfig do to a configuration.                    *)
(***************************************************************************)
EXTENDS RouterConfig, Induction, SequenceTheorems, FiniteSetTheorems, TLAPS

---------------------------------------------------------------------------
(* What the edits do to one list and to a configuration. *)

\* Removing position i gives a list shorter by one that keeps the order of
\* the others (the array_values of the delete scripts).
LEMMA RemoveAtProperties ==
    ASSUME NEW S, NEW seq \in Seq(S), NEW i \in 1 .. Len(seq)
    PROVE  /\ RemoveAt(seq, i) \in Seq(S)
           /\ Len(RemoveAt(seq, i)) = Len(seq) - 1
           /\ \A k \in 1 .. Len(seq) - 1 :
                RemoveAt(seq, i)[k] = IF k < i THEN seq[k] ELSE seq[k + 1]
<1> DEFINE front == SubSeq(seq, 1, i - 1)
<1> DEFINE back == SubSeq(seq, i + 1, Len(seq))
<1>0. Len(seq) \in Nat /\ \A k \in 1 .. Len(seq) : seq[k] \in S
  BY ElementOfSeq, LenProperties
<1>1. /\ front \in Seq(S)
      /\ Len(front) = i - 1
      /\ \A k \in 1 .. i - 1 : front[k] = seq[k]
  <2>1. \A k \in 1 .. i - 1 : seq[k] \in S
    BY <1>0
  <2>2. /\ front \in Seq(S)
        /\ Len(front) = IF 1 <= i - 1 THEN (i - 1) - 1 + 1 ELSE 0
        /\ \A k \in 1 .. (i - 1) - 1 + 1 : front[k] = seq[1 + k - 1]
    BY <2>1, SubSeqProperties, i - 1 \in Int, 1 \in Int
  <2> QED BY <2>2
<1>2. /\ back \in Seq(S)
      /\ Len(back) = Len(seq) - i
      /\ \A k \in 1 .. Len(seq) - i : back[k] = seq[i + k]
  <2>1. \A k \in i + 1 .. Len(seq) : seq[k] \in S
    BY <1>0
  <2>2. /\ back \in Seq(S)
        /\ Len(back) = IF i + 1 <= Len(seq) THEN Len(seq) - (i + 1) + 1 ELSE 0
        /\ \A k \in 1 .. Len(seq) - (i + 1) + 1 : back[k] = seq[(i + 1) + k - 1]
    BY <1>0, <2>1, SubSeqProperties, i + 1 \in Int, Len(seq) \in Int
  <2> QED BY <1>0, <2>2
<1> HIDE DEF front, back
<1>3. /\ front \o back \in Seq(S)
      /\ Len(front \o back) = Len(front) + Len(back)
      /\ \A k \in 1 .. Len(front) + Len(back) :
            (front \o back)[k] = IF k <= Len(front) THEN front[k] ELSE back[k - Len(front)]
  BY <1>1, <1>2, ConcatProperties
<1>4. RemoveAt(seq, i) = front \o back
  BY DEF RemoveAt, front, back
<1>5. \A k \in 1 .. Len(seq) - 1 :
        (front \o back)[k] = IF k < i THEN seq[k] ELSE seq[k + 1]
  <2> TAKE k \in 1 .. Len(seq) - 1
  <2>1. CASE k < i
    BY <2>1, <1>0, <1>1, <1>2, <1>3
  <2>2. CASE ~(k < i)
    <3>1. k - (i - 1) \in 1 .. Len(seq) - i /\ ~(k <= i - 1) /\ k \in 1 .. Len(front) + Len(back)
      BY <2>2, <1>0, <1>1, <1>2
    <3>2. back[k - (i - 1)] = seq[i + (k - (i - 1))]
      BY <3>1, <1>2
    <3>3. i + (k - (i - 1)) = k + 1
      BY <1>0
    <3> QED BY <2>2, <3>1, <3>2, <3>3, <1>1, <1>3
  <2> QED BY <2>1, <2>2
<1>6. Len(front) + Len(back) = Len(seq) - 1
  BY <1>0, <1>1, <1>2
<1> QED BY <1>3, <1>4, <1>5, <1>6

\* A delete script that found a match removes an entry of its own name.
LEMMA FirstMatchMatches ==
    ASSUME NEW cfg \in Config, NEW c \in Call, Matches(cfg, c) # {}
    PROVE  FirstMatch(cfg, c) \in Matches(cfg, c)
<1> DEFINE T == Matches(cfg, c)
<1>1. T \subseteq Nat
  <2>1. cfg[c.section] \in Seq(Entry)
    BY DEF Config, Call, Services, Sections
  <2>2. DOMAIN cfg[c.section] = 1 .. Len(cfg[c.section])
    BY <2>1, LenProperties
  <2> QED BY <2>2 DEF Matches
<1>2. \E x \in T : \A y \in T : x <= y
  BY <1>1, LeastPosition
<1> QED BY <1>2 DEF FirstMatch

\* Both edits turn a configuration into a configuration, whose list is one
\* longer or one shorter, and leave the other sections alone.
LEMMA EditedType ==
    ASSUME NEW cfg \in Config, NEW c \in Call, NEW st \in Steps, NEW r \in Requests,
           Edits(cfg, c, st)
    PROVE  /\ Edited(cfg, c, st, r) \in Config
           /\ \A sec \in Sections \ {c.section} : Edited(cfg, c, st, r)[sec] = cfg[sec]
           /\ Len(Edited(cfg, c, st, r)[c.section])
                = Len(cfg[c.section]) + (IF st = "add" THEN 1 ELSE -1)
<1>0. /\ c.section \in Sections
      /\ cfg[c.section] \in Seq(Entry)
      /\ Len(cfg[c.section]) \in Nat
      /\ DOMAIN cfg[c.section] = 1 .. Len(cfg[c.section])
  <2>1. c.section \in Sections /\ cfg[c.section] \in Seq(Entry)
    BY DEF Config, Call, Services, Sections
  <2> QED BY <2>1, LenProperties
<1>1. CASE st = "add"
  <2> DEFINE e == [name |-> c.name, value |-> c.value, by |-> r]
  <2>1. e \in Entry
    BY DEF Entry, Authors, Call
  <2>2. Append(cfg[c.section], e) \in Seq(Entry) /\ Len(Append(cfg[c.section], e)) = Len(cfg[c.section]) + 1
    BY <1>0, <2>1, AppendProperties
  <2>3. Edited(cfg, c, st, r) = [cfg EXCEPT ![c.section] = Append(@, e)]
    BY <1>1 DEF Edited, WithEntry
  <2> HIDE DEF e
  <2> QED BY <1>0, <1>1, <2>2, <2>3 DEF Config
<1>2. CASE st # "add"
  <2>1. FirstMatch(cfg, c) \in 1 .. Len(cfg[c.section])
    BY <1>0, <1>2, FirstMatchMatches DEF Edits, Matches
  <2>2. /\ RemoveAt(cfg[c.section], FirstMatch(cfg, c)) \in Seq(Entry)
        /\ Len(RemoveAt(cfg[c.section], FirstMatch(cfg, c))) = Len(cfg[c.section]) - 1
    BY <1>0, <2>1, RemoveAtProperties
  <2>3. Edited(cfg, c, st, r) = [cfg EXCEPT ![c.section] = RemoveAt(@, FirstMatch(cfg, c))]
    BY <1>2 DEF Edited, WithoutFirst
  <2> QED BY <1>0, <1>2, <2>2, <2>3 DEF Config
<1> QED BY <1>1, <1>2

\* Where each entry of an added-to list comes from.
Extends(new, old, e) ==
    /\ DOMAIN old = 1 .. Len(old)
    /\ DOMAIN new = 1 .. Len(old) + 1
    /\ \A i \in DOMAIN old : new[i] = old[i]
    /\ new[Len(old) + 1] = e

\* An add appends one entry and leaves those before it.
LEMMA AddedEntries ==
    ASSUME NEW cfg \in Config, NEW c \in Call, NEW r \in Requests
    PROVE  Extends(WithEntry(cfg, c, r)[c.section], cfg[c.section],
                   [name |-> c.name, value |-> c.value, by |-> r])
<1> DEFINE e == [name |-> c.name, value |-> c.value, by |-> r]
<1> DEFINE old == cfg[c.section]
<1>1. c.section \in Sections /\ old \in Seq(Entry) /\ e \in Entry
  BY DEF Config, Call, Services, Sections, Entry, Authors
<1>2. WithEntry(cfg, c, r)[c.section] = Append(old, e)
  BY <1>1 DEF WithEntry, Config
<1> HIDE DEF e, old
<1>3. /\ Append(old, e) \in Seq(Entry)
      /\ Len(Append(old, e)) = Len(old) + 1
      /\ \A i \in 1 .. Len(old) : Append(old, e)[i] = old[i]
      /\ Append(old, e)[Len(old) + 1] = e
  BY <1>1, AppendProperties
<1>4. DOMAIN old = 1 .. Len(old) /\ DOMAIN Append(old, e) = 1 .. Len(old) + 1
  BY <1>1, <1>3, LenProperties
<1> QED BY <1>2, <1>3, <1>4 DEF e, old, Extends

\* Where each entry of a deleted-from list comes from: `Origin` is its
\* position before, and only the first match has none after.
Origin(cfg, c, i) == IF i < FirstMatch(cfg, c) THEN i ELSE i + 1

\* A delete takes out the first match and moves up those after it.
LEMMA RemainingEntries ==
    ASSUME NEW cfg \in Config, NEW c \in Call, Matches(cfg, c) # {}
    PROVE  LET new == WithoutFirst(cfg, c)[c.section]
               old == cfg[c.section]
           IN /\ FirstMatch(cfg, c) \in DOMAIN old
              /\ old[FirstMatch(cfg, c)].name = c.name
              /\ DOMAIN old = 1 .. Len(old)
              /\ DOMAIN new = 1 .. Len(old) - 1
              /\ \A i \in DOMAIN new :
                    Origin(cfg, c, i) \in DOMAIN old /\ new[i] = old[Origin(cfg, c, i)]
<1> DEFINE old == cfg[c.section]
<1> DEFINE m == FirstMatch(cfg, c)
<1>1. c.section \in Sections /\ old \in Seq(Entry)
  BY DEF Config, Call, Services, Sections
<1>2. WithoutFirst(cfg, c)[c.section] = RemoveAt(old, m)
  BY <1>1 DEF WithoutFirst, Config
<1>3. DOMAIN old = 1 .. Len(old) /\ Len(old) \in Nat
  BY <1>1, LenProperties
<1>4. m \in DOMAIN old /\ old[m].name = c.name
  BY FirstMatchMatches DEF Matches
<1> HIDE DEF old, m
<1>5. /\ RemoveAt(old, m) \in Seq(Entry)
      /\ Len(RemoveAt(old, m)) = Len(old) - 1
      /\ \A k \in 1 .. Len(old) - 1 : RemoveAt(old, m)[k] = IF k < m THEN old[k] ELSE old[k + 1]
  BY <1>1, <1>3, <1>4, RemoveAtProperties
<1>6. DOMAIN RemoveAt(old, m) = 1 .. Len(old) - 1
  BY <1>5, LenProperties
<1>7. \A i \in 1 .. Len(old) - 1 : Origin(cfg, c, i) = IF i < m THEN i ELSE i + 1
  BY DEF Origin, m
<1>8. \A i \in 1 .. Len(old) - 1 :
        Origin(cfg, c, i) \in 1 .. Len(old) /\ RemoveAt(old, m)[i] = old[Origin(cfg, c, i)]
  BY <1>3, <1>4, <1>5, <1>7
<1> QED BY <1>2, <1>3, <1>4, <1>6, <1>8 DEF old, m

\* A deleted-from list holds what the list held, and all of it but entries of
\* the deleted name.
LEMMA RemainingOrigins ==
    ASSUME NEW cfg \in Config, NEW c \in Call, Matches(cfg, c) # {}
    PROVE  /\ \A i \in DOMAIN WithoutFirst(cfg, c)[c.section] :
                \E j \in DOMAIN cfg[c.section] : WithoutFirst(cfg, c)[c.section][i] = cfg[c.section][j]
           /\ \A i \in DOMAIN cfg[c.section] :
                \/ cfg[c.section][i].name = c.name
                \/ \E j \in DOMAIN WithoutFirst(cfg, c)[c.section] :
                        cfg[c.section][i] = WithoutFirst(cfg, c)[c.section][j]
<1> DEFINE new == WithoutFirst(cfg, c)[c.section]
<1> DEFINE old == cfg[c.section]
<1> DEFINE m == FirstMatch(cfg, c)
<1>0. Len(old) \in Nat
  BY LenProperties DEF Config, Call, Services, Sections
<1>1. /\ m \in 1 .. Len(old) /\ old[m].name = c.name
      /\ DOMAIN old = 1 .. Len(old) /\ DOMAIN new = 1 .. Len(old) - 1
      /\ \A i \in DOMAIN new : Origin(cfg, c, i) \in DOMAIN old /\ new[i] = old[Origin(cfg, c, i)]
  BY RemainingEntries
<1>2. \A i : Origin(cfg, c, i) = IF i < m THEN i ELSE i + 1
  BY DEF Origin
<1> HIDE DEF new, old, m
<1>3. \A i \in DOMAIN new : \E j \in DOMAIN old : new[i] = old[j]
  BY <1>1
<1>4. ASSUME NEW i \in DOMAIN old, old[i].name # c.name PROVE \E j \in DOMAIN new : old[i] = new[j]
  <2>1. i # m /\ i \in Nat /\ m \in Nat
    BY <1>0, <1>1, <1>4
  <2>2. PICK j \in DOMAIN new : j = IF i < m THEN i ELSE i - 1
    BY <1>0, <1>1, <2>1
  <2>3. Origin(cfg, c, j) = i
    BY <1>2, <2>1, <2>2
  <2> QED BY <1>1, <2>3
<1> QED BY <1>3, <1>4 DEF new, old
=============================================================================
