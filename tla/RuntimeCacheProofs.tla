------------------------- MODULE RuntimeCacheProofs -------------------------
(***************************************************************************)
(* What RuntimeCache keeps for any number of threads, texts and entries.   *)
(***************************************************************************)
EXTENDS RuntimeCache, SequenceTheorems, TLAPS

-----------------------------------------------------------------------------
(* The sequences of entries.                                               *)

\* An entry taken out of a sequence leaves the others in their order.
LEMMA RemoveAtFacts ==
    ASSUME NEW S, NEW s \in Seq(S), NEW i \in 1..Len(s)
    PROVE  /\ RemoveAt(s, i) \in Seq(S)
           /\ Len(RemoveAt(s, i)) = Len(s) - 1
           /\ \A j \in 1..Len(s) - 1 :
                  RemoveAt(s, i)[j] = IF j < i THEN s[j] ELSE s[j + 1]
<1> DEFINE a == SubSeq(s, 1, i - 1)
           b == SubSeq(s, i + 1, Len(s))
<1>1. Len(s) \in Nat
  BY LenProperties
<1>2. /\ a \in Seq(S) /\ Len(a) = i - 1
      /\ \A j \in 1..i - 1 : a[j] = s[j]
  <2>1. CASE i = 1
    BY <1>1, <2>1, SubSeqProperties, SMTT(30)
  <2>2. CASE i # 1
    BY <1>1, <2>2, SubSeqProperties, SMTT(30)
  <2> QED BY <2>1, <2>2
<1>3. /\ b \in Seq(S) /\ Len(b) = Len(s) - i
      /\ \A j \in 1..Len(s) - i : b[j] = s[i + j]
  BY <1>1, SubSeqProperties, SMTT(30)
<1> HIDE DEF a, b
<1>4. /\ a \o b \in Seq(S) /\ Len(a \o b) = Len(a) + Len(b)
      /\ \A j \in 1..Len(a) + Len(b) :
            (a \o b)[j] = IF j <= Len(a) THEN a[j] ELSE b[j - Len(a)]
  BY <1>2, <1>3, ConcatProperties
<1>5. Len(a) + Len(b) = Len(s) - 1
  BY <1>1, <1>2, <1>3
<1>6. ASSUME NEW j \in 1..Len(s) - 1
      PROVE  (a \o b)[j] = IF j < i THEN s[j] ELSE s[j + 1]
  <2>1. CASE j < i
    BY <1>1, <1>2, <1>3, <1>4, <1>5, <2>1
  <2>2. CASE ~(j < i)
    <3>1. j - (i - 1) \in 1..Len(s) - i /\ i + (j - (i - 1)) = j + 1
      BY <1>1, <2>2
    <3> QED BY <1>1, <1>2, <1>3, <1>4, <1>5, <2>2, <3>1
  <2> QED BY <2>1, <2>2
<1> QED BY <1>4, <1>5, <1>6 DEF RemoveAt, a, b

\* No key twice.
Keyed(s) == \A i, j \in DOMAIN s : s[i].key = s[j].key => i = j

\* A hit moves an entry to the end and changes no entry.
LEMMA MovedFacts ==
    ASSUME NEW S, NEW s \in Seq(S), NEW i \in DOMAIN s
    PROVE  /\ Append(RemoveAt(s, i), s[i]) \in Seq(S)
           /\ Len(Append(RemoveAt(s, i), s[i])) = Len(s)
           /\ Keyed(s) => Keyed(Append(RemoveAt(s, i), s[i]))
<1> DEFINE r == RemoveAt(s, i)
           m == Append(r, s[i])
           n == Len(s)
<1>1. DOMAIN s = 1..n /\ s[i] \in S
  BY LenProperties, ElementOfSeq
<1>2. n \in Nat /\ i \in 1..n
  BY LenProperties
<1>3. r \in Seq(S) /\ Len(r) = n - 1
  BY <1>1, RemoveAtFacts
<1>4. \A j \in 1..n - 1 : r[j] = IF j < i THEN s[j] ELSE s[j + 1]
  BY <1>1, RemoveAtFacts
<1> HIDE DEF r, n
<1>5. m \in Seq(S) /\ Len(m) = Len(r) + 1 /\ m[Len(r) + 1] = s[i]
  BY <1>1, <1>3, AppendProperties
<1>6. \A j \in 1..Len(r) : m[j] = r[j]
  BY <1>1, <1>3, AppendProperties
<1>7. Len(r) + 1 = n
  BY <1>2, <1>3
<1> HIDE DEF m
<1>8. DOMAIN m = 1..n
  BY <1>5, <1>7, LenProperties
<1>9. ASSUME Keyed(s) PROVE Keyed(m)
  <2> DEFINE Old(j) == IF j = n THEN i ELSE IF j < i THEN j ELSE j + 1
  <2>1. ASSUME NEW j \in 1..n PROVE Old(j) \in 1..n /\ m[j] = s[Old(j)]
    <3>1. CASE j = n
      BY <1>2, <1>5, <1>7, <3>1
    <3>2. CASE j # n
      <4>1. j \in 1..n - 1
        BY <1>2, <3>2
      <4>2. m[j] = r[j]
        BY <1>3, <1>6, <4>1
      <4>3. Old(j) = IF j < i THEN j ELSE j + 1
        BY <3>2
      <4>4. Old(j) \in 1..n
        BY <1>2, <4>1, <4>3
      <4> QED BY <1>4, <4>1, <4>2, <4>3, <4>4
    <3> QED BY <3>1, <3>2
  <2>2. ASSUME NEW j \in 1..n, NEW k \in 1..n, Old(j) = Old(k) PROVE j = k
    BY <1>2, <2>2
  <2> HIDE DEF Old
  <2> QED BY <1>1, <1>8, <1>9, <2>1, <2>2 DEF Keyed
<1> QED BY <1>5, <1>7, <1>9 DEF r, m, n

\* An insertion keeps to the bound, keeps keys apart, and adds the entry alone.
LEMMA InsertedFacts ==
    ASSUME NEW S, NEW s \in Seq(S), NEW e \in S, Keyed(s)
    PROVE  /\ Inserted(s, e) \in Seq(S)
           /\ Len(s) <= MaxSize => Len(Inserted(s, e)) <= MaxSize
           /\ Keyed(Inserted(s, e))
<1> DEFINE d == Dropped(s, e.key)
           a == Append(d, e)
<1>1. Len(s) \in Nat /\ DOMAIN s = 1..Len(s) /\ MaxSize \in Nat \ {0}
  BY LenProperties, CacheAssumption
<1>2. /\ d \in Seq(S) /\ Keyed(d)
      /\ \A j \in DOMAIN d : d[j].key # e.key
  <2>1. CASE \E i \in DOMAIN s : s[i].key = e.key
    <3> DEFINE i == CHOOSE i \in DOMAIN s : s[i].key = e.key
    <3>1. i \in 1..Len(s) /\ s[i].key = e.key
      BY <1>1, <2>1
    <3>2. d = RemoveAt(s, i)
      BY <2>1 DEF Dropped
    <3> HIDE DEF i, d
    <3>3. /\ d \in Seq(S) /\ Len(d) = Len(s) - 1
          /\ \A j \in 1..Len(s) - 1 : d[j] = IF j < i THEN s[j] ELSE s[j + 1]
      BY <3>1, <3>2, RemoveAtFacts
    <3>4. DOMAIN d = 1..Len(s) - 1
      BY <3>3, LenProperties
    <3> DEFINE Old(j) == IF j < i THEN j ELSE j + 1
    <3>5. \A j \in 1..Len(s) - 1 :
              Old(j) \in 1..Len(s) /\ d[j] = s[Old(j)] /\ Old(j) # i
      BY <1>1, <3>1, <3>3
    <3>6. \A j, k \in 1..Len(s) - 1 : Old(j) = Old(k) => j = k
      BY <1>1, <3>1
    <3> HIDE DEF Old
    <3>7. Keyed(d)
      BY <1>1, <3>4, <3>5, <3>6 DEF Keyed
    <3>8. \A j \in DOMAIN d : d[j].key # e.key
      BY <1>1, <3>1, <3>4, <3>5 DEF Keyed
    <3> QED BY <3>3, <3>7, <3>8
  <2>2. CASE ~\E i \in DOMAIN s : s[i].key = e.key
    <3>1. d = s
      BY <2>2 DEF Dropped
    <3> QED BY <2>2, <3>1
  <2> QED BY <2>1, <2>2
<1> HIDE DEF d
<1>3. Len(d) \in Nat /\ DOMAIN d = 1..Len(d)
  BY <1>2, LenProperties
<1>4. /\ a \in Seq(S) /\ Len(a) = Len(d) + 1 /\ a[Len(d) + 1] = e
      /\ \A j \in 1..Len(d) : a[j] = d[j]
  BY <1>2, AppendProperties
<1>5. DOMAIN a = 1..Len(d) + 1
  BY <1>4, LenProperties
<1> HIDE DEF a
<1>6. Keyed(a)
  BY <1>2, <1>3, <1>4, <1>5 DEF Keyed
<1>7. Inserted(s, e) = Trimmed(a)
  BY DEF Inserted, a, d
<1>8. CASE Len(a) > MaxSize
  <2> DEFINE from == Len(a) - MaxSize + 1
             t == SubSeq(a, from, Len(a))
  <2>1. from \in 1..Len(a) /\ Len(a) \in 1..Len(a)
    BY <1>1, <1>3, <1>4, <1>8
  <2>2. t = Trimmed(a)
    BY <1>8 DEF Trimmed
  <2>3. /\ t \in Seq(S) /\ Len(t) = MaxSize
        /\ \A j \in 1..MaxSize : t[j] = a[from + j - 1]
    BY <1>1, <1>3, <1>4, <2>1, SubSeqProperties
  <2> HIDE DEF t
  <2>4. DOMAIN t = 1..MaxSize
    BY <2>3, LenProperties
  <2>5. \A j \in 1..MaxSize : from + j - 1 \in 1..Len(a)
    BY <1>1, <1>3, <1>4, <1>8
  <2>6. Keyed(t)
    <3> SUFFICES ASSUME NEW j \in 1..MaxSize, NEW k \in 1..MaxSize, t[j].key = t[k].key
                 PROVE  j = k
      BY <2>4 DEF Keyed
    <3>1. from + j - 1 = from + k - 1
      BY <1>4, <1>5, <1>6, <2>3, <2>5 DEF Keyed
    <3> QED BY <1>1, <2>1, <3>1
  <2> QED BY <1>1, <1>7, <2>2, <2>3, <2>6
<1>9. CASE ~(Len(a) > MaxSize)
  BY <1>1, <1>3, <1>4, <1>6, <1>7, <1>9 DEF Trimmed
<1> QED BY <1>8, <1>9

-----------------------------------------------------------------------------
(* Types.                                                                  *)

LEMMA KindFacts ==
    /\ Kinds = {"lexicon", "matcher", "resolver", "tool_guard"}
    /\ "lexicon" \notin Compiled
    /\ Compiled \subseteq Kinds
BY DEF Kinds, Compiled

\* A call that is about to insert a lexicon has loaded one.
LoadedBeforePut ==
    \A t \in Threads :
        call[t] \in LoadCalls /\ call[t].phase = "put" => call[t].object \in Valid

\* StoresBounded for one kind.
StoreOK(k) == Len(store[k]) <= MaxSize /\ Keyed(store[k])

BaseInv == TypeOK /\ StoresBounded /\ LoadedBeforePut

Entry(c) == [key |-> c.key, value |-> c.object]

\* What the steps do to one store: entries stay what they are, and the only one
\* that comes is the one a thread puts.
LEMMA StoreStep ==
    ASSUME TypeOK, StoresBounded, NEW k \in Kinds, NEW S, store[k] \in Seq(S),
           [Next]_vars,
           \A t \in Threads : call[t].phase = "put" /\ call[t].at = k => Entry(call[t]) \in S
    PROVE  store'[k] \in Seq(S) /\ StoreOK(k)'
<1>1. /\ StoreOK(k)
      /\ store = [l \in Kinds |-> store[l]]
      /\ call \in [Threads -> {Idle} \cup LoadCalls \cup CompileCalls]
  BY DEF StoresBounded, StoreOK, TypeOK, Keyed
<1>2. CASE store'[k] = store[k]
  BY <1>1, <1>2 DEF StoreOK, Keyed
<1>3. CASE Clear
  <2>1. store'[k] = <<>>
    BY <1>3 DEF Clear
  <2>2. Len(<<>>) <= MaxSize /\ <<>> \in Seq(S)
    BY CacheAssumption, EmptySeq
  <2>3. Keyed(<<>>)
    BY DEF Keyed
  <2> QED BY <2>1, <2>2, <2>3 DEF StoreOK, Keyed
<1>4. ASSUME NEW t \in Threads, LookupHit(t) PROVE store'[k] \in Seq(S) /\ StoreOK(k)'
  <2>1. CASE call[t].at # k
    <3>1. store'[k] = store[k]
      BY <1>1, <1>4, <2>1 DEF LookupHit
    <3> QED BY <1>2, <3>1
  <2>2. CASE call[t].at = k
    <3>1. PICK i \in DOMAIN store[k] :
              store' = [store EXCEPT ![k] = Append(RemoveAt(@, i), @[i])]
      BY <1>4, <2>2 DEF LookupHit
    <3>2. store'[k] = Append(RemoveAt(store[k], i), store[k][i])
      BY <1>1, <3>1
    <3>3. /\ store'[k] \in Seq(S)
          /\ Len(store'[k]) = Len(store[k])
          /\ Keyed(store[k]) => Keyed(store'[k])
      BY <3>2, MovedFacts
    <3> QED BY <1>1, <3>3 DEF StoreOK, Keyed
  <2> QED BY <2>1, <2>2
<1>5. ASSUME NEW t \in Threads, Put(t) PROVE store'[k] \in Seq(S) /\ StoreOK(k)'
  <2>1. CASE call[t].at # k
    <3>1. store'[k] = store[k]
      BY <1>1, <1>5, <2>1 DEF Put
    <3> QED BY <1>2, <3>1
  <2>2. CASE call[t].at = k
    <3>1. store'[k] = Inserted(store[k], Entry(call[t])) /\ Entry(call[t]) \in S
      BY <1>1, <1>5, <2>2 DEF Put, Entry
    <3> QED BY <1>1, <3>1, InsertedFacts DEF StoreOK, Keyed
  <2> QED BY <2>1, <2>2
<1>6. CASE UNCHANGED store
  BY <1>2, <1>6
<1>7. CASE Next
  <2>1. CASE Rewrite \/ Tick
    BY <1>6, <2>1 DEF Rewrite, Replace, Tick
  <2>2. ASSUME NEW t \in Threads, Begin(t) \/ Stat(t) \/ LookupMiss(t) \/ Read(t)
        PROVE  UNCHANGED store
    BY <2>2 DEF Begin, BeginLoad, BeginGet, Stat, LookupMiss, Read
  <2> QED BY <1>3, <1>4, <1>5, <1>6, <1>7, <2>1, <2>2 DEF Next, ThreadNext, Step
<1> QED BY <1>6, <1>7 DEF vars

\* Every call keeps the fields of its kind.
LEMMA GotLoad ==
    ASSUME NEW c \in LoadCalls, NEW o \in Valid \cup {Failed}, versions \in Seq(Versions)
    PROVE  /\ Got(c, o) = Returned(c, o)
           /\ Returned(c, o) = [c EXCEPT !.phase = "returned", !.object = o, !.until = Len(versions)]
           /\ Returned(c, o) \in LoadCalls
<1>1. Len(versions) \in Nat
  BY LenProperties
<1>2. c.at = c.want /\ c.want = "lexicon"
  BY DEF LoadCalls
<1> QED BY <1>1, <1>2 DEF Got, Returned, LoadCalls, LoadPhases

LEMMA GotCompiled ==
    ASSUME NEW c \in CompileCalls, NEW o \in Seq(Parts)
    PROVE  /\ Returned(c, o) = [c EXCEPT !.phase = "returned", !.object = o]
           /\ Got(c, o) \in CompileCalls
<1>1. c.want # "lexicon"
  BY DEF CompileCalls, Compiled
<1>2. /\ Returned(c, o) = [c EXCEPT !.phase = "returned", !.object = o]
      /\ Returned(c, o) \in CompileCalls
  BY <1>1 DEF Returned, CompileCalls
<1>3. Above(c.at) \in Compiled
  BY DEF Above, Compiled
<1>4. Part(c.lexicon, c.deprecated) \in Parts
  BY DEF CompileCalls, Part, Parts
<1>5. Append(o, Part(c.lexicon, c.deprecated)) \in Seq(Parts)
  BY <1>4, AppendProperties
<1> QED BY <1>2, <1>3, <1>5 DEF Got, CompileCalls

LEMMA StepTyped ==
    ASSUME TypeOK, LoadedBeforePut, NEW t \in Threads, Step(t)
    PROVE  /\ call' = [call EXCEPT ![t] = call'[t]]
           /\ call[t] \in LoadCalls \cup CompileCalls
           /\ call[t] \in LoadCalls => call'[t] \in LoadCalls
           /\ call[t] \in CompileCalls => call'[t] \in CompileCalls
           /\ call'[t] \in LoadCalls /\ call'[t].phase = "put" => call'[t].object \in Valid
<1> DEFINE c == call[t]
<1>0. /\ call \in [Threads -> {Idle} \cup LoadCalls \cup CompileCalls]
      /\ versions \in Seq(Versions) /\ versions # <<>>
      /\ store["lexicon"] \in Seq(LexiconEntries)
      /\ \A k \in Compiled : store[k] \in Seq(CompiledEntries)
  BY DEF TypeOK
<1>1. c.phase # "idle" /\ c \in LoadCalls \cup CompileCalls
<2>1. call[t].phase # "idle"
    BY DEF Step, Stat, LookupHit, LookupMiss, Read, Put
  <2>2. call[t] # Idle
    BY <2>1 DEF Idle
  <2> QED BY <1>0, <2>1, <2>2
<1>2. c \in LoadCalls => c.at = "lexicon" /\ c.want = "lexicon"
  BY DEF LoadCalls
<1>3. c \in CompileCalls => c.at \in Compiled /\ c.at # "lexicon" /\ c.phase \in {"lookup", "put", "returned"}
  BY DEF CompileCalls, Compiled
<1>4. Len(versions) \in Nat /\ Current \in Versions
  BY <1>0, LenProperties, EmptySeq, ElementOfSeq DEF Current
<1>5. c \in CompileCalls => c \notin LoadCalls
  BY <1>2, <1>3
<1> HIDE DEF c
<1>6. CASE Stat(t)
  <2>1. c \in LoadCalls /\ call' = [call EXCEPT ![t] =
           IF Current.content = Absent
           THEN [c EXCEPT !.phase = "read uncached"]
           ELSE [c EXCEPT !.phase = "lookup", !.key = Stamp(Current)]]
    BY <1>1, <1>3, <1>6 DEF Stat, c
  <2>2. Current.content # Absent => Stamp(Current) \in Stamps
    BY <1>4, CacheAssumption DEF Stamp, Stamps, Versions
  <2>3. /\ [c EXCEPT !.phase = "read uncached"] \in LoadCalls
        /\ Current.content # Absent =>
              [c EXCEPT !.phase = "lookup", !.key = Stamp(Current)] \in LoadCalls
    BY <2>1, <2>2 DEF LoadCalls, LoadPhases
  <2>4. call'[t] = IF Current.content = Absent
           THEN [c EXCEPT !.phase = "read uncached"]
           ELSE [c EXCEPT !.phase = "lookup", !.key = Stamp(Current)]
    BY <1>0, <2>1
  <2>5. call'[t].phase # "put"
    <3>1. /\ [c EXCEPT !.phase = "read uncached"].phase = "read uncached"
          /\ [c EXCEPT !.phase = "lookup", !.key = Stamp(Current)].phase = "lookup"
      BY <2>1 DEF LoadCalls
    <3> QED BY <2>4, <3>1
  <2> QED BY <1>0, <1>5, <2>1, <2>3, <2>4, <2>5 DEF c
<1>7. CASE LookupHit(t)
  <2>1. PICK i \in DOMAIN store[c.at] : call' = [call EXCEPT ![t] = Got(c, store[c.at][i].value)]
    BY <1>7 DEF LookupHit, c
  <2> DEFINE o == store[c.at][i].value
  <2>2. call'[t] = Got(c, o) /\ call' = [call EXCEPT ![t] = Got(c, o)]
    BY <1>0, <2>1
  <2>3. CASE c \in LoadCalls
    <3>1. store[c.at][i] \in LexiconEntries
      BY <1>0, <1>2, <2>3, ElementOfSeq, LenProperties
    <3>2. o \in Valid \cup {Failed}
      BY <3>1 DEF LexiconEntries
    <3> HIDE DEF o
    <3>3. call'[t] = Returned(c, o) /\ call'[t] \in LoadCalls
      BY <1>0, <2>2, <2>3, <3>2, GotLoad
    <3>4. call'[t].phase = "returned"
      BY <1>2, <2>3, <3>3 DEF Returned, LoadCalls
    <3> QED BY <1>5, <2>2, <2>3, <3>3, <3>4 DEF c
  <2>4. CASE c \in CompileCalls
    <3>1. store[c.at][i] \in CompiledEntries
      BY <1>0, <1>3, <2>4, ElementOfSeq, LenProperties
    <3>2. o \in Seq(Parts)
      BY <3>1 DEF CompiledEntries
    <3> HIDE DEF o
    <3>5. Got(c, o) \in CompileCalls
      BY <2>4, <3>2, GotCompiled
    <3>3. call'[t] \in CompileCalls
      BY <2>2, <3>5
    <3>4. call'[t] \notin LoadCalls
      BY <3>3 DEF LoadCalls, CompileCalls, Compiled
    <3> QED BY <1>5, <2>2, <2>4, <3>3, <3>4 DEF c
  <2> QED BY <1>1, <2>3, <2>4
<1>8. CASE LookupMiss(t)
  <2>1. CASE c \in LoadCalls
    <3>1. call' = [call EXCEPT ![t] = [c EXCEPT !.phase = "read"]]
      BY <1>2, <1>8, <2>1 DEF LookupMiss, c
    <3>2. call'[t] = [c EXCEPT !.phase = "read"]
      BY <1>0, <3>1
    <3>3. call'[t] \in LoadCalls /\ call'[t].phase = "read"
      BY <2>1, <3>2 DEF LoadCalls, LoadPhases
    <3> QED BY <1>5, <2>1, <3>1, <3>2, <3>3 DEF c
  <2>2. CASE c \in CompileCalls
    <3> DEFINE n == IF c.at = "matcher"
                    THEN [c EXCEPT !.phase = "put", !.object = <<Part(c.lexicon, c.deprecated)>>]
                    ELSE [c EXCEPT !.at = Below(c.at)]
    <3>1. call' = [call EXCEPT ![t] = n]
      BY <1>3, <1>8, <2>2 DEF LookupMiss, c
    <3>2. call'[t] = n
      BY <1>0, <3>1
    <3>3. Part(c.lexicon, c.deprecated) \in Parts /\ Below(c.at) \in Compiled
      BY <2>2 DEF CompileCalls, Part, Parts, Below, Compiled
    <3>4. <<Part(c.lexicon, c.deprecated)>> \in Seq(Parts)
      BY <3>3
    <3>5. n \in CompileCalls
      BY <2>2, <3>3, <3>4 DEF CompileCalls
    <3>6. n \notin LoadCalls
      BY <3>5 DEF LoadCalls, CompileCalls, Compiled
    <3> HIDE DEF n
    <3> QED BY <1>5, <2>2, <3>1, <3>2, <3>5, <3>6 DEF c
  <2> QED BY <1>1, <2>1, <2>2
<1>9. CASE Read(t)
  <2> DEFINE loaded == Outcome(Current.content)
  <2>1. c \in LoadCalls /\ loaded \in Valid \cup {Failed}
    BY <1>1, <1>3, <1>9 DEF Read, c, Outcome
  <2>2. call' = [call EXCEPT ![t] =
               IF c.phase = "read" /\ loaded # Failed
               THEN [c EXCEPT !.phase = "put", !.object = loaded]
               ELSE Returned(c, loaded)]
    BY <1>9 DEF Read, c
  <2>3. call'[t] = IF c.phase = "read" /\ loaded # Failed
                   THEN [c EXCEPT !.phase = "put", !.object = loaded]
                   ELSE Returned(c, loaded)
    BY <1>0, <2>2
  <2>4. Returned(c, loaded) \in LoadCalls /\ Returned(c, loaded).phase = "returned"
    <3>1. Returned(c, loaded) \in LoadCalls
      BY <1>0, <2>1, GotLoad
    <3>2. Returned(c, loaded).phase = "returned"
      BY <1>2, <2>1 DEF Returned, LoadCalls
    <3> QED BY <3>1, <3>2
  <2>5. [c EXCEPT !.phase = "put", !.object = loaded] \in LoadCalls
    BY <2>1 DEF LoadCalls, LoadPhases
  <2>6. [c EXCEPT !.phase = "put", !.object = loaded].object = loaded
    BY <2>1 DEF LoadCalls
  <2> HIDE DEF loaded
  <2> QED BY <1>5, <2>1, <2>2, <2>3, <2>4, <2>5, <2>6 DEF c
<1>10. CASE Put(t)
  <2>1. call' = [call EXCEPT ![t] = Got(c, c.object)] /\ call'[t] = Got(c, c.object)
    BY <1>0, <1>10 DEF Put, c
  <2>2. CASE c \in LoadCalls
    <3>1. c.object \in Valid \cup {Failed}
      BY <2>2 DEF LoadCalls
    <3>2. call'[t] = Returned(c, c.object) /\ call'[t] \in LoadCalls
      BY <1>0, <2>1, <2>2, <3>1, GotLoad
    <3>3. call'[t].phase = "returned"
      BY <1>2, <2>2, <3>2 DEF Returned, LoadCalls
    <3> QED BY <1>5, <2>1, <2>2, <3>2, <3>3 DEF c
  <2>3. CASE c \in CompileCalls
    <3>1. c.object \in Seq(Parts)
      BY <2>3 DEF CompileCalls
    <3>2. call'[t] \in CompileCalls
      BY <2>1, <2>3, <3>1, GotCompiled
    <3>3. call'[t] \notin LoadCalls
      BY <3>2 DEF LoadCalls, CompileCalls, Compiled
    <3> QED BY <1>5, <2>1, <2>3, <3>2, <3>3 DEF c
  <2> QED BY <1>1, <2>2, <2>3
<1> QED BY <1>6, <1>7, <1>8, <1>9, <1>10 DEF Step

\* The variables outside the stores: what each step does to them.
LEMMA OtherSteps ==
    ASSUME TypeOK, [Next]_vars
    PROVE  \/ /\ UNCHANGED <<versions, clock, call>>
           \/ /\ Rewrite /\ UNCHANGED <<clock, call>>
           \/ /\ Tick /\ UNCHANGED <<versions, call>>
           \/ \E t \in Threads : (Begin(t) \/ Step(t)) /\ UNCHANGED <<versions, clock>>
<1>1. ASSUME NEW t \in Threads, Begin(t) \/ Step(t) PROVE UNCHANGED <<versions, clock>>
  BY <1>1 DEF Begin, BeginLoad, BeginGet, Step, Stat, LookupHit, LookupMiss, Read, Put
<1> QED BY <1>1 DEF Next, ThreadNext, Clear, Rewrite, Replace, Tick, vars

LEMMA BeginTyped ==
    ASSUME TypeOK, NEW t \in Threads, Begin(t)
    PROVE  /\ call' = [call EXCEPT ![t] = call'[t]]
           /\ \/ /\ call'[t] \in LoadCalls
                 /\ call'[t].phase = "stat"
                 /\ call'[t].since = Len(versions)
              \/ /\ call'[t] \in CompileCalls
                 /\ call'[t].phase = "lookup"
                 /\ call'[t].key = CompiledKey(call'[t].lexicon, call'[t].deprecated)
                 /\ call'[t].at = call'[t].want
<1>1. call \in [Threads -> {Idle} \cup LoadCalls \cup CompileCalls] /\ Len(versions) \in Nat
  BY LenProperties DEF TypeOK
<1>2. CASE BeginLoad(t)
  <2> DEFINE n == [phase |-> "stat", want |-> "lexicon", at |-> "lexicon", key |-> <<0, 0>>,
                   object |-> Failed, since |-> Len(versions), until |-> Len(versions)]
  <2>1. call' = [call EXCEPT ![t] = n]
    BY <1>2 DEF BeginLoad
  <2>2. <<0, 0>> \in Stamps
    BY CacheAssumption DEF Stamps
  <2>3. n \in LoadCalls /\ n.phase = "stat" /\ n.since = Len(versions)
    BY <1>1, <2>2 DEF LoadCalls, LoadPhases
  <2> HIDE DEF n
  <2> QED BY <1>1, <2>1, <2>3
<1>3. ASSUME NEW k \in Compiled, NEW l \in Valid, NEW d \in BOOLEAN, BeginGet(t, k, l, d)
      PROVE  /\ call' = [call EXCEPT ![t] = call'[t]]
             /\ call'[t] \in CompileCalls
             /\ call'[t].phase = "lookup"
             /\ call'[t].key = CompiledKey(call'[t].lexicon, call'[t].deprecated)
             /\ call'[t].at = call'[t].want
  <2> DEFINE n == [phase |-> "lookup", want |-> k, at |-> k, lexicon |-> l,
                   deprecated |-> d, key |-> CompiledKey(l, d), object |-> <<>>]
  <2>1. call' = [call EXCEPT ![t] = n]
    BY <1>3 DEF BeginGet
  <2>2. CompiledKey(l, d) \in Parts /\ <<>> \in Seq(Parts)
    BY EmptySeq DEF CompiledKey, Parts
  <2>3. /\ n \in CompileCalls /\ n.phase = "lookup" /\ n.at = n.want
        /\ n.key = CompiledKey(n.lexicon, n.deprecated)
    BY <2>2 DEF CompileCalls
  <2> HIDE DEF n
  <2> QED BY <1>1, <2>1, <2>3
<1> QED BY <1>2, <1>3 DEF Begin

LEMMA CallsStep ==
    ASSUME TypeOK, LoadedBeforePut, [Next]_vars
    PROVE  /\ call' \in [Threads -> {Idle} \cup LoadCalls \cup CompileCalls]
           /\ LoadedBeforePut'
<1>1. call \in [Threads -> {Idle} \cup LoadCalls \cup CompileCalls]
  BY DEF TypeOK
<1>2. CASE UNCHANGED call
  BY <1>1, <1>2 DEF LoadedBeforePut
<1>3. ASSUME NEW t \in Threads, Begin(t) \/ Step(t)
      PROVE  /\ call' \in [Threads -> {Idle} \cup LoadCalls \cup CompileCalls]
             /\ LoadedBeforePut'
  <2>1. /\ call' = [call EXCEPT ![t] = call'[t]]
        /\ call'[t] \in LoadCalls \cup CompileCalls
        /\ call'[t] \in LoadCalls /\ call'[t].phase = "put" => call'[t].object \in Valid
    <3>1. CASE Begin(t)
      BY <3>1, BeginTyped DEF LoadCalls, CompileCalls, Compiled
    <3>2. CASE Step(t)
      BY <3>2, StepTyped
    <3> QED BY <1>3, <3>1, <3>2
  <2>2. \A u \in Threads : u # t => call'[u] = call[u]
    BY <1>1, <2>1
  <2> QED BY <1>1, <2>1, <2>2 DEF LoadedBeforePut
<1> QED BY <1>2, <1>3, OtherSteps

LEMMA BaseStep == BaseInv /\ [Next]_vars => BaseInv'
<1> SUFFICES ASSUME BaseInv, [Next]_vars PROVE BaseInv'
  OBVIOUS
<1> USE DEF BaseInv
<1>1. /\ call' \in [Threads -> {Idle} \cup LoadCalls \cup CompileCalls]
      /\ LoadedBeforePut'
  BY CallsStep
<1>2. /\ versions \in Seq(Versions) /\ versions # <<>> /\ clock \in 0..MaxTime
      /\ hits \in [Kinds -> Nat] /\ misses \in [Kinds -> Nat] /\ calls \in Nat
      /\ call \in [Threads -> {Idle} \cup LoadCalls \cup CompileCalls]
      /\ store = [k \in Kinds |-> store[k]]
  BY DEF TypeOK
<1>3. versions' \in Seq(Versions) /\ versions' # <<>> /\ clock' \in 0..MaxTime
  <2>1. CASE Rewrite
    <3>1. PICK c \in Texts \cup {Absent}, m \in 0..clock : Replace(c, m)
      BY <2>1 DEF Rewrite
    <3>2. [content |-> c, mtime |-> m] \in Versions
      BY <1>2, <3>1, CacheAssumption DEF Versions
    <3>3. versions' = Append(versions, [content |-> c, mtime |-> m]) /\ clock' = clock
      BY <3>1 DEF Replace
    <3>4. versions' \in Seq(Versions) /\ versions' # <<>>
      BY <1>2, <3>2, <3>3, AppendProperties
    <3> QED BY <1>2, <3>3, <3>4
  <2>2. CASE Tick
    BY <1>2, <2>2, CacheAssumption DEF Tick
  <2> QED BY <1>2, <2>1, <2>2, OtherSteps
<1>4. hits' \in [Kinds -> Nat] /\ misses' \in [Kinds -> Nat] /\ calls' \in Nat
  <2>1. CASE Clear
    BY <1>2, <2>1 DEF Clear
  <2>2. ASSUME NEW t \in Threads, Begin(t)
        PROVE  UNCHANGED <<hits, misses>> /\ calls' = calls + 1
    BY <2>2 DEF Begin, BeginLoad, BeginGet
  <2>3. ASSUME NEW t \in Threads, LookupHit(t)
        PROVE  /\ UNCHANGED <<misses, calls>>
               /\ hits' = [hits EXCEPT ![call[t].at] = @ + 1]
    BY <2>3 DEF LookupHit
  <2>4. ASSUME NEW t \in Threads, LookupMiss(t)
        PROVE  /\ UNCHANGED <<hits, calls>>
               /\ misses' = [misses EXCEPT ![call[t].at] = @ + 1]
    BY <2>4 DEF LookupMiss
  <2>5. ASSUME NEW t \in Threads, Stat(t) \/ Read(t) \/ Put(t)
        PROVE  UNCHANGED <<hits, misses, calls>>
    BY <2>5 DEF Stat, Read, Put
  <2>6. Rewrite \/ Tick \/ UNCHANGED vars => UNCHANGED <<hits, misses, calls>>
    BY DEF Rewrite, Replace, Tick, vars
  <2>7. ASSUME NEW f \in [Kinds -> Nat], NEW k, NEW g, g = [f EXCEPT ![k] = @ + 1]
        PROVE  g \in [Kinds -> Nat]
    <3>1. CASE k \in Kinds
      BY <2>7, <3>1
    <3>2. CASE k \notin Kinds
      <4>1. g = f
        BY <2>7, <3>2
      <4> QED BY <4>1
    <3> QED BY <3>1, <3>2
  <2>8. ASSUME NEW t \in Threads, Step(t)
        PROVE  hits' \in [Kinds -> Nat] /\ misses' \in [Kinds -> Nat] /\ calls' = calls
    <3>1. CASE LookupHit(t)
      <4>1. hits' \in [Kinds -> Nat]
        BY <1>2, <2>3, <2>7, <3>1
      <4> QED BY <1>2, <2>3, <3>1, <4>1
    <3>2. CASE LookupMiss(t)
      <4>1. misses' \in [Kinds -> Nat]
        BY <1>2, <2>4, <2>7, <3>2
      <4> QED BY <1>2, <2>4, <3>2, <4>1
    <3>3. CASE Stat(t) \/ Read(t) \/ Put(t)
      BY <1>2, <2>5, <3>3
    <3> QED BY <2>8, <3>1, <3>2, <3>3 DEF Step
  <2>9. CASE \E t \in Threads : Begin(t) \/ Step(t)
    BY <1>2, <2>2, <2>8, <2>9
  <2>10. CASE Rewrite \/ Tick \/ UNCHANGED vars
    BY <1>2, <2>6, <2>10
  <2> QED BY <2>1, <2>9, <2>10 DEF Next, ThreadNext
<1>5. store' = [k \in Kinds |-> store'[k]]
  BY <1>2 DEF Next, Rewrite, Replace, ThreadNext, Tick, Clear, Begin, BeginLoad, BeginGet,
              Step, Stat, LookupHit, LookupMiss, Read, Put, vars
<1>6. store'["lexicon"] \in Seq(LexiconEntries) /\ StoreOK("lexicon")'
  <2>1. ASSUME NEW t \in Threads, call[t].phase = "put", call[t].at = "lexicon"
        PROVE  Entry(call[t]) \in LexiconEntries
    <3>1. call[t] \in LoadCalls
      <4>1. call[t] # Idle
        BY <2>1 DEF Idle
      <4> QED BY <1>2, <2>1, <4>1 DEF CompileCalls, Compiled
    <3>2. call[t].object \in Valid /\ call[t].key \in Stamps
      BY <2>1, <3>1 DEF LoadedBeforePut, LoadCalls
    <3> QED BY <3>2 DEF Entry, LexiconEntries
  <2> QED BY <2>1, StoreStep, KindFacts DEF TypeOK
<1>7. ASSUME NEW k \in Compiled PROVE store'[k] \in Seq(CompiledEntries) /\ StoreOK(k)'
  <2>1. ASSUME NEW t \in Threads, call[t].phase = "put", call[t].at = k
        PROVE  Entry(call[t]) \in CompiledEntries
    <3>1. call[t] \in CompileCalls
      <4>1. call[t] # Idle
        BY <2>1 DEF Idle
      <4> QED BY <1>2, <2>1, <4>1 DEF LoadCalls, Compiled
    <3> QED BY <3>1 DEF Entry, CompiledEntries, CompileCalls
  <2> QED BY <2>1, StoreStep, KindFacts DEF TypeOK
<1>8. StoresBounded'
  BY <1>6, <1>7 DEF StoresBounded, StoreOK, Keyed, Kinds
<1> QED BY <1>1, <1>3, <1>4, <1>5, <1>6, <1>7, <1>8 DEF TypeOK

LEMMA BaseInit == Init => BaseInv
<1> SUFFICES ASSUME Init PROVE BaseInv
  OBVIOUS
<1>1. PICK v \in Versions : versions = <<v>>
  BY CacheAssumption DEF Init, Versions
<1>2. versions \in Seq(Versions) /\ versions # <<>>
  BY <1>1
<1>3. \A S : <<>> \in Seq(S)
  BY EmptySeq
<1>4. store = [k \in Kinds |-> store[k]] /\ \A k \in Kinds : store[k] = <<>>
  BY DEF Init
<1>5. TypeOK
  BY <1>2, <1>3, <1>4, KindFacts, CacheAssumption DEF Init, TypeOK
<1>6. StoresBounded
  BY <1>4, CacheAssumption DEF StoresBounded
<1>7. LoadedBeforePut
  BY DEF Init, LoadedBeforePut, Idle
<1> QED BY <1>5, <1>6, <1>7 DEF BaseInv

\* In every reachable state each cache holds well-typed objects of its kind, at
\* most max_size of them, and no key twice: whatever the number of threads, and
\* although lookup and insertion are separate locked sections (core/cache.py).
THEOREM StoresCorrect == Spec => [](TypeOK /\ StoresBounded)
<1>1. BaseInv => TypeOK /\ StoresBounded
  BY DEF BaseInv
<1> QED BY BaseInit, BaseStep, <1>1, PTL DEF Spec

-----------------------------------------------------------------------------
(* Compiled objects.                                                       *)

GoodEntries(k) == {e \in CompiledEntries : BuiltFor(e.value, k, e.key[1], e.key[2])}

\* A call works its way up from the part it is at to the object it wants.
GoodCall(c) ==
    /\ c.key = Part(c.lexicon, c.deprecated)
    /\ Depth(c.at) <= Depth(c.want)
    /\ c.phase = "put" => BuiltFor(c.object, c.at, c.lexicon, c.deprecated)
    /\ c.phase = "returned" => BuiltFor(c.object, c.want, c.lexicon, c.deprecated)

CompiledInv ==
    /\ \A k \in Compiled : store[k] \in Seq(GoodEntries(k))
    /\ \A t \in Threads : call[t] \in CompileCalls => GoodCall(call[t])

LEMMA LayerFacts ==
    ASSUME NEW k \in Compiled, NEW l \in Compiled, Depth(k) <= Depth(l), k # l
    PROVE  Depth(Above(k)) = Depth(k) + 1 /\ Depth(Above(k)) <= Depth(l)
BY DEF Depth, Above, Compiled

\* A part built for the call's lexicon makes an object built for it.
LEMMA GotGood ==
    ASSUME NEW c \in CompileCalls, NEW o \in Seq(Parts), GoodCall(c),
           BuiltFor(o, c.at, c.lexicon, c.deprecated)
    PROVE  GoodCall(Got(c, o))
<1>1. CASE c.at = c.want
  <2>1. Got(c, o) = [c EXCEPT !.phase = "returned", !.object = o]
    BY <1>1, GotCompiled DEF Got
  <2> QED BY <1>1, <2>1 DEF GoodCall, CompileCalls
<1>2. CASE c.at # c.want
  <2> DEFINE p == Part(c.lexicon, c.deprecated)
             a == Append(o, p)
  <2>1. Got(c, o) = [c EXCEPT !.phase = "put", !.at = Above(c.at), !.object = a]
    BY <1>2 DEF Got
  <2>2. c.at \in Compiled /\ c.want \in Compiled
    BY DEF CompileCalls
  <2>3. Depth(Above(c.at)) = Depth(c.at) + 1 /\ Depth(Above(c.at)) <= Depth(c.want)
    BY <1>2, <2>2, LayerFacts DEF GoodCall
  <2>4. p \in Parts
    BY DEF CompileCalls, Part, Parts
  <2>5. /\ a \in Seq(Parts) /\ Len(a) = Len(o) + 1 /\ a[Len(o) + 1] = p
        /\ \A i \in 1..Len(o) : a[i] = o[i]
    BY <2>4, AppendProperties
  <2>6. Len(o) \in Nat /\ DOMAIN o = 1..Len(o) /\ DOMAIN a = 1..Len(o) + 1
    BY <2>5, LenProperties
  <2> HIDE DEF a
  <2>7. BuiltFor(a, Above(c.at), c.lexicon, c.deprecated)
    BY <2>3, <2>5, <2>6 DEF BuiltFor
  <2> DEFINE n == [c EXCEPT !.phase = "put", !.at = Above(c.at), !.object = a]
  <2>8. /\ n.phase = "put" /\ n.at = Above(c.at) /\ n.object = a /\ n.want = c.want
        /\ n.key = c.key /\ n.lexicon = c.lexicon /\ n.deprecated = c.deprecated
    BY DEF CompileCalls
  <2> HIDE DEF n, p
  <2>9. GoodCall(n)
    BY <2>3, <2>7, <2>8 DEF GoodCall
  <2> QED BY <2>1, <2>9 DEF n
<1> QED BY <1>1, <1>2

LEMMA PartKey ==
    \A k \in Parts : k = Part(k[1], k[2]) /\ k = CompiledKey(k[1], k[2])
BY DEF Parts, Part, CompiledKey

LEMMA CompiledStep == BaseInv /\ CompiledInv /\ [Next]_vars => CompiledInv'
<1> SUFFICES ASSUME BaseInv, CompiledInv, [Next]_vars PROVE CompiledInv'
  OBVIOUS
<1>0. /\ call \in [Threads -> {Idle} \cup LoadCalls \cup CompileCalls]
      /\ \A k \in Compiled : store[k] \in Seq(CompiledEntries)
      /\ TypeOK /\ StoresBounded /\ LoadedBeforePut
  BY DEF BaseInv, TypeOK
<1>1. ASSUME NEW k \in Compiled PROVE store'[k] \in Seq(GoodEntries(k))
  <2>1. ASSUME NEW t \in Threads, call[t].phase = "put", call[t].at = k
        PROVE  Entry(call[t]) \in GoodEntries(k)
    <3>1. call[t] # Idle
      BY <2>1 DEF Idle
    <3>2. call[t] \in CompileCalls
      BY <1>0, <2>1, <3>1 DEF LoadCalls, Compiled
    <3>3. GoodCall(call[t])
      BY <3>2 DEF CompiledInv
    <3>4. Entry(call[t]) \in CompiledEntries
      BY <3>2 DEF Entry, CompiledEntries, CompileCalls
    <3>5. call[t].key[1] = call[t].lexicon /\ call[t].key[2] = call[t].deprecated
      BY <3>3 DEF GoodCall, Part
    <3>6. BuiltFor(Entry(call[t]).value, k, Entry(call[t]).key[1], Entry(call[t]).key[2])
      BY <2>1, <3>3, <3>5 DEF GoodCall, Entry
    <3> QED BY <3>4, <3>6 DEF GoodEntries
  <2> QED BY <1>0, <2>1, StoreStep, KindFacts DEF CompiledInv
<1>2. ASSUME NEW t \in Threads, Begin(t)
      PROVE  \A u \in Threads : call'[u] \in CompileCalls => GoodCall(call'[u])
  <2>1. call'[t] \in CompileCalls => GoodCall(call'[t])
    <3> SUFFICES ASSUME call'[t] \in CompileCalls PROVE GoodCall(call'[t])
      OBVIOUS
    <3>1. call'[t].phase = "lookup" /\ call'[t].at = call'[t].want
          /\ call'[t].key = CompiledKey(call'[t].lexicon, call'[t].deprecated)
      BY <1>0, <1>2, BeginTyped DEF LoadCalls, CompileCalls, Compiled
    <3>2. Depth(call'[t].want) \in Nat
      BY DEF Depth
    <3> QED BY <3>1, <3>2 DEF GoodCall, CompiledKey, Part
  <2>2. \A u \in Threads : u # t => call'[u] = call[u]
    BY <1>0, <1>2, BeginTyped
  <2> QED BY <2>1, <2>2 DEF CompiledInv
<1>3. ASSUME NEW t \in Threads, Step(t)
      PROVE  \A u \in Threads : call'[u] \in CompileCalls => GoodCall(call'[u])
  <2> DEFINE c == call[t]
  <2>0. /\ call' = [call EXCEPT ![t] = call'[t]]
        /\ c \in LoadCalls \cup CompileCalls
        /\ c \in LoadCalls => call'[t] \in LoadCalls
    BY <1>0, <1>3, StepTyped
  <2>1. \A u \in Threads : u # t => call'[u] = call[u]
    BY <1>0, <2>0
  <2>2. CASE c \in LoadCalls
    <3>1. call'[t] \notin CompileCalls
      BY <2>0, <2>2 DEF LoadCalls, CompileCalls, Compiled
    <3> QED BY <2>1, <3>1 DEF CompiledInv
  <2>3. CASE c \in CompileCalls
    <3>0. /\ GoodCall(c) /\ c.at \in Compiled /\ c.phase \in {"lookup", "put", "returned"}
          /\ c.at # "lexicon"
      BY <2>3 DEF CompiledInv, CompileCalls, Compiled
    <3> HIDE DEF c
    <3>1. CASE LookupHit(t)
      <4>1. PICK i \in DOMAIN store[c.at] :
                store[c.at][i].key = c.key /\ call' = [call EXCEPT ![t] = Got(c, store[c.at][i].value)]
        BY <3>1 DEF LookupHit, c
      <4> DEFINE e == store[c.at][i]
                 o == e.value
      <4>2. store[c.at] \in Seq(GoodEntries(c.at))
        BY <3>0 DEF CompiledInv
      <4>3. e \in GoodEntries(c.at)
        BY <4>2, ElementOfSeq, LenProperties
      <4>4. e.key = c.key /\ call'[t] = Got(c, o)
        BY <1>0, <4>1
      <4> HIDE DEF e
      <4>5. o \in Seq(Parts) /\ BuiltFor(o, c.at, e.key[1], e.key[2])
        BY <4>3 DEF GoodEntries, CompiledEntries
      <4>6. e.key[1] = c.lexicon /\ e.key[2] = c.deprecated
        BY <3>0, <4>4 DEF GoodCall, Part
      <4>7. BuiltFor(o, c.at, c.lexicon, c.deprecated)
        BY <4>5, <4>6
      <4> HIDE DEF o
      <4>8. GoodCall(Got(c, o))
        BY <2>3, <3>0, <4>5, <4>7, GotGood
      <4> QED BY <2>1, <4>4, <4>8 DEF CompiledInv
    <3>2. CASE Put(t)
      <4> DEFINE o == c.object
      <4>1. call'[t] = Got(c, o) /\ c.phase = "put"
        BY <1>0, <3>2 DEF Put, c
      <4>2. o \in Seq(Parts) /\ BuiltFor(o, c.at, c.lexicon, c.deprecated)
        BY <2>3, <3>0, <4>1 DEF GoodCall, CompileCalls
      <4> HIDE DEF o
      <4>3. GoodCall(Got(c, o))
        BY <2>3, <3>0, <4>2, GotGood
      <4> QED BY <2>1, <4>1, <4>3 DEF CompiledInv
    <3>3. CASE LookupMiss(t) /\ c.at = "matcher"
      <4> DEFINE p == Part(c.lexicon, c.deprecated)
                 n == [c EXCEPT !.phase = "put", !.object = <<p>>]
      <4>1. call'[t] = n
        BY <1>0, <3>3 DEF LookupMiss, c
      <4>2. BuiltFor(<<p>>, "matcher", c.lexicon, c.deprecated)
        BY DEF BuiltFor, Depth
      <4>3. /\ n.phase = "put" /\ n.at = c.at /\ n.object = <<p>> /\ n.want = c.want
            /\ n.key = c.key /\ n.lexicon = c.lexicon /\ n.deprecated = c.deprecated
        BY <2>3 DEF CompileCalls
      <4> HIDE DEF n, p
      <4>4. GoodCall(n)
        BY <3>0, <3>3, <4>2, <4>3 DEF GoodCall
      <4> QED BY <2>1, <4>1, <4>4 DEF CompiledInv
    <3>4. CASE LookupMiss(t) /\ c.at # "matcher"
      <4> DEFINE n == [c EXCEPT !.at = Below(c.at)]
      <4>1. call'[t] = n /\ c.phase = "lookup"
        BY <1>0, <3>0, <3>4 DEF LookupMiss, c
      <4>2. Depth(Below(c.at)) <= Depth(c.at) /\ Depth(Below(c.at)) \in Nat /\ Depth(c.at) \in Nat
            /\ Depth(c.want) \in Nat
        BY <3>0, <3>4 DEF Depth, Below, Compiled
      <4>3. /\ n.phase = c.phase /\ n.at = Below(c.at) /\ n.object = c.object /\ n.want = c.want
            /\ n.key = c.key /\ n.lexicon = c.lexicon /\ n.deprecated = c.deprecated
        BY <2>3 DEF CompileCalls
      <4> HIDE DEF n
      <4>4. GoodCall(n)
        BY <3>0, <4>1, <4>2, <4>3 DEF GoodCall
      <4> QED BY <2>1, <4>1, <4>4 DEF CompiledInv
    <3>5. CASE Stat(t) \/ Read(t)
      BY <3>0, <3>5 DEF Stat, Read, c
    <3> QED BY <1>3, <3>1, <3>2, <3>3, <3>4, <3>5 DEF Step
  <2> QED BY <2>0, <2>2, <2>3
<1>4. UNCHANGED call => \A u \in Threads : call'[u] \in CompileCalls => GoodCall(call'[u])
  BY DEF CompiledInv
<1>5. \A u \in Threads : call'[u] \in CompileCalls => GoodCall(call'[u])
  BY <1>0, <1>2, <1>3, <1>4, OtherSteps DEF CompiledInv
<1> QED BY <1>1, <1>5 DEF CompiledInv

LEMMA CompiledInit == Init => CompiledInv
<1> SUFFICES ASSUME Init PROVE CompiledInv
  OBVIOUS
<1>1. \A k \in Compiled : store[k] = <<>> /\ <<>> \in Seq(GoodEntries(k))
  BY KindFacts, EmptySeq DEF Init
<1>2. \A t \in Threads : call[t] \notin CompileCalls
  BY DEF Init, Idle, CompileCalls
<1> QED BY <1>1, <1>2 DEF CompiledInv

\* get_matcher, get_resolver and get_tool_guard return an object that is built,
\* down to its innermost part, for the lexicon and the option it was asked for,
\* whatever other threads insert, evict or clear between the nested lookups.
THEOREM HitsCorrect == Spec => []HitsChangeNothing
<1>1. BaseInv /\ CompiledInv => HitsChangeNothing
  <2> SUFFICES ASSUME BaseInv, CompiledInv, NEW t \in Threads,
                      call[t].phase = "returned", call[t].want \in Compiled
               PROVE  BuiltFor(call[t].object, call[t].want, call[t].lexicon, call[t].deprecated)
    BY DEF HitsChangeNothing
  <2>1. call[t] # Idle
    BY DEF Idle
  <2>2. call[t] \in CompileCalls
    BY <2>1 DEF BaseInv, TypeOK, LoadCalls, Compiled
  <2> QED BY <2>2 DEF CompiledInv, GoodCall
<1> QED BY BaseInit, BaseStep, CompiledInit, CompiledStep, <1>1, PTL DEF Spec

-----------------------------------------------------------------------------
(* Loads, while the clock moves between two changes of the file.           *)

TickingNext == RewriteLater \/ ThreadNext

Ordered ==
    /\ \A i, j \in DOMAIN versions : i < j => versions[i].mtime < versions[j].mtime
    /\ \A i \in DOMAIN versions : versions[i].mtime <= clock

\* Key and lexicon come from versions i and j, the lexicon no earlier.
Filed(key, lexicon, i, j) ==
    /\ i <= j
    /\ key = Stamp(versions[i])
    /\ lexicon = Outcome(versions[j].content)

FiledEntries ==
    {e \in LexiconEntries : \E i, j \in DOMAIN versions : Filed(e.key, e.value, i, j)}

\* What a call has in hand is of its own time.
FreshCall(c) ==
    /\ c.since \in DOMAIN versions
    /\ c.phase \in {"lookup", "read"} =>
           \E i \in DOMAIN versions : c.since <= i /\ c.key = Stamp(versions[i])
    /\ c.phase = "put" =>
           \E i, j \in DOMAIN versions : c.since <= i /\ Filed(c.key, c.object, i, j)
    /\ c.phase = "returned" =>
           \E i \in DOMAIN versions : /\ c.since <= i /\ i <= c.until
                                      /\ c.object = Outcome(versions[i].content)

FreshInv ==
    /\ Ordered
    /\ store["lexicon"] \in Seq(FiledEntries)
    /\ \A t \in Threads : call[t] \in LoadCalls => FreshCall(call[t])

\* Versions are only added.
LEMMA VersionsGrow ==
    ASSUME TypeOK, [TickingNext]_vars
    PROVE  /\ [Next]_vars
           /\ DOMAIN versions = 1..Len(versions) /\ Len(versions) \in Nat \ {0}
           /\ DOMAIN versions \subseteq DOMAIN versions'
           /\ \A i \in DOMAIN versions : versions'[i] = versions[i]
           /\ Ordered => Ordered'
<1>1. /\ versions \in Seq(Versions) /\ versions # <<>> /\ clock \in 0..MaxTime
  BY DEF TypeOK
<1>2. DOMAIN versions = 1..Len(versions) /\ Len(versions) \in Nat \ {0}
  BY <1>1, LenProperties, EmptySeq
<1>3. ASSUME NEW i \in 1..Len(versions) PROVE versions[i] \in Versions /\ versions[i].mtime \in 0..MaxTime
  <2>1. versions[i] \in Versions
    BY <1>1, ElementOfSeq
  <2> QED BY <2>1 DEF Versions
<1>4. ASSUME NEW c \in Texts \cup {Absent}, Current.mtime < clock, Replace(c, clock)
      PROVE  /\ Rewrite
             /\ DOMAIN versions \subseteq DOMAIN versions'
             /\ \A i \in DOMAIN versions : versions'[i] = versions[i]
             /\ Ordered => Ordered'
  <2> DEFINE v == [content |-> c, mtime |-> clock]
             n == Len(versions)
  <2>1. clock \in 0..clock /\ MaxTime \in Nat
    BY <1>1, CacheAssumption
  <2>2. Rewrite
    BY <1>4, <2>1 DEF Rewrite
  <2>3. v \in Versions
    BY <1>1 DEF Versions
  <2>4. versions' = Append(versions, v) /\ clock' = clock
    BY <1>4 DEF Replace
  <2>5. /\ versions' \in Seq(Versions) /\ Len(versions') = n + 1 /\ versions'[n + 1] = v
        /\ \A i \in 1..n : versions'[i] = versions[i]
    BY <1>1, <2>3, <2>4, AppendProperties
  <2>6. DOMAIN versions' = 1..n + 1
    BY <2>5, LenProperties
  <2>7. ASSUME Ordered PROVE Ordered'
    <3>1. \A i \in 1..n : versions[i] \in Versions /\ versions[i].mtime \in 0..MaxTime
      BY <1>3
    <3>2. \A i \in 1..n : versions[i].mtime <= versions[n].mtime
      BY <1>2, <2>7, <3>1, <2>1 DEF Ordered
    <3>3. versions[n].mtime < clock
      BY <1>4 DEF Current
    <3>4. \A i \in 1..n : versions[i].mtime < clock
      BY <1>1, <1>2, <2>1, <3>1, <3>2, <3>3
    <3>5. versions'[n + 1].mtime = clock
      BY <2>5
    <3>6. n \in Nat /\ \A i \in 1..n + 1 : i \in 1..n \/ i = n + 1
      BY <1>2
    <3> HIDE DEF v, n
    <3>7. \A i \in 1..n + 1 : versions'[i].mtime <= clock
      BY <1>1, <2>1, <2>5, <3>1, <3>4, <3>5, <3>6
    <3>8. ASSUME NEW i \in 1..n + 1, NEW j \in 1..n + 1, i < j
          PROVE  versions'[i].mtime < versions'[j].mtime
      <4>1. i \in 1..n
        BY <3>6, <3>8
      <4>2. CASE j = n + 1
        BY <2>5, <3>4, <3>5, <4>1, <4>2
      <4>3. CASE j \in 1..n
        BY <1>2, <2>5, <2>7, <3>8, <4>1, <4>3 DEF Ordered, n
      <4> QED BY <3>6, <4>2, <4>3
    <3> QED BY <2>4, <2>6, <3>7, <3>8 DEF Ordered
  <2>8. \A i \in 1..n : i \in 1..n + 1
    BY <1>2
  <2> HIDE DEF n, v
  <2> QED BY <1>2, <2>2, <2>5, <2>6, <2>7, <2>8 DEF n
<1>5. ASSUME UNCHANGED versions /\ (clock' = clock \/ clock' = clock + 1)
      PROVE  /\ DOMAIN versions \subseteq DOMAIN versions'
             /\ \A i \in DOMAIN versions : versions'[i] = versions[i]
             /\ Ordered => Ordered'
  <2>1. \A i \in 1..Len(versions) : versions[i].mtime \in 0..MaxTime
    BY <1>3
  <2>2. clock \in Int /\ MaxTime \in Int /\ DOMAIN versions = 1..Len(versions)
    BY <1>1, <1>2, CacheAssumption
  <2>3. \A i \in DOMAIN versions : versions[i].mtime \in Int
    BY <2>1, <2>2
  <2>4. Ordered => Ordered'
    BY <1>5, <2>2, <2>3 DEF Ordered
  <2> QED BY <1>5, <2>4
<1>6. ThreadNext \/ UNCHANGED vars => UNCHANGED versions /\ (clock' = clock \/ clock' = clock + 1)
  BY DEF ThreadNext, Tick, Clear, Begin, BeginLoad, BeginGet, Step, Stat, LookupHit,
         LookupMiss, Read, Put, vars
<1> QED BY <1>2, <1>4, <1>5, <1>6 DEF TickingNext, RewriteLater, Next

LEMMA FreshKept ==
    ASSUME TypeOK, [TickingNext]_vars
    PROVE  /\ \A c : FreshCall(c) => FreshCall(c)'
           /\ FiledEntries \subseteq FiledEntries'
<1>1. /\ DOMAIN versions \subseteq DOMAIN versions'
      /\ \A i \in DOMAIN versions : versions'[i] = versions[i]
  BY VersionsGrow
<1>2. \A k, l : \A i, j \in DOMAIN versions :
          /\ i \in DOMAIN versions' /\ j \in DOMAIN versions'
          /\ Filed(k, l, i, j) => Filed(k, l, i, j)'
  BY <1>1 DEF Filed, Outcome, Stamp
<1>3. ASSUME NEW c, FreshCall(c) PROVE FreshCall(c)'
  <2>1. c.since \in DOMAIN versions'
    BY <1>1, <1>3 DEF FreshCall
  <2>2. c.phase \in {"lookup", "read"} =>
           \E i \in DOMAIN versions' : c.since <= i /\ c.key = Stamp(versions'[i])
    BY <1>1, <1>3 DEF FreshCall
  <2>3. c.phase = "put" =>
           \E i, j \in DOMAIN versions' : c.since <= i /\ Filed(c.key, c.object, i, j)'
    BY <1>2, <1>3 DEF FreshCall
  <2>4. c.phase = "returned" =>
           \E i \in DOMAIN versions' : /\ c.since <= i /\ i <= c.until
                                       /\ c.object = Outcome(versions'[i].content)
    BY <1>1, <1>3 DEF FreshCall
  <2> QED BY <2>1, <2>2, <2>3, <2>4 DEF FreshCall, Stamp, Outcome
<1>4. FiledEntries \subseteq FiledEntries'
  BY <1>2 DEF FiledEntries
<1> QED BY <1>3, <1>4

\* A step of a load that leaves the file alone.
LEMMA LoadStep ==
    ASSUME BaseInv, FreshInv, NEW t \in Threads, call[t] \in LoadCalls, Step(t)
    PROVE  FreshCall(call'[t])
<1> DEFINE c == call[t]
           n == Len(versions)
<1>0. /\ call \in [Threads -> {Idle} \cup LoadCalls \cup CompileCalls]
      /\ versions \in Seq(Versions) /\ versions # <<>>
      /\ TypeOK /\ StoresBounded /\ LoadedBeforePut
  BY DEF BaseInv, TypeOK
<1>1. /\ DOMAIN versions = 1..n /\ n \in Nat \ {0}
      /\ \A i \in 1..n : versions[i] \in Versions
      /\ Current = versions[n]
  BY <1>0, LenProperties, EmptySeq, ElementOfSeq DEF Current
<1>2. /\ FreshCall(c) /\ c \in LoadCalls /\ c.at = "lexicon" /\ c.want = "lexicon"
      /\ c.since \in 1..n
  BY <1>1 DEF FreshInv, FreshCall, LoadCalls
<1>3. n \in 1..n /\ c.since <= n
  BY <1>1, <1>2
<1> HIDE DEF c, n
<1>4. ASSUME NEW o \in Valid \cup {Failed}, NEW i \in 1..n, c.since <= i,
             o = Outcome(versions[i].content)
      PROVE  FreshCall(Returned(c, o))
  <2> DEFINE r == [c EXCEPT !.phase = "returned", !.object = o, !.until = n]
  <2>1. Returned(c, o) = r
    BY <1>2 DEF Returned, n
  <2>2. r.phase = "returned" /\ r.object = o /\ r.until = n /\ r.since = c.since
    BY <1>2 DEF LoadCalls
  <2>3. i <= n
    BY <1>1
  <2> HIDE DEF r
  <2>4. FreshCall(r)
    BY <1>1, <1>2, <1>4, <2>2, <2>3 DEF FreshCall
  <2> QED BY <2>1, <2>4
<1>5. CASE Stat(t)
  <2>1. CASE Current.content = Absent
    <3> DEFINE r == [c EXCEPT !.phase = "read uncached"]
    <3>1. call'[t] = r
      BY <1>0, <1>5, <2>1 DEF Stat, c
    <3>2. r.phase = "read uncached" /\ r.since = c.since
      BY <1>2 DEF LoadCalls
    <3> HIDE DEF r
    <3>3. FreshCall(r)
      BY <1>1, <1>2, <3>2 DEF FreshCall
    <3> QED BY <3>1, <3>3
  <2>2. CASE Current.content # Absent
    <3> DEFINE r == [c EXCEPT !.phase = "lookup", !.key = Stamp(Current)]
    <3>1. call'[t] = r
      BY <1>0, <1>5, <2>2 DEF Stat, c
    <3>2. r.phase = "lookup" /\ r.since = c.since /\ r.key = Stamp(versions[n])
      BY <1>1, <1>2 DEF LoadCalls
    <3> HIDE DEF r
    <3>3. FreshCall(r)
      BY <1>1, <1>2, <1>3, <3>2 DEF FreshCall
    <3> QED BY <3>1, <3>3
  <2> QED BY <2>1, <2>2
<1>6. CASE LookupHit(t)
  <2>1. PICK m \in DOMAIN store["lexicon"] :
            /\ store["lexicon"][m].key = c.key
            /\ call' = [call EXCEPT ![t] = Got(c, store["lexicon"][m].value)]
    BY <1>2, <1>6 DEF LookupHit, c
  <2> DEFINE e == store["lexicon"][m]
  <2>2. e \in FiledEntries
    BY ElementOfSeq, LenProperties DEF FreshInv
  <2>3. e.key = c.key /\ call'[t] = Got(c, e.value)
    BY <1>0, <2>1
  <2> HIDE DEF e
  <2>4. e.value \in Valid \cup {Failed}
    BY <2>2 DEF FiledEntries, LexiconEntries
  <2>5. PICK i \in 1..n, j \in 1..n : Filed(e.key, e.value, i, j)
    BY <1>1, <2>2 DEF FiledEntries
  <2>6. PICK s \in 1..n : c.since <= s /\ c.key = Stamp(versions[s])
    <3>1. c.phase = "lookup"
      BY <1>6 DEF LookupHit, c
    <3> QED BY <1>1, <1>2, <3>1 DEF FreshCall
  <2>7. versions[i].mtime = versions[s].mtime
    <3>1. Stamp(versions[i]) = Stamp(versions[s])
      BY <2>3, <2>5, <2>6 DEF Filed
    <3> QED BY <3>1 DEF Stamp
  <2>8. i = s
    <3>1. versions[i].mtime \in Int /\ versions[s].mtime \in Int
      <4>1. versions[i] \in Versions /\ versions[s] \in Versions
        BY <1>1
      <4> QED BY <4>1, CacheAssumption DEF Versions
    <3>2. i < s => versions[i].mtime < versions[s].mtime
      BY <1>1 DEF FreshInv, Ordered
    <3>3. s < i => versions[s].mtime < versions[i].mtime
      BY <1>1 DEF FreshInv, Ordered
    <3> QED BY <1>1, <2>7, <3>1, <3>2, <3>3
  <2>9. c.since <= j /\ e.value = Outcome(versions[j].content)
    BY <1>1, <1>2, <2>5, <2>6, <2>8 DEF Filed
  <2>10. FreshCall(Returned(c, e.value))
    BY <1>4, <2>4, <2>9
  <2>11. Got(c, e.value) = Returned(c, e.value)
    BY <1>2 DEF Got
  <2> QED BY <2>3, <2>10, <2>11
<1>7. CASE LookupMiss(t)
  <2> DEFINE r == [c EXCEPT !.phase = "read"]
  <2>1. call'[t] = r /\ c.phase = "lookup"
    BY <1>0, <1>2, <1>7 DEF LookupMiss, c
  <2>2. r.phase = "read" /\ r.since = c.since /\ r.key = c.key
    BY <1>2 DEF LoadCalls
  <2> HIDE DEF r
  <2>3. FreshCall(r)
    BY <1>2, <2>1, <2>2 DEF FreshCall
  <2> QED BY <2>1, <2>3
<1>8. CASE Read(t)
  <2> DEFINE l == Outcome(Current.content)
             r == [c EXCEPT !.phase = "put", !.object = l]
  <2>1. call'[t] = IF c.phase = "read" /\ l # Failed THEN r ELSE Returned(c, l)
    BY <1>0, <1>8 DEF Read, c
  <2>2. l \in Valid \cup {Failed} /\ l = Outcome(versions[n].content)
    BY <1>1 DEF Outcome
  <2>3. r.phase = "put" /\ r.object = l /\ r.since = c.since /\ r.key = c.key
    BY <1>2 DEF LoadCalls
  <2> HIDE DEF l, r
  <2>4. FreshCall(Returned(c, l))
    BY <1>3, <1>4, <2>2
  <2>5. ASSUME c.phase = "read" PROVE FreshCall(r)
    <3>1. PICK i \in 1..n : c.since <= i /\ c.key = Stamp(versions[i])
      BY <1>1, <1>2, <2>5 DEF FreshCall
    <3>2. i <= n
      BY <1>1
    <3>3. Filed(r.key, r.object, i, n)
      BY <2>2, <2>3, <3>1, <3>2 DEF Filed
    <3> QED BY <1>1, <1>2, <1>3, <2>3, <3>1, <3>3 DEF FreshCall
  <2> QED BY <2>1, <2>4, <2>5
<1>9. CASE Put(t)
  <2> DEFINE o == c.object
  <2>1. c.phase = "put" /\ call'[t] = Got(c, o)
    BY <1>0, <1>9 DEF Put, c
  <2>2. PICK i \in 1..n, j \in 1..n : c.since <= i /\ Filed(c.key, c.object, i, j)
    BY <1>1, <1>2, <2>1 DEF FreshCall
  <2>3. c.since <= j /\ o = Outcome(versions[j].content)
    BY <1>1, <1>2, <2>2 DEF Filed
  <2>4. o \in Valid \cup {Failed}
    BY <1>2 DEF LoadCalls
  <2> HIDE DEF o
  <2>5. FreshCall(Returned(c, o))
    BY <1>4, <2>3, <2>4
  <2>6. Got(c, o) = Returned(c, o)
    BY <1>2 DEF Got
  <2> QED BY <2>1, <2>5, <2>6
<1> QED BY <1>5, <1>6, <1>7, <1>8, <1>9 DEF Step

LEMMA FreshStep == BaseInv /\ FreshInv /\ [TickingNext]_vars => FreshInv'
<1> SUFFICES ASSUME BaseInv, FreshInv, [TickingNext]_vars PROVE FreshInv'
  OBVIOUS
<1>0. /\ call \in [Threads -> {Idle} \cup LoadCalls \cup CompileCalls]
      /\ TypeOK /\ StoresBounded /\ LoadedBeforePut
  BY DEF BaseInv, TypeOK
<1>1. /\ [Next]_vars /\ Ordered'
      /\ DOMAIN versions = 1..Len(versions) /\ Len(versions) \in Nat \ {0}
      /\ DOMAIN versions \subseteq DOMAIN versions'
  BY <1>0, VersionsGrow DEF FreshInv
<1>2. store'["lexicon"] \in Seq(FiledEntries')
  <2>1. ASSUME NEW t \in Threads, call[t].phase = "put", call[t].at = "lexicon"
        PROVE  Entry(call[t]) \in FiledEntries
    <3>1. call[t] # Idle
      BY <2>1 DEF Idle
    <3>2. call[t] \in LoadCalls
      BY <1>0, <2>1, <3>1 DEF CompileCalls, Compiled
    <3>3. FreshCall(call[t]) /\ call[t].object \in Valid /\ call[t].key \in Stamps
      BY <1>0, <2>1, <3>2 DEF FreshInv, LoadedBeforePut, LoadCalls
    <3>4. \E i, j \in DOMAIN versions : Filed(call[t].key, call[t].object, i, j)
      BY <2>1, <3>3 DEF FreshCall
    <3> QED BY <3>3, <3>4 DEF Entry, FiledEntries, LexiconEntries
  <2>2. store'["lexicon"] \in Seq(FiledEntries)
    BY <1>0, <1>1, <2>1, StoreStep, KindFacts DEF FreshInv
  <2>3. FiledEntries \subseteq FiledEntries'
    BY <1>0, FreshKept
  <2> QED BY <2>2, <2>3, SeqMonotonic
<1>3. UNCHANGED call => \A u \in Threads : call'[u] \in LoadCalls => FreshCall(call'[u])
  BY DEF FreshInv
<1>4. ASSUME NEW t \in Threads, Begin(t)
      PROVE  \A u \in Threads : call'[u] \in LoadCalls => FreshCall(call'[u])
  <2>1. \A u \in Threads : u # t => call'[u] = call[u]
    BY <1>0, <1>4, BeginTyped
  <2>2. ASSUME call'[t] \in LoadCalls PROVE FreshCall(call'[t])
    <3>1. call'[t].phase = "stat" /\ call'[t].since = Len(versions)
      BY <1>0, <1>4, <2>2, BeginTyped DEF LoadCalls, CompileCalls, Compiled
    <3> QED BY <1>1, <3>1 DEF FreshCall
  <2> QED BY <2>1, <2>2 DEF FreshInv
<1>5. ASSUME NEW t \in Threads, Step(t)
      PROVE  \A u \in Threads : call'[u] \in LoadCalls => FreshCall(call'[u])
  <2>1. \A u \in Threads : u # t => call'[u] = call[u]
    BY <1>0, <1>5, StepTyped
  <2>2. ASSUME call'[t] \in LoadCalls PROVE FreshCall(call'[t])
    <3>1. call[t] \in LoadCalls
      BY <1>0, <1>5, <2>2, StepTyped DEF LoadCalls, CompileCalls, Compiled
    <3> QED BY <1>5, <3>1, LoadStep
  <2> QED BY <2>1, <2>2 DEF FreshInv
<1>6. \A u \in Threads : call'[u] \in LoadCalls => FreshCall(call'[u])
  BY <1>0, <1>1, <1>3, <1>4, <1>5, OtherSteps
<1>7. ASSUME NEW u \in Threads, call'[u] \in LoadCalls PROVE FreshCall(call[u])'
  <2>1. PICK c : c = call'[u]
    OBVIOUS
  <2>2. FreshCall(c)
    BY <1>6, <1>7, <2>1
  <2>3. FreshCall(c)'
    BY <1>0, <2>2, FreshKept
  <2> QED BY <2>1, <2>3 DEF FreshCall, Filed
<1>8. LoadCalls' = LoadCalls
  BY DEF LoadCalls
<1> QED BY <1>1, <1>2, <1>7, <1>8 DEF FreshInv

LEMMA FreshInit == Init => FreshInv
<1> SUFFICES ASSUME Init PROVE FreshInv
  OBVIOUS
<1>1. PICK v : versions = <<v>> /\ v.mtime = 0 /\ clock = 0
  BY DEF Init
<1>2. Ordered
  BY <1>1 DEF Ordered
<1>3. store["lexicon"] = <<>> /\ <<>> \in Seq(FiledEntries)
  BY KindFacts, EmptySeq DEF Init
<1>4. \A t \in Threads : call[t] \notin LoadCalls
  BY DEF Init, Idle, LoadCalls
<1> QED BY <1>2, <1>3, <1>4 DEF FreshInv

\* While no two contents of the file share a modification time, load_lexicon
\* answers with what the file held at some moment of the call: although the key
\* is taken before the file is read, and lookup and insertion are apart.
THEOREM LoadsCorrect == TickingSpec => []LoadsAreFresh
<1>1. BaseInv /\ FreshInv => LoadsAreFresh
  <2> SUFFICES ASSUME BaseInv, FreshInv, NEW t \in Threads,
                      call[t].phase = "returned", call[t].want = "lexicon"
               PROVE  \E i \in call[t].since..call[t].until :
                          call[t].object = Outcome(versions[i].content)
    BY DEF LoadsAreFresh
  <2>1. call[t] # Idle
    BY DEF Idle
  <2>2. call[t] \in LoadCalls
    BY <2>1 DEF BaseInv, TypeOK, CompileCalls, Compiled
  <2>3. FreshCall(call[t]) /\ call[t].since \in Nat /\ call[t].until \in Nat
    BY <2>2 DEF FreshInv, LoadCalls
  <2>4. PICK i \in DOMAIN versions : /\ call[t].since <= i /\ i <= call[t].until
                                    /\ call[t].object = Outcome(versions[i].content)
    BY <2>3 DEF FreshCall
  <2>5. i \in Nat
    BY LenProperties DEF BaseInv, TypeOK
  <2> QED BY <2>3, <2>4, <2>5
<1>2. BaseInv /\ [TickingNext]_vars => [Next]_vars
  BY VersionsGrow DEF BaseInv
<1>3. BaseInv /\ FreshInv /\ [TickingNext]_vars => BaseInv' /\ FreshInv'
  BY <1>2, BaseStep, FreshStep
<1>4. Init => BaseInv /\ FreshInv
  BY BaseInit, FreshInit
<1>5. TickingSpec <=> Init /\ [][TickingNext]_vars
  BY DEF TickingSpec, TickingNext
<1> QED BY <1>1, <1>3, <1>4, <1>5, PTL
=============================================================================
