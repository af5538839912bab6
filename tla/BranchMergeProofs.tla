-------------------------- MODULE BranchMergeProofs --------------------------
(***************************************************************************)
(* Theorems about the three-way merge, for lexicons of any size.           *)
(***************************************************************************)
EXTENDS BranchMerge, SequenceTheorems, WellFoundedInduction, TLAPS

\* A clash is one whichever side is called ours; so are the conflicts below.
LEMMA ClashSymmetric ==
    ASSUME NEW b, NEW o, NEW t
    PROVE  Clash(b, o, t) <=> Clash(b, t, o)
BY DEF Clash

LEMMA WithinSymmetric ==
    ASSUME NEW b, NEW o, NEW t
    PROVE  /\ MergedWithin(b, o, t) <=> MergedWithin(b, t, o)
           /\ WholeConflict(b, o, t) <=> WholeConflict(b, t, o)
BY ClashSymmetric DEF MergedWithin, WholeConflict

LEMMA MappingConflictsSymmetric ==
    ASSUME NEW b, NEW o, NEW t
    PROVE  MappingConflicts(b, o, t) = MappingConflicts(b, t, o)
<1>1. MappingKeys(b, o, t) = MappingKeys(b, t, o)
  BY DEF MappingKeys
<1>2. ASSUME NEW k
      PROVE  Clash(ValueAt(b, k), ValueAt(o, k), ValueAt(t, k))
             <=> Clash(ValueAt(b, k), ValueAt(t, k), ValueAt(o, k))
  BY ClashSymmetric
<1> QED
  BY <1>1, <1>2 DEF MappingConflicts

LEMMA ObjectConflictsSymmetric ==
    ASSUME NEW b, NEW o, NEW t
    PROVE  ObjectConflicts(b, o, t) = ObjectConflicts(b, t, o)
<1>1. ASSUME NEW f
      PROVE  Clash(b.fields[f], o.fields[f], t.fields[f])
             <=> Clash(b.fields[f], t.fields[f], o.fields[f])
  BY ClashSymmetric
<1>2. MappingConflicts(b.metadata, o.metadata, t.metadata)
          = MappingConflicts(b.metadata, t.metadata, o.metadata)
  BY MappingConflictsSymmetric
<1> QED
  BY <1>1, <1>2 DEF ObjectConflicts

LEMMA ObjectsSymmetric ==
    ASSUME NEW b, NEW o, NEW t
    PROVE  IndexedListConflicts(b, o, t, ObjectConflicts)
               = IndexedListConflicts(b, t, o, ObjectConflicts)
<1> DEFINE Found(x, y, z) == IF MergedWithin(x, y, z) THEN ObjectConflicts(x, y, z)
                             ELSE IF WholeConflict(x, y, z) THEN {<<>>} ELSE {}
           Places(y, z) == {Beneath(<<id>>, Found(ItemAt(b, id), ItemAt(y, id), ItemAt(z, id))) :
                               id \in Ids(b) \cup Ids(y) \cup Ids(z)}
<1>1. ASSUME NEW x, NEW y, NEW z
      PROVE  Found(x, y, z) = Found(x, z, y)
  BY WithinSymmetric, ObjectConflictsSymmetric
<1>2. Ids(b) \cup Ids(o) \cup Ids(t) = Ids(b) \cup Ids(t) \cup Ids(o)
  OBVIOUS
<1> HIDE DEF Found
<1>3. Places(o, t) = Places(t, o)
  BY <1>1, <1>2
<1> USE DEF Found
<1> QED
  BY <1>3 DEF IndexedListConflicts

LEMMA EvidenceSymmetric ==
    ASSUME NEW b, NEW o, NEW t
    PROVE  IndexedListConflicts(b, o, t, EvidenceItemConflicts)
               = IndexedListConflicts(b, t, o, EvidenceItemConflicts)
<1> DEFINE Found(x, y, z) == IF MergedWithin(x, y, z) THEN EvidenceItemConflicts(x, y, z)
                             ELSE IF WholeConflict(x, y, z) THEN {<<>>} ELSE {}
           Places(y, z) == {Beneath(<<id>>, Found(ItemAt(b, id), ItemAt(y, id), ItemAt(z, id))) :
                               id \in Ids(b) \cup Ids(y) \cup Ids(z)}
<1>1. ASSUME NEW x, NEW y, NEW z
      PROVE  Found(x, y, z) = Found(x, z, y)
  BY WithinSymmetric DEF EvidenceItemConflicts
<1>2. Ids(b) \cup Ids(o) \cup Ids(t) = Ids(b) \cup Ids(t) \cup Ids(o)
  OBVIOUS
<1> HIDE DEF Found
<1>3. Places(o, t) = Places(t, o)
  BY <1>1, <1>2
<1> USE DEF Found
<1> QED
  BY <1>3 DEF IndexedListConflicts

LEMMA ProposalConflictsSymmetric ==
    ASSUME NEW b, NEW o, NEW t
    PROVE  ProposalConflicts(b, o, t) = ProposalConflicts(b, t, o)
<1>1. ObjectConflicts(b, o, t) = ObjectConflicts(b, t, o)
  BY ObjectConflictsSymmetric
<1>2. IndexedListConflicts(b.evidence, o.evidence, t.evidence, EvidenceItemConflicts)
          = IndexedListConflicts(b.evidence, t.evidence, o.evidence, EvidenceItemConflicts)
  BY EvidenceSymmetric
<1> QED
  BY <1>1, <1>2 DEF ProposalConflicts

LEMMA TermConflictsSymmetric ==
    ASSUME NEW b, NEW o, NEW t
    PROVE  TermConflicts(b, o, t) = TermConflicts(b, t, o)
<1>1. ProposalConflicts(b, o, t) = ProposalConflicts(b, t, o)
  BY ProposalConflictsSymmetric
<1>2. IndexedListConflicts(b.aliases, o.aliases, t.aliases, ObjectConflicts)
          = IndexedListConflicts(b.aliases, t.aliases, o.aliases, ObjectConflicts)
  BY ObjectsSymmetric
<1> QED
  BY <1>1, <1>2 DEF TermConflicts

LEMMA ProposalsSymmetric ==
    ASSUME NEW b, NEW o, NEW t
    PROVE  IndexedListConflicts(b, o, t, ProposalConflicts)
               = IndexedListConflicts(b, t, o, ProposalConflicts)
<1> DEFINE Found(x, y, z) == IF MergedWithin(x, y, z) THEN ProposalConflicts(x, y, z)
                             ELSE IF WholeConflict(x, y, z) THEN {<<>>} ELSE {}
           Places(y, z) == {Beneath(<<id>>, Found(ItemAt(b, id), ItemAt(y, id), ItemAt(z, id))) :
                               id \in Ids(b) \cup Ids(y) \cup Ids(z)}
<1>1. ASSUME NEW x, NEW y, NEW z
      PROVE  Found(x, y, z) = Found(x, z, y)
  BY WithinSymmetric, ProposalConflictsSymmetric
<1>2. Ids(b) \cup Ids(o) \cup Ids(t) = Ids(b) \cup Ids(t) \cup Ids(o)
  OBVIOUS
<1> HIDE DEF Found
<1>3. Places(o, t) = Places(t, o)
  BY <1>1, <1>2
<1> USE DEF Found
<1> QED
  BY <1>3 DEF IndexedListConflicts

LEMMA TermsSymmetric ==
    ASSUME NEW b, NEW o, NEW t
    PROVE  IndexedListConflicts(b, o, t, TermConflicts)
               = IndexedListConflicts(b, t, o, TermConflicts)
<1> DEFINE Found(x, y, z) == IF MergedWithin(x, y, z) THEN TermConflicts(x, y, z)
                             ELSE IF WholeConflict(x, y, z) THEN {<<>>} ELSE {}
           Places(y, z) == {Beneath(<<id>>, Found(ItemAt(b, id), ItemAt(y, id), ItemAt(z, id))) :
                               id \in Ids(b) \cup Ids(y) \cup Ids(z)}
<1>1. ASSUME NEW x, NEW y, NEW z
      PROVE  Found(x, y, z) = Found(x, z, y)
  BY WithinSymmetric, TermConflictsSymmetric
<1>2. Ids(b) \cup Ids(o) \cup Ids(t) = Ids(b) \cup Ids(t) \cup Ids(o)
  OBVIOUS
<1> HIDE DEF Found
<1>3. Places(o, t) = Places(t, o)
  BY <1>1, <1>2
<1> USE DEF Found
<1> QED
  BY <1>3 DEF IndexedListConflicts

\* Which of two branches is called ours decides nothing about conflicts: the
\* same places are in conflict either way (dictionary/merge.py's merge_lexicons).
THEOREM ConflictsDoNotTakeSides ==
    ASSUME NEW b, NEW o, NEW t
    PROVE  Conflicts(b, o, t) = Conflicts(b, t, o)
<1>1. MappingConflicts(b.metadata, o.metadata, t.metadata)
          = MappingConflicts(b.metadata, t.metadata, o.metadata)
  BY MappingConflictsSymmetric
<1>2. IndexedListConflicts(b.scopes, o.scopes, t.scopes, ObjectConflicts)
          = IndexedListConflicts(b.scopes, t.scopes, o.scopes, ObjectConflicts)
  BY ObjectsSymmetric
<1>3. IndexedListConflicts(b.terms, o.terms, t.terms, TermConflicts)
          = IndexedListConflicts(b.terms, t.terms, o.terms, TermConflicts)
  BY TermsSymmetric
<1>4. IndexedListConflicts(b.proposals, o.proposals, t.proposals, ProposalConflicts)
          = IndexedListConflicts(b.proposals, t.proposals, o.proposals, ProposalConflicts)
  BY ProposalsSymmetric
<1> QED
  BY <1>1, <1>2, <1>3, <1>4 DEF Conflicts

-----------------------------------------------------------------------------
(* Sequences of which some places are picked.                              *)

\* Every set of numbers that is not empty has a least member.
LEMMA LeastMember ==
    ASSUME NEW S \in SUBSET Nat, S # {}
    PROVE  \E m \in S : \A k \in S : m <= k
<1> DEFINE R == OpToRel(<, Nat)
<1>1. IsWellFoundedOn(R, Nat)
  BY NatLessThanWellFounded, Zenon
<1>2. \A k, n \in Nat : k < n => <<k, n>> \in R
  BY DEF OpToRel
<1> HIDE DEF R
<1>3. PICK m \in S : \A k \in S : ~(<<k, m>> \in R)
  BY <1>1, WFMin, Zenon
<1>4. ASSUME NEW k \in S
      PROVE  m <= k
  <2>1. k \in Nat /\ m \in Nat /\ ~(k < m)
    BY <1>2, <1>3
  <2> QED
    BY <2>1
<1> QED
  BY <1>4

\* Zero and the successor of every number in it make a set all of Nat: the least
\* number that is missing would have a predecessor.
LEMMA Counting ==
    ASSUME NEW S, 0 \in S, \A n \in Nat : n \in S => n + 1 \in S
    PROVE  Nat \subseteq S
<1> SUFFICES ASSUME Nat \ S # {} PROVE FALSE
  OBVIOUS
<1>1. PICK n \in Nat \ S : \A k \in Nat \ S : n <= k
  BY LeastMember
<1>2. n # 0 /\ n - 1 \in Nat /\ (n - 1) + 1 = n
  OBVIOUS
<1>3. n - 1 \in S
  BY <1>1, <1>2
<1> QED
  BY <1>2, <1>3

\* What picking does with one more place of the sequence.
PickedNext(seq, places, sofar, n) ==
    IF n \in places THEN Append(sofar, seq[n]) ELSE sofar

PicksUpTo(seq, places, k) ==
    {g \in [0..k -> Seq(ToSet(seq))] :
        /\ g[0] = <<>>
        /\ \A n \in 1..k : g[n] = PickedNext(seq, places, g[n - 1], n)}

\* The recursive function that picks exists, for every sequence.
LEMMA PicksExist ==
    ASSUME NEW S, NEW seq \in Seq(S), NEW places
    PROVE  \A k \in 0..Len(seq) : PicksUpTo(seq, places, k) # {}
<1> DEFINE T == Seq(ToSet(seq))
           H == {k \in Nat : k <= Len(seq) => PicksUpTo(seq, places, k) # {}}
<1>0. Len(seq) \in Nat /\ DOMAIN seq = 1..Len(seq) /\ \A i \in 1..Len(seq) : seq[i] \in ToSet(seq)
  BY LenProperties DEF ToSet
<1>1. 0 \in H
  <2> DEFINE g == [n \in 0..0 |-> <<>>]
  <2>1. g \in [0..0 -> T] /\ g[0] = <<>>
    BY EmptySeq
  <2>2. g \in PicksUpTo(seq, places, 0)
    BY <2>1 DEF PicksUpTo
  <2> QED
    BY <2>2
<1>2. ASSUME NEW k \in Nat, k \in H
      PROVE  k + 1 \in H
  <2> SUFFICES ASSUME k + 1 <= Len(seq) PROVE PicksUpTo(seq, places, k + 1) # {}
    OBVIOUS
  <2>1. PICK g : g \in PicksUpTo(seq, places, k)
    BY <1>0, <1>2
  <2> DEFINE last == PickedNext(seq, places, g[k], k + 1)
             h == [n \in 0..(k + 1) |-> IF n = k + 1 THEN last ELSE g[n]]
  <2>2. g \in [0..k -> T] /\ g[0] = <<>>
        /\ \A n \in 1..k : g[n] = PickedNext(seq, places, g[n - 1], n)
    BY <2>1 DEF PicksUpTo
  <2>3. seq[k + 1] \in ToSet(seq)
    BY <1>0
  <2>4. g[k] \in T
    BY <2>2
  <2>5. last \in T
    BY <2>3, <2>4, AppendProperties DEF PickedNext
  <2> HIDE DEF T, last
  <2>6. h \in [0..(k + 1) -> T] /\ h[0] = <<>> /\ h[k + 1] = last
    BY <2>2, <2>5
  <2>7. \A n \in 0..k : h[n] = g[n]
    OBVIOUS
  <2> HIDE DEF h
  <2>8. ASSUME NEW n \in 1..(k + 1)
        PROVE  h[n] = PickedNext(seq, places, h[n - 1], n)
    <3>1. CASE n = k + 1
      BY <2>6, <2>7, <3>1 DEF last
    <3>2. CASE n \in 1..k
      <4>1. n \in 0..k /\ n - 1 \in 0..k
        BY <3>2
      <4>2. h[n] = g[n] /\ h[n - 1] = g[n - 1]
        BY <2>7, <4>1
      <4> QED
        BY <2>2, <3>2, <4>2
    <3> QED
      BY <3>1, <3>2
  <2>9. h \in PicksUpTo(seq, places, k + 1)
    BY <2>6, <2>8 DEF PicksUpTo, T
  <2> QED
    BY <2>9
<1> HIDE DEF H
<1>3. Nat \subseteq H
  BY <1>1, <1>2, Counting
<1> QED
  BY <1>0, <1>3 DEF H

\* Picking as its definition has it: one place after the other.
LEMMA PickedIs ==
    ASSUME NEW S, NEW seq \in Seq(S), NEW places
    PROVE  \E g \in PicksUpTo(seq, places, Len(seq)) : Picked(seq, places) = g[Len(seq)]
<1> DEFINE D == 0..Len(seq)
           Def(g) == [n \in D |-> IF n = 0 THEN <<>>
                                  ELSE IF n \in places THEN Append(g[n - 1], seq[n])
                                  ELSE g[n - 1]]
           Ok(g) == g = Def(g)
           U == CHOOSE g : Ok(g)
<1>0. Len(seq) \in Nat
  BY LenProperties
<1>1. PICK g : g \in PicksUpTo(seq, places, Len(seq))
  BY <1>0, PicksExist
<1>2. g \in [D -> Seq(ToSet(seq))] /\ g[0] = <<>>
      /\ \A n \in 1..Len(seq) : g[n] = PickedNext(seq, places, g[n - 1], n)
  BY <1>1 DEF PicksUpTo
<1>3. Ok(g)
  <2>1. \A n \in D : n # 0 => n \in 1..Len(seq)
    BY <1>0
  <2>2. \A n \in D : g[n] = Def(g)[n]
    BY <1>2, <2>1 DEF PickedNext
  <2> QED
    BY <1>2, <2>2
<1>4. Ok(U)
  <2> HIDE DEF Ok
  <2> QED
    BY <1>3
<1>5. Picked(seq, places) = U[Len(seq)]
  BY DEF Picked
<1> HIDE DEF U
<1>6. U[0] = <<>> /\ \A n \in 1..Len(seq) : U[n] = PickedNext(seq, places, U[n - 1], n)
  <2>1. \A n \in 1..Len(seq) : n \in D /\ n # 0
    BY <1>0
  <2>2. 0 \in D
    BY <1>0
  <2>3. \A n \in D : U[n] = Def(U)[n]
    BY <1>4
  <2> QED
    BY <2>1, <2>2, <2>3 DEF PickedNext
<1>7. \A n \in Nat : n <= Len(seq) => U[n] = g[n]
  <2> DEFINE H == {n \in Nat : n <= Len(seq) => U[n] = g[n]}
  <2>1. 0 \in H
    BY <1>2, <1>6
  <2>2. ASSUME NEW n \in Nat, n \in H
        PROVE  n + 1 \in H
    <3> SUFFICES ASSUME n + 1 <= Len(seq) PROVE U[n + 1] = g[n + 1]
      OBVIOUS
    <3>1. n + 1 \in 1..Len(seq) /\ (n + 1) - 1 = n /\ U[n] = g[n]
      BY <1>0, <2>2
    <3>2. U[n + 1] = PickedNext(seq, places, U[n], n + 1)
      BY <1>6, <3>1
    <3>3. g[n + 1] = PickedNext(seq, places, g[n], n + 1)
      BY <1>2, <3>1
    <3> QED
      BY <3>1, <3>2, <3>3
  <2> HIDE DEF H
  <2>3. Nat \subseteq H
    BY <2>1, <2>2, Counting
  <2> QED
    BY <2>3 DEF H
<1> QED
  BY <1>0, <1>1, <1>5, <1>7

NoRepeats(seq) == \A i, j \in DOMAIN seq : seq[i] = seq[j] => i = j

\* What appending a new element leaves of a sequence without repeats.
LEMMA AppendedFacts ==
    ASSUME NEW S, NEW seq \in Seq(S), NEW x \in S
    PROVE  /\ Append(seq, x) \in Seq(S)
           /\ ToSet(Append(seq, x)) = ToSet(seq) \cup {x}
           /\ NoRepeats(seq) /\ x \notin ToSet(seq) => NoRepeats(Append(seq, x))
<1> DEFINE t == Append(seq, x)
           n == Len(seq)
<1>1. /\ n \in Nat /\ DOMAIN seq = 1..n
      /\ t \in Seq(S) /\ DOMAIN t = 1..(n + 1)
      /\ t[n + 1] = x /\ \A i \in 1..n : t[i] = seq[i]
  BY LenProperties, AppendProperties
<1> HIDE DEF t, n
<1>2. ToSet(t) = ToSet(seq) \cup {x}
  BY <1>1 DEF ToSet
<1>3. ASSUME NoRepeats(seq), x \notin ToSet(seq)
      PROVE  NoRepeats(t)
  <2>1. \A i \in 1..n : seq[i] # x
    BY <1>1, <1>3 DEF ToSet
  <2> QED
    BY <1>1, <1>3, <2>1 DEF NoRepeats
<1> QED
  BY <1>1, <1>2, <1>3 DEF t

\* What is picked are the elements at those places, and none comes twice if none
\* is at two of the places.
LEMMA PickedFacts ==
    ASSUME NEW S, NEW seq \in Seq(S), NEW places \in SUBSET DOMAIN seq
    PROVE  /\ Picked(seq, places) \in Seq(S)
           /\ ToSet(Picked(seq, places)) = {seq[i] : i \in places}
           /\ (\A i, j \in places : seq[i] = seq[j] => i = j)
                 => NoRepeats(Picked(seq, places))
<1> DEFINE At(k) == {seq[i] : i \in {p \in places : p <= k}}
           once == \A i, j \in places : seq[i] = seq[j] => i = j
<1>1. PICK g \in PicksUpTo(seq, places, Len(seq)) : Picked(seq, places) = g[Len(seq)]
  BY PickedIs
<1>2. g[0] = <<>> /\ \A n \in 1..Len(seq) : g[n] = PickedNext(seq, places, g[n - 1], n)
  BY DEF PicksUpTo
<1>3. Len(seq) \in Nat /\ DOMAIN seq = 1..Len(seq)
      /\ \A i \in 1..Len(seq) : seq[i] \in S
  BY LenProperties, ElementOfSeq
<1> DEFINE Good(k) == g[k] \in Seq(S) /\ ToSet(g[k]) = At(k) /\ (once => NoRepeats(g[k]))
           H == {k \in Nat : k <= Len(seq) => Good(k)}
<1>4. 0 \in H
  <2>1. At(0) = {}
    BY <1>3
  <2>2. <<>> \in Seq(S) /\ ToSet(<<>>) = {} /\ NoRepeats(<<>>)
    BY EmptySeq DEF ToSet, NoRepeats
  <2> HIDE DEF At, once
  <2> QED
    BY <1>2, <2>1, <2>2
<1>5. ASSUME NEW k \in Nat, k \in H
      PROVE  k + 1 \in H
  <2> SUFFICES ASSUME k + 1 <= Len(seq) PROVE Good(k + 1)
    OBVIOUS
  <2>1. k + 1 \in 1..Len(seq) /\ (k + 1) - 1 = k /\ Good(k) /\ seq[k + 1] \in S
    BY <1>3, <1>5
  <2>2. g[k + 1] = PickedNext(seq, places, g[k], k + 1)
    BY <1>2, <2>1
  <2>3. CASE k + 1 \notin places
    <3>1. At(k + 1) = At(k)
      BY <1>3, <2>3
    <3>2. g[k + 1] = g[k]
      BY <2>2, <2>3 DEF PickedNext
    <3> HIDE DEF At, once
    <3> QED
      BY <2>1, <3>1, <3>2
  <2>4. CASE k + 1 \in places
    <3>1. At(k + 1) = At(k) \cup {seq[k + 1]}
      BY <1>3, <2>4
    <3>2. g[k + 1] = Append(g[k], seq[k + 1])
      BY <2>2, <2>4 DEF PickedNext
    <3>3. once => seq[k + 1] \notin At(k)
      BY <1>3, <2>4
    <3> HIDE DEF At, once
    <3>4. /\ g[k + 1] \in Seq(S)
          /\ ToSet(g[k + 1]) = ToSet(g[k]) \cup {seq[k + 1]}
          /\ NoRepeats(g[k]) /\ seq[k + 1] \notin ToSet(g[k]) => NoRepeats(g[k + 1])
      BY <2>1, <3>2, AppendedFacts
    <3> QED
      BY <2>1, <3>1, <3>3, <3>4
  <2> QED
    BY <2>3, <2>4
<1> HIDE DEF H
<1>6. Nat \subseteq H
  BY <1>4, <1>5, Counting
<1>7. Good(Len(seq))
  <2>1. Len(seq) \in H
    BY <1>3, <1>6
  <2> HIDE DEF Good
  <2> QED
    BY <1>3, <2>1 DEF H
<1>8. At(Len(seq)) = {seq[i] : i \in places}
  BY <1>3
<1> QED
  BY <1>1, <1>7, <1>8

\* Every element once, each of them.
LEMMA DistinctFacts ==
    ASSUME NEW S, NEW seq \in Seq(S)
    PROVE  /\ Distinct(seq) \in Seq(S)
           /\ ToSet(Distinct(seq)) = ToSet(seq)
           /\ NoRepeats(Distinct(seq))
<1> DEFINE first == {i \in DOMAIN seq : \A j \in DOMAIN seq : seq[j] = seq[i] => i <= j}
<1>1. DOMAIN seq \subseteq Nat
  BY LenProperties
<1>2. \A i, j \in first : seq[i] = seq[j] => i = j
  BY <1>1
<1>3. ASSUME NEW i \in DOMAIN seq
      PROVE  \E f \in first : seq[f] = seq[i]
  <2> DEFINE of == {j \in DOMAIN seq : seq[j] = seq[i]}
  <2>1. of \subseteq Nat /\ of # {}
    BY <1>1
  <2>2. PICK m \in of : \A k \in of : m <= k
    <3> HIDE DEF of
    <3> QED
      BY <2>1, LeastMember
  <2> QED
    BY <2>2
<1>4. {seq[i] : i \in first} = ToSet(seq)
  BY <1>3 DEF ToSet
<1>5. first \in SUBSET DOMAIN seq
  OBVIOUS
<1>6. Distinct(seq) = Picked(seq, first)
  BY DEF Distinct
<1> HIDE DEF first
<1>7. /\ Picked(seq, first) \in Seq(S)
      /\ ToSet(Picked(seq, first)) = {seq[i] : i \in first}
      /\ NoRepeats(Picked(seq, first))
  BY <1>2, <1>5, PickedFacts
<1> QED
  BY <1>4, <1>6, <1>7

\* The elements of a concatenation, and when none comes twice in it.
LEMMA ConcatFacts ==
    ASSUME NEW S, NEW s \in Seq(S), NEW t \in Seq(S)
    PROVE  s \o t \in Seq(S) /\ ToSet(s \o t) = ToSet(s) \cup ToSet(t)
<1> DEFINE st == s \o t
<1>1. /\ Len(s) \in Nat /\ DOMAIN s = 1..Len(s)
      /\ Len(t) \in Nat /\ DOMAIN t = 1..Len(t)
      /\ st \in Seq(S) /\ DOMAIN st = 1..(Len(s) + Len(t))
      /\ \A i \in 1..Len(s) + Len(t) : st[i] = IF i <= Len(s) THEN s[i] ELSE t[i - Len(s)]
  BY LenProperties, ConcatProperties
<1> HIDE DEF st
<1>2. ASSUME NEW i \in DOMAIN s
      PROVE  s[i] \in ToSet(st)
  BY <1>1 DEF ToSet
<1>3. ASSUME NEW i \in DOMAIN t
      PROVE  t[i] \in ToSet(st)
  <2>1. i + Len(s) \in DOMAIN st /\ st[i + Len(s)] = t[i]
    BY <1>1
  <2> QED
    BY <2>1 DEF ToSet
<1>4. ASSUME NEW i \in DOMAIN st
      PROVE  st[i] \in ToSet(s) \cup ToSet(t)
  <2>1. i \in 1..(Len(s) + Len(t))
    BY <1>1
  <2>2. i <= Len(s) => i \in DOMAIN s /\ st[i] = s[i]
    BY <1>1, <2>1
  <2>3. ~(i <= Len(s)) => i - Len(s) \in DOMAIN t /\ st[i] = t[i - Len(s)]
    BY <1>1, <2>1
  <2> QED
    BY <2>2, <2>3 DEF ToSet
<1>5. ToSet(st) = ToSet(s) \cup ToSet(t)
  BY <1>2, <1>3, <1>4 DEF ToSet
<1> QED
  BY <1>1, <1>5 DEF st

-----------------------------------------------------------------------------
(* Lists of objects with ids.                                              *)

\* What stands for no object is no object.
AbsentIsNoObject == "id" \notin DOMAIN Absent

\* A list holds each object at one place and finds it under its id.
LEMMA IndexedFacts ==
    ASSUME NEW items, Indexed(items), AbsentIsNoObject
    PROVE  /\ \A x \in ToSet(items) : x.id \in Ids(items) /\ ItemAt(items, x.id) = x
           /\ \A id \in Ids(items) : /\ ItemAt(items, id) \in ToSet(items)
                                     /\ ItemAt(items, id).id = id
                                     /\ ItemAt(items, id) # Absent
           /\ \A id : id \notin Ids(items) => ItemAt(items, id) = Absent
<1>1. DOMAIN items \subseteq Nat
  BY LenProperties DEF Indexed, IsList
<1>2. ASSUME NEW i \in DOMAIN items
      PROVE  ItemAt(items, items[i].id) = items[i]
  <2> DEFINE places == {j \in DOMAIN items : items[j].id = items[i].id}
  <2>1. places = {i}
    BY DEF Indexed, IdsUnique
  <2>2. Max(places) = i
    BY <1>1, <2>1 DEF Max
  <2>3. places # {}
    BY <2>1
  <2>4. ItemAt(items, items[i].id) = IF places = {} THEN Absent ELSE items[Max(places)]
    BY DEF ItemAt
  <2> QED
    BY <2>2, <2>3, <2>4
<1>3. \A x \in ToSet(items) : x # Absent
  BY DEF Indexed, AbsentIsNoObject
<1>4. \A x : x \in ToSet(items) <=> \E i \in DOMAIN items : x = items[i]
  BY DEF ToSet
<1>5. \A id : id \in Ids(items) <=> \E i \in DOMAIN items : id = items[i].id
  BY DEF Ids
<1>6. ASSUME NEW id, id \notin Ids(items)
      PROVE  ItemAt(items, id) = Absent
  BY <1>5, <1>6 DEF ItemAt
<1> QED
  BY <1>2, <1>3, <1>4, <1>5, <1>6

\* A sequence of elements of any set is a list.
LEMMA ListOfAny ==
    ASSUME NEW S, NEW items \in Seq(S)
    PROVE  IsList(items)
<1>1. Len(items) \in Nat /\ items \in [1..Len(items) -> S]
  BY LenProperties
<1>2. items \in [1..Len(items) -> ToSet(items)]
  BY <1>1 DEF ToSet
<1> QED
  BY <1>1, <1>2, SeqDef DEF IsList

Keys(b, o, t) == Ids(b) \cup Ids(o) \cup Ids(t)

\* The ids of a merged list: those of all three lists, each once.
LEMMA OrderedKeysFacts ==
    ASSUME NEW b, NEW o, NEW t, IsList(b), IsList(o), IsList(t)
    PROVE  /\ OrderedKeys(b, o, t) \in Seq(Keys(b, o, t))
           /\ ToSet(OrderedKeys(b, o, t)) = Keys(b, o, t)
           /\ NoRepeats(OrderedKeys(b, o, t))
<1> DEFINE keys == Ids(b) \cup Ids(o) \cup Ids(t)
           S == ToSet(b) \cup ToSet(o) \cup ToSet(t)
           items == b \o o \o t
           ids == [i \in DOMAIN items |-> items[i].id]
<1>1. b \in Seq(S) /\ o \in Seq(S) /\ t \in Seq(S)
  <2>1. ToSet(b) \subseteq S /\ ToSet(o) \subseteq S /\ ToSet(t) \subseteq S
    OBVIOUS
  <2> HIDE DEF S
  <2> QED
    BY <2>1, SeqMonotonic DEF IsList
<1>2. /\ items \in Seq(S)
      /\ \A x : x \in ToSet(items) <=> x \in ToSet(b) \cup ToSet(o) \cup ToSet(t)
  <2> HIDE DEF S
  <2>1. b \o o \in Seq(S) /\ ToSet(b \o o) = ToSet(b) \cup ToSet(o)
    BY <1>1, ConcatFacts, Zenon
  <2> DEFINE bo == b \o o
  <2>2. bo \in Seq(S)
    BY <2>1
  <2>3. items = bo \o t
    OBVIOUS
  <2> HIDE DEF bo, items
  <2>4. items \in Seq(S) /\ ToSet(items) = ToSet(bo) \cup ToSet(t)
    BY <1>1, <2>2, <2>3, ConcatFacts
  <2> QED
    BY <2>1, <2>4 DEF bo
<1> HIDE DEF items
<1>3. \A l, id : id \in Ids(l) <=> \E x \in ToSet(l) : id = x.id
  BY DEF Ids, ToSet
<1>4. ToSet(ids) = Ids(items)
  BY DEF ToSet, Ids
<1>5. ToSet(ids) = keys
  BY <1>2, <1>3, <1>4
<1>6. Len(items) \in Nat /\ DOMAIN items = 1..Len(items)
  BY <1>2, LenProperties
<1>7. ids \in Seq(keys)
  <2>1. \A i \in 1..Len(items) : ids[i] \in keys
    BY <1>5, <1>6 DEF ToSet
  <2>2. ids \in [1..Len(items) -> keys]
    BY <1>6, <2>1
  <2> HIDE DEF ids, keys
  <2> QED
    BY <1>6, <2>2, SeqDef
<1>8. OrderedKeys(b, o, t) = Distinct(ids)
  BY DEF OrderedKeys, items
<1> HIDE DEF ids, keys
<1>9. /\ Distinct(ids) \in Seq(keys) /\ ToSet(Distinct(ids)) = ToSet(ids)
      /\ NoRepeats(Distinct(ids))
  BY <1>7, DistinctFacts
<1> QED
  BY <1>5, <1>8, <1>9 DEF keys, Keys

\* What is listed under some ids: the objects there are, each under its own.
LEMMA ListedFacts ==
    ASSUME AbsentIsNoObject, NEW K, NEW ids \in Seq(K), ToSet(ids) = K, NoRepeats(ids),
           NEW item, DOMAIN item = K,
           \A id \in K : item[id] # Absent => item[id].id = id /\ "id" \in DOMAIN item[id]
    PROVE  /\ Indexed(Listed(ids, item))
           /\ ToSet(Listed(ids, item)) = {item[id] : id \in {k \in K : item[k] # Absent}}
           /\ \A id \in K : ItemAt(Listed(ids, item), id) = item[id]
           /\ \A id : id \notin K => ItemAt(Listed(ids, item), id) = Absent
<1> DEFINE places == {i \in DOMAIN ids : item[ids[i]] # Absent}
           kept == Picked(ids, places)
           list == [i \in DOMAIN kept |-> item[kept[i]]]
           there == {k \in K : item[k] # Absent}
<1>1. Listed(ids, item) = list
  BY DEF Listed
<1>2. /\ kept \in Seq(K)
      /\ ToSet(kept) = {ids[i] : i \in places}
      /\ NoRepeats(kept)
  <2>1. places \in SUBSET DOMAIN ids
    OBVIOUS
  <2>2. \A i, j \in places : ids[i] = ids[j] => i = j
    BY DEF NoRepeats
  <2> HIDE DEF places
  <2> QED
    BY <2>1, <2>2, PickedFacts
<1>3. ToSet(kept) = there
  BY <1>2 DEF ToSet
<1> HIDE DEF kept, places
<1>4. Len(kept) \in Nat /\ DOMAIN kept = 1..Len(kept)
  BY <1>2, LenProperties
<1>5. \A i \in DOMAIN kept : kept[i] \in there
  BY <1>3 DEF ToSet
<1>6. DOMAIN list = DOMAIN kept /\ \A i \in DOMAIN kept : list[i] = item[kept[i]]
  OBVIOUS
<1>7. list \in [1..Len(kept) -> ToSet(list)]
  BY <1>4 DEF ToSet
<1>8. list \in Seq(ToSet(list))
  <2> HIDE DEF list
  <2> QED
    BY <1>4, <1>7, SeqDef
<1> HIDE DEF list
<1>9. \A x : x \in ToSet(list) <=> \E k \in there : x = item[k]
  <2>1. \A k : k \in there <=> \E i \in DOMAIN kept : k = kept[i]
    BY <1>3 DEF ToSet
  <2> QED
    BY <1>6, <2>1 DEF ToSet
<1>10. IdsUnique(list)
  <2> SUFFICES ASSUME NEW i \in DOMAIN kept, NEW j \in DOMAIN kept, list[i].id = list[j].id
               PROVE  i = j
    BY <1>6 DEF IdsUnique
  <2>1. kept[i] = kept[j]
    BY <1>5, <1>6
  <2> QED
    BY <1>2, <2>1 DEF NoRepeats
<1>11. Indexed(list)
  BY <1>8, <1>9, <1>10 DEF Indexed, IsList
<1>12. \A id : id \in Ids(list) <=> id \in there
  <2>1. \A id : id \in Ids(list) <=> \E x \in ToSet(list) : id = x.id
    BY DEF Ids, ToSet
  <2> QED
    BY <1>9, <2>1
<1>13. ASSUME NEW id \in there
       PROVE  ItemAt(list, id) = item[id]
  <2>1. item[id] \in ToSet(list) /\ item[id].id = id
    BY <1>9
  <2> QED
    BY <1>11, <2>1, IndexedFacts
<1>14. ASSUME NEW id, id \notin there
       PROVE  ItemAt(list, id) = Absent
  BY <1>11, <1>12, <1>14, IndexedFacts
<1>15. ToSet(list) = {item[id] : id \in there}
  BY <1>9
<1> QED
  BY <1>1, <1>11, <1>13, <1>14, <1>15

-----------------------------------------------------------------------------
(* Three-way merges of sets of facts.                                      *)

\* Facts of one part: of each key what a function says.
Spread(part, says) ==
    UNION {{Fact(part, k, said) : said \in says[k]} : k \in DOMAIN says}

\* What is said in a part, key by key.
LEMMA SpreadIs ==
    ASSUME NEW part, NEW says
    PROVE  /\ \A x \in Spread(part, says) : x[1] = part /\ x = <<part, x[2], x[3]>>
           /\ \A k, f : <<part, k, f>> \in Spread(part, says) <=>
                            k \in DOMAIN says /\ f \in says[k]
BY DEF Spread, Fact

\* A part is a three-way merge if it is one under every key.
LEMMA SpreadThreeWay ==
    ASSUME NEW part, NEW keys, NEW b, NEW o, NEW t, NEW m,
           DOMAIN b = keys, DOMAIN o = keys, DOMAIN t = keys, DOMAIN m = keys,
           \A k \in keys : m[k] = ThreeWay(b[k], o[k], t[k])
    PROVE  Spread(part, m) = ThreeWay(Spread(part, b), Spread(part, o), Spread(part, t))
<1> DEFINE all == ThreeWay(Spread(part, b), Spread(part, o), Spread(part, t))
<1>1. ASSUME NEW k, NEW f
      PROVE  <<part, k, f>> \in Spread(part, m) <=> <<part, k, f>> \in all
  <2>1. \A s \in {b, o, t, m} : <<part, k, f>> \in Spread(part, s) <=>
                                    k \in DOMAIN s /\ f \in s[k]
    BY SpreadIs
  <2>2. CASE k \in keys
    <3>1. f \in m[k] <=> f \in ThreeWay(b[k], o[k], t[k])
      BY <2>2
    <3> QED
      BY <2>1, <2>2, <3>1 DEF ThreeWay
  <2>3. CASE k \notin keys
    BY <2>1, <2>3 DEF ThreeWay
  <2> QED
    BY <2>2, <2>3
<1>2. \A x \in Spread(part, m) \cup all : x = <<part, x[2], x[3]>>
  BY SpreadIs DEF ThreeWay
<1> HIDE DEF all
<1>3. \A x : x \in Spread(part, m) <=> x \in all
  BY <1>1, <1>2
<1> QED
  BY <1>3 DEF all

Within(P, facts) == \A x \in facts : x[1] \in P
Outside(P, facts) == \A x \in facts : x[1] \notin P

\* The merge of two sets of parts that have no part in common.
LEMMA ApartThreeWay ==
    ASSUME NEW P, NEW b, NEW o, NEW t, NEW c, NEW p, NEW u,
           Within(P, b), Within(P, o), Within(P, t), Outside(P, c), Outside(P, p), Outside(P, u)
    PROVE  ThreeWay(b \cup c, o \cup p, t \cup u) = ThreeWay(b, o, t) \cup ThreeWay(c, p, u)
<1>1. ASSUME NEW x
      PROVE  x \in ThreeWay(b \cup c, o \cup p, t \cup u)
               <=> x \in ThreeWay(b, o, t) \cup ThreeWay(c, p, u)
  BY DEF ThreeWay, Within, Outside
<1> QED
  BY <1>1

\* Where the two sides do not clash, what is settled says what a three-way merge says.
LEMMA SettledThreeWay ==
    ASSUME NEW b, NEW o, NEW t, ~Clash(b, o, t), NEW fb, NEW fo, NEW ft, NEW fm,
           b = o => fb = fo, b = t => fb = ft, o = t => fo = ft,
           Settled(b, o, t) = o => fm = fo, Settled(b, o, t) = t => fm = ft
    PROVE  fm = ThreeWay(fb, fo, ft)
<1>1. CASE o = b
  <2>1. fm = ft /\ fb = fo
    BY <1>1 DEF Settled
  <2> QED
    BY <2>1 DEF ThreeWay
<1>2. CASE o # b /\ t = b
  <2>1. fm = fo /\ fb = ft
    BY <1>2 DEF Settled
  <2> QED
    BY <2>1 DEF ThreeWay
<1>3. CASE o # b /\ t # b
  <2>1. o = t
    BY <1>3 DEF Clash
  <2>2. fm = fo /\ fo = ft
    BY <1>3, <2>1 DEF Settled
  <2> QED
    BY <2>2 DEF ThreeWay
<1> QED
  BY <1>1, <1>2, <1>3

-----------------------------------------------------------------------------
(* Fields, lists and mappings.                                             *)

\* Fields: each is settled on its own.
LEMMA FieldsKeepBothEdits ==
    ASSUME NEW b, NEW o, NEW t, DOMAIN o = DOMAIN b, DOMAIN t = DOMAIN b,
           \A f \in DOMAIN b : ~Clash(b[f], o[f], t[f])
    PROVE  FieldFacts([f \in DOMAIN b |-> Settled(b[f], o[f], t[f])])
               = ThreeWay(FieldFacts(b), FieldFacts(o), FieldFacts(t))
<1> DEFINE m == [f \in DOMAIN b |-> Settled(b[f], o[f], t[f])]
           said(x) == [f \in DOMAIN b |-> {x[f]}]
<1>1. ASSUME NEW x, DOMAIN x = DOMAIN b
      PROVE  FieldFacts(x) = Spread("field", said(x))
  BY <1>1 DEF FieldFacts, Spread
<1>2. ASSUME NEW f \in DOMAIN b
      PROVE  said(m)[f] = ThreeWay(said(b)[f], said(o)[f], said(t)[f])
  BY DEF ThreeWay, Settled, Clash
<1>3. DOMAIN m = DOMAIN b
  OBVIOUS
<1>4. \A x : DOMAIN said(x) = DOMAIN b
  OBVIOUS
<1> HIDE DEF m, said
<1>5. Spread("field", said(m))
          = ThreeWay(Spread("field", said(b)), Spread("field", said(o)), Spread("field", said(t)))
  BY <1>2, <1>4, SpreadThreeWay
<1>6. FieldFacts(m) = ThreeWay(FieldFacts(b), FieldFacts(o), FieldFacts(t))
  BY <1>1, <1>3, <1>5
<1> QED
  BY <1>6 DEF m

\* What is picked of a list by its elements.
LEMMA PlacesFacts ==
    ASSUME NEW S, NEW seq \in Seq(S), NEW elements
    PROVE  /\ Picked(seq, PlacesOf(seq, elements)) \in Seq(S)
           /\ ToSet(Picked(seq, PlacesOf(seq, elements))) = ToSet(seq) \cap elements
<1> DEFINE places == PlacesOf(seq, elements)
<1>1. places \in SUBSET DOMAIN seq /\ {seq[i] : i \in places} = ToSet(seq) \cap elements
  BY DEF PlacesOf, ToSet
<1> HIDE DEF places
<1>2. /\ Picked(seq, places) \in Seq(S)
      /\ ToSet(Picked(seq, places)) = {seq[i] : i \in places}
  BY <1>1, PickedFacts
<1> QED
  BY <1>1, <1>2 DEF places

\* A merged list has the elements a three-way merge has.
LEMMA ScalarSequenceFacts ==
    ASSUME NEW b, NEW o, NEW t, IsList(b), IsList(o), IsList(t)
    PROVE  /\ IsList(MergeScalarSequence(b, o, t))
           /\ ToSet(MergeScalarSequence(b, o, t)) = ThreeWay(ToSet(b), ToSet(o), ToSet(t))
<1> DEFINE S == ToSet(b) \cup ToSet(o) \cup ToSet(t)
           kept == Picked(b, PlacesOf(b, ToSet(o) \cap ToSet(t)))
           values == o \o t
           new == Picked(values, PlacesOf(values, ToSet(values) \ ToSet(b)))
           m == MergeScalarSequence(b, o, t)
<1>1. b \in Seq(S) /\ o \in Seq(S) /\ t \in Seq(S)
  <2>1. ToSet(b) \subseteq S /\ ToSet(o) \subseteq S /\ ToSet(t) \subseteq S
    OBVIOUS
  <2> HIDE DEF S
  <2> QED
    BY <2>1, SeqMonotonic DEF IsList
<1>2. m = kept \o Distinct(new)
  BY DEF MergeScalarSequence, Added
<1> HIDE DEF S
<1>3. values \in Seq(S) /\ ToSet(values) = ToSet(o) \cup ToSet(t)
  BY <1>1, ConcatFacts
<1> HIDE DEF values
<1>4. kept \in Seq(S) /\ ToSet(kept) = ToSet(b) \cap (ToSet(o) \cap ToSet(t))
  BY <1>1, PlacesFacts
<1>5. new \in Seq(S) /\ ToSet(new) = ToSet(values) \cap (ToSet(values) \ ToSet(b))
  BY <1>3, PlacesFacts
<1> HIDE DEF kept, new, m
<1>6. Distinct(new) \in Seq(S) /\ ToSet(Distinct(new)) = ToSet(new)
  BY <1>5, DistinctFacts
<1>7. m \in Seq(S) /\ ToSet(m) = ToSet(kept) \cup ToSet(Distinct(new))
  BY <1>2, <1>4, <1>6, ConcatFacts
<1>8. IsList(m)
  BY <1>7, ListOfAny
<1>9. ToSet(m) = ThreeWay(ToSet(b), ToSet(o), ToSet(t))
  BY <1>3, <1>4, <1>5, <1>6, <1>7 DEF ThreeWay
<1> QED
  BY <1>8, <1>9 DEF m

\* Lists of names: each is merged on its own.
LEMMA ListsKeepBothEdits ==
    ASSUME NEW b, NEW o, NEW t, DOMAIN o = DOMAIN b, DOMAIN t = DOMAIN b,
           \A l \in DOMAIN b : IsList(b[l]) /\ IsList(o[l]) /\ IsList(t[l])
    PROVE  LET m == [l \in DOMAIN b |-> MergeScalarSequence(b[l], o[l], t[l])]
           IN  /\ \A l \in DOMAIN b : IsList(m[l])
               /\ ListFacts(m) = ThreeWay(ListFacts(b), ListFacts(o), ListFacts(t))
<1> DEFINE m == [l \in DOMAIN b |-> MergeScalarSequence(b[l], o[l], t[l])]
           said(x) == [l \in DOMAIN b |-> ToSet(x[l])]
<1>1. ASSUME NEW x, DOMAIN x = DOMAIN b
      PROVE  ListFacts(x) = Spread("list", said(x))
  BY <1>1 DEF ListFacts, Spread
<1>2. ASSUME NEW l \in DOMAIN b
      PROVE  IsList(m[l]) /\ said(m)[l] = ThreeWay(said(b)[l], said(o)[l], said(t)[l])
  BY ScalarSequenceFacts
<1>3. DOMAIN m = DOMAIN b
  OBVIOUS
<1>4. \A x : DOMAIN said(x) = DOMAIN b
  OBVIOUS
<1> HIDE DEF m, said
<1>5. Spread("list", said(m))
          = ThreeWay(Spread("list", said(b)), Spread("list", said(o)), Spread("list", said(t)))
  BY <1>2, <1>4, SpreadThreeWay
<1>6. ListFacts(m) = ThreeWay(ListFacts(b), ListFacts(o), ListFacts(t))
  BY <1>1, <1>3, <1>5
<1> QED
  BY <1>2, <1>6 DEF m

\* What the code builds anew, or changes a part of, is a mapping of its keys.
LEMMA ChangedIsFunction ==
    ASSUME NEW x, NEW k, NEW v
    PROVE  IsFunction([x EXCEPT ![k] = v])
BY DEF IsFunction

LEMMA MergedIsFunction ==
    ASSUME NEW b, NEW o, NEW t
    PROVE  IsFunction(MergeMapping(b, o, t))
BY DEF IsFunction, MergeMapping

\* Mappings, as metadata is: a key that is merged away is not in the result.
LEMMA MappingKeepsBothEdits ==
    ASSUME NEW b, NEW o, NEW t, IsMapping(b), IsMapping(o), IsMapping(t),
           MappingConflicts(b, o, t) = {}
    PROVE  /\ IsMapping(MergeMapping(b, o, t))
           /\ MetadataFacts(MergeMapping(b, o, t))
                  = ThreeWay(MetadataFacts(b), MetadataFacts(o), MetadataFacts(t))
<1> DEFINE keys == MappingKeys(b, o, t)
           At(k) == Settled(ValueAt(b, k), ValueAt(o, k), ValueAt(t, k))
           m == MergeMapping(b, o, t)
           said(x) == [k \in keys |-> IF ValueAt(x, k) = Absent THEN {} ELSE {ValueAt(x, k)}]
<1>1. DOMAIN m = {k \in keys : At(k) # Absent} /\ \A k \in DOMAIN m : m[k] = At(k)
  BY DEF MergeMapping
<1>2. \A k \in keys : ~Clash(ValueAt(b, k), ValueAt(o, k), ValueAt(t, k))
  BY DEF MappingConflicts
<1>3. ASSUME NEW x, IsMapping(x), DOMAIN x \subseteq keys
      PROVE  MetadataFacts(x) = Spread("metadata", said(x))
  <2>1. \A k \in keys : k \in DOMAIN x <=> ValueAt(x, k) # Absent
    BY <1>3 DEF ValueAt, IsMapping
  <2>2. \A k \in DOMAIN x : said(x)[k] = {x[k]}
    BY <1>3, <2>1 DEF ValueAt
  <2>3. \A k \in keys : k \notin DOMAIN x => said(x)[k] = {}
    BY <2>1
  <2>4. DOMAIN said(x) = keys
    OBVIOUS
  <2> HIDE DEF said, keys
  <2>5. \A y : y \in MetadataFacts(x) <=> \E k \in DOMAIN x : y = <<"metadata", k, x[k]>>
    BY DEF MetadataFacts, Fact
  <2>6. \A y : y \in Spread("metadata", said(x)) <=>
                   \E k \in keys : \E f \in said(x)[k] : y = <<"metadata", k, f>>
    BY <2>4 DEF Spread, Fact
  <2>7. ASSUME NEW y \in MetadataFacts(x)
        PROVE  y \in Spread("metadata", said(x))
    <3>1. PICK k \in DOMAIN x : y = <<"metadata", k, x[k]>>
      BY <2>5
    <3>2. k \in keys /\ x[k] \in said(x)[k]
      BY <1>3, <2>2
    <3> QED
      BY <2>6, <3>1, <3>2
  <2>8. ASSUME NEW y \in Spread("metadata", said(x))
        PROVE  y \in MetadataFacts(x)
    <3>1. PICK k \in keys : \E f \in said(x)[k] : y = <<"metadata", k, f>>
      BY <2>6
    <3>2. k \in DOMAIN x
      BY <2>3, <3>1
    <3>3. y = <<"metadata", k, x[k]>>
      BY <2>2, <3>1, <3>2
    <3> QED
      BY <2>5, <3>2, <3>3
  <2> QED
    BY <2>7, <2>8
<1>4. /\ DOMAIN b \subseteq keys /\ DOMAIN o \subseteq keys /\ DOMAIN t \subseteq keys
      /\ DOMAIN m \subseteq keys
  BY <1>1 DEF MappingKeys
<1>5. IsMapping(m)
  BY <1>1, MergedIsFunction DEF IsMapping
<1>6. \A k \in keys : ValueAt(m, k) = At(k)
  BY <1>1 DEF ValueAt
<1>7. ASSUME NEW k \in keys
      PROVE  said(m)[k] = ThreeWay(said(b)[k], said(o)[k], said(t)[k])
  <2>1. /\ said(m)[k] = IF At(k) = Absent THEN {} ELSE {At(k)}
        /\ \A x : said(x)[k] = IF ValueAt(x, k) = Absent THEN {} ELSE {ValueAt(x, k)}
    BY <1>6
  <2> HIDE DEF said, m
  <2> DEFINE vb == ValueAt(b, k)
             vo == ValueAt(o, k)
             vt == ValueAt(t, k)
  <2>2. ~Clash(vb, vo, vt)
    BY <1>2
  <2>3. /\ said(b)[k] = IF vb = Absent THEN {} ELSE {vb}
        /\ said(o)[k] = IF vo = Absent THEN {} ELSE {vo}
        /\ said(t)[k] = IF vt = Absent THEN {} ELSE {vt}
        /\ said(m)[k] = IF Settled(vb, vo, vt) = Absent THEN {} ELSE {Settled(vb, vo, vt)}
    BY <2>1
  <2> HIDE DEF vb, vo, vt
  <2>4. /\ vb = vo => said(b)[k] = said(o)[k]
        /\ vb = vt => said(b)[k] = said(t)[k]
        /\ vo = vt => said(o)[k] = said(t)[k]
        /\ Settled(vb, vo, vt) = vo => said(m)[k] = said(o)[k]
        /\ Settled(vb, vo, vt) = vt => said(m)[k] = said(t)[k]
    BY <2>3
  <2> QED
    BY <2>2, <2>4, SettledThreeWay
<1>8. \A x : DOMAIN said(x) = keys
  OBVIOUS
<1> HIDE DEF said, m, keys
<1>9. Spread("metadata", said(m)) = ThreeWay(Spread("metadata", said(b)),
                                             Spread("metadata", said(o)),
                                             Spread("metadata", said(t)))
  BY <1>7, <1>8, SpreadThreeWay
<1>10. MetadataFacts(m) = ThreeWay(MetadataFacts(b), MetadataFacts(o), MetadataFacts(t))
  BY <1>3, <1>4, <1>5, <1>9
<1> QED
  BY <1>5, <1>10 DEF m

-----------------------------------------------------------------------------
(* Lists of objects, merged.  A function says of every object its facts.   *)

Told(part, items, says) == UNION {{Fact(part, x.id, f) : f \in says[x]} : x \in ToSet(items)}

Saying(says, x) == IF x = Absent THEN {} ELSE says[x]

SayingAt(keys, items, says) == [id \in keys |-> Saying(says, ItemAt(items, id))]

\* What a list of objects says, under the id of each.
LEMMA ToldIsSpread ==
    ASSUME AbsentIsNoObject, NEW part, NEW items, Indexed(items), NEW keys,
           Ids(items) \subseteq keys, NEW says
    PROVE  Told(part, items, says) = Spread(part, SayingAt(keys, items, says))
<1> DEFINE at == SayingAt(keys, items, says)
<1>1. DOMAIN at = keys /\ \A id \in keys : at[id] = Saying(says, ItemAt(items, id))
  BY DEF SayingAt
<1> HIDE DEF at
<1>2. \A y : y \in Told(part, items, says) <=>
                 \E x \in ToSet(items) : \E f \in says[x] : y = <<part, x.id, f>>
  BY DEF Told, Fact
<1>3. \A y : y \in Spread(part, at) <=>
                 \E id \in keys : \E f \in at[id] : y = <<part, id, f>>
  BY <1>1 DEF Spread, Fact
<1>4. ASSUME NEW y \in Told(part, items, says)
      PROVE  y \in Spread(part, at)
  <2>1. PICK x \in ToSet(items) : \E f \in says[x] : y = <<part, x.id, f>>
    BY <1>2
  <2>2. x.id \in keys /\ ItemAt(items, x.id) = x /\ x # Absent
    BY IndexedFacts
  <2>3. at[x.id] = says[x]
    BY <1>1, <2>2 DEF Saying
  <2> QED
    BY <1>3, <2>1, <2>2, <2>3
<1>5. ASSUME NEW y \in Spread(part, at)
      PROVE  y \in Told(part, items, says)
  <2>1. PICK id \in keys : \E f \in at[id] : y = <<part, id, f>>
    BY <1>3
  <2>2. ItemAt(items, id) # Absent /\ at[id] = says[ItemAt(items, id)]
    BY <1>1, <2>1 DEF Saying
  <2>3. ItemAt(items, id) \in ToSet(items) /\ ItemAt(items, id).id = id
    BY <2>2, IndexedFacts
  <2> QED
    BY <1>2, <2>1, <2>2, <2>3
<1> QED
  BY <1>4, <1>5 DEF at

\* What an item must be for the merge of two lists to keep both edits.
MergesAt(b, o, t, item, says, id) ==
    LET x == ItemAt(b, id)
        y == ItemAt(o, id)
        z == ItemAt(t, id)
    IN  IF MergedWithin(x, y, z)
        THEN /\ "id" \in DOMAIN item[id]
             /\ item[id].id = id
             /\ says[item[id]] = ThreeWay(says[x], says[y], says[z])
        ELSE ~Clash(x, y, z) /\ item[id] = Settled(x, y, z)

\* A merged list of objects says, under every id, what is said there three ways.
LEMMA IndexedKeepsBothEdits ==
    ASSUME AbsentIsNoObject, NEW b, NEW o, NEW t, Indexed(b), Indexed(o), Indexed(t),
           NEW item, DOMAIN item = Keys(b, o, t), NEW part, NEW says,
           \A id \in Keys(b, o, t) : MergesAt(b, o, t, item, says, id)
    PROVE  LET m == Listed(OrderedKeys(b, o, t), item)
           IN  /\ Indexed(m)
               /\ \A x \in ToSet(m) :
                     \/ x \in ToSet(b) \cup ToSet(o) \cup ToSet(t)
                     \/ \E id \in Keys(b, o, t) :
                           /\ MergedWithin(ItemAt(b, id), ItemAt(o, id), ItemAt(t, id))
                           /\ x = item[id]
               /\ Told(part, m, says) = ThreeWay(Told(part, b, says), Told(part, o, says),
                                                 Told(part, t, says))
<1> DEFINE keys == Keys(b, o, t)
           ids == OrderedKeys(b, o, t)
           m == Listed(ids, item)
           B(id) == ItemAt(b, id)
           O(id) == ItemAt(o, id)
           T(id) == ItemAt(t, id)
           at(l) == SayingAt(keys, l, says)
<1>1. ids \in Seq(keys) /\ ToSet(ids) = keys /\ NoRepeats(ids)
  BY OrderedKeysFacts DEF Indexed
<1>2. ASSUME NEW l \in {b, o, t}, NEW id, ItemAt(l, id) # Absent
      PROVE  /\ ItemAt(l, id) \in ToSet(l)
             /\ ItemAt(l, id).id = id
             /\ "id" \in DOMAIN ItemAt(l, id)
  <2>1. Indexed(l)
    OBVIOUS
  <2>2. ItemAt(l, id) \in ToSet(l) /\ ItemAt(l, id).id = id
    BY <1>2, <2>1, IndexedFacts
  <2> QED
    BY <2>1, <2>2 DEF Indexed
<1>3. ASSUME NEW id \in keys
      PROVE  \/ /\ MergedWithin(B(id), O(id), T(id))
                /\ "id" \in DOMAIN item[id] /\ item[id].id = id
                /\ says[item[id]] = ThreeWay(says[B(id)], says[O(id)], says[T(id)])
             \/ /\ ~MergedWithin(B(id), O(id), T(id))
                /\ ~Clash(B(id), O(id), T(id))
                /\ item[id] = Settled(B(id), O(id), T(id))
  BY DEF MergesAt
<1>4. ASSUME NEW id \in keys, item[id] # Absent
      PROVE  item[id].id = id /\ "id" \in DOMAIN item[id]
  <2>1. CASE MergedWithin(B(id), O(id), T(id))
    BY <1>3, <2>1
  <2>2. CASE ~MergedWithin(B(id), O(id), T(id))
    <3>1. item[id] = O(id) \/ item[id] = T(id)
      BY <1>3, <2>2 DEF Settled
    <3> QED
      BY <1>2, <1>4, <3>1
  <2> QED
    BY <2>1, <2>2
<1>5. /\ Indexed(m)
      /\ ToSet(m) = {item[id] : id \in {k \in keys : item[k] # Absent}}
      /\ \A id \in keys : ItemAt(m, id) = item[id]
      /\ \A id : id \notin keys => ItemAt(m, id) = Absent
  <2> HIDE DEF keys, ids
  <2>1. DOMAIN item = keys
    BY DEF keys
  <2> QED
    BY <1>1, <1>4, <2>1, ListedFacts
<1> HIDE DEF m
<1>6. ASSUME NEW x \in ToSet(m)
      PROVE  \/ x \in ToSet(b) \cup ToSet(o) \cup ToSet(t)
             \/ \E id \in keys : MergedWithin(B(id), O(id), T(id)) /\ x = item[id]
  <2>1. PICK id \in keys : x = item[id] /\ item[id] # Absent
    BY <1>5
  <2>2. CASE ~MergedWithin(B(id), O(id), T(id))
    <3>1. item[id] = O(id) \/ item[id] = T(id)
      BY <1>3, <2>2 DEF Settled
    <3> QED
      BY <1>2, <2>1, <3>1
  <2> QED
    BY <2>1, <2>2
<1>7. ASSUME NEW id \in keys
      PROVE  Saying(says, item[id])
                 = ThreeWay(Saying(says, B(id)), Saying(says, O(id)), Saying(says, T(id)))
  <2> HIDE DEF B, O, T
  <2>1. CASE MergedWithin(B(id), O(id), T(id))
    <3>1. B(id) # Absent /\ O(id) # Absent /\ T(id) # Absent
      BY <2>1 DEF MergedWithin
    <3>2. item[id] # Absent
      BY <1>3, <2>1 DEF AbsentIsNoObject
    <3> QED
      BY <1>3, <2>1, <3>1, <3>2 DEF Saying
  <2>2. CASE ~MergedWithin(B(id), O(id), T(id))
    <3> DEFINE x == B(id)
               y == O(id)
               z == T(id)
    <3>1. ~Clash(x, y, z) /\ item[id] = Settled(x, y, z)
      BY <1>3, <2>2
    <3> HIDE DEF x, y, z
    <3>2. /\ x = y => Saying(says, x) = Saying(says, y)
          /\ x = z => Saying(says, x) = Saying(says, z)
          /\ y = z => Saying(says, y) = Saying(says, z)
          /\ Settled(x, y, z) = y => Saying(says, item[id]) = Saying(says, y)
          /\ Settled(x, y, z) = z => Saying(says, item[id]) = Saying(says, z)
      BY <3>1
    <3>3. Saying(says, item[id])
              = ThreeWay(Saying(says, x), Saying(says, y), Saying(says, z))
      BY <3>1, <3>2, SettledThreeWay
    <3> QED
      BY <3>3 DEF x, y, z
  <2> QED
    BY <2>1, <2>2
<1>8. \A l : DOMAIN at(l) = keys /\ \A id \in keys : at(l)[id] = Saying(says, ItemAt(l, id))
  BY DEF SayingAt
<1>9. Ids(b) \subseteq keys /\ Ids(o) \subseteq keys /\ Ids(t) \subseteq keys
  BY DEF Keys
<1>10. Ids(m) \subseteq keys
  BY <1>5, IndexedFacts
<1> HIDE DEF keys
<1>11. ASSUME NEW l, Indexed(l), Ids(l) \subseteq keys
       PROVE  Told(part, l, says) = Spread(part, at(l))
  BY <1>11, ToldIsSpread
<1> HIDE DEF at
<1>12. \A id \in keys : at(m)[id] = ThreeWay(at(b)[id], at(o)[id], at(t)[id])
  BY <1>5, <1>7, <1>8
<1>13. Spread(part, at(m))
           = ThreeWay(Spread(part, at(b)), Spread(part, at(o)), Spread(part, at(t)))
  <2> DEFINE am == at(m)
             ab == at(b)
             ao == at(o)
             att == at(t)
  <2>1. /\ DOMAIN am = keys /\ DOMAIN ab = keys /\ DOMAIN ao = keys /\ DOMAIN att = keys
        /\ \A id \in keys : am[id] = ThreeWay(ab[id], ao[id], att[id])
    BY <1>8, <1>12
  <2> HIDE DEF am, ab, ao, att
  <2>2. Spread(part, am) = ThreeWay(Spread(part, ab), Spread(part, ao), Spread(part, att))
    BY <2>1, SpreadThreeWay
  <2> QED
    BY <2>2 DEF am, ab, ao, att
<1>14. Told(part, m, says)
           = ThreeWay(Told(part, b, says), Told(part, o, says), Told(part, t, says))
  BY <1>5, <1>9, <1>10, <1>11, <1>13
<1> QED
  BY <1>5, <1>6, <1>14 DEF m, keys

-----------------------------------------------------------------------------
(* Evidence.                                                               *)

\* Lists of evidence, of which no entry is merged within.
LEMMA EvidenceKeepsBothEdits ==
    ASSUME AbsentIsNoObject, NEW b, NEW o, NEW t, Indexed(b), Indexed(o), Indexed(t),
           IndexedListConflicts(b, o, t, EvidenceItemConflicts) = {}
    PROVE  LET m == MergeIndexedList(b, o, t, MergeEvidence)
           IN  /\ Indexed(m)
               /\ EvidenceFacts(m)
                      = ThreeWay(EvidenceFacts(b), EvidenceFacts(o), EvidenceFacts(t))
<1> DEFINE keys == Keys(b, o, t)
           Result(id) ==
               IF MergedWithin(ItemAt(b, id), ItemAt(o, id), ItemAt(t, id))
               THEN MergeEvidence(ItemAt(b, id), ItemAt(o, id), ItemAt(t, id))
               ELSE Settled(ItemAt(b, id), ItemAt(o, id), ItemAt(t, id))
           item == [id \in keys |-> Result(id)]
           m == Listed(OrderedKeys(b, o, t), item)
           all == ToSet(b) \cup ToSet(o) \cup ToSet(t) \cup {item[id] : id \in keys}
           says == [x \in all |-> {x.data}]
<1>1. MergeIndexedList(b, o, t, MergeEvidence) = m
  <2>1. ToSet(OrderedKeys(b, o, t)) = keys
    BY OrderedKeysFacts DEF Indexed
  <2> QED
    BY <2>1 DEF MergeIndexedList
<1>2. ASSUME NEW id \in keys
      PROVE  /\ ~MergedWithin(ItemAt(b, id), ItemAt(o, id), ItemAt(t, id))
             /\ ~Clash(ItemAt(b, id), ItemAt(o, id), ItemAt(t, id))
  <2> DEFINE x == ItemAt(b, id)
             y == ItemAt(o, id)
             z == ItemAt(t, id)
             found == IF MergedWithin(x, y, z) THEN EvidenceItemConflicts(x, y, z)
                      ELSE IF WholeConflict(x, y, z) THEN {<<>>} ELSE {}
  <2>1. Beneath(<<id>>, found) = {}
    BY DEF IndexedListConflicts, Keys
  <2>2. found = {}
    <3> HIDE DEF found
    <3> QED
      BY <2>1 DEF Beneath
  <2>3. ~MergedWithin(x, y, z) /\ ~WholeConflict(x, y, z)
    BY <2>2 DEF EvidenceItemConflicts
  <2> QED
    BY <2>3 DEF WholeConflict
<1>3. DOMAIN item = keys
  OBVIOUS
<1>4. ASSUME NEW id \in keys
      PROVE  MergesAt(b, o, t, item, says, id)
  <2>1. item[id] = Settled(ItemAt(b, id), ItemAt(o, id), ItemAt(t, id))
    BY <1>2
  <2> HIDE DEF item, says, keys
  <2> QED
    BY <1>2, <2>1 DEF MergesAt
<1> HIDE DEF item
<1>5. ASSUME NEW l, ToSet(l) \subseteq all
      PROVE  EvidenceFacts(l) = Told("evidence", l, says)
  <2>1. \A x \in ToSet(l) : says[x] = {x.data}
    BY <1>5
  <2> HIDE DEF says, all
  <2>2. \A y : y \in EvidenceFacts(l) <=> \E x \in ToSet(l) : y = Fact("evidence", x.id, x.data)
    BY DEF EvidenceFacts
  <2>3. \A y : y \in Told("evidence", l, says) <=>
                   \E x \in ToSet(l) : \E f \in says[x] : y = Fact("evidence", x.id, f)
    BY DEF Told
  <2>4. \A y : y \in Told("evidence", l, says) <=>
                   \E x \in ToSet(l) : y = Fact("evidence", x.id, x.data)
    BY <2>1, <2>3
  <2> QED
    BY <2>2, <2>4
<1>6. ToSet(b) \subseteq all /\ ToSet(o) \subseteq all /\ ToSet(t) \subseteq all
  OBVIOUS
<1> HIDE DEF says
<1>7. /\ Indexed(m)
      /\ \A x \in ToSet(m) : \/ x \in ToSet(b) \cup ToSet(o) \cup ToSet(t)
                             \/ \E id \in keys : x = item[id]
      /\ Told("evidence", m, says) = ThreeWay(Told("evidence", b, says),
                                              Told("evidence", o, says),
                                              Told("evidence", t, says))
  BY <1>3, <1>4, IndexedKeepsBothEdits
<1> HIDE DEF m
<1>8. ToSet(m) \subseteq all
  BY <1>7
<1> HIDE DEF all
<1> QED
  BY <1>1, <1>5, <1>6, <1>7, <1>8

-----------------------------------------------------------------------------
(* Objects.                                                                *)

TheObject == {Fact("object", None, None)}

HeadFacts(x) ==
    TheObject \cup FieldFacts(x.fields) \cup ListFacts(x.lists) \cup MetadataFacts(x.metadata)

\* Each part of an object has facts of its own.
LEMMA PartsApart ==
    ASSUME NEW x
    PROVE  /\ \A f \in TheObject : f[1] = "object"
           /\ \A f \in FieldFacts(x.fields) : f[1] = "field"
           /\ \A f \in ListFacts(x.lists) : f[1] = "list"
           /\ \A f \in MetadataFacts(x.metadata) : f[1] = "metadata"
           /\ \A f \in EvidenceFacts(x.evidence) : f[1] = "evidence"
<1>1. \A k, v : Fact("object", k, v)[1] = "object" /\ Fact("field", k, v)[1] = "field"
                /\ Fact("list", k, v)[1] = "list" /\ Fact("metadata", k, v)[1] = "metadata"
                /\ Fact("evidence", k, v)[1] = "evidence"
  BY DEF Fact
<1> QED
  BY <1>1 DEF TheObject, FieldFacts, ListFacts, MetadataFacts, EvidenceFacts

\* An object, evidence aside, is a three-way merge if each of its parts is one.
LEMMA HeadKeepsBothEdits ==
    ASSUME NEW b, NEW o, NEW t, NEW m,
           FieldFacts(m.fields)
               = ThreeWay(FieldFacts(b.fields), FieldFacts(o.fields), FieldFacts(t.fields)),
           ListFacts(m.lists)
               = ThreeWay(ListFacts(b.lists), ListFacts(o.lists), ListFacts(t.lists)),
           MetadataFacts(m.metadata)
               = ThreeWay(MetadataFacts(b.metadata), MetadataFacts(o.metadata),
                          MetadataFacts(t.metadata))
    PROVE  HeadFacts(m) = ThreeWay(HeadFacts(b), HeadFacts(o), HeadFacts(t))
<1> DEFINE F(x) == FieldFacts(x.fields)
           L(x) == ListFacts(x.lists)
           M(x) == MetadataFacts(x.metadata)
           H1(x) == TheObject \cup F(x)
           H2(x) == H1(x) \cup L(x)
           H3(x) == H2(x) \cup M(x)
<1>1. \A x : /\ \A f \in TheObject : f[1] = "object"
             /\ \A f \in F(x) : f[1] = "field"
             /\ \A f \in L(x) : f[1] = "list"
             /\ \A f \in M(x) : f[1] = "metadata"
  BY PartsApart
<1>2. F(m) = ThreeWay(F(b), F(o), F(t)) /\ L(m) = ThreeWay(L(b), L(o), L(t))
      /\ M(m) = ThreeWay(M(b), M(o), M(t))
  OBVIOUS
<1> HIDE DEF F, L, M
<1>3. TheObject = ThreeWay(TheObject, TheObject, TheObject)
  BY DEF ThreeWay
<1>4. ThreeWay(H1(b), H1(o), H1(t))
          = ThreeWay(TheObject, TheObject, TheObject) \cup ThreeWay(F(b), F(o), F(t))
  <2> DEFINE P == {"object"}
  <2>1. /\ Within(P, TheObject)
        /\ Outside(P, F(b)) /\ Outside(P, F(o)) /\ Outside(P, F(t))
    BY <1>1 DEF Within, Outside
  <2> HIDE DEF P
  <2> QED
    BY <2>1, ApartThreeWay
<1>5. \A x : \A f \in H1(x) : f[1] \in {"object", "field"}
  BY <1>1
<1> HIDE DEF H1
<1>6. ThreeWay(H2(b), H2(o), H2(t))
          = ThreeWay(H1(b), H1(o), H1(t)) \cup ThreeWay(L(b), L(o), L(t))
  <2> DEFINE P == {"object", "field"}
  <2>1. /\ Within(P, H1(b)) /\ Within(P, H1(o)) /\ Within(P, H1(t))
        /\ Outside(P, L(b)) /\ Outside(P, L(o)) /\ Outside(P, L(t))
    BY <1>1, <1>5 DEF Within, Outside
  <2>2. \A x : H2(x) = H1(x) \cup L(x)
    OBVIOUS
  <2> HIDE DEF P, H2
  <2> QED
    BY <2>1, <2>2, ApartThreeWay
<1>7. \A x : \A f \in H2(x) : f[1] \in {"object", "field", "list"}
  BY <1>1, <1>5
<1> HIDE DEF H2
<1>8. ThreeWay(H3(b), H3(o), H3(t))
          = ThreeWay(H2(b), H2(o), H2(t)) \cup ThreeWay(M(b), M(o), M(t))
  <2> DEFINE P == {"object", "field", "list"}
  <2>1. /\ Within(P, H2(b)) /\ Within(P, H2(o)) /\ Within(P, H2(t))
        /\ Outside(P, M(b)) /\ Outside(P, M(o)) /\ Outside(P, M(t))
    BY <1>1, <1>7 DEF Within, Outside
  <2>2. \A x : H3(x) = H2(x) \cup M(x)
    OBVIOUS
  <2> HIDE DEF P, H3
  <2> QED
    BY <2>1, <2>2, ApartThreeWay
<1>9. H3(m) = ThreeWay(H3(b), H3(o), H3(t))
  <2>1. H1(m) = TheObject \cup F(m) /\ H2(m) = H1(m) \cup L(m) /\ H3(m) = H2(m) \cup M(m)
    BY DEF H1, H2
  <2> QED
    BY <1>2, <1>3, <1>4, <1>6, <1>8, <2>1
<1>10. \A x : HeadFacts(x) = H3(x)
  BY DEF HeadFacts, H3, H2, H1, F, L, M
<1> HIDE DEF H3
<1> QED
  BY <1>9, <1>10

\* What merging two objects field by field, list by list and key by key makes of them.
LEMMA ObjectKeepsBothEdits ==
    ASSUME NEW kind, NEW b, NEW o, NEW t,
           IsObject(kind, b), IsObject(kind, o), IsObject(kind, t),
           ObjectConflicts(b, o, t) = {}
    PROVE  LET m == MergeObject(b, o, t)
           IN  /\ DOMAIN m = DOMAIN b
               /\ m.id = b.id /\ m.evidence = b.evidence
               /\ "aliases" \in DOMAIN b => m.aliases = b.aliases
               /\ IsFunction(m) /\ IsFunction(m.fields)
               /\ DOMAIN m.fields = kind.fields
               /\ DOMAIN m.lists = kind.lists
               /\ \A l \in kind.lists : IsList(m.lists[l])
               /\ IsMapping(m.metadata)
               /\ HeadFacts(m) = ThreeWay(HeadFacts(b), HeadFacts(o), HeadFacts(t))
<1> DEFINE m == MergeObject(b, o, t)
           fields == [f \in DOMAIN b.fields |->
                         Settled(b.fields[f], o.fields[f], t.fields[f])]
           lists == [l \in DOMAIN b.lists |->
                        MergeScalarSequence(b.lists[l], o.lists[l], t.lists[l])]
           metadata == MergeMapping(b.metadata, o.metadata, t.metadata)
<1>1. /\ DOMAIN b.fields = kind.fields /\ DOMAIN b.lists = kind.lists
      /\ DOMAIN o.fields = kind.fields /\ DOMAIN o.lists = kind.lists
      /\ DOMAIN t.fields = kind.fields /\ DOMAIN t.lists = kind.lists
      /\ \A l \in kind.lists : IsList(b.lists[l]) /\ IsList(o.lists[l]) /\ IsList(t.lists[l])
      /\ IsMapping(b.metadata) /\ IsMapping(o.metadata) /\ IsMapping(t.metadata)
      /\ {"id", "fields", "lists", "metadata", "evidence"} \subseteq DOMAIN b
  BY DEF IsObject
<1>2. /\ DOMAIN m = DOMAIN b
      /\ m.fields = fields /\ m.lists = lists /\ m.metadata = metadata
      /\ m.id = b.id /\ m.evidence = b.evidence
      /\ "aliases" \in DOMAIN b => m.aliases = b.aliases
  BY <1>1 DEF MergeObject
<1>3. /\ \A f \in DOMAIN b.fields : ~Clash(b.fields[f], o.fields[f], t.fields[f])
      /\ MappingConflicts(b.metadata, o.metadata, t.metadata) = {}
  <2> DEFINE clashes == {g \in DOMAIN b.fields : Clash(b.fields[g], o.fields[g], t.fields[g])}
             within == MappingConflicts(b.metadata, o.metadata, t.metadata)
  <2>1. {<<f>> : f \in clashes} = {} /\ Beneath(<<"metadata">>, within) = {}
    BY DEF ObjectConflicts
  <2> HIDE DEF within
  <2>2. clashes = {} /\ within = {}
    BY <2>1 DEF Beneath
  <2> QED
    BY <2>2 DEF within
<1>4. FieldFacts(fields)
          = ThreeWay(FieldFacts(b.fields), FieldFacts(o.fields), FieldFacts(t.fields))
  <2> DEFINE x == b.fields
             y == o.fields
             z == t.fields
  <2>1. DOMAIN y = DOMAIN x /\ DOMAIN z = DOMAIN x
        /\ \A f \in DOMAIN x : ~Clash(x[f], y[f], z[f])
    BY <1>1, <1>3
  <2> HIDE DEF x, y, z
  <2>2. FieldFacts([f \in DOMAIN x |-> Settled(x[f], y[f], z[f])])
            = ThreeWay(FieldFacts(x), FieldFacts(y), FieldFacts(z))
    BY <2>1, FieldsKeepBothEdits
  <2> QED
    BY <2>2 DEF x, y, z
<1>5. /\ \A l \in DOMAIN b.lists : IsList(lists[l])
      /\ ListFacts(lists) = ThreeWay(ListFacts(b.lists), ListFacts(o.lists), ListFacts(t.lists))
  <2> DEFINE x == b.lists
             y == o.lists
             z == t.lists
             n == [l \in DOMAIN x |-> MergeScalarSequence(x[l], y[l], z[l])]
  <2>1. DOMAIN y = DOMAIN x /\ DOMAIN z = DOMAIN x
        /\ \A l \in DOMAIN x : IsList(x[l]) /\ IsList(y[l]) /\ IsList(z[l])
    BY <1>1
  <2> HIDE DEF x, y, z
  <2>2. /\ \A l \in DOMAIN x : IsList(n[l])
        /\ ListFacts(n) = ThreeWay(ListFacts(x), ListFacts(y), ListFacts(z))
    BY <2>1, ListsKeepBothEdits
  <2> QED
    BY <2>2 DEF x, y, z
<1>6. /\ IsMapping(metadata)
      /\ MetadataFacts(metadata) = ThreeWay(MetadataFacts(b.metadata),
                                            MetadataFacts(o.metadata),
                                            MetadataFacts(t.metadata))
  BY <1>1, <1>3, MappingKeepsBothEdits
<1>7. DOMAIN fields = kind.fields /\ DOMAIN lists = kind.lists
  BY <1>1
<1>10. IsFunction(m) /\ IsFunction(fields)
  BY <1>1 DEF MergeObject, IsFunction
<1> HIDE DEF m, fields, lists, metadata
<1>8. HeadFacts(m) = ThreeWay(HeadFacts(b), HeadFacts(o), HeadFacts(t))
  BY <1>2, <1>4, <1>5, <1>6, HeadKeepsBothEdits
<1>9. \A l \in kind.lists : IsList(m.lists[l])
  BY <1>1, <1>2, <1>5
<1> QED
  BY <1>2, <1>6, <1>7, <1>8, <1>9, <1>10 DEF m

\* An object with its evidence is a three-way merge if both are.
LEMMA ObjectFactsSplit ==
    ASSUME NEW b, NEW o, NEW t
    PROVE  ThreeWay(ObjectFacts(b), ObjectFacts(o), ObjectFacts(t))
               = ThreeWay(HeadFacts(b), HeadFacts(o), HeadFacts(t))
                 \cup ThreeWay(EvidenceFacts(b.evidence), EvidenceFacts(o.evidence),
                               EvidenceFacts(t.evidence))
<1> DEFINE P == {"object", "field", "list", "metadata"}
           E(x) == EvidenceFacts(x.evidence)
<1>1. \A x : Within(P, HeadFacts(x)) /\ Outside(P, E(x))
  BY PartsApart DEF HeadFacts, Within, Outside
<1>2. \A x : ObjectFacts(x) = HeadFacts(x) \cup E(x)
  BY DEF ObjectFacts, HeadFacts, TheObject
<1> HIDE DEF P, E
<1>3. ThreeWay(HeadFacts(b) \cup E(b), HeadFacts(o) \cup E(o), HeadFacts(t) \cup E(t))
          = ThreeWay(HeadFacts(b), HeadFacts(o), HeadFacts(t)) \cup ThreeWay(E(b), E(o), E(t))
  BY <1>1, ApartThreeWay
<1> QED
  BY <1>2, <1>3 DEF E

\* Scopes and aliases.
LEMMA PlainKeepsBothEdits ==
    ASSUME NEW kind, NEW b, NEW o, NEW t,
           IsPlain(kind, b), IsPlain(kind, o), IsPlain(kind, t),
           ObjectConflicts(b, o, t) = {}
    PROVE  LET m == MergeObject(b, o, t)
           IN  /\ IsPlain(kind, m) /\ m.id = b.id
               /\ ObjectFacts(m) = ThreeWay(ObjectFacts(b), ObjectFacts(o), ObjectFacts(t))
<1> DEFINE m == MergeObject(b, o, t)
<1>1. /\ DOMAIN m = DOMAIN b
      /\ m.id = b.id /\ m.evidence = b.evidence
      /\ IsFunction(m) /\ IsFunction(m.fields)
      /\ DOMAIN m.fields = kind.fields
      /\ DOMAIN m.lists = kind.lists
      /\ \A l \in kind.lists : IsList(m.lists[l])
      /\ IsMapping(m.metadata)
      /\ HeadFacts(m) = ThreeWay(HeadFacts(b), HeadFacts(o), HeadFacts(t))
  BY ObjectKeepsBothEdits DEF IsPlain
<1> HIDE DEF m
<1>2. IsPlain(kind, m)
  BY <1>1 DEF IsPlain, IsObject
<1>3. EvidenceFacts(<<>>) = ThreeWay(EvidenceFacts(<<>>), EvidenceFacts(<<>>), EvidenceFacts(<<>>))
  BY DEF ThreeWay
<1>4. ObjectFacts(m) = HeadFacts(m) \cup EvidenceFacts(m.evidence)
  BY DEF ObjectFacts, HeadFacts, TheObject
<1>5. /\ b.evidence = <<>> /\ o.evidence = <<>> /\ t.evidence = <<>> /\ m.evidence = <<>>
  BY <1>2 DEF IsPlain
<1>6. ObjectFacts(m) = ThreeWay(ObjectFacts(b), ObjectFacts(o), ObjectFacts(t))
  BY <1>1, <1>3, <1>4, <1>5, ObjectFactsSplit
<1> QED
  BY <1>1, <1>2, <1>6 DEF m

\* Proposals, and what a term shares with them.
LEMMA ProposalKeepsBothEdits ==
    ASSUME AbsentIsNoObject, NEW kind, NEW b, NEW o, NEW t,
           IsObject(kind, b), IsObject(kind, o), IsObject(kind, t),
           ProposalConflicts(b, o, t) = {}
    PROVE  LET m == MergeProposal(b, o, t)
           IN  /\ IsObject(kind, m) /\ m.id = b.id /\ DOMAIN m = DOMAIN b
               /\ "aliases" \in DOMAIN b => m.aliases = b.aliases
               /\ ObjectFacts(m) = ThreeWay(ObjectFacts(b), ObjectFacts(o), ObjectFacts(t))
<1> DEFINE n == MergeObject(b, o, t)
           m == MergeProposal(b, o, t)
           evidence == MergeIndexedList(b.evidence, o.evidence, t.evidence, MergeEvidence)
           within == IndexedListConflicts(b.evidence, o.evidence, t.evidence,
                                          EvidenceItemConflicts)
<1>1. ObjectConflicts(b, o, t) = {} /\ within = {}
  <2>1. ObjectConflicts(b, o, t) = {} /\ Beneath(<<"evidence">>, within) = {}
    BY DEF ProposalConflicts
  <2> HIDE DEF within
  <2> QED
    BY <2>1 DEF Beneath
<1>2. /\ DOMAIN n = DOMAIN b
      /\ n.id = b.id /\ n.evidence = b.evidence
      /\ "aliases" \in DOMAIN b => n.aliases = b.aliases
      /\ IsFunction(n) /\ IsFunction(n.fields)
      /\ DOMAIN n.fields = kind.fields
      /\ DOMAIN n.lists = kind.lists
      /\ \A l \in kind.lists : IsList(n.lists[l])
      /\ IsMapping(n.metadata)
      /\ HeadFacts(n) = ThreeWay(HeadFacts(b), HeadFacts(o), HeadFacts(t))
  BY <1>1, ObjectKeepsBothEdits
<1>3. /\ Indexed(evidence)
      /\ EvidenceFacts(evidence) = ThreeWay(EvidenceFacts(b.evidence),
                                            EvidenceFacts(o.evidence),
                                            EvidenceFacts(t.evidence))
  BY <1>1, EvidenceKeepsBothEdits DEF IsObject
<1>4. m = [n EXCEPT !.evidence = evidence]
  BY <1>2 DEF MergeProposal
<1>5. {"id", "fields", "lists", "metadata", "evidence"} \subseteq DOMAIN b
  BY DEF IsObject
<1>11. IsFunction(m)
  BY <1>4, ChangedIsFunction
<1> HIDE DEF n, m, evidence
<1>6. /\ DOMAIN m = DOMAIN b /\ m.evidence = evidence
      /\ m.id = n.id /\ m.fields = n.fields /\ m.lists = n.lists /\ m.metadata = n.metadata
      /\ "aliases" \in DOMAIN b => m.aliases = n.aliases
  BY <1>2, <1>4, <1>5
<1>7. IsObject(kind, m)
  BY <1>2, <1>3, <1>5, <1>6, <1>11 DEF IsObject
<1>8. HeadFacts(m) = HeadFacts(n)
  BY <1>6 DEF HeadFacts
<1>9. ObjectFacts(m) = HeadFacts(m) \cup EvidenceFacts(m.evidence)
  BY DEF ObjectFacts, HeadFacts, TheObject
<1>10. ObjectFacts(m) = ThreeWay(ObjectFacts(b), ObjectFacts(o), ObjectFacts(t))
  BY <1>2, <1>3, <1>6, <1>8, <1>9, ObjectFactsSplit
<1> QED
  BY <1>2, <1>6, <1>7, <1>10 DEF m

-----------------------------------------------------------------------------
(* Lists of objects of each kind.                                          *)

\* Lists of scopes and of aliases.
LEMMA PlainListKeepsBothEdits ==
    ASSUME AbsentIsNoObject, NEW kind, NEW part, NEW b, NEW o, NEW t,
           Indexed(b), Indexed(o), Indexed(t),
           \A x \in ToSet(b) \cup ToSet(o) \cup ToSet(t) : IsPlain(kind, x),
           IndexedListConflicts(b, o, t, ObjectConflicts) = {}
    PROVE  LET m == MergeIndexedList(b, o, t, MergeObject)
           IN  /\ Indexed(m)
               /\ \A x \in ToSet(m) : IsPlain(kind, x)
               /\ ItemsFacts(part, m, ObjectFacts)
                      = ThreeWay(ItemsFacts(part, b, ObjectFacts),
                                 ItemsFacts(part, o, ObjectFacts),
                                 ItemsFacts(part, t, ObjectFacts))
<1> DEFINE keys == Keys(b, o, t)
           B(id) == ItemAt(b, id)
           O(id) == ItemAt(o, id)
           T(id) == ItemAt(t, id)
           item == [id \in keys |-> IF MergedWithin(B(id), O(id), T(id))
                                    THEN MergeObject(B(id), O(id), T(id))
                                    ELSE Settled(B(id), O(id), T(id))]
           m == Listed(OrderedKeys(b, o, t), item)
           all == ToSet(b) \cup ToSet(o) \cup ToSet(t) \cup {item[id] : id \in keys}
           says == [x \in all |-> ObjectFacts(x)]
<1>1. MergeIndexedList(b, o, t, MergeObject) = m
  <2>1. ToSet(OrderedKeys(b, o, t)) = keys
    BY OrderedKeysFacts DEF Indexed
  <2> QED
    BY <2>1 DEF MergeIndexedList
<1>2. ASSUME NEW id \in keys
      PROVE  IF MergedWithin(B(id), O(id), T(id)) THEN ObjectConflicts(B(id), O(id), T(id)) = {}
             ELSE ~Clash(B(id), O(id), T(id))
  <2> DEFINE within == ObjectConflicts(B(id), O(id), T(id))
             found == IF MergedWithin(B(id), O(id), T(id)) THEN within
                      ELSE IF WholeConflict(B(id), O(id), T(id)) THEN {<<>>} ELSE {}
  <2>1. Beneath(<<id>>, found) = {}
    BY DEF IndexedListConflicts, Keys
  <2> HIDE DEF within
  <2>2. found = {}
    <3> HIDE DEF found
    <3> QED
      BY <2>1 DEF Beneath
  <2>3. IF MergedWithin(B(id), O(id), T(id)) THEN within = {}
        ELSE ~WholeConflict(B(id), O(id), T(id))
    BY <2>2
  <2> QED
    BY <2>3 DEF within, WholeConflict
<1>3. ASSUME NEW id \in keys, MergedWithin(B(id), O(id), T(id))
      PROVE  /\ IsPlain(kind, item[id]) /\ item[id].id = id
             /\ ObjectFacts(item[id])
                    = ThreeWay(ObjectFacts(B(id)), ObjectFacts(O(id)), ObjectFacts(T(id)))
             /\ B(id) \in all /\ O(id) \in all /\ T(id) \in all
  <2>1. B(id) # Absent /\ O(id) # Absent /\ T(id) # Absent
    BY <1>3 DEF MergedWithin
  <2>2. /\ B(id) \in ToSet(b) /\ B(id).id = id
        /\ O(id) \in ToSet(o) /\ T(id) \in ToSet(t)
    BY <2>1, IndexedFacts
  <2>3. IsPlain(kind, B(id)) /\ IsPlain(kind, O(id)) /\ IsPlain(kind, T(id))
    BY <2>2
  <2>4. ObjectConflicts(B(id), O(id), T(id)) = {}
    BY <1>2, <1>3
  <2> DEFINE x == B(id)
             y == O(id)
             z == T(id)
  <2>5. item[id] = MergeObject(x, y, z)
    BY <1>3
  <2> HIDE DEF x, y, z
  <2>6. /\ IsPlain(kind, MergeObject(x, y, z)) /\ MergeObject(x, y, z).id = x.id
        /\ ObjectFacts(MergeObject(x, y, z))
               = ThreeWay(ObjectFacts(x), ObjectFacts(y), ObjectFacts(z))
    BY <2>3, <2>4, PlainKeepsBothEdits DEF x, y, z
  <2>7. x \in all /\ y \in all /\ z \in all
    BY <2>2 DEF x, y, z
  <2> QED
    BY <2>2, <2>5, <2>6, <2>7 DEF x, y, z
<1>4. DOMAIN item = keys
  OBVIOUS
<1>5. \A id \in keys : item[id] \in all
  OBVIOUS
<1>6. ASSUME NEW id \in keys, ~MergedWithin(B(id), O(id), T(id))
      PROVE  item[id] = Settled(B(id), O(id), T(id))
  BY <1>6
<1>7. \A x \in all : says[x] = ObjectFacts(x)
  OBVIOUS
<1>8. ToSet(b) \subseteq all /\ ToSet(o) \subseteq all /\ ToSet(t) \subseteq all
  OBVIOUS
<1> HIDE DEF item, says
<1>9. ASSUME NEW id \in keys
      PROVE  MergesAt(b, o, t, item, says, id)
  <2> HIDE DEF all, keys
  <2>1. CASE MergedWithin(B(id), O(id), T(id))
    <3>1. "id" \in DOMAIN item[id]
      BY <1>3, <2>1 DEF IsPlain, IsObject
    <3>2. says[item[id]] = ThreeWay(says[B(id)], says[O(id)], says[T(id)])
      BY <1>3, <1>5, <1>7, <2>1
    <3> QED
      BY <1>3, <2>1, <3>1, <3>2 DEF MergesAt
  <2>2. CASE ~MergedWithin(B(id), O(id), T(id))
    BY <1>2, <1>6, <2>2 DEF MergesAt
  <2> QED
    BY <2>1, <2>2
<1>10. /\ Indexed(m)
       /\ \A x \in ToSet(m) :
             \/ x \in ToSet(b) \cup ToSet(o) \cup ToSet(t)
             \/ \E id \in keys : MergedWithin(B(id), O(id), T(id)) /\ x = item[id]
       /\ Told(part, m, says) = ThreeWay(Told(part, b, says), Told(part, o, says),
                                           Told(part, t, says))
  BY <1>4, <1>9, IndexedKeepsBothEdits
<1> HIDE DEF m
<1>11. \A x \in ToSet(m) : IsPlain(kind, x)
  BY <1>3, <1>10
<1>12. ToSet(m) \subseteq all
  BY <1>5, <1>10
<1> HIDE DEF all
<1>13. ASSUME NEW l, ToSet(l) \subseteq all
       PROVE  ItemsFacts(part, l, ObjectFacts) = Told(part, l, says)
  <2>1. \A y : y \in ItemsFacts(part, l, ObjectFacts) <=>
                   \E x \in ToSet(l) : \E f \in ObjectFacts(x) : y = Fact(part, x.id, f)
    BY DEF ItemsFacts
  <2>2. \A y : y \in Told(part, l, says) <=>
                   \E x \in ToSet(l) : \E f \in says[x] : y = Fact(part, x.id, f)
    BY DEF Told
  <2>3. \A x \in ToSet(l) : says[x] = ObjectFacts(x)
    BY <1>7, <1>13
  <2> QED
    BY <2>1, <2>2, <2>3
<1> QED
  BY <1>1, <1>8, <1>10, <1>11, <1>12, <1>13

\* Lists of proposals.
LEMMA ProposalsKeepBothEdits ==
    ASSUME AbsentIsNoObject, NEW kind, NEW b, NEW o, NEW t,
           Indexed(b), Indexed(o), Indexed(t),
           \A x \in ToSet(b) \cup ToSet(o) \cup ToSet(t) : IsObject(kind, x),
           IndexedListConflicts(b, o, t, ProposalConflicts) = {}
    PROVE  LET m == MergeIndexedList(b, o, t, MergeProposal)
           IN  /\ Indexed(m)
               /\ \A x \in ToSet(m) : IsObject(kind, x)
               /\ ItemsFacts("proposals", m, ObjectFacts)
                      = ThreeWay(ItemsFacts("proposals", b, ObjectFacts),
                                 ItemsFacts("proposals", o, ObjectFacts),
                                 ItemsFacts("proposals", t, ObjectFacts))
<1> DEFINE keys == Keys(b, o, t)
           B(id) == ItemAt(b, id)
           O(id) == ItemAt(o, id)
           T(id) == ItemAt(t, id)
           item == [id \in keys |-> IF MergedWithin(B(id), O(id), T(id))
                                    THEN MergeProposal(B(id), O(id), T(id))
                                    ELSE Settled(B(id), O(id), T(id))]
           m == Listed(OrderedKeys(b, o, t), item)
           all == ToSet(b) \cup ToSet(o) \cup ToSet(t) \cup {item[id] : id \in keys}
           says == [x \in all |-> ObjectFacts(x)]
<1>1. MergeIndexedList(b, o, t, MergeProposal) = m
  <2>1. ToSet(OrderedKeys(b, o, t)) = keys
    BY OrderedKeysFacts DEF Indexed
  <2> QED
    BY <2>1 DEF MergeIndexedList
<1>2. ASSUME NEW id \in keys
      PROVE  IF MergedWithin(B(id), O(id), T(id)) THEN ProposalConflicts(B(id), O(id), T(id)) = {}
             ELSE ~Clash(B(id), O(id), T(id))
  <2> DEFINE within == ProposalConflicts(B(id), O(id), T(id))
             found == IF MergedWithin(B(id), O(id), T(id)) THEN within
                      ELSE IF WholeConflict(B(id), O(id), T(id)) THEN {<<>>} ELSE {}
  <2>1. Beneath(<<id>>, found) = {}
    BY DEF IndexedListConflicts, Keys
  <2> HIDE DEF within
  <2>2. found = {}
    <3> HIDE DEF found
    <3> QED
      BY <2>1 DEF Beneath
  <2>3. IF MergedWithin(B(id), O(id), T(id)) THEN within = {}
        ELSE ~WholeConflict(B(id), O(id), T(id))
    BY <2>2
  <2> QED
    BY <2>3 DEF within, WholeConflict
<1>3. ASSUME NEW id \in keys, MergedWithin(B(id), O(id), T(id))
      PROVE  /\ IsObject(kind, item[id]) /\ item[id].id = id
             /\ ObjectFacts(item[id])
                    = ThreeWay(ObjectFacts(B(id)), ObjectFacts(O(id)), ObjectFacts(T(id)))
             /\ B(id) \in all /\ O(id) \in all /\ T(id) \in all
  <2>1. B(id) # Absent /\ O(id) # Absent /\ T(id) # Absent
    BY <1>3 DEF MergedWithin
  <2>2. /\ B(id) \in ToSet(b) /\ B(id).id = id
        /\ O(id) \in ToSet(o) /\ T(id) \in ToSet(t)
    BY <2>1, IndexedFacts
  <2>3. IsObject(kind, B(id)) /\ IsObject(kind, O(id)) /\ IsObject(kind, T(id))
    BY <2>2
  <2>4. ProposalConflicts(B(id), O(id), T(id)) = {}
    BY <1>2, <1>3
  <2> DEFINE x == B(id)
             y == O(id)
             z == T(id)
  <2>5. item[id] = MergeProposal(x, y, z)
    BY <1>3
  <2> HIDE DEF x, y, z
  <2>6. /\ IsObject(kind, MergeProposal(x, y, z)) /\ MergeProposal(x, y, z).id = x.id
        /\ ObjectFacts(MergeProposal(x, y, z))
               = ThreeWay(ObjectFacts(x), ObjectFacts(y), ObjectFacts(z))
    BY <2>3, <2>4, ProposalKeepsBothEdits DEF x, y, z
  <2>7. x \in all /\ y \in all /\ z \in all
    BY <2>2 DEF x, y, z
  <2> QED
    BY <2>2, <2>5, <2>6, <2>7 DEF x, y, z
<1>4. DOMAIN item = keys
  OBVIOUS
<1>5. \A id \in keys : item[id] \in all
  OBVIOUS
<1>6. ASSUME NEW id \in keys, ~MergedWithin(B(id), O(id), T(id))
      PROVE  item[id] = Settled(B(id), O(id), T(id))
  BY <1>6
<1>7. \A x \in all : says[x] = ObjectFacts(x)
  OBVIOUS
<1>8. ToSet(b) \subseteq all /\ ToSet(o) \subseteq all /\ ToSet(t) \subseteq all
  OBVIOUS
<1> HIDE DEF item, says
<1>9. ASSUME NEW id \in keys
      PROVE  MergesAt(b, o, t, item, says, id)
  <2> HIDE DEF all, keys
  <2>1. CASE MergedWithin(B(id), O(id), T(id))
    <3>1. "id" \in DOMAIN item[id]
      BY <1>3, <2>1 DEF IsObject
    <3>2. says[item[id]] = ThreeWay(says[B(id)], says[O(id)], says[T(id)])
      BY <1>3, <1>5, <1>7, <2>1
    <3> QED
      BY <1>3, <2>1, <3>1, <3>2 DEF MergesAt
  <2>2. CASE ~MergedWithin(B(id), O(id), T(id))
    BY <1>2, <1>6, <2>2 DEF MergesAt
  <2> QED
    BY <2>1, <2>2
<1>10. /\ Indexed(m)
       /\ \A x \in ToSet(m) :
             \/ x \in ToSet(b) \cup ToSet(o) \cup ToSet(t)
             \/ \E id \in keys : MergedWithin(B(id), O(id), T(id)) /\ x = item[id]
       /\ Told("proposals", m, says)
              = ThreeWay(Told("proposals", b, says), Told("proposals", o, says),
                         Told("proposals", t, says))
  BY <1>4, <1>9, IndexedKeepsBothEdits
<1> HIDE DEF m
<1>11. \A x \in ToSet(m) : IsObject(kind, x)
  BY <1>3, <1>10
<1>12. ToSet(m) \subseteq all
  BY <1>5, <1>10
<1> HIDE DEF all
<1>13. ASSUME NEW l, ToSet(l) \subseteq all
       PROVE  ItemsFacts("proposals", l, ObjectFacts) = Told("proposals", l, says)
  <2>1. \A y : y \in ItemsFacts("proposals", l, ObjectFacts) <=>
                   \E x \in ToSet(l) : \E f \in ObjectFacts(x) : y = Fact("proposals", x.id, f)
    BY DEF ItemsFacts
  <2>2. \A y : y \in Told("proposals", l, says) <=>
                   \E x \in ToSet(l) : \E f \in says[x] : y = Fact("proposals", x.id, f)
    BY DEF Told
  <2>3. \A x \in ToSet(l) : says[x] = ObjectFacts(x)
    BY <1>7, <1>13
  <2> QED
    BY <2>1, <2>2, <2>3
<1> QED
  BY <1>1, <1>8, <1>10, <1>11, <1>12, <1>13

\* A term, with its aliases.
LEMMA TermKeepsBothEdits ==
    ASSUME AbsentIsNoObject, NEW kinds, NEW b, NEW o, NEW t,
           IsTerm(kinds, b), IsTerm(kinds, o), IsTerm(kinds, t),
           TermConflicts(b, o, t) = {}
    PROVE  LET m == MergeTerm(b, o, t)
           IN  /\ IsTerm(kinds, m) /\ m.id = b.id
               /\ TermFacts(m) = ThreeWay(TermFacts(b), TermFacts(o), TermFacts(t))
<1> DEFINE n == MergeProposal(b, o, t)
           m == MergeTerm(b, o, t)
           aliases == MergeIndexedList(b.aliases, o.aliases, t.aliases, MergeObject)
           within == IndexedListConflicts(b.aliases, o.aliases, t.aliases, ObjectConflicts)
           A(x) == ItemsFacts("aliases", x.aliases, ObjectFacts)
           P == {"object", "field", "list", "metadata", "evidence"}
<1>1. ProposalConflicts(b, o, t) = {} /\ within = {}
  <2>1. ProposalConflicts(b, o, t) = {} /\ Beneath(<<"aliases">>, within) = {}
    BY DEF TermConflicts
  <2> HIDE DEF within
  <2> QED
    BY <2>1 DEF Beneath
<1>2. /\ IsObject(kinds.terms, n) /\ n.id = b.id /\ DOMAIN n = DOMAIN b
      /\ n.aliases = b.aliases
      /\ ObjectFacts(n) = ThreeWay(ObjectFacts(b), ObjectFacts(o), ObjectFacts(t))
  BY <1>1, ProposalKeepsBothEdits DEF IsTerm
<1>3. /\ Indexed(aliases)
      /\ \A a \in ToSet(aliases) : IsPlain(kinds.aliases, a)
      /\ ItemsFacts("aliases", aliases, ObjectFacts) = ThreeWay(A(b), A(o), A(t))
  <2>1. /\ Indexed(b.aliases) /\ Indexed(o.aliases) /\ Indexed(t.aliases)
        /\ \A x \in ToSet(b.aliases) \cup ToSet(o.aliases) \cup ToSet(t.aliases) :
              IsPlain(kinds.aliases, x)
    BY DEF IsTerm
  <2> QED
    BY <1>1, <2>1, PlainListKeepsBothEdits
<1>4. m = [n EXCEPT !.aliases = aliases]
  BY <1>2 DEF MergeTerm
<1>5. "aliases" \in DOMAIN n /\ {"id", "fields", "lists", "metadata", "evidence"} \subseteq DOMAIN n
  BY <1>2 DEF IsTerm, IsObject
<1>14. IsFunction(m)
  BY <1>4, ChangedIsFunction
<1> HIDE DEF n, m, aliases
<1>6. /\ DOMAIN m = DOMAIN n /\ m.aliases = aliases
      /\ m.id = n.id /\ m.fields = n.fields /\ m.lists = n.lists
      /\ m.metadata = n.metadata /\ m.evidence = n.evidence
  BY <1>4, <1>5
<1>7. IsTerm(kinds, m)
  BY <1>2, <1>3, <1>5, <1>6, <1>14 DEF IsTerm, IsObject
<1>8. ObjectFacts(m) = ObjectFacts(n)
  BY <1>6 DEF ObjectFacts
<1>9. \A x : Within(P, ObjectFacts(x)) /\ Outside(P, A(x))
  <2>1. ASSUME NEW x
        PROVE  Within(P, ObjectFacts(x))
    BY PartsApart DEF ObjectFacts, TheObject, Within
  <2>2. ASSUME NEW x, NEW f \in A(x)
        PROVE  f[1] = "aliases"
    BY DEF ItemsFacts, Fact
  <2> HIDE DEF A
  <2> QED
    BY <2>1, <2>2 DEF Outside
<1>10. \A x : TermFacts(x) = ObjectFacts(x) \cup A(x)
  BY DEF TermFacts
<1>11. A(m) = ThreeWay(A(b), A(o), A(t))
  BY <1>3, <1>6
<1> HIDE DEF A, P
<1>12. ThreeWay(ObjectFacts(b) \cup A(b), ObjectFacts(o) \cup A(o), ObjectFacts(t) \cup A(t))
           = ThreeWay(ObjectFacts(b), ObjectFacts(o), ObjectFacts(t))
             \cup ThreeWay(A(b), A(o), A(t))
  BY <1>9, ApartThreeWay
<1>13. TermFacts(m) = ThreeWay(TermFacts(b), TermFacts(o), TermFacts(t))
  BY <1>2, <1>8, <1>10, <1>11, <1>12
<1> QED
  BY <1>2, <1>6, <1>7, <1>13 DEF m

\* Lists of terms.
LEMMA TermsKeepBothEdits ==
    ASSUME AbsentIsNoObject, NEW kinds, NEW b, NEW o, NEW t,
           Indexed(b), Indexed(o), Indexed(t),
           \A x \in ToSet(b) \cup ToSet(o) \cup ToSet(t) : IsTerm(kinds, x),
           IndexedListConflicts(b, o, t, TermConflicts) = {}
    PROVE  LET m == MergeIndexedList(b, o, t, MergeTerm)
           IN  /\ Indexed(m)
               /\ \A x \in ToSet(m) : IsTerm(kinds, x)
               /\ ItemsFacts("terms", m, TermFacts)
                      = ThreeWay(ItemsFacts("terms", b, TermFacts),
                                 ItemsFacts("terms", o, TermFacts),
                                 ItemsFacts("terms", t, TermFacts))
<1> DEFINE keys == Keys(b, o, t)
           B(id) == ItemAt(b, id)
           O(id) == ItemAt(o, id)
           T(id) == ItemAt(t, id)
           item == [id \in keys |-> IF MergedWithin(B(id), O(id), T(id))
                                    THEN MergeTerm(B(id), O(id), T(id))
                                    ELSE Settled(B(id), O(id), T(id))]
           m == Listed(OrderedKeys(b, o, t), item)
           all == ToSet(b) \cup ToSet(o) \cup ToSet(t) \cup {item[id] : id \in keys}
           says == [x \in all |-> TermFacts(x)]
<1>1. MergeIndexedList(b, o, t, MergeTerm) = m
  <2>1. ToSet(OrderedKeys(b, o, t)) = keys
    BY OrderedKeysFacts DEF Indexed
  <2> QED
    BY <2>1 DEF MergeIndexedList
<1>2. ASSUME NEW id \in keys
      PROVE  IF MergedWithin(B(id), O(id), T(id)) THEN TermConflicts(B(id), O(id), T(id)) = {}
             ELSE ~Clash(B(id), O(id), T(id))
  <2> DEFINE within == TermConflicts(B(id), O(id), T(id))
             found == IF MergedWithin(B(id), O(id), T(id)) THEN within
                      ELSE IF WholeConflict(B(id), O(id), T(id)) THEN {<<>>} ELSE {}
  <2>1. Beneath(<<id>>, found) = {}
    BY DEF IndexedListConflicts, Keys
  <2> HIDE DEF within
  <2>2. found = {}
    <3> HIDE DEF found
    <3> QED
      BY <2>1 DEF Beneath
  <2>3. IF MergedWithin(B(id), O(id), T(id)) THEN within = {}
        ELSE ~WholeConflict(B(id), O(id), T(id))
    BY <2>2
  <2> QED
    BY <2>3 DEF within, WholeConflict
<1>3. ASSUME NEW id \in keys, MergedWithin(B(id), O(id), T(id))
      PROVE  /\ IsTerm(kinds, item[id]) /\ item[id].id = id
             /\ TermFacts(item[id]) = ThreeWay(TermFacts(B(id)), TermFacts(O(id)), TermFacts(T(id)))
             /\ B(id) \in all /\ O(id) \in all /\ T(id) \in all
  <2>1. B(id) # Absent /\ O(id) # Absent /\ T(id) # Absent
    BY <1>3 DEF MergedWithin
  <2>2. /\ B(id) \in ToSet(b) /\ B(id).id = id
        /\ O(id) \in ToSet(o) /\ T(id) \in ToSet(t)
    BY <2>1, IndexedFacts
  <2>3. IsTerm(kinds, B(id)) /\ IsTerm(kinds, O(id)) /\ IsTerm(kinds, T(id))
    BY <2>2
  <2>4. TermConflicts(B(id), O(id), T(id)) = {}
    BY <1>2, <1>3
  <2> DEFINE x == B(id)
             y == O(id)
             z == T(id)
  <2>5. item[id] = MergeTerm(x, y, z)
    BY <1>3
  <2> HIDE DEF x, y, z
  <2>6. /\ IsTerm(kinds, MergeTerm(x, y, z)) /\ MergeTerm(x, y, z).id = x.id
        /\ TermFacts(MergeTerm(x, y, z)) = ThreeWay(TermFacts(x), TermFacts(y), TermFacts(z))
    BY <2>3, <2>4, TermKeepsBothEdits DEF x, y, z
  <2>7. x \in all /\ y \in all /\ z \in all
    BY <2>2 DEF x, y, z
  <2> QED
    BY <2>2, <2>5, <2>6, <2>7 DEF x, y, z
<1>4. DOMAIN item = keys
  OBVIOUS
<1>5. \A id \in keys : item[id] \in all
  OBVIOUS
<1>6. ASSUME NEW id \in keys, ~MergedWithin(B(id), O(id), T(id))
      PROVE  item[id] = Settled(B(id), O(id), T(id))
  BY <1>6
<1>7. \A x \in all : says[x] = TermFacts(x)
  OBVIOUS
<1>8. ToSet(b) \subseteq all /\ ToSet(o) \subseteq all /\ ToSet(t) \subseteq all
  OBVIOUS
<1> HIDE DEF item, says
<1>9. ASSUME NEW id \in keys
      PROVE  MergesAt(b, o, t, item, says, id)
  <2> HIDE DEF all, keys
  <2>1. CASE MergedWithin(B(id), O(id), T(id))
    <3>1. "id" \in DOMAIN item[id]
      BY <1>3, <2>1 DEF IsTerm, IsObject
    <3>2. says[item[id]] = ThreeWay(says[B(id)], says[O(id)], says[T(id)])
      BY <1>3, <1>5, <1>7, <2>1
    <3> QED
      BY <1>3, <2>1, <3>1, <3>2 DEF MergesAt
  <2>2. CASE ~MergedWithin(B(id), O(id), T(id))
    BY <1>2, <1>6, <2>2 DEF MergesAt
  <2> QED
    BY <2>1, <2>2
<1>10. /\ Indexed(m)
       /\ \A x \in ToSet(m) :
             \/ x \in ToSet(b) \cup ToSet(o) \cup ToSet(t)
             \/ \E id \in keys : MergedWithin(B(id), O(id), T(id)) /\ x = item[id]
       /\ Told("terms", m, says) = ThreeWay(Told("terms", b, says), Told("terms", o, says),
                                           Told("terms", t, says))
  BY <1>4, <1>9, IndexedKeepsBothEdits
<1> HIDE DEF m
<1>11. \A x \in ToSet(m) : IsTerm(kinds, x)
  BY <1>3, <1>10
<1>12. ToSet(m) \subseteq all
  BY <1>5, <1>10
<1> HIDE DEF all
<1>13. ASSUME NEW l, ToSet(l) \subseteq all
       PROVE  ItemsFacts("terms", l, TermFacts) = Told("terms", l, says)
  <2>1. \A y : y \in ItemsFacts("terms", l, TermFacts) <=>
                   \E x \in ToSet(l) : \E f \in TermFacts(x) : y = Fact("terms", x.id, f)
    BY DEF ItemsFacts
  <2>2. \A y : y \in Told("terms", l, says) <=>
                   \E x \in ToSet(l) : \E f \in says[x] : y = Fact("terms", x.id, f)
    BY DEF Told
  <2>3. \A x \in ToSet(l) : says[x] = TermFacts(x)
    BY <1>7, <1>13
  <2> QED
    BY <2>1, <2>2, <2>3
<1> QED
  BY <1>1, <1>8, <1>10, <1>11, <1>12, <1>13

-----------------------------------------------------------------------------
(* Edits leave objects what they are.                                      *)

\* Naming an element that is there, or is not, leaves a list.
LEMMA ToggledIsList ==
    ASSUME NEW list, IsList(list), NEW name
    PROVE  IsList(Toggled(list, name))
<1>1. CASE Contains(list, name)
  <2>1. Picked(list, PlacesOf(list, ToSet(list) \ {name})) \in Seq(ToSet(list))
    BY PlacesFacts DEF IsList
  <2> QED
    BY <1>1, <2>1, ListOfAny DEF Toggled
<1>2. CASE ~Contains(list, name)
  <2> DEFINE S == ToSet(list) \cup {name}
  <2>1. list \in Seq(S) /\ name \in S
    BY SeqMonotonic DEF IsList
  <2> HIDE DEF S
  <2>2. Append(list, name) \in Seq(S)
    BY <2>1, AppendProperties
  <2> QED
    BY <1>2, <2>2, ListOfAny DEF Toggled
<1> QED
  BY <1>1, <1>2

\* What an edit of a field or of a list leaves of an object.
LEMMA ObjectEditKeeps ==
    ASSUME NEW kind, NEW x, IsObject(kind, x), NEW e \in ObjectEdits(x)
    PROVE  /\ IsObject(kind, e.to) /\ DOMAIN e.to = DOMAIN x
           /\ e.to.id = x.id /\ e.to.evidence = x.evidence
           /\ "aliases" \in DOMAIN x => e.to.aliases = x.aliases
<1>0. {"id", "fields", "lists", "metadata", "evidence"} \subseteq DOMAIN x
  BY DEF IsObject
<1>1. CASE \E f \in DOMAIN x.fields : \E v : e = Edit(<<f>>, [x EXCEPT !.fields[f] = v])
  <2>0. PICK f \in DOMAIN x.fields : \E v : e = Edit(<<f>>, [x EXCEPT !.fields[f] = v])
    BY <1>1
  <2>1. PICK v : e = Edit(<<f>>, [x EXCEPT !.fields[f] = v])
    BY <2>0
  <2> DEFINE y == [x EXCEPT !.fields[f] = v]
  <2>2. e.to = y
    BY <2>1 DEF Edit
  <2>3. /\ DOMAIN y = DOMAIN x
        /\ DOMAIN y.fields = DOMAIN x.fields
        /\ y.lists = x.lists /\ y.metadata = x.metadata /\ y.evidence = x.evidence
        /\ y.id = x.id /\ ("aliases" \in DOMAIN x => y.aliases = x.aliases)
    BY <1>0
  <2>5. IsFunction(y) /\ IsFunction(y.fields)
    BY <1>0 DEF IsFunction
  <2> HIDE DEF y
  <2>4. IsObject(kind, y)
    BY <2>3, <2>5 DEF IsObject
  <2> QED
    BY <2>2, <2>3, <2>4
<1>2. CASE \E l \in DOMAIN x.lists : \E n : \E path :
              e = Edit(path, [x EXCEPT !.lists[l] = Toggled(@, n)])
  <2>1. PICK l \in DOMAIN x.lists : \E n : \E path :
              e = Edit(path, [x EXCEPT !.lists[l] = Toggled(@, n)])
    BY <1>2
  <2>2. PICK n : \E path : e = Edit(path, [x EXCEPT !.lists[l] = Toggled(@, n)])
    BY <2>1
  <2> DEFINE new == Toggled(x.lists[l], n)
             y == [x EXCEPT !.lists[l] = new]
  <2>3. e.to = y
    BY <2>2 DEF Edit
  <2>4. IsList(new)
    BY ToggledIsList DEF IsObject
  <2> HIDE DEF new
  <2>5. /\ DOMAIN y = DOMAIN x
        /\ y.fields = x.fields /\ y.metadata = x.metadata /\ y.evidence = x.evidence
        /\ y.id = x.id /\ ("aliases" \in DOMAIN x => y.aliases = x.aliases)
        /\ DOMAIN y.lists = DOMAIN x.lists
        /\ \A k \in DOMAIN x.lists : y.lists[k] = IF k = l THEN new ELSE x.lists[k]
    BY <1>0
  <2>7. IsFunction(y)
    BY DEF IsFunction
  <2> HIDE DEF y
  <2>6. IsObject(kind, y)
    BY <2>4, <2>5, <2>7 DEF IsObject
  <2> QED
    BY <2>3, <2>5, <2>6
<1>3. \/ e \in UNION {{Edit(<<f>>, [x EXCEPT !.fields[f] = v]) :
                          v \in Values[f] \ {x.fields[f]}} : f \in DOMAIN x.fields}
      \/ e \in UNION {{Edit(<<l, n>>, [x EXCEPT !.lists[l] = Toggled(@, n)]) :
                          n \in Elements[l]} : l \in DOMAIN x.lists}
  BY DEF ObjectEdits
<1> QED
  BY <1>1, <1>2, <1>3

\* What an edit of a key of the metadata leaves of an object.
LEMMA MetadataEditKeeps ==
    ASSUME \A k \in DOMAIN Entries : Absent \notin Entries[k],
           NEW kind, NEW x, IsObject(kind, x), NEW e \in MetadataEdits(x)
    PROVE  /\ IsObject(kind, e.to) /\ DOMAIN e.to = DOMAIN x
           /\ e.to.id = x.id /\ e.to.evidence = x.evidence
           /\ "aliases" \in DOMAIN x => e.to.aliases = x.aliases
<1>0. {"id", "fields", "lists", "metadata", "evidence"} \subseteq DOMAIN x
      /\ IsMapping(x.metadata)
  BY DEF IsObject
<1>1. PICK new : IsMapping(new) /\ e.to = [x EXCEPT !.metadata = new]
  <2>1. CASE \E k \in DOMAIN Entries : \E v \in Entries[k] :
                e = Edit(<<"metadata", k>>, [x EXCEPT !.metadata = WithEntry(@, k, v)])
    <3>0. PICK k \in DOMAIN Entries : \E v \in Entries[k] :
                e = Edit(<<"metadata", k>>, [x EXCEPT !.metadata = WithEntry(@, k, v)])
      BY <2>1
    <3>1. PICK v \in Entries[k] :
                e = Edit(<<"metadata", k>>, [x EXCEPT !.metadata = WithEntry(@, k, v)])
      BY <3>0
    <3>2. v # Absent
      OBVIOUS
    <3>3. IsMapping(WithEntry(x.metadata, k, v))
      BY <1>0, <3>2 DEF WithEntry, IsMapping, IsFunction
    <3>4. e.to = [x EXCEPT !.metadata = WithEntry(x.metadata, k, v)]
      BY <3>1 DEF Edit
    <3> QED
      BY <3>3, <3>4
  <2>2. CASE \E k \in DOMAIN x.metadata :
                e = Edit(<<"metadata", k>>, [x EXCEPT !.metadata = WithoutEntry(@, k)])
    <3>1. PICK k \in DOMAIN x.metadata :
                e = Edit(<<"metadata", k>>, [x EXCEPT !.metadata = WithoutEntry(@, k)])
      BY <2>2
    <3>2. IsMapping(WithoutEntry(x.metadata, k))
      BY <1>0 DEF WithoutEntry, IsMapping, IsFunction
    <3>3. e.to = [x EXCEPT !.metadata = WithoutEntry(x.metadata, k)]
      BY <3>1 DEF Edit
    <3> QED
      BY <3>2, <3>3
  <2> QED
    BY <2>1, <2>2 DEF MetadataEdits
<1> DEFINE y == [x EXCEPT !.metadata = new]
<1>2. /\ DOMAIN y = DOMAIN x /\ y.metadata = new
      /\ y.fields = x.fields /\ y.lists = x.lists /\ y.evidence = x.evidence
      /\ y.id = x.id /\ ("aliases" \in DOMAIN x => y.aliases = x.aliases)
  BY <1>0
<1>3. e.to = y
  BY <1>1
<1>5. IsFunction(y)
  BY ChangedIsFunction
<1> HIDE DEF y
<1>4. IsObject(kind, y)
  BY <1>1, <1>2, <1>5 DEF IsObject
<1> QED
  BY <1>2, <1>3, <1>4

-----------------------------------------------------------------------------
(* Edits of lists of objects.                                              *)

\* Adding an object under a new id, removing one, and replacing one under its id.
LEMMA AppendKeepsIndexed ==
    ASSUME NEW items, Indexed(items), NEW x, "id" \in DOMAIN x, x.id \notin Ids(items)
    PROVE  Indexed(Append(items, x)) /\ ToSet(Append(items, x)) = ToSet(items) \cup {x}
<1> DEFINE S == ToSet(items) \cup {x}
           n == Len(items)
           new == Append(items, x)
<1>1. items \in Seq(S) /\ x \in S
  BY SeqMonotonic DEF Indexed, IsList
<1> HIDE DEF S
<1>2. new \in Seq(S) /\ ToSet(new) = ToSet(items) \cup {x}
  BY <1>1, AppendedFacts
<1>3. /\ n \in Nat /\ DOMAIN items = 1..n /\ DOMAIN new = 1..(n + 1)
      /\ new[n + 1] = x /\ \A i \in 1..n : new[i] = items[i]
  BY <1>1, LenProperties, AppendProperties
<1> HIDE DEF new, n
<1>4. \A i \in 1..n : items[i].id # x.id
  BY <1>3 DEF Ids
<1>5. IdsUnique(new)
  BY <1>3, <1>4 DEF IdsUnique, Indexed
<1>6. IsList(new)
  BY <1>2, ListOfAny
<1>7. Indexed(new)
  BY <1>2, <1>5, <1>6 DEF Indexed
<1> QED
  BY <1>2, <1>7 DEF new

LEMMA PickKeepsIndexed ==
    ASSUME NEW items, Indexed(items), NEW places \in SUBSET DOMAIN items
    PROVE  Indexed(Picked(items, places)) /\ ToSet(Picked(items, places)) \subseteq ToSet(items)
<1> DEFINE new == Picked(items, places)
<1>1. \A i, j \in DOMAIN items : items[i].id = items[j].id => i = j
  BY DEF Indexed, IdsUnique
<1>2. /\ new \in Seq(ToSet(items))
      /\ ToSet(new) = {items[i] : i \in places}
      /\ NoRepeats(new)
  <2>1. items \in Seq(ToSet(items)) /\ \A i, j \in places : items[i] = items[j] => i = j
    BY <1>1 DEF Indexed, IsList
  <2> QED
    BY <2>1, PickedFacts
<1> HIDE DEF new
<1>3. ToSet(new) \subseteq ToSet(items)
  BY <1>2 DEF ToSet
<1>4. \A x, y \in ToSet(new) : x.id = y.id => x = y
  BY <1>1, <1>2
<1>5. IdsUnique(new)
  BY <1>2, <1>4 DEF IdsUnique, NoRepeats, ToSet
<1>6. IsList(new)
  BY <1>2, ListOfAny
<1>7. Indexed(new)
  BY <1>3, <1>5, <1>6 DEF Indexed
<1> QED
  BY <1>3, <1>7 DEF new

LEMMA ReplaceKeepsIndexed ==
    ASSUME NEW items, Indexed(items), NEW i \in DOMAIN items, NEW x,
           "id" \in DOMAIN x, x.id = items[i].id
    PROVE  /\ Indexed([items EXCEPT ![i] = x])
           /\ ToSet([items EXCEPT ![i] = x]) \subseteq ToSet(items) \cup {x}
<1> DEFINE new == [items EXCEPT ![i] = x]
           S == ToSet(items) \cup {x}
<1>1. Len(items) \in Nat /\ DOMAIN items = 1..Len(items)
  BY LenProperties DEF Indexed, IsList
<1>2. DOMAIN new = DOMAIN items
      /\ \A k \in DOMAIN items : new[k] = IF k = i THEN x ELSE items[k]
  OBVIOUS
<1>3. new \in [1..Len(items) -> S]
  BY <1>1 DEF ToSet
<1> HIDE DEF new, S
<1>4. new \in Seq(S)
  BY <1>1, <1>3, SeqDef
<1>5. ToSet(new) \subseteq S
  BY <1>2 DEF ToSet, S
<1>6. IdsUnique(new)
  BY <1>2 DEF Indexed, IdsUnique
<1>7. IsList(new)
  BY <1>4, ListOfAny
<1>8. Indexed(new)
  BY <1>5, <1>6, <1>7 DEF Indexed, S
<1> QED
  BY <1>5, <1>8 DEF new, S

\* Edits of scopes and aliases, and of lists of them.
LEMMA PlainEditKeeps ==
    ASSUME NEW kind, NEW x, IsPlain(kind, x), NEW e \in ObjectEdits(x)
    PROVE  IsPlain(kind, e.to) /\ e.to.id = x.id
BY ObjectEditKeeps DEF IsPlain

LEMMA PlainListEditKeeps ==
    ASSUME NEW kind, NEW items, Indexed(items), NEW additions,
           \A x \in ToSet(items) : IsPlain(kind, x),
           \A x \in additions : IsPlain(kind, x),
           NEW e \in ItemsEdits(items, additions, ObjectEdits)
    PROVE  Indexed(e.to) /\ \A x \in ToSet(e.to) : IsPlain(kind, x)
<1>1. CASE \E x \in additions : x.id \notin Ids(items) /\ e.to = Append(items, x)
  <2>1. PICK x \in additions : x.id \notin Ids(items) /\ e.to = Append(items, x)
    BY <1>1
  <2>2. "id" \in DOMAIN x
    BY DEF IsPlain, IsObject
  <2>3. Indexed(e.to) /\ ToSet(e.to) = ToSet(items) \cup {x}
    BY <2>1, <2>2, AppendKeepsIndexed
  <2> QED
    BY <2>3
<1>2. CASE \E i \in DOMAIN items : e.to = Picked(items, DOMAIN items \ {i})
  <2>1. PICK i \in DOMAIN items : e.to = Picked(items, DOMAIN items \ {i})
    BY <1>2
  <2>2. DOMAIN items \ {i} \in SUBSET DOMAIN items
    OBVIOUS
  <2>3. Indexed(e.to) /\ ToSet(e.to) \subseteq ToSet(items)
    BY <2>1, <2>2, PickKeepsIndexed
  <2> QED
    BY <2>3
<1>3. CASE \E i \in DOMAIN items : \E d \in ObjectEdits(items[i]) :
              e.to = [items EXCEPT ![i] = d.to]
  <2>0. PICK i \in DOMAIN items : \E d \in ObjectEdits(items[i]) :
              e.to = [items EXCEPT ![i] = d.to]
    BY <1>3
  <2>1. PICK d \in ObjectEdits(items[i]) : e.to = [items EXCEPT ![i] = d.to]
    BY <2>0
  <2>2. IsPlain(kind, items[i])
    BY DEF ToSet
  <2>3. IsPlain(kind, d.to) /\ d.to.id = items[i].id
    BY <2>2, PlainEditKeeps
  <2>4. "id" \in DOMAIN d.to
    BY <2>3 DEF IsPlain, IsObject
  <2> DEFINE y == d.to
  <2>5. Indexed(e.to) /\ ToSet(e.to) \subseteq ToSet(items) \cup {y}
    <3>1. "id" \in DOMAIN y /\ y.id = items[i].id /\ e.to = [items EXCEPT ![i] = y]
      BY <2>1, <2>3, <2>4
    <3> HIDE DEF y
    <3>2. /\ Indexed([items EXCEPT ![i] = y])
          /\ ToSet([items EXCEPT ![i] = y]) \subseteq ToSet(items) \cup {y}
      BY <3>1, ReplaceKeepsIndexed
    <3> QED
      BY <3>1, <3>2
  <2> QED
    BY <2>3, <2>5
<1>4. \/ \E x \in additions : x.id \notin Ids(items) /\ e = Edit(<<x.id>>, Append(items, x))
      \/ \E i \in DOMAIN items : e = Edit(<<items[i].id>>, Picked(items, DOMAIN items \ {i}))
      \/ \E i \in DOMAIN items : \E d \in ObjectEdits(items[i]) :
            e = Edit(<<items[i].id>> \o d.path, [items EXCEPT ![i] = d.to])
  BY DEF ItemsEdits
<1>5. \A path, to : Edit(path, to).to = to
  BY DEF Edit
<1>6. ASSUME NEW i \in DOMAIN items, NEW d \in ObjectEdits(items[i]),
             e = Edit(<<items[i].id>> \o d.path, [items EXCEPT ![i] = d.to])
      PROVE  e.to = [items EXCEPT ![i] = d.to]
  BY <1>6, <1>5
<1>7. CASE \E x \in additions : x.id \notin Ids(items)
                                  /\ e = Edit(<<x.id>>, Append(items, x))
  BY <1>1, <1>5, <1>7
<1>8. CASE \E i \in DOMAIN items :
              e = Edit(<<items[i].id>>, Picked(items, DOMAIN items \ {i}))
  BY <1>2, <1>5, <1>8
<1>9. CASE \E i \in DOMAIN items : \E d \in ObjectEdits(items[i]) :
              e = Edit(<<items[i].id>> \o d.path, [items EXCEPT ![i] = d.to])
  BY <1>3, <1>6, <1>9
<1> QED
  BY <1>4, <1>7, <1>8, <1>9

\* Edits of lists of evidence, and of the evidence of an object.
LEMMA EvidenceListEditKeeps ==
    ASSUME NEW items, Indexed(items), NEW additions, \A x \in additions : "id" \in DOMAIN x,
           NEW e \in ItemsEdits(items, additions, NoEdits)
    PROVE  Indexed(e.to)
<1>1. CASE \E x \in additions : x.id \notin Ids(items) /\ e.to = Append(items, x)
  BY <1>1, AppendKeepsIndexed
<1>2. CASE \E i \in DOMAIN items : e.to = Picked(items, DOMAIN items \ {i})
  <2>1. \A i \in DOMAIN items : DOMAIN items \ {i} \in SUBSET DOMAIN items
    OBVIOUS
  <2> QED
    BY <1>2, <2>1, PickKeepsIndexed
<1>3. \/ \E x \in additions : x.id \notin Ids(items) /\ e = Edit(<<x.id>>, Append(items, x))
      \/ \E i \in DOMAIN items : e = Edit(<<items[i].id>>, Picked(items, DOMAIN items \ {i}))
  BY DEF ItemsEdits, NoEdits
<1>4. \A path, to : Edit(path, to).to = to
  BY DEF Edit
<1>5. \/ \E x \in additions : x.id \notin Ids(items) /\ e.to = Append(items, x)
      \/ \E i \in DOMAIN items : e.to = Picked(items, DOMAIN items \ {i})
  BY <1>3, <1>4
<1> QED
  BY <1>1, <1>2, <1>5

LEMMA EvidenceEditKeeps ==
    ASSUME \A x \in Additions.evidence : "id" \in DOMAIN x,
           NEW kind, NEW x, IsObject(kind, x), NEW e \in EvidenceEdits(x)
    PROVE  /\ IsObject(kind, e.to) /\ DOMAIN e.to = DOMAIN x /\ e.to.id = x.id
           /\ "aliases" \in DOMAIN x => e.to.aliases = x.aliases
<1>0. {"id", "fields", "lists", "metadata", "evidence"} \subseteq DOMAIN x
      /\ Indexed(x.evidence)
  BY DEF IsObject
<1>1. PICK d \in ItemsEdits(x.evidence, Additions.evidence, NoEdits) :
          e = Edit(<<"evidence">> \o d.path, [x EXCEPT !["evidence"] = d.to])
  BY DEF EvidenceEdits, PartEdits
<1>2. Indexed(d.to)
  BY <1>0, EvidenceListEditKeeps
<1> DEFINE y == [x EXCEPT !["evidence"] = d.to]
<1>3. /\ DOMAIN y = DOMAIN x /\ y.evidence = d.to
      /\ y.fields = x.fields /\ y.lists = x.lists /\ y.metadata = x.metadata
      /\ y.id = x.id /\ ("aliases" \in DOMAIN x => y.aliases = x.aliases)
  BY <1>0
<1>4. e.to = y
  BY <1>1 DEF Edit
<1>6. IsFunction(y)
  BY ChangedIsFunction
<1> HIDE DEF y
<1>5. IsObject(kind, y)
  BY <1>2, <1>3, <1>6 DEF IsObject
<1> QED
  BY <1>3, <1>4, <1>5

\* Edits of proposals, and of lists of them.
LEMMA ProposalEditKeeps ==
    ASSUME \A x \in Additions.evidence : "id" \in DOMAIN x,
           NEW kind, NEW x, IsObject(kind, x), NEW e \in ProposalEdits(x)
    PROVE  IsObject(kind, e.to) /\ e.to.id = x.id
BY ObjectEditKeeps, EvidenceEditKeeps DEF ProposalEdits

LEMMA ProposalListEditKeeps ==
    ASSUME \A x \in Additions.evidence : "id" \in DOMAIN x,
           NEW kind, NEW items, Indexed(items), NEW additions,
           \A x \in ToSet(items) : IsObject(kind, x),
           \A x \in additions : IsObject(kind, x),
           NEW e \in ItemsEdits(items, additions, ProposalEdits)
    PROVE  Indexed(e.to) /\ \A x \in ToSet(e.to) : IsObject(kind, x)
<1>1. CASE \E x \in additions : x.id \notin Ids(items) /\ e.to = Append(items, x)
  <2>1. PICK x \in additions : x.id \notin Ids(items) /\ e.to = Append(items, x)
    BY <1>1
  <2>2. "id" \in DOMAIN x
    BY DEF IsObject
  <2>3. Indexed(e.to) /\ ToSet(e.to) = ToSet(items) \cup {x}
    BY <2>1, <2>2, AppendKeepsIndexed
  <2> QED
    BY <2>3
<1>2. CASE \E i \in DOMAIN items : e.to = Picked(items, DOMAIN items \ {i})
  <2>1. PICK i \in DOMAIN items : e.to = Picked(items, DOMAIN items \ {i})
    BY <1>2
  <2>2. DOMAIN items \ {i} \in SUBSET DOMAIN items
    OBVIOUS
  <2>3. Indexed(e.to) /\ ToSet(e.to) \subseteq ToSet(items)
    BY <2>1, <2>2, PickKeepsIndexed
  <2> QED
    BY <2>3
<1>3. CASE \E i \in DOMAIN items : \E d \in ProposalEdits(items[i]) :
              e.to = [items EXCEPT ![i] = d.to]
  <2>0. PICK i \in DOMAIN items : \E d \in ProposalEdits(items[i]) :
              e.to = [items EXCEPT ![i] = d.to]
    BY <1>3
  <2>1. PICK d \in ProposalEdits(items[i]) : e.to = [items EXCEPT ![i] = d.to]
    BY <2>0
  <2>2. IsObject(kind, items[i])
    BY DEF ToSet
  <2>3. IsObject(kind, d.to) /\ d.to.id = items[i].id
    BY <2>2, ProposalEditKeeps
  <2>4. "id" \in DOMAIN d.to
    BY <2>3 DEF IsObject
  <2> DEFINE y == d.to
  <2>5. Indexed(e.to) /\ ToSet(e.to) \subseteq ToSet(items) \cup {y}
    <3>1. "id" \in DOMAIN y /\ y.id = items[i].id /\ e.to = [items EXCEPT ![i] = y]
      BY <2>1, <2>3, <2>4
    <3> HIDE DEF y
    <3>2. /\ Indexed([items EXCEPT ![i] = y])
          /\ ToSet([items EXCEPT ![i] = y]) \subseteq ToSet(items) \cup {y}
      BY <3>1, ReplaceKeepsIndexed
    <3> QED
      BY <3>1, <3>2
  <2> QED
    BY <2>3, <2>5
<1>4. \/ \E x \in additions : x.id \notin Ids(items) /\ e = Edit(<<x.id>>, Append(items, x))
      \/ \E i \in DOMAIN items : e = Edit(<<items[i].id>>, Picked(items, DOMAIN items \ {i}))
      \/ \E i \in DOMAIN items : \E d \in ProposalEdits(items[i]) :
            e = Edit(<<items[i].id>> \o d.path, [items EXCEPT ![i] = d.to])
  BY DEF ItemsEdits
<1>5. \A path, to : Edit(path, to).to = to
  BY DEF Edit
<1>6. ASSUME NEW i \in DOMAIN items, NEW d \in ProposalEdits(items[i]),
             e = Edit(<<items[i].id>> \o d.path, [items EXCEPT ![i] = d.to])
      PROVE  e.to = [items EXCEPT ![i] = d.to]
  BY <1>6, <1>5
<1>7. CASE \E x \in additions : x.id \notin Ids(items)
                                  /\ e = Edit(<<x.id>>, Append(items, x))
  BY <1>1, <1>5, <1>7
<1>8. CASE \E i \in DOMAIN items :
              e = Edit(<<items[i].id>>, Picked(items, DOMAIN items \ {i}))
  BY <1>2, <1>5, <1>8
<1>9. CASE \E i \in DOMAIN items : \E d \in ProposalEdits(items[i]) :
              e = Edit(<<items[i].id>> \o d.path, [items EXCEPT ![i] = d.to])
  BY <1>3, <1>6, <1>9
<1> QED
  BY <1>4, <1>7, <1>8, <1>9

\* Edits of terms, and of lists of them.
LEMMA TermEditKeeps ==
    ASSUME NEW kinds, OfKinds(kinds), NEW x, IsTerm(kinds, x), NEW e \in TermEdits(x)
    PROVE  IsTerm(kinds, e.to) /\ e.to.id = x.id
<1>0. IsObject(kinds.terms, x) /\ "aliases" \in DOMAIN x /\ "id" \in DOMAIN x
  BY DEF IsTerm, IsObject
<1>1. CASE e \in ObjectEdits(x) \cup MetadataEdits(x) \cup EvidenceEdits(x)
  <2>1. /\ \A k \in DOMAIN Entries : Absent \notin Entries[k]
        /\ \A y \in Additions.evidence : "id" \in DOMAIN y
    BY DEF OfKinds
  <2>2. IsObject(kinds.terms, e.to) /\ DOMAIN e.to = DOMAIN x /\ e.to.id = x.id
        /\ e.to.aliases = x.aliases
    BY <1>0, <1>1, <2>1, ObjectEditKeeps, MetadataEditKeeps, EvidenceEditKeeps
  <2> QED
    BY <1>0, <2>2 DEF IsTerm
<1>2. CASE e \in PartEdits(x, "aliases", ItemsEdits(x.aliases, Additions.aliases, ObjectEdits))
  <2>1. PICK d \in ItemsEdits(x.aliases, Additions.aliases, ObjectEdits) :
            e = Edit(<<"aliases">> \o d.path, [x EXCEPT !["aliases"] = d.to])
    BY <1>2 DEF PartEdits
  <2>2. Indexed(d.to) /\ \A a \in ToSet(d.to) : IsPlain(kinds.aliases, a)
    BY PlainListEditKeeps DEF IsTerm, OfKinds
  <2> DEFINE y == [x EXCEPT !["aliases"] = d.to]
  <2>3. /\ DOMAIN y = DOMAIN x /\ y.aliases = d.to /\ y.id = x.id
        /\ ("fields" \in DOMAIN x => y.fields = x.fields)
        /\ ("lists" \in DOMAIN x => y.lists = x.lists)
        /\ ("metadata" \in DOMAIN x => y.metadata = x.metadata)
        /\ ("evidence" \in DOMAIN x => y.evidence = x.evidence)
    BY <1>0
  <2>4. e.to = y
    BY <2>1 DEF Edit
  <2>6. IsFunction(y)
    BY ChangedIsFunction
  <2> HIDE DEF y
  <2>5. IsTerm(kinds, y)
    BY <2>2, <2>3, <2>6 DEF IsTerm, IsObject
  <2> QED
    BY <2>3, <2>4, <2>5
<1> QED
  BY <1>1, <1>2 DEF TermEdits

LEMMA TermListEditKeeps ==
    ASSUME NEW kinds, OfKinds(kinds), NEW items, Indexed(items), NEW additions,
           \A x \in ToSet(items) : IsTerm(kinds, x),
           \A x \in additions : IsTerm(kinds, x),
           NEW e \in ItemsEdits(items, additions, TermEdits)
    PROVE  Indexed(e.to) /\ \A x \in ToSet(e.to) : IsTerm(kinds, x)
<1>1. CASE \E x \in additions : x.id \notin Ids(items) /\ e.to = Append(items, x)
  <2>1. PICK x \in additions : x.id \notin Ids(items) /\ e.to = Append(items, x)
    BY <1>1
  <2>2. "id" \in DOMAIN x
    BY DEF IsTerm, IsObject
  <2>3. Indexed(e.to) /\ ToSet(e.to) = ToSet(items) \cup {x}
    BY <2>1, <2>2, AppendKeepsIndexed
  <2> QED
    BY <2>3
<1>2. CASE \E i \in DOMAIN items : e.to = Picked(items, DOMAIN items \ {i})
  <2>1. PICK i \in DOMAIN items : e.to = Picked(items, DOMAIN items \ {i})
    BY <1>2
  <2>2. DOMAIN items \ {i} \in SUBSET DOMAIN items
    OBVIOUS
  <2>3. Indexed(e.to) /\ ToSet(e.to) \subseteq ToSet(items)
    BY <2>1, <2>2, PickKeepsIndexed
  <2> QED
    BY <2>3
<1>3. CASE \E i \in DOMAIN items : \E d \in TermEdits(items[i]) :
              e.to = [items EXCEPT ![i] = d.to]
  <2>0. PICK i \in DOMAIN items : \E d \in TermEdits(items[i]) :
              e.to = [items EXCEPT ![i] = d.to]
    BY <1>3
  <2>1. PICK d \in TermEdits(items[i]) : e.to = [items EXCEPT ![i] = d.to]
    BY <2>0
  <2>2. IsTerm(kinds, items[i])
    BY DEF ToSet
  <2>3. IsTerm(kinds, d.to) /\ d.to.id = items[i].id
    BY <2>2, TermEditKeeps
  <2>4. "id" \in DOMAIN d.to
    BY <2>3 DEF IsTerm, IsObject
  <2> DEFINE y == d.to
  <2>5. Indexed(e.to) /\ ToSet(e.to) \subseteq ToSet(items) \cup {y}
    <3>1. "id" \in DOMAIN y /\ y.id = items[i].id /\ e.to = [items EXCEPT ![i] = y]
      BY <2>1, <2>3, <2>4
    <3> HIDE DEF y
    <3>2. /\ Indexed([items EXCEPT ![i] = y])
          /\ ToSet([items EXCEPT ![i] = y]) \subseteq ToSet(items) \cup {y}
      BY <3>1, ReplaceKeepsIndexed
    <3> QED
      BY <3>1, <3>2
  <2> QED
    BY <2>3, <2>5
<1>4. \/ \E x \in additions : x.id \notin Ids(items) /\ e = Edit(<<x.id>>, Append(items, x))
      \/ \E i \in DOMAIN items : e = Edit(<<items[i].id>>, Picked(items, DOMAIN items \ {i}))
      \/ \E i \in DOMAIN items : \E d \in TermEdits(items[i]) :
            e = Edit(<<items[i].id>> \o d.path, [items EXCEPT ![i] = d.to])
  BY DEF ItemsEdits
<1>5. \A path, to : Edit(path, to).to = to
  BY DEF Edit
<1>6. ASSUME NEW i \in DOMAIN items, NEW d \in TermEdits(items[i]),
             e = Edit(<<items[i].id>> \o d.path, [items EXCEPT ![i] = d.to])
      PROVE  e.to = [items EXCEPT ![i] = d.to]
  BY <1>6, <1>5
<1>7. CASE \E x \in additions : x.id \notin Ids(items)
                                  /\ e = Edit(<<x.id>>, Append(items, x))
  BY <1>1, <1>5, <1>7
<1>8. CASE \E i \in DOMAIN items :
              e = Edit(<<items[i].id>>, Picked(items, DOMAIN items \ {i}))
  BY <1>2, <1>5, <1>8
<1>9. CASE \E i \in DOMAIN items : \E d \in TermEdits(items[i]) :
              e = Edit(<<items[i].id>> \o d.path, [items EXCEPT ![i] = d.to])
  BY <1>3, <1>6, <1>9
<1> QED
  BY <1>4, <1>7, <1>8, <1>9

\* Edits of lexicons.
LEMMA LexiconEditKeeps ==
    ASSUME NEW kinds, OfKinds(kinds), NEW x, WellFormed(kinds, x), NEW e \in LexiconEdits(x)
    PROVE  WellFormed(kinds, e.to)
<1>0. {"scopes", "terms", "proposals", "metadata"} \subseteq DOMAIN x
      /\ Indexed(x.scopes) /\ Indexed(x.terms) /\ Indexed(x.proposals)
  BY DEF WellFormed, Sections
<1>1. CASE e \in PartEdits(x, "scopes", ItemsEdits(x.scopes, Additions.scopes, ObjectEdits))
  <2>1. PICK d \in ItemsEdits(x.scopes, Additions.scopes, ObjectEdits) :
            e = Edit(<<"scopes">> \o d.path, [x EXCEPT !["scopes"] = d.to])
    BY <1>1 DEF PartEdits
  <2>2. Indexed(d.to) /\ \A a \in ToSet(d.to) : IsPlain(kinds.scopes, a)
    BY <1>0, PlainListEditKeeps DEF WellFormed, OfKinds
  <2> DEFINE y == [x EXCEPT !["scopes"] = d.to]
  <2>3. /\ DOMAIN y = DOMAIN x /\ y.scopes = d.to /\ y.terms = x.terms
        /\ y.proposals = x.proposals /\ y.metadata = x.metadata
    BY <1>0
  <2>4. e.to = y
    BY <2>1 DEF Edit
  <2> HIDE DEF y
  <2> QED
    BY <1>0, <2>2, <2>3, <2>4 DEF WellFormed, Sections
<1>2. CASE e \in PartEdits(x, "terms", ItemsEdits(x.terms, Additions.terms, TermEdits))
  <2>1. PICK d \in ItemsEdits(x.terms, Additions.terms, TermEdits) :
            e = Edit(<<"terms">> \o d.path, [x EXCEPT !["terms"] = d.to])
    BY <1>2 DEF PartEdits
  <2>2. Indexed(d.to) /\ \A a \in ToSet(d.to) : IsTerm(kinds, a)
    BY <1>0, TermListEditKeeps DEF WellFormed, OfKinds
  <2> DEFINE y == [x EXCEPT !["terms"] = d.to]
  <2>3. /\ DOMAIN y = DOMAIN x /\ y.terms = d.to /\ y.scopes = x.scopes
        /\ y.proposals = x.proposals /\ y.metadata = x.metadata
    BY <1>0
  <2>4. e.to = y
    BY <2>1 DEF Edit
  <2> HIDE DEF y
  <2> QED
    BY <1>0, <2>2, <2>3, <2>4 DEF WellFormed, Sections
<1>3. CASE e \in PartEdits(x, "proposals",
                           ItemsEdits(x.proposals, Additions.proposals, ProposalEdits))
  <2>1. PICK d \in ItemsEdits(x.proposals, Additions.proposals, ProposalEdits) :
            e = Edit(<<"proposals">> \o d.path, [x EXCEPT !["proposals"] = d.to])
    BY <1>3 DEF PartEdits
  <2>2. Indexed(d.to) /\ \A a \in ToSet(d.to) : IsObject(kinds.proposals, a)
    BY <1>0, ProposalListEditKeeps DEF WellFormed, OfKinds
  <2> DEFINE y == [x EXCEPT !["proposals"] = d.to]
  <2>3. /\ DOMAIN y = DOMAIN x /\ y.proposals = d.to /\ y.scopes = x.scopes
        /\ y.terms = x.terms /\ y.metadata = x.metadata
    BY <1>0
  <2>4. e.to = y
    BY <2>1 DEF Edit
  <2> HIDE DEF y
  <2> QED
    BY <1>0, <2>2, <2>3, <2>4 DEF WellFormed, Sections
<1> QED
  BY <1>1, <1>2, <1>3 DEF LexiconEdits

-----------------------------------------------------------------------------
(* The merge of whole lexicons.                                            *)

ScopesFacts(x) == ItemsFacts("scopes", x.scopes, ObjectFacts)
TermsFacts(x) == ItemsFacts("terms", x.terms, TermFacts)
ProposalsFacts(x) == ItemsFacts("proposals", x.proposals, ObjectFacts)

\* Each part of a lexicon has facts of its own.
LEMMA SectionsApart ==
    ASSUME NEW x
    PROVE  /\ \A f \in MetadataFacts(x.metadata) : f[1] = "metadata"
           /\ \A f \in ScopesFacts(x) : f[1] = "scopes"
           /\ \A f \in TermsFacts(x) : f[1] = "terms"
           /\ \A f \in ProposalsFacts(x) : f[1] = "proposals"
<1>1. \A k, v : /\ Fact("metadata", k, v)[1] = "metadata"
                /\ Fact("scopes", k, v)[1] = "scopes"
                /\ Fact("terms", k, v)[1] = "terms"
                /\ Fact("proposals", k, v)[1] = "proposals"
  BY DEF Fact
<1>2. \A f \in MetadataFacts(x.metadata) : f[1] = "metadata"
  BY <1>1 DEF MetadataFacts
<1>3. \A f \in ScopesFacts(x) : f[1] = "scopes"
  BY <1>1 DEF ScopesFacts, ItemsFacts
<1>4. \A f \in TermsFacts(x) : f[1] = "terms"
  BY <1>1 DEF TermsFacts, ItemsFacts
<1>5. \A f \in ProposalsFacts(x) : f[1] = "proposals"
  BY <1>1 DEF ProposalsFacts, ItemsFacts
<1> QED
  BY <1>2, <1>3, <1>4, <1>5

\* A lexicon whose parts are three-way merges is one.
LEMMA SectionsKeepBothEdits ==
    ASSUME NEW b, NEW o, NEW t, NEW m,
           MetadataFacts(m.metadata)
               = ThreeWay(MetadataFacts(b.metadata), MetadataFacts(o.metadata),
                          MetadataFacts(t.metadata)),
           ScopesFacts(m) = ThreeWay(ScopesFacts(b), ScopesFacts(o), ScopesFacts(t)),
           TermsFacts(m) = ThreeWay(TermsFacts(b), TermsFacts(o), TermsFacts(t)),
           ProposalsFacts(m)
               = ThreeWay(ProposalsFacts(b), ProposalsFacts(o), ProposalsFacts(t))
    PROVE  Facts(m) = ThreeWay(Facts(b), Facts(o), Facts(t))
<1> DEFINE M(x) == MetadataFacts(x.metadata)
           S(x) == ScopesFacts(x)
           T(x) == TermsFacts(x)
           P(x) == ProposalsFacts(x)
           H1(x) == M(x) \cup S(x)
           H2(x) == H1(x) \cup T(x)
           H3(x) == H2(x) \cup P(x)
<1>1. \A x : /\ \A f \in M(x) : f[1] = "metadata"
             /\ \A f \in S(x) : f[1] = "scopes"
             /\ \A f \in T(x) : f[1] = "terms"
             /\ \A f \in P(x) : f[1] = "proposals"
  BY SectionsApart
<1>2. M(m) = ThreeWay(M(b), M(o), M(t)) /\ S(m) = ThreeWay(S(b), S(o), S(t))
      /\ T(m) = ThreeWay(T(b), T(o), T(t)) /\ P(m) = ThreeWay(P(b), P(o), P(t))
  OBVIOUS
<1>3. \A x : Facts(x) = H3(x)
  BY DEF Facts, ScopesFacts, TermsFacts, ProposalsFacts
<1> HIDE DEF M, S, T, P
<1>4. ThreeWay(H1(b), H1(o), H1(t))
          = ThreeWay(M(b), M(o), M(t)) \cup ThreeWay(S(b), S(o), S(t))
  <2> DEFINE part == {"metadata"}
  <2>1. /\ Within(part, M(b)) /\ Within(part, M(o)) /\ Within(part, M(t))
        /\ Outside(part, S(b)) /\ Outside(part, S(o)) /\ Outside(part, S(t))
    BY <1>1 DEF Within, Outside
  <2> HIDE DEF part
  <2> QED
    BY <2>1, ApartThreeWay
<1>5. \A x : \A f \in H1(x) : f[1] \in {"metadata", "scopes"}
  BY <1>1
<1>6. \A x : H2(x) = H1(x) \cup T(x) /\ H3(x) = H2(x) \cup P(x)
  OBVIOUS
<1>7. H1(m) = M(m) \cup S(m)
  OBVIOUS
<1> HIDE DEF H1, H2, H3
<1>8. ThreeWay(H2(b), H2(o), H2(t))
          = ThreeWay(H1(b), H1(o), H1(t)) \cup ThreeWay(T(b), T(o), T(t))
  <2> DEFINE part == {"metadata", "scopes"}
  <2>1. /\ Within(part, H1(b)) /\ Within(part, H1(o)) /\ Within(part, H1(t))
        /\ Outside(part, T(b)) /\ Outside(part, T(o)) /\ Outside(part, T(t))
    BY <1>1, <1>5 DEF Within, Outside
  <2> HIDE DEF part
  <2> QED
    BY <2>1, <1>6, ApartThreeWay
<1>9. \A x : \A f \in H2(x) : f[1] \in {"metadata", "scopes", "terms"}
  BY <1>1, <1>5, <1>6
<1>10. ThreeWay(H3(b), H3(o), H3(t))
          = ThreeWay(H2(b), H2(o), H2(t)) \cup ThreeWay(P(b), P(o), P(t))
  <2> DEFINE part == {"metadata", "scopes", "terms"}
  <2>1. /\ Within(part, H2(b)) /\ Within(part, H2(o)) /\ Within(part, H2(t))
        /\ Outside(part, P(b)) /\ Outside(part, P(o)) /\ Outside(part, P(t))
    BY <1>1, <1>9 DEF Within, Outside
  <2> HIDE DEF part
  <2> QED
    BY <2>1, <1>6, ApartThreeWay
<1>11. H3(m) = ThreeWay(H3(b), H3(o), H3(t))
  BY <1>2, <1>4, <1>6, <1>7, <1>8, <1>10
<1> QED
  BY <1>3, <1>11

\* What a merge of lexicons without conflict is.
LEMMA PayloadKeepsBothEdits ==
    ASSUME AbsentIsNoObject, NEW kinds, NEW b, NEW o, NEW t,
           WellFormed(kinds, b), WellFormed(kinds, o), WellFormed(kinds, t),
           Conflicts(b, o, t) = {}
    PROVE  LET m == MergedPayload(b, o, t)
           IN  WellFormed(kinds, m) /\ Facts(m) = ThreeWay(Facts(b), Facts(o), Facts(t))
<1> DEFINE m == MergedPayload(b, o, t)
           metadata == MappingConflicts(b.metadata, o.metadata, t.metadata)
           scopes == IndexedListConflicts(b.scopes, o.scopes, t.scopes, ObjectConflicts)
           terms == IndexedListConflicts(b.terms, o.terms, t.terms, TermConflicts)
           proposals == IndexedListConflicts(b.proposals, o.proposals, t.proposals,
                                             ProposalConflicts)
<1>1. metadata = {} /\ scopes = {} /\ terms = {} /\ proposals = {}
  <2>1. /\ Beneath(<<"metadata">>, metadata) = {} /\ Beneath(<<"scopes">>, scopes) = {}
        /\ Beneath(<<"terms">>, terms) = {} /\ Beneath(<<"proposals">>, proposals) = {}
    BY DEF Conflicts
  <2> HIDE DEF metadata, scopes, terms, proposals
  <2> QED
    BY <2>1 DEF Beneath
<1>2. /\ m.metadata = MergeMapping(b.metadata, o.metadata, t.metadata)
      /\ m.scopes = MergeIndexedList(b.scopes, o.scopes, t.scopes, MergeObject)
      /\ m.terms = MergeIndexedList(b.terms, o.terms, t.terms, MergeTerm)
      /\ m.proposals = MergeIndexedList(b.proposals, o.proposals, t.proposals, MergeProposal)
      /\ DOMAIN m = {"metadata", "scopes", "terms", "proposals"}
  BY DEF MergedPayload
<1>3. /\ IsMapping(b.metadata) /\ IsMapping(o.metadata) /\ IsMapping(t.metadata)
      /\ Indexed(b.scopes) /\ Indexed(o.scopes) /\ Indexed(t.scopes)
      /\ Indexed(b.terms) /\ Indexed(o.terms) /\ Indexed(t.terms)
      /\ Indexed(b.proposals) /\ Indexed(o.proposals) /\ Indexed(t.proposals)
  BY DEF WellFormed, Sections
<1> HIDE DEF m
<1>4. /\ IsMapping(m.metadata)
      /\ MetadataFacts(m.metadata)
             = ThreeWay(MetadataFacts(b.metadata), MetadataFacts(o.metadata),
                        MetadataFacts(t.metadata))
  BY <1>1, <1>2, <1>3, MappingKeepsBothEdits
<1>5. /\ Indexed(m.scopes) /\ \A x \in ToSet(m.scopes) : IsPlain(kinds.scopes, x)
      /\ ScopesFacts(m) = ThreeWay(ScopesFacts(b), ScopesFacts(o), ScopesFacts(t))
  <2>1. \A x \in ToSet(b.scopes) \cup ToSet(o.scopes) \cup ToSet(t.scopes) :
            IsPlain(kinds.scopes, x)
    BY DEF WellFormed
  <2>2. IndexedListConflicts(b.scopes, o.scopes, t.scopes, ObjectConflicts) = {}
    BY <1>1
  <2> DEFINE n == MergeIndexedList(b.scopes, o.scopes, t.scopes, MergeObject)
  <2>3. /\ Indexed(n) /\ \A x \in ToSet(n) : IsPlain(kinds.scopes, x)
        /\ ItemsFacts("scopes", n, ObjectFacts)
               = ThreeWay(ItemsFacts("scopes", b.scopes, ObjectFacts),
                          ItemsFacts("scopes", o.scopes, ObjectFacts),
                          ItemsFacts("scopes", t.scopes, ObjectFacts))
    BY <1>3, <2>1, <2>2, PlainListKeepsBothEdits
  <2>4. m.scopes = n
    BY <1>2
  <2> QED
    BY <2>3, <2>4 DEF ScopesFacts
<1>6. /\ Indexed(m.terms) /\ \A x \in ToSet(m.terms) : IsTerm(kinds, x)
      /\ TermsFacts(m) = ThreeWay(TermsFacts(b), TermsFacts(o), TermsFacts(t))
  <2>1. \A x \in ToSet(b.terms) \cup ToSet(o.terms) \cup ToSet(t.terms) : IsTerm(kinds, x)
    BY DEF WellFormed
  <2> QED
    BY <1>1, <1>2, <1>3, <2>1, TermsKeepBothEdits DEF TermsFacts
<1>7. /\ Indexed(m.proposals) /\ \A x \in ToSet(m.proposals) : IsObject(kinds.proposals, x)
      /\ ProposalsFacts(m)
             = ThreeWay(ProposalsFacts(b), ProposalsFacts(o), ProposalsFacts(t))
  <2>1. \A x \in ToSet(b.proposals) \cup ToSet(o.proposals) \cup ToSet(t.proposals) :
            IsObject(kinds.proposals, x)
    BY DEF WellFormed
  <2> QED
    BY <1>1, <1>2, <1>3, <2>1, ProposalsKeepBothEdits DEF ProposalsFacts
<1>8. WellFormed(kinds, m)
  BY <1>2, <1>4, <1>5, <1>6, <1>7 DEF WellFormed, Sections
<1>9. Facts(m) = ThreeWay(Facts(b), Facts(o), Facts(t))
  BY <1>4, <1>5, <1>6, <1>7, SectionsKeepBothEdits
<1> QED
  BY <1>8, <1>9 DEF m

-----------------------------------------------------------------------------
\* Every lexicon there is keeps to its kinds, and a report, when there is one, is
\* what merging the files as they are gives.
MergeInv(kinds) ==
    /\ DOMAIN branch = Sides
    /\ WellFormed(kinds, base)
    /\ \A s \in Sides : WellFormed(kinds, branch[s])
    /\ report = NoReport \/ report = Merged

\* What is known of a report that offers a merge.
LEMMA MergedReport ==
    ASSUME AbsentIsNoObject, NEW CONSTANT kinds, MergeInv(kinds), report.merged # Absent
    PROVE  WellFormed(kinds, report.merged) /\ KeepsBothEdits
<1> DEFINE o == branch["ours"]
           t == branch["theirs"]
<1>1. report = Merged
  BY DEF MergeInv, NoReport
<1>2. Conflicts(base, o, t) = {} /\ report.merged = MergedPayload(base, o, t)
  BY <1>1 DEF Merged, MergeLexicons
<1>3. WellFormed(kinds, base) /\ WellFormed(kinds, o) /\ WellFormed(kinds, t)
  BY DEF MergeInv, Sides
<1> HIDE DEF o, t
<1>4. /\ WellFormed(kinds, report.merged)
      /\ Facts(report.merged) = ThreeWay(Facts(base), Facts(o), Facts(t))
  BY <1>2, <1>3, PayloadKeepsBothEdits
<1> QED
  BY <1>4 DEF KeepsBothEdits, o, t

\* The invariant of every run.
LEMMA MergesInv ==
    ASSUME AbsentIsNoObject, NEW CONSTANT kinds, OfKinds(kinds)
    PROVE  Spec => []MergeInv(kinds)
<1>1. Init => MergeInv(kinds)
  BY DEF Init, MergeInv, OfKinds
<1>2. MergeInv(kinds) /\ [Next]_vars => MergeInv(kinds)'
  <2> SUFFICES ASSUME MergeInv(kinds), [Next]_vars PROVE MergeInv(kinds)'
    OBVIOUS
  <2>1. CASE \E s \in Sides : EditBranch(s)
    <3>1. PICK s \in Sides : EditBranch(s)
      BY <2>1
    <3>2. PICK e \in LexiconEdits(branch[s]) : branch' = [branch EXCEPT ![s] = e.to]
      BY <3>1 DEF EditBranch
    <3>3. WellFormed(kinds, e.to)
      BY LexiconEditKeeps DEF MergeInv
    <3>4. DOMAIN branch' = Sides /\ \A u \in Sides : WellFormed(kinds, branch'[u])
      BY <3>2, <3>3 DEF MergeInv
    <3>5. base' = base /\ report' = NoReport
      BY <3>1 DEF EditBranch
    <3> QED
      BY <3>4, <3>5 DEF MergeInv
  <2>2. CASE RunMerge
    <3>1. UNCHANGED <<base, branch>> /\ report' = Merged
      BY <2>2 DEF RunMerge
    <3>2. Merged' = Merged
      BY <3>1 DEF Merged
    <3> QED
      BY <3>1, <3>2 DEF MergeInv
  <2>3. CASE WriteMerged
    <3>1. /\ base' = branch["theirs"] /\ report' = NoReport
          /\ branch' = [branch EXCEPT !["ours"] = report.merged]
      BY <2>3 DEF WriteMerged
    <3>2. WellFormed(kinds, report.merged)
      BY <2>3, MergedReport DEF WriteMerged
    <3>3. DOMAIN branch' = Sides /\ \A u \in Sides : WellFormed(kinds, branch'[u])
      BY <3>1, <3>2 DEF MergeInv
    <3> QED
      BY <3>1, <3>3 DEF MergeInv, Sides
  <2>4. CASE UNCHANGED vars
    <3>1. UNCHANGED <<base, branch, report>>
      BY <2>4 DEF vars
    <3>2. Merged' = Merged
      BY <3>1 DEF Merged
    <3> QED
      BY <3>1, <3>2 DEF MergeInv
  <2> QED
    BY <2>1, <2>2, <2>3, <2>4 DEF Next
<1> QED
  BY <1>1, <1>2, PTL DEF Spec

\* KeepsBothEdits of every run, for lexicons of any size and any number of edits
\* and merges: a merge without conflict (dictionary/merge.py's merge_lexicons)
\* takes every edit of both sides, undoes none and invents nothing, in metadata,
\* fields, lists, evidence, aliases, scopes, terms and proposals.
THEOREM MergesKeepBothEdits ==
    ASSUME AbsentIsNoObject, NEW CONSTANT kinds, OfKinds(kinds)
    PROVE  Spec => []KeepsBothEdits
<1>1. MergeInv(kinds) => KeepsBothEdits
  BY MergedReport DEF KeepsBothEdits
<1> QED
  BY <1>1, MergesInv, PTL

-----------------------------------------------------------------------------
(* Merging again: what was settled does not clash with theirs.             *)

\* What is settled is theirs, or the base is.
LEMMA SettledRetry ==
    ASSUME NEW b, NEW o, NEW t, ~Clash(b, o, t)
    PROVE  ~Clash(b, Settled(b, o, t), t)
BY DEF Clash, Settled

\* One object: settled, or merged within and still there.
LEMMA ObjectAtRetry ==
    ASSUME NEW b, NEW o, NEW t, NEW m,
           IF MergedWithin(b, o, t) THEN m # Absent
           ELSE ~Clash(b, o, t) /\ m = Settled(b, o, t)
    PROVE  ~WholeConflict(b, m, t) /\ (MergedWithin(b, m, t) => MergedWithin(b, o, t))
<1>1. CASE MergedWithin(b, o, t)
  BY <1>1 DEF MergedWithin, WholeConflict
<1>2. CASE ~MergedWithin(b, o, t)
  BY <1>2, SettledRetry DEF MergedWithin, WholeConflict
<1> QED
  BY <1>1, <1>2

\* What becomes of an object x of the base that is y in ours and z in theirs, when
\* w is what the merge has: merged and conflicts are what merging within it gives.
Outcome(x, y, z, w, merged, conflicts) ==
    IF MergedWithin(x, y, z)
    THEN w = merged /\ w # Absent /\ conflicts = {}
    ELSE ~Clash(x, y, z) /\ w = Settled(x, y, z)

\* The conflicts found under the ids of a list.
AllBeneath(keys, found) == UNION {Beneath(<<id>>, found[id]) : id \in keys}

\* No conflict under any id is no conflict.
LEMMA NoneBeneath ==
    ASSUME NEW keys, NEW found, \A id \in keys : found[id] = {}
    PROVE  AllBeneath(keys, found) = {}
BY DEF Beneath, AllBeneath

\* A mapping merged again has no conflict.
LEMMA MappingRetry ==
    ASSUME NEW b, NEW o, NEW t, MappingConflicts(b, o, t) = {}
    PROVE  MappingConflicts(b, MergeMapping(b, o, t), t) = {}
<1> DEFINE keys == MappingKeys(b, o, t)
           At(k) == Settled(ValueAt(b, k), ValueAt(o, k), ValueAt(t, k))
           m == MergeMapping(b, o, t)
<1>1. DOMAIN m = {k \in keys : At(k) # Absent} /\ \A k \in DOMAIN m : m[k] = At(k)
  BY DEF MergeMapping
<1>2. \A k \in keys : ~Clash(ValueAt(b, k), ValueAt(o, k), ValueAt(t, k))
  BY DEF MappingConflicts
<1>3. \A k \in keys : ValueAt(m, k) = At(k)
  BY <1>1 DEF ValueAt
<1>4. MappingKeys(b, m, t) \subseteq keys
  BY <1>1 DEF MappingKeys
<1> HIDE DEF m, keys
<1>5. \A k \in keys : ~Clash(ValueAt(b, k), ValueAt(m, k), ValueAt(t, k))
  BY <1>2, <1>3, SettledRetry
<1>6. MappingConflicts(b, m, t) = {}
  BY <1>4, <1>5 DEF MappingConflicts
<1> QED
  BY <1>6 DEF m

\* Neither do the fields and metadata of an object.
LEMMA ObjectRetry ==
    ASSUME NEW kind, NEW b, NEW o, NEW t, NEW m,
           IsObject(kind, b), IsObject(kind, o), IsObject(kind, t),
           ObjectConflicts(b, o, t) = {},
           m.fields = MergeObject(b, o, t).fields, m.metadata = MergeObject(b, o, t).metadata
    PROVE  ObjectConflicts(b, m, t) = {}
<1>1. {"id", "fields", "lists", "metadata", "evidence"} \subseteq DOMAIN b
  BY DEF IsObject
<1>2. /\ m.fields = [f \in DOMAIN b.fields |-> Settled(b.fields[f], o.fields[f], t.fields[f])]
      /\ m.metadata = MergeMapping(b.metadata, o.metadata, t.metadata)
  BY <1>1 DEF MergeObject
<1> DEFINE clashes == {g \in DOMAIN b.fields : Clash(b.fields[g], o.fields[g], t.fields[g])}
           within == MappingConflicts(b.metadata, o.metadata, t.metadata)
           again == MappingConflicts(b.metadata, m.metadata, t.metadata)
<1>3. {<<f>> : f \in clashes} = {} /\ Beneath(<<"metadata">>, within) = {}
  BY DEF ObjectConflicts
<1>4. within = {}
  <2> HIDE DEF within
  <2> QED
    BY <1>3 DEF Beneath
<1>5. \A f \in DOMAIN b.fields : ~Clash(b.fields[f], o.fields[f], t.fields[f])
  BY <1>3
<1>6. \A f \in DOMAIN b.fields : ~Clash(b.fields[f], m.fields[f], t.fields[f])
  BY <1>2, <1>5, SettledRetry
<1>7. again = {}
  BY <1>2, <1>4, MappingRetry
<1>8. ObjectConflicts(b, m, t)
          = {<<f>> : f \in {g \in DOMAIN b.fields :
                               Clash(b.fields[g], m.fields[g], t.fields[g])}}
            \cup Beneath(<<"metadata">>, again)
  BY DEF ObjectConflicts
<1> HIDE DEF again
<1>9. Beneath(<<"metadata">>, again) = {}
  BY <1>7 DEF Beneath
<1>10. {g \in DOMAIN b.fields : Clash(b.fields[g], m.fields[g], t.fields[g])} = {}
  BY <1>6
<1> QED
  BY <1>8, <1>9, <1>10

\* What a merged list has under every id.
LEMMA EvidenceListAt ==
    ASSUME AbsentIsNoObject, NEW b, NEW o, NEW t,
           Indexed(b), Indexed(o), Indexed(t),
           IndexedListConflicts(b, o, t, EvidenceItemConflicts) = {}
    PROVE  \A id : Outcome(ItemAt(b, id), ItemAt(o, id), ItemAt(t, id),
                           ItemAt(MergeIndexedList(b, o, t, MergeEvidence), id),
                           MergeEvidence(ItemAt(b, id), ItemAt(o, id), ItemAt(t, id)),
                           EvidenceItemConflicts(ItemAt(b, id), ItemAt(o, id), ItemAt(t, id)))
<1> DEFINE keys == Keys(b, o, t)
           ids == OrderedKeys(b, o, t)
           B(id) == ItemAt(b, id)
           O(id) == ItemAt(o, id)
           T(id) == ItemAt(t, id)
           item == [id \in keys |-> IF MergedWithin(B(id), O(id), T(id))
                                    THEN MergeEvidence(B(id), O(id), T(id))
                                    ELSE Settled(B(id), O(id), T(id))]
           m == Listed(ids, item)
<1>1. ids \in Seq(keys) /\ ToSet(ids) = keys /\ NoRepeats(ids)
  BY OrderedKeysFacts DEF Indexed
<1>2. MergeIndexedList(b, o, t, MergeEvidence) = m
  BY <1>1 DEF MergeIndexedList
<1>3. ASSUME NEW id \in keys
      PROVE  IF MergedWithin(B(id), O(id), T(id))
             THEN EvidenceItemConflicts(B(id), O(id), T(id)) = {}
             ELSE ~Clash(B(id), O(id), T(id))
  <2> DEFINE within == EvidenceItemConflicts(B(id), O(id), T(id))
             found == IF MergedWithin(B(id), O(id), T(id)) THEN within
                      ELSE IF WholeConflict(B(id), O(id), T(id)) THEN {<<>>} ELSE {}
  <2>1. Beneath(<<id>>, found) = {}
    BY DEF IndexedListConflicts, Keys
  <2> HIDE DEF within
  <2>2. found = {}
    <3> HIDE DEF found
    <3> QED
      BY <2>1 DEF Beneath
  <2>3. IF MergedWithin(B(id), O(id), T(id)) THEN within = {}
        ELSE ~WholeConflict(B(id), O(id), T(id))
    BY <2>2
  <2> QED
    BY <2>3 DEF within, WholeConflict
<1>4. ASSUME NEW l \in {b, o, t}, NEW id, ItemAt(l, id) # Absent
      PROVE  /\ ItemAt(l, id) \in ToSet(l)
             /\ ItemAt(l, id).id = id
             /\ "id" \in DOMAIN ItemAt(l, id)
  <2>1. Indexed(l)
    OBVIOUS
  <2>2. ItemAt(l, id) \in ToSet(l) /\ ItemAt(l, id).id = id
    BY <1>4, <2>1, IndexedFacts
  <2> QED
    BY <2>1, <2>2 DEF Indexed
<1>5. ASSUME NEW id \in keys, MergedWithin(B(id), O(id), T(id))
      PROVE  /\ item[id].id = id /\ "id" \in DOMAIN item[id] /\ item[id] # Absent
  <2>1. B(id) # Absent /\ O(id) # Absent /\ T(id) # Absent
    BY <1>5 DEF MergedWithin
  <2>2. /\ B(id) \in ToSet(b) /\ B(id).id = id
        /\ O(id) \in ToSet(o) /\ T(id) \in ToSet(t)
    BY <1>4, <2>1
  <2>3. EvidenceItemConflicts(B(id), O(id), T(id)) = {}
    BY <1>3, <1>5
  <2> DEFINE x == B(id)
             y == O(id)
             z == T(id)
  <2>4. item[id] = MergeEvidence(x, y, z)
    BY <1>5
  <2> QED
    BY <2>3 DEF EvidenceItemConflicts
<1>6. ASSUME NEW id \in keys, ~MergedWithin(B(id), O(id), T(id))
      PROVE  item[id] = Settled(B(id), O(id), T(id))
  BY <1>6
<1>7. DOMAIN item = keys
  OBVIOUS
<1> HIDE DEF item
<1>8. ASSUME NEW id \in keys, item[id] # Absent
      PROVE  item[id].id = id /\ "id" \in DOMAIN item[id]
  <2>1. CASE MergedWithin(B(id), O(id), T(id))
    BY <1>5, <2>1
  <2>2. CASE ~MergedWithin(B(id), O(id), T(id))
    <3>1. item[id] = O(id) \/ item[id] = T(id)
      BY <1>6, <2>2 DEF Settled
    <3> QED
      BY <1>4, <1>8, <3>1
  <2> QED
    BY <2>1, <2>2
<1>9. /\ \A id \in keys : ItemAt(m, id) = item[id]
      /\ \A id : id \notin keys => ItemAt(m, id) = Absent
  <2> HIDE DEF keys, ids
  <2> QED
    BY <1>1, <1>7, <1>8, ListedFacts
<1> HIDE DEF m
<1>10. ASSUME NEW id \in keys, MergedWithin(B(id), O(id), T(id))
       PROVE  item[id] = MergeEvidence(B(id), O(id), T(id))
  BY <1>10 DEF item
<1>11. ASSUME NEW id, id \notin keys
       PROVE  B(id) = Absent /\ O(id) = Absent /\ T(id) = Absent
  BY <1>11, IndexedFacts DEF Keys
<1> HIDE DEF keys
<1>12. ASSUME NEW id
       PROVE  Outcome(B(id), O(id), T(id), ItemAt(m, id), MergeEvidence(B(id), O(id), T(id)),
                      EvidenceItemConflicts(B(id), O(id), T(id)))
  <2>1. CASE id \notin keys
    BY <1>9, <1>11, <2>1 DEF MergedWithin, Clash, Settled, Outcome
  <2>2. CASE id \in keys /\ MergedWithin(B(id), O(id), T(id))
    BY <1>3, <1>5, <1>9, <1>10, <2>2 DEF Outcome
  <2>3. CASE id \in keys /\ ~MergedWithin(B(id), O(id), T(id))
    BY <1>3, <1>6, <1>9, <2>3 DEF Outcome
  <2> QED
    BY <2>1, <2>2, <2>3
<1> QED
  BY <1>2, <1>12

\* Merged evidence does not clash with the evidence of theirs.
LEMMA EvidenceListRetry ==
    ASSUME AbsentIsNoObject, NEW b, NEW o, NEW t,
           Indexed(b), Indexed(o), Indexed(t),
           IndexedListConflicts(b, o, t, EvidenceItemConflicts) = {}
    PROVE  IndexedListConflicts(b, MergeIndexedList(b, o, t, MergeEvidence),
                                t, EvidenceItemConflicts) = {}
<1> DEFINE m == MergeIndexedList(b, o, t, MergeEvidence)
           B(id) == ItemAt(b, id)
           O(id) == ItemAt(o, id)
           T(id) == ItemAt(t, id)
           all == Ids(b) \cup Ids(m) \cup Ids(t)
           Found(id) == IF MergedWithin(B(id), ItemAt(m, id), T(id))
                        THEN EvidenceItemConflicts(B(id), ItemAt(m, id), T(id))
                        ELSE IF WholeConflict(B(id), ItemAt(m, id), T(id)) THEN {<<>>} ELSE {}
           found == [id \in all |-> Found(id)]
<1>1. \A id : Outcome(B(id), O(id), T(id), ItemAt(m, id), MergeEvidence(B(id), O(id), T(id)),
                      EvidenceItemConflicts(B(id), O(id), T(id)))
  BY EvidenceListAt
<1> HIDE DEF m
<1>2. ASSUME NEW id
      PROVE  Found(id) = {}
  <2> DEFINE x == B(id)
             y == O(id)
             z == T(id)
             w == ItemAt(m, id)
  <2>1. IF MergedWithin(x, y, z) THEN w # Absent ELSE ~Clash(x, y, z) /\ w = Settled(x, y, z)
    BY <1>1 DEF Outcome
  <2>2. MergedWithin(x, y, z) => EvidenceItemConflicts(x, w, z) = {}
    <3> SUFFICES ASSUME MergedWithin(x, y, z) PROVE EvidenceItemConflicts(x, w, z) = {}
      OBVIOUS
    <3>1. EvidenceItemConflicts(x, y, z) = {} /\ w = MergeEvidence(x, y, z)
      BY <1>1 DEF Outcome
    <3> QED
      BY <3>1 DEF EvidenceItemConflicts
  <2> HIDE DEF x, y, z, w
  <2>3. ~WholeConflict(x, w, z) /\ (MergedWithin(x, w, z) => MergedWithin(x, y, z))
    BY <2>1, ObjectAtRetry
  <2>4. Found(id) = IF MergedWithin(x, w, z) THEN EvidenceItemConflicts(x, w, z)
                    ELSE IF WholeConflict(x, w, z) THEN {<<>>} ELSE {}
    BY DEF x, z, w
  <2> QED
    BY <2>2, <2>3, <2>4
<1>3. \A id \in all : found[id] = {}
  BY <1>2
<1>4. IndexedListConflicts(b, m, t, EvidenceItemConflicts) = AllBeneath(all, found)
  BY DEF IndexedListConflicts, AllBeneath
<1> HIDE DEF found, all
<1> QED
  BY <1>3, <1>4, NoneBeneath DEF m

\* A scope or an alias merged again has no conflict.
LEMMA PlainRetry ==
    ASSUME NEW kind, NEW b, NEW o, NEW t, IsPlain(kind, b), IsPlain(kind, o), IsPlain(kind, t),
           ObjectConflicts(b, o, t) = {}
    PROVE  ObjectConflicts(b, MergeObject(b, o, t), t) = {}
BY ObjectRetry DEF IsPlain

\* What a merged list has under every id.
LEMMA PlainListAt ==
    ASSUME AbsentIsNoObject, NEW kind, NEW b, NEW o, NEW t,
           Indexed(b), Indexed(o), Indexed(t),
           \A x \in ToSet(b) \cup ToSet(o) \cup ToSet(t) : IsPlain(kind, x),
           IndexedListConflicts(b, o, t, ObjectConflicts) = {}
    PROVE  \A id : Outcome(ItemAt(b, id), ItemAt(o, id), ItemAt(t, id),
                           ItemAt(MergeIndexedList(b, o, t, MergeObject), id),
                           MergeObject(ItemAt(b, id), ItemAt(o, id), ItemAt(t, id)),
                           ObjectConflicts(ItemAt(b, id), ItemAt(o, id), ItemAt(t, id)))
<1> DEFINE keys == Keys(b, o, t)
           ids == OrderedKeys(b, o, t)
           B(id) == ItemAt(b, id)
           O(id) == ItemAt(o, id)
           T(id) == ItemAt(t, id)
           item == [id \in keys |-> IF MergedWithin(B(id), O(id), T(id))
                                    THEN MergeObject(B(id), O(id), T(id))
                                    ELSE Settled(B(id), O(id), T(id))]
           m == Listed(ids, item)
<1>1. ids \in Seq(keys) /\ ToSet(ids) = keys /\ NoRepeats(ids)
  BY OrderedKeysFacts DEF Indexed
<1>2. MergeIndexedList(b, o, t, MergeObject) = m
  BY <1>1 DEF MergeIndexedList
<1>3. ASSUME NEW id \in keys
      PROVE  IF MergedWithin(B(id), O(id), T(id))
             THEN ObjectConflicts(B(id), O(id), T(id)) = {}
             ELSE ~Clash(B(id), O(id), T(id))
  <2> DEFINE within == ObjectConflicts(B(id), O(id), T(id))
             found == IF MergedWithin(B(id), O(id), T(id)) THEN within
                      ELSE IF WholeConflict(B(id), O(id), T(id)) THEN {<<>>} ELSE {}
  <2>1. Beneath(<<id>>, found) = {}
    BY DEF IndexedListConflicts, Keys
  <2> HIDE DEF within
  <2>2. found = {}
    <3> HIDE DEF found
    <3> QED
      BY <2>1 DEF Beneath
  <2>3. IF MergedWithin(B(id), O(id), T(id)) THEN within = {}
        ELSE ~WholeConflict(B(id), O(id), T(id))
    BY <2>2
  <2> QED
    BY <2>3 DEF within, WholeConflict
<1>4. ASSUME NEW l \in {b, o, t}, NEW id, ItemAt(l, id) # Absent
      PROVE  /\ ItemAt(l, id) \in ToSet(l)
             /\ ItemAt(l, id).id = id
             /\ "id" \in DOMAIN ItemAt(l, id)
  <2>1. Indexed(l)
    OBVIOUS
  <2>2. ItemAt(l, id) \in ToSet(l) /\ ItemAt(l, id).id = id
    BY <1>4, <2>1, IndexedFacts
  <2> QED
    BY <2>1, <2>2 DEF Indexed
<1>5. ASSUME NEW id \in keys, MergedWithin(B(id), O(id), T(id))
      PROVE  /\ item[id].id = id /\ "id" \in DOMAIN item[id] /\ item[id] # Absent
  <2>1. B(id) # Absent /\ O(id) # Absent /\ T(id) # Absent
    BY <1>5 DEF MergedWithin
  <2>2. /\ B(id) \in ToSet(b) /\ B(id).id = id
        /\ O(id) \in ToSet(o) /\ T(id) \in ToSet(t)
    BY <1>4, <2>1
  <2>3. ObjectConflicts(B(id), O(id), T(id)) = {}
    BY <1>3, <1>5
  <2> DEFINE x == B(id)
             y == O(id)
             z == T(id)
  <2>4. item[id] = MergeObject(x, y, z)
    BY <1>5
  <2>5. IsPlain(kind, x) /\ IsPlain(kind, y) /\ IsPlain(kind, z)
    BY <2>2
  <2> HIDE DEF x, y, z
  <2> DEFINE w == MergeObject(x, y, z)
  <2>6. ObjectConflicts(x, y, z) = {}
    BY <2>3 DEF x, y, z
  <2>7. IsPlain(kind, w) /\ w.id = x.id
    BY <2>5, <2>6, PlainKeepsBothEdits
  <2> HIDE DEF w
  <2>9. "id" \in DOMAIN w
    BY <2>7 DEF IsPlain, IsObject
  <2>10. w.id = id /\ w # Absent
    BY <2>2, <2>7, <2>9 DEF x, AbsentIsNoObject
  <2>11. item[id] = w
    BY <2>4 DEF w
  <2> QED
    BY <2>9, <2>10, <2>11 DEF x
<1>6. ASSUME NEW id \in keys, ~MergedWithin(B(id), O(id), T(id))
      PROVE  item[id] = Settled(B(id), O(id), T(id))
  BY <1>6
<1>7. DOMAIN item = keys
  OBVIOUS
<1> HIDE DEF item
<1>8. ASSUME NEW id \in keys, item[id] # Absent
      PROVE  item[id].id = id /\ "id" \in DOMAIN item[id]
  <2>1. CASE MergedWithin(B(id), O(id), T(id))
    BY <1>5, <2>1
  <2>2. CASE ~MergedWithin(B(id), O(id), T(id))
    <3>1. item[id] = O(id) \/ item[id] = T(id)
      BY <1>6, <2>2 DEF Settled
    <3> QED
      BY <1>4, <1>8, <3>1
  <2> QED
    BY <2>1, <2>2
<1>9. /\ \A id \in keys : ItemAt(m, id) = item[id]
      /\ \A id : id \notin keys => ItemAt(m, id) = Absent
  <2> HIDE DEF keys, ids
  <2> QED
    BY <1>1, <1>7, <1>8, ListedFacts
<1> HIDE DEF m
<1>10. ASSUME NEW id \in keys, MergedWithin(B(id), O(id), T(id))
       PROVE  item[id] = MergeObject(B(id), O(id), T(id))
  BY <1>10 DEF item
<1>11. ASSUME NEW id, id \notin keys
       PROVE  B(id) = Absent /\ O(id) = Absent /\ T(id) = Absent
  BY <1>11, IndexedFacts DEF Keys
<1> HIDE DEF keys
<1>12. ASSUME NEW id
       PROVE  Outcome(B(id), O(id), T(id), ItemAt(m, id), MergeObject(B(id), O(id), T(id)),
                      ObjectConflicts(B(id), O(id), T(id)))
  <2>1. CASE id \notin keys
    BY <1>9, <1>11, <2>1 DEF MergedWithin, Clash, Settled, Outcome
  <2>2. CASE id \in keys /\ MergedWithin(B(id), O(id), T(id))
    BY <1>3, <1>5, <1>9, <1>10, <2>2 DEF Outcome
  <2>3. CASE id \in keys /\ ~MergedWithin(B(id), O(id), T(id))
    BY <1>3, <1>6, <1>9, <2>3 DEF Outcome
  <2> QED
    BY <2>1, <2>2, <2>3
<1> QED
  BY <1>2, <1>12

\* Nor has a list of scopes or of aliases.
LEMMA PlainListRetry ==
    ASSUME AbsentIsNoObject, NEW kind, NEW b, NEW o, NEW t,
           Indexed(b), Indexed(o), Indexed(t),
           \A x \in ToSet(b) \cup ToSet(o) \cup ToSet(t) : IsPlain(kind, x),
           IndexedListConflicts(b, o, t, ObjectConflicts) = {}
    PROVE  IndexedListConflicts(b, MergeIndexedList(b, o, t, MergeObject),
                                t, ObjectConflicts) = {}
<1> DEFINE m == MergeIndexedList(b, o, t, MergeObject)
           B(id) == ItemAt(b, id)
           O(id) == ItemAt(o, id)
           T(id) == ItemAt(t, id)
           all == Ids(b) \cup Ids(m) \cup Ids(t)
           Found(id) == IF MergedWithin(B(id), ItemAt(m, id), T(id))
                        THEN ObjectConflicts(B(id), ItemAt(m, id), T(id))
                        ELSE IF WholeConflict(B(id), ItemAt(m, id), T(id)) THEN {<<>>} ELSE {}
           found == [id \in all |-> Found(id)]
<1>1. \A id : Outcome(B(id), O(id), T(id), ItemAt(m, id), MergeObject(B(id), O(id), T(id)),
                      ObjectConflicts(B(id), O(id), T(id)))
  BY PlainListAt
<1> HIDE DEF m
<1>2. ASSUME NEW id
      PROVE  Found(id) = {}
  <2> DEFINE x == B(id)
             y == O(id)
             z == T(id)
             w == ItemAt(m, id)
  <2>1. IF MergedWithin(x, y, z) THEN w # Absent ELSE ~Clash(x, y, z) /\ w = Settled(x, y, z)
    BY <1>1 DEF Outcome
  <2>2. MergedWithin(x, y, z) => ObjectConflicts(x, w, z) = {}
    <3> SUFFICES ASSUME MergedWithin(x, y, z) PROVE ObjectConflicts(x, w, z) = {}
      OBVIOUS
    <3>1. ObjectConflicts(x, y, z) = {} /\ w = MergeObject(x, y, z)
      BY <1>1 DEF Outcome
    <3>2. x # Absent /\ y # Absent /\ z # Absent
      BY DEF MergedWithin
    <3>3. IsPlain(kind, x) /\ IsPlain(kind, y) /\ IsPlain(kind, z)
      BY <3>2, IndexedFacts
    <3> HIDE DEF x, y, z, w
    <3> QED
      BY <3>1, <3>3, PlainRetry
  <2> HIDE DEF x, y, z, w
  <2>3. ~WholeConflict(x, w, z) /\ (MergedWithin(x, w, z) => MergedWithin(x, y, z))
    BY <2>1, ObjectAtRetry
  <2>4. Found(id) = IF MergedWithin(x, w, z) THEN ObjectConflicts(x, w, z)
                    ELSE IF WholeConflict(x, w, z) THEN {<<>>} ELSE {}
    BY DEF x, z, w
  <2> QED
    BY <2>2, <2>3, <2>4
<1>3. \A id \in all : found[id] = {}
  BY <1>2
<1>4. IndexedListConflicts(b, m, t, ObjectConflicts) = AllBeneath(all, found)
  BY DEF IndexedListConflicts, AllBeneath
<1> HIDE DEF found, all
<1> QED
  BY <1>3, <1>4, NoneBeneath DEF m

\* What MergeProposal makes of the parts of an object.
LEMMA ProposalParts ==
    ASSUME NEW kind, NEW b, NEW o, NEW t,
           IsObject(kind, b), IsObject(kind, o), IsObject(kind, t),
           ObjectConflicts(b, o, t) = {}
    PROVE  LET m == MergeProposal(b, o, t)
               n == MergeObject(b, o, t)
           IN  /\ m.fields = n.fields /\ m.metadata = n.metadata
               /\ m.evidence = MergeIndexedList(b.evidence, o.evidence, t.evidence, MergeEvidence)
<1> DEFINE n == MergeObject(b, o, t)
           m == MergeProposal(b, o, t)
           evidence == MergeIndexedList(b.evidence, o.evidence, t.evidence, MergeEvidence)
<1>1. DOMAIN n = DOMAIN b /\ n.evidence = b.evidence
  BY ObjectKeepsBothEdits
<1>2. m = [n EXCEPT !.evidence = evidence]
  BY <1>1 DEF MergeProposal
<1>3. {"id", "fields", "lists", "metadata", "evidence"} \subseteq DOMAIN n
  BY <1>1 DEF IsObject
<1> HIDE DEF n, m, evidence
<1>4. m.fields = n.fields /\ m.metadata = n.metadata /\ m.evidence = evidence
  BY <1>2, <1>3
<1> QED
  BY <1>4 DEF n, m, evidence

\* What is said of the parts of a proposal is enough: terms have them too.
LEMMA ProposalPartsRetry ==
    ASSUME AbsentIsNoObject, NEW kind, NEW b, NEW o, NEW t, NEW m,
           IsObject(kind, b), IsObject(kind, o), IsObject(kind, t),
           ProposalConflicts(b, o, t) = {},
           m.fields = MergeProposal(b, o, t).fields,
           m.metadata = MergeProposal(b, o, t).metadata,
           m.evidence = MergeProposal(b, o, t).evidence
    PROVE  ProposalConflicts(b, m, t) = {}
<1> DEFINE within == IndexedListConflicts(b.evidence, o.evidence, t.evidence,
                                          EvidenceItemConflicts)
           again == IndexedListConflicts(b.evidence, m.evidence, t.evidence,
                                         EvidenceItemConflicts)
<1>1. ObjectConflicts(b, o, t) = {} /\ within = {}
  <2>1. ObjectConflicts(b, o, t) = {} /\ Beneath(<<"evidence">>, within) = {}
    BY DEF ProposalConflicts
  <2> HIDE DEF within
  <2> QED
    BY <2>1 DEF Beneath
<1>2. /\ m.fields = MergeObject(b, o, t).fields /\ m.metadata = MergeObject(b, o, t).metadata
      /\ m.evidence = MergeIndexedList(b.evidence, o.evidence, t.evidence, MergeEvidence)
  BY <1>1, ProposalParts
<1>3. ObjectConflicts(b, m, t) = {}
  BY <1>1, <1>2, ObjectRetry
<1>4. again = {}
  <2>1. Indexed(b.evidence) /\ Indexed(o.evidence) /\ Indexed(t.evidence)
    BY DEF IsObject
  <2>2. IndexedListConflicts(b.evidence, o.evidence, t.evidence, EvidenceItemConflicts) = {}
    BY <1>1
  <2>3. IndexedListConflicts(b.evidence,
                             MergeIndexedList(b.evidence, o.evidence, t.evidence, MergeEvidence),
                             t.evidence, EvidenceItemConflicts) = {}
    BY <2>1, <2>2, EvidenceListRetry
  <2> QED
    BY <1>2, <2>3
<1>5. ProposalConflicts(b, m, t) = ObjectConflicts(b, m, t) \cup Beneath(<<"evidence">>, again)
  BY DEF ProposalConflicts
<1> HIDE DEF again
<1>6. Beneath(<<"evidence">>, again) = {}
  BY <1>4 DEF Beneath
<1> QED
  BY <1>3, <1>5, <1>6

\* A proposal merged again has no conflict.
LEMMA ProposalRetry ==
    ASSUME AbsentIsNoObject, NEW kind, NEW b, NEW o, NEW t,
           IsObject(kind, b), IsObject(kind, o), IsObject(kind, t),
           ProposalConflicts(b, o, t) = {}
    PROVE  ProposalConflicts(b, MergeProposal(b, o, t), t) = {}
BY ProposalPartsRetry

\* What a merged list has under every id.
LEMMA ProposalListAt ==
    ASSUME AbsentIsNoObject, NEW kind, NEW b, NEW o, NEW t,
           Indexed(b), Indexed(o), Indexed(t),
           \A x \in ToSet(b) \cup ToSet(o) \cup ToSet(t) : IsObject(kind, x),
           IndexedListConflicts(b, o, t, ProposalConflicts) = {}
    PROVE  \A id : Outcome(ItemAt(b, id), ItemAt(o, id), ItemAt(t, id),
                           ItemAt(MergeIndexedList(b, o, t, MergeProposal), id),
                           MergeProposal(ItemAt(b, id), ItemAt(o, id), ItemAt(t, id)),
                           ProposalConflicts(ItemAt(b, id), ItemAt(o, id), ItemAt(t, id)))
<1> DEFINE keys == Keys(b, o, t)
           ids == OrderedKeys(b, o, t)
           B(id) == ItemAt(b, id)
           O(id) == ItemAt(o, id)
           T(id) == ItemAt(t, id)
           item == [id \in keys |-> IF MergedWithin(B(id), O(id), T(id))
                                    THEN MergeProposal(B(id), O(id), T(id))
                                    ELSE Settled(B(id), O(id), T(id))]
           m == Listed(ids, item)
<1>1. ids \in Seq(keys) /\ ToSet(ids) = keys /\ NoRepeats(ids)
  BY OrderedKeysFacts DEF Indexed
<1>2. MergeIndexedList(b, o, t, MergeProposal) = m
  BY <1>1 DEF MergeIndexedList
<1>3. ASSUME NEW id \in keys
      PROVE  IF MergedWithin(B(id), O(id), T(id))
             THEN ProposalConflicts(B(id), O(id), T(id)) = {}
             ELSE ~Clash(B(id), O(id), T(id))
  <2> DEFINE within == ProposalConflicts(B(id), O(id), T(id))
             found == IF MergedWithin(B(id), O(id), T(id)) THEN within
                      ELSE IF WholeConflict(B(id), O(id), T(id)) THEN {<<>>} ELSE {}
  <2>1. Beneath(<<id>>, found) = {}
    BY DEF IndexedListConflicts, Keys
  <2> HIDE DEF within
  <2>2. found = {}
    <3> HIDE DEF found
    <3> QED
      BY <2>1 DEF Beneath
  <2>3. IF MergedWithin(B(id), O(id), T(id)) THEN within = {}
        ELSE ~WholeConflict(B(id), O(id), T(id))
    BY <2>2
  <2> QED
    BY <2>3 DEF within, WholeConflict
<1>4. ASSUME NEW l \in {b, o, t}, NEW id, ItemAt(l, id) # Absent
      PROVE  /\ ItemAt(l, id) \in ToSet(l)
             /\ ItemAt(l, id).id = id
             /\ "id" \in DOMAIN ItemAt(l, id)
  <2>1. Indexed(l)
    OBVIOUS
  <2>2. ItemAt(l, id) \in ToSet(l) /\ ItemAt(l, id).id = id
    BY <1>4, <2>1, IndexedFacts
  <2> QED
    BY <2>1, <2>2 DEF Indexed
<1>5. ASSUME NEW id \in keys, MergedWithin(B(id), O(id), T(id))
      PROVE  /\ item[id].id = id /\ "id" \in DOMAIN item[id] /\ item[id] # Absent
  <2>1. B(id) # Absent /\ O(id) # Absent /\ T(id) # Absent
    BY <1>5 DEF MergedWithin
  <2>2. /\ B(id) \in ToSet(b) /\ B(id).id = id
        /\ O(id) \in ToSet(o) /\ T(id) \in ToSet(t)
    BY <1>4, <2>1
  <2>3. ProposalConflicts(B(id), O(id), T(id)) = {}
    BY <1>3, <1>5
  <2> DEFINE x == B(id)
             y == O(id)
             z == T(id)
  <2>4. item[id] = MergeProposal(x, y, z)
    BY <1>5
  <2>5. IsObject(kind, x) /\ IsObject(kind, y) /\ IsObject(kind, z)
    BY <2>2
  <2> HIDE DEF x, y, z
  <2> DEFINE w == MergeProposal(x, y, z)
  <2>6. ProposalConflicts(x, y, z) = {}
    BY <2>3 DEF x, y, z
  <2>7. IsObject(kind, w) /\ w.id = x.id
    BY <2>5, <2>6, ProposalKeepsBothEdits
  <2> HIDE DEF w
  <2>9. "id" \in DOMAIN w
    BY <2>7 DEF IsObject
  <2>10. w.id = id /\ w # Absent
    BY <2>2, <2>7, <2>9 DEF x, AbsentIsNoObject
  <2>11. item[id] = w
    BY <2>4 DEF w
  <2> QED
    BY <2>9, <2>10, <2>11 DEF x
<1>6. ASSUME NEW id \in keys, ~MergedWithin(B(id), O(id), T(id))
      PROVE  item[id] = Settled(B(id), O(id), T(id))
  BY <1>6
<1>7. DOMAIN item = keys
  OBVIOUS
<1> HIDE DEF item
<1>8. ASSUME NEW id \in keys, item[id] # Absent
      PROVE  item[id].id = id /\ "id" \in DOMAIN item[id]
  <2>1. CASE MergedWithin(B(id), O(id), T(id))
    BY <1>5, <2>1
  <2>2. CASE ~MergedWithin(B(id), O(id), T(id))
    <3>1. item[id] = O(id) \/ item[id] = T(id)
      BY <1>6, <2>2 DEF Settled
    <3> QED
      BY <1>4, <1>8, <3>1
  <2> QED
    BY <2>1, <2>2
<1>9. /\ \A id \in keys : ItemAt(m, id) = item[id]
      /\ \A id : id \notin keys => ItemAt(m, id) = Absent
  <2> HIDE DEF keys, ids
  <2> QED
    BY <1>1, <1>7, <1>8, ListedFacts
<1> HIDE DEF m
<1>10. ASSUME NEW id \in keys, MergedWithin(B(id), O(id), T(id))
       PROVE  item[id] = MergeProposal(B(id), O(id), T(id))
  BY <1>10 DEF item
<1>11. ASSUME NEW id, id \notin keys
       PROVE  B(id) = Absent /\ O(id) = Absent /\ T(id) = Absent
  BY <1>11, IndexedFacts DEF Keys
<1> HIDE DEF keys
<1>12. ASSUME NEW id
       PROVE  Outcome(B(id), O(id), T(id), ItemAt(m, id), MergeProposal(B(id), O(id), T(id)),
                      ProposalConflicts(B(id), O(id), T(id)))
  <2>1. CASE id \notin keys
    BY <1>9, <1>11, <2>1 DEF MergedWithin, Clash, Settled, Outcome
  <2>2. CASE id \in keys /\ MergedWithin(B(id), O(id), T(id))
    BY <1>3, <1>5, <1>9, <1>10, <2>2 DEF Outcome
  <2>3. CASE id \in keys /\ ~MergedWithin(B(id), O(id), T(id))
    BY <1>3, <1>6, <1>9, <2>3 DEF Outcome
  <2> QED
    BY <2>1, <2>2, <2>3
<1> QED
  BY <1>2, <1>12

\* Nor has a list of proposals.
LEMMA ProposalListRetry ==
    ASSUME AbsentIsNoObject, NEW kind, NEW b, NEW o, NEW t,
           Indexed(b), Indexed(o), Indexed(t),
           \A x \in ToSet(b) \cup ToSet(o) \cup ToSet(t) : IsObject(kind, x),
           IndexedListConflicts(b, o, t, ProposalConflicts) = {}
    PROVE  IndexedListConflicts(b, MergeIndexedList(b, o, t, MergeProposal),
                                t, ProposalConflicts) = {}
<1> DEFINE m == MergeIndexedList(b, o, t, MergeProposal)
           B(id) == ItemAt(b, id)
           O(id) == ItemAt(o, id)
           T(id) == ItemAt(t, id)
           all == Ids(b) \cup Ids(m) \cup Ids(t)
           Found(id) == IF MergedWithin(B(id), ItemAt(m, id), T(id))
                        THEN ProposalConflicts(B(id), ItemAt(m, id), T(id))
                        ELSE IF WholeConflict(B(id), ItemAt(m, id), T(id)) THEN {<<>>} ELSE {}
           found == [id \in all |-> Found(id)]
<1>1. \A id : Outcome(B(id), O(id), T(id), ItemAt(m, id), MergeProposal(B(id), O(id), T(id)),
                      ProposalConflicts(B(id), O(id), T(id)))
  BY ProposalListAt
<1> HIDE DEF m
<1>2. ASSUME NEW id
      PROVE  Found(id) = {}
  <2> DEFINE x == B(id)
             y == O(id)
             z == T(id)
             w == ItemAt(m, id)
  <2>1. IF MergedWithin(x, y, z) THEN w # Absent ELSE ~Clash(x, y, z) /\ w = Settled(x, y, z)
    BY <1>1 DEF Outcome
  <2>2. MergedWithin(x, y, z) => ProposalConflicts(x, w, z) = {}
    <3> SUFFICES ASSUME MergedWithin(x, y, z) PROVE ProposalConflicts(x, w, z) = {}
      OBVIOUS
    <3>1. ProposalConflicts(x, y, z) = {} /\ w = MergeProposal(x, y, z)
      BY <1>1 DEF Outcome
    <3>2. x # Absent /\ y # Absent /\ z # Absent
      BY DEF MergedWithin
    <3>3. IsObject(kind, x) /\ IsObject(kind, y) /\ IsObject(kind, z)
      BY <3>2, IndexedFacts
    <3> HIDE DEF x, y, z, w
    <3> QED
      BY <3>1, <3>3, ProposalRetry
  <2> HIDE DEF x, y, z, w
  <2>3. ~WholeConflict(x, w, z) /\ (MergedWithin(x, w, z) => MergedWithin(x, y, z))
    BY <2>1, ObjectAtRetry
  <2>4. Found(id) = IF MergedWithin(x, w, z) THEN ProposalConflicts(x, w, z)
                    ELSE IF WholeConflict(x, w, z) THEN {<<>>} ELSE {}
    BY DEF x, z, w
  <2> QED
    BY <2>2, <2>3, <2>4
<1>3. \A id \in all : found[id] = {}
  BY <1>2
<1>4. IndexedListConflicts(b, m, t, ProposalConflicts) = AllBeneath(all, found)
  BY DEF IndexedListConflicts, AllBeneath
<1> HIDE DEF found, all
<1> QED
  BY <1>3, <1>4, NoneBeneath DEF m

\* A term merged again has no conflict.
LEMMA TermRetry ==
    ASSUME AbsentIsNoObject, NEW kinds, NEW b, NEW o, NEW t,
           IsTerm(kinds, b), IsTerm(kinds, o), IsTerm(kinds, t),
           TermConflicts(b, o, t) = {}
    PROVE  TermConflicts(b, MergeTerm(b, o, t), t) = {}
<1> DEFINE n == MergeProposal(b, o, t)
           m == MergeTerm(b, o, t)
           aliases == MergeIndexedList(b.aliases, o.aliases, t.aliases, MergeObject)
           within == IndexedListConflicts(b.aliases, o.aliases, t.aliases, ObjectConflicts)
           again == IndexedListConflicts(b.aliases, m.aliases, t.aliases, ObjectConflicts)
<1>1. ProposalConflicts(b, o, t) = {} /\ within = {}
  <2>1. ProposalConflicts(b, o, t) = {} /\ Beneath(<<"aliases">>, within) = {}
    BY DEF TermConflicts
  <2> HIDE DEF within
  <2> QED
    BY <2>1 DEF Beneath
<1>2. DOMAIN n = DOMAIN b /\ n.aliases = b.aliases
  BY <1>1, ProposalKeepsBothEdits DEF IsTerm
<1>3. m = [n EXCEPT !.aliases = aliases]
  BY <1>2 DEF MergeTerm
<1>4. "aliases" \in DOMAIN n /\ {"id", "fields", "lists", "metadata", "evidence"} \subseteq DOMAIN n
  BY <1>2 DEF IsTerm, IsObject
<1>5. /\ m.fields = n.fields /\ m.metadata = n.metadata /\ m.evidence = n.evidence
      /\ m.aliases = aliases
  <2> HIDE DEF n, m, aliases
  <2> QED
    BY <1>3, <1>4
<1>6. ProposalConflicts(b, m, t) = {}
  <2> HIDE DEF m
  <2> QED
    BY <1>1, <1>5, ProposalPartsRetry DEF IsTerm
<1>7. again = {}
  <2>1. /\ Indexed(b.aliases) /\ Indexed(o.aliases) /\ Indexed(t.aliases)
        /\ \A x \in ToSet(b.aliases) \cup ToSet(o.aliases) \cup ToSet(t.aliases) :
              IsPlain(kinds.aliases, x)
    BY DEF IsTerm
  <2>2. IndexedListConflicts(b.aliases, o.aliases, t.aliases, ObjectConflicts) = {}
    BY <1>1
  <2>3. IndexedListConflicts(b.aliases, aliases, t.aliases, ObjectConflicts) = {}
    BY <2>1, <2>2, PlainListRetry
  <2> QED
    BY <1>5, <2>3
<1>8. TermConflicts(b, m, t) = ProposalConflicts(b, m, t) \cup Beneath(<<"aliases">>, again)
  BY DEF TermConflicts
<1> HIDE DEF again
<1>9. Beneath(<<"aliases">>, again) = {}
  BY <1>7 DEF Beneath
<1> HIDE DEF m
<1>10. TermConflicts(b, m, t) = {}
  BY <1>6, <1>8, <1>9
<1> QED
  BY <1>10 DEF m

\* What a merged list has under every id.
LEMMA TermListAt ==
    ASSUME AbsentIsNoObject, NEW kinds, NEW b, NEW o, NEW t,
           Indexed(b), Indexed(o), Indexed(t),
           \A x \in ToSet(b) \cup ToSet(o) \cup ToSet(t) : IsTerm(kinds, x),
           IndexedListConflicts(b, o, t, TermConflicts) = {}
    PROVE  \A id : Outcome(ItemAt(b, id), ItemAt(o, id), ItemAt(t, id),
                           ItemAt(MergeIndexedList(b, o, t, MergeTerm), id),
                           MergeTerm(ItemAt(b, id), ItemAt(o, id), ItemAt(t, id)),
                           TermConflicts(ItemAt(b, id), ItemAt(o, id), ItemAt(t, id)))
<1> DEFINE keys == Keys(b, o, t)
           ids == OrderedKeys(b, o, t)
           B(id) == ItemAt(b, id)
           O(id) == ItemAt(o, id)
           T(id) == ItemAt(t, id)
           item == [id \in keys |-> IF MergedWithin(B(id), O(id), T(id))
                                    THEN MergeTerm(B(id), O(id), T(id))
                                    ELSE Settled(B(id), O(id), T(id))]
           m == Listed(ids, item)
<1>1. ids \in Seq(keys) /\ ToSet(ids) = keys /\ NoRepeats(ids)
  BY OrderedKeysFacts DEF Indexed
<1>2. MergeIndexedList(b, o, t, MergeTerm) = m
  BY <1>1 DEF MergeIndexedList
<1>3. ASSUME NEW id \in keys
      PROVE  IF MergedWithin(B(id), O(id), T(id))
             THEN TermConflicts(B(id), O(id), T(id)) = {}
             ELSE ~Clash(B(id), O(id), T(id))
  <2> DEFINE within == TermConflicts(B(id), O(id), T(id))
             found == IF MergedWithin(B(id), O(id), T(id)) THEN within
                      ELSE IF WholeConflict(B(id), O(id), T(id)) THEN {<<>>} ELSE {}
  <2>1. Beneath(<<id>>, found) = {}
    BY DEF IndexedListConflicts, Keys
  <2> HIDE DEF within
  <2>2. found = {}
    <3> HIDE DEF found
    <3> QED
      BY <2>1 DEF Beneath
  <2>3. IF MergedWithin(B(id), O(id), T(id)) THEN within = {}
        ELSE ~WholeConflict(B(id), O(id), T(id))
    BY <2>2
  <2> QED
    BY <2>3 DEF within, WholeConflict
<1>4. ASSUME NEW l \in {b, o, t}, NEW id, ItemAt(l, id) # Absent
      PROVE  /\ ItemAt(l, id) \in ToSet(l)
             /\ ItemAt(l, id).id = id
             /\ "id" \in DOMAIN ItemAt(l, id)
  <2>1. Indexed(l)
    OBVIOUS
  <2>2. ItemAt(l, id) \in ToSet(l) /\ ItemAt(l, id).id = id
    BY <1>4, <2>1, IndexedFacts
  <2> QED
    BY <2>1, <2>2 DEF Indexed
<1>5. ASSUME NEW id \in keys, MergedWithin(B(id), O(id), T(id))
      PROVE  /\ item[id].id = id /\ "id" \in DOMAIN item[id] /\ item[id] # Absent
  <2>1. B(id) # Absent /\ O(id) # Absent /\ T(id) # Absent
    BY <1>5 DEF MergedWithin
  <2>2. /\ B(id) \in ToSet(b) /\ B(id).id = id
        /\ O(id) \in ToSet(o) /\ T(id) \in ToSet(t)
    BY <1>4, <2>1
  <2>3. TermConflicts(B(id), O(id), T(id)) = {}
    BY <1>3, <1>5
  <2> DEFINE x == B(id)
             y == O(id)
             z == T(id)
  <2>4. item[id] = MergeTerm(x, y, z)
    BY <1>5
  <2>5. IsTerm(kinds, x) /\ IsTerm(kinds, y) /\ IsTerm(kinds, z)
    BY <2>2
  <2> HIDE DEF x, y, z
  <2> DEFINE w == MergeTerm(x, y, z)
  <2>6. TermConflicts(x, y, z) = {}
    BY <2>3 DEF x, y, z
  <2>7. IsTerm(kinds, w) /\ w.id = x.id
    BY <2>5, <2>6, TermKeepsBothEdits
  <2> HIDE DEF w
  <2>9. "id" \in DOMAIN w
    BY <2>7 DEF IsTerm, IsObject
  <2>10. w.id = id /\ w # Absent
    BY <2>2, <2>7, <2>9 DEF x, AbsentIsNoObject
  <2>11. item[id] = w
    BY <2>4 DEF w
  <2> QED
    BY <2>9, <2>10, <2>11 DEF x
<1>6. ASSUME NEW id \in keys, ~MergedWithin(B(id), O(id), T(id))
      PROVE  item[id] = Settled(B(id), O(id), T(id))
  BY <1>6
<1>7. DOMAIN item = keys
  OBVIOUS
<1> HIDE DEF item
<1>8. ASSUME NEW id \in keys, item[id] # Absent
      PROVE  item[id].id = id /\ "id" \in DOMAIN item[id]
  <2>1. CASE MergedWithin(B(id), O(id), T(id))
    BY <1>5, <2>1
  <2>2. CASE ~MergedWithin(B(id), O(id), T(id))
    <3>1. item[id] = O(id) \/ item[id] = T(id)
      BY <1>6, <2>2 DEF Settled
    <3> QED
      BY <1>4, <1>8, <3>1
  <2> QED
    BY <2>1, <2>2
<1>9. /\ \A id \in keys : ItemAt(m, id) = item[id]
      /\ \A id : id \notin keys => ItemAt(m, id) = Absent
  <2> HIDE DEF keys, ids
  <2> QED
    BY <1>1, <1>7, <1>8, ListedFacts
<1> HIDE DEF m
<1>10. ASSUME NEW id \in keys, MergedWithin(B(id), O(id), T(id))
       PROVE  item[id] = MergeTerm(B(id), O(id), T(id))
  BY <1>10 DEF item
<1>11. ASSUME NEW id, id \notin keys
       PROVE  B(id) = Absent /\ O(id) = Absent /\ T(id) = Absent
  BY <1>11, IndexedFacts DEF Keys
<1> HIDE DEF keys
<1>12. ASSUME NEW id
       PROVE  Outcome(B(id), O(id), T(id), ItemAt(m, id), MergeTerm(B(id), O(id), T(id)),
                      TermConflicts(B(id), O(id), T(id)))
  <2>1. CASE id \notin keys
    BY <1>9, <1>11, <2>1 DEF MergedWithin, Clash, Settled, Outcome
  <2>2. CASE id \in keys /\ MergedWithin(B(id), O(id), T(id))
    BY <1>3, <1>5, <1>9, <1>10, <2>2 DEF Outcome
  <2>3. CASE id \in keys /\ ~MergedWithin(B(id), O(id), T(id))
    BY <1>3, <1>6, <1>9, <2>3 DEF Outcome
  <2> QED
    BY <2>1, <2>2, <2>3
<1> QED
  BY <1>2, <1>12

\* Nor has a list of terms.
LEMMA TermListRetry ==
    ASSUME AbsentIsNoObject, NEW kinds, NEW b, NEW o, NEW t,
           Indexed(b), Indexed(o), Indexed(t),
           \A x \in ToSet(b) \cup ToSet(o) \cup ToSet(t) : IsTerm(kinds, x),
           IndexedListConflicts(b, o, t, TermConflicts) = {}
    PROVE  IndexedListConflicts(b, MergeIndexedList(b, o, t, MergeTerm),
                                t, TermConflicts) = {}
<1> DEFINE m == MergeIndexedList(b, o, t, MergeTerm)
           B(id) == ItemAt(b, id)
           O(id) == ItemAt(o, id)
           T(id) == ItemAt(t, id)
           all == Ids(b) \cup Ids(m) \cup Ids(t)
           Found(id) == IF MergedWithin(B(id), ItemAt(m, id), T(id))
                        THEN TermConflicts(B(id), ItemAt(m, id), T(id))
                        ELSE IF WholeConflict(B(id), ItemAt(m, id), T(id)) THEN {<<>>} ELSE {}
           found == [id \in all |-> Found(id)]
<1>1. \A id : Outcome(B(id), O(id), T(id), ItemAt(m, id), MergeTerm(B(id), O(id), T(id)),
                      TermConflicts(B(id), O(id), T(id)))
  BY TermListAt
<1> HIDE DEF m
<1>2. ASSUME NEW id
      PROVE  Found(id) = {}
  <2> DEFINE x == B(id)
             y == O(id)
             z == T(id)
             w == ItemAt(m, id)
  <2>1. IF MergedWithin(x, y, z) THEN w # Absent ELSE ~Clash(x, y, z) /\ w = Settled(x, y, z)
    BY <1>1 DEF Outcome
  <2>2. MergedWithin(x, y, z) => TermConflicts(x, w, z) = {}
    <3> SUFFICES ASSUME MergedWithin(x, y, z) PROVE TermConflicts(x, w, z) = {}
      OBVIOUS
    <3>1. TermConflicts(x, y, z) = {} /\ w = MergeTerm(x, y, z)
      BY <1>1 DEF Outcome
    <3>2. x # Absent /\ y # Absent /\ z # Absent
      BY DEF MergedWithin
    <3>3. IsTerm(kinds, x) /\ IsTerm(kinds, y) /\ IsTerm(kinds, z)
      BY <3>2, IndexedFacts
    <3> HIDE DEF x, y, z, w
    <3> QED
      BY <3>1, <3>3, TermRetry
  <2> HIDE DEF x, y, z, w
  <2>3. ~WholeConflict(x, w, z) /\ (MergedWithin(x, w, z) => MergedWithin(x, y, z))
    BY <2>1, ObjectAtRetry
  <2>4. Found(id) = IF MergedWithin(x, w, z) THEN TermConflicts(x, w, z)
                    ELSE IF WholeConflict(x, w, z) THEN {<<>>} ELSE {}
    BY DEF x, z, w
  <2> QED
    BY <2>2, <2>3, <2>4
<1>3. \A id \in all : found[id] = {}
  BY <1>2
<1>4. IndexedListConflicts(b, m, t, TermConflicts) = AllBeneath(all, found)
  BY DEF IndexedListConflicts, AllBeneath
<1> HIDE DEF found, all
<1> QED
  BY <1>3, <1>4, NoneBeneath DEF m

\* A merge of lexicons, merged again.
LEMMA PayloadRetry ==
    ASSUME AbsentIsNoObject, NEW kinds, NEW b, NEW o, NEW t,
           WellFormed(kinds, b), WellFormed(kinds, o), WellFormed(kinds, t),
           Conflicts(b, o, t) = {}
    PROVE  Conflicts(b, MergedPayload(b, o, t), t) = {}
<1> DEFINE m == MergedPayload(b, o, t)
           metadata == MappingConflicts(b.metadata, o.metadata, t.metadata)
           scopes == IndexedListConflicts(b.scopes, o.scopes, t.scopes, ObjectConflicts)
           terms == IndexedListConflicts(b.terms, o.terms, t.terms, TermConflicts)
           proposals == IndexedListConflicts(b.proposals, o.proposals, t.proposals,
                                             ProposalConflicts)
<1>1. metadata = {} /\ scopes = {} /\ terms = {} /\ proposals = {}
  <2>1. /\ Beneath(<<"metadata">>, metadata) = {} /\ Beneath(<<"scopes">>, scopes) = {}
        /\ Beneath(<<"terms">>, terms) = {} /\ Beneath(<<"proposals">>, proposals) = {}
    BY DEF Conflicts
  <2> HIDE DEF metadata, scopes, terms, proposals
  <2> QED
    BY <2>1 DEF Beneath
<1>2. /\ m.metadata = MergeMapping(b.metadata, o.metadata, t.metadata)
      /\ m.scopes = MergeIndexedList(b.scopes, o.scopes, t.scopes, MergeObject)
      /\ m.terms = MergeIndexedList(b.terms, o.terms, t.terms, MergeTerm)
      /\ m.proposals = MergeIndexedList(b.proposals, o.proposals, t.proposals, MergeProposal)
  BY DEF MergedPayload
<1>3. /\ Indexed(b.scopes) /\ Indexed(o.scopes) /\ Indexed(t.scopes)
      /\ Indexed(b.terms) /\ Indexed(o.terms) /\ Indexed(t.terms)
      /\ Indexed(b.proposals) /\ Indexed(o.proposals) /\ Indexed(t.proposals)
  BY DEF WellFormed, Sections
<1> HIDE DEF m
<1> DEFINE metadata2 == MappingConflicts(b.metadata, m.metadata, t.metadata)
           scopes2 == IndexedListConflicts(b.scopes, m.scopes, t.scopes, ObjectConflicts)
           terms2 == IndexedListConflicts(b.terms, m.terms, t.terms, TermConflicts)
           proposals2 == IndexedListConflicts(b.proposals, m.proposals, t.proposals,
                                              ProposalConflicts)
<1>4. metadata2 = {}
  BY <1>1, <1>2, MappingRetry
<1>5. scopes2 = {}
  <2>1. \A x \in ToSet(b.scopes) \cup ToSet(o.scopes) \cup ToSet(t.scopes) :
            IsPlain(kinds.scopes, x)
    BY DEF WellFormed
  <2>2. IndexedListConflicts(b.scopes, o.scopes, t.scopes, ObjectConflicts) = {}
    BY <1>1
  <2>3. IndexedListConflicts(b.scopes,
                             MergeIndexedList(b.scopes, o.scopes, t.scopes, MergeObject),
                             t.scopes, ObjectConflicts) = {}
    BY <1>3, <2>1, <2>2, PlainListRetry
  <2> QED
    BY <1>2, <2>3
<1>6. terms2 = {}
  <2>1. \A x \in ToSet(b.terms) \cup ToSet(o.terms) \cup ToSet(t.terms) : IsTerm(kinds, x)
    BY DEF WellFormed
  <2>2. IndexedListConflicts(b.terms, o.terms, t.terms, TermConflicts) = {}
    BY <1>1
  <2>3. IndexedListConflicts(b.terms, MergeIndexedList(b.terms, o.terms, t.terms, MergeTerm),
                             t.terms, TermConflicts) = {}
    BY <1>3, <2>1, <2>2, TermListRetry
  <2> QED
    BY <1>2, <2>3
<1>7. proposals2 = {}
  <2>1. \A x \in ToSet(b.proposals) \cup ToSet(o.proposals) \cup ToSet(t.proposals) :
            IsObject(kinds.proposals, x)
    BY DEF WellFormed
  <2>2. IndexedListConflicts(b.proposals, o.proposals, t.proposals, ProposalConflicts) = {}
    BY <1>1
  <2>3. IndexedListConflicts(b.proposals,
                             MergeIndexedList(b.proposals, o.proposals, t.proposals,
                                              MergeProposal),
                             t.proposals, ProposalConflicts) = {}
    BY <1>3, <2>1, <2>2, ProposalListRetry
  <2> QED
    BY <1>2, <2>3
<1>8. Conflicts(b, m, t)
          = Beneath(<<"metadata">>, metadata2) \cup Beneath(<<"scopes">>, scopes2)
            \cup Beneath(<<"terms">>, terms2) \cup Beneath(<<"proposals">>, proposals2)
  BY DEF Conflicts
<1> HIDE DEF metadata2, scopes2, terms2, proposals2
<1>9. Conflicts(b, m, t) = {}
  BY <1>4, <1>5, <1>6, <1>7, <1>8 DEF Beneath
<1> QED
  BY <1>9 DEF m

\* RetryChangesNothing of every run: merging again what was merged, against the
\* same base, finds no conflict in any place and makes a lexicon that says the
\* same, for lexicons of any size.
THEOREM RetriesChangeNothing ==
    ASSUME AbsentIsNoObject, NEW CONSTANT kinds, OfKinds(kinds)
    PROVE  Spec => []RetryChangesNothing
<1>1. ASSUME MergeInv(kinds), report.merged # Absent
      PROVE  RetryChangesNothing
  <2> DEFINE o == branch["ours"]
             t == branch["theirs"]
             m == report.merged
  <2>1. report = Merged
    BY <1>1 DEF MergeInv, NoReport
  <2>2. Conflicts(base, o, t) = {} /\ m = MergedPayload(base, o, t)
    BY <1>1, <2>1 DEF Merged, MergeLexicons
  <2>3. WellFormed(kinds, base) /\ WellFormed(kinds, o) /\ WellFormed(kinds, t)
    BY <1>1 DEF MergeInv, Sides
  <2> HIDE DEF o, t, m
  <2>4. WellFormed(kinds, m) /\ Facts(m) = ThreeWay(Facts(base), Facts(o), Facts(t))
    BY <2>2, <2>3, PayloadKeepsBothEdits
  <2>5. Conflicts(base, m, t) = {}
    BY <2>2, <2>3, PayloadRetry
  <2>6. Facts(MergedPayload(base, m, t)) = ThreeWay(Facts(base), Facts(m), Facts(t))
    BY <2>3, <2>4, <2>5, PayloadKeepsBothEdits
  <2>7. \A x, y, z : ThreeWay(x, ThreeWay(x, y, z), z) = ThreeWay(x, y, z)
    BY DEF ThreeWay
  <2> QED
    BY <2>4, <2>5, <2>6, <2>7 DEF RetryChangesNothing, t, m
<1>2. MergeInv(kinds) => RetryChangesNothing
  BY <1>1 DEF RetryChangesNothing
<1> QED
  BY <1>2, MergesInv, PTL

-----------------------------------------------------------------------------
(* Places that were touched, seen from a part of a lexicon.                *)

\* The touched places T as they are seen from under k: what was touched as a whole
\* was touched in every part of it.
Tails(T, k) ==
    {p \in {Tail(q) : q \in T} : IsList(p) /\ <<k>> \o p \in T}
    \cup (IF <<>> \in T THEN {<<>>} ELSE {})

LEMMA EmptyIsList == IsList(<<>>)
BY EmptySeq DEF IsList

\* A path and a step before it.
LEMMA Step ==
    ASSUME NEW k, NEW p, IsList(p)
    PROVE  /\ IsList(<<k>> \o p) /\ Tail(<<k>> \o p) = p
           /\ Len(<<k>> \o p) = Len(p) + 1 /\ Len(p) \in Nat
           /\ (<<k>> \o p)[1] = k
           /\ \A i \in 1..Len(p) : (<<k>> \o p)[i + 1] = p[i]
<1> DEFINE S == ToSet(p) \cup {k}
           q == <<k>> \o p
<1>1. p \in Seq(S) /\ <<k>> \in Seq(S) /\ Len(<<k>>) = 1 /\ <<k>>[1] = k
  BY SeqMonotonic DEF IsList
<1> HIDE DEF S
<1>2. Len(p) \in Nat /\ DOMAIN p = 1..Len(p)
  BY <1>1, LenProperties
<1>3. /\ q \in Seq(S) /\ Len(q) = 1 + Len(p)
      /\ \A i \in 1..Len(q) : q[i] = IF i <= 1 THEN <<k>>[i] ELSE p[i - 1]
  BY <1>1, ConcatProperties
<1> HIDE DEF q
<1>4. q[1] = k /\ \A i \in 1..Len(p) : q[i + 1] = p[i]
  <2>1. q[1] = k
    BY <1>1, <1>2, <1>3
  <2>2. ASSUME NEW i \in 1..Len(p) PROVE q[i + 1] = p[i]
    <3>1. i + 1 \in 1..Len(q) /\ ~(i + 1 <= 1) /\ (i + 1) - 1 = i
      BY <1>2, <1>3
    <3> QED BY <1>3, <3>1
  <2> QED BY <2>1, <2>2
<1>5. q # <<>>
  BY <1>2, <1>3
<1>6. Tail(q) \in Seq(S) /\ Len(Tail(q)) = Len(p)
      /\ \A i \in 1..Len(p) : Tail(q)[i] = q[i + 1]
  BY <1>2, <1>3, <1>5, HeadTailProperties
<1>7. Tail(q) = p
  BY <1>1, <1>2, <1>4, <1>6, SeqEqual
<1>8. IsList(q)
  BY <1>3, ListOfAny
<1> QED
  BY <1>2, <1>3, <1>4, <1>7, <1>8 DEF q

\* The same step before two paths.
LEMMA PrefixStep ==
    ASSUME NEW k, NEW p, NEW c, IsList(p), IsList(c), IsPrefix(p, c)
    PROVE  IsPrefix(<<k>> \o p, <<k>> \o c)
<1> DEFINE p2 == <<k>> \o p
           c2 == <<k>> \o c
           n == Len(p)
<1>1. /\ Len(p2) = n + 1 /\ n \in Nat /\ p2[1] = k /\ \A i \in 1..n : p2[i + 1] = p[i]
      /\ Len(c2) = Len(c) + 1 /\ Len(c) \in Nat /\ c2[1] = k
      /\ \A i \in 1..Len(c) : c2[i + 1] = c[i]
  BY Step
<1>2. n <= Len(c) /\ SubSeq(p, 1, n) = SubSeq(c, 1, n)
  BY DEF IsPrefix
<1>3. \A i \in 1..n : p[i] = c[i]
  <2>1. \A i \in 1..n : SubSeq(p, 1, n)[i] = p[i] /\ SubSeq(c, 1, n)[i] = c[i]
    BY <1>1, <1>2
  <2> QED BY <1>2, <2>1
<1> HIDE DEF p2, c2, n
<1>4. \A i \in 1..(n + 1) : p2[i] = c2[i]
  <2>1. ASSUME NEW i \in 1..(n + 1) PROVE p2[i] = c2[i]
    <3>1. CASE i = 1
      BY <1>1, <3>1
    <3>2. CASE i # 1
      <4>1. i - 1 \in 1..n /\ (i - 1) + 1 = i /\ i - 1 \in 1..Len(c)
        BY <1>1, <1>2, <3>2
      <4> DEFINE j == i - 1
      <4>2. p2[j + 1] = p[j] /\ c2[j + 1] = c[j] /\ p[j] = c[j]
        BY <1>1, <1>3, <4>1
      <4> QED BY <4>1, <4>2
    <3> QED BY <3>1, <3>2
  <2> QED BY <2>1
<1>5. n + 1 <= Len(c) + 1
  BY <1>1, <1>2
<1>6. SubSeq(p2, 1, n + 1) = SubSeq(c2, 1, n + 1)
  BY <1>1, <1>4
<1> QED
  BY <1>1, <1>5, <1>6 DEF IsPrefix, p2, c2

LEMMA EmptyPrefix ==
    ASSUME NEW c, IsList(c)
    PROVE  IsPrefix(<<>>, c)
<1>1. c \in Seq(ToSet(c)) /\ Len(c) \in Nat
  BY LenProperties DEF IsList
<1> QED
  BY <1>1 DEF IsPrefix

\* What is touched under k, and what a touched part says of the whole.
LEMMA TailsFacts ==
    ASSUME NEW T, NEW k
    PROVE  /\ \A p : IsList(p) /\ <<k>> \o p \in T => p \in Tails(T, k)
           /\ <<k>> \in T => <<>> \in Tails(T, k)
           /\ <<>> \in T => <<>> \in Tails(T, k)
           /\ \A p \in Tails(T, k) : IsList(p) /\ (<<k>> \o p \in T \/ (p = <<>> /\ <<>> \in T))
           /\ \A U : T \subseteq U => Tails(T, k) \subseteq Tails(U, k)
<1>1. \A p : IsList(p) /\ <<k>> \o p \in T => p \in Tails(T, k)
  BY Step DEF Tails
<1>2. <<k>> \o <<>> = <<k>>
  OBVIOUS
<1>3. <<k>> \in T => <<>> \in Tails(T, k)
  BY <1>1, <1>2, EmptyIsList
<1>4. <<>> \in T => <<>> \in Tails(T, k)
  BY DEF Tails
<1>5. \A p \in Tails(T, k) : IsList(p) /\ (<<k>> \o p \in T \/ (p = <<>> /\ <<>> \in T))
  BY EmptyIsList DEF Tails
<1>6. ASSUME NEW U, T \subseteq U PROVE Tails(T, k) \subseteq Tails(U, k)
  BY <1>6 DEF Tails
<1> QED
  BY <1>1, <1>3, <1>4, <1>5, <1>6

\* A touched place in a part, seen from that part.
LEMMA TailIsIn ==
    ASSUME NEW T, NEW k, NEW p, IsList(p), <<k>> \o p \in T
    PROVE  p \in Tails(T, k)
BY TailsFacts

-----------------------------------------------------------------------------
(* Edits on both sides that compete at a place.                            *)

\* A touched place is c or what it is in; or it is in c.
Over(T, c) == \E p \in T : IsList(p) /\ IsPrefix(p, c)
Near(T, c) == \E p \in T : IsList(p) /\ (IsPrefix(p, c) \/ IsPrefix(c, p))

Competes(T, U, c) ==
    IsList(c) /\ ((Over(T, c) /\ Near(U, c)) \/ (Over(U, c) /\ Near(T, c)))

LEMMA OverStep ==
    ASSUME NEW T, NEW k, NEW c, IsList(c)
    PROVE  /\ Over(Tails(T, k), c) => Over(T, <<k>> \o c)
           /\ Near(Tails(T, k), c) => Near(T, <<k>> \o c)
<1> DEFINE d == <<k>> \o c
<1>0. IsList(d)
  BY Step
<1>1. ASSUME NEW p \in Tails(T, k)
      PROVE  \E q \in T : /\ IsList(q)
                          /\ IsPrefix(p, c) => IsPrefix(q, d)
                          /\ IsPrefix(c, p) => IsPrefix(q, d) \/ IsPrefix(d, q)
  <2>1. IsList(p)
    BY TailsFacts
  <2>2. CASE <<k>> \o p \in T
    <3> DEFINE q == <<k>> \o p
    <3>1. IsList(q)
      BY <2>1, Step
    <3>2. IsPrefix(p, c) => IsPrefix(q, d)
      BY <2>1, PrefixStep
    <3>3. IsPrefix(c, p) => IsPrefix(d, q)
      BY <2>1, PrefixStep
    <3> HIDE DEF d, q
    <3> QED BY <2>2, <3>1, <3>2, <3>3 DEF q
  <2>3. CASE p = <<>> /\ <<>> \in T
    <3> HIDE DEF d
    <3>1. IsPrefix(<<>>, d)
      BY <1>0, EmptyPrefix
    <3> QED BY <2>3, <3>1, EmptyIsList
  <2> QED BY <2>2, <2>3, TailsFacts
<1> HIDE DEF d
<1>2. Over(Tails(T, k), c) => Over(T, d)
  BY <1>1 DEF Over
<1>3. Near(Tails(T, k), c) => Near(T, d)
  BY <1>1 DEF Near
<1> QED
  BY <1>2, <1>3 DEF d

\* Edits that compete in a part compete there in the whole.
LEMMA CompetesBeneath ==
    ASSUME NEW T, NEW U, NEW k, NEW C, \A c \in C : Competes(Tails(T, k), Tails(U, k), c)
    PROVE  \A c \in Beneath(<<k>>, C) : Competes(T, U, c)
<1>1. ASSUME NEW c \in C PROVE Competes(T, U, <<k>> \o c)
  <2>1. IsList(c) /\ Competes(Tails(T, k), Tails(U, k), c)
    BY DEF Competes
  <2>2. IsList(<<k>> \o c)
    BY <2>1, Step
  <2> DEFINE d == <<k>> \o c
  <2>3. /\ Over(Tails(T, k), c) => Over(T, d)
        /\ Near(Tails(T, k), c) => Near(T, d)
        /\ Over(Tails(U, k), c) => Over(U, d)
        /\ Near(Tails(U, k), c) => Near(U, d)
    BY <2>1, OverStep
  <2> QED BY <2>1, <2>2, <2>3 DEF Competes
<1> QED BY <1>1 DEF Beneath

\* Edits compete at the whole when one side touched it as a whole.
LEMMA CompetesAtWhole ==
    ASSUME NEW T, NEW U,
           \/ <<>> \in T /\ \E p \in U : IsList(p)
           \/ <<>> \in U /\ \E p \in T : IsList(p)
    PROVE  Competes(T, U, <<>>)
<1>1. \A S : <<>> \in S => Over(S, <<>>)
  BY EmptyIsList, EmptyPrefix DEF Over
<1>2. \A S : (\E p \in S : IsList(p)) => Near(S, <<>>)
  BY EmptyPrefix DEF Near
<1> QED BY <1>1, <1>2, EmptyIsList DEF Competes

-----------------------------------------------------------------------------
(* Every difference is touched.  T holds what was touched, seen from the   *)
(* place where before became after.                                        *)

CoversMap(T, before, after) ==
    \A k : ValueAt(before, k) # ValueAt(after, k) => <<>> \in Tails(T, k)

CoversEvidence(T, before, after) ==
    \A id : ItemAt(before, id) # ItemAt(after, id) => <<>> \in Tails(T, id)

\* The parts of an object that a merge can find in conflict.
CoversParts(T, before, after) ==
    /\ CoversMap(T, before.fields, after.fields)
    /\ CoversMap(Tails(T, "metadata"), before.metadata, after.metadata)
    /\ CoversEvidence(Tails(T, "evidence"), before.evidence, after.evidence)

\* Some place was touched, and all of it where there was nothing, or is nothing now.
Touches(T, before, after) ==
    /\ before # after => \E p \in T : IsList(p)
    /\ Absent \in {before, after} /\ before # after => <<>> \in T

CoversObject(T, before, after) ==
    /\ Touches(T, before, after)
    /\ Absent \notin {before, after} => CoversParts(T, before, after)

CoversObjects(T, before, after) ==
    \A id : CoversObject(Tails(T, id), ItemAt(before, id), ItemAt(after, id))

CoversTerm(T, before, after) ==
    /\ CoversObject(T, before, after)
    /\ Absent \notin {before, after} =>
           CoversObjects(Tails(T, "aliases"), before.aliases, after.aliases)

CoversTerms(T, before, after) ==
    \A id : CoversTerm(Tails(T, id), ItemAt(before, id), ItemAt(after, id))

CoversLexicon(T, before, after) ==
    /\ CoversMap(Tails(T, "metadata"), before.metadata, after.metadata)
    /\ CoversObjects(Tails(T, "scopes"), before.scopes, after.scopes)
    /\ CoversTerms(Tails(T, "terms"), before.terms, after.terms)
    /\ CoversObjects(Tails(T, "proposals"), before.proposals, after.proposals)

\* Of each kind of part: nothing changes where nothing does, more may be touched,
\* one change follows another, and all is touched where the whole is.
LEMMA MapCovered ==
    ASSUME NEW T, NEW x, NEW y
    PROVE  /\ CoversMap(T, x, x)
           /\ \A U : T \subseteq U /\ CoversMap(T, x, y) => CoversMap(U, x, y)
           /\ \A z : CoversMap(T, x, y) /\ CoversMap(T, y, z) => CoversMap(T, x, z)
           /\ <<>> \in T => CoversMap(T, x, y)
<1>1. \A k, U : T \subseteq U => Tails(T, k) \subseteq Tails(U, k)
  BY TailsFacts
<1>2. <<>> \in T => \A k : <<>> \in Tails(T, k)
  BY TailsFacts
<1> QED BY <1>1, <1>2 DEF CoversMap

LEMMA EvidenceCovered ==
    ASSUME NEW T, NEW x, NEW y
    PROVE  /\ CoversEvidence(T, x, x)
           /\ \A U : T \subseteq U /\ CoversEvidence(T, x, y) => CoversEvidence(U, x, y)
           /\ \A z : CoversEvidence(T, x, y) /\ CoversEvidence(T, y, z) => CoversEvidence(T, x, z)
           /\ <<>> \in T => CoversEvidence(T, x, y)
<1>1. \A k, U : T \subseteq U => Tails(T, k) \subseteq Tails(U, k)
  BY TailsFacts
<1>2. <<>> \in T => \A k : <<>> \in Tails(T, k)
  BY TailsFacts
<1> QED BY <1>1, <1>2 DEF CoversEvidence

LEMMA PartsCovered ==
    ASSUME NEW T, NEW x, NEW y
    PROVE  /\ CoversParts(T, x, x)
           /\ \A U : T \subseteq U /\ CoversParts(T, x, y) => CoversParts(U, x, y)
           /\ \A z : CoversParts(T, x, y) /\ CoversParts(T, y, z) => CoversParts(T, x, z)
           /\ <<>> \in T => CoversParts(T, x, y)
<1>1. \A k, U : T \subseteq U => Tails(T, k) \subseteq Tails(U, k)
  BY TailsFacts
<1>2. <<>> \in T => \A k : <<>> \in Tails(T, k)
  BY TailsFacts
<1>3. CoversParts(T, x, x)
  BY MapCovered, EvidenceCovered DEF CoversParts
<1>4. ASSUME NEW U, T \subseteq U, CoversParts(T, x, y) PROVE CoversParts(U, x, y)
  <2>1. /\ Tails(T, "metadata") \subseteq Tails(U, "metadata")
        /\ Tails(T, "evidence") \subseteq Tails(U, "evidence")
    BY <1>1, <1>4
  <2> QED BY <1>4, <2>1, MapCovered, EvidenceCovered DEF CoversParts
<1>5. ASSUME NEW z, CoversParts(T, x, y), CoversParts(T, y, z) PROVE CoversParts(T, x, z)
  BY <1>5, MapCovered, EvidenceCovered DEF CoversParts
<1>6. ASSUME <<>> \in T PROVE CoversParts(T, x, y)
  BY <1>2, <1>6, MapCovered, EvidenceCovered DEF CoversParts
<1> QED BY <1>3, <1>4, <1>5, <1>6

LEMMA TouchesFacts ==
    ASSUME NEW T, NEW x, NEW y
    PROVE  /\ Touches(T, x, x)
           /\ \A U : T \subseteq U /\ Touches(T, x, y) => Touches(U, x, y)
           /\ \A z : Touches(T, x, y) /\ Touches(T, y, z) => Touches(T, x, z)
           /\ <<>> \in T => Touches(T, x, y)
BY EmptyIsList DEF Touches

LEMMA ObjectCovered ==
    ASSUME NEW T, NEW x, NEW y
    PROVE  /\ CoversObject(T, x, x)
           /\ \A U : T \subseteq U /\ CoversObject(T, x, y) => CoversObject(U, x, y)
           /\ \A z : CoversObject(T, x, y) /\ CoversObject(T, y, z) => CoversObject(T, x, z)
           /\ <<>> \in T => CoversObject(T, x, y)
<1>1. CoversObject(T, x, x)
  BY TouchesFacts, PartsCovered DEF CoversObject
<1>2. ASSUME NEW U, T \subseteq U, CoversObject(T, x, y) PROVE CoversObject(U, x, y)
  BY <1>2, TouchesFacts, PartsCovered DEF CoversObject
<1>3. ASSUME <<>> \in T PROVE \A z : CoversObject(T, x, z)
  BY <1>3, TouchesFacts, PartsCovered DEF CoversObject
<1>4. ASSUME NEW z, CoversObject(T, x, y), CoversObject(T, y, z) PROVE CoversObject(T, x, z)
  <2>1. Touches(T, x, z) /\ Touches(T, x, y)
    BY <1>4, TouchesFacts DEF CoversObject
  <2>2. CASE y = Absent /\ x # Absent
    <3>1. <<>> \in T
      BY <2>1, <2>2 DEF Touches
    <3> QED BY <1>3, <3>1
  <2>3. CASE y # Absent \/ x = Absent
    <3>1. Absent \notin {x, z} => CoversParts(T, x, z)
      BY <1>4, <2>3, PartsCovered DEF CoversObject
    <3> QED BY <2>1, <3>1 DEF CoversObject
  <2> QED BY <2>2, <2>3
<1> QED BY <1>1, <1>2, <1>3, <1>4

LEMMA ObjectsCovered ==
    ASSUME NEW T, NEW x, NEW y
    PROVE  /\ CoversObjects(T, x, x)
           /\ \A U : T \subseteq U /\ CoversObjects(T, x, y) => CoversObjects(U, x, y)
           /\ \A z : CoversObjects(T, x, y) /\ CoversObjects(T, y, z) => CoversObjects(T, x, z)
           /\ <<>> \in T => CoversObjects(T, x, y)
<1>1. \A k, U : T \subseteq U => Tails(T, k) \subseteq Tails(U, k)
  BY TailsFacts
<1>2. <<>> \in T => \A k : <<>> \in Tails(T, k)
  BY TailsFacts
<1>3. CoversObjects(T, x, x)
  BY ObjectCovered DEF CoversObjects
<1>4. ASSUME NEW U, T \subseteq U, CoversObjects(T, x, y) PROVE CoversObjects(U, x, y)
  BY <1>1, <1>4, ObjectCovered DEF CoversObjects
<1>5. ASSUME NEW z, CoversObjects(T, x, y), CoversObjects(T, y, z) PROVE CoversObjects(T, x, z)
  BY <1>5, ObjectCovered DEF CoversObjects
<1>6. ASSUME <<>> \in T PROVE CoversObjects(T, x, y)
  BY <1>2, <1>6, ObjectCovered DEF CoversObjects
<1> QED BY <1>3, <1>4, <1>5, <1>6

LEMMA TermCovered ==
    ASSUME NEW T, NEW x, NEW y
    PROVE  /\ CoversTerm(T, x, x)
           /\ \A U : T \subseteq U /\ CoversTerm(T, x, y) => CoversTerm(U, x, y)
           /\ \A z : CoversTerm(T, x, y) /\ CoversTerm(T, y, z) => CoversTerm(T, x, z)
           /\ <<>> \in T => CoversTerm(T, x, y)
<1>1. \A U : T \subseteq U => Tails(T, "aliases") \subseteq Tails(U, "aliases")
  BY TailsFacts
<1>2. <<>> \in T => <<>> \in Tails(T, "aliases")
  BY TailsFacts
<1>3. CoversTerm(T, x, x)
  BY ObjectCovered, ObjectsCovered DEF CoversTerm
<1>4. ASSUME NEW U, T \subseteq U, CoversTerm(T, x, y) PROVE CoversTerm(U, x, y)
  BY <1>1, <1>4, ObjectCovered, ObjectsCovered DEF CoversTerm
<1>5. ASSUME <<>> \in T PROVE \A z : CoversTerm(T, x, z)
  BY <1>2, <1>5, ObjectCovered, ObjectsCovered DEF CoversTerm
<1>6. ASSUME NEW z, CoversTerm(T, x, y), CoversTerm(T, y, z) PROVE CoversTerm(T, x, z)
  <2>1. CoversObject(T, x, z) /\ CoversObject(T, x, y)
    BY <1>6, ObjectCovered DEF CoversTerm
  <2>2. CASE y = Absent /\ x # Absent
    <3>1. <<>> \in T
      BY <2>1, <2>2 DEF CoversObject, Touches
    <3> QED BY <1>5, <3>1
  <2>3. CASE y # Absent \/ x = Absent
    <3>1. Absent \notin {x, z} => CoversObjects(Tails(T, "aliases"), x.aliases, z.aliases)
      BY <1>6, <2>3, ObjectsCovered DEF CoversTerm
    <3> QED BY <2>1, <3>1 DEF CoversTerm
  <2> QED BY <2>2, <2>3
<1> QED BY <1>3, <1>4, <1>5, <1>6

LEMMA TermsCovered ==
    ASSUME NEW T, NEW x, NEW y
    PROVE  /\ CoversTerms(T, x, x)
           /\ \A U : T \subseteq U /\ CoversTerms(T, x, y) => CoversTerms(U, x, y)
           /\ \A z : CoversTerms(T, x, y) /\ CoversTerms(T, y, z) => CoversTerms(T, x, z)
<1>1. \A k, U : T \subseteq U => Tails(T, k) \subseteq Tails(U, k)
  BY TailsFacts
<1>2. CoversTerms(T, x, x)
  BY TermCovered DEF CoversTerms
<1>3. ASSUME NEW U, T \subseteq U, CoversTerms(T, x, y) PROVE CoversTerms(U, x, y)
  BY <1>1, <1>3, TermCovered DEF CoversTerms
<1>4. ASSUME NEW z, CoversTerms(T, x, y), CoversTerms(T, y, z) PROVE CoversTerms(T, x, z)
  BY <1>4, TermCovered DEF CoversTerms
<1> QED BY <1>2, <1>3, <1>4

LEMMA LexiconCovered ==
    ASSUME NEW T, NEW x, NEW y
    PROVE  /\ CoversLexicon(T, x, x)
           /\ \A U : T \subseteq U /\ CoversLexicon(T, x, y) => CoversLexicon(U, x, y)
           /\ \A z : CoversLexicon(T, x, y) /\ CoversLexicon(T, y, z) => CoversLexicon(T, x, z)
<1>1. \A k, U : T \subseteq U => Tails(T, k) \subseteq Tails(U, k)
  BY TailsFacts
<1>2. CoversLexicon(T, x, x)
  BY MapCovered, ObjectsCovered, TermsCovered DEF CoversLexicon
<1>3. ASSUME NEW U, T \subseteq U, CoversLexicon(T, x, y) PROVE CoversLexicon(U, x, y)
  BY <1>1, <1>3, MapCovered, ObjectsCovered, TermsCovered DEF CoversLexicon
<1>4. ASSUME NEW z, CoversLexicon(T, x, y), CoversLexicon(T, y, z) PROVE CoversLexicon(T, x, z)
  BY <1>4, MapCovered, ObjectsCovered, TermsCovered DEF CoversLexicon
<1> QED BY <1>2, <1>3, <1>4

-----------------------------------------------------------------------------
(* Where there is a conflict, edits compete.                               *)

\* Two values that clash both differ from the base.
LEMMA ValuesCompete ==
    ASSUME NEW T, NEW U, NEW k, NEW x, NEW y, NEW z, Clash(x, y, z),
           x # y => <<>> \in Tails(T, k), x # z => <<>> \in Tails(U, k)
    PROVE  Competes(T, U, <<k>>)
<1>1. Competes(Tails(T, k), Tails(U, k), <<>>)
  BY CompetesAtWhole, EmptyIsList DEF Clash
<1> DEFINE C == {<<>>}
<1>2. \A c \in C : Competes(Tails(T, k), Tails(U, k), c)
  BY <1>1
<1> HIDE DEF C
<1>3. \A c \in Beneath(<<k>>, C) : Competes(T, U, c)
  BY <1>2, CompetesBeneath
<1>4. <<k>> \in Beneath(<<k>>, C)
  <2>1. <<k>> \o <<>> = <<k>>
    OBVIOUS
  <2> QED BY <2>1 DEF Beneath, C
<1> QED BY <1>3, <1>4

LEMMA MapCompetes ==
    ASSUME NEW T, NEW U, NEW b, NEW o, NEW t, CoversMap(T, b, o), CoversMap(U, b, t)
    PROVE  \A c \in MappingConflicts(b, o, t) : Competes(T, U, c)
<1>1. ASSUME NEW k, Clash(ValueAt(b, k), ValueAt(o, k), ValueAt(t, k))
      PROVE  Competes(T, U, <<k>>)
  BY <1>1, ValuesCompete DEF CoversMap
<1> QED BY <1>1 DEF MappingConflicts

LEMMA FieldsCompete ==
    ASSUME NEW T, NEW U, NEW b, NEW o, NEW t, CoversMap(T, b, o), CoversMap(U, b, t),
           DOMAIN o = DOMAIN b, DOMAIN t = DOMAIN b
    PROVE  \A c \in {<<f>> : f \in {g \in DOMAIN b : Clash(b[g], o[g], t[g])}} :
               Competes(T, U, c)
<1>1. ASSUME NEW k \in DOMAIN b, Clash(b[k], o[k], t[k])
      PROVE  Competes(T, U, <<k>>)
  <2>1. ValueAt(b, k) = b[k] /\ ValueAt(o, k) = o[k] /\ ValueAt(t, k) = t[k]
    BY DEF ValueAt
  <2> QED BY <1>1, <2>1, ValuesCompete DEF CoversMap
<1> QED BY <1>1

LEMMA EvidenceCompetes ==
    ASSUME NEW T, NEW U, NEW b, NEW o, NEW t, CoversEvidence(T, b, o), CoversEvidence(U, b, t)
    PROVE  \A c \in IndexedListConflicts(b, o, t, EvidenceItemConflicts) : Competes(T, U, c)
<1> DEFINE Found(x, y, z) == IF MergedWithin(x, y, z) THEN EvidenceItemConflicts(x, y, z)
                             ELSE IF WholeConflict(x, y, z) THEN {<<>>} ELSE {}
<1>1. ASSUME NEW id
      PROVE  \A c \in Beneath(<<id>>, Found(ItemAt(b, id), ItemAt(o, id), ItemAt(t, id))) :
                 Competes(T, U, c)
  <2> DEFINE x == ItemAt(b, id)
             y == ItemAt(o, id)
             z == ItemAt(t, id)
  <2>1. (x # y => <<>> \in Tails(T, id)) /\ (x # z => <<>> \in Tails(U, id))
    BY DEF CoversEvidence
  <2> HIDE DEF x, y, z
  <2>2. ASSUME NEW c \in Found(x, y, z) PROVE Competes(Tails(T, id), Tails(U, id), c)
    <3>1. c = <<>> /\ Clash(x, y, z)
      BY DEF EvidenceItemConflicts, MergedWithin, WholeConflict
    <3>2. <<>> \in Tails(T, id) /\ <<>> \in Tails(U, id)
      BY <2>1, <3>1 DEF Clash
    <3>3. Competes(Tails(T, id), Tails(U, id), <<>>)
      BY <3>2, CompetesAtWhole, EmptyIsList
    <3> QED BY <3>1, <3>3
  <2> DEFINE C == Found(x, y, z)
  <2>3. \A c \in C : Competes(Tails(T, id), Tails(U, id), c)
    BY <2>2
  <2> HIDE DEF C
  <2>4. \A c \in Beneath(<<id>>, C) : Competes(T, U, c)
    BY <2>3, CompetesBeneath
  <2> QED BY <2>4 DEF C, x, y, z
<1> HIDE DEF Found
<1>2. IndexedListConflicts(b, o, t, EvidenceItemConflicts) =
          UNION {Beneath(<<id>>, Found(ItemAt(b, id), ItemAt(o, id), ItemAt(t, id))) :
                    id \in Ids(b) \cup Ids(o) \cup Ids(t)}
  BY DEF IndexedListConflicts, Found
<1> QED BY <1>1, <1>2

\* Within an object.
LEMMA PartsCompete ==
    ASSUME NEW T, NEW U, NEW kind, NEW b, NEW o, NEW t,
           IsObject(kind, b), IsObject(kind, o), IsObject(kind, t),
           CoversParts(T, b, o), CoversParts(U, b, t)
    PROVE  \A c \in ProposalConflicts(b, o, t) : Competes(T, U, c)
<1> DEFINE fields == {<<f>> : f \in {g \in DOMAIN b.fields :
                                        Clash(b.fields[g], o.fields[g], t.fields[g])}}
           metadata == MappingConflicts(b.metadata, o.metadata, t.metadata)
           evidence == IndexedListConflicts(b.evidence, o.evidence, t.evidence,
                                            EvidenceItemConflicts)
<1>1. \A c \in fields : Competes(T, U, c)
  <2>1. DOMAIN o.fields = DOMAIN b.fields /\ DOMAIN t.fields = DOMAIN b.fields
    BY DEF IsObject
  <2>2. CoversMap(T, b.fields, o.fields) /\ CoversMap(U, b.fields, t.fields)
    BY DEF CoversParts
  <2> DEFINE bf == b.fields
             of == o.fields
             tf == t.fields
  <2>3. DOMAIN of = DOMAIN bf /\ DOMAIN tf = DOMAIN bf /\ CoversMap(T, bf, of)
        /\ CoversMap(U, bf, tf)
    BY <2>1, <2>2
  <2> HIDE DEF bf, of, tf
  <2>4. \A c \in {<<f>> : f \in {g \in DOMAIN bf : Clash(bf[g], of[g], tf[g])}} :
            Competes(T, U, c)
    BY <2>3, FieldsCompete
  <2> QED BY <2>4 DEF bf, of, tf
<1>2. \A c \in Beneath(<<"metadata">>, metadata) : Competes(T, U, c)
  <2>1. \A c \in metadata : Competes(Tails(T, "metadata"), Tails(U, "metadata"), c)
    BY MapCompetes DEF CoversParts
  <2> HIDE DEF metadata
  <2> QED BY <2>1, CompetesBeneath
<1>3. \A c \in Beneath(<<"evidence">>, evidence) : Competes(T, U, c)
  <2>1. \A c \in evidence : Competes(Tails(T, "evidence"), Tails(U, "evidence"), c)
    BY EvidenceCompetes DEF CoversParts
  <2> HIDE DEF evidence
  <2> QED BY <2>1, CompetesBeneath
<1>4. ProposalConflicts(b, o, t) =
          fields \cup Beneath(<<"metadata">>, metadata) \cup Beneath(<<"evidence">>, evidence)
  BY DEF ProposalConflicts, ObjectConflicts
<1> HIDE DEF fields, metadata, evidence
<1> QED BY <1>1, <1>2, <1>3, <1>4

LEMMA ObjectCompetes ==
    ASSUME NEW T, NEW U, NEW kind, NEW b, NEW o, NEW t,
           IsObject(kind, b), IsObject(kind, o), IsObject(kind, t),
           CoversParts(T, b, o), CoversParts(U, b, t)
    PROVE  \A c \in ObjectConflicts(b, o, t) : Competes(T, U, c)
BY PartsCompete DEF ProposalConflicts

\* Of objects that are not merged within, one side added or removed one.
LEMMA WholeCompetes ==
    ASSUME NEW T, NEW U, NEW x, NEW y, NEW z, Touches(T, x, y), Touches(U, x, z),
           WholeConflict(x, y, z)
    PROVE  Competes(T, U, <<>>)
<1>1. x # y /\ x # z /\ y # z /\ Absent \in {x, y, z}
  BY DEF WholeConflict, MergedWithin, Clash
<1>2. Absent \in {x, y} \/ Absent \in {x, z}
  BY <1>1
<1>3. (\E p \in T : IsList(p)) /\ (\E p \in U : IsList(p))
  BY <1>1 DEF Touches
<1>4. <<>> \in T \/ <<>> \in U
  BY <1>1, <1>2 DEF Touches
<1> QED BY <1>3, <1>4, CompetesAtWhole

\* Of lists of objects, of terms and of lexicons.
LEMMA PlainsCompete ==
    ASSUME AbsentIsNoObject, NEW T, NEW U, NEW kind, NEW b, NEW o, NEW t,
           Indexed(b), Indexed(o), Indexed(t),
           \A x \in ToSet(b) \cup ToSet(o) \cup ToSet(t) : IsPlain(kind, x),
           CoversObjects(T, b, o), CoversObjects(U, b, t)
    PROVE  \A c \in IndexedListConflicts(b, o, t, ObjectConflicts) : Competes(T, U, c)
<1> DEFINE Found(x, y, z) == IF MergedWithin(x, y, z) THEN ObjectConflicts(x, y, z)
                             ELSE IF WholeConflict(x, y, z) THEN {<<>>} ELSE {}
<1>1. ASSUME NEW id
      PROVE  \A c \in Beneath(<<id>>, Found(ItemAt(b, id), ItemAt(o, id), ItemAt(t, id))) :
                 Competes(T, U, c)
  <2> DEFINE x == ItemAt(b, id)
             y == ItemAt(o, id)
             z == ItemAt(t, id)
  <2>1. CoversObject(Tails(T, id), x, y) /\ CoversObject(Tails(U, id), x, z)
    BY DEF CoversObjects
  <2>2. ASSUME Absent \notin {x, y, z}
        PROVE  IsPlain(kind, x) /\ IsPlain(kind, y) /\ IsPlain(kind, z)
    BY <2>2, IndexedFacts
  <2> HIDE DEF x, y, z
  <2>3. ASSUME MergedWithin(x, y, z), NEW c \in ObjectConflicts(x, y, z)
        PROVE  Competes(Tails(T, id), Tails(U, id), c)
    <3>1. Absent \notin {x, y, z}
      BY <2>3 DEF MergedWithin
    <3> QED BY <2>1, <2>2, <2>3, <3>1, ObjectCompetes DEF CoversObject, IsPlain
  <2>4. ASSUME WholeConflict(x, y, z)
        PROVE  Competes(Tails(T, id), Tails(U, id), <<>>)
    BY <2>1, <2>4, WholeCompetes DEF CoversObject
  <2> DEFINE C == Found(x, y, z)
  <2>5. \A c \in C : Competes(Tails(T, id), Tails(U, id), c)
    BY <2>3, <2>4
  <2> HIDE DEF C
  <2>6. \A c \in Beneath(<<id>>, C) : Competes(T, U, c)
    BY <2>5, CompetesBeneath
  <2> QED BY <2>6 DEF C, x, y, z
<1> HIDE DEF Found
<1>2. IndexedListConflicts(b, o, t, ObjectConflicts) =
          UNION {Beneath(<<id>>, Found(ItemAt(b, id), ItemAt(o, id), ItemAt(t, id))) :
                    id \in Ids(b) \cup Ids(o) \cup Ids(t)}
  BY DEF IndexedListConflicts, Found
<1> QED BY <1>1, <1>2

LEMMA ProposalsCompete ==
    ASSUME AbsentIsNoObject, NEW T, NEW U, NEW kind, NEW b, NEW o, NEW t,
           Indexed(b), Indexed(o), Indexed(t),
           \A x \in ToSet(b) \cup ToSet(o) \cup ToSet(t) : IsObject(kind, x),
           CoversObjects(T, b, o), CoversObjects(U, b, t)
    PROVE  \A c \in IndexedListConflicts(b, o, t, ProposalConflicts) : Competes(T, U, c)
<1> DEFINE Found(x, y, z) == IF MergedWithin(x, y, z) THEN ProposalConflicts(x, y, z)
                             ELSE IF WholeConflict(x, y, z) THEN {<<>>} ELSE {}
<1>1. ASSUME NEW id
      PROVE  \A c \in Beneath(<<id>>, Found(ItemAt(b, id), ItemAt(o, id), ItemAt(t, id))) :
                 Competes(T, U, c)
  <2> DEFINE x == ItemAt(b, id)
             y == ItemAt(o, id)
             z == ItemAt(t, id)
  <2>1. CoversObject(Tails(T, id), x, y) /\ CoversObject(Tails(U, id), x, z)
    BY DEF CoversObjects
  <2>2. ASSUME Absent \notin {x, y, z}
        PROVE  IsObject(kind, x) /\ IsObject(kind, y) /\ IsObject(kind, z)
    BY <2>2, IndexedFacts
  <2> HIDE DEF x, y, z
  <2>3. ASSUME MergedWithin(x, y, z), NEW c \in ProposalConflicts(x, y, z)
        PROVE  Competes(Tails(T, id), Tails(U, id), c)
    <3>1. Absent \notin {x, y, z}
      BY <2>3 DEF MergedWithin
    <3> QED BY <2>1, <2>2, <2>3, <3>1, PartsCompete DEF CoversObject
  <2>4. ASSUME WholeConflict(x, y, z)
        PROVE  Competes(Tails(T, id), Tails(U, id), <<>>)
    BY <2>1, <2>4, WholeCompetes DEF CoversObject
  <2> DEFINE C == Found(x, y, z)
  <2>5. \A c \in C : Competes(Tails(T, id), Tails(U, id), c)
    BY <2>3, <2>4
  <2> HIDE DEF C
  <2>6. \A c \in Beneath(<<id>>, C) : Competes(T, U, c)
    BY <2>5, CompetesBeneath
  <2> QED BY <2>6 DEF C, x, y, z
<1> HIDE DEF Found
<1>2. IndexedListConflicts(b, o, t, ProposalConflicts) =
          UNION {Beneath(<<id>>, Found(ItemAt(b, id), ItemAt(o, id), ItemAt(t, id))) :
                    id \in Ids(b) \cup Ids(o) \cup Ids(t)}
  BY DEF IndexedListConflicts, Found
<1> QED BY <1>1, <1>2

LEMMA TermCompetes ==
    ASSUME AbsentIsNoObject, NEW T, NEW U, NEW kinds, NEW b, NEW o, NEW t,
           IsTerm(kinds, b), IsTerm(kinds, o), IsTerm(kinds, t), Absent \notin {b, o, t},
           CoversTerm(T, b, o), CoversTerm(U, b, t)
    PROVE  \A c \in TermConflicts(b, o, t) : Competes(T, U, c)
<1> DEFINE aliases == IndexedListConflicts(b.aliases, o.aliases, t.aliases, ObjectConflicts)
           kind == kinds.aliases
<1>1. \A c \in ProposalConflicts(b, o, t) : Competes(T, U, c)
  BY PartsCompete DEF IsTerm, CoversTerm, CoversObject
<1>2. \A c \in aliases : Competes(Tails(T, "aliases"), Tails(U, "aliases"), c)
  <2>1. Indexed(b.aliases) /\ Indexed(o.aliases) /\ Indexed(t.aliases)
    BY DEF IsTerm
  <2>2. \A x \in ToSet(b.aliases) \cup ToSet(o.aliases) \cup ToSet(t.aliases) : IsPlain(kind, x)
    BY DEF IsTerm
  <2>3. /\ CoversObjects(Tails(T, "aliases"), b.aliases, o.aliases)
        /\ CoversObjects(Tails(U, "aliases"), b.aliases, t.aliases)
    BY DEF CoversTerm
  <2> QED BY <2>1, <2>2, <2>3, PlainsCompete
<1> HIDE DEF aliases
<1>3. \A c \in Beneath(<<"aliases">>, aliases) : Competes(T, U, c)
  BY <1>2, CompetesBeneath
<1>4. TermConflicts(b, o, t) = ProposalConflicts(b, o, t) \cup Beneath(<<"aliases">>, aliases)
  BY DEF TermConflicts, aliases
<1> QED BY <1>1, <1>3, <1>4

LEMMA TermsCompete ==
    ASSUME AbsentIsNoObject, NEW T, NEW U, NEW kinds, NEW b, NEW o, NEW t,
           Indexed(b), Indexed(o), Indexed(t),
           \A x \in ToSet(b) \cup ToSet(o) \cup ToSet(t) : IsTerm(kinds, x),
           CoversTerms(T, b, o), CoversTerms(U, b, t)
    PROVE  \A c \in IndexedListConflicts(b, o, t, TermConflicts) : Competes(T, U, c)
<1> DEFINE Found(x, y, z) == IF MergedWithin(x, y, z) THEN TermConflicts(x, y, z)
                             ELSE IF WholeConflict(x, y, z) THEN {<<>>} ELSE {}
<1>1. ASSUME NEW id
      PROVE  \A c \in Beneath(<<id>>, Found(ItemAt(b, id), ItemAt(o, id), ItemAt(t, id))) :
                 Competes(T, U, c)
  <2> DEFINE x == ItemAt(b, id)
             y == ItemAt(o, id)
             z == ItemAt(t, id)
  <2>1. CoversTerm(Tails(T, id), x, y) /\ CoversTerm(Tails(U, id), x, z)
    BY DEF CoversTerms
  <2>2. ASSUME Absent \notin {x, y, z}
        PROVE  IsTerm(kinds, x) /\ IsTerm(kinds, y) /\ IsTerm(kinds, z)
    BY <2>2, IndexedFacts
  <2> HIDE DEF x, y, z
  <2>3. ASSUME MergedWithin(x, y, z), NEW c \in TermConflicts(x, y, z)
        PROVE  Competes(Tails(T, id), Tails(U, id), c)
    <3>1. Absent \notin {x, y, z}
      BY <2>3 DEF MergedWithin
    <3> QED BY <2>1, <2>2, <2>3, <3>1, TermCompetes DEF CoversTerm
  <2>4. ASSUME WholeConflict(x, y, z)
        PROVE  Competes(Tails(T, id), Tails(U, id), <<>>)
    BY <2>1, <2>4, WholeCompetes DEF CoversTerm, CoversObject
  <2> DEFINE C == Found(x, y, z)
  <2>5. \A c \in C : Competes(Tails(T, id), Tails(U, id), c)
    BY <2>3, <2>4
  <2> HIDE DEF C
  <2>6. \A c \in Beneath(<<id>>, C) : Competes(T, U, c)
    BY <2>5, CompetesBeneath
  <2> QED BY <2>6 DEF C, x, y, z
<1> HIDE DEF Found
<1>2. IndexedListConflicts(b, o, t, TermConflicts) =
          UNION {Beneath(<<id>>, Found(ItemAt(b, id), ItemAt(o, id), ItemAt(t, id))) :
                    id \in Ids(b) \cup Ids(o) \cup Ids(t)}
  BY DEF IndexedListConflicts, Found
<1> QED BY <1>1, <1>2

LEMMA LexiconCompetes ==
    ASSUME AbsentIsNoObject, NEW T, NEW U, NEW kinds, NEW b, NEW o, NEW t,
           WellFormed(kinds, b), WellFormed(kinds, o), WellFormed(kinds, t),
           CoversLexicon(T, b, o), CoversLexicon(U, b, t)
    PROVE  \A c \in Conflicts(b, o, t) : Competes(T, U, c)
<1> DEFINE metadata == MappingConflicts(b.metadata, o.metadata, t.metadata)
           scopes == IndexedListConflicts(b.scopes, o.scopes, t.scopes, ObjectConflicts)
           terms == IndexedListConflicts(b.terms, o.terms, t.terms, TermConflicts)
           proposals == IndexedListConflicts(b.proposals, o.proposals, t.proposals,
                                             ProposalConflicts)
<1>0. /\ Indexed(b.scopes) /\ Indexed(o.scopes) /\ Indexed(t.scopes)
      /\ Indexed(b.terms) /\ Indexed(o.terms) /\ Indexed(t.terms)
      /\ Indexed(b.proposals) /\ Indexed(o.proposals) /\ Indexed(t.proposals)
  BY DEF WellFormed, Sections
<1>1. \A c \in Beneath(<<"metadata">>, metadata) : Competes(T, U, c)
  <2>1. \A c \in metadata : Competes(Tails(T, "metadata"), Tails(U, "metadata"), c)
    BY MapCompetes DEF CoversLexicon
  <2> HIDE DEF metadata
  <2> QED BY <2>1, CompetesBeneath
<1>2. \A c \in Beneath(<<"scopes">>, scopes) : Competes(T, U, c)
  <2>1. /\ CoversObjects(Tails(T, "scopes"), b.scopes, o.scopes)
        /\ CoversObjects(Tails(U, "scopes"), b.scopes, t.scopes)
    BY DEF CoversLexicon
  <2> DEFINE kind == kinds.scopes
  <2>2. \A x \in ToSet(b.scopes) \cup ToSet(o.scopes) \cup ToSet(t.scopes) : IsPlain(kind, x)
    BY DEF WellFormed
  <2> HIDE DEF kind
  <2>3. \A c \in scopes : Competes(Tails(T, "scopes"), Tails(U, "scopes"), c)
    BY <1>0, <2>1, <2>2, PlainsCompete
  <2> HIDE DEF scopes
  <2> QED BY <2>3, CompetesBeneath
<1>3. \A c \in Beneath(<<"terms">>, terms) : Competes(T, U, c)
  <2>1. /\ CoversTerms(Tails(T, "terms"), b.terms, o.terms)
        /\ CoversTerms(Tails(U, "terms"), b.terms, t.terms)
    BY DEF CoversLexicon
  <2>2. \A x \in ToSet(b.terms) \cup ToSet(o.terms) \cup ToSet(t.terms) : IsTerm(kinds, x)
    BY DEF WellFormed
  <2>3. \A c \in terms : Competes(Tails(T, "terms"), Tails(U, "terms"), c)
    BY <1>0, <2>1, <2>2, TermsCompete
  <2> HIDE DEF terms
  <2> QED BY <2>3, CompetesBeneath
<1>4. \A c \in Beneath(<<"proposals">>, proposals) : Competes(T, U, c)
  <2>1. /\ CoversObjects(Tails(T, "proposals"), b.proposals, o.proposals)
        /\ CoversObjects(Tails(U, "proposals"), b.proposals, t.proposals)
    BY DEF CoversLexicon
  <2> DEFINE kind == kinds.proposals
  <2>2. \A x \in ToSet(b.proposals) \cup ToSet(o.proposals) \cup ToSet(t.proposals) :
            IsObject(kind, x)
    BY DEF WellFormed
  <2> HIDE DEF kind
  <2>3. \A c \in proposals : Competes(Tails(T, "proposals"), Tails(U, "proposals"), c)
    BY <1>0, <2>1, <2>2, ProposalsCompete
  <2> HIDE DEF proposals
  <2> QED BY <2>3, CompetesBeneath
<1>5. Conflicts(b, o, t) =
          Beneath(<<"metadata">>, metadata) \cup Beneath(<<"scopes">>, scopes)
          \cup Beneath(<<"terms">>, terms) \cup Beneath(<<"proposals">>, proposals)
  BY DEF Conflicts
<1> HIDE DEF metadata, scopes, terms, proposals
<1> QED BY <1>1, <1>2, <1>3, <1>4, <1>5

-----------------------------------------------------------------------------
(* What an edit changes is in the place it names.                          *)

LEMMA ShortPaths ==
    ASSUME NEW k
    PROVE  /\ IsList(<<k>>) /\ <<k>> \o <<>> = <<k>>
           /\ \A m : IsList(<<k, m>>) /\ <<k>> \o <<m>> = <<k, m>>
<1>1. ASSUME NEW m PROVE IsList(<<m>>)
  <2>1. <<m>> \in Seq({m})
    OBVIOUS
  <2> QED BY <2>1, ListOfAny
<1>2. ASSUME NEW m PROVE IsList(<<k, m>>) /\ <<k>> \o <<m>> = <<k, m>>
  <2>1. <<k, m>> \in Seq({k, m})
    OBVIOUS
  <2> DEFINE p == <<m>>
             q == <<k>> \o p
  <2>2. Len(p) = 1 /\ p[1] = m /\ IsList(p)
    BY <1>1
  <2> HIDE DEF p
  <2>3. q[1] = k /\ q[1 + 1] = m /\ Len(q) = 2 /\ IsList(q)
    <3>1. /\ IsList(q) /\ Len(q) = Len(p) + 1 /\ q[1] = k
          /\ \A i \in 1..Len(p) : q[i + 1] = p[i]
      BY <2>2, Step
    <3>2. 1 \in 1..Len(p)
      BY <2>2
    <3>3. q[1 + 1] = p[1]
      BY <3>1, <3>2
    <3> QED BY <2>2, <3>1, <3>3
  <2> HIDE DEF q
  <2>4. q = <<k, m>>
    <3>1. q \in Seq(ToSet(q)) /\ 1 + 1 = 2
      BY <2>3 DEF IsList
    <3> QED BY <2>3, <3>1
  <2> QED BY <2>1, <2>4, ListOfAny DEF p, q
<1>3. <<k>> \o <<>> = <<k>>
  OBVIOUS
<1> QED BY <1>1, <1>2, <1>3

\* Two lists with the same objects of an id have the same under it.
LEMMA SameAt ==
    ASSUME AbsentIsNoObject, NEW l, NEW m, Indexed(l), Indexed(m), NEW id,
           \A x : x.id = id => (x \in ToSet(l) <=> x \in ToSet(m))
    PROVE  ItemAt(l, id) = ItemAt(m, id)
<1>1. \A k : k \in Ids(l) <=> \E x \in ToSet(l) : x.id = k
  BY DEF Ids, ToSet
<1>2. \A k : k \in Ids(m) <=> \E x \in ToSet(m) : x.id = k
  BY DEF Ids, ToSet
<1>3. CASE id \in Ids(l)
  <2> DEFINE x == ItemAt(l, id)
  <2>1. x \in ToSet(l) /\ x.id = id
    BY <1>3, IndexedFacts
  <2>2. x \in ToSet(m)
    BY <2>1
  <2>3. ItemAt(m, x.id) = x
    BY <2>2, IndexedFacts
  <2> QED BY <2>1, <2>3
<1>4. CASE id \notin Ids(l)
  <2>1. id \notin Ids(m)
    BY <1>1, <1>2, <1>4
  <2> QED BY <1>4, <2>1, IndexedFacts
<1> QED BY <1>3, <1>4

\* A list is edited under one id.
EditedAt(items, new, id) == \A k : k # id => ItemAt(items, k) = ItemAt(new, k)

LEMMA AppendEdits ==
    ASSUME AbsentIsNoObject, NEW items, Indexed(items), NEW x, "id" \in DOMAIN x,
           x.id \notin Ids(items)
    PROVE  EditedAt(items, Append(items, x), x.id)
<1> DEFINE new == Append(items, x)
<1>1. Indexed(new) /\ ToSet(new) = ToSet(items) \cup {x}
  BY AppendKeepsIndexed
<1> HIDE DEF new
<1>2. ASSUME NEW k, k # x.id PROVE ItemAt(items, k) = ItemAt(new, k)
  <2>1. \A y : y.id = k => (y \in ToSet(items) <=> y \in ToSet(new))
    BY <1>1, <1>2
  <2> QED BY <1>1, <2>1, SameAt
<1> QED BY <1>2 DEF EditedAt, new

LEMMA PickEdits ==
    ASSUME AbsentIsNoObject, NEW items, Indexed(items), NEW i \in DOMAIN items
    PROVE  EditedAt(items, Picked(items, DOMAIN items \ {i}), items[i].id)
<1> DEFINE places == DOMAIN items \ {i}
           new == Picked(items, places)
<1>1. places \in SUBSET DOMAIN items
  OBVIOUS
<1>2. Indexed(new)
  BY <1>1, PickKeepsIndexed
<1>3. ToSet(new) = {items[j] : j \in places}
  <2>1. items \in Seq(ToSet(items))
    BY DEF Indexed, IsList
  <2> HIDE DEF places
  <2> QED BY <1>1, <2>1, PickedFacts
<1> HIDE DEF new
<1>4. ASSUME NEW k, k # items[i].id PROVE ItemAt(items, k) = ItemAt(new, k)
  <2>1. ASSUME NEW y, y.id = k PROVE y \in ToSet(items) <=> y \in ToSet(new)
    BY <1>3, <1>4, <2>1 DEF ToSet
  <2> QED BY <1>2, <2>1, SameAt
<1> QED BY <1>4 DEF EditedAt, new

LEMMA ReplaceEdits ==
    ASSUME AbsentIsNoObject, NEW items, Indexed(items), NEW i \in DOMAIN items, NEW y,
           "id" \in DOMAIN y, y.id = items[i].id
    PROVE  /\ EditedAt(items, [items EXCEPT ![i] = y], items[i].id)
           /\ ItemAt(items, items[i].id) = items[i]
           /\ ItemAt([items EXCEPT ![i] = y], items[i].id) = y
<1> DEFINE new == [items EXCEPT ![i] = y]
<1>1. Indexed(new)
  BY ReplaceKeepsIndexed
<1>2. DOMAIN new = DOMAIN items /\ \A j \in DOMAIN items : new[j] = IF j = i THEN y ELSE items[j]
  OBVIOUS
<1> HIDE DEF new
<1>3. \A z : z \in ToSet(new) <=> \E j \in DOMAIN items : z = IF j = i THEN y ELSE items[j]
  BY <1>2 DEF ToSet
<1>4. ASSUME NEW k, k # items[i].id PROVE ItemAt(items, k) = ItemAt(new, k)
  <2>1. ASSUME NEW z, z.id = k PROVE z \in ToSet(items) <=> z \in ToSet(new)
    BY <1>3, <1>4, <2>1 DEF ToSet
  <2> QED BY <1>1, <2>1, SameAt
<1>5. y \in ToSet(new)
  BY <1>3
<1>6. ItemAt(new, y.id) = y
  BY <1>1, <1>5, IndexedFacts
<1>7. items[i] \in ToSet(items)
  BY DEF ToSet
<1>8. ItemAt(items, items[i].id) = items[i]
  BY <1>7, IndexedFacts
<1> QED BY <1>4, <1>6, <1>8 DEF EditedAt, new

\* Edits of a list of evidence.
LEMMA EvidenceListEdited ==
    ASSUME AbsentIsNoObject, NEW items, Indexed(items), NEW additions,
           \A x \in additions : "id" \in DOMAIN x,
           NEW e \in ItemsEdits(items, additions, NoEdits)
    PROVE  IsList(e.path) /\ \A T : e.path \in T => CoversEvidence(T, items, e.to)
<1>1. PICK id : e.path = <<id>> /\ EditedAt(items, e.to, id)
  <2>1. \A path, to : Edit(path, to).to = to /\ Edit(path, to).path = path
    BY DEF Edit
  <2>2. CASE \E x \in additions : x.id \notin Ids(items) /\ e = Edit(<<x.id>>, Append(items, x))
    <3>1. PICK x \in additions : x.id \notin Ids(items) /\ e = Edit(<<x.id>>, Append(items, x))
      BY <2>2
    <3>2. EditedAt(items, Append(items, x), x.id)
      BY <3>1, AppendEdits
    <3> QED BY <2>1, <3>1, <3>2
  <2>3. CASE \E i \in DOMAIN items :
                e = Edit(<<items[i].id>>, Picked(items, DOMAIN items \ {i}))
    <3>1. PICK i \in DOMAIN items : e = Edit(<<items[i].id>>, Picked(items, DOMAIN items \ {i}))
      BY <2>3
    <3>2. EditedAt(items, Picked(items, DOMAIN items \ {i}), items[i].id)
      BY PickEdits
    <3> QED BY <2>1, <3>1, <3>2
  <2> QED BY <2>2, <2>3 DEF ItemsEdits, NoEdits
<1>2. ASSUME NEW T, e.path \in T PROVE CoversEvidence(T, items, e.to)
  <2>1. <<>> \in Tails(T, id)
    BY <1>1, <1>2, TailsFacts
  <2> QED BY <1>1, <2>1 DEF CoversEvidence, EditedAt
<1> QED BY <1>1, <1>2, ShortPaths

\* Edits of fields and lists, of metadata and of evidence.
LEMMA ObjectEdited ==
    ASSUME NEW kind, NEW x, IsObject(kind, x), NEW e \in ObjectEdits(x)
    PROVE  IsList(e.path) /\ \A T : e.path \in T => CoversParts(T, x, e.to)
<1>0. {"id", "fields", "lists", "metadata", "evidence"} \subseteq DOMAIN x
  BY DEF IsObject
<1>1. CASE \E f \in DOMAIN x.fields : \E v : e = Edit(<<f>>, [x EXCEPT !.fields[f] = v])
  <2>0. PICK f \in DOMAIN x.fields : \E v : e = Edit(<<f>>, [x EXCEPT !.fields[f] = v])
    BY <1>1
  <2>1. PICK v : e = Edit(<<f>>, [x EXCEPT !.fields[f] = v])
    BY <2>0
  <2> DEFINE y == [x EXCEPT !.fields[f] = v]
  <2>2. e.to = y /\ e.path = <<f>>
    BY <2>1 DEF Edit
  <2>3. /\ y.fields = [x.fields EXCEPT ![f] = v]
        /\ y.metadata = x.metadata /\ y.evidence = x.evidence
    BY <1>0
  <2> HIDE DEF y
  <2>4. ASSUME NEW k, k # f PROVE ValueAt(x.fields, k) = ValueAt(y.fields, k)
    BY <2>3, <2>4 DEF ValueAt
  <2>5. ASSUME NEW T, e.path \in T PROVE CoversParts(T, x, y)
    <3>1. <<>> \in Tails(T, f)
      BY <2>2, <2>5, TailsFacts
    <3>2. CoversMap(T, x.fields, y.fields)
      BY <2>4, <3>1 DEF CoversMap
    <3> QED BY <2>3, <3>2, MapCovered, EvidenceCovered DEF CoversParts
  <2> QED BY <2>2, <2>5, ShortPaths
<1>2. CASE \E l \in DOMAIN x.lists : \E n :
              e = Edit(<<l, n>>, [x EXCEPT !.lists[l] = Toggled(@, n)])
  <2>0. PICK l \in DOMAIN x.lists : \E n :
              e = Edit(<<l, n>>, [x EXCEPT !.lists[l] = Toggled(@, n)])
    BY <1>2
  <2>1. PICK n : e = Edit(<<l, n>>, [x EXCEPT !.lists[l] = Toggled(@, n)])
    BY <2>0
  <2> DEFINE y == [x EXCEPT !.lists[l] = Toggled(@, n)]
  <2>2. e.to = y /\ e.path = <<l, n>>
    BY <2>1 DEF Edit
  <2>3. y.fields = x.fields /\ y.metadata = x.metadata /\ y.evidence = x.evidence
    BY <1>0
  <2> HIDE DEF y
  <2>4. \A T : CoversParts(T, x, y)
    BY <2>3, MapCovered, EvidenceCovered DEF CoversParts
  <2> QED BY <2>2, <2>4, ShortPaths
<1>3. \/ e \in UNION {{Edit(<<f>>, [x EXCEPT !.fields[f] = v]) :
                          v \in Values[f] \ {x.fields[f]}} : f \in DOMAIN x.fields}
      \/ e \in UNION {{Edit(<<l, n>>, [x EXCEPT !.lists[l] = Toggled(@, n)]) :
                          n \in Elements[l]} : l \in DOMAIN x.lists}
  BY DEF ObjectEdits
<1> QED
  BY <1>1, <1>2, <1>3

LEMMA MetadataEdited ==
    ASSUME NEW kind, NEW x, IsObject(kind, x), NEW e \in MetadataEdits(x)
    PROVE  IsList(e.path) /\ \A T : e.path \in T => CoversParts(T, x, e.to)
<1>0. {"id", "fields", "lists", "metadata", "evidence"} \subseteq DOMAIN x
  BY DEF IsObject
<1>1. PICK k : \E new : /\ e = Edit(<<"metadata", k>>, [x EXCEPT !.metadata = new])
                        /\ \A m : m # k => ValueAt(x.metadata, m) = ValueAt(new, m)
  <2>1. CASE \E k \in DOMAIN Entries : \E v \in Entries[k] :
                e = Edit(<<"metadata", k>>, [x EXCEPT !.metadata = WithEntry(@, k, v)])
    <3>0. PICK k \in DOMAIN Entries : \E v \in Entries[k] :
                e = Edit(<<"metadata", k>>, [x EXCEPT !.metadata = WithEntry(@, k, v)])
      BY <2>1
    <3>1. PICK v \in Entries[k] :
                e = Edit(<<"metadata", k>>, [x EXCEPT !.metadata = WithEntry(@, k, v)])
      BY <3>0
    <3> DEFINE old == x.metadata
               new == WithEntry(old, k, v)
    <3>2. \A m : m # k => ValueAt(old, m) = ValueAt(new, m)
      <4> HIDE DEF old
      <4> QED BY DEF WithEntry, ValueAt
    <3>3. e = Edit(<<"metadata", k>>, [x EXCEPT !.metadata = new])
      BY <3>1
    <3> HIDE DEF new
    <3> QED BY <3>2, <3>3
  <2>2. CASE \E k \in DOMAIN x.metadata :
                e = Edit(<<"metadata", k>>, [x EXCEPT !.metadata = WithoutEntry(@, k)])
    <3>1. PICK k \in DOMAIN x.metadata :
                e = Edit(<<"metadata", k>>, [x EXCEPT !.metadata = WithoutEntry(@, k)])
      BY <2>2
    <3> DEFINE old == x.metadata
               new == WithoutEntry(old, k)
    <3>2. \A m : m # k => ValueAt(old, m) = ValueAt(new, m)
      <4> HIDE DEF old
      <4> QED BY DEF WithoutEntry, ValueAt
    <3>3. e = Edit(<<"metadata", k>>, [x EXCEPT !.metadata = new])
      BY <3>1
    <3> HIDE DEF new
    <3> QED BY <3>2, <3>3
  <2> QED
    BY <2>1, <2>2 DEF MetadataEdits
<1>2. PICK new : /\ e = Edit(<<"metadata", k>>, [x EXCEPT !.metadata = new])
                 /\ \A m : m # k => ValueAt(x.metadata, m) = ValueAt(new, m)
  BY <1>1
<1> DEFINE y == [x EXCEPT !.metadata = new]
<1>3. e.to = y /\ e.path = <<"metadata", k>>
  BY <1>2 DEF Edit
<1>4. y.fields = x.fields /\ y.metadata = new /\ y.evidence = x.evidence
  BY <1>0
<1> HIDE DEF y
<1>5. ASSUME NEW T, e.path \in T PROVE CoversParts(T, x, y)
  <2> DEFINE U == Tails(T, "metadata")
  <2>1. <<k>> \in U
    <3>1. IsList(<<k>>) /\ <<"metadata">> \o <<k>> \in T
      BY <1>3, <1>5, ShortPaths
    <3> QED BY <3>1, TailsFacts
  <2> HIDE DEF U
  <2>2. <<>> \in Tails(U, k)
    BY <2>1, TailsFacts
  <2>3. CoversMap(U, x.metadata, y.metadata)
    BY <1>2, <1>4, <2>2 DEF CoversMap
  <2> QED BY <1>4, <2>3, MapCovered, EvidenceCovered DEF CoversParts, U
<1> QED BY <1>3, <1>5, ShortPaths

LEMMA EvidenceEdited ==
    ASSUME AbsentIsNoObject, \A a \in Additions.evidence : "id" \in DOMAIN a,
           NEW kind, NEW x, IsObject(kind, x), NEW e \in EvidenceEdits(x)
    PROVE  IsList(e.path) /\ \A T : e.path \in T => CoversParts(T, x, e.to)
<1>0. {"id", "fields", "lists", "metadata", "evidence"} \subseteq DOMAIN x
      /\ Indexed(x.evidence)
  BY DEF IsObject
<1>1. PICK d \in ItemsEdits(x.evidence, Additions.evidence, NoEdits) :
          e = Edit(<<"evidence">> \o d.path, [x EXCEPT !["evidence"] = d.to])
  BY DEF EvidenceEdits, PartEdits
<1>2. IsList(d.path) /\ \A T : d.path \in T => CoversEvidence(T, x.evidence, d.to)
  BY <1>0, EvidenceListEdited
<1> DEFINE y == [x EXCEPT !["evidence"] = d.to]
<1>3. y.evidence = d.to /\ y.fields = x.fields /\ y.metadata = x.metadata
  BY <1>0
<1>4. e.to = y /\ e.path = <<"evidence">> \o d.path
  BY <1>1 DEF Edit
<1> HIDE DEF y
<1>5. ASSUME NEW T, e.path \in T PROVE CoversParts(T, x, y)
  <2>1. d.path \in Tails(T, "evidence")
    BY <1>2, <1>4, <1>5, TailIsIn
  <2>2. CoversEvidence(Tails(T, "evidence"), x.evidence, y.evidence)
    BY <1>2, <1>3, <2>1
  <2> QED BY <1>3, <2>2, MapCovered DEF CoversParts
<1>6. IsList(e.path)
  BY <1>2, <1>4, Step
<1> QED BY <1>4, <1>5, <1>6

LEMMA ProposalEdited ==
    ASSUME AbsentIsNoObject, \A a \in Additions.evidence : "id" \in DOMAIN a,
           NEW kind, NEW x, IsObject(kind, x), NEW e \in ProposalEdits(x)
    PROVE  IsList(e.path) /\ \A T : e.path \in T => CoversParts(T, x, e.to)
BY ObjectEdited, EvidenceEdited DEF ProposalEdits

\* An edit within an object covers the object.
LEMMA WithinCovers ==
    ASSUME AbsentIsNoObject, NEW T, NEW x, NEW y, "id" \in DOMAIN x, "id" \in DOMAIN y,
           \E p \in T : IsList(p), CoversParts(T, x, y)
    PROVE  CoversObject(T, x, y) /\ x # Absent /\ y # Absent
BY DEF CoversObject, Touches, AbsentIsNoObject

\* Of lists of objects, of terms and of lexicons.
LEMMA PlainsEdited ==
    ASSUME AbsentIsNoObject, NEW kind, NEW items, Indexed(items), NEW additions,
           \A x \in ToSet(items) : IsPlain(kind, x),
           \A x \in additions : IsPlain(kind, x),
           NEW e \in ItemsEdits(items, additions, ObjectEdits)
    PROVE  IsList(e.path) /\ \A T : e.path \in T => CoversObjects(T, items, e.to)
<1>0. \A path, to : Edit(path, to).to = to /\ Edit(path, to).path = path
  BY DEF Edit
<1>1. ASSUME NEW id, e.path = <<id>>, EditedAt(items, e.to, id)
      PROVE  IsList(e.path) /\ \A T : e.path \in T => CoversObjects(T, items, e.to)
  <2>1. ASSUME NEW T, e.path \in T, NEW k
        PROVE  CoversObject(Tails(T, k), ItemAt(items, k), ItemAt(e.to, k))
    <3>1. CASE k = id
      <4>1. <<>> \in Tails(T, id)
        BY <1>1, <2>1, TailsFacts
      <4> QED BY <3>1, <4>1, ObjectCovered
    <3>2. CASE k # id
      BY <1>1, <3>2, ObjectCovered DEF EditedAt
    <3> QED BY <3>1, <3>2
  <2> QED BY <1>1, <2>1, ShortPaths DEF CoversObjects
<1>2. CASE \E x \in additions : x.id \notin Ids(items) /\ e = Edit(<<x.id>>, Append(items, x))
  <2>1. PICK x \in additions : x.id \notin Ids(items) /\ e = Edit(<<x.id>>, Append(items, x))
    BY <1>2
  <2>2. "id" \in DOMAIN x
    BY DEF IsPlain, IsObject
  <2>3. EditedAt(items, Append(items, x), x.id)
    BY <2>1, <2>2, AppendEdits
  <2> QED BY <1>0, <1>1, <2>1, <2>3
<1>3. CASE \E i \in DOMAIN items :
              e = Edit(<<items[i].id>>, Picked(items, DOMAIN items \ {i}))
  <2>1. PICK i \in DOMAIN items : e = Edit(<<items[i].id>>, Picked(items, DOMAIN items \ {i}))
    BY <1>3
  <2>2. EditedAt(items, Picked(items, DOMAIN items \ {i}), items[i].id)
    BY PickEdits
  <2>3. e.path = <<items[i].id>> /\ EditedAt(items, e.to, items[i].id)
    BY <1>0, <2>1, <2>2
  <2> QED BY <1>1, <2>3
<1>4. CASE \E i \in DOMAIN items : \E d \in ObjectEdits(items[i]) :
              e = Edit(<<items[i].id>> \o d.path, [items EXCEPT ![i] = d.to])
  <2>0. PICK i \in DOMAIN items : \E d \in ObjectEdits(items[i]) :
              e = Edit(<<items[i].id>> \o d.path, [items EXCEPT ![i] = d.to])
    BY <1>4
  <2>1. PICK d \in ObjectEdits(items[i]) :
            e = Edit(<<items[i].id>> \o d.path, [items EXCEPT ![i] = d.to])
    BY <2>0
  <2> DEFINE x == items[i]
             y == d.to
             p == d.path
             id == items[i].id
  <2>2. e.path = <<id>> \o p /\ e.to = [items EXCEPT ![i] = y]
    BY <1>0, <2>1
  <2>3. IsPlain(kind, x)
    BY DEF ToSet
  <2>4. IsPlain(kind, y) /\ y.id = id
    BY <2>3, PlainEditKeeps
  <2>5. "id" \in DOMAIN x /\ "id" \in DOMAIN y
    BY <2>3, <2>4 DEF IsPlain, IsObject
  <2>6. IsList(p) /\ \A T : p \in T => CoversParts(T, x, y)
    BY <2>3, ObjectEdited DEF IsPlain
  <2>7. \A T : p \in T => CoversObject(T, x, y)
    BY <2>5, <2>6, WithinCovers
  <2> HIDE DEF y, p
  <2>8. /\ EditedAt(items, [items EXCEPT ![i] = y], id)
        /\ ItemAt(items, id) = x
        /\ ItemAt([items EXCEPT ![i] = y], id) = y
    BY <2>4, <2>5, ReplaceEdits
  <2> HIDE DEF x, id
  <2>9. ASSUME NEW T, e.path \in T, NEW k
        PROVE  CoversObject(Tails(T, k), ItemAt(items, k), ItemAt(e.to, k))
    <3>1. CASE k = id
      <4>1. p \in Tails(T, id)
        BY <2>2, <2>6, <2>9, TailIsIn
      <4> QED BY <2>2, <2>7, <2>8, <3>1, <4>1
    <3>2. CASE k # id
      BY <2>2, <2>8, <3>2, ObjectCovered DEF EditedAt
    <3> QED BY <3>1, <3>2
  <2>10. IsList(e.path)
    BY <2>2, <2>6, Step
  <2> QED BY <2>9, <2>10 DEF CoversObjects
<1> QED BY <1>2, <1>3, <1>4 DEF ItemsEdits

LEMMA ProposalsEdited ==
    ASSUME AbsentIsNoObject, \A a \in Additions.evidence : "id" \in DOMAIN a,
           NEW kind, NEW items, Indexed(items), NEW additions,
           \A x \in ToSet(items) : IsObject(kind, x),
           \A x \in additions : IsObject(kind, x),
           NEW e \in ItemsEdits(items, additions, ProposalEdits)
    PROVE  IsList(e.path) /\ \A T : e.path \in T => CoversObjects(T, items, e.to)
<1>0. \A path, to : Edit(path, to).to = to /\ Edit(path, to).path = path
  BY DEF Edit
<1>1. ASSUME NEW id, e.path = <<id>>, EditedAt(items, e.to, id)
      PROVE  IsList(e.path) /\ \A T : e.path \in T => CoversObjects(T, items, e.to)
  <2>1. ASSUME NEW T, e.path \in T, NEW k
        PROVE  CoversObject(Tails(T, k), ItemAt(items, k), ItemAt(e.to, k))
    <3>1. CASE k = id
      <4>1. <<>> \in Tails(T, id)
        BY <1>1, <2>1, TailsFacts
      <4> QED BY <3>1, <4>1, ObjectCovered
    <3>2. CASE k # id
      BY <1>1, <3>2, ObjectCovered DEF EditedAt
    <3> QED BY <3>1, <3>2
  <2> QED BY <1>1, <2>1, ShortPaths DEF CoversObjects
<1>2. CASE \E x \in additions : x.id \notin Ids(items) /\ e = Edit(<<x.id>>, Append(items, x))
  <2>1. PICK x \in additions : x.id \notin Ids(items) /\ e = Edit(<<x.id>>, Append(items, x))
    BY <1>2
  <2>2. "id" \in DOMAIN x
    BY DEF IsObject
  <2>3. EditedAt(items, Append(items, x), x.id)
    BY <2>1, <2>2, AppendEdits
  <2> QED BY <1>0, <1>1, <2>1, <2>3
<1>3. CASE \E i \in DOMAIN items :
              e = Edit(<<items[i].id>>, Picked(items, DOMAIN items \ {i}))
  <2>1. PICK i \in DOMAIN items : e = Edit(<<items[i].id>>, Picked(items, DOMAIN items \ {i}))
    BY <1>3
  <2>2. EditedAt(items, Picked(items, DOMAIN items \ {i}), items[i].id)
    BY PickEdits
  <2>3. e.path = <<items[i].id>> /\ EditedAt(items, e.to, items[i].id)
    BY <1>0, <2>1, <2>2
  <2> QED BY <1>1, <2>3
<1>4. CASE \E i \in DOMAIN items : \E d \in ProposalEdits(items[i]) :
              e = Edit(<<items[i].id>> \o d.path, [items EXCEPT ![i] = d.to])
  <2>0. PICK i \in DOMAIN items : \E d \in ProposalEdits(items[i]) :
              e = Edit(<<items[i].id>> \o d.path, [items EXCEPT ![i] = d.to])
    BY <1>4
  <2>1. PICK d \in ProposalEdits(items[i]) :
            e = Edit(<<items[i].id>> \o d.path, [items EXCEPT ![i] = d.to])
    BY <2>0
  <2> DEFINE x == items[i]
             y == d.to
             p == d.path
             id == items[i].id
  <2>2. e.path = <<id>> \o p /\ e.to = [items EXCEPT ![i] = y]
    BY <1>0, <2>1
  <2>3. IsObject(kind, x)
    BY DEF ToSet
  <2>4. IsObject(kind, y) /\ y.id = id
    BY <2>3, ProposalEditKeeps
  <2>5. "id" \in DOMAIN x /\ "id" \in DOMAIN y
    BY <2>3, <2>4 DEF IsObject
  <2>6. IsList(p) /\ \A T : p \in T => CoversParts(T, x, y)
    BY <2>3, ProposalEdited
  <2>7. \A T : p \in T => CoversObject(T, x, y)
    BY <2>5, <2>6, WithinCovers
  <2> HIDE DEF y, p
  <2>8. /\ EditedAt(items, [items EXCEPT ![i] = y], id)
        /\ ItemAt(items, id) = x
        /\ ItemAt([items EXCEPT ![i] = y], id) = y
    BY <2>4, <2>5, ReplaceEdits
  <2> HIDE DEF x, id
  <2>9. ASSUME NEW T, e.path \in T, NEW k
        PROVE  CoversObject(Tails(T, k), ItemAt(items, k), ItemAt(e.to, k))
    <3>1. CASE k = id
      <4>1. p \in Tails(T, id)
        BY <2>2, <2>6, <2>9, TailIsIn
      <4> QED BY <2>2, <2>7, <2>8, <3>1, <4>1
    <3>2. CASE k # id
      BY <2>2, <2>8, <3>2, ObjectCovered DEF EditedAt
    <3> QED BY <3>1, <3>2
  <2>10. IsList(e.path)
    BY <2>2, <2>6, Step
  <2> QED BY <2>9, <2>10 DEF CoversObjects
<1> QED BY <1>2, <1>3, <1>4 DEF ItemsEdits

\* Terms: the parts they share with other objects, and their aliases.
CoversTermParts(T, x, y) ==
    CoversParts(T, x, y) /\ CoversObjects(Tails(T, "aliases"), x.aliases, y.aliases)

LEMMA TermEdited ==
    ASSUME AbsentIsNoObject, NEW kinds, OfKinds(kinds), NEW x, IsTerm(kinds, x),
           NEW e \in TermEdits(x)
    PROVE  IsList(e.path) /\ \A T : e.path \in T => CoversTermParts(T, x, e.to)
<1>0. IsObject(kinds.terms, x) /\ "aliases" \in DOMAIN x /\ "id" \in DOMAIN x
      /\ {"fields", "metadata", "evidence"} \subseteq DOMAIN x
  BY DEF IsTerm, IsObject
<1>1. CASE e \in ObjectEdits(x) \cup MetadataEdits(x) \cup EvidenceEdits(x)
  <2>1. /\ \A k \in DOMAIN Entries : Absent \notin Entries[k]
        /\ \A y \in Additions.evidence : "id" \in DOMAIN y
    BY DEF OfKinds
  <2>2. e.to.aliases = x.aliases
    BY <1>0, <1>1, <2>1, ObjectEditKeeps, MetadataEditKeeps, EvidenceEditKeeps
  <2>3. IsList(e.path) /\ \A T : e.path \in T => CoversParts(T, x, e.to)
    BY <1>0, <1>1, <2>1, ObjectEdited, MetadataEdited, EvidenceEdited
  <2> QED
    BY <2>2, <2>3, ObjectsCovered DEF CoversTermParts
<1>2. CASE e \in PartEdits(x, "aliases", ItemsEdits(x.aliases, Additions.aliases, ObjectEdits))
  <2>1. PICK d \in ItemsEdits(x.aliases, Additions.aliases, ObjectEdits) :
            e = Edit(<<"aliases">> \o d.path, [x EXCEPT !["aliases"] = d.to])
    BY <1>2 DEF PartEdits
  <2> DEFINE kind == kinds.aliases
  <2>2. /\ Indexed(x.aliases) /\ \A a \in ToSet(x.aliases) : IsPlain(kind, a)
        /\ \A a \in Additions.aliases : IsPlain(kind, a)
    BY DEF IsTerm, OfKinds
  <2> HIDE DEF kind
  <2>3. IsList(d.path) /\ \A T : d.path \in T => CoversObjects(T, x.aliases, d.to)
    BY <2>2, PlainsEdited
  <2> DEFINE y == [x EXCEPT !["aliases"] = d.to]
  <2>4. /\ y.aliases = d.to /\ y.fields = x.fields
        /\ y.metadata = x.metadata /\ y.evidence = x.evidence
    BY <1>0
  <2>5. e.to = y /\ e.path = <<"aliases">> \o d.path
    BY <2>1 DEF Edit
  <2> HIDE DEF y
  <2>6. ASSUME NEW T, e.path \in T PROVE CoversTermParts(T, x, y)
    <3>1. d.path \in Tails(T, "aliases")
      BY <2>3, <2>5, <2>6, TailIsIn
    <3>2. CoversObjects(Tails(T, "aliases"), x.aliases, y.aliases)
      BY <2>3, <2>4, <3>1
    <3>3. CoversParts(T, x, y)
      BY <2>4, MapCovered, EvidenceCovered DEF CoversParts
    <3> QED BY <3>2, <3>3 DEF CoversTermParts
  <2>7. IsList(e.path)
    BY <2>3, <2>5, Step
  <2> QED
    BY <2>5, <2>6, <2>7
<1> QED
  BY <1>1, <1>2 DEF TermEdits

LEMMA TermsEdited ==
    ASSUME AbsentIsNoObject, NEW kinds, OfKinds(kinds), NEW items, Indexed(items), NEW additions,
           \A x \in ToSet(items) : IsTerm(kinds, x),
           \A x \in additions : IsTerm(kinds, x),
           NEW e \in ItemsEdits(items, additions, TermEdits)
    PROVE  IsList(e.path) /\ \A T : e.path \in T => CoversTerms(T, items, e.to)
<1>0. \A path, to : Edit(path, to).to = to /\ Edit(path, to).path = path
  BY DEF Edit
<1>1. ASSUME NEW id, e.path = <<id>>, EditedAt(items, e.to, id)
      PROVE  IsList(e.path) /\ \A T : e.path \in T => CoversTerms(T, items, e.to)
  <2>1. ASSUME NEW T, e.path \in T, NEW k
        PROVE  CoversTerm(Tails(T, k), ItemAt(items, k), ItemAt(e.to, k))
    <3>1. CASE k = id
      <4>1. <<>> \in Tails(T, id)
        BY <1>1, <2>1, TailsFacts
      <4> QED BY <3>1, <4>1, TermCovered
    <3>2. CASE k # id
      BY <1>1, <3>2, TermCovered DEF EditedAt
    <3> QED BY <3>1, <3>2
  <2> QED BY <1>1, <2>1, ShortPaths DEF CoversTerms
<1>2. CASE \E x \in additions : x.id \notin Ids(items) /\ e = Edit(<<x.id>>, Append(items, x))
  <2>1. PICK x \in additions : x.id \notin Ids(items) /\ e = Edit(<<x.id>>, Append(items, x))
    BY <1>2
  <2>2. "id" \in DOMAIN x
    BY DEF IsTerm, IsObject
  <2>3. EditedAt(items, Append(items, x), x.id)
    BY <2>1, <2>2, AppendEdits
  <2> QED BY <1>0, <1>1, <2>1, <2>3
<1>3. CASE \E i \in DOMAIN items :
              e = Edit(<<items[i].id>>, Picked(items, DOMAIN items \ {i}))
  <2>1. PICK i \in DOMAIN items : e = Edit(<<items[i].id>>, Picked(items, DOMAIN items \ {i}))
    BY <1>3
  <2>2. EditedAt(items, Picked(items, DOMAIN items \ {i}), items[i].id)
    BY PickEdits
  <2>3. e.path = <<items[i].id>> /\ EditedAt(items, e.to, items[i].id)
    BY <1>0, <2>1, <2>2
  <2> QED BY <1>1, <2>3
<1>4. CASE \E i \in DOMAIN items : \E d \in TermEdits(items[i]) :
              e = Edit(<<items[i].id>> \o d.path, [items EXCEPT ![i] = d.to])
  <2>0. PICK i \in DOMAIN items : \E d \in TermEdits(items[i]) :
              e = Edit(<<items[i].id>> \o d.path, [items EXCEPT ![i] = d.to])
    BY <1>4
  <2>1. PICK d \in TermEdits(items[i]) :
            e = Edit(<<items[i].id>> \o d.path, [items EXCEPT ![i] = d.to])
    BY <2>0
  <2> DEFINE x == items[i]
             y == d.to
             p == d.path
             id == items[i].id
  <2>2. e.path = <<id>> \o p /\ e.to = [items EXCEPT ![i] = y]
    BY <1>0, <2>1
  <2>3. IsTerm(kinds, x)
    BY DEF ToSet
  <2>4. IsTerm(kinds, y) /\ y.id = id
    BY <2>3, TermEditKeeps
  <2>5. "id" \in DOMAIN x /\ "id" \in DOMAIN y
    BY <2>3, <2>4 DEF IsTerm, IsObject
  <2>6. IsList(p) /\ \A T : p \in T => CoversTermParts(T, x, y)
    BY <2>3, TermEdited
  <2>7. \A T : p \in T => CoversTerm(T, x, y)
    BY <2>5, <2>6, WithinCovers DEF CoversTerm, CoversTermParts
  <2> HIDE DEF y, p
  <2>8. /\ EditedAt(items, [items EXCEPT ![i] = y], id)
        /\ ItemAt(items, id) = x
        /\ ItemAt([items EXCEPT ![i] = y], id) = y
    BY <2>4, <2>5, ReplaceEdits
  <2> HIDE DEF x, id
  <2>9. ASSUME NEW T, e.path \in T, NEW k
        PROVE  CoversTerm(Tails(T, k), ItemAt(items, k), ItemAt(e.to, k))
    <3>1. CASE k = id
      <4>1. p \in Tails(T, id)
        BY <2>2, <2>6, <2>9, TailIsIn
      <4> QED BY <2>2, <2>7, <2>8, <3>1, <4>1
    <3>2. CASE k # id
      BY <2>2, <2>8, <3>2, TermCovered DEF EditedAt
    <3> QED BY <3>1, <3>2
  <2>10. IsList(e.path)
    BY <2>2, <2>6, Step
  <2> QED BY <2>9, <2>10 DEF CoversTerms
<1> QED BY <1>2, <1>3, <1>4 DEF ItemsEdits

LEMMA LexiconEdited ==
    ASSUME AbsentIsNoObject, NEW kinds, OfKinds(kinds), NEW x, WellFormed(kinds, x),
           NEW e \in LexiconEdits(x)
    PROVE  \A T : e.path \in T => CoversLexicon(T, x, e.to)
<1>0. {"scopes", "terms", "proposals", "metadata"} \subseteq DOMAIN x
      /\ Indexed(x.scopes) /\ Indexed(x.terms) /\ Indexed(x.proposals)
  BY DEF WellFormed, Sections
<1>1. CASE e \in PartEdits(x, "scopes",
                         ItemsEdits(x.scopes, Additions.scopes, ObjectEdits))
  <2>1. PICK d \in ItemsEdits(x.scopes, Additions.scopes, ObjectEdits) :
            e = Edit(<<"scopes">> \o d.path, [x EXCEPT !["scopes"] = d.to])
    BY <1>1 DEF PartEdits
  <2> DEFINE kind == kinds.scopes
  <2>2. /\ \A a \in ToSet(x.scopes) : IsPlain(kind, a)
        /\ \A a \in Additions.scopes : IsPlain(kind, a)
        /\ \A a \in Additions.evidence : "id" \in DOMAIN a
    BY DEF WellFormed, OfKinds
  <2> HIDE DEF kind
  <2>3. IsList(d.path) /\ \A T : d.path \in T => CoversObjects(T, x.scopes, d.to)
    BY <1>0, <2>2, PlainsEdited
  <2> DEFINE y == [x EXCEPT !["scopes"] = d.to]
  <2>4. y.scopes = d.to /\ y.terms = x.terms /\ y.proposals = x.proposals /\ y.metadata = x.metadata
    BY <1>0
  <2>5. e.to = y /\ e.path = <<"scopes">> \o d.path
    BY <2>1 DEF Edit
  <2> HIDE DEF y
  <2>6. ASSUME NEW T, e.path \in T PROVE CoversLexicon(T, x, y)
    <3>1. d.path \in Tails(T, "scopes")
      BY <2>3, <2>5, <2>6, TailIsIn
    <3>2. CoversObjects(Tails(T, "scopes"), x.scopes, y.scopes)
      BY <2>3, <2>4, <3>1
    <3> QED BY <2>4, <3>2, MapCovered, ObjectsCovered, TermsCovered DEF CoversLexicon
  <2> QED
    BY <2>5, <2>6
<1>2. CASE e \in PartEdits(x, "terms",
                         ItemsEdits(x.terms, Additions.terms, TermEdits))
  <2>1. PICK d \in ItemsEdits(x.terms, Additions.terms, TermEdits) :
            e = Edit(<<"terms">> \o d.path, [x EXCEPT !["terms"] = d.to])
    BY <1>2 DEF PartEdits
  <2>2. /\ \A a \in ToSet(x.terms) : IsTerm(kinds, a)
        /\ \A a \in Additions.terms : IsTerm(kinds, a)
        /\ \A a \in Additions.evidence : "id" \in DOMAIN a
    BY DEF WellFormed, OfKinds
  <2>3. IsList(d.path) /\ \A T : d.path \in T => CoversTerms(T, x.terms, d.to)
    BY <1>0, <2>2, TermsEdited
  <2> DEFINE y == [x EXCEPT !["terms"] = d.to]
  <2>4. y.terms = d.to /\ y.scopes = x.scopes /\ y.proposals = x.proposals /\ y.metadata = x.metadata
    BY <1>0
  <2>5. e.to = y /\ e.path = <<"terms">> \o d.path
    BY <2>1 DEF Edit
  <2> HIDE DEF y
  <2>6. ASSUME NEW T, e.path \in T PROVE CoversLexicon(T, x, y)
    <3>1. d.path \in Tails(T, "terms")
      BY <2>3, <2>5, <2>6, TailIsIn
    <3>2. CoversTerms(Tails(T, "terms"), x.terms, y.terms)
      BY <2>3, <2>4, <3>1
    <3> QED BY <2>4, <3>2, MapCovered, ObjectsCovered, TermsCovered DEF CoversLexicon
  <2> QED
    BY <2>5, <2>6
<1>3. CASE e \in PartEdits(x, "proposals",
                         ItemsEdits(x.proposals, Additions.proposals, ProposalEdits))
  <2>1. PICK d \in ItemsEdits(x.proposals, Additions.proposals, ProposalEdits) :
            e = Edit(<<"proposals">> \o d.path, [x EXCEPT !["proposals"] = d.to])
    BY <1>3 DEF PartEdits
  <2> DEFINE kind == kinds.proposals
  <2>2. /\ \A a \in ToSet(x.proposals) : IsObject(kind, a)
        /\ \A a \in Additions.proposals : IsObject(kind, a)
        /\ \A a \in Additions.evidence : "id" \in DOMAIN a
    BY DEF WellFormed, OfKinds
  <2> HIDE DEF kind
  <2>3. IsList(d.path) /\ \A T : d.path \in T => CoversObjects(T, x.proposals, d.to)
    BY <1>0, <2>2, ProposalsEdited
  <2> DEFINE y == [x EXCEPT !["proposals"] = d.to]
  <2>4. y.proposals = d.to /\ y.scopes = x.scopes /\ y.terms = x.terms /\ y.metadata = x.metadata
    BY <1>0
  <2>5. e.to = y /\ e.path = <<"proposals">> \o d.path
    BY <2>1 DEF Edit
  <2> HIDE DEF y
  <2>6. ASSUME NEW T, e.path \in T PROVE CoversLexicon(T, x, y)
    <3>1. d.path \in Tails(T, "proposals")
      BY <2>3, <2>5, <2>6, TailIsIn
    <3>2. CoversObjects(Tails(T, "proposals"), x.proposals, y.proposals)
      BY <2>3, <2>4, <3>1
    <3> QED BY <2>4, <3>2, MapCovered, ObjectsCovered, TermsCovered DEF CoversLexicon
  <2> QED
    BY <2>5, <2>6
<1> QED
  BY <1>1, <1>2, <1>3 DEF LexiconEdits

-----------------------------------------------------------------------------
(* What a merge without conflict makes of the parts of an object: every    *)
(* value is settled.                                                       *)

MapSettled(b, o, t, w) ==
    \A k : /\ ~Clash(ValueAt(b, k), ValueAt(o, k), ValueAt(t, k))
           /\ ValueAt(w, k) = Settled(ValueAt(b, k), ValueAt(o, k), ValueAt(t, k))

EvidenceSettled(b, o, t, w) ==
    \A id : /\ ~Clash(ItemAt(b, id), ItemAt(o, id), ItemAt(t, id))
            /\ ItemAt(w, id) = Settled(ItemAt(b, id), ItemAt(o, id), ItemAt(t, id))

PartsSettled(b, o, t, w) ==
    /\ MapSettled(b.fields, o.fields, t.fields, w.fields)
    /\ DOMAIN w.lists = DOMAIN b.lists
    /\ \A l \in DOMAIN b.lists :
          w.lists[l] = MergeScalarSequence(b.lists[l], o.lists[l], t.lists[l])
    /\ MapSettled(b.metadata, o.metadata, t.metadata, w.metadata)
    /\ EvidenceSettled(b.evidence, o.evidence, t.evidence, w.evidence)

LEMMA MappingSettled ==
    ASSUME NEW b, NEW o, NEW t, MappingConflicts(b, o, t) = {}
    PROVE  MapSettled(b, o, t, MergeMapping(b, o, t))
<1> DEFINE keys == MappingKeys(b, o, t)
           At(k) == Settled(ValueAt(b, k), ValueAt(o, k), ValueAt(t, k))
           m == MergeMapping(b, o, t)
<1>1. DOMAIN m = {k \in keys : At(k) # Absent} /\ \A k \in DOMAIN m : m[k] = At(k)
  BY DEF MergeMapping
<1>2. \A k \in keys : ~Clash(ValueAt(b, k), ValueAt(o, k), ValueAt(t, k))
  BY DEF MappingConflicts
<1>3. ASSUME NEW k, k \notin keys
      PROVE  ValueAt(b, k) = Absent /\ ValueAt(o, k) = Absent /\ ValueAt(t, k) = Absent
  BY <1>3 DEF MappingKeys, ValueAt
<1> HIDE DEF m, keys
<1>4. \A k : ~Clash(ValueAt(b, k), ValueAt(o, k), ValueAt(t, k))
  BY <1>2, <1>3 DEF Clash
<1>5. \A k \in keys : ValueAt(m, k) = At(k)
  BY <1>1 DEF ValueAt
<1>6. ASSUME NEW k, k \notin keys PROVE ValueAt(m, k) = At(k)
  <2>1. ValueAt(m, k) = Absent
    BY <1>1, <1>6 DEF ValueAt
  <2> QED BY <1>3, <1>6, <2>1 DEF Settled
<1>7. \A k : ValueAt(m, k) = At(k)
  BY <1>5, <1>6
<1> QED BY <1>4, <1>7 DEF MapSettled, m

\* An object of which only fields, lists and metadata are merged.
LEMMA ObjectSettled ==
    ASSUME NEW kind, NEW b, NEW o, NEW t,
           IsObject(kind, b), IsObject(kind, o), IsObject(kind, t),
           ObjectConflicts(b, o, t) = {}
    PROVE  LET w == MergeObject(b, o, t)
           IN  /\ MapSettled(b.fields, o.fields, t.fields, w.fields)
               /\ DOMAIN w.lists = DOMAIN b.lists
               /\ \A l \in DOMAIN b.lists :
                     w.lists[l] = MergeScalarSequence(b.lists[l], o.lists[l], t.lists[l])
               /\ MapSettled(b.metadata, o.metadata, t.metadata, w.metadata)
               /\ w.evidence = b.evidence
<1> DEFINE w == MergeObject(b, o, t)
           clashes == {g \in DOMAIN b.fields : Clash(b.fields[g], o.fields[g], t.fields[g])}
           within == MappingConflicts(b.metadata, o.metadata, t.metadata)
<1>1. {"id", "fields", "lists", "metadata", "evidence"} \subseteq DOMAIN b
      /\ DOMAIN o.fields = DOMAIN b.fields /\ DOMAIN t.fields = DOMAIN b.fields
  BY DEF IsObject
<1>2. /\ w.fields = [f \in DOMAIN b.fields |-> Settled(b.fields[f], o.fields[f], t.fields[f])]
      /\ w.lists = [l \in DOMAIN b.lists |->
                       MergeScalarSequence(b.lists[l], o.lists[l], t.lists[l])]
      /\ w.metadata = MergeMapping(b.metadata, o.metadata, t.metadata)
      /\ w.evidence = b.evidence
  BY <1>1 DEF MergeObject
<1> HIDE DEF w
<1>3. {<<f>> : f \in clashes} = {} /\ Beneath(<<"metadata">>, within) = {}
  BY DEF ObjectConflicts
<1>4. within = {}
  <2> HIDE DEF within
  <2> QED
    BY <1>3 DEF Beneath
<1>5. \A f \in DOMAIN b.fields : ~Clash(b.fields[f], o.fields[f], t.fields[f])
  BY <1>3
<1>6. MapSettled(b.fields, o.fields, t.fields, w.fields)
  <2> DEFINE bf == b.fields
             of == o.fields
             tf == t.fields
             wf == w.fields
  <2>1. /\ DOMAIN of = DOMAIN bf /\ DOMAIN tf = DOMAIN bf /\ DOMAIN wf = DOMAIN bf
        /\ \A f \in DOMAIN bf : wf[f] = Settled(bf[f], of[f], tf[f]) /\ ~Clash(bf[f], of[f], tf[f])
    BY <1>1, <1>2, <1>5
  <2> HIDE DEF bf, of, tf, wf
  <2>2. ASSUME NEW k
        PROVE  /\ ~Clash(ValueAt(bf, k), ValueAt(of, k), ValueAt(tf, k))
               /\ ValueAt(wf, k) = Settled(ValueAt(bf, k), ValueAt(of, k), ValueAt(tf, k))
    <3>1. CASE k \in DOMAIN bf
      BY <2>1, <3>1 DEF ValueAt
    <3>2. CASE k \notin DOMAIN bf
      <4>1. ValueAt(bf, k) = Absent /\ ValueAt(of, k) = Absent /\ ValueAt(tf, k) = Absent
            /\ ValueAt(wf, k) = Absent
        BY <2>1, <3>2 DEF ValueAt
      <4> QED BY <4>1 DEF Clash, Settled
    <3> QED BY <3>1, <3>2
  <2>3. MapSettled(bf, of, tf, wf)
    BY <2>2 DEF MapSettled
  <2> QED BY <2>3 DEF bf, of, tf, wf
<1>7. MapSettled(b.metadata, o.metadata, t.metadata, w.metadata)
  BY <1>2, <1>4, MappingSettled
<1>8. /\ DOMAIN w.lists = DOMAIN b.lists
      /\ \A l \in DOMAIN b.lists :
            w.lists[l] = MergeScalarSequence(b.lists[l], o.lists[l], t.lists[l])
  BY <1>2
<1> QED BY <1>2, <1>6, <1>7, <1>8 DEF w

LEMMA PlainSettled ==
    ASSUME NEW kind, NEW b, NEW o, NEW t, IsPlain(kind, b), IsPlain(kind, o), IsPlain(kind, t),
           ObjectConflicts(b, o, t) = {}
    PROVE  PartsSettled(b, o, t, MergeObject(b, o, t))
<1>1. b.evidence = <<>> /\ o.evidence = <<>> /\ t.evidence = <<>>
  BY DEF IsPlain
<1> DEFINE w == MergeObject(b, o, t)
<1>2. /\ MapSettled(b.fields, o.fields, t.fields, w.fields)
      /\ DOMAIN w.lists = DOMAIN b.lists
      /\ \A l \in DOMAIN b.lists :
            w.lists[l] = MergeScalarSequence(b.lists[l], o.lists[l], t.lists[l])
      /\ MapSettled(b.metadata, o.metadata, t.metadata, w.metadata)
      /\ w.evidence = b.evidence
  BY ObjectSettled DEF IsPlain
<1> HIDE DEF w
<1>3. EvidenceSettled(b.evidence, o.evidence, t.evidence, w.evidence)
  BY <1>1, <1>2 DEF EvidenceSettled, Clash, Settled
<1> QED BY <1>2, <1>3 DEF PartsSettled, w

LEMMA ProposalSettled ==
    ASSUME AbsentIsNoObject, NEW kind, NEW b, NEW o, NEW t,
           IsObject(kind, b), IsObject(kind, o), IsObject(kind, t),
           ProposalConflicts(b, o, t) = {}
    PROVE  /\ PartsSettled(b, o, t, MergeProposal(b, o, t))
           /\ DOMAIN MergeProposal(b, o, t) = DOMAIN b
           /\ "aliases" \in DOMAIN b => MergeProposal(b, o, t).aliases = b.aliases
<1> DEFINE within == IndexedListConflicts(b.evidence, o.evidence, t.evidence,
                                          EvidenceItemConflicts)
           n == MergeObject(b, o, t)
           w == MergeProposal(b, o, t)
           evidence == MergeIndexedList(b.evidence, o.evidence, t.evidence, MergeEvidence)
<1>1. ObjectConflicts(b, o, t) = {} /\ within = {}
  <2>1. ObjectConflicts(b, o, t) = {} /\ Beneath(<<"evidence">>, within) = {}
    BY DEF ProposalConflicts
  <2> HIDE DEF within
  <2> QED
    BY <2>1 DEF Beneath
<1>2. EvidenceSettled(b.evidence, o.evidence, t.evidence, evidence)
  <2>1. Indexed(b.evidence) /\ Indexed(o.evidence) /\ Indexed(t.evidence)
    BY DEF IsObject
  <2> DEFINE be == b.evidence
             oe == o.evidence
             te == t.evidence
  <2>2. /\ Indexed(be) /\ Indexed(oe) /\ Indexed(te)
        /\ IndexedListConflicts(be, oe, te, EvidenceItemConflicts) = {}
    BY <1>1, <2>1
  <2> HIDE DEF be, oe, te
  <2> DEFINE me == MergeIndexedList(be, oe, te, MergeEvidence)
  <2>3. \A id : Outcome(ItemAt(be, id), ItemAt(oe, id), ItemAt(te, id), ItemAt(me, id),
                        MergeEvidence(ItemAt(be, id), ItemAt(oe, id), ItemAt(te, id)),
                        EvidenceItemConflicts(ItemAt(be, id), ItemAt(oe, id), ItemAt(te, id)))
    BY <2>2, EvidenceListAt
  <2> HIDE DEF me
  <2>4. EvidenceSettled(be, oe, te, me)
    BY <2>3 DEF Outcome, EvidenceItemConflicts, EvidenceSettled
  <2> QED BY <2>4 DEF be, oe, te, me
<1>3. DOMAIN n = DOMAIN b /\ n.evidence = b.evidence
      /\ ("aliases" \in DOMAIN b => n.aliases = b.aliases)
  BY <1>1, ObjectKeepsBothEdits
<1>4. w = [n EXCEPT !.evidence = evidence]
  BY <1>3 DEF MergeProposal
<1>5. {"id", "fields", "lists", "metadata", "evidence"} \subseteq DOMAIN n
  BY <1>3 DEF IsObject
<1>6. /\ MapSettled(b.fields, o.fields, t.fields, n.fields)
      /\ DOMAIN n.lists = DOMAIN b.lists
      /\ \A l \in DOMAIN b.lists :
            n.lists[l] = MergeScalarSequence(b.lists[l], o.lists[l], t.lists[l])
      /\ MapSettled(b.metadata, o.metadata, t.metadata, n.metadata)
  BY <1>1, ObjectSettled
<1> HIDE DEF n, w, evidence
<1>7. /\ w.fields = n.fields /\ w.metadata = n.metadata /\ w.lists = n.lists
      /\ w.evidence = evidence /\ DOMAIN w = DOMAIN n
      /\ ("aliases" \in DOMAIN n => w.aliases = n.aliases)
  BY <1>4, <1>5
<1>8. PartsSettled(b, o, t, w)
  BY <1>2, <1>6, <1>7 DEF PartsSettled
<1> QED BY <1>3, <1>7, <1>8 DEF w

\* A term: its parts are settled, and its aliases merged.
LEMMA TermSettled ==
    ASSUME AbsentIsNoObject, NEW kinds, NEW b, NEW o, NEW t,
           IsTerm(kinds, b), IsTerm(kinds, o), IsTerm(kinds, t),
           TermConflicts(b, o, t) = {}
    PROVE  /\ PartsSettled(b, o, t, MergeTerm(b, o, t))
           /\ MergeTerm(b, o, t).aliases =
                  MergeIndexedList(b.aliases, o.aliases, t.aliases, MergeObject)
           /\ IndexedListConflicts(b.aliases, o.aliases, t.aliases, ObjectConflicts) = {}
<1> DEFINE n == MergeProposal(b, o, t)
           m == MergeTerm(b, o, t)
           aliases == MergeIndexedList(b.aliases, o.aliases, t.aliases, MergeObject)
           within == IndexedListConflicts(b.aliases, o.aliases, t.aliases, ObjectConflicts)
<1>1. ProposalConflicts(b, o, t) = {} /\ within = {}
  <2>1. ProposalConflicts(b, o, t) = {} /\ Beneath(<<"aliases">>, within) = {}
    BY DEF TermConflicts
  <2> HIDE DEF within
  <2> QED
    BY <2>1 DEF Beneath
<1>2. PartsSettled(b, o, t, n) /\ DOMAIN n = DOMAIN b /\ n.aliases = b.aliases
  BY <1>1, ProposalSettled DEF IsTerm
<1>3. m = [n EXCEPT !.aliases = aliases]
  BY <1>2 DEF MergeTerm
<1>4. "aliases" \in DOMAIN n /\ {"id", "fields", "lists", "metadata", "evidence"} \subseteq DOMAIN n
  BY <1>2 DEF IsTerm, IsObject
<1> HIDE DEF n, m, aliases, within
<1>5. /\ m.fields = n.fields /\ m.metadata = n.metadata /\ m.evidence = n.evidence
      /\ m.lists = n.lists /\ m.aliases = aliases
  BY <1>3, <1>4
<1>6. PartsSettled(b, o, t, m)
  BY <1>2, <1>5 DEF PartsSettled
<1> QED
  BY <1>1, <1>5, <1>6 DEF m, aliases, within

-----------------------------------------------------------------------------
(* From theirs to what is merged, only what ours touched changes.          *)

LEMMA SettledChange ==
    ASSUME NEW x, NEW y, NEW z, ~Clash(x, y, z), Settled(x, y, z) # z
    PROVE  z = x /\ Settled(x, y, z) = y /\ x # y
BY DEF Clash, Settled

LEMMA MapMerged ==
    ASSUME NEW T, NEW b, NEW o, NEW t, NEW w, MapSettled(b, o, t, w), CoversMap(T, b, o)
    PROVE  CoversMap(T, t, w)
<1>1. ASSUME NEW k, ValueAt(t, k) # ValueAt(w, k) PROVE <<>> \in Tails(T, k)
  <2>1. ValueAt(b, k) # ValueAt(o, k)
    BY <1>1, SettledChange DEF MapSettled
  <2> QED BY <2>1 DEF CoversMap
<1> QED BY <1>1 DEF CoversMap

LEMMA EvidenceMerged ==
    ASSUME NEW T, NEW b, NEW o, NEW t, NEW w, EvidenceSettled(b, o, t, w),
           CoversEvidence(T, b, o)
    PROVE  CoversEvidence(T, t, w)
<1>1. ASSUME NEW k, ItemAt(t, k) # ItemAt(w, k) PROVE <<>> \in Tails(T, k)
  <2>1. ItemAt(b, k) # ItemAt(o, k)
    BY <1>1, SettledChange DEF EvidenceSettled
  <2> QED BY <2>1 DEF CoversEvidence
<1> QED BY <1>1 DEF CoversEvidence

LEMMA PartsMerged ==
    ASSUME NEW T, NEW b, NEW o, NEW t, NEW w, PartsSettled(b, o, t, w), CoversParts(T, b, o)
    PROVE  CoversParts(T, t, w)
BY MapMerged, EvidenceMerged DEF PartsSettled, CoversParts

\* Merged within, all four are there.
LEMMA TouchesMerged ==
    ASSUME NEW T, NEW x, NEW y, NEW z, NEW w, MergedWithin(x, y, z), w # Absent, Touches(T, x, y)
    PROVE  Touches(T, z, w) /\ Absent \notin {x, y, z}
BY DEF MergedWithin, Clash, Touches

LEMMA SettledObject ==
    ASSUME NEW x, NEW y, NEW z, NEW w, ~Clash(x, y, z), w = Settled(x, y, z)
    PROVE  w = z \/ (z = x /\ w = y)
BY SettledChange

LEMMA PlainsMerged ==
    ASSUME AbsentIsNoObject, NEW T, NEW kind, NEW b, NEW o, NEW t,
           Indexed(b), Indexed(o), Indexed(t),
           \A x \in ToSet(b) \cup ToSet(o) \cup ToSet(t) : IsPlain(kind, x),
           IndexedListConflicts(b, o, t, ObjectConflicts) = {},
           CoversObjects(T, b, o)
    PROVE  CoversObjects(T, t, MergeIndexedList(b, o, t, MergeObject))
<1> DEFINE m == MergeIndexedList(b, o, t, MergeObject)
<1>1. \A id : Outcome(ItemAt(b, id), ItemAt(o, id), ItemAt(t, id), ItemAt(m, id),
                      MergeObject(ItemAt(b, id), ItemAt(o, id), ItemAt(t, id)),
                      ObjectConflicts(ItemAt(b, id), ItemAt(o, id), ItemAt(t, id)))
  BY PlainListAt
<1> HIDE DEF m
<1>2. ASSUME NEW id
      PROVE  CoversObject(Tails(T, id), ItemAt(t, id), ItemAt(m, id))
  <2> DEFINE x == ItemAt(b, id)
             y == ItemAt(o, id)
             z == ItemAt(t, id)
             w == ItemAt(m, id)
             U == Tails(T, id)
  <2>1. Outcome(x, y, z, w, MergeObject(x, y, z), ObjectConflicts(x, y, z)) /\ CoversObject(U, x, y)
    BY <1>1 DEF CoversObjects
  <2>2. Absent \notin {x, y, z} =>
            IsPlain(kind, x) /\ IsPlain(kind, y) /\ IsPlain(kind, z)
    BY IndexedFacts
  <2> HIDE DEF x, y, z, w, U
  <2>3. CASE ~MergedWithin(x, y, z)
    <3>1. w = z \/ (z = x /\ w = y)
      BY <2>1, <2>3, SettledObject DEF Outcome
    <3> QED BY <2>1, <3>1, ObjectCovered DEF x, y, z, w, U
  <2>4. CASE MergedWithin(x, y, z)
    <3>1. w = MergeObject(x, y, z) /\ w # Absent /\ ObjectConflicts(x, y, z) = {}
      BY <2>1, <2>4 DEF Outcome
    <3>2. Touches(U, z, w) /\ Absent \notin {x, y, z}
      BY <2>1, <2>4, <3>1, TouchesMerged DEF CoversObject
    <3>3. PartsSettled(x, y, z, w)
      BY <2>2, <3>1, <3>2, PlainSettled
    <3>4. CoversParts(U, z, w)
      BY <2>1, <3>2, <3>3, PartsMerged DEF CoversObject
    <3>5. CoversObject(U, z, w)
      BY <3>2, <3>4 DEF CoversObject
    <3> QED BY <3>5 DEF z, w, U
  <2> QED BY <2>3, <2>4
<1> QED BY <1>2 DEF CoversObjects, m

LEMMA ProposalsMerged ==
    ASSUME AbsentIsNoObject, NEW T, NEW kind, NEW b, NEW o, NEW t,
           Indexed(b), Indexed(o), Indexed(t),
           \A x \in ToSet(b) \cup ToSet(o) \cup ToSet(t) : IsObject(kind, x),
           IndexedListConflicts(b, o, t, ProposalConflicts) = {},
           CoversObjects(T, b, o)
    PROVE  CoversObjects(T, t, MergeIndexedList(b, o, t, MergeProposal))
<1> DEFINE m == MergeIndexedList(b, o, t, MergeProposal)
<1>1. \A id : Outcome(ItemAt(b, id), ItemAt(o, id), ItemAt(t, id), ItemAt(m, id),
                      MergeProposal(ItemAt(b, id), ItemAt(o, id), ItemAt(t, id)),
                      ProposalConflicts(ItemAt(b, id), ItemAt(o, id), ItemAt(t, id)))
  BY ProposalListAt
<1> HIDE DEF m
<1>2. ASSUME NEW id
      PROVE  CoversObject(Tails(T, id), ItemAt(t, id), ItemAt(m, id))
  <2> DEFINE x == ItemAt(b, id)
             y == ItemAt(o, id)
             z == ItemAt(t, id)
             w == ItemAt(m, id)
             U == Tails(T, id)
  <2>1. Outcome(x, y, z, w, MergeProposal(x, y, z), ProposalConflicts(x, y, z)) /\ CoversObject(U, x, y)
    BY <1>1 DEF CoversObjects
  <2>2. Absent \notin {x, y, z} =>
            IsObject(kind, x) /\ IsObject(kind, y) /\ IsObject(kind, z)
    BY IndexedFacts
  <2> HIDE DEF x, y, z, w, U
  <2>3. CASE ~MergedWithin(x, y, z)
    <3>1. w = z \/ (z = x /\ w = y)
      BY <2>1, <2>3, SettledObject DEF Outcome
    <3> QED BY <2>1, <3>1, ObjectCovered DEF x, y, z, w, U
  <2>4. CASE MergedWithin(x, y, z)
    <3>1. w = MergeProposal(x, y, z) /\ w # Absent /\ ProposalConflicts(x, y, z) = {}
      BY <2>1, <2>4 DEF Outcome
    <3>2. Touches(U, z, w) /\ Absent \notin {x, y, z}
      BY <2>1, <2>4, <3>1, TouchesMerged DEF CoversObject
    <3>3. PartsSettled(x, y, z, w)
      BY <2>2, <3>1, <3>2, ProposalSettled
    <3>4. CoversParts(U, z, w)
      BY <2>1, <3>2, <3>3, PartsMerged DEF CoversObject
    <3>5. CoversObject(U, z, w)
      BY <3>2, <3>4 DEF CoversObject
    <3> QED BY <3>5 DEF z, w, U
  <2> QED BY <2>3, <2>4
<1> QED BY <1>2 DEF CoversObjects, m

LEMMA TermsMerged ==
    ASSUME AbsentIsNoObject, NEW T, NEW kinds, NEW b, NEW o, NEW t,
           Indexed(b), Indexed(o), Indexed(t),
           \A x \in ToSet(b) \cup ToSet(o) \cup ToSet(t) : IsTerm(kinds, x),
           IndexedListConflicts(b, o, t, TermConflicts) = {},
           CoversTerms(T, b, o)
    PROVE  CoversTerms(T, t, MergeIndexedList(b, o, t, MergeTerm))
<1> DEFINE m == MergeIndexedList(b, o, t, MergeTerm)
<1>1. \A id : Outcome(ItemAt(b, id), ItemAt(o, id), ItemAt(t, id), ItemAt(m, id),
                      MergeTerm(ItemAt(b, id), ItemAt(o, id), ItemAt(t, id)),
                      TermConflicts(ItemAt(b, id), ItemAt(o, id), ItemAt(t, id)))
  BY TermListAt
<1> HIDE DEF m
<1>2. ASSUME NEW id
      PROVE  CoversTerm(Tails(T, id), ItemAt(t, id), ItemAt(m, id))
  <2> DEFINE x == ItemAt(b, id)
             y == ItemAt(o, id)
             z == ItemAt(t, id)
             w == ItemAt(m, id)
             U == Tails(T, id)
  <2>1. Outcome(x, y, z, w, MergeTerm(x, y, z), TermConflicts(x, y, z)) /\ CoversTerm(U, x, y)
    BY <1>1 DEF CoversTerms
  <2>2. Absent \notin {x, y, z} =>
            IsTerm(kinds, x) /\ IsTerm(kinds, y) /\ IsTerm(kinds, z)
    BY IndexedFacts
  <2> HIDE DEF x, y, z, w, U
  <2>3. CASE ~MergedWithin(x, y, z)
    <3>1. w = z \/ (z = x /\ w = y)
      BY <2>1, <2>3, SettledObject DEF Outcome
    <3> QED BY <2>1, <3>1, TermCovered DEF x, y, z, w, U
  <2>4. CASE MergedWithin(x, y, z)
    <3>1. w = MergeTerm(x, y, z) /\ w # Absent /\ TermConflicts(x, y, z) = {}
      BY <2>1, <2>4 DEF Outcome
    <3>2. Touches(U, z, w) /\ Absent \notin {x, y, z}
      BY <2>1, <2>4, <3>1, TouchesMerged DEF CoversObject, CoversTerm
    <3> DEFINE aliases == MergeIndexedList(x.aliases, y.aliases, z.aliases, MergeObject)
    <3>3. /\ PartsSettled(x, y, z, w) /\ w.aliases = aliases
          /\ IndexedListConflicts(x.aliases, y.aliases, z.aliases, ObjectConflicts) = {}
      BY <2>2, <3>1, <3>2, TermSettled
    <3>4. CoversParts(U, z, w)
      BY <2>1, <3>2, <3>3, PartsMerged DEF CoversObject, CoversTerm
    <3>6. CoversObjects(Tails(U, "aliases"), z.aliases, aliases)
      <4> DEFINE kind == kinds.aliases
      <4>1. /\ Indexed(x.aliases) /\ Indexed(y.aliases) /\ Indexed(z.aliases)
            /\ \A a \in ToSet(x.aliases) \cup ToSet(y.aliases) \cup ToSet(z.aliases) :
                  IsPlain(kind, a)
        BY <2>2, <3>2 DEF IsTerm
      <4> HIDE DEF kind
      <4>2. CoversObjects(Tails(U, "aliases"), x.aliases, y.aliases)
        BY <2>1, <3>2 DEF CoversTerm
      <4> QED BY <3>3, <4>1, <4>2, PlainsMerged
    <3>5. CoversTerm(U, z, w)
      BY <3>2, <3>3, <3>4, <3>6 DEF CoversObject, CoversTerm
    <3> QED BY <3>5 DEF z, w, U
  <2> QED BY <2>3, <2>4
<1> QED BY <1>2 DEF CoversTerms, m

LEMMA LexiconMerged ==
    ASSUME AbsentIsNoObject, NEW T, NEW kinds, NEW b, NEW o, NEW t,
           WellFormed(kinds, b), WellFormed(kinds, o), WellFormed(kinds, t),
           Conflicts(b, o, t) = {}, CoversLexicon(T, b, o)
    PROVE  CoversLexicon(T, t, MergedPayload(b, o, t))
<1> DEFINE m == MergedPayload(b, o, t)
           metadata == MappingConflicts(b.metadata, o.metadata, t.metadata)
           scopes == IndexedListConflicts(b.scopes, o.scopes, t.scopes, ObjectConflicts)
           terms == IndexedListConflicts(b.terms, o.terms, t.terms, TermConflicts)
           proposals == IndexedListConflicts(b.proposals, o.proposals, t.proposals,
                                             ProposalConflicts)
<1>1. metadata = {} /\ scopes = {} /\ terms = {} /\ proposals = {}
  <2>1. /\ Beneath(<<"metadata">>, metadata) = {} /\ Beneath(<<"scopes">>, scopes) = {}
        /\ Beneath(<<"terms">>, terms) = {} /\ Beneath(<<"proposals">>, proposals) = {}
    BY DEF Conflicts
  <2> HIDE DEF metadata, scopes, terms, proposals
  <2> QED
    BY <2>1 DEF Beneath
<1>2. /\ m.metadata = MergeMapping(b.metadata, o.metadata, t.metadata)
      /\ m.scopes = MergeIndexedList(b.scopes, o.scopes, t.scopes, MergeObject)
      /\ m.terms = MergeIndexedList(b.terms, o.terms, t.terms, MergeTerm)
      /\ m.proposals = MergeIndexedList(b.proposals, o.proposals, t.proposals, MergeProposal)
  BY DEF MergedPayload
<1> HIDE DEF m
<1>3. CoversMap(Tails(T, "metadata"), t.metadata, m.metadata)
  BY <1>1, <1>2, MappingSettled, MapMerged DEF CoversLexicon
<1>4. CoversObjects(Tails(T, "scopes"), t.scopes, m.scopes)
  <2> DEFINE kind == kinds.scopes
  <2>1. /\ Indexed(b.scopes) /\ Indexed(o.scopes) /\ Indexed(t.scopes)
        /\ \A x \in ToSet(b.scopes) \cup ToSet(o.scopes) \cup ToSet(t.scopes) : IsPlain(kind, x)
    BY DEF WellFormed, Sections
  <2> HIDE DEF kind
  <2>2. CoversObjects(Tails(T, "scopes"), b.scopes, o.scopes) /\ scopes = {}
    BY <1>1 DEF CoversLexicon
  <2> QED BY <1>2, <2>1, <2>2, PlainsMerged
<1>5. CoversTerms(Tails(T, "terms"), t.terms, m.terms)
  <2>1. /\ Indexed(b.terms) /\ Indexed(o.terms) /\ Indexed(t.terms)
        /\ \A x \in ToSet(b.terms) \cup ToSet(o.terms) \cup ToSet(t.terms) : IsTerm(kinds, x)
    BY DEF WellFormed, Sections
  <2>2. CoversTerms(Tails(T, "terms"), b.terms, o.terms) /\ terms = {}
    BY <1>1 DEF CoversLexicon
  <2> QED BY <1>2, <2>1, <2>2, TermsMerged
<1>6. CoversObjects(Tails(T, "proposals"), t.proposals, m.proposals)
  <2> DEFINE kind == kinds.proposals
  <2>1. /\ Indexed(b.proposals) /\ Indexed(o.proposals) /\ Indexed(t.proposals)
        /\ \A x \in ToSet(b.proposals) \cup ToSet(o.proposals) \cup ToSet(t.proposals) :
              IsObject(kind, x)
    BY DEF WellFormed, Sections
  <2> HIDE DEF kind
  <2>2. CoversObjects(Tails(T, "proposals"), b.proposals, o.proposals) /\ proposals = {}
    BY <1>1 DEF CoversLexicon
  <2> QED BY <1>2, <2>1, <2>2, ProposalsMerged
<1> QED BY <1>3, <1>4, <1>5, <1>6 DEF CoversLexicon, m

\* On each side, every difference from the base was touched.
CoversBranches ==
    \A s \in Sides : CoversLexicon(touched[s], base, branch[s])

TouchedInv == CoversBranches /\ DOMAIN touched = Sides

LEMMA CoversInv ==
    ASSUME AbsentIsNoObject, NEW CONSTANT kinds, OfKinds(kinds)
    PROVE  Spec => []CoversBranches
<1>1. Init => TouchedInv
  BY LexiconCovered DEF Init, CoversBranches, TouchedInv
<1>2. ASSUME MergeInv(kinds), CoversBranches, DOMAIN touched = Sides, [Next]_vars
      PROVE  CoversBranches' /\ DOMAIN touched' = Sides
  <2>1. CASE \E s \in Sides : EditBranch(s)
    <3>1. PICK s \in Sides : EditBranch(s)
      BY <2>1
    <3>2. PICK e \in LexiconEdits(branch[s]) :
              /\ branch' = [branch EXCEPT ![s] = e.to]
              /\ touched' = [touched EXCEPT ![s] = @ \cup {e.path}]
      BY <3>1 DEF EditBranch
    <3> DEFINE T == touched[s]
               U == touched[s] \cup {e.path}
               x == branch[s]
    <3>3. CoversLexicon(U, base, x)
      <4>1. T \subseteq U /\ CoversLexicon(T, base, x)
        BY <1>2 DEF CoversBranches
      <4> HIDE DEF T, U, x
      <4> QED BY <4>1, LexiconCovered
    <3>4. CoversLexicon(U, x, e.to)
      BY <1>2, LexiconEdited DEF MergeInv
    <3>5. CoversLexicon(U, base, e.to)
      <4> HIDE DEF U, x
      <4> QED BY <3>3, <3>4, LexiconCovered
    <3>6. base' = base /\ branch'[s] = e.to /\ touched'[s] = U
      BY <1>2, <3>1, <3>2 DEF EditBranch, MergeInv
    <3>7. \A r \in Sides \ {s} : branch'[r] = branch[r] /\ touched'[r] = touched[r]
      BY <1>2, <3>2 DEF MergeInv
    <3>8. DOMAIN touched' = Sides
      BY <1>2, <3>2
    <3> HIDE DEF U
    <3>9. CoversBranches'
      BY <1>2, <3>5, <3>6, <3>7 DEF CoversBranches
    <3> QED BY <3>8, <3>9
  <2>2. CASE RunMerge
    BY <1>2, <2>2 DEF RunMerge, CoversBranches
  <2>3. CASE WriteMerged
    <3> DEFINE o == branch["ours"]
               t == branch["theirs"]
               m == report.merged
    <3>1. report = Merged
      BY <1>2, <2>3 DEF WriteMerged, MergeInv, NoReport
    <3>2. Conflicts(base, o, t) = {} /\ m = MergedPayload(base, o, t)
      BY <2>3, <3>1 DEF WriteMerged, Merged, MergeLexicons
    <3>3. WellFormed(kinds, base) /\ WellFormed(kinds, o) /\ WellFormed(kinds, t)
      BY <1>2 DEF MergeInv, Sides
    <3>4. CoversLexicon(touched["ours"], base, o)
      BY <1>2 DEF CoversBranches, Sides
    <3>5. /\ base' = t /\ branch' = [branch EXCEPT !["ours"] = m]
          /\ touched' = [touched EXCEPT !["theirs"] = {}]
      BY <2>3 DEF WriteMerged
    <3>6. /\ branch'["ours"] = m /\ branch'["theirs"] = t
          /\ touched'["ours"] = touched["ours"] /\ DOMAIN touched' = Sides
      BY <1>2, <3>5 DEF MergeInv, Sides
    <3> HIDE DEF o, t, m
    <3>7. CoversLexicon(touched["ours"], t, m)
      BY <3>2, <3>3, <3>4, LexiconMerged
    <3>8. CoversLexicon(touched'["theirs"], t, t)
      BY LexiconCovered
    <3> QED BY <3>5, <3>6, <3>7, <3>8 DEF CoversBranches, Sides
  <2>4. CASE UNCHANGED vars
    BY <1>2, <2>4 DEF vars, CoversBranches
  <2> QED
    BY <1>2, <2>1, <2>2, <2>3, <2>4 DEF Next
<1>3. MergeInv(kinds) /\ TouchedInv /\ [Next]_vars => TouchedInv'
  BY <1>2 DEF TouchedInv
<1>4. TouchedInv => CoversBranches
  BY DEF TouchedInv
<1> QED BY <1>1, <1>3, <1>4, MergesInv, PTL DEF Spec

\* OnlyCompetingEditsConflict of every run: a conflict names a place that one side
\* edited, or edited what it is in, while the other edited there too, for lexicons
\* of any size, however many edits were made and merges written.  Everything that
\* is different from the base was touched, and a merge that is written leaves on
\* our side, against theirs, only what ours touched (dictionary/merge.py's
\* merge_lexicons, whose merged file cli.py writes over ours).
THEOREM ConflictsAreCompetingEdits ==
    ASSUME AbsentIsNoObject, NEW CONSTANT kinds, OfKinds(kinds)
    PROVE  Spec => []OnlyCompetingEditsConflict
<1>1. ASSUME MergeInv(kinds), CoversBranches
      PROVE  OnlyCompetingEditsConflict
  <2> DEFINE o == branch["ours"]
             t == branch["theirs"]
             T == touched["ours"]
             U == touched["theirs"]
  <2>1. WellFormed(kinds, base) /\ WellFormed(kinds, o) /\ WellFormed(kinds, t)
    BY <1>1 DEF MergeInv, Sides
  <2>2. CoversLexicon(T, base, o) /\ CoversLexicon(U, base, t)
    BY <1>1 DEF CoversBranches, Sides
  <2>3. \A c \in report.conflicts \ WholeLexicon : c \in Conflicts(base, o, t)
    BY <1>1 DEF MergeInv, NoReport, Merged, MergeLexicons
  <2> HIDE DEF o, t
  <2>4. \A c \in Conflicts(base, o, t) : Competes(T, U, c)
    BY <2>1, <2>2, LexiconCompetes
  <2>5. ASSUME NEW c, Competes(T, U, c)
        PROVE  \E s \in Sides :
                   /\ \E p \in touched[s] : IsPrefix(p, c)
                   /\ \A other \in Sides \ {s} :
                         \E p \in touched[other] : IsPrefix(p, c) \/ IsPrefix(c, p)
    <3>1. /\ "ours" \in Sides /\ "theirs" \in Sides
          /\ Sides \ {"ours"} = {"theirs"} /\ Sides \ {"theirs"} = {"ours"}
      BY DEF Sides
    <3>2. CASE Over(T, c) /\ Near(U, c)
      <4>1. /\ \E p \in touched["ours"] : IsPrefix(p, c)
            /\ \A other \in Sides \ {"ours"} :
                  \E p \in touched[other] : IsPrefix(p, c) \/ IsPrefix(c, p)
        BY <3>1, <3>2 DEF Over, Near
      <4> QED BY <3>1, <4>1
    <3>3. CASE Over(U, c) /\ Near(T, c)
      <4>1. /\ \E p \in touched["theirs"] : IsPrefix(p, c)
            /\ \A other \in Sides \ {"theirs"} :
                  \E p \in touched[other] : IsPrefix(p, c) \/ IsPrefix(c, p)
        BY <3>1, <3>3 DEF Over, Near
      <4> QED BY <3>1, <4>1
    <3> QED BY <2>5, <3>2, <3>3 DEF Competes
  <2> QED BY <2>3, <2>4, <2>5 DEF OnlyCompetingEditsConflict
<1>2. MergeInv(kinds) /\ CoversBranches => OnlyCompetingEditsConflict
  BY <1>1
<1> QED
  BY <1>2, MergesInv, CoversInv, PTL

-----------------------------------------------------------------------------
(* What is told of a merge: the changes from the base to what is merged,   *)
(* beside those to either side.                                            *)

\* Picking every place of a sequence leaves it as it is.
LEMMA PickedAll ==
    ASSUME NEW S, NEW seq \in Seq(S)
    PROVE  Picked(seq, DOMAIN seq) = seq
<1>1. PICK g \in PicksUpTo(seq, DOMAIN seq, Len(seq)) : Picked(seq, DOMAIN seq) = g[Len(seq)]
  BY PickedIs
<1>2. g[0] = <<>> /\ \A n \in 1..Len(seq) : g[n] = PickedNext(seq, DOMAIN seq, g[n - 1], n)
  BY DEF PicksUpTo
<1>3. Len(seq) \in Nat /\ DOMAIN seq = 1..Len(seq)
      /\ \A i \in 1..Len(seq) : seq[i] \in S
  BY LenProperties, ElementOfSeq
<1> DEFINE Good(k) == g[k] \in Seq(S) /\ Len(g[k]) = k /\ \A i \in 1..k : g[k][i] = seq[i]
           H == {k \in Nat : k <= Len(seq) => Good(k)}
<1>4. 0 \in H
  <2>1. <<>> \in Seq(S) /\ Len(<<>>) = 0
    BY EmptySeq
  <2>2. Good(0)
    BY <1>2, <2>1
  <2> QED
    BY <2>2
<1>5. ASSUME NEW k \in Nat, k \in H
      PROVE  k + 1 \in H
  <2> SUFFICES ASSUME k + 1 <= Len(seq) PROVE Good(k + 1)
    OBVIOUS
  <2>1. k + 1 \in 1..Len(seq) /\ (k + 1) - 1 = k /\ Good(k) /\ seq[k + 1] \in S
    BY <1>3, <1>5
  <2>2. g[k + 1] = Append(g[k], seq[k + 1])
    BY <1>2, <1>3, <2>1 DEF PickedNext
  <2>3. /\ Append(g[k], seq[k + 1]) \in Seq(S)
        /\ Len(Append(g[k], seq[k + 1])) = k + 1
        /\ Append(g[k], seq[k + 1])[k + 1] = seq[k + 1]
        /\ \A i \in 1..k : Append(g[k], seq[k + 1])[i] = g[k][i]
    BY <2>1, AppendProperties
  <2>4. \A i \in 1..(k + 1) : i = k + 1 \/ i \in 1..k
    OBVIOUS
  <2> QED
    BY <2>1, <2>2, <2>3, <2>4
<1> HIDE DEF H
<1>6. Nat \subseteq H
  BY <1>4, <1>5, Counting
<1>7. Good(Len(seq))
  <2>1. Len(seq) \in H
    BY <1>3, <1>6
  <2> HIDE DEF Good
  <2> QED
    BY <1>3, <2>1 DEF H
<1>8. g[Len(seq)] = seq
  BY <1>3, <1>7, SeqEqual
<1> QED
  BY <1>1, <1>8

LEMMA NoElements ==
    ASSUME NEW S, NEW seq \in Seq(S), ToSet(seq) = {}
    PROVE  seq = <<>>
<1>1. Len(seq) \in Nat /\ DOMAIN seq = 1..Len(seq)
  BY LenProperties
<1>2. \A i \in 1..Len(seq) : seq[i] \in ToSet(seq)
  BY <1>1 DEF ToSet
<1>3. Len(seq) = 0
  BY <1>1, <1>2
<1> QED
  BY <1>3, EmptySeq

\* A list that neither side changed stays as it was, with its order.
LEMMA ScalarSequenceSame ==
    ASSUME NEW b, IsList(b)
    PROVE  MergeScalarSequence(b, b, b) = b
<1> DEFINE S == ToSet(b)
           places == PlacesOf(b, ToSet(b) \cap ToSet(b))
           values == b \o b
           new == Picked(values, PlacesOf(values, ToSet(values) \ ToSet(b)))
<1>1. b \in Seq(S)
  BY DEF IsList
<1>2. places = DOMAIN b
  BY DEF PlacesOf, ToSet
<1>3. Picked(b, places) = b
  BY <1>1, <1>2, PickedAll
<1>4. values \in Seq(S) /\ ToSet(values) = S
  <2>1. b \o b \in Seq(S) /\ ToSet(b \o b) = ToSet(b) \cup ToSet(b)
    <3> HIDE DEF S
    <3> QED BY <1>1, ConcatFacts
  <2> QED BY <2>1
<1>5. new = <<>>
  <2> HIDE DEF values
  <2> DEFINE gone == ToSet(values) \ ToSet(b)
  <2>0. gone = {}
    BY <1>4
  <2> HIDE DEF gone
  <2>1. new \in Seq(S) /\ ToSet(new) = ToSet(values) \cap gone
    BY <1>4, PlacesFacts DEF gone
  <2> HIDE DEF new
  <2> QED
    BY <2>0, <2>1, NoElements
<1>6. Distinct(new) = <<>>
  <2>1. <<>> \in Seq(S) /\ ToSet(<<>>) = {}
    BY EmptySeq DEF ToSet
  <2>2. Distinct(<<>>) \in Seq(S) /\ ToSet(Distinct(<<>>)) = {}
    BY <2>1, DistinctFacts
  <2>3. Distinct(<<>>) = <<>>
    BY <2>2, NoElements
  <2> QED
    BY <1>5, <2>3
<1>7. MergeScalarSequence(b, b, b) = Picked(b, places) \o Distinct(new)
  BY DEF MergeScalarSequence, Added
<1> HIDE DEF places, new
<1>8. b \o <<>> = b
  BY <1>1, ConcatEmptySeq
<1> QED
  BY <1>3, <1>6, <1>7, <1>8

-----------------------------------------------------------------------------
(* Of the changes cm to what is merged and co and ct to either side: all   *)
(* are of one side or the other, and what either added or removed is there.*)

AreChanges(changes) == \A c \in changes : "kind" \in DOMAIN c

Tells(cm, co, ct) ==
    /\ AreChanges(co \cup ct)
    /\ cm \subseteq co \cup ct
    /\ \A c \in co \cup ct : c.kind # "changed" => c \in cm

LEMMA TellsTogether ==
    ASSUME NEW cm, NEW co, NEW ct, Tells(cm, co, ct), NEW dm, NEW do, NEW dt, Tells(dm, do, dt)
    PROVE  Tells(cm \cup dm, co \cup do, ct \cup dt)
BY DEF Tells, AreChanges

LEMMA TellsUnder ==
    ASSUME NEW p, NEW cm, NEW co, NEW ct, Tells(cm, co, ct)
    PROVE  Tells(Under(p, cm), Under(p, co), Under(p, ct))
<1> DEFINE At(c) == [c EXCEPT !.path = p \o @]
<1>1. \A C : Under(p, C) = {At(c) : c \in C}
  BY DEF Under
<1>2. ASSUME NEW c \in co \cup ct
      PROVE  "kind" \in DOMAIN At(c) /\ At(c).kind = c.kind
  BY DEF Tells, AreChanges
<1> HIDE DEF At
<1>3. AreChanges(Under(p, co) \cup Under(p, ct))
  BY <1>1, <1>2 DEF AreChanges
<1>4. Under(p, cm) \subseteq Under(p, co) \cup Under(p, ct)
  BY <1>1 DEF Tells
<1>5. ASSUME NEW d \in Under(p, co) \cup Under(p, ct), d.kind # "changed"
      PROVE  d \in Under(p, cm)
  <2>1. PICK c \in co \cup ct : d = At(c)
    BY <1>1
  <2>2. c \in cm
    BY <1>2, <1>5, <2>1 DEF Tells
  <2> QED
    BY <1>1, <2>1, <2>2
<1> QED
  BY <1>3, <1>4, <1>5 DEF Tells

LEMMA UnderAreChanges ==
    ASSUME NEW p, NEW C, AreChanges(C)
    PROVE  AreChanges(Under(p, C)) /\ (C = {} => Under(p, C) = {})
BY DEF Under, AreChanges

-----------------------------------------------------------------------------
(* Lists of objects.                                                       *)

\* What changes from the objects under the ids of B to those under the ids of A:
\* within lists what changes within those of both.
ChangesAt(B, A, within) ==
    {Change("removed", <<id>>) : id \in B \ A} \cup
    {Change("added", <<id>>) : id \in A \ B} \cup
    UNION {Under(<<id>>, within[id]) : id \in B \cap A}

LEMMA IdsTell ==
    ASSUME NEW B, NEW O, NEW T, NEW M, NEW fm, NEW fo, NEW ft,
           \A id : id \in M <=> IF id \in B THEN id \in O /\ id \in T ELSE id \in O \/ id \in T,
           \A id \in B \cap M : Tells(fm[id], fo[id], ft[id]),
           \A id \in B \cap O : id \notin T => fo[id] = {},
           \A id \in B \cap T : id \notin O => ft[id] = {}
    PROVE  Tells(ChangesAt(B, M, fm), ChangesAt(B, O, fo), ChangesAt(B, T, ft))
<1> DEFINE Gone(A) == {Change("removed", <<id>>) : id \in B \ A}
           New(A) == {Change("added", <<id>>) : id \in A \ B}
           In(A, f) == UNION {Under(<<id>>, f[id]) : id \in B \cap A}
<1>1. \A id \in B \cap O : id \notin T => Under(<<id>>, fo[id]) = {}
  BY DEF Under
<1>2. \A id \in B \cap T : id \notin O => Under(<<id>>, ft[id]) = {}
  BY DEF Under
<1>3. \A id \in B \cap M :
          Tells(Under(<<id>>, fm[id]), Under(<<id>>, fo[id]), Under(<<id>>, ft[id]))
  BY TellsUnder
<1>4. Tells(Gone(M), Gone(O), Gone(T))
  <2>1. Gone(M) = Gone(O) \cup Gone(T)
    OBVIOUS
  <2>2. AreChanges(Gone(O) \cup Gone(T))
    BY DEF AreChanges, Change
  <2> HIDE DEF Gone
  <2> QED
    BY <2>1, <2>2 DEF Tells
<1>5. Tells(New(M), New(O), New(T))
  <2>1. New(M) = New(O) \cup New(T)
    OBVIOUS
  <2>2. AreChanges(New(O) \cup New(T))
    BY DEF AreChanges, Change
  <2> HIDE DEF New
  <2> QED
    BY <2>1, <2>2 DEF Tells
<1>6. Tells(In(M, fm), In(O, fo), In(T, ft))
  <2>1. ASSUME NEW c \in In(O, fo)
        PROVE  "kind" \in DOMAIN c /\ (c.kind # "changed" => c \in In(M, fm))
    <3>1. PICK id \in B \cap O : c \in Under(<<id>>, fo[id])
      OBVIOUS
    <3>2. id \in M
      BY <1>1, <3>1
    <3>3. Tells(Under(<<id>>, fm[id]), Under(<<id>>, fo[id]), Under(<<id>>, ft[id]))
      BY <1>3, <3>2
    <3> QED
      BY <3>1, <3>2, <3>3 DEF Tells, AreChanges
  <2>2. ASSUME NEW c \in In(T, ft)
        PROVE  "kind" \in DOMAIN c /\ (c.kind # "changed" => c \in In(M, fm))
    <3>1. PICK id \in B \cap T : c \in Under(<<id>>, ft[id])
      OBVIOUS
    <3>2. id \in M
      BY <1>2, <3>1
    <3>3. Tells(Under(<<id>>, fm[id]), Under(<<id>>, fo[id]), Under(<<id>>, ft[id]))
      BY <1>3, <3>2
    <3> QED
      BY <3>1, <3>2, <3>3 DEF Tells, AreChanges
  <2>3. ASSUME NEW c \in In(M, fm)
        PROVE  c \in In(O, fo) \cup In(T, ft)
    <3>1. PICK id \in B \cap M : c \in Under(<<id>>, fm[id])
      OBVIOUS
    <3>2. id \in O /\ id \in T
      BY <3>1
    <3>3. c \in Under(<<id>>, fo[id]) \cup Under(<<id>>, ft[id])
      BY <1>3, <3>1 DEF Tells
    <3> QED
      BY <3>2, <3>3
  <2> HIDE DEF In
  <2> QED
    BY <2>1, <2>2, <2>3 DEF Tells, AreChanges
<1>7. \A A, f : ChangesAt(B, A, f) = (Gone(A) \cup New(A)) \cup In(A, f)
  BY DEF ChangesAt
<1> HIDE DEF Gone, New, In
<1>8. Tells(Gone(M) \cup New(M), Gone(O) \cup New(O), Gone(T) \cup New(T))
  BY <1>4, <1>5, TellsTogether
<1>9. Tells((Gone(M) \cup New(M)) \cup In(M, fm), (Gone(O) \cup New(O)) \cup In(O, fo),
            (Gone(T) \cup New(T)) \cup In(T, ft))
  BY <1>6, <1>8, TellsTogether
<1> QED
  BY <1>7, <1>9

\* One object of a list: x in the base, y in ours, z in theirs and w merged, and
\* what changes within it.
ToldAt(x, y, z, w, cm, co, ct) ==
    /\ IF MergedWithin(x, y, z)
       THEN w # Absent /\ Tells(cm, co, ct)
       ELSE ~Clash(x, y, z) /\ w = Settled(x, y, z)
    /\ AreChanges(co) /\ AreChanges(ct)
    /\ (y = x => co = {}) /\ (z = x => ct = {})
    /\ (w = y => cm = co) /\ (w = z => cm = ct)

LEMMA ObjectTold ==
    ASSUME NEW x, NEW y, NEW z, NEW w, NEW cm, NEW co, NEW ct, ToldAt(x, y, z, w, cm, co, ct)
    PROVE  /\ w # Absent <=> IF x # Absent THEN y # Absent /\ z # Absent
                             ELSE y # Absent \/ z # Absent
           /\ x # Absent /\ y # Absent /\ z = Absent => co = {}
           /\ x # Absent /\ z # Absent /\ y = Absent => ct = {}
           /\ Tells(cm, co, ct)
<1>1. CASE MergedWithin(x, y, z)
  BY <1>1 DEF ToldAt, MergedWithin
<1>2. CASE ~MergedWithin(x, y, z)
  <2>1. Tells(cm, co, ct)
    <3>1. (w = y /\ z = x) \/ (w = z /\ y = x) \/ (w = y /\ w = z)
      BY <1>2 DEF ToldAt, Clash, Settled
    <3>2. CASE w = y /\ z = x
      <4>1. cm = co /\ ct = {}
        BY <3>2 DEF ToldAt
      <4> QED BY <4>1 DEF ToldAt, Tells, AreChanges
    <3>3. CASE w = z /\ y = x
      <4>1. cm = ct /\ co = {}
        BY <3>3 DEF ToldAt
      <4> QED BY <4>1 DEF ToldAt, Tells, AreChanges
    <3>4. CASE w = y /\ w = z
      <4>1. cm = ct /\ cm = co
        BY <3>4 DEF ToldAt
      <4> QED BY <4>1 DEF ToldAt, Tells, AreChanges
    <3> QED BY <3>1, <3>2, <3>3, <3>4
  <2> QED
    BY <1>2, <2>1 DEF ToldAt, Clash, Settled
<1> QED
  BY <1>1, <1>2

LEMMA ListTells ==
    ASSUME AbsentIsNoObject, NEW b, NEW o, NEW t, NEW m,
           Indexed(b), Indexed(o), Indexed(t), Indexed(m), NEW fm, NEW fo, NEW ft,
           Ids(m) \subseteq Keys(b, o, t),
           \A id \in Keys(b, o, t) :
               ToldAt(ItemAt(b, id), ItemAt(o, id), ItemAt(t, id), ItemAt(m, id),
                      fm[id], fo[id], ft[id])
    PROVE  Tells(ChangesAt(Ids(b), Ids(m), fm), ChangesAt(Ids(b), Ids(o), fo),
                 ChangesAt(Ids(b), Ids(t), ft))
<1>1. \A items : Indexed(items) => \A id : id \in Ids(items) <=> ItemAt(items, id) # Absent
  BY IndexedFacts
<1> DEFINE B == Ids(b)
           O == Ids(o)
           T == Ids(t)
           M == Ids(m)
<1>2. ASSUME NEW id \in Keys(b, o, t)
      PROVE  /\ id \in M <=> IF id \in B THEN id \in O /\ id \in T ELSE id \in O \/ id \in T
             /\ id \in B /\ id \in O /\ id \notin T => fo[id] = {}
             /\ id \in B /\ id \in T /\ id \notin O => ft[id] = {}
             /\ Tells(fm[id], fo[id], ft[id])
  <2> DEFINE x == ItemAt(b, id)
             y == ItemAt(o, id)
             z == ItemAt(t, id)
             w == ItemAt(m, id)
  <2>1. (id \in B <=> x # Absent) /\ (id \in O <=> y # Absent)
        /\ (id \in T <=> z # Absent) /\ (id \in M <=> w # Absent)
    BY <1>1
  <2>2. ToldAt(x, y, z, w, fm[id], fo[id], ft[id])
    OBVIOUS
  <2> HIDE DEF x, y, z, w, B, O, T, M
  <2>3. /\ w # Absent <=> IF x # Absent THEN y # Absent /\ z # Absent
                          ELSE y # Absent \/ z # Absent
        /\ x # Absent /\ y # Absent /\ z = Absent => fo[id] = {}
        /\ x # Absent /\ z # Absent /\ y = Absent => ft[id] = {}
        /\ Tells(fm[id], fo[id], ft[id])
    BY <2>2, ObjectTold
  <2> QED BY <2>1, <2>3
<1>4. M \subseteq Keys(b, o, t) /\ Keys(b, o, t) = (B \cup O) \cup T
  BY DEF Keys
<1> HIDE DEF B, O, T, M
<1>5. /\ \A id : id \in M <=> IF id \in B THEN id \in O /\ id \in T ELSE id \in O \/ id \in T
      /\ \A id \in B \cap M : Tells(fm[id], fo[id], ft[id])
      /\ \A id \in B \cap O : id \notin T => fo[id] = {}
      /\ \A id \in B \cap T : id \notin O => ft[id] = {}
  BY <1>2, <1>4
<1>3. Tells(ChangesAt(B, M, fm), ChangesAt(B, O, fo), ChangesAt(B, T, ft))
  BY <1>5, IdsTell
<1> QED BY <1>3 DEF B, O, T, M

-----------------------------------------------------------------------------
(* What objects hold beside other objects.                                 *)

\* The names of the parts that are told as changed as a whole.
NamesChanged(b, a) ==
    {f \in DOMAIN b.fields : b.fields[f] # a.fields[f]}
    \cup {l \in DOMAIN b.lists \ {"tools"} : b.lists[l] # a.lists[l]}
    \cup IF b.metadata = a.metadata THEN {} ELSE {"metadata"}

ToolsChanged(b, a) ==
    IF "tools" \in DOMAIN b.lists THEN ToolChanges(b.lists.tools, a.lists.tools) ELSE {}

LEMMA ObjectChangesAre ==
    ASSUME NEW b, NEW a
    PROVE  /\ ObjectChanges(b, a) = {Change("changed", <<n>>) : n \in NamesChanged(b, a)}
                                    \cup ToolsChanged(b, a)
           /\ AreChanges(ObjectChanges(b, a))
           /\ ObjectChanges(b, b) = {}
<1>1. \A c : ObjectChanges(b, c) = {Change("changed", <<n>>) : n \in NamesChanged(b, c)}
                                   \cup ToolsChanged(b, c)
  BY DEF ObjectChanges, NamesChanged, ToolsChanged
<1>2. AreChanges({Change("changed", <<n>>) : n \in NamesChanged(b, a)})
  BY DEF AreChanges, Change
<1>3. AreChanges(ToolsChanged(b, a))
  BY DEF AreChanges, Change, ToolsChanged, ToolChanges
<1>4. NamesChanged(b, b) = {} /\ ToolsChanged(b, b) = {}
  BY DEF NamesChanged, ToolsChanged, ToolChanges
<1>5. {Change("changed", <<n>>) : n \in {}} = {}
  OBVIOUS
<1> QED
  BY <1>1, <1>2, <1>3, <1>4, <1>5 DEF AreChanges

LEMMA NamesTell ==
    ASSUME NEW nm, NEW no, NEW nt, nm \subseteq no \cup nt
    PROVE  Tells({Change("changed", <<n>>) : n \in nm}, {Change("changed", <<n>>) : n \in no},
                 {Change("changed", <<n>>) : n \in nt})
BY DEF Tells, AreChanges, Change

\* Tools, which are compared as sets.
LEMMA ToolsTell ==
    ASSUME NEW b, NEW o, NEW t, NEW m, ToSet(m) = ThreeWay(ToSet(b), ToSet(o), ToSet(t))
    PROVE  Tells(ToolChanges(b, m), ToolChanges(b, o), ToolChanges(b, t))
<1> DEFINE B == ToSet(b)
           O == ToSet(o)
           T == ToSet(t)
           M == ToSet(m)
           Gone(A) == {Change("removed", <<"tools", e>>) : e \in B \ A}
           New(A) == {Change("added", <<"tools", e>>) : e \in A \ B}
<1>1. /\ ToolChanges(b, m) = Gone(M) \cup New(M) /\ ToolChanges(b, o) = Gone(O) \cup New(O)
      /\ ToolChanges(b, t) = Gone(T) \cup New(T)
  BY DEF ToolChanges
<1>2. M = ThreeWay(B, O, T)
  OBVIOUS
<1> HIDE DEF B, O, T, M
<1>3. B \ M = (B \ O) \cup (B \ T) /\ M \ B = (O \ B) \cup (T \ B)
  BY <1>2 DEF ThreeWay
<1>4. Gone(M) = Gone(O) \cup Gone(T)
  BY <1>3
<1>5. New(M) = New(O) \cup New(T)
  BY <1>3
<1>6. AreChanges((Gone(O) \cup New(O)) \cup (Gone(T) \cup New(T)))
  BY DEF AreChanges, Change
<1> HIDE DEF Gone, New
<1> QED
  BY <1>1, <1>4, <1>5, <1>6 DEF Tells

\* Metadata that neither side changed.
LEMMA MappingSame ==
    ASSUME NEW b, NEW w, IsMapping(b), IsMapping(w), MapSettled(b, b, b, w)
    PROVE  w = b
<1>1. \A k : ValueAt(w, k) = ValueAt(b, k)
  BY DEF MapSettled, Settled
<1>2. DOMAIN w = DOMAIN b
  BY <1>1 DEF ValueAt, IsMapping
<1>3. \A k \in DOMAIN b : w[k] = b[k]
  BY <1>1, <1>2 DEF ValueAt
<1>4. w = [k \in DOMAIN w |-> w[k]] /\ b = [k \in DOMAIN b |-> b[k]]
  BY DEF IsMapping, IsFunction
<1> QED
  BY <1>2, <1>3, <1>4

LEMMA NamesSettled ==
    ASSUME NEW kind, NEW b, NEW o, NEW t, NEW w,
           IsObject(kind, b), IsObject(kind, o), IsObject(kind, t), IsObject(kind, w),
           MapSettled(b.fields, o.fields, t.fields, w.fields),
           \A l \in DOMAIN b.lists :
               w.lists[l] = MergeScalarSequence(b.lists[l], o.lists[l], t.lists[l]),
           MapSettled(b.metadata, o.metadata, t.metadata, w.metadata)
    PROVE  NamesChanged(b, w) \subseteq NamesChanged(b, o) \cup NamesChanged(b, t)
<1> DEFINE F(a) == {f \in DOMAIN b.fields : b.fields[f] # a.fields[f]}
           L(a) == {l \in DOMAIN b.lists \ {"tools"} : b.lists[l] # a.lists[l]}
           D(a) == IF b.metadata = a.metadata THEN {} ELSE {"metadata"}
<1>1. F(w) \subseteq F(o) \cup F(t)
  <2>1. ASSUME NEW f \in DOMAIN b.fields, b.fields[f] # w.fields[f]
        PROVE  b.fields[f] # o.fields[f] \/ b.fields[f] # t.fields[f]
    <3>1. f \in DOMAIN o.fields /\ f \in DOMAIN t.fields /\ f \in DOMAIN w.fields
      BY DEF IsObject
    <3>2. ValueAt(w.fields, f) =
              Settled(ValueAt(b.fields, f), ValueAt(o.fields, f), ValueAt(t.fields, f))
      BY DEF MapSettled
    <3>3. w.fields[f] = Settled(b.fields[f], o.fields[f], t.fields[f])
      BY <3>1, <3>2 DEF ValueAt
    <3> QED
      BY <2>1, <3>3 DEF Settled
  <2> QED
    BY <2>1
<1>2. L(w) \subseteq L(o) \cup L(t)
  <2>1. ASSUME NEW l \in DOMAIN b.lists, b.lists[l] = o.lists[l], b.lists[l] = t.lists[l]
        PROVE  w.lists[l] = b.lists[l]
    <3>1. IsList(b.lists[l])
      BY DEF IsObject
    <3> QED
      BY <2>1, <3>1, ScalarSequenceSame
  <2> QED
    BY <2>1
<1>3. D(w) \subseteq D(o) \cup D(t)
  <2>1. ASSUME b.metadata = o.metadata, b.metadata = t.metadata
        PROVE  w.metadata = b.metadata
    <3>1. IsMapping(b.metadata) /\ IsMapping(w.metadata)
      BY DEF IsObject
    <3> QED
      BY <2>1, <3>1, MappingSame
  <2> QED
    BY <2>1
<1>4. \A a : NamesChanged(b, a) = F(a) \cup L(a) \cup D(a)
  BY DEF NamesChanged
<1> HIDE DEF F, L, D
<1> QED
  BY <1>1, <1>2, <1>3, <1>4

LEMMA HeadTells ==
    ASSUME NEW kind, NEW b, NEW o, NEW t, NEW w,
           IsObject(kind, b), IsObject(kind, o), IsObject(kind, t), IsObject(kind, w),
           MapSettled(b.fields, o.fields, t.fields, w.fields),
           \A l \in DOMAIN b.lists :
               w.lists[l] = MergeScalarSequence(b.lists[l], o.lists[l], t.lists[l]),
           MapSettled(b.metadata, o.metadata, t.metadata, w.metadata)
    PROVE  Tells(ObjectChanges(b, w), ObjectChanges(b, o), ObjectChanges(b, t))
<1> DEFINE N(a) == {Change("changed", <<n>>) : n \in NamesChanged(b, a)}
<1>1. Tells(N(w), N(o), N(t))
  BY NamesSettled, NamesTell
<1>2. Tells(ToolsChanged(b, w), ToolsChanged(b, o), ToolsChanged(b, t))
  <2>1. CASE "tools" \in DOMAIN b.lists
    <3>1. IsList(b.lists.tools) /\ IsList(o.lists.tools) /\ IsList(t.lists.tools)
      BY <2>1 DEF IsObject
    <3>2. w.lists.tools = MergeScalarSequence(b.lists.tools, o.lists.tools, t.lists.tools)
      BY <2>1
    <3>3. ToSet(w.lists.tools) = ThreeWay(ToSet(b.lists.tools), ToSet(o.lists.tools),
                                          ToSet(t.lists.tools))
      BY <3>1, <3>2, ScalarSequenceFacts
    <3> QED
      BY <2>1, <3>3, ToolsTell DEF ToolsChanged
  <2>2. CASE "tools" \notin DOMAIN b.lists
    BY <2>2 DEF ToolsChanged, Tells, AreChanges
  <2> QED
    BY <2>1, <2>2
<1>3. \A a : ObjectChanges(b, a) = N(a) \cup ToolsChanged(b, a)
  BY ObjectChangesAre
<1> HIDE DEF N
<1>4. Tells(N(w) \cup ToolsChanged(b, w), N(o) \cup ToolsChanged(b, o),
            N(t) \cup ToolsChanged(b, t))
  BY <1>1, <1>2, TellsTogether
<1> QED
  BY <1>3, <1>4

-----------------------------------------------------------------------------
(* Lists of objects, one kind after the other.                             *)

LEMMA EvidenceTells ==
    ASSUME AbsentIsNoObject, NEW b, NEW o, NEW t, NEW m,
           Indexed(b), Indexed(o), Indexed(t), Indexed(m), EvidenceSettled(b, o, t, m)
    PROVE  Tells(ItemsChanges(b, m, NoChanges), ItemsChanges(b, o, NoChanges),
                 ItemsChanges(b, t, NoChanges))
<1> DEFINE K == Keys(b, o, t)
           f == [id \in K |-> {}]
<1>1. \A items : Indexed(items) => \A id : id \in Ids(items) <=> ItemAt(items, id) # Absent
  BY IndexedFacts
<1>2. Ids(m) \subseteq K
  BY <1>1 DEF EvidenceSettled, Settled, Keys
<1>3. \A id \in K : ToldAt(ItemAt(b, id), ItemAt(o, id), ItemAt(t, id), ItemAt(m, id),
                           f[id], f[id], f[id])
  BY DEF ToldAt, EvidenceSettled, MergedWithin, AreChanges
<1>4. ASSUME NEW a, Ids(a) \subseteq K
      PROVE  ItemsChanges(b, a, NoChanges) = ChangesAt(Ids(b), Ids(a), f)
  <2>1. \A id \in Ids(b) \cap Ids(a) : f[id] = NoChanges(ItemAt(b, id), ItemAt(a, id))
    BY <1>4 DEF NoChanges
  <2> HIDE DEF f
  <2> QED
    BY <2>1 DEF ItemsChanges, ChangesAt
<1>5. Ids(b) \subseteq K /\ Ids(o) \subseteq K /\ Ids(t) \subseteq K
  BY DEF Keys
<1> HIDE DEF f
<1>6. Tells(ChangesAt(Ids(b), Ids(m), f), ChangesAt(Ids(b), Ids(o), f),
            ChangesAt(Ids(b), Ids(t), f))
  BY <1>2, <1>3, ListTells
<1> QED
  BY <1>2, <1>4, <1>5, <1>6

LEMMA NoEvidenceChanges ==
    ASSUME NEW b, NEW a
    PROVE  /\ AreChanges(ProposalChanges(b, a)) /\ ProposalChanges(b, b) = {}
           /\ AreChanges(ItemsChanges(b, a, NoChanges))
<1>1. \A x, y : AreChanges(ItemsChanges(x, y, NoChanges))
  BY UnderAreChanges DEF ItemsChanges, NoChanges, Under, AreChanges, Change
<1>2. \A x : ItemsChanges(x, x, NoChanges) = {}
  BY DEF ItemsChanges, NoChanges, Under
<1>3. AreChanges(EvidenceChanges(b, a)) /\ EvidenceChanges(b, b) = {}
  <2> DEFINE C == ItemsChanges(b.evidence, a.evidence, NoChanges)
             D == ItemsChanges(b.evidence, b.evidence, NoChanges)
  <2>1. AreChanges(C) /\ D = {}
    BY <1>1, <1>2
  <2>2. EvidenceChanges(b, a) = Under(<<"evidence">>, C)
        /\ EvidenceChanges(b, b) = Under(<<"evidence">>, D)
    BY DEF EvidenceChanges
  <2> HIDE DEF C, D
  <2> QED
    BY <2>1, <2>2, UnderAreChanges DEF AreChanges
<1> QED
  BY <1>1, <1>3, ObjectChangesAre DEF ProposalChanges, AreChanges

LEMMA PartsTell ==
    ASSUME AbsentIsNoObject, NEW kind, NEW b, NEW o, NEW t, NEW w,
           IsObject(kind, b), IsObject(kind, o), IsObject(kind, t), IsObject(kind, w),
           PartsSettled(b, o, t, w)
    PROVE  /\ Tells(ObjectChanges(b, w), ObjectChanges(b, o), ObjectChanges(b, t))
           /\ Tells(ProposalChanges(b, w), ProposalChanges(b, o), ProposalChanges(b, t))
<1>1. Tells(ObjectChanges(b, w), ObjectChanges(b, o), ObjectChanges(b, t))
  BY HeadTells DEF PartsSettled
<1> DEFINE C(a) == ItemsChanges(b.evidence, a.evidence, NoChanges)
<1>2. Tells(C(w), C(o), C(t))
  <2>1. Indexed(b.evidence) /\ Indexed(o.evidence) /\ Indexed(t.evidence) /\ Indexed(w.evidence)
    BY DEF IsObject
  <2>2. EvidenceSettled(b.evidence, o.evidence, t.evidence, w.evidence)
    BY DEF PartsSettled
  <2> QED
    BY <2>1, <2>2, EvidenceTells
<1>3. \A a : EvidenceChanges(b, a) = Under(<<"evidence">>, C(a))
  BY DEF EvidenceChanges
<1> HIDE DEF C
<1>4. Tells(EvidenceChanges(b, w), EvidenceChanges(b, o), EvidenceChanges(b, t))
  BY <1>2, <1>3, TellsUnder
<1>5. Tells(ObjectChanges(b, w) \cup EvidenceChanges(b, w),
            ObjectChanges(b, o) \cup EvidenceChanges(b, o),
            ObjectChanges(b, t) \cup EvidenceChanges(b, t))
  BY <1>1, <1>4, TellsTogether
<1> QED
  BY <1>1, <1>5 DEF ProposalChanges

LEMMA PlainTells ==
    ASSUME AbsentIsNoObject, NEW kind, NEW b, NEW o, NEW t,
           IsPlain(kind, b), IsPlain(kind, o), IsPlain(kind, t), ObjectConflicts(b, o, t) = {}
    PROVE  Tells(ObjectChanges(b, MergeObject(b, o, t)), ObjectChanges(b, o),
                 ObjectChanges(b, t))
<1> DEFINE w == MergeObject(b, o, t)
<1>1. IsPlain(kind, w)
  BY PlainKeepsBothEdits
<1>2. PartsSettled(b, o, t, w)
  BY PlainSettled
<1> HIDE DEF w
<1>3. Tells(ObjectChanges(b, w), ObjectChanges(b, o), ObjectChanges(b, t))
  BY <1>1, <1>2, PartsTell DEF IsPlain
<1> QED
  BY <1>3 DEF w

LEMMA PlainListTells ==
    ASSUME AbsentIsNoObject, NEW kind, NEW b, NEW o, NEW t,
           Indexed(b), Indexed(o), Indexed(t),
           \A x \in ToSet(b) \cup ToSet(o) \cup ToSet(t) : IsPlain(kind, x),
           IndexedListConflicts(b, o, t, ObjectConflicts) = {}
    PROVE  LET m == MergeIndexedList(b, o, t, MergeObject)
           IN  Tells(ItemsChanges(b, m, ObjectChanges), ItemsChanges(b, o, ObjectChanges),
                     ItemsChanges(b, t, ObjectChanges))
<1> DEFINE m == MergeIndexedList(b, o, t, MergeObject)
           K == Keys(b, o, t)
           f(a) == [id \in K |-> ObjectChanges(ItemAt(b, id), ItemAt(a, id))]
<1>1. Indexed(m)
  BY PlainListKeepsBothEdits
<1>2. \A id : Outcome(ItemAt(b, id), ItemAt(o, id), ItemAt(t, id), ItemAt(m, id),
                      MergeObject(ItemAt(b, id), ItemAt(o, id), ItemAt(t, id)),
                      ObjectConflicts(ItemAt(b, id), ItemAt(o, id), ItemAt(t, id)))
  BY PlainListAt
<1> HIDE DEF m
<1>3. \A items : Indexed(items) => \A id : id \in Ids(items) <=> ItemAt(items, id) # Absent
  BY IndexedFacts
<1>4. Ids(m) \subseteq K
  BY <1>1, <1>2, <1>3 DEF Outcome, MergedWithin, Settled, Keys
<1>5. ASSUME NEW id \in K
      PROVE  ToldAt(ItemAt(b, id), ItemAt(o, id), ItemAt(t, id), ItemAt(m, id),
                    f(m)[id], f(o)[id], f(t)[id])
  <2> DEFINE x == ItemAt(b, id)
             y == ItemAt(o, id)
             z == ItemAt(t, id)
             w == ItemAt(m, id)
  <2>1. Outcome(x, y, z, w, MergeObject(x, y, z), ObjectConflicts(x, y, z))
    BY <1>2
  <2>2. Absent \notin {x, y, z} =>
            IsPlain(kind, x) /\ IsPlain(kind, y) /\ IsPlain(kind, z)
    BY IndexedFacts
  <2>3. /\ f(m)[id] = ObjectChanges(x, w) /\ f(o)[id] = ObjectChanges(x, y)
        /\ f(t)[id] = ObjectChanges(x, z)
    OBVIOUS
  <2> HIDE DEF x, y, z, w, f
  <2>4. /\ AreChanges(ObjectChanges(x, y)) /\ AreChanges(ObjectChanges(x, z))
        /\ ObjectChanges(x, x) = {}
    BY ObjectChangesAre
  <2>5. ASSUME MergedWithin(x, y, z)
        PROVE  /\ w # Absent
               /\ Tells(ObjectChanges(x, w), ObjectChanges(x, y), ObjectChanges(x, z))
    <3>1. w = MergeObject(x, y, z) /\ w # Absent /\ ObjectConflicts(x, y, z) = {}
      BY <2>1, <2>5 DEF Outcome
    <3>2. Absent \notin {x, y, z}
      BY <2>5 DEF MergedWithin
    <3> QED
      BY <2>2, <3>1, <3>2, PlainTells
  <2>6. ToldAt(x, y, z, w, ObjectChanges(x, w), ObjectChanges(x, y), ObjectChanges(x, z))
    BY <2>1, <2>4, <2>5 DEF Outcome, ToldAt
  <2> QED
    BY <2>3, <2>6 DEF x, y, z, w
<1>6. ASSUME NEW a, Ids(a) \subseteq K
      PROVE  ItemsChanges(b, a, ObjectChanges) = ChangesAt(Ids(b), Ids(a), f(a))
  <2>1. \A id \in Ids(b) \cap Ids(a) : f(a)[id] = ObjectChanges(ItemAt(b, id), ItemAt(a, id))
    BY <1>6
  <2> HIDE DEF f
  <2> QED
    BY <2>1 DEF ItemsChanges, ChangesAt
<1>7. Ids(b) \subseteq K /\ Ids(o) \subseteq K /\ Ids(t) \subseteq K
  BY DEF Keys
<1> HIDE DEF f
<1>8. Tells(ChangesAt(Ids(b), Ids(m), f(m)), ChangesAt(Ids(b), Ids(o), f(o)),
            ChangesAt(Ids(b), Ids(t), f(t)))
  BY <1>1, <1>4, <1>5, ListTells
<1> QED
  BY <1>4, <1>6, <1>7, <1>8 DEF m

LEMMA ProposalTells ==
    ASSUME AbsentIsNoObject, NEW kind, NEW b, NEW o, NEW t,
           IsObject(kind, b), IsObject(kind, o), IsObject(kind, t),
           ProposalConflicts(b, o, t) = {}
    PROVE  Tells(ProposalChanges(b, MergeProposal(b, o, t)), ProposalChanges(b, o),
                 ProposalChanges(b, t))
<1> DEFINE w == MergeProposal(b, o, t)
<1>1. IsObject(kind, w)
  BY ProposalKeepsBothEdits
<1>2. PartsSettled(b, o, t, w)
  BY ProposalSettled
<1> HIDE DEF w
<1>3. Tells(ProposalChanges(b, w), ProposalChanges(b, o), ProposalChanges(b, t))
  BY <1>1, <1>2, PartsTell
<1> QED
  BY <1>3 DEF w

LEMMA ProposalListTells ==
    ASSUME AbsentIsNoObject, NEW kind, NEW b, NEW o, NEW t,
           Indexed(b), Indexed(o), Indexed(t),
           \A x \in ToSet(b) \cup ToSet(o) \cup ToSet(t) : IsObject(kind, x),
           IndexedListConflicts(b, o, t, ProposalConflicts) = {}
    PROVE  LET m == MergeIndexedList(b, o, t, MergeProposal)
           IN  Tells(ItemsChanges(b, m, ProposalChanges), ItemsChanges(b, o, ProposalChanges),
                     ItemsChanges(b, t, ProposalChanges))
<1> DEFINE m == MergeIndexedList(b, o, t, MergeProposal)
           K == Keys(b, o, t)
           f(a) == [id \in K |-> ProposalChanges(ItemAt(b, id), ItemAt(a, id))]
<1>1. Indexed(m)
  BY ProposalsKeepBothEdits
<1>2. \A id : Outcome(ItemAt(b, id), ItemAt(o, id), ItemAt(t, id), ItemAt(m, id),
                      MergeProposal(ItemAt(b, id), ItemAt(o, id), ItemAt(t, id)),
                      ProposalConflicts(ItemAt(b, id), ItemAt(o, id), ItemAt(t, id)))
  BY ProposalListAt
<1> HIDE DEF m
<1>3. \A items : Indexed(items) => \A id : id \in Ids(items) <=> ItemAt(items, id) # Absent
  BY IndexedFacts
<1>4. Ids(m) \subseteq K
  BY <1>1, <1>2, <1>3 DEF Outcome, MergedWithin, Settled, Keys
<1>5. ASSUME NEW id \in K
      PROVE  ToldAt(ItemAt(b, id), ItemAt(o, id), ItemAt(t, id), ItemAt(m, id),
                    f(m)[id], f(o)[id], f(t)[id])
  <2> DEFINE x == ItemAt(b, id)
             y == ItemAt(o, id)
             z == ItemAt(t, id)
             w == ItemAt(m, id)
  <2>1. Outcome(x, y, z, w, MergeProposal(x, y, z), ProposalConflicts(x, y, z))
    BY <1>2
  <2>2. Absent \notin {x, y, z} =>
            IsObject(kind, x) /\ IsObject(kind, y) /\ IsObject(kind, z)
    BY IndexedFacts
  <2>3. /\ f(m)[id] = ProposalChanges(x, w) /\ f(o)[id] = ProposalChanges(x, y)
        /\ f(t)[id] = ProposalChanges(x, z)
    OBVIOUS
  <2> HIDE DEF x, y, z, w, f
  <2>4. /\ AreChanges(ProposalChanges(x, y)) /\ AreChanges(ProposalChanges(x, z))
        /\ ProposalChanges(x, x) = {}
    BY NoEvidenceChanges
  <2>5. ASSUME MergedWithin(x, y, z)
        PROVE  /\ w # Absent
               /\ Tells(ProposalChanges(x, w), ProposalChanges(x, y), ProposalChanges(x, z))
    <3>1. w = MergeProposal(x, y, z) /\ w # Absent /\ ProposalConflicts(x, y, z) = {}
      BY <2>1, <2>5 DEF Outcome
    <3>2. Absent \notin {x, y, z}
      BY <2>5 DEF MergedWithin
    <3> QED
      BY <2>2, <3>1, <3>2, ProposalTells
  <2>6. ToldAt(x, y, z, w, ProposalChanges(x, w), ProposalChanges(x, y), ProposalChanges(x, z))
    BY <2>1, <2>4, <2>5 DEF Outcome, ToldAt
  <2> QED
    BY <2>3, <2>6 DEF x, y, z, w
<1>6. ASSUME NEW a, Ids(a) \subseteq K
      PROVE  ItemsChanges(b, a, ProposalChanges) = ChangesAt(Ids(b), Ids(a), f(a))
  <2>1. \A id \in Ids(b) \cap Ids(a) : f(a)[id] = ProposalChanges(ItemAt(b, id), ItemAt(a, id))
    BY <1>6
  <2> HIDE DEF f
  <2> QED
    BY <2>1 DEF ItemsChanges, ChangesAt
<1>7. Ids(b) \subseteq K /\ Ids(o) \subseteq K /\ Ids(t) \subseteq K
  BY DEF Keys
<1> HIDE DEF f
<1>8. Tells(ChangesAt(Ids(b), Ids(m), f(m)), ChangesAt(Ids(b), Ids(o), f(o)),
            ChangesAt(Ids(b), Ids(t), f(t)))
  BY <1>1, <1>4, <1>5, ListTells
<1> QED
  BY <1>4, <1>6, <1>7, <1>8 DEF m

LEMMA TermChangesAre ==
    ASSUME NEW b, NEW a
    PROVE  /\ TermChanges(b, a) =
                  ProposalChanges(b, a)
                  \cup Under(<<"aliases">>, ItemsChanges(b.aliases, a.aliases, ObjectChanges))
           /\ AreChanges(TermChanges(b, a))
           /\ TermChanges(b, b) = {}
<1> DEFINE C == ItemsChanges(b.aliases, a.aliases, ObjectChanges)
           D == ItemsChanges(b.aliases, b.aliases, ObjectChanges)
<1>1. TermChanges(b, a) = ProposalChanges(b, a) \cup Under(<<"aliases">>, C)
      /\ TermChanges(b, b) = ProposalChanges(b, b) \cup Under(<<"aliases">>, D)
  BY DEF TermChanges, ProposalChanges
<1>2. AreChanges(C)
  <2> DEFINE x == b.aliases
             y == a.aliases
             In(id) == ObjectChanges(ItemAt(x, id), ItemAt(y, id))
  <2>1. \A id : AreChanges(In(id))
    BY ObjectChangesAre
  <2>2. C = {Change("removed", <<id>>) : id \in Ids(x) \ Ids(y)}
            \cup {Change("added", <<id>>) : id \in Ids(y) \ Ids(x)}
            \cup UNION {Under(<<id>>, In(id)) : id \in Ids(x) \cap Ids(y)}
    BY DEF ItemsChanges
  <2> HIDE DEF In, C
  <2>3. \A id : AreChanges(Under(<<id>>, In(id)))
    BY <2>1, UnderAreChanges
  <2>4. ASSUME NEW c \in C
        PROVE  "kind" \in DOMAIN c
    <3>1. CASE \E id : c = Change("removed", <<id>>) \/ c = Change("added", <<id>>)
      BY <3>1 DEF Change
    <3>2. CASE \E id : c \in Under(<<id>>, In(id))
      BY <2>3, <3>2 DEF AreChanges
    <3> QED
      BY <2>2, <3>1, <3>2
  <2> QED
    BY <2>4 DEF AreChanges
<1>3. D = {}
  <2> DEFINE x == b.aliases
             In(id) == ObjectChanges(ItemAt(x, id), ItemAt(x, id))
  <2>1. \A id : In(id) = {}
    BY ObjectChangesAre
  <2>2. D = {Change("removed", <<id>>) : id \in Ids(x) \ Ids(x)}
            \cup {Change("added", <<id>>) : id \in Ids(x) \ Ids(x)}
            \cup UNION {Under(<<id>>, In(id)) : id \in Ids(x) \cap Ids(x)}
    BY DEF ItemsChanges
  <2> HIDE DEF In, D
  <2>3. \A id : Under(<<id>>, In(id)) = {}
    BY <2>1 DEF Under
  <2> QED
    BY <2>2, <2>3
<1>4. AreChanges(ProposalChanges(b, a)) /\ ProposalChanges(b, b) = {}
  BY NoEvidenceChanges
<1> HIDE DEF C, D
<1>5. AreChanges(Under(<<"aliases">>, C)) /\ Under(<<"aliases">>, D) = {}
  BY <1>2, <1>3, UnderAreChanges DEF AreChanges
<1>6. AreChanges(TermChanges(b, a)) /\ TermChanges(b, b) = {}
  BY <1>1, <1>4, <1>5 DEF AreChanges
<1> QED
  BY <1>1, <1>6 DEF C

LEMMA TermTells ==
    ASSUME AbsentIsNoObject, NEW kinds, NEW b, NEW o, NEW t,
           IsTerm(kinds, b), IsTerm(kinds, o), IsTerm(kinds, t),
           TermConflicts(b, o, t) = {}
    PROVE  Tells(TermChanges(b, MergeTerm(b, o, t)), TermChanges(b, o), TermChanges(b, t))
<1> DEFINE w == MergeTerm(b, o, t)
           C(a) == ItemsChanges(b.aliases, a.aliases, ObjectChanges)
<1>1. IsTerm(kinds, w)
  BY TermKeepsBothEdits
<1>2. /\ PartsSettled(b, o, t, w)
      /\ w.aliases = MergeIndexedList(b.aliases, o.aliases, t.aliases, MergeObject)
      /\ IndexedListConflicts(b.aliases, o.aliases, t.aliases, ObjectConflicts) = {}
  BY TermSettled
<1> HIDE DEF w
<1>3. Tells(ProposalChanges(b, w), ProposalChanges(b, o), ProposalChanges(b, t))
  BY <1>1, <1>2, PartsTell DEF IsTerm
<1>4. Tells(C(w), C(o), C(t))
  <2> DEFINE kind == kinds.aliases
  <2>1. /\ Indexed(b.aliases) /\ Indexed(o.aliases) /\ Indexed(t.aliases)
        /\ \A x \in ToSet(b.aliases) \cup ToSet(o.aliases) \cup ToSet(t.aliases) :
              IsPlain(kind, x)
    BY DEF IsTerm
  <2> HIDE DEF kind
  <2> QED
    BY <1>2, <2>1, PlainListTells
<1>5. \A a : TermChanges(b, a) = ProposalChanges(b, a) \cup Under(<<"aliases">>, C(a))
  BY TermChangesAre
<1> HIDE DEF C
<1>6. Tells(Under(<<"aliases">>, C(w)), Under(<<"aliases">>, C(o)), Under(<<"aliases">>, C(t)))
  BY <1>4, TellsUnder
<1>7. Tells(ProposalChanges(b, w) \cup Under(<<"aliases">>, C(w)),
            ProposalChanges(b, o) \cup Under(<<"aliases">>, C(o)),
            ProposalChanges(b, t) \cup Under(<<"aliases">>, C(t)))
  BY <1>3, <1>6, TellsTogether
<1> QED
  BY <1>5, <1>7 DEF w

LEMMA TermListTells ==
    ASSUME AbsentIsNoObject, NEW kinds, NEW b, NEW o, NEW t,
           Indexed(b), Indexed(o), Indexed(t),
           \A x \in ToSet(b) \cup ToSet(o) \cup ToSet(t) : IsTerm(kinds, x),
           IndexedListConflicts(b, o, t, TermConflicts) = {}
    PROVE  LET m == MergeIndexedList(b, o, t, MergeTerm)
           IN  Tells(ItemsChanges(b, m, TermChanges), ItemsChanges(b, o, TermChanges),
                     ItemsChanges(b, t, TermChanges))
<1> DEFINE m == MergeIndexedList(b, o, t, MergeTerm)
           K == Keys(b, o, t)
           f(a) == [id \in K |-> TermChanges(ItemAt(b, id), ItemAt(a, id))]
<1>1. Indexed(m)
  BY TermsKeepBothEdits
<1>2. \A id : Outcome(ItemAt(b, id), ItemAt(o, id), ItemAt(t, id), ItemAt(m, id),
                      MergeTerm(ItemAt(b, id), ItemAt(o, id), ItemAt(t, id)),
                      TermConflicts(ItemAt(b, id), ItemAt(o, id), ItemAt(t, id)))
  BY TermListAt
<1> HIDE DEF m
<1>3. \A items : Indexed(items) => \A id : id \in Ids(items) <=> ItemAt(items, id) # Absent
  BY IndexedFacts
<1>4. Ids(m) \subseteq K
  BY <1>1, <1>2, <1>3 DEF Outcome, MergedWithin, Settled, Keys
<1>5. ASSUME NEW id \in K
      PROVE  ToldAt(ItemAt(b, id), ItemAt(o, id), ItemAt(t, id), ItemAt(m, id),
                    f(m)[id], f(o)[id], f(t)[id])
  <2> DEFINE x == ItemAt(b, id)
             y == ItemAt(o, id)
             z == ItemAt(t, id)
             w == ItemAt(m, id)
  <2>1. Outcome(x, y, z, w, MergeTerm(x, y, z), TermConflicts(x, y, z))
    BY <1>2
  <2>2. Absent \notin {x, y, z} =>
            IsTerm(kinds, x) /\ IsTerm(kinds, y) /\ IsTerm(kinds, z)
    BY IndexedFacts
  <2>3. /\ f(m)[id] = TermChanges(x, w) /\ f(o)[id] = TermChanges(x, y)
        /\ f(t)[id] = TermChanges(x, z)
    OBVIOUS
  <2> HIDE DEF x, y, z, w, f
  <2>4. /\ AreChanges(TermChanges(x, y)) /\ AreChanges(TermChanges(x, z))
        /\ TermChanges(x, x) = {}
    BY TermChangesAre
  <2>5. ASSUME MergedWithin(x, y, z)
        PROVE  /\ w # Absent
               /\ Tells(TermChanges(x, w), TermChanges(x, y), TermChanges(x, z))
    <3>1. w = MergeTerm(x, y, z) /\ w # Absent /\ TermConflicts(x, y, z) = {}
      BY <2>1, <2>5 DEF Outcome
    <3>2. Absent \notin {x, y, z}
      BY <2>5 DEF MergedWithin
    <3> QED
      BY <2>2, <3>1, <3>2, TermTells
  <2>6. ToldAt(x, y, z, w, TermChanges(x, w), TermChanges(x, y), TermChanges(x, z))
    BY <2>1, <2>4, <2>5 DEF Outcome, ToldAt
  <2> QED
    BY <2>3, <2>6 DEF x, y, z, w
<1>6. ASSUME NEW a, Ids(a) \subseteq K
      PROVE  ItemsChanges(b, a, TermChanges) = ChangesAt(Ids(b), Ids(a), f(a))
  <2>1. \A id \in Ids(b) \cap Ids(a) : f(a)[id] = TermChanges(ItemAt(b, id), ItemAt(a, id))
    BY <1>6
  <2> HIDE DEF f
  <2> QED
    BY <2>1 DEF ItemsChanges, ChangesAt
<1>7. Ids(b) \subseteq K /\ Ids(o) \subseteq K /\ Ids(t) \subseteq K
  BY DEF Keys
<1> HIDE DEF f
<1>8. Tells(ChangesAt(Ids(b), Ids(m), f(m)), ChangesAt(Ids(b), Ids(o), f(o)),
            ChangesAt(Ids(b), Ids(t), f(t)))
  BY <1>1, <1>4, <1>5, ListTells
<1> QED
  BY <1>4, <1>6, <1>7, <1>8 DEF m

-----------------------------------------------------------------------------
(* Lexicons, and what is warned about.                                     *)

LEMMA LexiconTells ==
    ASSUME AbsentIsNoObject, NEW kinds, NEW b, NEW o, NEW t,
           WellFormed(kinds, b), WellFormed(kinds, o), WellFormed(kinds, t),
           Conflicts(b, o, t) = {}
    PROVE  Tells(Diff(b, MergedPayload(b, o, t)), Diff(b, o), Diff(b, t))
<1> DEFINE m == MergedPayload(b, o, t)
           metadata == MappingConflicts(b.metadata, o.metadata, t.metadata)
           scopes == IndexedListConflicts(b.scopes, o.scopes, t.scopes, ObjectConflicts)
           terms == IndexedListConflicts(b.terms, o.terms, t.terms, TermConflicts)
           proposals == IndexedListConflicts(b.proposals, o.proposals, t.proposals,
                                             ProposalConflicts)
<1>1. metadata = {} /\ scopes = {} /\ terms = {} /\ proposals = {}
  <2>1. /\ Beneath(<<"metadata">>, metadata) = {} /\ Beneath(<<"scopes">>, scopes) = {}
        /\ Beneath(<<"terms">>, terms) = {} /\ Beneath(<<"proposals">>, proposals) = {}
    BY DEF Conflicts
  <2> HIDE DEF metadata, scopes, terms, proposals
  <2> QED
    BY <2>1 DEF Beneath
<1>2. /\ m.metadata = MergeMapping(b.metadata, o.metadata, t.metadata)
      /\ m.scopes = MergeIndexedList(b.scopes, o.scopes, t.scopes, MergeObject)
      /\ m.terms = MergeIndexedList(b.terms, o.terms, t.terms, MergeTerm)
      /\ m.proposals = MergeIndexedList(b.proposals, o.proposals, t.proposals, MergeProposal)
  BY DEF MergedPayload
<1>3. \A section \in Sections : Indexed(b[section]) /\ Indexed(o[section]) /\ Indexed(t[section])
  BY DEF WellFormed
<1> DEFINE D(a) == IF b.metadata = a.metadata THEN {} ELSE {Change("changed", <<"metadata">>)}
           S(a) == ItemsChanges(b.scopes, a.scopes, ObjectChanges)
           U(a) == ItemsChanges(b.terms, a.terms, TermChanges)
           P(a) == ItemsChanges(b.proposals, a.proposals, ProposalChanges)
<1> HIDE DEF m
<1>4. Tells(D(m), D(o), D(t))
  <2>1. ASSUME b.metadata = o.metadata, b.metadata = t.metadata
        PROVE  m.metadata = b.metadata
    <3>1. IsMapping(b.metadata) /\ MapSettled(b.metadata, b.metadata, b.metadata, m.metadata)
      BY <1>1, <1>2, <2>1, MappingSettled DEF WellFormed
    <3>2. IsMapping(m.metadata)
      BY <1>1, <1>2, <2>1, <3>1, MappingKeepsBothEdits
    <3> QED
      BY <3>1, <3>2, MappingSame
  <2> QED
    BY <2>1 DEF Tells, AreChanges, Change
<1>5. Tells(S(m), S(o), S(t))
  <2> DEFINE kind == kinds.scopes
  <2>1. /\ Indexed(b.scopes) /\ Indexed(o.scopes) /\ Indexed(t.scopes)
        /\ \A x \in ToSet(b.scopes) \cup ToSet(o.scopes) \cup ToSet(t.scopes) : IsPlain(kind, x)
    BY <1>3 DEF Sections, WellFormed
  <2> HIDE DEF kind
  <2> QED
    BY <1>1, <1>2, <2>1, PlainListTells
<1>6. Tells(U(m), U(o), U(t))
  <2>1. /\ Indexed(b.terms) /\ Indexed(o.terms) /\ Indexed(t.terms)
        /\ \A x \in ToSet(b.terms) \cup ToSet(o.terms) \cup ToSet(t.terms) : IsTerm(kinds, x)
    BY <1>3 DEF Sections, WellFormed
  <2> QED
    BY <1>1, <1>2, <2>1, TermListTells
<1>7. Tells(P(m), P(o), P(t))
  <2> DEFINE kind == kinds.proposals
  <2>1. /\ Indexed(b.proposals) /\ Indexed(o.proposals) /\ Indexed(t.proposals)
        /\ \A x \in ToSet(b.proposals) \cup ToSet(o.proposals) \cup ToSet(t.proposals) :
              IsObject(kind, x)
    BY <1>3 DEF Sections, WellFormed
  <2> HIDE DEF kind
  <2> QED
    BY <1>1, <1>2, <2>1, ProposalListTells
<1>8. \A a : Diff(b, a) = ((D(a) \cup Under(<<"scopes">>, S(a))) \cup Under(<<"terms">>, U(a)))
                          \cup Under(<<"proposals">>, P(a))
  BY DEF Diff
<1> HIDE DEF D, S, U, P, metadata, scopes, terms, proposals
<1>9. /\ Tells(Under(<<"scopes">>, S(m)), Under(<<"scopes">>, S(o)), Under(<<"scopes">>, S(t)))
      /\ Tells(Under(<<"terms">>, U(m)), Under(<<"terms">>, U(o)), Under(<<"terms">>, U(t)))
      /\ Tells(Under(<<"proposals">>, P(m)), Under(<<"proposals">>, P(o)),
               Under(<<"proposals">>, P(t)))
  BY <1>5, <1>6, <1>7, TellsUnder
<1> DEFINE A(a) == D(a) \cup Under(<<"scopes">>, S(a))
           B(a) == A(a) \cup Under(<<"terms">>, U(a))
           C(a) == B(a) \cup Under(<<"proposals">>, P(a))
<1>10. Tells(A(m), A(o), A(t))
  BY <1>4, <1>9, TellsTogether
<1> HIDE DEF A
<1>11. Tells(B(m), B(o), B(t))
  BY <1>9, <1>10, TellsTogether
<1> HIDE DEF B
<1>12. Tells(C(m), C(o), C(t))
  BY <1>9, <1>11, TellsTogether
<1> QED
  BY <1>8, <1>12 DEF A, B, m

\* An object whose canonical name is put back.
PutBack(x, v) == [x EXCEPT !.fields.canonical = v]

LEMMA PutBackFacts ==
    ASSUME NEW kind, "canonical" \in kind.fields, NEW y, IsObject(kind, y)
    PROVE  /\ PutBack(y, y.fields.canonical) = y
           /\ \A v : PutBack(PutBack(y, v), y.fields.canonical) = y
<1>1. /\ "fields" \in DOMAIN y /\ "canonical" \in DOMAIN y.fields
      /\ IsFunction(y) /\ IsFunction(y.fields)
  BY DEF IsObject
<1>2. y = [k \in DOMAIN y |-> y[k]] /\ y.fields = [k \in DOMAIN y.fields |-> y.fields[k]]
  BY <1>1 DEF IsFunction
<1> DEFINE c == y.fields.canonical
<1>3. ASSUME NEW v
      PROVE  PutBack(PutBack(y, v), c) = y
  <2> DEFINE z == PutBack(y, v)
  <2>1. /\ DOMAIN z = DOMAIN y /\ \A k \in DOMAIN y \ {"fields"} : z[k] = y[k]
        /\ DOMAIN z.fields = DOMAIN y.fields
        /\ \A k \in DOMAIN y.fields \ {"canonical"} : z.fields[k] = y.fields[k]
    BY <1>1 DEF PutBack
  <2> HIDE DEF z
  <2> DEFINE u == PutBack(z, c)
  <2>2. /\ u = [k \in DOMAIN u |-> u[k]] /\ u.fields = [k \in DOMAIN u.fields |-> u.fields[k]]
        /\ DOMAIN u = DOMAIN z /\ \A k \in DOMAIN z \ {"fields"} : u[k] = z[k]
        /\ DOMAIN u.fields = DOMAIN z.fields
        /\ \A k \in DOMAIN z.fields \ {"canonical"} : u.fields[k] = z.fields[k]
        /\ u.fields.canonical = c
    BY <1>1, <2>1 DEF PutBack
  <2> HIDE DEF u
  <2>3. u.fields = y.fields
    BY <1>1, <1>2, <2>1, <2>2
  <2>4. u = y
    BY <1>1, <1>2, <2>1, <2>2, <2>3
  <2> QED
    BY <2>4 DEF u, z
<1>4. PutBack(y, c) = y
  BY <1>1, <1>2 DEF PutBack
<1> QED
  BY <1>3, <1>4

\* A term that is merged within under a new canonical name.
LEMMA RenamesAreWarned ==
    ASSUME NEW kinds, "canonical" \in kinds.terms.fields, NEW x, NEW y, NEW z,
           IsTerm(kinds, x), IsTerm(kinds, y), IsTerm(kinds, z),
           MergedWithin(x, y, z), TermConflicts(x, y, z) = {},
           MergeTerm(x, y, z).fields.canonical # x.fields.canonical, AbsentIsNoObject
    PROVE  ParallelRename(x, y, z)
<1> DEFINE v == x.fields.canonical
           p == y.fields.canonical
           q == z.fields.canonical
           w == MergeTerm(x, y, z)
           kind == kinds.terms
<1>1. /\ "canonical" \in kind.fields
      /\ IsObject(kind, x) /\ IsObject(kind, y) /\ IsObject(kind, z)
  BY DEF IsTerm
<1>2. IsTerm(kinds, w) /\ PartsSettled(x, y, z, w)
  BY TermKeepsBothEdits, TermSettled
<1>3. IsObject(kind, w)
  BY <1>2 DEF IsTerm
<1>4. w.fields.canonical = Settled(v, p, q) /\ ~Clash(v, p, q)
  <2>1. /\ ValueAt(x.fields, "canonical") = v /\ ValueAt(y.fields, "canonical") = p
        /\ ValueAt(z.fields, "canonical") = q
        /\ ValueAt(w.fields, "canonical") = w.fields.canonical
    BY <1>1, <1>3 DEF IsObject, ValueAt
  <2> QED
    BY <1>2, <2>1 DEF PartsSettled, MapSettled
<1>5. p # v \/ q # v
  BY <1>4 DEF Settled
<1>6. x # y /\ x # z /\ y # z
  BY DEF MergedWithin, Clash
<1> HIDE DEF kind, w
<1>7. ASSUME q = v
      PROVE  PutBack(z, v) # x
  BY <1>1, <1>6, <1>7, PutBackFacts
<1>8. ASSUME p = v
      PROVE  PutBack(y, v) # x
  BY <1>1, <1>6, <1>8, PutBackFacts
<1>9. ASSUME p = q
      PROVE  PutBack(y, v) # x \/ PutBack(z, v) # x
  <2>1. PutBack(PutBack(y, v), p) = y /\ PutBack(PutBack(z, v), q) = z
    BY <1>1, PutBackFacts
  <2> HIDE DEF p, q, v
  <2> QED
    BY <1>6, <1>9, <2>1
<1>10. p = v \/ q = v \/ p = q
  BY <1>4 DEF Clash
<1>11. PutBack(y, v) = [y EXCEPT !.fields.canonical = v]
       /\ PutBack(z, v) = [z EXCEPT !.fields.canonical = v]
  BY DEF PutBack
<1> QED
  BY <1>5, <1>6, <1>7, <1>8, <1>9, <1>10, <1>11 DEF ParallelRename

\* ReportTellsTheMerge of every run: the diff that a clean merge is summed up with
\* has changes of one side or the other only and every addition and removal of both,
\* and a term under a new name that neither side has as it is merged is in the
\* warnings, for lexicons of any size, however often they are edited and merged
\* (dictionary/merge.py's semantic_diff_summary and warnings beside merged_payload).
THEOREM ReportsTellTheMerge ==
    ASSUME AbsentIsNoObject, NEW CONSTANT kinds, OfKinds(kinds)
    PROVE  Spec => []ReportTellsTheMerge
<1>1. ASSUME MergeInv(kinds), report.merged # Absent
      PROVE  ReportTellsTheMerge
  <2> DEFINE o == branch["ours"]
             t == branch["theirs"]
             m == MergedPayload(base, o, t)
  <2>1. report = Merged
    BY <1>1 DEF MergeInv, NoReport
  <2>2. /\ Conflicts(base, o, t) = {} /\ report.merged = m
        /\ report.ours_diff = Diff(base, o) /\ report.theirs_diff = Diff(base, t)
        /\ report.merged_diff = Diff(base, m)
        /\ report.warnings = Warnings(base, o, t)
    BY <1>1, <2>1 DEF Merged, MergeLexicons
  <2>3. WellFormed(kinds, base) /\ WellFormed(kinds, o) /\ WellFormed(kinds, t)
    BY <1>1 DEF MergeInv, Sides
  <2> HIDE DEF o, t
  <2>4. Tells(Diff(base, m), Diff(base, o), Diff(base, t))
    BY <2>2, <2>3, LexiconTells
  <2>5. WellFormed(kinds, m) /\ m.terms = MergeIndexedList(base.terms, o.terms, t.terms, MergeTerm)
    BY <2>2, <2>3, PayloadKeepsBothEdits DEF MergedPayload
  <2>6. IndexedListConflicts(base.terms, o.terms, t.terms, TermConflicts) = {}
    <3> DEFINE C == IndexedListConflicts(base.terms, o.terms, t.terms, TermConflicts)
    <3>1. Beneath(<<"terms">>, C) = {}
      BY <2>2 DEF Conflicts
    <3> HIDE DEF C
    <3>2. C = {}
      BY <3>1 DEF Beneath
    <3> QED
      BY <3>2 DEF C
  <2> HIDE DEF m
  <2>7. /\ Indexed(base.terms) /\ Indexed(o.terms) /\ Indexed(t.terms) /\ Indexed(m.terms)
        /\ \A x \in ToSet(base.terms) \cup ToSet(o.terms) \cup ToSet(t.terms) : IsTerm(kinds, x)
    BY <2>3, <2>5 DEF WellFormed, Sections
  <2>8. ASSUME NEW id \in Ids(m.terms) \cap Ids(base.terms),
               ItemAt(m.terms, id).fields.canonical # ItemAt(base.terms, id).fields.canonical,
               ItemAt(m.terms, id) # ItemAt(o.terms, id), ItemAt(m.terms, id) # ItemAt(t.terms, id)
        PROVE  id \in Warnings(base, o, t)
    <3> DEFINE x == ItemAt(base.terms, id)
               y == ItemAt(o.terms, id)
               z == ItemAt(t.terms, id)
               w == ItemAt(m.terms, id)
    <3>1. Outcome(x, y, z, w, MergeTerm(x, y, z), TermConflicts(x, y, z))
      BY <2>5, <2>6, <2>7, TermListAt
    <3>2. w # y /\ w # z /\ w.fields.canonical # x.fields.canonical
      BY <2>8
    <3>3. Absent \notin {x, y, z} => IsTerm(kinds, x) /\ IsTerm(kinds, y) /\ IsTerm(kinds, z)
      BY <2>7, IndexedFacts
    <3>4. (y # Absent => id \in Ids(o.terms)) /\ (z # Absent => id \in Ids(t.terms))
      BY <2>7, IndexedFacts
    <3>5. "canonical" \in kinds.terms.fields
      BY DEF OfKinds
    <3> HIDE DEF x, y, z, w
    <3>6. MergedWithin(x, y, z)
      BY <3>1, <3>2 DEF Outcome, Settled
    <3>7. w = MergeTerm(x, y, z) /\ TermConflicts(x, y, z) = {} /\ Absent \notin {x, y, z}
      BY <3>1, <3>6 DEF Outcome, MergedWithin
    <3>8. ParallelRename(x, y, z)
      BY <3>2, <3>3, <3>5, <3>6, <3>7, RenamesAreWarned
    <3> QED
      BY <3>4, <3>7, <3>8 DEF Warnings, x, y, z
  <2> QED
    BY <2>2, <2>4, <2>8 DEF ReportTellsTheMerge, Tells, Sides, o, t
<1>2. MergeInv(kinds) => ReportTellsTheMerge
  BY <1>1 DEF ReportTellsTheMerge
<1> QED
  BY <1>2, MergesInv, PTL

-----------------------------------------------------------------------------
\* A report offers no lexicon that does not load.
ReportInv == report.merged # Absent => Loads(report.merged)

\* TypeOK of every run: whatever both sides do, and however often a merge is
\* written over ours, the files on both branches load.
THEOREM TypeCorrect == Spec => []TypeOK
<1> DEFINE Inv == TypeOK /\ ReportInv
<1>1. Init => Inv
  BY BranchAssumption DEF Init, TypeOK, ReportInv, NoReport, Sides
<1>2. Inv /\ [Next]_vars => Inv'
  <2> SUFFICES ASSUME Inv, [Next]_vars PROVE Inv'
    OBVIOUS
  <2> USE DEF TypeOK, ReportInv
  <2>1. CASE \E s \in Sides : EditBranch(s)
    <3>1. PICK s \in Sides : EditBranch(s)
      BY <2>1
    <3>2. PICK e \in LexiconEdits(branch[s]) :
              Loads(e.to) /\ branch' = [branch EXCEPT ![s] = e.to]
      BY <3>1 DEF EditBranch
    <3>3. DOMAIN branch' = Sides /\ \A u \in Sides : Loads(branch'[u])
      BY <3>2
    <3>4. edits' \in 0..MaxEdits
      BY <3>1, BranchAssumption DEF EditBranch
    <3> QED
      BY <3>1, <3>3, <3>4 DEF EditBranch, NoReport
  <2>2. CASE RunMerge
    <3>1. Merged.merged # Absent => Loads(Merged.merged)
      BY DEF Merged, MergeLexicons
    <3> QED
      BY <2>2, <3>1 DEF RunMerge
  <2>3. CASE WriteMerged
    BY <2>3 DEF WriteMerged, Sides, NoReport
  <2>4. CASE UNCHANGED vars
    BY <2>4 DEF vars
  <2> QED
    BY <2>1, <2>2, <2>3, <2>4 DEF Next
<1>3. Inv => TypeOK
  OBVIOUS
<1> QED
  BY <1>1, <1>2, <1>3, PTL DEF Spec
=============================================================================
