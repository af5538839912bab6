--------------------------- MODULE ToolGuardProofs ---------------------------
(***************************************************************************)
(* The matcher and the guard are right for every lexicon and text: the     *)
(* automaton (AutomatonIsRight), what a call of match finds                *)
(* (MatchesAreAll), what the guard lets through (ProceedsOnlyWithLeave)    *)
(* and what lint has told of before (LintForetells).                       *)
(* An automaton is built and run by recursive functions: what they are is  *)
(* proved by induction over sets of numbers (Induction).                   *)
(***************************************************************************)
EXTENDS ToolGuard, FiniteSetTheorems, SequenceTheorems, WellFoundedInduction, TLAPS

-----------------------------------------------------------------------------
(* Induction.                                                              *)

\* A set of numbers that is not empty has a least member.
LEMMA LeastMember ==
    ASSUME NEW S, S \subseteq Nat, S # {}
    PROVE  \E m \in S : \A k \in S : m <= k
<1> DEFINE R == OpToRel(<, Nat)
<1>1. IsWellFoundedOn(R, Nat)
      BY NatLessThanWellFounded, Zenon
<1>2. \E m \in S : \A k \in S : ~(<<k, m>> \in R)
    <2> HIDE DEF R
    <2> QED  BY <1>1, WFMin, Zenon
<1>3. PICK m \in S : \A k \in S : ~(<<k, m>> \in R)
      BY <1>2
<1>4. ASSUME NEW k \in S
      PROVE  m <= k
      <2>1. k \in Nat /\ m \in Nat
            OBVIOUS
      <2>2. ~(<<k, m>> \in R)
            BY <1>3
      <2>3. ~(k < m)
            BY <2>1, <2>2 DEF OpToRel
      <2> QED  BY <2>1, <2>3
<1> QED  BY <1>4

\* A set that has zero and the successors of its numbers has all of them.
LEMMA Induction ==
    ASSUME NEW S, 0 \in S, \A n \in Nat : n \in S => n + 1 \in S
    PROVE  \A n \in Nat : n \in S
<1> SUFFICES ASSUME Nat \ S # {} PROVE FALSE
    OBVIOUS
<1>1. PICK m \in Nat \ S : \A k \in Nat \ S : m <= k
      BY LeastMember
<1>2. m # 0 /\ m - 1 \in Nat
      OBVIOUS
<1>3. m - 1 \in S
      BY <1>1, <1>2
<1> QED  BY <1>2, <1>3

-----------------------------------------------------------------------------
(* The ends of a text.                                                     *)

\* One text ends with another, place by place.
EndsWith(t, s) == /\ Len(s) <= Len(t)
                  /\ \A i \in 1..Len(s) : s[i] = t[Len(t) - Len(s) + i]

\* A suffix is what a text ends with.
LEMMA SuffixIsEnd ==
    ASSUME NEW C, NEW t \in Seq(C), NEW s \in Seq(C)
    PROVE  s \in Suffixes(t) <=> EndsWith(t, s)
<1>1. ASSUME s \in Suffixes(t)
      PROVE  EndsWith(t, s)
    <2>1. CASE s = <<>>
          BY <2>1 DEF EndsWith
    <2>2. CASE s # <<>>
        <3>1. PICK l \in 1..Len(t) : s = SubSeq(t, l, Len(t))
              BY <1>1, <2>2 DEF Suffixes
        <3>2. Len(s) = Len(t) - l + 1
              BY <3>1
        <3> QED  BY <3>1, <3>2 DEF EndsWith
    <2> QED  BY <2>1, <2>2
<1>2. ASSUME EndsWith(t, s)
      PROVE  s \in Suffixes(t)
    <2>1. CASE Len(s) = 0
          BY <2>1 DEF Suffixes
    <2>2. CASE Len(s) # 0
        <3> DEFINE l == Len(t) - Len(s) + 1
        <3>1. l \in 1..Len(t)
              BY <1>2, <2>2 DEF EndsWith
        <3>2. s = SubSeq(t, l, Len(t))
            <4>1. SubSeq(t, l, Len(t)) \in Seq(C) /\ Len(SubSeq(t, l, Len(t))) = Len(s)
                  BY <3>1
            <4>2. \A i \in 1..Len(s) : SubSeq(t, l, Len(t))[i] = s[i]
                  BY <1>2, <3>1 DEF EndsWith
            <4> QED  BY <4>1, <4>2
        <3> QED  BY <3>1, <3>2 DEF Suffixes
    <2> QED  BY <2>1, <2>2
<1> QED  BY <1>1, <1>2

\* Suffixes are texts.
LEMMA SuffixesType ==
    ASSUME NEW C, NEW t \in Seq(C), NEW s \in Suffixes(t)
    PROVE  s \in Seq(C)
<1>1. CASE s = <<>>
      BY <1>1
<1>2. ASSUME NEW l \in 1..Len(t), s = SubSeq(t, l, Len(t))
      PROVE  s \in Seq(C)
    <2>1. l \in Nat /\ Len(t) \in Nat /\ l..Len(t) \subseteq 1..Len(t)
          BY <1>2
    <2> QED  BY <1>2, <2>1
<1> QED  BY <1>1, <1>2 DEF Suffixes

\* What is before the last character.
LEMMA FrontProperties ==
    ASSUME NEW C, NEW s \in Seq(C), s # <<>>
    PROVE  /\ Front(s) \in Seq(C) /\ Len(Front(s)) = Len(s) - 1
           /\ \A i \in 1..Len(s) - 1 : Front(s)[i] = s[i]
           /\ s = Append(Front(s), s[Len(s)])
<1> DEFINE f == SubSeq(s, 1, Len(s) - 1)
<1>0. Len(s) \in Nat \ {0} /\ 1..Len(s) - 1 \subseteq 1..Len(s)
      OBVIOUS
<1>1. f \in Seq(C) /\ Len(f) = Len(s) - 1 /\ \A i \in 1..Len(s) - 1 : f[i] = s[i]
    <2>1. f = [i \in 1..Len(s) - 1 |-> s[i]]
          BY <1>0
    <2>2. Len(s) - 1 \in Nat /\ \A i \in 1..Len(s) - 1 : s[i] \in C
          BY <1>0
    <2> HIDE DEF f
    <2> QED  BY <2>1, <2>2
<1>2. s = Append(f, s[Len(s)])
      BY <1>1
<1> QED  BY <1>1, <1>2 DEF Front

\* A suffix of a suffix is one, and of two suffixes the shorter is one of the longer.
LEMMA SuffixOfSuffix ==
    ASSUME NEW C, NEW u \in Seq(C), NEW t \in Suffixes(u)
    PROVE  /\ \A s \in Suffixes(t) : s \in Suffixes(u)
           /\ \A s \in Suffixes(u) : Len(s) <= Len(t) => s \in Suffixes(t)
<1>1. t \in Seq(C)
      BY SuffixesType
<1>2. EndsWith(u, t)
      BY <1>1, SuffixIsEnd
<1>3. ASSUME NEW s \in Suffixes(t)
      PROVE  s \in Suffixes(u)
    <2>1. s \in Seq(C)
          BY <1>1, SuffixesType
    <2>2. EndsWith(t, s)
          BY <1>1, <2>1, SuffixIsEnd
    <2>3. EndsWith(u, s)
          BY <1>1, <1>2, <2>1, <2>2 DEF EndsWith
    <2> QED  BY <2>1, <2>3, SuffixIsEnd
<1>4. ASSUME NEW s \in Suffixes(u), Len(s) <= Len(t)
      PROVE  s \in Suffixes(t)
    <2>1. s \in Seq(C)
          BY SuffixesType
    <2>2. EndsWith(u, s)
          BY <2>1, SuffixIsEnd
    <2>3. EndsWith(t, s)
          BY <1>1, <1>2, <1>4, <2>1, <2>2 DEF EndsWith
    <2> QED  BY <1>1, <2>1, <2>3, SuffixIsEnd
<1> QED  BY <1>3, <1>4

\* Of a text and one more character: its suffixes but the empty one are those of the
\* text, each with the character.
LEMMA SuffixOfAppend ==
    ASSUME NEW C, NEW t \in Seq(C), NEW c \in C
    PROVE  /\ \A s \in Suffixes(t) : Append(s, c) \in Suffixes(Append(t, c))
           /\ \A s \in Suffixes(Append(t, c)) :
                 s # <<>> => /\ Front(s) \in Suffixes(t) /\ s = Append(Front(s), c)
                             /\ Len(Front(s)) = Len(s) - 1
<1> DEFINE u == Append(t, c)
<1>1. u \in Seq(C) /\ Len(u) = Len(t) + 1 /\ u[Len(u)] = c /\ \A i \in 1..Len(t) : u[i] = t[i]
      OBVIOUS
<1> HIDE DEF u
<1>2. ASSUME NEW s \in Suffixes(t)
      PROVE  Append(s, c) \in Suffixes(u)
    <2>1. s \in Seq(C) /\ EndsWith(t, s)
          BY SuffixesType, SuffixIsEnd
    <2>2. /\ Append(s, c) \in Seq(C) /\ Len(Append(s, c)) = Len(s) + 1
          /\ Append(s, c)[Len(s) + 1] = c /\ \A i \in 1..Len(s) : Append(s, c)[i] = s[i]
          BY <2>1
    <2> DEFINE a == Append(s, c)
    <2> HIDE DEF a
    <2>3. EndsWith(u, a)
        <3>1. Len(a) <= Len(u)
              BY <1>1, <2>1, <2>2 DEF EndsWith, a
        <3>2. ASSUME NEW i \in 1..Len(a)
              PROVE  a[i] = u[Len(u) - Len(a) + i]
            <4>1. CASE i = Len(s) + 1
                  BY <1>1, <2>1, <2>2, <4>1 DEF a
            <4>2. CASE i # Len(s) + 1
                <5>1. i \in 1..Len(s)
                      BY <2>1, <2>2, <4>2 DEF a
                <5>2. s[i] = t[Len(t) - Len(s) + i]
                      BY <2>1, <5>1 DEF EndsWith
                <5>3. Len(t) - Len(s) + i \in 1..Len(t) /\ Len(u) - Len(a) = Len(t) - Len(s)
                      BY <1>1, <2>1, <2>2, <5>1 DEF EndsWith, a
                <5> QED  BY <1>1, <2>2, <5>1, <5>2, <5>3 DEF a
            <4> QED  BY <4>1, <4>2
        <3> QED  BY <3>1, <3>2 DEF EndsWith
    <2> QED  BY <1>1, <2>2, <2>3, SuffixIsEnd DEF a
<1>3. ASSUME NEW s \in Suffixes(u), s # <<>>
      PROVE  Front(s) \in Suffixes(t) /\ s = Append(Front(s), c) /\ Len(Front(s)) = Len(s) - 1
    <2>1. s \in Seq(C) /\ EndsWith(u, s)
          BY <1>1, SuffixesType, SuffixIsEnd
    <2>2. Len(s) \in Nat \ {0} /\ s[Len(s)] = c
          BY <1>1, <1>3, <2>1 DEF EndsWith
    <2>3. /\ Front(s) \in Seq(C) /\ Len(Front(s)) = Len(s) - 1
          /\ \A i \in 1..Len(s) - 1 : Front(s)[i] = s[i]
          BY <2>1, <2>2, FrontProperties
    <2>4. s = Append(Front(s), c)
          BY <2>1, <2>2, <2>3
    <2>5. EndsWith(t, Front(s))
          BY <1>1, <2>1, <2>2, <2>3 DEF EndsWith
    <2> QED  BY <2>3, <2>4, <2>5, SuffixIsEnd
<1> QED  BY <1>2, <1>3 DEF u

\* The suffixes of a text that is not empty: itself and those of its tail.
LEMMA SuffixOfTail ==
    ASSUME NEW C, NEW t \in Seq(C), t # <<>>
    PROVE  /\ Tail(t) \in Seq(C) /\ Tail(t) \in Suffixes(t) /\ t \in Suffixes(t)
           /\ Len(Tail(t)) = Len(t) - 1
           /\ \A s \in Suffixes(t) : s = t \/ s \in Suffixes(Tail(t))
<1>1. /\ Tail(t) \in Seq(C) /\ Len(Tail(t)) = Len(t) - 1 /\ Len(t) \in Nat \ {0}
      /\ \A i \in 1..Len(t) - 1 : Tail(t)[i] = t[i + 1]
      BY HeadTailProperties
<1>2. EndsWith(t, Tail(t)) /\ EndsWith(t, t)
      BY <1>1 DEF EndsWith
<1>3. Tail(t) \in Suffixes(t) /\ t \in Suffixes(t)
      BY <1>1, <1>2, SuffixIsEnd
<1>4. ASSUME NEW s \in Suffixes(t), s # t
      PROVE  s \in Suffixes(Tail(t))
    <2>1. s \in Seq(C) /\ EndsWith(t, s)
          BY SuffixesType, SuffixIsEnd
    <2>2. Len(s) # Len(t)
          BY <1>4, <2>1, SeqEqual DEF EndsWith
    <2>3. Len(s) <= Len(Tail(t))
          BY <1>1, <2>1, <2>2 DEF EndsWith
    <2> QED  BY <1>3, <2>3, SuffixOfSuffix
<1> QED  BY <1>1, <1>3, <1>4

-----------------------------------------------------------------------------
(* The nodes of a trie.                                                    *)

\* What a set of nodes has the beginnings of.
PrefixClosed(nodes) == <<>> \in nodes /\ \A n \in nodes : n # <<>> => Front(n) \in nodes

\* A trie has the words and all that they begin with.
LEMMA TrieProperties ==
    ASSUME NEW C, NEW words, words \subseteq Seq(C), IsFiniteSet(words)
    PROVE  /\ TrieNodes(words) \subseteq Seq(C)
           /\ PrefixClosed(TrieNodes(words))
           /\ words \subseteq TrieNodes(words)
           /\ IsFiniteSet(TrieNodes(words))
<1>1. ASSUME NEW w \in words
      PROVE  /\ Prefixes(w) \subseteq Seq(C) /\ w \in Prefixes(w) /\ IsFiniteSet(Prefixes(w))
             /\ \A n \in Prefixes(w) : n # <<>> => Front(n) \in Prefixes(w)
    <2>1. w \in Seq(C) /\ Len(w) \in Nat
          OBVIOUS
    <2>2. ASSUME NEW l \in 0..Len(w)
          PROVE  /\ SubSeq(w, 1, l) \in Seq(C) /\ Len(SubSeq(w, 1, l)) = l
                 /\ \A i \in 1..l : SubSeq(w, 1, l)[i] = w[i]
        <3>1. 1 \in Int /\ l \in Int /\ \A i \in 1..l : w[i] \in C
              BY <2>1
        <3> QED  BY <3>1, SubSeqProperties
    <2>3. Prefixes(w) \subseteq Seq(C)
          BY <2>2 DEF Prefixes
    <2>4. w \in Prefixes(w)
        <3>1. SubSeq(w, 1, Len(w)) = w
              BY <2>1, SubSeqFull
        <3>2. Len(w) \in 0..Len(w)
              BY <2>1
        <3> QED  BY <3>1, <3>2 DEF Prefixes
    <2>5. IsFiniteSet(Prefixes(w))
        <3> DEFINE f == [l \in 0..Len(w) |-> SubSeq(w, 1, l)]
        <3>1. f \in Surjection(0..Len(w), Prefixes(w))
              BY DEF Surjection, Prefixes
        <3>2. IsFiniteSet(0..Len(w))
              BY <2>1, FS_Interval
        <3> QED  BY <3>1, <3>2, FS_Surjection
    <2>6. ASSUME NEW n \in Prefixes(w), n # <<>>
          PROVE  Front(n) \in Prefixes(w)
        <3>1. PICK l \in 0..Len(w) : n = SubSeq(w, 1, l)
              BY DEF Prefixes
        <3>2. l # 0
              BY <2>6, <3>1, SubSeqEmpty
        <3>3. n \in Seq(C) /\ Len(n) = l /\ l - 1 \in 0..Len(w)
              BY <2>1, <2>2, <3>1, <3>2
        <3>4. /\ Front(n) \in Seq(C) /\ Len(Front(n)) = l - 1
              /\ \A i \in 1..l - 1 : Front(n)[i] = n[i]
              BY <2>6, <3>3, FrontProperties
        <3>5. /\ SubSeq(w, 1, l - 1) \in Seq(C) /\ Len(SubSeq(w, 1, l - 1)) = l - 1
              /\ \A i \in 1..l - 1 : SubSeq(w, 1, l - 1)[i] = w[i]
              BY <2>2, <3>3
        <3>6. \A i \in 1..l - 1 : n[i] = w[i]
              BY <2>2, <3>1, <3>3
        <3>7. Front(n) = SubSeq(w, 1, l - 1)
              BY <3>4, <3>5, <3>6, SeqEqual
        <3> QED  BY <3>3, <3>7 DEF Prefixes
    <2> QED  BY <2>3, <2>4, <2>5, <2>6
<1> DEFINE all == {Prefixes(w) : w \in words}
<1>2. IsFiniteSet(UNION all)
    <2> DEFINE f == [w \in words |-> Prefixes(w)]
    <2>1. f \in Surjection(words, all)
          BY DEF Surjection
    <2>2. IsFiniteSet(all)
          BY <2>1, FS_Surjection
    <2>3. \A p \in all : IsFiniteSet(p)
          BY <1>1
    <2> HIDE DEF all
    <2> QED  BY <2>2, <2>3, FS_UNION
<1>3. IsFiniteSet({Root} \cup UNION all)
    <2>1. IsFiniteSet({Root})
          BY FS_Singleton
    <2> HIDE DEF all
    <2> QED  BY <1>2, <2>1, FS_Union
<1>4. TrieNodes(words) \subseteq Seq(C)
    <2>1. \A w \in words : Prefixes(w) \subseteq Seq(C)
          BY <1>1
    <2>2. <<>> \in Seq(C)
          BY EmptySeq
    <2> QED  BY <2>1, <2>2, Zenon DEF TrieNodes, Root
<1>5. PrefixClosed(TrieNodes(words))
      BY <1>1 DEF TrieNodes, Root, PrefixClosed
<1>6. words \subseteq TrieNodes(words)
      BY <1>1 DEF TrieNodes
<1> QED  BY <1>3, <1>4, <1>5, <1>6 DEF TrieNodes

\* Finitely many texts have a length none exceeds.
LEMMA LengthsAreBounded ==
    ASSUME NEW C, NEW D, D \subseteq Seq(C), IsFiniteSet(D)
    PROVE  \E b \in Nat : \A n \in D : Len(n) <= b
<1> DEFINE Fits(E) == \E b \in Nat : \A n \in E : Len(n) <= b
           S == {k \in Nat : \A E \in SUBSET D : Cardinality(E) = k => Fits(E)}
<1>1. 0 \in S
    <2>1. ASSUME NEW E \in SUBSET D, Cardinality(E) = 0
          PROVE  Fits(E)
        <3>1. IsFiniteSet(E)
              BY FS_Subset
        <3>2. E = {}
              BY <2>1, <3>1, FS_EmptySet
        <3> QED  BY <3>2
    <2> QED  BY <2>1
<1>2. ASSUME NEW k \in Nat, k \in S
      PROVE  k + 1 \in S
    <2>1. ASSUME NEW E \in SUBSET D, Cardinality(E) = k + 1
          PROVE  Fits(E)
        <3>1. IsFiniteSet(E)
              BY FS_Subset
        <3>2. E # {}
            <4>1. Cardinality({}) = 0 /\ k + 1 # 0
                  BY FS_EmptySet
            <4> QED  BY <2>1, <4>1
        <3>3. PICK x \in E : TRUE
              BY <3>2
        <3>4. Cardinality(E \ {x}) = k
            <4>1. Cardinality(E \ {x}) = Cardinality(E) - 1
                  BY <3>1, FS_RemoveElement
            <4> QED  BY <2>1, <4>1
        <3>5. PICK b \in Nat : \A n \in E \ {x} : Len(n) <= b
              BY <1>2, <3>4
        <3>6. Len(x) \in Nat /\ \A n \in E : Len(n) \in Nat
              OBVIOUS
        <3>7. \A n \in E : Len(n) <= b + Len(x)
              BY <3>5, <3>6
        <3> QED  BY <3>6, <3>7
    <2>2. k + 1 \in Nat
          OBVIOUS
    <2> HIDE DEF Fits
    <2> QED  BY <2>1, <2>2
<1> HIDE DEF S
<1>3. \A n \in Nat : n \in S
      BY <1>1, <1>2, Induction
<1>4. Cardinality(D) \in Nat
      BY FS_CardinalityType
<1> QED  BY <1>3, <1>4 DEF S

-----------------------------------------------------------------------------
(* Failure links.                                                          *)

\* The node of the longest suffix of a text.
Longest(nodes, u, n) ==
    /\ n \in nodes /\ n \in Suffixes(u)
    /\ \A k \in nodes : k \in Suffixes(u) => Len(k) <= Len(n)

\* Links that lead from every node but the root to a shorter one.
Linked(C, nodes, links) ==
    /\ nodes \subseteq Seq(C) /\ IsFiniteSet(nodes) /\ PrefixClosed(nodes)
    /\ links \in [nodes -> nodes]
    /\ \A n \in nodes : n # Root => Len(links[n]) < Len(n)

\* What the fall along links is by its equation.
IsFall(fall, links, c) ==
    fall = [n \in DOMAIN links |->
               IF n # Root /\ Append(n, c) \notin DOMAIN links THEN fall[links[n]] ELSE n]

\* Links that get shorter end: the equation has a solution.
LEMMA FallExists ==
    ASSUME NEW C, NEW nodes, NEW links, NEW c, Linked(C, nodes, links)
    PROVE  \E fall : IsFall(fall, links, c)
<1> DEFINE Of(k) == {n \in nodes : Len(n) <= k}
           Stays(n) == n = Root \/ Append(n, c) \in nodes
           Solves(fall, k) == fall = [n \in Of(k) |-> IF Stays(n) THEN n ELSE fall[links[n]]]
           S == {k \in Nat : \E fall : Solves(fall, k)}
<1>1. /\ \A n \in nodes : Len(n) \in Nat /\ (Len(n) = 0 => n = Root)
      /\ \A n \in nodes : links[n] \in nodes /\ (n # Root => Len(links[n]) < Len(n))
      /\ DOMAIN links = nodes
    <2>1. \A n \in nodes : n \in Seq(C)
          BY DEF Linked
    <2> QED  BY <2>1 DEF Linked, Root
<1>2. 0 \in S
    <2>1. Solves([n \in Of(0) |-> n], 0)
          BY <1>1
    <2> HIDE DEF Solves
    <2> QED  BY <2>1
<1>3. ASSUME NEW k \in Nat, k \in S
      PROVE  k + 1 \in S
    <2>1. PICK fall : Solves(fall, k)
          BY <1>3
    <2> DEFINE more == [n \in Of(k + 1) |-> IF Stays(n) THEN n ELSE fall[links[n]]]
    <2>2. ASSUME NEW n \in Of(k + 1), ~Stays(n)
          PROVE  more[links[n]] = fall[links[n]]
        <3>1. links[n] \in Of(k) /\ links[n] \in Of(k + 1)
              BY <1>1, <2>2
        <3>2. fall[links[n]] = IF Stays(links[n]) THEN links[n] ELSE fall[links[links[n]]]
            <4> HIDE DEF Stays, Of
            <4> QED  BY <2>1, <3>1
        <3>3. more[links[n]] = IF Stays(links[n]) THEN links[n] ELSE fall[links[links[n]]]
            <4> HIDE DEF Stays, Of
            <4> QED  BY <3>1
        <3> QED  BY <3>2, <3>3
    <2>3. Solves(more, k + 1)
        <3>1. \A n \in Of(k + 1) : (IF Stays(n) THEN n ELSE fall[links[n]])
                                       = (IF Stays(n) THEN n ELSE more[links[n]])
            <4> HIDE DEF Stays, Of, more
            <4> QED  BY <2>2
        <3> HIDE DEF Stays, Of
        <3> QED  BY <3>1
    <2>4. k + 1 \in Nat
          OBVIOUS
    <2> HIDE DEF Solves, more
    <2> QED  BY <2>3, <2>4
<1>4. PICK b \in Nat : \A n \in nodes : Len(n) <= b
      BY LengthsAreBounded DEF Linked
<1>5. b \in S
    <2> HIDE DEF S
    <2> QED  BY <1>2, <1>3, Induction
<1>6. PICK fall : Solves(fall, b)
      BY <1>5
<1>7. Of(b) = nodes
      BY <1>4
<1>8. IsFall(fall, links, c)
    <2>1. \A n \in nodes : (IF Stays(n) THEN n ELSE fall[links[n]])
                = (IF n # Root /\ Append(n, c) \notin nodes THEN fall[links[n]] ELSE n)
          OBVIOUS
    <2> HIDE DEF Of, Stays
    <2> QED  BY <1>1, <1>6, <1>7, <2>1 DEF IsFall
<1> QED  BY <1>8

\* The fall is the solution of its equation.
LEMMA FallToIs ==
    ASSUME NEW C, NEW nodes, NEW links, NEW from, NEW c, Linked(C, nodes, links)
    PROVE  \E fall : IsFall(fall, links, c) /\ FallTo(links, from, c) = fall[from]
<1> DEFINE Fall == CHOOSE fall : IsFall(fall, links, c)
<1>1. IsFall(Fall, links, c)
      BY FallExists
<1>2. FallTo(links, from, c) = Fall[from]
      BY Zenon DEF FallTo, IsFall
<1> QED  BY <1>1, <1>2

\* A node that can go on with the character, or the root, on the way down.
Lands(nodes, from, c, f) ==
    /\ f \in nodes /\ f \in Suffixes(from)
    /\ f = Root \/ Append(f, c) \in nodes
    /\ \A k \in nodes : k \in Suffixes(from) /\ Append(k, c) \in nodes => Len(k) <= Len(f)

\* Where links lead to the longest proper suffix, the fall ends at the longest suffix
\* of where it begins that can go on.
LEMMA FallLands ==
    ASSUME NEW C, NEW nodes, NEW links, NEW c \in C, NEW fall, NEW from \in nodes,
           Linked(C, nodes, links), IsFall(fall, links, c),
           \A n \in nodes : n # Root /\ Len(n) <= Len(from) => Longest(nodes, Tail(n), links[n])
    PROVE  Lands(nodes, from, c, fall[from])
<1> DEFINE S == {k \in Nat : \A n \in nodes :
                    Len(n) <= k /\ Len(n) <= Len(from) => Lands(nodes, n, c, fall[n])}
<1>0. \A n \in nodes : n \in Seq(C) /\ Len(n) \in Nat /\ (Len(n) = 0 => n = Root)
    <2>1. \A n \in nodes : n \in Seq(C)
          BY DEF Linked
    <2> QED  BY <2>1 DEF Root
<1>1. \A n \in nodes : n \in Suffixes(n)
    <2> TAKE n \in nodes
    <2>1. CASE n = <<>>
          BY <2>1 DEF Suffixes
    <2>2. CASE n # <<>>
          BY <1>0, <2>2, SuffixOfTail
    <2> QED  BY <2>1, <2>2
<1>2. ASSUME NEW n \in nodes
      PROVE  fall[n] = IF n # Root /\ Append(n, c) \notin nodes THEN fall[links[n]] ELSE n
    <2>1. DOMAIN links = nodes
          BY DEF Linked
    <2> QED  BY <2>1 DEF IsFall
<1>3. ASSUME NEW n \in nodes, n = Root \/ Append(n, c) \in nodes
      PROVE  Lands(nodes, n, c, fall[n])
    <2>1. fall[n] = n
          BY <1>2, <1>3
    <2>2. \A k \in nodes : k \in Suffixes(n) => Len(k) <= Len(n)
          BY <1>0, SuffixIsEnd DEF EndsWith
    <2> QED  BY <1>1, <1>3, <2>1, <2>2 DEF Lands
<1>4. 0 \in S
      BY <1>0, <1>3
<1>5. ASSUME NEW k \in Nat, k \in S
      PROVE  k + 1 \in S
    <2>1. ASSUME NEW n \in nodes, Len(n) <= k + 1, Len(n) <= Len(from),
                 n # Root, Append(n, c) \notin nodes
          PROVE  Lands(nodes, n, c, fall[n])
        <3> DEFINE l == links[n]
        <3>1. /\ l \in nodes /\ Len(l) < Len(n) /\ fall[n] = fall[l]
              /\ Longest(nodes, Tail(n), l)
              BY <1>2, <2>1 DEF Linked
        <3>2. Lands(nodes, l, c, fall[l])
            <4>1. Len(l) <= k /\ Len(l) <= Len(from)
                  BY <1>0, <2>1, <3>1
            <4> QED  BY <1>5, <3>1, <4>1
        <3>3. /\ Tail(n) \in Seq(C) /\ Tail(n) \in Suffixes(n)
              /\ \A s \in Suffixes(n) : s = n \/ s \in Suffixes(Tail(n))
              BY <1>0, <2>1, SuffixOfTail DEF Root
        <3>4. l \in Suffixes(Tail(n)) /\ l \in Suffixes(n)
            <4>1. l \in Suffixes(Tail(n))
                  BY <3>1 DEF Longest
            <4> QED  BY <1>0, <3>3, <4>1, SuffixOfSuffix
        <3>5. fall[l] \in Suffixes(n)
              BY <1>0, <3>2, <3>4, SuffixOfSuffix DEF Lands
        <3>6. ASSUME NEW j \in nodes, j \in Suffixes(n), Append(j, c) \in nodes
              PROVE  Len(j) <= Len(fall[l])
            <4>1. j \in Suffixes(Tail(n))
                  BY <2>1, <3>3, <3>6
            <4>2. Len(j) <= Len(l)
                  BY <3>1, <3>6, <4>1 DEF Longest
            <4>3. j \in Suffixes(l)
                  BY <3>3, <3>4, <4>1, <4>2, SuffixOfSuffix
            <4> QED  BY <3>2, <3>6, <4>3 DEF Lands
        <3> QED  BY <3>1, <3>2, <3>5, <3>6 DEF Lands
    <2>2. \A n \in nodes : Len(n) <= k + 1 /\ Len(n) <= Len(from) => Lands(nodes, n, c, fall[n])
          BY <1>3, <2>1
    <2> QED  BY <2>2
<1>6. \A k \in Nat : k \in S
    <2> HIDE DEF S
    <2> QED  BY <1>4, <1>5, Induction
<1>7. Len(from) \in Nat /\ Len(from) <= Len(from)
      BY <1>0
<1> QED  BY <1>6, <1>7

\* From the longest suffix of what was read the automaton steps to that of what is read
\* with one more character.
LEMMA StepIsLongest ==
    ASSUME NEW C, NEW nodes, NEW links, NEW c \in C, NEW u \in Seq(C), NEW from \in nodes,
           Linked(C, nodes, links), Longest(nodes, u, from),
           \A n \in nodes : n # Root /\ Len(n) <= Len(from) => Longest(nodes, Tail(n), links[n])
    PROVE  Longest(nodes, Append(u, c), StepFrom(links, from, c))
<1> DEFINE f == FallTo(links, from, c)
<1>1. Lands(nodes, from, c, f)
      BY FallToIs, FallLands
<1>2. DOMAIN links = nodes /\ Root \in nodes /\ Root = <<>>
      BY DEF Linked, PrefixClosed, Root
<1>3. StepFrom(links, from, c) = IF Append(f, c) \in nodes THEN Append(f, c) ELSE Root
      BY <1>2 DEF StepFrom
<1>4. f \in nodes /\ f \in Suffixes(u) /\ f \in Seq(C)
    <2>1. from \in Suffixes(u) /\ f \in nodes
          BY <1>1 DEF Longest, Lands
    <2> QED  BY <1>1, <2>1, SuffixOfSuffix DEF Lands, Linked
<1> HIDE DEF f
<1>5. ASSUME NEW s \in nodes, s \in Suffixes(Append(u, c)), s # <<>>
      PROVE  Append(f, c) \in nodes /\ Len(s) <= Len(Append(f, c))
    <2>1. /\ Front(s) \in Suffixes(u) /\ s = Append(Front(s), c) /\ Len(Front(s)) = Len(s) - 1
          BY <1>5, SuffixOfAppend
    <2>2. Front(s) \in nodes
          BY <1>5 DEF Linked, PrefixClosed
    <2>3. Front(s) \in Suffixes(from)
        <3>1. Len(Front(s)) <= Len(from) /\ from \in Suffixes(u)
              BY <2>1, <2>2 DEF Longest
        <3> QED  BY <2>1, <3>1, SuffixOfSuffix
    <2>4. Append(Front(s), c) \in nodes
          BY <1>5, <2>1
    <2>5. Len(Front(s)) <= Len(f)
          BY <1>1, <2>2, <2>3, <2>4 DEF Lands
    <2>6. /\ Len(s) \in Nat /\ Len(f) \in Nat /\ Len(Append(f, c)) = Len(f) + 1
          /\ Front(s) \in Seq(C)
          BY <1>4, <1>5, <2>2 DEF Linked
    <2>7. Append(f, c) \in nodes
        <3>1. CASE f = Root
            <4>1. Front(s) = <<>>
                  BY <1>2, <2>5, <2>6, <3>1
            <4> QED  BY <1>2, <2>4, <3>1, <4>1
        <3>2. CASE f # Root
              BY <1>1, <3>2 DEF Lands
        <3> QED  BY <3>1, <3>2
    <2> QED  BY <2>1, <2>5, <2>6, <2>7
<1>6. Append(f, c) \in Suffixes(Append(u, c))
      BY <1>4, SuffixOfAppend
<1>7. <<>> \in Suffixes(Append(u, c)) /\ Len(<<>>) = 0
      BY DEF Suffixes
<1>8. \A s \in nodes : Len(s) \in Nat
      BY DEF Linked
<1>9. CASE Append(f, c) \in nodes
      BY <1>3, <1>5, <1>6, <1>7, <1>8, <1>9 DEF Longest
<1>10. CASE Append(f, c) \notin nodes
      BY <1>2, <1>3, <1>5, <1>7, <1>10 DEF Longest
<1> QED  BY <1>9, <1>10

-----------------------------------------------------------------------------
(* Breadth first.                                                          *)

\* A set as a sequence: of its members, each of them.
LEMMA SetToSeqHasAll ==
    ASSUME NEW S, IsFiniteSet(S)
    PROVE  /\ SetToSeq(S) \in Seq(S)
           /\ \A x \in S : \E i \in 1..Len(SetToSeq(S)) : SetToSeq(S)[i] = x
<1> DEFINE n == Cardinality(S)
           P(f) == f \in [1..n -> S] /\ IsInjective(f)
<1>1. n \in Nat
      BY FS_CardinalityType
<1>2. \E f : P(f)
    <2>1. PICK k \in Nat : ExistsBijection(1..k, S)
          BY FS_NatBijection
    <2>2. k = n
          BY <2>1, FS_CountingElements
    <2>3. PICK f \in Bijection(1..n, S) : TRUE
          BY <2>1, <2>2 DEF ExistsBijection
    <2>4. f \in [1..n -> S]
          BY DEF Bijection, Injection
    <2>5. IsInjective(f)
          BY <2>4 DEF Bijection, Injection, IsInjective
    <2> QED  BY <2>4, <2>5
<1>3. SetToSeq(S) \in [1..n -> S] /\ IsInjective(SetToSeq(S))
    <2>1. \E f \in [1..n -> S] : IsInjective(f)
          BY <1>2
    <2> QED  BY <2>1, Zenon DEF SetToSeq
<1> DEFINE q == SetToSeq(S)
<1> HIDE DEF q
<1>4. q \in Seq(S) /\ Len(q) = n
      BY <1>1, <1>3 DEF q
<1>5. q \in Surjection(1..n, S)
    <2>1. q \in Injection(1..n, S)
          BY <1>3 DEF q, Injection, IsInjective
    <2>2. Cardinality(1..n) = n
          BY <1>1, FS_Interval
    <2> QED  BY <2>1, <2>2, FS_Injection
<1>6. \A x \in S : \E i \in 1..Len(q) : q[i] = x
      BY <1>4, <1>5 DEF Surjection
<1> QED  BY <1>4, <1>6 DEF q

\* The children of a node are the nodes it is the front of.
LEMMA ChildrenAre ==
    ASSUME NEW C, NEW nodes, nodes \subseteq Seq(C), NEW p \in nodes, NEW n \in nodes
    PROVE  n \in ChildrenOf(nodes, p) <=> n # <<>> /\ Front(n) = p
<1>1. p \in Seq(C) /\ n \in Seq(C) /\ Len(p) \in Nat /\ Len(n) \in Nat
      OBVIOUS
<1>2. SubSeq(p, 1, Len(p)) = p
      BY SubSeqFull
<1>3. ASSUME n \in ChildrenOf(nodes, p)
      PROVE  n # <<>> /\ Front(n) = p
    <2>1. Len(n) = Len(p) + 1 /\ SubSeq(p, 1, Len(p)) = SubSeq(n, 1, Len(p))
          BY <1>3 DEF ChildrenOf, IsPrefix
    <2>2. Len(n) - 1 = Len(p) /\ n # <<>>
          BY <1>1, <2>1
    <2> QED  BY <1>2, <2>1, <2>2 DEF Front
<1>4. ASSUME n # <<>>, Front(n) = p
      PROVE  n \in ChildrenOf(nodes, p)
    <2>1. Len(p) = Len(n) - 1
          BY <1>4, FrontProperties
    <2>2. Len(n) = Len(p) + 1
          BY <1>1, <2>1
    <2>3. SubSeq(n, 1, Len(p)) = p
          BY <1>4, <2>1 DEF Front
    <2>4. IsPrefix(p, n)
          BY <1>1, <1>2, <2>2, <2>3 DEF IsPrefix
    <2> QED  BY <2>2, <2>4 DEF ChildrenOf
<1> QED  BY <1>3, <1>4

\* The queue of nodes whose children are not done: all up to the length of the first are
\* done, and of the next length each is in the queue or its front is.
Level(nodes, done, q, h) ==
    /\ \A i \in 1..Len(q) : Len(q[i]) \in {h, h + 1} /\ q[i] \in done
    /\ \A i, j \in 1..Len(q) : i <= j => Len(q[i]) <= Len(q[j])
    /\ \A n \in nodes : n # Root /\ Len(n) <= h => n \in done
    /\ \A n \in nodes : Len(n) = h + 1 => \E i \in 1..Len(q) : q[i] \in {n, Front(n)}

QueueOk(nodes, done, q) ==
    /\ q \in Seq(nodes \ {Root})
    /\ q = <<>> => \A n \in nodes : n # Root => n \in done
    /\ q # <<>> => Level(nodes, done, q, Len(q[1]))

\* Without a node of a length there is none that is longer.
LEMMA NoLongerNode ==
    ASSUME NEW C, NEW nodes, nodes \subseteq Seq(C), PrefixClosed(nodes),
           NEW h \in Nat, \A n \in nodes : Len(n) # h + 1
    PROVE  \A n \in nodes : Len(n) <= h
<1> DEFINE S == {Len(n) : n \in {k \in nodes : Len(k) > h}}
<1>1. \A n \in nodes : Len(n) \in Nat
      OBVIOUS
<1>2. S \subseteq Nat
      BY <1>1
<1> SUFFICES ASSUME S # {} PROVE FALSE
    BY <1>1
<1>3. PICK m \in S : \A k \in S : m <= k
    <2> HIDE DEF S
    <2> QED  BY <1>2, LeastMember
<1>4. PICK n \in nodes : Len(n) = m /\ Len(n) > h
      OBVIOUS
<1>5. n # <<>> /\ Len(Front(n)) = Len(n) - 1 /\ Front(n) \in nodes
    <2>1. n # <<>>
          BY <1>4
    <2> QED  BY <2>1, FrontProperties DEF PrefixClosed
<1>6. Len(n) # h + 1 /\ Len(n) \in Nat
      BY <1>1
<1>7. Len(Front(n)) > h
      BY <1>4, <1>5, <1>6
<1>8. Len(Front(n)) \in S
      BY <1>5, <1>7
<1> QED  BY <1>3, <1>4, <1>5, <1>6, <1>8

\* The children of the root begin the queue.
LEMMA QueueBegins ==
    ASSUME NEW C, NEW nodes, nodes \subseteq Seq(C), PrefixClosed(nodes), IsFiniteSet(nodes),
           NEW done, \A n \in nodes : Len(n) = 1 => n \in done
    PROVE  QueueOk(nodes, done, SetToSeq(ChildrenOf(nodes, Root)))
<1> DEFINE cs == ChildrenOf(nodes, Root)
           q == SetToSeq(cs)
<1>1. /\ Root \in nodes /\ Len(Root) = 0 /\ Root = <<>>
      /\ \A n \in nodes : Len(n) \in Nat /\ (Len(n) = 0 <=> n = Root)
      BY DEF PrefixClosed, Root
<1>2. \A n \in nodes : n \in cs <=> Len(n) = 1
    <2> TAKE n \in nodes
    <2>1. n \in cs <=> n # <<>> /\ Front(n) = Root
          BY <1>1, ChildrenAre
    <2>2. CASE n = <<>>
          BY <1>1, <2>1, <2>2
    <2>3. CASE n # <<>>
        <3>1. Front(n) \in nodes /\ Len(Front(n)) = Len(n) - 1
              BY <2>3, FrontProperties DEF PrefixClosed
        <3>2. Len(Front(n)) = 0 <=> Front(n) = Root
              BY <1>1, <3>1
        <3>3. Len(n) \in Nat
              BY <1>1
        <3> QED  BY <2>1, <2>3, <3>1, <3>2, <3>3
    <2> QED  BY <2>2, <2>3
<1>3. cs \subseteq nodes /\ cs \subseteq nodes \ {Root}
      BY <1>1, <1>2 DEF ChildrenOf
<1>4. IsFiniteSet(cs)
      BY <1>3, FS_Subset
<1>5. q \in Seq(cs) /\ \A x \in cs : \E i \in 1..Len(q) : q[i] = x
      BY <1>4, SetToSeqHasAll
<1> HIDE DEF cs, q
<1>6. q \in Seq(nodes \ {Root})
      BY <1>3, <1>5, SeqMonotonic
<1>7. CASE q = <<>>
    <2>1. cs = {}
          BY <1>5, <1>7
    <2>2. \A n \in nodes : Len(n) # 0 + 1
          BY <1>2, <2>1
    <2>3. \A n \in nodes : Len(n) <= 0
          BY <2>2, NoLongerNode
    <2> QED  BY <1>1, <1>6, <1>7, <2>3 DEF QueueOk, q, cs
<1>8. CASE q # <<>>
    <2>1. \A i \in 1..Len(q) : q[i] \in cs /\ q[i] \in nodes /\ Len(q[i]) = 1
          BY <1>2, <1>3, <1>5
    <2>2. 1 \in 1..Len(q) /\ Len(q[1]) = 1
          BY <1>5, <1>8, <2>1
    <2>3. ASSUME NEW n \in nodes, Len(n) = 2
          PROVE  \E i \in 1..Len(q) : q[i] \in {n, Front(n)}
        <3>1. n # <<>>
              BY <1>1, <2>3
        <3>2. Front(n) \in nodes /\ Len(Front(n)) = 1
            <4>1. n \in Seq(C) /\ Front(n) \in nodes
                  BY <3>1 DEF PrefixClosed
            <4>2. Len(Front(n)) = Len(n) - 1
                  BY <3>1, <4>1, FrontProperties
            <4> QED  BY <2>3, <4>1, <4>2
        <3> QED  BY <1>2, <1>5, <3>2
    <2>4. ASSUME NEW n \in nodes, n # Root, Len(n) <= 1
          PROVE  n \in done
        <3>1. Len(n) = 1
            <4>1. Len(n) \in Nat
                  BY <1>1
            <4>2. Len(n) # 0
                  BY <1>1, <2>4
            <4>3. Len(n) <= 1
                  BY <2>4
            <4>4. \A k \in Nat : k # 0 /\ k <= 1 => k = 1
                  OBVIOUS
            <4> QED  BY <4>1, <4>2, <4>3, <4>4, Zenon
        <3> QED  BY <3>1
    <2>5. Level(nodes, done, q, 1)
          BY <2>1, <2>3, <2>4 DEF Level
    <2> QED  BY <1>6, <1>8, <2>2, <2>5 DEF QueueOk, q, cs
<1> QED  BY <1>7, <1>8

\* The first of the queue makes way for its children.
LEMMA QueueGoesOn ==
    ASSUME NEW C, NEW nodes, nodes \subseteq Seq(C), PrefixClosed(nodes), IsFiniteSet(nodes),
           NEW done, NEW more, NEW q, QueueOk(nodes, done, q), q # <<>>,
           done \subseteq more, ChildrenOf(nodes, Head(q)) \subseteq more
    PROVE  QueueOk(nodes, more, Tail(q) \o SetToSeq(ChildrenOf(nodes, Head(q))))
<1> DEFINE p == q[1]
           h == Len(p)
           kids == ChildrenOf(nodes, p)
           cs == SetToSeq(kids)
           r == Tail(q) \o cs
<1>1. /\ Head(q) = p /\ p \in nodes /\ p # Root /\ h \in Nat /\ Len(q) \in Nat \ {0}
      /\ q \in Seq(nodes \ {Root}) /\ Level(nodes, done, q, h)
    <2>1. q \in Seq(nodes \ {Root}) /\ Level(nodes, done, q, h)
          BY DEF QueueOk
    <2>2. Len(q) \in Nat \ {0} /\ Head(q) = p /\ p \in nodes \ {Root}
          BY <2>1
    <2> QED  BY <2>1, <2>2
<1>2. /\ kids \subseteq more
      /\ \A n \in nodes : n \in kids <=> n # <<>> /\ Front(n) = p
      /\ \A n \in kids : n \in nodes /\ Len(n) = h + 1
    <2>1. kids \subseteq more
          BY <1>1
    <2>2. \A n \in nodes : n \in kids <=> n # <<>> /\ Front(n) = p
          BY <1>1, ChildrenAre
    <2>3. \A n \in kids : n \in nodes /\ Len(n) = h + 1
          BY DEF ChildrenOf
    <2> QED  BY <2>1, <2>2, <2>3
<1>3. kids \subseteq nodes \ {Root} /\ IsFiniteSet(kids)
    <2>1. \A n \in kids : n # Root
          BY <1>1, <1>2 DEF Root
    <2>2. kids \in SUBSET nodes
          BY <1>2
    <2> QED  BY <2>1, <2>2, FS_Subset
<1>4. cs \in Seq(kids) /\ \A n \in kids : \E i \in 1..Len(cs) : cs[i] = n
      BY <1>3, SetToSeqHasAll
<1> HIDE DEF kids, cs
<1>5. /\ Tail(q) \in Seq(nodes \ {Root}) /\ Len(Tail(q)) = Len(q) - 1
      /\ \A i \in 1..Len(q) - 1 : Tail(q)[i] = q[i + 1]
      BY <1>1, HeadTailProperties
<1>6. cs \in Seq(nodes \ {Root})
      BY <1>3, <1>4, SeqMonotonic
<1>7. /\ r \in Seq(nodes \ {Root}) /\ Len(r) = Len(q) - 1 + Len(cs) /\ Len(cs) \in Nat
      /\ \A i \in 1..Len(r) : r[i] = IF i <= Len(q) - 1 THEN q[i + 1] ELSE cs[i - (Len(q) - 1)]
    <2>1. /\ r \in Seq(nodes \ {Root}) /\ Len(r) = Len(Tail(q)) + Len(cs)
          /\ \A i \in 1..Len(Tail(q)) + Len(cs) :
                r[i] = IF i <= Len(Tail(q)) THEN Tail(q)[i] ELSE cs[i - Len(Tail(q))]
          BY <1>5, <1>6, ConcatProperties
    <2>2. Len(cs) \in Nat
          BY <1>4
    <2> HIDE DEF r
    <2> QED  BY <1>1, <1>5, <2>1, <2>2
<1> HIDE DEF r
<1>8. ASSUME NEW i \in 2..Len(q)
      PROVE  \E j \in 1..Len(r) : r[j] = q[i]
    <2>1. i - 1 \in 1..Len(r) /\ i - 1 <= Len(q) - 1 /\ (i - 1) + 1 = i
          BY <1>1, <1>7
    <2>2. r[i - 1] = q[i]
          BY <1>7, <2>1
    <2> QED  BY <2>1, <2>2
<1>9. ASSUME NEW n \in kids
      PROVE  \E j \in 1..Len(r) : r[j] = n
    <2>1. PICK i \in 1..Len(cs) : cs[i] = n
          BY <1>4
    <2> DEFINE j == i + (Len(q) - 1)
    <2>2. j \in 1..Len(r) /\ ~(j <= Len(q) - 1) /\ j - (Len(q) - 1) = i
          BY <1>1, <1>7
    <2>3. r[j] = n
          BY <1>7, <2>1, <2>2
    <2> QED  BY <2>2, <2>3
<1>10. ASSUME NEW i \in 1..Len(r)
       PROVE  /\ r[i] \in nodes /\ Len(r[i]) \in {h, h + 1} /\ r[i] \in more
              /\ i <= Len(q) - 1 => i + 1 \in 1..Len(q) /\ r[i] = q[i + 1]
              /\ ~(i <= Len(q) - 1) => Len(r[i]) = h + 1
    <2>1. CASE i <= Len(q) - 1
        <3>1. i + 1 \in 1..Len(q) /\ r[i] = q[i + 1]
              BY <1>1, <1>7, <2>1
        <3>2. Len(q[i + 1]) \in {h, h + 1} /\ q[i + 1] \in done /\ q[i + 1] \in nodes
              BY <1>1, <3>1 DEF Level
        <3> QED  BY <2>1, <3>1, <3>2
    <2>2. CASE ~(i <= Len(q) - 1)
        <3>1. i - (Len(q) - 1) \in 1..Len(cs) /\ r[i] = cs[i - (Len(q) - 1)]
              BY <1>1, <1>7, <2>2
        <3>2. r[i] \in kids
              BY <1>4, <3>1
        <3> QED  BY <1>2, <2>2, <3>2
    <2> QED  BY <2>1, <2>2
<1>11. ASSUME NEW i \in 1..Len(r), NEW j \in 1..Len(r), i <= j
       PROVE  Len(r[i]) <= Len(r[j])
    <2>1. CASE j <= Len(q) - 1
        <3>1. i <= Len(q) - 1
              BY <1>1, <1>7, <1>11, <2>1
        <3>2. /\ i + 1 \in 1..Len(q) /\ r[i] = q[i + 1]
              /\ j + 1 \in 1..Len(q) /\ r[j] = q[j + 1] /\ i + 1 <= j + 1
              BY <1>10, <1>11, <2>1, <3>1
        <3> QED  BY <1>1, <3>2 DEF Level
    <2>2. CASE ~(j <= Len(q) - 1)
        <3>1. Len(r[j]) = h + 1 /\ Len(r[i]) \in {h, h + 1}
              BY <1>10, <2>2
        <3> QED  BY <1>1, <3>1
    <2> QED  BY <2>1, <2>2
<1>12. ASSUME NEW n \in nodes, Len(n) = h + 1
       PROVE  n \in kids \/ \E i \in 2..Len(q) : q[i] \in {n, Front(n)}
    <2>1. PICK i \in 1..Len(q) : q[i] \in {n, Front(n)}
          BY <1>1, <1>12 DEF Level
    <2>2. CASE i = 1
        <3>1. q[i] # n
              BY <1>1, <1>12, <2>2
        <3>2. Front(n) = p /\ n # <<>>
              BY <1>1, <1>12, <2>1, <2>2, <3>1
        <3> QED  BY <1>2, <3>2
    <2>3. CASE i # 1
          BY <1>1, <2>1, <2>3
    <2> QED  BY <2>2, <2>3
<1>13. ASSUME NEW n \in nodes, n # Root
       PROVE  n # <<>> /\ Front(n) \in nodes /\ Len(Front(n)) = Len(n) - 1 /\ Len(n) \in Nat
    <2>1. n # <<>> /\ n \in Seq(C)
          BY <1>13 DEF Root
    <2> QED  BY <2>1, FrontProperties DEF PrefixClosed
<1>14. CASE r = <<>>
    <2>1. Len(r) = 0
          BY <1>14
    <2>2. ASSUME NEW n \in nodes
          PROVE  Len(n) # h + 1
        <3> SUFFICES ASSUME Len(n) = h + 1 PROVE FALSE
            OBVIOUS
        <3>1. CASE n \in kids
              BY <1>9, <2>1, <3>1
        <3>2. CASE \E i \in 2..Len(q) : q[i] \in {n, Front(n)}
              BY <1>8, <2>1, <3>2
        <3> QED  BY <1>12, <3>1, <3>2
    <2>3. \A n \in nodes : Len(n) <= h
          BY <1>1, <2>2, NoLongerNode
    <2>4. \A n \in nodes : n # Root => n \in more
          BY <1>1, <2>3 DEF Level
    <2> QED  BY <1>1, <1>7, <1>14, <2>4 DEF QueueOk, r, cs, kids
<1>15. CASE r # <<>>
    <2> DEFINE g == Len(r[1])
    <2>1. 1 \in 1..Len(r) /\ g \in {h, h + 1}
        <3>1. 1 \in 1..Len(r)
              BY <1>7, <1>15
        <3> QED  BY <1>10, <3>1
    <2>2. CASE g = h
        <3>1. ASSUME NEW n \in nodes, Len(n) = h + 1
              PROVE  \E i \in 1..Len(r) : r[i] \in {n, Front(n)}
            <4>1. CASE n \in kids
                  BY <1>9, <4>1
            <4>2. CASE \E i \in 2..Len(q) : q[i] \in {n, Front(n)}
                  BY <1>8, <4>2
            <4> QED  BY <1>12, <3>1, <4>1, <4>2
        <3>2. \A n \in nodes : n # Root /\ Len(n) <= h => n \in more
              BY <1>1 DEF Level
        <3>3. Level(nodes, more, r, h)
              BY <1>10, <1>11, <3>1, <3>2 DEF Level
        <3> QED  BY <1>1, <1>7, <1>15, <2>2, <3>3 DEF QueueOk, r, cs, kids
    <2>3. CASE g = h + 1
        <3>1. ASSUME NEW i \in 1..Len(r)
              PROVE  Len(r[i]) = h + 1
            <4>1. g <= Len(r[i]) /\ Len(r[i]) \in {h, h + 1}
                  BY <1>10, <1>11, <2>1
            <4> HIDE DEF h
            <4> QED  BY <1>1, <2>3, <4>1
        <3>2. ASSUME NEW i \in 2..Len(q)
              PROVE  Len(q[i]) = h + 1
              BY <1>8, <3>1
        <3>3. ASSUME NEW n \in nodes, n # Root, Len(n) <= h + 1
              PROVE  n \in more
            <4>1. CASE Len(n) <= h
                  BY <1>1, <3>3, <4>1 DEF Level
            <4>2. CASE Len(n) = h + 1
                <5>1. CASE n \in kids
                      BY <1>2, <5>1
                <5>2. ASSUME NEW i \in 2..Len(q), q[i] = n
                      PROVE  n \in more
                    <6>1. q[i] \in done
                          BY <1>1 DEF Level
                    <6> QED  BY <5>2, <6>1
                <5>3. ASSUME NEW i \in 2..Len(q), q[i] = Front(n)
                      PROVE  FALSE
                    <6>1. Len(Front(n)) = h
                          BY <1>1, <1>13, <3>3, <4>2
                    <6>2. Len(Front(n)) = h + 1
                          BY <3>2, <5>3
                    <6> QED  BY <1>1, <6>1, <6>2
                <5> QED  BY <1>12, <4>2, <5>1, <5>2, <5>3
            <4>3. Len(n) \in Nat
                  BY <1>13, <3>3
            <4> QED  BY <1>1, <3>3, <4>1, <4>2, <4>3
        <3>4. ASSUME NEW n \in nodes, Len(n) = (h + 1) + 1
              PROVE  \E i \in 1..Len(r) : r[i] \in {n, Front(n)}
            <4>1. n # Root
                  BY <1>1, <3>4 DEF Root
            <4>2. Front(n) \in nodes /\ Len(Front(n)) = h + 1
                  BY <1>1, <1>13, <3>4, <4>1
            <4> DEFINE m == Front(n)
            <4>3. m # Root
                  BY <1>1, <4>2 DEF Root
            <4>4. Len(Front(m)) = h
                  BY <1>1, <1>13, <4>2, <4>3
            <4> HIDE DEF m
            <4>5. CASE m \in kids
                  BY <1>9, <4>5 DEF m
            <4>6. ASSUME NEW i \in 2..Len(q), q[i] \in {m, Front(m)}
                  PROVE  \E j \in 1..Len(r) : r[j] = m
                <5>1. Len(q[i]) = h + 1
                      BY <3>2
                <5>2. q[i] # Front(m)
                      BY <1>1, <4>4, <5>1
                <5> QED  BY <1>8, <4>6, <5>2
            <4>7. m \in nodes /\ Len(m) = h + 1
                  BY <4>2 DEF m
            <4> QED  BY <1>12, <4>5, <4>6, <4>7 DEF m
        <3>5. Level(nodes, more, r, h + 1)
            <4>1. \A i \in 1..Len(r) : Len(r[i]) \in {h + 1, (h + 1) + 1} /\ r[i] \in more
                  BY <1>10, <3>1
            <4> QED  BY <1>11, <3>3, <3>4, <4>1 DEF Level
        <3> QED  BY <1>1, <1>7, <1>15, <2>3, <3>5 DEF QueueOk, r, cs, kids
    <2> QED  BY <2>1, <2>2, <2>3
<1> QED  BY <1>14, <1>15

-----------------------------------------------------------------------------
(* The automaton.                                                          *)

NodesOf(es) == TrieNodes({e.search : e \in es})

\* What ends where a text ends.
Ending(es, text) == {e \in es : e.search \in Suffixes(text)}

\* A node that is done: its link leads to the longest of its proper suffixes, and it
\* has all that ends with it.
Done(es, links, out) ==
    {n \in NodesOf(es) : /\ n # Root
                         /\ Longest(NodesOf(es), Tail(n), links[n])
                         /\ out[n] = Ending(es, n)}

\* An automaton, done or not.
Automaton(C, es, links, out) ==
    /\ Searches(C, es)
    /\ Linked(C, NodesOf(es), links)
    /\ DOMAIN out = NodesOf(es)
    /\ \A n \in NodesOf(es) : out[n] \in {{e \in es : e.search = n}, Ending(es, n)}

Built(C, es, links, out) ==
    /\ Automaton(C, es, links, out)
    /\ \A n \in NodesOf(es) : n # Root => n \in Done(es, links, out)

LEMMA NodesProperties ==
    ASSUME NEW C, NEW es, Searches(C, es)
    PROVE  /\ NodesOf(es) \subseteq Seq(C) /\ PrefixClosed(NodesOf(es)) /\ IsFiniteSet(NodesOf(es))
           /\ \A e \in es : e.search \in NodesOf(es)
<1> DEFINE words == {e.search : e \in es}
<1>1. words \subseteq Seq(C)
      BY DEF Searches
<1>2. IsFiniteSet(words)
    <2> DEFINE f == [e \in es |-> e.search]
    <2>1. f \in Surjection(es, words)
          BY DEF Surjection
    <2>2. IsFiniteSet(es)
          BY DEF Searches
    <2> HIDE DEF f, words
    <2> QED  BY <2>1, <2>2, FS_Surjection
<1>3. \A e \in es : e.search \in words
      OBVIOUS
<1> HIDE DEF words
<1>4. /\ TrieNodes(words) \subseteq Seq(C) /\ PrefixClosed(TrieNodes(words))
      /\ words \subseteq TrieNodes(words) /\ IsFiniteSet(TrieNodes(words))
      BY <1>1, <1>2, TrieProperties
<1> QED  BY <1>3, <1>4 DEF NodesOf, words

\* Nothing ends at the root: no surface is empty.
LEMMA NothingEndsAtRoot ==
    ASSUME NEW C, NEW es, Searches(C, es)
    PROVE  Ending(es, Root) = {} /\ {e \in es : e.search = Root} = {}
<1>1. Suffixes(Root) = {Root}
    <2>1. \A l \in 1..Len(<<>>) : FALSE
          BY EmptySeq
    <2> QED  BY <2>1 DEF Suffixes, Root
<1> QED  BY <1>1 DEF Ending, Searches

\* What ends with a node is the node itself and what ends with the longest of its
\* proper suffixes.
LEMMA EndingIs ==
    ASSUME NEW C, NEW es, Searches(C, es), NEW n \in NodesOf(es), n # Root, NEW l,
           Longest(NodesOf(es), Tail(n), l)
    PROVE  Ending(es, n) = {e \in es : e.search = n} \cup Ending(es, l)
<1>1. n \in Seq(C) /\ n # <<>> /\ \A e \in es : e.search \in NodesOf(es)
      BY NodesProperties DEF Root
<1>2. /\ Tail(n) \in Seq(C) /\ Tail(n) \in Suffixes(n) /\ n \in Suffixes(n)
      /\ \A s \in Suffixes(n) : s = n \/ s \in Suffixes(Tail(n))
      BY <1>1, SuffixOfTail
<1>3. l \in Suffixes(Tail(n)) /\ l \in Suffixes(n)
    <2>1. l \in Suffixes(Tail(n))
          BY DEF Longest
    <2> QED  BY <1>1, <1>2, <2>1, SuffixOfSuffix
<1>4. ASSUME NEW e \in es, e.search \in Suffixes(n), e.search # n
      PROVE  e.search \in Suffixes(l)
    <2>1. e.search \in Suffixes(Tail(n))
          BY <1>2, <1>4
    <2>2. Len(e.search) <= Len(l)
          BY <1>1, <2>1 DEF Longest
    <2> QED  BY <1>2, <1>3, <2>1, <2>2, SuffixOfSuffix
<1>5. \A s \in Suffixes(l) : s \in Suffixes(n)
      BY <1>1, <1>3, SuffixOfSuffix
<1> QED  BY <1>2, <1>4, <1>5 DEF Ending

\* At the longest suffix of a text is what ends with the text.
LEMMA EndingOfLongest ==
    ASSUME NEW C, NEW es, Searches(C, es), NEW u \in Seq(C), NEW n, Longest(NodesOf(es), u, n)
    PROVE  Ending(es, u) = Ending(es, n)
<1>1. n \in Suffixes(u) /\ \A e \in es : e.search \in NodesOf(es)
      BY NodesProperties DEF Longest
<1>2. \A s \in Suffixes(n) : s \in Suffixes(u)
      BY <1>1, SuffixOfSuffix
<1>3. ASSUME NEW e \in es, e.search \in Suffixes(u)
      PROVE  e.search \in Suffixes(n)
    <2>1. Len(e.search) <= Len(n)
          BY <1>1, <1>3 DEF Longest
    <2> QED  BY <1>1, <1>3, <2>1, SuffixOfSuffix
<1> QED  BY <1>2, <1>3 DEF Ending

\* The trie as it is planted, with the queue of the children of the root.
LEMMA PlantedIsAutomaton ==
    ASSUME NEW C, NEW es, Searches(C, es), NEW links, NEW out,
           links = [n \in NodesOf(es) |-> Root],
           out = [n \in NodesOf(es) |-> {e \in es : e.search = n}]
    PROVE  /\ Automaton(C, es, links, out)
           /\ QueueOk(NodesOf(es), Done(es, links, out), SetToSeq(ChildrenOf(NodesOf(es), Root)))
<1> DEFINE N == NodesOf(es)
<1>1. N \subseteq Seq(C) /\ PrefixClosed(N) /\ IsFiniteSet(N) /\ Root \in N
      BY NodesProperties DEF PrefixClosed, Root
<1>2. Linked(C, N, links)
    <2>1. ASSUME NEW n \in N, n # Root
          PROVE  Len(links[n]) < Len(n)
        <3>1. Len(n) \in Nat \ {0} /\ links[n] = Root /\ Len(Root) = 0
            <4>1. n \in Seq(C) /\ n # <<>>
                  BY <1>1, <2>1 DEF Root
            <4> QED  BY <4>1, EmptySeq DEF Root
        <3> QED  BY <3>1
    <2>2. links \in [N -> N]
          BY <1>1
    <2> QED  BY <1>1, <2>1, <2>2 DEF Linked
<1>3. Automaton(C, es, links, out)
      BY <1>2 DEF Automaton
<1>4. ASSUME NEW n \in N, Len(n) = 1
      PROVE  n \in Done(es, links, out)
    <2>1. n \in Seq(C) /\ n # <<>> /\ n # Root
        <3>1. n \in Seq(C)
              BY <1>1
        <3>2. n # <<>>
            <4>1. Len(<<>>) # 1
                  BY EmptySeq
            <4> QED  BY <1>4, <4>1
        <3> QED  BY <3>1, <3>2 DEF Root
    <2>2. Tail(n) = Root
        <3>1. Tail(n) \in Seq(C) /\ Len(Tail(n)) = 0
              BY <1>4, <2>1, SuffixOfTail
        <3> QED  BY <3>1, EmptySeq DEF Root
    <2>3. Suffixes(Root) = {Root}
        <3>1. \A l \in 1..Len(<<>>) : FALSE
              BY EmptySeq
        <3> QED  BY <3>1 DEF Suffixes, Root
    <2>4. Longest(N, Tail(n), Root)
        <3>1. \A k \in N : k \in Suffixes(Tail(n)) => k = Root
              BY <2>2, <2>3
        <3>2. Len(Root) <= Len(Root)
              BY EmptySeq DEF Root
        <3>3. Root \in Suffixes(Tail(n))
              BY <2>2, <2>3
        <3> QED  BY <1>1, <3>1, <3>2, <3>3 DEF Longest
    <2>5. links[n] = Root /\ out[n] = {e \in es : e.search = n}
          OBVIOUS
    <2>6. Ending(es, n) = {e \in es : e.search = n} \cup Ending(es, Root)
          BY <2>1, <2>4, EndingIs
    <2>7. Ending(es, Root) = {}
          BY NothingEndsAtRoot
    <2>8. out[n] = Ending(es, n)
          BY <2>5, <2>6, <2>7
    <2> QED  BY <2>1, <2>4, <2>5, <2>8 DEF Done
<1>5. QueueOk(N, Done(es, links, out), SetToSeq(ChildrenOf(N, Root)))
    <2> HIDE DEF N
    <2> QED  BY <1>1, <1>4, QueueBegins
<1> QED  BY <1>3, <1>5

\* The links of the children of the first of the queue.
LEMMA LinkKeepsAutomaton ==
    ASSUME NEW C, NEW es, NEW links, NEW out, NEW q, NEW parent, NEW kids, NEW links2, NEW out2,
           Automaton(C, es, links, out),
           QueueOk(NodesOf(es), Done(es, links, out), q), q # <<>>,
           parent = Head(q), kids = ChildrenOf(NodesOf(es), parent),
           links2 = [n \in NodesOf(es) |->
                        IF n \in kids THEN StepFrom(links, links[parent], Last(n)) ELSE links[n]],
           out2 = [n \in NodesOf(es) |->
                      IF n \in kids THEN out[n] \cup out[StepFrom(links, links[parent], Last(n))]
                      ELSE out[n]]
    PROVE  /\ Automaton(C, es, links2, out2)
           /\ QueueOk(NodesOf(es), Done(es, links2, out2), Tail(q) \o SetToSeq(kids))
<1> DEFINE N == NodesOf(es)
           D == Done(es, links, out)
           D2 == Done(es, links2, out2)
           h == Len(parent)
<1>1. /\ Searches(C, es) /\ Linked(C, N, links) /\ N \subseteq Seq(C) /\ PrefixClosed(N)
      /\ IsFiniteSet(N) /\ links \in [N -> N] /\ Root \in N /\ Root = <<>>
      /\ \A n \in N : Len(n) \in Nat
    <2>1. Searches(C, es) /\ Linked(C, N, links) /\ N \subseteq Seq(C)
          BY DEF Automaton, Linked
    <2>2. PrefixClosed(N) /\ IsFiniteSet(N) /\ links \in [N -> N] /\ Root \in N /\ Root = <<>>
          BY <2>1 DEF Linked, PrefixClosed, Root
    <2> QED  BY <2>1, <2>2
<1>2. /\ parent \in N /\ parent # Root /\ h \in Nat /\ parent \in D
      /\ \A n \in N : n # Root /\ Len(n) <= h => n \in D
    <2>1. q \in Seq(N \ {Root}) /\ Level(N, D, q, Len(q[1]))
          BY DEF QueueOk
    <2>2. parent = q[1] /\ parent \in N \ {Root} /\ 1 \in 1..Len(q)
          BY <2>1
    <2>3. parent \in D /\ \A n \in N : n # Root /\ Len(n) <= h => n \in D
          BY <2>1, <2>2 DEF Level
    <2> QED  BY <1>1, <2>2, <2>3
<1> HIDE DEF h
<1>3. ASSUME NEW n \in kids
      PROVE  /\ n \in N /\ n # Root /\ Len(n) = h + 1 /\ n = Append(parent, Last(n))
             /\ Last(n) \in C
    <2>1. n \in N /\ n # <<>> /\ Front(n) = parent
        <3>1. n \in N
              BY DEF ChildrenOf
        <3> QED  BY <1>1, <1>2, <3>1, ChildrenAre
    <2>2. n \in Seq(C) /\ Len(n) \in Nat \ {0}
          BY <1>1, <2>1
    <2>3. n = Append(parent, n[Len(n)]) /\ Len(parent) = Len(n) - 1
          BY <2>1, <2>2, FrontProperties
    <2>4. Len(n) = h + 1
          BY <2>2, <2>3 DEF h
    <2>5. n[Len(n)] \in C
          BY <2>2
    <2> QED  BY <1>1, <2>1, <2>3, <2>4, <2>5 DEF Last
<1>4. ASSUME NEW n \in kids
      PROVE  /\ Longest(N, Tail(n), links2[n])
             /\ links2[n] \in N /\ Len(links2[n]) <= h
             /\ out2[n] = Ending(es, n)
    <2> DEFINE c == Last(n)
               from == links[parent]
               l == StepFrom(links, from, c)
    <2>1. parent \in Seq(C) /\ parent # <<>> /\ c \in C /\ n = Append(parent, c)
          BY <1>1, <1>2, <1>3
    <2>2. Longest(N, Tail(parent), from)
          BY <1>2 DEF Done
    <2>3. Tail(parent) \in Seq(C) /\ Len(Tail(parent)) = h - 1 /\ from \in N
        <3>1. Tail(parent) \in Seq(C) /\ Len(Tail(parent)) = h - 1
              BY <2>1, SuffixOfTail DEF h
        <3> QED  BY <2>2, <3>1 DEF Longest
    <2>4. ASSUME NEW k \in N, k # Root, Len(k) <= Len(from)
          PROVE  Longest(N, Tail(k), links[k])
        <3>1. Len(from) < h
              BY <1>1, <1>2 DEF Linked, h
        <3>2. Len(k) <= h
              BY <1>1, <1>2, <2>3, <2>4, <3>1
        <3> QED  BY <1>2, <2>4, <3>2 DEF Done
    <2> HIDE DEF c, from
    <2>5. Longest(N, Append(Tail(parent), c), l)
        <3> HIDE DEF N
        <3> QED  BY <1>1, <2>1, <2>2, <2>3, <2>4, StepIsLongest
    <2>6. Tail(n) = Append(Tail(parent), c)
          BY <2>1, HeadTailAppend
    <2>7. links2[n] = l /\ out2[n] = out[n] \cup out[l]
          BY <1>3 DEF c, from
    <2> HIDE DEF l
    <2>8. Longest(N, Tail(n), l) /\ l \in N
          BY <2>5, <2>6 DEF Longest
    <2>9. Len(l) <= h
        <3>1. Tail(n) \in Seq(C) /\ Len(Tail(n)) = h
              BY <1>2, <2>1, <2>3, <2>6
        <3>2. l \in Seq(C) /\ l \in Suffixes(Tail(n))
              BY <1>1, <2>8 DEF Longest
        <3> QED  BY <3>1, <3>2, SuffixIsEnd DEF EndsWith
    <2>10. out[l] = Ending(es, l)
        <3>1. CASE l = Root
            <4>1. out[l] \in {{e \in es : e.search = l}, Ending(es, l)}
                  BY <2>8 DEF Automaton
            <4>2. {e \in es : e.search = Root} = {} /\ Ending(es, Root) = {}
                  BY <1>1, NothingEndsAtRoot
            <4> QED  BY <3>1, <4>1, <4>2
        <3>2. CASE l # Root
              BY <1>2, <2>8, <2>9, <3>2 DEF Done
        <3> QED  BY <3>1, <3>2
    <2>11. Ending(es, n) = {e \in es : e.search = n} \cup Ending(es, l)
          BY <1>1, <1>3, <2>8, EndingIs
    <2>12. out[n] \in {{e \in es : e.search = n}, Ending(es, n)}
          BY <1>3 DEF Automaton
    <2>13. out2[n] = Ending(es, n)
          BY <2>7, <2>10, <2>11, <2>12
    <2> QED  BY <2>7, <2>8, <2>9, <2>13
<1>5. ASSUME NEW n \in N, n \notin kids
      PROVE  links2[n] = links[n] /\ out2[n] = out[n]
      BY <1>5
<1>6. Automaton(C, es, links2, out2)
    <2>1. links2 \in [N -> N]
        <3>1. \A n \in N : links2[n] \in N
              BY <1>1, <1>4, <1>5
        <3>2. links2 = [n \in N |-> links2[n]]
              OBVIOUS
        <3> QED  BY <3>1, <3>2
    <2>2. ASSUME NEW n \in N, n # Root
          PROVE  Len(links2[n]) < Len(n)
        <3>1. CASE n \in kids
            <4>1. Len(links2[n]) <= h /\ links2[n] \in N /\ Len(n) = h + 1
                  BY <1>3, <1>4, <3>1
            <4>2. Len(links2[n]) \in Nat /\ h \in Nat
                  BY <1>1, <1>2, <4>1
            <4> HIDE DEF N
            <4> QED  BY <4>1, <4>2
        <3>2. CASE n \notin kids
              BY <1>1, <1>5, <2>2, <3>2 DEF Linked
        <3> QED  BY <3>1, <3>2
    <2>3. \A n \in N : out2[n] \in {{e \in es : e.search = n}, Ending(es, n)}
          BY <1>4, <1>5 DEF Automaton
    <2>4. DOMAIN out2 = N
          OBVIOUS
    <2>5. Linked(C, N, links2)
          BY <1>1, <2>1, <2>2 DEF Linked
    <2> QED  BY <1>1, <2>3, <2>4, <2>5 DEF Automaton
<1>7. D \subseteq D2
    <2>1. ASSUME NEW n \in D
          PROVE  n \in D2
        <3>1. n \in N /\ n # Root /\ Longest(N, Tail(n), links[n]) /\ out[n] = Ending(es, n)
              BY DEF Done
        <3>2. Longest(N, Tail(n), links2[n]) /\ out2[n] = Ending(es, n)
              BY <1>4, <1>5, <3>1
        <3> QED  BY <3>1, <3>2 DEF Done
    <2> QED  BY <2>1
<1>8. kids \subseteq D2
      BY <1>3, <1>4 DEF Done
<1>9. QueueOk(N, D2, Tail(q) \o SetToSeq(kids))
    <2> HIDE DEF N, D, D2
    <2>1. QueueOk(N, D, q)
          BY DEF N, D
    <2>2. kids = ChildrenOf(N, Head(q))
          BY DEF N
    <2> QED  BY <1>1, <1>7, <1>8, <2>1, <2>2, QueueGoesOn
<1> QED  BY <1>6, <1>9

-----------------------------------------------------------------------------
(* The matcher.                                                            *)

AutomatonOf(C, m) == Automaton(C, entries[m], fail[m], output[m])
BuiltOf(C, m) == Built(C, entries[m], fail[m], output[m])

EntriesInv(C) ==
    /\ mode \in BOOLEAN
    /\ phase \in {"plant", "link", "idle", "scan", "done"}
    /\ DOMAIN fail = BOOLEAN /\ DOMAIN output = BOOLEAN
    /\ \A m \in BOOLEAN : Searches(C, entries[m]) /\ \A e \in entries[m] : e.case_sensitive = m

\* The automata are built one after the other, and both are there when a text is read.
BuildInv(C) ==
    /\ phase \in {"plant", "link"} /\ mode => BuiltOf(C, FALSE)
    /\ phase = "link" =>
          /\ AutomatonOf(C, mode)
          /\ QueueOk(NodesOf(entries[mode]),
                     Done(entries[mode], fail[mode], output[mode]), queue)
    /\ phase \in {"idle", "scan", "done"} => BuiltOf(C, FALSE) /\ BuiltOf(C, TRUE)

ReadSoFar == SubSeq(SearchText(call.text, mode), 1, position)

\* A call begins at the root with what case does not matter for, and is at the longest
\* suffix of what it has read.
ReadInv(C) ==
    /\ phase # "scan" => position = 0 /\ node = Root
    /\ phase \in {"idle", "done"} => mode = FALSE
    /\ phase \in {"scan", "done"} => call.text \in Texts
    /\ phase = "scan" =>
          /\ position \in 0..Len(SearchText(call.text, mode))
          /\ Longest(NodesOf(entries[mode]), ReadSoFar, node)
    /\ decision # NoDecision => phase = "done"

MatcherInv(C) == EntriesInv(C) /\ BuildInv(C) /\ ReadInv(C)

\* What is found where a character of a text ends.
Hits(es, c, m, index) ==
    {Match(e, OriginalSpan(Normalized(c.text), index - Len(e.search), index)) :
        e \in {d \in Ending(es, SubSeq(SearchText(c.text, m), 1, index)) :
                  /\ Wanted(d, c)
                  /\ HasTokenBoundaries(NormalizedText(c.text), index - Len(d.search), index)}}

HitsUpTo(es, c, m, k) == UNION {Hits(es, c, m, i) : i \in 1..k}

AllHits(es, c, m) == HitsUpTo(es, c, m, Len(SearchText(c.text, m)))

FoundInv ==
    /\ phase \in {"plant", "link", "idle"} => matches = {}
    /\ phase = "scan" /\ ~mode => matches = HitsUpTo(entries[FALSE], call, FALSE, position)
    /\ phase = "scan" /\ mode =>
          matches = AllHits(entries[FALSE], call, FALSE)
                    \cup HitsUpTo(entries[TRUE], call, TRUE, position)
    /\ phase = "done" =>
          matches = AllHits(entries[FALSE], call, FALSE) \cup AllHits(entries[TRUE], call, TRUE)

LEMMA MatcherInvInit ==
    ASSUME NEW C, Readable(C), Init
    PROVE  MatcherInv(C)
<1> USE DEF Init, MatcherInit
<1>1. EntriesInv(C)
    <2>1. PICK d \in BOOLEAN : entries = [m \in BOOLEAN |-> {e \in EntriesOf(lexicon, d) :
                                                               e.case_sensitive = m}]
          OBVIOUS
    <2>2. Searches(C, EntriesOf(lexicon, d))
          BY DEF Readable
    <2>3. ASSUME NEW m \in BOOLEAN
          PROVE  Searches(C, entries[m]) /\ \A e \in entries[m] : e.case_sensitive = m
        <3>1. entries[m] = {e \in EntriesOf(lexicon, d) : e.case_sensitive = m}
              BY <2>1
        <3>2. entries[m] \in SUBSET EntriesOf(lexicon, d)
              BY <3>1
        <3>3. IsFiniteSet(EntriesOf(lexicon, d))
              BY <2>2 DEF Searches
        <3>4. IsFiniteSet(entries[m])
              BY <3>2, <3>3, FS_Subset
        <3>5. Searches(C, entries[m])
              BY <2>2, <3>2, <3>4 DEF Searches
        <3>6. \A e \in entries[m] : e.case_sensitive = m
              BY <3>1
        <3> QED  BY <3>5, <3>6
    <2> QED  BY <2>3 DEF EntriesInv
<1>2. BuildInv(C)
      BY DEF BuildInv
<1>3. ReadInv(C)
      BY DEF ReadInv
<1> QED  BY <1>1, <1>2, <1>3 DEF MatcherInv

LEMMA PlantKeeps ==
    ASSUME NEW C, MatcherInv(C), Plant, UNCHANGED decision
    PROVE  MatcherInv(C)'
<1> USE DEF Plant
<1>1. EntriesInv(C)'
      BY DEF MatcherInv, EntriesInv
<1>2. BuildInv(C)'
    <2>1. mode \in BOOLEAN /\ Searches(C, entries[mode])
          BY DEF MatcherInv, EntriesInv
    <2>2. /\ fail'[mode] = [n \in NodesOf(entries[mode]) |-> Root]
          /\ output'[mode] = [n \in NodesOf(entries[mode]) |->
                                 {e \in entries[mode] : e.search = n}]
          /\ queue' = SetToSeq(ChildrenOf(NodesOf(entries[mode]), Root))
          /\ \A m \in BOOLEAN : m # mode => fail'[m] = fail[m] /\ output'[m] = output[m]
          BY <2>1 DEF MatcherInv, EntriesInv, NodesOf
    <2>3. /\ Automaton(C, entries[mode], fail'[mode], output'[mode])
          /\ QueueOk(NodesOf(entries[mode]),
                     Done(entries[mode], fail'[mode], output'[mode]), queue')
          BY <2>1, <2>2, PlantedIsAutomaton
    <2>4. AutomatonOf(C, mode)' /\ QueueOk(NodesOf(entries[mode]),
                     Done(entries[mode], fail[mode], output[mode]), queue)'
          BY <2>3 DEF AutomatonOf
    <2>5. mode => BuiltOf(C, FALSE)'
        <3>1. mode => BuiltOf(C, FALSE)
              BY DEF MatcherInv, BuildInv
        <3>2. mode => fail'[FALSE] = fail[FALSE] /\ output'[FALSE] = output[FALSE]
              BY <2>1, <2>2
        <3> QED  BY <3>1, <3>2 DEF BuiltOf
    <2> QED  BY <2>4, <2>5 DEF BuildInv
<1>3. ReadInv(C)'
      BY DEF MatcherInv, ReadInv
<1> QED  BY <1>1, <1>2, <1>3 DEF MatcherInv

LEMMA LinkKeeps ==
    ASSUME NEW C, MatcherInv(C), Link, UNCHANGED decision
    PROVE  MatcherInv(C)'
<1> USE DEF Link
<1>1. EntriesInv(C)'
      BY DEF MatcherInv, EntriesInv
<1>2. BuildInv(C)'
    <2> DEFINE N == NodesOf(entries[mode])
               parent == Head(queue)
               kids == ChildrenOf(N, parent)
    <2>1. /\ mode \in BOOLEAN
          /\ Automaton(C, entries[mode], fail[mode], output[mode])
          /\ QueueOk(N, Done(entries[mode], fail[mode], output[mode]), queue)
          /\ queue # <<>>
          BY DEF MatcherInv, EntriesInv, BuildInv, AutomatonOf
    <2>2. DOMAIN fail[mode] = N /\ DOMAIN output[mode] = N
          BY <2>1 DEF Automaton, Linked
    <2>3. /\ fail'[mode] = [n \in N |->
                IF n \in kids THEN StepFrom(fail[mode], fail[mode][parent], Last(n))
                ELSE fail[mode][n]]
          /\ output'[mode] = [n \in N |->
                IF n \in kids
                THEN output[mode][n]
                     \cup output[mode][StepFrom(fail[mode], fail[mode][parent], Last(n))]
                ELSE output[mode][n]]
          /\ queue' = Tail(queue) \o SetToSeq(kids)
          /\ \A m \in BOOLEAN : m # mode => fail'[m] = fail[m] /\ output'[m] = output[m]
        <3>1. DOMAIN fail = BOOLEAN /\ DOMAIN output = BOOLEAN
              BY DEF MatcherInv, EntriesInv
        <3> HIDE DEF N
        <3> QED  BY <2>1, <2>2, <3>1
    <2>4. /\ Automaton(C, entries[mode], fail'[mode], output'[mode])
          /\ QueueOk(N, Done(entries[mode], fail'[mode], output'[mode]), queue')
        <3> DEFINE es == entries[mode]
                   links == fail[mode]
                   out == output[mode]
                   links2 == fail'[mode]
                   out2 == output'[mode]
        <3>1. /\ Automaton(C, es, links, out) /\ queue # <<>>
              /\ QueueOk(NodesOf(es), Done(es, links, out), queue)
              BY <2>1
        <3>2. parent = Head(queue) /\ kids = ChildrenOf(NodesOf(es), parent)
              OBVIOUS
        <3>3. links2 = [n \in NodesOf(es) |-> IF n \in kids
                            THEN StepFrom(links, links[parent], Last(n)) ELSE links[n]]
              BY <2>3
        <3>4. out2 = [n \in NodesOf(es) |-> IF n \in kids
                          THEN out[n] \cup out[StepFrom(links, links[parent], Last(n))]
                          ELSE out[n]]
              BY <2>3
        <3>5. queue' = Tail(queue) \o SetToSeq(kids)
              BY <2>3
        <3>6. N = NodesOf(es)
              OBVIOUS
        <3> HIDE DEF Link, parent, kids, N, es, links, out, links2, out2
        <3>7. /\ Automaton(C, es, links2, out2)
              /\ QueueOk(NodesOf(es), Done(es, links2, out2), Tail(queue) \o SetToSeq(kids))
              BY <3>1, <3>2, <3>3, <3>4, LinkKeepsAutomaton
        <3> QED  BY <3>5, <3>6, <3>7 DEF es, links2, out2
    <2>5. AutomatonOf(C, mode)' /\ QueueOk(NodesOf(entries[mode]),
                     Done(entries[mode], fail[mode], output[mode]), queue)'
          BY <2>4 DEF AutomatonOf
    <2>6. mode => BuiltOf(C, FALSE)'
        <3>1. mode => BuiltOf(C, FALSE)
              BY DEF MatcherInv, BuildInv
        <3>2. mode => fail'[FALSE] = fail[FALSE] /\ output'[FALSE] = output[FALSE]
              BY <2>1, <2>3
        <3> QED  BY <3>1, <3>2 DEF BuiltOf
    <2> QED  BY <2>5, <2>6 DEF BuildInv
<1>3. ReadInv(C)'
      BY DEF MatcherInv, ReadInv
<1> QED  BY <1>1, <1>2, <1>3 DEF MatcherInv

LEMMA FinishLinksKeeps ==
    ASSUME NEW C, MatcherInv(C), FinishLinks, UNCHANGED decision
    PROVE  MatcherInv(C)'
<1> USE DEF FinishLinks
<1>1. EntriesInv(C)'
      BY DEF MatcherInv, EntriesInv
<1>2. BuildInv(C)'
    <2>1. mode \in BOOLEAN /\ AutomatonOf(C, mode) /\ (mode => BuiltOf(C, FALSE))
          BY DEF MatcherInv, EntriesInv, BuildInv
    <2>2. BuiltOf(C, mode)
        <3>1. QueueOk(NodesOf(entries[mode]), Done(entries[mode], fail[mode], output[mode]), <<>>)
              BY DEF MatcherInv, BuildInv
        <3> QED  BY <2>1, <3>1 DEF QueueOk, BuiltOf, Built, AutomatonOf
    <2>3. (\A m \in BOOLEAN : BuiltOf(C, m)' <=> BuiltOf(C, m))
          BY DEF BuiltOf
    <2>4. CASE mode
          BY <2>1, <2>2, <2>3, <2>4 DEF BuildInv
    <2>5. CASE ~mode
          BY <2>1, <2>2, <2>3, <2>5 DEF BuildInv
    <2> QED  BY <2>4, <2>5
<1>3. ReadInv(C)'
      BY DEF MatcherInv, ReadInv, EntriesInv
<1> QED  BY <1>1, <1>2, <1>3 DEF MatcherInv

\* The root is the longest suffix of nothing.
LEMMA RootIsLongest ==
    ASSUME NEW C, NEW es, Searches(C, es), NEW t \in Seq(C)
    PROVE  Longest(NodesOf(es), SubSeq(t, 1, 0), Root)
<1>1. SubSeq(t, 1, 0) = Root
      BY SubSeqEmpty DEF Root
<1>2. Root \in NodesOf(es)
      BY NodesProperties DEF PrefixClosed, Root
<1>3. Suffixes(Root) = {Root}
    <2>1. \A l \in 1..Len(<<>>) : FALSE
          BY EmptySeq
    <2> QED  BY <2>1 DEF Suffixes, Root
<1>4. Len(Root) <= Len(Root)
      BY EmptySeq DEF Root
<1>5. Suffixes(SubSeq(t, 1, 0)) = {Root}
      BY <1>1, <1>3
<1> QED  BY <1>2, <1>4, <1>5 DEF Longest

\* One more character is read.
LEMMA ReadOneMore ==
    ASSUME NEW C, NEW t \in Seq(C), NEW i \in Nat, i < Len(t)
    PROVE  /\ SubSeq(t, 1, i) \in Seq(C) /\ t[i + 1] \in C
           /\ SubSeq(t, 1, i + 1) = Append(SubSeq(t, 1, i), t[i + 1])
<1>1. /\ i + 1 \in 1..Len(t) /\ 1 \in 1..Len(t) /\ i + 1 \in 1..Len(t) /\ (i + 1) - 1 = i
      OBVIOUS
<1>2. t[i + 1] \in C
      BY <1>1
<1>3. SubSeq(t, 1, i) \in Seq(C)
    <2>1. 1 \in Int /\ i \in Int /\ \A j \in 1..i : t[j] \in C
          OBVIOUS
    <2> QED  BY <2>1, SubSeqProperties
<1>4. SubSeq(t, 1, i + 1) = SubSeq(t, 1, i) \o <<t[i + 1]>>
    <2>1. SubSeq(t, 1, i + 1) = SubSeq(t, 1, (i + 1) - 1) \o <<t[i + 1]>>
        <3>1. i + 1 \in 1..Len(t)
              BY <1>1
        <3> QED  BY <1>1, <3>1, SubSeqRecursiveSecond
    <2> QED  BY <1>1, <2>1
<1> QED  BY <1>2, <1>3, <1>4, AppendIsConcat

LEMMA BeginMatchKeeps ==
    ASSUME NEW C, Readable(C), MatcherInv(C), BeginMatch, UNCHANGED decision
    PROVE  MatcherInv(C)'
<1> USE DEF BeginMatch
<1>1. EntriesInv(C)'
      BY DEF MatcherInv, EntriesInv
<1>2. BuildInv(C)'
    <2>1. \A m \in BOOLEAN : BuiltOf(C, m)' <=> BuiltOf(C, m)
          BY DEF BuiltOf
    <2> QED  BY <2>1 DEF MatcherInv, BuildInv
<1>3. ReadInv(C)'
    <2>1. /\ mode' = FALSE /\ position' = 0 /\ node' = Root /\ phase' = "scan"
          /\ decision' = NoDecision /\ call'.text \in Texts /\ entries' = entries
          BY DEF MatcherInv, ReadInv, Call
    <2>2. SearchText(call'.text, FALSE) \in Seq(C) /\ Searches(C, entries[FALSE])
          BY <2>1 DEF MatcherInv, EntriesInv, Readable
    <2>3. Longest(NodesOf(entries[FALSE]), SubSeq(SearchText(call'.text, FALSE), 1, 0), Root)
          BY <2>2, RootIsLongest
    <2>4. 0 \in 0..Len(SearchText(call'.text, FALSE))
        <3> DEFINE u == SearchText(call'.text, FALSE)
        <3> HIDE DEF u
        <3>1. u \in Seq(C)
              BY <2>2 DEF u
        <3>2. 0 \in 0..Len(u)
              BY <3>1, LenProperties
        <3> QED  BY <3>2 DEF u
    <2> QED  BY <2>1, <2>3, <2>4 DEF ReadInv, ReadSoFar
<1> QED  BY <1>1, <1>2, <1>3 DEF MatcherInv

LEMMA ScanKeeps ==
    ASSUME NEW C, Readable(C), MatcherInv(C), Scan, UNCHANGED decision
    PROVE  MatcherInv(C)'
<1> USE DEF Scan
<1>1. EntriesInv(C)'
      BY DEF MatcherInv, EntriesInv
<1>2. BuildInv(C)'
    <2>1. \A m \in BOOLEAN : BuiltOf(C, m)' <=> BuiltOf(C, m)
          BY DEF BuiltOf
    <2> QED  BY <2>1 DEF MatcherInv, BuildInv
<1>3. ReadInv(C)'
    <2> DEFINE t == SearchText(call.text, mode)
               c == t[position + 1]
               N == NodesOf(entries[mode])
    <2>1. /\ mode \in BOOLEAN /\ call.text \in Texts /\ position \in 0..Len(t)
          /\ Longest(N, SubSeq(t, 1, position), node) /\ decision = NoDecision
          /\ Built(C, entries[mode], fail[mode], output[mode])
        <3>1. mode \in BOOLEAN /\ BuiltOf(C, FALSE) /\ BuiltOf(C, TRUE)
              BY DEF MatcherInv, EntriesInv, BuildInv
        <3>2. BuiltOf(C, mode)
              BY <3>1
        <3>3. /\ call.text \in Texts /\ position \in 0..Len(t) /\ decision = NoDecision
              /\ Longest(N, ReadSoFar, node)
              BY DEF MatcherInv, ReadInv
        <3> QED  BY <3>1, <3>2, <3>3 DEF BuiltOf, ReadSoFar
    <2>2. t \in Seq(C)
          BY <2>1 DEF Readable
    <2> HIDE DEF t, N
    <2>3. /\ SubSeq(t, 1, position) \in Seq(C) /\ c \in C /\ position \in Nat
          /\ SubSeq(t, 1, position + 1) = Append(SubSeq(t, 1, position), c)
        <3>1. position \in Nat /\ position < Len(t)
              BY <2>1, <2>2 DEF t
        <3> QED  BY <2>2, <3>1, ReadOneMore
    <2>4. Longest(N, SubSeq(t, 1, position + 1), StepFrom(fail[mode], node, c))
        <3>1. Linked(C, N, fail[mode]) /\ node \in N
              BY <2>1 DEF Built, Automaton, Longest, N
        <3>2. \A n \in N : n # Root => Longest(N, Tail(n), fail[mode][n])
              BY <2>1 DEF Built, Done, N
        <3> HIDE DEF Scan, c
        <3> QED  BY <2>1, <2>3, <3>1, <3>2, StepIsLongest
    <2>5. node' = StepFrom(fail[mode], node, c) /\ position' = position + 1 /\ phase' = "scan"
          BY DEF t
    <2>6. position + 1 \in 0..Len(t)
          BY <2>1, <2>2, <2>3 DEF t
    <2>7. /\ call' = call /\ mode' = mode /\ entries' = entries /\ decision' = NoDecision
          BY <2>1
    <2>8. Longest(NodesOf(entries[mode]), ReadSoFar, node)'
          BY <2>4, <2>5, <2>7 DEF ReadSoFar, t, N
    <2>9. position' \in 0..Len(SearchText(call.text, mode))'
          BY <2>5, <2>6, <2>7 DEF t
    <2> QED  BY <2>1, <2>5, <2>7, <2>8, <2>9 DEF ReadInv
<1> QED  BY <1>1, <1>2, <1>3 DEF MatcherInv

LEMMA FinishScanKeeps ==
    ASSUME NEW C, Readable(C), MatcherInv(C), FinishScan, UNCHANGED decision
    PROVE  MatcherInv(C)'
<1> USE DEF FinishScan
<1>1. EntriesInv(C)'
      BY DEF MatcherInv, EntriesInv
<1>2. BuildInv(C)'
    <2>1. \A m \in BOOLEAN : BuiltOf(C, m)' <=> BuiltOf(C, m)
          BY DEF BuiltOf
    <2> QED  BY <2>1 DEF MatcherInv, BuildInv
<1>3. ReadInv(C)'
    <2>1. /\ mode \in BOOLEAN /\ call.text \in Texts /\ decision = NoDecision
          /\ call' = call /\ entries' = entries /\ position' = 0 /\ node' = Root
          /\ decision' = NoDecision
          BY DEF MatcherInv, EntriesInv, ReadInv
    <2>2. SearchText(call.text, ~mode) \in Seq(C) /\ Searches(C, entries[~mode])
          BY <2>1 DEF Readable, MatcherInv, EntriesInv
    <2>3. Longest(NodesOf(entries[~mode]), SubSeq(SearchText(call.text, ~mode), 1, 0), Root)
          BY <2>2, RootIsLongest
    <2>4. 0 \in 0..Len(SearchText(call.text, ~mode))
          BY <2>2
    <2>5. CASE mode
          BY <2>1, <2>5 DEF ReadInv
    <2>6. CASE ~mode
          BY <2>1, <2>3, <2>4, <2>6 DEF ReadInv, ReadSoFar
    <2> QED  BY <2>5, <2>6
<1> QED  BY <1>1, <1>2, <1>3 DEF MatcherInv

LEMMA ReturnKeeps ==
    ASSUME NEW C, MatcherInv(C), Return
    PROVE  MatcherInv(C)'
<1> USE DEF Return
<1>1. EntriesInv(C)'
      BY DEF MatcherInv, EntriesInv
<1>2. BuildInv(C)'
    <2>1. \A m \in BOOLEAN : BuiltOf(C, m)' <=> BuiltOf(C, m)
          BY DEF BuiltOf
    <2> QED  BY <2>1 DEF MatcherInv, BuildInv, ReadInv
<1>3. ReadInv(C)'
      BY DEF MatcherInv, ReadInv
<1> QED  BY <1>1, <1>2, <1>3 DEF MatcherInv

LEMMA GuardKeeps ==
    ASSUME NEW C, MatcherInv(C), Guard
    PROVE  MatcherInv(C)'
<1> USE DEF Guard, matcherVars
<1>1. EntriesInv(C)'
      BY DEF MatcherInv, EntriesInv
<1>2. BuildInv(C)'
    <2>1. \A m \in BOOLEAN : BuiltOf(C, m)' <=> BuiltOf(C, m)
          BY DEF BuiltOf
    <2> QED  BY <2>1 DEF MatcherInv, BuildInv
<1>3. ReadInv(C)'
      BY DEF MatcherInv, ReadInv, ReadSoFar
<1> QED  BY <1>1, <1>2, <1>3 DEF MatcherInv

LEMMA MatcherInvInductive ==
    ASSUME NEW C, Readable(C), MatcherInv(C), [Next]_vars
    PROVE  MatcherInv(C)'
<1>1. CASE UNCHANGED vars
    <2> USE <1>1 DEF vars, matcherVars
    <2>1. EntriesInv(C)'
          BY DEF MatcherInv, EntriesInv
    <2>2. BuildInv(C)'
        <3>1. \A m \in BOOLEAN : BuiltOf(C, m)' <=> BuiltOf(C, m)
              BY DEF BuiltOf
        <3>2. AutomatonOf(C, mode)' <=> AutomatonOf(C, mode)
              BY DEF AutomatonOf
        <3> QED  BY <3>1, <3>2 DEF MatcherInv, BuildInv
    <2>3. ReadInv(C)'
          BY DEF MatcherInv, ReadInv, ReadSoFar
    <2> QED  BY <2>1, <2>2, <2>3 DEF MatcherInv
<1>2. CASE MatcherNext /\ UNCHANGED decision
      BY <1>2, PlantKeeps, LinkKeeps, FinishLinksKeeps, BeginMatchKeeps, ScanKeeps,
         FinishScanKeeps DEF MatcherNext
<1>3. CASE Guard
      BY <1>3, GuardKeeps
<1>4. CASE Return
      BY <1>4, ReturnKeeps
<1> QED  BY <1>1, <1>2, <1>3, <1>4 DEF Next, Matching

\* Of any lexicon with something to look for: while a text is read the automaton is at
\* the longest part of what it has read that a surface begins with, and has exactly the
\* surfaces that end there (core/matcher.py, _build_automaton and _scan).
THEOREM AutomatonIsRight ==
    ASSUME NEW C, Readable(C)
    PROVE  Spec => []NodeIsLongestSuffix
<1>1. Init => MatcherInv(C)
      BY MatcherInvInit
<1>2. MatcherInv(C) /\ [Next]_vars => MatcherInv(C)'
      BY MatcherInvInductive
<1>3. MatcherInv(C) => NodeIsLongestSuffix
    <2> SUFFICES ASSUME MatcherInv(C), phase = "scan"
                 PROVE  LET read == SubSeq(SearchText(call.text, mode), 1, position)
                            words == {e.search : e \in entries[mode]}
                            begun == Suffixes(read) \cap TrieNodes(words)
                        IN  /\ node \in begun
                            /\ \A n \in begun : Len(n) <= Len(node)
                            /\ node # Root =>
                                  output[mode][node] = {e \in entries[mode] :
                                                           e.search \in Suffixes(read)}
        BY DEF NodeIsLongestSuffix
    <2>1. Longest(NodesOf(entries[mode]), ReadSoFar, node) /\ mode \in BOOLEAN
          BY DEF MatcherInv, ReadInv, EntriesInv
    <2>2. node # Root => output[mode][node] = Ending(entries[mode], ReadSoFar)
        <3>1. BuiltOf(C, FALSE) /\ BuiltOf(C, TRUE) /\ Searches(C, entries[mode])
              BY <2>1 DEF MatcherInv, BuildInv, EntriesInv
        <3>2. Built(C, entries[mode], fail[mode], output[mode])
              BY <2>1, <3>1 DEF BuiltOf
        <3>3. node # Root => output[mode][node] = Ending(entries[mode], node)
              BY <2>1, <3>2 DEF Built, Done, Longest
        <3>4. ReadSoFar \in Seq(C)
            <4> DEFINE t == SearchText(call.text, mode)
            <4>1. t \in Seq(C) /\ position \in 0..Len(t)
                  BY <2>1 DEF MatcherInv, ReadInv, Readable
            <4> HIDE DEF t
            <4>2. 1 \in Int /\ position \in Int /\ \A j \in 1..position : t[j] \in C
                  BY <4>1
            <4> QED  BY <4>2, SubSeqProperties DEF ReadSoFar, t
        <3> QED  BY <2>1, <3>1, <3>3, <3>4, EndingOfLongest
    <2> QED  BY <2>1, <2>2 DEF Longest, NodesOf, Ending, ReadSoFar
<1> QED  BY <1>1, <1>2, <1>3, PTL DEF Spec

-----------------------------------------------------------------------------
(* Lower case.                                                             *)

\* What the concatenation of one-character texts is.
LEMMA FlattenOfSingles ==
    ASSUME NEW n \in Nat, NEW f, NEW s, s = [i \in 1..n |-> <<f[i]>>]
    PROVE  FlattenSeq(s) = [i \in 1..n |-> f[i]]
<1> DEFINE X == {f[i] : i \in 1..n}
           Up(i) == [j \in 1..i |-> f[j]]
           P(g) == g = [i \in 1..n |-> IF i = 1 THEN s[i] ELSE g[i - 1] \o s[i]]
           g0 == [i \in 1..n |-> Up(i)]
           G == CHOOSE g : P(g)
<1>1. ASSUME NEW i \in 0..n
      PROVE  Up(i) \in Seq(X) /\ Len(Up(i)) = i
    <2>1. \A j \in 1..i : f[j] \in X
          OBVIOUS
    <2> QED  BY <2>1
<1>2. ASSUME NEW i \in 1..n
      PROVE  s[i] \in Seq(X) /\ Len(s[i]) = 1 /\ s[i][1] = f[i] /\ s[i] = <<f[i]>>
    <2>1. s[i] = <<f[i]>> /\ f[i] \in X
          OBVIOUS
    <2> HIDE DEF X
    <2> QED  BY <2>1
<1>3. ASSUME NEW i \in 1..n, i # 1
      PROVE  Up(i) = Up(i - 1) \o s[i]
    <2>1. i - 1 \in 0..n /\ i \in 0..n
          BY <1>3
    <2>2. Up(i) \in Seq(X) /\ Len(Up(i)) = i /\ Up(i - 1) \in Seq(X) /\ Len(Up(i - 1)) = i - 1
          BY <1>1, <2>1
    <2>3. s[i] \in Seq(X) /\ Len(s[i]) = 1 /\ s[i][1] = f[i]
          BY <1>2
    <2>4. \A j \in 1..i : Up(i)[j] = f[j]
          OBVIOUS
    <2>5. \A j \in 1..i - 1 : Up(i - 1)[j] = f[j]
          OBVIOUS
    <2> HIDE DEF Up, X
    <2> DEFINE r == Up(i - 1) \o s[i]
    <2>6. /\ r \in Seq(X) /\ Len(r) = (i - 1) + 1
          /\ \A j \in 1..(i - 1) + 1 : r[j] = IF j <= i - 1 THEN Up(i - 1)[j] ELSE s[i][j - (i - 1)]
          BY <2>2, <2>3, ConcatProperties
    <2> HIDE DEF r
    <2>7. Len(r) = i /\ \A j \in 1..i : r[j] = f[j]
        <3>1. Len(r) = i
              BY <2>6
        <3>2. ASSUME NEW j \in 1..i
              PROVE  r[j] = f[j]
            <4>1. CASE j <= i - 1
                  BY <2>5, <2>6, <4>1
            <4>2. CASE ~(j <= i - 1)
                <5>1. j = i /\ j - (i - 1) = 1
                      BY <4>2
                <5> QED  BY <2>3, <2>6, <5>1
            <4> QED  BY <4>1, <4>2
        <3> QED  BY <3>1, <3>2
    <2>8. Up(i) = r
          BY <2>2, <2>4, <2>6, <2>7, SeqEqual
    <2> QED  BY <2>8 DEF r
<1>4. P(g0)
    <2>1. ASSUME NEW i \in 1..n
          PROVE  Up(i) = IF i = 1 THEN s[i] ELSE g0[i - 1] \o s[i]
        <3>1. CASE i = 1
            <4>1. Up(1) = <<f[1]>>
                  OBVIOUS
            <4> QED  BY <1>2, <3>1, <4>1
        <3>2. CASE i # 1
            <4>1. g0[i - 1] = Up(i - 1)
                  BY <3>2
            <4> HIDE DEF Up, g0
            <4> QED  BY <1>3, <3>2, <4>1
        <3> QED  BY <3>1, <3>2
    <2> HIDE DEF Up
    <2>2. g0 = [i \in 1..n |-> Up(i)]
          OBVIOUS
    <2> HIDE DEF g0
    <2> QED  BY <2>1, <2>2
<1>5. P(G)
    <2> HIDE DEF P, g0
    <2> QED  BY <1>4
<1>6. \A i \in 1..n : G[i] = IF i = 1 THEN s[i] ELSE G[i - 1] \o s[i]
    <2> HIDE DEF G
    <2> QED  BY <1>5
<1>7. \A i \in 1..n : G[i] = Up(i)
    <2> DEFINE S == {i \in Nat : i + 1 \in 1..n => G[i + 1] = Up(i + 1)}
    <2> HIDE DEF G
    <2>1. 0 \in S
        <3>1. 1 \in 1..n => G[1] = Up(1)
            <4>1. Up(1) = <<f[1]>>
                  OBVIOUS
            <4> HIDE DEF Up
            <4> QED  BY <1>2, <1>6, <4>1
        <3> HIDE DEF Up
        <3> QED  BY <3>1
    <2>2. ASSUME NEW k \in Nat, k \in S
          PROVE  k + 1 \in S
        <3> SUFFICES ASSUME (k + 1) + 1 \in 1..n
                     PROVE  G[(k + 1) + 1] = Up((k + 1) + 1)
            OBVIOUS
        <3> DEFINE m == (k + 1) + 1
        <3> HIDE DEF Up
        <3>1. k + 1 \in 1..n /\ m # 1 /\ m - 1 = k + 1 /\ m \in 1..n
              OBVIOUS
        <3> HIDE DEF m
        <3>2. G[k + 1] = Up(k + 1)
              BY <2>2, <3>1
        <3>3. G[m] = G[m - 1] \o s[m]
              BY <1>6, <3>1
        <3>4. Up(m) = Up(m - 1) \o s[m]
              BY <1>3, <3>1
        <3> QED  BY <3>1, <3>2, <3>3, <3>4 DEF m
    <2>3. \A k \in Nat : k \in S
        <3> HIDE DEF S
        <3> QED  BY <2>1, <2>2, Induction
    <2>4. ASSUME NEW i \in 1..n
          PROVE  G[i] = Up(i)
        <3>1. i - 1 \in Nat /\ (i - 1) + 1 = i
              OBVIOUS
        <3>2. i - 1 \in S
              BY <2>3, <3>1
        <3> HIDE DEF Up
        <3> QED  BY <3>1, <3>2
    <2> QED  BY <2>4
<1>8. s \in Seq({<<f[i]>> : i \in 1..n}) /\ Len(s) = n
      OBVIOUS
<1>9. CASE n = 0
    <2>1. s = <<>>
          BY <1>8, <1>9
    <2> QED  BY <1>8, <1>9, <2>1 DEF FlattenSeq
<1>10. CASE n # 0
    <2>1. FlattenSeq(s) = G[n]
        <3>1. FlattenSeq(s) = (CHOOSE g : g = [i \in 1..Len(s) |->
                                  IF i = 1 THEN s[i] ELSE g[i - 1] \o s[i]])[Len(s)]
              BY <1>8, <1>10, Zenon DEF FlattenSeq
        <3> QED  BY <1>8, <3>1, Zenon
    <2>2. n \in 1..n
          BY <1>10
    <2> QED  BY <1>7, <2>1, <2>2
<1> QED  BY <1>9, <1>10

LowerOf(c) == IF c \in DOMAIN LowerCase THEN LowerCase[c][1] ELSE c

\* The lower case of a text, place by place.
LEMMA LoweredIs ==
    ASSUME OneToOne, NEW D, NEW t \in Seq(D)
    PROVE  Lowered(t) = [i \in 1..Len(t) |-> LowerOf(t[i])]
<1> DEFINE f == [i \in 1..Len(t) |-> LowerOf(t[i])]
           s == [i \in DOMAIN t |-> FormOf(LowerCase, t[i])]
<1>1. \A c : FormOf(LowerCase, c) = <<LowerOf(c)>>
    <2> SUFFICES ASSUME NEW c PROVE FormOf(LowerCase, c) = <<LowerOf(c)>>
        OBVIOUS
    <2>1. CASE c \in DOMAIN LowerCase
        <3>1. LowerCase[c] = <<LowerCase[c][1]>>
              BY <2>1 DEF OneToOne
        <3> QED  BY <2>1, <3>1 DEF FormOf, LowerOf
    <2>2. CASE c \notin DOMAIN LowerCase
          BY <2>2 DEF FormOf, LowerOf
    <2> QED  BY <2>1, <2>2
<1>2. s = [i \in 1..Len(t) |-> <<f[i]>>] /\ Len(t) \in Nat
    <2>1. DOMAIN t = 1..Len(t)
          OBVIOUS
    <2> QED  BY <1>1, <2>1
<1>3. Lowered(t) = FlattenSeq(s)
      BY DEF Lowered, Cased
<1>4. f = [i \in 1..Len(t) |-> f[i]]
      OBVIOUS
<1> HIDE DEF s, f
<1>5. FlattenSeq(s) = [i \in 1..Len(t) |-> f[i]]
      BY <1>2, FlattenOfSingles
<1> QED  BY <1>3, <1>4, <1>5 DEF f

\* What is looked for in a text is as long as the normalized text, and a part of it says
\* what that part of the normalized text says.
LEMMA SearchTextIs ==
    ASSUME NEW C, Readable(C), OneToOne, NEW t \in Texts, NEW m \in BOOLEAN,
           NEW chars, chars = NormalizedText(t), NEW u, u = SearchText(t, m)
    PROVE  /\ u \in Seq(C) /\ chars \in Seq(C) /\ Len(u) = Len(chars)
           /\ \A i, j \in 0..Len(chars) : i < j =>
                 SubSeq(u, i + 1, j) = IF m THEN SubSeq(chars, i + 1, j)
                                       ELSE Lowered(SubSeq(chars, i + 1, j))
<1>1. u \in Seq(C) /\ chars \in Seq(C)
    <2>1. SearchText(t, TRUE) \in Seq(C) /\ SearchText(t, m) \in Seq(C)
          BY DEF Readable
    <2> QED  BY <2>1 DEF SearchText
<1>2. CASE m
    <2>1. u = chars
          BY <1>2 DEF SearchText
    <2> QED  BY <1>1, <1>2, <2>1
<1>3. CASE ~m
    <2>1. u = Lowered(chars)
          BY <1>3 DEF SearchText
    <2>2. u = [i \in 1..Len(chars) |-> LowerOf(chars[i])]
          BY <1>1, <2>1, LoweredIs
    <2>3. Len(u) = Len(chars) /\ \A i \in 1..Len(chars) : u[i] = LowerOf(chars[i])
          BY <1>1, <2>2
    <2>4. ASSUME NEW i \in 0..Len(chars), NEW j \in 0..Len(chars), i < j
          PROVE  SubSeq(u, i + 1, j) = Lowered(SubSeq(chars, i + 1, j))
        <3> DEFINE a == SubSeq(u, i + 1, j)
                   b == SubSeq(chars, i + 1, j)
                   k == j - (i + 1) + 1
                   l == Lowered(b)
        <3>1. /\ i + 1 \in Int /\ j \in Int /\ i + 1 <= j /\ k \in Nat
              /\ \A x \in i + 1..j : x \in 1..Len(chars)
              /\ \A x \in 1..k : i + 1 + x - 1 \in 1..Len(chars)
              BY <1>1, <2>4
        <3>2. \A x \in i + 1..j : u[x] \in C /\ chars[x] \in C
              BY <1>1, <2>3, <3>1
        <3>3. a \in Seq(C) /\ Len(a) = k /\ \A x \in 1..k : a[x] = u[i + 1 + x - 1]
              BY <3>1, <3>2, SubSeqProperties
        <3>4. b \in Seq(C) /\ Len(b) = k /\ \A x \in 1..k : b[x] = chars[i + 1 + x - 1]
              BY <3>1, <3>2, SubSeqProperties
        <3> HIDE DEF a, b, k, l
        <3>5. l = [x \in 1..k |-> LowerOf(b[x])]
              BY <3>4, LoweredIs DEF l
        <3>6. \A x \in 1..k : l[x] = a[x]
              BY <2>3, <3>1, <3>3, <3>4, <3>5
        <3>7. DOMAIN a = 1..k /\ a = [x \in 1..k |-> a[x]]
              BY <3>3
        <3>8. a = l
              BY <3>5, <3>6, <3>7
        <3> QED  BY <3>8 DEF a, b, l
    <2> QED  BY <1>1, <1>3, <2>3, <2>4
<1> QED  BY <1>2, <1>3

\* A text ends, where it is read to, with the part of it that ends there.
LEMMA EndsWithPart ==
    ASSUME NEW C, NEW u \in Seq(C), NEW j \in 1..Len(u), NEW w \in Seq(C), w # Root
    PROVE  /\ w \in Suffixes(SubSeq(u, 1, j)) =>
                 /\ j - Len(w) \in 0..Len(u) /\ j - Len(w) < j
                 /\ SubSeq(u, j - Len(w) + 1, j) = w
           /\ \A i \in 0..Len(u) : i < j /\ SubSeq(u, i + 1, j) = w =>
                 w \in Suffixes(SubSeq(u, 1, j)) /\ i = j - Len(w)
<1> DEFINE r == SubSeq(u, 1, j)
<1>1. /\ j \in Nat /\ j <= Len(u) /\ Len(u) \in Nat /\ j \in Int /\ 1 \in Int /\ 1 <= j
      /\ \A x \in 1..j : u[x] \in C
      OBVIOUS
<1>2. r \in Seq(C) /\ Len(r) = j
      BY <1>1, SubSeqProperties
<1>3. ASSUME NEW l \in 1..j
      PROVE  SubSeq(r, l, j) = SubSeq(u, l, j) /\ Len(SubSeq(u, l, j)) = j - l + 1
    <2>1. /\ 1 \in 1..Len(u) /\ j \in 1..Len(u) /\ l \in 1..j - 1 + 1 /\ j \in 1..j - 1 + 1
          /\ 1 + l - 1 = l /\ 1 + j - 1 = j
          BY <1>1
    <2>2. SubSeq(SubSeq(u, 1, j), l, j) = SubSeq(u, 1 + l - 1, 1 + j - 1)
          BY <2>1, SubSeqOfSubSeq
    <2>3. l \in Int /\ l <= j /\ \A x \in l..j : u[x] \in C
          BY <1>1
    <2>4. Len(SubSeq(u, l, j)) = j - l + 1
          BY <1>1, <2>3, SubSeqProperties
    <2> QED  BY <2>1, <2>2, <2>4
<1> HIDE DEF r
<1>4. ASSUME w \in Suffixes(r)
      PROVE  /\ j - Len(w) \in 0..Len(u) /\ j - Len(w) < j
             /\ SubSeq(u, j - Len(w) + 1, j) = w
    <2>1. PICK l \in 1..j : w = SubSeq(r, l, j)
          BY <1>2, <1>4 DEF Suffixes, Root
    <2>2. w = SubSeq(u, l, j) /\ Len(w) = j - l + 1
          BY <1>3, <2>1
    <2>3. j - Len(w) = l - 1 /\ l - 1 + 1 = l /\ l - 1 \in 0..Len(u) /\ l - 1 < j
          BY <1>1, <2>2
    <2> QED  BY <2>2, <2>3
<1>5. ASSUME NEW i \in 0..Len(u), i < j, SubSeq(u, i + 1, j) = w
      PROVE  w \in Suffixes(r) /\ i = j - Len(w)
    <2>1. i + 1 \in 1..j
          BY <1>1, <1>5
    <2>2. w = SubSeq(r, i + 1, j) /\ Len(w) = j - (i + 1) + 1
          BY <1>3, <1>5, <2>1
    <2>3. w \in Suffixes(r)
          BY <1>2, <2>1, <2>2 DEF Suffixes
    <2> QED  BY <1>1, <2>2, <2>3
<1> QED  BY <1>4, <1>5 DEF r

\* What no word runs over: the two ways to say that a span cuts none.
LEMMA BoundariesAre ==
    ASSUME NEW C, NEW chars \in Seq(C), NEW i \in 0..Len(chars), NEW j \in 0..Len(chars), i < j
    PROVE  HasTokenBoundaries(chars, i, j) <=>
              \A k \in {i, j} : ~(/\ {k, k + 1} \subseteq DOMAIN chars
                                  /\ {chars[k], chars[k + 1]} \subseteq WordChars)
<1>1. DOMAIN chars = 1..Len(chars) /\ Len(chars) \in Nat
      OBVIOUS
<1>2. /\ {i, i + 1} \subseteq DOMAIN chars <=> i > 0 /\ i < Len(chars)
      /\ {j, j + 1} \subseteq DOMAIN chars <=> j < Len(chars)
      BY <1>1
<1> QED  BY <1>2 DEF HasTokenBoundaries

\* What is found at all places of a text are the occurrences of what is looked for.
LEMMA HitsAreOccurrences ==
    ASSUME NEW C, Readable(C), OneToOne, NEW m \in BOOLEAN, NEW es, Searches(C, es),
           \A e \in es : e.case_sensitive = m, NEW c, c.text \in Texts
    PROVE  AllHits(es, c, m) = UNION {{Match(e, s) : s \in Occurrences(e, c.text)} :
                                         e \in {d \in es : Wanted(d, c)}}
<1> DEFINE t == c.text
           chars == NormalizedText(t)
           u == SearchText(t, m)
           n == Len(chars)
           Says(i, j) == IF m THEN SubSeq(chars, i + 1, j) ELSE Lowered(SubSeq(chars, i + 1, j))
           Cuts(k) == {k, k + 1} \subseteq DOMAIN chars
                      /\ {chars[k], chars[k + 1]} \subseteq WordChars
           Span(i, j) == OriginalSpan(Normalized(t), i, j)
<1>1. /\ u \in Seq(C) /\ chars \in Seq(C) /\ Len(u) = n
      /\ \A i, j \in 0..n : i < j => SubSeq(u, i + 1, j) = Says(i, j)
    <2>1. t \in Texts
          OBVIOUS
    <2> HIDE DEF t
    <2> QED  BY <2>1, SearchTextIs
<1>2. ASSUME NEW e \in es
      PROVE  Occurrences(e, t) = {Span(s[1], s[2]) : s \in {s \in (0..n) \X (0..n) :
                s[1] < s[2] /\ Says(s[1], s[2]) = e.search /\ ~Cuts(s[1]) /\ ~Cuts(s[2])}}
    <2>1. e.case_sensitive = m
          OBVIOUS
    <2> QED  BY <2>1 DEF Occurrences
<1>3. AllHits(es, c, m) = UNION {Hits(es, c, m, i) : i \in 1..n}
      BY <1>1 DEF AllHits, HitsUpTo
<1>4. \A j : Hits(es, c, m, j) = {Match(e, Span(j - Len(e.search), j)) :
               e \in {d \in Ending(es, SubSeq(u, 1, j)) :
                        /\ Wanted(d, c)
                        /\ HasTokenBoundaries(chars, j - Len(d.search), j)}}
      BY DEF Hits
<1>5. \A e \in es : e.search \in Seq(C) /\ e.search # Root
      BY DEF Searches
<1> HIDE DEF t, chars, u, n, Says, Cuts, Span
<1>6. ASSUME NEW i \in 0..n, NEW j \in 0..n, i < j
      PROVE  HasTokenBoundaries(chars, i, j) <=> ~Cuts(i) /\ ~Cuts(j)
    <2>1. i \in 0..Len(chars) /\ j \in 0..Len(chars) /\ chars \in Seq(C)
          BY <1>1 DEF n
    <2>2. HasTokenBoundaries(chars, i, j) <=>
              \A k \in {i, j} : ~(/\ {k, k + 1} \subseteq DOMAIN chars
                                  /\ {chars[k], chars[k + 1]} \subseteq WordChars)
          BY <1>6, <2>1, BoundariesAre
    <2> QED  BY <2>2, Zenon DEF Cuts
<1>7. n \in Nat
      BY <1>1 DEF n
<1>8. ASSUME NEW j \in 1..n, NEW e \in es, Wanted(e, c),
             e.search \in Suffixes(SubSeq(u, 1, j)),
             HasTokenBoundaries(chars, j - Len(e.search), j)
      PROVE  \E i \in 0..n : /\ i = j - Len(e.search) /\ i < j /\ Says(i, j) = e.search
                             /\ ~Cuts(i) /\ ~Cuts(j)
    <2> DEFINE i == j - Len(e.search)
    <2>1. i \in 0..n /\ i < j /\ SubSeq(u, i + 1, j) = e.search
        <3> DEFINE w == e.search
        <3>1. u \in Seq(C) /\ j \in 1..Len(u) /\ w \in Seq(C) /\ w # Root
              BY <1>1, <1>5
        <3>2. w \in Suffixes(SubSeq(u, 1, j))
              BY <1>8
        <3> HIDE DEF w
        <3>3. /\ j - Len(w) \in 0..Len(u) /\ j - Len(w) < j
              /\ SubSeq(u, j - Len(w) + 1, j) = w
              BY <3>1, <3>2, EndsWithPart
        <3> QED  BY <1>1, <3>3 DEF w
    <2> HIDE DEF i
    <2>2. j \in 0..n
          BY <1>7
    <2>3. Says(i, j) = e.search
          BY <1>1, <2>1, <2>2
    <2>4. HasTokenBoundaries(chars, i, j)
          BY <1>8 DEF i
    <2>5. ~Cuts(i) /\ ~Cuts(j)
          BY <1>6, <2>1, <2>2, <2>4
    <2> QED  BY <2>1, <2>3, <2>5 DEF i
<1>9. ASSUME NEW j \in 0..n, NEW i \in 0..n, i < j, NEW e \in es,
             Says(i, j) = e.search, ~Cuts(i), ~Cuts(j)
      PROVE  /\ j \in 1..n /\ i = j - Len(e.search) /\ e.search \in Suffixes(SubSeq(u, 1, j))
             /\ HasTokenBoundaries(chars, i, j)
    <2>1. j \in 1..n
          BY <1>7, <1>9
    <2>2. SubSeq(u, i + 1, j) = e.search
          BY <1>1, <1>9
    <2>3. i = j - Len(e.search) /\ e.search \in Suffixes(SubSeq(u, 1, j))
          BY <1>1, <1>5, <1>9, <2>1, <2>2, EndsWithPart
    <2>4. HasTokenBoundaries(chars, i, j)
          BY <1>6, <1>9
    <2> QED  BY <2>1, <2>3, <2>4
<1>10. ASSUME NEW x \in AllHits(es, c, m)
       PROVE  \E e \in {d \in es : Wanted(d, c)} : \E s \in Occurrences(e, t) : x = Match(e, s)
    <2>1. PICK j \in 1..n : x \in Hits(es, c, m, j)
          BY <1>3
    <2>2. PICK e \in es : /\ Wanted(e, c) /\ e.search \in Suffixes(SubSeq(u, 1, j))
                          /\ HasTokenBoundaries(chars, j - Len(e.search), j)
                          /\ x = Match(e, Span(j - Len(e.search), j))
          BY <1>4, <2>1 DEF Ending
    <2>3. PICK i \in 0..n : /\ i = j - Len(e.search) /\ i < j /\ Says(i, j) = e.search
                            /\ ~Cuts(i) /\ ~Cuts(j)
          BY <1>8, <2>2
    <2>4. Span(i, j) \in Occurrences(e, t)
        <3>1. <<i, j>> \in (0..n) \X (0..n) /\ <<i, j>>[1] = i /\ <<i, j>>[2] = j
              BY <1>7
        <3> DEFINE p == <<i, j>>
        <3>2. /\ p \in (0..n) \X (0..n) /\ p[1] < p[2] /\ Says(p[1], p[2]) = e.search
              /\ ~Cuts(p[1]) /\ ~Cuts(p[2])
              BY <2>3, <3>1
        <3>3. Span(p[1], p[2]) \in Occurrences(e, t)
            <4> HIDE DEF p
            <4> QED  BY <1>2, <3>2
        <3> QED  BY <3>1, <3>3
    <2> QED  BY <2>2, <2>3, <2>4
<1>11. ASSUME NEW e \in es, Wanted(e, c), NEW s \in Occurrences(e, t)
       PROVE  Match(e, s) \in AllHits(es, c, m)
    <2>1. PICK p \in (0..n) \X (0..n) :
              /\ s = Span(p[1], p[2]) /\ p[1] < p[2] /\ Says(p[1], p[2]) = e.search
              /\ ~Cuts(p[1]) /\ ~Cuts(p[2])
          BY <1>2
    <2> DEFINE i == p[1]
               j == p[2]
    <2>2. i \in 0..n /\ j \in 0..n
          OBVIOUS
    <2> HIDE DEF i, j
    <2>3. /\ j \in 1..n /\ i = j - Len(e.search) /\ e.search \in Suffixes(SubSeq(u, 1, j))
          /\ HasTokenBoundaries(chars, i, j)
          BY <1>9, <2>1, <2>2 DEF i, j
    <2>4. Match(e, s) \in Hits(es, c, m, j)
        <3>1. e \in {d \in Ending(es, SubSeq(u, 1, j)) :
                        /\ Wanted(d, c) /\ HasTokenBoundaries(chars, j - Len(d.search), j)}
              BY <1>11, <2>3 DEF Ending
        <3>2. s = Span(j - Len(e.search), j)
              BY <2>1, <2>3 DEF i, j
        <3> QED  BY <1>4, <3>1, <3>2
    <2> QED  BY <1>3, <2>3, <2>4
<1> QED  BY <1>10, <1>11 DEF t

\* At the node of the longest suffix is exactly what ends where the text ends.
LEMMA OutputIsEnding ==
    ASSUME NEW C, NEW es, NEW links, NEW out, Built(C, es, links, out), NEW u \in Seq(C),
           NEW n, Longest(NodesOf(es), u, n)
    PROVE  out[n] = Ending(es, u)
<1>1. Searches(C, es) /\ n \in NodesOf(es)
      BY DEF Built, Automaton, Longest
<1>2. Ending(es, u) = Ending(es, n)
      BY <1>1, EndingOfLongest
<1>3. CASE n = Root
    <2>1. out[n] \in {{e \in es : e.search = Root}, Ending(es, Root)}
          BY <1>1, <1>3 DEF Built, Automaton
    <2> QED  BY <1>1, <1>2, <1>3, <2>1, NothingEndsAtRoot
<1>4. CASE n # Root
      BY <1>1, <1>2, <1>4 DEF Built, Done
<1> QED  BY <1>3, <1>4

\* One more place.
LEMMA HitsOneMore ==
    ASSUME NEW es, NEW c, NEW m, NEW k \in Nat
    PROVE  /\ HitsUpTo(es, c, m, k + 1) = HitsUpTo(es, c, m, k) \cup Hits(es, c, m, k + 1)
           /\ HitsUpTo(es, c, m, 0) = {}
<1>1. 1..k + 1 = 1..k \cup {k + 1} /\ 1..0 = {}
      OBVIOUS
<1> DEFINE H(i) == Hits(es, c, m, i)
<1>2. HitsUpTo(es, c, m, k + 1) = UNION {H(i) : i \in 1..k + 1}
      BY DEF HitsUpTo
<1>3. HitsUpTo(es, c, m, k) = UNION {H(i) : i \in 1..k}
      BY DEF HitsUpTo
<1>4. HitsUpTo(es, c, m, 0) = UNION {H(i) : i \in 1..0}
      BY DEF HitsUpTo
<1>5. Hits(es, c, m, k + 1) = H(k + 1)
      OBVIOUS
<1> HIDE DEF H
<1>6. UNION {H(i) : i \in 1..k \cup {k + 1}} = (UNION {H(i) : i \in 1..k}) \cup H(k + 1)
    <2> DEFINE A == 1..k
               z == k + 1
    <2> HIDE DEF A, z
    <2>1. UNION {H(i) : i \in A \cup {z}} = (UNION {H(i) : i \in A}) \cup H(z)
        <3>1. \A i : i \in A \cup {z} <=> i \in A \/ i = z
              OBVIOUS
        <3> DEFINE U == UNION {H(i) : i \in A \cup {z}}
                   V == UNION {H(i) : i \in A}
        <3>2. \A x : x \in U <=> \E i \in A \cup {z} : x \in H(i)
              BY Zenon
        <3>3. \A x : x \in V <=> \E i \in A : x \in H(i)
              BY Zenon
        <3> HIDE DEF U, V
        <3>4. \A x : x \in U <=> x \in V \/ x \in H(z)
              BY <3>1, <3>2, <3>3, Zenon
        <3>5. U = V \cup H(z)
              BY <3>4, Zenon
        <3> QED  BY <3>5, Zenon DEF U, V
    <2> QED  BY <2>1 DEF A, z
<1>7. UNION {H(i) : i \in {}} = {}
      OBVIOUS
<1> QED  BY <1>1, <1>2, <1>3, <1>4, <1>5, <1>6, <1>7

\* A step of the scan looks at what ends with what is read then.
LEMMA ScanLooks ==
    ASSUME NEW C, Readable(C), MatcherInv(C), Scan, UNCHANGED decision
    PROVE  LET read == SubSeq(SearchText(call.text, mode), 1, position + 1)
           IN  matches' = matches \cup MatchesAt(position + 1, Ending(entries[mode], read))
<1> DEFINE t == SearchText(call.text, mode)
           c == t[position + 1]
           next == StepFrom(fail[mode], node, c)
           read == SubSeq(t, 1, position + 1)
<1>1. MatcherInv(C)'
      BY ScanKeeps
<1>2. /\ mode \in BOOLEAN /\ call.text \in Texts /\ position \in 0..Len(t) /\ phase = "scan"
      /\ BuiltOf(C, FALSE) /\ BuiltOf(C, TRUE) /\ Searches(C, entries[mode])
      /\ position < Len(t)
      BY DEF MatcherInv, EntriesInv, BuildInv, ReadInv, Scan
<1>3. /\ node' = next /\ phase' = "scan" /\ position' = position + 1 /\ entries' = entries
      /\ call' = call /\ mode' = mode
      /\ matches' = matches \cup MatchesAt(position + 1, output[mode][next])
      BY DEF Scan
<1>4. Longest(NodesOf(entries[mode]), read, next)
    <2>1. phase' = "scan" => Longest(NodesOf(entries[mode]), ReadSoFar, node)'
          BY <1>1 DEF MatcherInv, ReadInv
    <2>2. (NodesOf(entries[mode]))' = NodesOf(entries[mode]) /\ ReadSoFar' = read
          BY <1>3 DEF ReadSoFar
    <2> HIDE DEF read, next
    <2>3. Longest(NodesOf(entries[mode]), ReadSoFar, node)' =
          Longest(NodesOf(entries[mode]), read, next)
          BY <1>3, <2>2 DEF Longest
    <2> QED  BY <1>3, <2>1, <2>3
<1>5. t \in Seq(C) /\ position \in Nat
      BY <1>2 DEF Readable
<1>6. read \in Seq(C)
    <2> HIDE DEF t
    <2>1. 1 \in Int /\ position + 1 \in Int /\ \A j \in 1..position + 1 : t[j] \in C
          BY <1>2, <1>5
    <2> QED  BY <2>1, SubSeqProperties
<1>7. output[mode][next] = Ending(entries[mode], read)
    <2>1. Built(C, entries[mode], fail[mode], output[mode])
          BY <1>2 DEF BuiltOf
    <2> HIDE DEF read, next
    <2> QED  BY <1>4, <1>6, <2>1, OutputIsEnding
<1> QED  BY <1>3, <1>7

\* What a place adds is what ends there.
LEMMA ScanFinds ==
    ASSUME NEW C, Readable(C), OneToOne, MatcherInv(C), Scan, UNCHANGED decision
    PROVE  matches' = matches \cup Hits(entries[mode], call, mode, position + 1)
<1> DEFINE t == SearchText(call.text, mode)
           read == SubSeq(t, 1, position + 1)
<1>1. matches' = matches \cup MatchesAt(position + 1, Ending(entries[mode], read))
      BY ScanLooks
<1>2. /\ mode \in BOOLEAN /\ call.text \in Texts /\ position \in 0..Len(t) /\ phase = "scan"
      /\ Searches(C, entries[mode]) /\ position < Len(t)
      BY DEF MatcherInv, EntriesInv, ReadInv, Scan
<1>3. t \in Seq(C) /\ position \in Nat
      BY <1>2 DEF Readable
<1>4. Len(t) = Len(NormalizedText(call.text))
      BY <1>2, SearchTextIs
<1>5. ASSUME NEW d \in Ending(entries[mode], read)
      PROVE  (position + 1) - Len(d.search) >= 0 /\ position + 1 <= Len(NormalizedText(call.text))
    <2>1. d.search \in Suffixes(read) /\ d.search \in Seq(C) /\ d.search # Root
          BY <1>2 DEF Ending, Searches
    <2> HIDE DEF t
    <2>2. position + 1 \in 1..Len(t)
          BY <1>2, <1>3
    <2>3. (position + 1) - Len(d.search) \in 0..Len(t)
          BY <1>3, <2>1, <2>2, EndsWithPart
    <2> QED  BY <1>3, <1>4, <2>2, <2>3
<1>6. MatchesAt(position + 1, Ending(entries[mode], read)) =
          Hits(entries[mode], call, mode, position + 1)
    <2> DEFINE E == Ending(entries[mode], read)
               k == position + 1
               W(d) == /\ Wanted(d, call)
                       /\ HasTokenBoundaries(NormalizedText(call.text), k - Len(d.search), k)
               V(d) == /\ Wanted(d, call) /\ k - Len(d.search) >= 0
                       /\ k <= Len(NormalizedText(call.text))
                       /\ HasTokenBoundaries(NormalizedText(call.text), k - Len(d.search), k)
               M(e) == Match(e, OriginalSpan(Normalized(call.text), k - Len(e.search), k))
    <2>1. ASSUME NEW d \in E
          PROVE  W(d) <=> V(d)
        <3>1. d \in Ending(entries[mode], read)
              OBVIOUS
        <3>2. k - Len(d.search) >= 0 /\ k <= Len(NormalizedText(call.text))
              BY <1>5, <3>1
        <3> HIDE DEF k
        <3> QED  BY <3>2, Zenon
    <2>2. MatchesAt(k, E) = {M(e) : e \in {d \in E : V(d)}}
          BY DEF MatchesAt
    <2>3. Hits(entries[mode], call, mode, k) = {M(e) : e \in {d \in E : W(d)}}
          BY DEF Hits
    <2> HIDE DEF E, W, V, M, k
    <2>4. {d \in E : W(d)} = {d \in E : V(d)}
          BY <2>1
    <2>5. MatchesAt(k, E) = Hits(entries[mode], call, mode, k)
          BY <2>2, <2>3, <2>4
    <2> QED  BY <2>5 DEF E, k
<1> QED  BY <1>1, <1>6

LEMMA FoundInvInductive ==
    ASSUME NEW C, Readable(C), OneToOne, MatcherInv(C), FoundInv, [Next]_vars
    PROVE  FoundInv'
<1>1. mode \in BOOLEAN /\ (phase \in {"idle", "done"} => mode = FALSE)
      BY DEF MatcherInv, EntriesInv, ReadInv
<1>2. CASE Plant /\ UNCHANGED decision
      BY <1>2 DEF Plant, FoundInv
<1>3. CASE Link /\ UNCHANGED decision
      BY <1>3 DEF Link, FoundInv
<1>4. CASE FinishLinks /\ UNCHANGED decision
      BY <1>4 DEF FinishLinks, FoundInv
<1>5. CASE BeginMatch /\ UNCHANGED decision
    <2>1. phase' = "scan" /\ mode' = FALSE /\ position' = 0 /\ matches' = {}
          BY <1>1, <1>5 DEF BeginMatch, FoundInv, MatcherInv, ReadInv
    <2>2. HitsUpTo(entries'[FALSE], call', FALSE, 0) = {}
          BY HitsOneMore
    <2> QED  BY <2>1, <2>2 DEF FoundInv
<1>6. CASE Scan /\ UNCHANGED decision
    <2> DEFINE H(k) == HitsUpTo(entries[mode], call, mode, k)
    <2>1. /\ phase = "scan" /\ phase' = "scan" /\ mode' = mode /\ position' = position + 1
          /\ entries' = entries /\ call' = call
          BY <1>6 DEF Scan
    <2>2. matches' = matches \cup Hits(entries[mode], call, mode, position + 1)
          BY <1>6, ScanFinds
    <2>3. position \in Nat
          BY <2>1 DEF MatcherInv, ReadInv
    <2>4. H(position + 1) = H(position) \cup Hits(entries[mode], call, mode, position + 1)
          BY <2>3, HitsOneMore
    <2> HIDE DEF H
    <2>5. CASE mode
        <3>1. mode = TRUE
              BY <1>1, <2>5
        <3>2. matches = AllHits(entries[FALSE], call, FALSE) \cup H(position)
              BY <2>1, <3>1 DEF FoundInv, H
        <3>3. matches' = AllHits(entries[FALSE], call, FALSE) \cup H(position + 1)
              BY <2>2, <2>4, <3>2
        <3>4. matches' = AllHits(entries'[FALSE], call', FALSE)
                         \cup HitsUpTo(entries'[TRUE], call', TRUE, position')
              BY <2>1, <3>1, <3>3 DEF H
        <3>5. phase' = "scan" /\ mode' = TRUE
              BY <2>1, <3>1
        <3> QED  BY <3>4, <3>5 DEF FoundInv
    <2>6. CASE ~mode
        <3>1. mode = FALSE
              BY <1>1, <2>6
        <3>2. matches = H(position)
              BY <2>1, <3>1 DEF FoundInv, H
        <3>3. matches' = HitsUpTo(entries'[FALSE], call', FALSE, position')
              BY <2>1, <2>2, <2>4, <3>1, <3>2 DEF H
        <3>4. phase' = "scan" /\ mode' = FALSE
              BY <2>1, <3>1
        <3> QED  BY <3>3, <3>4 DEF FoundInv
    <2> QED  BY <2>5, <2>6
<1>7. CASE FinishScan /\ UNCHANGED decision
    <2>1. /\ phase = "scan" /\ position = Len(SearchText(call.text, mode)) /\ mode' = ~mode
          /\ phase' = (IF mode THEN "done" ELSE "scan") /\ position' = 0
          /\ entries' = entries /\ call' = call /\ matches' = matches
          BY <1>7 DEF FinishScan
    <2>2. HitsUpTo(entries[TRUE], call, TRUE, 0) = {}
          BY HitsOneMore
    <2>3. HitsUpTo(entries[mode], call, mode, position) = AllHits(entries[mode], call, mode)
          BY <2>1 DEF AllHits
    <2>4. CASE mode
        <3>1. mode = TRUE /\ phase' = "done"
              BY <1>1, <2>1, <2>4
        <3>2. matches = AllHits(entries[FALSE], call, FALSE) \cup AllHits(entries[TRUE], call, TRUE)
              BY <2>1, <2>3, <3>1 DEF FoundInv
        <3> QED  BY <2>1, <3>1, <3>2 DEF FoundInv
    <2>5. CASE ~mode
        <3>1. mode = FALSE /\ phase' = "scan" /\ mode' = TRUE
              BY <1>1, <2>1, <2>5
        <3>2. matches = AllHits(entries[FALSE], call, FALSE)
              BY <2>1, <2>3, <3>1 DEF FoundInv
        <3> QED  BY <2>1, <2>2, <3>1, <3>2 DEF FoundInv
    <2> QED  BY <2>4, <2>5
<1>8. CASE Guard
      BY <1>8 DEF Guard, matcherVars, FoundInv
<1>9. CASE Return
      BY <1>9 DEF Return, FoundInv
<1>10. CASE UNCHANGED vars
      BY <1>10 DEF vars, matcherVars, FoundInv
<1> QED  BY <1>2, <1>3, <1>4, <1>5, <1>6, <1>7, <1>8, <1>9, <1>10 DEF Next, Matching, MatcherNext

\* Of any lexicon and text in which lower case changes no length: a call of match returns
\* every occurrence of every surface it may, each at its place in the original text, and
\* nothing else (core/matcher.py, match and _scan).
THEOREM MatchesAreAll ==
    ASSUME NEW C, Readable(C), OneToOne
    PROVE  Spec => []MatchesAreTheOccurrences
<1> DEFINE Inv == MatcherInv(C) /\ FoundInv
<1>1. Init => Inv
    <2> SUFFICES ASSUME Init PROVE Inv
        OBVIOUS
    <2>1. FoundInv
          BY DEF Init, MatcherInit, FoundInv
    <2> QED  BY <2>1, MatcherInvInit
<1>2. Inv /\ [Next]_vars => Inv'
      BY MatcherInvInductive, FoundInvInductive
<1>3. Inv => MatchesAreTheOccurrences
    <2> SUFFICES ASSUME MatcherInv(C), FoundInv, phase = "done"
                 PROVE  matches = UNION {{Match(e, s) : s \in Occurrences(e, call.text)} :
                            e \in {d \in entries[FALSE] \cup entries[TRUE] : Wanted(d, call)}}
        BY DEF MatchesAreTheOccurrences
    <2> DEFINE O(e) == {Match(e, s) : s \in Occurrences(e, call.text)}
               Kept(es) == {d \in es : Wanted(d, call)}
    <2>1. /\ call.text \in Texts
          /\ \A m \in BOOLEAN : Searches(C, entries[m])
                                /\ \A e \in entries[m] : e.case_sensitive = m
          BY DEF MatcherInv, EntriesInv, ReadInv
    <2>2. ASSUME NEW m \in BOOLEAN
          PROVE  AllHits(entries[m], call, m) = UNION {O(e) : e \in Kept(entries[m])}
          BY <2>1, HitsAreOccurrences
    <2>3. matches = AllHits(entries[FALSE], call, FALSE) \cup AllHits(entries[TRUE], call, TRUE)
          BY DEF FoundInv
    <2> HIDE DEF O
    <2>4. UNION {O(e) : e \in Kept(entries[FALSE] \cup entries[TRUE])} =
             (UNION {O(e) : e \in Kept(entries[FALSE])})
             \cup (UNION {O(e) : e \in Kept(entries[TRUE])})
        <3> DEFINE A == Kept(entries[FALSE])
                   B == Kept(entries[TRUE])
                   D == Kept(entries[FALSE] \cup entries[TRUE])
        <3>1. D = A \cup B
              OBVIOUS
        <3> HIDE DEF A, B, D
        <3>2. UNION {O(e) : e \in A \cup B} = (UNION {O(e) : e \in A}) \cup (UNION {O(e) : e \in B})
              OBVIOUS
        <3> QED  BY <3>1, <3>2 DEF A, B, D
    <2>5. matches = UNION {O(e) : e \in Kept(entries[FALSE] \cup entries[TRUE])}
          BY <2>2, <2>3, <2>4
    <2> QED  BY <2>5 DEF O
<1> HIDE DEF Inv
<1> QED  BY <1>1, <1>2, <1>3, PTL DEF Spec

-----------------------------------------------------------------------------
(* Accepted spans.                                                         *)

Placed(spans) == IsFiniteSet(spans) /\ \A s \in spans : s[1] \in Int /\ s[2] \in Int

\* Whether a span is accepted, by those before it.
IsFree(accepted, spans, s) == \A t \in spans : Before(t, s) /\ Overlap(s, t) => ~accepted[t]

IsAcceptance(accepted, spans) == accepted = [s \in spans |-> IsFree(accepted, spans, s)]

\* Of finitely many spans it is decided which are accepted.
LEMMA AcceptanceExists ==
    ASSUME NEW spans, Placed(spans)
    PROVE  \E accepted : IsAcceptance(accepted, spans)
<1> DEFINE Pred(s) == {t \in spans : Before(t, s)}
           Rank(s) == Cardinality(Pred(s))
           Solves(g, k) == \A s \in spans : Rank(s) < k => (g[s] <=> IsFree(g, spans, s))
           S == {k \in Nat : \E g \in [spans -> BOOLEAN] : Solves(g, k)}
<1>1. ASSUME NEW s \in spans
      PROVE  Rank(s) \in Nat /\ Rank(s) <= Cardinality(spans) /\ IsFiniteSet(Pred(s))
    <2>1. Pred(s) \in SUBSET spans /\ IsFiniteSet(spans)
          BY DEF Placed
    <2> HIDE DEF Pred
    <2> QED  BY <2>1, FS_Subset, FS_CardinalityType
<1>2. ASSUME NEW s \in spans, NEW t \in spans, Before(t, s)
      PROVE  Rank(t) < Rank(s)
    <2>1. \A r \in spans : Before(r, t) => Before(r, s)
          BY <1>2 DEF Before, SpanLength, Placed
    <2>2. ~Before(t, t)
          BY DEF Before, SpanLength, Placed
    <2>3. Pred(t) \in SUBSET Pred(s) /\ Pred(t) # Pred(s)
          BY <1>2, <2>1, <2>2
    <2>4. IsFiniteSet(Pred(s)) /\ Rank(s) \in Nat /\ Rank(t) \in Nat
          BY <1>1
    <2> HIDE DEF Pred
    <2>5. Rank(t) <= Rank(s) /\ Rank(t) # Rank(s)
          BY <2>3, <2>4, FS_Subset
    <2> QED  BY <2>4, <2>5
<1>3. Cardinality(spans) \in Nat
      BY FS_CardinalityType DEF Placed
<1> HIDE DEF Rank
<1>4. 0 \in S
    <2>1. [s \in spans |-> TRUE] \in [spans -> BOOLEAN]
          OBVIOUS
    <2>2. \A g : Solves(g, 0)
        <3>1. ASSUME NEW s \in spans
              PROVE  ~(Rank(s) < 0)
            <4>1. Rank(s) \in Nat
                  BY <1>1
            <4> QED  BY <4>1
        <3> QED  BY <3>1, Zenon
    <2> HIDE DEF Solves
    <2> QED  BY <2>1, <2>2
<1>5. ASSUME NEW k \in Nat, k \in S
      PROVE  k + 1 \in S
    <2>1. PICK g \in [spans -> BOOLEAN] : Solves(g, k)
          BY <1>5
    <2> DEFINE h == [s \in spans |-> IF Rank(s) < k THEN g[s] ELSE IsFree(g, spans, s)]
    <2>2. h \in [spans -> BOOLEAN]
          BY DEF IsFree
    <2>3. ASSUME NEW s \in spans, Rank(s) < k + 1
          PROVE  h[s] <=> IsFree(h, spans, s)
        <3>1. ASSUME NEW t \in spans, Before(t, s)
              PROVE  Rank(t) < k
            <4>1. Rank(t) \in Nat /\ Rank(s) \in Nat /\ Rank(t) < Rank(s)
                  BY <1>1, <1>2, <3>1
            <4> QED  BY <2>3, <4>1
        <3>2. \A t \in spans : Before(t, s) => (h[t] <=> g[t])
              BY <3>1
        <3>3. h[s] <=> IsFree(g, spans, s)
              BY <2>1
        <3> HIDE DEF h
        <3> QED  BY <3>2, <3>3, Zenon DEF IsFree
    <2>4. k + 1 \in Nat /\ Solves(h, k + 1)
          BY <2>3
    <2> HIDE DEF h, Solves
    <2> QED  BY <2>2, <2>4
<1>6. Cardinality(spans) + 1 \in S
    <2>1. Cardinality(spans) + 1 \in Nat
          BY <1>3
    <2> HIDE DEF S
    <2> QED  BY <1>4, <1>5, <2>1, Induction
<1>7. PICK g \in [spans -> BOOLEAN] : Solves(g, Cardinality(spans) + 1)
      BY <1>6
<1>8. ASSUME NEW s \in spans
      PROVE  g[s] = IsFree(g, spans, s)
    <2>1. Rank(s) < Cardinality(spans) + 1
        <3>1. Rank(s) \in Nat /\ Rank(s) <= Cardinality(spans)
              BY <1>1
        <3> QED  BY <1>3, <3>1
    <2>2. g[s] <=> IsFree(g, spans, s)
          BY <1>7, <2>1, Zenon
    <2> QED  BY <2>2, Zenon DEF IsFree
<1>9. g = [s \in spans |-> g[s]]
      OBVIOUS
<1>10. IsAcceptance(g, spans)
      BY <1>8, <1>9 DEF IsAcceptance
<1> QED  BY <1>10

\* A span is accepted unless an accepted one that comes before it overlaps.
LEMMA AcceptedIs ==
    ASSUME NEW spans, Placed(spans), NEW s \in spans
    PROVE  s \in AcceptedSpans(spans) <=>
              \A t \in spans : Before(t, s) /\ Overlap(s, t) => t \notin AcceptedSpans(spans)
<1> DEFINE A == CHOOSE accepted : IsAcceptance(accepted, spans)
<1>1. IsAcceptance(A, spans)
      BY AcceptanceExists
<1>2. AcceptedSpans(spans) = {t \in spans : A[t]}
      BY Zenon DEF AcceptedSpans, IsAcceptance, IsFree
<1> HIDE DEF A
<1>3. A[s] = IsFree(A, spans, s)
      BY <1>1 DEF IsAcceptance
<1> QED  BY <1>2, <1>3, Zenon DEF IsFree

\* A span that is not accepted overlaps an accepted one that is as long or longer.
LEMMA AcceptedOrCovered ==
    ASSUME NEW spans, Placed(spans), NEW s \in spans, s \notin AcceptedSpans(spans)
    PROVE  \E t \in spans : /\ t \in AcceptedSpans(spans) /\ Overlap(s, t)
                            /\ SpanLength(t) >= SpanLength(s)
<1>1. PICK t \in spans : Before(t, s) /\ Overlap(s, t) /\ t \in AcceptedSpans(spans)
      BY AcceptedIs
<1>2. SpanLength(t) >= SpanLength(s)
      BY <1>1 DEF Before, SpanLength, Placed
<1> QED  BY <1>1, <1>2

-----------------------------------------------------------------------------
(* The guard.                                                              *)

\* A match is of a term of the lexicon and somewhere in the text.
Sound(found) ==
    /\ IsFiniteSet(found)
    /\ \A m \in found : /\ m.entry.term \in Ids(lexicon.terms)
                        /\ m.start \in Int /\ m.end \in Int

\* Another match, of a term that allows the tool, covers a match.
CoveredByLeave(found, m, tool) ==
    \E n \in found :
        /\ n.entry.term # m.entry.term
        /\ AllowedTools({n.entry.term}) = {} \/ tool \in AllowedTools({n.entry.term})
        /\ Overlap(SpanOf(m), SpanOf(n))
        /\ SpanLength(SpanOf(n)) >= SpanLength(SpanOf(m))
        /\ SpanOf(n) # SpanOf(m)

\* A tool that proceeds though some term that was found forbids it: another term was
\* found that allows it, and covers the first.
LEMMA LeaveOfAnother ==
    ASSUME NEW found, Sound(found), NEW text, NEW tool, NEW block, block \in BOOLEAN,
           NEW m, m \in found,
           Guarded(Resolution(text, found), tool, block).action = "proceed",
           AllowedTools({m.entry.term}) # {}, tool \notin AllowedTools({m.entry.term})
    PROVE  CoveredByLeave(found, m, tool)
<1> DEFINE spans == {SpanOf(x) : x \in found}
           sel == SelectResolutionMatches(found)
           terms == TermsOf(sel) \cap Ids(lexicon.terms)
           res == Resolution(text, found)
<1>1. Placed(spans)
    <2> DEFINE f == [x \in found |-> SpanOf(x)]
    <2>1. f \in Surjection(found, spans)
          BY DEF Surjection
    <2>2. IsFiniteSet(found)
          BY DEF Sound
    <2>3. \A x \in found : SpanOf(x)[1] \in Int /\ SpanOf(x)[2] \in Int
          BY DEF Sound, SpanOf
    <2>4. \A s \in spans : s[1] \in Int /\ s[2] \in Int
          BY <2>3
    <2> HIDE DEF f, spans
    <2> QED  BY <2>1, <2>2, <2>4, FS_Surjection DEF Placed
<1>2. \A x : x \in sel <=> x \in found /\ SpanOf(x) \in AcceptedSpans(spans)
      BY DEF SelectResolutionMatches
<1>3. ASSUME NEW x \in found, SpanOf(x) \in AcceptedSpans(spans)
      PROVE  x.entry.term \in terms
    <2>1. x \in sel /\ x.entry.term \in Ids(lexicon.terms)
          BY <1>2, <1>3 DEF Sound
    <2> HIDE DEF sel
    <2> QED  BY <2>1 DEF TermsOf
<1>4. IsFiniteSet(terms)
    <2> DEFINE f == [x \in sel |-> x.entry.term]
    <2>1. IsFiniteSet(sel)
          BY <1>2, FS_Subset DEF Sound
    <2>2. f \in Surjection(sel, TermsOf(sel))
          BY DEF Surjection, TermsOf
    <2> HIDE DEF f, sel
    <2>3. IsFiniteSet(TermsOf(sel))
          BY <2>1, <2>2, FS_Surjection
    <2>4. terms \in SUBSET TermsOf(sel)
          OBVIOUS
    <2> QED  BY <2>3, <2>4, FS_Subset
<1>5. res.status = StatusOf(terms) /\ res.terms = terms
      BY DEF Resolution
<1>6. \/ terms = {}
      \/ Cardinality(terms) = 1 /\ (AllowedTools(terms) = {} \/ tool \in AllowedTools(terms))
    <2>1. Guarded(res, tool, block).action = "proceed"
          OBVIOUS
    <2> HIDE DEF terms, res
    <2>2. res.status # "ambiguous"
          BY <2>1 DEF Guarded, Verdict
    <2>3. terms # {} => Cardinality(terms) = 1 /\ res.status = "resolved"
          BY <1>5, <2>2 DEF StatusOf
    <2>4. terms # {} => AllowedTools(terms) = {} \/ tool \in AllowedTools(terms)
          BY <1>5, <2>1, <2>3 DEF Guarded, Verdict
    <2> QED  BY <2>3, <2>4
<1>7. ASSUME NEW t \in terms
      PROVE  AllowedTools({t}) = {} \/ tool \in AllowedTools({t})
    <2> HIDE DEF terms
    <2>1. \E y : terms = {y}
          BY <1>4, <1>6, <1>7, FS_Singleton
    <2>2. terms = {t}
          BY <2>1
    <2> QED  BY <1>6, <2>2
<1>8. SpanOf(m) \notin AcceptedSpans(spans)
    <2> HIDE DEF terms, spans
    <2> QED  BY <1>3, <1>7
<1>9. SpanOf(m) \in spans
      OBVIOUS
<1>10. PICK s \in spans : /\ s \in AcceptedSpans(spans) /\ Overlap(SpanOf(m), s)
                          /\ SpanLength(s) >= SpanLength(SpanOf(m))
    <2> HIDE DEF spans
    <2> QED  BY <1>1, <1>8, <1>9, AcceptedOrCovered
<1>11. PICK n \in found : s = SpanOf(n)
      OBVIOUS
<1> HIDE DEF spans, terms, sel, res
<1>12. AllowedTools({n.entry.term}) = {} \/ tool \in AllowedTools({n.entry.term})
      BY <1>3, <1>7, <1>10, <1>11
<1>13. n.entry.term # m.entry.term
      BY <1>12
<1> QED  BY <1>8, <1>10, <1>11, <1>12, <1>13 DEF CoveredByLeave

\* What is looked for is of a term of the lexicon, and so is what is found.
GuardInv ==
    /\ \A m \in BOOLEAN : \A e \in entries[m] : e.term \in Ids(lexicon.terms)
    /\ Sound(matches)
    /\ decision # NoDecision =>
          \E block \in BOOLEAN :
             decision.verdicts = [tool \in Tools |->
                                     Guarded(Resolution(call.text, matches), tool, block)]

\* A surface and its variants are of its term.
LEMMA EntryIsOfTerm ==
    ASSUME NEW surface, NEW t, NEW kind, NEW scopes, NEW case, NEW deprecated, NEW reserved,
           NEW f \in EntriesForSurface(surface, t, kind, scopes, case, deprecated, reserved)
    PROVE  f.term = t
BY DEF EntriesForSurface, Entry

\* What a lexicon has to look for is of its terms.
LEMMA EntriesAreOfTerms ==
    ASSUME NEW x, NEW d, NEW e \in EntriesOf(x, d)
    PROVE  e.term \in Ids(x.terms)
<1>1. PICK t \in ToSet(x.terms) : e \in EntriesOfTerm(t, d)
      BY DEF EntriesOf
<1>2. e.term = t.id
    <2> DEFINE canonical == EntriesForSurface(t.fields.canonical, t.id, "canonical", t.lists.scopes,
                                              FALSE, t.fields.deprecated, AliasSurfaces(t.aliases))
               Of(a) == EntriesForSurface(a.id, t.id, "alias",
                                          Fallback(a.lists.scopes, t.lists.scopes),
                                          a.fields.case_sensitive, a.fields.deprecated, {})
    <2>1. e \in canonical \/ \E a : e \in Of(a)
        <3>1. EntriesOfTerm(t, d) = canonical \cup UNION {Of(a) :
                 a \in {b \in ToSet(t.aliases) : d \/ ~b.fields.deprecated}}
              BY DEF EntriesOfTerm
        <3> HIDE DEF canonical, Of
        <3> QED  BY <1>1, <3>1
    <2>2. CASE e \in canonical
        <3> DEFINE no == FALSE
        <3> HIDE DEF no
        <3>1. e \in EntriesForSurface(t.fields.canonical, t.id, "canonical", t.lists.scopes, no,
                                      t.fields.deprecated, AliasSurfaces(t.aliases))
              BY <2>2 DEF no
        <3> QED  BY <3>1, EntryIsOfTerm
    <2>3. CASE \E a : e \in Of(a)
        <3>1. PICK a : e \in Of(a)
              BY <2>3
        <3> QED  BY <3>1, EntryIsOfTerm
    <2> QED  BY <2>1, <2>2, <2>3
<1>3. t.id \in Ids(x.terms)
      BY DEF ToSet, Ids
<1> QED  BY <1>2, <1>3

LEMMA GuardInvInit ==
    ASSUME Init
    PROVE  GuardInv
<1> USE DEF Init, MatcherInit
<1>1. ASSUME NEW m \in BOOLEAN, NEW e \in entries[m]
      PROVE  e.term \in Ids(lexicon.terms)
    <2>1. PICK d \in BOOLEAN : entries = [n \in BOOLEAN |-> {f \in EntriesOf(lexicon, d) :
                                                               f.case_sensitive = n}]
          OBVIOUS
    <2>2. e \in EntriesOf(lexicon, d)
          BY <1>1, <2>1
    <2> QED  BY <2>2, EntriesAreOfTerms
<1>2. Sound(matches)
      BY FS_EmptySet DEF Sound
<1> QED  BY <1>1, <1>2 DEF GuardInv

\* What is found where a character ends is sound.
LEMMA SoundAt ==
    ASSUME NEW C, Readable(C), Located, call.text \in Texts, NEW index \in Nat, NEW ended,
           IsFiniteSet(ended),
           \A e \in ended : e.term \in Ids(lexicon.terms) /\ e.search \in Seq(C) /\ e.search # Root
    PROVE  Sound(MatchesAt(index, ended))
<1> DEFINE text == NormalizedText(call.text)
           normalized == Normalized(call.text)
           Start(e) == index - Len(e.search)
           seen == {d \in ended : /\ Wanted(d, call) /\ Start(d) >= 0 /\ index <= Len(text)
                                  /\ HasTokenBoundaries(text, Start(d), index)}
           M(e) == Match(e, OriginalSpan(normalized, Start(e), index))
<1>1. MatchesAt(index, ended) = {M(e) : e \in seen}
      BY DEF MatchesAt
<1>2. IsFiniteSet(seen)
    <2>1. seen \in SUBSET ended
          OBVIOUS
    <2> HIDE DEF seen
    <2> QED  BY <2>1, FS_Subset
<1>3. IsFiniteSet({M(e) : e \in seen})
    <2> DEFINE f == [e \in seen |-> M(e)]
    <2> HIDE DEF M, seen
    <2>1. f \in Surjection(seen, {M(e) : e \in seen})
          BY DEF Surjection
    <2> HIDE DEF f
    <2> QED  BY <1>2, <2>1, FS_Surjection
<1>4. text \in Seq(C) /\ DOMAIN text = DOMAIN normalized
    <2>1. SearchText(call.text, TRUE) \in Seq(C)
          BY DEF Readable
    <2> QED  BY <2>1 DEF SearchText, NormalizedText
<1>5. ASSUME NEW e \in seen
      PROVE  M(e).entry.term \in Ids(lexicon.terms) /\ M(e).start \in Int /\ M(e).end \in Int
    <2>1. /\ e \in ended /\ Start(e) >= 0 /\ index <= Len(text)
          /\ e.search \in Seq(C) /\ e.search # Root
          OBVIOUS
    <2> HIDE DEF text, seen
    <2>2. Len(e.search) \in Nat \ {0}
          BY <2>1, EmptySeq DEF Root
    <2>3. Start(e) \in Nat /\ Start(e) < index
          BY <2>1, <2>2
    <2>4. Start(e) + 1 \in DOMAIN text /\ index \in DOMAIN text
        <3>1. DOMAIN text = 1..Len(text) /\ Len(text) \in Nat
              BY <1>4
        <3> DEFINE k == Start(e)
        <3>2. k \in Nat /\ k < index /\ index <= Len(text)
              BY <2>1, <2>3
        <3> HIDE DEF k, Start
        <3>3. k + 1 \in DOMAIN text /\ index \in DOMAIN text
              BY <3>1, <3>2
        <3> QED  BY <3>3 DEF k
    <2>5. normalized[Start(e) + 1].at \in Nat /\ normalized[index].at \in Nat
          BY <1>4, <2>4 DEF Located
    <2> DEFINE span == OriginalSpan(normalized, Start(e), index)
    <2>6. span[1] \in Int /\ span[2] \in Int
        <3> HIDE DEF Start, normalized
        <3> QED  BY <2>5 DEF OriginalSpan
    <2> HIDE DEF span
    <2>7. M(e).entry = e /\ M(e).start = span[1] /\ M(e).end = span[2]
          BY DEF Match, span
    <2> QED  BY <2>1, <2>6, <2>7
<1> HIDE DEF M, seen
<1> QED  BY <1>1, <1>3, <1>5 DEF Sound

LEMMA GuardInvInductive ==
    ASSUME NEW C, Readable(C), Located, MatcherInv(C), GuardInv, [Next]_vars
    PROVE  GuardInv'
<1> DEFINE EntriesSound == \A m \in BOOLEAN : \A e \in entries[m] : e.term \in Ids(lexicon.terms)
<1>1. lexicon' = lexicon /\ entries' = entries
      BY DEF Next, Matching, MatcherNext, Plant, Link, FinishLinks, BeginMatch, Scan, FinishScan,
             Guard, Return, vars, matcherVars
<1>2. EntriesSound'
      BY <1>1 DEF GuardInv
<1>3. Sound(matches)'
    <2>1. CASE matches' = matches
          BY <1>1, <2>1 DEF GuardInv, Sound
    <2>2. CASE matches' = {}
          BY <2>2, FS_EmptySet DEF Sound
    <2>3. CASE Scan /\ UNCHANGED decision
        <3> DEFINE read == SubSeq(SearchText(call.text, mode), 1, position + 1)
                   ended == Ending(entries[mode], read)
                   more == MatchesAt(position + 1, ended)
        <3>1. matches' = matches \cup more
              BY <2>3, ScanLooks
        <3>2. /\ mode \in BOOLEAN /\ call.text \in Texts /\ Searches(C, entries[mode])
              /\ position + 1 \in Nat
              BY <2>3 DEF MatcherInv, EntriesInv, ReadInv, Scan
        <3>3. IsFiniteSet(ended)
            <4>1. ended \in SUBSET entries[mode] /\ IsFiniteSet(entries[mode])
                  BY <3>2 DEF Ending, Searches
            <4> HIDE DEF ended
            <4> QED  BY <4>1, FS_Subset
        <3>4. \A e \in ended : /\ e.term \in Ids(lexicon.terms)
                               /\ e.search \in Seq(C) /\ e.search # Root
              BY <3>2 DEF GuardInv, Ending, Searches
        <3> HIDE DEF read, ended
        <3>5. Sound(more)
            <4> DEFINE index == position + 1
            <4>1. index \in Nat
                  BY <3>2
            <4> HIDE DEF index
            <4>2. Sound(MatchesAt(index, ended))
                  BY <3>2, <3>3, <3>4, <4>1, SoundAt
            <4> QED  BY <4>2 DEF index
        <3> HIDE DEF more
        <3>6. IsFiniteSet(matches \cup more)
              BY <3>5, FS_Union DEF Sound, GuardInv
        <3> QED  BY <1>1, <3>1, <3>5, <3>6 DEF Sound, GuardInv
    <2> QED  BY <2>1, <2>2, <2>3
             DEF Next, Matching, MatcherNext, Plant, Link, FinishLinks, BeginMatch, FinishScan,
                 Guard, Return, vars, matcherVars
<1>4. decision' # NoDecision =>
         \E block \in BOOLEAN :
            decision'.verdicts = [tool \in Tools |->
                                     Guarded(Resolution(call.text, matches), tool, block)]'
    <2>1. CASE Guard
        <3>1. PICK block \in BOOLEAN :
                 decision' = [resolution |-> Resolution(call.text, matches),
                              verdicts |-> [tool \in Tools |->
                                  Guarded(Resolution(call.text, matches), tool, block)]]
              BY <2>1 DEF Guard
        <3>2. call' = call /\ matches' = matches /\ lexicon' = lexicon
              BY <2>1 DEF Guard, matcherVars
        <3>3. decision'.verdicts = [tool \in Tools |->
                                       Guarded(Resolution(call.text, matches), tool, block)]
              BY <3>1
        <3>4. \A tool : Guarded(Resolution(call.text, matches), tool, block)' =
                        Guarded(Resolution(call.text, matches), tool, block)
              BY <3>2 DEF Guarded, Resolution, AllowedTools
        <3> QED  BY <3>3, <3>4
    <2>2. CASE Return
          BY <2>2 DEF Return
    <2>3. CASE Matching \/ UNCHANGED vars
        <3>1. decision' = decision
              BY <2>3 DEF Matching, vars
        <3>2. decision # NoDecision => phase = "done"
              BY DEF MatcherInv, ReadInv
        <3>3. phase = "done" => UNCHANGED matcherVars
              BY <2>3 DEF Matching, MatcherNext, Plant, Link, FinishLinks, BeginMatch, Scan,
                          FinishScan, vars
        <3>4. decision # NoDecision => call' = call /\ matches' = matches /\ lexicon' = lexicon
              BY <3>2, <3>3 DEF matcherVars
        <3>5. decision # NoDecision =>
                 \A tool, block : Guarded(Resolution(call.text, matches), tool, block)' =
                                  Guarded(Resolution(call.text, matches), tool, block)
              BY <3>4 DEF Guarded, Resolution, AllowedTools
        <3> SUFFICES ASSUME decision # NoDecision
                     PROVE  \E block \in BOOLEAN :
                               decision'.verdicts = [tool \in Tools |->
                                   Guarded(Resolution(call.text, matches), tool, block)]'
            BY <3>1
        <3>6. PICK block \in BOOLEAN :
                 decision.verdicts = [tool \in Tools |->
                                         Guarded(Resolution(call.text, matches), tool, block)]
              BY DEF GuardInv
        <3> DEFINE Says(tool) == Guarded(Resolution(call.text, matches), tool, block)
        <3>7. \A tool : Says(tool)' = Says(tool)
              BY <3>5
        <3>8. decision'.verdicts = [tool \in Tools |-> Says(tool)]
              BY <3>1, <3>6
        <3>9. [tool \in Tools |-> Says(tool)]' = [tool \in Tools |-> Says(tool)']
              OBVIOUS
        <3> QED  BY <3>7, <3>8, <3>9, Zenon
    <2> QED  BY <2>1, <2>2, <2>3 DEF Next
<1> QED  BY <1>2, <1>3, <1>4 DEF GuardInv

\* Of any lexicon and text: where a tool may proceed though some term the text has forbids
\* it, a longer surface of a term that allows it covers that one: no tool is let through
\* beside a term that forbids it (core/tool_guard.py, guard; core/resolver.py,
\* _select_resolution_matches).
THEOREM ProceedsOnlyWithLeave ==
    ASSUME NEW C, Readable(C), Located
    PROVE  Spec => []GuardProceedsOnlyWithLeave
<1> DEFINE Inv == MatcherInv(C) /\ GuardInv
<1>1. Init => Inv
      BY MatcherInvInit, GuardInvInit
<1>2. Inv /\ [Next]_vars => Inv'
      BY MatcherInvInductive, GuardInvInductive
<1>3. Inv => GuardProceedsOnlyWithLeave
    <2> SUFFICES ASSUME GuardInv, decision # NoDecision, NEW tool \in Tools, NEW m \in matches,
                        decision.verdicts[tool].action = "proceed",
                        AllowedTools({m.entry.term}) # {}, tool \notin AllowedTools({m.entry.term})
                 PROVE  CoveredByLeave(matches, m, tool)
        BY Zenon DEF GuardProceedsOnlyWithLeave, CoveredByLeave
    <2>1. PICK block \in BOOLEAN :
             decision.verdicts = [u \in Tools |->
                                     Guarded(Resolution(call.text, matches), u, block)]
          BY DEF GuardInv
    <2>2. Guarded(Resolution(call.text, matches), tool, block).action = "proceed"
          BY <2>1
    <2>3. Sound(matches)
          BY DEF GuardInv
    <2> QED  BY <2>1, <2>2, <2>3, LeaveOfAnother
<1> HIDE DEF Inv
<1> QED  BY <1>1, <1>2, <1>3, PTL DEF Spec

-----------------------------------------------------------------------------
(* What lint tells of.                                                    *)

\* One span of a text is one span of its normalized form.
LEMMA SpanIsOfOne ==
    ASSUME NEW normalized, NEW n \in Nat, DOMAIN normalized = 1..n,
           \A k \in 1..n : normalized[k].at \in Nat,
           \A k, l \in 1..n : k < l =>
               /\ normalized[k].at <= normalized[l].at
               /\ normalized[k].at = normalized[l].at =>
                      {normalized[k].char, normalized[l].char} \subseteq WordChars,
           NEW i \in 0..n, NEW j \in 0..n, NEW k \in 0..n, NEW l \in 0..n, i < j, k < l,
           \A x \in {i, j, k, l} :
               ~(/\ {x, x + 1} \subseteq 1..n
                 /\ {normalized[x].char, normalized[x + 1].char} \subseteq WordChars),
           OriginalSpan(normalized, i, j) = OriginalSpan(normalized, k, l)
    PROVE  i = k /\ j = l
<1> DEFINE At(x) == normalized[x].at
           C(x) == normalized[x].char \in WordChars
<1>1. normalized # <<>>
      BY 1 \in DOMAIN normalized
<1>2. /\ OriginalSpan(normalized, i, j) = <<At(i + 1) - 1, At(j)>>
      /\ OriginalSpan(normalized, k, l) = <<At(k + 1) - 1, At(l)>>
      BY <1>1 DEF OriginalSpan
<1>3. i + 1 \in 1..n /\ j \in 1..n /\ k + 1 \in 1..n /\ l \in 1..n
      OBVIOUS
<1>4. /\ \A x \in 1..n : At(x) \in Nat
      /\ \A x, y \in 1..n : x < y => At(x) <= At(y) /\ (At(x) = At(y) => C(x) /\ C(y))
      /\ \A x \in {i, j, k, l} : x \in 1..n /\ x + 1 \in 1..n => ~(C(x) /\ C(x + 1))
      OBVIOUS
<1> HIDE DEF At, C
<1>5. At(i + 1) = At(k + 1) /\ At(j) = At(l)
    <2>1. At(i + 1) - 1 = At(k + 1) - 1 /\ At(j) = At(l)
        <3> DEFINE a == At(i + 1) - 1
                   b == At(k + 1) - 1
        <3>1. <<a, At(j)>> = <<b, At(l)>>
              BY <1>2
        <3> HIDE DEF a, b
        <3>2. a = b /\ At(j) = At(l)
              BY <3>1
        <3> QED  BY <3>2 DEF a, b
    <2>2. At(i + 1) \in Nat /\ At(k + 1) \in Nat
          BY <1>3, <1>4
    <2> QED  BY <2>1, <2>2
\* Between two places where no word is cut there is an end of a place of the text.
<1>6. ASSUME NEW x \in {i, j, k, l}, NEW y \in 1..n, NEW z \in 1..n, y <= x, x < z
      PROVE  At(y) # At(z)
    <2>1. x \in 1..n /\ x + 1 \in 1..n /\ x + 1 <= z /\ x < x + 1
          BY <1>6
    <2>2. At(y) <= At(x) /\ At(x) <= At(x + 1) /\ At(x + 1) <= At(z)
        <3>9. \A u, v \in 1..n : u < v => At(u) <= At(v)
              BY <1>4
        <3>1. y = x \/ y < x
              BY <1>6
        <3>2. x + 1 = z \/ x + 1 < z
              BY <1>6, <2>1
        <3>3. At(x) \in Nat /\ At(z) \in Nat
              BY <1>4, <2>1
        <3>4. At(y) <= At(x)
              BY <1>6, <2>1, <3>9, <3>1, <3>3
        <3>5. At(x) <= At(x + 1)
              BY <2>1, <3>9
        <3>6. At(x + 1) <= At(z)
              BY <1>6, <2>1, <3>9, <3>2, <3>3
        <3> QED  BY <3>4, <3>5, <3>6
    <2>3. At(x) # At(x + 1)
          BY <1>4, <2>1
    <2>4. At(x) \in Nat /\ At(y) \in Nat /\ At(z) \in Nat /\ At(x + 1) \in Nat
          BY <1>4, <2>1
    <2> HIDE DEF At
    <2> QED  BY <2>2, <2>3, <2>4
<1>7. i = k
    <2>1. ~(i < k)
          BY <1>3, <1>5, <1>6
    <2>2. ~(k < i)
          BY <1>3, <1>5, <1>6
    <2> QED  BY <2>1, <2>2
<1>8. j = l
    <2>1. ~(j < l)
          BY <1>3, <1>5, <1>6
    <2>2. ~(l < j)
          BY <1>3, <1>5, <1>6
    <2> QED  BY <2>1, <2>2
<1> QED  BY <1>7, <1>8

\* What a matcher looks for is what the linter compares, for the same term in the same
\* scopes.
LEMMA EntryIsRecorded ==
    ASSUME NEW x, NEW d, NEW e \in EntriesOf(x, d)
    PROVE  \E r \in SurfaceRecords(x) :
              /\ e.search \in RuntimeSearchSurfaces(r)
              /\ e.term = r.term.id
              /\ e.scopes = ToSet(r.scopes)
              /\ e.case_sensitive = r.case_sensitive
<1> DEFINE Canonical(t) == [term |-> t, surface |-> t.fields.canonical, scopes |-> t.lists.scopes,
                            case_sensitive |-> FALSE, deprecated |-> t.fields.deprecated]
           OfAlias(t, a) ==
               [term |-> t, surface |-> a.id,
                scopes |-> IF a.lists.scopes = <<>> THEN t.lists.scopes ELSE a.lists.scopes,
                case_sensitive |-> a.fields.case_sensitive,
                deprecated |-> t.fields.deprecated \/ a.fields.deprecated]
<1>1. PICK t \in ToSet(x.terms) : e \in EntriesOfTerm(t, d)
      BY DEF EntriesOf
<1>2. SurfaceRecords(x) = UNION {{Canonical(u)} \cup {OfAlias(u, a) : a \in ToSet(u.aliases)} :
                                    u \in ToSet(x.terms)}
      BY DEF SurfaceRecords
<1> DEFINE canonical == EntriesForSurface(t.fields.canonical, t.id, "canonical", t.lists.scopes,
                                          FALSE, t.fields.deprecated, AliasSurfaces(t.aliases))
           Of(a) == EntriesForSurface(a.id, t.id, "alias",
                                      Fallback(a.lists.scopes, t.lists.scopes),
                                      a.fields.case_sensitive, a.fields.deprecated, {})
<1>3. e \in canonical \/ \E a \in ToSet(t.aliases) : e \in Of(a)
    <2>1. EntriesOfTerm(t, d) = canonical \cup UNION {Of(a) :
             a \in {b \in ToSet(t.aliases) : d \/ ~b.fields.deprecated}}
          BY DEF EntriesOfTerm
    <2> HIDE DEF canonical, Of
    <2> QED  BY <1>1, <2>1
\* The entries of a surface are of its record.
<1>4. ASSUME NEW r, NEW surface, NEW id, NEW kind, NEW scopes, NEW case, NEW deprecated,
             NEW reserved, r.surface = surface, r.term.id = id, r.scopes = scopes,
             r.case_sensitive = case,
             e \in EntriesForSurface(surface, id, kind, scopes, case, deprecated, reserved)
      PROVE  /\ e.search \in RuntimeSearchSurfaces(r)
             /\ e.term = r.term.id
             /\ e.scopes = ToSet(r.scopes)
             /\ e.case_sensitive = r.case_sensitive
    <2> DEFINE variants == IF case THEN {}
                           ELSE {v \in CodeIdentifierVariants(surface) : Lowered(v) \notin reserved}
    <2>1. PICK v \in {surface} \cup variants :
              e = Entry(surface, SearchSurface(v, case), id, kind, ToSet(scopes), case, deprecated)
          BY <1>4 DEF EntriesForSurface
    <2>2. v \in {r.surface} \cup IF r.case_sensitive THEN {} ELSE CodeIdentifierVariants(r.surface)
          BY <1>4, <2>1
    <2>3. SearchSurface(v, case) \in RuntimeSearchSurfaces(r)
          BY <1>4, <2>2 DEF RuntimeSearchSurfaces
    <2> QED  BY <1>4, <2>1, <2>3 DEF Entry
<1>5. CASE e \in canonical
    <2> DEFINE r == Canonical(t)
               no == FALSE
    <2>1. /\ r.surface = t.fields.canonical /\ r.term.id = t.id /\ r.scopes = t.lists.scopes
          /\ r.case_sensitive = no
          OBVIOUS
    <2>2. r \in SurfaceRecords(x)
        <3>1. r \in {Canonical(t)} \cup {OfAlias(t, b) : b \in ToSet(t.aliases)}
              OBVIOUS
        <3> HIDE DEF r, Canonical, OfAlias
        <3> QED  BY <1>1, <1>2, <3>1
    <2> HIDE DEF r, no
    <2>3. e \in EntriesForSurface(t.fields.canonical, t.id, "canonical", t.lists.scopes, no,
                                  t.fields.deprecated, AliasSurfaces(t.aliases))
          BY <1>5 DEF no
    <2>4. /\ e.search \in RuntimeSearchSurfaces(r)
          /\ e.term = r.term.id
          /\ e.scopes = ToSet(r.scopes)
          /\ e.case_sensitive = r.case_sensitive
          BY <1>4, <2>1, <2>3
    <2> QED  BY <2>2, <2>4
<1>6. CASE \E a \in ToSet(t.aliases) : e \in Of(a)
    <2>1. PICK a \in ToSet(t.aliases) : e \in Of(a)
          BY <1>6
    <2> DEFINE r == OfAlias(t, a)
    <2>2. /\ r.surface = a.id /\ r.term.id = t.id
          /\ r.scopes = Fallback(a.lists.scopes, t.lists.scopes)
          /\ r.case_sensitive = a.fields.case_sensitive
          BY DEF Fallback
    <2>3. r \in SurfaceRecords(x)
        <3>1. r \in {Canonical(t)} \cup {OfAlias(t, b) : b \in ToSet(t.aliases)}
              BY <2>1
        <3> HIDE DEF r, Canonical, OfAlias
        <3> QED  BY <1>1, <1>2, <3>1
    <2> HIDE DEF r
    <2>4. /\ e.search \in RuntimeSearchSurfaces(r)
          /\ e.term = r.term.id
          /\ e.scopes = ToSet(r.scopes)
          /\ e.case_sensitive = r.case_sensitive
          BY <1>4, <2>1, <2>2
    <2> QED  BY <2>3, <2>4
<1> QED  BY <1>3, <1>5, <1>6

\* Every record is of a term that has entries.
LEMMA RecordHasEntry ==
    ASSUME NEW x, NEW r \in SurfaceRecords(x), NEW d
    PROVE  \E e \in EntriesOf(x, d) : e.term = r.term.id
<1>1. PICK t \in ToSet(x.terms) : r.term = t
      BY DEF SurfaceRecords
<1> DEFINE no == FALSE
           Here(case) == EntriesForSurface(t.fields.canonical, t.id, "canonical", t.lists.scopes,
                                           case, t.fields.deprecated, AliasSurfaces(t.aliases))
           e == Entry(t.fields.canonical, SearchSurface(t.fields.canonical, no), t.id, "canonical",
                      ToSet(t.lists.scopes), no, t.fields.deprecated)
<1>2. e \in Here(no)
    <2> HIDE DEF no
    <2> QED  BY DEF EntriesForSurface
<1>3. Here(FALSE) \subseteq EntriesOfTerm(t, d)
      BY DEF EntriesOfTerm
<1>4. e.term = t.id
      BY DEF Entry
<1>5. e \in EntriesOf(x, d)
    <2> HIDE DEF e, Here
    <2> QED  BY <1>1, <1>2, <1>3 DEF EntriesOf, no
<1> HIDE DEF e
<1> QED  BY <1>1, <1>4, <1>5

\* The linter tells of two terms for which the same is looked for in the same scopes.
LEMMA LintTells ==
    ASSUME NEW x, NEW d, IsFiniteSet(EntriesOf(x, d)),
           NEW r \in SurfaceRecords(x), NEW q \in SurfaceRecords(x),
           NEW s \in RuntimeSearchSurfaces(r), s \in RuntimeSearchSurfaces(q),
           r.scopes = q.scopes, r.case_sensitive = q.case_sensitive, r.term.id # q.term.id
    PROVE  \E f \in Lint(x) :
              /\ f.code = "normalized_surface_collision"
              /\ {r.term.id, q.term.id} \subseteq f.terms
<1> DEFINE records == SurfaceRecords(x)
           keys == UNION {{<<u, p.scopes, p.case_sensitive>> : u \in RuntimeSearchSurfaces(p)} :
                             p \in records}
           Has(key, p) == /\ key[1] \in RuntimeSearchSurfaces(p)
                          /\ key[2] = p.scopes
                          /\ key[3] = p.case_sensitive
           Owners(key) == {p.term.id : p \in {o \in records : Has(key, o)}}
           key == <<s, r.scopes, r.case_sensitive>>
           f == Finding("normalized_surface_collision", Owners(key), key[1])
<1>1. key \in keys
      OBVIOUS
<1>2. Has(key, r) /\ Has(key, q)
      OBVIOUS
<1>3. Collisions(records) = {Finding("normalized_surface_collision", Owners(k), k[1]) :
                                k \in {l \in keys : Cardinality(Owners(l)) > 1}}
      BY DEF Collisions
<1> HIDE DEF Has
<1>4. r.term.id \in Owners(key) /\ q.term.id \in Owners(key)
      BY <1>2
<1>5. IsFiniteSet(Owners(key))
    <2> DEFINE terms == {e.term : e \in EntriesOf(x, d)}
    <2>1. IsFiniteSet(terms)
        <3> DEFINE g == [e \in EntriesOf(x, d) |-> e.term]
        <3>1. g \in Surjection(EntriesOf(x, d), terms)
              BY DEF Surjection
        <3> HIDE DEF g, terms
        <3> QED  BY <3>1, FS_Surjection
    <2>2. Owners(key) \subseteq terms
          BY RecordHasEntry
    <2> HIDE DEF terms, Owners, key
    <2> QED  BY <2>1, <2>2, FS_Subset
<1> HIDE DEF Owners, key
<1>6. Cardinality(Owners(key)) > 1
    <2> DEFINE one == {r.term.id}
    <2>1. IsFiniteSet(one) /\ Cardinality(one) = 1
          BY FS_Singleton
    <2>2. one \in SUBSET Owners(key) /\ one # Owners(key)
          BY <1>4
    <2> HIDE DEF one
    <2>3. Cardinality(one) <= Cardinality(Owners(key)) /\ Cardinality(one) # Cardinality(Owners(key))
          BY <1>5, <2>2, FS_Subset
    <2>4. Cardinality(Owners(key)) \in Nat
          BY <1>5, FS_CardinalityType
    <2> QED  BY <2>1, <2>3, <2>4
<1>7. f \in Collisions(records)
      BY <1>1, <1>3, <1>6
<1>8. f.code = "normalized_surface_collision" /\ f.terms = Owners(key)
      BY DEF Finding
<1>9. f \in Lint(x)
      BY <1>7 DEF Lint
<1> HIDE DEF f
<1> QED  BY <1>4, <1>8, <1>9

\* Two surfaces, of one kind of case, at one place of a text are the same to look for.
LEMMA OneOccurrence ==
    ASSUME NEW C, Readable(C), Located, Undivided, NEW t \in Texts, NEW e, NEW f,
           e.case_sensitive = f.case_sensitive,
           NEW s \in Occurrences(e, t), NEW u \in Occurrences(f, t),
           s[1] = u[1], s[2] = u[2]
    PROVE  e.search = f.search
<1> DEFINE normalized == Normalized(t)
           chars == NormalizedText(t)
           n == Len(chars)
           Cuts(i) == {i, i + 1} \subseteq DOMAIN chars /\ {chars[i], chars[i + 1]} \subseteq WordChars
           Says(case, i, j) ==
               IF case THEN SubSeq(chars, i + 1, j) ELSE Lowered(SubSeq(chars, i + 1, j))
           Span(i, j) == OriginalSpan(normalized, i, j)
<1>1. ASSUME NEW d, NEW o \in Occurrences(d, t)
      PROVE  \E i, j \in 0..n : /\ i < j /\ Says(d.case_sensitive, i, j) = d.search
                                /\ ~Cuts(i) /\ ~Cuts(j) /\ o = Span(i, j)
    <2>1. Occurrences(d, t) = {Span(p[1], p[2]) : p \in {p \in (0..n) \X (0..n) :
             p[1] < p[2] /\ Says(d.case_sensitive, p[1], p[2]) = d.search
             /\ ~Cuts(p[1]) /\ ~Cuts(p[2])}}
          BY DEF Occurrences
    <2> HIDE DEF Says, Cuts, Span, n
    <2> QED  BY <2>1
<1>2. chars \in Seq(C) /\ DOMAIN normalized = 1..n /\ n \in Nat
      /\ \A k \in 1..n : chars[k] = normalized[k].char
    <2>1. SearchText(t, TRUE) \in Seq(C)
          BY DEF Readable
    <2>2. chars \in Seq(C)
          BY <2>1 DEF SearchText
    <2>3. chars = [k \in DOMAIN normalized |-> normalized[k].char]
          BY DEF NormalizedText
    <2>4. DOMAIN normalized = 1..n
          BY <2>2, <2>3
    <2> QED  BY <2>2, <2>3, <2>4
<1>3. \A k \in 1..n : normalized[k].at \in Nat
      BY <1>2 DEF Located
<1>4. \A k, l \in 1..n : k < l =>
         /\ normalized[k].at <= normalized[l].at
         /\ normalized[k].at = normalized[l].at =>
                {normalized[k].char, normalized[l].char} \subseteq WordChars
      BY <1>2 DEF Undivided
<1>5. PICK i \in 0..n, j \in 0..n : /\ i < j /\ Says(e.case_sensitive, i, j) = e.search
                                    /\ ~Cuts(i) /\ ~Cuts(j) /\ s = Span(i, j)
    <2> HIDE DEF Says, Cuts, Span, n
    <2> QED  BY <1>1
<1>6. PICK k \in 0..n, l \in 0..n : /\ k < l /\ Says(f.case_sensitive, k, l) = f.search
                                    /\ ~Cuts(k) /\ ~Cuts(l) /\ u = Span(k, l)
    <2> HIDE DEF Says, Cuts, Span, n
    <2> QED  BY <1>1
<1>7. Span(i, j) = Span(k, l)
    <2>1. \A a, b : Span(a, b) = <<Span(a, b)[1], Span(a, b)[2]>>
          BY DEF OriginalSpan
    <2> HIDE DEF Span
    <2> QED  BY <1>5, <1>6, <2>1
<1>8. \A x \in 0..n : ~Cuts(x) =>
         ~(/\ {x, x + 1} \subseteq 1..n
           /\ {normalized[x].char, normalized[x + 1].char} \subseteq WordChars)
      BY <1>2
<1>9. i = k /\ j = l
    <2>1. \A x \in {i, j, k, l} :
              ~(/\ {x, x + 1} \subseteq 1..n
                /\ {normalized[x].char, normalized[x + 1].char} \subseteq WordChars)
        <3> HIDE DEF Cuts, n
        <3> QED  BY <1>5, <1>6, <1>8
    <2>2. OriginalSpan(normalized, i, j) = OriginalSpan(normalized, k, l)
          BY <1>7
    <2>3. n \in Nat /\ DOMAIN normalized = 1..n
          BY <1>2
    <2>4. i < j /\ k < l
          BY <1>5, <1>6
    <2> HIDE DEF normalized, n, Cuts, Says, Span
    <2> QED  BY <1>3, <1>4, <2>1, <2>2, <2>3, <2>4, SpanIsOfOne
<1> HIDE DEF Says
<1> QED  BY <1>5, <1>6, <1>9

\* The matcher and the linter are of one lexicon, and what a text is resolved by was found
\* in it.
LintInv ==
    /\ lexicon \in Lexicons
    /\ \E d \in BOOLEAN : \A m \in BOOLEAN : entries[m] \subseteq EntriesOf(lexicon, d)
    /\ decision # NoDecision => decision.resolution.matches \subseteq matches

LEMMA LintInvInit ==
    ASSUME Init
    PROVE  LintInv
<1> USE DEF Init, MatcherInit
<1>1. PICK d \in BOOLEAN : entries = [m \in BOOLEAN |-> {e \in EntriesOf(lexicon, d) :
                                                           e.case_sensitive = m}]
      OBVIOUS
<1>2. \A m \in BOOLEAN : entries[m] \subseteq EntriesOf(lexicon, d)
      BY <1>1
<1> QED  BY <1>2 DEF LintInv

LEMMA LintInvInductive ==
    ASSUME NEW C, MatcherInv(C), LintInv, [Next]_vars
    PROVE  LintInv'
<1>1. lexicon' = lexicon /\ entries' = entries
      BY DEF Next, Matching, MatcherNext, Plant, Link, FinishLinks, BeginMatch, Scan, FinishScan,
             Guard, Return, vars, matcherVars
<1>2. decision' # NoDecision => decision'.resolution.matches \subseteq matches'
    <2>1. CASE Guard
        <3>1. matches' = matches /\ decision'.resolution = Resolution(call.text, matches)
              BY <2>1 DEF Guard, matcherVars
        <3>2. Resolution(call.text, matches).matches \subseteq matches
              BY DEF Resolution, SelectResolutionMatches
        <3> QED  BY <3>1, <3>2
    <2>2. CASE Return
          BY <2>2 DEF Return
    <2>3. CASE Matching \/ UNCHANGED vars
        <3>1. decision' = decision
              BY <2>3 DEF Matching, vars
        <3>2. decision # NoDecision => phase = "done"
              BY DEF MatcherInv, ReadInv
        <3>3. phase = "done" => matches' = matches
              BY <2>3 DEF Matching, MatcherNext, Plant, Link, FinishLinks, BeginMatch, Scan,
                          FinishScan, vars, matcherVars
        <3> QED  BY <3>1, <3>2, <3>3 DEF LintInv
    <2> QED  BY <2>1, <2>2, <2>3 DEF Next
<1> QED  BY <1>1, <1>2 DEF LintInv

\* Of any lexicon whose lists of scopes are in one order, and any text in which lower case
\* changes no length and no character expands into the end of a word: where one place of
\* the text is a surface of two terms in the same scopes, lint has told of the two: what
\* the linter compares is what the matcher looks for (core/linter.py,
\* _find_normalized_surface_collisions; core/matcher.py, _entries_for_surface).
THEOREM LintForetells ==
    ASSUME NEW C, Readable(C), OneToOne, Located, Undivided, ScopesInOrder
    PROVE  Spec => []LintForetellsAmbiguity
<1> DEFINE Inv == MatcherInv(C) /\ LintInv
<1>1. Init => Inv
      BY MatcherInvInit, LintInvInit
<1>2. Inv /\ [Next]_vars => Inv'
      BY MatcherInvInductive, LintInvInductive
<1>3. Inv /\ MatchesAreTheOccurrences => LintForetellsAmbiguity
    <2> SUFFICES ASSUME MatcherInv(C), LintInv, MatchesAreTheOccurrences, decision # NoDecision,
                        NEW m \in decision.resolution.matches,
                        NEW n \in decision.resolution.matches,
                        SpanOf(m) = SpanOf(n), m.entry.term # n.entry.term,
                        m.entry.scopes = n.entry.scopes,
                        m.entry.case_sensitive = n.entry.case_sensitive
                 PROVE  \E f \in Lint(lexicon) :
                           /\ f.code = "normalized_surface_collision"
                           /\ {m.entry.term, n.entry.term} \subseteq f.terms
        BY Zenon DEF LintForetellsAmbiguity
    <2>1. m \in matches /\ n \in matches /\ phase = "done" /\ call.text \in Texts
          BY DEF LintInv, MatcherInv, ReadInv
    <2>2. PICK d \in BOOLEAN : \A c \in BOOLEAN : entries[c] \subseteq EntriesOf(lexicon, d)
          BY DEF LintInv
    <2>3. ASSUME NEW o \in matches
          PROVE  /\ o.entry \in EntriesOf(lexicon, d)
                 /\ \E s \in Occurrences(o.entry, call.text) : o.start = s[1] /\ o.end = s[2]
        <3>1. PICK e \in entries[FALSE] \cup entries[TRUE] :
                  \E s \in Occurrences(e, call.text) : o = Match(e, s)
            <4> DEFINE Of(e) == {Match(e, s) : s \in Occurrences(e, call.text)}
            <4>1. matches = UNION {Of(e) : e \in {c \in entries[FALSE] \cup entries[TRUE] :
                                                     Wanted(c, call)}}
                  BY <2>1 DEF MatchesAreTheOccurrences
            <4> HIDE DEF Of
            <4>2. PICK e \in entries[FALSE] \cup entries[TRUE] : o \in Of(e)
                  BY <4>1
            <4> QED  BY <4>2 DEF Of
        <3>2. o.entry = e /\ \E s \in Occurrences(e, call.text) : o.start = s[1] /\ o.end = s[2]
              BY <3>1 DEF Match
        <3> QED  BY <2>2, <3>1, <3>2
    <2>4. m.entry.search = n.entry.search
        <3>1. PICK s \in Occurrences(m.entry, call.text) : m.start = s[1] /\ m.end = s[2]
              BY <2>1, <2>3
        <3>2. PICK u \in Occurrences(n.entry, call.text) : n.start = u[1] /\ n.end = u[2]
              BY <2>1, <2>3
        <3>3. s[1] = u[1] /\ s[2] = u[2]
              BY <3>1, <3>2 DEF SpanOf
        <3> QED  BY <2>1, <3>3, OneOccurrence
    <2>5. PICK r \in SurfaceRecords(lexicon) :
              /\ m.entry.search \in RuntimeSearchSurfaces(r)
              /\ m.entry.term = r.term.id
              /\ m.entry.scopes = ToSet(r.scopes)
              /\ m.entry.case_sensitive = r.case_sensitive
          BY <2>1, <2>3, EntryIsRecorded
    <2>6. PICK q \in SurfaceRecords(lexicon) :
              /\ n.entry.search \in RuntimeSearchSurfaces(q)
              /\ n.entry.term = q.term.id
              /\ n.entry.scopes = ToSet(q.scopes)
              /\ n.entry.case_sensitive = q.case_sensitive
          BY <2>1, <2>3, EntryIsRecorded
    <2>7. r.scopes = q.scopes
          BY <2>5, <2>6 DEF ScopesInOrder, LintInv
    <2>8. IsFiniteSet(EntriesOf(lexicon, d))
          BY DEF Readable, Searches, LintInv
    <2>9. /\ m.entry.search \in RuntimeSearchSurfaces(q)
          /\ r.case_sensitive = q.case_sensitive
          /\ r.term.id # q.term.id
          BY <2>4, <2>5, <2>6
    <2>10. \E f \in Lint(lexicon) :
              /\ f.code = "normalized_surface_collision"
              /\ {r.term.id, q.term.id} \subseteq f.terms
          BY <2>5, <2>7, <2>8, <2>9, LintTells
    <2> QED  BY <2>5, <2>6, <2>10
<1> HIDE DEF Inv
<1>4. Spec => []MatchesAreTheOccurrences
      BY MatchesAreAll
<1> QED  BY <1>1, <1>2, <1>3, <1>4, PTL DEF Spec
====
