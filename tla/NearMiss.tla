------------------------------ MODULE NearMiss ------------------------------
(***************************************************************************)
(* Which terms an unknown identifier may have meant (scout/near_miss.py).  *)
(* Scores are in ten-thousandths, rounded down where the code rounds.      *)
(***************************************************************************)
EXTENDS Surfaces

CONSTANTS
    EditRatio,        \* <<fragments, fragments>> -> likeness of two surfaces
    QuickRatio,       \* an upper bound of it that costs less
    BroadFragments,
    RelatedFragments, \* fragment -> fragments it is near to
    WeakBridges,      \* fragments that say little when they are all two share
    MaxSuggestions

ASSUME RatioAssumption ==
    \A p \in DOMAIN EditRatio : /\ EditRatio[p] \in Nat /\ QuickRatio[p] \in Nat
                                /\ EditRatio[p] <= QuickRatio[p]

MinConfidence == 4200

\* A surface of a term to compare with.
KnownSurface(entry, surface) == [entry |-> entry, surface |-> surface]

KnownSurfaces(requested, include_deprecated) ==
    UNION {{KnownSurface(e, s) : s \in {Entries[e].surface} \cup VariantsOf[Entries[e].surface]} :
              e \in {d \in DOMAIN Entries : Wanted(Entries[d], requested, include_deprecated)}}

BroadWeight == 55
NarrowWeight == 100

WeightOf(fragments) ==
    BroadWeight * Cardinality(fragments \cap BroadFragments)
    + NarrowWeight * Cardinality(fragments \ BroadFragments)

RelatedMatches(query, target) ==
    {p \in ToSet(query) \X ToSet(target) : p[2] \in RelatedFragments[p[1]]}

\* The shape of a surface is that of its first word with a separator or a hump.
ShapeOf(shapes) ==
    IF \A i \in DOMAIN shapes : shapes[i] = "word"
    THEN IF Len(shapes) > 1 THEN "phrase" ELSE "word"
    ELSE shapes[SelectInSeq(shapes, LAMBDA s : s # "word")]

SurfaceShape(surface) == ShapeOf([i \in DOMAIN surface |-> WordShape[surface[i]]])

SizeSimilarity(sizes, query, target) ==
    (IF sizes[Last(query)] = sizes[Last(target)] THEN 1000 ELSE 0)
    + (IF sizes[Head(query)] = sizes[Head(target)] THEN 1000 ELSE 0)

ShapeSimilarity(query, target, same_shape) ==
    (IF Len(query) = Len(target) THEN 4500 ELSE 0)
    + (IF same_shape THEN 3500 ELSE 0)
    + SizeSimilarity(SizeOf, query, target)

\* What two surfaces of some fragments have in common.
FragmentComparison(query, target, same_shape) ==
    [shared |-> ToSet(query) \cap ToSet(target),
     union |-> ToSet(query) \cup ToSet(target),
     same_prefix |-> Head(query) = Head(target),
     same_suffix |-> Last(query) = Last(target),
     related |-> RelatedMatches(query, target),
     shape |-> ShapeSimilarity(query, target, same_shape),
     edit |-> EditRatio[<<query, target>>],
     quick |-> QuickRatio[<<query, target>>]]

Comparison(word, surface) ==
    FragmentComparison(FragmentsOf[word], Fragments(surface),
                       SurfaceShape(<<word>>) = SurfaceShape(surface))

\* The weighted sum, for a likeness of the spelling.
Confidence(c, edit) ==
    (3400 * WeightOf(c.shared)) \div Max({WeightOf(c.union), 100})
    + (1800 * Cardinality(c.shared)) \div Cardinality(c.union)
    + (24 * edit) \div 100
    + (IF c.same_prefix THEN 800 ELSE 0)
    + (IF c.same_suffix THEN 1000 ELSE 0)
    + (8 * c.shape) \div 100
    + Min({2500, 1250 * Cardinality(c.related)})

WeakBridge(c) ==
    c.related = {} /\ Cardinality(c.shared) = 1 /\ c.shared \subseteq WeakBridges /\ c.edit < 7800

Penalty(c) == IF WeakBridge(c) THEN 1400 ELSE 0

FinalConfidence(c) == Max({0, Min({10000, Confidence(c, c.edit) - Penalty(c)})})

CheapReasons(c) ==
    c.shared # {} \/ c.same_prefix \/ c.same_suffix \/ c.related # {} \/ c.shape >= 6000

\* Mutant: related fragments are left out of the bound.
SkippedUnrelated(c) ==
    \/ ~CheapReasons(c) /\ c.quick < 5800
    \/ Confidence([c EXCEPT !.related = {}], c.quick) < MinConfidence

\* Decided by the bound alone, the spelling not being compared.
Skipped(c) ==
    \/ ~CheapReasons(c) /\ c.quick < 5800
    \/ Confidence(c, c.quick) < MinConfidence

HasReasons(c) == CheapReasons(c) \/ c.edit >= 5800

Suggestion(word, known) ==
    [term |-> Entries[known.entry].term, surface |-> known.surface,
     confidence |-> FinalConfidence(Comparison(word, known.surface))]

Suggestible(c) == HasReasons(c) /\ FinalConfidence(c) >= MinConfidence
SuggestedBy(c) == ~Skipped(c) /\ Suggestible(c)

Suggests(word, known) == SuggestedBy(Comparison(word, known.surface))

Identifiers == {w \in DOMAIN FragmentsOf : IsIdentifier(w)}

\* The words there are have their parts, and identifiers their likeness to surfaces.
ASSUME LikenessAssumption ==
    /\ \A w \in DOMAIN FragmentsOf : FragmentsOf[w] \in Seq(ToSet(FragmentsOf[w]))
    /\ \A k \in KnownSurfaces({}, TRUE) :
          /\ k.surface \in Seq(DOMAIN FragmentsOf)
          /\ \A w \in Identifiers :
                <<FragmentsOf[w], Fragments(k.surface)>> \in DOMAIN EditRatio

\* The surfaces each identifier may have meant.
Similar == [w \in Identifiers |-> {k \in KnownSurfaces({}, TRUE) : Suggests(w, k)}]

\* The terms an identifier may have meant, for each the best it scores.
BestByTerm(found) ==
    [term \in {s.term : s \in found} |-> Max({s.confidence : s \in {t \in found : t.term = term}})]

NearMisses(word, requested, include_deprecated) ==
    BestByTerm({Suggestion(word, k) :
        k \in {n \in Similar[word] : Wanted(Entries[n.entry], requested, include_deprecated)}})

TermBefore(t, u) == \E i \in DOMAIN Entries : Entries[i].term = t
                                                /\ \A j \in 1..i : Entries[j].term # u

\* The best of them, as many as are shown.
BestTerms(scores) ==
    LET Better(u, t) == scores[u] > scores[t] \/ (scores[u] = scores[t] /\ TermBefore(u, t))
    IN  {t \in DOMAIN scores : Cardinality({u \in DOMAIN scores : Better(u, t)}) < MaxSuggestions}

Suggestions(word, requested, include_deprecated) ==
    BestTerms(NearMisses(word, requested, include_deprecated))

\* An identifier skipped by the bound that would have been suggested had the
\* spelling been compared.
LostBySkipping(c) == Skipped(c) /\ Suggestible(c)

SkipLoses(word, known) == LostBySkipping(Comparison(word, known.surface))
=============================================================================
