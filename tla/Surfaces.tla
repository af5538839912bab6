------------------------------ MODULE Surfaces ------------------------------
(***************************************************************************)
(* Terminology in a line of text, word by word (text/identifiers.py,       *)
(* core/matcher.py, scout/near_miss.py).  A surface is a sequence of       *)
(* words, a text one of words and marks; SurfaceMatcher has the same       *)
(* matching character by character.                                        *)
(***************************************************************************)
EXTENDS Integers, Sequences, FiniteSets, SequencesExt, FiniteSetsExt, Folds

CONSTANTS
    FragmentsOf,   \* word -> its parts, folded; a mark has none
    Folded,        \* word or mark -> its lower case
    SizeOf,        \* word, mark or fragment -> its number of characters
    WordShape,     \* word -> how it is put together: "snake", "camel", "word", ...
    VariantsOf,    \* surface of several fragments -> the words code has for it
    Entries,       \* surfaces of the lexicon, by term id and surface
    Canonical,     \* term -> its canonical surface
    MaxSurfaces    \* identifiers of a line that are looked at

\* A surface (its words and their folded form) of a term.
Entry(term, surface, scopes, deprecated) ==
    [term |-> term, surface |-> surface, scopes |-> scopes, deprecated |-> deprecated]

FoldedText(text) == [i \in DOMAIN text |-> Folded[text[i]]]

Fragments(surface) ==
    LET UpTo[n \in 0..Len(surface)] ==
            IF n = 0 THEN <<>> ELSE UpTo[n - 1] \o FragmentsOf[surface[n]]
    IN  UpTo[Len(surface)]

\* Two or more fragments in one word: how identifiers are told from plain words.
IsIdentifier(word) == Len(FragmentsOf[word]) > 1

\* The identifiers of a text in order.  The limit is applied before those that
\* occur twice are dropped.
UnknownIdentifierSurfaces(text) ==
    LET identifiers == {i \in DOMAIN text : IsIdentifier(text[i])}
    IN  {text[i] : i \in {j \in identifiers :
                             Cardinality({k \in identifiers : k < j}) < MaxSurfaces}}

ScopeMatches(scopes, requested) == requested = {} \/ scopes = {} \/ scopes \cap requested # {}

Wanted(entry, requested, include_deprecated) ==
    (include_deprecated \/ ~entry.deprecated) /\ ScopeMatches(entry.scopes, requested)

Written(entry) == {FoldedText(s) : s \in {entry.surface} \cup VariantsOf[entry.surface]}

\* Where an entry, or a variant of it, occurs: <<place in Entries, first word, last word>>.
Occurrences(text, requested, include_deprecated) ==
    {o \in (DOMAIN Entries) \X (DOMAIN text) \X (DOMAIN text) :
        /\ o[2] <= o[3]
        /\ Wanted(Entries[o[1]], requested, include_deprecated)
        /\ SubSeq(FoldedText(text), o[2], o[3]) \in Written(Entries[o[1]])}

OccurrenceLength(text, o) ==
    FoldSet(LAMBDA i, sum : SizeOf[text[i]] + 1 + sum, 0, o[2]..o[3])

\* Longer ones come first, then earlier ones, then by term and surface.
OccurrenceBefore(text, o, p) ==
    LET lo == OccurrenceLength(text, o)
        lp == OccurrenceLength(text, p)
    IN  \/ lo > lp
        \/ lo = lp /\ o[2] < p[2]
        \/ lo = lp /\ o[2] = p[2] /\ o[1] < p[1]

\* Those that do not overlap one that comes before: also of one place one is kept.
LongestNonOverlapping(text, found) ==
    FoldLeft(LAMBDA kept, o : IF \E p \in kept : o[2] <= p[3] /\ p[2] <= o[3] THEN kept
                              ELSE kept \cup {o},
             {}, SetToSortSeq(found, LAMBDA o, p : OccurrenceBefore(text, o, p)))

Matches(text, requested, include_deprecated) ==
    LongestNonOverlapping(text, Occurrences(text, requested, include_deprecated))

SurfaceIsKnown(word, requested, include_deprecated) ==
    Occurrences(<<word>>, requested, include_deprecated) # {}
=============================================================================
