---------------------------- MODULE ScoutEvidence ----------------------------
(***************************************************************************)
(* Evidence for a candidate (scout/evidence.py): where it is used, and     *)
(* lines with some of its words that do not use it.                        *)
(***************************************************************************)
EXTENDS ScoutCandidates

CONSTANTS ContextLines, MaxPositive, MaxNegative

Snippet(path, center, start_line, end_line) ==
    [path |-> path, center |-> center, start_line |-> start_line, end_line |-> end_line]

\* The lines around a line of a document.
SnippetOf(document, center_line) ==
    LET count == Len(document.lines)
        center == Max({1, Min({center_line, count})})
    IN  Snippet(document.path, center, Max({1, center - ContextLines}),
                Min({count, center + ContextLines}))

SameRange(s, t) == s.path = t.path /\ s.start_line = t.start_line /\ s.end_line = t.end_line

ShownBefore(s, t) == Place(s.path) < Place(t.path) \/ (s.path = t.path /\ s.center < t.center)

\* The first of them, as many as are shown; of one range the first is kept.
FirstSnippets(snippets, limit) ==
    LET kept == {s \in snippets : ~\E t \in snippets : SameRange(s, t) /\ ShownBefore(t, s)}
    IN  {s \in kept : Cardinality({t \in kept : ShownBefore(t, s)}) < limit}

\* An occurrence in a document that is not at hand is a snippet of its own.
PositiveSnippets(candidate, documents) ==
    LET Around(o) ==
            LET held == {d \in documents : d.path = o.path}
            IN  IF held = {} THEN Snippet(o.path, o.line_number, o.line_number, o.line_number)
                ELSE SnippetOf(CHOOSE d \in held : TRUE, o.line_number)
    IN  FirstSnippets({Around(o) : o \in candidate.occurrences}, MaxPositive)

\* Parts of three characters or more.
OverlapTokens(text) == SelectSeq(Fragments(text), LAMBDA f : SizeOf[f] >= 3)

NegativeOverlap(tokens, overlap) ==
    /\ overlap # <<>>
    /\ IF Len(tokens) = 1 THEN SizeOf[Head(overlap)] >= 4
       ELSE Len(overlap) >= Max({1, Min({2, Len(tokens) - 1})})

Holds(text, surface) ==
    \E i \in 1..Len(text) - Len(surface) + 1 :
        SubSeq(FoldedText(text), i, i + Len(surface) - 1) = FoldedText(surface)

\* The lines a negative snippet may be about, document by document.
NegativeLines(candidate, documents, positive) ==
    LET tokens == OverlapTokens(candidate.surface)
        Covered(path, i) == \E s \in positive :
                               s.path = path /\ i \in s.start_line..s.end_line
        Partial(line) == NegativeOverlap(tokens, SelectSeq(tokens, LAMBDA t :
                                                     t \in ToSet(OverlapTokens(line))))
    IN  UNION {{<<d, i>> : i \in {j \in DOMAIN d.lines : /\ ~Covered(d.path, j)
                                                         /\ ~Holds(d.lines[j], candidate.surface)
                                                         /\ Partial(d.lines[j])}} : d \in documents}

NegativeSnippets(candidate, documents, positive) ==
    FirstSnippets({SnippetOf(p[1], p[2]) : p \in NegativeLines(candidate, documents, positive)},
                  MaxNegative)

EvidencePack(candidate, documents) ==
    LET positive == PositiveSnippets(candidate, documents)
    IN  [normalized |-> candidate.normalized, surface |-> candidate.surface,
         score |-> candidate.score, positive |-> positive,
         negative |-> NegativeSnippets(candidate, documents, positive)]

EvidencePacks(documents, candidates) == {EvidencePack(c, documents) : c \in candidates}
=============================================================================
