--------------------------- MODULE ScoutCandidates ---------------------------
(***************************************************************************)
(* Candidates for terminology in the documents of a scan: what is said on  *)
(* their lines (scout/candidates.py) and how much a reviewer should care   *)
(* (scout/quality.py, scout/oov.py).  A surface is a sequence of words, a  *)
(* normalized one of folded words.  Scores are in ten-thousandths.         *)
(***************************************************************************)
EXTENDS Surfaces, LineContext, PathRules

CONSTANTS
    WordsOf,          \* word -> the folded words it is made of, separators apart
    RootOf,           \* word -> the folded name before its first dot
    Digital,          \* words with a digit
    Markup,           \* words that are places, measures, hosts or abbreviations
    BackgroundTerms,
    DomainHints,
    DocArtifacts,
    BoilerplateMinDocuments,
    MinScore,
    MaxCandidates,
    MaxOccurrences,
    PathOrder         \* paths in the order they are read

Backquote == "backquote"

\* min(1, log(1 + n) / log(11)).
OccurrenceScores == <<2891, 4582, 5781, 6712, 7472, 8115, 8672, 9163, 9603, 10000>>

SizeOfText(text) == FoldSeq(LAMBDA t, sum : SizeOf[t] + 1 + sum, 0, text)

Clamped(score) == Max({0, Min({10000, score})})

-----------------------------------------------------------------------------
(* Lines that are not looked at.                                           *)

\* Lines that are the same in many documents: licenses, notices.
BoilerplateLines(documents) ==
    LET lines == UNION {ToSet(d.lines) : d \in documents}
        HoldersOf(line) == {d \in documents : line \in ToSet(d.lines)}
        share == (Cardinality(documents) + 3) \div 4
    IN  IF Cardinality(documents) <= BoilerplateMinDocuments THEN {}
        ELSE {l \in lines : /\ SizeOfText(l) > 12
                            /\ Cardinality(HoldersOf(l)) >= Max({BoilerplateMinDocuments, share})}

IsFromImport(line) == Len(line) >= 4 /\ line[1] = "from" /\ line[3] = "import"

IsImportLine(line) ==
    \/ IsFromImport(line)
    \/ Len(line) >= 2 /\ line[1] = "import"
    \/ Starts(line, {"const", "let", "var"}) /\ Has(line, "require")

IsOptionLine(line) == Starts(line, {":"})

\* The folded names of the directories and files that were read.
InternalRoots(documents) ==
    UNION {{IF Dot \in ToSet(part) THEN SubSeq(part, 1, CHOOSE i \in DOMAIN part :
                  part[i] = Dot /\ \A j \in i + 1..Len(part) : part[j] # Dot) ELSE Append(part, Dot) :
               part \in Parts(d.path)} : d \in documents}

\* What "x as y" binds.
BoundNames(names) ==
    {names[i] : i \in {j \in DOMAIN names :
        /\ j = 1 \/ names[j - 1] \in {",", "as"}
        /\ j < Len(names) => names[j + 1] # "as"}} \ {"*", "(", ")"}

\* The names that imports of other projects bind.
ImportedNames(line, internal) ==
    IF IsFromImport(line)
    THEN IF <<RootOf[line[2]], Dot>> \in internal THEN {}
         ELSE {RootOf[line[2]]} \cup {Folded[n] : n \in BoundNames(SubSeq(line, 4, Len(line)))}
    ELSE IF Len(line) >= 2 /\ line[1] = "import"
         THEN {RootOf[n] : n \in BoundNames(Tail(line))}
    ELSE {}

ExternalRoots(documents) ==
    LET internal == InternalRoots(documents)
        lines == UNION {ToSet(d.lines) : d \in documents}
    IN  {n \in UNION {ImportedNames(l, internal) : l \in lines} : <<n, Dot>> \notin internal}

-----------------------------------------------------------------------------
(* The surfaces of a line.                                                 *)

Found(surface, kind) == [surface |-> surface, kind |-> kind]

KindOf(surface) ==
    LET shapes == {WordShape[w] : w \in ToSet(surface)}
    IN  IF Len(surface) = 1 /\ shapes = {"upper"} THEN "acronym"
        ELSE IF shapes \ {"word", "upper"} # {} THEN "identifier" ELSE "code"

\* The words between one backquote and the next, the two being a pair.
Quoted(line) ==
    LET marks == {i \in DOMAIN line : line[i] = Backquote}
        Nth(i) == Cardinality({j \in marks : j <= i})
        pairs == {p \in marks \X marks : Nth(p[1]) % 2 = 1 /\ Nth(p[2]) = Nth(p[1]) + 1}
    IN  {SubSeq(line, p[1] + 1, p[2] - 1) : p \in pairs} \ {<<>>}

CodeWords(line) == {<<line[i]>> : i \in {j \in DOMAIN line : WordShape[line[j]] \notin {"word", "mark"}}}

PromisingPhrase(words) ==
    LET background == Cardinality({i \in DOMAIN words : words[i] \in BackgroundTerms})
    IN  /\ \A i \in DOMAIN words : SizeOf[words[i]] >= 3
        /\ Head(words) \notin BackgroundTerms /\ Last(words) \notin BackgroundTerms
        /\ background < Len(words)
        /\ \/ \E i \in DOMAIN words : words[i] \in DomainHints
           \/ background <= 1 /\ \E i \in DOMAIN words : SizeOf[words[i]] >= 7

\* Two or three words in a row, whatever marks stand between them.
Phrases(line) ==
    LET words == FlattenSeq([i \in DOMAIN line |-> WordsOf[line[i]]])
        phrases == UNION {{SubSeq(words, i, i + n - 1) : i \in 1..Len(words) - n + 1} : n \in {2, 3}}
    IN  {p \in phrases : PromisingPhrase(p)}

\* The surfaces of a line by their normalized form; code goes before phrases.
ExtractedSurfaces(line) ==
    LET code == Quoted(line) \cup CodeWords(line)
        folded == {FoldedText(s) : s \in code}
    IN  [n \in folded \cup Phrases(line) |->
            IF n \in folded
            THEN LET s == CHOOSE t \in code : FoldedText(t) = n IN Found(s, KindOf(s))
            ELSE Found(n, "phrase")]

SurfaceTokens(normalized) == FlattenSeq([i \in DOMAIN normalized |-> WordsOf[normalized[i]]])

Rejectable(surface, normalized) ==
    LET tokens == SurfaceTokens(normalized)
    IN  \/ SizeOfText(surface) - 1 < 3 \/ SizeOfText(surface) - 1 > 80
        \/ Len(normalized) = 1 /\ Head(normalized) \in BackgroundTerms \cup DocArtifacts
        \/ ToSet(surface) \cap Markup # {}
        \/ tokens = <<>> \/ Len(tokens) > 6
        \/ Len(tokens) = 1 /\ Head(tokens) \in BackgroundTerms

HasExternalRoot(surface, external) == Len(surface) = 1 /\ RootOf[Head(surface)] \in external

-----------------------------------------------------------------------------
(* Candidates.                                                             *)

Occurrence(path, line_number, context, found) ==
    [path |-> path, line_number |-> line_number, context |-> context, found |-> found]

\* Mutant: lines are counted after the empty ones are dropped.
LineNumberOfText(lines, i) == Cardinality({j \in 1..i : lines[j] # <<>>})

LineNumber(lines, i) == i

Taken(normalized, found, known, external) ==
    /\ normalized \notin known
    /\ ~Rejectable(found.surface, normalized)
    /\ ~HasExternalRoot(found.surface, external)

\* The lines of a document that are looked at.
LinesRead(lines, boilerplate) ==
    {i \in DOMAIN lines : /\ lines[i] # <<>> /\ lines[i] \notin boilerplate
                          /\ ~IsOptionLine(lines[i]) /\ ~IsImportLine(lines[i])}

\* The occurrences of the surfaces of a line, by normalized surface.
OccurrencesOf(surfaces, d, i, known, external) ==
    {<<n, Occurrence(d.path, LineNumber(d.lines, i), Contexts(d)[i], surfaces[n])>> :
        n \in {m \in DOMAIN surfaces : Taken(m, surfaces[m], known, external)}}

OccurrencesIn(documents, known) ==
    LET boilerplate == BoilerplateLines(documents)
        external == ExternalRoots(documents)
    IN  UNION {UNION {OccurrencesOf(ExtractedSurfaces(d.lines[i]), d, i, known, external) :
                         i \in LinesRead(d.lines, boilerplate)} : d \in documents}

ContextAdjustment(contexts) ==
    IF contexts \cap ProseContexts # {} /\ "code" \in contexts THEN 600
    ELSE IF contexts \subseteq WeakContexts THEN -500 ELSE 0

HasSeparator(surface) == \E w \in ToSet(surface) : WordShape[w] \in {"snake", "kebab", "dotted", "path"}

HasHump(surface) == \E w \in ToSet(surface) : WordShape[w] = "camel"

CodeKinds == {"identifier", "acronym", "code"}

\* Ten-thousandths of the tokens that are background terms.
BackgroundShare(tokens) ==
    (10000 * Len(SelectSeq(tokens, LAMBDA t : t \in BackgroundTerms))) \div Max({Len(tokens), 1})

Jargon(surface, tokens, kind) ==
    Clamped(1800 + (IF kind \in CodeKinds THEN 4200 ELSE 0)
            + (IF kind = "acronym" THEN 2000 ELSE 0)
            + (IF HasSeparator(surface) THEN 1800 ELSE 0)
            + (IF HasHump(surface) THEN 1800 ELSE 0)
            + (IF ToSet(surface) \cap Digital # {} THEN 1000 ELSE 0)
            + (IF ToSet(tokens) \cap DomainHints # {} THEN 2200 ELSE 0)
            + (IF Len(tokens) >= 2 THEN 1600 ELSE 0)
            + (10000 - BackgroundShare(tokens)) \div 5)

BackgroundPenalty(tokens, kind) ==
    Clamped((IF kind \in {"identifier", "acronym"} THEN 200 ELSE 600)
            + (3 * BackgroundShare(tokens)) \div 10
            + (IF Len(tokens) = 1 /\ Head(tokens) \notin DomainHints /\ kind = "phrase"
               THEN 2000 ELSE 0))

Place(path) == CHOOSE i \in DOMAIN PathOrder : PathOrder[i] = path

\* Documents are read by path, and from their first line to the last.
ReadBefore(o, p) ==
    Place(o.path) < Place(p.path) \/ (o.path = p.path /\ o.line_number < p.line_number)

\* The first of them, as many as are kept.
FirstOccurrences(occurrences, limit) ==
    {o \in occurrences : Cardinality({p \in occurrences : ReadBefore(p, o)}) < limit}

\* The candidate of the occurrences of a surface; its form and kind are the first's.
ScoredByTokens(normalized, tokens, occurrences, total) ==
    LET first == (CHOOSE o \in occurrences : \A p \in occurrences : ~ReadBefore(p, o)).found
        count == Cardinality(occurrences)
        holders == Cardinality({o.path : o \in occurrences})
        jargon == Jargon(first.surface, tokens, first.kind)
        background == BackgroundPenalty(tokens, first.kind)
    IN  [surface |-> first.surface, normalized |-> normalized, kind |-> first.kind,
         jargon |-> jargon, background |-> background,
         score |-> Clamped((42 * jargon) \div 100 + (24 * OccurrenceScores[Min({count, 10})]) \div 100
                           + (2000 * holders) \div Max({total, 1})
                           + (1400 * Min({Len(tokens), 3})) \div 3 - background
                           + ContextAdjustment({o.context : o \in occurrences})),
         count |-> count, documents |-> holders, important |-> FALSE,
         occurrences |-> FirstOccurrences(occurrences, MaxOccurrences)]

Scored(normalized, occurrences, total) ==
    ScoredByTokens(normalized, SurfaceTokens(normalized), occurrences, total)

-----------------------------------------------------------------------------
(* Quality.                                                                *)

OovProxy(surface) ==
    LET humps == Cardinality({w \in ToSet(surface) : WordShape[w] = "camel"})
        separators == FoldSeq(LAMBDA w, sum : sum + (IF HasSeparator(<<w>>)
                                                     THEN Len(WordsOf[w]) - 1 ELSE 0), 0, surface)
        acronym == IF \E w \in ToSet(surface) : WordShape[w] = "upper" THEN 1 ELSE 0
    IN  Clamped((5800 * Min({Len(Fragments(surface)) - 1, 4})) \div 4
                + (3400 * Min({separators + humps + acronym, 4})) \div 4
                + (IF ToSet(surface) \cap Digital # {} THEN 875 ELSE 0))

ShapeScore(surface, kind) ==
    Clamped((IF kind \in CodeKinds THEN 3600 ELSE 0)
            + (IF HasSeparator(surface) THEN 2600 ELSE 0)
            + (IF HasHump(surface) THEN 2200 ELSE 0)
            + (IF kind = "acronym" THEN 2600 ELSE 0)
            + (IF ToSet(surface) \cap Digital # {} THEN 1400 ELSE 0)
            + (IF kind = "acronym" /\ SizeOfText(surface) <= 5 THEN 1400 ELSE 0))

\* Surfaces of the same fragments, in one form or another.
ClusterOf(candidates, c) == {d \in candidates : Fragments(d.surface) = Fragments(c.surface)}

SurfaceRisk(oov, shape, cluster_size) ==
    Clamped((46 * oov) \div 100 + (24 * shape) \div 100 + (1400 * Min({cluster_size, 3})) \div 3)

PriorityOf(candidates, c, shape, oov) ==
    Clamped((30 * c.score) \div 100 + (22 * c.jargon) \div 100 + (18 * oov) \div 100
            + (12 * SurfaceRisk(oov, shape, Cardinality(ClusterOf(candidates, c)))) \div 100
            + (800 * Min({c.documents, 3})) \div 3 + (600 * Min({c.count, 5})) \div 5
            - c.background \div 10)

PriorityByShape(candidates, c, shape) ==
    PriorityOf(candidates, c, shape, Max({OovProxy(c.surface), (92 * shape) \div 100}))

PriorityScore(candidates, c) ==
    PriorityByShape(candidates, c, ShapeScore(c.surface, c.kind))

Important(candidates, c) == PriorityScore(candidates, c) >= 5500

\* The candidates of a scan, the best of them where there are too many.
AllScored(found, total) ==
    {Scored(n, {f[2] : f \in {g \in found : g[1] = n}}, total) : n \in {f[1] : f \in found}}

Enough(scored) == {c \in scored : c.score >= MinScore}

Best(enough) == {c \in enough : Cardinality({d \in enough : d.score > c.score}) < MaxCandidates}

Rated(kept) == {[c EXCEPT !.important = Important(kept, c)] : c \in kept}

DiscoveredCandidates(documents, known) ==
    Rated(Best(Enough(AllScored(OccurrencesIn(documents, known), Cardinality(documents)))))
=============================================================================
