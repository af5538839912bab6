------------------------- MODULE TerminologyReport -------------------------
(***************************************************************************)
(* What is said of the terminology in added lines: the report of           *)
(* scout/git_merge.py, the findings of scout/lint_diff.py, and the         *)
(* baseline of scout/baseline.py that holds back what was there before.    *)
(***************************************************************************)
EXTENDS GitDiff, NearMiss

CONSTANTS
    LowSignal,         \* fragments that say nothing of a project
    ScopeBindings,     \* <<patterns, scopes>> of the project's configuration
    ScannedSuffixes    \* suffixes of files the baseline counts

OpenParenthesis == "("

Unresolved == "unresolved_identifier"

\* The scopes of the first binding that has a pattern for the path, or all.
ScopesForPath(bindings, path) ==
    LET BindingMatches(b) == \E p \in b[1] :
            p = <<Star, Star>> \/ FnMatch(path, p) \/ FnMatch(NameOf(path), p)
        first == SelectInSeq(bindings, BindingMatches)
    IN  IF first = 0 THEN {} ELSE bindings[first][2]

-----------------------------------------------------------------------------
(* The report.                                                             *)

Finding(kind, path, line_number, surface) ==
    [kind |-> kind, path |-> path, line_number |-> line_number, surface |-> surface]

LowSignalSurface(word) ==
    \/ \E f \in ToSet(FragmentsOf[word]) : SizeOf[f] = 1
    \/ ToSet(FragmentsOf[word]) \subseteq LowSignal

\* Wherever it stands it is called.
CallLike(word, text) ==
    \A i \in {j \in DOMAIN text : text[j] = word} :
        i < Len(text) /\ text[i + 1] = OpenParenthesis

ReviewKind(word, text, requested, include_deprecated) ==
    IF Suggestions(word, requested, include_deprecated) # {} THEN "likely_alias"
    ELSE IF LowSignalSurface(word) \/ CallLike(word, text) THEN Unresolved
    ELSE "likely_new_term"

\* A line is read as it is written, whatever it begins with.
KnownFindings(line, requested, include_deprecated) ==
    LET text == line.text.text
        Blocking(o) == Entries[o[1]].deprecated
                       /\ SubSeq(text, o[2], o[3]) # Canonical[Entries[o[1]].term]
    IN  {Finding("deprecated", line.path, line.line_number,
                 <<SubSeq(text, o[2], o[3]), Entries[o[1]].term>>) :
            o \in {p \in Matches(text, requested, include_deprecated) : Blocking(p)}}

UnknownFindings(line, requested, include_deprecated, include_unresolved) ==
    LET text == line.text.text
        unknown == {w \in UnknownIdentifierSurfaces(text) :
                       ~SurfaceIsKnown(w, requested, include_deprecated)}
    IN  {f \in {Finding(ReviewKind(w, text, requested, include_deprecated),
                        line.path, line.line_number, <<<<w>>, w>>) : w \in unknown} :
            include_unresolved \/ f.kind # Unresolved}

\* The report on added lines.  Scopes that are asked for go before the bindings.
Report(lines, bindings, scopes, include_deprecated, include_unresolved) ==
    UNION {LET requested == IF scopes # {} THEN scopes ELSE ScopesForPath(bindings, l.path)
           IN  KnownFindings(l, requested, include_deprecated)
               \cup UnknownFindings(l, requested, include_deprecated, include_unresolved) :
              l \in lines}

\* What a merge is held back for.
HasReviewItems(report) == \E f \in report : f.kind # Unresolved

-----------------------------------------------------------------------------
(* The baseline.                                                           *)

\* A finding is counted by its fragments, its file and its kind.
IssueKey(finding) == <<Fragments(finding.surface[1]), finding.path, finding.kind>>

CountIssues(report) ==
    [key \in {IssueKey(f) : f \in report} |->
        Cardinality({f \in report : IssueKey(f) = key})]

CountOf(counts, key) == IF key \in DOMAIN counts THEN counts[key] ELSE 0

\* Mutant: a key that was there before never grows.
GrowthKeysAreNew(baseline, current) == DOMAIN current \ DOMAIN baseline

GrowthKeys(baseline, current) ==
    {key \in DOMAIN current : current[key] > CountOf(baseline, key)}

InternalFile(path) ==
    \E name \in {<<"lexicon">>, <<Dot, "agent-lexicon">>} :
        IsPrefix(name, path) /\ (Len(path) > Len(name) => path[Len(name) + 1] = Slash)

Scannable(path) == Head(NameOf(path)) # Dot /\ SuffixOf(path) \in ScannedSuffixes

\* The files that are counted: those that are named, or the project's own.
RepositoryFiles(tree, paths) ==
    {p \in IF paths # {} THEN paths ELSE {q \in DOMAIN tree : ~InternalFile(q)} : Scannable(p)}

TreeLines(tree, paths) ==
    UNION {{AddedLine(p, i, tree[p][i]) : i \in DOMAIN tree[p]} : p \in paths}

\* What is counted of a working tree: all of its lines, in no scope.
RepositoryIssues(tree, paths) ==
    Report(TreeLines(tree, RepositoryFiles(tree, paths)), <<>>, {}, TRUE, FALSE)

\* What of a report is not held back.
Filtered(report, baseline, current) ==
    {f \in report : IssueKey(f) \in GrowthKeys(baseline, CountIssues(current))}
=============================================================================
