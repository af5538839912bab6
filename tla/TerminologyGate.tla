--------------------------- MODULE TerminologyGate ---------------------------
(***************************************************************************)
(* The commands that keep terminology from getting worse: lint-diff while  *)
(* a branch is worked on, check-merge before it is merged, and the         *)
(* baseline both hold findings back by (cli.py, scout/baseline.py).  The   *)
(* branch is up to date: what it is merged into is what it began from.     *)
(* Files that do not exist are empty.                                      *)
(***************************************************************************)
EXTENDS TerminologyReport

CONSTANTS
    FileTexts,     \* path -> contents a file may have
    Unterminated,  \* paths of files that do not end their last line
    GitIgnore,     \* lines of .gitignore
    Includes,      \* include globs of the configuration
    Excludes,      \* exclude globs of the configuration
    NoBaseline,
    NoReport

ASSUME TextsAssumption ==
    \A p \in DOMAIN FileTexts : \A text \in FileTexts[p] : \A i \in DOMAIN text :
        ToSet(text[i].text) \subseteq DOMAIN FragmentsOf

VARIABLES
    main,      \* the tree of the branch that is merged into
    head,      \* the tree of the last commit of the branch
    work,      \* the working tree
    baseline,  \* counts of the baseline file, or NoBaseline
    checked,   \* whether the last check-merge of head passed
    report     \* what the last command said, while it is looked at

gateVars == <<main, head, work, baseline, checked, report>>

Paths == DOMAIN FileTexts

Trees == {t \in [Paths -> UNION {FileTexts[p] : p \in Paths}] : \A p \in Paths : t[p] \in FileTexts[p]}

Selected ==
    {p \in Paths : PathSelected(p, Includes, Excludes, GitIgnoreRules(GitIgnore))}

\* The lines a diff of trees adds.
AddedIn(old, new, context) == AddedLines(TreeDiff(old, new, context, Unterminated), Selected)

\* Mutant: what is counted now is what the command itself found.
CurrentIssuesFound(found, tree, paths) == found

\* What is counted now, in the files the command found something in.
CurrentIssues(found, tree, paths) ==
    IF paths = {} THEN {} ELSE RepositoryIssues(tree, paths)

\* The findings that are shown, if there is a baseline those beyond it.
Shown(found, tree, paths) ==
    IF baseline = NoBaseline THEN found
    ELSE Filtered(found, baseline, CurrentIssues(found, tree, paths))

Said(command, from, to, lines, found) ==
    [command |-> command, from |-> from, to |-> to, lines |-> lines, found |-> found]

-----------------------------------------------------------------------------

GateInit ==
    /\ main \in Trees
    /\ head = main
    /\ work = main
    /\ baseline = NoBaseline
    /\ checked = FALSE
    /\ report = NoReport

Rewrite(path) ==
    /\ \E text \in FileTexts[path] \ {work[path]} : work' = [work EXCEPT ![path] = text]
    /\ report' = NoReport
    /\ UNCHANGED <<main, head, baseline, checked>>

Commit ==
    /\ head # work
    /\ head' = work
    /\ checked' = FALSE
    /\ report' = NoReport
    /\ UNCHANGED <<main, work, baseline>>

ReportOn(lines) == Report(lines, ScopeBindings, {}, TRUE, FALSE)

SayLint(lines, found) ==
    report' = Said("lint", head, work, lines, Shown(found, work, {f.path : f \in found}))

LintLines(lines) == SayLint(lines, ReportOn(lines))

\* lint-diff: the working tree against the last commit, as git prints it or as it
\* is piped in, with any context.
LintDiff(context) ==
    /\ report = NoReport
    /\ work # head
    /\ LintLines(AddedIn(head, work, context))
    /\ UNCHANGED <<main, head, work, baseline, checked>>

SayChecked(lines, shown) ==
    /\ report' = Said("check", main, head, lines, shown)
    /\ checked' = (work = head /\ ~HasReviewItems(shown))

CheckLines(lines) == SayChecked(lines, Shown(ReportOn(lines), work, {l.path : l \in lines}))

\* check-merge --fail-on-review, of the branch.  Its baseline counts are of the
\* working tree, which is clean where a merge depends on it.
CheckMerge ==
    /\ report = NoReport
    /\ head # main
    /\ CheckLines(AddedIn(main, head, FALSE))
    /\ UNCHANGED <<main, head, work, baseline>>

Merge ==
    /\ checked
    /\ main' = head
    /\ checked' = FALSE
    /\ report' = NoReport
    /\ UNCHANGED <<head, work, baseline>>

\* baseline create, whether there is a baseline or not.  The baseline is a file of the
\* repository: what was checked before it changed is checked again.
CreateBaseline ==
    /\ baseline' = CountIssues(RepositoryIssues(work, {}))
    /\ baseline' # baseline
    /\ checked' = FALSE
    /\ report' = NoReport
    /\ UNCHANGED <<main, head, work>>

Updated(counts, allow_growth) ==
    /\ allow_growth \/ GrowthKeys(baseline, counts) = {}
    /\ counts # baseline
    /\ baseline' = counts

\* baseline update, which refuses to grow unless it is told to.
UpdateBaseline(allow_growth) ==
    /\ baseline # NoBaseline
    /\ Updated(CountIssues(RepositoryIssues(work, {})), allow_growth)
    /\ checked' = FALSE
    /\ report' = NoReport
    /\ UNCHANGED <<main, head, work>>

GateNext ==
    \/ \E path \in Paths : Rewrite(path)
    \/ Commit
    \/ \E context \in BOOLEAN : LintDiff(context)
    \/ CheckMerge
    \/ Merge
    \/ CreateBaseline
    \/ \E allow_growth \in BOOLEAN : UpdateBaseline(allow_growth)

GateSpec == GateInit /\ [][GateNext]_gateVars

-----------------------------------------------------------------------------
(* Correctness.                                                            *)

\* The lines kept of a file were in the old one, in that order.
WasThere(kept, new, old) ==
    \E at \in [kept -> DOMAIN old] :
        \A i \in kept : new[i] = old[at[i]] /\ \A j \in kept : i < j => at[i] < at[j]

\* What a command calls added is in the new file where it says, and what it does
\* not call added was there before, in that order.
LinesAreWhereTheyWereAdded ==
    report # NoReport =>
        /\ \A l \in report.lines :
              /\ l.line_number \in DOMAIN report.to[l.path]
              /\ report.to[l.path][l.line_number] = l.text
        /\ \A p \in Selected :
              LET numbers == {l.line_number : l \in {m \in report.lines : m.path = p}}
              IN  WasThere((DOMAIN report.to[p]) \ numbers, report.to[p], report.from[p])

\* Of files of such lines it is proved: one that begins with ++ or --, with its sign
\* before it, is read as a header and not as a line.
PlainTexts ==
    /\ IsFiniteSet(Paths) /\ <<>> \notin Paths
    /\ \A p \in Paths : \A text \in FileTexts[p] :
          /\ text \in Seq(ToSet(text))
          /\ \A l \in ToSet(text) :
                /\ l = Line(l.lead, l.text) /\ l.lead \in Seq(ToSet(l.lead))
                /\ ~IsPrefix(<<"+", "+">>, l.lead) /\ ~IsPrefix(<<"-", "-">>, l.lead)

\* All findings of a tree, in the scopes its files are in.
Debt(tree) ==
    CountIssues(ReportOn(TreeLines(tree, Selected)))

GrowsWithin(before, after) ==
    \A key \in DOMAIN after :
        after[key] <= Max({CountOf(before, key), CountOf(baseline, key)})

\* "Future checks can suppress the captured debt while still failing when a file
\* grows new occurrences of the same finding": with a baseline no merge makes a
\* file hold more of a finding than it did and than the baseline counted.
MergesAddNoDebt ==
    [][main' # main /\ baseline # NoBaseline =>
          GrowsWithin(Debt(main), Debt(main'))]_main

\* Deciding by a bound of the likeness loses no suggestion.
SkipsAreLossless ==
    \A p \in Paths : \A i \in DOMAIN work[p] :
        \A w \in UnknownIdentifierSurfaces(work[p][i].text) :
            \A k \in KnownSurfaces({}, TRUE) : ~SkipLoses(w, k)
=============================================================================
