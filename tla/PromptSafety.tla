---------------------------- MODULE PromptSafety ----------------------------
(***************************************************************************)
(* What stands in evidence that reads like an instruction                  *)
(* (safety/prompt_injection.py, and the screening of evidence packs in     *)
(* scout/evidence.py).  A text is a sequence of characters, LineEnd among  *)
(* them.                                                                   *)
(***************************************************************************)
EXTENDS TextNormalization

CONSTANTS
    LineEnd,
    Controls,     \* characters below the blank other than tab and line ends
    Escapes,      \* character -> how a prompt writes it, where that differs
    Label,        \* stands for a line that the prompt adds
    Ellipsis,
    MaxRendered,  \* characters of a rendered evidence pack
    SafetyRules   \* sequence of [risk, words]: per word, its alternatives

NoReport == [high |-> 0, medium |-> 0, low |-> 0, screened |-> FALSE]

-----------------------------------------------------------------------------
(* The scan of a text.                                                     *)

LinesOf(text) ==
    LET ends == SelectSeq([i \in DOMAIN text |-> i], LAMBDA i : text[i] = LineEnd)
               \o <<Len(text) + 1>>
        First(k) == IF k = 1 THEN 1 ELSE ends[k - 1] + 1
    IN  [k \in DOMAIN ends |-> SubSeq(text, First(k), ends[k] - 1)]

IsWord(view, i) == i \in DOMAIN view /\ view[i] \in WordChars
Boundary(view, i) == IsWord(view, i - 1) # IsWord(view, i)

AfterWord(view, i, words) ==
    {i + Len(w) : w \in {v \in words : /\ i + Len(v) - 1 <= Len(view)
                                        /\ SubSeq(view, i, i + Len(v) - 1) = v}}

AfterBlanks(view, i) ==
    {j \in (i + 1)..Len(view) : \A k \in i..(j - 1) : view[k] = Blank}

\* Where a match of the words that begins at i may end.
EndsOfMatch(view, i, words) ==
    LET After(ends, k) ==
            LET starts == IF k = 1 THEN ends ELSE UNION {AfterBlanks(view, j) : j \in ends}
            IN  UNION {AfterWord(view, j, words[k]) : j \in starts}
    IN  {j \in FoldLeft(After, {i}, [k \in DOMAIN words |-> k]) : Boundary(view, j)}

Matches(view, rule) ==
    UNION {{i} \X EndsOfMatch(view, i, rule.words) : i \in {j \in DOMAIN view : Boundary(view, j)}}

\* A finding is of a rule, in a line, of a text: found in two views, it is one.
\* "line" gives the line of every place of the view.
FindingsOf(view, line) ==
    UNION {{[rule |-> r, line |-> line[m[1]], text |-> SubSeq(view, m[1], m[2] - 1)] :
               m \in Matches(view, SafetyRules[r])} : r \in DOMAIN SafetyRules}

FindingsOfLines(lines) ==
    UNION {FindingsOf(lines[k], [i \in DOMAIN lines[k] |-> k]) : k \in DOMAIN lines}

NormalizedLines(lines) == [k \in DOMAIN lines |-> NormalizedText(lines[k])]

JoinedWindow(lines) ==
    FoldLeft(LAMBDA text, k : IF k = 1 THEN lines[k] ELSE text \o <<Blank>> \o lines[k],
             <<>>, [k \in DOMAIN lines |-> k])

\* The line that each place in the joined window belongs to.
JoinedLineNumbers(lines) ==
    [at \in DOMAIN JoinedWindow(lines) |->
        Min({k \in DOMAIN lines : at <= Len(JoinedWindow(SubSeq(lines, 1, k)))})]

\* Every line as it is and normalized, and all normalized lines as one.
ScanViews(lines, normalized) ==
    FindingsOfLines(lines) \cup FindingsOfLines(normalized)
    \cup FindingsOf(JoinedWindow(normalized), JoinedLineNumbers(normalized))

ScanPromptInjectionLines(lines) == ScanViews(lines, NormalizedLines(lines))

\* Mutant: lines are scanned one by one only.
ScanLineByLine(text) ==
    FindingsOfLines(LinesOf(text)) \cup FindingsOfLines(NormalizedLines(LinesOf(text)))

ScanPromptInjectionText(text) == ScanPromptInjectionLines(LinesOf(text))

CountOf(findings, risk) == Cardinality({f \in findings : SafetyRules[f.rule].risk = risk})

SafetyReport(findings) ==
    [high |-> CountOf(findings, "high"), medium |-> CountOf(findings, "medium"),
     low |-> CountOf(findings, "low"), screened |-> TRUE]

HighestRisk(report) ==
    IF report.high > 0 THEN "high"
    ELSE IF report.medium > 0 THEN "medium"
    ELSE IF report.low > 0 THEN "low" ELSE "none"

SafetyAction(risk) ==
    IF risk = "high" THEN "block_llm_review" ELSE IF risk = "medium" THEN "review" ELSE "allow"

SafeForLlmReview(report) == SafetyAction(HighestRisk(report)) # "block_llm_review"

-----------------------------------------------------------------------------
(* Evidence packs: snippets, and what was found in them if they were       *)
(* screened when they were built.                                          *)

SnippetReports(snippets) ==
    [k \in DOMAIN snippets |-> SafetyReport(ScanPromptInjectionText(snippets[k].text))]

Plus(report, other) ==
    [high |-> report.high + other.high, medium |-> report.medium + other.medium,
     low |-> report.low + other.low, screened |-> TRUE]

PromptSafetySummary(snippets) == FoldLeft(Plus, SafetyReport({}), SnippetReports(snippets))

ScreenedPack(snippets) == [snippets |-> snippets, safety |-> PromptSafetySummary(snippets)]
PlainPack(snippets) == [snippets |-> snippets, safety |-> NoReport]

OfKind(pack, kind) == SelectSeq(pack.snippets, LAMBDA s : s.kind = kind)

-----------------------------------------------------------------------------
(* What a language model would be shown.                                   *)

SanitizeText(text) ==
    Cased(Escapes, SelectSeq(text, LAMBDA c : c \notin Controls))

CutTo(text, max) ==
    IF Len(text) <= max THEN text ELSE SubSeq(text, 1, max - 1) \o <<Ellipsis>>

\* Five lines of introduction, then each snippet between lines of its own.
FormatEvidencePack(pack, max) ==
    LET snippets == OfKind(pack, "positive") \o OfKind(pack, "negative")
        Block(s) == <<Label, LineEnd, Label, LineEnd>> \o SanitizeText(s.text)
                    \o <<LineEnd, Label, LineEnd>>
    IN  CutTo(<<Label, LineEnd>> \o FlattenSeq([k \in DOMAIN snippets |-> Block(snippets[k])]), max)
=============================================================================
