------------------------------ MODULE ToolGuard ------------------------------
(***************************************************************************)
(* From the matches in a text to what an agent is told: the resolution of  *)
(* the text (core/resolver.py) and the guard of a tool call                *)
(* (core/tool_guard.py).  A guard keeps its lexicon and its matcher, and   *)
(* serves one call after another.                                          *)
(***************************************************************************)
EXTENDS SurfaceMatcher, LexiconLinter

CONSTANTS
    Tools,
    NoDecision

VARIABLE decision   \* what the guard says of every tool

vars == <<matcherVars, decision>>

-----------------------------------------------------------------------------
(* Resolution.                                                             *)

SpanOf(m) == <<m.start, m.end>>
SpanLength(span) == span[2] - span[1]

\* Longer spans come before shorter ones, then earlier before later ones.
Before(s, t) ==
    \/ SpanLength(s) > SpanLength(t)
    \/ SpanLength(s) = SpanLength(t) /\ s[1] < t[1]

Overlap(s, t) == s[1] < t[2] /\ t[1] < s[2]

\* A span is accepted unless one that comes before it, and is accepted, overlaps.
AcceptedSpans(spans) ==
    LET Accepted[s \in spans] ==
            \A t \in spans : Before(t, s) /\ Overlap(s, t) => ~Accepted[t]
    IN  {s \in spans : Accepted[s]}

\* Mutant: of the matches of one span, one is kept.
SelectResolutionMatchesOnce(found) ==
    LET accepted == AcceptedSpans({SpanOf(m) : m \in found})
    IN  {CHOOSE m \in found : SpanOf(m) = s : s \in accepted}

\* All matches of an accepted span are kept: the text says one of them.
SelectResolutionMatches(found) ==
    LET accepted == AcceptedSpans({SpanOf(m) : m \in found})
    IN  {m \in found : SpanOf(m) \in accepted}

TermsOf(found) == {m.entry.term : m \in found}

StatusOf(terms) ==
    IF terms = {} THEN "unknown"
    ELSE IF Cardinality(terms) = 1 THEN "resolved" ELSE "ambiguous"

Resolution(text, found) ==
    LET selected == SelectResolutionMatches(found)
        terms == TermsOf(selected) \cap Ids(lexicon.terms)
    IN  [status |-> StatusOf(terms),
         terms |-> terms,
         matches |-> selected,
         bidi |-> BidiFindings(text) # {},
         deprecated |-> {t \in terms : \/ ItemAt(lexicon.terms, t).fields.deprecated
                                       \/ \E m \in selected : m.entry.term = t
                                                              /\ m.entry.deprecated}]

-----------------------------------------------------------------------------
(* The guard.                                                              *)

AllowedTools(terms) == UNION {ToSet(ItemAt(lexicon.terms, t).lists.tools) : t \in terms}

Verdict(status, action) == [status |-> status, action |-> action]

\* What is said of a call of a tool with a text of this resolution.
Guarded(resolution, tool, block_on_unicode_risk) ==
    LET allowed == AllowedTools(resolution.terms)
    IN  IF resolution.bidi /\ block_on_unicode_risk THEN Verdict("blocked", "block")
        ELSE IF resolution.status = "unknown" THEN Verdict("no_match", "proceed")
        ELSE IF resolution.status = "ambiguous"
             THEN Verdict("needs_clarification", "ask_clarification")
        ELSE IF allowed = {} \/ tool \in allowed THEN Verdict("allowed", "proceed")
        ELSE Verdict("blocked", "block")

Init == MatcherInit /\ decision = NoDecision

Matching == MatcherNext /\ UNCHANGED decision

Guard ==
    /\ phase = "done"
    /\ decision = NoDecision
    /\ \E block \in BOOLEAN :
          decision' = [resolution |-> Resolution(call.text, matches),
                       verdicts |-> [tool \in Tools |->
                                        Guarded(Resolution(call.text, matches), tool, block)]]
    /\ UNCHANGED matcherVars

Return ==
    /\ decision # NoDecision
    /\ decision' = NoDecision
    /\ phase' = "idle"
    /\ call' = NoCall
    /\ matches' = {}
    /\ UNCHANGED <<lexicon, entries, fail, output, queue, mode, position, node>>

Next == Matching \/ Guard \/ Return

Spec == Init /\ [][Next]_vars

-----------------------------------------------------------------------------
(* What the theorems about it assume of its constants.                     *)

\* There is something to look for, and finitely much.
Searches(C, es) == IsFiniteSet(es) /\ \A e \in es : e.search \in Seq(C) /\ e.search # Root

\* Surfaces and texts are sequences of characters, and no surface is one of removed
\* characters only.
Readable(C) ==
    /\ \A x \in Lexicons, d \in BOOLEAN : Searches(C, EntriesOf(x, d))
    /\ \A t \in Texts, m \in BOOLEAN : SearchText(t, m) \in Seq(C)

\* A character of a normalized text has its place in the original.
Located == \A t \in Texts : \A k \in DOMAIN Normalized(t) : Normalized(t)[k].at \in Nat

\* A character has one character as its lower-case form.
OneToOne == \A c \in DOMAIN LowerCase : LowerCase[c] = <<LowerCase[c][1]>>

\* The characters of a normalized text come in the order of their places, and those that
\* share a place are of words: what a character expands into has no end of a word in it.
Undivided ==
    \A t \in Texts : \A k, l \in DOMAIN Normalized(t) :
        k < l => LET this == Normalized(t)[k]
                     that == Normalized(t)[l]
                 IN  /\ this.at <= that.at
                     /\ this.at = that.at => {this.char, that.char} \subseteq WordChars

\* What is in the same scopes lists them in the same order.
ScopesInOrder ==
    \A x \in Lexicons : \A r, q \in SurfaceRecords(x) :
        ToSet(r.scopes) = ToSet(q.scopes) => r.scopes = q.scopes

-----------------------------------------------------------------------------
(* Correctness.                                                            *)

\* The automaton is at the longest part of what it has read that some surface
\* begins with, and reports exactly the surfaces that end there.
NodeIsLongestSuffix ==
    phase = "scan" =>
        LET read == SubSeq(SearchText(call.text, mode), 1, position)
            words == {e.search : e \in entries[mode]}
            begun == Suffixes(read) \cap TrieNodes(words)
        IN  /\ node \in begun
            /\ \A n \in begun : Len(n) <= Len(node)
            /\ node # Root =>
                  output[mode][node] = {e \in entries[mode] : e.search \in Suffixes(read)}

\* The occurrences of an entry in a text by definition: the spans of the
\* original text whose normalized form, with the case of the entry, is its own,
\* and which cut no word.
Occurrences(e, text) ==
    LET normalized == Normalized(text)
        chars == NormalizedText(text)
        CutsWord(i) == {i, i + 1} \subseteq DOMAIN chars
                       /\ {chars[i], chars[i + 1]} \subseteq WordChars
        Says(s) == LET said == SubSeq(chars, s[1] + 1, s[2])
                   IN  IF e.case_sensitive THEN said ELSE Lowered(said)
        spans == {s \in (0..Len(chars)) \X (0..Len(chars)) :
                     s[1] < s[2] /\ Says(s) = e.search /\ ~CutsWord(s[1]) /\ ~CutsWord(s[2])}
    IN  {OriginalSpan(normalized, s[1], s[2]) : s \in spans}

\* After a scan every occurrence of every wanted entry is found, at its place
\* in the original text, and nothing else ("returns every valid surface
\* occurrence").  The reference of the API puts the places of the matches that a
\* resolution hands on elsewhere: SpansAreOfTheNormalizedText.
MatchesAreTheOccurrences ==
    phase = "done" =>
        matches = UNION {{Match(e, s) : s \in Occurrences(e, call.text)} :
                            e \in {d \in entries[FALSE] \cup entries[TRUE] : Wanted(d, call)}}

\* docs/api.md:153 says of the start and the end of a ResolutionMatch: "Character
\* span in the normalized text."  If so, the normalized text reads there what was
\* looked for.  The matcher's are places of the original text, which are others
\* where normalization removes characters or makes several of one.
SpansAreOfTheNormalizedText ==
    decision # NoDecision =>
        \A m \in decision.resolution.matches :
            LET text == NormalizedText(call.text)
                said == SubSeq(text, m.start + 1, Min({m.end, Len(text)}))
            IN  (IF m.entry.case_sensitive THEN said ELSE Lowered(said)) = m.entry.search

\* If the guard lets a tool proceed, each surface of a term that forbids the
\* tool is covered by a surface of a term that allows it, of the same length or
\* more: no other term is mentioned beside it.
GuardProceedsOnlyWithLeave ==
    decision # NoDecision =>
        \A tool \in Tools, m \in matches :
            LET tools == AllowedTools({m.entry.term})
            IN  decision.verdicts[tool].action = "proceed" /\ tools # {} /\ tool \notin tools
                => \E n \in matches :
                      /\ n.entry.term # m.entry.term
                      /\ AllowedTools({n.entry.term}) = {}
                         \/ tool \in AllowedTools({n.entry.term})
                      /\ Overlap(SpanOf(m), SpanOf(n))
                      /\ SpanLength(SpanOf(n)) >= SpanLength(SpanOf(m))
                      /\ SpanOf(n) # SpanOf(m)

\* Where one span is a surface of two terms in the same scopes, lint has warned
\* of it: the linter and the matcher agree on what is looked for.
LintForetellsAmbiguity ==
    decision # NoDecision =>
        \A m, n \in decision.resolution.matches :
            /\ SpanOf(m) = SpanOf(n)
            /\ m.entry.term # n.entry.term
            /\ m.entry.scopes = n.entry.scopes
            /\ m.entry.case_sensitive = n.entry.case_sensitive
            => \E f \in Lint(lexicon) :
                  /\ f.code = "normalized_surface_collision"
                  /\ {m.entry.term, n.entry.term} \subseteq f.terms
=============================================================================
