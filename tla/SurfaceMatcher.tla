--------------------------- MODULE SurfaceMatcher ---------------------------
(***************************************************************************)
(* Finding the surfaces of a lexicon in a text (core/matcher.py): an       *)
(* Aho-Corasick automaton for the surfaces whose case does not matter and  *)
(* one for those whose case does, built when the matcher is made and run   *)
(* over every text.  A node of an automaton is the prefix it stands for.   *)
(***************************************************************************)
EXTENDS LexiconDocument, TextNormalization

CONSTANTS
    Lexicons,  \* lexicons a matcher may be made for
    Texts,     \* texts it may be given
    Scopings   \* sets of scopes that may be asked for; {} is no restriction

ASSUME LexiconsAssumption == \A x \in Lexicons : Loads(x)

VARIABLES
    lexicon,   \* the lexicon of the matcher
    entries,   \* case_sensitive -> what there is to look for
    fail,      \* case_sensitive -> node -> node to go on from
    output,    \* case_sensitive -> node -> places in entries that end there
    queue,     \* nodes whose children have no failure link yet
    phase,     \* what is done next: "plant", "link", "idle", "scan" or "done"
    mode,      \* the case_sensitive of the automaton that is built or run
    call,      \* the text and the restrictions of the last call of match
    position,  \* number of characters it has read
    node,      \* where in the automaton it is
    matches    \* what it has found

matcherVars == <<lexicon, entries, fail, output, queue, phase, mode, call, position, node, matches>>

Root == <<>>

-----------------------------------------------------------------------------
(* Entries.                                                                *)

Entry(surface, search, t, kind, scopes, case_sensitive, deprecated) ==
    [surface |-> surface, search |-> search, term |-> t, kind |-> kind, scopes |-> scopes,
     case_sensitive |-> case_sensitive, deprecated |-> deprecated]

\* A surface and, where case does not matter, its code variants that are not
\* surfaces of the term's aliases.
EntriesForSurface(surface, t, kind, scopes, case_sensitive, deprecated, reserved) ==
    LET variants == IF case_sensitive THEN {}
                    ELSE {v \in CodeIdentifierVariants(surface) : Lowered(v) \notin reserved}
    IN  {Entry(surface, SearchSurface(v, case_sensitive), t, kind, ToSet(scopes),
               case_sensitive, deprecated) : v \in {surface} \cup variants}

Fallback(scopes, other) == IF scopes = <<>> THEN other ELSE scopes

AliasSurfaces(aliases) == UNION {{a.id, Lowered(a.id)} : a \in ToSet(aliases)}

EntriesOfTerm(t, include_deprecated) ==
    EntriesForSurface(t.fields.canonical, t.id, "canonical", t.lists.scopes, FALSE,
                      t.fields.deprecated, AliasSurfaces(t.aliases))
    \cup UNION {EntriesForSurface(a.id, t.id, "alias", Fallback(a.lists.scopes, t.lists.scopes),
                                  a.fields.case_sensitive, a.fields.deprecated, {}) :
                   a \in {b \in ToSet(t.aliases) : include_deprecated \/ ~b.fields.deprecated}}

EntriesOf(x, include_deprecated) ==
    UNION {EntriesOfTerm(t, include_deprecated) : t \in ToSet(x.terms)}

-----------------------------------------------------------------------------
(* The automaton.                                                          *)

TrieNodes(words) == {Root} \cup UNION {Prefixes(w) : w \in words}

ChildrenOf(nodes, n) == {m \in nodes : Len(m) = Len(n) + 1 /\ IsPrefix(n, m)}

\* From a node, along failure links, to the first with a child for the
\* character, or the root.
FallTo(links, from, c) ==
    LET Fall[n \in DOMAIN links] ==
            IF n # Root /\ Append(n, c) \notin DOMAIN links THEN Fall[links[n]] ELSE n
    IN  Fall[from]

\* Mutant: one failure link is followed at most.
StepFromOneLink(links, from, c) ==
    LET fallen == IF Append(from, c) \in DOMAIN links THEN from ELSE links[from]
    IN  IF Append(fallen, c) \in DOMAIN links THEN Append(fallen, c) ELSE Root

StepFrom(links, from, c) ==
    LET fallen == FallTo(links, from, c)
    IN  IF Append(fallen, c) \in DOMAIN links THEN Append(fallen, c) ELSE Root

\* The trie, before its links.
Plant ==
    /\ phase = "plant"
    /\ LET nodes == TrieNodes({e.search : e \in entries[mode]})
       IN  /\ fail' = [fail EXCEPT ![mode] = [n \in nodes |-> Root]]
           /\ output' = [output EXCEPT ![mode] =
                            [n \in nodes |-> {e \in entries[mode] : e.search = n}]]
           /\ queue' = SetToSeq(ChildrenOf(nodes, Root))
    /\ phase' = "link"
    /\ UNCHANGED <<lexicon, entries, mode, call, position, node, matches>>

\* The links of the children of the next node, breadth first.
Link ==
    /\ phase = "link" /\ queue # <<>>
    /\ LET parent == Head(queue)
           children == ChildrenOf(DOMAIN fail[mode], parent)
           LinkOf(n) == StepFrom(fail[mode], fail[mode][parent], Last(n))
       IN  /\ fail' = [fail EXCEPT ![mode] =
                          [n \in DOMAIN @ |-> IF n \in children THEN LinkOf(n) ELSE @[n]]]
           /\ output' = [output EXCEPT ![mode] =
                            [n \in DOMAIN @ |-> IF n \in children
                                                THEN @[n] \cup @[LinkOf(n)] ELSE @[n]]]
           /\ queue' = Tail(queue) \o SetToSeq(children)
    /\ UNCHANGED <<lexicon, entries, phase, mode, call, position, node, matches>>

FinishLinks ==
    /\ phase = "link" /\ queue = <<>>
    /\ mode' = ~mode
    /\ phase' = IF mode THEN "idle" ELSE "plant"
    /\ UNCHANGED <<lexicon, entries, fail, output, queue, call, position, node, matches>>

-----------------------------------------------------------------------------
(* A call of match.                                                        *)

Call(text, scopes, include_deprecated) ==
    [text |-> text, scopes |-> scopes, include_deprecated |-> include_deprecated]

NoCall == Call(<<>>, {}, TRUE)

SearchText(text, case_sensitive) ==
    IF case_sensitive THEN NormalizedText(text) ELSE Lowered(NormalizedText(text))

ScopeMatches(entry, scopes) ==
    scopes = {} \/ entry.scopes = {} \/ entry.scopes \cap scopes # {}

Wanted(entry, c) ==
    (~entry.deprecated \/ c.include_deprecated) /\ ScopeMatches(entry, c.scopes)

\* Mutant: only the end of the span is looked at.
HasTokenBoundariesAtEnd(text, start, end) ==
    ~(start < end /\ end < Len(text)
      /\ text[end] \in WordChars /\ text[end + 1] \in WordChars)

\* No letter on the other side of an end of the span that is a letter.
HasTokenBoundaries(text, start, end) ==
    /\ ~(start > 0 /\ start < Len(text)
         /\ text[start] \in WordChars /\ text[start + 1] \in WordChars)
    /\ ~(start < end /\ end < Len(text)
         /\ text[end] \in WordChars /\ text[end + 1] \in WordChars)

Match(entry, span) == [entry |-> entry, start |-> span[1], end |-> span[2]]

\* What ends with the character at a place of the search text.
MatchesAt(index, ended) ==
    LET normalized == Normalized(call.text)
        text == NormalizedText(call.text)
        Start(e) == index - Len(e.search)
    IN  {Match(e, OriginalSpan(normalized, Start(e), index)) :
            e \in {d \in ended : /\ Wanted(d, call)
                                 /\ Start(d) >= 0
                                 /\ index <= Len(text)
                                 /\ HasTokenBoundaries(text, Start(d), index)}}

BeginMatch ==
    /\ phase = "idle"
    /\ \E text \in Texts, scopes \in Scopings, include_deprecated \in BOOLEAN :
          call' = Call(text, scopes, include_deprecated)
    /\ phase' = "scan"
    /\ UNCHANGED <<lexicon, entries, fail, output, queue, mode, position, node, matches>>

Scan ==
    /\ phase = "scan"
    /\ position < Len(SearchText(call.text, mode))
    /\ LET c == SearchText(call.text, mode)[position + 1]
           next == StepFrom(fail[mode], node, c)
       IN  /\ node' = next
           /\ matches' = matches \cup MatchesAt(position + 1, output[mode][next])
    /\ position' = position + 1
    /\ UNCHANGED <<lexicon, entries, fail, output, queue, phase, mode, call>>

\* The other automaton starts over; after both the matches are sorted.
FinishScan ==
    /\ phase = "scan"
    /\ position = Len(SearchText(call.text, mode))
    /\ mode' = ~mode
    /\ phase' = IF mode THEN "done" ELSE "scan"
    /\ position' = 0
    /\ node' = Root
    /\ UNCHANGED <<lexicon, entries, fail, output, queue, call, matches>>

MatcherInit ==
    /\ lexicon \in Lexicons
    /\ \E include_deprecated \in BOOLEAN :
          entries = [m \in BOOLEAN |-> {e \in EntriesOf(lexicon, include_deprecated) :
                                           e.case_sensitive = m}]
    /\ fail = [m \in BOOLEAN |-> [n \in {Root} |-> Root]]
    /\ output = [m \in BOOLEAN |-> [n \in {Root} |-> {}]]
    /\ queue = <<>>
    /\ phase = "plant"
    /\ mode = FALSE
    /\ call = NoCall
    /\ position = 0
    /\ node = Root
    /\ matches = {}

MatcherNext == Plant \/ Link \/ FinishLinks \/ BeginMatch \/ Scan \/ FinishScan
=============================================================================
