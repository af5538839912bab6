-------------------------- MODULE TextNormalization --------------------------
(***************************************************************************)
(* What the runtime makes of text before it looks for surfaces             *)
(* (text/unicode.py) and how it takes names apart (text/identifiers.py).   *)
(* A text is a sequence of characters.  The Unicode tables are constants.  *)
(***************************************************************************)
EXTENDS Naturals, Sequences, SequencesExt, FiniteSetsExt

CONSTANTS
    BidiControls,   \* characters that are removed
    Separators,     \* zero-width separators and spaces other than Blank
    Blank,          \* the plain space
    Compatibility,  \* character -> its NFKC form, where that is another
    LowerCase,      \* character -> its lower-case form, where that is another
    UpperCase,      \* character -> its upper-case form, where that is another
    WordChars,      \* letters, digits and the underscore
    AsciiUpper,     \* A to Z
    AsciiLower,     \* a to z
    Digits,         \* 0 to 9
    Underscore,
    Hyphen

Spaces == Separators \cup {Blank}

FormOf(table, c) == IF c \in DOMAIN table THEN table[c] ELSE <<c>>

\* A character of the normalized text comes with its place in the original.
Char(c, at) == [char |-> c, at |-> at]

\* What one character of the text becomes.
Raw(c) ==
    IF c \in BidiControls THEN <<>>
    ELSE IF c \in Separators THEN <<Blank>>
    ELSE FormOf(Compatibility, c)

\* Runs of spaces become one.
Collapsed(raw) ==
    LET IsSpace(k) == raw[k].char \in Spaces
        order == SelectSeq([k \in DOMAIN raw |-> k],
                           LAMBDA k : ~(IsSpace(k) /\ k > 1 /\ IsSpace(k - 1)))
    IN  [k \in DOMAIN order |->
            IF IsSpace(order[k]) THEN Char(Blank, raw[order[k]].at) ELSE raw[order[k]]]

Normalized(text) ==
    LET RawAt(i) == LET raw == Raw(text[i]) IN [j \in DOMAIN raw |-> Char(raw[j], i)]
    IN  Collapsed(FlattenSeq([i \in DOMAIN text |-> RawAt(i)]))

NormalizedText(text) ==
    LET normalized == Normalized(text) IN [k \in DOMAIN normalized |-> normalized[k].char]

\* Places of the characters whose removal is a risk.
BidiFindings(text) == {i \in DOMAIN text : text[i] \in BidiControls}

\* Where in the original text a span of normalized text is.  Spans are from a
\* start, counted from 0, to before an end.
OriginalSpan(normalized, start, end) ==
    IF normalized = <<>> \/ start = end THEN <<0, 0>>
    ELSE <<normalized[start + 1].at - 1, normalized[end].at>>

Cased(table, text) == FlattenSeq([i \in DOMAIN text |-> FormOf(table, text[i])])
Lowered(text) == Cased(LowerCase, text)

\* What the matcher looks for when it looks for a surface.
SearchSurface(surface, case_sensitive) ==
    LET normalized == NormalizedText(surface)
    IN  IF case_sensitive THEN normalized ELSE Lowered(normalized)

-----------------------------------------------------------------------------
(* Fragments of names: "access token", accessToken and access_token alike. *)

Ascii == AsciiUpper \cup AsciiLower \cup Digits

\* A name breaks after a small letter or digit before a capital, before the last of
\* several capitals if a small letter follows, and at all that is not Ascii.
BreaksBefore(surface, i) ==
    \/ i = 1
    \/ surface[i - 1] \notin Ascii
    \/ surface[i - 1] \in AsciiLower \cup Digits /\ surface[i] \in AsciiUpper
    \/ /\ i < Len(surface)
       /\ surface[i - 1] \in AsciiUpper
       /\ surface[i] \in AsciiUpper
       /\ surface[i + 1] \in AsciiLower

Fragments(surface) ==
    LET order == SelectSeq([i \in DOMAIN surface |-> i],
                           LAMBDA i : surface[i] \in Ascii /\ BreaksBefore(surface, i))
        End(i) == Min({j \in i..Len(surface) :
                          \/ j = Len(surface)
                          \/ surface[j + 1] \notin Ascii
                          \/ BreaksBefore(surface, j + 1)})
    IN  [k \in DOMAIN order |-> Lowered(SubSeq(surface, order[k], End(order[k])))]

Joined(parts, separator) ==
    FlattenSeq([k \in DOMAIN parts |-> IF k = 1 THEN parts[k] ELSE separator \o parts[k]])

Titled(fragment) == FormOf(UpperCase, Head(fragment)) \o Tail(fragment)

\* How code may spell a surface of several fragments.
CodeIdentifierVariants(surface) ==
    LET parts == Fragments(surface)
        titled == [k \in DOMAIN parts |-> Titled(parts[k])]
        upper == [k \in DOMAIN parts |-> Cased(UpperCase, parts[k])]
    IN  IF Len(parts) < 2 THEN {}
        ELSE {Joined([titled EXCEPT ![1] = parts[1]], <<>>),
              Joined(titled, <<>>),
              Joined(parts, <<Underscore>>),
              Joined(upper, <<Underscore>>),
              Joined(parts, <<Hyphen>>)} \ {surface}
=============================================================================
