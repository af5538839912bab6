----------------------------- MODULE LineContext -----------------------------
(***************************************************************************)
(* What a line of a document is (scout/line_context.py): prose, a comment, *)
(* part of a docstring, a decorator, a string or code.  Which it is        *)
(* depends on the lines before: docstrings and block comments go on.       *)
(* A document is its path, its lines and whether its path is one of prose  *)
(* or of Python; a line is its marks and words.                            *)
(***************************************************************************)
EXTENDS Naturals, Sequences, SequencesExt

TripleQuote == "'''"
OpenComment == "/*"
CloseComment == "*/"
LineComments == {"#", "//", "--", "<!--"}

ProseContexts == {"prose", "comment", "docstring"}
WeakContexts == {"string", "decorator"}

Outside == [docstring |-> FALSE, block |-> FALSE]

Has(text, mark) == mark \in ToSet(text)

Starts(text, marks) == text # <<>> /\ Head(text) \in marks

\* An odd number of triple quotes opens a docstring that goes on.
OpensDocstring(text) == Len(SelectSeq(text, LAMBDA t : t = TripleQuote)) % 2 = 1

\* Where the classifier is after a line that is not empty.
After(state, document, text) ==
    IF document.prose THEN state
    ELSE IF state.block THEN [state EXCEPT !.block = ~Has(text, CloseComment)]
    ELSE IF state.docstring THEN [state EXCEPT !.docstring = ~Has(text, TripleQuote)]
    ELSE IF document.python /\ Starts(text, {TripleQuote})
         THEN [state EXCEPT !.docstring = OpensDocstring(text)]
    ELSE [state EXCEPT !.block = Starts(text, {OpenComment}) /\ ~Has(text, CloseComment)]

ContextOf(state, document, text) ==
    CASE document.prose -> "prose"
      [] ~document.prose /\ state.block -> "comment"
      [] ~document.prose /\ state.docstring -> "docstring"
      [] OTHER ->
            IF document.python /\ Starts(text, {TripleQuote}) THEN "docstring"
            ELSE IF Starts(text, LineComments \cup {OpenComment, "*", CloseComment}) THEN "comment"
            ELSE IF Starts(text, {"@"}) THEN "decorator"
            ELSE IF Starts(text, {"\"", "'"}) THEN "string"
            ELSE "code"

\* The context of every line of a document; empty lines are passed over.
Contexts(document) ==
    LET lines == document.lines
        Before[i \in 1..Len(lines) + 1] ==
            IF i = 1 THEN Outside
            ELSE IF lines[i - 1] = <<>> THEN Before[i - 1]
            ELSE After(Before[i - 1], document, lines[i - 1])
    IN  [i \in DOMAIN lines |-> ContextOf(Before[i], document, lines[i])]
=============================================================================
