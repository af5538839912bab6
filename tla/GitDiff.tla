------------------------------ MODULE GitDiff ------------------------------
(***************************************************************************)
(* What git prints of a change, and the lines scout/git_merge.py finds     *)
(* added in it.  A line of a file is what it begins with, character by     *)
(* character where that could be mistaken for a line of the diff itself,   *)
(* and its text; a printed line is the same with the sign of the diff put  *)
(* before.                                                                 *)
(***************************************************************************)
EXTENDS PathRules, Integers

\* The blank that stands before a kept line.
Space == "space"

Line(lead, text) == [lead |-> lead, text |-> text]

\* A line of a diff; the path of +++ and the first line of @@ are read off it.
Raw(head, text, path, start) == [head |-> head, text |-> text, path |-> path, start |-> start]

\* Smallest edit from one file to another: lines kept, cut and added.
Edits(old, new) ==
    LET Edit(op, line) == [op |-> op, line |-> line]
        From[at \in (1..Len(old) + 1) \X (1..Len(new) + 1)] ==
            LET i == at[1]
                j == at[2]
            IN  IF i > Len(old)
                THEN [k \in 1..Len(new) - j + 1 |-> Edit("add", new[j + k - 1])]
                ELSE IF j > Len(new) THEN <<Edit("cut", old[i])>> \o From[<<i + 1, j>>]
                ELSE IF old[i] = new[j]
                     THEN <<Edit("keep", old[i])>> \o From[<<i + 1, j + 1>>]
                ELSE IF Len(From[<<i + 1, j>>]) <= Len(From[<<i, j + 1>>])
                     THEN <<Edit("cut", old[i])>> \o From[<<i + 1, j>>]
                ELSE <<Edit("add", new[j])>> \o From[<<i, j + 1>>]
    IN  From[<<1, 1>>]

SignOf(op) == CASE op = "keep" -> Space [] op = "cut" -> "-" [] op = "add" -> "+"

\* The file a diff line of this text would name, were it taken for a +++ line.
BodyLine(edit) == Raw(<<SignOf(edit.op)>> \o edit.line.lead, edit.line.text, edit.line.text, 0)

\* The diff of a file: without context a hunk for every run of changes, with all of
\* it a single hunk.  A file that does not end its last line is noted.
FileDiff(path, old, new, context, unterminated) ==
    LET edits == Edits(old, new)
        changed == {k \in DOMAIN edits : edits[k].op # "keep"}
        shown == IF context THEN DOMAIN edits ELSE changed
        NewLine(k) == 1 + Cardinality({m \in 1..k - 1 : edits[m].op # "cut"})
        LastOf(k, op) == edits[k].op # op /\ \A m \in k + 1..Len(edits) : edits[m].op = op
        Lines(k) ==
            (IF k - 1 \in shown THEN <<>> ELSE <<Raw(<<"@">>, <<>>, path, NewLine(k))>>)
            \o <<BodyLine(edits[k])>>
            \o (IF unterminated /\ (LastOf(k, "add") \/ LastOf(k, "cut"))
                THEN <<Raw(<<"\\">>, <<>>, path, 0)>> ELSE <<>>)
    IN  IF changed = {} THEN <<>>
        ELSE <<Raw(<<"d">>, <<>>, path, 0), Raw(<<"-", "-", "-", Space>>, <<>>, path, 0),
               Raw(<<"+", "+", "+", Space>>, <<>>, path, 0)>>
             \o FlattenSeq([k \in DOMAIN edits |-> IF k \in shown THEN Lines(k) ELSE <<>>])

\* A diff of trees, file after file.
TreeDiff(old, new, context, unterminated) ==
    LET paths == SetToSeq(DOMAIN new)
    IN  FlattenSeq([k \in DOMAIN paths |->
                       FileDiff(paths[k], old[paths[k]], new[paths[k]], context,
                                paths[k] \in unterminated)])

-----------------------------------------------------------------------------
(* Reading it.                                                             *)

AddedLine(path, line_number, text) == [path |-> path, line_number |-> line_number, text |-> text]

Reader(path, line, in_hunk, added) ==
    [path |-> path, line |-> line, in_hunk |-> in_hunk, added |-> added]

\* Mutant: the note on the end of a file is counted as a line.
CountedButCut(raw) == IsPrefix(<<"-">>, raw.head)

\* Lines that are not in the new file.
NotInNewFile(raw) ==
    \/ IsPrefix(<<"-">>, raw.head) /\ ~IsPrefix(<<"-", "-", "-">>, raw.head)
    \/ IsPrefix(<<"\\">>, raw.head)

IsAdded(raw) == IsPrefix(<<"+">>, raw.head) /\ ~IsPrefix(<<"+", "+", "+">>, raw.head)

\* One line of a diff, with what is read so far.
ReadLine(reader, raw, selected) ==
    IF IsPrefix(<<"d">>, raw.head) THEN Reader(<<>>, 0, FALSE, reader.added)
    ELSE IF IsPrefix(<<"+", "+", "+", Space>>, raw.head) THEN [reader EXCEPT !.path = raw.path]
    ELSE IF IsPrefix(<<"@">>, raw.head) THEN [reader EXCEPT !.line = raw.start, !.in_hunk = TRUE]
    ELSE IF ~reader.in_hunk \/ reader.path = <<>> THEN reader
    ELSE IF IsAdded(raw)
         THEN [reader EXCEPT !.line = @ + 1,
                  !.added = IF reader.path \in selected
                            THEN @ \cup {AddedLine(reader.path, reader.line,
                                                   Line(Tail(raw.head), raw.text))}
                            ELSE @]
    ELSE IF NotInNewFile(raw) THEN reader
    ELSE [reader EXCEPT !.line = @ + 1]

\* A diff read from its beginning, or on from what is read so far.
ReadLines(reader, raws, selected) ==
    LET After[i \in 0..Len(raws)] ==
            IF i = 0 THEN reader ELSE ReadLine(After[i - 1], raws[i], selected)
    IN  After[Len(raws)]

\* The lines a diff adds to the files that are selected.
AddedLines(raws, selected) == ReadLines(Reader(<<>>, 0, FALSE, {}), raws, selected).added
=============================================================================
