---------------------------- MODULE FileRegister ----------------------------
(***************************************************************************)
(* What core/files.py promises of a file: it goes from one whole text to   *)
(* the next in one step, and a loss of power takes it back to a text it    *)
(* held since it was last safe, never to a mixture.                        *)
(***************************************************************************)
EXTENDS Naturals, Sequences

CONSTANT Contents  \* whole texts

VARIABLES
    log,   \* the texts the file has held, the present last
    safe   \* how many of them a loss of power cannot undo

Init == log \in {<<>>} \cup {<<c>> : c \in Contents} /\ safe = Len(log)

Write(c) == log' = Append(log, c) /\ UNCHANGED safe

Secure == safe' \in safe..Len(log) /\ UNCHANGED log

LosePower ==
    \E k \in safe..Len(log) : log' = SubSeq(log, 1, k) /\ safe' = k

Next == (\E c \in Contents : Write(c)) \/ Secure \/ LosePower

Spec == Init /\ [][Next]_<<log, safe>>
=============================================================================
