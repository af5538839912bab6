--------------------------- MODULE MCRuntimeCache ---------------------------
\* RuntimeCache on small sets, for the model checker.
EXTENDS RuntimeCache, TLC

CONSTANTS t1, t2, x, y, broken

TwoThreads == {t1, t2}
MCTexts == {x, y, broken}
MCValid == {x, y}
\* Two of the texts have the same size.
MCSizeOf == [c \in Texts |-> IF c = broken THEN 1 ELSE 2]

\* Threads are interchangeable, and so are the two texts of one size.
CacheSymmetry == Permutations(TwoThreads) \cup Permutations(MCValid)
=============================================================================
