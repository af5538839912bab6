---------------------------- MODULE MCAtomicWrite ---------------------------
\* AtomicWrite on small sets, for the model checker.
EXTENDS AtomicWrite

CONSTANTS w1, w2, r1, x, y

TwoWriters == {w1, w2}
OneReader == {r1}
TwoTexts == {x, y}
=============================================================================
