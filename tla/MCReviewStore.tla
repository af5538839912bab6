---------------------------- MODULE MCReviewStore ----------------------------
\* ReviewStore on small sets, for the model checker.
EXTENDS ReviewStore

CONSTANTS a1, a2, s1, s2, accepted, rejected

MCActors == {a1, a2}
MCSurfaces == {s1, s2}
MCDecisions == {accepted, rejected}
=============================================================================
