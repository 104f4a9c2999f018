---- MODULE MCOleEvents ----
EXTENDS OleEvents, TLC

CONSTANTS o1, o2, s1, s2, s3

MCObjects == {o1, o2}
MCSinks == {s1, s2, s3}

\* Objects and sinks are only compared with each other and with NULL.
MCSymmetry == Permutations(MCObjects) \cup Permutations(MCSinks)
====
