---- MODULE MCOleObjects ----
EXTENDS OleObjects, TLC

CONSTANTS o1, o2, o3, c1, c2

MCObjects == {o1, o2, o3}
MCComs == {c1}
MCTwoComs == {c1, c2}

\* Objects and COM objects are only compared with each other and with NULL.
MCSymmetry == Permutations(MCObjects)
====
