------------------------------ MODULE MCDCache ------------------------------
(* Small instances of DCache: two tags that conflict for every line.        *)
EXTENDS DCache

CONSTANTS t1, t2, b1, b2, v1, v2

MCTags == {t1, t2}
TwoBytes == {b1, b2}
MCVals == {v1, v2}
=============================================================================
