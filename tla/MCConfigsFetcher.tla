--------------------------- MODULE MCConfigsFetcher ----------------------------
(* Small instances of ConfigsFetcher for TLC: processes of two versions.        *)
EXTENDS ConfigsFetcher

CONSTANTS p1, p2, v1, v2

TwoVersions == [p \in Process |-> IF p = p1 THEN v1 ELSE v2]
===============================================================================
