------------------------------ MODULE MCStray -------------------------------
(* FatBuild at the size of a real drive: two files whose chains are those  *)
(* of clusters 2 to 252 and 255 to 1023, if littlefs lists them so.        *)
EXTENDS FatBuild

CONSTANTS name1, name2

RealNames == {name1, name2}
OwnAlias  == [n \in RealNames |-> n]
OwnNames  == [file |-> OwnAlias, dir |-> OwnAlias]
Length    == [p \in {<<name1>>, <<name2>>} |-> IF p = <<name1>> THEN 251 ELSE 769]
LongFiles == {[p \in DOMAIN Length |-> [k \in 1..Length[p] |-> <<p, k>>]]}

\* A mount alone: no read is needed to see what it built.
MountOnly == BuildInit /\ [][StartBuild \/ BuildStep]_builderVars
=============================================================================
