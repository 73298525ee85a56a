------------------------------ MODULE MCFatHost -----------------------------
(* Instances of FatHost for TLC. *)
EXTENDS FatHost

CONSTANTS name1, name2, value1, value2

TwoNames   == {name1, name2}
OwnAlias  == [n \in TwoNames |-> n]
OneAlias  == [n \in TwoNames |-> name1]
OneBlock  == {<<value1>>}
TwoBlocks == {<<value1>>, <<value2, value1>>}
UpToThree == {<<value1>>, <<value1, value2, value2>>}
NoFile    == {<<>>}
MaybeTwo  == {<<>>, <<value1, value2>>}
=============================================================================
