------------------------------- MODULE MCFat12 ------------------------------
(* An instance of Fat12 for TLC: four sectors of 4 bytes.  Their inner
   boundaries cut an entry of an even cluster, cut one of an odd cluster, and
   follow one of an odd cluster, as those of 512 bytes do at clusters 682, 341
   and 1023. *)
EXTENDS Fat12

\* 0xABC has a different digit in every position.
Patterns == {2748}
\* BC CA AB BC: it again in the sectors 0 and 3, other values in 1 and 2.
Filled == {[k \in 0..SectorSize-1 |-> CASE k % 3 = 0 -> 188 [] k % 3 = 1 -> 202 [] OTHER -> 171]}

\* Chains that end before, on and after each kind of boundary, one that crosses
\* all three, and one that starts in the middle of a sector.
ManyChains == {<<2, 1>>, <<2, 4>>, <<2, 7>>, <<5, 3>>}
=============================================================================
