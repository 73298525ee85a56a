------------------------------ MODULE FatTable ------------------------------
(***************************************************************************)
(* What the file allocation table promises, packed or not: an array of     *)
(* 12-bit entries, each set on its own.  A host that writes a sector of    *)
(* the table changes the entries with a byte in that sector, and no other. *)
(***************************************************************************)
EXTENDS Naturals

CONSTANTS Entries,  \* the clusters that have an entry
          Values,   \* what the driver stores in them
          Groups,   \* the sets of entries one sector write may change
          Chains    \* pairs of a first cluster and a length

VARIABLE table

Init == table = [c \in Entries |-> CASE c = 0 -> 4088 [] c = 1 -> 4095 [] OTHER -> 0]
Set(c, v) == table' = [table EXCEPT ![c] = v]
Load(G) == /\ table' \in [Entries -> 0..4095]
           /\ \A c \in Entries \ G : table'[c] = table[c]

\* A chain of n clusters from s.  The entry after it is not promised.
SetChain(s, n) ==
    /\ \A c \in Entries \ {s + n} :
          table'[c] = IF c \in s..s + n - 2 THEN c + 1
                      ELSE IF c = s + n - 1 THEN 4095 ELSE table[c]
    /\ table' \in [Entries -> 0..4095]

Next == \/ \E c \in Entries, v \in Values : Set(c, v)
        \/ \E x \in Chains : SetChain(x[1], x[2])
        \/ \E G \in Groups : Load(G)
Spec == Init /\ [][Next]_table
=============================================================================
