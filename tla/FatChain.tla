------------------------------ MODULE FatChain ------------------------------
(***************************************************************************)
(* What bulk_update_fat does to the array of entries: a chain and, past a  *)
(* chain that ends on the last bytes of a sector, one byte of the entry    *)
(* after it.  Fat12 has the bytes it does it with.                         *)
(***************************************************************************)
EXTENDS Integers

CONSTANTS
    SectorBytes,    \* bytes of a sector of the table (512)
    EOC             \* the value that ends a chain

\* Variation: the end of a chain on an odd cluster is lost.
CutChain(f, start, n) ==
    [c \in DOMAIN f |->
        IF c \in start..start + n - 2 THEN c + 1
        ELSE IF c = start + n - 1 THEN IF c % 2 = 1 THEN 0 ELSE EOC ELSE f[c]]

Chained(f, start, n) ==
    [c \in DOMAIN f |->
        CASE c \in start..start + n - 2 -> c + 1
          [] c = start + n - 1          -> EOC
          [] OTHER                      -> f[c]]

\* An odd cluster whose two bytes are the last of a sector.  The code takes
\* them for an entry cut by the boundary, and stores the high bits of its value
\* in the first byte of the next sector too.
EndsSector(c) == c % 2 = 1 /\ ((3 * c) \div 2) % SectorBytes = SectorBytes - 2

\* The next turn repairs that byte, unless there is none.
Stray(f, last) ==
    [c \in DOMAIN f |-> IF EndsSector(last) /\ c = last + 1 THEN f[c] - (f[c] % 256) + 255
                        ELSE f[c]]

\* n clusters from start.
bulk_update_fat(f, start, n) == Stray(Chained(f, start, n), start + n - 1)
=============================================================================
