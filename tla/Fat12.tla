-------------------------------- MODULE Fat12 -------------------------------
(***************************************************************************)
(* The file .mimic/FAT, byte by byte: two 12-bit entries in three bytes.   *)
(* The driver sets an entry by reading two bytes and writing them back     *)
(* (update_fat); the host replaces a whole sector (save_fat_sector); the   *)
(* cache builder stores a chain sector by sector (bulk_update_fat).        *)
(* & 0x0F is % 16, & 0xF0 is what is left, << 4 stored in a byte is        *)
(* 16 * (x % 16): each sum below is the | of the code.                     *)
(***************************************************************************)
EXTENDS Integers

CONSTANTS
    SectorSize,     \* bytes of a sector (512)
    NumSectors,     \* sectors of the table the host may write
    FatValues,      \* values the driver stores
    Images,         \* sectors the host writes: functions on 0..SectorSize-1
    Chains          \* pairs <<first cluster, length>> of the cache builder

Byte == 0..255
Word == 0..4095     \* 12 bits
ASSUME SizeAssumption == /\ SectorSize \in Nat /\ SectorSize >= 3
                         /\ NumSectors \in Nat \ {0}
ASSUME InputAssumption == /\ FatValues \subseteq Word
                          /\ Images \subseteq [0..SectorSize-1 -> Byte]

VARIABLE bytes

Length  == SectorSize * NumSectors
Address == 0..Length-1
Offset(c) == (3 * c) \div 2
Entries == {c \in 0..Length : Offset(c) + 1 < Length}

\* A chain is followed by an entry, whose number has 12 bits: init_fat makes the
\* table longer than the disk, so that there is always a next sector to read.
ASSUME ChainsAssumption ==
    \A x \in Chains : /\ x[1] \in Nat /\ x[2] \in Nat \ {0}
                       /\ x[1] + x[2] \in Entries \intersect Word

Odd(c) == c % 2 = 1

\* The value in the two bytes of cluster c.
Value12(c, x, y) == IF Odd(c) THEN (x \div 16) + 16 * y ELSE x + 256 * (y % 16)

read_fat(b, c) == Value12(c, b[Offset(c)], b[Offset(c) + 1])

\* Variation: the digit shifted out of the byte is kept.
Unmasked(old, c, v) == IF Odd(c) THEN (old % 16) + 16 * v ELSE v % 256
\* Variation: the half of the odd cluster after it is dropped.
NeighbourLost(old, c, v) == IF Odd(c) THEN v \div 16 ELSE v \div 256

\* The two bytes of cluster c once it holds v.
FirstByte(old, c, v)  == IF Odd(c) THEN (old % 16) + 16 * (v % 16) ELSE v % 256
SecondByte(old, c, v) == IF Odd(c) THEN v \div 16 ELSE (old - (old % 16)) + v \div 256

Stored(b, c, v) == [b EXCEPT ![Offset(c)]     = FirstByte(@, c, v),
                             ![Offset(c) + 1] = SecondByte(@, c, v)]

update_fat(c, v) == bytes' = Stored(bytes, c, v)

\* Variation: one byte too many.
OneMore(b, s, image) ==
    [k \in Address |-> IF k >= s * SectorSize /\ k <= (s + 1) * SectorSize
                       THEN image[k % SectorSize] ELSE b[k]]

\* Sector s of the table, counted from 0, replaced by the host's.
Loaded(b, s, image) ==
    [k \in Address |-> IF k \div SectorSize = s THEN image[k % SectorSize] ELSE b[k]]

save_fat_sector(s, image) == bytes' = Loaded(bytes, s, image)

-----------------------------------------------------------------------------
(* bulk_update_fat.  The byte it writes past its buffer, when an entry     *)
(* starts on the last one, is in no sector; the step after repairs it.     *)

SectorOf(b, s) == [k \in 0..SectorSize-1 |-> b[s * SectorSize + k]]

\* The entry of cluster c, in the buffer: its second byte may be outside.
Packed(buffer, c, v) ==
    LET i == Offset(c) % SectorSize
    IN  [k \in DOMAIN buffer |-> CASE k = i     -> FirstByte(buffer[k], c, v)
                                  [] k = i + 1 -> SecondByte(buffer[k], c, v)
                                  [] OTHER     -> buffer[k]]

\* "FAT12 sector boundaries": an odd entry that fits to the last byte is one
\* too, for this code.
AtBoundary(c) == LET i == Offset(c) % SectorSize
                 IN  i + 1 >= SectorSize \/ (Odd(c) /\ i + 2 >= SectorSize)

\* Variation: the next sector gets nothing of the entry.
NoCarry(buffer, c, v) == buffer

Carried(buffer, c, v) == [buffer EXCEPT ![0] = SecondByte(@, c, v)]

\* A turn of the loop: the file, the sector in the buffer, and the buffer.
Turn(at, c, v) ==
    LET packed  == Packed(at.buffer, c, v)
        flushed == Loaded(at.file, at.sector, packed)
    IN  IF AtBoundary(c)
        THEN [file   |-> flushed,
              sector |-> at.sector + 1,
              buffer |-> Carried(SectorOf(flushed, at.sector + 1), c, v)]
        ELSE [at EXCEPT !.buffer = packed]

\* The loop, from the sector of the first cluster: what each turn leaves.
Turns(b, start, n) ==
    LET first == Offset(start) \div SectorSize
        turns[i \in 0..n] ==
          IF i = 0 THEN [file |-> b, sector |-> first, buffer |-> SectorOf(b, first)]
          ELSE Turn(turns[i - 1], start + i - 1, IF i < n THEN start + i ELSE 4095)
    IN  turns

bulk_update_fat(start, n) ==
    LET end == Turns(bytes, start, n)[n]
    IN  bytes' = Loaded(end.file, end.sector, end.buffer)

-----------------------------------------------------------------------------
\* init_fat: F8 FF FF, then zeros.
Init == bytes = [k \in Address |-> CASE k = 0 -> 248 [] k \in {1, 2} -> 255
                                         [] OTHER -> 0]

\* The cache builder fills the table from below.
Unused(start) == \A c \in Entries : c >= start => read_fat(bytes, c) = 0

Next == \/ \E c \in Entries, v \in FatValues : update_fat(c, v)
        \/ \E s \in 0..NumSectors-1, image \in Images : save_fat_sector(s, image)
        \/ \E x \in Chains : Unused(x[1]) /\ bulk_update_fat(x[1], x[2])

Spec == Init /\ [][Next]_bytes

-----------------------------------------------------------------------------
\* The entries with a byte in sector s.
TouchedBy(s) == {c \in Entries : \/ Offset(c) \div SectorSize = s
                                 \/ (Offset(c) + 1) \div SectorSize = s}

\* The array the bytes stand for.
table == [c \in Entries |-> read_fat(bytes, c)]

Table == INSTANCE FatTable WITH Values <- FatValues,
                                Groups <- {TouchedBy(s) : s \in 0..NumSectors-1}

\* The table is a file of bytes.
TypeOK == bytes \in [Address -> Byte]

\* update_fat stores its value in one entry, the one read_fat then reads it
\* from, and leaves every other alone: the neighbour that shares a byte with
\* it, and the entries on both sides of a sector boundary.
UpdateIsSet ==
    [][\A c \in Entries, v \in FatValues : update_fat(c, v) => Table!Set(c, v)]_bytes

\* The packed table implements the array of entries: in particular a sector
\* the host saves changes the entries that have a byte in it, and no other, and
\* a chain stored by the sector loses no entry at a boundary.
TableRefined == Table!Spec

Chain == INSTANCE FatChain WITH SectorBytes <- SectorSize, EOC <- 4095

\* Sector by sector, with its buffer and its carries over the boundaries,
\* bulk_update_fat stores the chain and one stray byte that FatChain says.
BulkIsChain ==
    [][\A x \in Chains : Unused(x[1]) /\ bulk_update_fat(x[1], x[2])
            => table' = Chain!bulk_update_fat(table, x[1], x[2])]_bytes
=============================================================================
