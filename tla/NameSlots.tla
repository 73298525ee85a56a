----------------------------- MODULE NameSlots ------------------------------
(***************************************************************************)
(* From a littlefs name to the slots of a directory sector and back: the   *)
(* 8.3 form, the long name slots, and the conversions between UTF-8 and    *)
(* UTF-16 of unicode.c.  A name is the sequence of its bytes, in valid     *)
(* UTF-8 of the basic plane.                                               *)
(***************************************************************************)
EXTENDS Naturals, Sequences

DotByte   == 46
SpaceByte == 32
FFFF      == 65535
ChunkSize == 13         \* FAT_LONG_FILENAME_CHUNK_MAX

Least(S) == CHOOSE i \in S : \A k \in S : i <= k
Before(s, stop) ==
    LET cut[t \in Seq(Nat)] ==
          SubSeq(t, 1, Least({i \in 1..Len(t) : t[i] = stop} \union {Len(t) + 1}) - 1)
    IN  cut[s]
After(s, stop)  == SubSeq(s, Len(Before(s, stop)) + 2, Len(s))

-----------------------------------------------------------------------------
(* unicode.c.                                                              *)

\* The length of a character, from its first byte.
BytesOf(byte) == CASE byte < 128 -> 1 [] byte \in 192..223 -> 2 [] byte \in 224..239 -> 3

CodePoint(s, i) ==
    CASE BytesOf(s[i]) = 1 -> s[i]
      [] BytesOf(s[i]) = 2 -> (s[i] % 32) * 64 + (s[i+1] % 64)
      [] BytesOf(s[i]) = 3 -> (s[i] % 16) * 4096 + (s[i+1] % 64) * 64 + (s[i+2] % 64)

utf8_to_utf16le(s) ==
    LET units[i \in 1..Len(s) + 3] ==
          IF i > Len(s) THEN <<>> ELSE <<CodePoint(s, i)>> \o units[i + BytesOf(s[i])]
    IN  units[1]

Utf8Of(u) ==
    CASE u < 128 -> <<u>>
      [] u \in 128..2047 -> <<192 + u \div 64, 128 + (u % 64)>>
      [] u > 2047 -> <<224 + u \div 4096, 128 + ((u \div 64) % 64), 128 + (u % 64)>>

\* The units up to the first FFFF; the bytes end at the first zero.
utf16le_to_utf8(w) ==
    LET bytesFrom[i \in 1..Len(w) + 1] ==
          IF i > Len(w) THEN <<>> ELSE Utf8Of(w[i]) \o bytesFrom[i + 1]
    IN  Before(bytesFrom[1], 0)

-----------------------------------------------------------------------------
(* Short names.                                                            *)

Symbols == {33, 35, 36, 37, 38, 39, 40, 41, 45, 64, 94, 95, 96, 123, 125, 126}
ShortByte(x) == x \in 48..57 \/ x \in 65..90 \/ x \in Symbols
AllShort(s) == \A i \in 1..Len(s) : ShortByte(s[i])

\* The first two parts that strtok(".") finds in a name with one dot inside.
BaseName(n)  == Before(n, DotByte)
Extension(n) == Before(After(n, DotByte), DotByte)

\* Variation: an extension of any length.
AnyExtension(n) ==
    /\ n[1] # DotByte
    /\ Len(BaseName(n)) <= 8
    /\ AllShort(BaseName(n)) /\ AllShort(Extension(n))

is_short_filename_file(n) ==
    /\ n[1] # DotByte
    /\ Len(BaseName(n)) <= 8 /\ Len(Extension(n)) <= 3
    /\ AllShort(BaseName(n)) /\ AllShort(Extension(n))

is_short_filename_dir(n) == Len(n) <= 11 /\ AllShort(n)

Padded(s, width) == [i \in 1..width |-> IF i <= Len(s) THEN s[i] ELSE SpaceByte]

set_fat_short_filename(n) == Padded(BaseName(n), 8) \o Padded(Extension(n), 3)

restore_from_short_filename(d) ==
    Before(SubSeq(d, 1, 8), SpaceByte) \o <<DotByte>> \o Before(SubSeq(d, 9, 11), SpaceByte)

\* What set_directory_entry stores, and the trailing spaces dropped again.
set_short_dirname(n) == Padded(n, 11)
restore_from_short_dirname(d) ==
    SubSeq(d, 1, Least({k \in 0..11 : \A i \in k + 1..11 : d[i] = SpaceByte}))

-----------------------------------------------------------------------------
(* Long names: chunks of 13 units, the last one first.                     *)

LastChunk(len) == (len - 1) \div ChunkSize

\* long_filename_padding: a zero after the name, then FFFF.
PaddedUnit(w, i) == IF i <= Len(w) THEN w[i] ELSE IF i = Len(w) + 1 THEN 0 ELSE FFFF

LongSlots(n) ==
    LET cut[w \in Seq(Nat)] ==
          LET last == LastChunk(Len(w))
          IN  [k \in 1..last + 1 |->
                  LET i == last + 1 - k
                  IN  [order |-> i + 1,
                       units |-> [j \in 1..ChunkSize |-> PaddedUnit(w, i * ChunkSize + j)]]]
    IN  cut[utf8_to_utf16le(n)]

\* long_filename in the restore functions: each slot goes where its order says.
Gathered(slots) ==
    LET at(o) == CHOOSE k \in 1..Len(slots) : slots[k].order % 16 = o
        from[o \in 1..Len(slots) + 1] ==
          IF o > Len(slots) THEN <<>> ELSE slots[at(o)].units \o from[o + 1]
    IN  from[1]

FromLongSlots(slots) == utf16le_to_utf8(Before(Gathered(slots), FFFF))

-----------------------------------------------------------------------------
\* The name the driver and the host read from the slots written for n.
ShownFile(n) ==
    IF is_short_filename_file(n) THEN restore_from_short_filename(set_fat_short_filename(n))
    ELSE FromLongSlots(LongSlots(n))
ShownDirectory(n) ==
    IF is_short_filename_dir(n) THEN restore_from_short_dirname(set_short_dirname(n))
    ELSE FromLongSlots(LongSlots(n))

\* How many entries of the sector an entry takes.
SlotsOfFile(n)      == IF is_short_filename_file(n) THEN 1 ELSE Len(LongSlots(n)) + 1
SlotsOfDirectory(n) == IF is_short_filename_dir(n)  THEN 1 ELSE Len(LongSlots(n)) + 1
=============================================================================
