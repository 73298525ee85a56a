----------------------------- MODULE Fat12Proofs ----------------------------
(***************************************************************************)
(* For every sector size, table size, and set of values and sectors: the   *)
(* packed table of Fat12 keeps its type and implements the array of        *)
(* FatTable.                                                               *)
(***************************************************************************)
EXTENDS Fat12, NaturalRecursion, TLAPS

-----------------------------------------------------------------------------
(* Arithmetic of the packing.                                              *)

\* The table has a natural number of bytes.
LEMMA LengthNat == Length \in Nat
BY SizeAssumption DEF Length

\* Both bytes of an entry are in the table.
LEMMA OffsetRange ==
    ASSUME NEW c \in Entries
    PROVE  /\ c \in Nat
           /\ Offset(c) \in Address
           /\ Offset(c) + 1 \in Address
BY LengthNat DEF Entries, Offset, Address

\* Two entries share at most one byte: the second of an even cluster is the
\* first of the next.
LEMMA OffsetsApart ==
    ASSUME NEW c \in Nat, NEW d \in Nat, c < d
    PROVE  /\ Offset(c) \in Nat /\ Offset(d) \in Nat
           /\ Offset(c) < Offset(d)
           /\ Offset(c) + 1 = Offset(d) => ~Odd(c) /\ Odd(d)
BY DEF Offset, Odd

\* A number and its last hexadecimal digit.
LEMMA Split16 ==
    ASSUME NEW x \in Nat
    PROVE  /\ x % 16 \in 0..15 /\ x \div 16 \in Nat /\ x = 16 * (x \div 16) + (x % 16)
<1>1. x % 16 \in 0..15
  OBVIOUS
<1>2. x \div 16 \in Nat
  OBVIOUS
<1>3. x = 16 * (x \div 16) + (x % 16)
  OBVIOUS
<1> QED
  BY <1>1, <1>2, <1>3

\* A number and its last two.
LEMMA Split256 ==
    ASSUME NEW x \in Word
    PROVE  /\ x % 256 \in 0..255 /\ x \div 256 \in Nat /\ x = 256 * (x \div 256) + (x % 256)
<1> USE DEF Byte, Word
<1>1. x % 256 \in 0..255
  OBVIOUS
<1>2. x \div 256 \in Nat
  OBVIOUS
<1>3. x = 256 * (x \div 256) + (x % 256)
  OBVIOUS
<1> QED
  BY <1>1, <1>2, <1>3

\* The digits are the only ones.
LEMMA Unique16 ==
    ASSUME NEW r \in 0..15, NEW q \in Nat, NEW x \in Nat, x = 16 * q + r
    PROVE  x % 16 = r /\ x \div 16 = q
<1>1. x \div 16 = q
  OBVIOUS
<1>2. x % 16 = r
  OBVIOUS
<1> QED
  BY <1>1, <1>2

\* The digits of a 12-bit value.
LEMMA Digits ==
    ASSUME NEW v \in Word
    PROVE  /\ v \div 256 \in 0..15 /\ v \div 16 \in Byte /\ v % 256 \in Byte
<1> USE DEF Byte, Word
<1>1. v \div 256 \in 0..15
  OBVIOUS
<1>2. v \div 16 \in Byte
  OBVIOUS
<1>3. v % 256 \in Byte
  OBVIOUS
<1> QED BY <1>1, <1>2, <1>3

\* What is written into the two bytes of an entry is two bytes.
LEMMA WrittenBytes ==
    ASSUME NEW x \in Byte, NEW c \in Nat, NEW v \in Word
    PROVE  FirstByte(x, c, v) \in Byte /\ SecondByte(x, c, v) \in Byte
<1> DEFINE l == x % 16
           h == x \div 16
           d == v % 16
           t == v \div 256
<1>1. v \div 16 \in Byte /\ v % 256 \in Byte /\ t \in 0..15
  BY Digits, Zenon
<1> USE DEF Byte, Word
<1>2. l \in 0..15 /\ h \in 0..15 /\ x = 16 * h + l /\ d \in 0..15 /\ t \in 0..15
  <2>1. x \in Nat /\ x \in 0..255 /\ v \in Nat
    OBVIOUS
  <2>2. l \in 0..15 /\ h \in Nat /\ x = 16 * h + l /\ d \in 0..15
    BY <2>1, Split16
  <2> HIDE DEF l, h, d, t
  <2> QED
    BY <1>1, <2>1, <2>2, SMTT(30)
<1>3. /\ FirstByte(x, c, v) = IF Odd(c) THEN l + 16 * d ELSE v % 256
      /\ SecondByte(x, c, v) = IF Odd(c) THEN v \div 16 ELSE (x - l) + t
  BY DEF FirstByte, SecondByte
<1> HIDE DEF l, h, d, t
<1>4. l + 16 * d \in Byte /\ (x - l) + t \in Byte
  BY <1>2
<1> QED
  BY <1>1, <1>3, <1>4

\* Reading the two bytes of an entry gives back the value.
LEMMA ReadWritten ==
    ASSUME NEW x \in Byte, NEW y \in Byte, NEW c \in Nat, NEW v \in Word
    PROVE  Value12(c, FirstByte(x, c, v), SecondByte(y, c, v)) = v
<1>1. CASE Odd(c)
  <2> DEFINE l == x % 16
             d == v % 16
             q == v \div 16
  <2>1. l \in 0..15 /\ d \in 0..15 /\ q \in Nat /\ v = 16 * q + d
    BY Split16 DEF Byte, Word
  <2>2. FirstByte(x, c, v) = 16 * d + l /\ SecondByte(y, c, v) = q
    BY <1>1, <2>1 DEF FirstByte, SecondByte
  <2> HIDE DEF l, d, q
  <2>3. (16 * d + l) \div 16 = d
    BY <2>1, Unique16
  <2>4. d + 16 * q = v
    BY <2>1
  <2> QED
    BY <1>1, <2>2, <2>3, <2>4 DEF Value12
<1>2. CASE ~Odd(c)
  <2> DEFINE h == y \div 16
             l == y % 16
             t == v \div 256
             r == v % 256
  <2>1. h \in Nat /\ l \in 0..15 /\ y = 16 * h + l
    BY Split16 DEF Byte
  <2>2. t \in 0..15 /\ r \in 0..255 /\ v = 256 * t + r
    BY Split256, Digits, Zenon
  <2>3. FirstByte(x, c, v) = r /\ SecondByte(y, c, v) = (y - l) + t
    BY <1>2 DEF FirstByte, SecondByte
  <2> HIDE DEF h, l, t, r
  <2>4. (y - l) + t = 16 * h + t
    BY <2>1, <2>2
  <2>5. (16 * h + t) % 16 = t
    BY <2>1, <2>2, Unique16
  <2>6. r + 256 * t = v
    BY <2>2
  <2> QED
    BY <1>2, <2>3, <2>4, <2>5, <2>6 DEF Value12
<1> QED
  BY <1>1, <1>2

\* The first byte of an odd cluster keeps the half of the even one before it.
LEMMA FirstKept ==
    ASSUME NEW x \in Byte, NEW z \in Byte, NEW c \in Nat, NEW d \in Nat, NEW v \in Word,
           Odd(c), ~Odd(d)
    PROVE  Value12(d, z, FirstByte(x, c, v)) = Value12(d, z, x)
<1> USE DEF Byte, Word
<1> DEFINE l == x % 16
           e == v % 16
<1>1. l \in 0..15 /\ e \in 0..15
  BY Split16
<1>2. FirstByte(x, c, v) = 16 * e + l
  BY <1>1 DEF FirstByte
<1> HIDE DEF e
<1>3. (16 * e + l) % 16 = l
  <2> HIDE DEF l
  <2> QED BY <1>1, Unique16
<1> QED
  BY <1>2, <1>3 DEF Value12

\* The second byte of an even cluster keeps the half of the odd one after it.
LEMMA SecondKept ==
    ASSUME NEW x \in Byte, NEW z \in Byte, NEW c \in Nat, NEW d \in Nat, NEW v \in Word,
           ~Odd(c), Odd(d)
    PROVE  Value12(d, SecondByte(x, c, v), z) = Value12(d, x, z)
<1> DEFINE h == x \div 16
           l == x % 16
           t == v \div 256
<1>1. t \in 0..15
  BY Digits, Zenon
<1> USE DEF Byte, Word
<1>2. h \in Nat /\ l \in 0..15 /\ x = 16 * h + l /\ t \in 0..15
  <2>1. x \in Nat
    OBVIOUS
  <2>2. h \in Nat /\ l \in 0..15 /\ x = 16 * h + l
    BY <2>1, Split16
  <2> HIDE DEF h, l, t
  <2> QED
    BY <1>1, <2>2
<1>3. SecondByte(x, c, v) = (x - l) + t
  BY DEF SecondByte
<1> HIDE DEF l, t
<1>4. (x - l) + t = 16 * h + t
  <2> HIDE DEF h
  <2> QED BY <1>2
<1>5. (16 * h + t) \div 16 = h
  <2> HIDE DEF h
  <2> QED BY <1>2, Unique16
<1> QED
  BY <1>3, <1>4, <1>5 DEF Value12

\* Two bytes make a 12-bit value, whichever half of one of them counts.
LEMMA ValueRange ==
    ASSUME NEW c \in Nat, NEW x \in Byte, NEW y \in Byte
    PROVE  Value12(c, x, y) \in Word
<1> USE DEF Byte, Word
<1> DEFINE h == x \div 16
           l == y % 16
<1>1. h \in 0..15 /\ l \in 0..15 /\ x \in 0..255 /\ y \in 0..255
  <2>1. x \in Nat /\ y \in Nat /\ x \in 0..255 /\ y \in 0..255
    OBVIOUS
  <2>2. h \in 0..15
    <3>1. h \in Nat /\ x % 16 \in 0..15 /\ x = 16 * h + (x % 16)
      BY <2>1, Split16, Zenon
    <3> HIDE DEF h
    <3> QED
      BY <2>1, <3>1
  <2>3. l \in 0..15
    BY <2>1, Split16
  <2> QED
    BY <2>1, <2>2, <2>3
<1>2. Value12(c, x, y) = IF Odd(c) THEN h + 16 * y ELSE x + 256 * l
  BY DEF Value12
<1> HIDE DEF h, l
<1> QED
  BY <1>1, <1>2

\* An entry is a 12-bit number.
LEMMA ReadRange ==
    ASSUME NEW b \in [Address -> Byte], NEW c \in Entries
    PROVE  read_fat(b, c) \in Word
<1>1. c \in Nat /\ b[Offset(c)] \in Byte /\ b[Offset(c) + 1] \in Byte
  BY OffsetRange
<1> QED
  BY <1>1, ValueRange DEF read_fat

-----------------------------------------------------------------------------
(* One call of update_fat: the table b becomes Stored(b, c, v).            *)

\* The call writes the two bytes of the entry and no other.
LEMMA StoredBytes ==
    ASSUME NEW b \in [Address -> Byte], NEW c \in Entries, NEW v \in Word
    PROVE  /\ Stored(b, c, v)[Offset(c)] = FirstByte(b[Offset(c)], c, v)
           /\ Stored(b, c, v)[Offset(c) + 1] = SecondByte(b[Offset(c) + 1], c, v)
           /\ \A k \in Address : k # Offset(c) /\ k # Offset(c) + 1
                                        => Stored(b, c, v)[k] = b[k]
           /\ Stored(b, c, v) \in [Address -> Byte]
<1> DEFINE o == Offset(c)
           p == Offset(c) + 1
           x == FirstByte(b[o], c, v)
           y == SecondByte(b[p], c, v)
<1>1. c \in Nat /\ o \in Address /\ p \in Address
  BY OffsetRange
<1>2. o # p
  BY <1>1, LengthNat DEF Address
<1>3. b[o] \in Byte /\ b[p] \in Byte
  BY <1>1
<1>4. x \in Byte /\ y \in Byte
  BY <1>1, <1>3, WrittenBytes
<1>5. Stored(b, c, v) = [b EXCEPT ![o] = x, ![p] = y]
  BY <1>1, <1>2 DEF Stored
<1> HIDE DEF o, p, x, y
<1>6. /\ Stored(b, c, v)[o] = x /\ Stored(b, c, v)[p] = y
      /\ \A k \in Address : k # o /\ k # p => Stored(b, c, v)[k] = b[k]
      /\ Stored(b, c, v) \in [Address -> Byte]
  BY <1>1, <1>2, <1>4, <1>5
<1> QED
  BY <1>6 DEF o, p, x, y

\* The entry holds the value.
LEMMA StoredSame ==
    ASSUME NEW b \in [Address -> Byte], NEW c \in Entries, NEW v \in Word
    PROVE  read_fat(Stored(b, c, v), c) = v
<1> DEFINE s == Stored(b, c, v)
<1>1. c \in Nat /\ b[Offset(c)] \in Byte /\ b[Offset(c) + 1] \in Byte
  BY OffsetRange
<1>2. /\ s[Offset(c)] = FirstByte(b[Offset(c)], c, v)
      /\ s[Offset(c) + 1] = SecondByte(b[Offset(c) + 1], c, v)
  BY StoredBytes
<1> HIDE DEF s
<1>3. read_fat(s, c) = v
  BY <1>1, <1>2, ReadWritten DEF read_fat
<1> QED
  BY <1>3 DEF s

\* Every other entry reads as before.
LEMMA StoredOther ==
    ASSUME NEW b \in [Address -> Byte], NEW c \in Entries, NEW v \in Word,
           NEW d \in Entries, d # c
    PROVE  read_fat(Stored(b, c, v), d) = read_fat(b, d)
<1> DEFINE s == Stored(b, c, v)
           o == Offset(c)
           p == Offset(d)
<1>1. /\ c \in Nat /\ o \in Address /\ o + 1 \in Address
      /\ d \in Nat /\ p \in Address /\ p + 1 \in Address
  BY OffsetRange
<1>2. /\ s[o] = FirstByte(b[o], c, v)
      /\ s[o + 1] = SecondByte(b[o + 1], c, v)
      /\ \A k \in Address : k # o /\ k # o + 1 => s[k] = b[k]
  BY StoredBytes
<1>3. b[o] \in Byte /\ b[o + 1] \in Byte
  BY <1>1
<1>4. /\ o \in Nat /\ p \in Nat /\ o # p
      /\ p = o + 1 => ~Odd(c) /\ Odd(d)
      /\ o = p + 1 => Odd(c) /\ ~Odd(d)
  <2>1. CASE c < d
    BY <1>1, <2>1, OffsetsApart
  <2>2. CASE d < c
    BY <1>1, <2>2, OffsetsApart
  <2> QED
    BY <1>1, <2>1, <2>2
<1> HIDE DEF s, o, p
<1>5. CASE p = o + 1
  <2>1. s[p] = SecondByte(b[p], c, v)
    BY <1>2, <1>5
  <2>2. s[p + 1] = b[p + 1]
    BY <1>1, <1>2, <1>4, <1>5
  <2> QED
    BY <1>1, <1>3, <1>4, <1>5, <2>1, <2>2, SecondKept DEF read_fat, s, p
<1>6. CASE o = p + 1
  <2>1. s[p + 1] = FirstByte(b[p + 1], c, v)
    BY <1>2, <1>6
  <2>2. s[p] = b[p]
    BY <1>1, <1>2, <1>4, <1>6
  <2> QED
    BY <1>1, <1>3, <1>4, <1>6, <2>1, <2>2, FirstKept DEF read_fat, s, p
<1>7. CASE p # o + 1 /\ o # p + 1
  <2>1. s[p] = b[p] /\ s[p + 1] = b[p + 1]
    BY <1>1, <1>2, <1>4, <1>7
  <2> QED
    BY <2>1 DEF read_fat, s, p
<1> QED
  BY <1>5, <1>6, <1>7

-----------------------------------------------------------------------------
(* One sector saved by the host: the table b becomes Loaded(b, s, image).  *)

\* The table stays a file of bytes.
LEMMA LoadedBytes ==
    ASSUME NEW b \in [Address -> Byte], NEW s \in 0..NumSectors-1, NEW image \in Images
    PROVE  Loaded(b, s, image) \in [Address -> Byte]
<1>1. image \in [0..SectorSize-1 -> Byte]
  BY InputAssumption
<1>2. ASSUME NEW k \in Address PROVE k % SectorSize \in 0..SectorSize-1
  BY SizeAssumption, LengthNat DEF Address
<1>3. ASSUME NEW k \in Address PROVE image[k % SectorSize] \in Byte
  <2>1. k % SectorSize \in 0..SectorSize-1
    BY <1>2
  <2> QED
    BY <1>1, <2>1
<1> QED
  BY <1>3 DEF Loaded

\* An entry with no byte in the sector reads as before.
LEMMA LoadedOther ==
    ASSUME NEW b \in [Address -> Byte], NEW s \in 0..NumSectors-1, NEW image \in Images,
           NEW d \in Entries \ TouchedBy(s)
    PROVE  read_fat(Loaded(b, s, image), d) = read_fat(b, d)
<1>1. /\ Offset(d) \in Address /\ Offset(d) + 1 \in Address
      /\ Offset(d) \div SectorSize # s /\ (Offset(d) + 1) \div SectorSize # s
  BY OffsetRange DEF TouchedBy
<1>2. /\ Loaded(b, s, image)[Offset(d)] = b[Offset(d)]
      /\ Loaded(b, s, image)[Offset(d) + 1] = b[Offset(d) + 1]
  BY <1>1 DEF Loaded
<1> QED
  BY <1>2 DEF read_fat

-----------------------------------------------------------------------------
(* The sectors, and the places of the bytes in them.                       *)

\* The address k is byte k % SectorSize of sector k \div SectorSize.
LEMMA Places ==
    ASSUME NEW k \in Nat
    PROVE  /\ k \div SectorSize \in Nat /\ k % SectorSize \in 0..SectorSize-1
           /\ k = SectorSize * (k \div SectorSize) + (k % SectorSize)
BY SizeAssumption

\* Its sector and its place in it are the only ones.
LEMMA OnePlace ==
    ASSUME NEW s \in Nat, NEW r \in 0..SectorSize-1
    PROVE  /\ (SectorSize * s + r) \div SectorSize = s
           /\ (SectorSize * s + r) % SectorSize = r
BY SizeAssumption

\* Two addresses of one place are one.
LEMMA SamePlace ==
    ASSUME NEW k \in Nat, NEW m \in Nat,
           k \div SectorSize = m \div SectorSize, k % SectorSize = m % SectorSize
    PROVE  k = m
BY Places

\* A little further is in the same sector, or in the next.
LEMMA PlaceAfter ==
    ASSUME NEW k \in Nat, NEW j \in 0..2
    PROVE  LET s == k \div SectorSize
               r == (k % SectorSize) + j
           IN  IF r < SectorSize
               THEN (k + j) \div SectorSize = s /\ (k + j) % SectorSize = r
               ELSE (k + j) \div SectorSize = s + 1 /\ (k + j) % SectorSize = r - SectorSize
<1> DEFINE s == k \div SectorSize
           r == (k % SectorSize) + j
<1>1. /\ s \in Nat /\ r \in 0..SectorSize + 1 /\ k + j = SectorSize * s + r
      /\ SectorSize \in Nat /\ SectorSize >= 3
  BY Places, SizeAssumption
<1> HIDE DEF s, r
<1>2. CASE r < SectorSize
  <2>1. r \in 0..SectorSize - 1
    BY <1>1, <1>2
  <2>2. (k + j) \div SectorSize = s /\ (k + j) % SectorSize = r
    BY <1>1, <2>1, OnePlace
  <2> QED
    BY <1>2, <2>2 DEF s, r
<1>3. CASE ~(r < SectorSize)
  <2>1. /\ r - SectorSize \in 0..SectorSize - 1 /\ s + 1 \in Nat
    BY <1>1, <1>3
  <2>2. k + j = SectorSize * (s + 1) + (r - SectorSize)
    BY <1>1, <1>3
  <2>3. (k + j) \div SectorSize = s + 1 /\ (k + j) % SectorSize = r - SectorSize
    BY <2>1, <2>2, OnePlace
  <2> QED
    BY <1>3, <2>3 DEF s, r
<1> QED
  BY <1>2, <1>3

\* The sectors of the table lie in it: the file ends with a sector.
LEMMA WholeSectors ==
    ASSUME NEW k \in Address, NEW r \in 0..SectorSize-1
    PROVE  /\ SectorSize * (k \div SectorSize) + r \in Address
           /\ k \div SectorSize \in Nat
<1> DEFINE s == k \div SectorSize
<1>1. k \in Nat /\ k < SectorSize * NumSectors /\ SectorSize \in Nat /\ NumSectors \in Nat
  BY SizeAssumption, LengthNat DEF Address, Length
<1>2. s \in Nat /\ SectorSize * s <= k
  BY <1>1, Places
<1> HIDE DEF s
<1>3. s < NumSectors
  <2> SUFFICES ASSUME NumSectors <= s PROVE FALSE
    BY <1>1, <1>2
  <2>1. SectorSize * NumSectors <= SectorSize * s
    BY <1>1, <1>2
  <2> QED
    BY <1>1, <1>2, <2>1
<1>4. SectorSize * (s + 1) <= SectorSize * NumSectors
  BY <1>1, <1>2, <1>3
<1>5. SectorSize * s + r < SectorSize * NumSectors /\ SectorSize * s + r \in Nat
  BY <1>1, <1>2, <1>4
<1> QED
  BY <1>2, <1>5, LengthNat DEF Address, Length, s

-----------------------------------------------------------------------------
(* The file, with the buffer that is still to be written.                  *)

Flushed(at) == Loaded(at.file, at.sector, at.buffer)

\* What a turn of bulk_update_fat starts from.
States == [file   : [Address -> Byte], sector : Nat, buffer : [0..SectorSize-1 -> Byte]]

\* Its bytes: those of the buffer in its sector, those of the file elsewhere.
LEMMA FlushedBytes ==
    ASSUME NEW at \in States
    PROVE  /\ Flushed(at) \in [Address -> Byte]
           /\ \A k \in Address : Flushed(at)[k] = IF k \div SectorSize = at.sector
                                              THEN at.buffer[k % SectorSize] ELSE at.file[k]
<1>1. /\ at.file \in [Address -> Byte] /\ at.buffer \in [0..SectorSize-1 -> Byte]
  BY DEF States
<1>2. \A k \in Address : k % SectorSize \in 0..SectorSize-1
  BY Places, LengthNat DEF Address
<1> QED
  BY <1>1, <1>2 DEF Flushed, Loaded

\* The entry in the buffer.
LEMMA PackedBytes ==
    ASSUME NEW buf \in [0..SectorSize-1 -> Byte], NEW c \in Nat, NEW v \in Word
    PROVE  /\ Packed(buf, c, v) \in [0..SectorSize-1 -> Byte]
           /\ \A r \in 0..SectorSize-1 :
                Packed(buf, c, v)[r] =
                    IF r = Offset(c) % SectorSize THEN FirstByte(buf[r], c, v)
                    ELSE IF r = (Offset(c) % SectorSize) + 1 THEN SecondByte(buf[r], c, v)
                    ELSE buf[r]
<1> DEFINE i == Offset(c) % SectorSize
<1>1. DOMAIN buf = 0..SectorSize-1 /\ \A r \in 0..SectorSize-1 : buf[r] \in Byte
  OBVIOUS
<1>2. Packed(buf, c, v) = [r \in 0..SectorSize-1 |->
                             CASE r = i     -> FirstByte(buf[r], c, v)
                               [] r = i + 1 -> SecondByte(buf[r], c, v)
                               [] OTHER     -> buf[r]]
  BY <1>1 DEF Packed
<1>3. i \in Nat /\ i # i + 1
  BY Places, SizeAssumption DEF Offset
<1> HIDE DEF i
<1>4. \A r \in 0..SectorSize-1 :
        Packed(buf, c, v)[r] = IF r = i THEN FirstByte(buf[r], c, v)
                               ELSE IF r = i + 1 THEN SecondByte(buf[r], c, v) ELSE buf[r]
  BY <1>2, <1>3
<1>5. \A r \in 0..SectorSize-1 : Packed(buf, c, v)[r] \in Byte
  BY <1>1, <1>4, WrittenBytes
<1>6. Packed(buf, c, v) = [r \in 0..SectorSize-1 |-> Packed(buf, c, v)[r]]
  BY <1>2
<1>7. Packed(buf, c, v) \in [0..SectorSize-1 -> Byte]
  BY <1>5, <1>6, Zenon
<1> QED
  BY <1>4, <1>7 DEF i

\* The bytes of the file when cluster c is stored: those of update_fat, and one
\* past an odd cluster that ends a sector.
Strays(c) == Odd(c) /\ (Offset(c) % SectorSize) + 2 = SectorSize

ByteAfter(b, c, v, k) ==
    IF k = Offset(c) THEN FirstByte(b[k], c, v)
    ELSE IF k = Offset(c) + 1 THEN SecondByte(b[k], c, v)
    ELSE IF k = Offset(c) + 2 /\ Strays(c) THEN v \div 16
    ELSE b[k]

\* A turn leaves the state of the next cluster.
TurnDone(at, c, v) ==
    /\ Turn(at, c, v) \in States
    /\ Turn(at, c, v).sector = Offset(c + 1) \div SectorSize
    /\ \A k \in Address : Flushed(Turn(at, c, v))[k] = ByteAfter(Flushed(at), c, v, k)

\* The places of the two bytes, and of the next cluster.
LEMMA NextOffset ==
    ASSUME NEW c \in Nat
    PROVE  /\ Offset(c) \in Nat
           /\ Offset(c + 1) = IF Odd(c) THEN Offset(c) + 2 ELSE Offset(c) + 1
BY DEF Offset, Odd

\* A turn whose two bytes are in the sector of the buffer, with the next entry.
LEMMA TurnInside ==
    ASSUME NEW at \in States, NEW c \in Entries, NEW v \in Word,
           at.sector = Offset(c) \div SectorSize, ~AtBoundary(c)
    PROVE  TurnDone(at, c, v)
<1> DEFINE i == Offset(c) % SectorSize
           o == Offset(c)
           s == at.sector
           packed == Packed(at.buffer, c, v)
           to == Turn(at, c, v)
<1>1. /\ c \in Nat /\ o \in Nat /\ i \in Nat /\ SectorSize \in Nat
      /\ i + 1 < SectorSize /\ (Odd(c) => i + 2 < SectorSize)
  <2>1. c \in Nat /\ o \in Nat
    BY OffsetRange, NextOffset
  <2>2. i \in 0..SectorSize-1 /\ SectorSize \in Nat
    BY <2>1, Places, SizeAssumption
  <2> QED
    BY <2>1, <2>2 DEF AtBoundary
<1>2. /\ at.file \in [Address -> Byte] /\ at.buffer \in [0..SectorSize-1 -> Byte]
      /\ at = [file |-> at.file, sector |-> s, buffer |-> at.buffer]
      /\ s \in Nat
  BY DEF States
<1>3. to = [file |-> at.file, sector |-> s, buffer |-> packed]
  <2>1. to = [at EXCEPT !.buffer = packed]
    BY DEF Turn
  <2> QED
    BY <1>2, <2>1
<1>4. packed \in [0..SectorSize-1 -> Byte]
  BY <1>1, <1>2, PackedBytes
<1>5. to \in States
  <2> HIDE DEF packed, to
  <2> QED BY <1>2, <1>3, <1>4 DEF States
<1>6. to.sector = Offset(c + 1) \div SectorSize
  <2>1. to.sector = o \div SectorSize
    BY <1>3
  <2>2. CASE Odd(c)
    <3>1. (o + 2) \div SectorSize = o \div SectorSize
      BY <1>1, <2>2, PlaceAfter
    <3> QED  BY <1>1, <2>1, <2>2, <3>1, NextOffset
  <2>3. CASE ~Odd(c)
    <3>1. (o + 1) \div SectorSize = o \div SectorSize
      BY <1>1, PlaceAfter
    <3> QED  BY <1>1, <2>1, <2>3, <3>1, NextOffset
  <2> QED
    BY <2>2, <2>3
<1>7. ASSUME NEW k \in Address PROVE Flushed(to)[k] = ByteAfter(Flushed(at), c, v, k)
  <2> DEFINE r == k % SectorSize
  <2>1. /\ k \in Nat /\ r \in 0..SectorSize-1
        /\ Flushed(to)[k] = IF k \div SectorSize = s THEN packed[r] ELSE at.file[k]
        /\ Flushed(at)[k] = IF k \div SectorSize = s THEN at.buffer[r] ELSE at.file[k]
    <3>1. k \in Nat /\ r \in 0..SectorSize-1
      BY Places, LengthNat DEF Address
    <3>2. Flushed(to)[k] = IF k \div SectorSize = to.sector THEN to.buffer[r] ELSE to.file[k]
      <4> HIDE DEF to
      <4> QED BY <1>5, FlushedBytes
    <3>3. Flushed(at)[k] = IF k \div SectorSize = s THEN at.buffer[r] ELSE at.file[k]
      BY FlushedBytes
    <3>4. to.sector = s /\ to.buffer = packed /\ to.file = at.file
      BY <1>3
    <3> QED
      BY <3>1, <3>2, <3>3, <3>4
  <2>2. packed[r] = IF r = i THEN FirstByte(at.buffer[r], c, v)
                    ELSE IF r = i + 1 THEN SecondByte(at.buffer[r], c, v) ELSE at.buffer[r]
    BY <1>1, <1>2, <2>1, PackedBytes
  <2>3. /\ k = o <=> k \div SectorSize = s /\ r = i
        /\ k = o + 1 <=> k \div SectorSize = s /\ r = i + 1
    <3>1. (o + 1) \div SectorSize = s /\ (o + 1) % SectorSize = i + 1
      BY <1>1, PlaceAfter
    <3>2. o + 1 \in Nat
      BY <1>1
    <3> QED
      BY <1>1, <2>1, <3>1, <3>2, SamePlace
  <2>4. ~Strays(c)
    BY <1>1 DEF Strays
  <2> HIDE DEF packed, to, r, i, o
  <2> QED
    BY <1>1, <2>1, <2>2, <2>3, <2>4 DEF ByteAfter, o
<1> QED
  BY <1>5, <1>6, <1>7 DEF TurnDone

\* A turn at the end of a sector: the buffer is written, and the next sector
\* is read with the high bits of the value put into its first byte.
LEMMA TurnAcross ==
    ASSUME NEW at \in States, NEW c \in Entries, c + 1 \in Entries, NEW v \in Word,
           at.sector = Offset(c) \div SectorSize, AtBoundary(c)
    PROVE  TurnDone(at, c, v)
<1> DEFINE i == Offset(c) % SectorSize
           o == Offset(c)
           s == at.sector
           packed == Packed(at.buffer, c, v)
           flushed == Loaded(at.file, s, packed)
           next == SectorOf(flushed, s + 1)
           carried == Carried(next, c, v)
           to == Turn(at, c, v)
<1>1. /\ c \in Nat /\ o \in Nat /\ SectorSize \in Nat /\ SectorSize >= 3
      /\ i \in 0..SectorSize-1
      /\ i = SectorSize - 1 \/ (Odd(c) /\ i = SectorSize - 2)
  <2>1. c \in Nat /\ o \in Nat
    BY OffsetRange, NextOffset
  <2>2. i \in 0..SectorSize-1 /\ SectorSize \in Nat /\ SectorSize >= 3
    BY <2>1, Places, SizeAssumption
  <2>3. i + 1 >= SectorSize \/ (Odd(c) /\ i + 2 >= SectorSize)
    BY DEF AtBoundary
  <2> QED
    BY <2>1, <2>2, <2>3
<1>2. /\ at.file \in [Address -> Byte] /\ at.buffer \in [0..SectorSize-1 -> Byte]
      /\ s \in Nat
  BY DEF States
<1>3. to = [file |-> flushed, sector |-> s + 1, buffer |-> carried]
  BY DEF Turn
<1>4. /\ packed \in [0..SectorSize-1 -> Byte]
      /\ \A r \in 0..SectorSize-1 :
           packed[r] = IF r = i THEN FirstByte(at.buffer[r], c, v)
                       ELSE IF r = i + 1 THEN SecondByte(at.buffer[r], c, v) ELSE at.buffer[r]
  BY <1>1, <1>2, PackedBytes
\* What is flushed.
<1>5. /\ flushed \in [Address -> Byte]
      /\ \A k \in Address : flushed[k] = IF k \div SectorSize = s THEN packed[k % SectorSize]
                                         ELSE at.file[k]
  <2> DEFINE mid == [file |-> at.file, sector |-> s, buffer |-> packed]
  <2>1. mid \in States
    <3> HIDE DEF packed
    <3> QED BY <1>2, <1>4 DEF States
  <2>2. Flushed(mid) = flushed
    BY DEF Flushed
  <2> QED
    <3>1. mid.sector = s /\ mid.buffer = packed /\ mid.file = at.file
      OBVIOUS
    <3> HIDE DEF mid, flushed, packed
    <3> QED BY <2>1, <2>2, <3>1, FlushedBytes
\* The next cluster is in the next sector, which is in the table.
<1>6. Offset(c + 1) \div SectorSize = s + 1
  <2>1. CASE Odd(c)
    <3>1. (o + 2) \div SectorSize = s + 1
      BY <1>1, PlaceAfter
    <3> QED  BY <1>1, <2>1, <3>1, NextOffset
  <2>2. CASE ~Odd(c)
    <3>1. (o + 1) \div SectorSize = s + 1
      BY <1>1, <2>2, PlaceAfter
    <3> QED  BY <1>1, <2>2, <3>1, NextOffset
  <2> QED
    BY <2>1, <2>2
<1>7. \A r \in 0..SectorSize-1 : SectorSize * (s + 1) + r \in Address
  <2>1. Offset(c + 1) \in Address
    BY OffsetRange
  <2> QED
    BY <1>6, <2>1, WholeSectors
<1>8. /\ next \in [0..SectorSize-1 -> Byte]
      /\ \A r \in 0..SectorSize-1 : next[r] = flushed[SectorSize * (s + 1) + r]
  <2>1. ASSUME NEW r \in 0..SectorSize-1
        PROVE  (s + 1) * SectorSize + r = SectorSize * (s + 1) + r
    BY <1>1, <1>2
  <2>2. next = [r \in 0..SectorSize-1 |-> flushed[(s + 1) * SectorSize + r]]
    BY DEF SectorOf
  <2> HIDE DEF flushed, next
  <2>3. \A r \in 0..SectorSize-1 : next[r] = flushed[SectorSize * (s + 1) + r]
    BY <2>1, <2>2
  <2> QED
    BY <1>5, <1>7, <2>2, <2>3
<1>9. /\ carried \in [0..SectorSize-1 -> Byte]
      /\ carried[0] = SecondByte(next[0], c, v)
      /\ \A r \in 1..SectorSize-1 : carried[r] = next[r]
  <2>1. carried = [next EXCEPT ![0] = SecondByte(next[0], c, v)]
    BY DEF Carried
  <2> HIDE DEF next, carried
  <2>2. 0 \in 0..SectorSize-1 /\ next[0] \in Byte
    BY <1>1, <1>8
  <2>3. SecondByte(next[0], c, v) \in Byte
    BY <1>1, <2>2, WrittenBytes
  <2> QED
    BY <1>1, <1>8, <2>1, <2>2, <2>3
<1>10. to \in States /\ to.sector = s + 1 /\ to.buffer = carried /\ to.file = flushed
  <2> HIDE DEF flushed, carried, to
  <2> QED BY <1>2, <1>3, <1>5, <1>9 DEF States
<1>11. ASSUME NEW k \in Address PROVE Flushed(to)[k] = ByteAfter(Flushed(at), c, v, k)
  <2> DEFINE r == k % SectorSize
  <2>1. /\ k \in Nat /\ r \in 0..SectorSize-1 /\ k \div SectorSize \in Nat
        /\ k = SectorSize * (k \div SectorSize) + r
    BY Places, LengthNat DEF Address
  <2>2. /\ Flushed(to)[k] = IF k \div SectorSize = s + 1 THEN carried[r] ELSE flushed[k]
        /\ Flushed(at)[k] = IF k \div SectorSize = s THEN at.buffer[r] ELSE at.file[k]
    <3>1. Flushed(to)[k] = IF k \div SectorSize = to.sector THEN to.buffer[r] ELSE to.file[k]
      <4> HIDE DEF to
      <4> QED BY <1>10, FlushedBytes
    <3>2. Flushed(at)[k] = IF k \div SectorSize = s THEN at.buffer[r] ELSE at.file[k]
      BY FlushedBytes
    <3> HIDE DEF to
    <3> QED
      BY <1>10, <3>1, <3>2
  <2>3. k = o <=> k \div SectorSize = s /\ r = i
    BY <1>1, <2>1, SamePlace
  <2>4. /\ k = o + 1 <=> IF i = SectorSize - 1 THEN k \div SectorSize = s + 1 /\ r = 0
                         ELSE k \div SectorSize = s /\ r = i + 1
        /\ i # SectorSize - 1 => (k = o + 2 <=> k \div SectorSize = s + 1 /\ r = 0)
    <3>1. /\ o + 1 \in Nat /\ o + 2 \in Nat
          /\ (o + 1) \div SectorSize = IF i = SectorSize - 1 THEN s + 1 ELSE s
          /\ (o + 1) % SectorSize = IF i = SectorSize - 1 THEN 0 ELSE i + 1
          /\ i # SectorSize - 1 => /\ (o + 2) \div SectorSize = s + 1
                                   /\ (o + 2) % SectorSize = 0
      BY <1>1, PlaceAfter
    <3> HIDE DEF i, o, r
    <3> QED
      BY <2>1, <3>1, SamePlace DEF r
  <2>5. Strays(c) <=> Odd(c) /\ i = SectorSize - 2
    BY <1>1 DEF Strays
  <2>6. CASE k \div SectorSize = s + 1
    <3>1. Flushed(at)[k] = at.file[k] /\ Flushed(to)[k] = carried[r]
      BY <1>2, <2>2, <2>6
    <3>2. next[r] = at.file[k]
      <4>1. next[r] = flushed[k]
        <5> HIDE DEF next, flushed, r
        <5> QED BY <1>8, <2>1, <2>6
      <4>2. flushed[k] = at.file[k]
        <5> HIDE DEF flushed, packed
        <5> QED BY <1>2, <1>5, <2>6
      <4> QED  BY <4>1, <4>2
    <3>3. CASE r = 0
      <4>1. Flushed(to)[k] = SecondByte(Flushed(at)[k], c, v)
        <5> HIDE DEF next, carried, to
        <5> QED BY <1>9, <3>1, <3>2, <3>3
      <4>2. CASE i = SectorSize - 1
        <5>1. k = o + 1 /\ k # o
          BY <1>1, <1>2, <2>3, <2>4, <2>6, <3>3, <4>2
        <5> QED  BY <4>1, <5>1 DEF ByteAfter
      <4>3. CASE i # SectorSize - 1
        <5>1. k = o + 2 /\ k # o /\ k # o + 1 /\ Odd(c) /\ Strays(c)
          BY <1>1, <2>4, <2>5, <2>6, <3>3, <4>3
        <5> QED  BY <4>1, <5>1 DEF ByteAfter, SecondByte
      <4> QED  BY <4>2, <4>3
    <3>4. CASE r # 0
      <4>1. carried[r] = next[r]
        <5>1. r \in 1..SectorSize-1
          BY <2>1, <3>4
        <5> HIDE DEF carried, next, r
        <5> QED BY <1>9, <5>1
      <4>2. k # o /\ k # o + 1 /\ ~(k = o + 2 /\ Strays(c))
        <5>1. s + 1 # s
          BY <1>2
        <5> HIDE DEF i, o, r, s
        <5> QED BY <1>1, <2>3, <2>4, <2>5, <2>6, <3>4, <5>1
      <4> QED  BY <3>1, <3>2, <4>1, <4>2 DEF ByteAfter
    <3> QED  BY <3>3, <3>4
  <2>7. CASE k \div SectorSize # s + 1
    <3>1. /\ Flushed(to)[k] = flushed[k]
          /\ flushed[k] = IF k \div SectorSize = s THEN packed[r] ELSE at.file[k]
      <4> HIDE DEF flushed, packed, to
      <4> QED BY <1>5, <2>2, <2>7
    <3>2. packed[r] = IF r = i THEN FirstByte(at.buffer[r], c, v)
                      ELSE IF r = i + 1 THEN SecondByte(at.buffer[r], c, v) ELSE at.buffer[r]
      BY <1>4, <2>1
    <3>3. /\ k = o + 1 <=> k \div SectorSize = s /\ r = i + 1
          /\ ~(k = o + 2 /\ Strays(c))
      <4>1. i = SectorSize - 1 => r # i + 1
        BY <1>1, <2>1
      <4>2. i = SectorSize - 1 => i # SectorSize - 2
        BY <1>1
      <4> HIDE DEF i, o, r, s
      <4> QED BY <2>4, <2>5, <2>7, <4>1, <4>2
    <3>4. i # i + 1
      BY <1>1
    <3> HIDE DEF packed, flushed, to, r, i, o, s
    <3> QED
      BY <2>2, <2>3, <3>1, <3>2, <3>3, <3>4 DEF ByteAfter, o
  <2> QED
    BY <2>6, <2>7
<1> QED
  BY <1>6, <1>10, <1>11 DEF TurnDone

-----------------------------------------------------------------------------
(* The entries after a turn.                                               *)

\* An entry whose low byte is y.
WithLow(w, y) == w - (w % 256) + y

EntryAfter(b, c, v, d) ==
    IF d = c THEN v
    ELSE IF d = c + 1 /\ Strays(c) THEN WithLow(read_fat(b, d), v \div 16)
    ELSE read_fat(b, d)

\* The low byte of an entry of an even cluster is its first.
LEMMA LowByte ==
    ASSUME NEW d \in Nat, ~Odd(d), NEW x \in Byte, NEW z \in Byte, NEW y \in Byte
    PROVE  Value12(d, z, y) = WithLow(Value12(d, x, y), z)
<1> DEFINE t == y % 16
<1>1. t \in 0..15 /\ x \in 0..255 /\ z \in 0..255
  BY Split16 DEF Byte
<1>2. Value12(d, z, y) = z + 256 * t /\ Value12(d, x, y) = x + 256 * t
  BY DEF Value12
<1> HIDE DEF t
<1>3. (x + 256 * t) % 256 = x
  BY <1>1
<1> QED
  BY <1>1, <1>2, <1>3 DEF WithLow

\* A turn stores its entry, and past an odd one that ends a sector the low byte
\* of the next.
LEMMA TurnReads ==
    ASSUME NEW b \in [Address -> Byte], NEW e \in [Address -> Byte],
           NEW c \in Entries, c + 1 \in Entries, NEW v \in Word,
           \A k \in Address : e[k] = ByteAfter(b, c, v, k),
           NEW d \in Entries
    PROVE  read_fat(e, d) = EntryAfter(b, c, v, d)
<1> DEFINE s == Stored(b, c, v)
           o == Offset(c)
           p == Offset(d)
<1>1. /\ c \in Nat /\ o \in Address /\ o + 1 \in Address
      /\ d \in Nat /\ p \in Address /\ p + 1 \in Address
      /\ o \in Nat /\ p \in Nat
  BY OffsetRange, NextOffset
<1>2. /\ s[o] = FirstByte(b[o], c, v)
      /\ s[o + 1] = SecondByte(b[o + 1], c, v)
      /\ \A k \in Address : k # o /\ k # o + 1 => s[k] = b[k]
  BY StoredBytes
<1>3. read_fat(s, d) = IF d = c THEN v ELSE read_fat(b, d)
  BY StoredSame, StoredOther
<1> HIDE DEF s
<1>4. \A k \in Address : e[k] = IF k = o + 2 /\ Strays(c) THEN v \div 16 ELSE s[k]
  <2> SUFFICES ASSUME NEW k \in Address
               PROVE  e[k] = IF k = o + 2 /\ Strays(c) THEN v \div 16 ELSE s[k]
    OBVIOUS
  <2>1. e[k] = ByteAfter(b, c, v, k)
    OBVIOUS
  <2>2. o + 2 # o /\ o + 2 # o + 1
    BY <1>1
  <2> QED
    BY <1>2, <2>1, <2>2 DEF ByteAfter
<1>5. CASE Strays(c) /\ d = c + 1
  <2>1. p = o + 2 /\ Odd(c)
    BY <1>1, <1>5, NextOffset DEF Strays
  <2>2. ~Odd(d)
    BY <1>1, <1>5, <2>1 DEF Odd
  <2>3. e[p] = v \div 16 /\ e[p + 1] = b[p + 1]
    <3>1. p + 1 # o + 2 /\ p + 1 # o /\ p + 1 # o + 1
      BY <1>1, <2>1
    <3> HIDE DEF o, p
    <3> QED
      BY <1>1, <1>2, <1>4, <1>5, <2>1, <3>1
  <2>4. v \div 16 \in Byte /\ b[p] \in Byte /\ b[p + 1] \in Byte
    BY <1>1, Digits
  <2>5. read_fat(e, d) = Value12(d, v \div 16, b[p + 1]) /\ read_fat(b, d) = Value12(d, b[p], b[p + 1])
    BY <2>3 DEF read_fat
  <2>6. read_fat(e, d) = WithLow(read_fat(b, d), v \div 16)
    BY <1>1, <2>2, <2>4, <2>5, LowByte
  <2>7. d # c
    BY <1>1, <1>5
  <2> QED
    BY <1>5, <2>6, <2>7 DEF EntryAfter
<1>6. CASE ~(Strays(c) /\ d = c + 1)
  <2>1. Strays(c) => p # o + 2 /\ p + 1 # o + 2
    <3> SUFFICES ASSUME Strays(c) PROVE p # o + 2 /\ p + 1 # o + 2
      OBVIOUS
    <3>1. Offset(c + 1) = o + 2 /\ c + 1 \in Nat /\ ~Odd(c + 1) /\ d # c + 1
      <4>1. Odd(c) /\ d # c + 1
        BY <1>6 DEF Strays
      <4>2. ~Odd(c + 1)
        BY <1>1, <4>1 DEF Odd
      <4> QED
        BY <1>1, <4>1, <4>2, NextOffset
    <3>2. CASE d < c + 1
      BY <1>1, <3>1, <3>2, OffsetsApart
    <3>3. CASE c + 1 < d
      BY <1>1, <3>1, <3>3, OffsetsApart
    <3> QED
      BY <1>1, <3>1, <3>2, <3>3
  <2>2. e[p] = s[p] /\ e[p + 1] = s[p + 1]
    <3> HIDE DEF o, p
    <3> QED BY <1>1, <1>4, <2>1
  <2>3. read_fat(e, d) = read_fat(s, d)
    BY <2>2 DEF read_fat
  <2> QED
    BY <1>3, <1>6, <2>3 DEF EntryAfter
<1> QED
  BY <1>5, <1>6

-----------------------------------------------------------------------------
(* The loop.                                                               *)

\* The value of cluster c of the chain, and what turn i leaves behind.
Successor(start, n, c) == IF c = start + n - 1 THEN 4095 ELSE c + 1

Run(g, b, start, n, m) ==
    g = [i \in 0..m |->
           IF i = 0 THEN [file   |-> b,
                          sector |-> Offset(start) \div SectorSize,
                          buffer |-> SectorOf(b, Offset(start) \div SectorSize)]
           ELSE Turn(g[i - 1], start + i - 1, IF i < n THEN start + i ELSE 4095)]

\* The recursion of Turns has a function.
LEMMA RunExists ==
    ASSUME NEW b, NEW start, NEW n, NEW m \in Nat
    PROVE  \E g : Run(g, b, start, n, m)
<1> DEFINE T == {j \in Nat : \E g : Run(g, b, start, n, j)}
           at0 == [file   |-> b,
                   sector |-> Offset(start) \div SectorSize,
                   buffer |-> SectorOf(b, Offset(start) \div SectorSize)]
           Next1(at, i) == Turn(at, start + i - 1, IF i < n THEN start + i ELSE 4095)
<1>1. 0 \in T
  <2> DEFINE g == [i \in 0..0 |-> at0]
  <2>1. g = [i \in 0..0 |-> IF i = 0 THEN at0 ELSE Next1(g[i - 1], i)]
    <3>1. \A i \in 0..0 : i = 0
      OBVIOUS
    <3> HIDE DEF at0, Next1
    <3> QED BY <3>1
  <2> QED
    BY <2>1 DEF Run
<1>2. ASSUME NEW j \in Nat, j \in T PROVE j + 1 \in T
  <2>1. PICK h : Run(h, b, start, n, j)
    BY <1>2
  <2>2. h = [i \in 0..j |-> IF i = 0 THEN at0 ELSE Next1(h[i - 1], i)]
    BY <2>1 DEF Run
  <2> DEFINE g == [i \in 0..j + 1 |-> IF i = j + 1 THEN Next1(h[j], j + 1) ELSE h[i]]
  <2> HIDE DEF at0, Next1
  <2>3. \A i \in 0..j + 1 : g[i] = IF i = 0 THEN at0 ELSE Next1(g[i - 1], i)
    <3> SUFFICES ASSUME NEW i \in 0..j + 1
                 PROVE  g[i] = IF i = 0 THEN at0 ELSE Next1(g[i - 1], i)
      OBVIOUS
    <3>1. CASE i = j + 1
      <4>1. i # 0 /\ i - 1 = j /\ j \in 0..j + 1 /\ j # j + 1
        BY <3>1
      <4>2. g[i] = Next1(h[j], j + 1) /\ g[j] = h[j]
        BY <3>1, <4>1
      <4> HIDE DEF g
      <4> QED BY <3>1, <4>1, <4>2
    <3>2. CASE i \in 0..j
      <4>1. i # j + 1 /\ g[i] = h[i]
        BY <3>2
      <4>2. h[i] = IF i = 0 THEN at0 ELSE Next1(h[i - 1], i)
        BY <2>2, <3>2
      <4>3. i # 0 => g[i - 1] = h[i - 1]
        BY <3>2
      <4> HIDE DEF g
      <4> QED BY <4>1, <4>2, <4>3
    <3> QED
      BY <3>1, <3>2
  <2>4. g = [i \in 0..j + 1 |-> g[i]]
    OBVIOUS
  <2>5. g = [i \in 0..j + 1 |-> IF i = 0 THEN at0 ELSE Next1(g[i - 1], i)]
    <3> HIDE DEF g
    <3> QED BY <2>3, <2>4
  <2>6. Run(g, b, start, n, j + 1)
    <3> HIDE DEF g
    <3> QED BY <2>5 DEF Run, at0, Next1
  <2> QED
    BY <2>6
<1> HIDE DEF T
<1>3. m \in T
  BY <1>1, <1>2, Induction
<1> QED
  BY <1>3 DEF T

\* So Turns is the sequence of the turns.
LEMMA TurnsRun ==
    ASSUME NEW b, NEW start, NEW n \in Nat
    PROVE  Run(Turns(b, start, n), b, start, n, n)
<1>1. \E g : Run(g, b, start, n, n)
  BY RunExists
<1> QED
  BY <1>1 DEF Run, Turns

\* The entries up to one of the table are in it.
LEMMA EntriesBelow ==
    ASSUME NEW d \in Entries, NEW c \in Nat, c <= d
    PROVE  c \in Entries
<1>1. d \in Nat /\ Offset(d) + 1 < Length /\ d <= Length
  BY OffsetRange, LengthNat DEF Entries
<1>2. Offset(c) <= Offset(d) /\ Offset(c) \in Nat /\ Offset(d) \in Nat
  BY <1>1 DEF Offset
<1> QED
  BY <1>1, <1>2, LengthNat DEF Entries

\* The entry of cluster d after i turns.
Partial(b, start, n, i, d) ==
    IF d \in start..start + i - 1 THEN Successor(start, n, d)
    ELSE IF i > 0 /\ d = start + i /\ Strays(d - 1)
         THEN WithLow(read_fat(b, d), Successor(start, n, d - 1) \div 16)
         ELSE read_fat(b, d)

\* What is true after i turns.
After(b, start, n, i) ==
    LET at == Turns(b, start, n)[i]
    IN  /\ at \in States
        /\ at.sector = Offset(start + i) \div SectorSize
        /\ \A d \in Entries : read_fat(Flushed(at), d) = Partial(b, start, n, i, d)

\* It is true after every turn, by induction over the turns.
LEMMA TurnsReach ==
    ASSUME NEW b \in [Address -> Byte], NEW start \in Nat, NEW n \in Nat \ {0},
           start + n \in Entries, start + n \in Word
    PROVE  \A i \in 0..n : After(b, start, n, i)
<1> DEFINE T == {i \in Nat : i <= n => After(b, start, n, i)}
           g == Turns(b, start, n)
<1>1. \A i \in 0..n : g[i] = IF i = 0 THEN [file   |-> b,
                               sector |-> Offset(start) \div SectorSize,
                               buffer |-> SectorOf(b, Offset(start) \div SectorSize)]
                ELSE Turn(g[i - 1], start + i - 1, IF i < n THEN start + i ELSE 4095)
  <2>1. Run(g, b, start, n, n)
    BY TurnsRun
  <2> HIDE DEF g
  <2> QED
    BY <2>1 DEF Run
<1> HIDE DEF g
<1>2. 0 \in T
  <2> DEFINE f == Offset(start) \div SectorSize
  <2>1. start \in Entries /\ Offset(start) \in Address
    <3>1. start <= start + n
      OBVIOUS
    <3>2. start \in Entries
      BY <3>1, EntriesBelow
    <3> QED
      BY <3>2, OffsetRange
  <2>2. f \in Nat /\ \A r \in 0..SectorSize-1 : SectorSize * f + r \in Address
    <3>1. ASSUME NEW r \in 0..SectorSize-1 PROVE SectorSize * f + r \in Address
      BY <2>1, WholeSectors
    <3>2. f \in Nat
      <4>1. Offset(start) \in Nat
        BY NextOffset
      <4> QED
        BY <4>1, Places
    <3> QED
      BY <3>1, <3>2
  <2>3. SectorOf(b, f) = [r \in 0..SectorSize-1 |-> b[SectorSize * f + r]]
    <3>1. \A r \in 0..SectorSize-1 : f * SectorSize + r = SectorSize * f + r
      <4> HIDE DEF f
      <4> QED BY <2>2, SizeAssumption
    <3> QED
      BY <3>1 DEF SectorOf
  <2>4. g[0] = [file |-> b, sector |-> f, buffer |-> SectorOf(b, f)]
    BY <1>1
  <2> HIDE DEF f
  <2>5. SectorOf(b, f) \in [0..SectorSize-1 -> Byte]
    BY <2>2, <2>3
  <2>6. g[0] \in States /\ g[0].sector = f /\ g[0].file = b /\ g[0].buffer = SectorOf(b, f)
    BY <2>2, <2>4, <2>5 DEF States
  <2>7. \A k \in Address : Flushed(g[0])[k] = b[k]
    <3> SUFFICES ASSUME NEW k \in Address PROVE Flushed(g[0])[k] = b[k]
      OBVIOUS
    <3>1. /\ k % SectorSize \in 0..SectorSize-1
          /\ k = SectorSize * (k \div SectorSize) + (k % SectorSize)
      <4>1. k \in Nat
        BY LengthNat DEF Address
      <4> QED
        BY <4>1, Places
    <3>2. Flushed(g[0])[k] = IF k \div SectorSize = f THEN SectorOf(b, f)[k % SectorSize] ELSE b[k]
      BY <2>6, FlushedBytes
    <3>3. SectorOf(b, f)[k % SectorSize] = b[SectorSize * f + (k % SectorSize)]
      BY <2>3, <3>1
    <3> QED
      BY <3>1, <3>2, <3>3
  <2>8. ASSUME NEW d \in Entries PROVE read_fat(Flushed(g[0]), d) = Partial(b, start, n, 0, d)
    <3>1. read_fat(Flushed(g[0]), d) = read_fat(b, d)
      BY <2>7, OffsetRange DEF read_fat
    <3>2. d \notin start..start + 0 - 1
      BY OffsetRange
    <3> QED
      BY <3>1, <3>2 DEF Partial
  <2>9. start + 0 = start
    OBVIOUS
  <2> QED
    BY <2>6, <2>8, <2>9 DEF After, g, f
<1>3. ASSUME NEW j \in Nat, j \in T PROVE j + 1 \in T
  <2> SUFFICES ASSUME j + 1 <= n PROVE After(b, start, n, j + 1)
    OBVIOUS
  <2> DEFINE c  == start + j
             v  == Successor(start, n, c)
             at == g[j]
             to == g[j + 1]
  <2>1. /\ at \in States /\ at.sector = Offset(c) \div SectorSize
        /\ \A d \in Entries : read_fat(Flushed(at), d) = Partial(b, start, n, j, d)
    BY <1>3 DEF After, g
  <2>2. to = Turn(at, c, v)
    <3>1. /\ j + 1 \in 0..n /\ j + 1 # 0 /\ j + 1 - 1 = j /\ start + (j + 1) - 1 = c
          /\ v = IF j + 1 < n THEN start + (j + 1) ELSE 4095
      BY DEF Successor
    <3> HIDE DEF c, v
    <3> QED
      BY <1>1, <3>1
  <2>3. /\ c \in Entries /\ c + 1 \in Entries /\ v \in Word /\ c \in Nat
    <3>1. c \in Nat /\ c + 1 \in Nat /\ c <= start + n /\ c + 1 <= start + n
      OBVIOUS
    <3>2. c \in Entries /\ c + 1 \in Entries
      BY <3>1, EntriesBelow
    <3>3. v \in Word
      BY <3>1 DEF Successor, Word
    <3> QED
      BY <3>1, <3>2, <3>3
  <2>4. TurnDone(at, c, v)
    <3> HIDE DEF c, v, at
    <3> QED BY <2>1, <2>3, TurnInside, TurnAcross
  <2>5. to \in States /\ to.sector = Offset(c + 1) \div SectorSize
    <3> HIDE DEF c, v, at, to
    <3> QED BY <2>2, <2>4 DEF TurnDone
  <2>6. ASSUME NEW d \in Entries
        PROVE  read_fat(Flushed(to), d) = Partial(b, start, n, j + 1, d)
    <3>1. Flushed(to) \in [Address -> Byte] /\ Flushed(at) \in [Address -> Byte]
      <4> HIDE DEF at, to
      <4> QED BY <2>1, <2>5, FlushedBytes
    <3>2. read_fat(Flushed(to), d) = EntryAfter(Flushed(at), c, v, d)
      <4>1. \A k \in Address : Flushed(to)[k] = ByteAfter(Flushed(at), c, v, k)
        <5> HIDE DEF at, to, c, v
        <5> QED BY <2>2, <2>4 DEF TurnDone
      <4> HIDE DEF at, to, c, v
      <4> QED BY <2>3, <3>1, <4>1, TurnReads
    <3>3. read_fat(Flushed(at), d) = Partial(b, start, n, j, d)
      BY <2>1
    <3> HIDE DEF at, to
    <3>4. d \in Nat
      BY OffsetRange
    <3>5. CASE d = c
      <4>1. d \in start..start + (j + 1) - 1
        BY <3>5
      <4>2. read_fat(Flushed(to), d) = v
        BY <3>2, <3>5 DEF EntryAfter
      <4> QED  BY <3>5, <4>1, <4>2 DEF Partial
    <3>6. CASE d = c + 1
      <4>1. d \notin start..start + (j + 1) - 1 /\ j + 1 > 0 /\ d = start + (j + 1) /\ d - 1 = c /\ d # c
        BY <3>6
      <4>2. d \notin start..start + j - 1 /\ d # start + j
        BY <3>6
      <4>3. read_fat(Flushed(at), d) = read_fat(b, d)
        BY <3>3, <4>2 DEF Partial
      <4>4. read_fat(Flushed(to), d) = IF Strays(c) THEN WithLow(read_fat(b, d), v \div 16)
                                   ELSE read_fat(b, d)
        BY <3>2, <3>6, <4>1, <4>3 DEF EntryAfter
      <4>5. Partial(b, start, n, j + 1, d) = IF Strays(c) THEN WithLow(read_fat(b, d), v \div 16)
                                             ELSE read_fat(b, d)
        <5> HIDE DEF c
        <5> QED BY <4>1 DEF Partial, v
      <4> QED  BY <4>4, <4>5
    <3>7. CASE d # c /\ d # c + 1
      <4>1. read_fat(Flushed(to), d) = Partial(b, start, n, j, d)
        BY <3>2, <3>3, <3>7 DEF EntryAfter
      <4>2. /\ d \in start..start + (j + 1) - 1 <=> d \in start..start + j - 1
            /\ d # start + j /\ d # start + (j + 1)
        BY <3>4, <3>7
      <4> QED  BY <4>1, <4>2 DEF Partial
    <3> QED
      BY <3>5, <3>6, <3>7
  <2>7. c + 1 = start + (j + 1)
    OBVIOUS
  <2> QED
    <3> HIDE DEF c
    <3> QED BY <2>5, <2>6, <2>7 DEF After, to, g
<1> HIDE DEF T
<1>4. \A i \in Nat : i \in T
  BY <1>2, <1>3, Induction
<1> QED
  BY <1>4 DEF T

-----------------------------------------------------------------------------
(* One call of bulk_update_fat.                                            *)

\* The table stays a file of bytes, and its entries are those after the last
\* turn.
LEMMA BulkReads ==
    ASSUME TypeOK, NEW x \in Chains, bulk_update_fat(x[1], x[2])
    PROVE  /\ bytes' \in [Address -> Byte]
           /\ \A d \in Entries : read_fat(bytes', d) = Partial(bytes, x[1], x[2], x[2], d)
<1> DEFINE end == Turns(bytes, x[1], x[2])[x[2]]
<1>1. /\ bytes \in [Address -> Byte] /\ x[1] \in Nat /\ x[2] \in Nat \ {0}
      /\ x[1] + x[2] \in Entries /\ x[1] + x[2] \in Word
  BY ChainsAssumption DEF TypeOK
<1>2. bytes' = Flushed(end)
  BY DEF bulk_update_fat, Flushed
<1>3. x[2] \in 0..x[2]
  BY <1>1
<1>4. /\ end \in States
      /\ \A d \in Entries : read_fat(Flushed(end), d) = Partial(bytes, x[1], x[2], x[2], d)
  BY <1>1, <1>3, TurnsReach DEF After
<1> HIDE DEF end
<1> QED
  BY <1>2, <1>4, FlushedBytes

\* The odd clusters that end a sector, as FatChain has them.
LEMMA SameStrays ==
    ASSUME NEW c \in Nat
    PROVE  Chain!EndsSector(c) <=> Strays(c)
<1>1. Offset(c) \in Nat /\ Offset(c) % SectorSize \in 0..SectorSize-1
  BY NextOffset, Places
<1> QED
  BY <1>1, SizeAssumption DEF Chain!EndsSector, Strays, Odd, Offset

\* The step of bulk_update_fat, as the step of the array.
LEMMA BulkStep ==
    ASSUME TypeOK, NEW x \in Chains, bulk_update_fat(x[1], x[2])
    PROVE  /\ table' = Chain!bulk_update_fat(table, x[1], x[2])
           /\ Table!SetChain(x[1], x[2])
<1> DEFINE s == x[1]
           n == x[2]
           last == s + n - 1
<1>1. s \in Nat /\ n \in Nat \ {0} /\ n > 0 /\ last \in Nat /\ last + 1 = s + n
  BY ChainsAssumption
<1>2. /\ table = [d \in Entries |-> read_fat(bytes, d)]
      /\ table' = [d \in Entries |-> read_fat(bytes', d)]
  BY DEF table
<1>3. /\ bytes' \in [Address -> Byte]
      /\ \A d \in Entries : read_fat(bytes', d) = Partial(bytes, s, n, n, d)
  BY BulkReads
<1> HIDE DEF s, n, last
\* Each entry: of the chain, after it, or another.
<1>4. ASSUME NEW d \in Entries
      PROVE  /\ d \in s..s + n - 2 => table'[d] = d + 1
             /\ d = last => table'[d] = 4095
             /\ d \notin s..last => table'[d] = IF Chain!EndsSector(last) /\ d = last + 1
                                                THEN table[d] - (table[d] % 256) + 255
                                                ELSE table[d]
  <2>1. d \in Nat /\ s + n - 1 = last
    BY OffsetRange DEF last
  <2>2. table'[d] = Partial(bytes, s, n, n, d) /\ table[d] = read_fat(bytes, d)
    BY <1>2, <1>3
  <2>3. CASE d \in s..last
    <3>1. table'[d] = Successor(s, n, d)
      BY <2>1, <2>2, <2>3 DEF Partial
    <3>2. d \in s..s + n - 2 <=> d # last
      BY <1>1, <2>1, <2>3
    <3> QED
      BY <2>1, <2>3, <3>1, <3>2 DEF Successor
  <2>4. CASE d \notin s..last
    <3>1. /\ d \notin s..s + n - 2 /\ d # last
          /\ d = s + n <=> d = last + 1
          /\ d = last + 1 => d - 1 = last
      BY <1>1, <2>1, <2>4
    <3>2. Successor(s, n, last) \div 16 = 255
      BY <2>1 DEF Successor
    <3>3. table'[d] = IF d = last + 1 /\ Strays(last) THEN WithLow(read_fat(bytes, d), 255)
                      ELSE read_fat(bytes, d)
      BY <1>1, <2>1, <2>2, <2>4, <3>1, <3>2 DEF Partial
    <3>4. Chain!EndsSector(last) <=> Strays(last)
      BY <1>1, SameStrays
    <3> QED
      BY <2>2, <2>4, <3>1, <3>3, <3>4 DEF WithLow
  <2> QED
    BY <2>3, <2>4
<1>5. table' = Chain!bulk_update_fat(table, s, n)
  <2>1. DOMAIN table = Entries
    BY <1>2
  <2> DEFINE f == Chain!Chained(table, s, n)
  <2>2. f = [d \in Entries |-> CASE d \in s..s + n - 2 -> d + 1
                                 [] d = s + n - 1      -> 4095
                                 [] OTHER              -> table[d]]
    BY <2>1 DEF Chain!Chained
  <2>3. ASSUME NEW d \in Entries
        PROVE  f[d] = IF d \in s..s + n - 2 THEN d + 1 ELSE IF d = last THEN 4095 ELSE table[d]
    <3>1. ~(d \in s..s + n - 2 /\ d = s + n - 1) /\ s + n - 1 = last
      BY <1>1 DEF last
    <3> HIDE DEF f
    <3> QED
      BY <2>2, <3>1
  <2>4. DOMAIN f = Entries
    BY <2>2
  <2>5. Chain!bulk_update_fat(table, s, n) =
          [d \in Entries |-> IF Chain!EndsSector(last) /\ d = last + 1
                             THEN f[d] - (f[d] % 256) + 255 ELSE f[d]]
    BY <2>4 DEF Chain!bulk_update_fat, Chain!Stray, last
  <2> HIDE DEF f
  <2>6. ASSUME NEW d \in Entries
        PROVE  table'[d] = IF Chain!EndsSector(last) /\ d = last + 1
                           THEN f[d] - (f[d] % 256) + 255 ELSE f[d]
    <3>1. d \in Nat /\ s + n - 2 = last - 1
      BY <1>1, OffsetRange DEF last
    <3>2. CASE d \in s..s + n - 2
      BY <1>1, <1>4, <2>3, <3>1, <3>2
    <3>3. CASE d = last
      BY <1>1, <1>4, <2>3, <3>1, <3>3
    <3>4. CASE d \notin s..last
      <4>1. d \notin s..s + n - 2 /\ d # last
        BY <1>1, <3>1, <3>4
      <4>2. f[d] = table[d]
        BY <2>3, <4>1
      <4> QED  BY <1>4, <3>4, <4>2
    <3> QED
      BY <1>1, <3>1, <3>2, <3>3, <3>4
  <2> QED
    BY <1>2, <2>5, <2>6
<1>6. Table!SetChain(s, n)
  <2>1. \A d \in Entries \ {s + n} :
          table'[d] = IF d \in s..s + n - 2 THEN d + 1
                      ELSE IF d = s + n - 1 THEN 4095 ELSE table[d]
    <3> SUFFICES ASSUME NEW d \in Entries \ {s + n}
                 PROVE  table'[d] = IF d \in s..s + n - 2 THEN d + 1
                                    ELSE IF d = s + n - 1 THEN 4095 ELSE table[d]
      OBVIOUS
    <3>1. d \in Nat /\ s + n - 1 = last /\ s + n - 2 = last - 1 /\ d # last + 1
      BY <1>1, OffsetRange DEF last
    <3>2. d \in s..last => d \in s..s + n - 2 \/ d = last
      BY <1>1, <3>1
    <3>3. d \notin s..last => d \notin s..s + n - 2 /\ d # last
      BY <1>1, <3>1
    <3>4. d = last => d \notin s..s + n - 2
      BY <1>1, <3>1
    <3> QED
      BY <1>4, <3>1, <3>2, <3>3, <3>4
  <2>2. table' \in [Entries -> 0..4095]
    <3>1. \A d \in Entries : read_fat(bytes', d) \in Word
      BY <1>3, ReadRange
    <3> QED
      BY <1>2, <3>1 DEF Word
  <2> QED
    BY <2>1, <2>2 DEF Table!SetChain
<1> QED
  BY <1>5, <1>6 DEF s, n

-----------------------------------------------------------------------------
(* The theorems.                                                           *)

\* The table is always a file of bytes, whatever is stored in it.
THEOREM TypeCorrect == Spec => []TypeOK
<1>1. Init => TypeOK
  BY LengthNat DEF Init, TypeOK, Byte
<1>2. TypeOK /\ [Next]_bytes => TypeOK'
  <2> SUFFICES ASSUME TypeOK, [Next]_bytes PROVE TypeOK'
    OBVIOUS
  <2> USE DEF TypeOK
  <2>1. ASSUME NEW c \in Entries, NEW v \in FatValues, update_fat(c, v) PROVE TypeOK'
    <3>1. v \in Word
      BY InputAssumption
    <3>2. Stored(bytes, c, v) \in [Address -> Byte]
      BY <3>1, StoredBytes
    <3> QED
      BY <2>1, <3>2 DEF update_fat
  <2>2. ASSUME NEW s \in 0..NumSectors-1, NEW image \in Images, save_fat_sector(s, image)
        PROVE TypeOK'
    <3>1. Loaded(bytes, s, image) \in [Address -> Byte]
      BY LoadedBytes
    <3> QED
      BY <2>2, <3>1 DEF save_fat_sector
  <2>3. ASSUME NEW x \in Chains, bulk_update_fat(x[1], x[2]) PROVE TypeOK'
    BY <2>3, BulkReads
  <2>4. CASE UNCHANGED bytes
    BY <2>4
  <2> QED
    BY <2>1, <2>2, <2>3, <2>4 DEF Next
<1> QED
  BY <1>1, <1>2, PTL DEF Spec

\* The step of update_fat, as the step of the array.
LEMMA UpdateStep ==
    ASSUME TypeOK, NEW c \in Entries, NEW v \in FatValues, update_fat(c, v)
    PROVE  Table!Set(c, v)
<1>1. v \in Word /\ bytes \in [Address -> Byte]
  BY InputAssumption DEF TypeOK
<1>2. bytes' = Stored(bytes, c, v)
  BY DEF update_fat
<1>3. read_fat(bytes', c) = v
  BY <1>1, <1>2, StoredSame
<1>4. ASSUME NEW d \in Entries, d # c PROVE read_fat(bytes', d) = read_fat(bytes, d)
  BY <1>1, <1>2, <1>4, StoredOther
<1> QED
  BY <1>3, <1>4 DEF Table!Set, table

\* update_fat sets one entry of the array and leaves every other as it was.
THEOREM UpdateSets == Spec => UpdateIsSet
<1>1. TypeOK /\ [Next]_bytes =>
        [\A c \in Entries, v \in FatValues : update_fat(c, v) => Table!Set(c, v)]_bytes
  <2> SUFFICES ASSUME TypeOK, NEW c \in Entries, NEW v \in FatValues, update_fat(c, v)
               PROVE  Table!Set(c, v)
    OBVIOUS
  <2> QED
    BY UpdateStep
<1> QED
  BY <1>1, TypeCorrect, PTL DEF Spec, UpdateIsSet

\* bulk_update_fat stores the chain and the stray byte that FatChain says,
\* whatever boundaries the chain crosses.
THEOREM BulkStoresChain == Spec => BulkIsChain
<1>1. TypeOK /\ [Next]_bytes =>
        [\A x \in Chains : Unused(x[1]) /\ bulk_update_fat(x[1], x[2])
             => table' = Chain!bulk_update_fat(table, x[1], x[2])]_bytes
  <2> SUFFICES ASSUME TypeOK, NEW x \in Chains, bulk_update_fat(x[1], x[2])
               PROVE  table' = Chain!bulk_update_fat(table, x[1], x[2])
    OBVIOUS
  <2> QED
    BY BulkStep
<1> QED
  BY <1>1, TypeCorrect, PTL DEF Spec, BulkIsChain

\* The packed table implements the array of FatTable.
THEOREM Refinement == Spec => TableRefined
<1>1. Init => Table!Init
  <2> SUFFICES ASSUME Init, NEW c \in Entries
               PROVE  read_fat(bytes, c) = CASE c = 0 -> 4088 [] c = 1 -> 4095 [] OTHER -> 0
    BY DEF Table!Init, table
  <2>1. /\ c \in Nat /\ Offset(c) \in Address /\ Offset(c) + 1 \in Address
    BY OffsetRange
  <2>2. CASE c = 0
    <3>1. Offset(c) = 0 /\ ~Odd(c)
      BY <2>2 DEF Offset, Odd
    <3>2. bytes[Offset(c)] = 248 /\ bytes[Offset(c) + 1] = 255
      BY <2>1, <3>1 DEF Init
    <3> QED
      BY <2>2, <3>1, <3>2 DEF read_fat, Value12
  <2>3. CASE c = 1
    <3>1. Offset(c) = 1 /\ Odd(c)
      BY <2>3 DEF Offset, Odd
    <3>2. bytes[Offset(c)] = 255 /\ bytes[Offset(c) + 1] = 255
      BY <2>1, <3>1 DEF Init
    <3> QED
      BY <2>3, <3>1, <3>2 DEF read_fat, Value12
  <2>4. CASE c # 0 /\ c # 1
    <3>1. Offset(c) > 2 /\ Offset(c) + 1 > 2
      BY <2>1, <2>4 DEF Offset
    <3>2. bytes[Offset(c)] = 0 /\ bytes[Offset(c) + 1] = 0
      BY <2>1, <3>1 DEF Init
    <3> QED
      BY <2>1, <2>4, <3>2 DEF read_fat, Value12
  <2> QED
    BY <2>2, <2>3, <2>4
<1>2. TypeOK /\ [Next]_bytes => [Table!Next]_table
  <2> SUFFICES ASSUME TypeOK, [Next]_bytes PROVE [Table!Next]_table
    OBVIOUS
  <2>1. ASSUME NEW c \in Entries, NEW v \in FatValues, update_fat(c, v)
        PROVE  Table!Next
    <3>1. Table!Set(c, v)
      BY <2>1, UpdateStep
    <3> QED
      BY <3>1 DEF Table!Next
  <2>2. ASSUME NEW s \in 0..NumSectors-1, NEW image \in Images, save_fat_sector(s, image)
        PROVE  Table!Next
    <3>1. /\ bytes \in [Address -> Byte]
          /\ bytes' = Loaded(bytes, s, image)
      BY <2>2 DEF TypeOK, save_fat_sector
    <3>2. bytes' \in [Address -> Byte]
      BY <3>1, LoadedBytes
    <3>3. ASSUME NEW d \in Entries PROVE read_fat(bytes', d) \in Word
      BY <3>2, ReadRange
    <3>4. ASSUME NEW d \in Entries \ TouchedBy(s)
          PROVE  read_fat(bytes', d) = read_fat(bytes, d)
      BY <3>1, LoadedOther
    <3>5. table' \in [Entries -> Word]
      BY <3>3 DEF table
    <3>6. \A d \in Entries \ TouchedBy(s) : table'[d] = table[d]
      BY <3>4 DEF table
    <3>7. Table!Load(TouchedBy(s))
      BY <3>5, <3>6 DEF Table!Load, Word
    <3> QED
      BY <3>7 DEF Table!Next
  <2>3. ASSUME NEW x \in Chains, bulk_update_fat(x[1], x[2]) PROVE Table!Next
    <3>1. Table!SetChain(x[1], x[2])
      BY <2>3, BulkStep
    <3> QED
      BY <3>1 DEF Table!Next
  <2>4. CASE UNCHANGED bytes
    BY <2>4 DEF table
  <2> QED
    BY <2>1, <2>2, <2>3, <2>4 DEF Next
<1> QED
  BY <1>1, <1>2, TypeCorrect, PTL DEF Spec, TableRefined, Table!Spec
=============================================================================
