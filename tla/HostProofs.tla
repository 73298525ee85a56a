----------------------------- MODULE HostProofs -----------------------------
(***************************************************************************)
(* What the drive does for a macOS host, for every size of the disk.  The  *)
(* invariant HostInv follows an operation of the host through the sectors  *)
(* it sends and the steps of mimic_fat_write; from it come the theorems at *)
(* the end, the last of which is that the drive implements FileStore.      *)
(***************************************************************************)
EXTENDS FatHost, FatTreeProofs, FiniteSetTheorems

\* A chain of the table: the clusters w, with the mark at the end.
Linked(f, w) ==
    /\ w \in Seq(2..NumClusters)
    /\ w # <<>>
    /\ Len(w) <= NumClusters
    /\ \A j, k \in 1..Len(w) : w[j] = w[k] => j = k
    /\ \A k \in 1..Len(w) : f[w[k]] = IF k = Len(w) THEN EOC ELSE w[k + 1]

Cells(w) == {w[k] : k \in 1..Len(w)}

\* A chain is its first cluster and what follows it.
LEMMA FromParts ==
    ASSUME NEW S, NEW w \in Seq(S), w # <<>>
    PROVE  /\ Len(w) \in Nat \ {0}
           /\ <<w[Len(w)]>> = SubSeq(w, Len(w), Len(w))
           /\ \A k \in 1..(Len(w) - 1) : 
                 <<w[k]>> \o SubSeq(w, k + 1, Len(w)) = SubSeq(w, k, Len(w))
           /\ SubSeq(w, 1, Len(w)) = w
<1>1. Len(w) \in Nat \ {0}
  BY EmptySeq
<1>2. <<w[Len(w)]>> = SubSeq(w, Len(w), Len(w))
  BY <1>1
<1>3. ASSUME NEW k \in 1..(Len(w) - 1)
      PROVE  <<w[k]>> \o SubSeq(w, k + 1, Len(w)) = SubSeq(w, k, Len(w))
  <2> DEFINE a == <<w[k]>>
             b == SubSeq(w, k + 1, Len(w))
             c == SubSeq(w, k, Len(w))
  <2>1. /\ a \in Seq(S) /\ b \in Seq(S) /\ c \in Seq(S)
        /\ Len(a) = 1 /\ Len(b) = Len(w) - k /\ Len(c) = Len(w) - k + 1
        /\ a[1] = w[k]
        /\ \A j \in 1..(Len(w) - k) : b[j] = w[k + j]
        /\ \A j \in 1..(Len(w) - k + 1) : c[j] = w[k + j - 1]
    BY <1>1
  <2> HIDE DEF a, b, c
  <2>2. /\ a \o b \in Seq(S)
        /\ Len(a \o b) = Len(w) - k + 1
        /\ (a \o b)[1] = w[k]
        /\ \A j \in 2..(Len(w) - k + 1) : (a \o b)[j] = w[k + j - 1]
    <3>1. /\ a \o b \in Seq(S)
          /\ Len(a \o b) = Len(a) + Len(b)
          /\ \A j \in 1..(Len(a) + Len(b)) :
                (a \o b)[j] = IF j <= Len(a) THEN a[j] ELSE b[j - Len(a)]
      BY <2>1, ConcatProperties
    <3>2. ASSUME NEW j \in 2..(Len(w) - k + 1) PROVE (a \o b)[j] = w[k + j - 1]
      <4>1. j \in 1..(Len(a) + Len(b)) /\ ~(j <= Len(a)) /\ j - Len(a) = j - 1
            /\ j - 1 \in 1..(Len(w) - k) /\ k + (j - 1) = k + j - 1
        BY <1>1, <2>1
      <4>2. b[j - 1] = w[k + (j - 1)]
        BY <2>1, <4>1
      <4> QED  BY <3>1, <4>1, <4>2
    <3> QED  BY <1>1, <2>1, <3>1, <3>2, SMTT(30)
  <2>3. \A j \in 1..Len(c) : (a \o b)[j] = c[j]
    <3> SUFFICES ASSUME NEW j \in 1..Len(c) PROVE (a \o b)[j] = c[j]
      OBVIOUS
    <3>1. Len(w) - k \in Nat /\ Len(c) = (Len(w) - k) + 1
      BY <1>1, <2>1
    <3>2. CASE j = 1
      <4>1. c[1] = w[k] /\ 1 \in 1..Len(c)
        <5>1. c[1] = w[k + 1 - 1] /\ k + 1 - 1 = k
          BY <2>1, <3>1, SMTT(30)
        <5> QED  BY <5>1, <3>1
      <4> QED  BY <2>2, <3>2, <4>1
    <3>3. CASE j # 1
      <4>1. j \in 2..(Len(w) - k + 1)
        BY <3>1, <3>3
      <4> QED  BY <2>1, <2>2, <4>1
    <3> QED  BY <3>2, <3>3
  <2>4. a \o b = c
    BY <2>1, <2>2, <2>3, SeqEqual
  <2> QED  BY <2>4 DEF a, b, c
<1>4. SubSeq(w, 1, Len(w)) = w
  BY <1>1
<1> QED  BY <1>1, <1>2, <1>3, <1>4

\* The host, following the table from the first cluster of a chain, finds it all.
LEMMA ChainWhole ==
    ASSUME TableFits, NEW f, NEW w, Linked(f, w)
    PROVE  ChainOf(f, w[1]) = w
<1>1. PICK h : ChainsBy(h, f) /\ \A c : ChainOf(f, c) = h[NumClusters][c]
  BY ChainUnfolds
<1>2. /\ w \in Seq(2..NumClusters) /\ w # <<>> /\ Len(w) \in Nat \ {0} /\ Len(w) <= NumClusters
  BY FromParts DEF Linked
<1> DEFINE From(k) == SubSeq(w, k, Len(w))
           T == {r \in Nat : r < Len(w) =>
                    \A left \in (r + 1)..NumClusters : h[left][w[Len(w) - r]] = From(Len(w) - r)}
<1>3. ASSUME NEW k \in 1..Len(w), NEW left \in 1..NumClusters
      PROVE  h[left][w[k]] = IF k = Len(w) THEN <<w[k]>> ELSE <<w[k]>> \o h[left - 1][w[k + 1]]
  <2>1. w[k] \in Cluster /\ w[k] >= 2
    BY <1>2, ClusterAssumption DEF Cluster
  <2>2. h[left][w[k]] = IF EndsChain(f[w[k]]) \/ f[w[k]] \notin Cluster THEN <<w[k]>>
                        ELSE <<w[k]>> \o h[left - 1][f[w[k]]]
    BY <1>1, <2>1, ClusterAssumption DEF ChainsBy, Cluster
  <2>3. CASE k = Len(w)
    <3>1. f[w[k]] = EOC
      BY <2>3 DEF Linked
    <3> QED  BY <2>2, <2>3, <3>1 DEF EndsChain, EOC, MEDIA
  <2>4. CASE k # Len(w)
    <3>1. k + 1 \in 1..Len(w)
      BY <1>2, <2>4
    <3>2. f[w[k]] = w[k + 1]
      BY <2>4 DEF Linked
    <3>3. w[k + 1] \in 2..NumClusters
      BY <1>2, <3>1, ElementOfSeq
    <3>4. ~EndsChain(f[w[k]]) /\ f[w[k]] \in Cluster
      BY <3>2, <3>3, ClusterAssumption DEF EndsChain, FREE, MEDIA, Cluster, TableFits
    <3> QED  BY <2>2, <2>4, <3>2, <3>4
  <2> QED  BY <2>3, <2>4
<1>4. /\ <<w[Len(w)]>> = From(Len(w))
      /\ \A k \in 1..(Len(w) - 1) : <<w[k]>> \o From(k + 1) = From(k)
      /\ From(1) = w
  BY <1>2, FromParts
<1> HIDE DEF From
<1>5. 0 \in T
  <2>1. ASSUME NEW left \in 1..NumClusters PROVE h[left][w[Len(w)]] = From(Len(w))
    <3>1. Len(w) \in 1..Len(w)
      BY <1>2
    <3>2. h[left][w[Len(w)]] = <<w[Len(w)]>>
      BY <1>3, <3>1
    <3> QED  BY <1>4, <3>2
  <2>2. Len(w) - 0 = Len(w) /\ 0 + 1 = 1
    BY <1>2
  <2> QED  BY <2>1, <2>2
<1>6. ASSUME NEW r \in Nat, r \in T PROVE r + 1 \in T
  <2> SUFFICES ASSUME r + 1 < Len(w), NEW left \in (r + 2)..NumClusters
               PROVE  h[left][w[Len(w) - (r + 1)]] = From(Len(w) - (r + 1))
    OBVIOUS
  <2> DEFINE k == Len(w) - (r + 1)
  <2>1. k \in 1..(Len(w) - 1) /\ k + 1 = Len(w) - r /\ k # Len(w) /\ k \in 1..Len(w)
    BY <1>2
  <2>2. left \in 1..NumClusters /\ left - 1 \in (r + 1)..NumClusters
    BY ClusterAssumption
  <2>3. h[left - 1][w[Len(w) - r]] = From(Len(w) - r)
    BY <1>6, <2>2
  <2> HIDE DEF k, T
  <2>4. h[left][w[k]] = <<w[k]>> \o From(k + 1)
    BY <1>3, <2>1, <2>2, <2>3
  <2>5. h[left][w[k]] = From(k)
    BY <1>4, <2>1, <2>4
  <2> QED  BY <2>5 DEF k
<1>7. \A r \in Nat : r \in T
  <2> HIDE DEF T
  <2> QED  BY <1>5, <1>6, Induction
<1>8. Len(w) - 1 \in T
  BY <1>2, <1>7
<1>9. h[NumClusters][w[1]] = From(1)
  BY <1>2, <1>8, ClusterAssumption
<1> QED  BY <1>1, <1>4, <1>9

\* Chains stay when the table changes elsewhere.
LEMMA LinkedKept ==
    ASSUME NEW f, NEW g, NEW w, Linked(f, w), \A c \in Cells(w) : g[c] = f[c]
    PROVE  Linked(g, w)
<1>1. \A k \in 1..Len(w) : g[w[k]] = f[w[k]]
  BY DEF Cells
<1> QED  BY <1>1 DEF Linked

\* The clusters of a chain are data clusters, and none of them is free.
LEMMA LinkedCells ==
    ASSUME NEW f, NEW w, Linked(f, w)
    PROVE  /\ w[1] \in Cells(w)
           /\ Cells(w) \subseteq 2..NumClusters
           /\ \A c \in Cells(w) : f[c] # FREE
           /\ Len(w) \in 1..NumClusters
<1>1. w \in Seq(2..NumClusters) /\ Len(w) \in Nat \ {0} /\ Len(w) \in 1..NumClusters
  BY FromParts, ClusterAssumption DEF Linked
<1>2. \A k \in 1..Len(w) : w[k] \in 2..NumClusters
  BY <1>1, ElementOfSeq
<1>3. ASSUME NEW k \in 1..Len(w) PROVE f[w[k]] # FREE
  <2>1. f[w[k]] = IF k = Len(w) THEN EOC ELSE w[k + 1]
    BY DEF Linked
  <2>2. k # Len(w) => k + 1 \in 1..Len(w)
    BY <1>1
  <2> QED  BY <1>2, <2>1, <2>2, ClusterAssumption DEF EOC, FREE
<1> QED  BY <1>1, <1>2, <1>3 DEF Cells

Separate(w) == /\ w \in Seq(2..NumClusters)
               /\ w # <<>>
               /\ Len(w) <= NumClusters
               /\ \A j, k \in 1..Len(w) : w[j] = w[k] => j = k

\* A new chain is one, and no other value of the table changes.
LEMMA Allocated ==
    ASSUME NEW f, NEW w, Separate(w)
    PROVE  /\ Linked(Allocate(f, w), w)
           /\ \A c \in Cluster : c \notin Cells(w) => Allocate(f, w)[c] = f[c]
<1>1. ASSUME NEW k \in 1..Len(w)
      PROVE  Allocate(f, w)[w[k]] = IF k = Len(w) THEN EOC ELSE w[k + 1]
  <2>1. w[k] \in Cluster
    BY ElementOfSeq, ClusterAssumption DEF Separate, Cluster
  <2>2. (CHOOSE j \in 1..Len(w) : w[j] = w[k]) = k
    BY DEF Separate
  <2> QED  BY <2>1, <2>2 DEF Allocate
<1>2. ASSUME NEW c \in Cluster, c \notin Cells(w) PROVE Allocate(f, w)[c] = f[c]
  BY <1>2 DEF Allocate, Cells
<1> QED  BY <1>1, <1>2 DEF Linked, Separate

\* Release frees the chain and nothing else.
LEMMA Released ==
    ASSUME NEW f, NEW a
    PROVE  \A c \in Cluster : c \notin Cells(ChainOf(f, a)) => Release(f, a)[c] = f[c]
BY DEF Release, Cells

-----------------------------------------------------------------------------
(* The clusters Fresh takes.                                               *)

Below(S, c) == {x \in S : x < c}

\* In a finite set of numbers there is one above any k of them.
LEMMA RankTaken ==
    ASSUME NEW m \in Nat
    PROVE  \A S \in SUBSET (0..m) : \A k \in Nat :
              k < Cardinality(S) => \E c \in S : Cardinality(Below(S, c)) = k
<1> DEFINE Taken(n) == \A S \in SUBSET (0..m) : Cardinality(S) = n =>
                          \A k \in Nat : k < n => \E c \in S : Cardinality(Below(S, c)) = k
           T == {n \in Nat : Taken(n)}
<1>1. IsFiniteSet(0..m)
  <2>1. 0 \in Int /\ m \in Int
    OBVIOUS
  <2> QED  BY <2>1, FS_Interval
<1>2. 0 \in T
  OBVIOUS
<1>3. ASSUME NEW n \in Nat, n \in T PROVE n + 1 \in T
  <2> SUFFICES ASSUME NEW S \in SUBSET (0..m), Cardinality(S) = n + 1,
                      NEW k \in Nat, k < n + 1
               PROVE  \E c \in S : Cardinality(Below(S, c)) = k
    OBVIOUS
  <2>1. IsFiniteSet(S)
    BY <1>1, FS_Subset
  <2>2. S # {}
    BY FS_EmptySet
  <2>3. PICK top \in S : \A x \in S : x <= top
    <3>1. {m - x : x \in S} \in SUBSET Nat /\ {m - x : x \in S} # {}
      <4>1. \A x \in S : m - x \in Nat
        OBVIOUS
      <4> QED  BY <2>2, <4>1
    <3>2. PICK y \in {m - x : x \in S} : \A z \in {m - x : x \in S} : y <= z
      BY <3>1, LeastNatural
    <3>3. PICK top \in S : y = m - top
      BY <3>2
    <3>4. ASSUME NEW x \in S PROVE x <= top
      <4>1. m - top <= m - x
        BY <3>2, <3>3
      <4>2. x \in Nat /\ top \in Nat
        OBVIOUS
      <4> QED  BY <4>1, <4>2
    <3> QED  BY <3>4
  <2> DEFINE R == S \ {top}
  <2>4. IsFiniteSet(R) /\ Cardinality(R) = n /\ R \in SUBSET (0..m)
    BY <2>1, FS_RemoveElement
  <2>5. Below(S, top) = R
    <3>1. ASSUME NEW x \in R PROVE x < top
      <4>1. x <= top /\ x # top /\ x \in Nat /\ top \in Nat
        BY <2>3
      <4> QED  BY <4>1
    <3>2. ~(top < top)
      <4>1. top \in Nat
        OBVIOUS
      <4> QED  BY <4>1
    <3> QED  BY <3>1, <3>2 DEF Below
  <2>6. CASE k = n
    BY <2>4, <2>5, <2>6
  <2>7. CASE k # n
    <3>1. PICK c \in R : Cardinality(Below(R, c)) = k
      BY <1>3, <2>4, <2>7
    <3>2. Below(S, c) = Below(R, c)
      BY <2>3, <3>1 DEF Below
    <3> QED  BY <3>1, <3>2
  <2> QED  BY <2>6, <2>7
<1>4. \A n \in Nat : n \in T
  <2> HIDE DEF T
  <2> QED  BY <1>2, <1>3, Induction
<1>5. ASSUME NEW S \in SUBSET (0..m) PROVE Cardinality(S) \in Nat
  BY <1>1, FS_Subset, FS_CardinalityType
<1> QED  BY <1>4, <1>5

Ascends(w) == \A j, k \in 1..Len(w) : j < k => w[j] < w[k]
Takes(d, w, n) == Separate(w) /\ Ascends(w) /\ Len(w) = n /\ Cells(w) \subseteq Spare(d)

\* Fresh takes n different clusters that are free, in ascending order.
LEMMA FreshTakes ==
    ASSUME NEW d, NEW n \in Nat \ {0}, Fits(d, n)
    PROVE  Takes(d, Fresh(d, n), n)
<1> DEFINE S == Spare(d)
           w == Fresh(d, n)
           Rank(c) == Cardinality(Below(S, c))
           Pick(k) == CHOOSE c \in S : Rank(c) = k - 1
<1>1. S \in SUBSET (0..NumClusters) /\ S \in SUBSET (2..NumClusters) /\ NumClusters \in Nat
  BY ClusterAssumption DEF Spare
<1>2. w = [k \in 1..n |-> Pick(k)] /\ Cardinality(S) >= n
  BY DEF Fresh, Fits, Below
<1> HIDE DEF S, w, Rank, Pick
<1>3. /\ Cardinality(S) \in Nat
      /\ Cardinality(S) <= NumClusters
  <2>1. IsFiniteSet(2..NumClusters) /\ Cardinality(2..NumClusters) = NumClusters - 1
    <3>1. 2 \in Int /\ NumClusters \in Int /\ NumClusters >= 2
      BY ClusterAssumption
    <3> QED  BY <3>1, FS_Interval
  <2>2. IsFiniteSet(S) /\ Cardinality(S) <= NumClusters - 1
    BY <1>1, <2>1, FS_Subset
  <2>3. Cardinality(S) \in Nat
    BY <2>2, FS_CardinalityType
  <2> QED  BY <1>1, <2>2, <2>3
<1>4. ASSUME NEW k \in 1..n PROVE w[k] \in S /\ Rank(w[k]) = k - 1
  <2>1. k - 1 \in Nat /\ k - 1 < Cardinality(S)
    BY <1>2, <1>3
  <2>2. \E c \in S : Rank(c) = k - 1
    BY <1>1, <2>1, RankTaken DEF Rank
  <2>3. Pick(k) \in S /\ Rank(Pick(k)) = k - 1
    BY <2>2 DEF Pick
  <2> QED  BY <1>2, <2>3
<1>5. ASSUME NEW j \in 1..n, NEW k \in 1..n, j < k PROVE w[j] < w[k]
  <2> SUFFICES ASSUME ~(w[j] < w[k]) PROVE FALSE
    OBVIOUS
  <2>1. /\ w[j] \in S /\ Rank(w[j]) = j - 1
        /\ w[k] \in S /\ Rank(w[k]) = k - 1
    BY <1>4
  <2>2. Below(S, w[k]) \subseteq Below(S, w[j])
    <3>1. \A c \in S : c \in Nat
      BY <1>1
    <3>2. w[k] <= w[j]
      BY <2>1, <3>1
    <3>3. ASSUME NEW c \in S, c < w[k] PROVE c < w[j]
      BY <2>1, <3>1, <3>2, <3>3
    <3> QED  BY <3>3 DEF Below
  <2>3. IsFiniteSet(Below(S, w[j]))
    <3>1. IsFiniteSet(0..NumClusters)
      BY <1>1, FS_Interval
    <3>2. Below(S, w[j]) \subseteq 0..NumClusters
      BY <1>1 DEF Below
    <3> QED  BY <3>1, <3>2, FS_Subset
  <2>4. Rank(w[k]) <= Rank(w[j])
    BY <2>2, <2>3, FS_Subset DEF Rank
  <2> QED  BY <1>5, <2>1, <2>4
<1>6. w \in Seq(2..NumClusters) /\ Len(w) = n
  <2>1. w = [k \in 1..n |-> w[k]] /\ \A k \in 1..n : w[k] \in 2..NumClusters
    BY <1>1, <1>2, <1>4
  <2>2. w \in [1..n -> 2..NumClusters]
    BY <2>1
  <2>3. w \in Seq(2..NumClusters)
    BY <2>2, SeqDef
  <2>4. DOMAIN w = 1..n /\ DOMAIN w = 1..Len(w) /\ Len(w) \in Nat
    BY <2>2, <2>3, LenProperties
  <2>5. Len(w) = n
    BY <2>4
  <2> QED  BY <2>3, <2>5
<1>7. w # <<>> /\ n <= NumClusters
  <2>1. w # <<>>
    BY <1>6, EmptySeq
  <2> QED  BY <1>1, <1>2, <1>3, <2>1
<1> QED
  <2>1. Cells(w) \subseteq S
    BY <1>4, <1>6 DEF Cells
  <2>2. \A j, k \in 1..n : w[j] = w[k] => j = k
    BY <1>4
  <2>3. Separate(w)
    BY <1>6, <1>7, <2>2 DEF Separate
  <2>4. Ascends(w)
    BY <1>5, <1>6 DEF Ascends
  <2> QED  BY <1>6, <2>1, <2>3, <2>4 DEF Takes, S, w

-----------------------------------------------------------------------------
(* The sector of the root.                                                 *)

Named(s) == {i \in Slots : s[i].kind = "file" /\ ~s[i].del}

\* An entry of a file: deleted, or with a name and, unless it is empty, a cluster.
FileEntry(e) ==
    /\ e \in Entry
    /\ e.kind = "file"
    /\ IF e.del THEN e.name = NoName /\ e.clus # 0
       ELSE e.name \in Names /\ e.clus # Root /\ (e.clus = 0 <=> e.size = 0)

\* Two files differ in their short names and, where they have one, in their clusters.
Apart(s) ==
    \A i, j \in Named(s) :
        i # j => /\ ShortOf[s[i].name] # ShortOf[s[j].name]
                 /\ s[i].clus # 0 => s[i].clus # s[j].clus

\* Deleted and live files after the label, then entries never used.
RootSector(s) ==
    /\ s \in Sector
    /\ s[1] = entry("label", NoName, 0, 0)
    /\ \A i \in Slots \ {1} : s[i] = Blank \/ FileEntry(s[i])
    /\ \A i, j \in Slots : i <= j /\ s[i] = Blank => s[j] = Blank
    /\ Apart(s)

File(s, i) == <<s[i].name>>

\* An entry may be put at a slot that is not beyond the first never used one.
Placeable(s, i) == i \in Slots \ {1} /\ \A k \in Slots : k < i => s[k] # Blank

\* The entry of a file may take the slot, for all the other files.
NewTo(s, i, e) ==
    \A j \in Named(s) \ {i} : /\ ShortOf[s[j].name] # ShortOf[e.name]
                              /\ e.clus # 0 => s[j].clus # e.clus
Suits(s, i, e) ==
    /\ Placeable(s, i)
    /\ FileEntry(e)
    /\ ~e.del => NewTo(s, i, e)

\* What an entry of the root can be.
LEMMA SlotFacts ==
    ASSUME NEW s, RootSector(s)
    PROVE  /\ 1 \in Slots
           /\ \A i \in Slots : s[i] \in Entry
           /\ \A i \in Slots : s[i].kind \in {"label", "blank", "file"}
           /\ \A i \in Slots : s[i].kind = "label" <=> i = 1
           /\ \A i \in Slots : s[i].kind = "blank" <=> s[i] = Blank
           /\ \A i \in Slots : s[i].kind = "file" => i # 1 /\ FileEntry(s[i])
           /\ \A i \in Slots : s[i].kind # "file" =>
                 s[i].clus = 0 /\ s[i].size = 0 /\ s[i].name = NoName /\ s[i].del = FALSE
           /\ Named(s) \subseteq Slots \ {1}
           /\ \A i \in Named(s) : i \in Slots /\ FileEntry(s[i]) /\ s[i].name \in Names
<1>1. 1 \in Slots
  BY SlotAssumption DEF Slots
<1>2. \A i \in Slots : s[i] \in Entry
  BY DEF RootSector, Sector
<1>3. /\ s[1].kind = "label" /\ s[1].clus = 0 /\ s[1].size = 0 /\ s[1].name = NoName
      /\ s[1].del = FALSE
  BY DEF RootSector, entry
<1>4. /\ Blank.kind = "blank" /\ Blank.clus = 0 /\ Blank.size = 0 /\ Blank.name = NoName
      /\ Blank.del = FALSE
  BY DEF Blank, entry
<1>5. ASSUME NEW i \in Slots \ {1}
      PROVE  s[i] = Blank \/ (FileEntry(s[i]) /\ s[i].kind = "file")
  BY DEF RootSector, FileEntry
<1>6. \A i \in Slots : s[i].kind \in {"label", "blank", "file"}
  BY <1>3, <1>5, <1>4
<1>7. \A i \in Slots : s[i].kind = "file" => i # 1 /\ FileEntry(s[i])
  BY <1>3, <1>5, <1>4
<1>8. \A i \in Slots : s[i].kind # "file" =>
                 s[i].clus = 0 /\ s[i].size = 0 /\ s[i].name = NoName /\ s[i].del = FALSE
  BY <1>3, <1>5, <1>4
<1>9. \A i \in Slots : (s[i].kind = "label" <=> i = 1) /\ (s[i].kind = "blank" <=> s[i] = Blank)
  BY <1>3, <1>5, <1>4
<1>10. \A i \in Named(s) : i \in Slots \ {1} /\ FileEntry(s[i]) /\ s[i].name \in Names
  BY <1>7 DEF Named, FileEntry
<1> QED  BY <1>1, <1>2, <1>6, <1>7, <1>8, <1>9, <1>10

\* Entry e replaced that of slot i.
Replaced(s, t, i, e) ==
    /\ RootSector(t)
    /\ Named(t) = IF e.del THEN Named(s) \ {i} ELSE Named(s) \union {i}
    /\ t[i] = e
    /\ \A j \in Slots \ {i} : t[j] = s[j]

\* The root with the entry of a file put in place of another.
LEMMA SectorSet ==
    ASSUME NEW s, RootSector(s), NEW i, NEW e, Suits(s, i, e)
    PROVE  Replaced(s, [s EXCEPT ![i] = e], i, e)
<1> DEFINE t == [s EXCEPT ![i] = e]
<1>1. i \in Slots \ {1} /\ e \in Entry /\ e.kind = "file" /\ e # Blank
  BY DEF Suits, Placeable, FileEntry, Blank, entry
<1>2. s = [j \in Slots |-> s[j]] /\ \A j \in Slots : s[j] \in Entry
  BY DEF RootSector, Sector
<1>3. t[i] = e /\ \A j \in Slots \ {i} : t[j] = s[j]
  BY <1>1, <1>2
<1>4. t \in Sector
  BY <1>1, <1>2 DEF Sector
<1>5. Named(t) = IF e.del THEN Named(s) \ {i} ELSE Named(s) \union {i}
  BY <1>1, <1>3 DEF Named
<1>6. t[1] = entry("label", NoName, 0, 0)
  BY <1>1, <1>3, SlotFacts DEF RootSector
<1>7. \A j \in Slots \ {1} : t[j] = Blank \/ FileEntry(t[j])
  BY <1>3 DEF RootSector, Suits
<1>8. ASSUME NEW k \in Slots, NEW j \in Slots, k <= j, t[k] = Blank PROVE t[j] = Blank
  <2>1. k # i /\ s[k] = Blank
    BY <1>1, <1>3, <1>8
  <2>2. ~(k < i)
    BY <2>1 DEF Suits, Placeable
  <2>3. j # i
    BY <1>8, <2>1, <2>2, <1>1 DEF Slots
  <2> QED  BY <1>3, <1>8, <2>1, <2>3 DEF RootSector
<1>9. Apart(t)
  <2> SUFFICES ASSUME NEW j \in Named(t), NEW k \in Named(t), j # k
               PROVE  /\ ShortOf[t[j].name] # ShortOf[t[k].name]
                      /\ t[j].clus # 0 => t[j].clus # t[k].clus
    BY DEF Apart
  <2>1. CASE j # i /\ k # i
    <3>1. j \in Named(s) /\ k \in Named(s) /\ t[j] = s[j] /\ t[k] = s[k]
      BY <1>3, <1>5, <2>1 DEF Named
    <3> QED  BY <3>1 DEF RootSector, Apart
  <2>2. CASE j = i
    <3>1. ~e.del /\ k \in Named(s) \ {i} /\ t[k] = s[k]
      BY <1>3, <1>5, <2>2 DEF Named
    <3> QED  BY <1>3, <2>2, <3>1 DEF Suits, NewTo
  <2>3. CASE k = i
    <3>1. ~e.del /\ j \in Named(s) \ {i} /\ t[j] = s[j]
      BY <1>3, <1>5, <2>3 DEF Named
    <3>2. e.clus = 0 => t[j].clus = 0 \/ t[j].clus # e.clus
      OBVIOUS
    <3> QED  BY <1>3, <2>3, <3>1 DEF Suits, NewTo
  <2> QED  BY <2>1, <2>2, <2>3
<1> QED  BY <1>3, <1>4, <1>5, <1>6, <1>7, <1>8, <1>9 DEF RootSector, Replaced

-----------------------------------------------------------------------------
(* A volume of files in the root: table, sector and tree agree.            *)

Chain(f, s, i) == ChainOf(f, s[i].clus)

\* The chain of file i, and no other file's.
HasChain(f, s, i) ==
    /\ s[i].clus # 0
    /\ Linked(f, Chain(f, s, i))
    /\ Chain(f, s, i)[1] = s[i].clus
    /\ Len(Chain(f, s, i)) = s[i].size
OwnChain(f, s, i, j) == Cells(Chain(f, s, i)) \intersect Cells(Chain(f, s, j)) = {}
Chained(f, s) == \A i \in Named(s) : /\ HasChain(f, s, i)
                                     /\ \A j \in Named(s) \ {i} : OwnChain(f, s, i, j)

Holds(s, g) ==
    /\ g = [p \in {File(s, i) : i \in Named(s)} |-> g[p]]
    /\ \A i \in Named(s) : /\ g[File(s, i)] \in Contents \union Mounted
                           /\ Len(g[File(s, i)]) = s[i].size

Layout(f, s, g) == RootSector(s) /\ Chained(f, s) /\ Holds(s, g)

Without(g, p) == [q \in DOMAIN g \ {p} |-> g[q]]

\* The chains of files I of the sector are the same in both tables.
SameChains(f, f2, s, I) == \A i \in I : \A c \in Cells(Chain(f, s, i)) : f2[c] = f[c]

\* A table that agrees on a chain has the chain.
LEMMA ChainKept ==
    ASSUME TableFits, NEW f, NEW s, NEW f2, NEW i, HasChain(f, s, i), SameChains(f, f2, s, {i})
    PROVE  HasChain(f2, s, i) /\ Chain(f2, s, i) = Chain(f, s, i)
<1> DEFINE w == Chain(f, s, i)
<1>1. Linked(f, w) /\ w[1] = s[i].clus
  BY DEF HasChain
<1>2. Linked(f2, w)
  BY <1>1, LinkedKept DEF SameChains
<1>3. ChainOf(f2, w[1]) = w
  BY <1>2, ChainWhole
<1>4. Chain(f2, s, i) = w
  BY <1>1, <1>3 DEF Chain
<1> HIDE DEF w
<1>5. HasChain(f, s, i) => s[i].clus # 0 /\ w[1] = s[i].clus /\ Len(w) = s[i].size
  BY DEF HasChain, w
<1> QED  BY <1>2, <1>4, <1>5 DEF HasChain, w

\* No two files of the root have one name.
LEMMA NamesDiffer ==
    ASSUME NEW s, RootSector(s), NEW i \in Named(s), NEW j \in Named(s), i # j
    PROVE  File(s, i) # File(s, j)
BY DEF RootSector, Apart, File

\* A file is added, or its content replaced.
FileAt(n, w) == entry("file", n, w[1], Len(w))
Entered(s, i, n, w) == [s EXCEPT ![i] = FileAt(n, w)]
FileMayEnter(f, s, f2, i, n, w, x) ==
    /\ n \in Names /\ Linked(f2, w) /\ w[1] \in Cluster
    /\ x \in Contents \union Mounted /\ Len(x) = Len(w)
    /\ Suits(s, i, FileAt(n, w))
    /\ i \in Named(s) => s[i].name = n
    /\ SameChains(f, f2, s, Named(s) \ {i})
    /\ \A j \in Named(s) \ {i} : Cells(Chain(f, s, j)) \intersect Cells(w) = {}

\* A file in its place, with its clusters chained, makes the volume that holds it.
LEMMA LayoutPut ==
    ASSUME TableFits, NEW f, NEW s, NEW g, Layout(f, s, g),
           NEW f2, NEW i, NEW n, NEW w, NEW x, FileMayEnter(f, s, f2, i, n, w, x)
    PROVE  Layout(f2, Entered(s, i, n, w), Put(g, <<n>>, x))
<1> PICK t : t = Entered(s, i, n, w)
  OBVIOUS
<1> PICK e : e = entry("file", n, w[1], Len(w))
  OBVIOUS
<1> n \in Names
  BY DEF FileMayEnter
<1> Linked(f2, w)
  BY DEF FileMayEnter
<1> w[1] \in Cluster
  BY DEF FileMayEnter
<1> x \in Contents \union Mounted
  BY DEF FileMayEnter
<1> Len(x) = Len(w)
  BY DEF FileMayEnter
<1> Suits(s, i, e)
  BY DEF FileMayEnter, FileAt
<1> i \in Named(s) => s[i].name = n
  BY DEF FileMayEnter
<1> SameChains(f, f2, s, Named(s) \ {i})
  BY DEF FileMayEnter
<1> \A j \in Named(s) \ {i} : Cells(Chain(f, s, j)) \intersect Cells(w) = {}
  BY DEF FileMayEnter
<1> t = [s EXCEPT ![i] = e]
  BY DEF Entered, FileAt
<1> DEFINE p == <<n>>
           g2 == Put(g, p, x)
<1>1. RootSector(s) /\ Chained(f, s) /\ Holds(s, g)
  BY DEF Layout
<1>2. e.kind = "file" /\ e.name = n /\ e.del = FALSE /\ e.clus = w[1] /\ e.size = Len(w)
  BY DEF entry
<1>3. /\ RootSector(t) /\ Named(t) = Named(s) \union {i} /\ t[i] = e
      /\ \A j \in Slots \ {i} : t[j] = s[j]
  <2>1. Replaced(s, [s EXCEPT ![i] = e], i, e)
    BY <1>1, SectorSet, Zenon
  <2>2. Replaced(s, t, i, e)
    BY <2>1
  <2> QED  BY <1>2, <2>2 DEF Replaced
<1>4. Named(s) \subseteq Slots
  BY DEF Named
<1>5. ChainOf(f2, w[1]) = w
  BY ChainWhole
<1>6. HasChain(f2, t, i) /\ Chain(f2, t, i) = w
  <2>1. w[1] # 0
    BY LinkedCells, ClusterAssumption
  <2> QED  BY <1>2, <1>3, <1>5, <2>1 DEF HasChain, Chain
<1>7. ASSUME NEW j \in Named(s) \ {i}
      PROVE  HasChain(f2, t, j) /\ Chain(f2, t, j) = Chain(f, s, j)
  <2>1. HasChain(f, s, j) /\ SameChains(f, f2, s, {j})
    BY <1>1 DEF Chained, SameChains
  <2>2. HasChain(f2, s, j) /\ Chain(f2, s, j) = Chain(f, s, j)
    BY <2>1, ChainKept
  <2>3. t[j] = s[j]
    BY <1>3, <1>4
  <2> QED  BY <2>2, <2>3 DEF HasChain, Chain
<1>8. Chained(f2, t)
  <2>1. \A j \in Named(t) : HasChain(f2, t, j)
    BY <1>3, <1>6, <1>7
  <2>2. ASSUME NEW j \in Named(t), NEW k \in Named(t) \ {j} PROVE OwnChain(f2, t, j, k)
    <3>1. CASE j # i /\ k # i
      <4>1. OwnChain(f, s, j, k)
        BY <1>1, <1>3, <3>1 DEF Chained
      <4>2. Chain(f2, t, j) = Chain(f, s, j) /\ Chain(f2, t, k) = Chain(f, s, k)
        BY <1>3, <1>7, <3>1
      <4> QED  BY <4>1, <4>2 DEF OwnChain
    <3>2. CASE j = i
      BY <1>3, <1>6, <1>7, <3>2 DEF OwnChain
    <3>3. CASE k = i
      BY <1>3, <1>6, <1>7, <3>3 DEF OwnChain
    <3> QED  BY <3>1, <3>2, <3>3
  <2> QED  BY <2>1, <2>2 DEF Chained
<1>9. \A j \in Named(s) \ {i} : File(t, j) = File(s, j) /\ File(t, j) # p
  <2> SUFFICES ASSUME NEW j \in Named(s) \ {i} PROVE File(t, j) = File(s, j) /\ File(t, j) # p
    OBVIOUS
  <2>1. t[j] = s[j] /\ j \in Named(t) /\ i \in Named(t)
    BY <1>3, <1>4
  <2>2. File(t, j) # File(t, i)
    BY <1>3, <2>1, NamesDiffer
  <2> QED  BY <1>2, <1>3, <2>1, <2>2 DEF File
<1>10. File(t, i) = p
  BY <1>2, <1>3 DEF File
<1>11. DOMAIN g = {File(s, j) : j \in Named(s)}
  BY <1>1 DEF Holds
<1>12. /\ g2 = [q \in DOMAIN g \union {p} |-> g2[q]]
       /\ g2[p] = x
       /\ \A q \in DOMAIN g : q # p => g2[q] = g[q]
  BY DEF Put
<1> DEFINE Z == {File(t, j) : j \in Named(t)}
<1>13. DOMAIN g \union {p} = Z
  <2>1. ASSUME NEW j \in Named(s) PROVE File(s, j) \in {File(t, k) : k \in Named(t)}
    <3>1. CASE j = i
      <4>1. File(s, j) = p
        BY <3>1 DEF File
      <4> QED  BY <1>3, <1>10, <4>1
    <3>2. CASE j # i
      BY <1>3, <1>9, <3>2
    <3> QED  BY <3>1, <3>2
  <2>2. \A q \in Z : q \in DOMAIN g \union {p}
    <3>1. ASSUME NEW j \in Named(t) PROVE File(t, j) \in DOMAIN g \union {p}
      BY <1>3, <1>9, <1>10, <1>11
    <3> QED  BY <3>1
  <2>3. \A q \in DOMAIN g : q \in Z
    BY <1>11, <2>1
  <2>4. p \in Z
    BY <1>3, <1>10
  <2> HIDE DEF Z, p
  <2> QED  BY <2>2, <2>3, <2>4
<1> HIDE DEF g2, p
<1>14. Holds(t, g2)
  <2>1. ASSUME NEW j \in Named(t)
        PROVE  g2[File(t, j)] \in Contents \union Mounted /\ Len(g2[File(t, j)]) = t[j].size
    <3>1. CASE j = i
      BY <1>2, <1>3, <1>10, <1>12, <3>1
    <3>2. CASE j # i
      <4>1. j \in Named(s) /\ t[j] = s[j] /\ File(t, j) = File(s, j) /\ File(t, j) # p
        BY <1>3, <1>4, <1>9, <3>2
      <4>2. g2[File(t, j)] = g[File(s, j)]
        BY <1>11, <1>12, <4>1
      <4> QED  BY <1>1, <4>1, <4>2 DEF Holds
    <3> QED  BY <3>1, <3>2
  <2> QED  BY <1>12, <1>13, <2>1 DEF Holds
<1> QED  BY <1>3, <1>8, <1>14 DEF Layout, g2, p

\* A file is deleted.
LEMMA LayoutDrop ==
    ASSUME TableFits, NEW f, NEW s, NEW g, Layout(f, s, g), NEW i \in Named(s), NEW f2,
           SameChains(f, f2, s, Named(s) \ {i}),
           NEW t, t = [s EXCEPT ![i] = Deleted(s[i])]
    PROVE  Layout(f2, t, Without(g, File(s, i)))
<1> DEFINE e == Deleted(s[i])
           p == File(s, i)
           g2 == Without(g, p)
<1>1. RootSector(s) /\ Chained(f, s) /\ Holds(s, g)
  BY DEF Layout
<1>2. i \in Slots \ {1} /\ FileEntry(s[i])
  BY <1>1, SlotFacts
<1>3. /\ FileEntry(e) /\ e.del
  <2>1. s[i].clus # 0
    BY <1>1 DEF Chained, HasChain
  <2> QED  BY <1>2, <2>1 DEF Deleted, FileEntry, Entry
<1>4. Placeable(s, i)
  <2>1. s[i] # Blank
    BY <1>2 DEF FileEntry, Blank, entry
  <2> QED  BY <1>1, <1>2, <2>1 DEF Placeable, RootSector, Slots
<1>5. /\ RootSector(t) /\ Named(t) = Named(s) \ {i}
      /\ \A j \in Slots \ {i} : t[j] = s[j]
  <2>1. Suits(s, i, e)
    BY <1>3, <1>4 DEF Suits
  <2> HIDE DEF e
  <2>2. t = [s EXCEPT ![i] = e]
    BY DEF e
  <2>3. Replaced(s, [s EXCEPT ![i] = e], i, e)
    BY <1>1, <2>1, SectorSet
  <2>4. Replaced(s, t, i, e)
    BY <2>2, <2>3
  <2> QED  BY <1>3, <2>4 DEF Replaced
<1>6. Named(s) \subseteq Slots
  BY DEF Named
<1>7. ASSUME NEW j \in Named(t)
      PROVE  HasChain(f2, t, j) /\ Chain(f2, t, j) = Chain(f, s, j) /\ t[j] = s[j]
  <2>1. HasChain(f, s, j) /\ SameChains(f, f2, s, {j})
    BY <1>1, <1>5 DEF Chained, SameChains
  <2>2. HasChain(f2, s, j) /\ Chain(f2, s, j) = Chain(f, s, j)
    BY <2>1, ChainKept
  <2>3. t[j] = s[j]
    BY <1>5, <1>6
  <2> QED  BY <2>2, <2>3 DEF HasChain, Chain
<1>8. Chained(f2, t)
  <2>1. ASSUME NEW j \in Named(t), NEW k \in Named(t) \ {j} PROVE OwnChain(f2, t, j, k)
    <3>1. OwnChain(f, s, j, k)
      BY <1>1, <1>5 DEF Chained
    <3> QED  BY <1>7, <3>1 DEF OwnChain
  <2> QED  BY <1>7, <2>1 DEF Chained
<1>9. ASSUME NEW j \in Named(t) PROVE File(t, j) = File(s, j) /\ File(t, j) # p
  <2>1. j \in Named(s) /\ j # i /\ t[j] = s[j]
    BY <1>5, <1>7
  <2>2. File(s, j) # File(s, i)
    BY <1>1, <2>1, NamesDiffer
  <2> QED  BY <2>1, <2>2 DEF File
<1>10. DOMAIN g = {File(s, j) : j \in Named(s)}
  BY <1>1 DEF Holds
<1>11. DOMAIN g \ {p} = {File(t, j) : j \in Named(t)}
  BY <1>5, <1>9, <1>10
<1>12. /\ g2 = [q \in DOMAIN g \ {p} |-> g2[q]]
       /\ \A q \in DOMAIN g : q # p => g2[q] = g[q]
  BY DEF Without
<1> HIDE DEF g2, p
<1>13. Holds(t, g2)
  <2>1. ASSUME NEW j \in Named(t)
        PROVE  g2[File(t, j)] \in Contents \union Mounted /\ Len(g2[File(t, j)]) = t[j].size
    <3>1. g2[File(t, j)] = g[File(s, j)]
      BY <1>5, <1>9, <1>10, <1>12
    <3> QED  BY <1>1, <1>5, <1>7, <3>1 DEF Holds
  <2> QED  BY <1>11, <1>12, <2>1 DEF Holds
<1> QED  BY <1>5, <1>8, <1>13 DEF Layout, g2, p

\* The table may change beyond the chains.
LEMMA LayoutKept ==
    ASSUME TableFits, NEW f, NEW s, NEW g, Layout(f, s, g), NEW f2,
           SameChains(f, f2, s, Named(s))
    PROVE  Layout(f2, s, g)
<1>1. ASSUME NEW j \in Named(s)
      PROVE  HasChain(f2, s, j) /\ Chain(f2, s, j) = Chain(f, s, j)
  <2>1. HasChain(f, s, j) /\ SameChains(f, f2, s, {j})
    BY DEF Layout, Chained, SameChains
  <2> QED  BY <2>1, ChainKept
<1>2. ASSUME NEW j \in Named(s), NEW k \in Named(s) \ {j} PROVE OwnChain(f2, s, j, k)
  <2>1. OwnChain(f, s, j, k)
    BY DEF Layout, Chained
  <2> QED  BY <1>1, <2>1 DEF OwnChain
<1> QED  BY <1>1, <1>2 DEF Layout, Chained

-----------------------------------------------------------------------------
(* Paths of the root, and the lists of its sector.                         *)

\* Only a file has a cluster, a size or a name.
LEMMA NotFile ==
    ASSUME NEW s, RootSector(s), NEW i \in Slots, s[i].kind # "file"
    PROVE  s[i].clus = 0 /\ s[i].size = 0 /\ s[i].name = NoName /\ s[i].del = FALSE
BY SlotFacts

Tops == [p \in {<<>>} |-> Root]
SavedRoot(t) == Root \in DOMAIN t /\ RootSector(t[Root])

\* The drive sees the files of the root and no other entry with a name.
LEMMA RootShows ==
    ASSUME NEW s, RootSector(s)
    PROVE  /\ Visible(s) = Named(s)
           /\ ParentOf(s) = 0
           /\ \A i \in Slots : Live(s, i) => i = 1 \/ i \in Named(s)
<1>1. \A i \in Slots : s[i].kind \in {"label", "blank", "file"}
  BY SlotFacts
<1>2. ASSUME NEW i \in Named(s) PROVE i \in Seen(s)
  <2>1. i \in Slots /\ s[i] # Blank
    BY DEF Named, Blank, entry
  <2>2. \A k \in 1..i : k \in Slots /\ k <= i
    BY <2>1, SlotAssumption DEF Slots
  <2>3. \A k \in 1..i : s[k] # Blank
    BY <2>1, <2>2 DEF RootSector
  <2>4. \A k \in 1..i : s[k].kind # "blank"
    BY <2>2, <2>3, SlotFacts
  <2> QED  BY <2>1, <2>4 DEF Seen
<1>3. \A i \in Seen(s) : i \in Slots /\ s[i].kind # "blank"
  BY SlotAssumption DEF Seen, Slots
<1>4. \A i \in Slots : s[i].kind = "label" <=> i = 1
  BY SlotFacts
<1>5. Visible(s) = Named(s)
  BY <1>1, <1>2, <1>3 DEF Visible, Live, Named
<1>6. ParentOf(s) = 0
  BY <1>1, <1>3 DEF ParentOf
<1>7. \A i \in Slots : Live(s, i) => i = 1 \/ i \in Named(s)
  BY <1>1, <1>3, <1>4 DEF Live, Named
<1> QED  BY <1>5, <1>6, <1>7

\* The root alone is a volume, as FatTreeProofs takes it.
LEMMA RootVolume ==
    ASSUME NEW t, SavedRoot(t)
    PROVE  Volume(t, {<<>>}, Tops)
<1> DEFINE s == t[Root]
<1>1. RootSector(s) /\ Tops[<<>>] = Root
  BY DEF SavedRoot, Tops
<1>2. Situated({<<>>}, Tops)
  <2>1. Tops \in [{<<>>} -> Cluster]
    BY ClusterAssumption DEF Tops, Root, Cluster
  <2>2. <<>> \in Seq(Names)
    BY EmptySeq
  <2> QED  BY <1>1, <2>1, <2>2 DEF Situated
<1>3. SectorsSaved(t, {<<>>}, Tops)
  <2>1. HasDirectory(t, Root)
    BY DEF SavedRoot, RootSector, HasDirectory
  <2>2. Len(<<>>) < NumClusters
    BY ClusterAssumption
  <2>3. ParentOf(s) = 0
    BY <1>1, RootShows
  <2> QED  BY <1>1, <2>1, <2>2, <2>3 DEF SectorsSaved
<1>4. /\ \A i \in Slots : Live(s, i) => i = 1 \/ i \in Named(s)
      /\ Visible(s) = Named(s)
      /\ \A i \in Named(s) : i \in Slots \ {1} /\ FileEntry(s[i]) /\ s[i].name \in Names
  BY <1>1, RootShows, SlotFacts
<1> HIDE DEF s
<1>5. NamesListed(t, {<<>>}, Tops)
  <2> SUFFICES ASSUME NEW i \in Slots
               PROVE  /\ i \in Visible(s) => i >= 2 /\ s[i].name \in Names
                      /\ Live(s, i) /\ i >= 2 => i \in Visible(s)
    BY <1>1 DEF NamesListed, FirstSlot, s
  <2>1. i \in Nat /\ i >= 1
    BY DEF Slots
  <2> QED  BY <1>4, <2>1
<1>6. ASSUME NEW i \in Named(s) PROVE s[i].kind = "file" /\ s[i].clus # Root
  BY <1>4 DEF FileEntry, Named
<1>7. EntriesLead(t, {<<>>}, Tops)
  BY <1>1, <1>4, <1>6 DEF EntriesLead, Leads, s
<1>8. ParentsList(t, {<<>>}, Tops)
  BY DEF ParentsList
<1>9. StartsOnce(t, {<<>>}, Tops)
  <2>1. \A i, j \in Named(s) : s[i].clus # 0 /\ s[j].clus = s[i].clus => j = i
    BY <1>1 DEF RootSector, Apart, s
  <2> QED  BY <1>1, <1>4, <2>1 DEF StartsOnce, Alone, s
<1> QED  BY <1>2, <1>3, <1>5, <1>7, <1>8, <1>9 DEF Volume

\* restore_file_from finds the name of a file of the root.
LEMMA RootPath ==
    ASSUME NEW t, SavedRoot(t), NEW i \in Named(t[Root]), t[Root][i].clus # 0
    PROVE  restore_file_from(t, Root, t[Root][i].clus) = File(t[Root], i)
<1> DEFINE P == {<<>>}
<1>1. <<>> \in P
  OBVIOUS
<1>2. Volume(t, P, Tops) /\ Tops[<<>>] = Root /\ i \in Visible(t[Root])
  BY RootVolume, RootShows DEF SavedRoot, Tops
<1>3. restore_file_from(t, Tops[<<>>], t[Tops[<<>>]][i].clus)
         = Append(<<>>, t[Tops[<<>>]][i].name)
  <2>1. t[Tops[<<>>]] = t[Root]
    BY <1>2
  <2> HIDE DEF P
  <2>2. i \in Visible(t[Tops[<<>>]]) /\ t[Tops[<<>>]][i].clus # 0
    BY <1>2, <2>1
  <2>3. \A p \in P : \A j \in Visible(t[Tops[p]]) : t[Tops[p]][j].clus # 0 =>
           restore_file_from(t, Tops[p], t[Tops[p]][j].clus) = Append(p, t[Tops[p]][j].name)
    BY <1>2, PathRestored
  <2> QED  BY <1>1, <2>2, <2>3
<1> QED  BY <1>2, <1>3 DEF File

\* find_dir_entry_cache answers NOT_FOUND for a cluster no file starts at.
LEMMA RootMiss ==
    ASSUME NEW t, SavedRoot(t), NEW c, \A i \in Named(t[Root]) : t[Root][i].clus # c
    PROVE  ~Found(find_dir_entry_cache(t, c))
<1>1. Volume(t, {<<>>}, Tops) /\ Tops[<<>>] = Root /\ Visible(t[Root]) = Named(t[Root])
  BY RootVolume, RootShows DEF SavedRoot, Tops
<1>2. find_dir_entry_cache(t, c) = NOT_FOUND
  BY <1>1, EntryMissed
<1> QED  BY <1>2 DEF Found, NOT_FOUND

NoGhost(s) == ~Meet(s, s)

\* Without ghosts, no deleted entry has the data of a live one.
LEMMA NoGhostFree ==
    ASSUME NEW s, RootSector(s), NoGhost(s)
    PROVE  Ghostfree(s)
<1> SUFFICES ASSUME NEW i \in Slots, NEW k \in Slots, s[i].del, ~s[k].del,
                    s[k].kind # "label", s[i].clus = s[k].clus
             PROVE  FALSE
  BY DEF Ghostfree, SameData
<1>1. i \in Dead(s) /\ s[i].kind = "file" /\ s[i].clus # 0
  BY SlotFacts DEF Dead, FileEntry
<1>2. s[k].kind = "file"
  BY <1>1, SlotFacts
<1>3. k \in LiveFiles(s)
  BY <1>1, <1>2 DEF LiveFiles
<1> QED  BY <1>1, <1>3 DEF NoGhost, Meet

Lists(s, t, del, upd) == /\ difference_of_dir_entry(s, t, TRUE).del = del
                         /\ difference_of_dir_entry(s, t, TRUE).upd = upd

\* The sector with nothing changed.
LEMMA TouchLists ==
    ASSUME NEW s, RootSector(s), NoGhost(s)
    PROVE  Lists(s, s, Nothing, {})
<1> DEFINE d == difference_of_dir_entry(s, s, TRUE)
<1>1. ASSUME NEW i \in Slots PROVE d.del[i] = 0 /\ i \notin d.upd
  BY OthersOffLists, NoGhostFree DEF RootSector
<1>2. /\ d.upd \subseteq Slots
      /\ d.del = [i \in Slots |-> d.del[i]]
  BY DEF difference_of_dir_entry
<1> HIDE DEF d
<1> QED  BY <1>1, <1>2 DEF Lists, Nothing, d

\* A file with new data, in a free slot or in its own.
LEMMA PutLists ==
    ASSUME NEW s, RootSector(s), NoGhost(s), NEW t, RootSector(t), NEW i \in Named(t),
           Differ(s, t, i), s[i] = Blank => t[i].clus # 0,
           \A j \in Slots : s[j].kind = "file" => ~SameData(t[i], s[j])
    PROVE  Lists(s, t, Nothing, {i})
<1> DEFINE d == difference_of_dir_entry(s, t, TRUE)
<1>1. s \in Sector /\ t \in Sector /\ i \in Slots
  BY DEF RootSector, Named
<1>2. ASSUME NEW k \in Slots, k # i PROVE d.del[k] = 0 /\ k \notin d.upd
  BY <1>1, <1>2, OthersOffLists, NoGhostFree DEF Differ
<1>3. Comparable(t[i]) /\ ~t[i].del /\ t[i].name # NoName
  <2>1. t[i].name \in Names
    BY SlotFacts
  <2> QED  BY <2>1, NamesAssumption DEF Comparable, Named
<1>4. Stops(s, t, i) = {}
  <2> SUFFICES ASSUME NEW j \in Stops(s, t, i) PROVE FALSE
    OBVIOUS
  <2>1. j \in Slots /\ Comparable(s[j]) /\ SameData(t[i], s[j])
        /\ (SameName(t[i], s[j]) \/ j = i)
    BY DEF Stops
  <2>2. s[j].kind = "blank"
    <3>1. s[j].kind \in {"label", "blank", "file"}
      BY <2>1, SlotFacts
    <3> QED  BY <2>1, <3>1 DEF Comparable
  <2>3. s[j] = Blank /\ s[j].clus = 0 /\ s[j].name = NoName
    BY <2>1, <2>2, SlotFacts, ZenonT(40) DEF Blank, entry
  <2>4. j # i
    BY <2>1, <2>3 DEF SameData
  <2>5. ~SameName(t[i], s[j])
    BY <1>3, <2>3 DEF SameName
  <2> QED  BY <2>1, <2>4, <2>5
<1>5. d.del[i] = 0
  BY <1>1, <1>3, <1>4 DEF difference_of_dir_entry
<1>6. i \in d.upd
  BY <1>1, <1>3, <1>4, OnUpdateList
<1>7. /\ d.upd \subseteq Slots
      /\ d.del = [k \in Slots |-> d.del[k]]
  BY DEF difference_of_dir_entry
<1> HIDE DEF d
<1> QED  BY <1>1, <1>2, <1>5, <1>6, <1>7 DEF Lists, Nothing, d

\* A file marked deleted.
LEMMA DeleteLists ==
    ASSUME NEW s, RootSector(s), NoGhost(s), NEW i \in Named(s), s[i].clus # 0,
           NEW t, t = [s EXCEPT ![i] = Deleted(s[i])], t \in Sector
    PROVE  Lists(s, t, Only(i), {})
<1>1. /\ s \in Sector /\ i \in Slots /\ Comparable(s[i]) /\ ~s[i].del /\ s[i].size # 0
      /\ FileEntry(s[i])
  BY SlotFacts DEF RootSector, Named, Comparable, FileEntry
<1>2. Differ(s, t, i) /\ t[i] = [s[i] EXCEPT !.del = TRUE, !.name = NoName]
  BY <1>1 DEF Differ, Deleted, Sector
<1>3. ASSUME NEW k \in Slots \ {i}, ~s[k].del, s[k].kind # "label" PROVE ~SameData(s[i], s[k])
  <2>1. CASE s[k].kind = "file"
    <3>1. k \in Named(s)
      BY <1>3, <2>1 DEF Named
    <3> QED  BY <1>3, <3>1 DEF RootSector, Apart, SameData
  <2>2. CASE s[k].kind # "file"
    <3>1. s[k].clus = 0
      BY <2>2, SlotFacts, ZenonT(40)
    <3> QED  BY <3>1 DEF SameData
  <2> QED  BY <2>1, <2>2
<1>4. Ghostfree(s)
  BY NoGhostFree
<1> QED  BY <1>1, <1>2, <1>3, <1>4, DeleteIsExact DEF Lists

\* A file marked deleted, and the same with a new name in a free slot.
LEMMA RenameLists ==
    ASSUME NEW s, RootSector(s), NoGhost(s), NEW i \in Named(s), s[i].clus # 0,
           NEW t, RootSector(t), NEW k \in Named(t), k # i, k \notin Named(s),
           \A j \in Slots \ {i, k} : t[j] = s[j],
           t[i] = Deleted(s[i]), SameData(t[k], s[i]),
           \A j \in Named(s) : ShortOf[s[j].name] # ShortOf[t[k].name]
    PROVE  Lists(s, t, Only(i), {k})
<1> DEFINE d == difference_of_dir_entry(s, t, TRUE)
<1>1. /\ s \in Sector /\ t \in Sector /\ i \in Slots /\ k \in Slots
      /\ s[i].kind = "file" /\ ~s[i].del /\ s[i].size # 0 /\ s[i].name # NoName /\ FileEntry(s[i])
  <2>1. FileEntry(s[i]) /\ s[i].name \in Names
    BY SlotFacts
  <2>2. s[i].size # 0
    BY <2>1 DEF FileEntry, Named
  <2> QED  BY <2>1, <2>2, NamesAssumption DEF RootSector, Named
<1>2. Comparable(t[k]) /\ ~t[k].del /\ t[k].name # NoName
  <2>1. t[k].name \in Names
    BY SlotFacts
  <2> QED  BY <2>1, NamesAssumption DEF Comparable, Named
<1>3. Ghostfree(s)
  BY NoGhostFree
<1>4. ASSUME NEW j \in Slots \ {i, k} PROVE d.del[j] = 0 /\ j \notin d.upd
  BY <1>1, <1>3, OthersOffLists
<1>5. ASSUME NEW j \in Slots, j # i, SameData(s[i], s[j])
      PROVE  s[j].kind = "file" /\ s[j].del /\ FALSE
  <2>1. ASSUME s[j].kind # "file" PROVE s[j].size = 0
    BY <2>1, NotFile
  <2>2. s[j].kind = "file"
    BY <1>1, <1>5, <2>1 DEF SameData
  <2>3. ~s[j].del => FALSE
    <3>1. ~s[j].del => j \in Named(s)
      BY <2>2 DEF Named
    <3> QED  BY <1>5, <3>1 DEF RootSector, Apart, SameData
  <2>4. s[j].del => FALSE
    <3>1. SameData(s[j], s[i])
      BY <1>5 DEF SameData
    <3> QED  BY <1>1, <1>3, <3>1 DEF Ghostfree
  <2> QED  BY <2>2, <2>3, <2>4
<1>6. t[i].del /\ Comparable(t[i]) /\ t[i].clus = s[i].clus /\ t[i].size = s[i].size
  BY <1>1 DEF Deleted, Comparable, FileEntry, Entry
<1>7. DeletedBy(s, t, i) = {i}
  <2>1. ASSUME NEW j \in DeletedBy(s, t, i) PROVE j = i
    <3>1. j \in Slots /\ (SameData(t[i], s[j]) \/ i = j)
      BY DEF DeletedBy
    <3> QED  BY <1>5, <1>6, <3>1 DEF SameData
  <2>2. i \in DeletedBy(s, t, i)
    BY <1>1, <1>6 DEF DeletedBy, SameData
  <2> QED  BY <2>1, <2>2
<1>8. d.del[i] = i /\ i \notin d.upd
  <2>1. First({i}) = i
    BY <1>1, FirstOfOne
  <2>2. d.del[i] = i
    BY <1>1, <1>6, <1>7, <2>1 DEF difference_of_dir_entry
  <2> QED  BY <1>1, <1>6, <2>2, OnUpdateList
<1>9. Stops(s, t, k) = {}
  <2> SUFFICES ASSUME NEW j \in Stops(s, t, k) PROVE FALSE
    OBVIOUS
  <2>1. j \in Slots /\ SameData(t[k], s[j]) /\ (SameName(t[k], s[j]) \/ j = k)
    BY DEF Stops
  <2>2. SameData(s[i], s[j])
    BY <2>1 DEF SameData
  <2>3. j = i
    BY <1>5, <2>1, <2>2
  <2>4. SameName(t[k], s[i])
    BY <2>1, <2>3
  <2> QED  BY <1>1, <1>2, <2>4 DEF SameName
<1>10. d.del[k] = 0
  BY <1>1, <1>2, <1>9 DEF difference_of_dir_entry
<1>11. k \in d.upd
  BY <1>1, <1>2, <1>9, OnUpdateList
<1>12. /\ d.upd \subseteq Slots
       /\ d.del = [j \in Slots |-> d.del[j]]
  BY DEF difference_of_dir_entry
<1> HIDE DEF d
<1> QED  BY <1>1, <1>4, <1>8, <1>10, <1>11, <1>12, ZenonT(40) DEF Lists, Only, d

-----------------------------------------------------------------------------
(* The inductive invariant of a macOS host at work on files of the root.   *)

H == hdir[Root]
S == tmp[Root]
Goal == Store!Apply(op, files)
Kept == [p \in DOMAIN files \ op.gone |-> files[p]]

\* A tree of files of the root.
Tree(g) ==
    /\ g = [p \in DOMAIN g |-> g[p]]
    /\ \A p \in DOMAIN g : /\ p \in {<<n>> : n \in Names}
                           /\ g[p] \in Contents \union Mounted

IsJob(j) == j = [dir |-> j.dir, orig |-> j.orig, new |-> j.new, del |-> j.del, upd |-> j.upd,
                 path |-> j.path, at |-> j.at, size |-> j.size, data |-> j.data,
                 buffer |-> j.buffer]

Updates == op.name = "updateMac" => op.gone = {} /\ DOMAIN op.put \subseteq DOMAIN files

\* The first n blocks of content x are in the temporary files of chain w.
Stored(t, w, x, n) == \A k \in 1..n : w[k] \in DOMAIN t /\ t[w[k]] = x[k]

\* The request sets file k of the host's sector, and its blocks are there.
Wanted(k) == op.put[File(H, k)]
Sets(k) == k \in Named(H) /\ op.put = At(File(H, k), Wanted(k))
Sent(k) == Stored(tmp, Chain(fat, H, k), Wanted(k), Len(Wanted(k)))

\* The update list holds what the request sets, and its blocks were sent.
Puts(upd) == (upd = {} /\ op.put = NoFiles) \/ \E k \in Slots : upd = {k} /\ Sets(k)
AllSent(upd) == \A k \in upd : Sent(k)

\* The request drops file i of sector s, or gives it the name of the file on
\* the update list.
Drops(s, i, upd) ==
    /\ i \in Named(s)
    /\ Layout(fat, s, files)
    /\ op.gone = {File(s, i)}
    /\ \A k \in upd : H[k].clus = s[i].clus /\ Wanted(k) = files[File(s, i)]

\* What the lists of a directory sector that replaces s are to do.
Listed(s, del, upd) ==
    /\ Puts(upd)
    /\ \/ del = Nothing /\ op.gone = {} /\ AllSent(upd)
       \/ \E i \in Slots : del = Only(i) /\ Drops(s, i, upd)

\* After the last directory sector comes nothing, or the table.
After(t) == \/ t = <<>>
            \/ \E f : t = <<FatWrite(f)>> /\ Layout(f, H, Goal)

\* A sector that shows the file of slot i empty comes before the last one.
Emptied(s, e, i) ==
    /\ RootSector(e) /\ NoGhost(e)
    /\ i \in Named(e) /\ e[i].clus = 0
    /\ Lists(s, e, Nothing, {i})
    /\ Lists(e, H, Nothing, {i})

\* The directory sectors that end a create or an update of file i.
Ending(t, s, i) ==
    \/ t = <<DirWrite(Root, H)>> /\ Lists(s, H, Nothing, {i})
    \/ \E e : t = <<DirWrite(Root, e), DirWrite(Root, H)>> /\ Emptied(s, e, i)

\* Blocks n + 1 to the last, and then the sectors of last.
Writes(w, x, n, last) ==
    [k \in 1..((Len(x) - n) + Len(last)) |->
        IF k <= Len(x) - n THEN [at |-> w[n + k], data |-> x[n + k], touched |-> TRUE]
        ELSE last[k - (Len(x) - n)]]

\* Between operations.
Settled ==
    /\ op = None /\ pc = "ready" /\ todo = <<>> /\ lfs = files
    /\ S = H /\ Layout(fat, H, files)

\* The host sends the blocks of file i: the first n have come.
Fills(i, n, f, last) ==
    LET w == Chain(f, H, i)
        x == Wanted(i)
    IN  /\ Sets(i) /\ op.gone = {}
        /\ Layout(f, H, Goal)
        /\ n \in 0..Len(x)
        /\ todo = Writes(w, x, n, <<FatWrite(f)>> \o last)
        /\ Ending(last, S, i)
        /\ \A c \in Cells(w) : fat[c] = FREE /\ \A j \in Named(S) : S[j].clus # c
        /\ Stored(tmp, w, x, n)
Filling ==
    /\ op # None /\ pc = "ready" /\ lfs = files
    /\ \E i, n, f, last : Fills(i, n, f, last)

\* The last directory sector is next, or the one that shows the file empty.
LastNext ==
    /\ \E t : todo = <<DirWrite(Root, H)>> \o t /\ After(t)
    /\ \E del, upd : Lists(S, H, del, upd) /\ Listed(S, del, upd)
EmptyNext ==
    \E i, e : /\ Sets(i) /\ Sent(i) /\ op.gone = {}
              /\ todo = <<DirWrite(Root, e), DirWrite(Root, H)>>
              /\ Emptied(S, e, i)
Ready ==
    /\ op # None /\ pc = "ready" /\ lfs = files
    /\ Layout(fat, H, Goal)
    /\ LastNext \/ EmptyNext

\* The drive handles the sector that shows the file empty.
Emptying ==
    /\ op # None /\ lfs = files /\ job.dir = Root /\ job.del = Nothing
    /\ todo = <<DirWrite(Root, H)>>
    /\ Layout(fat, H, Goal)
    /\ \E i : /\ Sets(i) /\ Sent(i) /\ op.gone = {}
              /\ RootSector(job.new) /\ i \in Named(job.new) /\ job.new[i].clus = 0
              /\ Lists(job.new, H, Nothing, {i})
              /\ \/ pc = "delete" /\ job.upd = {i}
                 \/ pc = "update" /\ S = job.new /\ job.upd \subseteq {i}

\* The drive handles the last directory sector, step by step.
Deleting ==
    /\ pc = "delete" /\ lfs = files /\ job.orig = S /\ job.data = <<>>
    /\ Listed(S, job.del, job.upd)
Saving ==
    /\ pc = "save" /\ lfs = files /\ job.del = Nothing /\ job.data \in Seq(Block)
    /\ Puts(job.upd)
    /\ \E i : /\ Drops(S, i, job.upd)
              /\ job.path = File(S, i)
              /\ Len(job.data) < Len(Chain(fat, S, i))
              /\ job.at = Chain(fat, S, i)[Len(job.data) + 1]
              /\ Stored(tmp, Chain(fat, S, i), files[job.path], Len(job.data))
Removed ==
    /\ pc = "delete" /\ lfs = Kept /\ job.del = Nothing /\ job.data = <<>>
    /\ Puts(job.upd) /\ AllSent(job.upd)
Updating ==
    /\ pc = "update" /\ S = H /\ job.data = <<>>
    /\ \/ lfs = Kept /\ Puts(job.upd) /\ AllSent(job.upd)
       \/ lfs = Goal /\ job.upd = {}

\* What littlefs_write finds in the file before it closes it.
Old(p) == IF p \in DOMAIN Kept THEN Kept[p] ELSE <<>>
Writing ==
    /\ pc = "write" /\ S = H /\ job.upd = {} /\ job.data \in Seq(Block)
    /\ \E k : /\ Sets(k) /\ Sent(k)
              /\ job.path = File(H, k)
              /\ job.size = H[k].size
              /\ Len(job.data) < Len(Chain(fat, H, k))
              /\ job.at = Chain(fat, H, k)[Len(job.data) + 1]
              /\ job.data = SubSeq(Wanted(k), 1, Len(job.data))
              /\ lfs = Put(Kept, job.path, Old(job.path))

Handling ==
    /\ op # None /\ Layout(fat, H, Goal) /\ After(todo)
    /\ job.dir = Root /\ job.new = H
    /\ Deleting \/ Saving \/ Removed \/ Updating \/ Writing

\* The sector is handled; the table may still come.
Over ==
    /\ op # None /\ pc = "ready" /\ lfs = Goal
    /\ S = H /\ Layout(fat, H, Goal) /\ After(todo)

\* In every state.
Steady ==
    /\ DOMAIN hdir = {Root} /\ SavedRoot(tmp) /\ RootSector(H)
    /\ Tree(files) /\ IsJob(job)
    /\ op # None => Updates

HostInv == Steady /\ (Settled \/ Filling \/ Ready \/ Emptying \/ Handling \/ Over)

-----------------------------------------------------------------------------
(* Parts of the invariant that depend on the host alone.                   *)

HostStill ==
    /\ H' = H /\ Goal' = Goal /\ Kept' = Kept
    /\ \A k : Wanted(k)' = Wanted(k) /\ (Sets(k) => Sets(k)')
    /\ \A upd : Puts(upd) => Puts(upd)'
    /\ \A t : After(t) => After(t)'
    /\ \A p : Old(p)' = Old(p)
    /\ \A s, e, i : Emptied(s, e, i) => Emptied(s, e, i)'
    /\ \A t, s, i : Ending(t, s, i) => Ending(t, s, i)'

\* What the host alone decides stays while it waits.
LEMMA Still == ASSUME UNCHANGED <<hdir, op, files>> PROVE HostStill
<1>1. H' = H /\ Goal' = Goal /\ Kept' = Kept
  BY DEF H, Goal, Kept, Store!Apply
<1>2. \A k : Wanted(k)' = Wanted(k) /\ (Sets(k) => Sets(k)')
  BY <1>1 DEF Wanted, Sets
<1>3. \A upd : Puts(upd) => Puts(upd)'
  BY <1>2 DEF Puts
<1>4. \A t : After(t) => After(t)'
  BY <1>1 DEF After
<1>5. \A p : Old(p)' = Old(p)
  BY <1>1 DEF Old
<1>6. \A s, e, i : Emptied(s, e, i) => Emptied(s, e, i)'
  BY <1>1 DEF Emptied
<1>7. \A t, s, i : Ending(t, s, i) => Ending(t, s, i)'
  BY <1>1, <1>6 DEF Ending
<1> QED  BY <1>1, <1>2, <1>3, <1>4, <1>5, <1>6, <1>7 DEF HostStill

\* A file of the volume: its name, its chain and its content.
FileFacts(f, s, g, i) ==
    /\ i \in Slots \ {1} /\ s[i].kind = "file" /\ ~s[i].del
    /\ s[i].clus # 0 /\ s[i].clus \in 2..NumClusters
    /\ s[i].name \in Names /\ File(s, i) = <<s[i].name>>
    /\ Linked(f, Chain(f, s, i)) /\ Chain(f, s, i)[1] = s[i].clus
    /\ Chain(f, s, i) \in Seq(2..NumClusters)
    /\ Len(Chain(f, s, i)) \in 1..NumClusters
    /\ Len(Chain(f, s, i)) = s[i].size
    /\ File(s, i) \in DOMAIN g
    /\ g[File(s, i)] \in Seq(Values)
    /\ Len(g[File(s, i)]) = s[i].size

\* What the host and the mounted drive hold in files are blocks.
LEMMA Stocked == \A x \in Contents \union Mounted : x \in Seq(Values) /\ x # DIR
<1>1. \A x \in Contents \union Mounted : x \in Seq(Values)
  BY ContentsAssumption, MountedAssumption
<1>2. \A x \in Seq(Values) : x \in Seq(Block)
  BY SeqMonotonic DEF Block
<1> QED  BY <1>1, <1>2, DirAssumption

\* Each file of a volume has its facts.
LEMMA FilesHave ==
    ASSUME NEW f, NEW s, NEW g, Layout(f, s, g), NEW i \in Named(s)
    PROVE  FileFacts(f, s, g, i)
<1>1. RootSector(s) /\ HasChain(f, s, i) /\ Holds(s, g)
  BY DEF Layout, Chained
<1>2. /\ Linked(f, Chain(f, s, i)) /\ Chain(f, s, i)[1] = s[i].clus /\ s[i].clus # 0
      /\ Len(Chain(f, s, i)) = s[i].size
  BY <1>1 DEF HasChain
<1>3. Chain(f, s, i) \in Seq(2..NumClusters)
  BY <1>2 DEF Linked
<1>4. s[i].clus \in 2..NumClusters /\ Len(Chain(f, s, i)) \in 1..NumClusters
  BY <1>2, LinkedCells
<1>5. /\ i \in Slots \ {1} /\ s[i].name \in Names /\ s[i].kind = "file" /\ ~s[i].del
  BY <1>1, SlotFacts DEF Named
<1>6. /\ File(s, i) \in DOMAIN g /\ g[File(s, i)] \in Contents \union Mounted
      /\ Len(g[File(s, i)]) = s[i].size
  BY <1>1 DEF Holds
<1>7. g[File(s, i)] \in Seq(Values)
  BY <1>6, Stocked
<1> QED  BY <1>2, <1>3, <1>4, <1>5, <1>6, <1>7 DEF FileFacts, File

\* What the request sets is in the tree it asks for.
LEMMA SetsGoal ==
    ASSUME NEW k, Sets(k)
    PROVE  /\ k \in Named(H)
           /\ DOMAIN op.put = {File(H, k)}
           /\ Goal[File(H, k)] = Wanted(k)
           /\ Goal = Put(Kept, File(H, k), Wanted(k))
<1>1. /\ k \in Named(H) /\ op.put = [q \in {File(H, k)} |-> Wanted(k)]
  BY DEF Sets, At
<1>2. DOMAIN op.put = {File(H, k)} /\ op.put[File(H, k)] = Wanted(k)
  BY <1>1
<1>3. Goal = [p \in (DOMAIN files \ op.gone) \union {File(H, k)} |->
                 IF p \in {File(H, k)} THEN op.put[p] ELSE files[p]]
  BY <1>2 DEF Goal, Store!Apply
<1>4. Goal[File(H, k)] = Wanted(k)
  BY <1>2, <1>3
<1>5. Goal = Put(Kept, File(H, k), Wanted(k))
  BY <1>2, <1>3 DEF Put, Kept
<1> QED  BY <1>1, <1>2, <1>4, <1>5

\* A request that sets nothing asks for what it keeps.
LEMMA PutsNothing ==
    ASSUME Puts({}) PROVE Goal = Kept
<1>1. op.put = NoFiles
  BY DEF Puts
<1>2. DOMAIN op.put = {}
  BY <1>1 DEF NoFiles
<1> QED  BY <1>2 DEF Goal, Kept, Store!Apply

\* A request that drops nothing keeps every file.
LEMMA NoneGone ==
    ASSUME Tree(files), op.gone = {} PROVE Kept = files
BY DEF Tree, Kept

\* The blocks of the clusters stay.
BlocksKept == \A c \in DOMAIN tmp : c \in 2..NumClusters => c \in DOMAIN tmp' /\ tmp'[c] = tmp[c]

\* What is in the temporary files stays there with its blocks.
LEMMA StoredKept ==
    ASSUME BlocksKept, NEW w \in Seq(2..NumClusters), NEW x, NEW n \in 0..Len(w),
           Stored(tmp, w, x, n)
    PROVE  Stored(tmp', w, x, n)
<1>1. \A k \in 1..n : w[k] \in 2..NumClusters
  <2>1. Len(w) \in Nat
    BY LenProperties
  <2>2. \A k \in 1..n : k \in 1..Len(w)
    BY <2>1
  <2> QED  BY <2>2, ElementOfSeq
<1> QED  BY <1>1 DEF Stored, BlocksKept

\* A file that was sent stays sent.
LEMMA SentKept ==
    ASSUME BlocksKept, UNCHANGED fat, HostStill, Layout(fat, H, Goal), NEW k, Sets(k), Sent(k)
    PROVE  Sent(k)'
<1> DEFINE w == Chain(fat, H, k)
           x == Wanted(k)
<1>1. Chain(fat, H, k)' = w /\ Wanted(k)' = x
  BY DEF HostStill
<1>2. FileFacts(fat, H, Goal, k) /\ Goal[File(H, k)] = x
  BY FilesHave, SetsGoal
<1>3. w \in Seq(2..NumClusters) /\ Len(x) \in 0..Len(w)
  BY <1>2 DEF FileFacts
<1>4. Stored(tmp, w, x, Len(x))
  BY DEF Sent
<1> HIDE DEF w, x
<1>5. Stored(tmp', w, x, Len(x))
  BY <1>3, <1>4, StoredKept
<1> QED  BY <1>1, <1>5 DEF Sent

\* A drive that is ready has no step of its own.
LEMMA ReadyStill ==
    ASSUME pc = "ready" PROVE ~Step
BY DEF Step, DeleteBlank, DeleteNow, DeleteFile, NextDeleted, UpdateStop, UpdateDirectory,
       UpdateFile, NextUpdated, SaveStep, SaveDirectory, WriteStep, Finish

\* The variables the host changes only when it begins or ends an operation,
\* and the parts of the invariant that stay with them.
HostOut == UNCHANGED <<hdir, op, files, todo>>

\* What holds in every state stays over a step of the drive.
LEMMA SteadyStill ==
    ASSUME Steady, HostOut, SavedRoot(tmp'), IsJob(job')
    PROVE  Steady'
BY DEF Steady, HostOut, H, Updates

\* The steps of delete_dir_entry_cache.
LEMMA DeleteSteps ==
    ASSUME Step, pc = "delete"
    PROVE  \/ SaveDirectory
           \/ \E i \in Slots : NextDeleted(i) /\ (DeleteBlank(i) \/ DeleteNow(i) \/ DeleteFile(i))
BY DEF Step, DeleteBlank, DeleteNow, DeleteFile, NextDeleted, UpdateStop, UpdateDirectory,
       UpdateFile, NextUpdated, SaveStep, WriteStep, Finish

\* The steps of update_lfs_file_or_directory.
LEMMA UpdateSteps ==
    ASSUME Step, pc = "update"
    PROVE  \/ Finish
           \/ \E i \in Slots : NextUpdated(i)
                              /\ (UpdateStop(i) \/ UpdateDirectory(i) \/ UpdateFile(i))
BY DEF Step, DeleteBlank, DeleteNow, DeleteFile, NextDeleted, UpdateStop, UpdateDirectory,
       UpdateFile, NextUpdated, SaveStep, SaveDirectory, WriteStep

\* With an empty delete list there is nothing to delete.
LEMMA NothingNext == ASSUME job.del = Nothing, NEW i \in Slots PROVE ~NextDeleted(i)
BY DEF NextDeleted, Nothing

\* SaveDirectory puts the new sector of the root in place of the old one.
LEMMA SectorSaved ==
    ASSUME SaveDirectory, job.dir = Root, RootSector(job.new)
    PROVE  /\ S' = job.new /\ SavedRoot(tmp') /\ BlocksKept
           /\ pc' = "update" /\ UNCHANGED <<lfs, fat, job>>
<1>1. /\ tmp' = [k \in DOMAIN tmp \union {Root, 0} |-> IF k \in {Root, 0} THEN job.new ELSE tmp[k]]
      /\ pc' = "update" /\ UNCHANGED <<lfs, fat, job>>
  BY DEF SaveDirectory, SaveAll
<1>2. Root \in DOMAIN tmp' /\ tmp'[Root] = job.new
  BY <1>1
<1>3. BlocksKept
  BY <1>1 DEF BlocksKept, Root
<1> QED  BY <1>1, <1>2, <1>3 DEF S, SavedRoot

\* The sector that shows a file empty changes no file of littlefs.
LEMMA EmptyingStep ==
    ASSUME Steady, Emptying, Step, HostOut PROVE HostInv'
<1>1. HostStill
  BY Still DEF HostOut
<1>2. PICK i : /\ Sets(i) /\ Sent(i) /\ op.gone = {}
               /\ RootSector(job.new) /\ i \in Named(job.new) /\ job.new[i].clus = 0
               /\ Lists(job.new, H, Nothing, {i})
               /\ \/ pc = "delete" /\ job.upd = {i}
                  \/ pc = "update" /\ S = job.new /\ job.upd \subseteq {i}
  BY DEF Emptying
<1>3. /\ op # None /\ lfs = files /\ job.dir = Root /\ job.del = Nothing
      /\ todo = <<DirWrite(Root, H)>> /\ Layout(fat, H, Goal)
  BY DEF Emptying
<1>4. CASE pc = "delete"
  <2>1. SaveDirectory
    BY <1>3, <1>4, DeleteSteps, NothingNext
  <2>2. /\ S' = job.new /\ SavedRoot(tmp') /\ BlocksKept
        /\ pc' = "update" /\ UNCHANGED <<lfs, fat, job>>
    BY <1>2, <1>3, <2>1, SectorSaved
  <2>3. Sent(i)'
    BY <1>1, <1>2, <1>3, <2>2, SentKept
  <2>4. Steady'
    BY <2>2, SteadyStill DEF Steady
  <2>5. Emptying'
    BY <1>1, <1>2, <1>3, <1>4, <2>2, <2>3 DEF Emptying, HostStill, HostOut
  <2> QED  BY <2>4, <2>5 DEF HostInv
<1>5. CASE pc = "update"
  <2>1. job.new[i].kind = "file"
    BY <1>2 DEF Named
  <2>2. CASE Finish
    <3>1. /\ job.upd = {} /\ pc' = "ready" /\ job' = NoJob
          /\ UNCHANGED <<lfs, tmp, fat>> /\ S' = S /\ S = job.new
      BY <1>2, <1>5, <2>2 DEF Finish, S
    <3>2. Steady'
      <4>1. IsJob(job')
        BY <3>1 DEF IsJob, NoJob
      <4>2. SavedRoot(tmp')
        BY <3>1 DEF Steady
      <4> QED  BY <4>1, <4>2, SteadyStill
    <3>3. BlocksKept
      BY <3>1 DEF BlocksKept
    <3>4. Sent(i)' /\ Sets(i)'
      BY <1>1, <1>2, <1>3, <3>1, <3>3, SentKept DEF HostStill
    <3>5. Listed(S, Nothing, {i})'
      <4>1. i \in Slots
        BY <1>2 DEF Named
      <4> QED  BY <1>2, <3>1, <3>4, <4>1 DEF Listed, Puts, AllSent, HostOut
    <3>6. LastNext'
      <4>1. todo' = <<DirWrite(Root, H')>> \o <<>> /\ After(<<>>)'
        BY <1>1, <1>3 DEF After, HostStill, HostOut
      <4>2. Lists(S', H', Nothing, {i})
        BY <1>1, <1>2, <3>1 DEF HostStill
      <4> QED  BY <3>5, <4>1, <4>2 DEF LastNext
    <3>7. Ready'
      BY <1>1, <1>3, <3>1, <3>6 DEF Ready, HostStill, HostOut
    <3> QED  BY <3>2, <3>7 DEF HostInv
  <2>3. CASE \E j \in Slots : NextUpdated(j)
                              /\ (UpdateStop(j) \/ UpdateDirectory(j) \/ UpdateFile(j))
    <3>1. PICK j \in Slots : NextUpdated(j)
                              /\ (UpdateStop(j) \/ UpdateDirectory(j) \/ UpdateFile(j))
      BY <2>3
    <3>2. j = i /\ UpdateStop(i)
      BY <1>2, <1>5, <2>1, <3>1 DEF NextUpdated, UpdateDirectory, UpdateFile
    <3>3. job' = [job EXCEPT !.upd = {}] /\ UNCHANGED <<lfs, tmp, fat, pc>>
      BY <3>2 DEF UpdateStop
    <3>4. /\ job'.upd = {} /\ job'.dir = job.dir /\ job'.del = job.del /\ job'.new = job.new
          /\ IsJob(job')
      BY <3>3, Zenon DEF Steady, IsJob
    <3>5. Steady'
      BY <3>3, <3>4, SteadyStill DEF Steady
    <3>6. BlocksKept /\ S' = S
      BY <3>3 DEF BlocksKept, S
    <3>7. Sent(i)' /\ Sets(i)'
      BY <1>1, <1>2, <1>3, <3>3, <3>6, SentKept DEF HostStill
    <3>8. Emptying'
      BY <1>1, <1>2, <1>3, <1>5, <3>3, <3>4, <3>6, <3>7 DEF Emptying, HostStill, HostOut
    <3> QED  BY <3>5, <3>8 DEF HostInv
  <2> QED  BY <1>5, <2>2, <2>3, UpdateSteps
<1> QED  BY <1>2, <1>4, <1>5

\* What stays in the invariant while the drive handles the last sector.
HandlingFrame ==
    /\ op # None /\ Layout(fat, H, Goal) /\ After(todo)
    /\ job.dir = Root /\ job.new = H

\* The request and the table stay while the drive handles a sector.
LEMMA FrameStill ==
    ASSUME HandlingFrame, HostStill, HostOut, UNCHANGED fat, job'.dir = job.dir, job'.new = job.new
    PROVE  HandlingFrame'
<1>1. After(todo)'
  BY DEF HandlingFrame, HostStill, HostOut
<1> QED  BY <1>1 DEF HandlingFrame, HostStill, HostOut

\* The one entry on the delete list is the next one.
LEMMA OnlyNext ==
    ASSUME NEW i \in Slots, job.del = Only(i), NEW j \in Slots, NextDeleted(j)
    PROVE  j = i /\ job.del[i] = i
<1>1. i # 0
  BY DEF Slots
<1> QED  BY <1>1 DEF NextDeleted, Only

\* The new sector is saved before the update list is handled.
LEMMA RemovedStep ==
    ASSUME Steady, HandlingFrame, Removed, Step, HostOut PROVE HostInv'
<1>1. HostStill
  BY Still DEF HostOut
<1>2. SaveDirectory
  BY DeleteSteps, NothingNext DEF Removed
<1>3. /\ S' = H /\ SavedRoot(tmp') /\ BlocksKept
      /\ pc' = "update" /\ UNCHANGED <<lfs, fat, job>>
  BY <1>2, SectorSaved DEF HandlingFrame, Steady
<1>4. ASSUME NEW k \in job.upd PROVE Sent(k)'
  <2>1. Sets(k) /\ Sent(k)
    BY DEF Removed, Puts, AllSent
  <2> QED  BY <1>1, <1>3, <2>1, SentKept DEF HandlingFrame
<1>5. Updating'
  <2>1. Puts(job.upd)' /\ AllSent(job.upd)'
    BY <1>1, <1>3, <1>4 DEF HostStill, AllSent, Removed
  <2> QED  BY <1>1, <1>3, <2>1 DEF Removed, Updating, HostStill
<1>6. HandlingFrame'
  BY <1>1, <1>3, FrameStill
<1>7. Steady'
  BY <1>3, SteadyStill DEF Steady
<1> QED  BY <1>5, <1>6, <1>7 DEF HostInv, Handling, HandlingFrame

\* The file on the delete list is there.
LEMMA TheVictim ==
    ASSUME Steady, HandlingFrame, Deleting, NEW i \in Slots, job.del = Only(i), Drops(S, i, job.upd)
    PROVE  /\ job.del[i] = i /\ Victim(i) = S[i] /\ S[i].kind = "file"
           /\ VictimPath(i) = File(S, i) /\ IsFile(lfs, VictimPath(i))
<1>1. /\ i \in Named(S) /\ Layout(fat, S, files) /\ lfs = files /\ job.orig = S
  BY DEF Drops, Deleting
<1>2. FileFacts(fat, S, files, i)
  BY <1>1, FilesHave
<1>3. files[File(S, i)] # DIR
  <2>1. File(S, i) \in DOMAIN files
    BY <1>2 DEF FileFacts
  <2> QED  BY <2>1, Stocked DEF Steady, Tree
<1>4. job.del[i] = i
  BY DEF Only
<1>5. Victim(i) = S[i] /\ S[i].kind = "file"
  BY <1>1, <1>2, <1>4 DEF Victim, FileFacts
<1>6. VictimPath(i) = File(S, i)
  <2>1. restore_file_from(tmp, Root, S[i].clus) = File(S, i)
    BY <1>1, <1>2, RootPath DEF FileFacts, Steady, S
  <2> QED  BY <1>5, <2>1 DEF VictimPath, IsDirectory, HandlingFrame
<1>7. IsFile(lfs, VictimPath(i))
  BY <1>1, <1>2, <1>3, <1>6 DEF IsFile, FileFacts
<1> QED  BY <1>4, <1>5, <1>6, <1>7

\* The file on the delete list is there, and is saved before it is removed.
LEMMA DeletingStep ==
    ASSUME Steady, HandlingFrame, Deleting, Step, HostOut PROVE HostInv'
<1>1. HostStill
  BY Still DEF HostOut
<1>2. CASE job.del = Nothing
  <2>1. op.gone = {} /\ AllSent(job.upd) /\ Puts(job.upd)
    <3>1. ASSUME NEW i \in Slots PROVE Only(i) # Nothing
      <4>1. i # 0 /\ Only(i)[i] = i /\ Nothing[i] = 0
        BY DEF Only, Nothing, Slots
      <4> QED  BY <4>1
    <3> QED  BY <1>2, <3>1 DEF Deleting, Listed
  <2>2. Removed
    BY <1>2, <2>1, NoneGone DEF Deleting, Removed, Steady
  <2> QED  BY <2>2, RemovedStep
<1>3. ASSUME NEW i \in Slots, job.del = Only(i), Drops(S, i, job.upd) PROVE HostInv'
  <2>1. /\ i \in Named(S) /\ Layout(fat, S, files) /\ lfs = files /\ pc = "delete" /\ job.orig = S
        /\ Puts(job.upd)
    BY <1>3 DEF Drops, Deleting, Listed
  <2>2. FileFacts(fat, S, files, i)
    BY <2>1, FilesHave
  <2>3. PICK j \in Slots : NextDeleted(j) /\ (DeleteBlank(j) \/ DeleteNow(j) \/ DeleteFile(j))
    <3>1. ~SaveDirectory
      <4>1. i # 0 /\ Only(i)[i] = i /\ NoJob.del[i] = 0
        BY DEF Only, NoJob, Slots
      <4> QED  BY <1>3, <4>1 DEF SaveDirectory
    <3> QED  BY <2>1, <3>1, DeleteSteps
  <2>4. j = i
    BY <1>3, <2>3, OnlyNext
  <2>5. /\ Victim(i) = S[i] /\ S[i].kind = "file" /\ VictimPath(i) = File(S, i)
        /\ IsFile(lfs, VictimPath(i))
    BY <1>3, TheVictim
  <2>6. DeleteFile(i)
    BY <2>3, <2>4, <2>5 DEF DeleteBlank, DeleteNow, IsDirectory
  <2>7. /\ pc' = "save" /\ UNCHANGED <<lfs, tmp, fat>>
         /\ job' = [job EXCEPT !.del[i] = 0, !.path = File(S, i), !.at = S[i].clus]
    BY <2>5, <2>6 DEF DeleteFile
  <2>8. /\ job'.del = [job.del EXCEPT ![i] = 0] /\ job'.path = File(S, i)
         /\ job'.at = S[i].clus /\ job'.upd = job.upd /\ job'.dir = job.dir /\ job'.data = job.data
         /\ job'.new = job.new /\ IsJob(job')
    BY <2>7, Zenon DEF Steady, IsJob
  <2>9. job'.del = Nothing
    BY <1>3, <2>8 DEF Only, Nothing
  <2>10. S' = S
    BY <2>7 DEF S
  <2>11. Drops(S, i, job.upd)'
    <3>1. /\ Layout(fat', S', files') /\ i \in Named(S') /\ op'.gone = {File(S', i)}
      BY <1>3, <2>7, <2>10 DEF Drops, HostOut
    <3>2. \A k \in job'.upd : H'[k].clus = S'[i].clus /\ Wanted(k)' = files'[File(S', i)]
      BY <1>1, <1>3, <2>8, <2>10 DEF Drops, HostOut, HostStill
    <3> QED  BY <3>1, <3>2 DEF Drops
  <2>12. Saving'
    <3>1. job'.data = <<>> /\ Len(job'.data) = 0 /\ job'.data \in Seq(Block)
      BY <2>8 DEF Deleting
    <3>2. Chain(fat, S, i)' = Chain(fat, S, i)
      BY <2>7, <2>10
    <3>3. Stored(tmp', Chain(fat', S', i), files'[job'.path], 0)
      BY DEF Stored
    <3>4. Puts(job.upd)'
      BY <1>1, <2>1, <2>8 DEF HostStill
    <3>5. /\ 0 < Len(Chain(fat, S, i)) /\ job'.at = Chain(fat, S, i)[0 + 1]
      BY <2>2, <2>8 DEF FileFacts
    <3> QED  BY <2>1, <2>7, <2>8, <2>9, <2>10, <2>11, <3>1, <3>2, <3>3, <3>4, <3>5
             DEF Saving, HostOut
  <2>13. HandlingFrame'
    BY <1>1, <2>7, <2>8, FrameStill
  <2>14. Steady'
    BY <2>7, <2>8, SteadyStill DEF Steady
  <2> QED  BY <2>12, <2>13, <2>14 DEF HostInv, Handling, HandlingFrame
<1> QED  BY <1>2, <1>3 DEF Deleting, Listed

\* The one step of save_file_clusters.
LEMMA SaveSteps == ASSUME Step, pc = "save" PROVE SaveStep
BY DEF Step, DeleteBlank, DeleteNow, DeleteFile, NextDeleted, UpdateStop, UpdateDirectory,
       UpdateFile, NextUpdated, SaveDirectory, WriteStep, Finish

\* The one step of littlefs_write.
LEMMA WriteSteps == ASSUME Step, pc = "write" PROVE WriteStep
BY DEF Step, DeleteBlank, DeleteNow, DeleteFile, NextDeleted, UpdateStop, UpdateDirectory,
       UpdateFile, NextUpdated, SaveDirectory, SaveStep, Finish

\* littlefs_remove takes a file of the root away.
LEMMA FileRemoved ==
    ASSUME Tree(files), NEW p \in DOMAIN files
    PROVE  littlefs_remove(files, p) = [q \in DOMAIN files \ {p} |-> files[q]]
<1>1. ASSUME NEW q \in DOMAIN files PROVE Parent(q) # p
  <2>1. PICK m \in Names : q = <<m>>
    BY DEF Tree
  <2>2. PICK n \in Names : p = <<n>>
    BY DEF Tree
  <2>3. Parent(q) = <<>>
    BY <2>1 DEF Parent
  <2>4. Parent(q) # <<n>>
    BY <2>3
  <2> QED  BY <2>2, <2>4
<1> QED  BY <1>1 DEF littlefs_remove

\* What follows a cluster of a chain in the table.
LEMMA ChainNext ==
    ASSUME TableFits, NEW f, NEW w, Linked(f, w), NEW n \in Nat, n < Len(w)
    PROVE  /\ n + 1 \in 1..Len(w)
           /\ w[n + 1] \in 2..NumClusters
           /\ EndsChain(f[w[n + 1]]) <=> n + 1 = Len(w)
           /\ f[w[n + 1]] >= MEDIA <=> n + 1 = Len(w)
           /\ n + 1 # Len(w) => f[w[n + 1]] = w[n + 2] /\ n + 1 < Len(w)
<1>1. w \in Seq(2..NumClusters) /\ Len(w) \in Nat /\ n + 1 \in 1..Len(w)
  BY LenProperties DEF Linked
<1>2. w[n + 1] \in 2..NumClusters
  BY <1>1, ElementOfSeq
<1>3. f[w[n + 1]] = IF n + 1 = Len(w) THEN EOC ELSE w[(n + 1) + 1]
  BY <1>1 DEF Linked
<1>4. (n + 1) + 1 = n + 2
  OBVIOUS
<1>5. CASE n + 1 = Len(w)
  BY <1>1, <1>2, <1>3, <1>5 DEF EOC, MEDIA, EndsChain
<1>6. CASE n + 1 # Len(w)
  <2>1. n + 2 \in 1..Len(w)
    BY <1>1, <1>6
  <2>2. w[n + 2] \in 2..NumClusters
    BY <1>1, <2>1, ElementOfSeq
  <2>3. ~(w[n + 2] >= MEDIA) /\ w[n + 2] # FREE
    BY <2>2, ClusterAssumption DEF MEDIA, FREE, TableFits
  <2> QED  BY <1>1, <1>2, <1>3, <1>4, <1>6, <2>3 DEF EndsChain
<1> QED  BY <1>5, <1>6

\* save_temporary_file changes one cluster, and not the root.
LEMMA BlockSaved ==
    ASSUME NEW c \in 2..NumClusters, NEW b, tmp' = save_temporary_file(c, b), Steady
    PROVE  /\ c \in DOMAIN tmp' /\ tmp'[c] = b
           /\ \A d \in DOMAIN tmp : d # c => d \in DOMAIN tmp' /\ tmp'[d] = tmp[d]
           /\ S' = S /\ SavedRoot(tmp')
<1>1. tmp' = [k \in DOMAIN tmp \union {c} |-> IF k \in {c} THEN b ELSE tmp[k]]
  BY DEF save_temporary_file, SaveAll
<1>2. Root # c /\ Root \in DOMAIN tmp
  BY DEF Root, Steady, SavedRoot
<1> QED  BY <1>1, <1>2 DEF S, Steady, SavedRoot

\* One block more is in the temporary files.
LEMMA StoredMore ==
    ASSUME NEW w, NEW x, NEW n \in Nat, n < Len(w), Stored(tmp, w, x, n),
           w \in Seq(2..NumClusters), \A j, k \in 1..Len(w) : w[j] = w[k] => j = k,
           w[n + 1] \in DOMAIN tmp', tmp'[w[n + 1]] = x[n + 1],
           \A d \in DOMAIN tmp : d # w[n + 1] => d \in DOMAIN tmp' /\ tmp'[d] = tmp[d]
    PROVE  Stored(tmp', w, x, n + 1)
<1>1. Len(w) \in Nat
  BY LenProperties
<1> SUFFICES ASSUME NEW k \in 1..(n + 1) PROVE w[k] \in DOMAIN tmp' /\ tmp'[w[k]] = x[k]
  BY DEF Stored
<1>2. CASE k = n + 1
  BY <1>2
<1>3. CASE k # n + 1
  <2>1. k \in 1..n /\ k \in 1..Len(w) /\ n + 1 \in 1..Len(w)
    BY <1>1, <1>3
  <2>2. w[k] # w[n + 1]
    BY <1>3, <2>1
  <2> QED  BY <2>1, <2>2 DEF Stored
<1> QED  BY <1>2, <1>3

\* One turn of save_file_clusters, at block n + 1 of file i.
Saves(i) ==
    /\ Drops(S, i, job.upd)
    /\ job.path = File(S, i)
    /\ Len(job.data) < Len(Chain(fat, S, i))
    /\ job.at = Chain(fat, S, i)[Len(job.data) + 1]
    /\ Stored(tmp, Chain(fat, S, i), files[job.path], Len(job.data))
Turn(i, w, x, n, block) ==
    /\ pc = "save" /\ lfs = files /\ job.del = Nothing /\ job.data \in Seq(Block)
    /\ Puts(job.upd) /\ i \in Named(S) /\ op.gone = {job.path}
    /\ Linked(fat, w) /\ w \in Seq(2..NumClusters) /\ Len(w) \in Nat
    /\ x \in Seq(Values) /\ Len(x) = Len(w) /\ job.path \in DOMAIN files
    /\ n \in Nat /\ n < Len(w) /\ job.at = w[n + 1]
    /\ n + 1 \in 1..Len(w) /\ w[n + 1] \in 2..NumClusters
    /\ fat[w[n + 1]] >= MEDIA <=> n + 1 = Len(w)
    /\ n + 1 # Len(w) => fat[w[n + 1]] = w[n + 2] /\ n + 1 < Len(w)
    /\ block \in Block
    /\ tmp' = save_temporary_file(w[n + 1], block)
    /\ UNCHANGED fat
    /\ IF fat[w[n + 1]] >= MEDIA
         THEN /\ lfs' = littlefs_remove(lfs, job.path)
              /\ pc' = "delete"
              /\ job' = [job EXCEPT !.path = <<>>, !.at = 0, !.data = <<>>, !.buffer = Zero]
         ELSE /\ job' = [job EXCEPT !.at = fat[job.at], !.data = Append(@, block),
                                    !.buffer = block]
              /\ UNCHANGED <<lfs, pc>>
    /\ w[n + 1] \in DOMAIN tmp' /\ tmp'[w[n + 1]] = x[n + 1]
    /\ \A d \in DOMAIN tmp : d # w[n + 1] => d \in DOMAIN tmp' /\ tmp'[d] = tmp[d]
    /\ S' = S /\ SavedRoot(tmp')
    /\ Stored(tmp', w, x, n + 1)

\* One turn of save_file_clusters copies the next block of the file to its cluster.
LEMMA SavingTurn ==
    ASSUME TableFits, Steady, Saving, Step, NEW i, Saves(i)
    PROVE  \E block : Turn(i, Chain(fat, S, i), files[job.path], Len(job.data), block)
<1>1. /\ Drops(S, i, job.upd)
      /\ job.path = File(S, i)
      /\ Len(job.data) < Len(Chain(fat, S, i))
      /\ job.at = Chain(fat, S, i)[Len(job.data) + 1]
      /\ Stored(tmp, Chain(fat, S, i), files[job.path], Len(job.data))
  BY DEF Saves
<1> DEFINE w == Chain(fat, S, i)
           x == files[job.path]
           n == Len(job.data)
           block == IF n < Len(lfs[job.path]) THEN lfs[job.path][n + 1] ELSE job.buffer
<1>2. /\ pc = "save" /\ lfs = files /\ job.del = Nothing /\ job.data \in Seq(Block)
      /\ Puts(job.upd) /\ i \in Named(S) /\ op.gone = {job.path}
  BY <1>1 DEF Saving, Drops
<1>3. FileFacts(fat, S, files, i)
  BY <1>1, FilesHave DEF Drops
<1>4. /\ Linked(fat, w) /\ w \in Seq(2..NumClusters) /\ Len(w) \in Nat
      /\ x \in Seq(Values) /\ Len(x) = Len(w) /\ job.path \in DOMAIN files
      /\ n \in Nat /\ n < Len(w) /\ job.at = w[n + 1]
  BY <1>1, <1>2, <1>3, LenProperties DEF FileFacts
<1>5. /\ n + 1 \in 1..Len(w) /\ w[n + 1] \in 2..NumClusters
      /\ fat[w[n + 1]] >= MEDIA <=> n + 1 = Len(w)
      /\ n + 1 # Len(w) => fat[w[n + 1]] = w[n + 2] /\ n + 1 < Len(w)
  BY <1>4, ChainNext
<1>6. block = x[n + 1] /\ block \in Block
  <2>1. block = x[n + 1]
    BY <1>2, <1>4
  <2>2. x[n + 1] \in Values
    BY <1>4, <1>5, ElementOfSeq
  <2> QED  BY <2>1, <2>2 DEF Block
<1>7. /\ tmp' = save_temporary_file(w[n + 1], block)
      /\ UNCHANGED fat
      /\ IF fat[w[n + 1]] >= MEDIA
           THEN /\ lfs' = littlefs_remove(lfs, job.path)
                /\ pc' = "delete"
                /\ job' = [job EXCEPT !.path = <<>>, !.at = 0, !.data = <<>>, !.buffer = Zero]
           ELSE /\ job' = [job EXCEPT !.at = fat[w[n + 1]], !.data = Append(@, block),
                                      !.buffer = block]
                /\ UNCHANGED <<lfs, pc>>
  <2>1. SaveStep
    BY <1>2, SaveSteps
  <2> QED  BY <1>4, <2>1 DEF SaveStep
<1> HIDE DEF block
<1>8. /\ w[n + 1] \in DOMAIN tmp' /\ tmp'[w[n + 1]] = x[n + 1]
      /\ \A d \in DOMAIN tmp : d # w[n + 1] => d \in DOMAIN tmp' /\ tmp'[d] = tmp[d]
      /\ S' = S /\ SavedRoot(tmp')
  BY <1>5, <1>6, <1>7, BlockSaved
<1>9. Stored(tmp', w, x, n + 1)
  <2>1. \A j, k \in 1..Len(w) : w[j] = w[k] => j = k
    BY <1>4 DEF Linked
  <2>2. Stored(tmp, w, x, n)
    BY <1>1
  <2> HIDE DEF w, x, n
  <2> QED  BY <1>4, <1>8, <2>1, <2>2, StoredMore
<1>10. Turn(i, w, x, n, block)
  <2> HIDE DEF w, x, n
  <2> QED  BY <1>2, <1>4, <1>5, <1>6, <1>7, <1>8, <1>9 DEF Turn
<1> QED  BY <1>10 DEF block

\* After the last turn the file is removed, and its blocks are in the temporary files.
LEMMA SavingStep ==
    ASSUME TableFits, Steady, HandlingFrame, Saving, Step, HostOut PROVE HostInv'
<1>1. HostStill
  BY Still DEF HostOut
<1>2. PICK i : Saves(i)
  BY DEF Saving, Saves
<1> DEFINE w == Chain(fat, S, i)
           x == files[job.path]
           n == Len(job.data)
<1>3. PICK block : Turn(i, w, x, n, block)
  BY <1>2, SavingTurn
<1>4. Drops(S, i, job.upd) /\ job.path = File(S, i)
  BY <1>2 DEF Saves
<1>5. /\ pc = "save" /\ lfs = files /\ job.del = Nothing /\ job.data \in Seq(Block)
      /\ Puts(job.upd) /\ i \in Named(S) /\ op.gone = {job.path}
  BY <1>3 DEF Turn
<1>6. /\ Linked(fat, w) /\ w \in Seq(2..NumClusters) /\ Len(w) \in Nat
      /\ x \in Seq(Values) /\ Len(x) = Len(w) /\ job.path \in DOMAIN files
      /\ n \in Nat /\ n < Len(w) /\ job.at = w[n + 1] /\ block \in Block
  BY <1>3 DEF Turn
<1>7. /\ n + 1 \in 1..Len(w)
      /\ fat[w[n + 1]] >= MEDIA <=> n + 1 = Len(w)
      /\ n + 1 # Len(w) => fat[w[n + 1]] = w[n + 2] /\ n + 1 < Len(w)
  BY <1>3 DEF Turn
<1>8. /\ UNCHANGED fat
      /\ IF fat[w[n + 1]] >= MEDIA
           THEN /\ lfs' = littlefs_remove(lfs, job.path)
                /\ pc' = "delete"
                /\ job' = [job EXCEPT !.path = <<>>, !.at = 0, !.data = <<>>, !.buffer = Zero]
           ELSE /\ job' = [job EXCEPT !.at = fat[job.at], !.data = Append(@, block),
                                      !.buffer = block]
                /\ UNCHANGED <<lfs, pc>>
  BY <1>3 DEF Turn
<1>9. S' = S /\ SavedRoot(tmp')
  BY <1>3 DEF Turn
<1>10. Stored(tmp', w, x, n + 1)
  BY <1>3 DEF Turn
<1>11. CASE n + 1 # Len(w)
  <2>1. /\ job' = [job EXCEPT !.at = w[n + 2], !.data = Append(@, block), !.buffer = block]
        /\ UNCHANGED <<lfs, pc>>
    BY <1>6, <1>7, <1>8, <1>11
  <2>2. /\ job'.at = w[n + 2] /\ job'.data = Append(job.data, block) /\ job'.path = job.path
        /\ job'.upd = job.upd /\ job'.dir = job.dir /\ job'.new = job.new /\ job'.del = job.del
        /\ IsJob(job')
    <3> HIDE DEF w, n
    <3> QED  BY <2>1, Zenon DEF Steady, IsJob
  <2>3. job'.data \in Seq(Block) /\ Len(job'.data) = n + 1
    BY <1>5, <1>6, <2>2, AppendProperties
  <2>4. Drops(S, i, job.upd)'
    <3>1. /\ Layout(fat', S', files') /\ i \in Named(S') /\ op'.gone = {File(S', i)}
      BY <1>4, <1>8, <1>9 DEF Drops, HostOut
    <3>2. \A k \in job'.upd : H'[k].clus = S'[i].clus /\ Wanted(k)' = files'[File(S', i)]
      BY <1>1, <1>4, <1>9, <2>2 DEF Drops, HostOut, HostStill
    <3> QED  BY <3>1, <3>2 DEF Drops
  <2>5. Saving'
    <3>1. Chain(fat, S, i)' = w /\ files' = files
      BY <1>8, <1>9 DEF HostOut
    <3>2. Puts(job.upd)'
      BY <1>1, <1>5, <2>2 DEF HostStill
    <3>3. /\ Len(job'.data) < Len(w)
          /\ job'.at = w[Len(job'.data) + 1]
          /\ Stored(tmp', w, files[job'.path], Len(job'.data))
      <4>1. (n + 1) + 1 = n + 2
        BY <1>6
      <4>2. n + 1 < Len(w)
        BY <1>7, <1>11
      <4> HIDE DEF w, n
      <4> QED  BY <1>10, <2>2, <2>3, <4>1, <4>2
    <3>4. job'.path = File(S, i)' /\ pc' = "save" /\ lfs' = files' /\ job'.del = Nothing
      BY <1>4, <1>5, <1>9, <2>1, <2>2, <3>1 DEF File
    <3> HIDE DEF w, n, x
    <3> QED  BY <2>3, <2>4, <3>1, <3>2, <3>3, <3>4 DEF Saving
  <2>6. HandlingFrame'
    BY <1>1, <1>8, <2>2, FrameStill
  <2>7. Steady'
    BY <1>9, <2>2, SteadyStill
  <2> QED  BY <2>5, <2>6, <2>7 DEF HostInv, Handling, HandlingFrame
<1>12. CASE n + 1 = Len(w)
  <2>1. /\ job' = [job EXCEPT !.path = <<>>, !.at = 0, !.data = <<>>, !.buffer = Zero]
        /\ pc' = "delete" /\ lfs' = littlefs_remove(lfs, job.path)
    BY <1>7, <1>8, <1>12
  <2>2. /\ job'.data = <<>> /\ job'.upd = job.upd /\ job'.dir = job.dir /\ job'.new = job.new
        /\ job'.del = job.del /\ IsJob(job')
    BY <2>1, Zenon DEF Steady, IsJob
  <2>3. lfs' = Kept
    <3>1. lfs' = [q \in DOMAIN files \ {job.path} |-> files[q]]
      BY <1>5, <1>6, <2>1, FileRemoved DEF Steady
    <3> QED  BY <1>5, <3>1 DEF Kept
  <2>4. ASSUME NEW k \in job.upd PROVE Sent(k)'
    <3>1. H'[k].clus = S[i].clus /\ Wanted(k)' = x /\ fat' = fat
      BY <1>1, <1>4, <1>8 DEF Drops, HostStill
    <3>2. Chain(fat, H, k)' = w
      BY <3>1 DEF Chain
    <3>3. Stored(tmp', w, x, Len(x))
      BY <1>6, <1>10, <1>12
    <3> HIDE DEF w, x
    <3> QED  BY <3>1, <3>2, <3>3 DEF Sent
  <2>5. Removed'
    <3>1. Puts(job.upd)' /\ AllSent(job.upd)' /\ Kept' = Kept
      BY <1>1, <1>5, <2>2, <2>4 DEF HostStill, AllSent
    <3> QED  BY <1>5, <2>1, <2>2, <2>3, <3>1 DEF Removed
  <2>6. HandlingFrame'
    BY <1>1, <1>8, <2>2, FrameStill
  <2>7. Steady'
    BY <1>9, <2>2, SteadyStill
  <2> QED  BY <2>5, <2>6, <2>7 DEF HostInv, Handling, HandlingFrame
<1> QED  BY <1>11, <1>12

\* The update list names a file of the sector, and its entry leads to its path.
LEMMA UpdatePath ==
    ASSUME Steady, HandlingFrame, S = H, NEW k, Sets(k)
    PROVE  /\ k \in Slots /\ H[k].kind = "file" /\ H[k].clus # 0
           /\ restore_file_from(tmp, Root, H[k].clus) = File(H, k)
<1>1. k \in Named(H) /\ FileFacts(fat, H, Goal, k)
  BY FilesHave DEF HandlingFrame, Sets
<1>2. restore_file_from(tmp, Root, tmp[Root][k].clus) = File(tmp[Root], k)
  BY <1>1, RootPath DEF FileFacts, Steady, S
<1> QED  BY <1>1, <1>2 DEF FileFacts, S

\* littlefs_write opens the file, which leaves its content as it was.
LEMMA Opened ==
    ASSUME Tree(files), NEW n \in Names
    PROVE  /\ Openable(Kept, <<n>>)
           /\ (IF IsFile(Kept, <<n>>) THEN Kept ELSE Put(Kept, <<n>>, <<>>))
                 = Put(Kept, <<n>>, Old(<<n>>))
<1> DEFINE p == <<n>>
<1>1. p # <<>> /\ Parent(p) = <<>>
  BY DEF Parent
<1> HIDE DEF p
<1>2. CASE p \in DOMAIN Kept
  <2>1. p \in DOMAIN files /\ Kept[p] = files[p]
    BY <1>2 DEF Kept
  <2>2. IsFile(Kept, p)
    BY <1>2, <2>1, Stocked DEF Tree, IsFile
  <2>3. Kept = Put(Kept, p, Kept[p])
    <3>1. Kept = [q \in DOMAIN Kept |-> Kept[q]] /\ DOMAIN Kept \union {p} = DOMAIN Kept
      BY <1>2 DEF Kept
    <3> QED  BY <3>1 DEF Put
  <2> QED  BY <1>2, <2>2, <2>3 DEF p, Openable, Old
<1>3. CASE p \notin DOMAIN Kept
  BY <1>1, <1>3 DEF p, Openable, Creatable, IsFile, IsDir, Old
<1> QED  BY <1>2, <1>3

\* The file on the update list is opened by the path of its entry.
LEMMA UpdatingStep ==
    ASSUME Steady, HandlingFrame, Updating, Step, HostOut PROVE HostInv'
<1>1. HostStill
  BY Still DEF HostOut
<1>2. pc = "update" /\ S = H /\ job.data = <<>>
  BY DEF Updating
<1>3. CASE Finish
  <2>1. /\ job.upd = {} /\ pc' = "ready" /\ job' = NoJob
        /\ UNCHANGED <<lfs, tmp, fat>> /\ S' = S
    BY <1>3 DEF Finish, S
  <2>2. lfs = Goal
    BY <2>1, PutsNothing DEF Updating
  <2>3. Steady'
    <3>1. IsJob(job')
      BY <2>1 DEF IsJob, NoJob
    <3>2. SavedRoot(tmp')
      BY <2>1 DEF Steady
    <3> QED  BY <3>1, <3>2, SteadyStill
  <2>4. After(todo)'
    BY <1>1 DEF HandlingFrame, HostStill, HostOut
  <2>5. Over'
    BY <1>1, <1>2, <2>1, <2>2, <2>4 DEF Over, HandlingFrame, HostStill, HostOut
  <2> QED  BY <2>3, <2>5 DEF HostInv
<1>4. CASE \E j \in Slots : NextUpdated(j)
                            /\ (UpdateStop(j) \/ UpdateDirectory(j) \/ UpdateFile(j))
  <2>1. PICK j \in Slots : NextUpdated(j)
                            /\ (UpdateStop(j) \/ UpdateDirectory(j) \/ UpdateFile(j))
    BY <1>4
  <2>2. /\ job.upd # {} /\ j \in job.upd
    BY <2>1 DEF NextUpdated
  <2>3. PICK k \in Slots : job.upd = {k} /\ Sets(k) /\ Sent(k) /\ lfs = Kept
    BY <2>2 DEF Updating, Puts, AllSent
  <2>4. j = k
    BY <2>2, <2>3
  <2>5. /\ H[k].kind = "file" /\ H[k].clus # 0
        /\ restore_file_from(tmp, Root, H[k].clus) = File(H, k)
    BY <1>2, <2>3, UpdatePath
  <2>6. UpdateFile(k)
    BY <2>1, <2>4, <2>5 DEF UpdateStop, UpdateDirectory, HandlingFrame
  <2>7. FileFacts(fat, H, Goal, k)
    BY <2>3, FilesHave DEF Sets, HandlingFrame
  <2> DEFINE p == File(H, k)
  <2>8. /\ Openable(lfs, p)
        /\ (IF IsFile(lfs, p) THEN lfs ELSE Put(lfs, p, <<>>)) = Put(Kept, p, Old(p))
    BY <2>3, <2>7, Opened DEF Steady, FileFacts
  <2>9. /\ lfs' = Put(Kept, p, Old(p)) /\ pc' = "write" /\ UNCHANGED <<tmp, fat>>
        /\ job' = [[job EXCEPT !.upd = @ \ {k}] EXCEPT !.path = p, !.at = H[k].clus,
                                                       !.size = H[k].size]
    BY <2>5, <2>6, <2>8 DEF UpdateFile, StartWrite, Rest, HandlingFrame
  <2> HIDE DEF p
  <2>10. /\ job'.upd = job.upd \ {k} /\ job'.path = p /\ job'.at = H[k].clus
         /\ job'.size = H[k].size /\ job'.data = job.data
         /\ job'.dir = job.dir /\ job'.new = job.new /\ IsJob(job')
    BY <2>9, Zenon DEF Steady, IsJob
  <2>11. job'.upd = {} /\ job'.data = <<>> /\ Len(job'.data) = 0 /\ job'.data \in Seq(Block)
    BY <1>2, <2>3, <2>10, EmptySeq
  <2>12. BlocksKept /\ S' = S
    BY <2>9 DEF BlocksKept, S
  <2>13. Sets(k)' /\ Sent(k)'
    BY <1>1, <2>3, <2>9, <2>12, SentKept DEF HandlingFrame, HostStill
  <2>14. /\ p' = p /\ H' = H /\ Chain(fat, H, k)' = Chain(fat, H, k) /\ Wanted(k)' = Wanted(k)
         /\ Kept' = Kept /\ Old(p)' = Old(p)
    BY <1>1, <2>9 DEF HostStill, p, File
  <2>15. /\ 0 < Len(Chain(fat, H, k)) /\ H[k].clus = Chain(fat, H, k)[0 + 1]
         /\ <<>> = SubSeq(Wanted(k), 1, 0)
    <3>1. 0 < Len(Chain(fat, H, k)) /\ H[k].clus = Chain(fat, H, k)[0 + 1]
      BY <2>7 DEF FileFacts
    <3>2. Wanted(k) \in Seq(Values)
      BY <2>3, <2>7, SetsGoal DEF FileFacts
    <3> QED  BY <3>1, <3>2, EmptySeq
  <2>16. Writing'
    <3>1. /\ job'.path = File(H, k)' /\ job'.size = H'[k].size
          /\ Len(job'.data) < Len(Chain(fat, H, k)')
          /\ job'.at = Chain(fat, H, k)'[Len(job'.data) + 1]
          /\ job'.data = SubSeq(Wanted(k)', 1, Len(job'.data))
      BY <2>10, <2>11, <2>14, <2>15 DEF p
    <3>2. (lfs = Put(Kept, job.path, Old(job.path)))'
      BY <2>9, <2>10, <2>14 DEF Old
    <3> QED  BY <1>2, <2>9, <2>11, <2>12, <2>13, <2>14, <3>1, <3>2 DEF Writing
  <2>17. HandlingFrame'
    BY <1>1, <2>9, <2>10, FrameStill
  <2>18. Steady'
    BY <2>9, <2>10, SteadyStill DEF Steady
  <2> QED  BY <2>16, <2>17, <2>18 DEF HostInv, Handling, HandlingFrame
<1> QED  BY <1>2, <1>3, <1>4, UpdateSteps

\* One more block of a sequence.
LEMMA OneMore ==
    ASSUME NEW T, NEW x \in Seq(T), NEW n \in Nat, n < Len(x)
    PROVE  /\ SubSeq(x, 1, n) \in Seq(T)
           /\ SubSeq(x, 1, n) \o <<x[n + 1]>> = SubSeq(x, 1, n + 1)
           /\ Len(SubSeq(x, 1, n + 1)) = n + 1
<1>1. Len(x) \in Nat /\ n + 1 \in 1..Len(x) /\ n \in 0..Len(x)
  BY LenProperties
<1> DEFINE a == SubSeq(x, 1, n)
           b == <<x[n + 1]>>
           c == SubSeq(x, 1, n + 1)
<1>2. /\ a \in Seq(T) /\ Len(a) = n /\ \A k \in 1..n : a[k] = x[k]
      /\ c \in Seq(T) /\ Len(c) = n + 1 /\ \A k \in 1..(n + 1) : c[k] = x[k]
  BY <1>1
<1>3. b \in Seq(T) /\ Len(b) = 1 /\ b[1] = x[n + 1]
  BY <1>1, ElementOfSeq
<1> HIDE DEF a, b, c
<1>4. /\ a \o b \in Seq(T) /\ Len(a \o b) = n + 1
      /\ \A k \in 1..(n + 1) : (a \o b)[k] = IF k <= n THEN a[k] ELSE b[k - n]
  <2>1. /\ a \o b \in Seq(T)
        /\ Len(a \o b) = Len(a) + Len(b)
        /\ \A k \in 1..(Len(a) + Len(b)) :
              (a \o b)[k] = IF k <= Len(a) THEN a[k] ELSE b[k - Len(a)]
    BY <1>2, <1>3, ConcatProperties
  <2> QED  BY <1>2, <1>3, <2>1
<1>5. \A k \in 1..(n + 1) : (a \o b)[k] = c[k]
  <2> SUFFICES ASSUME NEW k \in 1..(n + 1) PROVE (a \o b)[k] = c[k]
    OBVIOUS
  <2>1. CASE k <= n
    <3>1. k \in 1..n
      BY <2>1
    <3>2. (a \o b)[k] = a[k]
      BY <1>4, <2>1
    <3> QED  BY <1>2, <3>1, <3>2
  <2>2. CASE ~(k <= n)
    <3>1. k = n + 1 /\ k - n = 1
      BY <2>2
    <3> QED  BY <1>2, <1>3, <1>4, <2>2, <3>1
  <2> QED  BY <2>1, <2>2
<1>6. a \o b = c
  BY <1>2, <1>4, <1>5, SeqEqual
<1> QED  BY <1>2, <1>6 DEF a, b, c

\* What a file of the old tree holds, or a new one, is a sequence of blocks.
LEMMA OldBlocks == ASSUME Tree(files), NEW p PROVE Old(p) \in Seq(Block)
<1>1. \A x \in Seq(Values) : x \in Seq(Block)
  BY SeqMonotonic DEF Block
<1>2. CASE p \in DOMAIN Kept
  <2>1. p \in DOMAIN files /\ Kept[p] = files[p]
    BY <1>2 DEF Kept
  <2> QED  BY <1>1, <1>2, <2>1, Stocked DEF Tree, Old
<1>3. CASE p \notin DOMAIN Kept
  BY <1>3, EmptySeq DEF Old
<1> QED  BY <1>2, <1>3

\* With the last block the file holds what was sent, whatever it held before.
LEMMA Committed ==
    ASSUME Tree(files), NEW p, NEW x \in Seq(Values), NEW g
    PROVE  Put(Put(g, p, Old(p)), p, Truncate(Overlay(Put(g, p, Old(p))[p], x), Len(x)))
              = Put(g, p, x)
<1>1. Put(g, p, Old(p))[p] = Old(p)
  BY DEF Put
<1>2. x \in Seq(Block) /\ Old(p) \in Seq(Block) /\ Len(x) \in 0..Len(x)
  <2>1. x \in Seq(Block)
    BY SeqMonotonic DEF Block
  <2> QED  BY <2>1, OldBlocks, LenProperties
<1>3. Truncate(Overlay(Old(p), x), Len(x)) = x
  <2>1. Truncate(Overlay(Old(p), x), Len(x)) = [k \in 1..Len(x) |-> x[k]]
    BY <1>2, CommitForgets
  <2>2. x = [k \in 1..Len(x) |-> x[k]]
    OBVIOUS
  <2> QED  BY <2>1, <2>2
<1>4. \A y : Put(Put(g, p, y), p, x) = Put(g, p, x)
  BY DEF Put
<1> QED  BY <1>1, <1>3, <1>4

\* One turn of littlefs_write takes the next block, and the last one closes the file.
LEMMA WritingStep ==
    ASSUME TableFits, Steady, HandlingFrame, Writing, Step, HostOut PROVE HostInv'
<1>1. HostStill
  BY Still DEF HostOut
<1>2. PICK k : /\ Sets(k) /\ Sent(k)
               /\ job.path = File(H, k)
               /\ job.size = H[k].size
               /\ Len(job.data) < Len(Chain(fat, H, k))
               /\ job.at = Chain(fat, H, k)[Len(job.data) + 1]
               /\ job.data = SubSeq(Wanted(k), 1, Len(job.data))
               /\ lfs = Put(Kept, job.path, Old(job.path))
  BY DEF Writing
<1> DEFINE w == Chain(fat, H, k)
           x == Wanted(k)
           n == Len(job.data)
<1>3. pc = "write" /\ S = H /\ job.upd = {}
  BY DEF Writing
<1>4. /\ FileFacts(fat, H, Goal, k) /\ Goal[File(H, k)] = x
      /\ Goal = Put(Kept, job.path, x)
  BY <1>2, FilesHave, SetsGoal DEF HandlingFrame
<1>5. /\ Linked(fat, w) /\ w \in Seq(2..NumClusters) /\ Len(w) \in Nat
      /\ x \in Seq(Values) /\ Len(x) = Len(w) /\ job.size = Len(x)
      /\ n < Len(w) /\ job.at = w[n + 1]
  BY <1>2, <1>4, LenProperties DEF FileFacts
<1>6. n \in Nat /\ n + 1 \in 1..Len(w) /\ n + 1 \in 1..Len(x) /\ Len(x) \in Nat
  BY <1>3, <1>5, LenProperties
<1>7. /\ w[n + 1] \in 2..NumClusters
      /\ EndsChain(fat[w[n + 1]]) <=> n + 1 = Len(w)
      /\ n + 1 # Len(w) => fat[w[n + 1]] = w[n + 2] /\ n + 1 < Len(w)
  BY <1>5, <1>6, ChainNext
<1>8. SentBlock(w[n + 1]) = <<x[n + 1]>> /\ <<x[n + 1]>> # <<>>
  <2>1. w[n + 1] \in DOMAIN tmp /\ tmp[w[n + 1]] = x[n + 1]
    BY <1>2, <1>6 DEF Sent, Stored
  <2>2. x[n + 1] \in Block
    BY <1>5, <1>6, ElementOfSeq DEF Block
  <2> QED  BY <2>1, <2>2 DEF SentBlock
<1> DEFINE data == SubSeq(x, 1, n + 1)
<1>9. /\ job.data \o SentBlock(w[n + 1]) = data
      /\ Len(data) = n + 1 /\ data \in Seq(Block)
  <2>1. /\ SubSeq(x, 1, n) \o <<x[n + 1]>> = data
        /\ Len(data) = n + 1
    BY <1>5, <1>6, OneMore
  <2>2. data \in Seq(Values)
    BY <1>5, <1>6
  <2>3. data \in Seq(Block)
    BY <2>2, SeqMonotonic DEF Block
  <2>4. job.data = SubSeq(x, 1, n)
    BY <1>2
  <2> HIDE DEF x, n, data
  <2> QED  BY <1>8, <2>1, <2>3, <2>4
<1>10. /\ UNCHANGED <<tmp, fat>>
       /\ IF n + 1 = Len(w)
          THEN /\ lfs' = Put(lfs, job.path, Truncate(Overlay(lfs[job.path], data), job.size))
               /\ pc' = "update"
               /\ job' = [job EXCEPT !.path = <<>>, !.at = 0, !.size = 0, !.data = <<>>]
          ELSE /\ job' = [job EXCEPT !.at = w[n + 2], !.data = data]
               /\ UNCHANGED <<lfs, pc>>
  <2>1. WriteStep
    BY <1>3, WriteSteps
  <2> HIDE DEF w, n, x, data
  <2> QED  BY <1>5, <1>7, <1>8, <1>9, <2>1 DEF WriteStep
<1>11. BlocksKept /\ S' = S
  BY <1>10 DEF BlocksKept, S
<1>12. Sets(k)' /\ Sent(k)'
  BY <1>1, <1>2, <1>10, <1>11, SentKept DEF HandlingFrame, HostStill
<1>13. Chain(fat, H, k)' = w /\ Wanted(k)' = x /\ H' = H /\ Kept' = Kept
  BY <1>1, <1>10 DEF HostStill
<1>14. CASE n + 1 # Len(w)
  <2>1. job' = [job EXCEPT !.at = w[n + 2], !.data = data] /\ UNCHANGED <<lfs, pc>>
    BY <1>10, <1>14
  <2>2. /\ job'.at = w[n + 2] /\ job'.data = data /\ job'.path = job.path
        /\ job'.size = job.size /\ job'.upd = job.upd /\ job'.dir = job.dir
        /\ job'.new = job.new /\ IsJob(job')
    <3> HIDE DEF w, n, data
    <3> QED  BY <2>1, Zenon DEF Steady, IsJob
  <2>3. Writing'
    <3>1. /\ job'.path = File(H, k)' /\ job'.size = H'[k].size
      BY <1>2, <1>13, <2>2 DEF File
    <3>2. /\ Len(job'.data) < Len(w)
          /\ job'.at = w[Len(job'.data) + 1]
          /\ job'.data = SubSeq(x, 1, Len(job'.data))
      <4>1. (n + 1) + 1 = n + 2 /\ n + 1 < Len(w)
        BY <1>6, <1>7, <1>14
      <4> HIDE DEF w, n, x
      <4> QED  BY <1>9, <2>2, <4>1
    <3>3. (lfs = Put(Kept, job.path, Old(job.path)))'
      BY <1>2, <1>13, <2>1, <2>2 DEF Old
    <3> HIDE DEF w, n, x, data
    <3> QED  BY <1>3, <1>9, <1>11, <1>12, <1>13, <2>1, <2>2, <3>1, <3>2, <3>3 DEF Writing
  <2>4. HandlingFrame'
    BY <1>1, <1>10, <2>2, FrameStill
  <2>5. Steady'
    BY <1>10, <2>2, SteadyStill DEF Steady
  <2> QED  BY <2>3, <2>4, <2>5 DEF HostInv, Handling, HandlingFrame
<1>15. CASE n + 1 = Len(w)
  <2>1. /\ job' = [job EXCEPT !.path = <<>>, !.at = 0, !.size = 0, !.data = <<>>]
        /\ pc' = "update"
        /\ lfs' = Put(lfs, job.path, Truncate(Overlay(lfs[job.path], data), job.size))
    BY <1>10, <1>15
  <2>2. /\ job'.data = <<>> /\ job'.upd = job.upd /\ job'.dir = job.dir
        /\ job'.new = job.new /\ IsJob(job')
    <3> HIDE DEF data
    <3> QED  BY <2>1, Zenon DEF Steady, IsJob
  <2>3. lfs' = Goal
    <3>1. data = x
      BY <1>5, <1>6, <1>15
    <3>2. Put(lfs, job.path, Truncate(Overlay(lfs[job.path], x), Len(x))) = Put(Kept, job.path, x)
      <4> HIDE DEF x
      <4> QED  BY <1>2, <1>5, Committed DEF Steady
    <3> HIDE DEF x, data
    <3> QED  BY <1>4, <1>5, <2>1, <3>1, <3>2
  <2>4. Updating'
    BY <1>1, <1>3, <1>11, <1>13, <2>1, <2>2, <2>3 DEF Updating, HostStill
  <2>5. HandlingFrame'
    BY <1>1, <1>10, <2>2, FrameStill
  <2>6. Steady'
    BY <1>10, <2>2, SteadyStill DEF Steady
  <2> QED  BY <2>4, <2>5, <2>6 DEF HostInv, Handling, HandlingFrame
<1> QED  BY <1>14, <1>15

\* Every step of the write handler keeps the invariant.
LEMMA StepKeeps ==
    ASSUME TableFits, HostInv, Step, HostOut PROVE HostInv'
<1>1. CASE Emptying
  BY <1>1, EmptyingStep DEF HostInv
<1>2. CASE Handling
  <2>1. Steady /\ HandlingFrame /\ (Deleting \/ Saving \/ Removed \/ Updating \/ Writing)
    BY <1>2 DEF HostInv, Handling, HandlingFrame
  <2> QED  BY <2>1, DeletingStep, SavingStep, RemovedStep, UpdatingStep, WritingStep
<1>3. pc # "ready"
  BY ReadyStill
<1> QED  BY <1>1, <1>2, <1>3 DEF HostInv, Settled, Filling, Ready, Over

-----------------------------------------------------------------------------
(* The sectors the host sends.                                             *)

SendsBlock(w, x, n, last) ==
    /\ Writes(w, x, n, last) # <<>>
    /\ Head(Writes(w, x, n, last)) = [at |-> w[n + 1], data |-> x[n + 1], touched |-> TRUE]
    /\ Tail(Writes(w, x, n, last)) = Writes(w, x, n + 1, last)

\* A block is sent, and the rest is next.
LEMMA WritesNext ==
    ASSUME NEW w, NEW x, Len(x) \in Nat, NEW n \in Nat, n < Len(x), NEW last, Len(last) \in Nat
    PROVE  SendsBlock(w, x, n, last)
<1> DEFINE m == (Len(x) - n) + Len(last)
           v == [k \in 1..m |->
                    IF k <= Len(x) - n THEN [at |-> w[n + k], data |-> x[n + k], touched |-> TRUE]
                    ELSE last[k - (Len(x) - n)]]
           u == [k \in 1..(m - 1) |->
                    IF k <= Len(x) - (n + 1)
                    THEN [at |-> w[(n + 1) + k], data |-> x[(n + 1) + k], touched |-> TRUE]
                    ELSE last[k - (Len(x) - (n + 1))]]
<1>1. m \in Nat \ {0} /\ 1 \in 1..m /\ 1 <= Len(x) - n
      /\ (Len(x) - (n + 1)) + Len(last) = m - 1
  OBVIOUS
<1>2. Writes(w, x, n, last) = v /\ Writes(w, x, n + 1, last) = u
  BY <1>1 DEF Writes
<1>3. v[1] = [at |-> w[n + 1], data |-> x[n + 1], touched |-> TRUE]
  BY <1>1
<1>4. \A k \in 1..(m - 1) : v[k + 1] = u[k]
  <2> SUFFICES ASSUME NEW k \in 1..(m - 1) PROVE v[k + 1] = u[k]
    OBVIOUS
  <2>1. k + 1 \in 1..m /\ n + (k + 1) = (n + 1) + k
        /\ (k + 1) - (Len(x) - n) = k - (Len(x) - (n + 1))
        /\ (k + 1 <= Len(x) - n <=> k <= Len(x) - (n + 1))
    BY <1>1
  <2> QED  BY <2>1
<1>5. DOMAIN v = 1..m /\ u = [k \in 1..(m - 1) |-> u[k]]
  OBVIOUS
<1>6. v = [k \in 1..m |-> v[k]]
  OBVIOUS
<1> HIDE DEF m, u, v
<1>7. Len(v) = m /\ v # <<>> /\ Head(v) = v[1] /\ Tail(v) = [k \in 1..(m - 1) |-> v[k + 1]]
  <2>1. \A a : [k \in 1..m |-> a[k]] # <<>>
              /\ Len([k \in 1..m |-> a[k]]) = m
              /\ Head([k \in 1..m |-> a[k]]) = a[1]
              /\ Tail([k \in 1..m |-> a[k]]) = [k \in 1..(m - 1) |-> a[k + 1]]
    BY <1>1
  <2> QED  BY <1>6, <2>1
<1> QED  BY <1>2, <1>3, <1>4, <1>5, <1>7 DEF SendsBlock

\* After the blocks come the last sectors.
LEMMA WritesOver ==
    ASSUME NEW w, NEW x, Len(x) \in Nat, NEW T, NEW last \in Seq(T)
    PROVE  Writes(w, x, Len(x), last) = last
<1>1. Len(x) - Len(x) = 0 /\ 0 + Len(last) = Len(last)
  BY LenProperties
<1>2. Writes(w, x, Len(x), last) = [k \in 1..Len(last) |-> last[k]]
  BY <1>1, LenProperties DEF Writes
<1>3. last = [k \in 1..Len(last) |-> last[k]]
  OBVIOUS
<1> QED  BY <1>2, <1>3

\* Two and three sectors in a row.
InRow(x, a, t) == /\ \E T : x \in Seq(T)
                  /\ Head(x) = a /\ Tail(x) = t

\* Two sectors in a row.
LEMMA TwoSectors ==
    ASSUME NEW a, NEW b
    PROVE  <<a>> \o <<b>> = <<a, b>> /\ InRow(<<a, b>>, a, <<b>>)
<1> DEFINE T == {a, b}
           u == <<a>>
           v == <<b>>
           z == <<a, b>>
<1>1. /\ u \in Seq(T) /\ Len(u) = 1 /\ u[1] = a
      /\ v \in Seq(T) /\ Len(v) = 1 /\ v[1] = b
      /\ z \in Seq(T) /\ Len(z) = 2 /\ z[1] = a /\ z[2] = b
  OBVIOUS
<1>2. Head(z) = a /\ Tail(z) = v
  OBVIOUS
<1> HIDE DEF T, u, v, z
<1>3. /\ u \o v \in Seq(T) /\ Len(u \o v) = 2 /\ (u \o v)[1] = a /\ (u \o v)[2] = b
  BY <1>1, ConcatProperties
<1>4. u \o v = z
  BY <1>1, <1>3, SeqEqual
<1>5. InRow(z, a, v)
  BY <1>1, <1>2 DEF InRow
<1> QED  BY <1>4, <1>5 DEF u, v, z

\* Three sectors in a row.
LEMMA ThreeSectors ==
    ASSUME NEW a, NEW b, NEW c
    PROVE  <<a>> \o <<b, c>> = <<a, b, c>> /\ InRow(<<a, b, c>>, a, <<b, c>>)
<1> DEFINE T == {a, b, c}
           u == <<a>>
           v == <<b, c>>
           z == <<a, b, c>>
<1>1. /\ u \in Seq(T) /\ Len(u) = 1 /\ u[1] = a
      /\ v \in Seq(T) /\ Len(v) = 2 /\ v[1] = b /\ v[2] = c
      /\ z \in Seq(T) /\ Len(z) = 3 /\ z[1] = a /\ z[2] = b /\ z[3] = c
  OBVIOUS
<1>2. Head(z) = a /\ Tail(z) = v
  OBVIOUS
<1> HIDE DEF T, u, v, z
<1>3. /\ u \o v \in Seq(T) /\ Len(u \o v) = 3
      /\ (u \o v)[1] = a /\ (u \o v)[2] = b /\ (u \o v)[3] = c
  <2>1. /\ u \o v \in Seq(T) /\ Len(u \o v) = Len(u) + Len(v)
        /\ \A i \in 1..(Len(u) + Len(v)) :
              (u \o v)[i] = IF i <= Len(u) THEN u[i] ELSE v[i - Len(u)]
    BY <1>1, ConcatProperties
  <2>2. \A i \in 1..3 : (u \o v)[i] = IF i <= 1 THEN u[i] ELSE v[i - 1]
    BY <1>1, <2>1
  <2>3. 2 - 1 = 1 /\ 3 - 1 = 2
    OBVIOUS
  <2> QED  BY <1>1, <2>1, <2>2, <2>3
<1>4. u \o v = z
  BY <1>1, <1>3, SeqEqual
<1>5. InRow(z, a, v)
  BY <1>1, <1>2 DEF InRow
<1> QED  BY <1>4, <1>5 DEF u, v, z

\* The next sector is one of the FAT, or of the root.
LEMMA NextFat ==
    ASSUME NEW f, Head(todo) = FatWrite(f), Write
    PROVE  WriteFat(f) /\ todo' = Tail(todo) /\ UNCHANGED <<hdir, op, files>>
<1>1. Head(todo).at = FatArea /\ Head(todo).data = f /\ Root # FatArea
  BY DEF FatWrite, FatArea, Root
<1> QED  BY <1>1, Zenon DEF Write

\* The next sector is the root.
LEMMA NextRoot ==
    ASSUME NEW s, Head(todo) = DirWrite(Root, s), Write
    PROVE  WriteRoot(s, TRUE) /\ todo' = Tail(todo) /\ UNCHANGED <<hdir, op, files>>
<1>1. /\ Head(todo).at = Root /\ Head(todo).data = s /\ Head(todo).touched = TRUE
      /\ Root # FatArea
  BY DEF DirWrite, FatArea, Root
<1> QED  BY <1>1, Zenon DEF Write

\* The next sector is a block.
LEMMA NextBlock ==
    ASSUME NEW c \in 2..NumClusters, NEW x, Head(todo) = [at |-> c, data |-> x, touched |-> TRUE],
           Write
    PROVE  WriteCluster(c, x, TRUE) /\ todo' = Tail(todo) /\ UNCHANGED <<hdir, op, files>>
<1>1. /\ Head(todo).at = c /\ Head(todo).data = x /\ Head(todo).touched = TRUE
      /\ c # FatArea /\ c # Root
  BY DEF FatArea, Root
<1> QED  BY <1>1, Zenon DEF Write

\* A block of a cluster the FAT does not hold yet is saved and nothing else.
LEMMA BlockSent ==
    ASSUME Steady, NEW c \in 2..NumClusters, NEW x, WriteCluster(c, x, TRUE), fat[c] = FREE,
           \A i \in Named(S) : S[i].clus # c
    PROVE  tmp' = save_temporary_file(c, x) /\ UNCHANGED <<lfs, fat, pc, job>>
<1>1. find_base_cluster_and_offset(fat, bcc, c).base = 0
  BY DEF find_base_cluster_and_offset
<1> DEFINE saved == save_temporary_file(c, x)
<1>2. SavedRoot(saved) /\ saved[Root] = S
  <2>1. saved = [k \in DOMAIN tmp \union {c} |-> IF k \in {c} THEN x ELSE tmp[k]]
    BY DEF save_temporary_file, SaveAll
  <2>2. Root # c /\ Root \in DOMAIN tmp
    BY DEF Root, Steady, SavedRoot
  <2> HIDE DEF saved
  <2> QED  BY <2>1, <2>2 DEF S, Steady, SavedRoot
<1> HIDE DEF saved
<1>3. ~Found(find_dir_entry_cache(saved, c))
  BY <1>2, RootMiss
<1>4. WriteUnallocated(c, x) /\ UNCHANGED fat
  BY <1>1 DEF WriteCluster
<1> QED  BY <1>3, <1>4 DEF WriteUnallocated, saved

\* The difference of the two sectors is what the drive will work on.
LEMMA Compared ==
    ASSUME Steady, NEW s, WriteRoot(s, TRUE), NEW del, NEW upd, Lists(S, s, del, upd)
    PROVE  /\ pc' = "delete" /\ UNCHANGED <<lfs, tmp, fat>>
           /\ job'.dir = Root /\ job'.orig = S /\ job'.new = s /\ job'.del = del
           /\ job'.upd = upd /\ job'.data = <<>> /\ IsJob(job')
<1>1. /\ pc' = "delete" /\ UNCHANGED <<lfs, tmp, fat>>
      /\ job' = [NoJob EXCEPT !.dir = Root, !.orig = S, !.new = s, !.del = del, !.upd = upd]
  BY DEF WriteRoot, Compare, Steady, SavedRoot, S, Lists
<1> QED  BY <1>1 DEF NoJob, IsJob

SendsNext(w, x, n, f, last) ==
    IF n < Len(x)
    THEN /\ w[n + 1] \in 2..NumClusters /\ w[n + 1] \in Cells(w)
         /\ Head(todo) = [at |-> w[n + 1], data |-> x[n + 1], touched |-> TRUE]
         /\ Tail(todo) = Writes(w, x, n + 1, <<FatWrite(f)>> \o last)
    ELSE n = Len(x) /\ Head(todo) = FatWrite(f) /\ Tail(todo) = last

\* What a host that fills a file sends next: a block, or the table.
LEMMA FillsNext ==
    ASSUME TableFits, NEW i, NEW n, NEW f, NEW last, Fills(i, n, f, last)
    PROVE  SendsNext(Chain(f, H, i), Wanted(i), n, f, last)
<1> PICK w : w = Chain(f, H, i)
  OBVIOUS
<1> PICK x : x = Wanted(i)
  OBVIOUS
<1> PICK l : l = <<FatWrite(f)>> \o last
  OBVIOUS
<1>1. /\ Sets(i) /\ Layout(f, H, Goal) /\ n \in 0..Len(x)
      /\ todo = Writes(w, x, n, l)
      /\ Ending(last, S, i)
  BY DEF Fills
<1>2. FileFacts(f, H, Goal, i) /\ Goal[File(H, i)] = x
  BY <1>1, FilesHave, SetsGoal
<1>3. /\ w \in Seq(2..NumClusters) /\ Len(w) \in Nat /\ Len(x) = Len(w) /\ Len(x) \in Nat
      /\ n \in Nat
  BY <1>1, <1>2, LenProperties DEF FileFacts
<1>4. InRow(l, FatWrite(f), last) /\ Len(l) \in Nat
  <2>1. InRow(l, FatWrite(f), last)
    <3>1. CASE last = <<DirWrite(Root, H)>>
      BY <3>1, TwoSectors
    <3>2. CASE \E e : last = <<DirWrite(Root, e), DirWrite(Root, H)>>
      <4>1. PICK e : last = <<DirWrite(Root, e), DirWrite(Root, H)>>
        BY <3>2
      <4> QED  BY <4>1, ThreeSectors
    <3> QED  BY <1>1, <3>1, <3>2 DEF Ending
  <2> QED  BY <2>1, LenProperties DEF InRow
<1>5. CASE n < Len(x)
  <2>1. w[n + 1] \in 2..NumClusters /\ w[n + 1] \in Cells(w)
    <3>1. n + 1 \in 1..Len(w)
      BY <1>3, <1>5
    <3> QED  BY <1>3, <3>1, ElementOfSeq DEF Cells
  <2>2. SendsBlock(w, x, n, l)
    BY <1>3, <1>4, <1>5, WritesNext
  <2> QED  BY <1>1, <1>5, <2>1, <2>2 DEF SendsBlock, SendsNext
<1>6. CASE ~(n < Len(x))
  <2>1. n = Len(x)
    BY <1>1, <1>3, <1>6
  <2>2. Writes(w, x, Len(x), l) = l
    BY <1>3, <1>4, WritesOver DEF InRow
  <2> QED  BY <1>1, <1>4, <1>6, <2>1, <2>2 DEF InRow, SendsNext
<1> QED  BY <1>5, <1>6

\* While the host sends a block only that cluster changes.
LEMMA FillingBlock ==
    ASSUME TableFits, Steady, op # None, pc = "ready", lfs = files,
           NEW i, NEW n, NEW f, NEW last, Fills(i, n, f, last), n < Len(Wanted(i)), Write
    PROVE  HostInv'
<1> DEFINE w == Chain(f, H, i)
           x == Wanted(i)
           l == <<FatWrite(f)>> \o last
<1>1. /\ Sets(i) /\ op.gone = {} /\ Layout(f, H, Goal) /\ n \in 0..Len(x)
      /\ todo = Writes(w, x, n, l)
      /\ Ending(last, S, i)
      /\ \A c \in Cells(w) : fat[c] = FREE /\ \A j \in Named(S) : S[j].clus # c
      /\ Stored(tmp, w, x, n)
  BY DEF Fills
<1>2. /\ FileFacts(f, H, Goal, i) /\ Goal[File(H, i)] = x
  BY <1>1, FilesHave, SetsGoal
<1>3. /\ Linked(f, w) /\ w \in Seq(2..NumClusters) /\ Len(w) \in Nat
      /\ x \in Seq(Values) /\ Len(x) = Len(w) /\ Len(x) \in Nat
      /\ n \in Nat /\ n < Len(x) /\ n + 1 \in 1..Len(w) /\ n + 1 \in 0..Len(x)
  BY <1>1, <1>2, LenProperties DEF FileFacts
<1>4. w[n + 1] \in 2..NumClusters /\ w[n + 1] \in Cells(w)
  BY <1>3, ElementOfSeq DEF Cells
<1> HIDE DEF w, x, l
<1>5. /\ Head(todo) = [at |-> w[n + 1], data |-> x[n + 1], touched |-> TRUE]
      /\ Tail(todo) = Writes(w, x, n + 1, l)
  <2>1. SendsNext(w, x, n, f, last)
    BY FillsNext DEF w, x
  <2> QED  BY <1>3, <2>1 DEF SendsNext, l
<1>6. /\ WriteCluster(w[n + 1], x[n + 1], TRUE) /\ todo' = Writes(w, x, n + 1, l)
      /\ UNCHANGED <<hdir, op, files>>
  BY <1>4, <1>5, NextBlock
<1>7. tmp' = save_temporary_file(w[n + 1], x[n + 1]) /\ UNCHANGED <<lfs, fat, pc, job>>
  BY <1>1, <1>4, <1>6, BlockSent
<1>8. /\ w[n + 1] \in DOMAIN tmp' /\ tmp'[w[n + 1]] = x[n + 1]
      /\ \A d \in DOMAIN tmp : d # w[n + 1] => d \in DOMAIN tmp' /\ tmp'[d] = tmp[d]
      /\ S' = S /\ SavedRoot(tmp')
  BY <1>4, <1>7, BlockSaved
<1>9. Stored(tmp', w, x, n + 1)
  <2>1. \A j, k \in 1..Len(w) : w[j] = w[k] => j = k
    BY <1>3 DEF Linked
  <2> QED  BY <1>1, <1>3, <1>8, <2>1, StoredMore
<1>10. HostStill
  BY <1>6, Still
<1>11. Chain(f, H, i)' = w /\ Wanted(i)' = x /\ H' = H
  BY <1>10 DEF HostStill, w, x
<1>12. Fills(i, n + 1, f, last)'
  <2>1. Sets(i)' /\ Ending(last, S, i)' /\ Goal' = Goal
    BY <1>1, <1>8, <1>10 DEF HostStill
  <2>2. /\ Layout(f, H', Goal') /\ op'.gone = {} /\ n + 1 \in 0..Len(x)
        /\ todo' = Writes(w, x, n + 1, <<FatWrite(f)>> \o last)
        /\ \A c \in Cells(w) : fat'[c] = FREE /\ \A j \in Named(S') : S'[j].clus # c
    BY <1>1, <1>3, <1>6, <1>7, <1>8, <1>11, <2>1 DEF l
  <2> QED  BY <1>9, <1>11, <2>1, <2>2 DEF Fills
<1>13. Filling'
  BY <1>6, <1>7, <1>12 DEF Filling
<1>14. Steady'
  BY <1>6, <1>7, <1>8 DEF Steady, H, Updates
<1> QED  BY <1>13, <1>14 DEF HostInv

\* After the blocks comes the table, and then a directory sector is next.
LEMMA FillingOver ==
    ASSUME TableFits, Steady, op # None, pc = "ready", lfs = files,
           NEW i, NEW n, NEW f, NEW last, Fills(i, n, f, last), ~(n < Len(Wanted(i))), Write
    PROVE  HostInv'
<1> DEFINE w == Chain(f, H, i)
           x == Wanted(i)
<1>1. /\ Sets(i) /\ op.gone = {} /\ Layout(f, H, Goal)
      /\ Ending(last, S, i)
      /\ Stored(tmp, w, x, n)
  BY DEF Fills
<1>2. SendsNext(w, x, n, f, last)
  BY FillsNext
<1> HIDE DEF w, x
<1>3. n = Len(x) /\ Head(todo) = FatWrite(f) /\ Tail(todo) = last
  BY <1>2 DEF SendsNext, x
<1>4. WriteFat(f) /\ todo' = last /\ UNCHANGED <<hdir, op, files>>
  BY <1>3, NextFat
<1>5. fat' = f /\ UNCHANGED <<lfs, tmp, pc, job>>
  BY <1>4 DEF WriteFat
<1>6. HostStill
  BY <1>4, Still
<1>7. S' = S /\ H' = H /\ Goal' = Goal
  BY <1>5, <1>6 DEF S, HostStill
<1>8. Sets(i)' /\ Sent(i)'
  <2>1. Sets(i)'
    BY <1>1, <1>6 DEF HostStill
  <2>2. Chain(fat, H, i)' = w /\ Wanted(i)' = x
    BY <1>5, <1>6 DEF HostStill, w, x
  <2> QED  BY <1>1, <1>3, <1>5, <2>1, <2>2 DEF Sent
<1>9. LastNext' \/ EmptyNext'
  <2>1. CASE last = <<DirWrite(Root, H)>> /\ Lists(S, H, Nothing, {i})
    <3>1. todo' = <<DirWrite(Root, H')>> \o <<>> /\ After(<<>>)'
      BY <1>4, <1>7, <2>1 DEF After
    <3>2. Listed(S, Nothing, {i})'
      <4>1. i \in Slots
        BY <1>1 DEF Sets, Named
      <4> QED  BY <1>1, <1>4, <1>8, <4>1 DEF Listed, Puts, AllSent
    <3>3. Lists(S', H', Nothing, {i})
      BY <1>7, <2>1
    <3> QED  BY <3>1, <3>2, <3>3 DEF LastNext
  <2>2. CASE \E e : last = <<DirWrite(Root, e), DirWrite(Root, H)>> /\ Emptied(S, e, i)
    <3>1. PICK e : last = <<DirWrite(Root, e), DirWrite(Root, H)>> /\ Emptied(S, e, i)
      BY <2>2
    <3>2. Emptied(S, e, i)'
      BY <1>6, <1>7, <3>1 DEF HostStill
    <3> QED  BY <1>1, <1>4, <1>7, <1>8, <3>1, <3>2 DEF EmptyNext
  <2> QED  BY <1>1, <2>1, <2>2 DEF Ending
<1>10. Ready'
  BY <1>1, <1>4, <1>5, <1>7, <1>9 DEF Ready
<1>11. Steady'
  BY <1>4, <1>5, <1>7 DEF Steady, Updates
<1> QED  BY <1>10, <1>11 DEF HostInv

\* The drive takes the last directory sector, or the one before it.
LEMMA ReadyWrite ==
    ASSUME TableFits, Steady, Ready, Write PROVE HostInv'
<1>1. op # None /\ pc = "ready" /\ lfs = files /\ Layout(fat, H, Goal)
  BY DEF Ready
<1>2. CASE LastNext
  <2>1. PICK t : todo = <<DirWrite(Root, H)>> \o t /\ After(t)
    BY <1>2 DEF LastNext
  <2>2. PICK del, upd : Lists(S, H, del, upd) /\ Listed(S, del, upd)
    BY <1>2 DEF LastNext
  <2>3. Head(todo) = DirWrite(Root, H) /\ Tail(todo) = t
    <3>1. CASE t = <<>>
      BY <2>1, <3>1
    <3>2. CASE \E f : t = <<FatWrite(f)>>
      <4>1. PICK f : t = <<FatWrite(f)>>
        BY <3>2
      <4>2. todo = <<DirWrite(Root, H), FatWrite(f)>>
        BY <2>1, <4>1, TwoSectors
      <4> QED  BY <4>1, <4>2
    <3> QED  BY <2>1, <3>1, <3>2 DEF After
  <2>4. WriteRoot(H, TRUE) /\ todo' = t /\ UNCHANGED <<hdir, op, files>>
    BY <2>3, NextRoot
  <2>5. /\ pc' = "delete" /\ UNCHANGED <<lfs, tmp, fat>>
        /\ job'.dir = Root /\ job'.orig = S /\ job'.new = H /\ job'.del = del
        /\ job'.upd = upd /\ job'.data = <<>> /\ IsJob(job')
    BY <2>2, <2>4, Compared
  <2>6. HostStill
    BY <2>4, Still
  <2>7. S' = S /\ H' = H /\ Goal' = Goal
    BY <2>5, <2>6 DEF S, HostStill
  <2>8. BlocksKept
    BY <2>5 DEF BlocksKept
  <2>9. Listed(S, del, upd)'
    <3>1. Puts(upd)'
      BY <2>2, <2>6 DEF HostStill, Listed
    <3>2. AllSent(upd) => AllSent(upd)'
      <4> SUFFICES ASSUME AllSent(upd), NEW k \in upd PROVE Sent(k)'
        BY DEF AllSent
      <4>1. Sets(k) /\ Sent(k)
        BY <2>2 DEF AllSent, Listed, Puts
      <4> QED  BY <1>1, <2>5, <2>6, <2>8, <4>1, SentKept
    <3>3. ASSUME NEW j, Drops(S, j, upd) PROVE Drops(S, j, upd)'
      <4>1. /\ Layout(fat', S', files') /\ j \in Named(S') /\ op'.gone = {File(S', j)}
        BY <2>4, <2>5, <2>7, <3>3 DEF Drops
      <4>2. \A k \in upd : H'[k].clus = S'[j].clus /\ Wanted(k)' = files'[File(S', j)]
        BY <2>4, <2>6, <2>7, <3>3 DEF Drops, HostStill
      <4> QED  BY <4>1, <4>2 DEF Drops
    <3> QED  BY <2>2, <2>4, <3>1, <3>2, <3>3 DEF Listed
  <2>10. Handling'
    <3>1. Deleting'
      BY <2>4, <2>5, <2>7, <2>9, <1>1 DEF Deleting
    <3>2. After(todo)'
      BY <2>1, <2>4, <2>6 DEF HostStill
    <3> QED  BY <1>1, <2>4, <2>5, <2>7, <3>1, <3>2 DEF Handling
  <2>11. Steady'
    BY <2>4, <2>5, <2>7 DEF Steady, Updates
  <2> QED  BY <2>10, <2>11 DEF HostInv
<1>3. CASE EmptyNext
  <2>1. PICK i, e : /\ Sets(i) /\ Sent(i) /\ op.gone = {}
                    /\ todo = <<DirWrite(Root, e), DirWrite(Root, H)>>
                    /\ Emptied(S, e, i)
    BY <1>3 DEF EmptyNext
  <2>2. Head(todo) = DirWrite(Root, e) /\ Tail(todo) = <<DirWrite(Root, H)>>
    BY <2>1
  <2>3. WriteRoot(e, TRUE) /\ todo' = <<DirWrite(Root, H)>> /\ UNCHANGED <<hdir, op, files>>
    BY <2>2, NextRoot
  <2>4. /\ pc' = "delete" /\ UNCHANGED <<lfs, tmp, fat>>
        /\ job'.dir = Root /\ job'.orig = S /\ job'.new = e /\ job'.del = Nothing
        /\ job'.upd = {i} /\ job'.data = <<>> /\ IsJob(job')
    BY <2>1, <2>3, Compared DEF Emptied
  <2>5. HostStill
    BY <2>3, Still
  <2>6. S' = S /\ H' = H /\ Goal' = Goal
    BY <2>4, <2>5 DEF S, HostStill
  <2>7. BlocksKept
    BY <2>4 DEF BlocksKept
  <2>8. Sent(i)' /\ Sets(i)'
    BY <1>1, <2>1, <2>4, <2>5, <2>7, SentKept DEF HostStill
  <2>9. /\ RootSector(e) /\ i \in Named(e) /\ e[i].clus = 0 /\ Lists(e, H, Nothing, {i})
    BY <2>1 DEF Emptied
  <2>10. Emptying'
    BY <1>1, <2>1, <2>3, <2>4, <2>6, <2>8, <2>9 DEF Emptying
  <2>11. Steady'
    BY <2>3, <2>4, <2>6 DEF Steady, Updates
  <2> QED  BY <2>10, <2>11 DEF HostInv
<1> QED  BY <1>2, <1>3 DEF Ready

\* The table comes last.
LEMMA OverWrite ==
    ASSUME TableFits, Steady, Over, Write PROVE HostInv'
<1>1. /\ op # None /\ pc = "ready" /\ lfs = Goal /\ S = H /\ Layout(fat, H, Goal) /\ After(todo)
  BY DEF Over
<1>2. todo # <<>>
  BY DEF Write
<1>3. PICK f : todo = <<FatWrite(f)>> /\ Layout(f, H, Goal)
  BY <1>1, <1>2 DEF After
<1>4. Head(todo) = FatWrite(f) /\ Tail(todo) = <<>>
  BY <1>3
<1>5. WriteFat(f) /\ todo' = <<>> /\ UNCHANGED <<hdir, op, files>>
  BY <1>4, NextFat
<1>6. fat' = f /\ UNCHANGED <<lfs, tmp, pc, job>>
  BY <1>5 DEF WriteFat
<1>7. HostStill
  BY <1>5, Still
<1>8. S' = S /\ H' = H /\ Goal' = Goal
  BY <1>6, <1>7 DEF S, HostStill
<1>9. After(todo)'
  BY <1>5 DEF After
<1>10. Over'
  BY <1>1, <1>3, <1>5, <1>6, <1>8, <1>9 DEF Over
<1>11. Steady'
  BY <1>5, <1>6, <1>8 DEF Steady, Updates
<1> QED  BY <1>10, <1>11 DEF HostInv

\* Every sector the host sends keeps the invariant.
LEMMA WriteKeeps ==
    ASSUME TableFits, HostInv, Write PROVE HostInv'
<1>1. pc = "ready" /\ todo # <<>>
  <2>1. \/ WriteFat(Head(todo).data) \/ WriteRoot(Head(todo).data, Head(todo).touched)
        \/ WriteCluster(Head(todo).at, Head(todo).data, Head(todo).touched)
    BY Zenon DEF Write
  <2> QED  BY <2>1 DEF WriteFat, WriteRoot, WriteCluster, Write
<1>2. CASE Filling
  <2>1. PICK i, n, f, last : Fills(i, n, f, last)
    BY <1>2 DEF Filling
  <2>2. op # None /\ pc = "ready" /\ lfs = files /\ Steady
    BY <1>2 DEF Filling, HostInv
  <2>3. CASE n < Len(Wanted(i))
    BY <2>1, <2>2, <2>3, FillingBlock
  <2>4. CASE ~(n < Len(Wanted(i)))
    BY <2>1, <2>2, <2>4, FillingOver
  <2> QED  BY <2>3, <2>4
<1>3. CASE Ready
  BY <1>3, ReadyWrite DEF HostInv
<1>4. CASE Over
  BY <1>4, OverWrite DEF HostInv
<1>5. ~Settled
  BY <1>1 DEF Settled
<1>6. ~Emptying /\ ~Handling
  BY <1>1 DEF Emptying, Handling, Deleting, Saving, Removed, Updating, Writing
<1> QED  BY <1>2, <1>3, <1>4, <1>5, <1>6 DEF HostInv

\* A macOS host that keeps clear of ghosts, at work on files.
MacHost ==
    /\ Careful = TRUE
    /\ Ops \subseteq {"createMac", "updateMac", "delete", "renameMac", "touch", "read"}

\* The entries in use of the root are its files.
LEMMA InUseNamed == ASSUME RootSector(H) PROVE InUse(Root) = Named(H) /\ FilesIn(Root) = Named(H)
<1>1. \A i \in Slots : H[i].kind \in {"label", "blank", "file"}
  BY SlotFacts
<1> QED  BY <1>1 DEF InUse, FilesIn, Named, H

\* The slot a new entry goes to.
LEMMA FreeFacts ==
    ASSUME RootSector(H), FreeSlots(Root) # {}
    PROVE  Placeable(H, FreeSlot(Root)) /\ FreeSlot(Root) \notin Named(H)
<1> DEFINE F == FreeSlots(Root)
           i == FreeSlot(Root)
<1>1. F = {k \in Slots : H[k].kind = "blank" \/ H[k].del}
  BY DEF FreeSlots, H
<1>2. i = First(F)
  BY DEF FreeSlot
<1>3. F \in SUBSET Slots
  BY <1>1
<1> HIDE DEF F, i
<1>4. i \in F /\ \A k \in F : i <= k
  BY <1>2, <1>3, FirstLeast DEF F
<1>5. i \in Slots /\ (H[i].kind = "blank" \/ H[i].del)
  BY <1>1, <1>4
<1>6. H[1].kind = "label" /\ H[1].del = FALSE
  BY DEF RootSector, entry
<1>7. i # 1
  BY <1>5, <1>6
<1>8. ASSUME NEW k \in Slots, k < i PROVE H[k] # Blank
  <2>1. k \notin F
    BY <1>4, <1>5, <1>8 DEF Slots
  <2> QED  BY <1>1, <2>1 DEF Blank, entry
<1>9. i \notin Named(H)
  BY <1>5 DEF Named
<1> QED  BY <1>5, <1>7, <1>8, <1>9 DEF Placeable, i

\* New clusters are free, and no entry has one.
IsNew(w) == \A c \in Cells(w) : /\ fat[c] = FREE
                                /\ \A j \in Slots : H[j].kind = "file" => H[j].clus # c
\* A new chain takes clusters that are free and that no entry names.
LEMMA FreshFacts ==
    ASSUME MacHost, Layout(fat, H, files), NEW w, NEW n, Takes(Root, w, n)
    PROVE  IsNew(w)
<1> SUFFICES ASSUME NEW c \in Cells(w)
             PROVE  fat[c] = FREE /\ \A j \in Slots : H[j].kind = "file" => H[j].clus # c
  BY DEF IsNew
<1>1. c \in Spare(Root)
  BY DEF Takes
<1>2. fat[c] = FREE /\ \A i \in Dead(H) : H[i].clus # c
  BY <1>1 DEF Spare, MacHost, H
<1>3. ASSUME NEW j \in Slots, H[j].kind = "file" PROVE H[j].clus # c
  <2>1. CASE j \in Named(H)
    <3>1. FileFacts(fat, H, files, j)
      BY <2>1, FilesHave
    <3>2. fat[Chain(fat, H, j)[1]] # FREE
      BY <3>1, LinkedCells DEF FileFacts
    <3> QED  BY <1>2, <3>1, <3>2 DEF FileFacts
  <2>2. CASE j \notin Named(H)
    <3>1. H[j].del \in BOOLEAN
      BY SlotFacts DEF Layout, Entry
    <3>2. j \in Dead(H)
      BY <1>3, <2>2, <3>1 DEF Named, Dead
    <3> QED  BY <1>2, <3>2
  <2> QED  BY <2>1, <2>2
<1> QED  BY <1>2, <1>3

\* The chains of the files are not free.
LEMMA OldChains ==
    ASSUME Layout(fat, H, files), NEW w, IsNew(w), NEW j \in Named(H)
    PROVE  /\ Cells(Chain(fat, H, j)) \intersect Cells(w) = {}
           /\ Cells(Chain(fat, H, j)) \subseteq 2..NumClusters
<1>1. FileFacts(fat, H, files, j)
  BY FilesHave
<1>2. /\ \A c \in Cells(Chain(fat, H, j)) : fat[c] # FREE
      /\ Cells(Chain(fat, H, j)) \subseteq 2..NumClusters
  BY <1>1, LinkedCells DEF FileFacts
<1> QED  BY <1>2 DEF IsNew

\* The path of a file of the root is its name.
LEMMA RootName == ASSUME NEW n PROVE Path(Root, n) = <<n>>
BY DEF Path, PathTo

\* What a plan is in the state between operations.
Planned(name, gone, put, t, writes) ==
    /\ op' = [name |-> name, gone |-> gone, put |-> put]
    /\ todo' = writes
    /\ H' = t /\ DOMAIN hdir' = {Root}
    /\ UNCHANGED <<vars, files>>

\* What a careful host plans.
LEMMA PlanFacts ==
    ASSUME MacHost, NEW name, NEW gone, NEW put, NEW dirs,
           DOMAIN hdir = {Root}, DOMAIN dirs = {Root},
           NEW writes, NEW k \in 1..Len(writes), writes[k].at = Root,
           Plan(name, gone, put, dirs, writes)
    PROVE  /\ Planned(name, gone, put, dirs[Root], writes) /\ op = None /\ name \in Ops
           /\ NoGhost(H) /\ ~Meet(H, dirs[Root])
<1>1. Ghostless(dirs, writes)
  BY DEF Plan, MacHost
<1>2. ~Meet(hdir[Root], hdir[Root]) /\ ~Meet(hdir[Root], dirs[Root])
  BY <1>1 DEF Ghostless, Dirs
<1> QED  BY <1>2 DEF Plan, Planned, NoGhost, H

\* Without a request the drive is between operations.
LEMMA Idleness == ASSUME HostInv, op = None PROVE Settled
BY DEF HostInv, Filling, Ready, Emptying, Handling, Over

\* A plan keeps what holds in every state.
LEMMA SteadyPlanned ==
    ASSUME Steady, NEW name, NEW gone, NEW put, NEW t, NEW writes,
           Planned(name, gone, put, t, writes), RootSector(t),
           name = "updateMac" => gone = {} /\ DOMAIN put \subseteq DOMAIN files
    PROVE  Steady'
<1>1. UNCHANGED <<tmp, files, job>>
  BY DEF Planned, vars
<1> QED  BY <1>1 DEF Steady, Planned, Updates

\* A request that changes nothing, or drops or sets one file, on a tree.
LEMMA NoRequest ==
    ASSUME Tree(files), NEW name
    PROVE  Store!Apply([name |-> name, gone |-> {}, put |-> NoFiles], files) = files
<1> DEFINE r == [name |-> name, gone |-> {}, put |-> NoFiles]
<1>1. DOMAIN r.put = {} /\ r.gone = {}
  BY DEF NoFiles
<1> HIDE DEF r
<1>2. Store!Apply(r, files) = [p \in DOMAIN files |-> files[p]]
  BY <1>1 DEF Store!Apply
<1> QED  BY <1>2 DEF Tree, r

\* What a request for one file asks for.
LEMMA PutRequest ==
    ASSUME NEW name, NEW gone, NEW p, NEW x
    PROVE  Store!Apply([name |-> name, gone |-> gone, put |-> At(p, x)], files)
              = Put([q \in DOMAIN files \ gone |-> files[q]], p, x)
<1> DEFINE r == [name |-> name, gone |-> gone, put |-> At(p, x)]
<1>1. DOMAIN r.put = {p} /\ r.put[p] = x /\ r.gone = gone
  BY DEF At
<1> HIDE DEF r
<1>2. Store!Apply(r, files) = [q \in (DOMAIN files \ gone) \union {p} |->
                                  IF q \in {p} THEN r.put[q] ELSE files[q]]
  BY <1>1 DEF Store!Apply
<1>3. Store!Apply(r, files) = Put([q \in DOMAIN files \ gone |-> files[q]], p, x)
  BY <1>1, <1>2 DEF Put
<1> QED  BY <1>3 DEF r

\* What a request to drop one file asks for.
LEMMA DropRequest ==
    ASSUME NEW name, NEW p
    PROVE  Store!Apply([name |-> name, gone |-> {p}, put |-> NoFiles], files) = Without(files, p)
<1> DEFINE r == [name |-> name, gone |-> {p}, put |-> NoFiles]
<1>1. DOMAIN r.put = {} /\ r.gone = {p}
  BY DEF NoFiles
<1> HIDE DEF r
<1>2. Store!Apply(r, files) = [q \in DOMAIN files \ {p} |-> files[q]]
  BY <1>1 DEF Store!Apply
<1> QED  BY <1>2 DEF Without, r

\* A request for a file is a request.
LEMMA SomeRequest ==
    ASSUME NEW name \in Ops, NEW gone \in SUBSET Seq(Names),
           NEW n \in Names, NEW x \in Contents \union Mounted
    PROVE  None # [name |-> name, gone |-> gone, put |-> At(<<n>>, x)]
<1> PICK put : put = At(<<n>>, x)
  OBVIOUS
<1>1. put \in {At(<<m>>, y) : m \in Names, y \in Contents \union Mounted}
  OBVIOUS
<1>2. None # [name |-> name, gone |-> gone, put |-> put]
  BY <1>1, NoneAssumption
<1> QED  BY <1>2

\* A plan that starts with the last directory sector.
LEMMA ReadyPlanned ==
    ASSUME Settled, Steady', NEW name, NEW gone, NEW put, NEW t, NEW tail,
           None # [name |-> name, gone |-> gone, put |-> put],
           Planned(name, gone, put, t, <<DirWrite(Root, t)>> \o tail),
           Layout(fat, t, Goal'), After(tail)',
           NEW s, s = H, NEW del, NEW upd, Lists(s, t, del, upd), Listed(s, del, upd)'
    PROVE  HostInv'
<1>1. /\ op' # None /\ todo' = <<DirWrite(Root, H')>> \o tail /\ H' = t
      /\ UNCHANGED <<lfs, tmp, fat, bcc, pc, job, files>>
  BY DEF Planned, vars
<1>2. S' = s /\ pc' = "ready" /\ lfs' = files'
  BY <1>1 DEF Settled, S
<1>3. LastNext'
  BY <1>1, <1>2 DEF LastNext
<1>4. Ready'
  BY <1>1, <1>2, <1>3 DEF Ready
<1> QED  BY <1>4 DEF HostInv

\* The root written again keeps the invariant.
LEMMA TouchKeeps ==
    ASSUME MacHost, HostInv, Touch(Root) PROVE HostInv'
<1>1. Steady /\ DOMAIN hdir = {Root} /\ Tree(files) /\ RootSector(H)
  BY DEF HostInv, Steady
<1> DEFINE writes == <<DirWrite(Root, H)>>
<1>2. writes[1].at = Root /\ 1 \in 1..Len(writes) /\ writes = <<DirWrite(Root, H)>> \o <<>>
  BY DEF DirWrite
<1>3. Plan("touch", {}, NoFiles, hdir, writes)
  BY DEF Touch, H
<1> HIDE DEF writes
<1>4. Planned("touch", {}, NoFiles, H, writes) /\ op = None /\ "touch" \in Ops /\ NoGhost(H)
  BY <1>1, <1>2, <1>3, PlanFacts DEF H
<1>5. Settled
  BY <1>4, Idleness
<1>6. Goal' = files
  BY <1>1, <1>4, NoRequest DEF Planned, Goal
<1> PICK s : s = H
  OBVIOUS
<1>7. Listed(s, Nothing, {})'
  BY <1>4 DEF Planned, Listed, Puts, AllSent
<1>8. Lists(s, s, Nothing, {}) /\ Layout(fat, s, Goal') /\ After(<<>>)'
  BY <1>1, <1>4, <1>5, <1>6, TouchLists DEF Settled, After
<1>9. Steady'
  BY <1>1, <1>4, SteadyPlanned
<1>10. None # [name |-> "touch", gone |-> {}, put |-> NoFiles]
  BY <1>4, NoneAssumption
<1> QED  BY <1>2, <1>4, <1>5, <1>7, <1>8, <1>9, <1>10, ReadyPlanned

\* The two sectors of a deletion.
Deletes(s, i, t, writes) ==
    /\ Planned("delete", {File(s, i)}, NoFiles, t, writes) /\ op = None /\ "delete" \in Ops
    /\ NoGhost(s) /\ i \in Named(s) /\ i \in Slots /\ s[i].clus # 0
    /\ t = [s EXCEPT ![i] = Deleted(s[i])]
    /\ writes = <<DirWrite(Root, t), FatWrite(Release(fat, s[i].clus))>>

\* The host that deletes a file writes the root, and then the table.
LEMMA DeletePlanned ==
    ASSUME MacHost, HostInv, NEW i \in FilesIn(Root), Delete(Root, i), NEW s, s = H
    PROVE  \E t, writes : Deletes(s, i, t, writes)
<1> PICK f : f = Release(fat, s[i].clus)
  OBVIOUS
<1>1. DOMAIN hdir = {Root} /\ RootSector(s) /\ hdir[Root] = s
  BY DEF HostInv, Steady, H
<1>2. i \in Named(s) /\ i \in Slots
  BY <1>1, InUseNamed DEF Named
<1> DEFINE t == [s EXCEPT ![i] = Deleted(s[i])]
           writes == <<DirWrite(Root, t), FatWrite(f)>>
           dirs == [hdir EXCEPT ![Root] = t]
<1>3. Plan("delete", {File(s, i)}, NoFiles, dirs, writes) /\ s[i].clus # 0
  BY <1>1, RootName DEF Delete, File
<1>4. writes[1].at = Root /\ 1 \in 1..Len(writes)
  BY DEF DirWrite
<1>5. DOMAIN dirs = {Root} /\ dirs[Root] = t
  BY <1>1
<1>6. t = [s EXCEPT ![i] = Deleted(s[i])] /\ writes = <<DirWrite(Root, t), FatWrite(f)>>
  OBVIOUS
<1> HIDE DEF t, writes, dirs
<1>7. /\ Planned("delete", {File(s, i)}, NoFiles, t, writes) /\ op = None /\ "delete" \in Ops
      /\ NoGhost(s)
  BY <1>1, <1>3, <1>4, <1>5, PlanFacts
<1> QED  BY <1>2, <1>3, <1>6, <1>7 DEF Deletes

\* The deletion of a file keeps the invariant.
LEMMA DeleteKeeps ==
    ASSUME TableFits, MacHost, HostInv, NEW i \in FilesIn(Root), Delete(Root, i) PROVE HostInv'
<1> PICK s : s = H
  OBVIOUS
<1> PICK f : f = Release(fat, s[i].clus)
  OBVIOUS
<1>1. Steady /\ DOMAIN hdir = {Root} /\ Tree(files) /\ RootSector(s) /\ hdir[Root] = s
  BY DEF HostInv, Steady, H
<1>2. PICK t, writes : Deletes(s, i, t, writes)
  BY DeletePlanned
<1>3. i \in Named(s) /\ i \in Slots /\ s[i].clus # 0 /\ t = [s EXCEPT ![i] = Deleted(s[i])]
  BY <1>2 DEF Deletes
<1> DEFINE tail == <<FatWrite(f)>>
<1>4. writes = <<DirWrite(Root, t)>> \o tail
  BY <1>2, TwoSectors DEF Deletes
<1> HIDE DEF tail
<1>5. /\ Planned("delete", {File(s, i)}, NoFiles, t, writes) /\ op = None /\ "delete" \in Ops
      /\ NoGhost(s)
  BY <1>2 DEF Deletes
<1>6. Settled /\ Layout(fat, s, files)
  BY <1>5, Idleness DEF Settled
<1>7. Goal' = Without(files, File(s, i))
  BY <1>5, DropRequest DEF Planned, Goal
<1>8. /\ Layout(fat, t, Goal') /\ Layout(f, t, Goal')
  <2>1. SameChains(fat, fat, s, Named(s) \ {i})
    BY DEF SameChains
  <2>2. SameChains(fat, f, s, Named(s) \ {i})
    <3> SUFFICES ASSUME NEW j \in Named(s) \ {i}, NEW c \in Cells(Chain(fat, s, j))
                 PROVE  f[c] = fat[c]
      BY DEF SameChains
    <3>1. OwnChain(fat, s, j, i)
      BY <1>3, <1>6 DEF Layout, Chained
    <3>2. c \notin Cells(ChainOf(fat, s[i].clus))
      BY <3>1 DEF OwnChain, Chain
    <3>3. c \in Cluster
      <4>1. FileFacts(fat, s, files, j)
        BY <1>6, FilesHave
      <4>2. Cells(Chain(fat, s, j)) \subseteq 2..NumClusters
        BY <4>1, LinkedCells DEF FileFacts
      <4> QED  BY <4>2 DEF Cluster
    <3> QED  BY <3>2, <3>3, Released
  <2>3. Layout(fat, t, Without(files, File(s, i)))
    BY <1>3, <1>6, <2>1, LayoutDrop
  <2>4. Layout(f, t, Without(files, File(s, i)))
    BY <1>3, <1>6, <2>2, LayoutDrop
  <2> QED  BY <1>7, <2>3, <2>4
<1>9. RootSector(t)
  BY <1>8 DEF Layout
<1>10. Lists(s, t, Only(i), {})
  BY <1>1, <1>3, <1>5, <1>9, DeleteLists DEF RootSector
<1>11. After(tail)'
  BY <1>5, <1>8 DEF After, tail, Planned
<1>12. Listed(s, Only(i), {})'
  <2>1. Puts({})'
    BY <1>5 DEF Planned, Puts
  <2>2. Drops(s, i, {})'
    BY <1>3, <1>5, <1>6 DEF Planned, Drops, vars
  <2> QED  BY <1>3, <2>1, <2>2 DEF Listed
<1>13. Steady'
  BY <1>1, <1>5, <1>9, SteadyPlanned
<1>14. None # [name |-> "delete", gone |-> {File(s, i)}, put |-> NoFiles]
  <2>1. {File(s, i)} \in SUBSET Seq(Names)
    <3>1. s[i].name \in Names
      BY <1>1, <1>3, SlotFacts
    <3> QED  BY <3>1 DEF File
  <2> QED  BY <1>5, <2>1, NoneAssumption
<1> QED  BY <1>4, <1>5, <1>6, <1>8, <1>10, <1>11, <1>12, <1>13, <1>14, ReadyPlanned

IsEntry(e) ==
    e = [kind |-> e.kind, name |-> e.name, del |-> e.del, clus |-> e.clus, size |-> e.size]

\* An entry with its name set, and nothing else.
LEMMA NameSet ==
    ASSUME NEW e, IsEntry(e), NEW n
    PROVE  [e EXCEPT !.name = n]
              = [kind |-> e.kind, name |-> n, del |-> e.del, clus |-> e.clus, size |-> e.size]
<1> PICK c : c = [e EXCEPT !.name = n]
  OBVIOUS
<1>1. /\ IsEntry(c) /\ c.name = n
      /\ c.kind = e.kind /\ c.del = e.del /\ c.clus = e.clus /\ c.size = e.size
  BY Zenon DEF IsEntry
<1> QED  BY <1>1, Zenon DEF IsEntry

Renaming(e, n) == [e EXCEPT !.name = n]

\* The file in its new slot, and the entry it had deleted.
IsRenamed(f, s, g, i, k, n, t) ==
    /\ Layout(f, t, Put(Without(g, File(s, i)), <<n>>, g[File(s, i)]))
    /\ k # i /\ k \in Named(t) /\ t[k].name = n
    /\ SameData(t[k], s[i]) /\ t[k].clus = s[i].clus
    /\ t[i] = Deleted(s[i])
    /\ \A j \in Slots \ {i, k} : t[j] = s[j]

\* A renamed file keeps its chain and its content.
LEMMA Renamed ==
    ASSUME TableFits, NEW f, NEW s, NEW g, Layout(f, s, g), NEW i \in Named(s),
           NEW k \in Slots, k \notin Named(s), Placeable(s, k), NEW n \in Names,
           \A j \in Named(s) : ShortOf[s[j].name] # ShortOf[n],
           NEW t, t = [s EXCEPT ![k] = Renaming(s[i], n), ![i] = Deleted(s[i])]
    PROVE  IsRenamed(f, s, g, i, k, n, t)
<1>1. /\ RootSector(s) /\ FileFacts(f, s, g, i)
      /\ s \in Sector /\ DOMAIN s = Slots /\ i \in Slots /\ k # i /\ s[i] \in Entry
  BY FilesHave DEF Layout, RootSector, Sector, Named
<1> DEFINE s1 == [s EXCEPT ![i] = Deleted(s[i])]
           g1 == Without(g, File(s, i))
           w == Chain(f, s, i)
           x == g[File(s, i)]
           e == FileAt(n, w)
<1>2. e = Renaming(s[i], n)
  <2>1. /\ s[i].kind = "file" /\ s[i].del = FALSE /\ s[i].clus = w[1] /\ s[i].size = Len(w)
    BY <1>1 DEF FileFacts, Entry
  <2>2. IsEntry(s[i])
    BY <1>1 DEF Entry, IsEntry
  <2>3. e = [kind |-> "file", name |-> n, del |-> FALSE, clus |-> w[1], size |-> Len(w)]
    BY DEF entry, FileAt
  <2> HIDE DEF w, e
  <2> PICK c : c = s[i]
    OBVIOUS
  <2>4. Renaming(c, n)
           = [kind |-> c.kind, name |-> n, del |-> c.del, clus |-> c.clus, size |-> c.size]
    BY <2>2, NameSet, Zenon DEF Renaming
  <2> QED  BY <2>1, <2>3, <2>4
<1>3. t = Entered(s1, k, n, w)
  BY <1>1, <1>2 DEF Entered
<1>4. SameChains(f, f, s, Named(s) \ {i})
  BY DEF SameChains
<1>5. Layout(f, s1, g1)
  BY <1>4, LayoutDrop
<1>6. Named(s1) = Named(s) \ {i} /\ \A j \in Slots \ {i} : s1[j] = s[j]
  <2>1. \A j \in Slots \ {i} : s1[j] = s[j]
    BY <1>1
  <2>2. s1[i].del = TRUE
    BY <1>1 DEF Deleted, Entry
  <2> HIDE DEF s1
  <2> QED  BY <1>1, <2>1, <2>2 DEF Named
<1>7. Suits(s1, k, e)
  <2>1. Placeable(s1, k)
    <3>1. ASSUME NEW j \in Slots, j < k PROVE s1[j] # Blank
      <4>1. CASE j = i
        <5>1. s1[i].del = TRUE
          BY <1>1 DEF Deleted, Entry
        <5> QED  BY <4>1, <5>1 DEF Blank, entry
      <4>2. CASE j # i
        BY <1>6, <3>1, <4>2 DEF Placeable
      <4> QED  BY <4>1, <4>2
    <3> QED  BY <3>1 DEF Placeable
  <2>2. FileEntry(e)
    <3>1. w[1] \in 2..NumClusters /\ Len(w) \in 1..NumClusters
      BY <1>1 DEF FileFacts
    <3>2. w[1] # Root /\ w[1] # 0 /\ w[1] \in Cluster /\ Len(w) # 0 /\ Len(w) \in Nat
      BY <3>1, ClusterAssumption DEF Root, Cluster
    <3> HIDE DEF w
    <3> QED  BY <3>2 DEF FileEntry, FileAt, entry, Entry, Kinds
  <2>3. NewTo(s1, k, e)
    <3> SUFFICES ASSUME NEW j \in Named(s1) \ {k}
                 PROVE  ShortOf[s1[j].name] # ShortOf[n] /\ s1[j].clus # w[1]
      BY DEF NewTo, FileAt, entry
    <3>1. j \in Named(s) /\ j # i /\ s1[j] = s[j]
      BY <1>6 DEF Named
    <3>2. s[j].clus # s[i].clus
      BY <1>1, <3>1 DEF RootSector, Apart, FileFacts
    <3> QED  BY <1>1, <3>1, <3>2 DEF FileFacts
  <2> HIDE DEF e, s1
  <2> QED  BY <2>1, <2>2, <2>3 DEF Suits
<1>8. SameChains(f, f, s1, Named(s1) \ {k})
  BY DEF SameChains
<1>9. \A j \in Named(s1) \ {k} : Cells(Chain(f, s1, j)) \intersect Cells(w) = {}
  <2> SUFFICES ASSUME NEW j \in Named(s1) \ {k} PROVE Cells(Chain(f, s1, j)) \intersect Cells(w) = {}
    OBVIOUS
  <2>1. j \in Named(s) \ {i} /\ s1[j] = s[j]
    BY <1>6 DEF Named
  <2>2. OwnChain(f, s, j, i)
    BY <2>1 DEF Layout, Chained
  <2> QED  BY <2>1, <2>2 DEF OwnChain, Chain
<1>10. Linked(f, w) /\ w[1] \in Cluster /\ x \in Contents \union Mounted /\ Len(x) = Len(w)
  <2>1. w[1] \in 2..NumClusters
    BY <1>1 DEF FileFacts
  <2>2. w[1] \in Cluster
    BY <2>1 DEF Cluster
  <2>3. x \in Contents \union Mounted
    BY DEF Layout, Holds
  <2> QED  BY <1>1, <2>2, <2>3 DEF FileFacts
<1>11. k \notin Named(s1)
  BY <1>6
<1> HIDE DEF s1, g1, w, x
<1>12. FileMayEnter(f, s1, f, k, n, w, x)
  BY <1>7, <1>8, <1>9, <1>10, <1>11 DEF FileMayEnter
<1>13. Layout(f, t, Put(g1, <<n>>, x))
  <2> HIDE DEF e
  <2>1. Layout(f, Entered(s1, k, n, w), Put(g1, <<n>>, x))
    BY <1>5, <1>12, LayoutPut, Zenon
  <2> QED  BY <1>3, <2>1
<1> HIDE DEF e
<1>14. t[k] = e /\ t[i] = Deleted(s[i]) /\ \A j \in Slots \ {i, k} : t[j] = s[j]
  BY <1>1, <1>2
<1>15. k \in Named(t) /\ t[k].name = n /\ t[k].clus = s[i].clus /\ SameData(t[k], s[i])
  BY <1>1, <1>14 DEF e, FileAt, entry, Named, FileFacts, w, SameData
<1> QED  BY <1>1, <1>13, <1>14, <1>15 DEF g1, x, IsRenamed

\* The sector of a rename: the file at a new slot k, its old entry deleted.
Renames(s, i, k, n, x, t) ==
    /\ Planned("renameMac", {File(s, i)}, At(<<n>>, x), t, <<DirWrite(Root, t)>>) /\ op = None
    /\ "renameMac" \in Ops /\ NoGhost(s) /\ i \in Named(s) /\ i \in Slots
    /\ x = files[File(s, i)]
    /\ Placeable(s, k) /\ k \notin Named(s) /\ k \in Slots
    /\ \A j \in Named(s) : ShortOf[s[j].name] # ShortOf[n]
    /\ t = [s EXCEPT ![k] = Renaming(s[i], n), ![i] = Deleted(s[i])]

\* The host that renames a file writes the root.
LEMMA RenamePlanned ==
    ASSUME MacHost, HostInv, NEW i \in FilesIn(Root), NEW n \in Names, Rename(Root, i, n),
           NEW s, s = H
    PROVE  \E k, x, t : Renames(s, i, k, n, x, t)
<1> PICK k : k = FreeSlot(Root)
  OBVIOUS
<1> PICK x : x = files[File(s, i)]
  OBVIOUS
<1> DEFINE t == [s EXCEPT ![k] = Renaming(s[i], n), ![i] = Deleted(s[i])]
           writes == <<DirWrite(Root, t)>>
           dirs == [hdir EXCEPT ![Root] = t]
<1>1. DOMAIN hdir = {Root} /\ RootSector(s) /\ hdir[Root] = s
  BY DEF HostInv, Steady, H
<1>2. i \in Named(s) /\ i \in Slots
  BY <1>1, InUseNamed DEF Named
<1>3. /\ Plan("renameMac", {File(s, i)}, At(<<n>>, x), dirs, writes)
      /\ FreeSlots(Root) # {} /\ Unused(Root, n)
  <2>1. "renameWin" \notin Ops
    BY DEF MacHost
  <2> QED  BY <1>1, <2>1, RootName, Zenon DEF Rename, File, Renaming, Plan
<1>4. writes[1].at = Root /\ 1 \in 1..Len(writes)
  BY DEF DirWrite
<1>5. DOMAIN dirs = {Root} /\ dirs[Root] = t
  BY <1>1
<1>6. /\ t = [s EXCEPT ![k] = Renaming(s[i], n), ![i] = Deleted(s[i])]
      /\ writes = <<DirWrite(Root, t)>>
  OBVIOUS
<1> HIDE DEF t, writes, dirs
<1>7. /\ Planned("renameMac", {File(s, i)}, At(<<n>>, x), t, writes) /\ op = None
      /\ "renameMac" \in Ops /\ NoGhost(s)
  BY <1>1, <1>3, <1>4, <1>5, PlanFacts
<1>8. Placeable(s, k) /\ k \notin Named(s) /\ k \in Slots
  BY <1>1, <1>3, FreeFacts DEF Placeable
<1>9. \A j \in Named(s) : ShortOf[s[j].name] # ShortOf[n]
  BY <1>1, <1>3, InUseNamed DEF Unused
<1> QED  BY <1>2, <1>6, <1>7, <1>8, <1>9 DEF Renames

\* The rename of a file on macOS keeps the invariant.
LEMMA RenameKeeps ==
    ASSUME TableFits, MacHost, HostInv, NEW i \in FilesIn(Root), NEW n \in Names, Rename(Root, i, n)
    PROVE  HostInv'
<1> PICK s : s = H
  OBVIOUS
<1>1. Steady /\ DOMAIN hdir = {Root} /\ Tree(files) /\ RootSector(s) /\ hdir[Root] = s
  BY DEF HostInv, Steady, H
<1>2. PICK k, x, t : Renames(s, i, k, n, x, t)
  BY RenamePlanned
<1>3. i \in Named(s) /\ i \in Slots /\ x = files[File(s, i)]
  BY <1>2 DEF Renames
<1>4. t = [s EXCEPT ![k] = Renaming(s[i], n), ![i] = Deleted(s[i])]
  BY <1>2 DEF Renames
<1> DEFINE writes == <<DirWrite(Root, t)>>
<1>5. writes = <<DirWrite(Root, t)>> \o <<>>
  OBVIOUS
<1> HIDE DEF writes
<1>6. /\ Planned("renameMac", {File(s, i)}, At(<<n>>, x), t, writes) /\ op = None
      /\ "renameMac" \in Ops /\ NoGhost(s)
  BY <1>2 DEF Renames, writes
<1>7. Settled /\ Layout(fat, s, files)
  BY <1>6, Idleness DEF Settled
<1>8. Placeable(s, k) /\ k \notin Named(s) /\ k \in Slots
  BY <1>2 DEF Renames
<1>9. \A j \in Named(s) : ShortOf[s[j].name] # ShortOf[n]
  BY <1>2 DEF Renames
<1>10. /\ Layout(fat, t, Put(Without(files, File(s, i)), <<n>>, x))
       /\ k # i /\ k \in Named(t) /\ t[k].name = n
       /\ SameData(t[k], s[i]) /\ t[k].clus = s[i].clus
       /\ t[i] = Deleted(s[i])
       /\ \A j \in Slots \ {i, k} : t[j] = s[j]
  <2>1. IsRenamed(fat, s, files, i, k, n, t)
    BY <1>3, <1>4, <1>7, <1>8, <1>9, Renamed
  <2> QED  BY <1>3, <2>1 DEF IsRenamed
<1>11. FileFacts(fat, s, files, i) /\ x \in Contents \union Mounted
  BY <1>3, <1>7, FilesHave DEF Layout, Holds
<1>12. Goal' = Put(Without(files, File(s, i)), <<n>>, x)
  <2>1. Goal' = Put([q \in DOMAIN files \ {File(s, i)} |-> files[q]], <<n>>, x)
    BY <1>6, PutRequest DEF Planned, Goal
  <2> QED  BY <2>1 DEF Without
<1>13. RootSector(t) /\ Layout(fat, t, Goal')
  BY <1>10, <1>12 DEF Layout
<1>14. Lists(s, t, Only(i), {k})
  <2>1. s[i].clus # 0
    BY <1>11 DEF FileFacts
  <2>2. \A j \in Named(s) : ShortOf[s[j].name] # ShortOf[t[k].name]
    BY <1>9, <1>10
  <2> QED  BY <1>1, <1>3, <1>6, <1>8, <1>10, <1>13, <2>1, <2>2, RenameLists
<1>15. H' = t /\ op'.put = At(<<n>>, x) /\ op'.gone = {File(s, i)} /\ S' = s /\ files' = files
       /\ fat' = fat
  BY <1>6, <1>7 DEF Planned, vars, S, Settled
<1>16. Sets(k)' /\ Wanted(k)' = x
  <2>1. File(H', k) = <<n>>
    BY <1>10, <1>15 DEF File
  <2>2. Wanted(k)' = x
    BY <1>15, <2>1 DEF Wanted, At
  <2> QED  BY <1>10, <1>15, <2>1, <2>2 DEF Sets
<1>17. Listed(s, Only(i), {k})'
  <2>1. Puts({k})'
    BY <1>8, <1>16 DEF Puts
  <2>2. Drops(s, i, {k})'
    BY <1>3, <1>7, <1>10, <1>15, <1>16 DEF Drops
  <2> QED  BY <1>3, <2>1, <2>2 DEF Listed
<1>18. Steady'
  BY <1>1, <1>6, <1>13, SteadyPlanned
<1>19. None # [name |-> "renameMac", gone |-> {File(s, i)}, put |-> At(<<n>>, x)]
  <2>1. {File(s, i)} \in SUBSET Seq(Names)
    <3>1. s[i].name \in Names
      BY <1>1, <1>3, SlotFacts
    <3> QED  BY <3>1 DEF File
  <2> QED  BY <1>6, <1>11, <2>1, SomeRequest
<1>20. After(<<>>)'
  BY DEF After
<1> PICK put : put = At(<<n>>, x)
  OBVIOUS
<1>21. /\ Planned("renameMac", {File(s, i)}, put, t, <<DirWrite(Root, t)>> \o <<>>)
       /\ None # [name |-> "renameMac", gone |-> {File(s, i)}, put |-> put]
  BY <1>5, <1>6, <1>19
<1> QED  BY <1>7, <1>13, <1>14, <1>17, <1>18, <1>20, <1>21, ReadyPlanned

\* The sectors of a plan that sends blocks first.
LEMMA BlocksFirst ==
    ASSUME NEW w, NEW x, Len(x) \in Nat, NEW T, NEW l \in Seq(T), Len(l) \in Nat
    PROVE  Blocks(w, x) \o l = Writes(w, x, 0, l)
<1> DEFINE b == [k \in 1..Len(x) |-> [at |-> w[k], data |-> x[k], touched |-> TRUE]]
           R == {[at |-> w[k], data |-> x[k], touched |-> TRUE] : k \in 1..Len(x)} \union T
           v == Writes(w, x, 0, l)
<1>1. /\ b \in Seq(R) /\ Len(b) = Len(x) /\ Blocks(w, x) = b
      /\ \A k \in 1..Len(x) : b[k] = [at |-> w[k], data |-> x[k], touched |-> TRUE]
  <2>1. Blocks(w, x) = b
    BY DEF Blocks
  <2>2. \A k \in 1..Len(x) : b[k] \in R
    OBVIOUS
  <2>3. b \in [1..Len(x) -> R]
    BY <2>2
  <2>4. b \in Seq(R) /\ Len(b) = Len(x)
    <3> HIDE DEF b, R
    <3> QED  BY <2>3
  <2> QED  BY <2>1, <2>4
<1>2. l \in Seq(R)
  BY SeqMonotonic
<1>3. v = [k \in 1..(Len(x) + Len(l)) |->
              IF k <= Len(x) THEN [at |-> w[k], data |-> x[k], touched |-> TRUE]
              ELSE l[k - Len(x)]]
  <2>1. Len(x) - 0 = Len(x) /\ \A k \in 1..(Len(x) + Len(l)) : 0 + k = k
    OBVIOUS
  <2> QED  BY <2>1 DEF Writes
<1>4. v \in Seq(R) /\ Len(v) = Len(x) + Len(l)
  <2>1. ASSUME NEW k \in 1..(Len(x) + Len(l)) PROVE v[k] \in R
    <3>1. CASE k <= Len(x)
      BY <1>3, <3>1
    <3>2. CASE ~(k <= Len(x))
      <4>1. k - Len(x) \in 1..Len(l)
        BY <3>2
      <4>2. l[k - Len(x)] \in T
        BY <4>1, ElementOfSeq
      <4> QED  BY <1>3, <3>2, <4>2
    <3> QED  BY <3>1, <3>2
  <2>2. v = [k \in 1..(Len(x) + Len(l)) |-> v[k]]
    BY <1>3
  <2>3. Len(x) + Len(l) \in Nat
    OBVIOUS
  <2> HIDE DEF v, R
  <2> QED  BY <2>1, <2>2, <2>3
<1> HIDE DEF b, R
<1>5. /\ b \o l \in Seq(R) /\ Len(b \o l) = Len(x) + Len(l)
      /\ \A k \in 1..(Len(x) + Len(l)) : (b \o l)[k] = IF k <= Len(x) THEN b[k] ELSE l[k - Len(x)]
  <2>1. /\ b \o l \in Seq(R) /\ Len(b \o l) = Len(b) + Len(l)
        /\ \A k \in 1..(Len(b) + Len(l)) :
              (b \o l)[k] = IF k <= Len(b) THEN b[k] ELSE l[k - Len(b)]
    <3>1. b \in Seq(R) /\ l \in Seq(R)
      BY <1>1, <1>2
    <3> QED  BY <3>1, ConcatProperties, Zenon
  <2> QED  BY <1>1, <2>1
<1>6. ASSUME NEW k \in 1..(Len(x) + Len(l)) PROVE (b \o l)[k] = v[k]
  <2>1. CASE k <= Len(x)
    <3>1. k \in 1..Len(x)
      BY <2>1
    <3> QED  BY <1>1, <1>3, <1>5, <2>1, <3>1
  <2>2. CASE ~(k <= Len(x))
    BY <1>3, <1>5, <2>2
  <2> QED  BY <2>1, <2>2
<1> HIDE DEF v
<1>7. b \o l = v
  BY <1>4, <1>5, <1>6, SeqEqual
<1> QED  BY <1>1, <1>7 DEF v

\* A plan that starts with the blocks of a file.
Sending(s, t, i, x, f) ==
    /\ i \in Named(t)
    /\ Layout(f, t, Put(files, File(t, i), x))
    /\ IsNew(Chain(f, t, i))
    /\ RootSector(s)
    /\ Len(x) \in Nat

\* A plan that starts with the blocks of a file.
LEMMA FillPlanned ==
    ASSUME Settled, Steady', NEW s, s = H, Tree(files), NEW name, NEW t,
           NEW i, NEW x, NEW f, NEW last,
           NEW put, put = At(File(t, i), x),
           None # [name |-> name, gone |-> {}, put |-> put],
           NEW w, w = Chain(f, t, i),
           Planned(name, {}, put, t, Writes(w, x, 0, <<FatWrite(f)>> \o last)),
           Sending(s, t, i, x, f), Ending(last, s, i)'
    PROVE  HostInv'
<1>1. /\ op' = [name |-> name, gone |-> {}, put |-> put] /\ op' # None
      /\ todo' = Writes(w, x, 0, <<FatWrite(f)>> \o last)
      /\ H' = t /\ UNCHANGED <<lfs, tmp, fat, pc, job, files>>
  BY DEF Planned, vars
<1>2. S' = s /\ pc' = "ready" /\ lfs' = files' /\ S = s
  BY <1>1 DEF Settled, S
<1>3. Sets(i)' /\ Wanted(i)' = x /\ Goal' = Put(files, File(t, i), x)
  <2>1. put[File(t, i)] = x
    BY DEF At
  <2>2. Wanted(i)' = x
    BY <1>1, <2>1 DEF Wanted, File
  <2>3. Sets(i)'
    BY <1>1, <2>2 DEF Sets, Sending, File
  <2>4. Goal' = Put([q \in DOMAIN files \ {} |-> files[q]], File(t, i), x)
    BY <1>1, PutRequest DEF Goal
  <2>5. [q \in DOMAIN files \ {} |-> files[q]] = files
    BY DEF Tree
  <2> QED  BY <2>2, <2>3, <2>4, <2>5
<1>4. Chain(f, H, i)' = w
  BY <1>1 DEF Chain
<1>5. \A c \in Cells(w) : fat'[c] = FREE /\ \A j \in Named(S') : S'[j].clus # c
  BY <1>1, <1>2 DEF Sending, IsNew, Named
<1>6. Fills(i, 0, f, last)'
  <2>1. Stored(tmp', w, x, 0) /\ 0 \in 0..Len(x)
    BY DEF Stored, Sending
  <2>2. Ending(last, S, i)'
    BY <1>2
  <2> HIDE DEF Sending
  <2>3. Layout(f, H', Goal')
    BY <1>1, <1>3 DEF Sending
  <2> QED  BY <1>1, <1>3, <1>4, <1>5, <2>1, <2>2, <2>3 DEF Fills
<1>7. Filling'
  BY <1>1, <1>2, <1>6 DEF Filling
<1> QED  BY <1>7 DEF HostInv

\* The entry of a file in its new clusters w, at slot i.
Arrived(s, t, i, n, w, f, x) ==
    /\ Sending(s, t, i, x, f) /\ w = Chain(f, t, i) /\ File(t, i) = <<n>>
    /\ RootSector(t) /\ Differ(s, t, i)
    /\ t[i] = FileAt(n, w) /\ t[i].clus # 0 /\ t[i].clus \in Cells(w)

\* The entry of a file in new clusters makes the volume asked for.
LEMMA Arrival ==
    ASSUME TableFits, MacHost, NEW s, s = H, Layout(fat, s, files),
           NEW x \in Contents, NEW w, Takes(Root, w, Len(x)), NEW n \in Names,
           NEW i, Placeable(s, i), i \in Named(s) => s[i].name = n,
           \A j \in Named(s) \ {i} : ShortOf[s[j].name] # ShortOf[n],
           NEW f, Linked(f, w), SameChains(fat, f, s, Named(s) \ {i})
    PROVE  Arrived(s, Entered(s, i, n, w), i, n, w, f, x)
<1> PICK t : t = Entered(s, i, n, w)
  OBVIOUS
<1>1. IsNew(w) /\ RootSector(s) /\ i \in Slots \ {1} /\ DOMAIN s = Slots /\ Len(w) = Len(x)
  BY FreshFacts DEF Layout, RootSector, Sector, Placeable, Takes
<1>2. w[1] \in 2..NumClusters /\ w[1] \in Cells(w) /\ Len(w) \in 1..NumClusters
  BY LinkedCells
<1>3. w[1] # Root /\ w[1] # 0 /\ w[1] \in Cluster /\ Len(w) # 0 /\ Len(w) \in Nat
  BY <1>2, ClusterAssumption DEF Root, Cluster
<1>4. Suits(s, i, FileAt(n, w))
  <2>1. FileEntry(FileAt(n, w))
    BY <1>3 DEF FileEntry, FileAt, entry, Entry, Kinds
  <2>2. NewTo(s, i, FileAt(n, w))
    <3>1. \A j \in Named(s) : s[j].clus # w[1]
      BY <1>1, <1>2 DEF IsNew, Named
    <3> QED  BY <3>1 DEF NewTo, FileAt, entry
  <2> QED  BY <2>1, <2>2 DEF Suits
<1>5. FileMayEnter(fat, s, f, i, n, w, x)
  <2>1. \A j \in Named(s) \ {i} : Cells(Chain(fat, s, j)) \intersect Cells(w) = {}
    BY <1>1, OldChains
  <2> QED  BY <1>1, <1>3, <1>4, <2>1 DEF FileMayEnter
<1>6. Layout(f, t, Put(files, <<n>>, x))
  BY <1>5, LayoutPut, Zenon
<1>7. t[i] = FileAt(n, w) /\ Differ(s, t, i)
  BY <1>1 DEF Entered, Differ
<1>8. t[i].kind = "file" /\ t[i].del = FALSE /\ t[i].clus = w[1] /\ t[i].name = n
  BY <1>7 DEF FileAt, entry
<1>9. i \in Named(t) /\ File(t, i) = <<n>>
  BY <1>1, <1>8 DEF Named, File
<1>10. Chain(f, t, i) = w
  BY <1>8, ChainWhole DEF Chain
<1>11. RootSector(t)
  BY <1>6 DEF Layout
<1>12. Sending(s, t, i, x, f)
  BY <1>1, <1>3, <1>6, <1>9, <1>10 DEF Sending
<1> QED  BY <1>2, <1>3, <1>7, <1>8, <1>9, <1>10, <1>11, <1>12 DEF Arrived

\* No entry of the sector has the data of a file in new clusters.
LEMMA NoneHasIt ==
    ASSUME NEW s, s = H, NEW w, IsNew(w), NEW e, e.clus \in Cells(w)
    PROVE  \A j \in Slots : s[j].kind = "file" => ~SameData(e, s[j])
BY DEF IsNew, SameData

\* The sectors after the blocks.
Includes(v, d) == \E k \in 1..Len(v) : v[k] = d

\* Each of the last sectors is among those sent.
LEMMA AfterBlocks ==
    ASSUME NEW w, NEW x, Len(x) \in Nat, NEW T, NEW l \in Seq(T), NEW m \in 1..Len(l), Len(l) \in Nat
    PROVE  Includes(Writes(w, x, 0, l), l[m])
<1> DEFINE v == Writes(w, x, 0, l)
<1>1. v = [k \in 1..(Len(x) + Len(l)) |->
              IF k <= Len(x) THEN [at |-> w[k], data |-> x[k], touched |-> TRUE]
              ELSE l[k - Len(x)]]
  <2>1. Len(x) - 0 = Len(x) /\ \A k \in 1..(Len(x) + Len(l)) : 0 + k = k
    OBVIOUS
  <2> QED  BY <2>1 DEF Writes
<1>2. /\ Len(x) + m \in 1..(Len(x) + Len(l)) /\ ~(Len(x) + m <= Len(x))
      /\ (Len(x) + m) - Len(x) = m
  OBVIOUS
<1>3. v[Len(x) + m] = l[m]
  BY <1>1, <1>2
<1>4. Len(v) = Len(x) + Len(l)
  BY <1>1
<1> QED  BY <1>2, <1>3, <1>4 DEF Includes

\* The sectors of a creation: the blocks, the table and the root.
Creates(s, i, n, x, w, t) ==
    /\ Planned("createMac", {}, At(<<n>>, x), t,
               Writes(w, x, 0, <<FatWrite(Allocate(fat, w)), DirWrite(Root, t)>>))
    /\ op = None /\ "createMac" \in Ops /\ NoGhost(s)
    /\ Takes(Root, w, Len(x)) /\ IsNew(w) /\ Len(x) \in Nat
    /\ Placeable(s, i) /\ i \notin Named(s) /\ i \in Slots
    /\ \A j \in Named(s) : ShortOf[s[j].name] # ShortOf[n]
    /\ t = Entered(s, i, n, w)

\* The host that creates a file has new clusters for it, and a free slot.
LEMMA CreatePlanned ==
    ASSUME MacHost, HostInv, NEW n \in Names, NEW x \in Contents, Create(Root, n, x),
           NEW s, s = H
    PROVE  \E i, w, t : Creates(s, i, n, x, w, t)
<1> PICK i : i = FreeSlot(Root)
  OBVIOUS
<1> PICK w : w = Fresh(Root, Len(x))
  OBVIOUS
<1> PICK f : f = Allocate(fat, w)
  OBVIOUS
<1> PICK t : t = Entered(s, i, n, w)
  OBVIOUS
<1> DEFINE l == <<FatWrite(f), DirWrite(Root, t)>>
           writes == Blocks(w, x) \o l
           dirs == [hdir EXCEPT ![Root] = t]
<1>1. Steady /\ DOMAIN hdir = {Root} /\ Tree(files) /\ RootSector(s) /\ hdir[Root] = s
  BY DEF HostInv, Steady, H
<1>2. Len(x) \in Nat \ {0} /\ x \in Seq(Values)
  BY ContentsAssumption, LenProperties
<1>3. Fits(Root, Len(x)) /\ FreeSlots(Root) # {} /\ Unused(Root, n)
  BY DEF Create
<1>4. Takes(Root, w, Len(x))
  BY <1>2, <1>3, FreshTakes
<1>5. Plan("createMac", {}, At(<<n>>, x), dirs, writes)
  <2>1. "createWin" \notin Ops
    BY DEF MacHost
  <2>2. Entered(s, i, n, w) = [s EXCEPT ![i] = entry("file", n, w[1], Len(x))]
    BY <1>4 DEF Entered, FileAt, Takes
  <2> QED  BY <1>1, <2>1, <2>2, RootName, Zenon DEF Create, Plan
<1>6. l \in Seq({FatWrite(f), DirWrite(Root, t)}) /\ Len(l) = 2 /\ l[2].at = Root /\ 2 \in 1..Len(l)
      /\ l = <<FatWrite(f), DirWrite(Root, t)>>
  <2>1. l \in Seq({FatWrite(f), DirWrite(Root, t)}) /\ Len(l) = 2 /\ l[2] = DirWrite(Root, t)
    OBVIOUS
  <2>2. DirWrite(Root, t).at = Root
    BY DEF DirWrite
  <2> QED  BY <2>1, <2>2
<1> HIDE DEF l
<1>7. writes = Writes(w, x, 0, l) /\ \E k \in 1..Len(writes) : writes[k].at = Root
  <2> PICK T : l \in Seq(T)
    BY <1>6
  <2> Len(x) \in Nat /\ Len(l) \in Nat
    BY <1>2, <1>6
  <2>1. writes = Writes(w, x, 0, l)
    BY BlocksFirst
  <2>2. Includes(Writes(w, x, 0, l), l[2])
    BY <1>6, AfterBlocks
  <2> QED  BY <1>6, <2>1, <2>2 DEF Includes
<1>8. DOMAIN dirs = {Root} /\ dirs[Root] = t
  BY <1>1
<1> PICK put : put = At(<<n>>, x)
  OBVIOUS
<1> HIDE DEF writes, dirs
<1>9. /\ Planned("createMac", {}, put, t, writes) /\ op = None /\ "createMac" \in Ops
      /\ NoGhost(s)
  BY <1>1, <1>5, <1>7, <1>8, PlanFacts
<1>10. Layout(fat, s, files)
  BY <1>9, Idleness DEF Settled
<1>11. Placeable(s, i) /\ i \notin Named(s) /\ i \in Slots
  BY <1>1, <1>3, FreeFacts DEF Placeable
<1>12. \A j \in Named(s) : ShortOf[s[j].name] # ShortOf[n]
  BY <1>1, <1>3, InUseNamed DEF Unused
<1>13. IsNew(w)
  BY <1>4, <1>10, FreshFacts
<1>14. Planned("createMac", {}, At(<<n>>, x), t,
               Writes(w, x, 0, <<FatWrite(Allocate(fat, w)), DirWrite(Root, t)>>))
  BY <1>6, <1>7, <1>9
<1> QED  BY <1>2, <1>4, <1>9, <1>11, <1>12, <1>13, <1>14 DEF Creates

\* The creation of a file on macOS keeps the invariant.
LEMMA CreateKeeps ==
    ASSUME TableFits, MacHost, HostInv, NEW n \in Names, NEW x \in Contents, Create(Root, n, x)
    PROVE  HostInv'
<1> PICK s : s = H
  OBVIOUS
<1>1. Steady /\ Tree(files) /\ RootSector(s)
  BY DEF HostInv, Steady
<1>2. PICK i, w, t : Creates(s, i, n, x, w, t)
  BY CreatePlanned
<1> PICK f : f = Allocate(fat, w)
  OBVIOUS
<1> PICK put : put = At(<<n>>, x)
  OBVIOUS
<1> DEFINE last == <<DirWrite(Root, t)>>
           l == <<FatWrite(f), DirWrite(Root, t)>>
<1>3. l = <<FatWrite(f)>> \o last
  BY TwoSectors
<1> HIDE DEF l, last
<1>4. Takes(Root, w, Len(x))
  BY <1>2 DEF Creates
<1>5. /\ Planned("createMac", {}, put, t, Writes(w, x, 0, l)) /\ op = None /\ "createMac" \in Ops
      /\ NoGhost(s)
  BY <1>2 DEF Creates, l
<1>6. Settled /\ Layout(fat, s, files)
  BY <1>5, Idleness DEF Settled
<1>7. Placeable(s, i) /\ i \notin Named(s) /\ i \in Slots /\ t = Entered(s, i, n, w)
  BY <1>2 DEF Creates
<1>8. \A j \in Named(s) : ShortOf[s[j].name] # ShortOf[n]
  BY <1>2 DEF Creates
<1>9. IsNew(w)
  BY <1>2 DEF Creates
<1>10. Linked(f, w) /\ SameChains(fat, f, s, Named(s) \ {i})
  <2>1. Linked(f, w) /\ \A c \in Cluster : c \notin Cells(w) => f[c] = fat[c]
    BY <1>4, Allocated DEF Takes
  <2>2. SameChains(fat, f, s, Named(s) \ {i})
    <3> SUFFICES ASSUME NEW j \in Named(s) \ {i}, NEW c \in Cells(Chain(fat, s, j))
                 PROVE  f[c] = fat[c]
      BY DEF SameChains
    <3>1. c \notin Cells(w) /\ c \in Cluster
      BY <1>6, <1>9, OldChains DEF Cluster
    <3> QED  BY <2>1, <3>1
  <2> QED  BY <2>1, <2>2
<1>11. Arrived(s, t, i, n, w, f, x)
  BY <1>4, <1>6, <1>7, <1>8, <1>10, Arrival
<1>12. /\ Sending(s, t, i, x, f) /\ w = Chain(f, t, i) /\ File(t, i) = <<n>>
       /\ RootSector(t) /\ Differ(s, t, i) /\ t[i].clus # 0 /\ t[i].clus \in Cells(w)
       /\ i \in Named(t)
  BY <1>11 DEF Arrived, Sending
<1>13. Lists(s, t, Nothing, {i})
  <2>1. \A j \in Slots : s[j].kind = "file" => ~SameData(t[i], s[j])
    BY <1>9, <1>12, NoneHasIt
  <2> QED  BY <1>1, <1>5, <1>12, <2>1, PutLists
<1>14. Ending(last, s, i)'
  BY <1>5, <1>13 DEF Planned, Ending, last
<1>15. Steady'
  BY <1>1, <1>5, <1>12, SteadyPlanned
<1>16. None # [name |-> "createMac", gone |-> {}, put |-> put]
  BY <1>5, SomeRequest
<1>17. Planned("createMac", {}, put, t, Writes(w, x, 0, <<FatWrite(f)>> \o last))
  BY <1>3, <1>5
<1> QED  BY <1>1, <1>6, <1>12, <1>14, <1>15, <1>16, <1>17, FillPlanned

\* Slot i with another cluster and size.
Refilled(s, i, c, z) == [s EXCEPT ![i].clus = c, ![i].size = z]

Anew(s, i, c, z) == [s EXCEPT ![i] = [kind |-> s[i].kind, name |-> s[i].name,
                                      del |-> s[i].del, clus |-> c, size |-> z]]

\* Slot i with another cluster and size is slot i with its name alone kept.
LEMMA Refilling ==
    ASSUME NEW s, s = [k \in Slots |-> s[k]], NEW i \in Slots, IsEntry(s[i])
    PROVE  \A c, z : Refilled(s, i, c, z) = Anew(s, i, c, z)
<1> TAKE c, z
<1> PICK r : r = Refilled(s, i, c, z)
  OBVIOUS
<1>1. r = [k \in Slots |-> r[k]] /\ \A k \in Slots \ {i} : r[k] = s[k]
  BY Zenon DEF Refilled
<1>2. /\ r[i].kind = s[i].kind /\ r[i].name = s[i].name /\ r[i].del = s[i].del
      /\ r[i].clus = c /\ r[i].size = z /\ IsEntry(r[i])
  BY Zenon DEF Refilled, IsEntry
<1>3. r[i] = [kind |-> s[i].kind, name |-> s[i].name, del |-> s[i].del, clus |-> c, size |-> z]
  BY <1>2, Zenon DEF IsEntry
<1> QED  BY <1>1, <1>3 DEF Anew

\* The table with the new chain in it and without the old one.
LEMMA Rechained ==
    ASSUME TableFits, NEW s, s = H, Layout(fat, s, files), NEW i \in Named(s), NEW w, Separate(w),
           IsNew(w), NEW f, f = Release(Allocate(fat, w), s[i].clus)
    PROVE  Linked(f, w) /\ SameChains(fat, f, s, Named(s) \ {i})
<1> PICK a : a = Allocate(fat, w)
  OBVIOUS
<1>1. Linked(a, w) /\ \A c \in Cluster : c \notin Cells(w) => a[c] = fat[c]
  BY Allocated
<1>2. \A j \in Named(s) : /\ Cells(Chain(fat, s, j)) \intersect Cells(w) = {}
                          /\ Cells(Chain(fat, s, j)) \subseteq Cluster
  <2> SUFFICES ASSUME NEW j \in Named(s)
               PROVE  /\ Cells(Chain(fat, s, j)) \intersect Cells(w) = {}
                      /\ Cells(Chain(fat, s, j)) \subseteq Cluster
    OBVIOUS
  <2> QED  BY OldChains DEF Cluster
<1>3. Chain(a, s, i) = Chain(fat, s, i)
  <2>1. SameChains(fat, a, s, {i}) /\ HasChain(fat, s, i)
    BY <1>1, <1>2 DEF SameChains, Layout, Chained
  <2> QED  BY <2>1, ChainKept
<1>4. \A c \in Cluster : c \notin Cells(Chain(fat, s, i)) => f[c] = a[c]
  BY <1>3, Released DEF Chain
<1>5. Linked(f, w)
  <2>1. Cells(w) \subseteq 2..NumClusters
    BY <1>1, LinkedCells
  <2>2. \A c \in Cells(w) : f[c] = a[c]
    BY <1>2, <1>4, <2>1 DEF Cluster
  <2> QED  BY <1>1, <2>2, LinkedKept
<1>6. SameChains(fat, f, s, Named(s) \ {i})
  <2> SUFFICES ASSUME NEW j \in Named(s) \ {i}, NEW c \in Cells(Chain(fat, s, j))
               PROVE  f[c] = fat[c]
    BY DEF SameChains
  <2>1. OwnChain(fat, s, j, i)
    BY DEF Layout, Chained
  <2>2. c \notin Cells(Chain(fat, s, i)) /\ c \notin Cells(w) /\ c \in Cluster
    BY <1>2, <2>1 DEF OwnChain
  <2> QED  BY <1>1, <1>4, <2>2
<1> QED  BY <1>5, <1>6

\* The sector that shows the file empty, between the old one and the new one.
Between(s, e, t, i) ==
    /\ RootSector(e) /\ NoGhost(e)
    /\ i \in Named(e) /\ e[i].clus = 0
    /\ Lists(s, e, Nothing, {i})
    /\ Lists(e, t, Nothing, {i})

\* The file is first shown empty, then in its new clusters, and both are updates of it.
LEMMA EmptiedFirst ==
    ASSUME NEW s, s = H, Layout(fat, s, files), NoGhost(s), NEW i \in Named(s), NEW w, IsNew(w),
           NEW t, RootSector(t), i \in Named(t), Differ(s, t, i),
           t[i].clus \in Cells(w), t[i].clus # 0,
           NEW e, e = [s EXCEPT ![i] = entry("file", s[i].name, 0, 0)]
    PROVE  Between(s, e, t, i)
<1>1. /\ RootSector(s) /\ FileFacts(fat, s, files, i) /\ i \in Slots \ {1} /\ DOMAIN s = Slots
      /\ s[i].name \in Names /\ s[i].kind = "file" /\ s[i].del = FALSE
  <2>1. RootSector(s) /\ FileFacts(fat, s, files, i)
    BY FilesHave DEF Layout
  <2> QED  BY <2>1 DEF RootSector, Sector, FileFacts, Entry
<1>2. /\ e[i] = entry("file", s[i].name, 0, 0) /\ Differ(s, e, i)
      /\ \A k \in Slots \ {i} : e[k] = s[k]
  BY <1>1 DEF Differ
<1>3. e[i].kind = "file" /\ e[i].del = FALSE /\ e[i].clus = 0 /\ e[i].name = s[i].name
  BY <1>2 DEF entry
<1>4. Suits(s, i, entry("file", s[i].name, 0, 0))
  <2>1. Placeable(s, i)
    <3>1. s[i] # Blank
      BY <1>1 DEF Blank, entry
    <3>2. \A k \in Slots : k < i => s[k] # Blank
      <4> SUFFICES ASSUME NEW k \in Slots, k < i, s[k] = Blank PROVE FALSE
        OBVIOUS
      <4>1. k <= i
        BY <1>1 DEF Slots
      <4> QED  BY <1>1, <3>1, <4>1 DEF RootSector
    <3> QED  BY <1>1, <3>2 DEF Placeable
  <2>2. FileEntry(entry("file", s[i].name, 0, 0))
    <3>1. 0 \in Cluster /\ 0 \in Nat /\ 0 # Root
      BY ClusterAssumption DEF Cluster, Root
    <3> QED  BY <1>1, <3>1 DEF FileEntry, entry, Entry, Kinds
  <2>3. NewTo(s, i, entry("file", s[i].name, 0, 0))
    BY <1>1 DEF NewTo, entry, RootSector, Apart
  <2> QED  BY <2>1, <2>2, <2>3, <1>3 DEF Suits
<1>5. RootSector(e)
  <2>1. Replaced(s, [s EXCEPT ![i] = entry("file", s[i].name, 0, 0)],
                 i, entry("file", s[i].name, 0, 0))
    BY <1>1, <1>4, SectorSet, Zenon
  <2> QED  BY <2>1 DEF Replaced
<1>6. i \in Named(e)
  BY <1>1, <1>3 DEF Named
<1>7. NoGhost(e)
  <2> SUFFICES ASSUME Meet(e, e) PROVE FALSE
    BY DEF NoGhost
  <2> PICK j \in Dead(e), k \in LiveFiles(e) : e[j].clus = e[k].clus
    BY DEF Meet
  <2>1. j # i /\ k # i /\ j \in Slots /\ k \in Slots
    BY <1>3 DEF Dead, LiveFiles
  <2>2. j \in Dead(s) /\ k \in LiveFiles(s) /\ s[j].clus = s[k].clus
    BY <1>2, <2>1 DEF Dead, LiveFiles
  <2> QED  BY <2>2 DEF NoGhost, Meet
<1>8. \A j \in Slots : s[j].kind = "file" => s[j].clus # 0 /\ s[j].clus # t[i].clus
  <2> SUFFICES ASSUME NEW j \in Slots, s[j].kind = "file"
               PROVE  s[j].clus # 0 /\ s[j].clus # t[i].clus
    OBVIOUS
  <2>1. s[j].clus # t[i].clus
    BY DEF IsNew
  <2>2. CASE j \in Named(s)
    <3>1. FileFacts(fat, s, files, j)
      BY <2>2, FilesHave
    <3> QED  BY <2>1, <3>1 DEF FileFacts
  <2>3. CASE j \notin Named(s)
    <3>1. FileEntry(s[j])
      BY <1>1, SlotFacts
    <3>2. s[j].del
      BY <2>3 DEF Named
    <3> QED  BY <2>1, <3>1, <3>2 DEF FileEntry
  <2> QED  BY <2>2, <2>3
<1>9. Lists(s, e, Nothing, {i})
  <2>1. \A j \in Slots : s[j].kind = "file" => ~SameData(e[i], s[j])
    BY <1>3, <1>8 DEF SameData
  <2>2. s[i] # Blank
    BY <1>1 DEF Blank, entry
  <2> QED  BY <1>1, <1>2, <1>5, <1>6, <2>1, <2>2, PutLists
<1>10. Lists(e, t, Nothing, {i})
  <2>1. \A j \in Slots : e[j].kind = "file" => ~SameData(t[i], e[j])
    <3> SUFFICES ASSUME NEW j \in Slots, e[j].kind = "file" PROVE t[i].clus # e[j].clus
      BY DEF SameData
    <3>1. CASE j = i
      BY <1>3, <3>1
    <3>2. CASE j # i
      BY <1>2, <1>8, <3>2
    <3> QED  BY <3>1, <3>2
  <2>2. Differ(e, t, i)
    BY <1>2 DEF Differ
  <2> QED  BY <1>5, <1>7, <2>1, <2>2, PutLists
<1> QED  BY <1>3, <1>5, <1>6, <1>7, <1>9, <1>10 DEF Between

\* The sectors of an update: the blocks, the table, the root with the file
\* empty and the root with the file in its new clusters w.
Renews(s, i, x, w, e, t) ==
    /\ Planned("updateMac", {}, At(<<s[i].name>>, x), t,
               Writes(w, x, 0, <<FatWrite(Release(Allocate(fat, w), s[i].clus)),
                                 DirWrite(Root, e), DirWrite(Root, t)>>))
    /\ op = None /\ "updateMac" \in Ops /\ NoGhost(s)
    /\ i \in Named(s) /\ i \in Slots /\ s[i].name \in Names
    /\ Takes(Root, w, Len(x)) /\ IsNew(w) /\ Len(x) \in Nat
    /\ e = [s EXCEPT ![i] = entry("file", s[i].name, 0, 0)]
    /\ t = Entered(s, i, s[i].name, w)

\* The host that updates a file has new clusters for it.
LEMMA UpdatePlanned ==
    ASSUME MacHost, HostInv, NEW i \in FilesIn(Root), NEW x \in Contents, Update(Root, i, x),
           NEW s, s = H
    PROVE  \E w, e, t : Renews(s, i, x, w, e, t)
<1> PICK w : w = Fresh(Root, Len(x))
  OBVIOUS
<1> PICK f : f = Release(Allocate(fat, w), s[i].clus)
  OBVIOUS
<1> PICK n : n = s[i].name
  OBVIOUS
<1> PICK t : t = Entered(s, i, n, w)
  OBVIOUS
<1> PICK e : e = [s EXCEPT ![i] = entry("file", n, 0, 0)]
  OBVIOUS
<1> DEFINE l == <<FatWrite(f), DirWrite(Root, e), DirWrite(Root, t)>>
           writes == Blocks(w, x) \o l
           dirs == [hdir EXCEPT ![Root] = t]
<1>1. Steady /\ DOMAIN hdir = {Root} /\ Tree(files) /\ RootSector(s) /\ hdir[Root] = s
  BY DEF HostInv, Steady, H
<1>2. Len(x) \in Nat \ {0} /\ x \in Seq(Values)
  BY ContentsAssumption, LenProperties
<1>3. i \in Named(s) /\ i \in Slots /\ Fits(Root, Len(x)) /\ n \in Names
  <2>1. i \in Named(s)
    BY <1>1, InUseNamed
  <2> QED  BY <1>1, <2>1, SlotFacts DEF Named, Update
<1>4. Takes(Root, w, Len(x)) /\ Len(w) = Len(x)
  BY <1>2, <1>3, FreshTakes DEF Takes
<1>5. Plan("updateMac", {}, At(<<n>>, x), dirs, writes)
  <2>1. "updateWin" \notin Ops
    BY DEF MacHost
  <2>2. s = [k \in Slots |-> s[k]] /\ IsEntry(s[i]) /\ s[i].kind = "file" /\ s[i].del = FALSE
    <3>1. s \in Sector /\ s[i] \in Entry
      BY <1>1, <1>3 DEF RootSector, Sector
    <3> QED  BY <1>3, <3>1 DEF Sector, Entry, IsEntry, Named
  <2> PICK r : r = Refilled(s, i, w[1], Len(x))
    OBVIOUS
  <2> PICK r0 : r0 = Refilled(s, i, 0, 0)
    OBVIOUS
  <2>3. \A c, z : Refilled(s, i, c, z) = Anew(s, i, c, z)
    BY <1>3, <2>2, Refilling
  <2>4. r = t /\ r0 = e
    <3>1. r = Anew(s, i, w[1], Len(x)) /\ r0 = Anew(s, i, 0, 0)
      BY <2>3
    <3> QED  BY <1>4, <2>2, <3>1 DEF Anew, Entered, FileAt, entry
  <2> QED  BY <1>1, <2>1, <2>4, RootName, Zenon DEF Update, Plan, Refilled
<1>6. l \in Seq({FatWrite(f), DirWrite(Root, e), DirWrite(Root, t)}) /\ Len(l) = 3
      /\ l[3].at = Root /\ 3 \in 1..Len(l)
      /\ l = <<FatWrite(f), DirWrite(Root, e), DirWrite(Root, t)>>
  <2>1. /\ l \in Seq({FatWrite(f), DirWrite(Root, e), DirWrite(Root, t)}) /\ Len(l) = 3
        /\ l[3] = DirWrite(Root, t)
    OBVIOUS
  <2>2. DirWrite(Root, t).at = Root
    BY DEF DirWrite
  <2> QED  BY <2>1, <2>2
<1> HIDE DEF l
<1>7. writes = Writes(w, x, 0, l) /\ \E k \in 1..Len(writes) : writes[k].at = Root
  <2> PICK T : l \in Seq(T)
    BY <1>6
  <2> Len(x) \in Nat /\ Len(l) \in Nat
    BY <1>2, <1>6
  <2>1. writes = Writes(w, x, 0, l)
    BY BlocksFirst
  <2>2. Includes(Writes(w, x, 0, l), l[3])
    BY <1>6, AfterBlocks
  <2> QED  BY <1>6, <2>1, <2>2 DEF Includes
<1>8. DOMAIN dirs = {Root} /\ dirs[Root] = t
  BY <1>1
<1> PICK put : put = At(<<n>>, x)
  OBVIOUS
<1> HIDE DEF writes, dirs
<1>9. /\ Planned("updateMac", {}, put, t, writes) /\ op = None /\ "updateMac" \in Ops
      /\ NoGhost(s)
  BY <1>1, <1>5, <1>7, <1>8, PlanFacts
<1>10. Layout(fat, s, files)
  BY <1>9, Idleness DEF Settled
<1>11. IsNew(w)
  BY <1>4, <1>10, FreshFacts
<1>12. Planned("updateMac", {}, At(<<s[i].name>>, x), t,
               Writes(w, x, 0, <<FatWrite(Release(Allocate(fat, w), s[i].clus)),
                                 DirWrite(Root, e), DirWrite(Root, t)>>))
  BY <1>6, <1>7, <1>9
<1> QED  BY <1>2, <1>3, <1>4, <1>9, <1>11, <1>12 DEF Renews

\* The update of a file on macOS keeps the invariant.
LEMMA UpdateKeeps ==
    ASSUME TableFits, MacHost, HostInv, NEW i \in FilesIn(Root), NEW x \in Contents,
           Update(Root, i, x)
    PROVE  HostInv'
<1> PICK s : s = H
  OBVIOUS
<1> PICK n : n = s[i].name
  OBVIOUS
<1>1. Steady /\ Tree(files) /\ RootSector(s)
  BY DEF HostInv, Steady
<1>2. PICK w, e, t : Renews(s, i, x, w, e, t)
  BY UpdatePlanned
<1> PICK f : f = Release(Allocate(fat, w), s[i].clus)
  OBVIOUS
<1> PICK put : put = At(<<n>>, x)
  OBVIOUS
<1> DEFINE last == <<DirWrite(Root, e), DirWrite(Root, t)>>
           l == <<FatWrite(f), DirWrite(Root, e), DirWrite(Root, t)>>
<1>3. l = <<FatWrite(f)>> \o last
  BY ThreeSectors
<1> HIDE DEF l, last
<1>4. /\ i \in Named(s) /\ i \in Slots /\ n \in Names
      /\ e = [s EXCEPT ![i] = entry("file", n, 0, 0)] /\ t = Entered(s, i, n, w)
  BY <1>2 DEF Renews
<1>5. Takes(Root, w, Len(x))
  BY <1>2 DEF Renews
<1>6. /\ Planned("updateMac", {}, put, t, Writes(w, x, 0, l)) /\ op = None /\ "updateMac" \in Ops
      /\ NoGhost(s)
  BY <1>2 DEF Renews, l
<1>7. Settled /\ Layout(fat, s, files)
  BY <1>6, Idleness DEF Settled
<1>8. FileFacts(fat, s, files, i)
  BY <1>4, <1>7, FilesHave
<1>9. Placeable(s, i)
  <2>1. s[i] # Blank /\ i \in Slots \ {1}
    BY <1>8 DEF Blank, entry, FileFacts
  <2>2. \A k \in Slots : k < i => s[k] # Blank
    <3> SUFFICES ASSUME NEW k \in Slots, k < i, s[k] = Blank PROVE FALSE
      OBVIOUS
    <3>1. k <= i
      BY <1>4 DEF Slots
    <3> QED  BY <1>1, <1>4, <2>1, <3>1 DEF RootSector
  <2> QED  BY <2>1, <2>2 DEF Placeable
<1>10. \A j \in Named(s) \ {i} : ShortOf[s[j].name] # ShortOf[n]
  BY <1>1, <1>4 DEF RootSector, Apart
<1>11. IsNew(w)
  BY <1>2 DEF Renews
<1>12. Linked(f, w) /\ SameChains(fat, f, s, Named(s) \ {i})
  BY <1>4, <1>5, <1>7, <1>11, Rechained DEF Takes
<1>13. Arrived(s, t, i, n, w, f, x)
  BY <1>4, <1>5, <1>7, <1>9, <1>10, <1>12, Arrival
<1>14. /\ Sending(s, t, i, x, f) /\ w = Chain(f, t, i) /\ File(t, i) = <<n>>
       /\ RootSector(t) /\ Differ(s, t, i) /\ t[i].clus # 0 /\ t[i].clus \in Cells(w)
       /\ i \in Named(t)
  BY <1>13 DEF Arrived, Sending
<1>15. Between(s, e, t, i)
  BY <1>4, <1>6, <1>7, <1>11, <1>14, EmptiedFirst
<1>16. Ending(last, s, i)'
  <2>1. Emptied(s, e, i)'
    BY <1>6, <1>15 DEF Planned, Emptied, Between
  <2> QED  BY <1>6, <2>1 DEF Planned, Ending, last
<1>17. Steady'
  <2>1. DOMAIN put \subseteq DOMAIN files
    BY <1>8 DEF At, FileFacts
  <2> QED  BY <1>1, <1>6, <1>14, <2>1, SteadyPlanned
<1>18. None # [name |-> "updateMac", gone |-> {}, put |-> put]
  BY <1>4, <1>6, SomeRequest
<1>19. Planned("updateMac", {}, put, t, Writes(w, x, 0, <<FatWrite(f)>> \o last))
  BY <1>3, <1>6
<1> QED  BY <1>1, <1>7, <1>14, <1>16, <1>17, <1>18, <1>19, FillPlanned

\* No directory is made, or can be moved or removed.
LEMMA NoDirectories ==
    ASSUME MacHost, HostInv, NEW n, NEW i
    PROVE  ~MakeDirectory(Root, n) /\ ~(i \in DirsIn(Root)) /\ \A to \in Dirs : ~Move(Root, i, to)
<1>1. DOMAIN hdir = {Root} /\ RootSector(H)
  BY DEF HostInv, Steady
<1>2. "mkdirMac" \notin Ops /\ "mkdirWin" \notin Ops
  BY DEF MacHost
<1>3. ~MakeDirectory(Root, n)
  BY <1>2, Zenon DEF MakeDirectory, Plan
<1>4. i \notin DirsIn(Root)
  <2>1. \A k \in Slots : H[k].kind # "dir"
    BY <1>1, SlotFacts
  <2> QED  BY <2>1 DEF DirsIn, InUse, H
<1>5. \A to \in Dirs : to = Root
  BY <1>1 DEF Dirs
<1>6. ASSUME NEW to \in Dirs, Move(Root, i, to) PROVE FALSE
  <2>1. to # Root
    BY <1>6, Zenon DEF Move
  <2> QED  BY <1>5, <2>1
<1> QED  BY <1>3, <1>4, <1>6

\* What a macOS host at work on files of the root may ask for.
LEMMA Requests ==
    ASSUME MacHost, HostInv, Begin
    PROVE  \/ Touch(Root)
           \/ \E n \in Names, x \in Contents : Create(Root, n, x)
           \/ \E i \in FilesIn(Root) : \/ \E x \in Contents : Update(Root, i, x)
                                        \/ \E n \in Names : Rename(Root, i, n)
                                        \/ Delete(Root, i)
<1>1. PICK d \in Dirs :
        \/ Touch(d)
        \/ \E n \in Names : \/ \E x \in Contents : Create(d, n, x)
                             \/ MakeDirectory(d, n)
        \/ \E i \in FilesIn(d) : \/ \E x \in Contents : Update(d, i, x)
                                  \/ \E n \in Names : Rename(d, i, n)
                                  \/ \E to \in Dirs : Move(d, i, to)
                                  \/ Delete(d, i)
        \/ \E i \in DirsIn(d) : RemoveDirectory(d, i)
  BY Zenon DEF Begin
<1>2. d = Root
  BY DEF HostInv, Steady, Dirs
<1>3. \A n, i : ~MakeDirectory(Root, n) /\ ~(i \in DirsIn(Root))
                /\ \A to \in Dirs : ~Move(Root, i, to)
  BY NoDirectories
<1> QED  BY <1>1, <1>2, <1>3, Zenon

\* Every plan of the host keeps the invariant.
LEMMA BeginKeeps ==
    ASSUME TableFits, MacHost, HostInv, Begin PROVE HostInv'
<1>1. CASE Touch(Root)
  BY <1>1, TouchKeeps
<1>2. ASSUME NEW n \in Names, NEW x \in Contents, Create(Root, n, x) PROVE HostInv'
  BY <1>2, CreateKeeps
<1>3. ASSUME NEW i \in FilesIn(Root), NEW x \in Contents, Update(Root, i, x) PROVE HostInv'
  BY <1>3, UpdateKeeps
<1>4. ASSUME NEW i \in FilesIn(Root), NEW n \in Names, Rename(Root, i, n) PROVE HostInv'
  BY <1>4, RenameKeeps
<1>5. ASSUME NEW i \in FilesIn(Root), Delete(Root, i) PROVE HostInv'
  BY <1>5, DeleteKeeps
<1> QED  BY <1>1, <1>2, <1>3, <1>4, <1>5, Requests

\* An operation that is over leaves littlefs as it asked for.
LEMMA DoneOver ==
    ASSUME HostInv, op # None, Idle PROVE Over
<1>1. pc = "ready" /\ todo = <<>>
  BY DEF Idle
<1>2. ~Filling
  <2> SUFFICES ASSUME NEW i, NEW n, NEW f, NEW last, Fills(i, n, f, last) PROVE FALSE
    BY DEF Filling
  <2> PICK x : x = Wanted(i)
    OBVIOUS
  <2> PICK w : w = Chain(f, H, i)
    OBVIOUS
  <2>1. /\ Ending(last, S, i)
        /\ <<>> = Writes(w, x, n, <<FatWrite(f)>> \o last)
        /\ n \in 0..Len(x) /\ Layout(f, H, Goal) /\ Sets(i)
    BY <1>1 DEF Fills
  <2>2. Len(x) \in Nat
    <3>1. FileFacts(f, H, Goal, i) /\ Goal[File(H, i)] = x
      BY <2>1, FilesHave, SetsGoal
    <3> QED  BY <3>1, LenProperties DEF FileFacts
  <2>3. PICK m : m = <<FatWrite(f)>> \o last
    OBVIOUS
  <2>4. Len(m) \in Nat /\ Len(m) > 0
    <3>1. CASE last = <<DirWrite(Root, H)>>
      <4>1. m = <<FatWrite(f), DirWrite(Root, H)>>
        BY <2>3, <3>1, TwoSectors
      <4> QED  BY <4>1
    <3>2. ASSUME NEW e, last = <<DirWrite(Root, e), DirWrite(Root, H)>>
          PROVE  Len(m) \in Nat /\ Len(m) > 0
      <4>1. m = <<FatWrite(f), DirWrite(Root, e), DirWrite(Root, H)>>
        BY <2>3, <3>2, ThreeSectors
      <4> QED  BY <4>1
    <3> QED  BY <2>1, <3>1, <3>2 DEF Ending
  <2>5. Writes(w, x, n, m) = <<>>
    BY <2>1, <2>3
  <2>6. 1 \in DOMAIN Writes(w, x, n, m)
    BY <2>1, <2>2, <2>4 DEF Writes
  <2> QED  BY <2>5, <2>6
<1>3. ~Ready
  <2>1. todo # <<DirWrite(Root, H)>> /\ \A e : todo # <<DirWrite(Root, e), DirWrite(Root, H)>>
    BY <1>1
  <2>2. \A f : todo # <<DirWrite(Root, H)>> \o <<FatWrite(f)>>
    <3>1. \A f : <<DirWrite(Root, H)>> \o <<FatWrite(f)>> = <<DirWrite(Root, H), FatWrite(f)>>
      BY TwoSectors
    <3> QED  BY <1>1, <3>1
  <2>3. <<DirWrite(Root, H)>> \o <<>> = <<DirWrite(Root, H)>>
    OBVIOUS
  <2> QED  BY <2>1, <2>2, <2>3 DEF Ready, LastNext, EmptyNext, After
<1>4. ~Emptying /\ ~Handling
  BY <1>1 DEF Emptying, Handling, Deleting, Saving, Removed, Updating, Writing
<1> QED  BY <1>2, <1>3, <1>4 DEF HostInv, Settled

\* The end of an operation keeps the invariant.
LEMMA DoneKeeps ==
    ASSUME HostInv, Done PROVE HostInv'
<1>1. /\ op # None /\ Idle /\ op' = None /\ files' = Goal /\ UNCHANGED <<vars, hdir, todo>>
  BY DEF Done, Goal
<1>2. Over /\ Steady
  BY <1>1, DoneOver DEF HostInv
<1>3. H' = H /\ S' = S /\ UNCHANGED <<lfs, tmp, fat, pc, job, todo>>
  BY <1>1 DEF H, S, vars
<1>4. Settled'
  BY <1>1, <1>2, <1>3 DEF Settled, Over, Idle
<1>5. Tree(Goal)
  <2>1. Holds(H, Goal) /\ RootSector(H)
    BY <1>2 DEF Over, Layout
  <2>2. /\ Goal = [p \in DOMAIN Goal |-> Goal[p]] /\ DOMAIN Goal = {File(H, i) : i \in Named(H)}
        /\ \A i \in Named(H) : Goal[File(H, i)] \in Contents \union Mounted
    BY <2>1 DEF Holds
  <2>3. \A i \in Named(H) : File(H, i) = <<H[i].name>> /\ H[i].name \in Names
    BY <2>1, SlotFacts DEF File
  <2> QED  BY <2>2, <2>3 DEF Tree
<1>6. Steady'
  BY <1>1, <1>2, <1>3, <1>5 DEF Steady
<1> QED  BY <1>4, <1>6 DEF HostInv

-----------------------------------------------------------------------------
(* Steps that change nothing but the cache of base clusters.               *)

Quiet == HostOut /\ UNCHANGED <<lfs, tmp, fat, pc, job>>

\* A read keeps the invariant.
LEMMA QuietKeeps == ASSUME HostInv, Quiet PROVE HostInv'
<1>1. HostStill /\ UNCHANGED <<lfs, tmp, fat, pc, job, hdir, todo, op, files>>
  BY Still DEF Quiet, HostOut
<1>2. H' = H /\ S' = S /\ Goal' = Goal /\ Kept' = Kept
  BY <1>1 DEF HostStill, S
<1>3. Steady'
  <2>1. Steady /\ HostOut /\ tmp' = tmp /\ job' = job
    BY <1>1 DEF HostInv, Quiet
  <2>2. SavedRoot(tmp') /\ IsJob(job')
    BY <2>1 DEF Steady
  <2> QED  BY <2>1, <2>2, SteadyStill
<1>4. \A k : Sent(k) => Sent(k)'
  BY <1>1, <1>2 DEF Sent, HostStill
<1>5. \A upd : AllSent(upd) => AllSent(upd)'
  BY <1>4 DEF AllSent
<1>6. \A s, i, upd : Drops(s, i, upd) => Drops(s, i, upd)'
  BY <1>1, <1>2 DEF Drops, HostStill
<1>7. \A s, del, upd : Listed(s, del, upd) => Listed(s, del, upd)'
  BY <1>1, <1>5, <1>6 DEF Listed, HostStill
<1>8. CASE Settled
  <2>1. Settled'
    BY <1>1, <1>2, <1>8 DEF Settled
  <2> QED  BY <1>3, <2>1 DEF HostInv
<1>9. CASE Filling
  <2>1. PICK i, n, f, last : Fills(i, n, f, last)
    BY <1>9 DEF Filling
  <2>2. Fills(i, n, f, last)'
    BY <1>1, <1>2, <2>1 DEF Fills, HostStill
  <2>3. Filling'
    BY <1>1, <1>9, <2>2 DEF Filling
  <2> QED  BY <1>3, <2>3 DEF HostInv
<1>10. CASE Ready
  <2>1. LastNext => LastNext'
    BY <1>1, <1>2, <1>7 DEF LastNext, HostStill
  <2>2. EmptyNext => EmptyNext'
    BY <1>1, <1>2, <1>4 DEF EmptyNext, HostStill
  <2>3. Ready'
    BY <1>1, <1>2, <1>10, <2>1, <2>2 DEF Ready
  <2> QED  BY <1>3, <2>3 DEF HostInv
<1>11. CASE Emptying
  <2>1. PICK i : /\ Sets(i) /\ Sent(i) /\ op.gone = {}
                 /\ RootSector(job.new) /\ i \in Named(job.new) /\ job.new[i].clus = 0
                 /\ Lists(job.new, H, Nothing, {i})
                 /\ \/ pc = "delete" /\ job.upd = {i}
                    \/ pc = "update" /\ S = job.new /\ job.upd \subseteq {i}
    BY <1>11 DEF Emptying
  <2>2. Sets(i)' /\ Sent(i)'
    BY <1>1, <1>4, <2>1 DEF HostStill
  <2>3. /\ op # None /\ lfs = files /\ job.dir = Root /\ job.del = Nothing
        /\ todo = <<DirWrite(Root, H)>> /\ Layout(fat, H, Goal)
    BY <1>11 DEF Emptying
  <2>4. Emptying'
    BY <1>1, <1>2, <2>1, <2>2, <2>3 DEF Emptying
  <2> QED  BY <1>3, <2>4 DEF HostInv
<1>12. CASE Handling
  <2>1. Deleting => Deleting'
    BY <1>1, <1>2, <1>7 DEF Deleting
  <2>2. Saving => Saving'
    BY <1>1, <1>2, <1>6 DEF Saving, HostStill
  <2>3. Removed => Removed'
    BY <1>1, <1>2, <1>5 DEF Removed, HostStill
  <2>4. Updating => Updating'
    BY <1>1, <1>2, <1>5 DEF Updating, HostStill
  <2>5. Writing => Writing'
    BY <1>1, <1>2, <1>4 DEF Writing, HostStill
  <2>6. Handling'
    BY <1>1, <1>2, <1>12, <2>1, <2>2, <2>3, <2>4, <2>5 DEF Handling, HostStill
  <2> QED  BY <1>3, <2>6 DEF HostInv
<1>13. CASE Over
  <2>1. Over'
    BY <1>1, <1>2, <1>13 DEF Over, HostStill
  <2> QED  BY <1>3, <2>1 DEF HostInv
<1> QED  BY <1>8, <1>9, <1>10, <1>11, <1>12, <1>13 DEF HostInv

\* Every step of the host and the drive keeps the invariant.
LEMMA NextKeeps ==
    ASSUME TableFits, MacHost, HostInv, [Next]_allvars PROVE HostInv'
<1>1. CASE Begin
  BY <1>1, BeginKeeps
<1>2. CASE HostRead
  <2>1. Quiet
    BY <1>2, Zenon DEF HostRead, Read, hostvars, Quiet, HostOut
  <2> QED  BY <2>1, QuietKeeps
<1>3. CASE Write
  BY <1>3, WriteKeeps
<1>4. CASE Handle
  <2>1. Step /\ HostOut
    BY <1>4 DEF Handle, hostvars, HostOut
  <2> QED  BY <2>1, StepKeeps
<1>5. CASE Done
  BY <1>5, DoneKeeps
<1>6. CASE UNCHANGED allvars
  <2>1. Quiet
    BY <1>6 DEF allvars, vars, hostvars, Quiet, HostOut
  <2> QED  BY <2>1, QuietKeeps
<1> QED  BY <1>1, <1>2, <1>3, <1>4, <1>5, <1>6 DEF Next, Progress

-----------------------------------------------------------------------------
(* The drive at mount.                                                     *)

EmptySector == [i \in Slots |-> IF i = 1 THEN entry("label", NoName, 0, 0) ELSE Blank]

\* A root without files is laid out.
LEMMA EmptyLayout == ASSUME NEW f PROVE Layout(f, EmptySector, NoFiles)
<1> PICK s : s = EmptySector
  OBVIOUS
<1>1. /\ 1 \in Slots /\ s[1] = entry("label", NoName, 0, 0)
      /\ \A i \in Slots \ {1} : s[i] = Blank
      /\ s = [i \in Slots |-> s[i]]
  BY SlotAssumption DEF EmptySector, Slots
<1>2. entry("label", NoName, 0, 0) \in Entry /\ Blank \in Entry
  BY ClusterAssumption DEF entry, Blank, Entry, Kinds, Cluster
<1>3. s \in Sector
  BY <1>1, <1>2 DEF Sector
<1>4. Named(s) = {}
  <2>1. \A i \in Slots : s[i].kind # "file"
    BY <1>1 DEF entry, Blank
  <2> QED  BY <2>1 DEF Named
<1>5. RootSector(s)
  <2>1. s[1] # Blank
    BY <1>1 DEF entry, Blank
  <2>2. \A i, j \in Slots : i <= j /\ s[i] = Blank => s[j] = Blank
    <3> SUFFICES ASSUME NEW i \in Slots, NEW j \in Slots, i <= j, s[i] = Blank PROVE s[j] = Blank
      OBVIOUS
    <3>1. i # 1 /\ j # 1
      BY <2>1 DEF Slots
    <3> QED  BY <1>1, <3>1
  <2> QED  BY <1>1, <1>3, <1>4, <2>2 DEF RootSector, Apart
<1>6. Holds(s, NoFiles)
  BY <1>4 DEF Holds, NoFiles
<1> QED  BY <1>4, <1>5, <1>6 DEF Layout, Chained

\* The clusters of the file of a mounted drive.
FromTwo(n) == [k \in 1..n |-> k + 1]
Runs(f, n) == /\ \A c \in 2..n : f[c] = c + 1
              /\ f[n + 1] = EOC

\* The clusters from 2 on are a chain.
LEMMA MountedChain ==
    ASSUME NEW n \in Nat \ {0}, n < NumClusters, NEW f, Runs(f, n)
    PROVE  LET w == FromTwo(n)
           IN  /\ Linked(f, w) /\ w[1] = 2 /\ Len(w) = n
<1> DEFINE w == FromTwo(n)
<1>1. /\ DOMAIN w = 1..n /\ \A k \in 1..n : w[k] = k + 1 /\ w[k] \in 2..NumClusters
  BY ClusterAssumption DEF FromTwo
<1>2. w \in Seq(2..NumClusters) /\ Len(w) = n /\ w # <<>>
  BY <1>1 DEF FromTwo
<1>3. ASSUME NEW k \in 1..n PROVE f[w[k]] = IF k = n THEN EOC ELSE w[k + 1]
  <2>1. CASE k = n
    BY <1>1, <2>1 DEF Runs
  <2>2. CASE k # n
    <3>1. k + 1 \in 2..n /\ k + 1 \in 1..n
      BY <2>2
    <3>2. w[k] = k + 1 /\ w[k + 1] = (k + 1) + 1 /\ f[k + 1] = (k + 1) + 1
      BY <1>1, <3>1 DEF Runs
    <3> QED  BY <2>2, <3>2
  <2> QED  BY <2>1, <2>2
<1>4. \A j, k \in 1..n : w[j] = w[k] => j = k
  BY <1>1
<1>5. w[1] = 2 /\ n <= NumClusters
  BY <1>1, ClusterAssumption
<1> HIDE DEF w
<1>6. Linked(f, w)
  BY <1>2, <1>3, <1>4, <1>5 DEF Linked
<1> QED  BY <1>2, <1>5, <1>6 DEF w

\* A root with one file is laid out.
LEMMA MountedLayout ==
    ASSUME TableFits, NEW n \in Names, NEW x \in Mounted, x # <<>>, NEW f, Runs(f, Len(x)),
           NEW s, s = [EmptySector EXCEPT ![2] = entry("file", n, 2, Len(x))]
    PROVE  Layout(f, s, At(<<n>>, x))
<1> PICK e : e = EmptySector
  OBVIOUS
<1> PICK w : w = FromTwo(Len(x))
  OBVIOUS
<1>1. x \in Seq(Values) /\ Len(x) \in Nat \ {0} /\ Len(x) < NumClusters
  BY MountedAssumption, EmptySeq
<1>2. Linked(f, w) /\ w[1] = 2 /\ Len(w) = Len(x)
  BY <1>1, MountedChain
<1>3. Layout(f, e, NoFiles) /\ RootSector(e) /\ Named(e) = {}
  <2>1. \A i \in Slots : e[i].kind # "file"
    BY DEF EmptySector, entry, Blank
  <2> QED  BY <2>1, EmptyLayout DEF Layout, Named
<1>4. s = Entered(e, 2, n, w)
  BY <1>2 DEF Entered, FileAt
<1>5. Suits(e, 2, FileAt(n, w))
  <2>1. Placeable(e, 2)
    <3>1. 2 \in Slots \ {1} /\ 1 \in Slots /\ \A k \in Slots : k < 2 => k = 1
      BY SlotAssumption DEF Slots
    <3>2. e[1] # Blank
      BY <3>1 DEF EmptySector, entry, Blank
    <3> QED  BY <3>1, <3>2 DEF Placeable
  <2>2. FileEntry(FileAt(n, w))
    BY <1>1, <1>2, ClusterAssumption DEF FileEntry, FileAt, entry, Entry, Kinds, Cluster, Root
  <2> QED  BY <1>3, <2>1, <2>2 DEF Suits, NewTo
<1>6. FileMayEnter(f, e, f, 2, n, w, x)
  <2>1. w[1] \in Cluster
    BY <1>2, ClusterAssumption DEF Cluster
  <2> QED  BY <1>2, <1>3, <1>5, <2>1 DEF FileMayEnter, SameChains
<1>7. Layout(f, Entered(e, 2, n, w), Put(NoFiles, <<n>>, x))
  BY <1>3, <1>6, LayoutPut, Zenon
<1>8. Put(NoFiles, <<n>>, x) = At(<<n>>, x)
  BY DEF Put, NoFiles, At
<1> QED  BY <1>4, <1>7, <1>8

\* A drive starts with the invariant.
LEMMA InitHolds == ASSUME TableFits, Init PROVE HostInv
<1>1. PICK n \in Names, x \in Mounted :
        LET label == entry("label", NoName, 0, 0)
            root == [i \in Slots |-> CASE i = 1 -> label
                                       [] i = 2 /\ x # <<>> -> entry("file", n, 2, Len(x))
                                       [] OTHER -> Blank]
        IN  /\ lfs = IF x = <<>> THEN NoFiles ELSE At(<<n>>, x)
            /\ tmp = [c \in {Root} |-> root]
            /\ fat = [c \in Cluster |-> CASE c = 0 -> MEDIA
                                           [] c = Root -> EOC
                                           [] c \in 2..Len(x) -> c + 1
                                           [] c = Len(x) + 1 /\ x # <<>> -> EOC
                                           [] OTHER -> FREE]
            /\ pc = "ready" /\ job = NoJob
            /\ hdir = tmp /\ todo = <<>> /\ op = None /\ files = lfs
  BY DEF Init
<1>2. /\ pc = "ready" /\ job = NoJob /\ todo = <<>> /\ op = None /\ files = lfs
      /\ DOMAIN hdir = {Root} /\ DOMAIN tmp = {Root} /\ H = S
  BY <1>1 DEF H, S
<1>3. H = [i \in Slots |-> CASE i = 1 -> entry("label", NoName, 0, 0)
                             [] i = 2 /\ x # <<>> -> entry("file", n, 2, Len(x))
                             [] OTHER -> Blank]
  BY <1>1 DEF H
<1>4. Layout(fat, H, files) /\ Tree(files)
  <2>1. CASE x = <<>>
    <3>1. H = EmptySector /\ files = NoFiles
      BY <1>1, <1>3, <2>1 DEF EmptySector
    <3> QED  BY <3>1, EmptyLayout DEF Tree, NoFiles
  <2>2. CASE x # <<>>
    <3>1. files = At(<<n>>, x)
      BY <1>1, <2>2
    <3>2. H = [EmptySector EXCEPT ![2] = entry("file", n, 2, Len(x))]
      <4> PICK e : e = entry("file", n, 2, Len(x))
        OBVIOUS
      <4> PICK label : label = entry("label", NoName, 0, 0)
        OBVIOUS
      <4>1. H = [i \in Slots |-> IF i = 1 THEN label ELSE IF i = 2 THEN e ELSE Blank]
        BY <1>3, <2>2
      <4>2. EmptySector = [i \in Slots |-> IF i = 1 THEN label ELSE Blank]
        BY DEF EmptySector
      <4> QED  BY <4>1, <4>2
    <3>3. x \in Seq(Values) /\ Len(x) \in Nat \ {0} /\ Len(x) < NumClusters
      BY <2>2, MountedAssumption, EmptySeq
    <3>4. Runs(fat, Len(x))
      <4>1. ASSUME NEW c \in 2..Len(x) PROVE fat[c] = c + 1
        BY <1>1, <3>3, ClusterAssumption DEF Cluster, Root
      <4>2. fat[Len(x) + 1] = EOC
        BY <1>1, <2>2, <3>3, ClusterAssumption DEF Cluster, Root
      <4> QED  BY <4>1, <4>2 DEF Runs
    <3> QED  BY <2>2, <3>1, <3>2, <3>4, MountedLayout DEF Tree, At
  <2> QED  BY <2>1, <2>2
<1>5. Settled
  BY <1>2, <1>4 DEF Settled
<1>6. Steady
  <2>1. RootSector(H)
    BY <1>4 DEF Layout
  <2>2. SavedRoot(tmp) /\ IsJob(job)
    BY <1>2, <2>1 DEF SavedRoot, S, IsJob, NoJob
  <2> QED  BY <1>2, <1>4, <2>1, <2>2 DEF Steady
<1> QED  BY <1>5, <1>6 DEF HostInv

-----------------------------------------------------------------------------
(* What littlefs holds.                                                    *)

\* An operation ahead of its end: nothing done, the old file dropped, or the
\* new one opened.
Course == \/ lfs = files
          \/ op # None /\ (lfs = Kept \/ lfs = Goal)
          \/ op # None /\ \E k : Sets(k) /\ lfs = Put(Kept, File(H, k), Old(File(H, k)))

\* What littlefs holds in the course of an operation.
LEMMA HostCourse == ASSUME HostInv PROVE Course
<1>1. CASE Settled \/ Filling \/ Ready \/ Emptying
  BY <1>1 DEF Settled, Filling, Ready, Emptying, Course
<1>2. CASE Handling
  <2>1. Deleting \/ Saving \/ Removed \/ Updating => Course
    BY <1>2 DEF Handling, Deleting, Saving, Removed, Updating, Course
  <2>2. Writing => Course
    BY <1>2 DEF Handling, Writing, Course
  <2> QED  BY <1>2, <2>1, <2>2 DEF Handling
<1>3. CASE Over
  BY <1>3 DEF Over, Course
<1> QED  BY <1>1, <1>2, <1>3 DEF HostInv

\* The invariant keeps the bystanders.
LEMMA Bystanders == ASSUME HostInv PROVE BystandersKept
<1> SUFFICES ASSUME NEW p \in DOMAIN files, op = None \/ p \notin op.gone \union DOMAIN op.put
             PROVE  p \in DOMAIN lfs /\ lfs[p] = files[p]
  BY DEF BystandersKept
<1>1. Course
  BY HostCourse
<1>2. CASE lfs = files
  BY <1>2
<1>3. ASSUME op # None PROVE p \in DOMAIN Kept /\ Kept[p] = files[p]
  BY <1>3 DEF Kept
<1>4. CASE op # None /\ lfs = Kept
  BY <1>3, <1>4
<1>5. CASE op # None /\ lfs = Goal
  BY <1>5 DEF Goal, Store!Apply
<1>6. ASSUME op # None, NEW k, Sets(k), lfs = Put(Kept, File(H, k), Old(File(H, k)))
      PROVE  p \in DOMAIN lfs /\ lfs[p] = files[p]
  <2>1. p # File(H, k)
    BY <1>6, SetsGoal
  <2> QED  BY <1>3, <1>6, <2>1 DEF Put
<1> QED  BY <1>1, <1>2, <1>4, <1>5, <1>6 DEF Course

\* The invariant makes an update atomic.
LEMMA Atomic == ASSUME HostInv PROVE MacUpdateAtomic
<1> SUFFICES ASSUME op # None, op.name = "updateMac", NEW p \in DOMAIN op.put
             PROVE  p \in DOMAIN lfs /\ lfs[p] \in {files[p], op.put[p]}
  BY DEF MacUpdateAtomic
<1>1. op.gone = {} /\ DOMAIN op.put \subseteq DOMAIN files /\ Tree(files)
  BY DEF HostInv, Steady, Updates
<1>2. Kept = files /\ p \in DOMAIN files
  BY <1>1, NoneGone
<1>3. Goal[p] = op.put[p] /\ p \in DOMAIN Goal
  BY DEF Goal, Store!Apply
<1>4. ASSUME NEW k, Sets(k), lfs = Put(Kept, File(H, k), Old(File(H, k)))
      PROVE  p \in DOMAIN lfs /\ lfs[p] = files[p]
  <2>1. p = File(H, k)
    BY <1>4, SetsGoal
  <2> QED  BY <1>2, <1>4, <2>1 DEF Put, Old
<1> QED  BY <1>2, <1>3, <1>4, HostCourse DEF Course

-----------------------------------------------------------------------------
(* Each step is one of the abstract drive.                                 *)

\* A request names files that are there.
LEMMA Requested ==
    ASSUME MacHost, HostInv, Begin
    PROVE  op = None /\ op' # None /\ op'.gone \subseteq DOMAIN files /\ UNCHANGED <<vars, files>>
<1> DEFINE Good(name, gone, put) ==
        /\ op = None /\ op' = [name |-> name, gone |-> gone, put |-> put] /\ op' # None
        /\ gone \subseteq DOMAIN files /\ UNCHANGED <<vars, files>>
           Asked == \E name, gone, put : Good(name, gone, put)
<1>1. DOMAIN hdir = {Root} /\ RootSector(H) /\ FilesIn(Root) = Named(H)
  BY InUseNamed DEF HostInv, Steady
<1>2. PICK d \in Dirs :
        \/ Touch(d)
        \/ \E n \in Names : \/ \E x \in Contents : Create(d, n, x)
                             \/ MakeDirectory(d, n)
        \/ \E i \in FilesIn(d) : \/ \E x \in Contents : Update(d, i, x)
                                  \/ \E n \in Names : Rename(d, i, n)
                                  \/ \E to \in Dirs : Move(d, i, to)
                                  \/ Delete(d, i)
        \/ \E i \in DirsIn(d) : RemoveDirectory(d, i)
  BY Zenon DEF Begin
<1>3. d = Root
  BY <1>1 DEF Dirs
<1>4. ASSUME NEW name, NEW gone \in SUBSET Seq(Names), NEW put, NEW dirs, NEW writes,
             Plan(name, gone, put, dirs, writes), gone \subseteq DOMAIN files,
             \/ put = NoFiles
             \/ \E n \in Names, x \in Contents \union Mounted : put = At(<<n>>, x)
      PROVE  Asked
  <2>1. /\ op = None /\ op' = [name |-> name, gone |-> gone, put |-> put] /\ name \in Ops
        /\ UNCHANGED <<vars, files>>
    BY <1>4 DEF Plan
  <2>2. CASE put = NoFiles
    <3>1. None # [name |-> name, gone |-> gone, put |-> put]
      BY <2>1, <2>2, NoneAssumption
    <3> QED  BY <1>4, <2>1, <3>1
  <2>3. CASE \E n \in Names, x \in Contents \union Mounted : put = At(<<n>>, x)
    <3>1. PICK n \in Names, x \in Contents \union Mounted : put = At(<<n>>, x)
      BY <2>3
    <3>2. None # [name |-> name, gone |-> gone, put |-> At(<<n>>, x)]
      BY <2>1, SomeRequest
    <3> QED  BY <1>4, <2>1, <3>1, <3>2
  <2> QED  BY <1>4, <2>2, <2>3
<1> HIDE DEF Asked
<1>5. \A n \in Names : <<n>> \in Seq(Names) /\ Path(Root, n) = <<n>>
  BY RootName
<1>6. {} \in SUBSET Seq(Names) /\ {} \subseteq DOMAIN files
  OBVIOUS
<1>7. ASSUME Touch(Root) PROVE Asked
  BY <1>4, <1>6, <1>7 DEF Touch
<1>8. ASSUME NEW n \in Names, NEW x \in Contents, Create(Root, n, x) PROVE Asked
  <2>1. "createWin" \notin Ops
    BY DEF MacHost
  <2>2. \E dirs, writes : Plan("createMac", {}, At(<<n>>, x), dirs, writes)
    BY <1>5, <1>8, <2>1, Zenon DEF Create, Plan
  <2> QED  BY <1>4, <1>6, <2>2
<1>9. ASSUME NEW i \in FilesIn(Root)
      PROVE  /\ hdir[Root][i].name \in Names
             /\ op = None => <<hdir[Root][i].name>> \in DOMAIN files
             /\ op = None => files[<<hdir[Root][i].name>>] \in Contents \union Mounted
  <2>1. H[i].name \in Names
    BY <1>1, SlotFacts
  <2>2. op = None => Layout(fat, H, files)
    BY Idleness DEF Settled
  <2>3. op = None => File(H, i) \in DOMAIN files /\ files[File(H, i)] \in Contents \union Mounted
    BY <1>1, <2>2 DEF Layout, Holds
  <2> QED  BY <2>1, <2>3 DEF H, File
<1>10. ASSUME NEW i \in FilesIn(Root), NEW x \in Contents, Update(Root, i, x) PROVE Asked
  <2>1. "updateWin" \notin Ops
    BY DEF MacHost
  <2> PICK n : n = hdir[Root][i].name
    OBVIOUS
  <2>2. \E dirs, writes : Plan("updateMac", {}, At(<<n>>, x), dirs, writes)
    BY <1>5, <1>9, <1>10, <2>1, Zenon DEF Update, Plan
  <2> QED  BY <1>4, <1>6, <1>9, <2>2
<1>11. ASSUME NEW i \in FilesIn(Root), Delete(Root, i) PROVE Asked
  <2> PICK n : n = hdir[Root][i].name
    OBVIOUS
  <2>1. \E dirs, writes : Plan("delete", {<<n>>}, NoFiles, dirs, writes)
    BY <1>5, <1>9, <1>11, Zenon DEF Delete
  <2>2. op = None
    BY <2>1 DEF Plan
  <2> PICK gone : gone = {<<n>>}
    OBVIOUS
  <2>3. gone \in SUBSET Seq(Names) /\ gone \subseteq DOMAIN files
    BY <1>5, <1>9, <2>2
  <2> QED  BY <1>4, <2>1, <2>3
<1>12. ASSUME NEW i \in FilesIn(Root), NEW n \in Names, Rename(Root, i, n) PROVE Asked
  <2>1. "renameWin" \notin Ops
    BY DEF MacHost
  <2> PICK m : m = hdir[Root][i].name
    OBVIOUS
  <2>2. \E dirs, writes : Plan("renameMac", {<<m>>}, At(<<n>>, files[<<m>>]), dirs, writes)
    BY <1>5, <1>9, <1>12, <2>1, Zenon DEF Rename, Plan
  <2>3. op = None
    BY <2>2 DEF Plan
  <2> PICK gone : gone = {<<m>>}
    OBVIOUS
  <2> PICK x : x = files[<<m>>]
    OBVIOUS
  <2>4. gone \in SUBSET Seq(Names) /\ gone \subseteq DOMAIN files /\ x \in Contents \union Mounted
    BY <1>5, <1>9, <2>3
  <2> QED  BY <1>4, <2>2, <2>4
<1>13. \A n, i : ~MakeDirectory(Root, n) /\ ~(i \in DirsIn(Root))
                 /\ \A to \in Dirs : ~Move(Root, i, to)
  BY NoDirectories
<1>14. Asked
  BY <1>2, <1>3, <1>7, <1>8, <1>10, <1>11, <1>12, <1>13, Zenon
<1>15. PICK name, gone, put : Good(name, gone, put)
  BY <1>14 DEF Asked
<1>16. [name |-> name, gone |-> gone, put |-> put].gone = gone
  OBVIOUS
<1> QED  BY <1>15, <1>16

\* A step of the host and the drive is one of the abstract drive, or none.
LEMMA HostRefines ==
    ASSUME MacHost, HostInv, [Next]_allvars PROVE [Store!Next]_(Store!vars)
<1> DEFINE store == IF op = None THEN lfs ELSE files
<1>1. CASE Begin
  <2>1. /\ op = None /\ op' # None /\ op'.gone \subseteq DOMAIN files
        /\ UNCHANGED <<lfs, files>>
    BY <1>1, Requested DEF vars
  <2>2. lfs = files
    BY <2>1, Idleness DEF Settled
  <2>3. store' = store /\ store = files
    BY <2>1, <2>2
  <2>4. Store!Begin
    BY <2>1, <2>3 DEF Store!Begin, Store!Legal
  <2> QED  BY <2>4 DEF Store!Next
<1>2. CASE Done
  <2>1. op # None /\ Idle /\ op' = None /\ files' = Goal /\ UNCHANGED vars
    BY <1>2 DEF Done, Goal
  <2>2. lfs = Goal
    BY <2>1, DoneOver DEF Over
  <2>3. store' = Goal /\ store = files
    BY <2>1, <2>2 DEF vars
  <2>4. Store!Complete
    BY <2>1, <2>3 DEF Store!Complete, Goal
  <2> QED  BY <2>4 DEF Store!Next
<1>3. CASE Write \/ Handle \/ HostRead \/ UNCHANGED allvars
  <2>1. UNCHANGED <<op, files>>
    BY <1>3, Zenon DEF Write, Handle, HostRead, hostvars, allvars
  <2>2. op = None => lfs' = lfs
    <3> SUFFICES ASSUME op = None PROVE lfs' = lfs
      OBVIOUS
    <3>1. pc = "ready" /\ todo = <<>>
      BY Idleness DEF Settled
    <3>2. ~Write /\ ~Handle
      BY <3>1, ReadyStill, Zenon DEF Write, Handle
    <3> QED  BY <1>3, <3>2, Zenon DEF HostRead, Read, allvars, vars
  <2>3. store' = store
    BY <2>1, <2>2
  <2> QED  BY <2>1, <2>3 DEF Store!vars
<1> QED  BY <1>1, <1>2, <1>3 DEF Next, Progress

-----------------------------------------------------------------------------
(* Nothing is dropped from littlefs that is not saved.                     *)

Grows == DOMAIN lfs \subseteq DOMAIN lfs'

\* No sector the host sends makes the drive drop a file at once.
LEMMA WriteGrows == ASSUME Write PROVE Grows
<1>1. \/ WriteFat(Head(todo).data) \/ WriteRoot(Head(todo).data, Head(todo).touched)
      \/ WriteCluster(Head(todo).at, Head(todo).data, Head(todo).touched)
  BY Zenon DEF Write
<1>2. \A j, p, c, n : StartWrite(j, p, c, n) => Grows
  BY DEF StartWrite, Put, Grows
<1>3. \A c, x : WriteUnallocated(c, x) => Grows
  <2> SUFFICES ASSUME NEW c, NEW x, WriteUnallocated(c, x) PROVE Grows
    OBVIOUS
  <2>1. lfs' = lfs \/ \E j, p, k, n : StartWrite(j, p, k, n)
    BY Zenon DEF WriteUnallocated
  <2> QED  BY <1>2, <2>1 DEF Grows
<1>4. \A c, x, p, n, off : update_file_entry(c, x, p, n, off) => Grows
  BY DEF update_file_entry, Put, Grows
<1>5. \A c, s, t : Compare(c, s, t) => lfs' = lfs
  BY DEF Compare
<1>6. \A c, x, t : WriteCluster(c, x, t) => Grows
  <2> SUFFICES ASSUME NEW c, NEW x, NEW t, WriteCluster(c, x, t) PROVE Grows
    OBVIOUS
  <2>1. \/ lfs' = lfs \/ WriteUnallocated(c, x) \/ \E d, s, r : Compare(d, s, r)
        \/ \E p, n, off : update_file_entry(c, x, p, n, off)
    BY Zenon DEF WriteCluster
  <2> QED  BY <1>3, <1>4, <1>5, <2>1 DEF Grows
<1>7. \A f : WriteFat(f) => lfs' = lfs
  BY DEF WriteFat
<1>8. \A s, t : WriteRoot(s, t) => lfs' = lfs
  BY <1>5 DEF WriteRoot
<1> QED  BY <1>1, <1>6, <1>7, <1>8 DEF Grows

\* Nothing but the end of save_file_clusters drops a file.
LEMMA StepGrows ==
    ASSUME HostInv, Step, pc # "save" PROVE Grows
<1>1. \A j, p, c, n : StartWrite(j, p, c, n) => Grows
  BY DEF StartWrite, Put, Grows
<1>2. CASE pc = "delete"
  <2>1. \/ SaveDirectory
        \/ \E i \in Slots : NextDeleted(i) /\ (DeleteBlank(i) \/ DeleteNow(i) \/ DeleteFile(i))
    BY <1>2, DeleteSteps
  <2>2. ASSUME NEW j \in Slots, NextDeleted(j), DeleteNow(j) PROVE Grows
    <3>1. job.del # Nothing
      BY <2>2, NothingNext
    <3>2. Handling /\ Deleting
      BY <1>2, <3>1 DEF HostInv, Settled, Filling, Ready, Emptying, Handling, Over,
                        Saving, Removed, Updating, Writing
    <3>3. Steady /\ HandlingFrame
      BY <3>2 DEF HostInv, Handling, HandlingFrame
    <3>4. PICK i \in Slots : job.del = Only(i) /\ Drops(S, i, job.upd)
      BY <3>1, <3>2 DEF Deleting, Listed
    <3>5. j = i
      BY <2>2, <3>4, OnlyNext
    <3>6. ~IsDirectory(Victim(j)) /\ IsFile(lfs, VictimPath(j))
      BY <3>2, <3>3, <3>4, <3>5, TheVictim DEF IsDirectory
    <3> QED  BY <2>2, <3>6 DEF DeleteNow
  <2>3. SaveDirectory \/ (\E i \in Slots : DeleteBlank(i) \/ DeleteFile(i)) => lfs' = lfs
    BY DEF SaveDirectory, DeleteBlank, DeleteFile
  <2> QED  BY <2>1, <2>2, <2>3 DEF Grows
<1>3. CASE pc = "update"
  <2>1. \/ Finish
        \/ \E i \in Slots : NextUpdated(i) /\ (UpdateStop(i) \/ UpdateDirectory(i) \/ UpdateFile(i))
    BY <1>3, UpdateSteps
  <2>2. Finish \/ (\E i \in Slots : UpdateStop(i)) => lfs' = lfs
    BY DEF Finish, UpdateStop
  <2>3. \A i : UpdateDirectory(i) => Grows
    BY DEF UpdateDirectory, littlefs_mkdir, Put, Grows
  <2>4. \A i : UpdateFile(i) => Grows
    BY <1>1, Zenon DEF UpdateFile
  <2> QED  BY <2>1, <2>2, <2>3, <2>4 DEF Grows
<1>4. CASE pc = "write"
  <2>1. WriteStep
    BY <1>4, WriteSteps
  <2>2. lfs' = lfs \/ \E p, x : lfs' = Put(lfs, p, x)
    <3> PICK sent : sent = SentBlock(job.at)
      OBVIOUS
    <3>1. sent = <<>> \/ (sent # <<>> /\ EndsChain(fat[job.at]))
          \/ (sent # <<>> /\ ~EndsChain(fat[job.at]))
      OBVIOUS
    <3> QED  BY <2>1, <3>1, Zenon DEF WriteStep
  <2>3. \A p, x : lfs' = Put(lfs, p, x) => Grows
    BY DEF Put, Grows
  <2> QED  BY <2>2, <2>3 DEF Grows
<1>5. pc \in {"delete", "update", "write"}
  <2>1. pc # "ready"
    BY ReadyStill
  <2> QED  BY <2>1 DEF HostInv, Settled, Filling, Ready, Emptying, Handling, Over,
                     Deleting, Saving, Removed, Updating, Writing
<1> QED  BY <1>2, <1>3, <1>4, <1>5

\* The file that is dropped is in the temporary files of its clusters.
LEMMA SavedFirst ==
    ASSUME TableFits, HostInv, Step, NEW p \in DOMAIN lfs \ DOMAIN lfs'
    PROVE  \E c \in 2..NumClusters : Held(tmp', c, lfs[p])
<1>1. pc = "save"
  BY StepGrows DEF Grows
<1>2. Handling /\ Saving /\ Steady
  BY <1>1 DEF HostInv, Settled, Filling, Ready, Emptying, Handling, Over,
              Deleting, Removed, Updating, Writing
<1>3. PICK i : Saves(i)
  BY <1>2 DEF Saving, Saves
<1> DEFINE w == Chain(fat, S, i)
           x == files[job.path]
           n == Len(job.data)
<1>4. PICK block : Turn(i, w, x, n, block)
  BY <1>2, <1>3, SavingTurn
<1>5. /\ w \in Seq(2..NumClusters) /\ Len(w) \in Nat /\ Len(x) = Len(w) /\ lfs = files
      /\ fat[w[n + 1]] >= MEDIA <=> n + 1 = Len(w)
      /\ Stored(tmp', w, x, n + 1)
      /\ IF fat[w[n + 1]] >= MEDIA THEN lfs' = littlefs_remove(lfs, job.path) ELSE lfs' = lfs
      /\ i \in Named(S)
  BY <1>4 DEF Turn
<1>6. lfs' # lfs
  OBVIOUS
<1>7. n + 1 = Len(w) /\ lfs' = littlefs_remove(lfs, job.path)
  BY <1>5, <1>6
<1>8. p = job.path
  BY <1>7 DEF littlefs_remove
<1>9. S[i].clus \in 2..NumClusters /\ ChainOf(fat, S[i].clus) = w
  <2>1. FileFacts(fat, S, files, i)
    BY <1>3, FilesHave DEF Saves, Drops
  <2> QED  BY <2>1 DEF FileFacts, Chain
<1>10. Stored(tmp', w, x, Len(x)) /\ lfs[p] = x
  BY <1>5, <1>7, <1>8
<1> HIDE DEF w, x, n
<1>11. Held(tmp', S[i].clus, x)
  BY <1>5, <1>9, <1>10 DEF Held, Stored
<1> QED  BY <1>9, <1>10, <1>11

-----------------------------------------------------------------------------
(* Theorems.                                                               *)

\* Whatever a macOS host does with files of the root, on a disk of any size,
\* HostInv holds: what it has still to send, what the drive has on its lists
\* and what littlefs holds fit together at every step (mimic_fat_write).
THEOREM HostInvariant == ASSUME MacHost, TableFits PROVE Spec => []HostInv
<1>1. Init => HostInv
  BY InitHolds
<1>2. HostInv /\ [Next]_allvars => HostInv'
  BY NextKeeps
<1> QED  BY <1>1, <1>2, PTL DEF Spec

\* A file the operation does not name keeps its content at every step of the
\* drive (difference_of_dir_entry, restore_file_from).
THEOREM OthersKept == ASSUME MacHost, TableFits PROVE Spec => []BystandersKept
<1>1. HostInv => BystandersKept
  BY Bystanders
<1> QED  BY <1>1, HostInvariant, PTL

\* A file that is updated holds its old content or its new one at every step
\* (littlefs_write commits with one close).
THEOREM UpdateIsAtomic == ASSUME MacHost, TableFits PROVE Spec => []MacUpdateAtomic
<1>1. HostInv => MacUpdateAtomic
  BY Atomic
<1> QED  BY <1>1, HostInvariant, PTL

\* The drive implements FileStore: when an operation ends, littlefs holds what
\* the host asked for, and between two operations nothing changes.
THEOREM DriveImplementsStore == ASSUME MacHost, TableFits PROVE Spec => HostOpsReflected
<1>1. Init => Store!Init
  BY DEF Init, Store!Init
<1>2. HostInv /\ [Next]_allvars => [Store!Next]_(Store!vars)
  BY HostRefines
<1> QED  BY <1>1, <1>2, HostInvariant, PTL DEF Spec, HostOpsReflected, Store!Safety

\* A file is removed from littlefs only when all its blocks are in the
\* temporary files of its clusters (save_file_clusters).
THEOREM RemovedIsSaved == ASSUME MacHost, TableFits PROVE Spec => RemovedFilesSaved
<1>1. HostInv /\ [Next]_allvars =>
        [\A p \in DOMAIN lfs \ DOMAIN lfs' :
            IsFile(lfs, p) => \E c \in 2..NumClusters : Held(tmp', c, lfs[p])]_allvars
  <2> SUFFICES ASSUME HostInv, [Next]_allvars, NEW p \in DOMAIN lfs \ DOMAIN lfs'
               PROVE  \E c \in 2..NumClusters : Held(tmp', c, lfs[p])
    OBVIOUS
  <2>1. CASE Begin
    <3>1. lfs' = lfs
      BY <2>1, Requested DEF vars
    <3> QED  BY <3>1
  <2>2. CASE Write
    BY <2>2, WriteGrows DEF Grows
  <2>3. CASE Handle
    BY <2>3, SavedFirst DEF Handle
  <2>4. CASE HostRead \/ Done \/ UNCHANGED allvars
    <3>1. lfs' = lfs
      BY <2>4, Zenon DEF HostRead, Read, Done, allvars, vars
    <3> QED  BY <3>1
  <2> QED  BY <2>1, <2>2, <2>3, <2>4 DEF Next, Progress
<1> QED  BY <1>1, HostInvariant, PTL DEF Spec, RemovedFilesSaved
=============================================================================
