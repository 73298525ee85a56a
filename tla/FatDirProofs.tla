---------------------------- MODULE FatDirProofs ----------------------------
(***************************************************************************)
(* For every number of slots and clusters, and every pair of directory     *)
(* sectors: what the lists of difference_of_dir_entry hold when the host   *)
(* deletes, renames or rewrites one entry, what littlefs_write leaves in a *)
(* file, and where the ".." of a new directory leads.                      *)
(***************************************************************************)
EXTENDS FatDir, NaturalRecursion, SequenceTheorems

-----------------------------------------------------------------------------
\* A set of slots has a first one, and First picks it.
LEMMA FirstLeast ==
    ASSUME NEW S \in SUBSET Slots, S # {}
    PROVE  First(S) \in S /\ \A k \in S : First(S) <= k
<1>1. S \in SUBSET Nat
  BY DEF Slots
<1> QED
  BY <1>1, LeastNatural DEF First

\* What an entry on the delete list may be: one a deleted entry matches, or
\* the entry of the same slot under another name.
LEMMA OnDeleteList ==
    ASSUME NEW orig \in Sector, NEW new \in Sector, NEW touched \in BOOLEAN, NEW i \in Slots,
           difference_of_dir_entry(orig, new, touched).del[i] # 0
    PROVE  LET j == difference_of_dir_entry(orig, new, touched).del[i]
           IN  /\ Comparable(new[i])
               /\ \/ new[i].del /\ j \in DeletedBy(orig, new, i)
                  \/ ~new[i].del /\ j = i /\ ~SameName(new[i], orig[i])
<1> DEFINE j == difference_of_dir_entry(orig, new, touched).del[i]
           Renamed == {k \in Stops(orig, new, i) :
                          /\ k = i
                          /\ ~SameName(new[i], orig[i])
                          /\ \A m \in Stops(orig, new, i) : i <= m}
           Del == IF new[i].del THEN DeletedBy(orig, new, i) ELSE Renamed
<1>1. j = IF (touched \/ orig # new) /\ Comparable(new[i]) /\ Del # {} THEN First(Del) ELSE 0
  BY DEF difference_of_dir_entry
<1>2. Comparable(new[i]) /\ Del # {} /\ j = First(Del)
  BY <1>1
<1>3. Del \in SUBSET Slots
  BY DEF DeletedBy, Stops
<1> HIDE DEF j
<1>4. j \in Del
  <2> HIDE DEF Del
  <2> QED BY <1>2, <1>3, FirstLeast
<1> QED
  BY <1>2, <1>4 DEF j

\* What an entry on the update list may be: no old entry of the same short
\* name, cluster and size comes first.
LEMMA OnUpdateList ==
    ASSUME NEW orig \in Sector, NEW new \in Sector, NEW touched \in BOOLEAN, NEW i \in Slots
    PROVE  i \in difference_of_dir_entry(orig, new, touched).upd <=>
               /\ touched \/ orig # new
               /\ Comparable(new[i])
               /\ ~new[i].del
               /\ \/ Stops(orig, new, i) = {}
                  \/ ~SameName(new[i], orig[First(Stops(orig, new, i))])
BY DEF difference_of_dir_entry

\* An entry that neither changed nor shares its cluster and size with a
\* deleted entry of the new sector is on no list: this is what keeps
\* bystanders, and the second condition is the one a rename on macOS breaks.
THEOREM BystanderOffLists ==
    ASSUME NEW orig \in Sector, NEW new \in Sector, NEW touched \in BOOLEAN, NEW j \in Slots,
           new[j] = orig[j], Comparable(orig[j]), ~orig[j].del,
           \A i \in Slots : new[i].del => ~SameData(new[i], orig[j])
    PROVE  /\ \A i \in Slots : difference_of_dir_entry(orig, new, touched).del[i] # j
           /\ j \notin difference_of_dir_entry(orig, new, touched).upd
<1>1. ASSUME NEW i \in Slots, difference_of_dir_entry(orig, new, touched).del[i] = j
      PROVE  FALSE
  <2>1. j # 0
    BY DEF Slots
  <2>2. \/ new[i].del /\ j \in DeletedBy(orig, new, i)
        \/ ~new[i].del /\ j = i /\ ~SameName(new[i], orig[i])
    BY <1>1, <2>1, OnDeleteList
  <2>3. CASE new[i].del /\ j \in DeletedBy(orig, new, i)
    <3>1. i = j
      BY <2>3 DEF DeletedBy
    <3> QED
      BY <2>3, <3>1
  <2>4. CASE ~new[i].del /\ j = i /\ ~SameName(new[i], orig[i])
    BY <2>4 DEF SameName
  <2> QED
    BY <2>2, <2>3, <2>4
<1>2. j \in Stops(orig, new, j)
  BY DEF Stops, SameData
<1>3. First(Stops(orig, new, j)) \in Stops(orig, new, j)
  BY <1>2, FirstLeast DEF Stops
<1>4. ASSUME NEW k \in Stops(orig, new, j) PROVE SameName(new[j], orig[k])
  BY DEF Stops, SameName
<1> QED
  BY <1>1, <1>2, <1>3, <1>4, OnUpdateList

-----------------------------------------------------------------------------
(* One entry changes.                                                      *)

\* No deleted entry of the sector shares its cluster and size with another
\* entry that is there.
Ghostfree(s) ==
    \A i, k \in Slots : (s[i].del /\ ~s[k].del /\ s[k].kind # "label") => ~SameData(s[i], s[k])

\* Two versions of a sector differ in slot j at most.
Differ(orig, new, j) == \A k \in Slots \ {j} : new[k] = orig[k]

\* The lists that name slot j alone, and none.
Only(j) == [i \in Slots |-> IF i = j THEN j ELSE 0]
Nothing == [i \in Slots |-> 0]

\* A slot that did not change, in a sector without ghosts, is on neither list.
LEMMA OthersOffLists ==
    ASSUME NEW orig \in Sector, NEW new \in Sector, NEW i \in Slots,
           new[i] = orig[i],
           Ghostfree(orig)
    PROVE  /\ difference_of_dir_entry(orig, new, TRUE).del[i] = 0
           /\ i \notin difference_of_dir_entry(orig, new, TRUE).upd
<1> DEFINE d == difference_of_dir_entry(orig, new, TRUE)
<1>1. new[i] = orig[i]
  OBVIOUS
<1>2. d.del[i] = 0
  <2> SUFFICES ASSUME d.del[i] # 0 PROVE FALSE
    OBVIOUS
  <2>1. \/ new[i].del /\ d.del[i] \in DeletedBy(orig, new, i)
        \/ ~new[i].del /\ d.del[i] = i /\ ~SameName(new[i], orig[i])
    BY OnDeleteList
  <2> HIDE DEF d
  <2>2. ~SameName(new[i], orig[i]) => FALSE
    BY <1>1 DEF SameName
  <2>3. CASE new[i].del /\ d.del[i] \in DeletedBy(orig, new, i)
    <3>1. PICK k \in Slots : k \in DeletedBy(orig, new, i)
      BY <2>3 DEF DeletedBy
    <3>2. /\ orig[k].kind # "label" /\ ~orig[k].del
          /\ SameData(orig[i], orig[k]) \/ i = k
      BY <1>1, <3>1 DEF DeletedBy
    <3>3. orig[i].del
      BY <1>1, <2>3
    <3> QED
      BY <3>2, <3>3 DEF Ghostfree
  <2> QED
    BY <2>1, <2>2, <2>3
<1>3. ASSUME i \in d.upd PROVE FALSE
  <2>1. Comparable(new[i]) /\ ~new[i].del
    BY <1>3, OnUpdateList
  <2>2. i \in Stops(orig, new, i)
    BY <1>1, <2>1 DEF Stops, SameData
  <2>3. First(Stops(orig, new, i)) \in Stops(orig, new, i)
    BY <2>2, FirstLeast DEF Stops
  <2>4. ASSUME NEW k \in Stops(orig, new, i) PROVE SameName(new[i], orig[k])
    BY <1>1 DEF Stops, SameName
  <2> QED
    BY <1>3, <2>2, <2>3, <2>4, OnUpdateList
<1> QED
  BY <1>2, <1>3

\* Deleting a file puts that file on the delete list and nothing on a list
\* besides it, when no other file shares its first cluster and size.
THEOREM DeleteIsExact ==
    ASSUME NEW orig \in Sector, NEW new \in Sector, NEW j \in Slots,
           Comparable(orig[j]), ~orig[j].del, orig[j].size # 0,
           Differ(orig, new, j), new[j] = [orig[j] EXCEPT !.del = TRUE, !.name = NoName],
           \A k \in Slots \ {j} : (~orig[k].del /\ orig[k].kind # "label")
                                        => ~SameData(orig[j], orig[k]),
           Ghostfree(orig)
    PROVE  LET d == difference_of_dir_entry(orig, new, TRUE)
           IN  d.del = Only(j) /\ d.upd = {}
<1> DEFINE d == difference_of_dir_entry(orig, new, TRUE)
           gone == [orig[j] EXCEPT !.del = TRUE, !.name = NoName]
<1>1. /\ new[j] = gone
      /\ gone.del /\ gone.size # 0 /\ Comparable(gone) /\ SameData(gone, orig[j])
      /\ \A e : SameData(gone, e) => SameData(orig[j], e)
  BY DEF Sector, Entry, Comparable, SameData
<1> HIDE DEF gone
<1>2. DeletedBy(orig, new, j) = {j}
  <2>1. j \in DeletedBy(orig, new, j)
    BY <1>1 DEF DeletedBy, Comparable
  <2>2. ASSUME NEW k \in DeletedBy(orig, new, j), k # j PROVE FALSE
    <3>1. /\ k \in Slots \ {j} /\ ~orig[k].del /\ orig[k].kind # "label"
          /\ SameData(gone, orig[k])
      BY <1>1, <2>2 DEF DeletedBy
    <3> QED
      BY <1>1, <3>1
  <2> QED
    BY <2>1, <2>2
<1>3. First({j}) = j
  BY FirstLeast
<1>4. d.del[j] = j
  BY <1>1, <1>2, <1>3 DEF difference_of_dir_entry
<1>5. j \notin d.upd
  BY <1>1, OnUpdateList
<1>6. ASSUME NEW i \in Slots, i # j PROVE d.del[i] = 0 /\ i \notin d.upd
  BY <1>6, OthersOffLists DEF Differ
<1>7. /\ d.upd \subseteq Slots
      /\ d.del = [i \in Slots |-> d.del[i]]
  BY DEF difference_of_dir_entry
<1> HIDE DEF d
<1>8. d.del = Only(j)
  BY <1>4, <1>6, <1>7 DEF Only
<1>9. d.upd = {}
  BY <1>5, <1>6, <1>7
<1> QED
  BY <1>8, <1>9 DEF d

\* A rename in place, as Windows does it, puts the entry on both lists and
\* nothing else on any: the file is removed under its old name and written
\* under the new one.  It takes a new short name: see the run AliasRename.
THEOREM RenameIsExact ==
    ASSUME NEW orig \in Sector, NEW new \in Sector, NEW j \in Slots, NEW n \in Names,
           Comparable(orig[j]), ~orig[j].del, orig[j].name # NoName, n # NoName,
           ShortOf[n] # ShortOf[orig[j].name],
           Differ(orig, new, j), new[j] = [orig[j] EXCEPT !.name = n],
           \A k \in Slots \ {j} : Comparable(orig[k]) => ~SameData(orig[j], orig[k]),
           Ghostfree(orig)
    PROVE  LET d == difference_of_dir_entry(orig, new, TRUE)
           IN  d.del = Only(j) /\ d.upd = {j}
<1> DEFINE d == difference_of_dir_entry(orig, new, TRUE)
           kept == [orig[j] EXCEPT !.name = n]
<1>1. /\ new[j] = kept
      /\ ~kept.del /\ Comparable(kept) /\ SameData(kept, orig[j])
      /\ ~SameName(kept, orig[j])
      /\ \A e : SameData(kept, e) => SameData(orig[j], e)
  BY DEF Sector, Entry, Comparable, SameData, SameName
<1> HIDE DEF kept
<1>2. Stops(orig, new, j) = {j}
  <2>1. j \in Stops(orig, new, j)
    BY <1>1 DEF Stops
  <2>2. ASSUME NEW k \in Stops(orig, new, j), k # j PROVE FALSE
    <3>1. k \in Slots \ {j} /\ Comparable(orig[k]) /\ SameData(kept, orig[k])
      BY <1>1, <2>2 DEF Stops
    <3> QED
      BY <1>1, <3>1
  <2> QED
    BY <2>1, <2>2
<1>3. First({j}) = j /\ j <= j
  BY FirstLeast DEF Slots
<1>4. d.del[j] = j
  <2>1. {k \in {j} : /\ k = j
                     /\ ~SameName(new[j], orig[j])
                     /\ \A m \in {j} : j <= m} = {j}
    BY <1>1, <1>3
  <2> QED
    BY <1>1, <1>2, <1>3, <2>1 DEF difference_of_dir_entry
<1>5. j \in d.upd
  BY <1>1, <1>2, <1>3, OnUpdateList
<1>6. ASSUME NEW i \in Slots, i # j PROVE d.del[i] = 0 /\ i \notin d.upd
  BY <1>6, OthersOffLists DEF Differ
<1>7. /\ d.upd \subseteq Slots
      /\ d.del = [i \in Slots |-> d.del[i]]
  BY DEF difference_of_dir_entry
<1> HIDE DEF d
<1>8. d.del = Only(j)
  BY <1>4, <1>6, <1>7 DEF Only
<1>9. d.upd = {j}
  BY <1>5, <1>6, <1>7
<1> QED
  BY <1>8, <1>9 DEF d

\* A file that gets another chain or another length in its slot is written
\* again, and no file is removed, when no other entry has its new data.
THEOREM RewriteIsExact ==
    ASSUME NEW orig \in Sector, NEW new \in Sector, NEW j \in Slots,
           NEW c \in Cluster, NEW n \in Nat,
           Comparable(orig[j]), ~orig[j].del,
           Differ(orig, new, j), new[j] = [orig[j] EXCEPT !.clus = c, !.size = n],
           \A k \in Slots : Comparable(orig[k]) => ~SameData(new[j], orig[k]),
           Ghostfree(orig)
    PROVE  LET d == difference_of_dir_entry(orig, new, TRUE)
           IN  d.del = Nothing /\ d.upd = {j}
<1> DEFINE d == difference_of_dir_entry(orig, new, TRUE)
           kept == [orig[j] EXCEPT !.clus = c, !.size = n]
<1>1. /\ new[j] = kept
      /\ ~kept.del /\ Comparable(kept)
  BY DEF Sector, Entry, Comparable
<1> HIDE DEF kept
<1>2. Stops(orig, new, j) = {}
  BY DEF Stops
<1>3. d.del[j] = 0
  BY <1>1, <1>2 DEF difference_of_dir_entry
<1>4. j \in d.upd
  BY <1>1, <1>2, OnUpdateList
<1>5. ASSUME NEW i \in Slots, i # j PROVE d.del[i] = 0 /\ i \notin d.upd
  BY <1>5, OthersOffLists DEF Differ
<1>6. /\ d.upd \subseteq Slots
      /\ d.del = [i \in Slots |-> d.del[i]]
  BY DEF difference_of_dir_entry
<1> HIDE DEF d
<1>7. d.del = Nothing
  BY <1>3, <1>5, <1>6 DEF Nothing
<1>8. d.upd = {j}
  BY <1>4, <1>5, <1>6
<1> QED
  BY <1>7, <1>8 DEF d

-----------------------------------------------------------------------------
\* What littlefs_write leaves in a file does not depend on what was in it:
\* the first n blocks of the chain, whatever the file's old length.
THEOREM CommitForgets ==
    ASSUME NEW old \in Seq(Block), NEW data \in Seq(Block), NEW n \in 0..Len(data)
    PROVE  Truncate(Overlay(old, data), n) = [k \in 1..n |-> data[k]]
<1> DEFINE m == IF Len(data) > Len(old) THEN Len(data) ELSE Len(old)
           both == Overlay(old, data)
<1>1. /\ m \in Nat /\ n \in Nat /\ n <= Len(data) /\ Len(data) <= m
  OBVIOUS
<1>2. both = [k \in 1..m |-> IF k <= Len(data) THEN data[k] ELSE old[k]]
  BY DEF Overlay
<1> HIDE DEF m, both
<1>3. Len(both) = m /\ \A k \in 1..n : k <= m /\ both[k] = data[k]
  BY <1>1, <1>2
<1> QED
  BY <1>1, <1>3 DEF Truncate, both

\* The ".." of a directory mkdir leaves in its cluster leads to the parent:
\* the root is written as cluster 0 there and read back as the root.
THEOREM BlankLeadsBack ==
    ASSUME NEW c \in Cluster, NEW parent \in Cluster \ {0}
    PROVE  ParentOf(BlankDirectory(c, parent)) = parent
<1> DEFINE s == BlankDirectory(c, parent)
           hits == {i \in Seen(s) : s[i].kind = "dotdot"}
<1>1. 1 \in Slots /\ 2 \in Slots
  BY SlotAssumption DEF Slots
<1>2. /\ s[1].kind = "dot" /\ s[2].kind = "dotdot"
      /\ s[2].clus = IF parent = Root THEN 0 ELSE parent
      /\ \A i \in Slots \ {1, 2} : s[i].kind = "blank"
  BY <1>1 DEF BlankDirectory, entry, Blank
<1> HIDE DEF s
<1>3. 2 \in Seen(s)
  BY <1>1, <1>2 DEF Seen, Slots
<1>4. hits = {2}
  BY <1>2, <1>3 DEF Seen
<1>5. First({2}) = 2
  BY <1>1, FirstLeast
<1>6. ParentOf(s) = IF s[2].clus = 0 THEN Root ELSE s[2].clus
  BY <1>2, <1>3, <1>4, <1>5 DEF ParentOf
<1> QED
  BY <1>2, <1>6 DEF s, Root

-----------------------------------------------------------------------------
(* The chain a host follows.                                               *)

ChainsBy(h, f) ==
    \A left \in 0..NumClusters : \A at \in Cluster :
        h[left][at] = IF left = 0 \/ at < 2 THEN <<>>
                      ELSE IF EndsChain(f[at]) \/ f[at] \notin Cluster THEN <<at>>
                      ELSE <<at>> \o h[left - 1][f[at]]

\* A chain is the value of a function of the bound that unfolds a cluster at a time.
LEMMA ChainUnfolds ==
    ASSUME NEW f
    PROVE  \E h : ChainsBy(h, f) /\ \A c : ChainOf(f, c) = h[NumClusters][c]
<1> DEFINE S == [Cluster -> Seq(Cluster)]
           Value(g, at) == IF at < 2 THEN <<>>
                           ELSE IF EndsChain(f[at]) \/ f[at] \notin Cluster THEN <<at>>
                           ELSE <<at>> \o g[f[at]]
           zero == [at \in Cluster |-> <<>>]
           Turn(g) == [at \in Cluster |-> Value(g, at)]
           step == [k \in 1..NumClusters |-> [g \in S |-> Turn(g)]]
           body(g) ==
             [left \in 0..NumClusters |->
               [at \in Cluster |->
                 IF left = 0 \/ at < 2 THEN <<>>
                 ELSE IF EndsChain(f[at]) \/ f[at] \notin Cluster THEN <<at>>
                 ELSE <<at>> \o g[left - 1][f[at]]]]
           chain == CHOOSE g : g = body(g)
<1>1. NumClusters \in Nat
  BY ClusterAssumption
<1>2. zero \in S
  OBVIOUS
<1>3. ASSUME NEW g \in S PROVE Turn(g) \in S
  <2> SUFFICES ASSUME NEW at \in Cluster PROVE Value(g, at) \in Seq(Cluster)
    OBVIOUS
  <2>1. <<>> \in Seq(Cluster) /\ <<at>> \in Seq(Cluster)
    OBVIOUS
  <2>2. f[at] \in Cluster => <<at>> \o g[f[at]] \in Seq(Cluster)
    <3>1. f[at] \in Cluster => g[f[at]] \in Seq(Cluster)
      OBVIOUS
    <3> QED  BY <2>1, <3>1, ConcatProperties
  <2> QED  BY <2>1, <2>2
<1>4. step \in [1..NumClusters -> [S -> S]]
  <2> HIDE DEF S, Turn
  <2> QED  BY <1>3
<1>5. PICK h : Iterates(h, NumClusters, S, zero, step)
  <2> HIDE DEF S, zero, step
  <2> QED  BY <1>1, <1>2, <1>4, Recursion
<1>6. ASSUME NEW n \in 0..NumClusters
      PROVE  h[n] = IF n = 0 THEN zero ELSE Turn(h[n - 1])
  <2> HIDE DEF S, zero, Turn
  <2>1. h \in [0..NumClusters -> S] /\ h[0] = zero
    BY <1>1, <1>5 DEF Iterates
  <2>2. ASSUME n # 0 PROVE h[n] = Turn(h[n - 1])
    <3>1. n \in 1..NumClusters /\ n - 1 \in 0..NumClusters
      BY <1>1, <2>2
    <3>2. h[n] = step[n][h[n - 1]] /\ h[n - 1] \in S
      BY <1>5, <2>1, <3>1 DEF Iterates
    <3> QED  BY <3>1, <3>2
  <2> QED  BY <2>1, <2>2
<1>7. h = body(h)
  <2>1. ASSUME NEW n \in 0..NumClusters PROVE h[n] = body(h)[n]
    <3>1. CASE n = 0  BY <1>6, <3>1
    <3>2. CASE n # 0
      <4>1. h[n] = [at \in Cluster |-> Value(h[n - 1], at)]
        BY <1>6, <3>2
      <4> QED  BY <3>2, <4>1
    <3> QED  BY <3>1, <3>2
  <2>2. h = [n \in 0..NumClusters |-> h[n]]
    <3> HIDE DEF S, zero, step
    <3> QED  BY <1>5 DEF Iterates
  <2>3. body(h) = [n \in 0..NumClusters |-> body(h)[n]]
    OBVIOUS
  <2> HIDE DEF body
  <2> QED  BY <2>1, <2>2, <2>3
<1>8. chain = body(chain)
  <2> HIDE DEF body
  <2> QED  BY <1>7
<1>9. \A c : ChainOf(f, c) = chain[NumClusters][c]
  BY DEF ChainOf
<1>10. ASSUME NEW n \in 0..NumClusters, NEW at \in Cluster
       PROVE  chain[n][at] = IF n = 0 \/ at < 2 THEN <<>>
                             ELSE IF EndsChain(f[at]) \/ f[at] \notin Cluster THEN <<at>>
                             ELSE <<at>> \o chain[n - 1][f[at]]
  <2> HIDE DEF chain
  <2>1. chain[n][at] = body(chain)[n][at]
    BY <1>8
  <2> QED  BY <2>1
<1>11. ChainsBy(chain, f)
  <2> HIDE DEF chain
  <2> QED  BY <1>10 DEF ChainsBy
<1> HIDE DEF chain
<1> QED  BY <1>9, <1>11
=============================================================================
