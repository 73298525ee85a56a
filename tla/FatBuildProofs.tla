--------------------------- MODULE FatBuildProofs ---------------------------
(***************************************************************************)
(* What the cache builder allocates, for every tree, every order of the    *)
(* names in it and every size of disk and sector.  The inductive invariant *)
(* says what ChainsApart does not: everything placed so far lies below the *)
(* counter, so whatever comes next takes clusters nobody has.  Then what   *)
(* the directories list and where their sectors are.                       *)
(***************************************************************************)
EXTENDS FatBuild, FatTreeProofs, FiniteSetTheorems

ShownNames == {Shown.file[n] : n \in Names} \union {Shown.dir[n] : n \in Names} \union {NoName}
ListEntry  == [kind : Kinds, name : ShownNames, del : BOOLEAN, clus : Nat, size : Nat]
Call       == [path : Seq(Names), cluster : Nat, left : SUBSET Names]

\* A listing as the builder makes them: arrays for clusters up to a.
IsListing(L, a) == /\ L \in [DOMAIN L -> Seq(ListEntry)]
                   /\ DOMAIN L \subseteq 1..a
Within(L, a) == \A c \in DOMAIN L : \A i \in 1..Len(L[c]) : Extent(L[c][i]) \subseteq 2..a
Apart(L) ==
    \A c, d \in DOMAIN L : \A i \in 1..Len(L[c]), j \in 1..Len(L[d]) :
        <<c, i>> # <<d, j>> => Extent(L[c][i]) \intersect Extent(L[d][j]) = {}
\* Every entry of M is one of L, has the clusters E, or none.
Grown(M, L, E) ==
    \A c \in DOMAIN M : \A i \in 1..Len(M[c]) :
        \/ Extent(M[c][i]) \in {{}, E}
        \/ c \in DOMAIN L /\ i \in 1..Len(L[c]) /\ M[c][i] = L[c][i]
Linked(f, E) == \A c \in E : f[c] = IF c + 1 \in E THEN c + 1 ELSE EOC
Whole(f, L) == \A c \in DOMAIN L : \A i \in 1..Len(L[c]) : Linked(f, Extent(L[c][i]))

\* D is an array of entries without clusters, and M is L with it at k.
TakesNone(D)  == D \in Seq(ListEntry) /\ \A i \in 1..Len(D) : Extent(D[i]) = {}
With(M, L, k, D) == /\ M \in [DOMAIN L \union {k} -> Seq(ListEntry)]
                    /\ \A c \in DOMAIN M : M[c] = IF c = k THEN D ELSE L[c]

Calls == /\ frames \in Seq(Call)
         /\ \A k \in 1..Len(frames) :
               /\ \A n \in frames[k].left : Append(frames[k].path, n) \in DOMAIN lfs
               /\ frames[k].cluster \in DOMAIN listing

BuildInv ==
    /\ lfs \in Trees
    /\ DOMAIN fat = Cluster
    /\ allocated \in Nat
    /\ allocated = 0 => listing = [c \in {} |-> <<>>]
    /\ IsListing(listing, allocated)
    /\ Calls
    /\ Within(listing, allocated)
    /\ Apart(listing)
    /\ Whole(fat, listing)

-----------------------------------------------------------------------------
(* Lemmas about listings and the table.                                    *)

\* The entry constructor gives entries of a listing.
LEMMA EntryType ==
    ASSUME NEW k \in Kinds, NEW n \in ShownNames, NEW c \in Nat, NEW s \in Nat
    PROVE  /\ entry(k, n, c, s) \in ListEntry
           /\ entry(k, n, c, s).kind = k
           /\ entry(k, n, c, s).clus = c
           /\ entry(k, n, c, s).size = s
BY DEF entry, ListEntry

\* An entry appended to the array of one directory keeps a listing, and what is
\* said of every entry, when it takes its clusters from above the counter.
LEMMA AppendKeeps ==
    ASSUME NEW L, NEW a \in Nat, NEW b \in Nat, a <= b, IsListing(L, a), Within(L, a), Apart(L),
           NEW t \in DOMAIN L, NEW e \in ListEntry, Extent(e) \subseteq (a + 1)..b, a >= 1
    PROVE  LET M == [L EXCEPT ![t] = Append(@, e)]
           IN  IsListing(M, b) /\ Within(M, b) /\ Apart(M) /\ Grown(M, L, Extent(e))
<1> DEFINE M == [L EXCEPT ![t] = Append(@, e)]
<1>1. /\ DOMAIN M = DOMAIN L
      /\ \A c \in DOMAIN L : L[c] \in Seq(ListEntry)
      /\ M[t] = Append(L[t], e)
      /\ \A c \in DOMAIN L : c # t => M[c] = L[c]
  BY DEF IsListing
<1>2. \A c \in DOMAIN M : M[c] \in Seq(ListEntry)
  <2> TAKE c \in DOMAIN M
  <2>1. CASE c = t  BY <1>1, <2>1
  <2>2. CASE c # t  BY <1>1, <2>2
  <2> QED  BY <2>1, <2>2
<1>3. IsListing(M, b)
  <2>1. M = [c \in DOMAIN M |-> M[c]]
    BY DEF IsListing
  <2>2. DOMAIN M \subseteq 1..b
    BY <1>1 DEF IsListing
  <2> QED  BY <1>2, <2>1, <2>2 DEF IsListing
<1>4. \A c \in DOMAIN M : \A i \in 1..Len(M[c]) :
         \/ c \in DOMAIN L /\ i \in 1..Len(L[c]) /\ M[c][i] = L[c][i]
         \/ c = t /\ i = Len(L[t]) + 1 /\ M[c][i] = e
  <2> TAKE c \in DOMAIN M
  <2> TAKE i \in 1..Len(M[c])
  <2>1. CASE c = t
    <3>1. Len(M[t]) = Len(L[t]) + 1 /\ Len(L[t]) \in Nat
      BY <1>1
    <3>2. CASE i = Len(L[t]) + 1  BY <1>1, <2>1, <3>1, <3>2
    <3>3. CASE i # Len(L[t]) + 1  BY <1>1, <2>1, <3>1, <3>3
    <3> QED  BY <3>2, <3>3
  <2>2. CASE c # t  BY <1>1, <2>2
  <2> QED  BY <2>1, <2>2
<1> HIDE DEF M
<1>5. Within(M, b)
  BY <1>4 DEF Within
<1>6. Apart(M)
  <2> SUFFICES ASSUME NEW c \in DOMAIN M, NEW d \in DOMAIN M,
                      NEW i \in 1..Len(M[c]), NEW j \in 1..Len(M[d]), <<c, i>> # <<d, j>>
               PROVE  Extent(M[c][i]) \intersect Extent(M[d][j]) = {}
    BY DEF Apart
  <2>1. (2..a) \intersect ((a + 1)..b) = {}
    OBVIOUS
  <2>2. CASE c \in DOMAIN L /\ i \in 1..Len(L[c]) /\ M[c][i] = L[c][i]
    <3>1. Extent(M[c][i]) \subseteq 2..a
      BY <2>2 DEF Within
    <3>2. CASE d \in DOMAIN L /\ j \in 1..Len(L[d]) /\ M[d][j] = L[d][j]
      BY <2>2, <3>2 DEF Apart
    <3>3. CASE M[d][j] = e  BY <2>1, <3>1, <3>3
    <3> QED  BY <1>4, <3>2, <3>3
  <2>3. CASE c = t /\ i = Len(L[t]) + 1 /\ M[c][i] = e
    <3>1. CASE d \in DOMAIN L /\ j \in 1..Len(L[d]) /\ M[d][j] = L[d][j]
      <4>1. Extent(M[d][j]) \subseteq 2..a
        BY <3>1 DEF Within
      <4> QED  BY <2>1, <2>3, <4>1
    <3>2. CASE d = t /\ j = Len(L[t]) + 1  BY <2>3, <3>2
    <3> QED  BY <1>4, <3>1, <3>2
  <2> QED  BY <1>4, <2>2, <2>3
<1>7. Grown(M, L, Extent(e))
  BY <1>4 DEF Grown
<1> QED  BY <1>3, <1>5, <1>6, <1>7 DEF M

\* A new array of entries without clusters keeps a listing.
LEMMA ArrayKeeps ==
    ASSUME NEW L, NEW b \in Nat, IsListing(L, b), Within(L, b), Apart(L),
           NEW k \in 1..b, NEW D, TakesNone(D), NEW M, With(M, L, k, D)
    PROVE  IsListing(M, b) /\ Within(M, b) /\ Apart(M) /\ Grown(M, L, {})
<1>1. IsListing(M, b)
  BY DEF IsListing, With
<1>2. \A c \in DOMAIN M : M[c] = D \/ (c \in DOMAIN L /\ M[c] = L[c])
  BY DEF With
<1>3. \A c \in DOMAIN M : \A i \in 1..Len(M[c]) :
         \/ Extent(M[c][i]) = {}
         \/ c \in DOMAIN L /\ i \in 1..Len(L[c]) /\ M[c][i] = L[c][i]
  BY <1>2 DEF TakesNone
<1>4. Within(M, b)
  BY <1>3 DEF Within
<1>5. Apart(M)
  BY <1>3, ZenonT(40) DEF Apart
<1>6. Grown(M, L, {})
  BY <1>3 DEF Grown
<1> QED  BY <1>1, <1>4, <1>5, <1>6

\* Both at once: an entry for a new directory, and its array.
LEMMA DirectoryKeeps ==
    ASSUME NEW L, NEW a \in Nat, a >= 1, IsListing(L, a), Within(L, a), Apart(L),
           NEW t \in DOMAIN L, NEW e \in ListEntry, Extent(e) = {a + 1},
           NEW D, TakesNone(D), NEW N, With(N, [L EXCEPT ![t] = Append(@, e)], a + 1, D)
    PROVE  /\ IsListing(N, a + 1) /\ Within(N, a + 1) /\ Apart(N)
           /\ DOMAIN L \subseteq DOMAIN N /\ a + 1 \in DOMAIN N
           /\ Grown(N, L, Extent(e))
<1> DEFINE M == [L EXCEPT ![t] = Append(@, e)]
<1>1. PICK b \in Nat : b = a + 1
  OBVIOUS
<1>2. a <= b /\ Extent(e) \subseteq (a + 1)..b /\ b \in 1..b
  BY <1>1
<1>3. IsListing(M, b) /\ Within(M, b) /\ Apart(M) /\ Grown(M, L, Extent(e))
  BY <1>2, AppendKeeps
<1>4. DOMAIN M = DOMAIN L /\ With(N, M, b, D)
  BY <1>1
<1> HIDE DEF M
<1>5. IsListing(N, b) /\ Within(N, b) /\ Apart(N) /\ Grown(N, M, {})
  BY <1>2, <1>3, <1>4, ArrayKeeps
<1>6. DOMAIN L \subseteq DOMAIN N /\ b \in DOMAIN N
  BY <1>4 DEF With
<1>7. Grown(N, L, Extent(e))
  BY <1>3, <1>5 DEF Grown
<1> QED  BY <1>1, <1>5, <1>6, <1>7

\* The chain bulk_update_fat stores, its stray byte included, leaves every
\* cluster below it as it was, and links its own.
LEMMA BulkChain ==
    ASSUME NEW f, DOMAIN f = Cluster, NEW start \in Nat, NEW n \in Nat, n > 0, start >= 2,
           start + n - 1 <= NumClusters
    PROVE  LET g == bulk_update_fat(f, start, n)
           IN  /\ DOMAIN g = Cluster
               /\ \A c \in 2..(start - 1) : g[c] = f[c]
               /\ Linked(g, start..(start + n - 1))
<1> DEFINE last == start + n - 1
           h == Chained(f, start, n)
           g == bulk_update_fat(f, start, n)
<1>1. \A c \in 2..(start - 1) : h[c] = f[c]
  BY ClusterAssumption DEF Chained, Cluster
<1>2. \A c \in start..last : h[c] = IF c + 1 \in start..last THEN c + 1 ELSE EOC
  BY ClusterAssumption DEF Chained, Cluster
<1>3. DOMAIN h = Cluster /\ DOMAIN g = Cluster
  BY DEF bulk_update_fat, Stray, Chained
<1>4. \A c \in Cluster : c <= last => g[c] = h[c]
  <2>1. g = Stray(h, last)
    BY DEF bulk_update_fat
  <2>2. SUFFICES ASSUME NEW c \in Cluster, c <= last PROVE g[c] = h[c]
    OBVIOUS
  <2>3. c # last + 1
    BY <2>2, ClusterAssumption DEF Cluster
  <2> HIDE DEF h, g, last
  <2> QED  BY <1>3, <2>1, <2>3 DEF Stray
<1> HIDE DEF h, g
<1>5. \A c \in 2..(start - 1) : g[c] = f[c]
  BY <1>1, <1>4, ClusterAssumption DEF Cluster
<1>6. Linked(g, start..last)
  BY <1>2, <1>4, ClusterAssumption DEF Linked, Cluster
<1> QED  BY <1>3, <1>5, <1>6 DEF g

\* A table that keeps the clusters up to a, and links the new ones, keeps every
\* chain of a listing.
LEMMA GrownWhole ==
    ASSUME NEW f, NEW g, NEW a \in Nat, \A c \in 2..a : g[c] = f[c],
           NEW L, Within(L, a), Whole(f, L), NEW E, Linked(g, E), NEW M, Grown(M, L, E)
    PROVE  Whole(g, M)
<1> SUFFICES ASSUME NEW c \in DOMAIN M, NEW i \in 1..Len(M[c])
             PROVE  Linked(g, Extent(M[c][i]))
  BY DEF Whole
<1>1. CASE Extent(M[c][i]) \in {{}, E}  BY <1>1 DEF Linked
<1>2. CASE c \in DOMAIN L /\ i \in 1..Len(L[c]) /\ M[c][i] = L[c][i]
  <2>1. Extent(L[c][i]) \subseteq 2..a /\ Linked(f, Extent(L[c][i]))
    BY <1>2 DEF Within, Whole
  <2> QED  BY <1>2, <2>1 DEF Linked
<1> QED  BY <1>1, <1>2 DEF Grown

\* The two entries of a new directory take no cluster.
LEMMA DotsTakeNone ==
    ASSUME NEW c \in Nat, NEW parent \in Nat
    PROVE  TakesNone(Dots(c, parent))
<1>1. entry("dot", NoName, c, 0) \in ListEntry /\ Extent(entry("dot", NoName, c, 0)) = {}
  BY EntryType DEF Extent, entry, Kinds, ShownNames
<1>2. PICK p \in Nat : p = (IF parent = Root THEN 0 ELSE parent)
  OBVIOUS
<1>3. entry("dotdot", NoName, p, 0) \in ListEntry /\ Extent(entry("dotdot", NoName, p, 0)) = {}
  BY EntryType DEF Extent, entry, Kinds, ShownNames
<1> QED  BY <1>1, <1>2, <1>3 DEF Dots, TakesNone

-----------------------------------------------------------------------------
(* The invariant.                                                          *)

\* Before the first mount nothing is placed.
LEMMA InitBuild == BuildInit => BuildInv
<1> SUFFICES ASSUME BuildInit PROVE BuildInv
  OBVIOUS
<1>1. DOMAIN listing = {} /\ listing \in [{} -> Seq(ListEntry)]
  BY DEF BuildInit
<1> QED
  BY <1>1 DEF BuildInit, BuildInv, EmptyFat, IsListing, Calls, Within, Apart, Whole

\* Mounting throws everything away.
LEMMA StartKeeps == BuildInv /\ StartBuild => BuildInv'
<1> SUFFICES ASSUME BuildInv, StartBuild PROVE BuildInv'
  OBVIOUS
<1> DEFINE label == entry("label", NoName, 0, 0)
<1>1. label \in ListEntry /\ Extent(label) = {}
  BY EntryType DEF Extent, entry, Kinds, ShownNames
<1> HIDE DEF label
<1>2. listing' = [c \in {Root} |-> <<label>>] /\ allocated' = 1
  BY DEF StartBuild, label
<1>3. \A c \in DOMAIN listing' : \A i \in 1..Len(listing'[c]) : Extent(listing'[c][i]) = {}
  BY <1>1, <1>2
<1>4. IsListing(listing', allocated')
  BY <1>1, <1>2 DEF IsListing, Root
<1>5. Within(listing', allocated') /\ Apart(listing') /\ Whole(fat', listing')
  BY <1>3 DEF Within, Apart, Whole, Linked
<1>6. Calls'
  <2> DEFINE call == [path |-> <<>>, cluster |-> Root, left |-> Children(<<>>)]
  <2>1. call \in Call /\ \A n \in call.left : Append(call.path, n) \in DOMAIN lfs
    BY DEF Call, Children, Kids, Root
  <2>2. frames' = <<call>>
    BY DEF StartBuild, Frame
  <2>3. call.cluster \in DOMAIN listing' /\ lfs' = lfs
    BY <1>2 DEF StartBuild
  <2> QED
    <3> HIDE DEF call
    <3>1. frames' \in Seq(Call) /\ Len(frames') = 1 /\ frames'[1] = call
      BY <2>1, <2>2
    <3> QED  BY <2>1, <2>3, <3>1 DEF Calls
<1> QED
  BY <1>2, <1>4, <1>5, <1>6 DEF BuildInv, StartBuild, EmptyFat

\* The call on top of the stack, and what the names it has left stand for.
LEMMA TopCall ==
    ASSUME BuildInv, frames # <<>>
    PROVE  /\ Top \in Call
           /\ Top.cluster \in DOMAIN listing
           /\ allocated >= 1
           /\ \A n \in Top.left : /\ Append(Top.path, n) \in DOMAIN lfs
                                  /\ \/ lfs[Append(Top.path, n)] = DIR
                                     \/ Len(lfs[Append(Top.path, n)]) \in Nat
<1>1. Len(frames) \in 1..Len(frames) /\ frames \in Seq(Call)
  BY DEF BuildInv, Calls
<1>2. Top \in Call /\ Top.cluster \in DOMAIN listing
      /\ \A n \in Top.left : Append(Top.path, n) \in DOMAIN lfs
  BY <1>1 DEF BuildInv, Calls, Top
<1>3. allocated >= 1
  BY <1>2 DEF BuildInv, IsListing
<1> QED  BY <1>2, <1>3, TreesAssumption DEF BuildInv

\* A name taken from the top call leaves the calls well formed, and so does a
\* call for a directory.
LEMMA CallsKept ==
    ASSUME BuildInv, frames # <<>>, NEW n \in Names, NEW L, DOMAIN listing \subseteq DOMAIN L
    PROVE  /\ Without(n) \in Seq(Call)
           /\ \A k \in 1..Len(Without(n)) :
                 /\ \A m \in Without(n)[k].left : Append(Without(n)[k].path, m) \in DOMAIN lfs
                 /\ Without(n)[k].cluster \in DOMAIN L
<1>1. frames \in Seq(Call) /\ Len(frames) \in Nat \ {0}
  BY DEF BuildInv, Calls
<1>2. Len(Without(n)) = Len(frames) /\ Without(n) \in Seq(Call)
  <2>1. frames[Len(frames)] \in Call
    BY <1>1
  <2>2. [frames[Len(frames)] EXCEPT !.left = @ \ {n}] \in Call
    BY <2>1 DEF Call
  <2> QED  BY <1>1, <2>2 DEF Without
<1>3. \A k \in 1..Len(frames) : /\ Without(n)[k].left \subseteq frames[k].left
                                /\ Without(n)[k].path = frames[k].path
                                /\ Without(n)[k].cluster = frames[k].cluster
  <2> TAKE k \in 1..Len(frames)
  <2>1. frames[k] \in Call
    BY <1>1
  <2>2. CASE k = Len(frames)  BY <1>1, <2>1, <2>2 DEF Without, Call
  <2>3. CASE k # Len(frames)  BY <1>1, <2>1, <2>3 DEF Without
  <2> QED  BY <2>2, <2>3
<1> QED  BY <1>2, <1>3 DEF BuildInv, Calls

\* An empty file takes no cluster; another takes those after the counter, one
\* more than its chain needs being counted.
LEMMA AddFileKeeps == ASSUME BuildInv, NEW n \in Names, AddFile(n) PROVE BuildInv'
<1> DEFINE size == Len(lfs[Append(Top.path, n)])
           first == allocated + 1
           e == IF size = 0 THEN entry("file", Shown.file[n], 0, 0)
                            ELSE entry("file", Shown.file[n], first, size)
           b == allocated'
<1>1. /\ size \in Nat
      /\ allocated \in Nat /\ allocated >= 1
      /\ Top.cluster \in DOMAIN listing
      /\ frames # <<>>
      /\ IsListing(listing, allocated) /\ Within(listing, allocated)
      /\ Apart(listing) /\ Whole(fat, listing) /\ DOMAIN fat = Cluster
  BY TopCall DEF AddFile, BuildInv
<1>2. first + size - 1 <= NumClusters
  BY DEF AddFile
<1>3. e \in ListEntry /\ e.kind = "file"
      /\ IF size = 0 THEN e.size = 0 ELSE e.clus = first /\ e.size = size
  BY <1>1, EntryType DEF Kinds, ShownNames
<1>4. listing' = [listing EXCEPT ![Top.cluster] = Append(@, e)]
  BY DEF AddFile, Listed
<1>5. b = IF size = 0 THEN allocated ELSE first + size + 1
  BY DEF AddFile, LastReserved
<1>6. fat' = IF size = 0 THEN fat ELSE bulk_update_fat(fat, first, size)
  BY DEF AddFile
<1>7. frames' = Without(n) /\ lfs' = lfs
  BY DEF AddFile
<1>8. Extent(e) = IF size = 0 THEN {} ELSE first..(first + size - 1)
  BY <1>1, <1>3 DEF Extent
<1> HIDE DEF size, e, first
<1>9. first = allocated + 1
  BY DEF first
<1>10. b \in Nat /\ allocated <= b /\ Extent(e) \subseteq (allocated + 1)..b
  BY <1>1, <1>5, <1>8, <1>9
<1>11. /\ IsListing(listing', b) /\ Within(listing', b) /\ Apart(listing')
       /\ Grown(listing', listing, Extent(e))
  <2> DEFINE M == [listing EXCEPT ![Top.cluster] = Append(@, e)]
  <2>1. IsListing(M, b) /\ Within(M, b) /\ Apart(M) /\ Grown(M, listing, Extent(e))
    <3> HIDE DEF b
    <3> QED  BY <1>1, <1>3, <1>10, AppendKeeps
  <2> QED  BY <1>4, <2>1
<1>12. /\ DOMAIN fat' = Cluster
       /\ \A c \in 2..allocated : fat'[c] = fat[c]
       /\ Linked(fat', Extent(e))
  <2>1. CASE size = 0  BY <1>1, <1>6, <1>8, <2>1 DEF Linked
  <2>2. CASE size # 0
    <3>1. LET g == bulk_update_fat(fat, first, size)
          IN  /\ DOMAIN g = Cluster
              /\ \A c \in 2..(first - 1) : g[c] = fat[c]
              /\ Linked(g, first..(first + size - 1))
      BY <1>1, <1>2, <1>9, <2>2, BulkChain
    <3>2. first - 1 = allocated
      BY <1>1, <1>9
    <3> QED  BY <1>6, <1>8, <2>2, <3>1, <3>2
  <2> QED  BY <2>1, <2>2
<1>13. Whole(fat', listing')
  BY <1>1, <1>11, <1>12, GrownWhole
<1>14. Calls'
  <2>1. DOMAIN listing \subseteq DOMAIN listing'
    BY <1>4
  <2> QED  BY <1>1, <1>7, <2>1, CallsKept DEF Calls
<1> QED  BY <1>1, <1>7, <1>10, <1>11, <1>12, <1>13, <1>14 DEF BuildInv

\* A directory takes the next cluster and gets an array of its own.
LEMMA AddDirectoryKeeps == ASSUME BuildInv, NEW n \in Names, AddDirectory(n) PROVE BuildInv'
<1> DEFINE c == allocated + 1
           e == entry("dir", Shown.dir[n], c, 0)
           D == Dots(c, Top.cluster)
           M == [listing EXCEPT ![Top.cluster] = Append(@, e)]
           N == listing'
           call == Frame(Append(Top.path, n), c)
<1>1. /\ allocated \in Nat /\ allocated >= 1
      /\ Top \in Call /\ Top.cluster \in DOMAIN listing
      /\ frames # <<>>
      /\ IsListing(listing, allocated) /\ Within(listing, allocated)
      /\ Apart(listing) /\ Whole(fat, listing) /\ DOMAIN fat = Cluster
  BY TopCall DEF AddDirectory, BuildInv
<1>2. c \in Nat /\ c <= NumClusters
  BY <1>1 DEF AddDirectory
<1>3. e \in ListEntry /\ Extent(e) = {c}
  <2>1. e \in ListEntry /\ e.kind = "dir" /\ e.clus = c
    BY <1>2, EntryType DEF Kinds, ShownNames
  <2> QED  BY <2>1 DEF Extent
<1>4. TakesNone(D)
  BY <1>1, <1>2, DotsTakeNone DEF Call
<1>5. allocated' = c /\ lfs' = lfs /\ fat' = [fat EXCEPT ![c] = EOC]
  BY DEF AddDirectory
<1>6. With(N, M, c, D)
  <2>1. N = [k \in DOMAIN listing \union {c} |-> IF k = c THEN D ELSE M[k]]
    BY DEF AddDirectory, Listed
  <2>2. DOMAIN M = DOMAIN listing /\ \A k \in DOMAIN M : M[k] \in Seq(ListEntry)
    BY <1>1, <1>3 DEF IsListing
  <2> HIDE DEF M, D, c
  <2>3. N \in [DOMAIN M \union {c} -> Seq(ListEntry)]
    BY <1>4, <2>1, <2>2 DEF TakesNone
  <2>4. \A k \in DOMAIN N : N[k] = IF k = c THEN D ELSE M[k]
    BY <2>1
  <2> QED  BY <2>3, <2>4 DEF With
<1>7. frames' = Append(Without(n), call)
  BY DEF AddDirectory
<1>8. call \in Call /\ call.cluster = c
      /\ \A m \in call.left : Append(call.path, m) \in DOMAIN lfs
  <2>1. Append(Top.path, n) \in Seq(Names)
    BY <1>1 DEF Call
  <2> QED  BY <1>2, <2>1 DEF Frame, Call, Children, Kids
<1> HIDE DEF e, D, call
<1>9. /\ IsListing(N, c) /\ Within(N, c) /\ Apart(N)
      /\ DOMAIN listing \subseteq DOMAIN N /\ c \in DOMAIN N
      /\ Grown(N, listing, Extent(e))
  BY <1>1, <1>3, <1>4, <1>6, DirectoryKeeps
<1>10. c = allocated + 1
  OBVIOUS
<1> HIDE DEF M, c
<1>11. DOMAIN fat' = Cluster /\ \A k \in 2..allocated : fat'[k] = fat[k]
  BY <1>1, <1>2, <1>5, <1>10 DEF Cluster
<1>12. Linked(fat', Extent(e))
  BY <1>1, <1>2, <1>3, <1>5 DEF Linked, Cluster
<1>13. Whole(fat', listing')
  BY <1>1, <1>9, <1>11, <1>12, GrownWhole
<1>14. Calls'
  <2> DEFINE W == Without(n)
  <2>1. /\ W \in Seq(Call)
        /\ \A k \in 1..Len(W) : /\ \A m \in W[k].left : Append(W[k].path, m) \in DOMAIN lfs
                                /\ W[k].cluster \in DOMAIN N
    BY <1>1, <1>9, CallsKept
  <2> HIDE DEF W
  <2>2. frames' = Append(W, call)
    BY <1>7 DEF W
  <2>3. /\ frames' \in Seq(Call) /\ Len(frames') = Len(W) + 1 /\ Len(W) \in Nat
        /\ \A k \in 1..Len(W) : frames'[k] = W[k]
        /\ frames'[Len(W) + 1] = call
    BY <1>8, <2>1, <2>2
  <2>4. ASSUME NEW k \in 1..Len(frames')
        PROVE  /\ \A m \in frames'[k].left : Append(frames'[k].path, m) \in DOMAIN lfs
               /\ frames'[k].cluster \in DOMAIN N
    <3>1. CASE k \in 1..Len(W)
      <4>1. frames'[k] = W[k]
        BY <2>3, <3>1
      <4> QED  BY <2>1, <3>1, <4>1
    <3>2. CASE k = Len(W) + 1
      <4>1. frames'[k] = call
        BY <2>3, <3>2
      <4> QED  BY <1>8, <1>9, <4>1
    <3> QED  BY <2>3, <3>1, <3>2
  <2> QED  BY <1>5, <2>3, <2>4 DEF Calls
<1> QED  BY <1>1, <1>2, <1>5, <1>9, <1>10, <1>11, <1>13, <1>14 DEF BuildInv

\* A call that returns leaves the others as they are.
LEMMA ReturnKeeps == ASSUME BuildInv, Return PROVE BuildInv'
<1>1. frames \in Seq(Call) /\ Len(frames) \in Nat \ {0}
  BY DEF BuildInv, Calls, Return
<1>2. frames' = SubSeq(frames, 1, Len(frames) - 1)
  BY DEF Return
<1>3. frames' \in Seq(Call) /\ Len(frames') = Len(frames) - 1
      /\ \A k \in 1..Len(frames') : frames'[k] = frames[k]
  <2> DEFINE m == Len(frames) - 1
  <2>1. m \in Nat /\ m <= Len(frames) /\ frames' = SubSeq(frames, 1, m)
    BY <1>1, <1>2
  <2> HIDE DEF m
  <2>2. Len(frames') = m /\ \A k \in 1..m : frames'[k] = frames[k]
    BY <1>1, <2>1
  <2>3. frames' \in Seq(Call)
    BY <1>1, <2>1
  <2> QED  BY <2>2, <2>3 DEF m
<1>4. UNCHANGED <<lfs, fat, listing, allocated>>
  BY DEF Return
<1>5. Calls'
  BY <1>1, <1>3, <1>4 DEF BuildInv, Calls
<1> QED  BY <1>4, <1>5 DEF BuildInv

\* A step that leaves the variables of the builder alone keeps its invariant.
LEMMA UnchangedKeeps ==
    ASSUME BuildInv, UNCHANGED <<lfs, fat, frames, listing, allocated>> PROVE BuildInv'
BY DEF BuildInv, Calls

\* BuildInv holds in every state of the builder.
THEOREM BuildInvariant == BuildSpec => []BuildInv
<1>1. BuildInv /\ [BuildNext]_builderVars => BuildInv'
  <2> SUFFICES ASSUME BuildInv, [BuildNext]_builderVars PROVE BuildInv'
    OBVIOUS
  <2>1. CASE StartBuild  BY <2>1, StartKeeps
  <2>2. ASSUME NEW n \in Names, AddFile(n) PROVE BuildInv'
    BY <2>2, AddFileKeeps
  <2>3. ASSUME NEW n \in Names, AddDirectory(n) PROVE BuildInv'
    BY <2>3, AddDirectoryKeeps
  <2>4. CASE Return  BY <2>4, ReturnKeeps
  <2>5. CASE Browse
    BY <2>5, UnchangedKeeps DEF Browse, Read, buildvars
  <2>6. CASE UNCHANGED builderVars
    BY <2>6, UnchangedKeeps DEF builderVars, vars, buildvars
  <2> QED  BY <2>1, <2>2, <2>3, <2>4, <2>5, <2>6 DEF BuildNext, BuildStep
<1> QED  BY <1>1, InitBuild, PTL DEF BuildSpec

\* However littlefs orders its names and however deep its directories are, no
\* two files or directories of a mount share a cluster, and none takes that of
\* the root or one the counter has not reached (create_dir_entry_cache).
THEOREM BuilderKeepsApart == BuildSpec => []ChainsApart
<1>1. BuildInv => ChainsApart
  <2> SUFFICES ASSUME BuildInv, NEW x \in Placed
               PROVE  /\ Extent(EntryOf(x)) \subseteq 2..allocated
                      /\ \A y \in Placed :
                            x # y => Extent(EntryOf(x)) \intersect Extent(EntryOf(y)) = {}
    BY DEF ChainsApart
  <2>1. PICK c \in DOMAIN listing : \E i \in 1..Len(listing[c]) : x = <<c, i>>
    BY DEF Placed
  <2>2. Extent(EntryOf(x)) \subseteq 2..allocated
    BY <2>1 DEF BuildInv, Within, EntryOf
  <2>3. ASSUME NEW y \in Placed, x # y
        PROVE  Extent(EntryOf(x)) \intersect Extent(EntryOf(y)) = {}
    <3>1. PICK d \in DOMAIN listing : \E j \in 1..Len(listing[d]) : y = <<d, j>>
      BY DEF Placed
    <3>2. PICK i \in 1..Len(listing[c]) : x = <<c, i>>
      BY <2>1
    <3>3. PICK j \in 1..Len(listing[d]) : y = <<d, j>>
      BY <3>1
    <3>4. <<c, i>> # <<d, j>>
      BY <2>3, <3>2, <3>3
    <3>5. Extent(listing[c][i]) \intersect Extent(listing[d][j]) = {}
      BY <3>4 DEF BuildInv, Apart
    <3> QED  BY <3>2, <3>3, <3>5 DEF EntryOf
  <2> QED  BY <2>2, <2>3
<1> QED  BY <1>1, BuildInvariant, PTL

\* What comes after a chain never breaks it: neither the chains of later files
\* nor the stray byte of bulk_update_fat, whatever the size of a sector.
THEOREM BuilderKeepsWhole == BuildSpec => []ChainsWhole
<1>1. BuildInv => ChainsWhole
  <2> SUFFICES ASSUME BuildInv, NEW x \in Placed, NEW k \in Extent(EntryOf(x))
               PROVE  fat[k] = IF k + 1 \in Extent(EntryOf(x)) THEN k + 1 ELSE EOC
    BY DEF ChainsWhole
  <2>1. PICK c \in DOMAIN listing : \E i \in 1..Len(listing[c]) : x = <<c, i>>
    BY DEF Placed
  <2>2. Linked(fat, Extent(EntryOf(x)))
    BY <2>1 DEF BuildInv, Whole, EntryOf
  <2> QED  BY <2>2 DEF Linked
<1> QED  BY <1>1, BuildInvariant, PTL

-----------------------------------------------------------------------------
(* What the cache builder lists, for every tree, every order of the names  *)
(* in it and every size of the disk: each name of each directory once, and *)
(* when it has ended, sectors that show the tree of littlefs.  The         *)
(* inductive invariant says where the sector of each directory visited is  *)
(* and what its array holds; no variable does, so it says that there is    *)
(* such a map.                                                             *)

\* The names of the directory at p that a call has still to list.
Remaining(fr, p) == {n \in Names : \E k \in 1..Len(fr) : fr[k].path = p /\ n \in fr[k].left}

\* The directories visited so far are directories of littlefs, and each is at a
\* cluster of its own, after those above it.
VisitedDirectories(P, place, t, li, a) ==
    /\ Situated(P, place)
    /\ \A p \in P : p # <<>> => p \in DOMAIN t /\ t[p] = DIR
    /\ DOMAIN li = {place[p] : p \in P}
    /\ \A p, q \in P : place[p] = place[q] => p = q
    /\ \A p \in P : Len(p) < place[p] /\ place[p] <= a

\* The calls go down one path.
Stacked(P, place, t, fr) ==
    \A k \in 1..Len(fr) :
        /\ fr[k].path \in P
        /\ fr[k].cluster = place[fr[k].path]
        /\ Len(fr[k].path) = k - 1
        /\ fr[k].left \subseteq Kids(t, fr[k].path)

\* A directory is visited when its name has been listed.
Entered(P, fr) ==
    \A p \in P : p # <<>> => p[Len(p)] \notin Remaining(fr, Parent(p))

\* The entry of a name, and the entries before the first.
RightEntry(P, place, t, p, e) ==
    LET q == Append(p, e.name)
    IN  \/ /\ t[q] = DIR /\ q \in P
           /\ e = entry("dir", e.name, place[q], 0)
        \/ /\ t[q] # DIR /\ Len(t[q]) = 0
           /\ e = entry("file", e.name, 0, 0)
        \/ /\ t[q] # DIR /\ Len(t[q]) > 0
           /\ e.clus \in 2..NumClusters /\ e.clus + Len(t[q]) - 1 <= NumClusters
           /\ e = entry("file", e.name, e.clus, Len(t[q]))

Begun(place, p, L) ==
    /\ Len(L) >= FirstSlot(p) - 1
    /\ p = <<>> => L[1] = entry("label", NoName, 0, 0)
    /\ p # <<>> => /\ L[1] = Dots(place[p], place[Parent(p)])[1]
                   /\ L[2] = Dots(place[p], place[Parent(p)])[2]

\* The array of a directory holds each of its names once, but for the rest.
Contents(P, place, t, p, rest, L) ==
    /\ Begun(place, p, L)
    /\ \A i \in FirstSlot(p)..Len(L) : /\ L[i].name \in Kids(t, p) \ rest
                                       /\ RightEntry(P, place, t, p, L[i])
    /\ \A n \in Kids(t, p) \ rest : \E i \in FirstSlot(p)..Len(L) : L[i].name = n
    /\ \A i, j \in FirstSlot(p)..Len(L) : L[i].name = L[j].name => i = j

AllContents(P, place, t, fr, li) ==
    \A p \in P : Contents(P, place, t, p, Remaining(fr, p), li[place[p]])

\* Calls that returned have saved their arrays.
Returned(P, place, fr, li, sav) ==
    /\ DOMAIN sav \subseteq {place[p] : p \in P}
    /\ \A p \in P : \/ \E k \in 1..Len(fr) : fr[k].path = p
                    \/ /\ place[p] \in DOMAIN sav
                       /\ sav[place[p]] = AsSector(li[place[p]])

Visited(P, place, t, fr, li, a, sav) ==
    /\ VisitedDirectories(P, place, t, li, a)
    /\ Stacked(P, place, t, fr)
    /\ Entered(P, fr)
    /\ AllContents(P, place, t, fr, li)
    /\ Returned(P, place, fr, li, sav)

TreeInv ==
    /\ allocated = 0 => frames = <<>> /\ DOMAIN tmp = {}
    /\ allocated # 0 => \E P, place : Visited(P, place, lfs, frames, listing, allocated, tmp)

-----------------------------------------------------------------------------
(* The stack of calls.                                                     *)

\* n is taken from what the last call has left.
Taken(fr, n, fr2) ==
    /\ Len(fr2) = Len(fr)
    /\ \A k \in 1..Len(fr) :
          /\ fr2[k].path = fr[k].path
          /\ fr2[k].cluster = fr[k].cluster
          /\ fr2[k].left = IF k = Len(fr) THEN fr[k].left \ {n} ELSE fr[k].left

\* Two calls of the stack are in different directories.
LEMMA StackPaths ==
    ASSUME NEW P, NEW place, NEW t, NEW fr, Len(fr) \in Nat, Stacked(P, place, t, fr),
           NEW k \in 1..Len(fr), NEW j \in 1..Len(fr), fr[k].path = fr[j].path
    PROVE  k = j
<1>1. Len(fr[k].path) = k - 1 /\ Len(fr[j].path) = j - 1
  BY DEF Stacked
<1>2. k \in Int /\ j \in Int /\ k - 1 = j - 1
  BY <1>1
<1> QED  BY <1>2

\* What remains of the directory of the call on top is what that call has left.
LEMMA TopRemains ==
    ASSUME NEW P, NEW place, NEW t, NEW fr \in Seq(Call), fr # <<>>, Stacked(P, place, t, fr)
    PROVE  Remaining(fr, fr[Len(fr)].path) = fr[Len(fr)].left
<1>1. Len(fr) \in Nat /\ Len(fr) \in 1..Len(fr) /\ fr[Len(fr)] \in Call
  OBVIOUS
<1>2. \A k \in 1..Len(fr) : fr[k].path = fr[Len(fr)].path => k = Len(fr)
  BY <1>1, StackPaths
<1>3. fr[Len(fr)].left \subseteq Names
  BY <1>1 DEF Call
<1> QED  BY <1>1, <1>2, <1>3 DEF Remaining

\* A name taken by the call on top remains no longer, and nothing else changes.
LEMMA TakenRemains ==
    ASSUME NEW P, NEW place, NEW t, NEW fr \in Seq(Call), fr # <<>>, Stacked(P, place, t, fr),
           NEW n, NEW fr2, Taken(fr, n, fr2)
    PROVE  /\ Stacked(P, place, t, fr2)
           /\ \A p : Remaining(fr2, p) = IF p = fr[Len(fr)].path THEN Remaining(fr, p) \ {n}
                                        ELSE Remaining(fr, p)
<1>1. Len(fr) \in Nat /\ Len(fr) \in 1..Len(fr)
  OBVIOUS
<1>2. \A k \in 1..Len(fr) : fr[k].path = fr[Len(fr)].path => k = Len(fr)
  BY <1>1, StackPaths
<1>3. Stacked(P, place, t, fr2)
  BY DEF Stacked, Taken
<1>4. ASSUME NEW p, p = fr[Len(fr)].path
      PROVE  Remaining(fr2, p) = Remaining(fr, p) \ {n}
  BY <1>1, <1>2, <1>4, ZenonT(40) DEF Remaining, Taken
<1>5. ASSUME NEW p, p # fr[Len(fr)].path
      PROVE  Remaining(fr2, p) = Remaining(fr, p)
  BY <1>1, <1>5 DEF Remaining, Taken
<1> QED  BY <1>3, <1>4, <1>5

AfterPush(fr, call) ==
    \A p : Remaining(Append(fr, call), p) = IF p = call.path THEN call.left ELSE Remaining(fr, p)

\* A call for a directory not yet visited leaves what remains of the others.
LEMMA PushedRemains ==
    ASSUME NEW P, NEW place, NEW t, NEW fr \in Seq(Call), Stacked(P, place, t, fr),
           NEW call \in Call, call.path \notin P
    PROVE  AfterPush(fr, call)
<1> DEFINE fr2 == Append(fr, call)
<1>1. /\ Len(fr2) = Len(fr) + 1 /\ Len(fr) \in Nat
      /\ \A k \in 1..Len(fr) : fr2[k] = fr[k]
      /\ fr2[Len(fr) + 1] = call
  OBVIOUS
<1> HIDE DEF fr2
<1>2. call.left \subseteq Names
  BY DEF Call
<1>3. \A k \in 1..Len(fr) : fr[k].path # call.path
  BY DEF Stacked
<1>4. ASSUME NEW p, NEW m \in Names
      PROVE  m \in Remaining(fr2, p) <=> m \in (IF p = call.path THEN call.left
                                               ELSE Remaining(fr, p))
  <2>1. (\E k \in 1..Len(fr2) : fr2[k].path = p /\ m \in fr2[k].left)
          <=> ((\E k \in 1..Len(fr) : fr[k].path = p /\ m \in fr[k].left)
                 \/ (call.path = p /\ m \in call.left))
    BY <1>1
  <2> QED  BY <1>3, <2>1 DEF Remaining
<1>5. ASSUME NEW p
      PROVE  Remaining(fr2, p) \subseteq Names /\ Remaining(fr, p) \subseteq Names
  BY DEF Remaining
<1>6. ASSUME NEW p
      PROVE  Remaining(fr2, p) = IF p = call.path THEN call.left ELSE Remaining(fr, p)
  <2>1. CASE p = call.path
    <3>1. \A m \in Names : m \in Remaining(fr2, p) <=> m \in call.left
      BY <1>4, <2>1
    <3> QED  BY <1>2, <1>5, <2>1, <3>1
  <2>2. CASE p # call.path
    <3>1. \A m \in Names : m \in Remaining(fr2, p) <=> m \in Remaining(fr, p)
      BY <1>4, <2>2
    <3> QED  BY <1>5, <2>2, <3>1
  <2> QED  BY <2>1, <2>2
<1> QED  BY <1>6 DEF fr2, AfterPush

\* A call that has no name left returns, and nothing else changes.
LEMMA PoppedRemains ==
    ASSUME NEW P, NEW place, NEW t, NEW fr \in Seq(Call), fr # <<>>, Stacked(P, place, t, fr),
           fr[Len(fr)].left = {}, NEW fr2, Len(fr2) = Len(fr) - 1,
           \A k \in 1..Len(fr2) : fr2[k] = fr[k]
    PROVE  /\ Stacked(P, place, t, fr2)
           /\ \A p : Remaining(fr2, p) = Remaining(fr, p)
<1>1. Len(fr) \in Nat \ {0}
  OBVIOUS
<1>2. Stacked(P, place, t, fr2)
  <2>1. \A k \in 1..Len(fr2) : k \in 1..Len(fr) /\ fr2[k] = fr[k]
    BY <1>1
  <2> QED  BY <2>1 DEF Stacked
<1>3. ASSUME NEW p PROVE Remaining(fr2, p) = Remaining(fr, p)
  <2>1. ASSUME NEW m \in Names
        PROVE  (\E k \in 1..Len(fr2) : fr2[k].path = p /\ m \in fr2[k].left)
                 <=> (\E k \in 1..Len(fr) : fr[k].path = p /\ m \in fr[k].left)
    BY <1>1
  <2> QED  BY <2>1 DEF Remaining
<1> QED  BY <1>2, <1>3

-----------------------------------------------------------------------------
(* The arrays.                                                             *)

\* An array that gets the entry of a name lacks that name no longer.
LEMMA ContentsAppend ==
    ASSUME NEW P, NEW place, NEW t, NEW p, NEW rest, NEW L \in Seq(ListEntry),
           Contents(P, place, t, p, rest, L),
           NEW n \in Kids(t, p), n \in rest, NEW e \in ListEntry, e.name = n,
           RightEntry(P, place, t, p, e)
    PROVE  Contents(P, place, t, p, rest \ {n}, Append(L, e))
<1> DEFINE M == Append(L, e)
           f == FirstSlot(p)
<1>1. /\ Len(M) = Len(L) + 1 /\ Len(L) \in Nat
      /\ \A k \in 1..Len(L) : M[k] = L[k]
      /\ M[Len(L) + 1] = e
  OBVIOUS
<1>2. f \in {2, 3} /\ Len(L) >= f - 1 /\ (p # <<>> => f = 3)
  BY DEF Contents, Begun, FirstSlot
<1> HIDE DEF M, f
<1>3. \A i \in f..Len(M) : \/ i \in f..Len(L) /\ M[i] = L[i]
                           \/ i = Len(L) + 1 /\ M[i] = e
  BY <1>1, <1>2
<1>4. Begun(place, p, M)
  <2>1. Len(M) >= f - 1 /\ M[1] = L[1] /\ (p # <<>> => M[2] = L[2])
    BY <1>1, <1>2
  <2> QED  BY <2>1 DEF Contents, Begun, f
<1>5. /\ \A i \in f..Len(L) : L[i].name \in Kids(t, p) \ rest /\ RightEntry(P, place, t, p, L[i])
      /\ \A m \in Kids(t, p) \ rest : \E i \in f..Len(L) : L[i].name = m
      /\ \A i, j \in f..Len(L) : L[i].name = L[j].name => i = j
  BY DEF Contents, f
<1>6. \A i \in f..Len(M) : M[i].name \in Kids(t, p) \ (rest \ {n}) /\ RightEntry(P, place, t, p, M[i])
  BY <1>3, <1>5
<1>7. ASSUME NEW m \in Kids(t, p) \ (rest \ {n}) PROVE \E i \in f..Len(M) : M[i].name = m
  <2>1. CASE m = n
    BY <1>1, <1>2, <2>1
  <2>2. CASE m # n
    <3>1. PICK i \in f..Len(L) : L[i].name = m
      BY <1>5, <2>2
    <3>2. i \in f..Len(M) /\ M[i] = L[i]
      BY <1>1, <1>2
    <3> QED  BY <3>1, <3>2
  <2> QED  BY <2>1, <2>2
<1>8. \A i, j \in f..Len(M) : M[i].name = M[j].name => i = j
  BY <1>3, <1>5
<1> QED  BY <1>4, <1>6, <1>7, <1>8 DEF Contents, M, f

-----------------------------------------------------------------------------
(* The steps of the builder.                                               *)

\* Directories once entered stay so while less remains.
LEMMA SmallerRest ==
    ASSUME NEW P, NEW fr, NEW fr2, Entered(P, fr),
           \A p : Remaining(fr2, p) \subseteq Remaining(fr, p)
    PROVE  Entered(P, fr2)
BY DEF Entered

\* The call on top, and the directory it lists.
LEMMA TopVisited ==
    ASSUME NEW P, NEW place, NEW t, NEW fr \in Seq(Call), NEW li, NEW a, NEW sav,
           Visited(P, place, t, fr, li, a, sav), fr # <<>>
    PROVE  LET top == fr[Len(fr)]
           IN  /\ top \in Call /\ top.path \in P /\ top.path \in Seq(Names)
               /\ top.cluster = place[top.path] /\ top.cluster \in DOMAIN li
               /\ Len(top.path) = Len(fr) - 1
               /\ top.left \subseteq Kids(t, top.path)
               /\ top.left = Remaining(fr, top.path)
<1> DEFINE top == fr[Len(fr)]
<1>1. Len(fr) \in Nat /\ Len(fr) \in 1..Len(fr) /\ top \in Call
  OBVIOUS
<1>2. /\ top.path \in P /\ top.cluster = place[top.path]
      /\ Len(top.path) = Len(fr) - 1 /\ top.left \subseteq Kids(t, top.path)
  BY <1>1 DEF Visited, Stacked
<1>3. top.cluster \in DOMAIN li /\ top.path \in Seq(Names)
  BY <1>2 DEF Visited, VisitedDirectories, Situated
<1>4. top.left = Remaining(fr, top.path)
  BY TopRemains DEF Visited
<1> QED  BY <1>1, <1>2, <1>3, <1>4

\* The entry of a file is put in the array of the call on top.
LEMMA VisitFile ==
    ASSUME NEW P, NEW place, NEW t, NEW fr \in Seq(Call), NEW li, NEW a \in Nat, NEW sav,
           Visited(P, place, t, fr, li, a, sav), fr # <<>>, IsListing(li, a),
           NEW n \in fr[Len(fr)].left, NEW fr2, Taken(fr, n, fr2),
           NEW e \in ListEntry, e.name = n, RightEntry(P, place, t, fr[Len(fr)].path, e),
           NEW b \in Nat, a <= b
    PROVE  Visited(P, place, t, fr2, [li EXCEPT ![fr[Len(fr)].cluster] = Append(@, e)], b, sav)
<1> DEFINE p0 == fr[Len(fr)].path
           c0 == fr[Len(fr)].cluster
           li2 == [li EXCEPT ![c0] = Append(@, e)]
<1>1. /\ p0 \in P /\ c0 = place[p0] /\ c0 \in DOMAIN li
      /\ n \in Kids(t, p0) /\ n \in Remaining(fr, p0)
  BY TopVisited
<1>2. /\ Stacked(P, place, t, fr2)
      /\ \A p : Remaining(fr2, p) = IF p = p0 THEN Remaining(fr, p) \ {n} ELSE Remaining(fr, p)
  BY TakenRemains DEF Visited
<1>3. /\ DOMAIN li2 = DOMAIN li
      /\ \A c \in DOMAIN li : li[c] \in Seq(ListEntry)
      /\ \A c \in DOMAIN li : li2[c] = IF c = c0 THEN Append(li[c], e) ELSE li[c]
  BY DEF IsListing
<1>4. \E k \in 1..Len(fr2) : fr2[k].path = p0
  <2>1. Len(fr) \in 1..Len(fr)
    OBVIOUS
  <2> QED  BY <2>1 DEF Taken
<1>5. /\ \A p \in P : place[p] \in DOMAIN li /\ (place[p] = c0 => p = p0)
      /\ \A p \in P : place[p] \in Nat /\ place[p] <= a
  BY <1>1, ClusterAssumption DEF Visited, VisitedDirectories, Situated, Cluster
<1> HIDE DEF li2, p0, c0
<1>6. VisitedDirectories(P, place, t, li2, b)
  <2>1. \A p \in P : place[p] <= b
    BY <1>5
  <2> QED  BY <1>3, <2>1 DEF Visited, VisitedDirectories
<1>7. Entered(P, fr2)
  BY <1>2, SmallerRest DEF Visited
<1>8. ASSUME NEW p \in P
      PROVE  Contents(P, place, t, p, Remaining(fr2, p), li2[place[p]])
  <2>1. Contents(P, place, t, p, Remaining(fr, p), li[place[p]])
    BY DEF Visited, AllContents
  <2>2. CASE p = p0
    <3>1. li2[place[p]] = Append(li[place[p]], e) /\ li[place[p]] \in Seq(ListEntry)
      BY <1>1, <1>3, <2>2
    <3>2. Remaining(fr2, p) = Remaining(fr, p) \ {n}
      BY <1>2, <2>2
    <3>3. RightEntry(P, place, t, p, e)
      BY <2>2 DEF p0
    <3> QED  BY <1>1, <2>1, <2>2, <3>1, <3>2, <3>3, ContentsAppend
  <2>3. CASE p # p0
    <3>1. li2[place[p]] = li[place[p]] /\ Remaining(fr2, p) = Remaining(fr, p)
      BY <1>2, <1>3, <1>5, <2>3
    <3> QED  BY <2>1, <3>1
  <2> QED  BY <2>2, <2>3
<1>9. Returned(P, place, fr2, li2, sav)
  <2>1. DOMAIN sav \subseteq {place[p] : p \in P}
    BY DEF Visited, Returned
  <2>2. ASSUME NEW p \in P
        PROVE  \/ \E k \in 1..Len(fr2) : fr2[k].path = p
               \/ place[p] \in DOMAIN sav /\ sav[place[p]] = AsSector(li2[place[p]])
    <3>1. CASE \E k \in 1..Len(fr) : fr[k].path = p
      BY <3>1 DEF Taken
    <3>2. CASE p = p0
      BY <1>4, <3>2
    <3>3. CASE p # p0 /\ ~ \E k \in 1..Len(fr) : fr[k].path = p
      <4>1. place[p] \in DOMAIN sav /\ sav[place[p]] = AsSector(li[place[p]])
        BY <3>3 DEF Visited, Returned
      <4>2. li2[place[p]] = li[place[p]]
        BY <1>3, <1>5, <3>3
      <4> QED  BY <4>1, <4>2
    <3> QED  BY <3>1, <3>2, <3>3
  <2> QED  BY <2>1, <2>2 DEF Returned
<1> QED  BY <1>2, <1>6, <1>7, <1>8, <1>9 DEF Visited, AllContents, li2, c0

\* What is said of the directories visited stays true when one more is.
LEMMA MoreDirectories ==
    ASSUME NEW P, NEW place, NEW P2, NEW place2, P \subseteq P2,
           \A p \in P : place2[p] = place[p],
           NEW t, NEW p \in P, p # <<>> => Parent(p) \in P, NEW rest, NEW L,
           Contents(P, place, t, p, rest, L)
    PROVE  Contents(P2, place2, t, p, rest, L)
<1>1. Begun(place2, p, L)
  BY DEF Contents, Begun
<1>2. \A e : RightEntry(P, place, t, p, e) => RightEntry(P2, place2, t, p, e)
  BY DEF RightEntry
<1> QED  BY <1>1, <1>2 DEF Contents

\* The array of a new directory: its dots.
LEMMA NewContents ==
    ASSUME NEW P, NEW place, NEW t, NEW p, p # <<>>
    PROVE  Contents(P, place, t, p, Kids(t, p), Dots(place[p], place[Parent(p)]))
<1> DEFINE L == Dots(place[p], place[Parent(p)])
<1>1. Len(L) = 2 /\ FirstSlot(p) = 3
  BY DEF Dots, FirstSlot
<1> HIDE DEF L
<1>2. FirstSlot(p)..Len(L) = {}
  BY <1>1
<1>3. Begun(place, p, L)
  BY <1>1 DEF Begun, L
<1> QED  BY <1>2, <1>3 DEF Contents, L

\* The array of c0 gets an entry, and c one of its own.
Grew(li, c0, e, c, li2) ==
    /\ DOMAIN li2 = DOMAIN li \union {c}
    /\ li2[c] = Dots(c, c0)
    /\ \A k \in DOMAIN li : li2[k] = IF k = c0 THEN Append(li[k], e) ELSE li[k]

\* The entry of a directory is put in that array, and its own call on the stack.
LEMMA VisitDirectory ==
    ASSUME NEW P, NEW place, NEW t, NEW fr \in Seq(Call), NEW li, NEW a \in Nat, NEW sav,
           Visited(P, place, t, fr, li, a, sav), fr # <<>>, IsListing(li, a),
           NEW n \in fr[Len(fr)].left, NEW fr2 \in Seq(Call), Taken(fr, n, fr2),
           NEW q, q = Append(fr[Len(fr)].path, n), q \in DOMAIN t, t[q] = DIR,
           NEW c, c = a + 1, c <= NumClusters,
           NEW call \in Call, call.path = q, call.cluster = c, call.left = Kids(t, q),
           NEW e \in ListEntry, e = entry("dir", n, c, 0),
           NEW li2, Grew(li, fr[Len(fr)].cluster, e, c, li2)
    PROVE  \E P2, place2 : Visited(P2, place2, t, Append(fr2, call), li2, c, sav)
<1> DEFINE p0 == fr[Len(fr)].path
           c0 == fr[Len(fr)].cluster
           P2 == P \union {q}
           place2 == [p \in P2 |-> IF p = q THEN c ELSE place[p]]
           fr3 == Append(fr2, call)
<1>1. /\ DOMAIN li2 = DOMAIN li \union {c} /\ li2[c] = Dots(c, c0)
      /\ \A k \in DOMAIN li : li2[k] = IF k = c0 THEN Append(li[k], e) ELSE li[k]
  BY DEF Grew
<1>2. /\ p0 \in P /\ p0 \in Seq(Names) /\ c0 = place[p0] /\ c0 \in DOMAIN li
      /\ n \in Kids(t, p0) /\ n \in Remaining(fr, p0) /\ n \in Names
      /\ Len(p0) = Len(fr) - 1 /\ Len(fr) \in Nat /\ Len(fr) \in 1..Len(fr)
  <2>1. Len(fr) \in Nat /\ Len(fr) \in 1..Len(fr)
    OBVIOUS
  <2>2. /\ p0 \in P /\ p0 \in Seq(Names) /\ c0 = place[p0] /\ c0 \in DOMAIN li
        /\ Len(p0) = Len(fr) - 1
        /\ fr[Len(fr)].left \subseteq Kids(t, p0)
        /\ fr[Len(fr)].left = Remaining(fr, p0)
    BY TopVisited
  <2>3. Kids(t, p0) \subseteq Names
    BY DEF Kids
  <2> QED  BY <2>1, <2>2, <2>3
<1>3. /\ Stacked(P, place, t, fr2)
      /\ \A p : Remaining(fr2, p) = IF p = p0 THEN Remaining(fr, p) \ {n} ELSE Remaining(fr, p)
  BY TakenRemains DEF Visited
<1>4. /\ q \in Seq(Names) /\ q # <<>> /\ Parent(q) = p0 /\ Len(q) = Len(p0) + 1 /\ q[Len(q)] = n
  BY <1>2, ParentOfAppend, SMTT(30)
<1>5. q \notin P
  <2> SUFFICES ASSUME q \in P PROVE FALSE
    OBVIOUS
  <2>1. q[Len(q)] \notin Remaining(fr, Parent(q))
    BY <1>4 DEF Visited, Entered
  <2> QED  BY <1>2, <1>4, <2>1
<1>6. /\ P \subseteq Seq(Names) /\ <<>> \in P
      /\ \A p \in P : p # <<>> => Parent(p) \in P
      /\ place[<<>>] = Root
      /\ \A p \in P : p # <<>> => p \in DOMAIN t /\ t[p] = DIR
      /\ DOMAIN li = {place[p] : p \in P}
      /\ \A p, r \in P : place[p] = place[r] => p = r
  BY DEF Visited, VisitedDirectories, Situated
<1>7. \A p \in P : place[p] \in Cluster /\ place[p] \in Nat /\ Len(p) < place[p] /\ place[p] <= a
                   /\ place[p] \in DOMAIN li
  BY <1>6, ClusterAssumption DEF Visited, VisitedDirectories, Situated, Cluster
<1>8. c \in Nat /\ c \in Cluster /\ c \notin DOMAIN li
  <2>1. c \in Nat /\ \A p \in P : place[p] # c
    BY <1>7
  <2> QED  BY <1>6, <2>1, ClusterAssumption DEF Cluster
<1>9. \A c1 \in DOMAIN li : li[c1] \in Seq(ListEntry)
  BY DEF IsListing
<1>10. e.name = n
  BY DEF entry
<1>11. P \subseteq P2 /\ \A p \in P : place2[p] = place[p]
  BY <1>5
<1>12. q \in P2 /\ place2[q] = c /\ DOMAIN place2 = P2
       /\ \A p \in P2 : p = q \/ p \in P
  OBVIOUS
<1>13. place2 \in [P2 -> Cluster]
  BY <1>7, <1>8
<1> HIDE DEF P2, place2, p0, c0
<1>14. Len(q) < c
  BY <1>2, <1>4, <1>7
<1>15. VisitedDirectories(P2, place2, t, li2, c)
  <2>1. Situated(P2, place2)
    <3>1. P2 \subseteq Seq(Names)
      BY <1>4, <1>6, <1>12
    <3>2. <<>> \in P2 /\ place2[<<>>] = Root
      BY <1>6, <1>11
    <3>3. \A p \in P2 : p # <<>> => Parent(p) \in P2
      BY <1>2, <1>4, <1>6, <1>11, <1>12
    <3> QED  BY <1>13, <3>1, <3>2, <3>3 DEF Situated
  <2>2. \A p \in P2 : p # <<>> => p \in DOMAIN t /\ t[p] = DIR
    BY <1>6, <1>12
  <2>3. DOMAIN li2 = {place2[p] : p \in P2}
    <3>1. \A x \in DOMAIN li2 : \E p \in P2 : x = place2[p]
      BY <1>1, <1>6, <1>11, <1>12
    <3>2. \A p \in P2 : place2[p] \in DOMAIN li2
      BY <1>1, <1>7, <1>11, <1>12
    <3> QED  BY <3>1, <3>2
  <2>4. \A p, r \in P2 : place2[p] = place2[r] => p = r
    <3> TAKE p, r \in P2
    <3>1. CASE p \in P /\ r \in P  BY <1>6, <1>11, <3>1
    <3>2. CASE p = q /\ r \in P
      <4>1. place2[p] = c /\ place2[r] = place[r] /\ place[r] \in DOMAIN li
        BY <1>7, <1>11, <1>12, <3>2
      <4> QED  BY <1>8, <4>1
    <3>3. CASE p \in P /\ r = q
      <4>1. place2[r] = c /\ place2[p] = place[p] /\ place[p] \in DOMAIN li
        BY <1>7, <1>11, <1>12, <3>3
      <4> QED  BY <1>8, <4>1
    <3>4. CASE p = q /\ r = q  BY <3>4
    <3> QED  BY <1>12, <3>1, <3>2, <3>3, <3>4
  <2>5. \A p \in P2 : Len(p) < place2[p] /\ place2[p] <= c
    <3> TAKE p \in P2
    <3>1. CASE p = q  BY <1>8, <1>12, <1>14, <3>1
    <3>2. CASE p \in P  BY <1>7, <1>11, <3>2
    <3> QED  BY <1>12, <3>1, <3>2
  <2> QED  BY <2>1, <2>2, <2>3, <2>4, <2>5 DEF VisitedDirectories
<1>16. /\ Len(fr3) = Len(fr2) + 1 /\ Len(fr2) = Len(fr)
       /\ \A k \in 1..Len(fr2) : fr3[k] = fr2[k]
       /\ fr3[Len(fr2) + 1] = call
  BY DEF Taken
<1>17. \A p : Remaining(fr3, p) = IF p = q THEN Kids(t, q) ELSE Remaining(fr2, p)
  <2>1. call.path \notin P
    BY <1>5
  <2>2. AfterPush(fr2, call)
    BY <1>3, <2>1, PushedRemains
  <2> QED  BY <2>2 DEF AfterPush
<1> HIDE DEF fr3
<1>18. Stacked(P2, place2, t, fr3)
  <2> SUFFICES ASSUME NEW k \in 1..Len(fr3)
               PROVE  /\ fr3[k].path \in P2
                      /\ fr3[k].cluster = place2[fr3[k].path]
                      /\ Len(fr3[k].path) = k - 1
                      /\ fr3[k].left \subseteq Kids(t, fr3[k].path)
    BY DEF Stacked
  <2>1. CASE k \in 1..Len(fr2)
    <3>1. /\ fr2[k].path \in P /\ fr2[k].cluster = place[fr2[k].path]
          /\ Len(fr2[k].path) = k - 1 /\ fr2[k].left \subseteq Kids(t, fr2[k].path)
      BY <1>3, <2>1 DEF Stacked
    <3> QED  BY <1>11, <1>16, <2>1, <3>1
  <2>2. CASE k = Len(fr2) + 1
    <3>1. fr3[k] = call /\ Len(q) = k - 1
      BY <1>2, <1>4, <1>16, <2>2
    <3> QED  BY <1>12, <3>1
  <2> QED  BY <1>2, <1>16, <2>1, <2>2
<1>19. Entered(P2, fr3)
  <2> SUFFICES ASSUME NEW p \in P2, p # <<>> PROVE p[Len(p)] \notin Remaining(fr3, Parent(p))
    BY DEF Entered
  <2>1. CASE p = q
    <3>1. Remaining(fr3, p0) = Remaining(fr, p0) \ {n}
      BY <1>2, <1>3, <1>5, <1>17
    <3> QED  BY <1>4, <2>1, <3>1
  <2>2. CASE p \in P
    <3>1. Parent(p) \in P /\ p[Len(p)] \notin Remaining(fr, Parent(p))
      BY <1>6, <2>2 DEF Visited, Entered
    <3>2. Remaining(fr3, Parent(p)) \subseteq Remaining(fr, Parent(p))
      BY <1>3, <1>5, <1>17, <3>1
    <3> QED  BY <3>1, <3>2
  <2> QED  BY <1>12, <2>1, <2>2
<1>20. ASSUME NEW p \in P2
       PROVE  Contents(P2, place2, t, p, Remaining(fr3, p), li2[place2[p]])
  <2>1. CASE p = q
    <3>1. place2[p] = c /\ place2[Parent(p)] = c0 /\ li2[c] = Dots(c, c0)
      BY <1>1, <1>2, <1>4, <1>11, <1>12, <2>1 DEF c0
    <3>2. Remaining(fr3, p) = Kids(t, p)
      BY <1>17, <2>1
    <3>3. Contents(P2, place2, t, p, Kids(t, p), Dots(place2[p], place2[Parent(p)]))
      BY <1>4, <2>1, NewContents
    <3> QED  BY <3>1, <3>2, <3>3
  <2>2. CASE p \in P
    <3>1. Contents(P, place, t, p, Remaining(fr, p), li[place[p]])
      BY <2>2 DEF Visited, AllContents
    <3>2. Contents(P2, place2, t, p, Remaining(fr, p), li[place[p]])
      <4>1. p # <<>> => Parent(p) \in P
        BY <1>6, <2>2
      <4> QED  BY <1>11, <2>2, <3>1, <4>1, MoreDirectories
    <3>3. p # q /\ Remaining(fr3, p) = Remaining(fr2, p) /\ place2[p] = place[p]
      BY <1>5, <1>11, <1>17, <2>2
    <3>4. CASE p = p0
      <4>1. li2[place[p]] = Append(li[place[p]], e) /\ li[place[p]] \in Seq(ListEntry)
        BY <1>1, <1>2, <1>9, <3>4 DEF c0
      <4>2. Remaining(fr2, p) = Remaining(fr, p) \ {n}
        BY <1>3, <3>4
      <4>3. RightEntry(P2, place2, t, p, e)
        <5>1. Append(p, e.name) = q /\ e = entry("dir", e.name, place2[q], 0)
          BY <1>10, <1>12, <3>4 DEF p0
        <5> QED  BY <1>12, <5>1 DEF RightEntry
      <4> QED  BY <1>2, <1>10, <3>2, <3>3, <3>4, <4>1, <4>2, <4>3, ContentsAppend
    <3>5. CASE p # p0
      <4>1. place[p] # c0
        BY <1>2, <1>6, <2>2, <3>5
      <4>2. li2[place[p]] = li[place[p]]
        BY <1>1, <1>7, <2>2, <4>1 DEF c0
      <4>3. Remaining(fr2, p) = Remaining(fr, p)
        BY <1>3, <3>5
      <4> QED  BY <3>2, <3>3, <4>2, <4>3
    <3> QED  BY <3>4, <3>5
  <2> QED  BY <1>12, <2>1, <2>2
<1>21. Returned(P2, place2, fr3, li2, sav)
  <2>1. DOMAIN sav \subseteq {place2[p] : p \in P2}
    <3>1. \A x \in DOMAIN sav : \E p \in P : x = place[p]
      BY DEF Visited, Returned
    <3> QED  BY <1>11, <3>1
  <2>2. ASSUME NEW p \in P2
        PROVE  \/ \E k \in 1..Len(fr3) : fr3[k].path = p
               \/ place2[p] \in DOMAIN sav /\ sav[place2[p]] = AsSector(li2[place2[p]])
    <3>1. CASE p = q
      <4>1. Len(fr2) + 1 \in 1..Len(fr3)
        BY <1>2, <1>16
      <4> QED  BY <1>16, <3>1, <4>1
    <3>2. CASE \E k \in 1..Len(fr) : fr[k].path = p
      <4>1. PICK k \in 1..Len(fr) : fr[k].path = p
        BY <3>2
      <4>2. k \in 1..Len(fr3) /\ fr3[k].path = p
        <5>1. fr2[k].path = fr[k].path
          BY <4>1 DEF Taken
        <5>2. k \in 1..Len(fr2) /\ k \in 1..Len(fr3)
          BY <1>2, <1>16
        <5> QED  BY <1>16, <4>1, <5>1, <5>2
      <4> QED  BY <4>2
    <3>3. CASE p \in P /\ ~ \E k \in 1..Len(fr) : fr[k].path = p
      <4>1. place[p] \in DOMAIN sav /\ sav[place[p]] = AsSector(li[place[p]])
        BY <3>3 DEF Visited, Returned
      <4>2. p # p0
        BY <1>2, <3>3 DEF p0
      <4>3. place[p] # c0
        BY <1>2, <1>6, <3>3, <4>2
      <4>4. li2[place[p]] = li[place[p]]
        BY <1>1, <1>7, <3>3, <4>3 DEF c0
      <4> QED  BY <1>11, <3>3, <4>1, <4>4
    <3> QED  BY <1>12, <3>1, <3>2, <3>3
  <2> QED  BY <2>1, <2>2 DEF Returned
<1>22. Visited(P2, place2, t, fr3, li2, c, sav)
  BY <1>15, <1>18, <1>19, <1>20, <1>21 DEF Visited, AllContents
<1> QED  BY <1>22 DEF fr3

\* The last call is popped, and its array saved.
Popped(fr, fr2) == Len(fr2) = Len(fr) - 1 /\ \A k \in 1..Len(fr2) : fr2[k] = fr[k]
Saved(sav, c, li, sav2) ==
    /\ DOMAIN sav2 = DOMAIN sav \union {c}
    /\ sav2[c] = AsSector(li[c])
    /\ \A k \in DOMAIN sav : k # c => sav2[k] = sav[k]

\* A call that returns saves its array.
LEMMA VisitReturn ==
    ASSUME NEW P, NEW place, NEW t, NEW fr \in Seq(Call), NEW li, NEW a \in Nat, NEW sav,
           Visited(P, place, t, fr, li, a, sav), fr # <<>>, fr[Len(fr)].left = {},
           NEW fr2, Popped(fr, fr2), NEW sav2, Saved(sav, fr[Len(fr)].cluster, li, sav2)
    PROVE  Visited(P, place, t, fr2, li, a, sav2)
<1> DEFINE p0 == fr[Len(fr)].path
           c0 == fr[Len(fr)].cluster
<1>1. /\ Len(fr2) = Len(fr) - 1 /\ \A k \in 1..Len(fr2) : fr2[k] = fr[k]
      /\ DOMAIN sav2 = DOMAIN sav \union {c0} /\ sav2[c0] = AsSector(li[c0])
      /\ \A k \in DOMAIN sav : k # c0 => sav2[k] = sav[k]
  BY DEF Popped, Saved
<1>2. p0 \in P /\ c0 = place[p0] /\ Len(fr) \in Nat \ {0}
  <2>1. p0 \in P /\ fr[Len(fr)].cluster = place[p0]
    <3>1. Len(fr) \in 1..Len(fr)
      OBVIOUS
    <3> QED  BY <3>1 DEF Visited, Stacked
  <2>2. Len(fr) \in Nat \ {0}
    OBVIOUS
  <2> QED  BY <2>1, <2>2
<1>3. Stacked(P, place, t, fr2) /\ \A p : Remaining(fr2, p) = Remaining(fr, p)
  BY <1>1, PoppedRemains DEF Visited
<1>4. Entered(P, fr2)
  BY <1>3 DEF Visited, Entered
<1>5. AllContents(P, place, t, fr2, li)
  BY <1>3 DEF Visited, AllContents
<1>6. Returned(P, place, fr2, li, sav2)
  <2>1. DOMAIN sav2 \subseteq {place[p] : p \in P}
    BY <1>1, <1>2 DEF Visited, Returned
  <2>2. ASSUME NEW p \in P
        PROVE  \/ \E k \in 1..Len(fr2) : fr2[k].path = p
               \/ place[p] \in DOMAIN sav2 /\ sav2[place[p]] = AsSector(li[place[p]])
    <3>1. CASE p = p0  BY <1>1, <1>2, <3>1
    <3>2. CASE p # p0 /\ \E k \in 1..Len(fr) : fr[k].path = p
      <4>1. PICK k \in 1..Len(fr) : fr[k].path = p
        BY <3>2
      <4>2. k # Len(fr)
        BY <3>2, <4>1
      <4>3. k \in 1..Len(fr2)
        BY <1>1, <1>2, <4>2
      <4> QED  BY <1>1, <4>1, <4>3
    <3>3. CASE ~ \E k \in 1..Len(fr) : fr[k].path = p
      <4>1. place[p] \in DOMAIN sav /\ sav[place[p]] = AsSector(li[place[p]])
        BY <3>3 DEF Visited, Returned
      <4> QED  BY <1>1, <4>1
    <3> QED  BY <3>1, <3>2, <3>3
  <2> QED  BY <2>1, <2>2 DEF Returned
<1> QED  BY <1>3, <1>4, <1>5, <1>6 DEF Visited

\* The walk starts with the root, and nothing listed but the label.
LEMMA VisitStart ==
    ASSUME NEW t, NEW li, DOMAIN li = {Root}, li[Root] = <<entry("label", NoName, 0, 0)>>,
           NEW fr, Len(fr) = 1, fr[1].path = <<>>, fr[1].cluster = Root,
           fr[1].left = Kids(t, <<>>), NEW sav, DOMAIN sav = {}
    PROVE  \E P, place : Visited(P, place, t, fr, li, 1, sav)
<1> DEFINE P == {<<>>}
           place == [p \in P |-> Root]
<1>1. /\ <<>> \in P /\ \A p \in P : p = <<>>
      /\ place[<<>>] = Root /\ place \in [P -> {Root}]
  OBVIOUS
<1>2. Root \in Cluster /\ Root = 1
  BY ClusterAssumption DEF Root, Cluster
<1> HIDE DEF P, place
<1>3. Situated(P, place)
  <2>1. P \subseteq Seq(Names)
    <3>1. <<>> \in Seq(Names)
      OBVIOUS
    <3> QED  BY <1>1, <3>1
  <2>2. place \in [P -> Cluster]
    BY <1>1, <1>2
  <2> QED  BY <1>1, <2>1, <2>2 DEF Situated
<1>4. VisitedDirectories(P, place, t, li, 1)
  <2>1. DOMAIN li = {place[p] : p \in P}
    BY <1>1
  <2>2. \A p \in P : Len(p) < place[p] /\ place[p] <= 1
    BY <1>1, <1>2
  <2> QED  BY <1>1, <1>3, <2>1, <2>2 DEF VisitedDirectories
<1>5. Remaining(fr, <<>>) = Kids(t, <<>>)
  <2>1. \A k \in 1..Len(fr) : k = 1
    OBVIOUS
  <2>2. 1 \in 1..Len(fr)
    OBVIOUS
  <2> QED  BY <2>1, <2>2 DEF Remaining, Kids
<1>6. Stacked(P, place, t, fr)
  <2>1. \A k \in 1..Len(fr) : k = 1
    OBVIOUS
  <2> QED  BY <1>1, <2>1 DEF Stacked
<1>7. Entered(P, fr)
  BY <1>1 DEF Entered
<1>8. AllContents(P, place, t, fr, li)
  <2> DEFINE L == li[Root]
  <2>1. Len(L) = 1 /\ L[1] = entry("label", NoName, 0, 0) /\ FirstSlot(<<>>) = 2
    BY DEF FirstSlot
  <2> HIDE DEF L
  <2>2. FirstSlot(<<>>)..Len(L) = {} /\ Begun(place, <<>>, L)
    BY <2>1 DEF Begun
  <2>3. Contents(P, place, t, <<>>, Kids(t, <<>>), L)
    BY <2>2 DEF Contents
  <2> QED  BY <1>1, <1>5, <2>3 DEF AllContents, L
<1>9. Returned(P, place, fr, li, sav)
  <2>1. 1 \in 1..Len(fr)
    OBVIOUS
  <2> QED  BY <1>1, <2>1 DEF Returned
<1> QED  BY <1>4, <1>6, <1>7, <1>8, <1>9 DEF Visited

-----------------------------------------------------------------------------
(* The invariant.                                                          *)

\* A turn of the loop takes its name from the call on top.
LEMMA WithoutTaken ==
    ASSUME BuildInv, frames # <<>>, NEW n \in Names
    PROVE  Without(n) \in Seq(Call) /\ Taken(frames, n, Without(n))
<1>1. frames \in Seq(Call) /\ Len(frames) \in Nat \ {0}
  BY DEF BuildInv, Calls
<1>2. Len(Without(n)) = Len(frames) /\ Without(n) \in Seq(Call)
  <2>1. frames[Len(frames)] \in Call
    BY <1>1
  <2>2. [frames[Len(frames)] EXCEPT !.left = @ \ {n}] \in Call
    BY <2>1 DEF Call
  <2> QED  BY <1>1, <2>2 DEF Without
<1>3. ASSUME NEW k \in 1..Len(frames)
      PROVE  /\ Without(n)[k].path = frames[k].path
             /\ Without(n)[k].cluster = frames[k].cluster
             /\ Without(n)[k].left = IF k = Len(frames) THEN frames[k].left \ {n}
                                                        ELSE frames[k].left
  <2>1. frames[k] \in Call
    BY <1>1
  <2>2. CASE k = Len(frames)  BY <1>1, <2>1, <2>2 DEF Without, Call
  <2>3. CASE k # Len(frames)  BY <1>1, <2>1, <2>3 DEF Without
  <2> QED  BY <2>2, <2>3
<1> QED  BY <1>2, <1>3 DEF Taken

\* The path of a name the top call has left.
LEMMA NextPath ==
    ASSUME NamesShown, BuildInv, frames # <<>>, NEW n \in Top.left
    PROVE  LET q == Append(Top.path, n)
           IN  /\ q \in DOMAIN lfs
               /\ lfs[q] = DIR => Shown.dir[n] = n
               /\ lfs[q] # DIR => Shown.file[n] = n /\ Len(lfs[q]) \in Nat
<1> DEFINE q == Append(Top.path, n)
<1>1. Top \in Call /\ q \in DOMAIN lfs /\ (lfs[q] = DIR \/ Len(lfs[q]) \in Nat)
  BY TopCall
<1>2. q[Len(q)] = n
  BY <1>1 DEF Call
<1>3. lfs \in Trees
  BY DEF BuildInv
<1> HIDE DEF q
<1> QED  BY <1>1, <1>2, <1>3 DEF NamesShown, q

\* Before the first mount nothing is built.
LEMMA InitTree == BuildInit => TreeInv
BY DEF BuildInit, TreeInv

\* The walk starts in the root.
LEMMA StartTree == ASSUME StartBuild PROVE TreeInv'
<1>1. /\ allocated' = 1 /\ lfs' = lfs
      /\ DOMAIN listing' = {Root} /\ listing'[Root] = <<entry("label", NoName, 0, 0)>>
      /\ DOMAIN tmp' = {}
  BY DEF StartBuild
<1>2. Len(frames') = 1 /\ frames'[1] = Frame(<<>>, Root)
  BY DEF StartBuild
<1>3. /\ frames'[1].path = <<>> /\ frames'[1].cluster = Root
      /\ frames'[1].left = Kids(lfs, <<>>)
  BY <1>2 DEF Frame, Children, Kids
<1>4. \E P, place : Visited(P, place, lfs, frames', listing', 1, tmp')
  BY <1>1, <1>2, <1>3, VisitStart
<1> QED  BY <1>1, <1>4 DEF TreeInv

\* A turn of the loop for a file keeps the invariant.
LEMMA FileTree ==
    ASSUME NamesShown, BuildInv, TreeInv, NEW n \in Names, AddFile(n)
    PROVE  TreeInv'
<1> DEFINE q == Append(Top.path, n)
           size == Len(lfs[q])
           first == allocated + 1
           e == IF size = 0 THEN entry("file", Shown.file[n], 0, 0)
                            ELSE entry("file", Shown.file[n], first, size)
<1>1. /\ frames # <<>> /\ n \in Top.left /\ lfs[q] # DIR
      /\ first + size - 1 <= NumClusters
      /\ frames' = Without(n) /\ lfs' = lfs /\ tmp' = tmp
      /\ listing' = [listing EXCEPT ![Top.cluster] = Append(@, e)]
      /\ allocated' = IF size = 0 THEN allocated ELSE first + size + 1
  BY DEF AddFile, Listed, LastReserved
<1>2. /\ frames \in Seq(Call) /\ allocated \in Nat /\ allocated >= 1
      /\ IsListing(listing, allocated)
  BY <1>1, TopCall DEF BuildInv, Calls
<1>3. Shown.file[n] = n /\ size \in Nat
  BY <1>1, NextPath
<1>4. PICK P, place : Visited(P, place, lfs, frames, listing, allocated, tmp)
  BY <1>2 DEF TreeInv
<1>5. first = allocated + 1
  OBVIOUS
<1>6. Taken(frames, n, Without(n))
  BY <1>1, WithoutTaken
<1>7. e \in ListEntry /\ e.name = n
  <2>1. Shown.file[n] \in ShownNames /\ "file" \in Kinds
    BY DEF ShownNames, Kinds
  <2>2. first \in Nat
    BY <1>2
  <2> HIDE DEF first, size
  <2> QED  BY <1>3, <2>1, <2>2, EntryType DEF entry
<1>8. RightEntry(P, place, lfs, Top.path, e)
  <2>1. Append(Top.path, e.name) = q
    BY <1>7
  <2>2. CASE size = 0
    <3>1. e = entry("file", e.name, 0, 0)
      BY <1>3, <1>7, <2>2
    <3> HIDE DEF e, q
    <3>2. Len(lfs[q]) = 0
      BY <2>2
    <3> QED  BY <1>1, <2>1, <3>1, <3>2 DEF RightEntry
  <2>3. CASE size # 0
    <3>1. e = entry("file", e.name, first, size) /\ e.clus = first
      BY <1>3, <1>7, <2>3 DEF entry
    <3>2. first \in 2..NumClusters /\ first + size - 1 <= NumClusters /\ size > 0
      <4> HIDE DEF first, size
      <4> QED  BY <1>1, <1>2, <1>3, <1>5, <2>3, ClusterAssumption
    <3>3. size = Len(lfs[q])
      OBVIOUS
    <3> HIDE DEF e, first, size, q
    <3> QED  BY <1>1, <2>1, <3>1, <3>2, <3>3 DEF RightEntry
  <2> QED  BY <2>2, <2>3
<1> HIDE DEF e, q, size, first
<1>9. allocated' \in Nat /\ allocated <= allocated' /\ allocated' # 0
  BY <1>1, <1>2, <1>3, <1>5
<1>10. Visited(P, place, lfs, Without(n), listing', allocated', tmp)
  BY <1>1, <1>2, <1>4, <1>6, <1>7, <1>8, <1>9, VisitFile DEF Top
<1> QED  BY <1>1, <1>9, <1>10 DEF TreeInv

\* A turn for a directory keeps it.
LEMMA DirectoryTree ==
    ASSUME NamesShown, BuildInv, TreeInv, NEW n \in Names, AddDirectory(n)
    PROVE  TreeInv'
<1> DEFINE q == Append(Top.path, n)
           c == allocated + 1
           e == entry("dir", n, c, 0)
           call == Frame(q, c)
           M == [listing EXCEPT ![Top.cluster] = Append(@, e)]
<1>1. /\ frames # <<>> /\ n \in Top.left /\ lfs[q] = DIR /\ c <= NumClusters
      /\ frames' = Append(Without(n), call) /\ lfs' = lfs /\ tmp' = tmp /\ allocated' = c
  BY DEF AddDirectory
<1>2. /\ frames \in Seq(Call) /\ allocated \in Nat /\ allocated >= 1
      /\ IsListing(listing, allocated) /\ Top \in Call /\ Top.cluster \in DOMAIN listing
  BY <1>1, TopCall DEF BuildInv, Calls
<1>3. q \in DOMAIN lfs /\ Shown.dir[n] = n
  BY <1>1, NextPath
<1>4. PICK P, place : Visited(P, place, lfs, frames, listing, allocated, tmp)
  BY <1>2 DEF TreeInv
<1>5. Taken(frames, n, Without(n)) /\ Without(n) \in Seq(Call)
  BY <1>1, WithoutTaken
<1>6. c \in Nat /\ c \notin DOMAIN listing
  BY <1>2 DEF IsListing
<1>7. e \in ListEntry
  <2>1. n \in ShownNames /\ "dir" \in Kinds
    BY <1>3 DEF ShownNames, Kinds
  <2> QED  BY <1>6, <2>1, EntryType
<1>8. call \in Call /\ call.path = q /\ call.cluster = c /\ call.left = Kids(lfs, q)
  <2>1. q \in Seq(Names)
    BY <1>2 DEF Call
  <2> HIDE DEF q
  <2> QED  BY <1>6, <2>1 DEF Frame, Call, Children, Kids
<1>9. listing' = [k \in DOMAIN listing \union {c} |->
                     IF k = c THEN Dots(c, Top.cluster) ELSE M[k]]
  BY <1>3 DEF AddDirectory, Listed
<1>10. \A k \in DOMAIN listing : M[k] = IF k = Top.cluster THEN Append(listing[k], e)
                                                          ELSE listing[k]
  OBVIOUS
<1> HIDE DEF M, e, call
<1>11. DOMAIN listing' = DOMAIN listing \union {c} /\ listing'[c] = Dots(c, Top.cluster)
  BY <1>9
<1>12. \A k \in DOMAIN listing : listing'[k] = IF k = Top.cluster THEN Append(listing[k], e)
                                                                  ELSE listing[k]
  BY <1>6, <1>9, <1>10
<1>13. e = entry("dir", n, c, 0) /\ c = allocated + 1 /\ q = Append(Top.path, n)
  BY DEF e
<1> HIDE DEF c, q
<1>14. Grew(listing, Top.cluster, e, c, listing')
  BY <1>11, <1>12 DEF Grew
<1>15. \E P2, place2 :
          Visited(P2, place2, lfs, Append(Without(n), call), listing', c, tmp)
  BY <1>1, <1>2, <1>3, <1>4, <1>5, <1>7, <1>8, <1>13, <1>14, VisitDirectory DEF Top
<1>16. c # 0
  BY <1>2, <1>13
<1> QED  BY <1>1, <1>15, <1>16 DEF TreeInv

\* A call that returns keeps it.
LEMMA ReturnTree == ASSUME BuildInv, TreeInv, Return PROVE TreeInv'
<1>1. /\ frames # <<>> /\ frames[Len(frames)].left = {}
      /\ frames' = SubSeq(frames, 1, Len(frames) - 1)
      /\ lfs' = lfs /\ listing' = listing /\ allocated' = allocated
  BY DEF Return, Top
<1>2. frames \in Seq(Call) /\ allocated >= 1 /\ allocated \in Nat
  BY <1>1, TopCall DEF BuildInv, Calls
<1>3. Len(frames') = Len(frames) - 1 /\ \A k \in 1..Len(frames') : frames'[k] = frames[k]
  <2> DEFINE m == Len(frames) - 1
  <2>1. m \in Nat /\ m <= Len(frames) /\ frames' = SubSeq(frames, 1, m)
    BY <1>1, <1>2
  <2> HIDE DEF m
  <2>2. Len(frames') = m /\ \A k \in 1..m : frames'[k] = frames[k]
    BY <1>2, <2>1
  <2> QED  BY <2>2 DEF m
<1>4. /\ DOMAIN tmp' = DOMAIN tmp \union {Top.cluster}
      /\ tmp'[Top.cluster] = AsSector(listing[Top.cluster])
      /\ \A k \in DOMAIN tmp : k # Top.cluster => tmp'[k] = tmp[k]
  BY DEF Return, save_temporary_file, SaveAll
<1>5. PICK P, place : Visited(P, place, lfs, frames, listing, allocated, tmp)
  BY <1>2 DEF TreeInv
<1>6. Popped(frames, frames') /\ Saved(tmp, Top.cluster, listing, tmp')
  BY <1>3, <1>4 DEF Popped, Saved
<1>7. Visited(P, place, lfs, frames', listing, allocated, tmp')
  BY <1>1, <1>2, <1>5, <1>6, VisitReturn DEF Top
<1> QED  BY <1>1, <1>2, <1>7 DEF TreeInv

\* A step that leaves the builder alone keeps it.
LEMMA UnchangedTree ==
    ASSUME TreeInv, UNCHANGED <<lfs, tmp, frames, listing, allocated>> PROVE TreeInv'
BY DEF TreeInv

\* Where the sectors are and what the arrays hold, in every state of the builder.
THEOREM TreeInvariant == ASSUME NamesShown PROVE BuildSpec => [](BuildInv /\ TreeInv)
<1>1. BuildInv /\ TreeInv /\ [BuildNext]_builderVars => TreeInv'
  <2> SUFFICES ASSUME BuildInv, TreeInv, [BuildNext]_builderVars PROVE TreeInv'
    OBVIOUS
  <2>1. CASE StartBuild  BY <2>1, StartTree
  <2>2. ASSUME NEW n \in Names, AddFile(n) PROVE TreeInv'
    BY <2>2, FileTree
  <2>3. ASSUME NEW n \in Names, AddDirectory(n) PROVE TreeInv'
    BY <2>3, DirectoryTree
  <2>4. CASE Return  BY <2>4, ReturnTree
  <2>5. CASE Browse
    BY <2>5, UnchangedTree DEF Browse, Read, buildvars
  <2>6. CASE UNCHANGED builderVars
    BY <2>6, UnchangedTree DEF builderVars, vars, buildvars
  <2> QED  BY <2>1, <2>2, <2>3, <2>4, <2>5, <2>6 DEF BuildNext, BuildStep
<1> QED  BY <1>1, InitTree, BuildInvariant, PTL DEF BuildSpec

-----------------------------------------------------------------------------
(* No name is lost, and each is listed once.                               *)

\* The entries of files and directories come after the dots or the label.
LEMMA ContentsNamed ==
    ASSUME NEW P, NEW place, NEW t, NEW p, NEW rest, NEW L, Len(L) \in Nat,
           Contents(P, place, t, p, rest, L)
    PROVE  {i \in 1..Len(L) : L[i].kind \in {"file", "dir"}} = FirstSlot(p)..Len(L)
<1>1. FirstSlot(p) \in {2, 3} /\ Len(L) >= FirstSlot(p) - 1
  BY DEF Contents, Begun, FirstSlot
<1>2. ASSUME NEW i \in 1..Len(L), i < FirstSlot(p) PROVE L[i].kind \notin {"file", "dir"}
  <2>1. CASE p = <<>>
    <3>1. i = 1 /\ L[1] = entry("label", NoName, 0, 0)
      BY <1>1, <1>2, <2>1 DEF Contents, Begun, FirstSlot
    <3> QED  BY <3>1 DEF entry
  <2>2. CASE p # <<>>
    <3>1. i \in {1, 2}
      BY <1>1, <1>2
    <3>2. L[1].kind = "dot" /\ L[2].kind = "dotdot"
      BY <2>2 DEF Contents, Begun, Dots, entry
    <3> QED  BY <3>1, <3>2
  <2> QED  BY <2>1, <2>2
<1>3. ASSUME NEW i \in FirstSlot(p)..Len(L) PROVE L[i].kind \in {"file", "dir"}
  <2>1. RightEntry(P, place, t, p, L[i])
    BY DEF Contents
  <2> QED  BY <2>1 DEF RightEntry, entry
<1> QED  BY <1>1, <1>2, <1>3

\* A directory of littlefs has finitely many names.
LEMMA KidsFinite ==
    ASSUME NEW t \in Trees, NEW p \in Seq(Names)
    PROVE  IsFiniteSet(Kids(t, p))
<1> DEFINE f == [n \in Kids(t, p) |-> Append(p, n)]
<1>1. IsFiniteSet(DOMAIN t)
  BY TreesClosedAssumption
<1>2. f \in [Kids(t, p) -> DOMAIN t]
  BY DEF Kids
<1>3. \A m, n \in Kids(t, p) : f[m] = f[n] => m = n
  <2> TAKE m, n \in Kids(t, p)
  <2>1. m \in Names /\ n \in Names
    BY DEF Kids
  <2>2. Append(p, m)[Len(p) + 1] = m /\ Append(p, n)[Len(p) + 1] = n
    BY <2>1
  <2> QED  BY <2>2
<1> HIDE DEF f
<1>4. f \in Injection(Kids(t, p), DOMAIN t)
  BY <1>2, <1>3 DEF Injection, IsInjective
<1> QED  BY <1>1, <1>4, FS_Injection

\* An array has an entry for each name that does not remain.
LEMMA ContentsCount ==
    ASSUME NEW P, NEW place, NEW t \in Trees, NEW p \in Seq(Names), NEW rest, NEW L,
           Len(L) \in Nat, Contents(P, place, t, p, rest, L), rest \subseteq Kids(t, p)
    PROVE  /\ IsFiniteSet(Kids(t, p))
           /\ Cardinality(FirstSlot(p)..Len(L)) + Cardinality(rest) = Cardinality(Kids(t, p))
           /\ Cardinality(FirstSlot(p)..Len(L)) = Len(L) - FirstSlot(p) + 1
           /\ Cardinality(rest) \in Nat
<1> DEFINE I == FirstSlot(p)..Len(L)
           K == Kids(t, p)
           f == [i \in I |-> L[i].name]
<1>1. FirstSlot(p) \in {2, 3} /\ Len(L) >= FirstSlot(p) - 1
  BY DEF Contents, Begun, FirstSlot
<1>2. IsFiniteSet(I) /\ Cardinality(I) = Len(L) - FirstSlot(p) + 1
  <2>1. FirstSlot(p) \in Int /\ Len(L) \in Int
    BY <1>1
  <2>2. IsFiniteSet(I) /\ Cardinality(I) = IF FirstSlot(p) > Len(L) THEN 0
                                           ELSE Len(L) - FirstSlot(p) + 1
    BY <2>1, FS_Interval
  <2> QED  BY <1>1, <2>2
<1>3. IsFiniteSet(K)
  BY KidsFinite
<1>4. f \in Bijection(I, K \ rest)
  <2>1. f \in [I -> K \ rest]
    BY DEF Contents
  <2>2. \A i, j \in I : f[i] = f[j] => i = j
    BY DEF Contents
  <2>3. \A n \in K \ rest : \E i \in I : f[i] = n
    BY DEF Contents
  <2> HIDE DEF f, I, K
  <2> QED  BY <2>1, <2>2, <2>3 DEF Bijection, Injection, Surjection, IsInjective
<1> HIDE DEF f, I, K
<1>5. IsFiniteSet(K \ rest) /\ Cardinality(K \ rest) = Cardinality(I)
  BY <1>2, <1>4, FS_Bijection DEF ExistsBijection
<1>6. K \cap rest = rest /\ IsFiniteSet(rest) /\ rest \in SUBSET K
  <2>1. rest \in SUBSET K
    BY DEF K
  <2> QED  BY <1>3, <2>1, FS_Subset
<1>7. Cardinality(K \ rest) = Cardinality(K) - Cardinality(rest)
  BY <1>3, <1>6, FS_Difference
<1>8. Cardinality(K) \in Nat /\ Cardinality(rest) \in Nat
  BY <1>3, <1>6, FS_CardinalityType
<1> QED  BY <1>1, <1>2, <1>3, <1>5, <1>7, <1>8 DEF I, K

\* Given that its slots give each name back, the builder lists each name of a
\* directory once, whatever the order of the names (create_dir_entry_cache).
THEOREM BuilderKeepsNames == ASSUME NamesShown PROVE BuildSpec => []NamesRestored
<1>1. BuildInv /\ TreeInv => NamesRestored
  <2> SUFFICES ASSUME BuildInv, TreeInv, frames # <<>>
      PROVE  LET entries == listing[Top.cluster]
                 named == {i \in 1..Len(entries) : entries[i].kind \in {"file", "dir"}}
                 names == {entries[i].name : i \in named}
             IN  /\ names \union Top.left = Children(Top.path)
                 /\ Cardinality(named) + Cardinality(Top.left) = Cardinality(Children(Top.path))
    BY DEF NamesRestored
  <2> DEFINE L == listing[Top.cluster]
             p == Top.path
             rest == Top.left
             named == {i \in 1..Len(L) : L[i].kind \in {"file", "dir"}}
  <2>1. /\ frames \in Seq(Call) /\ allocated >= 1 /\ allocated \in Nat
        /\ IsListing(listing, allocated) /\ lfs \in Trees
    BY TopCall DEF BuildInv, Calls
  <2>2. PICK P, place : Visited(P, place, lfs, frames, listing, allocated, tmp)
    BY <2>1 DEF TreeInv
  <2>3. /\ p \in P /\ p \in Seq(Names) /\ Top.cluster = place[p] /\ Top.cluster \in DOMAIN listing
        /\ rest \subseteq Kids(lfs, p) /\ rest = Remaining(frames, p)
    BY <2>1, <2>2, TopVisited DEF Top
  <2>4. Contents(P, place, lfs, p, rest, L) /\ Len(L) \in Nat
    <3>1. Contents(P, place, lfs, p, Remaining(frames, p), listing[place[p]])
      BY <2>2, <2>3 DEF Visited, AllContents
    <3>2. L \in Seq(ListEntry)
      BY <2>1, <2>3 DEF IsListing
    <3>3. Len(L) \in Nat
      BY <3>2
    <3> QED  BY <2>3, <3>1, <3>3
  <2>5. Children(p) = Kids(lfs, p)
    BY DEF Children, Kids
  <2> HIDE DEF L, p, rest
  <2>6. named = FirstSlot(p)..Len(L)
    BY <2>4, ContentsNamed
  <2>7. {L[i].name : i \in named} \union rest = Children(p)
    <3>1. {L[i].name : i \in FirstSlot(p)..Len(L)} \union rest = Kids(lfs, p)
      BY <2>3, <2>4 DEF Contents
    <3> QED  BY <2>5, <2>6, <3>1
  <2>8. Cardinality(named) + Cardinality(rest) = Cardinality(Children(p))
    <3>1. Cardinality(FirstSlot(p)..Len(L)) + Cardinality(rest) = Cardinality(Kids(lfs, p))
      BY <2>1, <2>3, <2>4, ContentsCount
    <3> QED  BY <2>5, <2>6, <3>1
  <2> QED  BY <2>7, <2>8 DEF L, p, rest
<1> QED  BY <1>1, TreeInvariant, PTL

-----------------------------------------------------------------------------
(* What is built is a volume.                                              *)

\* All calls have returned: each directory visited has its names, and its sector.
Finished(P, place, t, li, a, sav) ==
    /\ VisitedDirectories(P, place, t, li, a)
    /\ DOMAIN sav = {place[p] : p \in P}
    /\ \A p \in P : /\ Contents(P, place, t, p, {}, li[place[p]])
                    /\ Len(li[place[p]]) \in 0..NumSlots
                    /\ sav[place[p]] = AsSector(li[place[p]])

\* An entry of the builder may stand in a sector.
LEMMA EntryInSector ==
    ASSUME NEW k \in Kinds, NEW n \in Names \union {NoName}, NEW c \in Cluster, NEW s \in Nat
    PROVE  entry(k, n, c, s) \in Entry /\ entry(k, n, c, s).del = FALSE
BY DEF entry, Entry

\* The kinds and the clusters of the entries of an array.
RightKinds(P, place, t, p, e) ==
    /\ e \in Entry /\ ~e.del
    /\ e.kind \in {"file", "dir"} /\ e.name \in Names
    /\ e.clus # Root
    /\ e.clus # 0 => e.clus \in Extent(e)
    /\ e.kind = "dir" => /\ e.clus # 0
                         /\ Append(p, e.name) \in P
                         /\ place[Append(p, e.name)] = e.clus

\* An entry that is right says of its name what littlefs does.
LEMMA EntryKinds ==
    ASSUME NEW P, NEW place, NEW t \in Trees, NEW li, NEW a,
           VisitedDirectories(P, place, t, li, a),
           NEW p \in P, NEW e, e.name \in Kids(t, p), RightEntry(P, place, t, p, e)
    PROVE  RightKinds(P, place, t, p, e)
<1> DEFINE q == Append(p, e.name)
<1>1. /\ p \in Seq(Names) /\ e.name \in Names /\ q \in DOMAIN t
      /\ q \in Seq(Names) /\ q # <<>>
  <2>1. p \in Seq(Names) /\ e.name \in Names /\ q \in DOMAIN t
    BY DEF VisitedDirectories, Situated, Kids
  <2> QED  BY <2>1, ParentOfAppend
<1>2. t[q] = DIR \/ Len(t[q]) \in Nat
  BY <1>1, TreesAssumption
<1>3. {"file", "dir"} \subseteq Kinds /\ 0 \in Cluster /\ 0 \in Nat /\ 0 # Root
  BY ClusterAssumption DEF Kinds, Cluster, Root
<1>4. q \in P => place[q] \in Cluster /\ place[q] # 0 /\ place[q] # Root
  <2> SUFFICES ASSUME q \in P PROVE place[q] \in Cluster /\ place[q] # 0 /\ place[q] # Root
    OBVIOUS
  <2>1. /\ place[q] \in Cluster /\ Len(q) < place[q] /\ <<>> \in P /\ place[<<>>] = Root
        /\ (place[q] = place[<<>>] => q = <<>>)
    BY DEF VisitedDirectories, Situated
  <2>2. Len(q) \in Nat /\ place[q] \in Nat
    BY <1>1, <2>1, ClusterAssumption DEF Cluster
  <2> QED  BY <1>1, <2>1, <2>2
<1> HIDE DEF q
<1>5. CASE t[q] = DIR /\ q \in P /\ e = entry("dir", e.name, place[q], 0)
  <2>1. e \in Entry /\ e.del = FALSE
    <3>1. PICK n \in Names : n = e.name
      BY <1>1
    <3>2. entry("dir", n, place[q], 0) \in Entry /\ entry("dir", n, place[q], 0).del = FALSE
      BY <1>3, <1>4, <1>5, EntryInSector
    <3> QED  BY <1>5, <3>1, <3>2
  <2>2. e.kind = "dir" /\ e.clus = place[q]
    BY <1>5 DEF entry
  <2>3. Extent(e) = {e.clus}
    BY <2>2 DEF Extent
  <2> QED  BY <1>1, <1>4, <1>5, <2>1, <2>2, <2>3 DEF RightKinds, q
<1>6. CASE t[q] # DIR /\ e = entry("file", e.name, 0, 0)
  <2>1. e \in Entry /\ e.del = FALSE
    BY <1>1, <1>3, <1>6, EntryInSector
  <2>2. e.kind = "file" /\ e.clus = 0
    BY <1>6 DEF entry
  <2> QED  BY <1>1, <1>3, <2>1, <2>2 DEF RightKinds
<1>7. CASE /\ t[q] # DIR /\ Len(t[q]) > 0
           /\ e.clus \in 2..NumClusters /\ e = entry("file", e.name, e.clus, Len(t[q]))
  <2>1. e.clus \in Cluster /\ e.clus # Root /\ Len(t[q]) \in Nat
    BY <1>2, <1>7, ClusterAssumption DEF Cluster, Root
  <2>2. e \in Entry /\ e.del = FALSE
    <3>1. PICK n \in Names : n = e.name
      BY <1>1
    <3>2. PICK c \in Cluster : c = e.clus
      BY <2>1
    <3>3. /\ entry("file", n, c, Len(t[q])) \in Entry
          /\ entry("file", n, c, Len(t[q])).del = FALSE
      BY <1>3, <2>1, EntryInSector
    <3> QED  BY <1>7, <3>1, <3>2, <3>3
  <2>3. e.kind = "file" /\ e.size = Len(t[q])
    BY <1>7 DEF entry
  <2>4. Extent(e) = e.clus..e.clus + e.size - 1
    BY <1>7, <2>3 DEF Extent
  <2>5. e.clus \in Extent(e)
    BY <1>7, <2>1, <2>3, <2>4
  <2> QED  BY <1>1, <2>1, <2>2, <2>3, <2>5 DEF RightKinds
<1> QED  BY <1>5, <1>6, <1>7 DEF RightEntry, q

\* The sector of an array that fits.
SectorShows(s, p, L) ==
    /\ s \in Sector
    /\ \A i \in 1..Len(L) : i \in Slots /\ s[i] = L[i]
    /\ Visible(s) = FirstSlot(p)..Len(L)
    /\ \A i \in Slots : Live(s, i) <=> i \in 1..Len(L)

RightSector(P, place, t, p, s, L) ==
    /\ SectorShows(s, p, L)
    /\ \A i \in FirstSlot(p)..Len(L) : RightKinds(P, place, t, p, L[i])
    /\ ParentOf(s) = IF p = <<>> THEN 0 ELSE place[Parent(p)]

\* A sector shows what its array holds.
LEMMA SectorOfArray ==
    ASSUME NEW P, NEW place, NEW t \in Trees, NEW li, NEW a,
           VisitedDirectories(P, place, t, li, a), NEW p \in P, NEW L, Len(L) \in 0..NumSlots,
           Contents(P, place, t, p, {}, L)
    PROVE  RightSector(P, place, t, p, AsSector(L), L)
<1> DEFINE s == AsSector(L)
           f == FirstSlot(p)
<1>1. f = (IF p = <<>> THEN 2 ELSE 3) /\ Len(L) >= f - 1 /\ f \in Nat
  BY DEF Contents, Begun, FirstSlot
<1>2. NumSlots \in Nat /\ Slots = 1..NumSlots /\ Len(L) \in Nat
  BY SlotAssumption DEF Slots
<1>3. \A i \in f..Len(L) : RightKinds(P, place, t, p, L[i])
  BY EntryKinds DEF Contents
<1>4. \A i \in Slots : s[i] = IF i <= Len(L) THEN L[i] ELSE Blank
  BY DEF AsSector
<1>5. /\ Kinds = {"blank", "label", "dot", "dotdot", "file", "dir"}
      /\ NoName \in Names \union {NoName} /\ 0 \in Cluster /\ 0 \in Nat
  BY ClusterAssumption DEF Kinds, Cluster
<1>6. p = <<>> => L[1] \in Entry /\ ~L[1].del /\ L[1].kind = "label"
  <2>1. p = <<>> => L[1] = entry("label", NoName, 0, 0)
    BY DEF Contents, Begun
  <2>2. entry("label", NoName, 0, 0) \in Entry /\ entry("label", NoName, 0, 0).del = FALSE
    BY <1>5, EntryInSector
  <2>3. entry("label", NoName, 0, 0).kind = "label"
    BY DEF entry
  <2> QED  BY <2>1, <2>2, <2>3
<1>7. p # <<>> => /\ L[1] \in Entry /\ ~L[1].del /\ L[1].kind = "dot"
                  /\ L[2] \in Entry /\ ~L[2].del /\ L[2].kind = "dotdot"
                  /\ L[2].clus = IF place[Parent(p)] = Root THEN 0 ELSE place[Parent(p)]
                  /\ place[Parent(p)] \in Cluster /\ place[Parent(p)] # 0
  <2> SUFFICES ASSUME p # <<>>
               PROVE  /\ L[1] \in Entry /\ ~L[1].del /\ L[1].kind = "dot"
                      /\ L[2] \in Entry /\ ~L[2].del /\ L[2].kind = "dotdot"
                      /\ L[2].clus = IF place[Parent(p)] = Root THEN 0 ELSE place[Parent(p)]
                      /\ place[Parent(p)] \in Cluster /\ place[Parent(p)] # 0
    OBVIOUS
  <2> DEFINE c == place[p]
             d == place[Parent(p)]
             up == IF d = Root THEN 0 ELSE d
  <2>1. Parent(p) \in P /\ c \in Cluster /\ d \in Cluster /\ Len(Parent(p)) < d
        /\ p \in Seq(Names)
    BY DEF VisitedDirectories, Situated
  <2>2. d # 0
    <3>1. Len(Parent(p)) \in Nat /\ d \in Nat
      BY <2>1, PathParts, ClusterAssumption DEF Cluster
    <3> QED  BY <2>1, <3>1
  <2>3. L[1] = entry("dot", NoName, c, 0) /\ L[2] = entry("dotdot", NoName, up, 0)
    BY DEF Contents, Begun, Dots
  <2> HIDE DEF c, d
  <2>4. up \in Cluster
    BY <1>5, <2>1
  <2> HIDE DEF up
  <2>5. /\ entry("dot", NoName, c, 0) \in Entry /\ entry("dot", NoName, c, 0).del = FALSE
        /\ entry("dotdot", NoName, up, 0) \in Entry /\ entry("dotdot", NoName, up, 0).del = FALSE
    BY <1>5, <2>1, <2>4, EntryInSector
  <2>6. L[1].kind = "dot" /\ L[2].kind = "dotdot" /\ L[2].clus = up
    BY <2>3 DEF entry
  <2> QED  BY <2>1, <2>2, <2>3, <2>5, <2>6 DEF d, up
<1> HIDE DEF s, f
<1>8. \A i \in 1..Len(L) : /\ L[i] \in Entry /\ ~L[i].del /\ L[i].kind # "blank"
                           /\ L[i].kind \in {"file", "dir"} <=> i >= f
                           /\ L[i].kind = "dotdot" <=> (p # <<>> /\ i = 2)
  <2> TAKE i \in 1..Len(L)
  <2>1. CASE i >= f
    <3>1. L[i] \in Entry /\ ~L[i].del /\ L[i].kind \in {"file", "dir"}
      BY <1>1, <1>2, <1>3, <2>1 DEF RightKinds
    <3>2. i # 2 \/ p = <<>>
      BY <1>1, <2>1
    <3> QED  BY <2>1, <3>1, <3>2
  <2>2. CASE i < f /\ p = <<>>
    <3>1. i = 1
      BY <1>1, <1>2, <2>2
    <3> QED  BY <1>1, <1>2, <1>6, <2>2, <3>1
  <2>3. CASE i < f /\ p # <<>>
    <3>1. i = 1 \/ i = 2
      BY <1>1, <1>2, <2>3
    <3> QED  BY <1>1, <1>2, <1>7, <2>3, <3>1
  <2> QED  BY <1>1, <1>2, <2>1, <2>2, <2>3
<1>9. \A i \in 1..Len(L) : i \in Slots /\ s[i] = L[i]
  BY <1>2, <1>4
<1>10. Blank \in Entry /\ Blank.kind = "blank"
  <2>1. Blank \in Entry
    BY <1>5, EntryInSector DEF Blank
  <2> QED  BY <2>1 DEF Blank, entry
<1>11. s \in Sector
  <2>1. \A i \in Slots : s[i] \in Entry
    BY <1>2, <1>4, <1>8, <1>10
  <2>2. s = [i \in Slots |-> IF i <= Len(L) THEN L[i] ELSE Blank]
    BY DEF s, AsSector
  <2> QED  BY <2>1, <2>2 DEF Sector
<1>12. Seen(s) = 1..Len(L)
  <2>1. \A i \in 1..Len(L) : i \in Seen(s)
    <3> TAKE i \in 1..Len(L)
    <3>1. \A k \in 1..i : k \in 1..Len(L)
      BY <1>2
    <3> QED  BY <1>8, <1>9, <3>1 DEF Seen
  <2>2. \A i \in Seen(s) : i \in 1..Len(L)
    <3> SUFFICES ASSUME NEW i \in Seen(s), i > Len(L) PROVE FALSE
      BY <1>2 DEF Seen
    <3>1. i \in Slots /\ i \in 1..i /\ s[i].kind # "blank"
      BY <1>2 DEF Seen
    <3> QED  BY <1>2, <1>4, <1>10, <3>1
  <2> QED  BY <2>1, <2>2
<1>13. \A i \in Slots : Live(s, i) <=> i \in 1..Len(L)
  BY <1>8, <1>9, <1>12 DEF Live
<1>14. Visible(s) = f..Len(L)
  <2>1. \A i \in Visible(s) : i \in f..Len(L)
    BY <1>1, <1>2, <1>8, <1>9, <1>13 DEF Visible
  <2>2. \A i \in f..Len(L) : i \in Visible(s)
    BY <1>1, <1>2, <1>8, <1>9, <1>13 DEF Visible
  <2> QED  BY <2>1, <2>2
<1>15. ParentOf(s) = IF p = <<>> THEN 0 ELSE place[Parent(p)]
  <2>1. CASE p = <<>>
    <3>1. ~ \E i \in Seen(s) : s[i].kind = "dotdot"
      BY <1>8, <1>9, <1>12, <2>1
    <3> QED  BY <2>1, <3>1 DEF ParentOf
  <2>2. CASE p # <<>>
    <3>1. 2 \in 1..Len(L) /\ 2 \in Slots
      BY <1>1, <1>2, <1>9, <2>2
    <3>2. {i \in Seen(s) : s[i].kind = "dotdot"} = {2}
      BY <1>8, <1>9, <1>12, <2>2, <3>1
    <3>3. First({2}) = 2
      BY <3>1, FirstOfOne
    <3>4. s[2].clus = IF place[Parent(p)] = Root THEN 0 ELSE place[Parent(p)]
      BY <1>7, <1>9, <2>2, <3>1
    <3>5. place[Parent(p)] # 0 /\ Root # 0
      BY <1>7, <2>2 DEF Root
    <3>6. ParentOf(s) = IF s[2].clus = 0 THEN Root ELSE s[2].clus
      BY <3>2, <3>3 DEF ParentOf
    <3> QED  BY <2>2, <3>4, <3>5, <3>6
  <2> QED  BY <2>1, <2>2
<1> QED  BY <1>3, <1>9, <1>11, <1>13, <1>14, <1>15 DEF RightSector, SectorShows, s, f

\* At the end the sector of each directory visited shows its array.
LEMMA FinishedSectors ==
    ASSUME NEW P, NEW place, NEW t \in Trees, NEW li, NEW a, NEW sav,
           Finished(P, place, t, li, a, sav), NEW p \in P
    PROVE  /\ place[p] \in DOMAIN sav
           /\ RightSector(P, place, t, p, sav[place[p]], li[place[p]])
<1>1. /\ VisitedDirectories(P, place, t, li, a) /\ place[p] \in DOMAIN sav
      /\ Contents(P, place, t, p, {}, li[place[p]]) /\ Len(li[place[p]]) \in 0..NumSlots
      /\ sav[place[p]] = AsSector(li[place[p]])
  BY DEF Finished
<1> QED  BY <1>1, SectorOfArray

\* The directories visited are those littlefs has.
LEMMA AllVisited ==
    ASSUME NEW P, NEW place, NEW t \in Trees, NEW li, NEW a, NEW sav,
           Finished(P, place, t, li, a, sav)
    PROVE  P = {<<>>} \union {p \in DOMAIN t : t[p] = DIR}
<1>1. /\ <<>> \in P /\ P \subseteq {<<>>} \union {p \in DOMAIN t : t[p] = DIR}
  BY DEF Finished, VisitedDirectories, Situated
<1>2. ASSUME NEW r \in DOMAIN t, t[r] = DIR, r \notin P PROVE FALSE
  <2> DEFINE D == {p \in DOMAIN t : t[p] = DIR /\ p \notin P}
             N == {Len(p) : p \in D}
  <2>1. \A p \in D : p \in Seq(Names) /\ Len(p) \in Nat
    BY TreesClosedAssumption
  <2>2. N \in SUBSET Nat /\ N # {}
    BY <1>2, <2>1
  <2>3. PICK x \in N : \A y \in N : x <= y
    BY <2>2, LeastNatural
  <2>4. PICK p \in D : Len(p) = x
    BY <2>3
  <2>5. /\ p \in Seq(Names) /\ p # <<>> /\ t[p] = DIR /\ p \notin P /\ p \in DOMAIN t
        /\ (Parent(p) = <<>> \/ (Parent(p) \in DOMAIN t /\ t[Parent(p)] = DIR))
    BY TreesClosedAssumption
  <2> DEFINE u == Parent(p)
             n == p[Len(p)]
  <2>6. u \in Seq(Names) /\ n \in Names /\ Len(p) \in Nat \ {0} /\ Len(u) = Len(p) - 1
        /\ p = Append(u, n)
    BY <2>5, PathParts
  <2> HIDE DEF n, u
  <2>7. u \in P
    <3> SUFFICES ASSUME u \notin P PROVE FALSE
      OBVIOUS
    <3>1. u \in D
      BY <1>1, <2>5 DEF u
    <3>2. Len(p) <= Len(u)
      BY <2>3, <2>4, <3>1
    <3> QED  BY <2>6, <3>2
  <2>8. n \in Kids(t, u)
    BY <2>5, <2>6 DEF Kids
  <2>9. PICK i \in FirstSlot(u)..Len(li[place[u]]) : li[place[u]][i].name = n
    BY <2>7, <2>8 DEF Finished, Contents
  <2>10. RightEntry(P, place, t, u, li[place[u]][i])
    BY <2>7 DEF Finished, Contents
  <2>11. Append(u, li[place[u]][i].name) = p
    BY <2>6, <2>9
  <2>12. p \in P
    BY <2>5, <2>10, <2>11 DEF RightEntry
  <2> QED  BY <2>5, <2>12
<1> QED  BY <1>1, <1>2

\* The sectors of the builder are a volume.
LEMMA FinishedVolume ==
    ASSUME NEW P, NEW place, NEW t \in Trees, NEW li, NEW a, NEW sav,
           Finished(P, place, t, li, a, sav), Apart(li)
    PROVE  Volume(sav, P, place)
<1> DEFINE L(p) == li[place[p]]
<1>1. /\ Situated(P, place) /\ DOMAIN li = {place[p] : p \in P}
      /\ \A p, q \in P : place[p] = place[q] => p = q
      /\ \A p \in P : Len(p) < place[p]
      /\ P \subseteq Seq(Names)
  BY DEF Finished, VisitedDirectories, Situated
<1>2. \A p \in P : /\ place[p] \in DOMAIN sav
                   /\ sav[place[p]] \in Sector
                   /\ Visible(sav[place[p]]) = FirstSlot(p)..Len(L(p))
                   /\ FirstSlot(p) \in {2, 3}
                   /\ \A i \in Visible(sav[place[p]]) :
                         /\ i \in Slots /\ i >= FirstSlot(p)
                         /\ i \in 1..Len(L(p))
                         /\ sav[place[p]][i] = L(p)[i]
                         /\ RightKinds(P, place, t, p, sav[place[p]][i])
                   /\ \A i \in Slots : Live(sav[place[p]], i) <=> i \in 1..Len(L(p))
                   /\ ParentOf(sav[place[p]]) = IF p = <<>> THEN 0 ELSE place[Parent(p)]
  <2> TAKE p \in P
  <2> DEFINE s == sav[place[p]]
  <2>1. /\ place[p] \in DOMAIN sav /\ SectorShows(s, p, L(p))
        /\ \A i \in FirstSlot(p)..Len(L(p)) : RightKinds(P, place, t, p, L(p)[i])
        /\ ParentOf(s) = IF p = <<>> THEN 0 ELSE place[Parent(p)]
    <3>1. place[p] \in DOMAIN sav /\ RightSector(P, place, t, p, sav[place[p]], li[place[p]])
      BY FinishedSectors
    <3> HIDE DEF s
    <3>2. s = sav[place[p]] /\ L(p) = li[place[p]]
      BY DEF s
    <3> QED  BY <3>1, <3>2 DEF RightSector
  <2>2. FirstSlot(p) \in {2, 3} /\ Len(L(p)) \in Nat
    BY DEF FirstSlot, Finished
  <2> HIDE DEF s, L
  <2>3. \A i \in Visible(s) : i \in FirstSlot(p)..Len(L(p)) /\ i \in 1..Len(L(p)) /\ i >= FirstSlot(p)
    BY <2>1, <2>2 DEF SectorShows
  <2>4. \A i \in Visible(s) : /\ i \in Slots /\ s[i] = L(p)[i]
                              /\ RightKinds(P, place, t, p, s[i])
    BY <2>1, <2>3 DEF SectorShows
  <2> QED  BY <2>1, <2>2, <2>3, <2>4 DEF SectorShows, s
<1>3. SectorsSaved(sav, P, place)
  <2> SUFFICES ASSUME NEW p \in P
               PROVE  /\ HasDirectory(sav, place[p])
                      /\ Len(p) < NumClusters
                      /\ ParentOf(sav[place[p]]) = IF p = <<>> THEN 0 ELSE place[Parent(p)]
    BY DEF SectorsSaved
  <2>1. HasDirectory(sav, place[p])
    BY <1>2 DEF HasDirectory
  <2>2. Len(p) < NumClusters
    <3>1. place[p] \in Cluster /\ Len(p) < place[p] /\ Len(p) \in Nat
      BY <1>1 DEF Situated
    <3> QED  BY <3>1, ClusterAssumption DEF Cluster
  <2> QED  BY <1>2, <2>1, <2>2
<1>4. NamesListed(sav, P, place)
  <2> SUFFICES ASSUME NEW p \in P, NEW i \in Slots
               PROVE  /\ i \in Visible(sav[place[p]]) =>
                            i >= FirstSlot(p) /\ sav[place[p]][i].name \in Names
                      /\ Live(sav[place[p]], i) /\ i >= FirstSlot(p)
                            => i \in Visible(sav[place[p]])
    BY DEF NamesListed
  <2>1. i \in Visible(sav[place[p]]) => i >= FirstSlot(p) /\ sav[place[p]][i].name \in Names
    BY <1>2 DEF RightKinds
  <2>2. Live(sav[place[p]], i) /\ i >= FirstSlot(p) => i \in Visible(sav[place[p]])
    <3>1. Live(sav[place[p]], i) => i \in 1..Len(L(p))
      BY <1>2
    <3>2. FirstSlot(p) \in Nat /\ Len(L(p)) \in Nat /\ i \in Nat
      BY <1>2, SlotAssumption DEF Slots, Finished
    <3>3. Visible(sav[place[p]]) = FirstSlot(p)..Len(L(p))
      BY <1>2
    <3> HIDE DEF L
    <3> QED  BY <3>1, <3>2, <3>3
  <2> QED  BY <2>1, <2>2
<1>5. EntriesLead(sav, P, place)
  BY <1>2 DEF EntriesLead, Leads, RightKinds
<1>6. ParentsList(sav, P, place)
  <2> SUFFICES ASSUME NEW p \in P, p # <<>>
               PROVE  HasEntry(sav[place[Parent(p)]], p[Len(p)])
    BY DEF ParentsList
  <2> DEFINE u == Parent(p)
             n == p[Len(p)]
  <2>1. u \in P /\ p \in DOMAIN t /\ t[p] = DIR
    BY DEF Finished, VisitedDirectories, Situated
  <2>2. n \in Names /\ p = Append(u, n)
    BY <1>1, PathParts
  <2> HIDE DEF n, u
  <2>3. n \in Kids(t, u)
    BY <2>1, <2>2 DEF Kids
  <2>4. PICK i \in FirstSlot(u)..Len(L(u)) : L(u)[i].name = n
    BY <2>1, <2>3 DEF Finished, Contents
  <2>5. RightEntry(P, place, t, u, L(u)[i])
    BY <2>1 DEF Finished, Contents
  <2>6. L(u)[i].kind = "dir"
    <3>1. Append(u, L(u)[i].name) = p
      BY <2>2, <2>4
    <3>2. L(u)[i] = entry("dir", L(u)[i].name, place[p], 0)
      BY <2>1, <2>5, <3>1 DEF RightEntry
    <3> QED  BY <3>2 DEF entry
  <2>7. i \in Visible(sav[place[u]]) /\ sav[place[u]][i] = L(u)[i]
    BY <1>2, <2>1
  <2>8. \E j \in Visible(sav[place[u]]) :
           sav[place[u]][j].kind = "dir" /\ sav[place[u]][j].name = n
    BY <2>4, <2>6, <2>7
  <2> QED  BY <2>8 DEF HasEntry, n, u
<1>7. StartsOnce(sav, P, place)
  <2> SUFFICES ASSUME NEW p \in P, NEW i \in Visible(sav[place[p]]),
                      sav[place[p]][i].clus # 0,
                      NEW q \in P, NEW j \in Visible(sav[place[q]]),
                      sav[place[q]][j].clus = sav[place[p]][i].clus
               PROVE  q = p /\ j = i
    BY DEF StartsOnce, Alone
  <2> DEFINE e == L(p)[i]
             d == L(q)[j]
  <2>1. /\ i \in 1..Len(li[place[p]]) /\ sav[place[p]][i] = e /\ RightKinds(P, place, t, p, e)
        /\ j \in 1..Len(li[place[q]]) /\ sav[place[q]][j] = d /\ RightKinds(P, place, t, q, d)
    BY <1>2
  <2>2. e.clus \in Extent(e) /\ d.clus \in Extent(d) /\ d.clus = e.clus
    BY <2>1 DEF RightKinds
  <2>3. place[p] \in DOMAIN li /\ place[q] \in DOMAIN li
    BY <1>1
  <2>4. <<place[p], i>> = <<place[q], j>>
    <3> SUFFICES ASSUME <<place[p], i>> # <<place[q], j>> PROVE FALSE
      OBVIOUS
    <3>1. Extent(e) \intersect Extent(d) = {}
      BY <2>1, <2>3 DEF Apart
    <3> HIDE DEF e, d
    <3> QED  BY <2>2, <3>1
  <2> QED  BY <1>1, <2>4
<1> QED  BY <1>1, <1>3, <1>4, <1>5, <1>6, <1>7 DEF Volume

\* When the calls have returned, and the arrays fit.
LEMMA BuiltFinished ==
    ASSUME NamesFit, BuildInv, TreeInv, Built
    PROVE  \E P, place : Finished(P, place, lfs, listing, allocated, tmp)
<1>1. /\ frames = <<>> /\ Root \in DOMAIN tmp /\ lfs \in Trees /\ IsListing(listing, allocated)
      /\ allocated # 0
  BY DEF Built, BuildInv, TreeInv
<1>2. PICK P, place : Visited(P, place, lfs, frames, listing, allocated, tmp)
  BY <1>1 DEF TreeInv
<1>3. \A p : Remaining(frames, p) = {}
  <2>1. 1..Len(frames) = {}
    BY <1>1
  <2> QED  BY <2>1 DEF Remaining
<1>4. VisitedDirectories(P, place, lfs, listing, allocated)
  BY <1>2 DEF Visited
<1>5. \A p \in P : Contents(P, place, lfs, p, {}, listing[place[p]])
  BY <1>2, <1>3 DEF Visited, AllContents
<1>6. \A p \in P : place[p] \in DOMAIN tmp /\ tmp[place[p]] = AsSector(listing[place[p]])
  <2>1. 1..Len(frames) = {}
    BY <1>1
  <2> QED  BY <1>2, <2>1 DEF Visited, Returned
<1>7. DOMAIN tmp = {place[p] : p \in P}
  BY <1>2, <1>6 DEF Visited, Returned
<1>8. ASSUME NEW p \in P PROVE Len(listing[place[p]]) \in 0..NumSlots
  <2> DEFINE L == listing[place[p]]
  <2>1. place[p] \in DOMAIN listing /\ p \in Seq(Names)
        /\ p \in {<<>>} \union {q \in DOMAIN lfs : lfs[q] = DIR}
    BY <1>4 DEF VisitedDirectories, Situated
  <2>2. Len(L) \in Nat
    <3>1. L \in Seq(ListEntry)
      BY <1>1, <2>1 DEF IsListing
    <3> QED  BY <3>1
  <2>3. Contents(P, place, lfs, p, {}, L) /\ {} \subseteq Kids(lfs, p)
    BY <1>5
  <2> HIDE DEF L
  <2>4. /\ Cardinality(FirstSlot(p)..Len(L)) + Cardinality({}) = Cardinality(Kids(lfs, p))
        /\ Cardinality(FirstSlot(p)..Len(L)) = Len(L) - FirstSlot(p) + 1
    BY <1>1, <2>1, <2>2, <2>3, ContentsCount
  <2>5. Cardinality({}) = 0
    BY FS_EmptySet
  <2>6. Cardinality(Kids(lfs, p)) + FirstSlot(p) - 1 <= NumSlots
    BY <1>1, <2>1 DEF NamesFit
  <2>7. FirstSlot(p) \in Nat /\ NumSlots \in Nat
    BY SlotAssumption DEF FirstSlot
  <2>8. Len(L) <= NumSlots
    BY <2>2, <2>4, <2>5, <2>6, <2>7
  <2> QED  BY <2>2, <2>7, <2>8 DEF L
<1>9. Finished(P, place, lfs, listing, allocated, tmp)
  BY <1>4, <1>5, <1>6, <1>7, <1>8 DEF Finished
<1> QED  BY <1>9

\* The paths the directories are found under are theirs.
LEMMA PathFound ==
    ASSUME NEW P, NEW place, Volume(tmp, P, place), NEW p \in P
    PROVE  PathOf(place[p]) = p
<1>1. CASE p = <<>>
  BY <1>1 DEF Volume, Situated, PathOf
<1>2. CASE p # <<>>
  <2> DEFINE u == Parent(p)
  <2>1. /\ u \in P /\ place[p] # Root
        /\ \E i \in Visible(tmp[place[u]]) : /\ tmp[place[u]][i].kind = "dir"
                                            /\ tmp[place[u]][i].name = p[Len(p)]
                                            /\ tmp[place[u]][i].clus = place[p]
    BY <1>2, DirectoryEntry
  <2>2. PICK i \in Visible(tmp[place[u]]) : /\ tmp[place[u]][i].kind = "dir"
                                           /\ tmp[place[u]][i].name = p[Len(p)]
                                           /\ tmp[place[u]][i].clus = place[p]
    BY <2>1
  <2>3. p = Append(u, p[Len(p)])
    BY <1>2, PathParts DEF Volume, Situated
  <2>4. ParentOf(tmp[place[p]]) = place[u]
    BY <1>2 DEF Volume, SectorsSaved
  <2> HIDE DEF u
  <2>5. restore_directory_from(tmp, place[u], tmp[place[u]][i].clus)
          = Append(u, tmp[place[u]][i].name)
    <3>1. u \in P /\ i \in Visible(tmp[place[u]]) /\ tmp[place[u]][i].kind = "dir"
      BY <2>1, <2>2
    <3> QED  BY <3>1, DirectoryRestored
  <2> QED  BY <2>1, <2>2, <2>3, <2>4, <2>5 DEF PathOf
<1> QED  BY <1>1, <1>2

\* Given that the names of a directory fit in its sector and that the slots give
\* each back, a mount leaves a tree: the directories of littlefs and no other,
\* each in its sector, where the searches of mimic_fat.c find their way
\* (create_dir_entry_cache, restore_directory_from).
THEOREM BuilderLeavesVolume ==
    ASSUME NamesShown, NamesFit PROVE BuildSpec => []VolumeBuilt
<1>1. BuildInv /\ TreeInv => VolumeBuilt
  <2> SUFFICES ASSUME BuildInv, TreeInv, Built
      PROVE  /\ Directories = {<<>>} \union {p \in DOMAIN lfs : lfs[p] = DIR}
             /\ Volume(tmp, Directories,
                       [p \in Directories |-> CHOOSE c \in DOMAIN tmp : PathOf(c) = p])
    BY DEF VolumeBuilt
  <2>1. PICK P, place : Finished(P, place, lfs, listing, allocated, tmp)
    BY BuiltFinished
  <2>2. lfs \in Trees /\ Apart(listing)
    BY DEF BuildInv
  <2>3. Volume(tmp, P, place)
    BY <2>1, <2>2, FinishedVolume
  <2>4. P = {<<>>} \union {p \in DOMAIN lfs : lfs[p] = DIR}
    BY <2>1, <2>2, AllVisited
  <2>5. DOMAIN tmp = {place[p] : p \in P} /\ place \in [P -> Cluster]
    BY <2>1, <2>3 DEF Finished, Volume, Situated
  <2>6. \A p \in P : PathOf(place[p]) = p
    BY <2>3, PathFound
  <2>7. Directories = P
    <3>1. \A x \in Directories : x \in P
      BY <2>5, <2>6 DEF Directories
    <3>2. \A p \in P : p \in Directories
      BY <2>5, <2>6 DEF Directories
    <3> QED  BY <3>1, <3>2
  <2> DEFINE found == [p \in P |-> CHOOSE c \in DOMAIN tmp : PathOf(c) = p]
  <2>8. \A p \in P : found[p] = place[p]
    <3> TAKE p \in P
    <3>1. place[p] \in DOMAIN tmp /\ PathOf(place[p]) = p
      BY <2>5, <2>6
    <3>2. \A c \in DOMAIN tmp : PathOf(c) = p => c = place[p]
      BY <2>5, <2>6
    <3> QED  BY <3>1, <3>2
  <2>9. found = place
    <3>1. found = [p \in P |-> found[p]] /\ place = [p \in P |-> place[p]]
      BY <2>5
    <3> HIDE DEF found
    <3> QED  BY <2>8, <3>1
  <2> QED  BY <2>3, <2>4, <2>7, <2>9
<1> QED  BY <1>1, TreeInvariant, PTL
=============================================================================
