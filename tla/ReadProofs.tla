----------------------------- MODULE ReadProofs -----------------------------
(***************************************************************************)
(* What a macOS host reads back, for every size of the disk.  Each chain   *)
(* of the table is a thread: it ascends, and nothing else leads into it,   *)
(* so that the search of the drive goes back along it to its start, and    *)
(* what the cache has of an earlier search never leads it astray.  The     *)
(* invariant ReadInv follows the table through the sectors a host sends.   *)
(* With it and HostInv, every variable of the drive keeps its type.        *)
(***************************************************************************)
EXTENDS HostProofs

-----------------------------------------------------------------------------
(* The way back from a cluster to the start of its chain.                  *)

\* The first of one number.
LEMMA FirstAlone == ASSUME NEW n \in Nat PROVE First({n}) = n
<1>1. n <= n
  OBVIOUS
<1> QED  BY <1>1 DEF First

\* A chain of ascending clusters that nothing else leads into.
Threaded(f, w) ==
    /\ Linked(f, w)
    /\ \A j, k \in 1..Len(w) : j < k => w[j] < w[k]
    /\ \A k \in 1..Len(w) : Predecessors(f, w[k]) = IF k = 1 THEN {} ELSE {w[k - 1]}

\* What base_cluster_cache has after a search that found cluster k of chain w.
Place(w, k) == Where(w[1], k - 1, w[k])
Based(f, cache) ==
    cache = NoBase \/ \E w : Threaded(f, w) /\ \E k \in 1..Len(w) : cache = Place(w, k).bcc

\* Two such chains that meet are at the same place of the same chain.
LEMMA Meeting ==
    ASSUME NEW f, NEW v, NEW w, Threaded(f, v), Threaded(f, w),
           NEW l \in 1..Len(v), NEW k \in 1..Len(w), v[l] = w[k]
    PROVE  l = k /\ v[1] = w[1]
<1> DEFINE T == {n \in Nat : n \in 1..Len(v) =>
                     \A m \in 1..Len(w) : v[n] = w[m] => n = m /\ v[1] = w[1]}
<1>1. Len(v) \in Nat /\ Len(w) \in Nat
  BY FromParts DEF Threaded, Linked
<1>2. 0 \in T
  BY <1>1
<1>3. ASSUME NEW n \in Nat, n \in T PROVE n + 1 \in T
  <2> SUFFICES ASSUME n + 1 \in 1..Len(v), NEW m \in 1..Len(w), v[n + 1] = w[m]
               PROVE  n + 1 = m /\ v[1] = w[1]
    OBVIOUS
  <2>1. /\ Predecessors(f, v[n + 1]) = IF n + 1 = 1 THEN {} ELSE {v[(n + 1) - 1]}
        /\ Predecessors(f, w[m]) = IF m = 1 THEN {} ELSE {w[m - 1]}
    BY DEF Threaded
  <2> PICK A : A = Predecessors(f, w[m])
    OBVIOUS
  <2>2. CASE n = 0
    <3>1. A = {}
      BY <2>1, <2>2
    <3>2. m # 1 => w[m - 1] \in A
      BY <2>1
    <3> QED  BY <2>2, <3>1, <3>2
  <2>3. CASE n # 0
    <3>1. m # 1 /\ v[n] = w[m - 1] /\ (n + 1) - 1 = n
      <4>1. (n + 1) - 1 = n /\ n + 1 # 1
        BY <2>3
      <4>2. A = {v[n]}
        BY <2>1, <4>1
      <4>3. m # 1 /\ A = {w[m - 1]}
        BY <2>1, <4>2
      <4> QED  BY <4>1, <4>2, <4>3
    <3>2. n \in 1..Len(v) /\ m - 1 \in 1..Len(w)
      BY <1>1, <2>3, <3>1
    <3>3. n = m - 1 /\ v[1] = w[1]
      BY <1>3, <3>1, <3>2
    <3> QED  BY <3>3
  <2> QED  BY <2>2, <2>3
<1>4. l \in T
  <2> HIDE DEF T
  <2>1. \A n \in Nat : n \in T
    BY <1>2, <1>3, Induction
  <2> QED  BY <1>1, <2>1
<1> QED  BY <1>1, <1>4

\* A search that the last one does not help goes back to the start.
LEMMA WholeWay ==
    ASSUME NEW f, NEW w, Threaded(f, w), NEW k \in 1..Len(w), NEW start, NEW c, NEW h,
           WalksBy(h, f, start, c), \A j \in 1..(k - 1) : start.cluster # w[j]
    PROVE  h[NumClusters][w[k]] = Missed(c, w[1], k - 1)
<1> DEFINE T == {n \in Nat : n + 1 \in 1..k => \A left \in n..NumClusters :
                     h[left][w[n + 1]] = Missed(c, w[1], NumClusters - (left - n))}
<1>1. Len(w) \in Nat /\ Len(w) <= NumClusters /\ NumClusters \in Nat
  BY FromParts, ClusterAssumption DEF Threaded, Linked
<1>2. \A n \in 1..Len(w) : w[n] \in Cluster /\ w[n] \in Nat
  <2> SUFFICES ASSUME NEW n \in 1..Len(w) PROVE w[n] \in Cluster /\ w[n] \in Nat
    OBVIOUS
  <2>1. w[n] \in 2..NumClusters
    BY ElementOfSeq DEF Threaded, Linked
  <2> QED  BY <2>1, ClusterAssumption DEF Cluster
<1>3. \A left \in 0..NumClusters : \A n \in 1..Len(w) :
        h[left][w[n]] = IF left = 0 \/ Predecessors(f, w[n]) = {}
                        THEN Missed(c, w[n], NumClusters - left)
                        ELSE IF start.cluster = First(Predecessors(f, w[n]))
                        THEN Helped(start, w[n], (NumClusters - left) + 1 + start.offset)
                        ELSE h[left - 1][First(Predecessors(f, w[n]))]
  BY <1>2 DEF WalksBy
<1>4. 0 \in T
  <2> SUFFICES ASSUME NEW left \in 0..NumClusters
               PROVE  h[left][w[1]] = Missed(c, w[1], NumClusters - (left - 0))
    OBVIOUS
  <2>1. 1 \in 1..Len(w) /\ left - 0 = left
    BY <1>1
  <2>2. Predecessors(f, w[1]) = {}
    BY <2>1 DEF Threaded
  <2> QED  BY <1>3, <2>1, <2>2
<1>5. ASSUME NEW n \in Nat, n \in T PROVE n + 1 \in T
  <2> SUFFICES ASSUME (n + 1) + 1 \in 1..k, NEW left \in (n + 1)..NumClusters
               PROVE  h[left][w[(n + 1) + 1]] = Missed(c, w[1], NumClusters - (left - (n + 1)))
    OBVIOUS
  <2> DEFINE m == (n + 1) + 1
  <2>1. /\ m \in 1..Len(w) /\ m # 1 /\ m - 1 = n + 1 /\ n + 1 \in 1..Len(w)
        /\ n + 1 \in 1..(k - 1) /\ n + 1 \in 1..k
        /\ left \in 0..NumClusters /\ left # 0 /\ left - 1 \in n..NumClusters
        /\ (left - 1) - n = left - (n + 1)
    BY <1>1
  <2>2. Predecessors(f, w[m]) = {w[n + 1]}
    <3> HIDE DEF m
    <3>1. Predecessors(f, w[m]) = {w[m - 1]}
      BY <2>1 DEF Threaded
    <3> QED  BY <2>1, <3>1
  <2>3. First({w[n + 1]}) = w[n + 1]
    BY <1>2, <2>1, FirstAlone
  <2>4. h[left][w[m]] = h[left - 1][w[n + 1]]
    <3> HIDE DEF m
    <3> QED  BY <1>3, <2>1, <2>2, <2>3
  <2>5. h[left - 1][w[n + 1]] = Missed(c, w[1], NumClusters - ((left - 1) - n))
    BY <1>5, <2>1
  <2> QED  BY <2>1, <2>4, <2>5
<1>6. k - 1 \in T
  <2> HIDE DEF T
  <2>1. \A n \in Nat : n \in T
    BY <1>4, <1>5, Induction
  <2> QED  BY <1>1, <2>1
<1>7. /\ NumClusters \in (k - 1)..NumClusters /\ (k - 1) + 1 = k /\ k \in 1..k
      /\ NumClusters - (NumClusters - (k - 1)) = k - 1
  BY <1>1
<1> QED  BY <1>6, <1>7

\* find_base_cluster_and_offset gives the start of the chain and the offset.
LEMMA Located ==
    ASSUME NEW f, NEW w, Threaded(f, w), NEW cache, Based(f, cache), NEW k \in 1..Len(w)
    PROVE  find_base_cluster_and_offset(f, cache, w[k]) = Place(w, k)
<1>1. /\ w[k] \in 2..NumClusters /\ w[k] \in Cluster /\ w[k] \in Nat /\ f[w[k]] # FREE
      /\ \A j \in 1..Len(w) : w[j] \in 2..NumClusters /\ w[j] \in Nat
      /\ Len(w) \in Nat /\ NumClusters \in Nat
  <2>1. Cells(w) \subseteq 2..NumClusters /\ \A c \in Cells(w) : f[c] # FREE
    BY LinkedCells DEF Threaded
  <2>2. \A j \in 1..Len(w) : w[j] \in Cells(w)
    BY DEF Cells
  <2>3. Len(w) \in Nat
    BY FromParts DEF Threaded, Linked
  <2> QED  BY <2>1, <2>2, <2>3, ClusterAssumption DEF Cluster
<1> PICK start : start = Reset(cache, w[k])
  OBVIOUS
<1>2. PICK h : /\ WalksBy(h, f, start, w[k])
               /\ find_base_cluster_and_offset(f, cache, w[k]) = h[NumClusters][w[k]]
  BY <1>1, WalkUnfolds
<1>3. CASE \A j \in 1..(k - 1) : start.cluster # w[j]
  <2>1. h[NumClusters][w[k]] = Missed(w[k], w[1], k - 1)
    BY <1>2, <1>3, WholeWay
  <2> QED  BY <1>2, <2>1 DEF Missed, Place, Where
<1>4. CASE ~ \A j \in 1..(k - 1) : start.cluster # w[j]
  <2>1. PICK j \in 1..(k - 1) : start.cluster = w[j]
    BY <1>4
  <2>2. start # NoBase
    <3>1. NoBase.cluster = 0 /\ j \in 1..Len(w)
      BY <1>1 DEF NoBase
    <3> QED  BY <1>1, <2>1, <3>1
  <2>3. start = cache /\ cache.cluster + 1 = w[k]
    BY <2>2 DEF Reset
  <2>4. j = k - 1 /\ k # 1
    <3>1. j \in 1..Len(w) /\ k - 1 \in 1..Len(w)
      BY <1>1
    <3>2. w[j] + 1 = w[k]
      BY <2>1, <2>3
    <3>3. j < k - 1 => w[j] < w[k - 1] /\ w[k - 1] < w[k]
      BY <1>1, <3>1 DEF Threaded
    <3> QED  BY <1>1, <3>1, <3>2, <3>3
  <2>5. PICK v, l : Threaded(f, v) /\ l \in 1..Len(v) /\ cache = Place(v, l).bcc
    BY <2>2, <2>3 DEF Based
  <2>6. cache.cluster = v[l] /\ cache.base_cluster = v[1] /\ cache.offset = l - 1
    BY <2>5 DEF Place, Where
  <2>7. v[l] = w[k - 1] /\ k - 1 \in 1..Len(w)
    BY <1>1, <2>1, <2>3, <2>4, <2>6
  <2>8. l = k - 1 /\ v[1] = w[1]
    BY <2>5, <2>7, Meeting
  <2>9. Predecessors(f, w[k]) = {w[k - 1]} /\ First({w[k - 1]}) = w[k - 1]
    <3>1. Predecessors(f, w[k]) = {w[k - 1]}
      BY <2>4 DEF Threaded
    <3> QED  BY <1>1, <2>7, <3>1, FirstAlone
  <2>10. /\ NumClusters \in 0..NumClusters /\ NumClusters # 0
         /\ (NumClusters - NumClusters) + 1 + (l - 1) = k - 1
    BY <1>1, <2>5, <2>8
  <2>11. h[NumClusters][w[k]]
           = Helped(start, w[k], (NumClusters - NumClusters) + 1 + start.offset)
    BY <1>1, <1>2, <2>1, <2>4, <2>9, <2>10 DEF WalksBy
  <2>12. h[NumClusters][w[k]] = Helped(start, w[k], k - 1) /\ start.base_cluster = w[1]
    BY <2>3, <2>6, <2>8, <2>10, <2>11
  <2> QED  BY <1>2, <2>12 DEF Helped, Place, Where
<1> QED  BY <1>3, <1>4

-----------------------------------------------------------------------------
(* The table, as chains come and go.                                       *)

\* No cluster leads to a free one.
NoneDangles(f) == \A c \in 0..NumClusters - 1 : f[c] \in 2..NumClusters => f[f[c]] # FREE

\* Every chain of one table is a chain of the other.
Grown(f, g) == \A v : Threaded(f, v) => Threaded(g, v)

\* What leads to a data cluster is any entry that holds its number.
LEMMA LeadsTo ==
    ASSUME TableFits, NEW f, NEW c \in 2..NumClusters
    PROVE  Predecessors(f, c) = {i \in 0..NumClusters - 1 : f[i] = c}
<1>1. ~EndsChain(c)
  BY ClusterAssumption DEF TableFits, EndsChain, FREE, MEDIA
<1> QED  BY <1>1 DEF Predecessors

\* The values in the cells of a chain are its end and its clusters.
LEMMA CellValues ==
    ASSUME TableFits, NEW f, NEW w, Linked(f, w)
    PROVE  /\ EOC \notin 2..NumClusters /\ FREE \notin 2..NumClusters
           /\ Cells(w) \subseteq 2..NumClusters
           /\ \A k \in 1..Len(w) : w[k] \in Cells(w)
           /\ \A c \in Cells(w) : f[c] = EOC \/ f[c] \in Cells(w)
           /\ \A c \in Cells(w) : f[c] # FREE
           /\ \A k \in 1..Len(w) : \A i \in Cells(w) : f[i] = w[k] => k # 1 /\ i = w[k - 1]
<1>1. /\ Cells(w) \subseteq 2..NumClusters /\ \A c \in Cells(w) : f[c] # FREE
      /\ Len(w) \in Nat
  BY LinkedCells, FromParts DEF Linked
<1>2. EOC \notin 2..NumClusters /\ FREE \notin 2..NumClusters
  BY ClusterAssumption DEF TableFits, EOC, FREE, MEDIA
<1>3. \A k \in 1..Len(w) : w[k] \in Cells(w)
  BY DEF Cells
<1>4. \A j \in 1..Len(w) : f[w[j]] = IF j = Len(w) THEN EOC ELSE w[j + 1]
  BY DEF Linked
<1>5. ASSUME NEW c \in Cells(w) PROVE f[c] = EOC \/ f[c] \in Cells(w)
  <2>1. PICK j \in 1..Len(w) : c = w[j]
    BY DEF Cells
  <2>2. j # Len(w) => j + 1 \in 1..Len(w)
    BY <1>1
  <2> QED  BY <1>3, <1>4, <2>1, <2>2
<1>6. ASSUME NEW k \in 1..Len(w), NEW i \in Cells(w), f[i] = w[k]
      PROVE  k # 1 /\ i = w[k - 1]
  <2>1. PICK j \in 1..Len(w) : i = w[j]
    BY DEF Cells
  <2>2. f[i] # EOC
    BY <1>1, <1>2, <1>3, <1>6
  <2>3. j # Len(w) /\ w[j + 1] = w[k]
    BY <1>4, <1>6, <2>1, <2>2
  <2>4. j + 1 \in 1..Len(w)
    BY <1>1, <2>3
  <2>5. j + 1 = k
    BY <2>3, <2>4 DEF Linked
  <2>6. k # 1 /\ j = k - 1
    BY <1>1, <2>5
  <2> QED  BY <2>1, <2>6
<1> QED  BY <1>1, <1>2, <1>3, <1>5, <1>6

\* A chain that keeps its cells keeps what leads into it, if nothing new does.
LEMMA ThreadKept ==
    ASSUME NEW f, NEW g, NEW v, Threaded(f, v), \A c \in Cells(v) : g[c] = f[c],
           \A c \in Cells(v) : Predecessors(g, c) = Predecessors(f, c)
    PROVE  Threaded(g, v)
<1>1. Linked(g, v)
  BY LinkedKept DEF Threaded
<1>2. \A k \in 1..Len(v) : v[k] \in Cells(v)
  BY DEF Cells
<1> QED  BY <1>1, <1>2 DEF Threaded

\* A new chain in free clusters.
LEMMA ThreadAdded ==
    ASSUME TableFits, NEW f, NoneDangles(f), NEW w, Separate(w), Ascends(w),
           \A c \in Cells(w) : f[c] = FREE, NEW g, g = Allocate(f, w)
    PROVE  NoneDangles(g) /\ Threaded(g, w) /\ Grown(f, g)
<1>1. Linked(g, w) /\ \A c \in Cluster : c \notin Cells(w) => g[c] = f[c]
  BY Allocated
<1>2. /\ EOC \notin 2..NumClusters /\ FREE \notin 2..NumClusters
      /\ Cells(w) \subseteq 2..NumClusters
      /\ \A k \in 1..Len(w) : w[k] \in Cells(w)
      /\ \A c \in Cells(w) : g[c] = EOC \/ g[c] \in Cells(w)
      /\ \A c \in Cells(w) : g[c] # FREE
      /\ \A k \in 1..Len(w) : \A i \in Cells(w) : g[i] = w[k] => k # 1 /\ i = w[k - 1]
  BY <1>1, CellValues
<1>3. \A c \in 0..NumClusters - 1 : c \in Cluster
  BY ClusterAssumption DEF Cluster
<1>4. ASSUME NEW c \in 0..NumClusters - 1, g[c] \in 2..NumClusters PROVE g[g[c]] # FREE
  <2>1. CASE c \in Cells(w)
    BY <1>2, <1>4, <2>1
  <2>2. CASE c \notin Cells(w)
    <3>1. g[c] = f[c] /\ f[f[c]] # FREE
      BY <1>1, <1>3, <1>4, <2>2 DEF NoneDangles
    <3>2. f[c] \notin Cells(w) /\ f[c] \in Cluster
      BY <1>4, <3>1 DEF Cluster
    <3> QED  BY <1>1, <3>1, <3>2
  <2> QED  BY <2>1, <2>2
<1>5. Threaded(g, w)
  <2>1. ASSUME NEW k \in 1..Len(w)
        PROVE  Predecessors(g, w[k]) = IF k = 1 THEN {} ELSE {w[k - 1]}
    <3>1. w[k] \in 2..NumClusters /\ w[k] \in Cells(w) /\ Len(w) \in Nat
      BY <1>1, <1>2, FromParts DEF Linked
    <3>2. Predecessors(g, w[k]) = {i \in 0..NumClusters - 1 : g[i] = w[k]}
      BY <3>1, LeadsTo
    <3>3. ASSUME NEW i \in 0..NumClusters - 1, g[i] = w[k] PROVE k # 1 /\ i = w[k - 1]
      <4>1. i \in Cells(w)
        <5> SUFFICES ASSUME i \notin Cells(w) PROVE FALSE
          OBVIOUS
        <5>1. f[i] = w[k]
          BY <1>1, <1>3, <3>3
        <5>2. f[w[k]] # FREE
          BY <3>1, <5>1 DEF NoneDangles
        <5> QED  BY <3>1, <5>2
      <4> QED  BY <1>2, <3>3, <4>1
    <3>4. k # 1 => w[k - 1] \in 0..NumClusters - 1 /\ g[w[k - 1]] = w[k]
      <4> SUFFICES ASSUME k # 1
                   PROVE  w[k - 1] \in 0..NumClusters - 1 /\ g[w[k - 1]] = w[k]
        OBVIOUS
      <4>1. k - 1 \in 1..Len(w) /\ k - 1 # Len(w) /\ (k - 1) + 1 = k /\ k - 1 < k
        BY <3>1
      <4>2. w[k - 1] < w[k] /\ w[k - 1] \in 2..NumClusters
        BY <1>2, <4>1 DEF Ascends
      <4>3. g[w[k - 1]] = w[k]
        BY <1>1, <4>1 DEF Linked
      <4> QED  BY <3>1, <4>2, <4>3, ClusterAssumption
    <3>5. CASE k = 1
      BY <3>2, <3>3, <3>5
    <3>6. CASE k # 1
      BY <3>2, <3>3, <3>4, <3>6
    <3> QED  BY <3>5, <3>6
  <2> QED  BY <1>1, <2>1 DEF Threaded, Ascends
<1>6. ASSUME NEW v, Threaded(f, v) PROVE Threaded(g, v)
  <2>1. Linked(f, v)
    BY <1>6 DEF Threaded
  <2>2. Cells(v) \subseteq 2..NumClusters /\ \A c \in Cells(v) : f[c] # FREE
    BY <2>1, LinkedCells
  <2>3. \A c \in Cells(v) : c \notin Cells(w) /\ g[c] = f[c]
    BY <1>1, <2>2 DEF Cluster
  <2>4. ASSUME NEW c \in Cells(v) PROVE Predecessors(g, c) = Predecessors(f, c)
    <3>1. c \in 2..NumClusters /\ c \notin Cells(w)
      BY <2>2, <2>3
    <3>2. \A i \in 0..NumClusters - 1 : g[i] = c <=> f[i] = c
      <4> SUFFICES ASSUME NEW i \in 0..NumClusters - 1 PROVE g[i] = c <=> f[i] = c
        OBVIOUS
      <4>1. CASE i \in Cells(w)
        <5>1. g[i] # c
          BY <1>2, <3>1, <4>1
        <5>2. f[i] # c
          BY <1>2, <3>1, <4>1
        <5> QED  BY <5>1, <5>2
      <4>2. CASE i \notin Cells(w)
        BY <1>1, <1>3, <4>2
      <4> QED  BY <4>1, <4>2
    <3>3. /\ Predecessors(g, c) = {i \in 0..NumClusters - 1 : g[i] = c}
          /\ Predecessors(f, c) = {i \in 0..NumClusters - 1 : f[i] = c}
      BY <3>1, LeadsTo
    <3> QED  BY <3>2, <3>3
  <2> QED  BY <1>6, <2>3, <2>4, ThreadKept
<1> QED  BY <1>4, <1>5, <1>6 DEF NoneDangles, Grown

\* A chain is freed.
LEMMA ThreadFreed ==
    ASSUME TableFits, NEW f, NoneDangles(f), NEW v, Threaded(f, v), NEW g, g = Release(f, v[1])
    PROVE  /\ NoneDangles(g)
           /\ \A w : Threaded(f, w) /\ Cells(w) \intersect Cells(v) = {} => Threaded(g, w)
<1>1. Linked(f, v) /\ ChainOf(f, v[1]) = v
  BY ChainWhole DEF Threaded
<1>2. /\ EOC \notin 2..NumClusters /\ FREE \notin 2..NumClusters
      /\ Cells(v) \subseteq 2..NumClusters
      /\ \A k \in 1..Len(v) : v[k] \in Cells(v)
      /\ \A c \in Cells(v) : f[c] = EOC \/ f[c] \in Cells(v)
  BY <1>1, CellValues
<1>3. \A c \in Cluster : g[c] = IF c \in Cells(v) THEN FREE ELSE f[c]
  BY <1>1 DEF Release, Cells
<1>4. \A c \in 0..NumClusters - 1 : c \in Cluster
  BY ClusterAssumption DEF Cluster
<1>5. ASSUME NEW c \in 0..NumClusters - 1, g[c] \in 2..NumClusters PROVE g[g[c]] # FREE
  <2>1. c \notin Cells(v) /\ g[c] = f[c]
    BY <1>2, <1>3, <1>4, <1>5
  <2>2. f[f[c]] # FREE /\ f[c] \in 2..NumClusters
    BY <1>5, <2>1 DEF NoneDangles
  <2>3. f[c] \notin Cells(v)
    <3> SUFFICES ASSUME f[c] \in Cells(v) PROVE FALSE
      OBVIOUS
    <3>1. PICK k \in 1..Len(v) : f[c] = v[k]
      BY DEF Cells
    <3>2. c \in Predecessors(f, v[k])
      BY <2>2, <3>1, LeadsTo
    <3>3. Len(v) \in Nat
      BY <1>1, FromParts DEF Linked
    <3>4. k # 1 /\ c = v[k - 1]
      BY <3>2 DEF Threaded
    <3>5. k - 1 \in 1..Len(v)
      BY <3>3, <3>4
    <3> QED  BY <1>2, <2>1, <3>4, <3>5
  <2>4. g[f[c]] = f[f[c]]
    BY <1>3, <2>2, <2>3 DEF Cluster
  <2> QED  BY <2>1, <2>2, <2>4
<1>6. ASSUME NEW w, Threaded(f, w), Cells(w) \intersect Cells(v) = {} PROVE Threaded(g, w)
  <2>1. Linked(f, w)
    BY <1>6 DEF Threaded
  <2>2. Cells(w) \subseteq 2..NumClusters
    BY <2>1, LinkedCells
  <2>3. \A c \in Cells(w) : c \notin Cells(v) /\ g[c] = f[c]
    BY <1>3, <1>6, <2>2 DEF Cluster
  <2>4. ASSUME NEW c \in Cells(w) PROVE Predecessors(g, c) = Predecessors(f, c)
    <3>1. c \in 2..NumClusters /\ c \notin Cells(v)
      BY <2>2, <2>3
    <3>2. \A i \in 0..NumClusters - 1 : g[i] = c <=> f[i] = c
      <4> SUFFICES ASSUME NEW i \in 0..NumClusters - 1 PROVE g[i] = c <=> f[i] = c
        OBVIOUS
      <4>1. CASE i \in Cells(v)
        <5>1. g[i] = FREE
          BY <1>3, <1>4, <4>1
        <5>2. f[i] # c
          BY <1>2, <3>1, <4>1
        <5> QED  BY <1>2, <3>1, <5>1, <5>2
      <4>2. CASE i \notin Cells(v)
        BY <1>3, <1>4, <4>2
      <4> QED  BY <4>1, <4>2
    <3>3. /\ Predecessors(g, c) = {i \in 0..NumClusters - 1 : g[i] = c}
          /\ Predecessors(f, c) = {i \in 0..NumClusters - 1 : f[i] = c}
      BY <3>1, LeadsTo
    <3> QED  BY <3>2, <3>3
  <2> QED  BY <1>6, <2>3, <2>4, ThreadKept
<1> QED  BY <1>5, <1>6 DEF NoneDangles

-----------------------------------------------------------------------------
(* The invariant of the reads.                                             *)

\* A thread starts at the cluster of each file of the sector.
Starts(f, c) == \E w : Threaded(f, w) /\ w[1] = c
Threads(f, s) == NoneDangles(f) /\ \A i \in Named(s) : Starts(f, s[i].clus)

\* Every allocated cluster is in a thread.
Whole(f) == \A c \in 2..NumClusters : f[c] # FREE => \E w : Threaded(f, w) /\ c \in Cells(w)

\* The table the drive will have when the host has sent all it has to send.
Row(x) == \E T : x \in Seq(T)
Pending(g) == /\ \A k \in 1..Len(todo) : todo[k].at = FatArea => todo[k].data = g
              /\ (\A k \in 1..Len(todo) : todo[k].at # FatArea) => g = fat

\* A host that reads, and drops no chain. An update or a deletion frees one,
\* and leaves its clusters in the cache: see the run stale_base.
Reading == "read" \in Ops /\ Ops \subseteq {"createMac", "renameMac", "touch", "read"}
TableInv == \E g : /\ Row(todo) /\ Pending(g)
                   /\ g \in Fat /\ Threads(g, H)
                   /\ Reading => Whole(g) /\ Grown(fat, g)
CacheInv == /\ Reading => Whole(fat) /\ Based(fat, bcc)
            /\ "read" \notin Ops => bcc = NoBase
ReadInv == TableInv /\ CacheInv

\* Unless it only creates, renames and touches, the host does not read.
ReadsMore == "read" \in Ops => Reading

\* The search of a cluster the table holds free leaves the cache alone.
LEMMA FreeSearch ==
    ASSUME NEW f, NEW cache, NEW c, f[c] = FREE
    PROVE  /\ find_base_cluster_and_offset(f, cache, c).bcc = cache
           /\ find_base_cluster_and_offset(f, cache, c).base = 0
BY DEF find_base_cluster_and_offset

\* A chain is entered in a table, or freed, with values of the type.
LEMMA TablesTyped ==
    ASSUME NEW f \in Fat
    PROVE  /\ \A w : Separate(w) => Allocate(f, w) \in Fat
           /\ \A c : Release(f, c) \in Fat
<1>1. FREE \in FatValue /\ EOC \in FatValue /\ \A c \in Cluster : f[c] \in FatValue
  BY ClusterAssumption DEF FREE, EOC, FatValue, Cluster, Fat
<1>2. ASSUME NEW w, Separate(w) PROVE Allocate(f, w) \in Fat
  <2> SUFFICES ASSUME NEW c \in Cluster, NEW k \in 1..Len(w)
               PROVE  (IF k = Len(w) THEN EOC ELSE w[k + 1]) \in FatValue
    BY <1>1 DEF Allocate, Fat
  <2>1. \A j \in 1..Len(w) : w[j] \in 2..NumClusters
    BY <1>2, ElementOfSeq DEF Separate
  <2>2. Len(w) \in Nat
    BY <1>2, LenProperties DEF Separate
  <2>3. k # Len(w) => k + 1 \in 1..Len(w)
    BY <2>2
  <2>4. 2..NumClusters \subseteq FatValue
    BY ClusterAssumption DEF FatValue, Cluster
  <2> QED  BY <1>1, <2>1, <2>3, <2>4
<1>3. ASSUME NEW c PROVE Release(f, c) \in Fat
  BY <1>1 DEF Release, Fat
<1> QED  BY <1>2, <1>3

\* A table keeps its own chains.
LEMMA GrownSame == ASSUME NEW f PROVE Grown(f, f)
BY DEF Grown

\* The chains of a sector stay when the table grows.
LEMMA GrownStarts ==
    ASSUME NEW f, NEW g, Grown(f, g), NEW s, Threads(f, s), NoneDangles(g)
    PROVE  Threads(g, s)
BY DEF Grown, Threads, Starts

\* A sequence without its head.
LEMMA RowTail ==
    ASSUME NEW x, Row(x), x # <<>>
    PROVE  /\ Row(Tail(x)) /\ Head(x) = x[1] /\ 1 \in 1..Len(x)
           /\ \A k \in 1..Len(Tail(x)) : Tail(x)[k] = x[k + 1] /\ k + 1 \in 1..Len(x)
           /\ \A k \in 1..Len(x) : k = 1 \/ (k - 1 \in 1..Len(Tail(x)) /\ Tail(x)[k - 1] = x[k])
<1> PICK T : x \in Seq(T)
  BY DEF Row
<1>1. /\ Tail(x) \in Seq(T) /\ Len(x) \in Nat /\ Len(x) > 0
      /\ Len(Tail(x)) = Len(x) - 1 /\ Head(x) = x[1]
      /\ \A k \in 1..Len(Tail(x)) : Tail(x)[k] = x[k + 1]
  OBVIOUS
<1>2. ASSUME NEW k \in 1..Len(x), k # 1
      PROVE  k - 1 \in 1..Len(Tail(x)) /\ Tail(x)[k - 1] = x[k]
  <2>1. k - 1 \in 1..Len(Tail(x)) /\ (k - 1) + 1 = k
    BY <1>1, <1>2
  <2> QED  BY <1>1, <2>1
<1> QED  BY <1>1, <1>2 DEF Row

\* The sectors of a plan that sends blocks first are a sequence.
LEMMA WritesRow ==
    ASSUME NEW w, NEW x, Len(x) \in Nat, NEW T, NEW l \in Seq(T)
    PROVE  /\ Row(Writes(w, x, 0, l))
           /\ \A k \in 1..Len(Writes(w, x, 0, l)) :
                 \/ k \in 1..Len(x) /\ Writes(w, x, 0, l)[k].at = w[k]
                 \/ \E m \in 1..Len(l) : Writes(w, x, 0, l)[k] = l[m]
           /\ \A m \in 1..Len(l) : Includes(Writes(w, x, 0, l), l[m])
<1> DEFINE v == Writes(w, x, 0, l)
           n == Len(x) + Len(l)
<1>1. n \in Nat /\ Len(l) \in Nat
  OBVIOUS
<1>2. v = [k \in 1..n |-> IF k <= Len(x) THEN [at |-> w[k], data |-> x[k], touched |-> TRUE]
                          ELSE l[k - Len(x)]]
  <2>1. Len(x) - 0 = Len(x) /\ \A k \in 1..n : 0 + k = k
    BY <1>1
  <2> QED  BY <2>1 DEF Writes
<1> HIDE DEF n
<1>3. v \in [1..n -> {v[k] : k \in 1..n}]
  <2> HIDE DEF v
  <2>1. v = [k \in 1..n |-> v[k]]
    BY <1>2
  <2> QED  BY <2>1
<1>4. v \in Seq({v[k] : k \in 1..n}) /\ Len(v) = n
  <2> HIDE DEF v
  <2>1. v \in Seq({v[k] : k \in 1..n})
    BY <1>1, <1>3, SeqDef
  <2> QED  BY <1>1, <1>3, <2>1, LenProperties
<1>5. ASSUME NEW k \in 1..n
      PROVE  (k \in 1..Len(x) /\ v[k].at = w[k]) \/ \E m \in 1..Len(l) : v[k] = l[m]
  <2>1. CASE k <= Len(x)
    <3>1. v[k] = [at |-> w[k], data |-> x[k], touched |-> TRUE]
      BY <1>2, <2>1
    <3> QED  BY <1>1, <2>1, <3>1
  <2>2. CASE ~(k <= Len(x))
    <3>1. v[k] = l[k - Len(x)] /\ k - Len(x) \in 1..Len(l)
      BY <1>1, <1>2, <2>2 DEF n
    <3> QED  BY <3>1
  <2> QED  BY <2>1, <2>2
<1>6. \A m \in 1..Len(l) : Includes(v, l[m])
  BY <1>1, AfterBlocks
<1> QED  BY <1>4, <1>5, <1>6 DEF Row

-----------------------------------------------------------------------------
(* What a request does to the table.                                       *)

\* A chain that starts a thread is the thread, and stays it.
LEMMA ChainThreads ==
    ASSUME TableFits, NEW f, NEW c, Starts(f, c)
    PROVE  /\ Threaded(f, ChainOf(f, c)) /\ ChainOf(f, c)[1] = c
           /\ \A g : Grown(f, g) => Starts(g, c) /\ ChainOf(g, c) = ChainOf(f, c)
<1>1. PICK w : Threaded(f, w) /\ w[1] = c
  BY DEF Starts
<1>2. ChainOf(f, c) = w
  BY <1>1, ChainWhole DEF Threaded
<1>3. ASSUME NEW g, Grown(f, g) PROVE Starts(g, c) /\ ChainOf(g, c) = w
  <2>1. Threaded(g, w)
    BY <1>1, <1>3 DEF Grown
  <2> QED  BY <1>1, <2>1, ChainWhole DEF Starts, Threaded
<1> QED  BY <1>1, <1>2, <1>3

\* The table without the chain of one file.
LEMMA ThreadDropped ==
    ASSUME TableFits, NEW f, NEW s, Threads(f, s), NEW i \in Named(s),
           NEW g, g = Release(f, s[i].clus)
    PROVE  /\ NoneDangles(g)
           /\ \A j \in Named(s) : OwnChain(f, s, j, i) => Starts(g, s[j].clus)
           /\ \A w : Threaded(f, w) /\ Cells(w) \intersect Cells(Chain(f, s, i)) = {}
                        => Threaded(g, w)
<1> PICK v : v = Chain(f, s, i)
  OBVIOUS
<1>1. Threaded(f, v) /\ v[1] = s[i].clus /\ NoneDangles(f)
  BY ChainThreads DEF Threads, Chain
<1>2. /\ NoneDangles(g)
      /\ \A w : Threaded(f, w) /\ Cells(w) \intersect Cells(v) = {} => Threaded(g, w)
  BY <1>1, ThreadFreed
<1>3. ASSUME NEW j \in Named(s), OwnChain(f, s, j, i) PROVE Starts(g, s[j].clus)
  <2>1. Threaded(f, Chain(f, s, j)) /\ Chain(f, s, j)[1] = s[j].clus
    BY ChainThreads DEF Threads, Chain
  <2>2. Threaded(g, Chain(f, s, j))
    BY <1>2, <1>3, <2>1 DEF OwnChain
  <2> QED  BY <2>1, <2>2 DEF Starts
<1> QED  BY <1>2, <1>3

\* The table after a deletion.
LEMMA TableDeleted ==
    ASSUME TableFits, NEW f, NEW s, Threads(f, s), Chained(f, s), NEW i \in Named(s),
           NEW t, Named(t) = Named(s) \ {i}, \A j \in Named(s) \ {i} : t[j] = s[j]
    PROVE  Threads(Release(f, s[i].clus), t)
<1> PICK g : g = Release(f, s[i].clus)
  OBVIOUS
<1>1. /\ NoneDangles(g)
      /\ \A j \in Named(s) : OwnChain(f, s, j, i) => Starts(g, s[j].clus)
  BY ThreadDropped
<1>2. \A j \in Named(s) \ {i} : OwnChain(f, s, j, i)
  BY DEF Chained
<1> QED  BY <1>1, <1>2 DEF Threads

\* The table after a creation: every chain stays.
LEMMA TableCreated ==
    ASSUME TableFits, NEW f, NEW s, Threads(f, s), NEW w, Separate(w), Ascends(w),
           \A c \in Cells(w) : f[c] = FREE,
           NEW t, NEW i, Named(t) = Named(s) \union {i}, t[i].clus = w[1],
           \A j \in Named(s) \ {i} : t[j] = s[j],
           NEW g, g = Allocate(f, w)
    PROVE  /\ Threads(g, t) /\ Grown(f, g) /\ Threaded(g, w)
           /\ Whole(f) => Whole(g)
<1>1. NoneDangles(g) /\ Threaded(g, w) /\ Grown(f, g)
  BY ThreadAdded DEF Threads
<1>2. ASSUME NEW j \in Named(t) PROVE Starts(g, t[j].clus)
  <2>1. CASE j = i
    BY <1>1, <2>1 DEF Starts
  <2>2. CASE j # i
    <3>1. j \in Named(s) /\ t[j] = s[j] /\ Starts(f, s[j].clus)
      BY <2>2 DEF Threads
    <3> QED  BY <1>1, <3>1 DEF Starts, Grown
  <2> QED  BY <2>1, <2>2
<1>3. ASSUME Whole(f), NEW c \in 2..NumClusters, g[c] # FREE
      PROVE  \E v : Threaded(g, v) /\ c \in Cells(v)
  <2>1. CASE c \in Cells(w)
    BY <1>1, <2>1
  <2>2. CASE c \notin Cells(w)
    <3>1. g[c] = f[c]
      BY <2>2, Allocated DEF Cluster
    <3> QED  BY <1>1, <1>3, <3>1 DEF Whole, Grown
  <2> QED  BY <2>1, <2>2
<1> QED  BY <1>1, <1>2, <1>3 DEF Threads, Whole

\* The table after an update: the new chain comes, and the old one goes.
LEMMA TableUpdated ==
    ASSUME TableFits, NEW f, NEW s, Threads(f, s), Chained(f, s), NEW i \in Named(s),
           NEW w, Separate(w), Ascends(w), \A c \in Cells(w) : f[c] = FREE,
           NEW t, Named(t) = Named(s), t[i].clus = w[1], \A j \in Named(s) \ {i} : t[j] = s[j]
    PROVE  Threads(Release(Allocate(f, w), s[i].clus), t)
<1> PICK a : a = Allocate(f, w)
  OBVIOUS
<1> PICK g : g = Release(a, s[i].clus)
  OBVIOUS
<1>1. NoneDangles(a) /\ Threaded(a, w) /\ Grown(f, a)
  BY ThreadAdded DEF Threads
<1>2. Threads(a, s)
  BY <1>1, GrownStarts
<1>3. \A j \in Named(s) : Chain(a, s, j) = Chain(f, s, j)
  BY <1>1, ChainThreads DEF Threads, Chain
<1>4. /\ NoneDangles(g)
      /\ \A j \in Named(s) : OwnChain(a, s, j, i) => Starts(g, s[j].clus)
      /\ \A v : Threaded(a, v) /\ Cells(v) \intersect Cells(Chain(a, s, i)) = {} => Threaded(g, v)
  BY <1>2, ThreadDropped
<1>5. \A j \in Named(s) \ {i} : OwnChain(a, s, j, i)
  BY <1>3 DEF Chained, OwnChain
<1>6. Threaded(g, w)
  <2>1. Threaded(f, Chain(f, s, i))
    BY ChainThreads DEF Threads, Chain
  <2>2. \A c \in Cells(Chain(f, s, i)) : f[c] # FREE
    BY <2>1, LinkedCells DEF Threaded
  <2>3. Cells(w) \intersect Cells(Chain(a, s, i)) = {}
    BY <1>3, <2>2
  <2> QED  BY <1>1, <1>4, <2>3
<1>7. ASSUME NEW j \in Named(t) PROVE Starts(g, t[j].clus)
  <2>1. CASE j = i
    BY <1>6, <2>1 DEF Starts
  <2>2. CASE j # i
    BY <1>4, <1>5, <2>2
  <2> QED  BY <2>1, <2>2
<1> QED  BY <1>4, <1>7 DEF Threads

-----------------------------------------------------------------------------
(* The requests keep the invariant of the reads.                           *)

\* A plan, with the table it ends with.
LEMMA PlanPending ==
    ASSUME NEW v, Row(v), todo' = v, NEW g,
           \A k \in 1..Len(v) : v[k].at = FatArea => v[k] = FatWrite(g),
           Includes(v, FatWrite(g)) \/ g = fat'
    PROVE  Row(todo)' /\ Pending(g)'
<1>1. FatWrite(g).at = FatArea /\ FatWrite(g).data = g
  BY DEF FatWrite
<1>2. \A k \in 1..Len(todo') : todo'[k].at = FatArea => todo'[k].data = g
  BY <1>1
<1>3. (\A k \in 1..Len(todo') : todo'[k].at # FatArea) => g = fat'
  BY <1>1 DEF Includes
<1> QED  BY <1>2, <1>3 DEF Pending

\* Between operations the table is complete.
LEMMA SettledTable ==
    ASSUME Settled, TableInv
    PROVE  /\ fat \in Fat /\ Threads(fat, H) /\ (Reading => Whole(fat))
           /\ Layout(fat, H, files)
<1>1. PICK g : /\ Row(todo) /\ Pending(g)
               /\ g \in Fat /\ Threads(g, H)
               /\ Reading => Whole(g) /\ Grown(fat, g)
  BY DEF TableInv
<1>2. todo = <<>> /\ Layout(fat, H, files)
  BY DEF Settled
<1>3. g = fat
  BY <1>1, <1>2 DEF Pending
<1> QED  BY <1>1, <1>2, <1>3

\* A plan that writes the root alone and keeps the clusters of its files.
LEMMA RootPlanned ==
    ASSUME Settled, TableInv, NEW s, s = H, NEW name, NEW gone, NEW put, NEW t,
           Planned(name, gone, put, t, <<DirWrite(Root, t)>>),
           \A j \in Named(t) : \E k \in Named(s) : t[j].clus = s[k].clus
    PROVE  TableInv'
<1> PICK g : g = fat
  OBVIOUS
<1>1. g \in Fat /\ Threads(g, s) /\ (Reading => Whole(g))
  BY SettledTable
<1>2. Threads(g, t)
  BY <1>1 DEF Threads
<1> PICK d : d = DirWrite(Root, t)
  OBVIOUS
<1> PICK v : v = <<d>>
  OBVIOUS
<1>3. Row(v) /\ \A k \in 1..Len(v) : v[k].at # FatArea
  <2>1. v \in Seq({d}) /\ Len(v) = 1 /\ v[1] = d
    OBVIOUS
  <2>2. d.at # FatArea
    BY DEF DirWrite, Root, FatArea
  <2>3. Row(v)
    BY <2>1 DEF Row
  <2>4. \A k \in 1..Len(v) : k = 1
    BY <2>1
  <2> QED  BY <2>1, <2>2, <2>3, <2>4
<1>4. todo' = v /\ H' = t /\ fat' = g
  BY DEF Planned, vars
<1>5. Row(todo)' /\ Pending(g)'
  BY <1>3, <1>4, PlanPending
<1>6. Reading => Whole(g) /\ Grown(fat', g)
  BY <1>1, <1>4, GrownSame
<1> QED  BY <1>1, <1>2, <1>4, <1>5, <1>6 DEF TableInv, Reading

\* The root written again.
LEMMA TouchReads ==
    ASSUME MacHost, HostInv, TableInv, Touch(Root) PROVE TableInv'
<1>1. DOMAIN hdir = {Root}
  BY DEF HostInv, Steady
<1> PICK writes : writes = <<DirWrite(Root, H)>>
  OBVIOUS
<1>2. writes[1].at = Root /\ 1 \in 1..Len(writes)
  BY DEF DirWrite
<1>3. Plan("touch", {}, NoFiles, hdir, writes)
  BY DEF Touch, H
<1>4. Planned("touch", {}, NoFiles, H, writes) /\ op = None
  BY <1>1, <1>2, <1>3, PlanFacts DEF H
<1>5. Settled
  BY <1>4, Idleness
<1> QED  BY <1>4, <1>5, RootPlanned

\* A file renamed keeps its clusters.
LEMMA RenameReads ==
    ASSUME TableFits, MacHost, HostInv, TableInv, NEW i \in FilesIn(Root), NEW n \in Names,
           Rename(Root, i, n)
    PROVE  TableInv'
<1> PICK s : s = H
  OBVIOUS
<1>1. PICK k, x, t : Renames(s, i, k, n, x, t)
  BY RenamePlanned
<1> PICK put : put = At(<<n>>, x)
  OBVIOUS
<1> PICK gone : gone = {File(s, i)}
  OBVIOUS
<1>2. /\ Planned("renameMac", gone, put, t, <<DirWrite(Root, t)>>) /\ op = None
      /\ i \in Named(s) /\ Placeable(s, k) /\ k \notin Named(s) /\ k \in Slots
      /\ \A j \in Named(s) : ShortOf[s[j].name] # ShortOf[n]
      /\ t = [s EXCEPT ![k] = Renaming(s[i], n), ![i] = Deleted(s[i])]
  BY <1>1 DEF Renames
<1>3. Settled /\ Layout(fat, s, files)
  BY <1>2, Idleness DEF Settled
<1>4. IsRenamed(fat, s, files, i, k, n, t)
  BY <1>2, <1>3, Renamed
<1>5. ASSUME NEW j \in Named(t) PROVE \E m \in Named(s) : t[j].clus = s[m].clus
  <2>1. j \in Slots /\ t[j].kind = "file" /\ ~t[j].del
    BY DEF Named
  <2>2. CASE j = k
    BY <1>2, <1>4, <2>2 DEF IsRenamed
  <2>3. CASE j = i
    <3>1. t[i].del = TRUE
      <4>1. IsEntry(s[i])
        <5>1. s[i] \in Entry
          BY <1>2, <1>3, SlotFacts DEF Layout, Named
        <5> QED  BY <5>1 DEF Entry, IsEntry
      <4>2. Deleted(s[i]).del = TRUE
        BY <4>1, Zenon DEF Deleted, IsEntry
      <4> QED  BY <1>4, <4>2 DEF IsRenamed
    <3> QED  BY <2>1, <2>3, <3>1
  <2>4. CASE j \in Slots \ {i, k}
    <3>1. t[j] = s[j]
      BY <1>4, <2>4 DEF IsRenamed
    <3> QED  BY <2>1, <3>1 DEF Named
  <2> QED  BY <2>1, <2>2, <2>3, <2>4
<1>6. Planned("renameMac", gone, put, t, <<DirWrite(Root, t)>>)
  BY <1>2
<1>7. Settled /\ \A j \in Named(t) : \E m \in Named(s) : t[j].clus = s[m].clus
  BY <1>3, <1>5
<1> PICK v : v = <<DirWrite(Root, t)>>
  OBVIOUS
<1>8. \A name, g : Planned(name, g, put, t, v) => TableInv'
  BY <1>7, RootPlanned
<1> QED  BY <1>6, <1>8

\* A file deleted, by a host that drops chains.
LEMMA DeleteReads ==
    ASSUME TableFits, MacHost, HostInv, TableInv, NEW i \in FilesIn(Root), Delete(Root, i)
    PROVE  TableInv'
<1> PICK s : s = H
  OBVIOUS
<1>1. PICK t, writes : Deletes(s, i, t, writes)
  BY DeletePlanned
<1> PICK g : g = Release(fat, s[i].clus)
  OBVIOUS
<1>2. /\ Planned("delete", {File(s, i)}, NoFiles, t, writes) /\ op = None /\ "delete" \in Ops
      /\ i \in Named(s) /\ i \in Slots /\ s[i].clus # 0
      /\ t = [s EXCEPT ![i] = Deleted(s[i])]
      /\ writes = <<DirWrite(Root, t), FatWrite(g)>>
  BY <1>1 DEF Deletes
<1>3. ~Reading
  BY <1>2 DEF Reading
<1>4. Settled /\ Layout(fat, s, files) /\ Threads(fat, s) /\ g \in Fat
  BY <1>2, Idleness, SettledTable, TablesTyped DEF Settled
<1>5. Named(t) = Named(s) \ {i} /\ \A j \in Named(s) \ {i} : t[j] = s[j]
  <2>1. IsEntry(s[i]) /\ DOMAIN s = Slots
    <3>1. s[i] \in Entry /\ DOMAIN s = Slots
      BY <1>2, <1>4 DEF Layout, RootSector, Sector
    <3> QED  BY <3>1 DEF Entry, IsEntry
  <2>2. Deleted(s[i]).del = TRUE
    BY <2>1, Zenon DEF Deleted, IsEntry
  <2> PICK e : e = Deleted(s[i])
    OBVIOUS
  <2>3. t[i] = e /\ e.del /\ \A j \in Slots \ {i} : t[j] = s[j]
    BY <1>2, <2>1, <2>2
  <2> QED  BY <2>3 DEF Named
<1>6. Threads(g, t)
  <2> Chained(fat, s)
    BY <1>4 DEF Layout
  <2> i \in Named(s)
    BY <1>2
  <2> QED  BY <1>4, <1>5, TableDeleted
<1> PICK a : a = DirWrite(Root, t)
  OBVIOUS
<1> PICK b : b = FatWrite(g)
  OBVIOUS
<1>7. Row(writes) /\ Includes(writes, b)
      /\ \A k \in 1..Len(writes) : writes[k] = a \/ writes[k] = b
  <2>1. /\ writes \in Seq({a, b}) /\ Len(writes) = 2 /\ writes[1] = a /\ writes[2] = b
    BY <1>2
  <2> QED  BY <2>1 DEF Row, Includes
<1>8. a.at # FatArea
  BY DEF DirWrite, Root, FatArea
<1>9. todo' = writes /\ H' = t
  BY <1>2 DEF Planned
<1>10. Row(todo)' /\ Pending(g)'
  BY <1>7, <1>8, <1>9, PlanPending
<1> QED  BY <1>3, <1>4, <1>6, <1>9, <1>10 DEF TableInv, Reading

\* A plan that sends blocks to the clusters w, then the table, then the root.
LEMMA BlocksPending ==
    ASSUME NEW w, NEW x, Len(x) \in Nat, Separate(w), Len(w) = Len(x), NEW g,
           NEW l, Row(l), Includes(l, FatWrite(g)),
           \A m \in 1..Len(l) : l[m].at = FatArea => l[m] = FatWrite(g),
           todo' = Writes(w, x, 0, l)
    PROVE  Row(todo)' /\ Pending(g)'
<1> PICK v : v = Writes(w, x, 0, l)
  OBVIOUS
<1> PICK T : l \in Seq(T)
  BY DEF Row
<1>1. /\ Row(v)
      /\ \A k \in 1..Len(v) : \/ k \in 1..Len(x) /\ v[k].at = w[k]
                              \/ \E m \in 1..Len(l) : v[k] = l[m]
      /\ \A m \in 1..Len(l) : Includes(v, l[m])
  <2>1. /\ Row(Writes(w, x, 0, l))
        /\ \A k \in 1..Len(Writes(w, x, 0, l)) :
              \/ k \in 1..Len(x) /\ Writes(w, x, 0, l)[k].at = w[k]
              \/ \E m \in 1..Len(l) : Writes(w, x, 0, l)[k] = l[m]
        /\ \A m \in 1..Len(l) : Includes(Writes(w, x, 0, l), l[m])
    <3> l \in Seq(T) /\ Len(x) \in Nat
      OBVIOUS
    <3> QED  BY WritesRow
  <2> QED  BY <2>1
<1>2. \A k \in 1..Len(x) : w[k] # FatArea
  <2>1. \A k \in 1..Len(x) : w[k] \in 2..NumClusters
    BY ElementOfSeq DEF Separate
  <2> QED  BY <2>1, ClusterAssumption DEF FatArea
<1>3. Includes(v, FatWrite(g))
  <2>1. PICK k \in 1..Len(l) : l[k] = FatWrite(g)
    BY DEF Includes
  <2>2. Includes(v, l[k])
    BY <1>1
  <2> QED  BY <2>1, <2>2
<1>4. \A k \in 1..Len(v) : v[k].at = FatArea => v[k] = FatWrite(g)
  BY <1>1, <1>2
<1> QED  BY <1>1, <1>3, <1>4, PlanPending

\* The entry of the file in the sector of a create or an update.
LEMMA EnteredNamed ==
    ASSUME NEW s, RootSector(s), NEW i \in Slots, NEW n, NEW w, NEW t, t = Entered(s, i, n, w)
    PROVE  /\ Named(t) = Named(s) \union {i} /\ t[i].clus = w[1]
           /\ \A j \in Named(s) \ {i} : t[j] = s[j]
<1> PICK e : e = FileAt(n, w)
  OBVIOUS
<1>1. e.kind = "file" /\ e.del = FALSE /\ e.clus = w[1]
  BY DEF FileAt, entry
<1>2. DOMAIN s = Slots
  BY DEF RootSector, Sector
<1>3. t[i] = e /\ \A j \in Slots \ {i} : t[j] = s[j]
  BY <1>2 DEF Entered
<1> QED  BY <1>1, <1>3 DEF Named

\* A file created.
LEMMA CreateReads ==
    ASSUME TableFits, MacHost, HostInv, TableInv, NEW n \in Names, NEW x \in Contents,
           Create(Root, n, x)
    PROVE  TableInv'
<1> PICK s : s = H
  OBVIOUS
<1>1. PICK i, w, t : Creates(s, i, n, x, w, t)
  BY CreatePlanned
<1> PICK g : g = Allocate(fat, w)
  OBVIOUS
<1> PICK put : put = At(<<n>>, x)
  OBVIOUS
<1> PICK a : a = FatWrite(g)
  OBVIOUS
<1> PICK b : b = DirWrite(Root, t)
  OBVIOUS
<1> PICK l : l = <<a, b>>
  OBVIOUS
<1>2. /\ Planned("createMac", {}, put, t, Writes(w, x, 0, l)) /\ op = None
      /\ Takes(Root, w, Len(x)) /\ IsNew(w) /\ Len(x) \in Nat /\ i \in Slots
      /\ t = Entered(s, i, n, w)
  BY <1>1 DEF Creates
<1>3. Settled /\ RootSector(s) /\ fat \in Fat /\ Threads(fat, s) /\ (Reading => Whole(fat))
  BY <1>2, Idleness, SettledTable DEF Layout
<1>4. Separate(w) /\ Ascends(w) /\ Len(w) = Len(x) /\ \A c \in Cells(w) : fat[c] = FREE
  BY <1>2 DEF Takes, IsNew
<1>5. /\ Named(t) = Named(s) \union {i} /\ t[i].clus = w[1]
      /\ \A j \in Named(s) \ {i} : t[j] = s[j]
  BY <1>2, <1>3, EnteredNamed
<1>6. Threads(g, t) /\ Grown(fat, g) /\ (Whole(fat) => Whole(g))
  BY <1>3, <1>4, <1>5, TableCreated
<1>7. Row(l) /\ Includes(l, a) /\ \A m \in 1..Len(l) : l[m] = a \/ l[m] = b
  <2>1. l \in Seq({a, b}) /\ Len(l) = 2 /\ l[1] = a /\ l[2] = b
    OBVIOUS
  <2>2. Row(l)
    BY <2>1 DEF Row
  <2>3. 1 \in 1..Len(l) /\ \A m \in 1..Len(l) : m = 1 \/ m = 2
    BY <2>1
  <2> QED  BY <2>1, <2>2, <2>3, Zenon DEF Includes
<1>8. b.at # FatArea
  BY DEF DirWrite, Root, FatArea
<1>9. todo' = Writes(w, x, 0, l) /\ H' = t /\ fat' = fat
  BY <1>2 DEF Planned, vars
<1>10. Row(todo)' /\ Pending(g)'
  BY <1>2, <1>4, <1>7, <1>8, <1>9, BlocksPending
<1>11. g \in Fat
  BY <1>3, <1>4, TablesTyped
<1> QED  BY <1>3, <1>6, <1>9, <1>10, <1>11 DEF TableInv, Reading

\* A file updated, by a host that drops chains.
LEMMA UpdateReads ==
    ASSUME TableFits, MacHost, HostInv, TableInv, NEW i \in FilesIn(Root),
           NEW x \in Contents, Update(Root, i, x)
    PROVE  TableInv'
<1> PICK s : s = H
  OBVIOUS
<1>1. PICK w, e, t : Renews(s, i, x, w, e, t)
  BY UpdatePlanned
<1> PICK g : g = Release(Allocate(fat, w), s[i].clus)
  OBVIOUS
<1> PICK n : n = s[i].name
  OBVIOUS
<1> PICK put : put = At(<<n>>, x)
  OBVIOUS
<1> PICK a : a = FatWrite(g)
  OBVIOUS
<1> PICK b : b = DirWrite(Root, e)
  OBVIOUS
<1> PICK c : c = DirWrite(Root, t)
  OBVIOUS
<1> PICK l : l = <<a, b, c>>
  OBVIOUS
<1>2. /\ Planned("updateMac", {}, put, t, Writes(w, x, 0, l)) /\ op = None /\ "updateMac" \in Ops
      /\ Takes(Root, w, Len(x)) /\ IsNew(w) /\ Len(x) \in Nat
      /\ i \in Slots /\ i \in Named(s) /\ t = Entered(s, i, n, w)
  BY <1>1 DEF Renews
<1>3. Settled /\ Layout(fat, s, files) /\ Threads(fat, s) /\ fat \in Fat
  BY <1>2, Idleness, SettledTable
<1>4. Separate(w) /\ Ascends(w) /\ Len(w) = Len(x) /\ \A d \in Cells(w) : fat[d] = FREE
  BY <1>2 DEF Takes, IsNew
<1>5. RootSector(s) /\ Chained(fat, s)
  BY <1>3 DEF Layout
<1>6. Named(t) = Named(s) /\ t[i].clus = w[1] /\ \A j \in Named(s) \ {i} : t[j] = s[j]
  <2>1. /\ Named(t) = Named(s) \union {i} /\ t[i].clus = w[1]
        /\ \A j \in Named(s) \ {i} : t[j] = s[j]
    BY <1>2, <1>5, EnteredNamed
  <2> QED  BY <1>2, <2>1
<1>7. Threads(g, t)
  <2> i \in Named(s)
    BY <1>2
  <2> QED  BY <1>3, <1>4, <1>5, <1>6, TableUpdated
<1>8. Row(l) /\ Includes(l, a) /\ \A m \in 1..Len(l) : l[m] = a \/ l[m] = b \/ l[m] = c
  <2>1. l \in Seq({a, b, c}) /\ Len(l) = 3 /\ l[1] = a /\ l[2] = b /\ l[3] = c
    OBVIOUS
  <2>2. Row(l)
    BY <2>1 DEF Row
  <2>3. 1 \in 1..Len(l) /\ \A m \in 1..Len(l) : m = 1 \/ m = 2 \/ m = 3
    BY <2>1
  <2> QED  BY <2>1, <2>2, <2>3, Zenon DEF Includes
<1>9. b.at # FatArea /\ c.at # FatArea
  BY DEF DirWrite, Root, FatArea
<1>10. todo' = Writes(w, x, 0, l) /\ H' = t
  BY <1>2 DEF Planned
<1>11. Row(todo)' /\ Pending(g)'
  BY <1>2, <1>4, <1>8, <1>9, <1>10, BlocksPending
<1>12. ~Reading
  BY <1>2 DEF Reading
<1>13. g \in Fat
  BY <1>3, <1>4, TablesTyped
<1> QED  BY <1>7, <1>10, <1>11, <1>12, <1>13 DEF TableInv, Reading

\* Every request keeps the invariant of the reads.
LEMMA BeginReads ==
    ASSUME TableFits, MacHost, HostInv, ReadInv, Begin
    PROVE  ReadInv'
<1>1. TableInv
  BY DEF ReadInv
<1>2. ASSUME Touch(Root) PROVE TableInv'
  BY <1>1, <1>2, TouchReads
<1>3. ASSUME NEW n \in Names, NEW x \in Contents, Create(Root, n, x) PROVE TableInv'
  BY <1>1, <1>3, CreateReads
<1>4. ASSUME NEW i \in FilesIn(Root), NEW x \in Contents, Update(Root, i, x) PROVE TableInv'
  BY <1>1, <1>4, UpdateReads
<1>5. ASSUME NEW i \in FilesIn(Root), NEW n \in Names, Rename(Root, i, n) PROVE TableInv'
  BY <1>1, <1>5, RenameReads
<1>6. ASSUME NEW i \in FilesIn(Root), Delete(Root, i) PROVE TableInv'
  BY <1>1, <1>6, DeleteReads
<1>7. TableInv'
  BY <1>2, <1>3, <1>4, <1>5, <1>6, Requests
<1>8. UNCHANGED <<fat, bcc>>
  BY Requested DEF vars
<1> QED  BY <1>7, <1>8 DEF ReadInv, CacheInv, Reading

-----------------------------------------------------------------------------
(* A sector the host sends.                                                *)

\* A cluster the host sends a block to is free until the table comes.
LEMMA SentFree ==
    ASSUME TableFits, HostInv, pc = "ready", todo # <<>>
    PROVE  Head(todo).at \in {FatArea, Root} \/ fat[Head(todo).at] = FREE
<1>1. \A f : FatWrite(f).at = FatArea /\ \A s : DirWrite(Root, s).at = Root
  BY DEF FatWrite, DirWrite
<1>2. CASE Filling
  <2>1. PICK i, n, f, last : Fills(i, n, f, last)
    BY <1>2 DEF Filling
  <2> PICK w : w = Chain(f, H, i)
    OBVIOUS
  <2> PICK x : x = Wanted(i)
    OBVIOUS
  <2>2. IF n < Len(x)
        THEN w[n + 1] \in Cells(w) /\ Head(todo).at = w[n + 1]
        ELSE Head(todo) = FatWrite(f)
    <3>1. SendsNext(w, x, n, f, last)
      BY <2>1, FillsNext
    <3> QED  BY <3>1 DEF SendsNext
  <2>3. \A c \in Cells(w) : fat[c] = FREE
    BY <2>1 DEF Fills
  <2> QED  BY <1>1, <2>2, <2>3
<1>3. CASE Ready
  <2>1. ASSUME NEW t, todo = <<DirWrite(Root, H)>> \o t, After(t)
        PROVE  Head(todo) = DirWrite(Root, H)
    <3>1. CASE t = <<>>
      BY <2>1, <3>1
    <3>2. CASE \E f : t = <<FatWrite(f)>>
      <4>1. PICK f : t = <<FatWrite(f)>>
        BY <3>2
      <4>2. todo = <<DirWrite(Root, H), FatWrite(f)>>
        BY <2>1, <4>1, TwoSectors
      <4> QED  BY <4>2
    <3> QED  BY <2>1, <3>1, <3>2 DEF After
  <2>2. ASSUME NEW e, todo = <<DirWrite(Root, e), DirWrite(Root, H)>>
        PROVE  Head(todo) = DirWrite(Root, e)
    BY <2>2
  <2> QED  BY <1>1, <1>3, <2>1, <2>2 DEF Ready, LastNext, EmptyNext
<1>4. CASE Over
  <2>1. PICK f : todo = <<FatWrite(f)>>
    BY <1>4 DEF Over, After
  <2> QED  BY <1>1, <2>1
<1>5. ~Settled /\ ~Emptying /\ ~Handling
  BY DEF Settled, Emptying, Handling, Deleting, Saving, Removed, Updating, Writing
<1> QED  BY <1>2, <1>3, <1>4, <1>5 DEF HostInv

\* A sector moves the table if it is the table, and nothing moves the cache.
LEMMA WriteMoves ==
    ASSUME TableFits, HostInv, Write
    PROVE  /\ todo # <<>> /\ todo' = Tail(todo) /\ UNCHANGED <<hdir, op, files, bcc>>
           /\ fat' = IF Head(todo).at = FatArea THEN Head(todo).data ELSE fat
<1> PICK c : c = Head(todo).at
  OBVIOUS
<1> PICK x : x = Head(todo).data
  OBVIOUS
<1>1. todo # <<>> /\ todo' = Tail(todo) /\ UNCHANGED <<hdir, op, files>>
  BY DEF Write
<1>2. CASE c = FatArea
  <2>1. WriteFat(x)
    <3>1. Head(todo).at = FatArea /\ FatArea # Root
      BY <1>2 DEF FatArea, Root
    <3> QED  BY <3>1, Zenon DEF Write
  <2> QED  BY <1>1, <1>2, <2>1 DEF WriteFat
<1>3. CASE c = Root
  <2>1. c # FatArea
    BY <1>3 DEF Root, FatArea
  <2>2. WriteRoot(x, Head(todo).touched)
    BY <1>3, <2>1, Zenon DEF Write
  <2> QED  BY <1>1, <2>1, <2>2 DEF WriteRoot, Compare
<1>4. CASE c # FatArea /\ c # Root
  <2>1. WriteCluster(c, x, Head(todo).touched)
    BY <1>4, Zenon DEF Write
  <2>2. pc = "ready"
    BY <2>1 DEF WriteCluster
  <2>3. fat[c] = FREE
    BY <1>1, <1>4, <2>2, SentFree
  <2>4. /\ find_base_cluster_and_offset(fat, bcc, c).bcc = bcc
        /\ find_base_cluster_and_offset(fat, bcc, c).base = 0
    BY <2>3, FreeSearch
  <2>5. fat' = fat /\ bcc' = bcc
    BY <2>1, <2>4 DEF WriteCluster
  <2> QED  BY <1>1, <1>4, <2>5
<1> QED  BY <1>2, <1>3, <1>4

\* A sector sent keeps the invariant of the reads.
LEMMA WriteReads ==
    ASSUME TableFits, HostInv, ReadInv, Write PROVE ReadInv'
<1> PICK v : v = todo
  OBVIOUS
<1>1. /\ v # <<>> /\ todo' = Tail(v) /\ UNCHANGED <<hdir, op, files, bcc>>
      /\ fat' = IF Head(v).at = FatArea THEN Head(v).data ELSE fat
  BY WriteMoves
<1>2. PICK g : /\ Row(todo) /\ Pending(g)
               /\ g \in Fat /\ Threads(g, H)
               /\ Reading => Whole(g) /\ Grown(fat, g)
  BY DEF ReadInv, TableInv
<1>3. /\ Row(Tail(v)) /\ Head(v) = v[1] /\ 1 \in 1..Len(v)
      /\ \A k \in 1..Len(Tail(v)) : Tail(v)[k] = v[k + 1] /\ k + 1 \in 1..Len(v)
      /\ \A k \in 1..Len(v) : k = 1 \/ (k - 1 \in 1..Len(Tail(v)) /\ Tail(v)[k - 1] = v[k])
  BY <1>1, <1>2, RowTail
<1>4. /\ \A k \in 1..Len(v) : v[k].at = FatArea => v[k].data = g
      /\ (\A k \in 1..Len(v) : v[k].at # FatArea) => g = fat
  BY <1>2 DEF Pending
<1>5. fat' = g \/ (fat' = fat /\ Head(v).at # FatArea)
  BY <1>1, <1>3, <1>4
<1>6. Pending(g)'
  <2>1. \A k \in 1..Len(Tail(v)) : Tail(v)[k].at = FatArea => Tail(v)[k].data = g
    BY <1>3, <1>4
  <2>2. ASSUME \A k \in 1..Len(Tail(v)) : Tail(v)[k].at # FatArea PROVE g = fat'
    <3>1. CASE Head(v).at = FatArea
      BY <1>5, <3>1
    <3>2. CASE Head(v).at # FatArea
      <4>1. \A k \in 1..Len(v) : v[k].at # FatArea
        BY <1>3, <2>2, <3>2
      <4> QED  BY <1>1, <1>4, <3>2, <4>1
    <3> QED  BY <3>1, <3>2
  <2> QED  BY <1>1, <2>1, <2>2 DEF Pending
<1>7. H' = H
  BY <1>1 DEF H
<1>8. Reading => Grown(fat', g)
  BY <1>2, <1>5, GrownSame
<1>9. TableInv'
  BY <1>1, <1>2, <1>3, <1>6, <1>7, <1>8 DEF TableInv, Reading
<1>10. CacheInv'
  <2>1. CASE Reading
    <3>1. Whole(fat) /\ Based(fat, bcc) /\ Whole(g) /\ Grown(fat, g)
      BY <1>2, <2>1 DEF ReadInv, CacheInv
    <3>2. Whole(fat') /\ Grown(fat, fat')
      BY <1>5, <3>1, GrownSame
    <3>3. Based(fat', bcc)
      BY <3>1, <3>2 DEF Based, Grown
    <3> QED  BY <1>1, <2>1, <3>2, <3>3 DEF CacheInv, Reading
  <2>2. CASE ~Reading
    BY <1>1, <2>2 DEF ReadInv, CacheInv, Reading
  <2> QED  BY <2>1, <2>2
<1> QED  BY <1>9, <1>10 DEF ReadInv

-----------------------------------------------------------------------------
(* The steps that leave the host and the table as they are.                *)

\* The invariant speaks of the table, the sectors to send and the root alone.
LEMMA TableStays ==
    ASSUME TableInv, UNCHANGED <<fat, todo, hdir>> PROVE TableInv'
BY DEF TableInv, Pending, H, Reading

\* So does the invariant of the reads, with the cache.
LEMMA ReadStays ==
    ASSUME ReadInv, UNCHANGED <<fat, bcc, todo, hdir>> PROVE ReadInv'
<1>1. TableInv'
  BY TableStays DEF ReadInv
<1> QED  BY <1>1 DEF ReadInv, CacheInv, Reading

\* No step of a handler that has begun touches the table or the cache.
LEMMA StepStays == ASSUME Step PROVE UNCHANGED <<fat, bcc>>
<1>1. CASE \E i \in Slots : \/ DeleteBlank(i) \/ DeleteNow(i) \/ DeleteFile(i)
                             \/ UpdateStop(i) \/ UpdateDirectory(i) \/ UpdateFile(i)
  BY <1>1, Zenon DEF DeleteBlank, DeleteNow, DeleteFile, UpdateStop, UpdateDirectory, UpdateFile
<1>2. CASE SaveStep \/ SaveDirectory \/ WriteStep \/ Finish
  BY <1>2, Zenon DEF SaveStep, SaveDirectory, WriteStep, Finish
<1> QED  BY <1>1, <1>2 DEF Step

\* A read leaves the cache at a cluster of a chain.
LEMMA LookReads ==
    ASSUME TableFits, ReadInv, HostRead PROVE ReadInv'
<1>1. PICK c \in 2..NumClusters : Read(c)
  BY DEF HostRead
<1>2. /\ bcc' = find_base_cluster_and_offset(fat, bcc, c).bcc
      /\ UNCHANGED <<fat, todo, hdir>> /\ "read" \in Ops
  BY <1>1 DEF HostRead, Read, hostvars
<1>3. ASSUME Reading PROVE Whole(fat) /\ Based(fat, bcc')
  <2>1. Whole(fat) /\ Based(fat, bcc)
    BY <1>3 DEF ReadInv, CacheInv
  <2>2. CASE fat[c] = FREE
    BY <1>2, <2>1, <2>2, FreeSearch
  <2>3. CASE fat[c] # FREE
    <3>1. PICK w : Threaded(fat, w) /\ c \in Cells(w)
      BY <2>1, <2>3 DEF Whole
    <3>2. PICK k \in 1..Len(w) : c = w[k]
      BY <3>1 DEF Cells
    <3>3. find_base_cluster_and_offset(fat, bcc, c) = Place(w, k)
      BY <2>1, <3>1, <3>2, Located
    <3> QED  BY <1>2, <2>1, <3>1, <3>3 DEF Based
  <2> QED  BY <2>2, <2>3
<1>4. CacheInv'
  BY <1>2, <1>3 DEF CacheInv, Reading
<1>5. TableInv'
  BY <1>2, TableStays DEF ReadInv
<1> QED  BY <1>4, <1>5 DEF ReadInv

\* Every step keeps the invariant of the reads.
LEMMA NextReads ==
    ASSUME TableFits, MacHost, HostInv, ReadInv, [Next]_allvars
    PROVE  ReadInv'
<1>1. CASE Begin
  BY <1>1, BeginReads
<1>2. CASE HostRead
  BY <1>2, LookReads
<1>3. CASE Write
  BY <1>3, WriteReads
<1>4. CASE Handle
  BY <1>4, StepStays, ReadStays DEF Handle, hostvars
<1>5. CASE Done
  BY <1>5, ReadStays DEF Done, vars
<1>6. CASE UNCHANGED allvars
  BY <1>6, ReadStays DEF allvars, vars, hostvars
<1> QED  BY <1>1, <1>2, <1>3, <1>4, <1>5, <1>6 DEF Next, Progress

-----------------------------------------------------------------------------
(* The table at mount.                                                     *)

FreshFat(f, n) ==
    \A c \in Cluster : f[c] = IF c = 0 THEN MEDIA ELSE IF c = Root THEN EOC
                              ELSE IF c \in 2..n THEN c + 1
                              ELSE IF c = n + 1 /\ n # 0 THEN EOC ELSE FREE

\* The clusters from 2 on are the one chain of the table.
LEMMA MountedTable ==
    ASSUME TableFits, NEW n \in Nat, n < NumClusters, NEW f, FreshFat(f, n)
    PROVE  /\ NoneDangles(f) /\ Whole(f)
           /\ n # 0 => Threaded(f, FromTwo(n)) /\ FromTwo(n)[1] = 2
<1>1. /\ NumClusters \in Nat /\ NumClusters < MEDIA
      /\ MEDIA \notin 2..NumClusters /\ EOC \notin 2..NumClusters /\ FREE \notin 2..NumClusters
      /\ EOC # FREE /\ MEDIA # FREE
  BY ClusterAssumption DEF TableFits, MEDIA, EOC, FREE
<1>2. /\ f[0] = MEDIA /\ f[1] = EOC
      /\ \A c \in 2..n : f[c] = c + 1
      /\ n # 0 => f[n + 1] = EOC
      /\ \A c \in 2..NumClusters : c > n + 1 => f[c] = FREE
      /\ n = 0 => \A c \in 2..NumClusters : f[c] = FREE
  <2>1. 0 \in Cluster /\ 1 \in Cluster /\ \A c \in 2..NumClusters : c \in Cluster
    BY ClusterAssumption DEF Cluster
  <2>2. \A c \in 2..n : c \in Cluster
    BY <1>1 DEF Cluster
  <2>3. n + 1 \in Cluster
    BY <1>1 DEF Cluster
  <2> QED  BY <1>1, <2>1, <2>2, <2>3 DEF FreshFat, Root
<1>3. ASSUME NEW c \in 0..NumClusters, f[c] \in 2..NumClusters PROVE c \in 2..n /\ f[c] = c + 1
  <2>1. c # 0 /\ c # 1
    BY <1>1, <1>2, <1>3
  <2>2. c \in 2..NumClusters /\ ~(c > n + 1) /\ n # 0
    BY <1>1, <1>2, <1>3, <2>1
  <2>3. c # n + 1
    BY <1>1, <1>2, <1>3, <2>2
  <2> QED  BY <1>2, <2>2, <2>3
<1>4. NoneDangles(f)
  <2> SUFFICES ASSUME NEW c \in 0..NumClusters - 1, f[c] \in 2..NumClusters
               PROVE  f[f[c]] # FREE
    BY DEF NoneDangles
  <2>1. c \in 2..n /\ f[c] = c + 1
    BY <1>1, <1>3
  <2>2. CASE c + 1 \in 2..n
    <3>1. f[c + 1] = (c + 1) + 1
      BY <1>2, <2>2
    <3> QED  BY <2>1, <3>1 DEF FREE
  <2>3. CASE c + 1 \notin 2..n
    <3>1. c + 1 = n + 1 /\ n # 0
      BY <2>1, <2>3
    <3> QED  BY <1>1, <1>2, <2>1, <3>1
  <2> QED  BY <2>2, <2>3
<1>5. ASSUME n # 0 PROVE Threaded(f, FromTwo(n)) /\ FromTwo(n)[1] = 2 /\ Len(FromTwo(n)) = n
  <2> PICK w : w = FromTwo(n)
    OBVIOUS
  <2>1. Linked(f, w) /\ w[1] = 2 /\ Len(w) = n
    BY <1>2, <1>5, MountedChain DEF Runs
  <2>2. \A k \in 1..n : w[k] = k + 1
    BY DEF FromTwo
  <2>3. \A j, k \in 1..n : j < k => w[j] < w[k]
    BY <2>2
  <2>4. ASSUME NEW k \in 1..n
        PROVE  Predecessors(f, w[k]) = IF k = 1 THEN {} ELSE {w[k - 1]}
    <3>1. w[k] = k + 1 /\ k + 1 \in 2..NumClusters
      BY <1>1, <2>2
    <3>2. Predecessors(f, w[k]) = {i \in 0..NumClusters - 1 : f[i] = k + 1}
      BY <3>1, LeadsTo
    <3>3. ASSUME NEW i \in 0..NumClusters - 1 PROVE f[i] = k + 1 <=> k # 1 /\ i = k
      <4>1. ASSUME f[i] = k + 1 PROVE i \in 2..n /\ i = k
        <5>1. i \in 2..n /\ f[i] = i + 1
          BY <1>1, <1>3, <3>1, <4>1
        <5> QED  BY <4>1, <5>1
      <4>2. ASSUME k # 1 PROVE f[k] = k + 1
        BY <1>2, <4>2
      <4> QED  BY <4>1, <4>2
    <3>4. CASE k = 1
      BY <3>2, <3>3, <3>4
    <3>5. CASE k # 1
      <4>1. w[k - 1] = k /\ k \in 0..NumClusters - 1
        BY <1>1, <2>2, <3>5
      <4> QED  BY <3>2, <3>3, <3>5, <4>1
    <3> QED  BY <3>4, <3>5
  <2> QED  BY <2>1, <2>3, <2>4 DEF Threaded
<1>6. Whole(f)
  <2> SUFFICES ASSUME NEW c \in 2..NumClusters, f[c] # FREE
               PROVE  \E w : Threaded(f, w) /\ c \in Cells(w)
    BY DEF Whole
  <2>1. n # 0 /\ c - 1 \in 1..n /\ (c - 1) + 1 = c
    BY <1>2
  <2>2. FromTwo(n)[c - 1] = c
    BY <2>1 DEF FromTwo
  <2>3. c \in Cells(FromTwo(n))
    BY <1>5, <2>1, <2>2 DEF Cells
  <2> QED  BY <1>5, <2>1, <2>3
<1> QED  BY <1>4, <1>5, <1>6

\* A drive starts with the invariant of the reads.
LEMMA InitReads == ASSUME TableFits, Init PROVE ReadInv
<1>1. PICK n \in Names, x \in Mounted :
        LET label == entry("label", NoName, 0, 0)
            root == [i \in Slots |-> CASE i = 1 -> label
                                       [] i = 2 /\ x # <<>> -> entry("file", n, 2, Len(x))
                                       [] OTHER -> Blank]
        IN  /\ tmp = [c \in {Root} |-> root]
            /\ fat = [c \in Cluster |-> CASE c = 0 -> MEDIA
                                           [] c = Root -> EOC
                                           [] c \in 2..Len(x) -> c + 1
                                           [] c = Len(x) + 1 /\ x # <<>> -> EOC
                                           [] OTHER -> FREE]
            /\ bcc = NoBase /\ hdir = tmp /\ todo = <<>>
  BY DEF Init
<1> PICK m : m = Len(x)
  OBVIOUS
<1>2. m \in Nat /\ m < NumClusters /\ (m = 0 <=> x = <<>>)
  BY MountedAssumption, LenProperties, EmptySeq
<1>3. FreshFat(fat, m)
  <2>1. \A c \in Cluster : fat[c] = CASE c = 0 -> MEDIA
                                      [] c = Root -> EOC
                                      [] c \in 2..m -> c + 1
                                      [] c = m + 1 /\ m # 0 -> EOC
                                      [] OTHER -> FREE
    BY <1>1, <1>2
  <2>2. Root = 1
    BY DEF Root
  <2> QED  BY <1>2, <2>1, <2>2 DEF FreshFat
<1>4. NoneDangles(fat) /\ Whole(fat) /\ (m # 0 => Threaded(fat, FromTwo(m)) /\ FromTwo(m)[1] = 2)
  BY <1>2, <1>3, MountedTable
<1>5. ASSUME NEW i \in Named(H) PROVE Starts(fat, H[i].clus)
  <2>1. H = [j \in Slots |-> CASE j = 1 -> entry("label", NoName, 0, 0)
                               [] j = 2 /\ x # <<>> -> entry("file", n, 2, Len(x))
                               [] OTHER -> Blank]
    BY <1>1 DEF H
  <2>2. i \in Slots /\ H[i].kind = "file"
    BY DEF Named
  <2>3. H[i] = entry("file", n, 2, Len(x)) /\ x # <<>>
    BY <2>1, <2>2 DEF entry, Blank
  <2>4. H[i].clus = 2
    BY <2>3 DEF entry
  <2> QED  BY <1>2, <1>4, <2>3, <2>4 DEF Starts
<1>6. Row(todo) /\ Pending(fat)
  <2>1. todo \in Seq({})
    BY <1>1, EmptySeq
  <2>2. Len(todo) = 0
    BY <1>1
  <2> QED  BY <2>1, <2>2 DEF Row, Pending
<1>7. fat \in Fat
  <2>1. 0 \in Nat /\ FREE \in FatValue /\ EOC \in FatValue /\ MEDIA \in FatValue
    BY ClusterAssumption DEF FREE, EOC, MEDIA, FatValue, Cluster
  <2>2. \A c \in 2..m : c + 1 \in FatValue
    BY <1>2, ClusterAssumption DEF FatValue, Cluster
  <2> QED  BY <1>1, <2>1, <2>2 DEF Fat
<1>8. TableInv
  BY <1>4, <1>5, <1>6, <1>7, GrownSame DEF TableInv, Threads
<1> QED  BY <1>1, <1>4, <1>8 DEF ReadInv, CacheInv, Based

-----------------------------------------------------------------------------
(* What a read returns.                                                    *)

\* Between operations, a host reads the blocks of file i as littlefs holds them.
LEMMA FileRead ==
    ASSUME TableFits, SavedRoot(tmp), Layout(fat, S, lfs), Threads(fat, S), Based(fat, bcc),
           NEW i \in Named(S), NEW k \in 1..Len(Chain(fat, S, i))
    PROVE  mimic_fat_read(Chain(fat, S, i)[k]) = lfs[File(S, i)][k]
<1> PICK w : w = Chain(fat, S, i)
  OBVIOUS
<1>1. FileFacts(fat, S, lfs, i)
  BY FilesHave
<1>2. Threaded(fat, w) /\ w[1] = S[i].clus
  BY ChainThreads DEF Threads, Chain
<1>3. find_base_cluster_and_offset(fat, bcc, w[k]) = Place(w, k)
  BY <1>2, Located
<1>4. Place(w, k).base = S[i].clus /\ Place(w, k).off + 1 = k
  <2>1. (k - 1) + 1 = k
    BY <1>1, LenProperties DEF FileFacts
  <2> QED  BY <1>2, <2>1 DEF Place, Where
<1>5. find_dir_entry_cache(tmp, S[i].clus) = <<Root, i>>
  <2>1. Volume(tmp, {<<>>}, Tops) /\ Tops[<<>>] = Root /\ i \in Visible(tmp[Root])
    BY RootVolume, RootShows DEF SavedRoot, Tops, S
  <2>2. tmp[Tops[<<>>]][i].clus # 0 /\ i \in Visible(tmp[Tops[<<>>]])
    BY <1>1, <2>1 DEF FileFacts, S
  <2> PICK P : P = {<<>>}
    OBVIOUS
  <2>3. Volume(tmp, P, Tops) /\ <<>> \in P
    BY <2>1
  <2>4. find_dir_entry_cache(tmp, tmp[Tops[<<>>]][i].clus) = <<Tops[<<>>], i>>
    BY <2>2, <2>3, EntryFound, SMTT(30)
  <2> QED  BY <2>1, <2>4 DEF S
<1>6. restore_file_from(tmp, Root, S[i].clus) = File(S, i)
  BY <1>1, RootPath DEF FileFacts, S
<1>7. Found(<<Root, i>>) /\ tmp[Root][i].kind = "file"
  BY <1>1, ClusterAssumption DEF Found, Root, Cluster, FileFacts, S
<1>8. w[k] # Root /\ S[i].clus # 0
  <2>1. w[k] \in 2..NumClusters
    BY <1>1, ElementOfSeq DEF FileFacts
  <2> QED  BY <1>1, <2>1 DEF Root, FileFacts
<1>9. IsFile(lfs, File(S, i)) /\ k <= Len(lfs[File(S, i)])
  <2>1. lfs[File(S, i)] \in Contents \union Mounted
    BY DEF Layout, Holds
  <2>2. lfs[File(S, i)] # DIR
    BY <2>1, Stocked
  <2> QED  BY <1>1, <2>2 DEF FileFacts, IsFile
<1> PICK b : b = Place(w, k)
  OBVIOUS
<1> PICK r : r = <<Root, i>>
  OBVIOUS
<1>10. r[1] = Root /\ r[2] = i
  OBVIOUS
<1>11. ReadWith(bcc, w[k]) = lfs[File(S, i)][b.off + 1]
  BY <1>3, <1>4, <1>5, <1>6, <1>7, <1>8, <1>9, <1>10 DEF ReadWith
<1> QED  BY <1>4, <1>11 DEF mimic_fat_read

\* The two invariants together are what a host reads.
LEMMA HostReads == ASSUME TableFits, ReadsMore, HostInv, ReadInv PROVE ReadBack
<1> SUFFICES ASSUME Idle PROVE \A d \in Dirs :
        /\ mimic_fat_read(d) = hdir[d]
        /\ \A i \in FilesIn(d) :
              LET e == hdir[d][i]
                  chain == ChainOf(fat, e.clus)
                  p == Path(d, e.name)
              IN  e.clus # 0 => /\ p \in DOMAIN lfs
                                /\ Len(chain) = Len(lfs[p])
                                /\ \A k \in 1..Len(chain) : mimic_fat_read(chain[k]) = lfs[p][k]
  BY DEF ReadBack
<1>1. SavedRoot(tmp) /\ Dirs = {Root}
  BY DEF HostInv, Steady, Dirs
<1>2. S = H /\ Layout(fat, H, lfs)
  <2>1. CASE op = None
    BY <2>1, Idleness DEF Settled
  <2>2. CASE op # None
    BY <2>2, DoneOver DEF Over
  <2> QED  BY <2>1, <2>2
<1>3. Threads(fat, H)
  <2>1. PICK g : Pending(g) /\ Threads(g, H)
    BY DEF ReadInv, TableInv
  <2>2. g = fat
    BY <2>1 DEF Pending, Idle
  <2> QED  BY <2>1, <2>2
<1>4. Based(fat, bcc)
  BY DEF ReadInv, CacheInv, Based, ReadsMore
<1>5. mimic_fat_read(Root) = H
  BY <1>1, <1>2 DEF mimic_fat_read, ReadWith, SavedRoot, S
<1>6. FilesIn(Root) = Named(H)
  BY <1>2, InUseNamed DEF Layout
<1>7. ASSUME NEW i \in Named(H)
      PROVE  /\ Path(Root, H[i].name) \in DOMAIN lfs
             /\ Len(ChainOf(fat, H[i].clus)) = Len(lfs[Path(Root, H[i].name)])
             /\ \A k \in 1..Len(ChainOf(fat, H[i].clus)) :
                   mimic_fat_read(ChainOf(fat, H[i].clus)[k]) = lfs[Path(Root, H[i].name)][k]
  <2>1. Path(Root, H[i].name) = File(H, i)
    BY RootName DEF File
  <2>2. FileFacts(fat, H, lfs, i)
    BY <1>2, FilesHave
  <2>3. \A k \in 1..Len(Chain(fat, H, i)) : mimic_fat_read(Chain(fat, H, i)[k]) = lfs[File(H, i)][k]
    BY <1>1, <1>2, <1>3, <1>4, FileRead
  <2> QED  BY <2>1, <2>2, <2>3 DEF FileFacts, Chain
<1> QED  BY <1>1, <1>5, <1>6, <1>7 DEF H

\* Whatever base_cluster_cache remembers, a host reads back the blocks it
\* wrote, as long as it drops no chain before it reads: a chain that is freed
\* leaves its clusters in the cache (find_base_cluster_and_offset).
THEOREM ReadsBack ==
    ASSUME MacHost, TableFits, ReadsMore
    PROVE  Spec => []ReadBack
<1>1. Init => ReadInv
  BY InitReads
<1>2. HostInv /\ ReadInv /\ [Next]_allvars => ReadInv'
  BY NextReads
<1>3. HostInv /\ ReadInv => ReadBack
  BY HostReads
<1> QED  BY <1>1, <1>2, <1>3, HostInvariant, PTL DEF Spec

-----------------------------------------------------------------------------
(* The types of the drive's variables: what the functions return.          *)

\* What the cache of the search and the locals of a handler may be.
Bases == [cluster : Cluster, base_cluster : Cluster, offset : Nat]
Jobs == [dir : Cluster, orig : Sector, new : Sector,
         del : [Slots -> 0..NumSlots], upd : SUBSET Slots,
         path : Seq(Names), at : Cluster, size : Nat,
         data : Seq(Block), buffer : Block]

\* A search leaves a cache of the type, whatever cache of the type it finds.
LEMMA SearchTyped ==
    ASSUME NEW f, NEW cache \in Bases, NEW c \in Cluster
    PROVE  find_base_cluster_and_offset(f, cache, c).bcc \in Bases
<1>1. CASE f[c] = FREE
  BY <1>1, FreeSearch
<1>2. CASE f[c] # FREE
  <2> PICK start : start = Reset(cache, c)
    OBVIOUS
  <2>1. start \in Bases
    BY ClusterAssumption DEF Reset, NoBase, Bases, Cluster
  <2>2. PICK h : /\ WalksBy(h, f, start, c)
                 /\ find_base_cluster_and_offset(f, cache, c) = h[NumClusters][c]
    BY <1>2, WalkUnfolds
  <2> DEFINE T == {n \in Nat : n \in 0..NumClusters => \A at \in Cluster : h[n][at].bcc \in Bases}
  <2>3. \A n \in 0..NumClusters, at \in Cluster :
          h[n][at] = IF n = 0 \/ Predecessors(f, at) = {}
                     THEN Missed(c, at, NumClusters - n)
                     ELSE IF start.cluster = First(Predecessors(f, at))
                     THEN Helped(start, at, (NumClusters - n) + 1 + start.offset)
                     ELSE h[n - 1][First(Predecessors(f, at))]
    BY <2>2 DEF WalksBy
  <2>4. ASSUME NEW n \in 0..NumClusters, NEW at \in Cluster
        PROVE  /\ Missed(c, at, NumClusters - n).bcc \in Bases
               /\ Helped(start, at, (NumClusters - n) + 1 + start.offset).bcc \in Bases
    <3>1. start.base_cluster \in Cluster /\ start.offset \in Nat
      BY <2>1 DEF Bases
    <3>2. /\ NumClusters - n \in Nat
          /\ (NumClusters - n) + 1 + start.offset \in Nat
      BY <3>1, ClusterAssumption
    <3> QED  BY <3>1, <3>2 DEF Missed, Helped, Bases
  <2>5. 0 \in T
    <3> SUFFICES ASSUME 0 \in 0..NumClusters, NEW at \in Cluster PROVE h[0][at].bcc \in Bases
      OBVIOUS
    <3>1. h[0][at] = Missed(c, at, NumClusters - 0)
      BY <2>3
    <3> QED  BY <2>4, <3>1
  <2>6. ASSUME NEW n \in Nat, n \in T PROVE n + 1 \in T
    <3> SUFFICES ASSUME n + 1 \in 0..NumClusters, NEW at \in Cluster
                 PROVE  h[n + 1][at].bcc \in Bases
      OBVIOUS
    <3>1. n \in 0..NumClusters /\ (n + 1) - 1 = n /\ n + 1 # 0
      BY ClusterAssumption
    <3>2. Predecessors(f, at) # {} => h[n][First(Predecessors(f, at))].bcc \in Bases
      BY <2>6, <3>1, PredecessorIn
    <3>3. \/ h[n + 1][at] = Missed(c, at, NumClusters - (n + 1))
          \/ h[n + 1][at] = Helped(start, at, (NumClusters - (n + 1)) + 1 + start.offset)
          \/ /\ Predecessors(f, at) # {}
             /\ h[n + 1][at] = h[n][First(Predecessors(f, at))]
      BY <2>3, <3>1
    <3> QED  BY <2>4, <3>2, <3>3
  <2>7. \A n \in Nat : n \in T
    <3> HIDE DEF T
    <3> QED  BY <2>5, <2>6, Induction
  <2> QED  BY <2>2, <2>7, ClusterAssumption
<1> QED  BY <1>1, <1>2

\* The lists of difference_of_dir_entry.
LEMMA ListsTyped ==
    ASSUME NEW s, NEW t, NEW touched
    PROVE  /\ difference_of_dir_entry(s, t, touched).del \in [Slots -> 0..NumSlots]
           /\ difference_of_dir_entry(s, t, touched).upd \in SUBSET Slots
<1>1. \A D \in SUBSET Slots : D # {} => First(D) \in 0..NumSlots
  <2> SUFFICES ASSUME NEW D \in SUBSET Slots, D # {} PROVE First(D) \in 0..NumSlots
    OBVIOUS
  <2>1. First(D) \in Slots
    BY FirstLeast
  <2> QED  BY <2>1 DEF Slots
<1>2. 0 \in 0..NumSlots
  BY SlotAssumption
<1>3. \A i \in Slots : DeletedBy(s, t, i) \in SUBSET Slots /\ Stops(s, t, i) \in SUBSET Slots
  BY DEF DeletedBy, Stops
<1>4. ASSUME NEW i \in Slots
      PROVE  (IF t[i].del THEN DeletedBy(s, t, i)
              ELSE {j \in Stops(s, t, i) : /\ j = i
                                          /\ ~SameName(t[i], s[i])
                                          /\ \A k \in Stops(s, t, i) : i <= k}) \in SUBSET Slots
  BY <1>3
<1> QED  BY <1>1, <1>2, <1>4 DEF difference_of_dir_entry

\* The blank sector of a new directory.
LEMMA BlankTyped ==
    ASSUME NEW c \in Cluster, NEW d \in Cluster
    PROVE  BlankDirectory(c, d) \in Sector
<1>1. 0 \in Cluster /\ 0 \in Nat
  BY ClusterAssumption DEF Cluster
<1>2. /\ entry("dot", NoName, c, 0) \in Entry /\ Blank \in Entry
      /\ entry("dotdot", NoName, 0, 0) \in Entry /\ entry("dotdot", NoName, d, 0) \in Entry
  BY <1>1 DEF entry, Blank, Entry, Kinds
<1> QED  BY <1>2 DEF BlankDirectory, Sector

\* The record of a job, field by field.
LEMMA JobFields ==
    ASSUME NEW j
    PROVE  j \in Jobs <=>
             /\ IsJob(j)
             /\ j.dir \in Cluster /\ j.orig \in Sector /\ j.new \in Sector
             /\ j.del \in [Slots -> 0..NumSlots] /\ j.upd \in SUBSET Slots
             /\ j.path \in Seq(Names) /\ j.at \in Cluster /\ j.size \in Nat
             /\ j.data \in Seq(Block) /\ j.buffer \in Block
BY DEF Jobs, IsJob

-----------------------------------------------------------------------------
(* The handlers at work.                                                   *)

\* What the steps of the handlers do to the job.
Edits(j) ==
    /\ \A d \in [Slots -> 0..NumSlots] : [j EXCEPT !.del = d] \in Jobs
    /\ \A i \in Slots : [j EXCEPT !.del[i] = 0] \in Jobs
    /\ \A i \in Slots, p \in Seq(Names), a \in Cluster :
          [j EXCEPT !.del[i] = 0, !.path = p, !.at = a] \in Jobs
    /\ \A u \in SUBSET Slots : [j EXCEPT !.upd = u] \in Jobs
    /\ \A i \in Slots : [j EXCEPT !.upd = @ \ {i}] \in Jobs
    /\ \A p \in Seq(Names), a \in Cluster, z \in Nat :
          [j EXCEPT !.path = p, !.at = a, !.size = z] \in Jobs
Turns(j) ==
    /\ \A p \in Seq(Names), a \in Cluster, v \in Seq(Block), b \in Block :
          [j EXCEPT !.path = p, !.at = a, !.data = v, !.buffer = b] \in Jobs
    /\ \A a \in Cluster, b \in Block :
          [j EXCEPT !.at = a, !.data = Append(@, b), !.buffer = b] \in Jobs
    /\ \A p \in Seq(Names), a \in Cluster, z \in Nat, v \in Seq(Block) :
          [j EXCEPT !.path = p, !.at = a, !.size = z, !.data = v] \in Jobs
    /\ \A a \in Cluster, v \in Seq(Block) : [j EXCEPT !.at = a, !.data = v] \in Jobs

\* They keep its type.
LEMMA JobEdits == ASSUME NEW j \in Jobs PROVE Edits(j) /\ Turns(j)
<1>1. 0 \in 0..NumSlots
  BY SlotAssumption
<1>2. j.del \in [Slots -> 0..NumSlots] /\ j.data \in Seq(Block) /\ j.upd \in SUBSET Slots
  BY DEF Jobs
<1>3. \A i \in Slots : [j.del EXCEPT ![i] = 0] \in [Slots -> 0..NumSlots]
  BY <1>1, <1>2
<1>4. \A b \in Block : Append(j.data, b) \in Seq(Block)
  BY <1>2
<1>5. Edits(j)
  BY <1>2, <1>3 DEF Jobs, Edits
<1>6. Turns(j)
  BY <1>4 DEF Jobs, Turns
<1> QED  BY <1>5, <1>6

\* Between operations, and when a handler begins.
LEMMA JobBegins ==
    /\ NoJob \in Jobs
    /\ \A c \in Cluster, o, s \in Sector, d \in [Slots -> 0..NumSlots], u \in SUBSET Slots :
          [NoJob EXCEPT !.dir = c, !.orig = o, !.new = s, !.del = d, !.upd = u] \in Jobs
<1>1. 0 \in 0..NumSlots /\ 0 \in Cluster /\ Root \in Cluster /\ <<>> \in Seq(Names)
      /\ <<>> \in Seq(Block) /\ Zero \in Block
  BY SlotAssumption, ClusterAssumption DEF Cluster, Root, Block
<1>2. NoSector \in Sector
  <2>1. Blank \in Entry
    BY <1>1 DEF Blank, entry, Entry, Kinds
  <2> QED  BY <2>1 DEF NoSector, Sector
<1>3. [i \in Slots |-> 0] \in [Slots -> 0..NumSlots]
  BY <1>1
<1>4. NoJob \in Jobs
  BY <1>1, <1>2, <1>3 DEF NoJob, Jobs
<1>5. \A c \in Cluster, o, s \in Sector, d \in [Slots -> 0..NumSlots], u \in SUBSET Slots :
        [NoJob EXCEPT !.dir = c, !.orig = o, !.new = s, !.del = d, !.upd = u] \in Jobs
  BY <1>1 DEF NoJob, Jobs
<1> QED  BY <1>4, <1>5

\* The temporary files, and the variables that keep their types by themselves.
Temporaries(t) == \A c \in DOMAIN t : c \in Cluster /\ (t[c] \in Sector \/ t[c] \in Block)
Typed == Temporaries(tmp) /\ fat \in Fat /\ bcc \in Bases /\ job \in Jobs

\* A sector or a block is saved.
LEMMA SavesTyped ==
    ASSUME Temporaries(tmp), NEW C \in SUBSET Cluster, NEW x, x \in Sector \/ x \in Block
    PROVE  Temporaries(SaveAll(C, x))
BY DEF Temporaries, SaveAll

\* The file on the delete list has a path of names.
LEMMA VictimTyped ==
    ASSUME HostInv, pc = "delete", NEW i \in Slots, NextDeleted(i)
    PROVE  VictimPath(i) \in Seq(Names)
<1>1. job.del # Nothing
  BY NothingNext
<1>2. Steady /\ HandlingFrame /\ Deleting
  BY <1>1 DEF HostInv, Settled, Filling, Ready, Emptying, Handling, Saving, Removed, Updating,
              Writing, Over, HandlingFrame
<1>3. PICK k \in Slots : job.del = Only(k) /\ Drops(S, k, job.upd)
  BY <1>1, <1>2 DEF Deleting, Listed
<1>4. i = k
  BY <1>3, OnlyNext
<1>5. VictimPath(i) = File(S, i)
  BY <1>2, <1>3, <1>4, TheVictim
<1>6. FileFacts(fat, S, files, i)
  BY <1>3, <1>4, FilesHave DEF Drops
<1>7. <<S[i].name>> \in Seq(Names)
  BY <1>6 DEF FileFacts
<1> QED  BY <1>5, <1>7 DEF File

\* So has the file on the update list.
LEMMA UpdatedTyped ==
    ASSUME HostInv, pc = "update", NEW i \in Slots, NextUpdated(i), job.new[i].clus # 0
    PROVE  restore_file_from(tmp, job.dir, job.new[i].clus) \in Seq(Names)
<1>1. i \in job.upd
  BY DEF NextUpdated
<1>2. ~Emptying
  BY <1>1 DEF Emptying
<1>3. Steady /\ HandlingFrame /\ Updating
  BY <1>2 DEF HostInv, Settled, Filling, Ready, Handling, Deleting, Saving, Removed,
              Writing, Over, HandlingFrame
<1>4. S = H /\ job.new = H /\ job.dir = Root /\ Puts(job.upd)
  BY <1>1, <1>3 DEF Updating, HandlingFrame
<1>5. Sets(i)
  BY <1>1, <1>4 DEF Puts
<1>6. restore_file_from(tmp, Root, H[i].clus) = File(H, i)
  BY <1>3, <1>4, <1>5, UpdatePath
<1>7. FileFacts(fat, H, Goal, i)
  BY <1>3, <1>5, FilesHave DEF HandlingFrame, Sets
<1>8. <<H[i].name>> \in Seq(Names)
  BY <1>7 DEF FileFacts
<1> QED  BY <1>4, <1>6, <1>8 DEF File

\* What the steps of a handler do to the temporary files and the job.
Keeps == Temporaries(tmp') /\ job' \in Jobs

\* delete_dir_entry_cache keeps the types.
LEMMA DeleteTyped ==
    ASSUME HostInv, Typed, NEW i \in Slots, DeleteBlank(i) \/ DeleteNow(i) \/ DeleteFile(i)
    PROVE  Keeps
<1>1. NextDeleted(i) /\ pc = "delete" /\ Temporaries(tmp) /\ job \in Jobs /\ NoJob \in Jobs
  BY JobBegins DEF DeleteBlank, DeleteNow, DeleteFile, NextDeleted, Typed
<1>2. tmp' = tmp
  BY DEF DeleteBlank, DeleteNow, DeleteFile
<1>3. VictimPath(i) \in Seq(Names)
  BY <1>1, VictimTyped
<1>4. Victim(i).clus \in Cluster
  <2>1. job.orig \in Sector /\ job.del[i] \in Slots
    BY <1>1, SlotAssumption DEF Jobs, NextDeleted, Slots
  <2>2. job.orig[job.del[i]] \in Entry
    BY <2>1 DEF Sector
  <2> QED  BY <2>2 DEF Victim, Entry
<1>5. NoJob.del \in [Slots -> 0..NumSlots] /\ Edits(job)
  BY <1>1, JobEdits DEF Jobs
<1>6. CASE DeleteBlank(i)
  BY <1>1, <1>2, <1>5, <1>6 DEF DeleteBlank, Edits, Keeps
<1>7. CASE DeleteNow(i)
  BY <1>1, <1>2, <1>5, <1>7 DEF DeleteNow, Edits, Keeps
<1>8. CASE DeleteFile(i)
  BY <1>1, <1>2, <1>3, <1>4, <1>5, <1>8 DEF DeleteFile, Edits, Keeps
<1> QED  BY <1>6, <1>7, <1>8

\* update_lfs_file_or_directory keeps the types.
LEMMA UpdateTyped ==
    ASSUME HostInv, Typed, NEW i \in Slots, UpdateStop(i) \/ UpdateDirectory(i) \/ UpdateFile(i)
    PROVE  Keeps
<1>1. NextUpdated(i) /\ pc = "update" /\ Temporaries(tmp) /\ job \in Jobs
  BY DEF UpdateStop, UpdateDirectory, UpdateFile, NextUpdated, Typed
<1>2. Rest(i) \in Jobs /\ [job EXCEPT !.upd = {}] \in Jobs
  BY <1>1, JobEdits DEF Rest, Edits
<1>3. job.new[i].clus \in Cluster /\ job.new[i].size \in Nat /\ job.dir \in Cluster
  <2>1. job.new \in Sector /\ job.dir \in Cluster
    BY <1>1 DEF Jobs
  <2>2. job.new[i] \in Entry
    BY <2>1 DEF Sector
  <2> QED  BY <2>1, <2>2 DEF Entry
<1>4. CASE UpdateStop(i)
  BY <1>1, <1>2, <1>4 DEF UpdateStop, Keeps
<1>5. CASE UpdateDirectory(i)
  <2>1. /\ tmp' = save_temporary_file(job.new[i].clus, BlankDirectory(job.new[i].clus, job.dir))
        /\ job' = Rest(i)
    BY <1>5 DEF UpdateDirectory
  <2>2. Temporaries(save_temporary_file(job.new[i].clus,
                                        BlankDirectory(job.new[i].clus, job.dir)))
    BY <1>1, <1>3, BlankTyped, SavesTyped DEF save_temporary_file
  <2> QED  BY <1>2, <2>1, <2>2 DEF Keeps
<1>6. CASE UpdateFile(i)
  <2> PICK p : p = restore_file_from(tmp, job.dir, job.new[i].clus)
    OBVIOUS
  <2> PICK c : c = job.new[i].clus
    OBVIOUS
  <2> PICK z : z = job.new[i].size
    OBVIOUS
  <2>1. c # 0 /\ StartWrite(Rest(i), p, c, z) /\ tmp' = tmp
    BY <1>6 DEF UpdateFile
  <2>2. p \in Seq(Names)
    BY <1>1, <2>1, UpdatedTyped
  <2>3. [Rest(i) EXCEPT !.path = p, !.at = c, !.size = z] \in Jobs
    BY <1>2, <1>3, <2>2, JobEdits DEF Edits
  <2>4. job' \in Jobs
    BY <1>2, <2>1, <2>3 DEF StartWrite
  <2> QED  BY <1>1, <2>1, <2>4 DEF Keeps
<1> QED  BY <1>4, <1>5, <1>6

\* save_file_clusters keeps the types: it reads no block that is not there.
LEMMA SaveTyped == ASSUME TableFits, HostInv, Typed, SaveStep PROVE Keeps
<1>1. pc = "save" /\ Step /\ Temporaries(tmp) /\ fat \in Fat /\ job \in Jobs
  BY DEF SaveStep, Step, Typed
<1>2. Steady /\ Saving
  BY <1>1 DEF HostInv, Settled, Filling, Ready, Emptying, Handling, Deleting, Removed, Updating,
              Writing, Over
<1>3. PICK i : Saves(i)
  BY <1>2 DEF Saving, Saves
<1>4. PICK block : Turn(i, Chain(fat, S, i), files[job.path], Len(job.data), block)
  BY <1>1, <1>2, <1>3, SavingTurn
<1> PICK a : a = job.at
  OBVIOUS
<1>5. /\ a \in 2..NumClusters /\ block \in Block
      /\ tmp' = save_temporary_file(a, block)
      /\ job' = IF fat[a] >= MEDIA
                THEN [job EXCEPT !.path = <<>>, !.at = 0, !.data = <<>>, !.buffer = Zero]
                ELSE [job EXCEPT !.at = fat[a], !.data = Append(@, block), !.buffer = block]
  BY <1>4 DEF Turn
<1>6. a \in Cluster /\ 0 \in Cluster /\ <<>> \in Seq(Names) /\ <<>> \in Seq(Block) /\ Zero \in Block
  BY <1>5, ClusterAssumption DEF Cluster, Block
<1>7. Temporaries(tmp')
  BY <1>1, <1>5, <1>6, SavesTyped DEF save_temporary_file
<1>8. fat[a] >= MEDIA \/ fat[a] \in Cluster
  BY <1>1, <1>6 DEF Fat, FatValue, MEDIA, EOC
<1>9. Turns(job)
  BY <1>1, JobEdits
<1>10. job' \in Jobs
  BY <1>5, <1>6, <1>8, <1>9 DEF Turns
<1> QED  BY <1>7, <1>10 DEF Keeps

\* littlefs_write keeps the types.
LEMMA WriteTyped == ASSUME Typed, WriteStep PROVE Keeps
<1>1. Temporaries(tmp) /\ fat \in Fat /\ job \in Jobs
  BY DEF Typed
<1> PICK a : a = job.at
  OBVIOUS
<1> PICK v : v = job.data \o SentBlock(a)
  OBVIOUS
<1>2. /\ tmp' = tmp
      /\ \/ job' = [job EXCEPT !.path = <<>>, !.at = 0, !.size = 0, !.data = <<>>]
         \/ ~EndsChain(fat[a]) /\ job' = [job EXCEPT !.at = fat[a], !.data = v]
  BY Zenon DEF WriteStep
<1>3. a \in Cluster /\ 0 \in Cluster /\ <<>> \in Seq(Names) /\ <<>> \in Seq(Block)
  BY <1>1, ClusterAssumption DEF Cluster, Jobs
<1>4. EndsChain(fat[a]) \/ fat[a] \in Cluster
  BY <1>1, <1>3 DEF Fat, FatValue, MEDIA, EOC, EndsChain
<1>5. v \in Seq(Block)
  <2>1. job.data \in Seq(Block) /\ Raw \in Block
    BY <1>1 DEF Jobs, Block
  <2>2. SentBlock(a) \in Seq(Block)
    BY <2>1 DEF SentBlock
  <2> QED  BY <2>1, <2>2
<1>6. Turns(job)
  BY <1>1, JobEdits
<1>7. /\ [job EXCEPT !.path = <<>>, !.at = 0, !.size = 0, !.data = <<>>] \in Jobs
      /\ ~EndsChain(fat[a]) => [job EXCEPT !.at = fat[a], !.data = v] \in Jobs
  BY <1>3, <1>4, <1>5, <1>6 DEF Turns
<1>8. job' \in Jobs
  BY <1>2, <1>7, Zenon
<1> QED  BY <1>1, <1>2, <1>8 DEF Keeps

\* A handler at work keeps the types.
LEMMA StepTyped == ASSUME TableFits, HostInv, Typed, Step PROVE Typed'
<1>1. UNCHANGED <<fat, bcc>>
  BY StepStays
<1>2. ASSUME NEW i \in Slots,
             \/ DeleteBlank(i) \/ DeleteNow(i) \/ DeleteFile(i)
             \/ UpdateStop(i) \/ UpdateDirectory(i) \/ UpdateFile(i)
      PROVE  Keeps
  BY <1>2, DeleteTyped, UpdateTyped
<1>3. ASSUME SaveDirectory PROVE Keeps
  <2>1. job \in Jobs /\ Temporaries(tmp)
    BY DEF Typed
  <2>2. job.new \in Sector /\ job.dir \in Cluster /\ Root \in Cluster /\ 0 \in Cluster
    BY <2>1, ClusterAssumption DEF Jobs, Cluster, Root
  <2> PICK C : C = IF job.dir = Root THEN {Root, 0} ELSE {job.dir}
    OBVIOUS
  <2>3. C \in SUBSET Cluster
    BY <2>2
  <2>4. tmp' = SaveAll(C, job.new) /\ job' = job
    BY <1>3 DEF SaveDirectory
  <2>5. Temporaries(SaveAll(C, job.new))
    BY <2>1, <2>2, <2>3, SavesTyped
  <2> QED  BY <2>1, <2>4, <2>5 DEF Keeps
<1>4. ASSUME Finish PROVE Keeps
  BY <1>4, JobBegins DEF Finish, Keeps, Typed
<1>5. Keeps
  BY <1>2, <1>3, <1>4, SaveTyped, WriteTyped DEF Step
<1> QED  BY <1>1, <1>5 DEF Keeps, Typed

-----------------------------------------------------------------------------
(* The sectors the host sends, and every step.                             *)

\* What the host sends: its table, sectors of the root, and blocks that no
\* entry of the drive names yet.
Sends(c, x) ==
    \/ c = FatArea
    \/ c = Root /\ x \in Sector
    \/ /\ c \in 2..NumClusters /\ x \in Values
       /\ fat[c] = FREE /\ \A j \in Named(S) : S[j].clus # c

\* The next sector is one of them.
LEMMA NextSent ==
    ASSUME TableFits, HostInv, pc = "ready", todo # <<>>
    PROVE  /\ Sends(Head(todo).at, Head(todo).data)
           /\ Head(todo).at # FatArea => Head(todo).touched = TRUE
<1>1. /\ \A f : FatWrite(f).at = FatArea
      /\ \A s : /\ DirWrite(Root, s).at = Root /\ DirWrite(Root, s).data = s
                 /\ DirWrite(Root, s).touched = TRUE
  BY DEF FatWrite, DirWrite
<1>2. H \in Sector
  BY DEF HostInv, Steady, RootSector
<1>3. CASE Filling
  <2>1. PICK i, n, f, last : Fills(i, n, f, last)
    BY <1>3 DEF Filling
  <2> PICK w : w = Chain(f, H, i)
    OBVIOUS
  <2> PICK x : x = Wanted(i)
    OBVIOUS
  <2>2. IF n < Len(x)
        THEN /\ w[n + 1] \in 2..NumClusters /\ w[n + 1] \in Cells(w)
             /\ Head(todo) = [at |-> w[n + 1], data |-> x[n + 1], touched |-> TRUE]
        ELSE Head(todo) = FatWrite(f)
    <3>1. SendsNext(w, x, n, f, last)
      BY <2>1, FillsNext
    <3> QED  BY <3>1 DEF SendsNext
  <2>3. \A c \in Cells(w) : fat[c] = FREE /\ \A j \in Named(S) : S[j].clus # c
    BY <2>1 DEF Fills
  <2>4. FileFacts(f, H, Goal, i) /\ Goal[File(H, i)] = x
    BY <2>1, FilesHave, SetsGoal DEF Fills, Sets
  <2>5. x \in Seq(Values) /\ n \in Nat
    BY <2>1, <2>4 DEF FileFacts, Fills
  <2>6. n < Len(x) => x[n + 1] \in Values
    BY <2>5, LenProperties, ElementOfSeq
  <2> QED  BY <1>1, <2>2, <2>3, <2>6 DEF Sends
<1>4. CASE Ready
  <2>1. ASSUME NEW t, todo = <<DirWrite(Root, H)>> \o t, After(t)
        PROVE  Head(todo) = DirWrite(Root, H)
    <3>1. CASE t = <<>>
      BY <2>1, <3>1
    <3>2. CASE \E f : t = <<FatWrite(f)>>
      <4>1. PICK f : t = <<FatWrite(f)>>
        BY <3>2
      <4>2. todo = <<DirWrite(Root, H), FatWrite(f)>>
        BY <2>1, <4>1, TwoSectors
      <4> QED  BY <4>2
    <3> QED  BY <2>1, <3>1, <3>2 DEF After
  <2>2. ASSUME NEW e, NEW i, todo = <<DirWrite(Root, e), DirWrite(Root, H)>>, Emptied(S, e, i)
        PROVE  Head(todo) = DirWrite(Root, e) /\ e \in Sector
    BY <2>2 DEF Emptied, RootSector
  <2> QED  BY <1>1, <1>2, <1>4, <2>1, <2>2 DEF Ready, LastNext, EmptyNext, Sends
<1>5. CASE Over
  <2>1. PICK f : todo = <<FatWrite(f)>>
    BY <1>5 DEF Over, After
  <2> QED  BY <1>1, <2>1 DEF Sends
<1>6. ~Settled /\ ~Emptying /\ ~Handling
  BY DEF Settled, Emptying, Handling, Deleting, Saving, Removed, Updating, Writing
<1> QED  BY <1>3, <1>4, <1>5, <1>6 DEF HostInv

\* A sector the host sends keeps the types.
LEMMA SectorTyped == ASSUME TableFits, HostInv, TableInv, Typed, Write PROVE Typed'
<1> PICK c : c = Head(todo).at
  OBVIOUS
<1> PICK x : x = Head(todo).data
  OBVIOUS
<1>1. Temporaries(tmp) /\ fat \in Fat /\ bcc \in Bases /\ job \in Jobs
  BY DEF Typed
<1>2. todo # <<>> /\ bcc' = bcc /\ fat' = IF c = FatArea THEN x ELSE fat
  BY WriteMoves
<1>3. CASE c = FatArea
  <2>1. x \in Fat
    <3>1. PICK g : Row(todo) /\ Pending(g) /\ g \in Fat
      BY DEF TableInv
    <3>2. Head(todo) = todo[1] /\ 1 \in 1..Len(todo)
      BY <1>2, <3>1, RowTail
    <3> QED  BY <1>3, <3>1, <3>2 DEF Pending
  <2>2. WriteFat(x)
    <3>1. Head(todo).at = FatArea /\ FatArea # Root
      BY <1>3 DEF FatArea, Root
    <3> QED  BY <3>1, Zenon DEF Write
  <2> QED  BY <1>1, <2>1, <2>2 DEF WriteFat, Typed
<1>4. CASE c = Root
  <2>1. c # FatArea
    BY <1>4 DEF Root, FatArea
  <2> PICK touched : touched = Head(todo).touched
    OBVIOUS
  <2>2. WriteRoot(x, touched)
    BY <1>4, <2>1, Zenon DEF Write
  <2>3. pc = "ready"
    BY <2>2 DEF WriteRoot
  <2>4. x \in Sector
    BY <1>2, <1>4, <2>1, <2>3, NextSent, ClusterAssumption DEF Sends, Root
  <2>5. S \in Sector /\ Root \in DOMAIN tmp /\ Root \in Cluster
    BY ClusterAssumption DEF HostInv, Steady, SavedRoot, RootSector, S, Cluster, Root
  <2> PICK d : d = difference_of_dir_entry(S, x, touched)
    OBVIOUS
  <2>6. d.del \in [Slots -> 0..NumSlots] /\ d.upd \in SUBSET Slots
    BY ListsTyped
  <2>7. /\ job' = [NoJob EXCEPT !.dir = Root, !.orig = S, !.new = x, !.del = d.del, !.upd = d.upd]
        /\ UNCHANGED <<tmp, fat>>
    BY <2>2, <2>5 DEF WriteRoot, Compare, S
  <2>8. job' \in Jobs
    BY <2>4, <2>5, <2>6, <2>7, JobBegins
  <2> QED  BY <1>1, <1>2, <2>7, <2>8 DEF Typed
<1>5. CASE c # FatArea /\ c # Root
  <2>1. WriteCluster(c, x, Head(todo).touched)
    BY <1>5, Zenon DEF Write
  <2>2. pc = "ready"
    BY <2>1 DEF WriteCluster
  <2>3. /\ Head(todo).touched = TRUE
        /\ c \in 2..NumClusters /\ x \in Values
        /\ fat[c] = FREE /\ \A j \in Named(S) : S[j].clus # c
    BY <1>2, <1>5, <2>2, NextSent DEF Sends
  <2>4. tmp' = save_temporary_file(c, x) /\ UNCHANGED <<fat, job>>
    BY <2>1, <2>3, BlockSent DEF HostInv
  <2>5. c \in Cluster /\ x \in Block
    BY <2>3, ClusterAssumption DEF Cluster, Block
  <2>6. Temporaries(tmp')
    BY <1>1, <2>4, <2>5, SavesTyped DEF save_temporary_file
  <2> QED  BY <1>1, <1>2, <2>4, <2>6 DEF Typed
<1> QED  BY <1>3, <1>4, <1>5

\* Every step keeps the types of the four variables.
LEMMA NextTyped ==
    ASSUME TableFits, MacHost, HostInv, TableInv, Typed, [Next]_allvars
    PROVE  Typed'
<1>1. CASE Begin
  BY <1>1, Requested DEF vars, Typed
<1>2. CASE HostRead
  <2>1. PICK c \in 2..NumClusters : Read(c)
    BY <1>2 DEF HostRead
  <2>2. c \in Cluster
    BY ClusterAssumption DEF Cluster
  <2>3. find_base_cluster_and_offset(fat, bcc, c).bcc \in Bases
    BY <2>2, SearchTyped DEF Typed
  <2> QED  BY <2>1, <2>3 DEF Read, Typed
<1>3. CASE Write
  BY <1>3, SectorTyped
<1>4. CASE Handle
  BY <1>4, StepTyped DEF Handle
<1>5. CASE Done
  BY <1>5 DEF Done, vars, Typed
<1>6. CASE UNCHANGED allvars
  BY <1>6 DEF allvars, vars, Typed
<1> QED  BY <1>1, <1>2, <1>3, <1>4, <1>5, <1>6 DEF Next, Progress

\* A drive starts with the types.
LEMMA InitTyped == ASSUME TableFits, Init PROVE Typed
<1>1. PICK n \in Names, x \in Mounted :
        LET label == entry("label", NoName, 0, 0)
            root == [i \in Slots |-> CASE i = 1 -> label
                                       [] i = 2 /\ x # <<>> -> entry("file", n, 2, Len(x))
                                       [] OTHER -> Blank]
        IN  /\ tmp = [c \in {Root} |-> root]
            /\ bcc = NoBase /\ job = NoJob
  BY DEF Init
<1>2. tmp = [c \in {Root} |-> tmp[Root]] /\ tmp[Root] \in Sector
  <2>1. HostInv
    BY InitHolds
  <2>2. tmp[Root] \in Sector
    BY <2>1 DEF HostInv, Steady, SavedRoot, RootSector
  <2> QED  BY <1>1, <2>2
<1>3. Temporaries(tmp)
  BY <1>2, ClusterAssumption DEF Temporaries, Cluster, Root
<1>4. fat \in Fat
  <2>1. todo = <<>>
    BY DEF Init
  <2>2. TableInv
    BY InitReads DEF ReadInv
  <2>3. PICK g : Pending(g) /\ g \in Fat
    BY <2>2 DEF TableInv
  <2> QED  BY <2>1, <2>3 DEF Pending
<1>5. bcc \in Bases /\ job \in Jobs
  <2>1. NoBase \in Bases
    BY ClusterAssumption DEF NoBase, Bases, Cluster
  <2> QED  BY <1>1, <2>1, JobBegins
<1> QED  BY <1>3, <1>4, <1>5 DEF Typed

-----------------------------------------------------------------------------
(* The types of all the variables.                                         *)

\* The trees of the invariant have files of blocks at paths of names.
Blocked(g) == /\ DOMAIN g \subseteq Seq(Names)
              /\ \A p \in DOMAIN g : g[p] = DIR \/ g[p] \in Seq(Block)

\* A tree of files of the root is one.
LEMMA TreeBlocked == ASSUME NEW g, Tree(g) PROVE Blocked(g)
<1>1. \A x \in Contents \union Mounted : x \in Seq(Block)
  <2>1. \A x \in Seq(Values) : x \in Seq(Block)
    BY SeqMonotonic DEF Block
  <2> QED  BY <2>1, Stocked
<1>2. \A n \in Names : <<n>> \in Seq(Names)
  OBVIOUS
<1> QED  BY <1>1, <1>2 DEF Tree, Blocked

\* So has littlefs, at every step of an operation.
LEMMA StoreTyped == ASSUME HostInv PROVE Blocked(lfs)
<1>1. Tree(files) /\ Blocked(files)
  BY TreeBlocked DEF HostInv, Steady
<1>2. Blocked(Kept)
  BY <1>1 DEF Blocked, Kept
<1>3. ASSUME Layout(fat, H, Goal) PROVE Blocked(Goal)
  <2>1. Tree(Goal)
    <3>1. \A i \in Named(H) : File(H, i) \in {<<n>> : n \in Names}
      <4> SUFFICES ASSUME NEW i \in Named(H) PROVE File(H, i) \in {<<n>> : n \in Names}
        OBVIOUS
      <4>1. FileFacts(fat, H, Goal, i)
        BY <1>3, FilesHave
      <4> QED  BY <4>1 DEF FileFacts
    <3> QED  BY <1>3, <3>1 DEF Layout, Holds, Tree
  <2> QED  BY <2>1, TreeBlocked
<1>4. CASE Settled \/ Filling \/ Ready \/ Emptying
  BY <1>1, <1>4 DEF Settled, Filling, Ready, Emptying
<1>5. CASE Over
  BY <1>3, <1>5 DEF Over
<1>6. CASE Handling
  <2>1. CASE Deleting \/ Saving \/ Removed \/ Updating
    BY <1>1, <1>2, <1>3, <1>6, <2>1 DEF Handling, Deleting, Saving, Removed, Updating
  <2>2. CASE Writing
    <3>1. PICK k : Sets(k) /\ job.path = File(H, k) /\ lfs = Put(Kept, job.path, Old(job.path))
      BY <2>2 DEF Writing
    <3>2. FileFacts(fat, H, Goal, k)
      BY <1>6, <3>1, FilesHave DEF Handling, Sets
    <3>3. File(H, k) \in Seq(Names)
      <4>1. <<H[k].name>> \in Seq(Names)
        BY <3>2 DEF FileFacts
      <4> QED  BY <4>1 DEF File
    <3>4. Old(File(H, k)) \in Seq(Block)
      BY <1>1, OldBlocks
    <3> QED  BY <1>2, <3>1, <3>3, <3>4 DEF Blocked, Put
  <2> QED  BY <1>6, <2>1, <2>2 DEF Handling
<1> QED  BY <1>4, <1>5, <1>6 DEF HostInv

\* The two invariants and the four variables give the types of all.
LEMMA AllTyped == ASSUME HostInv, Typed PROVE TypeOK
<1>1. pc \in {"ready", "delete", "save", "update", "write"}
  BY DEF HostInv, Settled, Filling, Ready, Emptying, Handling, Deleting, Saving, Removed,
         Updating, Writing, Over
<1>2. Blocked(lfs)
  BY StoreTyped
<1> QED  BY <1>1, <1>2 DEF TypeOK, Typed, Blocked, Temporaries, Bases, Jobs

\* Every variable of the drive keeps its type: a path that is restored from
\* the directory sectors is made of names, a chain that is saved or written
\* stays on the disk (restore_file_from, save_file_clusters, littlefs_write).
THEOREM DriveTypes ==
    ASSUME MacHost, TableFits
    PROVE  Spec => []TypeOK
<1>1. Init => ReadInv /\ Typed
  BY InitReads, InitTyped
<1>2. HostInv /\ ReadInv /\ Typed /\ [Next]_allvars => ReadInv' /\ Typed'
  BY NextReads, NextTyped DEF ReadInv
<1>3. HostInv /\ Typed => TypeOK
  BY AllTyped
<1> QED  BY <1>1, <1>2, <1>3, HostInvariant, PTL DEF Spec
=============================================================================
