---------------------------- MODULE ShownProofs -----------------------------
(***************************************************************************)
(* What a host is shown after a mount, for every tree, every order of the  *)
(* names in it and every size of the disk: the names, directories and      *)
(* blocks of littlefs.  A host follows the entries of the sectors and the  *)
(* chains of the table; the driver finds the way back from each cluster,   *)
(* first to the start of its chain, then to the entry that names it, then  *)
(* to the path of the file.                                                *)
(***************************************************************************)
EXTENDS FatBuildProofs

-----------------------------------------------------------------------------
(* The search for the start of a chain, along a run of clusters.           *)

\* After a search for the cluster before, one turn is enough.
LEMMA ChainNext ==
    ASSUME NEW f, NEW b, NEW o \in Nat, NEW c \in Cluster, f[c] # FREE, c >= 1,
           Predecessors(f, c) = {c - 1}
    PROVE  find_base_cluster_and_offset(f, Where(b, o, c - 1).bcc, c) = Where(b, o + 1, c)
<1> DEFINE cache == [cluster |-> c - 1, base_cluster |-> b, offset |-> o]
<1>1. Where(b, o, c - 1).bcc = cache
  BY DEF Where
<1>2. PICK h : /\ WalksBy(h, f, Reset(cache, c), c)
               /\ find_base_cluster_and_offset(f, cache, c) = h[NumClusters][c]
  BY WalkUnfolds
<1>3. NumClusters \in 0..NumClusters /\ (NumClusters - NumClusters) + 1 + o = o + 1
      /\ NumClusters # 0 /\ c \in Nat
  BY ClusterAssumption DEF Cluster
<1>4. Reset(cache, c) = cache
  BY <1>3 DEF Reset
<1>5. First({c - 1}) = c - 1
  <2>1. c - 1 <= c - 1
    BY <1>3
  <2> QED  BY <2>1 DEF First
<1>6. h[NumClusters][c] = Helped(cache, c, (NumClusters - NumClusters) + 1 + cache.offset)
  <2>1. cache.cluster = First(Predecessors(f, c)) /\ Predecessors(f, c) # {}
    BY <1>5
  <2> HIDE DEF cache
  <2> QED  BY <1>2, <1>3, <1>4, <2>1 DEF WalksBy
<1>7. Helped(cache, c, o + 1) = Where(b, o + 1, c)
  BY DEF Helped, Where
<1> HIDE DEF cache
<1>8. h[NumClusters][c] = Where(b, o + 1, c)
  <2>1. cache.offset = o
    BY DEF cache
  <2> QED  BY <1>3, <1>6, <1>7, <2>1
<1> QED  BY <1>2, <1>1, <1>8

-----------------------------------------------------------------------------
(* Runs of clusters.                                                       *)

\* The clusters from a to b.
Run(a, b) == [k \in 1..(b - a + 1) |-> a + k - 1]

\* A run of clusters is its first and the run after it.
LEMMA RunParts ==
    ASSUME NEW a \in Nat, NEW b \in Nat, a < b
    PROVE  <<b>> = Run(b, b) /\ <<a>> \o Run(a + 1, b) = Run(a, b)
<1>1. <<b>> = Run(b, b)
  BY DEF Run
<1> DEFINE R == Run(a + 1, b)
           A == <<a>>
           Q == A \o R
<1>2. R \in Seq(Nat) /\ Len(R) = b - a
  BY DEF Run
<1>3. \A k \in 1..(b - a) : R[k] = a + k
  BY DEF Run
<1>4. A \in Seq(Nat) /\ Len(A) = 1 /\ A[1] = a
  OBVIOUS
<1> HIDE DEF R, A
<1>5. /\ Q \in Seq(Nat) /\ Len(Q) = Len(A) + Len(R)
      /\ \A k \in 1..Len(A) + Len(R) : Q[k] = IF k <= Len(A) THEN A[k] ELSE R[k - Len(A)]
  BY <1>2, <1>4, ConcatProperties
<1>6. Q \in Seq(Nat) /\ Len(Q) = 1 + (b - a)
  BY <1>2, <1>4, <1>5
<1>7. ASSUME NEW k \in 1..(b - a + 1) PROVE Q[k] = a + k - 1
  <2>1. CASE k = 1
    <3>1. Q[1] = A[1]
      <4>1. 1 \in 1..Len(A) + Len(R)
        BY <1>2, <1>4
      <4> HIDE DEF Q
      <4> QED  BY <1>4, <1>5, <4>1
    <3> QED  BY <1>4, <2>1, <3>1
  <2>2. CASE k # 1
    <3>1. k - 1 \in 1..(b - a) /\ a + (k - 1) = a + k - 1
      BY <2>2
    <3>2. Q[k] = R[k - 1]
      <4>1. k \in 1..Len(A) + Len(R) /\ ~(k <= Len(A)) /\ k - Len(A) = k - 1
        BY <1>2, <1>4, <2>2
      <4> HIDE DEF Q
      <4> QED  BY <1>5, <4>1
    <3> QED  BY <1>3, <3>1, <3>2
  <2> QED  BY <2>1, <2>2
<1> HIDE DEF Q
<1>8. Q = [k \in 1..(b - a + 1) |-> Q[k]]
  <2>1. Q = [k \in 1..Len(Q) |-> Q[k]]
    BY <1>6
  <2>2. Len(Q) = b - a + 1
    BY <1>6
  <2> QED  BY <2>1, <2>2
<1>9. Q = Run(a, b)
  BY <1>7, <1>8 DEF Run
<1> QED  BY <1>1, <1>9 DEF Q, R, A

\* A host that follows a linked chain visits its clusters in order.
LEMMA ChainFollowed ==
    ASSUME NumClusters < MEDIA, NEW f, NEW a \in 2..NumClusters, NEW b \in a..NumClusters,
           Linked(f, a..b)
    PROVE  ChainOf(f, a) = Run(a, b)
<1>1. PICK h : ChainsBy(h, f) /\ \A c : ChainOf(f, c) = h[NumClusters][c]
  BY ChainUnfolds
<1> DEFINE Right(n) == \A c \in a..b : b - c < n => h[n][c] = Run(c, b)
           T == {n \in Nat : n <= NumClusters => Right(n)}
<1>2. NumClusters \in Nat /\ a \in Nat /\ b \in Nat
  BY ClusterAssumption
<1>3. 0 \in T
  BY <1>2
<1>4. ASSUME NEW m \in Nat, m \in T PROVE m + 1 \in T
  <2> SUFFICES ASSUME m + 1 <= NumClusters, NEW c \in a..b, b - c < m + 1
               PROVE  h[m + 1][c] = Run(c, b)
    OBVIOUS
  <2>1. /\ m + 1 \in 0..NumClusters /\ m + 1 # 0 /\ (m + 1) - 1 = m
        /\ c \in Cluster /\ c >= 2 /\ c \in Nat
    BY <1>2 DEF Cluster
  <2>2. h[m + 1][c] = IF EndsChain(f[c]) \/ f[c] \notin Cluster THEN <<c>>
                      ELSE <<c>> \o h[m][f[c]]
    <3>1. h[m + 1][c] = IF m + 1 = 0 \/ c < 2 THEN <<>>
                        ELSE IF EndsChain(f[c]) \/ f[c] \notin Cluster THEN <<c>>
                        ELSE <<c>> \o h[(m + 1) - 1][f[c]]
      BY <1>1, <2>1 DEF ChainsBy
    <3>2. ~(m + 1 = 0 \/ c < 2)
      BY <2>1
    <3> QED  BY <2>1, <3>1, <3>2
  <2>3. CASE c = b
    <3>1. f[c] = EOC
      BY <1>2, <2>3 DEF Linked
    <3>2. EndsChain(f[c])
      BY <3>1 DEF EndsChain, EOC, MEDIA
    <3>3. <<b>> = Run(b, b)
      BY <1>2 DEF Run
    <3> QED  BY <2>2, <2>3, <3>2, <3>3
  <2>4. CASE c # b
    <3>1. c < b /\ c + 1 \in a..b /\ b - (c + 1) < m /\ m <= NumClusters
      BY <1>2, <2>1, <2>4
    <3>2. f[c] = c + 1 /\ c + 1 \in Cluster
      BY <1>2, <3>1 DEF Linked, Cluster
    <3>3. ~EndsChain(f[c])
      BY <1>2, <2>1, <3>1, <3>2 DEF EndsChain, FREE, MEDIA
    <3>4. h[m][c + 1] = Run(c + 1, b)
      BY <1>4, <3>1
    <3>5. <<c>> \o Run(c + 1, b) = Run(c, b)
      BY <1>2, <2>1, <3>1, RunParts
    <3> QED  BY <2>2, <3>2, <3>3, <3>4, <3>5
  <2> QED  BY <2>3, <2>4
<1>5. NumClusters \in T
  <2> HIDE DEF T
  <2>1. \A n \in Nat : n \in T
    BY <1>3, <1>4, Induction
  <2> QED  BY <1>2, <2>1
<1>6. a \in a..b /\ b - a < NumClusters
  BY <1>2
<1> QED  BY <1>1, <1>2, <1>5, <1>6

\* There is no chain from cluster 0.
LEMMA NoChain == ASSUME NEW f PROVE ChainOf(f, 0) = <<>>
<1>1. PICK h : ChainsBy(h, f) /\ \A c : ChainOf(f, c) = h[NumClusters][c]
  BY ChainUnfolds
<1>2. NumClusters \in 0..NumClusters /\ 0 \in Cluster
  BY ClusterAssumption DEF Cluster
<1>3. h[NumClusters][0] = IF NumClusters = 0 \/ 0 < 2 THEN <<>>
                          ELSE IF EndsChain(f[0]) \/ f[0] \notin Cluster THEN <<0>>
                          ELSE <<0>> \o h[NumClusters - 1][f[0]]
  BY <1>1, <1>2 DEF ChainsBy
<1>4. h[NumClusters][0] = <<>>
  BY <1>3
<1> QED  BY <1>1, <1>4

-----------------------------------------------------------------------------
(* What a host reads along a chain.                                        *)

\* The table has a run of clusters, and nothing else points into it.
Lined(f, a, b) ==
    /\ a \in 2..NumClusters
    /\ b \in a..NumClusters
    /\ Linked(f, a..b)
    /\ \A c \in a..b : Predecessors(f, c) = IF c = a THEN {} ELSE {c - 1}

\* What base_cluster_cache has after k reads along the run.
CacheAfter(a, k) == IF k = 0 THEN bcc ELSE Where(a, k - 1, a + k - 1).bcc

\* Wherever the driver was before, a host that reads a run in order has each
\* cluster located.
LEMMA RunLocated ==
    ASSUME NEW f, NEW a, NEW b, Lined(f, a, b), NEW k \in 1..(b - a + 1)
    PROVE  find_base_cluster_and_offset(f, CacheAfter(a, k - 1), a + k - 1) = Where(a, k - 1, a + k - 1)
<1> DEFINE c == a + k - 1
<1>1. /\ a \in Nat /\ b \in Nat /\ c \in a..b /\ c \in Cluster /\ c >= 1 /\ NumClusters \in Nat
      /\ c \in Nat
  BY ClusterAssumption DEF Lined, Cluster
<1>2. f[c] # FREE
  <2>1. f[c] = IF c + 1 \in a..b THEN c + 1 ELSE EOC
    BY <1>1 DEF Lined, Linked
  <2> HIDE DEF c
  <2> QED  BY <1>1, <2>1 DEF FREE, EOC
<1>3. Predecessors(f, c) = IF c = a THEN {} ELSE {c - 1}
  BY <1>1 DEF Lined
<1>4. CASE k = 1
  <2>1. c = a /\ k - 1 = 0
    BY <1>1, <1>4
  <2> HIDE DEF c
  <2>2. find_base_cluster_and_offset(f, CacheAfter(a, k - 1), c) = Missed(c, c, 0)
    BY <1>1, <1>2, <1>3, <2>1, ChainStart
  <2> QED  BY <2>1, <2>2 DEF Missed, Where, c
<1>5. CASE k # 1
  <2>1. /\ c # a /\ k - 1 # 0 /\ k - 2 \in Nat /\ (k - 1) - 1 = k - 2 /\ (k - 2) + 1 = k - 1
        /\ a + (k - 1) - 1 = c - 1
    BY <1>1, <1>5
  <2>2. CacheAfter(a, k - 1) = Where(a, k - 2, c - 1).bcc
    BY <2>1 DEF CacheAfter
  <2>3. Predecessors(f, c) = {c - 1}
    BY <1>3, <2>1
  <2> DEFINE o == k - 2
  <2>4. o \in Nat
    BY <2>1
  <2> HIDE DEF c, o
  <2>5. find_base_cluster_and_offset(f, Where(a, o, c - 1).bcc, c) = Where(a, o + 1, c)
    BY <1>1, <1>2, <2>3, <2>4, ChainNext
  <2> QED  BY <2>1, <2>2, <2>5 DEF c, o
<1> QED  BY <1>4, <1>5

\* The first k values of a sequence, one at a time.
LEMMA OneMore ==
    ASSUME NEW v, NEW k \in Nat, k >= 1
    PROVE  Append([j \in 1..(k - 1) |-> v[j]], v[k]) = [j \in 1..k |-> v[j]]
<1> DEFINE S == {v[j] : j \in 1..k}
           s == [j \in 1..(k - 1) |-> v[j]]
<1>1. s \in Seq(S) /\ Len(s) = k - 1 /\ v[k] \in S /\ \A j \in 1..(k - 1) : s[j] = v[j]
  OBVIOUS
<1> DEFINE r == Append(s, v[k])
<1> HIDE DEF s, S
<1>2. /\ r \in Seq(S) /\ Len(r) = k /\ \A j \in 1..(k - 1) : r[j] = s[j]
      /\ r[k] = v[k]
  BY <1>1, AppendProperties
<1> HIDE DEF r
<1>3. \A j \in 1..k : r[j] = v[j]
  BY <1>1, <1>2
<1>4. r = [j \in 1..k |-> r[j]]
  BY <1>2
<1> QED  BY <1>3, <1>4 DEF r, s

\* The blocks a run stands for are what the reads of its clusters return.
Returns(a, b, v) ==
    \A k \in 1..(b - a + 1) : ReadWith(CacheAfter(a, k - 1), a + k - 1) = v[k]

\* What is read along a run is what each of its clusters gives, in turn.
LEMMA RunRead ==
    ASSUME NEW a, NEW b, Lined(fat, a, b), NEW v, Returns(a, b, v)
    PROVE  Reading(Run(a, b)) = [k \in 1..(b - a + 1) |-> v[k]]
<1> DEFINE N == b - a + 1
           chain == Run(a, b)
           body(g) ==
             [k \in 0..Len(chain) |->
               IF k = 0 THEN [cache |-> bcc, data |-> <<>>]
               ELSE [cache |-> find_base_cluster_and_offset(fat, g[k-1].cache, chain[k]).bcc,
                     data  |-> Append(g[k-1].data, ReadWith(g[k-1].cache, chain[k]))]]
           read == CHOOSE g : g = body(g)
           Have(k) == [cache |-> CacheAfter(a, k), data |-> [j \in 1..k |-> v[j]]]
           h == [k \in 0..N |-> Have(k)]
<1>1. a \in Nat /\ b \in Nat /\ N \in Nat /\ N >= 1
  BY ClusterAssumption DEF Lined
<1>2. Len(chain) = N /\ \A k \in 1..N : chain[k] = a + k - 1
  BY <1>1 DEF Run
<1>3. ASSUME NEW k \in 1..N
      PROVE  Have(k) = [cache |-> find_base_cluster_and_offset(fat, Have(k - 1).cache, chain[k]).bcc,
                        data  |-> Append(Have(k - 1).data, ReadWith(Have(k - 1).cache, chain[k]))]
  <2>1. Have(k - 1).cache = CacheAfter(a, k - 1) /\ chain[k] = a + k - 1 /\ k # 0
    BY <1>1, <1>2
  <2>2. find_base_cluster_and_offset(fat, CacheAfter(a, k - 1), a + k - 1).bcc = CacheAfter(a, k)
    <3>1. find_base_cluster_and_offset(fat, CacheAfter(a, k - 1), a + k - 1) = Where(a, k - 1, a + k - 1)
      BY RunLocated
    <3> QED  BY <2>1, <3>1 DEF CacheAfter
  <2>3. ReadWith(CacheAfter(a, k - 1), a + k - 1) = v[k]
    BY DEF Returns
  <2>4. Append(Have(k - 1).data, v[k]) = [j \in 1..k |-> v[j]]
    BY <1>1, OneMore
  <2> QED  BY <2>1, <2>2, <2>3, <2>4
<1>4. Have(0) = [cache |-> bcc, data |-> <<>>]
  <2>1. [j \in 1..0 |-> v[j]] = <<>>
    OBVIOUS
  <2> QED  BY <2>1 DEF CacheAfter
<1> HIDE DEF Have, chain
<1>5. h = body(h)
  <2>1. ASSUME NEW k \in 0..N PROVE h[k] = body(h)[k]
    <3>1. CASE k = 0
      BY <1>2, <1>4, <3>1
    <3>2. CASE k # 0
      <4>1. k \in 1..N /\ k - 1 \in 0..N
        BY <1>1, <3>2
      <4>2. h[k] = Have(k) /\ h[k - 1] = Have(k - 1)
        BY <4>1
      <4> QED  BY <1>2, <1>3, <3>2, <4>1, <4>2
    <3> QED  BY <3>1, <3>2
  <2>2. h = [k \in 0..N |-> h[k]] /\ body(h) = [k \in 0..N |-> body(h)[k]]
    BY <1>2
  <2> HIDE DEF body, h
  <2> QED  BY <2>1, <2>2
<1>6. read = body(read)
  <2> HIDE DEF body, h
  <2> QED  BY <1>5
<1>7. Reading(chain) = read[Len(chain)].data
  BY DEF Reading
<1> DEFINE T == {k \in Nat : k <= N => read[k] = Have(k)}
<1>8. 0 \in T
  <2> HIDE DEF read
  <2>1. read[0] = body(read)[0]
    <3> HIDE DEF body
    <3> QED  BY <1>6
  <2>2. 0 \in 0..N
    BY <1>1
  <2> QED  BY <1>1, <1>2, <1>4, <2>1, <2>2
<1>9. ASSUME NEW m \in Nat, m \in T PROVE m + 1 \in T
  <2> HIDE DEF read
  <2> SUFFICES ASSUME m + 1 <= N PROVE read[m + 1] = Have(m + 1)
    OBVIOUS
  <2>1. m + 1 \in 1..N /\ (m + 1) - 1 = m /\ m + 1 \in 0..N /\ m + 1 # 0 /\ m <= N
    BY <1>1
  <2>2. read[m] = Have(m)
    BY <1>9, <2>1
  <2>3. read[m + 1] = body(read)[m + 1]
    BY <1>6
  <2>4. read[m + 1] =
          [cache |-> find_base_cluster_and_offset(fat, read[m].cache, chain[m + 1]).bcc,
           data  |-> Append(read[m].data, ReadWith(read[m].cache, chain[m + 1]))]
    BY <1>2, <2>1, <2>3
  <2> QED  BY <1>3, <2>1, <2>2, <2>4
<1>10. read[N] = Have(N)
  <2> HIDE DEF read, T
  <2>1. \A n \in Nat : n \in T
    BY <1>8, <1>9, Induction
  <2> QED  BY <1>1, <2>1 DEF T
<1>11. Have(N).data = [j \in 1..N |-> v[j]]
  BY DEF Have
<1> HIDE DEF read
<1> QED  BY <1>2, <1>7, <1>10, <1>11 DEF chain

\* A file without a cluster reads as no block.
LEMMA NothingRead == Reading(<<>>) = <<>>
<1> DEFINE body(g) ==
             [k \in 0..Len(<<>>) |->
               IF k = 0 THEN [cache |-> bcc, data |-> <<>>]
               ELSE [cache |-> find_base_cluster_and_offset(fat, g[k-1].cache, <<>>[k]).bcc,
                     data  |-> Append(g[k-1].data, ReadWith(g[k-1].cache, <<>>[k]))]]
           read == CHOOSE g : g = body(g)
           h == [k \in 0..0 |-> [cache |-> bcc, data |-> <<>>]]
<1>1. h = body(h)
  <2>1. Len(<<>>) = 0
    OBVIOUS
  <2>2. \A k \in 0..0 : h[k] = body(h)[k]
    BY <2>1
  <2>3. body(h) = [k \in 0..0 |-> body(h)[k]] /\ h = [k \in 0..0 |-> h[k]]
    BY <2>1
  <2> HIDE DEF body, h
  <2> QED  BY <2>2, <2>3
<1>2. read = body(read)
  <2> HIDE DEF body, h
  <2> QED  BY <1>1
<1>3. Reading(<<>>) = read[Len(<<>>)].data
  BY DEF Reading
<1> HIDE DEF read
<1>4. read[0] = body(read)[0]
  BY <1>2
<1>5. body(read)[0] = [cache |-> bcc, data |-> <<>>]
  OBVIOUS
<1>6. Len(<<>>) = 0
  OBVIOUS
<1> HIDE DEF body
<1> QED  BY <1>3, <1>4, <1>5, <1>6

-----------------------------------------------------------------------------
(* The table the builder leaves.                                           *)

\* No file of a listing ends on the last bytes of a sector of the table, where
\* it would damage an entry.
Tidy(L) ==
    \/ NumClusters < 255
    \/ \A d \in DOMAIN L : \A i \in 1..Len(L[d]) : L[d][i].kind = "file" =>
          \A c \in Extent(L[d][i]) : EndsSector(c) => c + 1 \in Extent(L[d][i])

\* M has all that L has.
Holds(M, L) ==
    \A d \in DOMAIN L : \A i \in 1..Len(L[d]) :
        d \in DOMAIN M /\ i \in 1..Len(M[d]) /\ M[d][i] = L[d][i]

\* No file or directory starts at the cluster after c.
Continues(L, c) ==
    \A d \in DOMAIN L : \A i \in 1..Len(L[d]) :
        c + 1 \in Extent(L[d][i]) => c \in Extent(L[d][i])

\* An entry that leads to a cluster leads to the next one, inside a file.
Steps(f, L, a) ==
    \A c \in Cluster :
        /\ f[c] \in Nat
        /\ f[c] \in 1..NumClusters => /\ f[c] = c + 1
                                      /\ c + 1 <= a
                                      /\ Continues(L, c)
TableInv == Tidy(listing) => Steps(fat, listing, allocated)

\* What g has of its own leads to the next one inside E.
Extended(f, g, E) ==
    \A c \in Cluster :
        /\ g[c] \in Nat
        /\ g[c] \in 1..NumClusters => \/ g[c] = f[c]
                                      \/ g[c] = c + 1 /\ c \in E /\ c + 1 \in E

\* A chain put above all others keeps the steps of the table.
LEMMA StepsKept ==
    ASSUME NEW f, NEW g, NEW a \in Nat, NEW b \in Nat, a <= b, NEW L, NEW M, NEW E,
           E \subseteq (a + 1)..b, Within(L, a), Steps(f, L, a), Grown(M, L, E),
           Extended(f, g, E)
    PROVE  Steps(g, M, b)
<1> SUFFICES ASSUME NEW c \in Cluster, g[c] \in 1..NumClusters
             PROVE  g[c] = c + 1 /\ c + 1 <= b /\ Continues(M, c)
  BY DEF Steps, Extended
<1>1. c \in Nat
  BY ClusterAssumption DEF Cluster
<1>2. \A d \in DOMAIN M : \A i \in 1..Len(M[d]) :
         \/ Extent(M[d][i]) = {}
         \/ Extent(M[d][i]) = E
         \/ d \in DOMAIN L /\ i \in 1..Len(L[d]) /\ M[d][i] = L[d][i]
  BY DEF Grown
<1>3. CASE g[c] = f[c]
  <2>1. f[c] = c + 1 /\ c + 1 <= a /\ Continues(L, c)
    BY <1>3 DEF Steps
  <2>2. c + 1 \notin E
    BY <1>1, <2>1
  <2>3. Continues(M, c)
    BY <1>2, <2>1, <2>2 DEF Continues
  <2> QED  BY <1>1, <1>3, <2>1, <2>3
<1>4. CASE g[c] = c + 1 /\ c \in E /\ c + 1 \in E
  <2>1. c + 1 <= b /\ c + 1 \notin 2..a
    BY <1>1, <1>4
  <2>2. Continues(M, c)
    BY <1>2, <1>4, <2>1 DEF Continues, Within
  <2> QED  BY <1>4, <2>1, <2>2
<1> QED  BY <1>3, <1>4 DEF Extended

\* A chain of bulk_update_fat leads to no cluster outside it.
LEMMA BulkExtends ==
    ASSUME TableFits, NEW f, DOMAIN f = Cluster, \A c \in Cluster : f[c] \in Nat,
           NEW start \in Nat, NEW n \in Nat, n > 0, start >= 2, start + n - 1 <= NumClusters,
           NumClusters < 255 \/ ~EndsSector(start + n - 1)
    PROVE  Extended(f, bulk_update_fat(f, start, n), start..(start + n - 1))
<1> DEFINE last == start + n - 1
           h == Chained(f, start, n)
           g == bulk_update_fat(f, start, n)
<1> SUFFICES ASSUME NEW c \in Cluster
             PROVE  /\ g[c] \in Nat
                    /\ g[c] \in 1..NumClusters =>
                          \/ g[c] = f[c]
                          \/ g[c] = c + 1 /\ c \in start..last /\ c + 1 \in start..last
  BY DEF Extended
<1>1. last \in Cluster /\ last \in Nat /\ c \in Nat /\ NumClusters \in Nat
  BY ClusterAssumption DEF Cluster
<1>2. /\ c \in start..(last - 1) => h[c] = c + 1
      /\ c = last => h[c] = EOC
      /\ c \notin start..last => h[c] = f[c]
  <2>1. h[c] = CASE c \in start..start + n - 2 -> c + 1
                 [] c = start + n - 1          -> EOC
                 [] OTHER                      -> f[c]
    BY DEF Chained
  <2> HIDE DEF h
  <2> QED  BY <1>1, <2>1
<1>3. h[c] \in Nat
  BY <1>1, <1>2 DEF EOC
<1>4. g[c] = IF EndsSector(last) /\ c = last + 1 THEN h[c] - (h[c] % 256) + 255 ELSE h[c]
  <2>1. DOMAIN h = Cluster
    BY DEF Chained
  <2> HIDE DEF h
  <2> QED  BY <2>1 DEF bulk_update_fat, Stray, h
<1> HIDE DEF h, g, last
<1>5. CASE EndsSector(last) /\ c = last + 1
  <2>1. NumClusters < 255
    BY <1>5 DEF last
  <2>2. h[c] - (h[c] % 256) \in Nat
    BY <1>3
  <2>3. \A x \in Nat : x + 255 \in Nat /\ x + 255 \notin 1..NumClusters
    BY <1>1, <2>1
  <2> QED  BY <1>4, <1>5, <2>2, <2>3
<1>6. CASE ~(EndsSector(last) /\ c = last + 1)
  <2>1. g[c] = h[c]
    BY <1>4, <1>6
  <2>2. EOC \notin 1..NumClusters
    BY ClusterAssumption DEF TableFits, EOC, MEDIA
  <2> QED  BY <1>1, <1>2, <1>3, <2>1, <2>2
<1> QED  BY <1>5, <1>6

\* A table of free entries has no steps.
LEMMA EmptyTable ==
    ASSUME TableFits, NEW L, NEW a
    PROVE  Steps(EmptyFat, L, a)
<1> SUFFICES ASSUME NEW c \in Cluster
             PROVE  EmptyFat[c] \in Nat /\ EmptyFat[c] \notin 1..NumClusters
  BY DEF Steps
<1>1. EmptyFat[c] \in {MEDIA, EOC, FREE}
  BY DEF EmptyFat
<1> QED  BY <1>1, ClusterAssumption DEF MEDIA, EOC, FREE, TableFits

Includes(M, t, e) == t \in DOMAIN M /\ \E i \in 1..Len(M[t]) : M[t][i] = e

\* An entry appended to an array leaves the others.
LEMMA AppendHolds ==
    ASSUME NEW L, NEW a, IsListing(L, a), NEW t \in DOMAIN L, NEW e \in ListEntry,
           NEW M, M = [L EXCEPT ![t] = Append(@, e)]
    PROVE  Holds(M, L) /\ Includes(M, t, e)
<1>1. L[t] \in Seq(ListEntry) /\ DOMAIN M = DOMAIN L /\ M[t] = Append(L[t], e)
      /\ \A d \in DOMAIN L : d # t => M[d] = L[d]
  BY DEF IsListing
<1>2. /\ Len(M[t]) = Len(L[t]) + 1 /\ Len(L[t]) \in Nat
      /\ \A i \in 1..Len(L[t]) : M[t][i] = L[t][i]
      /\ M[t][Len(L[t]) + 1] = e
  BY <1>1
<1>3. ASSUME NEW d \in DOMAIN L, NEW i \in 1..Len(L[d])
      PROVE  d \in DOMAIN M /\ i \in 1..Len(M[d]) /\ M[d][i] = L[d][i]
  <2>1. CASE d = t
    <3>1. i \in 1..Len(M[t])
      BY <1>2, <2>1
    <3> QED  BY <1>1, <1>2, <2>1, <3>1
  <2>2. CASE d # t  BY <1>1, <2>2
  <2> QED  BY <2>1, <2>2
<1>4. Len(L[t]) + 1 \in 1..Len(M[t])
  BY <1>2
<1> QED  BY <1>1, <1>2, <1>3, <1>4 DEF Holds, Includes

\* What is tidy is so without its last entries.
LEMMA HeldTidy ==
    ASSUME NEW L, NEW M, Holds(M, L), Tidy(M) PROVE Tidy(L)
BY DEF Holds, Tidy

\* The chain of a file keeps the invariant of the table.
LEMMA FileTable ==
    ASSUME TableFits, BuildInv, TableInv, NEW n \in Names, AddFile(n) PROVE TableInv'
<1> DEFINE size == Len(lfs[Append(Top.path, n)])
           first == allocated + 1
           e == IF size = 0 THEN entry("file", Shown.file[n], 0, 0)
                            ELSE entry("file", Shown.file[n], first, size)
           b == allocated'
           M == [listing EXCEPT ![Top.cluster] = Append(@, e)]
<1>1. /\ size \in Nat
      /\ allocated \in Nat /\ allocated >= 1
      /\ Top.cluster \in DOMAIN listing
      /\ frames # <<>>
      /\ IsListing(listing, allocated) /\ Within(listing, allocated)
      /\ Apart(listing) /\ DOMAIN fat = Cluster
  BY TopCall DEF AddFile, BuildInv
<1>2. first + size - 1 <= NumClusters
  BY DEF AddFile
<1>3. e \in ListEntry /\ e.kind = "file"
      /\ IF size = 0 THEN e.size = 0 ELSE e.clus = first /\ e.size = size
  BY <1>1, EntryType DEF Kinds, ShownNames
<1>4. listing' = M
  BY DEF AddFile, Listed
<1>5. b = IF size = 0 THEN allocated ELSE first + size + 1
  BY DEF AddFile, LastReserved
<1>6. fat' = IF size = 0 THEN fat ELSE bulk_update_fat(fat, first, size)
  BY DEF AddFile
<1>7. Extent(e) = IF size = 0 THEN {} ELSE first..(first + size - 1)
  BY <1>1, <1>3 DEF Extent
<1> HIDE DEF size, e, first
<1>8. first = allocated + 1
  BY DEF first
<1>9. b \in Nat /\ allocated <= b /\ Extent(e) \subseteq (allocated + 1)..b
  BY <1>1, <1>5, <1>7, <1>8
<1>10. Grown(listing', listing, Extent(e))
  <2> HIDE DEF b
  <2>1. Grown(M, listing, Extent(e))
    BY <1>1, <1>3, <1>9, AppendKeeps
  <2> QED  BY <1>4, <2>1
<1>11. Holds(M, listing) /\ Includes(M, Top.cluster, e)
  <2> HIDE DEF M
  <2>1. IsListing(listing, allocated) /\ M = [listing EXCEPT ![Top.cluster] = Append(@, e)]
    BY <1>1 DEF M
  <2> QED  BY <1>1, <1>3, <2>1, AppendHolds
<1> SUFFICES ASSUME Tidy(listing') PROVE Steps(fat', listing', b)
  BY DEF TableInv
<1>12. Steps(fat, listing, allocated)
  BY <1>4, <1>11, HeldTidy DEF TableInv
<1>13. Extended(fat, fat', Extent(e))
  <2>1. \A c \in Cluster : fat[c] \in Nat
    BY <1>12 DEF Steps
  <2>2. CASE size = 0  BY <1>6, <2>1, <2>2 DEF Extended
  <2>3. CASE size # 0
    <3>1. Extended(fat, bulk_update_fat(fat, first, size), first..(first + size - 1))
      <4>1. size > 0 /\ first >= 2 /\ first \in Nat
        BY <1>1, <1>8, <2>3
      <4>2. NumClusters < 255 \/ ~EndsSector(first + size - 1)
        <5> SUFFICES ASSUME ~(NumClusters < 255), EndsSector(first + size - 1) PROVE FALSE
          OBVIOUS
        <5> HIDE DEF M
        <5>1. PICK i \in 1..Len(M[Top.cluster]) : M[Top.cluster][i] = e
          BY <1>11 DEF Includes
        <5>2. Top.cluster \in DOMAIN M
          BY <1>11 DEF Includes
        <5>3. \A c \in Extent(e) : EndsSector(c) => c + 1 \in Extent(e)
          BY <1>3, <1>4, <5>1, <5>2 DEF Tidy
        <5>4. /\ first + size - 1 \in first..(first + size - 1)
              /\ (first + size - 1) + 1 \notin first..(first + size - 1)
          BY <1>1, <4>1
        <5> QED  BY <1>7, <2>3, <5>3, <5>4
      <4> QED  BY <1>1, <1>2, <2>1, <4>1, <4>2, BulkExtends
    <3> QED  BY <1>6, <1>7, <2>3, <3>1
  <2> QED  BY <2>2, <2>3
<1> HIDE DEF b, M
<1> QED  BY <1>1, <1>9, <1>10, <1>13, <1>12, StepsKept

\* The cluster of a directory keeps it.
LEMMA DirectoryTable ==
    ASSUME TableFits, BuildInv, TableInv, NEW n \in Names, AddDirectory(n) PROVE TableInv'
<1> DEFINE c == allocated + 1
           e == entry("dir", Shown.dir[n], c, 0)
           D == Dots(c, Top.cluster)
           M == [listing EXCEPT ![Top.cluster] = Append(@, e)]
           N == listing'
<1>1. /\ allocated \in Nat /\ allocated >= 1
      /\ Top \in Call /\ Top.cluster \in DOMAIN listing
      /\ IsListing(listing, allocated) /\ Within(listing, allocated)
      /\ Apart(listing) /\ DOMAIN fat = Cluster
  BY TopCall DEF AddDirectory, BuildInv
<1>2. c \in Nat /\ c <= NumClusters
  BY <1>1 DEF AddDirectory
<1>3. e \in ListEntry /\ Extent(e) = {c}
  <2>1. e \in ListEntry /\ e.kind = "dir" /\ e.clus = c
    BY <1>2, EntryType DEF Kinds, ShownNames
  <2> QED  BY <2>1 DEF Extent
<1>4. TakesNone(D)
  BY <1>1, <1>2, DotsTakeNone DEF Call
<1>5. allocated' = c /\ fat' = [fat EXCEPT ![c] = EOC]
  BY DEF AddDirectory
<1>6. With(N, M, c, D)
  <2>1. N = [k \in DOMAIN listing \union {c} |-> IF k = c THEN D ELSE M[k]]
    BY DEF AddDirectory, Listed
  <2>2. DOMAIN M = DOMAIN listing /\ \A k \in DOMAIN M : M[k] \in Seq(ListEntry)
    BY <1>1, <1>3 DEF IsListing
  <2> HIDE DEF M, D, c
  <2>3. N \in [DOMAIN M \union {c} -> Seq(ListEntry)]
    BY <1>4, <2>1, <2>2 DEF TakesNone
  <2>4. \A k \in DOMAIN N : N[k] = IF k = c THEN D ELSE M[k]
    BY <2>1
  <2> QED  BY <2>3, <2>4 DEF With
<1> HIDE DEF e, D
<1>7. Grown(N, listing, Extent(e))
  BY <1>1, <1>3, <1>4, <1>6, DirectoryKeeps
<1>8. Holds(N, listing)
  <2> HIDE DEF M, c
  <2>1. IsListing(listing, allocated) /\ M = [listing EXCEPT ![Top.cluster] = Append(@, e)]
    BY <1>1 DEF M
  <2>2. Holds(M, listing)
    BY <1>1, <1>3, <2>1, AppendHolds
  <2>3. \A d \in DOMAIN listing : d \in DOMAIN N /\ N[d] = M[d]
    <3>1. DOMAIN M = DOMAIN listing /\ c \notin DOMAIN listing
      BY <1>1, <2>1 DEF IsListing, c
    <3> QED  BY <1>6, <3>1 DEF With
  <2> QED  BY <2>2, <2>3 DEF Holds
<1> HIDE DEF M
<1> SUFFICES ASSUME Tidy(N) PROVE Steps(fat', listing', c)
  BY <1>5 DEF TableInv
<1>9. Steps(fat, listing, allocated)
  BY <1>8, HeldTidy DEF TableInv
<1>10. Extended(fat, fat', Extent(e))
  <2>1. \A k \in Cluster : fat[k] \in Nat
    BY <1>9 DEF Steps
  <2>2. EOC \in Nat /\ EOC \notin 1..NumClusters
    BY ClusterAssumption DEF TableFits, EOC, MEDIA
  <2> HIDE DEF c
  <2>3. \A k \in Cluster : fat'[k] = IF k = c THEN EOC ELSE fat[k]
    BY <1>1, <1>5
  <2> QED  BY <2>1, <2>2, <2>3 DEF Extended
<1>11. allocated <= c /\ Extent(e) \subseteq (allocated + 1)..c
  BY <1>1, <1>3
<1> HIDE DEF c, N
<1>12. Grown(listing', listing, Extent(e))
  BY <1>7 DEF N
<1> QED  BY <1>1, <1>2, <1>10, <1>11, <1>9, <1>12, StepsKept

\* As long as no file ends on the last bytes of a sector of the table, what the
\* builder stores in it are chains of consecutive clusters, each inside one file
\* (update_fat, bulk_update_fat).
THEOREM TableInvariant == ASSUME TableFits PROVE BuildSpec => [](BuildInv /\ TableInv)
<1>1. BuildInit => BuildInv /\ TableInv
  BY InitBuild, EmptyTable DEF BuildInit, TableInv
<1>2. BuildInv /\ TableInv /\ [BuildNext]_builderVars => TableInv'
  <2> SUFFICES ASSUME BuildInv, TableInv, [BuildNext]_builderVars PROVE TableInv'
    OBVIOUS
  <2>1. CASE StartBuild  BY <2>1, EmptyTable DEF StartBuild, TableInv
  <2>2. ASSUME NEW n \in Names, AddFile(n) PROVE TableInv'
    BY <2>2, FileTable
  <2>3. ASSUME NEW n \in Names, AddDirectory(n) PROVE TableInv'
    BY <2>3, DirectoryTable
  <2>4. CASE UNCHANGED <<fat, listing, allocated>>
    BY <2>4 DEF TableInv
  <2>5. Return \/ Browse \/ UNCHANGED builderVars => UNCHANGED <<fat, listing, allocated>>
    BY DEF Return, Browse, Read, builderVars, vars, buildvars
  <2> QED  BY <2>1, <2>2, <2>3, <2>4, <2>5 DEF BuildNext, BuildStep
<1> QED  BY <1>1, <1>2, BuildInvariant, PTL DEF BuildSpec

\* The clusters of a file are a run that nothing else points into.
LEMMA ExtentLined ==
    ASSUME TableFits, BuildInv, TableInv, Tidy(listing), NEW d \in DOMAIN listing,
           NEW i \in 1..Len(listing[d]),
           NEW a \in 2..NumClusters, NEW b \in a..NumClusters, Extent(listing[d][i]) = a..b
    PROVE  Lined(fat, a, b)
<1>1. Linked(fat, a..b)
  BY DEF BuildInv, Whole
<1>2. ASSUME NEW c \in a..b PROVE Predecessors(fat, c) = IF c = a THEN {} ELSE {c - 1}
  <2>1. c \in Nat /\ a \in Nat /\ b \in Nat /\ NumClusters \in Nat /\ c >= 2 /\ c <= NumClusters
    BY ClusterAssumption
  <2>2. ASSUME NEW k \in Predecessors(fat, c) PROVE c # a /\ k = c - 1
    <3>1. k \in Nat /\ k \in Cluster /\ fat[k] = c
      BY <2>1 DEF Predecessors, Cluster
    <3>2. c = k + 1 /\ Continues(listing, k)
      BY <2>1, <3>1 DEF TableInv, Steps
    <3>3. k \in a..b
      BY <3>2 DEF Continues
    <3> QED  BY <2>1, <3>1, <3>2, <3>3
  <2>3. ASSUME c # a PROVE c - 1 \in Predecessors(fat, c)
    <3>1. c - 1 \in a..b /\ (c - 1) + 1 = c /\ c - 1 \in 0..NumClusters - 1
      BY <2>1, <2>3
    <3>2. fat[c - 1] = c
      BY <1>1, <3>1 DEF Linked
    <3>3. ~EndsChain(c)
      BY <2>1 DEF TableFits, EndsChain, FREE, MEDIA
    <3> QED  BY <3>1, <3>2, <3>3 DEF Predecessors
  <2>4. CASE c = a  BY <2>2, <2>4
  <2>5. CASE c # a  BY <2>2, <2>3, <2>5
  <2> QED  BY <2>4, <2>5
<1> QED  BY <1>1, <1>2 DEF Lined

-----------------------------------------------------------------------------
(* What a host reads of the files and directories.                         *)

\* The sectors and the table are those the builder ends with.
Ready(P, place) ==
    /\ Finished(P, place, lfs, listing, allocated, tmp)
    /\ Volume(tmp, P, place)

Named(s) == {i \in Slots : s[i].kind \in {"file", "dir"}}

\* An entry of a sector is an entry of the array, for a name of littlefs.
Lists(P, place, p, i) ==
    /\ place[p] \in DOMAIN listing
    /\ i \in 1..Len(listing[place[p]])
    /\ tmp[place[p]][i] = listing[place[p]][i]
    /\ i \in Visible(tmp[place[p]])
    /\ tmp[place[p]][i].name \in Kids(lfs, p)
    /\ RightEntry(P, place, lfs, p, tmp[place[p]][i])

\* The entries of a sector are those of its array, and have its names.
LEMMA SectorLists ==
    ASSUME NEW P, NEW place, Ready(P, place), lfs \in Trees, NEW p \in P
    PROVE  /\ \A i \in Named(tmp[place[p]]) : Lists(P, place, p, i)
           /\ \A n \in Kids(lfs, p) : \E i \in Named(tmp[place[p]]) : tmp[place[p]][i].name = n
<1> DEFINE L == listing[place[p]]
           s == tmp[place[p]]
<1>1. /\ place[p] \in DOMAIN listing /\ Contents(P, place, lfs, p, {}, L)
      /\ Len(L) \in Nat /\ s = AsSector(L)
  BY SlotAssumption DEF Ready, Finished, VisitedDirectories
<1>2. SectorShows(s, p, L)
  <2>1. RightSector(P, place, lfs, p, tmp[place[p]], listing[place[p]])
    BY FinishedSectors DEF Ready
  <2> HIDE DEF L, s
  <2>2. RightSector(P, place, lfs, p, s, L)
    BY <2>1 DEF L, s
  <2> QED  BY <2>2 DEF RightSector
<1> HIDE DEF L, s
<1>3. {i \in 1..Len(L) : L[i].kind \in {"file", "dir"}} = FirstSlot(p)..Len(L)
  BY <1>1, ContentsNamed
<1>4. FirstSlot(p) \in Nat /\ FirstSlot(p) >= 1
  BY DEF FirstSlot
<1>5. ASSUME NEW i \in Named(s)
      PROVE  i \in FirstSlot(p)..Len(L) /\ i \in 1..Len(L) /\ s[i] = L[i]
  <2>1. i \in Slots /\ s[i].kind \in {"file", "dir"} /\ i \in Nat /\ i >= 1
    BY SlotAssumption DEF Named, Slots
  <2>2. i <= Len(L)
    <3> SUFFICES ASSUME ~(i <= Len(L)) PROVE FALSE
      OBVIOUS
    <3>1. s[i] = Blank
      BY <1>1, <2>1 DEF AsSector
    <3> QED  BY <2>1, <3>1 DEF Blank, entry
  <2>3. i \in 1..Len(L) /\ s[i] = L[i]
    BY <1>1, <1>2, <2>1, <2>2 DEF SectorShows
  <2> QED  BY <1>3, <2>1, <2>3
<1>6. ASSUME NEW i \in Named(s) PROVE Lists(P, place, p, i)
  <2>1. i \in FirstSlot(p)..Len(L) /\ i \in 1..Len(L) /\ s[i] = L[i]
    BY <1>5
  <2>2. i \in Visible(s)
    BY <1>2, <2>1 DEF SectorShows
  <2>3. s[i].name \in Kids(lfs, p) /\ RightEntry(P, place, lfs, p, s[i])
    BY <1>1, <2>1 DEF Contents
  <2> QED  BY <1>1, <2>1, <2>2, <2>3 DEF Lists, s, L
<1>7. ASSUME NEW n \in Kids(lfs, p) PROVE \E i \in Named(s) : s[i].name = n
  <2>1. PICK i \in FirstSlot(p)..Len(L) : L[i].name = n
    BY <1>1 DEF Contents
  <2>2. i \in 1..Len(L) /\ L[i].kind \in {"file", "dir"}
    BY <1>3
  <2>3. i \in Slots /\ s[i] = L[i]
    BY <1>2, <2>2 DEF SectorShows
  <2> QED  BY <2>1, <2>2, <2>3 DEF Named
<1> QED  BY <1>6, <1>7 DEF s

\* The entry i of the directory at p is that of the file at q, which starts at a.
FileAt(place, p, i, a, q) ==
    /\ i \in Visible(tmp[place[p]])
    /\ tmp[place[p]][i].clus = a
    /\ tmp[place[p]][i].kind = "file"
    /\ q = Append(p, tmp[place[p]][i].name)
    /\ IsFile(lfs, q)

\* A read of a cluster in a run that starts at an entry finds the entry.
LEMMA FileRead ==
    ASSUME NEW P, NEW place, Ready(P, place), NEW p \in P, NEW i, NEW q,
           NEW a \in 2..NumClusters, FileAt(place, p, i, a, q),
           NEW c \in 2..NumClusters, NEW o \in Nat, o + 1 <= Len(lfs[q]), NEW cache,
           find_base_cluster_and_offset(fat, cache, c) = Where(a, o, c)
    PROVE  ReadWith(cache, c) = lfs[q][o + 1]
<1>1. Volume(tmp, P, place) /\ place[p] \in Cluster /\ i \in Slots /\ a # 0 /\ c # Root
  BY ClusterAssumption DEF Ready, Volume, Situated, Visible, Root, FileAt
<1>2. find_dir_entry_cache(tmp, a) = <<place[p], i>>
  <2>1. i \in Visible(tmp[place[p]])
    BY DEF FileAt
  <2>2. tmp[place[p]][i].clus = a
    BY DEF FileAt
  <2>3. tmp[place[p]][i].clus # 0 /\ Volume(tmp, P, place)
    BY <1>1, <2>2
  <2>4. find_dir_entry_cache(tmp, tmp[place[p]][i].clus) = <<place[p], i>>
    BY <2>1, <2>3, EntryFound
  <2> QED  BY <2>2, <2>4
<1>3. restore_file_from(tmp, place[p], a) = q
  BY <1>1, PathRestored, SMTT(30) DEF FileAt
<1>4. Found(<<place[p], i>>)
  BY <1>1 DEF Found
<1> DEFINE b == find_base_cluster_and_offset(fat, cache, c)
           r == find_dir_entry_cache(tmp, b.base)
<1>5. b.base = a /\ b.off = o
  BY DEF Where
<1>6. r = <<place[p], i>> /\ r[1] = place[p] /\ r[2] = i
  BY <1>2, <1>5
<1>7. restore_file_from(tmp, r[1], b.base) = q
  BY <1>3, <1>5, <1>6
<1>8. Found(r) /\ b.base # 0 /\ tmp[r[1]][r[2]].kind # "dir"
  BY <1>1, <1>4, <1>5, <1>6 DEF FileAt
<1>9. ReadWith(cache, c) =
        LET e == tmp[r[1]][r[2]]
            path == restore_file_from(tmp, r[1], b.base)
            saved == IF c \in DOMAIN tmp THEN tmp[c] ELSE Zero
        IN  IF c = Root THEN saved
            ELSE IF b.base = 0 \/ ~Found(r) THEN Zero
            ELSE IF e.kind = "dir" THEN saved
            ELSE IF IsFile(lfs, path) /\ b.off + 1 <= Len(lfs[path]) THEN lfs[path][b.off + 1]
            ELSE Zero
  BY DEF ReadWith
<1> HIDE DEF b, r
<1> QED  BY <1>1, <1>5, <1>7, <1>8, <1>9 DEF FileAt

\* What an entry of a file leads to.
FileShown(p, e) ==
    /\ e.name \in Kids(lfs, p)
    /\ lfs[Append(p, e.name)] # DIR
    /\ Reading(ChainOf(fat, e.clus)) = lfs[Append(p, e.name)]

\* A file shown reads as littlefs holds it, whatever was read before.
LEMMA FilesRead ==
    ASSUME TableFits, BuildInv, TableInv, Tidy(listing), NEW P, NEW place, Ready(P, place), NEW p \in P,
           NEW i \in Named(tmp[place[p]]), tmp[place[p]][i].kind = "file"
    PROVE  FileShown(p, tmp[place[p]][i])
<1> DEFINE e == tmp[place[p]][i]
<1>1. lfs \in Trees
  BY DEF BuildInv
<1>2. /\ place[p] \in DOMAIN listing /\ i \in 1..Len(listing[place[p]])
      /\ e = listing[place[p]][i] /\ i \in Visible(tmp[place[p]])
      /\ e.name \in Kids(lfs, p) /\ RightEntry(P, place, lfs, p, e) /\ e.kind = "file"
  BY <1>1, SectorLists DEF Lists
<1>3. PICK n \in Names : e.name = n
  BY <1>2 DEF Kids
<1> HIDE DEF e
<1>4. PICK q : q = Append(p, n)
  OBVIOUS
<1>5. q \in DOMAIN lfs
  BY <1>2, <1>3, <1>4 DEF Kids
<1>6. \/ lfs[q] # DIR /\ Len(lfs[q]) = 0 /\ e = entry("file", n, 0, 0)
      \/ /\ lfs[q] # DIR /\ Len(lfs[q]) > 0
         /\ e.clus \in 2..NumClusters /\ e.clus + Len(lfs[q]) - 1 <= NumClusters
         /\ e = entry("file", n, e.clus, Len(lfs[q]))
  <2>1. e = entry("dir", n, place[q], 0) => FALSE
    BY <1>2 DEF entry
  <2> QED  BY <1>2, <1>3, <1>4, <2>1 DEF RightEntry
<1>7. lfs[q] # DIR /\ Len(lfs[q]) \in Nat /\ lfs[q] = [k \in 1..Len(lfs[q]) |-> lfs[q][k]]
  BY <1>1, <1>5, <1>6, TreesAssumption
<1>8. CASE Len(lfs[q]) = 0
  <2>1. e.clus = 0
    BY <1>6, <1>8 DEF entry
  <2>2. lfs[q] = <<>>
    BY <1>7, <1>8
  <2> QED  BY <1>2, <1>3, <1>4, <1>7, <2>1, <2>2, NoChain, NothingRead DEF FileShown, e
<1>9. CASE Len(lfs[q]) # 0
  <2> DEFINE a == e.clus
             N == Len(lfs[q])
             b == a + N - 1
  <2>1. a \in 2..NumClusters /\ b \in a..NumClusters /\ N \in Nat /\ N >= 1 /\ e.size = N
        /\ a \in Nat /\ b - a + 1 = N
    <3>1. a \in 2..NumClusters /\ a + N - 1 <= NumClusters /\ N \in Nat /\ N >= 1
      BY <1>6, <1>7, <1>9
    <3>2. e.size = N
      BY <1>6, <1>9 DEF entry
    <3> QED  BY <3>1, <3>2, ClusterAssumption
  <2>2. Extent(e) = a..b
    BY <1>2, <2>1 DEF Extent
  <2>3. Lined(fat, a, b)
    <3>1. Extent(listing[place[p]][i]) = a..b
      BY <1>2, <2>2
    <3> HIDE DEF a, b, N
    <3> QED  BY <1>2, <2>1, <3>1, ExtentLined
  <2>4. ChainOf(fat, a) = Run(a, b)
    <3> HIDE DEF a, b, N
    <3> QED  BY <2>1, <2>3, ChainFollowed DEF Lined, TableFits
  <2>5. Returns(a, b, lfs[q])
    <3> SUFFICES ASSUME NEW k \in 1..(b - a + 1)
                 PROVE  ReadWith(CacheAfter(a, k - 1), a + k - 1) = lfs[q][k]
      BY DEF Returns
    <3> DEFINE c == a + k - 1
               o == k - 1
               cache == CacheAfter(a, k - 1)
    <3>1. c \in 2..NumClusters /\ o \in Nat /\ o + 1 <= N /\ o + 1 = k
      <4>1. k \in 1..N /\ a + N - 1 <= NumClusters /\ a >= 2 /\ NumClusters \in Nat
        BY <2>1, ClusterAssumption
      <4> HIDE DEF a, b, N
      <4> QED  BY <2>1, <4>1
    <3>2. find_base_cluster_and_offset(fat, cache, c) = Where(a, o, c)
      <4> HIDE DEF a, b, N
      <4> QED  BY <2>3, RunLocated
    <3>3. IsFile(lfs, q) /\ q = Append(p, e.name)
      BY <1>3, <1>4, <1>5, <1>7 DEF IsFile
    <3>4. e.kind = "file" /\ e.clus = a /\ i \in Visible(tmp[place[p]]) /\ e = tmp[place[p]][i]
      BY <1>2 DEF e
    <3>5. o + 1 <= Len(lfs[q]) /\ a \in 2..NumClusters
      BY <2>1, <3>1
    <3>6. FileAt(place, p, i, a, q)
      BY <3>3, <3>4 DEF FileAt
    <3> HIDE DEF a, b, c, o, cache
    <3>7. ReadWith(cache, c) = lfs[q][o + 1]
      BY <3>1, <3>2, <3>5, <3>6, FileRead
    <3> QED  BY <3>1, <3>7 DEF c, cache
  <2>6. Reading(Run(a, b)) = [k \in 1..(b - a + 1) |-> lfs[q][k]]
    <3> HIDE DEF a, b, N
    <3> QED  BY <2>3, <2>5, RunRead
  <2>7. Reading(ChainOf(fat, a)) = lfs[q]
    <3>1. [k \in 1..(b - a + 1) |-> lfs[q][k]] = lfs[q]
      BY <1>7, <2>1
    <3> HIDE DEF a, b, N
    <3> QED  BY <2>4, <2>6, <3>1
  <2> QED  BY <1>2, <1>3, <1>4, <1>7, <2>7 DEF FileShown, e
<1> QED  BY <1>8, <1>9

\* A read of the cluster of a directory returns its sector.
LEMMA DirectoriesRead ==
    ASSUME TableFits, BuildInv, TableInv, Tidy(listing), NEW P, NEW place, Ready(P, place), NEW p \in P
    PROVE  mimic_fat_read(place[p]) = tmp[place[p]] /\ tmp[place[p]] \in Sector
<1>1. /\ Volume(tmp, P, place) /\ tmp[place[p]] \in Sector /\ place[p] \in DOMAIN tmp
      /\ lfs \in Trees
  BY DEF Ready, Volume, SectorsSaved, HasDirectory, BuildInv
<1>2. CASE p = <<>>
  <2>1. place[p] = Root
    BY <1>1, <1>2 DEF Volume, Situated
  <2> QED  BY <1>1, <2>1 DEF mimic_fat_read, ReadWith
<1>3. CASE p # <<>>
  <2> DEFINE u == Parent(p)
             c == place[p]
  <2>1. /\ u \in P /\ place[p] # Root
        /\ \E i \in Visible(tmp[place[u]]) : /\ tmp[place[u]][i].kind = "dir"
                                            /\ tmp[place[u]][i].name = p[Len(p)]
                                            /\ tmp[place[u]][i].clus = place[p]
    BY <1>1, <1>3, DirectoryEntry
  <2> HIDE DEF u
  <2>2. PICK i \in Visible(tmp[place[u]]) : /\ tmp[place[u]][i].kind = "dir"
                                           /\ tmp[place[u]][i].name = p[Len(p)]
                                           /\ tmp[place[u]][i].clus = place[p]
    BY <2>1
  <2>3. i \in Named(tmp[place[u]]) /\ i \in Slots
    BY <2>2 DEF Named, Visible
  <2>4. /\ place[u] \in DOMAIN listing /\ i \in 1..Len(listing[place[u]])
        /\ tmp[place[u]][i] = listing[place[u]][i]
    BY <1>1, <2>1, <2>3, SectorLists DEF Lists
  <2>5. c \in 2..NumClusters
    <3>1. c \in Cluster /\ Len(p) < c /\ p \in Seq(Names)
      BY DEF Ready, Finished, VisitedDirectories, Situated
    <3>2. Len(p) \in Nat
      BY <3>1
    <3> HIDE DEF c
    <3>3. c # 1
      BY <2>1 DEF c, Root
    <3> QED  BY <3>1, <3>2, <3>3, ClusterAssumption DEF Cluster
  <2>6. Extent(listing[place[u]][i]) = c..c
    <3>1. c..c = {c}
      BY <2>5
    <3> QED  BY <2>2, <2>4, <3>1 DEF Extent
  <2>7. Lined(fat, c, c)
    <3>1. c \in c..NumClusters
      BY <2>5, ClusterAssumption
    <3> HIDE DEF c
    <3> QED  BY <2>4, <2>5, <2>6, <3>1, ExtentLined
  <2>8. fat[c] # FREE /\ Predecessors(fat, c) = {} /\ c \in Cluster
    <3>1. c \in c..c /\ c + 1 \notin c..c /\ c \in Cluster
      BY <2>5, ClusterAssumption DEF Cluster
    <3> HIDE DEF c
    <3> QED  BY <2>7, <3>1 DEF Lined, Linked, FREE, EOC
  <2>9. find_base_cluster_and_offset(fat, bcc, c) = Missed(c, c, 0)
    <3> HIDE DEF c
    <3> QED  BY <2>8, ChainStart
  <2>10. find_dir_entry_cache(tmp, c) = <<place[u], i>>
    <3>1. tmp[place[u]][i].clus # 0
      BY <2>2, <2>5
    <3>2. find_dir_entry_cache(tmp, tmp[place[u]][i].clus) = <<place[u], i>>
      BY <1>1, <2>1, <3>1, EntryFound
    <3> QED  BY <2>2, <3>2
  <2>11. Found(<<place[u], i>>)
    BY <1>1, <2>1, <2>3 DEF Found, Volume, Situated
  <2> DEFINE b == find_base_cluster_and_offset(fat, bcc, c)
             r == find_dir_entry_cache(tmp, b.base)
  <2>12. b.base = c
    BY <2>9 DEF Missed
  <2>13. r = <<place[u], i>> /\ r[1] = place[u] /\ r[2] = i /\ Found(r)
    BY <2>10, <2>11, <2>12
  <2>14. mimic_fat_read(c) =
        LET e == tmp[r[1]][r[2]]
            path == restore_file_from(tmp, r[1], b.base)
            saved == IF c \in DOMAIN tmp THEN tmp[c] ELSE Zero
        IN  IF c = Root THEN saved
            ELSE IF b.base = 0 \/ ~Found(r) THEN Zero
            ELSE IF e.kind = "dir" THEN saved
            ELSE IF IsFile(lfs, path) /\ b.off + 1 <= Len(lfs[path]) THEN lfs[path][b.off + 1]
            ELSE Zero
    BY DEF mimic_fat_read, ReadWith
  <2>15. c # 0 /\ c # Root /\ c \in DOMAIN tmp
    BY <1>1, <2>1, <2>5
  <2> HIDE DEF b, r, c
  <2>16. mimic_fat_read(c) = tmp[c]
    BY <2>2, <2>12, <2>13, <2>14, <2>15
  <2> QED  BY <1>1, <2>16 DEF c
<1> QED  BY <1>2, <1>3

-----------------------------------------------------------------------------
(* The tree a host is shown.                                               *)

\* What one entry, and one sector, show, under giving what the directories show.
EntryShows(e, deep, under) ==
    IF e.kind = "file" THEN {<<<<e.name>>, Reading(ChainOf(fat, e.clus))>>}
    ELSE IF e.kind = "dir" /\ deep
    THEN {<<<<e.name>>, DIR>>} \union {<<<<e.name>> \o x[1], x[2]>> : x \in under[e.clus]}
    ELSE {}

AllShown(s, deep, under) ==
    IF s \in Sector THEN UNION {EntryShows(s[i], deep, under) : i \in Slots} ELSE {}

ShowsBy(h) ==
    \A n \in 0..NumClusters : \A c \in Cluster :
        h[n][c] = AllShown(mimic_fat_read(c), n > 0, h[n - 1])

\* The function ShownTree defines exists.
LEMMA ShownUnfolds == \E h : ShowsBy(h) /\ ShownTree = h[NumClusters][Root]
<1> DEFINE V == {Reading(ChainOf(fat, c)) : c \in Cluster} \union {DIR}
           W == Seq(Names \union {NoName})
           S == [Cluster -> SUBSET (W \X V)]
           zero == [c \in Cluster |-> AllShown(mimic_fat_read(c), FALSE, <<>>)]
           Turn(g) == [c \in Cluster |-> AllShown(mimic_fat_read(c), TRUE, g)]
           step == [k \in 1..NumClusters |-> [g \in S |-> Turn(g)]]
           body(g) ==
             [n \in 0..NumClusters |->
               [c \in Cluster |-> AllShown(mimic_fat_read(c), n > 0, g[n - 1])]]
           below == CHOOSE g : g = body(g)
<1>1. NumClusters \in Nat
  BY ClusterAssumption
<1>2. ASSUME NEW e \in Entry, NEW deep \in BOOLEAN, NEW g, deep => g \in S
      PROVE  EntryShows(e, deep, g) \subseteq W \X V
  <2>1. /\ e.name \in Names \union {NoName} /\ e.clus \in Cluster
        /\ <<e.name>> \in W /\ Reading(ChainOf(fat, e.clus)) \in V /\ DIR \in V
    BY DEF Entry
  <2>2. ASSUME deep, NEW x \in g[e.clus] PROVE <<<<e.name>> \o x[1], x[2]>> \in W \X V
    <3>1. x \in W \X V
      BY <1>2, <2>1, <2>2
    <3> HIDE DEF V
    <3>2. x[1] \in W /\ x[2] \in V
      BY <3>1
    <3>3. <<e.name>> \o x[1] \in W
      <4>1. \A p, q \in Seq(Names \union {NoName}) : p \o q \in Seq(Names \union {NoName})
        BY ConcatProperties
      <4> QED  BY <2>1, <3>2, <4>1
    <3> QED  BY <3>2, <3>3
  <2>3. <<<<e.name>>, Reading(ChainOf(fat, e.clus))>> \in W \X V /\ <<<<e.name>>, DIR>> \in W \X V
    BY <2>1
  <2> HIDE DEF V, W
  <2> QED  BY <2>2, <2>3 DEF EntryShows
<1>3. ASSUME NEW s, NEW deep \in BOOLEAN, NEW g, deep => g \in S
      PROVE  AllShown(s, deep, g) \in SUBSET (W \X V)
  <2>1. CASE s \in Sector
    <3>1. \A i \in Slots : EntryShows(s[i], deep, g) \subseteq W \X V
      <4> HIDE DEF V, W, S
      <4> QED  BY <1>2, <1>3, <2>1 DEF Sector
    <3> HIDE DEF V, W
    <3> QED  BY <2>1, <3>1 DEF AllShown
  <2>2. CASE s \notin Sector  BY <2>2 DEF AllShown
  <2> QED  BY <2>1, <2>2
<1>4. zero \in S
  <2>1. \A c \in Cluster : AllShown(mimic_fat_read(c), FALSE, <<>>) \in SUBSET (W \X V)
    <3> HIDE DEF V, W, S
    <3> QED  BY <1>3
  <2> HIDE DEF V, W
  <2> QED  BY <2>1
<1>5. step \in [1..NumClusters -> [S -> S]]
  <2>1. ASSUME NEW g \in S PROVE Turn(g) \in S
    <3>1. \A c \in Cluster : AllShown(mimic_fat_read(c), TRUE, g) \in SUBSET (W \X V)
      <4> HIDE DEF V, W, S
      <4> QED  BY <1>3, <2>1
    <3> HIDE DEF V, W
    <3> QED  BY <3>1
  <2> HIDE DEF S, Turn
  <2> QED  BY <2>1
<1>6. PICK h : Iterates(h, NumClusters, S, zero, step)
  <2> HIDE DEF S, zero, step
  <2> QED  BY <1>1, <1>4, <1>5, Recursion
<1>7. ASSUME NEW n \in 0..NumClusters
      PROVE  h[n] = IF n = 0 THEN zero ELSE Turn(h[n - 1])
  <2> HIDE DEF S, zero, Turn
  <2>1. h \in [0..NumClusters -> S] /\ h[0] = zero
    BY <1>1, <1>6 DEF Iterates
  <2>2. ASSUME n # 0 PROVE h[n] = Turn(h[n - 1])
    <3>1. n \in 1..NumClusters /\ n - 1 \in 0..NumClusters
      BY <1>1, <2>2
    <3>2. h[n] = step[n][h[n - 1]] /\ h[n - 1] \in S
      BY <1>6, <2>1, <3>1 DEF Iterates
    <3> QED  BY <3>1, <3>2
  <2> QED  BY <2>1, <2>2
<1>8. ASSUME NEW s, NEW g PROVE AllShown(s, FALSE, g) = AllShown(s, FALSE, <<>>)
  BY DEF AllShown, EntryShows
<1>9. h = body(h)
  <2>1. ASSUME NEW n \in 0..NumClusters PROVE h[n] = body(h)[n]
    <3>1. CASE n = 0
      <4>1. (n > 0) = FALSE
        BY <3>1
      <4>2. \A c \in Cluster : AllShown(mimic_fat_read(c), n > 0, h[n - 1])
                               = AllShown(mimic_fat_read(c), FALSE, <<>>)
        BY <1>8, <4>1
      <4> QED  BY <1>7, <3>1, <4>2
    <3>2. CASE n # 0
      <4>1. (n > 0) = TRUE
        BY <1>1, <3>2
      <4>2. h[n] = [c \in Cluster |-> AllShown(mimic_fat_read(c), TRUE, h[n - 1])]
        BY <1>7, <3>2
      <4> QED  BY <4>1, <4>2
    <3> QED  BY <3>1, <3>2
  <2>2. h = [n \in 0..NumClusters |-> h[n]]
    <3> HIDE DEF S, zero, step
    <3> QED  BY <1>6 DEF Iterates
  <2>3. body(h) = [n \in 0..NumClusters |-> body(h)[n]]
    OBVIOUS
  <2> HIDE DEF body
  <2> QED  BY <2>1, <2>2, <2>3
<1>10. below = body(below)
  <2> HIDE DEF body
  <2> QED  BY <1>9
<1>11. ShownTree = below[NumClusters][Root]
  BY DEF ShownTree, AllShown, EntryShows
<1>12. ASSUME NEW n \in 0..NumClusters, NEW c \in Cluster
       PROVE  below[n][c] = AllShown(mimic_fat_read(c), n > 0, below[n - 1])
  <2> HIDE DEF below
  <2>1. below[n][c] = body(below)[n][c]
    BY <1>10
  <2> QED  BY <2>1
<1>13. ShowsBy(below)
  <2> HIDE DEF below
  <2> QED  BY <1>12 DEF ShowsBy
<1> HIDE DEF below
<1> QED  BY <1>11, <1>13

\* A path is its first name and the rest.
LEMMA PathHead ==
    ASSUME NEW S, NEW w \in Seq(S), w # <<>>
    PROVE  Head(w) \in S /\ Tail(w) \in Seq(S) /\ w = <<Head(w)>> \o Tail(w)
<1> DEFINE n == Head(w)
           A == <<n>>
           v == Tail(w)
           r == A \o v
<1>1. n \in S /\ v \in Seq(S) /\ Len(w) \in Nat \ {0} /\ Len(v) = Len(w) - 1 /\ n = w[1]
  OBVIOUS
<1>2. \A k \in 1..Len(v) : v[k] = w[k + 1]
  OBVIOUS
<1>3. A \in Seq(S) /\ Len(A) = 1 /\ A[1] = n
  BY <1>1
<1> HIDE DEF n, A, v
<1>4. /\ r \in Seq(S) /\ Len(r) = Len(A) + Len(v)
      /\ \A k \in 1..Len(A) + Len(v) : r[k] = IF k <= Len(A) THEN A[k] ELSE v[k - Len(A)]
  BY <1>1, <1>3, ConcatProperties
<1> HIDE DEF r
<1>5. ASSUME NEW k \in 1..Len(w) PROVE r[k] = w[k]
  <2>1. k \in 1..Len(A) + Len(v)
    BY <1>1, <1>3
  <2>2. CASE k = 1
    <3>1. r[k] = A[k]
      BY <1>3, <1>4, <2>1, <2>2
    <3> QED  BY <1>1, <1>3, <2>2, <3>1
  <2>3. CASE k # 1
    <3>1. ~(k <= Len(A)) /\ k - Len(A) = k - 1 /\ k - 1 \in 1..Len(v) /\ (k - 1) + 1 = k
      BY <1>1, <1>3, <2>3
    <3>2. r[k] = v[k - 1]
      BY <1>4, <2>1, <3>1
    <3>3. v[k - 1] = w[(k - 1) + 1]
      BY <1>2, <3>1
    <3> QED  BY <3>1, <3>2, <3>3
  <2> QED  BY <2>2, <2>3
<1>6. r = [k \in 1..Len(r) |-> r[k]] /\ Len(r) = Len(w)
  BY <1>1, <1>3, <1>4
<1>7. w = [k \in 1..Len(w) |-> w[k]]
  OBVIOUS
<1>8. r = w
  BY <1>5, <1>6, <1>7
<1> QED  BY <1>1, <1>8 DEF n, A, v, r

\* What a tree has below a path is below a directory.
LEMMA TreeClosed ==
    ASSUME NEW t \in Trees, NEW q \in Seq(Names), NEW v \in Seq(Names), v # <<>>,
           q \o v \in DOMAIN t
    PROVE  IsDir(t, q)
<1> DEFINE T == {k \in Nat : \A w \in Seq(Names) :
                    Len(w) = k + 1 /\ q \o w \in DOMAIN t => IsDir(t, q)}
<1>1. ASSUME NEW w \in Seq(Names), w # <<>>, q \o w \in DOMAIN t
      PROVE  /\ Parent(w) \in Seq(Names) /\ Len(w) \in Nat \ {0} /\ Len(Parent(w)) = Len(w) - 1
             /\ IsDir(t, q \o Parent(w))
             /\ q \o Parent(w) # <<>> => q \o Parent(w) \in DOMAIN t
  <2>1. PICK u \in Seq(Names), n \in Names : /\ u = Parent(w) /\ Len(u) = Len(w) - 1
                                             /\ w = Append(u, n)
    BY <1>1, PathParts
  <2>2. Len(w) \in Nat \ {0}
    BY <1>1
  <2>3. q \o u \in Seq(Names) /\ <<n>> \in Seq(Names) /\ Append(u, n) = u \o <<n>>
    <3>1. \A x, y \in Seq(Names) : x \o y \in Seq(Names)
      BY ConcatProperties
    <3> QED  BY <3>1
  <2>4. q \o w = (q \o u) \o <<n>>
    <3>1. PICK z \in Seq(Names) : z = <<n>>
      BY <2>3
    <3>2. (q \o u) \o z = q \o (u \o z)
      BY ConcatAssociative, SMTT(30)
    <3>3. w = u \o z
      BY <2>1, <2>3, <3>1
    <3> QED  BY <3>1, <3>2, <3>3
  <2>5. (q \o u) \o <<n>> = Append(q \o u, n)
    BY <2>3
  <2>6. Parent(q \o w) = q \o u
    BY <2>3, <2>4, <2>5, ParentOfAppend, ZenonT(40)
  <2>7. Parent(q \o w) = <<>> \/ (Parent(q \o w) \in DOMAIN t /\ t[Parent(q \o w)] = DIR)
    BY <1>1, TreesClosedAssumption
  <2> QED  BY <2>1, <2>2, <2>6, <2>7 DEF IsDir
<1>2. 0 \in T
  <2> SUFFICES ASSUME NEW w \in Seq(Names), Len(w) = 1, q \o w \in DOMAIN t PROVE IsDir(t, q)
    OBVIOUS
  <2>1. w # <<>>
    <3>1. w = <<>> <=> Len(w) = 0
      BY EmptySeq
    <3> QED  BY <3>1
  <2>2. Parent(w) \in Seq(Names) /\ Len(Parent(w)) = 0 /\ IsDir(t, q \o Parent(w))
    BY <1>1, <2>1
  <2>3. Parent(w) = <<>>
    BY <2>2
  <2>4. q \o <<>> = q
    BY ConcatEmptySeq
  <2> QED  BY <2>2, <2>3, <2>4
<1>3. ASSUME NEW m \in Nat, m \in T PROVE m + 1 \in T
  <2> SUFFICES ASSUME NEW w \in Seq(Names), Len(w) = (m + 1) + 1, q \o w \in DOMAIN t
               PROVE  IsDir(t, q)
    OBVIOUS
  <2>1. w # <<>>
    OBVIOUS
  <2> DEFINE u == Parent(w)
  <2>2. u \in Seq(Names) /\ Len(u) = m + 1 /\ (q \o u # <<>> => q \o u \in DOMAIN t)
    BY <1>1, <2>1
  <2> HIDE DEF u
  <2>3. q \o u # <<>>
    <3>1. Len(q \o u) = Len(q) + Len(u) /\ Len(q) \in Nat
      <4>1. \A x, y \in Seq(Names) : Len(x \o y) = Len(x) + Len(y)
        BY ConcatProperties
      <4> QED  BY <2>2, <4>1, SMTT(30)
    <3> QED  BY <2>2, <3>1
  <2> QED  BY <1>3, <2>2, <2>3
<1>4. \A k \in Nat : k \in T
  <2> HIDE DEF T
  <2> QED  BY <1>2, <1>3, Induction
<1>5. Len(v) - 1 \in Nat /\ Len(v) = (Len(v) - 1) + 1
  OBVIOUS
<1> QED  BY <1>4, <1>5

\* The names and contents a tree has below a path.
Suffixes(t, p) == {w \in Seq(Names) : w # <<>> /\ p \o w \in DOMAIN t}
Beneath(t, p) == {<<w, t[p \o w]>> : w \in Suffixes(t, p)}

\* What is below a directory is what is at its names, and below these.
AtName(t, p, n) ==
    {<<<<n>>, t[Append(p, n)]>>} \union
    IF t[Append(p, n)] = DIR
    THEN {<<<<n>> \o x[1], x[2]>> : x \in Beneath(t, Append(p, n))} ELSE {}

\* A tree is what is beneath each name of its root.
LEMMA BeneathNames ==
    ASSUME NEW t \in Trees, NEW p \in Seq(Names)
    PROVE  Beneath(t, p) = UNION {AtName(t, p, n) : n \in Kids(t, p)}
<1>1. ASSUME NEW n \in Kids(t, p), NEW x \in AtName(t, p, n) PROVE x \in Beneath(t, p)
  <2>1. /\ n \in Names /\ Append(p, n) \in DOMAIN t
        /\ <<n>> \in Seq(Names) /\ <<n>> # <<>> /\ p \o <<n>> = Append(p, n)
    BY DEF Kids
  <2>2. CASE x = <<<<n>>, t[Append(p, n)]>>
    <3>1. <<n>> \in Suffixes(t, p)
      BY <2>1 DEF Suffixes
    <3> QED  BY <2>1, <2>2, <3>1 DEF Beneath
  <2>3. ASSUME NEW y \in Beneath(t, Append(p, n)), x = <<<<n>> \o y[1], y[2]>>
        PROVE  x \in Beneath(t, p)
    <3>1. PICK v \in Suffixes(t, Append(p, n)) : y = <<v, t[Append(p, n) \o v]>>
      BY DEF Beneath
    <3>2. v \in Seq(Names) /\ Append(p, n) \o v \in DOMAIN t
      BY DEF Suffixes
    <3>3. <<n>> \o v \in Seq(Names) /\ Append(p, n) \o v = p \o (<<n>> \o v)
      BY <2>1, <3>2, Reassociate
    <3>4. <<n>> \o v # <<>>
      <4>1. Len(<<n>> \o v) = 1 + Len(v) /\ Len(v) \in Nat
        BY <2>1, <3>2, ConcatProperties
      <4> QED  BY <3>3, <4>1
    <3>5. <<n>> \o v \in Suffixes(t, p)
      BY <3>2, <3>3, <3>4 DEF Suffixes
    <3>6. x = <<<<n>> \o v, t[p \o (<<n>> \o v)]>>
      BY <2>3, <3>1, <3>3
    <3> QED  BY <3>5, <3>6 DEF Beneath
  <2> QED  BY <2>2, <2>3 DEF AtName
<1>2. ASSUME NEW x \in Beneath(t, p) PROVE \E n \in Kids(t, p) : x \in AtName(t, p, n)
  <2>1. PICK w \in Suffixes(t, p) : x = <<w, t[p \o w]>>
    BY DEF Beneath
  <2>2. w \in Seq(Names) /\ w # <<>> /\ p \o w \in DOMAIN t
    BY DEF Suffixes
  <2>3. PICK n \in Names, v \in Seq(Names) : w = <<n>> \o v
    BY <2>2, PathHead
  <2> DEFINE q == Append(p, n)
  <2>4. q \o v = p \o w /\ p \o <<n>> = q /\ q \in Seq(Names)
    <3>1. Append(p, n) \o v = p \o (<<n>> \o v) /\ p \o <<n>> = Append(p, n)
      BY <2>3, Reassociate
    <3> QED  BY <2>3, <3>1
  <2>5. CASE v = <<>>
    <3>1. w = <<n>>
      BY <2>3, <2>5
    <3>2. n \in Kids(t, p)
      BY <2>2, <2>4, <3>1 DEF Kids
    <3>3. x \in AtName(t, p, n)
      BY <2>1, <2>4, <3>1 DEF AtName
    <3> QED  BY <3>2, <3>3
  <2>6. CASE v # <<>>
    <3>1. q \o v \in DOMAIN t
      BY <2>2, <2>4
    <3>2. IsDir(t, q)
      <4> HIDE DEF q
      <4> QED  BY <2>4, <2>6, <3>1, TreeClosed
    <3>3. q \in DOMAIN t /\ t[q] = DIR
      BY <3>2 DEF IsDir
    <3>4. v \in Suffixes(t, q)
      BY <2>6, <3>1 DEF Suffixes
    <3>5. <<v, t[q \o v]>> \in Beneath(t, q)
      BY <3>4 DEF Beneath
    <3>6. x = <<<<n>> \o v, t[q \o v]>>
      BY <2>1, <2>3, <2>4
    <3>7. \E y \in Beneath(t, q) : x = <<<<n>> \o y[1], y[2]>>
      BY <3>5, <3>6
    <3>8. n \in Kids(t, p) /\ x \in AtName(t, p, n)
      BY <3>3, <3>7 DEF Kids, AtName
    <3> QED  BY <3>8
  <2> QED  BY <2>5, <2>6
<1> QED  BY <1>1, <1>2

\* What the directories in p show is right.
RightUnder(P, place, p, under) ==
    \A n \in Names : Append(p, n) \in P =>
        under[place[Append(p, n)]] = Beneath(lfs, Append(p, n))

ShownAtName(p, e, under) ==
    /\ e.name \in Kids(lfs, p)
    /\ EntryShows(e, TRUE, under) = AtName(lfs, p, e.name)

\* An entry shows the name it has, and what is below.
LEMMA EntryShown ==
    ASSUME TableFits, BuildInv, TableInv, Tidy(listing), NEW P, NEW place, Ready(P, place), NEW p \in P,
           NEW i \in Named(tmp[place[p]]), NEW under, RightUnder(P, place, p, under)
    PROVE  ShownAtName(p, tmp[place[p]][i], under)
<1> DEFINE e == tmp[place[p]][i]
<1>1. lfs \in Trees
  BY DEF BuildInv
<1>2. e.name \in Kids(lfs, p) /\ RightEntry(P, place, lfs, p, e) /\ e.kind \in {"file", "dir"}
  BY <1>1, SectorLists DEF Lists, Named
<1> HIDE DEF e
<1>3. PICK n \in Names : e.name = n
  BY <1>2 DEF Kids
<1>4. ASSUME e.kind = "file" PROVE EntryShows(e, TRUE, under) = AtName(lfs, p, e.name)
  <2>1. FileShown(p, tmp[place[p]][i])
    BY <1>4, FilesRead DEF e
  <2>2. lfs[Append(p, n)] # DIR /\ Reading(ChainOf(fat, e.clus)) = lfs[Append(p, n)]
    BY <1>3, <2>1 DEF FileShown, e
  <2> QED  BY <1>2, <1>3, <1>4, <2>2 DEF EntryShows, AtName
<1>5. ASSUME e.kind = "dir" PROVE EntryShows(e, TRUE, under) = AtName(lfs, p, e.name)
  <2>1. /\ lfs[Append(p, n)] = DIR /\ Append(p, n) \in P
        /\ e = entry("dir", n, place[Append(p, n)], 0)
    <3>1. \A c, s : e # entry("file", n, c, s)
      BY <1>5 DEF entry
    <3> QED  BY <1>2, <1>3, <3>1 DEF RightEntry
  <2>2. e.clus = place[Append(p, n)]
    BY <2>1 DEF entry
  <2>3. under[e.clus] = Beneath(lfs, Append(p, n))
    BY <2>1, <2>2 DEF RightUnder
  <2>4. EntryShows(e, TRUE, under) =
          {<<<<n>>, DIR>>} \union {<<<<n>> \o x[1], x[2]>> : x \in under[e.clus]}
    BY <1>3, <1>5 DEF EntryShows
  <2>5. AtName(lfs, p, n) =
          {<<<<n>>, DIR>>} \union {<<<<n>> \o x[1], x[2]>> : x \in Beneath(lfs, Append(p, n))}
    BY <2>1 DEF AtName
  <2> QED  BY <1>2, <1>3, <2>3, <2>4, <2>5
<1>6. EntryShows(e, TRUE, under) = AtName(lfs, p, e.name)
  BY <1>2, <1>4, <1>5
<1> QED  BY <1>2, <1>6 DEF ShownAtName, e

\* The sector of a directory shows what is below it.
LEMMA DirectoryShown ==
    ASSUME TableFits, BuildInv, TableInv, Tidy(listing), NEW P, NEW place, Ready(P, place), NEW p \in P,
           NEW under, RightUnder(P, place, p, under)
    PROVE  AllShown(mimic_fat_read(place[p]), TRUE, under) = Beneath(lfs, p)
<1> DEFINE s == tmp[place[p]]
           one(i) == EntryShows(s[i], TRUE, under)
<1>1. mimic_fat_read(place[p]) = s /\ s \in Sector
  BY DirectoriesRead
<1>2. lfs \in Trees /\ p \in Seq(Names)
  BY DEF BuildInv, Ready, Volume, Situated
<1>3. \A i \in Named(s) : s[i].name \in Kids(lfs, p) /\ one(i) = AtName(lfs, p, s[i].name)
  <2> TAKE i \in Named(s)
  <2>1. ShownAtName(p, tmp[place[p]][i], under)
    BY EntryShown
  <2> QED  BY <2>1 DEF ShownAtName
<1>4. \A n \in Kids(lfs, p) : \E i \in Named(s) : s[i].name = n
  BY <1>2, SectorLists
<1>5. \A i \in Slots \ Named(s) : one(i) = {}
  BY DEF Named, EntryShows
<1> HIDE DEF s, one
<1>6. UNION {one(i) : i \in Slots} = UNION {AtName(lfs, p, n) : n \in Kids(lfs, p)}
  <2>1. Named(s) \subseteq Slots
    BY DEF Named
  <2>2. ASSUME NEW i \in Slots, NEW x \in one(i)
        PROVE  \E n \in Kids(lfs, p) : x \in AtName(lfs, p, n)
    BY <1>3, <1>5, <2>2
  <2>3. ASSUME NEW n \in Kids(lfs, p), NEW x \in AtName(lfs, p, n)
        PROVE  \E i \in Slots : x \in one(i)
    <3>1. PICK i \in Named(s) : s[i].name = n
      BY <1>4
    <3> QED  BY <1>3, <2>1, <2>3, <3>1
  <2> QED  BY <2>2, <2>3
<1>7. AllShown(s, TRUE, under) = UNION {one(i) : i \in Slots}
  BY <1>1 DEF AllShown, one
<1> QED  BY <1>1, <1>2, <1>6, <1>7, BeneathNames

\* A host is shown the tree of littlefs.
LEMMA VolumeShown ==
    ASSUME TableFits, BuildInv, TableInv, Tidy(listing), NEW P, NEW place, Ready(P, place)
    PROVE  ShownTree = Beneath(lfs, <<>>)
<1>1. PICK h : ShowsBy(h) /\ ShownTree = h[NumClusters][Root]
  BY ShownUnfolds
<1> DEFINE Right(n) == \A p \in P : Len(p) + n >= NumClusters => h[n][place[p]] = Beneath(lfs, p)
           T == {n \in Nat : n <= NumClusters => Right(n)}
<1>2. /\ NumClusters \in Nat /\ NumClusters >= 2
      /\ <<>> \in P /\ place[<<>>] = Root
      /\ P \subseteq Seq(Names)
      /\ \A p \in P : place[p] \in Cluster /\ Len(p) \in Nat /\ Len(p) < NumClusters
  <2>1. Situated(P, place) /\ SectorsSaved(tmp, P, place)
    BY DEF Ready, Volume
  <2>2. \A p \in P : p \in Seq(Names) /\ Len(p) \in Nat
    BY <2>1 DEF Situated
  <2> QED  BY <2>1, <2>2, ClusterAssumption DEF Situated, SectorsSaved
<1>3. 0 \in T
  BY <1>2
<1>4. ASSUME NEW m \in Nat, m \in T PROVE m + 1 \in T
  <2> SUFFICES ASSUME m + 1 <= NumClusters, NEW p \in P, Len(p) + (m + 1) >= NumClusters
               PROVE  h[m + 1][place[p]] = Beneath(lfs, p)
    OBVIOUS
  <2>1. /\ m + 1 \in 0..NumClusters /\ (m + 1 > 0) = TRUE /\ (m + 1) - 1 = m /\ m <= NumClusters
        /\ p \in Seq(Names)
    BY <1>2
  <2>2. h[m + 1][place[p]] = AllShown(mimic_fat_read(place[p]), TRUE, h[m])
    <3>1. h[m + 1][place[p]]
            = AllShown(mimic_fat_read(place[p]), m + 1 > 0, h[(m + 1) - 1])
      BY <1>1, <1>2, <2>1 DEF ShowsBy
    <3> QED  BY <2>1, <3>1
  <2>3. ASSUME NEW n \in Names, Append(p, n) \in P
        PROVE  h[m][place[Append(p, n)]] = Beneath(lfs, Append(p, n))
    <3>1. Len(Append(p, n)) = Len(p) + 1 /\ Len(p) \in Nat
      BY <2>1
    <3>2. Len(Append(p, n)) + m >= NumClusters
      BY <1>2, <3>1
    <3> QED  BY <1>4, <2>1, <2>3, <3>2
  <2>4. RightUnder(P, place, p, h[m])
    BY <2>3 DEF RightUnder
  <2>5. AllShown(mimic_fat_read(place[p]), TRUE, h[m]) = Beneath(lfs, p)
    BY <2>4, DirectoryShown, ZenonT(40)
  <2> QED  BY <2>2, <2>5
<1>5. NumClusters \in T
  <2> HIDE DEF T
  <2>1. \A n \in Nat : n \in T
    BY <1>3, <1>4, Induction
  <2> QED  BY <1>2, <2>1
<1>6. Len(<<>>) + NumClusters >= NumClusters
  BY <1>2
<1> QED  BY <1>1, <1>2, <1>5, <1>6

\* After a mount in which no file ends on the last bytes of a sector of the
\* table, a host that follows the entries and the chains is shown the tree of
\* littlefs: every name, directory and block of it and nothing else, for any
\* tree, order of its names and number of clusters, given that the names come
\* back from the slots and fit in them (mimic_fat_create_cache,
\* find_base_cluster_and_offset, find_dir_entry_cache, restore_file_from,
\* mimic_fat_read).
THEOREM BuilderShowsTree ==
    ASSUME NamesShown, NamesFit, TableFits PROVE BuildSpec => [](NoneStrays => TreeShown)
<1>1. BuildInv /\ TreeInv /\ TableInv => (NoneStrays => TreeShown)
  <2> SUFFICES ASSUME BuildInv, TreeInv, TableInv, NoneStrays, Built
               PROVE  ShownTree = {<<p, lfs[p]>> : p \in DOMAIN lfs}
    BY DEF TreeShown
  <2>1. PICK P, place : Finished(P, place, lfs, listing, allocated, tmp)
    BY BuiltFinished
  <2>2. lfs \in Trees /\ Apart(listing)
    BY DEF BuildInv
  <2>3. Ready(P, place)
    BY <2>1, <2>2, FinishedVolume DEF Ready
  <2>4. Tidy(listing)
    <3>1. ASSUME NEW d \in DOMAIN listing, NEW i \in 1..Len(listing[d])
          PROVE  <<d, i>> \in Placed /\ EntryOf(<<d, i>>) = listing[d][i]
      <4>1. <<d, i>> \in {<<d, j>> : j \in 1..Len(listing[d])}
        OBVIOUS
      <4> QED  BY <4>1 DEF Placed, EntryOf
    <3> QED  BY <3>1 DEF NoneStrays, Tidy
  <2>5. ShownTree = Beneath(lfs, <<>>)
    BY <2>3, <2>4, VolumeShown
  <2>6. Suffixes(lfs, <<>>) = DOMAIN lfs /\ \A w \in DOMAIN lfs : <<>> \o w = w
    <3>1. \A w \in Seq(Names) : <<>> \o w = w
      BY ConcatEmptySeq
    <3>2. DOMAIN lfs \subseteq Seq(Names) /\ \A w \in DOMAIN lfs : w # <<>>
      BY <2>2, TreesClosedAssumption
    <3> QED  BY <3>1, <3>2 DEF Suffixes
  <2> QED  BY <2>5, <2>6 DEF Beneath
<1> QED  BY <1>1, TreeInvariant, TableInvariant, PTL

\* On a disk of less than 255 clusters there is nothing to damage: whatever is
\* mounted, littlefs is shown (bulk_update_fat).
THEOREM SmallDiskShowsTree ==
    ASSUME NamesShown, NamesFit, NumClusters < 255 PROVE BuildSpec => []TreeShown
<1>1. TableFits
  BY ClusterAssumption DEF TableFits, MEDIA
<1>2. BuildSpec => [](NoneStrays => TreeShown)
  BY <1>1, BuilderShowsTree
<1>3. NoneStrays
  BY DEF NoneStrays
<1> QED  BY <1>2, <1>3, PTL
=============================================================================
