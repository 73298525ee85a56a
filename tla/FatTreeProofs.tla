---------------------------- MODULE FatTreeProofs ---------------------------
(***************************************************************************)
(* The searches of mimic_fat.c on the directory sectors of a volume, for   *)
(* every shape and depth of its tree: restore_file_from and                *)
(* restore_directory_from give the path of the entry they are asked for,   *)
(* find_dir_entry_cache finds the one entry that starts at a cluster, and  *)
(* find_base_cluster_and_offset goes back along the chain of a cluster.    *)
(***************************************************************************)
EXTENDS FatTree, FatDirProofs, SequenceTheorems

-----------------------------------------------------------------------------
\* A path is its parent and its last name.
LEMMA PathParts ==
    ASSUME NEW S, NEW p \in Seq(S), p # <<>>
    PROVE  /\ Parent(p) \in Seq(S)
           /\ p[Len(p)] \in S
           /\ Len(p) \in Nat \ {0}
           /\ Len(Parent(p)) = Len(p) - 1
           /\ p = Append(Parent(p), p[Len(p)])
BY DEF Parent

\* A name is taken off a path again.
LEMMA ParentOfAppend ==
    ASSUME NEW S, NEW p \in Seq(S), NEW n \in S
    PROVE  /\ Parent(Append(p, n)) = p
           /\ Append(p, n) \in Seq(S) /\ Append(p, n) # <<>>
           /\ Len(Append(p, n)) = Len(p) + 1
           /\ Append(p, n)[Len(p) + 1] = n
BY DEF Parent

\* The first of one.
LEMMA FirstOfOne == ASSUME NEW i \in Slots PROVE First({i}) = i
BY FirstLeast

-----------------------------------------------------------------------------
(* The climbs unfold.                                                      *)

Stuck(tmp, x) == x.at = 0 \/ ~HasDirectory(tmp, x.at)

\* The '..' of a sector, or its lack, gives a number of the table.
LEMMA ParentInRange ==
    ASSUME NEW s \in Sector
    PROVE  ParentOf(s) \in Cluster
<1>1. 0 \in Cluster /\ Root \in Cluster
  BY ClusterAssumption DEF Cluster, Root
<1> DEFINE D == {i \in Seen(s) : s[i].kind = "dotdot"}
<1>2. CASE D # {}
  <2>1. First(D) \in Slots
    BY <1>2, FirstLeast DEF Seen
  <2>2. s[First(D)].clus \in Cluster
    BY <2>1 DEF Sector, Entry
  <2> QED  BY <1>1, <2>2 DEF ParentOf
<1>3. CASE D = {}  BY <1>1, <1>3 DEF ParentOf
<1> QED  BY <1>2, <1>3

\* The entry a level takes is one of the sector, of the kind looked for.
LEMMA HitEntry ==
    ASSUME NEW s \in Sector, NEW kinds, NEW c, Starting(s, kinds, c) # {}
    PROVE  LET i == First(Starting(s, kinds, c))
           IN  /\ i \in Starting(s, kinds, c)
               /\ s[i] \in Entry /\ s[i].kind \in kinds
               /\ <<s[i].name>> \in Seq(Names \union {NoName})
<1>1. First(Starting(s, kinds, c)) \in Starting(s, kinds, c)
  BY FirstLeast DEF Starting
<1>2. \A i \in Starting(s, kinds, c) :
          s[i] \in Entry /\ s[i].kind \in kinds /\ s[i].name \in Names \union {NoName}
  BY DEF Starting, Sector, Entry
<1> QED  BY <1>1, <1>2

\* A turn of either climb stays among its positions.
LEMMA LevelsStay ==
    ASSUME NEW s \in Sector, NEW x \in Climb
    PROVE  FileLevel(s, x) \in Climb /\ DirectoryLevel(s, x) \in Climb
<1> DEFINE F == Starting(s, {"file", "dir"}, x.target)
           D == Starting(s, {"dir"}, x.target)
<1>1. /\ x.at \in Cluster /\ x.target \in Cluster /\ x.path \in Seq(Names \union {NoName})
      /\ ParentOf(s) \in Cluster
  BY ParentInRange DEF Climb
<1>2. /\ F # {} => <<s[First(F)].name>> \in Seq(Names \union {NoName})
      /\ D # {} => <<s[First(D)].name>> \in Seq(Names \union {NoName})
  BY HitEntry
<1> DEFINE PF == IF F = {} THEN x.path
                 ELSE IF s[First(F)].kind = "dir" THEN <<s[First(F)].name>> \o x.path
                 ELSE <<s[First(F)].name>>
           PD == IF D = {} THEN x.path ELSE <<s[First(D)].name>> \o x.path
<1>3. /\ PF \in Seq(Names \union {NoName})
      /\ PD \in Seq(Names \union {NoName})
  <2> HIDE DEF F, D
  <2>1. \A a, b \in Seq(Names \union {NoName}) : a \o b \in Seq(Names \union {NoName})
    BY ConcatProperties
  <2> QED  BY <1>1, <1>2, <2>1
<1>4. FileLevel(s, x) \in Climb
  <2> HIDE DEF F
  <2>1. FileLevel(s, x) = [at |-> ParentOf(s), target |-> x.at, path |-> PF]
    BY DEF FileLevel, F
  <2> HIDE DEF PF
  <2> QED  BY <1>1, <1>3, <2>1 DEF Climb
<1>5. DirectoryLevel(s, x) \in Climb
  <2> HIDE DEF D
  <2>1. DirectoryLevel(s, x) = [at |-> ParentOf(s),
                                target |-> IF D = {} THEN x.target ELSE x.at,
                                path |-> PD]
    BY DEF DirectoryLevel, D
  <2> HIDE DEF PD
  <2> QED  BY <1>1, <1>3, <2>1 DEF Climb
<1> QED  BY <1>4, <1>5

ClimbsBy(h, tmp, level) ==
    \A n \in 0..NumClusters : \A x \in Climb :
        h[n][x] = IF n = 0 \/ Stuck(tmp, x) THEN x.path ELSE h[n - 1][level[x]]

\* The function that climb_from defines exists, so it is what its equation says.
LEMMA ClimbUnfolds ==
    ASSUME NEW tmp, NEW level,
           \A x \in Climb : ~Stuck(tmp, x) => level[x] \in Climb
    PROVE  \E h : /\ ClimbsBy(h, tmp, level)
                  /\ \A d, t : climb_from(tmp, level, d, t)
                                 = h[NumClusters][[at |-> d, target |-> t, path |-> <<>>]]
<1> DEFINE S == [Climb -> Seq(Names \union {NoName})]
           zero == [x \in Climb |-> x.path]
           Turn(g) == [x \in Climb |-> IF x.at = 0 \/ ~HasDirectory(tmp, x.at) THEN x.path
                                       ELSE g[level[x]]]
           step == [k \in 1..NumClusters |-> [g \in S |-> Turn(g)]]
           body(g) ==
             [n \in 0..NumClusters |->
               [x \in Climb |-> IF n = 0 \/ x.at = 0 \/ ~HasDirectory(tmp, x.at) THEN x.path
                                ELSE g[n - 1][level[x]]]]
           climb == CHOOSE g : g = body(g)
<1>1. NumClusters \in Nat
  BY ClusterAssumption
<1>2. \A x \in Climb : x.path \in Seq(Names \union {NoName})
  BY DEF Climb
<1> HIDE DEF Climb
<1>3. zero \in S
  BY <1>2
<1>4. ASSUME NEW g \in S PROVE Turn(g) \in S
  BY <1>2 DEF Stuck
<1>5. step \in [1..NumClusters -> [S -> S]]
  <2> HIDE DEF S, Turn
  <2> QED  BY <1>4
<1>6. PICK h : Iterates(h, NumClusters, S, zero, step)
  <2> HIDE DEF S, zero, step
  <2> QED  BY <1>1, <1>3, <1>5, Recursion
<1>7. ASSUME NEW n \in 0..NumClusters
      PROVE  h[n] = IF n = 0 THEN zero ELSE Turn(h[n - 1])
  <2> HIDE DEF S, zero, Turn
  <2>1. h \in [0..NumClusters -> S] /\ h[0] = zero
    BY <1>1, <1>6 DEF Iterates
  <2>2. ASSUME n # 0 PROVE h[n] = Turn(h[n - 1])
    <3>1. n \in 1..NumClusters /\ n - 1 \in 0..NumClusters
      BY <1>1, <2>2
    <3>2. h[n] = step[n][h[n - 1]] /\ h[n - 1] \in S
      BY <1>6, <2>1, <3>1 DEF Iterates
    <3> QED  BY <3>1, <3>2
  <2> QED  BY <2>1, <2>2
<1>8. h = body(h)
  <2>1. ASSUME NEW n \in 0..NumClusters PROVE h[n] = body(h)[n]
    <3>1. CASE n = 0  BY <1>7, <3>1
    <3>2. CASE n # 0  BY <1>7, <3>2
    <3> QED  BY <3>1, <3>2
  <2>2. h = [n \in 0..NumClusters |-> h[n]]
    <3> HIDE DEF S, zero, step
    <3> QED  BY <1>6 DEF Iterates
  <2>3. body(h) = [n \in 0..NumClusters |-> body(h)[n]]
    OBVIOUS
  <2> HIDE DEF body
  <2> QED  BY <2>1, <2>2, <2>3
<1>9. climb = body(climb)
  <2> HIDE DEF body
  <2> QED  BY <1>8
<1>10. \A d, t : climb_from(tmp, level, d, t)
                  = climb[NumClusters][[at |-> d, target |-> t, path |-> <<>>]]
  BY DEF climb_from
<1>11. ClimbsBy(climb, tmp, level)
  <2> HIDE DEF climb
  <2> SUFFICES ASSUME NEW n \in 0..NumClusters, NEW x \in Climb
               PROVE  climb[n][x] = IF n = 0 \/ Stuck(tmp, x) THEN x.path
                                    ELSE climb[n - 1][level[x]]
    BY DEF ClimbsBy
  <2>1. climb[n][x] = body(climb)[n][x]
    BY <1>9
  <2> QED  BY <2>1 DEF Stuck
<1> HIDE DEF climb
<1> QED  BY <1>10, <1>11

-----------------------------------------------------------------------------
(* The climbs, level by level.                                             *)

Reached(d, c, w) == [at |-> d, target |-> c, path |-> w]

\* In the directory at p, the visible entry that starts at a cluster is the only one.
OnlyStart(s, i) ==
    /\ Starting(s, {"file", "dir"}, s[i].clus) = {i}
    /\ s[i].kind = "dir" => Starting(s, {"dir"}, s[i].clus) = {i}

\* In a volume, one entry of a directory starts at the cluster of an entry.
LEMMA OneStarts ==
    ASSUME NEW tmp, NEW P, NEW place, Volume(tmp, P, place), NEW p \in P,
           NEW i \in Visible(tmp[place[p]]), tmp[place[p]][i].clus # 0
    PROVE  OnlyStart(tmp[place[p]], i)
<1> DEFINE s == tmp[place[p]]
           c == s[i].clus
<1>1. \A j \in Visible(s) : s[j].clus = c => j = i
  BY DEF Volume, StartsOnce, Alone
<1> HIDE DEF s, c
<1>2. /\ Starting(s, {"file", "dir"}, c) \subseteq Visible(s)
      /\ Starting(s, {"dir"}, c) \subseteq Visible(s)
      /\ \A j \in Starting(s, {"file", "dir"}, c) \union Starting(s, {"dir"}, c) : s[j].clus = c
  BY DEF Starting, Visible
<1>3. /\ i \in Starting(s, {"file", "dir"}, c)
      /\ s[i].kind = "dir" => i \in Starting(s, {"dir"}, c)
  BY DEF Starting, Visible, s, c
<1>4. /\ Starting(s, {"file", "dir"}, c) = {i}
      /\ s[i].kind = "dir" => Starting(s, {"dir"}, c) = {i}
  BY <1>1, <1>2, <1>3
<1> QED  BY <1>4 DEF s, c, OnlyStart

\* A directory below the root starts at the cluster its entry in the parent gives.
LEMMA DirectoryEntry ==
    ASSUME NEW tmp, NEW P, NEW place, Volume(tmp, P, place), NEW p \in P, p # <<>>
    PROVE  /\ Parent(p) \in P
           /\ place[p] \in Cluster /\ place[p] # 0 /\ place[p] # Root
           /\ \E i \in Visible(tmp[place[Parent(p)]]) :
                 /\ tmp[place[Parent(p)]][i].kind = "dir"
                 /\ tmp[place[Parent(p)]][i].name = p[Len(p)]
                 /\ tmp[place[Parent(p)]][i].clus = place[p]
<1> DEFINE u == Parent(p)
<1>1. p \in Seq(Names) /\ u \in P /\ place[p] \in Cluster
  BY DEF Volume, Situated
<1>2. PICK i \in Visible(tmp[place[u]]) :
           /\ tmp[place[u]][i].kind = "dir"
           /\ tmp[place[u]][i].name = p[Len(p)]
  BY DEF Volume, ParentsList, HasEntry
<1>3. Append(u, p[Len(p)]) = p
  BY <1>1, PathParts
<1> HIDE DEF u
<1>4. Leads(tmp, P, place, u, i)
  BY <1>1, <1>2 DEF Volume, EntriesLead
<1>5. /\ tmp[place[u]][i].clus = place[p]
      /\ tmp[place[u]][i].clus # 0
      /\ tmp[place[u]][i].clus # Root
  BY <1>2, <1>3, <1>4 DEF Leads
<1> QED  BY <1>1, <1>2, <1>5 DEF u

\* A name between two parts of a path belongs to either.
LEMMA Reassociate ==
    ASSUME NEW S, NEW p \in Seq(S), NEW w \in Seq(S), NEW n \in S
    PROVE  /\ <<n>> \o w \in Seq(S)
           /\ Append(p, n) \o w = p \o (<<n>> \o w)
           /\ p \o <<n>> = Append(p, n)
           /\ <<>> \o w = w
<1>1. <<n>> \in Seq(S) /\ Append(p, n) = p \o <<n>>
  OBVIOUS
<1>2. /\ <<n>> \o w \in Seq(S)
      /\ (p \o <<n>>) \o w = p \o (<<n>> \o w)
      /\ <<>> \o w = w
  BY <1>1, ConcatProperties, ConcatAssociative, ConcatEmptySeq
<1> QED  BY <1>1, <1>2

\* One level up from the directory at q, from the entry i in it.
OneUp(tmp, place, q, i, w) ==
    LET e == tmp[place[q]][i]
        x == Reached(place[q], e.clus, w)
        y(v) == Reached(IF q = <<>> THEN 0 ELSE place[Parent(q)], place[q], v)
    IN  /\ x \in Climb
        /\ ~Stuck(tmp, x)
        /\ e.kind = "dir" => /\ FileLevel(tmp[place[q]], x) = y(<<e.name>> \o w)
                             /\ DirectoryLevel(tmp[place[q]], x) = y(<<e.name>> \o w)
        /\ e.kind = "file" => FileLevel(tmp[place[q]], x) = y(<<e.name>>)

\* A turn of the climbs goes from a directory to its parent and puts its name in front.
LEMMA OneLevel ==
    ASSUME NEW tmp, NEW P, NEW place, Volume(tmp, P, place), NEW q \in P,
           NEW i \in Visible(tmp[place[q]]), tmp[place[q]][i].clus # 0,
           NEW w \in Seq(Names)
    PROVE  OneUp(tmp, place, q, i, w)
<1> DEFINE s == tmp[place[q]]
           e == s[i]
           x == Reached(place[q], e.clus, w)
           up == IF q = <<>> THEN 0 ELSE place[Parent(q)]
<1>1. /\ place[q] \in Cluster /\ s \in Sector /\ HasDirectory(tmp, place[q])
      /\ ParentOf(s) = up
      /\ i \in Slots /\ e.kind \in {"file", "dir"}
  BY DEF Volume, Situated, SectorsSaved, HasDirectory, Visible
<1>2. place[q] # 0
  <2>1. CASE q = <<>>  BY <2>1 DEF Volume, Situated, Root
  <2>2. CASE q # <<>>  BY <2>2, DirectoryEntry
  <2> QED  BY <2>1, <2>2
<1>3. e.clus \in Cluster
  BY <1>1 DEF Sector, Entry
<1>4. x \in Climb /\ x.at = place[q] /\ x.target = e.clus /\ x.path = w
  <2>1. w \in Seq(Names \union {NoName})
    OBVIOUS
  <2> QED  BY <1>1, <1>3, <2>1 DEF Reached, Climb
<1>5. ~Stuck(tmp, x)
  BY <1>1, <1>2, <1>4 DEF Stuck
<1>6. /\ Starting(s, {"file", "dir"}, e.clus) = {i}
      /\ e.kind = "dir" => Starting(s, {"dir"}, e.clus) = {i}
  <2>1. OnlyStart(tmp[place[q]], i)
    <3> HIDE DEF x, up
    <3> QED  BY OneStarts
  <2> QED  BY <2>1 DEF OnlyStart
<1>7. First({i}) = i
  BY <1>1, FirstOfOne
<1> HIDE DEF x
<1>8. e.kind = "dir" => /\ FileLevel(s, x) = Reached(up, place[q], <<e.name>> \o w)
                        /\ DirectoryLevel(s, x) = Reached(up, place[q], <<e.name>> \o w)
  BY <1>1, <1>4, <1>6, <1>7 DEF FileLevel, DirectoryLevel, Reached
<1>9. e.kind = "file" => FileLevel(s, x) = Reached(up, place[q], <<e.name>>)
  BY <1>1, <1>4, <1>6, <1>7 DEF FileLevel, Reached
<1> QED  BY <1>4, <1>5, <1>8, <1>9 DEF x, OneUp

\* Both climbs go on from a directory below the root with its path.
Goes(h, n, P, place) ==
    \A q \in P : \A w \in Seq(Names) :
        q # <<>> /\ Len(q) <= n => h[n][Reached(place[Parent(q)], place[q], w)] = q \o w

\* With a bound of n, the climbs give the path of a directory of depth n or less.
LEMMA Climbs ==
    ASSUME NEW tmp, NEW P, NEW place, Volume(tmp, P, place), NEW level, NEW h,
           ClimbsBy(h, tmp, level),
           \/ level = [x \in Climb |-> FileLevel(tmp[x.at], x)]
           \/ level = [x \in Climb |-> DirectoryLevel(tmp[x.at], x)]
    PROVE  \A n \in 0..NumClusters : Goes(h, n, P, place)
<1> DEFINE T == {n \in Nat : n <= NumClusters => Goes(h, n, P, place)}
<1>1. NumClusters \in Nat
  BY ClusterAssumption
<1>2. 0 \in T
  BY PathParts DEF Volume, Situated, Goes
<1>3. ASSUME NEW m \in Nat, m \in T PROVE m + 1 \in T
  <2> DEFINE n == m + 1
  <2> SUFFICES ASSUME n <= NumClusters, NEW q \in P, NEW w \in Seq(Names), q # <<>>, Len(q) <= n
               PROVE  h[n][Reached(place[Parent(q)], place[q], w)] = q \o w
    BY DEF Goes
  <2>1. /\ q \in Seq(Names) /\ Parent(q) \in P /\ place[<<>>] = Root
        /\ Parent(q) \in Seq(Names) /\ q[Len(q)] \in Names
        /\ Len(Parent(q)) <= m
        /\ q = Append(Parent(q), q[Len(q)])
    <3>1. q \in Seq(Names) /\ Parent(q) \in P /\ place[<<>>] = Root /\ P \subseteq Seq(Names)
      BY DEF Volume, Situated
    <3>2. /\ Parent(q) \in Seq(Names) /\ q[Len(q)] \in Names /\ Len(q) \in Nat
          /\ Len(Parent(q)) = Len(q) - 1 /\ q = Append(Parent(q), q[Len(q)])
      BY <3>1, PathParts
    <3> QED  BY <3>1, <3>2
  <2> DEFINE p == Parent(q)
             nm == q[Len(q)]
             x == Reached(place[p], place[q], w)
             y == Reached(IF p = <<>> THEN 0 ELSE place[Parent(p)], place[p], <<nm>> \o w)
  <2>2. PICK i \in Visible(tmp[place[p]]) :
           /\ tmp[place[p]][i].kind = "dir"
           /\ tmp[place[p]][i].name = nm
           /\ tmp[place[p]][i].clus = place[q]
           /\ place[q] # 0
    BY DirectoryEntry
  <2>3. x \in Climb /\ ~Stuck(tmp, x) /\ level[x] = y /\ x.at = place[p]
    <3>1. /\ x \in Climb /\ ~Stuck(tmp, x)
          /\ FileLevel(tmp[place[p]], x) = y /\ DirectoryLevel(tmp[place[p]], x) = y
      <4> DEFINE e == tmp[place[p]][i]
      <4>1. p \in P /\ i \in Visible(tmp[place[p]]) /\ e.clus # 0 /\ e.kind = "dir"
            /\ e.name = nm /\ e.clus = place[q]
        BY <2>1, <2>2
      <4> HIDE DEF p, nm
      <4>2. LET z == Reached(place[p], e.clus, w)
            IN  /\ z \in Climb /\ ~Stuck(tmp, z)
                /\ FileLevel(tmp[place[p]], z) = y /\ DirectoryLevel(tmp[place[p]], z) = y
        <5>1. OneUp(tmp, place, p, i, w)
          BY <4>1, OneLevel
        <5> HIDE DEF y
        <5> QED  BY <4>1, <5>1 DEF y, OneUp
      <4> QED  BY <4>1, <4>2
    <3>2. x.at = place[p]
      BY DEF Reached
    <3> QED  BY <3>1, <3>2
  <2>4. h[n][x] = h[m][y] /\ m <= NumClusters /\ m \in 0..NumClusters
    <3>1. n \in 0..NumClusters /\ n # 0 /\ n - 1 = m
      BY <1>1
    <3> HIDE DEF n, x, y
    <3> QED  BY <1>1, <2>3, <3>1 DEF ClimbsBy
  <2>5. q \o w = p \o (<<nm>> \o w) /\ <<nm>> \o w \in Seq(Names)
    <3> HIDE DEF p, nm
    <3>1. p \in Seq(Names) /\ nm \in Names /\ q = Append(p, nm)
      BY <2>1 DEF p, nm
    <3> QED  BY <3>1, Reassociate
  <2>6. CASE p # <<>>
    <3>1. h[m][y] = p \o (<<nm>> \o w)
      BY <1>3, <2>1, <2>4, <2>5, <2>6 DEF Goes
    <3> QED  BY <2>4, <2>5, <3>1
  <2>7. CASE p = <<>>
    <3>1. y \in Climb /\ Stuck(tmp, y) /\ y.path = <<nm>> \o w
      <4>1. place[p] \in Cluster /\ 0 \in Cluster
        BY <1>1, <2>1 DEF Volume, Situated, Cluster
      <4>2. <<nm>> \o w \in Seq(Names \union {NoName})
        BY <2>5
      <4> QED  BY <2>7, <4>1, <4>2 DEF Reached, Climb, Stuck
    <3>2. h[m][y] = <<nm>> \o w
      <4> HIDE DEF y
      <4> QED  BY <2>4, <3>1 DEF ClimbsBy
    <3>3. p \o (<<nm>> \o w) = <<nm>> \o w
      BY <2>5, <2>7, Reassociate
    <3> QED  BY <2>4, <2>5, <3>2, <3>3
  <2> QED  BY <2>6, <2>7
<1> HIDE DEF T
<1>4. \A n \in Nat : n \in T
  BY <1>2, <1>3, Induction
<1> QED  BY <1>1, <1>4 DEF T

\* A climb from the directory above the one at p ends with the path p.
LEMMA Upwards ==
    ASSUME NEW tmp, NEW P, NEW place, Volume(tmp, P, place), NEW level, NEW h,
           ClimbsBy(h, tmp, level),
           \/ level = [x \in Climb |-> FileLevel(tmp[x.at], x)]
           \/ level = [x \in Climb |-> DirectoryLevel(tmp[x.at], x)],
           NEW p \in P, NEW n \in 0..NumClusters, Len(p) <= n, NEW w \in Seq(Names)
    PROVE  h[n][Reached(IF p = <<>> THEN 0 ELSE place[Parent(p)], place[p], w)] = p \o w
<1>1. CASE p # <<>>
  <2>1. Goes(h, n, P, place)
    BY Climbs
  <2> QED  BY <1>1, <2>1 DEF Goes
<1>2. CASE p = <<>>
  <2> DEFINE y == Reached(0, place[p], w)
  <2>1. y \in Climb /\ Stuck(tmp, y) /\ y.path = w
    <3>1. place[p] \in Cluster /\ 0 \in Cluster
      BY ClusterAssumption DEF Volume, Situated, Cluster
    <3>2. w \in Seq(Names \union {NoName})
      OBVIOUS
    <3> QED  BY <3>1, <3>2 DEF Reached, Climb, Stuck
  <2>2. h[n][y] = w
    <3> HIDE DEF y
    <3> QED  BY <2>1 DEF ClimbsBy
  <2>3. p \o w = w
    BY <1>2, ConcatEmptySeq
  <2> QED  BY <1>2, <2>2, <2>3
<1> QED  BY <1>1, <1>2

\* The first level of a climb, and with it the whole.
LEMMA WholeClimb ==
    ASSUME NEW tmp, NEW P, NEW place, Volume(tmp, P, place), NEW level, NEW h,
           ClimbsBy(h, tmp, level), NEW p \in P, NEW i \in Visible(tmp[place[p]]),
           tmp[place[p]][i].clus # 0,
           \/ level = [x \in Climb |-> FileLevel(tmp[x.at], x)]
           \/ /\ level = [x \in Climb |-> DirectoryLevel(tmp[x.at], x)]
              /\ tmp[place[p]][i].kind = "dir"
    PROVE  h[NumClusters][Reached(place[p], tmp[place[p]][i].clus, <<>>)]
             = Append(p, tmp[place[p]][i].name)
<1> DEFINE e == tmp[place[p]][i]
           w == <<e.name>>
           x == Reached(place[p], e.clus, <<>>)
           y == Reached(IF p = <<>> THEN 0 ELSE place[Parent(p)], place[p], w)
           n == NumClusters - 1
<1>1. /\ NumClusters \in 0..NumClusters /\ NumClusters # 0 /\ NumClusters \in Nat
      /\ n \in 0..NumClusters
  BY ClusterAssumption
<1>2. /\ p \in Seq(Names) /\ e.name \in Names /\ w \in Seq(Names) /\ <<>> \in Seq(Names)
      /\ e.kind \in {"file", "dir"} /\ Len(p) <= n
  <2>1. i \in Slots /\ e.kind \in {"file", "dir"}
    BY DEF Visible
  <2>2. p \in Seq(Names) /\ e.name \in Names /\ Len(p) < NumClusters
    BY <2>1 DEF Volume, Situated, NamesListed, SectorsSaved
  <2>3. Len(p) \in Nat
    BY <2>2
  <2> QED  BY <1>1, <2>1, <2>2, <2>3
<1>3. w \o <<>> = w
  BY <1>2, ConcatEmptySeq
<1>4. /\ x \in Climb /\ ~Stuck(tmp, x)
      /\ e.kind = "dir" => /\ FileLevel(tmp[place[p]], x) = y
                           /\ DirectoryLevel(tmp[place[p]], x) = y
      /\ e.kind = "file" => FileLevel(tmp[place[p]], x) = y
  <2>1. OneUp(tmp, place, p, i, <<>>)
    <3> HIDE DEF e, w, x, y
    <3> QED  BY <1>2, OneLevel
  <2> QED  BY <1>3, <2>1 DEF OneUp
<1>5. x.at = place[p]
  BY DEF Reached
<1>6. level[x] = y
  <2> HIDE DEF x, y
  <2>1. e.kind = "dir" \/ e.kind = "file"
    BY <1>2
  <2> QED  BY <1>4, <1>5, <2>1
<1>7. h[NumClusters][x] = h[n][y]
  <2> HIDE DEF x, y
  <2> QED  BY <1>1, <1>4, <1>6 DEF ClimbsBy
<1>8. h[n][y] = p \o w
  <2> HIDE DEF n, w
  <2> QED  BY <1>1, <1>2, Upwards
<1>9. p \o w = Append(p, e.name)
  BY <1>2
<1> QED  BY <1>7, <1>8, <1>9

\* restore_file_from gives the path of a visible file or directory from the
\* directory it is in and the cluster it starts at, however deep.
THEOREM PathRestored ==
    ASSUME NEW tmp, NEW P, NEW place, Volume(tmp, P, place),
           NEW p \in P, NEW i \in Visible(tmp[place[p]]), tmp[place[p]][i].clus # 0
    PROVE  restore_file_from(tmp, place[p], tmp[place[p]][i].clus)
             = Append(p, tmp[place[p]][i].name)
<1> DEFINE level == [x \in Climb |-> FileLevel(tmp[x.at], x)]
<1>1. \A x \in Climb : ~Stuck(tmp, x) => level[x] \in Climb
  BY LevelsStay DEF Stuck, HasDirectory
<1>2. \A d, t : restore_file_from(tmp, d, t) = climb_from(tmp, level, d, t)
  BY DEF restore_file_from
<1>3. level = [x \in Climb |-> FileLevel(tmp[x.at], x)]
  OBVIOUS
<1> HIDE DEF level
<1>4. PICK h : /\ ClimbsBy(h, tmp, level)
               /\ \A d, t : climb_from(tmp, level, d, t) = h[NumClusters][Reached(d, t, <<>>)]
  BY <1>1, ClimbUnfolds DEF Reached
<1>5. h[NumClusters][Reached(place[p], tmp[place[p]][i].clus, <<>>)]
        = Append(p, tmp[place[p]][i].name)
  BY <1>3, <1>4, WholeClimb
<1> QED  BY <1>2, <1>4, <1>5

\* So does restore_directory_from for a directory.
THEOREM DirectoryRestored ==
    ASSUME NEW tmp, NEW P, NEW place, Volume(tmp, P, place),
           NEW p \in P, NEW i \in Visible(tmp[place[p]]), tmp[place[p]][i].kind = "dir"
    PROVE  restore_directory_from(tmp, place[p], tmp[place[p]][i].clus)
             = Append(p, tmp[place[p]][i].name)
<1> DEFINE level == [x \in Climb |-> DirectoryLevel(tmp[x.at], x)]
<1>1. \A x \in Climb : ~Stuck(tmp, x) => level[x] \in Climb
  BY LevelsStay DEF Stuck, HasDirectory
<1>2. \A d, t : restore_directory_from(tmp, d, t) = climb_from(tmp, level, d, t)
  BY DEF restore_directory_from
<1>3. level = [x \in Climb |-> DirectoryLevel(tmp[x.at], x)]
  OBVIOUS
<1> HIDE DEF level
<1>4. PICK h : /\ ClimbsBy(h, tmp, level)
               /\ \A d, t : climb_from(tmp, level, d, t) = h[NumClusters][Reached(d, t, <<>>)]
  BY <1>1, ClimbUnfolds DEF Reached
<1>5. tmp[place[p]][i].clus # 0
  BY DEF Volume, EntriesLead, Leads
<1>6. h[NumClusters][Reached(place[p], tmp[place[p]][i].clus, <<>>)]
        = Append(p, tmp[place[p]][i].name)
  BY <1>3, <1>4, <1>5, WholeClimb
<1> QED  BY <1>2, <1>4, <1>6

-----------------------------------------------------------------------------
(* The depth-first search.                                                 *)

Results == {NOT_FOUND, ERROR} \union (Cluster \X Slots)

ScansBy(h, tmp, target) ==
    \A n \in 0..NumClusters : \A base \in Cluster :
        h[n][base] = search_directory(tmp, target, IF n = 0 THEN Nowhere ELSE h[n - 1], base)

\* A search of one sector answers a slot, NOT_FOUND or ERROR.
LEMMA SearchInResults ==
    ASSUME NEW tmp, NEW target, NEW g \in [Cluster -> Results], NEW base \in Cluster
    PROVE  search_directory(tmp, target, g, base) \in Results
<1> DEFINE s == tmp[base]
           Result(i) == IF s[i].clus = target THEN <<base, i>>
                        ELSE IF s[i].kind = "dir" THEN g[s[i].clus]
                        ELSE NOT_FOUND
           hits == {i \in Slots : /\ i >= (IF base = Root THEN 2 ELSE 3)
                                  /\ Live(s, i)
                                  /\ s[i].kind # "dotdot"
                                  /\ Result(i) # NOT_FOUND}
<1>1. ASSUME HasDirectory(tmp, base), NEW i \in Slots
      PROVE  Result(i) \in Results
  <2>1. s[i].clus \in Cluster
    BY <1>1 DEF HasDirectory, Sector, Entry
  <2>2. g[s[i].clus] \in Results /\ <<base, i>> \in Results /\ NOT_FOUND \in Results
    BY <2>1 DEF Results
  <2> QED  BY <2>2
<1>2. hits # {} => First(hits) \in Slots
  BY FirstLeast
<1>3. search_directory(tmp, target, g, base) = IF ~HasDirectory(tmp, base) THEN ERROR
                                               ELSE IF hits = {} THEN NOT_FOUND
                                               ELSE Result(First(hits))
  BY DEF search_directory
<1> HIDE DEF hits, Result
<1> QED  BY <1>1, <1>2, <1>3 DEF Results

\* The function that find_dir_entry_cache defines exists.
LEMMA ScanUnfolds ==
    ASSUME NEW tmp, NEW target
    PROVE  \E h : ScansBy(h, tmp, target) /\ find_dir_entry_cache(tmp, target) = h[NumClusters][Root]
<1> DEFINE S == [Cluster -> Results]
           Turn(g) == [base \in Cluster |-> search_directory(tmp, target, g, base)]
           zero == Turn(Nowhere)
           step == [k \in 1..NumClusters |-> [g \in S |-> Turn(g)]]
           body(g) ==
             [n \in 0..NumClusters |->
               [base \in Cluster |->
                 search_directory(tmp, target, IF n = 0 THEN Nowhere ELSE g[n - 1], base)]]
           scan == CHOOSE g : g = body(g)
<1>1. NumClusters \in Nat /\ Root \in Cluster
  BY ClusterAssumption DEF Root, Cluster
<1>2. Nowhere \in S
  BY DEF Nowhere, Results
<1>3. ASSUME NEW g \in S PROVE Turn(g) \in S
  BY SearchInResults
<1>4. zero \in S
  <2> HIDE DEF S, Turn
  <2> QED  BY <1>2, <1>3
<1>5. step \in [1..NumClusters -> [S -> S]]
  <2> HIDE DEF S, Turn
  <2> QED  BY <1>3
<1>6. PICK h : Iterates(h, NumClusters, S, zero, step)
  <2> HIDE DEF S, zero, step
  <2> QED  BY <1>1, <1>4, <1>5, Recursion
<1>7. ASSUME NEW n \in 0..NumClusters
      PROVE  h[n] = IF n = 0 THEN zero ELSE Turn(h[n - 1])
  <2> HIDE DEF S, zero, Turn
  <2>1. h \in [0..NumClusters -> S] /\ h[0] = zero
    BY <1>1, <1>6 DEF Iterates
  <2>2. ASSUME n # 0 PROVE h[n] = Turn(h[n - 1])
    <3>1. n \in 1..NumClusters /\ n - 1 \in 0..NumClusters
      BY <1>1, <2>2
    <3>2. h[n] = step[n][h[n - 1]] /\ h[n - 1] \in S
      BY <1>6, <2>1, <3>1 DEF Iterates
    <3> QED  BY <3>1, <3>2
  <2> QED  BY <2>1, <2>2
<1>8. h = body(h)
  <2>1. ASSUME NEW n \in 0..NumClusters PROVE h[n] = body(h)[n]
    <3>1. CASE n = 0  BY <1>7, <3>1
    <3>2. CASE n # 0  BY <1>7, <3>2
    <3> QED  BY <3>1, <3>2
  <2>2. h = [n \in 0..NumClusters |-> h[n]]
    <3> HIDE DEF S, zero, step
    <3> QED  BY <1>6 DEF Iterates
  <2>3. body(h) = [n \in 0..NumClusters |-> body(h)[n]]
    OBVIOUS
  <2> HIDE DEF body
  <2> QED  BY <2>1, <2>2, <2>3
<1>9. scan = body(scan)
  <2> HIDE DEF body
  <2> QED  BY <1>8
<1>10. find_dir_entry_cache(tmp, target) = scan[NumClusters][Root]
  BY DEF find_dir_entry_cache
<1>11. ScansBy(scan, tmp, target)
  <2> HIDE DEF scan
  <2> SUFFICES ASSUME NEW n \in 0..NumClusters, NEW base \in Cluster
               PROVE  scan[n][base] = search_directory(tmp, target,
                                        IF n = 0 THEN Nowhere ELSE scan[n - 1], base)
    BY DEF ScansBy
  <2>1. scan[n][base] = body(scan)[n][base]
    BY <1>9
  <2> QED  BY <2>1
<1> HIDE DEF scan
<1> QED  BY <1>10, <1>11

\* What the search looks at in the directory at q, and what it answers there.
SearchCases(tmp, place, q, target, g) ==
    LET s == tmp[place[q]]
        R(i) == IF s[i].clus = target THEN <<place[q], i>>
                ELSE IF s[i].kind = "dir" THEN g[s[i].clus] ELSE NOT_FOUND
        r == search_directory(tmp, target, g, place[q])
    IN  /\ (\A i \in Visible(s) : R(i) = NOT_FOUND) => r = NOT_FOUND
        /\ \A k \in Visible(s) :
              /\ R(k) # NOT_FOUND
              /\ \A i \in Visible(s) : i # k => R(i) = NOT_FOUND
              => r = R(k)

\* The search of a sector answers by the one slot that starts at the target or leads to it.
LEMMA SearchedSlots ==
    ASSUME NEW tmp, NEW P, NEW place, Volume(tmp, P, place), NEW q \in P, NEW target, NEW g
    PROVE  SearchCases(tmp, place, q, target, g)
<1> DEFINE s == tmp[place[q]]
           R(i) == IF s[i].clus = target THEN <<place[q], i>>
                   ELSE IF s[i].kind = "dir" THEN g[s[i].clus] ELSE NOT_FOUND
           r == search_directory(tmp, target, g, place[q])
           hits == {i \in Slots : /\ i >= (IF place[q] = Root THEN 2 ELSE 3)
                                  /\ Live(s, i)
                                  /\ s[i].kind # "dotdot"
                                  /\ R(i) # NOT_FOUND}
<1>1. HasDirectory(tmp, place[q])
  BY DEF Volume, SectorsSaved
<1>2. FirstSlot(q) = IF place[q] = Root THEN 2 ELSE 3
  <2>1. CASE q = <<>>  BY <2>1 DEF Volume, Situated, FirstSlot
  <2>2. CASE q # <<>>  BY <2>2, DirectoryEntry DEF FirstSlot
  <2> QED  BY <2>1, <2>2
<1>3. r = IF hits = {} THEN NOT_FOUND ELSE R(First(hits))
  BY <1>1 DEF search_directory
<1>4. \A i \in Slots : /\ i \in Visible(s) => i >= FirstSlot(q)
                       /\ (Live(s, i) /\ i >= FirstSlot(q)) => i \in Visible(s)
  BY DEF Volume, NamesListed
<1>5. \A i \in Visible(s) : i \in Slots /\ Live(s, i) /\ s[i].kind # "dotdot"
  BY DEF Visible
<1> HIDE DEF s, R
<1>6. hits = {i \in Visible(s) : R(i) # NOT_FOUND}
  <2> DEFINE lowest == IF place[q] = Root THEN 2 ELSE 3
  <2>1. lowest = FirstSlot(q) /\ lowest \in Nat
    BY <1>2
  <2> HIDE DEF lowest
  <2>2. hits = {i \in Slots : /\ i >= lowest
                              /\ Live(s, i)
                              /\ s[i].kind # "dotdot"
                              /\ R(i) # NOT_FOUND}
    BY DEF lowest
  <2> HIDE DEF hits, r
  <2>3. ASSUME NEW i \in Slots
        PROVE  (i >= lowest /\ Live(s, i) /\ s[i].kind # "dotdot") <=> i \in Visible(s)
    <3>1. i \in Int /\ lowest \in Int
      BY <2>1, SlotAssumption DEF Slots
    <3>2. i >= lowest /\ Live(s, i) => i \in Visible(s)
      BY <1>4, <2>1, <3>1
    <3>3. i \in Visible(s) => i >= lowest
      BY <1>4, <2>1, <3>1
    <3> QED  BY <1>5, <3>2, <3>3
  <2>4. Visible(s) \subseteq Slots
    BY <1>5
  <2> QED  BY <2>2, <2>3, <2>4
<1> HIDE DEF hits, r
<1>7. (\A i \in Visible(s) : R(i) = NOT_FOUND) => r = NOT_FOUND
  BY <1>3, <1>6
<1>8. ASSUME NEW k \in Visible(s), R(k) # NOT_FOUND,
             \A i \in Visible(s) : i # k => R(i) = NOT_FOUND
      PROVE  r = R(k)
  <2>1. hits = {k} /\ First({k}) = k
    BY <1>5, <1>6, <1>8, FirstOfOne
  <2> QED  BY <1>3, <2>1
<1> QED  BY <1>7, <1>8 DEF SearchCases, s, R, r

\* Directories that are closed downwards and do not list the cluster.
Lacks(tmp, P, place, D, target) ==
    /\ D \subseteq P
    /\ \A q \in D : \A i \in Visible(tmp[place[q]]) :
          /\ tmp[place[q]][i].clus # target
          /\ tmp[place[q]][i].kind = "dir" => Append(q, tmp[place[q]][i].name) \in D

Misses(h, n, place, D) == \A q \in D : h[n][place[q]] = NOT_FOUND

\* The search does not find the cluster there.
LEMMA ScanMisses ==
    ASSUME NEW tmp, NEW P, NEW place, Volume(tmp, P, place), NEW target, NEW h,
           ScansBy(h, tmp, target), NEW D, Lacks(tmp, P, place, D, target)
    PROVE  \A n \in 0..NumClusters : Misses(h, n, place, D)
<1> DEFINE T == {n \in Nat : n <= NumClusters => Misses(h, n, place, D)}
<1>1. NumClusters \in Nat
  BY ClusterAssumption
<1>2. ASSUME NEW n \in 0..NumClusters, NEW g,
             g = IF n = 0 THEN Nowhere ELSE h[n - 1],
             \A q \in D : g[place[q]] = NOT_FOUND
      PROVE  Misses(h, n, place, D)
  <2> SUFFICES ASSUME NEW q \in D PROVE h[n][place[q]] = NOT_FOUND
    BY DEF Misses
  <2>1. q \in P /\ place[q] \in Cluster
    BY DEF Lacks, Volume, Situated
  <2>2. h[n][place[q]] = search_directory(tmp, target, g, place[q])
    BY <1>2, <2>1 DEF ScansBy
  <2> DEFINE s == tmp[place[q]]
             R(i) == IF s[i].clus = target THEN <<place[q], i>>
                     ELSE IF s[i].kind = "dir" THEN g[s[i].clus] ELSE NOT_FOUND
  <2>3. ASSUME NEW i \in Visible(s) PROVE R(i) = NOT_FOUND
    <3>1. s[i].clus # target /\ (s[i].kind = "dir" => Append(q, s[i].name) \in D)
      BY DEF Lacks
    <3>2. CASE s[i].kind # "dir"  BY <3>1, <3>2
    <3>3. CASE s[i].kind = "dir"
      <4>1. Leads(tmp, P, place, q, i)
        BY <2>1 DEF Volume, EntriesLead
      <4>2. place[Append(q, s[i].name)] = s[i].clus
        BY <3>3, <4>1 DEF Leads
      <4> QED  BY <1>2, <3>1, <3>3, <4>2
    <3> QED  BY <3>2, <3>3
  <2>4. SearchCases(tmp, place, q, target, g)
    BY <2>1, SearchedSlots
  <2> QED  BY <2>2, <2>3, <2>4 DEF SearchCases
<1>3. 0 \in T
  <2>1. \A q \in D : Nowhere[place[q]] = NOT_FOUND
    BY DEF Nowhere, Lacks, Volume, Situated
  <2> QED  BY <1>1, <1>2, <2>1
<1>4. ASSUME NEW m \in Nat, m \in T PROVE m + 1 \in T
  <2> SUFFICES ASSUME m + 1 <= NumClusters PROVE Misses(h, m + 1, place, D)
    OBVIOUS
  <2>1. m + 1 \in 0..NumClusters /\ m + 1 # 0 /\ (m + 1) - 1 = m
    BY <1>1
  <2>2. \A q \in D : h[m][place[q]] = NOT_FOUND
    <3>1. m <= NumClusters /\ m \in T
      BY <1>1, <1>4
    <3>2. Misses(h, m, place, D)
      BY <3>1
    <3> QED  BY <3>2 DEF Misses
  <2> QED  BY <1>2, <2>1, <2>2
<1> HIDE DEF T
<1>5. \A n \in Nat : n \in T
  BY <1>3, <1>4, Induction
<1> QED  BY <1>1, <1>5 DEF T

\* find_dir_entry_cache answers NOT_FOUND for a cluster that no file or
\* directory of the volume starts at.
THEOREM EntryMissed ==
    ASSUME NEW tmp, NEW P, NEW place, Volume(tmp, P, place), NEW target,
           \A q \in P : \A i \in Visible(tmp[place[q]]) : tmp[place[q]][i].clus # target
    PROVE  find_dir_entry_cache(tmp, target) = NOT_FOUND
<1>1. PICK h : ScansBy(h, tmp, target) /\ find_dir_entry_cache(tmp, target) = h[NumClusters][Root]
  BY ScanUnfolds
<1>2. ASSUME NEW q \in P, NEW i \in Visible(tmp[place[q]]), tmp[place[q]][i].kind = "dir"
      PROVE  Append(q, tmp[place[q]][i].name) \in P
  <2>1. Leads(tmp, P, place, q, i)
    BY DEF Volume, EntriesLead
  <2> QED  BY <1>2, <2>1 DEF Leads
<1>3. Lacks(tmp, P, place, P, target)
  BY <1>2 DEF Lacks
<1>4. Misses(h, NumClusters, place, P)
  BY <1>1, <1>3, ScanMisses, ClusterAssumption
<1>5. <<>> \in P /\ place[<<>>] = Root
  BY DEF Volume, Situated
<1> QED  BY <1>1, <1>4, <1>5 DEF Misses

-----------------------------------------------------------------------------
(* The way to a directory.                                                 *)

Prefix(q, p) == Len(q) <= Len(p) /\ q = SubSeq(p, 1, Len(q))

\* The next part of a path below a prefix of it.
LEMMA PrefixStep ==
    ASSUME NEW S, NEW p \in Seq(S), NEW q \in Seq(S), Prefix(q, p), q # p
    PROVE  LET r == SubSeq(p, 1, Len(q) + 1)
           IN  /\ Len(q) < Len(p)
               /\ r \in Seq(S) /\ r # <<>> /\ Len(r) = Len(q) + 1
               /\ Prefix(r, p) /\ Parent(r) = q
               /\ \A x \in S : Prefix(Append(q, x), p) => Append(q, x) = r
<1> DEFINE r == SubSeq(p, 1, Len(q) + 1)
<1>1. /\ Len(q) \in Nat /\ Len(p) \in Nat /\ Len(q) <= Len(p) /\ q = SubSeq(p, 1, Len(q))
      /\ SubSeq(p, 1, Len(p)) = p
  BY DEF Prefix
<1>2. Len(q) < Len(p)
  BY <1>1
<1>3. /\ r \in Seq(S) /\ Len(r) = Len(q) + 1
      /\ \A k \in 1..Len(q) + 1 : r[k] = p[k]
  BY <1>1, <1>2
<1>4. r # <<>> /\ Prefix(r, p)
  BY <1>1, <1>2, <1>3 DEF Prefix
<1>5. Parent(r) = q
  <2> HIDE DEF r
  <2>1. Parent(r) \in Seq(S) /\ Len(Parent(r)) = Len(q)
        /\ \A k \in 1..Len(q) : Parent(r)[k] = r[k]
    BY <1>1, <1>3 DEF Parent
  <2>2. \A k \in 1..Len(q) : q[k] = p[k]
    BY <1>1
  <2> QED  BY <1>1, <1>3, <2>1, <2>2, SeqEqual
<1>6. ASSUME NEW x \in S, Prefix(Append(q, x), p) PROVE Append(q, x) = r
  <2>1. Len(Append(q, x)) = Len(q) + 1
    OBVIOUS
  <2> QED  BY <1>6, <2>1 DEF Prefix
<1> QED  BY <1>2, <1>3, <1>4, <1>5, <1>6

\* What is a prefix of a path, and what is not.
LEMMA PrefixParts ==
    ASSUME NEW S, NEW p \in Seq(S), NEW q \in Seq(S), NEW x \in S
    PROVE  /\ Prefix(p, p) /\ Prefix(<<>>, p)
           /\ ~Prefix(Append(p, x), p)
           /\ Prefix(Append(q, x), p) => Prefix(q, p)
<1>1. Prefix(p, p) /\ Prefix(<<>>, p) /\ ~Prefix(Append(p, x), p)
  BY DEF Prefix
<1>2. ASSUME Prefix(Append(q, x), p) PROVE Prefix(q, p)
  <2> DEFINE r == Append(q, x)
  <2>1. /\ Len(r) = Len(q) + 1 /\ Len(q) \in Nat /\ Len(p) \in Nat
        /\ \A k \in 1..Len(q) : r[k] = q[k]
    OBVIOUS
  <2>2. Len(r) <= Len(p) /\ r = SubSeq(p, 1, Len(r))
    BY <1>2 DEF Prefix
  <2>3. \A k \in 1..Len(r) : r[k] = p[k]
    BY <2>1, <2>2
  <2>4. /\ SubSeq(p, 1, Len(q)) \in Seq(S) /\ Len(SubSeq(p, 1, Len(q))) = Len(q)
        /\ \A k \in 1..Len(q) : SubSeq(p, 1, Len(q))[k] = p[k]
    BY <2>1, <2>2
  <2>5. q = SubSeq(p, 1, Len(q))
    BY <2>1, <2>3, <2>4, SeqEqual
  <2> QED  BY <2>1, <2>2, <2>5 DEF Prefix
<1> QED  BY <1>1, <1>2

\* The directories on the way to one of a tree are of the tree.
LEMMA WayInTree ==
    ASSUME NEW P, NEW place, Situated(P, place), NEW p \in P
    PROVE  \A k \in 0..Len(p) : SubSeq(p, 1, k) \in P
<1> DEFINE T == {j \in Nat : j <= Len(p) => SubSeq(p, 1, Len(p) - j) \in P}
<1>1. p \in Seq(Names) /\ Len(p) \in Nat
  BY DEF Situated
<1>2. 0 \in T
  <2>1. Len(p) - 0 = Len(p) /\ SubSeq(p, 1, Len(p)) = p
    BY <1>1
  <2> QED  BY <2>1
<1>3. ASSUME NEW j \in Nat, j \in T PROVE j + 1 \in T
  <2> SUFFICES ASSUME j + 1 <= Len(p) PROVE SubSeq(p, 1, Len(p) - (j + 1)) \in P
    OBVIOUS
  <2> DEFINE r == SubSeq(p, 1, Len(p) - j)
             l == Len(p) - (j + 1)
  <2>1. r \in P /\ l \in Nat /\ Len(p) - j = l + 1 /\ l < Len(p)
    BY <1>1, <1>3
  <2>2. r \in Seq(Names) /\ Len(r) = l + 1 /\ \A k \in 1..l + 1 : r[k] = p[k]
    BY <1>1, <2>1
  <2> HIDE DEF r
  <2>3. /\ Parent(r) \in Seq(Names) /\ Len(Parent(r)) = l
        /\ \A k \in 1..l : Parent(r)[k] = r[k]
    <3>1. Parent(r) = SubSeq(r, 1, l)
      BY <2>1, <2>2 DEF Parent
    <3> HIDE DEF l
    <3> QED  BY <2>1, <2>2, <3>1
  <2> HIDE DEF l
  <2>4. /\ SubSeq(p, 1, l) \in Seq(Names) /\ Len(SubSeq(p, 1, l)) = l
        /\ \A k \in 1..l : SubSeq(p, 1, l)[k] = p[k]
    BY <1>1, <2>1
  <2>5. Parent(r) = SubSeq(p, 1, l)
    BY <2>1, <2>2, <2>3, <2>4, SeqEqual
  <2>6. r # <<>>
    BY <2>1, <2>2
  <2> QED  BY <2>1, <2>5, <2>6 DEF Situated, l
<1> HIDE DEF T
<1>4. \A j \in Nat : j \in T
  BY <1>2, <1>3, Induction
<1>5. ASSUME NEW k \in 0..Len(p) PROVE SubSeq(p, 1, k) \in P
  <2>1. Len(p) - k \in Nat /\ Len(p) - k <= Len(p) /\ Len(p) - (Len(p) - k) = k
    BY <1>1
  <2> QED  BY <1>4, <2>1 DEF T
<1> QED  BY <1>5

\* The search finds the entry i of the directory at p from each directory on the way.
Finds(h, n, P, place, p, i) ==
    \A q \in P : Prefix(q, p) /\ Len(p) - Len(q) <= n => h[n][place[q]] = <<place[p], i>>

OffTheWay(P, p) == {q \in P : ~Prefix(q, p)}

\* No directory off the way to an entry holds another of its cluster.
LEMMA OffTheWayLacks ==
    ASSUME NEW tmp, NEW P, NEW place, Volume(tmp, P, place),
           NEW p \in P, NEW i \in Visible(tmp[place[p]]), tmp[place[p]][i].clus # 0
    PROVE  Lacks(tmp, P, place, OffTheWay(P, p), tmp[place[p]][i].clus)
<1>1. p \in Seq(Names) /\ P \subseteq Seq(Names)
  BY DEF Volume, Situated
<1>2. Alone(tmp, P, place, p, i)
  BY DEF Volume, StartsOnce
<1>3. Prefix(p, p)
  BY <1>1, PrefixParts DEF Prefix
<1>4. ASSUME NEW q \in OffTheWay(P, p), NEW j \in Visible(tmp[place[q]])
      PROVE  /\ tmp[place[q]][j].clus # tmp[place[p]][i].clus
             /\ tmp[place[q]][j].kind = "dir"
                   => Append(q, tmp[place[q]][j].name) \in OffTheWay(P, p)
  <2>1. q \in P /\ ~Prefix(q, p) /\ q \in Seq(Names)
    BY <1>1 DEF OffTheWay
  <2>2. tmp[place[q]][j].clus # tmp[place[p]][i].clus
    BY <1>2, <1>3, <2>1 DEF Alone
  <2>3. ASSUME tmp[place[q]][j].kind = "dir"
        PROVE  Append(q, tmp[place[q]][j].name) \in OffTheWay(P, p)
    <3>1. Leads(tmp, P, place, q, j)
      BY <2>1 DEF Volume, EntriesLead
    <3>2. Append(q, tmp[place[q]][j].name) \in P
      BY <2>3, <3>1 DEF Leads
    <3>3. j \in Slots
      BY DEF Visible
    <3>4. tmp[place[q]][j].name \in Names
      BY <2>1, <3>3 DEF Volume, NamesListed
    <3>5. ~Prefix(Append(q, tmp[place[q]][j].name), p)
      BY <1>1, <2>1, <3>4, PrefixParts
    <3> QED  BY <3>2, <3>5 DEF OffTheWay
  <2> QED  BY <2>2, <2>3
<1> QED  BY <1>4 DEF Lacks, OffTheWay

\* What below must answer so that the directory at q answers right.
LEMMA FoundHere ==
    ASSUME NEW tmp, NEW P, NEW place, Volume(tmp, P, place),
           NEW p \in P, NEW i \in Visible(tmp[place[p]]), tmp[place[p]][i].clus # 0,
           NEW g, \A d \in OffTheWay(P, p) : g[place[d]] = NOT_FOUND
    PROVE  search_directory(tmp, tmp[place[p]][i].clus, g, place[p]) = <<place[p], i>>
<1> DEFINE s == tmp[place[p]]
           target == tmp[place[p]][i].clus
           R(j) == IF s[j].clus = target THEN <<place[p], j>>
                   ELSE IF s[j].kind = "dir" THEN g[s[j].clus] ELSE NOT_FOUND
<1>1. Alone(tmp, P, place, p, i)
  BY DEF Volume, StartsOnce
<1>2. R(i) = <<place[p], i>> /\ <<place[p], i>> # NOT_FOUND
  BY DEF NOT_FOUND
<1>3. ASSUME NEW j \in Visible(s), j # i PROVE R(j) = NOT_FOUND
  <2>1. s[j].clus # target
    BY <1>1, <1>3 DEF Alone
  <2>2. CASE s[j].kind # "dir"  BY <2>1, <2>2
  <2>3. CASE s[j].kind = "dir"
    <3>1. Leads(tmp, P, place, p, j)
      BY DEF Volume, EntriesLead
    <3>2. Append(p, s[j].name) \in P /\ place[Append(p, s[j].name)] = s[j].clus
      BY <2>3, <3>1 DEF Leads
    <3>3. p \in Seq(Names) /\ s[j].name \in Names
      BY DEF Volume, Situated, NamesListed, Visible
    <3>4. Append(p, s[j].name) \in OffTheWay(P, p)
      BY <3>2, <3>3, PrefixParts DEF OffTheWay
    <3> QED  BY <2>1, <2>3, <3>2, <3>4
  <2> QED  BY <2>2, <2>3
<1>4. SearchCases(tmp, place, p, target, g)
  BY SearchedSlots
<1> QED  BY <1>2, <1>3, <1>4 DEF SearchCases

\* A directory on the way to an entry answers what the next one below it does.
LEMMA FoundBelow ==
    ASSUME NEW tmp, NEW P, NEW place, Volume(tmp, P, place),
           NEW p \in P, NEW i \in Visible(tmp[place[p]]), tmp[place[p]][i].clus # 0,
           NEW q \in P, Prefix(q, p), q # p,
           NEW g, \A d \in OffTheWay(P, p) : g[place[d]] = NOT_FOUND,
           g[place[SubSeq(p, 1, Len(q) + 1)]] = <<place[p], i>>
    PROVE  search_directory(tmp, tmp[place[p]][i].clus, g, place[q]) = <<place[p], i>>
<1> DEFINE s == tmp[place[q]]
           target == tmp[place[p]][i].clus
           R(j) == IF s[j].clus = target THEN <<place[q], j>>
                   ELSE IF s[j].kind = "dir" THEN g[s[j].clus] ELSE NOT_FOUND
           r == SubSeq(p, 1, Len(q) + 1)
<1>1. Alone(tmp, P, place, p, i)
  BY DEF Volume, StartsOnce
<1>2. p \in Seq(Names) /\ q \in Seq(Names) /\ P \subseteq Seq(Names) /\ Situated(P, place)
  BY DEF Volume, Situated
<1>3. /\ r # <<>> /\ Parent(r) = q /\ Prefix(r, p)
      /\ \A x \in Names : Prefix(Append(q, x), p) => Append(q, x) = r
      /\ Len(q) + 1 \in 0..Len(p)
  <2>1. /\ r # <<>> /\ Parent(r) = q /\ Prefix(r, p) /\ Len(q) < Len(p)
        /\ \A x \in Names : Prefix(Append(q, x), p) => Append(q, x) = r
    BY <1>2, PrefixStep
  <2> QED  BY <1>2, <2>1
<1>4. r \in P
  BY <1>2, <1>3, WayInTree
<1> HIDE DEF r
<1>5. PICK k \in Visible(s) : s[k].kind = "dir" /\ s[k].clus = place[r] /\ s[k].clus # 0
  BY <1>3, <1>4, DirectoryEntry, SMTT(30)
<1>6. \A j \in Visible(s) : s[j].clus # target
  BY <1>1 DEF Alone
<1>7. R(k) = <<place[p], i>> /\ <<place[p], i>> # NOT_FOUND
  BY <1>5, <1>6 DEF NOT_FOUND, r
<1>8. ASSUME NEW j \in Visible(s), j # k PROVE R(j) = NOT_FOUND
  <2>1. CASE s[j].kind # "dir"  BY <1>6, <2>1
  <2>2. CASE s[j].kind = "dir"
    <3>1. Leads(tmp, P, place, q, j)
      BY DEF Volume, EntriesLead
    <3>2. Append(q, s[j].name) \in P /\ place[Append(q, s[j].name)] = s[j].clus /\ s[j].clus # 0
      BY <2>2, <3>1 DEF Leads
    <3>3. s[j].name \in Names
      BY DEF Volume, NamesListed, Visible
    <3>4. Append(q, s[j].name) # r
      <4>1. Alone(tmp, P, place, q, j)
        BY <3>2 DEF Volume, StartsOnce
      <4>2. s[k].clus # s[j].clus
        BY <1>8, <4>1 DEF Alone
      <4> QED  BY <1>5, <3>2, <4>2
    <3>5. Append(q, s[j].name) \in OffTheWay(P, p)
      BY <1>3, <3>2, <3>3, <3>4 DEF OffTheWay
    <3> QED  BY <1>6, <2>2, <3>2, <3>5
  <2> QED  BY <2>1, <2>2
<1>9. SearchCases(tmp, place, q, target, g)
  BY SearchedSlots
<1> QED  BY <1>7, <1>8, <1>9 DEF SearchCases

\* With a bound of n, the search of a directory on the way finds an entry up to n levels below it.
LEMMA ScanFinds ==
    ASSUME NEW tmp, NEW P, NEW place, Volume(tmp, P, place),
           NEW p \in P, NEW i \in Visible(tmp[place[p]]), tmp[place[p]][i].clus # 0,
           NEW h, ScansBy(h, tmp, tmp[place[p]][i].clus)
    PROVE  \A n \in 0..NumClusters : Finds(h, n, P, place, p, i)
<1> DEFINE target == tmp[place[p]][i].clus
           D == OffTheWay(P, p)
           T == {n \in Nat : n <= NumClusters => Finds(h, n, P, place, p, i)}
<1>1. /\ NumClusters \in Nat /\ P \subseteq Seq(Names) /\ Situated(P, place)
      /\ place \in [P -> Cluster]
  BY ClusterAssumption DEF Volume, Situated
<1>2. \A n \in 0..NumClusters : Misses(h, n, place, D)
  BY OffTheWayLacks, ScanMisses
<1>3. ASSUME NEW n \in 0..NumClusters, NEW g, g = IF n = 0 THEN Nowhere ELSE h[n - 1],
             \A d \in D : g[place[d]] = NOT_FOUND,
             n # 0 => Finds(h, n - 1, P, place, p, i)
      PROVE  Finds(h, n, P, place, p, i)
  <2> SUFFICES ASSUME NEW q \in P, Prefix(q, p), Len(p) - Len(q) <= n
               PROVE  h[n][place[q]] = <<place[p], i>>
    BY DEF Finds
  <2>1. h[n][place[q]] = search_directory(tmp, target, g, place[q])
    BY <1>1, <1>3 DEF ScansBy
  <2>2. CASE q = p
    BY <1>3, <2>1, <2>2, FoundHere
  <2>3. CASE q # p
    <3> DEFINE r == SubSeq(p, 1, Len(q) + 1)
    <3>1. p \in Seq(Names) /\ q \in Seq(Names)
      BY <1>1
    <3>2. Len(q) < Len(p) /\ Prefix(r, p) /\ Len(r) = Len(q) + 1
      BY <2>3, <3>1, PrefixStep
    <3>3. Len(q) + 1 \in 0..Len(p) /\ n # 0 /\ Len(p) - Len(r) <= n - 1
      BY <1>1, <3>1, <3>2
    <3>4. r \in P
      BY <1>1, <3>3, WayInTree
    <3> HIDE DEF r
    <3>5. h[n - 1][place[r]] = <<place[p], i>>
      BY <1>3, <3>2, <3>3, <3>4 DEF Finds
    <3>6. g[place[SubSeq(p, 1, Len(q) + 1)]] = <<place[p], i>>
      BY <1>3, <3>3, <3>5 DEF r
    <3> QED  BY <1>3, <2>1, <2>3, <3>6, FoundBelow
  <2> QED  BY <2>2, <2>3
<1>4. 0 \in T
  <2>1. \A d \in D : Nowhere[place[d]] = NOT_FOUND
    BY <1>1 DEF Nowhere, OffTheWay
  <2>2. Finds(h, 0, P, place, p, i)
    <3>1. 0 \in 0..NumClusters
      BY <1>1
    <3> HIDE DEF D, T
    <3> QED  BY <1>3, <2>1, <3>1
  <2> QED  BY <2>2
<1>5. ASSUME NEW m \in Nat, m \in T PROVE m + 1 \in T
  <2> SUFFICES ASSUME m + 1 <= NumClusters PROVE Finds(h, m + 1, P, place, p, i)
    OBVIOUS
  <2>1. m + 1 \in 0..NumClusters /\ m + 1 # 0 /\ (m + 1) - 1 = m /\ m \in 0..NumClusters
    BY <1>1
  <2>2. Finds(h, m, P, place, p, i)
    BY <1>5, <2>1
  <2>3. \A d \in D : h[m][place[d]] = NOT_FOUND
    BY <1>2, <2>1 DEF Misses
  <2> QED  BY <1>3, <2>1, <2>2, <2>3
<1> HIDE DEF T
<1>6. \A n \in Nat : n \in T
  BY <1>4, <1>5, Induction
<1> QED  BY <1>1, <1>6 DEF T

\* find_dir_entry_cache finds the file or directory that starts at a cluster,
\* wherever it is in the tree.
THEOREM EntryFound ==
    ASSUME NEW tmp, NEW P, NEW place, Volume(tmp, P, place),
           NEW p \in P, NEW i \in Visible(tmp[place[p]]), tmp[place[p]][i].clus # 0
    PROVE  find_dir_entry_cache(tmp, tmp[place[p]][i].clus) = <<place[p], i>>
<1> DEFINE target == tmp[place[p]][i].clus
<1>1. PICK h : ScansBy(h, tmp, target) /\ find_dir_entry_cache(tmp, target) = h[NumClusters][Root]
  BY ScanUnfolds
<1>2. /\ <<>> \in P /\ place[<<>>] = Root /\ p \in Seq(Names)
      /\ Len(p) < NumClusters
      /\ NumClusters \in 0..NumClusters
  BY ClusterAssumption DEF Volume, Situated, SectorsSaved
<1>3. Finds(h, NumClusters, P, place, p, i)
  BY <1>1, <1>2, ScanFinds
<1>4. Prefix(<<>>, p) /\ Len(p) - Len(<<>>) <= NumClusters
  BY <1>2, ClusterAssumption DEF Prefix
<1> QED  BY <1>1, <1>2, <1>3, <1>4 DEF Finds

-----------------------------------------------------------------------------
(* The search for the start of a chain unfolds.                            *)

Missed(cluster, at, off) ==
    [base |-> at, off |-> off, bcc |-> [cluster |-> cluster, base_cluster |-> at, offset |-> off]]
Helped(start, at, total) ==
    [base |-> start.base_cluster, off |-> total,
     bcc |-> [cluster |-> at, base_cluster |-> start.base_cluster, offset |-> total]]

WalksBy(h, f, start, cluster) ==
    \A left \in 0..NumClusters : \A at \in Cluster :
        h[left][at] =
            IF left = 0 \/ Predecessors(f, at) = {}
            THEN Missed(cluster, at, NumClusters - left)
            ELSE IF start.cluster = First(Predecessors(f, at))
            THEN Helped(start, at, (NumClusters - left) + 1 + start.offset)
            ELSE h[left - 1][First(Predecessors(f, at))]

\* The first predecessor is a number of the table.
LEMMA PredecessorIn ==
    ASSUME NEW f, NEW at, Predecessors(f, at) # {}
    PROVE  First(Predecessors(f, at)) \in Cluster
<1>1. Predecessors(f, at) \in SUBSET Nat
  BY ClusterAssumption DEF Predecessors
<1>2. PICK x \in Predecessors(f, at) : \A y \in Predecessors(f, at) : x <= y
  BY <1>1, LeastNatural
<1>3. First(Predecessors(f, at)) \in Predecessors(f, at)
  BY <1>2 DEF First
<1> QED  BY <1>3, ClusterAssumption DEF Predecessors, Cluster

\* The function that find_base_cluster_and_offset defines exists.
LEMMA WalkUnfolds ==
    ASSUME NEW f, NEW cache, NEW c \in Cluster, f[c] # FREE
    PROVE  \E h : /\ WalksBy(h, f, Reset(cache, c), c)
                  /\ find_base_cluster_and_offset(f, cache, c) = h[NumClusters][c]
<1> DEFINE start == Reset(cache, c)
           V == {Missed(c, at, off) : at \in Cluster, off \in Nat} \union
                {Helped(start, at, off + 1 + start.offset) : at \in Cluster, off \in Nat}
           S == [Cluster -> V]
           Value(g, left, at) ==
             IF Predecessors(f, at) = {} THEN Missed(c, at, NumClusters - left)
             ELSE IF start.cluster = First(Predecessors(f, at))
             THEN Helped(start, at, (NumClusters - left) + 1 + start.offset)
             ELSE g[First(Predecessors(f, at))]
           zero == [at \in Cluster |-> Missed(c, at, NumClusters)]
           Turn(g, left) == [at \in Cluster |-> Value(g, left, at)]
           step == [k \in 1..NumClusters |-> [g \in S |-> Turn(g, k)]]
           body(g) ==
             [left \in 0..NumClusters |->
               [at \in Cluster |->
                 IF left = 0 \/ Predecessors(f, at) = {}
                 THEN Missed(c, at, NumClusters - left)
                 ELSE IF start.cluster = First(Predecessors(f, at))
                 THEN Helped(start, at, (NumClusters - left) + 1 + start.offset)
                 ELSE g[left - 1][First(Predecessors(f, at))]]]
           walk == CHOOSE g : g = body(g)
<1>1. NumClusters \in Nat
  BY ClusterAssumption
<1>2. zero \in S
  BY <1>1
<1>3. ASSUME NEW g \in S, NEW k \in 1..NumClusters PROVE Turn(g, k) \in S
  <2> SUFFICES ASSUME NEW at \in Cluster PROVE Value(g, k, at) \in V
    OBVIOUS
  <2>1. NumClusters - k \in Nat
    BY <1>1
  <2>2. Missed(c, at, NumClusters - k) \in V
    BY <2>1
  <2>3. Helped(start, at, (NumClusters - k) + 1 + start.offset) \in V
    BY <2>1
  <2>4. Predecessors(f, at) # {} => g[First(Predecessors(f, at))] \in V
    BY PredecessorIn
  <2> HIDE DEF V
  <2> QED  BY <2>2, <2>3, <2>4
<1>4. step \in [1..NumClusters -> [S -> S]]
  <2> HIDE DEF S, Turn
  <2> QED  BY <1>3
<1>5. PICK h : Iterates(h, NumClusters, S, zero, step)
  <2> HIDE DEF S, zero, step
  <2> QED  BY <1>1, <1>2, <1>4, Recursion
<1>6. ASSUME NEW n \in 0..NumClusters
      PROVE  h[n] = IF n = 0 THEN zero ELSE Turn(h[n - 1], n)
  <2> HIDE DEF S, zero, Turn
  <2>1. h \in [0..NumClusters -> S] /\ h[0] = zero
    BY <1>1, <1>5 DEF Iterates
  <2>2. ASSUME n # 0 PROVE h[n] = Turn(h[n - 1], n)
    <3>1. n \in 1..NumClusters /\ n - 1 \in 0..NumClusters
      BY <1>1, <2>2
    <3>2. h[n] = step[n][h[n - 1]] /\ h[n - 1] \in S
      BY <1>5, <2>1, <3>1 DEF Iterates
    <3> QED  BY <3>1, <3>2
  <2> QED  BY <2>1, <2>2
<1>7. h = body(h)
  <2>1. ASSUME NEW n \in 0..NumClusters PROVE h[n] = body(h)[n]
    <3>1. CASE n = 0
      <4>1. NumClusters - n = NumClusters
        BY <1>1, <3>1
      <4> QED  BY <1>6, <3>1, <4>1
    <3>2. CASE n # 0
      <4>1. h[n] = [at \in Cluster |-> Value(h[n - 1], n, at)]
        BY <1>6, <3>2
      <4> QED  BY <3>2, <4>1
    <3> QED  BY <3>1, <3>2
  <2>2. h = [n \in 0..NumClusters |-> h[n]]
    <3> HIDE DEF S, zero, step
    <3> QED  BY <1>5 DEF Iterates
  <2>3. body(h) = [n \in 0..NumClusters |-> body(h)[n]]
    OBVIOUS
  <2> HIDE DEF body
  <2> QED  BY <2>1, <2>2, <2>3
<1>8. walk = body(walk)
  <2> HIDE DEF body
  <2> QED  BY <1>7
<1>9. find_base_cluster_and_offset(f, cache, c) = walk[NumClusters][c]
  <2>1. ~(c > NumClusters \/ f[c] = FREE)
    BY <1>1 DEF Cluster
  <2> QED  BY <2>1 DEF find_base_cluster_and_offset, Missed, Helped
<1>10. ASSUME NEW n \in 0..NumClusters, NEW at \in Cluster
       PROVE  walk[n][at] = IF n = 0 \/ Predecessors(f, at) = {}
                            THEN Missed(c, at, NumClusters - n)
                            ELSE IF start.cluster = First(Predecessors(f, at))
                            THEN Helped(start, at, (NumClusters - n) + 1 + start.offset)
                            ELSE walk[n - 1][First(Predecessors(f, at))]
  <2> HIDE DEF walk
  <2>1. walk[n][at] = body(walk)[n][at]
    BY <1>8
  <2> QED  BY <2>1
<1>11. WalksBy(walk, f, start, c)
  <2> HIDE DEF walk, start
  <2> QED  BY <1>10 DEF WalksBy
<1> HIDE DEF walk
<1> QED  BY <1>9, <1>11

\* A cluster nothing points to is the start of its chain, whatever the last
\* search found.
LEMMA ChainStart ==
    ASSUME NEW f, NEW cache, NEW c \in Cluster, f[c] # FREE, Predecessors(f, c) = {}
    PROVE  find_base_cluster_and_offset(f, cache, c) = Missed(c, c, 0)
<1>1. PICK h : /\ WalksBy(h, f, Reset(cache, c), c)
               /\ find_base_cluster_and_offset(f, cache, c) = h[NumClusters][c]
  BY WalkUnfolds
<1>2. NumClusters \in 0..NumClusters /\ NumClusters - NumClusters = 0
  BY ClusterAssumption
<1>3. h[NumClusters][c] = Missed(c, c, NumClusters - NumClusters)
  BY <1>1, <1>2 DEF WalksBy
<1> QED  BY <1>1, <1>2, <1>3

\* The answer of the search for a cluster at an offset in the chain from base.
Where(base, offset, cluster) ==
    [base |-> base, off |-> offset,
     bcc |-> [cluster |-> cluster, base_cluster |-> base, offset |-> offset]]
=============================================================================
