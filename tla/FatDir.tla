------------------------------- MODULE FatDir -------------------------------
(***************************************************************************)
(* Pure definitions of mimic_fat.c: FAT values, directory sectors, the     *)
(* littlefs calls the driver makes, the difference of two versions of a    *)
(* directory sector, and the searches that turn a cluster number back into *)
(* a littlefs path.                                                        *)
(*                                                                         *)
(* A directory entry carries the name littlefs knows it by (the long name  *)
(* when LFN slots precede it); ShortOf gives the 11 bytes of DIR_Name,     *)
(* which is all that difference_of_dir_entry compares.  Sizes count blocks *)
(* of 512 bytes.                                                           *)
(***************************************************************************)
EXTENDS Naturals, Sequences, FiniteSets

CONSTANTS
    NumClusters,    \* cluster_size(): the number of clusters of the disk
    NumSlots,       \* entries of a directory sector (16 in the code)
    Names,          \* names of files and directories in littlefs
    ShortOf,        \* the 8.3 alias of each name
    Values,         \* contents of one block of a file
    NoName,         \* the name of an entry that has none
    Zero,           \* a block littlefs filled with zeros
    Raw,            \* a block that holds the bytes of a directory sector
    DIR             \* what lfs maps a directory to

ASSUME ClusterAssumption == NumClusters \in Nat /\ NumClusters >= 2
ASSUME SlotAssumption    == NumSlots \in Nat /\ NumSlots >= 3
ASSUME NamesAssumption   == NoName \notin Names

-----------------------------------------------------------------------------
FREE  == 0      \* an unallocated cluster
MEDIA == 4088   \* 0xFF8, the entry of cluster 0; all values from here end a chain
EOC   == 4095   \* 0xFFF

Root     == 1
Cluster  == 0..NumClusters
FatValue == Cluster \union {MEDIA, EOC}
Fat      == [Cluster -> FatValue]
\* FAT12: no cluster has the number of a mark.
TableFits == NumClusters < MEDIA
EndsChain(v) == v = FREE \/ v >= MEDIA

\* The clusters a host visits when it follows the table from c, as long as
\* they are on the disk.
ChainOf(f, c) ==
    LET chain[left \in 0..NumClusters] ==
          [at \in Cluster |->
              IF left = 0 \/ at < 2 THEN <<>>
              ELSE IF EndsChain(f[at]) \/ f[at] \notin Cluster THEN <<at>>
              ELSE <<at>> \o chain[left - 1][f[at]]]
    IN  chain[NumClusters][c]

Slots == 1..NumSlots
Kinds == {"blank", "label", "dot", "dotdot", "file", "dir"}
Entry == [kind : Kinds, name : Names \union {NoName}, del : BOOLEAN,
          clus : Cluster, size : Nat]
Sector == [Slots -> Entry]
Block  == Values \union {Zero, Raw}
ASSUME DirAssumption == DIR \notin Seq(Block)

entry(k, n, c, s) == [kind |-> k, name |-> n, del |-> FALSE, clus |-> c, size |-> s]
Blank == entry("blank", NoName, 0, 0)

SameName(a, b) == /\ a.del = b.del
                  /\ (a.name = NoName) = (b.name = NoName)
                  /\ a.name # NoName => ShortOf[a.name] = ShortOf[b.name]
\* Variation: the cluster does not count.
SameSize(a, b) == a.size = b.size
SameData(a, b) == a.clus = b.clus /\ a.size = b.size

\* The slots a forward scan sees: it stops at the first never used entry.
Seen(s) == {i \in Slots : \A k \in 1..i : s[k].kind # "blank"}

First(S) == CHOOSE i \in S : \A k \in S : i <= k

\* create_blank_dir_entry_cache: what mkdir leaves in the new cluster.
BlankDirectory(c, parent) ==
    [i \in Slots |-> CASE i = 1 -> entry("dot", NoName, c, 0)
                       [] i = 2 -> entry("dotdot", NoName, IF parent = Root THEN 0 ELSE parent, 0)
                       [] OTHER -> Blank]

-----------------------------------------------------------------------------
(* littlefs: a function from paths (sequences of names) to DIR or to the   *)
(* blocks of a file.  The root <<>> always exists and is not in the domain.*)

Parent(p) == SubSeq(p, 1, Len(p) - 1)
IsDir(fs, p)  == p = <<>> \/ (p \in DOMAIN fs /\ fs[p] = DIR)
IsFile(fs, p) == p \in DOMAIN fs /\ fs[p] # DIR
Creatable(fs, p) == p # <<>> /\ p \notin DOMAIN fs /\ IsDir(fs, Parent(p))
Openable(fs, p)  == IsFile(fs, p) \/ Creatable(fs, p)

Put(fs, p, x) == [q \in DOMAIN fs \union {p} |-> IF q = p THEN x ELSE fs[q]]

\* littlefs_remove: "" is refused, lfs_remove refuses a directory in use.
littlefs_remove(fs, p) ==
    IF p \in DOMAIN fs /\ \A q \in DOMAIN fs : q # <<>> => (q = p \/ Parent(q) # p)
    THEN [q \in DOMAIN fs \ {p} |-> fs[q]] ELSE fs

littlefs_mkdir(fs, p) == IF Creatable(fs, p) THEN Put(fs, p, DIR) ELSE fs

\* Blocks written over the beginning of a file, and lfs_file_truncate.
Overlay(old, data) ==
    [k \in 1..(IF Len(data) > Len(old) THEN Len(data) ELSE Len(old)) |->
        IF k <= Len(data) THEN data[k] ELSE old[k]]
\* Variation: the file keeps the size its blocks give it.
Untruncated(data, n) == data
Truncate(data, n) == [k \in 1..n |-> IF k <= Len(data) THEN data[k] ELSE Zero]

\* A block written at an offset past the end leaves a hole of zeros.
WriteAt(old, off, x) ==
    [k \in 1..(IF off + 1 > Len(old) THEN off + 1 ELSE Len(old)) |->
        IF k = off + 1 THEN x ELSE IF k <= Len(old) THEN old[k] ELSE Zero]

-----------------------------------------------------------------------------
(* difference_of_dir_entry: for each slot of the new sector, the slot of   *)
(* the old one it puts on the delete list (0 for none), and whether it     *)
(* goes on the update list.                                                *)

\* An entry marked 0xE5: the old file with its cluster and size, wherever
\* that is, or the old directory in the same slot.
DeletedBy(orig, new, i) ==
    {j \in Slots :
        /\ orig[j].kind # "label"
        /\ ~orig[j].del
        /\ \/ SameData(new[i], orig[j]) /\ new[i].size # 0
           \/ /\ i = j
              /\ orig[j].kind \in {"dot", "dotdot", "dir"}
              /\ new[i].clus = orig[j].clus
              /\ new[i].size = 0}

Comparable(e) == e.kind \notin {"label", "dot", "dotdot"}

\* Variation: a rename in place is not seen.
SameOnly(orig, new, i) ==
    {j \in Slots : /\ Comparable(orig[j])
                   /\ SameData(new[i], orig[j])
                   /\ SameName(new[i], orig[j])}

\* The first old slot that stops the scan for a live entry: the same entry,
\* or the entry of the same slot under another name.
Stops(orig, new, i) ==
    {j \in Slots : /\ Comparable(orig[j])
                   /\ SameData(new[i], orig[j])
                   /\ SameName(new[i], orig[j]) \/ i = j}

difference_of_dir_entry(orig, new, touched) ==
    LET changed == touched \/ orig # new
        Del(i) == IF new[i].del THEN DeletedBy(orig, new, i)
                  ELSE {j \in Stops(orig, new, i) :
                           /\ j = i
                           /\ ~SameName(new[i], orig[i])
                           /\ \A k \in Stops(orig, new, i) : i <= k}
        Same(i) == /\ Stops(orig, new, i) # {}
                   /\ SameName(new[i], orig[First(Stops(orig, new, i))])
    IN  [del |-> [i \in Slots |->
                    IF changed /\ Comparable(new[i]) /\ Del(i) # {} THEN First(Del(i)) ELSE 0],
         upd |-> {i \in Slots : /\ changed
                                /\ Comparable(new[i])
                                /\ ~new[i].del
                                /\ ~Same(i)}]

-----------------------------------------------------------------------------
(* The temporary files: tmp maps a cluster to the sector or block last     *)
(* written there.                                                          *)

HasDirectory(tmp, c) == c \in DOMAIN tmp /\ tmp[c] \in Sector
\* Variation: deleted entries count.
AnySeen(s, i) == i \in Seen(s)
Live(s, i) == i \in Seen(s) /\ ~s[i].del

\* Variation: cluster 0 does not stand for the root.
RootlessParent(s) ==
    IF \E i \in Seen(s) : s[i].kind = "dotdot"
    THEN s[First({i \in Seen(s) : s[i].kind = "dotdot"})].clus ELSE 0

\* What the ".." entry of a directory leads to; 0 stands for the driver's -1,
\* set by the volume label of the root.
ParentOf(s) ==
    IF \E i \in Seen(s) : s[i].kind = "dotdot"
    THEN LET c == s[First({i \in Seen(s) : s[i].kind = "dotdot"})].clus
         IN  IF c = 0 THEN Root ELSE c
    ELSE 0

\* The locals of the two climbs: the directory, the cluster looked for in it,
\* and the path found so far.
Climb == [at : Cluster, target : Cluster, path : Seq(Names \union {NoName})]

Starting(s, kinds, target) ==
    {i \in Slots : Live(s, i) /\ s[i].kind \in kinds /\ s[i].clus = target}

\* One level of restore_file_from: a directory goes in front of the path, a
\* file starts it, a level with no match adds "".
FileLevel(s, x) ==
    LET hits == Starting(s, {"file", "dir"}, x.target)
        hit  == s[First(hits)]
    IN  [at     |-> ParentOf(s),
         target |-> x.at,
         path   |-> IF hits = {} THEN x.path
                    ELSE IF hit.kind = "dir" THEN <<hit.name>> \o x.path
                    ELSE <<hit.name>>]

\* The loop of both climbs, up to the root or to a directory that was not saved.
climb_from(tmp, level, directory, target) ==
    LET climb[n \in 0..NumClusters] ==
          [x \in Climb |-> IF n = 0 \/ x.at = 0 \/ ~HasDirectory(tmp, x.at) THEN x.path
                           ELSE climb[n - 1][level[x]]]
    IN  climb[NumClusters][[at |-> directory, target |-> target, path |-> <<>>]]

\* restore_file_from: climb from the directory, each level looking for the
\* file, then for the directory just left.
restore_file_from(tmp, directory, target) ==
    climb_from(tmp, [x \in Climb |-> FileLevel(tmp[x.at], x)], directory, target)

\* One level of restore_directory_from: with no match it keeps looking for
\* the same cluster further up.
DirectoryLevel(s, x) ==
    LET hits == Starting(s, {"dir"}, x.target)
    IN  [at     |-> ParentOf(s),
         target |-> IF hits = {} THEN x.target ELSE x.at,
         path   |-> IF hits = {} THEN x.path ELSE <<s[First(hits)].name>> \o x.path]

restore_directory_from(tmp, directory, target) ==
    climb_from(tmp, [x \in Climb |-> DirectoryLevel(tmp[x.at], x)], directory, target)

NOT_FOUND == <<>>
ERROR     == <<0>>
Nowhere   == [c \in Cluster |-> NOT_FOUND]

\* One directory of the search: the first entry that starts at target, or that
\* is a directory with such an entry below, which below tells.
search_directory(tmp, target, below, base) ==
    LET s == tmp[base]
        Result(i) == IF s[i].clus = target THEN <<base, i>>
                     ELSE IF s[i].kind = "dir" THEN below[s[i].clus]
                     ELSE NOT_FOUND
        hits == {i \in Slots : /\ i >= (IF base = Root THEN 2 ELSE 3)
                               /\ Live(s, i)
                               /\ s[i].kind # "dotdot"
                               /\ Result(i) # NOT_FOUND}
    IN  IF ~HasDirectory(tmp, base) THEN ERROR
        ELSE IF hits = {} THEN NOT_FOUND
        ELSE Result(First(hits))

\* find_dir_entry_cache: depth-first search below the root for the entry that
\* starts at target.  A pair of Cluster \X Slots is FOUND.
find_dir_entry_cache(tmp, target) ==
    LET scan[n \in 0..NumClusters] ==
          [base \in Cluster |->
              search_directory(tmp, target, IF n = 0 THEN Nowhere ELSE scan[n - 1], base)]
    IN  scan[NumClusters][Root]

Found(r) == r \in Cluster \X Slots

-----------------------------------------------------------------------------
(* find_base_cluster_and_offset, with the cache of the last search.        *)

NoBase == [cluster |-> 0, base_cluster |-> 0, offset |-> 0]

\* Variation: the search leaves out the last clusters.
OneShort(f, c) == {i \in 0..NumClusters - 2 : f[i] = c /\ ~EndsChain(f[i])}
Predecessors(f, c) == {i \in 0..NumClusters - 1 : f[i] = c /\ ~EndsChain(f[i])}

\* Variation: the cache of another chain is kept.
NeverReset(cache, cluster) == cache

\* The last search helps the search for the next cluster only.
Reset(cache, cluster) == IF cache.cluster + 1 = cluster THEN cache ELSE NoBase

find_base_cluster_and_offset(f, cache, cluster) ==
    LET start == Reset(cache, cluster)
        Miss(at, off) == [base |-> at, off |-> off,
                          bcc |-> [cluster |-> cluster, base_cluster |-> at, offset |-> off]]
        walk[left \in 0..NumClusters] ==
            [at \in Cluster |->
                LET off == NumClusters - left
                    i == First(Predecessors(f, at))
                    total == off + 1 + start.offset
                IN  IF left = 0 \/ Predecessors(f, at) = {} THEN Miss(at, off)
                    ELSE IF start.cluster = i
                    THEN [base |-> start.base_cluster, off |-> total,
                          bcc |-> [cluster |-> at, base_cluster |-> start.base_cluster,
                                  offset |-> total]]
                    ELSE walk[left - 1][i]]
    IN  IF cluster > NumClusters \/ f[cluster] = FREE
        THEN [base |-> 0, off |-> 0, bcc |-> cache]
        ELSE walk[NumClusters][cluster]
=============================================================================
