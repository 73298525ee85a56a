------------------------------ MODULE FatBuild ------------------------------
(***************************************************************************)
(* mimic_fat_create_cache: at each mount the driver forgets the temporary  *)
(* files, clears the table, and walks littlefs to give every file a chain  *)
(* and every directory a sector.  One entry is one step; frames is the     *)
(* stack of the calls of create_dir_entry_cache.  The model does not say   *)
(* in which order littlefs lists the names of a directory.                 *)
(*                                                                         *)
(* bulk_update_fat is what FatChain says; Fat12 shows that its bytes are.  *)
(***************************************************************************)
EXTENDS MimicFat, FatTree

CONSTANTS
    Trees,          \* what littlefs may hold at the mount
    Shown,          \* the name the slots of an entry give back: see NameSlots
    SectorBytes     \* bytes of a sector of the table (512)

ASSUME SectorBytesAssumption == SectorBytes \in Nat /\ SectorBytes >= 3
ASSUME TreesAssumption ==
    \A t \in Trees : \A p \in DOMAIN t :
        \/ t[p] = DIR
        \/ Len(t[p]) \in Nat /\ t[p] = [k \in 1..Len(t[p]) |-> t[p][k]]
\* littlefs holds finitely many names, each in a directory.
ASSUME TreesClosedAssumption ==
    \A t \in Trees :
        /\ IsFiniteSet(DOMAIN t)
        /\ DOMAIN t \subseteq Seq(Names)
        /\ \A p \in DOMAIN t : /\ p # <<>>
                              /\ \/ Parent(p) = <<>>
                                 \/ Parent(p) \in DOMAIN t /\ t[Parent(p)] = DIR

VARIABLES
    frames,     \* the calls of create_dir_entry_cache, the root's first
    listing,    \* the arrays dir_entry, by the cluster of their directory
    allocated   \* *allocated_cluster

buildvars == <<frames, listing, allocated>>

-----------------------------------------------------------------------------
INSTANCE FatChain

\* Variation: the length of the chain is forgotten.
StartOnly(start, n) == start

\* What bulk_update_fat returns: one more than the cluster after the chain.
LastReserved(start, n) == start + n + 1

EmptyFat == [c \in Cluster |-> CASE c = 0 -> MEDIA [] c = Root -> EOC [] OTHER -> FREE]

Kids(t, p)  == {n \in Names : Append(p, n) \in DOMAIN t}
Children(p) == Kids(lfs, p)

\* Variation: every ".." leads to the root.
RootDots(c, parent) == <<entry("dot", NoName, c, 0), entry("dotdot", NoName, 0, 0)>>

Dots(c, parent) == <<entry("dot", NoName, c, 0),
                     entry("dotdot", NoName, IF parent = Root THEN 0 ELSE parent, 0)>>

Frame(p, c) == [path |-> p, cluster |-> c, left |-> Children(p)]
Top == frames[Len(frames)]

Without(n) == [frames EXCEPT ![Len(frames)].left = @ \ {n}]

Listed(e) == [listing EXCEPT ![Top.cluster] = Append(@, e)]

-----------------------------------------------------------------------------
\* mimic_fat_cleanup_cache, init_fat, and the call for the root.
StartBuild ==
    /\ frames = <<>>
    /\ pc = "ready"
    /\ tmp' = [c \in {} |-> NoSector]
    /\ fat' = EmptyFat
    /\ allocated' = 1
    /\ listing' = [c \in {Root} |-> <<entry("label", NoName, 0, 0)>>]
    /\ frames' = <<Frame(<<>>, Root)>>
    /\ UNCHANGED <<lfs, bcc, pc, job>>

\* An empty file gets an entry without a cluster, and none is reserved.
AddFile(n) ==
    LET blocks == lfs[Append(Top.path, n)]
        size == Len(blocks)
        first == allocated + 1
    IN  /\ frames # <<>>
        /\ n \in Top.left
        /\ blocks # DIR
        /\ first + size - 1 <= NumClusters
        /\ IF size = 0
           THEN /\ listing' = Listed(entry("file", Shown.file[n], 0, 0))
                /\ UNCHANGED <<fat, allocated>>
           ELSE /\ listing' = Listed(entry("file", Shown.file[n], first, size))
                /\ fat' = bulk_update_fat(fat, first, size)
                /\ allocated' = LastReserved(first, size)
        /\ frames' = Without(n)
        /\ UNCHANGED <<lfs, tmp, bcc, pc, job>>

AddDirectory(n) ==
    LET c == allocated + 1
    IN  /\ frames # <<>>
        /\ n \in Top.left
        /\ lfs[Append(Top.path, n)] = DIR
        /\ c <= NumClusters
        /\ allocated' = c
        /\ fat' = [fat EXCEPT ![c] = EOC]
        /\ listing' = [k \in DOMAIN listing \union {c} |->
                          IF k = c THEN Dots(c, Top.cluster)
                          ELSE Listed(entry("dir", Shown.dir[n], c, 0))[k]]
        /\ frames' = Append(Without(n), Frame(Append(Top.path, n), c))
        /\ UNCHANGED <<lfs, tmp, bcc, pc, job>>

AsSector(entries) == [i \in Slots |-> IF i <= Len(entries) THEN entries[i] ELSE Blank]

\* Variation: the end of the listing does not end the loop.
NoBreak ==
    /\ frames # <<>>
    /\ Top.left = {}
    /\ UNCHANGED <<vars, buildvars>>

\* The end of a listing: the array is saved as the sector of the directory.
Return ==
    /\ frames # <<>>
    /\ Top.left = {}
    /\ tmp' = save_temporary_file(Top.cluster, AsSector(listing[Top.cluster]))
    /\ frames' = SubSeq(frames, 1, Len(frames) - 1)
    /\ UNCHANGED <<lfs, fat, bcc, pc, job, listing, allocated>>

BuildStep == (\E n \in Names : AddFile(n) \/ AddDirectory(n)) \/ Return

-----------------------------------------------------------------------------
(* The builder alone, with a host that reads what it built and mounts the  *)
(* drive again.                                                            *)

BuildInit ==
    /\ lfs \in Trees
    /\ tmp = [c \in {} |-> NoSector]
    /\ fat = EmptyFat
    /\ bcc = NoBase
    /\ pc = "ready"
    /\ job = NoJob
    /\ frames = <<>>
    /\ listing = [c \in {} |-> <<>>]
    /\ allocated = 0

Built == frames = <<>> /\ Root \in DOMAIN tmp

Browse == Built /\ (\E c \in 2..NumClusters : Read(c)) /\ UNCHANGED buildvars

BuildNext == StartBuild \/ BuildStep \/ Browse

builderVars == <<vars, buildvars>>

\* One callback runs the builder to its end.
BuildSpec == BuildInit /\ [][BuildNext]_builderVars /\ WF_builderVars(BuildStep)

-----------------------------------------------------------------------------
(* What a tree has to be for the builder.                                  *)

\* The slots of an entry give back the name littlefs knows it by, which is what
\* NameSlots computes for the names it is run with.
NamesShown ==
    \A t \in Trees : \A p \in DOMAIN t :
        (IF t[p] = DIR THEN Shown.dir ELSE Shown.file)[p[Len(p)]] = p[Len(p)]

\* The array of a directory holds all of it, the label or the dots included:
\* create_dir_entry_cache does not count.
NamesFit ==
    \A t \in Trees : \A p \in {<<>>} \union {q \in DOMAIN t : t[q] = DIR} :
        Cardinality(Kids(t, p)) + FirstSlot(p) - 1 <= NumSlots

-----------------------------------------------------------------------------
(* Properties.                                                             *)

\* The clusters an entry of a listing stands for.
Extent(e) == CASE e.kind = "dir"                 -> {e.clus}
               [] e.kind = "file" /\ e.size > 0  -> e.clus..e.clus + e.size - 1
               [] OTHER                          -> {}
Placed == UNION {{<<c, i>> : i \in 1..Len(listing[c])} : c \in DOMAIN listing}
EntryOf(x) == listing[x[1]][x[2]]

\* No file ends on the last bytes of a sector of the table, where the byte that
\* bulk_update_fat stores past it makes the entry behind lead to cluster 255.
NoneStrays ==
    \/ NumClusters < 255
    \/ \A x \in Placed : EntryOf(x).kind = "file" =>
          \A c \in Extent(EntryOf(x)) : EndsSector(c) => c + 1 \in Extent(EntryOf(x))

\* No two files or directories share a cluster, and none takes the cluster of
\* the root or one the builder still counts as free, however littlefs orders
\* its names and however deep the directories are.
ChainsApart ==
    \A x \in Placed :
        /\ Extent(EntryOf(x)) \subseteq 2..allocated
        /\ \A y \in Placed : x # y => Extent(EntryOf(x)) \intersect Extent(EntryOf(y)) = {}

\* No name is lost on the way from a littlefs name to the slots of its entry and
\* back, and each is listed once: the names the listing shows so far and those
\* still to come are the names of the directory.
NamesRestored ==
    frames # <<>> =>
        LET entries == listing[Top.cluster]
            named == {i \in 1..Len(entries) : entries[i].kind \in {"file", "dir"}}
            names == {entries[i].name : i \in named}
        IN  /\ names \union Top.left = Children(Top.path)
            /\ Cardinality(named) + Cardinality(Top.left) = Cardinality(Children(Top.path))

\* Whatever is added after it, the chain of a file stays whole: it visits the
\* clusters of the file in order and ends at the last; a directory has one.
\* In particular the byte bulk_update_fat stores past a chain hits none.
ChainsWhole ==
    \A x \in Placed : \A c \in Extent(EntryOf(x)) :
        fat[c] = IF c + 1 \in Extent(EntryOf(x)) THEN c + 1 ELSE EOC

\* The path of the directory with its sector at c.
PathOf(c) == IF c = Root THEN <<>> ELSE restore_directory_from(tmp, ParentOf(tmp[c]), c)
Directories == {PathOf(c) : c \in DOMAIN tmp}

\* What is built is a tree with the directories of littlefs, each in a sector of
\* its own that its parent names, so that the searches find their way in it.
VolumeBuilt ==
    Built => /\ Directories = {<<>>} \union {p \in DOMAIN lfs : lfs[p] = DIR}
             /\ Volume(tmp, Directories,
                       [p \in Directories |-> CHOOSE c \in DOMAIN tmp : PathOf(c) = p])

\* What a host reads that follows the chain of a file from its first cluster,
\* base_cluster_cache being what earlier reads left.
Reading(chain) ==
    LET read[k \in 0..Len(chain)] ==
          IF k = 0 THEN [cache |-> bcc, data |-> <<>>]
          ELSE [cache |-> find_base_cluster_and_offset(fat, read[k-1].cache, chain[k]).bcc,
                data  |-> Append(read[k-1].data, ReadWith(read[k-1].cache, chain[k]))]
    IN  read[Len(chain)].data

\* The tree the sectors and chains show to a host.
ShownTree ==
    LET below[n \in 0..NumClusters] ==
          [c \in Cluster |->
              LET s == mimic_fat_read(c)
                  Shows(i) ==
                    LET name == <<s[i].name>>
                    IN  IF s[i].kind = "file" THEN {<<name, Reading(ChainOf(fat, s[i].clus))>>}
                        ELSE IF s[i].kind = "dir" /\ n > 0
                        THEN {<<name, DIR>>} \union
                             {<<name \o x[1], x[2]>> : x \in below[n - 1][s[i].clus]}
                        ELSE {}
              IN  IF s \in Sector THEN UNION {Shows(i) : i \in Slots} ELSE {}]
    IN  below[NumClusters][Root]

\* "Remounting will reflect the update": once the caches are built the drive
\* shows the tree of littlefs, every name, directory and block of it and
\* nothing else, whatever was read before the mount.
TreeShown == Built => ShownTree = {<<p, lfs[p]>> : p \in DOMAIN lfs}

\* The walk ends: the callback that builds the caches returns.
BuildEnds == frames # <<>> ~> Built

\* A host that reads the first cluster of a file gets its first block.
FirstBlocksRead ==
    Built => \A i \in Slots :
        LET e == tmp[Root][i]
        IN  e.clus # 0 => mimic_fat_read(e.clus) = lfs[<<e.name>>][1]
=============================================================================
