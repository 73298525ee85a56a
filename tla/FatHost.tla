------------------------------ MODULE FatHost -------------------------------
(***************************************************************************)
(* A FAT host at work on the drive of MimicFat, following the orders of    *)
(* sector writes FAT_OPERATION.md and tests/ give for macOS and Windows.   *)
(* An operation is planned at once, as the sequence of sectors it writes;  *)
(* the drive handles each before the host sends the next.                  *)
(***************************************************************************)
EXTENDS MimicFat

CONSTANTS
    Ops,        \* the operations this host uses
    Contents,   \* what it writes into files: nonempty sequences of Values
    WinBlocks,  \* the longest file a Windows host creates
    Careful,    \* whether it keeps clear of ghosts, see below
    MaxDirs,    \* how many directories it makes, the root included
    Mounted,    \* what the one file of littlefs may hold at mount; <<>> for no file
    None

ASSUME ContentsAssumption == Contents \subseteq Seq(Values) \ {<<>>}
ASSUME MountedAssumption  == \A x \in Mounted : x \in Seq(Values) /\ Len(x) < NumClusters

VARIABLES
    hdir,   \* the directory sectors, as the host has them
    todo,   \* the sectors it has still to write
    op,     \* the operation it is carrying out, or None
    files   \* the tree it had before that operation

hostvars == <<hdir, todo, op, files>>
allvars == <<vars, hostvars>>

-----------------------------------------------------------------------------
(* Sectors to write.  Cluster number 0 stands for the FAT.                 *)

FatArea == 0
FatWrite(f)   == [at |-> FatArea, data |-> f, touched |-> TRUE]
DirWrite(d, s) == [at |-> d, data |-> s, touched |-> TRUE]
Blocks(chain, content) ==
    [k \in 1..Len(content) |-> [at |-> chain[k], data |-> content[k], touched |-> TRUE]]

\* The host's view of the volume.
Dirs == DOMAIN hdir
Deleted(e) == [e EXCEPT !.del = TRUE, !.name = NoName]
InUse(d) == {i \in Slots : hdir[d][i].kind \in {"file", "dir"} /\ ~hdir[d][i].del}
FilesIn(d) == {i \in InUse(d) : hdir[d][i].kind = "file"}
DirsIn(d)  == {i \in InUse(d) : hdir[d][i].kind = "dir"}

\* A new entry goes to the first deleted or never used slot.
FreeSlots(d) == {i \in Slots : hdir[d][i].kind = "blank" \/ hdir[d][i].del}
FreeSlot(d) == First(FreeSlots(d))
Unused(d, n) == \A i \in InUse(d) : ShortOf[hdir[d][i].name] # ShortOf[n]

Allocate(f, chain) ==
    [c \in Cluster |->
        IF \E k \in 1..Len(chain) : chain[k] = c
        THEN LET k == CHOOSE k \in 1..Len(chain) : chain[k] = c
             IN  IF k = Len(chain) THEN EOC ELSE chain[k + 1]
        ELSE f[c]]
Release(f, c) ==
    [k \in Cluster |-> IF \E i \in 1..Len(ChainOf(f, c)) : ChainOf(f, c)[i] = k THEN FREE ELSE f[k]]

\* A ghost is a deleted entry that names the cluster of a live file of the
\* same directory.  A rename on macOS leaves one behind; a file that takes a
\* freed cluster, or comes back to a directory it was moved from, meets one.
\* A careful host writes no directory that holds a ghost, and makes none but
\* by a rename.
Dead(s) == {i \in Slots : s[i].del}
LiveFiles(s) == {i \in Slots : s[i].kind = "file" /\ ~s[i].del /\ s[i].clus # 0}
Meet(dead, live) == \E i \in Dead(dead), j \in LiveFiles(live) : dead[i].clus = live[j].clus
Ghostless(dirs, writes) ==
    \A d \in {writes[k].at : k \in 1..Len(writes)} \intersect Dirs :
        ~Meet(hdir[d], hdir[d]) /\ ~Meet(hdir[d], dirs[d])

\* The lowest n clusters a new file of directory d may take.
Spare(d) == {c \in 2..NumClusters :
                /\ fat[c] = FREE
                /\ Careful => \A i \in Dead(hdir[d]) : hdir[d][i].clus # c}
Fresh(d, n) == [k \in 1..n |-> CHOOSE c \in Spare(d) :
                                  Cardinality({x \in Spare(d) : x < c}) = k - 1]
Fits(d, n) == Cardinality(Spare(d)) >= n

PathTo(d) == IF d = Root THEN <<>> ELSE restore_directory_from(hdir, ParentOf(hdir[d]), d)
Path(d, n) == Append(PathTo(d), n)

-----------------------------------------------------------------------------
(* Operations.  Each drops the paths "gone" and sets the paths "put".      *)

NoFiles == [p \in {} |-> <<>>]
At(p, x) == [q \in {p} |-> x]

\* None is no request for a file of the root.
ASSUME NoneAssumption ==
    None \notin [name : Ops, gone : SUBSET Seq(Names),
                put : {NoFiles} \union {At(<<n>>, x) : n \in Names, x \in Contents \union Mounted}]

Plan(name, gone, put, dirs, writes) ==
    /\ op = None
    /\ name \in Ops
    /\ Careful => Ghostless(dirs, writes)
    /\ op' = [name |-> name, gone |-> gone, put |-> put]
    /\ todo' = writes
    /\ hdir' = dirs
    /\ UNCHANGED <<vars, files>>

Create(d, n, x) ==
    LET i == FreeSlot(d)
        chain == Fresh(d, Len(x))
        sector == [hdir[d] EXCEPT ![i] = entry("file", n, chain[1], Len(x))]
        dirs == [hdir EXCEPT ![d] = sector]
        fat1 == FatWrite(Allocate(fat, chain))
        empty == DirWrite(d, [hdir[d] EXCEPT ![i] = entry("file", n, 0, 0)])
    IN  /\ FreeSlots(d) # {}
        /\ Unused(d, n)
        /\ Fits(d, Len(x))
        /\ \/ Plan("createMac", {}, At(Path(d, n), x), dirs,
                   Blocks(chain, x) \o <<fat1, DirWrite(d, sector)>>)
           \/ /\ Len(x) <= WinBlocks
              /\ Plan("createWin", {}, At(Path(d, n), x), dirs,
                      <<empty, DirWrite(d, sector)>> \o Blocks(chain, x) \o <<fat1>>)

\* New content goes to new clusters; the old ones are freed.
Update(d, i, x) ==
    LET e == hdir[d][i]
        chain == Fresh(d, Len(x))
        empty == DirWrite(d, [hdir[d] EXCEPT ![i].clus = 0, ![i].size = 0])
        sector == [hdir[d] EXCEPT ![i].clus = chain[1], ![i].size = Len(x)]
        dirs == [hdir EXCEPT ![d] = sector]
        fat1 == Allocate(fat, chain)
        fat2 == FatWrite(Release(fat1, e.clus))
    IN  /\ Fits(d, Len(x))
        /\ \/ Plan("updateMac", {}, At(Path(d, e.name), x), dirs,
                   Blocks(chain, x) \o <<fat2, empty, DirWrite(d, sector)>>)
           \/ Plan("updateWin", {}, At(Path(d, e.name), x), dirs,
                   <<empty, FatWrite(fat1), DirWrite(d, sector)>>
                      \o Blocks(chain, x) \o <<fat2>>)

\* An empty file, which has no cluster, is never deleted: the drive keeps it.
Delete(d, i) ==
    LET e == hdir[d][i]
        sector == [hdir[d] EXCEPT ![i] = Deleted(e)]
    IN  /\ e.clus # 0
        /\ Plan("delete", {Path(d, e.name)}, NoFiles, [hdir EXCEPT ![d] = sector],
                <<DirWrite(d, sector), FatWrite(Release(fat, e.clus))>>)

Rename(d, i, n) ==
    LET e == hdir[d][i]
        inplace == [hdir[d] EXCEPT ![i].name = n]
        added == [hdir[d] EXCEPT ![FreeSlot(d)] = [e EXCEPT !.name = n], ![i] = Deleted(e)]
        content == At(Path(d, n), files[Path(d, e.name)])
    IN  /\ n # e.name
        /\ \/ /\ \A k \in InUse(d) \ {i} : ShortOf[hdir[d][k].name] # ShortOf[n]
              /\ Plan("renameWin", {Path(d, e.name)}, content, [hdir EXCEPT ![d] = inplace],
                      <<DirWrite(d, inplace)>>)
           \/ /\ FreeSlots(d) # {}
              /\ Unused(d, n)
              /\ Plan("renameMac", {Path(d, e.name)}, content, [hdir EXCEPT ![d] = added],
                      <<DirWrite(d, added)>>)

Move(d, i, to) ==
    LET e == hdir[d][i]
        from == [hdir[d] EXCEPT ![i] = Deleted(e)]
        dest == [hdir[to] EXCEPT ![FreeSlot(to)] = e]
    IN  /\ to # d
        /\ FreeSlots(to) # {}
        /\ Unused(to, e.name)
        /\ Plan("move", {Path(d, e.name)}, At(Path(to, e.name), files[Path(d, e.name)]),
                [hdir EXCEPT ![d] = from, ![to] = dest],
                <<DirWrite(d, from), DirWrite(to, dest)>>)

MakeDirectory(d, n) ==
    LET c == Fresh(d, 1)[1]
        sector == [hdir[d] EXCEPT ![FreeSlot(d)] = entry("dir", n, c, 0)]
        blank == BlankDirectory(c, d)
        dirs == [k \in Dirs \union {c} |-> CASE k = c -> blank [] k = d -> sector
                                              [] OTHER -> hdir[k]]
        fat1 == FatWrite(Allocate(fat, <<c>>))
    IN  /\ Cardinality(Dirs) < MaxDirs
        /\ FreeSlots(d) # {}
        /\ Unused(d, n)
        /\ Fits(d, 1)
        /\ \/ Plan("mkdirMac", {}, At(Path(d, n), DIR), dirs,
                   <<DirWrite(c, blank), fat1, DirWrite(d, sector)>>)
           \/ Plan("mkdirWin", {}, At(Path(d, n), DIR), dirs,
                   <<DirWrite(d, sector), DirWrite(c, blank), fat1>>)

RemoveDirectory(d, i) ==
    LET e == hdir[d][i]
        sector == [hdir[d] EXCEPT ![i] = Deleted(e)]
    IN  /\ InUse(e.clus) = {}
        /\ Plan("rmdir", {Path(d, e.name)}, NoFiles,
                [k \in Dirs \ {e.clus} |-> IF k = d THEN sector ELSE hdir[k]],
                <<DirWrite(d, sector), FatWrite(Release(fat, e.clus))>>)

\* The host rewrites a directory with nothing changed but a time stamp.
Touch(d) == Plan("touch", {}, NoFiles, hdir, <<DirWrite(d, hdir[d])>>)

Begin == \E d \in Dirs :
    \/ Touch(d)
    \/ \E n \in Names : \/ \E x \in Contents : Create(d, n, x)
                         \/ MakeDirectory(d, n)
    \/ \E i \in FilesIn(d) : \/ \E x \in Contents : Update(d, i, x)
                              \/ \E n \in Names : Rename(d, i, n)
                              \/ \E to \in Dirs : Move(d, i, to)
                              \/ Delete(d, i)
    \/ \E i \in DirsIn(d) : RemoveDirectory(d, i)

-----------------------------------------------------------------------------
\* tud_msc_write10_cb with the next sector.
Write ==
    LET w == Head(todo)
    IN  /\ todo # <<>>
        /\ CASE w.at = FatArea -> WriteFat(w.data)
             [] w.at = Root    -> WriteRoot(w.data, w.touched)
             [] OTHER          -> WriteCluster(w.at, w.data, w.touched)
        /\ todo' = Tail(todo)
        /\ UNCHANGED <<hdir, op, files>>

\* tud_msc_read10_cb: a host may read a cluster at any time.
HostRead ==
    /\ "read" \in Ops
    /\ \E c \in 2..NumClusters : Read(c)
    /\ UNCHANGED hostvars

Handle == Step /\ UNCHANGED hostvars

Idle == pc = "ready" /\ todo = <<>>

Store == INSTANCE FileStore WITH store <- IF op = None THEN lfs ELSE files, pending <- op

Done ==
    /\ op # None
    /\ Idle
    /\ op' = None
    /\ files' = Store!Apply(op, files)
    /\ UNCHANGED <<vars, hdir, todo>>

\* A drive mounted with at most one file in littlefs: mimic_fat_create_cache
\* gives it the clusters from 2 on, and leaves its blocks where they are.
Init ==
    \E n \in Names, x \in Mounted :
        LET label == entry("label", NoName, 0, 0)
            root == [i \in Slots |-> CASE i = 1 -> label
                                       [] i = 2 /\ x # <<>> -> entry("file", n, 2, Len(x))
                                       [] OTHER -> Blank]
        IN  /\ lfs = IF x = <<>> THEN NoFiles ELSE At(<<n>>, x)
            /\ tmp = [c \in {Root} |-> root]
            /\ fat = [c \in Cluster |-> CASE c = 0 -> MEDIA
                                           [] c = Root -> EOC
                                           [] c \in 2..Len(x) -> c + 1
                                           [] c = Len(x) + 1 /\ x # <<>> -> EOC
                                           [] OTHER -> FREE]
            /\ bcc = NoBase
            /\ pc = "ready"
            /\ job = NoJob
            /\ hdir = tmp
            /\ todo = <<>>
            /\ op = None
            /\ files = lfs

\* The host sends what it has planned, and main() calls tud_task for ever.
Progress == Write \/ Handle \/ Done

Next == Begin \/ HostRead \/ Progress

Spec == Init /\ [][Next]_allvars /\ WF_allvars(Progress)

-----------------------------------------------------------------------------
(* Properties.                                                             *)

\* When an operation of the host ends, littlefs holds exactly the tree it
\* asked for: with the orders of sector writes of FAT_OPERATION.md,
\* mimic_fat_write implements FileStore.
HostOpsReflected == Store!Safety

\* Every operation ends: no list of difference_of_dir_entry, no chain that
\* littlefs_write or save_file_clusters follows keeps the drive busy for ever.
OpsComplete == op # None ~> op = None

\* While an operation runs, a file or directory it does not name keeps its
\* place and its content in littlefs, at each step a power cut could follow:
\* the two lists of difference_of_dir_entry and the paths restored from them
\* never hit a bystander.
BystandersKept ==
    \A p \in DOMAIN files :
        (op = None \/ p \notin op.gone \union DOMAIN op.put) =>
            p \in DOMAIN lfs /\ lfs[p] = files[p]

\* Between operations the drive reads back what the host wrote: each directory
\* sector is the one the host has, and following the FAT chain of a file
\* yields the blocks littlefs holds, whatever base_cluster_cache remembers.
ReadBack ==
    Idle => \A d \in Dirs :
        /\ mimic_fat_read(d) = hdir[d]
        /\ \A i \in FilesIn(d) :
              LET e == hdir[d][i]
                  chain == ChainOf(fat, e.clus)
                  p == Path(d, e.name)
              IN  e.clus # 0 => /\ p \in DOMAIN lfs
                                /\ Len(chain) = Len(lfs[p])
                                /\ \A k \in 1..Len(chain) : mimic_fat_read(chain[k]) = lfs[p][k]

\* A file the driver removes from littlefs is first copied into the temporary
\* files of its clusters ("Cluster cache is needed at the rename destination"):
\* no step drops the last copy of a block.
Held(t, c, x) ==
    LET chain == ChainOf(fat, c)
    IN  \A k \in 1..Len(x) : k <= Len(chain) /\ chain[k] \in DOMAIN t /\ t[chain[k]] = x[k]
RemovedFilesSaved ==
    [][\A p \in DOMAIN lfs \ DOMAIN lfs' :
          IsFile(lfs, p) => \E c \in 2..NumClusters : Held(tmp', c, lfs[p])]_allvars

\* A file a macOS host updates holds its old content or its new one at every
\* step, never a mixture and never nothing: the blocks reach the temporary
\* files first, and littlefs_write commits them with one close.
MacUpdateAtomic ==
    (op # None /\ op.name = "updateMac") =>
        \A p \in DOMAIN op.put : p \in DOMAIN lfs /\ lfs[p] \in {files[p], op.put[p]}
=============================================================================
