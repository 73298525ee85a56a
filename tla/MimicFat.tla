------------------------------ MODULE MimicFat ------------------------------
(***************************************************************************)
(* The block device of mimic_fat.c between two mounts: what the callbacks  *)
(* mimic_fat_read and mimic_fat_write do with the sectors a host sends.    *)
(* One littlefs operation is one step, so that every point where the power *)
(* may go is a state.  pc says which loop the write handler is in; the     *)
(* main loop calls it to completion, so a new sector arrives at "ready".   *)
(***************************************************************************)
EXTENDS FatDir

VARIABLES
    lfs,    \* the littlefs tree
    tmp,    \* the temporary files .mimic/...: cluster to sector or block
    fat,    \* the file .mimic/FAT
    bcc,    \* base_cluster_cache
    pc,     \* "ready", "delete", "save", "update" or "write"
    job     \* the local variables of the write handler

vars == <<lfs, tmp, fat, bcc, pc, job>>

NoSector == [i \in Slots |-> Blank]
NoJob == [dir  |-> Root,        \* cluster of the directory sector
          orig |-> NoSector,    \* its old version
          new  |-> NoSector,    \* its new version
          del  |-> [i \in Slots |-> 0],     \* what is left of dir_delete
          upd  |-> {},                      \* what is left of dir_update
          path |-> <<>>, at |-> 0, size |-> 0,  \* the file being saved or written
          data |-> <<>>,                        \* blocks copied so far
          buffer |-> Zero]                      \* buffer of save_file_clusters

-----------------------------------------------------------------------------
(* mimic_fat_read of a data cluster changes only the cache of the search.  *)

Read(c) ==
    /\ pc = "ready"
    /\ bcc' = find_base_cluster_and_offset(fat, bcc, c).bcc
    /\ UNCHANGED <<lfs, tmp, fat, pc, job>>

\* What mimic_fat_read returns for a cluster when the last search left cache;
\* Zero where it leaves the buffer as it was.
ReadWith(cache, c) ==
    LET b == find_base_cluster_and_offset(fat, cache, c)
        r == find_dir_entry_cache(tmp, b.base)
        e == tmp[r[1]][r[2]]
        p == restore_file_from(tmp, r[1], b.base)
        saved == IF c \in DOMAIN tmp THEN tmp[c] ELSE Zero
    IN  IF c = Root THEN saved
        ELSE IF b.base = 0 \/ ~Found(r) THEN Zero
        ELSE IF e.kind = "dir" THEN saved
        ELSE IF IsFile(lfs, p) /\ b.off + 1 <= Len(lfs[p]) THEN lfs[p][b.off + 1]
        ELSE Zero
mimic_fat_read(c) == ReadWith(bcc, c)

-----------------------------------------------------------------------------
(* mimic_fat_write, by the area the sector falls in.                       *)

SaveAll(C, x) == [k \in DOMAIN tmp \union C |-> IF k \in C THEN x ELSE tmp[k]]
save_temporary_file(c, x) == SaveAll({c}, x)

\* save_fat_sector
WriteFat(f) ==
    /\ pc = "ready"
    /\ fat' = f
    /\ UNCHANGED <<lfs, tmp, bcc, pc, job>>

\* The start of both directory handlers: compute the two lists.
\* A sector that is not there reads as blank entries.
Compare(c, s, touched) ==
    LET orig == IF c \in DOMAIN tmp THEN tmp[c] ELSE NoSector
        d == difference_of_dir_entry(orig, s, touched)
    IN  /\ pc' = "delete"
        /\ job' = [NoJob EXCEPT !.dir = c, !.orig = orig, !.new = s,
                                !.del = d.del, !.upd = d.upd]
        /\ UNCHANGED <<lfs, tmp, fat>>

WriteRoot(s, touched) ==
    /\ pc = "ready"
    /\ Compare(Root, s, touched)
    /\ UNCHANGED bcc

\* Variation: the file is opened with LFS_O_TRUNC.
WriteTruncating(j, p, c, n) ==
    IF Openable(lfs, p)
    THEN /\ lfs' = Put(lfs, p, <<>>)
         /\ pc' = "write"
         /\ job' = [j EXCEPT !.path = p, !.at = c, !.size = n]
    ELSE /\ pc' = "update"
         /\ job' = j
         /\ UNCHANGED lfs

\* littlefs_write: open the file, creating it; then copy the chain from c.
StartWrite(j, p, c, n) ==
    IF Openable(lfs, p)
    THEN /\ lfs' = IF IsFile(lfs, p) THEN lfs ELSE Put(lfs, p, <<>>)
         /\ pc' = "write"
         /\ job' = [j EXCEPT !.path = p, !.at = c, !.size = n]
    ELSE /\ pc' = "update"
         /\ job' = j
         /\ UNCHANGED lfs

\* A cluster the FAT does not hold yet.
WriteUnallocated(c, x) ==
    LET saved == save_temporary_file(c, x)
        r == find_dir_entry_cache(saved, c)
        e == saved[r[1]][r[2]]
    IN  /\ tmp' = saved
        /\ IF Found(r) /\ e.kind # "dir"
           THEN StartWrite(job, restore_file_from(saved, r[1], c), c, e.size)
           ELSE UNCHANGED <<lfs, pc, job>>

\* update_file_entry: a block of a file that has its directory entry.
update_file_entry(c, x, p, n, off) ==
    LET old == IF off = 0 THEN <<>> ELSE lfs[p]
        written == WriteAt(old, off, x)
        kept == IF off + 1 >= n THEN Truncate(written, n) ELSE written
    IN  /\ tmp' = save_temporary_file(c, x)
        /\ lfs' = IF IsFile(lfs, p) \/ (off = 0 /\ Creatable(lfs, p))
                  THEN Put(lfs, p, kept) ELSE lfs
        /\ UNCHANGED <<pc, job>>

WriteCluster(c, x, touched) ==
    LET b == find_base_cluster_and_offset(fat, bcc, c)
        r == find_dir_entry_cache(tmp, b.base)
        e == tmp[r[1]][r[2]]
    IN  /\ pc = "ready"
        /\ c > Root
        /\ bcc' = b.bcc
        /\ \/ /\ b.base = 0
              /\ WriteUnallocated(c, x)
              /\ UNCHANGED fat
           \/ /\ b.base # 0
              /\ r = ERROR
              /\ UNCHANGED <<lfs, tmp, fat, pc, job>>
           \/ /\ b.base # 0
              /\ r = NOT_FOUND
              /\ tmp' = save_temporary_file(c, x)
              /\ UNCHANGED <<lfs, fat, pc, job>>
           \/ /\ b.base # 0
              /\ Found(r)
              /\ e.kind = "dir"
              /\ IF HasDirectory(tmp, c) /\ x \in Sector
                 THEN Compare(c, x, touched)
                 ELSE UNCHANGED <<lfs, tmp, fat, pc, job>>
           \/ /\ b.base # 0
              /\ Found(r)
              /\ e.kind # "dir"
              /\ update_file_entry(c, x, restore_file_from(tmp, r[1], b.base), e.size, b.off)
              /\ UNCHANGED fat

-----------------------------------------------------------------------------
(* delete_dir_entry_cache: entry by entry, in the order of the new sector. *)

NextDeleted(i) == /\ pc = "delete"
                  /\ job.del[i] # 0
                  /\ \A k \in Slots : k < i => job.del[k] = 0
Victim(i) == job.orig[job.del[i]]
IsDirectory(e) == e.kind \in {"dir", "dot", "dotdot"}
VictimPath(i) ==
    IF IsDirectory(Victim(i))
    THEN restore_directory_from(tmp, job.dir, Victim(i).clus)
    ELSE restore_file_from(tmp, job.dir, Victim(i).clus)

\* A never used entry on the list ends it.
DeleteBlank(i) ==
    /\ NextDeleted(i)
    /\ Victim(i).kind = "blank"
    /\ job' = [job EXCEPT !.del = NoJob.del]
    /\ UNCHANGED <<lfs, tmp, fat, bcc, pc>>

\* A directory, or a file save_file_clusters cannot open.
DeleteNow(i) ==
    /\ NextDeleted(i)
    /\ Victim(i).kind # "blank"
    /\ IsDirectory(Victim(i)) \/ ~IsFile(lfs, VictimPath(i))
    /\ lfs' = littlefs_remove(lfs, VictimPath(i))
    /\ job' = [job EXCEPT !.del[i] = 0]
    /\ UNCHANGED <<tmp, fat, bcc, pc>>

DeleteFile(i) ==
    /\ NextDeleted(i)
    /\ Victim(i).kind = "file"
    /\ IsFile(lfs, VictimPath(i))
    /\ pc' = "save"
    /\ job' = [job EXCEPT !.del[i] = 0, !.path = VictimPath(i), !.at = Victim(i).clus]
    /\ UNCHANGED <<lfs, tmp, fat, bcc>>

\* Variation: only the first cluster is saved.
SaveFirst ==
    /\ pc = "save"
    /\ tmp' = save_temporary_file(job.at, lfs[job.path][1])
    /\ lfs' = littlefs_remove(lfs, job.path)
    /\ pc' = "delete"
    /\ job' = [job EXCEPT !.path = <<>>, !.at = 0]
    /\ UNCHANGED <<fat, bcc>>

\* One turn of save_file_clusters: a read past the end leaves the buffer as
\* it was, and a cluster the FAT holds free leads to cluster 0, whose entry
\* ends the chain.  After the last cluster the file is removed.
SaveStep ==
    LET off == Len(job.data)
        block == IF off < Len(lfs[job.path]) THEN lfs[job.path][off + 1] ELSE job.buffer
    IN  /\ pc = "save"
        /\ tmp' = save_temporary_file(job.at, block)
        /\ IF fat[job.at] >= MEDIA
           THEN /\ lfs' = littlefs_remove(lfs, job.path)
                /\ pc' = "delete"
                /\ job' = [job EXCEPT !.path = <<>>, !.at = 0, !.data = <<>>, !.buffer = Zero]
           ELSE /\ job' = [job EXCEPT !.at = fat[job.at], !.data = Append(@, block),
                                      !.buffer = block]
                /\ UNCHANGED <<lfs, pc>>
        /\ UNCHANGED <<fat, bcc>>

\* Variation: the new sector is not saved.
ForgetDirectory ==
    /\ pc = "delete"
    /\ job.del = NoJob.del
    /\ pc' = "update"
    /\ UNCHANGED <<lfs, tmp, fat, bcc, job>>

\* The new sector replaces the old one between the two lists; that of the
\* root is saved as cluster 0 too.
SaveDirectory ==
    /\ pc = "delete"
    /\ job.del = NoJob.del
    /\ tmp' = SaveAll(IF job.dir = Root THEN {Root, 0} ELSE {job.dir}, job.new)
    /\ pc' = "update"
    /\ UNCHANGED <<lfs, fat, bcc, job>>

-----------------------------------------------------------------------------
(* update_lfs_file_or_directory: entry by entry.                           *)

NextUpdated(i) == /\ pc = "update"
                  /\ i \in job.upd
                  /\ \A k \in job.upd : i <= k
\* Variation: the entry stays on the list.
NoProgress(i) == job
Rest(i) == [job EXCEPT !.upd = @ \ {i}]

\* A never used entry, or a file without a cluster, ends the list.
UpdateStop(i) ==
    LET e == job.new[i]
    IN  /\ NextUpdated(i)
        /\ e.kind = "blank" \/ (e.kind = "file" /\ e.clus = 0)
        /\ job' = [job EXCEPT !.upd = {}]
        /\ UNCHANGED <<lfs, tmp, fat, bcc, pc>>

UpdateDirectory(i) ==
    LET e == job.new[i]
    IN  /\ NextUpdated(i)
        /\ e.kind = "dir"
        /\ lfs' = littlefs_mkdir(lfs, restore_directory_from(tmp, job.dir, e.clus))
        /\ tmp' = save_temporary_file(e.clus, BlankDirectory(e.clus, job.dir))
        /\ job' = Rest(i)
        /\ UNCHANGED <<fat, bcc, pc>>

UpdateFile(i) ==
    LET e == job.new[i]
    IN  /\ NextUpdated(i)
        /\ e.kind = "file"
        /\ e.clus # 0
        /\ StartWrite(Rest(i), restore_file_from(tmp, job.dir, e.clus), e.clus, e.size)
        /\ UNCHANGED <<tmp, fat, bcc>>

\* Variation: a temporary file that is not there reads as zeros.
ZeroBlock(c) == IF c \in DOMAIN tmp /\ tmp[c] \in Block THEN <<tmp[c]>> ELSE <<Zero>>
\* The block sent for a cluster, if one was.
SentBlock(c) == IF c \notin DOMAIN tmp THEN <<>>
                ELSE IF tmp[c] \in Block THEN <<tmp[c]>> ELSE <<Raw>>

\* One turn of littlefs_write.  A cluster the host has not sent yet closes
\* the file without truncating it.
WriteStep ==
    LET old == lfs[job.path]
        sent == SentBlock(job.at)
        data == job.data \o sent
        Close(content) ==
            /\ lfs' = Put(lfs, job.path, content)
            /\ pc' = "update"
            /\ job' = [job EXCEPT !.path = <<>>, !.at = 0, !.size = 0, !.data = <<>>]
    IN  /\ pc = "write"
        /\ CASE sent = <<>> -> Close(Overlay(old, data))
             [] sent # <<>> /\ EndsChain(fat[job.at])
                    -> Close(Truncate(Overlay(old, data), job.size))
             [] sent # <<>> /\ ~EndsChain(fat[job.at])
                    -> /\ job' = [job EXCEPT !.at = fat[job.at], !.data = data]
                       /\ UNCHANGED <<lfs, pc>>
        /\ UNCHANGED <<tmp, fat, bcc>>

Finish ==
    /\ pc = "update"
    /\ job.upd = {}
    /\ pc' = "ready"
    /\ job' = NoJob
    /\ UNCHANGED <<lfs, tmp, fat, bcc>>

\* A step of a handler that has begun.
Step == \/ \E i \in Slots : \/ DeleteBlank(i) \/ DeleteNow(i) \/ DeleteFile(i)
                           \/ UpdateStop(i) \/ UpdateDirectory(i) \/ UpdateFile(i)
        \/ SaveStep \/ SaveDirectory \/ WriteStep \/ Finish

-----------------------------------------------------------------------------
\* The types of the drive's variables.  A path restored from the directory
\* sectors is made of names only: the climb never meets an entry that has none.
TypeOK ==
    /\ pc \in {"ready", "delete", "save", "update", "write"}
    /\ DOMAIN lfs \subseteq Seq(Names)
    /\ \A p \in DOMAIN lfs : lfs[p] = DIR \/ lfs[p] \in Seq(Block)
    /\ \A c \in DOMAIN tmp : c \in Cluster /\ (tmp[c] \in Sector \/ tmp[c] \in Block)
    /\ fat \in Fat
    /\ bcc \in [cluster : Cluster, base_cluster : Cluster, offset : Nat]
    /\ job \in [dir : Cluster, orig : Sector, new : Sector,
                del : [Slots -> 0..NumSlots], upd : SUBSET Slots,
                path : Seq(Names), at : Cluster, size : Nat,
                data : Seq(Block), buffer : Block]
=============================================================================
