# A verification project for pico-littlefs-usb

The program shows the littlefs of a Raspberry Pi Pico to a PC as a FAT12 USB
drive. The PC writes sectors; the driver (`mimic_fat.c`) works out from them what
was done to files and directories and does the same in littlefs. This directory
holds TLA+ models of that translation, TLC runs over small instances, and TLAPS
proofs. Paths below are those of the repository.

## 1. Inventory

| Component | State | Operations | Talks to |
|---|---|---|---|
| FAT12 table store (`mimic_fat.c` 194-373, 1010-1038) | the file `.mimic/FAT` | `init_fat`, `read_fat`, `update_fat`, `bulk_update_fat`, `read_fat_sector`, `save_fat_sector` | every component that follows a chain |
| Temporary files (604-678) | one file of 512 bytes for each cluster written, under `.mimic/` | `save_temporary_file`, `read_temporary_file`, cleanup | holds all directory sectors, and blocks the driver cannot place yet |
| Cache builder (698-902) | none of its own | `mimic_fat_create_cache`, `create_dir_entry_cache` | walks littlefs at mount, fills both stores above |
| Write path (1441-1894) | locals of one call | `mimic_fat_write`, `difference_of_dir_entry`, `delete_dir_entry_cache`, `update_lfs_file_or_directory`, `littlefs_write`, `save_file_clusters`, `update_file_entry` | called by `tud_msc_write10_cb`; changes littlefs |
| Path restoration (1043-1160, 1241-1374) | none | `restore_file_from`, `restore_directory_from`, `find_dir_entry_cache` | climbs or searches the directory sectors |
| Base cluster search (1163-1228) | `base_cluster_cache` | `find_base_cluster_and_offset` | read and write path |
| Read path (987-1025, 1387-1439) | none | `mimic_fat_read` | called by `tud_msc_read10_cb` |
| USB callbacks (`usb_msc_driver.c`) | `is_initialized`, `ejected` | mount, suspend, read10, write10, start/stop | TinyUSB calls them from `tud_task` |
| Sensor and format task (`main.c`) | `fs`, a second mount of the same flash | append to SENSOR.TXT, format | littlefs |
| File names, Unicode (384-531, `unicode.c`) | none | short names, long names, UTF-8/UTF-16 | builder and path restoration |
| Flash driver (`littlefs_driver.c`), USB descriptors, BOOTSEL button, tracing | flash; none | block device calls; tables; input; printing | littlefs, TinyUSB |

One call of a callback runs to its end: `main` calls `tud_task` in a loop, so two
sectors are never handled at once. What makes the driver hard is elsewhere:

- **Order.** FAT_OPERATION.md lists, for macOS and Windows, the order in which an
  operation's sectors arrive. The driver sees a prefix of them at any time and
  must reach the right tree from each order; a file's path exists only as long as
  the directory sectors on disk lead to it.
- **Inference.** Create, rename, move and delete are not told apart by the host;
  they are guessed from the difference of two versions of a sector, by short
  name, first cluster and size.
- **Stale copies.** Old blocks in temporary files, deleted entries that still name
  clusters, and `base_cluster_cache` outlive what they were true of.
- **Power.** Between two littlefs calls of one handler the power may go.
- **Lifecycle.** The first read after an enumeration builds all caches; a suspend
  removes them under a host that may come back; a format builds them again from
  the main loop; a click appends to a file the host believes it knows.
- **Limits.** 12-bit entries across byte and sector boundaries, 16 entries in a
  directory, cluster 0 for two different things.

What makes each component correct: the table behaves as an array of entries; the
write path leaves littlefs holding exactly the tree the host asked for and
touches nothing else on the way; the cache builder gives each file a chain of its own
and shows every name and directory; the paths restored are those of the files meant;
what is read is what was written; a removal never destroys the last copy of a
block; every handler ends. `PROJECT.json` lists the hazards at their lines.

## 2. Modules

| Module | What it is |
|---|---|
| `FatDir` | Constant-level definitions: FAT values, directory sectors, littlefs calls, `difference_of_dir_entry`, the searches of entries and paths, `find_base_cluster_and_offset` |
| `MimicFat` | The drive: state, one action for each littlefs operation of the handlers |
| `FileStore` | The promise: an operation of the host drops some paths and sets others, at once |
| `FatHost` | `MimicFat` with a host that plans operations as sequences of sectors; the properties; the refinement of `FileStore` |
| `MCFatHost` | Constants for TLC |
| `FatTable` | The promise of the table: an array of entries, each set on its own, or a chain at a time |
| `FatChain` | What `bulk_update_fat` does to that array |
| `Fat12`, `MCFat12` | `.mimic/FAT` byte by byte; constants for TLC |
| `NaturalRecursion` | Induction and recursion over the natural numbers, in a form the provers can cite |
| `Fat12Proofs` | Theorems about `Fat12`, for every size |
| `FatBuild` | The cache builder: `mimic_fat_create_cache` over any littlefs tree |
| `NameSlots` | Names to slots of a sector and back, byte by byte, with the two conversions of `unicode.c` |
| `MCFatBuild`, `MCStray` | Trees and names for TLC; the builder at the size of a real table |
| `FatBuildProofs` | Theorems about the builder, for every tree and size: chains, names, and the volume it leaves |
| `FatTree` | What it takes for directory sectors to show a tree (`Volume`) |
| `FatTreeProofs` | Theorems about the three searches in a volume, for every tree; the search back along a chain |
| `ShownProofs` | Theorems about what a host is shown after a mount |
| `DurableStore` | The promise of the whole program: `FileStore` with power cuts, lapsed sessions, the log and formats |
| `UsbDrive`, `MCUsbDrive` | `FatHost` and `FatBuild` under the USB callbacks and the main loop; constants for TLC |
| `FatDirProofs` | Theorems about the lists of `difference_of_dir_entry`, about `littlefs_write`, and about `..` |
| `HostProofs` | Theorems about `FatHost`: what the drive does for a macOS host, up to the refinement of `FileStore` |
| `ReadProofs` | Theorems about what a macOS host reads back, and the types of the drive |

### The drive (`FatDir`, `MimicFat`)

`lfs` is the littlefs tree, a function from paths (sequences of names) to `DIR` or
to a sequence of blocks. littlefs itself is external: each `lfs_*` call is atomic
and a file changes at its close. `tmp` holds the temporary files, `fat` the table
(as an array: `Fat12` shows why that is right), `bcc` the `base_cluster_cache`.
`pc` says which loop the write handler is in and `job` holds its local variables:

- `WriteFat`, `WriteRoot`, `WriteCluster` are the branches of `mimic_fat_write`;
  the two that receive a directory sector compute the lists and go to `"delete"`.
- `DeleteBlank`, `DeleteNow`, `DeleteFile`, `SaveStep` are `delete_dir_entry_cache`
  with `save_file_clusters`; `SaveDirectory` puts the new sector between the two
  lists, as the code does; `UpdateStop`, `UpdateDirectory`, `UpdateFile` are
  `update_lfs_file_or_directory`; `WriteStep` is a turn of `littlefs_write`;
  `Finish` returns.
- `Read` is what a read changes (the cache of the search); `mimic_fat_read` is what
  it returns.

An entry stands for its LFN slots and its short entry together; `ShortOf` gives the
8.3 alias, all that the comparison sees. Sizes count blocks, so the code's
truncation to a byte inside a block is truncation to a block here. The searches
are recursive functions with a bound of `NumClusters` on their depth; the code has
none, and would not return from a cyclic directory. Each takes the bound alone and
gives a function of the rest (`climb[n][x]`), the form the proofs can unfold. In the lists, an entry the
code copies whole is named by its slot. Failures of littlefs other than a missing
file (a full flash) are left out, as is a `DIR_Attr` that is neither a file nor a
directory. A data block written over a directory's cluster, or the reverse, is
ignored by the model; no host here sends one.

### The host (`FatHost`)

The host is the environment, in the orders FAT_OPERATION.md and `tests/` give. It
plans an operation at once (`Plan`) and `Write` hands the drive its sectors one by
one, each when the drive is back at `"ready"`. `Touch` rewrites a directory in
which only a time stamp changed: `difference_of_dir_entry` compares whole sectors
first, so this makes it look at every entry. Files have at least one block (an
empty file never reaches littlefs: see the hazards), and new content goes to new
clusters. `Ops` chooses the operations of an instance.

`Careful` confines the host to directories without *ghosts*: deleted entries that
name the cluster of a live file of the same directory. A careful host writes no
directory that holds a ghost and makes one only by a rename in the way of macOS,
which it then follows with no write to that directory. This is a real restriction,
stated because the property fails without it: the run `ghost_rename` is the same
host without it. It also leaves out a file moved out of a directory and back into
the slot it left. That file is compared with its own deleted entry, the path restored
for the entry is the one of the directory (1126-1129), and `lfs_remove` takes the
directory when the file was all it held: `BystandersKept` is false of that host too.

The hosts write tables without cycles and directories whose `..` lead to the root,
as a file system in order has them, and the searches have a bound of `NumClusters`
where the loops of `littlefs_write`, `save_file_clusters` and `restore_file_from` have
none: that those loops end for any other table is not claimed.

`Init` is a drive just mounted: littlefs holds the files `Mounted` gives it, at most
one, with a directory entry and a chain, and no temporary file holds their blocks,
as `create_dir_entry_cache` leaves them. Until the driver copies them, those blocks
are in littlefs only, which is what makes `RemovedFilesSaved` hard to keep.
`UsbDrive` starts from a drive that has still to be built.

### The table (`Fat12`, `FatTable`)

`bytes` is the file; `update_fat` and `save_fat_sector` are the two ways it changes
after `init_fat`. `read_fat` computes offsets in floating point; they are exact
for the 12-bit range, and the model uses `(3 * c) \div 2`. `|` is `+` where the
operands share no bit.

`bulk_update_fat` fills a buffer of one sector and carries an entry over the
boundary into the next. `Turn` is a turn of its loop. An entry that starts on the
last byte of the buffer writes one byte past it; that byte is in no sector, and the
model drops it. `Turns` is the loop: what each turn leaves, from the first. In `Next`
a chain is stored at any time, as in the builder where nothing is allocated (`Unused`),
and an entry follows it (`ChainsAssumption`).

### The cache builder (`FatBuild`, `NameSlots`)

`frames` is the stack of calls of `create_dir_entry_cache`, each with its path, its
cluster and the names it has still to read; `listing` holds the arrays `dir_entry`,
`allocated` is `*allocated_cluster`. `StartBuild` is `mimic_fat_cleanup_cache`,
`init_fat` and the call for the root; `AddFile`, `AddDirectory` (which calls for
the directory at once, as the code does) and `Return` are the turns of the loop.
The order in which a directory lists its names is left open. The result of
`bulk_update_fat` is one more than the first free cluster, so that every file is
followed by a gap: `LastReserved`. The table is an array here; `BulkIsChain`
shows that its bytes do what `FatChain` says, the stray byte included.

`Shown` maps a name to the one its slots give back. For the run `build` it is
computed by `NameSlots` on bytes. The boundary of the array of 16 entries is not
modelled (the code does not look at it): `ArraysHold` states that every tree of the
run keeps to it. Names of files have one dot and an extension, since `strtok` returns
a null pointer otherwise, and names hold no character outside the basic plane.

### The whole program (`UsbDrive`, `DurableStore`)

`Mount`, `FirstRead`, `Build` and `Suspend` are the callbacks. `FirstRead` builds
the caches; `Attach` stands for the reads after it, with which the host takes
over the directory, and opens a session. `HostBegin`, `HostWrite`, `DriveStep` and
`HostDone` are `FatHost`'s host and the write handler. `LogClick` and `Format` are
the tasks of `main`, `PowerCut` may fall between any two steps, in the middle of a
handler or of the builder too: littlefs and the closed temporary files survive, the
RAM and the table do not. After it everything starts over.

- A host attaches after a build and works to the end of a session. After a
  suspend its view is `stale`: it may go on, and the drive compares what it sends
  with blank sectors. `DurableStore` says what is still promised then.
- A format takes the host with it: it mounts again. A host that goes on over a
  format is left out, and so is a write before the first read.
- A click appends one block; it comes while the host is not at work on
  `SENSOR.TXT` itself. The format is one step for littlefs, and its build takes steps.
- `main` has a second `lfs_t` on the same flash. What two mounts do to each other is
  inside littlefs, which is one atomic tree here.
- The host creates, updates and deletes in the order of macOS. A rename or a move
  that the power cuts short between the removal and the write loses the file, since
  the next mount wipes the temporary files; in the order of Windows an update cut
  short leaves a mixture. `DurableStore` would not hold for them, and the README of
  the repository makes no promise there.

## 3. Properties and runs

| Property | What it says |
|---|---|
| `HostOpsReflected` | `FatHost` implements `FileStore`: when an operation ends, littlefs holds exactly the tree asked for |
| `OpsComplete` | every operation ends |
| `BystandersKept` | at each step of an operation, files and directories it does not name are in littlefs, unchanged |
| `ReadBack` | between operations every directory sector and every block along a file's chain reads back as written |
| `MacUpdateAtomic` | a file under update holds its old or its new content at every step |
| `RemovedFilesSaved` | a step that removes a file leaves all its blocks in the temporary files of some chain |
| `MimicFat!TypeOK` | types; in particular a restored path has no nameless part |
| `UpdateIsSet`, `TableRefined`, `Fat12!TypeOK` | the packed table is an array of entries in a file of bytes |
| `BulkIsChain` | sector by sector, `bulk_update_fat` stores the chain and the stray byte of `FatChain` and nothing else |
| `ChainsApart` | no two files or directories share a cluster, at every step of the builder |
| `ChainsWhole` | a chain once stored stays whole, whatever is added after it |
| `NamesRestored` | no name is lost or shown twice on its way through the slots |
| `VolumeBuilt` | once built, the sectors hold the directories of littlefs and no other, each where its parent's entry and its own `..` say (`Volume`) |
| `TreeShown` | once built, the drive shows the tree of littlefs, every name, directory and block, whatever `base_cluster_cache` holds from before |
| `BuildEnds` | the callback that builds the caches returns |
| `DriveDurable` | `UsbDrive` implements `DurableStore`: a file the host is not working on is never touched; one it replaces holds its old or new content after a cut, a new one may be empty; in a good session an operation is carried out |
| `SessionReads` | in a good session the directory and each file read as littlefs held them when the host last looked |

Runs that pass:

| Run | Instance | Checks |
|---|---|---|
| `mac` | 6 clusters, files of 1 and 2 blocks, 2 names | `BystandersKept` `ReadBack` `MacUpdateAtomic` `HostOpsReflected` `OpsComplete` |
| `win` | 5 clusters, created files of 1 block, updates to 2 | `BystandersKept` `ReadBack` `HostOpsReflected` `RemovedFilesSaved` |
| `dirs` | root and one subdirectory, 5 clusters | `BystandersKept` `ReadBack` `HostOpsReflected` |
| `read` | 7 clusters, chains of up to 3, reads between sectors | `TypeOK` `ReadBack` `HostOpsReflected` |
| `fat12` | 4 sectors of 4 bytes | `TypeOK` `UpdateIsSet` `TableRefined` `BulkIsChain` |
| `build` | 18 clusters, sectors of 4 bytes, all trees of depth 2 over 2 names, one of depth 4, 25 names | `NamesRestored` `ChainsApart` `ChainsWhole` `VolumeBuilt` `TreeShown` `BuildEnds` |
| `cycle` | 7 clusters, 2 names, files of one block, a log of up to 2 | `BystandersKept` `SessionReads` `DriveDurable` |

Bounds. A directory has 4 slots: the label or the two dot entries, and enough
for a deleted entry beside two live ones, which is what the comparison of two slots
needs. Two names give a bystander to every operation;
`mac`, `win` and `read` also start from a drive mounted with a file on it. With 4 data clusters a
two-block file is updated while the old chain is held and another file keeps its
own, so clusters are freed and taken again; chains of 3 are the shortest in
which the search climbs two links and the cache of the last search is used twice.
The log of `cycle` is the only thing that grows, and `MaxLog` caps it. In `fat12`
the inner boundaries of four sectors of 4 bytes cut an even entry, cut an odd one,
and follow an odd one, as those of 512 bytes do at clusters 682, 341 and 1023; the
chains end before, on and after each kind. In `build` a directory
holds up to two names beside its dots, of any kind, so that a file or a directory
comes before and after each; files of three blocks cross the boundaries of a sector
of 4 bytes; the names sit at the limits of 8.3, of one and of two chunks of 13
units, and at the first and last character of each length of UTF-8. In `cycle`
one name is the log and the other the README, so that each of the host's operations
has a bystander the main loop may change or create; 7 clusters leave room for a
chain, the builder's gap and a new chain for each. Deadlock is checked everywhere.

`TreeShown` and `SessionReads` read each file from its first cluster, which has no
predecessor in the table, so `base_cluster_cache` does not matter there. They say
nothing of a host whose first read after a mount is in the middle of a file: that read
may start from the base kept from the table before (1189).

Fairness. `OpsComplete` assumes weak fairness of `Progress`: the host goes on
sending what it has begun, and `main` calls `tud_task` for ever (`main.c` 107-110),
so a handler that can take a step does. Nothing makes the host begin. `BuildEnds`
assumes weak fairness of `BuildStep`: one callback runs the builder to its end. The
drive of `cycle` promises safety only, since the power may go for good.

Runs that fail, each a disagreement between the code and what the repository says
(`findings` in `PROJECT.json` quotes the lines):

- `ghost_rename`: after a rename on macOS, the next change of the same directory
  removes the renamed file, because the old entry, deleted, matches it by
  cluster and size.
- `win_two_blocks`: a file of two blocks created in the order of Windows loses its
  second block.
- `alias_rename`: a rename between two long names that share a short one is not seen.
- `stale_base`: `base_cluster_cache` is used after the table it came from was
  rewritten, and a block reads back wrong.
- `stray`: a chain that ends on the last two bytes of a sector of the table leaves a
  byte in the free entry after it. At cluster 1023 that byte makes the search take
  1024 for the predecessor of 255, and a file that starts there is not read. The run
  has a table of the real size, 1100 clusters in sectors of 512 bytes, with one mount.

Each property of a passing run has a variation of the code, defined just before the
definition it replaces, under which TLC finds the property violated.

## 4. Theorems

All are checked by TLAPS, for every value of the constants that satisfies the
assumptions of the modules.

`Fat12Proofs` (assumptions: a sector has at least 3 bytes; stored values have 12
bits; sectors sent hold bytes; an entry of the table follows each chain). `TypeCorrect`,
`UpdateSets`, `BulkStoresChain` and `Refinement` prove the four properties of the run
`fat12`, of the whole of `Next`. `TypeOK` is inductive as it stands:
`FirstByte` and `SecondByte` give bytes (`WrittenBytes`). The refinement needs it,
because a byte out of range would not decode to the value stored. The heart of the
part about entries is
`StoredSame` and `StoredOther`: two entries share at most one byte, the second of
an even cluster and the first of the next (`OffsetsApart`), and each write keeps
the half it does not own (`FirstKept`, `SecondKept`). A saved sector changes only
entries with a byte in it (`LoadedOther`).

The loop of `bulk_update_fat` works on a copy of one sector, so that the file lags behind
and an entry on a boundary is for a while half in the file and half in a buffer. The
proof looks at `Flushed`, the file with the buffer written to it. A turn inside the
sector sets its entry there (`TurnInside`). A turn at the boundary writes the buffer and
puts the high bits of its entry into the first byte of the next sector, which is its own,
or the next entry's if its own two bytes ended the sector (`TurnAcross`). `TurnReads`
puts the two together and `TurnsReach` is the induction over the turns: after `i` of them, `Flushed` reads as the table before with the first `i`
entries chained and the strays of those, of which the next turn overwrites the last.
`BulkReads` is its end, where only the stray of the last entry is left, as `FatChain` says.

`FatDirProofs` (assumption: at least 3 slots). The lists of
`difference_of_dir_entry` for any two versions of a sector:

- `BystanderOffLists`: an unchanged entry is on neither list unless a deleted entry
  of the new sector has its cluster and size. That condition is the one `Careful`
  keeps and `ghost_rename` breaks, so the theorem says the ghost is the only way an
  unchanged entry gets on a list.
- `DeleteIsExact`, `RenameIsExact`, `RewriteIsExact`: in a sector without ghosts, an
  operation on one entry puts that entry on the lists it should be on and nothing else.
- `CommitForgets`: the content `littlefs_write` leaves does not depend on the old file.
- `BlankLeadsBack`: `..` of a new directory leads to its parent, the root included.

`NaturalRecursion`. The library's induction theorems
take an operator as a parameter, which the provers cannot instantiate. `Induction` is
stated for a set instead (what holds of 0 and of n + 1 whenever of n), from the least
element of a set of natural numbers, which the library's fact that `<` is well-founded
gives; `Recursion` says that a function defined by a base and a step exists. With them
a recursive function unfolds, and what it computes is proved by induction on its bound.

`FatBuildProofs` (assumptions: a sector of the table has at least 3 bytes; a tree maps
paths to `DIR` or to blocks). `BuilderKeepsApart` and `BuilderKeepsWhole` prove
`ChainsApart` and `ChainsWhole` for every tree, depth, order of names and size.
Neither is inductive: a new chain is apart from the old ones only because all of
those lie at or below `allocated`, and an old chain survives the stray byte only
because that byte falls above the chain it follows, where nothing is placed. `BuildInv`
adds these bounds, the types of listings and frames, and that every frame has a
listing; `BuildInvariant` proves it inductive, an action a lemma (`StartKeeps`,
`AddFileKeeps`, `AddDirectoryKeeps`, `ReturnKeeps`). `BulkChain` is what they need
of `bulk_update_fat`, `AppendKeeps` and `ArrayKeeps` what they need of a listing.

`FatTreeProofs` (assumptions: at least 2 clusters and 3 slots). `Volume(tmp, P, place)`
says that the sectors of `tmp` show the tree with the directories `P`, each at its
`place`: `..` leads to the parent, an entry to its directory, and a cluster starts one
entry. In a volume of any shape and depth, `PathRestored` and `DirectoryRestored` say
that the climbs give the path of an entry from its directory and cluster, `EntryFound`
and `EntryMissed` that `find_dir_entry_cache` finds the entry of a cluster if there is
one and says so if not. `StartsOnce` is why the first match is the right one: it is
what a ghost of `FatHost` breaks. `WalkUnfolds` and `ChainStart` are about the way back
from a cluster (`find_base_cluster_and_offset`), for `ShownProofs` and `ReadProofs`.

The second part of `FatBuildProofs` is about names and directories. `TreeInv` is the
inductive invariant of the walk. No variable says which
directories were visited and where their sectors are, so it says that a map of them
exists, and that each array holds an entry for each name of its directory but those
still to come. `TreeInvariant` proves it inductive, an action a lemma;
`BuilderKeepsNames` proves `NamesRestored` from it. `BuilderLeavesVolume` proves
`VolumeBuilt`: when the walk has ended the sectors show the tree of littlefs, so that
the four theorems above apply to every drive just mounted.

`ShownProofs`. `BuilderShowsTree` proves `TreeShown`, the promise of a mount: a host
that follows entries and chains is shown every name, directory and block of littlefs
and nothing else, whatever was read before. The driver goes the other way, from a
cluster to the start of its chain (`find_base_cluster_and_offset`), to an entry, to a
path. The first of these has an invariant of its own, `TableInv`: a step along the
table goes to the next cluster and stays inside one file, so that a cluster has at most
one predecessor. `RunLocated` is the heart: from any cluster of a file, and with
whatever `base_cluster_cache` kept from the cluster read before, the search gives the
first cluster and the offset. `RunRead` reads a chain by it, `ShownUnfolds` and
`TreeClosed` put the files together to the tree.

`HostProofs` (assumptions: a block is not the mark of a directory, a file written or
mounted has at least one block, a mounted one fits on the disk, and `None` is no
operation). Under `MacHost`, a careful host that creates, updates, deletes, renames,
touches and reads files of the root in the order of macOS, and for every number of
clusters, slots, names and contents:

- `DriveImplementsStore` proves `HostOpsReflected`, the refinement of `FileStore`. The
  store is littlefs while no operation runs and what it was before while one does. So
  the steps of the drive are stutters, `Done` is a step `Complete` only if littlefs then
  holds exactly what the host asked for, and no step may touch littlefs between two
  operations.
- `OthersKept` proves `BystandersKept`, `UpdateIsAtomic` proves `MacUpdateAtomic`, and
  `RemovedIsSaved` proves the action property `RemovedFilesSaved`.

None of the four is inductive: whether a bystander survives the next sector depends on
the lists the handler computed from the last one, on whether the temporary files hold
the blocks `littlefs_write` will copy, and on whether the table leads from block to
block. `HostInv` says all this, an operation at a time and in six phases: `Settled`
(the sectors on the drive are those of the host, and littlefs is what it believes),
`Filling` (blocks are on their way, in clusters that are free in the table and named
by no entry until the table arrives), `Ready` (all is there but the directory), `Emptying`
(an update of macOS first sends the entry with no cluster), `Handling` (the handler is
between its lists, at one of `delete`, `save`, `update`, `write`, with a cursor in a
chain) and `Over`. `Layout` ties a sector, the table and a tree: each entry has a chain
of its own, linked in the table, as long as the content of its file. In `Handling`,
`Deleting`, `Saving`, `Removed`, `Updating` and `Writing` say how far the lists have
come and what littlefs still lacks. `HostInvariant` proves it inductive: `Begin` by
operation (`CreateKeeps`, `UpdateKeeps`, `RenameKeeps`, `DeleteKeeps`, `TouchKeeps`),
`Write` by what is still to come (`FillingBlock`, `FillingOver`, `ReadyWrite`,
`OverWrite`), a step of the handler by its loop (`DeletingStep`, `SavingStep`,
`UpdatingStep`, `WritingStep`). TLC checked it on small instances before the proof. `TouchLists`,
`PutLists`, `DeleteLists` and `RenameLists` are what `difference_of_dir_entry` finds
after each operation (with `DeleteIsExact`), `RootPath` what `restore_file_from` answers
(with `PathRestored`), `Committed` what `littlefs_write` leaves (with `CommitForgets`).

`ReadProofs` has two theorems about the same host. `ReadsBack` proves `ReadBack`, with one
more hypothesis, `ReadsMore`: a host that reads between two sectors frees no chain, so it creates,
renames and touches only; one that does not may do all its operations, and what it reads
when they are over is right. The finding `stale_base` is the other side: with a deletion
and a read, `base_cluster_cache` keeps a place in a chain that is gone. `ReadInv` adds two
things to `HostInv`. `TableInv`: in the table as it will be when all sectors sent have
arrived, each file has a *thread*, a chain that ascends and that nothing else leads into,
and no entry of the table leads to a free cluster; with a host of `ReadsMore` that reads
(`Reading`), every allocated
cluster is in a thread, and the table on the drive only lacks whole threads of it.
`CacheInv`: with a host that never reads the cache is empty; with one of `Reading` it is
empty or names a cluster of a thread with its right start and
offset. Two threads that meet are one (`Meeting`), so the search of any cluster gives its
place in its thread with any such cache, and leaves such a cache (`Located`, `WholeWay`).
`ReadInv` is inductive for every host of `MacHost`; what is read is right with `ReadsMore`.

`DriveTypes` proves `TypeOK` of the drive for every host of `MacHost`, in any order of
reads. It is not inductive: the handlers take a path from the directory sectors and
follow a chain until its mark, and both can leave their type, as the variation of the
run `read` shows, when the sectors disagree. `Typed` is what a step has to keep of the
temporary files, the table, the cache and the locals, and it is proved beside `HostInv` and `ReadInv`:
the paths are those of the file on the list (`VictimTyped`, `UpdatedTyped`), a chain that
is saved or written has a block in each of its clusters (`SaveTyped`, `WriteTyped`), a
sector that arrives is one of a directory, the table, or a block for a free cluster
(`NextSent`, `SectorTyped`). That littlefs holds blocks at paths of names follows from
`HostInv` alone (`StoreTyped`).

The Windows orders, directories and moves are not in these theorems: there a file is
linked before its blocks arrive, and a path is restored while sectors of two
directories disagree. TLC checks them (`win`, `dirs`).

The hypotheses of these theorems:

- `NamesShown` (in `FatBuild`, as are the next two): the slots of an entry give its
  name back. The bytes are in
  `NameSlots`, and the run `build` computes `Shown` with it for the names at the limits.
- `NamesFit`: the names of a directory fit in its sector, as `create_dir_entry_cache`
  takes for granted.
- `NoneStrays` (a state predicate, in the conclusion of `BuilderShowsTree`): no file
  ends at a cluster whose entry ends a sector of the table. Without it the statement is
  false at the real size of the table: the run `stray` shows what the stray byte of
  `bulk_update_fat` does. The byte stores 255, so that on a disk of fewer than 255
  clusters it leads nowhere: `SmallDiskShowsTree` has no such condition. The run
  `build` is of that kind.
- `TreesAssumption` and `TreesClosedAssumption`: littlefs holds finitely many paths,
  each in a directory.
- `TableFits` (in `FatDir`): fewer than 4088 clusters, so that no cluster number is a
  mark. FAT12 ends there.
- `ChainsAssumption` (in `Fat12`): the first entry after a chain is in the table and its
  number has 12 bits. `init_fat` makes the table longer than the disk, and the buffer
  of the loop always has a next sector to go to. TLC evaluates it on the run `fat12`.
- `ReadsMore` (in `ReadProofs`, for `ReadsBack` only): see above. The run `read` has such a host, with reads at
  any time.
- `MacHost` (in `HostProofs`): the host is careful and its operations are those of
  macOS on files, as in the run `mac`. `Careful` is needed: `ghost_rename`.

TLC evaluates those of the builder but `NamesShown` on the run `build`, and `NamesRestored` fails there
when that does.

Only model-checked: `DriveDurable` and `SessionReads`, and what the properties of
`FatHost` say of a host that works in the order of Windows, or with directories.
`OpsComplete` and `BuildEnds` are liveness under fairness, which the prover does not
treat.

## 5. Not modelled, and the plan

What could follow, in this order:

1. `SessionReads` from `BuilderShowsTree` and `ReadsBack`, and
   the refinement of `DurableStore` step by step, proved. `HostInv` would have to say
   what is left of it in a stale session, and what a click adds to a file the host
   knows. Then
   `HostInv` for the orders of Windows, without `BystandersKept` while an update runs.
2. A host that rewrites one block of a file in place, and one that makes empty files
   (1671, 1791, 1045): `update_file_entry` truncates at offset 0. The Windows host
   of `win` writes all blocks in place, in ascending order.
3. A host that goes on over a format, and renames under power cuts with the weaker
   promise that fits them.
4. Names without a dot or with two, and supplementary characters: the code has
   undefined behaviour or a known loss there (see the hazards), so a model would
   have to start from what a build does.

Left out for good: USB descriptors (constant tables), the BOOTSEL button (input),
tracing (no state), the flash driver (three calls to the SDK; littlefs is taken as
correct, and so is what two mounts of it do on one flash), the boot sector (a
constant), the number of sectors the layout gives the table (974), handles of
littlefs that are opened and not closed (355), paths longer than `LFS_NAME_MAX`.
