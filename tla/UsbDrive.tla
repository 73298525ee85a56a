------------------------------ MODULE UsbDrive ------------------------------
(***************************************************************************)
(* The whole program around the drive: the callbacks of usb_msc_driver.c,  *)
(* the cache builder that the first read runs, the tasks of main.c that    *)
(* append to SENSOR.TXT and format the flash, and a power cut at any step. *)
(*                                                                         *)
(* A session is the time a host works from one reading of the directory.   *)
(* It lapses when a suspend removes the temporary files under it.          *)
(***************************************************************************)
EXTENDS FatHost, FatBuild

CONSTANTS
    LogName,    \* SENSOR.TXT
    ReadmeName, \* README.TXT
    Click,      \* a block of log lines
    MaxLog      \* bound of the model: the length of the log

VARIABLES
    is_initialized,
    enabled,    \* usb_device_is_enabled
    session     \* "none", "open" or "stale"

usbvars   == <<is_initialized, enabled, session>>
drivevars == <<allvars, buildvars, usbvars>>

LogPath == <<LogName>>
Formatted   == At(<<ReadmeName>>, <<Zero>>)
NoTemporaries == [c \in {} |-> NoSector]
NoListing     == [c \in {} |-> <<>>]

\* The host is gone, and with it what it was doing; littlefs holds tree.
HostGone(tree) ==
    /\ hdir' = NoTemporaries
    /\ todo' = <<>>
    /\ op' = None
    /\ files' = tree
    /\ session' = "none"

MainLoop == pc = "ready" /\ frames = <<>>

-----------------------------------------------------------------------------
(* usb_msc_driver.c.                                                       *)

\* tud_mount_cb: a host enumerates the device.
Mount ==
    /\ MainLoop
    /\ is_initialized' = FALSE
    /\ HostGone(lfs)
    /\ UNCHANGED <<vars, buildvars, enabled>>

\* tud_msc_read10_cb: the first read builds the caches.
FirstRead ==
    /\ ~is_initialized
    /\ StartBuild
    /\ enabled' = TRUE
    /\ UNCHANGED <<hostvars, is_initialized, session>>

Build ==
    /\ BuildStep
    /\ is_initialized' = (is_initialized \/ frames' = <<>>)
    /\ UNCHANGED <<hostvars, enabled, session>>

\* The reads that follow: the host has the directory and the table.
Attach ==
    /\ MainLoop
    /\ is_initialized
    /\ session = "none"
    /\ Built
    /\ session' = "open"
    /\ hdir' = [c \in {c \in DOMAIN tmp : HasDirectory(tmp, c)} |-> tmp[c]]
    /\ listing' = NoListing
    /\ allocated' = 0
    /\ UNCHANGED <<vars, todo, op, files, frames, is_initialized, enabled>>

\* tud_suspend_cb, on a mounted littlefs.
Suspend ==
    /\ MainLoop
    /\ is_initialized
    /\ tmp' = NoTemporaries
    /\ enabled' = FALSE
    /\ session' = IF session = "open" THEN "stale" ELSE session
    /\ UNCHANGED <<lfs, fat, bcc, pc, job, hostvars, buildvars, is_initialized>>

-----------------------------------------------------------------------------
(* The host of FatHost, in a session.                                      *)

HostBegin  == session # "none" /\ Begin /\ UNCHANGED <<buildvars, usbvars>>
HostWrite  == Write /\ UNCHANGED <<buildvars, usbvars>>
DriveStep  == Handle /\ UNCHANGED <<buildvars, usbvars>>

\* What the host believes of the tree is worth nothing in a stale session.
HostDone ==
    /\ \/ session = "open" /\ Done
       \/ /\ session = "stale"
          /\ op # None
          /\ Idle
          /\ op' = None
          /\ files' = lfs
          /\ UNCHANGED <<vars, hdir, todo>>
    /\ UNCHANGED <<buildvars, usbvars>>

-----------------------------------------------------------------------------
(* main.c, between two calls of tud_task.                                  *)

Logged(fs) == Put(fs, LogPath, Append(IF LogPath \in DOMAIN fs THEN fs[LogPath] ELSE <<>>, Click))

\* sensor_logging_task, while the host is not at work on the log itself.
LogClick ==
    /\ MainLoop
    /\ LogPath \in DOMAIN lfs => Len(lfs[LogPath]) < MaxLog
    /\ op # None => LogPath \notin op.gone \union DOMAIN op.put
    /\ lfs' = Logged(lfs)
    /\ files' = Logged(files)
    /\ UNCHANGED <<tmp, fat, bcc, pc, job, hdir, todo, op, buildvars, usbvars>>

\* test_filesystem_and_format_if_necessary(true).  The temporary files and the
\* table are on the flash too; what the host knows of the drive is void.
Format ==
    /\ MainLoop
    /\ lfs' = Formatted
    /\ tmp' = NoTemporaries
    /\ fat' = EmptyFat
    /\ IF enabled
       THEN /\ allocated' = 1
            /\ listing' = [c \in {Root} |-> <<entry("label", NoName, 0, 0)>>]
            /\ frames' = <<[path |-> <<>>, cluster |-> Root, left |-> {ReadmeName}]>>
       ELSE UNCHANGED buildvars
    /\ HostGone(Formatted)
    /\ UNCHANGED <<bcc, pc, job, is_initialized, enabled>>

-----------------------------------------------------------------------------
\* The power goes, at any step, and comes back.  littlefs keeps what was closed:
\* the tree and the temporary files, not the table, which is never closed.
PowerCut ==
    /\ lfs' = lfs
    /\ tmp' = tmp
    /\ fat' = EmptyFat
    /\ bcc' = NoBase
    /\ pc' = "ready"
    /\ job' = NoJob
    /\ frames' = <<>>
    /\ listing' = NoListing
    /\ allocated' = 0
    /\ is_initialized' = FALSE
    /\ enabled' = FALSE
    /\ HostGone(lfs)

DriveInit ==
    /\ BuildInit
    /\ hdir = NoTemporaries
    /\ todo = <<>>
    /\ op = None
    /\ files = lfs
    /\ is_initialized = FALSE
    /\ enabled = FALSE
    /\ session = "none"

DriveNext == \/ Mount \/ FirstRead \/ Build \/ Attach \/ Suspend
             \/ HostBegin \/ HostWrite \/ DriveStep \/ HostDone
             \/ LogClick \/ Format \/ PowerCut

DriveSpec == DriveInit /\ [][DriveNext]_drivevars

-----------------------------------------------------------------------------
(* Properties.                                                             *)

Durable == INSTANCE DurableStore WITH store <- IF op = None THEN lfs ELSE files, pending <- op

\* Whatever happens and whenever - power cuts in the middle of a handler or of
\* the cache builder, plugging in again, suspends, clicks, a format - the drive
\* does what DurableStore says: a file the host is not working on is never
\* touched, one it replaces holds its old or its new content, one it creates
\* may be left empty, and an operation in a good session is carried out.
DriveDurable == Durable!Safety

\* A session shows each file as it was at the last mount or write: the blocks
\* along its chain are the first ones littlefs holds, those a click has added
\* since excepted ("The host PC cannot notice when the microcontroller updates
\* a file").
SessionReads ==
    (session = "open" /\ op = None) =>
        /\ hdir[Root] = mimic_fat_read(Root)
        /\ \A i \in FilesIn(Root) :
              LET e == hdir[Root][i]
                  shown == Reading(ChainOf(fat, e.clus))
              IN  /\ <<e.name>> \in DOMAIN lfs
                  /\ Len(shown) = e.size
                  /\ shown = SubSeq(lfs[<<e.name>>], 1, e.size)
=============================================================================
