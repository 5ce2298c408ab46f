----------------------------- MODULE SecureSave -----------------------------
(***************************************************************************)
(* Saving a data file with util/secsave.c, on a file system that loses     *)
(* what it has not written when the power fails.  The writer is one of the *)
(* modules that keep data with a dirty flag (globhist/globhist.c,          *)
(* cookies/cookies.c, bookmarks/backend/common.c): it calls secure_open(), *)
(* one secure_fprintf() per record, secure_close(), and clears the flag    *)
(* when that returns 0.                                                    *)
(*                                                                         *)
(* A save runs in the thread of select_loop(); the thread of the terminal  *)
(* may change the data between any two of its steps (a page out of the     *)
(* cache is displayed, and noted in the global history, by load_uri()).    *)
(*                                                                         *)
(* The file system is external.  An inode has a content in the page cache, *)
(* which every reader sees, and one on the disk; the directory entry of    *)
(* the file, too, has a cached and a durable value.  A content is a        *)
(* sequence of records, each named by the version of the data that it was  *)
(* taken from; an absent and an empty file both read as no data.           *)
(***************************************************************************)
EXTENDS Naturals, Sequences

CONSTANTS
    Records,    \* records of a version
    MaxVersion, \* bounds the changes of the data
    MaxInode,   \* bounds the files created
    MaxFaults,  \* bounds the failing calls
    MaxCrashes  \* bounds the ends of the program and the losses of power

ASSUME BoundsAssumption ==
    /\ Records \in Nat \ {0}
    /\ MaxVersion \in Nat \ {0}
    /\ MaxInode \in Nat \ {0}
    /\ MaxFaults \in Nat
    /\ MaxCrashes \in Nat

VARIABLES
    opts,       \* infofiles.secure_save, .secure_save_fsync, the kind of file
    mem, dirty, \* the data in memory and the flag "not saved"
    began,      \* history: the data when the last save, or the program, began
    newest,     \* the last version given out
    up,         \* the program runs
    ssi,        \* secure_save_info and the place in the calls on it
    dir, ddir,  \* inode the name leads to, for readers and on the disk
    page, disk, \* contents of the inodes, for readers and on the disk
    temps,      \* inodes that still have the name of a temporary file
    inodes,     \* inodes created so far
    faults, crashes, losses

calls == <<dirty, ssi>>
files == <<dir, ddir, page, disk, temps, inodes>>
bounds == <<faults, crashes, losses>>
vars == <<opts, mem, began, newest, up, calls, files, bounds>>

Version == 0 .. MaxVersion
Content == Seq(Version)
NoData == <<>>

\* The data of a version, all of its records.
Data(v) == [i \in 1 .. Records |-> v]

Inode == 1 .. MaxInode

\* secure_fprintf() and the steps of secure_close(), in their order
Stages == {"idle", "open", "flush", "sync", "close", "rename"}

\* put: the records accepted by secure_fprintf() so far
Idle == [at |-> "idle", fp |-> 0, secure |-> FALSE, err |-> FALSE, put |-> NoData]

\* What fopen() and fgets() find under the name.
Visible == IF dir = 0 THEN NoData ELSE page[dir]
OnDisk == IF ddir = 0 THEN NoData ELSE disk[ddir]

TypeOK ==
    /\ opts \in [secure : BOOLEAN, fsync : BOOLEAN, symlink : BOOLEAN]
    /\ mem \in Content /\ began \in Content
    /\ dirty \in BOOLEAN
    /\ newest \in Version
    /\ up \in BOOLEAN
    /\ ssi \in [at : Stages, fp : 0 .. MaxInode, secure : BOOLEAN, err : BOOLEAN, put : Content]
    /\ dir \in 0 .. MaxInode
    /\ ddir \in 0 .. MaxInode
    /\ page \in [Inode -> Content]
    /\ disk \in [Inode -> Content]
    /\ temps \subseteq Inode
    /\ inodes \in 0 .. MaxInode
    /\ faults \in 0 .. MaxFaults
    /\ crashes \in 0 .. MaxCrashes
    /\ losses \in 0 .. MaxCrashes

\* The file is absent, or holds a version that is safely on the disk.
Init ==
    /\ opts \in [secure : BOOLEAN, fsync : BOOLEAN, symlink : BOOLEAN]
    /\ \E there \in {0, 1} :
          /\ opts.symlink => there = 1
          /\ inodes = there /\ dir = there /\ ddir = there /\ newest = there
          /\ page = [i \in Inode |-> IF i = there THEN Data(1) ELSE NoData]
    /\ disk = page
    /\ mem = Visible /\ began = mem
    /\ dirty = FALSE
    /\ up = TRUE
    /\ ssi = Idle
    /\ temps = {}
    /\ faults = 0 /\ crashes = 0 /\ losses = 0

-----------------------------------------------------------------------------
\* The owner of the data

\* A visit, a cookie, a bookmark; by the other thread also during a save.
Change ==
    /\ up
    /\ newest < MaxVersion
    /\ newest' = newest + 1
    /\ mem' = Data(newest')
    /\ dirty' = TRUE
    /\ UNCHANGED <<opts, began, up, ssi, files, bounds>>

Fault == faults < MaxFaults /\ faults' = faults + 1
NoFault == faults' = faults

\* lstat(): anything but a regular file, or none, is written in place.
Aside == opts.secure /\ ~opts.symlink

\* secure_open(), to a temporary file made by mkstemp() or to the file itself.
OpenAside ==
    /\ Aside
    /\ inodes < MaxInode
    /\ inodes' = inodes + 1
    /\ temps' = temps \cup {inodes'}
    /\ page' = [page EXCEPT ![inodes'] = NoData]
    /\ ssi' = [Idle EXCEPT !.at = "open", !.fp = inodes', !.secure = TRUE]
    /\ UNCHANGED <<dir, ddir, disk>>

OpenInPlace ==
    /\ ~Aside
    /\ dir = 0 => inodes < MaxInode
    /\ inodes' = IF dir = 0 THEN inodes + 1 ELSE inodes
    /\ dir' = IF dir = 0 THEN inodes' ELSE dir
    /\ page' = [page EXCEPT ![dir'] = NoData]
    /\ ssi' = [Idle EXCEPT !.at = "open", !.fp = dir']
    /\ UNCHANGED <<ddir, disk, temps>>

SaveBegin ==
    /\ up /\ ssi.at = "idle" /\ dirty
    /\ OpenAside \/ OpenInPlace
    /\ began' = mem
    /\ NoFault
    /\ UNCHANGED <<opts, mem, dirty, newest, up, crashes, losses>>

\* secure_open() fails: in lstat(), access(), mkstemp() or fopen(), which
\* leave nothing, or in fdopen(), which leaves the temporary file.
OpenFails ==
    /\ up /\ ssi.at = "idle" /\ dirty
    /\ Fault
    /\ \/ UNCHANGED files
       \/ /\ Aside /\ inodes < MaxInode
          /\ inodes' = inodes + 1
          /\ temps' = temps \cup {inodes'}
          /\ UNCHANGED <<dir, ddir, page, disk>>
    /\ UNCHANGED <<opts, mem, began, newest, up, calls, crashes, losses>>

\* libc hands some of the accepted records to the operating system, or all.
Flushed(put) ==
    \E n \in Len(page[ssi.fp]) .. Len(put) :
        page' = [page EXCEPT ![ssi.fp] = SubSeq(put, 1, n)]

FlushedAll == page' = [page EXCEPT ![ssi.fp] = ssi.put]

\* secure_fprintf() of the next record the loop finds in the data; an error
\* stays in ssi->err and the loop ends.
Put ==
    /\ up /\ ssi.at = "open"
    /\ ~ssi.err /\ Len(ssi.put) < Len(mem)
    /\ \/ LET put == Append(ssi.put, mem[Len(ssi.put) + 1])
          IN  NoFault /\ Flushed(put) /\ ssi' = [ssi EXCEPT !.put = put]
       \/ Fault /\ Flushed(ssi.put) /\ ssi' = [ssi EXCEPT !.err = TRUE]
    /\ UNCHANGED <<opts, mem, began, dirty, newest, up, dir, ddir, disk, temps, inodes, crashes, losses>>

\* mutant: the owner clears its flag whatever secure_close() returns
CloseFailedClean ==
    /\ up /\ ssi.at = "open" /\ ssi.err
    /\ Flushed(ssi.put)
    /\ ssi' = Idle /\ dirty' = FALSE
    /\ UNCHANGED <<opts, mem, began, newest, up, dir, ddir, disk, temps, inodes, bounds>>

\* secure_close() after an error: close, rename nothing, report it.
CloseFailed ==
    /\ up /\ ssi.at = "open" /\ ssi.err
    /\ Flushed(ssi.put)
    /\ ssi' = Idle
    /\ UNCHANGED <<opts, mem, began, dirty, newest, up, dir, ddir, disk, temps, inodes, bounds>>

\* mutant: the flag is cleared before secure_close(), as save_input_history() does
CloseBeginClean ==
    /\ up /\ ssi.at = "open" /\ ~ssi.err /\ Len(ssi.put) = Len(mem)
    /\ ssi' = [ssi EXCEPT !.at = IF ssi.secure THEN "flush" ELSE "close"]
    /\ dirty' = FALSE
    /\ UNCHANGED <<opts, mem, began, newest, up, files, bounds>>

\* the end of the loop over the records
CloseBegin ==
    /\ up /\ ssi.at = "open" /\ ~ssi.err /\ Len(ssi.put) = Len(mem)
    /\ ssi' = [ssi EXCEPT !.at = IF ssi.secure THEN "flush" ELSE "close"]
    /\ UNCHANGED <<opts, mem, began, dirty, newest, up, files, bounds>>

\* mutant: fsync() is left out
FlushOnly ==
    /\ up /\ ssi.at = "flush"
    /\ NoFault /\ FlushedAll
    /\ ssi' = [ssi EXCEPT !.at = "close"]
    /\ UNCHANGED <<opts, mem, began, dirty, newest, up, dir, ddir, disk, temps, inodes, crashes, losses>>

\* fflush()
Flush ==
    /\ up /\ ssi.at = "flush"
    /\ \/ /\ NoFault /\ FlushedAll
          /\ ssi' = [ssi EXCEPT !.at = IF opts.fsync THEN "sync" ELSE "close"]
       \/ Fault /\ Flushed(ssi.put) /\ ssi' = Idle
    /\ UNCHANGED <<opts, mem, began, dirty, newest, up, dir, ddir, disk, temps, inodes, crashes, losses>>

\* fsync(): the content of the inode is on the disk, the directory is not.
Sync ==
    /\ up /\ ssi.at = "sync"
    /\ \/ NoFault /\ disk' = [disk EXCEPT ![ssi.fp] = page[ssi.fp]] /\ ssi' = [ssi EXCEPT !.at = "close"]
       \/ Fault /\ ssi' = Idle /\ UNCHANGED disk
    /\ UNCHANGED <<opts, mem, began, dirty, newest, up, dir, ddir, page, temps, inodes, crashes, losses>>

\* secure_close() returned 0 to the owner.
Saved == dirty' = FALSE /\ ssi' = Idle

\* fclose(), which flushes what is left.
Close ==
    /\ up /\ ssi.at = "close"
    /\ \/ /\ NoFault /\ FlushedAll
          /\ IF ssi.secure THEN ssi' = [ssi EXCEPT !.at = "rename"] /\ UNCHANGED dirty
                           ELSE Saved
       \/ Fault /\ Flushed(ssi.put) /\ ssi' = Idle /\ UNCHANGED dirty
    /\ UNCHANGED <<opts, mem, began, newest, up, dir, ddir, disk, temps, inodes, crashes, losses>>

\* rename() of the temporary file
Rename ==
    /\ up /\ ssi.at = "rename"
    /\ \/ NoFault /\ dir' = ssi.fp /\ temps' = temps \ {ssi.fp} /\ Saved
       \/ Fault /\ ssi' = Idle /\ UNCHANGED <<dir, temps, dirty>>
    /\ UNCHANGED <<opts, mem, began, newest, up, ddir, page, disk, inodes, crashes, losses>>

-----------------------------------------------------------------------------
\* The operating system and the world

\* The kernel writes an inode, or the directory, when it likes.
WriteBack ==
    /\ \/ \E i \in Inode : disk' = [disk EXCEPT ![i] = page[i]] /\ UNCHANGED ddir
       \/ ddir' = dir /\ UNCHANGED disk
    /\ UNCHANGED <<opts, mem, began, newest, up, calls, dir, page, temps, inodes, bounds>>

\* The program ends, at any point of a save; what libc buffered is gone.
Killed ==
    /\ up /\ crashes < MaxCrashes
    /\ crashes' = crashes + 1
    /\ up' = FALSE /\ ssi' = Idle
    /\ UNCHANGED <<opts, mem, began, dirty, newest, files, faults, losses>>

\* The machine ends with it and comes back with what was on the disk.
PowerLoss ==
    /\ crashes < MaxCrashes
    /\ crashes' = crashes + 1 /\ losses' = losses + 1
    /\ up' = FALSE /\ ssi' = Idle
    /\ dir' = ddir /\ page' = disk
    /\ UNCHANGED <<opts, mem, began, dirty, newest, ddir, disk, temps, inodes, faults>>

\* The program starts and reads its file (read_global_history() and others).
Start ==
    /\ ~up
    /\ up' = TRUE
    /\ mem' = Visible /\ began' = mem'
    /\ dirty' = FALSE
    /\ UNCHANGED <<opts, newest, ssi, files, bounds>>

SaveStep == Put \/ CloseFailed \/ CloseBegin \/ Flush \/ Sync \/ Close \/ Rename

Next ==
    \/ Change \/ SaveBegin \/ OpenFails \/ SaveStep
    \/ WriteBack \/ Killed \/ PowerLoss \/ Start

\* The periodic-saving timer starts a save as long as something is dirty, and
\* the calls of a save follow each other; nothing else has to happen.
Fairness ==
    /\ WF_vars(SaveBegin \/ OpenFails)
    /\ WF_vars(SaveStep)
    /\ WF_vars(Start)

Spec == Init /\ [][Next]_vars /\ Fairness

-----------------------------------------------------------------------------
\* Properties

Promise ==
    IF ~Aside THEN "none" ELSE IF opts.fsync THEN "all" ELSE "kill"

AF == INSTANCE AtomicFile WITH
        Contents <- Content,
        promise <- Promise,
        content <- Visible,
        durable <- IF Promise = "all" THEN OnDisk ELSE Visible

\* Saving aside, flushing, synchronising and renaming amounts to one step: at
\* every moment, and after every kind of crash the options cover, a reader of
\* the file finds the old data or all of the new, each record of it as it was
\* at some moment since the save began (the comment above secure_open_umask()
\* and the help of infofiles.secure_save).
ImplementsAtomicFile == AF!Init /\ [][AF!Next]_(AF!vars)

\* The owner clears its dirty flag only when the file holds its data: the
\* value secure_close() returns covers the errors of every call before it.
\* What the file may lack is no more than what changed since that save began;
\* when nothing did, began is mem and the file holds exactly mem.
CleanMeansSaved ==
    /\ TypeOK
    /\ up /\ ~dirty /\ ssi.at = "idle" => AF!Between(began, Visible, mem)

\* Data that is dirty while no save runs is in the file sooner or later, it
\* or newer data, however often saving fails, if it fails only finitely often
\* and the program is not ended: each failure leaves the flag set for the next
\* round of periodic saving, and what changes during a save cannot lose what
\* was there before it.
EventuallySaved ==
    \A v \in Version :
        up /\ dirty /\ ssi.at = "idle" /\ mem = Data(v)
            ~> ~up \/ AF!Between(Data(v), Visible, Data(MaxVersion))
=============================================================================
