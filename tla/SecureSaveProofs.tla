--------------------------- MODULE SecureSaveProofs ---------------------------
(***************************************************************************)
(* SecureSave implements AtomicFile, for any numbers of records, versions, *)
(* inodes, faults and crashes, and the owner's flag is clear only when the *)
(* file holds its data, but for what changed while they were saved.        *)
(*                                                                         *)
(* The invariant: a save that was written aside has an inode of its own,   *)
(* that no name leads to before rename(); and what a name leads to is on   *)
(* the disk as readers see it, if fsync() is asked for.                    *)
(***************************************************************************)
EXTENDS SecureSave, SequenceTheorems, TLAPS

\* The types by what they are about
OwnerTyped ==
    /\ opts \in [secure : BOOLEAN, fsync : BOOLEAN, symlink : BOOLEAN]
    /\ mem \in Content /\ began \in Content /\ dirty \in BOOLEAN /\ newest \in Version /\ up \in BOOLEAN
SaveTyped ==
    ssi \in [at : Stages, fp : 0 .. MaxInode, secure : BOOLEAN, err : BOOLEAN, put : Content]
FilesTyped ==
    /\ dir \in 0 .. MaxInode /\ ddir \in 0 .. MaxInode /\ inodes \in 0 .. MaxInode
    /\ page \in [Inode -> Content] /\ disk \in [Inode -> Content]
    /\ temps \subseteq Inode
BoundsTyped ==
    /\ faults \in 0 .. MaxFaults /\ crashes \in 0 .. MaxCrashes /\ losses \in 0 .. MaxCrashes
    /\ losses <= crashes

\* Names lead to inodes that were created.
Created == dir <= inodes /\ ddir <= inodes

\* What is still to be saved is the newest version.
Fresh == dirty => mem = Data(newest)

\* A save writes data that are still to be saved, to the file itself or to an
\* inode that no name leads to, neither now nor after a loss of power.
Saving ==
    ssi.at # "idle" =>
        /\ up /\ dirty
        /\ ssi.fp \in 1 .. inodes
        /\ (ssi.secure <=> Aside)
        /\ IF Aside THEN ssi.fp # dir /\ ssi.fp # ddir ELSE ssi.fp = dir

\* No record is as old as before the save began,
Taken ==
    ssi.at # "idle" =>
        /\ Len(began) = Records /\ Len(ssi.put) <= Records
        /\ \A i \in 1 .. Records : began[i] <= newest
        /\ \A i \in 1 .. Len(ssi.put) : began[i] <= ssi.put[i] /\ ssi.put[i] <= newest

\* secure_close() is only called with all of them accepted,
Accepted ==
    ssi.at \in {"flush", "sync", "close", "rename"} => ~ssi.err /\ Len(ssi.put) = Records

\* fflush() and fsync() are for files that will be renamed,
Renamed == ssi.at \in {"flush", "sync", "rename"} => ssi.secure

\* and those are complete after fflush() and on the disk after fsync().
Complete ==
    /\ ssi.secure /\ ssi.at \in {"sync", "close", "rename"} => page[ssi.fp] = ssi.put
    /\ ssi.secure /\ opts.fsync /\ ssi.at \in {"close", "rename"} => disk[ssi.fp] = ssi.put

\* What a name leads to was synchronised.
Synchronised ==
    Promise = "all" => \A i \in {dir, ddir} : i # 0 => disk[i] = page[i]

\* CleanMeansSaved but for the types
Clean == up /\ ~dirty /\ ssi.at = "idle" => AF!Between(began, Visible, mem)

IInv ==
    /\ OwnerTyped /\ SaveTyped /\ FilesTyped /\ BoundsTyped /\ Created
    /\ Fresh /\ Saving /\ Taken /\ Accepted /\ Renamed /\ Complete
    /\ Synchronised /\ Clean

-----------------------------------------------------------------------------

LEMMA TypedParts == OwnerTyped /\ SaveTyped /\ FilesTyped /\ BoundsTyped => TypeOK
BY DEF OwnerTyped, SaveTyped, FilesTyped, BoundsTyped, TypeOK

\* The data of a version are as many records as there are.
LEMMA DataTyped ==
    ASSUME NEW v \in Version
    PROVE  /\ Data(v) \in Content
           /\ Len(Data(v)) = Records
           /\ \A i \in 1 .. Records : Data(v)[i] = v
<1>1. Records \in Nat /\ Data(v) \in [1 .. Records -> Version]
  BY BoundsAssumption DEF Data
<1>2. Data(v) \in Seq(Version)
  BY <1>1, SeqDef
<1>3. Len(Data(v)) \in Nat /\ DOMAIN Data(v) = 1 .. Len(Data(v))
  BY <1>2, LenProperties
<1>4. DOMAIN Data(v) = 1 .. Records
  BY <1>1
<1>5. Len(Data(v)) = Records
  BY <1>1, <1>3, <1>4
<1> QED
  BY <1>2, <1>5 DEF Content, Data

LEMMA NoDataTyped == NoData \in Content /\ Len(NoData) = 0
BY DEF NoData, Content

\* Data that nothing happened to
LEMMA BetweenItself == ASSUME NEW c \in Content PROVE AF!Between(c, c, c)
<1>1. \A i \in 1 .. Len(c) : c[i] \in Version
  BY ElementOfSeq DEF Content
<1>2. \A i \in 1 .. Len(c) : c[i] <= c[i]
  BY <1>1 DEF Version
<1> QED
  BY <1>2 DEF AF!Between

\* The file is there or not, and nothing is being saved.
LEMMA InitIInv == Init => IInv
<1> SUFFICES ASSUME Init PROVE IInv
  OBVIOUS
<1> USE BoundsAssumption DEF Init, Inode
<1>0. 1 \in Version /\ 0 \in Version
  BY DEF Version
<1>1. PICK there \in {0, 1} :
        /\ inodes = there /\ dir = there /\ ddir = there /\ newest = there
        /\ page = [i \in Inode |-> IF i = there THEN Data(1) ELSE NoData]
  OBVIOUS
<1>2. page \in [Inode -> Content] /\ disk = page
  BY <1>0, <1>1, DataTyped, NoDataTyped
<1>3. mem \in Content
  BY <1>1, <1>2, NoDataTyped DEF Visible
<1>4. newest \in Version
  BY <1>0, <1>1
<1>5. OwnerTyped /\ Fresh
  BY <1>3, <1>4 DEF OwnerTyped, Fresh
<1>6. SaveTyped
  BY NoDataTyped DEF SaveTyped, Idle, Stages
<1>7. FilesTyped /\ BoundsTyped
  BY <1>1, <1>2 DEF FilesTyped, BoundsTyped
<1>8. Created
  BY <1>1 DEF Created
<1>9. Saving /\ Taken /\ Accepted /\ Renamed /\ Complete
  BY DEF Saving, Taken, Accepted, Renamed, Complete, Idle
<1>10. Synchronised
  BY <1>1, <1>2 DEF Synchronised
<1>11. Clean
  BY <1>3, BetweenItself DEF Clean
<1> QED
  BY <1>5, <1>6, <1>7, <1>8, <1>9, <1>10, <1>11 DEF IInv

-----------------------------------------------------------------------------
\* What is common to the actions

\* What libc hands over of the accepted records is a content.
LEMMA FlushedContent ==
    ASSUME IInv, ssi.at # "idle", NEW put \in Content, Flushed(put)
    PROVE  \E c \in Content : page' = [page EXCEPT ![ssi.fp] = c]
<1>1. PICK n \in Len(page[ssi.fp]) .. Len(put) :
        page' = [page EXCEPT ![ssi.fp] = SubSeq(put, 1, n)]
  BY DEF Flushed
<1>2. page[ssi.fp] \in Content
  BY BoundsAssumption DEF IInv, Saving, FilesTyped, Inode
<1>3. Len(page[ssi.fp]) \in Nat /\ Len(put) \in Nat
  BY <1>2, LenProperties DEF Content
<1>4. n \in Int /\ n <= Len(put)
  BY <1>3
<1>5. \A i \in 1 .. n : put[i] \in Version
  BY <1>3, <1>4, ElementOfSeq DEF Content
<1>6. SubSeq(put, 1, n) \in Content
  BY <1>4, <1>5, SubSeqProperties DEF Content
<1> QED
  BY <1>1, <1>6

\* Writing the inode of the save disturbs no other.
LEMMA InodeWritten ==
    ASSUME IInv, ssi.at # "idle", NEW c \in Content,
           page' = [page EXCEPT ![ssi.fp] = c],
           UNCHANGED <<opts, dir, ddir, disk, temps, inodes>>
    PROVE  /\ FilesTyped' /\ Created' /\ Synchronised'
           /\ page'[ssi.fp] = c
<1>1. ssi.fp \in Inode
  BY BoundsAssumption DEF IInv, Saving, FilesTyped, Inode
<1>2. FilesTyped' /\ page'[ssi.fp] = c
  BY <1>1 DEF IInv, FilesTyped
<1>3. Created'
  BY <1>1 DEF IInv, FilesTyped, Created
<1>4. Synchronised'
  <2> SUFFICES ASSUME Promise = "all", NEW i \in {dir, ddir}, i # 0
               PROVE  disk[i] = page'[i]
    BY DEF Synchronised, Promise, Aside
  <2>1. ssi.fp # i
    BY DEF IInv, Saving, Promise
  <2>2. i \in Inode
    BY DEF IInv, FilesTyped, Inode
  <2> QED
    BY <2>1, <2>2 DEF IInv, FilesTyped, Synchronised
<1> QED
  BY <1>2, <1>3, <1>4

\* With no save under way most of the invariant says nothing.
LEMMA IdleSaves ==
    ASSUME ssi' = Idle
    PROVE  SaveTyped' /\ Saving' /\ Taken' /\ Accepted' /\ Renamed' /\ Complete'
BY BoundsAssumption, NoDataTyped
   DEF Idle, SaveTyped, Stages, Saving, Taken, Accepted, Renamed, Complete

\* A save that ends with an error leaves its owner dirty.
LEMMA SaveGivenUp ==
    ASSUME IInv, ssi.at # "idle", ssi' = Idle,
           UNCHANGED <<opts, mem, began, dirty, newest, up>>, BoundsTyped',
           FilesTyped' /\ Created' /\ Synchronised'
    PROVE  IInv'
<1>1. OwnerTyped' /\ Fresh' /\ Clean'
  BY DEF IInv, OwnerTyped, Fresh, Saving, Clean
<1> QED
  BY <1>1, IdleSaves DEF IInv

\* All the records a save accepted are data as they were since it began.
LEMMA WholeIsBetween ==
    ASSUME IInv, ssi.at # "idle", Len(ssi.put) = Records
    PROVE  AF!Between(began, ssi.put, mem)
<1>1. newest \in Version /\ mem = Data(newest)
  BY DEF IInv, OwnerTyped, Saving, Fresh
<1>2. Len(mem) = Records /\ \A i \in 1 .. Records : mem[i] = newest
  BY <1>1, DataTyped
<1>3. /\ Len(began) = Records
      /\ \A i \in 1 .. Records : began[i] <= ssi.put[i] /\ ssi.put[i] <= newest
  BY DEF IInv, Taken
<1> QED
  BY <1>2, <1>3 DEF AF!Between

-----------------------------------------------------------------------------
\* The actions, each of which keeps the invariant

\* The data may change during a save, which then takes newer records.
LEMMA ChangeIInv == ASSUME IInv, Change PROVE IInv'
<1> USE BoundsAssumption DEF IInv, Change, files, bounds
<1>1. newest' \in Version /\ newest < newest' /\ newest \in Nat /\ newest' \in Nat
  BY DEF OwnerTyped, Version
<1>2. OwnerTyped' /\ Fresh'
  BY <1>1, DataTyped DEF OwnerTyped, Fresh
<1>3. SaveTyped' /\ FilesTyped' /\ BoundsTyped' /\ Created'
  BY DEF SaveTyped, FilesTyped, BoundsTyped, Created
<1>4. Taken'
  <2> SUFFICES ASSUME ssi.at # "idle" PROVE Taken'
    BY DEF Taken
  <2>1. \A i \in 1 .. Records : began[i] <= newest'
    <3> SUFFICES ASSUME NEW i \in 1 .. Records PROVE began[i] <= newest'
      OBVIOUS
    <3>1. began[i] <= newest /\ began[i] \in Version
      BY ElementOfSeq DEF Taken, OwnerTyped, Content
    <3> QED
      BY <1>1, <3>1 DEF Version
  <2>2. \A i \in 1 .. Len(ssi.put) : began[i] <= ssi.put[i] /\ ssi.put[i] <= newest'
    <3> SUFFICES ASSUME NEW i \in 1 .. Len(ssi.put)
                 PROVE  began[i] <= ssi.put[i] /\ ssi.put[i] <= newest'
      OBVIOUS
    <3>0. ssi.put \in Seq(Version)
      BY DEF SaveTyped, Content
    <3>1. began[i] <= ssi.put[i] /\ ssi.put[i] <= newest /\ ssi.put[i] \in Version
      BY <3>0, ElementOfSeq DEF Taken
    <3> QED
      BY <1>1, <3>1 DEF Version
  <2> QED
    BY <2>1, <2>2 DEF Taken
<1>5. Saving' /\ Accepted' /\ Renamed' /\ Complete'
  BY DEF Saving, Aside, Accepted, Renamed, Complete
<1>6. Synchronised' /\ Clean'
  BY DEF Synchronised, Promise, Aside, Clean
<1> QED
  BY <1>2, <1>3, <1>4, <1>5, <1>6

\* How a save begins
LEMMA OpenedSave ==
    ASSUME NEW f \in Inode, NEW s \in BOOLEAN,
           ssi' = [at |-> "open", fp |-> f, secure |-> s, err |-> FALSE, put |-> NoData]
    PROVE  /\ SaveTyped' /\ ssi'.at = "open" /\ ssi'.fp = f /\ ssi'.secure = s
           /\ ssi'.put = NoData
<1>2. f \in 0 .. MaxInode /\ "open" \in Stages /\ NoData \in Content
  BY BoundsAssumption, NoDataTyped DEF Inode, Stages
<1>3. SaveTyped'
  BY <1>2 DEF SaveTyped
<1> QED
  BY <1>3

\* What it begins with is the newest version.
LEMMA OpenedTaken ==
    ASSUME IInv, dirty, began' = mem, UNCHANGED newest, ssi'.put = NoData
    PROVE  Taken'
<1>1. newest \in Version /\ mem = Data(newest) /\ Records \in Nat
  BY BoundsAssumption DEF IInv, OwnerTyped, Fresh
<1>2. Len(began') = Records /\ Len(ssi'.put) = 0 /\ \A i \in 1 .. Records : began'[i] = newest
  BY <1>1, DataTyped, NoDataTyped
<1>3. newest <= newest
  BY <1>1 DEF Version
<1> QED
  BY <1>1, <1>2, <1>3 DEF Taken

\* mkstemp() makes an inode that no name leads to.
LEMMA OpenAsideIInv == ASSUME IInv, SaveBegin, OpenAside PROVE IInv'
<1> USE BoundsAssumption DEF IInv, SaveBegin, OpenAside, NoFault
<1>1. inodes' \in Inode /\ inodes' # dir /\ inodes' # ddir /\ NoData \in Content
  BY DEF FilesTyped, Created, Inode, NoData, Content, Version
<1>2. OwnerTyped' /\ BoundsTyped' /\ Fresh'
  BY DEF OwnerTyped, BoundsTyped, Fresh
<1>3. FilesTyped' /\ Created'
  BY <1>1 DEF FilesTyped, Created, Inode
<1>5. ssi' = [at |-> "open", fp |-> inodes', secure |-> TRUE, err |-> FALSE, put |-> NoData]
  BY DEF Idle
<1>6. /\ SaveTyped' /\ ssi'.at = "open" /\ ssi'.fp = inodes' /\ ssi'.secure = TRUE
      /\ ssi'.put = NoData
  BY <1>1, <1>5, OpenedSave
<1>7. Saving'
  <2>1. inodes' \in 1 .. inodes'
    BY <1>1 DEF Inode, FilesTyped
  <2> QED
    BY <1>1, <1>6, <2>1 DEF Saving, Aside
<1>8. Taken' /\ Accepted' /\ Renamed' /\ Complete'
  BY <1>6, OpenedTaken DEF Accepted, Renamed, Complete
<1>9. Synchronised'
  BY <1>1 DEF Synchronised, Promise, Aside, FilesTyped, Inode
<1>10. Clean'
  BY <1>6 DEF Clean
<1> QED
  BY <1>2, <1>3, <1>6, <1>7, <1>8, <1>9, <1>10

\* fopen() truncates the file, or makes one.
LEMMA OpenInPlaceIInv == ASSUME IInv, SaveBegin, OpenInPlace PROVE IInv'
<1> USE BoundsAssumption DEF IInv, SaveBegin, OpenInPlace, NoFault
<1>1. dir' \in Inode /\ dir' <= inodes' /\ inodes <= inodes' /\ NoData \in Content
  BY DEF FilesTyped, Created, Inode, NoData, Content, Version
<1>2. OwnerTyped' /\ BoundsTyped' /\ Fresh'
  BY DEF OwnerTyped, BoundsTyped, Fresh
<1>3. FilesTyped' /\ Created'
  BY <1>1 DEF FilesTyped, Created, Inode
<1>5. ssi' = [at |-> "open", fp |-> dir', secure |-> FALSE, err |-> FALSE, put |-> NoData]
  BY DEF Idle
<1>6. /\ SaveTyped' /\ ssi'.at = "open" /\ ssi'.fp = dir' /\ ssi'.secure = FALSE
      /\ ssi'.put = NoData
  BY <1>1, <1>5, OpenedSave
<1>7. Saving'
  <2>1. dir' \in 1 .. inodes'
    BY <1>1 DEF Inode, FilesTyped
  <2> QED
    BY <1>1, <1>6, <2>1 DEF Saving, Aside
<1>8. Taken' /\ Accepted' /\ Renamed' /\ Complete'
  BY <1>6, OpenedTaken DEF Accepted, Renamed, Complete
<1>9. Synchronised' /\ Clean'
  BY <1>6 DEF Synchronised, Promise, Aside, Clean
<1> QED
  BY <1>2, <1>3, <1>6, <1>7, <1>8, <1>9

\* A failing secure_open() leaves at most a temporary file.
LEMMA OpenFailsIInv == ASSUME IInv, OpenFails PROVE IInv'
<1> USE BoundsAssumption DEF IInv, OpenFails, Fault, calls
<1>1. UNCHANGED <<opts, mem, began, dirty, newest, up, ssi, dir, ddir, page, disk>> /\ inodes <= inodes'
  BY DEF files, FilesTyped
<1>2. OwnerTyped' /\ SaveTyped' /\ BoundsTyped'
  BY <1>1 DEF OwnerTyped, SaveTyped, BoundsTyped
<1>3. FilesTyped' /\ Created'
  <2>1. CASE UNCHANGED files
    BY <2>1 DEF FilesTyped, Created, files
  <2>2. CASE ~UNCHANGED files
    <3>1. inodes' \in Inode /\ temps' = temps \cup {inodes'}
      BY <2>2 DEF FilesTyped, Inode
    <3> QED
      BY <1>1, <3>1 DEF FilesTyped, Created, Inode
  <2> QED
    BY <2>1, <2>2
<1>4. Fresh' /\ Synchronised' /\ Clean'
  BY <1>1 DEF Fresh, Synchronised, Promise, Aside, Clean, Visible
<1>5. Saving' /\ Taken' /\ Accepted' /\ Renamed' /\ Complete'
  BY <1>1 DEF Saving, Aside, Taken, Accepted, Renamed, Complete
<1> QED
  BY <1>2, <1>3, <1>4, <1>5

\* A record more is accepted, and some of them are handed over.
LEMMA PutIInv == ASSUME IInv, Put PROVE IInv'
<1> USE BoundsAssumption DEF Put
<1>1. /\ ssi.at = "open" /\ ssi.put \in Content /\ ssi.fp \in Inode /\ dirty
      /\ newest \in Version /\ mem = Data(newest) /\ Len(ssi.put) \in Nat /\ Records \in Nat
  BY LenProperties DEF IInv, SaveTyped, OwnerTyped, Saving, Fresh, Content, FilesTyped, Inode
<1>2. /\ Len(mem) = Records
      /\ Len(ssi.put) < Records
      /\ mem[Len(ssi.put) + 1] = newest
  BY <1>1, DataTyped
<1> DEFINE more == Append(ssi.put, mem[Len(ssi.put) + 1])
<1>3. /\ more \in Content /\ Len(more) = Len(ssi.put) + 1
      /\ \A i \in 1 .. Len(ssi.put) : more[i] = ssi.put[i]
      /\ more[Len(ssi.put) + 1] = newest
  BY <1>1, <1>2, AppendProperties DEF Content
<1>4. PICK put \in {ssi.put, more} :
        /\ Flushed(put)
        /\ \/ ssi' = [ssi EXCEPT !.put = put]
           \/ ssi' = [ssi EXCEPT !.err = TRUE] /\ put = ssi.put
  <2>1. CASE NoFault /\ Flushed(more) /\ ssi' = [ssi EXCEPT !.put = more]
    BY <2>1
  <2>2. CASE Fault /\ Flushed(ssi.put) /\ ssi' = [ssi EXCEPT !.err = TRUE]
    BY <2>2
  <2> QED
    BY <2>1, <2>2
<1>5. /\ put \in Content /\ Len(put) \in Nat /\ Len(put) <= Records
      /\ \A i \in 1 .. Len(put) : began[i] <= put[i] /\ put[i] <= newest
  <2>1. \A i \in 1 .. Len(ssi.put) : began[i] <= ssi.put[i] /\ ssi.put[i] <= newest
    BY <1>1 DEF IInv, Taken
  <2>2. \A i \in 1 .. Len(more) : began[i] <= more[i] /\ more[i] <= newest
    <3> SUFFICES ASSUME NEW i \in 1 .. Len(more)
                 PROVE  began[i] <= more[i] /\ more[i] <= newest
      OBVIOUS
    <3>1. CASE i \in 1 .. Len(ssi.put)
      BY <1>3, <2>1, <3>1
    <3>2. CASE i = Len(ssi.put) + 1
      <4>1. more[i] = newest /\ i \in 1 .. Records
        BY <1>1, <1>2, <1>3, <3>2
      <4>2. began[i] <= newest /\ newest <= newest
        BY <1>1, <4>1 DEF IInv, Taken, Version
      <4> QED
        BY <4>1, <4>2
    <3> QED
      BY <1>1, <1>3, <3>1, <3>2
  <2>3. CASE put = ssi.put
    BY <1>1, <1>2, <2>1, <2>3
  <2>4. CASE put = more
    BY <1>1, <1>2, <1>3, <2>2, <2>4
  <2> QED
    BY <2>3, <2>4
<1> HIDE DEF more
<1>6. PICK c \in Content : page' = [page EXCEPT ![ssi.fp] = c]
  BY <1>1, <1>4, <1>5, FlushedContent
<1>7. FilesTyped' /\ Created' /\ Synchronised'
  BY <1>1, <1>6, InodeWritten
<1>8. OwnerTyped' /\ BoundsTyped' /\ Fresh'
  BY DEF IInv, OwnerTyped, BoundsTyped, Fresh, NoFault, Fault
<1>9. /\ SaveTyped' /\ ssi'.at = "open" /\ ssi'.fp = ssi.fp /\ ssi'.secure = ssi.secure
      /\ ssi'.put = put
  BY <1>1, <1>4, <1>5 DEF IInv, SaveTyped
<1>10. Saving'
  BY <1>1, <1>9 DEF IInv, Saving, Aside
<1>11. Taken'
  BY <1>1, <1>5, <1>9 DEF IInv, Taken
<1>12. Accepted' /\ Renamed' /\ Complete' /\ Clean'
  BY <1>9 DEF Accepted, Renamed, Complete, Clean
<1> QED
  BY <1>7, <1>8, <1>9, <1>10, <1>11, <1>12 DEF IInv

\* An error ends the save.
LEMMA CloseFailedIInv == ASSUME IInv, CloseFailed PROVE IInv'
<1> USE BoundsAssumption DEF CloseFailed
<1>1. ssi.at # "idle" /\ ssi.put \in Content
  BY DEF IInv, SaveTyped
<1>2. PICK c \in Content : page' = [page EXCEPT ![ssi.fp] = c]
  BY <1>1, FlushedContent
<1>3. FilesTyped' /\ Created' /\ Synchronised'
  BY <1>1, <1>2, InodeWritten
<1>4. BoundsTyped'
  BY DEF IInv, BoundsTyped, bounds
<1> QED
  BY <1>1, <1>3, <1>4, SaveGivenUp

\* All records are accepted.
LEMMA CloseBeginIInv == ASSUME IInv, CloseBegin PROVE IInv'
<1> USE BoundsAssumption DEF IInv, CloseBegin, files, bounds
<1>1. OwnerTyped' /\ FilesTyped' /\ BoundsTyped' /\ Created' /\ Fresh'
  BY DEF OwnerTyped, FilesTyped, BoundsTyped, Created, Fresh
<1>2. SaveTyped'
  BY DEF SaveTyped, Stages
<1>3. /\ ssi'.at = IF ssi.secure THEN "flush" ELSE "close"
      /\ ssi'.fp = ssi.fp /\ ssi'.secure = ssi.secure /\ ssi'.put = ssi.put /\ ssi'.err = ssi.err
  BY DEF SaveTyped
<1>4. Saving' /\ Taken'
  BY <1>3 DEF Saving, Taken, Aside
<1>5. Len(ssi.put) = Records
  BY DataTyped DEF Saving, Fresh, OwnerTyped
<1>6. Accepted' /\ Renamed' /\ Complete'
  BY <1>3, <1>5 DEF Accepted, Renamed, Complete
<1>7. Synchronised' /\ Clean'
  BY <1>3 DEF Synchronised, Promise, Aside, Clean, Visible
<1> QED
  BY <1>1, <1>2, <1>4, <1>6, <1>7

\* After fflush() the inode has all of the data.
LEMMA FlushIInv == ASSUME IInv, Flush PROVE IInv'
<1> USE BoundsAssumption DEF Flush
<1>1. /\ ssi.at = "flush" /\ ssi.put \in Content /\ ssi.fp \in Inode
      /\ ssi.secure /\ ~ssi.err /\ Len(ssi.put) = Records
  BY DEF IInv, SaveTyped, Saving, FilesTyped, Inode, Accepted, Renamed
<1>2. OwnerTyped' /\ BoundsTyped' /\ Fresh'
  BY DEF IInv, OwnerTyped, Fresh, BoundsTyped, NoFault, Fault
<1>3. CASE /\ NoFault /\ FlushedAll
           /\ ssi' = [ssi EXCEPT !.at = IF opts.fsync THEN "sync" ELSE "close"]
  <2>1. page' = [page EXCEPT ![ssi.fp] = ssi.put]
    BY <1>3 DEF FlushedAll
  <2>2. /\ FilesTyped' /\ Created' /\ Synchronised'
        /\ page'[ssi.fp] = ssi.put
    BY <1>1, <2>1, InodeWritten
  <2>3. SaveTyped'
    BY <1>3 DEF IInv, SaveTyped, Stages
  <2>4. /\ ssi'.at = IF opts.fsync THEN "sync" ELSE "close"
        /\ ssi'.fp = ssi.fp /\ ssi'.secure = ssi.secure /\ ssi'.put = ssi.put /\ ssi'.err = ssi.err
    BY <1>3 DEF IInv, SaveTyped
  <2>5. Saving' /\ Taken'
    BY <1>1, <2>4 DEF IInv, Saving, Aside, Taken
  <2>6. Accepted' /\ Renamed' /\ Complete' /\ Clean'
    BY <1>1, <2>2, <2>4 DEF Accepted, Renamed, Complete, Clean
  <2> QED
    BY <1>2, <2>2, <2>3, <2>5, <2>6 DEF IInv
<1>4. CASE Fault /\ Flushed(ssi.put) /\ ssi' = Idle
  <2>1. PICK c \in Content : page' = [page EXCEPT ![ssi.fp] = c]
    BY <1>1, <1>4, FlushedContent
  <2>2. FilesTyped' /\ Created' /\ Synchronised'
    BY <1>1, <2>1, InodeWritten
  <2> QED
    BY <1>1, <1>2, <1>4, <2>2, SaveGivenUp
<1> QED
  BY <1>3, <1>4

\* fsync() makes the inode durable, before any name leads to it.
LEMMA SyncIInv == ASSUME IInv, Sync PROVE IInv'
<1> USE BoundsAssumption DEF Sync
<1>1. /\ ssi.at = "sync" /\ ssi.fp \in Inode /\ ssi.secure
      /\ page[ssi.fp] = ssi.put /\ page[ssi.fp] \in Content
      /\ ssi.fp # dir /\ ssi.fp # ddir
  BY DEF IInv, Saving, FilesTyped, Inode, Renamed, Complete
<1>2. OwnerTyped' /\ BoundsTyped' /\ Fresh'
  BY DEF IInv, OwnerTyped, Fresh, BoundsTyped, NoFault, Fault
<1>3. CASE /\ NoFault /\ disk' = [disk EXCEPT ![ssi.fp] = page[ssi.fp]]
           /\ ssi' = [ssi EXCEPT !.at = "close"]
  <2>1. FilesTyped' /\ Created' /\ disk'[ssi.fp] = ssi.put
    BY <1>1, <1>3 DEF IInv, FilesTyped, Created
  <2>3. Synchronised'
    BY <1>1, <1>3 DEF IInv, FilesTyped, Synchronised, Promise, Aside, Inode
  <2>4. SaveTyped'
    BY <1>3 DEF IInv, SaveTyped, Stages
  <2>5. /\ ssi'.at = "close" /\ ssi'.fp = ssi.fp /\ ssi'.secure = ssi.secure
        /\ ssi'.put = ssi.put /\ ssi'.err = ssi.err
    BY <1>3 DEF IInv, SaveTyped
  <2>6. Saving' /\ Taken' /\ Accepted'
    BY <1>1, <2>5 DEF IInv, Saving, Aside, Taken, Accepted
  <2>7. Renamed' /\ Complete' /\ Clean'
    BY <1>1, <2>1, <2>5 DEF Renamed, Complete, Clean
  <2> QED
    BY <1>2, <2>1, <2>3, <2>4, <2>6, <2>7 DEF IInv
<1>4. CASE Fault /\ ssi' = Idle /\ UNCHANGED disk
  <2>1. FilesTyped' /\ Created' /\ Synchronised'
    BY <1>4 DEF IInv, FilesTyped, Created, Synchronised, Promise, Aside
  <2> QED
    BY <1>1, <1>2, <1>4, <2>1, SaveGivenUp
<1> QED
  BY <1>3, <1>4

\* fclose() hands over what is left; the file saved in place has all now.
LEMMA CloseIInv == ASSUME IInv, Close PROVE IInv'
<1> USE BoundsAssumption DEF Close
<1>1. /\ ssi.at = "close" /\ ssi.put \in Content /\ ssi.fp \in Inode
      /\ ~ssi.err /\ Len(ssi.put) = Records /\ up
  BY DEF IInv, SaveTyped, Saving, FilesTyped, Inode, Accepted
<1>2. BoundsTyped'
  BY DEF IInv, BoundsTyped, NoFault, Fault
<1>3. CASE /\ NoFault /\ FlushedAll
           /\ IF ssi.secure THEN ssi' = [ssi EXCEPT !.at = "rename"] /\ UNCHANGED dirty
                            ELSE Saved
  <2>1. page' = [page EXCEPT ![ssi.fp] = ssi.put]
    BY <1>3 DEF FlushedAll
  <2>2. /\ FilesTyped' /\ Created' /\ Synchronised'
        /\ page'[ssi.fp] = ssi.put
    BY <1>1, <2>1, InodeWritten
  <2>3. CASE ssi.secure /\ ssi' = [ssi EXCEPT !.at = "rename"] /\ UNCHANGED dirty
    <3>1. SaveTyped' /\ OwnerTyped' /\ Fresh'
      BY <2>3 DEF IInv, SaveTyped, Stages, OwnerTyped, Fresh
    <3>2. /\ ssi'.at = "rename" /\ ssi'.fp = ssi.fp /\ ssi'.secure = ssi.secure
          /\ ssi'.put = ssi.put /\ ssi'.err = ssi.err
      BY <2>3 DEF IInv, SaveTyped
    <3>3. Saving' /\ Taken'
      BY <1>1, <2>3, <3>2 DEF IInv, Saving, Aside, Taken
    <3>4. Accepted' /\ Renamed' /\ Clean'
      BY <1>1, <2>2, <2>3, <3>2 DEF Accepted, Renamed, Clean
    <3>5. Complete'
      BY <1>1, <2>2, <2>3, <3>2 DEF IInv, Complete
    <3> QED
      BY <1>2, <2>2, <3>1, <3>3, <3>4, <3>5 DEF IInv
  <2>4. CASE ~ssi.secure /\ Saved
    <3>1. ssi.fp = dir /\ dir # 0
      BY <1>1, <2>4 DEF IInv, Saving, FilesTyped, Inode
    <3>2. OwnerTyped' /\ Fresh'
      BY <2>4 DEF IInv, OwnerTyped, Fresh, Saved
    <3>3. Visible' = ssi.put /\ UNCHANGED <<began, mem>>
      BY <2>2, <3>1 DEF Visible
    <3>4. Clean'
      BY <1>1, <3>3, WholeIsBetween DEF Clean
    <3> QED
      BY <1>2, <2>2, <2>4, <3>2, <3>4, IdleSaves DEF IInv, Saved
  <2> QED
    BY <1>3, <2>3, <2>4
<1>4. CASE Fault /\ Flushed(ssi.put) /\ ssi' = Idle /\ UNCHANGED dirty
  <2>1. PICK c \in Content : page' = [page EXCEPT ![ssi.fp] = c]
    BY <1>1, <1>4, FlushedContent
  <2>2. FilesTyped' /\ Created' /\ Synchronised'
    BY <1>1, <2>1, InodeWritten
  <2> QED
    BY <1>1, <1>2, <1>4, <2>2, SaveGivenUp
<1> QED
  BY <1>3, <1>4

\* rename() gives the name to an inode that is complete and, if fsync() is
\* asked for, durable.
LEMMA RenameIInv == ASSUME IInv, Rename PROVE IInv'
<1> USE BoundsAssumption DEF Rename
<1>1. /\ ssi.at = "rename" /\ ssi.fp \in Inode /\ ssi.fp <= inodes /\ ssi.secure
      /\ page[ssi.fp] = ssi.put /\ (opts.fsync => disk[ssi.fp] = ssi.put)
      /\ Len(ssi.put) = Records
  BY DEF IInv, Saving, FilesTyped, Inode, Renamed, Accepted, Complete
<1>2. BoundsTyped'
  BY DEF IInv, BoundsTyped, NoFault, Fault
<1>3. CASE NoFault /\ dir' = ssi.fp /\ temps' = temps \ {ssi.fp} /\ Saved
  <2>1. OwnerTyped' /\ Created' /\ Fresh'
    BY <1>1, <1>3 DEF IInv, OwnerTyped, Created, Fresh, Saved
  <2>4. FilesTyped'
    <3>1. dir' \in 0 .. MaxInode
      BY <1>1, <1>3 DEF Inode
    <3>2. temps' \subseteq Inode
      BY <1>3 DEF IInv, FilesTyped
    <3> QED
      BY <3>1, <3>2 DEF IInv, FilesTyped
  <2>2. Synchronised'
    BY <1>1, <1>3 DEF IInv, Synchronised, Promise, Aside
  <2>3. Clean'
    <3>1. Visible' = ssi.put /\ UNCHANGED <<began, mem>>
      BY <1>1, <1>3 DEF Visible, Inode
    <3> QED
      BY <1>1, <3>1, WholeIsBetween DEF Clean
  <2> QED
    BY <1>2, <1>3, <2>1, <2>2, <2>3, <2>4, IdleSaves DEF IInv, Saved
<1>4. CASE Fault /\ ssi' = Idle /\ UNCHANGED <<dir, temps, dirty>>
  <2>1. FilesTyped' /\ Created' /\ Synchronised'
    BY <1>4 DEF IInv, FilesTyped, Created, Synchronised, Promise, Aside
  <2> QED
    BY <1>1, <1>2, <1>4, <2>1, SaveGivenUp
<1> QED
  BY <1>3, <1>4

\* What the kernel writes readers see already.
LEMMA WriteBackIInv == ASSUME IInv, WriteBack PROVE IInv'
<1> USE BoundsAssumption DEF WriteBack, calls, bounds
<1>1. UNCHANGED <<opts, mem, began, dirty, newest, up, ssi, dir, page, temps, inodes, faults, crashes, losses>>
  OBVIOUS
<1>2. /\ ddir' \in {dir, ddir}
      /\ disk' \in [Inode -> Content]
      /\ \A i \in Inode : disk'[i] = disk[i] \/ disk'[i] = page[i]
  BY DEF IInv, FilesTyped
<1>3. OwnerTyped' /\ SaveTyped' /\ FilesTyped' /\ BoundsTyped'
  BY <1>1, <1>2 DEF IInv, OwnerTyped, SaveTyped, FilesTyped, BoundsTyped
<1>4. Created' /\ Fresh'
  BY <1>1, <1>2 DEF IInv, Created, Fresh
<1>5. Taken' /\ Accepted' /\ Renamed' /\ Clean'
  BY <1>1 DEF IInv, Taken, Accepted, Renamed, Clean, Visible
<1>6. Saving'
  BY <1>1, <1>2 DEF IInv, Saving, Aside
<1>7. Complete'
  <2>1. ssi.at # "idle" => ssi.fp \in Inode
    BY DEF IInv, Saving, FilesTyped, Inode
  <2> QED
    BY <1>1, <1>2, <2>1 DEF IInv, Complete
<1>8. Synchronised'
  BY <1>1, <1>2 DEF IInv, FilesTyped, Synchronised, Promise, Aside, Inode
<1> QED
  BY <1>3, <1>4, <1>5, <1>6, <1>7, <1>8 DEF IInv

LEMMA KilledIInv == ASSUME IInv, Killed PROVE IInv'
<1> USE BoundsAssumption DEF IInv, Killed, files
<1>1. OwnerTyped' /\ Fresh'
  BY DEF OwnerTyped, Fresh
<1>4. BoundsTyped'
  BY DEF BoundsTyped
<1>2. FilesTyped' /\ Created'
  BY DEF FilesTyped, Created
<1>3. Synchronised' /\ Clean'
  BY DEF Synchronised, Promise, Aside, Clean
<1> QED
  BY <1>1, <1>2, <1>3, <1>4, IdleSaves

\* What comes back is what was on the disk.
LEMMA PowerLossIInv == ASSUME IInv, PowerLoss PROVE IInv'
<1> USE BoundsAssumption DEF IInv, PowerLoss
<1>1. OwnerTyped' /\ Fresh'
  BY DEF OwnerTyped, Fresh
<1>4. BoundsTyped'
  BY DEF BoundsTyped
<1>2. FilesTyped' /\ Created'
  BY DEF FilesTyped, Created
<1>3. Synchronised' /\ Clean'
  BY DEF Synchronised, Promise, Aside, Clean
<1> QED
  BY <1>1, <1>2, <1>3, <1>4, IdleSaves

\* The program that starts has what its file has.
LEMMA StartIInv == ASSUME IInv, Start PROVE IInv'
<1> USE BoundsAssumption DEF IInv, Start, files, bounds
<1>1. mem' \in Content /\ began' = mem' /\ mem' = Visible'
  BY NoDataTyped DEF Visible, FilesTyped, Inode
<1>2. ssi.at = "idle"
  BY DEF Saving
<1>3. OwnerTyped' /\ SaveTyped' /\ FilesTyped' /\ BoundsTyped'
  BY <1>1 DEF OwnerTyped, SaveTyped, FilesTyped, BoundsTyped
<1>4. Created' /\ Fresh'
  BY DEF Created, Fresh
<1>5. Saving' /\ Taken' /\ Accepted' /\ Renamed' /\ Complete'
  BY <1>2 DEF Saving, Taken, Accepted, Renamed, Complete
<1>6. Synchronised'
  BY DEF Synchronised, Promise, Aside
<1>7. Clean'
  BY <1>1, BetweenItself DEF Clean
<1> QED
  BY <1>3, <1>4, <1>5, <1>6, <1>7

LEMMA StepIInv == ASSUME IInv, [Next]_vars PROVE IInv'
<1>1. CASE UNCHANGED vars
  <2>1. OwnerTyped' /\ SaveTyped' /\ FilesTyped' /\ BoundsTyped' /\ Created' /\ Fresh'
    BY <1>1 DEF IInv, vars, calls, files, bounds, OwnerTyped, SaveTyped, FilesTyped,
                BoundsTyped, Created, Fresh
  <2>2. Saving' /\ Taken' /\ Accepted' /\ Renamed' /\ Complete' /\ Synchronised' /\ Clean'
    BY <1>1 DEF IInv, vars, calls, files, Saving, Taken, Accepted, Renamed, Complete,
                Synchronised, Promise, Aside, Clean, Visible
  <2> QED
    BY <2>1, <2>2 DEF IInv
<1>2. CASE SaveBegin
  BY <1>2, OpenAsideIInv, OpenInPlaceIInv DEF SaveBegin
<1>3. CASE SaveStep
  BY <1>3, PutIInv, CloseFailedIInv, CloseBeginIInv, FlushIInv, SyncIInv, CloseIInv, RenameIInv
     DEF SaveStep
<1> QED
  BY <1>1, <1>2, <1>3, ChangeIInv, OpenFailsIInv, WriteBackIInv, KilledIInv, PowerLossIInv,
     StartIInv DEF Next

-----------------------------------------------------------------------------
\* The steps as AtomicFile sees them

\* What readers find is data of some version, or of none.
LEMMA ContentTyped == IInv => Visible \in Content /\ OnDisk \in Content
BY BoundsAssumption, NoDataTyped DEF IInv, FilesTyped, Visible, OnDisk, Inode

LEMMA ContentTypedNext == IInv' => Visible' \in Content /\ OnDisk' \in Content
BY BoundsAssumption, NoDataTyped DEF IInv, FilesTyped, Visible, OnDisk, Inode

\* A synchronised file survives a loss of power as it is.
LEMMA DurableIsVisible ==
    ASSUME IInv, Promise = "all", ddir = dir
    PROVE  OnDisk = Visible
BY DEF IInv, Synchronised, OnDisk, Visible

LEMMA InitRefines == Init => AF!Init
<1> SUFFICES ASSUME Init PROVE AF!Init
  OBVIOUS
<1>1. IInv
  BY InitIInv
<1>2. Promise \in {"all", "kill", "none"}
  BY DEF Promise
<1>3. mem = Visible /\ began = mem /\ losses = 0 /\ OnDisk = Visible
  BY DEF Init, OnDisk, Visible
<1> QED
  BY <1>1, <1>2, <1>3, ContentTyped DEF AF!Init

\* A step that leaves the names and what they lead to leaves both contents.
LEMMA Unseen ==
    ASSUME UNCHANGED <<opts, dir, ddir>>,
           dir # 0 => page'[dir] = page[dir],
           ddir # 0 => disk'[ddir] = disk[ddir]
    PROVE  UNCHANGED <<Visible, OnDisk, Promise>>
BY DEF Visible, OnDisk, Promise, Aside

\* A save writes an inode of its own or, without a promise, the file.
LEMMA SaveStepSeen ==
    ASSUME IInv, SaveStep, ~Rename
    PROVE  /\ UNCHANGED <<opts, mem, began, losses, Promise>>
           /\ Promise # "none" => UNCHANGED <<Visible, OnDisk>>
<1>1. UNCHANGED <<opts, mem, began, losses, dir, ddir>> /\ ssi.at # "idle"
  BY DEF SaveStep, Put, CloseFailed, CloseBegin, Flush, Sync, Close, files, bounds
<1>2. \A i \in Inode : i # ssi.fp => page'[i] = page[i] /\ disk'[i] = disk[i]
  BY DEF SaveStep, Put, CloseFailed, CloseBegin, Flush, Sync, Close, files, Flushed, FlushedAll,
         IInv, FilesTyped
<1>3. Promise # "none" => ssi.fp # dir /\ ssi.fp # ddir
  BY <1>1 DEF IInv, Saving, Promise
<1>4. dir # 0 => dir \in Inode
  BY BoundsAssumption DEF IInv, FilesTyped, Inode
<1>5. ddir # 0 => ddir \in Inode
  BY BoundsAssumption DEF IInv, FilesTyped, Inode
<1> QED
  BY <1>1, <1>2, <1>3, <1>4, <1>5, Unseen DEF Promise, Aside

\* Every step of a save is a step of AtomicFile or changes nothing it sees:
\* only rename() publishes, only the kernel settles.
LEMMA StepRefines ==
    ASSUME IInv, IInv', [Next]_vars
    PROVE  [AF!Next]_(AF!vars)
<1> DEFINE durable == IF Promise = "all" THEN OnDisk ELSE Visible
<1>1. Visible' \in Content /\ durable' \in Content /\ mem' \in Content
  BY ContentTypedNext DEF IInv, OwnerTyped
<1> DEFINE Stutter == UNCHANGED <<Promise, mem, began, Visible, durable, losses>>
<1>2. Stutter => UNCHANGED AF!vars
  BY DEF AF!vars
<1>3. Promise = "none" /\ UNCHANGED <<Promise, mem, losses>> /\ began' \in {began, mem} => AF!InPlace
  BY <1>1 DEF AF!InPlace
<1>4. CASE UNCHANGED vars
  <2>1. Stutter
    BY <1>4 DEF vars, files, bounds, Promise, Aside, Visible, OnDisk
  <2> QED
    BY <1>2, <2>1
<1>5. CASE Change
  <2>1. UNCHANGED <<Promise, began, Visible, durable, losses>>
    BY <1>5 DEF Change, files, bounds, Promise, Aside, Visible, OnDisk
  <2> QED
    BY <1>1, <2>1 DEF AF!Next, AF!Edit
<1>6. CASE SaveBegin
  <2>1. CASE OpenAside
    <3>1. inodes' # dir /\ inodes' # ddir
      BY <2>1 DEF OpenAside, IInv, FilesTyped, Created
    <3>2. UNCHANGED <<opts, mem, losses, dir, ddir, disk>>
      BY <1>6, <2>1 DEF SaveBegin, OpenAside
    <3>3. dir # 0 => page'[dir] = page[dir]
      BY <2>1, <3>1, BoundsAssumption DEF OpenAside, IInv, FilesTyped, Inode
    <3>4. UNCHANGED <<Promise, mem, Visible, durable, losses>> /\ began' = mem
      BY <1>6, <3>2, <3>3, Unseen DEF SaveBegin
    <3> QED
      BY <3>4 DEF AF!Next, AF!Begin
  <2>2. CASE OpenInPlace
    <3>1. Promise = "none" /\ UNCHANGED <<Promise, mem, losses>> /\ began' = mem
      BY <1>6, <2>2 DEF SaveBegin, OpenInPlace, Promise, Aside
    <3> QED
      BY <1>3, <3>1 DEF AF!Next
  <2> QED
    BY <1>6, <2>1, <2>2 DEF SaveBegin
<1>7. CASE OpenFails
  <2>1. UNCHANGED <<opts, mem, began, losses, dir, ddir, page, disk>>
    BY <1>7 DEF OpenFails, files
  <2>2. Stutter
    BY <2>1, Unseen
  <2> QED
    BY <1>2, <2>2
<1>8. CASE SaveStep /\ ~Rename
  <2>1. CASE Promise = "none"
    BY <1>3, <1>8, <2>1, SaveStepSeen DEF AF!Next
  <2>2. CASE Promise # "none"
    <3>1. Stutter
      BY <1>8, <2>2, SaveStepSeen
    <3> QED
      BY <1>2, <3>1
  <2> QED
    BY <2>1, <2>2
<1>9. CASE Rename
  <2>1. UNCHANGED <<Promise, mem, began, losses, ddir, page, disk>>
    BY <1>9 DEF Rename, Promise, Aside
  <2>2. CASE dir' = dir
    <3>1. Stutter
      BY <2>1, <2>2 DEF Visible, OnDisk
    <3> QED
      BY <1>2, <3>1
  <2>3. CASE dir' # dir
    <3>1. AF!Between(began, Visible', mem)
      <4>1. dir' = ssi.fp /\ ssi.at = "rename" /\ UNCHANGED page
        BY <1>9, <2>3 DEF Rename
      <4>2. ssi.fp \in Inode /\ page[ssi.fp] = ssi.put /\ Len(ssi.put) = Records
        BY <4>1, BoundsAssumption
           DEF IInv, Complete, Renamed, Accepted, Saving, FilesTyped, Inode
      <4> QED
        BY <4>1, <4>2, WholeIsBetween DEF Visible, Inode
    <3>2. durable' \in {durable, Visible'}
      BY <2>1 DEF OnDisk
    <3> QED
      BY <1>1, <2>1, <3>1, <3>2 DEF AF!Next, AF!Publish
  <2> QED
    BY <2>2, <2>3
<1>10. CASE WriteBack
  <2>1. UNCHANGED <<opts, mem, began, losses, Promise, Visible>>
    BY <1>10 DEF WriteBack, calls, bounds, Promise, Aside, Visible
  <2>2. CASE Promise # "all"
    <3>1. Stutter
      BY <2>1, <2>2
    <3> QED
      BY <1>2, <3>1
  <2>3. CASE Promise = "all"
    <3>1. OnDisk' \in {OnDisk, Visible}
      <4>1. CASE UNCHANGED ddir
        BY <1>10, <2>3, <4>1, BoundsAssumption
           DEF WriteBack, IInv, FilesTyped, Inode, Synchronised, OnDisk
      <4>2. CASE ddir' = dir /\ UNCHANGED disk
        BY <2>3, <4>2 DEF IInv, Synchronised, OnDisk, Visible
      <4> QED
        BY <1>10, <4>1, <4>2 DEF WriteBack
    <3>2. Stutter \/ AF!Settle
      BY <2>1, <2>3, <3>1 DEF AF!Settle
    <3> QED
      BY <1>2, <3>2 DEF AF!Next
  <2> QED
    BY <2>2, <2>3
<1>11. CASE Killed
  <2>1. Stutter
    BY <1>11 DEF Killed, files, Promise, Aside, Visible, OnDisk
  <2> QED
    BY <1>2, <2>1
<1>12. CASE PowerLoss
  <2>1. UNCHANGED <<Promise, mem, began>> /\ losses' = losses + 1
    BY <1>12 DEF PowerLoss, Promise, Aside
  <2>2. Visible' = OnDisk /\ OnDisk' = OnDisk
    BY <1>12 DEF PowerLoss, Visible, OnDisk
  <2> QED
    BY <1>1, <2>1, <2>2 DEF AF!Next, AF!PowerLoss
<1>13. CASE Start
  <2>1. mem' = Visible /\ began' = Visible /\ UNCHANGED <<Promise, Visible, durable, losses>>
    BY <1>13 DEF Start, files, bounds, Promise, Aside, Visible, OnDisk
  <2> QED
    BY <2>1 DEF AF!Next, AF!Restart
<1> QED
  BY <1>4, <1>5, <1>6, <1>7, <1>8, <1>9, <1>10, <1>11, <1>12, <1>13 DEF Next

-----------------------------------------------------------------------------
\* secure_open(), the writes and secure_close() keep the invariant, whatever
\* call fails and whenever the program or the power ends.
THEOREM InvHolds == Spec => []IInv
<1>1. IInv /\ [Next]_vars => IInv'
  BY StepIInv
<1> QED
  BY InitIInv, <1>1, PTL DEF Spec

\* The variables of a save keep their types.
THEOREM TypeCorrect == Spec => []TypeOK
<1>1. IInv => TypeOK
  BY TypedParts DEF IInv
<1> QED
  BY <1>1, InvHolds, PTL

\* The owner of the data is clean only when its file holds them, whenever they
\* change; what changed during the save is all that the file may lack.
THEOREM CleanIsSaved == Spec => []CleanMeansSaved
<1>1. IInv => CleanMeansSaved
  BY TypedParts DEF IInv, Clean, CleanMeansSaved
<1> QED
  BY <1>1, InvHolds, PTL

\* Saving a file with secsave.c is atomic as far as the options promise: for
\* every failure, end of the program and loss of power, a reader finds the old
\* data or the new, each record as it was at some moment since the save began.
THEOREM SaveIsAtomic == Spec => ImplementsAtomicFile
<1>1. IInv /\ IInv' /\ [Next]_vars => [AF!Next]_(AF!vars)
  BY StepRefines
<1> QED
  BY <1>1, InitRefines, InvHolds, PTL DEF Spec, ImplementsAtomicFile
=============================================================================
