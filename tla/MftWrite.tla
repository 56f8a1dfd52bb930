------------------------------ MODULE MftWrite ------------------------------
(***************************************************************************)
(* Writing mft records back (ntfs/mft.c and ntfs/aops.c, with NTFS_RW).    *)
(*                                                                         *)
(* Several mft records share one page of $MFT's page cache.  Tasks modify  *)
(* records under their mrec_lock and mark them dirty.  Two paths write     *)
(* them: the inode writer (__ntfs_write_inode() and                        *)
(* write_mft_record_nolock()), which goes from the inode to its records,   *)
(* and the page writer (ntfs_write_mst_block()), which goes from the page  *)
(* to the records in it and has to find out which of them it may write.    *)
(* Both apply the multi sector fixups in place, write the blocks, copy the *)
(* record to $MFTMirr and remove the fixups again.                         *)
(*                                                                         *)
(* Record 0 is a base record, record 1 an extent record of it; any other   *)
(* record is a base record without an inode in memory.  A record's data is *)
(* the number of its modifications.                                        *)
(***************************************************************************)
EXTENDS Integers, FiniteSets

CONSTANTS
  Modifiers,    \* tasks that change records
  InodeWriter, PageWriter,
  NoTask,       \* the owner of a free lock
  NrRecords,    \* mft records in the page
  NrBlocks,     \* blocks in a record
  MirrorSize,   \* vol->mftmirr_size
  MaxVersion    \* bound on the modifications of each record

ASSUME MftWriteAssumption ==
  /\ IsFiniteSet(Modifiers)
  /\ NoTask \notin Modifiers \cup {InodeWriter, PageWriter}
  /\ InodeWriter # PageWriter /\ {InodeWriter, PageWriter} \cap Modifiers = {}
  /\ NrRecords \in Nat \ {0, 1} /\ NrBlocks \in Nat \ {0}
  /\ MirrorSize \in Nat /\ MaxVersion \in [0 .. NrRecords - 1 -> Nat]

Base == 0
Ext == 1
Records == 0 .. NrRecords - 1
Blocks == 1 .. NrBlocks
Tasks == Modifiers \cup {InodeWriter, PageWriter}

Garbled == -1   \* a block written without fixups, or a record whose fixups
                \* were removed without having been applied

VARIABLES
  mem,          \* version of each record in the page
  prot,         \* records whose fixups are applied in the page
  disk,         \* version of each block in "mft" and in "mirr"
  bufDirty,     \* records whose buffers are dirty
  pageDirty, pageLock, uptodate,
  niDirty,      \* records whose ntfs inode is dirty
  vfsDirty,     \* the base inode is on the VFS's list of dirty inodes
  inCache,      \* the base inode is in the inode cache
  attached,     \* the extent inode is attached to it
  mrecLock, extentLock,
  flight,       \* block writes submitted and not completed
  wr,           \* the write the owner of the page lock is doing
  errors,       \* NVolErrors()
  written,      \* version of each record at its last complete write
  pc,
  rec           \* the record each task works on

page == <<pageDirty, pageLock, uptodate>>
content == <<mem, prot, disk, bufDirty>>
inode == <<niDirty, vfsDirty, inCache, attached>>
locks == <<mrecLock, extentLock>>
io == <<flight, wr, errors, written>>
vars == <<content, page, inode, locks, io, pc, rec>>

(* todo: the dirty records still to be looked at, in page order; out: the  *)
(* records whose buffers were not taken off bhs[]; own: the inodes in      *)
(* locked_nis[]; mirror: records still to be copied.                       *)
NewWrite(todo, out, sync) == [todo |-> todo, out |-> out, own |-> {}, mirror |-> {},
                              sync |-> sync, redirty |-> FALSE, err |-> FALSE]
NoWrite == NewWrite({}, {}, FALSE)

Init ==
  /\ mem = [r \in Records |-> 0]
  /\ prot = {}
  /\ disk = [c \in {"mft", "mirr"} |-> [r \in Records |-> [b \in Blocks |-> 0]]]
  /\ bufDirty = {}
  /\ pageDirty = FALSE /\ pageLock = NoTask /\ uptodate = TRUE
  /\ niDirty = {} /\ vfsDirty = FALSE
  /\ inCache = FALSE /\ attached = FALSE
  /\ mrecLock = [r \in {Base, Ext} |-> NoTask]
  /\ extentLock = NoTask
  /\ flight = {} /\ wr = NoWrite /\ errors = FALSE
  /\ written = [r \in Records |-> 0]
  /\ pc = [t \in Tasks |-> "idle"]
  /\ rec = [t \in Tasks |-> Base]

Goto(t, from, to) == pc[t] = from /\ pc' = [pc EXCEPT ![t] = to]
Unlocked(r) == mrecLock' = [mrecLock EXCEPT ![r] = NoTask]

-----------------------------------------------------------------------------
(* Tasks that map and modify records *)

(* ntfs_iget() of the base inode, by a task that then maps its record.     *)
Use(t) ==
  /\ Goto(t, "idle", "lock")
  /\ inCache' = TRUE
  /\ rec' = [rec EXCEPT ![t] = Base]
  /\ UNCHANGED <<content, page, niDirty, vfsDirty, attached, locks, io>>

(* map_mft_record(): the mrec_lock, then the page, which a writer may have *)
(* locked and set not up to date.                                          *)
Lock(t) ==
  /\ mrecLock[rec[t]] = NoTask
  /\ mrecLock' = [mrecLock EXCEPT ![rec[t]] = t]
  /\ Goto(t, "lock", "map")
  /\ UNCHANGED <<content, page, inode, extentLock, io, rec>>

(* An extent record that map_extent_mft_record() loads is attached, and    *)
(* the extent_lock dropped.                                                *)
MapPage(t) ==
  /\ uptodate
  /\ Goto(t, "map", "mapped")
  /\ IF extentLock = t /\ t # InodeWriter
     THEN attached' = TRUE /\ extentLock' = NoTask
     ELSE UNCHANGED <<attached, extentLock>>
  /\ UNCHANGED <<content, page, niDirty, vfsDirty, inCache, mrecLock, io, rec>>

(* The page had been reclaimed, and cannot be read again.  The inode       *)
(* writer puts the inode back on the list if it was for lack of memory.    *)
MapFails(t) ==
  /\ ~pageDirty /\ uptodate
  /\ Unlocked(rec[t])
  /\ \/ /\ t \in Modifiers
        /\ Goto(t, "map", IF rec[t] = Base THEN "idle" ELSE "mapped")
        /\ rec' = [rec EXCEPT ![t] = Base]
        /\ extentLock' = IF extentLock = t THEN NoTask ELSE extentLock
        /\ UNCHANGED <<vfsDirty, errors>>
     \/ /\ t = InodeWriter
        /\ Goto(t, "map", IF rec[t] = Base THEN "idle" ELSE "unmap")
        /\ \/ vfsDirty' = TRUE /\ UNCHANGED errors
           \/ errors' = TRUE /\ UNCHANGED vfsDirty
        /\ UNCHANGED <<rec, extentLock>>
  /\ UNCHANGED <<content, page, niDirty, inCache, attached, flight, wr, written>>

Modify(t) ==
  /\ Goto(t, "mapped", "mark")
  /\ mem[rec[t]] \in 0 .. MaxVersion[rec[t]] - 1
  /\ mem' = [mem EXCEPT ![rec[t]] = @ + 1]
  /\ UNCHANGED <<prot, disk, bufDirty, page, inode, locks, io, rec>>

(* mark_mft_record_dirty().  An inode that is dirty already is left alone. *)
(* mark_ntfs_record_dirty() has a BUG_ON(!PageUptodate(page)).  The inode  *)
(* writer does not mark the VFS inode dirty, since it is writing it.       *)
MarkDirty(t) ==
  /\ niDirty' = niDirty \cup {rec[t]}
  /\ \/ /\ rec[t] \in niDirty
        /\ Goto(t, "mark", IF t = InodeWriter THEN "write" ELSE "mapped")
        /\ UNCHANGED <<bufDirty, pageDirty, vfsDirty>>
     \/ /\ rec[t] \notin niDirty /\ uptodate
        /\ Goto(t, "mark", IF t = InodeWriter THEN "write" ELSE "mapped")
        /\ bufDirty' = bufDirty \cup {rec[t]}
        /\ pageDirty' = TRUE
        /\ vfsDirty' = (vfsDirty \/ t # InodeWriter)
     \/ /\ rec[t] \notin niDirty /\ ~uptodate
        /\ Goto(t, "mark", "bug")
        /\ UNCHANGED <<bufDirty, pageDirty, vfsDirty>>
  /\ UNCHANGED <<mem, prot, disk, pageLock, uptodate, inCache, attached, locks, io, rec>>

(* map_extent_mft_record(), with the base record mapped.  A new extent     *)
(* inode is loaded under the extent_lock.                                  *)
MapExtent(t) ==
  /\ t \in Modifiers /\ rec[t] = Base
  /\ extentLock = NoTask
  /\ Goto(t, "mapped", "lock")
  /\ rec' = [rec EXCEPT ![t] = Ext]
  /\ extentLock' = IF attached THEN NoTask ELSE t
  /\ UNCHANGED <<content, page, inode, mrecLock, io>>

Unmap(t) ==
  /\ t \in Modifiers
  /\ Unlocked(rec[t])
  /\ Goto(t, "mapped", IF rec[t] = Base THEN "idle" ELSE "mapped")
  /\ rec' = [rec EXCEPT ![t] = Base]
  /\ UNCHANGED <<content, page, inode, extentLock, io>>

(* ntfs_mft_record_format() of a record that has no inode yet, in the      *)
(* locked page.                                                            *)
Format(r) ==
  /\ r # Ext /\ mem[r] = 0 /\ (r = Base => ~inCache)
  /\ pageLock = NoTask /\ uptodate
  /\ mem' = [mem EXCEPT ![r] = @ + 1]
  /\ bufDirty' = bufDirty \cup {r} /\ pageDirty' = TRUE
  /\ UNCHANGED <<prot, disk, pageLock, uptodate, inode, locks, io, pc, rec>>

(* ntfs_mft_record_alloc() of an extent record for the mapped base record: *)
(* the record is laid out in the locked page, and its extent inode loaded  *)
(* and attached.  It is marked dirty, but not its inode; also if there was *)
(* no memory for that inode.                                               *)
AllocExtent(t) ==
  /\ pc[t] = "mapped" /\ rec[t] = Base
  /\ ~attached /\ extentLock = NoTask /\ mrecLock[Ext] = NoTask
  /\ pageLock = NoTask /\ uptodate
  /\ mem[Ext] = 0
  /\ mem' = [mem EXCEPT ![Ext] = @ + 1]
  /\ bufDirty' = bufDirty \cup {Ext} /\ pageDirty' = TRUE
  /\ \/ /\ attached' = TRUE
        /\ mrecLock' = [mrecLock EXCEPT ![Ext] = t]
        /\ rec' = [rec EXCEPT ![t] = Ext]
     \/ UNCHANGED <<attached, mrecLock, rec>>
  /\ UNCHANGED <<prot, disk, pageLock, uptodate, niDirty, vfsDirty, inCache, extentLock,
                 io, pc>>

(* A clean inode that nobody uses is evicted, its extent inode with it.    *)
Evict ==
  /\ inCache /\ ~vfsDirty /\ Base \notin niDirty
  /\ \A t \in Modifiers \cup {InodeWriter} : pc[t] = "idle"
  /\ wr.own = {} /\ pc[PageWriter] \notin {"extent", "trylock"}
  /\ inCache' = FALSE /\ attached' = FALSE
  /\ niDirty' = niDirty \ {Ext}
  /\ UNCHANGED <<content, page, vfsDirty, locks, io, pc, rec>>

-----------------------------------------------------------------------------
(* Block I/O, for whoever owns the page lock *)

(* The blocks of the records in S are submitted to copy c.                 *)
Submit(c, S) == flight' = flight \cup [copy : {c}, r : S, b : Blocks]

(* A block gets to the disk, or fails.  An error of the mirror is only     *)
(* recorded in the volume.                                                 *)
Complete(f) ==
  /\ flight' = flight \ {f}
  /\ \/ /\ disk' = [disk EXCEPT ![f.copy][f.r][f.b] = IF f.r \in prot THEN mem[f.r] ELSE Garbled]
        /\ UNCHANGED <<wr, errors>>
     \/ /\ f.copy = "mft"
        /\ wr' = [wr EXCEPT !.err = TRUE]
        /\ UNCHANGED <<disk, errors>>
     \/ /\ f.copy = "mirr"
        /\ errors' = TRUE
        /\ UNCHANGED <<disk, wr>>
  /\ UNCHANGED <<mem, prot, bufDirty, page, inode, locks, written, pc, rec>>

(* Mutant: the mirror is not held back.                                    *)
StartMirrorAtOnce(t) ==
  /\ Goto(t, "io", "mirror")
  /\ wr' = [wr EXCEPT !.mirror = {r \in wr.out : r < MirrorSize}]
  /\ UNCHANGED <<content, page, inode, locks, flight, errors, written, rec>>

(* A synchronous write waits for the mft before it goes on to the mirror,  *)
(* another one starts on the mirror at once.                               *)
StartMirror(t) ==
  /\ Goto(t, "io", "mirror")
  /\ wr.sync => flight = {}
  /\ wr' = [wr EXCEPT !.mirror = {r \in wr.out : r < MirrorSize}]
  /\ UNCHANGED <<content, page, inode, locks, flight, errors, written, rec>>

(* ntfs_sync_mft_mirror() of one record, which waits for its own blocks.   *)
(* Without the mirror's inode or page nothing is written.                  *)
SyncMirror(t) ==
  /\ pc[t] = "mirror" /\ \A f \in flight : f.copy = "mft"
  /\ \E r \in wr.mirror :
       /\ \A q \in wr.mirror : r <= q
       /\ wr' = [wr EXCEPT !.mirror = @ \ {r}]
       /\ \/ Submit("mirr", {r}) /\ UNCHANGED errors
          \/ errors' = TRUE /\ UNCHANGED flight
  /\ UNCHANGED <<content, page, inode, locks, written, pc, rec>>

Mirrored == wr.mirror = {} /\ flight = {}

(* post_write_mst_fixup() of the records that were written; a record that  *)
(* has no fixups applied gets the ends of its sectors from an old array.   *)
RemoveFixups ==
  /\ prot' = prot \ wr.out
  /\ mem' = [r \in Records |-> IF r \in wr.out \ prot THEN Garbled ELSE mem[r]]
  /\ written' = [r \in Records |-> IF r \in wr.out /\ ~wr.err THEN mem[r] ELSE written[r]]

-----------------------------------------------------------------------------
(* The inode writer *)

(* The VFS takes the inode off its list and calls ->write_inode().         *)
StartInode ==
  /\ inCache /\ vfsDirty
  /\ Goto(InodeWriter, "idle", "lock")
  /\ vfsDirty' = FALSE
  /\ rec' = [rec EXCEPT ![InodeWriter] = Base]
  /\ UNCHANGED <<content, page, niDirty, inCache, attached, locks, io>>

(* The times in the standard information are brought up to date, and the   *)
(* record marked if they were not.  Without memory for the search context  *)
(* the inode is put back on the list.                                      *)
UpdateTimes ==
  LET t == InodeWriter IN
  /\ rec[t] = Base
  /\ \/ /\ Goto(t, "mapped", "mark")
        /\ mem[Base] \in 0 .. MaxVersion[Base] - 1
        /\ mem' = [mem EXCEPT ![Base] = @ + 1]
        /\ UNCHANGED <<vfsDirty, mrecLock>>
     \/ Goto(t, "mapped", "write") /\ UNCHANGED <<mem, vfsDirty, mrecLock>>
     \/ Goto(t, "mapped", "idle") /\ vfsDirty' = TRUE /\ Unlocked(Base) /\ UNCHANGED mem
  /\ UNCHANGED <<prot, disk, bufDirty, page, niDirty, inCache, attached, extentLock, io, rec>>

(* After the base record come the attached extents, after an extent record *)
(* (which is unmapped) the end.                                            *)
AfterRecord == IF rec[InodeWriter] = Base THEN "extents" ELSE "unmap"

SkipClean ==
  /\ rec[InodeWriter] \notin niDirty
  /\ Goto(InodeWriter, "write", AfterRecord)
  /\ UNCHANGED <<content, page, inode, locks, io, rec>>

(* write_mft_record() and write_mft_record_nolock(), in the locked page.   *)
(* The inode is set clean first; with a clean first buffer that is all.    *)
(* When a block has no place on disk, or the fixups cannot be applied, the *)
(* buffers are cleaned and nothing is written.                             *)
WriteRecord(sync) ==
  LET t == InodeWriter
      r == rec[t] IN
  /\ r \in niDirty /\ pageLock = NoTask
  /\ niDirty' = niDirty \ {r}
  /\ bufDirty' = bufDirty \ {r}
  /\ \/ /\ r \in bufDirty
        /\ Goto(t, "write", "io")
        /\ pageLock' = t
        /\ prot' = prot \cup {r}
        /\ Submit("mft", {r})
        /\ wr' = NewWrite({}, {r}, sync)
        /\ UNCHANGED errors
     \/ /\ Goto(t, "write", AfterRecord)
        /\ errors' = (errors \/ r \in bufDirty)
        /\ UNCHANGED <<pageLock, prot, flight, wr>>
  /\ UNCHANGED <<mem, disk, pageDirty, uptodate, vfsDirty, inCache, attached, locks, written, rec>>

FinishRecord ==
  LET t == InodeWriter IN
  /\ Mirrored
  /\ Goto(t, "mirror", AfterRecord)
  /\ RemoveFixups
  /\ pageLock' = NoTask
  /\ errors' = (errors \/ wr.err)
  /\ wr' = NoWrite
  /\ UNCHANGED <<disk, bufDirty, pageDirty, uptodate, inode, locks, flight, rec>>

(* The extent inodes are written with the extent_lock held.                *)
WriteExtents ==
  LET t == InodeWriter IN
  /\ extentLock = NoTask
  /\ extentLock' = t
  /\ IF attached /\ Ext \in niDirty
     THEN Goto(t, "extents", "lock") /\ rec' = [rec EXCEPT ![t] = Ext]
     ELSE Goto(t, "extents", "unmap") /\ UNCHANGED rec
  /\ UNCHANGED <<content, page, inode, mrecLock, io>>

StartExtent ==
  /\ rec[InodeWriter] = Ext
  /\ Goto(InodeWriter, "mapped", "write")
  /\ UNCHANGED <<content, page, inode, locks, io, rec>>

FinishInode ==
  LET t == InodeWriter IN
  /\ Goto(t, "unmap", "idle")
  /\ mrecLock' = [r \in {Base, Ext} |-> IF mrecLock[r] = t THEN NoTask ELSE mrecLock[r]]
  /\ extentLock' = NoTask
  /\ rec' = [rec EXCEPT ![t] = Base]
  /\ UNCHANGED <<content, page, inode, io>>

-----------------------------------------------------------------------------
(* The page writer *)

(* Mutant: the page stays up to date while the fixups are applied.         *)
StartPageUptodate(sync) ==
  LET t == PageWriter IN
  /\ pageDirty /\ pageLock = NoTask
  /\ Goto(t, "idle", IF bufDirty = {} THEN "end" ELSE "next")
  /\ pageLock' = t /\ pageDirty' = FALSE
  /\ wr' = NewWrite(bufDirty, bufDirty, sync)
  /\ UNCHANGED <<content, uptodate, inode, locks, flight, errors, written, rec>>

(* The VM locks the page, marks it clean and calls ->writepage(), which    *)
(* takes the records whose first buffer is dirty.  Where there are any,    *)
(* the page is set not up to date.                                         *)
StartPage(sync) ==
  LET t == PageWriter IN
  /\ pageDirty /\ pageLock = NoTask
  /\ Goto(t, "idle", IF bufDirty = {} THEN "end" ELSE "next")
  /\ pageLock' = t /\ pageDirty' = FALSE
  /\ uptodate' = (bufDirty = {})
  /\ wr' = NewWrite(bufDirty, bufDirty, sync)
  /\ UNCHANGED <<content, inode, locks, flight, errors, written, rec>>

Current == CHOOSE r \in wr.todo : \A q \in wr.todo : r <= q
MoreRecords == wr.todo # {}
Rest(S) == {r \in S : \E q \in S : q < r}

(* The record is written: its fixups are applied.                          *)
Accept(own) ==
  /\ prot' = prot \cup {Current}
  /\ wr' = [wr EXCEPT !.todo = Rest(@), !.own = @ \cup own]
  /\ pc' = [pc EXCEPT ![PageWriter] = "next"]

(* Mutant: the page is not redirtied for a record that was not written.    *)
RefuseForget ==
  /\ wr' = [wr EXCEPT !.todo = Rest(Rest(@)), !.out = @ \ {Current}]
  /\ pc' = [pc EXCEPT ![PageWriter] = "next"]
  /\ UNCHANGED prot

(* The record is not written: its buffers are taken off the list.  The     *)
(* inner loop leaves i at the next record, and the increment of the for    *)
(* loop then takes it past the first buffer of that record, which is not   *)
(* looked at and stays on the list.                                        *)
Refuse ==
  /\ wr' = [wr EXCEPT !.todo = Rest(Rest(@)), !.out = @ \ {Current}, !.redirty = TRUE]
  /\ pc' = [pc EXCEPT ![PageWriter] = "next"]
  /\ UNCHANGED prot

(* ntfs_may_write_mft_record() of a base record: not when its inode is     *)
(* dirty, ...                                                              *)
CheckBase ==
  LET t == PageWriter IN
  /\ pc[t] = "next" /\ MoreRecords /\ Current # Ext
  /\ \/ (Current # Base \/ ~inCache) /\ Accept({})
     \/ Current = Base /\ inCache /\ Base \in niDirty /\ Refuse
     \/ /\ Current = Base /\ inCache /\ Base \notin niDirty
        /\ Goto(t, "next", "trylock")
        /\ UNCHANGED <<prot, wr>>
  /\ UNCHANGED <<mem, disk, bufDirty, page, inode, locks, flight, errors, written, rec>>

(* Mutant: mutex_lock() instead of mutex_trylock().                        *)
TryLockSleeps(r) ==
  /\ mrecLock[r] = NoTask
  /\ mrecLock' = [mrecLock EXCEPT ![r] = PageWriter] /\ Accept({r})

(* ... and not when its mrec_lock is taken.                                *)
TryLock(r) ==
  IF mrecLock[r] = NoTask
  THEN mrecLock' = [mrecLock EXCEPT ![r] = PageWriter] /\ Accept({r})
  ELSE Refuse /\ UNCHANGED mrecLock

TryLockBase ==
  /\ pc[PageWriter] = "trylock" /\ Current = Base
  /\ TryLock(Base)
  /\ UNCHANGED <<mem, disk, bufDirty, page, inode, extentLock, flight, errors, written, rec>>

(* An extent record: if the base inode is in memory, its extent_lock is    *)
(* taken to look for the extent inode.                                     *)
CheckExtent ==
  LET t == PageWriter IN
  /\ pc[t] = "next" /\ MoreRecords /\ Current = Ext
  /\ \/ ~inCache /\ Accept({})
     \/ inCache /\ Goto(t, "next", "extent") /\ UNCHANGED <<prot, wr>>
  /\ UNCHANGED <<mem, disk, bufDirty, page, inode, locks, flight, errors, written, rec>>

FindExtent ==
  LET t == PageWriter IN
  /\ pc[t] = "extent" /\ extentLock = NoTask
  /\ \/ ~attached /\ Accept({})
     \/ attached /\ Goto(t, "extent", "trylock") /\ UNCHANGED <<prot, wr>>
  /\ UNCHANGED <<mem, disk, bufDirty, page, inode, locks, flight, errors, written, rec>>

(* The extent inode is set clean, since the record is written now.         *)
TryLockExtent ==
  /\ pc[PageWriter] = "trylock" /\ Current = Ext
  /\ niDirty' = IF mrecLock[Ext] = NoTask THEN niDirty \ {Ext} ELSE niDirty
  /\ TryLock(Ext)
  /\ UNCHANGED <<mem, disk, bufDirty, page, vfsDirty, inCache, attached, extentLock,
                 flight, errors, written, rec>>

(* If any record was accepted, all that is left on the list is submitted.  *)
SubmitPage ==
  LET t == PageWriter IN
  /\ ~MoreRecords
  /\ Goto(t, "next", IF prot = {} THEN "end" ELSE "io")
  /\ IF prot = {} THEN UNCHANGED <<bufDirty, flight>>
     ELSE bufDirty' = bufDirty \ wr.out /\ Submit("mft", wr.out)
  /\ wr' = [wr EXCEPT !.out = IF prot = {} THEN {} ELSE @]
  /\ UNCHANGED <<mem, prot, disk, page, inode, locks, errors, written, rec>>

FinishIO ==
  /\ Mirrored
  /\ Goto(PageWriter, "mirror", "end")
  /\ RemoveFixups
  /\ UNCHANGED <<disk, bufDirty, page, inode, locks, flight, wr, errors, rec>>

(* The inodes are unlocked, the page is up to date again and, if a record  *)
(* was refused, dirty.                                                     *)
FinishPage ==
  /\ Goto(PageWriter, "end", "idle")
  /\ mrecLock' = [r \in {Base, Ext} |-> IF r \in wr.own THEN NoTask ELSE mrecLock[r]]
  /\ uptodate' = TRUE
  /\ pageDirty' = (pageDirty \/ wr.redirty)
  /\ pageLock' = NoTask
  /\ errors' = (errors \/ wr.err)
  /\ wr' = NoWrite
  /\ UNCHANGED <<content, inode, extentLock, flight, written, rec>>

-----------------------------------------------------------------------------
ModifierStep(t) ==
  Use(t) \/ Modify(t) \/ AllocExtent(t) \/ MapExtent(t) \/ Unmap(t)

MapStep(t) == Lock(t) \/ MapPage(t) \/ MapFails(t) \/ MarkDirty(t)

InodeStep ==
  \/ \E sync \in BOOLEAN : WriteRecord(sync)
  \/ StartInode \/ UpdateTimes \/ SkipClean \/ FinishRecord
  \/ WriteExtents \/ StartExtent \/ FinishInode

PageStep ==
  \/ \E sync \in BOOLEAN : StartPage(sync)
  \/ CheckBase \/ TryLockBase \/ CheckExtent \/ FindExtent \/ TryLockExtent
  \/ SubmitPage \/ FinishIO \/ FinishPage

Next ==
  \/ \E t \in Modifiers : ModifierStep(t)
  \/ \E t \in Modifiers \cup {InodeWriter} : MapStep(t)
  \/ \E t \in {InodeWriter, PageWriter} : StartMirror(t) \/ SyncMirror(t)
  \/ \E f \in flight : Complete(f)
  \/ \E r \in Records : Format(r)
  \/ InodeStep \/ PageStep \/ Evict

Spec == Init /\ [][Next]_vars

-----------------------------------------------------------------------------
(* The variables have their types.                                         *)
TypeOK ==
  /\ mem \in [Records -> Int] /\ \A r \in Records : mem[r] \in Garbled .. MaxVersion[r]
  /\ prot \subseteq Records /\ bufDirty \subseteq Records /\ niDirty \subseteq Records
  /\ disk \in [{"mft", "mirr"} -> [Records -> [Blocks -> Int]]]
  /\ {pageDirty, uptodate, vfsDirty, inCache, attached, errors} \subseteq BOOLEAN
  /\ {pageLock, extentLock} \subseteq Tasks \cup {NoTask}
  /\ mrecLock \in [{Base, Ext} -> Tasks \cup {NoTask}]
  /\ rec \in [Tasks -> {Base, Ext}]

Users == Modifiers \cup {InodeWriter}
Using == {"mapped", "mark", "write", "extents"}

(* The task has the record mapped, or has it mapped while it maps or uses  *)
(* an extent record of it.                                                 *)
Sees(t, r) ==
  \/ rec[t] = r /\ pc[t] \in Using
  \/ r = Base /\ rec[t] = Ext /\ pc[t] \in Using \cup {"lock", "map"}

(* While the fixups of a record are applied in the page, no task has the   *)
(* record mapped: nobody sees, and nobody modifies, a record whose sectors *)
(* end in update sequence numbers (ntfs_write_mst_block() and              *)
(* write_mft_record_nolock()).                                             *)
FixupsHidden == \A r \in prot : \A t \in Users : ~Sees(t, r)

(* A modification is never forgotten: when no task has the record or the   *)
(* page locked, a record that differs from the disk is dirty in a dirty    *)
(* page, unless the volume is marked to have errors.                       *)
NothingLost ==
  \A r \in {Base, Ext} :
    mrecLock[r] = NoTask /\ pageLock = NoTask /\ ~errors
    /\ (\E b \in Blocks : disk["mft"][r][b] # mem[r])
      => r \in bufDirty /\ pageDirty

Good(c, r) == \A b \in Blocks : disk[c][r][b] = disk[c][r][1] /\ disk[c][r][b] # Garbled

(* If the system crashes now, the mft or the mirror has the record in one  *)
(* piece and not older than its last complete write, if all writes are     *)
(* synchronous and none failed.  Between writes without errors the mirror  *)
(* has what the mft has.                                                   *)
CrashLeavesOneCopy ==
  \A r \in Records : r < MirrorSize /\ ~errors =>
    /\ ~wr.err /\ (wr.out # {} => wr.sync)
         => \E c \in {"mft", "mirr"} : Good(c, r) /\ disk[c][r][1] >= written[r]
    /\ pageLock = NoTask => disk["mirr"][r] = disk["mft"][r]

(* The task whose lock t waits for, where the page writer's wait for the   *)
(* extent_lock is left out: that one is known to close circles.            *)
WaitsFor(t) ==
  CASE pc[t] = "lock" -> mrecLock[rec[t]]
    [] pc[t] = "map" /\ ~uptodate -> pageLock
    [] pc[t] = "write" /\ rec[t] \in niDirty -> pageLock
    [] pc[t] = "trylock" /\ ~ENABLED (TryLockBase \/ TryLockExtent) -> mrecLock[Current]
    [] pc[t] = "extents" \/ (pc[t] = "mapped" /\ rec[t] = Base) -> extentLock
    [] OTHER -> NoTask

(* No tasks wait for each other in a circle, but through the page writer's *)
(* wait for the extent_lock.                                               *)
WaitsAcyclic ==
  \A S \in (SUBSET Tasks) \ {{}} : \E t \in S : WaitsFor(t) \notin S \ {t}

(* No mft record is written without its fixups: ntfs_write_mst_block()     *)
(* applies the fixups, writes, and then undoes the fixups.                 *)
WrittenProtected == \A f \in flight : f.r \in prot
=============================================================================
