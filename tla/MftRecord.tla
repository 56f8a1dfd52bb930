----------------------------- MODULE MftRecord ------------------------------
(***************************************************************************)
(* Mapping the mft records of one inode (ntfs/mft.c) and searching its     *)
(* attributes (ntfs/attrib.c).                                             *)
(*                                                                         *)
(* An inode has a base mft record and, through its attribute list, extent  *)
(* records, whose ntfs inodes are kept with the base inode once they were  *)
(* loaded.  A task maps the base record, walks the attributes with a       *)
(* search context, which has at most one extent record mapped at a time,   *)
(* and unmaps everything again.  Tasks meet at the base record's           *)
(* mrec_lock; the VFS evicts the inode when nobody uses it.                *)
(***************************************************************************)
EXTENDS Integers, FiniteSets, Sequences

CONSTANTS
  Tasks,
  NoTask,       \* the owner of a free lock
  Extents,      \* mft numbers of the extent records
  AttrList,     \* attribute list entries: mft number and sequence number
  DiskSeq       \* sequence number in each mft record on disk

Base == 0
Inodes == {Base} \cup Extents

ASSUME MftRecordAssumption ==
  /\ IsFiniteSet(Tasks) /\ NoTask \notin Tasks
  /\ Extents \subseteq Nat \ {Base} /\ IsFiniteSet(Extents)
  /\ AttrList \in Seq([mft : Inodes, seq : Nat])
  /\ DiskSeq \in [Inodes -> Nat]

VARIABLES
  count,        \* ni->count of each ntfs inode (0: no such inode in memory)
  mrecLock,     \* owner of ni->mrec_lock
  page,         \* ni->page # NULL
  seqNo,        \* ni->seq_no
  attached,     \* the inodes in base_ni->ext.extent_ntfs_inos
  slots,        \* allocated length of that array
  extentLock,   \* owner of base_ni->extent_lock
  pc,
  ctx,          \* each task's search context
  saved         \* old_ctx of ntfs_map_runlist_nolock() while it is running

inodes == <<count, mrecLock, page, seqNo>>
array == <<attached, slots, extentLock>>
vars == <<inodes, array, pc, ctx, saved>>

(* A search context: ntfs_ino, whether base_ntfs_ino is set, whether mrec  *)
(* is an error, and the attribute list entry found or being mapped (0:     *)
(* none).                                                                  *)
NewCtx == [ino |-> Base, based |-> FALSE, bad |-> FALSE, entry |-> 0]
BaseCtx == [NewCtx EXCEPT !.based = TRUE]
NoCtx == [NewCtx EXCEPT !.ino = -1]

Init ==
  /\ count = [n \in Inodes |-> IF n = Base THEN 1 ELSE 0]
  /\ mrecLock = [n \in Inodes |-> NoTask]
  /\ page = [n \in Inodes |-> FALSE]
  /\ seqNo = [n \in Inodes |-> IF n = Base THEN DiskSeq[Base] ELSE 0]
  /\ attached = {}
  /\ slots = 0
  /\ extentLock = NoTask
  /\ pc = [t \in Tasks |-> "out"]
  /\ ctx = [t \in Tasks |-> NewCtx]
  /\ saved = [t \in Tasks |-> NoCtx]

Goto(t, from, to) == pc[t] = from /\ pc' = [pc EXCEPT ![t] = to]
SetCtx(t, c) == ctx' = [ctx EXCEPT ![t] = c]

-----------------------------------------------------------------------------
(* map_mft_record() of an inode whose record nobody else can have locked,  *)
(* where the caller also changes ni->count by delta.                       *)
Map(t, n, delta) ==
  /\ count' = [count EXCEPT ![n] = @ + 1 + delta]
  /\ mrecLock' = [mrecLock EXCEPT ![n] = t]
  /\ page' = [page EXCEPT ![n] = TRUE]
MapFails(n, delta) ==
  /\ count' = [count EXCEPT ![n] = @ + delta]
  /\ UNCHANGED <<mrecLock, page>>

(* unmap_mft_record() of the records in S.                                 *)
Unmap(S) ==
  /\ count' = [n \in Inodes |-> IF n \in S THEN count[n] - 1 ELSE count[n]]
  /\ mrecLock' = [n \in Inodes |-> IF n \in S THEN NoTask ELSE mrecLock[n]]
  /\ page' = [n \in Inodes |-> page[n] /\ n \notin S]

(* The extent record that the search context has mapped, if any.           *)
Mapped(t) == IF ctx[t].based /\ ctx[t].ino # Base THEN {ctx[t].ino} ELSE {}

(* map_mft_record() of the base inode: a reference is taken, then the      *)
(* lock, and then the page is mapped, which may fail.                      *)
MapBase(t) ==
  /\ Goto(t, "out", "lock")
  /\ count' = [count EXCEPT ![Base] = @ + 1]
  /\ UNCHANGED <<mrecLock, page, seqNo, array, ctx, saved>>

LockBase(t) ==
  /\ mrecLock[Base] = NoTask
  /\ \/ /\ Goto(t, "lock", "mapped")
        /\ mrecLock' = [mrecLock EXCEPT ![Base] = t]
        /\ page' = [page EXCEPT ![Base] = TRUE]
        /\ UNCHANGED count
     \/ Goto(t, "lock", "out") /\ MapFails(Base, -1)
  /\ UNCHANGED <<seqNo, array, ctx, saved>>

(* ntfs_attr_get_search_ctx(); without memory the base record is unmapped. *)
GetCtx(t) ==
  /\ \/ Goto(t, "mapped", "ctx") /\ UNCHANGED <<count, mrecLock, page>>
     \/ Goto(t, "mapped", "out") /\ Unmap({Base})
  /\ SetCtx(t, NewCtx)
  /\ UNCHANGED <<seqNo, array, saved>>

(* ntfs_attr_put_search_ctx() and unmap_mft_record() of the base record.   *)
PutCtx(t) ==
  /\ Goto(t, "ctx", "out")
  /\ Unmap({Base} \cup Mapped(t))
  /\ SetCtx(t, NewCtx)
  /\ UNCHANGED <<seqNo, array, saved>>

(* ntfs_attr_reinit_search_ctx(): base_mrec is still mapped, so that even  *)
(* a context with an error in mrec is good again.                          *)
Reinit(t) == Unmap(Mapped(t)) /\ SetCtx(t, NewCtx)

ReinitCtx(t) ==
  /\ Goto(t, "ctx", "ctx")
  /\ Reinit(t)
  /\ UNCHANGED <<seqNo, array, saved>>

-----------------------------------------------------------------------------
(* ntfs_external_attr_find() *)

(* A lookup returns to the caller, or into ntfs_map_runlist_nolock().      *)
Return(t) == pc' = [pc EXCEPT ![t] = IF saved[t] = NoCtx THEN "ctx" ELSE "restore"]

(* not_found: back to the base record, and base_ntfs_ino is reset.         *)
NotFound(t) == Unmap(Mapped(t)) /\ SetCtx(t, NewCtx) /\ Return(t)

(* An error: back to the base record, with base_ntfs_ino left set.         *)
LookupError(t) == Unmap(Mapped(t)) /\ SetCtx(t, BaseCtx) /\ Return(t)

(* Entry k is in record n, which is mapped: the attribute is there, or the *)
(* attribute list is corrupt.                                              *)
FindIn(t, n, k) ==
  \/ /\ Unmap(Mapped(t) \ {n})
     /\ SetCtx(t, [BaseCtx EXCEPT !.ino = n, !.entry = k])
     /\ Return(t)
  \/ LookupError(t)

(* The search stops at entry k.  If that is in the record the context is   *)
(* in, its sequence number must be the inode's.  Otherwise an extent       *)
(* record is unmapped, and another one may have to be mapped.              *)
StopAt(t, k) ==
  LET e == AttrList[k] IN
  \/ /\ e.mft = ctx[t].ino
     /\ IF e.seq = seqNo[ctx[t].ino] THEN FindIn(t, e.mft, k) ELSE LookupError(t)
  \/ e.mft = Base /\ ctx[t].ino # Base /\ FindIn(t, Base, k)
  \/ /\ e.mft \notin {Base, ctx[t].ino}
     /\ Unmap(Mapped(t))
     /\ SetCtx(t, [BaseCtx EXCEPT !.entry = k])
     /\ pc' = [pc EXCEPT ![t] = "extent"]

(* The search goes forward from any position to any entry that matches.    *)
Lookup(t) ==
  /\ pc[t] \in {"ctx", "search"} /\ ~ctx[t].bad
  /\ NotFound(t) \/ LookupError(t) \/ \E k \in DOMAIN AttrList : StopAt(t, k)
  /\ UNCHANGED <<seqNo, array, saved>>

-----------------------------------------------------------------------------
(* map_extent_mft_record(), called for the entry of the context *)

Target(t) == AttrList[ctx[t].entry]
Found(t) == Return(t) /\ SetCtx(t, [ctx[t] EXCEPT !.ino = Target(t).mft])
Refused(t) == Return(t) /\ SetCtx(t, BaseCtx)

(* A mutant: the reference taken while searching is not dropped again.     *)
MapHeldExtentCounted(t) ==
  /\ pc[t] = "held"
  /\ \/ /\ DiskSeq[Target(t).mft] = Target(t).seq
        /\ Map(t, Target(t).mft, 0)
        /\ Found(t)
     \/ MapFails(Target(t).mft, 0) /\ Refused(t)
  /\ UNCHANGED <<seqNo, array, saved>>

(* The extent inode is known already: a reference keeps it while the       *)
(* extent_lock is dropped; then it is mapped and its number verified.      *)
HoldExtent(t) ==
  /\ extentLock = NoTask
  /\ Goto(t, "extent", "held")
  /\ Target(t).mft \in attached
  /\ count' = [count EXCEPT ![Target(t).mft] = @ + 1]
  /\ UNCHANGED <<mrecLock, page, seqNo, array, ctx, saved>>

MapHeldExtent(t) ==
  /\ pc[t] = "held"
  /\ \/ /\ DiskSeq[Target(t).mft] = Target(t).seq
        /\ Map(t, Target(t).mft, -1)
        /\ Found(t)
     \/ MapFails(Target(t).mft, -1) /\ Refused(t)
  /\ UNCHANGED <<seqNo, array, saved>>

(* ntfs_new_extent_inode() and the initialisation of the inode, under the  *)
(* extent_lock and a reference to the base inode.                          *)
NewExtent(t) ==
  /\ extentLock = NoTask
  /\ pc[t] = "extent" /\ Target(t).mft \notin attached
  /\ \/ /\ Goto(t, "extent", "new")
        /\ count' = [count EXCEPT ![Base] = @ + 1, ![Target(t).mft] = 1]
        /\ seqNo' = [seqNo EXCEPT ![Target(t).mft] = Target(t).seq]
        /\ extentLock' = t
        /\ UNCHANGED ctx
     \/ Refused(t) /\ UNCHANGED <<count, seqNo, extentLock>>
  /\ UNCHANGED <<mrecLock, page, attached, slots, saved>>

(* ntfs_clear_extent_inode() of the new inode and the end of the call.     *)
Destroy(t, n) ==
  /\ count' = [count EXCEPT ![Base] = @ - 1, ![n] = 0]
  /\ seqNo' = [seqNo EXCEPT ![n] = 0]
  /\ extentLock' = NoTask
  /\ Refused(t)
  /\ UNCHANGED <<attached, slots>>

(* A mutant: an extent inode whose record cannot be mapped is not freed.   *)
MapNewExtentLeaks(t) ==
  /\ \/ /\ Goto(t, "new", "verify")
        /\ Map(t, Target(t).mft, 0)
        /\ UNCHANGED <<seqNo, array, ctx>>
     \/ /\ pc[t] = "new" /\ Refused(t)
        /\ MapFails(Base, -1)
        /\ extentLock' = NoTask
        /\ UNCHANGED <<seqNo, attached, slots>>
  /\ UNCHANGED saved

MapNewExtent(t) ==
  /\ \/ /\ Goto(t, "new", "verify")
        /\ Map(t, Target(t).mft, 0)
        /\ UNCHANGED <<seqNo, array, ctx>>
     \/ pc[t] = "new" /\ Destroy(t, Target(t).mft) /\ UNCHANGED <<mrecLock, page>>
  /\ UNCHANGED saved

(* A mutant: a stale reference is attached.                                *)
AttachExtentUnverified(t) ==
  LET nrExtents == Cardinality(attached) IN
  /\ pc[t] = "verify"
  /\ attached' = attached \cup {Target(t).mft}
  /\ slots' = IF nrExtents % 4 = 0 THEN nrExtents + 4 ELSE slots
  /\ extentLock' = NoTask
  /\ count' = [count EXCEPT ![Base] = @ - 1]
  /\ Found(t)
  /\ UNCHANGED <<mrecLock, page, seqNo, saved>>

(* A sequence number, if there is one, is verified, and the inode is added *)
(* to the array, which grows by four; unm_err_out: a stale number, or no   *)
(* memory, unmaps and destroys it.                                         *)
AttachExtent(t) ==
  LET n == Target(t).mft
      nrExtents == Cardinality(attached)
      grow == nrExtents % 4 = 0
      stale == Target(t).seq \notin {0, DiskSeq[n]}
  IN
  /\ pc[t] = "verify"
  /\ \/ /\ ~stale
        /\ attached' = attached \cup {n}
        /\ slots' = IF grow THEN nrExtents + 4 ELSE slots
        /\ extentLock' = NoTask
        /\ count' = [count EXCEPT ![Base] = @ - 1]
        /\ Found(t)
        /\ UNCHANGED <<mrecLock, page, seqNo>>
     \/ /\ stale \/ grow
        /\ Destroy(t, n)
        /\ mrecLock' = [mrecLock EXCEPT ![n] = NoTask]
        /\ page' = [page EXCEPT ![n] = FALSE]
  /\ UNCHANGED saved

-----------------------------------------------------------------------------
(* ntfs_map_runlist_nolock() with the caller's search context *)

(* The context points elsewhere: save it, reset it and look the right      *)
(* attribute extent up.                                                    *)
SaveCtx(t) ==
  /\ Goto(t, "ctx", "search")
  /\ ~ctx[t].bad /\ ctx[t].entry # 0
  /\ saved' = [saved EXCEPT ![t] = ctx[t]]
  /\ Reinit(t)
  /\ UNCHANGED <<seqNo, array>>

(* Leave the record the lookup ended in unless it is the saved context's;  *)
(* that one, if it is an extent record, is then mapped again.              *)
RestoreCtx(t) ==
  /\ pc[t] = "restore"
  /\ Unmap(Mapped(t) \ {saved[t].ino})
  /\ IF saved[t].ino \in {Base, ctx[t].ino}
     THEN /\ pc' = [pc EXCEPT ![t] = "ctx"]
          /\ SetCtx(t, saved[t])
          /\ saved' = [saved EXCEPT ![t] = NoCtx]
     ELSE /\ pc' = [pc EXCEPT ![t] = "reload"]
          /\ SetCtx(t, BaseCtx)
          /\ UNCHANGED saved
  /\ UNCHANGED <<seqNo, array>>

(* A mutant: the caller is not told that its record could not be mapped.   *)
ReloadSavedSilent(t) ==
  /\ Goto(t, "reload", "ctx")
  /\ saved' = [saved EXCEPT ![t] = NoCtx]
  /\ \/ Map(t, saved[t].ino, 0) /\ SetCtx(t, saved[t])
     \/ MapFails(saved[t].ino, 0) /\ SetCtx(t, BaseCtx)
  /\ UNCHANGED <<seqNo, array>>

(* retry_map: without memory try again; another failure leaves an error in *)
(* mrec, and the context in the base inode.                                *)
ReloadSaved(t) ==
  /\ Goto(t, "reload", "ctx")
  /\ saved' = [saved EXCEPT ![t] = NoCtx]
  /\ \/ Map(t, saved[t].ino, 0) /\ SetCtx(t, saved[t])
     \/ MapFails(saved[t].ino, 0) /\ SetCtx(t, [BaseCtx EXCEPT !.bad = TRUE])
  /\ UNCHANGED <<seqNo, array>>

-----------------------------------------------------------------------------
(* ntfs_evict_big_inode(), called by the VFS when the inode is not in use: *)
(* the extent inodes and their array are destroyed with it.  The next user *)
(* reads the inode again.                                                  *)
Evict ==
  /\ \A t \in Tasks : pc[t] = "out"
  /\ attached # {}
  /\ count' = [n \in Inodes |-> IF n \in attached THEN 0 ELSE count[n]]
  /\ seqNo' = [n \in Inodes |-> IF n \in attached THEN 0 ELSE seqNo[n]]
  /\ attached' = {}
  /\ slots' = 0
  /\ UNCHANGED <<mrecLock, page, extentLock, pc, ctx, saved>>

Step(t) ==
  \/ MapBase(t) \/ LockBase(t) \/ GetCtx(t) \/ PutCtx(t) \/ ReinitCtx(t) \/ Lookup(t)
  \/ HoldExtent(t) \/ MapHeldExtent(t) \/ NewExtent(t) \/ MapNewExtent(t)
  \/ AttachExtent(t) \/ SaveCtx(t) \/ RestoreCtx(t) \/ ReloadSaved(t)

Next == Evict \/ \E t \in Tasks : Step(t)

Spec == Init /\ [][Next]_vars

-----------------------------------------------------------------------------
(* Properties *)

Labels == {"out", "lock", "mapped", "ctx", "search", "extent", "held", "new",
           "verify", "restore", "reload"}
Contexts == [ino : Inodes, based : BOOLEAN, bad : BOOLEAN,
             entry : {0} \cup DOMAIN AttrList]
(* The type invariant; no reference count goes below zero.                 *)
TypeOK ==
  /\ count \in [Inodes -> Nat]
  /\ mrecLock \in [Inodes -> Tasks \cup {NoTask}]
  /\ page \in [Inodes -> BOOLEAN]
  /\ seqNo \in [Inodes -> Nat]
  /\ attached \in SUBSET Extents
  /\ slots \in Nat
  /\ extentLock \in Tasks \cup {NoTask}
  /\ pc \in [Tasks -> Labels]
  /\ ctx \in [Tasks -> Contexts]
  /\ saved \in [Tasks -> Contexts \cup {NoCtx}]

(* What a task has mapped: the base record, and at most one extent record, *)
(* the one in its search context or the one it is attaching.               *)
Holds(t) ==
  (IF pc[t] \in {"out", "lock"} THEN {} ELSE {Base})
  \cup Mapped(t)
  \cup (IF pc[t] = "verify" THEN {Target(t).mft} ELSE {})

(* A record is locked and its page is mapped exactly while one task has it *)
(* mapped, so neither BUG_ON(ni->page) in map_mft_record_page() nor        *)
(* BUG_ON(!page) in unmap_mft_record() triggers on any path.               *)
OneHolder ==
  \A n \in Inodes :
    /\ page[n] <=> (mrecLock[n] # NoTask)
    /\ \A t \in Tasks : (n \in Holds(t)) <=> (mrecLock[n] = t)

(* Every path takes and drops the references of an ntfs inode in pairs:    *)
(* when nobody uses the inode each count is back to one, no lock is held,  *)
(* and ntfs_destroy_big_inode() and ntfs_destroy_extent_inode() find no    *)
(* reason to BUG().                                                        *)
CountsBalanced ==
  (\A t \in Tasks : pc[t] = "out") =>
    /\ extentLock = NoTask
    /\ \A n \in Inodes : /\ mrecLock[n] = NoTask
                         /\ count[n] = IF n \in {Base} \cup attached THEN 1 ELSE 0

(* An extent inode that is in use is not destroyed, and one that was not   *)
(* attached to the base inode is not left behind.  The array of extent     *)
(* inodes has room for all of them, with at most three slots to spare.     *)
ExtentsAlive ==
  /\ \A n \in Extents :
       count[n] > 0 <=>
         \/ n \in attached
         \/ \E t \in Tasks : pc[t] \in {"new", "verify"} /\ Target(t).mft = n
  /\ Cardinality(attached) <= slots
  /\ slots < Cardinality(attached) + 4

(* The attribute a lookup returned is in the record its attribute list     *)
(* entry names, which is mapped by this task, and the entry's reference is *)
(* not stale.                                                              *)
FoundIsCurrent ==
  \A t \in Tasks : pc[t] \in {"ctx", "restore"} /\ ctx[t].entry # 0 =>
    /\ ctx[t].ino = Target(t).mft
    /\ mrecLock[ctx[t].ino] = t
    /\ ctx[t].ino # Base => Target(t).seq \in {0, DiskSeq[ctx[t].ino]}

(* ntfs_map_runlist_nolock() gives the caller's context back as it was, or *)
(* puts an error in its mrec.                                              *)
CtxRestored ==
  [][\A t \in Tasks : saved[t] # NoCtx /\ saved'[t] = NoCtx =>
       /\ pc'[t] = "ctx"
       /\ ctx'[t] = saved[t] \/ ctx'[t].bad]_vars
=============================================================================
