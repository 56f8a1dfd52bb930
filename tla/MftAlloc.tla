------------------------------ MODULE MftAlloc ------------------------------
(***************************************************************************)
(* Allocating and freeing mft records (ntfs/mft.c, with NTFS_RW).          *)
(*                                                                         *)
(* ntfs_mft_record_alloc() looks for a clear bit in $MFT's bitmap; if      *)
(* there is none it extends the bitmap, and if the record is not there yet *)
(* it extends $MFT's data and formats new records.  All of that happens    *)
(* under mftbmp_lock; the record itself is prepared afterwards, in its     *)
(* locked page.  Every step may fail and is then rolled back.              *)
(* ntfs_extent_mft_record_free() gives an extent record back.              *)
(*                                                                         *)
(* Sizes are in mft records, those of the bitmap in bits.  Each of the two *)
(* attributes has sizes and a runlist in memory and sizes and mapping      *)
(* pairs in $MFT's own mft record.                                         *)
(***************************************************************************)
EXTENDS Integers, FiniteSets, FiniteSetsExt

CONSTANTS
  Tasks,
  NoTask,
  Reserved,     \* mft records that are never allocated (24)
  ByteBits,     \* bits searched at once (8)
  PageRecords,  \* how many mft records a page may hold
  BmpStep,      \* bits the bitmap is initialized by (64)
  BmpCluster,   \* bits in a cluster of the bitmap
  MftCluster,   \* mft records in a cluster
  Chunk,        \* clusters $MFT's data is extended by (16 records)
  Limit,        \* maximum number of mft records (2^32)
  Clusters,     \* clusters on the volume for the two attributes
  MaxFrees,     \* bound on the records freed
  Starts        \* initialized and data size of $MFT at first

ASSUME MftAllocAssumption ==
  /\ IsFiniteSet(Tasks) /\ NoTask \notin Tasks
  /\ {ByteBits, BmpStep, BmpCluster, MftCluster, Chunk} \cup PageRecords \subseteq Nat \ {0}
  /\ {Reserved, Limit, Clusters, MaxFrees} \subseteq Nat
  /\ Reserved % ByteBits = 0 /\ BmpStep % ByteBits = 0 /\ BmpStep <= BmpCluster
  /\ Limit % MftCluster = 0 /\ Limit % ByteBits \in {0, ByteBits - 1}
  /\ Starts \subseteq Nat \X Nat
  /\ \A s \in Starts : Reserved <= s[1] /\ s[1] <= s[2] /\ s[2] <= Limit

Records == 0 .. Limit

VARIABLES
  perPage,      \* mft records in a page
  lock,         \* owner of vol->mftbmp_lock
  bmp,          \* the bits that are set
  sz,           \* init, data and alloc of "bmp" and "mft", and clusters in rl
  at,           \* the same in the attribute records, map: mapping pairs
  used,         \* clusters marked in the volume's cluster bitmap
  mem,          \* each mft record in the page cache: use, seq, dirty
  disk,         \* and on disk
  dataPos,      \* vol->mft_data_pos
  live,         \* references to allocated records
  issued,       \* all references that were ever given out
  frees,
  errors,       \* NVolErrors()
  pc,
  loc           \* locals of each task

record == <<mem, disk>>
sizes == <<sz, at, used>>
refs == <<live, issued, frees>>
vars == <<perPage, lock, bmp, sizes, record, dataPos, refs, errors, pc, loc>>

Unit(x) == IF x = "bmp" THEN BmpCluster ELSE MftCluster
RoundUp(n, unit) == (n + unit - 1) \div unit

NoLoc == [bit |-> 0, ext |-> FALSE, formatted |-> FALSE, init |-> 0, data |-> 0]

(* The reserved records and all others that are initialized are in use;    *)
(* the first that is not reserved is an extent record.                     *)
Start(init, data) ==
  LET bits == BmpStep * RoundUp(init, BmpStep)
      bmpClusters == RoundUp(bits, BmpCluster)
      mftClusters == RoundUp(data, MftCluster)
  IN
  /\ lock = NoTask
  /\ bmp = 0 .. init - 1
  /\ sz = [bmp |-> [init |-> bits, data |-> bits, alloc |-> BmpCluster * bmpClusters,
                    rl |-> bmpClusters],
           mft |-> [init |-> init, data |-> data,
                    alloc |-> MftCluster * mftClusters, rl |-> mftClusters]]
  /\ at = [x \in {"bmp", "mft"} |-> [init |-> sz[x].init, data |-> sz[x].data,
                                     alloc |-> sz[x].alloc, map |-> sz[x].rl]]
  /\ used = bmpClusters + mftClusters
  /\ mem = [r \in Records |-> [use |-> r < init, seq |-> 1, dirty |-> FALSE]]
  /\ disk = [r \in Records |-> [use |-> r < init, seq |-> 1]]
  /\ dataPos = Reserved
  /\ live = {[r |-> r, seq |-> 1, ext |-> r = Reserved] : r \in Reserved .. init - 1}
  /\ issued = {<<x.r, x.seq>> : x \in live}
  /\ frees = 0 /\ errors = FALSE
  /\ pc = [t \in Tasks |-> "idle"]
  /\ loc = [t \in Tasks |-> NoLoc]

Init == perPage \in PageRecords /\ \E s \in Starts : Start(s[1], s[2])

Goto(t, from, to) == pc[t] = from /\ pc' = [pc EXCEPT ![t] = to]
Done(t, from) == Goto(t, from, "idle") /\ loc' = [loc EXCEPT ![t] = NoLoc]
Set(t, field, v) == loc' = [loc EXCEPT ![t][field] = v]

-----------------------------------------------------------------------------
(* ntfs_mft_bitmap_find_and_alloc_free_rec_nolock() *)

Clear(byte) == {b \in byte * ByteBits .. (byte + 1) * ByteBits - 1 : b \notin bmp}

(* In each byte from the one with bit "from" to the one with bit "to" - 1  *)
(* the first clear bit is looked at; in the first byte it counts only if   *)
(* it is not below "from".  It may be beyond "to".                         *)
Hits(from, to) ==
  {Min(Clear(k)) : k \in {j \in from \div ByteBits .. (to - 1) \div ByteBits :
                            /\ Clear(j) # {}
                            /\ j = from \div ByteBits => Min(Clear(j)) >= from}}

PassEnd == Min({sz["mft"].alloc, sz["bmp"].init})

(* Mutant: the search does not go back to the records before the start.  *)
FoundOnePass(start) ==
  IF start >= PassEnd THEN Hits(Reserved, PassEnd) ELSE Hits(start, PassEnd)

(* Two passes: from the start to the end, and from the first record that   *)
(* may be allocated to the start.                                          *)
FoundIn(start) ==
  IF start >= PassEnd THEN Hits(Reserved, PassEnd)
  ELSE IF Hits(start, PassEnd) # {} THEN Hits(start, PassEnd)
  ELSE Hits(Reserved, start)

(* Mutant: the bit that was found is not set.                             *)
SearchOnly(t, ext, base) ==
  LET start == Max({Reserved, IF ext THEN base + 1 ELSE dataPos})
      found == FoundIn(start)
  IN
  /\ lock = NoTask /\ lock' = t
  /\ Goto(t, "idle", IF found = {} THEN "full" ELSE "have")
  /\ loc' = [loc EXCEPT ![t] = [NoLoc EXCEPT !.bit = IF found = {} THEN 0 ELSE Min(found), !.ext = ext]]
  /\ UNCHANGED <<bmp, sizes, record, dataPos, refs, errors>>

(* ntfs_mft_record_alloc() takes the lock and searches.  An extent record  *)
(* is searched for from its base record, any other from mft_data_pos.      *)
Search(t, ext, base) ==
  LET start == Max({Reserved, IF ext THEN base + 1 ELSE dataPos})
      found == {b \in FoundIn(start) : Min(FoundIn(start)) <= Limit}
      bit == IF found = {} THEN 0 ELSE Min(found)
  IN
  /\ lock = NoTask /\ lock' = t
  /\ Goto(t, "idle", IF found = {} THEN "full" ELSE "have")
  /\ bmp' = IF found = {} THEN bmp ELSE bmp \cup {bit}
  /\ loc' = [loc EXCEPT ![t] = [NoLoc EXCEPT !.bit = bit, !.ext = ext]]
  /\ UNCHANGED <<sizes, record, dataPos, refs, errors>>

-----------------------------------------------------------------------------
(* Extending the attributes, under mftbmp_lock *)

Fail(t, from) == Done(t, from) /\ lock' = NoTask

(* ntfs_mft_bitmap_extend_allocation_nolock() and the same for the data:   *)
(* n clusters are allocated, added to the runlist and to the mapping       *)
(* pairs, and the sizes changed.                                           *)
Grown(x, n) ==
  /\ used + n <= Clusters
  /\ used' = used + n
  /\ sz' = [sz EXCEPT ![x].rl = @ + n, ![x].alloc = @ + n * Unit(x)]
  /\ at' = [at EXCEPT ![x].map = sz[x].rl + n, ![x].alloc = sz'[x].alloc]
  /\ UNCHANGED errors

(* It fails, with nothing changed or everything undone, or with something  *)
(* that could not be undone left and the volume marked.  undo_alloc of the *)
(* bitmap cannot fail to shorten the runlist.  Bound: undoing fails once.  *)
Undone(x, n) ==
  \E left \in SUBSET (IF x = "mft" THEN {"clusters", "rl", "map"} ELSE {"clusters", "map"}) :
    LET Left(part, m) == IF part \in left THEN m ELSE 0 IN
    /\ left # {} => ~errors /\ used + n <= Clusters
    /\ used' = used + Left("clusters", n)
    /\ sz' = [sz EXCEPT ![x].rl = @ + Left("rl", n)]
    /\ at' = [at EXCEPT ![x].map = @ + Left("map", sz[x].rl + n - @)]
    /\ errors' = (errors \/ left # {})

(* restore_undo_alloc: the extent cannot be found again; everything but    *)
(* the size in the attribute record stays extended.                        *)
NotRestored(x, n) ==
  /\ used + n <= Clusters
  /\ used' = used + n
  /\ sz' = [sz EXCEPT ![x].rl = @ + n, ![x].alloc = @ + n * Unit(x)]
  /\ at' = [at EXCEPT ![x].map = sz[x].rl + n]
  /\ errors' = TRUE

(* No bit is clear: the bitmap may cover more than the initialized         *)
(* records, or it has to be extended.                                      *)
NextBit(t) ==
  LET init == sz["mft"].init
      bits == sz["bmp"].init
      covered == bits > init /\ bits > Reserved
      bit == IF covered THEN Max({init, Reserved}) ELSE bits
  IN
  /\ \/ bit >= Limit /\ Fail(t, "full")
     \/ /\ bit < Limit
        /\ Goto(t, "full", IF covered THEN "setbit"
                           ELSE IF bits + BmpStep > sz["bmp"].alloc THEN "bmpalloc"
                           ELSE "bmpinit")
        /\ Set(t, "bit", bit)
        /\ UNCHANGED lock
  /\ UNCHANGED <<bmp, sizes, record, dataPos, refs, errors>>

BmpExtendAlloc(t) ==
  /\ \/ Goto(t, "bmpalloc", "bmpinit") /\ Grown("bmp", 1) /\ UNCHANGED <<lock, loc>>
     \/ Fail(t, "bmpalloc") /\ Undone("bmp", 1)
     \/ Fail(t, "bmpalloc") /\ NotRestored("bmp", 1)
  /\ UNCHANGED <<bmp, record, dataPos, refs>>

(* ntfs_mft_bitmap_extend_initialized_nolock(): the sizes are changed, and *)
(* changed back if the new bits could not be cleared.                      *)
BmpInitialized(init) ==
  LET data == Max({sz["bmp"].data, init}) IN
  /\ sz' = [sz EXCEPT !["bmp"].init = init, !["bmp"].data = data]
  /\ at' = [at EXCEPT !["bmp"].init = init, !["bmp"].data = data]

BmpExtendInit(t) ==
  LET init == sz["bmp"].init + BmpStep IN
  /\ \/ Goto(t, "bmpinit", "setbit") /\ BmpInitialized(init) /\ UNCHANGED <<lock, errors, loc>>
     \/ Fail(t, "bmpinit") /\ UNCHANGED <<sz, at, errors>>
     \/ Fail(t, "bmpinit") /\ BmpInitialized(init) /\ errors' = TRUE
  /\ UNCHANGED <<bmp, used, record, dataPos, refs>>

(* found_free_rec: *)
SetBit(t) ==
  /\ \/ Goto(t, "setbit", "have") /\ bmp' = bmp \cup {loc[t].bit} /\ UNCHANGED <<lock, loc>>
     \/ Fail(t, "setbit") /\ UNCHANGED bmp
  /\ UNCHANGED <<sizes, record, dataPos, refs, errors>>

(* have_alloc_rec: the record may be initialized, allocated or neither.    *)
HaveBit(t) ==
  /\ \/ /\ loc[t].bit < sz["mft"].init
        /\ Goto(t, "have", "prepare") /\ lock' = NoTask
        /\ UNCHANGED loc
     \/ /\ loc[t].bit >= sz["mft"].init /\ loc[t].bit < sz["mft"].alloc
        /\ Goto(t, "have", "format")
        /\ loc' = [loc EXCEPT ![t].init = sz["mft"].init, ![t].data = sz["mft"].data]
        /\ UNCHANGED lock
     \/ /\ loc[t].bit >= sz["mft"].alloc
        /\ Goto(t, "have", "extend")
        /\ UNCHANGED <<lock, loc>>
  /\ UNCHANGED <<bmp, sizes, record, dataPos, refs, errors>>

(* ntfs_mft_data_extend_allocation_nolock() extends $MFT by a chunk of     *)
(* clusters, or by one if there is no room for more.                       *)
MftClusters(n) ==
  /\ n \in {1, Chunk}
  /\ sz["mft"].alloc + n * MftCluster < Limit
  /\ n < Chunk => used + Chunk > Clusters \/ sz["mft"].alloc + Chunk * MftCluster >= Limit

(* It is called until the record is within the allocated size.  If $MFT's  *)
(* own record cannot be mapped, undo_alloc uses a search context that is   *)
(* NULL once it has freed the clusters, and the task ends there.           *)
MftExtendAlloc(t) ==
  /\ \/ /\ \E n \in {1, Chunk} : MftClusters(n) /\ Grown("mft", n)
        /\ Goto(t, "extend", "have")
     \/ /\ \E n \in {1, Chunk} : MftClusters(n) /\ (Undone("mft", n) \/ NotRestored("mft", n))
        /\ Goto(t, "extend", "clearbit")
     \/ /\ Goto(t, "extend", "clearbit")
        /\ UNCHANGED <<sizes, errors>>
     \/ /\ \E n \in {1, Chunk} : MftClusters(n) /\ sz' = [sz EXCEPT !["mft"].rl = @ + n]
        /\ used < Clusters
        /\ Goto(t, "extend", "oops")
        /\ UNCHANGED <<at, used, errors>>
  /\ UNCHANGED <<lock, bmp, record, dataPos, refs, loc>>

(* The bounds check of ntfs_mft_record_format().                           *)
BeyondEnd(r, isize) ==
  LET index == r \div perPage
      end == isize \div perPage IN
  index >= end /\ (index > end \/ (r % perPage) + 1 >= isize % perPage)

Layout(r) == [use |-> FALSE, seq |-> 1, dirty |-> TRUE]

(* One turn of the loop that formats records up to the one that is wanted. *)
FormatRecord(t) ==
  LET r == sz["mft"].init
      data == Max({sz["mft"].data, r + 1}) IN
  /\ r <= loc[t].bit
  /\ \/ /\ ~BeyondEnd(r, data)
        /\ Goto(t, "format", "format")
        /\ sz' = [sz EXCEPT !["mft"].init = r + 1, !["mft"].data = data]
        /\ mem' = [mem EXCEPT ![r] = Layout(r)]
     \/ /\ Goto(t, "format", "undoinit")
        /\ sz' = [sz EXCEPT !["mft"].data = data]
        /\ UNCHANGED mem
  /\ UNCHANGED <<lock, bmp, at, used, disk, dataPos, refs, errors, loc>>

(* The sizes in the attribute record follow, and the lock is dropped.      *)
UpdateSizes(t) ==
  /\ sz["mft"].init > loc[t].bit
  /\ \/ /\ Goto(t, "format", "prepare") /\ lock' = NoTask
        /\ at' = [at EXCEPT !["mft"].init = sz["mft"].init, !["mft"].data = sz["mft"].data]
        /\ loc' = [loc EXCEPT ![t].formatted = TRUE, ![t].init = 0, ![t].data = 0]
     \/ /\ Goto(t, "format", "undoinit")
        /\ UNCHANGED <<lock, at, loc>>
  /\ UNCHANGED <<bmp, sz, used, record, dataPos, refs, errors>>

(* Mutant: the size of the data is not put back.                          *)
UndoInitKeepSize(t) ==
  /\ Goto(t, "undoinit", "clearbit")
  /\ sz' = [sz EXCEPT !["mft"].init = loc[t].init]
  /\ loc' = [loc EXCEPT ![t].init = 0, ![t].data = 0]
  /\ UNCHANGED <<lock, bmp, at, used, record, dataPos, refs, errors>>

(* undo_data_init: *)
UndoInit(t) ==
  /\ Goto(t, "undoinit", "clearbit")
  /\ sz' = [sz EXCEPT !["mft"].init = loc[t].init, !["mft"].data = loc[t].data]
  /\ loc' = [loc EXCEPT ![t].init = 0, ![t].data = 0]
  /\ UNCHANGED <<lock, bmp, at, used, record, dataPos, refs, errors>>

(* undo_mftbmp_alloc: and undo_mftbmp_alloc_nolock: the bit is cleared. So *)
(* it is at the end of ntfs_extent_mft_record_free().                      *)
ClearBit(t) ==
  /\ lock \in {t, NoTask}
  /\ Done(t, "clearbit")
  /\ lock' = NoTask
  /\ \/ bmp' = bmp \ {loc[t].bit} /\ UNCHANGED errors
     \/ errors' = TRUE /\ UNCHANGED bmp
  /\ UNCHANGED <<sizes, record, dataPos, refs>>

-----------------------------------------------------------------------------
(* Preparing the record, in its locked page *)

(* The caller gets an inode; a base record moves the next search on.       *)
Open(r, seq, ext) ==
  /\ live' = live \cup {[r |-> r, seq |-> seq, ext |-> ext]}
  /\ issued' = issued \cup {<<r, seq>>}
  /\ dataPos' = IF ext THEN dataPos ELSE r + 1

(* A record that was not formatted just now must not be in use; it is laid *)
(* out and keeps its sequence number.  Then it is in use, and gets an      *)
(* inode.  If there is no memory for that, it is not in use again.         *)
Prepare(t) ==
  LET r == loc[t].bit
      seq == IF loc[t].formatted \/ mem[r].seq = 0 THEN 1 ELSE mem[r].seq
  IN
  /\ \/ /\ loc[t].formatted \/ ~mem[r].use
        /\ Done(t, "prepare")
        /\ mem' = [mem EXCEPT ![r] = [use |-> TRUE, seq |-> seq, dirty |-> TRUE]]
        /\ Open(r, seq, loc[t].ext)
        /\ UNCHANGED errors
     \/ /\ loc[t].formatted \/ ~mem[r].use
        /\ Goto(t, "prepare", "clearbit")
        /\ mem' = [mem EXCEPT ![r] = [use |-> FALSE, seq |-> seq, dirty |-> TRUE]]
        /\ UNCHANGED <<live, issued, dataPos, errors, loc>>
     \/ /\ ~loc[t].formatted /\ mem[r].use
        /\ Goto(t, "prepare", "clearbit")
        /\ errors' = TRUE
        /\ UNCHANGED <<mem, live, issued, dataPos, loc>>
     \/ /\ Goto(t, "prepare", "clearbit")
        /\ UNCHANGED <<mem, live, issued, dataPos, errors, loc>>
  /\ UNCHANGED <<lock, bmp, sizes, disk, frees>>

-----------------------------------------------------------------------------
(* ntfs_extent_mft_record_free() *)

(* Mutant: the sequence number is kept.                                   *)
SameSeq(s) == s

(* 0xffff is followed by 1.                                                *)
NextSeq(s) == IF s = 65535 THEN 1 ELSE IF s = 0 THEN 0 ELSE s + 1

(* The extent inode is detached, its record set not in use with the next   *)
(* sequence number, and the inode set dirty; the record is written if its  *)
(* buffers are dirty, which is not done here.                              *)
Free(t, ref) ==
  /\ frees < MaxFrees /\ ref.ext
  /\ Goto(t, "idle", "clearbit")
  /\ live' = live \ {ref}
  /\ frees' = frees + 1
  /\ Set(t, "bit", ref.r)
  /\ LET m == [use |-> FALSE, seq |-> NextSeq(ref.seq)] IN
     /\ mem' = [mem EXCEPT ![ref.r] = [use |-> m.use, seq |-> m.seq, dirty |-> FALSE]]
     /\ disk' = IF mem[ref.r].dirty THEN [disk EXCEPT ![ref.r] = m] ELSE disk
  /\ UNCHANGED <<lock, bmp, sizes, dataPos, issued, errors>>

(* Writing fails.  The extent inode is attached again; or, without memory  *)
(* for the array of extents, the record is freed all the same.             *)
FreeFails(t, ref) ==
  /\ frees < MaxFrees /\ ref.ext /\ mem[ref.r].dirty
  /\ frees' = frees + 1
  /\ \/ /\ pc[t] = "idle"
        /\ UNCHANGED <<mem, live, pc, loc, errors>>
     \/ /\ Goto(t, "idle", "clearbit")
        /\ live' = live \ {ref}
        /\ Set(t, "bit", ref.r)
        /\ mem' = [mem EXCEPT ![ref.r] = [use |-> FALSE, seq |-> NextSeq(ref.seq), dirty |-> FALSE]]
        /\ errors' = TRUE
  /\ UNCHANGED <<lock, bmp, sizes, disk, dataPos, issued>>

-----------------------------------------------------------------------------
(* Records are written back; a clean record may leave the page cache, and  *)
(* is read again when it is needed.                                        *)
WriteBack(r) ==
  /\ mem[r].dirty
  /\ mem' = [mem EXCEPT ![r].dirty = FALSE]
  /\ disk' = [disk EXCEPT ![r] = [use |-> mem[r].use, seq |-> mem[r].seq]]
  /\ UNCHANGED <<lock, bmp, sizes, dataPos, refs, errors, pc, loc>>

Reclaim(r) ==
  /\ ~mem[r].dirty
  /\ mem' = [mem EXCEPT ![r] = [use |-> disk[r].use, seq |-> disk[r].seq, dirty |-> FALSE]]
  /\ UNCHANGED <<lock, bmp, sizes, disk, dataPos, refs, errors, pc, loc>>

AllocStep(t) ==
  \/ Search(t, FALSE, 0) \/ \E ref \in live : ~ref.ext /\ Search(t, TRUE, ref.r)
  \/ NextBit(t) \/ BmpExtendAlloc(t) \/ BmpExtendInit(t) \/ SetBit(t) \/ HaveBit(t)
  \/ MftExtendAlloc(t) \/ FormatRecord(t) \/ UpdateSizes(t) \/ UndoInit(t) \/ ClearBit(t)
  \/ Prepare(t)

Next ==
  /\ \/ \E t \in Tasks : AllocStep(t) \/ \E ref \in live : Free(t, ref) \/ FreeFails(t, ref)
     \/ \E r \in Records : WriteBack(r) \/ Reclaim(r)
  /\ UNCHANGED perPage

Spec == Init /\ [][Next]_vars

-----------------------------------------------------------------------------
(* The variables have their types.                                         *)
TypeOK ==
  /\ lock \in Tasks \cup {NoTask}
  /\ bmp \subseteq Records /\ \A x \in live : x.r \in Records
  /\ used \in 0 .. Clusters
  /\ \A r \in Records : mem[r].use \in BOOLEAN /\ mem[r].seq \in Nat /\ mem[r].dirty \in BOOLEAN
  /\ errors \in BOOLEAN

(* The search gives up only when no record that the bitmap and the         *)
(* allocated size cover is free: the two passes over whole bytes leave     *)
(* nothing out, whatever bit they start from.                              *)
FullIsFull ==
  \A t \in Tasks : pc[t] = "full" => Reserved .. PassEnd - 1 \subseteq bmp

(* A record belongs to one user only: its bit is set, it is initialized    *)
(* and in use, and nobody has given it a new sequence number.              *)
OneOwner ==
  \A x \in live :
    /\ x.r \in bmp /\ x.r >= Reserved /\ x.r < sz["mft"].init
    /\ mem[x.r].use /\ mem[x.r].seq = x.seq
    /\ \A y \in live : y.r = x.r => y = x
    /\ \A t \in Tasks : pc[t] \notin {"idle", "full", "oops"} => loc[t].bit # x.r

(* A reference (record number and sequence number) is never given out      *)
(* twice unless the volume is marked: an attribute list that still names a *)
(* freed record is recognised, also after the page with the record was     *)
(* dropped and read again.                                                 *)
RefsUnique ==
  [][~errors => \A x \in live' \ live : <<x.r, x.seq>> \notin issued]_vars

Agree(x) ==
  /\ sz[x].init = at[x].init /\ sz[x].data = at[x].data /\ sz[x].alloc = at[x].alloc
  /\ sz[x].rl = at[x].map /\ sz[x].alloc = sz[x].rl * Unit(x)

(* On error the volume is left in a consistent state, or NVolErrors() is   *)
(* set: memory and attribute records agree, and no cluster is lost,        *)
(* whenever the lock is free.  At every step initialized_size <= data_size *)
(* <= allocated_size, and the bitmap has a bit for every record.           *)
ConsistentOrFlagged ==
  /\ lock = NoTask /\ ~errors =>
       Agree("bmp") /\ Agree("mft") /\ used = sz["bmp"].rl + sz["mft"].rl
  /\ \A x \in {"bmp", "mft"} : sz[x].init <= sz[x].data /\ sz[x].data <= sz[x].alloc
  /\ sz["bmp"].init >= sz["mft"].init

(* A record whose bit is clear is not in use on disk, once nothing is      *)
(* left to be written: ntfs_extent_mft_record_free() writes the record     *)
(* out before it clears the bit.                                           *)
FreedIsWritten ==
  \A r \in Records : r \notin bmp /\ ~mem[r].dirty /\ ~errors => ~disk[r].use
=============================================================================
