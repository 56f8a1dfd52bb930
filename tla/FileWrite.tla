----------------------------- MODULE FileWrite -----------------------------
(***************************************************************************)
(* Writing and truncating a file (ntfs/file.c, attrib.c, inode.c and       *)
(* aops.c, with NTFS_RW).                                                  *)
(*                                                                         *)
(* One regular file that is neither compressed nor encrypted, and its      *)
(* unnamed $DATA attribute, held in one attribute record.  One task calls  *)
(* setattr(), write() and fsync(), as i_mutex allows; pages are read,      *)
(* written back and reclaimed at any time in between.  A page is locked    *)
(* while it is prepared, filled and committed, which is one step here.     *)
(*                                                                         *)
(* Sizes are in units.  A page is one buffer and one cluster, of B units;  *)
(* a resident value is smaller than that.                                  *)
(***************************************************************************)
EXTENDS Integers, Sequences, FiniteSets, FiniteSetsExt

CONSTANTS
  B,            \* units in a page, a buffer and a cluster
  Room,         \* units the mft record has for a resident value
  MaxData,      \* maximum size of $DATA in $AttrDef
  Sizes, Writes,\* the sizes set, and the ranges <<pos, end>> written
  Starts,       \* the sizes of a non-resident file at first: <<i_size, init>>
  Clusters,     \* how many clusters of the volume the file may use
  MaxOps,       \* bound on the system calls
  MaxFaults     \* bound on the failures of a lookup, a read, an allocation...

ASSUME FileWriteAssumption ==
  /\ B \in Nat \ {0}
  /\ {Room, MaxData, MaxOps, MaxFaults} \cup Clusters \cup Sizes \subseteq Nat
  /\ \A w \in Writes : w \in Nat \X Nat /\ w[1] < w[2]
  /\ \A s \in Starts : s \in Nat \X Nat /\ s[2] <= s[1]
  /\ Room < B

RoundUp(n) == B * ((n + B - 1) \div B)

MaxSize == Max(Sizes \cup {w[2] : w \in Writes} \cup {s[1] + B : s \in Starts})

(* The units and pages of the largest file, and the pages of one of size n *)
Units == 0 .. RoundUp(MaxSize) - 1
PagesOf(n) == 0 .. (n + B - 1) \div B - 1
Pages == PagesOf(MaxSize)
Page(u) == u \div B
UnitsOf(p) == p * B .. (p + 1) * B - 1

(* What a unit holds: zeroes, what was written to the file, or what some   *)
(* other file has left there.                                              *)
Values == {"zero", "data", "junk"}

ENOMEM == -12
EIO == -5
ENOSPC == -28
EFBIG == -27
EOPNOTSUPP == -95

VARIABLES
  isize, init, alloc,   \* i_size, initialized_size and allocated_size
  nonres,       \* NInoNonResident() and a->non_resident
  rl,           \* the runlist, cluster by cluster: TRUE, or FALSE in a hole
  rec,          \* the attribute record: its sizes, mapping pairs and value
  disk,         \* the contents of the clusters of the file
  total, used,  \* clusters of the volume, and those marked in the bitmap
  cache,        \* the contents of the cached pages
  cd,           \* of each page: "none" unless it is cached and uptodate,
                \* "clean", "dirty", or "stuck": clean with a dirty buffer
  mapped,       \* the pages whose buffer knows its cluster
  errors,       \* NVolErrors()
  truncFailed,  \* NInoTruncateFailed()
  wberr,        \* error of a page's write that fsync() has yet to report
  sparse,       \* NInoSparse()
  pc, loc,      \* the system call that holds i_mutex, and its locals
  ret,          \* what the last function has returned
  may,          \* what a reader may be given, unit by unit
  ops, faults   \* system calls and failures that are left

mem == <<isize, init, alloc, nonres, rl>>
store == <<rec, disk, used, total>>
pages == <<cache, cd, mapped>>
flags == <<errors, truncFailed>>
vars == <<mem, store, pages, flags, wberr, sparse, pc, loc, ret, may, ops, faults>>

NoLoc == [pos |-> 0, end |-> 0, ask |-> 0, data |-> -1, from |-> "idle",
          back |-> "idle", old |-> 0, idx |-> 0]

Real(list) == Cardinality({i \in DOMAIN list : list[i]})

TypeOK ==
  /\ {isize, init, alloc, used, ops, faults} \subseteq Nat
  /\ {nonres, errors, truncFailed, wberr, sparse} \subseteq BOOLEAN
  /\ rl \in Seq(BOOLEAN)
  /\ disk \in [Units -> Values] /\ cache \in [Units -> Values]
  /\ cd \in [Pages -> {"none", "clean", "dirty", "stuck"}]
  /\ mapped \subseteq Pages
  /\ may \in [Units -> SUBSET Values]

(* The file as it is when its inode is first read: a resident value of     *)
(* size s, or s units of which i are initialized in the clusters of map.   *)
Resident(s) ==
  /\ nonres = FALSE /\ rl = <<>> /\ sparse = FALSE
  /\ isize = s /\ init = s /\ alloc = s /\ used = 0
  /\ rec = [size |-> s, init |-> s, alloc |-> s, map |-> <<>>,
            val |-> [u \in 0 .. Room - 1 |-> IF u < s THEN "data" ELSE "junk"]]
  /\ disk = [u \in Units |-> "junk"]
  /\ may = [u \in Units |-> {IF u < s THEN "data" ELSE "zero"}]

NonResident(s, i, map) ==
  /\ nonres = TRUE /\ rl = map /\ sparse = (FALSE \in {map[k] : k \in DOMAIN map})
  /\ isize = s /\ init = i /\ alloc = B * Len(map) /\ used = Real(map)
  /\ rec = [size |-> s, init |-> i, alloc |-> B * Len(map), map |-> map,
            val |-> [u \in 0 .. Room - 1 |-> "junk"]]
  /\ disk = [u \in Units |-> IF u < i /\ map[Page(u) + 1] THEN "data" ELSE "junk"]
  /\ may = [u \in Units |-> {IF u < i /\ map[Page(u) + 1] THEN "data" ELSE "zero"}]

Init ==
  /\ \/ \E s \in 0 .. Room : Resident(s)
     \/ \E s \in Starts, more \in {0, 1}, hole \in BOOLEAN :
          LET n == Cardinality(PagesOf(s[1])) + more
          IN  (hole => n > 0) /\ NonResident(s[1], s[2], [k \in 1 .. n |-> ~hole \/ k # 1])
  /\ total \in Clusters /\ used <= total
  /\ cache = [u \in Units |-> "zero"]
  /\ cd = [p \in Pages |-> "none"]
  /\ mapped = {}
  /\ errors = FALSE /\ truncFailed = FALSE /\ wberr = FALSE
  /\ pc = "idle" /\ loc = NoLoc /\ ret = 0
  /\ ops = MaxOps /\ faults = MaxFaults

-----------------------------------------------------------------------------

Fault == faults > 0 /\ faults' = faults - 1
NoFault == UNCHANGED faults

(* What ntfs_readpage() puts into a page: the value from the mft record,   *)
(* or the clusters as far as they are initialized, and zeroes.             *)
Contents(u) ==
  IF nonres
    THEN IF u < Min({init, isize}) /\ Page(u) < Len(rl) /\ rl[Page(u) + 1]
           THEN disk[u] ELSE "zero"
    ELSE IF u < Min({rec.size, init, isize}) THEN rec.val[u] ELSE "zero"

(* A buffer is mapped when it is read, unless it is in a hole.             *)
Mappable(p) == {q \in {p} : nonres /\ q < Len(rl) /\ rl[q + 1]}

(* What a reader is given.                                                 *)
View(u) == IF cd[Page(u)] = "none" THEN Contents(u) ELSE cache[u]

(* truncate_pagecache(): pages beyond n are dropped, the rest of the page  *)
(* that n lies in is cleared.                                              *)
TruncatePages(n) ==
  /\ cd' = [p \in Pages |-> IF p * B >= n THEN "none" ELSE cd[p]]
  /\ cache' = [u \in Units |-> IF u >= n THEN "zero" ELSE cache[u]]
  /\ mapped' = {p \in mapped : p * B < n}

(* Clusters first used get whatever they held before.                      *)
Junked(set) == [u \in Units |-> IF Page(u) \in set THEN "junk" ELSE disk[u]]
Zeroed(val, from, to) == [u \in DOMAIN val |-> IF from <= u /\ u < to THEN "zero" ELSE val[u]]

-----------------------------------------------------------------------------
(* The size is set: ntfs_setattr() and ntfs_truncate().  A volume that is  *)
(* marked as damaged waits for chkdsk: no further calls are looked at.     *)

Called == pc = "idle" /\ ops > 0 /\ ~errors

(* A call returns, with a value that the model has no use for.             *)
Return == pc' = "idle" /\ loc' = NoLoc /\ ret' = 0

SetSize(n) ==
  /\ Called /\ n # isize
  /\ ops' = ops - 1
  /\ isize' = n
  /\ IF n < isize THEN TruncatePages(n) ELSE UNCHANGED pages
  /\ may' = IF n < isize THEN [u \in Units |-> IF u < n THEN may[u] ELSE {"zero"}] ELSE may
  /\ pc' = "truncate"
  /\ loc' = NoLoc
  /\ UNCHANGED <<init, alloc, nonres, rl, store, flags, wberr, sparse, ret, faults>>

(* ntfs_truncate() returns to a write, which looks at err, or to setattr() *)
LeaveTruncate(err) ==
  IF loc.from = "idle" THEN Return ELSE pc' = loc.from /\ ret' = err /\ UNCHANGED loc

(* The end of ntfs_truncate(): the flag is cleared if err is 0.            *)
TruncateReturns(err) ==
  /\ truncFailed' = (truncFailed /\ err # 0)
  /\ LeaveTruncate(err)
  /\ UNCHANGED <<wberr, sparse, may, ops>>

(* bad_out and conv_err_out.  Only i_size has changed: what was to be cut  *)
(* off is still there, but for the changes to it in pages that are gone.   *)
TruncateBad(err, oldSize) ==
  /\ errors' = (errors \/ err \notin {ENOMEM, EOPNOTSUPP})
  /\ truncFailed' = (truncFailed \/ err # EOPNOTSUPP)
  /\ isize' = IF err = EOPNOTSUPP THEN oldSize ELSE isize
  /\ may' = [u \in Units |-> IF u < isize \/ err = EOPNOTSUPP THEN may[u] ELSE Values]
  /\ LeaveTruncate(err)
  /\ UNCHANGED <<init, alloc, nonres, wberr, sparse, ops>>

NewAlloc == IF nonres THEN RoundUp(isize) ELSE isize

TruncateNothing ==
  /\ pc = "truncate" /\ isize = rec.size /\ NewAlloc = alloc
  /\ NoFault
  /\ TruncateReturns(0)
  /\ UNCHANGED <<mem, store, pages, errors>>

(* map_mft_record(), the search context or ntfs_attr_lookup() failed.      *)
TruncateNoRecord ==
  /\ pc = "truncate" /\ Fault
  /\ \E err \in {ENOMEM, EIO} : TruncateBad(err, isize)
  /\ UNCHANGED <<rl, store, pages>>

Truncating == pc = "truncate" /\ (isize # rec.size \/ NewAlloc # alloc)

TruncateTooBig ==
  /\ Truncating /\ NoFault
  /\ isize # rec.size /\ isize > MaxData
  /\ isize' = rec.size
  /\ LeaveTruncate(EFBIG)
  /\ UNCHANGED <<init, alloc, nonres, rl, store, pages, flags, wberr, sparse, may, ops>>

InBounds == Truncating /\ (isize = rec.size \/ isize <= MaxData)

TruncateResident ==
  /\ InBounds /\ NoFault /\ ~nonres
  /\ IF isize <= Room
       THEN /\ rec' = [rec EXCEPT !.size = isize, !.init = isize, !.alloc = isize,
                                  !.val = Zeroed(rec.val, rec.size, isize)]
            /\ alloc' = isize /\ init' = isize
            /\ TruncateReturns(0)
       ELSE /\ pc' = "convert"
            /\ loc' = [loc EXCEPT !.back = "truncate"]
            /\ UNCHANGED <<rec, alloc, init, ret, truncFailed, wberr, sparse, may, ops>>
  /\ UNCHANGED <<isize, nonres, rl, disk, used, total, pages, errors>>

ShrunkSize == IF isize < rec.size THEN [rec EXCEPT !.size = isize] ELSE rec

(* The sizes of a non-resident attribute that has become smaller.          *)
Shrunk ==
  IF isize < rec.size
    THEN [rec EXCEPT !.size = isize, !.init = IF isize < init THEN isize ELSE rec.init]
    ELSE rec
ShrunkInit == IF isize < rec.size THEN Min({init, isize}) ELSE init

(* The allocated size stays.                                               *)
TruncateSize ==
  /\ InBounds /\ NoFault /\ nonres /\ NewAlloc = alloc
  /\ rec' = [Shrunk EXCEPT !.size = isize]
  /\ init' = ShrunkInit
  /\ TruncateReturns(0)
  /\ UNCHANGED <<isize, alloc, nonres, rl, disk, used, total, pages, errors>>

TruncateExtend ==
  /\ InBounds /\ NoFault /\ nonres /\ NewAlloc > alloc
  /\ pc' = "extend"
  /\ loc' = [loc EXCEPT !.ask = isize, !.data = IF isize > rec.size THEN isize ELSE -1,
                        !.back = "extended"]
  /\ UNCHANGED <<mem, store, pages, flags, wberr, sparse, ret, may, ops>>

(* It is the size that the allocation now has that is returned.            *)
TruncateExtended ==
  /\ pc = "extended" /\ NoFault
  /\ TruncateReturns(ret)
  /\ UNCHANGED <<mem, store, pages, errors>>

(* The clusters beyond the new size are freed; then the runlist and the    *)
(* mapping pairs are cut.                                                  *)
TruncateFree ==
  /\ InBounds /\ nonres /\ NewAlloc < alloc
  /\ LET keep == SubSeq(rl, 1, NewAlloc \div B)
         freed == used - Real(rl) + Real(keep)
     IN
     \/ /\ NoFault                            \* all is well
        /\ used' = freed
        /\ rl' = keep
        /\ rec' = [Shrunk EXCEPT !.alloc = NewAlloc, !.map = keep, !.size = isize]
        /\ alloc' = NewAlloc /\ init' = ShrunkInit
        /\ TruncateReturns(0)
        /\ UNCHANGED <<isize, nonres, errors>>
     \/ /\ Fault                              \* ntfs_cluster_free() failed
        /\ rl' = keep
        /\ rec' = [Shrunk EXCEPT !.alloc = NewAlloc, !.map = keep, !.size = isize]
        /\ alloc' = NewAlloc /\ init' = ShrunkInit
        /\ errors' = TRUE
        /\ TruncateReturns(0)
        /\ UNCHANGED <<isize, nonres, used>>
     \/ /\ Fault                              \* the runlist or the mapping pairs
        /\ used' = freed
        /\ rl' \in {rl, keep}
        /\ rec' = Shrunk
        /\ init' = ShrunkInit
        /\ errors' = TRUE /\ truncFailed' = TRUE
        /\ LeaveTruncate(EIO)
        /\ UNCHANGED <<isize, alloc, nonres, wberr, sparse, may, ops>>
  /\ UNCHANGED <<disk, total, pages>>

Truncate ==
  \/ TruncateNothing \/ TruncateNoRecord \/ TruncateTooBig \/ TruncateResident
  \/ TruncateSize \/ TruncateExtend \/ TruncateExtended \/ TruncateFree

-----------------------------------------------------------------------------
(* A resident attribute is made non-resident: ntfs_attr_make_non_resident() *)

Need == Cardinality(PagesOf(rec.size))
Full == total - used < Need
Page0 == [u \in UnitsOf(0) |->
            IF cd[0] # "none" THEN cache[u]
            ELSE IF u < rec.size THEN rec.val[u] ELSE "zero"]
FillPage0 ==
  IF Need = 0 THEN cache ELSE [u \in Units |-> IF u \in UnitsOf(0) THEN Page0[u] ELSE cache[u]]

(* What the two callers make of a failure.                                 *)
ConvertFails(err) ==
  LET e == IF err = ENOSPC THEN EOPNOTSUPP ELSE err
  IN  IF loc.back = "truncate"
        THEN /\ TruncateBad(e, rec.size)
             /\ UNCHANGED rl
        ELSE /\ ret' = e
             /\ pc' = loc.back
             /\ UNCHANGED <<mem, flags, wberr, sparse, loc, may, ops>>

ConvertNoSpace ==
  /\ pc = "convert" /\ NoFault /\ Full
  /\ ConvertFails(ENOSPC)
  /\ UNCHANGED <<store, pages>>

(* The page, the lookup, or the room for the attribute record: the         *)
(* clusters are freed again.                                               *)
ConvertError ==
  /\ pc = "convert" /\ Fault /\ ~Full
  /\ \E err \in {ENOMEM, EIO, ENOSPC} : ConvertFails(err)
  /\ UNCHANGED <<store, pages>>

(* The mapping pairs could not be built: the value is put back from the    *)
(* page, which is uptodate now.                                            *)
ConvertUndo ==
  /\ pc = "convert" /\ Fault /\ ~Full
  /\ rec' = [rec EXCEPT !.val = [u \in DOMAIN rec.val |->
                IF u < rec.size THEN Page0[u] ELSE rec.val[u]],
                        !.alloc = rec.size]
  /\ cache' = FillPage0
  /\ cd' = IF Need > 0 /\ cd[0] = "none" THEN [cd EXCEPT ![0] = "clean"] ELSE cd
  /\ alloc' = rec.size
  /\ IF loc.back = "truncate"
       THEN truncFailed' = TRUE /\ errors' = TRUE /\ LeaveTruncate(EIO)
       ELSE pc' = loc.back /\ ret' = EIO /\ UNCHANGED <<loc, flags>>
  /\ UNCHANGED <<isize, init, nonres, rl, disk, used, total, mapped, wberr, sparse, may, ops>>

Convert ==
  /\ pc = "convert" /\ NoFault /\ ~Full
  /\ nonres' = TRUE
  /\ rl' = [k \in 1 .. Need |-> TRUE]
  /\ used' = used + Need
  /\ alloc' = RoundUp(rec.size)
  /\ rec' = [rec EXCEPT !.init = rec.size, !.alloc = RoundUp(rec.size), !.map = rl',
                        !.val = [u \in DOMAIN rec.val |-> "junk"]]
  /\ disk' = Junked(PagesOf(rec.size))
  /\ cache' = FillPage0
  /\ cd' = IF Need > 0 THEN [cd EXCEPT ![0] = "dirty"] ELSE cd
  /\ pc' = IF loc.back = "truncate" THEN "truncate" ELSE "extend"
  /\ UNCHANGED <<isize, init, total, mapped, flags, wberr, sparse, loc, ret, may, ops>>

-----------------------------------------------------------------------------
(* ntfs_attr_extend_allocation(), for ntfs_truncate() and for a write.     *)

ExtendReturns(r) ==
  /\ pc' = loc.back
  /\ ret' = r
  /\ UNCHANGED <<truncFailed, wberr, sparse, loc, may, ops>>

Asked == IF nonres THEN RoundUp(loc.ask) ELSE loc.ask

ExtendTooBig ==
  /\ pc = "extend" /\ NoFault /\ Asked > MaxData
  /\ ExtendReturns(EFBIG)
  /\ UNCHANGED <<mem, store, pages, errors>>

Extending == pc = "extend" /\ Asked <= MaxData

(* The lookup or the decompression of the mapping pairs failed.            *)
ExtendNoRecord ==
  /\ Extending /\ Fault
  /\ \E err \in {ENOMEM, EIO} : ExtendReturns(err)
  /\ UNCHANGED <<mem, store, pages, errors>>

(* A conversion has allocated enough already.                              *)
ExtendNothing ==
  /\ Extending /\ NoFault /\ Asked <= alloc
  /\ rec' = [rec EXCEPT !.size = IF loc.data >= 0 THEN loc.data ELSE @]
  /\ ExtendReturns(alloc)
  /\ UNCHANGED <<mem, disk, used, total, pages, errors>>

(* The attribute record grows, over whatever is behind the value.          *)
ExtendResident ==
  /\ Extending /\ NoFault /\ Asked > alloc /\ ~nonres
  /\ IF Asked <= Room
       THEN /\ alloc' = Asked
            /\ rec' = [rec EXCEPT !.alloc = Asked]
            /\ ExtendReturns(Asked)
       ELSE /\ pc' = "convert"
            /\ UNCHANGED <<alloc, rec, ret, truncFailed, wberr, sparse, loc, may, ops>>
  /\ UNCHANGED <<isize, init, nonres, rl, disk, used, total, pages, errors>>

Growing == Extending /\ nonres /\ Asked > alloc
More == (Asked - alloc) \div B
Grown == rl \o [k \in 1 .. More |-> TRUE]

ExtendNoSpace ==
  /\ Growing /\ NoFault /\ total - used < More
  /\ ExtendReturns(ENOSPC)
  /\ UNCHANGED <<mem, store, pages, errors>>

ExtendUndoLeaks ==
  /\ Growing /\ Fault /\ total - used >= More
  /\ used' = used + More
  /\ ExtendReturns(ENOMEM)
  /\ UNCHANGED <<mem, rec, disk, total, pages, errors>>

(* The new runs cannot be merged or described.  The clusters are freed and *)
(* the runlist is cut again; what cannot be undone is flagged.             *)
ExtendUndo ==
  /\ Growing /\ Fault /\ total - used >= More
  /\ \/ UNCHANGED <<rl, used, errors>>
     \/ /\ faults' > 0
        /\ errors' = TRUE
        /\ \/ rl' = rl /\ used' = used + More
           \/ rl' = Grown /\ used' = used
  /\ \E err \in {ENOMEM, EIO, EOPNOTSUPP} : ExtendReturns(err)
  /\ UNCHANGED <<isize, init, alloc, nonres, rec, disk, total, pages>>

Extend ==
  /\ Growing /\ NoFault /\ total - used >= More
  /\ rl' = Grown
  /\ used' = used + More
  /\ disk' = Junked(Len(rl) .. Len(rl) + More - 1)
  /\ alloc' = Asked
  /\ rec' = [rec EXCEPT !.alloc = Asked, !.map = Grown,
                        !.size = IF loc.data >= 0 THEN loc.data ELSE @]
  /\ ExtendReturns(Asked)
  /\ UNCHANGED <<isize, init, nonres, total, pages, errors>>

Allocation ==
  \/ ConvertNoSpace \/ ConvertError \/ ConvertUndo \/ Convert
  \/ ExtendTooBig \/ ExtendNoRecord \/ ExtendNothing \/ ExtendResident
  \/ ExtendNoSpace \/ ExtendUndo \/ Extend

-----------------------------------------------------------------------------
(* A write: ntfs_file_buffered_write().                                    *)

quiet == <<wberr, sparse, ops>>

Write(pos, end) ==
  /\ Called
  /\ ops' = ops - 1
  /\ loc' = [NoLoc EXCEPT !.pos = pos, !.end = end, !.from = "retried"]
  /\ pc' = IF truncFailed THEN "truncate" ELSE "alloc"
  /\ UNCHANGED <<mem, store, pages, flags, wberr, sparse, ret, may, faults>>

(* A truncate that had failed was repeated.                                *)
Retried ==
  /\ pc = "retried"
  /\ IF ret # 0 \/ truncFailed THEN Return ELSE pc' = "alloc" /\ UNCHANGED <<loc, ret>>
  /\ UNCHANGED <<mem, store, pages, flags, quiet, may, faults>>

Allocate ==
  /\ pc = "alloc"
  /\ IF loc.end > alloc
       THEN /\ pc' = "extend"
            /\ loc' = [loc EXCEPT !.ask = loc.end, !.data = -1, !.back = "alloced"]
       ELSE /\ pc' = "init"
            /\ UNCHANGED loc
  /\ UNCHANGED <<mem, store, pages, flags, quiet, ret, may, faults>>

(* If there is no space the write ends with the space there is.            *)
Allocated ==
  /\ pc = "alloced"
  /\ LET end == IF ret >= 0 THEN Min({loc.end, ret}) ELSE alloc
     IN IF loc.pos < end
          THEN /\ pc' = "init" /\ ret' = 0
               /\ loc' = [NoLoc EXCEPT !.pos = loc.pos, !.end = end]
          ELSE Return
  /\ UNCHANGED <<mem, store, pages, flags, quiet, may, faults>>

(* The gap before the write: ntfs_attr_extend_initialized().               *)
NoGap ==
  /\ pc = "init" /\ loc.pos <= init
  /\ pc' = "page"
  /\ UNCHANGED <<mem, store, pages, flags, quiet, loc, ret, may, faults>>

Gap == pc = "init" /\ loc.pos > init

GapNoRecord ==
  /\ Gap /\ Fault /\ (nonres => loc.pos > isize)
  /\ Return
  /\ UNCHANGED <<mem, store, pages, flags, quiet, may>>

GapResidentSize ==
  /\ Gap /\ NoFault /\ ~nonres
  /\ rec' = [rec EXCEPT !.val = Zeroed(rec.val, rec.size, loc.pos), !.size = loc.pos]
  /\ isize' = loc.pos
  /\ pc' = "page"
  /\ UNCHANGED <<init, alloc, nonres, rl, disk, used, total, pages, flags, quiet, loc, ret, may>>

GapResident ==
  /\ Gap /\ NoFault /\ ~nonres
  /\ rec' = [rec EXCEPT !.val = Zeroed(rec.val, rec.size, loc.pos),
                        !.size = loc.pos, !.init = loc.pos]
  /\ isize' = loc.pos /\ init' = loc.pos
  /\ pc' = "page"
  /\ UNCHANGED <<alloc, nonres, rl, disk, used, total, pages, flags, quiet, loc, ret, may>>

(* BUG_ON(old_i_size != data_size)                                         *)
GapStart ==
  /\ Gap /\ NoFault /\ nonres
  /\ loc' = [loc EXCEPT !.old = init, !.idx = Page(init)]
  /\ IF loc.pos <= isize THEN pc' = "zero" /\ UNCHANGED <<rec, isize>>
     ELSE IF isize # rec.size THEN pc' = "bug" /\ UNCHANGED <<rec, isize>>
     ELSE /\ rec' = [rec EXCEPT !.size = loc.pos]
          /\ isize' = loc.pos
          /\ pc' = "zero"
  /\ UNCHANGED <<init, alloc, nonres, rl, disk, used, total, pages, flags, quiet, ret, may>>

(* One page is read, which clears it beyond the initialized size, made     *)
(* dirty, and counted as initialized.                                      *)
GapPage ==
  /\ pc = "zero" /\ NoFault
  /\ cache' = [u \in Units |-> IF u \in UnitsOf(loc.idx) THEN View(u) ELSE cache[u]]
  /\ cd' = [cd EXCEPT ![loc.idx] = "dirty"]
  /\ mapped' = IF cd[loc.idx] = "none" THEN mapped \cup Mappable(loc.idx) ELSE mapped
  /\ init' = Min({(loc.idx + 1) * B, loc.pos})
  /\ loc' = [loc EXCEPT !.idx = @ + 1]
  /\ pc' = IF loc.idx + 1 \in PagesOf(loc.pos) THEN "zero" ELSE "zeroed"
  /\ UNCHANGED <<isize, alloc, nonres, rl, store, flags, quiet, ret, may>>

(* The page could not be read, or at the end the record not be found.      *)
GapFails ==
  /\ pc \in {"zero", "zeroed"} /\ Fault
  /\ init' = loc.old
  /\ Return
  /\ UNCHANGED <<isize, alloc, nonres, rl, store, pages, flags, quiet, may>>

GapEnds ==
  /\ pc = "zeroed" /\ NoFault
  /\ rec' = [rec EXCEPT !.init = loc.pos]
  /\ pc' = "page"
  /\ loc' = [loc EXCEPT !.old = 0, !.idx = 0]
  /\ UNCHANGED <<mem, disk, used, total, pages, flags, quiet, ret, may>>

(* The part of the write that is in the next page.                         *)
At == Page(loc.pos)
Stop == Min({(At + 1) * B, loc.end})
Partial == loc.pos > At * B \/ Stop < (At + 1) * B
Hole == nonres /\ ~rl[At + 1]

FilledMap(list) == IF Hole THEN [list EXCEPT ![At + 1] = TRUE] ELSE list

AroundUncleared(u) ==
  IF cd[At] # "none" THEN cache[u]
  ELSE IF Partial /\ ~Hole THEN Contents(u) ELSE "junk"

(* ntfs_prepare_pages_for_non_resident_write(): what is around the write   *)
(* in a page that is not uptodate is read, or cleared in a new cluster.    *)
Around(u) ==
  IF cd[At] # "none" THEN cache[u]
  ELSE IF Hole THEN "zero"
  ELSE IF Partial THEN Contents(u) ELSE "junk"

PageGrabFails ==
  /\ pc = "page" /\ Fault
  /\ Return
  /\ UNCHANGED <<mem, store, pages, flags, quiet, may>>

(* The page cannot be read, or the hole not be filled: no cluster, or the  *)
(* mapping pairs could not be rebuilt and the hole was put back.  Space    *)
(* that was allocated beyond the end of the file is given back.            *)
PrepareFails ==
  /\ pc = "page" /\ nonres
  /\ \/ /\ \/ ~Hole /\ Partial /\ cd[At] = "none" /\ Fault
           \/ Hole /\ used = total /\ NoFault
           \/ Hole /\ used < total /\ Fault
        /\ UNCHANGED <<rl, used, errors>>
     \/ /\ Hole /\ used < total /\ Fault /\ faults' > 0  \* undoing it failed too
        /\ used' = used + 1 /\ errors' = TRUE
        /\ rl' \in {rl, FilledMap(rl)}
  /\ IF Stop > isize
       THEN TruncatePages(isize) /\ pc' = "truncate" /\ loc' = NoLoc /\ UNCHANGED ret
       ELSE Return /\ UNCHANGED pages
  /\ UNCHANGED <<isize, init, alloc, nonres, rec, disk, total, truncFailed, quiet, may>>

Fillable == Hole => used < total

(* The page after the copy, of which the end c may fall short of Stop.     *)
Copied(c) ==
  [u \in Units |->
     IF u \notin UnitsOf(At) THEN cache[u]
     ELSE IF u < loc.pos \/ u >= Stop THEN Around(u)
     ELSE IF u < c THEN "data" ELSE "zero"]

MayNow(c, done) ==
  [u \in Units |->
     IF u < loc.pos \/ u >= Stop THEN may[u]
     ELSE (IF done THEN {} ELSE may[u] \cup {"zero", "data"})
            \cup {IF u < c THEN "data" ELSE "zero"}]

(* After a page: the next one, or the end, or -EFAULT.                     *)
NextPage(c) ==
  IF c = Stop /\ c < loc.end
    THEN pc' = "page" /\ loc' = [loc EXCEPT !.pos = c] /\ UNCHANGED ret
    ELSE Return

Short(c) == IF c = Stop THEN NoFault ELSE Fault

FillHole ==
  /\ rl' = FilledMap(rl)
  /\ used' = used + (IF Hole THEN 1 ELSE 0)
  /\ disk' = IF Hole THEN Junked({At}) ELSE disk

(* ntfs_commit_pages_after_non_resident_write()                            *)
WritePart(c) ==
  /\ pc = "page" /\ nonres /\ Fillable /\ Short(c)
  /\ FillHole
  /\ cache' = Copied(c)
  /\ cd' = [cd EXCEPT ![At] = "dirty"]
  /\ mapped' = mapped \cup {At}
  /\ may' = MayNow(c, TRUE)
  /\ init' = Max({init, Stop})
  /\ isize' = IF Stop > init THEN Max({isize, Stop}) ELSE isize
  /\ rec' = [rec EXCEPT !.map = FilledMap(@),
                        !.init = IF Stop > init THEN Stop ELSE @,
                        !.size = IF Stop > init /\ Stop > isize THEN Stop ELSE @]
  /\ NextPage(c)
  /\ UNCHANGED <<alloc, nonres, total, flags, quiet>>

CommitFails ==
  /\ pc = "page" /\ nonres /\ Fillable /\ Fault
  /\ Stop > init
  /\ FillHole
  /\ rec' = [rec EXCEPT !.map = FilledMap(@)]
  /\ cache' = Copied(Stop)
  /\ cd' = [cd EXCEPT ![At] = "dirty"]
  /\ mapped' = mapped \cup {At}
  /\ may' = MayNow(Stop, FALSE)
  /\ errors' \in {errors, TRUE}             \* unless it was -ENOMEM
  /\ Return
  /\ UNCHANGED <<isize, init, alloc, nonres, total, truncFailed, quiet>>

(* ntfs_commit_pages_after_write(): the value in the mft record is changed *)
(* and the page, if it is not uptodate, is completed from it.              *)
WriteResident(c) ==
  /\ pc = "page" /\ ~nonres /\ Short(c)
  /\ LET val == [u \in DOMAIN rec.val |->
                   IF u < loc.pos \/ u >= Stop THEN rec.val[u] ELSE Copied(c)[u]]
         size == Max({rec.size, Stop})
     IN /\ rec' = [rec EXCEPT !.val = val, !.size = size, !.init = size]
        /\ isize' = size /\ init' = size
        /\ cache' = IF cd[0] # "none" THEN Copied(c)
                    ELSE [u \in Units |->
                            IF u \notin UnitsOf(0) THEN cache[u]
                            ELSE IF u < size THEN val[u] ELSE "zero"]
  /\ cd' = IF cd[0] = "none" THEN [cd EXCEPT ![0] = "clean"] ELSE cd
  /\ may' = MayNow(c, TRUE)
  /\ Return
  /\ UNCHANGED <<alloc, nonres, rl, disk, used, total, mapped, flags, quiet>>

(* Without memory for the commit an uptodate page is made dirty instead    *)
(* and the write goes on; i_size stays as it is.                           *)
DeferResident ==
  /\ pc = "page" /\ ~nonres /\ Fault
  /\ IF cd[0] = "none"
       THEN Return /\ UNCHANGED <<pages, may>>
       ELSE /\ cache' = Copied(Stop)
            /\ cd' = [cd EXCEPT ![0] = "dirty"]
            /\ may' = [u \in Units |-> MayNow(Stop, u < isize)[u]]
            /\ Return
            /\ UNCHANGED mapped
  /\ UNCHANGED <<mem, store, flags, quiet>>

ResidentFails ==
  /\ pc = "page" /\ ~nonres /\ Fault
  /\ cache' = IF cd[0] = "none" THEN cache ELSE Copied(Stop)
  /\ errors' = TRUE
  /\ Return
  /\ UNCHANGED <<mem, store, cd, mapped, truncFailed, quiet, may>>

Writing ==
  \/ Retried \/ Allocate \/ Allocated
  \/ NoGap \/ GapNoRecord \/ GapResident \/ GapStart \/ GapPage \/ GapFails \/ GapEnds
  \/ PageGrabFails \/ PrepareFails \/ CommitFails \/ DeferResident \/ ResidentFails
  \/ \E c \in Units : loc.pos <= c /\ c <= Stop /\ (WritePart(c) \/ WriteResident(c))

-----------------------------------------------------------------------------
(* The page cache.                                                         *)

ReadPage(p) ==
  /\ cd[p] = "none" /\ p \in PagesOf(isize)
  /\ cache' = [u \in Units |-> IF u \in UnitsOf(p) THEN Contents(u) ELSE cache[u]]
  /\ cd' = [cd EXCEPT ![p] = "clean"]
  /\ mapped' = mapped \cup Mappable(p)
  /\ UNCHANGED <<mem, store, flags, quiet, pc, loc, ret, may, faults>>

(* A page that is clean may be dropped, unless its buffer is dirty.        *)
Reclaim(p) ==
  /\ cd[p] = "clean"
  /\ cd' = [cd EXCEPT ![p] = "none"]
  /\ cache' = [u \in Units |-> IF u \in UnitsOf(p) THEN "zero" ELSE cache[u]]
  /\ mapped' = mapped \ {p}
  /\ UNCHANGED <<mem, store, flags, quiet, pc, loc, ret, may, faults>>

other == <<mem, sparse, pc, loc, ret, ops>>

(* ntfs_writepage(): a page that is beyond the end of the file by now is   *)
(* invalidated.                                                            *)
WriteBeyond(p) ==
  /\ cd[p] = "dirty" /\ p \notin PagesOf(isize)
  /\ cd' = [cd EXCEPT ![p] = "clean"]
  /\ mapped' = mapped \ {p}
  /\ UNCHANGED <<cache, store, flags, wberr, may, other, faults>>

(* Sparse files are not written: the buffer stays dirty.                   *)
WriteSparse(p) ==
  /\ cd[p] = "dirty" /\ p \in PagesOf(isize) /\ nonres /\ sparse
  /\ cd' = [cd EXCEPT ![p] = "stuck"]
  /\ wberr' = TRUE
  /\ UNCHANGED <<cache, mapped, store, flags, may, other, faults>>

(* ntfs_write_block(): a buffer that is not mapped is not written if it is *)
(* in the last initialized block or behind it; this is no error.           *)
Refused(p) == p \notin mapped /\ p >= Page(init) /\ init < isize

WriteBlock(p) ==
  /\ cd[p] = "dirty" /\ p \in PagesOf(isize) /\ nonres /\ ~sparse
  /\ cd' = [cd EXCEPT ![p] = "clean"]
  /\ cache' = [u \in Units |-> IF u \in UnitsOf(p) /\ u >= isize THEN "zero" ELSE cache[u]]
  /\ IF Refused(p)
       THEN /\ may' = [u \in Units |-> IF u \in UnitsOf(p) THEN Values ELSE may[u]]
            /\ UNCHANGED <<disk, mapped>>
       ELSE /\ disk' = [u \in Units |-> IF u \in UnitsOf(p) THEN cache'[u] ELSE disk[u]]
            /\ mapped' = mapped \cup {p}
            /\ UNCHANGED may
  /\ UNCHANGED <<rec, used, total, flags, wberr, other, faults>>

(* The value is copied into the mft record as far as it reaches.           *)
WriteValue ==
  /\ cd[0] = "dirty" /\ 0 \in PagesOf(isize) /\ ~nonres
  /\ LET len == Min({rec.size, isize})
     IN /\ rec' = [rec EXCEPT !.size = len,
                              !.val = [u \in DOMAIN rec.val |->
                                         IF u < len THEN cache[u] ELSE rec.val[u]]]
        /\ cache' = [u \in Units |-> IF u \in UnitsOf(0) /\ u >= len THEN "zero" ELSE cache[u]]
  /\ cd' = [cd EXCEPT ![0] = "clean"]
  /\ UNCHANGED <<disk, used, total, mapped, flags, wberr, may, other, faults>>

(* Out of memory the page stays dirty, otherwise it is given up.           *)
WriteValueFails ==
  /\ cd[0] = "dirty" /\ 0 \in PagesOf(isize) /\ ~nonres /\ Fault
  /\ \/ UNCHANGED <<cd, errors, wberr>>
     \/ cd' = [cd EXCEPT ![0] = "clean"] /\ errors' = TRUE /\ wberr' = TRUE
  /\ UNCHANGED <<cache, mapped, store, truncFailed, may, other>>

PageCache ==
  \/ \E p \in Pages : ReadPage(p) \/ Reclaim(p) \/ WriteBeyond(p) \/ WriteSparse(p) \/ WriteBlock(p)
  \/ WriteValue \/ WriteValueFails

(* ntfs_file_fsync(): the dirty pages are written and waited for, then the *)
(* mft record is.                                                          *)
Fsync ==
  /\ Called
  /\ ops' = ops - 1
  /\ pc' = "sync" /\ loc' = NoLoc
  /\ UNCHANGED <<mem, store, pages, flags, wberr, sparse, ret, may, faults>>

SyncedEarly ==
  /\ pc = "sync"
  /\ ret' = IF wberr THEN EIO ELSE 0
  /\ wberr' = FALSE
  /\ pc' = "synced"
  /\ UNCHANGED <<mem, store, pages, flags, sparse, loc, may, ops, faults>>

Synced ==
  /\ pc = "sync" /\ \A p \in Pages : cd[p] # "dirty"
  /\ ret' = IF wberr THEN EIO ELSE 0
  /\ wberr' = FALSE
  /\ pc' = "synced"
  /\ UNCHANGED <<mem, store, pages, flags, sparse, loc, may, ops, faults>>

FsyncReturns ==
  /\ pc = "synced"
  /\ Return
  /\ UNCHANGED <<mem, store, pages, flags, quiet, may, faults>>

Next ==
  \/ \E n \in Sizes : SetSize(n)
  \/ \E w \in Writes : Write(w[1], w[2])
  \/ Fsync \/ Synced \/ FsyncReturns
  \/ Truncate \/ Allocation \/ Writing \/ PageCache

Spec == Init /\ [][Next]_vars

-----------------------------------------------------------------------------

(* A reader of the file gets what was written last, or zeroes where        *)
(* nothing was: never what a cluster held before the file had it, nor what *)
(* was cut off by a truncate (the initialized size, the zeroing around a   *)
(* write and in ntfs_attr_extend_initialized()), at any moment, as long as *)
(* the volume is not marked as damaged.                                    *)
ReadsAsWritten == ~errors => \A u \in Units : u < isize => View(u) \in may[u]

(* The same holds of what is on disk once fsync() has returned 0           *)
(* (ntfs_file_fsync(), ntfs_write_block() and ntfs_writepage()).           *)
OnDisk(u) ==
  IF nonres
    THEN IF u < rec.init /\ Page(u) < Len(rec.map) /\ rec.map[Page(u) + 1]
           THEN disk[u] ELSE "zero"
    ELSE rec.val[u]
SyncedIsDurable ==
  pc = "synced" /\ ret = 0 /\ ~errors => \A u \in Units : u < rec.size => OnDisk(u) \in may[u]

(* The attribute record, its mapping pairs and the runlist agree between   *)
(* calls and the sizes are in order, whatever failed before, unless the    *)
(* volume is marked or the truncate is to be repeated (the rollbacks of    *)
(* ntfs_attr_extend_allocation() and ntfs_attr_make_non_resident(), and    *)
(* ntfs_truncate()).                                                       *)
RecordAgrees ==
  pc = "idle" /\ ~errors =>
    /\ rec.alloc = alloc /\ rec.init = init /\ rec.map = rl
    /\ rec.size <= alloc /\ init <= alloc
    /\ truncFailed \/ (rec.size <= isize /\ init <= isize)
    /\ nonres => alloc = B * Len(rl)

(* Every cluster marked in the bitmap is in the runlist and every one in   *)
(* the runlist is marked, unless the volume is marked.                     *)
ClustersAccounted == ~errors => used = Real(rl)

(* A page that was written is on disk: after ntfs_write_block() has        *)
(* returned 0 the page is clean, and it may be dropped and read again.     *)
CleanIsWritten ==
  nonres /\ ~errors =>
    \A u \in Units : u < Min({init, isize}) /\ cd[Page(u)] = "clean" /\ rl[Page(u) + 1]
      => cache[u] = disk[u]

(* If the size in the attribute record is not i_size the last truncate has *)
(* failed, and NI_TruncateFailed says so to the next write.                *)
FailureIsFlagged == pc = "idle" /\ ~errors /\ rec.size # isize => truncFailed

(* The assertions about a resident attribute hold when a write comes to    *)
(* them: i_size, the initialized size and the length of the value are the  *)
(* same, whatever has failed before, and the write is inside the record    *)
(* (the BUG_ON()s of ntfs_attr_extend_initialized() and                    *)
(* ntfs_commit_pages_after_write()).                                       *)
ResidentInStep ==
  ~nonres /\ pc \in {"init", "page"} =>
    /\ isize = init /\ isize = rec.size
    /\ loc.end <= alloc
    /\ pc = "page" => loc.pos <= rec.size
=============================================================================
