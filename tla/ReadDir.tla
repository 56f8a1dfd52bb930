------------------------------ MODULE ReadDir -------------------------------
(***************************************************************************)
(* Listing a directory (ntfs_readdir() and ntfs_filldir(), ntfs/dir.c).    *)
(*                                                                         *)
(* A directory's entries are in its index root and in the index blocks     *)
(* marked in use in the index bitmap.  A listing takes several calls, each *)
(* with a buffer for a few entries; the file position alone carries it     *)
(* from one call to the next.  The callback of a call may look names up in *)
(* the same directory.                                                     *)
(***************************************************************************)
EXTENDS Integers, FiniteSets

CONSTANTS
  RootEntries,  \* entries in the index root
  BlockCounts,  \* the numbers of index blocks a directory may have
  PerBlock,     \* entries in an index block in use
  PageBlocks,   \* index blocks in a page of the index allocation
  PageBits,     \* bits in a page of the index bitmap
  BitmapBits,   \* bits in the index bitmap
  ByteBits,     \* bits in a byte of the index bitmap
  MaxRoom,      \* the largest buffer of a call, in entries
  Faults        \* allocations and reads may fail

ASSUME ReadDirAssumption ==
  /\ {RootEntries, PerBlock} \cup BlockCounts \subseteq Nat
  /\ {PageBlocks, PageBits, BitmapBits, ByteBits, MaxRoom} \subseteq Nat \ {0}
  /\ \A n \in BlockCounts : n <= BitmapBits
  /\ Faults \in BOOLEAN

(* Offsets count entries.  In the index root the first entry is at offset  *)
(* 2, in an index block at offset 1: the header comes before.              *)
BlockSize == PerBlock + 2
MftRecordSize == RootEntries + 3

(* Entries are named by their position.                                    *)
RootPositions == 2 .. RootEntries + 1
BlockPositions(b) == {MftRecordSize + b * BlockSize + i : i \in 1 .. PerBlock}

VARIABLES
  blocks,       \* index blocks of the directory
  used,         \* index blocks in use
  hidden,       \* entries that are not listed: DOS names, system files
  fpos,         \* filp->f_pos
  pc,
  pos,          \* fpos in ntfs_readdir()
  first,        \* ir_pos
  iaPos,        \* ia_pos
  bit,          \* bmp_pos + cur_bmp_pos
  page,         \* the page of prev_ia_pos, -1 if none
  entry,        \* offset of ie
  room,         \* entries that fit into the buffer
  held,         \* what the call has allocated, mapped or locked
  seen, twice,  \* entries listed since the directory was opened
  failed        \* a call has failed since then

dir == <<blocks, used, hidden>>
cursor == <<first, iaPos, bit, page, entry>>
log == <<seen, twice>>
vars == <<dir, fpos, pc, pos, cursor, room, held, log, failed>>

ISize == blocks * BlockSize
EndPos == ISize + MftRecordSize

Visible ==
  ({0, 1} \cup RootPositions \cup UNION {BlockPositions(b) : b \in used}) \ hidden

Reset == first' = 0 /\ iaPos' = 0 /\ bit' = 0 /\ page' = -1 /\ entry' = 0

Init ==
  /\ blocks \in BlockCounts
  /\ used \in SUBSET (0 .. blocks - 1)
  /\ hidden \in {{}} \cup {{p} : p \in RootPositions \cup UNION {BlockPositions(b) : b \in used}}
  /\ fpos = 0 /\ pc = "idle" /\ pos = 0
  /\ first = 0 /\ iaPos = 0 /\ bit = 0 /\ page = -1 /\ entry = 0
  /\ room = 0 /\ held = {}
  /\ seen = {} /\ twice = {} /\ failed = FALSE

(* The end of a call, which puts its position into the file.               *)
Return(p) ==
  /\ pc' = "idle" /\ fpos' = p /\ pos' = 0 /\ room' = 0
  /\ Reset

(* err_out and iput_err_out: what was acquired is released.                *)
Fail == Return(pos) /\ held' = {} /\ failed' = TRUE /\ UNCHANGED <<dir, log>>

Listed(p) == seen' = seen \cup {p} /\ twice' = twice \cup (seen \cap {p})

-----------------------------------------------------------------------------
(* A call with a buffer for n entries; at the end there is nothing to do.  *)
Call(n) ==
  /\ pc = "idle"
  /\ fpos < EndPos
  /\ pc' = "dots" /\ room' = n /\ pos' = fpos
  /\ UNCHANGED <<dir, fpos, cursor, held, log, failed>>

(* "." and ".." are at positions 0 and 1.                                  *)
Dots ==
  /\ pc = "dots" /\ pos < 2
  /\ \/ /\ room > 0
        /\ room' = room - 1 /\ pos' = pos + 1
        /\ Listed(pos)
        /\ UNCHANGED <<fpos, pc, cursor>>
     \/ room = 0 /\ Return(pos) /\ UNCHANGED log
  /\ UNCHANGED <<dir, held, failed>>

AllocName ==
  /\ pc = "dots" /\ pos >= 2
  /\ pc' = IF pos >= MftRecordSize THEN "bitmap" ELSE "root"
  /\ held' = {"name"}
  /\ UNCHANGED <<dir, fpos, pos, cursor, room, log, failed>>

MapRecord ==
  /\ pc = "root"
  /\ pc' = "copyRoot"
  /\ held' = held \cup {"record"}
  /\ UNCHANGED <<dir, fpos, pos, cursor, room, log, failed>>

(* The index root is copied, and the mft record released, before any entry *)
(* is passed to the callback.                                              *)
CopyRoot ==
  /\ pc = "copyRoot"
  /\ pc' = "rootEntry"
  /\ first' = pos /\ entry' = 2
  /\ held' = (held \cup {"root"}) \ {"record"}
  /\ UNCHANGED <<dir, fpos, pos, iaPos, bit, page, room, log, failed>>

(* An entry before the position where the last call stopped is skipped; a  *)
(* hidden one moves the position but is not passed to the callback.        *)
RootEntry ==
  /\ pc = "rootEntry" /\ entry <= RootEntries + 1
  /\ \/ /\ first > entry
        /\ entry' = entry + 1
        /\ UNCHANGED <<pc, pos>>
     \/ /\ first <= entry
        /\ pos' = entry
        /\ pc' = IF entry \in hidden THEN "rootEntry" ELSE "rootFill"
        /\ entry' = IF entry \in hidden THEN entry + 1 ELSE entry
  /\ UNCHANGED <<dir, fpos, first, iaPos, bit, page, room, held, log, failed>>

RootEnd ==
  /\ pc = "rootEntry" /\ entry = RootEntries + 2
  /\ IF blocks = 0
     THEN Return(EndPos) /\ held' = {}
     ELSE /\ pc' = "bitmap" /\ pos' = MftRecordSize
          /\ held' = held \ {"root"}
          /\ UNCHANGED <<fpos, cursor, room>>
  /\ UNCHANGED <<dir, log, failed>>

-----------------------------------------------------------------------------
(* The index bitmap: the block at the position is where the scan starts.   *)
GetBitmap ==
  /\ pc = "bitmap"
  /\ LET ia == pos - MftRecordSize IN
     IF ia \div BlockSize >= BitmapBits
     THEN Fail
     ELSE /\ pc' = "mapBitmap"
          /\ iaPos' = ia /\ bit' = ia \div BlockSize /\ page' = -1
          /\ held' = held \cup {"bitmap"}
          /\ UNCHANGED <<dir, fpos, pos, first, entry, room, log, failed>>

MapBitmapPage ==
  /\ pc = "mapBitmap"
  /\ pc' = "test"
  /\ held' = held \cup {"bitmapPage"}
  /\ UNCHANGED <<dir, fpos, pos, cursor, room, log, failed>>

(* find_next_index_buffer.  At the end of a bitmap page the next one is    *)
(* mapped; otherwise the end of the bitmap is looked for, and ia_pos moves *)
(* to the next block.                                                      *)
NextBit ==
  /\ bit' = bit + 1
  /\ \/ /\ (bit + 1) % PageBits = 0
        /\ pc' = "mapBitmap"
        /\ held' = held \ {"bitmapPage"}
        /\ UNCHANGED <<fpos, pos, iaPos, room, page, first, entry>>
     \/ /\ (bit + 1) % PageBits # 0
        /\ (bit + 1) \div ByteBits < ISize
        /\ pc' = "test"
        /\ iaPos' = (bit + 1) * BlockSize
        /\ UNCHANGED <<fpos, pos, room, page, first, entry, held>>

(* unm_EOD *)
LastBit ==
  /\ (bit + 1) % PageBits # 0
  /\ (bit + 1) \div ByteBits >= ISize
  /\ Return(EndPos)
  /\ held' = {}

FreeBlock ==
  /\ pc = "test" /\ bit \notin used
  /\ NextBit \/ LastBit
  /\ UNCHANGED <<dir, log, failed>>

-----------------------------------------------------------------------------
(* An index block: its page is mapped and locked unless it is the page of  *)
(* the block before.                                                       *)
MapBlock ==
  /\ pc = "test" /\ bit \in used
  /\ pc' = "blockEntry"
  /\ entry' = 1
  /\ LET p == iaPos \div (BlockSize * PageBlocks) IN
     \/ page = p /\ UNCHANGED <<page, held>>
     \/ page # p /\ page' = p /\ held' = held \cup {"page", "lock"}
  /\ UNCHANGED <<dir, fpos, pos, first, iaPos, bit, room, log, failed>>

Block == iaPos \div BlockSize

(* Mutant: the entry at the position is taken for one already listed.     *)
BlockEntryAfter ==
  /\ pc = "blockEntry" /\ entry <= PerBlock
  /\ \/ /\ iaPos % BlockSize >= entry
        /\ entry' = entry + 1
        /\ UNCHANGED <<pc, pos>>
     \/ /\ iaPos % BlockSize < entry
        /\ LET p == MftRecordSize + Block * BlockSize + entry IN
           /\ pos' = p
           /\ pc' = IF p \in hidden THEN "blockEntry" ELSE "blockFill"
           /\ entry' = IF p \in hidden THEN entry + 1 ELSE entry
  /\ UNCHANGED <<dir, fpos, first, iaPos, bit, page, room, held, log, failed>>

BlockEntry ==
  /\ pc = "blockEntry" /\ entry <= PerBlock
  /\ \/ /\ iaPos % BlockSize > entry
        /\ entry' = entry + 1
        /\ UNCHANGED <<pc, pos>>
     \/ /\ iaPos % BlockSize <= entry
        /\ LET p == MftRecordSize + Block * BlockSize + entry IN
           /\ pos' = p
           /\ pc' = IF p \in hidden THEN "blockEntry" ELSE "blockFill"
           /\ entry' = IF p \in hidden THEN entry + 1 ELSE entry
  /\ UNCHANGED <<dir, fpos, first, iaPos, bit, page, room, held, log, failed>>

BlockEnd ==
  /\ pc = "blockEntry" /\ entry = PerBlock + 1
  /\ NextBit \/ LastBit
  /\ UNCHANGED <<dir, log, failed>>

-----------------------------------------------------------------------------
(* ntfs_filldir(): the page lock is dropped across the callback, and only  *)
(* taken again if the listing goes on.                                     *)
CallFilldir ==
  /\ pc \in {"rootFill", "blockFill"}
  /\ pc' = IF pc = "rootFill" THEN "rootCallback" ELSE "blockCallback"
  /\ held' = held \ {"lock"}
  /\ UNCHANGED <<dir, fpos, pos, cursor, room, log, failed>>

(* Mutant: the page lock is not taken again.                              *)
AcceptedUnlocked ==
  /\ pc \in {"rootCallback", "blockCallback"} /\ room > 0
  /\ room' = room - 1 /\ entry' = entry + 1
  /\ Listed(pos)
  /\ \/ pc = "rootCallback" /\ pc' = "rootEntry" /\ UNCHANGED held
     \/ pc = "blockCallback" /\ pc' = "blockEntry" /\ UNCHANGED held
  /\ UNCHANGED <<dir, fpos, pos, first, iaPos, bit, page, failed>>

Accepted ==
  /\ pc \in {"rootCallback", "blockCallback"} /\ room > 0
  /\ room' = room - 1 /\ entry' = entry + 1
  /\ Listed(pos)
  /\ \/ pc = "rootCallback" /\ pc' = "rootEntry" /\ UNCHANGED held
     \/ pc = "blockCallback" /\ pc' = "blockEntry" /\ held' = held \cup {"lock"}
  /\ UNCHANGED <<dir, fpos, pos, first, iaPos, bit, page, failed>>

(* Mutant: the position is the one of the index block.                    *)
RefusedEntryRestarts ==
  /\ pc \in {"rootCallback", "blockCallback"} /\ room = 0
  /\ Return(IF pc = "rootCallback" THEN pos ELSE MftRecordSize + Block * BlockSize)
  /\ held' = {}
  /\ UNCHANGED <<dir, log, failed>>

(* abort: the position is the one of the refused entry.                    *)
RefusedEntry ==
  /\ pc \in {"rootCallback", "blockCallback"} /\ room = 0
  /\ Return(pos)
  /\ held' = {}
  /\ UNCHANGED <<dir, log, failed>>

-----------------------------------------------------------------------------
(* An allocation, a mapping or a check of what was read fails.             *)
Failure ==
  /\ Faults
  /\ \/ pc \in {"root", "copyRoot", "rootEntry", "bitmap", "mapBitmap", "blockEntry"}
     \/ pc = "dots" /\ pos >= 2
     \/ pc = "test" /\ bit \in used
  /\ Fail

(* The directory is opened again.                                          *)
Reopen ==
  /\ pc = "idle" /\ fpos = EndPos
  /\ fpos' = 0 /\ seen' = {} /\ twice' = {} /\ failed' = FALSE
  /\ UNCHANGED <<dir, pc, pos, cursor, room, held>>

Proceed ==
  \/ \E n \in 1 .. MaxRoom : Call(n)
  \/ Dots \/ AllocName \/ MapRecord \/ CopyRoot \/ RootEntry \/ RootEnd
  \/ GetBitmap \/ MapBitmapPage \/ FreeBlock \/ MapBlock \/ BlockEntry \/ BlockEnd
  \/ CallFilldir \/ Accepted \/ RefusedEntry

Next == Proceed \/ Failure \/ Reopen

(* The caller goes on until it has the whole directory, and nothing in a   *)
(* call waits for anybody else.                                            *)
Spec == Init /\ [][Next]_vars /\ WF_vars(Proceed)

-----------------------------------------------------------------------------
(* Properties *)

(* The type invariant; the scan of the bitmap is bounded by i_size, and no *)
(* position lies behind the end.                                           *)
TypeOK ==
  /\ blocks \in BlockCounts /\ used \subseteq 0 .. blocks - 1
  /\ fpos \in 0 .. EndPos /\ pos \in 0 .. EndPos
  /\ bit \in 0 .. ByteBits * ISize
  /\ room \in 0 .. MaxRoom
  /\ held \subseteq {"name", "record", "root", "bitmap", "bitmapPage", "page", "lock"}
  /\ seen \subseteq 0 .. EndPos

(* However the listing is cut into calls, no entry is listed twice, and at *)
(* the end of the directory every entry that is to be seen was: the        *)
(* position of the refused entry is where the next call goes on.           *)
EveryEntryOnce ==
  ~failed => /\ twice = {}
             /\ fpos = EndPos => seen = Visible

(* Every exit of ntfs_readdir(), also the ones in the middle of its        *)
(* nested cleanup, releases what the call acquired, and the page lock is   *)
(* not held without the page.  The callback is called without the lock of  *)
(* the index page and without the mft record, for which a lookup made by   *)
(* NFSd would wait for ever; the entries of an index block are read under  *)
(* the lock of its page.                                                   *)
HeldInStep ==
  /\ pc = "idle" => held = {}
  /\ "lock" \in held => "page" \in held
  /\ pc \in {"rootCallback", "blockCallback"} => held \cap {"lock", "record"} = {}
  /\ pc \in {"blockEntry", "blockFill"} => /\ {"page", "lock"} \subseteq held
                                           /\ page = iaPos \div (BlockSize * PageBlocks)

(* "we parse the index root entries and then the index allocation entries  *)
(* that are marked as in use in the index bitmap" (dir.c), each once, also *)
(* when the bitmap has several pages.                                      *)
MarkedBlocksOnce == ~failed => twice = {}
=============================================================================
