---------------------------- MODULE ReadDirProofs ---------------------------
(***************************************************************************)
(* For every directory, buffer and size of pages and bitmaps: what a call  *)
(* of ntfs_readdir() holds follows from where it is, and what was listed   *)
(* from the position it has reached.                                       *)
(***************************************************************************)
EXTENDS ReadDir, TLAPS

(* The time the provers may take for a step. *)
USE SMTT(60)

Index == {"name", "bitmap"}

(* An index page stays mapped and locked from its first block on, until    *)
(* another page or the end is reached.                                     *)
Mapped == IF page = -1 THEN {} ELSE {"page", "lock"}

(* What is held at each place of ntfs_readdir().                           *)
HeldFollowsPlace ==
  /\ pc \in {"idle", "dots", "root", "copyRoot", "rootEntry", "rootFill", "rootCallback",
             "bitmap", "mapBitmap", "test", "blockEntry", "blockFill", "blockCallback"}
  /\ pc \in {"idle", "dots"} => held = {}
  /\ pc \in {"root", "bitmap"} => held = {"name"}
  /\ pc = "copyRoot" => held = {"name", "record"}
  /\ pc \in {"rootEntry", "rootFill", "rootCallback"} => held = {"name", "root"}
  /\ pc = "mapBitmap" => held = Index \cup Mapped
  /\ pc = "test" => held = Index \cup {"bitmapPage"} \cup Mapped
  /\ pc \in {"blockEntry", "blockFill"} => held = Index \cup {"bitmapPage", "page", "lock"}
  /\ pc = "blockCallback" => held = Index \cup {"bitmapPage", "page"}
  /\ pc \in {"blockEntry", "blockFill", "blockCallback"} =>
       page # -1 /\ page = iaPos \div (BlockSize * PageBlocks)

(* Positions are not negative, and the bitmap is read from a position      *)
(* behind the index root.                                                  *)
Positions ==
  /\ {iaPos, bit, pos, entry, fpos, blocks} \subseteq Nat
  /\ pc = "bitmap" => pos >= MftRecordSize

-----------------------------------------------------------------------------
(* The constants.                                                          *)
LEMMA Sizes ==
  /\ BlockSize \in Nat \ {0} /\ MftRecordSize \in Nat
  /\ BlockSize * PageBlocks \in Nat \ {0}
<1>1. BlockSize \in Nat \ {0} /\ MftRecordSize \in Nat /\ PageBlocks \in Nat \ {0}
  BY ReadDirAssumption DEF BlockSize, MftRecordSize
<1> QED
  BY <1>1

(* Quotients are numbers.                                                  *)
LEMMA Quotient == \A a \in Nat, b \in Nat \ {0} : a \div b \in Nat
  OBVIOUS

(* So are products.                                                        *)
LEMMA Product == \A a, b \in Nat : a * b \in Nat
  OBVIOUS

(* The end of the directory is a position.                                 *)
LEMMA EndIsPosition == blocks \in Nat => EndPos \in Nat
  BY Sizes, Product DEF EndPos, ISize

(* Every step keeps the positions.                                         *)
LEMMA PositionsKept == Positions /\ [Next]_vars => Positions'
<1> SUFFICES ASSUME Positions, [Next]_vars PROVE Positions'
  OBVIOUS
<1> USE Sizes, EndIsPosition DEF Positions, dir, cursor, log, Return, Reset
<1>1. CASE \E n \in 1 .. MaxRoom : Call(n)
  BY <1>1 DEF Call
<1>2. CASE Dots
  BY <1>2 DEF Dots
<1>3. CASE AllocName \/ MapRecord \/ CopyRoot
  BY <1>3 DEF AllocName, MapRecord, CopyRoot
<1>4. CASE RootEntry
  BY <1>4 DEF RootEntry
<1>5. CASE RootEnd
  BY <1>5 DEF RootEnd
<1>6. CASE GetBitmap
  <2>1. pos - MftRecordSize \in Nat /\ (pos - MftRecordSize) \div BlockSize \in Nat
    BY <1>6, Quotient DEF GetBitmap
  <2> QED
    BY <1>6, <2>1 DEF GetBitmap, Fail
<1>7. CASE MapBitmapPage \/ MapBlock
  BY <1>7 DEF MapBitmapPage, MapBlock
<1>8. CASE FreeBlock \/ BlockEnd
  <2>1. (bit + 1) * BlockSize \in Nat
    BY Product
  <2>2. CASE NextBit
    BY <1>8, <2>1, <2>2 DEF FreeBlock, BlockEnd, NextBit
  <2>3. CASE LastBit
    BY <1>8, <2>3 DEF FreeBlock, BlockEnd, LastBit
  <2> QED
    BY <1>8, <2>2, <2>3 DEF FreeBlock, BlockEnd
<1>9. CASE BlockEntry
  <2>1. MftRecordSize + Block * BlockSize + entry \in Nat
    BY Quotient, Product DEF Block
  <2> QED
    BY <1>9, <2>1 DEF BlockEntry
<1>10. CASE CallFilldir \/ Accepted \/ RefusedEntry
  BY <1>10 DEF CallFilldir, Accepted, RefusedEntry
<1>11. CASE Failure
  BY <1>11 DEF Failure, Fail
<1>12. CASE Reopen
  BY <1>12 DEF Reopen
<1>13. CASE UNCHANGED vars
  BY <1>13, ZenonT(30) DEF vars
<1> HIDE DEF Positions, dir, cursor, log, Return, Reset
<1> QED
  BY <1>1, <1>2, <1>3, <1>4, <1>5, <1>6, <1>7, <1>8, <1>9, <1>10, <1>11, <1>12, <1>13,
     ZenonT(30)
  DEF Next, Proceed

(* What is held follows the place over every step: each of the labels      *)
(* finds what was acquired on the way to it.                               *)
LEMMA HeldKept == Positions /\ HeldFollowsPlace /\ [Next]_vars => HeldFollowsPlace'
<1> SUFFICES ASSUME Positions, HeldFollowsPlace, [Next]_vars PROVE HeldFollowsPlace'
  OBVIOUS
<1> USE DEF HeldFollowsPlace, Mapped, Index, dir, cursor, log, Return, Reset
<1>1. CASE \E n \in 1 .. MaxRoom : Call(n)
  BY <1>1 DEF Call
<1>2. CASE Dots
  BY <1>2 DEF Dots
<1>3. CASE AllocName \/ MapRecord \/ CopyRoot
  BY <1>3 DEF AllocName, MapRecord, CopyRoot
<1>4. CASE RootEntry
  BY <1>4 DEF RootEntry
<1>5. CASE RootEnd
  BY <1>5 DEF RootEnd
<1>6. CASE GetBitmap
  BY <1>6 DEF GetBitmap, Fail
<1>7. CASE MapBitmapPage
  BY <1>7 DEF MapBitmapPage
<1>8. CASE MapBlock
  <2>1. iaPos \div (BlockSize * PageBlocks) # -1
    BY Sizes, Quotient DEF Positions
  <2> QED
    BY <1>8, <2>1 DEF MapBlock
<1>9. CASE FreeBlock
  BY <1>9 DEF FreeBlock, NextBit, LastBit
<1>10. CASE BlockEnd
  BY <1>10 DEF BlockEnd, NextBit, LastBit
<1>11. CASE BlockEntry
  BY <1>11 DEF BlockEntry
<1>12. CASE CallFilldir
  BY <1>12 DEF CallFilldir
<1>13. CASE Accepted \/ RefusedEntry
  BY <1>13 DEF Accepted, RefusedEntry
<1>14. CASE Failure
  BY <1>14 DEF Failure, Fail
<1>15. CASE Reopen
  BY <1>15 DEF Reopen
<1>16. CASE UNCHANGED vars
  BY <1>16 DEF vars
<1> HIDE DEF HeldFollowsPlace, Mapped, Index, dir, cursor, log, Return, Reset
<1> QED
  BY <1>1, <1>2, <1>3, <1>4, <1>5, <1>6, <1>7, <1>8, <1>9, <1>10, <1>11, <1>12, <1>13,
     <1>14, <1>15, <1>16, ZenonT(30)
  DEF Next, Proceed

(* However large the directory and wherever a call fails, ntfs_readdir()   *)
(* releases what it holds, calls back without the lock of the page and     *)
(* reads index blocks under it.                                            *)
THEOREM ListingHolds == Spec => []HeldInStep
<1>1. Init => Positions /\ HeldFollowsPlace
  BY ReadDirAssumption DEF Init, Positions, HeldFollowsPlace
<1>2. HeldFollowsPlace => HeldInStep
  BY DEF HeldFollowsPlace, HeldInStep, Mapped, Index
<1> QED
  BY <1>1, <1>2, PositionsKept, HeldKept, PTL DEF Spec

-----------------------------------------------------------------------------
(* What a listing has reached *)

Larger(m, n) == IF m > n THEN m ELSE n
Begin(b) == MftRecordSize + b * BlockSize

(* All index blocks have their bit in the first page of the index bitmap.  *)
OneBitmapPage == \A n \in BlockCounts : n <= PageBits

Directory ==
  /\ blocks \in BlockCounts /\ used \subseteq 0 .. blocks - 1
  /\ hidden \cap {0, 1} = {}

(* The entries before position p were listed, and no others.               *)
UpTo(p) == seen = {v \in Visible : v < p}

(* The bit that is looked at is the one of ia_pos, or behind all blocks.   *)
Scanned == IF Block = bit THEN MftRecordSize + iaPos ELSE EndPos

Reached ==
  /\ pc \in {"root", "copyRoot"} => 2 <= pos /\ pos < MftRecordSize
  /\ pc \in {"rootEntry", "rootFill", "rootCallback"} =>
       first \in Nat /\ first < MftRecordSize /\ entry \in 2 .. RootEntries + 2
  /\ pc \in {"rootFill", "rootCallback"} =>
       pos = entry /\ entry <= RootEntries + 1 /\ pos \notin hidden /\ first <= pos
  /\ pc \in {"mapBitmap", "test"} => Block = bit \/ (Block < bit /\ blocks <= bit)
  /\ pc \in {"blockEntry", "blockFill", "blockCallback"} =>
       bit \in used /\ Block = bit /\ entry \in 1 .. PerBlock + 1
  /\ pc \in {"blockFill", "blockCallback"} =>
       /\ pos = Begin(bit) + entry /\ entry <= PerBlock /\ pos \notin hidden
       /\ iaPos % BlockSize <= entry

(* At every place the position of the next entry to be listed.             *)
Progress ==
  /\ twice = {}
  /\ pc = "idle" => UpTo(fpos)
  /\ pc \in {"dots", "root", "copyRoot", "rootFill", "rootCallback", "bitmap",
             "blockFill", "blockCallback"} => UpTo(pos)
  /\ pc = "rootEntry" => UpTo(Larger(first, entry))
  /\ pc \in {"mapBitmap", "test"} => UpTo(Scanned)
  /\ pc = "blockEntry" => UpTo(Begin(bit) + Larger(iaPos % BlockSize, entry))

ListInv == Directory /\ (~failed => Reached /\ Progress)

(* Blocks follow each other, with their entries inside.                    *)
LEMMA BlocksInOrder ==
  ASSUME NEW b \in Nat, NEW c \in Nat, NEW i \in 1 .. PerBlock + 1
  PROVE  /\ Begin(b) \in Nat /\ MftRecordSize <= Begin(b)
         /\ b < c => Begin(b) + i < Begin(c)
         /\ b < c => Begin(b) + BlockSize <= Begin(c)
         /\ c <= b => Begin(c) < Begin(b) + i
<1>1. b * BlockSize \in Nat /\ c * BlockSize \in Nat /\ BlockSize \in Nat /\ MftRecordSize \in Nat
  BY Sizes, Product
<1>2. i \in Nat /\ 1 <= i /\ i < BlockSize
  BY ReadDirAssumption DEF BlockSize
<1>3. b < c => b * BlockSize + BlockSize <= c * BlockSize
  <2>1. \A k, l, u \in Nat : k < l => k * u + u <= l * u
    OBVIOUS
  <2> QED
    BY <1>1, <2>1
<1>4. c <= b => c * BlockSize <= b * BlockSize
  <2>1. \A k, l, u \in Nat : k <= l => k * u <= l * u
    OBVIOUS
  <2> QED
    BY <1>1, <2>1
<1> QED
  BY <1>1, <1>2, <1>3, <1>4 DEF Begin

(* A position is in a block, at an offset.                                 *)
LEMMA BlockAndOffset ==
  ASSUME NEW n \in Nat
  PROVE  /\ n \div BlockSize \in Nat /\ n % BlockSize \in 0 .. PerBlock + 1
         /\ n = (n \div BlockSize) * BlockSize + (n % BlockSize)
<1>1. \A u \in Nat \ {0} : /\ n \div u \in Nat /\ n % u \in 0 .. u - 1
                           /\ n = (n \div u) * u + (n % u)
  OBVIOUS
<1>2. BlockSize - 1 = PerBlock + 1
  BY ReadDirAssumption DEF BlockSize
<1> QED
  BY <1>1, <1>2, Sizes

(* The first position of a block is in it.                                 *)
LEMMA BeginOfBlock ==
  ASSUME NEW b \in Nat
  PROVE  (b * BlockSize) \div BlockSize = b /\ (b * BlockSize) % BlockSize = 0
<1>1. \A u \in Nat \ {0} : (b * u) \div u = b /\ (b * u) % u = 0
  OBVIOUS
<1> QED
  BY <1>1, Sizes

(* The entries that are to be seen are in the root or in a block in use.   *)
LEMMA VisibleIn ==
  ASSUME Directory, NEW v \in Visible
  PROVE  /\ v \in Nat /\ v \notin hidden /\ v < EndPos
         /\ v < RootEntries + 2 \/ \E b \in used, i \in 1 .. PerBlock : v = Begin(b) + i
<1>1. CASE v \in {0, 1} \cup RootPositions
  BY <1>1, Sizes, Product, ReadDirAssumption
  DEF Visible, RootPositions, EndPos, ISize, MftRecordSize, Directory
<1>2. CASE \E b \in used : v \in BlockPositions(b)
  <2>1. PICK b \in used, i \in 1 .. PerBlock : v = Begin(b) + i
    BY <1>2 DEF BlockPositions, Begin
  <2>2. b \in Nat /\ blocks \in Nat /\ b < blocks /\ i \in 1 .. PerBlock + 1 /\ PerBlock \in Nat
    BY ReadDirAssumption DEF Directory
  <2>3. Begin(b) \in Nat /\ Begin(b) + i < Begin(blocks)
    BY <2>2, BlocksInOrder
  <2>4. Begin(blocks) = EndPos
    BY <2>2, Sizes, Product DEF Begin, EndPos, ISize
  <2> QED
    BY <2>1, <2>2, <2>3, <2>4 DEF Visible
<1> QED
  BY <1>1, <1>2 DEF Visible

(* Which of them are to be seen.                                           *)
LEMMA IsVisible ==
  ASSUME Directory
  PROVE  /\ \A v \in 0 .. RootEntries + 1 : v \notin hidden => v \in Visible
         /\ \A b \in used, i \in 1 .. PerBlock :
              Begin(b) + i \notin hidden => Begin(b) + i \in Visible
<1>1. \A v \in 0 .. RootEntries + 1 : v \in {0, 1} \cup RootPositions
  BY ReadDirAssumption DEF RootPositions
<1>2. \A b \in used, i \in 1 .. PerBlock : Begin(b) + i \in BlockPositions(b)
  BY DEF BlockPositions, Begin
<1> QED
  BY <1>1, <1>2 DEF Visible

(* Positions without an entry to be seen are passed over.                  *)
LEMMA PassedOver ==
  ASSUME Directory, NEW p \in Nat, NEW q \in Nat, p <= q, UpTo(p),
         \A v \in Visible : v < p \/ q <= v
  PROVE  UpTo(q)
<1>1. \A v \in Visible : v \in Nat
  BY VisibleIn
<1>2. \A v \in Visible : v < p <=> v < q
  BY <1>1
<1> QED
  BY <1>2 DEF UpTo

(* An entry is listed.                                                     *)
LEMMA IsListed ==
  ASSUME Directory, NEW p \in Visible, UpTo(p), twice = {}, Listed(p)
  PROVE  twice' = {} /\ seen' = {v \in Visible : v < p + 1}
<1>1. \A v \in Visible : v \in Nat
  BY VisibleIn
<1>2. \A v \in Visible : v < p + 1 <=> v < p \/ v = p
  BY <1>1
<1>3. p \notin seen
  BY <1>1 DEF UpTo
<1> QED
  BY <1>2, <1>3 DEF Listed, UpTo

(* Behind the last block there is nothing more.                            *)
LEMMA AllListed ==
  ASSUME Directory, NEW b \in Nat, blocks <= b, UpTo(Begin(b))
  PROVE  UpTo(EndPos)
<1>1. blocks \in Nat /\ PerBlock \in Nat
  BY ReadDirAssumption DEF Directory
<1>2. EndPos = Begin(blocks)
  BY <1>1, Sizes, Product DEF Begin, EndPos, ISize
<1>3. Begin(blocks) <= Begin(b) /\ Begin(b) \in Nat /\ Begin(blocks) \in Nat
  <2>1. 1 \in 1 .. PerBlock + 1
    BY <1>1
  <2>2. blocks < b => Begin(blocks) + 1 < Begin(b)
    BY <1>1, <2>1, BlocksInOrder
  <2>3. Begin(b) \in Nat /\ Begin(blocks) \in Nat
    BY <1>1, <2>1, BlocksInOrder
  <2> QED
    BY <1>1, <2>2, <2>3
<1>4. \A v \in Visible : v \in Nat /\ v < EndPos
  BY VisibleIn
<1>5. \A v \in Visible : v < Begin(b) <=> v < EndPos
  BY <1>2, <1>3, <1>4
<1> QED
  BY <1>5 DEF UpTo

(* The directory does not change.                                          *)
LEMMA SameDirectory ==
  ASSUME UNCHANGED dir
  PROVE  /\ Visible' = Visible /\ EndPos' = EndPos /\ Directory' = Directory
         /\ blocks' = blocks /\ used' = used /\ hidden' = hidden
BY DEF dir, Visible, EndPos, ISize, Directory

(* From block to block, all entries up to the next one listed: the scan of *)
(* the bitmap comes to the next block or to the end.                       *)
LEMMA ScanGoesOn ==
  ASSUME OneBitmapPage, Directory, Positions, UpTo(Begin(bit + 1)), Block <= bit, twice = {},
         NextBit \/ LastBit, UNCHANGED <<dir, log, failed>>
  PROVE  ListInv'
<1>1. /\ Visible' = Visible /\ EndPos' = EndPos /\ Directory' /\ blocks' = blocks
      /\ seen' = seen /\ twice' = {}
  BY SameDirectory DEF log
<1>2. bit \in Nat /\ bit + 1 \in Nat /\ blocks \in Nat /\ iaPos \in Nat /\ Block \in Nat
  BY BlockAndOffset DEF Positions, Block
<1>3. CASE NextBit /\ (bit + 1) % PageBits = 0
  <2>1. blocks <= bit + 1
    <3>1. \A u \in Nat \ {0}, n \in Nat : n # 0 /\ n % u = 0 => u <= n
      OBVIOUS
    <3>2. PageBits \in Nat \ {0} /\ PageBits <= bit + 1
      BY <1>2, <1>3, <3>1, ReadDirAssumption
    <3> QED
      BY <1>2, <3>2 DEF OneBitmapPage, Directory
  <2>2. UpTo(EndPos)
    BY <1>2, <2>1, AllListed
  <2>3. pc' = "mapBitmap" /\ iaPos' = iaPos /\ bit' = bit + 1
    BY <1>3 DEF NextBit
  <2>4. Block' < bit' /\ blocks' <= bit' /\ Block' # bit'
    BY <1>1, <1>2, <2>1, <2>3 DEF Block
  <2>5. UpTo(Scanned)'
    BY <1>1, <2>2, <2>4 DEF UpTo, Scanned
  <2>6. Reached'
    BY <2>3, <2>4 DEF Reached
  <2>7. Progress'
    BY <1>1, <2>3, <2>5 DEF Progress
  <2> QED
    BY <1>1, <2>6, <2>7 DEF ListInv
<1>4. CASE NextBit /\ (bit + 1) % PageBits # 0
  <2>1. pc' = "test" /\ iaPos' = (bit + 1) * BlockSize /\ bit' = bit + 1
    BY <1>4 DEF NextBit
  <2>2. Block' = bit'
    BY <1>2, <2>1, BeginOfBlock DEF Block
  <2>3. UpTo(Scanned)'
    BY <1>1, <2>1, <2>2 DEF UpTo, Scanned, Begin
  <2>4. Reached'
    BY <2>1, <2>2 DEF Reached
  <2>5. Progress'
    BY <1>1, <2>1, <2>3 DEF Progress
  <2> QED
    BY <1>1, <2>4, <2>5 DEF ListInv
<1>5. CASE LastBit
  <2>1. blocks <= bit + 1
    <3>1. \A u \in Nat \ {0}, n \in Nat : n \div u <= n
      OBVIOUS
    <3>2. \A m \in Nat : m <= m * BlockSize
      BY Sizes
    <3>3. ISize \in Nat /\ blocks <= ISize
      BY <1>2, <3>2, Sizes, Product DEF ISize
    <3>4. ISize <= (bit + 1) \div ByteBits /\ (bit + 1) \div ByteBits <= bit + 1
          /\ (bit + 1) \div ByteBits \in Nat
      BY <1>2, <1>5, <3>1, Quotient, ReadDirAssumption DEF LastBit
    <3> QED
      BY <1>2, <3>3, <3>4
  <2>2. UpTo(EndPos)
    BY <1>2, <2>1, AllListed
  <2>3. pc' = "idle" /\ fpos' = EndPos
    BY <1>5 DEF LastBit, Return
  <2>4. Reached' /\ Progress'
    BY <1>1, <2>2, <2>3 DEF Reached, Progress, UpTo
  <2> QED
    BY <1>1, <2>4 DEF ListInv
<1> QED
  BY <1>3, <1>4, <1>5

(* What has to be known where a step arrives: at the end of a call,        *)
LEMMA ReturnsAt ==
  ASSUME pc' = "idle", twice' = {}, seen' = {v \in Visible' : v < fpos'}
  PROVE  Reached' /\ Progress'
  BY DEF Reached, Progress, UpTo

(* at an entry of the root,                                                *)
LEMMA ArrivesAtRoot ==
  ASSUME pc' = "rootEntry", twice' = {}, first' \in Nat, first' < MftRecordSize,
         entry' \in 2 .. RootEntries + 2, NEW p, Larger(first, entry)' = p,
         seen' = {v \in Visible' : v < p}
  PROVE  Reached' /\ Progress'
  BY DEF Reached, Progress, UpTo

(* at an entry of a block,                                                 *)
LEMMA ArrivesAtBlock ==
  ASSUME pc' = "blockEntry", twice' = {}, bit' \in used', Block' = bit',
         entry' \in 1 .. PerBlock + 1, NEW p, (Begin(bit) + Larger(iaPos % BlockSize, entry))' = p,
         seen' = {v \in Visible' : v < p}
  PROVE  Reached' /\ Progress'
  BY DEF Reached, Progress, UpTo

(* and at one of a block that is passed on.                                *)
LEMMA ArrivesAtFill ==
  ASSUME pc' = "blockFill", twice' = {}, bit' \in used', Block' = bit',
         entry' \in 1 .. PerBlock + 1, entry' <= PerBlock, pos' = (Begin(bit) + entry)',
         pos' \notin hidden', (iaPos % BlockSize <= entry)', seen' = {v \in Visible' : v < pos'}
  PROVE  Reached' /\ Progress'
  BY DEF Reached, Progress, UpTo

(* The steps of a call in the index root.                                  *)
LEMMA RootKeeps ==
  ASSUME Positions, ListInv, ~failed, UNCHANGED <<dir, failed>>,
         \/ \E n \in 1 .. MaxRoom : Call(n)
         \/ Dots \/ AllocName \/ MapRecord \/ CopyRoot \/ RootEntry \/ RootEnd
  PROVE  ListInv'
<1>1. /\ Visible' = Visible /\ EndPos' = EndPos /\ Directory' /\ blocks' = blocks
      /\ used' = used /\ hidden' = hidden
  BY SameDirectory DEF ListInv
<1>2. Directory /\ Reached /\ Progress /\ pos \in Nat /\ entry \in Nat /\ twice = {}
  BY DEF ListInv, Positions, Progress
<1>3. RootEntries \in Nat /\ MftRecordSize = RootEntries + 3
  BY ReadDirAssumption DEF MftRecordSize
<1>4. SUFFICES Reached' /\ Progress'
  BY <1>1 DEF ListInv
<1>5. CASE \E n \in 1 .. MaxRoom : Call(n)
  BY <1>1, <1>2, <1>5 DEF Call, log, Reached, Progress, UpTo
<1>6. CASE Dots
  <2>1. CASE room > 0
    <3>1. pc = "dots" /\ pc' = "dots" /\ pos' = pos + 1 /\ Listed(pos) /\ pos < 2
      BY <1>6, <2>1 DEF Dots
    <3>2. pos \in Visible
      BY <1>2, <1>3, <3>1, IsVisible DEF Directory
    <3>3. twice' = {} /\ seen' = {v \in Visible : v < pos + 1}
      BY <1>2, <3>1, <3>2, IsListed, ZenonT(30) DEF Progress
    <3> QED
      BY <1>1, <3>1, <3>3 DEF Reached, Progress, UpTo
  <2>2. CASE room = 0
    <3>1. pc = "dots" /\ pc' = "idle" /\ fpos' = pos /\ seen' = seen /\ twice' = twice
      BY <1>6, <2>2 DEF Dots, Return, log
    <3>2. seen = {v \in Visible : v < pos}
      BY <1>2, <3>1 DEF Progress, UpTo
    <3> QED
      BY <1>1, <1>2, <3>1, <3>2, ReturnsAt
  <2> QED
    BY <1>6, <2>1, <2>2 DEF Dots
<1>7. CASE AllocName
  BY <1>1, <1>2, <1>3, <1>7 DEF AllocName, log, cursor, Reached, Progress, UpTo
<1>8. CASE MapRecord
  BY <1>1, <1>2, <1>8, ZenonT(30) DEF MapRecord, log, cursor, Reached, Progress, UpTo
<1>9. CASE CopyRoot
  <2>1. /\ pc = "copyRoot" /\ pc' = "rootEntry" /\ first' = pos /\ entry' = 2
        /\ seen' = seen /\ twice' = twice
    BY <1>9, ZenonT(30) DEF CopyRoot, log
  <2>2. 2 <= pos /\ pos < MftRecordSize /\ UpTo(pos)
    BY <1>2, <2>1 DEF Reached, Progress
  <2>3. Larger(first, entry)' = pos
    BY <1>2, <2>1, <2>2 DEF Larger
  <2>4. 2 \in 2 .. RootEntries + 2 /\ first' \in Nat
    BY <1>2, <1>3, <2>1
  <2> QED
    BY <1>1, <1>2, <2>1, <2>2, <2>3, <2>4, ArrivesAtRoot, Zenon DEF UpTo
<1>10. CASE RootEntry
  <2>1. /\ pc = "rootEntry" /\ entry <= RootEntries + 1 /\ first' = first
        /\ seen' = seen /\ twice' = twice
    BY <1>10, ZenonT(30) DEF RootEntry, log
  <2>2. first \in Nat /\ first < MftRecordSize /\ 2 <= entry /\ UpTo(Larger(first, entry))
    BY <1>2, <2>1 DEF Reached, Progress
  <2>3. CASE first > entry
    <3>1. pc' = "rootEntry" /\ entry' = entry + 1
      BY <1>2, <1>10, <2>1, <2>2, <2>3 DEF RootEntry
    <3>2. Larger(first, entry)' = Larger(first, entry)
      BY <1>2, <2>1, <2>2, <2>3, <3>1 DEF Larger
    <3>3. entry + 1 \in 2 .. RootEntries + 2
      BY <1>2, <1>3, <2>1, <2>2
    <3> QED
      BY <1>1, <1>2, <2>1, <2>2, <3>1, <3>2, <3>3, ArrivesAtRoot, ZenonT(30) DEF UpTo
  <2>4. CASE first <= entry /\ entry \in hidden
    <3>1. pc' = "rootEntry" /\ entry' = entry + 1
      BY <1>2, <1>10, <2>1, <2>2, <2>4 DEF RootEntry
    <3>2. Larger(first, entry) = entry /\ Larger(first, entry)' = entry + 1
      BY <1>2, <2>1, <2>2, <2>4, <3>1 DEF Larger
    <3>3. \A v \in Visible : v < entry \/ entry + 1 <= v
      <4>1. \A v \in Visible : v \in Nat /\ v \notin hidden
        BY <1>2, VisibleIn
      <4> QED
        BY <1>2, <2>4, <4>1
    <3>4. UpTo(entry + 1)
      BY <1>2, <2>2, <3>2, <3>3, PassedOver
    <3>5. entry + 1 \in 2 .. RootEntries + 2
      BY <1>2, <1>3, <2>1, <2>2
    <3> QED
      BY <1>1, <1>2, <2>1, <2>2, <3>1, <3>2, <3>4, <3>5, ArrivesAtRoot, ZenonT(30) DEF UpTo
  <2>5. CASE first <= entry /\ entry \notin hidden
    <3>1. pc' = "rootFill" /\ entry' = entry /\ pos' = entry
      BY <1>2, <1>10, <2>1, <2>2, <2>5 DEF RootEntry
    <3>2. Larger(first, entry) = entry
      BY <1>2, <2>2, <2>5 DEF Larger
    <3> QED
      BY <1>1, <1>2, <1>3, <2>1, <2>2, <2>5, <3>1, <3>2, ZenonT(30) DEF Reached, Progress, UpTo
  <2> QED
    BY <1>2, <2>2, <2>3, <2>4, <2>5
<1>11. CASE RootEnd
  <2>1. pc = "rootEntry" /\ entry = RootEntries + 2 /\ seen' = seen /\ twice' = twice
    BY <1>11, ZenonT(30) DEF RootEnd, log
  <2>2. Larger(first, entry) = RootEntries + 2 /\ UpTo(RootEntries + 2)
    BY <1>2, <1>3, <2>1 DEF Reached, Progress, Larger
  <2>3. \A v \in Visible : v < RootEntries + 2 \/ MftRecordSize <= v
    <3>1. ASSUME NEW v \in Visible, NEW b \in used, NEW i \in 1 .. PerBlock, v = Begin(b) + i
          PROVE  MftRecordSize <= v
      <4>1. b \in Nat /\ i \in 1 .. PerBlock + 1
        BY <1>2, ReadDirAssumption DEF Directory
      <4>2. Begin(b) \in Nat /\ MftRecordSize <= Begin(b)
        BY <4>1, BlocksInOrder
      <4> QED
        BY <1>3, <3>1, <4>1, <4>2
    <3> QED
      BY <1>2, <3>1, VisibleIn
  <2>4. UpTo(MftRecordSize)
    BY <1>2, <1>3, <2>2, <2>3, PassedOver
  <2>5. CASE blocks = 0
    <3>1. pc' = "idle" /\ fpos' = EndPos
      BY <1>11, <2>5 DEF RootEnd, Return
    <3>2. EndPos = MftRecordSize
      BY <1>3, <2>5, Sizes DEF EndPos, ISize
    <3> QED
      BY <1>1, <1>2, <2>1, <2>4, <3>1, <3>2, ZenonT(30) DEF Reached, Progress, UpTo
  <2>6. CASE blocks # 0
    <3>1. pc' = "bitmap" /\ pos' = MftRecordSize
      BY <1>11, <2>6 DEF RootEnd
    <3> QED
      BY <1>1, <1>2, <2>1, <2>4, <3>1, ZenonT(30) DEF Reached, Progress, UpTo
  <2> QED
    BY <2>5, <2>6, ZenonT(30)
<1> QED
  BY <1>5, <1>6, <1>7, <1>8, <1>9, <1>10, <1>11

(* The steps in the index blocks.                                          *)
LEMMA BlocksKeep ==
  ASSUME OneBitmapPage, Positions, ListInv, ~failed, UNCHANGED <<dir, failed>>,
         \/ GetBitmap \/ MapBitmapPage \/ FreeBlock \/ MapBlock \/ BlockEntry \/ BlockEnd
  PROVE  ListInv'
<1>1. /\ Visible' = Visible /\ EndPos' = EndPos /\ Directory' /\ blocks' = blocks
      /\ used' = used /\ hidden' = hidden
  BY SameDirectory, ZenonT(30) DEF ListInv
<1>2. /\ Directory /\ Reached /\ Progress /\ twice = {}
      /\ pos \in Nat /\ entry \in Nat /\ bit \in Nat /\ iaPos \in Nat /\ blocks \in Nat
  BY DEF ListInv, Positions, Progress
<1>3. PerBlock \in Nat /\ BlockSize = PerBlock + 2 /\ MftRecordSize \in Nat
  BY ReadDirAssumption DEF BlockSize, MftRecordSize
<1>4. /\ Block \in Nat /\ iaPos % BlockSize \in 0 .. PerBlock + 1
      /\ MftRecordSize + iaPos = Begin(Block) + (iaPos % BlockSize)
      /\ Begin(Block) \in Nat /\ Begin(bit) \in Nat /\ bit + 1 \in Nat
  <2>1. /\ Block \in Nat /\ iaPos % BlockSize \in 0 .. PerBlock + 1
        /\ iaPos = Block * BlockSize + (iaPos % BlockSize)
    BY <1>2, BlockAndOffset DEF Block
  <2>2. Block * BlockSize \in Nat /\ bit * BlockSize \in Nat
    BY <1>2, <1>3, <2>1, Product
  <2> QED
    BY <1>2, <1>3, <2>1, <2>2 DEF Begin
<1>5. \A b \in used : b \in Nat /\ b < blocks
  BY <1>2 DEF Directory
<1>6. Begin(bit + 1) = Begin(bit) + BlockSize
  <2>1. (bit + 1) * BlockSize = bit * BlockSize + BlockSize /\ bit * BlockSize \in Nat
    BY <1>2, <1>3, Product
  <2> QED
    BY <1>3, <2>1 DEF Begin
<1>7. ASSUME NEW v \in Visible
      PROVE  /\ v \in Nat
             /\ v < Begin(bit) \/ Begin(bit + 1) < v
                \/ (bit \in used /\ Begin(bit) < v /\ v < Begin(bit) + PerBlock + 1)
  <2>1. v \in Nat /\ MftRecordSize <= Begin(bit)
    BY <1>2, <1>3, <1>4, VisibleIn, Product DEF Begin
  <2>2. CASE v < RootEntries + 2
    BY <1>4, <2>1, <2>2, ReadDirAssumption DEF MftRecordSize
  <2>3. ASSUME NEW b \in used, NEW i \in 1 .. PerBlock, v = Begin(b) + i
        PROVE  \/ v < Begin(bit) \/ Begin(bit + 1) < v
               \/ (bit \in used /\ Begin(bit) < v /\ v < Begin(bit) + PerBlock + 1)
    <3>1. b \in Nat /\ i \in 1 .. PerBlock + 1
      BY <1>3, <1>5
    <3>2. b < bit => v < Begin(bit)
      BY <1>2, <2>3, <3>1, BlocksInOrder, ZenonT(30)
    <3>3. bit + 1 <= b => Begin(bit + 1) < v
      BY <1>4, <2>3, <3>1, BlocksInOrder, ZenonT(30)
    <3>4. b = bit => bit \in used /\ Begin(bit) < v /\ v < Begin(bit) + PerBlock + 1
      BY <1>3, <1>4, <2>3
    <3> QED
      BY <1>2, <3>1, <3>2, <3>3, <3>4
  <2> QED
    BY <1>2, <2>1, <2>2, <2>3, VisibleIn, ZenonT(30)
<1>8. CASE GetBitmap
  <2>1. /\ pc = "bitmap" /\ pc' = "mapBitmap" /\ iaPos' = pos - MftRecordSize
        /\ bit' = (pos - MftRecordSize) \div BlockSize /\ seen' = seen /\ twice' = twice
    BY <1>8, ZenonT(30) DEF GetBitmap, Fail, log
  <2>2. Block' = bit' /\ UpTo(pos) /\ MftRecordSize + iaPos' = pos
    BY <1>2, <1>3, <2>1 DEF Progress, Positions, Block
  <2>3. UpTo(Scanned)'
    BY <1>1, <2>1, <2>2, ZenonT(30) DEF UpTo, Scanned
  <2>4. Reached' /\ Progress'
    BY <1>2, <2>1, <2>2, <2>3, ZenonT(30) DEF Reached, Progress
  <2> QED
    BY <1>1, <2>4, ZenonT(30) DEF ListInv
<1>9. CASE MapBitmapPage
  <2>1. /\ pc = "mapBitmap" /\ pc' = "test" /\ iaPos' = iaPos /\ bit' = bit
        /\ seen' = seen /\ twice' = twice
    BY <1>9 DEF MapBitmapPage, log, cursor
  <2>2. Block' = Block /\ Scanned' = Scanned
    BY <1>1, <2>1, ZenonT(30) DEF Block, Scanned
  <2>3. Reached' /\ Progress'
    BY <1>1, <1>2, <2>1, <2>2, ZenonT(30) DEF Reached, Progress, UpTo
  <2> QED
    BY <1>1, <2>3 DEF ListInv
<1>10. CASE FreeBlock
  <2>1. pc = "test" /\ bit \notin used /\ (NextBit \/ LastBit) /\ UNCHANGED <<dir, log, failed>>
    BY <1>10, ZenonT(30) DEF FreeBlock
  <2>2. UpTo(Scanned) /\ (Block = bit \/ (Block < bit /\ blocks <= bit))
    BY <1>2, <2>1 DEF Reached, Progress
  <2>3. Block <= bit
    BY <1>2, <1>4, <2>2
  <2>4. UpTo(Begin(bit + 1))
    <3>1. CASE Block = bit
      <4>1. Scanned = Begin(bit) + (iaPos % BlockSize)
        BY <1>4, <3>1, ZenonT(30) DEF Scanned
      <4>2. \A v \in Visible : v < Scanned \/ Begin(bit + 1) <= v
        BY <1>3, <1>4, <1>6, <1>7, <2>1, <4>1
      <4>3. Scanned \in Nat /\ Begin(bit + 1) \in Nat /\ Scanned <= Begin(bit + 1)
        BY <1>3, <1>4, <1>6, <4>1
      <4> QED
        BY <1>2, <2>2, <4>2, <4>3, PassedOver
    <3>2. CASE Block # bit
      <4>1. Scanned = EndPos /\ blocks <= bit
        BY <2>2, <3>2 DEF Scanned
      <4>2. \A v \in Visible : v < EndPos
        BY <1>2, VisibleIn
      <4>3. EndPos \in Nat /\ EndPos <= Begin(bit + 1)
        <5>1. EndPos = Begin(blocks) /\ EndPos \in Nat
          BY <1>2, <1>3, Product, EndIsPosition DEF Begin, EndPos, ISize
        <5>2. 1 \in 1 .. PerBlock + 1 /\ blocks < bit + 1
          BY <1>2, <1>3, <4>1
        <5>3. Begin(blocks) + 1 < Begin(bit + 1)
          BY <1>2, <1>4, <5>2, BlocksInOrder, ZenonT(30)
        <5> QED
          BY <1>3, <1>4, <1>6, <5>1, <5>3
      <4> QED
        BY <1>2, <1>3, <1>4, <1>6, <2>2, <4>1, <4>2, <4>3, PassedOver
    <3> QED
      BY <3>1, <3>2, ZenonT(30)
  <2> QED
    BY <1>2, <2>1, <2>3, <2>4, ScanGoesOn
<1>11. CASE MapBlock
  <2>1. /\ pc = "test" /\ bit \in used /\ pc' = "blockEntry" /\ entry' = 1 /\ iaPos' = iaPos
        /\ bit' = bit /\ seen' = seen /\ twice' = twice
    BY <1>11, ZenonT(30) DEF MapBlock, log
  <2>2. Block = bit /\ UpTo(Scanned) /\ Block' = bit
    BY <1>2, <1>5, <2>1 DEF Reached, Progress, Block
  <2>3. Scanned = Begin(bit) + (iaPos % BlockSize)
    BY <1>4, <2>2 DEF Scanned
  <2>4. UpTo(Begin(bit) + Larger(iaPos % BlockSize, 1))
    <3>1. CASE iaPos % BlockSize = 0
      <4>1. Larger(iaPos % BlockSize, 1) = 1 /\ Scanned = Begin(bit)
        BY <1>4, <2>3, <3>1 DEF Larger
      <4>2. \A v \in Visible : v < Begin(bit) \/ Begin(bit) + 1 <= v
        BY <1>3, <1>4, <1>6, <1>7
      <4> QED
        BY <1>2, <1>4, <2>2, <4>1, <4>2, PassedOver
    <3>2. CASE iaPos % BlockSize # 0
      BY <1>4, <2>2, <2>3, <3>2 DEF Larger
    <3> QED
      BY <3>1, <3>2, ZenonT(30)
  <2>5. Reached' /\ Progress'
    <3>1. 1 \in 1 .. PerBlock + 1
      BY <1>3
    <3>2. (Begin(bit) + Larger(iaPos % BlockSize, entry))' =
            Begin(bit) + Larger(iaPos % BlockSize, 1)
      BY <2>1, ZenonT(30) DEF Begin, Larger
    <3> QED
      BY <1>1, <1>2, <2>1, <2>2, <2>4, <3>1, <3>2, ArrivesAtBlock, Zenon DEF UpTo
  <2> QED
    BY <1>1, <2>5 DEF ListInv
<1>12. CASE BlockEntry
  <2>1. /\ pc = "blockEntry" /\ entry <= PerBlock /\ iaPos' = iaPos /\ bit' = bit
        /\ seen' = seen /\ twice' = twice
    BY <1>12, ZenonT(30) DEF BlockEntry, log
  <2>2. /\ bit \in used /\ Block = bit /\ 1 <= entry /\ Block' = bit
        /\ UpTo(Begin(bit) + Larger(iaPos % BlockSize, entry))
    BY <1>2, <2>1 DEF Reached, Progress, Block
  <2>3. MftRecordSize + Block * BlockSize + entry = Begin(bit) + entry
    BY <2>2, ZenonT(30) DEF Begin
  <2>4. CASE iaPos % BlockSize > entry
    <3>1. pc' = "blockEntry" /\ entry' = entry + 1
      BY <1>2, <1>4, <1>12, <2>4 DEF BlockEntry
    <3>2. Larger(iaPos % BlockSize, entry)' = Larger(iaPos % BlockSize, entry)
      BY <1>2, <1>4, <2>1, <2>4, <3>1 DEF Larger
    <3>3. Reached' /\ Progress'
      <4>1. entry + 1 \in 1 .. PerBlock + 1
        BY <1>2, <1>3, <2>1, <2>2
      <4>2. (Begin(bit) + Larger(iaPos % BlockSize, entry))'
              = Begin(bit) + Larger(iaPos % BlockSize, entry)
        BY <2>1, <3>2, ZenonT(30) DEF Begin
      <4> QED
        BY <1>1, <1>2, <2>1, <2>2, <3>1, <4>1, <4>2, ArrivesAtBlock, Zenon DEF UpTo
    <3> QED
      BY <1>1, <3>3 DEF ListInv
  <2>5. CASE iaPos % BlockSize <= entry /\ Begin(bit) + entry \in hidden
    <3>1. pc' = "blockEntry" /\ entry' = entry + 1
      BY <1>2, <1>4, <1>12, <2>3, <2>5, ZenonT(30) DEF BlockEntry
    <3>2. Larger(iaPos % BlockSize, entry) = entry /\ Larger(iaPos % BlockSize, entry)' = entry + 1
      BY <1>2, <1>4, <2>1, <2>5, <3>1 DEF Larger
    <3>3. \A v \in Visible : v < Begin(bit) + entry \/ Begin(bit) + (entry + 1) <= v
      <4>1. \A v \in Visible : v \in Nat /\ v \notin hidden
        BY <1>2, VisibleIn, ZenonT(30)
      <4> QED
        BY <1>2, <1>4, <2>5, <4>1
    <3>4. UpTo(Begin(bit) + (entry + 1))
      BY <1>2, <1>4, <2>2, <3>2, <3>3, PassedOver
    <3>5. Reached' /\ Progress'
      <4>1. entry + 1 \in 1 .. PerBlock + 1
        BY <1>2, <1>3, <2>1, <2>2
      <4>2. (Begin(bit) + Larger(iaPos % BlockSize, entry))' = Begin(bit) + (entry + 1)
        BY <2>1, <3>2, ZenonT(30) DEF Begin
      <4> QED
        BY <1>1, <1>2, <2>1, <2>2, <3>1, <3>4, <4>1, <4>2, ArrivesAtBlock, ZenonT(30) DEF UpTo
    <3> QED
      BY <1>1, <3>5 DEF ListInv
  <2>6. CASE iaPos % BlockSize <= entry /\ Begin(bit) + entry \notin hidden
    <3>1. pc' = "blockFill" /\ entry' = entry /\ pos' = Begin(bit) + entry
      BY <1>2, <1>4, <1>12, <2>3, <2>6 DEF BlockEntry
    <3>2. Larger(iaPos % BlockSize, entry) = entry
      BY <1>2, <1>4, <2>6 DEF Larger
    <3>3. Reached' /\ Progress'
      BY <1>1, <1>2, <1>3, <2>1, <2>2, <2>6, <3>1, <3>2, ZenonT(30) DEF Reached, Progress, UpTo
    <3> QED
      BY <1>1, <3>3 DEF ListInv
  <2> QED
    BY <1>2, <1>4, <2>4, <2>5, <2>6
<1>13. CASE BlockEnd
  <2>1. /\ pc = "blockEntry" /\ entry = PerBlock + 1 /\ (NextBit \/ LastBit)
        /\ UNCHANGED <<dir, log, failed>>
    BY <1>13, ZenonT(30) DEF BlockEnd
  <2>2. Block = bit /\ UpTo(Begin(bit) + (PerBlock + 1))
    <3>1. Larger(iaPos % BlockSize, entry) = PerBlock + 1
      BY <1>3, <1>4, <2>1 DEF Larger
    <3> QED
      BY <1>2, <2>1, <3>1, ZenonT(30) DEF Reached, Progress
  <2>3. \A v \in Visible : v < Begin(bit) + (PerBlock + 1) \/ Begin(bit + 1) <= v
    BY <1>3, <1>4, <1>6, <1>7
  <2>4. UpTo(Begin(bit + 1))
    BY <1>2, <1>3, <1>4, <1>6, <2>2, <2>3, PassedOver
  <2>5. Block <= bit
    BY <1>2, <2>2
  <2> QED
    BY <1>2, <2>1, <2>4, <2>5, ScanGoesOn, ZenonT(30)
<1> QED
  BY <1>8, <1>9, <1>10, <1>11, <1>12, <1>13

(* The callback takes an entry, or has no room for it.                     *)
LEMMA CallbackKeeps ==
  ASSUME Positions, ListInv, ~failed, UNCHANGED <<dir, failed>>,
         CallFilldir \/ Accepted \/ RefusedEntry
  PROVE  ListInv'
<1>1. /\ Visible' = Visible /\ EndPos' = EndPos /\ Directory' /\ blocks' = blocks
      /\ used' = used /\ hidden' = hidden
  BY SameDirectory, ZenonT(30) DEF ListInv
<1>2. /\ Directory /\ Reached /\ Progress /\ twice = {}
      /\ pos \in Nat /\ entry \in Nat /\ bit \in Nat /\ iaPos \in Nat
  BY DEF ListInv, Positions, Progress
<1>3. SUFFICES Reached' /\ Progress'
  BY <1>1, ZenonT(30) DEF ListInv
<1>4. CASE CallFilldir
  <2>1. /\ pc \in {"rootFill", "blockFill"}
        /\ pc' = IF pc = "rootFill" THEN "rootCallback" ELSE "blockCallback"
        /\ UNCHANGED <<pos, first, iaPos, bit, entry, seen, twice>>
    BY <1>4 DEF CallFilldir, log, cursor
  <2>2. Block' = Block
    BY <2>1, ZenonT(30) DEF Block
  <2> QED
    BY <1>1, <1>2, <2>1, <2>2, ZenonT(30) DEF Reached, Progress, UpTo
<1>5. CASE Accepted
  <2>1. /\ pc \in {"rootCallback", "blockCallback"} /\ Listed(pos) /\ entry' = entry + 1
        /\ UNCHANGED <<pos, first, iaPos, bit>> /\ UpTo(pos)
    BY <1>2, <1>5, ZenonT(30) DEF Accepted, Progress
  <2>2. CASE pc = "rootCallback"
    <3>1. pc' = "rootEntry"
      BY <1>5, <2>2, ZenonT(30) DEF Accepted
    <3>2. /\ first \in Nat /\ first < MftRecordSize /\ pos = entry /\ 2 <= entry
          /\ entry <= RootEntries + 1 /\ pos \notin hidden /\ first <= pos
      BY <1>2, <2>2 DEF Reached
    <3>3. pos \in Visible
      BY <1>2, <3>2, IsVisible, ReadDirAssumption
    <3>4. twice' = {} /\ seen' = {v \in Visible : v < pos + 1}
      BY <1>2, <2>1, <3>3, IsListed, ZenonT(30)
    <3>5. Larger(first, entry)' = pos + 1
      BY <1>2, <2>1, <3>2 DEF Larger
    <3> QED
      <4>1. entry + 1 \in 2 .. RootEntries + 2
        BY <1>2, <3>2, ReadDirAssumption
      <4> QED
        BY <1>1, <2>1, <3>1, <3>2, <3>4, <3>5, <4>1, ArrivesAtRoot, ZenonT(30)
  <2>3. CASE pc = "blockCallback"
    <3>1. pc' = "blockEntry"
      BY <1>5, <2>3, ZenonT(30) DEF Accepted
    <3>2. /\ bit \in used /\ Block = bit /\ 1 <= entry /\ entry <= PerBlock
          /\ pos = Begin(bit) + entry /\ pos \notin hidden /\ iaPos % BlockSize <= entry
      BY <1>2, <2>3 DEF Reached
    <3>3. pos \in Visible
      BY <1>2, <3>2, IsVisible, ReadDirAssumption
    <3>4. twice' = {} /\ seen' = {v \in Visible : v < pos + 1}
      BY <1>2, <2>1, <3>3, IsListed
    <3>5. Begin(bit) \in Nat /\ iaPos % BlockSize \in Nat
      BY <1>2, BlockAndOffset, Sizes, Product DEF Begin
    <3>6. Begin(bit) + Larger(iaPos % BlockSize, entry)' = pos + 1
      BY <1>2, <2>1, <3>2, <3>5 DEF Larger
    <3>7. Block' = bit /\ bit' = bit
      BY <2>1, <3>2, ZenonT(30) DEF Block
    <3> QED
      <4>1. entry + 1 \in 1 .. PerBlock + 1
        BY <1>2, <3>2, ReadDirAssumption
      <4>2. (Begin(bit) + Larger(iaPos % BlockSize, entry))' = pos + 1
        BY <2>1, <3>6, ZenonT(30) DEF Begin
      <4> QED
        BY <1>1, <2>1, <3>1, <3>2, <3>4, <3>7, <4>1, <4>2, ArrivesAtBlock, Zenon
  <2> QED
    BY <2>1, <2>2, <2>3, ZenonT(30)
<1>6. CASE RefusedEntry
  <2>1. /\ pc' = "idle" /\ fpos' = pos /\ seen' = seen /\ twice' = twice
        /\ pc \in {"rootCallback", "blockCallback"}
    BY <1>6, ZenonT(30) DEF RefusedEntry, Return, log
  <2> QED
    BY <1>1, <1>2, <2>1, ZenonT(30) DEF Reached, Progress, UpTo
<1> QED
  BY <1>4, <1>5, <1>6

(* Every step keeps what is known of the listing.                          *)
LEMMA ListKept ==
  ASSUME OneBitmapPage
  PROVE  Positions /\ ListInv /\ [Next]_vars => ListInv'
<1> SUFFICES ASSUME Positions, ListInv, [Next]_vars PROVE ListInv'
  BY ZenonT(30)
<1>1. CASE UNCHANGED vars
  BY <1>1, ZenonT(30)
  DEF vars, dir, cursor, log, ListInv, Directory, Reached, Progress, UpTo, Scanned,
      Block, Visible, EndPos, ISize
<1>2. CASE Reopen
  <2>1. pc' = "idle" /\ fpos' = 0 /\ seen' = {} /\ twice' = {} /\ UNCHANGED dir
    BY <1>2 DEF Reopen
  <2>2. Directory' /\ Visible' = Visible
    BY <2>1, SameDirectory DEF ListInv
  <2>3. \A v \in Visible : v \in Nat
    BY VisibleIn DEF ListInv
  <2>4. {v \in Visible : v < 0} = {}
    BY <2>3
  <2> QED
    BY <2>1, <2>2, <2>4 DEF ListInv, Reached, Progress, UpTo
<1>3. CASE Failure \/ failed'
  <2>1. CASE Reopen
    BY <1>2, <2>1
  <2>2. CASE UNCHANGED vars
    BY <1>1, <2>2
  <2>3. CASE Proceed \/ Failure
    <3>1. UNCHANGED dir
      BY <2>3, ZenonT(30)
      DEF Proceed, Failure, Fail, Call, Dots, AllocName, MapRecord, CopyRoot, RootEntry,
         RootEnd, GetBitmap, MapBitmapPage, FreeBlock, MapBlock, BlockEntry, BlockEnd,
         CallFilldir, Accepted, RefusedEntry
    <3>2. failed'
      BY <1>3 DEF Failure, Fail
    <3> QED
      BY <3>1, <3>2, SameDirectory, ZenonT(30) DEF ListInv
  <2> QED
    BY <2>1, <2>2, <2>3 DEF Next
<1>4. CASE Proceed /\ ~failed'
  <2>1. UNCHANGED <<dir, failed>>
    BY <1>4, ZenonT(30) DEF Proceed, Fail, Call, Dots, AllocName, MapRecord, CopyRoot, RootEntry,
       RootEnd, GetBitmap, MapBitmapPage, FreeBlock, MapBlock, BlockEntry, BlockEnd,
       CallFilldir, Accepted, RefusedEntry
  <2> QED
    BY <1>4, <2>1, RootKeeps, BlocksKeep, CallbackKeeps, ZenonT(30) DEF Proceed
<1> QED
  BY <1>1, <1>2, <1>3, <1>4 DEF Next

(* At the end of the directory no call gets anywhere.                      *)
Called == pc # "idle" => fpos < EndPos

(* The position in the file stays until the call returns.                  *)
LEMMA CalledKept == Called /\ [Next]_vars => Called'
<1> SUFFICES ASSUME Called, [Next]_vars, pc' # "idle" PROVE fpos' < EndPos'
  BY DEF Called
<1>1. UNCHANGED <<dir, fpos>> /\ fpos < EndPos
  <2>1. CASE Proceed
    <3>1. CASE \/ \E n \in 1 .. MaxRoom : Call(n)
               \/ Dots \/ AllocName \/ MapRecord \/ CopyRoot \/ RootEntry \/ RootEnd
      BY <3>1, ZenonT(30)
      DEF Called, Return, Call, Dots, AllocName, MapRecord, CopyRoot, RootEntry, RootEnd
    <3>2. CASE GetBitmap \/ MapBitmapPage \/ FreeBlock \/ MapBlock \/ BlockEntry \/ BlockEnd
      BY <3>2, ZenonT(30) DEF Called, Return, Fail, GetBitmap, MapBitmapPage, FreeBlock, MapBlock,
         BlockEntry, BlockEnd, NextBit, LastBit
    <3>3. CASE CallFilldir \/ Accepted \/ RefusedEntry
      BY <3>3, ZenonT(30) DEF Called, Return, CallFilldir, Accepted, RefusedEntry
    <3> QED
      BY <2>1, <3>1, <3>2, <3>3, ZenonT(30) DEF Proceed
  <2>2. CASE Failure \/ Reopen
    BY <2>2, ZenonT(30) DEF Failure, Fail, Return, Reopen
  <2>3. CASE UNCHANGED vars
    BY <2>3 DEF vars, Called
  <2> QED
    BY <2>1, <2>2, <2>3, ZenonT(30) DEF Next
<1> QED
  BY <1>1, SameDirectory

(* However a listing is cut into calls of ntfs_readdir(), no entry is      *)
(* passed to the callback twice, and at the end of the directory each one  *)
(* that is to be seen was, as long as no call has failed and the bits of   *)
(* all index blocks are in one page of the bitmap.                         *)
THEOREM ListedOnce ==
  ASSUME OneBitmapPage
  PROVE  Spec => []EveryEntryOnce
<1>1. Init => Positions /\ Called /\ ListInv
  <2> SUFFICES ASSUME Init PROVE Positions /\ Called /\ ListInv
    BY ZenonT(30)
  <2>1. Positions /\ Called
    BY ReadDirAssumption DEF Init, Positions, Called
  <2>2. Directory
    <3>1. 0 \notin hidden /\ 1 \notin hidden
      <4>1. \A p \in RootPositions : p # 0 /\ p # 1
        BY ReadDirAssumption DEF RootPositions
      <4>2. ASSUME NEW b \in used, NEW p \in BlockPositions(b) PROVE p # 0 /\ p # 1
        <5>1. b \in Nat /\ b * BlockSize \in Nat
          BY ReadDirAssumption, Sizes, Product DEF Init
        <5>2. PICK i \in 1 .. PerBlock : p = MftRecordSize + b * BlockSize + i
          BY <4>2 DEF BlockPositions
        <5> QED
          BY <5>1, <5>2, ReadDirAssumption DEF MftRecordSize
      <4> QED
        BY <4>1, <4>2, ZenonT(30) DEF Init
    <3> QED
      BY <3>1, ZenonT(30) DEF Init, Directory
  <2>3. {v \in Visible : v < 0} = {}
    BY <2>2, VisibleIn
  <2> QED
    BY <2>1, <2>2, <2>3 DEF Init, ListInv, Reached, Progress, UpTo
<1>2. Positions /\ Called /\ ListInv => EveryEntryOnce
  <2> SUFFICES ASSUME Positions, Called, ListInv, ~failed, fpos = EndPos PROVE seen = Visible
    BY DEF EveryEntryOnce, ListInv, Progress
  <2>1. pc = "idle"
    BY DEF Called, Positions
  <2>2. \A v \in Visible : v < EndPos
    BY VisibleIn DEF ListInv
  <2> QED
    BY <2>1, <2>2, ZenonT(30) DEF ListInv, Progress, UpTo
<1> QED
  BY <1>1, <1>2, PositionsKept, CalledKept, ListKept, PTL DEF Spec
=============================================================================
