--------------------------- MODULE CompressedRead ---------------------------
(***************************************************************************)
(* Reading a compressed file (ntfs/compress.c): ntfs_read_compressed_block *)
(* fills all the pages of a compression block that it can lock, through    *)
(* one decompression buffer for the whole driver.                          *)
(*                                                                         *)
(* A page holds one sub-block of S bytes, as with pages of 4096 bytes, so  *)
(* that a call reads one compression block.  The 16 bits of a phrase token *)
(* are given as the distance and the length that they encode.              *)
(***************************************************************************)
EXTENDS Integers, Sequences, FiniteSets, FiniteSetsExt

CONSTANTS
  Readers,     \* tasks that read pages
  NoReader,
  S,           \* bytes in a sub-block and in a page
  C,           \* pages in a compression block
  Files,       \* the files: [size, init, blocks]
  MaxSize,     \* the size of the largest one
  Reads,       \* bound on the pages read by each task
  MaxFaults    \* bound on the failures of allocations, mapping and disk

ASSUME CompressedReadAssumption ==
  /\ NoReader \notin Readers
  /\ {S, C} \subseteq Nat \ {0} /\ {Reads, MaxFaults, MaxSize} \subseteq Nat
  /\ \A f \in Files : f.init <= f.size /\ f.size <= MaxSize

VARIABLES
  file,        \* i_size, initialized_size, and what is stored of each block:
               \* [kind |-> "hole", "raw" or "packed", subs]
  up,          \* pages that are uptodate
  data,        \* contents of the pages
  lock, refs,  \* of each page: who has it locked, and references taken here
  cbLock, cb,  \* ntfs_cb_lock, and the block in ntfs_compression_buffer
  pc,
  x,           \* of each reader: the page it was asked for, xpage
  arr,         \* its pages[] that are not NULL
  cur,         \* its cur_page
  comp,        \* its completed_pages[]
  done,        \* its xpage_done
  ret,
  reads, faults

vars == <<file, up, data, lock, refs, cbLock, cb, pc, x, arr, cur, comp, done, ret, reads, faults>>

PagesOf(n) == (n + S - 1) \div S
Pages == 0 .. PagesOf(MaxSize)
Block(p) == p \div C

(* The pages of the compression block of x, as far as the file reaches.    *)
First(r) == Block(x[r]) * C
MaxPage(r) == Min({First(r) + C, PagesOf(file.size)})
Stored(b) == file.blocks[b + 1]

Fill(v) == [i \in 1 .. S |-> v]
Zeroes == Fill("zero")
Plain(p) == Fill(<<"p", "q", "r", "s">>[(p % 4) + 1])

-----------------------------------------------------------------------------
(* A sub-block is [kind, tokens]: it is "plain", "packed", or "damaged" if *)
(* its header is.  A token is [sym, back, len]: a symbol if back is 0.     *)

Overflow == <<"overflow">>

Byte(d, back) == Append(d, d[Len(d) - back + 1])
Repeat(d, back, n) ==
  LET e[i \in 0 .. n] == IF i = 0 THEN d ELSE Byte(e[i - 1], back) IN e[n]

(* A phrase is copied as far as it does not overlap its own result, and    *)
(* the rest of it byte by byte.                                            *)
Phrase(d, back, len) ==
  LET from == Len(d) - back
      whole == Min({len, back})
  IN  IF from < 0 \/ Len(d) + len > S THEN Overflow
      ELSE Repeat(d \o SubSeq(d, from + 1, from + whole), back, len - whole)

Token(d, t) ==
  IF d = Overflow THEN d
  ELSE IF t.back = 0 THEN Append(d, t.sym)
  ELSE IF d = <<>> THEN Overflow
  ELSE Phrase(d, t.back, t.len)

(* The rest of a sub-block that is shorter than a page is cleared.         *)
Unpacked(tokens) ==
  LET d[k \in 0 .. Len(tokens)] == IF k = 0 THEN <<>> ELSE Token(d[k - 1], tokens[k])
      out == d[Len(tokens)]
  IN  IF out = Overflow THEN out
      ELSE [i \in 1 .. S |-> IF i <= Len(out) THEN out[i] ELSE "zero"]

(* The sub-blocks of the files, and what each comes to.                    *)
Blocks == UNION {{f.blocks[b] : b \in DOMAIN f.blocks} : f \in Files}
Streams == UNION {{b.subs[k].tokens : k \in DOMAIN b.subs} : b \in Blocks}
Result == [t \in Streams |-> Unpacked(t)]

-----------------------------------------------------------------------------

Init ==
  /\ file \in Files
  /\ up = {}
  /\ data = [p \in Pages |-> Zeroes]
  /\ lock = [p \in Pages |-> NoReader] /\ refs = [p \in Pages |-> 0]
  /\ cbLock = NoReader /\ cb = 0
  /\ pc = [r \in Readers |-> "idle"]
  /\ x = [r \in Readers |-> 0]
  /\ arr = [r \in Readers |-> {}] /\ comp = [r \in Readers |-> {}]
  /\ cur = [r \in Readers |-> 0]
  /\ done = [r \in Readers |-> FALSE]
  /\ ret = [r \in Readers |-> 0]
  /\ reads = [r \in Readers |-> Reads] /\ faults = MaxFaults

Fault == faults > 0 /\ faults' = faults - 1
Go(r, s) == pc' = [pc EXCEPT ![r] = s]
Return(r, err) == Go(r, "return") /\ ret' = [ret EXCEPT ![r] = err]
buffer == <<cbLock, cb>>
task == <<x, arr, cur, comp, done, ret>>

(* Pages are unlocked, and put unless the caller has the reference.        *)
Release(r, set) ==
  /\ lock' = [p \in Pages |-> IF p \in set THEN NoReader ELSE lock[p]]
  /\ refs' = [p \in Pages |-> IF p \in set \ {x[r]} THEN refs[p] - 1 ELSE refs[p]]
  /\ arr' = [arr EXCEPT ![r] = @ \ set]

(* The page cache asks for a page, which it locks first.                   *)
Ask(r, p) ==
  /\ pc[r] = "idle" /\ reads[r] > 0
  /\ reads' = [reads EXCEPT ![r] = @ - 1]
  /\ x' = [x EXCEPT ![r] = p]
  /\ Go(r, "ask")
  /\ UNCHANGED <<file, up, data, lock, refs, buffer, arr, cur, comp, done, ret, faults>>

Lock(r) ==
  /\ pc[r] = "ask" /\ lock[x[r]] = NoReader
  /\ lock' = [lock EXCEPT ![x[r]] = r]
  /\ Go(r, "locked")
  /\ UNCHANGED <<file, up, data, refs, buffer, task, reads, faults>>

(* ntfs_readpage(): a page outside the file, and one that is uptodate.     *)
ReadPage(r) ==
  /\ pc[r] = "locked"
  /\ IF x[r] >= PagesOf(file.size) \/ x[r] \in up
       THEN /\ lock' = [lock EXCEPT ![x[r]] = NoReader]
            /\ data' = IF x[r] >= PagesOf(file.size) THEN [data EXCEPT ![x[r]] = Zeroes] ELSE data
            /\ up' = up \cup {x[r]}
            /\ Return(r, 0)
            /\ UNCHANGED <<arr, cur, comp, done>>
       ELSE /\ Go(r, "grab")
            /\ arr' = [arr EXCEPT ![r] = {x[r]}]
            /\ cur' = [cur EXCEPT ![r] = First(r)]
            /\ comp' = [comp EXCEPT ![r] = {}]
            /\ done' = [done EXCEPT ![r] = FALSE]
            /\ UNCHANGED <<lock, data, up, ret>>
  /\ UNCHANGED <<file, refs, buffer, x, reads, faults>>

(* No memory for the arrays.                                               *)
NoMemory(r) ==
  /\ pc[r] = "grab" /\ cur[r] = First(r) /\ arr[r] = {x[r]} /\ Fault
  /\ Release(r, {x[r]})
  /\ Return(r, -12)
  /\ UNCHANGED <<file, up, data, buffer, x, cur, comp, done, reads>>

(* grab_cache_page_nowait() takes a page that nobody has locked; it is let *)
(* go again if it is uptodate.                                             *)
Grab(r) ==
  /\ pc[r] = "grab"
  /\ LET p == cur[r]
         free == p # x[r] /\ lock[p] = NoReader /\ p \notin up
     IN /\ lock' = IF free THEN [lock EXCEPT ![p] = r] ELSE lock
        /\ refs' = IF free THEN [refs EXCEPT ![p] = @ + 1] ELSE refs
        /\ arr' = IF free THEN [arr EXCEPT ![r] = @ \cup {p}] ELSE arr
        /\ IF p + 1 < MaxPage(r)
             THEN cur' = [cur EXCEPT ![r] = p + 1] /\ UNCHANGED pc
             ELSE cur' = [cur EXCEPT ![r] = First(r)] /\ Go(r, "read")
  /\ UNCHANGED <<file, up, data, buffer, x, comp, done, ret, reads, faults>>

ReadFailsOwn(r) ==
  /\ pc[r] = "read" /\ Fault
  /\ Release(r, {x[r]})
  /\ Return(r, -5)
  /\ UNCHANGED <<file, up, data, buffer, x, cur, comp, done, reads>>

(* err_out: a cluster cannot be mapped, or a block not be read.            *)
ReadFails(r) ==
  /\ pc[r] = "read" /\ Fault
  /\ Release(r, {p \in arr[r] : p >= cur[r]})
  /\ Return(r, -5)
  /\ UNCHANGED <<file, up, data, buffer, x, cur, comp, done, reads>>

(* The clusters have been read: what is stored goes into the buffer.       *)
Take(r) ==
  /\ pc[r] = "read" /\ cbLock = NoReader
  /\ cb' = Block(x[r])
  /\ LET s == Stored(Block(x[r]))
     IN IF s.kind = "hole"
          THEN Go(r, "hole") /\ UNCHANGED cbLock
          ELSE cbLock' = r /\ Go(r, IF s.kind = "raw" THEN "raw" ELSE "unpack")
  /\ UNCHANGED <<file, up, data, lock, refs, task, reads, faults>>

(* A page is complete: uptodate, unlocked and put.                         *)
Finish(r, p) ==
  /\ up' = up \cup {p}
  /\ Release(r, {p})
  /\ done' = [done EXCEPT ![r] = @ \/ p = x[r]]

HolePage(r) ==
  /\ pc[r] = "hole"
  /\ IF cur[r] = MaxPage(r)
       THEN Go(r, "clean") /\ UNCHANGED <<data, up, lock, refs, arr, done, cur>>
       ELSE /\ IF cur[r] \in arr[r]
                 THEN data' = [data EXCEPT ![cur[r]] = Zeroes] /\ Finish(r, cur[r])
                 ELSE UNCHANGED <<data, up, lock, refs, arr, done>>
            /\ cur' = [cur EXCEPT ![r] = @ + 1]
            /\ UNCHANGED pc
  /\ UNCHANGED <<file, buffer, x, comp, ret, reads, faults>>

(* The buffer is copied to the pages, before the lock is dropped.          *)
CopyRaw(r) ==
  /\ pc[r] = "raw"
  /\ data' = [p \in Pages |-> IF p \in arr[r] THEN Plain(cb * C + (p % C)) ELSE data[p]]
  /\ cbLock' = NoReader
  /\ comp' = [comp EXCEPT ![r] = arr[r]]
  /\ cur' = [cur EXCEPT ![r] = MaxPage(r)]
  /\ Go(r, "complete")
  /\ UNCHANGED <<file, up, lock, refs, cb, x, arr, done, ret, reads, faults>>

UnpackEndsHeld(r, err) ==
  /\ cbLock' = IF err = 0 THEN NoReader ELSE cbLock
  /\ ret' = [ret EXCEPT ![r] = err]
  /\ Go(r, "complete")
  /\ UNCHANGED <<comp, cur>>

UnpackEnds(r, err) ==
  /\ cbLock' = NoReader
  /\ ret' = [ret EXCEPT ![r] = err]
  /\ Go(r, "complete")
  /\ UNCHANGED <<comp, cur>>

(* ntfs_decompress(), one sub-block: it ends with the pages or with what   *)
(* is stored.  A page that is not there is skipped by the length of its    *)
(* sub-block, which is in the header.                                      *)
Unpack(r) ==
  /\ pc[r] = "unpack"
  /\ LET p == cur[r]
         k == p - First(r) + 1
         subs == Stored(cb).subs
     IN IF p = MaxPage(r) \/ k > Len(subs) THEN UnpackEnds(r, 0) /\ UNCHANGED data
        ELSE IF subs[k].kind = "damaged" THEN UnpackEnds(r, -75) /\ UNCHANGED data
        ELSE IF p \in arr[r] /\ subs[k].kind = "packed" /\ Result[subs[k].tokens] = Overflow
          THEN UnpackEnds(r, -75) /\ data' = [data EXCEPT ![p] = Fill("part")]
        ELSE /\ cur' = [cur EXCEPT ![r] = p + 1]
             /\ IF p \in arr[r]
                  THEN /\ data' = [data EXCEPT ![p] = IF subs[k].kind = "plain" THEN Plain(cb * C + k - 1)
                                                      ELSE Result[subs[k].tokens]]
                       /\ comp' = [comp EXCEPT ![r] = @ \cup {p}]
                  ELSE UNCHANGED <<data, comp>>
             /\ UNCHANGED <<cbLock, ret, pc>>
  /\ UNCHANGED <<file, up, lock, refs, cb, x, arr, done, reads, faults>>

BoundedPage(p) ==
  [i \in 1 .. S |-> IF p > file.init \div S /\ file.init < file.size THEN "zero" ELSE data[p][i]]

(* handle_bounds_compressed_page()                                         *)
Bounded(p) ==
  [i \in 1 .. S |-> IF p * S + i > file.init /\ file.init < file.size THEN "zero" ELSE data[p][i]]

Complete(r) ==
  /\ pc[r] = "complete"
  /\ IF comp[r] = {}
       THEN Go(r, "clean") /\ UNCHANGED <<data, up, lock, refs, arr, done, comp>>
       ELSE LET p == Min(comp[r])
            IN /\ data' = [data EXCEPT ![p] = Bounded(p)]
               /\ Finish(r, p)
               /\ comp' = [comp EXCEPT ![r] = @ \ {p}]
               /\ UNCHANGED pc
  /\ UNCHANGED <<file, buffer, x, cur, ret, reads, faults>>

(* The pages that are left are let go as they are.                         *)
Clean(r) ==
  /\ pc[r] = "clean"
  /\ Release(r, arr[r])
  /\ Return(r, IF done[r] THEN 0 ELSE IF ret[r] < 0 THEN ret[r] ELSE -5)
  /\ UNCHANGED <<file, up, data, buffer, x, cur, comp, done, reads, faults>>

Leave(r) ==
  /\ pc[r] = "return"
  /\ Go(r, "idle")
  /\ x' = [x EXCEPT ![r] = 0] /\ cur' = [cur EXCEPT ![r] = 0]
  /\ done' = [done EXCEPT ![r] = FALSE] /\ ret' = [ret EXCEPT ![r] = 0]
  /\ UNCHANGED <<file, up, data, lock, refs, buffer, arr, comp, reads, faults>>

(* The page cache drops a page that nobody uses.                           *)
Drop(p) ==
  /\ p \in up /\ lock[p] = NoReader /\ refs[p] = 0
  /\ \A r \in Readers : pc[r] # "idle" => x[r] # p
  /\ up' = up \ {p}
  /\ data' = [data EXCEPT ![p] = Zeroes]
  /\ UNCHANGED <<file, lock, refs, buffer, pc, task, reads, faults>>

Step(r) ==
  \/ Lock(r) \/ ReadPage(r) \/ Grab(r) \/ Take(r) \/ HolePage(r) \/ CopyRaw(r)
  \/ Unpack(r) \/ Complete(r) \/ Clean(r) \/ Leave(r)

Next ==
  \/ \E r \in Readers : Step(r) \/ NoMemory(r) \/ ReadFails(r) \/ \E p \in Pages : Ask(r, p)
  \/ \E p \in Pages : Drop(p)

Spec == Init /\ [][Next]_vars /\ \A r \in Readers : WF_vars(Step(r))

-----------------------------------------------------------------------------

TypeOK ==
  /\ up \subseteq Pages
  /\ lock \in [Pages -> Readers \cup {NoReader}]
  /\ refs \in [Pages -> Nat]
  /\ cbLock \in Readers \cup {NoReader}
  /\ \A r \in Readers : comp[r] \subseteq arr[r] /\ arr[r] \subseteq Pages

(* What the tokens of a sub-block stand for, byte by byte, if they are     *)
(* sound: a phrase repeats what is in the sub-block before it.             *)
Start(tokens, k) ==
  LET s[j \in 1 .. k] == IF j = 1 THEN 1 ELSE s[j - 1] + tokens[j - 1].len IN s[k]
Meaning(tokens) ==
  LET at(i) == {k \in DOMAIN tokens : Start(tokens, k) <= i /\ i < Start(tokens, k) + tokens[k].len}
      f[i \in 1 .. S] ==
        IF at(i) = {} THEN "zero"
        ELSE LET t == tokens[Max(at(i))] IN IF t.back = 0 THEN t.sym ELSE f[i - t.back]
  IN  f

SoundTokens(tokens) ==
  \A k \in DOMAIN tokens :
    /\ Start(tokens, k) + tokens[k].len - 1 <= S
    /\ tokens[k].back < Start(tokens, k)
SoundStreams == {t \in Streams : SoundTokens(t)}
Meanings == [t \in SoundStreams |-> Meaning(t)]

Sound(p) ==
  LET s == Stored(Block(p))
      k == (p % C) + 1
  IN  \/ s.kind \in {"hole", "raw"}
      \/ /\ k <= Len(s.subs)
         /\ s.subs[k].kind # "damaged"
         /\ s.subs[k].kind = "packed" => s.subs[k].tokens \in SoundStreams

Meant(p) ==
  LET s == Stored(Block(p))
      k == (p % C) + 1
  IN  IF s.kind = "hole" THEN Zeroes
      ELSE IF s.kind = "raw" \/ s.subs[k].kind = "plain" THEN Plain(p)
      ELSE Meanings[s.subs[k].tokens]

(* An uptodate page holds what the file has there: the bytes that its      *)
(* sub-block stands for, zeroes behind the initialized size and in a hole, *)
(* whichever reader of the block has filled it and whatever became of the  *)
(* other pages (ntfs_decompress(), handle_bounds_compressed_page()).       *)
UptodateIsFile ==
  \A p \in up : p < PagesOf(file.size) =>
    /\ Sound(p)
    /\ \A i \in 1 .. S : p * S + i <= file.size =>
         data[p][i] = IF p * S + i <= file.init THEN Meant(p)[i] ELSE "zero"

(* A page is locked exactly by the reader that still lists it, and it has  *)
(* one reference for every reader that took it along: every path unlocks   *)
(* and puts each page once (ntfs_read_compressed_block()).                 *)
PagesHeld ==
  /\ \A p \in Pages, r \in Readers :
       lock[p] = r <=> p \in arr[r] \/ (pc[r] = "locked" /\ p = x[r])
  /\ \A p \in Pages : refs[p] = Cardinality({r \in Readers : p \in arr[r] \ {x[r]}})
  /\ \A r \in Readers : pc[r] \in {"idle", "return"} => arr[r] = {}

(* A call returns 0 only with its page uptodate, and without a failure of  *)
(* memory or disk it returns an error only if the page's sub-block, or one *)
(* before it in the block, is damaged or missing: another reader at work   *)
(* in the block is no reason to fail.                                      *)
ResultIsRight ==
  \A r \in Readers : pc[r] = "return" =>
    IF ret[r] = 0 THEN x[r] \in up
    ELSE faults < MaxFaults \/ \E q \in First(r) .. x[r] : ~Sound(q)

(* What a read leaves in the page cache and what it returns are right.     *)
ReadIsRight == UptodateIsFile /\ ResultIsRight

(* Every read ends: nobody waits for the decompression buffer or for a     *)
(* page of a block for ever (pages are only tried, ntfs_cb_lock is held    *)
(* over no other lock).                                                    *)
ReadEnds == \A r \in Readers : pc[r] = "ask" ~> pc[r] = "idle"
=============================================================================
