------------------------------ MODULE PageRead ------------------------------
(***************************************************************************)
(* Reading pages of one attribute into the page cache (ntfs/aops.c):       *)
(* ntfs_readpage() of a non-resident attribute, ntfs_read_block() and the  *)
(* I/O completion handler ntfs_end_buffer_async_read().                    *)
(*                                                                         *)
(* Each page is read by a task of its own.  The tasks share the runlist of *)
(* the attribute and its rw_semaphore; the completions of the buffers run  *)
(* concurrently with each other and with the loop that submits them.       *)
(* The page lock and the retries are the page cache's (external).          *)
(***************************************************************************)
EXTENDS Naturals, FiniteSets

CONSTANTS
  Pages,        \* pages of the attribute
  Torn,         \* records torn on disk, as <<page, record>>
  Shapes        \* the attributes, and who reads which of their pages

(* An attribute has "nr" buffers per page; with "mst" it is protected, in  *)
(* records of "rec" buffers.  "pages" are those that are read, and         *)
(* "places" the kinds of blocks each has.                                  *)
ASSUME PageReadAssumption ==
  /\ IsFiniteSet(Pages)
  /\ Shapes \subseteq [mst : BOOLEAN, nr : Nat \ {0}, rec : Nat \ {0}, pages : SUBSET Pages,
                       places : [Pages -> SUBSET {"data", "tail", "fresh", "hole", "outside"}]]

VARIABLES
  shape,        \* of the attribute, for good
  place,        \* what the runlist and the sizes say of each buffer
  known,        \* the fragments of the runlist in memory ({}: no runlist)
  readers,      \* holders of ni->runlist.lock for reading
  pc, i, rl, retry, arr,    \* locals of ntfs_read_block()
  io,           \* how far the I/O of each buffer has come
  mapped, uptodate,         \* buffers with BH_Mapped, BH_Uptodate
  async,        \* buffers with BH_Async_Read and BH_Lock
  locked, pageUptodate, pageError,      \* page flags
  content,      \* what each buffer holds
  baad          \* records whose magic was overwritten with "BAAD"

task == <<pc, i, rl, retry, arr>>
page == <<locked, pageUptodate, pageError>>
vars == <<shape, place, known, readers, task, io, mapped, uptodate, async, page, content, baad>>

mst == shape.mst
Buffers == 1..shape.nr
Record(b) == (b - 1) \div shape.rec
Records == {Record(b) : b \in Buffers}

(* "data": allocated and initialised; "tail": initialised in part;         *)
(* "fresh": allocated beyond initialized_size; "hole": sparse or past the  *)
(* end of the runlist; "outside": beyond allocated_size.                   *)
Allocated == {"data", "tail", "fresh"}

(* Initialised blocks come before the others, allocated before outside,    *)
(* and an mst protected record is never split.                             *)
Layouts(p) ==
  {l \in [Buffers -> shape.places[p]] :
     /\ \A a, b \in Buffers : a < b =>
          /\ l[a] \in {"tail", "fresh"} => l[b] \notin {"data", "tail"}
          /\ l[a] = "outside" => l[b] = "outside"
     /\ mst => \A a, b \in Buffers :
          l[a] # "tail" /\ (Record(a) = Record(b) => l[a] = l[b])}

Init ==
  /\ shape \in Shapes
  /\ place \in [shape.pages -> UNION {Layouts(p) : p \in shape.pages}]
  /\ \A p \in shape.pages : place[p] \in Layouts(p)
  /\ known = {}
  /\ readers = {}
  /\ pc = [p \in Pages |-> "idle"]
  /\ i = [p \in Pages |-> 1]
  /\ rl = [p \in Pages |-> {}]
  /\ retry = [p \in Pages |-> FALSE]
  /\ arr = [p \in Pages |-> {}]
  /\ io = [p \in Pages |-> [b \in Buffers |-> "none"]]
  /\ mapped = [p \in Pages |-> {}]
  /\ uptodate = [p \in Pages |-> {}]
  /\ async = [p \in Pages |-> {}]
  /\ locked = [p \in Pages |-> FALSE]
  /\ pageUptodate = [p \in Pages |-> FALSE]
  /\ pageError = [p \in Pages |-> FALSE]
  /\ content = [p \in Pages |-> [b \in Buffers |-> "none"]]
  /\ baad = [p \in Pages |-> {}]

Goto(p, from, to) == pc[p] = from /\ pc' = [pc EXCEPT ![p] = to]

-----------------------------------------------------------------------------
(* The page cache (external) *)

(* A page that is not up to date is locked and handed to ntfs_readpage();  *)
(* generic_file_read() clears an old error first, read_mapping_page() does *)
(* not.                                                                    *)
ReadPage(p) ==
  /\ p \in shape.pages /\ ~locked[p] /\ ~pageUptodate[p]
  /\ Goto(p, "idle", IF \A b \in Buffers : place[p][b] = "outside" THEN "beyond" ELSE "loop")
  /\ locked' = [locked EXCEPT ![p] = TRUE]
  /\ pageError' \in {pageError, [pageError EXCEPT ![p] = FALSE]}
  /\ UNCHANGED <<shape, place, known, readers, i, rl, retry, arr, io, mapped, uptodate, async,
                 pageUptodate, content, baad>>

(* An unlocked page is dropped from the cache, with its buffers.           *)
Reclaim(p) ==
  /\ ~locked[p] /\ pc[p] = "idle"
  /\ io' = [io EXCEPT ![p] = [b \in Buffers |-> "none"]]
  /\ mapped' = [mapped EXCEPT ![p] = {}]
  /\ uptodate' = [uptodate EXCEPT ![p] = {}]
  /\ pageUptodate' = [pageUptodate EXCEPT ![p] = FALSE]
  /\ pageError' = [pageError EXCEPT ![p] = FALSE]
  /\ content' = [content EXCEPT ![p] = [b \in Buffers |-> "none"]]
  /\ baad' = [baad EXCEPT ![p] = {}]
  /\ UNCHANGED <<shape, place, known, readers, task, async, locked>>

-----------------------------------------------------------------------------
(* ntfs_readpage() *)

Finish(p, ok) ==
  /\ pageUptodate' = [pageUptodate EXCEPT ![p] = ok]
  /\ locked' = [locked EXCEPT ![p] = FALSE]
  /\ UNCHANGED pageError

(* The page lies beyond i_size: zero it.                                   *)
ReadBeyond(p) ==
  /\ Goto(p, "beyond", "idle")
  /\ content' = [content EXCEPT ![p] = [b \in Buffers |-> "zero"]]
  /\ Finish(p, TRUE)
  /\ UNCHANGED <<shape, place, known, readers, i, rl, retry, arr, io, mapped, uptodate, async, baad>>

-----------------------------------------------------------------------------
(* ntfs_read_block(): the loop over the buffers *)

Advance(p) ==
  /\ i' = [i EXCEPT ![p] = @ + 1]
  /\ retry' = [retry EXCEPT ![p] = FALSE]

At(p, label) == pc[p] = label /\ i[p] \in Buffers

(* handle_zblock: the block is zeroed; without an error it is up to date.  *)
Zero(p, ok) ==
  /\ content' = [content EXCEPT ![p][i[p]] = "zero"]
  /\ uptodate' = IF ok THEN [uptodate EXCEPT ![p] = @ \cup {i[p]}] ELSE uptodate

SkipBuffer(p) ==
  /\ At(p, "loop")
  /\ i[p] \in uptodate[p] \cup mapped[p]
  /\ arr' = IF i[p] \in uptodate[p] THEN arr ELSE [arr EXCEPT ![p] = @ \cup {i[p]}]
  /\ Advance(p)
  /\ UNCHANGED <<shape, place, known, readers, pc, rl, io, mapped, uptodate, async, page, content, baad>>

OutsideBuffer(p) ==
  /\ At(p, "loop")
  /\ i[p] \notin uptodate[p] \cup mapped[p]
  /\ place[p][i[p]] = "outside"
  /\ Zero(p, TRUE)
  /\ Advance(p)
  /\ UNCHANGED <<shape, place, known, readers, pc, rl, arr, io, mapped, async, page, baad>>

(* Mutant: the runlist is not loaded again after the retry.                *)
LockRunlistStale(p) ==
  /\ \/ /\ At(p, "loop")
        /\ i[p] \notin uptodate[p] \cup mapped[p]
        /\ place[p][i[p]] # "outside"
     \/ At(p, "relock")
  /\ pc' = [pc EXCEPT ![p] = "lookup"]
  /\ readers' = readers \cup {p}
  /\ rl' = IF rl[p] = {} THEN [rl EXCEPT ![p] = known] ELSE rl
  /\ UNCHANGED <<shape, place, known, i, retry, arr, io, mapped, uptodate, async, page, content, baad>>

(* down_read(&ni->runlist.lock), unless it is still held for an earlier    *)
(* buffer; at lock_retry_remap it is always taken.                         *)
LockRunlist(p) ==
  /\ \/ /\ At(p, "loop")
        /\ i[p] \notin uptodate[p] \cup mapped[p]
        /\ place[p][i[p]] # "outside"
     \/ At(p, "relock")
  /\ pc' = [pc EXCEPT ![p] = "lookup"]
  /\ IF pc[p] = "loop" /\ rl[p] # {}
     THEN UNCHANGED <<readers, rl>>
     ELSE /\ readers' = readers \cup {p}
          /\ rl' = [rl EXCEPT ![p] = known]
  /\ UNCHANGED <<shape, place, known, i, retry, arr, io, mapped, uptodate, async, page, content, baad>>

(* The vcn is found in the part of the runlist that is mapped.             *)
LookupBuffer(p) ==
  /\ At(p, "lookup") /\ <<p, i[p]>> \in rl[p]
  /\ pc' = [pc EXCEPT ![p] = "loop"]
  /\ mapped' = IF place[p][i[p]] \in Allocated
               THEN [mapped EXCEPT ![p] = @ \cup {i[p]}] ELSE mapped
  /\ IF place[p][i[p]] \in {"data", "tail"}
     THEN arr' = [arr EXCEPT ![p] = @ \cup {i[p]}] /\ UNCHANGED <<content, uptodate>>
     ELSE Zero(p, TRUE) /\ UNCHANGED arr
  /\ Advance(p)
  /\ UNCHANGED <<shape, place, known, readers, rl, io, async, page, baad>>

(* Mutant: is_retry is not set.                                            *)
UnlockToMapAgain(p) ==
  /\ At(p, "lookup") /\ <<p, i[p]>> \notin rl[p]
  /\ ~retry[p]
  /\ Goto(p, "lookup", "map")
  /\ readers' = readers \ {p}
  /\ UNCHANGED <<shape, place, known, i, rl, retry, arr, io, mapped, uptodate, async, page, content, baad>>

(* LCN_RL_NOT_MAPPED, first try: drop the lock to map the fragment.        *)
UnlockToMap(p) ==
  /\ At(p, "lookup") /\ <<p, i[p]>> \notin rl[p]
  /\ ~retry[p]
  /\ Goto(p, "lookup", "map")
  /\ readers' = readers \ {p}
  /\ retry' = [retry EXCEPT ![p] = TRUE]
  /\ UNCHANGED <<shape, place, known, i, rl, arr, io, mapped, uptodate, async, page, content, baad>>

HardError(p) ==
  /\ pageError' = [pageError EXCEPT ![p] = TRUE]
  /\ Zero(p, FALSE)
  /\ UNCHANGED <<locked, pageUptodate>>

(* Still not mapped after the retry: a hard error.                         *)
LookupFailed(p) ==
  /\ At(p, "lookup") /\ <<p, i[p]>> \notin rl[p]
  /\ retry[p]
  /\ Goto(p, "lookup", "loop")
  /\ readers' = IF rl[p] = {} THEN readers \ {p} ELSE readers
  /\ HardError(p)
  /\ Advance(p)
  /\ UNCHANGED <<shape, place, known, rl, arr, io, mapped, async, baad>>

(* ntfs_map_runlist() under the lock held for writing: the fragment is     *)
(* mapped (by us or meanwhile by another task) and the runlist array may   *)
(* be a new one, though a damaged one may leave the vcn out; or the        *)
(* fragment lies past the end (-ENOENT), which reads as a hole; or it      *)
(* fails.                                                                  *)
MapRunlist(p) ==
  /\ At(p, "map")
  /\ readers = {}
  /\ \/ /\ pc' = [pc EXCEPT ![p] = "relock"]
        /\ known' \in {known, known \cup {<<p, i[p]>>}} \ {{}}
        /\ UNCHANGED <<i, rl, retry, uptodate, content, page>>
     \/ /\ pc' = [pc EXCEPT ![p] = "loop"]
        /\ rl' = [rl EXCEPT ![p] = {}]
        /\ \/ place[p][i[p]] = "hole" /\ Zero(p, TRUE) /\ UNCHANGED page
           \/ HardError(p)
        /\ Advance(p)
        /\ UNCHANGED known
  /\ UNCHANGED <<shape, place, readers, arr, io, mapped, async, baad>>

(* Mutant: only the first buffer is marked before the submissions start.   *)
EndLoopMarksFirst(p) ==
  /\ pc[p] = "loop" /\ i[p] = shape.nr + 1
  /\ readers' = IF rl[p] # {} THEN readers \ {p} ELSE readers
  /\ rl' = [rl EXCEPT ![p] = {}]
  /\ i' = [i EXCEPT ![p] = 1]
  /\ IF arr[p] = {}
     THEN /\ pc' = [pc EXCEPT ![p] = "idle"]
          /\ Finish(p, ~pageError[p])
          /\ UNCHANGED <<async, io>>
     ELSE /\ pc' = [pc EXCEPT ![p] = "submit"]
          /\ async' = [async EXCEPT ![p] = {b \in arr[p] : \A a \in arr[p] : b <= a}]
          /\ io' = [io EXCEPT ![p] = [b \in Buffers |-> IF b \in arr[p] THEN "queued" ELSE "none"]]
          /\ UNCHANGED page
  /\ UNCHANGED <<shape, place, known, retry, arr, mapped, uptodate, content, baad>>

(* After the loop the runlist is released.  Without a buffer to read the   *)
(* page is finished here, else all of them are locked and marked for I/O   *)
(* before the first one is submitted.                                      *)
EndLoop(p) ==
  /\ pc[p] = "loop" /\ i[p] = shape.nr + 1
  /\ readers' = IF rl[p] # {} THEN readers \ {p} ELSE readers
  /\ rl' = [rl EXCEPT ![p] = {}]
  /\ i' = [i EXCEPT ![p] = 1]
  /\ IF arr[p] = {}
     THEN /\ pc' = [pc EXCEPT ![p] = "idle"]
          /\ Finish(p, ~pageError[p])
          /\ UNCHANGED <<async, io>>
     ELSE /\ pc' = [pc EXCEPT ![p] = "submit"]
          /\ async' = [async EXCEPT ![p] = arr[p]]
          /\ io' = [io EXCEPT ![p] = [b \in Buffers |-> IF b \in arr[p] THEN "queued" ELSE "none"]]
          /\ UNCHANGED page
  /\ UNCHANGED <<shape, place, known, retry, arr, mapped, uptodate, content, baad>>

(* submit_bh() in the order of the buffers; after the last one the task    *)
(* returns 0.                                                              *)
Submit(p) ==
  /\ pc[p] = "submit"
  /\ \E b \in arr[p] :
       /\ \A a \in arr[p] : b <= a
       /\ io' = [io EXCEPT ![p][b] = "flight"]
       /\ arr' = [arr EXCEPT ![p] = @ \ {b}]
       /\ pc' = [pc EXCEPT ![p] = IF arr[p] = {b} THEN "idle" ELSE "submit"]
  /\ UNCHANGED <<shape, place, known, readers, i, rl, retry, mapped, uptodate, async, page, content, baad>>

-----------------------------------------------------------------------------
(* ntfs_end_buffer_async_read() *)

(* The outcome of the I/O is recorded, before the lock is taken; what lies *)
(* beyond initialized_size is zeroed.                                      *)
EndIO(p, b) ==
  /\ io[p][b] = "flight"
  /\ io' = [io EXCEPT ![p][b] = "ended"]
  /\ \/ /\ uptodate' = [uptodate EXCEPT ![p] = @ \cup {b}]
        /\ content' = [content EXCEPT ![p][b] = IF place[p][b] = "tail" THEN "tail" ELSE "raw"]
        /\ UNCHANGED pageError
     \/ /\ uptodate' = [uptodate EXCEPT ![p] = @ \ {b}]
        /\ pageError' = [pageError EXCEPT ![p] = TRUE]
        /\ UNCHANGED content
  /\ UNCHANGED <<shape, place, known, readers, task, mapped, async, locked, pageUptodate, baad>>

(* Under BH_Uptodate_Lock: the buffer is released; whoever finds no other  *)
(* buffer busy goes on to finish the page.                                 *)
EndAsync(p, b) ==
  /\ io[p][b] = "ended"
  /\ async' = [async EXCEPT ![p] = @ \ {b}]
  /\ io' = [io EXCEPT ![p][b] = IF async[p] = {b} THEN "last" ELSE "none"]
  /\ UNCHANGED <<shape, place, known, readers, task, mapped, uptodate, page, content, baad>>

(* post_read_mst_fixup() of each record of the page.  A record that does   *)
(* not start with a header is left alone.  If a sector does not end with   *)
(* the update sequence number - it is torn, it was not read, or it was     *)
(* fixed up before - the magic is overwritten.                             *)
Sectors(r) == {b \in Buffers : Record(b) = r}
HasHeader(p, r) == content[p][r * shape.rec + 1] \in {"raw", "fixed"}
Intact(p, r) == <<p, r>> \notin Torn /\ \A b \in Sectors(r) : content[p][b] = "raw"

FixupPage(p, b) ==
  /\ io[p][b] = "last"
  /\ io' = [io EXCEPT ![p][b] = "fixed"]
  /\ IF mst
     THEN /\ content' = [content EXCEPT ![p] = [a \in Buffers |->
               IF HasHeader(p, Record(a)) /\ Intact(p, Record(a)) THEN "fixed" ELSE @[a]]]
          /\ baad' = [baad EXCEPT ![p] = @ \cup {r \in Records : HasHeader(p, r) /\ ~Intact(p, r)}]
     ELSE UNCHANGED <<content, baad>>
  /\ UNCHANGED <<shape, place, known, readers, task, mapped, uptodate, async, page>>

(* Mutant: a failed buffer does not keep the page from being up to date.   *)
FinishPageAlways(p, b) ==
  /\ io[p][b] = "fixed"
  /\ io' = [io EXCEPT ![p][b] = "none"]
  /\ Finish(p, TRUE)
  /\ UNCHANGED <<shape, place, known, readers, task, mapped, uptodate, async, content, baad>>

(* The page is marked up to date, unless some buffer is not, and unlocked. *)
FinishPage(p, b) ==
  /\ io[p][b] = "fixed"
  /\ io' = [io EXCEPT ![p][b] = "none"]
  /\ Finish(p, uptodate[p] = Buffers /\ ~pageError[p])
  /\ UNCHANGED <<shape, place, known, readers, task, mapped, uptodate, async, content, baad>>

-----------------------------------------------------------------------------
Task(p) ==
  \/ ReadBeyond(p) \/ SkipBuffer(p) \/ OutsideBuffer(p)
  \/ LockRunlist(p) \/ LookupBuffer(p) \/ UnlockToMap(p) \/ LookupFailed(p)
  \/ MapRunlist(p) \/ EndLoop(p) \/ Submit(p)

Completion(p, b) == EndIO(p, b) \/ EndAsync(p, b) \/ FixupPage(p, b) \/ FinishPage(p, b)

Next ==
  \E p \in Pages :
    \/ ReadPage(p) \/ Reclaim(p) \/ Task(p)
    \/ \E b \in Buffers : Completion(p, b)

(* A task that runs goes on running, a reader that waits for the runlist   *)
(* gets it, and the block layer completes what is submitted to it.         *)
Fairness ==
  \A p \in Pages :
    /\ SF_vars(Task(p))
    /\ WF_vars(\E b \in Buffers : Completion(p, b))

Spec == Init /\ [][Next]_vars /\ Fairness

-----------------------------------------------------------------------------
(* Properties *)

Labels == {"idle", "beyond", "loop", "relock", "lookup", "map", "submit"}
(* The type invariant; the loop of ntfs_read_block() stops at the last     *)
(* buffer.                                                                 *)
TypeOK ==
  /\ shape \in Shapes
  /\ \A p \in shape.pages : place[p] \in [Buffers -> shape.places[p]]
  /\ known \in SUBSET (Pages \X Buffers)
  /\ readers \in SUBSET Pages
  /\ pc \in [Pages -> Labels]
  /\ i \in [Pages -> 1..(shape.nr + 1)]
  /\ rl \in [Pages -> SUBSET (Pages \X Buffers)]
  /\ retry \in [Pages -> BOOLEAN]
  /\ arr \in [Pages -> SUBSET Buffers]
  /\ io \in [Pages -> [Buffers -> {"none", "queued", "flight", "ended", "last", "fixed"}]]
  /\ mapped \in [Pages -> SUBSET Buffers]
  /\ uptodate \in [Pages -> SUBSET Buffers]
  /\ async \in [Pages -> SUBSET Buffers]
  /\ locked \in [Pages -> BOOLEAN]
  /\ pageUptodate \in [Pages -> BOOLEAN]
  /\ pageError \in [Pages -> BOOLEAN]
  /\ content \in [Pages -> [Buffers -> {"none", "zero", "raw", "tail", "fixed"}]]
  /\ baad \in [Pages -> SUBSET Records]

(* What a buffer of a page that was read completely holds.                 *)
Expected(p, b) ==
  IF place[p][b] = "tail" THEN "tail"
  ELSE IF place[p][b] # "data" THEN "zero"
  ELSE IF mst /\ <<p, Record(b)>> \notin Torn THEN "fixed" ELSE "raw"

(* A page marked up to date holds the data of the attribute: every block   *)
(* was read or zeroed, and the fixups were applied before the mark.        *)
UptodateIsComplete ==
  \A p \in Pages : pageUptodate[p] => \A b \in Buffers : content[p][b] = Expected(p, b)

(* The page lock is held while the task runs or any buffer is under I/O,   *)
(* and exactly one completion, after all the others are through, finishes  *)
(* the page.                                                               *)
Busy(p) == {b \in Buffers : io[p][b] # "none"}
OneFinisher ==
  \A p \in Pages :
    /\ ~locked[p] => pc[p] = "idle" /\ Busy(p) = {} /\ async[p] = {}
    /\ \A b \in Buffers : io[p][b] \in {"last", "fixed"} =>
         async[p] = {} /\ \A a \in Buffers \ {b} : io[p][a] = "none"

(* A task uses a runlist array only while it holds the lock, so never one  *)
(* that another task has replaced; it holds no lock while it maps a        *)
(* fragment, submits buffers or has returned.                              *)
RunlistFresh ==
  \A p \in Pages :
    /\ pc[p] = "lookup" => p \in readers /\ rl[p] = known
    /\ pc[p] = "loop" => ((p \in readers) <=> (rl[p] # {})) /\ rl[p] \in {{}, known}
    /\ pc[p] \notin {"lookup", "loop"} => p \notin readers

(* Nobody changes a page that is up to date.                               *)
UptodateIsStable ==
  [][\A p \in Pages : pageUptodate[p] /\ pageUptodate'[p] =>
       content'[p] = content[p] /\ baad'[p] = baad[p]]_vars

(* Every page handed to ntfs_readpage() is unlocked again.                 *)
PageUnlocked == \A p \in Pages : locked[p] ~> ~locked[p]

(* A record of a page that is up to date has the magic "BAAD" only if its  *)
(* sectors on disk are torn.                                               *)
BaadIsTorn ==
  \A p \in Pages : pageUptodate[p] => \A r \in baad[p] : <<p, r>> \in Torn
=============================================================================
