--------------------------- MODULE PageReadProofs ---------------------------
(***************************************************************************)
(* For any number of pages, buffers and records: one buffer finishes a     *)
(* page, a page that is up to date holds its data, and no reader looks up  *)
(* a runlist array that was replaced.  First who finishes a page, then the *)
(* steps that begin a read, look at its buffers and give pages back, then  *)
(* those that end the loop, submit buffers and complete them.              *)
(***************************************************************************)
EXTENDS PageRead, TLAPS

Stages == {"none", "queued", "flight", "ended", "last", "fixed"}

(* The buffers marked for I/O are those that are queued, in flight or not  *)
(* yet through BH_Uptodate_Lock; the task itself queues all of them before *)
(* it submits the first, and touches none after the last.                  *)
Marked(p) ==
  /\ async[p] = {b \in Buffers : io[p][b] \in {"queued", "flight", "ended"}}
  /\ ~locked[p] => pc[p] = "idle"
  /\ (~locked[p] \/ pc[p] \notin {"idle", "submit"}) => \A b \in Buffers : io[p][b] = "none"
  /\ pc[p] = "submit" => arr[p] # {}
  /\ \A b \in Buffers : io[p][b] = "queued" <=> pc[p] = "submit" /\ b \in arr[p]
  /\ \A b \in Buffers : io[p][b] \in {"last", "fixed"} =>
       \A a \in Buffers \ {b} : io[p][a] = "none"

FinisherInv ==
  /\ io \in [Pages -> [Buffers -> Stages]]
  /\ async \in [Pages -> SUBSET Buffers] /\ arr \in [Pages -> SUBSET Buffers]
  /\ pc \in [Pages -> Labels] /\ locked \in [Pages -> BOOLEAN]
  /\ \A p \in Pages : Marked(p)

-----------------------------------------------------------------------------
(* A buffer that is up to date holds what it should, or is a sector as it  *)
(* was read from disk, which the fixups have yet to reach; one that is not *)
(* was never filled, or zeroed after an error.                             *)
Filled(p) ==
  \A b \in Buffers :
    IF b \in uptodate[p]
    THEN \/ content[p][b] = Expected(p, b)
         \/ mst /\ place[p][b] = "data" /\ content[p][b] = "raw"
    ELSE content[p][b] \in {"none", "zero"}

(* Only blocks with data are read, and none that is up to date.            *)
Wanted(p) ==
  \A b \in Buffers :
    /\ b \in mapped[p] => place[p][b] \in {"data", "tail"} \/ b \in uptodate[p]
    /\ b \in arr[p] \/ io[p][b] \in {"queued", "flight"} =>
         place[p][b] \in {"data", "tail"} /\ b \notin uptodate[p]

(* The fixups are applied to all sectors of a record or to none.           *)
FixedTogether(p) ==
  \A a, b \in Buffers :
    content[p][a] = "fixed" /\ Record(a) = Record(b) => content[p][b] = "fixed"

(* Once the fixups are through, and until the next read of the page ends,  *)
(* the records that were read completely are as they should be.            *)
Settled(p) ==
  mst /\ (\A b \in Buffers : io[p][b] \in {"none", "fixed"}) =>
    \A b \in Buffers : place[p][b] = "data" /\ Sectors(Record(b)) \subseteq uptodate[p] =>
      content[p][b] = Expected(p, b)

(* The loop of ntfs_read_block() leaves no buffer out without an error.    *)
Walked(p) ==
  /\ pc[p] \in {"idle", "beyond"} => arr[p] = {}
  /\ pc[p] \in {"idle", "beyond", "submit"} => i[p] = 1
  /\ pc[p] \in {"relock", "lookup", "map"} => i[p] \notin uptodate[p]
  /\ pc[p] \in {"loop", "relock", "lookup", "map"} =>
       \A b \in Buffers : b < i[p] => b \in uptodate[p] \cup arr[p] \/ pageError[p]
  /\ pc[p] = "beyond" => \A b \in Buffers : place[p][b] = "outside"

ReadInOrder(p) ==
  /\ locked[p] => ~pageUptodate[p]
  /\ pageUptodate[p] => \A b \in Buffers : content[p][b] = Expected(p, b)
  /\ Filled(p) /\ Wanted(p) /\ FixedTogether(p) /\ Settled(p) /\ Walked(p)

ReadTypes ==
  /\ shape \in Shapes
  /\ \A p \in shape.pages : place[p] \in Layouts(p)
  /\ i \in [Pages -> Nat]
  /\ mapped \in [Pages -> SUBSET Buffers] /\ uptodate \in [Pages -> SUBSET Buffers]
  /\ pageUptodate \in [Pages -> BOOLEAN] /\ pageError \in [Pages -> BOOLEAN]
  /\ content \in [Pages -> [Buffers -> {"none", "zero", "raw", "tail", "fixed"}]]

ReadInv ==
  /\ FinisherInv /\ ReadTypes
  /\ \A p \in shape.pages : ReadInOrder(p)
  /\ \A p \in Pages \ shape.pages : ~locked[p] /\ ~pageUptodate[p]

(* A step for page p keeps the attribute and the other pages as they are.  *)
Frame(p) ==
  /\ UNCHANGED <<shape, place>>
  /\ ReadTypes'
  /\ \A q \in Pages \ {p} :
       /\ pc'[q] = pc[q] /\ i'[q] = i[q] /\ arr'[q] = arr[q] /\ io'[q] = io[q]
       /\ mapped'[q] = mapped[q] /\ uptodate'[q] = uptodate[q] /\ content'[q] = content[q]
       /\ locked'[q] = locked[q] /\ pageUptodate'[q] = pageUptodate[q]
       /\ pageError'[q] = pageError[q]

(* What follows from the attribute alone does not change.                  *)
LEMMA LayoutKept ==
  ASSUME UNCHANGED <<shape, place>>
  PROVE  /\ Buffers' = Buffers /\ mst' = mst
         /\ \A b : Record(b)' = Record(b)
         /\ \A r : Sectors(r)' = Sectors(r)
         /\ \A q, b : Expected(q, b)' = Expected(q, b)
         /\ \A q : Layouts(q)' = Layouts(q)
<1>1. /\ Buffers' = Buffers /\ mst' = mst
      /\ \A b : Record(b)' = Record(b)
      /\ \A r : Sectors(r)' = Sectors(r)
      /\ \A q, b : Expected(q, b)' = Expected(q, b)
  BY Zenon DEF Buffers, mst, Record, Sectors, Expected
<1>2. \A q : Layouts(q)' = Layouts(q)
  BY <1>1 DEF Layouts
<1> QED
  BY <1>1, <1>2, Zenon

(* A buffer is added to those of its page.                                 *)
LEMMA BufferAdded ==
  ASSUME NEW f \in [Pages -> SUBSET Buffers], NEW p \in Pages, NEW b \in Buffers
  PROVE  [f EXCEPT ![p] = @ \cup {b}] \in [Pages -> SUBSET Buffers]
BY Zenon

(* The types follow for the variables one by one.                          *)
LEMMA TypesKept ==
  ASSUME ReadTypes, UNCHANGED <<shape, place>>,
         i' \in [Pages -> Nat],
         mapped' \in [Pages -> SUBSET Buffers], uptodate' \in [Pages -> SUBSET Buffers],
         pageUptodate' \in [Pages -> BOOLEAN], pageError' \in [Pages -> BOOLEAN],
         content' \in [Pages -> [Buffers -> {"none", "zero", "raw", "tail", "fixed"}]]
  PROVE  ReadTypes'
BY LayoutKept, Zenon DEF ReadTypes

(* The other pages stay in order.                                          *)
LEMMA OthersKept ==
  ASSUME NEW p \in Pages, NEW q \in Pages \ {p}, Frame(p), ReadInOrder(q)
  PROVE  ReadInOrder(q)'
<1>1. /\ pc'[q] = pc[q] /\ i'[q] = i[q] /\ arr'[q] = arr[q] /\ io'[q] = io[q]
      /\ mapped'[q] = mapped[q] /\ uptodate'[q] = uptodate[q] /\ content'[q] = content[q]
      /\ locked'[q] = locked[q] /\ pageUptodate'[q] = pageUptodate[q]
      /\ pageError'[q] = pageError[q]
  BY Zenon DEF Frame
<1>2. UNCHANGED <<shape, place>>
  BY Zenon DEF Frame
<1>3. /\ Buffers' = Buffers /\ mst' = mst
      /\ \A b : Record(b)' = Record(b)
      /\ \A r : Sectors(r)' = Sectors(r)
      /\ \A b : Expected(q, b)' = Expected(q, b)
  BY <1>2, LayoutKept, Zenon
<1>4. Filled(q)'
  BY <1>1, <1>2, <1>3, Zenon DEF ReadInOrder, Filled
<1>5. Wanted(q)'
  BY <1>1, <1>2, <1>3, Zenon DEF ReadInOrder, Wanted
<1>6. FixedTogether(q)'
  BY <1>1, <1>3 DEF ReadInOrder, FixedTogether
<1>7. Settled(q)'
  BY <1>1, <1>2, <1>3, Zenon DEF ReadInOrder, Settled
<1>8. Walked(q)'
  BY <1>1, <1>2, <1>3, Zenon DEF ReadInOrder, Walked
<1> QED
  BY <1>1, <1>3, <1>4, <1>5, <1>6, <1>7, <1>8, Zenon DEF ReadInOrder

(* So a step is right if it keeps the order of its own page.               *)
LEMMA PageStep ==
  ASSUME ReadInv, FinisherInv', NEW p \in shape.pages, Frame(p), ReadInOrder(p)'
  PROVE  ReadInv'
<1>1. p \in Pages /\ shape.pages \subseteq Pages
  BY PageReadAssumption, Zenon DEF ReadInv, ReadTypes
<1>2. shape' = shape /\ ReadTypes'
  BY Zenon DEF Frame
<1>3. ASSUME NEW q \in shape.pages PROVE ReadInOrder(q)'
  <2>1. CASE q = p
    BY <2>1, Zenon
  <2>2. CASE q # p
    BY <1>1, <2>2, OthersKept, Zenon DEF ReadInv
  <2> QED
    BY <2>1, <2>2, Zenon
<1>4. ASSUME NEW q \in Pages \ shape.pages PROVE ~locked'[q] /\ ~pageUptodate'[q]
  BY <1>1, <1>4, Zenon DEF Frame, ReadInv
<1> QED
  BY <1>2, <1>3, <1>4, Zenon DEF ReadInv

-----------------------------------------------------------------------------
InLoop == {"loop", "relock", "lookup", "map"}

(* The sectors of a protected record are of one kind.                      *)
LEMMA RecordsWhole ==
  ASSUME ReadTypes, NEW p \in shape.pages
  PROVE  /\ p \in Pages
         /\ mst \in BOOLEAN
         /\ \A b \in Buffers : b \in Nat /\ b \in Sectors(Record(b))
         /\ mst => \A a, b \in Buffers :
              /\ place[p][a] # "tail"
              /\ Record(a) = Record(b) => place[p][a] = place[p][b]
<1>1. p \in Pages /\ mst \in BOOLEAN /\ shape.nr \in Nat
  BY PageReadAssumption, Zenon DEF ReadTypes, mst
<1>2. \A b \in Buffers : b \in Nat /\ b \in Sectors(Record(b))
  BY <1>1 DEF Buffers, Sectors
<1>3. place[p] \in Layouts(p)
  BY Zenon DEF ReadTypes
<1> QED
  BY <1>1, <1>2, <1>3, Zenon DEF Layouts

(* The page cache drops a page.                                            *)
LEMMA ReclaimKept ==
  ASSUME ReadInv, FinisherInv', NEW p \in Pages, Reclaim(p)
  PROVE  ReadInv'
<1>1. /\ pc[p] = "idle" /\ ~locked[p]
      /\ UNCHANGED <<shape, place, pc, i, arr, locked>>
      /\ io' = [io EXCEPT ![p] = [b \in Buffers |-> "none"]]
      /\ mapped' = [mapped EXCEPT ![p] = {}]
      /\ uptodate' = [uptodate EXCEPT ![p] = {}]
      /\ pageUptodate' = [pageUptodate EXCEPT ![p] = FALSE]
      /\ pageError' = [pageError EXCEPT ![p] = FALSE]
      /\ content' = [content EXCEPT ![p] = [b \in Buffers |-> "none"]]
  BY Zenon DEF Reclaim, task
<1>2. /\ ReadTypes /\ i \in [Pages -> Nat] /\ io \in [Pages -> [Buffers -> Stages]]
      /\ mapped \in [Pages -> SUBSET Buffers] /\ uptodate \in [Pages -> SUBSET Buffers]
      /\ pageUptodate \in [Pages -> BOOLEAN] /\ pageError \in [Pages -> BOOLEAN]
      /\ content \in [Pages -> [Buffers -> {"none", "zero", "raw", "tail", "fixed"}]]
  BY Zenon DEF ReadInv, ReadTypes, FinisherInv
<1>3. ReadTypes'
  <2>1. mapped' \in [Pages -> SUBSET Buffers] /\ uptodate' \in [Pages -> SUBSET Buffers]
    BY <1>1, <1>2, Zenon
  <2>2. pageUptodate' \in [Pages -> BOOLEAN] /\ pageError' \in [Pages -> BOOLEAN]
    BY <1>1, <1>2, Zenon
  <2>3. content' \in [Pages -> [Buffers -> {"none", "zero", "raw", "tail", "fixed"}]]
    BY <1>1, <1>2, Zenon
  <2> QED
    BY <1>1, <1>2, <2>1, <2>2, <2>3, TypesKept, Zenon
<1>4. Frame(p)
  BY <1>1, <1>2, <1>3, Zenon DEF Frame
<1>5. /\ mapped'[p] = {} /\ uptodate'[p] = {}
      /\ \A b \in Buffers : content'[p][b] = "none" /\ io'[p][b] = "none"
  BY <1>1, <1>2, Zenon
<1>6. ~pageUptodate'[p] /\ ~locked'[p]
  BY <1>1, <1>2, Zenon
<1>7. CASE p \in shape.pages
  <2>1. /\ Buffers' = Buffers /\ mst' = mst
        /\ \A b : Record(b)' = Record(b)
        /\ \A r : Sectors(r)' = Sectors(r)
        /\ \A b : Expected(p, b)' = Expected(p, b)
    BY <1>1, LayoutKept, Zenon
  <2>2. ReadInOrder(p)
    BY <1>7, Zenon DEF ReadInv
  <2>3. arr[p] = {} /\ i[p] = 1
    BY <1>1, <2>2, Zenon DEF ReadInOrder, Walked
  <2>4. \A b \in Buffers : b \in Sectors(Record(b))
    BY <1>2, <1>7, RecordsWhole, Zenon
  <2>5. Filled(p)' /\ Wanted(p)' /\ FixedTogether(p)'
    BY <1>1, <1>5, <2>1, <2>3, Zenon DEF Filled, Wanted, FixedTogether
  <2>6. Settled(p)'
    BY <1>5, <2>1, <2>4, Zenon DEF Settled
  <2>7. Walked(p)'
    BY <1>1, <2>3, Zenon DEF Walked
  <2>8. ReadInOrder(p)'
    BY <1>6, <2>5, <2>6, <2>7, Zenon DEF ReadInOrder
  <2> QED
    BY <1>4, <1>7, <2>8, PageStep, Zenon
<1>8. CASE p \notin shape.pages
  <2>1. shape' = shape /\ shape.pages \subseteq Pages
    BY <1>1, PageReadAssumption, Zenon DEF ReadInv, ReadTypes
  <2>2. ASSUME NEW q \in shape.pages PROVE ReadInOrder(q)'
    <3>1. q \in Pages \ {p} /\ ReadInOrder(q)
      BY <1>8, <2>1, Zenon DEF ReadInv
    <3> QED
      BY <1>4, <3>1, OthersKept, Zenon
  <2>3. ASSUME NEW q \in Pages \ shape.pages PROVE ~locked'[q] /\ ~pageUptodate'[q]
    <3>1. CASE q = p
      BY <1>6, <3>1, Zenon
    <3>2. CASE q # p
      BY <1>4, <2>3, <3>2, Zenon DEF Frame, ReadInv
    <3> QED
      BY <3>1, <3>2, Zenon
  <2> QED
    BY <1>3, <2>1, <2>2, <2>3, Zenon DEF ReadInv
<1> QED
  BY <1>7, <1>8, Zenon

(* A page in the loop is locked and no I/O of it is under way.             *)
LEMMA LoopIsQuiet ==
  ASSUME ReadInv, NEW p \in shape.pages, pc[p] \in InLoop
  PROVE  /\ locked[p] = TRUE /\ pageUptodate[p] = FALSE
         /\ \A b \in Buffers : io[p][b] = "none"
<1>1. p \in Pages /\ locked[p] \in BOOLEAN /\ pageUptodate[p] \in BOOLEAN
  BY RecordsWhole, Zenon DEF ReadInv, ReadTypes, FinisherInv
<1>2. Marked(p) /\ ReadInOrder(p)
  BY <1>1, Zenon DEF ReadInv, FinisherInv
<1>3. locked[p] /\ \A b \in Buffers : io[p][b] = "none"
  BY <1>2, Zenon DEF Marked, InLoop
<1>4. ~pageUptodate[p]
  BY <1>2, <1>3, Zenon DEF ReadInOrder
<1> QED
  BY <1>1, <1>3, <1>4, Zenon

(* The runlist is locked, unlocked or mapped for a buffer.                 *)
LEMMA Waited ==
  ASSUME ReadInv, NEW p \in shape.pages, Frame(p), pc[p] \in InLoop,
         i[p] \notin uptodate[p],
         UNCHANGED <<i, arr, io, mapped, uptodate, content, locked, pageUptodate, pageError>>,
         pc'[p] \in {"relock", "lookup", "map"}
  PROVE  ReadInOrder(p)'
<1>1. ReadInOrder(p)
  BY Zenon DEF ReadInv
<1>2. UNCHANGED <<shape, place>>
  BY Zenon DEF Frame
<1>3. /\ Buffers' = Buffers /\ mst' = mst
      /\ \A b : Record(b)' = Record(b)
      /\ \A r : Sectors(r)' = Sectors(r)
      /\ \A b : Expected(p, b)' = Expected(p, b)
  BY <1>2, LayoutKept, Zenon
<1>4. Filled(p)' /\ Wanted(p)'
  BY <1>1, <1>2, <1>3, Zenon DEF ReadInOrder, Filled, Wanted
<1>5. FixedTogether(p)' /\ Settled(p)'
  BY <1>1, <1>2, <1>3, Zenon DEF ReadInOrder, FixedTogether, Settled
<1>6. Walked(p)'
  BY <1>1, <1>2, <1>3, Zenon DEF ReadInOrder, Walked, InLoop
<1> QED
  BY <1>1, <1>3, <1>4, <1>5, <1>6, Zenon DEF ReadInOrder

(* The loop goes on to the next buffer, which is up to date or noted for   *)
(* the read.                                                               *)
LEMMA Noted ==
  ASSUME ReadInv, NEW p \in shape.pages, Frame(p), pc[p] \in InLoop, i[p] \in Buffers,
         UNCHANGED <<io, uptodate, content, locked, pageUptodate, pageError>>,
         pc'[p] = "loop", i'[p] = i[p] + 1,
         \/ i[p] \in uptodate[p] /\ arr'[p] = arr[p] /\ mapped'[p] = mapped[p]
         \/ /\ i[p] \notin uptodate[p] /\ place[p][i[p]] \in {"data", "tail"}
            /\ arr'[p] = arr[p] \cup {i[p]}
            /\ mapped'[p] \subseteq mapped[p] \cup {i[p]}
  PROVE  ReadInOrder(p)'
<1>1. ReadInOrder(p)
  BY Zenon DEF ReadInv
<1>2. UNCHANGED <<shape, place>>
  BY Zenon DEF Frame
<1>3. /\ Buffers' = Buffers /\ mst' = mst
      /\ \A b : Record(b)' = Record(b)
      /\ \A r : Sectors(r)' = Sectors(r)
      /\ \A b : Expected(p, b)' = Expected(p, b)
  BY <1>2, LayoutKept, Zenon
<1>4. Filled(p)' /\ FixedTogether(p)' /\ Settled(p)'
  BY <1>1, <1>2, <1>3 DEF ReadInOrder, Filled, FixedTogether, Settled
<1>5. Wanted(p)'
  <2>1. \A b \in Buffers : io[p][b] = "none"
    BY LoopIsQuiet, Zenon
  <2> QED
    BY <1>1, <1>2, <1>3, <2>1, Zenon DEF ReadInOrder, Wanted
<1>6. Walked(p)'
  <2>1. \A b \in Buffers : b \in Nat
    BY RecordsWhole, Zenon DEF ReadInv
  <2>2. \A b \in Buffers : b < i[p] => b \in uptodate[p] \cup arr[p] \/ pageError[p]
    BY <1>1, Zenon DEF ReadInOrder, Walked, InLoop
  <2>3. \A b \in Buffers : b < i[p] + 1 => b < i[p] \/ b = i[p]
    BY <2>1
  <2>4. \A b \in Buffers : b < i'[p] => b \in uptodate'[p] \cup arr'[p] \/ pageError'[p]
    BY <2>2, <2>3, Zenon
  <2> QED
    BY <1>3, <2>4, Zenon DEF Walked
<1> QED
  BY <1>1, <1>3, <1>4, <1>5, <1>6, Zenon DEF ReadInOrder

(* handle_zblock: the buffer is zeroed, because there is no data for it    *)
(* or because of an error.                                                 *)
LEMMA Zeroed ==
  ASSUME ReadInv, NEW p \in shape.pages, Frame(p), pc[p] \in InLoop, i[p] \in Buffers,
         UNCHANGED <<io, arr, locked, pageUptodate>>,
         i[p] \notin uptodate[p],
         content'[p] = [content[p] EXCEPT ![i[p]] = "zero"],
         pc'[p] = "loop", i'[p] = i[p] + 1,
         \/ /\ place[p][i[p]] \notin {"data", "tail"}
            /\ uptodate'[p] = uptodate[p] \cup {i[p]} /\ pageError'[p] = pageError[p]
            /\ mapped'[p] \subseteq mapped[p] \cup {i[p]}
         \/ uptodate'[p] = uptodate[p] /\ pageError'[p] = TRUE /\ mapped'[p] = mapped[p]
  PROVE  ReadInOrder(p)'
<1>1. ReadInOrder(p)
  BY Zenon DEF ReadInv
<1>2. UNCHANGED <<shape, place>>
  BY Zenon DEF Frame
<1>3. /\ Buffers' = Buffers /\ mst' = mst
      /\ \A b : Record(b)' = Record(b)
      /\ \A r : Sectors(r)' = Sectors(r)
      /\ \A b : Expected(p, b)' = Expected(p, b)
  BY <1>2, LayoutKept, Zenon
<1>4. /\ \A b \in Buffers : content'[p][b] = IF b = i[p] THEN "zero" ELSE content[p][b]
      /\ content[p][i[p]] \in {"none", "zero"}
  <2>1. content[p] \in [Buffers -> {"none", "zero", "raw", "tail", "fixed"}]
    BY RecordsWhole, Zenon DEF ReadInv, ReadTypes
  <2> QED
    BY <1>1, <2>1, Zenon DEF ReadInOrder, Filled
<1>5. /\ \A b \in Buffers : b \in Nat /\ b \in Sectors(Record(b))
      /\ \A a, r : a \in Sectors(r) => r = Record(a)
      /\ mst => \A a, b \in Buffers : Record(a) = Record(b) => place[p][a] = place[p][b]
  <2>1. \A a, r : a \in Sectors(r) => r = Record(a)
    BY Zenon DEF Sectors
  <2>2. ReadTypes
    BY Zenon DEF ReadInv
  <2>3. \A b \in Buffers : b \in Nat /\ b \in Sectors(Record(b))
    BY <2>2, RecordsWhole, Zenon
  <2>4. mst => \A a, b \in Buffers : Record(a) = Record(b) => place[p][a] = place[p][b]
    BY <2>2, RecordsWhole
  <2> QED
    BY <2>1, <2>3, <2>4, Zenon
<1>6. Filled(p)'
  <2>1. place[p][i[p]] \notin {"data", "tail"} => Expected(p, i[p]) = "zero"
    BY Zenon DEF Expected
  <2> QED
    BY <1>1, <1>2, <1>3, <1>4, <2>1 DEF ReadInOrder, Filled
<1>7. Wanted(p)'
  <2>1. \A b \in Buffers : io[p][b] = "none"
    BY LoopIsQuiet, Zenon
  <2> QED
    BY <1>1, <1>2, <1>3, <2>1, Zenon DEF ReadInOrder, Wanted
<1>8. FixedTogether(p)'
  BY <1>1, <1>3, <1>4 DEF ReadInOrder, FixedTogether
<1>9. Settled(p)'
  <2> SUFFICES ASSUME mst, \A b \in Buffers : io[p][b] \in {"none", "fixed"},
                      NEW b \in Buffers, place[p][b] = "data",
                      Sectors(Record(b)) \subseteq uptodate'[p]
               PROVE  content'[p][b] = Expected(p, b)
    BY <1>2, <1>3 DEF Settled
  <2>1. i[p] \notin Sectors(Record(b))
    BY <1>5
  <2>2. Sectors(Record(b)) \subseteq uptodate[p] /\ b # i[p]
    BY <1>5, <2>1, Zenon
  <2> QED
    BY <1>1, <1>4, <2>2, Zenon DEF ReadInOrder, Settled
<1>10. Walked(p)'
  <2>1. \A b \in Buffers : b \in Nat
    BY RecordsWhole, Zenon DEF ReadInv
  <2>2. \A b \in Buffers : b < i[p] => b \in uptodate[p] \cup arr[p] \/ pageError[p]
    BY <1>1, Zenon DEF ReadInOrder, Walked, InLoop
  <2>3. \A b \in Buffers : b < i[p] + 1 => b < i[p] \/ b = i[p]
    BY <2>1
  <2>4. \A b \in Buffers : b < i'[p] => b \in uptodate'[p] \cup arr'[p] \/ pageError'[p]
    BY <2>2, <2>3, Zenon
  <2> QED
    BY <1>3, <2>4, Zenon DEF Walked
<1>11. ~pageUptodate'[p]
  BY LoopIsQuiet, Zenon
<1> QED
  BY <1>6, <1>7, <1>8, <1>9, <1>10, <1>11, Zenon DEF ReadInOrder

-----------------------------------------------------------------------------
(* The steps of the loop *)

(* The loop skips a buffer, locks the runlist for it, or unlocks it.       *)
LEMMA LoopReadKept ==
  ASSUME ReadInv, FinisherInv', NEW p \in Pages,
         SkipBuffer(p) \/ LockRunlist(p) \/ UnlockToMap(p)
  PROVE  ReadInv'
<1>1. pc[p] \in InLoop /\ i[p] \in Buffers /\ pc \in [Pages -> Labels]
  BY Zenon DEF SkipBuffer, LockRunlist, UnlockToMap, At, InLoop, ReadInv, FinisherInv
<1>2. p \in shape.pages
  BY <1>1, Zenon DEF InLoop, ReadInv, FinisherInv, Marked
<1>3. UNCHANGED <<shape, place, io, mapped, uptodate, content, locked, pageUptodate, pageError>>
  BY Zenon DEF SkipBuffer, LockRunlist, UnlockToMap, page
<1>4. ReadTypes /\ i \in [Pages -> Nat] /\ arr \in [Pages -> SUBSET Buffers]
  BY Zenon DEF ReadInv, ReadTypes, FinisherInv
<1>5. CASE SkipBuffer(p)
  <2>1. i' = [i EXCEPT ![p] = @ + 1] /\ pc' = pc /\ pc[p] = "loop"
    BY <1>5, Zenon DEF SkipBuffer, Advance, At
  <2>2. arr' = IF i[p] \in uptodate[p] THEN arr ELSE [arr EXCEPT ![p] = @ \cup {i[p]}]
    BY <1>5, Zenon DEF SkipBuffer
  <2>3. ReadTypes'
    <3>1. i' \in [Pages -> Nat]
      BY <1>4, <2>1
    <3> QED
      BY <1>3, <1>4, <3>1, TypesKept, Zenon DEF ReadTypes
  <2>4. Frame(p)
    BY <1>3, <1>4, <2>1, <2>2, <2>3, Zenon DEF Frame
  <2>5. i[p] \in uptodate[p] \/ place[p][i[p]] \in {"data", "tail"}
    BY <1>1, <1>2, <1>5, Zenon DEF SkipBuffer, ReadInv, ReadInOrder, Wanted
  <2>6. ReadInOrder(p)'
    <3>1. i'[p] = i[p] + 1 /\ pc'[p] = "loop"
      BY <1>4, <2>1, Zenon
    <3>2. CASE i[p] \in uptodate[p]
      BY <1>1, <1>2, <1>3, <2>2, <2>4, <3>1, <3>2, Noted, Zenon
    <3>3. CASE i[p] \notin uptodate[p]
      <4>1. arr'[p] = arr[p] \cup {i[p]} /\ mapped'[p] \subseteq mapped[p] \cup {i[p]}
        BY <1>3, <1>4, <2>2, <3>3, Zenon
      <4> QED
        BY <1>1, <1>2, <1>3, <2>4, <2>5, <3>1, <3>3, <4>1, Noted, Zenon
    <3> QED
      BY <3>2, <3>3, Zenon
  <2> QED
    BY <1>2, <2>4, <2>6, PageStep, Zenon
<1>6. CASE LockRunlist(p) \/ UnlockToMap(p)
  <2>1. /\ i' = i /\ arr' = arr
        /\ \E l \in {"lookup", "map"} : pc' = [pc EXCEPT ![p] = l]
    BY <1>6, Zenon DEF LockRunlist, UnlockToMap, Goto
  <2>2. pc[p] \in {"relock", "lookup", "map"} \/ i[p] \notin uptodate[p]
    BY <1>6, Zenon DEF LockRunlist, UnlockToMap, At
  <2>3. i[p] \notin uptodate[p]
    BY <1>2, <2>2, Zenon DEF ReadInv, ReadInOrder, Walked
  <2>4. ReadTypes'
    BY <1>3, <1>4, <2>1, TypesKept, Zenon DEF ReadTypes
  <2>5. Frame(p) /\ pc'[p] \in {"relock", "lookup", "map"}
    BY <1>1, <1>3, <2>1, <2>4, Zenon DEF Frame
  <2>6. ReadInOrder(p)'
    BY <1>1, <1>2, <1>3, <2>1, <2>3, <2>5, Waited, Zenon
  <2> QED
    BY <1>2, <2>5, <2>6, PageStep, Zenon
<1> QED
  BY <1>5, <1>6, Zenon

(* A block without data is zeroed.                                         *)
LEMMA ZeroReadKept ==
  ASSUME ReadInv, FinisherInv', NEW p \in Pages, pc[p] \in InLoop, i[p] \in Buffers,
         i[p] \notin uptodate[p],
         UNCHANGED <<shape, place, io, arr, locked, pageUptodate>>,
         content' = [content EXCEPT ![p][i[p]] = "zero"],
         pc' = [pc EXCEPT ![p] = "loop"],
         i' = [i EXCEPT ![p] = @ + 1],
         \/ /\ place[p][i[p]] \notin {"data", "tail"}
            /\ uptodate' = [uptodate EXCEPT ![p] = @ \cup {i[p]}]
            /\ pageError' = pageError
            /\ mapped' = mapped \/ mapped' = [mapped EXCEPT ![p] = @ \cup {i[p]}]
         \/ uptodate' = uptodate /\ pageError' = [pageError EXCEPT ![p] = TRUE] /\ mapped' = mapped
  PROVE  ReadInv'
<1>1. p \in shape.pages
  BY Zenon DEF InLoop, ReadInv, FinisherInv, Marked
<1>2. /\ ReadTypes /\ i \in [Pages -> Nat] /\ pc \in [Pages -> Labels]
      /\ mapped \in [Pages -> SUBSET Buffers] /\ uptodate \in [Pages -> SUBSET Buffers]
      /\ pageUptodate \in [Pages -> BOOLEAN] /\ pageError \in [Pages -> BOOLEAN]
      /\ content \in [Pages -> [Buffers -> {"none", "zero", "raw", "tail", "fixed"}]]
  BY Zenon DEF ReadInv, ReadTypes, FinisherInv
<1>3. ReadTypes'
  <2>1. i' \in [Pages -> Nat]
    BY <1>2
  <2>2. mapped' \in [Pages -> SUBSET Buffers]
    <3>1. mapped' = mapped \/ mapped' = [mapped EXCEPT ![p] = @ \cup {i[p]}]
      BY Zenon
    <3>2. [mapped EXCEPT ![p] = @ \cup {i[p]}] \in [Pages -> SUBSET Buffers]
      BY <1>2, BufferAdded, Zenon
    <3> QED
      BY <1>2, <3>1, <3>2, Zenon
  <2>3. uptodate' \in [Pages -> SUBSET Buffers] /\ pageUptodate' \in [Pages -> BOOLEAN]
    BY <1>2
  <2>4. pageError' \in [Pages -> BOOLEAN]
    BY <1>2, Zenon
  <2>5. content' \in [Pages -> [Buffers -> {"none", "zero", "raw", "tail", "fixed"}]]
    BY <1>2, Zenon
  <2> QED
    BY <1>2, <2>1, <2>2, <2>3, <2>4, <2>5, TypesKept, Zenon
<1>4. Frame(p)
  BY <1>2, <1>3, Zenon DEF Frame
<1>5. /\ content'[p] = [content[p] EXCEPT ![i[p]] = "zero"]
      /\ pc'[p] = "loop" /\ i'[p] = i[p] + 1
  BY <1>2, Zenon
<1>6. UNCHANGED <<io, arr, locked, pageUptodate>>
  BY Zenon
<1>7. CASE pageError' = pageError /\ uptodate' # uptodate
  <2>1. /\ place[p][i[p]] \notin {"data", "tail"}
        /\ uptodate'[p] = uptodate[p] \cup {i[p]}
        /\ mapped'[p] \subseteq mapped[p] \cup {i[p]}
    BY <1>2, <1>7, Zenon
  <2>2. pageError'[p] = pageError[p]
    BY <1>7, Zenon
  <2>3. ReadInOrder(p)'
    BY <1>1, <1>4, <1>5, <1>6, <2>1, <2>2, Zeroed, Zenon
  <2> QED
    BY <1>1, <1>4, <2>3, PageStep, Zenon
<1>8. CASE uptodate' = uptodate
  <2>1. pageError' = [pageError EXCEPT ![p] = TRUE] /\ mapped' = mapped
    <3>1. uptodate'[p] # uptodate[p] \cup {i[p]}
      BY <1>8, Zenon
    <3>2. uptodate' # [uptodate EXCEPT ![p] = @ \cup {i[p]}]
      BY <1>2, <3>1, Zenon
    <3> QED
      BY <3>2, Zenon
  <2>2. pageError'[p] = TRUE /\ mapped'[p] = mapped[p] /\ uptodate'[p] = uptodate[p]
    BY <1>2, <1>8, <2>1, Zenon
  <2>3. ReadInOrder(p)'
    BY <1>1, <1>4, <1>5, <1>6, <2>2, Zeroed, Zenon
  <2> QED
    BY <1>1, <1>4, <2>3, PageStep, Zenon
<1> QED
  BY <1>7, <1>8, Zenon

(* A buffer beyond the allocation, or one that failed, is zeroed.          *)
LEMMA LoopZeroKept ==
  ASSUME ReadInv, FinisherInv', NEW p \in Pages, OutsideBuffer(p) \/ LookupFailed(p)
  PROVE  ReadInv'
<1>1. pc[p] \in InLoop /\ i[p] \in Buffers /\ pc \in [Pages -> Labels]
  BY Zenon DEF OutsideBuffer, LookupFailed, At, InLoop, ReadInv, FinisherInv
<1>2. p \in shape.pages
  BY <1>1, Zenon DEF InLoop, ReadInv, FinisherInv, Marked
<1>3. UNCHANGED <<shape, place, io, arr, locked, pageUptodate>> /\ mapped' = mapped
  BY Zenon DEF OutsideBuffer, LookupFailed, HardError, page
<1>4. /\ content' = [content EXCEPT ![p][i[p]] = "zero"]
      /\ i' = [i EXCEPT ![p] = @ + 1]
  BY Zenon DEF OutsideBuffer, LookupFailed, HardError, Zero, Advance
<1>5. CASE OutsideBuffer(p)
  <2>1. /\ uptodate' = [uptodate EXCEPT ![p] = @ \cup {i[p]}] /\ pageError' = pageError
        /\ place[p][i[p]] = "outside" /\ i[p] \notin uptodate[p]
        /\ pc[p] = "loop" /\ pc' = pc
    BY <1>5, Zenon DEF OutsideBuffer, Zero, At, page
  <2>2. pc' = [pc EXCEPT ![p] = "loop"]
    BY <1>1, <2>1, Zenon
  <2>3. place[p][i[p]] \notin {"data", "tail"}
    BY <2>1, Zenon
  <2> QED
    BY <1>1, <1>3, <1>4, <2>1, <2>2, <2>3, ZeroReadKept, Zenon
<1>6. CASE LookupFailed(p)
  <2>1. /\ uptodate' = uptodate /\ pageError' = [pageError EXCEPT ![p] = TRUE]
        /\ pc[p] = "lookup" /\ pc' = [pc EXCEPT ![p] = "loop"]
    BY <1>6, Zenon DEF LookupFailed, HardError, Zero, Goto
  <2>2. i[p] \notin uptodate[p]
    BY <1>2, <2>1, Zenon DEF ReadInv, ReadInOrder, Walked
  <2> QED
    BY <1>1, <1>3, <1>4, <2>1, <2>2, ZeroReadKept, Zenon
<1> QED
  BY <1>5, <1>6, Zenon

(* The runlist says where the block is: it is noted for the read, or there *)
(* is nothing to read.                                                     *)
LEMMA LookupReadKept ==
  ASSUME ReadInv, FinisherInv', NEW p \in Pages, LookupBuffer(p)
  PROVE  ReadInv'
<1>1. /\ pc[p] = "lookup" /\ pc[p] \in InLoop /\ i[p] \in Buffers
      /\ pc' = [pc EXCEPT ![p] = "loop"] /\ i' = [i EXCEPT ![p] = @ + 1]
      /\ pc \in [Pages -> Labels]
  BY Zenon DEF LookupBuffer, At, Advance, InLoop, ReadInv, FinisherInv
<1>2. p \in shape.pages
  BY <1>1, Zenon DEF InLoop, ReadInv, FinisherInv, Marked
<1>3. i[p] \notin uptodate[p]
  BY <1>1, <1>2, Zenon DEF ReadInv, ReadInOrder, Walked
<1>4. /\ UNCHANGED <<shape, place, io, locked, pageUptodate>> /\ pageError' = pageError
      /\ mapped' = mapped \/ mapped' = [mapped EXCEPT ![p] = @ \cup {i[p]}]
  BY Zenon DEF LookupBuffer, page
<1>5. CASE place[p][i[p]] \in {"data", "tail"}
  <2>1. arr' = [arr EXCEPT ![p] = @ \cup {i[p]}] /\ content' = content /\ uptodate' = uptodate
    BY <1>5, Zenon DEF LookupBuffer
  <2>2. /\ ReadTypes /\ i \in [Pages -> Nat] /\ arr \in [Pages -> SUBSET Buffers]
        /\ mapped \in [Pages -> SUBSET Buffers] /\ uptodate \in [Pages -> SUBSET Buffers]
        /\ pageUptodate \in [Pages -> BOOLEAN] /\ pageError \in [Pages -> BOOLEAN]
        /\ content \in [Pages -> [Buffers -> {"none", "zero", "raw", "tail", "fixed"}]]
    BY Zenon DEF ReadInv, ReadTypes, FinisherInv
  <2>3. ReadTypes'
    <3>1. i' \in [Pages -> Nat] /\ mapped' \in [Pages -> SUBSET Buffers]
      BY <1>1, <1>4, <2>2
    <3> QED
      BY <1>4, <2>1, <2>2, <3>1, TypesKept, Zenon
  <2>4. Frame(p)
    BY <1>1, <1>4, <2>1, <2>2, <2>3, Zenon DEF Frame
  <2>5. /\ pc'[p] = "loop" /\ i'[p] = i[p] + 1 /\ arr'[p] = arr[p] \cup {i[p]}
        /\ mapped'[p] \subseteq mapped[p] \cup {i[p]}
    BY <1>1, <1>4, <2>1, <2>2, Zenon
  <2>6. UNCHANGED <<io, uptodate, content, locked, pageUptodate, pageError>>
    BY <1>4, <2>1, Zenon
  <2>7. ReadInOrder(p)'
    BY <1>1, <1>2, <1>3, <1>5, <2>4, <2>5, <2>6, Noted, Zenon
  <2> QED
    BY <1>2, <2>4, <2>7, PageStep, Zenon
<1>6. CASE place[p][i[p]] \notin {"data", "tail"}
  <2>1. /\ arr' = arr /\ content' = [content EXCEPT ![p][i[p]] = "zero"]
        /\ uptodate' = [uptodate EXCEPT ![p] = @ \cup {i[p]}]
    BY <1>6, Zenon DEF LookupBuffer, Zero
  <2>2. UNCHANGED <<shape, place, io, arr, locked, pageUptodate>>
    BY <1>4, <2>1, Zenon
  <2> QED
    BY <1>1, <1>3, <1>4, <1>6, <2>1, <2>2, ZeroReadKept, Zenon
<1> QED
  BY <1>5, <1>6, Zenon

(* After the mapping the buffer is looked up again, or it is zeroed: a     *)
(* hole, or an error.                                                      *)
LEMMA MapReadKept ==
  ASSUME ReadInv, FinisherInv', NEW p \in Pages, MapRunlist(p)
  PROVE  ReadInv'
<1>1. /\ pc[p] = "map" /\ pc[p] \in InLoop /\ i[p] \in Buffers
      /\ pc \in [Pages -> Labels]
  BY Zenon DEF MapRunlist, At, InLoop, ReadInv, FinisherInv
<1>2. p \in shape.pages
  BY <1>1, Zenon DEF InLoop, ReadInv, FinisherInv, Marked
<1>3. i[p] \notin uptodate[p]
  BY <1>1, <1>2, Zenon DEF ReadInv, ReadInOrder, Walked
<1>4. UNCHANGED <<shape, place, io, arr, locked, pageUptodate>> /\ mapped' = mapped
  BY Zenon DEF MapRunlist, HardError, page
<1>5. CASE pc' = [pc EXCEPT ![p] = "relock"] /\ UNCHANGED <<i, uptodate, content, page>>
  <2>1. UNCHANGED <<i, arr, io, mapped, uptodate, content, locked, pageUptodate, pageError>>
    BY <1>4, <1>5, Zenon DEF page
  <2>2. ReadTypes'
    BY <1>4, <2>1, TypesKept, Zenon DEF ReadInv, ReadTypes
  <2>3. Frame(p) /\ pc'[p] \in {"relock", "lookup", "map"}
    BY <1>1, <1>4, <1>5, <2>1, <2>2, Zenon DEF Frame
  <2>4. ReadInOrder(p)'
    BY <1>1, <1>2, <1>3, <2>1, <2>3, Waited, Zenon
  <2> QED
    BY <1>2, <2>3, <2>4, PageStep, Zenon
<1>6. CASE /\ pc' = [pc EXCEPT ![p] = "loop"] /\ i' = [i EXCEPT ![p] = @ + 1]
           /\ \/ place[p][i[p]] = "hole" /\ Zero(p, TRUE) /\ UNCHANGED page
              \/ HardError(p)
  <2>1. content' = [content EXCEPT ![p][i[p]] = "zero"]
    BY <1>6, Zenon DEF HardError, Zero
  <2>2. \/ /\ place[p][i[p]] = "hole"
           /\ uptodate' = [uptodate EXCEPT ![p] = @ \cup {i[p]}] /\ pageError' = pageError
        \/ uptodate' = uptodate /\ pageError' = [pageError EXCEPT ![p] = TRUE]
    BY <1>6, Zenon DEF HardError, Zero, page
  <2>3. place[p][i[p]] = "hole" => place[p][i[p]] \notin {"data", "tail"}
    BY Zenon
  <2> QED
    BY <1>1, <1>3, <1>4, <1>6, <2>1, <2>2, <2>3, ZeroReadKept, Zenon
<1> QED
  BY <1>5, <1>6, Zenon DEF MapRunlist, Advance

-----------------------------------------------------------------------------
(* The number of buffers of a page does not change.                        *)
LEMMA BuffersKept == [Next]_vars => Buffers' = Buffers
<1> SUFFICES ASSUME [Next]_vars PROVE shape' = shape
  BY Zenon DEF Buffers
<1>1. CASE UNCHANGED vars
  BY <1>1, Zenon DEF vars
<1>2. ASSUME NEW p \in Pages, ReadPage(p) \/ Reclaim(p) PROVE shape' = shape
  BY <1>2, Zenon DEF ReadPage, Reclaim
<1>3. ASSUME NEW p \in Pages, Task(p) PROVE shape' = shape
  BY <1>3, Zenon DEF Task, ReadBeyond, SkipBuffer, OutsideBuffer, LockRunlist, LookupBuffer,
     UnlockToMap, LookupFailed, MapRunlist, EndLoop, Submit
<1>4. ASSUME NEW p \in Pages, NEW b \in Buffers, Completion(p, b) PROVE shape' = shape
  BY <1>4, Zenon DEF Completion, EndIO, EndAsync, FixupPage, FinishPage
<1> QED
  BY <1>1, <1>2, <1>3, <1>4, Zenon DEF Next

(* The loop of the task touches neither the I/O nor the lock.              *)
LEMMA LoopKeepsFinisher ==
  ASSUME NEW p \in Pages, FinisherInv, Buffers' = Buffers,
         UNCHANGED <<io, async, locked>>,
         pc[p] \in {"loop", "relock", "lookup", "map"},
         pc' = pc \/ \E l \in {"loop", "relock", "lookup", "map"} : pc' = [pc EXCEPT ![p] = l],
         arr' \in [Pages -> SUBSET Buffers],
         \A q \in Pages \ {p} : arr'[q] = arr[q]
  PROVE  FinisherInv'
<1>1. pc' \in [Pages -> Labels]
  BY Zenon DEF FinisherInv, Labels
<1>2. ASSUME NEW q \in Pages PROVE Marked(q)'
  BY <1>2 DEF FinisherInv, Marked, Labels
<1> QED
  BY <1>1, <1>2, Zenon DEF FinisherInv

(* Every step keeps what is known of the finishers.                        *)
LEMMA FinisherKept == FinisherInv /\ [Next]_vars => FinisherInv'
<1> SUFFICES ASSUME FinisherInv, [Next]_vars PROVE FinisherInv'
  BY Zenon
<1>0. Buffers' = Buffers
  BY BuffersKept, Zenon
<1>1. ASSUME NEW p \in Pages, ReadPage(p) PROVE FinisherInv'
  BY <1>0, <1>1 DEF ReadPage, Goto, FinisherInv, Marked, Labels
<1>2. ASSUME NEW p \in Pages, Reclaim(p) PROVE FinisherInv'
  BY <1>0, <1>2 DEF Reclaim, task, FinisherInv, Marked, Labels, Stages
<1>3. ASSUME NEW p \in Pages, ReadBeyond(p) PROVE FinisherInv'
  BY <1>0, <1>3 DEF ReadBeyond, Goto, Finish, FinisherInv, Marked, Labels
<1>4. ASSUME NEW p \in Pages,
             SkipBuffer(p) \/ OutsideBuffer(p) \/ LockRunlist(p) \/ LookupBuffer(p)
             \/ UnlockToMap(p) \/ LookupFailed(p) \/ MapRunlist(p)
      PROVE FinisherInv'
  <2>1. UNCHANGED <<io, async, locked>>
    BY <1>4, Zenon DEF SkipBuffer, OutsideBuffer, LockRunlist, LookupBuffer, UnlockToMap,
       LookupFailed, MapRunlist, HardError, page
  <2>2. /\ pc[p] \in {"loop", "relock", "lookup", "map"}
        /\ pc' = pc \/ \E l \in {"loop", "relock", "lookup", "map"} : pc' = [pc EXCEPT ![p] = l]
    BY <1>4, Zenon DEF SkipBuffer, OutsideBuffer, LockRunlist, LookupBuffer, UnlockToMap,
       LookupFailed, MapRunlist, At, Goto
  <2>3. arr' = arr \/ (i[p] \in Buffers /\ arr' = [arr EXCEPT ![p] = @ \cup {i[p]}])
    BY <1>4, Zenon DEF SkipBuffer, OutsideBuffer, LockRunlist, LookupBuffer, UnlockToMap,
       LookupFailed, MapRunlist, At
  <2>4. arr' \in [Pages -> SUBSET Buffers] /\ \A q \in Pages \ {p} : arr'[q] = arr[q]
    BY <2>3 DEF FinisherInv
  <2> QED
    BY <1>0, <2>1, <2>2, <2>4, LoopKeepsFinisher, Zenon
<1>5. ASSUME NEW p \in Pages, EndLoop(p) PROVE FinisherInv'
  <2>1. CASE arr[p] = {}
    <3>1. /\ pc' = [pc EXCEPT ![p] = "idle"] /\ pc[p] = "loop"
          /\ locked' = [locked EXCEPT ![p] = FALSE]
          /\ UNCHANGED <<io, async, arr>>
      BY <1>5, <2>1, Zenon DEF EndLoop, Finish
    <3> QED
      BY <1>0, <3>1 DEF FinisherInv, Marked, Labels
  <2>2. CASE arr[p] # {}
    <3>1. /\ pc' = [pc EXCEPT ![p] = "submit"] /\ pc[p] = "loop"
          /\ async' = [async EXCEPT ![p] = arr[p]]
          /\ io' = [io EXCEPT ![p] = [b \in Buffers |-> IF b \in arr[p] THEN "queued" ELSE "none"]]
          /\ UNCHANGED <<locked, arr>>
      BY <1>5, <2>2, Zenon DEF EndLoop, page
    <3>2. ASSUME NEW q \in Pages PROVE Marked(q)'
      BY <1>0, <2>2, <3>1 DEF FinisherInv, Marked, Labels, Stages
    <3> QED
      BY <1>0, <3>1, <3>2, Zenon DEF FinisherInv, Labels, Stages
  <2> QED
    BY <2>1, <2>2, Zenon
<1>6. ASSUME NEW p \in Pages, Submit(p) PROVE FinisherInv'
  <2>1. PICK b \in arr[p] : /\ pc[p] = "submit"
                            /\ io' = [io EXCEPT ![p][b] = "flight"]
                            /\ arr' = [arr EXCEPT ![p] = @ \ {b}]
                            /\ pc' = [pc EXCEPT ![p] = IF arr[p] = {b} THEN "idle" ELSE "submit"]
                            /\ UNCHANGED <<async, locked>>
    BY <1>6, Zenon DEF Submit, page
  <2>2. b \in Buffers /\ arr[p] \subseteq Buffers
    BY <2>1, Zenon DEF FinisherInv
  <2>3. ASSUME NEW q \in Pages PROVE Marked(q)'
    <3>1. CASE q # p
      BY <1>0, <2>1, <2>2, <3>1 DEF FinisherInv, Marked
    <3>2. CASE q = p
      BY <1>0, <2>1, <2>2, <3>2 DEF FinisherInv, Marked, Labels, Stages
    <3> QED
      BY <3>1, <3>2, Zenon
  <2> QED
    BY <1>0, <2>1, <2>2, <2>3, Zenon DEF FinisherInv, Labels, Stages
<1>7. ASSUME NEW p \in Pages, NEW b \in Buffers, EndIO(p, b) PROVE FinisherInv'
  BY <1>0, <1>7 DEF EndIO, task, FinisherInv, Marked, Labels, Stages
<1>8. ASSUME NEW p \in Pages, NEW b \in Buffers, EndAsync(p, b) PROVE FinisherInv'
  <2>1. ASSUME NEW q \in Pages PROVE Marked(q)'
    BY <1>0, <1>8 DEF EndAsync, task, page, FinisherInv, Marked, Labels, Stages
  <2> QED
    BY <1>0, <1>8, <2>1, Zenon DEF EndAsync, task, page, FinisherInv, Stages
<1>9. ASSUME NEW p \in Pages, NEW b \in Buffers, FixupPage(p, b) PROVE FinisherInv'
  BY <1>0, <1>9 DEF FixupPage, task, page, FinisherInv, Marked, Labels, Stages
<1>10. ASSUME NEW p \in Pages, NEW b \in Buffers, FinishPage(p, b) PROVE FinisherInv'
  BY <1>0, <1>10 DEF FinishPage, Finish, task, FinisherInv, Marked, Labels, Stages
<1>11. CASE UNCHANGED vars
  BY <1>0, <1>11 DEF vars, task, page, FinisherInv, Marked
<1> QED
  BY <1>1, <1>2, <1>3, <1>4, <1>5, <1>6, <1>7, <1>8, <1>9, <1>10, <1>11, Zenon
  DEF Next, Task, Completion

(* Of the completions of a page, on whatever CPUs, the last one finishes   *)
(* it and no other: the page is unlocked once, and not under I/O           *)
(* (ntfs_end_buffer_async_read()).                                         *)
THEOREM OneFinishes == Spec => []OneFinisher
<1>1. Init => FinisherInv
  BY DEF Init, FinisherInv, Marked, Labels, Stages
<1>2. FinisherInv => OneFinisher
  BY DEF FinisherInv, Marked, OneFinisher, Busy, Labels, Stages
<1> QED
  BY <1>1, <1>2, FinisherKept, PTL DEF Spec

-----------------------------------------------------------------------------
(* A step for one page leaves what the others hold as it is.               *)
LEMMA OthersStay ==
  ASSUME NEW p \in Pages,
         content \in [Pages -> [Buffers -> {"none", "zero", "raw", "tail", "fixed"}]],
         DOMAIN baad = Pages,
         ReadPage(p) \/ Reclaim(p) \/ Task(p) \/ \E b \in Buffers : Completion(p, b)
  PROVE  /\ DOMAIN baad' = Pages
         /\ \A q \in Pages \ {p} : content'[q] = content[q] /\ baad'[q] = baad[q]
<1>1. CASE ReadPage(p)
  BY <1>1, Zenon DEF ReadPage
<1>2. CASE Reclaim(p)
  BY <1>2, Zenon DEF Reclaim
<1>3. ASSUME Task(p)
      PROVE baad' = baad /\ \A q \in Pages \ {p} : content'[q] = content[q]
  <2>1. CASE ReadBeyond(p)
    BY <2>1, Zenon DEF ReadBeyond
  <2>2. CASE SkipBuffer(p) \/ LockRunlist(p) \/ UnlockToMap(p) \/ EndLoop(p) \/ Submit(p)
    BY <2>2, Zenon DEF SkipBuffer, LockRunlist, UnlockToMap, EndLoop, Submit
  <2>3. CASE OutsideBuffer(p)
    BY <2>3, Zenon DEF OutsideBuffer, Zero
  <2>4. CASE LookupBuffer(p)
    BY <2>4, Zenon DEF LookupBuffer, Zero
  <2>5. CASE LookupFailed(p)
    BY <2>5, Zenon DEF LookupFailed, HardError, Zero
  <2>6. CASE MapRunlist(p)
    BY <2>6, Zenon DEF MapRunlist, HardError, Zero
  <2> QED
    BY <1>3, <2>1, <2>2, <2>3, <2>4, <2>5, <2>6, Zenon DEF Task
<1>4. ASSUME NEW b \in Buffers, Completion(p, b)
      PROVE  /\ DOMAIN baad' = Pages
             /\ \A q \in Pages \ {p} : content'[q] = content[q] /\ baad'[q] = baad[q]
  <2>1. CASE EndIO(p, b) \/ EndAsync(p, b) \/ FinishPage(p, b)
    BY <2>1, Zenon DEF EndIO, EndAsync, FinishPage
  <2>2. CASE FixupPage(p, b)
    BY <2>2, Zenon DEF FixupPage
  <2> QED
    BY <1>4, <2>1, <2>2, Zenon DEF Completion
<1> QED
  BY <1>1, <1>2, <1>3, <1>4, Zenon

-----------------------------------------------------------------------------
(* What the buffers of a page hold stays in order as long as neither they  *)
(* nor their flags change and no I/O is forgotten.                         *)
LEMMA DataKept ==
  ASSUME NEW p, ReadInOrder(p), UNCHANGED <<shape, place>>,
         content'[p] = content[p], uptodate'[p] = uptodate[p],
         (\A b \in Buffers : io'[p][b] \in {"none", "fixed"}) =>
           \A b \in Buffers : io[p][b] \in {"none", "fixed"}
  PROVE  Filled(p)' /\ FixedTogether(p)' /\ Settled(p)'
<1>1. /\ Buffers' = Buffers /\ mst' = mst
      /\ \A b : Record(b)' = Record(b)
      /\ \A r : Sectors(r)' = Sectors(r)
      /\ \A b : Expected(p, b)' = Expected(p, b)
  BY LayoutKept, Zenon
<1>2. Filled(p)' /\ FixedTogether(p)'
  BY <1>1 DEF ReadInOrder, Filled, FixedTogether
<1>3. Settled(p)'
  BY <1>1, Zenon DEF ReadInOrder, Settled
<1> QED
  BY <1>2, <1>3, Zenon

(* The page cache hands out a page.                                        *)
LEMMA ReadPageKept ==
  ASSUME ReadInv, FinisherInv', NEW p \in Pages, ReadPage(p)
  PROVE  ReadInv'
<1>1. /\ p \in shape.pages /\ pc[p] = "idle" /\ ~pageUptodate[p]
      /\ UNCHANGED <<shape, place, i, arr, io, mapped, uptodate, pageUptodate, content>>
      /\ locked' = [locked EXCEPT ![p] = TRUE]
  BY Zenon DEF ReadPage, Goto
<1>2. pageError' = pageError \/ pageError' = [pageError EXCEPT ![p] = FALSE]
  BY Zenon DEF ReadPage
<1>3. \/ pc' = [pc EXCEPT ![p] = "beyond"] /\ \A b \in Buffers : place[p][b] = "outside"
      \/ pc' = [pc EXCEPT ![p] = "loop"]
  BY Zenon DEF ReadPage, Goto
<1>4. /\ ReadTypes /\ pc \in [Pages -> Labels] /\ locked \in [Pages -> BOOLEAN]
      /\ pageError \in [Pages -> BOOLEAN] /\ ReadInOrder(p)
  BY <1>1, Zenon DEF ReadInv, ReadTypes, FinisherInv
<1>5. ReadTypes'
  <2>1. pageError' \in [Pages -> BOOLEAN]
    BY <1>2, <1>4, Zenon
  <2> QED
    BY <1>1, <1>4, <2>1, TypesKept, Zenon DEF ReadTypes
<1>6. Frame(p)
  <2>1. \A q \in Pages \ {p} : locked'[q] = locked[q] /\ pageError'[q] = pageError[q]
    BY <1>1, <1>2, <1>4, Zenon
  <2>2. \A q \in Pages \ {p} : pc'[q] = pc[q]
    BY <1>3, <1>4, Zenon
  <2> QED
    BY <1>1, <1>5, <2>1, <2>2, Zenon DEF Frame
<1>7. Filled(p)' /\ FixedTogether(p)' /\ Settled(p)'
  BY <1>1, <1>4, DataKept, Zenon
<1>8. Buffers' = Buffers
  BY <1>1, Zenon DEF Buffers
<1>9. Wanted(p)'
  BY <1>1, <1>4, <1>8, Zenon DEF ReadInOrder, Wanted
<1>10. Walked(p)'
  <2>1. arr[p] = {} /\ i[p] = 1
    BY <1>1, <1>4, Zenon DEF ReadInOrder, Walked
  <2>2. \A b \in Buffers : ~(b < 1)
    BY RecordsWhole, <1>1, <1>4 DEF Buffers
  <2>3. \/ pc'[p] = "beyond" /\ \A b \in Buffers : place[p][b] = "outside"
        \/ pc'[p] = "loop"
    BY <1>3, <1>4, Zenon
  <2> QED
    BY <1>1, <1>8, <2>1, <2>2, <2>3, Zenon DEF Walked
<1>11. ~pageUptodate'[p]
  BY <1>1, Zenon
<1>12. ReadInOrder(p)'
  BY <1>7, <1>9, <1>10, <1>11, Zenon DEF ReadInOrder
<1> QED
  BY <1>1, <1>6, <1>12, PageStep, Zenon

(* A page beyond the end is zeroed.                                        *)
LEMMA BeyondKept ==
  ASSUME ReadInv, FinisherInv', NEW p \in Pages, ReadBeyond(p)
  PROVE  ReadInv'
<1>1. /\ pc[p] = "beyond" /\ pc' = [pc EXCEPT ![p] = "idle"]
      /\ content' = [content EXCEPT ![p] = [b \in Buffers |-> "zero"]]
      /\ pageUptodate' = [pageUptodate EXCEPT ![p] = TRUE]
      /\ locked' = [locked EXCEPT ![p] = FALSE]
      /\ UNCHANGED <<shape, place, i, arr, io, mapped, uptodate, pageError>>
  BY Zenon DEF ReadBeyond, Goto, Finish
<1>2. p \in shape.pages
  BY <1>1, Zenon DEF ReadInv, FinisherInv, Marked
<1>3. /\ ReadTypes /\ ReadInOrder(p) /\ pc \in [Pages -> Labels] /\ locked \in [Pages -> BOOLEAN]
      /\ pageUptodate \in [Pages -> BOOLEAN]
      /\ content \in [Pages -> [Buffers -> {"none", "zero", "raw", "tail", "fixed"}]]
  BY <1>2, Zenon DEF ReadInv, ReadTypes, FinisherInv
<1>4. ReadTypes'
  <2>1. pageUptodate' \in [Pages -> BOOLEAN]
    BY <1>1, <1>3, Zenon
  <2>2. content' \in [Pages -> [Buffers -> {"none", "zero", "raw", "tail", "fixed"}]]
    BY <1>1, <1>3, Zenon
  <2> QED
    BY <1>1, <1>3, <2>1, <2>2, TypesKept, Zenon DEF ReadTypes
<1>5. Frame(p)
  BY <1>1, <1>3, <1>4, Zenon DEF Frame
<1>6. /\ Buffers' = Buffers /\ mst' = mst
      /\ \A b : Record(b)' = Record(b)
      /\ \A r : Sectors(r)' = Sectors(r)
      /\ \A b : Expected(p, b)' = Expected(p, b)
  BY <1>1, LayoutKept, Zenon
<1>7. /\ \A b \in Buffers : place[p][b] = "outside" /\ Expected(p, b) = "zero"
      /\ arr[p] = {} /\ i[p] = 1
  BY <1>1, <1>3, Zenon DEF ReadInOrder, Walked, Expected
<1>8. pc'[p] = "idle" /\ \A b \in Buffers : content'[p][b] = "zero"
  BY <1>1, <1>3, Zenon
<1>9. Filled(p)' /\ FixedTogether(p)' /\ Settled(p)'
  BY <1>1, <1>6, <1>7, <1>8 DEF Filled, FixedTogether, Settled
<1>10. Wanted(p)'
  BY <1>1, <1>3, <1>6, Zenon DEF ReadInOrder, Wanted
<1>11. Walked(p)'
  BY <1>1, <1>7, <1>8, Zenon DEF Walked
<1>12. ~locked'[p]
  BY <1>1, <1>3, Zenon
<1>13. \A b \in Buffers' : content'[p][b] = Expected(p, b)'
  BY <1>6, <1>7, <1>8, Zenon
<1>14. ReadInOrder(p)'
  BY <1>9, <1>10, <1>11, <1>12, <1>13, Zenon DEF ReadInOrder
<1> QED
  BY <1>2, <1>5, <1>14, PageStep, Zenon

(* Once all buffers are up to date and the fixups are through, the page    *)
(* holds what it should.                                                   *)
LEMMA AllRead ==
  ASSUME ReadTypes, NEW p \in shape.pages, ReadInOrder(p), Buffers \subseteq uptodate[p],
         \A b \in Buffers : io[p][b] \in {"none", "fixed"}
  PROVE  \A b \in Buffers : content[p][b] = Expected(p, b)
<1> TAKE b \in Buffers
<1>1. Sectors(Record(b)) \subseteq uptodate[p]
  BY Zenon DEF Sectors
<1> QED
  BY <1>1, Zenon DEF ReadInOrder, Filled, Settled

(* The loop has ended: the page is finished, or its I/O begins.            *)
LEMMA EndLoopKept ==
  ASSUME ReadInv, FinisherInv', NEW p \in Pages, EndLoop(p)
  PROVE  ReadInv'
<1>1. /\ pc[p] = "loop" /\ pc[p] \in InLoop /\ i[p] = shape.nr + 1
      /\ i' = [i EXCEPT ![p] = 1]
      /\ UNCHANGED <<shape, place, arr, mapped, uptodate, content>>
      /\ pageError' = pageError
  BY Zenon DEF EndLoop, InLoop, Finish, page
<1>2. p \in shape.pages
  BY <1>1, Zenon DEF ReadInv, FinisherInv, Marked
<1>3. /\ ReadTypes /\ ReadInOrder(p) /\ pc \in [Pages -> Labels] /\ locked \in [Pages -> BOOLEAN]
      /\ pageUptodate \in [Pages -> BOOLEAN] /\ i \in [Pages -> Nat]
      /\ io \in [Pages -> [Buffers -> Stages]] /\ arr[p] \subseteq Buffers
  BY <1>2, Zenon DEF ReadInv, ReadTypes, FinisherInv
<1>4. Buffers' = Buffers /\ i' \in [Pages -> Nat] /\ i'[p] = 1
  BY <1>1, <1>3, Zenon DEF Buffers
<1>5. \A b \in Buffers : io[p][b] = "none"
  BY <1>1, <1>2, LoopIsQuiet, Zenon
<1>6. CASE arr[p] = {}
  <2>1. /\ pc' = [pc EXCEPT ![p] = "idle"] /\ io' = io
        /\ pageUptodate' = [pageUptodate EXCEPT ![p] = ~pageError[p]]
        /\ locked' = [locked EXCEPT ![p] = FALSE]
    BY <1>6, Zenon DEF EndLoop, Finish
  <2>2. ReadTypes'
    <3>1. pageUptodate' \in [Pages -> BOOLEAN]
      BY <1>3, <2>1, Zenon
    <3> QED
      BY <1>1, <1>3, <1>4, <3>1, TypesKept, Zenon DEF ReadTypes
  <2>3. Frame(p) /\ pc'[p] = "idle"
    BY <1>1, <1>3, <2>1, <2>2, Zenon DEF Frame
  <2>4. Filled(p)' /\ FixedTogether(p)' /\ Settled(p)'
    BY <1>1, <1>3, <2>1, DataKept, Zenon
  <2>5. Wanted(p)' /\ Walked(p)'
    BY <1>1, <1>3, <1>4, <1>6, <2>1, <2>3, Zenon DEF ReadInOrder, Wanted, Walked
  <2>6. ~locked'[p] /\ (pageUptodate'[p] => ~pageError[p])
    BY <1>3, <2>1, Zenon
  <2>7. ASSUME ~pageError[p] PROVE \A b \in Buffers : content[p][b] = Expected(p, b)
    <3>1. \A b \in Buffers : b < i[p]
      BY <1>1, <1>2, <1>3, PageReadAssumption DEF Buffers, ReadTypes
    <3>2. Buffers \subseteq uptodate[p]
      BY <1>1, <1>3, <1>6, <2>7, <3>1, Zenon DEF ReadInOrder, Walked
    <3> QED
      BY <1>2, <1>3, <1>5, <3>2, AllRead, Zenon
  <2>8. pageUptodate'[p] => \A b \in Buffers' : content'[p][b] = Expected(p, b)'
    <3>1. \A b : Expected(p, b)' = Expected(p, b)
      BY <1>1, LayoutKept, Zenon
    <3>2. content' = content
      BY <1>1, Zenon
    <3> QED
      BY <1>4, <2>6, <2>7, <3>1, <3>2, Zenon
  <2>9. ReadInOrder(p)'
    BY <2>4, <2>5, <2>6, <2>8, Zenon DEF ReadInOrder
  <2> QED
    BY <1>2, <2>3, <2>9, PageStep, Zenon
<1>7. CASE arr[p] # {}
  <2>1. /\ pc' = [pc EXCEPT ![p] = "submit"] /\ UNCHANGED <<locked, pageUptodate>>
        /\ io' = [io EXCEPT ![p] = [b \in Buffers |-> IF b \in arr[p] THEN "queued" ELSE "none"]]
    BY <1>7, Zenon DEF EndLoop, page
  <2>2. ReadTypes'
    BY <1>1, <1>3, <1>4, <2>1, TypesKept, Zenon DEF ReadTypes
  <2>3. Frame(p) /\ pc'[p] = "submit"
    BY <1>1, <1>3, <2>1, <2>2, Zenon DEF Frame
  <2>4. \A b \in Buffers : io'[p][b] = IF b \in arr[p] THEN "queued" ELSE "none"
    BY <1>3, <2>1, Zenon
  <2>5. Filled(p)' /\ FixedTogether(p)' /\ Settled(p)'
    <3>1. \E b \in Buffers : io'[p][b] \notin {"none", "fixed"}
      BY <1>3, <1>7, <2>4, Zenon
    <3> QED
      BY <1>1, <1>3, <3>1, DataKept, Zenon
  <2>6. Wanted(p)'
    BY <1>1, <1>3, <1>4, <2>4, Zenon DEF ReadInOrder, Wanted
  <2>7. Walked(p)'
    BY <1>4, <2>3, Zenon DEF Walked
  <2>8. ~pageUptodate'[p]
    BY <1>1, <1>2, <2>1, LoopIsQuiet, Zenon
  <2>9. ReadInOrder(p)'
    BY <2>5, <2>6, <2>7, <2>8, Zenon DEF ReadInOrder
  <2> QED
    BY <1>2, <2>3, <2>9, PageStep, Zenon
<1> QED
  BY <1>6, <1>7, Zenon

(* A buffer is submitted.                                                  *)
LEMMA SubmitKept ==
  ASSUME ReadInv, FinisherInv', NEW p \in Pages, Submit(p)
  PROVE  ReadInv'
<1>1. pc[p] = "submit" /\ p \in shape.pages
  BY Zenon DEF Submit, ReadInv, FinisherInv, Marked
<1>2. PICK b \in arr[p] :
        /\ io' = [io EXCEPT ![p][b] = "flight"] /\ arr' = [arr EXCEPT ![p] = @ \ {b}]
        /\ pc' = [pc EXCEPT ![p] = IF arr[p] = {b} THEN "idle" ELSE "submit"]
  BY Zenon DEF Submit
<1>3. UNCHANGED <<shape, place, i, mapped, uptodate, content, locked, pageUptodate, pageError>>
  BY Zenon DEF Submit, page
<1>4. /\ ReadTypes /\ ReadInOrder(p) /\ pc \in [Pages -> Labels]
      /\ io \in [Pages -> [Buffers -> Stages]] /\ arr \in [Pages -> SUBSET Buffers]
  BY <1>1, Zenon DEF ReadInv, ReadTypes, FinisherInv
<1>5. b \in Buffers /\ Buffers' = Buffers
  BY <1>2, <1>3, <1>4, Zenon DEF Buffers
<1>6. ReadTypes'
  BY <1>3, <1>4, TypesKept, Zenon DEF ReadTypes
<1>7. Frame(p)
  BY <1>2, <1>3, <1>4, <1>6, Zenon DEF Frame
<1>8. /\ \A a \in Buffers : io'[p][a] = IF a = b THEN "flight" ELSE io[p][a]
      /\ arr'[p] = arr[p] \ {b}
      /\ pc'[p] = IF arr[p] = {b} THEN "idle" ELSE "submit"
  BY <1>2, <1>4, <1>5, Zenon
<1>9. Filled(p)' /\ FixedTogether(p)' /\ Settled(p)'
  <2>1. io'[p][b] \notin {"none", "fixed"}
    BY <1>5, <1>8, ZenonT(30)
  <2> QED
    BY <1>3, <1>4, <1>5, <2>1, DataKept, Zenon
<1>10. Wanted(p)'
  BY <1>2, <1>3, <1>4, <1>5, <1>8 DEF ReadInOrder, Wanted
<1>11. Walked(p)'
  BY <1>1, <1>3, <1>4, <1>5, <1>8, Zenon DEF ReadInOrder, Walked
<1>12. ReadInOrder(p)'
  <2>1. locked' = locked /\ pageUptodate' = pageUptodate /\ content' = content
    BY <1>3, Zenon
  <2>2. \A a : Expected(p, a)' = Expected(p, a)
    BY <1>3, LayoutKept, Zenon
  <2> QED
    BY <1>4, <1>5, <1>9, <1>10, <1>11, <2>1, <2>2, Zenon DEF ReadInOrder
<1> QED
  BY <1>1, <1>7, <1>12, PageStep, Zenon

-----------------------------------------------------------------------------
(* The steps of the completions *)

(* A page with a buffer under I/O is locked, and not up to date.           *)
LEMMA BusyIsLocked ==
  ASSUME ReadInv, NEW p \in Pages, NEW b \in Buffers, io[p][b] # "none"
  PROVE  /\ p \in shape.pages /\ ~pageUptodate[p] /\ pc[p] \in {"idle", "submit"}
         /\ ReadTypes /\ Marked(p) /\ ReadInOrder(p)
<1>1. Marked(p)
  BY Zenon DEF ReadInv, FinisherInv
<1>2. locked[p] /\ pc[p] \in {"idle", "submit"}
  BY <1>1, Zenon DEF Marked
<1>3. p \in shape.pages
  BY <1>2, Zenon DEF ReadInv
<1>4. ReadTypes /\ ReadInOrder(p)
  BY <1>3, Zenon DEF ReadInv
<1> QED
  BY <1>1, <1>2, <1>3, <1>4, Zenon DEF ReadInOrder

(* The I/O of a buffer ends, well or not.                                  *)
LEMMA EndIOKept ==
  ASSUME ReadInv, FinisherInv', NEW p \in Pages, NEW b \in Buffers, EndIO(p, b)
  PROVE  ReadInv'
<1>1. /\ io[p][b] = "flight" /\ io' = [io EXCEPT ![p][b] = "ended"]
      /\ UNCHANGED <<shape, place, pc, i, arr, mapped, locked, pageUptodate>>
  BY Zenon DEF EndIO, task
<1>2. /\ p \in shape.pages /\ ~pageUptodate[p] /\ pc[p] \in {"idle", "submit"}
      /\ ReadTypes /\ Marked(p) /\ ReadInOrder(p)
  BY <1>1, BusyIsLocked, Zenon
<1>3. /\ io \in [Pages -> [Buffers -> Stages]] /\ uptodate \in [Pages -> SUBSET Buffers]
      /\ pageError \in [Pages -> BOOLEAN]
      /\ content \in [Pages -> [Buffers -> {"none", "zero", "raw", "tail", "fixed"}]]
  BY Zenon DEF ReadInv, ReadTypes, FinisherInv
<1>4. /\ b \notin uptodate[p] /\ place[p][b] \in {"data", "tail"}
      /\ content[p][b] \in {"none", "zero"}
      /\ b \notin arr[p]
  BY <1>1, <1>2, Zenon DEF ReadInOrder, Wanted, Filled, Walked, Marked
<1>5. /\ uptodate' = [uptodate EXCEPT ![p] = @ \cup {b}] \/ uptodate' = uptodate
      /\ content' = content \/ \E v \in {"raw", "tail"} : content' = [content EXCEPT ![p][b] = v]
      /\ \/ /\ uptodate'[p] = uptodate[p] \cup {b}
            /\ \A a \in Buffers : content'[p][a] =
                 IF a # b THEN content[p][a] ELSE IF place[p][b] = "tail" THEN "tail" ELSE "raw"
         \/ uptodate'[p] = uptodate[p] /\ content'[p] = content[p]
  <2>1. CASE /\ uptodate' = [uptodate EXCEPT ![p] = @ \cup {b}]
             /\ content' = [content EXCEPT ![p][b] = IF place[p][b] = "tail" THEN "tail" ELSE "raw"]
    <3>1. uptodate'[p] = uptodate[p] \cup {b}
      BY <1>3, <2>1, Zenon
    <3>2. \A a \in Buffers : content'[p][a] =
            IF a # b THEN content[p][a] ELSE IF place[p][b] = "tail" THEN "tail" ELSE "raw"
      BY <1>3, <2>1, Zenon
    <3>3. \E v \in {"raw", "tail"} : content' = [content EXCEPT ![p][b] = v]
      BY <2>1, Zenon
    <3> QED
      BY <2>1, <3>1, <3>2, <3>3, Zenon
  <2>2. CASE uptodate' = [uptodate EXCEPT ![p] = @ \ {b}] /\ content' = content
    <3>1. uptodate[p] \ {b} = uptodate[p]
      BY <1>3, <1>4, Zenon
    <3>2. uptodate' = uptodate
      BY <1>3, <2>2, <3>1, Zenon
    <3> QED
      BY <2>2, <3>2, Zenon
  <2> QED
    BY <2>1, <2>2, Zenon DEF EndIO
<1>6. pageError' = pageError \/ pageError' = [pageError EXCEPT ![p] = TRUE]
  BY Zenon DEF EndIO
<1>7. ReadTypes'
  <2>1. pageError' \in [Pages -> BOOLEAN]
    BY <1>3, <1>6, Zenon
  <2>2. uptodate' \in [Pages -> SUBSET Buffers]
    <3>1. uptodate' = [uptodate EXCEPT ![p] = @ \cup {b}] \/ uptodate' = uptodate
      BY <1>5, Zenon
    <3>2. uptodate[p] \cup {b} \in SUBSET Buffers
      BY <1>3, Zenon
    <3> QED
      BY <1>3, <3>1, <3>2, Zenon
  <2>3. content' \in [Pages -> [Buffers -> {"none", "zero", "raw", "tail", "fixed"}]]
    <3>1. content' = content \/ \E v \in {"raw", "tail"} : content' = [content EXCEPT ![p][b] = v]
      BY <1>5, Zenon
    <3>2. ASSUME NEW v \in {"raw", "tail"}, content' = [content EXCEPT ![p][b] = v]
          PROVE  content' \in [Pages -> [Buffers -> {"none", "zero", "raw", "tail", "fixed"}]]
      <4>1. [content[p] EXCEPT ![b] = v] \in [Buffers -> {"none", "zero", "raw", "tail", "fixed"}]
        BY <1>3, Zenon
      <4> QED
        BY <1>3, <3>2, <4>1, Zenon
    <3> QED
      BY <1>3, <3>1, <3>2, Zenon
  <2> QED
    BY <1>1, <1>2, <2>1, <2>2, <2>3, TypesKept, Zenon DEF ReadTypes
<1>8. Frame(p)
  <2>1. \A q \in Pages \ {p} : pageError'[q] = pageError[q]
    BY <1>3, <1>6, Zenon
  <2>2. \A q \in Pages \ {p} : io'[q] = io[q]
    BY <1>1, <1>3, Zenon
  <2>3. \A q \in Pages \ {p} : uptodate'[q] = uptodate[q] /\ content'[q] = content[q]
    BY <1>3, <1>5, Zenon
  <2> QED
    BY <1>1, <1>7, <2>1, <2>2, <2>3, Zenon DEF Frame
<1>9. \A a \in Buffers : io'[p][a] = IF a = b THEN "ended" ELSE io[p][a]
  BY <1>1, <1>3, Zenon
<1>10. /\ Buffers' = Buffers /\ mst' = mst
       /\ \A a : Record(a)' = Record(a)
       /\ \A a : Expected(p, a)' = Expected(p, a)
  BY <1>1, LayoutKept, Zenon
<1>11. Filled(p)'
  <2>1. IF place[p][b] = "tail" THEN Expected(p, b) = "tail" ELSE mst \/ Expected(p, b) = "raw"
    BY <1>4, Zenon DEF Expected
  <2> QED
    BY <1>1, <1>2, <1>4, <1>5, <1>10, <2>1 DEF ReadInOrder, Filled
<1>12. FixedTogether(p)'
  BY <1>2, <1>4, <1>5, <1>10 DEF ReadInOrder, FixedTogether
<1>13. Settled(p)'
  BY <1>9, <1>10, Zenon DEF Settled
<1>14. Wanted(p)'
  BY <1>1, <1>2, <1>4, <1>9, <1>5, <1>10 DEF ReadInOrder, Wanted
<1>15. Walked(p)'
  BY <1>1, <1>2, Zenon DEF ReadInOrder, Walked
<1>16. ~pageUptodate'[p]
  BY <1>1, <1>2, Zenon
<1>17. ReadInOrder(p)'
  BY <1>11, <1>12, <1>13, <1>14, <1>15, <1>16, Zenon DEF ReadInOrder
<1> QED
  BY <1>2, <1>8, <1>17, PageStep, Zenon

(* A buffer is through BH_Uptodate_Lock.                                   *)
LEMMA EndAsyncKept ==
  ASSUME ReadInv, FinisherInv', NEW p \in Pages, NEW b \in Buffers, EndAsync(p, b)
  PROVE  ReadInv'
<1>1. /\ io[p][b] = "ended"
      /\ io' = [io EXCEPT ![p][b] = IF async[p] = {b} THEN "last" ELSE "none"]
      /\ UNCHANGED <<shape, place, pc, i, arr, mapped, uptodate, content, locked,
                     pageUptodate, pageError>>
  BY Zenon DEF EndAsync, task, page
<1>2. /\ p \in shape.pages /\ ~pageUptodate[p] /\ pc[p] \in {"idle", "submit"}
      /\ ReadTypes /\ Marked(p) /\ ReadInOrder(p)
  BY <1>1, BusyIsLocked, Zenon
<1>3. io \in [Pages -> [Buffers -> Stages]] /\ Buffers' = Buffers
  BY <1>1, Zenon DEF ReadInv, FinisherInv, Buffers
<1>4. ReadTypes'
  BY <1>1, <1>2, TypesKept, Zenon DEF ReadTypes
<1>5. Frame(p)
  BY <1>1, <1>3, <1>4, Zenon DEF Frame
<1>6. \A a \in Buffers :
        io'[p][a] = IF a # b THEN io[p][a] ELSE IF async[p] = {b} THEN "last" ELSE "none"
  BY <1>1, <1>3, Zenon
<1>7. Filled(p)' /\ FixedTogether(p)' /\ Settled(p)'
  <2>1. CASE async[p] = {b}
    <3>1. io'[p][b] \notin {"none", "fixed"}
      BY <1>6, <2>1, Zenon
    <3> QED
      BY <1>1, <1>2, <1>3, <3>1, DataKept, Zenon
  <2>2. CASE async[p] # {b}
    <3>1. PICK a \in Buffers \ {b} : a \in async[p]
      BY <1>1, <1>2, <2>2, ZenonT(30) DEF Marked
    <3>2. io'[p][a] \notin {"none", "fixed"}
      BY <1>2, <1>6, <3>1, Zenon DEF Marked
    <3> QED
      BY <1>1, <1>2, <1>3, <3>1, <3>2, DataKept, Zenon
  <2> QED
    BY <2>1, <2>2, Zenon
<1>8. Wanted(p)' /\ Walked(p)'
  BY <1>1, <1>2, <1>3, <1>6 DEF ReadInOrder, Wanted, Walked
<1>9. ~pageUptodate'[p]
  BY <1>1, <1>2, Zenon
<1>10. ReadInOrder(p)'
  BY <1>7, <1>8, <1>9, Zenon DEF ReadInOrder
<1> QED
  BY <1>2, <1>5, <1>10, PageStep, Zenon

(* A record starts with one of its sectors.                                *)
LEMMA HeaderInRecord ==
  ASSUME ReadTypes, NEW b \in Buffers
  PROVE  Record(b) * shape.rec + 1 \in Sectors(Record(b))
<1>1. shape.rec \in Nat \ {0} /\ shape.nr \in Nat
  BY PageReadAssumption, Zenon DEF ReadTypes
<1> DEFINE n == shape.rec  d == b - 1  q == d \div n
<1>2. n \in Nat \ {0} /\ d \in Nat /\ b \in Nat /\ b <= shape.nr
  BY <1>1 DEF Buffers
<1>3. q \in Nat /\ q * n \in Nat /\ q * n <= d
  BY <1>2, SMT
<1>4. (q * n) \div n = q
  BY <1>2, <1>3, SMT
<1>5. q * n + 1 \in Buffers
  BY <1>1, <1>2, <1>3 DEF Buffers
<1>6. Record(q * n + 1) = q
  BY <1>3, <1>4 DEF Record
<1> QED
  BY <1>5, <1>6, Zenon DEF Record, Sectors

(* The last completion applies the fixups.                                 *)
LEMMA FixupKept ==
  ASSUME ReadInv, FinisherInv', NEW p \in Pages, NEW b \in Buffers, FixupPage(p, b)
  PROVE  ReadInv'
<1>1. /\ io[p][b] = "last" /\ io' = [io EXCEPT ![p][b] = "fixed"]
      /\ UNCHANGED <<shape, place, pc, i, arr, mapped, uptodate, locked, pageUptodate, pageError>>
  BY Zenon DEF FixupPage, task, page
<1>2. /\ p \in shape.pages /\ ~pageUptodate[p] /\ pc[p] \in {"idle", "submit"}
      /\ ReadTypes /\ Marked(p) /\ ReadInOrder(p)
  BY <1>1, BusyIsLocked, Zenon
<1>3. /\ io \in [Pages -> [Buffers -> Stages]]
      /\ content \in [Pages -> [Buffers -> {"none", "zero", "raw", "tail", "fixed"}]]
  BY Zenon DEF ReadInv, ReadTypes, FinisherInv
<1> DEFINE Fixes(a) == HasHeader(p, Record(a)) /\ Intact(p, Record(a))
<1>4. /\ ~mst => content' = content
      /\ mst => content' = [content EXCEPT ![p] =
                              [a \in Buffers |-> IF Fixes(a) THEN "fixed" ELSE @[a]]]
  BY Zenon DEF FixupPage
<1>5. \A a \in Buffers : content'[p][a] = IF mst /\ Fixes(a) THEN "fixed" ELSE content[p][a]
  BY <1>3, <1>4, Zenon
<1>6. ReadTypes'
  <2>1. content' \in [Pages -> [Buffers -> {"none", "zero", "raw", "tail", "fixed"}]]
    BY <1>3, <1>4
  <2> QED
    BY <1>1, <1>2, <2>1, TypesKept, Zenon DEF ReadTypes
<1>7. Frame(p)
  <2>1. \A q \in Pages \ {p} : io'[q] = io[q]
    BY <1>1, <1>3, Zenon
  <2>2. \A q \in Pages \ {p} : content'[q] = content[q]
    BY <1>3, <1>4, Zenon
  <2> QED
    BY <1>1, <1>6, <2>1, <2>2, Zenon DEF Frame
<1>8. \A a \in Buffers : io'[p][a] = IF a = b THEN "fixed" ELSE io[p][a]
  BY <1>1, <1>3, Zenon
<1>9. /\ Buffers' = Buffers /\ mst' = mst
      /\ \A a : Record(a)' = Record(a)
      /\ \A r : Sectors(r)' = Sectors(r)
      /\ \A a : Expected(p, a)' = Expected(p, a)
  BY <1>1, LayoutKept, Zenon
<1>10. \A a \in Buffers : a \in Sectors(Record(a))
  BY <1>2, RecordsWhole, Zenon
<1>11. \A a \in Buffers : Fixes(a) =>
         content[p][a] = "raw" /\ <<p, Record(a)>> \notin Torn
  BY <1>10, Zenon DEF Intact
<1>12. Filled(p)'
  <2>1. \A a \in Buffers : mst /\ Fixes(a) /\ a \in uptodate[p] => Expected(p, a) = "fixed"
    BY <1>2, <1>11, Zenon DEF ReadInOrder, Filled, Expected
  <2> HIDE DEF Fixes
  <2>2. \A a \in Buffers : Fixes(a) => content[p][a] = "raw"
    BY <1>11, Zenon
  <2> QED
    BY <1>1, <1>2, <1>5, <1>9, <2>1, <2>2 DEF ReadInOrder, Filled
<1>13. FixedTogether(p)'
  <2>1. \A a, c \in Buffers : Record(a) = Record(c) => (Fixes(a) <=> Fixes(c))
    BY Zenon
  <2> HIDE DEF Fixes
  <2> SUFFICES ASSUME NEW a \in Buffers, NEW c \in Buffers,
                      content'[p][a] = "fixed", Record(a) = Record(c)
               PROVE  content'[p][c] = "fixed"
    BY <1>9, Zenon DEF FixedTogether
  <2>2. (mst /\ Fixes(a)) \/ content[p][a] = "fixed"
    BY <1>5, Zenon
  <2>3. (mst /\ Fixes(c)) \/ content[p][c] = "fixed"
    BY <1>2, <2>1, <2>2, Zenon DEF ReadInOrder, FixedTogether
  <2> QED
    BY <1>5, <2>3, Zenon
<1>14. Settled(p)'
  <2> SUFFICES ASSUME mst, NEW a \in Buffers, place[p][a] = "data",
                      Sectors(Record(a)) \subseteq uptodate[p]
               PROVE  content'[p][a] = Expected(p, a)
    BY <1>1, <1>9, Zenon DEF Settled
  <2>1. /\ a \in uptodate[p]
        /\ \A s \in Sectors(Record(a)) :
             s \in Buffers /\ Record(s) = Record(a) /\ s \in uptodate[p]
    BY <1>10, Zenon DEF Sectors
  <2>2. CASE <<p, Record(a)>> \in Torn
    <3>1. ~Fixes(a) /\ Expected(p, a) = "raw"
      BY <2>2, Zenon DEF Intact, Expected
    <3>2. content[p][a] = "raw"
      BY <1>2, <2>1, <3>1, Zenon DEF ReadInOrder, Filled
    <3> HIDE DEF Fixes
    <3> QED
      BY <1>5, <3>1, <3>2, Zenon
  <2>3. CASE <<p, Record(a)>> \notin Torn
    <3>1. Expected(p, a) = "fixed"
      BY <2>3, Zenon DEF Expected
    <3>2. content[p][a] \in {"raw", "fixed"}
      BY <1>2, <2>1, <3>1, Zenon DEF ReadInOrder, Filled
    <3>3. ASSUME content[p][a] = "raw" PROVE Fixes(a)
      <4>1. ASSUME NEW s \in Sectors(Record(a)) PROVE content[p][s] = "raw"
        <5>1. s \in Buffers /\ Record(s) = Record(a) /\ s \in uptodate[p]
          BY <2>1, Zenon
        <5>2. content[p][s] # "fixed"
          BY <1>2, <3>3, <5>1, Zenon DEF ReadInOrder, FixedTogether
        <5>3. place[p][s] = "data"
          BY <1>2, <5>1, RecordsWhole, Zenon
        <5>4. Expected(p, s) = "fixed"
          BY <2>3, <5>1, <5>3, Zenon DEF Expected
        <5> QED
          BY <1>2, <5>1, <5>2, <5>4, Zenon DEF ReadInOrder, Filled
      <4>2. Record(a) * shape.rec + 1 \in Sectors(Record(a))
        BY <1>2, HeaderInRecord, Zenon
      <4> QED
        BY <2>3, <4>1, <4>2, Zenon DEF Intact, HasHeader
    <3> HIDE DEF Fixes
    <3> QED
      BY <1>5, <3>1, <3>2, <3>3, Zenon
  <2> QED
    BY <2>2, <2>3, Zenon
<1> HIDE DEF Fixes
<1>15. Wanted(p)' /\ Walked(p)'
  BY <1>1, <1>2, <1>8, <1>9 DEF ReadInOrder, Wanted, Walked
<1>16. ~pageUptodate'[p]
  BY <1>1, <1>2, Zenon
<1>17. ReadInOrder(p)'
  BY <1>12, <1>13, <1>14, <1>15, <1>16, Zenon DEF ReadInOrder
<1> QED
  BY <1>2, <1>7, <1>17, PageStep, Zenon

(* The last completion finishes the page.                                  *)
LEMMA FinishKept ==
  ASSUME ReadInv, FinisherInv', NEW p \in Pages, NEW b \in Buffers, FinishPage(p, b)
  PROVE  ReadInv'
<1>1. /\ io[p][b] = "fixed" /\ io' = [io EXCEPT ![p][b] = "none"]
      /\ UNCHANGED <<shape, place, pc, i, arr, mapped, uptodate, content, pageError>>
      /\ pageUptodate' = [pageUptodate EXCEPT ![p] = uptodate[p] = Buffers /\ ~pageError[p]]
      /\ locked' = [locked EXCEPT ![p] = FALSE]
  BY Zenon DEF FinishPage, Finish, task
<1>2. /\ p \in shape.pages /\ pc[p] \in {"idle", "submit"}
      /\ ReadTypes /\ Marked(p) /\ ReadInOrder(p)
  BY <1>1, BusyIsLocked, Zenon
<1>3. /\ io \in [Pages -> [Buffers -> Stages]] /\ locked \in [Pages -> BOOLEAN]
      /\ pageUptodate \in [Pages -> BOOLEAN]
  BY Zenon DEF ReadInv, ReadTypes, FinisherInv
<1>4. ReadTypes'
  <2>1. pageUptodate' \in [Pages -> BOOLEAN]
    BY <1>1, <1>3, Zenon
  <2> QED
    BY <1>1, <1>2, <2>1, TypesKept, Zenon DEF ReadTypes
<1>5. Frame(p)
  <2>1. \A q \in Pages \ {p} : locked'[q] = locked[q] /\ pageUptodate'[q] = pageUptodate[q]
    BY <1>1, <1>3, Zenon
  <2>2. \A q \in Pages \ {p} : io'[q] = io[q]
    BY <1>1, <1>3, Zenon
  <2> QED
    BY <1>1, <1>4, <2>1, <2>2, Zenon DEF Frame
<1>6. /\ \A a \in Buffers : io[p][a] \in {"none", "fixed"}
      /\ \A a \in Buffers : io'[p][a] = IF a = b THEN "none" ELSE io[p][a]
      /\ Buffers' = Buffers
  <2>1. \A a \in Buffers : io'[p][a] = IF a = b THEN "none" ELSE io[p][a]
    BY <1>1, <1>3, Zenon
  <2>2. shape' = shape
    BY <1>1, Zenon
  <2> QED
    BY <1>1, <1>2, <2>1, <2>2, Zenon DEF Marked, Buffers
<1>7. Filled(p)' /\ FixedTogether(p)' /\ Settled(p)'
  <2>1. UNCHANGED <<shape, place>> /\ content'[p] = content[p] /\ uptodate'[p] = uptodate[p]
    BY <1>1, Zenon
  <2> QED
    BY <1>2, <1>6, <2>1, DataKept, Zenon
<1>8. Wanted(p)' /\ Walked(p)'
  <2>1. UNCHANGED <<place, pc, i, arr, mapped, uptodate, pageError>>
    BY <1>1, Zenon
  <2> QED
    BY <1>2, <1>6, <2>1, Zenon DEF ReadInOrder, Wanted, Walked
<1>9. ~locked'[p] /\ (pageUptodate'[p] => uptodate[p] = Buffers)
  BY <1>1, <1>3, Zenon
<1>10. ASSUME uptodate[p] = Buffers PROVE \A a \in Buffers : content[p][a] = Expected(p, a)
  BY <1>2, <1>6, <1>10, AllRead, Zenon
<1>11. pageUptodate'[p] => \A a \in Buffers' : content'[p][a] = Expected(p, a)'
  <2>1. content' = content /\ UNCHANGED <<shape, place>>
    BY <1>1, Zenon
  <2>2. \A a : Expected(p, a)' = Expected(p, a)
    BY <2>1, LayoutKept, Zenon
  <2>3. Buffers' = Buffers
    BY <1>6, Zenon
  <2> QED
    BY <1>9, <1>10, <2>1, <2>2, <2>3, Zenon
<1>12. ReadInOrder(p)'
  BY <1>7, <1>8, <1>9, <1>11, Zenon DEF ReadInOrder
<1> QED
  BY <1>2, <1>5, <1>12, PageStep, Zenon

-----------------------------------------------------------------------------
(* The invariant is inductive.                                             *)
LEMMA ReadKept == ReadInv /\ [Next]_vars => ReadInv'
<1> SUFFICES ASSUME ReadInv, [Next]_vars PROVE ReadInv'
  BY Zenon
<1>1. FinisherInv'
  BY FinisherKept, Zenon DEF ReadInv
<1>2. ASSUME NEW p \in Pages, ReadPage(p) \/ Reclaim(p) PROVE ReadInv'
  BY <1>1, <1>2, ReadPageKept, ReclaimKept, Zenon
<1>3. ASSUME NEW p \in Pages, Task(p) PROVE ReadInv'
  BY <1>1, <1>3, BeyondKept, LoopReadKept, LoopZeroKept, LookupReadKept, MapReadKept,
     EndLoopKept, SubmitKept, Zenon DEF Task
<1>4. ASSUME NEW p \in Pages, NEW b \in Buffers, Completion(p, b) PROVE ReadInv'
  BY <1>1, <1>4, EndIOKept, EndAsyncKept, FixupKept, FinishKept, Zenon DEF Completion
<1>5. CASE UNCHANGED vars
  <2>1. UNCHANGED <<shape, place, pc, i, arr, io, mapped, uptodate, content, locked,
                    pageUptodate, pageError>>
    BY <1>5, Zenon DEF vars, task, page
  <2>2. ReadTypes'
    BY <2>1, TypesKept, Zenon DEF ReadInv, ReadTypes
  <2>3. ASSUME NEW p \in Pages, ReadInOrder(p) PROVE ReadInOrder(p)'
    <3>1. Filled(p)' /\ FixedTogether(p)' /\ Settled(p)'
      BY <2>1, <2>3, DataKept, Zenon
    <3>2. Buffers' = Buffers
      BY <2>1, Zenon DEF Buffers
    <3>3. Wanted(p)' /\ Walked(p)'
      BY <2>1, <2>3, <3>2, Zenon DEF ReadInOrder, Wanted, Walked
    <3>4. \A b : Expected(p, b)' = Expected(p, b)
      BY <2>1, LayoutKept, Zenon
    <3>5. locked' = locked /\ pageUptodate' = pageUptodate /\ content' = content
      BY <2>1, Zenon
    <3> QED
      BY <2>3, <3>1, <3>2, <3>3, <3>4, <3>5, Zenon DEF ReadInOrder
  <2>4. shape.pages \subseteq Pages
    BY PageReadAssumption, Zenon DEF ReadInv, ReadTypes
  <2>5. shape' = shape /\ locked' = locked /\ pageUptodate' = pageUptodate
    BY <2>1, Zenon
  <2>6. \A p \in shape.pages : ReadInOrder(p)'
    BY <2>3, <2>4, Zenon DEF ReadInv
  <2> QED
    BY <1>1, <2>2, <2>5, <2>6, Zenon DEF ReadInv
<1> QED
  BY <1>2, <1>3, <1>4, <1>5, Zenon DEF Next

(* It holds at first.                                                      *)
LEMMA ReadBegins == Init => ReadInv
<1> SUFFICES ASSUME Init PROVE ReadInv
  BY Zenon
<1>1. FinisherInv
  BY Zenon DEF Init, FinisherInv, Marked, Labels, Stages
<1>2. ReadTypes
  BY Zenon DEF Init, ReadTypes
<1>3. ASSUME NEW p \in shape.pages PROVE ReadInOrder(p)
  <2>1. p \in Pages /\ \A b \in Buffers : b \in Nat /\ b \in Sectors(Record(b))
    BY <1>2, RecordsWhole, Zenon
  <2>2. /\ pc[p] = "idle" /\ arr[p] = {} /\ i[p] = 1 /\ mapped[p] = {} /\ uptodate[p] = {}
        /\ \A b \in Buffers : io[p][b] = "none" /\ content[p][b] = "none"
    BY <2>1, Zenon DEF Init
  <2>3. ~locked[p] /\ ~pageUptodate[p]
    BY <2>1, Zenon DEF Init
  <2>4. Filled(p) /\ Wanted(p) /\ FixedTogether(p) /\ Walked(p)
    BY <2>2, Zenon DEF Filled, Wanted, FixedTogether, Walked
  <2>5. Settled(p)
    BY <2>1, <2>2, Zenon DEF Settled
  <2> QED
    BY <2>3, <2>4, <2>5, Zenon DEF ReadInOrder
<1>4. \A p \in Pages \ shape.pages : ~locked[p] /\ ~pageUptodate[p]
  BY Zenon DEF Init
<1> QED
  BY <1>1, <1>2, <1>3, <1>4, Zenon DEF ReadInv

(* A page marked up to date holds the data of the attribute, for every     *)
(* number of pages, buffers and records, every layout and every order of   *)
(* the completions: each block was read or zeroed, and the fixups of a     *)
(* protected record were applied once, before the mark                     *)
(* (ntfs_read_block(), ntfs_end_buffer_async_read()).                      *)
THEOREM UptodateHoldsData == Spec => []UptodateIsComplete
<1>1. ReadInv => UptodateIsComplete
  <2> SUFFICES ASSUME ReadInv, NEW p \in Pages, pageUptodate[p], NEW b \in Buffers
               PROVE  content[p][b] = Expected(p, b)
    BY Zenon DEF UptodateIsComplete
  <2>1. p \in shape.pages
    BY Zenon DEF ReadInv
  <2> QED
    BY <2>1, Zenon DEF ReadInv, ReadInOrder
<1> QED
  BY <1>1, ReadBegins, ReadKept, PTL DEF Spec

(* Nobody is at work on a page that is up to date: no task and no I/O.     *)
LEMMA UptodateIsIdle ==
  ASSUME ReadInv, NEW p \in Pages, pageUptodate[p]
  PROVE  pc[p] = "idle" /\ \A b \in Buffers : io[p][b] = "none"
<1>1. ReadInOrder(p) /\ Marked(p)
  BY Zenon DEF ReadInv, FinisherInv
<1>2. ~locked[p]
  BY <1>1, Zenon DEF ReadInOrder
<1> QED
  BY <1>1, <1>2, Zenon DEF Marked

(* A page that is and stays up to date is not touched: neither a second    *)
(* ntfs_readpage() of it nor a late completion writes to its buffers, and  *)
(* the fixups are not applied to it again, whatever is done to the others. *)
THEOREM UptodateIsLeftAlone == Spec => UptodateIsStable
<1> DEFINE Inv == ReadInv /\ DOMAIN baad = Pages
           Stays == \A p \in Pages : pageUptodate[p] /\ pageUptodate'[p] =>
                      content'[p] = content[p] /\ baad'[p] = baad[p]
<1>1. Init => Inv
  BY ReadBegins, Zenon DEF Init
<1>2. ASSUME ReadInv, DOMAIN baad = Pages, [Next]_vars
      PROVE  DOMAIN baad' = Pages /\ Stays
  <2>1. CASE UNCHANGED vars
    BY <1>2, <2>1, Zenon DEF vars
  <2>2. ASSUME NEW p \in Pages,
               ReadPage(p) \/ Reclaim(p) \/ Task(p) \/ \E b \in Buffers : Completion(p, b)
        PROVE  DOMAIN baad' = Pages /\ Stays
    <3>1. content \in [Pages -> [Buffers -> {"none", "zero", "raw", "tail", "fixed"}]]
      BY <1>2, Zenon DEF ReadInv, ReadTypes
    <3>2. /\ DOMAIN baad' = Pages
          /\ \A q \in Pages \ {p} : content'[q] = content[q] /\ baad'[q] = baad[q]
      BY <1>2, <2>2, <3>1, OthersStay, Zenon
    <3>3. ~(pageUptodate[p] /\ pageUptodate'[p])
      <4> SUFFICES ASSUME pageUptodate[p], pageUptodate'[p] PROVE FALSE
        BY Zenon
      <4>1. pc[p] = "idle" /\ \A b \in Buffers : io[p][b] = "none"
        BY <1>2, UptodateIsIdle, Zenon
      <4>2. ~Task(p)
        BY <4>1, Zenon DEF Task, ReadBeyond, SkipBuffer, OutsideBuffer, LockRunlist, LookupBuffer,
                    UnlockToMap, LookupFailed, MapRunlist, EndLoop, Submit, At, Goto
      <4>3. \A b \in Buffers : ~Completion(p, b)
        BY <4>1, Zenon DEF Completion, EndIO, EndAsync, FixupPage, FinishPage
      <4>4. ~ReadPage(p)
        BY Zenon DEF ReadPage
      <4>5. ~Reclaim(p)
        BY <1>2, Zenon DEF Reclaim, ReadInv, ReadTypes
      <4> QED
        BY <2>2, <4>2, <4>3, <4>4, <4>5, Zenon
    <3> QED
      BY <3>2, <3>3, Zenon
  <2> QED
    BY <1>2, <2>1, <2>2, Zenon DEF Next
<1>3. Inv /\ [Next]_vars => Inv' /\ [Stays]_vars
  BY <1>2, ReadKept, Zenon
<1> QED
  BY <1>1, <1>3, PTL DEF Spec, UptodateIsStable

-----------------------------------------------------------------------------
(* A task that is not between the two ends of the loop of                  *)
(* ntfs_read_block() has forgotten the runlist.                            *)
RunlistInv ==
  /\ known \subseteq Pages \X Buffers
  /\ rl \in [Pages -> SUBSET (Pages \X Buffers)]
  /\ pc \in [Pages -> Labels]
  /\ RunlistFresh
  /\ \A p \in Pages : pc[p] \in {"idle", "beyond", "submit"} => rl[p] = {}

(* Every step keeps what is known of the runlist.                          *)
LEMMA RunlistKept == RunlistInv /\ [Next]_vars => RunlistInv'
<1> SUFFICES ASSUME RunlistInv, [Next]_vars PROVE RunlistInv'
  BY Zenon
<1>0. Buffers' = Buffers
  BY BuffersKept, Zenon
<1>1. ASSUME NEW p \in Pages, ReadPage(p) PROVE RunlistInv'
  BY <1>0, <1>1, Zenon DEF ReadPage, Goto, RunlistInv, RunlistFresh, Labels
<1>2. ASSUME NEW p \in Pages, Reclaim(p) PROVE RunlistInv'
  BY <1>0, <1>2, Zenon DEF Reclaim, task, RunlistInv, RunlistFresh, Labels
<1>3. ASSUME NEW p \in Pages, ReadBeyond(p) PROVE RunlistInv'
  BY <1>0, <1>3, Zenon DEF ReadBeyond, Goto, RunlistInv, RunlistFresh, Labels
<1>4. ASSUME NEW p \in Pages, SkipBuffer(p) \/ OutsideBuffer(p) PROVE RunlistInv'
  <2>1. UNCHANGED <<pc, rl, known, readers>>
    BY <1>4, Zenon DEF SkipBuffer, OutsideBuffer
  <2> QED
    BY <1>0, <2>1, Zenon DEF RunlistInv, RunlistFresh
<1>5. ASSUME NEW p \in Pages, LockRunlist(p) PROVE RunlistInv'
  BY <1>0, <1>5 DEF LockRunlist, At, RunlistInv, RunlistFresh, Labels
<1>6. ASSUME NEW p \in Pages, LookupBuffer(p) PROVE RunlistInv'
  BY <1>0, <1>6, Zenon DEF LookupBuffer, At, Goto, RunlistInv, RunlistFresh, Labels
<1>7. ASSUME NEW p \in Pages, UnlockToMap(p) PROVE RunlistInv'
  BY <1>0, <1>7, Zenon DEF UnlockToMap, Goto, RunlistInv, RunlistFresh, Labels
<1>8. ASSUME NEW p \in Pages, LookupFailed(p) PROVE RunlistInv'
  BY <1>0, <1>8, Zenon DEF LookupFailed, Goto, RunlistInv, RunlistFresh, Labels
<1>9. ASSUME NEW p \in Pages, MapRunlist(p) PROVE RunlistInv'
  <2>1. CASE /\ pc' = [pc EXCEPT ![p] = "relock"]
             /\ known' \in {known, known \cup {<<p, i[p]>>}}
             /\ rl' = rl
    BY <1>0, <1>9, <2>1 DEF MapRunlist, At, RunlistInv, RunlistFresh, Labels
  <2>2. CASE /\ pc' = [pc EXCEPT ![p] = "loop"]
             /\ rl' = [rl EXCEPT ![p] = {}]
             /\ known' = known
    BY <1>0, <1>9, <2>2, Zenon DEF MapRunlist, At, RunlistInv, RunlistFresh, Labels
  <2> QED
    BY <1>9, <2>1, <2>2, Zenon DEF MapRunlist
<1>10. ASSUME NEW p \in Pages, EndLoop(p) PROVE RunlistInv'
  BY <1>0, <1>10 DEF EndLoop, RunlistInv, RunlistFresh, Labels
<1>11. ASSUME NEW p \in Pages, Submit(p) PROVE RunlistInv'
  BY <1>0, <1>11, Zenon DEF Submit, RunlistInv, RunlistFresh, Labels
<1>12. ASSUME NEW p \in Pages, NEW b \in Buffers, Completion(p, b) PROVE RunlistInv'
  <2>1. UNCHANGED <<pc, rl, known, readers>>
    BY <1>12, Zenon DEF Completion, EndIO, EndAsync, FixupPage, FinishPage, task
  <2> QED
    BY <1>0, <2>1, Zenon DEF RunlistInv, RunlistFresh
<1>13. CASE UNCHANGED vars
  BY <1>0, <1>13, Zenon DEF vars, task, RunlistInv, RunlistFresh
<1> QED
  BY <1>1, <1>2, <1>3, <1>4, <1>5, <1>6, <1>7, <1>8, <1>9, <1>10, <1>11, <1>12, <1>13, Zenon
  DEF Next, Task

(* The array ntfs_read_block() looks up is the current one: it holds the   *)
(* lock of the runlist from the moment it remembers the array to the       *)
(* moment it forgets it, and ntfs_map_runlist(), which replaces the array, *)
(* waits for every reader.                                                 *)
THEOREM RunlistIsFresh == Spec => []RunlistFresh
<1>1. Init => RunlistInv
  BY Zenon DEF Init, RunlistInv, RunlistFresh, Labels
<1>2. RunlistInv => RunlistFresh
  BY Zenon DEF RunlistInv
<1> QED
  BY <1>1, <1>2, RunlistKept, PTL DEF Spec

=============================================================================
