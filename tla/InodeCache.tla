----------------------------- MODULE InodeCache -----------------------------
(***************************************************************************)
(* Inodes in memory (ntfs/inode.c): ntfs_iget(), ntfs_attr_iget() and      *)
(* ntfs_index_iget() find an inode in the cache or read it; attribute and  *)
(* index inodes keep their base inode; reading a directory or an index     *)
(* reads the inode of its bitmap.                                          *)
(*                                                                         *)
(* iget5_locked(), iput() and make_bad_inode() belong to the VFS: a new    *)
(* inode is locked until it is read, whoever finds it waits, a bad inode   *)
(* is no longer found, and an inode without users stays cached until it is *)
(* reclaimed, or goes at once if it is bad.                                *)
(***************************************************************************)
EXTENDS Integers, FiniteSets, SequencesExt

CONSTANTS
  Tasks,
  Slots,        \* objects of ntfs_big_inode_cache
  None,         \* no slot
  Base,         \* the file or directory
  Named,        \* inodes whose name ntfs_init_locked_inode() has to copy
  Shapes,       \* what it may be: its attribute and index inodes (attrs), and
                \* the bitmap of a directory or an index (bitmap)
  FreshCounts   \* what ni->count may be before it is initialised

ASSUME InodeCacheAssumption ==
  /\ None \notin Slots
  /\ \A s \in Shapes :
       /\ Base \notin s.attrs
       /\ DOMAIN s.bitmap \subseteq {Base} \cup s.attrs
       /\ \A k \in DOMAIN s.bitmap : s.bitmap[k] \in s.attrs \ DOMAIN s.bitmap
  /\ FreshCounts \subseteq Int

VARIABLES
  shape,        \* one of Shapes, for good
  ino,          \* inodes: key, state, refs (i_count), count (ni->count), base
  mrec,         \* the task that has mapped the mft record of an inode
  stack,        \* calls of the three functions a task is in
  held,         \* inodes a task has got, with the key it asked for
  bug           \* tasks that ran into BUG()

vars == <<shape, ino, mrec, stack, held, bug>>

Attrs == shape.attrs
Bitmap == shape.bitmap
Keys == {Base} \cup Attrs

Free == [key |-> Base, state |-> "free", refs |-> 0, count |-> 0, base |-> None]

Frame(k, b) == [key |-> k, base |-> b, pc |-> "find", id |-> None, bvi |-> None]

Init ==
  /\ shape \in Shapes
  /\ ino = [i \in Slots |-> Free]
  /\ mrec = [i \in Slots |-> None]
  /\ stack = [t \in Tasks |-> <<>>]
  /\ held = [t \in Tasks |-> <<>>]
  /\ bug = {}

Top(t) == Last(stack[t])
At(t, label) == t \notin bug /\ stack[t] # <<>> /\ Top(t).pc = label
SetTop(t, frame) == stack' = [stack EXCEPT ![t] = Append(Front(@), frame)]
Goto(t, label) == SetTop(t, [Top(t) EXCEPT !.pc = label])

(* Mutant: type and name of the attribute are not compared.               *)
MatchesAttr(k) ==
  {i \in Slots : ino[i].state \in {"new", "ok"} /\ (ino[i].key = Base <=> k = Base)}

(* ntfs_test_inode() on the inodes that are hashed.                        *)
Matches(k) ==
  {i \in Slots : ino[i].state \in {"new", "ok"} /\ ino[i].key = k}

(* iput() *)
Iput(f, i) ==
  IF f[i].refs = 1 /\ f[i].state = "bad"
  THEN [f EXCEPT ![i] = Free]
  ELSE [f EXCEPT ![i].refs = @ - 1]

(* A call ends: its result goes to the task or to the call it was made in. *)
Return(t, i) ==
  IF Len(stack[t]) = 1
  THEN /\ stack' = [stack EXCEPT ![t] = <<>>]
       /\ held' = [held EXCEPT ![t] = IF i = None THEN @ ELSE Append(@, <<Top(t).key, i>>)]
  ELSE /\ stack' = [stack EXCEPT ![t] =
            Append(Front(Front(@)), [Last(Front(@)) EXCEPT !.pc = "bitmap", !.bvi = i])]
       /\ UNCHANGED held

-----------------------------------------------------------------------------
(* A task asks for the base inode, or with it for one of the others.       *)
Iget(t) ==
  /\ t \notin bug /\ stack[t] = <<>> /\ held[t] = <<>>
  /\ stack' = [stack EXCEPT ![t] = <<Frame(Base, None)>>]
  /\ UNCHANGED <<ino, mrec, held, bug>>

GetFrom(t, k) ==
  /\ t \notin bug /\ stack[t] = <<>> /\ Len(held[t]) = 1
  /\ ino[held[t][1][2]].state = "ok"
  /\ stack' = [stack EXCEPT ![t] = <<Frame(k, held[t][1][2])>>]
  /\ UNCHANGED <<ino, mrec, held, bug>>

AttrIget(t, k) == k \notin DOMAIN Bitmap /\ GetFrom(t, k)

IndexIget(t, k) == k \in DOMAIN Bitmap /\ GetFrom(t, k)

(* iget5_locked(): the cached inode, or a new object, or none.             *)
Find(t) ==
  /\ At(t, "find")
  /\ \/ \E i \in Matches(Top(t).key) :
          /\ ino' = [ino EXCEPT ![i].refs = @ + 1]
          /\ SetTop(t, [Top(t) EXCEPT !.pc = "wait", !.id = i])
          /\ UNCHANGED held
     \/ /\ Matches(Top(t).key) = {}
        /\ \E i \in Slots, n \in FreshCounts :
             /\ ino[i].state = "free"
             /\ ino' = [ino EXCEPT ![i] = [Free EXCEPT !.state = "alloc", !.count = n]]
             /\ SetTop(t, [Top(t) EXCEPT !.pc = "insert", !.id = i])
        /\ UNCHANGED held
     \/ Matches(Top(t).key) = {} /\ Return(t, None) /\ UNCHANGED ino
  /\ UNCHANGED <<mrec, bug>>

(* The object was not needed: ntfs_destroy_big_inode() expects to drop the *)
(* only reference to the ntfs inode.                                       *)
Unneeded(t) ==
  /\ At(t, "insert")
  /\ \E i \in Matches(Top(t).key) :
       /\ ino' = [ino EXCEPT ![i].refs = @ + 1, ![Top(t).id] = Free]
       /\ SetTop(t, [Top(t) EXCEPT !.pc = "wait", !.id = i])
  /\ bug' = IF ino[Top(t).id].count = 1 THEN bug ELSE bug \cup {t}
  /\ UNCHANGED <<mrec, held>>

(* ntfs_init_locked_inode() cannot copy the name.                          *)
NameFails(t) ==
  /\ At(t, "insert")
  /\ Matches(Top(t).key) = {} /\ Top(t).key \in Named
  /\ ino' = [ino EXCEPT ![Top(t).id] = Free]
  /\ bug' = IF ino[Top(t).id].count = 1 THEN bug ELSE bug \cup {t}
  /\ Return(t, None)
  /\ UNCHANGED mrec

Insert(t) ==
  /\ At(t, "insert")
  /\ Matches(Top(t).key) = {}
  /\ ino' = [ino EXCEPT ![Top(t).id].key = Top(t).key, ![Top(t).id].state = "new",
                        ![Top(t).id].refs = 1]
  /\ Goto(t, "read")
  /\ UNCHANGED <<mrec, held, bug>>

(* The inode is there as soon as its reader has unlocked it.               *)
Found(t) ==
  /\ At(t, "wait")
  /\ ino[Top(t).id].state # "new"
  /\ Return(t, Top(t).id)
  /\ UNCHANGED <<ino, mrec, bug>>

-----------------------------------------------------------------------------
(* ntfs_read_locked_inode(), ntfs_read_locked_attr_inode() and             *)
(* ntfs_read_locked_index_inode() *)

Record(f) == IF f.key = Base THEN f.id ELSE f.base

(* The ntfs inode is initialised, and the mft record mapped.               *)
MapRecord(t) ==
  /\ At(t, "read")
  /\ mrec[Record(Top(t))] = None
  /\ mrec' = [mrec EXCEPT ![Record(Top(t))] = t]
  /\ ino' = [ino EXCEPT ![Top(t).id].count = 1]
  /\ Goto(t, "mapped")
  /\ UNCHANGED <<held, bug>>

Unmap(t) == mrec' = [mrec EXCEPT ![Record(Top(t))] = None]

(* Mutant: the base inode is attached without a reference.                *)
ReadDoneUncounted(t, f) ==
  /\ ino' = [f EXCEPT ![Top(t).id].state = "ok", ![Top(t).id].base = Top(t).base]
  /\ Return(t, Top(t).id)

(* Everything was found.  The base inode of an attribute must not go away. *)
ReadDone(t, f) ==
  /\ ino' = IF Top(t).key = Base
            THEN [f EXCEPT ![Top(t).id].state = "ok"]
            ELSE [f EXCEPT ![Top(t).id].state = "ok", ![Top(t).id].base = Top(t).base,
                           ![Top(t).base].refs = @ + 1]
  /\ Return(t, Top(t).id)

(* Something is missing or wrong: the inode is bad.  ntfs_iget() returns   *)
(* it all the same unless memory was short.                                *)
ReadFails(t, f) ==
  LET g == [f EXCEPT ![Top(t).id].state = "bad"] IN
  \/ /\ Top(t).key = Base
     /\ ino' = g /\ Return(t, Top(t).id)
  \/ ino' = Iput(g, Top(t).id) /\ Return(t, None)

ReadFile(t) ==
  /\ At(t, "mapped") /\ Top(t).key \in {Base} \ DOMAIN Bitmap
  /\ ReadDone(t, ino) \/ ReadFails(t, ino)
  /\ Unmap(t)
  /\ UNCHANGED bug

ReadAttr(t) ==
  /\ At(t, "mapped") /\ Top(t).key \in Attrs \ DOMAIN Bitmap
  /\ ReadDone(t, ino) \/ ReadFails(t, ino)
  /\ Unmap(t)
  /\ UNCHANGED bug

(* Mutant: the mft record stays mapped.                                   *)
ReadIndexMapped(t) ==
  /\ At(t, "mapped") /\ Top(t).key \in DOMAIN Bitmap
  /\ stack' = [stack EXCEPT ![t] =
       Append(@, Frame(Bitmap[Top(t).key], Record(Top(t))))]
  /\ UNCHANGED <<ino, mrec, held, bug>>

(* A directory or an index: the mft record is released before the bitmap   *)
(* inode is asked for.                                                     *)
ReadIndex(t) ==
  /\ At(t, "mapped") /\ Top(t).key \in DOMAIN Bitmap
  /\ stack' = [stack EXCEPT ![t] =
       Append(@, Frame(Bitmap[Top(t).key], Record(Top(t))))]
  /\ Unmap(t)
  /\ UNCHANGED <<ino, held, bug>>

ReadIndexFails(t) ==
  /\ At(t, "mapped") /\ Top(t).key \in DOMAIN Bitmap
  /\ ReadFails(t, ino)
  /\ Unmap(t)
  /\ UNCHANGED bug

(* The bitmap is only looked at.                                           *)
CheckBitmap(t) ==
  /\ At(t, "bitmap")
  /\ IF Top(t).bvi = None
     THEN ReadFails(t, ino)
     ELSE \/ ReadFails(t, Iput(ino, Top(t).bvi))
          \/ ReadDone(t, Iput(ino, Top(t).bvi))
  /\ UNCHANGED <<mrec, bug>>

-----------------------------------------------------------------------------
(* A task has done with the inode it got last.                             *)
Put(t) ==
  /\ t \notin bug /\ stack[t] = <<>> /\ held[t] # <<>>
  /\ ino' = Iput(ino, Last(held[t])[2])
  /\ held' = [held EXCEPT ![t] = Front(@)]
  /\ UNCHANGED <<mrec, stack, bug>>

(* An inode nobody uses is reclaimed; ntfs_evict_big_inode() lets the base *)
(* inode go.                                                               *)
Evict(i) ==
  /\ ino[i].state = "ok" /\ ino[i].refs = 0
  /\ LET f == IF ino[i].base = None THEN ino ELSE Iput(ino, ino[i].base) IN
     ino' = [f EXCEPT ![i] = Free]
  /\ UNCHANGED <<mrec, stack, held, bug>>

Step ==
  \/ \E t \in Tasks :
       \/ Iget(t) \/ \E k \in Attrs : AttrIget(t, k) \/ IndexIget(t, k)
       \/ Find(t) \/ Unneeded(t) \/ NameFails(t) \/ Insert(t) \/ Found(t)
       \/ MapRecord(t) \/ ReadFile(t) \/ ReadAttr(t) \/ ReadIndex(t) \/ ReadIndexFails(t)
       \/ CheckBitmap(t) \/ Put(t)
  \/ \E i \in Slots : Evict(i)

Next == Step /\ UNCHANGED shape

Spec == Init /\ [][Next]_vars

-----------------------------------------------------------------------------
(* Properties *)

(* The type invariant; no inode has more users than there can be.          *)
TypeOK ==
  /\ shape \in Shapes
  /\ ino \in [Slots -> [key : Keys, state : {"free", "alloc", "new", "ok", "bad"},
                        refs : 0 .. 3 * Cardinality(Tasks) + Cardinality(Slots),
                        count : FreshCounts \cup {0, 1}, base : Slots \cup {None}]]
  /\ mrec \in [Slots -> Tasks \cup {None}]
  /\ bug \subseteq Tasks

(* The places where an inode is in use: a task has it, a call waits for it *)
(* or reads it, a call has it as bitmap, an attribute inode has it as base.*)
Users(i) ==
  {<<t, n>> \in Tasks \X (1 .. 2) : n <= Len(held[t]) /\ held[t][n][2] = i}
  \cup {<<t, n + 2>> : <<t, n>> \in
          {x \in Tasks \X (1 .. 2) : /\ x[2] <= Len(stack[x[1]])
                                     /\ stack[x[1]][x[2]].id = i
                                     /\ stack[x[1]][x[2]].pc # "insert"}}
  \cup {<<t, n + 4>> : <<t, n>> \in
          {x \in Tasks \X (1 .. 2) : /\ x[2] <= Len(stack[x[1]])
                                     /\ stack[x[1]][x[2]].bvi = i}}
  \cup {j \in Slots : ino[j].state = "ok" /\ ino[j].base = i}

(* Every reference is dropped exactly once, on the paths of the three read *)
(* functions that fail in the middle too: the count of an inode is the     *)
(* number of its users, so the base of an attribute inode is never freed.  *)
RefsBalanced ==
  \A i \in Slots : ino[i].refs = Cardinality(Users(i))

(* A caller gets the inode it asked for, read to the end or bad: never the *)
(* directory in place of its attribute, or one still being read.           *)
FoundIsAsked ==
  \A t \in Tasks : \A n \in DOMAIN held[t] :
    /\ ino[held[t][n][2]].key = held[t][n][1]
    /\ ino[held[t][n][2]].state \in {"ok", "bad"}

(* t waits for u: for an inode u reads, or for a mft record u has mapped.  *)
WaitsFor(t, u) ==
  \/ /\ At(t, "wait")
     /\ \E n \in DOMAIN stack[u] : /\ stack[u][n].id = Top(t).id
                                   /\ stack[u][n].pc \in {"read", "mapped", "bitmap"}
     /\ ino[Top(t).id].state = "new"
  \/ At(t, "read") /\ mrec[Record(Top(t))] = u

(* Nobody waits for themselves, directly or through others: "Otherwise we  *)
(* would deadlock in ntfs_attr_iget()" (inode.c) does not happen.          *)
WaitsAcyclic ==
  \A t \in Tasks : ~ \E s \in UNION {[1 .. n -> Tasks] : n \in 1 .. Cardinality(Tasks)} :
    /\ s[1] = t /\ WaitsFor(s[Len(s)], t)
    /\ \A n \in 1 .. Len(s) - 1 : WaitsFor(s[n], s[n + 1])
=============================================================================
