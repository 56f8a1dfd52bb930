--------------------------- MODULE MftRecordProofs --------------------------
(***************************************************************************)
(* For any number of tasks and extent records and any attribute list: the  *)
(* references and the array of extent inodes are in order, an attribute is *)
(* never taken from a stale record, and a lent search context comes back.  *)
(***************************************************************************)
EXTENDS MftRecord, TLAPS

(* The time the provers may take for a step. *)
USE SMTT(60)

Outside == {"out", "lock"}

(* The attribute a context points to is where its entry says, in a record  *)
(* that stays in memory.                                                   *)
Current(c) ==
  /\ c.entry \in DOMAIN AttrList /\ c.based
  /\ c.ino = AttrList[c.entry].mft
  /\ c.ino # Base => c.ino \in attached /\ AttrList[c.entry].seq \in {0, DiskSeq[c.ino]}

Out(t) ==
  /\ pc[t] \in Outside
  /\ ctx[t].ino = Base /\ ctx[t].entry = 0
  /\ saved[t] = NoCtx

(* Where a task is between map_mft_record() and unmap_mft_record(), and    *)
(* what its contexts point to there.                                       *)
Place(t) ==
  /\ pc[t] \in Labels \ Outside
  /\ pc[t] \in {"mapped", "search", "reload"} => ctx[t].ino = Base /\ ctx[t].entry = 0
  /\ pc[t] \in {"ctx", "restore"} =>
       (ctx[t].ino = Base /\ ctx[t].entry = 0) \/ Current(ctx[t])
  /\ pc[t] \in {"extent", "held", "new", "verify"} =>
       /\ ctx[t] = [BaseCtx EXCEPT !.entry = ctx[t].entry]
       /\ ctx[t].ino = Base /\ ctx[t].based
       /\ ctx[t].entry \in DOMAIN AttrList /\ Target(t).mft \in Extents
  /\ saved[t] = NoCtx \/ (Current(saved[t]) /\ saved[t] # NoCtx)
  /\ pc[t] \in {"mapped", "ctx"} => saved[t] = NoCtx
  /\ pc[t] \in {"search", "restore", "reload"} => saved[t] # NoCtx
  /\ pc[t] = "reload" => saved[t].ino # Base
  /\ pc[t] = "held" => Target(t).mft \in attached
  /\ pc[t] \in {"new", "verify"} =>
       Target(t).mft \notin attached /\ seqNo[Target(t).mft] = Target(t).seq

(* The references t has to an extent inode.                                *)
Refs(t, n) ==
  (IF n \in Holds(t) THEN 1 ELSE 0)
  + (IF pc[t] \in {"held", "new", "verify"} /\ Target(t).mft = n THEN 1 ELSE 0)

Kept(n) == IF n \in attached THEN 1 ELSE 0

(* t has the base record mapped: all locks and references are t's.         *)
Owner(t) ==
  /\ Place(t)
  /\ \A n \in Inodes : mrecLock[n] = IF n \in Holds(t) THEN t ELSE NoTask
  /\ extentLock = IF pc[t] \in {"new", "verify"} THEN t ELSE NoTask
  /\ \A n \in Extents : count[n] = Kept(n) + Refs(t, n)

Idle ==
  /\ \A n \in Inodes : mrecLock[n] = NoTask
  /\ extentLock = NoTask
  /\ \A n \in Extents : count[n] = Kept(n)

(* The mrec_lock of the base record admits one task.                       *)
Serial ==
  \/ Idle /\ \A t \in Tasks : Out(t)
  \/ \E t \in Tasks : Owner(t) /\ \A u \in Tasks \ {t} : Out(u)

InodesTyped ==
  count \in [Inodes -> Int] /\ seqNo \in [Inodes -> Nat] /\ DOMAIN mrecLock = Inodes
Types == DOMAIN pc = Tasks /\ DOMAIN ctx = Tasks /\ DOMAIN saved = Tasks /\ InodesTyped

(* What map_extent_mft_record() has verified stays so.                     *)
SeqVerified == \A n \in attached : seqNo[n] \in {0, DiskSeq[n]}

RecordInv == Types /\ Serial /\ attached \subseteq Extents /\ SeqVerified

(* The references to the base inode that a task has: one between           *)
(* map_mft_record() and unmap_mft_record(), and one for the extent_lock.   *)
Extra == IF extentLock = NoTask THEN 0 ELSE 1
Share(t) == (IF pc[t] = "out" THEN 0 ELSE 1) + Extra

(* Only t has moved.                                                       *)
Alone(t) ==
  /\ DOMAIN pc' = Tasks /\ DOMAIN ctx' = Tasks /\ DOMAIN saved' = Tasks
  /\ \A u \in Tasks \ {t} : pc'[u] = pc[u] /\ ctx'[u] = ctx[u] /\ saved'[u] = saved[u]

(* What is shown of every step: the invariant is preserved, and the count  *)
(* of the base inode changes with the task's share of it.                  *)
Fits(t) ==
  /\ RecordInv'
  /\ Alone(t) /\ count'[Base] - count[Base] = Share(t)' - Share(t)

-----------------------------------------------------------------------------
(* The fields of the contexts that the code sets up.                       *)
LEMMA Fields ==
  /\ NewCtx.ino = Base /\ NewCtx.entry = 0
  /\ BaseCtx.ino = Base /\ BaseCtx.entry = 0 /\ BaseCtx.based
  /\ NoCtx.ino = -1
  /\ [BaseCtx EXCEPT !.bad = TRUE].ino = Base /\ [BaseCtx EXCEPT !.bad = TRUE].entry = 0
  /\ [BaseCtx EXCEPT !.bad = TRUE].bad
  BY Zenon DEF NewCtx, BaseCtx, NoCtx

(* The same for a context that has found an attribute.                     *)
LEMMA FieldsFound ==
  ASSUME NEW n, NEW k
  PROVE  /\ [BaseCtx EXCEPT !.ino = n, !.entry = k].ino = n
         /\ [BaseCtx EXCEPT !.ino = n, !.entry = k].entry = k
         /\ [BaseCtx EXCEPT !.ino = n, !.entry = k].based
         /\ [BaseCtx EXCEPT !.entry = k].ino = Base
         /\ [BaseCtx EXCEPT !.entry = k].entry = k
         /\ [BaseCtx EXCEPT !.entry = k].based
         /\ [[BaseCtx EXCEPT !.entry = k] EXCEPT !.ino = n].ino = n
         /\ [[BaseCtx EXCEPT !.entry = k] EXCEPT !.ino = n].entry = k
         /\ [[BaseCtx EXCEPT !.entry = k] EXCEPT !.ino = n].based
  BY Zenon DEF NewCtx, BaseCtx

(* An element of a sequence.                                               *)
LEMMA Element ==
  ASSUME NEW R, NEW q \in Seq(R), NEW k \in DOMAIN q
  PROVE  q[k] \in R
  OBVIOUS

(* Entries of the attribute list name records of the inode.                *)
LEMMA EntryTypes ==
  ASSUME NEW k \in DOMAIN AttrList
  PROVE  AttrList[k].mft \in Inodes /\ AttrList[k].seq \in Nat /\ k # 0
<1>1. AttrList \in Seq([mft : Inodes, seq : Nat])
  BY MftRecordAssumption, Zenon
<1>2. DOMAIN AttrList = 1 .. Len(AttrList) /\ Len(AttrList) \in Nat
  BY <1>1
<1>3. AttrList[k] \in [mft : Inodes, seq : Nat]
  BY <1>1, Element, ZenonT(60)
<1> QED
  BY <1>2, <1>3

(* The numbers of the records.                                             *)
LEMMA Numbers == Base \in Inodes /\ Extents \subseteq Inodes /\ Base \notin Extents
                 /\ Inodes \subseteq Nat /\ NoTask \notin Tasks /\ -1 \notin Inodes
  BY MftRecordAssumption DEF Base, Inodes

-----------------------------------------------------------------------------
(* A task that has the base record mapped is the only one.                 *)
LEMMA Only ==
  ASSUME Serial, NEW t \in Tasks, pc[t] \notin Outside
  PROVE  Owner(t) /\ \A u \in Tasks \ {t} : Out(u)
  BY Zenon DEF Serial, Out

(* The count of the base inode is a number.                                *)
LEMMA BaseCount == RecordInv => count[Base] \in Int
  BY Numbers, Zenon DEF RecordInv, Types, InodesTyped

(* A step that touches neither that nor the extent_lock.                   *)
LEMMA BaseStays ==
  ASSUME RecordInv, NEW m \in Extents, \A n \in Inodes \ {m} : count'[n] = count[n],
         extentLock' = extentLock
  PROVE  count'[Base] - count[Base] = Extra' - Extra
<1>1. Base \in Inodes \ {m}
  BY Numbers, Zenon
<1>2. count'[Base] = count[Base]
  BY <1>1, Zenon
<1> QED
  BY <1>2, BaseCount DEF Extra

(* It goes on, and the others stay outside.                                *)
LEMMA GoesOn ==
  ASSUME NEW t \in Tasks, \A u \in Tasks \ {t} : Out(u), Owner(t)', Alone(t)
  PROVE  Serial'
  BY DEF Serial, Out, Alone

(* It leaves.                                                              *)
LEMMA Leaves ==
  ASSUME NEW t \in Tasks, \A u \in Tasks \ {t} : Out(u), Out(t)', Idle', Alone(t)
  PROVE  Serial'
  BY DEF Serial, Out, Alone

(* What remains to be shown of a step of a task that stays inside.         *)
LEMMA StaysInside ==
  ASSUME RecordInv, NEW t \in Tasks, pc[t] \notin Outside, pc'[t] \notin Outside, Alone(t),
         InodesTyped', Owner(t)', attached' \subseteq Extents, SeqVerified',
         count'[Base] - count[Base] = Extra' - Extra
  PROVE  Fits(t)
<1>1. \A u \in Tasks \ {t} : Out(u)
  BY Only, Zenon DEF RecordInv
<1>2. Serial'
  BY <1>1, GoesOn, Zenon
<1>3. Types'
  BY Zenon DEF Types, Alone
<1>4. Share(t)' - Share(t) = Extra' - Extra
  BY DEF Share, Extra, Outside
<1> QED
  BY <1>2, <1>3, <1>4, Zenon DEF RecordInv, Fits

(* A step of the search: the context moves, and the extent records in S    *)
(* are unmapped.                                                           *)
LEMMA ContextMoves ==
  ASSUME RecordInv, NEW t \in Tasks, NEW S,
         pc[t] \in {"mapped", "ctx", "search", "extent", "restore"},
         pc'[t] \in {"ctx", "search", "restore", "extent", "reload"}, Alone(t),
         count' \in [Inodes -> Int], DOMAIN mrecLock' = Inodes,
         \A n \in Inodes : count'[n] = IF n \in S THEN count[n] - 1 ELSE count[n],
         \A n \in Inodes : mrecLock'[n] = IF n \in S THEN NoTask ELSE mrecLock[n],
         UNCHANGED <<seqNo, array>>,
         S \subseteq Mapped(t), Mapped(t)' = Mapped(t) \ S, Place(t)'
  PROVE  Fits(t)
<1>1. Owner(t)
  BY Only, Zenon DEF RecordInv, Outside
<1>2. Mapped(t) \subseteq Extents
  <2>1. ctx[t].based /\ ctx[t].ino # Base => ctx[t].ino \in attached
    BY <1>1, Zenon DEF Owner, Place, Current
  <2> QED
    BY <2>1, Zenon DEF RecordInv, Mapped
<1>3. Holds(t) = {Base} \cup Mapped(t) /\ Holds(t)' = {Base} \cup (Mapped(t) \ S)
  BY Zenon DEF Holds
<1>4. \A n \in Inodes : mrecLock'[n] = IF n \in Holds(t)' THEN t ELSE NoTask
  <2>1. ASSUME NEW n \in Inodes PROVE n \in Holds(t)' <=> n \in Holds(t) /\ n \notin S
    BY <1>2, <1>3, Numbers, Zenon
  <2> QED
    BY <1>1, <2>1, Zenon DEF Owner
<1>5. ASSUME NEW n \in Extents PROVE count'[n] = Kept(n)' + Refs(t, n)'
  <2>1. Kept(n)' = Kept(n) /\ Kept(n) \in Int
    BY DEF Kept, array
  <2>2. Refs(t, n) = (IF n \in Mapped(t) THEN 1 ELSE 0)
    BY <1>3, Numbers DEF Refs
  <2>3. Refs(t, n)' = (IF n \in Mapped(t) \ S THEN 1 ELSE 0)
    BY <1>3, Numbers DEF Refs
  <2>4. count[n] = Kept(n) + Refs(t, n)
    BY <1>1, Zenon DEF Owner
  <2>5. /\ count'[n] = (IF n \in S THEN count[n] - 1 ELSE count[n])
        /\ n \in S => n \in Mapped(t)
    BY Numbers, Zenon
  <2> QED
    BY <2>1, <2>2, <2>3, <2>4, <2>5
<1>6. extentLock = NoTask /\ extentLock' = NoTask
  BY <1>1, Zenon DEF Owner, array
<1>7. Owner(t)'
  BY <1>4, <1>5, <1>6, Zenon DEF Owner
<1>8. InodesTyped' /\ attached' \subseteq Extents /\ SeqVerified'
  BY Zenon DEF RecordInv, Types, InodesTyped, SeqVerified, array
<1>9. count'[Base] = count[Base] /\ count[Base] \in Int
  BY <1>2, Numbers, Zenon DEF RecordInv, Types, InodesTyped
<1>10. count'[Base] - count[Base] = Extra' - Extra
  BY <1>6, <1>9 DEF Extra
<1> QED
  BY <1>7, <1>8, <1>10, StaysInside, Zenon DEF Outside

(* A task outside moves without anything else changing.                    *)
LEMMA OutsideMoves ==
  ASSUME RecordInv, NEW t \in Tasks, pc[t] \in Outside, pc'[t] \in Outside, Alone(t),
         UNCHANGED <<mrecLock, seqNo, array, ctx, saved>>,
         \A n \in Extents : count'[n] = count[n]
  PROVE  Serial'
<1>1. CASE Idle /\ \A u \in Tasks : Out(u)
  <2>1. Idle'
    BY <1>1, Zenon DEF Idle, Kept, array
  <2>2. \A u \in Tasks : Out(u)'
    BY <1>1, Zenon DEF Out, Alone
  <2> QED
    BY <2>1, <2>2, Zenon DEF Serial
<1>2. ASSUME NEW o \in Tasks, Owner(o), \A u \in Tasks \ {o} : Out(u)
      PROVE  Serial'
  <2>1. pc'[o] = pc[o]
    BY <1>2, Zenon DEF Owner, Place, Alone
  <2>2. Place(o)'
    BY <1>2, <2>1, Zenon DEF Owner, Place, Current, Target, array
  <2>3. Holds(o)' = Holds(o)
    BY <2>1, Zenon DEF Holds, Mapped, Target
  <2>4. \A n \in Extents : Kept(n)' = Kept(n) /\ Refs(o, n)' = Refs(o, n)
    BY <2>1, <2>3, Zenon DEF Kept, Refs, Target, array
  <2>5. Owner(o)'
    BY <1>2, <2>1, <2>2, <2>3, <2>4, Zenon DEF Owner, array
  <2>6. \A u \in Tasks \ {o} : Out(u)'
    BY <1>2, Zenon DEF Out, Alone
  <2> QED
    BY <2>5, <2>6, Zenon DEF Serial
<1> QED
  BY <1>1, <1>2, Zenon DEF RecordInv, Serial

(* unmap_mft_record() of the records in S.                                 *)
LEMMA UnmapDoes ==
  ASSUME RecordInv, NEW S, Unmap(S)
  PROVE  /\ count' \in [Inodes -> Int] /\ DOMAIN mrecLock' = Inodes
         /\ \A n \in Inodes : count'[n] = IF n \in S THEN count[n] - 1 ELSE count[n]
         /\ \A n \in Inodes : mrecLock'[n] = IF n \in S THEN NoTask ELSE mrecLock[n]
  BY DEF Unmap, RecordInv, Types, InodesTyped

(* Where a lookup returns to.                                              *)
LEMMA ReturnPlace ==
  ASSUME RecordInv, NEW t \in Tasks, Place(t), Return(t), UNCHANGED saved,
         attached \subseteq attached',
         (ctx'[t].ino = Base /\ ctx'[t].entry = 0) \/ Current(ctx[t])'
  PROVE  Place(t)' /\ pc'[t] \in {"ctx", "restore"}
<1>1. pc'[t] = IF saved[t] = NoCtx THEN "ctx" ELSE "restore"
  BY Zenon DEF Return, RecordInv, Types
<1>2. saved'[t] = NoCtx \/ (Current(saved[t])' /\ saved'[t] # NoCtx)
  BY Zenon DEF Place, Current
<1> QED
  BY <1>1, <1>2, Zenon DEF Place, Labels, Outside

-----------------------------------------------------------------------------
(* Taking a reference to the base inode.                                   *)
LEMMA MapBaseKeeps ==
  ASSUME RecordInv, NEW t \in Tasks, MapBase(t)
  PROVE  Fits(t)
<1>1. /\ pc[t] = "out" /\ pc'[t] = "lock" /\ Alone(t)
      /\ count'[Base] = count[Base] + 1 /\ count[Base] \in Int
      /\ \A n \in Extents : count'[n] = count[n]
  BY Numbers, Zenon DEF MapBase, Goto, Alone, RecordInv, Types, InodesTyped
<1>2. Serial'
  BY <1>1, OutsideMoves, Zenon DEF MapBase, Outside
<1>3. Types'
  BY <1>1, Numbers DEF MapBase, RecordInv, Types, InodesTyped, Alone
<1>4. attached' \subseteq Extents /\ SeqVerified'
  BY Zenon DEF MapBase, RecordInv, SeqVerified, array
<1>5. Share(t)' - Share(t) = 1
  BY <1>1 DEF MapBase, Share, Extra, array
<1> QED
  BY <1>1, <1>2, <1>3, <1>4, <1>5 DEF RecordInv, Fits

(* Taking its mrec_lock, or failing to map the page.                       *)
LEMMA LockBaseKeeps ==
  ASSUME RecordInv, NEW t \in Tasks, LockBase(t)
  PROVE  Fits(t)
<1>1. attached' \subseteq Extents /\ SeqVerified'
  BY Zenon DEF LockBase, RecordInv, SeqVerified, array
<1>2. CASE Goto(t, "lock", "mapped") /\ mrecLock' = [mrecLock EXCEPT ![Base] = t]
           /\ UNCHANGED count
  <2>1. Idle /\ \A u \in Tasks : Out(u)
    BY Numbers, ZenonT(60)
    DEF RecordInv, LockBase, Serial, Owner, Place, Holds, Outside, Labels
  <2>2. pc[t] = "lock" /\ pc'[t] = "mapped" /\ ctx' = ctx /\ saved' = saved
        /\ UNCHANGED array /\ Alone(t)
    BY <1>2, Zenon DEF LockBase, Goto, RecordInv, Types, Alone
  <2>3. Mapped(t)' = {} /\ Holds(t)' = {Base}
    BY <2>1, <2>2, Zenon DEF Out, Mapped, Holds
  <2>4. Place(t)'
    BY <2>1, <2>2, Zenon DEF Place, Out, Labels, Outside
  <2>5. \A n \in Inodes : mrecLock'[n] = IF n \in Holds(t)' THEN t ELSE NoTask
    BY <1>2, <2>1, <2>3, Zenon DEF Idle, RecordInv, Types, InodesTyped
  <2>6. \A n \in Extents : count'[n] = Kept(n)' + Refs(t, n)'
    BY <1>2, <2>1, <2>2, <2>3, Numbers DEF Idle, Kept, Refs, array
  <2>7. Owner(t)'
    BY <2>1, <2>2, <2>4, <2>5, <2>6, Zenon DEF Owner, Idle, array
  <2>8. Serial'
    BY <2>1, <2>2, <2>7, GoesOn, Zenon
  <2>9. Types'
    BY <1>2, <2>2, Zenon DEF LockBase, Goto, RecordInv, Types, InodesTyped, Alone
  <2>10. count'[Base] - count[Base] = Share(t)' - Share(t)
    BY <1>2, <2>2, Numbers DEF Share, Extra, array, RecordInv, Types, InodesTyped
  <2> QED
    BY <1>1, <2>2, <2>8, <2>9, <2>10, Zenon DEF RecordInv, Fits
<1>3. CASE Goto(t, "lock", "out") /\ MapFails(Base, -1)
  <2>1. /\ pc[t] = "lock" /\ pc'[t] = "out" /\ Alone(t)
        /\ count'[Base] = count[Base] - 1 /\ count[Base] \in Int
        /\ \A n \in Extents : count'[n] = count[n]
    BY <1>3, Numbers, Zenon DEF LockBase, Goto, MapFails, Alone, RecordInv, Types, InodesTyped
  <2>2. Serial'
    BY <1>3, <2>1, OutsideMoves, Zenon DEF LockBase, MapFails, Outside
  <2>3. Types'
    BY <1>3, <2>1, Numbers DEF LockBase, MapFails, RecordInv, Types, InodesTyped, Alone
  <2>4. Share(t)' - Share(t) = -1
    BY <2>1 DEF LockBase, Share, Extra, array
  <2> QED
    BY <1>1, <2>1, <2>2, <2>3, <2>4 DEF RecordInv, Fits
<1> QED
  BY <1>2, <1>3, Zenon DEF LockBase

(* The base record and what the context has mapped are unmapped.           *)
LEMMA LeavingKeeps ==
  ASSUME RecordInv, NEW t \in Tasks, pc[t] \in {"mapped", "ctx"},
         pc' = [pc EXCEPT ![t] = "out"], Unmap({Base} \cup Mapped(t)), SetCtx(t, NewCtx),
         UNCHANGED <<seqNo, array, saved>>
  PROVE  Fits(t)
<1>1. Owner(t) /\ \A u \in Tasks \ {t} : Out(u)
  BY Only, Zenon DEF RecordInv, Outside
<1>2. Holds(t) = {Base} \cup Mapped(t)
  BY Zenon DEF Holds
<1>3. pc'[t] = "out" /\ ctx'[t] = NewCtx /\ Alone(t)
  BY Zenon DEF SetCtx, RecordInv, Types, Alone
<1>4. Out(t)'
  BY <1>1, <1>3, Fields, Zenon DEF Out, Owner, Place, Outside
<1>5. Idle'
  <2>1. \A n \in Inodes : mrecLock'[n] = NoTask
    BY <1>1, <1>2, UnmapDoes, Zenon DEF Owner
  <2>2. extentLock' = NoTask
    BY <1>1, Zenon DEF Owner, array
  <2>3. ASSUME NEW n \in Extents PROVE count'[n] = Kept(n)'
    <3>1. Refs(t, n) = (IF n \in Mapped(t) THEN 1 ELSE 0)
      BY <1>2, Numbers DEF Refs
    <3>2. count'[n] = IF n \in Mapped(t) THEN count[n] - 1 ELSE count[n]
      BY UnmapDoes, Numbers
    <3>3. count[n] = Kept(n) + Refs(t, n) /\ Kept(n) \in Int /\ Kept(n)' = Kept(n)
      BY <1>1 DEF Owner, Kept, array
    <3> QED
      BY <3>1, <3>2, <3>3
  <2> QED
    BY <2>1, <2>2, <2>3, Zenon DEF Idle
<1>6. Serial'
  BY <1>1, <1>3, <1>4, <1>5, Leaves, Zenon
<1>7. Types'
  BY <1>3, UnmapDoes, Zenon DEF RecordInv, Types, InodesTyped, Alone
<1>8. attached' \subseteq Extents /\ SeqVerified'
  BY Zenon DEF RecordInv, SeqVerified, array
<1>9. count'[Base] = count[Base] - 1 /\ count[Base] \in Int
  BY UnmapDoes, Numbers DEF RecordInv, Types, InodesTyped
<1>10. Share(t)' - Share(t) = -1
  BY <1>3 DEF Share, Extra, array
<1> QED
  BY <1>3, <1>6, <1>7, <1>8, <1>9, <1>10 DEF RecordInv, Fits

(* A search context is allocated, or put together with the base record.    *)
LEMMA CtxKeeps ==
  ASSUME RecordInv, NEW t \in Tasks, GetCtx(t) \/ PutCtx(t)
  PROVE  Fits(t)
<1>1. CASE GetCtx(t) /\ Goto(t, "mapped", "ctx") /\ UNCHANGED <<count, mrecLock, page>>
  <2>1. /\ pc[t] = "mapped" /\ pc'[t] = "ctx" /\ ctx'[t] = NewCtx /\ saved' = saved
        /\ Alone(t) /\ UNCHANGED <<seqNo, array>>
    BY <1>1, Zenon DEF GetCtx, Goto, SetCtx, RecordInv, Types, Alone
  <2>2. Place(t)
    BY <2>1, Only, Zenon DEF RecordInv, Outside, Owner
  <2>3. Mapped(t) = {} /\ Mapped(t)' = {}
    BY <2>1, <2>2, Fields, Zenon DEF Mapped, Place
  <2>4. Place(t)'
    BY <2>1, <2>2, Fields, Zenon DEF Place, Labels, Outside
  <2>5. /\ count' \in [Inodes -> Int] /\ DOMAIN mrecLock' = Inodes
        /\ \A n \in Inodes : count'[n] = IF n \in {} THEN count[n] - 1 ELSE count[n]
        /\ \A n \in Inodes : mrecLock'[n] = IF n \in {} THEN NoTask ELSE mrecLock[n]
    BY <1>1, Zenon DEF RecordInv, Types, InodesTyped
  <2> QED
    BY <2>1, <2>3, <2>4, <2>5, ContextMoves
<1>2. CASE GetCtx(t) /\ Goto(t, "mapped", "out") /\ Unmap({Base})
  <2>1. Place(t) /\ pc[t] = "mapped"
    BY <1>2, Only, Zenon DEF RecordInv, Outside, Owner, Goto
  <2>2. {Base} \cup Mapped(t) = {Base}
    BY <2>1, Zenon DEF Mapped, Place
  <2> QED
    BY <1>2, <2>2, LeavingKeeps, ZenonT(60) DEF GetCtx, Goto
<1>3. CASE PutCtx(t)
  BY <1>3, LeavingKeeps, ZenonT(60) DEF PutCtx, Goto
<1> QED
  BY <1>1, <1>2, <1>3, Zenon DEF GetCtx

-----------------------------------------------------------------------------
(* A step of the search that unmaps with unmap_mft_record().               *)
LEMMA SearchMoves ==
  ASSUME RecordInv, NEW t \in Tasks, NEW S,
         pc[t] \in {"ctx", "search", "restore"}, Alone(t),
         pc'[t] \in {"ctx", "search", "restore", "extent", "reload"},
         Unmap(S), UNCHANGED <<seqNo, array>>,
         S \subseteq Mapped(t), Mapped(t)' = Mapped(t) \ S, Place(t)'
  PROVE  Fits(t)
<1>1. /\ count' \in [Inodes -> Int] /\ DOMAIN mrecLock' = Inodes
      /\ \A n \in Inodes : count'[n] = IF n \in S THEN count[n] - 1 ELSE count[n]
      /\ \A n \in Inodes : mrecLock'[n] = IF n \in S THEN NoTask ELSE mrecLock[n]
  BY UnmapDoes, Zenon
<1> QED
  BY <1>1, ContextMoves

(* A step of the search that leaves nothing mapped.                        *)
LEMMA SearchUnmaps ==
  ASSUME RecordInv, NEW t \in Tasks,
         pc[t] \in {"ctx", "search", "restore"}, Alone(t),
         pc'[t] \in {"ctx", "search", "restore", "extent", "reload"},
         Unmap(Mapped(t)), UNCHANGED <<seqNo, array>>, ctx'[t].ino = Base, Place(t)'
  PROVE  Fits(t)
<1>1. Mapped(t) \subseteq Mapped(t) /\ Mapped(t)' = Mapped(t) \ Mapped(t)
  BY Zenon DEF Mapped
<1> QED
  BY <1>1, SearchMoves

(* What a context has mapped where a search begins or ends.                *)
LEMMA MappedHere ==
  ASSUME RecordInv, NEW t \in Tasks, pc[t] \in {"ctx", "search", "restore"}
  PROVE  /\ Place(t) /\ Mapped(t) = (IF ctx[t].ino = Base THEN {} ELSE {ctx[t].ino})
         /\ ctx[t].ino # Base => ctx[t].ino \in attached /\ ctx[t].ino \in Extents
<1>1. Place(t)
  BY Only, Zenon DEF RecordInv, Outside, Owner
<1> QED
  BY <1>1, Zenon DEF Place, Current, Mapped, RecordInv

(* ntfs_attr_reinit_search_ctx().                                          *)
LEMMA ReinitCtxKeeps ==
  ASSUME RecordInv, NEW t \in Tasks, ReinitCtx(t)
  PROVE  Fits(t)
<1>1. /\ pc[t] = "ctx" /\ UNCHANGED <<seqNo, array, saved>> /\ Unmap(Mapped(t))
      /\ Alone(t) /\ pc'[t] = "ctx" /\ ctx'[t] = NewCtx
  BY Zenon DEF ReinitCtx, Reinit, Goto, SetCtx, RecordInv, Types, Alone
<1>2. Place(t)'
  BY <1>1, MappedHere, Fields, ZenonT(60) DEF Place, Labels, Outside
<1> QED
  BY <1>1, <1>2, SearchUnmaps, Fields, Zenon

(* A lookup that ends in the base record without an attribute.             *)
LEMMA BackToBase ==
  ASSUME RecordInv, NEW t \in Tasks, pc[t] \in {"ctx", "search"},
         NotFound(t) \/ LookupError(t), UNCHANGED <<seqNo, array, saved>>
  PROVE  Fits(t)
<1>1. PICK c \in {NewCtx, BaseCtx} : Unmap(Mapped(t)) /\ SetCtx(t, c) /\ Return(t)
  BY Zenon DEF NotFound, LookupError
<1>2. ctx'[t] = c /\ Alone(t)
  BY <1>1, Zenon DEF SetCtx, Return, RecordInv, Types, Alone
<1>3. ctx'[t].ino = Base /\ ctx'[t].entry = 0
  BY <1>2, Fields, Zenon
<1>4. Place(t)' /\ pc'[t] \in {"ctx", "restore"}
  BY <1>1, <1>3, MappedHere, ReturnPlace, Zenon DEF array
<1> QED
  BY <1>1, <1>2, <1>3, <1>4, SearchUnmaps, Zenon

(* A lookup that finds the attribute of entry k.                           *)
LEMMA FoundKeeps ==
  ASSUME RecordInv, NEW t \in Tasks, pc[t] \in {"ctx", "search"},
         NEW k \in DOMAIN AttrList, NEW n, n = AttrList[k].mft,
         n = Base \/ (n = ctx[t].ino /\ AttrList[k].seq = seqNo[n]),
         Unmap(Mapped(t) \ {n}), Return(t),
         SetCtx(t, [BaseCtx EXCEPT !.ino = n, !.entry = k]),
         UNCHANGED <<seqNo, array, saved>>
  PROVE  Fits(t)
<1>1. ctx'[t] = [BaseCtx EXCEPT !.ino = n, !.entry = k] /\ Alone(t)
  BY Zenon DEF SetCtx, Return, RecordInv, Types, Alone
<1>2. ctx'[t].ino = n /\ ctx'[t].entry = k /\ ctx'[t].based
  BY <1>1, FieldsFound
<1>3. Mapped(t)' = IF n = Base THEN {} ELSE {n}
  BY <1>2, Zenon DEF Mapped
<1>4. Mapped(t) \ {n} \subseteq Mapped(t) /\ Mapped(t)' = Mapped(t) \ (Mapped(t) \ {n})
  BY <1>3, MappedHere, Zenon
<1>5. n # Base => n \in attached /\ AttrList[k].seq \in {0, DiskSeq[n]}
  BY MappedHere, Zenon DEF RecordInv, SeqVerified
<1>6. Current(ctx[t])'
  BY <1>2, <1>5, Zenon DEF Current, array
<1>7. Place(t)' /\ pc'[t] \in {"ctx", "restore"}
  BY <1>6, MappedHere, ReturnPlace, Zenon DEF array
<1> QED
  BY <1>1, <1>4, <1>7, SearchMoves

(* ntfs_external_attr_find().                                              *)
LEMMA LookupKeeps ==
  ASSUME RecordInv, NEW t \in Tasks, Lookup(t)
  PROVE  Fits(t)
<1>1. pc[t] \in {"ctx", "search"} /\ UNCHANGED <<seqNo, array, saved>>
  BY Zenon DEF Lookup
<1>2. CASE NotFound(t) \/ LookupError(t)
  BY <1>1, <1>2, BackToBase, Zenon
<1>3. ASSUME NEW k \in DOMAIN AttrList, StopAt(t, k), ~LookupError(t)
      PROVE  Fits(t)
  <2>1. CASE AttrList[k].mft = ctx[t].ino \/ AttrList[k].mft = Base
    BY <1>1, <1>3, <2>1, FoundKeeps, ZenonT(60) DEF StopAt, FindIn
  <2>2. CASE AttrList[k].mft \notin {Base, ctx[t].ino}
    <3>1. /\ Unmap(Mapped(t)) /\ SetCtx(t, [BaseCtx EXCEPT !.entry = k])
          /\ pc' = [pc EXCEPT ![t] = "extent"]
      BY <1>3, <2>2, Zenon DEF StopAt
    <3>2. ctx'[t] = [BaseCtx EXCEPT !.entry = k] /\ pc'[t] = "extent" /\ Alone(t)
      BY <1>1, <3>1, Zenon DEF SetCtx, RecordInv, Types, Alone
    <3>3. ctx'[t].ino = Base /\ ctx'[t].entry = k /\ ctx'[t].based
      BY <3>2, FieldsFound
    <3>4. Target(t)'.mft \in Extents
      BY <2>2, <3>3, EntryTypes, Zenon DEF Inodes, Target
    <3>5. saved'[t] = NoCtx \/ (Current(saved[t])' /\ saved'[t] # NoCtx)
      BY <1>1, MappedHere, ZenonT(60) DEF Place, Current, array
    <3>6. Place(t)'
      BY <3>2, <3>3, <3>4, <3>5, Zenon DEF Place, Labels, Outside
    <3>7. pc'[t] = "extent" /\ Alone(t) /\ Unmap(Mapped(t)) /\ ctx'[t].ino = Base
      BY <3>1, <3>2, <3>3, ZenonT(60)
    <3> QED
      BY <1>1, <3>6, <3>7, SearchUnmaps, Zenon
  <2> QED
    BY <2>1, <2>2, Zenon
<1> QED
  BY <1>2, <1>3, Zenon DEF Lookup

(* ntfs_map_runlist_nolock() saves the caller's context.                   *)
LEMMA SaveCtxKeeps ==
  ASSUME RecordInv, NEW t \in Tasks, SaveCtx(t)
  PROVE  Fits(t)
<1>1. /\ pc[t] = "ctx" /\ ctx[t].entry # 0 /\ UNCHANGED <<seqNo, array>> /\ Unmap(Mapped(t))
      /\ Alone(t) /\ pc'[t] = "search" /\ ctx'[t] = NewCtx /\ saved'[t] = ctx[t]
  BY Zenon DEF SaveCtx, Reinit, Goto, SetCtx, RecordInv, Types, Alone
<1>2. Current(ctx[t]) /\ ctx[t].ino \in Inodes
  BY <1>1, MappedHere, EntryTypes, ZenonT(60) DEF Place, Current
<1>3. ctx[t] # NoCtx
  BY <1>2, Fields, Numbers, Zenon
<1>4. Current(saved[t])'
  BY <1>1, <1>2, Zenon DEF Current, array
<1>5. Place(t)'
  BY <1>1, <1>3, <1>4, Fields, Zenon DEF Place, Labels, Outside
<1> QED
  BY <1>1, <1>5, SearchUnmaps, Fields, Zenon

(* It goes back to the record of the saved context, or first leaves the    *)
(* one that the lookup ended in.                                           *)
LEMMA RestoreCtxKeeps ==
  ASSUME RecordInv, NEW t \in Tasks, RestoreCtx(t)
  PROVE  Fits(t)
<1>1. pc[t] = "restore" /\ Unmap(Mapped(t) \ {saved[t].ino}) /\ UNCHANGED <<seqNo, array>>
  BY Zenon DEF RestoreCtx
<1>2. /\ Mapped(t) = (IF ctx[t].ino = Base THEN {} ELSE {ctx[t].ino})
      /\ saved[t] # NoCtx /\ Current(saved[t])
  BY <1>1, MappedHere, ZenonT(60) DEF Place
<1>3. CASE /\ saved[t].ino \in {Base, ctx[t].ino} /\ pc' = [pc EXCEPT ![t] = "ctx"]
           /\ SetCtx(t, saved[t]) /\ saved' = [saved EXCEPT ![t] = NoCtx]
  <2>1. pc'[t] = "ctx" /\ ctx'[t] = saved[t] /\ saved'[t] = NoCtx /\ Alone(t)
    BY <1>3, Zenon DEF SetCtx, RecordInv, Types, Alone
  <2>2. Current(ctx[t])'
    BY <1>1, <1>2, <2>1, Zenon DEF Current, array
  <2>3. Place(t)'
    BY <2>1, <2>2, Zenon DEF Place, Labels, Outside
  <2>4. Mapped(t)' = (IF saved[t].ino = Base THEN {} ELSE {saved[t].ino})
    BY <1>2, <2>1, Zenon DEF Current, Mapped
  <2>5. /\ Mapped(t) \ {saved[t].ino} \subseteq Mapped(t)
        /\ Mapped(t)' = Mapped(t) \ (Mapped(t) \ {saved[t].ino})
    BY <1>2, <1>3, <2>4, Zenon
  <2> QED
    BY <1>1, <2>1, <2>3, <2>5, SearchMoves
<1>4. CASE /\ saved[t].ino \notin {Base, ctx[t].ino} /\ pc' = [pc EXCEPT ![t] = "reload"]
           /\ SetCtx(t, BaseCtx) /\ UNCHANGED saved
  <2>1. pc'[t] = "reload" /\ ctx'[t] = BaseCtx /\ saved'[t] = saved[t] /\ Alone(t)
    BY <1>4, Zenon DEF SetCtx, RecordInv, Types, Alone
  <2>2. Current(saved[t])'
    BY <1>1, <1>2, <2>1, Zenon DEF Current, array
  <2>3. Place(t)'
    BY <1>2, <1>4, <2>1, <2>2, Fields, Zenon DEF Place, Labels, Outside
  <2>4. Mapped(t) \ {saved[t].ino} = Mapped(t)
    BY <1>2, <1>4, Zenon
  <2> QED
    BY <1>1, <2>1, <2>3, <2>4, SearchUnmaps, Fields, Zenon
<1> QED
  BY <1>3, <1>4, Zenon DEF RestoreCtx

-----------------------------------------------------------------------------
Extending == {"held", "new", "verify"}

(* A step touches no extent record but m.                                  *)
Touches(t, m) ==
  /\ \A n \in Extents \ {m} : (n \in attached' <=> n \in attached) /\ count'[n] = count[n]
  /\ \A n \in Inodes \ {m} : mrecLock'[n] = mrecLock[n] /\ (n \in Holds(t)' <=> n \in Holds(t))

(* The lock and the references of m, and the extent_lock, after the step.  *)
Settles(t, m) ==
  /\ mrecLock'[m] = IF m \in Holds(t)' THEN t ELSE NoTask
  /\ count'[m] = Kept(m)' + Refs(t, m)'
  /\ extentLock' = IF pc'[t] \in {"new", "verify"} THEN t ELSE NoTask

(* A step of map_extent_mft_record(), or of mapping a saved context's      *)
(* record, touches one extent record and the count of the base.            *)
LEMMA ExtentStep ==
  ASSUME RecordInv, NEW t \in Tasks, NEW m \in Extents,
         pc[t] \notin Outside, pc'[t] \notin Outside, Alone(t), Touches(t, m), Settles(t, m),
         InodesTyped', Place(t)', attached' \subseteq Extents, SeqVerified',
         pc[t] \in Extending => Target(t).mft = m,
         pc'[t] \in Extending => Target(t)'.mft = m,
         count'[Base] - count[Base] = Extra' - Extra
  PROVE  Fits(t)
<1>1. Owner(t)
  BY Only, Zenon DEF RecordInv
<1>2. \A n \in Inodes : mrecLock'[n] = IF n \in Holds(t)' THEN t ELSE NoTask
  BY <1>1, Zenon DEF Owner, Touches, Settles
<1>3. ASSUME NEW n \in Extents, n # m
      PROVE  count'[n] = Kept(n)' + Refs(t, n)'
  <2>1. Kept(n)' = Kept(n) /\ count'[n] = count[n]
    BY <1>3, Zenon DEF Kept, Touches
  <2>2. Refs(t, n)' = Refs(t, n)
    BY <1>3, Numbers, Zenon DEF Refs, Extending, Touches
  <2> QED
    BY <1>1, <1>3, <2>1, <2>2, Zenon DEF Owner
<1>4. Owner(t)'
  BY <1>2, <1>3, Zenon DEF Owner, Settles
<1> QED
  BY <1>4, StaysInside, Zenon

(* Inside map_extent_mft_record() the context has nothing mapped.          *)
LEMMA Extended ==
  ASSUME RecordInv, NEW t \in Tasks, pc[t] \in {"extent", "held", "new", "verify"}
  PROVE  /\ Owner(t) /\ Place(t) /\ Mapped(t) = {} /\ Target(t).mft \in Extents
         /\ Holds(t) = {Base} \cup (IF pc[t] = "verify" THEN {Target(t).mft} ELSE {})
<1>1. Owner(t) /\ Place(t)
  BY Only, Zenon DEF RecordInv, Outside, Owner
<1>2. Mapped(t) = {} /\ Target(t).mft \in Extents
  BY <1>1, Zenon DEF Place, Mapped
<1> QED
  BY <1>1, <1>2, Zenon DEF Holds

(* The end of a successful call.                                           *)
LEMMA FoundDoes ==
  ASSUME RecordInv, NEW t \in Tasks, pc[t] \in {"held", "verify"},
         Found(t), UNCHANGED saved, attached \subseteq attached',
         Target(t).mft \in attached', Target(t).seq \in {0, DiskSeq[Target(t).mft]}
  PROVE  /\ Place(t)' /\ pc'[t] \in {"ctx", "restore"} /\ Alone(t)
         /\ Holds(t)' = {Base, Target(t).mft}
<1>1. Place(t) /\ Target(t).mft \in Extents
  BY Extended, Zenon
<1>2. ctx'[t] = [[BaseCtx EXCEPT !.entry = ctx[t].entry] EXCEPT !.ino = Target(t).mft]
      /\ ctx[t].entry \in DOMAIN AttrList
  BY <1>1, ZenonT(60) DEF Place, Found, SetCtx, RecordInv, Types
<1>3. ctx'[t].ino = Target(t).mft /\ ctx'[t].entry = ctx[t].entry /\ ctx'[t].based
  BY <1>2, FieldsFound
<1>4. Current(ctx[t])'
  BY <1>2, <1>3, Zenon DEF Current, Target
<1>5. Place(t)' /\ pc'[t] \in {"ctx", "restore"}
  BY <1>1, <1>4, ReturnPlace, Zenon DEF Found
<1>6. Mapped(t)' = {Target(t).mft}
  BY <1>1, <1>3, Numbers, Zenon DEF Mapped
<1>7. Holds(t)' = {Base, Target(t).mft}
  BY <1>5, <1>6, Zenon DEF Holds
<1>8. Alone(t)
  BY Zenon DEF RecordInv, Types, Found, Return, SetCtx, Alone
<1> QED
  BY <1>5, <1>7, <1>8, Zenon

(* The end of a call that failed.                                          *)
LEMMA RefusedDoes ==
  ASSUME RecordInv, NEW t \in Tasks, pc[t] \in {"extent", "held", "new", "verify"},
         Refused(t), UNCHANGED saved, attached' = attached
  PROVE  /\ Place(t)' /\ pc'[t] \in {"ctx", "restore"} /\ Alone(t)
         /\ Holds(t)' = {Base} /\ Mapped(t)' = {}
<1>1. Place(t)
  BY Extended, Zenon
<1>2. ctx'[t].ino = Base /\ ctx'[t].entry = 0
  BY Fields, Zenon DEF Refused, SetCtx, RecordInv, Types
<1>3. Place(t)' /\ pc'[t] \in {"ctx", "restore"}
  BY <1>1, <1>2, ReturnPlace, Zenon DEF Refused
<1>4. Mapped(t)' = {}
  BY <1>2, Zenon DEF Mapped
<1>5. Holds(t)' = {Base}
  BY <1>3, <1>4, Zenon DEF Holds
<1>6. Alone(t)
  BY Zenon DEF RecordInv, Types, Refused, Return, SetCtx, Alone
<1> QED
  BY <1>3, <1>4, <1>5, <1>6, Zenon

(* The extent inode is known already: a reference is taken.                *)
LEMMA HoldExtentKeeps ==
  ASSUME RecordInv, NEW t \in Tasks, HoldExtent(t)
  PROVE  Fits(t)
<1>m. PICK m : m = Target(t).mft
  BY Zenon
<1>1. /\ pc[t] = "extent" /\ pc' = [pc EXCEPT ![t] = "held"] /\ m \in attached
      /\ count' = [count EXCEPT ![m] = @ + 1]
      /\ UNCHANGED <<mrecLock, page, seqNo, array, ctx, saved>>
  BY <1>m, Zenon DEF HoldExtent, Goto
<1>2. Owner(t) /\ Place(t) /\ Mapped(t) = {} /\ m \in Extents /\ Holds(t) = {Base}
  BY <1>m, <1>1, Extended, Zenon
<1>3. pc'[t] = "held" /\ Target(t)' = Target(t) /\ Alone(t)
  BY <1>1, Zenon DEF RecordInv, Types, Target, Alone
<1>4. Mapped(t)' = {} /\ Holds(t)' = {Base}
  BY <1>1, <1>2, <1>3, Zenon DEF Mapped, Holds
<1>5. m \in Inodes /\ m # Base
  BY <1>2, Numbers, Zenon
<1>6. /\ InodesTyped' /\ count'[m] = count[m] + 1
      /\ \A n \in Inodes \ {m} : count'[n] = count[n]
  BY <1>1, <1>5 DEF RecordInv, Types, InodesTyped
<1>7. attached' = attached /\ attached' \subseteq Extents /\ SeqVerified'
  BY <1>1, Zenon DEF RecordInv, SeqVerified, array
<1>8. Place(t)'
  BY <1>m, <1>1, <1>2, <1>3, Zenon DEF Place, Current, Target, array, Labels, Outside
<1>9. Kept(m) = 1 /\ Kept(m)' = 1 /\ Refs(t, m) = 0 /\ Refs(t, m)' = 1
  BY <1>m, <1>1, <1>2, <1>3, <1>4, <1>5 DEF Kept, Refs, array
<1>10. extentLock = NoTask /\ extentLock' = NoTask /\ count[m] = 1 /\ mrecLock'[m] = NoTask
  BY <1>1, <1>2, <1>5, <1>9 DEF Owner, array
<1>11. Settles(t, m)
  BY <1>3, <1>4, <1>5, <1>6, <1>9, <1>10, Zenon DEF Settles
<1>12. Touches(t, m)
  BY <1>1, <1>2, <1>4, <1>6, <1>7, Numbers, Zenon DEF Touches
<1>13. count'[Base] - count[Base] = Extra' - Extra
  BY <1>2, <1>6, <1>10, BaseStays, Zenon
<1> QED
  BY <1>m, <1>1, <1>2, <1>3, <1>6, <1>7, <1>8, <1>11, <1>12, <1>13, ExtentStep, Zenon
  DEF Outside, Extending

-----------------------------------------------------------------------------
(* Its record is mapped and its number verified.                           *)
LEMMA MapHeldExtentKeeps ==
  ASSUME RecordInv, NEW t \in Tasks, MapHeldExtent(t)
  PROVE  Fits(t)
<1>m. PICK m : m = Target(t).mft
  BY Zenon
<1>1. pc[t] = "held" /\ UNCHANGED <<seqNo, array, saved>>
  BY Zenon DEF MapHeldExtent
<1>2. Owner(t) /\ Place(t) /\ m \in Extents /\ Holds(t) = {Base} /\ m \in attached
  BY <1>m, <1>1, Extended, Zenon DEF Place
<1>3. m \in Inodes /\ m # Base
  BY <1>2, Numbers, Zenon
<1>4. count[m] = 2 /\ Kept(m)' = 1 /\ mrecLock[m] = NoTask
      /\ extentLock = NoTask /\ extentLock' = NoTask
  <2>1. Kept(m) = 1 /\ Kept(m)' = 1 /\ Refs(t, m) = 1
    BY <1>m, <1>1, <1>2, <1>3 DEF Kept, Refs, array
  <2> QED
    BY <1>1, <1>2, <1>3, <2>1 DEF Owner, array
<1>5. attached' = attached /\ attached' \subseteq Extents /\ SeqVerified'
  BY <1>1, Zenon DEF RecordInv, SeqVerified, array
<1>6. CASE DiskSeq[m] = Target(t).seq /\ Map(t, m, -1) /\ Found(t)
  <2>1. Place(t)' /\ pc'[t] \in {"ctx", "restore"} /\ Holds(t)' = {Base, m} /\ Alone(t)
    BY <1>m, <1>1, <1>2, <1>6, FoundDoes, Zenon DEF array
  <2>2. /\ InodesTyped' /\ \A n \in Inodes : count'[n] = count[n]
        /\ mrecLock'[m] = t /\ \A n \in Inodes \ {m} : mrecLock'[n] = mrecLock[n]
    BY <1>1, <1>3, <1>6 DEF Map, RecordInv, Types, InodesTyped
  <2>3. Settles(t, m)
    BY <1>3, <1>4, <2>1, <2>2 DEF Refs, Settles
  <2>4. Touches(t, m)
    BY <1>2, <1>5, <2>1, <2>2, Numbers, Zenon DEF Touches
  <2>5. count'[Base] - count[Base] = Extra' - Extra
    BY <1>2, <1>4, <2>2, BaseStays, Zenon
  <2> QED
    BY <1>m, <1>1, <1>2, <1>5, <2>1, <2>2, <2>3, <2>4, <2>5, ExtentStep, Zenon DEF Outside, Extending
<1>7. CASE MapFails(m, -1) /\ Refused(t)
  <2>1. Place(t)' /\ pc'[t] \in {"ctx", "restore"} /\ Holds(t)' = {Base} /\ Alone(t)
    BY <1>1, <1>7, RefusedDoes, Zenon DEF array
  <2>2. /\ InodesTyped' /\ mrecLock' = mrecLock /\ count'[m] = count[m] - 1
        /\ \A n \in Inodes \ {m} : count'[n] = count[n]
    BY <1>1, <1>3, <1>7 DEF MapFails, RecordInv, Types, InodesTyped
  <2>3. Settles(t, m)
    BY <1>3, <1>4, <2>1, <2>2 DEF Refs, Settles
  <2>4. Touches(t, m)
    BY <1>2, <1>5, <2>1, <2>2, Numbers, Zenon DEF Touches
  <2>5. count'[Base] - count[Base] = Extra' - Extra
    BY <1>2, <1>4, <2>2, BaseStays, Zenon
  <2> QED
    BY <1>m, <1>1, <1>2, <1>5, <2>1, <2>2, <2>3, <2>4, <2>5, ExtentStep, Zenon DEF Outside, Extending
<1> QED
  BY <1>m, <1>6, <1>7, Zenon DEF MapHeldExtent

(* ntfs_new_extent_inode() under the extent_lock, or no memory for it.     *)
LEMMA NewExtentKeeps ==
  ASSUME RecordInv, NEW t \in Tasks, NewExtent(t)
  PROVE  Fits(t)
<1>m. PICK m : m = Target(t).mft
  BY Zenon
<1>1. /\ pc[t] = "extent" /\ m \notin attached /\ extentLock = NoTask
      /\ UNCHANGED <<mrecLock, page, attached, slots, saved>>
  BY <1>m, Zenon DEF NewExtent
<1>2. Owner(t) /\ Place(t) /\ m \in Extents /\ Holds(t) = {Base} /\ Mapped(t) = {}
  BY <1>m, <1>1, Extended, Zenon
<1>3. m \in Inodes /\ m # Base /\ Target(t).seq \in Nat
  BY <1>m, <1>1, <1>2, Numbers, EntryTypes, Zenon DEF Place, Target
<1>4. CASE /\ pc' = [pc EXCEPT ![t] = "new"] /\ UNCHANGED ctx /\ extentLock' = t
           /\ count' = [count EXCEPT ![Base] = @ + 1, ![m] = 1]
           /\ seqNo' = [seqNo EXCEPT ![m] = Target(t).seq]
  <2>1. pc'[t] = "new" /\ Target(t)' = Target(t) /\ Alone(t)
    BY <1>1, <1>4, Zenon DEF RecordInv, Types, Target, Alone
  <2>2. Mapped(t)' = {} /\ Holds(t)' = {Base}
    BY <1>2, <1>4, <2>1, Zenon DEF Mapped, Holds
  <2>3. InodesTyped'
    BY <1>1, <1>3, <1>4, Numbers DEF RecordInv, Types, InodesTyped
  <2>4. \A n \in Inodes : count'[n] = IF n = m THEN 1
                                      ELSE IF n = Base THEN count[n] + 1 ELSE count[n]
    BY <1>3, <1>4, Numbers, Zenon DEF RecordInv, Types, InodesTyped
  <2>5. /\ attached' \subseteq Extents /\ seqNo'[m] = Target(t).seq
        /\ \A n \in Inodes \ {m} : seqNo'[n] = seqNo[n]
    BY <1>1, <1>3, <1>4, Zenon DEF RecordInv, Types, InodesTyped
  <2>6. SeqVerified'
    BY <1>1, <2>5, Numbers, Zenon DEF RecordInv, SeqVerified
  <2>7. Place(t)'
    BY <1>m, <1>1, <1>2, <1>4, <2>1, <2>5, Zenon DEF Place, Current, Target, Labels, Outside
  <2>8. Kept(m)' = 0 /\ Refs(t, m)' = 1 /\ mrecLock[m] = NoTask
    BY <1>m, <1>1, <1>2, <1>3, <2>1, <2>2 DEF Owner, Kept, Refs
  <2>9. /\ extentLock' = t /\ mrecLock' = mrecLock /\ attached' = attached
        /\ count'[m] = 1 /\ count'[Base] = count[Base] + 1
    <3>1. extentLock' = t /\ mrecLock' = mrecLock /\ attached' = attached
      BY <1>1, <1>4, ZenonT(60)
    <3>2. count'[m] = 1 /\ count'[Base] = count[Base] + 1
      BY <1>3, <2>4, Numbers, Zenon
    <3> QED
      BY <3>1, <3>2, Zenon
  <2>10. Settles(t, m)
    BY <1>3, <2>1, <2>2, <2>8, <2>9 DEF Settles
  <2>11. Touches(t, m)
    BY <1>2, <2>2, <2>4, <2>9, Numbers, Zenon DEF Touches
  <2>12. count'[Base] - count[Base] = Extra' - Extra
    BY <1>1, <2>9, Numbers, BaseCount DEF Extra
  <2> QED
    BY <1>m, <1>1, <1>2, <2>1, <2>3, <2>5, <2>6, <2>7, <2>10, <2>11, <2>12, ExtentStep, Zenon
    DEF Outside, Extending
<1>5. CASE Refused(t) /\ UNCHANGED <<count, seqNo, extentLock>>
  <2>1. Place(t)' /\ pc'[t] \in {"ctx", "restore"} /\ Mapped(t)' = {} /\ Alone(t)
    BY <1>1, <1>5, RefusedDoes, Zenon
  <2>2. /\ count' \in [Inodes -> Int] /\ DOMAIN mrecLock' = Inodes
        /\ \A n \in Inodes : count'[n] = IF n \in {} THEN count[n] - 1 ELSE count[n]
        /\ \A n \in Inodes : mrecLock'[n] = IF n \in {} THEN NoTask ELSE mrecLock[n]
        /\ UNCHANGED <<seqNo, array>>
    BY <1>1, <1>5, Zenon DEF RecordInv, Types, InodesTyped, array
  <2> QED
    BY <1>1, <1>2, <2>1, <2>2, ContextMoves
<1> QED
  BY <1>m, <1>1, <1>4, <1>5, Zenon DEF NewExtent, Goto

(* ntfs_clear_extent_inode() of a new inode that was not attached.         *)
LEMMA DestroyKeeps ==
  ASSUME RecordInv, NEW t \in Tasks, pc[t] \in {"new", "verify"},
         NEW m, m = Target(t).mft, Destroy(t, m), UNCHANGED saved,
         DOMAIN mrecLock' = Inodes, mrecLock'[m] = NoTask,
         \A n \in Inodes \ {m} : mrecLock'[n] = mrecLock[n]
  PROVE  Fits(t)
<1>1. /\ Owner(t) /\ Place(t) /\ m \in Extents /\ m \notin attached
      /\ Holds(t) \ {m} = {Base} \ {m}
  BY Extended, Zenon DEF Place
<1>2. m \in Inodes /\ m # Base
  BY <1>1, Numbers, Zenon
<1>3. Place(t)' /\ pc'[t] \in {"ctx", "restore"} /\ Holds(t)' = {Base} /\ Alone(t)
  BY RefusedDoes, Zenon DEF Destroy
<1>4. \A n \in Inodes : count'[n] = IF n = m THEN 0
                                    ELSE IF n = Base THEN count[n] - 1 ELSE count[n]
  BY <1>2, Numbers, Zenon DEF Destroy, RecordInv, Types, InodesTyped
<1>5. InodesTyped'
  BY <1>2, Numbers DEF Destroy, RecordInv, Types, InodesTyped
<1>6. /\ attached' = attached /\ extentLock' = NoTask
      /\ \A n \in Inodes \ {m} : seqNo'[n] = seqNo[n]
  BY <1>2, Zenon DEF Destroy, RecordInv, Types, InodesTyped
<1>7. attached' \subseteq Extents /\ SeqVerified'
  BY <1>1, <1>6, Numbers, Zenon DEF RecordInv, SeqVerified
<1>8. Kept(m)' = 0 /\ Refs(t, m)' = 0
  BY <1>1, <1>2, <1>3, <1>6 DEF Kept, Refs
<1>9. Settles(t, m)
  BY <1>2, <1>3, <1>4, <1>6, <1>8 DEF Settles
<1>10. Touches(t, m)
  BY <1>1, <1>2, <1>3, <1>4, <1>6, Numbers, Zenon DEF Touches
<1>11. Extra' = 0 /\ Extra = 1
  BY <1>1, <1>6, Numbers, Zenon DEF Extra, Owner
<1>12. count'[Base] - count[Base] = Extra' - Extra
  <2>1. count'[Base] = count[Base] - 1
    BY <1>2, <1>4, Numbers, Zenon
  <2>2. count[Base] \in Int
    BY BaseCount, Zenon
  <2> QED
    BY <1>11, <2>1, <2>2
<1> QED
  BY <1>1, <1>3, <1>5, <1>7, <1>9, <1>10, <1>12, ExtentStep, Zenon DEF Outside, Extending

(* Its record is mapped, or the new inode is destroyed.                    *)
LEMMA MapNewExtentKeeps ==
  ASSUME RecordInv, NEW t \in Tasks, MapNewExtent(t)
  PROVE  Fits(t)
<1>m. PICK m : m = Target(t).mft
  BY Zenon
<1>1. pc[t] = "new" /\ UNCHANGED saved
  BY Zenon DEF MapNewExtent, Goto
<1>2. /\ Owner(t) /\ Place(t) /\ m \in Extents /\ m \notin attached
      /\ Holds(t) = {Base} /\ Mapped(t) = {}
  BY <1>m, <1>1, Extended, Zenon DEF Place
<1>3. m \in Inodes /\ m # Base
  BY <1>2, Numbers, Zenon
<1>4. CASE /\ pc' = [pc EXCEPT ![t] = "verify"] /\ Map(t, m, 0)
           /\ UNCHANGED <<seqNo, array, ctx>>
  <2>1. pc'[t] = "verify" /\ Target(t)' = Target(t) /\ Alone(t)
    BY <1>1, <1>4, Zenon DEF RecordInv, Types, Target, Alone
  <2>2. Mapped(t)' = {} /\ Holds(t)' = {Base, m}
    BY <1>m, <1>2, <1>4, <2>1, Zenon DEF Mapped, Holds
  <2>3. InodesTyped' /\ count'[m] = count[m] + 1 /\ mrecLock'[m] = t
        /\ \A n \in Inodes \ {m} : mrecLock'[n] = mrecLock[n] /\ count'[n] = count[n]
    BY <1>3, <1>4 DEF RecordInv, Types, InodesTyped, Map
  <2>4. attached' = attached /\ attached' \subseteq Extents /\ SeqVerified'
    BY <1>4, Zenon DEF RecordInv, SeqVerified, array
  <2>5. Place(t)'
    BY <1>m, <1>1, <1>2, <1>4, <2>1, Zenon DEF Place, Current, Target, Labels, Outside, array
  <2>6. Kept(m) = 0 /\ Kept(m)' = 0 /\ Refs(t, m) = 1 /\ Refs(t, m)' = 2
    BY <1>m, <1>1, <1>2, <1>3, <2>1, <2>2, <2>4 DEF Kept, Refs
  <2>7. extentLock = t /\ extentLock' = t /\ count[m] = 1
    BY <1>1, <1>2, <1>4, <2>6 DEF Owner, array
  <2>8. Settles(t, m)
    BY <2>1, <2>2, <2>3, <2>6, <2>7 DEF Settles
  <2>9. Touches(t, m)
    BY <1>2, <2>2, <2>3, <2>4, Numbers, Zenon DEF Touches
  <2>10. count'[Base] - count[Base] = Extra' - Extra
    BY <1>2, <2>3, <2>7, BaseStays, Zenon
  <2> QED
    BY <1>m, <1>1, <1>2, <2>1, <2>3, <2>4, <2>5, <2>8, <2>9, <2>10, ExtentStep, Zenon
    DEF Outside, Extending
<1>5. CASE Destroy(t, m) /\ UNCHANGED <<mrecLock, page>>
  <2>1. DOMAIN mrecLock' = Inodes /\ mrecLock'[m] = NoTask
    BY <1>2, <1>3, <1>5, Zenon DEF RecordInv, Types, InodesTyped, Owner
  <2> QED
    BY <1>m, <1>1, <1>5, <2>1, DestroyKeeps, Zenon
<1> QED
  BY <1>m, <1>4, <1>5, Zenon DEF MapNewExtent, Goto

(* It is attached to the base inode, or destroyed.                         *)
LEMMA AttachExtentKeeps ==
  ASSUME RecordInv, NEW t \in Tasks, AttachExtent(t)
  PROVE  Fits(t)
<1>m. PICK m : m = Target(t).mft
  BY Zenon
<1>1. pc[t] = "verify" /\ UNCHANGED saved
  BY Zenon DEF AttachExtent
<1>2. /\ Owner(t) /\ Place(t) /\ m \in Extents /\ m \notin attached
      /\ Holds(t) = {Base, m} /\ seqNo[m] = Target(t).seq
  BY <1>m, <1>1, Extended, Zenon DEF Place
<1>3. m \in Inodes /\ m # Base
  BY <1>2, Numbers, Zenon
<1>4. CASE /\ Target(t).seq \in {0, DiskSeq[m]} /\ attached' = attached \cup {m}
           /\ extentLock' = NoTask /\ count' = [count EXCEPT ![Base] = @ - 1] /\ Found(t)
           /\ UNCHANGED <<mrecLock, page, seqNo>>
  <2>1. Place(t)' /\ pc'[t] \in {"ctx", "restore"} /\ Holds(t)' = {Base, m} /\ Alone(t)
    BY <1>m, <1>1, <1>4, FoundDoes, Zenon
  <2>2. InodesTyped' /\ count'[Base] = count[Base] - 1
        /\ \A n \in Extents : count'[n] = count[n]
    BY <1>4, Numbers DEF RecordInv, Types, InodesTyped
  <2>3. attached' \subseteq Extents /\ SeqVerified'
    BY <1>2, <1>4, Zenon DEF RecordInv, SeqVerified
  <2>4. Kept(m) = 0 /\ Kept(m)' = 1 /\ Refs(t, m) = 2 /\ Refs(t, m)' = 1
    BY <1>m, <1>1, <1>2, <1>4, <2>1 DEF Kept, Refs
  <2>5. extentLock = t /\ mrecLock[m] = t /\ count[m] = 2
    BY <1>1, <1>2, <1>3, <2>4 DEF Owner
  <2>6. Settles(t, m)
    BY <1>2, <1>4, <2>1, <2>2, <2>4, <2>5 DEF Settles
  <2>7. Touches(t, m)
    BY <1>2, <1>4, <2>1, <2>2, Zenon DEF Touches
  <2>8. count'[Base] - count[Base] = Extra' - Extra
    BY <1>4, <2>2, <2>5, Numbers, BaseCount DEF Extra
  <2> QED
    BY <1>m, <1>1, <1>2, <2>1, <2>2, <2>3, <2>6, <2>7, <2>8, ExtentStep, Zenon
    DEF Outside, Extending
<1>5. CASE Destroy(t, m) /\ mrecLock' = [mrecLock EXCEPT ![m] = NoTask]
  <2>1. /\ DOMAIN mrecLock' = Inodes /\ mrecLock'[m] = NoTask
        /\ \A n \in Inodes \ {m} : mrecLock'[n] = mrecLock[n]
    BY <1>3, <1>5, Zenon DEF RecordInv, Types, InodesTyped
  <2> QED
    BY <1>m, <1>1, <1>5, <2>1, DestroyKeeps, Zenon
<1> QED
  BY <1>m, <1>4, <1>5, Zenon DEF AttachExtent

(* The record of a saved context is mapped again, or cannot be.            *)
LEMMA ReloadSavedKeeps ==
  ASSUME RecordInv, NEW t \in Tasks, ReloadSaved(t)
  PROVE  Fits(t)
<1>m. PICK m : m = saved[t].ino
  BY Zenon
<1>1. /\ pc[t] = "reload" /\ pc' = [pc EXCEPT ![t] = "ctx"]
      /\ saved' = [saved EXCEPT ![t] = NoCtx] /\ UNCHANGED <<seqNo, array>>
      /\ \E c : SetCtx(t, c)
  BY Zenon DEF ReloadSaved, Goto
<1>2. Owner(t) /\ Place(t)
  BY <1>1, Only, Zenon DEF RecordInv, Outside, Owner
<1>3. /\ Current(saved[t]) /\ m # Base /\ m \in attached /\ m \in Extents /\ m \in Inodes
      /\ ctx[t].ino = Base
  BY <1>m, <1>1, <1>2, Numbers, Zenon DEF Place, Current, RecordInv
<1>4. Holds(t) = {Base}
  BY <1>1, <1>3, Zenon DEF Holds, Mapped
<1>5. Kept(m) = 1 /\ Kept(m)' = 1 /\ Refs(t, m) = 0
  BY <1>1, <1>3, <1>4 DEF Kept, Refs, array
<1>6. count[m] = 1 /\ mrecLock[m] = NoTask /\ extentLock = NoTask /\ extentLock' = NoTask
  BY <1>1, <1>2, <1>3, <1>4, <1>5 DEF Owner, array
<1>7. attached' = attached /\ attached' \subseteq Extents /\ SeqVerified'
  BY <1>1, Zenon DEF RecordInv, SeqVerified, array
<1>8. pc'[t] = "ctx" /\ saved'[t] = NoCtx /\ Alone(t)
  BY <1>1, Zenon DEF RecordInv, Types, SetCtx, Alone
<1>9. CASE Map(t, m, 0) /\ SetCtx(t, saved[t])
  <2>1. ctx'[t] = saved[t]
    BY <1>9, Zenon DEF SetCtx, RecordInv, Types
  <2>2. Current(ctx[t])'
    BY <1>3, <1>7, <2>1, Zenon DEF Current
  <2>3. Place(t)'
    BY <1>8, <2>2, Zenon DEF Place, Labels, Outside
  <2>4. Holds(t)' = {Base, m}
    BY <1>m, <1>3, <1>8, <2>1, Zenon DEF Holds, Mapped, Current
  <2>5. /\ InodesTyped' /\ mrecLock'[m] = t /\ count'[m] = 2
        /\ \A n \in Inodes \ {m} : mrecLock'[n] = mrecLock[n] /\ count'[n] = count[n]
    BY <1>1, <1>3, <1>6, <1>9 DEF Map, RecordInv, Types, InodesTyped
  <2>6. Settles(t, m)
    BY <1>5, <1>6, <1>8, <2>4, <2>5 DEF Refs, Settles
  <2>7. Touches(t, m)
    BY <1>3, <1>4, <1>7, <2>4, <2>5, Numbers, Zenon DEF Touches
  <2>8. count'[Base] - count[Base] = Extra' - Extra
    BY <1>3, <1>6, <2>5, BaseStays, Zenon
  <2> QED
    BY <1>1, <1>3, <1>7, <1>8, <2>3, <2>5, <2>6, <2>7, <2>8, ExtentStep, Zenon DEF Outside, Extending
<1>10. CASE MapFails(m, 0) /\ SetCtx(t, [BaseCtx EXCEPT !.bad = TRUE])
  <2>1. ctx'[t].ino = Base /\ ctx'[t].entry = 0
    BY <1>10, Fields, Zenon DEF SetCtx, RecordInv, Types
  <2>2. Place(t)' /\ Holds(t)' = {Base}
    BY <1>8, <2>1, Zenon DEF Place, Labels, Outside, Holds, Mapped
  <2>3. InodesTyped' /\ mrecLock' = mrecLock /\ \A n \in Inodes : count'[n] = count[n]
    BY <1>1, <1>3, <1>10 DEF MapFails, RecordInv, Types, InodesTyped
  <2>4. Settles(t, m)
    BY <1>3, <1>5, <1>6, <1>8, <2>2, <2>3 DEF Refs, Settles
  <2>5. Touches(t, m)
    BY <1>3, <1>4, <1>7, <2>2, <2>3, Numbers, Zenon DEF Touches
  <2>6. count'[Base] - count[Base] = Extra' - Extra
    BY <1>3, <1>6, <2>3, BaseStays, Zenon
  <2> QED
    BY <1>1, <1>3, <1>7, <1>8, <2>2, <2>3, <2>4, <2>5, <2>6, ExtentStep, Zenon DEF Outside, Extending
<1> QED
  BY <1>m, <1>9, <1>10, Zenon DEF ReloadSaved

-----------------------------------------------------------------------------
(* Every step of a task preserves the invariant.                           *)
LEMMA TaskStep ==
  ASSUME RecordInv, NEW t \in Tasks, Step(t)
  PROVE  Fits(t)
  BY MapBaseKeeps, LockBaseKeeps, CtxKeeps, ReinitCtxKeeps, LookupKeeps,
     HoldExtentKeeps, MapHeldExtentKeeps, NewExtentKeeps, MapNewExtentKeeps,
     AttachExtentKeeps, SaveCtxKeeps, RestoreCtxKeeps, ReloadSavedKeeps, Zenon DEF Step

(* ntfs_evict_big_inode() finds every task outside.                        *)
LEMMA EvictKeeps ==
  ASSUME RecordInv, Evict
  PROVE  RecordInv' /\ count'[Base] = count[Base]
<1>1. /\ \A t \in Tasks : pc[t] = "out"
      /\ attached' = {} /\ UNCHANGED <<mrecLock, extentLock, pc, ctx, saved>>
      /\ count' = [n \in Inodes |-> IF n \in attached THEN 0 ELSE count[n]]
      /\ seqNo' = [n \in Inodes |-> IF n \in attached THEN 0 ELSE seqNo[n]]
  BY Zenon DEF Evict
<1>2. Idle /\ \A t \in Tasks : Out(t)
  BY <1>1, ZenonT(60) DEF RecordInv, Serial, Owner, Place, Outside
<1>3. \A n \in Extents : count'[n] = Kept(n)'
  BY <1>1, <1>2, Numbers, Zenon DEF Idle, Kept
<1>4. Serial'
  BY <1>1, <1>2, <1>3, Zenon DEF Serial, Idle, Out
<1>5. Types'
  BY <1>1 DEF RecordInv, Types, InodesTyped
<1>6. attached' \subseteq Extents /\ SeqVerified'
  BY <1>1, Zenon DEF SeqVerified
<1>7. count'[Base] = count[Base]
  BY <1>1, Numbers, Zenon DEF RecordInv
<1> QED
  BY <1>4, <1>5, <1>6, <1>7, Zenon DEF RecordInv

(* The invariant says nothing of anything else.                            *)
LEMMA StutterKeeps ==
  ASSUME RecordInv, UNCHANGED vars
  PROVE  RecordInv'
<1> USE DEF vars, inodes, array
<1>1. Types' /\ attached' \subseteq Extents /\ SeqVerified'
  BY Zenon DEF RecordInv, Types, InodesTyped, SeqVerified
<1>2. Idle' <=> Idle
  BY Zenon DEF Idle, Kept
<1>3. ASSUME NEW t \in Tasks
      PROVE  (Out(t)' <=> Out(t)) /\ (Owner(t)' <=> Owner(t))
  <2>1. Out(t)' <=> Out(t)
    BY Zenon DEF Out
  <2>2. Place(t)' <=> Place(t)
    BY Zenon DEF Place, Current, Target
  <2>3. Holds(t)' = Holds(t)
    BY Zenon DEF Holds, Mapped, Target
  <2>4. \A n \in Extents : Kept(n)' = Kept(n) /\ Refs(t, n)' = Refs(t, n)
    BY <2>3, Zenon DEF Kept, Refs, Target
  <2>5. Owner(t)' <=> Owner(t)
    BY <2>2, <2>3, <2>4, Zenon DEF Owner
  <2> QED
    BY <2>1, <2>5, Zenon
<1>4. Serial'
  BY <1>2, <1>3, Zenon DEF RecordInv, Serial
<1> QED
  BY <1>1, <1>4, Zenon DEF RecordInv

(* The initial states.                                                     *)
LEMMA SerialInit == Init => RecordInv
<1> SUFFICES ASSUME Init PROVE RecordInv
  BY Zenon
<1> USE DEF Init
<1>1. Types
  BY MftRecordAssumption, Numbers DEF Types, InodesTyped
<1>2. Serial
  BY Fields, Numbers, Zenon DEF Serial, Idle, Out, Outside, Kept
<1>3. attached \subseteq Extents /\ SeqVerified
  BY Zenon DEF SeqVerified
<1> QED
  BY <1>1, <1>2, <1>3, Zenon DEF RecordInv

(* One task at a time works on the records, all locks and references are   *)
(* its own, and what it has found is verified.                             *)
THEOREM RecordsSerial == Spec => []RecordInv
<1>1. RecordInv /\ [Next]_vars => RecordInv'
  BY TaskStep, EvictKeeps, StutterKeeps, Zenon DEF Next, Fits
<1> QED
  BY <1>1, SerialInit, PTL DEF Spec

(* The page of a record is mapped exactly while its mrec_lock is held.     *)
PagesMapped ==
  /\ DOMAIN page = Inodes /\ DOMAIN mrecLock = Inodes
  /\ \A n \in Inodes : page[n] <=> (mrecLock[n] # NoTask)

(* Every step takes and drops the two together.                            *)
LEMMA PagesKept ==
  ASSUME PagesMapped, [Next]_vars
  PROVE  PagesMapped'
<1> USE Numbers DEF PagesMapped
<1>1. CASE UNCHANGED <<mrecLock, page>>
  BY <1>1, Zenon
<1>2. ASSUME NEW t \in Tasks, NEW n, mrecLock' = [mrecLock EXCEPT ![n] = t],
             page' = [page EXCEPT ![n] = TRUE]
      PROVE  PagesMapped'
  BY <1>2, Zenon
<1>3. ASSUME NEW n, mrecLock' = [mrecLock EXCEPT ![n] = NoTask],
             page' = [page EXCEPT ![n] = FALSE]
      PROVE  PagesMapped'
  BY <1>3, Zenon
<1>4. ASSUME NEW S, Unmap(S)
      PROVE  PagesMapped'
  BY <1>4, ZenonT(60) DEF Unmap
<1>5. CASE Evict \/ UNCHANGED vars
  BY <1>1, <1>5, Zenon DEF Evict, vars, inodes
<1>6. ASSUME NEW t \in Tasks, Step(t)
      PROVE  PagesMapped'
  <2>1. CASE MapBase(t) \/ LockBase(t) \/ GetCtx(t) \/ PutCtx(t) \/ ReinitCtx(t)
    BY <1>1, <1>2, <1>4, <2>1, ZenonT(60)
    DEF MapBase, LockBase, MapFails, GetCtx, PutCtx, ReinitCtx, Reinit
  <2>2. CASE Lookup(t) \/ SaveCtx(t) \/ RestoreCtx(t)
    BY <1>4, <2>2, ZenonT(60)
    DEF Lookup, NotFound, LookupError, StopAt, FindIn, SaveCtx, Reinit, RestoreCtx
  <2>3. CASE HoldExtent(t) \/ MapHeldExtent(t) \/ NewExtent(t)
    BY <1>1, <1>2, <2>3, ZenonT(60) DEF HoldExtent, MapHeldExtent, NewExtent, Map, MapFails
  <2>4. CASE MapNewExtent(t) \/ AttachExtent(t) \/ ReloadSaved(t)
    BY <1>1, <1>2, <1>3, <2>4, ZenonT(60)
    DEF MapNewExtent, AttachExtent, ReloadSaved, Map, MapFails
  <2> QED
    BY <1>6, <2>1, <2>2, <2>3, <2>4, ZenonT(60) DEF Step
<1> QED
  BY <1>5, <1>6, Zenon DEF Next

(* No two tasks have a record mapped, and neither BUG_ON() on the page of  *)
(* a record in map_mft_record_page() and unmap_mft_record() triggers.      *)
THEOREM RecordHasOneHolder == Spec => []OneHolder
<1>1. Init => PagesMapped
  BY Zenon DEF Init, PagesMapped
<1>2. RecordInv /\ PagesMapped => OneHolder
  <2> SUFFICES ASSUME RecordInv, PagesMapped, NEW n \in Inodes, NEW t \in Tasks
               PROVE  n \in Holds(t) <=> mrecLock[n] = t
    BY Zenon DEF OneHolder, PagesMapped
  <2>1. ASSUME NEW u \in Tasks, Out(u) PROVE Holds(u) = {}
    BY <2>1, Zenon DEF Out, Outside, Holds, Mapped
  <2>2. CASE Idle /\ \A u \in Tasks : Out(u)
    BY <2>1, <2>2, Numbers, Zenon DEF Idle
  <2>3. ASSUME NEW o \in Tasks, Owner(o), \A u \in Tasks \ {o} : Out(u)
        PROVE  n \in Holds(t) <=> mrecLock[n] = t
    BY <2>1, <2>3, Numbers, Zenon DEF Owner
  <2> QED
    BY <2>2, <2>3, Zenon DEF RecordInv, Serial
<1> QED
  BY <1>1, <1>2, RecordsSerial, PagesKept, PTL DEF Spec

(* An attribute that ntfs_attr_lookup() returned is in the record that its *)
(* attribute list entry names, mapped by the caller, and not stale.        *)
THEOREM AttributeIsCurrent == Spec => []FoundIsCurrent
<1>1. RecordInv => FoundIsCurrent
  <2> SUFFICES ASSUME RecordInv, NEW t \in Tasks, pc[t] \in {"ctx", "restore"},
                      ctx[t].entry # 0
               PROVE  /\ ctx[t].ino = Target(t).mft
                      /\ mrecLock[ctx[t].ino] = t
                      /\ ctx[t].ino # Base => Target(t).seq \in {0, DiskSeq[ctx[t].ino]}
    BY Zenon DEF FoundIsCurrent
  <2>1. Owner(t)
    BY Only, Zenon DEF RecordInv, Outside
  <2>2. Current(ctx[t])
    BY <2>1, Zenon DEF Owner, Place
  <2>3. ctx[t].ino \in Inodes /\ ctx[t].ino \in Holds(t)
    BY <2>2, EntryTypes, Zenon DEF Current, Holds, Mapped
  <2> QED
    BY <2>1, <2>2, <2>3, Zenon DEF Owner, Current, Target
<1> QED
  BY <1>1, RecordsSerial, PTL

(* ntfs_map_runlist_nolock() gives a context back as it was lent, or with  *)
(* an error in its mrec.                                                   *)
THEOREM ContextComesBack == Spec => CtxRestored
<1>1. RecordInv /\ [Next]_vars =>
        [\A t \in Tasks : saved[t] # NoCtx /\ saved'[t] = NoCtx =>
           /\ pc'[t] = "ctx"
           /\ ctx'[t] = saved[t] \/ ctx'[t].bad]_vars
  <2> SUFFICES ASSUME RecordInv, Next, NEW t \in Tasks, saved[t] # NoCtx, saved'[t] = NoCtx
               PROVE  pc'[t] = "ctx" /\ (ctx'[t] = saved[t] \/ ctx'[t].bad)
    BY Zenon
  <2>1. RecordInv /\ Types
    BY Zenon DEF RecordInv
  <2>2. PICK u \in Tasks : SaveCtx(u) \/ RestoreCtx(u) \/ ReloadSaved(u)
    BY ZenonT(60) DEF Next, Step, Evict, MapBase, LockBase, GetCtx, PutCtx, ReinitCtx, Lookup,
       HoldExtent, MapHeldExtent, NewExtent, MapNewExtent, AttachExtent
  <2>3. u = t
    BY <2>1, <2>2, Zenon DEF SaveCtx, RestoreCtx, ReloadSaved, Types
  <2>4. ~SaveCtx(t)
    <3>1. SUFFICES ASSUME SaveCtx(t) PROVE FALSE
      BY Zenon
    <3>2. pc[t] = "ctx"
      BY <3>1, Zenon DEF SaveCtx, Goto
    <3>3. Place(t)
      BY <2>1, <3>2, MappedHere, Zenon
    <3> QED
      BY <3>2, <3>3, Zenon DEF Place
  <2>5. CASE RestoreCtx(t)
    BY <2>1, <2>5, Zenon DEF RestoreCtx, SetCtx, Types
  <2>6. CASE ReloadSaved(t)
    <3>1. pc'[t] = "ctx"
      BY <2>1, <2>6, Zenon DEF ReloadSaved, Goto, Types
    <3>2. ctx'[t] = saved[t] \/ ctx'[t] = [BaseCtx EXCEPT !.bad = TRUE]
      BY <2>1, <2>6, ZenonT(60) DEF ReloadSaved, SetCtx, Types
    <3> QED
      BY <3>1, <3>2, Fields, ZenonT(60)
  <2> QED
    BY <2>2, <2>3, <2>4, <2>5, <2>6, Zenon
<1> QED
  BY <1>1, RecordsSerial, PTL DEF Spec, CtxRestored

(* Who refers to an extent inode.                                          *)
LEMMA ExtentsUsed ==
  ASSUME RecordInv, NEW n \in Extents
  PROVE  count[n] > 0 <=>
           \/ n \in attached
           \/ \E t \in Tasks : pc[t] \in {"new", "verify"} /\ Target(t).mft = n
<1>1. CASE Idle /\ \A t \in Tasks : Out(t)
  BY <1>1 DEF Idle, Kept, Out, Outside
<1>2. ASSUME NEW t \in Tasks, Owner(t), \A u \in Tasks \ {t} : Out(u)
      PROVE  count[n] > 0 <=>
               \/ n \in attached
               \/ \E u \in Tasks : pc[u] \in {"new", "verify"} /\ Target(u).mft = n
  <2>1. n \in Mapped(t) => n \in attached
    BY <1>2, Zenon DEF Owner, Place, Mapped, Current, Labels, Outside
  <2>2. n \in Holds(t) => n \in attached \/ (pc[t] = "verify" /\ Target(t).mft = n)
    BY <2>1, Numbers, Zenon DEF Holds
  <2>3. pc[t] = "held" /\ Target(t).mft = n => n \in attached
    BY <1>2, Zenon DEF Owner, Place
  <2>4. Refs(t, n) \in Nat /\ (Refs(t, n) > 0 <=>
          n \in Holds(t) \/ (pc[t] \in Extending /\ Target(t).mft = n))
    BY DEF Refs, Extending
  <2>5. count[n] = Kept(n) + Refs(t, n) /\ Kept(n) \in Nat /\ (Kept(n) > 0 <=> n \in attached)
    BY <1>2 DEF Owner, Kept
  <2>6. count[n] > 0 <=>
          n \in attached \/ (pc[t] \in {"new", "verify"} /\ Target(t).mft = n)
    BY <2>2, <2>3, <2>4, <2>5 DEF Extending
  <2>7. \A u \in Tasks \ {t} : pc[u] \notin {"new", "verify"}
    BY <1>2, Zenon DEF Out, Outside
  <2> QED
    BY <2>6, <2>7, Zenon
<1> QED
  BY <1>1, <1>2, Zenon DEF RecordInv, Serial

-----------------------------------------------------------------------------
INSTANCE FiniteSetTheorems

(* The array grows by four.                                                *)
ArrayFits ==
  /\ slots \in Nat /\ slots % 4 = 0
  /\ Cardinality(attached) <= slots /\ slots < Cardinality(attached) + 4

Inside(f) == {t \in Tasks : f[t] # "out"}

(* Each task inside map_mft_record() and unmap_mft_record(), and           *)
(* map_extent_mft_record() for a new inode, has a reference to the base.   *)
BaseCounted == count[Base] = 1 + Cardinality(Inside(pc)) + Extra

InOrder == RecordInv /\ ArrayFits /\ BaseCounted

(* The share of one task in the number of those inside.                    *)
LEMMA ActiveShare ==
  ASSUME NEW f, NEW t \in Tasks, NEW D, D = Inside(f) \ {t}
  PROVE  /\ Cardinality(D) \in Nat
         /\ f[t] = "out" => Cardinality(Inside(f)) = Cardinality(D)
         /\ f[t] # "out" => Cardinality(Inside(f)) = Cardinality(D) + 1
<1>1. IsFiniteSet(D) /\ Cardinality(D) \in Nat
  <2>1. D \subseteq Tasks
    BY Zenon DEF Inside
  <2> QED
    BY <2>1, MftRecordAssumption, FS_Subset, FS_CardinalityType, ZenonT(60)
<1>2. CASE f[t] = "out"
  <2>1. Inside(f) = D
    BY <1>2, Zenon DEF Inside
  <2> QED
    BY <1>1, <1>2, <2>1, ZenonT(60)
<1>3. CASE f[t] # "out"
  <2>1. Inside(f) = D \cup {t} /\ t \notin D
    BY <1>3, Zenon DEF Inside
  <2>2. Cardinality(D \cup {t}) = Cardinality(D) + 1
    BY <1>1, <2>1, FS_AddElement, ZenonT(60)
  <2> QED
    BY <1>1, <1>3, <2>1, <2>2, ZenonT(60)
<1> QED
  BY <1>2, <1>3, Zenon

(* A step that fits keeps the count of the base inode.                     *)
LEMMA CountKept ==
  ASSUME RecordInv, BaseCounted, NEW t \in Tasks, Fits(t)
  PROVE  BaseCounted'
<1>1. Inside(pc') \ {t} = Inside(pc) \ {t}
  BY Zenon DEF Inside, Fits, Alone
<1>2. PICK D : D = Inside(pc) \ {t}
  BY Zenon
<1>3. /\ Cardinality(D) \in Nat
      /\ pc[t] = "out" => Cardinality(Inside(pc)) = Cardinality(D)
      /\ pc[t] # "out" => Cardinality(Inside(pc)) = Cardinality(D) + 1
  BY <1>2, ActiveShare, ZenonT(60)
<1>4. /\ pc'[t] = "out" => Cardinality(Inside(pc')) = Cardinality(D)
      /\ pc'[t] # "out" => Cardinality(Inside(pc')) = Cardinality(D) + 1
  BY <1>1, <1>2, ActiveShare, ZenonT(60)
<1>5. count'[Base] \in Int /\ count[Base] \in Int
  BY Numbers, BaseCount, Zenon DEF Fits, RecordInv, Types, InodesTyped
<1>6. count[Base] = 1 + Cardinality(D) + Share(t)
  BY <1>3 DEF BaseCounted, Share, Extra
<1>7. count'[Base] = 1 + Cardinality(D) + Share(t)'
  BY <1>3, <1>5, <1>6 DEF Fits, Share, Extra
<1>8. count'[Base] = 1 + Cardinality(Inside(pc')) + Extra'
  BY <1>3, <1>4, <1>7 DEF Share, Extra
<1> QED
  BY <1>8, Zenon DEF BaseCounted

(* The array has room after it was extended.                               *)
LEMMA ArrayGrows ==
  ASSUME ArrayFits, attached \subseteq Extents, NEW m \in Extents, m \notin attached,
         attached' = attached \cup {m},
         slots' = IF Cardinality(attached) % 4 = 0 THEN Cardinality(attached) + 4 ELSE slots
  PROVE  ArrayFits'
<1>1. IsFiniteSet(attached) /\ Cardinality(attached) \in Nat
  BY MftRecordAssumption, FS_Subset, FS_CardinalityType, ZenonT(60)
<1>2. Cardinality(attached') = Cardinality(attached) + 1
  BY <1>1, FS_AddElement, ZenonT(60)
<1>3. \A c \in Nat, s \in Nat : s % 4 = 0 /\ c <= s /\ s < c + 4 =>
        LET z == IF c % 4 = 0 THEN c + 4 ELSE s
        IN  z \in Nat /\ z % 4 = 0 /\ c + 1 <= z /\ z < c + 1 + 4
  OBVIOUS
<1> QED
  BY <1>1, <1>2, <1>3, Zenon DEF ArrayFits

(* Only map_extent_mft_record() extends it.                                *)
LEMMA ArrayKept ==
  ASSUME RecordInv, ArrayFits, NEW t \in Tasks, Step(t)
  PROVE  ArrayFits'
<1>1. CASE UNCHANGED <<attached, slots>>
  BY <1>1, Zenon DEF ArrayFits
<1>2. CASE /\ pc[t] = "verify" /\ attached' = attached \cup {Target(t).mft}
           /\ slots' = IF Cardinality(attached) % 4 = 0 THEN Cardinality(attached) + 4
                       ELSE slots
  <2>1. pc[t] = "verify"
    BY <1>2, ZenonT(60)
  <2>2. Place(t) /\ Target(t).mft \in Extents
    BY <2>1, Extended, Zenon
  <2>3. Target(t).mft \notin attached
    BY <2>1, <2>2, Zenon DEF Place
  <2> QED
    BY <1>2, <2>2, <2>3, ArrayGrows, ZenonT(60) DEF RecordInv
<1> QED
  BY <1>1, <1>2, ZenonT(60) DEF Step, MapBase, LockBase, GetCtx, PutCtx, ReinitCtx, Lookup,
     HoldExtent, MapHeldExtent, NewExtent, MapNewExtent, AttachExtent, Destroy, SaveCtx,
     RestoreCtx, ReloadSaved, array

(* The initial states.                                                     *)
LEMMA RecordInit == Init => InOrder
<1> SUFFICES ASSUME Init PROVE InOrder
  BY Zenon
<1>1. ArrayFits
  BY FS_EmptySet DEF Init, ArrayFits
<1>2. Inside(pc) = {}
  BY Zenon DEF Init, Inside
<1>3. BaseCounted
  BY <1>2, FS_EmptySet, Numbers DEF Init, BaseCounted, Extra
<1> QED
  BY <1>1, <1>3, SerialInit, Zenon DEF InOrder

(* Every step.                                                             *)
LEMMA RecordStep == InOrder /\ [Next]_vars => InOrder'
<1> SUFFICES ASSUME InOrder, [Next]_vars PROVE InOrder'
  BY Zenon
<1>1. RecordInv /\ ArrayFits /\ BaseCounted
  BY Zenon DEF InOrder
<1>2. ASSUME NEW t \in Tasks, Step(t)
      PROVE  InOrder'
  <2>1. Fits(t)
    BY <1>1, <1>2, TaskStep, Zenon
  <2> QED
    BY <1>1, <1>2, <2>1, CountKept, ArrayKept, Zenon DEF InOrder, Fits
<1>3. CASE Evict
  <2>1. RecordInv' /\ count'[Base] = count[Base]
    BY <1>1, <1>3, EvictKeeps, Zenon
  <2>2. pc' = pc /\ Extra' = Extra /\ attached' = {} /\ slots' = 0
    BY <1>3, Zenon DEF Evict, Extra
  <2>3. ArrayFits'
    BY <2>2, FS_EmptySet DEF ArrayFits
  <2>4. BaseCounted'
    BY <1>1, <2>1, <2>2, Zenon DEF BaseCounted
  <2> QED
    BY <2>1, <2>3, <2>4, Zenon DEF InOrder
<1>4. CASE UNCHANGED vars
  BY <1>1, <1>4, StutterKeeps, Zenon
  DEF InOrder, ArrayFits, BaseCounted, Extra, vars, inodes, array
<1> QED
  BY <1>2, <1>3, <1>4, Zenon DEF Next

(* The strengthened invariant holds on every path.                         *)
THEOREM RecordsInOrder == Spec => []InOrder
  BY RecordInit, RecordStep, PTL DEF Spec

(* When nobody uses the inode every reference and lock taken by            *)
(* map_mft_record(), map_extent_mft_record() and the search contexts is    *)
(* back, whatever failed on the way.                                       *)
THEOREM ReferencesComeBack == Spec => []CountsBalanced
<1>1. InOrder => CountsBalanced
  <2> SUFFICES ASSUME InOrder, \A t \in Tasks : pc[t] = "out"
               PROVE  /\ extentLock = NoTask
                      /\ \A n \in Inodes : /\ mrecLock[n] = NoTask
                           /\ count[n] = IF n \in {Base} \cup attached THEN 1 ELSE 0
    BY Zenon DEF CountsBalanced
  <2>1. Idle
    BY ZenonT(60) DEF InOrder, RecordInv, Serial, Owner, Place, Outside
  <2>2. Inside(pc) = {}
    BY Zenon DEF Inside
  <2>3. count[Base] = 1
    BY <2>1, <2>2, FS_EmptySet DEF InOrder, BaseCounted, Idle, Extra
  <2> QED
    BY <2>1, <2>3, Numbers, Zenon DEF Idle, Kept, Inodes
<1> QED
  BY <1>1, RecordsInOrder, PTL

(* map_extent_mft_record() neither leaves an extent inode behind that is   *)
(* not in the array of the base inode, nor loses one that is in use, and   *)
(* the array always has room for what is in it.                            *)
THEOREM ExtentsStayAlive == Spec => []ExtentsAlive
<1>1. InOrder => ExtentsAlive
  <2> SUFFICES ASSUME InOrder PROVE ExtentsAlive
    BY Zenon
  <2> QED
    BY ExtentsUsed, Zenon DEF ExtentsAlive, InOrder, ArrayFits
<1> QED
  BY <1>1, RecordsInOrder, PTL
=============================================================================
