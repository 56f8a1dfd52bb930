--------------------------- MODULE MftWriteProofs ---------------------------
(***************************************************************************)
(* For any number of tasks, records and blocks: the fixups of an mft       *)
(* record are never seen.  The invariant, that each step keeps it, and the *)
(* theorem.  A step of a task that maps records is looked at alone: what   *)
(* it does to the task (UserStep) is enough for the whole invariant.       *)
(***************************************************************************)
EXTENDS MftWrite, TLAPS

Labels == Using \cup {"idle", "lock", "map", "bug", "io", "mirror", "unmap",
                     "next", "extent", "trylock", "end"}

Writes == [todo : SUBSET Records, out : SUBSET Records, own : SUBSET Records,
           mirror : SUBSET Records, sync : BOOLEAN, redirty : BOOLEAN, err : BOOLEAN]

Types ==
  /\ pc \in [Tasks -> Labels] /\ rec \in [Tasks -> {Base, Ext}]
  /\ mrecLock \in [{Base, Ext} -> Tasks \cup {NoTask}]
  /\ prot \subseteq Records /\ bufDirty \subseteq Records
  /\ wr \in Writes

(* A task that sees a record has its lock, the base inode in memory and,   *)
(* for the extent record, the extent inode attached or being attached; the *)
(* inode writer works on the extent record under the extent_lock.          *)
UserLocked(t) ==
  /\ ~inCache => pc[t] = "idle"
  /\ pc[t] \in Using \cup {"map", "io", "mirror"} => mrecLock[rec[t]] = t
  /\ rec[t] = Ext /\ pc[t] \notin {"idle", "unmap"} => mrecLock[Base] = t
  /\ rec[t] = Ext /\ pc[t] \in Using => attached
  /\ rec[t] = Ext /\ pc[t] \in {"lock", "map"} =>
       attached \/ (extentLock = t /\ t # InodeWriter)
  /\ pc[t] = "extents" => rec[t] = Base
  /\ t = InodeWriter /\ (pc[t] = "unmap" \/ (rec[t] = Ext /\ pc[t] # "idle")) => extentLock = t

UsersLocked == \A t \in Users : UserLocked(t)

(* Who has the page locked, and what of it has its fixups applied.         *)
PageOwned ==
  /\ pageLock = InodeWriter <=> pc[InodeWriter] \in {"io", "mirror"}
  /\ pageLock = PageWriter <=> pc[PageWriter] # "idle"
  /\ pageLock \in {NoTask, InodeWriter, PageWriter}
  /\ pageLock = NoTask => prot = {} /\ uptodate
  /\ pageLock # PageWriter => wr.own = {}
  /\ pageLock = InodeWriter => uptodate /\ prot \subseteq {rec[InodeWriter]}
  /\ pageLock = PageWriter /\ pc[PageWriter] # "end" => ~uptodate
  /\ pc[PageWriter] = "end" => prot = {}
  /\ pc[PageWriter] \in {"trylock", "extent"} => wr.todo # {}
  /\ \A r \in wr.own : r \in {Base, Ext} /\ mrecLock[r] = PageWriter

(* The records whose fixups are applied are those of the list that were    *)
(* looked at and not taken off.                                            *)
Listed ==
  /\ prot \subseteq wr.out /\ wr.todo \subseteq wr.out
  /\ \A r \in prot : \A q \in wr.todo : r < q
  /\ pc[PageWriter] = "extent" => Ext \in wr.todo /\ \A q \in wr.todo : Ext <= q

HideInv == Types /\ UsersLocked /\ PageOwned /\ Listed /\ FixupsHidden

-----------------------------------------------------------------------------
(* The tasks are different ones.                                           *)
LEMMA Distinct ==
  /\ InodeWriter # PageWriter /\ InodeWriter \notin Modifiers /\ PageWriter \notin Modifiers
  /\ NoTask \notin Tasks /\ Base # Ext
BY MftWriteAssumption DEF Tasks, Base, Ext

(* The base and the extent record are records of the page.                 *)
LEMMA RecordsAreTwo == Base \in Records /\ Ext \in Records
BY MftWriteAssumption DEF Records, Base, Ext

(* A new description of a write has its type.                              *)
LEMMA NewIsWrite ==
  ASSUME NEW S \in SUBSET Records, NEW T \in SUBSET Records, NEW sync \in BOOLEAN
  PROVE  NewWrite(S, T, sync) \in Writes
BY Zenon DEF NewWrite, Writes

(* A step of a task that goes on to another place, another record or both, *)
(* with the locks that are its own or free, and leaves the page alone.     *)
UserMove(t) ==
  /\ pc' \in [Tasks -> Labels] /\ rec' \in [Tasks -> {Base, Ext}]
  /\ \A u \in Tasks \ {t} : pc'[u] = pc[u] /\ rec'[u] = rec[u]
  /\ pc[t] \notin {"io", "mirror"} /\ pc'[t] \notin {"io", "mirror"}
  /\ UNCHANGED <<prot, wr, uptodate, pageLock>> /\ bufDirty' \subseteq Records
  /\ (inCache => inCache') /\ (attached => attached')
  /\ mrecLock' \in [{Base, Ext} -> Tasks \cup {NoTask}]
  /\ \A q \in {Base, Ext} :
       mrecLock'[q] = mrecLock[q] \/ {mrecLock[q], mrecLock'[q]} \subseteq {t, NoTask}
  /\ extentLock' = extentLock \/ {extentLock, extentLock'} \subseteq {t, NoTask}

(* What the invariant says of one task, and of its step.                   *)
UserIs(t) ==
  /\ t \in Tasks /\ t # PageWriter /\ t # NoTask
  /\ pc \in [Tasks -> Labels] /\ rec \in [Tasks -> {Base, Ext}]
  /\ mrecLock \in [{Base, Ext} -> Tasks \cup {NoTask}]
  /\ bufDirty \subseteq Records
  /\ pageLock = NoTask => prot = {}
  /\ uptodate => \A q \in prot : /\ q \in {Base, Ext} /\ mrecLock[q] = InodeWriter
                                 /\ pc[InodeWriter] \in {"io", "mirror"}
  /\ UserLocked(t) /\ \A q \in prot : ~Sees(t, q)

UserStep(t) == UserMove(t) /\ UserLocked(t)' /\ \A q \in prot : ~Sees(t, q)'

(* The invariant says this of each task.                                   *)
LEMMA EachUser ==
  ASSUME HideInv, NEW t \in Users
  PROVE  UserIs(t)
<1>1. t \in Tasks /\ t # PageWriter /\ t # NoTask /\ InodeWriter \in Users
  BY Distinct, Zenon DEF Users, Tasks
<1>2. uptodate => \A q \in prot : /\ q \in {Base, Ext} /\ mrecLock[q] = InodeWriter
                                 /\ pc[InodeWriter] \in {"io", "mirror"}
  BY <1>1, Distinct DEF HideInv, Types, PageOwned, UsersLocked, UserLocked, Users, Tasks
<1> QED
  BY <1>1, <1>2, Zenon DEF HideInv, Types, UsersLocked, FixupsHidden, PageOwned, UserIs

(* Such a step keeps the invariant if it does for the task itself, and the *)
(* task comes to see no record that has its fixups applied.                *)
LEMMA UserMoves ==
  ASSUME HideInv, NEW t \in Users, UserStep(t)
  PROVE  HideInv'
<1> USE DEF UserStep
<1>1. /\ t \in Tasks /\ t # NoTask /\ t # PageWriter /\ InodeWriter \in Tasks
      /\ PageWriter \in Tasks /\ Users \subseteq Tasks
  BY Distinct, Zenon DEF Users, Tasks
<1>2. Types'
  BY Zenon DEF HideInv, Types, UserMove
<1>3. UsersLocked'
  BY <1>1, Distinct DEF HideInv, Types, UsersLocked, UserLocked, UserMove
<1>4. PageOwned'
  BY <1>1, Distinct DEF HideInv, PageOwned, UserMove
<1>5. Listed' /\ FixupsHidden'
  BY <1>1, Zenon DEF HideInv, Listed, FixupsHidden, Sees, UserMove
<1> QED
  BY <1>2, <1>3, <1>4, <1>5, Zenon DEF HideInv

(* The inode writer locks the page, applies the fixups and starts to write. *)
LEMMA WriteRecordKeeps ==
  ASSUME HideInv, NEW sync \in BOOLEAN, WriteRecord(sync)
  PROVE  HideInv'
<1>0. rec[InodeWriter] \in Records /\ rec[InodeWriter] \in {Base, Ext} /\ InodeWriter \in Users
  BY RecordsAreTwo, Zenon DEF HideInv, Types, Tasks, Users
<1>1. /\ pc[InodeWriter] = "write" /\ pageLock = NoTask
      /\ bufDirty' = bufDirty \ {rec[InodeWriter]}
      /\ UNCHANGED <<uptodate, attached, inCache, mrecLock, extentLock, rec>>
      /\ \/ /\ pc' = [pc EXCEPT ![InodeWriter] = "io"]
            /\ pageLock' = InodeWriter /\ prot' = prot \cup {rec[InodeWriter]}
            /\ wr' = NewWrite({}, {rec[InodeWriter]}, sync)
         \/ /\ pc' = [pc EXCEPT ![InodeWriter] = AfterRecord]
            /\ UNCHANGED <<pageLock, prot, wr>>
  BY Zenon DEF WriteRecord, Goto, page, inode, locks
<1>2. CASE pc' = [pc EXCEPT ![InodeWriter] = AfterRecord] /\ UNCHANGED <<pageLock, prot, wr>>
  <2>1. UserMove(InodeWriter)
    BY <1>1, <1>2, Distinct, Zenon DEF HideInv, Types, UserMove, Labels, Using, Tasks, AfterRecord
  <2>2. UserLocked(InodeWriter)'
    BY <1>0, <1>1, <1>2, Distinct, Zenon
    DEF HideInv, Types, UsersLocked, UserLocked, Using, Tasks, AfterRecord
  <2>3. \A q \in prot : ~Sees(InodeWriter, q)'
    BY <1>1, Zenon DEF HideInv, PageOwned
  <2> QED
    BY <1>0, <2>1, <2>2, <2>3, UserMoves, Zenon DEF UserStep
<1>3. CASE /\ pc' = [pc EXCEPT ![InodeWriter] = "io"]
           /\ pageLock' = InodeWriter /\ prot' = prot \cup {rec[InodeWriter]}
           /\ wr' = NewWrite({}, {rec[InodeWriter]}, sync)
  <2>1. /\ wr' \in Writes /\ wr'.out = {rec[InodeWriter]} /\ wr'.own = {} /\ wr'.todo = {}
        /\ prot' = {rec[InodeWriter]}
    BY <1>0, <1>1, <1>3, NewIsWrite, Zenon DEF NewWrite, HideInv, PageOwned
  <2>2. /\ \A t \in Users : t \in Tasks /\ t # PageWriter
        /\ \A t \in Tasks \ {InodeWriter} : pc'[t] = pc[t]
        /\ pc'[InodeWriter] = "io"
    BY <1>3, Distinct, Zenon DEF HideInv, Types, Users, Tasks
  <2>3. Types'
    BY <1>0, <1>1, <1>3, <2>1, Zenon DEF HideInv, Types, Labels, Tasks
  <2>4. UsersLocked'
    BY <1>0, <1>1, <2>2, Distinct, Zenon DEF HideInv, UsersLocked, UserLocked, Using
  <2>5. PageOwned' /\ Listed'
    BY <1>1, <1>3, <2>1, <2>2, Distinct, Zenon DEF HideInv, PageOwned, Listed, Tasks
  <2>6. \A t \in Users \ {InodeWriter} : ~Sees(t, rec[InodeWriter])
    BY <1>0, <1>1, Distinct, Zenon DEF HideInv, UsersLocked, UserLocked, Sees, Using
  <2>7. FixupsHidden'
    BY <1>1, <2>1, <2>2, <2>6, Zenon DEF FixupsHidden, Sees, Using
  <2> QED
    BY <2>3, <2>4, <2>5, <2>7, Zenon DEF HideInv
<1> QED
  BY <1>1, <1>2, <1>3, Zenon

(* It removes the fixups and unlocks the page.                             *)
LEMMA FinishRecordKeeps ==
  ASSUME HideInv, FinishRecord
  PROVE  HideInv'
<1>1. /\ pc[InodeWriter] = "mirror" /\ pc' = [pc EXCEPT ![InodeWriter] = AfterRecord]
      /\ prot' = prot \ wr.out /\ pageLock' = NoTask /\ wr' = NoWrite
      /\ UNCHANGED <<bufDirty, uptodate, attached, inCache, mrecLock, extentLock, rec>>
  BY Zenon DEF FinishRecord, Goto, RemoveFixups, inode, locks
<1>2. wr' \in Writes
  BY <1>1, NewIsWrite, Zenon DEF NoWrite
<1>w. wr'.out = {} /\ wr'.own = {} /\ wr'.todo = {} /\ prot' = {}
  BY <1>1, Zenon DEF NoWrite, NewWrite, HideInv, Listed
<1>3. /\ \A t \in Users : t \in Tasks /\ t # PageWriter
      /\ \A t \in Tasks \ {InodeWriter} : pc'[t] = pc[t]
      /\ pc'[InodeWriter] = AfterRecord /\ InodeWriter \in Users
  BY <1>1, Distinct, Zenon DEF HideInv, Types, Users, Tasks
<1>4. Types'
  BY <1>1, <1>2, Zenon DEF HideInv, Types, Labels, Using, Tasks, AfterRecord
<1>5. UsersLocked'
  BY <1>1, <1>3, Distinct, Zenon DEF HideInv, Types, UsersLocked, UserLocked, Using, AfterRecord
<1>6. PageOwned'
  BY <1>1, <1>w, <1>3, Distinct DEF HideInv, PageOwned, Tasks, AfterRecord
<1>7. Listed' /\ FixupsHidden'
  BY <1>1, <1>w, <1>3, Distinct, Zenon DEF HideInv, PageOwned, Listed, FixupsHidden, Tasks
<1> QED
  BY <1>4, <1>5, <1>6, <1>7, Zenon DEF HideInv

(* The next record the page writer looks at is one of those left, and none *)
(* that is left comes before it.                                           *)
FirstFound == wr.todo # {} => Current \in wr.todo /\ \A q \in wr.todo : Current <= q

(* FirstFound, where the list is not empty.                                *)
LEMMA CurrentIsNext ==
  ASSUME FirstFound, wr.todo # {}
  PROVE  Current \in wr.todo /\ \A q \in wr.todo : Current <= q
BY Zenon DEF FirstFound

(* What Accept() and Refuse leave of the list.                             *)
Accepted(own) ==
  /\ wr' \in Writes /\ wr'.out = wr.out /\ wr'.own = wr.own \cup own
  /\ wr'.todo \subseteq wr.todo /\ \A q \in wr'.todo : Current < q
  /\ prot' = prot \cup {Current} /\ pc' = [pc EXCEPT ![PageWriter] = "next"]
  /\ Listed'

Refused ==
  /\ wr' \in Writes /\ wr'.out = wr.out \ {Current} /\ wr'.own = wr.own
  /\ wr'.todo \subseteq wr.todo /\ \A q \in wr'.todo : Current < q
  /\ prot' = prot /\ pc' = [pc EXCEPT ![PageWriter] = "next"]
  /\ Listed'

(* The records that are left after the current one come later.             *)
LEMMA RestIsLater ==
  ASSUME FirstFound, Types, wr.todo # {}
  PROVE  /\ Rest(wr.todo) \subseteq wr.todo /\ Rest(Rest(wr.todo)) \subseteq Rest(wr.todo)
         /\ \A q \in Rest(wr.todo) : Current < q
<1>1. wr.todo \subseteq Nat
  BY MftWriteAssumption DEF Types, Writes, Records
<1> QED
  BY <1>1, CurrentIsNext DEF Rest

(* Accept() does what Accepted() says, and keeps the list in order.        *)
LEMMA AcceptDoes ==
  ASSUME FirstFound, Types, Listed, wr.todo # {}, NEW own \in SUBSET {Base, Ext}, Accept(own)
  PROVE  Accepted(own)
<1> DEFINE R == Rest(wr.todo)
<1>1. /\ wr' = [wr EXCEPT !.todo = R, !.own = wr.own \cup own]
      /\ prot' = prot \cup {Current} /\ pc' = [pc EXCEPT ![PageWriter] = "next"]
  BY Zenon DEF Accept
<1>2. R \subseteq wr.todo /\ \A q \in R : Current < q
  BY RestIsLater, Zenon
<1> HIDE DEF R
<1>3. wr'.todo = R /\ wr'.out = wr.out /\ wr'.own = wr.own \cup own
  BY <1>1, Zenon DEF Types, Writes
<1>4. wr' \in Writes
  BY <1>1, <1>2, RecordsAreTwo, Zenon DEF Types, Writes
<1>5. Listed'
  <2>1. \A r \in prot' : \A q \in wr'.todo : r < q
    BY <1>1, <1>2, <1>3, CurrentIsNext, Zenon DEF Listed
  <2>2. Current \in wr.todo /\ \A r \in prot \cup R : r # Current
    BY <1>2, CurrentIsNext, MftWriteAssumption DEF Listed, Types, Writes, Records
  <2>3. pc'[PageWriter] = "next"
    BY <1>1, Zenon DEF Types, Tasks
  <2> QED
    BY <1>1, <1>2, <1>3, <2>1, <2>2, <2>3, Zenon DEF Listed
<1> QED
  BY <1>1, <1>2, <1>3, <1>4, <1>5, Zenon DEF Accepted

(* Refuse does what Refused says, and keeps the list in order.             *)
LEMMA RefuseDoes ==
  ASSUME FirstFound, Types, Listed, wr.todo # {}, Refuse
  PROVE  Refused
<1> DEFINE R == Rest(Rest(wr.todo))
<1>1. /\ wr' = [wr EXCEPT !.todo = R, !.out = wr.out \ {Current}, !.redirty = TRUE]
      /\ prot' = prot /\ pc' = [pc EXCEPT ![PageWriter] = "next"]
  BY Zenon DEF Refuse
<1>2. R \subseteq wr.todo /\ \A q \in R : Current < q
  BY RestIsLater, Zenon
<1> HIDE DEF R
<1>3. wr'.todo = R /\ wr'.out = wr.out \ {Current} /\ wr'.own = wr.own
  BY <1>1, Zenon DEF Types, Writes
<1>4. wr' \in Writes
  BY <1>1, <1>2, Zenon DEF Types, Writes
<1>5. Listed'
  <2>1. \A r \in prot' : \A q \in wr'.todo : r < q
    BY <1>1, <1>2, <1>3, CurrentIsNext, Zenon DEF Listed
  <2>2. Current \in wr.todo /\ \A r \in prot \cup R : r # Current
    BY <1>2, CurrentIsNext, MftWriteAssumption DEF Listed, Types, Writes, Records
  <2>3. pc'[PageWriter] = "next"
    BY <1>1, Zenon DEF Types, Tasks
  <2> QED
    BY <1>1, <1>2, <1>3, <2>1, <2>2, <2>3, Zenon DEF Listed
<1> QED
  BY <1>1, <1>2, <1>3, <1>4, <1>5, Zenon DEF Refused

(* What the page writer does not change while it goes over the list.       *)
others == <<bufDirty, uptodate, attached, inCache, pageLock, extentLock, rec>>

(* A record that nobody sees may have its fixups applied.                  *)
LEMMA AcceptKeeps ==
  ASSUME FirstFound, HideInv, wr.todo # {}, UNCHANGED others,
         pc[PageWriter] \in {"next", "extent", "trylock"},
         \A t \in Users : ~Sees(t, Current),
         NEW own \in SUBSET {Base, Ext}, Accept(own),
         \A r \in own : mrecLock[r] = NoTask,
         mrecLock' = [r \in {Base, Ext} |-> IF r \in own THEN PageWriter ELSE mrecLock[r]]
  PROVE  HideInv'
<1>1. Current \in Records /\ Accepted(own)
  BY CurrentIsNext, AcceptDoes, Zenon DEF HideInv, Types, Writes
<1>2. \A t \in Users : t \in Tasks /\ t # NoTask /\ pc'[t] = pc[t]
  BY <1>1, Distinct, Zenon DEF HideInv, Types, Users, Tasks, Accepted
<1>3. InodeWriter \in Users /\ PageWriter \in Tasks /\ pc'[PageWriter] = "next"
  BY <1>1, Zenon DEF HideInv, Types, Users, Tasks, Accepted
<1>4. Types'
  BY <1>1, <1>3, Zenon DEF HideInv, Types, Accepted, others, Labels
<1>5. UsersLocked'
  BY <1>2, Distinct, Zenon DEF HideInv, Types, UsersLocked, UserLocked, others
<1>7. PageOwned'
  <2>1. \A r \in wr'.own : r \in {Base, Ext} /\ mrecLock'[r] = PageWriter
    BY <1>1, Zenon DEF HideInv, PageOwned, Accepted
  <2> QED
    BY <1>2, <1>3, <2>1, Distinct, Zenon DEF HideInv, PageOwned, others
<1>8. FixupsHidden'
  BY <1>1, <1>2, Zenon DEF HideInv, FixupsHidden, Sees, Accepted, others
<1> QED
  BY <1>1, <1>4, <1>5, <1>7, <1>8, Zenon DEF HideInv, Accepted

(* A record that is taken off the list keeps its contents.                 *)
LEMMA RefuseKeeps ==
  ASSUME FirstFound, HideInv, wr.todo # {}, UNCHANGED <<others, mrecLock>>, Refuse,
         pc[PageWriter] \in {"next", "extent", "trylock"}
  PROVE  HideInv'
<1>1. Refused
  BY RefuseDoes, Zenon DEF HideInv
<1>2. \A t \in Users : pc'[t] = pc[t]
  BY <1>1, Distinct, Zenon DEF HideInv, Types, Users, Tasks, Refused
<1>3. InodeWriter \in Users /\ PageWriter \in Tasks /\ pc'[PageWriter] = "next"
  BY <1>1, Zenon DEF HideInv, Types, Users, Tasks, Refused
<1>4. Types'
  BY <1>1, <1>3, Zenon DEF HideInv, Types, Refused, others, Labels
<1>5. UsersLocked'
  BY <1>2, <1>3, Zenon DEF HideInv, UsersLocked, UserLocked, others
<1>6. PageOwned'
  BY <1>1, <1>2, <1>3, Distinct, Zenon DEF HideInv, PageOwned, Refused, others
<1>7. FixupsHidden'
  BY <1>1, <1>2, Zenon DEF HideInv, FixupsHidden, Sees, Refused, others
<1> QED
  BY <1>1, <1>4, <1>5, <1>6, <1>7, Zenon DEF HideInv, Refused

(* The page writer goes on to look at the same record.                     *)
LEMMA MoveKeeps ==
  ASSUME HideInv, wr.todo # {}, UNCHANGED <<others, mrecLock, prot, wr>>,
         pc[PageWriter] \in {"next", "extent"},
         NEW l \in {"extent", "trylock"}, pc' = [pc EXCEPT ![PageWriter] = l],
         l = "extent" => Ext \in wr.todo /\ \A q \in wr.todo : Ext <= q
  PROVE  HideInv'
<1>1. \A t \in Users : pc'[t] = pc[t]
  BY Distinct, Zenon DEF HideInv, Types, Users, Tasks
<1>2. InodeWriter \in Users /\ PageWriter \in Tasks /\ pc'[PageWriter] = l
  BY Zenon DEF HideInv, Types, Users, Tasks
<1>3. Types'
  BY <1>2, Zenon DEF HideInv, Types, others, Labels
<1>4. UsersLocked'
  BY <1>1, <1>2, Zenon DEF HideInv, UsersLocked, UserLocked, others
<1>5. PageOwned' /\ Listed'
  BY <1>1, <1>2, Zenon DEF HideInv, PageOwned, Listed, others
<1>6. FixupsHidden'
  BY <1>1, Zenon DEF HideInv, FixupsHidden, Sees, others
<1> QED
  BY <1>3, <1>4, <1>5, <1>6, Zenon DEF HideInv

(* A record whose lock was free is seen by nobody.                         *)
LEMMA TryLockKeeps ==
  ASSUME FirstFound, HideInv, wr.todo # {}, UNCHANGED others, pc[PageWriter] = "trylock",
         NEW r \in {Base, Ext}, Current = r, TryLock(r)
  PROVE  HideInv'
<1>1. CASE mrecLock[r] = NoTask
  <2>1. \A t \in Users : ~Sees(t, Current)
    BY <1>1, Distinct, Zenon DEF HideInv, UsersLocked, UserLocked, Sees, Users, Using, Tasks
  <2>2. Accept({r}) /\ mrecLock' = [q \in {Base, Ext} |-> IF q \in {r} THEN PageWriter ELSE mrecLock[q]]
    BY <1>1, Zenon DEF TryLock, HideInv, Types
  <2> QED
    BY <1>1, <2>1, <2>2, AcceptKeeps, Zenon
<1>2. CASE mrecLock[r] # NoTask
  BY <1>2, RefuseKeeps, Zenon DEF TryLock
<1> QED
  BY <1>1, <1>2, Zenon

(* Nothing changes for the tasks that map records when the page writer     *)
(* goes on, and takes no lock and applies no fixups.                       *)
LEMMA TasksStay ==
  ASSUME HideInv, \A t \in Users : pc'[t] = pc[t], prot' \subseteq prot,
         UNCHANGED <<attached, inCache, mrecLock, extentLock, rec>>
  PROVE  UsersLocked' /\ FixupsHidden'
<1>1. UsersLocked'
  BY Zenon DEF HideInv, UsersLocked, UserLocked
<1>2. FixupsHidden'
  BY Zenon DEF HideInv, FixupsHidden, Sees
<1> QED
  BY <1>1, <1>2, Zenon

-----------------------------------------------------------------------------
(* The steps of the page writer.  It locks the page of its records.        *)
LEMMA StartPageKeeps ==
  ASSUME HideInv, NEW sync \in BOOLEAN, StartPage(sync)
  PROVE  HideInv'
<1>1. /\ pageLock = NoTask /\ pageLock' = PageWriter /\ pc[PageWriter] = "idle"
      /\ pc' = [pc EXCEPT ![PageWriter] = IF bufDirty = {} THEN "end" ELSE "next"]
      /\ uptodate' = (bufDirty = {})
      /\ wr' = NewWrite(bufDirty, bufDirty, sync)
      /\ UNCHANGED <<prot, bufDirty, attached, inCache, mrecLock, extentLock, rec>>
  BY Zenon DEF StartPage, Goto, content, inode, locks
<1>2. PICK l \in {"end", "next"} :
        (l = "next" => bufDirty # {}) /\ pc' = [pc EXCEPT ![PageWriter] = l]
  BY <1>1, Zenon
<1>3. /\ \A t \in Users : pc'[t] = pc[t]
      /\ pc' \in [Tasks -> Labels] /\ pc'[PageWriter] = l /\ InodeWriter \in Users
  BY <1>2, Distinct, Zenon DEF HideInv, Types, Labels, Tasks, Users
<1>u. UsersLocked' /\ FixupsHidden'
  BY <1>1, <1>3, TasksStay, Zenon
<1>4. /\ wr' \in Writes /\ wr'.todo = bufDirty /\ wr'.out = bufDirty /\ wr'.own = {}
      /\ prot' = {} /\ pc[InodeWriter] \notin {"io", "mirror"}
  BY <1>1, NewIsWrite, Distinct, Zenon DEF NewWrite, HideInv, Types, PageOwned, Tasks
<1>5. Types' /\ Listed'
  BY <1>1, <1>3, <1>4, Zenon DEF HideInv, Types, Listed
<1>6. uptodate' => bufDirty = {}
  BY <1>1, Zenon
<1>7. PageOwned'
  BY <1>1, <1>2, <1>3, <1>4, <1>6, Distinct, Zenon DEF PageOwned, Tasks
<1> QED
  BY <1>u, <1>5, <1>7, Zenon DEF HideInv

(* ntfs_may_write_mft_record() for a base record.                          *)
LEMMA CheckBaseKeeps ==
  ASSUME FirstFound, HideInv, CheckBase
  PROVE  HideInv'
<1>1. /\ pc[PageWriter] = "next" /\ wr.todo # {} /\ Current # Ext
      /\ UNCHANGED <<others, mrecLock>>
  BY Zenon DEF CheckBase, MoreRecords, others, page, inode, locks
<1>2. CASE (Current # Base \/ ~inCache) /\ Accept({})
  <2>1. \A t \in Users : ~Sees(t, Current)
    BY <1>1, <1>2 DEF HideInv, Types, UsersLocked, UserLocked, Sees, Users, Using, Tasks
  <2>2. mrecLock' = [r \in {Base, Ext} |-> IF r \in {} THEN PageWriter ELSE mrecLock[r]]
    BY <1>1, Zenon DEF HideInv, Types
  <2> QED
    BY <1>1, <1>2, <2>1, <2>2, AcceptKeeps, Zenon
<1>3. CASE Refuse
  BY <1>1, <1>3, RefuseKeeps, Zenon
<1>4. CASE pc' = [pc EXCEPT ![PageWriter] = "trylock"] /\ UNCHANGED <<prot, wr>>
  BY <1>1, <1>4, MoveKeeps, Zenon
<1> QED
  BY <1>2, <1>3, <1>4, Zenon DEF CheckBase, Goto

(* ntfs_may_write_mft_record() for an extent record, up to its base inode. *)
LEMMA CheckExtentKeeps ==
  ASSUME FirstFound, HideInv, CheckExtent
  PROVE  HideInv'
<1>1. /\ pc[PageWriter] = "next" /\ wr.todo # {} /\ Current = Ext
      /\ UNCHANGED <<others, mrecLock>>
  BY Zenon DEF CheckExtent, MoreRecords, others, page, inode, locks
<1>2. CASE ~inCache /\ Accept({})
  <2>1. \A t \in Users : ~Sees(t, Current)
    BY <1>1, <1>2, Zenon DEF HideInv, UsersLocked, UserLocked, Sees, Using
  <2>2. mrecLock' = [r \in {Base, Ext} |-> IF r \in {} THEN PageWriter ELSE mrecLock[r]]
    BY <1>1, Zenon DEF HideInv, Types
  <2> QED
    BY <1>1, <1>2, <2>1, <2>2, AcceptKeeps, Zenon
<1>3. CASE pc' = [pc EXCEPT ![PageWriter] = "extent"] /\ UNCHANGED <<prot, wr>>
  <2>1. Ext \in wr.todo /\ \A q \in wr.todo : Ext <= q
    BY <1>1, CurrentIsNext, Zenon DEF HideInv
  <2> QED
    BY <1>1, <1>3, <2>1, MoveKeeps, Zenon
<1> QED
  BY <1>2, <1>3, Zenon DEF CheckExtent, Goto

(* The extent inode is looked for under the base inode.                    *)
LEMMA FindExtentKeeps ==
  ASSUME FirstFound, HideInv, FindExtent
  PROVE  HideInv'
<1>1. pc[PageWriter] = "extent" /\ UNCHANGED <<others, mrecLock>>
  BY Zenon DEF FindExtent, others, page, inode, locks
<1>2. wr.todo # {} /\ Current = Ext
  <2>1. Types /\ wr.todo # {} /\ Ext \in wr.todo /\ \A q \in wr.todo : Ext <= q
    BY <1>1, Zenon DEF HideInv, Listed
  <2>2. Current \in Int
    BY <2>1, CurrentIsNext, MftWriteAssumption DEF Types, Writes, Records
  <2> QED
    BY <2>1, <2>2, CurrentIsNext DEF Ext
<1>3. CASE ~attached /\ Accept({})
  <2>1. \A t \in Users : ~Sees(t, Current)
    BY <1>2, <1>3, Distinct, ZenonT(60) DEF HideInv, UsersLocked, UserLocked, Sees, Using
  <2>2. mrecLock' = [r \in {Base, Ext} |-> IF r \in {} THEN PageWriter ELSE mrecLock[r]]
    BY <1>1, Zenon DEF HideInv, Types
  <2> QED
    BY <1>1, <1>2, <1>3, <2>1, <2>2, AcceptKeeps, Zenon
<1>4. CASE pc' = [pc EXCEPT ![PageWriter] = "trylock"] /\ UNCHANGED <<prot, wr>>
  BY <1>1, <1>2, <1>4, MoveKeeps, Zenon
<1> QED
  BY <1>3, <1>4, Zenon DEF FindExtent, Goto

(* The lock of the record is tried.                                        *)
LEMMA TryLocksKeep ==
  ASSUME FirstFound, HideInv, TryLockBase \/ TryLockExtent
  PROVE  HideInv'
<1>1. PICK r \in {Base, Ext} : Current = r /\ TryLock(r)
  BY Zenon DEF TryLockBase, TryLockExtent
<1>2. pc[PageWriter] = "trylock" /\ UNCHANGED others
  BY Zenon DEF TryLockBase, TryLockExtent, others, page, inode
<1>3. wr.todo # {}
  BY <1>2, Zenon DEF HideInv, PageOwned
<1> QED
  BY <1>1, <1>2, <1>3, TryLockKeeps, Zenon

(* The buffers of the page are submitted.                                  *)
LEMMA SubmitPageKeeps ==
  ASSUME HideInv, SubmitPage
  PROVE  HideInv'
<1>1. /\ pc[PageWriter] = "next" /\ wr.todo = {}
      /\ pc' = [pc EXCEPT ![PageWriter] = IF prot = {} THEN "end" ELSE "io"]
      /\ bufDirty' \in {bufDirty, bufDirty \ wr.out}
      /\ wr' = [wr EXCEPT !.out = IF prot = {} THEN {} ELSE @]
      /\ UNCHANGED <<prot, uptodate, attached, inCache, pageLock, mrecLock, extentLock, rec>>
  BY Zenon DEF SubmitPage, Goto, MoreRecords, page, inode, locks
<1>2. PICK l \in {"end", "io"} : pc' = [pc EXCEPT ![PageWriter] = l] /\ (l = "end" => prot = {})
  BY <1>1, Zenon
<1>3. /\ \A t \in Users : pc'[t] = pc[t]
      /\ pc' \in [Tasks -> Labels] /\ pc'[PageWriter] = l /\ InodeWriter \in Users
  BY <1>2, Distinct, Zenon DEF HideInv, Types, Labels, Tasks, Users
<1>u. UsersLocked' /\ FixupsHidden'
  BY <1>1, <1>3, TasksStay, Zenon
<1>4. /\ wr' \in Writes /\ wr'.todo = {} /\ wr'.own = wr.own
      /\ wr'.out = IF prot = {} THEN {} ELSE wr.out
  BY <1>1, Zenon DEF HideInv, Types, Writes
<1>5. Types' /\ Listed'
  BY <1>1, <1>3, <1>4, Zenon DEF HideInv, Types, Listed
<1>6. PageOwned'
  BY <1>1, <1>2, <1>3, <1>4, Distinct, Zenon DEF HideInv, PageOwned, Tasks
<1> QED
  BY <1>u, <1>5, <1>6, Zenon DEF HideInv

(* The fixups are removed once the buffers are written.                    *)
LEMMA FinishIOKeeps ==
  ASSUME HideInv, FinishIO
  PROVE  HideInv'
<1>1. /\ pc[PageWriter] = "mirror" /\ pc' = [pc EXCEPT ![PageWriter] = "end"]
      /\ prot' = prot \ wr.out
      /\ UNCHANGED <<wr, bufDirty, uptodate, attached, inCache, pageLock, mrecLock,
                     extentLock, rec>>
  BY Zenon DEF FinishIO, Goto, RemoveFixups, page, inode, locks
<1>2. /\ \A t \in Users : pc'[t] = pc[t]
      /\ pc' \in [Tasks -> Labels] /\ pc'[PageWriter] = "end" /\ InodeWriter \in Users
  BY <1>1, Distinct, Zenon DEF HideInv, Types, Labels, Tasks, Users
<1>u. UsersLocked' /\ FixupsHidden'
  BY <1>1, <1>2, TasksStay, Zenon
<1>3. Types' /\ Listed' /\ prot' = {}
  BY <1>1, <1>2, Zenon DEF HideInv, Types, Listed
<1>4. PageOwned'
  BY <1>1, <1>2, <1>3, Distinct, Zenon DEF HideInv, PageOwned, Tasks
<1> QED
  BY <1>u, <1>3, <1>4, Zenon DEF HideInv

(* The page is unlocked, and the records with it.                          *)
LEMMA FinishPageKeeps ==
  ASSUME HideInv, FinishPage
  PROVE  HideInv'
<1>1. /\ pc[PageWriter] = "end" /\ pc' = [pc EXCEPT ![PageWriter] = "idle"]
      /\ mrecLock' = [r \in {Base, Ext} |-> IF r \in wr.own THEN NoTask ELSE mrecLock[r]]
      /\ uptodate' = TRUE /\ pageLock' = NoTask /\ wr' = NoWrite
      /\ UNCHANGED <<prot, bufDirty, attached, inCache, extentLock, rec>>
  BY ZenonT(60) DEF FinishPage, Goto, content, page, inode, locks, io
<1>2. wr' \in Writes
  BY <1>1, NewIsWrite, Zenon DEF NoWrite
<1>3. wr'.out = {} /\ wr'.own = {} /\ wr'.todo = {} /\ prot' = {}
  BY <1>1, Zenon DEF NoWrite, NewWrite, HideInv, PageOwned
<1>4. /\ \A t \in Users : t \in Tasks /\ t # PageWriter /\ pc'[t] = pc[t]
      /\ pc'[PageWriter] = "idle" /\ InodeWriter \in Users
  BY <1>1, Distinct, Zenon DEF HideInv, Types, Users, Tasks
<1>5. Types'
  BY <1>1, <1>2, Distinct, Zenon DEF HideInv, Types, Labels, Tasks
<1>6. UsersLocked'
  BY <1>1, <1>4 DEF HideInv, Types, PageOwned, UsersLocked, UserLocked
<1>7. PageOwned'
  BY <1>1, <1>3, <1>4, Distinct, ZenonT(60) DEF HideInv, PageOwned, Tasks
<1>8. Listed' /\ FixupsHidden'
  BY <1>3, <1>4, Zenon DEF Listed, FixupsHidden
<1> QED
  BY <1>5, <1>6, <1>7, <1>8, Zenon DEF HideInv

-----------------------------------------------------------------------------
(* Block I/O and formatting change nothing that the invariant is about.    *)
LEMMA IoKeeps ==
  ASSUME HideInv, bufDirty' \subseteq Records, wr' \in Writes,
         wr'.todo = wr.todo, wr'.out = wr.out, wr'.own = wr.own,
         UNCHANGED <<prot, uptodate, attached, inCache, pageLock, mrecLock, extentLock, pc, rec>>
  PROVE  HideInv'
<1>1. Types' /\ UsersLocked' /\ FixupsHidden'
  BY Zenon DEF HideInv, Types, UsersLocked, UserLocked, FixupsHidden, Sees
<1>2. PageOwned' /\ Listed'
  BY Zenon DEF HideInv, PageOwned, Listed
<1> QED
  BY <1>1, <1>2, Zenon DEF HideInv

(* The mirror is written while the page stays locked.                      *)
LEMMA SyncMirrorKeeps ==
  ASSUME HideInv, NEW t \in {InodeWriter, PageWriter}, SyncMirror(t)
  PROVE  HideInv'
<1>1. /\ \E r \in wr.mirror : wr' = [wr EXCEPT !.mirror = @ \ {r}]
      /\ UNCHANGED <<prot, bufDirty, uptodate, attached, inCache, pageLock, mrecLock,
                     extentLock, pc, rec>>
  BY Zenon DEF SyncMirror, content, page, inode, locks
<1>2. wr' \in Writes /\ wr'.todo = wr.todo /\ wr'.out = wr.out /\ wr'.own = wr.own
  BY <1>1, Zenon DEF HideInv, Types, Writes
<1> QED
  BY <1>1, <1>2, IoKeeps, Zenon DEF HideInv, Types

(* A block reaches the disk.                                               *)
LEMMA CompleteKeeps ==
  ASSUME HideInv, NEW f \in flight, Complete(f)
  PROVE  HideInv'
<1>1. /\ wr' = wr \/ wr' = [wr EXCEPT !.err = TRUE]
      /\ UNCHANGED <<prot, bufDirty, uptodate, attached, inCache, pageLock, mrecLock,
                     extentLock, pc, rec>>
  BY Zenon DEF Complete, content, page, inode, locks, io
<1>2. wr' \in Writes
  BY <1>1, ZenonT(60) DEF HideInv, Types, Writes
<1>3. wr'.todo = wr.todo /\ wr'.out = wr.out /\ wr'.own = wr.own
  BY <1>1, Zenon DEF HideInv, Types, Writes
<1> QED
  BY <1>1, <1>2, <1>3, IoKeeps, Zenon DEF HideInv, Types

(* A record is formatted under the page lock.                              *)
LEMMA FormatKeeps ==
  ASSUME HideInv, NEW r \in Records, Format(r)
  PROVE  HideInv'
<1>1. /\ bufDirty' = bufDirty \cup {r}
      /\ UNCHANGED <<prot, wr, uptodate, attached, inCache, pageLock, mrecLock, extentLock,
                     pc, rec>>
  BY Zenon DEF Format, content, page, inode, locks, io
<1> QED
  BY <1>1, IoKeeps, Zenon DEF HideInv, Types

(* The inode leaves memory when no task uses it.                           *)
LEMMA EvictKeeps ==
  ASSUME HideInv, Evict
  PROVE  HideInv'
<1>1. /\ \A u \in Users : pc[u] = "idle"
      /\ inCache' = FALSE /\ attached' = FALSE
      /\ UNCHANGED <<prot, wr, bufDirty, uptodate, pageLock, mrecLock, extentLock, pc, rec>>
  BY ZenonT(60) DEF Evict, Users, content, page, inode, locks, io
<1>2. Types' /\ PageOwned' /\ Listed' /\ FixupsHidden'
  BY <1>1, Zenon DEF HideInv, Types, PageOwned, Listed, FixupsHidden, Sees
<1>3. UsersLocked'
  BY <1>1, Zenon DEF HideInv, UsersLocked, UserLocked, Using
<1> QED
  BY <1>2, <1>3, Zenon DEF HideInv

(* The records that have a mirror are listed.                              *)
LEMMA StartMirrorKeeps ==
  ASSUME HideInv, NEW t \in {InodeWriter, PageWriter}, StartMirror(t)
  PROVE  HideInv'
<1>1. /\ pc[t] = "io" /\ pc' = [pc EXCEPT ![t] = "mirror"]
      /\ wr' = [wr EXCEPT !.mirror = {r \in wr.out : r < MirrorSize}]
      /\ UNCHANGED <<prot, bufDirty, uptodate, attached, inCache, pageLock, mrecLock,
                     extentLock, rec>>
  BY Zenon DEF StartMirror, Goto, content, page, inode, locks, io
<1>2. wr' \in Writes /\ wr'.todo = wr.todo /\ wr'.out = wr.out /\ wr'.own = wr.own
  BY <1>1, Zenon DEF HideInv, Types, Writes
<1>3. Types'
  BY <1>1, <1>2, Zenon DEF HideInv, Types, Labels, Tasks
<1>4. UsersLocked'
  BY <1>1, Distinct, Zenon DEF HideInv, UsersLocked, UserLocked, Types, Users, Using, Tasks
<1>5. PageOwned' /\ Listed'
  BY <1>1, <1>2, Distinct, Zenon DEF HideInv, PageOwned, Listed, Types, Tasks
<1>6. FixupsHidden'
  BY <1>1, Distinct, Zenon DEF HideInv, FixupsHidden, Sees, Types, Users, Using, Tasks
<1> QED
  BY <1>3, <1>4, <1>5, <1>6, Zenon DEF HideInv

-----------------------------------------------------------------------------
(* The steps of the tasks that map records, and of the inode writer.  An   *)
(* inode is used, and its base record locked next.                         *)
LEMMA UseKeeps ==
  ASSUME NEW t \in Modifiers, UserIs(t), Use(t)
  PROVE  UserStep(t)
<1>1. /\ pc[t] = "idle" /\ pc' = [pc EXCEPT ![t] = "lock"]
      /\ rec' = [rec EXCEPT ![t] = Base] /\ inCache' = TRUE
      /\ UNCHANGED <<prot, wr, bufDirty, uptodate, attached, pageLock, mrecLock, extentLock>>
  BY Zenon DEF Use, Goto, content, page, inode, locks, io
<1>2. UserMove(t)
  BY <1>1, RecordsAreTwo, Zenon DEF UserIs, UserMove, Labels, Using
<1>3. UserLocked(t)'
  BY <1>1 DEF UserIs, UserLocked, Using, Base, Ext
<1>4. \A q \in prot : ~Sees(t, q)'
  BY <1>1, Distinct, Zenon DEF UserIs, Sees, Using
<1> QED
  BY <1>2, <1>3, <1>4, Zenon DEF UserStep

(* A mapped record is modified.                                            *)
LEMMA ModifyKeeps ==
  ASSUME NEW t \in Modifiers, UserIs(t), Modify(t)
  PROVE  UserStep(t)
<1>1. /\ pc[t] = "mapped" /\ pc' = [pc EXCEPT ![t] = "mark"]
      /\ UNCHANGED <<prot, wr, bufDirty, uptodate, attached, inCache, pageLock, mrecLock,
                     extentLock, rec>>
  BY Zenon DEF Modify, Goto, content, page, inode, locks, io
<1>2. UserMove(t)
  BY <1>1, RecordsAreTwo, Zenon DEF UserIs, UserMove, Labels, Using
<1>3. UserLocked(t)'
  BY <1>1, Distinct, Zenon DEF UserIs, UserLocked, Using
<1>4. \A q \in prot : ~Sees(t, q)'
  BY <1>1, Distinct, Zenon DEF UserIs, Sees, Using
<1> QED
  BY <1>2, <1>3, <1>4, Zenon DEF UserStep

(* An extent record is allocated and comes back mapped.                    *)
LEMMA AllocExtentKeeps ==
  ASSUME NEW t \in Modifiers, UserIs(t), AllocExtent(t)
  PROVE  UserStep(t)
<1>1. /\ pc[t] = "mapped" /\ rec[t] = Base /\ pageLock = NoTask
      /\ bufDirty' = bufDirty \cup {Ext} /\ mrecLock[Ext] = NoTask /\ ~attached
      /\ \/ /\ attached' = TRUE /\ mrecLock' = [mrecLock EXCEPT ![Ext] = t]
            /\ rec' = [rec EXCEPT ![t] = Ext]
         \/ UNCHANGED <<attached, mrecLock, rec>>
      /\ UNCHANGED <<prot, wr, uptodate, inCache, pageLock, extentLock, pc>>
  BY Zenon DEF AllocExtent, content, page, inode, locks, io
<1>2. UserMove(t)
  BY <1>1, RecordsAreTwo DEF UserIs, UserMove, Labels, Using
<1>3. UserLocked(t)'
  BY <1>1, Distinct, Zenon DEF UserIs, UserLocked, Using
<1>4. \A q \in prot : ~Sees(t, q)'
  BY <1>1, Distinct, Zenon DEF UserIs, Sees, Using
<1> QED
  BY <1>2, <1>3, <1>4, Zenon DEF UserStep

(* A task goes on to map the extent record.                                *)
LEMMA MapExtentKeeps ==
  ASSUME NEW t \in Modifiers, UserIs(t), MapExtent(t)
  PROVE  UserStep(t)
<1>1. /\ pc[t] = "mapped" /\ rec[t] = Base /\ extentLock = NoTask
      /\ pc' = [pc EXCEPT ![t] = "lock"] /\ rec' = [rec EXCEPT ![t] = Ext]
      /\ extentLock' = IF attached THEN NoTask ELSE t
      /\ UNCHANGED <<prot, wr, bufDirty, uptodate, attached, inCache, pageLock, mrecLock>>
  BY Zenon DEF MapExtent, Goto, content, page, inode, locks, io
<1>2. UserMove(t)
  BY <1>1, RecordsAreTwo, Zenon DEF UserIs, UserMove, Labels, Using
<1>3. UserLocked(t)'
  BY <1>1, Distinct, Zenon DEF UserIs, UserLocked, Using
<1>4. \A q \in prot : ~Sees(t, q)'
  BY <1>1, Distinct, Zenon DEF UserIs, Sees, Using
<1> QED
  BY <1>2, <1>3, <1>4, Zenon DEF UserStep

(* A record is unmapped.                                                   *)
LEMMA UnmapKeeps ==
  ASSUME NEW t \in Modifiers, UserIs(t), Unmap(t)
  PROVE  UserStep(t)
<1>1. /\ pc[t] = "mapped"
      /\ pc' = [pc EXCEPT ![t] = IF rec[t] = Base THEN "idle" ELSE "mapped"]
      /\ rec' = [rec EXCEPT ![t] = Base] /\ mrecLock' = [mrecLock EXCEPT ![rec[t]] = NoTask]
      /\ UNCHANGED <<prot, wr, bufDirty, uptodate, attached, inCache, pageLock, extentLock>>
  BY Zenon DEF Unmap, Goto, Unlocked, content, page, inode, locks, io
<1>2. UserMove(t)
  BY <1>1, RecordsAreTwo, Zenon DEF UserIs, UserMove, UserLocked, Labels, Using, Base, Ext
<1>3. UserLocked(t)'
  BY <1>1, Distinct, Zenon DEF UserIs, UserLocked, Using, Base, Ext
<1>4. \A q \in prot : ~Sees(t, q)'
  BY <1>1, Distinct, Zenon DEF UserIs, UserLocked, Sees, Using, Base, Ext
<1> QED
  BY <1>2, <1>3, <1>4, Zenon DEF UserStep

(* The lock of a record is taken.                                          *)
LEMMA LockKeeps ==
  ASSUME NEW t \in Users, UserIs(t), Lock(t)
  PROVE  UserStep(t)
<1>1. /\ pc[t] = "lock" /\ pc' = [pc EXCEPT ![t] = "map"]
      /\ mrecLock[rec[t]] = NoTask /\ mrecLock' = [mrecLock EXCEPT ![rec[t]] = t]
      /\ UNCHANGED <<prot, wr, bufDirty, uptodate, attached, inCache, pageLock, extentLock,
                     rec>>
  BY Zenon DEF Lock, Goto, content, page, inode, locks, io
<1>2. UserMove(t)
  BY <1>1, RecordsAreTwo, Zenon DEF UserIs, UserMove, Labels, Using
<1>3. UserLocked(t)'
  BY <1>1, Distinct, Zenon DEF UserIs, UserLocked, Using
<1>4. \A q \in prot : ~Sees(t, q)'
  BY <1>1, Distinct, Zenon DEF UserIs, Sees, Using
<1> QED
  BY <1>2, <1>3, <1>4, Zenon DEF UserStep

(* The page is read only while it is up to date.                           *)
LEMMA MapPageKeeps ==
  ASSUME NEW t \in Users, UserIs(t), MapPage(t)
  PROVE  UserStep(t)
<1>1. /\ uptodate /\ pc[t] = "map" /\ pc' = [pc EXCEPT ![t] = "mapped"]
      /\ \/ extentLock = t /\ t # InodeWriter /\ attached' = TRUE /\ extentLock' = NoTask
         \/ ~(extentLock = t /\ t # InodeWriter) /\ UNCHANGED <<attached, extentLock>>
      /\ UNCHANGED <<prot, wr, bufDirty, uptodate, inCache, pageLock, mrecLock, rec>>
  BY Zenon DEF MapPage, Goto, content, page, inode, locks, io
<1>2. UserMove(t)
  BY <1>1, RecordsAreTwo DEF UserIs, UserMove, Labels, Using
<1>3. UserLocked(t)'
  BY <1>1, Distinct DEF UserIs, UserLocked, Using
<1>4. \A q \in prot : ~Sees(t, q)'
  BY <1>1, Distinct, Zenon DEF UserIs, UserLocked, Sees, Using
<1> QED
  BY <1>2, <1>3, <1>4, Zenon DEF UserStep

(* The page cannot be read; what was locked is unlocked.                   *)
LEMMA MapFailsKeeps ==
  ASSUME NEW t \in Users, UserIs(t), MapFails(t)
  PROVE  UserStep(t)
<1>1. /\ uptodate /\ pc[t] = "map" /\ mrecLock' = [mrecLock EXCEPT ![rec[t]] = NoTask]
      /\ \/ /\ t \in Modifiers
            /\ pc' = [pc EXCEPT ![t] = IF rec[t] = Base THEN "idle" ELSE "mapped"]
            /\ rec' = [rec EXCEPT ![t] = Base]
            /\ extentLock' = IF extentLock = t THEN NoTask ELSE extentLock
         \/ /\ t = InodeWriter
            /\ pc' = [pc EXCEPT ![t] = IF rec[t] = Base THEN "idle" ELSE "unmap"]
            /\ UNCHANGED <<rec, extentLock>>
      /\ UNCHANGED <<prot, wr, bufDirty, uptodate, attached, inCache, pageLock>>
  BY Zenon DEF MapFails, Goto, Unlocked, content, page, inode, locks, io
<1>2. UserMove(t)
  BY <1>1, RecordsAreTwo, Zenon DEF UserIs, UserMove, UserLocked, Labels, Using, Base, Ext
<1>3. UserLocked(t)'
  BY <1>1, Distinct, Zenon DEF UserIs, UserLocked, Using, Base, Ext
<1>4. \A q \in prot : ~Sees(t, q)'
  BY <1>1, Distinct, Zenon DEF UserIs, UserLocked, Sees, Using, Base, Ext
<1> QED
  BY <1>2, <1>3, <1>4, Zenon DEF UserStep

(* A modified record is marked dirty.                                      *)
LEMMA MarkDirtyKeeps ==
  ASSUME NEW t \in Users, UserIs(t), MarkDirty(t)
  PROVE  UserStep(t)
<1>1. /\ pc[t] = "mark"
      /\ \E l \in {"mapped", "bug"} \cup (IF t = InodeWriter THEN {"write"} ELSE {}) :
           pc' = [pc EXCEPT ![t] = l]
      /\ bufDirty' \in {bufDirty, bufDirty \cup {rec[t]}}
      /\ UNCHANGED <<prot, wr, uptodate, attached, inCache, pageLock, mrecLock, extentLock,
                     rec>>
  BY Zenon DEF MarkDirty, Goto, content, page, inode, locks, io
<1>2. UserMove(t)
  BY <1>1, RecordsAreTwo, Zenon DEF UserIs, UserMove, Labels, Using
<1>3. UserLocked(t)'
  BY <1>1, Distinct, Zenon DEF UserIs, UserLocked, Using
<1>4. \A q \in prot : ~Sees(t, q)'
  BY <1>1, Distinct, Zenon DEF UserIs, Sees, Using
<1> QED
  BY <1>2, <1>3, <1>4, Zenon DEF UserStep

(* ntfs_write_inode() begins.                                              *)
LEMMA StartInodeKeeps ==
  ASSUME UserIs(InodeWriter), StartInode
  PROVE  UserStep(InodeWriter)
<1>1. /\ inCache /\ pc[InodeWriter] = "idle" /\ pc' = [pc EXCEPT ![InodeWriter] = "lock"]
      /\ rec' = [rec EXCEPT ![InodeWriter] = Base]
      /\ UNCHANGED <<prot, wr, bufDirty, uptodate, attached, inCache, pageLock, mrecLock,
                     extentLock>>
  BY Zenon DEF StartInode, Goto, content, page, inode, locks, io
<1>2. UserMove(InodeWriter)
  BY <1>1, RecordsAreTwo, Zenon DEF UserIs, UserMove, Labels, Using
<1>3. UserLocked(InodeWriter)'
  BY <1>1 DEF UserIs, UserLocked, Using, Base, Ext
<1>4. \A q \in prot : ~Sees(InodeWriter, q)'
  BY <1>1, Distinct, Zenon DEF UserIs, Sees, Using
<1> QED
  BY <1>2, <1>3, <1>4, Zenon DEF UserStep

(* It finds times to update, or none.                                      *)
LEMMA UpdateTimesKeeps ==
  ASSUME UserIs(InodeWriter), UpdateTimes
  PROVE  UserStep(InodeWriter)
<1>1. /\ rec[InodeWriter] = Base /\ pc[InodeWriter] = "mapped"
      /\ \/ /\ \E l \in {"mark", "write"} : pc' = [pc EXCEPT ![InodeWriter] = l]
            /\ mrecLock' = mrecLock
         \/ /\ pc' = [pc EXCEPT ![InodeWriter] = "idle"]
            /\ mrecLock' = [mrecLock EXCEPT ![Base] = NoTask]
      /\ UNCHANGED <<prot, wr, bufDirty, uptodate, attached, inCache, pageLock, extentLock, rec>>
  BY Zenon DEF UpdateTimes, Goto, Unlocked, content, page, inode, locks, io
<1>2. UserMove(InodeWriter)
  BY <1>1, RecordsAreTwo DEF UserIs, UserMove, UserLocked, Labels, Using, Base, Ext
<1>3. UserLocked(InodeWriter)'
  BY <1>1, Distinct, Zenon DEF UserIs, UserLocked, Using, Base, Ext
<1>4. \A q \in prot : ~Sees(InodeWriter, q)'
  BY <1>1, Distinct, Zenon DEF UserIs, UserLocked, Sees, Using, Base, Ext
<1> QED
  BY <1>2, <1>3, <1>4, Zenon DEF UserStep

(* A record that is not dirty is not written.                              *)
LEMMA SkipCleanKeeps ==
  ASSUME UserIs(InodeWriter), SkipClean
  PROVE  UserStep(InodeWriter)
<1>1. /\ pc[InodeWriter] = "write" /\ pc' = [pc EXCEPT ![InodeWriter] = AfterRecord]
      /\ UNCHANGED <<prot, wr, bufDirty, uptodate, attached, inCache, pageLock, mrecLock,
                     extentLock, rec>>
  BY Zenon DEF SkipClean, Goto, content, page, inode, locks, io
<1>2. UserMove(InodeWriter)
  BY <1>1, RecordsAreTwo, Zenon DEF UserIs, UserMove, Labels, Using, AfterRecord
<1>3. UserLocked(InodeWriter)'
  BY <1>1, Distinct, Zenon DEF UserIs, UserLocked, Using, AfterRecord
<1>4. \A q \in prot : ~Sees(InodeWriter, q)'
  BY <1>1, Distinct, Zenon DEF UserIs, Sees, Using, AfterRecord
<1> QED
  BY <1>2, <1>3, <1>4, Zenon DEF UserStep

(* The extent inodes follow the base inode.                                *)
LEMMA WriteExtentsKeeps ==
  ASSUME UserIs(InodeWriter), WriteExtents
  PROVE  UserStep(InodeWriter)
<1>1. /\ pc[InodeWriter] = "extents" /\ extentLock = NoTask /\ extentLock' = InodeWriter
      /\ \/ /\ attached /\ pc' = [pc EXCEPT ![InodeWriter] = "lock"]
            /\ rec' = [rec EXCEPT ![InodeWriter] = Ext]
         \/ pc' = [pc EXCEPT ![InodeWriter] = "unmap"] /\ rec' = rec
      /\ UNCHANGED <<prot, wr, bufDirty, uptodate, attached, inCache, pageLock, mrecLock>>
  BY Zenon DEF WriteExtents, Goto, content, page, inode, locks, io
<1>2. UserMove(InodeWriter)
  BY <1>1, RecordsAreTwo, Zenon DEF UserIs, UserMove, Labels, Using
<1>3. UserLocked(InodeWriter)'
  BY <1>1, Distinct, Zenon DEF UserIs, UserLocked, Using
<1>4. \A q \in prot : ~Sees(InodeWriter, q)'
  BY <1>1, Distinct, Zenon DEF UserIs, Sees, Using
<1> QED
  BY <1>2, <1>3, <1>4, Zenon DEF UserStep

(* An extent record that is mapped is written next.                        *)
LEMMA StartExtentKeeps ==
  ASSUME UserIs(InodeWriter), StartExtent
  PROVE  UserStep(InodeWriter)
<1>1. /\ pc[InodeWriter] = "mapped" /\ pc' = [pc EXCEPT ![InodeWriter] = "write"]
      /\ UNCHANGED <<prot, wr, bufDirty, uptodate, attached, inCache, pageLock, mrecLock,
                     extentLock, rec>>
  BY Zenon DEF StartExtent, Goto, content, page, inode, locks, io
<1>2. UserMove(InodeWriter)
  BY <1>1, RecordsAreTwo, Zenon DEF UserIs, UserMove, Labels, Using
<1>3. UserLocked(InodeWriter)'
  BY <1>1, Distinct, Zenon DEF UserIs, UserLocked, Using
<1>4. \A q \in prot : ~Sees(InodeWriter, q)'
  BY <1>1, Distinct, Zenon DEF UserIs, Sees, Using
<1> QED
  BY <1>2, <1>3, <1>4, Zenon DEF UserStep

(* ntfs_write_inode() ends and releases what it has.                       *)
LEMMA FinishInodeKeeps ==
  ASSUME UserIs(InodeWriter), FinishInode
  PROVE  UserStep(InodeWriter)
<1>1. /\ pc[InodeWriter] = "unmap" /\ pc' = [pc EXCEPT ![InodeWriter] = "idle"]
      /\ mrecLock' = [r \in {Base, Ext} |-> IF mrecLock[r] = InodeWriter THEN NoTask
                                        ELSE mrecLock[r]]
      /\ extentLock' = NoTask /\ rec' = [rec EXCEPT ![InodeWriter] = Base]
      /\ UNCHANGED <<prot, wr, bufDirty, uptodate, attached, inCache, pageLock>>
  BY Zenon DEF FinishInode, Goto, content, page, inode, locks, io
<1>2. UserMove(InodeWriter)
  BY <1>1, RecordsAreTwo, Zenon DEF UserIs, UserMove, UserLocked, Labels, Using
<1>3. UserLocked(InodeWriter)'
  BY <1>1, Distinct, Zenon DEF UserIs, UserLocked, Using
<1>4. \A q \in prot : ~Sees(InodeWriter, q)'
  BY <1>1, Distinct, Zenon DEF UserIs, UserLocked, Sees, Using
<1> QED
  BY <1>2, <1>3, <1>4, Zenon DEF UserStep

-----------------------------------------------------------------------------
(* The invariant holds at the start.                                       *)
LEMMA HideInit == Init => HideInv
<1> SUFFICES ASSUME Init PROVE HideInv
  BY Zenon
<1>1. Types
  BY ZenonT(60) DEF Init, Types, Writes, Labels, Tasks, NoWrite, NewWrite
<1>2. UsersLocked
  BY Distinct, Zenon DEF Init, UsersLocked, UserLocked, Users, Using, Tasks
<1>3. PageOwned /\ Listed /\ FixupsHidden
  BY Distinct, Zenon DEF Init, PageOwned, Listed, FixupsHidden, NoWrite, NewWrite, Tasks
<1> QED
  BY <1>1, <1>2, <1>3, Zenon DEF HideInv

INSTANCE WellFoundedInduction

(* The next record the page writer looks at is one of those left, and none *)
(* that is left comes before it.                                           *)
LEMMA FirstIsFound ==
  ASSUME Types, wr.todo # {}
  PROVE  FirstFound
<1>1. wr.todo \subseteq Nat
  BY MftWriteAssumption DEF Types, Writes, Records
<1>2. IsWellFoundedOn({ss \in Nat \X Nat : ss[1] < ss[2]}, Nat)
  BY NatLessThanWellFounded, Zenon DEF OpToRel
<1>3. PICK r \in wr.todo :
        \A q \in wr.todo : ~(<<q, r>> \in {ss \in Nat \X Nat : ss[1] < ss[2]})
  BY <1>1, <1>2, WFMin, Zenon
<1>4. \A q \in wr.todo : ~(q < r)
  BY <1>1, <1>3, Zenon
<1>5. \A q \in wr.todo : r <= q
  BY <1>1, <1>4
<1> QED
  BY <1>5, Zenon DEF Current, FirstFound

(* Every step keeps the invariant.                                         *)
LEMMA HideKept == HideInv /\ [Next]_vars => HideInv'
<1> SUFFICES ASSUME HideInv, [Next]_vars PROVE HideInv'
  BY Zenon
<1> FirstFound
  BY FirstIsFound, Zenon DEF FirstFound, HideInv
<1>0. \A t \in Users : UserIs(t) /\ (UserStep(t) => HideInv')
  BY EachUser, UserMoves, Zenon
<1>1. ASSUME NEW t \in Modifiers, ModifierStep(t) PROVE HideInv'
  BY <1>0, <1>1, UseKeeps, ModifyKeeps, AllocExtentKeeps, MapExtentKeeps, UnmapKeeps, Zenon DEF ModifierStep, Users
<1>2. ASSUME NEW t \in Users, MapStep(t) PROVE HideInv'
  BY <1>0, <1>2, LockKeeps, MapPageKeeps, MapFailsKeeps, MarkDirtyKeeps, Zenon DEF MapStep
<1>3. ASSUME NEW t \in {InodeWriter, PageWriter}, StartMirror(t) \/ SyncMirror(t) PROVE HideInv'
  BY <1>3, StartMirrorKeeps, SyncMirrorKeeps, Zenon
<1>4. CASE InodeStep
  BY <1>0, <1>4, WriteRecordKeeps, StartInodeKeeps, UpdateTimesKeeps, SkipCleanKeeps,
     FinishRecordKeeps, WriteExtentsKeeps, StartExtentKeeps, FinishInodeKeeps, Zenon DEF InodeStep, Users
<1>5. CASE PageStep
  BY <1>5, StartPageKeeps, CheckBaseKeeps, TryLocksKeep, CheckExtentKeeps, FindExtentKeeps,
     SubmitPageKeeps, FinishIOKeeps, FinishPageKeeps, Zenon DEF PageStep
<1>6. CASE UNCHANGED vars
  BY <1>6, IoKeeps, Zenon DEF vars, content, page, inode, locks, io, HideInv, Types
<1> QED
  BY <1>1, <1>2, <1>3, <1>4, <1>5, <1>6, CompleteKeeps, FormatKeeps, EvictKeeps, Zenon DEF Next, Users

(* While a record's fixups are applied for a write nobody else sees or     *)
(* changes it: ntfs_write_mst_block() and write_mft_record_nolock().       *)
THEOREM FixupsAreHidden == Spec => []FixupsHidden
<1>1. HideInv => FixupsHidden
  BY Zenon DEF HideInv
<1> QED
  BY <1>1, HideInit, HideKept, PTL DEF Spec
=============================================================================
