--------------------------- MODULE MftAllocProofs ---------------------------
(***************************************************************************)
(* The rest of the argument for mft record allocation: the steps that      *)
(* form, free and write mft records, why a reference is newer than every   *)
(* one given out before it, the first states, and the theorems.            *)
(***************************************************************************)
EXTENDS MftAllocSteps

(* A step that changes records and who has them.                           *)
LEMMA RecordStep ==
  ASSUME AllocInv, NEW t \in Tasks, Moves(t), UNCHANGED <<lock, bmp, sizes>>,
         errors' = errors \/ errors' = TRUE, Placed(t)',
         pc[t] \notin Forming \cup {"oops"}, pc'[t] \notin Forming \cup {"oops", "full"},
         mem' \in [Records -> [use : BOOLEAN, seq : Nat, dirty : BOOLEAN]],
         disk' \in [Records -> [use : BOOLEAN, seq : Nat]], dataPos' \in Nat,
         live' \subseteq References, issued' \subseteq Records \X Nat, frees' \in Nat,
         \A u \in Tasks : Owned(u)', KeepsBelow => Given'
  PROVE  AllocInv'
<1>1. Types /\ InOrder /\ SizesAgree /\ FullIsFull /\ \A u \in Tasks : Placed(u)
  BY Zenon DEF AllocInv
<1>2. UNCHANGED <<lock, bmp, sz, at, used>> /\ UNCHANGED sizes /\ UNCHANGED <<bmp, sz>> /\ sz' = sz
  BY Zenon DEF sizes
<1>3. errors' \in BOOLEAN /\ (~errors' => ~errors)
  BY <1>1, MarkStays, Zenon DEF Types
<1>4. Types'
  BY <1>1, <1>2, <1>3, Zenon DEF Types, Moves
<1>5. InOrder'
  BY <1>1, <1>2, Zenon DEF InOrder
<1>6. SizesAgree'
  <2>1. /\ pc[t] # "oops" /\ (pc[t] \in Forming <=> pc'[t] \in Forming)
        /\ pc[t] \in Forming => loc'[t].init = loc[t].init /\ loc'[t].data = loc[t].data
    BY Zenon
  <2> QED BY <1>1, <1>2, <1>3, <2>1, AgreeKept, Zenon
<1>7. KeepsBelow
  <2>1. sz["mft"].init \in Nat
    BY <1>1, Typed, Zenon
  <2>2. sz'["mft"].init \in Nat /\ sz["mft"].init <= sz'["mft"].init
    BY <1>2, <2>1
  <2>3. pc'[t] \in Forming => pc[t] \in Forming /\ loc'[t].init = loc[t].init
    BY Zenon
  <2> QED BY <1>1, <2>2, <2>3, BelowKept, Zenon
<1>8. \A u \in Tasks : Placed(u)'
  BY <1>1, <1>2, <1>7, OthersPlaced, Zenon
<1>9. FullIsFull'
  <2>1. pc'[t] # "full"
    BY Zenon
  <2> QED BY <1>1, <1>2, <2>1, FullKept, Zenon
<1> QED
  BY <1>4, <1>5, <1>6, <1>7, <1>8, <1>9, Zenon DEF AllocInv

(* What is known of a record in use.                                       *)
LEMMA InUse ==
  ASSUME Types, Given, NEW x \in live
  PROVE  /\ x.r \in Records /\ x.r \in Nat /\ x.seq \in Nat /\ Below(x.r)
         /\ <<x.r, x.seq>> \in issued
<1>1. x.r \in Records /\ x.seq \in Nat /\ <<x.r, x.seq>> \in issued /\ <<x.r, x.seq>>[1] = x.r
  BY Zenon DEF Types, Given, References
<1>2. x.r \in Nat
  BY <1>1, Sizes DEF Records
<1> QED
  BY <1>1, <1>2, Zenon DEF Given

(* A reference is given back: the task has the record to itself.           *)
LEMMA FreedStep ==
  ASSUME AllocInv, NEW t \in Tasks, NEW ref \in live, Goto(t, "idle", "clearbit"),
         live' = live \ {ref}, Set(t, "bit", ref.r), frees' = frees + 1,
         mem' = [mem EXCEPT ![ref.r] = [use |-> FALSE, seq |-> NextSeq(ref.seq), dirty |-> FALSE]],
         disk' \in [Records -> [use : BOOLEAN, seq : Nat]],
         \A q \in Records : q # ref.r => disk'[q] = disk[q],
         UNCHANGED <<lock, bmp, sizes, dataPos, issued>>, errors' = errors \/ errors' = TRUE
  PROVE  AllocInv'
<1>1. /\ Types /\ Given /\ (\A u \in Tasks : Placed(u)) /\ (\A u \in Tasks : Owned(u))
      /\ UNCHANGED <<lock, bmp, sizes>> /\ UNCHANGED issued /\ UNCHANGED dataPos
  BY Zenon DEF AllocInv
<1>2. ref.r \in Records /\ ref.r \in Nat /\ ref.seq \in Nat /\ Below(ref.r)
  BY <1>1, InUse, Zenon
<1>3. ref.r \in bmp /\ ref.r >= Reserved /\ \A y \in live' : y.r # ref.r
  BY <1>1, Zenon DEF Given
<1>4. NextSeq(ref.seq) \in Nat
  BY <1>2 DEF NextSeq
<1>5. /\ mem' \in [Records -> [use : BOOLEAN, seq : Nat, dirty : BOOLEAN]]
      /\ \A q \in Records : q # ref.r => mem'[q] = mem[q]
  <2>1. mem \in [Records -> [use : BOOLEAN, seq : Nat, dirty : BOOLEAN]]
    BY <1>1, Zenon DEF Types
  <2>2. [use |-> FALSE, seq |-> NextSeq(ref.seq), dirty |-> FALSE]
          \in [use : BOOLEAN, seq : Nat, dirty : BOOLEAN]
    BY <1>4, Zenon
  <2> QED BY <1>2, <2>1, <2>2, Zenon
<1>7. PICK l : l = [loc[t] EXCEPT !["bit"] = ref.r]
  BY Zenon
<1>8. l \in Locals /\ l.bit = ref.r
  BY <1>1, <1>2, <1>7, BitIsSet, Zenon
<1>9. loc' = [loc EXCEPT ![t] = l]
  <2>1. loc \in [Tasks -> Locals]
    BY <1>1, Zenon DEF Types
  <2>2. \A u \in Tasks : [loc EXCEPT ![t]["bit"] = ref.r][u] = [loc EXCEPT ![t] = l][u]
    BY <1>7, <2>1, Zenon
  <2> QED BY <2>1, <2>2, Zenon DEF Set
<1>10. Locks(t) /\ "clearbit" \in Places
  BY <1>1, Zenon DEF Locks, Places
<1>11. Moves(t) /\ pc[t] = "idle" /\ pc'[t] = "clearbit" /\ loc'[t].bit = ref.r
  BY <1>1, <1>8, <1>9, <1>10, SetsLocal, Zenon
<1>12. pc[t] \notin Forming \cup {"oops"} /\ pc'[t] \notin Forming \cup {"oops", "full"}
       /\ pc'[t] \notin UnderLock
  BY <1>11, Zenon DEF Forming, UnderLock
<1>13. Below(ref.r)'
  <2>1. sz' = sz
    BY <1>1, Zenon DEF sizes
  <2>2. \A u \in Tasks : pc'[u] \in Forming => pc[u] \in Forming /\ loc'[u] = loc[u]
    BY <1>11, <1>12, Zenon DEF Moves
  <2>3. PICK r : r = ref.r
    BY Zenon
  <2>4. Below(r)'
    BY <1>2, <2>1, <2>2, <2>3, Zenon DEF Below
  <2> QED BY <2>3, <2>4, Zenon
<1>14. Placed(t)'
  <2>1. Below(loc[t].bit)'
    BY <1>11, <1>13, Zenon DEF Below
  <2> QED BY <1>11, <1>12, <2>1, Zenon DEF Placed
<1>15. ASSUME NEW u \in Tasks PROVE Owned(u)'
  <2> SUFFICES ASSUME pc'[u] \in Owning
               PROVE  /\ loc'[u].bit \in bmp' /\ loc'[u].bit >= Reserved
                      /\ \A x \in live' : x.r # loc'[u].bit
                      /\ \A v \in Tasks \ {u} : pc'[v] \in Owning => loc'[v].bit # loc'[u].bit
    BY Zenon DEF Owned
  <2>1. \A v \in Tasks \ {t} : pc'[v] \in Owning =>
          pc[v] \in Owning /\ loc'[v].bit = loc[v].bit /\ loc[v].bit # ref.r
    BY <1>1, <1>11, ZenonT(30) DEF Moves, Owned
  <2>2. CASE u = t
    BY <1>1, <1>3, <1>11, <2>1, <2>2, Zenon
  <2>3. CASE u # t
    <3>1. /\ pc[u] \in Owning /\ loc'[u].bit = loc[u].bit /\ loc[u].bit # ref.r
      BY <2>1, <2>3, Zenon
    <3>2. /\ loc[u].bit \in bmp /\ loc[u].bit >= Reserved
          /\ \A x \in live : x.r # loc[u].bit
          /\ \A v \in Tasks \ {u} : pc[v] \in Owning => loc[v].bit # loc[u].bit
      BY <1>1, <3>1, Zenon DEF Owned
    <3>3. ASSUME NEW v \in Tasks \ {u}, pc'[v] \in Owning PROVE loc'[v].bit # loc'[u].bit
      BY <1>11, <2>1, <3>1, <3>2, <3>3, Zenon
    <3> QED BY <1>1, <3>1, <3>2, <3>3, Zenon
  <2> QED BY <2>2, <2>3, Zenon
<1>16. ASSUME KeepsBelow PROVE Given'
  <2>1. \A i \in issued' : Below(i[1])'
    <3>1. \A i \in issued : i[1] \in Nat
      BY <1>1, Sizes DEF Types, Records
    <3> QED BY <1>1, <1>16, <3>1, Zenon DEF Given, KeepsBelow
  <2>2. \A x \in live' : x.r \in Records /\ x.r # ref.r /\ x \in live
    BY <1>1, <1>3, InUse, Zenon
  <2>3. \A x \in live' : mem'[x.r] = mem[x.r] /\ disk'[x.r] = disk[x.r]
    BY <1>5, <2>2, Zenon
  <2>4. ASSUME NEW x \in live'
        PROVE  /\ <<x.r, x.seq>> \in issued'
               /\ x.r \in bmp' /\ x.r >= Reserved
               /\ mem'[x.r].use /\ mem'[x.r].seq = x.seq
               /\ ~mem'[x.r].dirty => disk'[x.r].use /\ disk'[x.r].seq = x.seq
               /\ \A y \in live' : y.r = x.r => y = x
    BY <1>1, <2>2, <2>3, ZenonT(30) DEF Given
  <2> QED BY <2>1, <2>4, Zenon DEF Given
<1>17. dataPos' \in Nat /\ live' \subseteq References /\ issued' \subseteq Records \X Nat
  BY <1>1, Zenon DEF Types
<1>18. frees' \in Nat
  BY <1>1 DEF Types
<1> QED
  BY <1>1, <1>5, <1>11, <1>12, <1>14, <1>15, <1>16, <1>17, <1>18, RecordStep, Zenon

(* An extent record is freed.                                              *)
LEMMA FreeKeeps ==
  ASSUME AllocInv, NEW t \in Tasks, NEW ref \in live, Free(t, ref)
  PROVE  AllocInv'
<1>1. PICK m : m = [use |-> FALSE, seq |-> NextSeq(ref.seq)]
  BY Zenon
<1>2. m.use = FALSE /\ m.seq = NextSeq(ref.seq)
  BY <1>1, Zenon
<1>3. /\ Goto(t, "idle", "clearbit")
      /\ live' = live \ {ref} /\ Set(t, "bit", ref.r) /\ frees' = frees + 1
      /\ mem' = [mem EXCEPT ![ref.r] = [use |-> m.use, seq |-> m.seq, dirty |-> FALSE]]
      /\ disk' = disk \/ disk' = [disk EXCEPT ![ref.r] = m]
      /\ UNCHANGED <<lock, bmp, sizes, dataPos, issued>>
      /\ errors' = errors \/ errors' = TRUE
  BY <1>1, Zenon DEF Free
<1>4. mem' = [mem EXCEPT ![ref.r] = [use |-> FALSE, seq |-> NextSeq(ref.seq), dirty |-> FALSE]]
  BY <1>2, <1>3, Zenon
<1>5. /\ ref.r \in Records /\ ref.seq \in Nat
      /\ disk \in [Records -> [use : BOOLEAN, seq : Nat]]
  BY InUse, Zenon DEF AllocInv, Types
<1>6. m \in [use : BOOLEAN, seq : Nat]
  <2>1. NextSeq(ref.seq) \in Nat
    BY <1>5 DEF NextSeq
  <2> QED BY <1>1, <2>1, Zenon
<1>7. disk' \in [Records -> [use : BOOLEAN, seq : Nat]]
      /\ \A q \in Records : q # ref.r => disk'[q] = disk[q]
  <2>1. CASE disk' = disk
    BY <1>5, <2>1, Zenon
  <2>2. CASE disk' = [disk EXCEPT ![ref.r] = m]
    BY <1>5, <1>6, <2>2, Zenon
  <2> QED BY <1>3, <2>1, <2>2, Zenon
<1> QED
  BY <1>3, <1>4, <1>7, FreedStep, Zenon

(* Writing an extent record that is freed fails.                           *)
LEMMA FreeFailsKeeps ==
  ASSUME AllocInv, NEW t \in Tasks, NEW ref \in live, FreeFails(t, ref)
  PROVE  AllocInv'
<1>1. frees' = frees + 1 /\ UNCHANGED <<lock, bmp, sizes, disk, dataPos, issued>>
  BY Zenon DEF FreeFails
<1>2. CASE pc[t] = "idle" /\ UNCHANGED <<mem, live, pc, loc, errors>>
  <2>1. /\ Types /\ InOrder /\ Given /\ SizesAgree /\ FullIsFull
        /\ \A u \in Tasks : Placed(u) /\ Owned(u)
    BY Zenon DEF AllocInv
  <2>2. UNCHANGED <<lock, bmp, sz, at, used, mem, disk, dataPos, live, issued, errors, pc, loc>>
    BY <1>1, <1>2, Zenon DEF sizes
  <2>3. frees' \in Nat
    BY <1>1, <2>1 DEF Types
  <2>4. Types'
    BY <2>1, <2>2, <2>3, Zenon DEF Types
  <2>5. InOrder' /\ SizesAgree' /\ FullIsFull'
    BY <2>1, <2>2, Zenon DEF InOrder, SizesAgree, Agree, FullIsFull, PassEnd
  <2>6. Given'
    BY <2>1, <2>2, Zenon DEF Given, Below
  <2>7. \A u \in Tasks : Placed(u)' /\ Owned(u)'
    <3>1. \A u \in Tasks : Placed(u)'
      BY <2>1, <2>2, ZenonT(30) DEF Placed, Below
    <3>2. \A u \in Tasks : Owned(u)'
      BY <2>1, <2>2, Zenon DEF Owned
    <3> QED BY <3>1, <3>2, Zenon
  <2> QED BY <2>4, <2>5, <2>6, <2>7, Zenon DEF AllocInv
<1>3. CASE /\ Goto(t, "idle", "clearbit")
           /\ live' = live \ {ref}
           /\ Set(t, "bit", ref.r)
           /\ mem' = [mem EXCEPT ![ref.r] =
                [use |-> FALSE, seq |-> NextSeq(ref.seq), dirty |-> FALSE]]
           /\ errors' = TRUE
  <2>1. /\ disk' \in [Records -> [use : BOOLEAN, seq : Nat]]
        /\ \A q \in Records : q # ref.r => disk'[q] = disk[q]
        /\ UNCHANGED <<lock, bmp, sizes, dataPos, issued>>
    BY <1>1, Zenon DEF AllocInv, Types
  <2> QED BY <1>1, <1>3, <2>1, FreedStep, Zenon
<1> QED
  BY <1>2, <1>3, Zenon DEF FreeFails

(* A record is written back, or leaves the page cache and is read again.   *)
LEMMA CacheKeeps ==
  ASSUME AllocInv, NEW r \in Records, WriteBack(r) \/ Reclaim(r)
  PROVE  AllocInv'
<1>1. /\ Types /\ InOrder /\ Given /\ SizesAgree /\ FullIsFull
      /\ \A u \in Tasks : Placed(u) /\ Owned(u)
  BY Zenon DEF AllocInv
<1>2. UNCHANGED <<lock, bmp, sz, at, used, dataPos, live, issued, frees, errors, pc, loc>>
  BY Zenon DEF sizes, refs, WriteBack, Reclaim
<1>3. /\ mem \in [Records -> [use : BOOLEAN, seq : Nat, dirty : BOOLEAN]]
      /\ disk \in [Records -> [use : BOOLEAN, seq : Nat]]
  BY <1>1, Zenon DEF Types
<1>4. /\ mem' \in [Records -> [use : BOOLEAN, seq : Nat, dirty : BOOLEAN]]
      /\ disk' \in [Records -> [use : BOOLEAN, seq : Nat]]
      /\ \A q \in Records \ {r} : mem'[q] = mem[q] /\ disk'[q] = disk[q]
  <2>1. CASE WriteBack(r)
    <3>1. [use |-> mem[r].use, seq |-> mem[r].seq] \in [use : BOOLEAN, seq : Nat]
      BY <1>3, Zenon
    <3> QED BY <1>3, <2>1, <3>1, Zenon DEF WriteBack
  <2>2. CASE Reclaim(r)
    <3>1. [use |-> disk[r].use, seq |-> disk[r].seq, dirty |-> FALSE]
            \in [use : BOOLEAN, seq : Nat, dirty : BOOLEAN]
      BY <1>3, Zenon
    <3> QED BY <1>3, <2>2, <3>1, Zenon DEF Reclaim
  <2> QED BY <2>1, <2>2, Zenon
<1>5. Types'
  BY <1>1, <1>2, <1>4, Zenon DEF Types
<1>6. InOrder' /\ SizesAgree' /\ FullIsFull'
  BY <1>1, <1>2, Zenon DEF InOrder, SizesAgree, Agree, FullIsFull, PassEnd
<1>7. \A u \in Tasks : Placed(u)' /\ Owned(u)'
  <2>1. \A u \in Tasks : Placed(u)'
    BY <1>1, <1>2, ZenonT(30) DEF Placed, Below
  <2>2. \A u \in Tasks : Owned(u)'
    BY <1>1, <1>2, Zenon DEF Owned
  <2> QED BY <2>1, <2>2, Zenon
<1>8. \A x \in live : /\ mem'[x.r].use /\ mem'[x.r].seq = x.seq
                      /\ ~mem'[x.r].dirty => disk'[x.r].use /\ disk'[x.r].seq = x.seq
  <2> SUFFICES ASSUME NEW x \in live
               PROVE  /\ mem'[x.r].use /\ mem'[x.r].seq = x.seq
                      /\ ~mem'[x.r].dirty => disk'[x.r].use /\ disk'[x.r].seq = x.seq
    BY Zenon
  <2>1. /\ x.r \in Records /\ mem[x.r].use /\ mem[x.r].seq = x.seq
        /\ ~mem[x.r].dirty => disk[x.r].use /\ disk[x.r].seq = x.seq
    BY <1>1, InUse, Zenon DEF Given
  <2>2. CASE x.r # r
    BY <1>4, <2>1, <2>2, Zenon
  <2>3. CASE x.r = r /\ WriteBack(r)
    <3>1. /\ mem'[r].use = mem[r].use /\ mem'[r].seq = mem[r].seq
          /\ disk'[r].use = mem[r].use /\ disk'[r].seq = mem[r].seq
      BY <1>3, <2>3, Zenon DEF WriteBack
    <3> QED BY <2>1, <2>3, <3>1, Zenon
  <2>4. CASE x.r = r /\ Reclaim(r)
    <3>1. /\ mem'[r].use = disk[r].use /\ mem'[r].seq = disk[r].seq
          /\ disk' = disk /\ ~mem[r].dirty
      BY <1>3, <2>4, Zenon DEF Reclaim
    <3> QED BY <2>1, <2>4, <3>1, Zenon
  <2> QED BY <2>2, <2>3, <2>4, Zenon
<1>9. Given'
  BY <1>1, <1>2, <1>8, Zenon DEF Given, Below
<1> QED
  BY <1>5, <1>6, <1>7, <1>9, Zenon DEF AllocInv

(* The record is prepared and given out, or its bit is to be cleared.      *)
LEMMA PrepareKeeps ==
  ASSUME AllocInv, NEW t \in Tasks, Prepare(t)
  PROVE  AllocInv'
<1> DEFINE r == loc[t].bit
           seq == IF loc[t].formatted \/ mem[r].seq = 0 THEN 1 ELSE mem[r].seq
           e == loc[t].ext
           x0 == [r |-> r, seq |-> seq, ext |-> e]
<1>1. /\ Types /\ Given /\ (\A u \in Tasks : Placed(u)) /\ (\A u \in Tasks : Owned(u))
      /\ Placed(t) /\ Owned(t)
      /\ UNCHANGED <<lock, bmp, sizes, disk, frees>> /\ UNCHANGED <<lock, bmp, sizes>>
      /\ errors' = errors \/ errors' = TRUE
  BY Zenon DEF AllocInv, Prepare
<1>2. pc[t] = "prepare"
  BY Zenon DEF Prepare, Done, Goto
<1>3. Below(r) /\ r \in Records /\ r \in Nat
  BY <1>1, <1>2, Typed, Zenon DEF Placed
<1>4. /\ r \in bmp /\ r >= Reserved /\ (\A x \in live : x.r # r)
      /\ \A u \in Tasks \ {t} : pc[u] \in Owning => loc[u].bit # r
  BY <1>1, <1>2, Zenon DEF Owned, Owning
<1>5. /\ mem \in [Records -> [use : BOOLEAN, seq : Nat, dirty : BOOLEAN]]
      /\ disk' \in [Records -> [use : BOOLEAN, seq : Nat]] /\ frees' \in Nat
      /\ dataPos \in Nat /\ live \subseteq References /\ issued \subseteq Records \X Nat
      /\ e \in BOOLEAN /\ disk' = disk
  BY <1>1, Zenon DEF Types, Locals
<1>6. seq \in Nat
  <2>1. mem[r].seq \in Nat
    BY <1>3, <1>5, Zenon
  <2> QED BY <2>1
<1>7. /\ \A q \in Records : q # r => mem'[q] = mem[q]
      /\ mem' \in [Records -> [use : BOOLEAN, seq : Nat, dirty : BOOLEAN]]
  <2>1. \A use \in BOOLEAN : [use |-> use, seq |-> seq, dirty |-> TRUE]
                               \in [use : BOOLEAN, seq : Nat, dirty : BOOLEAN]
    BY <1>6, Zenon
  <2>2. mem' = mem \/ \E use \in BOOLEAN :
          mem' = [mem EXCEPT ![r] = [use |-> use, seq |-> seq, dirty |-> TRUE]]
    BY Zenon DEF Prepare
  <2>3. CASE mem' = mem
    BY <1>5, <2>3, Zenon
  <2>4. CASE \E use \in BOOLEAN :
               mem' = [mem EXCEPT ![r] = [use |-> use, seq |-> seq, dirty |-> TRUE]]
    <3>1. PICK use \in BOOLEAN :
            mem' = [mem EXCEPT ![r] = [use |-> use, seq |-> seq, dirty |-> TRUE]]
      BY <2>4, Zenon
    <3> QED BY <1>3, <1>5, <2>1, <3>1, Zenon
  <2> QED BY <2>2, <2>3, <2>4, Zenon
<1>8. \A x \in live : x.r \in Records /\ mem'[x.r] = mem[x.r]
  BY <1>1, <1>4, <1>7, InUse, Zenon
<1>9. CASE /\ Done(t, "prepare")
           /\ mem' = [mem EXCEPT ![r] = [use |-> TRUE, seq |-> seq, dirty |-> TRUE]]
           /\ Open(r, seq, e)
  <2>1. Locks(t) /\ Done(t, "prepare")
    BY <1>1, <1>9, Zenon DEF Locks
  <2>2. Moves(t) /\ pc'[t] = "idle" /\ Placed(t)'
    BY <1>1, <2>1, Ends, Zenon
  <2>3. /\ pc[t] \notin Forming \cup {"oops"} /\ pc'[t] \notin Forming \cup {"oops", "full"}
        /\ pc'[t] \notin Owning
    BY <1>2, <2>2, Zenon DEF Forming, Owning
  <2>4. /\ live' = live \cup {x0} /\ issued' = issued \cup {<<r, seq>>}
        /\ dataPos' = IF e THEN dataPos ELSE r + 1
    BY <1>9, Zenon DEF Open
  <2>5. x0 \in References /\ x0.r = r /\ x0.seq = seq
    BY <1>3, <1>5, <1>6, Zenon DEF References
  <2>7. dataPos' \in Nat
    BY <1>3, <1>5, <2>4
  <2> HIDE DEF x0, seq
  <2>8. mem'[r].use = TRUE /\ mem'[r].seq = seq /\ mem'[r].dirty = TRUE
    BY <1>3, <1>5, <1>9, Zenon
  <2>6. live' \subseteq References /\ issued' \subseteq Records \X Nat
    <3>1. <<r, seq>> \in Records \X Nat
      BY <1>3, <1>6, Zenon
    <3> QED BY <1>5, <2>4, <2>5, <3>1, Zenon
  <2>9. ASSUME NEW u \in Tasks PROVE Owned(u)'
    <3> SUFFICES ASSUME pc'[u] \in Owning
                 PROVE  /\ loc'[u].bit \in bmp' /\ loc'[u].bit >= Reserved
                        /\ \A x \in live' : x.r # loc'[u].bit
                        /\ \A v \in Tasks \ {u} : pc'[v] \in Owning => loc'[v].bit # loc'[u].bit
      BY Zenon DEF Owned
    <3>1. u # t /\ pc[u] \in Owning /\ loc'[u] = loc[u]
      BY <2>2, <2>3, Zenon DEF Moves
    <3>2. /\ loc[u].bit \in bmp /\ loc[u].bit >= Reserved
          /\ \A x \in live : x.r # loc[u].bit
          /\ \A v \in Tasks \ {u} : pc[v] \in Owning => loc[v].bit # loc[u].bit
      BY <1>1, <3>1, Zenon DEF Owned
    <3>3. \A v \in Tasks \ {u} : pc'[v] \in Owning => pc[v] \in Owning /\ loc'[v] = loc[v]
      BY <2>2, <2>3, Zenon DEF Moves
    <3>4. \A x \in live' : x.r # loc[u].bit
      BY <1>4, <2>4, <2>5, <3>1, <3>2, Zenon
    <3> QED BY <1>1, <3>1, <3>2, <3>3, <3>4, Zenon
  <2>10. ASSUME KeepsBelow PROVE Given'
    <3>1. \A i \in issued : i[1] \in Nat
      BY <1>5, Sizes DEF Records
    <3>2. \A i \in issued : Below(i[1])'
      BY <1>1, <2>10, <3>1, Zenon DEF Given, KeepsBelow
    <3>3. PICK q : q = r
      BY Zenon
    <3>4. Below(q)'
      BY <1>3, <2>10, <3>3, Zenon DEF KeepsBelow
    <3>5. <<q, seq>>[1] = q
      BY Zenon
    <3>6. \A i \in issued' : Below(i[1])'
      BY <2>4, <3>2, <3>3, <3>4, <3>5, Zenon
    <3>7. ASSUME NEW x \in live'
          PROVE  /\ <<x.r, x.seq>> \in issued'
                 /\ x.r \in bmp' /\ x.r >= Reserved
                 /\ mem'[x.r].use /\ mem'[x.r].seq = x.seq
                 /\ ~mem'[x.r].dirty => disk'[x.r].use /\ disk'[x.r].seq = x.seq
                 /\ \A y \in live' : y.r = x.r => y = x
      <4>1. CASE x = x0
        BY <1>1, <1>4, <2>4, <2>5, <2>8, <4>1, Zenon
      <4>2. CASE x \in live
        <5>1. \A y \in live' : y.r = x.r => y \in live
          BY <1>4, <2>4, <2>5, <4>2, Zenon
        <5> QED BY <1>1, <1>5, <1>8, <2>4, <4>2, <5>1, Zenon DEF Given
      <4> QED BY <2>4, <3>7, <4>1, <4>2, Zenon
    <3> QED BY <3>6, <3>7, Zenon DEF Given
  <2> QED BY <1>1, <1>5, <1>7, <2>2, <2>3, <2>6, <2>7, <2>9, <2>10, RecordStep, Zenon
<1>10. CASE Goto(t, "prepare", "clearbit") /\ UNCHANGED <<live, issued, dataPos, loc>>
  <2>1. Locks(t) /\ "clearbit" \in Places /\ UNCHANGED loc
    BY <1>1, <1>10, Zenon DEF Locks, Places
  <2>2. Moves(t) /\ pc'[t] = "clearbit"
    BY <1>1, <1>10, <2>1, StaysLocal, Zenon
  <2>3. /\ pc[t] \notin Forming \cup {"oops"} /\ pc'[t] \notin Forming \cup {"oops", "full"}
        /\ pc'[t] \notin UnderLock /\ pc[t] \in Owning
    BY <1>2, <2>2, Zenon DEF Forming, Owning, UnderLock
  <2>4. Placed(t)'
    <3>1. sz' = sz
      BY <1>1, Zenon DEF sizes
    <3>2. \A u \in Tasks : pc'[u] \in Forming => pc[u] \in Forming /\ loc'[u] = loc[u]
      BY <2>2, <2>3, Zenon DEF Moves
    <3>3. Below(loc[t].bit)'
      BY <1>3, <2>1, <3>1, <3>2, Zenon DEF Below
    <3> QED BY <2>2, <2>3, <3>3, Zenon DEF Placed
  <2>5. UNCHANGED <<bmp, live>> /\ UNCHANGED <<disk, live, issued>> /\ bmp \subseteq bmp'
    BY <1>1, <1>5, <1>10, Zenon
  <2>6. \A u \in Tasks : Owned(u)'
    BY <1>1, <2>1, <2>2, <2>3, <2>5, OwnedKept, Zenon
  <2>7. KeepsBelow => Given'
    BY <1>1, <1>8, <2>5, GivenKept, Zenon
  <2>8. dataPos' \in Nat /\ live' \subseteq References /\ issued' \subseteq Records \X Nat
    BY <1>5, <1>10, Zenon
  <2> QED BY <1>1, <1>5, <1>7, <2>2, <2>3, <2>4, <2>6, <2>7, <2>8, RecordStep, ZenonT(30)
<1> QED
  BY <1>9, <1>10, Zenon DEF Prepare

(* The sizes at first: the bitmap is whole bytes, and the records fit.     *)
LEMMA StartSizes ==
  ASSUME NEW init \in Nat, NEW data \in Nat, Reserved <= init, init <= data, data <= Limit,
         NEW bits, bits = BmpStep * RoundUp(init, BmpStep),
         NEW bc, bc = RoundUp(bits, BmpCluster), NEW mc, mc = RoundUp(data, MftCluster)
  PROVE  /\ bits \in Nat /\ bc \in Nat /\ mc \in Nat
         /\ init <= bits /\ (\E n \in Nat : bits = ByteBits * n)
         /\ BmpCluster * bc \in Nat /\ bits <= BmpCluster * bc
         /\ MftCluster * mc \in Nat /\ data <= MftCluster * mc /\ MftCluster * mc <= Limit
         /\ BmpCluster * bc = bc * BmpCluster /\ MftCluster * mc = mc * MftCluster
<1>1. PICK k \in Nat : k = RoundUp(init, BmpStep)
  BY RoundedUp, Sizes, Zenon
<1>2. init <= BmpStep * k /\ bits = BmpStep * k
  BY <1>1, RoundedUp, Sizes, Zenon
<1>3. bits \in Nat /\ init <= bits
  BY <1>2, Sizes
<1>4. \E n \in Nat : bits = ByteBits * n
  <2>1. PICK j \in Nat : BmpStep = ByteBits * j
    BY MftAllocAssumption, Sizes, Multiple, Zenon
  <2>2. ByteBits \in Nat
    BY Sizes
  <2>3. (ByteBits * j) * k = ByteBits * (j * k) /\ j * k \in Nat
    BY <2>2
  <2> QED BY <1>2, <2>1, <2>3, Zenon
<1>5. bc \in Nat /\ bits <= BmpCluster * bc
  BY <1>3, RoundedUp, Sizes, Zenon
<1>6. mc \in Nat /\ data <= MftCluster * mc /\ MftCluster * mc < data + MftCluster
  BY RoundedUp, Sizes, Zenon
<1>7. BmpCluster * bc \in Nat /\ BmpCluster * bc = bc * BmpCluster
  BY <1>5, Sizes
<1>8. MftCluster * mc \in Nat /\ MftCluster * mc = mc * MftCluster
  BY <1>6, Sizes
<1>9. MftCluster * mc <= Limit
  <2>1. PICK m \in Nat : Limit = MftCluster * m
    BY MftAllocAssumption, Sizes, Multiple, Zenon
  <2>2. MftCluster * (m + 1) = Limit + MftCluster /\ m + 1 \in Int /\ mc \in Int
    BY <1>6, <2>1, Sizes
  <2>3. MftCluster * mc < MftCluster * (m + 1)
    BY <1>6, <1>8, <2>2, Sizes
  <2>4. mc < m + 1
    BY <2>2, <2>3, Sizes, TimesMonotone, Zenon
  <2>5. mc <= m
    BY <1>6, <2>4
  <2> QED BY <1>6, <2>1, <2>5, Sizes, TimesMonotone
<1> QED
  BY <1>3, <1>4, <1>5, <1>6, <1>7, <1>8, <1>9, Zenon

(* It holds at first.                                                      *)
LEMMA AllocInit == Init => AllocInv
<1> SUFFICES ASSUME Init PROVE AllocInv
  OBVIOUS
<1>1. PICK s \in Starts : Start(s[1], s[2])
  BY Zenon DEF Init
<1>2. PICK init, data : init = s[1] /\ data = s[2]
  BY Zenon
<1>3. init \in Nat /\ data \in Nat /\ Reserved <= init /\ init <= data /\ data <= Limit
  BY <1>2, MftAllocAssumption
<1>4. PICK bits : bits = BmpStep * RoundUp(init, BmpStep)
  BY Zenon
<1>5. PICK bc, mc : bc = RoundUp(bits, BmpCluster) /\ mc = RoundUp(data, MftCluster)
  BY Zenon
<1>6. /\ bits \in Nat /\ bc \in Nat /\ mc \in Nat
      /\ init <= bits /\ (\E n \in Nat : bits = ByteBits * n)
      /\ BmpCluster * bc \in Nat /\ bits <= BmpCluster * bc
      /\ MftCluster * mc \in Nat /\ data <= MftCluster * mc /\ MftCluster * mc <= Limit
      /\ BmpCluster * bc = bc * BmpCluster /\ MftCluster * mc = mc * MftCluster
  BY <1>3, <1>4, <1>5, StartSizes
<1>7. /\ lock = NoTask /\ bmp = 0 .. init - 1
      /\ sz = [bmp |-> [init |-> bits, data |-> bits, alloc |-> BmpCluster * bc, rl |-> bc],
               mft |-> [init |-> init, data |-> data, alloc |-> MftCluster * mc, rl |-> mc]]
      /\ at = [x \in {"bmp", "mft"} |-> [init |-> sz[x].init, data |-> sz[x].data,
                                         alloc |-> sz[x].alloc, map |-> sz[x].rl]]
      /\ used = bc + mc
      /\ mem = [r \in Records |-> [use |-> r < init, seq |-> 1, dirty |-> FALSE]]
      /\ disk = [r \in Records |-> [use |-> r < init, seq |-> 1]]
      /\ dataPos = Reserved
      /\ live = {[r |-> r, seq |-> 1, ext |-> r = Reserved] : r \in Reserved .. init - 1}
      /\ issued = {<<x.r, x.seq>> : x \in live}
      /\ frees = 0 /\ errors = FALSE
      /\ pc = [t \in Tasks |-> "idle"]
      /\ loc = [t \in Tasks |-> NoLoc]
  BY <1>1, <1>2, <1>4, <1>5, Zenon DEF Start
<1>8. /\ sz["bmp"].init = bits /\ sz["bmp"].data = bits /\ sz["bmp"].alloc = BmpCluster * bc
      /\ sz["bmp"].rl = bc
      /\ sz["mft"].init = init /\ sz["mft"].data = data /\ sz["mft"].alloc = MftCluster * mc
      /\ sz["mft"].rl = mc
  BY <1>7, Zenon
<1>9. \A x \in Attributes : /\ at[x].init = sz[x].init /\ at[x].data = sz[x].data
                            /\ at[x].alloc = sz[x].alloc /\ at[x].map = sz[x].rl
  BY <1>7, Zenon DEF Attributes
<1>10. \A t \in Tasks : pc[t] = "idle" /\ ~loc[t].formatted
  BY <1>7, NoLocIsLocal, Zenon
<1>11. \A x \in live : /\ x \in References /\ x.r \in Records /\ x.seq = 1
                       /\ x.r >= Reserved /\ x.r \in 0 .. init - 1 /\ x.r < init
  <2> SUFFICES ASSUME NEW x \in live
               PROVE  /\ x \in References /\ x.r \in Records /\ x.seq = 1
                      /\ x.r >= Reserved /\ x.r \in 0 .. init - 1 /\ x.r < init
    BY Zenon
  <2>1. PICK r \in Reserved .. init - 1 : x = [r |-> r, seq |-> 1, ext |-> r = Reserved]
    BY <1>7, Zenon
  <2>2. r \in Records /\ r >= Reserved /\ r \in 0 .. init - 1 /\ r < init /\ 1 \in Nat
    BY <1>3, Sizes DEF Records
  <2>3. (r = Reserved) \in BOOLEAN /\ x.r = r /\ x.seq = 1
    BY <2>1, Zenon
  <2> QED BY <2>1, <2>2, <2>3, Zenon DEF References
<1>12. Types
  <2>1. sz \in [Attributes -> [init : Nat, data : Nat, alloc : Nat, rl : Nat]]
    BY <1>3, <1>6, <1>7 DEF Attributes
  <2>2. at \in [Attributes -> [init : Nat, data : Nat, alloc : Nat, map : Nat]]
    BY <1>7, <2>1, ZenonT(30) DEF Attributes
  <2>3. /\ mem \in [Records -> [use : BOOLEAN, seq : Nat, dirty : BOOLEAN]]
        /\ disk \in [Records -> [use : BOOLEAN, seq : Nat]]
    <3>1. 1 \in Nat
      OBVIOUS
    <3>2. \A r \in Records : (r < init) \in BOOLEAN
      BY <1>3, Sizes DEF Records
    <3> QED BY <1>7, <3>1, <3>2, Zenon
  <2>4. used \in Nat /\ dataPos \in Nat /\ frees \in Nat
    BY <1>6, <1>7, Sizes
  <2>5. live \subseteq References /\ issued \subseteq Records \X Nat
    <3>1. \A x \in live : <<x.r, x.seq>> \in Records \X Nat
      BY <1>11, Zenon DEF References
    <3> QED BY <1>7, <1>11, <3>1, ZenonT(30)
  <2>6. pc \in [Tasks -> Places] /\ loc \in [Tasks -> Locals]
    BY <1>7, NoLocIsLocal, Zenon DEF Places
  <2> QED BY <1>7, <2>1, <2>2, <2>3, <2>4, <2>5, <2>6, ZenonT(30) DEF Types
<1>13. InOrder
  <2>1. \A x \in Attributes : sz[x].init <= sz[x].data /\ sz[x].data <= sz[x].alloc
    BY <1>3, <1>6, <1>8 DEF Attributes
  <2> QED BY <1>3, <1>6, <1>8, <2>1, Zenon DEF InOrder
<1>14. \A t \in Tasks : Placed(t) /\ Owned(t)
  <2>1. "idle" \notin UnderLock \cup Forming \cup Owning
    BY Zenon DEF UnderLock, Forming, Owning
  <2> QED BY <1>10, <2>1, Zenon DEF Placed, Owned
<1>15. Given
  <2>1. \A i \in issued : Below(i[1])
    <3>1. \A t \in Tasks : pc[t] \notin Forming
      BY <1>10, Zenon DEF Forming
    <3>2. \A x \in live : <<x.r, x.seq>>[1] < sz["mft"].init
      BY <1>8, <1>11, Zenon
    <3> QED BY <1>7, <3>1, <3>2, Zenon DEF Below
  <2>2. \A x \in live : mem[x.r].use /\ mem[x.r].seq = x.seq /\ disk[x.r].use
        /\ disk[x.r].seq = x.seq
    BY <1>7, <1>11, Zenon
  <2>3. ASSUME NEW x \in live, NEW y \in live, y.r = x.r PROVE y = x
    <3>1. PICK r \in Reserved .. init - 1 : x = [r |-> r, seq |-> 1, ext |-> r = Reserved]
      BY <1>7, Zenon
    <3>2. PICK q \in Reserved .. init - 1 : y = [r |-> q, seq |-> 1, ext |-> q = Reserved]
      BY <1>7, Zenon
    <3>3. q = r
      BY <2>3, <3>1, <3>2, Zenon
    <3> QED BY <3>1, <3>2, <3>3, Zenon
  <2> QED BY <1>7, <1>11, <2>1, <2>2, <2>3, Zenon DEF Given
<1>16. SizesAgree
  <2>1. Agree("bmp")
    BY <1>6, <1>8, <1>9, Zenon DEF Agree, Attributes, Unit
  <2>2. \A t \in Tasks : pc[t] \notin Forming
    BY <1>10, Zenon DEF Forming
  <2> QED BY <1>6, <1>7, <1>8, <1>9, <2>1, <2>2, ZenonT(30) DEF SizesAgree, Attributes
<1>17. FullIsFull
  BY <1>10, Zenon DEF FullIsFull
<1> QED
  BY <1>12, <1>13, <1>14, <1>15, <1>16, <1>17, Zenon DEF AllocInv

-----------------------------------------------------------------------------
(* References *)

(* What was given out of record r is older than what its next user gets.   *)
(* No task has just formed a record that was given out.                    *)
Seqs == \A r \in Records : mem[r].seq \in 1 .. frees + 1 /\ disk[r].seq \in 1 .. frees + 1
OlderThan(i) ==
  /\ ~mem[i[1]].use => i[2] < mem[i[1]].seq
  /\ ~mem[i[1]].dirty /\ ~disk[i[1]].use => i[2] < disk[i[1]].seq
  /\ \A x \in live : x.r = i[1] => i[2] <= x.seq
  /\ \A t \in Tasks : pc[t] = "prepare" /\ loc[t].formatted => loc[t].bit # i[1]
Older == Seqs /\ (~errors => \A i \in issued : OlderThan(i))

(* Nobody else prepares a record that was formed just now.                 *)
Stays(t) ==
  /\ pc'[t] = "prepare" => ~loc'[t].formatted
  /\ \A u \in Tasks \ {t} : pc'[u] = pc[u] /\ loc'[u] = loc[u]

(* Which is so if records and references are left alone.                   *)
LEMMA OlderKept ==
  ASSUME Types, Older, NEW t \in Tasks, Stays(t), UNCHANGED <<record, refs>>,
         errors' = errors \/ errors' = TRUE
  PROVE  Older'
<1>1. UNCHANGED <<mem, disk, live, issued, frees>>
  BY Zenon DEF record, refs
<1>2. Seqs'
  BY <1>1, Zenon DEF Older, Seqs
<1>3. ASSUME ~errors', NEW i \in issued' PROVE OlderThan(i)'
  <2>1. ~errors
    BY <1>3, MarkStays, Zenon DEF Types
  <2>2. OlderThan(i)
    BY <1>1, <1>3, <2>1, Zenon DEF Older
  <2>3. \A u \in Tasks : pc'[u] = "prepare" /\ loc'[u].formatted => loc'[u].bit # i[1]
    BY <2>2, Zenon DEF OlderThan, Stays
  <2> QED BY <1>1, <2>2, <2>3, Zenon DEF OlderThan
<1> QED
  BY <1>2, <1>3, Zenon DEF Older

(* A task that ends, or goes to a place other than "prepare".              *)
LEMMA EndStays ==
  ASSUME Types, NEW t \in Tasks, NEW from, Done(t, from)
  PROVE  Stays(t)
<1>1. pc \in [Tasks -> Places] /\ loc \in [Tasks -> Locals]
  BY Zenon DEF Types
<1> QED
  BY <1>1, Zenon DEF Stays, Done, Goto

(* A task that goes to another place than "prepare".                       *)
LEMMA GoStays ==
  ASSUME Types, NEW t \in Tasks, NEW from, NEW to, Goto(t, from, to), to # "prepare",
         \A u \in Tasks \ {t} : loc'[u] = loc[u]
  PROVE  Stays(t)
<1>1. pc \in [Tasks -> Places]
  BY Zenon DEF Types
<1> QED
  BY <1>1, Zenon DEF Stays, Goto

(* The steps that leave records and references alone.                      *)
LEMMA OlderAlone ==
  ASSUME AllocInv, Older, NEW t \in Tasks,
         \/ (\E ext \in BOOLEAN : \E base : Search(t, ext, base)) \/ NextBit(t)
         \/ BmpExtendAlloc(t) \/ BmpExtendInit(t) \/ SetBit(t) \/ HaveBit(t)
         \/ MftExtendAlloc(t) \/ UndoInit(t) \/ ClearBit(t)
  PROVE  Older'
<1>1. Types /\ Placed(t) /\ loc \in [Tasks -> Locals]
  BY Zenon DEF AllocInv, Types
<1>2. CASE \E ext \in BOOLEAN : \E base : Search(t, ext, base)
  <2>0. PICK ext \in BOOLEAN : \E base : Search(t, ext, base)
    BY <1>2, Zenon
  <2>1. PICK base : Search(t, ext, base)
    BY <2>0, Zenon
  <2>2. /\ \E to \in {"full", "have"} : Goto(t, "idle", to)
        /\ \A u \in Tasks \ {t} : loc'[u] = loc[u]
    BY <1>1, <2>1, Zenon DEF Search
  <2>3. Stays(t)
    BY <1>1, <2>2, GoStays, Zenon
  <2>4. UNCHANGED <<record, refs>> /\ errors' = errors
    BY <2>1, Zenon DEF Search
  <2> QED BY <1>1, <2>3, <2>4, OlderKept, Zenon
<1>3. CASE NextBit(t)
  <2>1. \/ Done(t, "full")
        \/ /\ \E to \in {"setbit", "bmpalloc", "bmpinit"} : Goto(t, "full", to)
           /\ \A u \in Tasks \ {t} : loc'[u] = loc[u]
    BY <1>1, <1>3, Zenon DEF NextBit, Fail, Set
  <2>2. Stays(t)
    BY <1>1, <2>1, EndStays, GoStays, Zenon
  <2>3. UNCHANGED <<record, refs>> /\ errors' = errors
    BY <1>3, Zenon DEF NextBit
  <2> QED BY <1>1, <2>2, <2>3, OlderKept, Zenon
<1>4. CASE BmpExtendAlloc(t)
  <2>1. \/ Done(t, "bmpalloc")
        \/ Goto(t, "bmpalloc", "bmpinit") /\ \A u \in Tasks \ {t} : loc'[u] = loc[u]
    BY <1>4, Zenon DEF BmpExtendAlloc, Fail
  <2>2. Stays(t)
    BY <1>1, <2>1, EndStays, GoStays, Zenon
  <2>3. UNCHANGED <<record, refs>>
    BY <1>4, Zenon DEF BmpExtendAlloc
  <2>4. errors' = errors \/ errors' = TRUE
    BY <1>1, <1>4, Zenon DEF BmpExtendAlloc, Grown, Undone, NotRestored, Types
  <2> QED BY <1>1, <2>2, <2>3, <2>4, OlderKept, Zenon
<1>5. CASE BmpExtendInit(t)
  <2>1. \/ Done(t, "bmpinit")
        \/ Goto(t, "bmpinit", "setbit") /\ \A u \in Tasks \ {t} : loc'[u] = loc[u]
    BY <1>5, Zenon DEF BmpExtendInit, Fail
  <2>2. Stays(t)
    BY <1>1, <2>1, EndStays, GoStays, Zenon
  <2>3. UNCHANGED <<record, refs>> /\ (errors' = errors \/ errors' = TRUE)
    BY <1>5, Zenon DEF BmpExtendInit
  <2> QED BY <1>1, <2>2, <2>3, OlderKept, Zenon
<1>6. CASE SetBit(t)
  <2>1. \/ Done(t, "setbit")
        \/ Goto(t, "setbit", "have") /\ \A u \in Tasks \ {t} : loc'[u] = loc[u]
    BY <1>6, Zenon DEF SetBit, Fail
  <2>2. Stays(t)
    BY <1>1, <2>1, EndStays, GoStays, Zenon
  <2>3. UNCHANGED <<record, refs>> /\ errors' = errors
    BY <1>6, Zenon DEF SetBit
  <2> QED BY <1>1, <2>2, <2>3, OlderKept, Zenon
<1>7. CASE HaveBit(t)
  <2>1. CASE Goto(t, "have", "prepare") /\ UNCHANGED loc
    <3>1. ~loc[t].formatted
      BY <1>1, <2>1, Zenon DEF Goto, Placed
    <3>2. \A u \in Tasks \ {t} : pc'[u] = pc[u]
      BY <1>1, <2>1, Zenon DEF Goto, Types
    <3> QED BY <1>1, <1>7, <2>1, <3>1, <3>2, OlderKept, Zenon DEF HaveBit, Stays
  <2>2. CASE \E to \in {"format", "extend"} : Goto(t, "have", to)
             /\ \A u \in Tasks \ {t} : loc'[u] = loc[u]
    <3>1. Stays(t)
      BY <1>1, <2>2, GoStays, Zenon
    <3> QED BY <1>1, <1>7, <3>1, OlderKept, Zenon DEF HaveBit
  <2> QED BY <1>1, <1>7, <2>1, <2>2, Zenon DEF HaveBit
<1>8. CASE MftExtendAlloc(t)
  <2>1. \E to \in {"have", "clearbit", "oops"} : Goto(t, "extend", to)
    BY <1>8, Zenon DEF MftExtendAlloc
  <2>2. UNCHANGED <<record, refs>> /\ \A u \in Tasks \ {t} : loc'[u] = loc[u]
    BY <1>8, Zenon DEF MftExtendAlloc
  <2>3. errors' = errors \/ errors' = TRUE
    BY <1>1, <1>8, Zenon DEF MftExtendAlloc, Grown, Undone, NotRestored, Types
  <2>4. Stays(t)
    BY <1>1, <2>1, <2>2, GoStays, Zenon
  <2> QED BY <1>1, <2>2, <2>3, <2>4, OlderKept, Zenon
<1>9. CASE UndoInit(t)
  <2>1. /\ Goto(t, "undoinit", "clearbit") /\ UNCHANGED <<record, refs>> /\ errors' = errors
        /\ \A u \in Tasks \ {t} : loc'[u] = loc[u]
    BY <1>1, <1>9, Zenon DEF UndoInit
  <2>2. Stays(t)
    BY <1>1, <2>1, GoStays, Zenon
  <2> QED BY <1>1, <2>1, <2>2, OlderKept, Zenon
<1>10. CASE ClearBit(t)
  <2>1. Done(t, "clearbit") /\ UNCHANGED <<record, refs>> /\ (errors' = errors \/ errors' = TRUE)
    BY <1>10, Zenon DEF ClearBit
  <2>2. Stays(t)
    BY <1>1, <2>1, EndStays, Zenon
  <2> QED BY <1>1, <2>1, <2>2, OlderKept, Zenon
<1> QED
  BY <1>2, <1>3, <1>4, <1>5, <1>6, <1>7, <1>8, <1>9, <1>10, ZenonT(30)

(* New records were not given out before.                                  *)
LEMMA OlderFormed ==
  ASSUME AllocInv, Older, NEW t \in Tasks, FormatRecord(t) \/ UpdateSizes(t)
  PROVE  Older'
<1>1. /\ Types /\ Given /\ Placed(t) /\ loc \in [Tasks -> Locals] /\ pc \in [Tasks -> Places]
      /\ \A i \in issued : i[1] \in Records /\ i[1] \in Nat
  <2>1. \A i \in issued : i[1] \in Records /\ i[1] \in Nat
    BY Sizes DEF AllocInv, Types, Records
  <2> QED BY <2>1, Zenon DEF AllocInv, Types
<1>2. CASE FormatRecord(t)
  <2> DEFINE r == sz["mft"].init
  <2>1. /\ UNCHANGED <<disk, refs, errors, loc>> /\ UNCHANGED <<live, issued, frees>>
        /\ mem' = mem \/ mem' = [mem EXCEPT ![r] = Layout(r)]
        /\ \E to \in {"format", "undoinit"} : Goto(t, "format", to)
    BY <1>2, Zenon DEF FormatRecord, refs
  <2>2. Stays(t)
    BY <1>1, <2>1, GoStays, Zenon
  <2>3. \A q \in Records : mem'[q] = mem[q] \/ (q = r /\ mem'[q].seq = 1)
    <3>1. mem \in [Records -> [use : BOOLEAN, seq : Nat, dirty : BOOLEAN]]
      BY <1>1, Zenon DEF Types
    <3>2. CASE mem' = mem
      BY <3>2, Zenon
    <3>3. CASE mem' = [mem EXCEPT ![r] = Layout(r)]
      BY <3>1, <3>3, Zenon DEF Layout
    <3> QED BY <2>1, <3>2, <3>3, Zenon
  <2>4. \A i \in issued : i[1] # r
    <3>1. sz["mft"].init \in Nat
      BY <1>1, Typed, Zenon
    <3>2. \A i \in issued : i[1] < sz["mft"].init
      BY <1>1, Zenon DEF Given, Below
    <3> QED BY <1>1, <3>1, <3>2
  <2>5. \A i \in issued : mem'[i[1]] = mem[i[1]]
    BY <1>1, <2>3, <2>4, Zenon
  <2>6. Seqs'
    <3>1. 1 \in 1 .. frees + 1
      BY <1>1 DEF Types
    <3> QED BY <2>1, <2>3, <3>1, Zenon DEF Older, Seqs
  <2>7. ASSUME ~errors', NEW i \in issued' PROVE OlderThan(i)'
    <3>1. ~errors
      BY <2>1, <2>7, MarkStays, Zenon DEF Types
    <3>2. OlderThan(i) /\ mem'[i[1]] = mem[i[1]]
      BY <2>1, <2>5, <2>7, <3>1, Zenon DEF Older
    <3>3. \A u \in Tasks : pc'[u] = "prepare" /\ loc'[u].formatted => loc'[u].bit # i[1]
      BY <2>2, <3>2, Zenon DEF OlderThan, Stays
    <3> QED BY <2>1, <3>2, <3>3, Zenon DEF OlderThan
  <2> QED BY <2>6, <2>7, Zenon DEF Older
<1>3. CASE UpdateSizes(t)
  <2>1. /\ UNCHANGED <<record, refs>> /\ UNCHANGED <<mem, disk, live, issued, frees>>
        /\ errors' = errors
    BY <1>3, Zenon DEF UpdateSizes, record, refs
  <2>2. CASE Goto(t, "format", "undoinit") /\ UNCHANGED <<lock, at, loc>>
    <3>1. Stays(t)
      BY <1>1, <2>2, GoStays, Zenon
    <3> QED BY <1>1, <2>1, <3>1, OlderKept, Zenon
  <2>3. CASE /\ Goto(t, "format", "prepare")
             /\ loc' = [loc EXCEPT ![t].formatted = TRUE, ![t].init = 0, ![t].data = 0]
    <3>1. /\ pc[t] = "format" /\ loc'[t].bit = loc[t].bit
          /\ \A u \in Tasks \ {t} : pc'[u] = pc[u] /\ loc'[u] = loc[u]
      BY <1>1, <2>3, Zenon DEF Goto, Locals
    <3>2. loc[t].init <= loc[t].bit /\ \A i \in issued : i[1] < loc[t].init
      BY <1>1, <3>1, Zenon DEF Placed, Forming, Given, Below
    <3>3. loc[t].init \in Nat /\ loc[t].bit \in Nat
      BY <1>1, Typed, Zenon
    <3>4. \A i \in issued : loc[t].bit # i[1]
      BY <1>1, <3>2, <3>3
    <3>5. Seqs'
      BY <2>1, Zenon DEF Older, Seqs
    <3>6. ASSUME ~errors', NEW i \in issued' PROVE OlderThan(i)'
      <4>1. ~errors
        BY <1>1, <2>1, <3>6, MarkStays, Zenon DEF Types
      <4>2. OlderThan(i)
        BY <2>1, <3>6, <4>1, Zenon DEF Older
      <4>3. \A u \in Tasks : pc'[u] = "prepare" /\ loc'[u].formatted => loc'[u].bit # i[1]
        BY <2>1, <3>1, <3>4, <3>6, <4>2, ZenonT(30) DEF OlderThan
      <4> QED BY <2>1, <4>2, <4>3, Zenon DEF OlderThan
    <3> QED BY <3>5, <3>6, Zenon DEF Older
  <2> QED BY <1>3, <2>2, <2>3, Zenon DEF UpdateSizes
<1> QED
  BY <1>2, <1>3, Zenon

(* What Prepare() gives out is newer than what was given out before.       *)
LEMMA PreparedIsNew ==
  ASSUME AllocInv, Older, ~errors, NEW t \in Tasks, pc[t] = "prepare",
         loc[t].formatted \/ ~mem[loc[t].bit].use, NEW i \in issued, i[1] = loc[t].bit,
         NEW seq, seq = IF loc[t].formatted \/ mem[loc[t].bit].seq = 0 THEN 1
                        ELSE mem[loc[t].bit].seq
  PROVE  i[2] < seq /\ ~loc[t].formatted /\ seq = mem[loc[t].bit].seq
<1>1. OlderThan(i)
  BY Zenon DEF Older
<1>2. ~loc[t].formatted /\ i[2] < mem[loc[t].bit].seq
  BY <1>1, Zenon DEF OlderThan
<1>3. mem[loc[t].bit].seq # 0
  <2>1. loc[t].bit \in Records
    BY Typed, Zenon DEF AllocInv
  <2>2. mem[loc[t].bit].seq \in 1 .. frees + 1 /\ frees \in Nat
    BY <2>1, Zenon DEF Older, Seqs, AllocInv, Types
  <2> QED BY <2>2
<1> QED
  BY <1>2, <1>3, Zenon

(* The record is prepared.                                                 *)
LEMMA OlderPrepared ==
  ASSUME AllocInv, Older, NEW t \in Tasks, Prepare(t)
  PROVE  Older'
<1> DEFINE r == loc[t].bit
           seq == IF loc[t].formatted \/ mem[r].seq = 0 THEN 1 ELSE mem[r].seq
           e == loc[t].ext
           x0 == [r |-> r, seq |-> seq, ext |-> e]
<1>1. /\ Types /\ Owned(t) /\ loc \in [Tasks -> Locals] /\ pc \in [Tasks -> Places]
      /\ mem \in [Records -> [use : BOOLEAN, seq : Nat, dirty : BOOLEAN]]
      /\ UNCHANGED disk /\ UNCHANGED frees
      /\ errors' = errors \/ errors' = TRUE
  BY Zenon DEF AllocInv, Types, Prepare
<1>2. pc[t] = "prepare" /\ r \in Records /\ pc[t] \in Owning
  BY <1>1, Typed, Zenon DEF Prepare, Done, Goto, Owning
<1>3. /\ \A x \in live : x.r # r
      /\ \A u \in Tasks \ {t} : pc[u] \in Owning => loc[u].bit # r
  BY <1>1, <1>2, Zenon DEF Owned
<1>4. seq \in 1 .. frees + 1 /\ seq \in Nat
  <2>1. mem[r].seq \in 1 .. frees + 1 /\ frees \in Nat
    BY <1>1, <1>2, Zenon DEF Older, Seqs, Types
  <2> QED BY <2>1
<1>5. PICK s : s = seq
  BY Zenon
<1>6. ASSUME ~errors, loc[t].formatted \/ ~mem[r].use, NEW i \in issued, i[1] = r
      PROVE  i[2] < s
  BY <1>2, <1>5, <1>6, PreparedIsNew, Zenon
<1>7. CASE UNCHANGED <<mem, live, issued, loc>> /\ Goto(t, "prepare", "clearbit")
  <2>1. Stays(t) /\ UNCHANGED <<record, refs>>
    BY <1>1, <1>7, GoStays, Zenon DEF record, refs
  <2> QED BY <1>1, <2>1, OlderKept, Zenon
<1>8. ASSUME NEW use \in BOOLEAN, loc[t].formatted \/ ~mem[r].use, errors' = errors, Stays(t),
             mem' = [mem EXCEPT ![r] = [use |-> use, seq |-> s, dirty |-> TRUE]],
             \/ use /\ live' = live \cup {[r |-> r, seq |-> s, ext |-> e]}
                /\ issued' = issued \cup {<<r, s>>}
             \/ ~use /\ live' = live /\ issued' = issued
      PROVE  Older'
  <2>1. /\ mem'[r].use = use /\ mem'[r].seq = s /\ mem'[r].dirty = TRUE
        /\ \A q \in Records \ {r} : mem'[q] = mem[q]
    BY <1>1, <1>2, <1>8, Zenon
  <2>1b. PICK y : y = [r |-> r, seq |-> s, ext |-> e]
    BY Zenon
  <2>1c. y.r = r /\ y.seq = s
    BY <2>1b, Zenon
  <2>1d. \A x \in live' : x \in live \/ x = y
    BY <1>8, <2>1b, Zenon
  <2>1a. y.r = r /\ y.seq = s /\ \A x \in live' : x \in live \/ x = y
    BY <2>1c, <2>1d, Zenon
  <2>2. Seqs'
    BY <1>1, <1>2, <1>4, <1>5, <2>1, Zenon DEF Older, Seqs
  <2>3. ASSUME ~errors', NEW i \in issued' PROVE OlderThan(i)'
    <3>1. ~errors
      BY <1>1, <1>8, <2>3, MarkStays, Zenon DEF Types
    <3>2. i \in issued \/ (use /\ i = <<r, s>>)
      BY <1>8, <2>3, Zenon
    <3>3. CASE i \in issued
      <4>1. OlderThan(i) /\ i[1] \in Records /\ i[2] \in Nat
        BY <1>1, <3>1, <3>3 DEF Older, Types
      <4>2. i[1] = r => i[2] < s
        BY <1>6, <1>8, <3>1, <3>3, ZenonT(30)
      <4>3. i[1] = r => i[2] <= s
        BY <1>4, <1>5, <4>1, <4>2
      <4>4. \A x \in live' : x.r = i[1] => i[2] <= x.seq
        BY <2>1a, <4>1, <4>3, Zenon DEF OlderThan
      <4>5. \A u \in Tasks : pc'[u] = "prepare" /\ loc'[u].formatted => loc'[u].bit # i[1]
        BY <1>8, <4>1, Zenon DEF OlderThan, Stays
      <4>6. CASE i[1] = r
        BY <2>1, <4>2, <4>4, <4>5, <4>6, Zenon DEF OlderThan
      <4>7. CASE i[1] # r
        BY <1>1, <2>1, <4>1, <4>4, <4>5, <4>7, ZenonT(30) DEF OlderThan
      <4> QED BY <4>6, <4>7, Zenon
    <3>4. CASE use /\ i = <<r, s>>
      <4>1. i[1] = r /\ i[2] = s /\ s <= s
        BY <1>4, <1>5, <3>4
      <4>2. \A x \in live' : x.r = i[1] => i[2] <= x.seq
        BY <1>3, <2>1a, <4>1, Zenon
      <4>3. \A u \in Tasks : pc'[u] = "prepare" /\ loc'[u].formatted => loc'[u].bit # i[1]
        BY <1>3, <1>8, <4>1, Zenon DEF Stays, Owning
      <4> QED BY <2>1, <3>4, <4>1, <4>2, <4>3, ZenonT(30) DEF OlderThan
    <3> QED BY <3>2, <3>3, <3>4, Zenon
  <2> QED BY <2>2, <2>3, Zenon DEF Older
<1>9. CASE /\ loc[t].formatted \/ ~mem[r].use
           /\ Done(t, "prepare")
           /\ mem' = [mem EXCEPT ![r] = [use |-> TRUE, seq |-> seq, dirty |-> TRUE]]
           /\ Open(r, seq, e)
           /\ UNCHANGED errors
  <2>1. Stays(t)
    BY <1>1, <1>9, EndStays, Zenon
  <2> QED BY <1>5, <1>8, <1>9, <2>1, Zenon DEF Open
<1>10. CASE /\ loc[t].formatted \/ ~mem[r].use
            /\ Goto(t, "prepare", "clearbit")
            /\ mem' = [mem EXCEPT ![r] = [use |-> FALSE, seq |-> seq, dirty |-> TRUE]]
            /\ UNCHANGED <<live, issued, dataPos, errors, loc>>
  <2>1. Stays(t)
    BY <1>1, <1>10, GoStays, Zenon
  <2> QED BY <1>5, <1>8, <1>10, <2>1, Zenon
<1> QED
  BY <1>7, <1>9, <1>10, Zenon DEF Prepare

(* Fewer records are freed than there are sequence numbers.                *)
SeqsSuffice == MaxFrees < 65535

(* So the next sequence number does not wrap around.                       *)
LEMMA NextIsNewer ==
  ASSUME SeqsSuffice, NEW f \in Nat, f < MaxFrees, NEW s \in Nat, 1 <= s, s <= f + 1
  PROVE  NextSeq(s) = s + 1
BY Sizes DEF SeqsSuffice, NextSeq

(* A record that is freed gets a sequence number that is newer than those  *)
(* that were given out.                                                    *)
LEMMA OlderFreed ==
  ASSUME SeqsSuffice, AllocInv, Older, NEW t \in Tasks, NEW ref \in live,
         Free(t, ref) \/ FreeFails(t, ref)
  PROVE  Older'
<1>1. /\ Types /\ Given /\ loc \in [Tasks -> Locals] /\ pc \in [Tasks -> Places]
      /\ mem \in [Records -> [use : BOOLEAN, seq : Nat, dirty : BOOLEAN]]
      /\ disk \in [Records -> [use : BOOLEAN, seq : Nat]]
      /\ frees \in Nat /\ frees < MaxFrees /\ frees' = frees + 1
  BY Zenon DEF AllocInv, Types, Free, FreeFails
<1>2. /\ ref.r \in Records /\ ref.seq \in Nat /\ mem[ref.r].seq = ref.seq
      /\ ~mem[ref.r].dirty => disk[ref.r].use
  BY <1>1, InUse, Zenon DEF Given
<1>3. ref.seq \in 1 .. frees + 1
  BY <1>2, Zenon DEF Older, Seqs
<1>4. PICK s : s = NextSeq(ref.seq)
  BY Zenon
<1>5. s = ref.seq + 1 /\ s \in 1 .. frees' + 1 /\ s \in Nat
  <2>1. ref.seq \in Nat /\ 1 <= ref.seq /\ ref.seq <= frees + 1
    BY <1>1, <1>3
  <2>2. s = ref.seq + 1
    BY <1>1, <1>4, <2>1, NextIsNewer, Zenon
  <2> QED BY <1>1, <1>3, <2>2
<1>6. \A q \in Records : mem[q].seq \in 1 .. frees' + 1 /\ disk[q].seq \in 1 .. frees' + 1
  <2> SUFFICES ASSUME NEW q \in Records
               PROVE  mem[q].seq \in 1 .. frees' + 1 /\ disk[q].seq \in 1 .. frees' + 1
    BY Zenon
  <2>1. mem[q].seq \in 1 .. frees + 1 /\ disk[q].seq \in 1 .. frees + 1
    BY Zenon DEF Older, Seqs
  <2> QED BY <1>1, <2>1
<1>7. CASE /\ FreeFails(t, ref) /\ pc[t] = "idle"
           /\ UNCHANGED <<mem, live, pc, loc, errors>>
  <2>1. UNCHANGED <<mem, disk, live, issued, pc, loc, errors>>
    BY <1>7, Zenon DEF FreeFails
  <2> QED BY <1>6, <2>1, Zenon DEF Older, Seqs, OlderThan
<1>8. ASSUME mem' = [mem EXCEPT ![ref.r] = [use |-> FALSE, seq |-> s, dirty |-> FALSE]]
      PROVE  /\ mem'[ref.r].seq = s /\ \A q \in Records \ {ref.r} : mem'[q] = mem[q]
             /\ disk' = disk \/ disk' = [disk EXCEPT ![ref.r] = [use |-> FALSE, seq |-> s]] => Seqs'
  <2>1. mem'[ref.r].seq = s /\ \A q \in Records \ {ref.r} : mem'[q] = mem[q]
    BY <1>1, <1>2, <1>8, Zenon
  <2>2. ASSUME disk' = disk PROVE Seqs'
    BY <1>5, <1>6, <2>1, <2>2, Zenon DEF Seqs
  <2>3. ASSUME disk' = [disk EXCEPT ![ref.r] = [use |-> FALSE, seq |-> s]] PROVE Seqs'
    <3>1. disk'[ref.r].seq = s /\ \A q \in Records \ {ref.r} : disk'[q] = disk[q]
      BY <1>1, <1>2, <2>3, Zenon
    <3> QED BY <1>5, <1>6, <2>1, <3>1, Zenon DEF Seqs
  <2> QED BY <2>1, <2>2, <2>3, Zenon
<1>9. CASE /\ FreeFails(t, ref) /\ errors' = TRUE
           /\ mem' = [mem EXCEPT ![ref.r] =
                [use |-> FALSE, seq |-> NextSeq(ref.seq), dirty |-> FALSE]]
  <2>1. disk' = disk
    BY <1>9, Zenon DEF FreeFails
  <2> QED BY <1>4, <1>8, <1>9, <2>1, Zenon DEF Older
<1>10. CASE Free(t, ref)
  <2>1. PICK m : m = [use |-> FALSE, seq |-> s]
    BY Zenon
  <2>2. m.use = FALSE /\ m.seq = s
    BY <2>1, Zenon
  <2>3. /\ live' = live \ {ref} /\ issued' = issued /\ errors' = errors
        /\ mem' = [mem EXCEPT ![ref.r] = [use |-> m.use, seq |-> m.seq, dirty |-> FALSE]]
        /\ disk' = (IF mem[ref.r].dirty THEN [disk EXCEPT ![ref.r] = m] ELSE disk)
        /\ Goto(t, "idle", "clearbit") /\ Set(t, "bit", ref.r)
    BY <1>4, <1>10, <2>1, Zenon DEF Free
  <2>4. mem' = [mem EXCEPT ![ref.r] = [use |-> FALSE, seq |-> s, dirty |-> FALSE]]
    BY <2>2, <2>3, Zenon
  <2>5. /\ mem'[ref.r].seq = s /\ \A q \in Records \ {ref.r} : mem'[q] = mem[q]
    BY <1>8, <2>4, Zenon
  <2>6. Seqs'
    BY <1>8, <2>1, <2>3, <2>4, Zenon
  <2>7. /\ \A q \in Records \ {ref.r} : disk'[q] = disk[q]
        /\ disk'[ref.r].use \/ disk'[ref.r].seq = s
    <3>1. CASE mem[ref.r].dirty
      BY <1>1, <1>2, <2>2, <2>3, <3>1, Zenon
    <3>2. CASE ~mem[ref.r].dirty
      BY <1>2, <2>3, <3>2, Zenon
    <3> QED BY <3>1, <3>2, Zenon
  <2>8. Stays(t)
    <3>1. \A u \in Tasks \ {t} : loc'[u] = loc[u]
      BY <1>1, <2>3, Zenon DEF Set
    <3> QED BY <1>1, <2>3, <3>1, GoStays, Zenon
  <2>9. ASSUME ~errors', NEW i \in issued' PROVE OlderThan(i)'
    <3>1. ~errors
      BY <1>1, <2>3, <2>9, MarkStays, ZenonT(30) DEF Types
    <3>2. OlderThan(i) /\ i[1] \in Records /\ i[2] \in Nat
      BY <1>1, <2>3, <2>9, <3>1 DEF Older, Types
    <3>3. \A x \in live' : x.r = i[1] => i[2] <= x.seq
      BY <2>3, <3>2, Zenon DEF OlderThan
    <3>4. \A u \in Tasks : pc'[u] = "prepare" /\ loc'[u].formatted => loc'[u].bit # i[1]
      BY <2>8, <3>2, Zenon DEF OlderThan, Stays
    <3>5. CASE i[1] # ref.r
      BY <2>5, <2>7, <3>2, <3>3, <3>4, <3>5, Zenon DEF OlderThan
    <3>6. CASE i[1] = ref.r
      <4>1. i[2] <= ref.seq
        BY <3>2, <3>6, Zenon DEF OlderThan
      <4>2. i[2] < s
        BY <1>2, <1>5, <3>2, <4>1
      <4> QED BY <2>5, <2>7, <3>3, <3>4, <3>6, <4>2, Zenon DEF OlderThan
    <3> QED BY <3>5, <3>6, Zenon
  <2> QED BY <2>6, <2>9, Zenon DEF Older
<1> QED
  BY <1>7, <1>9, <1>10, Zenon DEF FreeFails

(* A record is written back, or read again.                                *)
LEMMA OlderCached ==
  ASSUME AllocInv, Older, NEW r \in Records, WriteBack(r) \/ Reclaim(r)
  PROVE  Older'
<1>1. /\ Types /\ mem \in [Records -> [use : BOOLEAN, seq : Nat, dirty : BOOLEAN]]
      /\ disk \in [Records -> [use : BOOLEAN, seq : Nat]]
      /\ UNCHANGED <<live, issued, frees, errors, pc, loc>>
  BY Zenon DEF AllocInv, Types, WriteBack, Reclaim, refs
<1>2. \A q \in Records \ {r} : mem'[q] = mem[q] /\ disk'[q] = disk[q]
  BY <1>1, Zenon DEF WriteBack, Reclaim
<1>3. /\ mem'[r].use = disk'[r].use /\ mem'[r].seq = disk'[r].seq /\ ~mem'[r].dirty
      /\ \/ disk'[r].use = mem[r].use /\ disk'[r].seq = mem[r].seq
         \/ disk'[r] = disk[r] /\ ~mem[r].dirty
  <2>1. CASE WriteBack(r)
    BY <1>1, <2>1, Zenon DEF WriteBack
  <2>2. CASE Reclaim(r)
    BY <1>1, <2>2, Zenon DEF Reclaim
  <2> QED BY <2>1, <2>2, Zenon
<1>4. Seqs'
  BY <1>1, <1>2, <1>3, Zenon DEF Older, Seqs
<1>5. ASSUME ~errors', NEW i \in issued' PROVE OlderThan(i)'
  <2>1. ~errors
    BY <1>1, <1>5, MarkStays, Zenon DEF Types
  <2>2. OlderThan(i) /\ i[1] \in Records
    BY <1>1, <1>5, <2>1 DEF Older, Types
  <2>3. CASE i[1] # r
    BY <1>1, <1>2, <2>2, <2>3, Zenon DEF OlderThan
  <2>4. CASE i[1] = r
    <3>1. ~disk'[r].use => i[2] < disk'[r].seq
      BY <1>3, <2>2, <2>4, Zenon DEF OlderThan
    <3> QED BY <1>1, <1>3, <2>2, <2>4, <3>1, Zenon DEF OlderThan
  <2> QED BY <2>3, <2>4, Zenon
<1> QED
  BY <1>4, <1>5, Zenon DEF Older

(* At first every reference has the sequence number of its record.         *)
LEMMA OlderInit == Init => Older
<1> SUFFICES ASSUME Init PROVE Older
  BY Zenon
<1>1. Types /\ Given
  BY AllocInit, Zenon DEF AllocInv
<1>2. PICK init : /\ mem = [r \in Records |-> [use |-> r < init, seq |-> 1, dirty |-> FALSE]]
                  /\ disk = [r \in Records |-> [use |-> r < init, seq |-> 1]]
                  /\ issued = {<<x.r, x.seq>> : x \in live} /\ frees = 0
                  /\ pc = [t \in Tasks |-> "idle"]
                  /\ live = {[r |-> r, seq |-> 1, ext |-> r = Reserved] :
                       r \in Reserved .. init - 1}
  BY Zenon DEF Init, Start
<1>3. Seqs
  <2>1. 1 \in 1 .. frees + 1
    BY <1>2
  <2> QED BY <1>2, <2>1, Zenon DEF Seqs
<1>4. ASSUME NEW x \in live PROVE x.seq = 1
  <2>1. PICK r : x = [r |-> r, seq |-> 1, ext |-> r = Reserved]
    BY <1>2, Zenon
  <2> QED BY <2>1, Zenon
<1>5. ASSUME NEW i \in issued PROVE OlderThan(i)
  <2>1. PICK x \in live : i = <<x.r, x.seq>>
    BY <1>2, Zenon
  <2>2. x.r \in Records /\ i[1] = x.r /\ i[2] = 1 /\ 1 <= 1
    BY <1>1, <1>4, <2>1, InUse
  <2>3. mem[x.r].use /\ ~mem[x.r].dirty /\ disk[x.r].use
    BY <1>1, <1>2, <2>2, Zenon DEF Given
  <2> QED BY <1>2, <1>4, <2>2, <2>3, Zenon DEF OlderThan
<1> QED
  BY <1>3, <1>5, Zenon DEF Older

(* Nothing but a record that was prepared is given out.                    *)
LEMMA OnlyPrepared ==
  ASSUME [Next]_vars, NEW x \in live' \ live
  PROVE  \E t \in Tasks :
           /\ pc[t] = "prepare" /\ (loc[t].formatted \/ ~mem[loc[t].bit].use)
           /\ x = [r |-> loc[t].bit, ext |-> loc[t].ext,
                   seq |-> IF loc[t].formatted \/ mem[loc[t].bit].seq = 0 THEN 1
                           ELSE mem[loc[t].bit].seq]
<1>1. ASSUME NEW t \in Tasks, AllocStep(t) PROVE Prepare(t) \/ live' = live
  <2>1. CASE Search(t, FALSE, 0) \/ \E ref \in live : ~ref.ext /\ Search(t, TRUE, ref.r)
    BY <2>1, Zenon DEF Search, refs
  <2>2. CASE NextBit(t) \/ BmpExtendAlloc(t) \/ BmpExtendInit(t) \/ SetBit(t) \/ HaveBit(t)
    BY <2>2, Zenon DEF NextBit, BmpExtendAlloc, BmpExtendInit, SetBit, HaveBit, refs
  <2>3. CASE MftExtendAlloc(t) \/ FormatRecord(t) \/ UpdateSizes(t) \/ UndoInit(t) \/ ClearBit(t)
    BY <2>3, Zenon DEF MftExtendAlloc, FormatRecord, UpdateSizes, UndoInit, ClearBit, refs
  <2> QED BY <1>1, <2>1, <2>2, <2>3, Zenon DEF AllocStep
<1>2. ASSUME NEW t \in Tasks, NEW ref \in live, Free(t, ref) \/ FreeFails(t, ref) PROVE FALSE
  BY <1>2, Zenon DEF Free, FreeFails
<1>3. ASSUME NEW r \in Records, WriteBack(r) \/ Reclaim(r) PROVE FALSE
  BY <1>3, Zenon DEF WriteBack, Reclaim, refs
<1>4. ~UNCHANGED vars
  BY Zenon DEF vars, refs
<1>5. PICK t \in Tasks : AllocStep(t)
  BY <1>2, <1>3, <1>4, Zenon DEF Next
<1>6. Prepare(t)
  BY <1>1, <1>5, Zenon
<1>7. /\ loc[t].formatted \/ ~mem[loc[t].bit].use
      /\ pc[t] = "prepare"
      /\ live' = live \cup {[r |-> loc[t].bit, ext |-> loc[t].ext,
                             seq |-> IF loc[t].formatted \/ mem[loc[t].bit].seq = 0 THEN 1
                                     ELSE mem[loc[t].bit].seq]}
  BY <1>6, Zenon DEF Prepare, Open, Done, Goto
<1> QED
  BY <1>7, Zenon

(* References stay older than the next.                                    *)
LEMMA OlderStep ==
  ASSUME SeqsSuffice, AllocInv, Older, [Next]_vars
  PROVE  Older'
<1>1. ASSUME NEW t \in Tasks, AllocStep(t) PROVE Older'
  <2>1. CASE FormatRecord(t) \/ UpdateSizes(t) \/ Prepare(t)
    BY <2>1, OlderFormed, OlderPrepared, Zenon
  <2>2. CASE \E ext \in BOOLEAN : \E base : Search(t, ext, base)
    BY <2>2, OlderAlone, Zenon
  <2>3. CASE \/ NextBit(t) \/ BmpExtendAlloc(t) \/ BmpExtendInit(t) \/ SetBit(t) \/ HaveBit(t)
             \/ MftExtendAlloc(t) \/ UndoInit(t) \/ ClearBit(t)
    BY <2>3, OlderAlone, Zenon
  <2>4. (Search(t, FALSE, 0) \/ \E ref \in live : ~ref.ext /\ Search(t, TRUE, ref.r)) =>
          \E ext \in BOOLEAN : \E base : Search(t, ext, base)
    BY Zenon
  <2> QED BY <1>1, <2>1, <2>2, <2>3, <2>4, Zenon DEF AllocStep
<1>2. ASSUME NEW t \in Tasks, NEW ref \in live, Free(t, ref) \/ FreeFails(t, ref) PROVE Older'
  BY <1>2, OlderFreed, Zenon
<1>3. ASSUME NEW r \in Records, WriteBack(r) \/ Reclaim(r) PROVE Older'
  BY <1>3, OlderCached, Zenon
<1>4. ASSUME UNCHANGED vars PROVE Older'
  <2>1. UNCHANGED <<mem, disk, live, issued, frees, errors, pc, loc>>
    BY <1>4, Zenon DEF vars, record, refs
  <2> QED BY <2>1, Zenon DEF Older, Seqs, OlderThan
<1> QED
  BY <1>1, <1>2, <1>3, <1>4, Zenon DEF Next

(* What is given out was not given out before.                             *)
LEMMA NewIsNew ==
  ASSUME AllocInv, Older, [Next]_vars, ~errors, NEW x \in live' \ live
  PROVE  <<x.r, x.seq>> \notin issued
<1>1. PICK t \in Tasks :
        /\ pc[t] = "prepare" /\ (loc[t].formatted \/ ~mem[loc[t].bit].use)
        /\ x = [r |-> loc[t].bit, ext |-> loc[t].ext,
                seq |-> IF loc[t].formatted \/ mem[loc[t].bit].seq = 0 THEN 1
                        ELSE mem[loc[t].bit].seq]
  BY OnlyPrepared, Zenon
<1>2. x.r = loc[t].bit
  BY <1>1, Zenon
<1>3. x.seq = IF loc[t].formatted \/ mem[loc[t].bit].seq = 0 THEN 1 ELSE mem[loc[t].bit].seq
  BY <1>1, Zenon
<1> SUFFICES ASSUME <<x.r, x.seq>> \in issued PROVE FALSE
  BY Zenon
<1>4. PICK i \in issued : i[1] = x.r /\ i[2] = x.seq
  BY Zenon
<1>5. i[2] < x.seq /\ x.seq = mem[loc[t].bit].seq
  BY <1>1, <1>2, <1>3, <1>4, PreparedIsNew, Zenon
<1>6. x.seq \in Nat
  <2>1. loc[t].bit \in Records
    BY Typed, Zenon DEF AllocInv
  <2> QED BY <1>5, <2>1, Zenon DEF AllocInv, Types
<1> QED
  BY <1>4, <1>5, <1>6

-----------------------------------------------------------------------------
(* The theorems *)

INSTANCE WellFoundedInduction

(* A set of numbers that is not empty has a least one.                     *)
LEMMA LeastIsFound == LeastOf
<1> SUFFICES ASSUME NEW S \in SUBSET Nat, S # {}
             PROVE  Min(S) \in S /\ \A n \in S : Min(S) <= n
  BY Zenon DEF LeastOf
<1>1. IsWellFoundedOn({ss \in Nat \X Nat : ss[1] < ss[2]}, Nat)
  BY NatLessThanWellFounded, Zenon DEF OpToRel
<1>2. PICK m \in S : \A n \in S : ~(<<n, m>> \in {ss \in Nat \X Nat : ss[1] < ss[2]})
  BY <1>1, WFMin, Zenon
<1>3. \A n \in S : ~(n < m)
  BY <1>2, Zenon
<1>4. \A n \in S : m <= n
  BY <1>3
<1> QED
  BY <1>4, Zenon DEF Min

(* Every step keeps the invariant.                                         *)
LEMMA AllocKept == AllocInv /\ [Next]_vars => AllocInv'
<1> SUFFICES ASSUME AllocInv, [Next]_vars PROVE AllocInv'
  BY Zenon
<1> LeastOf
  BY LeastIsFound, Zenon
<1>1. ASSUME NEW t \in Tasks, AllocStep(t) PROVE AllocInv'
  <2>1. CASE Search(t, FALSE, 0) \/ \E ref \in live : ~ref.ext /\ Search(t, TRUE, ref.r)
    <3>1. Types /\ Given /\ 0 \in Nat
      BY Zenon DEF AllocInv
    <3>2. \A ref \in live : ref.r \in Nat
      BY <3>1, InUse, Zenon
    <3> QED BY <2>1, <3>1, <3>2, SearchKeeps, Zenon
  <2>2. CASE NextBit(t) \/ BmpExtendAlloc(t) \/ BmpExtendInit(t) \/ SetBit(t) \/ HaveBit(t)
    BY <2>2, NextBitKeeps, BmpExtendAllocKeeps, BmpExtendInitKeeps, SetBitKeeps, HaveBitKeeps, ZenonT(30)
  <2>3. CASE MftExtendAlloc(t) \/ FormatRecord(t) \/ UpdateSizes(t) \/ UndoInit(t)
    BY <2>3, MftExtendAllocKeeps, FormatRecordKeeps, UpdateSizesKeeps, UndoInitKeeps, ZenonT(30)
  <2>4. CASE ClearBit(t) \/ Prepare(t)
    BY <2>4, ClearBitKeeps, PrepareKeeps, ZenonT(30)
  <2> QED BY <1>1, <2>1, <2>2, <2>3, <2>4, ZenonT(30) DEF AllocStep
<1>2. ASSUME NEW t \in Tasks, NEW ref \in live, Free(t, ref) \/ FreeFails(t, ref) PROVE AllocInv'
  BY <1>2, FreeKeeps, FreeFailsKeeps, Zenon
<1>3. ASSUME NEW r \in Records, WriteBack(r) \/ Reclaim(r) PROVE AllocInv'
  BY <1>3, CacheKeeps, Zenon
<1>4. ASSUME UNCHANGED vars PROVE AllocInv'
  <2>1. UNCHANGED <<lock, bmp, sz, at, used, mem, disk, dataPos, live, issued, frees, errors,
                    pc, loc>>
    BY <1>4, ZenonT(30) DEF vars, sizes, record, refs
  <2>2. Types' /\ InOrder' /\ SizesAgree' /\ FullIsFull'
    BY <2>1, ZenonT(30) DEF AllocInv, Types, InOrder, SizesAgree, Agree, FullIsFull, PassEnd
  <2>3. Given'
    BY <2>1, ZenonT(30) DEF AllocInv, Given, Below
  <2>4. \A u \in Tasks : Placed(u)'
    BY <2>1, ZenonT(30) DEF AllocInv, Placed, Below
  <2>5. \A u \in Tasks : Owned(u)'
    BY <2>1, Zenon DEF AllocInv, Owned
  <2> QED BY <2>2, <2>3, <2>4, <2>5, ZenonT(30) DEF AllocInv
<1> QED
  BY <1>1, <1>2, <1>3, <1>4, ZenonT(30) DEF Next

(* The invariant holds throughout.                                         *)
THEOREM AllocInvariant == Spec => []AllocInv
BY AllocInit, AllocKept, PTL DEF Spec

(* ntfs_mft_record_alloc() never hands out a record that somebody has, or  *)
(* that ntfs_extent_mft_record_free() is not done with: its bit is set, it *)
(* is initialized, and no other task works on it.                          *)
THEOREM OneUser == Spec => []OneOwner
<1>1. AllocInv => OneOwner
  <2> SUFFICES ASSUME AllocInv, NEW x \in live
               PROVE  /\ x.r \in bmp /\ x.r >= Reserved /\ x.r < sz["mft"].init
                      /\ mem[x.r].use /\ mem[x.r].seq = x.seq
                      /\ \A y \in live : y.r = x.r => y = x
                      /\ \A t \in Tasks : pc[t] \notin {"idle", "full", "oops"} => loc[t].bit # x.r
    BY Zenon DEF OneOwner
  <2>1. /\ Types /\ InOrder /\ Given
        /\ (\A t \in Tasks : Placed(t)) /\ (\A t \in Tasks : Owned(t))
    BY Zenon DEF AllocInv
  <2>2. x.r \in Nat /\ x.r < sz["mft"].init
    BY <2>1, InUse, Zenon DEF Below
  <2>3. ASSUME NEW t \in Tasks, pc[t] \notin {"idle", "full", "oops"} PROVE loc[t].bit # x.r
    <3>1. CASE pc[t] \in Owning
      BY <2>1, <3>1, Zenon DEF Owned
    <3>2. CASE pc[t] \in {"bmpalloc", "bmpinit"}
      <4>1. loc[t].bit = sz["bmp"].init /\ sz["mft"].init <= sz["bmp"].init
        BY <2>1, <3>2, Zenon DEF Placed, InOrder
      <4>2. sz["bmp"].init \in Nat /\ sz["mft"].init \in Nat
        BY <2>1, Typed, Zenon
      <4> QED BY <2>2, <4>1, <4>2
    <3>3. CASE pc[t] = "setbit"
      <4>1. sz["mft"].init <= loc[t].bit
        BY <2>1, <3>3, Zenon DEF Placed
      <4>2. loc[t].bit \in Nat /\ sz["mft"].init \in Nat
        BY <2>1, Typed, Zenon
      <4> QED BY <2>2, <4>1, <4>2
    <3>4. pc[t] \in Places
      BY <2>1, ZenonT(30) DEF Types
    <3> QED BY <2>3, <3>1, <3>2, <3>3, <3>4, ZenonT(30) DEF Places, Owning
  <2> QED BY <2>1, <2>2, <2>3, ZenonT(30) DEF Given
<1> QED
  BY <1>1, AllocInvariant, PTL

(* When ntfs_mft_bitmap_find_and_alloc_free_rec_nolock() finds nothing, no *)
(* record that the bitmap and the allocated size cover is free, whatever   *)
(* bit its two passes over whole bytes start from.                         *)
THEOREM NoneIsMissed == Spec => []FullIsFull
<1>1. AllocInv => FullIsFull
  BY Zenon DEF AllocInv
<1> QED
  BY <1>1, AllocInvariant, PTL

(* Whenever mftbmp_lock is free, $MFT's sizes and runlists in memory agree *)
(* with its attribute records and no cluster is lost, or NVolErrors() is   *)
(* set; and the sizes are in order at every step, with every way in which  *)
(* extending the bitmap or the data may fail and be undone.                *)
THEOREM ConsistentSizes == Spec => []ConsistentOrFlagged
<1>1. AllocInv => ConsistentOrFlagged
  <2> SUFFICES ASSUME AllocInv PROVE ConsistentOrFlagged
    BY Zenon
  <2>1. Types /\ InOrder /\ SizesAgree /\ \A t \in Tasks : Placed(t)
    BY Zenon DEF AllocInv
  <2>2. ASSUME lock = NoTask, ~errors
        PROVE  Agree("bmp") /\ Agree("mft") /\ used = sz["bmp"].rl + sz["mft"].rl
    <3>1. \A t \in Tasks : pc[t] \notin UnderLock
      BY <2>1, <2>2, MftAllocAssumption, ZenonT(30) DEF Placed
    <3>2. \A t \in Tasks : pc[t] \notin Forming \cup {"oops"}
      BY <3>1, Zenon DEF UnderLock, Forming
    <3>3. AllAgree /\ used = sz["bmp"].rl + sz["mft"].rl
      BY <2>2, <3>2, <2>1, AgreeSplit, ZenonT(30) DEF AgreeIfFormed
    <3> QED BY <3>3, Zenon DEF AllAgree, Agree, Attributes
  <2>3. sz["bmp"].init >= sz["mft"].init
    <3>1. sz["bmp"].init \in Nat /\ sz["mft"].init \in Nat /\ sz["mft"].init <= sz["bmp"].init
      BY <2>1, Typed, Zenon DEF InOrder
    <3> QED BY <3>1
  <2> QED BY <2>1, <2>2, <2>3, Zenon DEF ConsistentOrFlagged, InOrder, Attributes
<1> QED
  BY <1>1, AllocInvariant, PTL

(* ntfs_mft_record_alloc() never gives out a reference (record number and  *)
(* sequence number) a second time, unless the volume was marked, as long   *)
(* as fewer than 65535 records were freed: ntfs_extent_mft_record_free()   *)
(* has counted the sequence number up in the page cache and, before the    *)
(* record can be read again, on disk.                                      *)
THEOREM NoReferenceTwice ==
  ASSUME SeqsSuffice
  PROVE  Spec => RefsUnique
<1>1. Init => AllocInv /\ Older
  BY AllocInit, OlderInit, Zenon
<1>2. AllocInv /\ Older /\ [Next]_vars => (AllocInv /\ Older)'
  BY AllocKept, OlderStep, Zenon
<1>3. AllocInv /\ Older /\ [Next]_vars =>
        [~errors => \A x \in live' \ live : <<x.r, x.seq>> \notin issued]_vars
  BY NewIsNew, Zenon
<1> QED
  BY <1>1, <1>2, <1>3, PTL DEF Spec, RefsUnique
=============================================================================
