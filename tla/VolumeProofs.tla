---------------------------- MODULE VolumeProofs ----------------------------
(***************************************************************************)
(* For every finite set of volumes: the user counters of the default       *)
(* upcase table and of the decompression buffer are exact, and neither is  *)
(* freed under a user.  The inductive invariant is Volume!IInv.            *)
(***************************************************************************)
EXTENDS Volume, FiniteSetTheorems, TLAPS

(* The time the provers may take for a step. *)
USE SMTT(60)

-----------------------------------------------------------------------------
(* Cardinalities of the three sets of users *)

(* The sets of users are finite, so their cardinalities are numbers.       *)
LEMMA UsersFinite ==
  /\ IsFiniteSet(TempUsers) /\ Cardinality(TempUsers) \in Nat
  /\ IsFiniteSet(UpcaseUsers) /\ Cardinality(UpcaseUsers) \in Nat
  /\ IsFiniteSet(CompressionUsers) /\ Cardinality(CompressionUsers) \in Nat
<1>1. TempUsers \subseteq Volumes /\ UpcaseUsers \subseteq Volumes
      /\ CompressionUsers \subseteq Volumes
  BY Zenon DEF TempUsers, UpcaseUsers, CompressionUsers
<1> QED
  BY <1>1, VolumesAssumption, FS_Subset, FS_CardinalityType, Zenon

(* One user more or one user less changes a count by one.                  *)
LEMMA OneMore ==
  ASSUME NEW S, IsFiniteSet(S), NEW T, NEW x, x \notin S, T = S \cup {x}
  PROVE  /\ Cardinality(T) = Cardinality(S) + 1
         /\ T # {}
  BY FS_AddElement, Zenon

(* Taking one out of a set takes one off its size.                         *)
LEMMA OneLess ==
  ASSUME NEW S, IsFiniteSet(S), NEW T, NEW x, x \in S, T = S \ {x}
  PROVE  /\ Cardinality(T) = Cardinality(S) - 1
         /\ Cardinality(S) >= 1
         /\ Cardinality(S) = 1 <=> T = {}
<1>1. Cardinality(T) = Cardinality(S) - 1 /\ IsFiniteSet(T)
  BY FS_RemoveElement, Zenon
<1>2. Cardinality(T) \in Nat /\ (Cardinality(T) = 0 <=> T = {})
  BY <1>1, FS_CardinalityType, FS_EmptySet, Zenon
<1>3. Cardinality(S) \in Nat
  BY FS_CardinalityType, Zenon
<1> QED
  BY <1>1, <1>2, <1>3

-----------------------------------------------------------------------------
(* The invariant holds at first.                                           *)
LEMMA InitIInv == Init => IInv
<1> SUFFICES ASSUME Init PROVE IInv
  BY Zenon
<1>1. TypeOK
  BY Zenon DEF Init, TypeOK, Labels, NoRefs
<1>2. TempUsers = {} /\ UpcaseUsers = {} /\ CompressionUsers = {}
  BY Zenon DEF Init, TempUsers, UpcaseUsers, CompressionUsers, Loading, Sharing
<1>3. UpcaseAccounting /\ NoDanglingUpcase /\ DefaultUpcaseHasUser /\ CompressionAccounting
  BY <1>2, FS_EmptySet DEF Init, UpcaseAccounting, NoDanglingUpcase,
     DefaultUpcaseHasUser, CompressionAccounting
<1>4. RefsFollowLabel
  BY DEF Init, RefsFollowLabel, RefCount, HeldAt, Loading, NoRefs, SystemFiles
<1>5. UpcaseFollowsLabel
  BY Zenon DEF Init, UpcaseFollowsLabel, HasUpcase
<1> QED
  BY <1>1, <1>3, <1>4, <1>5, Zenon DEF IInv

-----------------------------------------------------------------------------
(* Steps that touch no counter *)

(* A step that keeps the three sets of users and the shared variables      *)
(* keeps the accounting.                                                   *)
LEMMA AccountingKept ==
  ASSUME IInv, UNCHANGED shared, TempUsers' = TempUsers,
         UpcaseUsers' = UpcaseUsers, CompressionUsers' = CompressionUsers
  PROVE  /\ UpcaseAccounting' /\ NoDanglingUpcase' /\ DefaultUpcaseHasUser'
         /\ CompressionAccounting'
  BY Zenon DEF IInv, UpcaseAccounting, NoDanglingUpcase, DefaultUpcaseHasUser,
         CompressionAccounting, shared

(* The references held follow the label when one system file is opened,    *)
(* some are released, or none is touched: it is enough to compare the      *)
(* number prescribed for the volume that moved.                            *)
OthersKept(v) == \A w \in Volumes \ {v} : pc'[w] = pc[w] /\ ntfs3'[w] = ntfs3[w]
RefsOK == RefsFollowLabel /\ refs \in [Volumes -> [SystemFiles -> Nat]]

(* The label of v moves and every other label stays.                       *)
LEMMA GotoMoves ==
  ASSUME IInv, NEW v \in Volumes, NEW from, NEW to, Goto(v, from, to)
  PROVE  /\ pc[v] = from /\ pc'[v] = to
         /\ \A w \in Volumes \ {v} : pc'[w] = pc[w]
  BY Zenon DEF Goto, IInv, TypeOK

(* Only the references of v change, to what its new label prescribes.      *)
LEMMA RefsOfOthers ==
  ASSUME IInv, NEW v \in Volumes, OthersKept(v),
         refs' \in [Volumes -> [SystemFiles -> Int]],
         \A w \in Volumes \ {v} : refs'[w] = refs[w],
         \A f \in SystemFiles : refs'[v][f] = RefCount(v, f)'
  PROVE  RefsOK'
<1>1. RefsFollowLabel'
  <2> SUFFICES ASSUME NEW w \in Volumes, NEW f \in SystemFiles
               PROVE  refs'[w][f] = RefCount(w, f)'
    BY Zenon DEF RefsFollowLabel
  <2>1. CASE w = v
    BY <2>1, Zenon
  <2>2. CASE w # v
    BY <2>2 DEF IInv, RefsFollowLabel, RefCount, OthersKept
  <2> QED
    BY <2>1, <2>2, Zenon
<1>2. \A w \in Volumes, f \in SystemFiles : RefCount(w, f)' \in Nat
  BY DEF RefCount
<1> QED
  BY <1>1, <1>2, Zenon DEF RefsFollowLabel, RefsOK

(* No system file is opened or released.                                   *)
LEMMA RefsKept ==
  ASSUME IInv, NEW v \in Volumes, OthersKept(v), UNCHANGED refs,
         \A f \in SystemFiles : RefCount(v, f)' = RefCount(v, f)
  PROVE  RefsOK'
  BY RefsOfOthers DEF IInv, TypeOK, RefsFollowLabel

(* One system file is opened.                                              *)
LEMMA RefTaken ==
  ASSUME IInv, NEW v \in Volumes, OthersKept(v), NEW x \in SystemFiles, Iget(v, x),
         \A f \in SystemFiles : RefCount(v, f)' = RefCount(v, f) + (IF f = x THEN 1 ELSE 0)
  PROVE  RefsOK'
<1>1. /\ refs' \in [Volumes -> [SystemFiles -> Int]]
      /\ \A f \in SystemFiles : refs'[v][f] = refs[v][f] + (IF f = x THEN 1 ELSE 0)
      /\ \A w \in Volumes \ {v} : refs'[w] = refs[w]
  BY DEF Iget, IInv, TypeOK
<1> QED
  BY <1>1, RefsOfOthers, Zenon DEF IInv, RefsFollowLabel

(* The system files in X are released.                                     *)
LEMMA RefsDropped ==
  ASSUME IInv, NEW v \in Volumes, OthersKept(v), NEW X, Iput(v, X),
         \A f \in SystemFiles : RefCount(v, f)' = RefCount(v, f) - (IF f \in X THEN 1 ELSE 0)
  PROVE  RefsOK'
<1>1. /\ refs' \in [Volumes -> [SystemFiles -> Int]]
      /\ \A f \in SystemFiles : refs'[v][f] = refs[v][f] - (IF f \in X THEN 1 ELSE 0)
      /\ \A w \in Volumes \ {v} : refs'[w] = refs[w]
  BY DEF Iput, IInv, TypeOK
<1> QED
  BY <1>1, RefsOfOthers, Zenon DEF IInv, RefsFollowLabel

-----------------------------------------------------------------------------
(* The steps that change no set of users *)

(* FillSuper preserves the invariant.                                      *)
LEMMA FillSuperStep ==
  ASSUME IInv, NEW v \in Volumes, FillSuper(v)
  PROVE  IInv'
<1> USE DEF FillSuper
<1>1. OthersKept(v)
  BY Zenon DEF OthersKept, Goto, IInv, TypeOK
<1>2. RefsOK'
  <2>1. CASE Goto(v, "idle", "parse") /\ UNCHANGED refs
    <3>1. pc[v] = "idle" /\ pc'[v] = "parse"
      BY <2>1, GotoMoves, Zenon
    <3>2. \A f \in SystemFiles : RefCount(v, f)' = RefCount(v, f)
      BY <3>1, Zenon DEF IInv, TypeOK, RefCount, HeldAt, Loading, SystemFiles
    <3> QED
      BY <1>1, <2>1, <3>2, RefsKept, Zenon
  <2> QED
    BY <2>1, Zenon
<1>3. TypeOK'
  BY <1>2, Zenon DEF RefsOK, IInv, TypeOK, Goto, Labels, shared
<1>4. TempUsers' = TempUsers /\ CompressionUsers' = CompressionUsers
  BY Zenon DEF IInv, TypeOK, Goto, TempUsers, CompressionUsers, Loading, Sharing
<1>5. UpcaseUsers' = UpcaseUsers
  BY Zenon DEF IInv, TypeOK, Goto, UpcaseUsers, UpcaseFollowsLabel, HasUpcase
<1>6. UpcaseFollowsLabel'
  BY Zenon DEF IInv, TypeOK, Goto, UpcaseFollowsLabel, HasUpcase
<1> QED
  BY <1>2, <1>3, <1>4, <1>5, <1>6, AccountingKept, Zenon DEF IInv, RefsOK

(* ParseOptions preserves the invariant.                                   *)
LEMMA ParseOptionsStep ==
  ASSUME IInv, NEW v \in Volumes, ParseOptions(v)
  PROVE  IInv'
<1> USE DEF ParseOptions
<1>1. OthersKept(v)
  BY Zenon DEF OthersKept, Goto, IInv, TypeOK
<1>2. RefsOK'
  <2>1. CASE Goto(v, "parse", "boot") /\ UNCHANGED refs
    <3>1. pc[v] = "parse" /\ pc'[v] = "boot"
      BY <2>1, GotoMoves, Zenon
    <3>2. \A f \in SystemFiles : RefCount(v, f)' = RefCount(v, f)
      BY <3>1, Zenon DEF IInv, TypeOK, RefCount, HeldAt, Loading, SystemFiles
    <3> QED
      BY <1>1, <2>1, <3>2, RefsKept, Zenon
  <2>2. CASE Goto(v, "parse", "idle") /\ UNCHANGED refs
    <3>1. pc[v] = "parse" /\ pc'[v] = "idle"
      BY <2>2, GotoMoves, Zenon
    <3>2. \A f \in SystemFiles : RefCount(v, f)' = RefCount(v, f)
      BY <3>1 DEF IInv, TypeOK, RefCount, HeldAt, Loading, SystemFiles
    <3> QED
      BY <1>1, <2>2, <3>2, RefsKept, Zenon
  <2> QED
    BY <2>1, <2>2, Zenon
<1>3. TypeOK'
  BY <1>2, ZenonT(60) DEF RefsOK, IInv, TypeOK, Goto, Labels, shared
<1>4. TempUsers' = TempUsers /\ CompressionUsers' = CompressionUsers
  BY DEF IInv, TypeOK, Goto, TempUsers, CompressionUsers, Loading, Sharing
<1>5. UpcaseUsers' = UpcaseUsers
  BY Zenon DEF IInv, TypeOK, Goto, UpcaseUsers, UpcaseFollowsLabel, HasUpcase
<1>6. UpcaseFollowsLabel'
  BY DEF IInv, TypeOK, Goto, UpcaseFollowsLabel, HasUpcase
<1> QED
  BY <1>2, <1>3, <1>4, <1>5, <1>6, AccountingKept, Zenon DEF IInv, RefsOK

(* ReadBootSector preserves the invariant.                                 *)
LEMMA ReadBootSectorStep ==
  ASSUME IInv, NEW v \in Volumes, ReadBootSector(v)
  PROVE  IInv'
<1> USE DEF ReadBootSector
<1>1. OthersKept(v)
  BY Zenon DEF OthersKept, Goto, IInv, TypeOK
<1>2. RefsOK'
  <2>1. CASE Goto(v, "boot", "mft") /\ UNCHANGED refs
    <3>1. pc[v] = "boot" /\ pc'[v] = "mft"
      BY <2>1, GotoMoves, Zenon
    <3>2. \A f \in SystemFiles : RefCount(v, f)' = RefCount(v, f)
      BY <3>1, Zenon DEF IInv, TypeOK, RefCount, HeldAt, Loading, SystemFiles
    <3> QED
      BY <1>1, <2>1, <3>2, RefsKept, Zenon
  <2>2. CASE Goto(v, "boot", "idle") /\ UNCHANGED refs
    <3>1. pc[v] = "boot" /\ pc'[v] = "idle"
      BY <2>2, GotoMoves, Zenon
    <3>2. \A f \in SystemFiles : RefCount(v, f)' = RefCount(v, f)
      BY <3>1, Zenon DEF IInv, TypeOK, RefCount, HeldAt, Loading, SystemFiles
    <3> QED
      BY <1>1, <2>2, <3>2, RefsKept, Zenon
  <2> QED
    BY <2>1, <2>2, Zenon
<1>3. TypeOK'
  BY <1>2, Zenon DEF RefsOK, IInv, TypeOK, Goto, Labels, shared
<1>4. TempUsers' = TempUsers /\ CompressionUsers' = CompressionUsers
  BY DEF IInv, TypeOK, Goto, TempUsers, CompressionUsers, Loading, Sharing
<1>5. UpcaseUsers' = UpcaseUsers
  BY Zenon DEF IInv, TypeOK, Goto, UpcaseUsers, UpcaseFollowsLabel, HasUpcase
<1>6. UpcaseFollowsLabel'
  BY DEF IInv, TypeOK, Goto, UpcaseFollowsLabel, HasUpcase
<1> QED
  BY <1>2, <1>3, <1>4, <1>5, <1>6, AccountingKept, Zenon DEF IInv, RefsOK

(* ReadInodeMount preserves the invariant.                                 *)
LEMMA ReadInodeMountStep ==
  ASSUME IInv, NEW v \in Volumes, ReadInodeMount(v)
  PROVE  IInv'
<1> USE DEF ReadInodeMount
<1>1. OthersKept(v)
  BY Zenon DEF OthersKept, Goto, IInv, TypeOK
<1>2. RefsOK'
  <2>1. CASE Goto(v, "mft", "share") /\ Iget(v, "mft")
    <3>1. pc[v] = "mft" /\ pc'[v] = "share"
      BY <2>1, GotoMoves, Zenon
    <3>2. \A f \in SystemFiles : RefCount(v, f)' = RefCount(v, f) + (IF f = "mft" THEN 1 ELSE 0)
      BY <3>1 DEF IInv, TypeOK, RefCount, HeldAt, Loading, SystemFiles
    <3> QED
      BY <1>1, <2>1, <3>2, RefTaken, Zenon DEF SystemFiles
  <2>2. CASE Goto(v, "mft", "idle") /\ UNCHANGED refs
    <3>1. pc[v] = "mft" /\ pc'[v] = "idle"
      BY <2>2, GotoMoves, Zenon
    <3>2. \A f \in SystemFiles : RefCount(v, f)' = RefCount(v, f)
      BY <3>1, Zenon DEF IInv, TypeOK, RefCount, HeldAt, Loading, SystemFiles
    <3> QED
      BY <1>1, <2>2, <3>2, RefsKept, Zenon
  <2> QED
    BY <2>1, <2>2, Zenon
<1>3. TypeOK'
  BY <1>2, ZenonT(60) DEF RefsOK, IInv, TypeOK, Goto, Labels, shared
<1>4. TempUsers' = TempUsers /\ CompressionUsers' = CompressionUsers
  BY Zenon DEF IInv, TypeOK, Goto, TempUsers, CompressionUsers, Loading, Sharing
<1>5. UpcaseUsers' = UpcaseUsers
  BY Zenon DEF IInv, TypeOK, Goto, UpcaseUsers, UpcaseFollowsLabel, HasUpcase
<1>6. UpcaseFollowsLabel'
  BY DEF IInv, TypeOK, Goto, UpcaseFollowsLabel, HasUpcase
<1> QED
  BY <1>2, <1>3, <1>4, <1>5, <1>6, AccountingKept, Zenon DEF IInv, RefsOK

(* LoadMftBitmap preserves the invariant.                                  *)
LEMMA LoadMftBitmapStep ==
  ASSUME IInv, NEW v \in Volumes, LoadMftBitmap(v)
  PROVE  IInv'
<1> USE DEF LoadMftBitmap, LoadFile
<1>1. OthersKept(v)
  BY Zenon DEF OthersKept, Goto, IInv, TypeOK
<1>2. RefsOK'
  <2>1. CASE Goto(v, "mftbmp", "upcase") /\ Iget(v, "mftbmp")
    <3>1. pc[v] = "mftbmp" /\ pc'[v] = "upcase"
      BY <2>1, GotoMoves, Zenon
    <3>2. \A f \in SystemFiles : RefCount(v, f)' = RefCount(v, f) + (IF f = "mftbmp" THEN 1 ELSE 0)
      BY <3>1 DEF IInv, TypeOK, RefCount, HeldAt, Loading, SystemFiles
    <3> QED
      BY <1>1, <2>1, <3>2, RefTaken, Zenon DEF SystemFiles
  <2>2. CASE Goto(v, "mftbmp", "unlUpcase") /\ Iput(v, {})
    <3>1. pc[v] = "mftbmp" /\ pc'[v] = "unlUpcase"
      BY <2>2, GotoMoves, Zenon
    <3>2. \A f \in SystemFiles : RefCount(v, f)' = RefCount(v, f) - (IF f \in {} THEN 1 ELSE 0)
      BY <3>1 DEF IInv, TypeOK, RefCount, HeldAt, Loading, SystemFiles
    <3> QED
      BY <1>1, <2>2, <3>2, RefsDropped
  <2> QED
    BY <2>1, <2>2, Zenon
<1>3. TypeOK'
  BY <1>2, ZenonT(60) DEF RefsOK, IInv, TypeOK, Goto, Labels, shared
<1>4. TempUsers' = TempUsers /\ CompressionUsers' = CompressionUsers
  BY Zenon DEF IInv, TypeOK, Goto, TempUsers, CompressionUsers, Loading, Sharing
<1>5. UpcaseUsers' = UpcaseUsers
  BY Zenon DEF IInv, TypeOK, Goto, UpcaseUsers, UpcaseFollowsLabel, HasUpcase
<1>6. UpcaseFollowsLabel'
  BY DEF IInv, TypeOK, Goto, UpcaseFollowsLabel, HasUpcase
<1> QED
  BY <1>2, <1>3, <1>4, <1>5, <1>6, AccountingKept, Zenon DEF IInv, RefsOK

(* ReadUpcase preserves the invariant.                                     *)
LEMMA ReadUpcaseStep ==
  ASSUME IInv, NEW v \in Volumes, ReadUpcase(v)
  PROVE  IInv'
<1> USE DEF ReadUpcase
<1>1. OthersKept(v)
  BY Zenon DEF OthersKept, Goto, IInv, TypeOK
<1>2. RefsOK'
  <2>1. CASE Goto(v, "upcase", "upcaseRead") /\ UNCHANGED refs
    <3>1. pc[v] = "upcase" /\ pc'[v] = "upcaseRead"
      BY <2>1, GotoMoves, Zenon
    <3>2. \A f \in SystemFiles : RefCount(v, f)' = RefCount(v, f)
      BY <3>1 DEF IInv, TypeOK, RefCount, HeldAt, Loading, SystemFiles
    <3> QED
      BY <1>1, <2>1, <3>2, RefsKept, Zenon
  <2>2. CASE Goto(v, "upcase", "upcaseFailed") /\ UNCHANGED refs
    <3>1. pc[v] = "upcase" /\ pc'[v] = "upcaseFailed"
      BY <2>2, GotoMoves, Zenon
    <3>2. \A f \in SystemFiles : RefCount(v, f)' = RefCount(v, f)
      BY <3>1 DEF IInv, TypeOK, RefCount, HeldAt, Loading, SystemFiles
    <3> QED
      BY <1>1, <2>2, <3>2, RefsKept, Zenon
  <2> QED
    BY <2>1, <2>2, Zenon
<1>3. TypeOK'
  BY <1>2, ZenonT(60) DEF RefsOK, IInv, TypeOK, Goto, Labels, shared
<1>4. TempUsers' = TempUsers /\ CompressionUsers' = CompressionUsers
  BY DEF IInv, TypeOK, Goto, TempUsers, CompressionUsers, Loading, Sharing
<1>5. UpcaseUsers' = UpcaseUsers
  BY Zenon DEF IInv, TypeOK, Goto, UpcaseUsers, UpcaseFollowsLabel, HasUpcase
<1>6. UpcaseFollowsLabel'
  BY DEF IInv, TypeOK, Goto, UpcaseFollowsLabel, HasUpcase
<1> QED
  BY <1>2, <1>3, <1>4, <1>5, <1>6, AccountingKept, Zenon DEF IInv, RefsOK

(* LoadLcnBitmap preserves the invariant.                                  *)
LEMMA LoadLcnBitmapStep ==
  ASSUME IInv, NEW v \in Volumes, LoadLcnBitmap(v)
  PROVE  IInv'
<1> USE DEF LoadLcnBitmap, LoadFile
<1>1. OthersKept(v)
  BY Zenon DEF OthersKept, Goto, IInv, TypeOK
<1>2. RefsOK'
  <2>1. CASE Goto(v, "lcnbmp", "volume") /\ Iget(v, "lcnbmp")
    <3>1. pc[v] = "lcnbmp" /\ pc'[v] = "volume"
      BY <2>1, GotoMoves, Zenon
    <3>2. \A f \in SystemFiles : RefCount(v, f)' = RefCount(v, f) + (IF f = "lcnbmp" THEN 1 ELSE 0)
      BY <3>1 DEF IInv, TypeOK, RefCount, HeldAt, Loading, SystemFiles
    <3> QED
      BY <1>1, <2>1, <3>2, RefTaken, Zenon DEF SystemFiles
  <2>2. CASE Goto(v, "lcnbmp", "unwindUpcase") /\ Iput(v, {})
    <3>1. pc[v] = "lcnbmp" /\ pc'[v] = "unwindUpcase"
      BY <2>2, GotoMoves, Zenon
    <3>2. \A f \in SystemFiles : RefCount(v, f)' = RefCount(v, f) - (IF f \in {} THEN 1 ELSE 0)
      BY <3>1 DEF IInv, TypeOK, RefCount, HeldAt, Loading, SystemFiles
    <3> QED
      BY <1>1, <2>2, <3>2, RefsDropped
  <2> QED
    BY <2>1, <2>2, Zenon
<1>3. TypeOK'
  BY <1>2, ZenonT(60) DEF RefsOK, IInv, TypeOK, Goto, Labels, shared
<1>4. TempUsers' = TempUsers /\ CompressionUsers' = CompressionUsers
  BY Zenon DEF IInv, TypeOK, Goto, TempUsers, CompressionUsers, Loading, Sharing
<1>5. UpcaseUsers' = UpcaseUsers
  BY Zenon DEF IInv, TypeOK, Goto, UpcaseUsers, UpcaseFollowsLabel, HasUpcase
<1>6. UpcaseFollowsLabel'
  BY Zenon DEF IInv, TypeOK, Goto, UpcaseFollowsLabel, HasUpcase
<1> QED
  BY <1>2, <1>3, <1>4, <1>5, <1>6, AccountingKept, Zenon DEF IInv, RefsOK

(* LoadVolume preserves the invariant.                                     *)
LEMMA LoadVolumeStep ==
  ASSUME IInv, NEW v \in Volumes, LoadVolume(v)
  PROVE  IInv'
<1> USE DEF LoadVolume, LoadFile
<1>1. OthersKept(v)
  BY Zenon DEF OthersKept, Goto, IInv, TypeOK
<1>2. RefsOK'
  <2>1. CASE Goto(v, "volume", "root") /\ Iget(v, "volume")
    <3>1. pc[v] = "volume" /\ pc'[v] = "root"
      BY <2>1, GotoMoves, Zenon
    <3>2. \A f \in SystemFiles : RefCount(v, f)' = RefCount(v, f) + (IF f = "volume" THEN 1 ELSE 0)
      BY <3>1 DEF IInv, TypeOK, RefCount, HeldAt, Loading, SystemFiles
    <3> QED
      BY <1>1, <2>1, <3>2, RefTaken, Zenon DEF SystemFiles
  <2>2. CASE Goto(v, "volume", "unwindUpcase") /\ Iput(v, {"lcnbmp"})
    <3>1. pc[v] = "volume" /\ pc'[v] = "unwindUpcase"
      BY <2>2, GotoMoves, Zenon
    <3>2. \A f \in SystemFiles : RefCount(v, f)' = RefCount(v, f) - (IF f \in {"lcnbmp"} THEN 1 ELSE 0)
      BY <3>1 DEF IInv, TypeOK, RefCount, HeldAt, Loading, SystemFiles
    <3> QED
      BY <1>1, <2>2, <3>2, RefsDropped, Zenon
  <2> QED
    BY <2>1, <2>2, Zenon
<1>3. TypeOK'
  BY <1>2, ZenonT(60) DEF RefsOK, IInv, TypeOK, Goto, Labels, shared
<1>4. TempUsers' = TempUsers /\ CompressionUsers' = CompressionUsers
  BY DEF IInv, TypeOK, Goto, TempUsers, CompressionUsers, Loading, Sharing
<1>5. UpcaseUsers' = UpcaseUsers
  BY Zenon DEF IInv, TypeOK, Goto, UpcaseUsers, UpcaseFollowsLabel, HasUpcase
<1>6. UpcaseFollowsLabel'
  BY DEF IInv, TypeOK, Goto, UpcaseFollowsLabel, HasUpcase
<1> QED
  BY <1>2, <1>3, <1>4, <1>5, <1>6, AccountingKept, Zenon DEF IInv, RefsOK

(* LoadRoot preserves the invariant.                                       *)
LEMMA LoadRootStep ==
  ASSUME IInv, NEW v \in Volumes, LoadRoot(v)
  PROVE  IInv'
<1> USE DEF LoadRoot, LoadFile
<1>1. OthersKept(v)
  BY Zenon DEF OthersKept, Goto, IInv, TypeOK
<1>2. RefsOK'
  <2>1. CASE Goto(v, "root", (IF ntfs3[v] THEN "secure" ELSE "makeRoot")) /\ Iget(v, "root")
    <3>1. pc[v] = "root" /\ pc'[v] = (IF ntfs3[v] THEN "secure" ELSE "makeRoot")
      BY <2>1, GotoMoves, Zenon
    <3>2. \A f \in SystemFiles : RefCount(v, f)' = RefCount(v, f) + (IF f = "root" THEN 1 ELSE 0)
      BY <3>1 DEF IInv, TypeOK, RefCount, HeldAt, Loading, SystemFiles
    <3> QED
      BY <1>1, <2>1, <3>2, RefTaken, Zenon DEF SystemFiles
  <2>2. CASE Goto(v, "root", "unwindUpcase") /\ Iput(v, {"volume", "lcnbmp"})
    <3>1. pc[v] = "root" /\ pc'[v] = "unwindUpcase"
      BY <2>2, GotoMoves, Zenon
    <3>2. \A f \in SystemFiles : RefCount(v, f)' = RefCount(v, f)
               - (IF f \in {"volume", "lcnbmp"} THEN 1 ELSE 0)
      BY <3>1 DEF IInv, TypeOK, RefCount, HeldAt, Loading, SystemFiles
    <3> QED
      BY <1>1, <2>2, <3>2, RefsDropped, Zenon
  <2> QED
    BY <2>1, <2>2, Zenon
<1>3. TypeOK'
  BY <1>2, Zenon DEF RefsOK, IInv, TypeOK, Goto, Labels, shared
<1>4. TempUsers' = TempUsers /\ CompressionUsers' = CompressionUsers
  BY Zenon DEF IInv, TypeOK, Goto, TempUsers, CompressionUsers, Loading, Sharing
<1>5. UpcaseUsers' = UpcaseUsers
  BY Zenon DEF IInv, TypeOK, Goto, UpcaseUsers, UpcaseFollowsLabel, HasUpcase
<1>6. UpcaseFollowsLabel'
  BY DEF IInv, TypeOK, Goto, UpcaseFollowsLabel, HasUpcase
<1> QED
  BY <1>2, <1>3, <1>4, <1>5, <1>6, AccountingKept, Zenon DEF IInv, RefsOK

(* LoadSecure preserves the invariant.                                     *)
LEMMA LoadSecureStep ==
  ASSUME IInv, NEW v \in Volumes, LoadSecure(v)
  PROVE  IInv'
<1> USE DEF LoadSecure, LoadFile
<1>1. OthersKept(v)
  BY Zenon DEF OthersKept, Goto, IInv, TypeOK
<1>2. RefsOK'
  <2>1. CASE Goto(v, "secure", "extend") /\ Iget(v, "secure")
    <3>1. pc[v] = "secure" /\ pc'[v] = "extend"
      BY <2>1, GotoMoves, Zenon
    <3>2. \A f \in SystemFiles : RefCount(v, f)' = RefCount(v, f) + (IF f = "secure" THEN 1 ELSE 0)
      BY <3>1 DEF IInv, TypeOK, UpcaseFollowsLabel, RefCount, HeldAt, Loading, SystemFiles
    <3> QED
      BY <1>1, <2>1, <3>2, RefTaken, Zenon DEF SystemFiles
  <2>2. CASE Goto(v, "secure", "unwindUpcase") /\ Iput(v, {"root", "volume", "lcnbmp"})
    <3>1. pc[v] = "secure" /\ pc'[v] = "unwindUpcase"
      BY <2>2, GotoMoves, Zenon
    <3>2. \A f \in SystemFiles : RefCount(v, f)' = RefCount(v, f)
               - (IF f \in {"root", "volume", "lcnbmp"} THEN 1 ELSE 0)
      BY <3>1 DEF IInv, TypeOK, UpcaseFollowsLabel, RefCount, HeldAt, Loading, SystemFiles
    <3> QED
      BY <1>1, <2>2, <3>2, RefsDropped, Zenon
  <2> QED
    BY <2>1, <2>2, Zenon
<1>3. TypeOK'
  BY <1>2, Zenon DEF RefsOK, IInv, TypeOK, Goto, Labels, shared
<1>4. TempUsers' = TempUsers /\ CompressionUsers' = CompressionUsers
  BY DEF IInv, TypeOK, Goto, TempUsers, CompressionUsers, Loading, Sharing
<1>5. UpcaseUsers' = UpcaseUsers
  BY Zenon DEF IInv, TypeOK, Goto, UpcaseUsers, UpcaseFollowsLabel, HasUpcase
<1>6. UpcaseFollowsLabel'
  BY Zenon DEF IInv, TypeOK, Goto, UpcaseFollowsLabel, HasUpcase
<1> QED
  BY <1>2, <1>3, <1>4, <1>5, <1>6, AccountingKept, Zenon DEF IInv, RefsOK

(* LoadExtend preserves the invariant.                                     *)
LEMMA LoadExtendStep ==
  ASSUME IInv, NEW v \in Volumes, LoadExtend(v)
  PROVE  IInv'
<1> USE DEF LoadExtend, LoadFile
<1>1. OthersKept(v)
  BY Zenon DEF OthersKept, Goto, IInv, TypeOK
<1>2. RefsOK'
  <2>1. CASE Goto(v, "extend", "makeRoot") /\ Iget(v, "extend")
    <3>1. pc[v] = "extend" /\ pc'[v] = "makeRoot"
      BY <2>1, GotoMoves, Zenon
    <3>2. \A f \in SystemFiles : RefCount(v, f)' = RefCount(v, f) + (IF f = "extend" THEN 1 ELSE 0)
      BY <3>1 DEF IInv, TypeOK, UpcaseFollowsLabel, RefCount, HeldAt, Loading, SystemFiles
    <3> QED
      BY <1>1, <2>1, <3>2, RefTaken, Zenon DEF SystemFiles
  <2>2. CASE Goto(v, "extend", "unwindUpcase") /\ Iput(v, {"secure", "root", "volume", "lcnbmp"})
    <3>1. pc[v] = "extend" /\ pc'[v] = "unwindUpcase"
      BY <2>2, GotoMoves, Zenon
    <3>2. \A f \in SystemFiles : RefCount(v, f)' = RefCount(v, f)
               - (IF f \in {"secure", "root", "volume", "lcnbmp"} THEN 1 ELSE 0)
      BY <3>1 DEF IInv, TypeOK, UpcaseFollowsLabel, RefCount, HeldAt, Loading, SystemFiles
    <3> QED
      BY <1>1, <2>2, <3>2, RefsDropped, Zenon
  <2> QED
    BY <2>1, <2>2, Zenon
<1>3. TypeOK'
  BY <1>2, ZenonT(60) DEF RefsOK, IInv, TypeOK, Goto, Labels, shared
<1>4. TempUsers' = TempUsers /\ CompressionUsers' = CompressionUsers
  BY DEF IInv, TypeOK, Goto, TempUsers, CompressionUsers, Loading, Sharing
<1>5. UpcaseUsers' = UpcaseUsers
  BY Zenon DEF IInv, TypeOK, Goto, UpcaseUsers, UpcaseFollowsLabel, HasUpcase
<1>6. UpcaseFollowsLabel'
  BY Zenon DEF IInv, TypeOK, Goto, UpcaseFollowsLabel, HasUpcase
<1> QED
  BY <1>2, <1>3, <1>4, <1>5, <1>6, AccountingKept, Zenon DEF IInv, RefsOK

(* MakeRoot preserves the invariant.                                       *)
LEMMA MakeRootStep ==
  ASSUME IInv, NEW v \in Volumes, MakeRoot(v)
  PROVE  IInv'
<1> USE DEF MakeRoot
<1>1. OthersKept(v)
  BY Zenon DEF OthersKept, Goto, IInv, TypeOK
<1>2. RefsOK'
  <2>1. CASE Goto(v, "makeRoot", "dropUpcase") /\ Iget(v, "root")
    <3>1. pc[v] = "makeRoot" /\ pc'[v] = "dropUpcase"
      BY <2>1, GotoMoves, Zenon
    <3>2. \A f \in SystemFiles : RefCount(v, f)' = RefCount(v, f) + (IF f = "root" THEN 1 ELSE 0)
      BY <3>1 DEF IInv, TypeOK, UpcaseFollowsLabel, RefCount, HeldAt, Loading, SystemFiles
    <3> QED
      BY <1>1, <2>1, <3>2, RefTaken, Zenon DEF SystemFiles
  <2>2. CASE Goto(v, "makeRoot", "unwindRoot") /\ Iput(v, ({"volume", "root", "lcnbmp", "mftbmp"} \cup
                   (IF ntfs3[v] THEN {"secure", "extend"} ELSE {})))
    <3>1. pc[v] = "makeRoot" /\ pc'[v] = "unwindRoot"
      BY <2>2, GotoMoves, Zenon
    <3>2. \A f \in SystemFiles : RefCount(v, f)' = RefCount(v, f)
               - (IF f \in ({"volume", "root", "lcnbmp", "mftbmp"} \cup
              (IF ntfs3[v] THEN {"secure", "extend"} ELSE {})) THEN 1 ELSE 0)
      BY <3>1 DEF IInv, TypeOK, UpcaseFollowsLabel, RefCount, HeldAt, Loading, SystemFiles
    <3> QED
      BY <1>1, <2>2, <3>2, RefsDropped, Zenon
  <2> QED
    BY <2>1, <2>2, Zenon
<1>3. TypeOK'
  BY <1>2, ZenonT(60) DEF RefsOK, IInv, TypeOK, Goto, Labels, shared
<1>4. TempUsers' = TempUsers /\ CompressionUsers' = CompressionUsers
  BY DEF IInv, TypeOK, Goto, TempUsers, CompressionUsers, Loading, Sharing
<1>5. UpcaseUsers' = UpcaseUsers
  BY Zenon DEF IInv, TypeOK, Goto, UpcaseUsers, UpcaseFollowsLabel, HasUpcase
<1>6. UpcaseFollowsLabel'
  BY Zenon DEF IInv, TypeOK, Goto, UpcaseFollowsLabel, HasUpcase
<1> QED
  BY <1>2, <1>3, <1>4, <1>5, <1>6, AccountingKept, Zenon DEF IInv, RefsOK

(* PutSuper preserves the invariant: both references to root are dropped.  *)
LEMMA PutSuperStep ==
  ASSUME IInv, NEW v \in Volumes, PutSuper(v)
  PROVE  IInv'
<1> USE DEF PutSuper
<1>1. OthersKept(v)
  BY Zenon DEF OthersKept, Goto, IInv, TypeOK
<1>2. RefsOK'
  <2>1. pc[v] = "mounted" /\ pc'[v] = "putShared"
    BY GotoMoves, Zenon
  <2>2. /\ refs' \in [Volumes -> [SystemFiles -> Int]]
        /\ \A w \in Volumes \ {v} : refs'[w] = refs[w]
    BY DEF IInv, TypeOK
  <2>3. \A f \in SystemFiles : refs'[v][f] = RefCount(v, f)'
    <3> SUFFICES ASSUME NEW f \in SystemFiles PROVE refs'[v][f] = RefCount(v, f)'
      BY Zenon
    <3>1. refs[v][f] = RefCount(v, f)
      BY Zenon DEF IInv, RefsFollowLabel
    <3>2. refs'[v][f] = (IF f = "root" THEN refs[v][f] - 2
                         ELSE IF f \in {"secure", "extend"} /\ ~ntfs3[v] THEN refs[v][f]
                         ELSE refs[v][f] - 1)
      BY Zenon DEF IInv, TypeOK
    <3> QED
      BY <2>1, <3>1, <3>2 DEF RefCount, HeldAt, Loading, SystemFiles
  <2> QED
    BY <1>1, <2>2, <2>3, RefsOfOthers, Zenon
<1>3. TypeOK'
  BY <1>2, Zenon DEF RefsOK, IInv, TypeOK, Goto, Labels, shared
<1>4. TempUsers' = TempUsers /\ CompressionUsers' = CompressionUsers
  BY Zenon DEF IInv, TypeOK, Goto, TempUsers, CompressionUsers, Loading, Sharing
<1>5. UpcaseUsers' = UpcaseUsers
  BY Zenon DEF IInv, TypeOK, Goto, UpcaseUsers, UpcaseFollowsLabel, HasUpcase
<1>6. UpcaseFollowsLabel'
  BY Zenon DEF IInv, TypeOK, Goto, UpcaseFollowsLabel, HasUpcase
<1> QED
  BY <1>2, <1>3, <1>4, <1>5, <1>6, AccountingKept, Zenon DEF IInv, RefsOK

-----------------------------------------------------------------------------
(* The critical sections of ntfs_lock *)

(* What the invariant says of the two shared resources.                    *)
UpcaseOK ==
  /\ defaultUpcase \in BOOLEAN /\ nrUpcaseUsers \in Nat
  /\ UpcaseAccounting /\ NoDanglingUpcase /\ DefaultUpcaseHasUser
CompressionOK ==
  /\ compressionBuffer \in BOOLEAN /\ nrCompressionUsers \in Nat
  /\ CompressionAccounting

(* The rest of the type invariant, about the volumes' own variables.       *)
LocalOK ==
  /\ pc \in [Volumes -> Labels]
  /\ upcase \in [Volumes -> {"none", "own", "default"}]
  /\ small \in [Volumes -> BOOLEAN]
  /\ ntfs3 \in [Volumes -> BOOLEAN]
  /\ nls \in [Volumes -> BOOLEAN]

(* The parts make up the invariant.                                        *)
LEMMA Parts ==
  ASSUME UpcaseOK', CompressionOK', LocalOK', RefsOK', UpcaseFollowsLabel'
  PROVE  IInv'
  BY Zenon DEF UpcaseOK, CompressionOK, LocalOK, RefsOK, IInv, TypeOK

(* The compression counters after a step that keeps their users.           *)
LEMMA CompressionKept ==
  ASSUME IInv, UNCHANGED <<compressionBuffer, nrCompressionUsers>>,
         CompressionUsers' = CompressionUsers
  PROVE  CompressionOK'
  BY Zenon DEF IInv, TypeOK, CompressionAccounting, CompressionOK

(* The compression counters after v, which had small clusters, left.       *)
LEMMA CompressionLeft ==
  ASSUME IInv, NEW v \in Volumes, pc[v] \in Sharing,
         nrCompressionUsers' = nrCompressionUsers - (IF small[v] THEN 1 ELSE 0),
         compressionBuffer' = (compressionBuffer /\ ~(small[v] /\ nrCompressionUsers' = 0)),
         CompressionUsers' = CompressionUsers \ {v}
  PROVE  CompressionOK'
<1>1. /\ nrCompressionUsers = Cardinality(CompressionUsers)
      /\ compressionBuffer <=> (CompressionUsers # {})
      /\ compressionBuffer \in BOOLEAN /\ small[v] \in BOOLEAN
      /\ nrCompressionUsers \in Nat
  BY Zenon DEF IInv, TypeOK, CompressionAccounting
<1>2. CASE small[v]
  <2>1. v \in CompressionUsers
    BY <1>2, Zenon DEF CompressionUsers
  <2>2. /\ Cardinality(CompressionUsers') = Cardinality(CompressionUsers) - 1
        /\ Cardinality(CompressionUsers) >= 1
        /\ Cardinality(CompressionUsers) = 1 <=> CompressionUsers' = {}
    BY <2>1, UsersFinite, OneLess, ZenonT(60)
  <2>3. nrCompressionUsers' = Cardinality(CompressionUsers') /\ nrCompressionUsers' \in Nat
    BY <1>1, <1>2, <2>2
  <2>4. compressionBuffer /\ (nrCompressionUsers' = 0 <=> CompressionUsers' = {})
    BY <1>1, <2>1, <2>2, <2>3
  <2> QED
    BY <1>2, <2>3, <2>4, Zenon DEF CompressionAccounting, CompressionOK
<1>3. CASE ~small[v]
  <2>1. CompressionUsers' = CompressionUsers
    BY <1>3, Zenon DEF CompressionUsers
  <2>2. nrCompressionUsers' = nrCompressionUsers
    BY <1>1, <1>3
  <2>3. compressionBuffer' = compressionBuffer
    BY <1>1, <1>3, Zenon
  <2> QED
    BY <1>1, <2>1, <2>2, <2>3 DEF CompressionAccounting, CompressionOK
<1> QED
  BY <1>2, <1>3, Zenon

(* The upcase counters after the temporary use by v ended.                 *)
LEMMA TempLeft ==
  ASSUME IInv, NEW v \in Volumes, pc[v] \in Loading,
         TempUsers' = TempUsers \ {v}, UpcaseUsers' = UpcaseUsers,
         nrUpcaseUsers' = nrUpcaseUsers - 1,
         defaultUpcase' = (defaultUpcase /\ nrUpcaseUsers' # 0)
  PROVE  UpcaseOK'
<1>1. v \in TempUsers
  BY Zenon DEF TempUsers
<1>2. /\ Cardinality(TempUsers') = Cardinality(TempUsers) - 1
      /\ Cardinality(TempUsers) >= 1
  BY <1>1, UsersFinite, OneLess, Zenon
<1>3. /\ nrUpcaseUsers' = Cardinality(TempUsers') + Cardinality(UpcaseUsers')
      /\ nrUpcaseUsers' \in Nat
  BY <1>2, UsersFinite DEF IInv, UpcaseAccounting
<1>4. UpcaseUsers' # {} => nrUpcaseUsers' # 0
  BY <1>2, <1>3, UsersFinite, FS_EmptySet
<1> QED
  BY <1>3, <1>4, Zenon DEF IInv, TypeOK, UpcaseOK, UpcaseAccounting, NoDanglingUpcase, DefaultUpcaseHasUser

(* vol->upcase is given back: the comparison of pointers finds a counted   *)
(* use exactly when there is one, because vol->upcase is not NULL there.   *)
LEMMA UseLeft ==
  ASSUME IInv, NEW v \in Volumes, pc[v] \in HasUpcase, DropVolumeUpcase(v),
         TempUsers' = TempUsers
  PROVE  /\ UpcaseUsers' = UpcaseUsers \ {v}
         /\ nrUpcaseUsers' \in Nat
         /\ UpcaseAccounting'
<1>1. UpcaseUsers' = UpcaseUsers \ {v}
  BY Zenon DEF DropVolumeUpcase, UpcaseUsers, IInv, TypeOK
<1>2. upcase[v] # "none"
  BY Zenon DEF IInv, UpcaseFollowsLabel
<1>3. CASE upcase[v] = "default"
  <2>1. v \in UpcaseUsers
    BY <1>3, Zenon DEF UpcaseUsers
  <2>2. defaultUpcase
    BY <2>1, Zenon DEF IInv, NoDanglingUpcase
  <2>3. nrUpcaseUsers' = nrUpcaseUsers - 1
    BY <1>3, <2>2, Zenon DEF DropVolumeUpcase
  <2>4. /\ Cardinality(UpcaseUsers') = Cardinality(UpcaseUsers) - 1
        /\ Cardinality(UpcaseUsers) >= 1
    BY <1>1, <2>1, UsersFinite, OneLess, Zenon
  <2> QED
    BY <1>1, <2>3, <2>4, UsersFinite DEF IInv, UpcaseAccounting
<1>4. CASE upcase[v] # "default"
  <2>1. UpcaseUsers' = UpcaseUsers
    BY <1>1, <1>4, Zenon DEF UpcaseUsers
  <2>2. nrUpcaseUsers' = nrUpcaseUsers
    BY <1>2, <1>4 DEF DropVolumeUpcase, IInv, TypeOK
  <2> QED
    BY <1>1, <2>1, <2>2, ZenonT(60) DEF IInv, TypeOK, UpcaseAccounting
<1> QED
  BY <1>3, <1>4, Zenon

(* On the error paths v remains a temporary user, so the table stays.      *)
LEMMA UseLeftLoading ==
  ASSUME IInv, NEW v \in Volumes, pc[v] \in HasUpcase \cap Loading, DropVolumeUpcase(v),
         TempUsers' = TempUsers, UNCHANGED defaultUpcase
  PROVE  UpcaseOK'
<1>1. UpcaseUsers' = UpcaseUsers \ {v} /\ nrUpcaseUsers' \in Nat /\ UpcaseAccounting'
  BY UseLeft, Zenon
<1>2. TempUsers # {}
  BY Zenon DEF TempUsers
<1>3. Cardinality(TempUsers) # 0
  BY <1>2, UsersFinite, FS_EmptySet, Zenon
<1>4. Cardinality(UpcaseUsers') \in Nat
  BY <1>1, UsersFinite, FS_RemoveElement, FS_CardinalityType, FS_Subset, Zenon
<1>5. nrUpcaseUsers' # 0
  BY <1>1, <1>3, <1>4, UsersFinite DEF UpcaseAccounting
<1> QED
  BY <1>1, <1>5, Zenon DEF IInv, TypeOK, UpcaseOK, NoDanglingUpcase, DefaultUpcaseHasUser

(* v starts to use the default table.                                      *)
LEMMA UseTaken ==
  ASSUME IInv, NEW v \in Volumes, upcase[v] # "default", UseDefaultUpcase(v),
         TempUsers' = TempUsers, UNCHANGED defaultUpcase
  PROVE  UpcaseOK'
<1>1. UpcaseUsers' = UpcaseUsers \cup {v} /\ v \notin UpcaseUsers
  BY Zenon DEF UseDefaultUpcase, UpcaseUsers, IInv, TypeOK
<1>2. Cardinality(UpcaseUsers') = Cardinality(UpcaseUsers) + 1
  BY <1>1, UsersFinite, OneMore, Zenon
<1>3. nrUpcaseUsers' = Cardinality(TempUsers') + Cardinality(UpcaseUsers')
      /\ nrUpcaseUsers' \in Nat /\ nrUpcaseUsers' # 0
  BY <1>2, UsersFinite DEF UseDefaultUpcase, IInv, TypeOK, UpcaseAccounting
<1> QED
  BY <1>3, Zenon DEF UseDefaultUpcase, IInv, TypeOK, UpcaseOK, UpcaseAccounting,
     NoDanglingUpcase, DefaultUpcaseHasUser

(* ShareTables preserves the invariant.                                    *)
LEMMA ShareTablesStep ==
  ASSUME IInv, NEW v \in Volumes, ShareTables(v)
  PROVE  IInv'
<1> USE DEF ShareTables
<1>1. OthersKept(v)
  BY Zenon DEF OthersKept, Goto, IInv, TypeOK
<1>2. RefsOK'
  <2>1. CASE Goto(v, "share", "mftbmp") /\ UNCHANGED refs
    <3>1. pc[v] = "share" /\ pc'[v] = "mftbmp"
      BY <2>1, GotoMoves, Zenon
    <3>2. \A f \in SystemFiles : RefCount(v, f)' = RefCount(v, f)
      BY <3>1 DEF IInv, TypeOK, RefCount, HeldAt, Loading, SystemFiles
    <3> QED
      BY <1>1, <2>1, <3>2, RefsKept, Zenon
  <2>2. CASE Goto(v, "share", "idle") /\ Iput(v, {"mft"})
    <3>1. pc[v] = "share" /\ pc'[v] = "idle"
      BY <2>2, GotoMoves, Zenon
    <3>2. \A f \in SystemFiles : RefCount(v, f)' = RefCount(v, f) - (IF f \in {"mft"} THEN 1 ELSE 0)
      BY <3>1 DEF IInv, TypeOK, RefCount, HeldAt, Loading, SystemFiles
    <3> QED
      BY <1>1, <2>2, <3>2, RefsDropped, Zenon
  <2> QED
    BY <2>1, <2>2, Zenon
<1>3. LocalOK'
  BY ZenonT(60) DEF LocalOK, IInv, TypeOK, Goto, Labels, shared
<1>4. UpcaseFollowsLabel'
  BY ZenonT(60) DEF IInv, TypeOK, Goto, UpcaseFollowsLabel, HasUpcase
<1>5. UpcaseUsers' = UpcaseUsers
  BY Zenon DEF UpcaseUsers
<1>6. CASE Goto(v, "share", "idle")
  <2>1. TempUsers' = TempUsers /\ CompressionUsers' = CompressionUsers /\ UNCHANGED shared
    BY <1>6, ZenonT(60) DEF IInv, TypeOK, Goto, TempUsers, CompressionUsers, Loading, Sharing
  <2>2. UpcaseOK' /\ CompressionOK'
    BY <1>5, <2>1, AccountingKept, Zenon DEF UpcaseOK, CompressionOK, IInv, TypeOK, shared
  <2> QED
    BY <1>2, <1>3, <1>4, <2>2, Parts, Zenon
<1>7. CASE Goto(v, "share", "mftbmp")
  <2>1. /\ TempUsers' = TempUsers \cup {v} /\ v \notin TempUsers
        /\ v \notin CompressionUsers
        /\ CompressionUsers' = IF small[v] THEN CompressionUsers \cup {v} ELSE CompressionUsers
    BY <1>7 DEF IInv, TypeOK, Goto, TempUsers, CompressionUsers, Loading, Sharing
  <2>2. /\ nrUpcaseUsers' = nrUpcaseUsers + 1
        /\ defaultUpcase' \in {TRUE, defaultUpcase}
        /\ nrCompressionUsers' = nrCompressionUsers + (IF small[v] THEN 1 ELSE 0)
        /\ compressionBuffer' = (compressionBuffer \/ (small[v] /\ nrCompressionUsers = 0))
    <3>1. ~Goto(v, "share", "idle")
      BY <1>7, Zenon DEF Goto, IInv, TypeOK
    <3> QED
      BY <3>1, Zenon
  <2>3. UpcaseOK'
    <3>1. Cardinality(TempUsers') = Cardinality(TempUsers) + 1
      BY <2>1, UsersFinite, OneMore, Zenon
    <3>2. /\ nrUpcaseUsers' = Cardinality(TempUsers') + Cardinality(UpcaseUsers')
          /\ nrUpcaseUsers' \in Nat /\ nrUpcaseUsers' # 0
      BY <1>5, <2>2, <3>1, UsersFinite DEF IInv, UpcaseAccounting
    <3> QED
      BY <1>5, <2>2, <3>2, ZenonT(60) DEF IInv, TypeOK, UpcaseOK, UpcaseAccounting,
         NoDanglingUpcase, DefaultUpcaseHasUser
  <2>4. CompressionOK'
    <3>1. /\ nrCompressionUsers = Cardinality(CompressionUsers)
          /\ nrCompressionUsers \in Nat
          /\ compressionBuffer <=> (CompressionUsers # {})
          /\ nrCompressionUsers = 0 <=> CompressionUsers = {}
          /\ compressionBuffer \in BOOLEAN /\ small[v] \in BOOLEAN
      BY UsersFinite, FS_EmptySet, Zenon DEF IInv, TypeOK, CompressionAccounting
    <3>2. CASE small[v]
      <4>1. Cardinality(CompressionUsers') = Cardinality(CompressionUsers) + 1
            /\ CompressionUsers' # {}
        BY <2>1, <3>2, UsersFinite, OneMore, Zenon
      <4>2. nrCompressionUsers' = Cardinality(CompressionUsers') /\ nrCompressionUsers' \in Nat
        BY <2>2, <3>1, <3>2, <4>1
      <4>3. compressionBuffer' = TRUE
        BY <2>2, <3>1, <3>2, ZenonT(60)
      <4> QED
        BY <4>1, <4>2, <4>3, Zenon DEF CompressionOK, CompressionAccounting
    <3>3. CASE ~small[v]
      BY <2>1, <2>2, <3>1, <3>3 DEF CompressionOK, CompressionAccounting
    <3> QED
      BY <3>2, <3>3, Zenon
  <2> QED
    BY <1>2, <1>3, <1>4, <2>3, <2>4, Parts, Zenon
<1> QED
  BY <1>6, <1>7, Zenon

(* DropTempUpcase preserves the invariant.                                 *)
LEMMA DropTempUpcaseStep ==
  ASSUME IInv, NEW v \in Volumes, DropTempUpcase(v)
  PROVE  IInv'
<1> USE DEF DropTempUpcase
<1>1. OthersKept(v)
  BY Zenon DEF OthersKept, Goto, IInv, TypeOK
<1>2. RefsOK'
  <2>1. CASE Goto(v, "dropUpcase", "mounted") /\ UNCHANGED refs
    <3>1. pc[v] = "dropUpcase" /\ pc'[v] = "mounted"
      BY <2>1, GotoMoves, Zenon
    <3>2. \A f \in SystemFiles : RefCount(v, f)' = RefCount(v, f)
      BY <3>1 DEF IInv, TypeOK, RefCount, HeldAt, Loading, SystemFiles
    <3> QED
      BY <1>1, <2>1, <3>2, RefsKept, Zenon
  <2> QED
    BY <2>1, Zenon
<1>3. LocalOK'
  BY Zenon DEF LocalOK, IInv, TypeOK, Goto, Labels, shared
<1>4. UpcaseFollowsLabel'
  BY Zenon DEF IInv, TypeOK, Goto, UpcaseFollowsLabel, HasUpcase, NoDanglingUpcase, UpcaseUsers
<1>5. pc[v] = "dropUpcase"
  BY GotoMoves, Zenon
<1>6. /\ TempUsers' = TempUsers \ {v}
      /\ CompressionUsers' = CompressionUsers
  BY Zenon DEF IInv, TypeOK, Goto, TempUsers, CompressionUsers, Loading, Sharing
<1>7. UpcaseOK'
  <2>1. UpcaseUsers' = UpcaseUsers
    BY Zenon DEF UpcaseUsers
  <2> QED
    BY <1>5, <1>6, <2>1, TempLeft, Zenon DEF Loading
<1>8. CompressionOK'
  BY <1>6, CompressionKept, Zenon
<1> QED
  BY <1>2, <1>3, <1>4, <1>7, <1>8, Parts, Zenon

(* UnlUpcase preserves the invariant.                                      *)
LEMMA UnlUpcaseStep ==
  ASSUME IInv, NEW v \in Volumes, UnlUpcase(v)
  PROVE  IInv'
<1> USE DEF UnlUpcase
<1>1. OthersKept(v)
  BY Zenon DEF OthersKept, Goto, IInv, TypeOK
<1>2. RefsOK'
  <2>1. CASE Goto(v, "unlUpcase", "idle") /\ Iput(v, {"mft"})
    <3>1. pc[v] = "unlUpcase" /\ pc'[v] = "idle"
      BY <2>1, GotoMoves, Zenon
    <3>2. \A f \in SystemFiles : RefCount(v, f)' = RefCount(v, f) - (IF f \in {"mft"} THEN 1 ELSE 0)
      BY <3>1 DEF IInv, TypeOK, RefCount, HeldAt, Loading, SystemFiles
    <3> QED
      BY <1>1, <2>1, <3>2, RefsDropped, Zenon
  <2> QED
    BY <2>1, Zenon
<1>3. LocalOK'
  BY Zenon DEF LocalOK, IInv, TypeOK, Goto, Labels, shared
<1>4. UpcaseFollowsLabel'
  BY Zenon DEF IInv, TypeOK, Goto, UpcaseFollowsLabel, HasUpcase, NoDanglingUpcase, UpcaseUsers
<1>5. pc[v] = "unlUpcase"
  BY GotoMoves, Zenon
<1>6. /\ TempUsers' = TempUsers \ {v}
      /\ CompressionUsers' = CompressionUsers \ {v}
  BY Zenon DEF IInv, TypeOK, Goto, TempUsers, CompressionUsers, Loading, Sharing
<1>7. UpcaseOK'
  <2>1. UpcaseUsers' = UpcaseUsers
    BY Zenon DEF UpcaseUsers
  <2> QED
    BY <1>5, <1>6, <2>1, TempLeft, Zenon DEF Loading
<1>8. CompressionOK'
  BY <1>5, <1>6, CompressionLeft, Zenon DEF Sharing, Loading
<1> QED
  BY <1>2, <1>3, <1>4, <1>7, <1>8, Parts, Zenon

(* UnwindRoot preserves the invariant.                                     *)
LEMMA UnwindRootStep ==
  ASSUME IInv, NEW v \in Volumes, UnwindRoot(v)
  PROVE  IInv'
<1> USE DEF UnwindRoot
<1>1. OthersKept(v)
  BY Zenon DEF OthersKept, Goto, IInv, TypeOK
<1>2. RefsOK'
  <2>1. CASE Goto(v, "unwindRoot", "unlUpcase") /\ UNCHANGED refs
    <3>1. pc[v] = "unwindRoot" /\ pc'[v] = "unlUpcase"
      BY <2>1, GotoMoves, Zenon
    <3>2. \A f \in SystemFiles : RefCount(v, f)' = RefCount(v, f)
      BY <3>1 DEF IInv, TypeOK, RefCount, HeldAt, Loading, SystemFiles
    <3> QED
      BY <1>1, <2>1, <3>2, RefsKept, Zenon
  <2> QED
    BY <2>1, Zenon
<1>3. LocalOK'
  BY Zenon DEF LocalOK, IInv, TypeOK, Goto, DropVolumeUpcase, Labels, shared
<1>4. UpcaseFollowsLabel'
  BY Zenon DEF IInv, TypeOK, Goto, DropVolumeUpcase, UpcaseFollowsLabel, HasUpcase, NoDanglingUpcase, UpcaseUsers
<1>5. pc[v] = "unwindRoot"
  BY GotoMoves, Zenon
<1>6. /\ TempUsers' = TempUsers
      /\ CompressionUsers' = CompressionUsers
  BY Zenon DEF IInv, TypeOK, Goto, TempUsers, CompressionUsers, Loading, Sharing
<1>7. UpcaseOK'
  BY <1>5, <1>6, UseLeftLoading, Zenon DEF Loading, HasUpcase
<1>8. CompressionOK'
  BY <1>6, CompressionKept, Zenon
<1> QED
  BY <1>2, <1>3, <1>4, <1>7, <1>8, Parts, Zenon

(* UnwindUpcase preserves the invariant.                                   *)
LEMMA UnwindUpcaseStep ==
  ASSUME IInv, NEW v \in Volumes, UnwindUpcase(v)
  PROVE  IInv'
<1> USE DEF UnwindUpcase
<1>1. OthersKept(v)
  BY Zenon DEF OthersKept, Goto, IInv, TypeOK
<1>2. RefsOK'
  <2>1. CASE Goto(v, "unwindUpcase", "unlUpcase") /\ Iput(v, {"mftbmp"})
    <3>1. pc[v] = "unwindUpcase" /\ pc'[v] = "unlUpcase"
      BY <2>1, GotoMoves, Zenon
    <3>2. \A f \in SystemFiles : RefCount(v, f)' = RefCount(v, f) - (IF f \in {"mftbmp"} THEN 1 ELSE 0)
      BY <3>1 DEF IInv, TypeOK, RefCount, HeldAt, Loading, SystemFiles
    <3> QED
      BY <1>1, <2>1, <3>2, RefsDropped, Zenon
  <2> QED
    BY <2>1, Zenon
<1>3. LocalOK'
  BY Zenon DEF LocalOK, IInv, TypeOK, Goto, DropVolumeUpcase, Labels, shared
<1>4. UpcaseFollowsLabel'
  BY Zenon DEF IInv, TypeOK, Goto, DropVolumeUpcase, UpcaseFollowsLabel, HasUpcase, NoDanglingUpcase, UpcaseUsers
<1>5. pc[v] = "unwindUpcase"
  BY GotoMoves, Zenon
<1>6. /\ TempUsers' = TempUsers
      /\ CompressionUsers' = CompressionUsers
  BY Zenon DEF IInv, TypeOK, Goto, TempUsers, CompressionUsers, Loading, Sharing
<1>7. UpcaseOK'
  BY <1>5, <1>6, UseLeftLoading, Zenon DEF Loading, HasUpcase
<1>8. CompressionOK'
  BY <1>6, CompressionKept, Zenon
<1> QED
  BY <1>2, <1>3, <1>4, <1>7, <1>8, Parts, Zenon

(* MatchUpcase preserves the invariant.                                    *)
LEMMA MatchUpcaseStep ==
  ASSUME IInv, NEW v \in Volumes, MatchUpcase(v)
  PROVE  IInv'
<1> USE DEF MatchUpcase
<1>1. OthersKept(v)
  BY Zenon DEF OthersKept, Goto, IInv, TypeOK
<1>2. RefsOK'
  <2>1. CASE Goto(v, "upcaseRead", "lcnbmp") /\ UNCHANGED refs
    <3>1. pc[v] = "upcaseRead" /\ pc'[v] = "lcnbmp"
      BY <2>1, GotoMoves, Zenon
    <3>2. \A f \in SystemFiles : RefCount(v, f)' = RefCount(v, f)
      BY <3>1 DEF IInv, TypeOK, RefCount, HeldAt, Loading, SystemFiles
    <3> QED
      BY <1>1, <2>1, <3>2, RefsKept, Zenon
  <2> QED
    BY <2>1, Zenon
<1>3. LocalOK'
  BY Zenon DEF LocalOK, IInv, TypeOK, Goto, UseDefaultUpcase, Labels, shared
<1>4. UpcaseFollowsLabel'
  BY Zenon DEF IInv, TypeOK, Goto, UseDefaultUpcase, UpcaseFollowsLabel, HasUpcase, NoDanglingUpcase, UpcaseUsers
<1>5. pc[v] = "upcaseRead"
  BY GotoMoves, Zenon
<1>6. /\ TempUsers' = TempUsers
      /\ CompressionUsers' = CompressionUsers
  BY Zenon DEF IInv, TypeOK, Goto, TempUsers, CompressionUsers, Loading, Sharing
<1>7. UpcaseOK'
  <2>1. CASE UseDefaultUpcase(v)
    <3>1. upcase[v] # "default"
      BY <1>5, Zenon DEF IInv, UpcaseFollowsLabel, HasUpcase
    <3> QED
      BY <1>6, <2>1, <3>1, UseTaken, Zenon
  <2>2. CASE UNCHANGED <<upcase, nrUpcaseUsers>>
    BY <1>6, <2>2, Zenon DEF UpcaseOK, IInv, TypeOK, UpcaseUsers, UpcaseAccounting,
       NoDanglingUpcase, DefaultUpcaseHasUser
  <2> QED
    BY <2>1, <2>2, Zenon
<1>8. CompressionOK'
  BY <1>6, CompressionKept, Zenon
<1> QED
  BY <1>2, <1>3, <1>4, <1>7, <1>8, Parts, Zenon

(* FallbackUpcase preserves the invariant.                                 *)
LEMMA FallbackUpcaseStep ==
  ASSUME IInv, NEW v \in Volumes, FallbackUpcase(v)
  PROVE  IInv'
<1> USE DEF FallbackUpcase
<1>1. OthersKept(v)
  BY Zenon DEF OthersKept, Goto, IInv, TypeOK
<1>2. RefsOK'
  <2>1. CASE Goto(v, "upcaseFailed", "lcnbmp") /\ UNCHANGED refs
    <3>1. pc[v] = "upcaseFailed" /\ pc'[v] = "lcnbmp"
      BY <2>1, GotoMoves, Zenon
    <3>2. \A f \in SystemFiles : RefCount(v, f)' = RefCount(v, f)
      BY <3>1 DEF IInv, TypeOK, RefCount, HeldAt, Loading, SystemFiles
    <3> QED
      BY <1>1, <2>1, <3>2, RefsKept, Zenon
  <2>2. CASE Goto(v, "upcaseFailed", "unlUpcase") /\ Iput(v, {"mftbmp"})
    <3>1. pc[v] = "upcaseFailed" /\ pc'[v] = "unlUpcase"
      BY <2>2, GotoMoves, Zenon
    <3>2. \A f \in SystemFiles : RefCount(v, f)' = RefCount(v, f) - (IF f \in {"mftbmp"} THEN 1 ELSE 0)
      BY <3>1 DEF IInv, TypeOK, RefCount, HeldAt, Loading, SystemFiles
    <3> QED
      BY <1>1, <2>2, <3>2, RefsDropped, Zenon
  <2> QED
    BY <2>1, <2>2, Zenon
<1>3. LocalOK'
  BY ZenonT(60) DEF LocalOK, IInv, TypeOK, Goto, UseDefaultUpcase, Labels, shared
<1>4. UpcaseFollowsLabel'
  BY DEF IInv, TypeOK, Goto, UseDefaultUpcase, UpcaseFollowsLabel, HasUpcase, NoDanglingUpcase, UpcaseUsers
<1>5. pc[v] = "upcaseFailed"
  BY GotoMoves, Zenon
<1>6. /\ TempUsers' = TempUsers
      /\ CompressionUsers' = CompressionUsers
  BY DEF IInv, TypeOK, Goto, TempUsers, CompressionUsers, Loading, Sharing
<1>7. UpcaseOK'
  <2>1. CASE UseDefaultUpcase(v)
    <3>1. upcase[v] # "default"
      BY <1>5, Zenon DEF IInv, UpcaseFollowsLabel, HasUpcase
    <3> QED
      BY <1>6, <2>1, <3>1, UseTaken, Zenon
  <2>2. CASE UNCHANGED <<upcase, nrUpcaseUsers>>
    BY <1>6, <2>2, Zenon DEF UpcaseOK, IInv, TypeOK, UpcaseUsers, UpcaseAccounting,
       NoDanglingUpcase, DefaultUpcaseHasUser
  <2> QED
    BY <2>1, <2>2, Zenon
<1>8. CompressionOK'
  BY <1>6, CompressionKept, Zenon
<1> QED
  BY <1>2, <1>3, <1>4, <1>7, <1>8, Parts, Zenon

(* PutShared preserves the invariant.                                      *)
LEMMA PutSharedStep ==
  ASSUME IInv, NEW v \in Volumes, PutShared(v)
  PROVE  IInv'
<1> USE DEF PutShared
<1>1. OthersKept(v)
  BY Zenon DEF OthersKept, Goto, IInv, TypeOK
<1>2. RefsOK'
  <2>1. CASE Goto(v, "putShared", "idle") /\ UNCHANGED refs
    <3>1. pc[v] = "putShared" /\ pc'[v] = "idle"
      BY <2>1, GotoMoves, Zenon
    <3>2. \A f \in SystemFiles : RefCount(v, f)' = RefCount(v, f)
      BY <3>1, Zenon DEF IInv, TypeOK, RefCount, HeldAt, Loading, SystemFiles
    <3> QED
      BY <1>1, <2>1, <3>2, RefsKept, Zenon
  <2> QED
    BY <2>1, Zenon
<1>3. LocalOK'
  BY Zenon DEF LocalOK, IInv, TypeOK, Goto, DropVolumeUpcase, Labels, shared
<1>4. UpcaseFollowsLabel'
  BY Zenon DEF IInv, TypeOK, Goto, DropVolumeUpcase, UpcaseFollowsLabel, HasUpcase, NoDanglingUpcase, UpcaseUsers
<1>5. pc[v] = "putShared"
  BY GotoMoves, Zenon
<1>6. /\ TempUsers' = TempUsers
      /\ CompressionUsers' = CompressionUsers \ {v}
  BY Zenon DEF IInv, TypeOK, Goto, TempUsers, CompressionUsers, Loading, Sharing
<1>7. UpcaseOK'
  <2>1. UpcaseUsers' = UpcaseUsers \ {v} /\ nrUpcaseUsers' \in Nat /\ UpcaseAccounting'
    BY <1>5, <1>6, UseLeft, Zenon DEF HasUpcase
  <2>2. IsFiniteSet(UpcaseUsers')
    BY <2>1, UsersFinite, FS_RemoveElement, FS_Subset, Zenon
  <2>3. UpcaseUsers' # {} => Cardinality(UpcaseUsers') # 0 /\ Cardinality(UpcaseUsers') \in Nat
    BY <2>2, FS_EmptySet, FS_CardinalityType, Zenon
  <2>4. UpcaseUsers' # {} => nrUpcaseUsers' # 0
    BY <1>6, <2>1, <2>3, UsersFinite DEF UpcaseAccounting
  <2> QED
    BY <2>1, <2>4, ZenonT(60) DEF IInv, TypeOK, UpcaseOK, NoDanglingUpcase, DefaultUpcaseHasUser
<1>8. CompressionOK'
  BY <1>5, <1>6, CompressionLeft, Zenon DEF Sharing
<1> QED
  BY <1>2, <1>3, <1>4, <1>7, <1>8, Parts, Zenon

-----------------------------------------------------------------------------
(* No step touches the invariant of a stuttering state.                    *)
LEMMA Stutter == IInv /\ UNCHANGED vars => IInv'
<1> SUFFICES ASSUME IInv, UNCHANGED vars PROVE IInv'
  BY Zenon
<1>1. TempUsers' = TempUsers /\ UpcaseUsers' = UpcaseUsers /\ CompressionUsers' = CompressionUsers
  BY Zenon DEF vars, shared, TempUsers, UpcaseUsers, CompressionUsers
<1>2. TypeOK' /\ UpcaseFollowsLabel'
  BY Zenon DEF vars, shared, IInv, TypeOK, UpcaseFollowsLabel
<1>3. RefsFollowLabel'
  BY Zenon DEF vars, IInv, RefsFollowLabel, RefCount
<1> QED
  BY <1>1, <1>2, <1>3, AccountingKept, Zenon DEF vars, shared, IInv

(* Every step of ntfs_fill_super() and ntfs_put_super() preserves IInv.    *)
LEMMA NextIInv == IInv /\ [Next]_vars => IInv'
<1> SUFFICES ASSUME IInv, [Next]_vars PROVE IInv'
  BY Zenon
<1>1. CASE UNCHANGED vars
  BY <1>1, Stutter, Zenon
<1>2. ASSUME NEW v \in Volumes, FillSuper(v) \/ Mounting(v) \/ PutSuper(v) \/ PutShared(v)
      PROVE  IInv'
  BY <1>2, FillSuperStep, ParseOptionsStep, ReadBootSectorStep, ReadInodeMountStep,
     ShareTablesStep, LoadMftBitmapStep, ReadUpcaseStep, MatchUpcaseStep,
     FallbackUpcaseStep, LoadLcnBitmapStep, LoadVolumeStep, LoadRootStep,
     LoadSecureStep, LoadExtendStep, MakeRootStep, DropTempUpcaseStep,
     UnwindRootStep, UnwindUpcaseStep, UnlUpcaseStep, PutSuperStep,
     PutSharedStep, Zenon DEF Mounting
<1> QED
  BY <1>1, <1>2, Zenon DEF Next

(* The invariant holds for any number of volumes mounted and unmounted     *)
(* concurrently, with failures wherever ntfs_fill_super() can fail.        *)
THEOREM InductiveInvariant == Spec => []IInv
  BY InitIInv, NextIInv, PTL DEF Spec

(* Every variable keeps its type; the counters never become negative.      *)
THEOREM TypeCorrect == Spec => []TypeOK
<1>1. IInv => TypeOK
  BY Zenon DEF IInv
<1> QED
  BY <1>1, InductiveInvariant, PTL

(* The user counter of the default upcase table is exact, and the table is *)
(* never freed while a volume uses it nor kept without a user.             *)
THEOREM UpcaseSafe == Spec => [](UpcaseAccounting /\ NoDanglingUpcase /\ DefaultUpcaseHasUser)
<1>1. IInv => UpcaseAccounting /\ NoDanglingUpcase /\ DefaultUpcaseHasUser
  BY Zenon DEF IInv
<1> QED
  BY <1>1, InductiveInvariant, PTL

(* The decompression buffer is there exactly while a volume with small     *)
(* clusters is counted as its user.                                        *)
THEOREM CompressionSafe == Spec => []CompressionAccounting
<1>1. IInv => CompressionAccounting
  BY Zenon DEF IInv
<1> QED
  BY <1>1, InductiveInvariant, PTL

(* Every failed mount and every unmount drops exactly the inode references *)
(* that were taken.                                                        *)
THEOREM ReferencesBalanced == Spec => []SystemFilesBalanced
<1>1. IInv => SystemFilesBalanced
  <2> SUFFICES ASSUME IInv, NEW v \in Volumes
               PROVE  /\ pc[v] = "idle" => refs[v] = NoRefs /\ upcase[v] = "none"
                      /\ pc[v] = "mounted" => refs[v] = FilesOf(v) /\ upcase[v] # "none"
    BY Zenon DEF SystemFilesBalanced
  <2>1. \A f \in SystemFiles : refs[v][f] = RefCount(v, f)
    BY Zenon DEF IInv, RefsFollowLabel
  <2>2. refs[v] \in [SystemFiles -> Nat]
    BY Zenon DEF IInv, TypeOK
  <2>3. CASE pc[v] = "idle"
    <3>1. \A f \in SystemFiles : refs[v][f] = 0
      BY <2>1, <2>3 DEF RefCount, HeldAt, Loading, SystemFiles
    <3>2. upcase[v] = "none"
      BY <2>3, Zenon DEF IInv, TypeOK, UpcaseFollowsLabel, HasUpcase
    <3> QED
      BY <2>2, <2>3, <3>1, <3>2, Zenon DEF NoRefs
  <2>4. CASE pc[v] = "mounted"
    <3>1. \A f \in SystemFiles : refs[v][f] = FilesOf(v)[f]
      BY <2>1, <2>4 DEF RefCount, HeldAt, Loading, SystemFiles, FilesOf
    <3>2. upcase[v] # "none"
      BY <2>4, Zenon DEF IInv, UpcaseFollowsLabel, HasUpcase
    <3>3. refs[v] = FilesOf(v)
      BY <2>2, <3>1, Zenon DEF FilesOf
    <3> QED
      BY <2>4, <3>2, <3>3, Zenon
  <2> QED
    BY <2>3, <2>4, Zenon
<1> QED
  BY <1>1, InductiveInvariant, PTL
=============================================================================
