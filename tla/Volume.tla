------------------------------- MODULE Volume -------------------------------
(***************************************************************************)
(* Mounting and unmounting NTFS volumes (ntfs/super.c).                    *)
(*                                                                         *)
(* Volumes are mounted and unmounted concurrently, one task per super      *)
(* block.  They share the default upcase table and the decompression       *)
(* buffer, each with a user counter, all guarded by the mutex ntfs_lock.   *)
(* A critical section of ntfs_lock is one action here: nothing else reads  *)
(* or writes these globals.  Everything between two critical sections is   *)
(* split at the places where ntfs_fill_super() can fail, because each of   *)
(* them unwinds a different part of what was built.                        *)
(***************************************************************************)
EXTENDS Naturals, Integers, FiniteSets

CONSTANT Volumes        \* the super blocks that may be mounted

ASSUME VolumesAssumption == IsFiniteSet(Volumes)

VARIABLES
  defaultUpcase,        \* default_upcase # NULL
  nrUpcaseUsers,        \* ntfs_nr_upcase_users
  compressionBuffer,    \* ntfs_compression_buffer # NULL
  nrCompressionUsers,   \* ntfs_nr_compression_users
  pc,                   \* where the task of each super block stands
  upcase,               \* vol->upcase: "none" (NULL), "own" or "default"
  small,                \* vol->cluster_size <= 4096
  ntfs3,                \* vol->major_ver >= 3
  refs,                 \* inode references held for each system file
  nls                   \* a reference to a character set table is held

shared == <<defaultUpcase, nrUpcaseUsers, compressionBuffer, nrCompressionUsers>>
vars == <<shared, pc, upcase, small, ntfs3, refs, nls>>

SystemFiles == {"mft", "mftbmp", "lcnbmp", "volume", "root", "secure", "extend"}

Labels == {"idle", "parse", "boot", "mft", "share", "mftbmp", "upcase",
           "upcaseRead", "upcaseFailed", "lcnbmp", "volume", "root", "secure",
           "extend", "makeRoot", "dropUpcase", "unwindUpcase", "unwindRoot",
           "unlUpcase", "mounted", "putShared"}

(* The part of ntfs_fill_super() in which the mount counts as a temporary  *)
(* user of the default upcase table.                                       *)
Loading == {"mftbmp", "upcase", "upcaseRead", "upcaseFailed", "lcnbmp",
            "volume", "root", "secure", "extend", "makeRoot", "dropUpcase",
            "unwindUpcase", "unwindRoot", "unlUpcase"}

(* Where vol holds one of the references counted in                        *)
(* ntfs_nr_compression_users, provided its clusters are small.             *)
Sharing == Loading \cup {"mounted", "putShared"}

TempUsers == {v \in Volumes : pc[v] \in Loading}
UpcaseUsers == {v \in Volumes : upcase[v] = "default"}
CompressionUsers == {v \in Volumes : small[v] /\ pc[v] \in Sharing}

NoRefs == [f \in SystemFiles |-> 0]

(* No file system operation has run since the module was loaded.           *)
Init ==
  /\ defaultUpcase = FALSE
  /\ nrUpcaseUsers = 0
  /\ compressionBuffer = FALSE
  /\ nrCompressionUsers = 0
  /\ pc = [v \in Volumes |-> "idle"]
  /\ upcase = [v \in Volumes |-> "none"]
  /\ small = [v \in Volumes |-> FALSE]
  /\ ntfs3 = [v \in Volumes |-> FALSE]
  /\ refs = [v \in Volumes |-> NoRefs]
  /\ nls = [v \in Volumes |-> FALSE]

Goto(v, from, to) == pc[v] = from /\ pc' = [pc EXCEPT ![v] = to]

(* iput() of the listed system files of v, and igrab()/iget() of one.      *)
Iput(v, files) ==
  refs' = [refs EXCEPT ![v] = [f \in SystemFiles |->
             IF f \in files THEN refs[v][f] - 1 ELSE refs[v][f]]]
Iget(v, f) == refs' = [refs EXCEPT ![v][f] = @ + 1]

-----------------------------------------------------------------------------
(* ntfs_fill_super() *)

(* Allocate and initialise the ntfs_volume.                                *)
FillSuper(v) ==
  /\ Goto(v, "idle", "parse")
  /\ upcase' = [upcase EXCEPT ![v] = "none"]
  /\ small' = [small EXCEPT ![v] = FALSE]
  /\ ntfs3' = [ntfs3 EXCEPT ![v] = FALSE]
  /\ UNCHANGED <<shared, refs, nls>>

(* parse_options() loads the character set table named by nls= or the      *)
(* default one.  It can reject an option before or after load_nls().       *)
ParseOptions(v) ==
  /\ UNCHANGED <<shared, upcase, small, ntfs3, refs>>
  /\ \/ Goto(v, "parse", "boot") /\ nls' = [nls EXCEPT ![v] = TRUE]
     \/ Goto(v, "parse", "idle") /\ nls' \in {nls, [nls EXCEPT ![v] = TRUE]}

(* Block size, boot sector and geometry; the cluster size becomes known.   *)
ReadBootSector(v) ==
  /\ UNCHANGED <<shared, upcase, ntfs3, refs, nls>>
  /\ \/ Goto(v, "boot", "mft") /\ \E s \in BOOLEAN : small' = [small EXCEPT ![v] = s]
     \/ Goto(v, "boot", "idle") /\ UNCHANGED small

(* new_inode() and ntfs_read_inode_mount(); on failure iput(tmp_ino).      *)
ReadInodeMount(v) ==
  /\ UNCHANGED <<shared, upcase, small, ntfs3, nls>>
  /\ \/ Goto(v, "mft", "share") /\ Iget(v, "mft")
     \/ Goto(v, "mft", "idle") /\ UNCHANGED refs

(* The first critical section: become a compression user, allocating the   *)
(* buffer for the first one; generate the default upcase table if there is *)
(* none (the allocation may fail, which is not an error); become a         *)
(* temporary upcase user.                                                  *)
ShareTables(v) ==
  LET first == small[v] /\ nrCompressionUsers = 0 IN
  /\ UNCHANGED <<upcase, small, ntfs3, nls>>
  /\ \/ /\ Goto(v, "share", "mftbmp")
        /\ nrCompressionUsers' = nrCompressionUsers + (IF small[v] THEN 1 ELSE 0)
        /\ compressionBuffer' = (compressionBuffer \/ first)
        /\ defaultUpcase' \in {TRUE, defaultUpcase}
        /\ nrUpcaseUsers' = nrUpcaseUsers + 1
        /\ UNCHANGED refs
     \/ /\ first
        /\ Goto(v, "share", "idle")
        /\ Iput(v, {"mft"})
        /\ UNCHANGED shared

(* d_make_root() on an extra reference to the root inode: the new dentry   *)
(* owns it, or it is dropped and everything built so far is released.      *)
MakeRoot(v) ==
  /\ UNCHANGED <<shared, upcase, small, ntfs3>>
  /\ \/ Goto(v, "makeRoot", "dropUpcase") /\ Iget(v, "root") /\ UNCHANGED nls
     \/ /\ Goto(v, "makeRoot", "unwindRoot")
        /\ Iput(v, {"volume", "root", "lcnbmp", "mftbmp"} \cup
                   (IF ntfs3[v] THEN {"secure", "extend"} ELSE {}))
        /\ nls' = [nls EXCEPT ![v] = FALSE]

(* The mount succeeded: stop being a temporary upcase user.                *)
DropTempUpcase(v) ==
  /\ Goto(v, "dropUpcase", "mounted")
  /\ nrUpcaseUsers' = nrUpcaseUsers - 1
  /\ defaultUpcase' = (defaultUpcase /\ nrUpcaseUsers' # 0)
  /\ UNCHANGED <<compressionBuffer, nrCompressionUsers, upcase, small, ntfs3, refs, nls>>

(* vol->upcase is given back, a counted use of the default table or an own *)
(* table; the pointers are compared, so NULL equals an absent default.     *)
DropVolumeUpcase(v) ==
  LET isDefault == upcase[v] = (IF defaultUpcase THEN "default" ELSE "none") IN
  /\ nrUpcaseUsers' = nrUpcaseUsers - (IF isDefault THEN 1 ELSE 0)
  /\ upcase' = [upcase EXCEPT ![v] = "none"]

(* Mutant: the volume's use is not given back when d_make_root() fails.    *)
UnwindRootUncounted(v) ==
  /\ Goto(v, "unwindRoot", "unlUpcase")
  /\ upcase' = [upcase EXCEPT ![v] = "none"]
  /\ UNCHANGED <<shared, small, ntfs3, refs, nls>>

UnwindRoot(v) ==
  /\ Goto(v, "unwindRoot", "unlUpcase")
  /\ DropVolumeUpcase(v)
  /\ UNCHANGED <<defaultUpcase, compressionBuffer, nrCompressionUsers, small, ntfs3, refs, nls>>

(* unl_upcase_iput_tmp_ino_err_out_now: the end of every mount that failed *)
(* after ShareTables.                                                      *)
UnlUpcase(v) ==
  /\ Goto(v, "unlUpcase", "idle")
  /\ nrUpcaseUsers' = nrUpcaseUsers - 1
  /\ defaultUpcase' = (defaultUpcase /\ nrUpcaseUsers' # 0)
  /\ nrCompressionUsers' = nrCompressionUsers - (IF small[v] THEN 1 ELSE 0)
  /\ compressionBuffer' = (compressionBuffer /\ ~(small[v] /\ nrCompressionUsers' = 0))
  /\ Iput(v, {"mft"})
  /\ UNCHANGED <<upcase, small, ntfs3, nls>>

-----------------------------------------------------------------------------
(* load_system_files() *)

(* One system file is opened, or the files in undo are released and the    *)
(* function returns false through the label unwind.                        *)
LoadFile(v, from, to, f, unwind, undo) ==
  /\ UNCHANGED <<shared, upcase, small, nls>>
  /\ \/ Goto(v, from, to) /\ Iget(v, f)
     \/ Goto(v, from, unwind) /\ Iput(v, undo)

LoadMftBitmap(v) ==
  LoadFile(v, "mftbmp", "upcase", "mftbmp", "unlUpcase", {}) /\ UNCHANGED ntfs3

LoadLcnBitmap(v) ==
  LoadFile(v, "lcnbmp", "volume", "lcnbmp", "unwindUpcase", {}) /\ UNCHANGED ntfs3

(* Mutant: a failure to open $Volume is retried from $Bitmap for ever.     *)
LoadVolumeRetried(v) ==
  /\ LoadFile(v, "volume", "root", "volume", "lcnbmp", {"lcnbmp"})
  /\ \E three \in BOOLEAN : ntfs3' = [ntfs3 EXCEPT ![v] = three]

(* $Volume also tells the NTFS version.                                    *)
LoadVolume(v) ==
  /\ LoadFile(v, "volume", "root", "volume", "unwindUpcase", {"lcnbmp"})
  /\ \E three \in BOOLEAN : ntfs3' = [ntfs3 EXCEPT ![v] = three]

LoadRoot(v) ==
  /\ LoadFile(v, "root", IF ntfs3[v] THEN "secure" ELSE "makeRoot", "root",
              "unwindUpcase", {"volume", "lcnbmp"})
  /\ UNCHANGED ntfs3

(* Mutant: the root directory is not released when $Secure is missing.     *)
LoadSecureLeaksRoot(v) ==
  /\ LoadFile(v, "secure", "extend", "secure", "unwindUpcase", {"volume", "lcnbmp"})
  /\ UNCHANGED ntfs3

LoadSecure(v) ==
  /\ LoadFile(v, "secure", "extend", "secure", "unwindUpcase",
              {"root", "volume", "lcnbmp"})
  /\ UNCHANGED ntfs3

LoadExtend(v) ==
  /\ LoadFile(v, "extend", "makeRoot", "extend", "unwindUpcase",
              {"secure", "root", "volume", "lcnbmp"})
  /\ UNCHANGED ntfs3

(* The labels from iput_attrdef_err_out to the end of the function.        *)
UnwindUpcase(v) ==
  /\ Goto(v, "unwindUpcase", "unlUpcase")
  /\ DropVolumeUpcase(v)
  /\ Iput(v, {"mftbmp"})
  /\ UNCHANGED <<defaultUpcase, compressionBuffer, nrCompressionUsers, small, ntfs3, nls>>

(* load_and_init_upcase(): $UpCase is read into a table of the volume's    *)
(* own; the inode and, on failure, the table are dropped again.            *)
ReadUpcase(v) ==
  /\ \/ Goto(v, "upcase", "upcaseRead") /\ upcase' = [upcase EXCEPT ![v] = "own"]
     \/ Goto(v, "upcase", "upcaseFailed") /\ upcase' = [upcase EXCEPT ![v] = "none"]
  /\ UNCHANGED <<shared, small, ntfs3, refs, nls>>

(* Mutant: the use of the default table is not counted.                    *)
UseDefaultUpcaseUncounted(v) ==
  /\ defaultUpcase
  /\ upcase' = [upcase EXCEPT ![v] = "default"]
  /\ UNCHANGED nrUpcaseUsers

UseDefaultUpcase(v) ==
  /\ defaultUpcase
  /\ upcase' = [upcase EXCEPT ![v] = "default"]
  /\ nrUpcaseUsers' = nrUpcaseUsers + 1

(* The table that was read is kept, or replaced by the default table if it *)
(* equals it.                                                              *)
MatchUpcase(v) ==
  /\ Goto(v, "upcaseRead", "lcnbmp")
  /\ \/ UseDefaultUpcase(v)
     \/ UNCHANGED <<upcase, nrUpcaseUsers>>
  /\ UNCHANGED <<defaultUpcase, compressionBuffer, nrCompressionUsers, small, ntfs3, refs, nls>>

(* No table could be read: fall back on the default one, or fail.          *)
FallbackUpcase(v) ==
  /\ UNCHANGED <<defaultUpcase, compressionBuffer, nrCompressionUsers, small, ntfs3, nls>>
  /\ \/ Goto(v, "upcaseFailed", "lcnbmp") /\ UseDefaultUpcase(v) /\ UNCHANGED refs
     \/ /\ ~defaultUpcase
        /\ Goto(v, "upcaseFailed", "unlUpcase")
        /\ Iput(v, {"mftbmp"})
        /\ UNCHANGED <<upcase, nrUpcaseUsers>>

-----------------------------------------------------------------------------
(* ntfs_put_super(): the VFS has dropped the root dentry and unmounts.     *)

PutSuper(v) ==
  /\ Goto(v, "mounted", "putShared")
  /\ refs' = [refs EXCEPT ![v] = [f \in SystemFiles |->
       IF f = "root" THEN refs[v][f] - 2
       ELSE IF f \in {"secure", "extend"} /\ ~ntfs3[v] THEN refs[v][f]
       ELSE refs[v][f] - 1]]
  /\ UNCHANGED <<shared, upcase, small, ntfs3, nls>>

PutShared(v) ==
  /\ Goto(v, "putShared", "idle")
  /\ DropVolumeUpcase(v)
  /\ defaultUpcase' = (defaultUpcase /\ nrUpcaseUsers' # 0)
  /\ nrCompressionUsers' = nrCompressionUsers - (IF small[v] THEN 1 ELSE 0)
  /\ compressionBuffer' = (compressionBuffer /\ ~(small[v] /\ nrCompressionUsers' = 0))
  /\ nls' = [nls EXCEPT ![v] = FALSE]
  /\ UNCHANGED <<small, ntfs3, refs>>

-----------------------------------------------------------------------------
Mounting(v) ==
  \/ ParseOptions(v) \/ ReadBootSector(v) \/ ReadInodeMount(v) \/ ShareTables(v)
  \/ LoadMftBitmap(v) \/ ReadUpcase(v) \/ MatchUpcase(v) \/ FallbackUpcase(v)
  \/ LoadLcnBitmap(v) \/ LoadVolume(v) \/ LoadRoot(v) \/ LoadSecure(v)
  \/ LoadExtend(v) \/ MakeRoot(v) \/ DropTempUpcase(v)
  \/ UnwindRoot(v) \/ UnwindUpcase(v) \/ UnlUpcase(v)

Next == \E v \in Volumes : FillSuper(v) \/ Mounting(v) \/ PutSuper(v) \/ PutShared(v)

(* A mount or an unmount that was begun is run to its end by its task; the *)
(* mutex is held for bounded times only.  Nobody has to mount or unmount.  *)
Fairness == \A v \in Volumes : WF_vars(Mounting(v)) /\ WF_vars(PutShared(v))

Spec == Init /\ [][Next]_vars /\ Fairness

-----------------------------------------------------------------------------
(* Properties *)

(* The type invariant; no counter of users or references goes below zero.  *)
TypeOK ==
  /\ defaultUpcase \in BOOLEAN
  /\ nrUpcaseUsers \in Nat
  /\ compressionBuffer \in BOOLEAN
  /\ nrCompressionUsers \in Nat
  /\ pc \in [Volumes -> Labels]
  /\ upcase \in [Volumes -> {"none", "own", "default"}]
  /\ small \in [Volumes -> BOOLEAN]
  /\ ntfs3 \in [Volumes -> BOOLEAN]
  /\ refs \in [Volumes -> [SystemFiles -> Nat]]
  /\ nls \in [Volumes -> BOOLEAN]

(* ntfs_nr_upcase_users counts the mounts in progress plus the volumes     *)
(* whose vol->upcase is the default table, whatever mounts and unmounts    *)
(* run concurrently and wherever a mount fails.                            *)
UpcaseAccounting ==
  nrUpcaseUsers = Cardinality(TempUsers) + Cardinality(UpcaseUsers)

(* While a volume compares names with the default upcase table, that table *)
(* is not freed by another volume's unmount or failed mount.               *)
NoDanglingUpcase == (UpcaseUsers # {}) => defaultUpcase

(* The default upcase table is kept only as long as somebody is counted as *)
(* its user: when the last mount is gone the memory is released.           *)
DefaultUpcaseHasUser == defaultUpcase => nrUpcaseUsers # 0

(* The decompression buffer exists exactly while some volume with small    *)
(* clusters is mounted or being mounted, so BUG_ON(ntfs_compression_buffer)*)
(* and BUG_ON(!ntfs_compression_buffer) in compress.c never trigger and    *)
(* ntfs_read_compressed_block() always finds a buffer.                     *)
CompressionAccounting ==
  /\ nrCompressionUsers = Cardinality(CompressionUsers)
  /\ compressionBuffer <=> (CompressionUsers # {})

(* The references held at each point of a mount or an unmount.             *)
HeldAt(f) ==
  CASE f = "mft" -> {"share", "mounted"} \cup Loading
    [] f = "mftbmp" -> {"mounted"} \cup (Loading \ {"mftbmp", "unwindRoot", "unlUpcase"})
    [] f = "lcnbmp" -> {"volume", "root", "secure", "extend", "makeRoot", "dropUpcase", "mounted"}
    [] f = "volume" -> {"root", "secure", "extend", "makeRoot", "dropUpcase", "mounted"}
    [] f = "root" -> {"secure", "extend", "makeRoot", "dropUpcase", "mounted"}
    [] f = "secure" -> {"extend", "makeRoot", "dropUpcase", "mounted"}
    [] f = "extend" -> {"makeRoot", "dropUpcase", "mounted"}
RefCount(v, f) ==
  (IF pc[v] \in HeldAt(f) /\ (f \in {"secure", "extend"} => ntfs3[v]) THEN 1 ELSE 0)
  + (IF f = "root" /\ pc[v] \in {"dropUpcase", "mounted"} THEN 1 ELSE 0)
RefsFollowLabel ==
  \A v \in Volumes : \A f \in SystemFiles : refs[v][f] = RefCount(v, f)

(* vol->upcase by label: where the error paths compare it with             *)
(* default_upcase it is never NULL, so an absent default is not mistaken   *)
(* for a counted use.                                                      *)
HasUpcase == {"lcnbmp", "volume", "root", "secure", "extend", "makeRoot",
              "dropUpcase", "unwindUpcase", "unwindRoot", "mounted", "putShared"}
UpcaseFollowsLabel ==
  \A v \in Volumes :
    /\ pc[v] \in HasUpcase => upcase[v] # "none"
    /\ upcase[v] = "default" => pc[v] \in HasUpcase
    /\ upcase[v] = "own" => pc[v] \in HasUpcase \cup {"upcaseRead"}
    /\ pc[v] = "upcaseRead" => upcase[v] = "own"
    /\ pc[v] \in {"secure", "extend"} => ntfs3[v]

(* The inductive invariant.                                                *)
IInv ==
  /\ TypeOK
  /\ UpcaseAccounting
  /\ NoDanglingUpcase
  /\ DefaultUpcaseHasUser
  /\ CompressionAccounting
  /\ RefsFollowLabel
  /\ UpcaseFollowsLabel

(* A mounted volume holds one reference to each of its system files (and   *)
(* the root dentry's), and one that is not mounted holds none: the unwind  *)
(* labels of ntfs_fill_super() and load_system_files() drop exactly what   *)
(* was taken before the failure.                                           *)
FilesOf(v) ==
  [f \in SystemFiles |->
     IF f = "root" THEN 2
     ELSE IF f \in {"secure", "extend"} /\ ~ntfs3[v] THEN 0 ELSE 1]
SystemFilesBalanced ==
  \A v \in Volumes :
    /\ pc[v] = "idle" => refs[v] = NoRefs /\ upcase[v] = "none"
    /\ pc[v] = "mounted" => refs[v] = FilesOf(v) /\ upcase[v] # "none"

(* A mount that was begun ends, successfully or not, and so does an        *)
(* unmount.                                                                *)
MountEnds ==
  \A v \in Volumes :
    /\ pc[v] \notin {"idle", "mounted"} ~> pc[v] \in {"idle", "mounted"}
    /\ pc[v] = "putShared" ~> pc[v] = "idle"
=============================================================================
