----------------------------- MODULE DirLookup ------------------------------
(***************************************************************************)
(* The search in an index tree: a name in a directory (ntfs_lookup() in    *)
(* namei.c, ntfs_lookup_inode_by_name() in dir.c, the comparisons of       *)
(* unistr.c) and a key in a view index (ntfs_index_lookup() in index.c,    *)
(* ntfs_collate() in collate.c).                                           *)
(*                                                                         *)
(* One task looks up under i_mutex; the page writer applies and removes    *)
(* the fixups of the index blocks under the lock of their page.  A tree is *)
(* the sorted sequence of its entries with the level of each, 0 being the  *)
(* root: a node is what lies between two entries of higher nodes.          *)
(***************************************************************************)
EXTENDS Integers, Sequences, FiniteSetsExt

CONSTANTS
  Trees,        \* [entries, level, depth]; an entry is [name, type, ino]
  Names,        \* names looked up
  Indexes, Keys,        \* the same for view indexes: the name is the key
  Rules,        \* collation rules of the view indexes
  VcnBits, ClusterBits, PageBits,       \* sizes of a vcn, cluster and page
  MaxFaults     \* bound: failures of memory or disk, damaged blocks

VARIABLES
  tree, sought, rule,   \* what is searched for, and where
  sens,         \* NVolCaseSensitive()
  pc,
  node,         \* the node that is searched: its level and its bounds
  ie,           \* the entry looked at
  name,         \* the match that is kept: [ino, type, name]
  held,         \* what the call has allocated, mapped or locked
  page,         \* the index page that is mapped
  ret,          \* what the call returns
  faults,
  protected     \* the page that is being written, -1 if none

what == <<tree, sought, rule, sens>>
at == <<node, ie>>
vars == <<what, pc, at, name, held, page, ret, faults, protected>>

-----------------------------------------------------------------------------
(* Comparing names.  Characters are numbers: 0 is "*", 1 and 2 are upper   *)
(* case letters, 3 and 4 the same in lower case.                           *)

Upcase(c) == IF c > 2 THEN c - 2 ELSE c
Wildcard(c) == c = 0

Folded(n, ic) == IF ic THEN [i \in DOMAIN n |-> Upcase(n[i])] ELSE n

ntfs_are_names_equal(n1, n2, ic) == Folded(n1, ic) = Folded(n2, ic)

(* A wildcard in the first name counts as greater (err_val).               *)
ntfs_collate_names(n1, n2, ic) ==
  LET a == Folded(n1, ic)
      b == Folded(n2, ic)
      stops == {i \in 1 .. Min({Len(a), Len(b)}) : Wildcard(a[i]) \/ a[i] # b[i]}
      i == Min(stops) IN
  IF stops # {} THEN IF ~Wildcard(a[i]) /\ a[i] < b[i] THEN -1 ELSE 1
  ELSE IF Len(a) < Len(b) THEN -1
  ELSE IF Len(a) = Len(b) THEN 0 ELSE 1

(* The keys of view indexes are numbers, written as names of one character. *)
(* memcmp() returns the difference.                                        *)
ntfs_collate(k1, k2) ==
  IF rule = "binary" THEN k1[1] - k2[1]
  ELSE IF k1[1] < k2[1] THEN -1 ELSE IF k1[1] = k2[1] THEN 0 ELSE 1

-----------------------------------------------------------------------------
(* The tree.  The last entry of a node is the one that ends it; it is the  *)
(* upper bound of the node.                                                *)

Entry == tree.entries[ie]
End == ie = node.hi
HasChild == node.level < tree.depth
Root == [level |-> 0, lo |-> 0, hi |-> Len(tree.entries) + 1]
InNode(n) == {i \in n.lo + 1 .. n.hi - 1 : tree.level[i] = n.level}

FirstOf(n) == Min(InNode(n) \cup {n.hi})
Next1 == Min({i \in InNode(node) : i > ie} \cup {node.hi})

Child ==
  [level |-> node.level + 1, lo |-> Max({i \in InNode(node) : i < ie} \cup {node.lo}), hi |-> ie]

(* The blocks of the nodes are in no particular order; each has its vcn.   *)
Vcn(n) == (n.lo * tree.depth) + n.level - 1
PageOf(v) == (v * 2^VcnBits) \div 2^PageBits

Pages == 0 .. Max({PageOf((Len(t.entries) + 1) * t.depth) : t \in Trees \cup Indexes})

SamePage(v, w) ==
  (v * 2^ClusterBits) \div 2^PageBits = (w * 2^ClusterBits) \div 2^PageBits

-----------------------------------------------------------------------------
NoName == [ino |-> 0, type |-> "none", name |-> <<>>]
NoNode == [level |-> 0, lo |-> 0, hi |-> 0]
NoTree == [entries |-> <<>>, level |-> <<>>, depth |-> 0]
Result(kind, ino, n) == [kind |-> kind, ino |-> ino, name |-> n]
Nothing == Result("none", 0, <<>>)

Init ==
  /\ tree = NoTree /\ sought = <<>> /\ rule = "none" /\ sens = FALSE
  /\ pc = "idle"
  /\ node = NoNode /\ ie = 0
  /\ name = NoName
  /\ held = {} /\ page = -1
  /\ ret = Nothing
  /\ faults = 0
  /\ protected = -1

Goto(from, to) == pc = from /\ pc' = to
Fault == faults < MaxFaults /\ faults' = faults + 1
Return(r) == pc' = "done" /\ ret' = r
Error == Result("error", 0, <<>>)

(* The caller has used the result.                                         *)
Finish ==
  /\ Goto("done", "idle")
  /\ tree' = NoTree /\ sought' = <<>> /\ rule' = "none" /\ sens' = FALSE
  /\ node' = NoNode /\ ie' = 0
  /\ name' = NoName /\ page' = -1 /\ ret' = Nothing /\ faults' = 0
  /\ UNCHANGED <<held, protected>>

(* The page writer locks the page of an index block and applies the        *)
(* fixups; it removes them and unlocks the page when it is written.        *)
Protect(p) ==
  /\ protected = -1
  /\ ~("lock" \in held /\ page = p)
  /\ protected' = p
  /\ UNCHANGED <<what, pc, at, name, held, page, ret, faults>>

Unprotect ==
  /\ protected # -1
  /\ protected' = -1
  /\ UNCHANGED <<what, pc, at, name, held, page, ret, faults>>

-----------------------------------------------------------------------------
(* Steps that the two searches have in common.                             *)

Enter(n) == node' = n /\ ie' = FirstOf(n)

(* The record of the directory is mapped and the index root is found.      *)
OpenRoot(from, to) ==
  /\ Goto(from, to)
  /\ held' = held \cup {"record", "ctx"}
  /\ Enter(Root)
  /\ UNCHANGED <<what, name, page, ret, faults, protected>>

(* From the root on: the record is let go, since only pages are needed.    *)
LeaveRoot(from, to) ==
  /\ Goto(from, to) /\ HasChild
  /\ held' = held \ {"record", "ctx"}
  /\ Enter(Child)
  /\ UNCHANGED <<what, name, page, ret, faults, protected>>

(* Once the page writer has unlocked the page.                             *)
OpenBlock(from, to) ==
  /\ Goto(from, to)
  /\ protected # PageOf(Vcn(node))
  /\ page' = PageOf(Vcn(node))
  /\ held' = held \cup {"page", "lock"}
  /\ UNCHANGED <<what, at, name, ret, faults, protected>>

(* A child in the same page is searched at once.                           *)
LeaveBlock(from, same, other) ==
  /\ pc = from /\ HasChild
  /\ IF SamePage(Vcn(node), Vcn(Child))
     THEN pc' = same /\ UNCHANGED held
     ELSE pc' = other /\ held' = held \ {"page", "lock"}
  /\ Enter(Child)
  /\ UNCHANGED <<what, name, page, ret, faults, protected>>

-----------------------------------------------------------------------------
(* ntfs_lookup_inode_by_name() *)

(* ntfs_lookup() converts the name first.                                  *)
Lookup(t, n, s) ==
  /\ pc = "idle"
  /\ tree' = t /\ sought' = n /\ sens' = s
  /\ \/ pc' = "record" /\ held' = {"uname"} /\ UNCHANGED <<ret, faults>>
     \/ Fault /\ Return(Error) /\ UNCHANGED held
  /\ UNCHANGED <<rule, at, name, page, protected>>

MapRecord == OpenRoot("record", "root")
Descend == LeaveRoot("rootStop", "map")
MapBlock == OpenBlock("map", "block")
DescendFurther == LeaveBlock("blockStop", "block", "map")

(* What is held at this place for the search itself.                       *)
HeldHere == IF pc \in {"root", "rootStop"} THEN {"record", "ctx"} ELSE {"page", "lock"}

(* The name is found, or nothing is; ntfs_lookup() frees its copy.         *)
Found(ino) ==
  /\ pc' = "iget"
  /\ held' = (held \ (HeldHere \cup {"uname", "name"}))
             \cup (IF name' = NoName THEN {} ELSE {"name"})
  /\ ret' = Result("found", ino, sought)

(* err_out and unm_err_out.                                                *)
Failed(r) ==
  /\ Return(r)
  /\ held' = held \ (HeldHere \cup {"uname", "name"})
  /\ name' = NoName

Exact == ntfs_are_names_equal(sought, Entry.name, FALSE)
Alias ==
  ~sens /\ Entry.type # "posix" /\ ntfs_are_names_equal(sought, Entry.name, TRUE)

Order ==
  LET rc == ntfs_collate_names(sought, Entry.name, TRUE) IN
  IF rc = 0 THEN ntfs_collate_names(sought, Entry.name, FALSE) ELSE rc

Kept == [ino |-> Entry.ino, type |-> Entry.type,
         name |-> IF Entry.type = "dos" THEN <<>> ELSE Entry.name]

AtEntry == pc \in {"root", "block"} /\ ~End

(* A perfect match; that of a short name has to be reported as such.       *)
ExactEntry ==
  /\ AtEntry /\ Exact
  /\ name' = IF Entry.type = "dos" THEN Kept ELSE NoName
  /\ Found(Entry.ino)
  /\ UNCHANGED <<what, at, page, faults, protected>>

(* There is no memory to report it.                                        *)
ExactEntryFails ==
  /\ AtEntry /\ Exact /\ Entry.type = "dos" /\ name = NoName
  /\ Fault /\ Failed(Error)
  /\ UNCHANGED <<what, at, page, protected>>

Onward ==
  /\ IF Order = -1
     THEN pc' = (IF pc = "root" THEN "rootStop" ELSE "blockStop") /\ UNCHANGED ie
     ELSE ie' = Next1 /\ UNCHANGED pc
  /\ UNCHANGED <<what, node, page, ret, faults, protected>>

OtherEntry ==
  /\ AtEntry /\ ~Exact /\ ~Alias
  /\ Onward
  /\ UNCHANGED <<name, held>>

(* Mutant: the search is over with the first match without case.           *)
AliasEntryEnds ==
  /\ AtEntry /\ ~Exact /\ Alias
  /\ name' = Kept
  /\ Found(Entry.ino)
  /\ UNCHANGED <<what, at, page, faults, protected>>

(* A match without case is kept; a second one is an error.                 *)
AliasEntry ==
  /\ AtEntry /\ ~Exact /\ Alias
  /\ \/ /\ name = NoName
        /\ name' = Kept /\ held' = held \cup {"name"}
        /\ Onward
     \/ /\ name # NoName
        /\ Failed(Error)
        /\ UNCHANGED <<what, at, page, faults, protected>>

AliasEntryFails ==
  /\ AtEntry /\ ~Exact /\ Alias /\ name = NoName
  /\ Fault /\ Failed(Error)
  /\ UNCHANGED <<what, at, page, protected>>

EndEntry ==
  /\ pc \in {"root", "block"} /\ End
  /\ pc' = IF pc = "root" THEN "rootStop" ELSE "blockStop"
  /\ UNCHANGED <<what, at, name, held, page, ret, faults, protected>>

(* No child node: what was kept is returned, if there is anything.         *)
Stop ==
  /\ pc \in {"rootStop", "blockStop"} /\ ~HasChild
  /\ IF name # NoName THEN UNCHANGED name /\ Found(name.ino)
                      ELSE Failed(Result("negative", 0, sought))
  /\ UNCHANGED <<what, at, page, faults, protected>>

(* A record, a page or a block cannot be read, or is damaged.              *)
SearchFails ==
  /\ pc \in {"record", "root", "rootStop", "map", "block", "blockStop"}
  /\ pc \in {"rootStop", "blockStop"} => HasChild
  /\ Fault /\ Failed(Error)
  /\ UNCHANGED <<what, at, page, protected>>

-----------------------------------------------------------------------------
(* The rest of ntfs_lookup() *)

(* The inode is read, and has the sequence number of the entry.            *)
GetInode ==
  /\ pc = "iget"
  /\ IF name = NoName
     THEN Return(Result("dentry", ret.ino, sought)) /\ UNCHANGED held
     ELSE pc' = (IF name.type = "dos" THEN "long" ELSE "convert")
          /\ held' = held \cup {"inode"} /\ UNCHANGED ret
  /\ UNCHANGED <<what, at, name, page, faults, protected>>

GetInodeFails ==
  /\ pc = "iget"
  /\ Fault /\ Return(Error)
  /\ held' = held \ {"name"} /\ name' = NoName
  /\ UNCHANGED <<what, at, page, protected>>

(* The long name that belongs to a short one is in the inode.              *)
LongNames(ino) ==
  {tree.entries[i].name : i \in {j \in DOMAIN tree.entries :
     tree.entries[j].ino = ino /\ tree.entries[j].type = "win32"}}

MapInode ==
  /\ Goto("long", "names")
  /\ held' = (held \ {"name"}) \cup {"irecord", "ictx"}
  /\ UNCHANGED <<what, at, name, page, ret, faults, protected>>

FindLongName ==
  /\ Goto("names", "convert")
  /\ held' = held \ {"irecord", "ictx"}
  /\ \E n \in LongNames(name.ino) : name' = [name EXCEPT !.name = n]
  /\ UNCHANGED <<what, at, page, ret, faults, protected>>

(* The name is converted back and the dentry with this name takes over the *)
(* inode (d_add_ci()).                                                     *)
AddDentry ==
  /\ pc = "convert"
  /\ held' = held \ {"name", "inode"}
  /\ Return(Result("dentry", name.ino, name.name))
  /\ UNCHANGED <<what, at, name, page, faults, protected>>

AliasFails ==
  /\ pc \in {"long", "names", "convert"}
  /\ Fault /\ Return(Error)
  /\ held' = held \ {"name", "irecord", "ictx", "inode"}
  /\ UNCHANGED <<what, at, name, page, protected>>

-----------------------------------------------------------------------------
(* ntfs_index_lookup(), with the context its callers get and put. *)

LookupKey(t, k, r) ==
  /\ pc = "idle"
  /\ tree' = t /\ sought' = k /\ rule' = r
  /\ \/ r # "other" /\ pc' = "keyRecord" /\ held' = {"index ctx"} /\ UNCHANGED <<ret, faults>>
     \/ r = "other" /\ pc' = "keyFailed" /\ held' = {"index ctx"} /\ ret' = Error /\ UNCHANGED faults
     \/ Fault /\ Return(Error) /\ UNCHANGED held
  /\ UNCHANGED <<sens, at, name, page, protected>>

KeyMapRecord == OpenRoot("keyRecord", "keyRoot")
KeyDescend == LeaveRoot("keyRootStop", "keyMap")
KeyMapBlock == OpenBlock("keyMap", "keyBlock")
KeyDescendFurther == LeaveBlock("keyBlockStop", "keyBlock", "keyMap")

(* The context takes over what is held.                                    *)
KeyDone(kind) == pc' = "keyHeld" /\ ret' = Result(kind, ie, <<>>)

KeyEntry ==
  /\ pc \in {"keyRoot", "keyBlock"} /\ ~End
  /\ IF sought = Entry.name
     THEN KeyDone("found") /\ UNCHANGED ie
     ELSE IF ntfs_collate(sought, Entry.name) = -1
     THEN pc' = (IF pc = "keyRoot" THEN "keyRootStop" ELSE "keyBlockStop") /\ UNCHANGED <<ie, ret>>
     ELSE ie' = Next1 /\ UNCHANGED <<pc, ret>>
  /\ UNCHANGED <<what, node, name, held, page, faults, protected>>

KeyEnd ==
  /\ pc \in {"keyRoot", "keyBlock"} /\ End
  /\ pc' = IF pc = "keyRoot" THEN "keyRootStop" ELSE "keyBlockStop"
  /\ UNCHANGED <<what, at, name, held, page, ret, faults, protected>>

(* The key is not there; the context describes where it would be.          *)
KeyStop ==
  /\ pc \in {"keyRootStop", "keyBlockStop"} /\ ~HasChild
  /\ KeyDone("enoent")
  /\ UNCHANGED <<what, at, name, held, page, faults, protected>>

KeyFails ==
  /\ pc \in {"keyRecord", "keyRoot", "keyRootStop", "keyMap", "keyBlock", "keyBlockStop"}
  /\ pc \in {"keyRootStop", "keyBlockStop"} => HasChild
  /\ Fault
  /\ pc' = "keyFailed" /\ ret' = Error
  /\ held' = held \ (IF pc \in {"keyRoot", "keyRootStop"} THEN {"record", "ctx"}
                                                         ELSE {"page", "lock"})
  /\ UNCHANGED <<what, at, name, page, protected>>

(* ntfs_index_ctx_put(): a context that describes no entry holds nothing.  *)
PutContext ==
  /\ pc \in {"keyHeld", "keyFailed"}
  /\ pc' = "done"
  /\ held' = held \ ({"index ctx"} \cup
       IF pc = "keyFailed" THEN {}
       ELSE IF node.level = 0 THEN {"record", "ctx"} ELSE {"page", "lock"})
  /\ UNCHANGED <<what, at, name, page, ret, faults, protected>>

-----------------------------------------------------------------------------
ByName ==
  \/ MapRecord \/ Descend \/ MapBlock \/ DescendFurther
  \/ ExactEntry \/ ExactEntryFails \/ OtherEntry \/ AliasEntry \/ AliasEntryFails
  \/ EndEntry \/ Stop \/ SearchFails
  \/ GetInode \/ GetInodeFails \/ MapInode \/ FindLongName \/ AddDentry \/ AliasFails

ByKey ==
  \/ KeyMapRecord \/ KeyDescend \/ KeyMapBlock \/ KeyDescendFurther
  \/ KeyEntry \/ KeyEnd \/ KeyStop \/ KeyFails \/ PutContext

Next ==
  \/ \E t \in Trees, n \in Names, s \in BOOLEAN : Lookup(t, n, s)
  \/ \E t \in Indexes, k \in Keys, r \in Rules : LookupKey(t, k, r)
  \/ ByName \/ ByKey \/ Finish
  \/ \E p \in Pages : Protect(p)
  \/ Unprotect

Spec == Init /\ [][Next]_vars

-----------------------------------------------------------------------------
(* Properties *)

Matching(ic) == {i \in DOMAIN tree.entries :
                   ntfs_are_names_equal(sought, tree.entries[i].name, ic)}

(* The names that match without case and are not in the POSIX namespace.   *)
Aliases == IF sens THEN {} ELSE {i \in Matching(TRUE) : tree.entries[i].type # "posix"}

Dentry(i) ==
  LET e == tree.entries[i] IN
  {Result("dentry", e.ino, n) : n \in IF e.type = "dos" THEN LongNames(e.ino) ELSE {e.name}}

(* "we search the directory for a fully matching file name (including      *)
(* case) and if that is not found, we search for a file name that matches  *)
(* with different case" (namei.c): every tree of the entries gives the     *)
(* exact match if there is one, else the match without case, under its     *)
(* long name, else none.  Left out are names with a wildcard and, for the  *)
(* match without case, names that a POSIX name also equals without case.   *)
NameRight ==
  pc = "done" /\ rule = "none" /\ ret.kind # "error"
    /\ (\A i \in DOMAIN sought : ~Wildcard(sought[i])) =>
       IF Matching(FALSE) # {} THEN ret \in UNION {Dentry(i) : i \in Matching(FALSE)}
       ELSE IF Aliases # {} /\ Matching(TRUE) = Aliases
            THEN ret \in UNION {Dentry(i) : i \in Aliases}
       ELSE Aliases = {} => ret = Result("negative", 0, sought)

(* "if the key is found in the index, 0 is returned", else the context     *)
(* describes "the index entry whose key collates immediately after the     *)
(* search key" (index.c).                                                  *)
KeyRight ==
  pc = "keyHeld" =>
    /\ \A i \in 1 .. ret.ino - 1 : tree.entries[i].name[1] < sought[1]
    /\ \A i \in ret.ino .. Len(tree.entries) : tree.entries[i].name[1] >= sought[1]
    /\ ret.kind = "found" <=> \E i \in DOMAIN tree.entries : tree.entries[i].name = sought

(* A lookup gives what the entries of the index call for, in every tree    *)
(* they may form, and is an error only if something failed: memory, the    *)
(* disk, a collation rule that is not known, or a directory in which two   *)
(* names are equal without case.                                           *)
LookupRight ==
  /\ NameRight /\ KeyRight
  /\ pc = "done" /\ ret.kind = "error" =>
       faults > 0 \/ rule = "other" \/ \E i, j \in Aliases : i # j

(* Every path of a lookup releases what it acquired; index blocks are read *)
(* in the page of their vcn, under its lock, and so never with fixups.     *)
LookupHeld ==
  /\ pc \in {"idle", "done"} => held = {}
  /\ "name" \in held => name # NoName
  /\ pc \in {"block", "blockStop", "keyBlock", "keyBlockStop"} =>
       /\ {"page", "lock"} \subseteq held
       /\ page = PageOf(Vcn(node))
       /\ protected # page
=============================================================================
