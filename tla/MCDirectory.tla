---------------------------- MODULE MCDirectory -----------------------------
(***************************************************************************)
(* The two uses of an index: a directory is listed, or names and keys are  *)
(* looked up.  Both are done under i_mutex of the directory, so they never *)
(* overlap, except for a lookup made from the callback of a listing, which *)
(* HeldInStep of ReadDir covers.                                           *)
(***************************************************************************)
EXTENDS ReadDir, SequencesExt

VARIABLES
  tree, sought, rule, sens, lpc, node, ie, name, lheld, lpage, ret, faults, protected,
  use           \* "list" or "look up"

lookupVars ==
  <<tree, sought, rule, sens, lpc, node, ie, name, lheld, lpage, ret, faults, protected>>

(* The names of directories, not yet sorted: a file with a long and a      *)
(* short name and names that differ in case only; names in the POSIX       *)
(* namespace only; a name with a wildcard; a damaged directory; a POSIX    *)
(* name that equals a Windows one without case.                            *)
MCEntry(n, t, i) == [name |-> n, type |-> t, ino |-> i]
MCDirectories ==
  {{MCEntry(<<3, 4>>, "win32", 1), MCEntry(<<1>>, "dos", 1), MCEntry(<<2>>, "both", 2),
    MCEntry(<<4>>, "posix", 3), MCEntry(<<2, 2>>, "both", 4)},
   {MCEntry(<<1>>, "posix", 1), MCEntry(<<3>>, "posix", 2), MCEntry(<<2, 3>>, "both", 3)},
   {MCEntry(<<0>>, "posix", 1), MCEntry(<<3>>, "both", 2), MCEntry(<<4>>, "both", 3)},
   {MCEntry(<<1, 2>>, "both", 1), MCEntry(<<3, 4>>, "both", 2), MCEntry(<<4>>, "posix", 3)},
   {MCEntry(<<1, 4>>, "posix", 1), MCEntry(<<3, 2>>, "both", 2)}}

(* Order of the letters; a name goes before a longer one that begins so.   *)
MCUpper(c) == IF c > 2 THEN c - 2 ELSE c
MCLess(a, b) ==
  \/ \E k \in 1 .. Len(b) :
       /\ \A j \in 1 .. k - 1 : j <= Len(a) /\ a[j] = b[j]
       /\ k = Len(a) + 1 \/ (k <= Len(a) /\ a[k] < b[k])
MCBefore(e, f) ==
  LET u(n) == [i \in DOMAIN n |-> MCUpper(n[i])] IN
  MCLess(u(e.name), u(f.name)) \/ (u(e.name) = u(f.name) /\ MCLess(e.name, f.name))

(* All trees of a sequence of entries whose leaves are not empty.          *)
MCTreesOf(s) ==
  UNION {{[entries |-> s, level |-> l, depth |-> d] :
            l \in {f \in [DOMAIN s -> 0 .. d] :
                     \A i \in DOMAIN s : f[i] < d =>
                       {i - 1, i + 1} \subseteq {j \in DOMAIN s : f[j] = d}}} : d \in 0 .. 2}

MCTrees == UNION {MCTreesOf(SetToSortSeq(d, MCBefore)) : d \in MCDirectories}
MCNames == {<<0>>, <<1>>, <<2>>, <<3>>, <<4>>, <<1, 2>>, <<3, 4>>, <<3, 2>>, <<4, 4>>, <<1, 1>>}
MCIndexes == MCTreesOf([i \in 1 .. 4 |-> MCEntry(<<2 * i>>, "key", 0)])

Lookups == INSTANCE DirLookup WITH
  pc <- lpc, held <- lheld, page <- lpage,
  Trees <- MCTrees, Names <- MCNames, Indexes <- MCIndexes, Keys <- {<<k>> : k \in 1 .. 9},
  Rules <- {"ulong", "other"}, VcnBits <- 0, ClusterBits <- 1, PageBits <- 2, MaxFaults <- 1

InitEither ==
  /\ Lookups!Init
  /\ \/ use = "list" /\ Init
     \/ /\ use = "look up" /\ Init
        /\ blocks = 0 /\ hidden = {}

NextEither ==
  /\ UNCHANGED use
  /\ \/ use = "list" /\ Next /\ UNCHANGED lookupVars
     \/ use = "look up" /\ Lookups!Next /\ UNCHANGED vars

SpecEither ==
  /\ InitEither
  /\ [][NextEither]_<<vars, lookupVars, use>>
  /\ WF_vars(Proceed)

(* A caller whose buffers have room for an entry reaches the end of the    *)
(* directory, unless a call fails: no call of ntfs_readdir() returns at    *)
(* the position where it began for ever.                                   *)
ListingTerminates == use = "list" /\ fpos = 0 ~> fpos = EndPos \/ failed

(* A lookup gives what the entries of the index call for: LookupRight of   *)
(* DirLookup.                                                              *)
LookupRight == Lookups!LookupRight

(* Listing and lookup release what they acquire on every exit, read index  *)
(* blocks under the lock of their page, and the callback of a listing runs *)
(* without it: HeldInStep of ReadDir and LookupHeld of DirLookup.          *)
HeldWhileNeeded == HeldInStep /\ Lookups!LookupHeld
=============================================================================
