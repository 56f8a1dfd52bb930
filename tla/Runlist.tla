------------------------------ MODULE Runlist -------------------------------
(***************************************************************************)
(* Runlists (ntfs/runlist.c): an attribute's extents are decompressed from *)
(* their mapping pairs and merged into one runlist, in the order in which  *)
(* readers happen to need them.                                            *)
(*                                                                         *)
(* A runlist is an array of elements, ending with one of length zero.  The *)
(* array's memory may be longer: what a shrinking merge leaves behind the  *)
(* terminator is still there, and is kept here too.  NULL is << >>.        *)
(***************************************************************************)
EXTENDS SequencesExt

CONSTANTS
  N,            \* clusters of the attribute
  MinFirst      \* least number of clusters in the first of several extents

ASSUME RunlistAssumption == N \in Nat \ {0} /\ MinFirst \in Nat \ {0}

LCN_HOLE == -1
LCN_RL_NOT_MAPPED == -2
LCN_ENOENT == -3

VARIABLES
  disk,         \* the attribute: vcn -> lcn or LCN_HOLE
  extents,      \* its extents, sets of clusters
  damaged,      \* the extents whose mapping pairs are damaged
  rl            \* ni->runlist.rl

vars == <<disk, extents, damaged, rl>>

Element(v, l, n) == [vcn |-> v, lcn |-> l, length |-> n]
EndOf(e) == e.vcn + e.length

(* The index of the first terminator at or after index from.               *)
Terminator(r, from) ==
  CHOOSE i \in from .. Len(r) :
    r[i].length = 0 /\ \A j \in from .. i - 1 : r[j].length # 0

(* The array r after new elements were written over its beginning.         *)
Over(r, new) == new \o SubSeq(r, Len(new) + 1, Len(r))

-----------------------------------------------------------------------------
(* ntfs_are_rl_mergeable() and __ntfs_rl_merge() *)
Mergeable(d, s) ==
  \/ d.lcn = LCN_RL_NOT_MAPPED /\ s.lcn = LCN_RL_NOT_MAPPED
  \/ /\ EndOf(d) = s.vcn
     /\ \/ d.lcn >= 0 /\ s.lcn >= 0 /\ d.lcn + d.length = s.lcn
        \/ d.lcn = LCN_HOLE /\ s.lcn = LCN_HOLE

Longer(d, s) == [d EXCEPT !.length = @ + s.length]

(* The elements of dst before loc, followed by src, whose first element is *)
(* merged with its predecessor when left.                                  *)
JoinLeft(dst, src, loc, left) ==
  IF left
  THEN SubSeq(dst, 1, loc - 2) \o <<Longer(dst[loc - 1], src[1])>> \o Tail(src)
  ELSE SubSeq(dst, 1, loc - 1) \o src

(* src with its last element merged with the element of dst after loc.     *)
JoinRight(dst, src, loc, right) ==
  IF right THEN [src EXCEPT ![Len(src)] = Longer(@, dst[loc + 1])] ELSE src

(* The rest of dst after loc, skipping one more element if it was merged;  *)
(* an end marker moves to the end of the elements before it.               *)
Rest(dst, ds, loc, right, before) ==
  LET rest == SubSeq(dst, IF right THEN loc + 2 ELSE loc + 1, ds) IN
  IF rest # << >> /\ rest[1].lcn = LCN_ENOENT
  THEN [rest EXCEPT ![1].vcn = EndOf(Last(before))]
  ELSE rest

(* The four ways to merge src into the first ds elements of dst at loc.    *)
Replace(dst, ds, src, loc) ==
  LET right == loc < ds /\ Mergeable(Last(src), dst[loc + 1])
      left == loc > 1 /\ Mergeable(dst[loc - 1], src[1])
      new == JoinLeft(dst, JoinRight(dst, src, loc, right), loc, left)
  IN Over(dst, new \o Rest(dst, ds, loc, right, new))

AppendRuns(dst, ds, src, loc) ==
  LET right == loc < ds /\ Mergeable(Last(src), dst[loc + 1])
      hole == [dst[loc] EXCEPT !.length = src[1].vcn - dst[loc].vcn]
      new == SubSeq(dst, 1, loc - 1) \o <<hole>> \o JoinRight(dst, src, loc, right)
  IN Over(dst, new \o Rest(dst, ds, loc, right, new))

(* A mutant: the length of the hole after the inserted runs stays.         *)
InsertKeepsLength(dst, ds, src, loc) ==
  LET left == loc > 1 /\ Mergeable(dst[loc - 1], src[1])
      end == IF loc = 1 THEN 0 ELSE EndOf(dst[loc - 1])
      disc == ~left /\ src[1].vcn > end
      gap == IF disc THEN <<Element(end, LCN_RL_NOT_MAPPED, src[1].vcn - end)>> ELSE << >>
      new == JoinLeft(dst, gap \o src, loc, left)
  IN Over(dst, new \o <<[dst[loc] EXCEPT !.vcn = EndOf(Last(new))]>> \o SubSeq(dst, loc + 1, ds))

Insert(dst, ds, src, loc) ==
  LET left == loc > 1 /\ Mergeable(dst[loc - 1], src[1])
      end == IF loc = 1 THEN 0 ELSE EndOf(dst[loc - 1])
      disc == ~left /\ src[1].vcn > end
      gap == IF disc THEN <<Element(end, LCN_RL_NOT_MAPPED, src[1].vcn - end)>> ELSE << >>
      new == JoinLeft(dst, gap \o src, loc, left)
      next == [dst[loc] EXCEPT !.vcn = EndOf(Last(new))]
      hole == dst[loc].lcn \in {LCN_HOLE, LCN_RL_NOT_MAPPED}
  IN Over(dst, new \o <<IF hole THEN [next EXCEPT !.length = dst[loc + 1].vcn - next.vcn]
                                ELSE next>>
                   \o SubSeq(dst, loc + 1, ds))

Split(dst, ds, src, loc) ==
  LET before == [dst[loc] EXCEPT !.length = src[1].vcn - dst[loc].vcn]
      start == EndOf(Last(src))
      after == [dst[loc] EXCEPT !.vcn = start, !.length = dst[loc + 1].vcn - start]
  IN Over(dst, SubSeq(dst, 1, loc - 1) \o <<before>> \o src \o <<after>>
                 \o SubSeq(dst, loc + 1, ds))

-----------------------------------------------------------------------------
(* ntfs_runlists_merge() *)

(* The marker code: src ended with LCN_ENOENT at vcn end.  The terminator  *)
(* is looked for from index dend on, where it was before the merge.        *)
MoveMarker(r, dend, end) ==
  LET ds == Terminator(r, dend)
      stop == Element(end, LCN_ENOENT, 0)
      at == IF r[ds].lcn = LCN_ENOENT THEN ds - 1 ELSE ds
  IN CASE r[ds].vcn > end -> r
       [] r[ds].vcn = end -> [r EXCEPT ![ds].lcn = LCN_ENOENT]
       [] r[ds].vcn < end /\ r[at].lcn = LCN_RL_NOT_MAPPED ->
            Over(r, SubSeq(r, 1, at - 1)
                      \o <<[r[at] EXCEPT !.length = end - r[at].vcn], stop>>)
       [] r[ds].vcn < end /\ r[at].lcn # LCN_RL_NOT_MAPPED ->
            Over(r, SubSeq(r, 1, at)
                      \o <<Element(EndOf(r[at]), LCN_RL_NOT_MAPPED, end - EndOf(r[at])), stop>>)

(* The place in drl where srl, from its first mapped element on, belongs.  *)
Start(srl) == SelectInSeq(srl, LAMBDA e : e.lcn >= LCN_HOLE)
Place(drl, srl) ==
  LET first == srl[Start(srl)].vcn IN
  CHOOSE i \in 1 .. Terminator(drl, 1) :
    /\ drl[i].length = 0 \/ EndOf(drl[i]) > first
    /\ \A j \in 1 .. i - 1 : EndOf(drl[j]) <= first

(* -ERANGE *)
Overlap(drl, srl) ==
  LET d == drl[Place(drl, srl)] s == srl[Start(srl)] IN
  d.vcn = s.vcn /\ d.lcn >= 0 /\ s.lcn >= 0

(* The last element of srl to be merged: a terminator that is replaced     *)
(* needs the one of srl.                                                   *)
SourceLast(place, reaches, sfinal) ==
  IF reaches /\ place.length = 0 THEN sfinal + 1 ELSE sfinal

(* Both runlists exist: the only caller in this build has returned before  *)
(* if there was none to merge with.                                        *)
RunlistsMerge(drl, srl) ==
  LET dins == Place(drl, srl)
      dend == Terminator(drl, 1)
      sstart == Start(srl)
      send == Terminator(srl, 1)
      sfinal == SelectLastInSeq(srl, LAMBDA e : e.lcn >= LCN_HOLE)
      marker == srl[send].lcn = LCN_ENOENT
      start == drl[dins].lcn < LCN_RL_NOT_MAPPED \/ drl[dins].vcn = srl[sstart].vcn
      reaches == /\ drl[dins].lcn >= LCN_RL_NOT_MAPPED
                 /\ EndOf(drl[dins]) <= EndOf(srl[send - 1])
      finish == reaches /\ ~(marker /\ EndOf(drl[dins]) > srl[send - 1].vcn)
      src == SubSeq(srl, sstart, SourceLast(drl[dins], reaches, sfinal))
      merged == CASE start /\ finish -> Replace(drl, dend, src, dins)
                  [] start /\ ~finish -> Insert(drl, dend, src, dins)
                  [] ~start /\ finish -> AppendRuns(drl, dend, src, dins)
                  [] ~start /\ ~finish -> Split(drl, dend, src, dins)
  IN IF marker THEN MoveMarker(merged, dend, srl[send].vcn) ELSE merged

-----------------------------------------------------------------------------
(* ntfs_mapping_pairs_decompress() *)

(* The mapping pairs on disk: the runs of an extent with their lengths and *)
(* the distance of each lcn from the one of the run before; holes have no  *)
(* lcn.  Damaged ones miss their last run.                                 *)
Lo(e) == CHOOSE v \in e : \A w \in e : v <= w
Hi(e) == CHOOSE v \in e : \A w \in e : w <= v
Extends(v) == (disk[v - 1] = LCN_HOLE /\ disk[v] = LCN_HOLE)
              \/ (disk[v - 1] >= 0 /\ disk[v] = disk[v - 1] + 1)
RunStarts(e) == {v \in e : v = Lo(e) \/ ~Extends(v)}
RunLength(e, v) == Cardinality({w \in e : w >= v /\ \A u \in RunStarts(e) : u > v => w < u})
LcnBefore(e, v) ==
  LET runs == {w \in RunStarts(e) : w < v /\ disk[w] # LCN_HOLE} IN
  IF runs = {} THEN 0 ELSE disk[Hi(runs)]
MappingPairs(e) ==
  LET starts == SetToSortSeq(RunStarts(e), <)
      pairs == [i \in DOMAIN starts |->
                  [length |-> RunLength(e, starts[i]),
                   sparse |-> disk[starts[i]] = LCN_HOLE,
                   delta |-> IF disk[starts[i]] = LCN_HOLE THEN 0
                             ELSE disk[starts[i]] - LcnBefore(e, starts[i])]]
  IN IF e \in damaged THEN Front(pairs) ELSE pairs

(* A mutant: the lcn in a mapping pair is taken as it is.                  *)
RunsAbsolute(pairs, vcn) ==
  FoldLeft(LAMBDA acc, p :
             [vcn |-> acc.vcn + p.length,
              lcn |-> p.delta,
              rl |-> Append(acc.rl, Element(acc.vcn, IF p.sparse THEN LCN_HOLE ELSE p.delta,
                                            p.length))],
           [vcn |-> vcn, lcn |-> 0, rl |-> << >>], pairs)

(* The runs that the mapping pairs from vcn on stand for.                  *)
Runs(pairs, vcn) ==
  FoldLeft(LAMBDA acc, p :
             LET lcn == acc.lcn + p.delta IN
             [vcn |-> acc.vcn + p.length,
              lcn |-> lcn,
              rl |-> Append(acc.rl, Element(acc.vcn, IF p.sparse THEN LCN_HOLE ELSE lcn,
                                            p.length))],
           [vcn |-> vcn, lcn |-> 0, rl |-> << >>], pairs)

(* highest_vcn, if there is one, must be where the mapping pairs end.  An  *)
(* empty array of the first extent is valid, and there is nothing to do.   *)
Corrupt(e) == Hi(e) # 0 /\ Runs(MappingPairs(e), Lo(e)).vcn - 1 # Hi(e)
Empty(e) == Lo(e) = 0 /\ MappingPairs(e) = << >>

(* The runlist of one extent.  Only the first one knows the end of the     *)
(* attribute; a highest_vcn of zero stands for a single extent.            *)
Decompress(e) ==
  LET runs == Runs(MappingPairs(e), Lo(e))
      before == IF Lo(e) = 0 THEN << >> ELSE <<Element(0, LCN_RL_NOT_MAPPED, Lo(e))>>
      more == Lo(e) = 0 /\ Hi(e) # 0 /\ Hi(e) < N - 1
      after == IF more THEN <<Element(runs.vcn, LCN_RL_NOT_MAPPED, N - 1 - Hi(e)),
                              Element(N, LCN_ENOENT, 0)>>
               ELSE <<Element(runs.vcn, IF Lo(e) = 0 THEN LCN_ENOENT ELSE LCN_RL_NOT_MAPPED, 0)>>
  IN before \o runs.rl \o after

(* ntfs_rl_vcn_to_lcn() *)
VcnToLcn(r, vcn) ==
  IF r = << >> THEN LCN_RL_NOT_MAPPED
  ELSE LET end == Terminator(r, 1)
           i == SelectInSeq(SubSeq(r, 2, end), LAMBDA e : vcn < e.vcn)
       IN IF vcn < r[1].vcn THEN LCN_ENOENT
          ELSE IF i = 0 THEN IF r[end].lcn < 0 THEN r[end].lcn ELSE LCN_ENOENT
          ELSE IF r[i].lcn >= 0 THEN r[i].lcn + (vcn - r[i].vcn)
          ELSE r[i].lcn

-----------------------------------------------------------------------------
(* An attribute of N clusters, any of them a hole, any run adjacent to the *)
(* one before or elsewhere, cut into extents anywhere.                     *)
Layout(holes, jumps) ==
  [v \in 0 .. N - 1 |->
     IF v \in holes THEN LCN_HOLE
     ELSE v + 2 * N * (Cardinality({j \in jumps : j <= v}) % 2)]
Cut(cuts) ==
  {{v \in 0 .. N - 1 : v >= c /\ \A d \in cuts : d > c => v < d} : c \in cuts \cup {0}}

Init ==
  /\ \E holes \in SUBSET (0 .. N - 1), jumps \in SUBSET (1 .. N - 1) :
       disk = Layout(holes, jumps)
  /\ \E cuts \in SUBSET (MinFirst .. N - 1) : extents = Cut(cuts)
  /\ damaged \in {{}} \cup {{e} : e \in extents}
  /\ rl = << >>

(* ntfs_map_runlist(): unless the vcn is mapped by now, its extent is      *)
(* looked up, decompressed and merged.  An error leaves the runlist alone. *)
MapRunlist(vcn) ==
  LET e == CHOOSE x \in extents : Lo(x) <= vcn /\ \A y \in extents : Lo(y) <= vcn => Lo(y) <= Lo(x)
  IN
  /\ VcnToLcn(rl, vcn) <= LCN_RL_NOT_MAPPED
  /\ rl' = IF vcn > Hi(e) \/ Empty(e) \/ Corrupt(e) THEN rl
           ELSE IF rl = << >> THEN Decompress(e)
           ELSE IF Overlap(rl, Decompress(e)) THEN rl
           ELSE RunlistsMerge(rl, Decompress(e))
  /\ UNCHANGED <<disk, extents, damaged>>

Next == \E vcn \in 0 .. N : MapRunlist(vcn)

Spec == Init /\ [][Next]_vars

-----------------------------------------------------------------------------
(* Properties *)

(* The elements of the runlist, without what lies behind the terminator.   *)
Elements(r) == SubSeq(r, 1, Terminator(r, 1))

(* The type invariant; a runlist has a terminator, for which all its users *)
(* look.                                                                   *)
TypeOK ==
  /\ disk \in [0 .. N - 1 -> Int]
  /\ UNION extents = 0 .. N - 1
  /\ damaged \subseteq extents
  /\ rl # << >> => \E i \in DOMAIN rl : rl[i].length = 0

(* Whatever the order in which extents are merged, the runlist is a proper *)
(* one: it starts at vcn 0, its elements follow each other without gap or  *)
(* overlap, and no two neighbours could be one element.                    *)
WellFormed ==
  rl # << >> =>
    LET r == Elements(rl) IN
    /\ r[1].vcn = 0
    /\ Last(r).lcn \in {LCN_RL_NOT_MAPPED, LCN_ENOENT}
    /\ \A i \in 1 .. Len(r) - 1 : /\ r[i].length > 0
                                  /\ r[i + 1].vcn = EndOf(r[i])
    /\ \A i \in 1 .. Len(r) - 2 : ~Mergeable(r[i], r[i + 1])

(* Merging an extent makes its clusters known, all of them and as they are *)
(* on disk, and changes nothing of what was known of the others.           *)
Known == INSTANCE ClusterMap
           WITH NotMapped <- LCN_RL_NOT_MAPPED,
                lcn <- [v \in DOMAIN disk |-> VcnToLcn(rl, v)]
Implements == Known!Spec

(* ntfs_rl_vcn_to_lcn() returns "LCN_ENOENT: There is no such vcn in the   *)
(* attribute", and only for these.                                         *)
ENoEntIsAbsent == \A v \in DOMAIN disk : VcnToLcn(rl, v) # LCN_ENOENT
=============================================================================
