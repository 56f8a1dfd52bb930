----------------------------- MODULE ClusterMap -----------------------------
(***************************************************************************)
(* What the runlist of an attribute promises to its readers: a map from    *)
(* virtual clusters to places on the volume.  The attribute's extents are  *)
(* learned one at a time, each of them completely, and what is known of a  *)
(* cluster is what is on disk.                                             *)
(***************************************************************************)
EXTENDS Integers

CONSTANT NotMapped

VARIABLES
  disk,         \* where each cluster of the attribute is
  extents,      \* the attribute extents, intervals of clusters
  lcn           \* what is known of each cluster

Init == lcn = [v \in DOMAIN disk |-> NotMapped]

Learn(e) ==
  /\ \A v \in e : lcn[v] = NotMapped
  /\ lcn' = [v \in DOMAIN disk |-> IF v \in e THEN disk[v] ELSE lcn[v]]

Next == UNCHANGED <<disk, extents>> /\ \E e \in extents : Learn(e)

Spec == Init /\ [][Next]_<<disk, extents, lcn>>
=============================================================================
