----------------------------- MODULE MCPageRead -----------------------------
EXTENDS PageRead

CONSTANTS p1, p2

(* The first record of the first page is torn on disk.                     *)
FirstTorn == {<<p1, 0>>}

(* Two records of two buffers; three unprotected buffers of every kind;    *)
(* and two pages whose readers share the runlist.                          *)
MCPlaces(s) == [p \in {p1, p2} |-> s]
MCShapes ==
  {[mst |-> TRUE, nr |-> 4, rec |-> 2, pages |-> {p1},
    places |-> MCPlaces({"data", "fresh", "hole", "outside"})],
   [mst |-> FALSE, nr |-> 3, rec |-> 1, pages |-> {p1},
    places |-> MCPlaces({"data", "tail", "fresh", "hole", "outside"})],
   [mst |-> FALSE, nr |-> 2, rec |-> 1, pages |-> {p1, p2},
    places |-> [p \in {p1, p2} |-> IF p = p1 THEN {"data"} ELSE {"hole"}]]}
=============================================================================
