---------------------------- MODULE MCMftRecord -----------------------------
EXTENDS MftRecord

CONSTANTS t1, t2

MCTasks == {t1, t2}
MCExtents == 1 .. 5
MCSeq == [n \in 0 .. 5 |-> n + 1]

(* One entry in the base record, the extents' own, one without a sequence  *)
(* number, and two stale references.                                       *)
MCList == <<[mft |-> 0, seq |-> 1], [mft |-> 1, seq |-> 2], [mft |-> 2, seq |-> 3],
            [mft |-> 3, seq |-> 4], [mft |-> 4, seq |-> 5], [mft |-> 5, seq |-> 0],
            [mft |-> 1, seq |-> 9], [mft |-> 0, seq |-> 9]>>
=============================================================================
