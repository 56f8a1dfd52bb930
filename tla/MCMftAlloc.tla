----------------------------- MODULE MCMftAlloc -----------------------------
EXTENDS MftAlloc, TLC

CONSTANTS t1, t2

MCTasks == {t1, t2}
Symmetry == Permutations(MCTasks)

(* $MFT with room in the data or in the allocated size, and as large as it *)
(* can be.                                                                 *)
MCStarts == {<<2, 2>>, <<2, 4>>, <<5, 5>>}
MCPageRecords == {1, 2}
=============================================================================
