---------------------------- MODULE MCInodeCache ----------------------------
(* The base is a directory with a bitmap and a named stream, or a file     *)
(* with an index and the index's bitmap.                                   *)
EXTENDS InodeCache

CONSTANTS base, bitmap, stream, index, sdhBitmap

MCShapes ==
  {[attrs |-> {bitmap, stream}, bitmap |-> base :> bitmap],
   [attrs |-> {index, sdhBitmap}, bitmap |-> index :> sdhBitmap]}

MCSymmetry == Permutations(Tasks) \cup Permutations(Slots)
=============================================================================
