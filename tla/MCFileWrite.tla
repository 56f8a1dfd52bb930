---------------------------- MODULE MCFileWrite ----------------------------
EXTENDS FileWrite

(* A full volume, and some room.                                           *)
MCClusters == {0, 2}
MCSizes == {0, 1, 2, 4, 7}
MCWrites == {<<0, 1>>, <<0, 3>>, <<1, 2>>, <<1, 4>>, <<2, 7>>, <<4, 5>>, <<5, 6>>}
MCStarts == {<<0, 0>>, <<1, 0>>, <<2, 1>>, <<4, 4>>}
=============================================================================
