------------------------------ MODULE MCVolume ------------------------------
(* Two volumes mounted and unmounted concurrently, with every failure.     *)
EXTENDS Volume

CONSTANTS v1, v2
MCVolumes == {v1, v2}
=============================================================================
