----------------------------- MODULE MCMftWrite -----------------------------
EXTENDS MftWrite

CONSTANTS m1

MCModifiers == {m1}
MCVersions == [r \in Records |-> IF r = Base THEN 2 ELSE 1]
=============================================================================
