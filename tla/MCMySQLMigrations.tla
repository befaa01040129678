------------------------- MODULE MCMySQLMigrations -------------------------
(* Instances of MySQLMigrations for TLC: an older and two newer builds.   *)
EXTENDS MySQLMigrations, TLC

CONSTANT Older

ThreeVersions == 1 .. 3
Builds   == [r \in Runners |-> IF r = Older THEN {1} ELSE ThreeVersions]
TwoEach  == [v \in ThreeVersions |-> 2]
Symmetry == Permutations(Runners \ {Older})
=============================================================================
