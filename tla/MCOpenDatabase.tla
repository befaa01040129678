--------------------------- MODULE MCOpenDatabase ---------------------------
(* Instances of OpenDatabase for TLC: an older and newer builds. *)
EXTENDS OpenDatabase, TLC

CONSTANT Older

ThreeVersions == 1 .. 3
Builds   == [r \in Runners |-> IF r = Older THEN {1} ELSE ThreeVersions]
Names    == <<"", "-journal", "-wal", "-shm">>
Symmetry == Permutations(Runners \ {Older})
=============================================================================
