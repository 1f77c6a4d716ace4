------------------------- MODULE MCDistributedMutex -------------------------
(* Model-checking instance of DistributedMutex: file names are model values *)
(* and interchangeable, since the engine only compares them for equality.  *)
EXTENDS DistributedMutex, TLC

CONSTANTS f1, f2

MCFiles == {f1, f2}

FileSymmetry == Permutations(MCFiles)
=============================================================================
