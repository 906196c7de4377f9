--------------------------- MODULE MCAtomicWrite ----------------------------
(* TLC instance of AtomicWrite. *)
EXTENDS AtomicWrite, TLC

Symmetry == Permutations(Inode)
=============================================================================
