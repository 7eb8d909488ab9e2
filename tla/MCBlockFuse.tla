---------------------------- MODULE MCBlockFuse -----------------------------
(* BlockFuse for TLC.  Names and bytes are interchangeable. *)
EXTENDS BlockFuse

Symmetry == Permutations(Names) \cup Permutations(Bytes)
=============================================================================
