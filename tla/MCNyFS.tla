-------------------------------- MODULE MCNyFS --------------------------------
(* NyFS on a few blocks, which no operation tells apart. *)
EXTENDS NyFS, TLC

BlockSymmetry == Permutations(Block)
===============================================================================
