----------------------------- MODULE MCBdCache -----------------------------
(* The contents of sectors are only copied and compared, never inspected.     *)
EXTENDS BdCache, TLC

ValueSymmetry == Permutations(Values)
=============================================================================
