----------------------------- MODULE MCUringOpt -----------------------------
(* Model checking of UringOpt: see the MCUringOpt_*.cfg files.             *)
EXTENDS UringOpt, TLC

Symmetry == Permutations(Conns)
=============================================================================
