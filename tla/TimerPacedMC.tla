---------------------------- MODULE TimerPacedMC ----------------------------
(* Values for the constants of TimerPaced that the configurations share. *)
EXTENDS TimerPaced, TLC

Symmetry == Permutations(Conns)
=============================================================================
