----------------------------- MODULE KeepAliveMC -----------------------------
(* Values for the constants of KeepAlive that the configurations share. *)
EXTENDS KeepAlive, TLC

Symmetry == Permutations(Peers)
=============================================================================
