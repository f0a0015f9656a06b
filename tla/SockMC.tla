------------------------------- MODULE SockMC -------------------------------
(* Values for the constants of Sock that the configurations share. *)
EXTENDS Sock, TLC

Symmetry == Permutations(Peers)
=============================================================================
