---------------------------- MODULE MCDispatcher ----------------------------
(* Instances of Dispatcher for TLC. *)
EXTENDS Dispatcher, TLC

Symm == Permutations(Threads) \cup Permutations(Mains) \cup Permutations(Words)
=============================================================================
