---------------------------- MODULE MCBionicMutex ----------------------------
(* Instances of BionicMutex for TLC. *)
EXTENDS BionicMutex, TLC

Symm == Permutations(Threads) \cup Permutations(Words)
=============================================================================
