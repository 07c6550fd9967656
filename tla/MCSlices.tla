------------------------------ MODULE MCSlices ------------------------------
(* Slices of guest code for TLC.  A behaviour is about one of three things:  *)
(* the pages and the translated blocks of the dynarmic backend ("pages",     *)
(* module JitBackend with the constants of the configuration), LDXR and STXR *)
(* of tasks that take turns on it ("atomics"), or the registers and stacks   *)
(* of tasks and host calls ("contexts", module TaskContexts).                *)
EXTENDS JitBackend, TaskContexts, TLC

VARIABLE part

Atomics == INSTANCE JitBackend WITH NumPages <- 1, Contents <- {"c"}, MaxWord <- 3

MCInit ==
  /\ ContextsInit
  /\ \/ part \in {"pages", "contexts"} /\ Init
     \/ part = "atomics" /\ Atomics!Init

MCNext ==
  \/ part = "pages" /\ Next /\ UNCHANGED <<part, contextVars>>
  \/ part = "atomics" /\ Atomics!Next /\ UNCHANGED <<part, contextVars>>
  \/ part = "contexts" /\ ContextsNext /\ UNCHANGED <<part, vars>>

MCSymmetry == Permutations(Tasks)

MCSpec == MCInit /\ [][MCNext]_<<part, vars, contextVars>>
=============================================================================
