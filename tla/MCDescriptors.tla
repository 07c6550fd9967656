---------------------------- MODULE MCDescriptors ----------------------------
(* A process and a fork child over one descriptor table. *)
EXTENDS Descriptors

CONSTANTS parent, child

=============================================================================
