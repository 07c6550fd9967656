------------------------------ MODULE MCMemory ------------------------------
(* Guest memory for TLC.  A behaviour is one of four: a guest that unmaps    *)
(* and maps over parts of its own mappings ("own", with the constants of the *)
(* configuration), one that cuts across mappings ("cuts"), one that also     *)
(* chooses addresses ("none"), or a call of process_vm_readv or              *)
(* process_vm_writev ("copy", module ProcessVm, whose memory is its own).    *)
EXTENDS GuestMemory, ProcessVm

VARIABLE guest

TwoImages == {<<[off |-> 0, len |-> 1, prot |-> "rx"], [off |-> 2, len |-> 1, prot |-> "rw"]>>,
              <<[off |-> 0, len |-> 1, prot |-> "rx"]>>}
OneImage == {<<[off |-> 0, len |-> 1, prot |-> "rx"]>>}

Cuts == INSTANCE GuestMemory WITH
  FileLens <- {2}, Images <- OneImage, Temps <- {FALSE}, Starts <- 0..3, Breaks <- {}, Top <- 4
Any == INSTANCE GuestMemory WITH
  Lens <- {1, 3}, FileLens <- {2}, Hints <- {3}, Starts <- 0..3, Images <- OneImage,
  Temps <- {FALSE}, Breaks <- {1, 2}, Top <- 4

\* Eight bytes in pages of two; lists of up to two ranges, and one that is too long.
Ranges == {[base |-> b, len |-> n] : b \in {2, 3}, n \in {1, 3}}
            \cup {[base |-> 5, len |-> 3], [base |-> 0, len |-> 1], [base |-> 2, len |-> 0]}
IoVectors == {<<>>} \cup {<<r>> : r \in Ranges} \cup {<<r, s>> : r, s \in Ranges}
                \cup {<<r, r, r>> : r \in {[base |-> 2, len |-> 1]}}
PageSets == {0..4, {0, 1, 2}, {0, 1, 3, 4}}

VmUnused == mem = [a \in 1..Bytes |-> a] /\ present = {} /\ copies = MaxCopies /\ last = NoCall

MCInit ==
  \/ guest = "own" /\ Init /\ discipline = guest /\ VmUnused
  \/ guest = "cuts" /\ Cuts!Init /\ discipline = guest /\ VmUnused
  \/ guest = "none" /\ Any!Init /\ discipline = guest /\ VmUnused
  \/ guest = "copy" /\ Init /\ discipline = "own" /\ VmInit

MCNext ==
  \/ guest = "own" /\ Next /\ UNCHANGED <<guest, vmVars>>
  \/ guest = "cuts" /\ Cuts!Next /\ UNCHANGED <<guest, vmVars>>
  \/ guest = "none" /\ Any!Next /\ UNCHANGED <<guest, vmVars>>
  \/ guest = "copy" /\ VmNext /\ UNCHANGED <<guest, vars>>

MCSpec == MCInit /\ [][MCNext]_<<guest, vars, vmVars>>
=============================================================================
