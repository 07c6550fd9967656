------------------------------- MODULE FdTable -------------------------------
(***************************************************************************)
(* What the descriptor table promises: a partial map from numbers to       *)
(* files.  An open takes a number that is not in use, a pipe takes two, a  *)
(* close removes one entry that is no pipe end, and the other descriptors  *)
(* keep their files.                                                       *)
(***************************************************************************)
EXTENDS Integers

CONSTANTS FileSet, PipeEnds

VARIABLE table   \* a function from the descriptors in use to files

Init == table \in [0 .. 2 -> FileSet \ PipeEnds]

\* Exactly the descriptors of set s are new, with files of set k.
Gain(s, k) ==
  /\ s \cap DOMAIN table = {} /\ DOMAIN table' = DOMAIN table \cup s
  /\ \A i \in s : i \in Nat /\ table'[i] \in k
  /\ \A i \in DOMAIN table : table'[i] = table[i]

Open == \E fd \in DOMAIN table' : Gain({fd}, FileSet \ PipeEnds)

Pipe == \E r, w \in DOMAIN table' : r # w /\ Gain({r, w}, PipeEnds)

Close ==
  \E fd \in DOMAIN table :
    /\ table[fd] \notin PipeEnds
    /\ table' = [i \in DOMAIN table \ {fd} |-> table[i]]

Next == Open \/ Pipe \/ Close

Spec == Init /\ [][Next]_table

=============================================================================
