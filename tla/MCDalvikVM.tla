----------------------------- MODULE MCDalvikVM -----------------------------
(* Five bounded guests for TLC, one of which a behaviour starts with: one    *)
(* that makes and drops references ("refs", with the constants of the        *)
(* configuration), one that does so in nested calls ("nested"), one that     *)
(* looks up and registers members ("members"), one that copies strings and   *)
(* arrays to and from guest memory ("buffers"), and one that uses only what  *)
(* it holds ("calls").                                                       *)
EXTENDS DalvikVM

VARIABLE guest

\* The resolver's classes: plain objects; errors, strings and arrays.
Resolver == <<"Object", "Builtin">>

Nested == INSTANCE DalvikVM WITH MaxObjects <- 2, MaxDepth <- 2
MembersOnly == INSTANCE DalvikVM WITH
  ClassNames <- {"A"}, MemberNames <- {"f", "g"}, MaxClasses <- 3, MaxMembers <- 2,
  MaxObjects <- 1, MaxDepth <- 1
BuffersOnly == INSTANCE DalvikVM WITH
  MemberNames <- {}, Lengths <- {1, 2}, MaxMembers <- 0,
  MaxObjects <- 2, MaxDepth <- 1, MaxBuffers <- 2
CallsOnly == INSTANCE DalvikVM WITH
  Lengths <- {1}, ResultKinds <- {"array"}, MaxObjects <- 2, MaxBuffers <- 1

MCInit ==
  /\ \/ guest = "refs" /\ Init
     \/ guest = "nested" /\ Nested!Init
     \/ guest = "members" /\ MembersOnly!Init
     \/ guest = "buffers" /\ BuffersOnly!Init
     \/ guest = "calls" /\ CallsOnly!Init
  /\ disciplined = (guest = "calls")

MCNext ==
  \/ guest = "refs" /\ Next /\ UNCHANGED guest
  \/ guest = "nested" /\ Nested!Next /\ UNCHANGED guest
  \/ guest = "members" /\ MembersOnly!Next /\ UNCHANGED guest
  \/ guest = "buffers" /\ BuffersOnly!Next /\ UNCHANGED guest
  \/ guest = "calls" /\ CallsOnly!Next /\ UNCHANGED guest

MCSpec == MCInit /\ [][MCNext]_<<vars, guest>>
=============================================================================
