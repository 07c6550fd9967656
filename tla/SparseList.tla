----------------------------- MODULE SparseList -----------------------------
(***************************************************************************)
(* The slot table behind the descriptor table and the two JNI reference    *)
(* pools: a vector of optional values and a queue of free indices.  A      *)
(* removed index goes to the back of the queue and an insertion takes the  *)
(* front.  Indices count from 0, as in the code; TLA+ sequences from 1.    *)
(***************************************************************************)
EXTENDS Integers, Sequences

CONSTANT None   \* the empty slot

New == [data |-> <<>>, free |-> <<>>]

Indices(l) == 0 .. Len(l.data) - 1

\* get and get_mut; a negative descriptor is a huge usize, out of range too.
Get(l, i) == IF i \in Indices(l) THEN l.data[i + 1] ELSE None

Live(l) == {i \in Indices(l) : l.data[i + 1] # None}

Put(l, i, v) == [l EXCEPT !.data[i + 1] = v]

\* The index the next insertion returns.
NextIndex(l) == IF l.free = <<>> THEN Len(l.data) ELSE Head(l.free)

\* Mutant: the queue of free indices is not asked.
InsertAtEnd(l, v) == [l EXCEPT !.data = Append(l.data, v)]

Insert(l, v) ==
  IF l.free = <<>>
    THEN [l EXCEPT !.data = Append(l.data, v)]
    ELSE [data |-> [l.data EXCEPT ![Head(l.free) + 1] = v], free |-> Tail(l.free)]

\* Mutant: the index is pushed even when the slot was already empty.
RemoveUnchecked(l, i) ==
  IF i \in Indices(l)
    THEN [data |-> [l.data EXCEPT ![i + 1] = None], free |-> Append(l.free, i)]
    ELSE l

Remove(l, i) ==
  IF Get(l, i) # None
    THEN [data |-> [l.data EXCEPT ![i + 1] = None], free |-> Append(l.free, i)]
    ELSE l

\* Mutant: the queue of free indices is kept across a clear.
ClearKeepsQueue(l) ==
  [data |-> [k \in 1 .. Len(l.data) |-> None],
   free |-> l.free \o [k \in 1 .. Len(l.data) |-> k - 1]]

Clear(l) ==
  [data |-> [k \in 1 .. Len(l.data) |-> None],
   free |-> [k \in 1 .. Len(l.data) |-> k - 1]]

\* Every empty slot is queued exactly once, and nothing else is queued.
WellFormed(l) ==
  /\ \A j, k \in 1 .. Len(l.free) : l.free[j] = l.free[k] => j = k
  /\ {l.free[k] : k \in 1 .. Len(l.free)} = Indices(l) \ Live(l)

=============================================================================
