-------------------------- MODULE SparseListProofs --------------------------
(***************************************************************************)
(* What an insertion into and a removal from a SparseList do, for every    *)
(* list of optional values: the index an insertion returns was free, other *)
(* slots keep their values, and the queue of free indices stays exact.     *)
(***************************************************************************)
EXTENDS SparseList, SequenceTheorems, TLAPS

Slots(S) == [data : Seq(S \cup {None}), free : Seq(Nat)]

-----------------------------------------------------------------------------
(* The index an insertion uses is a free one: the end of the vector or an  *)
(* empty slot inside it.                                                   *)
LEMMA NextIndexFree ==
  ASSUME NEW S, None \notin S, NEW l \in Slots(S), WellFormed(l)
  PROVE  /\ NextIndex(l) \in Nat
         /\ Get(l, NextIndex(l)) = None
         /\ l.free = <<>> => NextIndex(l) = Len(l.data)
         /\ l.free # <<>> => NextIndex(l) \in Indices(l)
<1>1. l.data \in Seq(S \cup {None}) /\ l.free \in Seq(Nat) /\ Len(l.data) \in Nat
  BY DEF Slots
<1>2. CASE l.free = <<>>
  BY <1>1, <1>2 DEF NextIndex, Get, Indices
<1>3. CASE l.free # <<>>
  <2>1. Len(l.free) >= 1 /\ 1 \in 1 .. Len(l.free) /\ Head(l.free) = l.free[1]
    BY <1>1, <1>3, HeadTailProperties
  <2>2. Head(l.free) \in Indices(l) \ Live(l)
    BY <2>1 DEF WellFormed
  <2> QED BY <1>1, <1>3, <2>2 DEF NextIndex, Get, Live, Indices
<1> QED BY <1>2, <1>3

(* An insertion changes the slot of its index and no other.                *)
LEMMA InsertSlots ==
  ASSUME NEW S, None \notin S, NEW l \in Slots(S), WellFormed(l), NEW v \in S
  PROVE  /\ Insert(l, v) \in Slots(S)
         /\ Get(Insert(l, v), NextIndex(l)) = v
         /\ \A i \in Int : i # NextIndex(l) => Get(Insert(l, v), i) = Get(l, i)
<1>1. l.data \in Seq(S \cup {None}) /\ l.free \in Seq(Nat) /\ Len(l.data) \in Nat
  BY DEF Slots
<1>2. CASE l.free = <<>>
  <2>1. Insert(l, v) = [data |-> Append(l.data, v), free |-> l.free]
    BY Zenon, <1>2 DEF Insert, Slots
  <2>2. /\ Append(l.data, v) \in Seq(S \cup {None})
        /\ Len(Append(l.data, v)) = Len(l.data) + 1
        /\ Append(l.data, v)[Len(l.data) + 1] = v
        /\ \A k \in 1 .. Len(l.data) : Append(l.data, v)[k] = l.data[k]
    BY <1>1
  <2>3. NextIndex(l) = Len(l.data)
    BY <1>2 DEF NextIndex
  <2> QED BY <1>1, <2>1, <2>2, <2>3 DEF Slots, Get, Indices
<1>3. CASE l.free # <<>>
  <2>1. Insert(l, v) = [data |-> [l.data EXCEPT ![NextIndex(l) + 1] = v], free |-> Tail(l.free)]
    BY <1>3 DEF Insert, NextIndex
  <2>2. NextIndex(l) \in Indices(l)
    BY <1>3, NextIndexFree
  <2>3. NextIndex(l) + 1 \in 1 .. Len(l.data)
    BY <1>1, <2>2 DEF Indices
  <2> DEFINE d == [l.data EXCEPT ![NextIndex(l) + 1] = v]
  <2>4. d \in Seq(S \cup {None}) /\ Len(d) = Len(l.data)
    BY <1>1, <2>3, ExceptSeq
  <2>5. d[NextIndex(l) + 1] = v /\ \A k \in 1 .. Len(l.data) : k # NextIndex(l) + 1 => d[k] = l.data[k]
    BY <1>1, <2>3
  <2>6. Tail(l.free) \in Seq(Nat)
    BY <1>1, <1>3, HeadTailProperties
  <2>7. Insert(l, v) \in Slots(S)
    BY <2>1, <2>4, <2>6 DEF Slots
  <2>8. Insert(l, v).data = d
    BY <2>1
  <2> HIDE DEF d
  <2> QED BY <1>1, <2>2, <2>3, <2>4, <2>5, <2>7, <2>8 DEF Get, Indices
<1> QED BY <1>2, <1>3

(* After an insertion exactly the slots in use before and the index of the *)
(* insertion are in use.                                                   *)
LEMMA InsertLive ==
  ASSUME NEW S, None \notin S, NEW l \in Slots(S), WellFormed(l), NEW v \in S
  PROVE  /\ Live(Insert(l, v)) = Live(l) \cup {NextIndex(l)}
         /\ NextIndex(l) \notin Live(l)
<1> DEFINE m == Insert(l, v)
<1>1. m \in Slots(S) /\ Get(m, NextIndex(l)) = v /\ \A i \in Int : i # NextIndex(l) => Get(m, i) = Get(l, i)
  BY InsertSlots
<1>2. NextIndex(l) \in Nat /\ Get(l, NextIndex(l)) = None
  BY NextIndexFree
<1>3. v # None
  OBVIOUS
<1> HIDE DEF m
<1>4. \A i \in Int : i \in Live(l) <=> Get(l, i) # None
  BY DEF Live, Get, Indices
<1>5. \A i \in Int : i \in Live(m) <=> Get(m, i) # None
  BY DEF Live, Get, Indices
<1>6. Live(l) \subseteq Int /\ Live(m) \subseteq Int
  BY DEF Live, Indices
<1>7. Live(m) = Live(l) \cup {NextIndex(l)} /\ NextIndex(l) \notin Live(l)
  BY <1>1, <1>2, <1>3, <1>4, <1>5, <1>6
<1> QED BY <1>7 DEF m

(* An insertion keeps the queue exact.                                     *)
LEMMA InsertWellFormed ==
  ASSUME NEW S, None \notin S, NEW l \in Slots(S), WellFormed(l), NEW v \in S
  PROVE  WellFormed(Insert(l, v))
<1>1. l.data \in Seq(S \cup {None}) /\ l.free \in Seq(Nat) /\ Len(l.data) \in Nat /\ Len(l.free) \in Nat
  BY DEF Slots
<1> DEFINE m == Insert(l, v)
<1>2. Live(m) = Live(l) \cup {NextIndex(l)}
  BY InsertLive
<1>3. CASE l.free = <<>>
  <2>1. m.free = <<>> /\ m.data = Append(l.data, v)
    BY <1>3 DEF Insert, Slots
  <2>2. Len(m.data) = Len(l.data) + 1 /\ NextIndex(l) = Len(l.data)
    BY <1>1, <1>3, <2>1 DEF NextIndex
  <2>3. Indices(m) = Indices(l) \cup {NextIndex(l)}
    BY <1>1, <2>2 DEF Indices
  <2>4. Indices(l) \ Live(l) = {}
    BY <1>3 DEF WellFormed
  <2> QED BY <1>2, <2>1, <2>3, <2>4 DEF WellFormed
<1>4. CASE l.free # <<>>
  <2>1. m.free = Tail(l.free) /\ NextIndex(l) = l.free[1]
    BY <1>1, <1>4, HeadTailProperties DEF Insert, NextIndex
  <2>2. /\ Len(m.free) = Len(l.free) - 1 /\ Len(l.free) >= 1
        /\ \A k \in 1 .. Len(m.free) : m.free[k] = l.free[k + 1]
    BY <1>1, <1>4, <2>1, HeadTailProperties
  <2>3. NextIndex(l) + 1 \in 1 .. Len(l.data)
    BY <1>1, <1>4, NextIndexFree DEF Indices
  <2>4. Len(m.data) = Len(l.data)
    BY <1>1, <1>4, <2>3, ExceptSeq DEF Insert, NextIndex
  <2>5. Indices(m) = Indices(l)
    BY <2>4 DEF Indices
  <2> HIDE DEF m
  <2>6. \A j, k \in 1 .. Len(m.free) : m.free[j] = m.free[k] => j = k
    <3> SUFFICES ASSUME NEW j \in 1 .. Len(m.free), NEW k \in 1 .. Len(m.free), m.free[j] = m.free[k]
                 PROVE  j = k
      OBVIOUS
    <3>1. j \in 1 .. (Len(l.free) - 1) /\ k \in 1 .. (Len(l.free) - 1)
      BY <2>2
    <3>2. j + 1 \in 1 .. Len(l.free) /\ k + 1 \in 1 .. Len(l.free)
      BY SMTT(30), <1>1, <3>1
    <3>3. l.free[j + 1] = l.free[k + 1]
      BY <2>2
    <3>4. j + 1 = k + 1
      BY <3>2, <3>3 DEF WellFormed
    <3> QED BY <3>1, <3>4
  <2>7. \A x : (\E k \in 1 .. Len(m.free) : m.free[k] = x) <=> (x \in Indices(l) \ Live(l) /\ x # l.free[1])
    <3>1. ASSUME NEW k \in 1 .. Len(m.free)
          PROVE  m.free[k] \in Indices(l) \ Live(l) /\ m.free[k] # l.free[1]
      <4>1. k + 1 \in 1 .. Len(l.free) /\ 1 \in 1 .. Len(l.free) /\ k + 1 # 1
        BY <1>1, <2>2
      <4>2. m.free[k] = l.free[k + 1]
        BY <2>2
      <4>3. l.free[k + 1] # l.free[1] /\ l.free[k + 1] \in Indices(l) \ Live(l)
        BY <4>1 DEF WellFormed
      <4> QED BY <4>2, <4>3
    <3>2. ASSUME NEW x \in Indices(l) \ Live(l), x # l.free[1]
          PROVE  \E k \in 1 .. Len(m.free) : m.free[k] = x
      <4>1. PICK j \in 1 .. Len(l.free) : l.free[j] = x
        BY <3>2 DEF WellFormed
      <4>2. j - 1 \in 1 .. Len(m.free) /\ m.free[j - 1] = x
        BY <1>1, <2>2, <3>2, <4>1
      <4> QED BY <4>2
    <3> QED BY <3>1, <3>2
  <2>8. {m.free[k] : k \in 1 .. Len(m.free)} = Indices(m) \ Live(m)
    BY <1>2, <2>1, <2>5, <2>7 DEF m
  <2> QED BY <2>6, <2>8 DEF WellFormed, m
<1> QED BY <1>3, <1>4

(* A removal empties its slot and changes no other.                        *)
LEMMA RemoveSlots ==
  ASSUME NEW S, None \notin S, NEW l \in Slots(S), NEW i \in Int
  PROVE  /\ Remove(l, i) \in Slots(S)
         /\ Len(Remove(l, i).data) = Len(l.data)
         /\ Get(Remove(l, i), i) = None
         /\ \A j \in Int : j # i => Get(Remove(l, i), j) = Get(l, j)
         /\ Live(Remove(l, i)) = Live(l) \ {i}
<1>1. l.data \in Seq(S \cup {None}) /\ l.free \in Seq(Nat) /\ Len(l.data) \in Nat
  BY DEF Slots
<1>2. CASE Get(l, i) = None
  <2>1. Remove(l, i) = l
    BY <1>2 DEF Remove
  <2>2. i \notin Live(l)
    BY <1>2 DEF Live, Get
  <2> QED BY <1>2, <2>1, <2>2
<1>3. CASE Get(l, i) # None
  <2>1. i \in Indices(l) /\ i + 1 \in 1 .. Len(l.data) /\ i \in Nat
    BY <1>1, <1>3 DEF Get, Indices
  <2> DEFINE d == [l.data EXCEPT ![i + 1] = None]
             m == Remove(l, i)
  <2>2. d \in Seq(S \cup {None}) /\ Len(d) = Len(l.data)
    BY <1>1, <2>1, ExceptSeq
  <2>3. d[i + 1] = None /\ \A k \in 1 .. Len(l.data) : k # i + 1 => d[k] = l.data[k]
    BY <1>1, <2>1
  <2>4. m = [data |-> d, free |-> Append(l.free, i)]
    BY <1>3 DEF Remove
  <2>5. m \in Slots(S) /\ m.data = d
    BY <1>1, <2>1, <2>2, <2>4 DEF Slots
  <2> HIDE DEF d, m
  <2>6. Indices(m) = Indices(l)
    BY <2>2, <2>5 DEF Indices
  <2>7. Get(m, i) = None /\ \A j \in Int : j # i => Get(m, j) = Get(l, j)
    <3>1. m.data[i + 1] = None
      BY <2>3, <2>5
    <3>2. \A j \in Indices(l) : j # i => m.data[j + 1] = l.data[j + 1]
      <4> SUFFICES ASSUME NEW j \in Indices(l), j # i PROVE d[j + 1] = l.data[j + 1]
        BY <2>5
      <4>1. j + 1 \in 1 .. Len(l.data) /\ j + 1 # i + 1
        BY <1>1, <2>1 DEF Indices
      <4> QED BY <2>3, <4>1
    <3> QED BY <2>1, <2>6, <3>1, <3>2 DEF Get
  <2>8. Live(m) = Live(l) \ {i}
    <3>1. \A j \in Int : j \in Live(l) <=> Get(l, j) # None
      BY DEF Live, Get, Indices
    <3>2. \A j \in Int : j \in Live(m) <=> Get(m, j) # None
      BY DEF Live, Get, Indices
    <3>3. Live(l) \subseteq Int /\ Live(m) \subseteq Int
      BY DEF Live, Indices
    <3> QED BY <2>7, <3>1, <3>2, <3>3
  <2> QED BY <2>2, <2>5, <2>7, <2>8 DEF m
<1> QED BY <1>2, <1>3

(* A removal keeps the queue exact: an index that was empty already is not *)
(* queued again.                                                           *)
LEMMA RemoveWellFormed ==
  ASSUME NEW S, None \notin S, NEW l \in Slots(S), WellFormed(l), NEW i \in Int
  PROVE  WellFormed(Remove(l, i))
<1>1. l.data \in Seq(S \cup {None}) /\ l.free \in Seq(Nat) /\ Len(l.data) \in Nat /\ Len(l.free) \in Nat
  BY DEF Slots
<1>2. CASE Get(l, i) = None
  BY <1>2 DEF Remove
<1>3. CASE Get(l, i) # None
  <2> DEFINE m == Remove(l, i)
  <2>1. i \in Indices(l) /\ i \in Live(l)
    BY <1>3 DEF Get, Live
  <2>2. m.free = Append(l.free, i)
    BY <1>3 DEF Remove
  <2>3. Live(m) = Live(l) \ {i} /\ Len(m.data) = Len(l.data)
    BY RemoveSlots
  <2>4. Indices(m) = Indices(l)
    BY <2>3 DEF Indices
  <2>5. /\ Len(m.free) = Len(l.free) + 1 /\ m.free[Len(l.free) + 1] = i
        /\ \A k \in 1 .. Len(l.free) : m.free[k] = l.free[k]
    BY <1>1, <2>1, <2>2 DEF Indices
  <2> HIDE DEF m
  <2>6. \A k \in 1 .. Len(l.free) : l.free[k] \in Indices(l) \ Live(l) /\ l.free[k] # i
    BY <2>1 DEF WellFormed
  <2>7. \A j, k \in 1 .. Len(m.free) : m.free[j] = m.free[k] => j = k
    <3> SUFFICES ASSUME NEW j \in 1 .. Len(m.free), NEW k \in 1 .. Len(m.free), m.free[j] = m.free[k]
                 PROVE  j = k
      OBVIOUS
    <3>1. CASE j \in 1 .. Len(l.free) /\ k \in 1 .. Len(l.free)
      BY <2>5, <3>1 DEF WellFormed
    <3>2. CASE j = Len(l.free) + 1 /\ k \in 1 .. Len(l.free)
      <4>1. m.free[j] = i /\ m.free[k] = l.free[k] /\ l.free[k] # i
        BY <2>5, <2>6, <3>2
      <4> QED BY Zenon, <4>1
    <3>3. CASE k = Len(l.free) + 1 /\ j \in 1 .. Len(l.free)
      <4>1. m.free[k] = i /\ m.free[j] = l.free[j] /\ l.free[j] # i
        BY <2>5, <2>6, <3>3
      <4> QED BY <4>1
    <3> QED BY SMTT(30), <1>1, <2>5, <3>1, <3>2, <3>3
  <2>8. \A x : (\E k \in 1 .. Len(m.free) : m.free[k] = x) <=> (x \in Indices(l) \ Live(l) \/ x = i)
    <3>1. ASSUME NEW k \in 1 .. Len(m.free)
          PROVE  m.free[k] \in Indices(l) \ Live(l) \/ m.free[k] = i
      <4>1. k \in 1 .. Len(l.free) \/ k = Len(l.free) + 1
        BY <1>1, <2>5
      <4>2. CASE k \in 1 .. Len(l.free)
        BY <2>5, <2>6, <4>2
      <4>3. CASE k = Len(l.free) + 1
        BY <2>5, <4>3
      <4> QED BY <4>1, <4>2, <4>3
    <3>2. ASSUME NEW x \in Indices(l) \ Live(l)
          PROVE  \E k \in 1 .. Len(m.free) : m.free[k] = x
      <4>1. PICK k \in 1 .. Len(l.free) : l.free[k] = x
        BY <3>2 DEF WellFormed
      <4>2. k \in 1 .. Len(m.free)
        BY <1>1, <2>5
      <4>3. m.free[k] = x
        BY Zenon, <2>5, <4>1
      <4> QED BY <4>2, <4>3
    <3>3. Len(l.free) + 1 \in 1 .. Len(m.free)
      BY <1>1, <2>5
    <3> QED BY <2>5, <3>1, <3>2, <3>3
  <2>9. {m.free[k] : k \in 1 .. Len(m.free)} = Indices(m) \ Live(m)
    BY <2>1, <2>3, <2>4, <2>8 DEF m
  <2> QED BY <2>7, <2>9 DEF WellFormed, m
<1> QED BY <1>2, <1>3

(* What a slot holds is a value or nothing, and the slots in use are those *)
(* that hold a value.                                                      *)
LEMMA GetType ==
  ASSUME NEW S, None \notin S, NEW l \in Slots(S)
  PROVE  /\ \A i : Get(l, i) \in S \cup {None}
         /\ \A i : i \in Live(l) <=> Get(l, i) # None
         /\ Live(l) \subseteq Nat
<1>1. l.data \in Seq(S \cup {None}) /\ Len(l.data) \in Nat
  BY DEF Slots
<1>2. ASSUME NEW i \in Indices(l) PROVE l.data[i + 1] \in S \cup {None} /\ i \in Nat
  <2>1. i + 1 \in 1 .. Len(l.data) /\ i \in Nat
    BY <1>1, <1>2 DEF Indices
  <2> QED BY <1>1, <2>1
<1> QED BY <1>2 DEF Get, Live

(* A clear empties every slot and queues every index once.                 *)
LEMMA ClearSlots ==
  ASSUME NEW S, None \notin S, NEW l \in Slots(S)
  PROVE  /\ Clear(l) \in Slots(S) /\ WellFormed(Clear(l))
         /\ \A i : Get(Clear(l), i) = None
<1> DEFINE n == Len(l.data)
           d == [k \in 1 .. n |-> None]
           f == [k \in 1 .. n |-> k - 1]
<1>1. n \in Nat
  BY DEF Slots
<1>2. Clear(l) = [data |-> d, free |-> f]
  BY DEF Clear
<1> HIDE DEF n
<1>3. d \in Seq(S \cup {None}) /\ Len(d) = n
  BY <1>1
<1>4. f \in Seq(Nat) /\ Len(f) = n
  BY <1>1
<1>5. \A k \in 1 .. n : d[k] = None /\ f[k] = k - 1
  OBVIOUS
<1> HIDE DEF d, f
<1>6. Clear(l).data = d /\ Clear(l).free = f /\ Clear(l) \in Slots(S)
  BY <1>2, <1>3, <1>4 DEF Slots
<1>7. Indices(Clear(l)) = 0 .. n - 1 /\ \A i \in 0 .. n - 1 : Clear(l).data[i + 1] = None
  BY <1>1, <1>3, <1>5, <1>6 DEF Indices
<1>8. (\A i : Get(Clear(l), i) = None) /\ Live(Clear(l)) = {}
  BY <1>7 DEF Get, Live
<1>9. WellFormed(Clear(l))
  <2>1. \A j, k \in 1 .. n : f[j] = f[k] => j = k
    BY <1>1, <1>5
  <2>2. {f[k] : k \in 1 .. n} = 0 .. n - 1
    <3>1. \A k \in 1 .. n : f[k] \in 0 .. n - 1
      BY <1>1, <1>5
    <3>2. ASSUME NEW x \in 0 .. n - 1 PROVE x + 1 \in 1 .. n /\ f[x + 1] = x
      BY <1>1, <1>5
    <3> QED BY <3>1, <3>2
  <2> QED BY <1>4, <1>6, <1>7, <1>8, <2>1, <2>2 DEF WellFormed
<1> QED BY <1>6, <1>8, <1>9
=============================================================================
