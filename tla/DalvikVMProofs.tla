--------------------------- MODULE DalvikVMProofs ---------------------------
(***************************************************************************)
(* References, member ids, results and copies of DalvikVM, for every set   *)
(* of classes and members, every number of references and every depth of   *)
(* nested calls.                                                           *)
(***************************************************************************)
EXTENDS DalvikVM, SparseListProofs, FiniteSetTheorems, WellFoundedInduction

-----------------------------------------------------------------------------
(* The inductive invariant *)

MemberSet == [kind : {"method", "field"}, name : STRING, fn : BOOLEAN]

\* The objects the emulator still knows: those in the pools and the exception.
Values(l) == {Get(l, i) : i \in Live(l)}
Alive == Values(local) \cup Values(global) \cup ({throwable} \ {None})

PoolInv ==
  /\ \A pool \in {local, global} : pool \in Slots(Objects) /\ WellFormed(pool)
  /\ lheld \subseteq Nat \X Objects /\ gheld \subseteq Nat \X Objects
  /\ throwable \in Objects \cup {None}
  /\ HandleStable

MetaInv ==
  /\ classes \in Seq(STRING) /\ Len(classes) \in Len(InitClasses) .. MaxClasses
  /\ members \in [1 .. MaxClasses -> Seq(MemberSet)]
  /\ \A c \in 1 .. MaxClasses : Len(members[c]) <= MaxMembers

\* An id is the place of its member, which never moves.
Placed(i) ==
  /\ i[1] \in 1 .. Len(classes)
  /\ \E j \in 1 .. Len(members[i[1]]) :
       /\ i[4] = MemberId(i[1], j)
       /\ members[i[1]][j].kind = i[2] /\ members[i[1]][j].name = i[3]

IdInv == \A i \in ids : Placed(i)

\* The instance behind an exception is a global reference that the guest does not
\* hold and so cannot delete; other objects have a class.
Sound(o) ==
  IF o.kind = "objref"
    THEN /\ Get(global, o.n) # None
         /\ Get(global, o.n).kind = "simple" /\ Get(global, o.n).n = ErrorClass
         /\ \A p \in gheld : p[1] # o.n
    ELSE o.n \in 1 .. Len(classes)

\* Copies of a reference are told by the number of the object; a buffer has the
\* size of the object it was made for as long as anyone can refer to it.
CopyInv ==
  /\ born \in Nat
  /\ \A o \in Alive : o.obj \in 1 .. born
  /\ \A o, q \in Alive : o.obj = q.obj => Extent(o) = Extent(q)
  /\ \A b \in bufs : /\ b.of \in 1 .. born
                     /\ \A o \in Alive : o.obj = b.of => b.pages = Pages(Extent(o))

HostInv ==
  /\ frames \in Seq({"method", "export", "onload"})
  /\ panicked \in BOOLEAN /\ disciplined \in BOOLEAN
  /\ HostGetsResult /\ FreedAsAllocated

DvmInv == PoolInv /\ MetaInv /\ IdInv /\ (\A o \in Alive : Sound(o)) /\ CopyInv /\ HostInv

-----------------------------------------------------------------------------
(* Numbers *)

\* A set of natural numbers that is not empty has a least element.
LEMMA LeastNat ==
  ASSUME NEW S \in SUBSET Nat, S # {}
  PROVE  \E i \in S : \A j \in S : i <= j
<1> DEFINE R == OpToRel(<, Nat)
<1>1. IsWellFoundedOn(R, Nat)
  BY Zenon, NatLessThanWellFounded
<1>2. \A x, y \in Nat : <<x, y>> \in R <=> x < y
  BY Zenon DEF OpToRel
<1> HIDE DEF R
<1>3. PICK i \in S : \A j \in S : ~(<<j, i>> \in R)
  BY Zenon, <1>1, WFMin
<1>4. ASSUME NEW j \in S PROVE i <= j
  <2>1. ~(j < i)
    BY Zenon, <1>2, <1>3
  <2>2. QED BY <2>1
<1>5. QED BY Zenon, <1>4

\* Products of natural numbers.
LEMMA Products ==
  /\ \A r, d \in Nat : r * d \in Nat
  /\ \A r \in Nat \ {0}, d \in Int : d >= 1 => r * d >= r
<1>1. ASSUME NEW r \in Nat, NEW d \in Nat PROVE r * d \in Nat
  OBVIOUS
<1>2. ASSUME NEW r \in Nat \ {0}, NEW d \in Int, d >= 1 PROVE r * d >= r
  BY <1>2
<1>3. QED BY Zenon, <1>1, <1>2

\* The remainder of a multiple of r and a smaller number is that number.
LEMMA Remainder ==
  ASSUME NEW r \in Nat \ {0}, NEW a \in Nat, NEW i \in 0 .. r - 1
  PROVE  (a * r + i) % r = i
<1>1. PICK x : x = a * r + i
  BY Zenon
<1>2. x \in Nat /\ x \div r \in Int /\ x % r \in 0 .. r - 1 /\ x = r * (x \div r) + (x % r)
  BY <1>1, Products
<1>3. PICK q \in Int : q = x \div r
  BY Zenon, <1>2
<1>4. x % r \in Int /\ r * (a - q) = (x % r) - i
  BY <1>1, <1>2, <1>3
<1>5. a - q < 1 /\ q - a < 1
  <2>1. a - q >= 1 => r * (a - q) >= r
    BY Products
  <2>2. q - a >= 1 => r * (q - a) >= r /\ r * (q - a) = -(r * (a - q))
    BY Products
  <2>3. QED BY <1>2, <1>4, <2>1, <2>2
<1>6. QED BY <1>2, <1>4, <1>5

-----------------------------------------------------------------------------
(* Pools *)

\* A new value in a pool: it is told by the index that is returned, nothing else
\* changes, and the index was free.
LEMMA PoolInsert ==
  ASSUME NEW l \in Slots(Objects), WellFormed(l), NEW o \in Objects
  PROVE  /\ Insert(l, o) \in Slots(Objects) /\ WellFormed(Insert(l, o))
         /\ NextIndex(l) \in Nat /\ Get(l, NextIndex(l)) = None
         /\ Get(Insert(l, o), NextIndex(l)) = o
         /\ \A i \in Int : i # NextIndex(l) => Get(Insert(l, o), i) = Get(l, i)
         /\ Values(Insert(l, o)) = Values(l) \cup {o}
<1>1. None \notin Objects
  BY Zenon, ObjectsAssumption
<1>2. /\ Insert(l, o) \in Slots(Objects) /\ WellFormed(Insert(l, o))
      /\ NextIndex(l) \in Nat /\ Get(l, NextIndex(l)) = None
      /\ Get(Insert(l, o), NextIndex(l)) = o
      /\ \A i \in Int : i # NextIndex(l) => Get(Insert(l, o), i) = Get(l, i)
      /\ Live(Insert(l, o)) = Live(l) \cup {NextIndex(l)} /\ NextIndex(l) \notin Live(l)
  BY <1>1, NextIndexFree, InsertSlots, InsertWellFormed, InsertLive
<1>3. Live(l) \subseteq Nat
  BY Zenon, <1>1, GetType
<1>4. \A i \in Live(l) : Get(Insert(l, o), i) = Get(l, i)
  BY <1>2, <1>3
<1>5. Values(Insert(l, o)) = Values(l) \cup {o}
  BY <1>2, <1>4 DEF Values
<1>6. QED BY Zenon, <1>2, <1>5

\* A removal.
LEMMA PoolRemove ==
  ASSUME NEW l \in Slots(Objects), WellFormed(l), NEW n \in Nat
  PROVE  /\ Remove(l, n) \in Slots(Objects) /\ WellFormed(Remove(l, n))
         /\ \A i \in Int : i # n => Get(Remove(l, n), i) = Get(l, i)
         /\ Values(Remove(l, n)) \subseteq Values(l)
<1>1. None \notin Objects
  BY Zenon, ObjectsAssumption
<1>2. /\ Remove(l, n) \in Slots(Objects) /\ WellFormed(Remove(l, n))
      /\ \A i \in Int : i # n => Get(Remove(l, n), i) = Get(l, i)
      /\ Live(Remove(l, n)) = Live(l) \ {n}
  BY <1>1, RemoveSlots, RemoveWellFormed
<1>3. Live(l) \subseteq Nat
  BY Zenon, <1>1, GetType
<1>4. \A i \in Live(Remove(l, n)) : i \in Live(l) /\ Get(Remove(l, n), i) = Get(l, i)
  BY <1>2, <1>3
<1>5. QED BY Zenon, <1>2, <1>4 DEF Values

\* A clear.
LEMMA PoolClear ==
  ASSUME NEW l \in Slots(Objects)
  PROVE  Clear(l) \in Slots(Objects) /\ WellFormed(Clear(l)) /\ Values(Clear(l)) = {}
<1>1. None \notin Objects
  BY Zenon, ObjectsAssumption
<1>2. Clear(l) \in Slots(Objects) /\ WellFormed(Clear(l)) /\ \A i : Get(Clear(l), i) = None
  BY Zenon, <1>1, ClearSlots
<1>3. Live(Clear(l)) = {}
  BY Zenon, <1>1, <1>2, GetType
<1>4. QED BY Zenon, <1>2, <1>3 DEF Values

\* What a pool gives for a number is an object the emulator knows, or nothing.
LEMMA PoolValues ==
  ASSUME NEW l \in Slots(Objects)
  PROVE  /\ \A i : Get(l, i) # None => Get(l, i) \in Values(l) /\ Get(l, i) \in Objects /\ i \in Nat
         /\ Values(l) \subseteq Objects
BY ObjectsAssumption, GetType DEF Values

-----------------------------------------------------------------------------
(* What a step may do to the pools *)

\* Global references that the guest does not hold stay, and what it is newly given
\* was free.
GlobalKept ==
  \A i \in Nat : Get(global, i) # None /\ (\A p \in gheld : p[1] # i) => Get(global', i) = Get(global, i)
HeldKept == \A p \in gheld' : Get(global, p[1]) = None \/ \E q \in gheld : q[1] = p[1]

\* Everything known is an object.
LEMMA AliveObjects == ASSUME PoolInv PROVE Alive \subseteq Objects
BY Zenon, PoolValues DEF PoolInv, Alive

\* A new local reference.
LEMMA LocalAdd ==
  ASSUME PoolInv, NEW o \in Objects, AddLocal(o), UNCHANGED <<global, gheld, throwable>>
  PROVE  PoolInv' /\ Alive' = Alive \cup {o}
<1> DEFINE n == NextIndex(local)
<1>1. /\ local' \in Slots(Objects) /\ WellFormed(local') /\ n \in Nat /\ Get(local, n) = None
      /\ Get(local', n) = o /\ \A i \in Int : i # n => Get(local', i) = Get(local, i)
      /\ Values(local') = Values(local) \cup {o}
  BY Zenon, PoolInsert DEF PoolInv, AddLocal
<1>2. lheld' = lheld \cup {<<n, o>>}
  BY Zenon DEF AddLocal
<1> HIDE DEF n
<1>3. ASSUME NEW p \in lheld' PROVE Get(local', p[1]) = p[2] /\ p \in Nat \X Objects
  <2>1. CASE p \in lheld
    <3>1. p[1] \in Nat /\ p[2] \in Objects /\ Get(local, p[1]) = p[2] /\ p \in Nat \X Objects
      BY Zenon, <2>1 DEF PoolInv, HandleStable
    <3>2. p[1] # n
      BY Zenon, <1>1, <3>1, ObjectsAssumption
    <3>3. QED BY <1>1, <3>1, <3>2
  <2>2. CASE p = <<n, o>>
    BY Zenon, <1>1, <2>2
  <2>3. QED BY Zenon, <1>2, <2>1, <2>2
<1>4. PoolInv'
  BY Zenon, <1>1, <1>3 DEF PoolInv, HandleStable
<1>5. QED BY Zenon, <1>1, <1>4 DEF Alive

\* A new value of the global pool; the guest may be told its number.
LEMMA GlobalInsert ==
  ASSUME PoolInv, NEW o \in Objects, global' = Insert(global, o),
         gheld' = gheld \/ gheld' = gheld \cup {<<NextIndex(global), o>>},
         UNCHANGED <<local, lheld>>, throwable' \in Objects \cup {None}
  PROVE  /\ PoolInv' /\ GlobalKept /\ HeldKept
         /\ Get(global', NextIndex(global)) = o /\ NextIndex(global) \in Nat
         /\ \A p \in gheld : p[1] # NextIndex(global)
         /\ Alive' \subseteq Alive \cup {o} \cup ({throwable'} \ {None})
<1> DEFINE n == NextIndex(global)
<1>1. /\ global' \in Slots(Objects) /\ WellFormed(global') /\ n \in Nat /\ Get(global, n) = None
      /\ Get(global', n) = o /\ \A i \in Int : i # n => Get(global', i) = Get(global, i)
      /\ Values(global') = Values(global) \cup {o}
  BY Zenon, PoolInsert DEF PoolInv
<1> HIDE DEF n
<1>2. ASSUME NEW p \in gheld
      PROVE  p[1] # n /\ Get(global', p[1]) = p[2] /\ p \in Nat \X Objects
  <2>1. p[1] \in Nat /\ p[2] \in Objects /\ Get(global, p[1]) = p[2] /\ p \in Nat \X Objects
    BY Zenon, <1>2 DEF PoolInv, HandleStable
  <2>2. p[1] # n
    BY Zenon, <1>1, <2>1, ObjectsAssumption
  <2>3. QED BY <1>1, <2>1, <2>2
<1>3. \A p \in gheld' : p \in gheld \/ p = <<n, o>>
  BY Zenon DEF n
<1>4. ASSUME NEW p \in gheld' PROVE Get(global', p[1]) = p[2] /\ p \in Nat \X Objects
  BY <1>1, <1>2, <1>3
<1>5. PoolInv'
  BY Zenon, <1>1, <1>4 DEF PoolInv, HandleStable
<1>6. GlobalKept
  BY <1>1 DEF GlobalKept
<1>7. HeldKept
  BY <1>1, <1>3 DEF HeldKept
<1>8. Alive' \subseteq Alive \cup {o} \cup ({throwable'} \ {None})
  BY Zenon, <1>1 DEF Alive
<1>9. QED BY Zenon, <1>1, <1>2, <1>5, <1>6, <1>7, <1>8 DEF n

\* A local reference is deleted, or all of them are.
LEMMA LocalDrop ==
  ASSUME PoolInv, UNCHANGED <<global, gheld, throwable>>,
         \/ local' = Clear(local) /\ lheld' = {}
         \/ \E n \in Nat : local' = Remove(local, n) /\ lheld' = {p \in lheld : p[1] # n}
  PROVE  PoolInv' /\ Alive' \subseteq Alive
<1>1. CASE local' = Clear(local) /\ lheld' = {}
  <2>1. local' \in Slots(Objects) /\ WellFormed(local') /\ Values(local') = {}
    BY Zenon, <1>1, PoolClear DEF PoolInv
  <2>2. PoolInv'
    BY Zenon, <1>1, <2>1 DEF PoolInv, HandleStable
  <2>3. QED BY Zenon, <2>1, <2>2 DEF Alive
<1>2. ASSUME NEW n \in Nat, local' = Remove(local, n), lheld' = {p \in lheld : p[1] # n}
      PROVE  PoolInv' /\ Alive' \subseteq Alive
  <2>1. /\ local' \in Slots(Objects) /\ WellFormed(local')
        /\ \A i \in Int : i # n => Get(local', i) = Get(local, i)
        /\ Values(local') \subseteq Values(local)
    BY Zenon, <1>2, PoolRemove DEF PoolInv
  <2>2. \A p \in lheld' : p \in Nat \X Objects /\ Get(local', p[1]) = p[2]
    BY <1>2, <2>1 DEF PoolInv, HandleStable
  <2>3. PoolInv'
    BY Zenon, <2>1, <2>2 DEF PoolInv, HandleStable
  <2>4. QED BY Zenon, <2>1, <2>3 DEF Alive
<1>3. QED BY Zenon, <1>1, <1>2

\* A global reference is deleted that the guest holds, or nobody.
LEMMA GlobalDrop ==
  ASSUME PoolInv, UNCHANGED <<local, lheld, throwable>>, NEW n \in Nat,
         global' = Remove(global, n), gheld' = {p \in gheld : p[1] # n},
         (\E p \in gheld : p[1] = n) \/ Get(global, n) = None
  PROVE  PoolInv' /\ Alive' \subseteq Alive /\ GlobalKept /\ HeldKept
<1>1. /\ global' \in Slots(Objects) /\ WellFormed(global')
      /\ \A i \in Int : i # n => Get(global', i) = Get(global, i)
      /\ Values(global') \subseteq Values(global)
  BY Zenon, PoolRemove DEF PoolInv
<1>2. \A p \in gheld' : p \in Nat \X Objects /\ Get(global', p[1]) = p[2]
  BY <1>1 DEF PoolInv, HandleStable
<1>3. PoolInv'
  BY Zenon, <1>1, <1>2 DEF PoolInv, HandleStable
<1>4. GlobalKept
  BY <1>1 DEF GlobalKept
<1>5. HeldKept
  BY Zenon DEF HeldKept
<1>6. QED BY Zenon, <1>1, <1>3, <1>4, <1>5 DEF Alive

\* A known object stays sound: the instance behind an exception cannot go.
LEMMA SoundKept ==
  ASSUME NEW o \in Objects, Sound(o), GlobalKept, HeldKept,
         Len(classes) \in Nat, Len(classes') \in Nat, Len(classes) <= Len(classes')
  PROVE  Sound(o)'
<1>1. CASE o.kind # "objref"
  BY <1>1 DEF Sound
<1>2. CASE o.kind = "objref"
  <2>1. o.n \in Nat /\ Get(global, o.n) # None /\ \A p \in gheld : p[1] # o.n
    BY Zenon, <1>2 DEF Sound, Objects
  <2>2. Get(global', o.n) = Get(global, o.n)
    BY Zenon, <2>1 DEF GlobalKept
  <2>3. \A p \in gheld' : p[1] # o.n
    BY Zenon, <2>1 DEF HeldKept
  <2>4. QED BY Zenon, <1>2, <2>2, <2>3 DEF Sound
<1>3. QED BY Zenon, <1>1, <1>2

\* New objects have a number of their own.
LEMMA CopyKept ==
  ASSUME CopyInv, NEW N, Alive' \subseteq Alive \cup N, UNCHANGED bufs,
         born' \in {born, born + 1},
         \A o \in N : o.obj = born + 1 /\ born' = born + 1,
         \A o, q \in N : Extent(o) = Extent(q)
  PROVE  CopyInv'
<1>1. born \in Nat /\ born' \in Nat /\ born <= born'
  BY DEF CopyInv
<1>2. ASSUME NEW o \in Alive' PROVE o.obj \in 1 .. born'
  BY <1>1 DEF CopyInv
<1>3. ASSUME NEW o \in Alive', NEW q \in Alive', o.obj = q.obj PROVE Extent(o) = Extent(q)
  <2>1. \A x \in Alive : x.obj \in 1 .. born
    BY Zenon DEF CopyInv
  <2>2. (o \in N /\ q \in N) \/ (o \in Alive /\ q \in Alive)
    BY <1>1, <1>3, <2>1
  <2>3. QED BY Zenon, <1>3, <2>2 DEF CopyInv
<1>4. ASSUME NEW b \in bufs' PROVE /\ b.of \in 1 .. born'
                                   /\ \A o \in Alive' : o.obj = b.of => b.pages = Pages(Extent(o))
  <2>1. b \in bufs /\ b.of \in 1 .. born
    BY Zenon DEF CopyInv
  <2>2. \A o \in N : o.obj # b.of
    BY <1>1, <2>1
  <2>3. QED BY <1>1, <2>1, <2>2 DEF CopyInv
<1>5. QED BY Zenon, <1>1, <1>2, <1>3, <1>4 DEF CopyInv

\* The classes and members stay.
LEMMA MetaKept ==
  ASSUME MetaInv, IdInv, UNCHANGED meta PROVE MetaInv' /\ IdInv'
BY Zenon DEF MetaInv, IdInv, Placed, meta

\* A step that changes references and frames only, and makes the objects of N.
LEMMA RefStep ==
  ASSUME DvmInv, PoolInv', GlobalKept, HeldKept, UNCHANGED <<meta, bufs>>, HostInv',
         NEW N, Alive' \subseteq Alive \cup N, born' \in {born, born + 1},
         \A o \in N : Sound(o)' /\ o.obj = born + 1 /\ born' = born + 1,
         \A o, q \in N : Extent(o) = Extent(q)
  PROVE  DvmInv'
<1>1. MetaInv' /\ IdInv'
  BY Zenon, MetaKept DEF DvmInv
<1>2. CopyInv'
  BY Zenon, CopyKept DEF DvmInv
<1>3. ASSUME NEW o \in Alive' PROVE Sound(o)'
  <2>1. CASE o \in N
    BY Zenon, <2>1
  <2>2. CASE o \in Alive
    <3>1. o \in Objects /\ Sound(o)
      BY Zenon, <2>2, AliveObjects DEF DvmInv
    <3>2. Len(classes) \in Nat /\ classes' = classes
      BY DEF DvmInv, MetaInv, meta
    <3>3. QED BY <3>1, <3>2, SoundKept
  <2>3. QED BY Zenon, <2>1, <2>2
<1>4. QED BY Zenon, <1>1, <1>2, <1>3 DEF DvmInv

\* Two common cases: no new object, and one.
LEMMA RefStepNone ==
  ASSUME DvmInv, PoolInv', GlobalKept, HeldKept, meta' = meta, bufs' = bufs, HostInv',
         Alive' \subseteq Alive, born' \in {born, born + 1}
  PROVE  DvmInv'
<1> DEFINE N == {}
<1>1. Alive' \subseteq Alive \cup N
  BY Zenon
<1>2. \A o \in N : Sound(o)' /\ o.obj = born + 1 /\ born' = born + 1
  BY Zenon
<1>3. \A o, q \in N : Extent(o) = Extent(q)
  BY Zenon
<1> HIDE DEF N
<1>4. QED BY Zenon, <1>1, <1>2, <1>3, RefStep

\* A step after which one more object is known.
LEMMA RefStepOne ==
  ASSUME DvmInv, PoolInv', GlobalKept, HeldKept, meta' = meta, bufs' = bufs, HostInv', NEW o,
         Alive' \subseteq Alive \cup {o}, Sound(o)', o.obj = born + 1, born' = born + 1
  PROVE  DvmInv'
<1> DEFINE N == {o}
<1>1. Alive' \subseteq Alive \cup N
  BY Zenon
<1>2. \A x \in N : Sound(x)' /\ x.obj = born + 1 /\ born' = born + 1
  BY Zenon
<1>3. \A x, q \in N : Extent(x) = Extent(q)
  BY Zenon
<1> HIDE DEF N
<1>4. QED BY Zenon, <1>1, <1>2, <1>3, RefStep

\* Nothing global changes.
LEMMA GlobalSame == ASSUME UNCHANGED <<global, gheld>> PROVE GlobalKept /\ HeldKept
BY Zenon DEF GlobalKept, HeldKept

\* The host's part of the invariant.
LEMMA HostSame ==
  ASSUME HostInv, UNCHANGED <<frames, panicked, answer, freed, disciplined>> PROVE HostInv'
BY Zenon DEF HostInv, HostGetsResult, FreedAsAllocated

\* A panic changes nothing else.
LEMMA PanicStep == ASSUME DvmInv, Panic, UNCHANGED disciplined PROVE DvmInv'
<1>1. UNCHANGED <<local, global, lheld, gheld, throwable, classes, members, ids, bufs, born>>
  BY Zenon DEF Panic, refs, meta
<1>2. PoolInv' /\ MetaInv' /\ IdInv' /\ CopyInv'
  BY Zenon, <1>1 DEF DvmInv, PoolInv, HandleStable, MetaInv, IdInv, Placed, CopyInv, Alive
<1>3. Alive' = Alive /\ \A o : Sound(o)' <=> Sound(o)
  BY Zenon, <1>1 DEF Alive, Sound
<1>4. HostInv'
  BY Zenon DEF DvmInv, HostInv, Panic, HostGetsResult, FreedAsAllocated
<1>5. QED BY Zenon, <1>2, <1>3, <1>4 DEF DvmInv

\* A step that changes nothing.
LEMMA Stutter == ASSUME DvmInv, UNCHANGED vars PROVE DvmInv'
<1>1. UNCHANGED <<local, global, lheld, gheld, throwable, classes, members, ids, bufs, born,
                  frames, panicked, answer, freed, disciplined>>
  BY Zenon DEF vars, refs, meta, rest
<1>2. PoolInv' /\ MetaInv' /\ IdInv' /\ CopyInv'
  BY Zenon, <1>1 DEF DvmInv, PoolInv, HandleStable, MetaInv, IdInv, Placed, CopyInv, Alive
<1>3. Alive' = Alive /\ \A o : Sound(o)' <=> Sound(o)
  BY Zenon, <1>1 DEF Alive, Sound
<1>4. HostInv'
  BY Zenon, <1>1, HostSame DEF DvmInv
<1>5. QED BY Zenon, <1>2, <1>3, <1>4 DEF DvmInv

-----------------------------------------------------------------------------
(* Handles and objects *)

\* The parts of an object.
LEMMA ObjectFacts ==
  ASSUME NEW k \in ObjectKinds, NEW n \in Nat, NEW o \in Nat, NEW len \in Nat
  PROVE  /\ Object(k, n, o, len) \in Objects
         /\ Object(k, n, o, len).kind = k /\ Object(k, n, o, len).n = n
         /\ Object(k, n, o, len).obj = o /\ Object(k, n, o, len).len = len
BY Zenon DEF Object, Objects

\* What a handle denotes is known to the emulator.
LEMMA DerefAlive ==
  ASSUME PoolInv, NEW h, Deref(h) # None
  PROVE  Deref(h) \in Alive /\ Deref(h) \in Objects /\ h.tag \in {"ref", "object"} /\ h.n \in Nat
<1>1. h.tag \in {"ref", "object"}
  BY Zenon DEF Deref
<1>2. \/ h.tag = "ref" /\ Deref(h) = Get(global, h.n)
      \/ h.tag = "object" /\ Deref(h) = Get(local, h.n)
  BY Zenon, <1>1 DEF Deref
<1>3. local \in Slots(Objects) /\ global \in Slots(Objects)
  BY Zenon DEF PoolInv
<1>4. QED BY <1>1, <1>2, <1>3, PoolValues DEF Alive

\* Handles are tagged numbers.
LEMMA HandleTypes ==
  ASSUME DvmInv, NEW h \in AnyHandles PROVE h.tag \in Tags /\ h.n \in Nat
<1>1. Radix \in Nat /\ MaxObjects \in Nat /\ Len(classes) \in Nat
  BY DalvikAssumption DEF DvmInv, MetaInv
<1>2. CASE h \in RefHandles
  BY <1>1, <1>2 DEF RefHandles, Tags
<1>3. CASE h \in ClassHandles
  <2>1. PICK c \in 1 .. Len(classes) : h = Handle("class", ClassId(c))
    BY Zenon, <1>3 DEF ClassHandles
  <2>2. ClassId(c) \in Nat
    BY <1>1, <2>1, Products DEF ClassId
  <2>3. QED BY Zenon, <2>1, <2>2 DEF Handle, Tags
<1>4. QED BY Zenon, <1>2, <1>3 DEF AnyHandles

\* A class argument names a class of the resolver, or none.
LEMMA ClassArgRange ==
  ASSUME DvmInv, NEW h \in AnyHandles PROVE ClassArg(h) \in 0 .. Len(classes)
<1>1. Radix \in Nat \ {0} /\ Len(classes) \in Nat /\ h.n \in Nat
  BY DalvikAssumption, HandleTypes DEF DvmInv, MetaInv
<1>2. CASE h.tag = "class"
  <2>1. h.n \div Radix \in Nat
    BY <1>1
  <2>2. QED BY <1>1, <1>2, <2>1 DEF ClassArg
<1>3. CASE h.tag = "ref" /\ Deref(h) # None /\ Deref(h).kind = "class"
  <2>1. Deref(h) \in Alive
    BY Zenon, <1>3, DerefAlive DEF DvmInv
  <2>2. Deref(h).n \in 1 .. Len(classes)
    BY Zenon, <1>3, <2>1 DEF DvmInv, Sound
  <2>3. QED BY <1>1, <1>3, <2>2 DEF ClassArg
<1>4. QED BY <1>1, <1>2, <1>3 DEF ClassArg

\* The classes of the resolver stay classes.
LEMMA ClassNumbers ==
  ASSUME DvmInv
  PROVE  /\ Len(classes) \in Nat /\ 1 \in 1 .. Len(classes)
         /\ ErrorClass \in 1 .. Len(classes) /\ BuiltinClass \in 1 .. Len(classes)
         /\ \A c \in 1 .. Len(classes) : c \in Nat /\ c # 0 /\ c \in 1 .. MaxClasses
BY SMTT(30), DalvikAssumption DEF DvmInv, MetaInv

-----------------------------------------------------------------------------
(* References *)

\* A new object in the local pool.
LEMMA NewLocalStep ==
  ASSUME DvmInv, NEW k \in ObjectKinds \ {"objref"}, NEW c \in 1 .. Len(classes), NEW len \in Nat,
         NewLocal(k, c, len), UNCHANGED disciplined
  PROVE  DvmInv'
<1>0. PICK o : o = Object(k, c, born + 1, len)
  BY Zenon
<1>1. born \in Nat /\ c \in Nat
  BY Zenon, ClassNumbers DEF DvmInv, CopyInv
<1>2. o \in Objects /\ o.kind = k /\ o.n = c /\ o.obj = born + 1
  BY <1>0, <1>1, ObjectFacts
<1>3. /\ AddLocal(o) /\ born' = born + 1
      /\ UNCHANGED <<global, gheld, throwable, meta, bufs, frames, panicked, answer, freed>>
  BY Zenon, <1>0 DEF NewLocal, rest
<1>4. PoolInv' /\ Alive' = Alive \cup {o}
  BY Zenon, <1>2, <1>3, LocalAdd DEF DvmInv
<1>5. GlobalKept /\ HeldKept /\ HostInv'
  BY Zenon, <1>3, GlobalSame, HostSame DEF DvmInv
<1>6. Sound(o)'
  BY Zenon, <1>2, <1>3 DEF Sound, meta
<1>7. QED BY Zenon, <1>2, <1>3, <1>4, <1>5, <1>6, RefStepOne

\* A new local reference to a known object.
LEMMA CopyLocalStep ==
  ASSUME DvmInv, NEW o \in Alive, AddLocal(o), born' = born + 1,
         UNCHANGED <<global, gheld, meta, rest, disciplined>>
  PROVE  DvmInv'
<1>1. o \in Objects
  BY Zenon, AliveObjects DEF DvmInv
<1>2. UNCHANGED <<global, gheld, throwable, meta, bufs, frames, panicked, answer, freed>>
  BY Zenon DEF rest
<1>3. PoolInv' /\ Alive' = Alive \cup {o}
  BY Zenon, <1>1, <1>2, LocalAdd DEF DvmInv
<1>4. GlobalKept /\ HeldKept /\ HostInv'
  BY Zenon, <1>2, GlobalSame, HostSame DEF DvmInv
<1>5. Alive' \subseteq Alive
  BY Zenon, <1>3
<1>6. QED BY Zenon, <1>2, <1>3, <1>4, <1>5, RefStepNone

\* A new global reference, to a class or to a known object.
LEMMA AddGlobalStep ==
  ASSUME DvmInv, NEW o, AddGlobal(o), born' = born + 1, UNCHANGED <<local, lheld, meta, throwable, bufs>>,
         HostInv',
         \/ o \in Alive
         \/ \E k \in {"class", "simple"}, c \in 1 .. Len(classes) : o = Object(k, c, born + 1, 0)
  PROVE  DvmInv'
<1>1. born \in Nat /\ throwable \in Objects \cup {None}
  BY Zenon DEF DvmInv, CopyInv, PoolInv
<1>2. \/ o \in Alive
      \/ /\ o.obj = born + 1 /\ o.kind # "objref" /\ o.n \in 1 .. Len(classes)
         /\ o \in Objects
  <2>1. ASSUME NEW k \in {"class", "simple"}, NEW c \in 1 .. Len(classes),
               o = Object(k, c, born + 1, 0)
        PROVE  /\ o.obj = born + 1 /\ o.kind # "objref" /\ o.n \in 1 .. Len(classes)
               /\ o \in Objects
    <3>1. k \in ObjectKinds /\ c \in Nat /\ born + 1 \in Nat /\ 0 \in Nat
      BY <1>1, <2>1, ClassNumbers DEF ObjectKinds
    <3>2. QED BY SMTT(30), <2>1, <3>1, ObjectFacts
  <2>2. QED BY Zenon, <2>1
<1>3. o \in Objects
  BY Zenon, <1>2, AliveObjects DEF DvmInv
<1>4. /\ PoolInv' /\ GlobalKept /\ HeldKept
      /\ Alive' \subseteq Alive \cup {o} \cup ({throwable'} \ {None})
  BY Zenon, <1>1, <1>3, GlobalInsert DEF AddGlobal, DvmInv
<1>5. Alive' \subseteq Alive \cup {o}
  BY Zenon, <1>4 DEF Alive
<1>6. CASE o \in Alive
  <2>1. Alive' \subseteq Alive
    BY Zenon, <1>5, <1>6
  <2>2. QED BY Zenon, <1>4, <2>1, RefStepNone
<1>7. CASE o.obj = born + 1 /\ o.kind # "objref" /\ o.n \in 1 .. Len(classes)
  <2>1. Sound(o)'
    BY Zenon, <1>7 DEF Sound, meta
  <2>2. QED BY Zenon, <1>4, <1>5, <1>7, <2>1, RefStepOne
<1>8. QED BY Zenon, <1>2, <1>6, <1>7

\* Interning a class keeps the numbers of the others.
LEMMA FindClassStep ==
  ASSUME DvmInv, NEW name \in ClassNames, FindClass(name), UNCHANGED disciplined PROVE DvmInv'
<1>1. /\ UNCHANGED <<local, global, lheld, gheld, members, ids, throwable, frames, bufs, panicked,
                     answer, freed, born, disciplined>>
      /\ Len(classes) < MaxClasses
      /\ classes' = classes \/ classes' = Append(classes, name)
  BY Zenon DEF FindClass, Intern, refs, rest
<1>2. /\ classes \in Seq(STRING) /\ Len(classes) \in Nat /\ name \in STRING
      /\ Len(InitClasses) \in Nat /\ MaxClasses \in Nat
  BY DalvikAssumption DEF DvmInv, MetaInv
<1>3. classes' \in Seq(STRING) /\ Len(classes') \in {Len(classes), Len(classes) + 1}
  <2>1. Append(classes, name) \in Seq(STRING) /\ Len(Append(classes, name)) = Len(classes) + 1
    BY Zenon, <1>2, AppendProperties
  <2>2. QED BY Zenon, <1>1, <1>2, <2>1
<1>4. MetaInv'
  BY <1>1, <1>2, <1>3 DEF DvmInv, MetaInv
<1>5. \A c : c \in 1 .. Len(classes) => c \in 1 .. Len(classes')
  BY <1>2, <1>3
<1>6. IdInv'
  BY Zenon, <1>1, <1>5 DEF DvmInv, IdInv, Placed
<1>7. PoolInv' /\ CopyInv' /\ Alive' = Alive
  BY Zenon, <1>1 DEF DvmInv, PoolInv, HandleStable, CopyInv, Alive
<1>8. \A o \in Alive' : Sound(o)'
  BY Zenon, <1>1, <1>5, <1>7 DEF DvmInv, Sound
<1>9. HostInv'
  BY Zenon, <1>1, HostSame DEF DvmInv
<1>10. QED BY Zenon, <1>4, <1>6, <1>7, <1>8, <1>9 DEF DvmInv

\* A class or a copy of a local reference goes into the global pool.
LEMMA NewGlobalRefStep ==
  ASSUME DvmInv, NEW h \in AnyHandles, NewGlobalRef(h), UNCHANGED disciplined PROVE DvmInv'
<1>1. UNCHANGED <<local, lheld, meta, throwable, bufs, frames, panicked, answer, freed>>
  BY Zenon DEF NewGlobalRef, rest
<1>2. HostInv'
  BY Zenon, <1>1, HostSame DEF DvmInv
<1>3. CASE ClassArg(h) # 0 /\ AddGlobal(Object("class", ClassArg(h), born + 1, 0)) /\ born' = born + 1
  <2>1. ClassArg(h) \in 1 .. Len(classes)
    BY <1>3, ClassArgRange, ClassNumbers
  <2>2. PICK o : o = Object("class", ClassArg(h), born + 1, 0)
    BY Zenon
  <2>3. \E k \in {"class", "simple"}, c \in 1 .. Len(classes) : o = Object(k, c, born + 1, 0)
    BY Zenon, <2>1, <2>2
  <2>4. AddGlobal(o)
    BY Zenon, <1>3, <2>2
  <2>5. QED BY Zenon, <1>1, <1>2, <1>3, <2>3, <2>4, AddGlobalStep
<1>4. CASE Deref(h) # None /\ AddGlobal(Deref(h)) /\ born' = born + 1
  <2>1. PICK o : o = Deref(h)
    BY Zenon
  <2>2. o \in Alive /\ AddGlobal(o)
    BY Zenon, <1>4, <2>1, DerefAlive DEF DvmInv
  <2>3. QED BY Zenon, <1>1, <1>2, <1>4, <2>2, AddGlobalStep
<1>5. QED BY Zenon, <1>3, <1>4 DEF NewGlobalRef

\* Deleting a global reference leaves the instance of the exception alone, which
\* nobody holds; deleting it again does nothing.
LEMMA DeleteGlobalRefStep ==
  ASSUME DvmInv, NEW n \in 0 .. MaxObjects, DeleteGlobalRef(n), UNCHANGED disciplined PROVE DvmInv'
<1>1. /\ UNCHANGED <<local, lheld, meta, throwable, bufs, frames, panicked, answer, freed, born>>
      /\ global' = Remove(global, n) /\ gheld' = {p \in gheld : p[1] # n}
  BY Zenon DEF DeleteGlobalRef, rest
<1>2. (\E p \in gheld : p[1] = n) \/ Get(global, n) = None
  <2>1. Handle("ref", n).tag = "ref" /\ Handle("ref", n).n = n
    BY Zenon DEF Handle
  <2>2. QED BY Zenon, <2>1 DEF DeleteGlobalRef, Held
<1>3. n \in Nat
  BY DalvikAssumption
<1>4. PoolInv' /\ Alive' \subseteq Alive /\ GlobalKept /\ HeldKept
  BY Zenon, <1>1, <1>2, <1>3, GlobalDrop DEF DvmInv
<1>5. HostInv' /\ born' \in {born, born + 1}
  BY Zenon, <1>1, HostSame DEF DvmInv
<1>6. QED BY Zenon, <1>1, <1>4, <1>5, RefStepNone

\* A copy of a local reference.
LEMMA NewLocalRefStep ==
  ASSUME DvmInv, NEW h \in RefHandles, NewLocalRef(h), UNCHANGED disciplined PROVE DvmInv'
<1>1. PICK o : o = Deref(h)
  BY Zenon
<1>2. o \in Alive
  BY Zenon, <1>1, DerefAlive DEF NewLocalRef, DvmInv
<1>3. /\ AddLocal(o) /\ born' = born + 1
      /\ UNCHANGED <<global, gheld, meta, rest, disciplined>>
  BY Zenon, <1>1 DEF NewLocalRef
<1>4. QED BY Zenon, <1>2, <1>3, CopyLocalStep

\* Deleting a local reference forgets one that was handed out.
LEMMA DeleteLocalRefStep ==
  ASSUME DvmInv, NEW h \in AnyHandles, DeleteLocalRef(h), UNCHANGED disciplined PROVE DvmInv'
<1>1. CASE h.tag = "object"
  <2>1. /\ UNCHANGED <<global, gheld, meta, throwable, bufs, frames, panicked, answer, freed, born>>
        /\ local' = Remove(local, h.n) /\ lheld' = {p \in lheld : p[1] # h.n}
    BY Zenon, <1>1 DEF DeleteLocalRef, rest
  <2>2. h.n \in Nat
    BY Zenon, HandleTypes
  <2>3. PoolInv' /\ Alive' \subseteq Alive
    BY Zenon, <2>1, <2>2, LocalDrop DEF DvmInv
  <2>4. HostInv' /\ GlobalKept /\ HeldKept /\ born' \in {born, born + 1}
    BY Zenon, <2>1, HostSame, GlobalSame DEF DvmInv
  <2>5. QED BY Zenon, <2>1, <2>3, <2>4, RefStepNone
<1>2. CASE h.tag = "class"
  <2>1. UNCHANGED vars
    BY Zenon, <1>2 DEF DeleteLocalRef
  <2>2. QED BY Zenon, <2>1, Stutter
<1>3. CASE h.tag = "ref"
  <2>1. Panic
    BY Zenon, <1>3 DEF DeleteLocalRef
  <2>2. QED BY Zenon, <2>1, PanicStep
<1>4. QED BY Zenon, <1>1, <1>2, <1>3, HandleTypes DEF Tags

\* Throw, ExceptionClear: a known object becomes the exception, or none.
LEMMA ThrowableStep ==
  ASSUME DvmInv, throwable' \in Alive \cup {None},
         UNCHANGED <<refs, meta, frames, bufs, panicked, answer, freed, born, disciplined>>
  PROVE  DvmInv'
<1>1. UNCHANGED <<local, global, lheld, gheld, meta, frames, bufs, panicked, answer, freed, born>>
  BY Zenon DEF refs
<1>2. throwable' \in Objects \cup {None}
  BY Zenon, AliveObjects DEF DvmInv
<1>3. PoolInv'
  BY Zenon, <1>1, <1>2 DEF DvmInv, PoolInv, HandleStable
<1>4. Alive' \subseteq Alive
  BY Zenon, <1>1 DEF Alive
<1>5. HostInv' /\ GlobalKept /\ HeldKept /\ born' \in {born, born + 1}
  BY Zenon, <1>1, HostSame, GlobalSame DEF DvmInv
<1>6. QED BY Zenon, <1>1, <1>3, <1>4, <1>5, RefStepNone

\* The exception is the object that a local reference denotes.
LEMMA ThrowStep ==
  ASSUME DvmInv, NEW h \in AnyHandles, Throw(h), UNCHANGED disciplined PROVE DvmInv'
<1>1. CASE h.tag # "object"
  <2>1. Panic
    BY Zenon, <1>1 DEF Throw
  <2>2. QED BY Zenon, <2>1, PanicStep
<1>2. CASE h.tag = "object"
  <2>1. /\ throwable' = IF Deref(h) = None THEN throwable ELSE Deref(h)
        /\ UNCHANGED <<refs, meta, frames, bufs, panicked, answer, freed, born>>
    BY Zenon, <1>2 DEF Throw
  <2>2. throwable \in Alive \cup {None}
    BY Zenon DEF Alive
  <2>3. throwable' \in Alive \cup {None}
    BY Zenon, <2>1, <2>2, DerefAlive DEF DvmInv
  <2>4. QED BY Zenon, <2>1, <2>3, ThrowableStep
<1>3. QED BY Zenon, <1>1, <1>2

-----------------------------------------------------------------------------
(* Members *)

\* MaxMembers bounds the list of every class.
LEMMA ListedBound ==
  ASSUME MetaInv, NEW c \in 1 .. MaxClasses
  PROVE  Len(members[c]) \in Nat /\ Listed \in Nat /\ Len(members[c]) <= Listed
<1> DEFINE P(x) == {x} \X (1 .. Len(members[x]))
           U == {P(x) : x \in DOMAIN members}
<1>1. DOMAIN members = 1 .. MaxClasses /\ MaxClasses \in Nat
  BY Zenon, DalvikAssumption DEF MetaInv
<1>2. \A x \in 1 .. MaxClasses : Len(members[x]) \in Nat
  BY DEF MetaInv
<1>3. ASSUME NEW x \in 1 .. MaxClasses
      PROVE  IsFiniteSet(P(x)) /\ Cardinality(P(x)) = Len(members[x])
  <2>1. IsFiniteSet(1 .. Len(members[x])) /\ Cardinality(1 .. Len(members[x])) = Len(members[x])
    BY <1>2, FS_Interval
  <2>2. IsFiniteSet({x}) /\ Cardinality({x}) = 1
    BY Zenon, FS_Singleton
  <2>3. IsFiniteSet(P(x)) /\ Cardinality(P(x)) = 1 * Len(members[x])
    BY ZenonT(30), <2>1, <2>2, FS_Product
  <2>4. QED BY <1>2, <2>3
<1>4. IsFiniteSet(U)
  <2> DEFINE f == [x \in 1 .. MaxClasses |-> P(x)]
  <2>1. IsFiniteSet(1 .. MaxClasses)
    BY <1>1, FS_Interval
  <2>2. f \in Surjection(1 .. MaxClasses, U)
    BY Zenon, <1>1 DEF Surjection
  <2>3. QED BY Zenon, <2>1, <2>2, FS_Surjection
<1>5. \A T \in U : IsFiniteSet(T)
  BY Zenon, <1>1, <1>3
<1>6. IsFiniteSet(UNION U)
  <2> HIDE DEF U
  <2>1. QED BY Zenon, <1>4, <1>5, FS_UNION
<1>7. P(c) \in SUBSET UNION U
  BY Zenon, <1>1
<1>8. Cardinality(UNION U) \in Nat /\ Cardinality(P(c)) <= Cardinality(UNION U)
  <2> HIDE DEF U, P
  <2>1. QED BY Zenon, <1>6, <1>7, FS_Subset, FS_CardinalityType
<1>9. Listed = Cardinality(UNION U)
  BY Zenon DEF Listed
<1>10. QED BY Zenon, <1>2, <1>3, <1>8, <1>9

\* The first place of a member is one of its places.
LEMMA FirstPlace ==
  ASSUME NEW s \in SUBSET Nat, s # {} PROVE First(s) \in s
BY Zenon, LeastNat DEF First

\* Members are added behind those that are there.
LEMMA MembersGrow ==
  ASSUME MetaInv, IdInv, NEW c \in 1 .. MaxClasses, NEW ms \in Seq(MemberSet),
         members' = [members EXCEPT ![c] = ms], classes' = classes,
         Len(ms) <= MaxMembers, Len(members[c]) <= Len(ms),
         \A j \in 1 .. Len(members[c]) : ms[j] = members[c][j]
  PROVE  /\ MetaInv' /\ \A i \in ids : Placed(i)'
         /\ members'[c] = ms
<1>1. members \in [1 .. MaxClasses -> Seq(MemberSet)] /\ Len(ms) \in Nat
  BY DEF MetaInv
<1>2. /\ members'[c] = ms /\ members' \in [1 .. MaxClasses -> Seq(MemberSet)]
      /\ \A x \in 1 .. MaxClasses : x # c => members'[x] = members[x]
  BY Zenon, <1>1
<1>3. MetaInv'
  BY Zenon, <1>2 DEF MetaInv
<1>4. ASSUME NEW i \in ids PROVE Placed(i)'
  <2>1. PICK j \in 1 .. Len(members[i[1]]) :
             /\ i[4] = MemberId(i[1], j)
             /\ members[i[1]][j].kind = i[2] /\ members[i[1]][j].name = i[3]
    BY Zenon DEF IdInv, Placed
  <2>2. i[1] \in 1 .. Len(classes) /\ i[1] \in 1 .. MaxClasses
    <3>1. i[1] \in 1 .. Len(classes)
      BY Zenon DEF IdInv, Placed
    <3>2. Len(classes) \in Nat /\ MaxClasses \in Nat /\ Len(classes) <= MaxClasses
      BY DalvikAssumption DEF MetaInv
    <3>3. QED BY <3>1, <3>2
  <2>3. j \in 1 .. Len(members'[i[1]]) /\ members'[i[1]][j] = members[i[1]][j]
    <3>1. CASE i[1] = c
      <4>1. Len(members[c]) \in Nat
        BY <1>1
      <4>2. QED BY <1>1, <1>2, <3>1, <4>1
    <3>2. CASE i[1] # c
      BY Zenon, <1>2, <2>2, <3>2
    <3>3. QED BY Zenon, <3>1, <3>2
  <2>4. QED BY Zenon, <2>1, <2>2, <2>3 DEF Placed
<1>5. QED BY Zenon, <1>2, <1>3, <1>4

\* The pools stay when only members change.
LEMMA MembersOnlyStep ==
  ASSUME DvmInv, MetaInv', IdInv', classes' = classes, UNCHANGED <<refs, rest, born, disciplined>>
  PROVE  DvmInv'
<1>1. UNCHANGED <<local, global, lheld, gheld, throwable, frames, bufs, panicked, answer, freed, born>>
  BY Zenon DEF refs, rest
<1>2. PoolInv' /\ CopyInv'
  BY Zenon, <1>1 DEF DvmInv, PoolInv, HandleStable, CopyInv, Alive
<1>3. Alive' = Alive /\ \A o : Sound(o)' <=> Sound(o)
  BY Zenon, <1>1 DEF Alive, Sound
<1>4. HostInv'
  BY Zenon, <1>1, HostSame DEF DvmInv
<1>5. QED BY Zenon, <1>2, <1>3, <1>4 DEF DvmInv

\* The member is found, or appended: its id is its place either way.
LEMMA AcceptStep ==
  ASSUME DvmInv, NEW h \in AnyHandles, NEW k \in {"method", "field"}, NEW name \in MemberNames,
         GetMemberID(h, k, name, TRUE), UNCHANGED disciplined
  PROVE  DvmInv'
<1>0. PICK c : c = ClassArg(h)
  BY Zenon
<1> DEFINE old == Places(c, k, name)
<1>1. c \in 1 .. Len(classes) /\ c \in 1 .. MaxClasses
  BY <1>0, ClassArgRange, ClassNumbers DEF GetMemberID
<1>2. /\ MetaInv /\ IdInv /\ members \in [1 .. MaxClasses -> Seq(MemberSet)]
      /\ members[c] \in Seq(MemberSet) /\ Len(members[c]) \in Nat
  BY <1>1 DEF DvmInv, MetaInv
<1>3. /\ UNCHANGED <<refs, classes, rest, born>>
      /\ old # {} \/ Listed < MaxMembers
      /\ members' = IF old # {} THEN members
                    ELSE [members EXCEPT ![c] = Append(members[c], Member(k, name, FALSE))]
      /\ \E i : /\ i = IF old = {} THEN Len(members[c]) + 1 ELSE First(old)
                /\ ids' = ids \cup {<<c, k, name, MemberId(c, i)>>}
  BY Zenon, <1>0, <1>1, <1>2 DEF GetMemberID, refs, rest
<1>4. PICK i : /\ i = IF old = {} THEN Len(members[c]) + 1 ELSE First(old)
               /\ ids' = ids \cup {<<c, k, name, MemberId(c, i)>>}
  BY Zenon, <1>3
<1>5. PICK e : e = <<c, k, name, MemberId(c, i)>>
  BY Zenon
<1>6. e[1] = c /\ e[2] = k /\ e[3] = name /\ e[4] = MemberId(c, i)
  BY Zenon, <1>5
<1>7. MetaInv' /\ (\A x \in ids : Placed(x)') /\ Placed(e)'
  <2>1. CASE old # {}
    <3>1. old \in SUBSET Nat
      BY <1>2 DEF Places
    <3>2. i \in old
      BY Zenon, <1>4, <2>1, <3>1, FirstPlace
    <3>3. i \in 1 .. Len(members[c]) /\ members[c][i].kind = k /\ members[c][i].name = name
      BY Zenon, <3>2 DEF Places
    <3>4. members' = members /\ classes' = classes
      BY Zenon, <1>3, <2>1
    <3>5. MetaInv' /\ \A x \in ids : Placed(x)'
      BY Zenon, <1>2, <3>4 DEF MetaInv, IdInv, Placed
    <3>6. QED BY Zenon, <1>1, <1>6, <3>3, <3>4, <3>5 DEF Placed
  <2>2. CASE old = {}
    <3>1. PICK m : m = Member(k, name, FALSE)
      BY Zenon
    <3>2. m \in MemberSet /\ m.kind = k /\ m.name = name
      BY Zenon, <3>1, DalvikAssumption DEF Member, MemberSet
    <3>3. PICK ms : ms = Append(members[c], m)
      BY Zenon
    <3>4. /\ ms \in Seq(MemberSet) /\ Len(ms) = Len(members[c]) + 1 /\ ms[Len(members[c]) + 1] = m
          /\ \A j \in 1 .. Len(members[c]) : ms[j] = members[c][j]
      BY <1>2, <3>2, <3>3, AppendProperties
    <3>5. members' = [members EXCEPT ![c] = ms] /\ classes' = classes
      BY Zenon, <1>3, <2>2, <3>1, <3>3
    <3>6. Len(ms) <= MaxMembers /\ Len(members[c]) <= Len(ms)
      <4>1. Listed < MaxMembers /\ Listed \in Nat /\ Len(members[c]) <= Listed /\ MaxMembers \in Nat
        BY Zenon, <1>1, <1>2, <1>3, <2>2, ListedBound, DalvikAssumption
      <4>2. QED BY <1>2, <3>4, <4>1
    <3>7. MetaInv' /\ (\A x \in ids : Placed(x)') /\ members'[c] = ms
      BY Zenon, <1>1, <1>2, <3>4, <3>5, <3>6, MembersGrow
    <3>8. i = Len(members[c]) + 1 /\ i \in 1 .. Len(ms) /\ ms[i] = m
      BY SMTT(30), <1>2, <1>4, <2>2, <3>4
    <3>9. Placed(e)'
      BY SMTT(30), <1>1, <1>6, <3>2, <3>5, <3>7, <3>8 DEF Placed
    <3>10. QED BY Zenon, <3>7, <3>9
  <2>3. QED BY Zenon, <2>1, <2>2
<1>8. IdInv'
  BY Zenon, <1>4, <1>5, <1>7 DEF IdInv
<1>9. QED BY Zenon, <1>3, <1>7, <1>8, MembersOnlyStep

\* The name is refused: an instance of the error class that the guest does not hold
\* is behind the exception.
LEMMA RefuseStep ==
  ASSUME DvmInv, NEW h \in AnyHandles, NEW k, NEW name, GetMemberID(h, k, name, FALSE),
         UNCHANGED disciplined
  PROVE  DvmInv'
<1>1. /\ UNCHANGED <<local, lheld, gheld, classes, members, ids, frames, bufs, panicked, answer, freed>>
      /\ ThrowClass(ErrorClass)
  BY Zenon DEF GetMemberID
<1>2. PICK n : n = NextIndex(global)
  BY Zenon
<1>3. PICK o : o = Object("simple", ErrorClass, born + 1, 0)
  BY Zenon
<1>4. PICK q : q = Object("objref", n, born + 1, 0)
  BY Zenon
<1>5. global' = Insert(global, o) /\ throwable' = q /\ born' = born + 1
  BY Zenon, <1>1, <1>2, <1>3, <1>4 DEF ThrowClass
<1>6. born + 1 \in Nat /\ ErrorClass \in Nat /\ ErrorClass \in 1 .. Len(classes)
  BY ClassNumbers DEF DvmInv, CopyInv
<1>7. /\ o \in Objects /\ o.kind = "simple" /\ o.n = ErrorClass /\ o.obj = born + 1 /\ o.len = 0
  <2>1. "simple" \in ObjectKinds /\ 0 \in Nat
    BY Zenon DEF ObjectKinds
  <2>2. QED BY <1>3, <1>6, <2>1, ObjectFacts
<1>8. n \in Nat
  BY Zenon, <1>2, <1>7, PoolInsert DEF DvmInv, PoolInv
<1>9. q \in Objects /\ q.kind = "objref" /\ q.n = n /\ q.obj = born + 1 /\ q.len = 0
  <2>1. "objref" \in ObjectKinds /\ 0 \in Nat
    BY Zenon DEF ObjectKinds
  <2>2. QED BY <1>4, <1>6, <1>8, <2>1, ObjectFacts
<1>10. /\ PoolInv' /\ GlobalKept /\ HeldKept /\ Get(global', n) = o
       /\ \A p \in gheld : p[1] # n
       /\ Alive' \subseteq Alive \cup {o} \cup ({throwable'} \ {None})
  BY Zenon, <1>1, <1>2, <1>5, <1>7, <1>9, GlobalInsert DEF DvmInv
<1> DEFINE N == {o, q}
<1>11. Alive' \subseteq Alive \cup N
  BY Zenon, <1>5, <1>10
<1>12. Sound(o)' /\ Sound(q)'
  <2>1. Sound(o)'
    BY Zenon, <1>1, <1>6, <1>7 DEF Sound
  <2>2. Sound(q)'
    BY Zenon, <1>1, <1>7, <1>9, <1>10, ObjectsAssumption DEF Sound
  <2>3. QED BY Zenon, <2>1, <2>2
<1>13. \A x \in N : Sound(x)' /\ x.obj = born + 1 /\ born' = born + 1
  BY Zenon, <1>5, <1>7, <1>9, <1>12
<1>14. \A x, y \in N : Extent(x) = Extent(y)
  BY Zenon, <1>7, <1>9 DEF Extent
<1> HIDE DEF N
<1>15. HostInv' /\ UNCHANGED <<meta, bufs>> /\ born' \in {born, born + 1}
  BY Zenon, <1>1, <1>5, HostSame DEF DvmInv, meta
<1>16. QED BY Zenon, <1>10, <1>11, <1>13, <1>14, <1>15, RefStep

\* Registered methods come after the members that have ids.
LEMMA RegisterNativesStep ==
  ASSUME DvmInv, NEW h \in AnyHandles,
         NEW names \in {<<m>> : m \in MemberNames} \cup (MemberNames \X MemberNames),
         RegisterNatives(h, names), UNCHANGED disciplined
  PROVE  DvmInv'
<1>0. PICK c : c = ClassArg(h)
  BY Zenon
<1>1. c \in 1 .. Len(classes) /\ c \in 1 .. MaxClasses
  BY <1>0, ClassArgRange, ClassNumbers DEF RegisterNatives
<1>2. /\ MetaInv /\ IdInv /\ members[c] \in Seq(MemberSet) /\ Len(members[c]) \in Nat
  BY <1>1 DEF DvmInv, MetaInv
<1>3. /\ Len(names) \in Nat
      /\ \A i \in 1 .. Len(names) : names[i] \in STRING
  <2>1. CASE \E m \in MemberNames : names = <<m>>
    <3>1. PICK m \in MemberNames : names = <<m>>
      BY Zenon, <2>1
    <3>2. Len(names) = 1 /\ names[1] = m /\ m \in STRING
      BY Zenon, <3>1, DalvikAssumption
    <3>3. ASSUME NEW i \in 1 .. Len(names) PROVE names[i] \in STRING
      <4>1. i = 1
        BY <3>2
      <4>2. QED BY Zenon, <3>2, <4>1
    <3>4. QED BY <3>2, <3>3
  <2>2. CASE names \in MemberNames \X MemberNames
    <3>1. Len(names) = 2 /\ names[1] \in STRING /\ names[2] \in STRING
      BY Zenon, <2>2, DalvikAssumption
    <3>2. QED BY <3>1
  <2>3. QED BY Zenon, <2>1, <2>2
<1>4. PICK new : new = [i \in 1 .. Len(names) |-> Member("method", names[i], TRUE)]
  BY Zenon
<1>5. new \in Seq(MemberSet) /\ Len(new) = Len(names)
  <2>1. \A i \in 1 .. Len(names) : Member("method", names[i], TRUE) \in MemberSet
    BY Zenon, <1>3 DEF Member, MemberSet
  <2>2. new \in [1 .. Len(names) -> MemberSet]
    BY Zenon, <1>4, <2>1
  <2>3. QED BY <1>3, <2>2, SeqDef
<1>6. PICK ms : ms = members[c] \o new
  BY Zenon
<1>7. /\ ms \in Seq(MemberSet) /\ Len(ms) = Len(members[c]) + Len(new)
      /\ \A j \in 1 .. Len(members[c]) : ms[j] = members[c][j]
  <2>1. /\ ms \in Seq(MemberSet) /\ Len(ms) = Len(members[c]) + Len(new)
        /\ \A j \in 1 .. Len(members[c]) + Len(new) :
             ms[j] = IF j <= Len(members[c]) THEN members[c][j] ELSE new[j - Len(members[c])]
    <3>1. PICK old : old = members[c]
      BY Zenon
    <3>2. old \in Seq(MemberSet) /\ ms = old \o new
      BY Zenon, <1>2, <1>6, <3>1
    <3>3. QED BY ZenonT(30), <1>5, <3>1, <3>2, ConcatProperties
  <2>2. \A j \in 1 .. Len(members[c]) : j \in 1 .. Len(members[c]) + Len(new) /\ j <= Len(members[c])
    BY <1>2, <1>3, <1>5
  <2>3. QED BY Zenon, <2>1, <2>2
<1>8. /\ UNCHANGED <<refs, classes, ids, rest, born>>
      /\ Listed + Len(names) <= MaxMembers
      /\ members' = [members EXCEPT ![c] = ms]
  BY Zenon, <1>0, <1>4, <1>6 DEF RegisterNatives
<1>9. Len(ms) <= MaxMembers /\ Len(members[c]) <= Len(ms)
  <2>1. Listed \in Nat /\ Len(members[c]) <= Listed /\ MaxMembers \in Nat
    BY Zenon, <1>1, <1>2, ListedBound, DalvikAssumption
  <2>2. QED BY <1>2, <1>3, <1>5, <1>7, <1>8, <2>1
<1>10. MetaInv' /\ IdInv'
  <2>1. MetaInv' /\ \A x \in ids : Placed(x)'
    BY Zenon, <1>1, <1>2, <1>7, <1>8, <1>9, MembersGrow
  <2>2. QED BY Zenon, <1>8, <2>1 DEF IdInv
<1>11. QED BY Zenon, <1>8, <1>10, MembersOnlyStep

-----------------------------------------------------------------------------
(* Copies *)

\* A step that changes no reference, class or member.
LEMMA BufferStep ==
  ASSUME DvmInv, UNCHANGED <<refs, meta, throwable, born>>, HostInv',
         \A b \in bufs' : /\ b.of \in 1 .. born
                          /\ \A o \in Alive : o.obj = b.of => b.pages = Pages(Extent(o))
  PROVE  DvmInv'
<1>1. UNCHANGED <<local, global, lheld, gheld, classes, members, ids, throwable, born>>
  BY Zenon DEF refs, meta
<1>2. PoolInv' /\ MetaInv' /\ IdInv'
  BY Zenon, <1>1 DEF DvmInv, PoolInv, HandleStable, MetaInv, IdInv, Placed
<1>3. Alive' = Alive /\ \A o : Sound(o)' <=> Sound(o)
  BY Zenon, <1>1 DEF Alive, Sound
<1>4. CopyInv'
  BY Zenon, <1>1, <1>3 DEF DvmInv, CopyInv
<1>5. QED BY Zenon, <1>2, <1>3, <1>4 DEF DvmInv

\* A new copy has the size of its object.
LEMMA AllocateStep ==
  ASSUME DvmInv, NEW h, Deref(h) # None, Allocate(h), UNCHANGED disciplined PROVE DvmInv'
<1>1. PICK x : x = Deref(h)
  BY Zenon
<1>2. PICK new : new = [of |-> x.obj, pages |-> Pages(Extent(x))]
  BY Zenon
<1>3. /\ bufs' = bufs \cup {new}
      /\ UNCHANGED <<refs, meta, throwable, frames, panicked, answer, freed, born>>
  BY Zenon, <1>1, <1>2 DEF Allocate
<1>4. x \in Alive /\ new.of = x.obj /\ new.pages = Pages(Extent(x))
  BY Zenon, <1>1, <1>2, DerefAlive DEF DvmInv
<1>5. /\ new.of \in 1 .. born
      /\ \A o \in Alive : o.obj = new.of => new.pages = Pages(Extent(o))
  BY Zenon, <1>4 DEF DvmInv, CopyInv
<1>6. \A b \in bufs' : /\ b.of \in 1 .. born
                       /\ \A o \in Alive : o.obj = b.of => b.pages = Pages(Extent(o))
  BY Zenon, <1>3, <1>5 DEF DvmInv, CopyInv
<1>7. HostInv'
  BY Zenon, <1>3, HostSame DEF DvmInv
<1>8. QED BY Zenon, <1>3, <1>6, <1>7, BufferStep

\* The object still has the length it was copied with.
LEMMA FreeStep ==
  ASSUME DvmInv, NEW h, Deref(h) # None, NEW b \in bufs, Free(h, b), UNCHANGED disciplined
  PROVE  DvmInv'
<1>1. /\ Deref(h).obj = b.of /\ bufs' = bufs \ {b}
      /\ freed' = <<b.pages, Pages(FreedSize(Deref(h)))>>
      /\ UNCHANGED <<refs, meta, throwable, frames, panicked, answer, born>>
  BY Zenon DEF Free
<1>2. b.pages = Pages(FreedSize(Deref(h)))
  BY Zenon, <1>1, DerefAlive DEF DvmInv, CopyInv, FreedSize
<1>3. freed'[1] = freed'[2]
  BY Zenon, <1>1, <1>2
<1>4. HostInv'
  BY Zenon, <1>1, <1>3 DEF DvmInv, HostInv, HostGetsResult, FreedAsAllocated
<1>5. \A x \in bufs' : /\ x.of \in 1 .. born
                       /\ \A o \in Alive : o.obj = x.of => x.pages = Pages(Extent(o))
  BY Zenon, <1>1 DEF DvmInv, CopyInv
<1>6. QED BY Zenon, <1>1, <1>4, <1>5, BufferStep

-----------------------------------------------------------------------------
(* Calls from the host *)

\* A call is pushed, or the innermost one returns.
LEMMA FramesStep ==
  ASSUME HostInv, UNCHANGED <<panicked, freed, disciplined>>, HostGetsResult',
         \/ \E f \in {"method", "export", "onload"} : frames' = Append(frames, f)
         \/ frames # <<>> /\ frames' = SubSeq(frames, 1, Len(frames) - 1)
  PROVE  HostInv'
<1> DEFINE F == {"method", "export", "onload"}
<1>1. frames \in Seq(F)
  BY Zenon DEF HostInv
<1> HIDE DEF F
<1>2. CASE \E f \in F : frames' = Append(frames, f)
  <2>1. frames' \in Seq(F)
    BY SMTT(30), <1>1, <1>2, AppendProperties
  <2>2. QED BY Zenon, <2>1 DEF HostInv, FreedAsAllocated, F
<1>3. CASE frames # <<>> /\ frames' = SubSeq(frames, 1, Len(frames) - 1)
  <2>1. Len(frames) \in Nat /\ Len(frames) - 1 \in 0 .. Len(frames)
    BY <1>1, <1>3
  <2>2. frames' \in Seq(F)
    <3>1. \A j \in 1 .. Len(frames) - 1 : j \in 1 .. Len(frames)
      BY <2>1
    <3>2. QED BY SMTT(30), <1>1, <1>3, <2>1, <3>1, SubSeqProperties
  <2>3. QED BY Zenon, <2>2 DEF HostInv, FreedAsAllocated, F
<1>4. QED BY Zenon, <1>2, <1>3 DEF F

\* The argument of a call is a new local reference.
LEMMA CallMethodStep ==
  ASSUME DvmInv, NEW c \in 1 .. Len(classes), NEW name, NEW args, CallMethod(c, name, args),
         UNCHANGED disciplined
  PROVE  DvmInv'
<1>1. CASE Panic
  BY Zenon, <1>1, PanicStep
<1>2. CASE /\ frames' = Append(frames, "method")
           /\ IF args
                THEN AddLocal(Object("simple", c, born + 1, 0)) /\ born' = born + 1
                ELSE UNCHANGED <<local, lheld, born>>
           /\ UNCHANGED <<global, gheld, meta, throwable, bufs, panicked, answer, freed>>
  <2>1. HostInv' /\ GlobalKept /\ HeldKept
    BY Zenon, <1>2, FramesStep, GlobalSame DEF DvmInv, HostInv, HostGetsResult
  <2>2. CASE args
    <3>1. PICK o : o = Object("simple", c, born + 1, 0)
      BY Zenon
    <3>2. "simple" \in ObjectKinds /\ c \in Nat /\ born + 1 \in Nat /\ 0 \in Nat
      BY ClassNumbers DEF ObjectKinds, DvmInv, CopyInv
    <3>3. o \in Objects /\ o.kind = "simple" /\ o.n = c /\ o.obj = born + 1
      BY <3>1, <3>2, ObjectFacts
    <3>4. AddLocal(o) /\ born' = born + 1
      BY Zenon, <1>2, <2>2, <3>1
    <3>5. PoolInv' /\ Alive' = Alive \cup {o}
      BY Zenon, <1>2, <3>3, <3>4, LocalAdd DEF DvmInv
    <3>6. Sound(o)'
      BY Zenon, <1>2, <3>3 DEF Sound, meta
    <3>7. QED BY Zenon, <1>2, <2>1, <3>3, <3>4, <3>5, <3>6, RefStepOne
  <2>3. CASE ~args
    <3>1. UNCHANGED <<local, lheld, born>>
      BY Zenon, <1>2, <2>3
    <3>2. PoolInv' /\ Alive' = Alive
      BY Zenon, <1>2, <3>1 DEF DvmInv, PoolInv, HandleStable, Alive
    <3>3. QED BY Zenon, <1>2, <2>1, <3>1, <3>2, RefStepNone
  <2>4. QED BY Zenon, <2>2, <2>3
<1>3. QED BY Zenon, <1>1, <1>2 DEF CallMethod

\* JNI_OnLoad is called with no reference.
LEMMA CallOnLoadStep ==
  ASSUME DvmInv, CallOnLoad, UNCHANGED disciplined PROVE DvmInv'
<1>1. /\ frames' = Append(frames, "onload")
      /\ UNCHANGED <<local, global, lheld, gheld, meta, throwable, bufs, panicked, answer, freed, born>>
  BY Zenon DEF CallOnLoad, refs
<1>2. HostInv' /\ GlobalKept /\ HeldKept
  BY Zenon, <1>1, FramesStep, GlobalSame DEF DvmInv, HostInv, HostGetsResult
<1>3. PoolInv' /\ Alive' = Alive
  BY Zenon, <1>1 DEF DvmInv, PoolInv, HandleStable, Alive
<1>4. QED BY Zenon, <1>1, <1>2, <1>3, RefStepNone

\* The receiver of an exported function is a new global reference.
LEMMA CallExportStep ==
  ASSUME DvmInv, CallExport, UNCHANGED disciplined PROVE DvmInv'
<1>1. PICK o : o = Object("simple", 1, born + 1, 0)
  BY Zenon
<1>2. /\ frames' = Append(frames, "export") /\ AddGlobal(o) /\ born' = born + 1
      /\ UNCHANGED <<local, lheld, meta, throwable, bufs, panicked, answer, freed>>
  BY Zenon, <1>1 DEF CallExport
<1>3. HostInv'
  BY Zenon, <1>2, FramesStep DEF DvmInv, HostInv, HostGetsResult
<1>4. \E k \in {"class", "simple"}, c \in 1 .. Len(classes) : o = Object(k, c, born + 1, 0)
  BY Zenon, <1>1, ClassNumbers
<1>5. QED BY Zenon, <1>2, <1>3, <1>4, AddGlobalStep

\* The local pool is cleared or stays, and the innermost call is gone.
LEMMA PopStep ==
  ASSUME DvmInv, frames # <<>>, frames' = SubSeq(frames, 1, Len(frames) - 1), HostGetsResult',
         \/ UNCHANGED <<local, lheld>>
         \/ local' = Clear(local) /\ lheld' = {},
         UNCHANGED <<global, gheld, meta, throwable, bufs, panicked, freed, born, disciplined>>
  PROVE  DvmInv'
<1>1. HostInv' /\ GlobalKept /\ HeldKept
  BY Zenon, FramesStep, GlobalSame DEF DvmInv
<1>2. PoolInv' /\ Alive' \subseteq Alive
  <2>1. CASE UNCHANGED <<local, lheld>>
    BY Zenon, <2>1 DEF DvmInv, PoolInv, HandleStable, Alive
  <2>2. CASE local' = Clear(local) /\ lheld' = {}
    BY Zenon, <2>2, LocalDrop DEF DvmInv
  <2>3. QED BY Zenon, <2>1, <2>2
<1>3. QED BY Zenon, <1>1, <1>2, RefStepNone

\* The reference that native code returns denotes one object, which is looked up
\* before the pool is cleared.
LEMMA ReturnStep ==
  ASSUME DvmInv, NEW h \in RefHandles, Return(h), UNCHANGED disciplined PROVE DvmInv'
<1> DEFINE held == {q \in IF h.tag = "ref" THEN gheld ELSE lheld : q[1] = h.n}
           given == {p[2] : p \in held}
           top == frames[Len(frames)]
<1>1. /\ frames # <<>> /\ given # {} /\ frames' = SubSeq(frames, 1, Len(frames) - 1)
      /\ answer' = IF top = "onload" THEN <<None, None>>
                   ELSE <<CHOOSE o \in given : TRUE, Result(h)>>
      /\ IF top = "export" THEN UNCHANGED <<local, lheld>> ELSE local' = Clear(local) /\ lheld' = {}
      /\ UNCHANGED <<global, gheld, meta, throwable, bufs, panicked, freed, born>>
  BY Zenon DEF Return, Running
<1>2. \A o \in given : o = Deref(h)
  <2>1. h.tag \in {"object", "ref"}
    BY Zenon DEF RefHandles
  <2>2. CASE h.tag = "ref"
    <3>1. Deref(h) = Get(global, h.n)
      BY Zenon, <2>2 DEF Deref
    <3>2. QED BY Zenon, <2>2, <3>1 DEF DvmInv, PoolInv, HandleStable
  <2>3. CASE h.tag = "object"
    <3>1. Deref(h) = Get(local, h.n)
      BY Zenon, <2>3 DEF Deref
    <3>2. QED BY Zenon, <2>3, <3>1 DEF DvmInv, PoolInv, HandleStable
  <2>4. QED BY Zenon, <2>1, <2>2, <2>3
<1> HIDE DEF given, top
<1>3. (CHOOSE o \in given : TRUE) = Result(h)
  BY Zenon, <1>1, <1>2 DEF Result
<1>4. HostGetsResult'
  <2>1. answer'[1] = answer'[2]
    BY Zenon, <1>1, <1>3
  <2>2. QED BY Zenon, <2>1 DEF HostGetsResult
<1>5. QED BY Zenon, <1>1, <1>4, PopStep

\* A call without a result returns.
LEMMA ReturnVoidStep ==
  ASSUME DvmInv, ReturnVoid, UNCHANGED disciplined PROVE DvmInv'
<1>1. /\ frames # <<>> /\ frames' = SubSeq(frames, 1, Len(frames) - 1)
      /\ \/ UNCHANGED <<local, lheld>>
         \/ local' = Clear(local) /\ lheld' = {}
      /\ UNCHANGED <<global, gheld, meta, throwable, bufs, panicked, answer, freed, born>>
  BY Zenon DEF ReturnVoid, Running
<1>2. HostGetsResult'
  BY Zenon, <1>1 DEF DvmInv, HostInv, HostGetsResult
<1>3. QED BY Zenon, <1>1, <1>2, PopStep

-----------------------------------------------------------------------------
(* Every step *)

\* What the host's Jni answers with is an object of a class.
LEMMA AnswerStep ==
  ASSUME DvmInv, NEW kind \in ResultKinds, NewLocal(kind, 1, 0) \/ Panic, UNCHANGED disciplined
  PROVE  DvmInv'
<1>1. kind \in ObjectKinds \ {"objref"} /\ 1 \in 1 .. Len(classes) /\ 0 \in Nat
  BY Zenon, ObjectsAssumption, ClassNumbers
<1>2. CASE NewLocal(kind, 1, 0)
  BY Zenon, <1>1, <1>2, NewLocalStep
<1>3. QED BY Zenon, <1>2, PanicStep

\* Every call about references.
LEMMA ReferencesStep ==
  ASSUME DvmInv, References, UNCHANGED disciplined PROVE DvmInv'
<1>1. ASSUME NEW name \in ClassNames, FindClass(name) PROVE DvmInv'
  BY Zenon, <1>1, FindClassStep
<1>2. ASSUME NEW h \in AnyHandles, NewGlobalRef(h) \/ DeleteLocalRef(h) \/ Throw(h) PROVE DvmInv'
  BY Zenon, <1>2, NewGlobalRefStep, DeleteLocalRefStep, ThrowStep
<1>3. ASSUME NEW h \in AnyHandles, AllocObject(h) PROVE DvmInv'
  <2>1. "simple" \in ObjectKinds \ {"objref"} /\ 0 \in Nat
    BY Zenon DEF ObjectKinds
  <2>2. ClassArg(h) \in 1 .. Len(classes) /\ NewLocal("simple", ClassArg(h), 0)
    BY <1>3, ClassArgRange, ClassNumbers DEF AllocObject
  <2>3. QED BY Zenon, <2>1, <2>2, NewLocalStep
<1>4. ASSUME NEW h \in RefHandles, NewLocalRef(h) \/ GetObjectClass(h) PROVE DvmInv'
  BY Zenon, <1>4, NewLocalRefStep, PanicStep DEF GetObjectClass
<1>5. ASSUME NEW n \in 0 .. MaxObjects, DeleteGlobalRef(n) PROVE DvmInv'
  BY Zenon, <1>5, DeleteGlobalRefStep
<1>6. ASSUME NEW len \in Lengths, NewStringUTF(len) \/ NewByteArray(len) PROVE DvmInv'
  <2>1. {"string", "bytes"} \subseteq ObjectKinds \ {"objref"}
    BY Zenon DEF ObjectKinds
  <2>2. len \in Nat /\ BuiltinClass \in 1 .. Len(classes)
    BY Zenon, DalvikAssumption, ClassNumbers
  <2>3. NewLocal("string", BuiltinClass, len) \/ NewLocal("bytes", BuiltinClass, len)
    BY Zenon, <1>6 DEF NewStringUTF, NewByteArray
  <2>4. QED BY Zenon, <2>1, <2>2, <2>3, NewLocalStep
<1>7. CASE ExceptionOccurred
  <2>1. PICK o : o = throwable
    BY Zenon
  <2>2. o \in Alive
    BY Zenon, <1>7, <2>1 DEF ExceptionOccurred, Alive
  <2>3. /\ AddLocal(o) /\ born' = born + 1
        /\ UNCHANGED <<global, gheld, meta, rest, disciplined>>
    BY Zenon, <1>7, <2>1 DEF ExceptionOccurred
  <2>4. QED BY Zenon, <2>2, <2>3, CopyLocalStep
<1>8. CASE ExceptionClear
  BY Zenon, <1>8, ThrowableStep DEF ExceptionClear
<1>9. QED BY Zenon, <1>1, <1>2, <1>3, <1>4, <1>5, <1>6, <1>7, <1>8 DEF References

\* A lookup that the host's Jni accepts or refuses.
LEMMA MemberIDStep ==
  ASSUME DvmInv, NEW h \in AnyHandles, NEW k \in {"method", "field"}, NEW name \in MemberNames,
         NEW accept \in BOOLEAN, GetMemberID(h, k, name, accept), UNCHANGED disciplined
  PROVE  DvmInv'
<1>1. CASE accept = TRUE
  BY Zenon, <1>1, AcceptStep
<1>2. CASE accept = FALSE
  BY Zenon, <1>2, RefuseStep
<1>3. QED BY Zenon, <1>1, <1>2

\* Every call about members.
LEMMA MembersStep ==
  ASSUME DvmInv, Members, UNCHANGED disciplined PROVE DvmInv'
<1>1. ASSUME NEW h \in AnyHandles, NEW name \in MemberNames, NEW accept \in BOOLEAN,
             \/ GetMethodID(h, name, accept) \/ GetStaticMethodID(h, name, accept)
             \/ GetFieldID(h, name, accept) \/ GetStaticFieldID(h, name, accept)
      PROVE  DvmInv'
  BY Zenon, <1>1, MemberIDStep DEF GetMethodID, GetStaticMethodID, GetFieldID, GetStaticFieldID
<1>2. ASSUME NEW h \in AnyHandles, NEW i \in ids,
             \/ CallBooleanMethodV(h, i) \/ CallIntMethodV(h, i) \/ CallVoidMethodV(h, i)
             \/ GetIntField(h, i) \/ SetObjectField(h, i) \/ CallStaticIntMethodV(h, i)
      PROVE  DvmInv'
  BY Zenon, <1>2, PanicStep DEF CallBooleanMethodV, CallIntMethodV, CallVoidMethodV, GetIntField,
                         SetObjectField, CallStaticIntMethodV
<1>3. ASSUME NEW h \in AnyHandles, NEW i \in ids, NewObjectV(h, i) PROVE DvmInv'
  <2>1. "simple" \in ObjectKinds \ {"objref"} /\ 0 \in Nat
    BY Zenon DEF ObjectKinds
  <2>2. ClassArg(h) \in 1 .. Len(classes) /\ NewLocal("simple", ClassArg(h), 0)
    BY <1>3, ClassArgRange, ClassNumbers DEF NewObjectV
  <2>3. QED BY Zenon, <2>1, <2>2, NewLocalStep
<1>4. ASSUME NEW h \in AnyHandles, NEW i \in ids, NEW kind \in ResultKinds,
             \/ CallObjectMethodV(h, i, kind) \/ GetObjectField(h, i, kind)
             \/ CallStaticObjectMethodV(h, i, kind) \/ GetStaticObjectField(h, i, kind)
      PROVE  DvmInv'
  <2>1. NewLocal(kind, 1, 0) \/ Panic
    BY Zenon, <1>4 DEF CallObjectMethodV, GetObjectField, CallStaticObjectMethodV, GetStaticObjectField
  <2>2. QED BY Zenon, <2>1, AnswerStep
<1>5. ASSUME NEW h \in AnyHandles, NEW kind \in ResultKinds, GetObjectArrayElement(h, kind)
      PROVE  DvmInv'
  BY Zenon, <1>5, AnswerStep DEF GetObjectArrayElement
<1>6. ASSUME NEW h \in ClassHandles, NEW names \in {<<m>> : m \in MemberNames} \cup (MemberNames \X MemberNames),
             RegisterNatives(h, names)
      PROVE  DvmInv'
  BY Zenon, <1>6, RegisterNativesStep DEF AnyHandles
<1>7. QED BY Zenon, <1>1, <1>2, <1>3, <1>4, <1>5, <1>6 DEF Members

\* Copies of strings and byte arrays are made and freed through references to
\* them.
LEMMA BuffersStep ==
  ASSUME DvmInv, Buffers, UNCHANGED disciplined PROVE DvmInv'
<1>1. PICK h \in AnyHandles :
        \/ GetStringUTFChars(h) \/ GetByteArrayElements(h) \/ GetArrayLength(h)
        \/ \E b \in bufs, mode \in 0 .. 2 :
             ReleaseStringUTFChars(h, b) \/ ReleaseByteArrayElements(h, b, mode)
        \/ \E start, length \in Lengths :
             GetByteArrayRegion(h, start, length) \/ SetByteArrayRegion(h, start, length)
  BY Zenon DEF Buffers
<1>2. KindOf(h) = "string" => Deref(h) # None
  BY Zenon DEF KindOf
<1>3. CASE GetStringUTFChars(h) \/ GetByteArrayElements(h) \/ GetArrayLength(h)
  <2>1. Panic \/ (Deref(h) # None /\ Allocate(h))
    BY Zenon, <1>2, <1>3 DEF GetStringUTFChars, GetByteArrayElements, GetArrayLength
  <2>2. QED BY Zenon, <2>1, PanicStep, AllocateStep
<1>4. ASSUME NEW b \in bufs, NEW mode \in 0 .. 2,
             ReleaseStringUTFChars(h, b) \/ ReleaseByteArrayElements(h, b, mode)
      PROVE  DvmInv'
  <2>1. Panic \/ (Deref(h) # None /\ Free(h, b))
    BY Zenon, <1>2, <1>4 DEF ReleaseStringUTFChars, ReleaseByteArrayElements
  <2>2. QED BY Zenon, <2>1, PanicStep, FreeStep
<1>5. ASSUME NEW start \in Lengths, NEW length \in Lengths,
             GetByteArrayRegion(h, start, length) \/ SetByteArrayRegion(h, start, length)
      PROVE  DvmInv'
  BY Zenon, <1>5, PanicStep DEF GetByteArrayRegion, SetByteArrayRegion
<1>6. QED BY Zenon, <1>1, <1>3, <1>4, <1>5

\* The host's calls into native code, and their returns.
LEMMA HostCallsStep ==
  ASSUME DvmInv, HostCalls, UNCHANGED disciplined PROVE DvmInv'
BY Zenon, CallOnLoadStep, CallExportStep, ReturnVoidStep, ReturnStep, CallMethodStep DEF HostCalls

\* DvmInv is inductive.
LEMMA DvmStep == ASSUME DvmInv, [Next]_vars PROVE DvmInv'
BY Zenon, ReferencesStep, MembersStep, BuffersStep, HostCallsStep, Stutter DEF Next

\* It holds when the VM has been made.
LEMMA DvmInits == ASSUME Init PROVE DvmInv
<1>1. New \in Slots(Objects) /\ WellFormed(New) /\ Values(New) = {}
  BY DEF Values, Live, Indices, New, Slots, WellFormed, Get
<1>2. PoolInv
  BY Zenon, <1>1 DEF Init, PoolInv, HandleStable
<1>3. MetaInv
  <2>1. members \in [1 .. MaxClasses -> Seq(MemberSet)]
    BY DEF Init
  <2>2. \A c \in 1 .. MaxClasses : Len(members[c]) = 0
    BY Zenon DEF Init
  <2>3. QED BY <2>1, <2>2, DalvikAssumption DEF Init, MetaInv
<1>4. Alive = {}
  BY Zenon, <1>1 DEF Init, Alive
<1>5. IdInv /\ CopyInv
  BY Zenon, <1>4 DEF Init, IdInv, CopyInv
<1>6. HostInv
  <2>1. frames \in Seq({"method", "export", "onload"})
    BY DEF Init
  <2>2. answer[1] = answer[2] /\ freed[1] = freed[2]
    BY Zenon DEF Init
  <2>3. panicked \in BOOLEAN /\ disciplined \in BOOLEAN
    BY Zenon DEF Init
  <2>4. QED BY Zenon, <2>1, <2>2, <2>3 DEF HostInv, HostGetsResult, FreedAsAllocated
<1>7. QED BY Zenon, <1>2, <1>3, <1>4, <1>5, <1>6 DEF DvmInv

-----------------------------------------------------------------------------
(* What the invariant says of handles and ids *)

\* The parts of the type invariant are parts of DvmInv.
LEMMA DvmTypes == ASSUME DvmInv PROVE TypeOK
<1>1. \A pool \in {local, global} :
        pool \in [data : Seq(Objects \cup {None}), free : Seq(Nat)] /\ WellFormed(pool)
  BY Zenon DEF DvmInv, PoolInv, Slots
<1>2. DOMAIN members = 1 .. MaxClasses /\ \A c \in 1 .. MaxClasses : members[c] \in Seq(MemberSet)
  BY Zenon DEF DvmInv, MetaInv
<1>3. \A c \in DOMAIN members : \A i \in 1 .. Len(members[c]) : members[c][i] \in MemberSet
  BY <1>2
<1>4. QED BY Zenon, <1>1, <1>3 DEF DvmInv, PoolInv, MetaInv, HostInv, TypeOK, MemberSet

\* What a reference that was handed out denotes is known to the emulator.
LEMMA HeldAlive ==
  ASSUME DvmInv, NEW p \in lheld \cup gheld PROVE p[2] \in Alive /\ p[2] # None
<1>1. p \in Nat \X Objects /\ (p[2] = Get(local, p[1]) \/ p[2] = Get(global, p[1]))
  BY Zenon DEF DvmInv, PoolInv, HandleStable
<1>2. p[2] # None
  BY Zenon, <1>1, ObjectsAssumption
<1>3. local \in Slots(Objects) /\ global \in Slots(Objects)
  BY Zenon DEF DvmInv, PoolInv
<1>4. QED BY Zenon, <1>1, <1>2, <1>3, PoolValues DEF Alive

\* Every object the emulator knows has a class: get_class does not panic.
LEMMA ClassOfAlive ==
  ASSUME DvmInv, NEW o \in Alive
  PROVE  /\ GetClass(o) \in 1 .. Len(classes) /\ GetClass(o) # 0
         /\ o.kind = "objref" => GetClass(o) = ErrorClass
<1>1. Sound(o) /\ o # None
  BY Zenon, AliveObjects, ObjectsAssumption DEF DvmInv
<1>2. CASE o.kind = "objref"
  <2>1. GetClass(o) = ErrorClass
    BY Zenon, <1>1, <1>2 DEF GetClass, Sound
  <2>2. QED BY Zenon, <1>2, <2>1, ClassNumbers
<1>3. CASE o.kind # "objref"
  <2>1. GetClass(o) \in {BuiltinClass, o.n} /\ o.n \in 1 .. Len(classes)
    BY Zenon, <1>1, <1>3 DEF GetClass, Sound
  <2>2. QED BY Zenon, <1>3, <2>1, ClassNumbers
<1>4. QED BY Zenon, <1>2, <1>3

\* The exception and the references made from it can be asked for their class.
LEMMA ExceptionHasClass == ASSUME DvmInv PROVE ExceptionResolves
<1>1. ASSUME NEW o \in {throwable} \cup {p[2] : p \in lheld \cup gheld}, o # None, o.kind = "objref"
      PROVE  GetClass(o) = ErrorClass
  <2>1. o \in Alive
    BY Zenon, <1>1, HeldAlive DEF Alive
  <2>2. QED BY Zenon, <1>1, <2>1, ClassOfAlive
<1>2. QED BY Zenon, <1>1 DEF ExceptionResolves

\* An id whose place is below Radix finds the member it was made for.
LEMMA PlacedFound ==
  ASSUME DvmInv, NEW i \in ids, i[4] - ClassId(i[1]) < Radix
  PROVE  /\ FindById(i[1], i[2], i[4]) # 0
         /\ members[i[1]][FindById(i[1], i[2], i[4])].name = i[3]
<1>1. PICK j \in 1 .. Len(members[i[1]]) :
        /\ i[4] = MemberId(i[1], j)
        /\ members[i[1]][j].kind = i[2] /\ members[i[1]][j].name = i[3]
  BY Zenon DEF DvmInv, IdInv, Placed
<1>2. i[1] \in 1 .. Len(classes) /\ i[1] \in 1 .. MaxClasses
  BY Zenon, ClassNumbers DEF DvmInv, IdInv, Placed
<1>3. Len(members[i[1]]) \in Nat
  BY <1>2 DEF DvmInv, MetaInv
<1>4. PICK a : a = i[1] - 1
  BY Zenon
<1>5. a \in Nat /\ Radix \in Nat \ {0} /\ j \in Nat \ {0} /\ a * Radix \in Nat
  <2>1. a \in Nat /\ j \in Nat \ {0}
    BY SMTT(30), <1>2, <1>3, <1>4, ClassNumbers
  <2>2. Radix \in Nat \ {0}
    BY Zenon, DalvikAssumption
  <2>3. QED BY Zenon, <2>1, <2>2, Products
<1>6. i[4] = a * Radix + j /\ ClassId(i[1]) = a * Radix
  BY Zenon, <1>1, <1>4 DEF MemberId, ClassId
<1>7. j \in 0 .. Radix - 1
  BY <1>5, <1>6
<1>8. i[4] % Radix = j
  BY Zenon, <1>5, <1>6, <1>7, Remainder
<1>9. FindById(i[1], i[2], i[4]) = j
  BY Zenon, <1>1, <1>8 DEF FindById
<1>10. QED BY Zenon, <1>1, <1>5, <1>9

\* The invariant the run checks follows.
LEMMA DvmDenotes == ASSUME DvmInv PROVE HandlesDenote
<1>1. IdsResolve
  BY Zenon, PlacedFound DEF IdsResolve
<1>2. HandleStable
  BY Zenon DEF DvmInv, PoolInv
<1>3. QED BY Zenon, <1>1, <1>2, DvmTypes, ExceptionHasClass DEF HandlesDenote

-----------------------------------------------------------------------------
(* A careful guest *)

\* What a careful guest holds denotes an object, unless it is a class handle.
LEMMA HeldDenotes ==
  ASSUME DvmInv, NEW h \in AnyHandles, Held(h), h.tag # "class"
  PROVE  Deref(h) # None /\ Deref(h) \in Alive
<1>1. h.tag \in {"ref", "object"}
  BY Zenon, HandleTypes DEF Tags
<1>2. CASE h.tag = "ref"
  <2>1. PICK p \in gheld : p[1] = h.n
    BY Zenon, <1>2 DEF Held
  <2>2. Deref(h) = p[2]
    BY Zenon, <1>2, <2>1 DEF Deref, DvmInv, PoolInv, HandleStable
  <2>3. QED BY Zenon, <2>2, HeldAlive
<1>3. CASE h.tag = "object"
  <2>1. PICK p \in lheld : p[1] = h.n
    BY Zenon, <1>3 DEF Held
  <2>2. Deref(h) = p[2]
    BY Zenon, <1>3, <2>1 DEF Deref, DvmInv, PoolInv, HandleStable
  <2>3. QED BY Zenon, <2>2, HeldAlive
<1>4. QED BY Zenon, <1>1, <1>2, <1>3

\* As long as all classes together have fewer members than an id has room for,
\* every id finds its member.
LEMMA IdFound ==
  ASSUME DvmInv, MaxMembers < Radix, NEW i \in ids
  PROVE  FindById(i[1], i[2], i[4]) # 0 /\ i[1] # 0
<1>1. PICK j \in 1 .. Len(members[i[1]]) : i[4] = MemberId(i[1], j)
  BY Zenon DEF DvmInv, IdInv, Placed
<1>2. i[1] \in 1 .. Len(classes) /\ i[1] \in 1 .. MaxClasses
  BY Zenon, ClassNumbers DEF DvmInv, IdInv, Placed
<1>3. Len(members[i[1]]) \in Nat /\ Len(members[i[1]]) <= MaxMembers
  BY <1>2 DEF DvmInv, MetaInv
<1>4. MaxMembers \in Nat /\ Radix \in Nat
  BY Zenon, DalvikAssumption
<1>5. ClassId(i[1]) \in Int
  <2>1. i[1] - 1 \in Nat
    BY <1>2, ClassNumbers
  <2>2. QED BY SMTT(30), <1>4, <2>1, Products DEF ClassId
<1>6. i[4] - ClassId(i[1]) < Radix
  BY <1>1, <1>3, <1>4, <1>5 DEF MemberId
<1>7. i[1] # 0
  BY Zenon, <1>2, ClassNumbers
<1>8. QED BY Zenon, <1>6, <1>7, PlacedFound

\* An instance and an id of its class: the unwrap of the lookup succeeds.
LEMMA NotUnknown ==
  ASSUME DvmInv, MaxMembers < Radix, disciplined, NEW h \in AnyHandles, NEW i \in ids, NEW k,
         FitsId(h, i, k)
  PROVE  ~Unknown(h, k, i[4])
<1>1. Held(h) /\ h.tag # "class" /\ i[1] = GetClass(Deref(h)) /\ i[2] = k
  BY Zenon DEF FitsId
<1>2. GetClass(Deref(h)) # 0
  BY Zenon, <1>1, HeldDenotes, ClassOfAlive
<1>3. FindById(i[1], k, i[4]) # 0
  BY Zenon, <1>1, IdFound
<1>4. QED BY Zenon, <1>1, <1>2, <1>3 DEF Unknown

\* A class handle denotes no object, so it is never what an array call is for.
LEMMA ClassHandleKind == ASSUME NEW h, h.tag = "class" PROVE KindOf(h) = "none"
BY Zenon DEF KindOf, Deref

\* No reference call of a careful guest panics.
LEMMA ReferencesSafe ==
  ASSUME DvmInv, disciplined, ~panicked, References PROVE ~panicked'
<1>1. ASSUME NEW h \in AnyHandles, NewGlobalRef(h) \/ DeleteLocalRef(h) \/ Throw(h) \/ AllocObject(h)
      PROVE  ~panicked'
  <2>1. CASE NewGlobalRef(h) \/ AllocObject(h)
    BY Zenon, <2>1 DEF NewGlobalRef, AllocObject, NewLocal, rest
  <2>2. CASE DeleteLocalRef(h)
    <3>1. h.tag \in {"object", "class"}
      BY Zenon, <2>2, HandleTypes DEF DeleteLocalRef, Tags
    <3>2. QED BY Zenon, <2>2, <3>1 DEF DeleteLocalRef, rest, vars
  <2>3. CASE Throw(h)
    BY Zenon, <2>3 DEF Throw
  <2>4. QED BY Zenon, <1>1, <2>1, <2>2, <2>3
<1>2. ASSUME NEW h \in RefHandles, NewLocalRef(h) \/ GetObjectClass(h) PROVE ~panicked'
  <2>1. CASE NewLocalRef(h)
    BY Zenon, <2>1 DEF NewLocalRef, rest
  <2>2. ~GetObjectClass(h)
    <3>1. Deref(h) # None => GetClass(Deref(h)) # 0
      BY Zenon, DerefAlive, ClassOfAlive DEF DvmInv
    <3>2. QED BY Zenon, <3>1 DEF GetObjectClass
  <2>3. QED BY Zenon, <1>2, <2>1, <2>2
<1>3. ASSUME \/ \E name \in ClassNames : FindClass(name)
             \/ \E n \in 0 .. MaxObjects : DeleteGlobalRef(n)
             \/ \E len \in Lengths : NewStringUTF(len) \/ NewByteArray(len)
             \/ ExceptionOccurred \/ ExceptionClear
      PROVE  ~panicked'
  BY Zenon, <1>3 DEF FindClass, DeleteGlobalRef, NewStringUTF, NewByteArray, NewLocal,
              ExceptionOccurred, ExceptionClear, rest
<1>4. QED BY Zenon, <1>1, <1>2, <1>3 DEF References

\* No lookup of a member panics.
LEMMA MembersSafe ==
  ASSUME DvmInv, MaxMembers < Radix, disciplined, ~panicked, Members PROVE ~panicked'
<1>1. ASSUME NEW h \in AnyHandles, NEW name \in MemberNames, NEW accept \in BOOLEAN,
             \/ GetMethodID(h, name, accept) \/ GetStaticMethodID(h, name, accept)
             \/ GetFieldID(h, name, accept) \/ GetStaticFieldID(h, name, accept)
      PROVE  ~panicked'
  <2>1. PICK k \in {"method", "field"} : GetMemberID(h, k, name, accept)
    BY Zenon, <1>1 DEF GetMethodID, GetStaticMethodID, GetFieldID, GetStaticFieldID
  <2>2. QED BY Zenon, <2>1 DEF GetMemberID
<1>2. ASSUME NEW h \in AnyHandles, NEW i \in ids,
             \/ CallBooleanMethodV(h, i) \/ CallIntMethodV(h, i) \/ CallVoidMethodV(h, i)
             \/ GetIntField(h, i) \/ SetObjectField(h, i)
      PROVE  FALSE
  <2>1. \E k : FitsId(h, i, k) /\ Unknown(h, k, i[4])
    BY Zenon, <1>2 DEF CallBooleanMethodV, CallIntMethodV, CallVoidMethodV, GetIntField, SetObjectField
  <2>2. QED BY Zenon, <2>1, NotUnknown
<1>3. ASSUME NEW h \in AnyHandles, NEW i \in ids, CallStaticIntMethodV(h, i) PROVE FALSE
  <2>1. ClassArg(h) = i[1] /\ i[2] = "method"
    BY Zenon, <1>3 DEF CallStaticIntMethodV, FitsClassId
  <2>2. QED BY Zenon, <1>3, <2>1, IdFound DEF CallStaticIntMethodV
<1>4. ASSUME NEW h \in AnyHandles, NEW i \in ids, NEW kind \in ResultKinds,
             CallObjectMethodV(h, i, kind) \/ GetObjectField(h, i, kind)
      PROVE  ~panicked'
  <2>1. \E k : FitsId(h, i, k) /\ (~Unknown(h, k, i[4]) => NewLocal(kind, 1, 0))
    BY Zenon, <1>4 DEF CallObjectMethodV, GetObjectField
  <2>2. NewLocal(kind, 1, 0)
    BY Zenon, <2>1, NotUnknown
  <2>3. QED BY Zenon, <2>2 DEF NewLocal, rest
<1>5. ASSUME NEW h \in AnyHandles, NEW i \in ids, NEW kind,
             CallStaticObjectMethodV(h, i, kind) \/ GetStaticObjectField(h, i, kind) \/ NewObjectV(h, i)
      PROVE  ~panicked'
  BY Zenon, <1>5 DEF CallStaticObjectMethodV, GetStaticObjectField, NewObjectV, NewLocal, rest
<1>6. ASSUME NEW h \in AnyHandles, NEW kind \in ResultKinds, GetObjectArrayElement(h, kind)
      PROVE  ~panicked'
  <2>1. h.tag # "class"
    BY Zenon, <1>6, ClassHandleKind DEF GetObjectArrayElement, Fits
  <2>2. QED BY Zenon, <1>6, <2>1 DEF GetObjectArrayElement, NewLocal, rest
<1>7. ASSUME NEW h, NEW names, RegisterNatives(h, names) PROVE ~panicked'
  BY Zenon, <1>7 DEF RegisterNatives, rest
<1>8. QED BY Zenon, <1>1, <1>2, <1>3, <1>4, <1>5, <1>6, <1>7 DEF Members

\* No array call on an array panics, and no region inside it.
LEMMA BuffersSafe ==
  ASSUME DvmInv, disciplined, ~panicked, Buffers PROVE ~panicked'
<1>1. PICK h \in AnyHandles :
        \/ GetStringUTFChars(h) \/ GetByteArrayElements(h) \/ GetArrayLength(h)
        \/ \E b \in bufs, mode \in 0 .. 2 :
             ReleaseStringUTFChars(h, b) \/ ReleaseByteArrayElements(h, b, mode)
        \/ \E start, length \in Lengths :
             GetByteArrayRegion(h, start, length) \/ SetByteArrayRegion(h, start, length)
  BY Zenon DEF Buffers
<1>2. Fits(h, {"bytes"}) => KindOf(h) = "bytes" /\ ~NotBytes(h)
  <2>1. Fits(h, {"bytes"}) => KindOf(h) = "bytes"
    BY Zenon DEF Fits
  <2>2. QED BY Zenon, <2>1, ClassHandleKind DEF NotBytes
<1>3. ~GetArrayLength(h)
  BY Zenon, ClassHandleKind DEF GetArrayLength, Fits
<1>4. CASE GetStringUTFChars(h) \/ GetByteArrayElements(h)
  BY Zenon, <1>2, <1>4 DEF GetStringUTFChars, GetByteArrayElements, Allocate
<1>5. ASSUME NEW b \in bufs, NEW mode \in 0 .. 2,
             ReleaseStringUTFChars(h, b) \/ ReleaseByteArrayElements(h, b, mode)
      PROVE  ~panicked'
  BY Zenon, <1>2, <1>5 DEF ReleaseStringUTFChars, ReleaseByteArrayElements, Free
<1>6. ASSUME NEW start \in Lengths, NEW length \in Lengths,
             GetByteArrayRegion(h, start, length) \/ SetByteArrayRegion(h, start, length)
      PROVE  FALSE
  <2>1. KindOf(h) = "bytes" /\ start + length <= Deref(h).len /\ start + length > Deref(h).len
    BY Zenon, <1>2, <1>6 DEF GetByteArrayRegion, SetByteArrayRegion
  <2>2. Deref(h) \in Objects
    BY Zenon, <2>1, DerefAlive DEF KindOf, DvmInv
  <2>3. Deref(h).len \in Nat /\ start \in Nat /\ length \in Nat
    BY Zenon, <2>2, DalvikAssumption DEF Objects
  <2>4. QED BY <2>1, <2>3
<1>7. QED BY Zenon, <1>1, <1>3, <1>4, <1>5, <1>6

\* The host calls only methods that have a function.
LEMMA HostCallsSafe ==
  ASSUME disciplined, ~panicked, HostCalls PROVE ~panicked'
BY Zenon DEF HostCalls, CallOnLoad, CallExport, ReturnVoid, Return, CallMethod

\* A careful guest does not bring the emulator down.
LEMMA NoPanicStep ==
  ASSUME MaxMembers < Radix, DvmInv, NoPanic, [Next]_vars PROVE NoPanic'
<1>1. CASE UNCHANGED vars
  BY Zenon, <1>1 DEF NoPanic, vars, rest
<1>2. CASE Next
  <2>1. UNCHANGED disciplined /\ (References \/ Members \/ Buffers \/ HostCalls)
    BY Zenon, <1>2 DEF Next
  <2>2. ASSUME disciplined PROVE ~panicked'
    <3>1. ~panicked
      BY Zenon, <2>2 DEF NoPanic
    <3>2. QED BY Zenon, <2>1, <2>2, <3>1, ReferencesSafe, MembersSafe, BuffersSafe, HostCallsSafe
  <2>3. QED BY Zenon, <2>1, <2>2 DEF NoPanic
<1>3. QED BY Zenon, <1>1, <1>2

-----------------------------------------------------------------------------
(* The theorems *)

\* DvmInv holds in every state the VM reaches.
THEOREM DvmInvariance == Spec => []DvmInv
BY DvmInits, DvmStep, PTL DEF Spec

\* References, the exception and ids keep denoting what they denoted, whatever
\* the guest deletes, clears, looks up or registers, for any number of them:
\* SparseList reuses only free slots, throw_class keeps its instance, and member
\* lists only grow.
THEOREM HandlesAlwaysDenote == Spec => []HandlesDenote
BY DvmInvariance, DvmDenotes, PTL

\* call_method and call_jni_export give the host the object native code returned,
\* however deep the calls are nested.
THEOREM HostAlwaysGetsResult == Spec => []HostGetsResult
<1>1. DvmInv => HostGetsResult
  BY Zenon DEF DvmInv, HostInv
<1>2. QED BY <1>1, DvmInvariance, PTL

\* A careful guest meets no panic of the JNI functions, and copies are freed with
\* the size they were allocated with, as long as the members of all classes are
\* fewer than the numbers an id has for them (0x10000).
THEOREM CarefulGuestsSafe ==
  ASSUME MaxMembers < Radix PROVE Spec => []CarefulGuestSafe
<1>1. Init => NoPanic
  BY Zenon DEF Init, NoPanic
<1>2. DvmInv /\ NoPanic /\ [Next]_vars => NoPanic'
  BY Zenon, NoPanicStep
<1>3. DvmInv /\ NoPanic => CarefulGuestSafe
  BY Zenon DEF DvmInv, HostInv, CarefulGuestSafe
<1>4. QED BY <1>1, <1>2, <1>3, DvmInvariance, PTL DEF Spec

=============================================================================
