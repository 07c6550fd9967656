-------------------------- MODULE GuestMemoryProofs --------------------------
(***************************************************************************)
(* The memory map of GuestMemory, for every address space, every set of    *)
(* lengths, files and images: which pages it lists, where the next mapping *)
(* goes, and that a guest that keeps to its own mappings meets no panic.   *)
(* And the copies of process_vm_readv and process_vm_writev (ProcessVm),   *)
(* for every memory and every list of ranges.                              *)
(***************************************************************************)
EXTENDS GuestMemory, ProcessVm, WellFoundedInduction, TLAPS

-----------------------------------------------------------------------------
(* The inductive invariant *)

\* The end of an entry.
Finish(m, x) == x + m[x].size

MapType(m) ==
  \A x \in DOMAIN m :
    x \in Nat /\ m[x] \in [size : Nat \ {0}, prot : Prots \cup {"none"}] /\ Finish(m, x) <= Top

\* No entry reaches into the next one.
Apart(m) == \A x, y \in DOMAIN m : x < y => Finish(m, x) <= y

TypeInv ==
  /\ discipline \in {"own", "cuts", "none"}
  /\ MapType(map) /\ mapped \subseteq 0 .. Top - 1 /\ image \subseteq 0 .. Top - 1
  /\ base \in 0 .. Top /\ brk \in Nat /\ panicked \in BOOLEAN

\* A guest that chooses no addresses: entries are apart and below mmap_base, an
\* entry belongs to images as a whole or not at all, and what is mapped is listed.
CutInv ==
  discipline # "none" =>
    /\ Apart(map)
    /\ \A x \in DOMAIN map : Finish(map, x) <= base
    /\ \A x \in DOMAIN map : Extent(map, x) \subseteq image \/ Extent(map, x) \cap image = {}
    /\ image \subseteq Listed(map)
    /\ mapped \subseteq Listed(map) \cup leaked

\* An anonymous mmap has failed only after another call had failed half way.
AnswerInv == discipline # "none" /\ leaked = {} => answer # <<"mmap", "EAGAIN">>

\* A guest that keeps to its own mappings.
OwnInv ==
  discipline = "own" =>
    /\ Listed(map) = (mapped \ leaked) \cup stale
    /\ leaked \subseteq mapped /\ leaked \cap Listed(map) = {} /\ mapped \cap stale = {}
    /\ \A t \in temp : Pages(t[1], t[2]) \subseteq Listed(map)
    /\ brk % PageUnits = 0 /\ heap = 0 .. (brk \div PageUnits) - 1
    /\ UnmapSucceeds /\ NoPanic

MapInv == TypeInv /\ CutInv /\ AnswerInv /\ OwnInv

-----------------------------------------------------------------------------
(* Lemmas about sets of addresses and about memory maps *)

\* A set of addresses that is not empty has a least one.
LEMMA LeastAddress ==
  ASSUME NEW S \in SUBSET Nat, S # {}
  PROVE  \E x \in S : \A y \in S : x <= y
<1> DEFINE R == OpToRel(<, Nat)
<1>1. IsWellFoundedOn(R, Nat)
  BY Zenon, NatLessThanWellFounded
<1>2. \A x, y \in Nat : <<x, y>> \in R <=> x < y
  BY Zenon DEF OpToRel
<1> HIDE DEF R
<1>3. PICK x \in S : \A y \in S : ~(<<y, x>> \in R)
  BY Zenon, <1>1, WFMin
<1>4. ASSUME NEW y \in S PROVE x <= y
  <2>1. ~(y < x)
    BY Zenon, <1>2, <1>3
  <2> QED BY <2>1
<1> QED BY Zenon, <1>4

\* One of addresses below a bound has a greatest one.
LEMMA GreatestAddress ==
  ASSUME NEW b \in Nat, NEW S \in SUBSET (0 .. b), S # {}
  PROVE  \E x \in S : \A y \in S : y <= x
<1>1. PICK D : D = {b - x : x \in S}
  BY Zenon
<1>2. D \in SUBSET Nat /\ D # {}
  <2>1. \A x \in S : b - x \in Nat
    OBVIOUS
  <2> QED BY Zenon, <1>1, <2>1
<1>3. PICK d \in D : \A e \in D : d <= e
  BY Zenon, <1>2, LeastAddress
<1>4. PICK x \in S : d = b - x
  BY Zenon, <1>1, <1>3
<1>5. ASSUME NEW y \in S PROVE y <= x
  <2>1. b - y \in D
    BY Zenon, <1>1
  <2>2. d <= b - y
    BY Zenon, <1>3, <2>1
  <2> QED BY <1>4, <2>2
<1> QED BY Zenon, <1>5

\* A page is listed when an entry extends over it.
LEMMA ListedIff ==
  ASSUME NEW m, NEW q
  PROVE  q \in Listed(m) <=> \E x \in DOMAIN m : q \in Pages(x, m[x].size)
BY Zenon DEF Listed, Extent

\* The pages of a range of addresses.
LEMMA PagesIff ==
  ASSUME NEW a \in Nat, NEW n \in Nat, NEW q
  PROVE  q \in Pages(a, n) <=> q \in Nat /\ a <= q /\ q < a + n
BY DEF Pages

\* The types of an entry.
LEMMA EntryType ==
  ASSUME NEW m, MapType(m), NEW x \in DOMAIN m
  PROVE  /\ x \in Nat /\ m[x].size \in Nat \ {0} /\ m[x].prot \in Prots \cup {"none"}
         /\ Finish(m, x) \in Nat /\ Finish(m, x) = x + m[x].size /\ x < Finish(m, x) /\ Finish(m, x) <= Top
BY MemoryAssumption DEF MapType, Finish

\* Entries that fit below the top may be inserted.
LEMMA InsertType ==
  ASSUME NEW m, MapType(m), NEW a \in Nat, NEW n \in Nat \ {0}, NEW p \in Prots \cup {"none"}, a + n <= Top
  PROVE  MapType(Insert(m, a, Entry(n, p)))
<1>1. PICK e : e = Entry(n, p)
  BY Zenon
<1>2. e \in [size : Nat \ {0}, prot : Prots \cup {"none"}] /\ e.size = n
  BY Zenon, <1>1 DEF Entry
<1>3. PICK r : r = Insert(m, a, e)
  BY Zenon
<1>4. /\ DOMAIN r = DOMAIN m \cup {a} /\ r[a] = e
      /\ \A x \in DOMAIN m : x # a => r[x] = m[x]
  BY Zenon, <1>3 DEF Insert
<1>5. ASSUME NEW x \in DOMAIN r
      PROVE  x \in Nat /\ r[x] \in [size : Nat \ {0}, prot : Prots \cup {"none"}] /\ Finish(r, x) <= Top
  <2>1. CASE x = a
    BY Zenon, <1>2, <1>4, <2>1 DEF Finish
  <2>2. CASE x # a
    BY Zenon, <1>4, <2>2 DEF Finish, MapType
  <2> QED BY Zenon, <2>1, <2>2
<1> QED BY Zenon, <1>1, <1>3, <1>4, <1>5 DEF MapType

\* So may entries be removed.
LEMMA WithoutType ==
  ASSUME NEW m, MapType(m), NEW s
  PROVE  MapType(Without(m, s))
<1>1. PICK r : r = Without(m, s)
  BY Zenon
<1>2. /\ DOMAIN r = DOMAIN m \ s
      /\ \A x \in DOMAIN m \ s : r[x] = m[x]
  BY Zenon, <1>1 DEF Without
<1>3. ASSUME NEW x \in DOMAIN r
      PROVE  x \in Nat /\ r[x] \in [size : Nat \ {0}, prot : Prots \cup {"none"}] /\ Finish(r, x) <= Top
  BY Zenon, <1>2 DEF Finish, MapType
<1> QED BY Zenon, <1>1, <1>2, <1>3 DEF MapType
\* An address that the emulator chooses is a page of the address space or its
\* top, at or below mmap_base (allocate_map_address).
LEMMA AllocateType ==
  ASSUME TypeInv
  PROVE  AllocateMapAddress \in Nat /\ AllocateMapAddress <= base
<1> DEFINE ends == {a + map[a].size : a \in {x \in DOMAIN map : \A y \in DOMAIN map : y <= x}}
<1>1. base \in Nat
  BY MemoryAssumption DEF TypeInv
<1>2. \A e \in ends : e \in Nat
  BY EntryType DEF TypeInv
<1>3. \A e, f \in ends : e = f
  <2>1. \A x \in DOMAIN map : x \in Nat
    BY Zenon, EntryType DEF TypeInv
  <2> QED BY <2>1
<1>4. AllocateMapAddress = IF \E e \in ends : e < base THEN CHOOSE e \in ends : TRUE ELSE base
  BY Zenon DEF AllocateMapAddress
<1> HIDE DEF ends
<1>5. CASE \E e \in ends : e < base
  <2>1. AllocateMapAddress \in ends
    BY Zenon, <1>4, <1>5
  <2> QED BY <1>1, <1>2, <1>3, <1>5, <2>1
<1>6. CASE ~ \E e \in ends : e < base
  BY <1>1, <1>4, <1>6
<1> QED BY Zenon, <1>5, <1>6

\* When entries are apart and below mmap_base, it is behind every entry.
LEMMA AllocateBehind ==
  ASSUME TypeInv, Apart(map), \A x \in DOMAIN map : Finish(map, x) <= base, NEW k \in DOMAIN map
  PROVE  Finish(map, k) <= AllocateMapAddress
<1> DEFINE ends == {a + map[a].size : a \in {x \in DOMAIN map : \A y \in DOMAIN map : y <= x}}
<1>1. base \in Nat /\ \A x \in DOMAIN map : x \in Nat /\ Finish(map, x) \in Nat /\ x < Finish(map, x)
  BY MemoryAssumption, EntryType DEF TypeInv
<1>2. AllocateMapAddress = IF \E e \in ends : e < base THEN CHOOSE e \in ends : TRUE ELSE base
  BY Zenon DEF AllocateMapAddress
<1>3. ASSUME NEW e \in ends PROVE Finish(map, k) <= e
  <2>1. PICK x \in DOMAIN map : e = Finish(map, x) /\ k <= x
    BY Zenon DEF Finish
  <2>2. k = x \/ k < x
    BY <1>1, <2>1
  <2>3. CASE k < x
    BY <1>1, <2>1, <2>3 DEF Apart
  <2> QED BY <1>1, <2>1, <2>2, <2>3
<1> HIDE DEF ends
<1>4. CASE \E e \in ends : e < base
  <2>1. AllocateMapAddress \in ends
    BY Zenon, <1>2, <1>4
  <2> QED BY Zenon, <1>3, <2>1
<1>5. CASE ~ \E e \in ends : e < base
  BY Zenon, <1>2, <1>5
<1> QED BY Zenon, <1>4, <1>5
-----------------------------------------------------------------------------
(* The loop of munmap over the entries of a range *)

Inside(a, n) == {x \in DOMAIN map : x \in Pages(a, n)}

\* The loop visits entries of the range, the first one among them, and goes on
\* from an entry of the first one's protection to the one that follows it.
LEMMA VisitedClosed ==
  ASSUME NEW a, NEW n
  PROVE  /\ Visited(a, n) \subseteq Inside(a, n)
         /\ a \in Inside(a, n) => a \in Visited(a, n)
         /\ \A y \in Visited(a, n), z \in Inside(a, n) :
              map[y].prot = map[a].prot /\ z = y + map[y].size => z \in Visited(a, n)
<1> DEFINE inside == Inside(a, n)
           Follows(x, y) == map[x].prot = map[a].prot /\ y = x + map[x].size
           Closed(s) == a \in s /\ \A y \in s, z \in inside : Follows(y, z) => z \in s
<1>1. Visited(a, n) = {x \in inside : \A s \in SUBSET inside : Closed(s) => x \in s}
  BY Zenon DEF Visited, Inside
<1>2. Visited(a, n) \subseteq inside
  BY Zenon, <1>1
<1>3. a \in inside => a \in Visited(a, n)
  BY Zenon, <1>1
<1>4. ASSUME NEW y \in Visited(a, n), NEW z \in inside, Follows(y, z)
      PROVE  z \in Visited(a, n)
  <2>1. ASSUME NEW s \in SUBSET inside, Closed(s) PROVE z \in s
    <3>1. y \in s
      BY Zenon, <1>1, <2>1
    <3> QED BY Zenon, <1>4, <2>1, <3>1
  <2> QED BY Zenon, <1>1, <2>1
<1> QED BY Zenon, <1>2, <1>3, <1>4

\* The last entry it visits decides how it ends.
LEMMA LoopLast ==
  ASSUME TypeInv, NEW a \in DOMAIN map, NEW n \in Nat \ {0}
  PROVE  \E l \in Visited(a, n) :
           /\ \A y \in Visited(a, n) : y <= l
           /\ LoopEnds(a, n) = IF map[l].prot # map[a].prot THEN "EINVAL"
                               ELSE IF l + map[l].size = a + n THEN "ok" ELSE "panic"
<1>1. PICK S : S = Visited(a, n)
  BY Zenon
<1>2. a \in Nat /\ a \in S /\ S \subseteq Pages(a, n)
  <2>1. a \in Nat
    BY Zenon, EntryType DEF TypeInv
  <2>2. a \in Inside(a, n)
    BY <2>1, PagesIff DEF Inside
  <2> QED BY Zenon, <1>1, <2>1, <2>2, VisitedClosed DEF Inside
<1>3. a + n \in Nat /\ S \in SUBSET (0 .. a + n) /\ S # {}
  BY <1>2 DEF Pages
<1>4. \E x \in S : \A y \in S : y <= x
  BY Zenon, <1>3, GreatestAddress
<1>5. PICK l : l = CHOOSE x \in S : \A y \in S : y <= x
  BY Zenon
<1>6. l \in S /\ \A y \in S : y <= l
  BY Zenon, <1>4, <1>5
<1>7. LoopEnds(a, n) = IF map[l].prot # map[a].prot THEN "EINVAL"
                       ELSE IF l + map[l].size = a + n THEN "ok" ELSE "panic"
  BY Zenon, <1>1, <1>5 DEF LoopEnds
<1> QED BY Zenon, <1>1, <1>6, <1>7

\* What munmap can come to: nothing but an error, the entry at the address cut,
\* the entries of the range removed, the entry removed, or the entry around the
\* address split.
Around(a, k) == k < a /\ a < k + map[k].size
Fails(a, n, o) ==
  /\ o.pages = UnmapPages(a, n) /\ o.map = map /\ o.base = base /\ o.res = "EINVAL"
  /\ UnmapPages(a, n) = Pages(a, n) =>
       /\ a \notin DOMAIN map
       /\ (\A k \in DOMAIN map : ~Around(a, k)) \/ \E k \in DOMAIN map : Around(a, k) /\ map[k].size < n
Whole(a, n, o) == o.pages = Pages(a, n) /\ UnmapPages(a, n) = Pages(a, n)
Trims(a, n, o) ==
  /\ Whole(a, n, o) /\ a \in DOMAIN map /\ map[a].size > n /\ o.base = base /\ o.res = "ok"
  /\ o.map = Insert(Without(map, {a}), a + n, Entry(map[a].size - n, map[a].prot))
Loops(a, n, o) ==
  /\ Whole(a, n, o) /\ a \in DOMAIN map /\ map[a].size < n /\ o.base = base /\ o.res = LoopEnds(a, n)
  /\ o.map = Without(map, Visited(a, n))
Removes(a, n, o) ==
  /\ Whole(a, n, o) /\ a \in DOMAIN map /\ ~(map[a].size > n) /\ ~(map[a].size < n) /\ o.res = "ok"
  /\ o.map = Without(map, {a}) /\ o.base = IF DOMAIN o.map = {} THEN 0 ELSE base
SplitsAt(a, n, o, k) ==
  /\ Whole(a, n, o) /\ a \notin DOMAIN map /\ o.base = base /\ o.res = "ok"
  /\ Around(a, k) /\ ~(map[k].size < n) /\ o.map = Split(k, a, n)

\* These are its five ways.
LEMMA OutcomeCases ==
  ASSUME NEW a, NEW n, NEW o \in Outcomes(a, n)
  PROVE  \/ Fails(a, n, o) \/ Trims(a, n, o) \/ Loops(a, n, o) \/ Removes(a, n, o)
         \/ \E k \in DOMAIN map : SplitsAt(a, n, o, k)
<1> DEFINE gone == UnmapPages(a, n)
           segments == {k \in DOMAIN map : k < a /\ a < k + map[k].size}
<1>1. CASE gone # Pages(a, n)
  BY <1>1 DEF Outcomes, Outcome, Fails, Around
<1>2. CASE gone = Pages(a, n) /\ a \in DOMAIN map
  <2>1. PICK c : c = Cut(a, n)
    BY Zenon
  <2>2. o = Outcome(gone, c.map, c.base, c.res)
    BY Zenon, <1>2, <2>1 DEF Outcomes
  <2>3. o.pages = gone /\ o.map = c.map /\ o.base = c.base /\ o.res = c.res
    BY Zenon, <2>2 DEF Outcome
  <2>4. CASE map[a].size > n
    <3>1. c = [map |-> Insert(Without(map, {a}), a + n, Entry(map[a].size - n, map[a].prot)),
               base |-> base, res |-> "ok"]
      BY Zenon, <2>1, <2>4 DEF Cut
    <3> QED BY Zenon, <1>2, <2>3, <2>4, <3>1 DEF Trims, Whole
  <2>5. CASE ~(map[a].size > n) /\ map[a].size < n
    <3>1. c = [map |-> Without(map, Visited(a, n)), base |-> base, res |-> LoopEnds(a, n)]
      BY Zenon, <2>1, <2>5 DEF Cut
    <3> QED BY Zenon, <1>2, <2>3, <2>5, <3>1 DEF Loops, Whole
  <2>6. CASE ~(map[a].size > n) /\ ~(map[a].size < n)
    <3>1. c = [map |-> Without(map, {a}),
               base |-> IF DOMAIN Without(map, {a}) = {} THEN 0 ELSE base, res |-> "ok"]
      BY Zenon, <2>1, <2>6 DEF Cut
    <3> QED BY Zenon, <1>2, <2>3, <2>6, <3>1 DEF Removes, Whole
  <2> QED BY Zenon, <2>4, <2>5, <2>6
<1>3. CASE gone = Pages(a, n) /\ a \notin DOMAIN map /\ segments = {}
  BY <1>3 DEF Outcomes, Outcome, Fails, Around
<1>4. CASE gone = Pages(a, n) /\ a \notin DOMAIN map /\ segments # {}
  <2>1. o \in {IF map[k].size < n THEN Outcome(gone, map, base, "EINVAL")
               ELSE Outcome(gone, Split(k, a, n), base, "ok") : k \in segments}
    BY Zenon, <1>4 DEF Outcomes
  <2>2. PICK k \in segments : o = IF map[k].size < n THEN Outcome(gone, map, base, "EINVAL")
                                  ELSE Outcome(gone, Split(k, a, n), base, "ok")
    BY Zenon, <2>1
  <2>3. CASE map[k].size < n
    BY Zenon, <1>4, <2>2, <2>3 DEF Outcome, Fails, Around
  <2>4. CASE ~(map[k].size < n)
    BY Zenon, <1>4, <2>2, <2>4 DEF Outcome, SplitsAt, Around, Whole
  <2> QED BY Zenon, <2>3, <2>4
<1> QED BY Zenon, <1>1, <1>2, <1>3, <1>4
-----------------------------------------------------------------------------
(* The memory map after munmap *)

\* Every entry lies within an entry of the map before.
PartOf(r, m) == \A x \in DOMAIN r : \E k \in DOMAIN m : k <= x /\ Finish(r, x) <= Finish(m, k)

\* Entries stay apart, and pages outside the range stay listed.
Carved(r, a, n) == Apart(r) /\ Listed(map) \subseteq Listed(r) \cup Pages(a, n)

\* The entry at the address is longer than the range.
LEMMA Trimmed ==
  ASSUME MapType(map), NEW a \in DOMAIN map, NEW n \in Nat \ {0}, map[a].size > n,
         NEW r, r = Insert(Without(map, {a}), a + n, Entry(map[a].size - n, map[a].prot))
  PROVE  /\ MapType(r) /\ PartOf(r, map)
         /\ Apart(map) => Carved(r, a, n) /\ Listed(r) \cap Pages(a, n) = {}
<1>1. /\ a \in Nat /\ map[a].size \in Nat /\ map[a].prot \in Prots \cup {"none"} /\ a + n \in Nat
      /\ map[a].size - n \in Nat \ {0} /\ a + n + (map[a].size - n) = Finish(map, a)
      /\ Finish(map, a) \in Nat /\ Finish(map, a) <= Top /\ a + n < Finish(map, a) /\ a < a + n
  BY EntryType DEF Finish
<1>2. /\ DOMAIN r = (DOMAIN map \ {a}) \cup {a + n}
      /\ r[a + n].size = map[a].size - n
      /\ \A x \in DOMAIN map \ {a} : x # a + n => r[x] = map[x]
  <2>1. PICK w : w = Without(map, {a})
    BY Zenon
  <2>2. DOMAIN w = DOMAIN map \ {a} /\ \A x \in DOMAIN map \ {a} : w[x] = map[x]
    BY Zenon, <2>1 DEF Without
  <2>3. r = Insert(w, a + n, Entry(map[a].size - n, map[a].prot))
    BY Zenon, <2>1
  <2>4. /\ DOMAIN r = DOMAIN w \cup {a + n}
        /\ r[a + n] = Entry(map[a].size - n, map[a].prot)
        /\ \A x \in DOMAIN w : x # a + n => r[x] = w[x]
    BY Zenon, <2>3 DEF Insert
  <2>5. r[a + n].size = map[a].size - n
    BY <2>4 DEF Entry
  <2>6. DOMAIN r = (DOMAIN map \ {a}) \cup {a + n}
    BY Zenon, <2>2, <2>4
  <2>7. \A x \in DOMAIN map \ {a} : x # a + n => r[x] = map[x]
    BY Zenon, <2>2, <2>4
  <2> QED BY Zenon, <2>5, <2>6, <2>7
<1>3. MapType(r)
  <2>1. MapType(Without(map, {a}))
    BY Zenon, WithoutType
  <2> QED BY Zenon, <1>1, <2>1, InsertType
<1>4. Finish(r, a + n) = Finish(map, a)
  BY Zenon, <1>1, <1>2 DEF Finish
<1>5. \A x \in DOMAIN map \ {a} : x # a + n => Finish(r, x) = Finish(map, x)
  BY Zenon, <1>2 DEF Finish
<1>6. \A x \in DOMAIN map : x \in Nat /\ Finish(map, x) \in Nat /\ x < Finish(map, x)
  BY Zenon, EntryType
<1>7. PartOf(r, map)
  <2> SUFFICES ASSUME NEW x \in DOMAIN r
               PROVE  \E k \in DOMAIN map : k <= x /\ Finish(r, x) <= Finish(map, k)
    BY Zenon DEF PartOf
  <2>1. CASE x = a + n
    BY <1>1, <1>4, <2>1
  <2>2. CASE x # a + n
    BY <1>2, <1>5, <1>6, <2>2
  <2> QED BY Zenon, <2>1, <2>2
<1>8. ASSUME Apart(map) PROVE Apart(r)
  <2> SUFFICES ASSUME NEW x \in DOMAIN r, NEW y \in DOMAIN r, x < y PROVE Finish(r, x) <= y
    BY Zenon DEF Apart
  <2>1. CASE x = a + n
    <3>1. y \in DOMAIN map /\ a < y
      BY <1>1, <1>2, <1>6, <2>1
    <3> QED BY Zenon, <1>4, <1>8, <2>1, <3>1 DEF Apart
  <2>2. CASE x # a + n /\ y # a + n
    BY Zenon, <1>2, <1>5, <1>8, <2>2 DEF Apart
  <2>3. CASE x # a + n /\ y = a + n
    <3>1. x \in DOMAIN map /\ x # a /\ Finish(r, x) = Finish(map, x)
      BY Zenon, <1>2, <1>5, <2>3
    <3>2. x < a \/ a < x
      BY <1>1, <1>6, <3>1
    <3>3. CASE x < a
      BY <1>1, <1>6, <1>8, <2>3, <3>1, <3>3 DEF Apart
    <3>4. CASE a < x
      BY <1>1, <1>6, <1>8, <2>3, <3>1, <3>4 DEF Apart
    <3> QED BY Zenon, <3>2, <3>3, <3>4
  <2> QED BY Zenon, <2>1, <2>2, <2>3
<1>9. ASSUME Apart(map), NEW q \in Listed(map) PROVE q \in Listed(r) \cup Pages(a, n)
  <2>1. PICK x \in DOMAIN map : q \in Pages(x, map[x].size)
    BY Zenon, ListedIff
  <2>2. q \in Nat /\ x <= q /\ q < Finish(map, x)
    BY Zenon, <2>1, EntryType, PagesIff DEF Finish
  <2>3. CASE x = a /\ q < a + n
    BY Zenon, <1>1, <2>2, <2>3, PagesIff
  <2>4. CASE x = a /\ ~(q < a + n)
    <3>1. q \in Pages(a + n, r[a + n].size)
      BY SMTT(30), <1>1, <1>2, <2>2, <2>4, PagesIff DEF Finish
    <3> QED BY Zenon, <1>2, <3>1, ListedIff
  <2>5. CASE x # a
    <3>1. x # a + n
      BY <1>1, <1>6, <1>9, <2>5 DEF Apart
    <3> QED BY Zenon, <1>2, <2>1, <2>5, <3>1, ListedIff
  <2> QED BY Zenon, <2>3, <2>4, <2>5
<1>10. ASSUME Apart(map), NEW q \in Listed(r), q \in Pages(a, n) PROVE FALSE
  <2>1. PICK x \in DOMAIN r : q \in Pages(x, r[x].size)
    BY Zenon, ListedIff
  <2>2. q \in Nat /\ x \in Nat /\ x <= q /\ q < Finish(r, x) /\ q < a + n /\ a <= q
    BY Zenon, <1>1, <1>3, <1>10, <2>1, EntryType, PagesIff DEF Finish
  <2>3. x # a + n /\ x \in DOMAIN map \ {a} /\ Finish(r, x) = Finish(map, x)
    BY <1>1, <1>2, <1>5, <2>2
  <2>4. CASE x < a
    BY <1>1, <1>6, <1>10, <2>2, <2>3, <2>4 DEF Apart
  <2>5. CASE a < x
    BY <1>1, <1>6, <1>10, <2>2, <2>3, <2>5 DEF Apart
  <2> QED BY <1>1, <2>2, <2>3, <2>4, <2>5
<1> QED BY Zenon, <1>3, <1>7, <1>8, <1>9, <1>10 DEF Carved
\* Entries are removed.
LEMMA Removed ==
  ASSUME MapType(map), NEW s, NEW r, r = Without(map, s)
  PROVE  /\ MapType(r) /\ PartOf(r, map) /\ DOMAIN r = DOMAIN map \ s
         /\ \A x \in DOMAIN r : r[x] = map[x]
         /\ Apart(map) => Apart(r)
<1>1. MapType(r)
  BY Zenon, WithoutType
<1>2. DOMAIN r = DOMAIN map \ s /\ \A x \in DOMAIN r : r[x] = map[x]
  BY Zenon DEF Without
<1>3. \A x \in DOMAIN r : x \in DOMAIN map /\ Finish(r, x) = Finish(map, x) /\ x \in Nat /\ Finish(map, x) \in Nat
  BY Zenon, <1>2, EntryType DEF Finish
<1>4. PartOf(r, map)
  BY <1>3 DEF PartOf
<1>5. Apart(map) => Apart(r)
  BY Zenon, <1>3 DEF Apart
<1> QED BY Zenon, <1>1, <1>2, <1>4, <1>5

\* The entry at the address is as long as the range.
LEMMA RemovedOne ==
  ASSUME MapType(map), NEW a \in DOMAIN map, NEW n \in Nat \ {0}, map[a].size = n,
         NEW r, r = Without(map, {a})
  PROVE  Apart(map) => Carved(r, a, n) /\ Listed(r) \cap Pages(a, n) = {}
<1>1. /\ DOMAIN r = DOMAIN map \ {a} /\ \A x \in DOMAIN r : r[x] = map[x]
      /\ Apart(map) => Apart(r)
  BY Zenon, Removed
<1>2. ASSUME NEW q \in Listed(map) PROVE q \in Listed(r) \cup Pages(a, n)
  <2>1. PICK x \in DOMAIN map : q \in Pages(x, map[x].size)
    BY Zenon, ListedIff
  <2>2. CASE x = a
    BY Zenon, <2>1, <2>2
  <2>3. CASE x # a
    BY Zenon, <1>1, <2>1, <2>3, ListedIff
  <2> QED BY Zenon, <2>2, <2>3
<1>3. ASSUME Apart(map), NEW q \in Listed(r), q \in Pages(a, n) PROVE FALSE
  <2>0. PICK x \in DOMAIN r : q \in Pages(x, r[x].size)
    BY Zenon, <1>3, ListedIff
  <2>1. x \in DOMAIN map \ {a} /\ q \in Pages(x, map[x].size)
    BY Zenon, <1>1, <2>0
  <2>2. /\ x \in Nat /\ a \in Nat /\ q \in Nat /\ x <= q /\ q < Finish(map, x) /\ a <= q /\ q < Finish(map, a)
        /\ Finish(map, x) \in Nat /\ Finish(map, a) \in Nat
    BY Zenon, <1>3, <2>1, EntryType, PagesIff DEF Finish
  <2> QED BY <1>3, <2>1, <2>2 DEF Apart
<1> QED BY Zenon, <1>1, <1>2, <1>3 DEF Carved

\* The loop removed the entries of the range, and ended without an error.
LEMMA RemovedAll ==
  ASSUME TypeInv, NEW a \in DOMAIN map, NEW n \in Nat \ {0}, LoopEnds(a, n) = "ok", Apart(map),
         NEW r, r = Without(map, Visited(a, n))
  PROVE  Carved(r, a, n)
<1>1. MapType(map)
  BY Zenon DEF TypeInv
<1>2. /\ DOMAIN r = DOMAIN map \ Visited(a, n) /\ \A x \in DOMAIN r : r[x] = map[x]
      /\ Apart(r)
  BY Zenon, <1>1, Removed
<1>3. PICK l \in Visited(a, n) : /\ \A y \in Visited(a, n) : y <= l
                                 /\ l + map[l].size = a + n
  BY Zenon, LoopLast
<1>4. \A x \in Visited(a, n) : x \in DOMAIN map /\ a <= x /\ x \in Nat /\ Finish(map, x) \in Nat
  <2>1. a \in Nat
    BY Zenon, <1>1, EntryType
  <2> QED BY Zenon, <1>1, <2>1, EntryType, VisitedClosed, PagesIff DEF Inside
<1>5. ASSUME NEW x \in Visited(a, n) PROVE Finish(map, x) <= a + n
  <2>1. x = l \/ x < l
    BY <1>3, <1>4
  <2>2. CASE x = l
    BY <1>3, <1>4, <2>2 DEF Finish
  <2>3. CASE x < l
    <3>1. Finish(map, x) <= l /\ l < Finish(map, l) /\ Finish(map, l) = a + n
      BY Zenon, <1>1, <1>3, <1>4, <2>3, EntryType DEF Apart, Finish
    <3> QED BY <1>4, <3>1
  <2> QED BY Zenon, <2>1, <2>2, <2>3
<1>6. ASSUME NEW q \in Listed(map) PROVE q \in Listed(r) \cup Pages(a, n)
  <2>1. PICK x \in DOMAIN map : q \in Pages(x, map[x].size)
    BY Zenon, ListedIff
  <2>2. CASE x \in Visited(a, n)
    <3>1. a \in Nat /\ q \in Nat /\ x <= q /\ q < Finish(map, x)
      BY Zenon, <1>1, <2>1, EntryType, PagesIff DEF Finish
    <3>2. q < a + n /\ a <= q
      BY <1>4, <1>5, <2>2, <3>1
    <3> QED BY Zenon, <3>1, <3>2, PagesIff
  <2>3. CASE x \notin Visited(a, n)
    BY Zenon, <1>2, <2>1, <2>3, ListedIff
  <2> QED BY Zenon, <2>2, <2>3
<1> QED BY Zenon, <1>2, <1>6 DEF Carved
\* The range begins inside an entry.
LEMMA Splits ==
  ASSUME MapType(map), NEW a \in Nat, NEW n \in Nat \ {0}, NEW k \in DOMAIN map,
         k < a, a < k + map[k].size, NEW r, r = Split(k, a, n)
  PROVE  /\ MapType(r) /\ PartOf(r, map)
         /\ Apart(map) => Carved(r, a, n)
         /\ Apart(map) /\ a + n <= Finish(map, k) => Listed(r) \cap Pages(a, n) = {}
<1> DEFINE end == k + map[k].size
<1>1. /\ k \in Nat /\ map[k].size \in Nat /\ map[k].prot \in Prots \cup {"none"} /\ a + n \in Nat
      /\ end \in Nat /\ Finish(map, k) = end /\ end <= Top /\ a - k \in Nat \ {0} /\ k + (a - k) = a /\ a <= Top
      /\ k < a + n /\ a < a + n /\ a < end
  BY EntryType, MemoryAssumption DEF Finish
<1>2. a + n < end => end - a - n \in Nat \ {0} /\ a + n + (end - a - n) = end
  BY <1>1
<1>3. PICK behind : behind = IF a + n < end THEN Insert(map, a + n, Entry(end - a - n, map[k].prot)) ELSE map
  BY Zenon
<1>4. r = Insert(behind, k, Entry(a - k, map[k].prot))
  BY Zenon, <1>3 DEF Split
<1>5. MapType(behind)
  <2>1. CASE a + n < end
    BY Zenon, <1>1, <1>2, <1>3, <2>1, InsertType
  <2> QED BY Zenon, <1>3, <2>1
<1>6. MapType(r)
  BY Zenon, <1>1, <1>4, <1>5, InsertType
<1>7. /\ a + n < end => /\ DOMAIN behind = DOMAIN map \cup {a + n} /\ behind[a + n].size = end - a - n
                        /\ \A x \in DOMAIN map : x # a + n => behind[x] = map[x]
      /\ ~(a + n < end) => behind = map
  BY Zenon, <1>3 DEF Insert, Entry
<1>8. /\ DOMAIN r = DOMAIN behind \cup {k} /\ r[k].size = a - k
      /\ \A x \in DOMAIN behind : x # k => r[x] = behind[x]
  BY <1>4 DEF Insert, Entry
<1> HIDE DEF end
<1>9. k \in DOMAIN r /\ Finish(r, k) = a
  BY Zenon, <1>1, <1>8 DEF Finish
<1>10. ASSUME a + n < end PROVE a + n \in DOMAIN r /\ Finish(r, a + n) = end
  <2>1. a + n \in DOMAIN behind /\ a + n # k
    BY <1>1, <1>7, <1>10
  <2>2. r[a + n].size = end - a - n
    BY Zenon, <1>7, <1>8, <1>10, <2>1
  <2> QED BY Zenon, <1>2, <1>8, <1>10, <2>1, <2>2 DEF Finish
<1>11. ASSUME NEW x \in DOMAIN r, x # k, ~(x = a + n /\ a + n < end)
       PROVE  x \in DOMAIN map /\ r[x] = map[x] /\ Finish(r, x) = Finish(map, x)
  <2>1. x \in DOMAIN behind /\ r[x] = behind[x]
    BY Zenon, <1>8, <1>11
  <2>2. x \in DOMAIN map /\ behind[x] = map[x]
    BY Zenon, <1>7, <1>11, <2>1
  <2> QED BY Zenon, <2>1, <2>2 DEF Finish
<1>12. ASSUME NEW x \in DOMAIN map, x # k, ~(x = a + n /\ a + n < end)
       PROVE  x \in DOMAIN r /\ r[x] = map[x]
  <2>1. x \in DOMAIN behind /\ behind[x] = map[x]
    BY Zenon, <1>7, <1>12
  <2> QED BY Zenon, <1>8, <1>12, <2>1
<1>13. \A x \in DOMAIN map : x \in Nat /\ Finish(map, x) \in Nat /\ x < Finish(map, x)
  BY Zenon, EntryType
<1>14. PartOf(r, map)
  <2> SUFFICES ASSUME NEW x \in DOMAIN r
               PROVE  \E j \in DOMAIN map : j <= x /\ Finish(r, x) <= Finish(map, j)
    BY Zenon DEF PartOf
  <2>1. CASE x = k
    BY <1>1, <1>9, <2>1
  <2>2. CASE x = a + n /\ a + n < end
    BY <1>1, <1>10, <2>2
  <2>3. CASE x # k /\ ~(x = a + n /\ a + n < end)
    BY <1>11, <1>13, <2>3
  <2> QED BY Zenon, <2>1, <2>2, <2>3
<1>15. ASSUME Apart(map), NEW x \in DOMAIN map, x # k
       PROVE  Finish(map, x) <= k \/ end <= x
  BY <1>1, <1>13, <1>15 DEF Apart
<1>16. ASSUME Apart(map) PROVE Apart(r)
  <2> SUFFICES ASSUME NEW x \in DOMAIN r, NEW y \in DOMAIN r, x < y PROVE Finish(r, x) <= y
    BY Zenon DEF Apart
  <2>1. x \in Nat /\ y \in Nat
    BY Zenon, <1>6, EntryType
  <2>2. CASE x = k
    <3>1. CASE y = a + n /\ a + n < end
      BY <1>1, <1>9, <2>2, <3>1
    <3>2. CASE ~(y = a + n /\ a + n < end)
      <4>1. y # k /\ y \in DOMAIN map
        BY <1>1, <1>11, <2>1, <2>2, <3>2
      <4> QED BY <1>1, <1>9, <1>13, <1>15, <1>16, <2>2, <4>1
    <3> QED BY Zenon, <3>1, <3>2
  <2>3. CASE x = a + n /\ a + n < end
    <3>1. y # k /\ y # a + n
      BY <1>1, <2>1, <2>3
    <3>2. y \in DOMAIN map
      BY Zenon, <1>11, <3>1
    <3> QED BY <1>1, <1>10, <1>13, <1>15, <1>16, <2>1, <2>3, <3>1, <3>2
  <2>4. CASE x # k /\ ~(x = a + n /\ a + n < end)
    <3>1. x \in DOMAIN map /\ Finish(r, x) = Finish(map, x)
      BY Zenon, <1>11, <2>4
    <3>2. CASE y = k
      BY Zenon, <1>16, <3>1, <3>2 DEF Apart
    <3>3. CASE y = a + n /\ a + n < end
      BY <1>1, <1>13, <1>15, <1>16, <2>1, <2>4, <3>1, <3>3
    <3>4. CASE y # k /\ ~(y = a + n /\ a + n < end)
      BY Zenon, <1>11, <1>16, <3>1, <3>4 DEF Apart
    <3> QED BY Zenon, <3>2, <3>3, <3>4
  <2> QED BY Zenon, <2>2, <2>3, <2>4
<1>17. ASSUME Apart(map), NEW q \in Listed(map) PROVE q \in Listed(r) \cup Pages(a, n)
  <2>1. PICK x \in DOMAIN map : q \in Pages(x, map[x].size)
    BY Zenon, <1>17, ListedIff
  <2>2. q \in Nat /\ x <= q /\ q < Finish(map, x)
    BY Zenon, <2>1, EntryType, PagesIff DEF Finish
  <2>3. CASE x = k /\ q < a
    <3>1. q \in Pages(k, r[k].size)
      BY Zenon, <1>1, <1>8, <2>2, <2>3, PagesIff
    <3> QED BY Zenon, <1>9, <3>1, ListedIff
  <2>4. CASE x = k /\ a <= q /\ q < a + n
    BY Zenon, <1>1, <2>2, <2>4, PagesIff
  <2>5. CASE x = k /\ a + n <= q
    <3>1. a + n < end /\ q < end
      BY <1>1, <2>2, <2>5
    <3>2. a + n \in DOMAIN r /\ Finish(r, a + n) = end /\ r[a + n].size \in Nat
      BY Zenon, <1>6, <1>10, <3>1, EntryType
    <3>3. q \in Pages(a + n, r[a + n].size)
      BY Zenon, <1>1, <2>2, <2>5, <3>1, <3>2, PagesIff DEF Finish
    <3> QED BY Zenon, <3>2, <3>3, ListedIff
  <2>6. CASE x # k
    <3>1. ~(x = a + n /\ a + n < end)
      BY <1>1, <1>13, <1>15, <1>17, <2>6
    <3> QED BY Zenon, <1>12, <2>1, <2>6, <3>1, ListedIff
  <2> QED BY <1>1, <2>2, <2>3, <2>4, <2>5, <2>6
<1>18. ASSUME Apart(map), a + n <= end, NEW q \in Listed(r), q \in Pages(a, n) PROVE FALSE
  <2>1. PICK x \in DOMAIN r : q \in Pages(x, r[x].size)
    BY Zenon, <1>18, ListedIff
  <2>2. x \in Nat /\ q \in Nat /\ x <= q /\ q < Finish(r, x) /\ a <= q /\ q < a + n
    BY Zenon, <1>6, <1>18, <2>1, EntryType, PagesIff DEF Finish
  <2>3. x # k
    BY <1>9, <2>2
  <2>4. ~(x = a + n /\ a + n < end)
    BY <1>1, <2>2
  <2>5. x \in DOMAIN map /\ Finish(r, x) = Finish(map, x)
    BY Zenon, <1>11, <2>3, <2>4
  <2> QED BY <1>1, <1>13, <1>15, <1>18, <2>2, <2>3, <2>5
<1> QED BY Zenon, <1>1, <1>6, <1>14, <1>16, <1>17, <1>18 DEF Carved
-----------------------------------------------------------------------------
(* What munmap leaves, whatever it comes to *)

\* Types, and which pages go.
LEMMA OutcomeType ==
  ASSUME TypeInv, NEW a \in Nat, NEW n \in Nat \ {0}, NEW o \in Outcomes(a, n)
  PROVE  /\ MapType(o.map) /\ PartOf(o.map, map)
         /\ o.base = base \/ (o.base = 0 /\ DOMAIN o.map = {})
         /\ o.pages \subseteq Pages(a, n) \cap mapped
         /\ o.res = "ok" => o.pages = Pages(a, n)
         /\ o.res \in {"ok", "EINVAL", "panic"}
<1>1. MapType(map)
  BY Zenon DEF TypeInv
<1>2. UnmapPages(a, n) \subseteq Pages(a, n) \cap mapped
  <2> SUFFICES ASSUME NEW q \in Pages(a, n), Pages(a, q - a + 1) \subseteq mapped PROVE q \in mapped
    BY Zenon DEF UnmapPages
  <2>1. q \in Nat /\ a <= q
    BY Zenon, PagesIff
  <2>2. q \in Pages(a, q - a + 1)
    BY <2>1 DEF Pages
  <2> QED BY Zenon, <2>2
<1>3. CASE Fails(a, n, o)
  <2>1. PartOf(map, map)
    BY <1>1, EntryType DEF PartOf
  <2> QED BY Zenon, <1>1, <1>2, <1>3, <2>1 DEF Fails
<1>4. CASE Trims(a, n, o)
  <2>1. MapType(o.map) /\ PartOf(o.map, map)
    BY Zenon, <1>1, <1>4, Trimmed DEF Trims
  <2> QED BY Zenon, <1>2, <1>4, <2>1 DEF Trims, Whole
<1>5. CASE Loops(a, n, o)
  <2>1. MapType(o.map) /\ PartOf(o.map, map)
    BY Zenon, <1>1, <1>5, Removed DEF Loops
  <2>2. LoopEnds(a, n) \in {"ok", "EINVAL", "panic"}
    BY Zenon, <1>5, LoopLast DEF Loops
  <2> QED BY Zenon, <1>2, <1>5, <2>1, <2>2 DEF Loops, Whole
<1>6. CASE Removes(a, n, o)
  <2>1. MapType(o.map) /\ PartOf(o.map, map)
    BY Zenon, <1>1, <1>6, Removed DEF Removes
  <2> QED BY Zenon, <1>2, <1>6, <2>1 DEF Removes, Whole
<1>7. ASSUME NEW k \in DOMAIN map, SplitsAt(a, n, o, k)
      PROVE  /\ MapType(o.map) /\ PartOf(o.map, map) /\ o.base = base /\ o.pages = Pages(a, n)
             /\ o.pages \subseteq Pages(a, n) \cap mapped /\ o.res = "ok"
  <2>1. MapType(o.map) /\ PartOf(o.map, map)
    BY Zenon, <1>1, <1>7, Splits DEF SplitsAt, Around
  <2> QED BY Zenon, <1>2, <1>7, <2>1 DEF SplitsAt, Whole
<1> QED BY Zenon, <1>3, <1>4, <1>5, <1>6, <1>7, OutcomeCases

\* Entries stay apart, and what a successful call takes off the map is in its range.
LEMMA OutcomeCarved ==
  ASSUME TypeInv, Apart(map), NEW a \in Nat, NEW n \in Nat \ {0}, NEW o \in Outcomes(a, n)
  PROVE  /\ Apart(o.map)
         /\ o.res = "ok" => Listed(map) \subseteq Listed(o.map) \cup Pages(a, n)
<1>1. MapType(map)
  BY Zenon DEF TypeInv
<1>2. CASE Fails(a, n, o)
  BY Zenon, <1>2 DEF Fails
<1>3. CASE Trims(a, n, o)
  <2>1. Carved(o.map, a, n)
    BY Zenon, <1>1, <1>3, Trimmed DEF Trims
  <2> QED BY Zenon, <2>1 DEF Carved
<1>4. CASE Loops(a, n, o)
  <2>1. Apart(o.map)
    BY Zenon, <1>1, <1>4, Removed DEF Loops
  <2>2. o.res = "ok" => Carved(o.map, a, n)
    BY Zenon, <1>4, RemovedAll DEF Loops
  <2> QED BY Zenon, <2>1, <2>2 DEF Carved
<1>5. CASE Removes(a, n, o)
  <2>1. a \in DOMAIN map /\ map[a].size = n
    BY <1>1, <1>5, EntryType DEF Removes
  <2>2. Carved(o.map, a, n)
    BY Zenon, <1>1, <1>5, <2>1, RemovedOne DEF Removes
  <2> QED BY Zenon, <2>2 DEF Carved
<1>6. ASSUME NEW k \in DOMAIN map, SplitsAt(a, n, o, k) PROVE Carved(o.map, a, n)
  BY Zenon, <1>1, <1>6, Splits DEF SplitsAt, Around
<1> QED BY Zenon, <1>2, <1>3, <1>4, <1>5, <1>6, OutcomeCases DEF Carved
\* The images stay listed, so that mmap_base is not reset while one is loaded.
LEMMA OutcomeImage ==
  ASSUME TypeInv, CutInv, discipline # "none", NEW a \in Nat, NEW n \in Nat \ {0}, NEW o \in Outcomes(a, n),
         Pages(a, n) \cap image = {}
  PROVE  image \subseteq Listed(o.map) /\ (image # {} => o.base = base)
<1>1. MapType(map) /\ Apart(map) /\ image \subseteq Listed(map)
  BY Zenon DEF TypeInv, CutInv
<1>2. image \subseteq Listed(o.map)
  <2>1. CASE o.res = "ok"
    <3>1. Listed(map) \subseteq Listed(o.map) \cup Pages(a, n)
      BY Zenon, <1>1, <2>1, OutcomeCarved
    <3> QED BY Zenon, <1>1, <3>1
  <2>2. CASE o.map = map
    BY Zenon, <1>1, <2>2
  <2>3. CASE Loops(a, n, o)
    <3>1. PICK r : r = o.map
      BY Zenon
    <3>2. DOMAIN r = DOMAIN map \ Visited(a, n) /\ \A x \in DOMAIN r : r[x] = map[x]
      BY Zenon, <2>3, <3>1 DEF Loops, Without
    <3>3. ASSUME NEW q \in image PROVE q \in Listed(r)
      <4>1. PICK x \in DOMAIN map : q \in Pages(x, map[x].size)
        BY Zenon, <1>1, ListedIff
      <4>2. x \in image
        <5>1. Extent(map, x) \subseteq image
          BY Zenon, <4>1 DEF CutInv, Extent
        <5>2. x \in Extent(map, x)
          BY <1>1, EntryType, PagesIff DEF Extent
        <5> QED BY Zenon, <5>1, <5>2
      <4>3. x \notin Visited(a, n)
        BY Zenon, <4>2, VisitedClosed DEF Inside
      <4> QED BY Zenon, <3>2, <4>1, <4>3, ListedIff
    <3> QED BY Zenon, <3>1, <3>3
  <2> QED BY Zenon, <2>1, <2>2, <2>3, OutcomeCases DEF Fails, Trims, Removes, SplitsAt
<1>3. DOMAIN o.map = {} => Listed(o.map) = {}
  BY Zenon, ListedIff
<1> QED BY Zenon, <1>2, <1>3, OutcomeType

-----------------------------------------------------------------------------
(* A range that Fits *)

\* A range of whole entries of one protection is walked to its end.
LEMMA LoopCovers ==
  ASSUME TypeInv, Apart(map), NEW a \in DOMAIN map, NEW n \in Nat \ {0},
         \A x \in Inside(a, n) : map[x].prot = map[a].prot /\ Finish(map, x) <= a + n,
         \A q \in Pages(a, n) : \E x \in Inside(a, n) : x <= q /\ q < Finish(map, x)
  PROVE  Visited(a, n) = Inside(a, n) /\ LoopEnds(a, n) = "ok"
<1>1. MapType(map) /\ a \in Nat
  BY Zenon, EntryType DEF TypeInv
<1>2. \A x \in DOMAIN map : x \in Nat /\ Finish(map, x) \in Nat /\ x < Finish(map, x) /\ Finish(map, x) = x + map[x].size
  BY Zenon, <1>1, EntryType
<1>3. Inside(a, n) \subseteq DOMAIN map /\ \A x \in Inside(a, n) : a <= x /\ x < a + n
  BY Zenon, <1>1, PagesIff DEF Inside
<1>4. a \in Inside(a, n)
  BY <1>1, PagesIff DEF Inside
<1>5. Visited(a, n) = Inside(a, n)
  <2>1. SUFFICES ASSUME Inside(a, n) \ Visited(a, n) # {} PROVE FALSE
    BY Zenon, VisitedClosed
  <2>2. PICK S : S = Inside(a, n) \ Visited(a, n)
    BY Zenon
  <2>3. S \in SUBSET Nat /\ S # {}
    BY Zenon, <1>2, <1>3, <2>1, <2>2
  <2>4. PICK x \in S : \A y \in S : x <= y
    BY Zenon, <2>3, LeastAddress
  <2>5. x \in Inside(a, n) /\ x \in Nat /\ a < x /\ x < a + n
    BY <1>1, <1>2, <1>3, <1>4, <2>2, <2>4, VisitedClosed
  <2>6. x - 1 \in Pages(a, n)
    BY <1>1, <2>5, PagesIff
  <2>7. PICK y \in Inside(a, n) : y <= x - 1 /\ x - 1 < Finish(map, y)
    BY Zenon, <2>6
  <2>8. y \in Visited(a, n)
    BY <1>2, <1>3, <2>2, <2>4, <2>5, <2>7
  <2>9. Finish(map, y) = x
    <3>1. y \in DOMAIN map /\ y \in Nat /\ y < x
      BY <1>2, <1>3, <2>5, <2>7
    <3>2. Finish(map, y) <= x
      BY Zenon, <1>3, <2>5, <3>1 DEF Apart
    <3> QED BY <1>2, <2>5, <2>7, <3>1, <3>2
  <2>10. x \in Visited(a, n)
    BY Zenon, <1>2, <1>3, <2>5, <2>8, <2>9, VisitedClosed
  <2> QED BY Zenon, <2>2, <2>4, <2>10
<1>6. PICK l \in Visited(a, n) :
        /\ \A y \in Visited(a, n) : y <= l
        /\ LoopEnds(a, n) = IF map[l].prot # map[a].prot THEN "EINVAL"
                            ELSE IF l + map[l].size = a + n THEN "ok" ELSE "panic"
  BY Zenon, LoopLast
<1>7. a + n - 1 \in Pages(a, n)
  BY <1>1, PagesIff
<1>8. PICK x \in Inside(a, n) : x <= a + n - 1 /\ a + n - 1 < Finish(map, x)
  BY Zenon, <1>7
<1>9. Finish(map, l) = a + n
  <2>1. l \in DOMAIN map /\ l \in Nat /\ x \in DOMAIN map /\ x \in Nat /\ x <= l /\ l < a + n /\ Finish(map, x) \in Nat
    BY Zenon, <1>2, <1>3, <1>5, <1>6, <1>8
  <2>2. x = l
    BY <1>1, <1>8, <2>1 DEF Apart
  <2>3. Finish(map, x) <= a + n
    BY Zenon, <1>8
  <2> QED BY <1>1, <1>8, <2>1, <2>2, <2>3
<1> QED BY Zenon, <1>2, <1>3, <1>5, <1>6, <1>9
\* It lies in one entry, or it consists of entries of one protection.
OneEntry(a, n) == \E k \in DOMAIN map : k <= a /\ a + n <= Finish(map, k)
Entries(a, n) ==
  /\ a \in DOMAIN map
  /\ \A x \in Inside(a, n) : map[x].prot = map[a].prot /\ Finish(map, x) <= a + n
  /\ \A q \in Pages(a, n) : \E x \in Inside(a, n) : x <= q /\ q < Finish(map, x)

\* So is what a disciplined guest unmaps.
LEMMA FitsCases ==
  ASSUME MapType(map), Apart(map), NEW a \in Nat, NEW n \in Nat \ {0}, Fits(a, n)
  PROVE  OneEntry(a, n) \/ Entries(a, n)
<1>1. \A x \in DOMAIN map : /\ x \in Nat /\ Finish(map, x) \in Nat /\ x < Finish(map, x)
                            /\ Finish(map, x) = x + map[x].size /\ map[x].size \in Nat
  BY Zenon, EntryType
<1>2. a \in Pages(a, n) /\ a + n - 1 \in Pages(a, n)
  BY PagesIff
<1>3. \A x \in DOMAIN map : \A q : q \in Extent(map, x) <=> q \in Nat /\ x <= q /\ q < Finish(map, x)
  BY Zenon, <1>1, PagesIff DEF Extent
<1>4. ASSUME NEW k \in DOMAIN map, Pages(a, n) \subseteq Extent(map, k) PROVE OneEntry(a, n)
  <2>1. k <= a /\ a + n - 1 < Finish(map, k)
    BY Zenon, <1>2, <1>3, <1>4
  <2> QED BY <1>1, <2>1 DEF OneEntry
<1>5. ASSUME NEW p \in Prots,
             Pages(a, n) = UNION {Extent(map, k) : k \in {x \in DOMAIN map : x \in Pages(a, n) /\ map[x].prot = p}}
      PROVE  Entries(a, n)
  <2>1. ASSUME NEW q \in Pages(a, n)
        PROVE  \E k \in Inside(a, n) : map[k].prot = p /\ q \in Extent(map, k)
    BY Zenon, <1>5 DEF Inside
  <2>2. ASSUME NEW k \in Inside(a, n), map[k].prot = p PROVE Extent(map, k) \subseteq Pages(a, n)
    BY Zenon, <1>5, <2>2 DEF Inside
  <2>3. a \in DOMAIN map /\ map[a].prot = p
    <3>1. PICK k \in Inside(a, n) : map[k].prot = p /\ a \in Extent(map, k)
      BY Zenon, <1>2, <2>1
    <3>2. k \in DOMAIN map /\ k \in Nat /\ a <= k /\ k <= a
      BY Zenon, <1>1, <1>3, <3>1, PagesIff DEF Inside
    <3> QED BY <3>1, <3>2
  <2>4. ASSUME NEW x \in Inside(a, n) PROVE map[x].prot = p
    <3>1. x \in DOMAIN map /\ x \in Pages(a, n) /\ x \in Nat
      BY Zenon, <1>1 DEF Inside
    <3>2. PICK k \in Inside(a, n) : map[k].prot = p /\ x \in Extent(map, k)
      BY Zenon, <2>1, <3>1
    <3>3. k \in DOMAIN map /\ k \in Nat /\ k <= x /\ x < Finish(map, k) /\ Finish(map, k) \in Nat
      BY Zenon, <1>1, <1>3, <3>2 DEF Inside
    <3>4. k = x
      BY <3>1, <3>3 DEF Apart
    <3> QED BY Zenon, <3>2, <3>4
  <2>5. ASSUME NEW x \in Inside(a, n) PROVE Finish(map, x) <= a + n
    <3>1. x \in DOMAIN map /\ Extent(map, x) \subseteq Pages(a, n)
      BY Zenon, <2>2, <2>4 DEF Inside
    <3>2. Finish(map, x) - 1 \in Extent(map, x)
      BY <1>1, <1>3, <3>1
    <3>3. Finish(map, x) - 1 < a + n
      BY Zenon, <3>1, <3>2, PagesIff
    <3> QED BY <1>1, <3>1, <3>3
  <2>6. ASSUME NEW q \in Pages(a, n) PROVE \E x \in Inside(a, n) : x <= q /\ q < Finish(map, x)
    <3>1. PICK k \in Inside(a, n) : q \in Extent(map, k)
      BY Zenon, <2>1
    <3> QED BY Zenon, <1>3, <3>1 DEF Inside
  <2> QED BY Zenon, <2>3, <2>4, <2>5, <2>6 DEF Entries
<1> QED BY Zenon, <1>4, <1>5 DEF Fits

\* A call for such a range succeeds when all its pages are mapped, and none of
\* them is listed then.
LEMMA OutcomeFits ==
  ASSUME TypeInv, Apart(map), NEW a \in Nat, NEW n \in Nat \ {0}, Fits(a, n), NEW o \in Outcomes(a, n)
  PROVE  /\ Pages(a, n) \subseteq mapped => o.res = "ok"
         /\ o.res = "ok" => Listed(o.map) \cap Pages(a, n) = {}
<1>1. MapType(map)
  BY Zenon DEF TypeInv
<1>2. \A x \in DOMAIN map : /\ x \in Nat /\ Finish(map, x) \in Nat /\ x < Finish(map, x)
                            /\ Finish(map, x) = x + map[x].size /\ map[x].size \in Nat
  BY Zenon, <1>1, EntryType
<1>3. OneEntry(a, n) \/ Entries(a, n)
  BY Zenon, <1>1, FitsCases
<1>4. \A k, j \in DOMAIN map : k <= a /\ a < Finish(map, k) /\ j <= a /\ a < Finish(map, j) => k = j
  BY <1>2 DEF Apart
<1>5. ASSUME Fails(a, n, o) PROVE ~(Pages(a, n) \subseteq mapped) /\ o.res # "ok"
  <2>1. SUFFICES ASSUME Pages(a, n) \subseteq mapped PROVE FALSE
    BY Zenon, <1>5 DEF Fails
  <2>2. UnmapPages(a, n) = Pages(a, n)
    <3> SUFFICES ASSUME NEW q \in Pages(a, n) PROVE Pages(a, q - a + 1) \subseteq mapped
      BY Zenon DEF UnmapPages
    <3> QED BY <2>1 DEF Pages
  <2>3. /\ a \notin DOMAIN map
        /\ (\A k \in DOMAIN map : ~Around(a, k)) \/ \E k \in DOMAIN map : Around(a, k) /\ map[k].size < n
    BY Zenon, <1>5, <2>2 DEF Fails
  <2>4. PICK k \in DOMAIN map : k <= a /\ a + n <= Finish(map, k)
    BY Zenon, <1>3, <2>3 DEF OneEntry, Entries
  <2>5. k < a /\ a < Finish(map, k)
    BY <1>2, <2>3, <2>4
  <2>6. PICK j \in DOMAIN map : Around(a, j) /\ map[j].size < n
    BY Zenon, <1>2, <2>3, <2>5 DEF Around
  <2>7. j = k
    BY <1>2, <1>4, <2>5, <2>6 DEF Around
  <2> QED BY <1>2, <2>4, <2>5, <2>6, <2>7
<1>6. ASSUME Trims(a, n, o) PROVE o.res = "ok" /\ Listed(o.map) \cap Pages(a, n) = {}
  BY Zenon, <1>1, <1>6, Trimmed DEF Trims
<1>7. ASSUME Removes(a, n, o) PROVE o.res = "ok" /\ Listed(o.map) \cap Pages(a, n) = {}
  <2>1. a \in DOMAIN map /\ map[a].size = n
    BY <1>2, <1>7 DEF Removes
  <2> QED BY Zenon, <1>1, <1>7, <2>1, RemovedOne DEF Removes
<1>8. ASSUME Loops(a, n, o) PROVE o.res = "ok" /\ Listed(o.map) \cap Pages(a, n) = {}
  <2>1. a \in DOMAIN map /\ map[a].size < n
    BY Zenon, <1>8 DEF Loops
  <2>2. ~OneEntry(a, n)
    <3> SUFFICES ASSUME NEW k \in DOMAIN map, k <= a, a + n <= Finish(map, k) PROVE FALSE
      BY Zenon DEF OneEntry
    <3>1. k = a
      BY <1>2, <1>4, <2>1
    <3> QED BY <1>2, <2>1, <3>1
  <2>3. Entries(a, n)
    BY Zenon, <1>3, <2>2
  <2>4. Visited(a, n) = Inside(a, n) /\ LoopEnds(a, n) = "ok"
    BY Zenon, <2>3, LoopCovers DEF Entries
  <2>5. PICK r : r = o.map
    BY Zenon
  <2>6. DOMAIN r = DOMAIN map \ Inside(a, n) /\ \A x \in DOMAIN r : r[x] = map[x]
    BY Zenon, <1>8, <2>4, <2>5 DEF Loops, Without
  <2>7. ASSUME NEW q \in Listed(r), q \in Pages(a, n) PROVE FALSE
    <3>1. PICK x \in DOMAIN r : q \in Pages(x, r[x].size)
      BY Zenon, <2>7, ListedIff
    <3>2. x \in DOMAIN map /\ x \notin Inside(a, n) /\ x <= q /\ q < Finish(map, x) /\ q \in Nat
      BY <1>2, <2>6, <3>1, PagesIff
    <3>3. PICK y \in Inside(a, n) : y <= q /\ q < Finish(map, y)
      BY Zenon, <2>3, <2>7 DEF Entries
    <3>4. y \in DOMAIN map
      BY Zenon, <3>3 DEF Inside
    <3>5. x = y
      BY <1>2, <3>2, <3>3, <3>4 DEF Apart
    <3> QED BY Zenon, <3>2, <3>3, <3>5
  <2> QED BY Zenon, <1>8, <2>4, <2>5, <2>7 DEF Loops
<1>9. ASSUME NEW k \in DOMAIN map, SplitsAt(a, n, o, k)
      PROVE  o.res = "ok" /\ Listed(o.map) \cap Pages(a, n) = {}
  <2>1. a \notin DOMAIN map /\ k < a /\ a < Finish(map, k)
    BY Zenon, <1>2, <1>9 DEF SplitsAt, Around
  <2>2. PICK j \in DOMAIN map : j <= a /\ a + n <= Finish(map, j)
    BY Zenon, <1>3, <2>1 DEF OneEntry, Entries
  <2>3. j = k
    BY <1>2, <1>4, <2>1, <2>2
  <2> QED BY Zenon, <1>1, <1>9, <2>2, <2>3, Splits DEF SplitsAt, Around
<1> QED BY Zenon, <1>5, <1>6, <1>7, <1>8, <1>9, OutcomeCases
-----------------------------------------------------------------------------
(* A new entry *)

\* Room for an entry, pages that no entry lists, and an entry that adds exactly these.
Room(a, n, p) == a \in Nat /\ n \in Nat \ {0} /\ p \in Prots \cup {"none"} /\ a + n <= Top
Vacant(m, a, n) == Listed(m) \cap Pages(a, n) = {}
Adds(r, m, a, n) ==
  /\ MapType(r) /\ DOMAIN r = DOMAIN m \cup {a} /\ Finish(r, a) = a + n
  /\ \A x \in DOMAIN m : x # a /\ r[x] = m[x] /\ Finish(r, x) = Finish(m, x)
  /\ Extent(r, a) = Pages(a, n) /\ \A x \in DOMAIN m : Extent(r, x) = Extent(m, x)
  /\ Listed(r) = Listed(m) \cup Pages(a, n)
  /\ Apart(m) => Apart(r)

\* An entry over vacant pages adds these and nothing else.
LEMMA InsertFree ==
  ASSUME NEW m, NEW a, NEW n, NEW p, MapType(m), Room(a, n, p), Vacant(m, a, n),
         NEW r, r = Insert(m, a, Entry(n, p))
  PROVE  Adds(r, m, a, n)
<1>0. /\ a \in Nat /\ n \in Nat \ {0} /\ p \in Prots \cup {"none"} /\ a + n <= Top
      /\ Listed(m) \cap Pages(a, n) = {}
  BY Zenon DEF Room, Vacant
<1>1. MapType(r)
  BY Zenon, <1>0, InsertType
<1>2. DOMAIN r = DOMAIN m \cup {a} /\ r[a].size = n /\ \A x \in DOMAIN m : x # a => r[x] = m[x]
  BY Zenon, <1>0 DEF Insert, Entry
<1>3. \A x \in DOMAIN m : /\ x \in Nat /\ m[x].size \in Nat /\ Finish(m, x) \in Nat
                          /\ Finish(m, x) = x + m[x].size /\ x < Finish(m, x)
  BY Zenon, EntryType
<1>4. \A x \in DOMAIN m, q \in Nat : x <= q /\ q < Finish(m, x) => q \in Listed(m)
  BY <1>3, ListedIff, PagesIff
<1>5. \A q \in Listed(m) : q \in Nat => q < a \/ a + n <= q
  <2> SUFFICES ASSUME NEW q \in Listed(m), q \in Nat, ~(q < a), ~(a + n <= q) PROVE FALSE
    BY Zenon
  <2>1. q \in Pages(a, n)
    BY <1>0, PagesIff
  <2> QED BY Zenon, <1>0, <2>1
<1>6. \A x \in DOMAIN m : Finish(m, x) <= a \/ a + n <= x
  <2> SUFFICES ASSUME NEW x \in DOMAIN m, ~(Finish(m, x) <= a), ~(a + n <= x) PROVE FALSE
    BY Zenon
  <2>1. x < a
    BY <1>0, <1>3, <1>4, <1>5
  <2>2. a \in Listed(m)
    BY <1>0, <1>3, <1>4, <2>1
  <2> QED BY <1>0, <1>5, <2>2
<1>7. \A x \in DOMAIN m : x # a /\ r[x] = m[x] /\ Finish(r, x) = Finish(m, x)
  BY <1>0, <1>2, <1>3, <1>6 DEF Finish
<1>8. Finish(r, a) = a + n
  BY Zenon, <1>0, <1>2 DEF Finish
<1>9. Extent(r, a) = Pages(a, n) /\ \A x \in DOMAIN m : Extent(r, x) = Extent(m, x)
  BY Zenon, <1>2, <1>7 DEF Extent
<1>10. Listed(r) = Listed(m) \cup Pages(a, n)
  <2>1. ASSUME NEW q PROVE q \in Listed(r) <=> q \in Listed(m) \/ q \in Pages(a, n)
    <3>1. q \in Listed(r) <=> \E x \in DOMAIN r : q \in Pages(x, r[x].size)
      BY Zenon, ListedIff
    <3>2. q \in Listed(m) <=> \E x \in DOMAIN m : q \in Pages(x, m[x].size)
      BY Zenon, ListedIff
    <3> QED BY Zenon, <1>2, <1>7, <3>1, <3>2
  <2> QED BY Zenon, <2>1
<1>11. ASSUME Apart(m) PROVE Apart(r)
  <2> SUFFICES ASSUME NEW x \in DOMAIN r, NEW y \in DOMAIN r, x < y PROVE Finish(r, x) <= y
    BY Zenon DEF Apart
  <2>1. CASE x = a
    BY <1>0, <1>2, <1>3, <1>6, <1>8, <2>1
  <2>2. CASE y = a /\ x # a
    BY <1>0, <1>2, <1>3, <1>6, <1>7, <2>2
  <2>3. CASE x # a /\ y # a
    BY Zenon, <1>2, <1>7, <1>11, <2>3 DEF Apart
  <2> QED BY Zenon, <2>1, <2>2, <2>3
<1> QED BY Zenon, <1>1, <1>2, <1>7, <1>8, <1>9, <1>10, <1>11 DEF Adds

Behind(a) == \A x \in DOMAIN map : Finish(map, x) <= a

\* The pages behind every entry are not listed.
LEMMA BehindFree ==
  ASSUME MapType(map), NEW a \in Nat, NEW n \in Nat, Behind(a)
  PROVE  Listed(map) \cap Pages(a, n) = {}
<1> SUFFICES ASSUME NEW q \in Listed(map), q \in Pages(a, n) PROVE FALSE
  BY Zenon
<1>1. PICK x \in DOMAIN map : q \in Pages(x, map[x].size)
  BY Zenon, ListedIff
<1>2. q \in Nat /\ q < Finish(map, x) /\ a <= q /\ Finish(map, x) \in Nat
  BY <1>1, EntryType, PagesIff
<1> QED BY <1>2 DEF Behind

\* What mapping comes to: an entry over all its pages, which were free, or some
\* free pages that stay behind without an entry.
Maps(a, n, p, call) ==
  /\ Pages(a, n) \cap mapped = {} /\ mapped' = mapped \cup Pages(a, n)
  /\ map' = Insert(map, a, Entry(n, p)) /\ leaked' = leaked /\ answer' = <<call, "ok">>
Leaks(a, n, call, got) ==
  /\ got \subseteq Pages(a, n) /\ got \cap mapped = {} /\ mapped' = mapped \cup got
  /\ map' = map /\ leaked' = leaked \cup got /\ answer' = <<call, "EAGAIN">>

\* Nothing else happens, and without contents it fails only when a page is taken.
LEMMA MapAtCases ==
  ASSUME NEW a \in Nat, NEW n \in Nat \ {0}, NEW p, NEW call, NEW len, MapAt(call, a, n, p, len)
  PROVE  /\ Maps(a, n, p, call) \/ \E got : Leaks(a, n, call, got)
         /\ len = 0 /\ Pages(a, n) \cap mapped = {} => answer' = <<call, "ok">>
<1>1. PICK got : got = MapPages(a, n)
  BY Zenon
<1>2. got \subseteq Pages(a, n) /\ got \cap mapped = {}
  <2>1. ASSUME NEW q \in Pages(a, n), Pages(a, q - a + 1) \cap mapped = {} PROVE q \notin mapped
    <3>1. q \in Nat /\ a <= q
      BY Zenon, PagesIff
    <3>2. q \in Pages(a, q - a + 1)
      BY <3>1 DEF Pages
    <3> QED BY Zenon, <2>1, <3>2
  <2> QED BY Zenon, <1>1, <2>1 DEF MapPages
<1> DEFINE ok == got = Pages(a, n) /\ Pages(a, len) \subseteq mapped \cup got
<1>3. /\ mapped' = mapped \cup got
      /\ map' = IF ok THEN Insert(map, a, Entry(n, p)) ELSE map
      /\ leaked' = IF ok THEN leaked ELSE leaked \cup got
      /\ answer' = <<call, IF ok THEN "ok" ELSE "EAGAIN">>
  BY Zenon, <1>1 DEF MapAt
<1>4. CASE ok
  BY Zenon, <1>2, <1>3, <1>4 DEF Maps
<1>5. CASE ~ok
  <2>1. Leaks(a, n, call, got)
    BY Zenon, <1>2, <1>3, <1>5 DEF Leaks
  <2>2. ASSUME len = 0, Pages(a, n) \cap mapped = {} PROVE FALSE
    <3>1. got = Pages(a, n)
      <4> SUFFICES ASSUME NEW q \in Pages(a, n) PROVE Pages(a, q - a + 1) \cap mapped = {}
        BY Zenon, <1>1 DEF MapPages
      <4> QED BY <2>2 DEF Pages
    <3>2. Pages(a, len) = {}
      BY <2>2 DEF Pages
    <3> QED BY Zenon, <1>5, <3>1, <3>2
  <2> QED BY Zenon, <2>1, <2>2
<1> QED BY Zenon, <1>4, <1>5
\* Mapping keeps types.
LEMMA MapAtType ==
  ASSUME TypeInv, NEW a \in Nat, NEW n \in Nat \ {0}, NEW p \in Prots, a + n <= Top, NEW call,
         Maps(a, n, p, call) \/ \E got : Leaks(a, n, call, got)
  PROVE  MapType(map') /\ mapped' \subseteq 0 .. Top - 1
<1>1. MapType(map) /\ mapped \subseteq 0 .. Top - 1
  BY Zenon DEF TypeInv
<1>2. Pages(a, n) \subseteq 0 .. Top - 1
  BY MemoryAssumption DEF Pages
<1>3. CASE Maps(a, n, p, call)
  BY Zenon, <1>1, <1>2, <1>3, InsertType DEF Maps
<1>4. CASE \E got : Leaks(a, n, call, got)
  BY Zenon, <1>1, <1>2, <1>4 DEF Leaks
<1> QED BY Zenon, <1>3, <1>4

\* Mapping behind every entry keeps the map right.
LEMMA MapAtCut ==
  ASSUME TypeInv, CutInv, discipline # "none", NEW a \in Nat, NEW n \in Nat \ {0}, NEW p \in Prots, a + n <= Top,
         Behind(a), NEW call, Maps(a, n, p, call) \/ \E got : Leaks(a, n, call, got), image' = image
  PROVE  /\ Apart(map') /\ \A x \in DOMAIN map' : Finish(map', x) <= a + n
         /\ \A x \in DOMAIN map' : Extent(map', x) \subseteq image' \/ Extent(map', x) \cap image' = {}
         /\ image' \subseteq Listed(map') /\ mapped' \subseteq Listed(map') \cup leaked'
         /\ leaked \subseteq leaked' /\ Listed(map) \subseteq Listed(map')
<1>1. MapType(map) /\ Apart(map) /\ image \subseteq Listed(map) /\ mapped \subseteq Listed(map) \cup leaked
  BY Zenon DEF TypeInv, CutInv
<1>2. Listed(map) \cap Pages(a, n) = {}
  BY Zenon, <1>1, BehindFree
<1>3. \A x \in DOMAIN map : Finish(map, x) <= a + n
  BY <1>1, EntryType DEF Behind
<1>4. \A x \in DOMAIN map : Extent(map, x) \subseteq image \/ Extent(map, x) \cap image = {}
  BY Zenon DEF CutInv
<1>5. CASE Maps(a, n, p, call)
  <2>1. PICK r : r = map'
    BY Zenon
  <2>2. r = Insert(map, a, Entry(n, p)) /\ leaked' = leaked /\ mapped' = mapped \cup Pages(a, n)
    BY Zenon, <1>5, <2>1 DEF Maps
  <2>3. /\ DOMAIN r = DOMAIN map \cup {a} /\ Finish(r, a) = a + n
        /\ \A x \in DOMAIN map : Finish(r, x) = Finish(map, x)
        /\ Extent(r, a) = Pages(a, n) /\ \A x \in DOMAIN map : Extent(r, x) = Extent(map, x)
        /\ Listed(r) = Listed(map) \cup Pages(a, n)
        /\ Apart(r)
    <3>1. Room(a, n, p) /\ Vacant(map, a, n)
      BY Zenon, <1>2 DEF Room, Vacant
    <3>2. Adds(r, map, a, n)
      BY Zenon, <1>1, <2>2, <3>1, InsertFree
    <3> QED BY Zenon, <1>1, <3>2 DEF Adds
  <2>4. \A x \in DOMAIN r : Finish(r, x) <= a + n
    BY <1>3, <2>3
  <2>5. \A x \in DOMAIN r : Extent(r, x) \subseteq image \/ Extent(r, x) \cap image = {}
    <3>1. Extent(r, a) \cap image = {}
      BY Zenon, <1>1, <1>2, <2>3
    <3> QED BY Zenon, <1>4, <2>3, <3>1
  <2>6. image \subseteq Listed(r) /\ mapped' \subseteq Listed(r) \cup leaked' /\ Listed(map) \subseteq Listed(r)
    BY Zenon, <1>1, <2>2, <2>3
  <2> QED BY Zenon, <2>1, <2>2, <2>3, <2>4, <2>5, <2>6
<1>6. CASE \E got : Leaks(a, n, call, got)
  <2>1. map' = map /\ leaked \subseteq leaked' /\ mapped' \subseteq Listed(map) \cup leaked'
    BY Zenon, <1>1, <1>6 DEF Leaks
  <2> QED BY Zenon, <1>1, <1>3, <1>4, <2>1
<1> QED BY Zenon, <1>5, <1>6

\* The same for a guest that keeps to its own mappings.
LEMMA MapAtOwn ==
  ASSUME TypeInv, CutInv, OwnInv, discipline = "own", NEW a \in Nat, NEW n \in Nat \ {0}, NEW p \in Prots,
         a + n <= Top, Behind(a), NEW call, Maps(a, n, p, call) \/ \E got : Leaks(a, n, call, got), stale' = stale
  PROVE  /\ Listed(map') = (mapped' \ leaked') \cup stale'
         /\ leaked' \subseteq mapped' /\ leaked' \cap Listed(map') = {} /\ mapped' \cap stale' = {}
         /\ Listed(map) \subseteq Listed(map')
         /\ Maps(a, n, p, call) => Pages(a, n) \subseteq Listed(map')
<1>1. /\ MapType(map) /\ Listed(map) = (mapped \ leaked) \cup stale
      /\ leaked \subseteq mapped /\ leaked \cap Listed(map) = {} /\ mapped \cap stale = {}
  BY Zenon DEF TypeInv, OwnInv
<1>2. Listed(map) \cap Pages(a, n) = {}
  BY Zenon, <1>1, BehindFree
<1>3. CASE Maps(a, n, p, call)
  <2>1. Listed(map') = Listed(map) \cup Pages(a, n)
    <3>1. Room(a, n, p) /\ Vacant(map, a, n)
      BY Zenon, <1>2 DEF Room, Vacant
    <3>2. map' = Insert(map, a, Entry(n, p))
      BY Zenon, <1>3 DEF Maps
    <3>3. Adds(map', map, a, n)
      BY Zenon, <1>1, <3>1, <3>2, InsertFree
    <3> QED BY Zenon, <3>3 DEF Adds
  <2>2. mapped' = mapped \cup Pages(a, n) /\ leaked' = leaked /\ Pages(a, n) \cap mapped = {}
    BY Zenon, <1>3 DEF Maps
  <2> QED BY Zenon, <1>1, <1>2, <2>1, <2>2
<1>4. CASE ~Maps(a, n, p, call)
  <2>1. PICK got : Leaks(a, n, call, got)
    BY Zenon, <1>4
  <2>2. /\ got \subseteq Pages(a, n) /\ got \cap mapped = {} /\ mapped' = mapped \cup got
        /\ map' = map /\ leaked' = leaked \cup got
    BY Zenon, <2>1 DEF Leaks
  <2> QED BY Zenon, <1>1, <1>2, <1>4, <2>2
<1> QED BY Zenon, <1>3, <1>4

-----------------------------------------------------------------------------
(* One step of each kind *)

\* Anonymous mmap keeps the invariant.
LEMMA MmapStep ==
  ASSUME MapInv, UNCHANGED discipline, NEW n \in Lens, NEW p \in Prots, NEW t \in Temps, Mmap(n, p, t)
  PROVE  MapInv'
<1>1. TypeInv /\ CutInv /\ AnswerInv /\ OwnInv
  BY Zenon DEF MapInv
<1>2. PICK a : a = AllocateMapAddress
  BY Zenon
<1>3. a \in Nat /\ n \in Nat \ {0} /\ a + n <= Top
  BY Zenon, <1>1, <1>2, AllocateType, MemoryAssumption DEF Mmap
<1>4. /\ base' = a + n /\ MapAt("mmap", a, n, p, 0)
      /\ temp' = IF t /\ answer'[2] = "ok" THEN temp \cup {<<a, n>>} ELSE temp
      /\ image' = image /\ brk' = brk /\ heap' = heap /\ panicked' = panicked /\ stale' = stale
  BY Zenon, <1>2 DEF Mmap, heapVars
<1>5. /\ Maps(a, n, p, "mmap") \/ \E got : Leaks(a, n, "mmap", got)
      /\ Pages(a, n) \cap mapped = {} => answer' = <<"mmap", "ok">>
  BY Zenon, <1>3, <1>4, MapAtCases
<1>6. TypeInv'
  <2>1. MapType(map') /\ mapped' \subseteq 0 .. Top - 1
    BY Zenon, <1>1, <1>3, <1>5, MapAtType
  <2> QED BY <1>1, <1>3, <1>4, <2>1 DEF TypeInv
<1>7. ASSUME discipline # "none" PROVE Behind(a)
  BY Zenon, <1>1, <1>2, <1>7, AllocateBehind DEF Behind, CutInv
<1>8. discipline # "none" => leaked \subseteq leaked'
  BY Zenon, <1>1, <1>3, <1>4, <1>5, <1>7, MapAtCut
<1>9. CutInv'
  <2> SUFFICES ASSUME discipline # "none" PROVE CutInv'
    BY Zenon DEF CutInv
  <2>1. /\ Apart(map') /\ \A x \in DOMAIN map' : Finish(map', x) <= a + n
        /\ \A x \in DOMAIN map' : Extent(map', x) \subseteq image' \/ Extent(map', x) \cap image' = {}
        /\ image' \subseteq Listed(map') /\ mapped' \subseteq Listed(map') \cup leaked'
    BY Zenon, <1>1, <1>3, <1>4, <1>5, <1>7, MapAtCut
  <2> QED BY Zenon, <1>4, <2>1 DEF CutInv
<1>10. AnswerInv'
  <2> SUFFICES ASSUME discipline # "none", leaked' = {} PROVE answer' = <<"mmap", "ok">>
    BY DEF AnswerInv
  <2>1. leaked = {}
    BY Zenon, <1>8
  <2>2. Listed(map) \cap Pages(a, n) = {} /\ mapped \subseteq Listed(map)
    BY Zenon, <1>1, <1>3, <1>7, <2>1, BehindFree DEF TypeInv, CutInv
  <2> QED BY Zenon, <1>5, <2>2
<1>11. OwnInv'
  <2> SUFFICES ASSUME discipline = "own" PROVE OwnInv'
    BY Zenon DEF OwnInv
  <2>1. /\ Listed(map') = (mapped' \ leaked') \cup stale'
        /\ leaked' \subseteq mapped' /\ leaked' \cap Listed(map') = {} /\ mapped' \cap stale' = {}
        /\ Listed(map) \subseteq Listed(map')
        /\ Maps(a, n, p, "mmap") => Pages(a, n) \subseteq Listed(map')
    BY Zenon, <1>1, <1>3, <1>4, <1>5, <1>7, MapAtOwn
  <2>2. ASSUME NEW u \in temp' PROVE Pages(u[1], u[2]) \subseteq Listed(map')
    <3>1. CASE u \in temp
      BY Zenon, <1>1, <2>1, <3>1 DEF OwnInv
    <3>2. CASE u \notin temp
      <4>1. u = <<a, n>> /\ answer'[2] = "ok"
        BY Zenon, <1>4, <3>2
      <4>2. Maps(a, n, p, "mmap")
        BY <1>5, <4>1 DEF Leaks
      <4> QED BY Zenon, <2>1, <4>1, <4>2
    <3> QED BY Zenon, <3>1, <3>2
  <2>3. (brk % PageUnits = 0 /\ heap = 0 .. (brk \div PageUnits) - 1)'
    BY Zenon, <1>1, <1>4 DEF OwnInv
  <2>4. UnmapSucceeds'
    BY <1>5 DEF UnmapSucceeds, Maps, Leaks
  <2>5. NoPanic'
    BY Zenon, <1>1, <1>4, <1>8 DEF OwnInv, NoPanic
  <2> QED BY Zenon, <2>1, <2>2, <2>3, <2>4, <2>5 DEF OwnInv
<1> QED BY Zenon, <1>6, <1>9, <1>10, <1>11 DEF MapInv
\* mmap of a file without an address keeps it.
LEMMA MmapFileStep ==
  ASSUME MapInv, UNCHANGED discipline, NEW n \in Lens, NEW p \in Prots, NEW len \in FileLens, MmapFile(n, p, len)
  PROVE  MapInv'
<1>1. TypeInv /\ CutInv /\ AnswerInv /\ OwnInv
  BY Zenon DEF MapInv
<1>2. PICK a : a = AllocateMapAddress
  BY Zenon
<1>3. a \in Nat /\ n \in Nat \ {0} /\ a + n <= Top
  BY Zenon, <1>1, <1>2, AllocateType, MemoryAssumption DEF MmapFile
<1>4. /\ base' = a + n /\ MapAt("file", a, n, p, len)
      /\ temp' = temp /\ image' = image /\ brk' = brk /\ heap' = heap /\ panicked' = panicked /\ stale' = stale
  BY Zenon, <1>2 DEF MmapFile, heapVars
<1>5. Maps(a, n, p, "file") \/ \E got : Leaks(a, n, "file", got)
  BY Zenon, <1>3, <1>4, MapAtCases
<1>6. TypeInv'
  <2>1. MapType(map') /\ mapped' \subseteq 0 .. Top - 1
    BY Zenon, <1>1, <1>3, <1>5, MapAtType
  <2> QED BY <1>1, <1>3, <1>4, <2>1 DEF TypeInv
<1>7. ASSUME discipline # "none" PROVE Behind(a)
  BY Zenon, <1>1, <1>2, <1>7, AllocateBehind DEF Behind, CutInv
<1>8. discipline # "none" => leaked \subseteq leaked'
  BY Zenon, <1>1, <1>3, <1>4, <1>5, <1>7, MapAtCut
<1>9. CutInv'
  <2> SUFFICES ASSUME discipline # "none" PROVE CutInv'
    BY Zenon DEF CutInv
  <2>1. /\ Apart(map') /\ \A x \in DOMAIN map' : Finish(map', x) <= a + n
        /\ \A x \in DOMAIN map' : Extent(map', x) \subseteq image' \/ Extent(map', x) \cap image' = {}
        /\ image' \subseteq Listed(map') /\ mapped' \subseteq Listed(map') \cup leaked'
    BY Zenon, <1>1, <1>3, <1>4, <1>5, <1>7, MapAtCut
  <2> QED BY Zenon, <1>4, <2>1 DEF CutInv
<1>10. answer'[1] = "file"
  BY <1>5 DEF Maps, Leaks
<1>11. AnswerInv'
  BY <1>10 DEF AnswerInv
<1>12. OwnInv'
  <2> SUFFICES ASSUME discipline = "own" PROVE OwnInv'
    BY Zenon DEF OwnInv
  <2>1. /\ Listed(map') = (mapped' \ leaked') \cup stale'
        /\ leaked' \subseteq mapped' /\ leaked' \cap Listed(map') = {} /\ mapped' \cap stale' = {}
        /\ Listed(map) \subseteq Listed(map')
    BY Zenon, <1>1, <1>3, <1>4, <1>5, <1>7, MapAtOwn
  <2>2. ASSUME NEW u \in temp' PROVE Pages(u[1], u[2]) \subseteq Listed(map')
    BY Zenon, <1>1, <1>4, <2>1 DEF OwnInv
  <2>3. (brk % PageUnits = 0 /\ heap = 0 .. (brk \div PageUnits) - 1)'
    BY Zenon, <1>1, <1>4 DEF OwnInv
  <2>4. UnmapSucceeds'
    BY Zenon, <1>10 DEF UnmapSucceeds
  <2>5. NoPanic'
    BY Zenon, <1>1, <1>4, <1>8 DEF OwnInv, NoPanic
  <2> QED BY Zenon, <2>1, <2>2, <2>3, <2>4, <2>5 DEF OwnInv
<1> QED BY Zenon, <1>6, <1>9, <1>11, <1>12 DEF MapInv

\* mmap of a file at an address keeps types, which is all there is to keep.
LEMMA MmapFileAtStep ==
  ASSUME MapInv, UNCHANGED discipline, NEW a \in Hints, NEW n \in Lens, NEW p \in Prots, NEW len \in FileLens,
         MmapFileAt(a, n, p, len)
  PROVE  MapInv'
<1>1. TypeInv /\ discipline = "none"
  BY Zenon DEF MapInv, MmapFileAt
<1>2. a \in Nat /\ n \in Nat \ {0} /\ a + n <= Top
  BY Zenon, MemoryAssumption DEF MmapFileAt
<1>3. base' = base /\ image' = image /\ brk' = brk /\ panicked' = panicked
  BY Zenon DEF MmapFileAt, heapVars
<1>4. MapType(map') /\ mapped' \subseteq 0 .. Top - 1
  <2>1. CASE map' = map /\ mapped' = mapped
    BY Zenon, <1>1, <2>1 DEF TypeInv
  <2>2. CASE MapAt("file", a, n, p, len)
    <3>1. Maps(a, n, p, "file") \/ \E got : Leaks(a, n, "file", got)
      BY Zenon, <1>2, <2>2, MapAtCases
    <3> QED BY Zenon, <1>1, <1>2, <3>1, MapAtType
  <2> QED BY Zenon, <2>1, <2>2 DEF MmapFileAt
<1>5. TypeInv'
  BY Zenon, <1>1, <1>3, <1>4 DEF TypeInv
<1> QED BY Zenon, <1>1, <1>5 DEF MapInv, CutInv, AnswerInv, OwnInv

\* What munmap leaves for a guest that chooses no addresses.
LEMMA OutcomeCut ==
  ASSUME TypeInv, CutInv, discipline # "none", NEW a \in Nat, NEW n \in Nat \ {0}, NEW o \in Outcomes(a, n),
         Pages(a, n) \cap image = {}
  PROVE  /\ Apart(o.map) /\ \A x \in DOMAIN o.map : Finish(o.map, x) <= o.base
         /\ \A x \in DOMAIN o.map : Extent(o.map, x) \subseteq image \/ Extent(o.map, x) \cap image = {}
         /\ image \subseteq Listed(o.map) /\ Listed(o.map) \subseteq Listed(map)
         /\ mapped \ o.pages \subseteq Listed(o.map) \cup leaked \cup Forgotten(o)
<1>1. MapType(map) /\ Apart(map) /\ mapped \subseteq Listed(map) \cup leaked
  BY Zenon DEF TypeInv, CutInv
<1>2. PICK r : r = o.map
  BY Zenon
<1>3. /\ MapType(r) /\ PartOf(r, map)
      /\ o.base = base \/ (o.base = 0 /\ DOMAIN r = {})
      /\ o.res = "ok" => o.pages = Pages(a, n)
  BY Zenon, <1>2, OutcomeType
<1>4. ASSUME NEW x \in DOMAIN r
      PROVE  \E k \in DOMAIN map : Finish(r, x) <= Finish(map, k) /\ Extent(r, x) \subseteq Extent(map, k)
  <2>1. PICK k \in DOMAIN map : k <= x /\ Finish(r, x) <= Finish(map, k)
    BY Zenon, <1>3 DEF PartOf
  <2>2. /\ k \in Nat /\ x \in Nat /\ Finish(r, x) \in Nat /\ Finish(map, k) \in Nat
        /\ r[x].size \in Nat /\ map[k].size \in Nat
        /\ Finish(r, x) = x + r[x].size /\ Finish(map, k) = k + map[k].size
    BY Zenon, <1>1, <1>3, EntryType
  <2>3. Extent(r, x) \subseteq Extent(map, k)
    <3> SUFFICES ASSUME NEW q \in Pages(x, r[x].size) PROVE q \in Pages(k, map[k].size)
      BY Zenon DEF Extent
    <3>1. q \in Nat /\ x <= q /\ q < x + r[x].size
      BY Zenon, <2>2, PagesIff
    <3>2. k <= q /\ q < k + map[k].size
      BY <2>1, <2>2, <3>1
    <3> QED BY Zenon, <2>2, <3>1, <3>2, PagesIff
  <2> QED BY Zenon, <2>1, <2>3
<1>5. Apart(r)
  BY Zenon, <1>1, <1>2, OutcomeCarved
<1>6. \A x \in DOMAIN r : Finish(r, x) <= o.base
  <2> SUFFICES ASSUME NEW x \in DOMAIN r PROVE Finish(r, x) <= base
    BY Zenon, <1>3
  <2>1. PICK k \in DOMAIN map : Finish(r, x) <= Finish(map, k)
    BY Zenon, <1>4
  <2>2. Finish(r, x) \in Nat /\ Finish(map, k) \in Nat /\ base \in Nat
    BY <1>1, <1>3, EntryType, MemoryAssumption DEF TypeInv
  <2>3. Finish(map, k) <= base
    BY Zenon DEF CutInv
  <2> QED BY <2>1, <2>2, <2>3
<1>7. \A x \in DOMAIN r : Extent(r, x) \subseteq image \/ Extent(r, x) \cap image = {}
  <2> SUFFICES ASSUME NEW x \in DOMAIN r PROVE Extent(r, x) \subseteq image \/ Extent(r, x) \cap image = {}
    BY Zenon
  <2>1. PICK k \in DOMAIN map : Extent(r, x) \subseteq Extent(map, k)
    BY Zenon, <1>4
  <2>2. Extent(map, k) \subseteq image \/ Extent(map, k) \cap image = {}
    BY Zenon DEF CutInv
  <2> QED BY Zenon, <2>1, <2>2
<1>8. image \subseteq Listed(r)
  BY Zenon, <1>2, OutcomeImage
<1>9. Listed(r) \subseteq Listed(map)
  BY Zenon, <1>4 DEF Listed
<1>10. mapped \ o.pages \subseteq Listed(r) \cup leaked \cup Forgotten(o)
  <2>1. CASE o.res = "ok"
    <3>1. Listed(map) \subseteq Listed(r) \cup Pages(a, n)
      BY Zenon, <1>1, <1>2, <2>1, OutcomeCarved
    <3> QED BY Zenon, <1>1, <1>3, <2>1, <3>1
  <2>2. CASE o.res # "ok"
    BY Zenon, <1>2, <2>2 DEF Forgotten
  <2> QED BY Zenon, <2>1, <2>2
<1> QED BY Zenon, <1>2, <1>5, <1>6, <1>7, <1>8, <1>9, <1>10

\* What a guest that keeps to its own mappings unmaps is mapped and listed, and
\* none of it is listed afterwards.
LEMMA OutcomeOwn ==
  ASSUME TypeInv, CutInv, OwnInv, discipline = "own", NEW a \in Nat, NEW n \in Nat \ {0}, Fits(a, n),
         NEW o \in Outcomes(a, n), Pages(a, n) \cap image = {}
  PROVE  /\ Pages(a, n) \subseteq mapped \ leaked
         /\ o.res = "ok" /\ o.pages = Pages(a, n)
         /\ Listed(o.map) = Listed(map) \ Pages(a, n)
<1>1. Apart(map) /\ Listed(map) = (mapped \ leaked) \cup stale /\ leaked \cap Listed(map) = {}
  BY Zenon DEF CutInv, OwnInv
<1>2. Pages(a, n) \subseteq Listed(map) /\ Pages(a, n) \cap stale = {}
  BY Zenon DEF Fits, Listed
<1>3. Pages(a, n) \subseteq mapped \ leaked
  BY Zenon, <1>1, <1>2
<1>4. o.res = "ok" /\ Listed(o.map) \cap Pages(a, n) = {}
  BY Zenon, <1>1, <1>3, OutcomeFits
<1>5. o.pages = Pages(a, n) /\ Listed(map) \subseteq Listed(o.map) \cup Pages(a, n)
  BY Zenon, <1>1, <1>4, OutcomeType, OutcomeCarved
<1>6. Listed(o.map) \subseteq Listed(map)
  BY Zenon, OutcomeCut
<1> QED BY Zenon, <1>3, <1>4, <1>5, <1>6
\* munmap keeps the invariant.
LEMMA MunmapStep ==
  ASSUME MapInv, UNCHANGED discipline, NEW a \in Starts, NEW n \in Lens, Munmap(a, n)
  PROVE  MapInv'
<1>1. TypeInv /\ CutInv /\ AnswerInv /\ OwnInv
  BY Zenon DEF MapInv
<1>2. a \in Nat /\ n \in Nat \ {0} /\ Pages(a, n) \cap image = {} /\ (discipline = "own" => Fits(a, n))
  BY Zenon, MemoryAssumption DEF Munmap
<1>3. PICK o \in Outcomes(a, n) :
        /\ mapped' = mapped \ o.pages /\ map' = o.map /\ base' = o.base
        /\ panicked' = (o.res = "panic") /\ answer' = <<"munmap", o.res>> /\ leaked' = leaked \cup Forgotten(o)
  BY Zenon DEF Munmap
<1>4. temp' = temp /\ image' = image /\ brk' = brk /\ heap' = heap /\ stale' = stale /\ ~panicked
  BY Zenon DEF Munmap, heapVars
<1>5. TypeInv'
  <2>1. MapType(o.map) /\ (o.base = base \/ o.base = 0)
    BY Zenon, <1>1, <1>2, OutcomeType
  <2>2. base' \in 0 .. Top
    BY <1>1, <1>3, <2>1, MemoryAssumption DEF TypeInv
  <2>3. panicked' \in BOOLEAN
    BY Zenon, <1>3
  <2> QED BY Zenon, <1>1, <1>3, <1>4, <2>1, <2>2, <2>3 DEF TypeInv
<1>6. CutInv'
  <2> SUFFICES ASSUME discipline # "none" PROVE CutInv'
    BY Zenon DEF CutInv
  <2>1. /\ Apart(o.map) /\ \A x \in DOMAIN o.map : Finish(o.map, x) <= o.base
        /\ \A x \in DOMAIN o.map : Extent(o.map, x) \subseteq image \/ Extent(o.map, x) \cap image = {}
        /\ image \subseteq Listed(o.map)
        /\ mapped \ o.pages \subseteq Listed(o.map) \cup leaked \cup Forgotten(o)
    BY Zenon, <1>1, <1>2, OutcomeCut
  <2> QED BY Zenon, <1>3, <1>4, <2>1 DEF CutInv
<1>7. AnswerInv'
  BY Zenon, <1>3 DEF AnswerInv
<1>8. OwnInv'
  <2> SUFFICES ASSUME discipline = "own" PROVE OwnInv'
    BY Zenon DEF OwnInv
  <2>1. /\ Pages(a, n) \subseteq mapped \ leaked
        /\ o.res = "ok" /\ o.pages = Pages(a, n)
        /\ Listed(o.map) = Listed(map) \ Pages(a, n)
    BY Zenon, <1>1, <1>2, OutcomeOwn
  <2>2. /\ mapped' = mapped \ Pages(a, n) /\ leaked' = leaked /\ Listed(map') = Listed(map) \ Pages(a, n)
        /\ answer' = <<"munmap", "ok">> /\ panicked' = FALSE
    BY Zenon, <1>3, <2>1 DEF Forgotten
  <2>3. Pages(a, n) \cap stale = {} /\ \A t \in temp : Pages(a, n) \cap Pages(t[1], t[2]) = {}
    BY Zenon, <1>2 DEF Fits
  <2>4. /\ Listed(map') = (mapped' \ leaked') \cup stale'
        /\ leaked' \subseteq mapped' /\ leaked' \cap Listed(map') = {} /\ mapped' \cap stale' = {}
    BY Zenon, <1>1, <1>4, <2>1, <2>2, <2>3 DEF OwnInv
  <2>5. \A t \in temp' : Pages(t[1], t[2]) \subseteq Listed(map')
    BY Zenon, <1>1, <1>4, <2>2, <2>3 DEF OwnInv
  <2>6. (brk % PageUnits = 0 /\ heap = 0 .. (brk \div PageUnits) - 1)'
    BY Zenon, <1>1, <1>4 DEF OwnInv
  <2>7. UnmapSucceeds' /\ NoPanic'
    BY Zenon, <2>2 DEF UnmapSucceeds, NoPanic
  <2> QED BY Zenon, <2>4, <2>5, <2>6, <2>7 DEF OwnInv
<1> QED BY Zenon, <1>5, <1>6, <1>7, <1>8 DEF MapInv

\* A range that fits ends at or below mmap_base.
LEMMA FitsBelow ==
  ASSUME TypeInv, CutInv, discipline # "none", NEW a \in Nat, NEW n \in Nat \ {0}, Fits(a, n)
  PROVE  a + n <= base
<1>1. MapType(map) /\ Apart(map) /\ base \in Nat /\ \A x \in DOMAIN map : Finish(map, x) \in Nat /\ Finish(map, x) <= base
  BY EntryType, MemoryAssumption DEF TypeInv, CutInv
<1>2. OneEntry(a, n) \/ Entries(a, n)
  BY Zenon, <1>1, FitsCases
<1>3. \E x \in DOMAIN map : a + n - 1 < Finish(map, x)
  <2>1. CASE OneEntry(a, n)
    BY <1>1, <2>1 DEF OneEntry
  <2>2. CASE Entries(a, n)
    <3>1. a + n - 1 \in Pages(a, n)
      BY PagesIff
    <3> QED BY Zenon, <2>2, <3>1 DEF Entries, Inside
  <2> QED BY Zenon, <1>2, <2>1, <2>2
<1> QED BY <1>1, <1>3

\* MAP_FIXED keeps the invariant.
LEMMA MmapFixedStep ==
  ASSUME MapInv, UNCHANGED discipline, NEW a \in Starts, NEW n \in Lens, NEW p \in Prots, MmapFixed(a, n, p)
  PROVE  MapInv'
<1>1. TypeInv /\ CutInv /\ AnswerInv /\ OwnInv
  BY Zenon DEF MapInv
<1>2. /\ a \in Nat /\ n \in Nat \ {0} /\ a + n <= Top /\ Pages(a, n) \cap image = {} /\ image # {}
      /\ discipline # "none" => Fits(a, n)
  BY Zenon, MemoryAssumption DEF MmapFixed, GuestRuns
<1>3. PICK o \in Outcomes(a, n) :
        /\ base' = o.base /\ panicked' = (o.res = "panic")
        /\ mapped' = IF o.res = "ok" THEN mapped ELSE mapped \ o.pages
        /\ map' = IF o.res = "ok" THEN Insert(o.map, a, Entry(n, p)) ELSE o.map
        /\ answer' = <<"fixed", IF o.res = "ok" THEN "ok" ELSE "EAGAIN">>
        /\ leaked' = leaked \cup Forgotten(o)
  BY Zenon DEF MmapFixed
<1>4. temp' = temp /\ image' = image /\ brk' = brk /\ heap' = heap /\ stale' = stale
  BY Zenon DEF MmapFixed, heapVars
<1>5. MapType(o.map) /\ (o.base = base \/ o.base = 0) /\ (o.res = "ok" => o.pages = Pages(a, n))
  BY Zenon, <1>1, <1>2, OutcomeType
<1>6. TypeInv'
  <2>1. base' \in 0 .. Top
    BY <1>1, <1>3, <1>5, MemoryAssumption DEF TypeInv
  <2>2. panicked' \in BOOLEAN
    BY Zenon, <1>3
  <2>3. mapped' \subseteq 0 .. Top - 1
    BY Zenon, <1>1, <1>3 DEF TypeInv
  <2>4. MapType(map')
    <3>1. CASE o.res = "ok"
      <4>1. MapType(Insert(o.map, a, Entry(n, p)))
        BY Zenon, <1>2, <1>5, InsertType
      <4> QED BY Zenon, <1>3, <3>1, <4>1
    <3>2. CASE o.res # "ok"
      BY Zenon, <1>3, <1>5, <3>2
    <3> QED BY Zenon, <3>1, <3>2
  <2> QED BY Zenon, <1>1, <1>4, <2>1, <2>2, <2>3, <2>4 DEF TypeInv
<1>7. ASSUME discipline # "none", o.res = "ok" PROVE Adds(map', o.map, a, n)
  <2>1. Vacant(o.map, a, n)
    BY Zenon, <1>1, <1>2, <1>7, OutcomeFits DEF CutInv, Vacant
  <2>2. Room(a, n, p)
    BY Zenon, <1>2 DEF Room
  <2>3. map' = Insert(o.map, a, Entry(n, p))
    BY Zenon, <1>3, <1>7
  <2> QED BY Zenon, <1>5, <2>1, <2>2, <2>3, InsertFree
<1>8. CutInv'
  <2> SUFFICES ASSUME discipline # "none" PROVE CutInv'
    BY Zenon DEF CutInv
  <2>1. /\ Apart(o.map) /\ \A x \in DOMAIN o.map : Finish(o.map, x) <= o.base
        /\ \A x \in DOMAIN o.map : Extent(o.map, x) \subseteq image \/ Extent(o.map, x) \cap image = {}
        /\ image \subseteq Listed(o.map)
        /\ mapped \ o.pages \subseteq Listed(o.map) \cup leaked \cup Forgotten(o)
    BY Zenon, <1>1, <1>2, OutcomeCut
  <2>2. CASE o.res = "ok"
    <3>1. a + n <= base /\ o.base = base
      BY Zenon, <1>1, <1>2, FitsBelow, OutcomeImage
    <3>2. Apart(map') /\ Listed(map') = Listed(o.map) \cup Pages(a, n)
      BY Zenon, <1>7, <2>1, <2>2 DEF Adds
    <3>3. \A x \in DOMAIN map' : Finish(map', x) <= base'
      BY Zenon, <1>3, <1>7, <2>1, <2>2, <3>1 DEF Adds
    <3>4. \A x \in DOMAIN map' : Extent(map', x) \subseteq image \/ Extent(map', x) \cap image = {}
      BY Zenon, <1>2, <1>7, <2>1, <2>2 DEF Adds
    <3>5. mapped' \subseteq Listed(map') \cup leaked'
      BY Zenon, <1>3, <1>5, <2>1, <2>2, <3>2
    <3> QED BY Zenon, <1>4, <2>1, <3>2, <3>3, <3>4, <3>5 DEF CutInv
  <2>3. CASE o.res # "ok"
    <3>1. map' = o.map /\ mapped' = mapped \ o.pages
      BY Zenon, <1>3, <2>3
    <3> QED BY Zenon, <1>3, <1>4, <2>1, <3>1 DEF CutInv
  <2> QED BY Zenon, <2>2, <2>3
<1>9. AnswerInv'
  BY Zenon, <1>3 DEF AnswerInv
<1>10. OwnInv'
  <2> SUFFICES ASSUME discipline = "own" PROVE OwnInv'
    BY Zenon DEF OwnInv
  <2>1. /\ Pages(a, n) \subseteq mapped \ leaked /\ o.res = "ok"
        /\ Listed(o.map) = Listed(map) \ Pages(a, n)
    BY Zenon, <1>1, <1>2, OutcomeOwn
  <2>2. Listed(map') = Listed(o.map) \cup Pages(a, n)
    BY Zenon, <1>7, <2>1 DEF Adds
  <2>3. Pages(a, n) \subseteq Listed(map)
    BY Zenon, <1>1, <2>1 DEF OwnInv
  <2>4. /\ mapped' = mapped /\ leaked' = leaked /\ Listed(map') = Listed(map)
        /\ answer' = <<"fixed", "ok">> /\ panicked' = FALSE
    BY Zenon, <1>3, <2>1, <2>2, <2>3 DEF Forgotten
  <2>5. UnmapSucceeds' /\ NoPanic'
    BY Zenon, <2>4 DEF UnmapSucceeds, NoPanic
  <2> QED BY Zenon, <1>1, <1>4, <2>4, <2>5 DEF OwnInv
<1> QED BY Zenon, <1>6, <1>8, <1>9, <1>10 DEF MapInv
\* The release of temporary memory keeps it.
LEMMA ReleaseStep ==
  ASSUME MapInv, UNCHANGED discipline, ReleaseTmpMemory
  PROVE  MapInv'
<1>1. TypeInv /\ CutInv /\ AnswerInv /\ OwnInv
  BY Zenon DEF MapInv
<1>2. PICK gone : gone = UNION {UnmapPages(t[1], t[2]) : t \in temp}
  BY Zenon
<1>3. /\ temp' = {} /\ mapped' = mapped \ gone /\ stale' = stale \cup gone
      /\ map' = map /\ base' = base /\ image' = image /\ brk' = brk /\ heap' = heap
      /\ panicked' = panicked /\ answer' = answer /\ leaked' = leaked
  BY Zenon, <1>2 DEF ReleaseTmpMemory, heapVars
<1>4. TypeInv'
  BY Zenon, <1>1, <1>3 DEF TypeInv
<1>5. CutInv' /\ AnswerInv'
  BY Zenon, <1>1, <1>3 DEF CutInv, AnswerInv
<1>6. OwnInv'
  <2> SUFFICES ASSUME discipline = "own" PROVE OwnInv'
    BY Zenon DEF OwnInv
  <2>1. gone \subseteq Listed(map)
    <3> SUFFICES ASSUME NEW t \in temp PROVE UnmapPages(t[1], t[2]) \subseteq Listed(map)
      BY Zenon, <1>2
    <3>1. Pages(t[1], t[2]) \subseteq Listed(map)
      BY Zenon, <1>1 DEF OwnInv
    <3> QED BY Zenon, <3>1 DEF UnmapPages
  <2>2. /\ Listed(map') = (mapped' \ leaked') \cup stale'
        /\ leaked' \subseteq mapped' /\ leaked' \cap Listed(map') = {} /\ mapped' \cap stale' = {}
    BY Zenon, <1>1, <1>3, <2>1 DEF OwnInv
  <2>3. (brk % PageUnits = 0 /\ heap = 0 .. (brk \div PageUnits) - 1)'
    BY Zenon, <1>1, <1>3 DEF OwnInv
  <2>4. UnmapSucceeds' /\ NoPanic'
    BY Zenon, <1>1, <1>3 DEF OwnInv, UnmapSucceeds, NoPanic
  <2> QED BY Zenon, <1>3, <2>2, <2>3, <2>4 DEF OwnInv
<1> QED BY Zenon, <1>4, <1>5, <1>6 DEF MapInv

\* A higher break has at least as many pages below it.
LEMMA BreakPages ==
  ASSUME NEW x \in Nat, NEW y \in Nat, x < y
  PROVE  x \div PageUnits \in Nat /\ y \div PageUnits \in Nat /\ x \div PageUnits <= y \div PageUnits
BY MemoryAssumption

\* brk keeps it.
LEMMA BrkStep ==
  ASSUME MapInv, UNCHANGED discipline, NEW u \in Breaks, Brk(u)
  PROVE  MapInv'
<1>1. TypeInv /\ CutInv /\ AnswerInv /\ OwnInv
  BY Zenon DEF MapInv
<1>2. /\ mapped' = mapped /\ map' = map /\ base' = base /\ temp' = temp /\ image' = image /\ answer' = answer
      /\ leaked' = leaked /\ stale' = stale
  BY Zenon DEF Brk, ghosts
<1>3. u \in Nat /\ brk \in Nat /\ ~panicked /\ (discipline = "own" => u % PageUnits = 0)
  BY Zenon, <1>1, MemoryAssumption DEF Brk, GuestRuns, TypeInv
<1>4. (brk' = brk \/ brk' = u) /\ (panicked' = panicked \/ panicked' = TRUE)
  BY Zenon DEF Brk
<1>5. TypeInv'
  <2>1. panicked' \in BOOLEAN
    BY Zenon, <1>1, <1>4 DEF TypeInv
  <2> QED BY Zenon, <1>1, <1>2, <1>3, <1>4, <2>1 DEF TypeInv
<1>6. CutInv' /\ AnswerInv'
  BY Zenon, <1>1, <1>2 DEF CutInv, AnswerInv
<1>7. OwnInv'
  <2> SUFFICES ASSUME discipline = "own" PROVE OwnInv'
    BY Zenon DEF OwnInv
  <2>1. brk % PageUnits = 0 /\ heap = 0 .. (brk \div PageUnits) - 1 /\ u % PageUnits = 0
    BY Zenon, <1>1, <1>3 DEF OwnInv
  <2>2. /\ brk' % PageUnits = 0 /\ heap' = 0 .. (brk' \div PageUnits) - 1 /\ panicked' = panicked
    <3>1. CASE u = brk
      BY Zenon, <2>1, <3>1 DEF Brk
    <3>2. CASE u > brk
      <4>1. PICK pages : pages = (brk \div PageUnits) .. (u \div PageUnits) - 1
        BY Zenon
      <4>2. brk \div PageUnits \in Nat /\ u \div PageUnits \in Nat /\ brk \div PageUnits <= u \div PageUnits
        BY Zenon, <1>3, <3>2, BreakPages
      <4>3. pages \cap heap = {} /\ heap \cup pages = 0 .. (u \div PageUnits) - 1
        BY <2>1, <4>1, <4>2
      <4>4. ~(u < brk) /\ u # brk
        BY <1>3, <3>2
      <4>5. brk' = u /\ heap' = heap \cup pages /\ panicked' = panicked
        BY Zenon, <2>1, <3>2, <4>1, <4>3, <4>4 DEF Brk
      <4> QED BY Zenon, <2>1, <4>3, <4>5
    <3>3. CASE u < brk
      <4>1. PICK pages : pages = (u \div PageUnits) .. (brk \div PageUnits) - 1
        BY Zenon
      <4>2. brk \div PageUnits \in Nat /\ u \div PageUnits \in Nat /\ u \div PageUnits <= brk \div PageUnits
        BY Zenon, <1>3, <3>3, BreakPages
      <4>3. pages \subseteq heap /\ heap \ pages = 0 .. (u \div PageUnits) - 1
        BY <2>1, <4>1, <4>2
      <4>4. ~(u > brk) /\ u # brk
        BY <1>3, <3>3
      <4>5. brk' = u /\ heap' = heap \ pages /\ panicked' = panicked
        BY Zenon, <2>1, <3>3, <4>1, <4>3, <4>4 DEF Brk
      <4> QED BY Zenon, <2>1, <4>3, <4>5
    <3> QED BY <1>3, <3>1, <3>2, <3>3
  <2>3. UnmapSucceeds' /\ NoPanic'
    BY Zenon, <1>1, <1>2, <2>2 DEF OwnInv, UnmapSucceeds, NoPanic
  <2> QED BY Zenon, <1>1, <1>2, <2>2, <2>3 DEF OwnInv
<1> QED BY Zenon, <1>5, <1>6, <1>7 DEF MapInv

\* So does brk(0).
LEMMA BrkZeroStep ==
  ASSUME MapInv, UNCHANGED discipline, BrkZero
  PROVE  MapInv'
<1>1. TypeInv /\ CutInv /\ AnswerInv /\ OwnInv
  BY Zenon DEF MapInv
<1>2. /\ mapped' = mapped /\ map' = map /\ base' = base /\ temp' = temp /\ image' = image /\ answer' = answer
      /\ leaked' = leaked /\ stale' = stale /\ brk' = 0 /\ heap' = heap /\ panicked' = panicked
      /\ discipline = "own" => brk = 0
  BY Zenon DEF BrkZero, ghosts
<1>3. TypeInv'
  BY Zenon, <1>1, <1>2 DEF TypeInv
<1>4. CutInv' /\ AnswerInv'
  BY Zenon, <1>1, <1>2 DEF CutInv, AnswerInv
<1>5. OwnInv'
  BY Zenon, <1>1, <1>2 DEF OwnInv, UnmapSucceeds, NoPanic
<1> QED BY Zenon, <1>3, <1>4, <1>5 DEF MapInv
-----------------------------------------------------------------------------
(* Loading an image *)

Segment(im, i) == [off |-> base + im[i].off, len |-> im[i].len, prot |-> im[i].prot]
Gap(im, i) == [off |-> base + im[i].off + im[i].len,
               len |-> im[i + 1].off - im[i].off - im[i].len, prot |-> "none"]
Pieces(im) ==
  {s \in {Segment(im, i) : i \in DOMAIN im} \cup {Gap(im, i) : i \in DOMAIN im \ {Len(im)}} : s.len > 0}
Piece == [off : Nat, len : Nat \ {0}, prot : Prots \cup {"none"}]

\* The segments of an image and what lies between them follow one another, from
\* mmap_base to the end of the image.
LEMMA PiecesInOrder ==
  ASSUME base \in Nat, NEW im \in Images
  PROVE  /\ End(im) \in Nat
         /\ \A s \in Pieces(im) : s \in Piece /\ base <= s.off /\ s.off + s.len <= base + End(im)
         /\ \A s, t \in Pieces(im) : s # t => s.off + s.len <= t.off \/ t.off + t.len <= s.off
<1>1. PICK l : l = Len(im)
  BY Zenon
<1>2. /\ l \in Nat \ {0} /\ DOMAIN im = 1 .. l
      /\ \A i \in 1 .. l : im[i].off \in Nat /\ im[i].len \in Nat \ {0} /\ im[i].prot \in Prots
      /\ \A i, j \in 1 .. l : i < j => im[i].off + im[i].len <= im[j].off
  <2>1. im \in Seq([off : Nat, len : Nat \ {0}, prot : Prots]) /\ im # <<>>
    BY Zenon, ImagesAssumption
  <2>2. l \in Nat \ {0} /\ DOMAIN im = 1 .. l
    BY <1>1, <2>1
  <2>3. \A i \in 1 .. l : im[i] \in [off : Nat, len : Nat \ {0}, prot : Prots]
    <3>1. PICK R : R = [off : Nat, len : Nat \ {0}, prot : Prots]
      BY Zenon
    <3>2. im \in Seq(R)
      BY Zenon, <2>1, <3>1
    <3>3. \A i \in 1 .. l : im[i] \in R
      BY <1>1, <3>2
    <3> QED BY Zenon, <3>1, <3>3
  <2>4. \A i \in 1 .. l : im[i].off \in Nat /\ im[i].len \in Nat \ {0} /\ im[i].prot \in Prots
    BY Zenon, <2>3
  <2>5. \A i, j \in 1 .. l : i < j => im[i].off + im[i].len <= im[j].off
    BY Zenon, <1>1, ImagesAssumption
  <2> QED BY Zenon, <2>2, <2>4, <2>5
<1>3. End(im) = im[l].off + im[l].len /\ End(im) \in Nat
  BY <1>1, <1>2 DEF End
<1>4. \A i \in 1 .. l : im[i].off + im[i].len <= End(im)
  <2> SUFFICES ASSUME NEW i \in 1 .. l PROVE im[i].off + im[i].len <= End(im)
    BY Zenon
  <2>1. CASE i = l
    BY <1>2, <1>3, <2>1
  <2>2. CASE i < l
    <3>1. im[i].off + im[i].len <= im[l].off
      BY <1>2, <2>2
    <3> QED BY <1>2, <1>3, <3>1
  <2> QED BY <1>2, <2>1, <2>2
<1>5. ASSUME NEW s \in Pieces(im)
      PROVE  \E i \in 1 .. l : s = Segment(im, i) \/ (i < l /\ s = Gap(im, i) /\ s.len > 0)
  BY <1>1, <1>2 DEF Pieces
<1>6. ASSUME NEW i \in 1 .. l
      PROVE  /\ Segment(im, i).off = base + im[i].off /\ Segment(im, i).len = im[i].len
             /\ Segment(im, i).prot = im[i].prot
             /\ Gap(im, i).off = base + im[i].off + im[i].len
             /\ Gap(im, i).len = im[i + 1].off - im[i].off - im[i].len /\ Gap(im, i).prot = "none"
             /\ Segment(im, i) = [off |-> base + im[i].off, len |-> im[i].len, prot |-> im[i].prot]
  BY Zenon DEF Segment, Gap
<1>7. ASSUME NEW i \in 1 .. l, i < l
      PROVE  i + 1 \in 1 .. l /\ im[i].off + im[i].len <= im[i + 1].off /\ im[i + 1].off \in Nat
  BY <1>2, <1>7
<1>8. ASSUME NEW s \in Pieces(im) PROVE s \in Piece /\ base <= s.off /\ s.off + s.len <= base + End(im)
  <2>1. PICK i \in 1 .. l : s = Segment(im, i) \/ (i < l /\ s = Gap(im, i) /\ s.len > 0)
    BY Zenon, <1>5
  <2>2. CASE s = Segment(im, i)
    <3>1. s \in Piece
      BY <1>2, <2>2 DEF Segment, Piece
    <3>2. s.off = base + im[i].off /\ s.len = im[i].len
      BY Zenon, <1>6, <2>2
    <3>3. /\ im[i].off \in Nat /\ im[i].len \in Nat /\ im[i].off + im[i].len <= End(im)
          /\ base \in Nat /\ End(im) \in Nat
      BY Zenon, <1>2, <1>3, <1>4
    <3>4. base <= s.off /\ s.off + s.len <= base + End(im)
      BY <3>2, <3>3
    <3> QED BY Zenon, <3>1, <3>4
  <2>3. CASE i < l /\ s = Gap(im, i) /\ s.len > 0
    <3>1. /\ s.off = base + im[i].off + im[i].len /\ s.len = im[i + 1].off - im[i].off - im[i].len
      BY Zenon, <1>6, <2>3
    <3>2. im[i].off \in Nat /\ im[i].len \in Nat /\ im[i + 1].off \in Nat /\ im[i + 1].len \in Nat
          /\ im[i + 1].off + im[i + 1].len <= End(im)
      BY Zenon, <1>2, <1>4, <1>7, <2>3
    <3>3. s.off \in Nat /\ s.len \in Nat \ {0} /\ base <= s.off /\ s.off + s.len = base + im[i + 1].off
      BY <2>3, <3>1, <3>2
    <3>4. s \in Piece
      BY Zenon, <2>3, <3>3 DEF Gap, Piece
    <3> QED BY <1>3, <3>2, <3>3, <3>4
  <2> QED BY Zenon, <2>1, <2>2, <2>3
<1>9. ASSUME NEW s \in Pieces(im), NEW t \in Pieces(im), s # t
      PROVE  s.off + s.len <= t.off \/ t.off + t.len <= s.off
  <2>1. PICK i \in 1 .. l : s = Segment(im, i) \/ (i < l /\ s = Gap(im, i) /\ s.len > 0)
    BY Zenon, <1>5
  <2>2. PICK j \in 1 .. l : t = Segment(im, j) \/ (j < l /\ t = Gap(im, j) /\ t.len > 0)
    BY Zenon, <1>5
  <2>3. /\ im[i].off \in Nat /\ im[i].len \in Nat /\ im[j].off \in Nat /\ im[j].len \in Nat
        /\ i < j => im[i].off + im[i].len <= im[j].off
        /\ j < i => im[j].off + im[j].len <= im[i].off
    BY Zenon, <1>2
  <2>4. /\ i < l => im[i + 1].off \in Nat /\ im[i].off + im[i].len <= im[i + 1].off
        /\ j < l => im[j + 1].off \in Nat /\ im[j].off + im[j].len <= im[j + 1].off
    BY Zenon, <1>7
  <2>5. /\ i < j => im[i + 1].off <= im[j].off
        /\ j < i => im[j + 1].off <= im[i].off
    <3>1. ASSUME NEW x \in 1 .. l, NEW y \in 1 .. l, x < y PROVE im[x + 1].off <= im[y].off
      <4>1. x + 1 \in 1 .. l /\ (x + 1 = y \/ x + 1 < y)
        BY <1>2, <3>1
      <4>2. CASE x + 1 < y
        <5>1. im[x + 1].off + im[x + 1].len <= im[y].off
          BY Zenon, <1>2, <4>1, <4>2
        <5> QED BY <1>2, <4>1, <5>1
      <4> QED BY <1>2, <4>1, <4>2
    <3> QED BY Zenon, <3>1
  <2>6. \/ s.off = base + im[i].off /\ s.len = im[i].len /\ s = Segment(im, i)
        \/ /\ i < l /\ s.off = base + im[i].off + im[i].len
           /\ s.len = im[i + 1].off - im[i].off - im[i].len /\ s = Gap(im, i)
    BY Zenon, <1>6, <2>1
  <2>7. \/ t.off = base + im[j].off /\ t.len = im[j].len /\ t = Segment(im, j)
        \/ /\ j < l /\ t.off = base + im[j].off + im[j].len
           /\ t.len = im[j + 1].off - im[j].off - im[j].len /\ t = Gap(im, j)
    BY Zenon, <1>6, <2>2
  <2>8. CASE i = j
    BY SMTT(30), <1>9, <2>3, <2>4, <2>6, <2>7, <2>8
  <2>9. CASE i < j
    BY SMTT(30), <2>3, <2>4, <2>5, <2>6, <2>7, <2>9
  <2>10. CASE j < i
    BY <2>3, <2>4, <2>5, <2>6, <2>7, <2>10
  <2> QED BY <2>8, <2>9, <2>10
<1> QED BY Zenon, <1>3, <1>8, <1>9
\* The map of a loaded image: an entry for each of its pieces.
Loaded(r, im) ==
  /\ DOMAIN r = DOMAIN map \cup {s.off : s \in Pieces(im)}
  /\ \A s \in Pieces(im) : r[s.off] = Entry(s.len, s.prot)
  /\ \A x \in DOMAIN map : (\A s \in Pieces(im) : s.off # x) => r[x] = map[x]
ImagePages(im) == UNION {Pages(s.off, s.len) : s \in Pieces(im)}

\* What loading does.
LEMMA LoadCases ==
  ASSUME base \in Nat, NEW im \in Images, Load(im)
  PROVE  /\ base' = base + End(im) /\ base + End(im) <= Top /\ ~panicked
         /\ temp' = temp /\ brk' = brk /\ heap' = heap /\ answer' = answer /\ leaked' = leaked /\ stale' = stale
         /\ \/ /\ ImagePages(im) \cap mapped # {} /\ panicked' = TRUE
               /\ mapped' = mapped /\ map' = map /\ image' = image
            \/ /\ ImagePages(im) \cap mapped = {} /\ panicked' = panicked
               /\ mapped' = mapped \cup ImagePages(im) /\ image' = image \cup ImagePages(im) /\ Loaded(map', im)
<1>1. PICK new : new = Pieces(im)
  BY Zenon
<1>2. PICK all : all = ImagePages(im)
  BY Zenon
<1>3. /\ ~panicked /\ base + End(im) <= Top /\ base' = base + End(im)
      /\ IF all \cap mapped # {}
           THEN panicked' = TRUE /\ UNCHANGED <<mapped, map, image>>
           ELSE /\ mapped' = mapped \cup all /\ image' = image \cup all
                /\ map' = [x \in DOMAIN map \cup {s.off : s \in new} |->
                             IF \E s \in new : s.off = x
                               THEN LET s == CHOOSE s \in new : s.off = x IN Entry(s.len, s.prot)
                               ELSE map[x]]
                /\ UNCHANGED panicked
      /\ UNCHANGED <<temp, heapVars, answer, ghosts>>
  BY <1>1, <1>2 DEF Load, Pieces, Segment, Gap, ImagePages
<1>4. temp' = temp /\ brk' = brk /\ heap' = heap /\ answer' = answer /\ leaked' = leaked /\ stale' = stale
  BY Zenon, <1>3 DEF heapVars, ghosts
<1>5. ASSUME NEW s \in new, NEW t \in new, s.off = t.off PROVE s = t
  <2>1. \A z \in new : z.off \in Nat /\ z.len \in Nat \ {0}
    BY Zenon, <1>1, PiecesInOrder DEF Piece
  <2>2. s # t => s.off + s.len <= t.off \/ t.off + t.len <= s.off
    BY Zenon, <1>1, PiecesInOrder
  <2> QED BY <1>5, <2>1, <2>2
<1>6. ASSUME all \cap mapped = {} PROVE Loaded(map', im)
  <2>1. PICK r : r = map'
    BY Zenon
  <2>2. r = [x \in DOMAIN map \cup {s.off : s \in new} |->
               IF \E s \in new : s.off = x
                 THEN LET s == CHOOSE s \in new : s.off = x IN Entry(s.len, s.prot)
                 ELSE map[x]]
    BY Zenon, <1>3, <1>6, <2>1
  <2>3. DOMAIN r = DOMAIN map \cup {s.off : s \in new}
    BY Zenon, <2>2
  <2>4. ASSUME NEW s \in new PROVE r[s.off] = Entry(s.len, s.prot)
    <3>1. PICK t : t = CHOOSE z \in new : z.off = s.off
      BY Zenon
    <3>2. t \in new /\ t.off = s.off
      BY Zenon, <3>1
    <3>3. t = s
      BY Zenon, <1>5, <3>2
    <3>4. r[s.off] = Entry(t.len, t.prot)
      BY Zenon, <2>2, <3>1
    <3> QED BY Zenon, <3>3, <3>4
  <2>5. ASSUME NEW x \in DOMAIN map, \A s \in new : s.off # x PROVE r[x] = map[x]
    BY Zenon, <2>2, <2>5
  <2> QED BY Zenon, <1>1, <2>1, <2>3, <2>4, <2>5 DEF Loaded
<1> QED BY Zenon, <1>2, <1>3, <1>4, <1>6
\* The entries of the map of a loaded image.
LEMMA LoadedEntries ==
  ASSUME MapType(map), base \in Nat, NEW im \in Images, base + End(im) <= Top, NEW r, Loaded(r, im)
  PROVE  /\ MapType(r)
         /\ \A x \in DOMAIN r : \/ x \in DOMAIN map /\ r[x] = map[x]
                                \/ \E s \in Pieces(im) : x = s.off /\ r[x] = Entry(s.len, s.prot)
<1>1. \A s \in Pieces(im) : s \in Piece /\ base <= s.off /\ s.off + s.len <= base + End(im)
  BY Zenon, PiecesInOrder
<1>2. \A x \in DOMAIN r : \/ x \in DOMAIN map /\ r[x] = map[x]
                          \/ \E s \in Pieces(im) : x = s.off /\ r[x] = Entry(s.len, s.prot)
  BY Zenon DEF Loaded
<1>3. ASSUME NEW x \in DOMAIN r
      PROVE  x \in Nat /\ r[x] \in [size : Nat \ {0}, prot : Prots \cup {"none"}] /\ Finish(r, x) <= Top
  <2>1. CASE x \in DOMAIN map /\ r[x] = map[x]
    BY Zenon, <2>1 DEF MapType, Finish
  <2>2. CASE \E s \in Pieces(im) : x = s.off /\ r[x] = Entry(s.len, s.prot)
    <3>1. PICK s \in Pieces(im) : x = s.off /\ r[x] = Entry(s.len, s.prot)
      BY Zenon, <2>2
    <3>2. s \in Piece /\ s.off + s.len <= base + End(im)
      BY Zenon, <1>1
    <3>3. s.off \in Nat /\ s.len \in Nat \ {0} /\ s.prot \in Prots \cup {"none"}
      BY Zenon, <3>2 DEF Piece
    <3>4. r[x] \in [size : Nat \ {0}, prot : Prots \cup {"none"}] /\ r[x].size = s.len
      BY <3>1, <3>3 DEF Entry
    <3>5. End(im) \in Nat
      BY Zenon, PiecesInOrder
    <3>6. Finish(r, x) <= Top
      BY <3>1, <3>2, <3>3, <3>4, <3>5, MemoryAssumption DEF Finish
    <3> QED BY Zenon, <3>1, <3>3, <3>4, <3>6
  <2> QED BY Zenon, <1>2, <2>1, <2>2
<1>4. MapType(r)
  BY Zenon, <1>3 DEF MapType
<1> QED BY Zenon, <1>2, <1>4

\* An image lies above mmap_base.
LEMMA ImageAbove ==
  ASSUME base \in Nat, NEW im \in Images, base + End(im) <= Top, NEW q \in ImagePages(im)
  PROVE  q \in Nat /\ base <= q /\ q < Top
<1>1. PICK s \in Pieces(im) : q \in Pages(s.off, s.len)
  BY Zenon DEF ImagePages
<1>2. s.off \in Nat /\ s.len \in Nat /\ base <= s.off /\ s.off + s.len <= base + End(im) /\ End(im) \in Nat
  BY Zenon, PiecesInOrder DEF Piece
<1>3. q \in Nat /\ s.off <= q /\ q < s.off + s.len
  BY Zenon, <1>1, <1>2, PagesIff
<1> QED BY <1>2, <1>3, MemoryAssumption

\* The entries of the images before it lie below, and stay as they were.
LEMMA LoadedApart ==
  ASSUME MapType(map), base \in Nat, NEW im \in Images, base + End(im) <= Top, NEW r, Loaded(r, im),
         Apart(map), \A x \in DOMAIN map : Finish(map, x) <= base
  PROVE  /\ Apart(r) /\ \A x \in DOMAIN r : Finish(r, x) <= base + End(im)
         /\ \A x \in DOMAIN r : \/ x \in DOMAIN map /\ Extent(r, x) = Extent(map, x)
                                \/ Extent(r, x) \subseteq ImagePages(im)
         /\ Listed(r) = Listed(map) \cup ImagePages(im)
         /\ \A q \in Listed(map) : q \in Nat /\ q < base
<1>1. /\ End(im) \in Nat
      /\ \A s \in Pieces(im) : s.off \in Nat /\ s.len \in Nat \ {0} /\ base <= s.off /\ s.off + s.len <= base + End(im)
      /\ \A s, t \in Pieces(im) : s # t => s.off + s.len <= t.off \/ t.off + t.len <= s.off
  BY Zenon, PiecesInOrder DEF Piece
<1>2. \A x \in DOMAIN map : /\ x \in Nat /\ map[x].size \in Nat /\ Finish(map, x) = x + map[x].size
                            /\ Finish(map, x) \in Nat /\ x < Finish(map, x) /\ Finish(map, x) <= base /\ x < base
  BY EntryType
<1>3. \A x \in DOMAIN map : x \in DOMAIN r /\ r[x] = map[x] /\ Finish(r, x) = Finish(map, x) /\ Extent(r, x) = Extent(map, x)
  BY <1>1, <1>2 DEF Loaded, Finish, Extent
<1>4. \A s \in Pieces(im) : s.off \in DOMAIN r /\ r[s.off].size = s.len
  <2> SUFFICES ASSUME NEW s \in Pieces(im) PROVE s.off \in DOMAIN r /\ r[s.off].size = s.len
    BY Zenon
  <2>1. s.off \in DOMAIN r /\ r[s.off] = Entry(s.len, s.prot)
    BY Zenon DEF Loaded
  <2> QED BY <2>1 DEF Entry
<1>5. \A s \in Pieces(im) : Finish(r, s.off) = s.off + s.len /\ Extent(r, s.off) = Pages(s.off, s.len)
  BY Zenon, <1>4 DEF Finish, Extent
<1>6. \A x \in DOMAIN r : x \in DOMAIN map \/ \E s \in Pieces(im) : x = s.off
  BY Zenon DEF Loaded
<1>7. Apart(r)
  <2> SUFFICES ASSUME NEW x \in DOMAIN r, NEW y \in DOMAIN r, x < y PROVE Finish(r, x) <= y
    BY Zenon DEF Apart
  <2>1. CASE x \in DOMAIN map /\ y \in DOMAIN map
    BY Zenon, <1>3, <2>1 DEF Apart
  <2>2. CASE x \in DOMAIN map /\ y \notin DOMAIN map
    <3>1. PICK t \in Pieces(im) : y = t.off
      BY Zenon, <1>6, <2>2
    <3> QED BY <1>1, <1>2, <1>3, <2>2, <3>1
  <2>3. CASE x \notin DOMAIN map
    <3>1. PICK s \in Pieces(im) : x = s.off
      BY Zenon, <1>6, <2>3
    <3>2. y \notin DOMAIN map
      BY <1>1, <1>2, <3>1
    <3>3. PICK t \in Pieces(im) : y = t.off
      BY Zenon, <1>6, <3>2
    <3>4. s.off \in Nat /\ t.off \in Nat /\ t.len \in Nat /\ s.off < t.off /\ Finish(r, x) = s.off + s.len
      BY Zenon, <1>1, <1>5, <3>1, <3>3
    <3>5. s.off + s.len <= t.off \/ t.off + t.len <= s.off
      BY SMTT(30), <1>1, <3>4
    <3> QED BY <3>3, <3>4, <3>5
  <2> QED BY Zenon, <2>1, <2>2, <2>3
<1>8. \A x \in DOMAIN r : Finish(r, x) <= base + End(im)
  BY <1>1, <1>2, <1>3, <1>5, <1>6
<1>9. \A s \in Pieces(im) : Pages(s.off, s.len) \subseteq ImagePages(im)
  BY Zenon DEF ImagePages
<1>10. \A x \in DOMAIN r : \/ x \in DOMAIN map /\ Extent(r, x) = Extent(map, x)
                           \/ Extent(r, x) \subseteq ImagePages(im)
  BY <1>3, <1>5, <1>6, <1>9
<1>11. Listed(r) = Listed(map) \cup ImagePages(im)
  <2>1. ASSUME NEW q \in Listed(r) PROVE q \in Listed(map) \cup ImagePages(im)
    <3>1. PICK x \in DOMAIN r : q \in Extent(r, x)
      BY Zenon DEF Listed
    <3> QED BY Zenon, <1>10, <3>1 DEF Listed
  <2>2. ASSUME NEW q \in Listed(map) PROVE q \in Listed(r)
    <3>1. PICK x \in DOMAIN map : q \in Extent(map, x)
      BY Zenon DEF Listed
    <3> QED BY Zenon, <1>3, <3>1 DEF Listed
  <2>3. ASSUME NEW q \in ImagePages(im) PROVE q \in Listed(r)
    <3>1. PICK s \in Pieces(im) : q \in Pages(s.off, s.len)
      BY Zenon DEF ImagePages
    <3> QED BY Zenon, <1>4, <1>5, <3>1 DEF Listed
  <2> QED BY Zenon, <2>1, <2>2, <2>3
<1>12. ASSUME NEW q \in Listed(map) PROVE q \in Nat /\ q < base
  <2>1. PICK x \in DOMAIN map : q \in Pages(x, map[x].size)
    BY Zenon, ListedIff
  <2> QED BY <1>2, <2>1, PagesIff
<1> QED BY Zenon, <1>7, <1>8, <1>10, <1>11, <1>12
\* Loading an image keeps the invariant.
LEMMA LoadStep ==
  ASSUME MapInv, UNCHANGED discipline, NEW im \in Images, Load(im)
  PROVE  MapInv'
<1>1. TypeInv /\ CutInv /\ AnswerInv /\ OwnInv
  BY Zenon DEF MapInv
<1>2. MapType(map) /\ base \in Nat /\ End(im) \in Nat
  BY <1>1, MemoryAssumption, PiecesInOrder DEF TypeInv
<1>3. PICK all : all = ImagePages(im)
  BY Zenon
<1>4. /\ base' = base + End(im) /\ base + End(im) <= Top /\ ~panicked
      /\ temp' = temp /\ brk' = brk /\ heap' = heap /\ answer' = answer /\ leaked' = leaked /\ stale' = stale
      /\ \/ all \cap mapped # {} /\ panicked' = TRUE /\ mapped' = mapped /\ map' = map /\ image' = image
         \/ /\ all \cap mapped = {} /\ panicked' = panicked
            /\ mapped' = mapped \cup all /\ image' = image \cup all /\ Loaded(map', im)
  BY Zenon, <1>2, <1>3, LoadCases
<1>5. \A q \in all : q \in Nat /\ base <= q /\ q < Top
  BY Zenon, <1>2, <1>3, <1>4, ImageAbove
<1>6. TypeInv'
  <2>1. MapType(map')
    BY Zenon, <1>2, <1>4, LoadedEntries
  <2>2. base' \in 0 .. Top
    BY <1>2, <1>4, MemoryAssumption
  <2>3. all \subseteq 0 .. Top - 1
    BY <1>5, MemoryAssumption
  <2>4. mapped' \subseteq 0 .. Top - 1 /\ image' \subseteq 0 .. Top - 1
    BY Zenon, <1>1, <1>4, <2>3 DEF TypeInv
  <2>5. panicked' \in BOOLEAN
    BY Zenon, <1>1, <1>4 DEF TypeInv
  <2> QED BY Zenon, <1>1, <1>4, <2>1, <2>2, <2>4, <2>5 DEF TypeInv
<1>7. ASSUME discipline # "none"
      PROVE  /\ Apart(map) /\ (\A x \in DOMAIN map : Finish(map, x) <= base)
             /\ \A q \in Listed(map) : q \in Nat /\ q < base
  <2>1. Apart(map) /\ \A x \in DOMAIN map : Finish(map, x) <= base
    BY Zenon, <1>1, <1>7 DEF CutInv
  <2>2. ASSUME NEW q \in Listed(map) PROVE q \in Nat /\ q < base
    <3>1. PICK x \in DOMAIN map : q \in Pages(x, map[x].size)
      BY Zenon, <2>2, ListedIff
    <3>2. q \in Nat /\ q < Finish(map, x) /\ Finish(map, x) \in Nat
      BY <1>2, <3>1, EntryType, PagesIff
    <3> QED BY <1>2, <2>1, <3>2
  <2> QED BY Zenon, <2>1, <2>2
<1>8. ASSUME discipline # "none", all \cap mapped = {}
      PROVE  /\ Apart(map') /\ \A x \in DOMAIN map' : Finish(map', x) <= base'
             /\ \A x \in DOMAIN map' : \/ x \in DOMAIN map /\ Extent(map', x) = Extent(map, x)
                                       \/ Extent(map', x) \subseteq all
             /\ Listed(map') = Listed(map) \cup all
  <2>1. Loaded(map', im)
    BY Zenon, <1>4, <1>8
  <2> QED BY Zenon, <1>2, <1>3, <1>4, <1>7, <1>8, <2>1, LoadedApart
<1>9. CutInv'
  <2> SUFFICES ASSUME discipline # "none" PROVE CutInv'
    BY Zenon DEF CutInv
  <2>1. CASE all \cap mapped # {}
    <3>1. map' = map /\ mapped' = mapped /\ image' = image /\ leaked' = leaked
      BY Zenon, <1>4, <2>1
    <3>2. \A x \in DOMAIN map' : Finish(map', x) <= base'
      BY <1>2, <1>4, <1>7, <3>1, EntryType
    <3> QED BY Zenon, <1>1, <3>1, <3>2 DEF CutInv
  <2>2. CASE all \cap mapped = {}
    <3>1. mapped' = mapped \cup all /\ image' = image \cup all /\ leaked' = leaked
      BY Zenon, <1>4, <2>2
    <3>2. all \cap Listed(map) = {}
      BY <1>2, <1>5, <1>7
    <3>3. ASSUME NEW x \in DOMAIN map' PROVE Extent(map', x) \subseteq image' \/ Extent(map', x) \cap image' = {}
      <4>1. CASE Extent(map', x) \subseteq all
        BY Zenon, <3>1, <4>1
      <4>2. CASE x \in DOMAIN map /\ Extent(map', x) = Extent(map, x)
        <5>1. Extent(map, x) \subseteq image \/ Extent(map, x) \cap image = {}
          BY Zenon, <1>1, <4>2 DEF CutInv
        <5>2. Extent(map, x) \subseteq Listed(map)
          BY Zenon, <4>2 DEF Listed
        <5> QED BY Zenon, <3>1, <3>2, <4>2, <5>1, <5>2
      <4> QED BY Zenon, <1>8, <2>2, <4>1, <4>2
    <3>4. image' \subseteq Listed(map') /\ mapped' \subseteq Listed(map') \cup leaked'
      BY Zenon, <1>1, <1>8, <2>2, <3>1 DEF CutInv
    <3> QED BY Zenon, <1>8, <2>2, <3>3, <3>4 DEF CutInv
  <2> QED BY Zenon, <2>1, <2>2
<1>10. AnswerInv'
  BY Zenon, <1>1, <1>4 DEF AnswerInv
<1>11. OwnInv'
  <2> SUFFICES ASSUME discipline = "own" PROVE OwnInv'
    BY Zenon DEF OwnInv
  <2>1. /\ Listed(map) = (mapped \ leaked) \cup stale
        /\ leaked \subseteq mapped /\ leaked \cap Listed(map) = {} /\ mapped \cap stale = {}
    BY Zenon, <1>1 DEF OwnInv
  <2>2. all \cap Listed(map) = {}
    BY <1>2, <1>5, <1>7
  <2>3. (brk % PageUnits = 0 /\ heap = 0 .. (brk \div PageUnits) - 1)'
    BY Zenon, <1>1, <1>4 DEF OwnInv
  <2>4. UnmapSucceeds'
    BY Zenon, <1>1, <1>4 DEF OwnInv, UnmapSucceeds
  <2>5. CASE all \cap mapped # {}
    <3>1. map' = map /\ mapped' = mapped
      BY Zenon, <1>4, <2>5
    <3>2. leaked # {}
      BY Zenon, <2>1, <2>2, <2>5
    <3>3. NoPanic'
      BY Zenon, <1>4, <3>2 DEF NoPanic
    <3> QED BY Zenon, <1>1, <1>4, <2>3, <2>4, <3>1, <3>3 DEF OwnInv
  <2>6. CASE all \cap mapped = {}
    <3>1. mapped' = mapped \cup all /\ panicked' = panicked /\ Listed(map') = Listed(map) \cup all
      BY Zenon, <1>4, <1>8, <2>6
    <3>2. /\ Listed(map') = (mapped' \ leaked') \cup stale'
          /\ leaked' \subseteq mapped' /\ leaked' \cap Listed(map') = {} /\ mapped' \cap stale' = {}
      BY Zenon, <1>4, <2>1, <2>2, <2>6, <3>1
    <3>3. \A t \in temp' : Pages(t[1], t[2]) \subseteq Listed(map')
      BY Zenon, <1>1, <1>4, <3>1 DEF OwnInv
    <3>4. NoPanic'
      BY Zenon, <1>4, <3>1 DEF NoPanic
    <3> QED BY Zenon, <2>3, <2>4, <3>2, <3>3, <3>4 DEF OwnInv
  <2> QED BY Zenon, <2>5, <2>6
<1> QED BY Zenon, <1>6, <1>9, <1>10, <1>11 DEF MapInv
-----------------------------------------------------------------------------
(* The theorems *)

\* The invariant holds at first: nothing is mapped.
LEMMA MapInits == Init => MapInv
<1> SUFFICES ASSUME Init PROVE MapInv
  BY Zenon
<1>1. DOMAIN map = {} /\ Listed(map) = {}
  BY Zenon DEF Init, Listed
<1>2. TypeInv
  <2>1. MapType(map)
    BY Zenon, <1>1 DEF MapType
  <2>2. base \in 0 .. Top /\ brk \in Nat
    BY MemoryAssumption DEF Init
  <2>3. panicked \in BOOLEAN
    BY Zenon DEF Init
  <2> QED BY Zenon, <2>1, <2>2, <2>3 DEF Init, TypeInv
<1>3. CutInv /\ AnswerInv
  BY Zenon, <1>1 DEF Init, CutInv, AnswerInv, Apart
<1>4. OwnInv
  <2>1. 0 % PageUnits = 0 /\ 0 \div PageUnits = 0
    BY MemoryAssumption
  <2>2. {} = 0 .. (0 \div PageUnits) - 1
    BY <2>1
  <2>3. UnmapSucceeds /\ NoPanic
    BY Zenon DEF Init, UnmapSucceeds, NoPanic
  <2> QED BY Zenon, <1>1, <2>1, <2>2, <2>3 DEF Init, OwnInv
<1> QED BY Zenon, <1>2, <1>3, <1>4 DEF MapInv

\* The invariant of the memory map, for every address space, every file, image
\* and length, and every sequence of calls.
THEOREM MapInvariance == Spec => []MapInv
<1>1. MapInv /\ [Next]_vars => MapInv'
  <2> SUFFICES ASSUME MapInv, [Next]_vars PROVE MapInv'
    BY Zenon
  <2>1. CASE UNCHANGED vars
    <3>1. /\ discipline' = discipline /\ mapped' = mapped /\ map' = map /\ base' = base /\ temp' = temp
          /\ image' = image /\ brk' = brk /\ heap' = heap /\ panicked' = panicked /\ answer' = answer
          /\ leaked' = leaked /\ stale' = stale
      BY Zenon, <2>1 DEF vars, heapVars, ghosts
    <3>2. TypeInv'
      BY Zenon, <3>1 DEF MapInv, TypeInv
    <3>3. CutInv' /\ AnswerInv'
      BY Zenon, <3>1 DEF MapInv, CutInv, AnswerInv
    <3>4. OwnInv'
      BY Zenon, <3>1 DEF MapInv, OwnInv, UnmapSucceeds, NoPanic
    <3> QED BY Zenon, <3>2, <3>3, <3>4 DEF MapInv
  <2>2. CASE Calls /\ UNCHANGED discipline
    BY Zenon, <2>2, MmapStep, MmapFileStep, MmapFileAtStep, MmapFixedStep, MunmapStep, ReleaseStep, LoadStep,
       BrkZeroStep, BrkStep DEF Calls
  <2> QED BY Zenon, <2>1, <2>2 DEF Next
<1> QED BY MapInits, <1>1, PTL DEF Spec

\* Every mapped page is in the memory map unless a call that failed half way
\* left it behind; and for a guest that unmaps and maps over parts of its own
\* mappings the map lists exactly what is mapped and the temporary memory that was
\* released, its calls of munmap succeed, and no expect or unwrap of the memory
\* code fails (mmap2, munmap, release_tmp_memory, load_library_file_internal, brk).
THEOREM MapAlwaysExact == Spec => []MapExact
<1>1. MapInv => MapExact
  <2> SUFFICES ASSUME MapInv PROVE MapExact
    BY Zenon
  <2>1. TypeInv /\ CutInv /\ OwnInv
    BY Zenon DEF MapInv
  <2>2. \A x \in DOMAIN map : /\ x \in Nat /\ map[x].size \in Nat \ {0} /\ map[x].prot \in Prots \cup {"none"}
                              /\ Finish(map, x) = x + map[x].size /\ Finish(map, x) <= Top
    BY Zenon, <2>1, EntryType DEF TypeInv
  <2>3. TypeOK
    <3>1. \A x \in DOMAIN map : x \in 0 .. Top - 1 /\ map[x].size \in 1 .. Top
      BY <2>2, MemoryAssumption
    <3> QED BY Zenon, <2>1, <2>2, <3>1 DEF TypeInv, TypeOK
  <2>4. discipline # "none" => Covered
    BY Zenon, <2>1 DEF CutInv, Covered
  <2>5. ASSUME discipline = "own" PROVE Exact /\ UnmapSucceeds /\ NoPanic
    <3>1. Apart(map)
      BY Zenon, <2>1, <2>5 DEF CutInv
    <3>2. ASSUME NEW x \in DOMAIN map, NEW y \in DOMAIN map, x # y PROVE Extent(map, x) \cap Extent(map, y) = {}
      <4>1. x < y \/ y < x
        BY <2>2, <3>2
      <4>2. Finish(map, x) <= y \/ Finish(map, y) <= x
        BY Zenon, <3>1, <4>1 DEF Apart
      <4> QED BY <2>2, <4>2 DEF Extent, Pages
    <3>3. leaked = {} => Listed(map) = mapped \cup stale /\ mapped \cap stale = {}
      BY Zenon, <2>1, <2>5 DEF OwnInv
    <3>4. Exact
      BY Zenon, <3>2, <3>3 DEF Exact
    <3> QED BY Zenon, <2>1, <2>5, <3>4 DEF OwnInv
  <2> QED BY Zenon, <2>3, <2>4, <2>5 DEF MapExact
<1> QED BY <1>1, MapInvariance, PTL

\* While no call has failed half way, the address that allocate_map_address
\* returns is free, and anonymous mmap does not fail, for every guest that chooses
\* no addresses, whatever it unmaps.
THEOREM AddressesFresh == Spec => []FreshAddress
<1>1. MapInv => FreshAddress
  <2> SUFFICES ASSUME MapInv, discipline # "none", leaked = {}
               PROVE  answer # <<"mmap", "EAGAIN">> /\ AllocateMapAddress \notin mapped
    BY Zenon DEF FreshAddress
  <2>1. TypeInv /\ CutInv /\ AnswerInv
    BY Zenon DEF MapInv
  <2>2. PICK a : a = AllocateMapAddress
    BY Zenon
  <2>3. a \in Nat /\ Behind(a)
    BY Zenon, <2>1, <2>2, AllocateType, AllocateBehind DEF CutInv, Behind
  <2>4. Listed(map) \cap Pages(a, 1) = {}
    BY Zenon, <2>1, <2>3, BehindFree DEF TypeInv
  <2>5. a \in Pages(a, 1)
    BY <2>3, PagesIff
  <2>6. mapped \subseteq Listed(map)
    BY Zenon, <2>1 DEF CutInv
  <2> QED BY Zenon, <2>1, <2>2, <2>4, <2>5, <2>6 DEF AnswerInv
<1> QED BY <1>1, MapInvariance, PTL

-----------------------------------------------------------------------------
(* Sequences and loops over data *)

\* A sequence with an element appended.
LEMMA AppendFacts ==
  ASSUME NEW S, NEW s \in Seq(S), NEW x \in S
  PROVE  /\ Append(s, x) \in Seq(S) /\ Len(Append(s, x)) = Len(s) + 1
         /\ Len(s) \in Nat /\ DOMAIN s = 1..Len(s)
         /\ DOMAIN Append(s, x) = 1..Len(s) + 1 /\ Append(s, x)[Len(s) + 1] = x
         /\ \A k \in 1..Len(s) : Append(s, x)[k] = s[k] /\ s[k] \in S
         /\ \A k \in 1..Len(s) + 1 : k \in 1..Len(s) \/ k = Len(s) + 1
OBVIOUS

\* Two sequences, one after the other.
LEMMA ConcatFacts ==
  ASSUME NEW S, NEW s \in Seq(S), NEW t \in Seq(S)
  PROVE  /\ s \o t \in Seq(S) /\ Len(s \o t) = Len(s) + Len(t)
         /\ Len(s) \in Nat /\ Len(t) \in Nat
         /\ DOMAIN s = 1..Len(s) /\ DOMAIN t = 1..Len(t) /\ DOMAIN (s \o t) = 1..Len(s) + Len(t)
         /\ \A k \in 1..Len(s) : (s \o t)[k] = s[k]
         /\ \A k \in 1..Len(t) : (s \o t)[Len(s) + k] = t[k]
OBVIOUS

\* The elements of a sequence.
LEMMA Element ==
  ASSUME NEW S, NEW s \in Seq(S), NEW i \in 1..Len(s)
  PROVE  s[i] \in S
OBVIOUS

\* A part of a sequence.
LEMMA SubSeqFacts ==
  ASSUME NEW S, NEW s \in Seq(S), NEW m \in Nat, NEW n \in Nat, m + n <= Len(s)
  PROVE  /\ SubSeq(s, m + 1, m + n) \in Seq(S) /\ Len(SubSeq(s, m + 1, m + n)) = n
         /\ \A i \in 1..n : SubSeq(s, m + 1, m + n)[i] = s[m + i]
<1>1. \A i \in 1..n : m + i \in 1..Len(s)
  OBVIOUS
<1>2. SubSeq(s, m + 1, m + n) \in Seq(S) /\ Len(SubSeq(s, m + 1, m + n)) = n
  OBVIOUS
<1> QED BY <1>1, <1>2

\* A loop that carries a value of D through n rounds, from d: what each round does,
\* and the values it goes through.
RoundsOf(F, n, D) == F \in [1..n -> [D -> D]]
Passes(g, F, n, D, d) == g \in [0..n -> D] /\ g[0] = d /\ \A i \in 1..n : g[i] = F[i][g[i - 1]]

\* There are such values.
LEMMA RoundsDefined ==
  ASSUME NEW D, NEW d \in D, NEW n \in Nat, NEW F, RoundsOf(F, n, D)
  PROVE  \E g : Passes(g, F, n, D, d)
<1> USE DEF RoundsOf
<1> DEFINE Run(m) == \E g \in [0..m -> D] : \A i \in 0..m : g[i] = IF i = 0 THEN d ELSE F[i][g[i - 1]]
           Bad == {m \in 0..n : ~ Run(m)}
<1>1. Bad = {}
  <2> SUFFICES ASSUME Bad # {} PROVE FALSE
    BY Zenon
  <2>1. \E m \in Bad : \A k \in Bad : m <= k
    <3>1. Bad \in SUBSET Nat
      <4>1. \A m \in 0..n : m \in Nat
        OBVIOUS
      <4> QED BY Zenon, <4>1
    <3> HIDE DEF Bad
    <3> QED BY Zenon, <3>1, LeastAddress
  <2>2. PICK m \in 0..n : (\A k \in Bad : m <= k) /\ ~ Run(m)
    BY Zenon, <2>1
  <2>3. CASE m = 0
    <3> DEFINE g == [i \in 0..0 |-> d]
    <3>1. \A i \in 0..0 : i = 0
      OBVIOUS
    <3>2. g \in [0..0 -> D] /\ \A i \in 0..0 : g[i] = d
      BY Zenon
    <3> HIDE DEF g
    <3>3. Run(0)
      BY Zenon, <3>1, <3>2
    <3> QED BY Zenon, <2>2, <2>3, <3>3
  <2>4. CASE m # 0
    <3>1. m - 1 \in 0..n /\ ~ (m <= m - 1) /\ m \in 1..n
      BY <2>4
    <3>2. PICK g \in [0..m - 1 -> D] : \A i \in 0..m - 1 : g[i] = IF i = 0 THEN d ELSE F[i][g[i - 1]]
      BY Zenon, <2>2, <3>1
    <3> DEFINE h == [i \in 0..m |-> IF i = m THEN F[m][g[m - 1]] ELSE g[i]]
    <3>3. \A i \in 0..m : i # m => i \in 0..m - 1 /\ i \in 0..m /\ (i # 0 => i - 1 \in 0..m - 1 /\ i - 1 \in 0..m /\ i - 1 # m)
      OBVIOUS
    <3>4. m \in 0..m /\ m - 1 \in 0..m - 1 /\ m - 1 \in 0..m /\ m - 1 # m
      BY <2>4
    <3>5. h \in [0..m -> D]
      BY Zenon, <3>1, <3>2, <3>3, <3>4
    <3>6. \A i \in 0..m : h[i] = IF i = 0 THEN d ELSE F[i][h[i - 1]]
      <4> SUFFICES ASSUME NEW i \in 0..m
                   PROVE  h[i] = IF i = 0 THEN d ELSE F[i][h[i - 1]]
        BY Zenon
      <4>1. CASE i = m
        BY Zenon, <2>4, <3>4, <4>1
      <4>2. CASE i # m
        <5>1. h[i] = g[i] /\ (i # 0 => h[i - 1] = g[i - 1])
          BY Zenon, <3>3, <4>2
        <5> HIDE DEF h
        <5> QED BY Zenon, <3>2, <3>3, <4>2, <5>1
      <4> QED BY Zenon, <4>1, <4>2
    <3> HIDE DEF h
    <3>7. Run(m)
      BY Zenon, <3>5, <3>6
    <3> QED BY Zenon, <2>2, <3>7
  <2> QED BY Zenon, <2>3, <2>4
<1>2. Run(n)
  <2>1. n \in 0..n
    OBVIOUS
  <2> QED BY Zenon, <1>1, <2>1
<1>3. PICK g \in [0..n -> D] : \A i \in 0..n : g[i] = IF i = 0 THEN d ELSE F[i][g[i - 1]]
  BY Zenon, <1>2
<1>4. 0 \in 0..n /\ \A i \in 1..n : i \in 0..n /\ i # 0
  OBVIOUS
<1> QED BY Zenon, <1>3, <1>4 DEF Passes

\* What holds before the first round and after each round that it holds before.
LEMMA RoundByRound ==
  ASSUME NEW n \in Nat, NEW S, 0 \in S, \A i \in 1..n : i - 1 \in S => i \in S
  PROVE  \A i \in 0..n : i \in S
<1> DEFINE Bad == {i \in 0..n : i \notin S}
<1> SUFFICES ASSUME Bad # {} PROVE FALSE
  BY Zenon
<1>1. \E m \in Bad : \A k \in Bad : m <= k
  <2>1. Bad \in SUBSET Nat
    <3>1. \A m \in 0..n : m \in Nat
      OBVIOUS
    <3> QED BY Zenon, <3>1
  <2> HIDE DEF Bad
  <2> QED BY Zenon, <2>1, LeastAddress
<1>2. PICK m \in 0..n : (\A k \in Bad : m <= k) /\ m \notin S
  BY Zenon, <1>1
<1>3. m # 0
  BY Zenon, <1>2
<1>4. m \in 1..n /\ m - 1 \in 0..n /\ ~ (m <= m - 1)
  BY <1>3
<1> QED BY Zenon, <1>2, <1>4

-----------------------------------------------------------------------------
(* ProcessVm *)

Iovs == [base : Nat, len : Nat]

\* A range that gather_iovs and scatter_iovs may be given.
Usable(r) == r \in Iovs /\ r.base # 0 /\ r.len # 0 /\ r.len <= MaxLen

\* A range with its length capped, and the addresses of a range.
LEMMA RangeFacts ==
  ASSUME NEW r \in Iovs
  PROVE  /\ Capped(r) \in Iovs /\ Capped(r).base = r.base /\ Capped(r).len <= MaxLen
         /\ RangeOf(r) \in Seq(Nat)
         /\ RangeOf(Capped(r)) = RangeOf(r)
         /\ r.base = 0 \/ Capped(r).len = 0 => RangeOf(r) = <<>>
<1>1. /\ Capped(r) \in Iovs /\ Capped(r).base = r.base /\ Capped(r).len <= MaxLen
      /\ Capped(Capped(r)) = Capped(r)
  BY VmAssumption DEF Capped, Iovs
<1>2. \A l \in Nat, b \in Nat : b # 0 => [k \in 1..l |-> b + k - 1] \in Seq(Nat)
  OBVIOUS
<1>3. r.base \in Nat /\ Capped(r).len \in Nat
  BY <1>1 DEF Iovs
<1>4. RangeOf(r) \in Seq(Nat)
  BY <1>2, <1>3 DEF RangeOf
<1>5. RangeOf(Capped(r)) = RangeOf(r)
  BY Zenon, <1>1 DEF RangeOf
<1>6. \A b : [k \in 1..0 |-> b + k - 1] = <<>>
  OBVIOUS
<1>7. r.base = 0 \/ Capped(r).len = 0 => RangeOf(r) = <<>>
  BY Zenon, <1>6 DEF RangeOf
<1> QED BY Zenon, <1>1, <1>4, <1>5, <1>7

\* The addresses of a range that may be used.
LEMMA UsableFacts ==
  ASSUME NEW r, Usable(r)
  PROVE  /\ r.base \in Nat /\ r.len \in Nat
         /\ RangeOf(r) \in Seq(Nat) /\ Len(RangeOf(r)) = r.len
         /\ \A k \in 1..r.len : RangeOf(r)[k] = r.base + k - 1
<1>1. r.base \in Nat /\ r.len \in Nat /\ r.base # 0 /\ Capped(r).len = r.len
  BY VmAssumption DEF Usable, Iovs, Capped
<1>2. RangeOf(r) = [k \in 1..r.len |-> r.base + k - 1]
  BY Zenon, <1>1 DEF RangeOf
<1>3. \A l \in Nat, b \in Nat : b # 0 =>
        /\ [k \in 1..l |-> b + k - 1] \in Seq(Nat)
        /\ Len([k \in 1..l |-> b + k - 1]) = l
  OBVIOUS
<1>4. \A k \in 1..r.len : RangeOf(r)[k] = r.base + k - 1
  BY Zenon, <1>2
<1> QED BY Zenon, <1>1, <1>2, <1>3, <1>4

\* The rounds of read_guest_iovs.
KeptRounds(g, v) ==
  /\ g \in [0..Len(v) -> Seq(Iovs)] /\ g[0] = <<>>
  /\ \A i \in 1..Len(v) : g[i] = Pushed(g[i - 1], Capped(v[i]))

\* The rounds in which the addresses of a list are put together.
AddressRounds(g, v) ==
  /\ g \in [0..Len(v) -> Seq(Nat)] /\ g[0] = <<>>
  /\ \A i \in 1..Len(v) : g[i] = g[i - 1] \o RangeOf(v[i])

\* The indices of a loop over a list.
LEMMA RoundIndices ==
  ASSUME NEW n \in Nat
  PROVE  /\ 0 \in 0..n /\ n \in 0..n
         /\ \A i \in 0..n : i # 0 => i \in 1..n
         /\ \A i \in 1..n : i \in 0..n /\ i # 0 /\ i - 1 \in 0..n
OBVIOUS

\* The empty sequence.
LEMMA NoElements == ASSUME NEW S PROVE <<>> \in Seq(S) /\ Len(<<>>) = 0
OBVIOUS

\* read_guest_iovs is the last of its rounds.
LEMMA KeptLoop ==
  ASSUME NEW v \in Seq(Iovs)
  PROVE  \E g : KeptRounds(g, v) /\ read_guest_iovs(v) = g[Len(v)]
<1> DEFINE n == Len(v)
           D == Seq(Iovs)
           F == [i \in 1..n |-> [x \in D |-> Pushed(x, Capped(v[i]))]]
           IsRun(g) == g = [i \in 0..n |-> IF i = 0 THEN <<>> ELSE Pushed(g[i - 1], Capped(v[i]))]
           w == CHOOSE g : IsRun(g)
<1>1. n \in Nat
  OBVIOUS
<1>2. \A i \in 1..n : v[i] \in Iovs
  BY Zenon, Element
<1>3. <<>> \in D
  BY Zenon, NoElements
<1>4. \A i \in 1..n, x \in D : Pushed(x, Capped(v[i])) \in D
  BY Zenon, <1>2, RangeFacts, AppendFacts DEF Pushed
<1> HIDE DEF D
<1>5. RoundsOf(F, n, D)
  BY Zenon, <1>4 DEF RoundsOf
<1>6. \A i \in 1..n, x \in D : F[i][x] = Pushed(x, Capped(v[i]))
  BY Zenon
<1> HIDE DEF F, n
<1>7. PICK h \in [0..n -> D] : h[0] = <<>> /\ \A i \in 1..n : h[i] = F[i][h[i - 1]]
  <2>1. \E h : Passes(h, F, n, D, <<>>)
    BY Zenon, <1>1, <1>3, <1>5, RoundsDefined
  <2> QED BY Zenon, <2>1 DEF Passes
<1>8. IsRun(h)
  <2>1. \A i \in 1..n : h[i] = Pushed(h[i - 1], Capped(v[i]))
    BY Zenon, <1>1, <1>6, <1>7, RoundIndices
  <2>2. h = [i \in 0..n |-> h[i]]
    BY Zenon
  <2> QED BY Zenon, <1>1, <1>7, <2>1, <2>2, RoundIndices
<1>9. IsRun(w)
  BY Zenon, <1>8
<1>10. read_guest_iovs(v) = w[n]
  BY Zenon DEF read_guest_iovs, n
<1> HIDE DEF w
<1>11. w[0] = <<>> /\ \A i \in 1..n : w[i] = Pushed(w[i - 1], Capped(v[i]))
  BY Zenon, <1>1, <1>9, RoundIndices
<1>12. \A i \in 0..n : w[i] \in D
  <2> DEFINE S == {i \in 0..n : w[i] \in D}
  <2>1. 0 \in S
    BY Zenon, <1>1, <1>3, <1>11, RoundIndices
  <2>2. \A i \in 1..n : i - 1 \in S => i \in S
    BY Zenon, <1>1, <1>4, <1>11, RoundIndices
  <2>3. \A i \in 0..n : i \in S
    <3> HIDE DEF S
    <3> QED BY Zenon, <1>1, <2>1, <2>2, RoundByRound
  <2> QED BY Zenon, <2>3
<1>13. w \in [0..n -> D]
  <2>1. w = [i \in 0..n |-> w[i]]
    BY Zenon, <1>9
  <2> QED BY Zenon, <1>12, <2>1
<1> QED BY Zenon, <1>10, <1>11, <1>13 DEF KeptRounds, n, D

\* AddressesOf is the last of its rounds.
LEMMA AddressLoop ==
  ASSUME NEW v \in Seq(Iovs)
  PROVE  \E g : AddressRounds(g, v) /\ AddressesOf(v) = g[Len(v)]
<1> DEFINE n == Len(v)
           D == Seq(Nat)
           F == [i \in 1..n |-> [x \in D |-> x \o RangeOf(v[i])]]
           IsRun(g) == g = [i \in 0..n |-> IF i = 0 THEN <<>> ELSE g[i - 1] \o RangeOf(v[i])]
           w == CHOOSE g : IsRun(g)
<1>1. n \in Nat
  OBVIOUS
<1>2. \A i \in 1..n : v[i] \in Iovs
  BY Zenon, Element
<1>3. <<>> \in D
  BY Zenon, NoElements
<1>4. \A i \in 1..n, x \in D : x \o RangeOf(v[i]) \in D
  BY Zenon, <1>2, RangeFacts, ConcatFacts
<1> HIDE DEF D
<1>5. RoundsOf(F, n, D)
  BY Zenon, <1>4 DEF RoundsOf
<1>6. \A i \in 1..n, x \in D : F[i][x] = x \o RangeOf(v[i])
  BY Zenon
<1> HIDE DEF F, n
<1>7. PICK h \in [0..n -> D] : h[0] = <<>> /\ \A i \in 1..n : h[i] = F[i][h[i - 1]]
  <2>1. \E h : Passes(h, F, n, D, <<>>)
    BY Zenon, <1>1, <1>3, <1>5, RoundsDefined
  <2> QED BY Zenon, <2>1 DEF Passes
<1>8. IsRun(h)
  <2>1. \A i \in 1..n : h[i] = h[i - 1] \o RangeOf(v[i])
    BY Zenon, <1>1, <1>6, <1>7, RoundIndices
  <2>2. h = [i \in 0..n |-> h[i]]
    BY Zenon
  <2> QED BY Zenon, <1>1, <1>7, <2>1, <2>2, RoundIndices
<1>9. IsRun(w)
  BY Zenon, <1>8
<1>10. AddressesOf(v) = w[n]
  BY Zenon DEF AddressesOf, n
<1> HIDE DEF w
<1>11. w[0] = <<>> /\ \A i \in 1..n : w[i] = w[i - 1] \o RangeOf(v[i])
  BY Zenon, <1>1, <1>9, RoundIndices
<1>12. \A i \in 0..n : w[i] \in D
  <2> DEFINE S == {i \in 0..n : w[i] \in D}
  <2>1. 0 \in S
    BY Zenon, <1>1, <1>3, <1>11, RoundIndices
  <2>2. \A i \in 1..n : i - 1 \in S => i \in S
    BY Zenon, <1>1, <1>4, <1>11, RoundIndices
  <2>3. \A i \in 0..n : i \in S
    <3> HIDE DEF S
    <3> QED BY Zenon, <1>1, <2>1, <2>2, RoundByRound
  <2> QED BY Zenon, <2>3
<1>13. w \in [0..n -> D]
  <2>1. w = [i \in 0..n |-> w[i]]
    BY Zenon, <1>9
  <2> QED BY Zenon, <1>12, <2>1
<1> QED BY Zenon, <1>10, <1>11, <1>13 DEF AddressRounds, n, D

\* The addresses of no ranges, and of one range more.
LEMMA AddressesGrow ==
  /\ AddressesOf(<<>>) = <<>>
  /\ \A v \in Seq(Iovs), r \in Iovs : AddressesOf(Append(v, r)) = AddressesOf(v) \o RangeOf(r)
<1>1. AddressesOf(<<>>) = <<>>
  <2>1. <<>> \in Seq(Iovs) /\ Len(<<>>) = 0
    BY Zenon, NoElements
  <2>2. PICK g : AddressRounds(g, <<>>) /\ AddressesOf(<<>>) = g[Len(<<>>)]
    BY Zenon, <2>1, AddressLoop
  <2> QED BY Zenon, <2>1, <2>2 DEF AddressRounds
<1>2. ASSUME NEW v \in Seq(Iovs), NEW r \in Iovs
      PROVE  AddressesOf(Append(v, r)) = AddressesOf(v) \o RangeOf(r)
  <2> DEFINE n == Len(v)
             u == Append(v, r)
  <2>1. /\ u \in Seq(Iovs) /\ Len(u) = n + 1 /\ n \in Nat
        /\ u[n + 1] = r /\ \A k \in 1..n : u[k] = v[k]
    BY AppendFacts
  <2> HIDE DEF u
  <2>2. PICK g : AddressRounds(g, v) /\ AddressesOf(v) = g[n]
    BY Zenon, AddressLoop
  <2>3. PICK h : AddressRounds(h, u) /\ AddressesOf(u) = h[Len(u)]
    BY Zenon, <2>1, AddressLoop
  <2> HIDE DEF n
  <2>4. g[0] = <<>> /\ \A i \in 1..n : g[i] = g[i - 1] \o RangeOf(v[i])
    BY Zenon, <2>2 DEF AddressRounds, n
  <2>5. h[0] = <<>> /\ \A i \in 1..n + 1 : h[i] = h[i - 1] \o RangeOf(u[i])
    BY Zenon, <2>1, <2>3 DEF AddressRounds
  <2>6. \A i \in 1..n : i \in 1..n + 1
    BY <2>1
  <2>7. \A i \in 0..n : h[i] = g[i]
    <3> DEFINE S == {i \in 0..n : h[i] = g[i]}
    <3>1. 0 \in S
      BY Zenon, <2>1, <2>4, <2>5, RoundIndices
    <3>2. \A i \in 1..n : i - 1 \in S => i \in S
      BY Zenon, <2>1, <2>4, <2>5, <2>6, RoundIndices
    <3>3. \A i \in 0..n : i \in S
      <4> HIDE DEF S
      <4> QED BY Zenon, <2>1, <3>1, <3>2, RoundByRound
    <3> QED BY Zenon, <3>3
  <2>8. n + 1 \in 1..n + 1 /\ (n + 1) - 1 = n /\ n \in 0..n
    BY <2>1
  <2> QED BY Zenon, <2>1, <2>2, <2>3, <2>5, <2>7, <2>8 DEF u
<1> QED BY Zenon, <1>1, <1>2

\* Nothing is added by no ranges.
LEMMA ConcatNothing ==
  ASSUME NEW S, NEW s \in Seq(S)
  PROVE  s \o <<>> = s
OBVIOUS

\* What read_guest_iovs keeps may be used, and stands for the same addresses.
LEMMA KeptFacts ==
  ASSUME NEW v \in Seq(Iovs)
  PROVE  /\ read_guest_iovs(v) \in Seq(Iovs)
         /\ \A k \in 1..Len(read_guest_iovs(v)) : Usable(read_guest_iovs(v)[k])
         /\ AddressesOf(read_guest_iovs(v)) = AddressesOf(v)
         /\ AddressesOf(v) \in Seq(Nat)
<1> DEFINE n == Len(v)
<1>1. n \in Nat
  OBVIOUS
<1>2. \A i \in 1..n : v[i] \in Iovs
  BY Zenon, Element
<1>3. PICK g : KeptRounds(g, v) /\ read_guest_iovs(v) = g[n]
  BY Zenon, KeptLoop
<1>4. PICK h : AddressRounds(h, v) /\ AddressesOf(v) = h[n]
  BY Zenon, AddressLoop
<1> HIDE DEF n
<1>5. g[0] = <<>> /\ (\A i \in 0..n : g[i] \in Seq(Iovs)) /\ \A i \in 1..n : g[i] = Pushed(g[i - 1], Capped(v[i]))
  BY Zenon, <1>3 DEF KeptRounds, n
<1>6. h[0] = <<>> /\ (\A i \in 0..n : h[i] \in Seq(Nat)) /\ \A i \in 1..n : h[i] = h[i - 1] \o RangeOf(v[i])
  BY Zenon, <1>4 DEF AddressRounds, n
<1> DEFINE AllUsable(s) == \A k \in 1..Len(s) : Usable(s[k])
           S == {i \in 0..n : AllUsable(g[i]) /\ AddressesOf(g[i]) = h[i]}
<1>7. 0 \in S
  <2>1. AllUsable(<<>>)
    OBVIOUS
  <2> HIDE DEF AllUsable
  <2> QED BY Zenon, <1>1, <1>5, <1>6, <2>1, RoundIndices, AddressesGrow
<1>8. ASSUME NEW i \in 1..n, i - 1 \in S PROVE i \in S
  <2> DEFINE s == g[i - 1]
             r == Capped(v[i])
  <2>1. i \in 0..n /\ i - 1 \in 0..n
    BY Zenon, <1>1, RoundIndices
  <2>2. s \in Seq(Iovs) /\ AllUsable(s) /\ AddressesOf(s) = h[i - 1] /\ h[i - 1] \in Seq(Nat)
    BY Zenon, <1>5, <1>6, <1>8, <2>1
  <2>3. /\ r \in Iovs /\ r.len <= MaxLen /\ RangeOf(r) = RangeOf(v[i])
    BY Zenon, <1>2, RangeFacts
  <2>4. g[i] = Pushed(s, r) /\ h[i] = h[i - 1] \o RangeOf(r)
    BY Zenon, <1>5, <1>6, <2>3
  <2> HIDE DEF S, AllUsable
  <2>5. CASE r.base # 0 /\ r.len > 0
    <3>1. g[i] = Append(s, r)
      BY Zenon, <2>4, <2>5 DEF Pushed
    <3>2. AddressesOf(g[i]) = h[i]
      <4> HIDE DEF s, r
      <4> QED BY Zenon, <2>2, <2>3, <2>4, <3>1, AddressesGrow
    <3>3. AllUsable(g[i])
      <4>1. r.len # 0
        BY <2>3, <2>5 DEF Iovs
      <4>2. Usable(r)
        BY Zenon, <2>3, <2>5, <4>1 DEF Usable
      <4> HIDE DEF s, r
      <4>3. Len(g[i]) = Len(s) + 1 /\ g[i][Len(s) + 1] = r /\ (\A k \in 1..Len(s) : g[i][k] = s[k])
            /\ \A k \in 1..Len(s) + 1 : k \in 1..Len(s) \/ k = Len(s) + 1
        <5>1. s \in Seq(Iovs) /\ r \in Iovs
          BY Zenon, <2>2, <2>3
        <5> QED BY <3>1, <5>1, AppendFacts
      <4> QED BY Zenon, <2>2, <4>2, <4>3 DEF AllUsable
    <3> QED BY Zenon, <2>1, <3>2, <3>3 DEF S
  <2>6. CASE ~ (r.base # 0 /\ r.len > 0)
    <3>1. g[i] = s
      BY Zenon, <2>4, <2>6 DEF Pushed
    <3>2. r.base = 0 \/ r.len = 0
      BY <2>3, <2>6 DEF Iovs
    <3>3. RangeOf(r) = <<>>
      <4>1. Capped(v[i]).base = v[i].base
        BY Zenon, <1>2, RangeFacts
      <4>2. v[i].base = 0 \/ Capped(v[i]).len = 0 => RangeOf(v[i]) = <<>>
        BY Zenon, <1>2, RangeFacts
      <4> QED BY Zenon, <2>3, <3>2, <4>1, <4>2
    <3>4. h[i] = h[i - 1]
      BY Zenon, <2>2, <2>4, <3>3, ConcatNothing
    <3> QED BY Zenon, <2>1, <2>2, <3>1, <3>4 DEF S
  <2> QED BY Zenon, <2>5, <2>6
<1>9. \A i \in 0..n : i \in S
  <2> HIDE DEF S
  <2> QED BY Zenon, <1>1, <1>7, <1>8, RoundByRound
<1>10. n \in 0..n
  BY <1>1
<1> QED BY Zenon, <1>3, <1>4, <1>5, <1>6, <1>9, <1>10

\* Where the addresses of each range are in the list of all of them.
Places(p, v) ==
  /\ p \in [0..Len(v) -> Nat] /\ p[0] = 0 /\ p[Len(v)] = Len(AddressesOf(v))
  /\ \A i \in 1..Len(v) :
       /\ p[i] = p[i - 1] + v[i].len /\ p[i] <= Len(AddressesOf(v))
       /\ \A k \in 1..v[i].len : AddressesOf(v)[p[i - 1] + k] = v[i].base + k - 1

\* There are such places when all ranges may be used.
LEMMA PlacesExist ==
  ASSUME NEW v \in Seq(Iovs), \A k \in 1..Len(v) : Usable(v[k])
  PROVE  \E p : Places(p, v)
<1> DEFINE n == Len(v)
<1>1. n \in Nat
  OBVIOUS
<1>2. PICK h : AddressRounds(h, v) /\ AddressesOf(v) = h[n]
  BY Zenon, AddressLoop
<1>3. h[0] = <<>> /\ (\A i \in 0..n : h[i] \in Seq(Nat)) /\ \A i \in 1..n : h[i] = h[i - 1] \o RangeOf(v[i])
  BY Zenon, <1>2 DEF AddressRounds
<1> DEFINE p == [i \in 0..n |-> Len(h[i])]
<1>4. \A i \in 0..n : p[i] = Len(h[i]) /\ p[i] \in Nat
  <2>1. \A s \in Seq(Nat) : Len(s) \in Nat
    OBVIOUS
  <2> QED BY Zenon, <1>3, <2>1
<1>5. p \in [0..n -> Nat]
  BY Zenon, <1>4
<1> HIDE DEF p, n
<1>6. ASSUME NEW i \in 1..n
      PROVE  /\ p[i] = p[i - 1] + v[i].len /\ v[i].len \in Nat
             /\ \A k \in 1..p[i - 1] : h[i][k] = h[i - 1][k]
             /\ \A k \in 1..v[i].len : h[i][p[i - 1] + k] = v[i].base + k - 1
  <2>1. i \in 0..n /\ i - 1 \in 0..n
    BY Zenon, <1>1, RoundIndices
  <2>2. Usable(v[i])
    BY Zenon DEF n
  <2>3. /\ v[i].len \in Nat /\ RangeOf(v[i]) \in Seq(Nat) /\ Len(RangeOf(v[i])) = v[i].len
        /\ \A k \in 1..v[i].len : RangeOf(v[i])[k] = v[i].base + k - 1
    BY Zenon, <2>2, UsableFacts
  <2>4. h[i] = h[i - 1] \o RangeOf(v[i]) /\ h[i - 1] \in Seq(Nat)
    BY Zenon, <1>3, <2>1
  <2>5. /\ Len(h[i]) = Len(h[i - 1]) + v[i].len
        /\ \A k \in 1..Len(h[i - 1]) : h[i][k] = h[i - 1][k]
        /\ \A k \in 1..v[i].len : h[i][Len(h[i - 1]) + k] = RangeOf(v[i])[k]
    <3> DEFINE s == h[i - 1]
               t == RangeOf(v[i])
    <3>1. s \in Seq(Nat) /\ t \in Seq(Nat)
      BY Zenon, <2>3, <2>4
    <3> HIDE DEF s, t
    <3>2. /\ Len(s \o t) = Len(s) + Len(t)
          /\ \A k \in 1..Len(s) : (s \o t)[k] = s[k]
          /\ \A k \in 1..Len(t) : (s \o t)[Len(s) + k] = t[k]
      BY <3>1, ConcatFacts
    <3> QED BY Zenon, <2>3, <2>4, <3>2 DEF s, t
  <2> QED BY Zenon, <1>4, <2>1, <2>3, <2>5
<1> DEFINE Extends(i, j) == p[i] <= p[j] /\ \A k \in 1..p[i] : h[j][k] = h[i][k]
<1>7. ASSUME NEW i \in 0..n PROVE Extends(i, n)
  <2> DEFINE S == {j \in 0..n : j < i \/ Extends(i, j)}
  <2>1. 0 \in S
    <3>1. 0 < i \/ i = 0
      BY <1>1
    <3>2. p[0] <= p[0]
      BY <1>1, <1>4
    <3> QED BY Zenon, <1>1, <3>1, <3>2, RoundIndices
  <2>2. ASSUME NEW j \in 1..n, j - 1 \in S PROVE j \in S
    <3>1. j \in 0..n /\ j - 1 \in 0..n
      BY Zenon, <1>1, RoundIndices
    <3>2. CASE j < i
      BY Zenon, <3>1, <3>2
    <3>3. CASE j = i
      <4>1. p[i] <= p[i]
        BY <1>4
      <4> QED BY Zenon, <3>1, <3>3, <4>1
    <3>4. CASE i < j
      <4>1. ~ (j - 1 < i)
        BY <3>4
      <4>2. Extends(i, j - 1)
        BY Zenon, <2>2, <4>1
      <4>3. p[i] <= p[j] /\ \A k \in 1..p[i] : k \in 1..p[j - 1]
        <5>1. p[i] \in Nat /\ p[j] \in Nat /\ p[j - 1] \in Nat /\ p[j] = p[j - 1] + v[j].len /\ v[j].len \in Nat
          BY Zenon, <1>4, <1>6, <3>1
        <5>2. p[i] <= p[j - 1]
          BY Zenon, <4>2
        <5> QED BY <5>1, <5>2
      <4>4. \A k \in 1..p[i] : h[j][k] = h[i][k]
        BY Zenon, <1>6, <4>2, <4>3
      <4> QED BY Zenon, <3>1, <4>3, <4>4
    <3>5. j < i \/ j = i \/ i < j
      BY <1>1
    <3> QED BY Zenon, <3>2, <3>3, <3>4, <3>5
  <2>3. \A j \in 0..n : j \in S
    <3> HIDE DEF S
    <3> QED BY Zenon, <1>1, <2>1, <2>2, RoundByRound
  <2>4. n \in 0..n /\ ~ (n < i)
    BY <1>1
  <2> QED BY Zenon, <2>3, <2>4
<1>8. p[0] = 0 /\ p[n] = Len(AddressesOf(v))
  BY Zenon, <1>1, <1>2, <1>3, <1>4, RoundIndices, NoElements DEF n
<1>9. ASSUME NEW i \in 1..n
      PROVE  /\ p[i] = p[i - 1] + v[i].len /\ p[i] <= Len(AddressesOf(v))
             /\ \A k \in 1..v[i].len : AddressesOf(v)[p[i - 1] + k] = v[i].base + k - 1
  <2>1. i \in 0..n /\ i - 1 \in 0..n
    BY Zenon, <1>1, RoundIndices
  <2>2. p[i] <= p[n] /\ \A k \in 1..p[i] : h[n][k] = h[i][k]
    BY Zenon, <1>7, <2>1
  <2>3. \A k \in 1..v[i].len : p[i - 1] + k \in 1..p[i]
    <3>1. p[i - 1] \in Nat /\ p[i] = p[i - 1] + v[i].len /\ v[i].len \in Nat
      BY Zenon, <1>4, <1>6, <2>1
    <3> QED BY <3>1
  <2> QED BY Zenon, <1>2, <1>6, <1>8, <2>2, <2>3
<1> QED BY Zenon, <1>5, <1>8, <1>9 DEF Places, n

Memories == [1..Bytes -> Nat]

\* The rounds of gather_iovs.
GatherRounds(g, v) ==
  /\ g \in [0..Len(v) -> Seq(Nat)] /\ g[0] = <<>>
  /\ \A i \in 1..Len(v) : g[i] = g[i - 1] \o mem_read_as_vec(v[i].base, v[i].len)

\* What is read of a range that is readable.
LEMMA ReadsRange ==
  ASSUME mem \in Memories, NEW b \in Nat, NEW l \in Nat, Readable(b, l)
  PROVE  /\ mem_read_as_vec(b, l) \in Seq(Nat) /\ Len(mem_read_as_vec(b, l)) = l
         /\ \A k \in 1..l : Mapped(b + k - 1) /\ mem_read_as_vec(b, l)[k] = mem[b + k - 1]
<1>1. \A k \in 1..l : b + k - 1 \in b..(b + l - 1)
  OBVIOUS
<1>2. \A k \in 1..l : Mapped(b + k - 1)
  BY Zenon, <1>1 DEF Readable
<1>3. \A k \in 1..l : mem[b + k - 1] \in Nat
  BY Zenon, <1>2 DEF Mapped, Memories
<1>4. /\ mem_read_as_vec(b, l) = [k \in 1..l |-> mem[b + k - 1]]
  BY Zenon DEF mem_read_as_vec
<1> DEFINE f == [k \in 1..l |-> mem[b + k - 1]]
<1>5. f \in [1..l -> Nat] /\ \A k \in 1..l : f[k] = mem[b + k - 1]
  BY Zenon, <1>3
<1> HIDE DEF f
<1>6. f \in Seq(Nat) /\ Len(f) = l
  BY <1>5
<1> QED BY Zenon, <1>2, <1>4, <1>5, <1>6 DEF f

\* gather_iovs is the last of its rounds.
LEMMA GatherLoop ==
  ASSUME mem \in Memories, NEW v \in Seq(Iovs), Gatherable(v)
  PROVE  \E g : GatherRounds(g, v) /\ gather_iovs(v) = g[Len(v)]
<1> DEFINE n == Len(v)
           D == Seq(Nat)
           Chunk(i) == mem_read_as_vec(v[i].base, v[i].len)
           F == [i \in 1..n |-> [x \in D |-> x \o Chunk(i)]]
           IsRun(g) == g = [i \in 0..n |-> IF i = 0 THEN <<>> ELSE g[i - 1] \o Chunk(i)]
           w == CHOOSE g : IsRun(g)
<1>1. n \in Nat
  OBVIOUS
<1>2. \A i \in 1..n : v[i].base \in Nat /\ v[i].len \in Nat
  <2>1. \A i \in 1..n : v[i] \in Iovs
    BY Zenon, Element
  <2> QED BY <2>1 DEF Iovs
<1>3. <<>> \in D
  BY Zenon, NoElements
<1>4. \A i \in 1..n : Chunk(i) \in D
  BY Zenon, <1>2, ReadsRange DEF Gatherable
<1>5. \A i \in 1..n, x \in D : x \o Chunk(i) \in D
  <2> HIDE DEF Chunk
  <2> QED BY Zenon, <1>4, ConcatFacts
<1> HIDE DEF D, Chunk
<1>6. RoundsOf(F, n, D)
  BY Zenon, <1>5 DEF RoundsOf
<1>7. \A i \in 1..n, x \in D : F[i][x] = x \o Chunk(i)
  BY Zenon
<1> HIDE DEF F, n
<1>8. PICK h \in [0..n -> D] : h[0] = <<>> /\ \A i \in 1..n : h[i] = F[i][h[i - 1]]
  <2>1. \E h : Passes(h, F, n, D, <<>>)
    BY Zenon, <1>1, <1>3, <1>6, RoundsDefined
  <2> QED BY Zenon, <2>1 DEF Passes
<1>9. IsRun(h)
  <2>1. \A i \in 1..n : h[i] = h[i - 1] \o Chunk(i)
    BY Zenon, <1>1, <1>7, <1>8, RoundIndices
  <2>2. h = [i \in 0..n |-> h[i]]
    BY Zenon
  <2> QED BY Zenon, <1>1, <1>8, <2>1, <2>2, RoundIndices
<1>10. IsRun(w)
  BY Zenon, <1>9
<1>11. gather_iovs(v) = w[n]
  BY Zenon DEF gather_iovs, n, Chunk
<1> HIDE DEF w
<1>12. w[0] = <<>> /\ \A i \in 1..n : w[i] = w[i - 1] \o Chunk(i)
  BY Zenon, <1>1, <1>10, RoundIndices
<1>13. \A i \in 0..n : w[i] \in D
  <2> DEFINE S == {i \in 0..n : w[i] \in D}
  <2>1. 0 \in S
    BY Zenon, <1>1, <1>3, <1>12, RoundIndices
  <2>2. \A i \in 1..n : i - 1 \in S => i \in S
    BY Zenon, <1>1, <1>5, <1>12, RoundIndices
  <2>3. \A i \in 0..n : i \in S
    <3> HIDE DEF S
    <3> QED BY Zenon, <1>1, <2>1, <2>2, RoundByRound
  <2> QED BY Zenon, <2>3
<1>14. w \in [0..n -> D]
  <2>1. w = [i \in 0..n |-> w[i]]
    BY Zenon, <1>10
  <2> QED BY Zenon, <1>13, <2>1
<1> QED BY Zenon, <1>11, <1>12, <1>14 DEF GatherRounds, n, D, Chunk

\* gather_iovs reads the bytes at the addresses of its list, which are all mapped.
LEMMA GatherFacts ==
  ASSUME mem \in Memories, NEW v \in Seq(Iovs), Gatherable(v), \A k \in 1..Len(v) : Usable(v[k])
  PROVE  /\ gather_iovs(v) \in Seq(Nat) /\ Len(gather_iovs(v)) = Len(AddressesOf(v))
         /\ \A k \in 1..Len(AddressesOf(v)) :
              Mapped(AddressesOf(v)[k]) /\ gather_iovs(v)[k] = mem[AddressesOf(v)[k]]
<1> DEFINE n == Len(v)
           A == AddressesOf(v)
<1>1. n \in Nat
  OBVIOUS
<1>2. PICK g : GatherRounds(g, v) /\ gather_iovs(v) = g[n]
  BY Zenon, GatherLoop
<1>3. PICK p : Places(p, v)
  BY Zenon, PlacesExist
<1>4. /\ p[0] = 0 /\ p[n] = Len(A) /\ \A i \in 0..n : p[i] \in Nat
      /\ \A i \in 1..n : /\ p[i] = p[i - 1] + v[i].len
                         /\ \A k \in 1..v[i].len : A[p[i - 1] + k] = v[i].base + k - 1
  BY Zenon, <1>3 DEF Places
<1>5. /\ g[0] = <<>> /\ \A i \in 0..n : g[i] \in Seq(Nat)
      /\ \A i \in 1..n : g[i] = g[i - 1] \o mem_read_as_vec(v[i].base, v[i].len)
  BY Zenon, <1>2 DEF GatherRounds
<1> DEFINE Right(i) == Len(g[i]) = p[i] /\ \A k \in 1..p[i] : Mapped(A[k]) /\ g[i][k] = mem[A[k]]
           S == {i \in 0..n : Right(i)}
<1>6. 0 \in S
  <2>1. \A k : k \notin 1..0
    OBVIOUS
  <2> QED BY Zenon, <1>1, <1>4, <1>5, <2>1, NoElements, RoundIndices
<1> HIDE DEF A
<1>7. ASSUME NEW i \in 1..n, i - 1 \in S PROVE i \in S
  <2> DEFINE s == g[i - 1]
             b == v[i].base
             l == v[i].len
             c == mem_read_as_vec(b, l)
             L == p[i - 1]
  <2>1. i \in 0..n /\ i - 1 \in 0..n
    BY Zenon, <1>1, RoundIndices
  <2>2. b \in Nat /\ l \in Nat
    BY Zenon, UsableFacts
  <2>3. Readable(b, l)
    BY Zenon DEF Gatherable
  <2>4. /\ c \in Seq(Nat) /\ Len(c) = l
        /\ \A k \in 1..l : Mapped(b + k - 1) /\ c[k] = mem[b + k - 1]
    <3> HIDE DEF b, l
    <3> QED BY Zenon, <2>2, <2>3, ReadsRange
  <2>5. s \in Seq(Nat) /\ g[i] = s \o c /\ L \in Nat
    BY Zenon, <1>4, <1>5, <2>1
  <2>6. Len(s) = L /\ \A k \in 1..L : Mapped(A[k]) /\ s[k] = mem[A[k]]
    BY Zenon, <1>7
  <2>7. p[i] = L + l /\ \A k \in 1..l : A[L + k] = b + k - 1
    BY Zenon, <1>4
  <2> HIDE DEF s, b, l, c, L, S
  <2>8. /\ Len(s \o c) = Len(s) + Len(c)
        /\ \A k \in 1..Len(s) : (s \o c)[k] = s[k]
        /\ \A k \in 1..Len(c) : (s \o c)[Len(s) + k] = c[k]
    <3>1. s \in Seq(Nat) /\ c \in Seq(Nat)
      BY Zenon, <2>4, <2>5
    <3> QED BY <3>1, ConcatFacts
  <2>9. \A k \in 1..L + l : k \in 1..L \/ \E j \in 1..l : k = L + j
    <3> SUFFICES ASSUME NEW k \in 1..L + l, k \notin 1..L PROVE \E j \in 1..l : k = L + j
      BY Zenon
    <3>1. k - L \in 1..l /\ k = L + (k - L)
      BY <2>2, <2>5
    <3> QED BY Zenon, <3>1
  <2>10. \A k \in 1..L : Mapped(A[k]) /\ g[i][k] = mem[A[k]]
    BY Zenon, <2>5, <2>6, <2>8
  <2>11. ASSUME NEW j \in 1..l PROVE Mapped(A[L + j]) /\ g[i][L + j] = mem[A[L + j]]
    <3>1. A[L + j] = b + j - 1 /\ Mapped(b + j - 1) /\ c[j] = mem[b + j - 1]
      BY Zenon, <2>4, <2>7
    <3>2. (s \o c)[L + j] = c[j]
      BY Zenon, <2>4, <2>6, <2>8
    <3> QED BY Zenon, <2>5, <3>1, <3>2
  <2>12. Len(g[i]) = p[i]
    BY Zenon, <2>4, <2>5, <2>6, <2>7, <2>8
  <2>13. \A k \in 1..p[i] : Mapped(A[k]) /\ g[i][k] = mem[A[k]]
    <3> SUFFICES ASSUME NEW k \in 1..L + l PROVE Mapped(A[k]) /\ g[i][k] = mem[A[k]]
      BY Zenon, <2>7
    <3>1. CASE k \in 1..L
      BY Zenon, <2>10, <3>1
    <3>2. ASSUME NEW j \in 1..l, k = L + j PROVE Mapped(A[k]) /\ g[i][k] = mem[A[k]]
      BY Zenon, <2>11, <3>2
    <3> QED BY Zenon, <2>9, <3>1, <3>2
  <2> QED BY Zenon, <2>1, <2>12, <2>13 DEF S
<1>8. \A i \in 0..n : i \in S
  <2> HIDE DEF S, n
  <2> QED BY Zenon, <1>1, <1>6, <1>7, RoundByRound
<1>9. n \in 0..n
  BY <1>1
<1>10. Right(n) /\ g[n] \in Seq(Nat)
  BY Zenon, <1>5, <1>8, <1>9
<1>11. Len(g[n]) = Len(A) /\ \A k \in 1..Len(A) : Mapped(A[k]) /\ g[n][k] = mem[A[k]]
  BY Zenon, <1>4, <1>10
<1> QED BY Zenon, <1>2, <1>10, <1>11 DEF A

\* The greatest of a set of numbers.
LEMMA GreatestChosen ==
  ASSUME NEW S \in SUBSET Int, NEW m \in S, \A j \in S : j <= m
  PROVE  (CHOOSE i \in S : \A j \in S : j <= i) = m
<1> DEFINE c == CHOOSE i \in S : \A j \in S : j <= i
<1>1. c \in S /\ \A j \in S : j <= c
  BY Zenon
<1> HIDE DEF c
<1>2. c \in Int /\ m \in Int /\ c <= m /\ m <= c
  BY Zenon, <1>1
<1>3. c = m
  BY <1>2
<1> QED BY Zenon, <1>3 DEF c

\* The bytes of a copy that go to an address, and what it holds after the copy.
Hits(target, n, a) == {i \in 1..n : target[i] = a}
LastHit(target, n, a) == CHOOSE i \in Hits(target, n, a) : \A j \in Hits(target, n, a) : j <= i
ByteAfter(before, source, target, n, a) ==
  IF Hits(target, n, a) = {} THEN before[a] ELSE before[source[LastHit(target, n, a)]]

\* Copying q bytes more, to the addresses from b on.
RunsFrom(target, L, q, b) == \A k \in 1..q : target[L + k] = b + k - 1
GrownBy(before, source, target, L, q, b) ==
  AfterCopy(before, source, target, L + q) =
    [a \in 1..Bytes |-> IF a >= b /\ a < b + q THEN before[source[L + (a - b + 1)]]
                        ELSE AfterCopy(before, source, target, L)[a]]

\* What the bytes copied last change.
LEMMA CopyGrows ==
  ASSUME NEW before, NEW source, NEW target, NEW L \in Nat, NEW q \in Nat, NEW b \in Nat, RunsFrom(target, L, q, b)
  PROVE  GrownBy(before, source, target, L, q, b)
<1> USE DEF RunsFrom
<1> DEFINE Cell(n, a) == ByteAfter(before, source, target, n, a)
           More(a) == IF a >= b /\ a < b + q THEN before[source[L + (a - b + 1)]] ELSE Cell(L, a)
<1>1. \A n : AfterCopy(before, source, target, n) = [a \in 1..Bytes |-> Cell(n, a)]
  BY Zenon DEF AfterCopy, ByteAfter, Hits, LastHit
<1>2. \A a \in 1..Bytes : AfterCopy(before, source, target, L)[a] = Cell(L, a)
  <2> HIDE DEF Cell
  <2>1. AfterCopy(before, source, target, L) = [a \in 1..Bytes |-> Cell(L, a)]
    BY Zenon, <1>1
  <2> QED BY Zenon, <2>1
<1>3. ASSUME NEW a \in 1..Bytes PROVE Cell(L + q, a) = More(a)
  <2>1. a \in Int
    OBVIOUS
  <2>2. \A i \in 1..L + q : i \in 1..L \/ \E k \in 1..q : i = L + k
    <3> SUFFICES ASSUME NEW i \in 1..L + q, i \notin 1..L PROVE \E k \in 1..q : i = L + k
      BY Zenon
    <3>1. i - L \in 1..q /\ i = L + (i - L)
      OBVIOUS
    <3> QED BY Zenon, <3>1
  <2>3. CASE a >= b /\ a < b + q
    <3> DEFINE m == L + (a - b + 1)
               S == Hits(target, L + q, a)
    <3>1. a - b + 1 \in 1..q /\ m \in 1..L + q /\ b + (a - b + 1) - 1 = a
      BY <2>1, <2>3
    <3>2. m \in S
      BY Zenon, <3>1 DEF Hits
    <3>3. ASSUME NEW j \in S PROVE j <= m
      <4>1. j \in 1..L + q /\ target[j] = a
        BY Zenon DEF Hits
      <4>2. CASE j \in 1..L
        BY <2>1, <2>3, <4>2
      <4>3. ASSUME NEW k \in 1..q, j = L + k PROVE j <= m
        <5>1. b + k - 1 = a
          BY Zenon, <4>1, <4>3
        <5> QED BY <2>1, <4>3, <5>1
      <4> QED BY Zenon, <2>2, <4>1, <4>2, <4>3
    <3>4. S \in SUBSET Int
      <4>1. \A i \in 1..L + q : i \in Int
        OBVIOUS
      <4> QED BY Zenon, <4>1 DEF Hits
    <3> HIDE DEF S, m
    <3>5. (CHOOSE i \in S : \A j \in S : j <= i) = m
      BY Zenon, <3>2, <3>3, <3>4, GreatestChosen
    <3>6. S # {}
      BY Zenon, <3>2
    <3>7. LastHit(target, L + q, a) = m
      BY Zenon, <3>5 DEF S, LastHit
    <3>8. Cell(L + q, a) = before[source[m]]
      BY Zenon, <3>6, <3>7 DEF S, ByteAfter
    <3> QED BY Zenon, <2>3, <3>8 DEF m
  <2>4. CASE ~ (a >= b /\ a < b + q)
    <3>1. \A i \in 1..L : i \in 1..L + q
      OBVIOUS
    <3>2. \A k \in 1..q : b + k - 1 # a
      BY <2>1, <2>4
    <3>3. \A i : i \in Hits(target, L + q, a) <=> i \in Hits(target, L, a)
      <4>1. ASSUME NEW i \in 1..L + q, target[i] = a PROVE i \in 1..L
        BY Zenon, <2>2, <3>2, <4>1
      <4> QED BY Zenon, <3>1, <4>1 DEF Hits
    <3>4. Hits(target, L + q, a) = Hits(target, L, a)
      BY Zenon, <3>3
    <3>5. LastHit(target, L + q, a) = LastHit(target, L, a)
      BY Zenon, <3>4 DEF LastHit
    <3>6. Cell(L + q, a) = Cell(L, a)
      BY Zenon, <3>4, <3>5 DEF ByteAfter
    <3> HIDE DEF Cell
    <3> QED BY Zenon, <2>4, <3>6
  <2> QED BY Zenon, <2>3, <2>4
<1> HIDE DEF Cell
<1>4. AfterCopy(before, source, target, L + q) = [a \in 1..Bytes |-> Cell(L + q, a)]
  BY Zenon, <1>1
<1>5. \A a \in 1..Bytes :
        Cell(L + q, a) = IF a >= b /\ a < b + q THEN before[source[L + (a - b + 1)]]
                         ELSE AfterCopy(before, source, target, L)[a]
  BY Zenon, <1>2, <1>3
<1> QED BY Zenon, <1>4, <1>5 DEF GrownBy

\* mem_write writes all of its data, or as far as the first byte that is not mapped.
LEMMA WriteFacts ==
  ASSUME NEW m \in Memories, NEW b \in Nat, NEW d \in Seq(Nat)
  PROVE  /\ mem_write(m, b, d) \in Memories
         /\ \E q \in 0..Len(d) :
              /\ mem_write(m, b, d) = [a \in 1..Bytes |-> IF a >= b /\ a < b + q THEN d[a - b + 1] ELSE m[a]]
              /\ Readable(b, Len(d)) => q = Len(d)
<1> DEFINE l == Len(d)
           q == BytesWritten(b, l)
           bad == {a \in b..(b + l - 1) : ~ Mapped(a)}
<1>1. l \in Nat
  OBVIOUS
<1>2. bad \in SUBSET Nat
  <2>1. \A a \in b..(b + l - 1) : a \in Nat
    BY <1>1
  <2> QED BY Zenon, <2>1
<1>3. q = IF bad = {} THEN l ELSE (CHOOSE a \in bad : \A c \in bad : a <= c) - b
  BY Zenon DEF BytesWritten
<1>4. Readable(b, l) <=> bad = {}
  BY Zenon DEF Readable
<1>5. bad # {} => (CHOOSE a \in bad : \A c \in bad : a <= c) \in b..(b + l - 1)
  <2> SUFFICES ASSUME bad # {} PROVE (CHOOSE a \in bad : \A c \in bad : a <= c) \in b..(b + l - 1)
    BY Zenon
  <2>1. \A a \in bad : a \in b..(b + l - 1)
    BY Zenon
  <2> HIDE DEF bad
  <2>2. \E a \in bad : \A c \in bad : a <= c
    BY Zenon, <1>2, LeastAddress
  <2> QED BY Zenon, <2>1, <2>2
<1>6. q \in 0..l
  <2>1. CASE bad = {}
    BY <1>1, <1>3, <2>1
  <2>2. CASE bad # {}
    <3> DEFINE c == CHOOSE a \in bad : \A c \in bad : a <= c
    <3>1. c \in b..(b + l - 1) /\ q = c - b
      BY Zenon, <1>3, <1>5, <2>2
    <3> HIDE DEF c, q, l
    <3> QED BY <1>1, <3>1
  <2> QED BY Zenon, <2>1, <2>2
<1>7. mem_write(m, b, d) = [a \in 1..Bytes |-> IF a >= b /\ a < b + q THEN d[a - b + 1] ELSE m[a]]
  BY Zenon DEF mem_write
<1>8. Readable(b, l) => q = l
  BY Zenon, <1>3, <1>4
<1>9. mem_write(m, b, d) \in Memories
  <2> HIDE DEF q
  <2>1. \A a \in 1..Bytes : a >= b /\ a < b + q => a - b + 1 \in 1..l
    BY <1>1, <1>6
  <2>2. \A a \in 1..Bytes : (IF a >= b /\ a < b + q THEN d[a - b + 1] ELSE m[a]) \in Nat
    BY Zenon, <2>1, Element DEF Memories
  <2> QED BY Zenon, <1>7, <2>2 DEF Memories
<1> QED BY Zenon, <1>6, <1>7, <1>8, <1>9

Lesser(a, b) == IF a < b THEN a ELSE b
Progress == [mem : Memories, off : Nat, ok : BOOLEAN]

\* q bytes of the data, from place o on, are written at b.
Patched(m, b, q, data, o) ==
  [a \in 1..Bytes |-> IF a >= b /\ a < b + q THEN data[o + (a - b + 1)] ELSE m[a]]

\* A round of scatter_iovs that writes: e is what it makes of p.
Advances(p, r, data, e) ==
  LET n == Lesser(r.len, Len(data) - p.off)
  IN  /\ n \in Nat /\ n <= r.len /\ p.off + n <= Len(data)
      /\ n = r.len \/ p.off + n = Len(data)
      /\ e.off = p.off + n
      /\ \E q \in 0..n : e.mem = Patched(p.mem, r.base, q, data, p.off) /\ (e.ok => q = n)

\* One round of scatter_iovs.
LEMMA ScatterFacts ==
  ASSUME NEW p \in Progress, NEW r, Usable(r), NEW data \in Seq(Nat)
  PROVE  /\ Scatter(p, r, data) \in Progress
         /\ ~ p.ok \/ p.off >= Len(data) => Scatter(p, r, data) = p
         /\ p.ok /\ ~ (p.off >= Len(data)) =>
              Advances(p, r, data, Scatter(p, r, data))
<1> DEFINE N == Len(data)
           o == p.off
           n == Lesser(r.len, N - o)
           b == r.base
           d == SubSeq(data, o + 1, o + n)
           e == Scatter(p, r, data)
<1>1. p.mem \in Memories /\ o \in Nat /\ N \in Nat /\ b \in Nat /\ r.len \in Nat
  <2>1. p.mem \in Memories /\ o \in Nat
    BY DEF Progress
  <2>2. N \in Nat
    OBVIOUS
  <2> QED BY Zenon, <2>1, <2>2, UsableFacts
<1>2. ~ p.ok \/ o >= N => e = p
  BY Zenon DEF Scatter
<1>3. ASSUME p.ok, ~ (o >= N)
      PROVE  /\ n \in Nat /\ n <= r.len /\ o + n <= N /\ (n = r.len \/ o + n = N)
             /\ e \in Progress /\ e.off = o + n
             /\ \E q \in 0..n : e.mem = Patched(p.mem, b, q, data, o) /\ (e.ok => q = n)
  <2>1. n \in Nat /\ n <= r.len /\ o + n <= N /\ (n = r.len \/ o + n = N)
    <3> HIDE DEF N, o
    <3> QED BY <1>1, <1>3 DEF Lesser
  <2>2. e = [mem |-> mem_write(p.mem, b, d), off |-> o + n, ok |-> Readable(b, n)]
    BY Zenon, <1>3 DEF Scatter, Lesser
  <2>3. d \in Seq(Nat) /\ Len(d) = n /\ \A i \in 1..n : d[i] = data[o + i]
    <3> HIDE DEF o, n
    <3>1. o \in Nat /\ n \in Nat /\ o + n <= Len(data)
      BY Zenon, <1>1, <2>1
    <3> QED BY <3>1, SubSeqFacts
  <2>4. o + n \in Nat
    <3> HIDE DEF o, n
    <3> QED BY <1>1, <2>1
  <2> DEFINE w == mem_write(p.mem, b, d)
  <2>5. /\ w \in Memories
        /\ \E q \in 0..n :
             /\ w = [a \in 1..Bytes |-> IF a >= b /\ a < b + q THEN d[a - b + 1] ELSE p.mem[a]]
             /\ Readable(b, n) => q = n
    <3> HIDE DEF d, n, b
    <3>1. /\ w \in Memories
          /\ \E q \in 0..Len(d) :
               /\ w = [a \in 1..Bytes |-> IF a >= b /\ a < b + q THEN d[a - b + 1] ELSE p.mem[a]]
               /\ Readable(b, Len(d)) => q = Len(d)
      BY Zenon, <1>1, <2>3, WriteFacts
    <3> QED BY Zenon, <2>3, <3>1
  <2> HIDE DEF w, d, n, o, N, b, e
  <2>6. e.mem = w /\ e.off = o + n /\ e.ok = Readable(b, n)
    BY Zenon, <2>2 DEF w
  <2>7. e \in Progress
    <3>1. Readable(b, n) \in BOOLEAN
      BY Zenon DEF Readable
    <3> QED BY Zenon, <2>2, <2>4, <2>5, <3>1 DEF Progress, w
  <2>8. PICK q \in 0..n : /\ w = [a \in 1..Bytes |-> IF a >= b /\ a < b + q THEN d[a - b + 1] ELSE p.mem[a]]
                          /\ Readable(b, n) => q = n
    BY Zenon, <2>5
  <2>9. \A a \in 1..Bytes : a >= b /\ a < b + q => d[a - b + 1] = data[o + (a - b + 1)]
    <3>1. \A a \in 1..Bytes : a >= b /\ a < b + q => a - b + 1 \in 1..n
      BY <1>1, <2>1
    <3> QED BY Zenon, <2>3, <3>1
  <2>10. w = Patched(p.mem, b, q, data, o)
    BY Zenon, <2>8, <2>9 DEF Patched
  <2> QED BY Zenon, <2>1, <2>6, <2>7, <2>8, <2>10
<1> HIDE DEF N, o, n, b, e
<1>4. e \in Progress
  BY Zenon, <1>2, <1>3
<1>5. p.ok /\ ~ (o >= N) => Advances(p, r, data, e)
  BY Zenon, <1>3 DEF Advances, N, o, n, b
<1> QED BY Zenon, <1>2, <1>4, <1>5 DEF N, o, e

\* The rounds of scatter_iovs.
ScatterRounds(g, v, data) ==
  /\ g \in [0..Len(v) -> Progress] /\ g[0] = [mem |-> mem, off |-> 0, ok |-> TRUE]
  /\ \A i \in 1..Len(v) : g[i] = Scatter(g[i - 1], v[i], data)

\* scatter_iovs is the last of its rounds.
LEMMA ScatterLoop ==
  ASSUME mem \in Memories, NEW v \in Seq(Iovs), \A k \in 1..Len(v) : Usable(v[k]), NEW data \in Seq(Nat)
  PROVE  \E g : ScatterRounds(g, v, data) /\ scatter_iovs(v, data) = g[Len(v)]
<1> DEFINE n == Len(v)
           D == Progress
           start == [mem |-> mem, off |-> 0, ok |-> TRUE]
           F == [i \in 1..n |-> [x \in D |-> Scatter(x, v[i], data)]]
           IsRun(g) == g = [i \in 0..n |-> IF i = 0 THEN start ELSE Scatter(g[i - 1], v[i], data)]
           w == CHOOSE g : IsRun(g)
<1>1. n \in Nat
  OBVIOUS
<1>2. start \in D
  BY DEF Progress
<1>3. \A i \in 1..n, x \in D : Scatter(x, v[i], data) \in D
  BY Zenon, ScatterFacts
<1>4. scatter_iovs(v, data) = w[n]
  BY Zenon DEF scatter_iovs
<1> HIDE DEF D
<1>5. RoundsOf(F, n, D)
  BY Zenon, <1>3 DEF RoundsOf
<1>6. \A i \in 1..n, x \in D : F[i][x] = Scatter(x, v[i], data)
  BY Zenon
<1> HIDE DEF F, n, start
<1>7. PICK h \in [0..n -> D] : h[0] = start /\ \A i \in 1..n : h[i] = F[i][h[i - 1]]
  <2>1. \E h : Passes(h, F, n, D, start)
    BY Zenon, <1>1, <1>2, <1>5, RoundsDefined
  <2> QED BY Zenon, <2>1 DEF Passes
<1>8. IsRun(h)
  <2>1. \A i \in 1..n : h[i] = Scatter(h[i - 1], v[i], data)
    BY Zenon, <1>1, <1>6, <1>7, RoundIndices
  <2>2. h = [i \in 0..n |-> h[i]]
    BY Zenon
  <2> QED BY Zenon, <1>1, <1>7, <2>1, <2>2, RoundIndices
<1>9. IsRun(w)
  BY Zenon, <1>8
<1> HIDE DEF w
<1>10. w[0] = start /\ \A i \in 1..n : w[i] = Scatter(w[i - 1], v[i], data)
  BY Zenon, <1>1, <1>9, RoundIndices
<1>11. \A i \in 0..n : w[i] \in D
  <2> DEFINE S == {i \in 0..n : w[i] \in D}
  <2>1. 0 \in S
    BY Zenon, <1>1, <1>2, <1>10, RoundIndices
  <2>2. \A i \in 1..n : i - 1 \in S => i \in S
    BY Zenon, <1>1, <1>3, <1>10, RoundIndices
  <2>3. \A i \in 0..n : i \in S
    <3> HIDE DEF S
    <3> QED BY Zenon, <1>1, <2>1, <2>2, RoundByRound
  <2> QED BY Zenon, <2>3
<1>12. w \in [0..n -> D]
  <2>1. w = [i \in 0..n |-> w[i]]
    BY Zenon, <1>9
  <2> QED BY Zenon, <1>11, <2>1
<1> QED BY Zenon, <1>4, <1>10, <1>12 DEF ScatterRounds, n, D, start

\* A copy of no bytes.
LEMMA NothingCopied ==
  ASSUME NEW before \in Memories, NEW source, NEW target
  PROVE  AfterCopy(before, source, target, 0) = before
<1>1. \A i : i \notin 1..0
  OBVIOUS
<1>2. \A a : Hits(target, 0, a) = {}
  BY Zenon, <1>1 DEF Hits
<1>3. AfterCopy(before, source, target, 0) = [a \in 1..Bytes |-> ByteAfter(before, source, target, 0, a)]
  BY Zenon DEF AfterCopy, ByteAfter, Hits, LastHit
<1>4. \A a : ByteAfter(before, source, target, 0, a) = before[a]
  BY Zenon, <1>2 DEF ByteAfter
<1>5. before = [a \in 1..Bytes |-> before[a]]
  BY Zenon DEF Memories
<1> QED BY Zenon, <1>3, <1>4, <1>5

\* scatter_iovs copies the data to the addresses of its list, in order, as far as
\* both go; when a write fails, it has copied some of it.
LEMMA ScatterExact ==
  ASSUME mem \in Memories, NEW v \in Seq(Iovs), \A k \in 1..Len(v) : Usable(v[k]),
         NEW source \in Seq(Nat), NEW data \in Seq(Nat), Len(data) = Len(source),
         \A k \in 1..Len(source) : data[k] = mem[source[k]]
  PROVE  LET e == scatter_iovs(v, data)
             T == Lesser(Len(source), Len(AddressesOf(v)))
         IN  /\ e \in Progress
             /\ e.ok => e.off = T /\ e.mem = AfterCopy(mem, source, AddressesOf(v), T)
             /\ \E q \in 0..T : e.mem = AfterCopy(mem, source, AddressesOf(v), q)
<1> DEFINE n == Len(v)
           N == Len(source)
           target == AddressesOf(v)
           C(k) == AfterCopy(mem, source, target, k)
<1>1. n \in Nat /\ N \in Nat
  OBVIOUS
<1>2. PICK g : ScatterRounds(g, v, data) /\ scatter_iovs(v, data) = g[n]
  BY Zenon, ScatterLoop
<1>3. PICK p : Places(p, v)
  BY Zenon, PlacesExist
<1>4. /\ p[0] = 0 /\ p[n] = Len(target) /\ \A i \in 0..n : p[i] \in Nat
      /\ \A i \in 1..n : /\ p[i] = p[i - 1] + v[i].len
                         /\ \A k \in 1..v[i].len : target[p[i - 1] + k] = v[i].base + k - 1
  BY Zenon, <1>3 DEF Places
<1>5. /\ g[0] = [mem |-> mem, off |-> 0, ok |-> TRUE] /\ \A i \in 0..n : g[i] \in Progress
      /\ \A i \in 1..n : g[i] = Scatter(g[i - 1], v[i], data)
  BY Zenon, <1>2 DEF ScatterRounds
<1>6. \A i \in 1..n : Usable(v[i])
  BY Zenon
<1> HIDE DEF n, target
<1> DEFINE Z(i) == Lesser(N, p[i])
           Right(i) == /\ g[i].ok => g[i].off = Z(i) /\ g[i].mem = C(Z(i))
                       /\ \E q \in 0..Z(i) : g[i].mem = C(q)
           S == {i \in 0..n : Right(i)}
<1>7. 0 \in S
  <2>1. g[0].mem = mem /\ g[0].off = 0
    BY <1>5
  <2>2. C(0) = mem
    BY Zenon, NothingCopied
  <2>3. Z(0) = 0 /\ 0 \in 0..0
    BY <1>1, <1>4 DEF Lesser
  <2>4. 0 \in 0..n
    BY Zenon, <1>1, RoundIndices
  <2> HIDE DEF Z, C
  <2>5. Right(0)
    BY Zenon, <2>1, <2>2, <2>3
  <2> QED BY Zenon, <2>4, <2>5
<1>8. ASSUME NEW i \in 1..n, i - 1 \in S PROVE i \in S
  <2> DEFINE x == g[i - 1]
             y == g[i]
             r == v[i]
             b == r.base
             L == p[i - 1]
             m == Lesser(r.len, Len(data) - x.off)
  <2>1. i \in 0..n /\ i - 1 \in 0..n
    BY Zenon, <1>1, RoundIndices
  <2>2. x \in Progress /\ y \in Progress /\ y = Scatter(x, r, data) /\ Usable(r)
    BY Zenon, <1>5, <1>6, <2>1
  <2>3. /\ x.ok => x.off = Z(i - 1) /\ x.mem = C(Z(i - 1))
        /\ \E q \in 0..Z(i - 1) : x.mem = C(q)
    BY Zenon, <1>8
  <2>4. b \in Nat /\ r.len \in Nat /\ L \in Nat /\ p[i] = L + r.len /\ p[i] \in Nat
    BY Zenon, <1>4, <2>1, <2>2, UsableFacts
  <2>5. \A k \in 1..r.len : target[L + k] = b + k - 1
    BY Zenon, <1>4
  <2> HIDE DEF x, y, r, S, C
  <2>6. Z(i - 1) \in Nat /\ Z(i) \in Nat /\ Z(i - 1) <= Z(i) /\ (\A q \in 0..Z(i - 1) : q \in 0..Z(i))
    <3> HIDE DEF N, L
    <3>1. Z(i - 1) = Lesser(N, L) /\ Z(i) = Lesser(N, L + r.len)
      BY Zenon, <2>4 DEF L
    <3> HIDE DEF Z
    <3> QED BY <1>1, <2>4, <3>1 DEF Lesser
  <2>7. CASE ~ x.ok \/ x.off >= Len(data)
    <3>1. y = x
      BY Zenon, <2>2, <2>7, ScatterFacts
    <3>2. x.ok => Z(i) = Z(i - 1)
      <4> SUFFICES ASSUME x.ok PROVE Z(i) = Z(i - 1)
        BY Zenon
      <4>1. Lesser(N, L) >= N /\ Z(i - 1) = Lesser(N, L) /\ Z(i) = Lesser(N, L + r.len)
        BY Zenon, <2>3, <2>4, <2>7
      <4> HIDE DEF Z, N, L
      <4> QED BY <1>1, <2>4, <4>1 DEF Lesser
    <3> HIDE DEF Z
    <3>3. y.ok => y.off = Z(i) /\ y.mem = C(Z(i))
      BY Zenon, <2>3, <3>1, <3>2
    <3>4. \E q \in 0..Z(i) : y.mem = C(q)
      BY Zenon, <2>3, <2>6, <3>1
    <3> QED BY Zenon, <2>1, <3>3, <3>4 DEF S, y
  <2>8. CASE x.ok /\ ~ (x.off >= Len(data))
    <3>1. PICK q \in 0..m :
            /\ m \in Nat /\ m <= r.len /\ x.off + m <= Len(data) /\ (m = r.len \/ x.off + m = Len(data))
            /\ y.off = x.off + m
            /\ y.mem = Patched(x.mem, b, q, data, x.off) /\ (y.ok => q = m)
      <4>1. Advances(x, r, data, y)
        BY Zenon, <2>2, <2>8, ScatterFacts
      <4> QED BY Zenon, <4>1 DEF Advances
    <3> HIDE DEF m, b
    <3>2. x.off = Lesser(N, L) /\ x.mem = C(x.off) /\ ~ (x.off >= N) /\ Len(data) = N
      BY Zenon, <2>3, <2>8
    <3>3. x.off = L
      <4> HIDE DEF N, L
      <4> QED BY <1>1, <2>4, <3>2 DEF Lesser
    <3>4. L + m = Z(i) /\ L + m <= N
      <4>1. m <= r.len /\ L + m <= N /\ (m = r.len \/ L + m = N) /\ Z(i) = Lesser(N, L + r.len)
        BY Zenon, <2>4, <3>1, <3>2, <3>3
      <4> HIDE DEF Z, N, L
      <4> QED BY <1>1, <2>4, <3>1, <4>1 DEF Lesser
    <3> HIDE DEF L, N
    <3>5. q \in Nat /\ (\A k \in 1..q : k \in 1..r.len) /\ L + q \in 0..L + m
      BY <2>4, <3>1
    <3>6. C(L + q) = [a \in 1..Bytes |-> IF a >= b /\ a < b + q THEN mem[source[L + (a - b + 1)]] ELSE C(L)[a]]
      <4>1. RunsFrom(target, L, q, b)
        BY Zenon, <2>5, <3>5 DEF RunsFrom
      <4>2. GrownBy(mem, source, target, L, q, b)
        BY Zenon, <2>4, <3>5, <4>1, CopyGrows
      <4> QED BY Zenon, <4>2 DEF C, GrownBy
    <3>7. \A a \in 1..Bytes : a >= b /\ a < b + q => data[L + (a - b + 1)] = mem[source[L + (a - b + 1)]]
      <4>1. \A a \in 1..Bytes : a >= b /\ a < b + q => L + (a - b + 1) \in 1..N
        <5>1. q \in 0..m /\ m \in Nat /\ L + m <= N
          BY Zenon, <3>1, <3>4
        <5>2. L \in Nat /\ b \in Nat /\ N \in Nat
          BY Zenon, <1>1, <2>4
        <5> QED BY SMTT(30), <5>1, <5>2
      <4> QED BY Zenon, <4>1 DEF N
    <3>8. y.mem = C(L + q)
      <4>1. y.mem = [a \in 1..Bytes |-> IF a >= b /\ a < b + q THEN data[L + (a - b + 1)] ELSE C(L)[a]]
        BY Zenon, <3>1, <3>2, <3>3 DEF Patched
      <4> QED BY Zenon, <3>6, <3>7, <4>1
    <3> HIDE DEF Z
    <3>9. y.ok => y.off = Z(i) /\ y.mem = C(Z(i))
      BY Zenon, <3>1, <3>3, <3>4, <3>8
    <3>10. \E k \in 0..Z(i) : y.mem = C(k)
      BY Zenon, <3>4, <3>5, <3>8
    <3> QED BY Zenon, <2>1, <3>9, <3>10 DEF S, y
  <2> QED BY Zenon, <2>7, <2>8
<1>9. \A i \in 0..n : i \in S
  <2> HIDE DEF S
  <2> QED BY Zenon, <1>1, <1>7, <1>8, RoundByRound
<1>10. n \in 0..n
  BY <1>1
<1>11. Right(n) /\ g[n] \in Progress
  BY Zenon, <1>5, <1>9, <1>10
<1> HIDE DEF Z, C
<1>12. Z(n) = Lesser(N, Len(target))
  BY Zenon, <1>4 DEF Z
<1> QED BY Zenon, <1>2, <1>11, <1>12 DEF C, target

\* What a call may answer and leave in memory.
CallRight(src, dst, m, ans) ==
  LET source == AddressesOf(src)
      target == AddressesOf(dst)
      T == Lesser(Len(source), Len(target))
  IN  /\ m \in Memories
      /\ ans[1] = "ok" => ans = Ok(T) /\ m = AfterCopy(mem, source, target, T)
      /\ ans[1] = "err" =>
           /\ \E q \in 0..T : m = AfterCopy(mem, source, target, q)
           /\ (\E i \in 1..Len(source) : PageOf(source[i]) \notin present) => m = mem

\* The answers are told apart by their first part.
LEMMA AnswerKinds ==
  /\ EINVAL[1] = "err" /\ EFAULT[1] = "err" /\ ESRCH[1] = "err" /\ "err" # "ok"
  /\ \A n : Ok(n)[1] = "ok"
BY DEF EINVAL, EFAULT, ESRCH, Ok

\* A call that fails before it writes.
LEMMA NothingDone ==
  ASSUME mem \in Memories, NEW src \in Seq(Iovs), NEW dst \in Seq(Iovs), NEW ans, ans[1] = "err"
  PROVE  CallRight(src, dst, mem, ans)
<1> DEFINE source == AddressesOf(src)
           target == AddressesOf(dst)
           T == Lesser(Len(source), Len(target))
<1>1. source \in Seq(Nat) /\ target \in Seq(Nat)
  BY Zenon, KeptFacts
<1> HIDE DEF source, target
<1>2. 0 \in 0..T
  <2>1. Len(source) \in Nat /\ Len(target) \in Nat
    BY <1>1
  <2> QED BY <2>1 DEF Lesser
<1>3. AfterCopy(mem, source, target, 0) = mem
  BY Zenon, NothingCopied
<1>4. ans[1] # "ok"
  BY Zenon, AnswerKinds
<1> HIDE DEF T
<1>5. \E q \in 0..T : mem = AfterCopy(mem, source, target, q)
  BY Zenon, <1>2, <1>3
<1> QED BY Zenon, <1>4, <1>5 DEF CallRight, source, target, T

\* copy_process_vm copies what it says it copies.
LEMMA CopyRight ==
  ASSUME mem \in Memories, NEW src \in Seq(Iovs), NEW dst \in Seq(Iovs)
  PROVE  CallRight(src, dst, copy_process_vm(src, dst).mem, copy_process_vm(src, dst).answer)
<1> DEFINE u == read_guest_iovs(src)
           v == read_guest_iovs(dst)
           data == gather_iovs(u)
           e == scatter_iovs(v, data)
           r == copy_process_vm(src, dst)
           source == AddressesOf(src)
           target == AddressesOf(dst)
           T == Lesser(Len(source), Len(target))
<1>1. /\ u \in Seq(Iovs) /\ (\A k \in 1..Len(u) : Usable(u[k])) /\ AddressesOf(u) = source /\ source \in Seq(Nat)
      /\ v \in Seq(Iovs) /\ (\A k \in 1..Len(v) : Usable(v[k])) /\ AddressesOf(v) = target
  BY Zenon, KeptFacts
<1>2. r = IF Len(src) > MaxIovs \/ Len(dst) > MaxIovs THEN [mem |-> mem, answer |-> EINVAL]
          ELSE IF ~ Gatherable(u) THEN [mem |-> mem, answer |-> EFAULT]
          ELSE [mem |-> e.mem, answer |-> IF e.ok THEN Ok(e.off) ELSE EFAULT]
  BY Zenon DEF copy_process_vm
<1> HIDE DEF r, e, u, v
<1>3. CASE Len(src) > MaxIovs \/ Len(dst) > MaxIovs
  <2>1. r.mem = mem /\ r.answer = EINVAL
    BY Zenon, <1>2, <1>3
  <2> QED BY Zenon, <2>1, NothingDone, AnswerKinds DEF r
<1>4. CASE ~ (Len(src) > MaxIovs \/ Len(dst) > MaxIovs) /\ ~ Gatherable(u)
  <2>1. r.mem = mem /\ r.answer = EFAULT
    BY Zenon, <1>2, <1>4
  <2> QED BY Zenon, <2>1, NothingDone, AnswerKinds DEF r
<1>5. CASE ~ (Len(src) > MaxIovs \/ Len(dst) > MaxIovs) /\ Gatherable(u)
  <2>1. r = [mem |-> e.mem, answer |-> IF e.ok THEN Ok(e.off) ELSE EFAULT]
    BY Zenon, <1>2, <1>5
  <2>2. r.mem = e.mem /\ r.answer = IF e.ok THEN Ok(e.off) ELSE EFAULT
    BY Zenon, <2>1
  <2>3. /\ data \in Seq(Nat) /\ Len(data) = Len(AddressesOf(u))
        /\ \A k \in 1..Len(AddressesOf(u)) : Mapped(AddressesOf(u)[k]) /\ data[k] = mem[AddressesOf(u)[k]]
    BY Zenon, <1>1, <1>5, GatherFacts
  <2>4. /\ data \in Seq(Nat) /\ Len(data) = Len(source)
        /\ \A k \in 1..Len(source) : Mapped(source[k]) /\ data[k] = mem[source[k]]
    BY Zenon, <1>1, <2>3
  <2> HIDE DEF data, source, target
  <2>5. /\ e \in Progress
        /\ e.ok => e.off = T /\ e.mem = AfterCopy(mem, source, target, T)
        /\ \E q \in 0..T : e.mem = AfterCopy(mem, source, target, q)
    <3>1. \A k \in 1..Len(source) : data[k] = mem[source[k]]
      BY Zenon, <2>4
    <3>2. LET E == scatter_iovs(v, data)
              W == Lesser(Len(source), Len(AddressesOf(v)))
          IN  /\ E \in Progress
              /\ E.ok => E.off = W /\ E.mem = AfterCopy(mem, source, AddressesOf(v), W)
              /\ \E q \in 0..W : E.mem = AfterCopy(mem, source, AddressesOf(v), q)
      BY Zenon, <1>1, <2>4, <3>1, ScatterExact
    <3> QED BY Zenon, <1>1, <3>2 DEF e
  <2>6. e.mem \in Memories
    BY <2>5 DEF Progress
  <2>7. ~ \E i \in 1..Len(source) : PageOf(source[i]) \notin present
    BY Zenon, <2>4 DEF Mapped
  <2> HIDE DEF T
  <2>8. r.answer[1] = "ok" => r.answer = Ok(T) /\ r.mem = AfterCopy(mem, source, target, T)
    <3>1. CASE e.ok
      BY Zenon, <2>2, <2>5, <3>1
    <3>2. CASE ~ e.ok
      BY Zenon, <2>2, <3>2, AnswerKinds
    <3> QED BY Zenon, <3>1, <3>2
  <2>9. \E q \in 0..T : r.mem = AfterCopy(mem, source, target, q)
    BY Zenon, <2>2, <2>5
  <2> QED BY Zenon, <2>2, <2>6, <2>7, <2>8, <2>9 DEF CallRight, source, target, T, r
<1> QED BY Zenon, <1>3, <1>4, <1>5

\* Memory keeps its type, and the last call was right.
VmInv == mem \in Memories /\ VmCopyExact

\* A call of either function is right.
LEMMA VmCallStep ==
  ASSUME VmInv, NEW name \in {"readv", "writev"}, NEW alive \in BOOLEAN,
         NEW src \in Vectors, NEW dst \in Vectors, Call(name, alive, src, dst)
  PROVE  VmInv'
<1> DEFINE r == IF alive THEN copy_process_vm(src, dst) ELSE [mem |-> mem, answer |-> ESRCH]
           source == AddressesOf(src)
           target == AddressesOf(dst)
<1>1. src \in Seq(Iovs) /\ dst \in Seq(Iovs)
  BY Zenon, VmAssumption DEF Iovs
<1>2. mem \in Memories
  BY Zenon DEF VmInv
<1>3. /\ mem' = r.mem /\ present' = present
      /\ last' = [call |-> name, src |-> src, dst |-> dst, before |-> mem, answer |-> r.answer]
  BY Zenon DEF Call
<1>4. CallRight(src, dst, r.mem, r.answer)
  <2>1. CASE alive
    BY Zenon, <1>1, <1>2, <2>1, CopyRight
  <2>2. CASE ~ alive
    <3>1. r.mem = mem /\ r.answer = ESRCH
      BY Zenon, <2>2
    <3> QED BY Zenon, <1>1, <1>2, <3>1, NothingDone, AnswerKinds
  <2> QED BY Zenon, <2>1, <2>2
<1> HIDE DEF r
<1>5. /\ last'.src = src /\ last'.dst = dst /\ last'.before = mem /\ last'.answer = r.answer
  BY <1>3
<1>6. Total' = Lesser(Len(source), Len(target))
  BY Zenon, <1>5 DEF Total, Lesser
<1>7. \A n : Copied(n)' = AfterCopy(mem, source, target, n)
  BY Zenon, <1>5 DEF Copied
<1> DEFINE T == Lesser(Len(source), Len(target))
<1>8. /\ r.mem \in Memories
      /\ r.answer[1] = "ok" => r.answer = Ok(T) /\ r.mem = AfterCopy(mem, source, target, T)
      /\ r.answer[1] = "err" =>
           /\ \E q \in 0..T : r.mem = AfterCopy(mem, source, target, q)
           /\ (\E i \in 1..Len(source) : PageOf(source[i]) \notin present) => r.mem = mem
  BY Zenon, <1>4 DEF CallRight
<1>9. CopyExact'
  <2>1. Copied(T)' = AfterCopy(mem, source, target, T)
    BY Zenon, <1>7
  <2>2. Copied(Total)' = AfterCopy(mem, source, target, T)
    BY Zenon, <1>5, <1>6 DEF Copied
  <2> HIDE DEF T, source, target
  <2>3. last'.answer[1] = "ok" => last'.answer = Ok(Total') /\ mem' = Copied(Total)'
    BY Zenon, <1>3, <1>5, <1>6, <1>8, <2>2 DEF T
  <2> QED BY Zenon, <2>3 DEF CopyExact, Ok
<1>10. FaultLeavesPrefix'
  <2>1. last'.answer[1] = "err" => \E n \in 0..Total' : mem' = Copied(n)'
    BY Zenon, <1>3, <1>5, <1>6, <1>7, <1>8
  <2>2. last'.answer[1] = "err" =>
          ((\E i \in 1..Len(AddressesOf(last'.src)) : PageOf(AddressesOf(last'.src)[i]) \notin present')
             => mem' = last'.before)
    BY Zenon, <1>3, <1>5, <1>8
  <2> QED BY Zenon, <2>1, <2>2 DEF FaultLeavesPrefix
<1> QED BY Zenon, <1>3, <1>8, <1>9, <1>10 DEF VmInv, VmCopyExact, Memories

\* process_vm_readv and process_vm_writev, for every size of memory and of pages,
\* every list of ranges and every limit: a call that succeeds copies the bytes of
\* the source list to those of the destination list, in order and however the lists
\* overlap, as many as the shorter one has, and answers that number; a call that
\* fails has copied some first bytes of that, and none when the source list cannot
\* be read.
THEOREM CopiesExact == VmSpec => []VmCopyExact
<1>1. VmInit => VmInv
  <2> SUFFICES ASSUME VmInit PROVE VmInv
    BY Zenon
  <2>1. mem \in Memories
    BY VmAssumption DEF VmInit, Memories
  <2>2. last.call = "none"
    BY DEF VmInit, NoCall
  <2> QED BY Zenon, <2>1, <2>2 DEF VmInv, VmCopyExact, CopyExact, FaultLeavesPrefix
<1>2. VmInv /\ [VmNext]_vmVars => VmInv'
  <2> SUFFICES ASSUME VmInv, [VmNext]_vmVars PROVE VmInv'
    BY Zenon
  <2>1. CASE VmNext
    <3>1. PICK alive \in BOOLEAN, l \in Vectors, r \in Vectors :
            process_vm_readv(alive, l, r) \/ process_vm_writev(alive, l, r)
      BY Zenon, <2>1 DEF VmNext
    <3>2. CASE process_vm_readv(alive, l, r)
      BY Zenon, <3>2, VmCallStep DEF process_vm_readv
    <3>3. CASE process_vm_writev(alive, l, r)
      BY Zenon, <3>3, VmCallStep DEF process_vm_writev
    <3> QED BY Zenon, <3>1, <3>2, <3>3
  <2>2. CASE UNCHANGED vmVars
    <3>1. mem' = mem /\ present' = present /\ last' = last
      BY Zenon, <2>2 DEF vmVars
    <3> QED BY Zenon, <3>1 DEF VmInv, VmCopyExact, CopyExact, FaultLeavesPrefix, Total, Copied, Memories
  <2> QED BY Zenon, <2>1, <2>2
<1>3. VmInv => VmCopyExact
  BY Zenon DEF VmInv
<1> QED BY <1>1, <1>2, <1>3, PTL DEF VmSpec
=============================================================================
