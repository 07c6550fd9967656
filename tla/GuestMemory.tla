----------------------------- MODULE GuestMemory -----------------------------
(***************************************************************************)
(* Guest memory, in pages counted from MMAP_BASE: the pages the backend    *)
(* has mapped, the memory map that the emulator keeps beside them          *)
(* (memory_map, base -> size and protection), the next address to hand out *)
(* (mmap_base), and the program break.  The backend is Dynarmic's: mapping *)
(* and unmapping go page by page and stop at the first page that does not  *)
(* fit, without undoing what was done.  Page permissions and contents are  *)
(* left out, except that a file's contents are written where it is mapped. *)
(***************************************************************************)
EXTENDS Integers, Sequences, FiniteSets

CONSTANTS
  Lens,         \* lengths of mappings
  Prots,        \* protections
  FileLens,     \* sizes of the files that are mapped
  Temps,        \* whether memory is temporary: a subset of BOOLEAN
  Hints,        \* addresses asked for when a file is mapped
  Starts,       \* addresses the guest unmaps or maps over (MAP_FIXED)
  Images,       \* segments of ELF images: sequences of [off, len, prot]
  PageUnits,    \* the program break is counted in parts of a page
  Breaks,       \* addresses the guest moves the program break to
  Top           \* bound: pages of the address space

ASSUME MemoryAssumption ==
  /\ Lens \subseteq Nat \ {0} /\ FileLens \subseteq Nat /\ Hints \subseteq Nat \ {0} /\ Temps \subseteq BOOLEAN
  /\ Starts \subseteq Nat /\ Breaks \subseteq Nat /\ PageUnits \in Nat \ {0}
  /\ Top \in Nat

\* An image has its segments in order; the loader refuses others.
ASSUME ImagesAssumption ==
  /\ Images \subseteq Seq([off : Nat, len : Nat \ {0}, prot : Prots])
  /\ \A im \in Images :
       im # <<>> /\ \A i, j \in 1 .. Len(im) : i < j => im[i].off + im[i].len <= im[j].off

VARIABLES
  discipline,   \* "own": the guest unmaps and maps over only what Fits below, and moves
                \* the break by whole pages; "cuts": it unmaps anything; "none": it also
                \* maps over anything, and chooses addresses for files
  mapped,       \* pages mapped in the backend
  map,          \* memory_map
  base,         \* mmap_base
  temp,         \* temp_memory: <<address, size>>
  image,        \* pages of the loaded ELF images
  brk, heap,    \* the program break, and the pages below it
  panicked,     \* an expect or unwrap failed
  answer,       \* ghost: the last call and its result
  leaked,       \* ghost: pages that a failed call left without an entry
  stale         \* ghost: pages of temporary memory that were released

heapVars == <<brk, heap>>
ghosts == <<leaked, stale>>
vars == <<discipline, mapped, map, base, temp, image, heapVars, panicked, answer, ghosts>>

Pages(a, n) == a .. a + n - 1
Entry(n, p) == [size |-> n, prot |-> p]
Insert(m, a, e) == [x \in DOMAIN m \cup {a} |-> IF x = a THEN e ELSE m[x]]
Without(m, s) == [x \in DOMAIN m \ s |-> m[x]]
Extent(m, a) == Pages(a, m[a].size)
Listed(m) == UNION {Extent(m, a) : a \in DOMAIN m}

Init ==
  /\ discipline \in {"own", "cuts", "none"}
  /\ mapped = {} /\ map = [a \in {} |-> Entry(0, 0)] /\ base = 0 /\ temp = {} /\ image = {}
  /\ brk = 0 /\ heap = {} /\ panicked = FALSE
  /\ answer = <<"none", "ok">> /\ leaked = {} /\ stale = {}

\* The host maps memory at any time; the guest makes system calls once an image is
\* loaded, and never unmaps the images it runs from.
GuestRuns == ~panicked /\ image # {}

-----------------------------------------------------------------------------
\* The backend: the pages of a..a+n-1 that are mapped (unmapped) when the loop
\* ends or meets a page that is mapped already (is not mapped).
MapPages(a, n) == {p \in Pages(a, n) : Pages(a, p - a + 1) \cap mapped = {}}
UnmapPages(a, n) == {p \in Pages(a, n) : Pages(a, p - a + 1) \subseteq mapped}

\* Mutant: behind the lowest entry.
AllocateBehindLowest ==
  LET ends == {a + map[a].size : a \in {x \in DOMAIN map : \A y \in DOMAIN map : x <= y}} IN
  IF \E e \in ends : e < base THEN CHOOSE e \in ends : TRUE ELSE base

\* Where the next mapping goes: behind the highest entry when that is below
\* mmap_base.  (No entry ends below its own start, so the search for a gap in
\* allocate_map_address never finds one.)
AllocateMapAddress ==
  LET ends == {a + map[a].size : a \in {x \in DOMAIN map : \A y \in DOMAIN map : y <= x}} IN
  IF \E e \in ends : e < base THEN CHOOSE e \in ends : TRUE ELSE base

\* Mapping n pages at a, with an entry when the mapping and the write of its
\* contents (len pages) succeed.
MapAt(call, a, n, p, len) ==
  LET got == MapPages(a, n)
      ok == got = Pages(a, n) /\ Pages(a, len) \subseteq mapped \cup got IN
  /\ mapped' = mapped \cup got
  /\ map' = IF ok THEN Insert(map, a, Entry(n, p)) ELSE map
  /\ leaked' = IF ok THEN leaked ELSE leaked \cup got
  /\ answer' = <<call, IF ok THEN "ok" ELSE "EAGAIN">>

\* Anonymous mmap, falloc and malloc without libc; t: it is temporary memory.
Mmap(n, p, t) ==
  LET a == AllocateMapAddress IN
  /\ ~panicked /\ a + n <= Top
  /\ base' = a + n
  /\ MapAt("mmap", a, n, p, 0)
  /\ temp' = IF t /\ answer'[2] = "ok" THEN temp \cup {<<a, n>>} ELSE temp
  /\ UNCHANGED <<image, heapVars, panicked, stale>>

\* mmap of a file of len pages without an address: all of the file is written,
\* whatever the length asked for.
MmapFile(n, p, len) ==
  LET a == AllocateMapAddress IN
  /\ GuestRuns /\ a + n <= Top
  /\ base' = a + n
  /\ MapAt("file", a, n, p, len)
  /\ UNCHANGED <<temp, image, heapVars, panicked, stale>>

\* With an address: refused when it overlaps or touches an entry.
MmapFileAt(a, n, p, len) ==
  /\ GuestRuns /\ a + n <= Top /\ discipline = "none"
  /\ IF \E k \in DOMAIN map : k <= a + n /\ a <= k + map[k].size
       THEN answer' = <<"file", "EEXIST">> /\ UNCHANGED <<mapped, map, leaked>>
       ELSE MapAt("file", a, n, p, len)
  /\ UNCHANGED <<base, temp, image, heapVars, panicked, stale>>

-----------------------------------------------------------------------------
Outcome(pages, m, b, res) == [pages |-> pages, map |-> m, base |-> b, res |-> res]

\* Mutant: the part behind the hole is dropped.
SplitShort(k, a, n) == Insert(map, k, Entry(a - k, map[k].prot))

\* The entry at k, which a lies in, without the n pages at a.
Split(k, a, n) ==
  LET end == k + map[k].size
      behind == IF a + n < end THEN Insert(map, a + n, Entry(end - a - n, map[k].prot)) ELSE map IN
  Insert(behind, k, Entry(a - k, map[k].prot))

\* The loop over the entries that follow the one at a, up to a + n: the entries
\* it removes, each where the one before it ends; one of another protection is
\* the last.
Visited(a, n) ==
  LET inside == {x \in DOMAIN map : x \in Pages(a, n)}
      Follows(x, y) == map[x].prot = map[a].prot /\ y = x + map[x].size IN
  {x \in inside : \A s \in SUBSET inside :
     a \in s /\ (\A y \in s, z \in inside : Follows(y, z) => z \in s) => x \in s}

\* How it ends.  An entry that is missing, or longer than what is left, ends in an
\* unwrap; another protection is an error.
LoopEnds(a, n) ==
  LET last == CHOOSE x \in Visited(a, n) : \A y \in Visited(a, n) : y <= x IN
  IF map[last].prot # map[a].prot THEN "EINVAL"
  ELSE IF last + map[last].size = a + n THEN "ok" ELSE "panic"

\* The entry that starts at a is cut, removed, or removed with those behind it.
\* mmap_base is reset only when an exact fit empties the memory map.
Cut(a, n) ==
  LET left == Without(map, {a}) IN
  IF map[a].size > n
    THEN [map |-> Insert(left, a + n, Entry(map[a].size - n, map[a].prot)), base |-> base, res |-> "ok"]
  ELSE IF map[a].size < n
    THEN [map |-> Without(map, Visited(a, n)), base |-> base, res |-> LoopEnds(a, n)]
  ELSE [map |-> left, base |-> IF DOMAIN left = {} THEN 0 ELSE base, res |-> "ok"]

\* What munmap can come to; the entry that a lies in is the first that the hash
\* map's iteration meets.
Outcomes(a, n) ==
  LET gone == UnmapPages(a, n)
      segments == {k \in DOMAIN map : k < a /\ a < k + map[k].size} IN
  IF gone # Pages(a, n) THEN {Outcome(gone, map, base, "EINVAL")}
  ELSE IF a \in DOMAIN map THEN {Outcome(gone, Cut(a, n).map, Cut(a, n).base, Cut(a, n).res)}
  ELSE IF segments = {} THEN {Outcome(gone, map, base, "EINVAL")}
  ELSE {IF map[k].size < n THEN Outcome(gone, map, base, "EINVAL")
        ELSE Outcome(gone, Split(k, a, n), base, "ok") : k \in segments}

Forgotten(o) == IF o.res = "ok" THEN {} ELSE (mapped \ o.pages) \ Listed(o.map)

\* What a disciplined guest unmaps: a part of one mapping, or adjacent mappings
\* of one protection as a whole; nothing that is temporary memory.
Fits(a, n) ==
  /\ \A t \in temp : Pages(a, n) \cap Pages(t[1], t[2]) = {}
  /\ Pages(a, n) \cap stale = {}
  /\ \/ \E k \in DOMAIN map : Pages(a, n) \subseteq Extent(map, k)
     \/ \E p \in Prots :
          Pages(a, n) = UNION {Extent(map, k) : k \in {x \in DOMAIN map : x \in Pages(a, n) /\ map[x].prot = p}}

Munmap(a, n) ==
  /\ ~panicked /\ a + n <= Top /\ Pages(a, n) \cap image = {} /\ (discipline = "own" => Fits(a, n))
  /\ \E o \in Outcomes(a, n) :
       /\ mapped' = mapped \ o.pages
       /\ map' = o.map /\ base' = o.base
       /\ panicked' = (o.res = "panic")
       /\ answer' = <<"munmap", o.res>>
       /\ leaked' = leaked \cup Forgotten(o)
  /\ UNCHANGED <<temp, image, heapVars, stale>>

\* MAP_FIXED: munmap, which has to succeed, and a new mapping in its place.
MmapFixed(a, n, p) ==
  /\ GuestRuns /\ a + n <= Top /\ Pages(a, n) \cap image = {} /\ (discipline # "none" => Fits(a, n))
  /\ \E o \in Outcomes(a, n) :
       /\ base' = o.base
       /\ panicked' = (o.res = "panic")
       /\ mapped' = IF o.res = "ok" THEN mapped ELSE mapped \ o.pages
       /\ map' = IF o.res = "ok" THEN Insert(o.map, a, Entry(n, p)) ELSE o.map
       /\ answer' = <<"fixed", IF o.res = "ok" THEN "ok" ELSE "EAGAIN">>
       /\ leaked' = leaked \cup Forgotten(o)
  /\ UNCHANGED <<temp, image, heapVars, stale>>

\* release_tmp_memory: the pages go, the entries stay.
ReleaseTmpMemory ==
  LET gone == UNION {UnmapPages(t[1], t[2]) : t \in temp} IN
  /\ ~panicked /\ temp' = {}
  /\ mapped' = mapped \ gone /\ stale' = stale \cup gone
  /\ UNCHANGED <<map, base, image, heapVars, panicked, answer, leaked>>

-----------------------------------------------------------------------------
End(im) == im[Len(im)].off + im[Len(im)].len

\* An image is loaded at mmap_base; what lies between two segments is mapped
\* without permissions.  A page that is mapped already is a panic.
Load(im) ==
  LET segs == {[off |-> base + im[i].off, len |-> im[i].len, prot |-> im[i].prot] : i \in DOMAIN im}
      gaps == {[off |-> base + im[i].off + im[i].len,
                len |-> im[i + 1].off - im[i].off - im[i].len, prot |-> "none"]
                 : i \in DOMAIN im \ {Len(im)}}
      new == {s \in segs \cup gaps : s.len > 0}
      all == UNION {Pages(s.off, s.len) : s \in new} IN
  /\ ~panicked /\ base + End(im) <= Top
  /\ base' = base + End(im)
  /\ IF all \cap mapped # {}
       THEN panicked' = TRUE /\ UNCHANGED <<mapped, map, image>>
       ELSE /\ mapped' = mapped \cup all /\ image' = image \cup all
            /\ map' = [x \in DOMAIN map \cup {s.off : s \in new} |->
                         IF \E s \in new : s.off = x
                           THEN LET s == CHOOSE s \in new : s.off = x IN Entry(s.len, s.prot)
                           ELSE map[x]]
            /\ UNCHANGED panicked
  /\ UNCHANGED <<temp, heapVars, answer, ghosts>>

\* brk with a break of u parts of a page above HEAP_BASE: the backend takes whole
\* pages only, and a refusal is a panic.
Brk(u) ==
  LET lo == IF u < brk THEN u ELSE brk
      hi == IF u < brk THEN brk ELSE u
      pages == (lo \div PageUnits) .. (hi \div PageUnits) - 1
      whole == lo % PageUnits = 0 /\ hi % PageUnits = 0 IN
  /\ GuestRuns /\ (discipline = "own" => u % PageUnits = 0)
  /\ IF u = brk THEN UNCHANGED <<brk, heap, panicked>>
     ELSE IF ~whole \/ (u > brk /\ pages \cap heap # {}) \/ (u < brk /\ ~(pages \subseteq heap))
       THEN panicked' = TRUE /\ UNCHANGED <<brk, heap>>
     ELSE /\ brk' = u
          /\ heap' = IF u > brk THEN heap \cup pages ELSE heap \ pages
          /\ UNCHANGED panicked
  /\ UNCHANGED <<mapped, map, base, temp, image, answer, ghosts>>

\* brk(0) moves the break back to HEAP_BASE and unmaps nothing.
BrkZero ==
  /\ GuestRuns /\ (discipline = "own" => brk = 0)
  /\ brk' = 0
  /\ UNCHANGED <<mapped, map, base, temp, image, heap, panicked, answer, ghosts>>

-----------------------------------------------------------------------------
Calls ==
  \/ \E n \in Lens, p \in Prots :
       \/ \E t \in Temps : Mmap(n, p, t)
       \/ \E len \in FileLens :
            MmapFile(n, p, len) \/ \E a \in Hints : MmapFileAt(a, n, p, len)
       \/ \E a \in Starts : MmapFixed(a, n, p)
  \/ \E a \in Starts, n \in Lens : Munmap(a, n)
  \/ ReleaseTmpMemory
  \/ \E im \in Images : Load(im)
  \/ BrkZero
  \/ \E u \in Breaks : Brk(u)

Next == Calls /\ UNCHANGED discipline

Spec == Init /\ [][Next]_vars

-----------------------------------------------------------------------------
\* The variables have their types, and no entry is empty.
TypeOK ==
  /\ mapped \subseteq 0 .. Top - 1 /\ DOMAIN map \subseteq 0 .. Top - 1
  /\ \A a \in DOMAIN map : map[a].size \in 1 .. Top /\ map[a].prot \in Prots \cup {"none"}
  /\ base \in 0 .. Top /\ brk \in Nat /\ panicked \in BOOLEAN

\* Every mapped page is in the memory map, unless a call that failed half way
\* left it behind.
Covered == mapped \subseteq Listed(map) \cup leaked

\* While no call failed half way, entries do not overlap, and together they are
\* the mapped pages and the temporary memory that was released behind the map's
\* back.
Exact ==
  leaked = {} =>
    /\ \A a, b \in DOMAIN map : a # b => Extent(map, a) \cap Extent(map, b) = {}
    /\ Listed(map) = mapped \cup stale
    /\ mapped \cap stale = {}

UnmapSucceeds == answer[1] \in {"munmap", "fixed"} => answer[2] = "ok"

NoPanic == leaked = {} => ~panicked

\* For a guest that chooses no addresses, no call that succeeds makes the emulator
\* forget a page, whatever range it cuts or releases.  For a guest that unmaps and
\* maps over parts of its own mappings the map is exact, its munmap calls succeed,
\* and it meets none of the expects and unwraps of the memory code (mmap2, munmap,
\* release_tmp_memory).
MapExact ==
  /\ TypeOK
  /\ discipline # "none" => Covered
  /\ discipline = "own" => Exact /\ UnmapSucceeds /\ NoPanic

\* While no call failed half way, an address that the emulator chooses is free, so
\* that an anonymous mmap succeeds (allocate_map_address).
FreshAddress ==
  discipline # "none" /\ leaked = {} =>
    answer # <<"mmap", "EAGAIN">> /\ AllocateMapAddress \notin mapped

=============================================================================
