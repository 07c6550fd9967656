---------------------------- MODULE SymbolLookup ----------------------------
(***************************************************************************)
(* Finding a symbol: by name through a module's GNU or SysV hash section   *)
(* and through the libraries it needs, by address for dladdr.  The tables  *)
(* are laid out by the linker that built the library (external); the       *)
(* lookups are the emulator's.  A symbol name is a number, its two hash    *)
(* values are given by the constant functions GnuHash and SysvHash.        *)
(***************************************************************************)
EXTENDS Integers, Sequences, SequencesExt, FiniteSets

CONSTANTS Names,        \* symbol names, numbers
          GnuHash,      \* name -> gnu_hash of its characters
          SysvHash,     \* name -> sysv_hash of its characters
          Value, Size,  \* name -> st_value, st_size where it is defined
          Shapes,       \* [sysv, gnu, nbucket, maskwords, shift2] of the hash sections
          Contents,     \* [defs, imports] of a library
          Modules,      \* the loaded modules in load order
          Needs,        \* possible functions module -> its needed modules, in order
          Bases,        \* module -> load address
          ModuleSize,   \* size of every module
          Entries,      \* possible entry points, offsets
          Addresses     \* addresses asked of dladdr

VARIABLES libs,     \* module -> its symbol table and hash sections
          needed,   \* module -> needed_libraries
          entry,    \* module -> entry_point
          answer    \* the last query and its answer

vars == <<libs, needed, entry, answer>>

ModuleSet == ToSet(Modules)
NoAnswer == [query |-> "none"]
BloomBits == 64
Garbage == -1       \* a read past the end of the symbol table
NotFound == 0

-----------------------------------------------------------------------------
(* The linker (external): imports first, then the definitions, in bucket   *)
(* order if there is a GNU section.                                        *)
SymbolTable(c, s) ==
    LET sym(n, d) == [name |-> n, defined |-> d,
                      value |-> IF d THEN Value[n] ELSE 0, size |-> IF d THEN Size[n] ELSE 0]
        byName == SetToSortSeq(c.imports, <)
        bucketOf(n) == GnuHash[n] % s.nbucket
        byBucket == SetToSortSeq(c.defs, LAMBDA m, n :
                        bucketOf(m) < bucketOf(n) \/ (bucketOf(m) = bucketOf(n) /\ m < n))
    IN  [i \in 1..Len(byName) |-> sym(byName[i], FALSE)]
            \o [i \in 1..Len(byBucket) |-> sym(byBucket[i], TRUE)]

(* The GNU section: header, bloom words (as sets of bits), buckets and one *)
(* chain word per hashed symbol, odd where a chain ends.  words is indexed *)
(* by the offset in 4-byte units, a bloom word takes two of them.          *)
GnuSection(tab, symndx, s) ==
    LET hash(i) == GnuHash[tab[i].name]
        hashed == symndx..Len(tab)
        bits(w) == UNION {{hash(i) % BloomBits, (hash(i) \div 2^s.shift2) % BloomBits} :
                          i \in {j \in hashed : (hash(j) \div BloomBits) % s.maskwords = w}}
        bucket(b) == LET of == {i \in hashed : hash(i) % s.nbucket = b}
                     IN  IF of = {} THEN 0 ELSE CHOOSE i \in of : \A j \in of : i <= j
        ends(i) == i = Len(tab) \/ hash(i) % s.nbucket # hash(i + 1) % s.nbucket
        start == 4 + 2 * s.maskwords
    IN  [nbucket |-> s.nbucket, symndx |-> symndx, maskwords |-> s.maskwords, shift2 |-> s.shift2,
         bloom |-> [w \in 0..(s.maskwords - 1) |-> bits(w)],
         words |-> [o \in start..(start + s.nbucket + Cardinality(hashed) - 1) |->
                        IF o < start + s.nbucket THEN bucket(o - start)
                        ELSE LET i == o - start - s.nbucket + symndx
                             IN  2 * (hash(i) \div 2) + (IF ends(i) THEN 1 ELSE 0)]]

(* The SysV section lists every symbol, imports too; a new symbol goes to  *)
(* the front of its bucket's chain.                                        *)
SysvSection(tab, s) ==
    LET same(i, j) == SysvHash[tab[i].name] % s.nbucket = SysvHash[tab[j].name] % s.nbucket
        lastOf(S) == IF S = {} THEN 0 ELSE CHOOSE i \in S : \A j \in S : j <= i
    IN  [buckets |-> [b \in 0..(s.nbucket - 1) |->
                        lastOf({i \in DOMAIN tab : SysvHash[tab[i].name] % s.nbucket = b})],
         chains |-> [i \in DOMAIN tab |-> lastOf({j \in 1..(i - 1) : same(i, j)})]]

Library(c, s) ==
    LET tab == SymbolTable(c, s) IN
    [symbols |-> tab, sysv |-> s.sysv,
     gnuSection |-> GnuSection(tab, Cardinality(c.imports) + 1, s),
     sysvSection |-> SysvSection(tab, s)]

-----------------------------------------------------------------------------
(* ElfHashTable and ElfGnuHashTable.                                       *)
(* An index past the table would read whatever bytes follow it.            *)
get_elf_symbol(lib, i) ==
    IF i \in DOMAIN lib.symbols THEN lib.symbols[i]
    ELSE [name |-> 0, defined |-> FALSE, value |-> 0, size |-> 0]

sysv_get_symbol(lib, name) ==
    LET t == lib.sysvSection
        walk[i \in 0..Len(lib.symbols)] ==
            IF i = 0 THEN NotFound
            ELSE IF get_elf_symbol(lib, i).name = name THEN i
            ELSE walk[t.chains[i]]
    IN  walk[t.buckets[SysvHash[name] % Cardinality(DOMAIN t.buckets)]]

chain_base_from_one(t) == 4 + 2 * t.maskwords + t.nbucket - 1

(* Where chain word 0 would be, in 4-byte units from the section's start:  *)
(* before the first real one by symndx words.                              *)
chain_base(t) == 4 + 2 * t.maskwords + t.nbucket - t.symndx

chain(t, index) ==
    LET o == chain_base(t) + index IN IF o \in DOMAIN t.words THEN t.words[o] ELSE 0

Bucket(t, b) == t.words[4 + 2 * t.maskwords + b]

bloom_passes(t, hash) ==
    LET word == t.bloom[(hash \div BloomBits) % t.maskwords]
    IN  hash % BloomBits \in word /\ (hash \div 2^t.shift2) % BloomBits \in word

gnu_get_symbol(lib, name) ==
    LET t == lib.gnuSection
        walk[n \in 1..(Len(lib.symbols) + 1)] ==
            IF n > Len(lib.symbols) THEN Garbage
            ELSE IF get_elf_symbol(lib, n).name = name THEN n
            ELSE IF chain(t, n) % 2 = 1 THEN NotFound
            ELSE walk[n + 1]
        first == Bucket(t, GnuHash[name] % t.nbucket)
    IN  IF ~bloom_passes(t, GnuHash[name]) \/ first = 0 THEN NotFound ELSE walk[first]

matches(sym, so_addr) ==
    LET v == sym.value - (sym.value % 2)
    IN  sym.defined /\ so_addr >= v /\ so_addr < v + sym.size

(* Only the first symbol of each bucket is looked at.                      *)
sysv_get_symbol_by_addr(lib, so_addr) ==
    LET t == lib.sysvSection
        scan[b \in 0..Cardinality(DOMAIN t.buckets)] ==
            IF b = Cardinality(DOMAIN t.buckets) THEN NotFound
            ELSE IF t.buckets[b] # 0 /\ matches(get_elf_symbol(lib, t.buckets[b]), so_addr)
                 THEN t.buckets[b]
            ELSE scan[b + 1]
    IN  scan[0]

(* Every bucket, along its whole chain.                                    *)
gnu_get_symbol_by_addr(lib, so_addr) ==
    LET t == lib.gnuSection
        walk[n \in 1..(Len(lib.symbols) + 1)] ==
            IF n > Len(lib.symbols) THEN Garbage
            ELSE IF matches(get_elf_symbol(lib, n), so_addr) THEN n
            ELSE IF chain(t, n) % 2 = 1 THEN NotFound
            ELSE walk[n + 1]
        scan[b \in 0..t.nbucket] ==
            IF b = t.nbucket THEN NotFound
            ELSE LET n == IF Bucket(t, b) = 0 THEN NotFound ELSE walk[Bucket(t, b)]
                 IN  IF n # NotFound THEN n ELSE scan[b + 1]
    IN  scan[0]

(* A library with both sections is searched through its SysV section.      *)
get_elf_symbol_by_name(lib, name) ==
    IF lib.sysv THEN sysv_get_symbol(lib, name) ELSE gnu_get_symbol(lib, name)

get_elf_symbol_by_addr(lib, so_addr) ==
    IF lib.sysv THEN sysv_get_symbol_by_addr(lib, so_addr) ELSE gnu_get_symbol_by_addr(lib, so_addr)

-----------------------------------------------------------------------------
(* LinuxModule's searches and dladdr.                                      *)
RECURSIVE find_symbol_by_name(_, _, _)
find_symbol_by_name(m, name, with_dep) ==
    LET i == get_elf_symbol_by_name(libs[m], name)
        inNeeded == [k \in 1..Len(needed[m]) |-> find_symbol_by_name(needed[m][k], name, with_dep)]
        found == SelectSeq(inNeeded, LAMBDA r : r[2] # NotFound)
    IN  IF i # NotFound THEN <<m, i>>
        ELSE IF with_dep /\ found # <<>> THEN Head(found)
        ELSE <<m, NotFound>>

Unnamed == [index |-> NotFound, address |-> 0, start |-> FALSE]

(* The symbol at addr, called "start" when the entry point lies between    *)
(* the symbol's address and addr.                                          *)
find_symbol_by_closest_addr(m, addr) ==
    LET i == IF addr < Bases[m] THEN NotFound ELSE get_elf_symbol_by_addr(libs[m], addr - Bases[m])
        at == Bases[m] + get_elf_symbol(libs[m], i).value
        start == Bases[m] + entry[m]
    IN  IF i = NotFound THEN Unnamed
        ELSE [index |-> i, address |-> at, start |-> addr >= start /\ start > at]

find_module_by_address(addr) ==
    SelectSeq(Modules, LAMBDA m : Bases[m] <= addr /\ addr < Bases[m] + ModuleSize)

FindByName(m, name, with_dep) ==
    LET r == find_symbol_by_name(m, name, with_dep) IN
    /\ answer' = [query |-> "name", module |-> m, name |-> name, with_dep |-> with_dep,
                  from |-> r[1], index |-> r[2]]
    /\ UNCHANGED <<libs, needed, entry>>

(* dladdr answers 0 outside all modules; where no symbol is found it says  *)
(* "start" and gives the module's entry_point, which is an offset.         *)
DlAddr(addr) ==
    LET ms == find_module_by_address(addr)
        r == IF ms = <<>> THEN Unnamed ELSE find_symbol_by_closest_addr(Head(ms), addr)
        info(m) == [query |-> "addr", addr |-> addr, result |-> 1, module |-> m, index |-> r.index,
                    start |-> r.start \/ r = Unnamed,
                    saddr |-> IF r = Unnamed THEN entry[m] ELSE r.address]
    IN  /\ answer' = IF ms = <<>> THEN [query |-> "addr", addr |-> addr, result |-> 0]
                     ELSE info(Head(ms))
        /\ UNCHANGED <<libs, needed, entry>>

Init == /\ libs \in [ModuleSet -> {Library(c, s) : c \in Contents, s \in Shapes}]
        /\ needed \in Needs
        /\ entry \in [ModuleSet -> Entries]
        /\ answer = NoAnswer

Next == /\ answer = NoAnswer
        /\ \/ \E m \in ModuleSet, n \in Names, d \in BOOLEAN : FindByName(m, n, d)
           \/ \E a \in Addresses : DlAddr(a)

Spec == Init /\ [][Next]_vars

-----------------------------------------------------------------------------
(* Reference definitions.                                                  *)
Lists(m, name) == \E i \in DOMAIN libs[m].symbols :
    libs[m].symbols[i].name = name /\ (libs[m].symbols[i].defined \/ libs[m].sysv)

(* The modules searched for m, itself first, in depth-first order.         *)
RECURSIVE SearchOrder(_)
SearchOrder(m) == <<m>> \o FlattenSeq([k \in 1..Len(needed[m]) |-> SearchOrder(needed[m][k])])

Covers(m, i, addr) ==
    /\ i \in DOMAIN libs[m].symbols
    /\ LET s == libs[m].symbols[i] IN
       s.defined /\ Bases[m] + s.value <= addr /\ addr < Bases[m] + s.value + s.size

(* A search by name succeeds exactly when some module it may look at has   *)
(* the name in its hash table, and gives that module's own entry for the   *)
(* name, for the first such module in the order of DT_NEEDED: no bloom     *)
(* word, bucket or chain hides or confuses a symbol.                       *)
NameLookupExact ==
    answer.query = "name" =>
        LET order == IF answer.with_dep THEN SearchOrder(answer.module) ELSE <<answer.module>>
            having == SelectSeq(order, LAMBDA m : Lists(m, answer.name))
        IN  IF having = <<>> THEN answer.index = NotFound
            ELSE /\ answer.from = Head(having)
                 /\ answer.index \in DOMAIN libs[answer.from].symbols
                 /\ libs[answer.from].symbols[answer.index].name = answer.name

(* With GNU sections a search by name never answers with an import of one  *)
(* module that another one defines: the result is a definition.            *)
FoundIsDefined ==
    answer.query = "name" /\ answer.index # NotFound =>
        /\ answer.index \in DOMAIN libs[answer.from].symbols
        /\ libs[answer.from].symbols[answer.index].defined

(* dladdr never names a symbol whose bytes do not contain the address, nor *)
(* a module whose range does not.                                          *)
DladdrCovers ==
    answer.query = "addr" /\ answer.result = 1 =>
        /\ Bases[answer.module] <= answer.addr /\ answer.addr < Bases[answer.module] + ModuleSize
        /\ answer.index # NotFound =>
               /\ Covers(answer.module, answer.index, answer.addr)
               /\ answer.saddr = Bases[answer.module] + libs[answer.module].symbols[answer.index].value

(* With GNU sections dladdr finds a symbol whenever some exported symbol   *)
(* of the module at the address contains it.                               *)
DladdrComplete ==
    answer.query = "addr" /\ (\E m \in ModuleSet : \E i \in DOMAIN libs[m].symbols : Covers(m, i, answer.addr))
        => answer.result = 1 /\ answer.index # NotFound
=============================================================================
