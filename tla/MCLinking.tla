----------------------------- MODULE MCLinking -----------------------------
(* Finding and loading libraries, for TLC.  A behaviour is one of three:     *)
(* loads of library files ("load", module Loader with the constants of the   *)
(* configuration), a lookup in two modules with any hash sections ("any") or *)
(* in three with GNU sections ("gnu", module SymbolLookup).                  *)
EXTENDS Loader

VARIABLES part, libs, needed, entry, answer

lookupVars == <<libs, needed, entry, answer>>

CONSTANTS app, dep, leaf, virt, gone, symbol

(* Every way three libraries and a virtual one can define and import symbol, *)
(* with the diamond, the chain and the flat graph, and with or without a      *)
(* library nobody finds at the end of app's list.                             *)
Graphs ==
  {[app |-> a, dep |-> d] : a \in {<<dep, leaf>>, <<leaf, dep>>, <<dep>>, <<virt, dep, gone>>},
                            d \in {<<>>, <<leaf>>, <<virt>>}}

World(g, def, imp, weak, dl, exe) ==
  [needed  |-> [l \in Libs |-> CASE l = app -> g.app [] l = dep -> g.dep [] OTHER -> <<>>],
   defines |-> def, imports |-> imp, weak |-> weak, dl |-> dl,
   missing |-> {gone}, executables |-> exe, virtual |-> <<virt>>,
   inits   |-> {app, dep, leaf}]

Maps(S) == [Libs -> SUBSET S]

OneSymbol ==
  {World(g, def, imp, weak, dl, {}) :
     g \in Graphs,
     def \in {f \in Maps({symbol}) : f[gone] = {}},
     imp \in {f \in Maps({symbol}) : f[gone] = {} /\ f[virt] = {}},
     weak \in SUBSET {symbol}, dl \in SUBSET {symbol}}

BindingWorlds ==
  {w \in OneSymbol : /\ w.weak = {} \/ w.dl = {}
                     /\ \E l \in Libs : w.imports[l] # {}
                     /\ Cardinality({l \in Libs : w.defines[l] # {}}) < 3
                     /\ \A l \in Libs : w.defines[l] \cap w.imports[l] = {}}

\* The same graphs with an executable that defines what the others resolved.
ExecutableWorlds ==
  {World(g, [l \in Libs |-> IF l \in {dep, leaf} THEN {symbol} ELSE {}],
         [l \in Libs |-> IF l = app THEN {symbol} ELSE {}], {}, {}, {leaf}) : g \in Graphs}

\* Two libraries that need one another.
CycleWorlds ==
  {World([app |-> <<dep>>, dep |-> <<app>>], [l \in Libs |-> {}], [l \in Libs |-> {}],
         {}, {}, {})}

AllWorlds == BindingWorlds \cup ExecutableWorlds \cup CycleWorlds

-----------------------------------------------------------------------------
GnuHashes == <<5, 69, 198>>     \* 5 and 69 share the bits of a bloom word
SysvHashes == <<4, 6, 7>>
Values == <<16, 32, 48>>
Sizes == <<16, 12, 0>>
ContentsOf(names) == {c \in [defs : SUBSET names, imports : SUBSET names] : c.defs \cap c.imports = {}}

Shape(sysv, gnu, nbucket, maskwords, shift2) ==
  [sysv |-> sysv, gnu |-> gnu, nbucket |-> nbucket, maskwords |-> maskwords, shift2 |-> shift2]
GnuShapes == {Shape(FALSE, TRUE, 1, 1, 3), Shape(FALSE, TRUE, 2, 2, 1)}
AnyShapes == GnuShapes \cup {Shape(TRUE, FALSE, 2, 1, 1), Shape(TRUE, TRUE, 1, 1, 3)}

AnyLookup == INSTANCE SymbolLookup WITH
  Names <- {1, 2, 3}, GnuHash <- GnuHashes, SysvHash <- SysvHashes, Value <- Values, Size <- Sizes,
  Shapes <- AnyShapes, Contents <- ContentsOf({1, 2, 3}), Modules <- <<"liba", "libb">>,
  Needs <- {[liba |-> <<>>, libb |-> <<>>], [liba |-> <<>>, libb |-> <<"liba">>]},
  Bases <- [liba |-> 100, libb |-> 200], ModuleSize <- 64, Entries <- {24},
  Addresses <- {99, 116, 131, 132, 144, 164, 216}

GnuLookup == INSTANCE SymbolLookup WITH
  Names <- {1, 2}, GnuHash <- GnuHashes, SysvHash <- SysvHashes, Value <- Values, Size <- Sizes,
  Shapes <- GnuShapes, Contents <- ContentsOf({1, 2}), Modules <- <<"libc", "liba", "libb">>,
  Needs <- {[libc |-> <<>>, liba |-> <<"libc">>, libb |-> <<"liba", "libc">>],
            [libc |-> <<>>, liba |-> <<>>, libb |-> <<"libc", "liba">>]},
  Bases <- [libc |-> 100, liba |-> 200, libb |-> 300], ModuleSize <- 64, Entries <- {24},
  Addresses <- {116, 131, 132, 144, 216, 340}

\* The initial states of the parts that a behaviour is not about.
LoadUnused == INSTANCE Loader WITH Worlds <- CycleWorlds
LookupUnused == INSTANCE SymbolLookup WITH
  Names <- {}, GnuHash <- <<>>, SysvHash <- <<>>, Value <- <<>>, Size <- <<>>, Shapes <- {},
  Contents <- {}, Modules <- <<>>, Needs <- {<<>>}, Bases <- <<>>, ModuleSize <- 64,
  Entries <- {}, Addresses <- {}

MCInit ==
  \/ part = "load" /\ Init /\ LookupUnused!Init
  \/ part = "any" /\ LoadUnused!Init /\ AnyLookup!Init
  \/ part = "gnu" /\ LoadUnused!Init /\ GnuLookup!Init

MCNext ==
  \/ part = "load" /\ Next /\ UNCHANGED <<part, lookupVars>>
  \/ part = "any" /\ AnyLookup!Next /\ UNCHANGED <<part, vars>>
  \/ part = "gnu" /\ GnuLookup!Next /\ UNCHANGED <<part, vars>>

MCSpec == MCInit /\ [][MCNext]_<<part, vars, lookupVars>>

-----------------------------------------------------------------------------
(* find_symbol_by_name succeeds exactly when a module it may look at has the *)
(* name in its hash table, and gives the entry of the first such module in   *)
(* the order of DT_NEEDED; dladdr never names a symbol that does not contain *)
(* the address.  With GNU sections a search by name never answers with an    *)
(* import and dladdr misses no exported symbol: no bloom word, bucket or     *)
(* chain hides one.                                                          *)
LookupExact ==
  /\ part = "any" => AnyLookup!NameLookupExact /\ AnyLookup!DladdrCovers
  /\ part = "gnu" => GnuLookup!FoundIsDefined /\ GnuLookup!DladdrComplete
=============================================================================
