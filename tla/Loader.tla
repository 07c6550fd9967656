------------------------------- MODULE Loader -------------------------------
(* The dynamic linker of the emulator (memory/mod.rs, linux/symbol.rs and      *)
(* linux/module.rs).  One call of AndroidEmulator::load_library reads a        *)
(* library, loads what it needs first (a recursion, here the stack `stack`),   *)
(* binds the imported symbols, inserts the module, resolves what is left       *)
(* against everything loaded, and runs the init functions of every module that *)
(* still has some.  A module is an instance of a library: loading a library a  *)
(* second time makes a second instance that takes the first one's place in the *)
(* ordered map `modules`.                                                      *)
(*                                                                             *)
(* A library is a name; `world` says which libraries it needs (in order),      *)
(* which symbols it defines and imports, which of these are weak or belong to  *)
(* the libdl family, which libraries cannot be found and which are loaded as   *)
(* executables (ET_EXEC, or with a preinit array).  Segments, addresses and    *)
(* the bytes of a relocation are left out: a slot of a module names the        *)
(* instance whose base it was computed from and the one whose symbol value it  *)
(* holds.                                                                      *)
EXTENDS Integers, Sequences, FiniteSetsExt, Functions

CONSTANTS Libs,        \* libraries that can be asked for
          Syms,        \* imported symbols
          LibCxx,      \* the library whose init functions a dependent never runs
          Worlds,      \* the sets of library files the emulator may be started on
          MaxLoads,    \* bound on calls of load_library
          MaxDepth     \* host stack: nested loads beyond it overflow

(* DT_NEEDED lists libraries, imports are symbols, and the virtual modules    *)
(* have different names (they are keys of the map) and no init functions.     *)
ASSUME LoaderAssumption ==
  /\ MaxLoads \in Nat /\ MaxDepth \in Nat
  /\ \A w \in Worlds : /\ w.needed \in [Libs -> Seq(Libs)]
                       /\ w.imports \in [Libs -> SUBSET Syms]
                       /\ w.virtual \in Seq(Libs) /\ IsInjective(w.virtual)
                       /\ Range(w.virtual) \cap w.inits = {}

VARIABLES world, inst, modules, stack, phase, target, force, cursor, exit_status,
          loads, started, excused, last

vars == <<world, inst, modules, stack, phase, target, force, cursor, exit_status,
          loads, started, excused, last>>

\* Values of a slot: not written, written as 0 (weak), a hook of the virtual libdl.
Unbound == [base |-> 0, value |-> 0, kind |-> "unbound"]
Zero    == [base |-> 0, value |-> 0, kind |-> "zero"]
LibDl   == [base |-> 0, value |-> 0, kind |-> "libdl"]
To(i)   == [base |-> i, value |-> i, kind |-> "module"]

\* LinuxModule::new, as far as the linker reads it.
Module(lib, needed, unresolved, slot, inits) ==
  [lib |-> lib, needed |-> needed, unresolved |-> unresolved, slot |-> slot,
   resolved |-> {s \in Syms : slot[s].kind # "unbound"}, inits |-> inits, ref_cnt |-> 0]

\* A virtual module: a table of hooks, no ELF image, no imports.
create_virtual_module(lib) == Module(lib, <<>>, {}, [s \in Syms |-> Unbound], FALSE)

-----------------------------------------------------------------------------
\* ModuleSymbol::resolve over an ordered map of modules.

Definers(ids, s) == {k \in DOMAIN ids : s \in world.defines[inst[ids[k]].lib]}

Resolve(ids, s, resolve_weak) ==
  CASE Definers(ids, s) # {}              -> To(ids[Min(Definers(ids, s))])
    [] Definers(ids, s) = {} /\ resolve_weak /\ s \in world.weak -> Zero
    [] Definers(ids, s) = {} /\ resolve_weak /\ s \in world.dl \ world.weak -> LibDl
    [] OTHER                              -> Unbound

\* ModuleSymbol::relocation of every symbol of `syms` that `found` resolves.
Relocate(m, syms, found) ==
  LET done == {s \in syms : found[s].kind # "unbound"}
  IN  [m EXCEPT !.slot = [s \in Syms |-> IF s \in done THEN found[s] ELSE @[s]],
                !.resolved = @ \cup done]

\* Mutant: the retain keeps what it could not resolve.
RetainUnresolved(m) ==
  LET found == [s \in Syms |-> Resolve(m.needed, s, FALSE)]
  IN  [Relocate(m, m.unresolved, found) EXCEPT
         !.unresolved = {s \in @ : found[s].kind = "unbound"}]

(* The pass over the loaded modules before a new one is relocated.  The       *)
(* closure given to `retain` answers true for a symbol it resolved: resolved  *)
(* symbols stay in the list and the others leave it.                          *)
Retain(m) ==
  LET found == [s \in Syms |-> Resolve(m.needed, s, FALSE)]
  IN  [Relocate(m, m.unresolved, found) EXCEPT
         !.unresolved = {s \in @ : found[s].kind # "unbound"}]

(* relocation_ex2: an executable that defines a symbol another module has     *)
(* resolved rewrites the slot with its own symbol value, on the base recorded *)
(* in the slot.  The table of resolved symbols is emptied.                    *)
Interpose(m, exe, id) ==
  [m EXCEPT !.slot = [s \in Syms |->
                        IF s \in m.resolved \cap world.defines[exe] /\ @[s].kind = "module"
                        THEN [@[s] EXCEPT !.value = id] ELSE @[s]],
            !.resolved = {}]

\* The modules as they are when instance id of `lib` has been relocated.
AfterRelocation(lib, id) ==
  [i \in DOMAIN inst |->
     LET m == IF i \in Range(modules) THEN Retain(inst[i]) ELSE inst[i]
     IN  IF i \in Range(modules) /\ lib \in world.executables
         THEN Interpose(m, lib, id) ELSE m]

\* The new instance: imports bound to the needed libraries, the others listed.
NewModule(lib, needed) ==
  LET slot == [s \in Syms |-> IF s \in world.imports[lib]
                              THEN Resolve(needed, s, FALSE) ELSE Unbound]
  IN  Module(lib, needed, {s \in world.imports[lib] : slot[s].kind = "unbound"},
             slot, lib \in world.inits)

Position(lib) == {k \in DOMAIN modules : inst[modules[k]].lib = lib}

\* Mutant: the new module goes to the front of the map.
InsertFirst(lib, id) ==
  IF Position(lib) = {} THEN <<id>> \o modules
  ELSE [modules EXCEPT ![Min(Position(lib))] = id]

\* IndexMap::insert: a present key keeps its position and gets the new value.
Insert(lib, id) ==
  IF Position(lib) = {} THEN Append(modules, id)
  ELSE [modules EXCEPT ![Min(Position(lib))] = id]

-----------------------------------------------------------------------------
Init ==
  /\ world \in Worlds
  /\ inst = [k \in 1..Len(world.virtual) |-> create_virtual_module(world.virtual[k])]
  /\ modules = [k \in 1..Len(world.virtual) |-> k]
  /\ stack = <<>> /\ phase = "idle" /\ target = 0 /\ force = FALSE /\ cursor = 0
  /\ exit_status = FALSE /\ loads = 0 /\ started = <<>> /\ excused = {} /\ last = "none"

\* load_library(lib, force_init), up to the first line of the recursion.
Load(lib, force_init) ==
  /\ phase = "idle" /\ loads < MaxLoads
  /\ lib \notin Range(world.virtual)
  /\ loads' = loads + 1
  /\ stack' = <<[lib |-> lib, needed |-> <<>>]>>
  /\ phase' = "load" /\ force' = force_init /\ last' = "none" /\ target' = 0
  /\ UNCHANGED <<world, inst, modules, cursor, exit_status, started, excused>>

Top    == stack[Len(stack)]
Wanted == world.needed[Top.lib][Len(Top.needed) + 1]
Needs  == phase = "load" /\ Len(Top.needed) < Len(world.needed[Top.lib])

\* Give the library on top of the stack its next needed module.
Provide(frames, id) ==
  [frames EXCEPT ![Len(frames)].needed = Append(@, id)]

\* A needed library that is loaded already.
NeedLoaded ==
  /\ Needs /\ Position(Wanted) # {}
  /\ LET id == modules[Min(Position(Wanted))]
     IN  /\ inst' = [inst EXCEPT ![id].ref_cnt = @ + 1]
         /\ stack' = Provide(stack, id)
  /\ UNCHANGED <<world, modules, phase, target, force, cursor, exit_status,
                 loads, started, excused, last>>

\* A needed library that has to be loaded: the recursive call.
NeedLoad ==
  /\ Needs /\ Position(Wanted) = {} /\ Wanted \notin world.missing
  /\ Len(stack) < MaxDepth
  /\ stack' = Append(stack, [lib |-> Wanted, needed |-> <<>>])
  /\ UNCHANGED <<world, inst, modules, phase, target, force, cursor, exit_status,
                 loads, started, excused, last>>

\* A needed library no resolver finds: every frame returns the error.
NeedMissing ==
  /\ Needs /\ Position(Wanted) = {} /\ Wanted \in world.missing
  /\ stack' = <<>> /\ phase' = "idle" /\ last' = "failed"
  /\ UNCHANGED <<world, inst, modules, target, force, cursor, exit_status,
                 loads, started, excused>>

\* Libraries that need one another are loaded until the host stack is used up.
NeedOverflow ==
  /\ Needs /\ Position(Wanted) = {} /\ Wanted \notin world.missing
  /\ Len(stack) = MaxDepth
  /\ stack' = <<>> /\ phase' = "crashed"
  /\ UNCHANGED <<world, inst, modules, target, force, cursor, exit_status,
                 loads, started, excused, last>>

\* Everything needed is there: relocate, insert, return to the caller.
Finish ==
  /\ phase = "load" /\ ~Needs
  /\ LET id    == Len(inst) + 1
         new   == NewModule(Top.lib, Top.needed)
         outer == Len(stack) > 1
     IN  /\ inst' = Append(AfterRelocation(Top.lib, id),
                           IF outer THEN [new EXCEPT !.ref_cnt = 1] ELSE new)
         /\ modules' = Insert(Top.lib, id)
         /\ stack' = IF outer THEN Provide(SubSeq(stack, 1, Len(stack) - 1), id)
                              ELSE <<>>
         /\ phase' = IF outer THEN "load" ELSE "resolve"
         /\ target' = IF outer THEN target ELSE id
  /\ UNCHANGED <<world, force, cursor, exit_status, loads, started, excused, last>>

\* resolve_symbols: the symbols still listed, against every module, weak included.
resolve_symbols ==
  /\ phase = "resolve"
  /\ inst' = [i \in DOMAIN inst |->
                IF i \in Range(modules)
                THEN Relocate(inst[i], inst[i].unresolved,
                              [s \in Syms |-> Resolve(modules, s, TRUE)])
                ELSE inst[i]]
  /\ phase' = "init" /\ cursor' = 1
  /\ UNCHANGED <<world, modules, stack, target, force, exit_status, loads, started,
                 excused, last>>

\* Mutant: the init functions are called whether or not the list was used up.
RunsAgain(m, must_call_init) ==
  m.lib \in world.inits /\ (must_call_init \/ (m.unresolved = {} /\ m.lib # LibCxx))

\* call_init_functions reaches its loop, and there is something in the list.
Runs(m, must_call_init) ==
  m.inits /\ (must_call_init \/ (m.unresolved = {} /\ m.lib # LibCxx))

\* The init functions of the module under the cursor; the guest may exit in one.
call_init_functions ==
  /\ phase = "init" /\ cursor <= Len(modules)
  /\ LET i    == modules[cursor]
         runs == Runs(inst[i], force /\ i = target)
     IN  /\ started' = IF runs THEN Append(started, i) ELSE started
         /\ excused' = IF inst[i].inits /\ ~runs THEN excused \cup {i} ELSE excused
         /\ exit_status' \in IF runs THEN {exit_status, TRUE} ELSE {exit_status}
         /\ inst' = [inst EXCEPT ![i].inits = FALSE]
         /\ cursor' = IF exit_status' THEN Len(modules) + 1 ELSE cursor + 1
  /\ UNCHANGED <<world, modules, stack, phase, target, force, loads, last>>

\* The end of load_internal, and release_cached_library.
LoadDone ==
  /\ phase = "init" /\ cursor > Len(modules)
  /\ inst' = [i \in DOMAIN inst |->
                [inst[i] EXCEPT !.inits = @ /\ i \notin Range(modules),
                                !.ref_cnt = IF i = target THEN @ + 1 ELSE @]]
  /\ phase' = "idle" /\ last' = "ok"
  /\ UNCHANGED <<world, modules, stack, target, force, cursor, exit_status, loads,
                 started, excused>>

Step == \/ NeedLoaded \/ NeedLoad \/ NeedMissing \/ NeedOverflow \/ Finish
        \/ resolve_symbols \/ call_init_functions \/ LoadDone

Next == \/ \E lib \in Libs, force_init \in BOOLEAN : Load(lib, force_init)
        \/ Step

Spec == Init /\ [][Next]_vars

-----------------------------------------------------------------------------
Ids == 1..Len(inst)
Bindings == [base : 0..Len(inst), value : 0..Len(inst),
             kind : {"unbound", "zero", "libdl", "module"}]

TypeOK ==
  /\ \A i \in Ids : /\ inst[i].lib \in Libs
                    /\ inst[i].unresolved \subseteq Syms
                    /\ inst[i].resolved \subseteq Syms
                    /\ Range(inst[i].needed) \subseteq Ids
                    /\ inst[i].slot \in [Syms -> Bindings]
                    /\ inst[i].inits \in BOOLEAN /\ inst[i].ref_cnt \in Nat
  /\ Range(modules) \subseteq Ids
  /\ \A k \in DOMAIN stack : stack[k].lib \in Libs /\ Range(stack[k].needed) \subseteq Ids
  /\ phase \in {"idle", "load", "resolve", "init", "crashed"}
  /\ target \in 0..Len(inst) /\ force \in BOOLEAN /\ exit_status \in BOOLEAN
  /\ cursor \in 0..(Len(modules) + 1) /\ loads \in 0..MaxLoads
  /\ Range(started) \subseteq Ids /\ excused \subseteq Ids
  /\ last \in {"none", "ok", "failed"}

HasInits(i) == inst[i].lib \in world.inits

(* When the init functions of a module start, no module it needs has init     *)
(* functions left to run (load_internal walks the map in the order the        *)
(* recursion filled it), also across failed loads, second loads of a library  *)
(* and a guest that exits in the middle.  A needed module that a second load  *)
(* has replaced in the map is out of load_internal's reach.                   *)
DependenciesFirst ==
  [][\A i \in Range(started') \ Range(started) : \A d \in Range(inst[i].needed) :
       d \in Range(modules) => ~inst[d].inits]_vars

(* No init function of a module runs twice, however often libraries are       *)
(* loaded after it (pop_front and the clear() after every call).              *)
InitOnce == IsInjective(started)

(* When load_library answers, every module of the map has run its init        *)
(* functions or was passed over by call_init_functions, the modules an        *)
(* earlier, failed load left behind included.                                 *)
InitReached ==
  phase = "idle" /\ last = "ok" /\ ~exit_status =>
    \A i \in Range(modules) : HasInits(i) => i \in Range(started) \cup excused

(* The only module passed over for unresolved symbols is the library asked    *)
(* for, when it was not forced: a dependency's init functions never fall      *)
(* victim to the `unresolved_symbol` test of call_init_functions.             *)
OnlyTargetSkipped ==
  [][\A i \in excused' \ excused :
       inst[i].lib = LibCxx \/ (i = target /\ ~force)]_vars

(* When load_library answers, each import of the library asked for that some  *)
(* loaded module defines is bound to a module that defines it; one that is    *)
(* weak or belongs to libdl is bound as well.                                 *)
TargetBound ==
  phase = "idle" /\ last = "ok" =>
    \A s \in world.imports[inst[target].lib] :
      LET b == inst[target].slot[s]
      IN  /\ b.kind = "module" => s \in world.defines[inst[b.base].lib]
          /\ b.kind # "module" => Definers(modules, s) = {}
          /\ s \in world.weak \cup world.dl => b.kind # "unbound"

(* A needed library that defines a symbol comes before any other definition:  *)
(* the binding of an import is the first definition among the needed          *)
(* libraries whenever they have one, and stays so.                            *)
NeededFirst ==
  \A i \in Ids : \A s \in world.imports[inst[i].lib] :
    Definers(inst[i].needed, s) # {} =>
      inst[i].slot[s].base = inst[i].needed[Min(Definers(inst[i].needed, s))]

(* Once the init functions of a module have started, a slot it has been given *)
(* keeps its value through every later load, unless an executable that        *)
(* defines the symbol is loaded.                                              *)
SlotsStable ==
  [][\A i \in Range(started) : \A s \in Syms :
       inst[i].slot[s].kind # "unbound" =>
         \/ inst'[i].slot[s] = inst[i].slot[s]
         \/ \E l \in world.executables : s \in world.defines[l]]_vars

(* Loading: when load_library answers, every module of the map has run its   *)
(* init functions or was passed over by call_init_functions, the modules an  *)
(* earlier, failed load left behind included, and none has run them twice,   *)
(* however often libraries are loaded after it.                              *)
InitExactlyOnce == TypeOK /\ InitOnce /\ InitReached

(* When the init functions of a module start, no module it needs has any     *)
(* left to run, and no dependency falls victim to the test for unresolved    *)
(* symbols (call_init_functions), across failed loads, second loads and a    *)
(* guest that exits in the middle.                                           *)
InitOrder == DependenciesFirst /\ OnlyTargetSkipped

(* Imports are bound to modules that define them, a needed library before    *)
(* any other, and a module that has started keeps its bindings through every *)
(* later load, unless an executable defines the symbol (resolve_symbols).    *)
BindingsRight == [](TargetBound /\ NeededFirst) /\ SlotsStable
=============================================================================
