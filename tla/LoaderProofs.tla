---------------------------- MODULE LoaderProofs ----------------------------
(***************************************************************************)
(* Init functions and bindings of Loader, for every set of libraries and   *)
(* symbols, every graph of needed libraries, cyclic ones included, and any *)
(* number of loads.                                                        *)
(***************************************************************************)
EXTENDS Loader, WellFoundedInduction, TLAPS

-----------------------------------------------------------------------------
(* The inductive invariant *)

BindingSet(n) ==
  {b \in [base : 0 .. n, value : 0 .. n, kind : {"unbound", "zero", "libdl", "module"}] :
     b.kind = "module" => b.base # 0}

ModuleSet(n) ==
  [lib : Libs, needed : Seq(1 .. n), unresolved : SUBSET Syms,
   slot : [Syms -> BindingSet(n)], resolved : SUBSET Syms, inits : BOOLEAN, ref_cnt : Nat]

FrameSet(n) == [lib : Libs, needed : Seq(1 .. n)]

TypeInv ==
  /\ world \in Worlds
  /\ inst \in Seq(ModuleSet(Len(inst)))
  /\ modules \in Seq(Ids)
  /\ stack \in Seq(FrameSet(Len(inst)))
  /\ phase \in {"idle", "load", "resolve", "init", "crashed"}
  /\ target \in 0 .. Len(inst) /\ force \in BOOLEAN /\ exit_status \in BOOLEAN
  /\ cursor \in 0 .. (Len(modules) + 1) /\ loads \in 0 .. MaxLoads
  /\ started \in Seq(Ids) /\ excused \subseteq Ids
  /\ last \in {"none", "ok", "failed"}

InMap(lib) == \E k \in DOMAIN modules : inst[modules[k]].lib = lib

\* The map has one entry per library; virtual modules are never taken out, and
\* what a module needs stands before it.
MapInv ==
  /\ \A j, k \in DOMAIN modules : inst[modules[j]].lib = inst[modules[k]].lib => j = k
  /\ \A k \in DOMAIN world.virtual : InMap(world.virtual[k])
  /\ \A k \in DOMAIN modules : \A d \in DOMAIN inst[modules[k]].needed :
       \E j \in 1 .. k - 1 : inst[modules[j]].lib = inst[inst[modules[k]].needed[d]].lib

\* ids are instances of the first libraries that lib needs, in their order.
Listed(lib, ids) ==
  /\ Len(ids) <= Len(world.needed[lib])
  /\ \A j \in DOMAIN ids : inst[ids[j]].lib = world.needed[lib][j]

Virtual(lib) == lib \in Range(world.virtual)

NeedInv ==
  \A i \in Ids :
    IF Virtual(inst[i].lib)
      THEN inst[i].needed = <<>>
      ELSE /\ Listed(inst[i].lib, inst[i].needed)
           /\ Len(inst[i].needed) = Len(world.needed[inst[i].lib])

\* The frames of the recursion: each has instances of the first libraries it needs,
\* which stand in the map, and loads the next library its caller needs.
FrameOK(w, m, ms, f) ==
  /\ f.lib \notin Range(w.virtual)
  /\ Len(f.needed) <= Len(w.needed[f.lib])
  /\ \A j \in DOMAIN f.needed :
       /\ m[f.needed[j]].lib = w.needed[f.lib][j]
       /\ \E p \in DOMAIN ms : m[ms[p]].lib = w.needed[f.lib][j]

Calls(w, f, g) ==
  /\ Len(f.needed) < Len(w.needed[f.lib])
  /\ g.lib = w.needed[f.lib][Len(f.needed) + 1]

StackInv ==
  /\ phase = "load" <=> stack # <<>>
  /\ \A k \in DOMAIN stack : FrameOK(world, inst, modules, stack[k])
  /\ \A k \in 1 .. Len(stack) - 1 : Calls(world, stack[k], stack[k + 1])

\* Definers(ids, s) among the libraries of w with the modules m.
Defs(w, m, ids, s) == {k \in DOMAIN ids : s \in w.defines[m[ids[k]].lib]}

\* A symbol is listed as unresolved only when no needed library defines it, so
\* the retain of a later load empties the list.
NeededUndefined ==
  \A i \in Ids : \A s \in inst[i].unresolved : Defs(world, inst, inst[i].needed, s) = {}

UnresolvedInv ==
  /\ NeededUndefined
  /\ phase \in {"resolve", "init"} =>
       /\ target \in Range(modules)
       /\ \A i \in Range(modules) \ {target} : inst[i].unresolved = {}
  /\ phase = "resolve" => target \notin Range(started)

InitInv ==
  /\ InitOnce
  /\ \A i \in Range(started) : ~inst[i].inits
  /\ ~exit_status =>
       \A i \in Ids : HasInits(i) => inst[i].inits \/ i \in Range(started) \cup excused
  /\ phase = "init" => cursor >= 1
  /\ phase = "init" /\ (cursor <= Len(modules) \/ ~exit_status) =>
       \A k \in 1 .. cursor - 1 : ~inst[modules[k]].inits
  /\ phase = "idle" /\ last = "ok" => \A i \in Range(modules) : ~inst[i].inits

\* What the imports of the library asked for are bound to at the end of the load.
Bound(i) ==
  \A s \in world.imports[inst[i].lib] :
    LET b == inst[i].slot[s]
    IN  /\ b.kind = "module" => s \in world.defines[inst[b.base].lib]
        /\ b.kind # "module" => Defs(world, inst, modules, s) = {}
        /\ s \in world.weak \cup world.dl => b.kind # "unbound"

\* And before resolve_symbols, when it is bound to needed libraries only.
HalfBound(i) ==
  \A s \in world.imports[inst[i].lib] :
    LET b == inst[i].slot[s]
    IN  \/ s \in inst[i].unresolved /\ b = Unbound
        \/ s \notin inst[i].unresolved /\ b.kind = "module" /\ s \in world.defines[inst[b.base].lib]

FirstBound ==
  \A i \in Ids : \A s \in world.imports[inst[i].lib] :
    Defs(world, inst, inst[i].needed, s) # {} =>
      inst[i].slot[s].base = inst[i].needed[Min(Defs(world, inst, inst[i].needed, s))]

BindInv ==
  /\ FirstBound
  /\ phase = "resolve" => target \in Ids /\ HalfBound(target)
  /\ phase = "init" \/ (phase = "idle" /\ last = "ok") => target \in Ids /\ Bound(target)

LoaderInv == TypeInv /\ MapInv /\ NeedInv /\ StackInv /\ UnresolvedInv /\ InitInv /\ BindInv

-----------------------------------------------------------------------------
(* Operators of the model *)

\* A set of natural numbers that is not empty has a least element.
LEMMA LeastPosition ==
  ASSUME NEW S \in SUBSET Nat, S # {}
  PROVE  Min(S) \in S /\ \A y \in S : Min(S) <= y
<1> DEFINE R == OpToRel(<, Nat)
<1>1. IsWellFoundedOn(R, Nat)
  BY Zenon, NatLessThanWellFounded
<1>2. \A x, y \in Nat : <<x, y>> \in R <=> x < y
  BY Zenon DEF OpToRel
<1> HIDE DEF R
<1>3. PICK x \in S : \A y \in S : ~(<<y, x>> \in R)
  BY Zenon, <1>1, WFMin
<1>4. ASSUME NEW y \in S PROVE x <= y
  <2>1. ~(y < x)
    BY Zenon, <1>2, <1>3
  <2> QED BY <2>1
<1> QED BY Zenon, <1>4 DEF Min

\* The fields of a module of the map.
LEMMA Fields ==
  ASSUME TypeInv, NEW i \in Ids
  PROVE  /\ inst[i] \in ModuleSet(Len(inst))
         /\ inst[i].lib \in Libs /\ inst[i].needed \in Seq(Ids)
         /\ inst[i].unresolved \subseteq Syms /\ inst[i].resolved \subseteq Syms
         /\ inst[i].slot \in [Syms -> BindingSet(Len(inst))]
         /\ inst[i].inits \in BOOLEAN /\ inst[i].ref_cnt \in Nat
<1>1. inst[i] \in ModuleSet(Len(inst))
  BY DEF TypeInv, Ids
<1> QED BY Zenon, <1>1 DEF ModuleSet, Ids

\* The frames of the recursion.
LEMMA FrameTypes ==
  ASSUME TypeInv, NEW k \in DOMAIN stack
  PROVE  /\ stack[k] \in FrameSet(Len(inst))
         /\ stack[k].lib \in Libs /\ stack[k].needed \in Seq(Ids)
<1>1. stack[k] \in FrameSet(Len(inst))
  BY DEF TypeInv
<1> QED BY Zenon, <1>1 DEF FrameSet, Ids

\* The files of the world.
LEMMA WorldTypes ==
  ASSUME TypeInv
  PROVE  /\ world.needed \in [Libs -> Seq(Libs)]
         /\ world.imports \in [Libs -> SUBSET Syms]
         /\ world.virtual \in Seq(Libs) /\ IsInjective(world.virtual)
BY Zenon, LoaderAssumption DEF TypeInv

\* Where a library is in the map.
LEMMA Positions ==
  ASSUME TypeInv, MapInv, NEW lib
  PROVE  /\ Position(lib) # {} <=> InMap(lib)
         /\ Position(lib) # {} => /\ Min(Position(lib)) \in DOMAIN modules
                                  /\ modules[Min(Position(lib))] \in Ids
                                  /\ inst[modules[Min(Position(lib))]].lib = lib
<1>1. Position(lib) \in SUBSET Nat
  BY DEF Position, TypeInv
<1>2. Position(lib) # {} => Min(Position(lib)) \in Position(lib)
  BY Zenon, <1>1, LeastPosition
<1> QED BY <1>2 DEF Position, InMap, TypeInv

\* ModuleSymbol::resolve: the first definition, or a placeholder when there is none.
LEMMA Resolved ==
  ASSUME TypeInv, NEW ids \in Seq(Ids), NEW s, NEW w \in BOOLEAN
  PROVE  /\ Defs(world, inst, ids, s) # {} =>
              /\ Min(Defs(world, inst, ids, s)) \in DOMAIN ids
              /\ ids[Min(Defs(world, inst, ids, s))] \in Ids
              /\ s \in world.defines[inst[ids[Min(Defs(world, inst, ids, s))]].lib]
              /\ Resolve(ids, s, w) = To(ids[Min(Defs(world, inst, ids, s))])
         /\ Defs(world, inst, ids, s) = {} =>
              /\ Resolve(ids, s, w) \in {Zero, LibDl, Unbound}
              /\ ~w => Resolve(ids, s, w) = Unbound
              /\ w /\ s \in world.weak \cup world.dl => Resolve(ids, s, w) # Unbound
         /\ Resolve(ids, s, w) \in BindingSet(Len(inst))
<1>1. Defs(world, inst, ids, s) \in SUBSET Nat
  BY DEF Defs
<1>2. Defs(world, inst, ids, s) # {} => Min(Defs(world, inst, ids, s)) \in Defs(world, inst, ids, s)
  BY Zenon, <1>1, LeastPosition
<1>3. Defs(world, inst, ids, s) # {} =>
        /\ Min(Defs(world, inst, ids, s)) \in DOMAIN ids
        /\ ids[Min(Defs(world, inst, ids, s))] \in Ids
        /\ s \in world.defines[inst[ids[Min(Defs(world, inst, ids, s))]].lib]
  <2>1. \A k \in Defs(world, inst, ids, s) :
          k \in DOMAIN ids /\ ids[k] \in Ids /\ s \in world.defines[inst[ids[k]].lib]
    BY DEF Defs
  <2> QED BY Zenon, <1>2, <2>1
<1>4. Defs(world, inst, ids, s) # {} => Resolve(ids, s, w) = To(ids[Min(Defs(world, inst, ids, s))])
  BY Zenon DEF Resolve, Definers, Defs
<1>5. Defs(world, inst, ids, s) = {} =>
        /\ Resolve(ids, s, w) \in {Zero, LibDl, Unbound}
        /\ ~w => Resolve(ids, s, w) = Unbound
        /\ w /\ s \in world.weak \cup world.dl => Resolve(ids, s, w) # Unbound
  BY Zenon DEF Resolve, Definers, Defs, Zero, LibDl, Unbound
<1>6. Len(inst) \in Nat
  BY DEF TypeInv
<1>7. {Zero, LibDl, Unbound} \subseteq BindingSet(Len(inst))
  BY <1>6 DEF Zero, LibDl, Unbound, BindingSet
<1>8. \A i \in Ids : To(i) \in BindingSet(Len(inst))
  BY <1>6 DEF To, BindingSet, Ids
<1> QED BY Zenon, <1>3, <1>4, <1>5, <1>7, <1>8

\* The pass of a later load over a module whose needed libraries define nothing
\* that it lists: the list is emptied and the slots stay as they are.
LEMMA RetainEmpties ==
  ASSUME TypeInv, NEW i \in Ids,
         \A s \in inst[i].unresolved : Defs(world, inst, inst[i].needed, s) = {}
  PROVE  Retain(inst[i]) = [inst[i] EXCEPT !.unresolved = {}]
<1> DEFINE found == [s \in Syms |-> Resolve(inst[i].needed, s, FALSE)]
<1>1. inst[i] \in ModuleSet(Len(inst)) /\ inst[i].unresolved \subseteq Syms
      /\ inst[i].slot = [s \in Syms |-> inst[i].slot[s]]
  BY Zenon, Fields
<1>2. \A s \in inst[i].unresolved : found[s] = Unbound
  BY Zenon, Fields, Resolved
<1> HIDE DEF found
<1>3. \A s \in inst[i].unresolved : found[s].kind = "unbound"
  BY <1>2 DEF Unbound
<1>4. {s \in inst[i].unresolved : found[s].kind # "unbound"} = {}
  BY Zenon, <1>3
<1>5. Relocate(inst[i], inst[i].unresolved, found) = inst[i]
  BY Zenon, <1>1, <1>4 DEF Relocate, ModuleSet
<1>6. Retain(inst[i]) = [inst[i] EXCEPT !.unresolved = {}]
  BY Zenon, <1>1, <1>4, <1>5 DEF Retain, found, ModuleSet
<1> QED BY Zenon, <1>6

-----------------------------------------------------------------------------
(* Steps that leave libraries, lists and slots alone *)

\* A step that changes neither the map nor what its modules are.
ShapeKept ==
  /\ world' = world /\ modules' = modules /\ Len(inst') = Len(inst)
  /\ \A i \in Ids : inst'[i].lib = inst[i].lib /\ inst'[i].needed = inst[i].needed

\* One that changes at most reference counts and pending init functions.
Quiet ==
  /\ ShapeKept
  /\ \A i \in Ids : inst'[i].unresolved = inst[i].unresolved /\ inst'[i].slot = inst[i].slot

\* A step of this kind finds the same libraries and definitions at every id.
LEMMA ShapeFacts ==
  ASSUME TypeInv, ShapeKept
  PROVE  /\ Ids' = Ids /\ world' = world /\ modules' = modules
         /\ \A k \in DOMAIN modules :
              modules[k] \in Ids /\ inst'[modules[k]].lib = inst[modules[k]].lib
         /\ \A ids \in Seq(Ids) : \A k \in DOMAIN ids :
              ids[k] \in Ids /\ inst'[ids[k]].lib = inst[ids[k]].lib
         /\ \A i \in Ids : /\ inst[i].needed \in Seq(Ids)
                           /\ inst'[i].needed = inst[i].needed /\ inst'[i].lib = inst[i].lib
         /\ \A ids \in Seq(Ids) : \A s : Defs(world, inst', ids, s) = Defs(world, inst, ids, s)
<1>1. Ids' = Ids /\ world' = world /\ modules' = modules
  BY Zenon DEF Ids, ShapeKept
<1>2. \A ids \in Seq(Ids) : \A k \in DOMAIN ids :
        ids[k] \in Ids /\ inst'[ids[k]].lib = inst[ids[k]].lib
  BY DEF ShapeKept
<1>3. \A k \in DOMAIN modules : modules[k] \in Ids /\ inst'[modules[k]].lib = inst[modules[k]].lib
  BY Zenon, <1>2 DEF TypeInv
<1>4. \A i \in Ids : /\ inst[i].needed \in Seq(Ids)
                     /\ inst'[i].needed = inst[i].needed /\ inst'[i].lib = inst[i].lib
  BY Zenon, Fields DEF ShapeKept
<1>5. \A ids \in Seq(Ids) : \A s : Defs(world, inst', ids, s) = Defs(world, inst, ids, s)
  BY Zenon, <1>2 DEF Defs
<1> QED BY Zenon, <1>1, <1>2, <1>3, <1>4, <1>5

\* So the map keeps one module per name, and DT_NEEDED lists stay resolved.
LEMMA ShapeStep ==
  ASSUME TypeInv, MapInv, NeedInv, ShapeKept
  PROVE  MapInv' /\ NeedInv'
<1>1. MapInv'
  <2>1. \A j, k \in DOMAIN modules : inst'[modules[j]].lib = inst'[modules[k]].lib => j = k
    BY Zenon, ShapeFacts DEF MapInv
  <2>2. \A k \in DOMAIN world.virtual : \E j \in DOMAIN modules : inst'[modules[j]].lib = world.virtual[k]
    BY ShapeFacts DEF MapInv, InMap
  <2>3. ASSUME NEW k \in DOMAIN modules, NEW d \in DOMAIN inst[modules[k]].needed
        PROVE  \E j \in 1 .. k - 1 : inst'[modules[j]].lib = inst'[inst[modules[k]].needed[d]].lib
    <3>1. PICK j \in 1 .. k - 1 : inst[modules[j]].lib = inst[inst[modules[k]].needed[d]].lib
      BY Zenon DEF MapInv
    <3>2. j \in DOMAIN modules
      BY DEF TypeInv
    <3> QED BY Zenon, ShapeFacts, <3>1, <3>2
  <2> QED BY ShapeFacts, <2>1, <2>2, <2>3 DEF MapInv, InMap
<1>2. NeedInv'
  <2>1. ASSUME NEW i \in Ids
        PROVE  IF Virtual(inst[i].lib)
                 THEN inst'[i].needed = <<>>
                 ELSE /\ Len(inst'[i].needed) = Len(world.needed[inst[i].lib])
                      /\ \A j \in DOMAIN inst[i].needed :
                           inst'[inst[i].needed[j]].lib = world.needed[inst[i].lib][j]
    BY Zenon, ShapeFacts DEF NeedInv, Listed
  <2>2. \A i \in Ids : Len(inst[i].needed) \in Nat
    BY Fields
  <2>3. \A i \in Ids : inst'[i].needed = inst[i].needed /\ inst'[i].lib = inst[i].lib
    BY Zenon, ShapeFacts
  <2> QED BY ShapeFacts, <2>1, <2>2, <2>3 DEF NeedInv, Listed, Virtual
<1> QED BY Zenon, <1>1, <1>2

\* A quiet step leaves every binding, and what it was resolved against, alone.
LEMMA QuietStep ==
  ASSUME TypeInv, NeededUndefined, FirstBound, Quiet
  PROVE  /\ NeededUndefined' /\ FirstBound'
         /\ \A i \in Ids : Bound(i)' <=> Bound(i)
<1>1. Ids' = Ids /\ world' = world /\ modules' = modules /\ modules \in Seq(Ids)
  BY Zenon, ShapeFacts DEF Quiet, TypeInv
<1>2. \A i \in Ids :
        /\ inst'[i].lib = inst[i].lib /\ inst'[i].needed = inst[i].needed
        /\ inst'[i].unresolved = inst[i].unresolved /\ inst'[i].slot = inst[i].slot
        /\ \A s : Defs(world, inst', inst[i].needed, s) = Defs(world, inst, inst[i].needed, s)
  BY Zenon, ShapeFacts DEF Quiet
<1>3. NeededUndefined'
  <2> SUFFICES ASSUME NEW i \in Ids, NEW s \in inst'[i].unresolved
               PROVE  Defs(world', inst', inst'[i].needed, s) = {}
    BY Zenon, <1>1 DEF NeededUndefined
  <2> QED BY <1>1, <1>2 DEF NeededUndefined
<1>4. FirstBound'
  <2> SUFFICES ASSUME NEW i \in Ids, NEW s \in world'.imports[inst'[i].lib],
                      Defs(world', inst', inst'[i].needed, s) # {}
               PROVE  inst'[i].slot[s].base =
                        inst'[i].needed[Min(Defs(world', inst', inst'[i].needed, s))]
    BY Zenon, <1>1 DEF FirstBound
  <2> DEFINE D == Defs(world, inst, inst[i].needed, s)
  <2>1. /\ inst'[i].lib = inst[i].lib /\ inst'[i].needed = inst[i].needed /\ inst'[i].slot = inst[i].slot
        /\ Defs(world, inst', inst[i].needed, s) = D
    BY Zenon, <1>2
  <2>2. Defs(world', inst', inst'[i].needed, s) = D /\ s \in world.imports[inst[i].lib]
    BY Zenon, <1>1, <2>1
  <2>3. D # {}
    BY Zenon, <2>2
  <2>4. inst[i].slot[s].base = inst[i].needed[Min(D)]
    BY Zenon, <2>2, <2>3 DEF FirstBound
  <2> HIDE DEF D
  <2> QED BY Zenon, <2>1, <2>2, <2>4
<1>5. \A s : Defs(world, inst', modules, s) = Defs(world, inst, modules, s)
  BY Zenon, <1>1, ShapeFacts DEF Quiet
<1>6. ASSUME NEW i \in Ids PROVE Bound(i)' <=> Bound(i)
  <2>1. \A s \in world.imports[inst[i].lib] :
          inst[i].slot[s].kind = "module" => inst[i].slot[s].base \in Ids
    <3>1. world.imports[inst[i].lib] \subseteq Syms
      BY Zenon, Fields, WorldTypes
    <3> QED BY <3>1, Fields DEF BindingSet, Ids
  <2> QED BY <1>1, <1>2, <1>5, <2>1 DEF Bound
<1> QED BY Zenon, <1>3, <1>4, <1>6

\* Between loads, and while init functions run, there are no frames.
LEMMA NoFrames ==
  ASSUME stack' = <<>>, phase' # "load"
  PROVE  StackInv'
<1>1. DOMAIN stack' = {} /\ 1 .. Len(stack') - 1 = {}
  BY DEF Listed
<1> QED BY Zenon, <1>1 DEF StackInv

\* A frame, when the map and the modules it holds are left alone.
LEMMA FrameKept ==
  ASSUME TypeInv, ShapeKept, NEW k \in DOMAIN stack, FrameOK(world, inst, modules, stack[k])
  PROVE  FrameOK(world', inst', modules', stack[k])
<1>1. stack[k].needed \in Seq(Ids)
  BY Zenon, FrameTypes
<1>2. \A j \in DOMAIN stack[k].needed :
        inst'[stack[k].needed[j]].lib = inst[stack[k].needed[j]].lib
  BY Zenon, <1>1, ShapeFacts
<1> QED BY <1>2, ShapeFacts DEF FrameOK

-----------------------------------------------------------------------------
(* The steps of a load *)

\* load_library called for a library that is, or is not, in the map yet.
LEMMA LoadStep ==
  ASSUME LoaderInv, NEW lib \in Libs, NEW force_init \in BOOLEAN, Load(lib, force_init)
  PROVE  LoaderInv'
<1> USE DEF LoaderInv
<1>1. Quiet /\ inst' = inst
  BY Zenon DEF Load, Quiet, ShapeKept
<1>2. TypeInv'
  <2>1. stack' \in Seq(FrameSet(Len(inst')))
    BY <1>1 DEF Load, FrameSet
  <2>2. loads' \in 0 .. MaxLoads
    BY LoaderAssumption DEF Load, TypeInv
  <2> QED BY <2>1, <2>2 DEF Load, TypeInv, Ids
<1>3. MapInv' /\ NeedInv'
  BY Zenon, <1>1, ShapeStep DEF Quiet
<1>4. StackInv'
  <2>1. stack' = <<[lib |-> lib, needed |-> <<>>]>> /\ phase' = "load" /\ world' = world
        /\ ~Virtual(lib)
    BY Zenon DEF Load, Virtual
  <2>2. Len(stack') = 1 /\ DOMAIN stack' = {1} /\ 1 .. Len(stack') - 1 = {} /\ stack' # <<>>
        /\ stack'[1].lib = lib /\ stack'[1].needed = <<>>
    BY <2>1
  <2>3. Len(world.needed[lib]) \in Nat
    BY WorldTypes
  <2> QED BY <2>1, <2>2, <2>3 DEF StackInv, FrameOK, Virtual
<1>5. UnresolvedInv'
  BY Zenon, <1>1, QuietStep DEF UnresolvedInv, BindInv, Load
<1>6. InitInv'
  BY Zenon DEF InitInv, InitOnce, HasInits, Load, Ids
<1>7. BindInv'
  BY Zenon, <1>1, QuietStep DEF UnresolvedInv, BindInv, Load
<1> QED BY Zenon, <1>2, <1>3, <1>4, <1>5, <1>6, <1>7

\* A load that ends with an error, or with the host's stack used up.
LEMMA EndStep ==
  ASSUME LoaderInv, NeedMissing \/ NeedOverflow
  PROVE  LoaderInv'
<1> USE DEF LoaderInv
<1>0. /\ stack' = <<>> /\ inst' = inst /\ phase = "load"
      /\ \/ phase' = "idle" /\ last' = "failed"
         \/ phase' = "crashed" /\ last' = last
      /\ UNCHANGED <<world, inst, modules, target, force, cursor, exit_status,
                     loads, started, excused>>
  BY Zenon DEF NeedMissing, NeedOverflow, Needs
<1>1. Quiet
  BY Zenon, <1>0 DEF Quiet, ShapeKept
<1>2. TypeInv'
  BY <1>0 DEF TypeInv, Ids
<1>3. MapInv' /\ NeedInv'
  BY Zenon, <1>1, ShapeStep DEF Quiet
<1>4. StackInv'
  BY Zenon, <1>0, NoFrames
<1>5. UnresolvedInv'
  BY Zenon, <1>0, <1>1, QuietStep DEF UnresolvedInv, BindInv
<1>6. InitInv'
  BY Zenon, <1>0 DEF InitInv, InitOnce, HasInits, Ids
<1>7. BindInv'
  BY Zenon, <1>0, <1>1, QuietStep DEF UnresolvedInv, BindInv
<1> QED BY Zenon, <1>2, <1>3, <1>4, <1>5, <1>6, <1>7

\* The frame on top of the stack, and the library it asks for next.
LEMMA TopFrame ==
  ASSUME LoaderInv, phase = "load"
  PROVE  /\ Len(stack) \in Nat \ {0} /\ Len(stack) \in DOMAIN stack
         /\ Top = stack[Len(stack)]
         /\ Top.lib \in Libs /\ Top.needed \in Seq(Ids)
         /\ FrameOK(world, inst, modules, Top)
         /\ world.needed[Top.lib] \in Seq(Libs)
         /\ Needs => Len(Top.needed) + 1 \in DOMAIN world.needed[Top.lib] /\ Wanted \in Libs
         /\ ~Needs => Len(Top.needed) = Len(world.needed[Top.lib])
<1>1. Len(stack) \in Nat \ {0} /\ Len(stack) \in DOMAIN stack
  BY DEF LoaderInv, TypeInv, StackInv
<1>2. Top.lib \in Libs /\ Top.needed \in Seq(Ids)
  BY Zenon, <1>1, FrameTypes DEF LoaderInv, Top
<1>3. FrameOK(world, inst, modules, Top)
  BY Zenon, <1>1 DEF LoaderInv, StackInv, Top
<1>4. world.needed[Top.lib] \in Seq(Libs)
  BY Zenon, <1>2, WorldTypes DEF LoaderInv
<1>5. Needs => Len(Top.needed) + 1 \in DOMAIN world.needed[Top.lib] /\ Wanted \in Libs
  BY <1>2, <1>4 DEF Needs, Wanted
<1>6. ~Needs => Len(Top.needed) = Len(world.needed[Top.lib])
  BY <1>2, <1>3, <1>4 DEF Needs, FrameOK
<1> QED BY <1>1, <1>2, <1>3, <1>4, <1>5, <1>6 DEF Top

\* A frame that is given an instance of the library it asks for next.
LEMMA FrameProvided ==
  ASSUME NEW w, NEW m, NEW ms, NEW n \in Nat, NEW f \in FrameSet(n), NEW id \in 1 .. n,
         FrameOK(w, m, ms, f), Len(w.needed[f.lib]) \in Nat, Calls(w, f, m[id]),
         \E p \in DOMAIN ms : m[ms[p]].lib = m[id].lib,
         NEW g, g.lib = f.lib, g.needed = Append(f.needed, id)
  PROVE  FrameOK(w, m, ms, g)
<1>1. f.needed \in Seq(1 .. n)
  BY Zenon DEF FrameSet
<1>2. /\ Len(g.needed) = Len(f.needed) + 1
      /\ \A j \in DOMAIN g.needed :
           \/ j \in DOMAIN f.needed /\ g.needed[j] = f.needed[j]
           \/ j = Len(f.needed) + 1 /\ g.needed[j] = id
  BY <1>1
<1>3. Len(g.needed) <= Len(w.needed[f.lib])
  BY <1>1, <1>2 DEF Calls
<1>4. \A j \in DOMAIN g.needed :
        /\ m[g.needed[j]].lib = w.needed[f.lib][j]
        /\ \E p \in DOMAIN ms : m[ms[p]].lib = w.needed[f.lib][j]
  BY Zenon, <1>2 DEF FrameOK, Calls
<1> QED BY Zenon, <1>3, <1>4 DEF FrameOK

\* Provide changes the frame on top.
LEMMA ProvideFacts ==
  ASSUME NEW w, NEW m, NEW ms, NEW n \in Nat, NEW frames \in Seq(FrameSet(n)), frames # <<>>,
         NEW id \in 1 .. n,
         \A k \in DOMAIN frames : FrameOK(w, m, ms, frames[k]),
         \A k \in 1 .. Len(frames) - 1 : Calls(w, frames[k], frames[k + 1]),
         Len(w.needed[frames[Len(frames)].lib]) \in Nat,
         Calls(w, frames[Len(frames)], m[id]),
         \E p \in DOMAIN ms : m[ms[p]].lib = m[id].lib
  PROVE  LET st == Provide(frames, id)
         IN  /\ st \in Seq(FrameSet(n)) /\ st # <<>>
             /\ \A k \in DOMAIN st : FrameOK(w, m, ms, st[k])
             /\ \A k \in 1 .. Len(st) - 1 : Calls(w, st[k], st[k + 1])
<1>1. PICK st : st = Provide(frames, id)
  BY Zenon
<1>2. PICK t : t = Len(frames)
  BY Zenon
<1>3. t \in 1 .. Len(frames) /\ t \in DOMAIN frames /\ t \in Nat
  BY <1>2
<1>4. PICK f : f = frames[t]
  BY Zenon
<1>5. f \in FrameSet(n)
  BY <1>3, <1>4
<1>6. PICK g : g = [f EXCEPT !.needed = Append(@, id)]
  BY Zenon
<1>7. g \in FrameSet(n) /\ g.lib = f.lib /\ FrameOK(w, m, ms, g)
  <2>1. f.needed \in Seq(1 .. n) /\ Append(f.needed, id) \in Seq(1 .. n)
    BY <1>5 DEF FrameSet
  <2>2. g \in FrameSet(n) /\ g.lib = f.lib /\ g.needed = Append(f.needed, id)
    BY Zenon, <1>5, <1>6, <2>1 DEF FrameSet
  <2>3. FrameOK(w, m, ms, f) /\ Len(w.needed[f.lib]) \in Nat /\ Calls(w, f, m[id])
    BY Zenon, <1>2, <1>3, <1>4
  <2> QED BY Zenon, <1>5, <2>2, <2>3, FrameProvided
<1>8. st = [frames EXCEPT ![t] = g]
  BY Zenon, <1>1, <1>2, <1>4, <1>6 DEF Provide
<1>9. st \in Seq(FrameSet(n)) /\ Len(st) = t
  BY <1>2, <1>3, <1>7, <1>8
<1>10. \A k \in DOMAIN st : k \in DOMAIN frames /\ st[k] = IF k = t THEN g ELSE frames[k]
  BY Zenon, <1>3, <1>8
<1>11. \A k \in DOMAIN st : FrameOK(w, m, ms, st[k])
  BY Zenon, <1>7, <1>10
<1>12. ASSUME NEW k \in 1 .. Len(st) - 1 PROVE Calls(w, st[k], st[k + 1])
  <2>1. k \in 1 .. Len(frames) - 1 /\ st[k] = frames[k] /\ st[k + 1].lib = frames[k + 1].lib
    BY <1>2, <1>3, <1>4, <1>7, <1>9, <1>10
  <2>2. Calls(w, frames[k], frames[k + 1])
    BY Zenon, <2>1
  <2> QED BY Zenon, <2>1, <2>2 DEF Calls
<1>13. st # <<>>
  BY <1>3, <1>9
<1> QED BY Zenon, <1>1, <1>9, <1>11, <1>12, <1>13

\* A needed library found in the map: its count rises, the frame lists it.
LEMMA NeedLoadedStep ==
  ASSUME LoaderInv, NeedLoaded
  PROVE  LoaderInv'
<1> USE DEF LoaderInv
<1>1. PICK id : id = modules[Min(Position(Wanted))]
  BY Zenon
<1>2. /\ id \in Ids /\ inst[id].lib = Wanted /\ InMap(Wanted)
      /\ inst' = [inst EXCEPT ![id].ref_cnt = @ + 1]
      /\ stack' = Provide(stack, id) /\ phase = "load" /\ phase' = phase /\ Needs
  BY Zenon, <1>1, Positions DEF NeedLoaded, Needs
<1>3. /\ inst' \in Seq(ModuleSet(Len(inst))) /\ Len(inst') = Len(inst)
      /\ \A i \in Ids : /\ inst'[i].lib = inst[i].lib /\ inst'[i].needed = inst[i].needed
                        /\ inst'[i].unresolved = inst[i].unresolved
                        /\ inst'[i].slot = inst[i].slot /\ inst'[i].inits = inst[i].inits
  <2>1. PICK m : m = [inst[id] EXCEPT !.ref_cnt = @ + 1]
    BY Zenon
  <2>2. inst[id] \in ModuleSet(Len(inst)) /\ inst[id].ref_cnt + 1 \in Nat
    BY <1>2, Fields
  <2>3. /\ m \in ModuleSet(Len(inst))
        /\ m.lib = inst[id].lib /\ m.needed = inst[id].needed
        /\ m.unresolved = inst[id].unresolved /\ m.slot = inst[id].slot
        /\ m.inits = inst[id].inits
    BY Zenon, <2>1, <2>2 DEF ModuleSet
  <2>4. inst' = [inst EXCEPT ![id] = m] /\ id \in 1 .. Len(inst) /\ Ids = 1 .. Len(inst)
    BY Zenon, <1>2, <2>1 DEF Ids
  <2>5. inst' \in Seq(ModuleSet(Len(inst))) /\ Len(inst') = Len(inst)
        /\ \A i \in Ids : inst'[i] = IF i = id THEN m ELSE inst[i]
    BY <2>3, <2>4 DEF TypeInv
  <2> QED BY Zenon, <2>3, <2>5
<1>4. Quiet /\ ShapeKept
  BY Zenon, <1>3 DEF Quiet, ShapeKept, NeedLoaded
<1>5. /\ stack' \in Seq(FrameSet(Len(inst))) /\ stack' # <<>>
      /\ \A k \in DOMAIN stack' : FrameOK(world', inst', modules', stack'[k])
      /\ \A k \in 1 .. Len(stack') - 1 : Calls(world', stack'[k], stack'[k + 1])
  <2>1. /\ stack \in Seq(FrameSet(Len(inst))) /\ stack # <<>> /\ Len(inst) \in Nat
        /\ id \in 1 .. Len(inst) /\ world' = world /\ modules' = modules
    BY <1>2 DEF TypeInv, StackInv, Ids, NeedLoaded
  <2>2. \A k \in DOMAIN stack : FrameOK(world, inst', modules, stack[k])
    BY Zenon, <1>4, <2>1, FrameKept DEF StackInv
  <2>3. \A k \in 1 .. Len(stack) - 1 : Calls(world, stack[k], stack[k + 1])
    BY Zenon DEF StackInv
  <2>4. Len(world.needed[stack[Len(stack)].lib]) \in Nat
    BY <1>2, TopFrame
  <2>5. inst'[id].lib = Wanted
    BY Zenon, <1>2, <1>3
  <2>6. Calls(world, stack[Len(stack)], inst'[id])
    BY Zenon, <1>2, <2>5 DEF Calls, Needs, Wanted, Top
  <2>7. \E p \in DOMAIN modules : inst'[modules[p]].lib = inst'[id].lib
    BY Zenon, <1>2, <1>4, <2>5, ShapeFacts DEF InMap
  <2>8. PICK st : st = Provide(stack, id)
    BY Zenon
  <2>9. /\ st \in Seq(FrameSet(Len(inst))) /\ st # <<>>
        /\ \A k \in DOMAIN st : FrameOK(world, inst', modules, st[k])
        /\ \A k \in 1 .. Len(st) - 1 : Calls(world, st[k], st[k + 1])
    BY <2>1, <2>2, <2>3, <2>4, <2>6, <2>7, <2>8, ProvideFacts
  <2> QED BY Zenon, <1>2, <2>1, <2>8, <2>9
<1>6. TypeInv'
  BY Zenon, <1>3, <1>5 DEF TypeInv, Ids, NeedLoaded
<1>7. MapInv' /\ NeedInv'
  BY Zenon, <1>4, ShapeStep
<1>8. StackInv'
  BY Zenon, <1>2, <1>5 DEF StackInv
<1>9. UnresolvedInv'
  BY Zenon, <1>2, <1>4, QuietStep DEF UnresolvedInv, BindInv
<1>10. InitInv'
  <2>1. Ids' = Ids /\ Range(started) \subseteq Ids
    BY <1>3 DEF Ids, TypeInv, Range
  <2> QED BY Zenon, <1>2, <1>3, <2>1 DEF InitInv, InitOnce, HasInits, NeedLoaded
<1>11. BindInv'
  BY Zenon, <1>2, <1>4, QuietStep DEF UnresolvedInv, BindInv
<1> QED BY Zenon, <1>6, <1>7, <1>8, <1>9, <1>10, <1>11

\* A needed library that is not in the map: a frame of its own is pushed.
LEMMA NeedLoadStep ==
  ASSUME LoaderInv, NeedLoad
  PROVE  LoaderInv'
<1> USE DEF LoaderInv
<1>1. /\ phase = "load" /\ phase' = "load" /\ Needs /\ ~InMap(Wanted)
      /\ UNCHANGED <<world, inst, modules, phase, target, force, cursor, exit_status,
                     loads, started, excused, last>>
  BY Zenon, Positions DEF NeedLoad, Needs
<1>2. Quiet /\ ShapeKept
  BY Zenon, <1>1 DEF Quiet, ShapeKept
<1>3. PICK f : f = [lib |-> Wanted, needed |-> <<>>]
  BY Zenon
<1>4. /\ Wanted \in Libs /\ ~Virtual(Wanted)
      /\ f \in FrameSet(Len(inst)) /\ f.lib = Wanted /\ f.needed = <<>>
      /\ FrameOK(world, inst, modules, f)
  <2>1. Wanted \in Libs
    BY Zenon, <1>1, TopFrame
  <2>2. ~Virtual(Wanted)
    BY Zenon, <1>1 DEF Virtual, Range, MapInv
  <2>3. f \in FrameSet(Len(inst)) /\ f.lib = Wanted /\ f.needed = <<>>
    BY <1>3, <2>1 DEF FrameSet
  <2>4. Len(world.needed[Wanted]) \in Nat
    BY <2>1, WorldTypes
  <2> QED BY <2>1, <2>2, <2>3, <2>4 DEF FrameOK, Virtual
<1>5. /\ stack' = Append(stack, f) /\ Len(stack) \in Nat \ {0}
      /\ stack \in Seq(FrameSet(Len(inst)))
  BY Zenon, <1>1, <1>3, TopFrame DEF NeedLoad, TypeInv
<1>6. /\ stack' \in Seq(FrameSet(Len(inst))) /\ stack' # <<>>
      /\ Len(stack') = Len(stack) + 1
      /\ \A k \in DOMAIN stack' : \/ k \in DOMAIN stack /\ stack'[k] = stack[k]
                                  \/ k = Len(stack) + 1 /\ stack'[k] = f
  BY <1>4, <1>5
<1>7. StackInv'
  <2>1. \A k \in DOMAIN stack' : FrameOK(world, inst, modules, stack'[k])
    BY Zenon, <1>4, <1>6 DEF StackInv
  <2>2. ASSUME NEW k \in 1 .. Len(stack') - 1 PROVE Calls(world, stack'[k], stack'[k + 1])
    <3>1. CASE k = Len(stack)
      <4>1. stack'[k] = Top /\ stack'[k + 1] = f
        BY <1>5, <3>1 DEF Top
      <4> QED BY Zenon, <1>1, <1>4, <4>1 DEF Calls, Needs, Wanted
    <3>2. CASE k # Len(stack)
      <4>1. k \in 1 .. Len(stack) - 1 /\ stack'[k] = stack[k] /\ stack'[k + 1] = stack[k + 1]
        BY <1>5, <1>6, <3>2
      <4> QED BY Zenon, <4>1 DEF StackInv
    <3> QED BY Zenon, <3>1, <3>2
  <2>3. UNCHANGED <<world, inst, modules>>
    BY Zenon, <1>1
  <2> QED BY Zenon, <1>1, <1>6, <2>1, <2>2, <2>3 DEF StackInv
<1>8. TypeInv'
  BY Zenon, <1>1, <1>6 DEF TypeInv, Ids
<1>9. MapInv' /\ NeedInv'
  BY Zenon, <1>2, ShapeStep
<1>10. UnresolvedInv'
  BY Zenon, <1>1, <1>2, QuietStep DEF UnresolvedInv, BindInv
<1>11. InitInv'
  BY Zenon, <1>1 DEF InitInv, InitOnce, HasInits, Ids
<1>12. BindInv'
  BY Zenon, <1>1, <1>2, QuietStep DEF UnresolvedInv, BindInv
<1> QED BY Zenon, <1>7, <1>8, <1>9, <1>10, <1>11, <1>12

-----------------------------------------------------------------------------
(* Init functions *)

\* One module of the init loop: its functions run once, or the load excuses it.
LEMMA InitStep ==
  ASSUME LoaderInv, call_init_functions
  PROVE  LoaderInv'
<1> USE DEF LoaderInv
<1>1. PICK i : i = modules[cursor]
  BY Zenon
<1>2. PICK runs \in BOOLEAN : runs = Runs(inst[i], force /\ i = target)
  BY Zenon DEF Runs
<1>3. /\ phase = "init" /\ phase' = "init" /\ cursor \in DOMAIN modules /\ cursor \in Nat
      /\ i \in Ids /\ i \in Range(modules)
      /\ started' = IF runs THEN Append(started, i) ELSE started
      /\ excused' = IF inst[i].inits /\ ~runs THEN excused \cup {i} ELSE excused
      /\ exit_status' \in IF runs THEN {exit_status, TRUE} ELSE {exit_status}
      /\ inst' = [inst EXCEPT ![i].inits = FALSE]
      /\ cursor' = IF exit_status' THEN Len(modules) + 1 ELSE cursor + 1
      /\ UNCHANGED <<world, modules, stack, target, force, loads, last>>
      /\ runs => inst[i].inits
  <2>1. phase = "init" /\ cursor <= Len(modules) /\ cursor >= 1
    BY Zenon DEF call_init_functions, InitInv
  <2>2. cursor \in DOMAIN modules /\ cursor \in Nat
    BY <2>1 DEF TypeInv
  <2>3. i \in Ids /\ i \in Range(modules)
    BY <1>1, <2>2 DEF TypeInv, Range
  <2> QED BY Zenon, <1>1, <1>2, <2>1, <2>2, <2>3 DEF call_init_functions, Runs
<1>4. /\ inst' \in Seq(ModuleSet(Len(inst))) /\ Len(inst') = Len(inst)
      /\ \A j \in Ids : /\ inst'[j].lib = inst[j].lib /\ inst'[j].needed = inst[j].needed
                        /\ inst'[j].unresolved = inst[j].unresolved
                        /\ inst'[j].slot = inst[j].slot
                        /\ inst'[j].inits = IF j = i THEN FALSE ELSE inst[j].inits
  <2>1. PICK m : m = [inst[i] EXCEPT !.inits = FALSE]
    BY Zenon
  <2>2. inst[i] \in ModuleSet(Len(inst))
    BY Zenon, <1>3, Fields
  <2>3. /\ m \in ModuleSet(Len(inst))
        /\ m.lib = inst[i].lib /\ m.needed = inst[i].needed
        /\ m.unresolved = inst[i].unresolved /\ m.slot = inst[i].slot
        /\ m.inits = FALSE
    BY Zenon, <2>1, <2>2 DEF ModuleSet
  <2>4. inst' = [inst EXCEPT ![i] = m] /\ i \in 1 .. Len(inst) /\ Ids = 1 .. Len(inst)
    BY Zenon, <1>3, <2>1 DEF Ids
  <2>5. inst' \in Seq(ModuleSet(Len(inst))) /\ Len(inst') = Len(inst)
        /\ \A j \in Ids : inst'[j] = IF j = i THEN m ELSE inst[j]
    BY <2>3, <2>4 DEF TypeInv
  <2> QED BY Zenon, <2>3, <2>5
<1>5. Quiet /\ ShapeKept /\ Ids' = Ids
  BY Zenon, <1>3, <1>4 DEF Quiet, ShapeKept, Ids
<1>6. started \in Seq(Ids) /\ exit_status \in BOOLEAN /\ excused \subseteq Ids /\ Len(modules) \in Nat
  BY DEF TypeInv
<1>7. TypeInv'
  <2>1. started' \in Seq(Ids)
    BY <1>3, <1>6
  <2>2. excused' \subseteq Ids
    BY Zenon, <1>3, <1>6
  <2>3. exit_status' \in BOOLEAN
    BY Zenon, <1>3, <1>6
  <2>4. cursor' = Len(modules) + 1 \/ cursor' = cursor + 1
    BY Zenon, <1>3
  <2>5. cursor' \in 0 .. (Len(modules) + 1)
    BY <1>3, <1>6, <2>4
  <2> QED BY Zenon, <1>3, <1>4, <1>5, <2>1, <2>2, <2>3, <2>5 DEF TypeInv
<1>8. MapInv' /\ NeedInv'
  BY Zenon, <1>5, ShapeStep
<1>9. StackInv'
  BY Zenon, <1>3, NoFrames DEF StackInv
<1>10. UnresolvedInv'
  <2>1. Range(modules) \subseteq Ids
    BY DEF Range, TypeInv
  <2>2. NeededUndefined'
    BY Zenon, <1>5, QuietStep DEF UnresolvedInv, BindInv
  <2>3. \A j \in Range(modules) \ {target} : inst'[j].unresolved = {}
    BY Zenon, <1>3, <1>4, <2>1 DEF UnresolvedInv
  <2> QED BY Zenon, <1>3, <2>2, <2>3 DEF UnresolvedInv
<1>11. BindInv'
  BY Zenon, <1>3, <1>5, QuietStep DEF UnresolvedInv, BindInv
<1>12. InitInv'
  <2>1. InitOnce'
    <3>1. CASE runs
      <4>1. i \notin Range(started)
        BY Zenon, <1>3, <3>1 DEF InitInv
      <4>2. started' = Append(started, i) /\ IsInjective(started)
        BY Zenon, <1>3, <3>1 DEF InitInv, InitOnce
      <4>3. \A k \in DOMAIN started : started[k] # i
        BY Zenon, <4>1 DEF Range
      <4>4. \A k \in DOMAIN started' : \/ k \in DOMAIN started /\ started'[k] = started[k]
                                       \/ k = Len(started) + 1 /\ started'[k] = i
        BY <1>6, <4>2
      <4>5. IsInjective(started')
        BY <4>2, <4>3, <4>4 DEF IsInjective
      <4> QED BY Zenon, <4>5 DEF InitOnce
    <3>2. CASE ~runs
      BY Zenon, <1>3, <3>2 DEF InitInv, InitOnce
    <3> QED BY Zenon, <3>1, <3>2
  <2>2. Range(started') = IF runs THEN Range(started) \cup {i} ELSE Range(started)
    <3>1. CASE runs
      <4>1. /\ started' = Append(started, i) /\ Len(started) + 1 \in DOMAIN started'
            /\ started'[Len(started) + 1] = i
            /\ \A k \in DOMAIN started : k \in DOMAIN started' /\ started'[k] = started[k]
            /\ \A k \in DOMAIN started' : \/ k \in DOMAIN started /\ started'[k] = started[k]
                                          \/ k = Len(started) + 1
        BY <1>3, <1>6, <3>1
      <4> QED BY Zenon, <3>1, <4>1 DEF Range
    <3>2. CASE ~runs
      BY Zenon, <1>3, <3>2
    <3> QED BY Zenon, <3>1, <3>2
  <2>3. \A j \in Range(started') : ~inst'[j].inits
    <3>1. Range(started) \subseteq Ids
      BY <1>6 DEF Range
    <3> QED BY <1>3, <1>4, <2>2, <3>1 DEF InitInv
  <2>4. ~exit_status' =>
          \A j \in Ids : HasInits(j)' => inst'[j].inits \/ j \in Range(started') \cup excused'
    BY Zenon, <1>3, <1>4, <1>6, <2>2 DEF InitInv, HasInits
  <2>5. cursor' >= 1
    BY <1>3, <1>6
  <2>6. ASSUME cursor' <= Len(modules) \/ ~exit_status', NEW k \in 1 .. cursor' - 1
        PROVE  ~inst'[modules[k]].inits
    <3>1. ~exit_status' /\ ~exit_status /\ cursor' = cursor + 1
      <4>1. exit_status' => cursor' = Len(modules) + 1
        BY Zenon, <1>3
      <4>2. cursor' = Len(modules) + 1 => ~(cursor' <= Len(modules))
        BY <1>6
      <4> QED BY Zenon, <1>3, <2>6, <4>1, <4>2
    <3>2. k \in 1 .. cursor - 1 \/ k = cursor
      BY <1>3, <3>1
    <3>3. modules[k] \in Ids
      BY <1>3, <3>2 DEF TypeInv
    <3>4. CASE k = cursor
      BY Zenon, <1>1, <1>3, <1>4, <3>4
    <3>5. CASE k \in 1 .. cursor - 1
      <4>1. ~inst[modules[k]].inits
        BY Zenon, <1>3, <3>1, <3>5 DEF InitInv
      <4> QED BY Zenon, <1>4, <3>3, <4>1
    <3> QED BY Zenon, <3>2, <3>4, <3>5
  <2> QED BY Zenon, <1>3, <1>5, <2>1, <2>3, <2>4, <2>5, <2>6 DEF InitInv
<1> QED BY Zenon, <1>7, <1>8, <1>9, <1>10, <1>11, <1>12

\* The end of the init loop: load_library answers, everything reached has run.
LEMMA DoneStep ==
  ASSUME LoaderInv, LoadDone
  PROVE  LoaderInv'
<1> USE DEF LoaderInv
<1>1. /\ phase = "init" /\ phase' = "idle" /\ last' = "ok" /\ cursor > Len(modules)
      /\ UNCHANGED <<world, modules, stack, target, force, cursor, exit_status, loads,
                     started, excused>>
  BY Zenon DEF LoadDone
<1>2. \A j \in Ids : /\ inst'[j] \in ModuleSet(Len(inst))
                     /\ inst'[j].lib = inst[j].lib /\ inst'[j].needed = inst[j].needed
                     /\ inst'[j].unresolved = inst[j].unresolved
                     /\ inst'[j].slot = inst[j].slot
                     /\ inst'[j].inits = (inst[j].inits /\ j \notin Range(modules))
  <2> SUFFICES ASSUME NEW j \in Ids
               PROVE  /\ inst'[j] \in ModuleSet(Len(inst))
                      /\ inst'[j].lib = inst[j].lib /\ inst'[j].needed = inst[j].needed
                      /\ inst'[j].unresolved = inst[j].unresolved
                      /\ inst'[j].slot = inst[j].slot
                      /\ inst'[j].inits = (inst[j].inits /\ j \notin Range(modules))
    BY Zenon
  <2>1. /\ inst[j] \in ModuleSet(Len(inst)) /\ inst[j].ref_cnt \in Nat /\ inst[j].inits \in BOOLEAN
        /\ j \in DOMAIN inst
    BY Fields DEF TypeInv, Ids
  <2>2. PICK c : c = IF j = target THEN inst[j].ref_cnt + 1 ELSE inst[j].ref_cnt
    BY Zenon
  <2>3. PICK b : b = (inst[j].inits /\ j \notin Range(modules))
    BY Zenon
  <2>4. c \in Nat /\ b \in BOOLEAN
    BY <2>1, <2>2, <2>3
  <2>5. inst'[j] = [inst[j] EXCEPT !.inits = b, !.ref_cnt = c]
    BY Zenon, <2>1, <2>2, <2>3 DEF LoadDone
  <2> QED BY Zenon, <2>1, <2>3, <2>4, <2>5 DEF ModuleSet
<1>3. inst' \in Seq(ModuleSet(Len(inst))) /\ Len(inst') = Len(inst)
  <2>1. Len(inst) \in Nat /\ DOMAIN inst = Ids /\ Ids = 1 .. Len(inst)
    BY DEF TypeInv, Ids
  <2>2. DOMAIN inst' = 1 .. Len(inst) /\ inst' = [j \in 1 .. Len(inst) |-> inst'[j]]
    BY Zenon, <2>1 DEF LoadDone
  <2>3. inst' \in [1 .. Len(inst) -> ModuleSet(Len(inst))]
    BY Zenon, <1>2, <2>1, <2>2
  <2> QED BY <2>1, <2>3
<1>4. Quiet /\ ShapeKept /\ Ids' = Ids
  BY Zenon, <1>1, <1>2, <1>3 DEF Quiet, ShapeKept, Ids
<1>5. TypeInv'
  BY Zenon, <1>1, <1>3, <1>4 DEF TypeInv
<1>6. MapInv' /\ NeedInv'
  BY Zenon, <1>4, ShapeStep
<1>7. StackInv'
  BY Zenon, <1>1, NoFrames DEF StackInv
<1>8. UnresolvedInv'
  BY Zenon, <1>1, <1>4, QuietStep DEF UnresolvedInv, BindInv
<1>9. BindInv'
  BY Zenon, <1>1, <1>4, QuietStep DEF UnresolvedInv, BindInv
<1>10. InitInv'
  <2>1. Range(started) \subseteq Ids /\ Range(modules) \subseteq Ids
    BY DEF Range, TypeInv
  <2>2. ~exit_status => \A j \in Range(modules) : ~inst[j].inits
    <3> SUFFICES ASSUME ~exit_status, NEW k \in DOMAIN modules PROVE ~inst[modules[k]].inits
      BY Zenon DEF Range
    <3>1. k \in 1 .. cursor - 1
      BY <1>1 DEF TypeInv
    <3> QED BY Zenon, <1>1, <3>1 DEF InitInv
  <2>3. ~exit_status => \A j \in Ids : inst'[j].inits <=> inst[j].inits
    BY Zenon, <1>2, <2>2, Fields
  <2> QED BY <1>1, <1>2, <1>4, <2>1, <2>3 DEF InitInv, InitOnce, HasInits
<1> QED BY Zenon, <1>5, <1>6, <1>7, <1>8, <1>9, <1>10

-----------------------------------------------------------------------------
(* Symbols *)

\* ModuleSymbol::relocation writes the slots of the symbols that were found.
LEMMA RelocateFacts ==
  ASSUME NEW n \in Nat, NEW m \in ModuleSet(n), NEW syms \in SUBSET Syms,
         NEW found \in [Syms -> BindingSet(n)]
  PROVE  /\ Relocate(m, syms, found) \in ModuleSet(n)
         /\ Relocate(m, syms, found).lib = m.lib
         /\ Relocate(m, syms, found).needed = m.needed
         /\ Relocate(m, syms, found).unresolved = m.unresolved
         /\ Relocate(m, syms, found).inits = m.inits
         /\ \A s \in Syms : Relocate(m, syms, found).slot[s] =
                              IF s \in syms /\ found[s].kind # "unbound"
                                THEN found[s] ELSE m.slot[s]
         /\ syms = {} => Relocate(m, syms, found) = m
<1> DEFINE r == Relocate(m, syms, found)
<1>1. PICK done : done = {s \in syms : found[s].kind # "unbound"}
  BY Zenon
<1>2. PICK slot : slot = [s \in Syms |-> IF s \in done THEN found[s] ELSE m.slot[s]]
  BY Zenon
<1>3. m.slot \in [Syms -> BindingSet(n)] /\ m.resolved \cup done \subseteq Syms
  BY Zenon, <1>1 DEF ModuleSet
<1>4. slot \in [Syms -> BindingSet(n)]
  BY Zenon, <1>2, <1>3
<1>5. r = [m EXCEPT !.slot = slot, !.resolved = m.resolved \cup done]
  BY Zenon, <1>1, <1>2 DEF Relocate, ModuleSet
<1>6. /\ r \in ModuleSet(n)
      /\ r.lib = m.lib /\ r.needed = m.needed /\ r.unresolved = m.unresolved
      /\ r.inits = m.inits /\ r.slot = slot
  BY Zenon, <1>3, <1>4, <1>5 DEF ModuleSet
<1> HIDE DEF r
<1>7. \A s \in Syms : slot[s] = IF s \in syms /\ found[s].kind # "unbound"
                                  THEN found[s] ELSE m.slot[s]
  BY Zenon, <1>1, <1>2
<1>8. ASSUME syms = {} PROVE r = m
  <2>1. done = {} /\ m.resolved \cup done = m.resolved
    BY Zenon, <1>1, <1>8
  <2>2. slot = m.slot
    BY Zenon, <1>2, <1>3, <2>1
  <2> QED BY Zenon, <1>5, <2>1, <2>2 DEF ModuleSet
<1> QED BY Zenon, <1>6, <1>7, <1>8 DEF r

\* resolve_symbols binds what is left to the first definition in map order.
LEMMA ResolveStep ==
  ASSUME LoaderInv, resolve_symbols
  PROVE  LoaderInv'
<1> USE DEF LoaderInv
<1> DEFINE found == [s \in Syms |-> Resolve(modules, s, TRUE)]
<1>1. /\ phase = "resolve" /\ phase' = "init" /\ cursor' = 1
      /\ UNCHANGED <<world, modules, stack, target, force, exit_status, loads, started,
                     excused, last>>
      /\ target \in Range(modules) /\ target \in Ids /\ Range(modules) \subseteq Ids
      /\ modules \in Seq(Ids) /\ Len(inst) \in Nat /\ DOMAIN inst = Ids
      /\ inst' = [i \in Ids |-> IF i \in Range(modules)
                                  THEN Relocate(inst[i], inst[i].unresolved, found) ELSE inst[i]]
  BY DEF resolve_symbols, UnresolvedInv, TypeInv, Range, Ids
<1>2. found \in [Syms -> BindingSet(Len(inst))]
  BY Zenon, <1>1, Resolved
<1> HIDE DEF found
<1>3. ASSUME NEW i \in Range(modules)
      PROVE  /\ inst'[i] \in ModuleSet(Len(inst))
             /\ inst'[i].lib = inst[i].lib /\ inst'[i].needed = inst[i].needed
             /\ inst'[i].unresolved = inst[i].unresolved /\ inst'[i].inits = inst[i].inits
             /\ \A s \in Syms : inst'[i].slot[s] =
                                  IF s \in inst[i].unresolved /\ found[s].kind # "unbound"
                                    THEN found[s] ELSE inst[i].slot[s]
             /\ inst[i].unresolved = {} => inst'[i] = inst[i]
  <2>1. inst[i] \in ModuleSet(Len(inst)) /\ inst[i].unresolved \in SUBSET Syms /\ Len(inst) \in Nat
    BY Zenon, <1>1, Fields
  <2>2. inst'[i] = Relocate(inst[i], inst[i].unresolved, found)
    BY Zenon, <1>1
  <2>3. PICK m : m = inst[i]
    BY Zenon
  <2>4. PICK syms : syms = inst[i].unresolved
    BY Zenon
  <2>5. m \in ModuleSet(Len(inst)) /\ syms \in SUBSET Syms /\ inst'[i] = Relocate(m, syms, found)
    BY Zenon, <2>1, <2>2, <2>3, <2>4
  <2>6. /\ Relocate(m, syms, found) \in ModuleSet(Len(inst))
        /\ Relocate(m, syms, found).lib = m.lib
        /\ Relocate(m, syms, found).needed = m.needed
        /\ Relocate(m, syms, found).unresolved = m.unresolved
        /\ Relocate(m, syms, found).inits = m.inits
    BY Zenon, <1>2, <2>1, <2>5, RelocateFacts
  <2>7. /\ \A s \in Syms : Relocate(m, syms, found).slot[s] =
                              IF s \in syms /\ found[s].kind # "unbound"
                                THEN found[s] ELSE m.slot[s]
    BY Zenon, <1>2, <2>1, <2>5, RelocateFacts
  <2>8. syms = {} => Relocate(m, syms, found) = m
    BY Zenon, <1>2, <2>1, <2>5, RelocateFacts
  <2> QED BY Zenon, <2>3, <2>4, <2>5, <2>6, <2>7, <2>8
<1>4. \A i \in Ids \ {target} : inst'[i] = inst[i]
  BY Zenon, <1>1, <1>3 DEF UnresolvedInv
<1>5. /\ inst'[target] \in ModuleSet(Len(inst))
      /\ inst'[target].lib = inst[target].lib /\ inst'[target].needed = inst[target].needed
      /\ inst'[target].unresolved = inst[target].unresolved
      /\ inst'[target].inits = inst[target].inits
      /\ \A s \in Syms : inst'[target].slot[s] =
                           IF s \in inst[target].unresolved /\ found[s].kind # "unbound"
                             THEN found[s] ELSE inst[target].slot[s]
  BY Zenon, <1>1, <1>3
<1>6. inst' \in Seq(ModuleSet(Len(inst))) /\ Len(inst') = Len(inst)
  <2>1. \A i \in Ids : inst'[i] \in ModuleSet(Len(inst))
    BY Zenon, <1>4, <1>5, Fields
  <2>2. inst' = [i \in 1 .. Len(inst) |-> inst'[i]] /\ Ids = 1 .. Len(inst)
    BY Zenon, <1>1 DEF Ids
  <2>3. inst' \in [1 .. Len(inst) -> ModuleSet(Len(inst))]
    BY Zenon, <2>1, <2>2
  <2> QED BY <1>1, <2>3
<1>7. \A i \in Ids : /\ inst'[i].lib = inst[i].lib /\ inst'[i].needed = inst[i].needed
                     /\ inst'[i].unresolved = inst[i].unresolved
                     /\ inst'[i].inits = inst[i].inits
  BY Zenon, <1>4, <1>5
<1>8. ShapeKept /\ Ids' = Ids
  BY Zenon, <1>1, <1>6, <1>7 DEF ShapeKept, Ids
<1>9. TypeInv'
  BY <1>1, <1>6, <1>8 DEF TypeInv
<1>10. MapInv' /\ NeedInv'
  BY Zenon, <1>8, ShapeStep
<1>11. StackInv'
  BY Zenon, <1>1, NoFrames DEF StackInv
<1>12. UnresolvedInv'
  <2>1. NeededUndefined'
    <3> SUFFICES ASSUME NEW i \in Ids, NEW s \in inst'[i].unresolved
                 PROVE  Defs(world', inst', inst'[i].needed, s) = {}
      BY Zenon, <1>8 DEF NeededUndefined
    <3>1. Defs(world, inst', inst[i].needed, s) = Defs(world, inst, inst[i].needed, s)
      BY Zenon, <1>8, ShapeFacts
    <3> QED BY Zenon, <1>1, <1>7, <3>1 DEF UnresolvedInv, NeededUndefined
  <2>2. \A i \in Range(modules) \ {target} : inst'[i].unresolved = {}
    BY Zenon, <1>1, <1>7 DEF UnresolvedInv
  <2> QED BY Zenon, <1>1, <2>1, <2>2 DEF UnresolvedInv
<1>13. InitInv'
  <2>1. Range(started) \subseteq Ids
    BY DEF TypeInv, Range
  <2>2. 1 .. cursor' - 1 = {}
    BY <1>1
  <2> QED BY <1>1, <1>7, <1>8, <2>1, <2>2 DEF InitInv, InitOnce, HasInits
<1>14. FirstBound'
  <2> SUFFICES ASSUME NEW i \in Ids, NEW s \in world'.imports[inst'[i].lib],
                      Defs(world', inst', inst'[i].needed, s) # {}
               PROVE  inst'[i].slot[s].base =
                        inst'[i].needed[Min(Defs(world', inst', inst'[i].needed, s))]
    BY Zenon, <1>8 DEF FirstBound
  <2>1. /\ Defs(world', inst', inst'[i].needed, s) = Defs(world, inst, inst[i].needed, s)
        /\ s \in world.imports[inst[i].lib] /\ inst'[i].needed = inst[i].needed
    <3>1. Defs(world, inst', inst[i].needed, s) = Defs(world, inst, inst[i].needed, s)
      BY Zenon, <1>8, ShapeFacts
    <3> QED BY Zenon, <1>1, <1>7, <3>1
  <2>2. s \notin inst[i].unresolved
    BY Zenon, <2>1 DEF UnresolvedInv, NeededUndefined
  <2>3. s \in Syms
    BY Zenon, <2>1, Fields, WorldTypes
  <2>4. inst'[i].slot[s] = inst[i].slot[s]
    BY Zenon, <1>4, <1>5, <2>2, <2>3
  <2> QED BY Zenon, <2>1, <2>4 DEF BindInv, FirstBound
<1>15. Bound(target)'
  <2> SUFFICES ASSUME NEW s \in world.imports[inst[target].lib], NEW b, b = inst'[target].slot[s]
               PROVE  /\ b.kind = "module" => s \in world.defines[inst'[b.base].lib]
                      /\ b.kind # "module" => Defs(world, inst', modules, s) = {}
                      /\ s \in world.weak \cup world.dl => b.kind # "unbound"
    <3>1. world' = world /\ modules' = modules /\ target' = target
      BY Zenon, <1>1
    <3> QED BY Zenon, <1>5, <3>1 DEF Bound
  <2>1. s \in Syms
    BY Zenon, <1>1, Fields, WorldTypes
  <2>2. Defs(world, inst', modules, s) = Defs(world, inst, modules, s)
    BY Zenon, <1>1, <1>8, ShapeFacts
  <2>3. CASE s \in inst[target].unresolved
    <3>1. inst[target].slot[s] = Unbound
      BY Zenon, <1>1, <2>3 DEF BindInv, HalfBound
    <3>2. found[s] = Resolve(modules, s, TRUE)
      BY Zenon, <2>1 DEF found
    <3>3. CASE Defs(world, inst, modules, s) # {}
      <4>1. PICK k \in DOMAIN modules : /\ found[s] = To(modules[k]) /\ modules[k] \in Ids
                                        /\ s \in world.defines[inst[modules[k]].lib]
        BY Zenon, <1>1, <3>2, <3>3, Resolved
      <4>2. To(modules[k]).kind = "module" /\ To(modules[k]).base = modules[k]
        BY Zenon DEF To
      <4>3. b = To(modules[k])
        <5>1. found[s].kind # "unbound"
          BY Zenon, <4>1, <4>2
        <5> QED BY Zenon, <1>5, <2>1, <2>3, <4>1, <5>1
      <4>4. inst'[modules[k]].lib = inst[modules[k]].lib
        BY Zenon, <1>7, <4>1
      <4> QED BY Zenon, <4>1, <4>2, <4>3, <4>4
    <3>4. CASE Defs(world, inst, modules, s) = {}
      <4>1. /\ found[s] \in {Zero, LibDl, Unbound}
            /\ s \in world.weak \cup world.dl => found[s] # Unbound
        BY Zenon, <1>1, <3>2, <3>4, Resolved
      <4>2. b = found[s]
        BY <1>5, <2>1, <2>3, <3>1, <4>1 DEF Zero, LibDl, Unbound
      <4>3. b.kind # "module" /\ (b.kind = "unbound" => b = Unbound)
        BY <4>1, <4>2 DEF Zero, LibDl, Unbound
      <4> QED BY Zenon, <2>2, <3>4, <4>1, <4>2, <4>3
    <3> QED BY Zenon, <3>3, <3>4
  <2>4. CASE s \notin inst[target].unresolved
    <3>1. b = inst[target].slot[s]
      BY Zenon, <1>5, <2>1, <2>4
    <3>2. b.kind = "module" /\ s \in world.defines[inst[b.base].lib]
      BY Zenon, <1>1, <2>4, <3>1 DEF BindInv, HalfBound
    <3>3. b.base \in Ids
      <4>1. b \in BindingSet(Len(inst))
        BY Zenon, <1>1, <2>1, <3>1, Fields
      <4>2. b.kind = "module" /\ Len(inst) \in Nat
        BY Zenon, <1>1, <3>2
      <4> QED BY <4>1, <4>2 DEF BindingSet, Ids
    <3> QED BY Zenon, <1>7, <3>2, <3>3
  <2> QED BY Zenon, <2>3, <2>4
<1>16. BindInv'
  BY Zenon, <1>1, <1>8, <1>14, <1>15 DEF BindInv
<1> QED BY Zenon, <1>9, <1>10, <1>11, <1>12, <1>13, <1>16

-----------------------------------------------------------------------------
(* The end of a library's own load *)

\* A module keeps its type when there is one more.
LEMMA OneMore ==
  ASSUME NEW n \in Nat
  PROVE  /\ 1 .. n \subseteq 1 .. n + 1
         /\ BindingSet(n) \subseteq BindingSet(n + 1)
         /\ ModuleSet(n) \subseteq ModuleSet(n + 1)
         /\ FrameSet(n) \subseteq FrameSet(n + 1)
<1>1. 1 .. n \subseteq 1 .. n + 1
  OBVIOUS
<1>2. BindingSet(n) \subseteq BindingSet(n + 1)
  BY DEF BindingSet
<1>3. Seq(1 .. n) \subseteq Seq(1 .. n + 1)
  BY <1>1
<1>4. [Syms -> BindingSet(n)] \subseteq [Syms -> BindingSet(n + 1)]
  BY Zenon, <1>2
<1>5. ModuleSet(n) \subseteq ModuleSet(n + 1)
  BY Zenon, <1>3, <1>4 DEF ModuleSet
<1>6. FrameSet(n) \subseteq FrameSet(n + 1)
  BY Zenon, <1>3 DEF FrameSet
<1> QED BY Zenon, <1>1, <1>2, <1>5, <1>6

\* relocation_ex2 rewrites values of slots, nothing else the linker reads.
Rewritten(m, r, exe) ==
  /\ r.lib = m.lib /\ r.needed = m.needed /\ r.unresolved = m.unresolved
  /\ r.inits = m.inits
  /\ \A s \in Syms : /\ r.slot[s].base = m.slot[s].base
                     /\ r.slot[s].kind = m.slot[s].kind
                     /\ r.slot[s] = m.slot[s] \/ s \in world.defines[exe]

\* What Interpose does to one module: at most the values of symbols exe defines.
LEMMA InterposeFacts ==
  ASSUME NEW n \in Nat, NEW m \in ModuleSet(n), NEW exe
  PROVE  /\ Interpose(m, exe, n + 1) \in ModuleSet(n + 1)
         /\ Rewritten(m, Interpose(m, exe, n + 1), exe)
<1> DEFINE r == Interpose(m, exe, n + 1)
<1>1. PICK slot : slot = [s \in Syms |->
                            IF s \in m.resolved \cap world.defines[exe] /\ m.slot[s].kind = "module"
                              THEN [m.slot[s] EXCEPT !.value = n + 1] ELSE m.slot[s]]
  BY Zenon
<1>2. m.slot \in [Syms -> BindingSet(n)]
  BY Zenon DEF ModuleSet
<1>3. ASSUME NEW s \in Syms
      PROVE  /\ slot[s] \in BindingSet(n + 1)
             /\ slot[s].base = m.slot[s].base /\ slot[s].kind = m.slot[s].kind
             /\ slot[s] = m.slot[s] \/ s \in world.defines[exe]
  <2>1. m.slot[s] \in BindingSet(n) /\ m.slot[s] \in BindingSet(n + 1)
    BY Zenon, <1>2, OneMore
  <2>2. PICK b : b = [m.slot[s] EXCEPT !.value = n + 1]
    BY Zenon
  <2>3. b \in BindingSet(n + 1) /\ b.base = m.slot[s].base /\ b.kind = m.slot[s].kind
    BY <2>1, <2>2 DEF BindingSet
  <2>4. \/ slot[s] = m.slot[s]
        \/ slot[s] = b /\ s \in world.defines[exe]
    BY Zenon, <1>1, <2>2
  <2> QED BY Zenon, <2>1, <2>3, <2>4
<1>4. slot \in [Syms -> BindingSet(n + 1)]
  BY Zenon, <1>1, <1>3
<1>5. r = [m EXCEPT !.slot = slot, !.resolved = {}]
  BY Zenon, <1>1 DEF Interpose, ModuleSet
<1>6. m \in ModuleSet(n + 1)
  BY Zenon, OneMore
<1>7. /\ r \in ModuleSet(n + 1)
      /\ r.lib = m.lib /\ r.needed = m.needed /\ r.unresolved = m.unresolved
      /\ r.inits = m.inits /\ r.slot = slot
  BY Zenon, <1>4, <1>5, <1>6 DEF ModuleSet
<1> HIDE DEF r
<1>8. Rewritten(m, r, exe)
  BY Zenon, <1>3, <1>7 DEF Rewritten
<1> QED BY Zenon, <1>7, <1>8 DEF r

\* The modules of the map after a relocation of a library with the next instance.
LEMMA RelocationFacts ==
  ASSUME TypeInv, NeededUndefined, NEW lib, NEW i \in Ids, NEW r,
         r = AfterRelocation(lib, Len(inst) + 1)[i]
  PROVE  /\ r \in ModuleSet(Len(inst) + 1)
         /\ r.lib = inst[i].lib /\ r.needed = inst[i].needed /\ r.inits = inst[i].inits
         /\ r.unresolved = IF i \in Range(modules) THEN {} ELSE inst[i].unresolved
         /\ \A s \in Syms : /\ r.slot[s].base = inst[i].slot[s].base
                            /\ r.slot[s].kind = inst[i].slot[s].kind
                            /\ \/ r.slot[s] = inst[i].slot[s]
                               \/ lib \in world.executables /\ s \in world.defines[lib]
<1>1. /\ Len(inst) \in Nat /\ i \in DOMAIN inst
      /\ inst[i] \in ModuleSet(Len(inst)) /\ inst[i] \in ModuleSet(Len(inst) + 1)
  <2>1. Len(inst) \in Nat /\ i \in DOMAIN inst
    BY DEF TypeInv, Ids
  <2> QED BY Zenon, <2>1, Fields, OneMore
<1>2. PICK m : m = [inst[i] EXCEPT !.unresolved = {}]
  BY Zenon
<1>3. /\ m \in ModuleSet(Len(inst)) /\ m \in ModuleSet(Len(inst) + 1)
      /\ m.lib = inst[i].lib /\ m.needed = inst[i].needed /\ m.inits = inst[i].inits
      /\ m.unresolved = {} /\ m.slot = inst[i].slot
  BY Zenon, <1>1, <1>2 DEF ModuleSet
<1>4. Retain(inst[i]) = m
  BY Zenon, <1>2, RetainEmpties DEF NeededUndefined
<1>5. r = IF i \in Range(modules)
            THEN IF lib \in world.executables THEN Interpose(m, lib, Len(inst) + 1) ELSE m
            ELSE inst[i]
  BY Zenon, <1>1, <1>4 DEF AfterRelocation
<1>6. CASE i \in Range(modules) /\ lib \in world.executables
  <2>1. r = Interpose(m, lib, Len(inst) + 1)
    BY Zenon, <1>5, <1>6
  <2>2. r \in ModuleSet(Len(inst) + 1) /\ Rewritten(m, r, lib)
    BY Zenon, <1>1, <1>3, <2>1, InterposeFacts
  <2> QED BY Zenon, <1>3, <1>6, <2>2 DEF Rewritten
<1>7. CASE i \in Range(modules) /\ lib \notin world.executables
  BY Zenon, <1>3, <1>5, <1>7
<1>8. CASE i \notin Range(modules)
  BY Zenon, <1>1, <1>5, <1>8
<1> QED BY Zenon, <1>6, <1>7, <1>8

\* LinuxModule::new for the library that was relocated: what its needed libraries
\* define is bound to the first of them, and the rest is listed.
LEMMA NewFacts ==
  ASSUME TypeInv, NEW lib \in Libs, NEW needed \in Seq(Ids), NEW r, r = NewModule(lib, needed)
  PROVE  /\ r \in ModuleSet(Len(inst))
         /\ r.lib = lib /\ r.needed = needed /\ r.inits = (lib \in world.inits)
         /\ \A s \in world.imports[lib] :
              /\ s \in r.unresolved <=> Defs(world, inst, needed, s) = {}
              /\ Defs(world, inst, needed, s) = {} => r.slot[s] = Unbound
              /\ Defs(world, inst, needed, s) # {} =>
                   r.slot[s] = To(needed[Min(Defs(world, inst, needed, s))])
         /\ r.unresolved \subseteq world.imports[lib]
<1>1. world.imports[lib] \subseteq Syms /\ Len(inst) \in Nat
  BY WorldTypes DEF TypeInv
<1>2. PICK slot : slot = [s \in Syms |-> IF s \in world.imports[lib]
                                           THEN Resolve(needed, s, FALSE) ELSE Unbound]
  BY Zenon
<1>3. slot \in [Syms -> BindingSet(Len(inst))]
  <2>1. Unbound \in BindingSet(Len(inst))
    BY <1>1 DEF Unbound, BindingSet
  <2>2. \A s : Resolve(needed, s, FALSE) \in BindingSet(Len(inst))
    BY Zenon, Resolved
  <2> QED BY Zenon, <1>2, <2>1, <2>2
<1>4. PICK unres : unres = {s \in world.imports[lib] : slot[s].kind = "unbound"}
  BY Zenon
<1>5. r = Module(lib, needed, unres, slot, lib \in world.inits)
  BY Zenon, <1>2, <1>4 DEF NewModule
<1>6. PICK b \in BOOLEAN : b = (lib \in world.inits)
  <2>1. (lib \in world.inits) \in BOOLEAN
    OBVIOUS
  <2> QED BY Zenon, <2>1
<1>7. needed \in Seq(1 .. Len(inst)) /\ unres \subseteq Syms
  BY Zenon, <1>1, <1>4 DEF Ids
<1>8. /\ r \in ModuleSet(Len(inst))
      /\ r.lib = lib /\ r.needed = needed /\ r.inits = b
      /\ r.unresolved = unres /\ r.slot = slot
  BY <1>3, <1>5, <1>6, <1>7 DEF Module, ModuleSet
<1>9. ASSUME NEW s \in world.imports[lib]
      PROVE  /\ s \in unres <=> Defs(world, inst, needed, s) = {}
             /\ Defs(world, inst, needed, s) = {} => slot[s] = Unbound
             /\ Defs(world, inst, needed, s) # {} =>
                  slot[s] = To(needed[Min(Defs(world, inst, needed, s))])
  <2>1. slot[s] = Resolve(needed, s, FALSE)
    BY Zenon, <1>1, <1>2
  <2>2. /\ Defs(world, inst, needed, s) = {} => slot[s] = Unbound
        /\ Defs(world, inst, needed, s) # {} =>
             slot[s] = To(needed[Min(Defs(world, inst, needed, s))])
    BY Zenon, <2>1, Resolved
  <2>3. Unbound.kind = "unbound" /\ \A j : To(j).kind = "module"
    BY Zenon DEF Unbound, To
  <2>4. "module" # "unbound"
    BY Zenon
  <2>5. s \in unres <=> slot[s].kind = "unbound"
    BY Zenon, <1>4
  <2> QED BY Zenon, <2>2, <2>3, <2>4, <2>5
<1> QED BY Zenon, <1>4, <1>6, <1>8, <1>9

\* IndexMap::insert: the module takes its library's place, or one at the end.
Inserted(lib, id, ms, p) ==
  /\ p \in DOMAIN ms /\ ms[p] = id
  /\ \A k \in DOMAIN ms \ {p} : k \in DOMAIN modules /\ ms[k] = modules[k]
  /\ \/ p \in DOMAIN modules /\ inst[modules[p]].lib = lib /\ DOMAIN ms = DOMAIN modules
     \/ /\ p = Len(modules) + 1 /\ DOMAIN ms = DOMAIN modules \cup {p}
        /\ ~InMap(lib)

\* Insert replaces the entry of the name in place, or appends one.
LEMMA InsertFacts ==
  ASSUME TypeInv, MapInv, NEW lib, NEW id
  PROVE  /\ Insert(lib, id) \in Seq(Ids \cup {id})
         /\ \E p : Inserted(lib, id, Insert(lib, id), p)
<1>0. PICK ms : ms = Insert(lib, id)
  BY Zenon
<1>1. modules \in Seq(Ids) /\ modules \in Seq(Ids \cup {id}) /\ id \in Ids \cup {id}
  BY DEF TypeInv
<1>2. CASE Position(lib) = {}
  <2>1. ms = Append(modules, id) /\ ~InMap(lib)
    BY Zenon, <1>0, <1>2, Positions DEF Insert
  <2>2. ms \in Seq(Ids \cup {id})
    BY <1>1, <2>1
  <2>3. PICK p : p = Len(modules) + 1
    BY Zenon
  <2>4. /\ p \in DOMAIN ms /\ ms[p] = id
        /\ \A k \in DOMAIN ms \ {p} : k \in DOMAIN modules /\ ms[k] = modules[k]
        /\ DOMAIN ms = DOMAIN modules \cup {p}
    BY <1>1, <2>1, <2>3
  <2>5. Inserted(lib, id, ms, p)
    BY Zenon, <2>1, <2>3, <2>4 DEF Inserted
  <2> QED BY Zenon, <1>0, <2>2, <2>5
<1>3. CASE Position(lib) # {}
  <2>1. PICK p : p = Min(Position(lib))
    BY Zenon
  <2>2. ms = [modules EXCEPT ![p] = id]
    BY Zenon, <1>0, <1>3, <2>1 DEF Insert
  <2>3. p \in DOMAIN modules /\ inst[modules[p]].lib = lib
    BY Zenon, <1>3, <2>1, Positions
  <2>4. /\ DOMAIN ms = DOMAIN modules /\ ms[p] = id
        /\ \A k \in DOMAIN ms \ {p} : k \in DOMAIN modules /\ ms[k] = modules[k]
    BY Zenon, <2>2, <2>3
  <2>5. ms \in Seq(Ids \cup {id})
    BY <1>1, <2>2, <2>3
  <2>6. Inserted(lib, id, ms, p)
    BY Zenon, <2>3, <2>4 DEF Inserted
  <2> QED BY Zenon, <1>0, <2>5, <2>6
<1> QED BY Zenon, <1>2, <1>3

\* What Finish does to the modules and to the map, of which the rest follows.
FinishFacts(n, p) ==
  /\ n \in Nat /\ Ids = 1 .. n /\ Len(inst') = n + 1 /\ inst' \in Seq(ModuleSet(n + 1))
  /\ world' = world
  /\ \A i \in Ids :
       /\ inst'[i].lib = inst[i].lib /\ inst'[i].needed = inst[i].needed
       /\ inst'[i].inits = inst[i].inits
       /\ inst'[i].unresolved = IF i \in Range(modules) THEN {} ELSE inst[i].unresolved
       /\ \A s \in Syms : /\ inst'[i].slot[s].base = inst[i].slot[s].base
                          /\ inst'[i].slot[s].kind = inst[i].slot[s].kind
                          /\ \/ inst'[i].slot[s] = inst[i].slot[s]
                             \/ /\ Top.lib \in world.executables
                                /\ s \in world.defines[Top.lib]
  /\ inst'[n + 1].lib = Top.lib /\ inst'[n + 1].needed = Top.needed
  /\ inst'[n + 1].inits = (Top.lib \in world.inits)
  /\ inst'[n + 1].unresolved \subseteq world.imports[Top.lib]
  /\ \A s \in world.imports[Top.lib] :
       /\ s \in inst'[n + 1].unresolved <=> Defs(world, inst, Top.needed, s) = {}
       /\ Defs(world, inst, Top.needed, s) = {} => inst'[n + 1].slot[s] = Unbound
       /\ Defs(world, inst, Top.needed, s) # {} =>
            inst'[n + 1].slot[s] = To(Top.needed[Min(Defs(world, inst, Top.needed, s))])
  /\ modules' \in Seq(1 .. n + 1) /\ Inserted(Top.lib, n + 1, modules', p)

\* Finish establishes those facts for some place p of the map.
LEMMA Finished ==
  ASSUME LoaderInv, Finish
  PROVE  \E n, p : FinishFacts(n, p)
<1> USE DEF LoaderInv
<1>1. PICK n : n = Len(inst)
  BY Zenon
<1>2. n \in Nat /\ Ids = 1 .. n /\ DOMAIN inst = 1 .. n /\ world' = world /\ phase = "load"
  BY <1>1 DEF TypeInv, Ids, Finish
<1>3. /\ Top.lib \in Libs /\ Top.needed \in Seq(Ids)
  BY Zenon, <1>2, TopFrame
<1>4. PICK new : new = NewModule(Top.lib, Top.needed)
  BY Zenon
<1>5. PICK m : m = IF Len(stack) > 1 THEN [new EXCEPT !.ref_cnt = 1] ELSE new
  BY Zenon
<1>6. PICK after : after = AfterRelocation(Top.lib, n + 1)
  BY Zenon
<1>7. inst' = Append(after, m) /\ modules' = Insert(Top.lib, n + 1)
  BY Zenon, <1>1, <1>4, <1>5, <1>6 DEF Finish
<1>8. /\ new \in ModuleSet(n)
      /\ new.lib = Top.lib /\ new.needed = Top.needed /\ new.inits = (Top.lib \in world.inits)
      /\ \A s \in world.imports[Top.lib] :
           /\ s \in new.unresolved <=> Defs(world, inst, Top.needed, s) = {}
           /\ Defs(world, inst, Top.needed, s) = {} => new.slot[s] = Unbound
           /\ Defs(world, inst, Top.needed, s) # {} =>
                new.slot[s] = To(Top.needed[Min(Defs(world, inst, Top.needed, s))])
      /\ new.unresolved \subseteq world.imports[Top.lib]
  BY <1>1, <1>3, <1>4, NewFacts
<1>9. /\ m \in ModuleSet(n + 1)
      /\ m.lib = new.lib /\ m.needed = new.needed /\ m.inits = new.inits
      /\ m.unresolved = new.unresolved /\ m.slot = new.slot
  <2>1. new \in ModuleSet(n + 1)
    BY Zenon, <1>2, <1>8, OneMore
  <2> QED BY Zenon, <1>5, <2>1 DEF ModuleSet
<1>10. DOMAIN after = 1 .. n
  BY Zenon, <1>2, <1>6 DEF AfterRelocation
<1>11. ASSUME NEW i \in Ids
       PROVE  /\ after[i] \in ModuleSet(n + 1)
              /\ after[i].lib = inst[i].lib /\ after[i].needed = inst[i].needed
              /\ after[i].inits = inst[i].inits
              /\ after[i].unresolved = IF i \in Range(modules) THEN {} ELSE inst[i].unresolved
              /\ \A s \in Syms : /\ after[i].slot[s].base = inst[i].slot[s].base
                                 /\ after[i].slot[s].kind = inst[i].slot[s].kind
                                 /\ \/ after[i].slot[s] = inst[i].slot[s]
                                    \/ /\ Top.lib \in world.executables
                                       /\ s \in world.defines[Top.lib]
  BY <1>1, <1>6, RelocationFacts DEF UnresolvedInv
<1>12. after \in Seq(ModuleSet(n + 1)) /\ Len(after) = n
  <2>1. after = [i \in 1 .. n |-> after[i]]
    BY Zenon, <1>6, <1>10 DEF AfterRelocation
  <2>2. after \in [1 .. n -> ModuleSet(n + 1)]
    BY Zenon, <1>2, <1>11, <2>1
  <2> QED BY <1>2, <2>2
<1>13. /\ inst' \in Seq(ModuleSet(n + 1)) /\ Len(inst') = n + 1
       /\ inst'[n + 1] = m /\ \A i \in Ids : inst'[i] = after[i]
  BY <1>2, <1>7, <1>9, <1>12
<1>14. PICK p : Inserted(Top.lib, n + 1, modules', p)
  BY Zenon, <1>7, InsertFacts
<1>15. modules' \in Seq(1 .. n + 1)
  <2>1. modules' \in Seq(Ids \cup {n + 1})
    BY Zenon, <1>7, InsertFacts
  <2>2. Ids \cup {n + 1} = 1 .. n + 1
    BY <1>2
  <2> QED BY Zenon, <2>1, <2>2
<1>16. FinishFacts(n, p)
  <2>1. /\ inst'[n + 1].lib = Top.lib /\ inst'[n + 1].needed = Top.needed
        /\ inst'[n + 1].inits = (Top.lib \in world.inits)
        /\ inst'[n + 1].unresolved = new.unresolved /\ inst'[n + 1].slot = new.slot
    BY Zenon, <1>8, <1>9, <1>13
  <2>2. \A i \in Ids :
          /\ inst'[i].lib = inst[i].lib /\ inst'[i].needed = inst[i].needed
          /\ inst'[i].inits = inst[i].inits
          /\ inst'[i].unresolved = IF i \in Range(modules) THEN {} ELSE inst[i].unresolved
          /\ \A s \in Syms : /\ inst'[i].slot[s].base = inst[i].slot[s].base
                             /\ inst'[i].slot[s].kind = inst[i].slot[s].kind
                             /\ \/ inst'[i].slot[s] = inst[i].slot[s]
                                \/ /\ Top.lib \in world.executables
                                   /\ s \in world.defines[Top.lib]
    BY <1>11, <1>13
  <2> QED BY <1>2, <1>8, <1>13, <1>14, <1>15, <2>1, <2>2 DEF FinishFacts
<1> QED BY Zenon, <1>16

\* Entries of the map keep their place and their library.
LEMMA PlacesKept ==
  ASSUME LoaderInv, NEW n, NEW p, FinishFacts(n, p)
  PROVE  /\ \A k \in DOMAIN modules : /\ k \in DOMAIN modules'
                                      /\ inst'[modules'[k]].lib = inst[modules[k]].lib
         /\ \A k \in DOMAIN modules' : \/ k = p /\ modules'[k] = n + 1
                                       \/ k \in DOMAIN modules /\ modules'[k] = modules[k]
         /\ \A i \in Ids : i # n + 1
         /\ \A k \in DOMAIN modules : modules[k] \in Ids
         /\ \A ids \in Seq(Ids) : \A s : Defs(world, inst', ids, s) = Defs(world, inst, ids, s)
         /\ \A ids \in Seq(Ids) : \A k \in DOMAIN ids : inst'[ids[k]].lib = inst[ids[k]].lib
<1>1. \A k \in DOMAIN modules : modules[k] \in Ids
  BY DEF LoaderInv, TypeInv
<1>2. ASSUME NEW k \in DOMAIN modules
      PROVE  k \in DOMAIN modules' /\ inst'[modules'[k]].lib = inst[modules[k]].lib
  <2>1. k \in DOMAIN modules'
    BY Zenon DEF FinishFacts, Inserted
  <2>2. CASE k = p
    <3>1. ~(p = Len(modules) + 1)
      BY <2>2 DEF LoaderInv, TypeInv
    <3> QED BY Zenon, <2>1, <2>2, <3>1 DEF FinishFacts, Inserted
  <2>3. CASE k # p
    <3>1. modules'[k] = modules[k]
      BY Zenon, <2>1, <2>3 DEF FinishFacts, Inserted
    <3> QED BY <1>1, <2>1, <3>1 DEF FinishFacts
  <2> QED BY Zenon, <2>2, <2>3
<1>3. \A k \in DOMAIN modules' : \/ k = p /\ modules'[k] = n + 1
                                 \/ k \in DOMAIN modules /\ modules'[k] = modules[k]
  BY Zenon DEF FinishFacts, Inserted
<1>4. \A i \in Ids : i # n + 1
  <2>1. n \in Nat /\ Ids = 1 .. n
    BY Zenon DEF FinishFacts
  <2> QED BY <2>1
<1>5. \A ids \in Seq(Ids) : \A k \in DOMAIN ids : inst'[ids[k]].lib = inst[ids[k]].lib
  <2>1. \A ids \in Seq(Ids) : \A k \in DOMAIN ids : ids[k] \in Ids
    OBVIOUS
  <2> QED BY Zenon, <2>1 DEF FinishFacts
<1>6. \A ids \in Seq(Ids) : \A s : Defs(world, inst', ids, s) = Defs(world, inst, ids, s)
  BY Zenon, <1>5 DEF Defs
<1> QED BY Zenon, <1>1, <1>2, <1>3, <1>4, <1>5, <1>6

\* The new module keeps the map's names apart and its needed list resolved.
LEMMA FinishMap ==
  ASSUME LoaderInv, Finish, NEW n, NEW p, FinishFacts(n, p)
  PROVE  MapInv' /\ NeedInv'
<1>1. /\ n \in Nat /\ Ids = 1 .. n /\ Ids' = 1 .. n + 1 /\ world' = world
      /\ inst'[n + 1].lib = Top.lib /\ inst'[n + 1].needed = Top.needed
      /\ phase = "load" /\ ~Needs
  BY Zenon DEF FinishFacts, Ids, Finish
<1>2. /\ Top.needed \in Seq(Ids) /\ FrameOK(world, inst, modules, Top)
      /\ Len(Top.needed) = Len(world.needed[Top.lib])
  BY Zenon, <1>1, TopFrame
<1>3. \A j, k \in DOMAIN modules' : inst'[modules'[j]].lib = inst'[modules'[k]].lib => j = k
  <2>1. ASSUME NEW j \in DOMAIN modules, NEW k \in DOMAIN modules,
               inst'[modules'[j]].lib = inst'[modules'[k]].lib
        PROVE  j = k
    BY Zenon, <2>1, PlacesKept DEF LoaderInv, MapInv
  <2>2. CASE p \in DOMAIN modules
    <3>1. \A k \in DOMAIN modules' : k \in DOMAIN modules
      BY Zenon, <2>2 DEF FinishFacts, Inserted
    <3> QED BY Zenon, <2>1, <3>1
  <2>3. CASE p \notin DOMAIN modules
    <3>1. ~InMap(Top.lib)
      BY Zenon, <2>3 DEF FinishFacts, Inserted
    <3>2. \A k \in DOMAIN modules : inst'[modules'[k]].lib # Top.lib
      BY Zenon, <3>1, PlacesKept DEF InMap
    <3>3. \A k \in DOMAIN modules' : k \in DOMAIN modules \/ k = p
      BY Zenon, PlacesKept
    <3>4. inst'[modules'[p]].lib = Top.lib
      BY Zenon, <1>1 DEF FinishFacts, Inserted
    <3> QED BY Zenon, <2>1, <3>2, <3>3, <3>4
  <2> QED BY Zenon, <2>2, <2>3
<1>4. \A k \in DOMAIN world.virtual : \E j \in DOMAIN modules' : inst'[modules'[j]].lib = world.virtual[k]
  <2> SUFFICES ASSUME NEW k \in DOMAIN world.virtual
               PROVE  \E j \in DOMAIN modules' : inst'[modules'[j]].lib = world.virtual[k]
    BY Zenon
  <2>1. PICK j \in DOMAIN modules : inst[modules[j]].lib = world.virtual[k]
    BY Zenon DEF LoaderInv, MapInv, InMap
  <2>2. j \in DOMAIN modules' /\ inst'[modules'[j]].lib = inst[modules[j]].lib
    BY Zenon, PlacesKept
  <2> QED BY Zenon, <2>1, <2>2
<1>5. ASSUME NEW k \in DOMAIN modules', NEW d \in DOMAIN inst'[modules'[k]].needed
      PROVE  \E j \in 1 .. k - 1 : inst'[modules'[j]].lib = inst'[inst'[modules'[k]].needed[d]].lib
  <2>1. CASE k \in DOMAIN modules /\ modules'[k] = modules[k]
    <3>1. /\ modules[k] \in Ids /\ inst'[modules[k]].needed = inst[modules[k]].needed
          /\ inst[modules[k]].needed \in Seq(Ids)
      BY Zenon, <2>1, PlacesKept, Fields DEF FinishFacts, LoaderInv
    <3>0. d \in DOMAIN inst[modules[k]].needed
      BY Zenon, <2>1, <3>1
    <3>2. PICK j \in 1 .. k - 1 : inst[modules[j]].lib = inst[inst[modules[k]].needed[d]].lib
      BY Zenon, <2>1, <3>0 DEF LoaderInv, MapInv
    <3>3. j \in DOMAIN modules
      BY <2>1 DEF LoaderInv, TypeInv
    <3>4. inst'[inst[modules[k]].needed[d]].lib = inst[inst[modules[k]].needed[d]].lib
      BY Zenon, <3>0, <3>1, PlacesKept
    <3>5. inst'[modules'[j]].lib = inst'[inst'[modules'[k]].needed[d]].lib
      BY Zenon, <2>1, <3>1, <3>2, <3>3, <3>4, PlacesKept
    <3> QED BY Zenon, <3>5
  <2>2. CASE k = p /\ modules'[k] = n + 1
    <3>1. d \in DOMAIN Top.needed /\ inst'[modules'[k]].needed = Top.needed
      BY Zenon, <1>1, <2>2
    <3>2. /\ inst'[Top.needed[d]].lib = world.needed[Top.lib][d]
          /\ \E q \in DOMAIN modules : inst[modules[q]].lib = world.needed[Top.lib][d]
      BY Zenon, <1>2, <3>1, PlacesKept DEF FrameOK
    <3>3. CASE p = Len(modules) + 1
      <4>1. PICK q \in DOMAIN modules : inst[modules[q]].lib = world.needed[Top.lib][d]
        BY Zenon, <3>2
      <4>2. q \in 1 .. k - 1
        BY <2>2, <3>3 DEF LoaderInv, TypeInv
      <4>3. inst'[modules'[q]].lib = inst'[inst'[modules'[k]].needed[d]].lib
        BY Zenon, <3>1, <3>2, <4>1, PlacesKept
      <4> QED BY Zenon, <4>2, <4>3
    <3>4. CASE p \in DOMAIN modules /\ inst[modules[p]].lib = Top.lib
      <4>1. PICK o : o = modules[p]
        BY Zenon
      <4>2. o \in Ids /\ inst[o].lib = Top.lib /\ ~Virtual(Top.lib)
        BY Zenon, <1>2, <3>4, <4>1, PlacesKept DEF FrameOK, Virtual
      <4>3. inst[o].needed \in Seq(Ids)
        BY Zenon, <4>2, Fields DEF LoaderInv
      <4>4. /\ Len(inst[o].needed) = Len(world.needed[Top.lib])
            /\ \A j \in DOMAIN inst[o].needed : inst[inst[o].needed[j]].lib = world.needed[Top.lib][j]
        BY Zenon, <4>2 DEF LoaderInv, NeedInv, Listed
      <4>5. d \in DOMAIN inst[o].needed
        BY <1>2, <3>1, <4>3, <4>4
      <4>6. PICK j \in 1 .. p - 1 : inst[modules[j]].lib = inst[inst[o].needed[d]].lib
        BY Zenon, <3>4, <4>1, <4>5 DEF LoaderInv, MapInv
      <4>7. j \in DOMAIN modules
        BY <3>4 DEF LoaderInv, TypeInv
      <4>8. inst'[modules'[j]].lib = inst'[inst'[modules'[k]].needed[d]].lib
        BY Zenon, <3>1, <3>2, <4>4, <4>5, <4>6, <4>7, PlacesKept
      <4> QED BY Zenon, <2>2, <4>8
    <3> QED BY Zenon, <3>3, <3>4 DEF FinishFacts, Inserted
  <2>3. \/ k = p /\ modules'[k] = n + 1
        \/ k \in DOMAIN modules /\ modules'[k] = modules[k]
    BY Zenon, PlacesKept
  <2> QED BY Zenon, <2>1, <2>2, <2>3
<1>6. MapInv'
  BY Zenon, <1>1, <1>3, <1>4, <1>5 DEF MapInv, InMap
<1>7. NeedInv'
  <2> SUFFICES ASSUME NEW i \in 1 .. n + 1
               PROVE  IF inst'[i].lib \in Range(world.virtual)
                        THEN inst'[i].needed = <<>>
                        ELSE /\ Len(inst'[i].needed) <= Len(world.needed[inst'[i].lib])
                             /\ \A j \in DOMAIN inst'[i].needed :
                                  inst'[inst'[i].needed[j]].lib = world.needed[inst'[i].lib][j]
                             /\ Len(inst'[i].needed) = Len(world.needed[inst'[i].lib])
    BY Zenon, <1>1 DEF NeedInv, Listed, Virtual
  <2>1. CASE i \in Ids
    <3>1. /\ inst'[i].lib = inst[i].lib /\ inst'[i].needed = inst[i].needed
          /\ inst[i].needed \in Seq(Ids)
      BY Zenon, <2>1, Fields DEF FinishFacts, LoaderInv
    <3>2. \A j \in DOMAIN inst[i].needed : inst'[inst[i].needed[j]].lib = inst[inst[i].needed[j]].lib
      BY Zenon, <3>1, PlacesKept
    <3> QED BY Zenon, <2>1, <3>1, <3>2 DEF LoaderInv, NeedInv, Listed, Virtual
  <2>2. CASE i = n + 1
    <3>1. \A j \in DOMAIN Top.needed : inst'[Top.needed[j]].lib = world.needed[Top.lib][j]
      BY Zenon, <1>2, PlacesKept DEF FrameOK
    <3> QED BY Zenon, <1>1, <1>2, <2>2, <3>1 DEF FrameOK
  <2>3. i \in Ids \/ i = n + 1
    BY <1>1
  <2> QED BY Zenon, <2>1, <2>2, <2>3
<1> QED BY Zenon, <1>6, <1>7

\* The frames below stay well formed: the caller's frame now lists the module.
LEMMA FinishFrames ==
  ASSUME LoaderInv, Finish, NEW n, NEW p, FinishFacts(n, p)
  PROVE  StackInv' /\ stack' \in Seq(FrameSet(n + 1))
<1>1. /\ n \in Nat /\ Ids = 1 .. n /\ world' = world /\ inst'[n + 1].lib = Top.lib
      /\ phase = "load" /\ modules' \in Seq(1 .. n + 1)
      /\ stack' = IF Len(stack) > 1 THEN Provide(SubSeq(stack, 1, Len(stack) - 1), n + 1) ELSE <<>>
      /\ phase' = IF Len(stack) > 1 THEN "load" ELSE "resolve"
  <2>1. n = Len(inst)
    <3>1. n \in Nat /\ Len(inst) \in Nat /\ 1 .. n = 1 .. Len(inst)
      BY DEF FinishFacts, Ids, LoaderInv, TypeInv
    <3> QED BY <3>1
  <2> QED BY Zenon, <2>1 DEF FinishFacts, Finish
<1>2. CASE ~(Len(stack) > 1)
  <2>1. stack' = <<>> /\ phase' # "load"
    BY Zenon, <1>1, <1>2
  <2>2. <<>> \in Seq(FrameSet(n + 1))
    OBVIOUS
  <2> QED BY Zenon, <2>1, <2>2, NoFrames
<1>3. CASE Len(stack) > 1
  <2>1. PICK frames : frames = SubSeq(stack, 1, Len(stack) - 1)
    BY Zenon
  <2>2. /\ stack \in Seq(FrameSet(n + 1)) /\ Len(stack) \in Nat
    <3>1. stack \in Seq(FrameSet(n))
      <4>1. Len(inst) = n
        BY <1>1 DEF Ids, LoaderInv, TypeInv
      <4> QED BY Zenon, <4>1 DEF LoaderInv, TypeInv
    <3>2. FrameSet(n) \subseteq FrameSet(n + 1)
      BY Zenon, <1>1, OneMore
    <3> QED BY <3>1, <3>2
  <2>3. /\ frames \in Seq(FrameSet(n + 1)) /\ Len(frames) = Len(stack) - 1
        /\ \A k \in 1 .. Len(frames) : frames[k] = stack[k]
    BY <1>3, <2>1, <2>2 
  <2>4. ASSUME NEW k \in DOMAIN stack PROVE FrameOK(world, inst', modules', stack[k])
    <3>1. FrameOK(world, inst, modules, stack[k]) /\ stack[k].needed \in Seq(Ids)
      BY Zenon, FrameTypes DEF LoaderInv, StackInv
    <3>2. \A j \in DOMAIN stack[k].needed : inst'[stack[k].needed[j]].lib = inst[stack[k].needed[j]].lib
      BY Zenon, <3>1, PlacesKept
    <3>3. \A j \in DOMAIN modules : j \in DOMAIN modules' /\ inst'[modules'[j]].lib = inst[modules[j]].lib
      BY Zenon, PlacesKept
    <3> QED BY <3>1, <3>2, <3>3 DEF FrameOK
  <2>5. \A k \in DOMAIN frames : FrameOK(world, inst', modules', frames[k])
    <3>1. \A k \in DOMAIN frames : k \in 1 .. Len(frames) /\ k \in DOMAIN stack
      BY <2>2, <2>3
    <3> QED BY Zenon, <2>3, <2>4, <3>1
  <2>6. \A k \in 1 .. Len(stack) - 1 : Calls(world, stack[k], stack[k + 1])
    BY Zenon DEF LoaderInv, StackInv
  <2>7. \A k \in 1 .. Len(frames) - 1 : Calls(world, frames[k], frames[k + 1])
    <3>1. \A k \in 1 .. Len(frames) - 1 : k \in 1 .. Len(stack) - 1
                                          /\ frames[k] = stack[k] /\ frames[k + 1] = stack[k + 1]
      BY <2>2, <2>3
    <3> QED BY Zenon, <2>6, <3>1
  <2>8. /\ Len(frames) \in DOMAIN stack /\ frames[Len(frames)] = stack[Len(frames)]
        /\ Calls(world, stack[Len(frames)], Top) /\ frames # <<>>
    <3>1. /\ Len(frames) \in 1 .. Len(stack) - 1 /\ Len(frames) + 1 = Len(stack)
          /\ Len(frames) \in DOMAIN stack /\ frames[Len(frames)] = stack[Len(frames)]
          /\ frames # <<>>
      BY <1>3, <2>2, <2>3
    <3> QED BY Zenon, <2>6, <3>1 DEF Top
  <2>9. Calls(world, frames[Len(frames)], inst'[n + 1])
    BY Zenon, <1>1, <2>8 DEF Calls
  <2>10. Len(world.needed[frames[Len(frames)].lib]) \in Nat
    <3>1. stack[Len(frames)].lib \in Libs
      BY Zenon, <2>8, FrameTypes DEF LoaderInv
    <3> QED BY <2>8, <3>1, WorldTypes DEF LoaderInv
  <2>11. \E q \in DOMAIN modules' : inst'[modules'[q]].lib = inst'[n + 1].lib
    BY Zenon DEF FinishFacts, Inserted
  <2>12. PICK st : st = Provide(frames, n + 1)
    BY Zenon
  <2>13. n + 1 \in Nat /\ n + 1 \in 1 .. n + 1
    BY <1>1
  <2>14. /\ st \in Seq(FrameSet(n + 1)) /\ st # <<>>
         /\ \A k \in DOMAIN st : FrameOK(world, inst', modules', st[k])
         /\ \A k \in 1 .. Len(st) - 1 : Calls(world, st[k], st[k + 1])
    <3>1. PICK w, m, ms, n1 : w = world /\ m = inst' /\ ms = modules' /\ n1 = n + 1
      BY Zenon
    <3>2. /\ n1 \in Nat /\ frames \in Seq(FrameSet(n1)) /\ n1 \in 1 .. n1
          /\ \A k \in DOMAIN frames : FrameOK(w, m, ms, frames[k])
          /\ \A k \in 1 .. Len(frames) - 1 : Calls(w, frames[k], frames[k + 1])
          /\ Len(w.needed[frames[Len(frames)].lib]) \in Nat
          /\ Calls(w, frames[Len(frames)], m[n1])
          /\ \E q \in DOMAIN ms : m[ms[q]].lib = m[n1].lib
          /\ st = Provide(frames, n1)
      BY Zenon, <2>3, <2>5, <2>7, <2>9, <2>10, <2>11, <2>12, <2>13, <3>1
    <3>3. /\ st \in Seq(FrameSet(n1)) /\ st # <<>>
          /\ \A k \in DOMAIN st : FrameOK(w, m, ms, st[k])
          /\ \A k \in 1 .. Len(st) - 1 : Calls(w, st[k], st[k + 1])
      BY Zenon, <2>8, <3>2, ProvideFacts
    <3> QED BY Zenon, <3>1, <3>3
  <2>15. stack' = st /\ phase' = "load"
    BY Zenon, <1>1, <1>3, <2>1, <2>12
  <2> QED BY Zenon, <1>1, <2>14, <2>15 DEF StackInv
<1> QED BY Zenon, <1>2, <1>3

\* What relocation bound, and what it left for resolve_symbols, is as promised.
LEMMA FinishSymbols ==
  ASSUME LoaderInv, Finish, NEW n, NEW p, FinishFacts(n, p)
  PROVE  UnresolvedInv' /\ BindInv'
<1>1. /\ n \in Nat /\ Ids = 1 .. n /\ Ids' = 1 .. n + 1 /\ world' = world
      /\ inst'[n + 1].lib = Top.lib /\ inst'[n + 1].needed = Top.needed /\ started' = started
      /\ phase = "load" /\ (phase' = "load" \/ (phase' = "resolve" /\ target' = n + 1))
  <2>1. n = Len(inst)
    <3>1. n \in Nat /\ Len(inst) \in Nat /\ 1 .. n = 1 .. Len(inst)
      BY DEF FinishFacts, Ids, LoaderInv, TypeInv
    <3> QED BY <3>1
  <2>2. phase' = "load" \/ (phase' = "resolve" /\ target' = n + 1)
    <3>1. /\ phase' = IF Len(stack) > 1 THEN "load" ELSE "resolve"
          /\ target' = IF Len(stack) > 1 THEN target ELSE n + 1
      BY Zenon, <2>1 DEF Finish
    <3> QED BY Zenon, <3>1
  <2> QED BY Zenon, <2>2 DEF FinishFacts, Finish, Ids
<1>2. Top.needed \in Seq(Ids) /\ Top.lib \in Libs
  BY Zenon, <1>1, TopFrame
<1>3. \A i \in 1 .. n + 1 : i \in Ids \/ i = n + 1
  BY <1>1
<1>4. \A i \in Ids : \A s :
        /\ inst'[i].lib = inst[i].lib /\ inst'[i].needed = inst[i].needed
        /\ Defs(world, inst', inst[i].needed, s) = Defs(world, inst, inst[i].needed, s)
  <2>1. \A i \in Ids : inst[i].needed \in Seq(Ids)
    BY Zenon, Fields DEF LoaderInv
  <2>2. \A i \in Ids : inst'[i].lib = inst[i].lib /\ inst'[i].needed = inst[i].needed
    BY Zenon DEF FinishFacts
  <2> QED BY Zenon, <2>1, <2>2, PlacesKept
<1>5. \A s : Defs(world, inst', Top.needed, s) = Defs(world, inst, Top.needed, s)
  BY Zenon, <1>2, PlacesKept
<1>6. NeededUndefined'
  <2> SUFFICES ASSUME NEW i \in 1 .. n + 1, NEW s \in inst'[i].unresolved
               PROVE  Defs(world', inst', inst'[i].needed, s) = {}
    BY Zenon, <1>1 DEF NeededUndefined
  <2>1. CASE i \in Ids
    <3>1. s \in inst[i].unresolved
      BY Zenon, <2>1 DEF FinishFacts
    <3>2. Defs(world, inst, inst[i].needed, s) = {}
      BY Zenon, <2>1, <3>1 DEF LoaderInv, UnresolvedInv, NeededUndefined
    <3>3. /\ inst'[i].needed = inst[i].needed
          /\ Defs(world, inst', inst[i].needed, s) = Defs(world, inst, inst[i].needed, s)
      BY Zenon, <1>4, <2>1
    <3> QED BY Zenon, <1>1, <3>2, <3>3
  <2>2. CASE i = n + 1
    <3>1. s \in world.imports[Top.lib]
      BY Zenon, <2>2 DEF FinishFacts
    <3>2. Defs(world, inst, Top.needed, s) = {}
      BY Zenon, <2>2, <3>1 DEF FinishFacts
    <3> QED BY Zenon, <1>1, <1>5, <2>2, <3>2
  <2> QED BY Zenon, <1>3, <2>1, <2>2
<1>7. UnresolvedInv'
  <2>1. ASSUME phase' \in {"resolve", "init"}
        PROVE  /\ target' \in Range(modules')
               /\ \A i \in Range(modules') \ {target'} : inst'[i].unresolved = {}
               /\ target' \notin Range(started')
    <3>1. target' = n + 1
      BY Zenon, <1>1, <2>1
    <3>2. n + 1 \in Range(modules')
      BY Zenon DEF FinishFacts, Inserted, Range
    <3>3. \A i \in Range(modules') \ {n + 1} : i \in Range(modules) /\ i \in Ids
      BY Zenon, PlacesKept DEF Range
    <3>4. \A i \in Range(modules') \ {n + 1} : inst'[i].unresolved = {}
      BY Zenon, <3>3 DEF FinishFacts
    <3>5. n + 1 \notin Range(started)
      <4>1. Range(started) \subseteq Ids
        BY DEF LoaderInv, TypeInv, Range
      <4> QED BY Zenon, <4>1, PlacesKept
    <3> QED BY Zenon, <1>1, <3>1, <3>2, <3>4, <3>5
  <2> QED BY Zenon, <1>6, <2>1 DEF UnresolvedInv
<1>8. FirstBound'
  <2> SUFFICES ASSUME NEW i \in 1 .. n + 1, NEW s \in world'.imports[inst'[i].lib],
                      Defs(world', inst', inst'[i].needed, s) # {}
               PROVE  inst'[i].slot[s].base =
                        inst'[i].needed[Min(Defs(world', inst', inst'[i].needed, s))]
    BY Zenon, <1>1 DEF FirstBound
  <2>1. CASE i \in Ids
    <3>1. /\ Defs(world', inst', inst'[i].needed, s) = Defs(world, inst, inst[i].needed, s)
          /\ s \in world.imports[inst[i].lib] /\ inst'[i].needed = inst[i].needed
      BY Zenon, <1>1, <1>4, <2>1
    <3>2. s \in Syms
      BY Zenon, <2>1, <3>1, Fields, WorldTypes DEF LoaderInv
    <3>3. inst'[i].slot[s].base = inst[i].slot[s].base
      BY Zenon, <2>1, <3>2 DEF FinishFacts
    <3> QED BY Zenon, <2>1, <3>1, <3>3 DEF LoaderInv, BindInv, FirstBound
  <2>2. CASE i = n + 1
    <3>1. /\ Defs(world', inst', inst'[i].needed, s) = Defs(world, inst, Top.needed, s)
          /\ s \in world.imports[Top.lib] /\ inst'[i].needed = Top.needed
      BY Zenon, <1>1, <1>5, <2>2
    <3>2. inst'[i].slot[s] = To(Top.needed[Min(Defs(world, inst, Top.needed, s))])
      BY Zenon, <2>2, <3>1 DEF FinishFacts
    <3>3. \A j : To(j).base = j
      BY Zenon DEF To
    <3> QED BY Zenon, <3>1, <3>2, <3>3
  <2> QED BY Zenon, <1>3, <2>1, <2>2
<1>9. ASSUME NEW s \in world.imports[Top.lib], NEW b, b = inst'[n + 1].slot[s]
      PROVE  \/ s \in inst'[n + 1].unresolved /\ b = Unbound
             \/ s \notin inst'[n + 1].unresolved /\ b.kind = "module"
                /\ s \in world.defines[inst'[b.base].lib]
  <2>1. CASE Defs(world, inst, Top.needed, s) = {}
    BY Zenon, <1>9, <2>1 DEF FinishFacts
  <2>2. CASE Defs(world, inst, Top.needed, s) # {}
    <3>1. PICK j : j = Top.needed[Min(Defs(world, inst, Top.needed, s))]
      BY Zenon
    <3>2. j \in Ids /\ s \in world.defines[inst[j].lib]
      BY Zenon, <1>2, <2>2, <3>1, Resolved DEF LoaderInv
    <3>3. b = To(j) /\ s \notin inst'[n + 1].unresolved
      BY Zenon, <1>9, <2>2, <3>1 DEF FinishFacts
    <3>4. b.kind = "module" /\ b.base = j
      BY Zenon, <3>3 DEF To
    <3>5. inst'[j].lib = inst[j].lib
      BY Zenon, <1>4, <3>2
    <3> QED BY Zenon, <3>2, <3>3, <3>4, <3>5
  <2> QED BY Zenon, <2>1, <2>2
<1>10. phase' = "resolve" => target' \in Ids' /\ HalfBound(target)'
  <2>1. ASSUME phase' = "resolve" PROVE target' \in Ids' /\ HalfBound(target)'
    <3>1. target' = n + 1 /\ n + 1 \in 1 .. n + 1
      BY <1>1, <2>1
    <3> QED BY <1>1, <1>9, <3>1 DEF HalfBound
  <2> QED BY Zenon, <2>1
<1>11. BindInv'
  BY Zenon, <1>1, <1>8, <1>10 DEF BindInv
<1> QED BY Zenon, <1>7, <1>11

\* Finish preserves the invariant: the three parts above, types and init state.
LEMMA FinishStep ==
  ASSUME LoaderInv, Finish
  PROVE  LoaderInv'
<1>1. PICK n, p : FinishFacts(n, p)
  BY Zenon, Finished
<1>2. /\ n \in Nat /\ Ids = 1 .. n /\ Ids' = 1 .. n + 1 /\ world' = world /\ phase = "load"
      /\ phase' \in {"load", "resolve"} /\ target' \in {target, n + 1} /\ n = Len(inst)
      /\ UNCHANGED <<world, force, cursor, exit_status, loads, started, excused, last>>
  <2>1. n = Len(inst)
    <3>1. n \in Nat /\ Len(inst) \in Nat /\ 1 .. n = 1 .. Len(inst)
      BY <1>1 DEF FinishFacts, Ids, LoaderInv, TypeInv
    <3> QED BY <3>1
  <2> QED BY Zenon, <1>1, <2>1 DEF FinishFacts, Finish, Ids
<1>3. TypeInv'
  <2>1. inst' \in Seq(ModuleSet(Len(inst'))) /\ modules' \in Seq(Ids') /\ Len(inst') = n + 1
        /\ stack' \in Seq(FrameSet(Len(inst')))
    BY Zenon, <1>1, <1>2, FinishFrames DEF FinishFacts
  <2>2. started' \in Seq(Ids') /\ excused' \subseteq Ids'
    <3>1. Ids \subseteq Ids' /\ started \in Seq(Ids) /\ excused \subseteq Ids
      BY <1>2 DEF LoaderInv, TypeInv
    <3> QED BY <1>2, <3>1
  <2>3. target' \in 0 .. Len(inst')
    BY <1>2, <2>1 DEF LoaderInv, TypeInv
  <2>4. cursor' \in 0 .. (Len(modules') + 1)
    <3>1. Len(modules) <= Len(modules') /\ Len(modules) \in Nat /\ Len(modules') \in Nat
      <4>1. DOMAIN modules \subseteq DOMAIN modules' /\ modules' \in Seq(Ids') /\ modules \in Seq(Ids)
        BY Zenon, <1>1, <2>1, PlacesKept DEF LoaderInv, TypeInv
      <4> QED BY <4>1
    <3> QED BY <1>2, <3>1 DEF LoaderInv, TypeInv
  <2> QED BY Zenon, <1>2, <2>1, <2>2, <2>3, <2>4 DEF LoaderInv, TypeInv
<1>4. MapInv' /\ NeedInv'
  BY Zenon, <1>1, FinishMap
<1>5. StackInv'
  BY Zenon, <1>1, FinishFrames
<1>6. UnresolvedInv' /\ BindInv'
  BY Zenon, <1>1, FinishSymbols
<1>7. InitInv'
  <2>1. Range(started) \subseteq Ids
    BY DEF LoaderInv, TypeInv, Range
  <2>2. \A i \in Ids : inst'[i].inits = inst[i].inits /\ inst'[i].lib = inst[i].lib
    BY Zenon, <1>1 DEF FinishFacts
  <2>3. inst'[n + 1].inits = (inst'[n + 1].lib \in world.inits)
    BY Zenon, <1>1 DEF FinishFacts
  <2>4. ASSUME ~exit_status, NEW i \in 1 .. n + 1, inst'[i].lib \in world.inits
        PROVE  inst'[i].inits \/ i \in Range(started) \cup excused
    <3>1. CASE i \in Ids
      BY Zenon, <2>2, <2>4, <3>1 DEF LoaderInv, InitInv, HasInits
    <3>2. CASE i = n + 1
      BY Zenon, <2>3, <2>4, <3>2
    <3>3. i \in Ids \/ i = n + 1
      BY <1>2
    <3> QED BY Zenon, <3>1, <3>2, <3>3
  <2>5. \A i \in Range(started) : ~inst'[i].inits
    BY <2>1, <2>2 DEF LoaderInv, InitInv
  <2> QED BY Zenon, <1>2, <2>4, <2>5 DEF LoaderInv, InitInv, InitOnce, HasInits
<1> QED BY Zenon, <1>3, <1>4, <1>5, <1>6, <1>7 DEF LoaderInv

-----------------------------------------------------------------------------
(* Results *)

\* A loader that holds only the virtual modules satisfies the invariant.
LEMMA StartLoader ==
  ASSUME Init
  PROVE  LoaderInv
<1>1. PICK n : n = Len(world.virtual)
  BY Zenon
<1>2. /\ n \in Nat /\ world \in Worlds /\ world.virtual \in Seq(Libs) /\ IsInjective(world.virtual)
      /\ DOMAIN world.virtual = 1 .. n
  BY <1>1, LoaderAssumption DEF Init
<1>3. /\ inst = [k \in 1 .. n |-> create_virtual_module(world.virtual[k])]
      /\ modules = [k \in 1 .. n |-> k]
      /\ stack = <<>> /\ phase = "idle" /\ target = 0 /\ force = FALSE /\ cursor = 0
      /\ exit_status = FALSE /\ loads = 0 /\ started = <<>> /\ excused = {} /\ last = "none"
  BY Zenon, <1>1 DEF Init
<1>4. ASSUME NEW i \in 1 .. n
      PROVE  /\ inst[i] \in ModuleSet(n)
             /\ inst[i].lib = world.virtual[i] /\ inst[i].needed = <<>>
             /\ inst[i].unresolved = {} /\ inst[i].inits = FALSE
  <2>1. Unbound \in BindingSet(n) /\ <<>> \in Seq(1 .. n) /\ world.virtual[i] \in Libs
    BY <1>2 DEF Unbound, BindingSet
  <2>2. [s \in Syms |-> Unbound] \in [Syms -> BindingSet(n)]
    BY Zenon, <2>1
  <2>3. PICK f : f = [s \in Syms |-> Unbound]
    BY Zenon
  <2>4. PICK done : done = {s \in Syms : f[s].kind # "unbound"}
    BY Zenon
  <2>5. inst[i] = [lib |-> world.virtual[i], needed |-> <<>>, unresolved |-> {}, slot |-> f,
                   resolved |-> done, inits |-> FALSE, ref_cnt |-> 0]
    BY <1>3, <2>3, <2>4 DEF create_virtual_module, Module
  <2>6. done \subseteq Syms /\ f \in [Syms -> BindingSet(n)]
    BY <2>2, <2>3, <2>4
  <2> QED BY <2>1, <2>5, <2>6 DEF ModuleSet
<1>5. inst \in Seq(ModuleSet(n)) /\ Len(inst) = n /\ Ids = 1 .. n
  <2>1. inst \in [1 .. n -> ModuleSet(n)]
    BY Zenon, <1>3, <1>4
  <2> QED BY <1>2, <2>1 DEF Ids
<1>6. modules \in Seq(Ids) /\ DOMAIN modules = 1 .. n /\ Len(modules) = n
  BY <1>2, <1>3, <1>5
<1>7. TypeInv
  <2>1. <<>> \in Seq(FrameSet(n)) /\ <<>> \in Seq(1 .. n)
    OBVIOUS
  <2>2. 0 \in 0 .. n /\ 0 \in 0 .. (n + 1) /\ 0 \in 0 .. MaxLoads
    BY <1>2, LoaderAssumption
  <2>3. stack \in Seq(FrameSet(Len(inst))) /\ started \in Seq(Ids) /\ inst \in Seq(ModuleSet(Len(inst)))
    BY Zenon, <1>3, <1>5, <2>1
  <2> QED BY Zenon, <1>2, <1>3, <1>5, <1>6, <2>2, <2>3 DEF TypeInv
<1>8. \A k \in DOMAIN modules : modules[k] = k /\ inst[modules[k]].lib = world.virtual[k]
                                /\ inst[modules[k]].needed = <<>>
  BY Zenon, <1>3, <1>4, <1>6
<1>9. MapInv
  <2>1. \A j, k \in DOMAIN modules : inst[modules[j]].lib = inst[modules[k]].lib => j = k
    BY <1>2, <1>6, <1>8 DEF IsInjective
  <2>2. \A k \in DOMAIN world.virtual : InMap(world.virtual[k])
    BY Zenon, <1>2, <1>6, <1>8 DEF InMap
  <2>3. \A k \in DOMAIN modules : DOMAIN inst[modules[k]].needed = {}
    BY <1>8
  <2> QED BY <2>1, <2>2, <2>3 DEF MapInv
<1>10. NeedInv
  <2>1. \A i \in Ids : Virtual(inst[i].lib)
    BY Zenon, <1>2, <1>4, <1>5 DEF Virtual, Range
  <2> QED BY Zenon, <1>4, <1>5, <2>1 DEF NeedInv
<1>11. StackInv
  BY <1>3 DEF StackInv
<1>12. UnresolvedInv
  BY Zenon, <1>3, <1>4, <1>5 DEF UnresolvedInv, NeededUndefined
<1>13. Range(started) = {}
  BY <1>3 DEF Range
<1>14. InitInv
  <2>1. InitOnce
    BY <1>3 DEF InitOnce, IsInjective
  <2>2. ~exit_status =>
          \A i \in Ids : HasInits(i) => inst[i].inits \/ i \in Range(started) \cup excused
    <3>1. Range(world.virtual) \cap world.inits = {}
      BY Zenon, <1>2, LoaderAssumption
    <3>2. \A i \in Ids : inst[i].lib \in Range(world.virtual)
      BY <1>2, <1>4, <1>5 DEF Range
    <3> QED BY Zenon, <3>1, <3>2 DEF HasInits
  <2> QED BY <1>3, <1>13, <2>1, <2>2 DEF InitInv
<1>15. BindInv
  <2>1. \A i \in Ids : \A s : Defs(world, inst, inst[i].needed, s) = {}
    <3>1. \A s : Defs(world, inst, <<>>, s) = {}
      BY DEF Defs
    <3> QED BY Zenon, <1>4, <1>5, <3>1
  <2> QED BY Zenon, <1>3, <2>1 DEF BindInv, FirstBound
<1> QED BY Zenon, <1>7, <1>9, <1>10, <1>11, <1>12, <1>14, <1>15 DEF LoaderInv

\* Every step of load_library keeps the invariant.
LEMMA LoaderStep ==
  ASSUME LoaderInv, [Next]_vars
  PROVE  LoaderInv'
<1>1. CASE UNCHANGED vars
  <2>1. Quiet /\ ShapeKept
    BY Zenon, <1>1 DEF vars, Quiet, ShapeKept
  <2>2. TypeInv'
    BY Zenon, <1>1 DEF vars, LoaderInv, TypeInv, Ids
  <2>3. MapInv' /\ NeedInv'
    BY Zenon, <2>1, ShapeStep DEF LoaderInv
  <2>4. NeededUndefined' /\ FirstBound'
    BY Zenon, <2>1, QuietStep DEF LoaderInv, UnresolvedInv, BindInv
  <2>5. StackInv'
    BY Zenon, <1>1 DEF vars, LoaderInv, StackInv
  <2>6. UnresolvedInv'
    BY Zenon, <1>1, <2>4 DEF vars, LoaderInv, UnresolvedInv
  <2>7. InitInv'
    BY Zenon, <1>1 DEF vars, LoaderInv, InitInv, InitOnce, HasInits, Ids
  <2>8. BindInv'
    BY Zenon, <1>1, <2>4 DEF vars, LoaderInv, BindInv, Bound, HalfBound, Ids
  <2> QED BY Zenon, <2>2, <2>3, <2>5, <2>6, <2>7, <2>8 DEF LoaderInv
<1>2. CASE Next
  <2>1. ASSUME NEW lib \in Libs, NEW f \in BOOLEAN, Load(lib, f) PROVE LoaderInv'
    BY Zenon, <2>1, LoadStep
  <2>2. CASE Step
    BY Zenon, <2>2, NeedLoadedStep, NeedLoadStep, EndStep, FinishStep, ResolveStep, InitStep,
       DoneStep DEF Step
  <2> QED BY Zenon, <1>2, <2>1, <2>2 DEF Next
<1> QED BY Zenon, <1>1, <1>2

\* The inductive invariant holds throughout.
LEMMA LoaderInvHolds == Spec => []LoaderInv
<1>1. Init => LoaderInv
  BY Zenon, StartLoader
<1>2. LoaderInv /\ [Next]_vars => LoaderInv'
  BY Zenon, LoaderStep
<1> QED BY <1>1, <1>2, PTL DEF Spec

(* No init function of a module runs twice, and when load_library answers     *)
(* every module of the map has run its own or was passed over, whatever the   *)
(* libraries need and however many loads fail before.                         *)
THEOREM InitsExactlyOnce == Spec => []InitExactlyOnce
<1>1. LoaderInv => InitExactlyOnce
  <2> SUFFICES ASSUME LoaderInv PROVE InitExactlyOnce
    BY Zenon
  <2>1. TypeOK
    <3>1. \A i \in Ids : /\ inst[i].lib \in Libs
                         /\ inst[i].unresolved \subseteq Syms
                         /\ inst[i].resolved \subseteq Syms
                         /\ Range(inst[i].needed) \subseteq Ids
                         /\ inst[i].slot \in [Syms -> Bindings]
                         /\ inst[i].inits \in BOOLEAN /\ inst[i].ref_cnt \in Nat
      <4>1. BindingSet(Len(inst)) \subseteq Bindings
        BY Zenon DEF BindingSet, Bindings
      <4>2. \A ids \in Seq(Ids) : Range(ids) \subseteq Ids
        BY DEF Range
      <4>3. \A f \in [Syms -> BindingSet(Len(inst))] : f \in [Syms -> Bindings]
        BY Zenon, <4>1
      <4> QED BY Zenon, <4>2, <4>3, Fields DEF LoaderInv
    <3>2. \A k \in DOMAIN stack : stack[k].lib \in Libs /\ Range(stack[k].needed) \subseteq Ids
      BY FrameTypes DEF LoaderInv, Range
    <3>3. Range(modules) \subseteq Ids /\ Range(started) \subseteq Ids
      BY DEF LoaderInv, TypeInv, Range
    <3> QED BY Zenon, <3>1, <3>2, <3>3 DEF TypeOK, LoaderInv, TypeInv
  <2>2. Range(modules) \subseteq Ids
    BY DEF LoaderInv, TypeInv, Range
  <2>3. InitOnce /\ InitReached
    BY Zenon, <2>2 DEF LoaderInv, InitInv, InitReached
  <2> QED BY Zenon, <2>1, <2>3 DEF InitExactlyOnce
<1> QED BY <1>1, LoaderInvHolds, PTL

(* When the init functions of a module start, no module it needs has any left *)
(* to run, and only the library asked for, not forced, or libc++ is passed    *)
(* over with some left.                                                       *)
THEOREM InitsInOrder == Spec => InitOrder
<1>1. LoaderInv /\ [Next]_vars =>
        [\A i \in Range(started') \ Range(started) : \A d \in Range(inst[i].needed) :
           d \in Range(modules) => ~inst[d].inits]_vars
  <2> SUFFICES ASSUME LoaderInv, Next,
                      NEW i \in Range(started') \ Range(started), NEW d \in Range(inst[i].needed),
                      d \in Range(modules)
               PROVE  ~inst[d].inits
    BY Zenon
  <2>1. call_init_functions
    <3>1. started' # started
      BY Zenon
    <3> QED BY Zenon, <3>1 DEF Next, Step, Load, NeedLoaded, NeedLoad, NeedMissing, NeedOverflow, Finish,
                        resolve_symbols, LoadDone
  <2>2. /\ phase = "init" /\ cursor \in DOMAIN modules /\ i = modules[cursor]
        /\ cursor <= Len(modules)
    <3>1. phase = "init" /\ cursor <= Len(modules) /\ cursor >= 1
      BY Zenon, <2>1 DEF LoaderInv, InitInv, call_init_functions
    <3>2. cursor \in DOMAIN modules
      BY <3>1 DEF LoaderInv, TypeInv
    <3>3. started' = Append(started, modules[cursor]) \/ started' = started
      BY Zenon, <2>1 DEF call_init_functions
    <3>4. started' = Append(started, modules[cursor])
      BY Zenon, <3>3
    <3>5. Range(started') \subseteq Range(started) \cup {modules[cursor]}
      <4>1. started \in Seq(Ids)
        BY Zenon DEF LoaderInv, TypeInv
      <4>2. \A k \in DOMAIN Append(started, modules[cursor]) :
              \/ k \in DOMAIN started /\ Append(started, modules[cursor])[k] = started[k]
              \/ Append(started, modules[cursor])[k] = modules[cursor]
        BY <4>1
      <4> QED BY <3>4, <4>2 DEF Range
    <3> QED BY Zenon, <3>1, <3>2, <3>5
  <2>3. PICK e \in DOMAIN inst[modules[cursor]].needed : d = inst[modules[cursor]].needed[e]
    BY Zenon, <2>2 DEF Range
  <2>4. PICK j \in 1 .. cursor - 1 : inst[modules[j]].lib = inst[d].lib
    BY Zenon, <2>2, <2>3 DEF LoaderInv, MapInv
  <2>5. PICK k \in DOMAIN modules : d = modules[k]
    BY Zenon DEF Range
  <2>6. j \in DOMAIN modules
    BY <2>2 DEF LoaderInv, TypeInv
  <2>7. j = k
    BY Zenon, <2>4, <2>5, <2>6 DEF LoaderInv, MapInv
  <2> QED BY Zenon, <2>2, <2>4, <2>5, <2>7 DEF LoaderInv, InitInv
<1>2. LoaderInv /\ [Next]_vars =>
        [\A i \in excused' \ excused : inst[i].lib = LibCxx \/ (i = target /\ ~force)]_vars
  <2> SUFFICES ASSUME LoaderInv, Next, NEW i \in excused' \ excused
               PROVE  inst[i].lib = LibCxx \/ (i = target /\ ~force)
    BY Zenon
  <2>1. call_init_functions
    <3>1. excused' # excused
      BY Zenon
    <3> QED BY Zenon, <3>1 DEF Next, Step, Load, NeedLoaded, NeedLoad, NeedMissing, NeedOverflow, Finish,
                        resolve_symbols, LoadDone
  <2>2. /\ phase = "init" /\ i = modules[cursor] /\ inst[i].inits
        /\ ~Runs(inst[i], force /\ i = target)
    BY Zenon, <2>1 DEF call_init_functions
  <2>3. i \in Range(modules)
    <3>1. cursor \in DOMAIN modules
      BY <2>1 DEF call_init_functions, LoaderInv, InitInv, TypeInv
    <3> QED BY Zenon, <2>2, <3>1 DEF Range
  <2>4. i # target => inst[i].unresolved = {}
    BY Zenon, <2>2, <2>3 DEF LoaderInv, UnresolvedInv
  <2> QED BY Zenon, <2>2, <2>4 DEF Runs
<1>3. Spec => DependenciesFirst
  BY <1>1, LoaderInvHolds, PTL DEF Spec, DependenciesFirst
<1>4. Spec => OnlyTargetSkipped
  BY <1>2, LoaderInvHolds, PTL DEF Spec, OnlyTargetSkipped
<1> QED BY Zenon, <1>3, <1>4 DEF InitOrder

(* An import is bound to a module that defines it, to the first needed        *)
(* library that does when there is one, and a module that has started keeps   *)
(* its bindings until an executable that defines the symbol is loaded.        *)
THEOREM ImportsBound == Spec => BindingsRight
<1>1. LoaderInv => TargetBound /\ NeededFirst
  <2> SUFFICES ASSUME LoaderInv PROVE TargetBound /\ NeededFirst
    BY Zenon
  <2>1. TargetBound
    BY Zenon DEF LoaderInv, BindInv, TargetBound, Bound, Defs, Definers
  <2>2. NeededFirst
    <3>1. \A ids : \A s : Definers(ids, s) = Defs(world, inst, ids, s)
      BY Zenon DEF Definers, Defs
    <3> QED BY Zenon, <3>1 DEF LoaderInv, BindInv, FirstBound, NeededFirst
  <2> QED BY Zenon, <2>1, <2>2
<1>2. LoaderInv /\ [Next]_vars =>
        [\A i \in Range(started) : \A s \in Syms :
           inst[i].slot[s].kind # "unbound" =>
             \/ inst'[i].slot[s] = inst[i].slot[s]
             \/ \E l \in world.executables : s \in world.defines[l]]_vars
  <2> SUFFICES ASSUME LoaderInv, Next, NEW i \in Range(started), NEW s \in Syms
               PROVE  \/ inst'[i].slot[s] = inst[i].slot[s]
                      \/ \E l \in world.executables : s \in world.defines[l]
    BY Zenon
  <2>1. i \in Ids /\ i \in DOMAIN inst /\ inst[i] \in ModuleSet(Len(inst))
    <3>1. i \in Ids
      BY DEF LoaderInv, TypeInv, Range
    <3> QED BY <3>1, Fields DEF LoaderInv, TypeInv, Ids
  <2>2. CASE inst' = inst
    BY Zenon, <2>2
  <2>3. CASE NeedLoaded
    <3>1. inst' = [inst EXCEPT ![modules[Min(Position(Wanted))]].ref_cnt = @ + 1]
      BY Zenon, <2>3 DEF NeedLoaded
    <3> QED BY Zenon, <2>1, <3>1 DEF ModuleSet
  <2>4. CASE call_init_functions
    <3>1. inst' = [inst EXCEPT ![modules[cursor]].inits = FALSE]
      BY Zenon, <2>4 DEF call_init_functions
    <3> QED BY Zenon, <2>1, <3>1 DEF ModuleSet
  <2>5. CASE LoadDone
    <3>1. PICK b, c : inst'[i] = [inst[i] EXCEPT !.inits = b, !.ref_cnt = c]
      BY Zenon, <2>1, <2>5 DEF LoadDone
    <3> QED BY Zenon, <2>1, <3>1 DEF ModuleSet
  <2>6. CASE Finish
    <3>1. PICK n, p : FinishFacts(n, p)
      BY Zenon, <2>6, Finished
    <3> QED BY Zenon, <2>1, <3>1 DEF FinishFacts
  <2>7. CASE resolve_symbols
    <3>1. i # target /\ (i \in Range(modules) => inst[i].unresolved = {})
      BY Zenon, <2>7 DEF resolve_symbols, LoaderInv, UnresolvedInv
    <3>2. inst'[i] = IF i \in Range(modules)
                       THEN Relocate(inst[i], inst[i].unresolved,
                                     [t \in Syms |-> Resolve(modules, t, TRUE)])
                       ELSE inst[i]
      BY Zenon, <2>1, <2>7 DEF resolve_symbols
    <3>3. CASE i \in Range(modules)
      <4>1. inst'[i] = Relocate(inst[i], {}, [t \in Syms |-> Resolve(modules, t, TRUE)])
        BY Zenon, <3>1, <3>2, <3>3
      <4> QED BY <2>1, <4>1 DEF Relocate, ModuleSet
    <3> QED BY Zenon, <3>2, <3>3
  <2> QED BY Zenon, <2>2, <2>3, <2>4, <2>5, <2>6, <2>7
         DEF Next, Step, Load, NeedLoad, NeedMissing, NeedOverflow
<1>3. Spec => [](TargetBound /\ NeededFirst)
  BY <1>1, LoaderInvHolds, PTL
<1>4. Spec => SlotsStable
  BY <1>2, LoaderInvHolds, PTL DEF Spec, SlotsStable
<1> QED BY Zenon, <1>3, <1>4 DEF BindingsRight
=============================================================================
