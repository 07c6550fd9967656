----------------------------- MODULE DlIterate -----------------------------
(***************************************************************************)
(* dl_iterate_phdr and dlopen are stubs: a few instructions that trap into *)
(* the host, find there a list that the host has pushed on the guest's     *)
(* stack, and walk it, calling guest code for each frame.  A callback may  *)
(* call the stubs again and may make the host load a library, so frames of *)
(* several walks lie on one stack.  The module executes the stubs block by *)
(* block.                                                                  *)
(***************************************************************************)
EXTENDS Integers, Sequences

CONSTANTS Libraries,    \* libraries with an ELF file the host can load
          Results,      \* what a callback may return
          MaxDepth,     \* bound: calls of dl_iterate_phdr that enclose one another
          MaxCalls      \* bound: calls of the stubs

ASSUME WalkAssumption == MaxDepth \in Nat /\ MaxCalls \in Nat /\ Results \subseteq Int

VARIABLES stack,    \* the guest stack, a sequence of words, top last
          regs,     \* x0, x1, x2, x13 and x30
          pc,       \* the block about to run
          modules,  \* memory.modules in load order, TRUE = has an ELF file
          info,     \* the dl_phdr_info blocks that were allocated
          walks,    \* history: the walks in progress, innermost last
          returned, \* history: the walk that has just returned
          calls

walkVars == <<stack, regs, pc, modules, info, walks, returned, calls>>

Word(kind, n) == <<kind, n>>
Null == Word("int", 0)
InfoSize == Word("size", 64)
Libart == "libart"
NoWalk == [stack |-> <<>>, lr |-> Null, data |-> Null, list |-> <<>>, visited |-> <<>>, answers |-> <<>>]

WalkInit == /\ stack = <<>>
            /\ regs = [x0 |-> Null, x1 |-> Null, x2 |-> Null, x13 |-> Null, x30 |-> Word("guest", 0)]
            /\ pc = "guest"
            /\ modules = <<[name |-> "virtual", elf |-> FALSE]>>
            /\ info = <<>>
            /\ walks = <<>> /\ returned = NoWalk
            /\ calls = 0

Top == stack[Len(stack)]
Pop(n) == SubSeq(stack, 1, Len(stack) - n)
Nth(n) == stack[Len(stack) - n]     \* Nth(0) is the top

-----------------------------------------------------------------------------
(* The host's half of the call.                                            *)
WithElf ==
    LET names[i \in 0..Len(modules)] ==
            IF i = 0 THEN <<>>
            ELSE IF modules[i].elf THEN Append(names[i - 1], modules[i].name) ELSE names[i - 1]
    IN  names[Len(modules)]

listed_in_order == WithElf \o <<Libart>>

(* The modules that have an ELF file, last loaded first, then libart: the  *)
(* order in which they are pushed.                                         *)
listed == [i \in 1..Len(WithElf) |-> WithElf[Len(WithElf) + 1 - i]] \o <<Libart>>

Frame(block, data) == <<data, InfoSize, Word("ptr", block), Word("code", "cb")>>

frames(data) ==
    <<Null>> \o [k \in 1..4 * Len(listed) |-> Frame(Len(info) + ((k + 3) \div 4), data)[((k - 1) % 4) + 1]]

SavedRegisters == <<regs.x30, Word("fp", 0)>>

NewWalk(data) == [stack |-> stack, lr |-> regs.x30, data |-> data, list |-> <<Libart>> \o WithElf,
                  visited |-> <<>>, answers |-> <<>>]

(* Guest code, outermost or inside a callback, calls dl_iterate_phdr: the  *)
(* stub saves x29 and x30 and traps, the host allocates one block for each *)
(* module and pushes the terminator and the frames.                        *)
dl_iterate_phdr(data) ==
    /\ pc = "guest" /\ calls < MaxCalls /\ Len(walks) < MaxDepth
    /\ stack' = stack \o SavedRegisters \o frames(data)
    /\ info' = info \o listed
    /\ pc' = "loop"
    /\ walks' = Append(walks, NewWalk(data))
    /\ calls' = calls + 1
    /\ returned' = NoWalk
    /\ UNCHANGED <<regs, modules>>

(* falloc fails: the handler answers FUCK, which stops the task.           *)
AllocationFails ==
    /\ pc = "guest" /\ calls < MaxCalls /\ Len(walks) < MaxDepth
    /\ pc' = "stopped"
    /\ UNCHANGED <<stack, regs, modules, info, walks, returned, calls>>

-----------------------------------------------------------------------------
(* The guest's half: the blocks of the stub.                               *)

(* 0xc: pop the callback; a null one ends the walk, otherwise pop the      *)
(* three arguments and call it.                                            *)
loop ==
    /\ pc = "loop"
    /\ IF Top = Null
       THEN /\ stack' = Pop(1) /\ pc' = "post"
            /\ regs' = [regs EXCEPT !.x13 = Null]
            /\ UNCHANGED walks
       ELSE /\ stack' = Pop(4) /\ pc' = "callback"
            /\ regs' = [x13 |-> Top, x0 |-> Nth(1), x1 |-> Nth(2), x2 |-> Nth(3),
                        x30 |-> Word("stub", 0)]
            /\ walks' = [walks EXCEPT ![Len(walks)].visited =
                            Append(@, <<info[Nth(1)[2]], Nth(2), Nth(3)>>)]
    /\ UNCHANGED <<modules, info, returned, calls>>

(* 0x38: zero continues the walk.                                          *)
AfterCallback ==
    /\ pc = "compare"
    /\ pc' = IF regs.x0 = Null THEN "loop" ELSE "drain"
    /\ UNCHANGED <<stack, regs, modules, info, walks, returned, calls>>

drain_in_place ==
    /\ pc = "drain"
    /\ regs' = [regs EXCEPT !.x13 = Top]
    /\ IF Top = Null THEN stack' = Pop(1) /\ pc' = "post"
                     ELSE stack' = Pop(0) /\ pc' = "drain"
    /\ UNCHANGED <<modules, info, walks, returned, calls>>

(* 0x40: drop the frames that are left, down to the terminator.            *)
drain ==
    /\ pc = "drain"
    /\ regs' = [regs EXCEPT !.x13 = Top]
    /\ IF Top = Null THEN stack' = Pop(1) /\ pc' = "post"
                     ELSE stack' = Pop(4) /\ pc' = "drain"
    /\ UNCHANGED <<modules, info, walks, returned, calls>>

(* 0x58: the post callback, whose answer the host drops, then the saved    *)
(* registers and the return to the caller.                                 *)
post ==
    /\ pc = "post"
    /\ regs' = [regs EXCEPT !.x30 = Nth(1)]
    /\ stack' = Pop(2)
    /\ pc' = "guest"
    /\ returned' = walks[Len(walks)]
    /\ walks' = SubSeq(walks, 1, Len(walks) - 1)
    /\ UNCHANGED <<modules, info, calls>>

-----------------------------------------------------------------------------
(* dlopen's stub.  No library is ever opened: the host pushes the result 0 *)
(* and the terminator of an empty list of init functions.                  *)
dlopen ==
    /\ pc = "guest" /\ calls < MaxCalls
    /\ stack' = stack \o SavedRegisters \o <<Null, Null>>
    /\ regs' = [regs EXCEPT !.x0 = Null]
    /\ pc' = "dlopen_loop"
    /\ calls' = calls + 1
    /\ returned' = NoWalk
    /\ UNCHANGED <<modules, info, walks>>

(* 0xc of dlopen's stub: the terminator, then the result, then the return. *)
dlopen_loop ==
    /\ pc = "dlopen_loop" /\ Top = Null
    /\ regs' = [regs EXCEPT !.x13 = Top, !.x0 = Nth(1), !.x30 = Nth(3)]
    /\ stack' = Pop(4)
    /\ pc' = "guest"
    /\ UNCHANGED <<modules, info, walks, returned, calls>>

-----------------------------------------------------------------------------
(* Guest code (external): a callback keeps its return address on the stack *)
(* while it runs, and returns to it with some result.                      *)
CallbackEntered ==
    /\ pc = "callback"
    /\ stack' = Append(stack, regs.x30)
    /\ regs' = [regs EXCEPT !.x30 = Word("guest", Len(walks))]
    /\ pc' = "guest"
    /\ UNCHANGED <<modules, info, walks, returned, calls>>

CallbackReturns(v) ==
    /\ pc = "guest" /\ walks # <<>> /\ Top = Word("stub", 0)
    /\ regs' = [regs EXCEPT !.x0 = Word("int", v), !.x30 = Top]
    /\ stack' = Pop(1)
    /\ pc' = "compare"
    /\ walks' = [walks EXCEPT ![Len(walks)].answers = Append(@, v)]
    /\ returned' = NoWalk
    /\ UNCHANGED <<modules, info, calls>>

(* The host loads a library while a callback runs or between calls.        *)
HostLoads(l) ==
    /\ pc = "guest" /\ \A i \in 1..Len(modules) : modules[i].name # l
    /\ modules' = Append(modules, [name |-> l, elf |-> TRUE])
    /\ returned' = NoWalk
    /\ UNCHANGED <<stack, regs, pc, info, walks, calls>>

WalkNext == \/ dl_iterate_phdr(Word("data", calls)) \/ AllocationFails
            \/ loop \/ AfterCallback \/ drain \/ post
            \/ dlopen \/ dlopen_loop
            \/ CallbackEntered
            \/ \E v \in Results : CallbackReturns(v)
            \/ \E l \in Libraries : HostLoads(l)

WalkSpec == WalkInit /\ [][WalkNext]_walkVars

-----------------------------------------------------------------------------
IsPrefixOf(s, t) == Len(s) <= Len(t) /\ SubSeq(t, 1, Len(s)) = s

(* In every walk in progress the callbacks have been given libart and then *)
(* the modules that were loaded when the walk began, in load order, each   *)
(* once, with the size of the structure and the caller's own data pointer, *)
(* whatever other walks and loads the callbacks made in between.           *)
VisitsInOrder ==
    \A w \in 1..Len(walks) :
        /\ IsPrefixOf([i \in 1..Len(walks[w].visited) |-> walks[w].visited[i][1]], walks[w].list)
        /\ \A i \in 1..Len(walks[w].visited) :
               walks[w].visited[i][2] = InfoSize /\ walks[w].visited[i][3] = walks[w].data

(* A walk that has returned visited modules up to the first one for which  *)
(* the callback answered nonzero, and all of them if none did.             *)
StopsAtFirstNonzero ==
    returned # NoWalk =>
        LET a == returned.answers IN
        /\ Len(a) = Len(returned.visited)
        /\ \A i \in 1..(Len(a) - 1) : a[i] = 0
        /\ a[Len(a)] = 0 => Len(a) = Len(returned.list)

(* dl_iterate_phdr's result is what its last callback returned.            *)
ResultIsLastAnswer ==
    returned # NoWalk => regs.x0 = Word("int", returned.answers[Len(returned.answers)])

(* After a walk the stack pointer, what lies on the stack and the return   *)
(* address are those of the call.                                          *)
StackRestored ==
    returned # NoWalk => stack = returned.stack /\ regs.x30 = returned.lr

(* The callbacks of dl_iterate_phdr are given libart and then the modules  *)
(* that were loaded when the walk began, each once and in load order, up   *)
(* to the first for which they answer nonzero, whatever walks and loads    *)
(* they make in between; the walk answers what the last callback returned  *)
(* and gives the caller its stack back.                                    *)
WalkExact == VisitsInOrder /\ StopsAtFirstNonzero /\ ResultIsLastAnswer /\ StackRestored

(* A walk whose callbacks return comes to an end: unless the allocation    *)
(* failed, the outermost caller gets control back.                         *)
WalkEnds == []<>(walks = <<>> \/ pc = "stopped")
=============================================================================
