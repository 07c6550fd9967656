----------------------------- MODULE EntryStack -----------------------------
(***************************************************************************)
(* LinuxModule::call_entry builds the stack an executable starts on, and   *)
(* the C library of the guest walks it without any other information: the  *)
(* argument count, the pointers up to a null, the pointers up to another   *)
(* null, then pairs up to a zero type.  The builder pushes the environment *)
(* strings between the auxiliary vector and the pointers, so the walk over *)
(* the vector begins inside those strings.  This module builds the stack   *)
(* push by push and reads it back the way the guest does.                  *)
(***************************************************************************)
EXTENDS Integers, Sequences, SequencesExt, FiniteSets, FiniteSetsExt

CONSTANTS MaxArgs,      \* bound: arguments after the process name
          Lengths       \* lengths in bytes of the name and the arguments

VARIABLES stack,    \* the words pushed so far, lowest address first
          todo,     \* the pushes still to make, in order
          ptrs,     \* name -> depth at which it was pushed (its address)
          args,     \* input: the lengths of the name and the arguments
          dirty     \* input: the memory below the stack holds old data

vars == <<stack, todo, ptrs, args, dirty>>

-----------------------------------------------------------------------------
(* Words.  A string is pushed in 16 byte units; the bytes behind its NUL   *)
(* are what the memory held before.                                        *)
Null == <<"num", 0>>
Num(n) == <<"num", n>>
Ptr(a) == <<"ptr", a>>
Old == IF dirty THEN <<"old", 0>> ELSE Null

align_size(bytes) == 16 * ((bytes - 1) \div 16 + 1)

write_stack_string(name, length) ==
    [i \in 1 .. align_size(length + 1) \div 8 |->
        IF 8 * (i - 1) < length THEN <<"str", name, i>> ELSE Old]

(* The environment strings, by length, and the auxiliary vector.           *)
Env == <<18, 20, 60>>

AtRandom == 25
auxv_pairs ==
    <<<<3, "phdr">>, <<4, "phent">>, <<5, "phnum">>, <<6, "pagesz">>, <<7, "base">>,
      <<9, "entry">>, <<11, "uid">>, <<12, "euid">>, <<13, "gid">>, <<14, "egid">>,
      <<16, "hwcap">>, <<23, "secure">>, <<AtRandom, "random">>, <<0, "null">>>>

Argc == Len(args)
ArgName(i) == <<"arg", i>>
EnvName(i) == <<"env", i>>

(* One push: a string, a block of words, a pointer to something pushed     *)
(* before, or a pair whose value may be such a pointer.                    *)
Str(name, length) == [op |-> "str", name |-> name, arg |-> length]
Words(name, ws) == [op |-> "words", name |-> name, arg |-> ws]
Pointer(name) == [op |-> "pointer", name |-> name, arg |-> 0]
Pair(p) == [op |-> "pair", name |-> <<"pair", 0>>, arg |-> p]

OddPad == IF Argc % 2 # 0 THEN <<Words(<<"pad", 0>>, <<Old>>)>> ELSE <<>>

ArgStrings == [i \in 1 .. Argc |-> Str(ArgName(i), args[i])]
AuxPushes == Reverse([i \in 1 .. Len(auxv_pairs) |-> Pair(auxv_pairs[i])])
EnvStrings == [i \in 1 .. Len(Env) |-> Str(EnvName(i), Env[i])]

Pointers(kind, n) ==
    <<Words(<<"null", 0>>, <<Null>>)>> \o Reverse([i \in 1 .. n |-> Pointer(<<kind, i>>)])

call_entry_unended ==
    ArgStrings \o OddPad \o <<Words(<<"random", 0>>, <<Num(165), Num(90)>>)>> \o AuxPushes
        \o EnvStrings \o Pointers("env", Len(Env))
        \o Tail(Pointers("arg", Argc)) \o <<Words(<<"pad", 0>>, <<Old>>), Words(<<"argc", 0>>, <<Num(Argc)>>)>>

call_entry ==
    ArgStrings \o OddPad \o <<Words(<<"random", 0>>, <<Num(165), Num(90)>>)>> \o AuxPushes
        \o EnvStrings \o Pointers("env", Len(Env))
        \o Pointers("arg", Argc) \o <<Words(<<"argc", 0>>, <<Num(Argc)>>)>>

Init == /\ dirty \in BOOLEAN
        /\ args \in UNION {[1 .. n + 1 -> Lengths] : n \in 0 .. MaxArgs}
        /\ stack = <<>>
        /\ ptrs = <<>>
        /\ todo = call_entry

Bytes(push) ==
    CASE push.op = "str" -> write_stack_string(push.name, push.arg)
      [] push.op = "words" -> push.arg
      [] push.op = "pointer" -> <<Ptr(ptrs[push.name])>>
      [] push.op = "pair" -> <<Num(push.arg[1]),
                               IF push.arg[1] = AtRandom THEN Ptr(ptrs[<<"random", 0>>])
                               ELSE IF push.arg[1] = 0 THEN Null ELSE <<"val", push.arg[2]>>>>

(* allocate_stack and the write into what it allocated.                    *)
Push ==
    /\ todo # <<>>
    /\ stack' = Bytes(Head(todo)) \o stack
    /\ ptrs' = IF Head(todo).op = "pointer" THEN ptrs
               ELSE [n \in DOMAIN ptrs \cup {Head(todo).name} |->
                        IF n = Head(todo).name THEN Len(stack') ELSE ptrs[n]]
    /\ todo' = Tail(todo)
    /\ UNCHANGED <<args, dirty>>

Next == Push
Spec == Init /\ [][Next]_vars

-----------------------------------------------------------------------------
(* The guest's start code, which is not part of the repository: argc is    *)
(* the first word, argv follows, envp follows the null behind argv, the    *)
(* auxiliary vector follows the null behind envp.                          *)
Entered == todo = <<>>
At(address) == stack[Len(stack) - address + 1]
GuestArgc == stack[1][2]
GuestArgv(i) == stack[1 + i]
FirstNull(from) == Min({i \in from .. Len(stack) : stack[i] = Null})
EnvStart == GuestArgc + 3
AuxStart == FirstNull(EnvStart) + 1
AuxSlots == {i \in AuxStart .. Len(stack) - 1 : (i - AuxStart) % 2 = 0}
AuxEnd == Min({i \in AuxSlots : stack[i] = Null})
getauxval(type) ==
    LET found == {i \in AuxSlots : i < AuxEnd /\ stack[i] = Num(type)}
    IN IF found = {} THEN Null ELSE stack[Min(found) + 1]

(* A pointer leads to the named string: its words stand there, up to the   *)
(* last that holds a byte of it.                                           *)
LeadsTo(word, name, length) ==
    /\ word[1] = "ptr"
    /\ \A i \in 1 .. (length + 7) \div 8 :
          stack[Len(stack) - word[2] + i] = <<"str", name, i>>

(* The guest finds its arguments: as many as were passed, in order, the    *)
(* process name first, and a null behind the last (LinuxModule::call_entry)*)
ArgumentsRead ==
    Entered =>
        /\ GuestArgc = Argc
        /\ \A i \in 1 .. Argc : LeadsTo(GuestArgv(i), ArgName(i), args[i])
        /\ GuestArgv(Argc + 1) = Null

(* The guest finds exactly the environment strings, in order.              *)
EnvironmentRead ==
    Entered =>
        /\ FirstNull(EnvStart) = EnvStart + Len(Env)
        /\ \A i \in 1 .. Len(Env) : LeadsTo(stack[EnvStart + i - 1], EnvName(i), Env[i])

(* getauxval answers every entry of the vector, although the walk starts   *)
(* in the environment strings: none of them puts a zero where a type is    *)
(* read, and they fill whole pairs.  AT_RANDOM leads to the random bytes.  *)
AuxiliaryRead ==
    Entered =>
        /\ \A i \in 1 .. Len(auxv_pairs) - 1 :
              auxv_pairs[i][1] # AtRandom =>
                  getauxval(auxv_pairs[i][1]) = <<"val", auxv_pairs[i][2]>>
        /\ getauxval(AtRandom)[1] = "ptr"
        /\ At(getauxval(AtRandom)[2]) = Num(165)

(* The stack pointer at the entry point is 16 byte aligned, as the ABI     *)
(* wants it, whatever the number and the lengths of the arguments.         *)
EntryAligned == Entered => Len(stack) % 2 = 0
=============================================================================
