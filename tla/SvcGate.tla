------------------------------ MODULE SvcGate ------------------------------
(***************************************************************************)
(* Everything the guest asks of the host goes through one SVC callback:    *)
(* `svc #0` is a system call whose number is in X8, the return from a task *)
(* is an SVC at the task's `until` address, and `svc #n` in a stub calls   *)
(* the Arm64Svc registered under n.  The stubs live in one fixed region    *)
(* that only grows (SvcMemory).                                            *)
(***************************************************************************)
EXTENDS Integers

CONSTANTS SvcSize,      \* bytes of the stub region (SVC_SIZE)
          SvcMax,       \* SVC_MAX: numbers from SvcMax - 1 on cannot be assembled
          StubSizes,    \* code sizes of stubs
          TableSizes,   \* sizes of the tables allocated between the stubs
          Numbers       \* values of X8 the guest uses

(* The region is whole pages; no allocation is empty.                      *)
ASSUME GateAssumption ==
    /\ SvcSize \in Nat /\ SvcSize % 16 = 0
    /\ StubSizes \subseteq Nat \ {0} /\ TableSizes \subseteq Nat \ {0}
    /\ Numbers \subseteq Nat

VARIABLES base,             \* next free byte of the region
          arm_svc_number,   \* last stub number given out
          mem_region,       \* the allocations
          svc_map,          \* number -> registered Arm64Svc
          stubs,            \* history: address returned to the caller -> its Arm64Svc
          halted,           \* the emulator has panicked
          done              \* history: the last SVC and what answered it

gateVars == <<base, arm_svc_number, mem_region, svc_map, stubs, halted, done>>

FirstNumber == 512
NoSvc == [swi |-> 0, x8 |-> 0, asked |-> <<"none", 0>>, answer |-> <<"none", 0>>]

GateInit == /\ base = 0 /\ arm_svc_number = FirstNumber
            /\ mem_region = {}
            /\ svc_map = <<>> /\ stubs = <<>>
            /\ halted = FALSE
            /\ done = NoSvc

-----------------------------------------------------------------------------
(* The stub region.                                                        *)
align_size(bytes) == 16 * ((bytes - 1) \div 16 + 1)

Region(size, number) == [begin |-> base, end |-> base + align_size(size), number |-> number]

(* allocate hands out the next bytes without looking at the region's end;  *)
(* the write that follows fails there, and its unwrap panics.              *)
allocate(size, number) ==
    /\ base' = base + align_size(size)
    /\ mem_region' = mem_region \cup {Region(size, number)}
    /\ halted' = (base + size > SvcSize)

allocate_table(size) ==
    /\ ~ halted
    /\ allocate(size, 0)
    /\ UNCHANGED <<arm_svc_number, svc_map, stubs, done>>

NextNumber == arm_svc_number + 1
Inserted(f, k, v) == [x \in DOMAIN f \cup {k} |-> IF x = k THEN v ELSE f[x]]
Svcs == {stubs[a] : a \in DOMAIN stubs}
NewSvc == <<"svc", base>>     \* the next Arm64Svc, told from the others by its address

(* register_svc: the stub is assembled and written before the map entry.   *)
register_svc_late(size) ==
    /\ ~ halted
    /\ arm_svc_number' = NextNumber
    /\ allocate(size, NextNumber)
    /\ svc_map' = IF halted' THEN svc_map ELSE Inserted(svc_map, arm_svc_number, NewSvc)
    /\ stubs' = IF halted' THEN stubs ELSE Inserted(stubs, base, NewSvc)
    /\ UNCHANGED done

register_svc(size) ==
    /\ ~ halted
    /\ arm_svc_number' = NextNumber
    /\ IF NextNumber >= SvcMax - 1
         THEN halted' = TRUE /\ UNCHANGED <<base, mem_region, svc_map, stubs>>
         ELSE /\ allocate(size, NextNumber)
              /\ svc_map' = IF halted' THEN svc_map ELSE Inserted(svc_map, NextNumber, NewSvc)
              /\ stubs' = IF halted' THEN stubs ELSE Inserted(stubs, base, NewSvc)
    /\ UNCHANGED done

-----------------------------------------------------------------------------
(* System call numbers.  The enum has these discriminants; a number of     *)
(* from_u64's match arms is kept, and so is every other number in two      *)
(* ranges, which are not quite the defined ones.                           *)
Unknown == -1
Defined == (0 .. 244) \cup (260 .. 293) \cup {435, 439} \cup (1024 .. 1079)
Listed == {17, 24, 43, 73, 25, 29, 34, 38, 48, 56, 57, 59, 61, 62, 63, 64, 66, 78, 79, 80, 93, 94,
           96, 98, 99, 101, 113, 115, 122, 123, 124, 132, 135, 160, 167, 169, 172, 173, 174, 175,
           178, 198, 203, 214, 215, 220, 222, 226, 233, 278, 283, 291, 293, 435, 439}

from_u64(nr) ==
    IF nr \in Listed \/ nr <= 291 \/ nr \in 1024 .. 1079 THEN nr ELSE Unknown

(* The arms of `syscall`; some numbers share a handler.                    *)
Arms == Listed \cup {95, 117, 129, 130, 131, 134, 137, 240, 260, 270, 271, 1056}
Handler(nr) == CASE nr = 439 -> 48 [] nr = 1056 -> 43 [] nr = 115 -> 101
                 [] nr \in {130, 131} -> 129 [] nr = 95 -> 260 [] OTHER -> nr

Enosys == <<"ENOSYS", 0>>
clone3 == 435

(* The default arm logs the number's name and answers -ENOSYS.  A value    *)
(* that is no discriminant of the enum has no name: what its formatting    *)
(* does is undefined.                                                      *)
syscall(nr) ==
    IF nr \in Arms \ {clone3} THEN {<<"arm", Handler(nr)>>}
    ELSE IF nr = Unknown \/ nr \in Defined THEN {Enosys}
    ELSE {Enosys, <<"undefined", nr>>}

-----------------------------------------------------------------------------
(* arm64_syscall_handler and the callback around it.                       *)
PostCallback == 34917      \* 0x8866 - 1
PreCallback == 34951       \* 0x8888 - 1

get_svc(number) ==
    IF number \in DOMAIN svc_map THEN {svc_map[number]} ELSE {<<"panic", number>>}

gate(swi, x8, x16, x12) ==
    IF swi # 0 THEN get_svc(swi)
    ELSE IF from_u64(x8) = 0 /\ x16 \in {PostCallback, PreCallback} THEN get_svc(x12)
    ELSE syscall(from_u64(x8))

(* Guest code reaches a stub and executes its SVC.                         *)
CallStub ==
    \E r \in mem_region :
        /\ ~ halted /\ r.number # 0 /\ r.begin \in DOMAIN stubs
        /\ \E x8 \in Numbers : \E a \in gate(r.number, x8, 0, 0) :
              done' = [swi |-> r.number, x8 |-> x8, asked |-> stubs[r.begin], answer |-> a]
        /\ UNCHANGED <<base, arm_svc_number, mem_region, svc_map, stubs, halted>>

(* The end of a stub that called guest code: mov x8, #0; mov x12, #number; *)
(* mov x16, #code; svc #0.                                                 *)
Callback ==
    \E r \in mem_region, code \in {PostCallback, PreCallback} :
        /\ ~ halted /\ r.number # 0 /\ r.begin \in DOMAIN stubs
        /\ \E a \in gate(0, 0, code, r.number) :
              done' = [swi |-> 0, x8 |-> 0, asked |-> stubs[r.begin], answer |-> a]
        /\ UNCHANGED <<base, arm_svc_number, mem_region, svc_map, stubs, halted>>

(* A libc wrapper: X16 still holds whatever the last callback or PLT entry *)
(* left there.                                                             *)
SystemCall ==
    \E nr \in Numbers, x16 \in {0, PostCallback} :
        /\ ~ halted
        /\ x16 = PostCallback => nr # 0 /\ stubs # <<>>
        /\ \E a \in gate(0, nr, x16, arm_svc_number) :
              done' = [swi |-> 0, x8 |-> nr, asked |-> <<"syscall", 0>>, answer |-> a]
        /\ UNCHANGED <<base, arm_svc_number, mem_region, svc_map, stubs, halted>>

(* The task returned to its `until` address: the SVC there stops it before *)
(* any number is looked at.                                                *)
ReturnToUntil ==
    /\ ~ halted
    /\ done' = [swi |-> 0, x8 |-> 0, asked |-> <<"until", 0>>, answer |-> <<"stop", 0>>]
    /\ UNCHANGED <<base, arm_svc_number, mem_region, svc_map, stubs, halted>>

GateNext == \/ \E size \in StubSizes : register_svc(size)
            \/ \E size \in TableSizes : allocate_table(size)
            \/ CallStub \/ Callback \/ SystemCall \/ ReturnToUntil

GateSpec == GateInit /\ [][GateNext]_gateVars

-----------------------------------------------------------------------------
(* Every stub and every callback reaches the Arm64Svc that was registered  *)
(* with it, whatever was registered since and whatever X8 holds            *)
(* (register_svc, get_svc).                                                *)
StubReachesOwner ==
    done.asked \in Svcs => done.answer = done.asked

(* A system call number with an arm reaches that arm, also through the     *)
(* transmute of from_u64, and never a callback left over in X16.           *)
NumberReachesArm ==
    done.asked = <<"syscall", 0>> /\ done.x8 \in Arms \ {clone3} => done.answer = <<"arm", Handler(done.x8)>>

(* Allocations of the region do not overlap, so no stub's code is written  *)
(* over by a later one (SvcMemory::allocate).                              *)
RegionsDisjoint ==
    \A r, s \in mem_region : r # s => r.end <= s.begin \/ s.end <= r.begin

(* Registration fails only for want of room or numbers: while it has not,  *)
(* every stub given out lies inside the mapped region.                     *)
StubsMapped ==
    ~ halted => \A r \in mem_region : r.end <= SvcSize

(* Every stub and every callback reaches the Arm64Svc registered with it,  *)
(* whatever was registered since and whatever X8 holds, a number with an   *)
(* arm reaches that arm, and never a callback left over in X16; stubs lie  *)
(* inside the mapped region and are not written over by later ones.        *)
GateExact == StubReachesOwner /\ NumberReachesArm /\ RegionsDisjoint /\ StubsMapped

=============================================================================
