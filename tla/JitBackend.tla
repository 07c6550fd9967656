----------------------------- MODULE JitBackend -----------------------------
(***************************************************************************)
(* One slice of guest code on the dynarmic backend: the C++ glue           *)
(* (dynarmic.cpp), the JIT's Run() with its cache of translated blocks and *)
(* its halt bits, and the two callers in the emulator, emulate() and       *)
(* continue_run().  Guest pages and blocks are one to one; contents are    *)
(* values.  The handlers of system calls are represented by what they ask  *)
(* of the backend.                                                         *)
(***************************************************************************)
EXTENDS Integers

CONSTANTS Tasks,
          NumPages,   \* guest pages 1 .. NumPages
          Contents,   \* what a page can hold
          Unmapped,   \* no page; as a block: the translation of an unmapped page
          Absent,     \* no block in the cache
          MaxRuns,    \* calls of Run() in one emu_start (1024)
          MaxTicks,   \* the tick budget (80 000 000)
          MaxWord     \* bound: updates of the word

ASSUME BackendConstants ==
    /\ NumPages \in Nat \ {0} /\ MaxRuns \in Nat \ {0} /\ MaxTicks \in Nat \ {0} /\ MaxWord \in Nat
    /\ Unmapped \notin Contents /\ Absent \notin Contents \cup {Unmapped}

VARIABLES memory,      \* guest pages
          cache,       \* translated blocks
          invalid_cache_ranges, invalidate_entire_cache,   \* requests
          halt_reason,
          mem_fault, user_stop, ticks_remaining,
          pc, block,   \* where the guest is, and the block it runs
          phase,       \* where the host thread is
          runs,        \* calls of Run() made by this emu_start
          rc,          \* what emu_start last answered
          current,     \* the task whose slice it is
          status,      \* task statuses
          exclusive,   \* the exclusive state and the monitor's entry
          word, seen,  \* a word updated by LDXR / STXR, what each task loaded
          updates,     \* history: stores to the word that succeeded
          suspect      \* history: pages changed under a cached block, no flush asked

memVars   == <<memory, suspect>>
cacheVars == <<cache, invalid_cache_ranges, invalidate_entire_cache>>
flagVars  == <<mem_fault, user_stop, ticks_remaining>>
wordVars  == <<exclusive, word, seen, updates>>
sliceVars == <<runs, rc, current, status>>
vars == <<memVars, cacheVars, halt_reason, flagVars, pc, block, phase, sliceVars, wordVars>>

Pages == 1 .. NumPages

Init ==
    /\ memory = [p \in Pages |-> Unmapped]
    /\ cache = [p \in Pages |-> Absent]
    /\ invalid_cache_ranges = {} /\ invalidate_entire_cache = FALSE
    /\ halt_reason = {}
    /\ mem_fault = FALSE /\ user_stop = FALSE /\ ticks_remaining = MaxTicks
    /\ pc = 1 /\ block = Absent /\ phase = "host"
    /\ runs = 0 /\ rc = 0
    /\ current \in Tasks /\ status = [t \in Tasks |-> "N"]
    /\ exclusive = FALSE /\ word = 0 /\ seen = [t \in Tasks |-> 0] /\ updates = 0
    /\ suspect = {}

-----------------------------------------------------------------------------
(* Memory as the host changes it, between slices and in system calls.  The *)
(* loops go up page by page and leave at the first page that is not ready. *)

HostRuns == phase \in {"host", "svc"}

NotMapped == {p \in Pages : memory[p] = Unmapped}
Ready(a, n, S) == {p \in a .. a + n - 1 : a .. p \subseteq S}

\* History: which of the pages S, changed now, have a block no request covers.
Exposed(S) == {p \in S : /\ cache[p] # Absent /\ ~ invalidate_entire_cache
                         /\ p \notin invalid_cache_ranges}

dynarmic_mmap(a, n, v) ==
    LET new == Ready(a, n, NotMapped) IN
    /\ HostRuns
    /\ memory' = [p \in Pages |-> IF p \in new THEN v ELSE memory[p]]
    /\ suspect' = suspect \cup Exposed(new)
    /\ UNCHANGED <<cacheVars, halt_reason, flagVars, pc, block, phase, sliceVars, wordVars>>

dynarmic_mem_write(a, n, v) ==
    LET done == Ready(a, n, Pages \ NotMapped) IN
    /\ HostRuns
    /\ memory' = [p \in Pages |-> IF p \in done THEN v ELSE memory[p]]
    /\ suspect' = suspect \cup Exposed(done)
    /\ UNCHANGED <<cacheVars, halt_reason, flagVars, pc, block, phase, sliceVars, wordVars>>

\* A page that is not there ends the call before the blocks are invalidated.
dynarmic_munmap(a, n) ==
    LET gone == Ready(a, n, Pages \ NotMapped)
        all == gone = a .. a + n - 1 IN
    /\ HostRuns
    /\ memory' = [p \in Pages |-> IF p \in gone THEN Unmapped ELSE memory[p]]
    /\ IF all
       THEN /\ invalid_cache_ranges' = invalid_cache_ranges \cup gone
            /\ halt_reason' = halt_reason \cup {"cache"}
            /\ suspect' = suspect \ gone
       ELSE /\ suspect' = suspect \cup Exposed(gone)
            /\ UNCHANGED <<invalid_cache_ranges, halt_reason>>
    /\ UNCHANGED <<cache, invalidate_entire_cache, flagVars, pc, block, phase, sliceVars, wordVars>>

-----------------------------------------------------------------------------
(* The JIT.                                                                *)

\* PerformRequestedCacheInvalidation, as the blocks that are left.
Evacuated(hr) ==
    IF "cache" \notin hr THEN cache
    ELSE [p \in Pages |-> IF invalidate_entire_cache \/ p \in invalid_cache_ranges
                          THEN Absent ELSE cache[p]]

PerformRequestedCacheInvalidation(hr) ==
    /\ invalid_cache_ranges' = IF "cache" \in hr THEN {} ELSE invalid_cache_ranges
    /\ invalidate_entire_cache' = (invalidate_entire_cache /\ "cache" \notin hr)

\* GetBlock on the blocks c: a block that is missing is translated and kept, after
\* all others were dropped if the code area is nearly full.  A page that cannot be
\* fetched is a fault, and its translation is kept too.
Translation == IF mem_fault THEN Unmapped ELSE memory[pc]
Faulting(c) == c[pc] = Absent /\ memory[pc] = Unmapped

GetBlock(c, full) ==
    /\ full => c[pc] = Absent
    /\ cache' = [p \in Pages |-> IF p = pc /\ c[p] = Absent THEN Translation
                                ELSE IF full THEN Absent ELSE c[p]]
    /\ block' = cache'[pc]
    /\ mem_fault' = (mem_fault \/ Faulting(c))

\* Run(): pending invalidation, the first block, and RunCode, which comes back at
\* once when a halt bit is set.
Run ==
    /\ phase = "run"
    /\ LET hr == halt_reason
           c == Evacuated(hr) IN
       /\ \E full \in BOOLEAN :
             /\ GetBlock(c, full)
             /\ PerformRequestedCacheInvalidation(IF full THEN {"cache"} ELSE hr)
       /\ halt_reason' = (hr \ {"cache"}) \cup (IF Faulting(c) THEN {"user"} ELSE {})
    /\ phase' = IF halt_reason' = {} THEN "block" ELSE "code"
    /\ runs' = runs + 1
    /\ UNCHANGED <<memVars, user_stop, ticks_remaining, pc, rc, current, status, wordVars>>

\* enable_cycle_counting = !wall_clock_cntpct (dynarmic_new): ticks are not counted.
wall_clock_cntpct == TRUE
enable_cycle_counting == ~ wall_clock_cntpct

\* The dispatcher loop of the generated code, no halt bit set.
LookupBlock ==
    /\ phase = "code" /\ halt_reason = {}
    /\ enable_cycle_counting => ticks_remaining > 0
    /\ \E full \in BOOLEAN :
          /\ GetBlock(cache, full)
          /\ PerformRequestedCacheInvalidation(IF full THEN {"cache"} ELSE {})
    /\ halt_reason' = IF Faulting(cache) THEN {"user"} ELSE {}
    /\ phase' = IF halt_reason' = {} THEN "block" ELSE "code"
    /\ UNCHANGED <<memVars, user_stop, ticks_remaining, pc, sliceVars, wordVars>>

\* A block runs to its end: an access may fault on the way (Fault), the accesses
\* behind it are made all the same.  The block of an unmapped page faults.
EndBlock(faults) ==
    /\ phase = "block" /\ (block = Unmapped => faults)
    /\ mem_fault' = (mem_fault \/ faults)
    /\ halt_reason' = halt_reason \cup (IF faults THEN {"user"} ELSE {})
    /\ ticks_remaining' = IF enable_cycle_counting /\ ticks_remaining > 0
                          THEN ticks_remaining - 1 ELSE ticks_remaining
    /\ block' = Absent
    /\ UNCHANGED <<memVars, cacheVars, user_stop, sliceVars, wordVars>>

Branch(q, faults) == EndBlock(faults) /\ phase' = "code" /\ pc' = q

\* An SVC ends its block too; CallSVC does not look at mem_fault.
CallSVC(faults) ==
    block # Unmapped /\ EndBlock(faults) /\ phase' = "svc" /\ UNCHANGED pc

\* A guest store to a mapped page.  Nothing is invalidated, and the cache
\* maintenance instructions that may follow do nothing.
MemoryWrite(p, v) ==
    /\ phase = "block" /\ block # Unmapped /\ memory[p] # Unmapped
    /\ memory' = [memory EXCEPT ![p] = v]
    /\ suspect' = suspect \cup Exposed({p})
    /\ UNCHANGED <<cacheVars, halt_reason, flagVars, pc, block, phase, sliceVars, wordVars>>

LDXR ==
    /\ phase = "block" /\ block # Unmapped /\ updates < MaxWord
    /\ exclusive' = TRUE /\ seen' = [seen EXCEPT ![current] = word]
    /\ UNCHANGED <<memVars, cacheVars, halt_reason, flagVars, pc, block, phase, sliceVars, word, updates>>

\* MemoryWriteExclusive does not compare; only the exclusive state decides.
STXR ==
    /\ phase = "block" /\ block # Unmapped /\ updates < MaxWord
    /\ exclusive' = FALSE
    /\ word' = IF exclusive THEN seen[current] + 1 ELSE word
    /\ updates' = IF exclusive THEN updates + 1 ELSE updates
    /\ UNCHANGED <<memVars, cacheVars, halt_reason, flagVars, pc, block, phase, sliceVars, seen>>

-----------------------------------------------------------------------------
(* The emulator: starting a slice, stopping it in a system call, and what  *)
(* its end means.                                                          *)

\* Mutant: every halt bit is cleared, the one of a requested flush too.
EmuStartHaltAll == {}

\* The halt bits dynarmic_emu_start leaves: UserDefined1 and the like are cleared.
EmuStartHalt == halt_reason \cap {"cache"}

\* Mutant: the exclusive state of the last slice is kept.
ExclusiveKept == exclusive

ClearExclusiveState == FALSE

\* Function64::run and MarshmallowThread::dispatch (a first slice) and
\* continue_run, which asks for a flush of the cache; emulate; emu_start.
Emulate(t, p) ==
    /\ phase = "host" /\ status[t] \in {"N", "S"}
    /\ current' = t /\ status' = [status EXCEPT ![t] = "R"]
    /\ IF status[t] = "S"
       THEN invalidate_entire_cache' = TRUE /\ suspect' = {}
            /\ halt_reason' = EmuStartHalt \cup {"cache"}
       ELSE halt_reason' = EmuStartHalt /\ UNCHANGED <<invalidate_entire_cache, suspect>>
    /\ mem_fault' = FALSE /\ user_stop' = FALSE /\ ticks_remaining' = MaxTicks
    /\ exclusive' = ClearExclusiveState
    /\ pc' = p /\ phase' = "run" /\ runs' = 0
    /\ UNCHANGED <<memory, cache, invalid_cache_ranges, block, rc, word, seen, updates>>

\* emu_stop(status) in a handler: the bit is seen when the handler is back.
emu_stop(s) ==
    /\ phase = "svc" /\ ~ user_stop
    /\ status' = [status EXCEPT ![current] = s]
    /\ user_stop' = TRUE /\ halt_reason' = halt_reason \cup {"user"}
    /\ UNCHANGED <<memVars, cacheVars, mem_fault, ticks_remaining, pc, block, phase, runs, rc, current, wordVars>>

\* The code behind the call of a handler clears the exclusive state.
SvcReturns ==
    /\ phase = "svc" /\ phase' = "code" /\ exclusive' = FALSE
    /\ UNCHANGED <<memVars, cacheVars, halt_reason, flagVars, pc, block, sliceVars, word, seen, updates>>

\* emulate(): any answer but 0 ends the task.
Answer(code) ==
    /\ phase' = "host" /\ rc' = code
    /\ status' = IF code = 0 THEN status ELSE [status EXCEPT ![current] = "X"]

\* Mutant: a pending flush is served before a stop.
AfterRunFlushFirst(hr) ==
    IF mem_fault THEN Answer(-3)
    ELSE IF ticks_remaining = 0 THEN Answer(-6)
    ELSE IF "cache" \in hr /\ runs < MaxRuns THEN phase' = "run" /\ UNCHANGED <<rc, status>>
    ELSE Answer(0)

\* The tests behind Run() in the loop of dynarmic_emu_start.
AfterRun(hr) ==
    IF mem_fault THEN Answer(-3)
    ELSE IF ticks_remaining = 0 THEN Answer(-6)
    ELSE IF "user" \in hr \/ "cache" \notin hr THEN Answer(0)
    ELSE IF runs < MaxRuns THEN phase' = "run" /\ UNCHANGED <<rc, status>>
    ELSE Answer(-4)

\* The generated code returns, taking the halt bits with it, Run() serves a
\* requested flush, emu_start goes round its loop or answers.
RunReturns ==
    /\ phase = "code"
    /\ halt_reason = {} => enable_cycle_counting /\ ticks_remaining = 0
    /\ halt_reason' = {}
    /\ cache' = Evacuated(halt_reason) /\ PerformRequestedCacheInvalidation(halt_reason)
    /\ AfterRun(halt_reason)
    /\ UNCHANGED <<memVars, flagVars, pc, block, runs, current, wordVars>>

\* run_once_seh: Run() is left by a host exception, out of a block or a handler.
HostException ==
    /\ phase \in {"block", "svc"}
    /\ Answer(-5) /\ block' = Absent
    /\ UNCHANGED <<memVars, cacheVars, halt_reason, flagVars, pc, runs, current, wordVars>>

-----------------------------------------------------------------------------
Memory ==
    \E a \in Pages : \E n \in 1 .. NumPages + 1 - a :
        \/ dynarmic_munmap(a, n)
        \/ \E v \in Contents : dynarmic_mmap(a, n, v) \/ dynarmic_mem_write(a, n, v)

InSlice ==
    \/ Run \/ LookupBlock \/ RunReturns \/ SvcReturns \/ HostException
    \/ \E f \in BOOLEAN : CallSVC(f) \/ \E q \in Pages : Branch(q, f)
    \/ LDXR \/ STXR \/ \E p \in Pages, v \in Contents : MemoryWrite(p, v)
    \/ \E s \in {"S", "X"} : emu_stop(s)

Next == Memory \/ InSlice \/ \E t \in Tasks, p \in Pages : Emulate(t, p)

Spec == Init /\ [][Next]_vars

\* The host thread goes on with a slice, whatever it does in it.
FairSpec == Spec /\ WF_vars(InSlice)

-----------------------------------------------------------------------------
(* Values are of their kinds; a slice has a task, a block is run from the  *)
(* cache.                                                                  *)
TypeOK ==
    /\ memory \in [Pages -> Contents \cup {Unmapped}]
    /\ cache \in [Pages -> Contents \cup {Unmapped, Absent}]
    /\ invalid_cache_ranges \subseteq Pages /\ invalidate_entire_cache \in BOOLEAN
    /\ halt_reason \subseteq {"user", "cache"}
    /\ mem_fault \in BOOLEAN /\ user_stop \in BOOLEAN /\ ticks_remaining \in 0 .. MaxTicks
    /\ pc \in Pages /\ block \in Contents \cup {Unmapped, Absent}
    /\ phase \in {"host", "run", "code", "block", "svc"}
    /\ runs \in 0 .. MaxRuns /\ rc \in {0, -3, -4, -5, -6}
    /\ current \in Tasks /\ status \in [Tasks -> {"N", "R", "S", "X"}]
    /\ exclusive \in BOOLEAN /\ word \in Nat /\ seen \in [Tasks -> Nat] /\ updates \in Nat
    /\ suspect \subseteq Pages

(* A block that runs is the translation of what its page holds now: not of *)
(* what was there before an munmap and a new mapping, whoever made them,   *)
(* nor of what an earlier slice saw, when the task is resumed.  Pages that *)
(* were written, mapped or half unmapped under a cached block with no      *)
(* flush since are excepted: those calls do not invalidate.                *)
FreshCode == phase = "block" => block = memory[pc] \/ pc \in suspect

(* A slice ends where it is asked to: once a handler has called emu_stop,  *)
(* or an access has faulted, no further block runs, also when a flush of   *)
(* the cache is pending.  A slice answers 0 only if it was stopped itself, *)
(* not for a stop left over from a slice a host exception ended, and a     *)
(* slice that faulted never answers 0, so that no parked task survives it. *)
StopEndsSlice ==
    /\ phase = "block" => ~ user_stop /\ ~ mem_fault
    /\ phase = "host" /\ rc = 0 /\ (\E t \in Tasks : status[t] # "N") => user_stop /\ ~ mem_fault

(* No update of a word by LDXR and STXR is lost, although STXR does not    *)
(* compare: tasks that are suspended between the two try again.            *)
NoLostUpdate == word = updates

(* "~80M IR ticks is far above a syscall body and below a livelock": every *)
(* slice ends, that of a guest that spins by the tick budget.              *)
SliceEnds == phase # "host" ~> phase = "host"
=============================================================================
