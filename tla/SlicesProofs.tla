---------------------------- MODULE SlicesProofs ----------------------------
(***************************************************************************)
(* What a slice relies on and what ends it.  First JitBackend, for every   *)
(* number of tasks, pages and calls of Run(): a stop ends the slice, the   *)
(* block that runs is the one its page holds, and no exclusive store is    *)
(* lost.  Then TaskContexts: registers, stacks and the host's stack        *)
(* pointer, for every number of tasks, host calls, slices and stack        *)
(* blocks.  Then SvcGate: the callback of an SVC reaches what was          *)
(* registered for it, for every size of the stub region.  Last Ptrace: a   *)
(* tracer meets exactly the stops it asked for, for every number of        *)
(* threads, addresses and slots.                                           *)
(***************************************************************************)
EXTENDS JitBackend, TaskContexts, SvcGate, Ptrace, WellFoundedInduction, TLAPS

-----------------------------------------------------------------------------
(* The backend: the inductive invariants                                   *)

(* Types, and room for one more Run() where one is about to be called.     *)
TypeInv == TypeOK /\ (phase = "run" => runs < MaxRuns)

(* Inside a slice the user halt bit says exactly that a handler stopped    *)
(* the slice or an access faulted; a slice starts, and goes round its      *)
(* loop, with neither; a block runs with no halt bit at all.               *)
StopInv ==
  /\ phase = "run" => ~ mem_fault /\ ~ user_stop /\ "user" \notin halt_reason
  /\ phase \in {"code", "svc", "block"} => ("user" \in halt_reason <=> mem_fault \/ user_stop)
  /\ phase = "block" => halt_reason = {}
  /\ phase = "host" /\ rc = 0 /\ (\E t \in Tasks : status[t] # "N") => user_stop /\ ~ mem_fault

(* A block that differs from its page is listed as suspect or covered by a *)
(* request, a request has its halt bit, so that no block runs before it is *)
(* served, and the block that runs is the cache's.                         *)
CacheInv ==
  /\ \A p \in Pages : \/ cache[p] = Absent \/ cache[p] = memory[p]
                      \/ p \in suspect \/ p \in invalid_cache_ranges \/ invalidate_entire_cache
  /\ invalid_cache_ranges # {} \/ invalidate_entire_cache => "cache" \in halt_reason
  /\ phase = "block" => block = cache[pc] /\ block # Absent

(* While a slice holds the exclusive state, its task has seen the word as  *)
(* it is.                                                                  *)
WordInv == word = updates /\ (exclusive /\ phase # "host" => seen[current] = word)

-----------------------------------------------------------------------------
(* The pages a memory call reaches are pages of the guest.                 *)
LEMMA RangeInPages ==
  ASSUME NEW a \in Pages, NEW n \in 1 .. NumPages + 1 - a
  PROVE  a .. a + n - 1 \subseteq Pages
BY BackendConstants DEF Pages

(* GetBlock keeps the types of what it assigns.                            *)
LEMMA GetBlockType ==
  ASSUME TypeOK, NEW c \in [Pages -> Contents \cup {Unmapped, Absent}], NEW full \in BOOLEAN, GetBlock(c, full)
  PROVE  /\ cache' \in [Pages -> Contents \cup {Unmapped, Absent}]
         /\ block' \in Contents \cup {Unmapped, Absent} /\ mem_fault' \in BOOLEAN
<1>1. Translation \in Contents \cup {Unmapped, Absent}
  BY Zenon DEF TypeOK, Translation
<1>2. cache' \in [Pages -> Contents \cup {Unmapped, Absent}]
  BY Zenon, <1>1 DEF GetBlock
<1>3. block' \in Contents \cup {Unmapped, Absent}
  BY Zenon, <1>2 DEF GetBlock, TypeOK
<1>4. mem_fault' \in BOOLEAN
  BY Zenon DEF GetBlock
<1> QED BY Zenon, <1>2, <1>3, <1>4

(* What a flush leaves is a set of blocks.                                 *)
LEMMA EvacuatedType ==
  ASSUME TypeOK, NEW hr
  PROVE  Evacuated(hr) \in [Pages -> Contents \cup {Unmapped, Absent}]
BY Zenon DEF TypeOK, Evacuated

(* The initial state has the types.                                        *)
LEMMA TypeInit == Init => TypeInv
<1> SUFFICES ASSUME Init PROVE TypeInv
  BY Zenon
<1>1. /\ memory \in [Pages -> Contents \cup {Unmapped}]
      /\ cache \in [Pages -> Contents \cup {Unmapped, Absent}]
      /\ status \in [Tasks -> {"N", "R", "S", "X"}] /\ seen \in [Tasks -> Nat]
  BY Zenon DEF Init
<1>2. pc \in Pages /\ ticks_remaining \in 0 .. MaxTicks /\ runs \in 0 .. MaxRuns
  BY BackendConstants DEF Init, Pages
<1>3. /\ invalid_cache_ranges \subseteq Pages /\ invalidate_entire_cache \in BOOLEAN
      /\ halt_reason \subseteq {"user", "cache"} /\ suspect \subseteq Pages
      /\ mem_fault \in BOOLEAN /\ user_stop \in BOOLEAN /\ exclusive \in BOOLEAN
      /\ block \in Contents \cup {Unmapped, Absent}
  BY Zenon DEF Init
<1>4. phase = "host" /\ rc = 0 /\ current \in Tasks /\ word \in Nat /\ updates \in Nat
  BY Zenon DEF Init
<1> QED BY Zenon, <1>1, <1>2, <1>3, <1>4 DEF TypeInv, TypeOK

(* Every step keeps the types.                                             *)
LEMMA TypeStep == TypeInv /\ [Next]_vars => TypeInv'
<1> SUFFICES ASSUME TypeInv, [Next]_vars PROVE TypeInv'
  BY Zenon
<1> USE DEF memVars, cacheVars, flagVars, sliceVars, wordVars
<1>0. /\ TypeOK /\ (phase = "run" => runs < MaxRuns)
      /\ MaxRuns \in Nat \ {0} /\ MaxTicks \in Nat \ {0}
  BY Zenon, BackendConstants DEF TypeInv
<1>1. ASSUME NEW a \in Pages, NEW n \in 1 .. NumPages + 1 - a, NEW v \in Contents, dynarmic_mmap(a, n, v)
      PROVE  TypeInv'
  <2>1. memory' \in [Pages -> Contents \cup {Unmapped}]
    BY Zenon, <1>0, <1>1 DEF dynarmic_mmap, TypeOK
  <2>2. suspect' \subseteq Pages
    BY Zenon, <1>0, <1>1, RangeInPages DEF dynarmic_mmap, TypeOK, Exposed, Ready
  <2> QED BY ZenonT(30), <1>0, <1>1, <2>1, <2>2 DEF dynarmic_mmap, TypeInv, TypeOK
<1>2. ASSUME NEW a \in Pages, NEW n \in 1 .. NumPages + 1 - a, NEW v \in Contents, dynarmic_mem_write(a, n, v)
      PROVE  TypeInv'
  <2>1. memory' \in [Pages -> Contents \cup {Unmapped}]
    BY Zenon, <1>0, <1>2 DEF dynarmic_mem_write, TypeOK
  <2>2. suspect' \subseteq Pages
    BY Zenon, <1>0, <1>2, RangeInPages DEF dynarmic_mem_write, TypeOK, Exposed, Ready
  <2> QED BY ZenonT(30), <1>0, <1>2, <2>1, <2>2 DEF dynarmic_mem_write, TypeInv, TypeOK
<1>3. ASSUME NEW a \in Pages, NEW n \in 1 .. NumPages + 1 - a, dynarmic_munmap(a, n)
      PROVE  TypeInv'
  <2>1. memory' \in [Pages -> Contents \cup {Unmapped}]
    BY Zenon, <1>0, <1>3 DEF dynarmic_munmap, TypeOK
  <2>2. suspect' \subseteq Pages /\ invalid_cache_ranges' \subseteq Pages /\ halt_reason' \subseteq {"user", "cache"}
    BY Zenon, <1>0, <1>3, RangeInPages DEF dynarmic_munmap, TypeOK, Exposed, Ready
  <2> QED BY ZenonT(30), <1>0, <1>3, <2>1, <2>2 DEF dynarmic_munmap, TypeInv, TypeOK
<1>4. CASE Run
  <2>1. PICK full \in BOOLEAN : /\ GetBlock(Evacuated(halt_reason), full)
                                /\ PerformRequestedCacheInvalidation(IF full THEN {"cache"} ELSE halt_reason)
    BY Zenon, <1>4 DEF Run
  <2>2. /\ cache' \in [Pages -> Contents \cup {Unmapped, Absent}]
        /\ block' \in Contents \cup {Unmapped, Absent} /\ mem_fault' \in BOOLEAN
    BY Zenon, <1>0, <2>1, EvacuatedType, GetBlockType
  <2>3. invalid_cache_ranges' \subseteq Pages /\ invalidate_entire_cache' \in BOOLEAN
    BY Zenon, <1>0, <2>1 DEF PerformRequestedCacheInvalidation, TypeOK
  <2>4. runs' \in 0 .. MaxRuns /\ halt_reason' \subseteq {"user", "cache"} /\ phase' \in {"block", "code"}
    BY <1>0, <1>4 DEF Run, TypeOK
  <2> QED BY Zenon, <1>0, <1>4, <2>2, <2>3, <2>4 DEF Run, TypeInv, TypeOK
<1>5. CASE LookupBlock
  <2>1. PICK full \in BOOLEAN : /\ GetBlock(cache, full)
                                /\ PerformRequestedCacheInvalidation(IF full THEN {"cache"} ELSE {})
    BY Zenon, <1>5 DEF LookupBlock
  <2>2. /\ cache' \in [Pages -> Contents \cup {Unmapped, Absent}]
        /\ block' \in Contents \cup {Unmapped, Absent} /\ mem_fault' \in BOOLEAN
    BY Zenon, <1>0, <2>1, GetBlockType DEF TypeOK
  <2>3. invalid_cache_ranges' \subseteq Pages /\ invalidate_entire_cache' \in BOOLEAN
    BY Zenon, <1>0, <2>1 DEF PerformRequestedCacheInvalidation, TypeOK
  <2>4. halt_reason' \subseteq {"user", "cache"} /\ phase' \in {"block", "code"}
    BY Zenon, <1>0, <1>5 DEF LookupBlock, TypeOK
  <2> QED BY Zenon, <1>0, <1>5, <2>2, <2>3, <2>4 DEF LookupBlock, TypeInv, TypeOK
<1>6. CASE RunReturns
  <2>1. cache' \in [Pages -> Contents \cup {Unmapped, Absent}]
    BY Zenon, <1>0, <1>6, EvacuatedType DEF RunReturns
  <2>2. invalid_cache_ranges' \subseteq Pages /\ invalidate_entire_cache' \in BOOLEAN
    BY Zenon, <1>0, <1>6 DEF RunReturns, PerformRequestedCacheInvalidation, TypeOK
  <2>3. /\ rc' \in {0, -3, -4, -5, -6} /\ status' \in [Tasks -> {"N", "R", "S", "X"}]
        /\ phase' \in {"host", "run"} /\ (phase' = "run" => runs < MaxRuns)
    BY Zenon, <1>0, <1>6 DEF RunReturns, AfterRun, Answer, TypeOK
  <2> QED BY Zenon, <1>0, <1>6, <2>1, <2>2, <2>3 DEF RunReturns, TypeInv, TypeOK
<1>7. CASE SvcReturns
  BY Zenon, <1>0, <1>7 DEF SvcReturns, TypeInv, TypeOK
<1>8. CASE HostException
  <2>1. rc' = -5 /\ status' \in [Tasks -> {"N", "R", "S", "X"}] /\ phase' = "host" /\ block' = Absent
    BY Zenon, <1>0, <1>8 DEF HostException, Answer, TypeOK
  <2> QED BY Zenon, <1>0, <1>8, <2>1 DEF HostException, TypeInv, TypeOK
<1>9. ASSUME NEW f \in BOOLEAN, CallSVC(f) \/ \E q \in Pages : Branch(q, f)
      PROVE  TypeInv'
  <2>1. EndBlock(f) /\ pc' \in Pages /\ phase' \in {"code", "svc"}
    BY Zenon, <1>0, <1>9 DEF CallSVC, Branch, TypeOK
  <2>2. ticks_remaining' \in 0 .. MaxTicks /\ halt_reason' \subseteq {"user", "cache"} /\ mem_fault' \in BOOLEAN
    BY Zenon, <1>0, <2>1 DEF EndBlock, TypeOK, enable_cycle_counting, wall_clock_cntpct
  <2> QED BY Zenon, <1>0, <2>1, <2>2 DEF EndBlock, TypeInv, TypeOK
<1>10. CASE LDXR
  BY Zenon, <1>0, <1>10 DEF LDXR, TypeInv, TypeOK
<1>11. CASE STXR
  <2>1. seen[current] \in Nat /\ word \in Nat /\ updates \in Nat
    BY Zenon, <1>0 DEF TypeOK
  <2>2. word' \in Nat /\ updates' \in Nat
    BY <1>11, <2>1 DEF STXR
  <2>3. exclusive' = FALSE
    BY Zenon, <1>11 DEF STXR
  <2> QED BY Zenon, <1>0, <1>11, <2>2, <2>3 DEF STXR, TypeInv, TypeOK
<1>12. ASSUME NEW p \in Pages, NEW v \in Contents, MemoryWrite(p, v)
       PROVE  TypeInv'
  BY Zenon, <1>0, <1>12 DEF MemoryWrite, Exposed, TypeInv, TypeOK
<1>13. ASSUME NEW s \in {"S", "X"}, emu_stop(s)
       PROVE  TypeInv'
  BY Zenon, <1>0, <1>13 DEF emu_stop, TypeInv, TypeOK
<1>14. ASSUME NEW t \in Tasks, NEW p \in Pages, Emulate(t, p)
       PROVE  TypeInv'
  <2>1. /\ invalidate_entire_cache' \in BOOLEAN /\ suspect' \subseteq Pages /\ halt_reason' \subseteq {"user", "cache"}
        /\ current' \in Tasks /\ status' \in [Tasks -> {"N", "R", "S", "X"}]
    BY Zenon, <1>0, <1>14 DEF Emulate, EmuStartHalt, TypeOK
  <2>2. ticks_remaining' \in 0 .. MaxTicks /\ runs' \in 0 .. MaxRuns /\ (phase' = "run" => runs' < MaxRuns)
    BY <1>0, <1>14 DEF Emulate
  <2> QED BY Zenon, <1>0, <1>14, <2>1, <2>2 DEF Emulate, ClearExclusiveState, TypeInv, TypeOK
<1>15. CASE UNCHANGED vars
  BY <1>0, <1>15 DEF vars, TypeInv, TypeOK
<1> QED BY Zenon, <1>1, <1>2, <1>3, <1>4, <1>5, <1>6, <1>7, <1>8, <1>9, <1>10, <1>11, <1>12, <1>13, <1>14, <1>15
       DEF Next, Memory, InSlice

(* Values keep their kinds, and emu_start never calls Run() more often     *)
(* than its loop allows.                                                   *)
THEOREM BackendTypeCorrect == Spec => []TypeInv
<1>1. TypeInv /\ [Next]_vars => TypeInv'
  BY Zenon, TypeStep
<1> QED BY TypeInit, <1>1, PTL DEF Spec

-----------------------------------------------------------------------------
(* Stops.  Only starting a slice, faulting, stopping and returning touch   *)
(* the flags and the user bit.                                             *)
LEMMA StopStep == TypeInv /\ StopInv /\ [Next]_vars => StopInv'
<1> SUFFICES ASSUME TypeInv, StopInv, [Next]_vars PROVE StopInv'
  BY Zenon
<1> USE DEF memVars, cacheVars, flagVars, sliceVars, wordVars
<1>0. TypeOK
  BY Zenon DEF TypeInv
<1>1. ASSUME NEW a \in Pages, NEW n \in 1 .. NumPages + 1 - a,
             dynarmic_munmap(a, n) \/ \E v \in Contents : dynarmic_mmap(a, n, v) \/ dynarmic_mem_write(a, n, v)
      PROVE  StopInv'
  <2>1. /\ phase \in {"host", "svc"} /\ UNCHANGED <<mem_fault, user_stop, phase, rc, status>>
        /\ halt_reason' = halt_reason \/ halt_reason' = halt_reason \cup {"cache"}
    BY Zenon, <1>1 DEF dynarmic_munmap, dynarmic_mmap, dynarmic_mem_write, HostRuns
  <2> QED BY Zenon, <2>1 DEF StopInv
<1>2. CASE Run
  <2>1. mem_fault' <=> Faulting(Evacuated(halt_reason))
    <3>1. ~ mem_fault
      BY Zenon, <1>2 DEF Run, StopInv
    <3>2. mem_fault' = (mem_fault \/ Faulting(Evacuated(halt_reason)))
      BY Zenon, <1>2 DEF Run, GetBlock
    <3> QED BY Zenon, <3>1, <3>2
  <2>2. /\ phase = "run" /\ user_stop' = user_stop
        /\ halt_reason' = (halt_reason \ {"cache"}) \cup (IF Faulting(Evacuated(halt_reason)) THEN {"user"} ELSE {})
        /\ phase' = IF halt_reason' = {} THEN "block" ELSE "code"
    BY Zenon, <1>2 DEF Run
  <2> QED BY Zenon, <2>1, <2>2 DEF StopInv
<1>3. CASE LookupBlock
  <2>1. /\ phase = "code" /\ halt_reason = {} /\ user_stop' = user_stop
        /\ halt_reason' = IF Faulting(cache) THEN {"user"} ELSE {}
        /\ phase' = IF halt_reason' = {} THEN "block" ELSE "code"
    BY Zenon, <1>3 DEF LookupBlock
  <2>2. mem_fault' <=> Faulting(cache)
    <3>1. ~ mem_fault
      BY Zenon, <2>1 DEF StopInv
    <3>2. mem_fault' = (mem_fault \/ Faulting(cache))
      BY Zenon, <1>3 DEF LookupBlock, GetBlock
    <3> QED BY Zenon, <3>1, <3>2
  <2> QED BY Zenon, <2>1, <2>2 DEF StopInv
<1>4. CASE RunReturns
  <2>1. /\ phase = "code" /\ halt_reason # {} /\ halt_reason \subseteq {"user", "cache"}
        /\ halt_reason' = {} /\ UNCHANGED <<mem_fault, user_stop>>
    BY Zenon, <1>0, <1>4 DEF RunReturns, enable_cycle_counting, wall_clock_cntpct, TypeOK
  <2>2. "user" \in halt_reason <=> mem_fault \/ user_stop
    BY Zenon, <2>1 DEF StopInv
  <2>3. \/ phase' = "host" /\ rc' # 0
        \/ phase' = "host" /\ ~ mem_fault /\ ("user" \in halt_reason \/ "cache" \notin halt_reason)
        \/ phase' = "run" /\ ~ mem_fault /\ "user" \notin halt_reason
    BY <1>4 DEF RunReturns, AfterRun, Answer
  <2> QED BY Zenon, <2>1, <2>2, <2>3 DEF StopInv
<1>5. CASE SvcReturns
  BY Zenon, <1>5 DEF SvcReturns, StopInv
<1>6. CASE HostException
  BY <1>6 DEF HostException, Answer, StopInv
<1>7. ASSUME NEW f \in BOOLEAN, CallSVC(f) \/ \E q \in Pages : Branch(q, f)
      PROVE  StopInv'
  <2>1. EndBlock(f) /\ phase' \in {"code", "svc"}
    BY Zenon, <1>7 DEF CallSVC, Branch
  <2> QED BY Zenon, <2>1 DEF EndBlock, StopInv
<1>8. CASE LDXR \/ STXR
  BY <1>8 DEF LDXR, STXR, StopInv
<1>9. ASSUME NEW p \in Pages, NEW v \in Contents, MemoryWrite(p, v)
      PROVE  StopInv'
  BY Zenon, <1>9 DEF MemoryWrite, StopInv
<1>10. ASSUME NEW s \in {"S", "X"}, emu_stop(s)
       PROVE  StopInv'
  BY Zenon, <1>10 DEF emu_stop, StopInv
<1>11. ASSUME NEW t \in Tasks, NEW p \in Pages, Emulate(t, p)
       PROVE  StopInv'
  BY <1>11 DEF Emulate, EmuStartHalt, StopInv
<1>12. CASE UNCHANGED vars
  BY Zenon, <1>12 DEF vars, StopInv
<1> QED BY Zenon, <1>1, <1>2, <1>3, <1>4, <1>5, <1>6, <1>7, <1>8, <1>9, <1>10, <1>11, <1>12
       DEF Next, Memory, InSlice

(* A slice ends where a handler or a fault ends it, and answers 0 only if  *)
(* it was stopped itself: emu_start's tests behind Run() are in the right  *)
(* order, whatever flushes are pending.                                    *)
THEOREM StopsEndSlices == Spec => []StopEndsSlice
<1>1. Init => StopInv
  BY Zenon DEF Init, StopInv
<1>2. TypeInv /\ StopInv /\ [Next]_vars => StopInv'
  BY Zenon, StopStep
<1>3. StopInv => StopEndsSlice
  BY Zenon DEF StopInv, StopEndsSlice
<1> QED BY <1>1, <1>2, <1>3, BackendTypeCorrect, PTL DEF Spec

-----------------------------------------------------------------------------
(* Exclusive loads and stores.  The word changes only by a store of the    *)
(* running slice, whose task loaded it in the same slice.                  *)
LEMMA WordStep == TypeInv /\ WordInv /\ [Next]_vars => WordInv'
<1> SUFFICES ASSUME TypeInv, WordInv, [Next]_vars PROVE WordInv'
  BY Zenon
<1> USE DEF memVars, cacheVars, flagVars, sliceVars, wordVars
<1>0. TypeOK
  BY Zenon DEF TypeInv
<1>1. CASE LDXR
  BY Zenon, <1>0, <1>1 DEF LDXR, WordInv, TypeOK
<1>2. CASE STXR
  <2>1. exclusive => seen[current] = word
    BY Zenon, <1>2 DEF STXR, WordInv
  <2>2. word' = updates' /\ ~ exclusive'
    BY Zenon, <1>2, <2>1 DEF STXR, WordInv
  <2> QED BY Zenon, <2>2 DEF WordInv
<1>3. ASSUME NEW t \in Tasks, NEW p \in Pages, Emulate(t, p)
      PROVE  WordInv'
  BY Zenon, <1>3 DEF Emulate, ClearExclusiveState, WordInv
<1>4. CASE SvcReturns
  BY Zenon, <1>4 DEF SvcReturns, WordInv
<1>5. CASE HostException \/ RunReturns
  <2>1. phase # "host" /\ UNCHANGED wordVars /\ UNCHANGED current
    BY Zenon, <1>5 DEF HostException, RunReturns
  <2> QED BY Zenon, <2>1 DEF WordInv
<1>6. CASE Run \/ LookupBlock
  <2>1. phase # "host" /\ UNCHANGED wordVars /\ UNCHANGED current
    BY Zenon, <1>6 DEF Run, LookupBlock
  <2> QED BY Zenon, <2>1 DEF WordInv
<1>7. ASSUME NEW f \in BOOLEAN, CallSVC(f) \/ \E q \in Pages : Branch(q, f)
      PROVE  WordInv'
  <2>1. phase # "host" /\ UNCHANGED wordVars /\ UNCHANGED current
    BY Zenon, <1>7 DEF CallSVC, Branch, EndBlock
  <2> QED BY Zenon, <2>1 DEF WordInv
<1>8. CASE Memory \/ (\E p \in Pages, v \in Contents : MemoryWrite(p, v)) \/ UNCHANGED vars
  <2>1. UNCHANGED <<phase, current, exclusive, word, seen, updates>>
    BY ZenonT(30), <1>8 DEF Memory, MemoryWrite, dynarmic_munmap, dynarmic_mmap, dynarmic_mem_write, vars
  <2> QED BY Zenon, <2>1 DEF WordInv
<1>9. ASSUME NEW s \in {"S", "X"}, emu_stop(s)
      PROVE  WordInv'
  BY Zenon, <1>9 DEF emu_stop, WordInv
<1> QED BY Zenon, <1>1, <1>2, <1>3, <1>4, <1>5, <1>6, <1>7, <1>8, <1>9 DEF Next, InSlice

(* No update by LDXR and STXR is lost, although the store does not compare *)
(* and tasks are suspended between the two, for every number of tasks.     *)
THEOREM UpdatesKept == Spec => []NoLostUpdate
<1>1. Init => WordInv
  BY Zenon DEF Init, WordInv
<1>2. TypeInv /\ WordInv /\ [Next]_vars => WordInv'
  BY Zenon, WordStep
<1>3. WordInv => NoLostUpdate
  BY Zenon DEF WordInv, NoLostUpdate
<1> QED BY <1>1, <1>2, <1>3, BackendTypeCorrect, PTL DEF Spec

-----------------------------------------------------------------------------
(* Fresh code.  GetBlock on blocks that are fresh or suspect leaves such   *)
(* blocks, and the one it gives out is among them.                         *)
LEMMA GetBlockFresh ==
  ASSUME TypeOK, ~ mem_fault, NEW c \in [Pages -> Contents \cup {Unmapped, Absent}], NEW full \in BOOLEAN,
         GetBlock(c, full), \A p \in Pages : c[p] = Absent \/ c[p] = memory[p] \/ p \in suspect
  PROVE  /\ \A p \in Pages : cache'[p] = Absent \/ cache'[p] = memory[p] \/ p \in suspect
         /\ block' = cache'[pc] /\ block' # Absent
<1>1. pc \in Pages /\ Translation = memory[pc] /\ memory[pc] # Absent
  BY Zenon, BackendConstants DEF TypeOK, Translation
<1>2. cache' = [p \in Pages |-> IF p = pc /\ c[p] = Absent THEN Translation
                                ELSE IF full THEN Absent ELSE c[p]]
  BY Zenon DEF GetBlock
<1>3. full => c[pc] = Absent
  BY Zenon DEF GetBlock
<1>4. \A p \in Pages : cache'[p] = Absent \/ cache'[p] = memory[p] \/ p \in suspect
  BY Zenon, <1>1, <1>2
<1>5. cache'[pc] # Absent
  BY Zenon, <1>1, <1>2, <1>3
<1> QED BY Zenon, <1>4, <1>5 DEF GetBlock

(* A served request leaves blocks that are fresh or suspect.               *)
LEMMA EvacuatedFresh ==
  ASSUME TypeOK, CacheInv
  PROVE  \A p \in Pages : \/ Evacuated(halt_reason)[p] = Absent
                          \/ Evacuated(halt_reason)[p] = memory[p] \/ p \in suspect
<1>1. CASE "cache" \in halt_reason
  BY Zenon, <1>1 DEF CacheInv, Evacuated
<1>2. CASE "cache" \notin halt_reason
  BY Zenon, <1>2 DEF CacheInv, Evacuated
<1> QED BY Zenon, <1>1, <1>2

(* Serving the requests of the halt bits leaves none.                      *)
LEMMA RequestsServed ==
  ASSUME CacheInv, NEW full \in BOOLEAN,
         PerformRequestedCacheInvalidation(IF full THEN {"cache"} ELSE halt_reason)
  PROVE  invalid_cache_ranges' = {} /\ ~ invalidate_entire_cache'
<1>1. CASE full \/ "cache" \in halt_reason
  BY Zenon, <1>1 DEF PerformRequestedCacheInvalidation
<1>2. CASE ~ full /\ "cache" \notin halt_reason
  BY Zenon, <1>2 DEF PerformRequestedCacheInvalidation, CacheInv
<1> QED BY Zenon, <1>1, <1>2

(* A change of pages under the cache keeps the invariant if the changed    *)
(* pages with an uncovered block are noted.                                *)
LEMMA ChangedPages ==
  ASSUME TypeOK, CacheInv, NEW S \in SUBSET Pages,
         \A p \in Pages \ S : memory'[p] = memory[p],
         suspect' = suspect \cup Exposed(S), UNCHANGED cacheVars
  PROVE  \A p \in Pages : \/ cache'[p] = Absent \/ cache'[p] = memory'[p]
                          \/ p \in suspect' \/ p \in invalid_cache_ranges' \/ invalidate_entire_cache'
BY Zenon DEF CacheInv, Exposed, cacheVars

(* Every step keeps the cache in step with memory, or on the record.       *)
LEMMA CacheStep == TypeInv /\ StopInv /\ CacheInv /\ [Next]_vars => CacheInv'
<1> SUFFICES ASSUME TypeInv, StopInv, CacheInv, [Next]_vars PROVE CacheInv'
  BY Zenon
<1> USE DEF memVars, flagVars, sliceVars, wordVars
<1>0. TypeOK
  BY Zenon DEF TypeInv
<1>1. ASSUME NEW a \in Pages, NEW n \in 1 .. NumPages + 1 - a, NEW v \in Contents, dynarmic_mmap(a, n, v)
      PROVE  CacheInv'
  <2> DEFINE S == Ready(a, n, NotMapped)
  <2>1. S \in SUBSET Pages
    BY Zenon, RangeInPages DEF Ready
  <2>2. /\ \A p \in Pages \ S : memory'[p] = memory[p]
        /\ suspect' = suspect \cup Exposed(S) /\ UNCHANGED cacheVars
        /\ phase \in {"host", "svc"} /\ UNCHANGED <<phase, halt_reason>>
    BY Zenon, <1>1 DEF dynarmic_mmap, HostRuns
  <2> HIDE DEF S
  <2> QED BY Zenon, <1>0, <2>1, <2>2, ChangedPages DEF CacheInv, cacheVars
<1>2. ASSUME NEW a \in Pages, NEW n \in 1 .. NumPages + 1 - a, NEW v \in Contents, dynarmic_mem_write(a, n, v)
      PROVE  CacheInv'
  <2> DEFINE S == Ready(a, n, Pages \ NotMapped)
  <2>1. S \in SUBSET Pages
    BY Zenon, RangeInPages DEF Ready
  <2>2. /\ \A p \in Pages \ S : memory'[p] = memory[p]
        /\ suspect' = suspect \cup Exposed(S) /\ UNCHANGED cacheVars
        /\ phase \in {"host", "svc"} /\ UNCHANGED <<phase, halt_reason>>
    BY Zenon, <1>2 DEF dynarmic_mem_write, HostRuns
  <2> HIDE DEF S
  <2> QED BY Zenon, <1>0, <2>1, <2>2, ChangedPages DEF CacheInv, cacheVars
<1>3. ASSUME NEW a \in Pages, NEW n \in 1 .. NumPages + 1 - a, dynarmic_munmap(a, n)
      PROVE  CacheInv'
  <2> DEFINE S == Ready(a, n, Pages \ NotMapped)
  <2>1. S \in SUBSET Pages
    BY Zenon, RangeInPages DEF Ready
  <2>2. /\ \A p \in Pages \ S : memory'[p] = memory[p]
        /\ phase \in {"host", "svc"} /\ UNCHANGED <<phase, cache, invalidate_entire_cache>>
    BY Zenon, <1>3 DEF dynarmic_munmap, HostRuns
  <2>3. \/ /\ invalid_cache_ranges' = invalid_cache_ranges \cup S
           /\ halt_reason' = halt_reason \cup {"cache"} /\ suspect' = suspect \ S
        \/ suspect' = suspect \cup Exposed(S) /\ UNCHANGED <<invalid_cache_ranges, halt_reason>>
    BY ZenonT(30), <1>3 DEF dynarmic_munmap
  <2> HIDE DEF S
  <2>4. CASE /\ invalid_cache_ranges' = invalid_cache_ranges \cup S
             /\ halt_reason' = halt_reason \cup {"cache"} /\ suspect' = suspect \ S
    BY Zenon, <2>2, <2>4 DEF CacheInv
  <2>5. CASE suspect' = suspect \cup Exposed(S) /\ UNCHANGED <<invalid_cache_ranges, halt_reason>>
    BY Zenon, <1>0, <2>1, <2>2, <2>5, ChangedPages DEF CacheInv, cacheVars
  <2> QED BY Zenon, <2>3, <2>4, <2>5
<1>4. CASE Run
  <2>1. PICK full \in BOOLEAN : /\ GetBlock(Evacuated(halt_reason), full)
                                /\ PerformRequestedCacheInvalidation(IF full THEN {"cache"} ELSE halt_reason)
    BY Zenon, <1>4 DEF Run
  <2>2. ~ mem_fault
    BY Zenon, <1>4 DEF Run, StopInv
  <2>3. /\ \A p \in Pages : cache'[p] = Absent \/ cache'[p] = memory[p] \/ p \in suspect
        /\ block' = cache'[pc] /\ block' # Absent
    BY Zenon, <1>0, <2>1, <2>2, EvacuatedType, EvacuatedFresh, GetBlockFresh
  <2>4. invalid_cache_ranges' = {} /\ ~ invalidate_entire_cache'
    BY Zenon, <2>1, RequestsServed
  <2>5. UNCHANGED <<memory, suspect, pc>>
    BY Zenon, <1>4 DEF Run
  <2> QED BY Zenon, <2>3, <2>4, <2>5 DEF CacheInv
<1>5. CASE LookupBlock
  <2>1. phase = "code" /\ halt_reason = {} /\ UNCHANGED <<memory, suspect, pc>>
    BY Zenon, <1>5 DEF LookupBlock
  <2>2. PICK full \in BOOLEAN : /\ GetBlock(cache, full)
                                /\ PerformRequestedCacheInvalidation(IF full THEN {"cache"} ELSE halt_reason)
    BY Zenon, <1>5, <2>1 DEF LookupBlock
  <2>3. ~ mem_fault
    BY Zenon, <2>1 DEF StopInv
  <2>4. \A p \in Pages : cache[p] = Absent \/ cache[p] = memory[p] \/ p \in suspect
    BY Zenon, <2>1 DEF CacheInv
  <2>5. cache \in [Pages -> Contents \cup {Unmapped, Absent}]
    BY Zenon, <1>0 DEF TypeOK
  <2>6. /\ \A p \in Pages : cache'[p] = Absent \/ cache'[p] = memory[p] \/ p \in suspect
        /\ block' = cache'[pc] /\ block' # Absent
    BY Zenon, <1>0, <2>2, <2>3, <2>4, <2>5, GetBlockFresh
  <2>7. invalid_cache_ranges' = {} /\ ~ invalidate_entire_cache'
    BY Zenon, <2>2, RequestsServed
  <2> QED BY Zenon, <2>1, <2>6, <2>7 DEF CacheInv
<1>6. CASE RunReturns
  <2>1. /\ cache' = Evacuated(halt_reason) /\ PerformRequestedCacheInvalidation(halt_reason)
        /\ UNCHANGED <<memory, suspect>>
    BY Zenon, <1>6 DEF RunReturns
  <2>2. phase' \in {"host", "run"}
    BY Zenon, <1>6 DEF RunReturns, AfterRun, Answer
  <2>3. invalid_cache_ranges' = {} /\ ~ invalidate_entire_cache'
    BY Zenon, <2>1, RequestsServed
  <2> QED BY Zenon, <1>0, <2>1, <2>2, <2>3, EvacuatedFresh DEF CacheInv
<1>7. CASE SvcReturns \/ HostException
  <2>1. UNCHANGED <<memory, suspect, halt_reason, cacheVars>> /\ phase' # "block"
    BY Zenon, <1>7 DEF SvcReturns, HostException, Answer
  <2> QED BY Zenon, <2>1 DEF CacheInv, cacheVars
<1>8. ASSUME NEW f \in BOOLEAN, CallSVC(f) \/ \E q \in Pages : Branch(q, f)
      PROVE  CacheInv'
  <2>1. EndBlock(f) /\ phase' # "block"
    BY Zenon, <1>8 DEF CallSVC, Branch
  <2>2. UNCHANGED <<memory, suspect, cacheVars>> /\ halt_reason \subseteq halt_reason'
    BY Zenon, <2>1 DEF EndBlock
  <2> QED BY Zenon, <2>1, <2>2 DEF CacheInv, cacheVars
<1>9. CASE LDXR \/ STXR \/ UNCHANGED vars
  <2>1. UNCHANGED <<memory, suspect, cacheVars, halt_reason, pc, block, phase>>
    BY SMTT(30), <1>9 DEF LDXR, STXR, vars
  <2> QED BY Zenon, <2>1 DEF CacheInv, cacheVars
<1>10. ASSUME NEW p \in Pages, NEW v \in Contents, MemoryWrite(p, v)
       PROVE  CacheInv'
  <2>1. /\ \A q \in Pages \ {p} : memory'[q] = memory[q]
        /\ suspect' = suspect \cup Exposed({p}) /\ UNCHANGED cacheVars
        /\ UNCHANGED <<phase, halt_reason, pc, block>>
    BY Zenon, <1>0, <1>10 DEF MemoryWrite, TypeOK
  <2> QED BY <1>0, <2>1, ChangedPages DEF CacheInv, cacheVars
<1>11. ASSUME NEW s \in {"S", "X"}, emu_stop(s)
       PROVE  CacheInv'
  <2>1. UNCHANGED <<memory, suspect, cacheVars>> /\ halt_reason \subseteq halt_reason' /\ phase' # "block"
    BY Zenon, <1>11 DEF emu_stop
  <2> QED BY Zenon, <2>1 DEF CacheInv, cacheVars
<1>12. ASSUME NEW t \in Tasks, NEW p \in Pages, Emulate(t, p)
       PROVE  CacheInv'
  <2>1. UNCHANGED <<memory, cache, invalid_cache_ranges>> /\ phase' = "run"
    BY Zenon, <1>12 DEF Emulate
  <2>2. CASE status[t] = "S"
    <3>1. invalidate_entire_cache' = TRUE /\ "cache" \in halt_reason'
      BY Zenon, <1>12, <2>2 DEF Emulate
    <3> QED BY Zenon, <2>1, <3>1 DEF CacheInv
  <2>3. CASE status[t] # "S"
    <3>1. halt_reason' = halt_reason \cap {"cache"} /\ UNCHANGED <<invalidate_entire_cache, suspect>>
      BY Zenon, <1>12, <2>3 DEF Emulate, EmuStartHalt
    <3> QED BY Zenon, <2>1, <3>1 DEF CacheInv
  <2> QED BY Zenon, <2>2, <2>3
<1> QED BY Zenon, <1>1, <1>2, <1>3, <1>4, <1>5, <1>6, <1>7, <1>8, <1>9, <1>10, <1>11, <1>12
       DEF Next, Memory, InSlice

(* The block that runs is the translation of what its page holds, unless   *)
(* the page was changed by a call that does not invalidate and no flush    *)
(* came since: neither emu_start nor a full code area loses a request.     *)
THEOREM CodeIsFresh == Spec => []FreshCode
<1>1. Init => StopInv /\ CacheInv
  BY Zenon DEF Init, StopInv, CacheInv
<1>2. TypeInv /\ StopInv /\ CacheInv /\ [Next]_vars => (StopInv /\ CacheInv)'
  BY Zenon, StopStep, CacheStep
<1>3. TypeInv /\ StopInv /\ CacheInv => FreshCode
  <2> SUFFICES ASSUME TypeInv, StopInv, CacheInv, phase = "block"
               PROVE  block = memory[pc] \/ pc \in suspect
    BY Zenon DEF FreshCode
  <2>1. pc \in Pages /\ halt_reason = {}
    BY Zenon DEF TypeInv, TypeOK, StopInv
  <2> QED BY Zenon, <2>1 DEF CacheInv
<1> QED BY <1>1, <1>2, <1>3, BackendTypeCorrect, PTL DEF Spec

-----------------------------------------------------------------------------
(* Task contexts: the inductive invariant *)

Records == [kind : {"host", "thread", "fork"}, status : {"new", "running", "saved", "dead"},
            snap : Registers, skip : BOOLEAN, waiting : BOOLEAN,
            block : Blocks \cup {NoBlock}, tls : {MainTls} \cup TaskIds]

\* Tasks are numbered in the order of their creation; exactly the running task
\* has the CPU.
ContextTypeInv ==
    /\ cpu \in Registers /\ kept \in Registers
    /\ sp \in {Top, Top - 1} /\ sp_back \in {Top, Top - 1}
    /\ \E n \in 0 .. MaxTasks : Created = 1 .. n
    /\ tasks \in [Created -> Records] /\ last \in [Created -> Registers]
    /\ blocks \subseteq Blocks
    /\ where \in {"idle", "run", "thread", "drain"}
    /\ running \in {NoTask} \cup Created
    /\ running # NoTask => where \in {"run", "thread"} /\ cpu.mark[2] < MaxSlices
    /\ \A t \in Created : tasks[t].status = "running" <=> t = running
    /\ stuck \in BOOLEAN

\* The registers of a task, wherever they are kept.
RegsOf(t) == IF t = running THEN cpu ELSE tasks[t].snap

\* A host call is on the host's stack, a thread on the stack it was given or
\* on its block, the child of fork on its block.
OwnStack(t) ==
    /\ tasks[t].kind = "host" => /\ RegsOf(t).stack \in {Host(Top), Host(Top - 1)}
                                 /\ tasks[t].block = NoBlock
    /\ tasks[t].kind = "thread" /\ tasks[t].block = NoBlock => RegsOf(t).stack = Given(t)
    /\ tasks[t].kind = "fork" => tasks[t].block # NoBlock
    /\ tasks[t].block # NoBlock => RegsOf(t).stack = Block(tasks[t].block)

\* A task that has started and not ended has its own registers.
OwnRegs(t) ==
    /\ RegsOf(t).mark[1] = t
    /\ ~ stuck \/ tasks[t].kind = "thread" => RegsOf(t).tls = tasks[t].tls
    /\ OwnStack(t)

\* What was saved is what the last slice ended with; only a child of fork that
\* has not run yet continues behind the SVC.
SavedExact(t) ==
    /\ tasks[t].snap = last[t]
    /\ tasks[t].skip <=> ~(tasks[t].kind = "fork" /\ tasks[t].snap.mark[2] = 0)

TaskInv(t) ==
    /\ tasks[t].status # "dead" => /\ tasks[t].kind = "thread" => tasks[t].tls = t
                                   /\ tasks[t].kind = "host" => tasks[t].tls = MainTls
    /\ tasks[t].status \in {"new", "dead"} => tasks[t].block = NoBlock
    /\ tasks[t].status = "new" => tasks[t].kind = "thread"
    /\ tasks[t].status = "saved" => SavedExact(t)
    /\ tasks[t].status \in {"saved", "running"} => OwnRegs(t)

\* A block belongs to one live task.
BlockInv ==
    /\ \A t, u \in Live : tasks[t].block = tasks[u].block /\ tasks[t].block # NoBlock => t = u
    /\ blocks = {tasks[t].block : t \in Live} \ {NoBlock}

\* As long as no host call was abandoned, there is one only while it runs.
HostInv ==
    ~ stuck => \A t, u \in Live : tasks[t].kind = "host" =>
                  where = "run" /\ (tasks[u].kind = "host" => t = u)

\* The host's stack pointer and registers outside the dispatcher, and what
\* run_thread keeps of them.
PhaseInv ==
    /\ sp_back = Top
    /\ where # "run" => sp = Top
    /\ where \in {"idle", "drain"} => cpu.stack = Host(Top) /\ (~ stuck => cpu.tls = MainTls)
    /\ where = "thread" => kept.stack = Host(Top) /\ (~ stuck => kept.tls = MainTls)

ContextInv ==
    /\ ContextTypeInv /\ (\A t \in Created : TaskInv(t)) /\ BlockInv /\ HostInv /\ PhaseInv

-----------------------------------------------------------------------------
(* Facts about the operators *)

\* Stacks of different kinds, and of different tasks or blocks, are different.
LEMMA StackNames ==
  /\ \A d, t : Host(d) # Given(t)
  /\ \A d, b : Host(d) # Block(b)
  /\ \A t, b : Given(t) # Block(b)
  /\ \A t, u : Given(t) = Given(u) => t = u
  /\ \A b, c : Block(b) = Block(c) => b = c
BY Zenon DEF Host, Given, Block

\* Task numbers start at 1, and the running task is the one with the status.
LEMMA RunningTask ==
  ASSUME ContextTypeInv
  PROVE  \A u \in Created : u # NoTask /\ (tasks[u].status = "running" <=> u = running)
<1>1. \A u \in Created : u # 0
  BY DEF ContextTypeInv
<1>2. QED BY Zenon, <1>1 DEF ContextTypeInv, NoTask

\* The next task has a number of its own.
LEMMA FreshFacts ==
  ASSUME ContextsAssumption, ContextTypeInv, Fresh <= MaxTasks
  PROVE  /\ Fresh \in TaskIds /\ Fresh \notin Created /\ Fresh # NoTask
         /\ \E n \in 0 .. MaxTasks : Created \cup {Fresh} = 1 .. n
<1>1. PICK n \in 0 .. MaxTasks : Created = 1 .. n
  BY Zenon DEF ContextTypeInv
<1>2. n \in Nat /\ Len(tasks) = n
  <2>1. n \in Nat /\ tasks \in Seq(Records) /\ DOMAIN tasks = 1 .. n
    BY <1>1 DEF ContextsAssumption, ContextTypeInv, Created
  <2>2. QED BY <2>1
<1>3. Fresh = n + 1
  BY Zenon, <1>2 DEF Fresh
<1>4. n + 1 \in 0 .. MaxTasks /\ Created \cup {Fresh} = 1 .. (n + 1)
  BY <1>1, <1>2, <1>3 DEF ContextsAssumption
<1>5. QED BY <1>1, <1>2, <1>3, <1>4 DEF TaskIds, NoTask, ContextsAssumption

\* The registers at the end of a slice.
LEMMA AdvancedFacts ==
  ASSUME ContextsAssumption, cpu \in Registers, cpu.mark[2] < MaxSlices,
         NEW at \in {"svc", "code", "lr"}
  PROVE  /\ Advanced(at) \in Registers
         /\ Advanced(at).tls = cpu.tls /\ Advanced(at).stack = cpu.stack
         /\ Advanced(at).mark[1] = cpu.mark[1] /\ Advanced(at).mark[2] = cpu.mark[2] + 1
         /\ Advanced(at).at = at
<1> DEFINE m == cpu.mark
<1>1. /\ m \in (TaskIds \cup {NoTask}) \X (0 .. MaxSlices)
      /\ m = <<m[1], m[2]>> /\ m[1] \in TaskIds \cup {NoTask} /\ m[2] \in 0 .. MaxSlices
  BY DEF Registers
<1>2. [m EXCEPT ![2] = m[2] + 1] = <<m[1], m[2] + 1>>
  <2>1. DOMAIN m = 1 .. 2
    BY <1>1
  <2>2. QED BY <1>1, <2>1
<1> DEFINE r == <<m[1], m[2] + 1>>
<1>3. /\ r \in (TaskIds \cup {NoTask}) \X (0 .. MaxSlices)
      /\ r[1] = cpu.mark[1] /\ r[2] = cpu.mark[2] + 1
  BY <1>1 DEF ContextsAssumption
<1>4. Advanced(at) = [cpu EXCEPT !.mark = r, !.at = at]
  BY Zenon, <1>2 DEF Advanced
<1> HIDE DEF r
<1>5. QED BY Zenon, <1>3, <1>4 DEF Registers

\* The context of nobody, and what a task starts with, have their types.
LEMMA StartTypes ==
  ASSUME ContextsAssumption
  PROVE  /\ NoContext \in Registers
         /\ \A k \in {"host", "thread", "fork"}, s \in {"new", "running", "saved", "dead"},
               i \in {MainTls} \cup TaskIds : Task(k, s, i) \in Records
BY DEF ContextsAssumption, NoContext, Registers, Task, Records, NoTask, MainTls, Top

-----------------------------------------------------------------------------
(* What the parts of the invariant depend on *)

\* A task whose record and registers a step leaves alone keeps its invariant.
LEMMA TaskInvKept ==
  ASSUME NEW t, TaskInv(t), tasks'[t] = tasks[t], last'[t] = last[t], stuck => stuck',
         RegsOf(t)' = RegsOf(t)
  PROVE  TaskInv(t)'
BY Zenon DEF TaskInv, OwnRegs, OwnStack, SavedExact

\* Tasks that are not running keep their registers when the CPU changes.
LEMMA ParkedRegs ==
  ASSUME NEW t, tasks'[t] = tasks[t], t # running, t # running'
  PROVE  RegsOf(t)' = RegsOf(t)
BY Zenon DEF RegsOf

\* A new task f, with record k and history l.
LEMMA CreateFacts ==
  ASSUME ContextsAssumption, ContextTypeInv, Fresh <= MaxTasks, NEW f, f = Fresh,
         NEW k \in Records, NEW l \in Registers,
         tasks' = [t \in Created \cup {Fresh} |-> IF t = Fresh THEN k ELSE tasks[t]],
         last' = [t \in Created \cup {Fresh} |-> IF t = Fresh THEN l ELSE last[t]]
  PROVE  /\ f \in TaskIds /\ f \notin Created /\ f # NoTask
         /\ Created' = Created \cup {f} /\ \E n \in 0 .. MaxTasks : Created' = 1 .. n
         /\ tasks' \in [Created' -> Records] /\ last' \in [Created' -> Registers]
         /\ \A t \in Created : tasks'[t] = tasks[t] /\ last'[t] = last[t]
         /\ tasks'[f] = k /\ last'[f] = l
         /\ k.status # "dead" => Live' = Live \cup {f}
<1>1. f \in TaskIds /\ f \notin Created /\ f # NoTask
  BY Zenon, FreshFacts
<1>2. Created' = Created \cup {f}
  BY Zenon DEF Created
<1>3. \E n \in 0 .. MaxTasks : Created' = 1 .. n
  BY Zenon, <1>2, FreshFacts
<1>4. tasks' \in [Created' -> Records] /\ last' \in [Created' -> Registers]
  BY Zenon, <1>2 DEF ContextTypeInv
<1>5. /\ \A t \in Created : tasks'[t] = tasks[t] /\ last'[t] = last[t]
      /\ tasks'[f] = k /\ last'[f] = l
  BY Zenon, <1>1
<1>6. k.status # "dead" => Live' = Live \cup {f}
  BY Zenon, <1>2, <1>5 DEF Live
<1>7. QED BY Zenon, <1>1, <1>2, <1>3, <1>4, <1>5, <1>6

\* The record of one task t changes; its history may.
LEMMA UpdateFacts ==
  ASSUME ContextTypeInv, NEW t \in Created, NEW k \in Records, NEW l \in Registers,
         tasks' = [tasks EXCEPT ![t] = k], last' = [last EXCEPT ![t] = l]
  PROVE  /\ Created' = Created /\ \E n \in 0 .. MaxTasks : Created' = 1 .. n
         /\ tasks' \in [Created' -> Records] /\ last' \in [Created' -> Registers]
         /\ \A u \in Created : u # t => tasks'[u] = tasks[u] /\ last'[u] = last[u]
         /\ tasks'[t] = k /\ last'[t] = l
         /\ Live' = IF k.status = "dead" THEN Live \ {t} ELSE Live \cup {t}
<1>1. Created' = Created
  BY Zenon DEF Created
<1>2. tasks' \in [Created' -> Records] /\ last' \in [Created' -> Registers]
  BY Zenon, <1>1 DEF ContextTypeInv
<1>3. /\ \A u \in Created : u # t => tasks'[u] = tasks[u] /\ last'[u] = last[u]
      /\ tasks'[t] = k /\ last'[t] = l
  BY Zenon DEF ContextTypeInv
<1>4. Live' = IF k.status = "dead" THEN Live \ {t} ELSE Live \cup {t}
  BY Zenon, <1>1, <1>3 DEF Live
<1>5. QED BY Zenon, <1>1, <1>2, <1>3, <1>4 DEF ContextTypeInv

\* Blocks change hands: a task t of the list comes to own block b, or none.
LEMMA BlockGiven ==
  ASSUME BlockInv, NEW t, NEW b, t \in Live => tasks[t].block = NoBlock,
         Live' = Live \cup {t}, \A u \in Live : u # t => tasks'[u] = tasks[u],
         tasks'[t].block = b,
         \/ b = NoBlock /\ blocks' = blocks
         \/ b # NoBlock /\ b \notin blocks /\ blocks' = blocks \cup {b}
  PROVE  BlockInv'
<1>1. \A u \in Live : u # t => tasks'[u].block = tasks[u].block
  BY Zenon
<1>2. \A u \in Live : tasks[u].block # NoBlock => tasks[u].block \in blocks
  BY Zenon DEF BlockInv
<1>3. \A u, v \in Live' : tasks'[u].block = tasks'[v].block /\ tasks'[u].block # NoBlock => u = v
  BY <1>1, <1>2 DEF BlockInv
<1>4. blocks' = {tasks'[u].block : u \in Live'} \ {NoBlock}
  <2>1. \A c : c \in blocks' => c \in {tasks'[u].block : u \in Live'} \ {NoBlock}
    BY <1>1 DEF BlockInv
  <2>2. \A c : c \in {tasks'[u].block : u \in Live'} \ {NoBlock} => c \in blocks'
    BY <1>1, <1>2
  <2>3. QED BY Zenon, <2>1, <2>2
<1>5. QED BY Zenon, <1>3, <1>4 DEF BlockInv

\* Blocks stay where they are.
LEMMA BlockKept ==
  ASSUME BlockInv, Live' = Live, blocks' = blocks, \A u \in Live : tasks'[u].block = tasks[u].block
  PROVE  BlockInv'
BY DEF BlockInv

-----------------------------------------------------------------------------
(* The steps of the host *)

\* A host call starts on the host's registers: they are its own.
LEMMA CallStep ==
  ASSUME ContextsAssumption, ContextInv, e_func PROVE ContextInv'
<1> USE DEF ContextInv
<1>0. PICK f : f = Fresh
  BY Zenon
<1>1. PICK args \in {0, 1} : sp' = sp - args /\ cpu' = Function64_run(f, args)
  BY Zenon, <1>0 DEF e_func
<1>2. /\ where = "idle" /\ where' = "run" /\ running = NoTask /\ running' = f
      /\ sp_back' = sp /\ sp = Top /\ Fresh <= MaxTasks /\ UNCHANGED <<kept, blocks, stuck>>
  BY Zenon, <1>0 DEF e_func, ContextTypeInv, PhaseInv
<1> DEFINE k == Task("host", "running", MainTls)
<1>3. k \in Records /\ NoContext \in Registers
  BY Zenon, StartTypes
<1>4. /\ k.kind = "host" /\ k.status = "running" /\ k.tls = MainTls /\ k.block = NoBlock
  BY Zenon DEF Task
<1>5. /\ tasks' = [t \in Created \cup {Fresh} |-> IF t = Fresh THEN k ELSE tasks[t]]
      /\ last' = [t \in Created \cup {Fresh} |-> IF t = Fresh THEN NoContext ELSE last[t]]
  BY Zenon DEF e_func
<1> HIDE DEF k
<1>6. /\ f \in TaskIds /\ f \notin Created /\ f # NoTask
      /\ Created' = Created \cup {f} /\ \E n \in 0 .. MaxTasks : Created' = 1 .. n
      /\ tasks' \in [Created' -> Records] /\ last' \in [Created' -> Registers]
      /\ \A t \in Created : tasks'[t] = tasks[t] /\ last'[t] = last[t]
      /\ tasks'[f] = k
      /\ Live' = Live \cup {f}
  BY <1>0, <1>2, <1>3, <1>4, <1>5, CreateFacts
<1>7. /\ cpu' \in Registers /\ cpu'.mark[1] = f /\ cpu'.mark[2] = 0 /\ cpu'.tls = cpu.tls
      /\ cpu'.stack \in {Host(Top), Host(Top - 1)}
  <2>1. cpu \in Registers /\ cpu.stack = Host(Top)
    BY Zenon, <1>2 DEF ContextTypeInv, PhaseInv
  <2> DEFINE r == init_args(cpu, args)
  <2>2. r \in Registers /\ r.tls = cpu.tls /\ r.stack \in {Host(Top), Host(Top - 1)}
    BY Zenon, <1>2, <2>1 DEF init_args, set_stack_point, Registers, Top
  <2> DEFINE m == <<f, 0>>
  <2>3. m \in (TaskIds \cup {NoTask}) \X (0 .. MaxSlices) /\ m[1] = f /\ m[2] = 0
    BY <1>6 DEF ContextsAssumption
  <2>4. cpu' = [r EXCEPT !.mark = m, !.at = "code"]
    BY Zenon, <1>1 DEF Function64_run
  <2> HIDE DEF r, m
  <2>5. QED BY Zenon, <2>2, <2>3, <2>4 DEF Registers
<1>8. ContextTypeInv'
  <2>1. sp' \in {Top, Top - 1} /\ sp_back' \in {Top, Top - 1}
    BY <1>1, <1>2 DEF Top
  <2>2. \A t \in Created' : tasks'[t].status = "running" <=> t = running'
    <3>1. \A t \in Created : t # NoTask /\ (tasks[t].status = "running" <=> t = running)
      BY Zenon, RunningTask
    <3>2. QED BY Zenon, <1>2, <1>4, <1>6, <3>1
  <2>3. cpu'.mark[2] < MaxSlices
    BY <1>7 DEF ContextsAssumption
  <2>4. QED BY Zenon, <1>2, <1>6, <1>7, <2>1, <2>2, <2>3 DEF ContextTypeInv
<1>9. \A t \in Created' : TaskInv(t)'
  <2>1. ASSUME NEW t \in Created PROVE TaskInv(t)'
    <3>1. t # running /\ t # running'
      BY <1>2, <1>6 DEF ContextTypeInv, NoTask
    <3>2. QED BY Zenon, <1>2, <1>6, <3>1, ParkedRegs, TaskInvKept
  <2>2. TaskInv(f)'
    <3>1. RegsOf(f)' = cpu'
      BY Zenon, <1>2 DEF RegsOf
    <3>2. ~ stuck => cpu'.tls = MainTls
      BY Zenon, <1>2, <1>7 DEF PhaseInv
    <3>3. OwnRegs(f)'
      BY Zenon, <1>2, <1>4, <1>6, <1>7, <3>1, <3>2 DEF OwnRegs, OwnStack
    <3>4. QED BY Zenon, <1>4, <1>6, <3>3 DEF TaskInv
  <2>3. QED BY Zenon, <1>6, <2>1, <2>2
<1>10. BlockInv'
  BY Zenon, <1>2, <1>4, <1>6, BlockGiven DEF Live
<1>11. HostInv'
  <2>1. ~ stuck => \A t \in Live : tasks[t].kind # "host"
    BY Zenon, <1>2 DEF HostInv
  <2>2. \A t \in Live : tasks'[t].kind = tasks[t].kind
    BY Zenon, <1>6 DEF Live
  <2>3. QED BY Zenon, <1>2, <1>6, <2>1, <2>2 DEF HostInv
<1>12. PhaseInv'
  BY Zenon, <1>2 DEF PhaseInv
<1>13. QED BY Zenon, <1>8, <1>9, <1>10, <1>11, <1>12

\* The dispatcher returns, run_thread starts and the call returns.
LEMMA IdleSteps ==
  ASSUME ContextsAssumption, ContextInv, NoRunnable \/ run_thread \/ CallReturns
  PROVE  ContextInv'
<1> USE DEF ContextInv
<1>1. /\ running = NoTask /\ running' = NoTask /\ UNCHANGED <<tasks, last, blocks, sp_back>>
      /\ stuck => stuck'
  BY Zenon DEF NoRunnable, run_thread, CallReturns, Returns, ContextTypeInv
<1>2. Created' = Created /\ Live' = Live
  BY Zenon, <1>1 DEF Created, Live
<1>3. \A t \in Created' : TaskInv(t)'
  <2> SUFFICES ASSUME NEW t \in Created PROVE TaskInv(t)'
    BY Zenon, <1>2
  <2>1. t # NoTask
    BY DEF ContextTypeInv, NoTask
  <2>2. QED BY Zenon, <1>1, <2>1, ParkedRegs, TaskInvKept
<1>4. BlockInv'
  BY Zenon, <1>1, <1>2, BlockKept
<1>5. NoContext \in Registers
  BY Zenon, StartTypes
<1>6. CASE NoRunnable
  <2>1. /\ where \in {"run", "thread"} /\ where' = "drain" /\ kept' = NoContext
        /\ sp' = IF where = "run" THEN sp_back ELSE sp
        /\ cpu' = IF where = "run" THEN set_stack_point(cpu, sp_back) ELSE kept
        /\ stuck' = (stuck \/ where = "run")
    BY Zenon, <1>6 DEF NoRunnable, Returns
  <2>2. sp_back = Top /\ cpu \in Registers /\ kept \in Registers
    BY Zenon DEF PhaseInv, ContextTypeInv
  <2>3. cpu' \in Registers /\ cpu'.stack = Host(Top) /\ (~ stuck' => cpu'.tls = MainTls)
    BY Zenon, <2>1, <2>2 DEF PhaseInv, set_stack_point, Registers
  <2>4. ContextTypeInv'
    <3>1. \A t \in Created' : tasks'[t].status = "running" <=> t = running'
      BY Zenon, <1>1, <1>2 DEF ContextTypeInv
    <3>2. stuck' \in BOOLEAN /\ sp' \in {Top, Top - 1}
      BY Zenon, <2>1 DEF ContextTypeInv
    <3>3. QED BY Zenon, <1>1, <1>2, <1>5, <2>1, <2>3, <3>1, <3>2 DEF ContextTypeInv
  <2>5. HostInv'
    BY Zenon, <1>1, <1>2, <2>1 DEF HostInv
  <2>6. PhaseInv'
    BY Zenon, <1>1, <2>1, <2>2, <2>3 DEF PhaseInv
  <2>7. QED BY Zenon, <1>3, <1>4, <2>4, <2>5, <2>6
<1>7. CASE run_thread
  <2>1. /\ where = "drain" /\ where' = "thread" /\ kept' = cpu
        /\ UNCHANGED <<cpu, sp, sp_back, tasks, running, blocks, stuck, last>>
    BY Zenon, <1>7 DEF run_thread
  <2>2. ContextTypeInv'
    BY Zenon, <1>1, <1>2, <2>1 DEF ContextTypeInv
  <2>3. HostInv' /\ PhaseInv'
    BY Zenon, <1>1, <1>2, <2>1 DEF HostInv, PhaseInv
  <2>4. QED BY Zenon, <1>3, <1>4, <2>2, <2>3
<1>8. CASE CallReturns
  <2>1. /\ where = "drain" /\ where' = "idle"
        /\ UNCHANGED <<cpu, sp, sp_back, kept, tasks, running, blocks, stuck, last>>
    BY Zenon, <1>8 DEF CallReturns
  <2>2. ContextTypeInv'
    BY Zenon, <1>1, <1>2, <2>1 DEF ContextTypeInv
  <2>3. HostInv' /\ PhaseInv'
    BY Zenon, <1>1, <1>2, <2>1 DEF HostInv, PhaseInv
  <2>4. QED BY Zenon, <1>3, <1>4, <2>2, <2>3
<1>9. QED BY Zenon, <1>6, <1>7, <1>8

-----------------------------------------------------------------------------
(* The steps of the dispatcher *)

\* The first slice of a thread.
LEMMA DispatchStep ==
  ASSUME ContextsAssumption, ContextInv, NEW t \in Created, dispatch(t) PROVE ContextInv'
<1> USE DEF ContextInv
<1>0. t # NoTask /\ t \in TaskIds
  BY DEF ContextTypeInv, NoTask, TaskIds, ContextsAssumption
<1>1. /\ where \in {"run", "thread"} /\ running = NoTask /\ running' = t
      /\ tasks[t].status = "new"
      /\ UNCHANGED <<sp, sp_back, kept, where, stuck, last>>
  BY Zenon DEF dispatch
<1>2. tasks[t].kind = "thread" /\ tasks[t].block = NoBlock /\ tasks[t].tls = t /\ tasks[t] \in Records
  BY Zenon, <1>1 DEF TaskInv, ContextTypeInv
<1>3. PICK own \in {Given(t)} \cup {Block(b) : b \in Blocks \ blocks} :
        /\ cpu' = [tls |-> t, stack |-> own, mark |-> <<t, 0>>, at |-> "code"]
        /\ blocks' = blocks \cup (IF own = Given(t) THEN {} ELSE {own[2]})
        /\ tasks' = [tasks EXCEPT ![t].status = "running",
                                  ![t].block = IF own = Given(t) THEN NoBlock ELSE own[2]]
  BY Zenon DEF dispatch
<1>4. PICK b : \/ b = NoBlock /\ own = Given(t) /\ blocks' = blocks
               \/ b \in Blocks \ blocks /\ own = Block(b) /\ blocks' = blocks \cup {b}
  BY <1>3, StackNames DEF Block
<1> DEFINE k == [tasks[t] EXCEPT !.status = "running", !.block = b]
<1>5. tasks' = [tasks EXCEPT ![t] = k]
  <2>1. b = IF own = Given(t) THEN NoBlock ELSE own[2]
    <3>1. Given(t) # Block(b) /\ Block(b)[2] = b
      BY Zenon DEF Given, Block
    <3>2. QED BY Zenon, <1>4, <3>1
  <2>2. QED BY Zenon, <1>3, <2>1 DEF ContextTypeInv
<1>6. /\ k \in Records /\ k.kind = "thread" /\ k.status = "running" /\ k.block = b /\ k.tls = t
      /\ b = NoBlock <=> own = Given(t)
  BY Zenon, <1>2, <1>4, StackNames DEF Records, NoBlock, ContextsAssumption
<1> HIDE DEF k
<1>7. last[t] \in Registers /\ last' = [last EXCEPT ![t] = last[t]]
  BY Zenon, <1>1 DEF ContextTypeInv
<1>8. /\ Created' = Created /\ \E n \in 0 .. MaxTasks : Created' = 1 .. n
      /\ tasks' \in [Created' -> Records] /\ last' \in [Created' -> Registers]
      /\ \A u \in Created : u # t => tasks'[u] = tasks[u] /\ last'[u] = last[u]
      /\ tasks'[t] = k /\ Live' = Live \cup {t}
  BY Zenon, <1>5, <1>6, <1>7, UpdateFacts
<1>9. /\ cpu' \in Registers /\ cpu'.mark[1] = t /\ cpu'.mark[2] = 0 /\ cpu'.tls = t
      /\ cpu'.stack = own
  <2> DEFINE m == <<t, 0>>
  <2>1. m \in (TaskIds \cup {NoTask}) \X (0 .. MaxSlices) /\ m[1] = t /\ m[2] = 0
    BY <1>0 DEF ContextsAssumption
  <2>2. cpu' = [tls |-> t, stack |-> own, mark |-> m, at |-> "code"]
    BY Zenon, <1>3
  <2> HIDE DEF m
  <2>3. QED BY <1>0, <1>3, <2>1, <2>2 DEF Registers
<1>10. ContextTypeInv'
  <2>1. \A u \in Created' : tasks'[u].status = "running" <=> u = running'
    <3>1. \A u \in Created : u # NoTask /\ (tasks[u].status = "running" <=> u = running)
      BY Zenon, RunningTask
    <3>2. QED BY Zenon, <1>1, <1>6, <1>8, <3>1
  <2>2. cpu'.mark[2] < MaxSlices /\ blocks' \subseteq Blocks
    BY <1>4, <1>9 DEF ContextsAssumption, ContextTypeInv
  <2>3. QED BY Zenon, <1>1, <1>8, <1>9, <2>1, <2>2 DEF ContextTypeInv
<1>11. \A u \in Created' : TaskInv(u)'
  <2>1. ASSUME NEW u \in Created, u # t PROVE TaskInv(u)'
    <3>1. u # running /\ u # running'
      BY <1>1, <2>1 DEF ContextTypeInv, NoTask
    <3>2. QED BY Zenon, <1>1, <1>8, <2>1, <3>1, ParkedRegs, TaskInvKept
  <2>2. TaskInv(t)'
    <3>1. RegsOf(t)' = cpu'
      BY Zenon, <1>1 DEF RegsOf
    <3>2. OwnRegs(t)'
      BY Zenon, <1>4, <1>6, <1>8, <1>9, <3>1 DEF OwnRegs, OwnStack
    <3>3. QED BY Zenon, <1>6, <1>8, <3>2 DEF TaskInv
  <2>3. QED BY Zenon, <1>8, <2>1, <2>2
<1>12. BlockInv'
  <2>1. b # NoBlock <=> own # Given(t)
    BY Zenon, <1>6
  <2>2. QED BY <1>2, <1>4, <1>6, <1>8, <2>1, BlockGiven, StackNames DEF Live
<1>13. HostInv'
  <2>1. t \in Live
    BY Zenon, <1>1 DEF Live
  <2>2. \A u \in Live' : u \in Live /\ tasks'[u].kind = tasks[u].kind
    BY Zenon, <1>2, <1>6, <1>8, <2>1 DEF Live
  <2>3. QED BY Zenon, <1>1, <2>2 DEF HostInv
<1>14. PhaseInv'
  BY Zenon, <1>1 DEF PhaseInv
<1>15. QED BY Zenon, <1>10, <1>11, <1>12, <1>13, <1>14

\* A later slice: the registers are the ones that were saved.
LEMMA ResumeStep ==
  ASSUME ContextsAssumption, ContextInv, NEW t \in Created, Resume(t) PROVE ContextInv'
<1> USE DEF ContextInv
<1>0. t # NoTask
  BY DEF ContextTypeInv, NoTask
<1>1. /\ where \in {"run", "thread"} /\ running = NoTask /\ running' = t
      /\ tasks[t].status = "saved" /\ tasks[t].snap.mark[2] < MaxSlices
      /\ UNCHANGED <<sp, sp_back, kept, where, blocks, stuck, last>>
      /\ cpu' = continue_run(tasks[t])
  BY Zenon DEF Resume
<1>2. tasks[t] \in Records /\ OwnRegs(t) /\ RegsOf(t) = tasks[t].snap
  BY Zenon, <1>0, <1>1 DEF TaskInv, ContextTypeInv, RegsOf
<1> DEFINE k == [tasks[t] EXCEPT !.status = "running", !.skip = FALSE, !.waiting = FALSE]
<1>3. tasks' = [tasks EXCEPT ![t] = k]
  BY Zenon DEF Resume, ContextTypeInv
<1>4. /\ k \in Records /\ k.status = "running" /\ k.kind = tasks[t].kind
      /\ k.block = tasks[t].block /\ k.tls = tasks[t].tls
  BY Zenon, <1>2 DEF Records
<1> HIDE DEF k
<1>5. last[t] \in Registers /\ last' = [last EXCEPT ![t] = last[t]]
  BY Zenon, <1>1 DEF ContextTypeInv
<1>6. /\ Created' = Created /\ \E n \in 0 .. MaxTasks : Created' = 1 .. n
      /\ tasks' \in [Created' -> Records] /\ last' \in [Created' -> Registers]
      /\ \A u \in Created : u # t => tasks'[u] = tasks[u] /\ last'[u] = last[u]
      /\ tasks'[t] = k /\ Live' = Live \cup {t}
  BY Zenon, <1>3, <1>4, <1>5, UpdateFacts
<1>7. t \in Live /\ Live' = Live
  BY Zenon, <1>1, <1>6 DEF Live
<1>8. /\ cpu' \in Registers /\ cpu'.mark = tasks[t].snap.mark
      /\ cpu'.tls = tasks[t].snap.tls /\ cpu'.stack = tasks[t].snap.stack
  <2>1. tasks[t].snap \in Registers
    BY Zenon, <1>2 DEF Records
  <2>2. QED BY Zenon, <1>1, <2>1 DEF continue_run, Registers
<1>9. ContextTypeInv'
  <2>1. \A u \in Created' : tasks'[u].status = "running" <=> u = running'
    <3>1. \A u \in Created : u # NoTask /\ (tasks[u].status = "running" <=> u = running)
      BY Zenon, RunningTask
    <3>2. QED BY Zenon, <1>1, <1>4, <1>6, <3>1
  <2>2. QED BY Zenon, <1>1, <1>6, <1>8, <2>1 DEF ContextTypeInv
<1>10. \A u \in Created' : TaskInv(u)'
  <2>1. ASSUME NEW u \in Created, u # t PROVE TaskInv(u)'
    <3>1. u # running /\ u # running'
      BY <1>1, <2>1 DEF ContextTypeInv, NoTask
    <3>2. QED BY Zenon, <1>1, <1>6, <2>1, <3>1, ParkedRegs, TaskInvKept
  <2>2. TaskInv(t)'
    <3>1. RegsOf(t)' = cpu'
      BY Zenon, <1>1 DEF RegsOf
    <3>2. OwnRegs(t)'
      BY Zenon, <1>1, <1>2, <1>4, <1>6, <1>8, <3>1 DEF OwnRegs, OwnStack
    <3>3. QED BY Zenon, <1>1, <1>4, <1>6, <3>2 DEF TaskInv
  <2>3. QED BY Zenon, <1>6, <2>1, <2>2
<1>11. \A u \in Live : tasks'[u].block = tasks[u].block /\ tasks'[u].kind = tasks[u].kind
  BY Zenon, <1>4, <1>6 DEF Live
<1>12. BlockInv'
  BY Zenon, <1>1, <1>7, <1>11, BlockKept
<1>13. HostInv'
  BY SMTT(30), <1>1, <1>7, <1>11 DEF HostInv
<1>14. PhaseInv'
  BY Zenon, <1>1 DEF PhaseInv
<1>15. QED BY Zenon, <1>9, <1>10, <1>12, <1>13, <1>14

-----------------------------------------------------------------------------
(* The steps of a slice *)

\* A new task f that is not running, when the CPU stays where it is.
LEMMA SpawnStep ==
  ASSUME ContextsAssumption, ContextInv, running # NoTask, Fresh <= MaxTasks,
         NEW f, f = Fresh, NEW k \in Records, NEW l \in Registers,
         tasks' = [t \in Created \cup {Fresh} |-> IF t = Fresh THEN k ELSE tasks[t]],
         last' = [t \in Created \cup {Fresh} |-> IF t = Fresh THEN l ELSE last[t]],
         UNCHANGED <<cpu, sp, sp_back, kept, running, where, stuck>>,
         k.status \in {"new", "saved"}, k.kind # "host", TaskInv(f)',
         \/ k.block = NoBlock /\ blocks' = blocks
         \/ k.block # NoBlock /\ k.block \notin blocks /\ blocks' = blocks \cup {k.block}
  PROVE  ContextInv'
<1> USE DEF ContextInv
<1>1. /\ f \in TaskIds /\ f \notin Created /\ f # NoTask
      /\ Created' = Created \cup {f} /\ \E n \in 0 .. MaxTasks : Created' = 1 .. n
      /\ tasks' \in [Created' -> Records] /\ last' \in [Created' -> Registers]
      /\ \A t \in Created : tasks'[t] = tasks[t] /\ last'[t] = last[t]
      /\ tasks'[f] = k
      /\ Live' = Live \cup {f}
  BY CreateFacts
<1>2. running \in Created /\ f # running
  BY Zenon, <1>1 DEF ContextTypeInv
<1>3. ContextTypeInv'
  <2>1. \A t \in Created' : tasks'[t].status = "running" <=> t = running'
    BY Zenon, <1>1, <1>2 DEF ContextTypeInv
  <2>2. blocks' \subseteq Blocks
    BY Zenon DEF ContextTypeInv, Records
  <2>3. QED BY Zenon, <1>1, <1>2, <2>1, <2>2 DEF ContextTypeInv
<1>4. \A t \in Created' : TaskInv(t)'
  <2>1. ASSUME NEW t \in Created PROVE TaskInv(t)'
    <3>1. RegsOf(t)' = RegsOf(t)
      BY Zenon, <1>1 DEF RegsOf
    <3>2. QED BY Zenon, <1>1, <3>1, TaskInvKept
  <2>2. QED BY Zenon, <1>1, <2>1
<1>5. BlockInv'
  BY Zenon, <1>1, BlockGiven DEF Live
<1>6. HostInv'
  <2>1. \A t \in Live' : tasks'[t].kind = "host" => t \in Live /\ tasks[t].kind = "host"
    BY Zenon, <1>1 DEF Live
  <2>2. QED BY Zenon, <2>1 DEF HostInv
<1>7. PhaseInv'
  BY Zenon DEF PhaseInv
<1>8. QED BY Zenon, <1>3, <1>4, <1>5, <1>6, <1>7

\* clone: the new thread has no registers yet.
LEMMA CloneStep ==
  ASSUME ContextsAssumption, ContextInv, clone PROVE ContextInv'
<1> USE DEF ContextInv
<1>0. PICK f : f = Fresh
  BY Zenon
<1>1. /\ running # NoTask /\ Fresh <= MaxTasks
      /\ UNCHANGED <<cpu, sp, sp_back, kept, running, where, stuck, blocks>>
  BY Zenon DEF clone
<1>2. f \in TaskIds /\ f \notin Created
  BY Zenon, <1>0, <1>1, FreshFacts
<1> DEFINE k == Task("thread", "new", f)
<1>3. /\ tasks' = [t \in Created \cup {Fresh} |-> IF t = Fresh THEN k ELSE tasks[t]]
      /\ last' = [t \in Created \cup {Fresh} |-> IF t = Fresh THEN NoContext ELSE last[t]]
  BY Zenon, <1>0 DEF clone
<1>4. /\ k \in Records /\ NoContext \in Registers
      /\ k.kind = "thread" /\ k.status = "new" /\ k.tls = f /\ k.block = NoBlock
  <2>1. k \in Records /\ NoContext \in Registers
    BY Zenon, <1>2, StartTypes
  <2>2. QED BY Zenon, <2>1 DEF Task
<1> HIDE DEF k
<1>5. tasks'[f] = k
  BY Zenon, <1>0, <1>3
<1>6. TaskInv(f)'
  BY Zenon, <1>4, <1>5 DEF TaskInv
<1>7. QED BY Zenon, <1>0, <1>1, <1>3, <1>4, <1>6, SpawnStep

\* fork: the child has the caller's registers, on a stack block of its own.
LEMMA ForkStep ==
  ASSUME ContextsAssumption, ContextInv, fork PROVE ContextInv'
<1> USE DEF ContextInv
<1>0. PICK f : f = Fresh
  BY Zenon
<1>1. /\ running # NoTask /\ Fresh <= MaxTasks
      /\ UNCHANGED <<cpu, sp, sp_back, kept, running, where, stuck>>
  BY Zenon DEF fork
<1>2. f \in TaskIds /\ f \notin Created
  BY Zenon, <1>0, <1>1, FreshFacts
<1>3. PICK b \in Blocks \ blocks :
        LET child == [plant_snap(Task("fork", "saved", tasks[running].tls), ForkRegisters(Fresh, b))
                         EXCEPT !.block = b]
        IN /\ tasks' = [t \in Created \cup {Fresh} |-> IF t = Fresh THEN child ELSE tasks[t]]
           /\ last' = [t \in Created \cup {Fresh} |->
                         IF t = Fresh THEN ForkRegisters(Fresh, b) ELSE last[t]]
           /\ blocks' = blocks \cup {b}
  BY Zenon DEF fork
<1> DEFINE r == ForkRegisters(f, b)
           i == tasks[running].tls
           k == [plant_snap(Task("fork", "saved", i), r) EXCEPT !.block = b]
<1>4. /\ tasks' = [t \in Created \cup {Fresh} |-> IF t = Fresh THEN k ELSE tasks[t]]
      /\ last' = [t \in Created \cup {Fresh} |-> IF t = Fresh THEN r ELSE last[t]]
      /\ blocks' = blocks \cup {b}
  BY Zenon, <1>0, <1>3
<1>5. running \in Created /\ tasks[running].status = "running" /\ i \in {MainTls} \cup TaskIds
  BY Zenon, <1>1 DEF ContextTypeInv, Records
<1>6. ~ stuck => cpu.tls = i
  <2>1. OwnRegs(running) /\ RegsOf(running) = cpu
    BY Zenon, <1>5 DEF TaskInv, RegsOf
  <2>2. QED BY Zenon, <2>1 DEF OwnRegs
<1>7. /\ r \in Registers /\ r.tls = cpu.tls /\ r.stack = Block(b)
      /\ r.mark[1] = f /\ r.mark[2] = 0
  <2> DEFINE m == <<f, 0>>
  <2>1. m \in (TaskIds \cup {NoTask}) \X (0 .. MaxSlices) /\ m[1] = f /\ m[2] = 0
    BY <1>2 DEF ContextsAssumption
  <2>2. r = [cpu EXCEPT !.mark = m, !.at = "svc", !.stack = Block(b)]
    BY Zenon DEF ForkRegisters
  <2> HIDE DEF m, r
  <2>3. QED BY Zenon, <2>1, <2>2 DEF ContextTypeInv, Registers
<1> HIDE DEF r, i
<1>8. /\ k \in Records /\ k.kind = "fork" /\ k.status = "saved" /\ k.tls = i /\ k.block = b
      /\ k.snap = r /\ k.skip = FALSE
  <2>1. Task("fork", "saved", i) \in Records
    BY Zenon, <1>5, StartTypes
  <2>2. QED BY Zenon, <1>7, <2>1 DEF plant_snap, Task, Records
<1> HIDE DEF k
<1>9. tasks'[f] = k /\ last'[f] = r
  BY Zenon, <1>0, <1>4
<1>10. TaskInv(f)'
  <2>1. f # running'
    BY Zenon, <1>1, <1>2, <1>5
  <2>2. RegsOf(f)' = r
    BY Zenon, <1>8, <1>9, <2>1 DEF RegsOf
  <2>3. b # NoBlock
    BY Zenon, <1>3 DEF ContextsAssumption, NoBlock
  <2>4. OwnRegs(f)'
    BY Zenon, <1>1, <1>6, <1>7, <1>8, <1>9, <2>2, <2>3 DEF OwnRegs, OwnStack
  <2>5. SavedExact(f)'
    BY Zenon, <1>7, <1>8, <1>9 DEF SavedExact
  <2>6. QED BY Zenon, <1>8, <1>9, <2>4, <2>5 DEF TaskInv
<1>11. k.block # NoBlock /\ k.block \notin blocks /\ blocks' = blocks \cup {k.block}
  BY Zenon, <1>3, <1>4, <1>8 DEF ContextsAssumption, NoBlock
<1>12. QED BY Zenon, <1>0, <1>1, <1>4, <1>7, <1>8, <1>10, <1>11, SpawnStep

\* The slice ends without a result: the registers are saved.
LEMMA ParkStep ==
  ASSUME ContextsAssumption, ContextInv, Park PROVE ContextInv'
<1> USE DEF ContextInv
<1>0. PICK t : t = running
  BY Zenon
<1>1. /\ running # NoTask /\ running' = NoTask
      /\ last' = [last EXCEPT ![t] = cpu']
      /\ UNCHANGED <<sp, sp_back, kept, where, blocks, stuck>>
  BY Zenon, <1>0 DEF Park
<1>2. PICK at \in {"svc", "code"}, w \in BOOLEAN :
        /\ cpu' = Advanced(at)
        /\ tasks' = [tasks EXCEPT ![running] = [save_context(@, cpu') EXCEPT !.waiting = w]]
  BY Zenon DEF Park
<1>3. /\ t \in Created /\ t # NoTask /\ tasks[t].status = "running" /\ tasks[t] \in Records
      /\ where \in {"run", "thread"} /\ cpu \in Registers /\ cpu.mark[2] < MaxSlices
  BY Zenon, <1>0, <1>1 DEF ContextTypeInv, NoTask
<1>4. OwnRegs(t) /\ RegsOf(t) = cpu
  BY Zenon, <1>0, <1>3 DEF TaskInv, RegsOf
<1>5. /\ cpu' \in Registers /\ cpu'.tls = cpu.tls /\ cpu'.stack = cpu.stack
      /\ cpu'.mark[1] = cpu.mark[1] /\ cpu'.mark[2] = cpu.mark[2] + 1
  BY Zenon, <1>2, <1>3, AdvancedFacts
<1>6. PICK r \in Registers : r = cpu'
  BY Zenon, <1>5
<1> DEFINE k == [save_context(tasks[t], r) EXCEPT !.waiting = w]
<1>7. tasks' = [tasks EXCEPT ![t] = k]
  BY Zenon, <1>0, <1>2, <1>3, <1>6 DEF ContextTypeInv
<1>8. /\ k \in Records /\ k.status = "saved" /\ k.kind = tasks[t].kind
      /\ k.block = tasks[t].block /\ k.tls = tasks[t].tls /\ k.snap = r /\ k.skip = TRUE
  BY Zenon, <1>3, <1>6 DEF save_context, Records
<1> HIDE DEF k
<1>9. /\ Created' = Created /\ \E n \in 0 .. MaxTasks : Created' = 1 .. n
      /\ tasks' \in [Created' -> Records] /\ last' \in [Created' -> Registers]
      /\ \A u \in Created : u # t => tasks'[u] = tasks[u] /\ last'[u] = last[u]
      /\ tasks'[t] = k /\ last'[t] = r /\ Live' = Live \cup {t}
  BY Zenon, <1>1, <1>3, <1>6, <1>7, <1>8, UpdateFacts
<1>10. t \in Live /\ Live' = Live
  BY Zenon, <1>3, <1>9 DEF Live
<1>11. ContextTypeInv'
  <2>1. \A u \in Created' : tasks'[u].status = "running" <=> u = running'
    <3>1. \A u \in Created : u # NoTask /\ (tasks[u].status = "running" <=> u = running)
      BY Zenon, RunningTask
    <3>2. QED BY <1>0, <1>1, <1>8, <1>9, <3>1
  <2>2. QED BY Zenon, <1>1, <1>5, <1>9, <2>1 DEF ContextTypeInv
<1>12. \A u \in Created' : TaskInv(u)'
  <2>1. ASSUME NEW u \in Created, u # t PROVE TaskInv(u)'
    <3>1. u # running /\ u # running'
      BY <1>0, <1>1, <2>1 DEF ContextTypeInv, NoTask
    <3>2. QED BY Zenon, <1>1, <1>9, <2>1, <3>1, ParkedRegs, TaskInvKept
  <2>2. TaskInv(t)'
    <3>1. RegsOf(t)' = r
      BY Zenon, <1>1, <1>3, <1>8, <1>9 DEF RegsOf
    <3>2. OwnRegs(t)'
      <4>1. /\ tasks'[t].kind = tasks[t].kind /\ tasks'[t].block = tasks[t].block
            /\ tasks'[t].tls = tasks[t].tls
        BY Zenon, <1>8, <1>9
      <4>2. /\ RegsOf(t)'.tls = RegsOf(t).tls /\ RegsOf(t)'.stack = RegsOf(t).stack
            /\ RegsOf(t)'.mark[1] = RegsOf(t).mark[1]
        BY Zenon, <1>4, <1>5, <1>6, <3>1
      <4>3. QED BY Zenon, <1>1, <1>4, <4>1, <4>2 DEF OwnRegs, OwnStack
    <3>3. r.mark[2] # 0
      <4>1. cpu.mark[2] \in Nat
        BY <1>3 DEF Registers, ContextsAssumption
      <4>2. QED BY SMTT(30), <1>5, <1>6, <4>1
    <3>4. SavedExact(t)'
      BY Zenon, <1>8, <1>9, <3>3 DEF SavedExact
    <3>5. QED BY Zenon, <1>3, <1>8, <1>9, <3>2, <3>4 DEF TaskInv
  <2>3. QED BY Zenon, <1>9, <2>1, <2>2
<1>13. \A u \in Live : tasks'[u].block = tasks[u].block /\ tasks'[u].kind = tasks[u].kind
  BY Zenon, <1>8, <1>9 DEF Live
<1>14. BlockInv'
  BY Zenon, <1>1, <1>10, <1>13, BlockKept
<1>15. HostInv'
  BY <1>1, <1>10, <1>13 DEF HostInv
<1>16. PhaseInv'
  BY Zenon, <1>1, <1>3 DEF PhaseInv
<1>17. QED BY Zenon, <1>11, <1>12, <1>14, <1>15, <1>16

\* The slice ends with a result: the task is gone and its block is free.  The
\* result of a host call ends the run.
LEMMA FinishStep ==
  ASSUME ContextsAssumption, ContextInv, Finish PROVE ContextInv'
<1> USE DEF ContextInv
<1>0. PICK t : t = running
  BY Zenon
<1> DEFINE k == Gone(tasks[t])
<1>1. /\ running # NoTask /\ running' = NoTask
      /\ tasks' = [tasks EXCEPT ![t] = k] /\ last' = [last EXCEPT ![t] = NoContext]
      /\ blocks' = destroy(tasks[t])
      /\ UNCHANGED <<sp_back, stuck>>
  BY Zenon, <1>0 DEF Finish, Returns, ContextTypeInv
<1>2. /\ t \in Created /\ t # NoTask /\ tasks[t].status = "running" /\ tasks[t] \in Records
      /\ where \in {"run", "thread"} /\ cpu \in Registers /\ cpu.mark[2] < MaxSlices
  BY Zenon, <1>0, <1>1 DEF ContextTypeInv, NoTask
<1>3. /\ OwnRegs(t) /\ RegsOf(t) = cpu
      /\ tasks[t].kind = "host" => tasks[t].tls = MainTls /\ tasks[t].block = NoBlock
  BY Zenon, <1>0, <1>2 DEF TaskInv, RegsOf, OwnRegs, OwnStack
<1> DEFINE a == Advanced("svc")
<1>4. a \in Registers /\ a.tls = cpu.tls
  BY Zenon, <1>2, AdvancedFacts
<1>5. \/ /\ tasks[t].kind = "host" /\ where' = "drain" /\ kept' = NoContext
         /\ sp' = IF where = "run" THEN sp_back ELSE sp
         /\ cpu' = IF where = "run" THEN set_stack_point(a, sp_back) ELSE kept
      \/ tasks[t].kind # "host" /\ cpu' = a /\ UNCHANGED <<sp, kept, where>>
  BY Zenon, <1>0 DEF Finish, Returns
<1> HIDE DEF a
<1>6. k \in Records /\ k.status = "dead" /\ k.block = NoBlock /\ NoContext \in Registers
  <2>1. k = Task(tasks[t].kind, "dead", MainTls) /\ tasks[t].kind \in {"host", "thread", "fork"}
    BY Zenon, <1>2 DEF Gone, Records
  <2>2. Task(tasks[t].kind, "dead", MainTls) \in Records /\ NoContext \in Registers
    BY Zenon, <2>1, StartTypes
  <2>3. /\ Task(tasks[t].kind, "dead", MainTls).status = "dead"
        /\ Task(tasks[t].kind, "dead", MainTls).block = NoBlock
    BY Zenon DEF Task
  <2>4. QED BY Zenon, <2>1, <2>2, <2>3
<1> HIDE DEF k
<1>7. /\ Created' = Created /\ \E n \in 0 .. MaxTasks : Created' = 1 .. n
      /\ tasks' \in [Created' -> Records] /\ last' \in [Created' -> Registers]
      /\ \A u \in Created : u # t => tasks'[u] = tasks[u] /\ last'[u] = last[u]
      /\ tasks'[t] = k /\ Live' = Live \ {t}
  BY Zenon, <1>1, <1>2, <1>6, UpdateFacts
<1>8. t \in Live
  BY Zenon, <1>2 DEF Live
<1>9. cpu' \in Registers /\ kept' \in Registers /\ sp' \in {Top, Top - 1}
  <2>1. kept \in Registers /\ sp_back \in {Top, Top - 1} /\ sp \in {Top, Top - 1}
    BY Zenon DEF ContextTypeInv
  <2>2. set_stack_point(a, sp_back) \in Registers
    BY Zenon, <1>4, <2>1 DEF set_stack_point, Registers
  <2>3. QED BY Zenon, <1>4, <1>5, <1>6, <2>1, <2>2
<1>10. ContextTypeInv'
  <2>1. \A u \in Created' : tasks'[u].status = "running" <=> u = running'
    <3>1. \A u \in Created : u # NoTask /\ (tasks[u].status = "running" <=> u = running)
      BY Zenon, RunningTask
    <3>2. QED BY Zenon, <1>0, <1>1, <1>6, <1>7, <3>1
  <2>2. blocks' \subseteq Blocks /\ where' \in {"idle", "run", "thread", "drain"}
    BY Zenon, <1>1, <1>2, <1>5 DEF destroy, ContextTypeInv
  <2>3. QED BY Zenon, <1>1, <1>7, <1>9, <2>1, <2>2 DEF ContextTypeInv
<1>11. \A u \in Created' : TaskInv(u)'
  <2>1. ASSUME NEW u \in Created, u # t PROVE TaskInv(u)'
    <3>1. u # running /\ u # running'
      BY <1>0, <1>1, <2>1 DEF ContextTypeInv, NoTask
    <3>2. QED BY Zenon, <1>1, <1>7, <2>1, <3>1, ParkedRegs, TaskInvKept
  <2>2. TaskInv(t)'
    BY Zenon, <1>6, <1>7 DEF TaskInv
  <2>3. QED BY Zenon, <1>7, <2>1, <2>2
<1>12. BlockInv'
  <2>1. \A u \in Live : u # t => tasks'[u].block = tasks[u].block
    BY Zenon, <1>7 DEF Live
  <2>2. \A u, v \in Live' : tasks'[u].block = tasks'[v].block /\ tasks'[u].block # NoBlock => u = v
    BY <1>7, <2>1 DEF BlockInv
  <2>3. blocks' = blocks \ {tasks[t].block}
    <3>1. NoBlock \notin blocks
      BY Zenon DEF BlockInv
    <3>2. QED BY Zenon, <1>1, <3>1 DEF destroy, Freed
  <2>4. \A c : c \in blocks' => c \in {tasks'[u].block : u \in Live'} \ {NoBlock}
    <3> SUFFICES ASSUME NEW c \in blocks' PROVE c \in {tasks'[u].block : u \in Live'} \ {NoBlock}
      BY Zenon
    <3>1. PICK u \in Live : c = tasks[u].block /\ c # NoBlock
      BY Zenon, <2>3 DEF BlockInv
    <3>2. u # t
      BY Zenon, <2>3, <3>1
    <3>3. QED BY Zenon, <1>7, <2>1, <3>1, <3>2
  <2>5. \A c : c \in {tasks'[u].block : u \in Live'} \ {NoBlock} => c \in blocks'
    <3> SUFFICES ASSUME NEW u \in Live', tasks'[u].block # NoBlock PROVE tasks'[u].block \in blocks'
      BY Zenon
    <3>1. u \in Live /\ u # t /\ tasks'[u].block = tasks[u].block
      BY Zenon, <1>7, <2>1
    <3>2. tasks[u].block \in blocks /\ tasks[u].block # tasks[t].block
      BY Zenon, <1>8, <3>1 DEF BlockInv
    <3>3. QED BY Zenon, <2>3, <3>1, <3>2
  <2>6. QED BY Zenon, <2>2, <2>4, <2>5 DEF BlockInv
<1>13. HostInv'
  <2>1. \A u \in Live' : u \in Live /\ u # t /\ tasks'[u].kind = tasks[u].kind
    BY Zenon, <1>7 DEF Live
  <2>2. QED BY Zenon, <1>1, <1>5, <1>8, <2>1 DEF HostInv
<1>14. PhaseInv'
  <2>1. CASE tasks[t].kind # "host"
    BY Zenon, <1>1, <1>2, <1>5, <2>1 DEF PhaseInv
  <2>2. CASE tasks[t].kind = "host"
    <3>1. ~ stuck => a.tls = MainTls
      BY Zenon, <1>3, <1>4, <2>2 DEF OwnRegs
    <3>2. sp_back = Top
      BY Zenon DEF PhaseInv
    <3>3. cpu'.stack = Host(Top) /\ (~ stuck => cpu'.tls = MainTls)
      BY Zenon, <1>2, <1>4, <1>5, <2>2, <3>1, <3>2 DEF PhaseInv, set_stack_point, Registers
    <3>4. sp' = Top /\ where' = "drain"
      BY Zenon, <1>2, <1>5, <2>2, <3>2 DEF PhaseInv
    <3>5. QED BY Zenon, <1>1, <3>2, <3>3, <3>4 DEF PhaseInv
  <2>3. QED BY Zenon, <2>1, <2>2
<1>15. QED BY Zenon, <1>10, <1>11, <1>12, <1>13, <1>14

-----------------------------------------------------------------------------
(* The theorems *)

\* Every step keeps the inductive invariant.
LEMMA ContextStep ==
  ASSUME ContextsAssumption, ContextInv, [ContextsNext]_contextVars PROVE ContextInv'
<1>1. CASE UNCHANGED contextVars
  <2>1. Created' = Created /\ Live' = Live
    BY Zenon, <1>1 DEF contextVars, Created, Live
  <2>2. \A t \in Created : TaskInv(t)'
    BY ZenonT(30), <1>1 DEF contextVars, ContextInv, TaskInv, OwnRegs, OwnStack, SavedExact, RegsOf
  <2>3. ContextTypeInv' /\ BlockInv' /\ HostInv' /\ PhaseInv'
    BY Zenon, <1>1, <2>1 DEF contextVars, ContextInv, ContextTypeInv, BlockInv, HostInv, PhaseInv
  <2>4. QED BY Zenon, <2>1, <2>2, <2>3 DEF ContextInv
<1>2. QED BY Zenon, <1>1, CallStep, IdleSteps, DispatchStep, ResumeStep, CloneStep, ForkStep, ParkStep,
             FinishStep DEF ContextsNext

\* The invariant holds before the first host call.
LEMMA ContextInits ==
  ASSUME ContextsAssumption, ContextsInit PROVE ContextInv
<1>1. NoContext \in Registers /\ NoContext.stack = Host(Top) /\ NoContext.tls = MainTls
  BY Zenon, StartTypes DEF NoContext
<1>2. Created = {} /\ Live = {} /\ DOMAIN last = {}
  BY DEF ContextsInit, Created, Live
<1>3. ContextTypeInv
  <2>1. 0 \in 0 .. MaxTasks /\ Created = 1 .. 0
    BY <1>2 DEF ContextsAssumption
  <2>2. tasks \in [Created -> Records] /\ last \in [Created -> Registers]
    BY <1>2 DEF ContextsInit
  <2>3. QED BY Zenon, <1>1, <1>2, <2>1, <2>2 DEF ContextsInit, ContextTypeInv
<1>4. QED BY Zenon, <1>1, <1>2, <1>3 DEF ContextsInit, ContextInv, BlockInv, HostInv, PhaseInv

\* The inductive invariant holds in every reachable state.
THEOREM ContextsInvariance == ContextsSpec => []ContextInv
<1>1. ContextsInit => ContextInv
  BY Zenon, ContextsHold, ContextInits
<1>2. ContextInv /\ [ContextsNext]_contextVars => ContextInv'
  BY Zenon, ContextsHold, ContextStep
<1>3. QED BY <1>1, <1>2, PTL DEF ContextsSpec

\* Registers, stacks, tasks and histories have their types.
LEMMA ContextTypes ==
  ASSUME ContextsAssumption, ContextInv PROVE ContextsTypeOK
<1>1. Created \subseteq TaskIds
  BY DEF ContextInv, ContextTypeInv, TaskIds, ContextsAssumption
<1>2. \A t \in Created : /\ tasks[t].snap \in Registers /\ last[t] \in Registers
                         /\ tasks[t].block \in Blocks \cup {NoBlock}
  <2>1. \A t \in Created : tasks[t] \in Records /\ last[t] \in Registers
    BY Zenon DEF ContextInv, ContextTypeInv
  <2>2. QED BY Zenon, <2>1 DEF Records
<1>3. QED BY Zenon, <1>1, <1>2 DEF ContextInv, ContextTypeInv, ContextsTypeOK

\* Two started tasks are on different stacks: blocks and given stacks have one
\* owner, and there is one host call.
LEMMA ContextStacks ==
  ASSUME ContextInv PROVE StacksDisjoint
<1>1. ASSUME ~ stuck, NEW t \in Live, NEW u \in Live, t # u,
             tasks[t].status # "new", tasks[u].status # "new"
      PROVE  StackOf(t) # StackOf(u)
  <2>1. \A x \in {t, u} : OwnStack(x) /\ StackOf(x) = RegsOf(x).stack
    <3> SUFFICES ASSUME NEW x \in {t, u} PROVE OwnStack(x) /\ StackOf(x) = RegsOf(x).stack
      BY Zenon
    <3>1. x \in Created /\ tasks[x] \in Records /\ tasks[x].status \notin {"new", "dead"}
      BY Zenon, <1>1 DEF Live, ContextInv, ContextTypeInv
    <3>2. tasks[x].status \in {"saved", "running"}
      BY Zenon, <3>1 DEF Records
    <3>3. QED BY Zenon, <3>1, <3>2 DEF ContextInv, TaskInv, OwnRegs, StackOf, RegsOf
  <2>2. \A x \in {t, u} : tasks[x].kind \in {"host", "thread", "fork"}
    BY Zenon, <1>1 DEF Live, ContextInv, ContextTypeInv, Records
  <2>3. ~ (tasks[t].kind = "host" /\ tasks[u].kind = "host")
    BY Zenon, <1>1 DEF ContextInv, HostInv
  <2>4. tasks[t].block # NoBlock => tasks[t].block # tasks[u].block
    BY Zenon, <1>1 DEF ContextInv, BlockInv
  <2>5. \A x \in {t, u} :
           \/ tasks[x].kind = "host" /\ StackOf(x) \in {Host(Top), Host(Top - 1)}
           \/ tasks[x].block = NoBlock /\ StackOf(x) = Given(x)
           \/ tasks[x].block # NoBlock /\ StackOf(x) = Block(tasks[x].block)
    BY Zenon, <2>1, <2>2 DEF OwnStack
  <2>6. QED BY Zenon, <1>1, <2>3, <2>4, <2>5, StackNames
<1>2. QED BY Zenon, <1>1 DEF StacksDisjoint, ContextInv, BlockInv

\* A resumed slice has the registers the task's last slice ended with.
LEMMA ContextResumes ==
  ASSUME ContextInv, NEW t \in Created, Resume(t)
  PROVE  /\ [cpu' EXCEPT !.at = last[t].at] = last[t]
         /\ last[t].at = "svc" =>
               (cpu'.at = "svc" <=> tasks[t].kind = "fork" /\ last[t].mark[2] = 0)
<1>1. tasks[t].status = "saved" /\ cpu' = continue_run(tasks[t])
  BY Zenon DEF Resume
<1>2. SavedExact(t) /\ tasks[t] \in Records /\ last[t] \in Registers
  BY Zenon, <1>1 DEF ContextInv, TaskInv, ContextTypeInv
<1>3. tasks[t].snap = last[t] /\ tasks[t].skip \in BOOLEAN
      /\ (tasks[t].skip <=> ~(tasks[t].kind = "fork" /\ last[t].mark[2] = 0))
  BY Zenon, <1>2 DEF SavedExact, Records
<1> DEFINE l == last[t]
           at == IF tasks[t].skip /\ l.at = "svc" THEN "lr" ELSE l.at
<1>4. cpu' = [l EXCEPT !.at = at]
  BY Zenon, <1>1, <1>3 DEF continue_run
<1>5. l = [tls |-> l.tls, stack |-> l.stack, mark |-> l.mark, at |-> l.at]
  BY Zenon, <1>2 DEF Registers
<1>6. cpu' = [tls |-> l.tls, stack |-> l.stack, mark |-> l.mark, at |-> at]
  BY Zenon, <1>4, <1>5
<1>7. [cpu' EXCEPT !.at = l.at] = l
  BY <1>5, <1>6
<1>8. cpu'.at = at
  BY Zenon, <1>6
<1>9. QED BY Zenon, <1>3, <1>7, <1>8

\* A slice runs on the running task's own registers and thread pointer,
\* whatever tasks, host calls and nested dispatcher runs went before
\* (continue_run, Function64::run, MarshmallowThread::dispatch).
THEOREM SlicesOwnRegisters == ContextsSpec => []OwnRegisters
<1>1. ContextInv => OwnRegisters
  <2>1. ASSUME ContextInv, running # NoTask PROVE OwnRegs(running) /\ RegsOf(running) = cpu
    BY Zenon, <2>1 DEF ContextInv, ContextTypeInv, TaskInv, RegsOf
  <2>2. ContextInv => ContextsTypeOK
    BY Zenon, ContextsHold, ContextTypes
  <2>3. QED BY Zenon, <2>1, <2>2 DEF OwnRegisters, OwnRegs
<1>2. QED BY <1>1, ContextsInvariance, PTL

\* Two started tasks never have their stack pointers in the same stack, and a
\* stack block is allocated exactly as long as its task lives (allocate_stack,
\* set_stack_block, destroy).
THEOREM StacksNeverShared == ContextsSpec => []StacksDisjoint
BY ContextsInvariance, ContextStacks, PTL

\* Between host calls the stack pointer and the thread pointer are the host's
\* (run_main_for_result, run_thread).
THEOREM HostAlwaysRestored == ContextsSpec => []HostRestored
<1>1. ContextInv => HostRestored
  BY Zenon DEF ContextInv, PhaseInv, HostRestored
<1>2. QED BY <1>1, ContextsInvariance, PTL

\* A slice continues with the registers the task's previous slice ended with,
\* and behind the right instruction (continue_run, skip_svc_epilogue).
THEOREM ResumesExactly == ContextsSpec => ResumeExact
<1> DEFINE Exact == \A t \in Created : Resume(t) =>
                      /\ [cpu' EXCEPT !.at = last[t].at] = last[t]
                      /\ last[t].at = "svc" =>
                            (cpu'.at = "svc" <=> tasks[t].kind = "fork" /\ last[t].mark[2] = 0)
<1>1. ContextInv /\ [ContextsNext]_contextVars => [Exact]_contextVars
  BY Zenon, ContextResumes
<1>2. QED BY <1>1, ContextsInvariance, PTL DEF ContextsSpec, ResumeExact

-----------------------------------------------------------------------------
(* SvcGate *)

\* Regions are given out upwards from 0 and in units of 16 bytes.
RegionInv ==
  /\ base \in Nat /\ base % 16 = 0
  /\ arm_svc_number \in Nat /\ arm_svc_number >= FirstNumber
  /\ mem_region \subseteq [begin : Nat, end : Nat, number : Nat]
  /\ \A r \in mem_region : r.begin < r.end /\ r.end <= base /\ r.number <= arm_svc_number

\* A stub that was given out has its number in the map, with its own handler.
StubInv ==
  /\ \A a \in DOMAIN stubs : a \in Nat /\ a < base /\ stubs[a] = <<"svc", a>>
  /\ \A r \in mem_region : r.number # 0 /\ r.begin \in DOMAIN stubs =>
       r.number \in DOMAIN svc_map /\ svc_map[r.number] = stubs[r.begin]

\* What was answered stays right whatever is registered afterwards.
Answered(d) ==
  /\ d.asked[1] = "svc" => d.answer = d.asked
  /\ d.asked = <<"syscall", 0>> /\ d.x8 \in Arms \ {clone3} => d.answer = <<"arm", Handler(d.x8)>>

GateInv == RegionInv /\ RegionsDisjoint /\ StubsMapped /\ StubInv /\ Answered(done)

\* What align_size adds to a size is less than 16 bytes.
LEMMA AlignFacts ==
  ASSUME NEW size \in Nat \ {0}
  PROVE  /\ align_size(size) \in Nat /\ align_size(size) >= size
         /\ align_size(size) < size + 16 /\ align_size(size) % 16 = 0
BY DEF align_size

\* Two multiples of 16 differ by 16 or more.
LEMMA Multiples ==
  ASSUME NEW x \in Nat, NEW y \in Nat, x % 16 = 0, y % 16 = 0, x < y + 16
  PROVE  x <= y
<1>1. x = 16 * (x \div 16) /\ y = 16 * (y \div 16) /\ x \div 16 \in Nat /\ y \div 16 \in Nat
  OBVIOUS
<1> QED BY <1>1

\* An allocation lies behind all earlier ones, and in the region if the write
\* into it succeeds.
LEMMA AllocateStep ==
  ASSUME GateInv, ~ halted, NEW size \in Nat \ {0}, NEW number \in Nat, allocate(size, number),
         arm_svc_number' \in Nat, arm_svc_number' >= arm_svc_number, number <= arm_svc_number'
  PROVE  /\ RegionInv' /\ RegionsDisjoint' /\ StubsMapped'
         /\ mem_region' = mem_region \cup {Region(size, number)} /\ base < base'
         /\ Region(size, number).begin = base /\ Region(size, number).number = number
<1> DEFINE r == Region(size, number)
<1>1. /\ base \in Nat /\ base' = base + align_size(size) /\ mem_region' = mem_region \cup {r}
      /\ halted' = (base + size > SvcSize) /\ align_size(size) \in Nat /\ size \in Nat
  BY Zenon, AlignFacts DEF allocate, GateInv, RegionInv
<1>2. base' \in Nat /\ base < base' /\ base' % 16 = 0
  <2>1. base % 16 = 0 /\ align_size(size) % 16 = 0 /\ align_size(size) >= size /\ size >= 1
    BY AlignFacts DEF GateInv, RegionInv
  <2> QED BY <1>1, <2>1
<1>3. /\ r \in [begin : Nat, end : Nat, number : Nat]
      /\ r.begin = base /\ r.end = base' /\ r.number = number
  BY Zenon, <1>1, <1>2 DEF Region
<1> HIDE DEF r
<1>4. \A q \in mem_region : /\ q.begin \in Nat /\ q.end \in Nat /\ q.number \in Nat
                            /\ q.begin < q.end /\ q.end <= base /\ q.number <= arm_svc_number
  BY Zenon DEF GateInv, RegionInv
<1>5. RegionInv'
  <2>1. \A q \in mem_region : q.end <= base' /\ q.number <= arm_svc_number'
    BY <1>1, <1>2, <1>4 DEF GateInv, RegionInv
  <2>2. arm_svc_number' >= FirstNumber /\ base' <= base'
    BY <1>2 DEF GateInv, RegionInv, FirstNumber
  <2> QED BY Zenon, <1>1, <1>2, <1>3, <1>4, <2>1, <2>2 DEF GateInv, RegionInv
<1>6. RegionsDisjoint'
  BY Zenon, <1>1, <1>3, <1>4 DEF GateInv, RegionsDisjoint
<1>7. ~ halted' => base' <= SvcSize
  <2>1. /\ base' % 16 = 0 /\ SvcSize \in Nat /\ SvcSize % 16 = 0
        /\ align_size(size) < size + 16
    BY Zenon, <1>2, AlignFacts, GateAssumption
  <2>2. ~ (base + size > SvcSize) => base' < SvcSize + 16
    BY <1>1, <2>1
  <2>3. base' < SvcSize + 16 => base' <= SvcSize
    BY Zenon, <1>2, <2>1, Multiples
  <2> QED BY Zenon, <1>1, <2>2, <2>3
<1>8. StubsMapped'
  BY Zenon, <1>1, <1>3, <1>7 DEF GateInv, StubsMapped
<1> QED BY Zenon, <1>1, <1>2, <1>3, <1>5, <1>6, <1>8 DEF r

\* The answer of a registered number is the Arm64Svc it was registered with.
LEMMA StubAnswers ==
  ASSUME GateInv, NEW r \in mem_region, r.number # 0, r.begin \in DOMAIN stubs,
         NEW x8, NEW x16, NEW x12, NEW a \in gate(r.number, x8, x16, x12)
  PROVE  a = stubs[r.begin]
BY Zenon DEF GateInv, StubInv, gate, get_svc

\* So is the answer of a callback.
LEMMA CallbackAnswers ==
  ASSUME GateInv, NEW r \in mem_region, r.number # 0, r.begin \in DOMAIN stubs,
         NEW code \in {PostCallback, PreCallback}, NEW a \in gate(0, 0, code, r.number)
  PROVE  a = stubs[r.begin]
<1>1. from_u64(0) = 0
  BY DEF from_u64
<1>2. gate(0, 0, code, r.number) = get_svc(r.number)
  BY Zenon, <1>1 DEF gate
<1> QED BY Zenon, <1>2 DEF GateInv, StubInv, get_svc

\* A number with an arm is kept by from_u64 and answered by that arm.
LEMMA CallAnswers ==
  ASSUME NEW nr \in Arms \ {clone3}, NEW x16, NEW x12, nr # 0,
         NEW a \in gate(0, nr, x16, x12)
  PROVE  a = <<"arm", Handler(nr)>>
<1>1. from_u64(nr) = nr
  BY DEF from_u64, Arms, Listed
<1>2. gate(0, nr, x16, x12) = syscall(nr)
  BY Zenon, <1>1 DEF gate
<1> QED BY Zenon, <1>2 DEF syscall

\* Inserting a stub or a table keeps what is known of the earlier stubs.
LEMMA RegisterStep ==
  ASSUME GateInv, NEW size \in StubSizes, register_svc(size)
  PROVE  GateInv'
<1>1. /\ ~ halted /\ arm_svc_number' = arm_svc_number + 1 /\ done' = done
      /\ arm_svc_number \in Nat /\ base \in Nat /\ size \in Nat \ {0}
  BY Zenon, GateAssumption DEF register_svc, NextNumber, GateInv, RegionInv
<1>2. arm_svc_number' \in Nat /\ arm_svc_number' > arm_svc_number /\ arm_svc_number' # 0
  BY <1>1
<1>3. Answered(done')
  BY Zenon, <1>1 DEF GateInv
<1>4. \A q \in mem_region : /\ q.begin # base /\ q.number # arm_svc_number'
                            /\ q.number <= arm_svc_number'
  <2>1. \A q \in mem_region : /\ q.begin \in Nat /\ q.end \in Nat /\ q.number \in Nat
                              /\ q.begin < q.end /\ q.end <= base /\ q.number <= arm_svc_number
    BY Zenon DEF GateInv, RegionInv
  <2> QED BY <1>1, <2>1
<1>5. CASE NextNumber >= SvcMax - 1
  <2>1. UNCHANGED <<base, mem_region, svc_map, stubs>> /\ halted'
    BY Zenon, <1>5 DEF register_svc
  <2>2. RegionInv'
    <3>1. arm_svc_number' >= FirstNumber
      BY <1>1 DEF GateInv, RegionInv, FirstNumber
    <3> QED BY Zenon, <1>2, <1>4, <2>1, <3>1 DEF GateInv, RegionInv
  <2> QED BY Zenon, <1>3, <2>1, <2>2 DEF GateInv, RegionsDisjoint, StubsMapped, StubInv, Answered
<1>6. CASE ~ (NextNumber >= SvcMax - 1)
  <2> DEFINE r == Region(size, arm_svc_number')
  <2>1. /\ allocate(size, arm_svc_number')
        /\ svc_map' = IF halted' THEN svc_map ELSE Inserted(svc_map, arm_svc_number', <<"svc", base>>)
        /\ stubs' = IF halted' THEN stubs ELSE Inserted(stubs, base, <<"svc", base>>)
    BY Zenon, <1>1, <1>6 DEF register_svc, NextNumber, NewSvc
  <2>2. arm_svc_number' >= arm_svc_number /\ arm_svc_number' <= arm_svc_number'
    BY <1>1
  <2>3. /\ RegionInv' /\ RegionsDisjoint' /\ StubsMapped'
        /\ mem_region' = mem_region \cup {r} /\ base < base'
        /\ r.begin = base /\ r.number = arm_svc_number'
    BY Zenon, <1>1, <1>2, <2>1, <2>2, AllocateStep
  <2> HIDE DEF r
  <2>4. /\ base' \in Nat /\ base \notin DOMAIN stubs /\ base < base'
        /\ \A a \in DOMAIN stubs : a \in Nat /\ a < base' /\ stubs[a] = <<"svc", a>>
    <3>1. \A a \in DOMAIN stubs : a \in Nat /\ a < base /\ stubs[a] = <<"svc", a>>
      BY Zenon DEF GateInv, StubInv
    <3>2. base' \in Nat
      BY Zenon, <2>3 DEF RegionInv
    <3> QED BY <1>1, <2>3, <3>1, <3>2
  <2>5. \A q \in mem_region : q.number # 0 /\ q.begin \in DOMAIN stubs =>
          q.number \in DOMAIN svc_map /\ svc_map[q.number] = stubs[q.begin]
    BY Zenon DEF GateInv, StubInv
  <2>6. StubInv'
    <3>1. CASE halted'
      BY Zenon, <2>1, <2>3, <2>4, <2>5, <3>1 DEF StubInv
    <3>2. CASE ~ halted'
      <4>1. /\ DOMAIN stubs' = DOMAIN stubs \cup {base} /\ stubs'[base] = <<"svc", base>>
            /\ \A a \in DOMAIN stubs : a # base => stubs'[a] = stubs[a]
        BY Zenon, <2>1, <3>2 DEF Inserted
      <4>2. /\ DOMAIN svc_map' = DOMAIN svc_map \cup {arm_svc_number'}
            /\ svc_map'[arm_svc_number'] = <<"svc", base>>
            /\ \A n \in DOMAIN svc_map : n # arm_svc_number' => svc_map'[n] = svc_map[n]
        BY Zenon, <2>1, <3>2 DEF Inserted
      <4>3. \A a \in DOMAIN stubs' : a \in Nat /\ a < base' /\ stubs'[a] = <<"svc", a>>
        BY Zenon, <1>1, <2>4, <4>1
      <4>4. \A q \in mem_region' : q.number # 0 /\ q.begin \in DOMAIN stubs' =>
              q.number \in DOMAIN svc_map' /\ svc_map'[q.number] = stubs'[q.begin]
        BY Zenon, <1>4, <2>3, <2>5, <4>1, <4>2
      <4> QED BY Zenon, <4>3, <4>4 DEF StubInv
    <3> QED BY Zenon, <3>1, <3>2
  <2> QED BY Zenon, <1>3, <2>3, <2>6 DEF GateInv
<1> QED BY Zenon, <1>5, <1>6

\* A table is a region that no number belongs to.
LEMMA TableStep ==
  ASSUME GateInv, NEW size \in TableSizes, allocate_table(size)
  PROVE  GateInv'
<1> DEFINE r == Region(size, 0)
<1>1. /\ ~ halted /\ UNCHANGED <<arm_svc_number, svc_map, stubs, done>> /\ allocate(size, 0)
      /\ arm_svc_number \in Nat /\ base \in Nat /\ size \in Nat \ {0}
  BY Zenon, GateAssumption DEF allocate_table, GateInv, RegionInv
<1>2. 0 \in Nat /\ arm_svc_number' \in Nat /\ arm_svc_number' >= arm_svc_number /\ 0 <= arm_svc_number'
  BY <1>1
<1>3. /\ RegionInv' /\ RegionsDisjoint' /\ StubsMapped'
      /\ mem_region' = mem_region \cup {r} /\ base < base' /\ r.number = 0
  BY Zenon, <1>1, <1>2, AllocateStep
<1> HIDE DEF r
<1>4. \A a \in DOMAIN stubs : a \in Nat /\ a < base' /\ stubs[a] = <<"svc", a>>
  <2>1. \A a \in DOMAIN stubs : a \in Nat /\ a < base /\ stubs[a] = <<"svc", a>>
    BY Zenon DEF GateInv, StubInv
  <2>2. base' \in Nat
    BY Zenon, <1>3 DEF RegionInv
  <2> QED BY <1>1, <1>3, <2>1, <2>2
<1>5. StubInv'
  BY Zenon, <1>1, <1>3, <1>4 DEF GateInv, StubInv
<1> QED BY Zenon, <1>1, <1>3, <1>5 DEF GateInv, Answered

\* An SVC changes nothing but what was last answered.
LEMMA AnswerStep ==
  ASSUME GateInv, UNCHANGED <<base, arm_svc_number, mem_region, svc_map, stubs, halted>>,
         Answered(done')
  PROVE  GateInv'
BY Zenon DEF GateInv, RegionInv, RegionsDisjoint, StubsMapped, StubInv

\* A stub answered with its own Arm64Svc is answered rightly.
LEMMA RightAnswer ==
  ASSUME GateInv, NEW b \in DOMAIN stubs, NEW i, NEW n
  PROVE  Answered([swi |-> i, x8 |-> n, asked |-> stubs[b], answer |-> stubs[b]])
<1>1. stubs[b] = <<"svc", b>>
  BY Zenon DEF GateInv, StubInv
<1>2. stubs[b] # <<"syscall", 0>>
  BY <1>1
<1> QED BY Zenon, <1>2 DEF Answered

\* GateExact for every size of the region and every use of it: a stub or a
\* callback reaches the Arm64Svc registered with it, a system call number its
\* arm, and the regions of SvcMemory are disjoint and mapped.
THEOREM GateAnswersRightly == GateSpec => []GateExact
<1>1. GateInit => GateInv
  <2> SUFFICES ASSUME GateInit PROVE GateInv
    OBVIOUS
  <2>1. RegionInv
    BY DEF GateInit, RegionInv, FirstNumber
  <2>2. Answered(done)
    BY DEF GateInit, NoSvc, Answered
  <2>3. \A a : a \notin DOMAIN stubs
    BY DEF GateInit
  <2> QED BY Zenon, <2>1, <2>2, <2>3 DEF GateInit, GateInv, RegionsDisjoint, StubsMapped, StubInv
<1>2. GateInv /\ [GateNext]_gateVars => GateInv'
  <2> SUFFICES ASSUME GateInv, [GateNext]_gateVars PROVE GateInv'
    OBVIOUS
  <2>1. CASE \E size \in StubSizes : register_svc(size)
    BY Zenon, <2>1, RegisterStep
  <2>2. CASE \E size \in TableSizes : allocate_table(size)
    BY Zenon, <2>2, TableStep
  <2>3. CASE CallStub
    <3>1. PICK r \in mem_region, x8 \in Numbers : \E a \in gate(r.number, x8, 0, 0) :
            /\ r.number # 0 /\ r.begin \in DOMAIN stubs
            /\ done' = [swi |-> r.number, x8 |-> x8, asked |-> stubs[r.begin], answer |-> a]
            /\ UNCHANGED <<base, arm_svc_number, mem_region, svc_map, stubs, halted>>
      BY Zenon, <2>3 DEF CallStub
    <3>. PICK a \in gate(r.number, x8, 0, 0) :
           /\ r.number # 0 /\ r.begin \in DOMAIN stubs
           /\ done' = [swi |-> r.number, x8 |-> x8, asked |-> stubs[r.begin], answer |-> a]
           /\ UNCHANGED <<base, arm_svc_number, mem_region, svc_map, stubs, halted>>
      BY Zenon, <3>1
    <3>2. a = stubs[r.begin]
      BY Zenon, <3>1, StubAnswers
    <3>3. Answered(done')
      BY Zenon, <3>1, <3>2, RightAnswer
    <3> QED BY Zenon, <3>1, <3>3, AnswerStep
  <2>4. CASE Callback
    <3>1. PICK r \in mem_region, code \in {PostCallback, PreCallback} : \E a \in gate(0, 0, code, r.number) :
            /\ r.number # 0 /\ r.begin \in DOMAIN stubs
            /\ done' = [swi |-> 0, x8 |-> 0, asked |-> stubs[r.begin], answer |-> a]
            /\ UNCHANGED <<base, arm_svc_number, mem_region, svc_map, stubs, halted>>
      BY Zenon, <2>4 DEF Callback
    <3>. PICK a \in gate(0, 0, code, r.number) :
           /\ r.number # 0 /\ r.begin \in DOMAIN stubs
           /\ done' = [swi |-> 0, x8 |-> 0, asked |-> stubs[r.begin], answer |-> a]
           /\ UNCHANGED <<base, arm_svc_number, mem_region, svc_map, stubs, halted>>
      BY Zenon, <3>1
    <3>2. a = stubs[r.begin]
      BY Zenon, <3>1, CallbackAnswers
    <3>3. Answered(done')
      BY Zenon, <3>1, <3>2, RightAnswer
    <3> QED BY Zenon, <3>1, <3>3, AnswerStep
  <2>5. CASE SystemCall
    <3>1. PICK nr \in Numbers, x16 \in {0, PostCallback} : \E a \in gate(0, nr, x16, arm_svc_number) :
            /\ done' = [swi |-> 0, x8 |-> nr, asked |-> <<"syscall", 0>>, answer |-> a]
            /\ UNCHANGED <<base, arm_svc_number, mem_region, svc_map, stubs, halted>>
      BY Zenon, <2>5 DEF SystemCall
    <3>. PICK a \in gate(0, nr, x16, arm_svc_number) :
           /\ done' = [swi |-> 0, x8 |-> nr, asked |-> <<"syscall", 0>>, answer |-> a]
           /\ UNCHANGED <<base, arm_svc_number, mem_region, svc_map, stubs, halted>>
      BY Zenon, <3>1
    <3>2. 0 \notin Arms
      BY DEF Arms, Listed
    <3>3. nr \in Arms \ {clone3} => a = <<"arm", Handler(nr)>>
      BY Zenon, <3>2, CallAnswers
    <3>4. Answered(done')
      BY Zenon, <3>1, <3>3 DEF Answered
    <3> QED BY Zenon, <3>1, <3>4, AnswerStep
  <2>6. CASE ReturnToUntil
    <3>1. Answered([swi |-> 0, x8 |-> 0, asked |-> <<"until", 0>>, answer |-> <<"stop", 0>>])
      BY DEF Answered
    <3> QED BY Zenon, <2>6, <3>1, AnswerStep DEF ReturnToUntil
  <2>7. CASE UNCHANGED gateVars
    BY Zenon, <2>7, AnswerStep DEF gateVars, GateInv
  <2> QED BY Zenon, <2>1, <2>2, <2>3, <2>4, <2>5, <2>6, <2>7 DEF GateNext
<1>3. GateInv => GateExact
  <2> SUFFICES ASSUME GateInv PROVE GateExact
    OBVIOUS
  <2>1. \A svc \in Svcs : svc[1] = "svc"
    BY DEF GateInv, StubInv, Svcs
  <2> QED BY Zenon, <2>1 DEF GateInv, GateExact, Answered, StubReachesOwner, NumberReachesArm
<1> QED BY <1>1, <1>2, <1>3, PTL DEF GateSpec

-----------------------------------------------------------------------------
(* Ptrace *)

\* A nonempty set of numbers has a least one.
LEMMA MinNat ==
  ASSUME NEW S \in SUBSET Nat, S # {}
  PROVE  Min(S) \in S /\ \A y \in S : Min(S) <= y
<1> DEFINE R == OpToRel(<, Nat)
<1>1. IsWellFoundedOn(R, Nat)
  BY Zenon, NatLessThanWellFounded
<1>2. \A x, y \in Nat : <<x, y>> \in R <=> x < y
  BY Zenon DEF OpToRel
<1> HIDE DEF R
<1>3. PICK x \in S : \A y \in S : ~(<<y, x>> \in R)
  BY Zenon, <1>1, WFMin
<1>4. ASSUME NEW y \in S PROVE x <= y
  <2>1. ~(y < x)
    BY Zenon, <1>2, <1>3
  <2> QED BY <2>1
<1> QED BY Zenon, <1>4 DEF Min

Regsets == [count : SlotCounts \cup {0}, addr : [1..Slots -> Addrs \cup {0}]]

TraceTypes ==
  /\ ptrace_tracer \subseteq Tids
  /\ ptrace_stop \in [Tids -> [signo : {"none", "stop", "trap"}, addr : Addrs \cup {0}, reported : BOOLEAN]]
  /\ hwdebug \in [Tids -> [Notes -> Regsets]]
  /\ prstatus \in [Tids -> Addrs \cup {0}]
  /\ path \in [Tids -> Paths \cup {NoPath}]
  /\ passed \in [Tids -> Nat]
  /\ armed \in [Tids -> SUBSET (Addrs \cup {0})]
  /\ setpc \in [Tids -> BOOLEAN]

\* A trap is at an armed address, which is the stored pc and the place on the
\* path; only armed addresses are in the debug registers.
TrapInv(stop, at, set) ==
  /\ stop.addr \in IF stop.signo = "trap" THEN Addrs ELSE {0}
  /\ stop.signo = "none" => stop = NoStop
  /\ stop.signo = "trap" /\ ~ set => at = stop.addr

PlaceInv(stop, arm, p, n) ==
  stop.signo = "trap" =>
    /\ stop.addr \in arm \ {0}
    /\ p # NoPath => n \in DOMAIN p /\ p[n] = stop.addr

ArmedInv(regset, arm) == \A n \in Notes : \A s \in 1..Slots : regset[n].addr[s] \in arm \cup {0}

ThreadInv(t) ==
  /\ TrapInv(ptrace_stop[t], prstatus[t], setpc[t])
  /\ PlaceInv(ptrace_stop[t], armed[t], path[t], passed[t])
  /\ ArmedInv(hwdebug[t], armed[t])

TraceInv == TraceTypes /\ \A t \in Tids : ThreadInv(t)

\* The enabled addresses are armed ones.
LEMMA EnabledFacts ==
  ASSUME TraceInv, NEW t \in Tids, NEW k \in Enabled(t)
  PROVE  k \in Nat /\ SlotAddr(t, k) \in Addrs /\ SlotAddr(t, k) \in armed[t] \ {0}
<1>1. \A n \in Notes : \A s \in 1..Slots :
        hwdebug[t][n].addr[s] \in Addrs \cup {0} /\ hwdebug[t][n].addr[s] \in armed[t] \cup {0}
  BY Zenon DEF TraceInv, TraceTypes, ThreadInv, ArmedInv, Regsets
<1>2. Slots \in Nat
  BY PtraceAssumption
<1>3. ASSUME NEW n \in Notes, NEW s \in EnabledSlots(hwdebug[t][n])
      PROVE  /\ s \in 1..Slots
             /\ hwdebug[t][n].addr[s] \in Addrs /\ hwdebug[t][n].addr[s] \in armed[t] \ {0}
  BY Zenon, <1>1 DEF EnabledSlots
<1>4. CASE k \in EnabledSlots(hwdebug[t]["break"])
  <2>1. k \in 1..Slots /\ k <= Slots
    BY <1>2, <1>3, <1>4 DEF Notes
  <2>2. k \in Nat
    BY <1>2, <2>1
  <2> QED BY Zenon, <1>3, <1>4, <2>1, <2>2 DEF SlotAddr, Notes
<1>5. CASE \E s \in EnabledSlots(hwdebug[t]["watch"]) : k = Slots + s
  <2>1. PICK s \in EnabledSlots(hwdebug[t]["watch"]) : k = Slots + s
    BY Zenon, <1>5
  <2>2. s \in 1..Slots
    BY Zenon, <1>3 DEF Notes
  <2>3. k \in Nat /\ ~ (k <= Slots) /\ k - Slots = s
    BY <1>2, <2>1, <2>2
  <2> QED BY Zenon, <1>3, <2>3 DEF SlotAddr, Notes
<1> QED BY Zenon, <1>4, <1>5 DEF Enabled

\* A path is a sequence of addresses, each met once.
LEMMA PathFacts ==
  ASSUME TraceInv, NEW t \in Tids, path[t] # NoPath
  PROVE  /\ path[t] \in Seq(Addrs) /\ Len(path[t]) \in Nat /\ DOMAIN path[t] = 1..Len(path[t])
         /\ \A i, j \in DOMAIN path[t] : path[t][i] = path[t][j] => i = j
<1>1. path[t] \in Paths
  BY Zenon DEF TraceInv, TraceTypes
<1>2. path[t] \in Seq(Addrs) /\ IsInjective(path[t])
  BY Zenon, <1>1, PtraceAssumption
<1>3. Len(path[t]) \in Nat /\ DOMAIN path[t] = 1..Len(path[t])
  BY <1>2
<1> QED BY Zenon, <1>2, <1>3 DEF IsInjective

\* The search of ptrace_pick_hit begins behind the place of the last trap.
LEMMA BeginFacts ==
  ASSUME TraceInv, NEW t \in Tids, path[t] # NoPath
  PROVE  /\ Begin(path[t], LastHit(t)) \in Nat \ {0}
         /\ ptrace_stop[t].signo = "trap" \/ passed[t] = 0 =>
              Begin(path[t], LastHit(t)) = passed[t] + 1
<1> DEFINE p == path[t]
           place == LastHit(t)
           First(i) == p[i] = place /\ \A j \in 1..i - 1 : p[j] # place
<1>1. /\ DOMAIN p = 1..Len(p) /\ Len(p) \in Nat
      /\ \A i, j \in DOMAIN p : p[i] = p[j] => i = j
  BY Zenon, PathFacts
<1>2. passed[t] \in Nat
  BY Zenon DEF TraceInv, TraceTypes
<1>3. CASE ptrace_stop[t].signo = "trap"
  <2>1. /\ place = ptrace_stop[t].addr /\ place # 0
        /\ passed[t] \in DOMAIN p /\ p[passed[t]] = place
    BY Zenon, <1>3 DEF TraceInv, ThreadInv, PlaceInv, LastHit
  <2> HIDE DEF place
  <2>2. \A j \in 1..passed[t] - 1 : p[j] # place
    <3> SUFFICES ASSUME NEW j \in 1..passed[t] - 1, p[j] = place PROVE FALSE
      OBVIOUS
    <3>1. j \in DOMAIN p /\ j # passed[t]
      BY <1>1, <1>2, <2>1
    <3> QED BY Zenon, <1>1, <2>1, <3>1
  <2>3. \A i \in DOMAIN p : First(i) <=> i = passed[t]
    BY Zenon, <1>1, <2>1, <2>2
  <2>4. (CHOOSE i \in DOMAIN p : First(i)) = passed[t]
    <3> HIDE DEF First
    <3> QED BY Zenon, <2>1, <2>3
  <2>5. place \in Range(p)
    BY Zenon, <2>1 DEF Range
  <2>6. Begin(p, place) = 1 + passed[t]
    BY Zenon, <2>1, <2>4, <2>5 DEF Begin
  <2> QED BY <1>2, <2>6 DEF place
<1>4. CASE ptrace_stop[t].signo # "trap"
  <2>1. Begin(p, place) = 1
    BY Zenon, <1>4 DEF Begin, LastHit
  <2> QED BY <1>2, <1>4, <2>1
<1> QED BY Zenon, <1>3, <1>4

\* The hit of a known path is the first enabled address from Begin on.
LEMMA OnPath ==
  ASSUME TraceInv, NEW t \in Tids, path[t] # NoPath,
         NEW hits, hits = {i \in Begin(path[t], LastHit(t))..Len(path[t]) : path[t][i] \in EnabledAddrs(t)}
  PROVE  /\ hits = {} => PickHit(t) = 0
         /\ hits # {} => /\ Min(hits) \in DOMAIN path[t] /\ PickHit(t) = path[t][Min(hits)]
                         /\ PickHit(t) \in EnabledAddrs(t)
<1>1. /\ DOMAIN path[t] = 1..Len(path[t]) /\ Len(path[t]) \in Nat
      /\ Begin(path[t], LastHit(t)) \in Nat \ {0}
  BY Zenon, PathFacts, BeginFacts
<1>2. hits \in SUBSET Nat /\ \A i \in hits : i \in DOMAIN path[t]
  BY <1>1
<1>3. PickHit(t) = IF Enabled(t) = {} THEN 0 ELSE IF hits = {} THEN 0 ELSE path[t][Min(hits)]
  BY Zenon DEF PickHit, NextOnPath
<1>4. hits # {} => Enabled(t) # {}
  BY Zenon DEF EnabledAddrs
<1>5. hits # {} => Min(hits) \in hits
  BY Zenon, <1>2, MinNat
<1> QED BY Zenon, <1>2, <1>3, <1>4, <1>5

\* PTRACE_CONT stops a thread at an armed address, on the path if it is known.
LEMMA PickFacts ==
  ASSUME TraceInv, NEW t \in Tids, PickHit(t) # 0
  PROVE  /\ PickHit(t) \in Addrs /\ PickHit(t) \in armed[t] \ {0}
         /\ path[t] # NoPath => \E i \in DOMAIN path[t] : path[t][i] = PickHit(t)
<1>1. PickHit(t) \in EnabledAddrs(t)
  <2>1. CASE path[t] # NoPath
    BY Zenon, <2>1, OnPath
  <2>2. CASE path[t] = NoPath
    <3> DEFINE others == {k \in Enabled(t) : SlotAddr(t, k) # LastHit(t)}
               best == IF others # {} THEN others ELSE Enabled(t)
    <3>1. Enabled(t) # {} /\ PickHit(t) = SlotAddr(t, Min(best))
      BY Zenon, <2>2 DEF PickHit, OtherSlot
    <3>2. Enabled(t) \in SUBSET Nat
      BY Zenon, EnabledFacts
    <3>3. best # {} /\ best \in SUBSET Nat /\ best \subseteq Enabled(t)
      BY Zenon, <3>1, <3>2
    <3> HIDE DEF best
    <3>4. Min(best) \in Enabled(t)
      BY Zenon, <3>3, MinNat
    <3> QED BY Zenon, <3>1, <3>4 DEF EnabledAddrs
  <2> QED BY Zenon, <2>1, <2>2
<1>2. PickHit(t) \in Addrs /\ PickHit(t) \in armed[t] \ {0}
  BY Zenon, <1>1, EnabledFacts DEF EnabledAddrs
<1>3. path[t] # NoPath => \E i \in DOMAIN path[t] : path[t][i] = PickHit(t)
  BY Zenon, OnPath
<1> QED BY Zenon, <1>2, <1>3

\* A step of one thread leaves the others alone.
LEMMA OneThread ==
  ASSUME TraceInv, TraceTypes', NEW t \in Tids, ThreadInv(t)',
         \A u \in Tids : u # t =>
           /\ ptrace_stop'[u] = ptrace_stop[u] /\ prstatus'[u] = prstatus[u] /\ setpc'[u] = setpc[u]
           /\ armed'[u] = armed[u] /\ path'[u] = path[u] /\ passed'[u] = passed[u]
           /\ hwdebug'[u] = hwdebug[u]
  PROVE  TraceInv'
<1>1. ASSUME NEW u \in Tids, u # t PROVE ThreadInv(u)'
  BY Zenon, <1>1 DEF TraceInv, ThreadInv
<1> QED BY Zenon, <1>1 DEF TraceInv

\* What a queued stop leaves behind.
LEMMA QueueFacts ==
  ASSUME TraceTypes, NEW t \in Tids, NEW signo \in {"stop", "trap"}, NEW addr \in Addrs \cup {0},
         QueueStop(t, signo, addr)
  PROVE  /\ ptrace_stop' \in [Tids -> [signo : {"none", "stop", "trap"}, addr : Addrs \cup {0}, reported : BOOLEAN]]
         /\ prstatus' \in [Tids -> Addrs \cup {0}] /\ setpc' \in [Tids -> BOOLEAN]
         /\ ptrace_stop'[t] = [signo |-> signo, addr |-> addr, reported |-> FALSE]
         /\ addr # 0 => prstatus'[t] = addr
         /\ \A u \in Tids : u # t => /\ ptrace_stop'[u] = ptrace_stop[u]
                                     /\ prstatus'[u] = prstatus[u] /\ setpc'[u] = setpc[u]
<1>1. ptrace_stop' \in [Tids -> [signo : {"none", "stop", "trap"}, addr : Addrs \cup {0}, reported : BOOLEAN]]
  <2>1. [signo |-> signo, addr |-> addr, reported |-> FALSE]
          \in [signo : {"none", "stop", "trap"}, addr : Addrs \cup {0}, reported : BOOLEAN]
    BY Zenon
  <2> QED BY Zenon, <2>1 DEF QueueStop, TraceTypes
<1>2. prstatus' \in [Tids -> Addrs \cup {0}]
  BY Zenon DEF QueueStop, SetPc, TraceTypes
<1>3. setpc' \in [Tids -> BOOLEAN]
  BY Zenon DEF QueueStop, TraceTypes
<1> QED BY Zenon, <1>1, <1>2, <1>3 DEF QueueStop, SetPc, TraceTypes

\* Attach and Interrupt.
LEMMA TrapStep ==
  ASSUME TraceInv, NEW t \in Tids, Attach(t) \/ Interrupt(t)
  PROVE  TraceInv'
<1>1. /\ QueueStop(t, "stop", 0) /\ UNCHANGED <<hwdebug, path, passed, armed>>
      /\ ptrace_tracer' \subseteq Tids
  BY Zenon DEF Attach, Interrupt, TraceInv, TraceTypes
<1>2. TraceTypes
  BY Zenon DEF TraceInv
<1>3. TraceTypes'
  BY Zenon, <1>1, <1>2, QueueFacts DEF TraceTypes
<1>4. ptrace_stop'[t] = [signo |-> "stop", addr |-> 0, reported |-> FALSE]
  BY Zenon, <1>1, <1>2, QueueFacts
<1>5. ThreadInv(t)'
  BY <1>1, <1>4 DEF ThreadInv, TrapInv, PlaceInv, TraceInv
<1> QED BY Zenon, <1>1, <1>2, <1>3, <1>5, QueueFacts, OneThread

\* PTRACE_DETACH.
LEMMA DetachStep ==
  ASSUME TraceInv, NEW t \in Tids, Detach(t)
  PROVE  TraceInv'
<1> DEFINE none == [n \in Notes |-> Unset]
<1>1. none \in [Notes -> Regsets] /\ \A n \in Notes : \A s \in 1..Slots : none[n].addr[s] = 0
  BY Zenon DEF Regsets, Unset
<1>2. NoStop \in [signo : {"none", "stop", "trap"}, addr : Addrs \cup {0}, reported : BOOLEAN]
  BY Zenon DEF NoStop
<1>3. 0 \in Nat
  OBVIOUS
<1> HIDE DEF none
<1>4. TraceTypes'
  BY Zenon, <1>1, <1>2, <1>3 DEF TraceInv, TraceTypes, Detach, RetainRegsets, none
<1>5. ptrace_stop'[t] = NoStop /\ hwdebug'[t] = none
  BY Zenon DEF TraceInv, TraceTypes, Detach, RetainRegsets, none
<1>6. TrapInv(NoStop, prstatus'[t], setpc'[t]) /\ PlaceInv(NoStop, armed'[t], path'[t], passed'[t])
  BY DEF NoStop, TrapInv, PlaceInv
<1>7. ArmedInv(none, armed'[t])
  BY Zenon, <1>1 DEF ArmedInv
<1>8. ThreadInv(t)'
  BY Zenon, <1>5, <1>6, <1>7 DEF ThreadInv
<1> QED BY Zenon, <1>4, <1>8, OneThread DEF Detach, RetainRegsets, TraceInv, TraceTypes

\* PTRACE_SETREGSET of a debug note: what is written is armed.
LEMMA SetHwDebugStep ==
  ASSUME TraceInv, NEW t \in Tids, NEW note \in Notes, NEW count \in SlotCounts, NEW n \in 0..Slots,
         NEW written \in [1..n -> Addrs \cup {0}], SetHwDebug(t, note, count, written)
  PROVE  TraceInv'
<1> DEFINE set == [count |-> count, addr |-> Prefix(written)]
<1>1. /\ Prefix(written) \in [1..Slots -> Addrs \cup {0}]
      /\ \A s \in 1..Slots : Prefix(written)[s] \in Range(written) \cup {0}
  BY Zenon DEF Prefix, Range
<1>2. set \in Regsets /\ \A s \in 1..Slots : set.addr[s] \in Range(written) \cup {0}
  BY Zenon, <1>1 DEF Regsets
<1>3. Range(written) \subseteq Addrs \cup {0}
  BY Zenon DEF Range
<1>4. /\ hwdebug' = [hwdebug EXCEPT ![t] = [hwdebug[t] EXCEPT ![note] = set]]
      /\ armed' = [armed EXCEPT ![t] = armed[t] \cup Range(written)]
  BY Zenon DEF SetHwDebug
<1> HIDE DEF set
<1>5. hwdebug[t] \in [Notes -> Regsets] /\ armed[t] \subseteq Addrs \cup {0}
  BY Zenon DEF TraceInv, TraceTypes
<1>6. hwdebug'[t] = [hwdebug[t] EXCEPT ![note] = set] /\ hwdebug'[t] \in [Notes -> Regsets]
  BY Zenon, <1>2, <1>4, <1>5 DEF TraceInv, TraceTypes
<1>7. armed'[t] = armed[t] \cup Range(written) /\ armed'[t] \subseteq Addrs \cup {0}
  BY Zenon, <1>3, <1>4, <1>5 DEF TraceInv, TraceTypes
<1>8. hwdebug' \in [Tids -> [Notes -> Regsets]] /\ armed' \in [Tids -> SUBSET (Addrs \cup {0})]
  BY Zenon, <1>4, <1>6, <1>7 DEF TraceInv, TraceTypes
<1>9. TraceTypes'
  BY Zenon, <1>8 DEF TraceInv, TraceTypes, SetHwDebug
<1>10. ArmedInv(hwdebug'[t], armed'[t])
  <2>1. ArmedInv(hwdebug[t], armed[t])
    BY Zenon DEF TraceInv, ThreadInv
  <2> QED BY Zenon, <1>2, <1>5, <1>6, <1>7, <2>1 DEF ArmedInv
<1>11. PlaceInv(ptrace_stop[t], armed'[t], path[t], passed[t])
  BY Zenon, <1>7 DEF TraceInv, ThreadInv, PlaceInv
<1>12. ThreadInv(t)'
  BY Zenon, <1>10, <1>11 DEF TraceInv, ThreadInv, SetHwDebug
<1> QED BY Zenon, <1>4, <1>9, <1>12, OneThread DEF SetHwDebug, TraceInv, TraceTypes

\* PTRACE_SETREGSET of NT_PRSTATUS.
LEMMA SetPrstatusStep ==
  ASSUME TraceInv, NEW t \in Tids, NEW npc \in Addrs, SetPrstatus(t, npc)
  PROVE  TraceInv'
<1>1. TraceTypes'
  BY Zenon DEF TraceInv, TraceTypes, SetPrstatus
<1>2. setpc'[t] = TRUE
  BY Zenon DEF TraceInv, TraceTypes, SetPrstatus
<1>3. TrapInv(ptrace_stop[t], prstatus'[t], setpc'[t])
  BY Zenon, <1>2 DEF TraceInv, ThreadInv, TrapInv
<1>4. ThreadInv(t)'
  BY Zenon, <1>3 DEF TraceInv, ThreadInv, SetPrstatus
<1> QED BY Zenon, <1>1, <1>4, OneThread DEF SetPrstatus, TraceInv, TraceTypes

\* PTRACE_CONT that meets an enabled address.
LEMMA ContHitStep ==
  ASSUME TraceInv, NEW t \in Tids, ContHit(t)
  PROVE  TraceInv' /\ ptrace_stop'[t].signo = "trap" /\ ptrace_stop'[t].addr = PickHit(t)
<1> DEFINE hit == PickHit(t)
<1>1. /\ hit # 0 /\ QueueStop(t, "trap", hit)
      /\ passed' = [passed EXCEPT ![t] = Position(t, hit)]
      /\ UNCHANGED <<ptrace_tracer, hwdebug, path, armed>>
  BY Zenon DEF ContHit
<1>2. TraceTypes
  BY Zenon DEF TraceInv
<1>3. /\ hit \in Addrs /\ hit \in armed[t] \ {0}
      /\ path[t] # NoPath => \E i \in DOMAIN path[t] : path[t][i] = hit
  BY Zenon, <1>1, PickFacts
<1> HIDE DEF hit
<1>4. /\ Position(t, hit) \in Nat
      /\ path[t] # NoPath => Position(t, hit) \in DOMAIN path[t] /\ path[t][Position(t, hit)] = hit
  <2>1. CASE path[t] = NoPath
    <3>1. Position(t, hit) = 0
      BY Zenon, <2>1 DEF Position
    <3> QED BY <2>1, <3>1
  <2>2. CASE path[t] # NoPath
    <3> DEFINE places == {i \in DOMAIN path[t] : path[t][i] = hit}
    <3>1. DOMAIN path[t] \subseteq Nat
      BY <2>2, PathFacts
    <3>2. places \in SUBSET Nat /\ places # {} /\ Position(t, hit) = Min(places)
      BY Zenon, <1>3, <2>2, <3>1 DEF Position
    <3>3. Min(places) \in places
      <4> HIDE DEF places
      <4> QED BY Zenon, <3>2, MinNat
    <3> QED BY Zenon, <3>2, <3>3
  <2> QED BY Zenon, <2>1, <2>2
<1>5. passed' \in [Tids -> Nat] /\ passed'[t] = Position(t, hit)
  BY Zenon, <1>1, <1>4 DEF TraceInv, TraceTypes
<1>6. TraceTypes'
  BY Zenon, <1>1, <1>2, <1>3, <1>5, QueueFacts DEF TraceTypes
<1>7. ptrace_stop'[t] = [signo |-> "trap", addr |-> hit, reported |-> FALSE] /\ prstatus'[t] = hit
  BY Zenon, <1>1, <1>2, <1>3, QueueFacts
<1>8. ptrace_stop'[t].signo = "trap" /\ ptrace_stop'[t].addr = hit
  BY <1>7
<1>9. TrapInv(ptrace_stop'[t], prstatus'[t], setpc'[t])
  BY <1>3, <1>7, <1>8 DEF TrapInv
<1>10. PlaceInv(ptrace_stop'[t], armed[t], path[t], passed'[t])
  BY Zenon, <1>3, <1>4, <1>5, <1>8 DEF PlaceInv
<1>11. ThreadInv(t)'
  BY Zenon, <1>1, <1>9, <1>10 DEF ThreadInv, TraceInv
<1>12. \A u \in Tids : u # t => passed'[u] = passed[u]
  BY Zenon, <1>1 DEF TraceInv, TraceTypes
<1> QED BY Zenon, <1>1, <1>2, <1>3, <1>6, <1>8, <1>11, <1>12, QueueFacts, OneThread DEF hit

\* PTRACE_CONT that meets none, and the next command of a free worker.
LEMMA FreeStep ==
  ASSUME TraceInv, NEW t \in Tids, ContFree(t) \/ Command(t)
  PROVE  TraceInv' /\ ptrace_stop'[t] = NoStop
<1>1. /\ ptrace_stop'[t] = NoStop /\ \A u \in Tids : u # t => ptrace_stop'[u] = ptrace_stop[u]
      /\ ptrace_stop' \in [Tids -> [signo : {"none", "stop", "trap"}, addr : Addrs \cup {0}, reported : BOOLEAN]]
  <2>1. NoStop \in [signo : {"none", "stop", "trap"}, addr : Addrs \cup {0}, reported : BOOLEAN]
    BY Zenon DEF NoStop
  <2>2. CASE ContFree(t)
    BY Zenon, <2>1, <2>2 DEF ContFree, TraceInv, TraceTypes
  <2>3. CASE Command(t)
    BY Zenon, <2>3 DEF Command, TraceInv, TraceTypes
  <2> QED BY Zenon, <2>2, <2>3
<1>2. /\ passed' = [passed EXCEPT ![t] = 0] /\ 0 \in Nat
      /\ UNCHANGED <<ptrace_tracer, hwdebug, prstatus, armed, setpc>>
  BY DEF ContFree, Command
<1>3. path' \in [Tids -> Paths \cup {NoPath}] /\ \A u \in Tids : u # t => path'[u] = path[u]
  BY Zenon DEF ContFree, Command, TraceInv, TraceTypes
<1>4. TraceTypes'
  BY Zenon, <1>1, <1>2, <1>3 DEF TraceInv, TraceTypes
<1>5. TrapInv(NoStop, prstatus'[t], setpc'[t]) /\ PlaceInv(NoStop, armed'[t], path'[t], passed'[t])
  BY DEF NoStop, TrapInv, PlaceInv
<1>6. ThreadInv(t)'
  BY Zenon, <1>1, <1>2, <1>5 DEF ThreadInv, TraceInv
<1> QED BY Zenon, <1>1, <1>2, <1>3, <1>4, <1>6, OneThread DEF TraceInv, TraceTypes

\* wait4 that reports a stop.
LEMMA ReportStep ==
  ASSUME TraceInv, NEW t \in Tids, Wait4Report(t)
  PROVE  TraceInv' /\ ptrace_stop'[t].reported
<1> DEFINE old == ptrace_stop[t]
           new == [old EXCEPT !.reported = TRUE]
<1>1. old \in [signo : {"none", "stop", "trap"}, addr : Addrs \cup {0}, reported : BOOLEAN] /\ ~ old.reported
  BY Zenon DEF TraceInv, TraceTypes, Wait4Report
<1>2. ptrace_stop' = [ptrace_stop EXCEPT ![t] = new]
  BY Zenon DEF Wait4Report
<1>3. /\ new \in [signo : {"none", "stop", "trap"}, addr : Addrs \cup {0}, reported : BOOLEAN]
      /\ new.signo = old.signo /\ new.addr = old.addr /\ new.reported
  BY Zenon, <1>1
<1> HIDE DEF old, new
<1>4. /\ ptrace_stop' \in [Tids -> [signo : {"none", "stop", "trap"}, addr : Addrs \cup {0}, reported : BOOLEAN]]
      /\ ptrace_stop'[t] = new /\ \A u \in Tids : u # t => ptrace_stop'[u] = ptrace_stop[u]
  BY Zenon, <1>2, <1>3 DEF TraceInv, TraceTypes
<1>5. UNCHANGED <<ptrace_tracer, hwdebug, prstatus, path, passed, armed, setpc>>
  BY Zenon DEF Wait4Report
<1>6. TraceTypes'
  BY Zenon, <1>4, <1>5 DEF TraceInv, TraceTypes
<1>7. TrapInv(old, prstatus[t], setpc[t]) /\ PlaceInv(old, armed[t], path[t], passed[t])
  BY Zenon DEF TraceInv, ThreadInv, old
<1>8. old.signo # "none"
  <2>1. NoStop.reported
    BY DEF NoStop
  <2> QED BY Zenon, <1>1, <1>7, <2>1 DEF TrapInv
<1>9. TrapInv(new, prstatus[t], setpc[t]) /\ PlaceInv(new, armed[t], path[t], passed[t])
  BY Zenon, <1>3, <1>7, <1>8 DEF TrapInv, PlaceInv
<1>10. ThreadInv(t)'
  BY Zenon, <1>4, <1>5, <1>9 DEF TraceInv, ThreadInv
<1> QED BY Zenon, <1>3, <1>4, <1>5, <1>6, <1>10, OneThread

\* A step that leaves all threads as they are.
LEMMA TraceStutter ==
  ASSUME TraceInv, UNCHANGED <<ptrace_tracer, ptrace_stop, hwdebug, prstatus, path, passed, armed, setpc>>
  PROVE  TraceInv'
BY Zenon DEF TraceInv, TraceTypes, ThreadInv

\* Every step of a tracer or a worker.
LEMMA TraceStep ==
  ASSUME TraceInv, [TraceNext]_traceVars
  PROVE  TraceInv'
<1>1. CASE TraceNext
  <2>1. PICK t \in Tids :
          \/ Attach(t) \/ Interrupt(t) \/ Detach(t) \/ Cont(t) \/ Command(t)
          \/ \E note \in Notes, count \in SlotCounts, n \in 0..Slots :
               \E written \in [1..n -> Addrs \cup {0}] : SetHwDebug(t, note, count, written)
          \/ \E npc \in Addrs : SetPrstatus(t, npc)
          \/ Wait4Report(t)
          \/ \E option \in WaitOptions : Wait4Other(t, option)
    BY Zenon, <1>1 DEF TraceNext
  <2>2. CASE Attach(t) \/ Interrupt(t) \/ Detach(t) \/ Cont(t) \/ Command(t) \/ Wait4Report(t)
    BY Zenon, <2>2, TrapStep, DetachStep, ContHitStep, FreeStep, ReportStep DEF Cont
  <2>3. CASE \E note \in Notes, count \in SlotCounts, n \in 0..Slots :
               \E written \in [1..n -> Addrs \cup {0}] : SetHwDebug(t, note, count, written)
    BY Zenon, <2>3, SetHwDebugStep
  <2>4. CASE \E npc \in Addrs : SetPrstatus(t, npc)
    BY Zenon, <2>4, SetPrstatusStep
  <2>5. CASE \E option \in WaitOptions : Wait4Other(t, option)
    BY Zenon, <2>5, TraceStutter DEF Wait4Other
  <2> QED BY Zenon, <2>1, <2>2, <2>3, <2>4, <2>5
<1>2. CASE UNCHANGED traceVars
  BY Zenon, <1>2, TraceStutter DEF traceVars
<1> QED BY Zenon, <1>1, <1>2

\* PTRACE_CONT from a trap, or from the start of a command, goes to the next
\* enabled address on the path.
LEMMA NextStep ==
  ASSUME TraceInv, NEW t \in Tids, Cont(t), path[t] # NoPath,
         ptrace_stop[t].signo = "trap" \/ passed[t] = 0,
         NEW ahead, ahead = {i \in passed[t] + 1..Len(path[t]) : path[t][i] \in EnabledAddrs(t)}
  PROVE  /\ ahead = {} => ptrace_stop'[t] = NoStop
         /\ ahead # {} => ptrace_stop'[t].signo = "trap" /\ ptrace_stop'[t].addr = path[t][Min(ahead)]
<1>1. Begin(path[t], LastHit(t)) = passed[t] + 1
  BY Zenon, BeginFacts
<1>2. /\ ahead = {} => PickHit(t) = 0
      /\ ahead # {} => PickHit(t) = path[t][Min(ahead)] /\ PickHit(t) \in EnabledAddrs(t)
  BY Zenon, <1>1, OnPath
<1>3. ahead # {} => PickHit(t) # 0
  BY Zenon, <1>2, EnabledFacts DEF EnabledAddrs
<1>4. CASE ahead = {}
  <2>1. ContFree(t)
    BY Zenon, <1>2, <1>4 DEF Cont, ContHit
  <2> QED BY Zenon, <1>4, <2>1, FreeStep
<1>5. CASE ahead # {}
  <2>1. ContHit(t)
    BY Zenon, <1>3, <1>5 DEF Cont, ContFree
  <2> QED BY Zenon, <1>2, <1>5, <2>1, ContHitStep
<1> QED BY Zenon, <1>4, <1>5

\* TrapsFaithful for any number of threads, addresses and slots: PTRACE_CONT
\* stops a worker at the next enabled address of its path and at no other, a
\* SIGTRAP is at an address armed since the last detach and shows it as its pc,
\* and wait4 reports each stop once and never makes one up.
THEOREM TracerSeesRealTraps == TraceSpec => TrapsFaithful
<1>1. TraceInit => TraceInv
  <2> SUFFICES ASSUME TraceInit PROVE TraceInv
    OBVIOUS
  <2>1. NoStop \in [signo : {"none", "stop", "trap"}, addr : Addrs \cup {0}, reported : BOOLEAN]
    BY Zenon DEF NoStop
  <2>2. [n \in Notes |-> Unset] \in [Notes -> Regsets]
    BY Zenon DEF Regsets, Unset
  <2>3. TraceTypes
    <3>1. 0 \in Nat
      OBVIOUS
    <3> QED BY Zenon, <2>1, <2>2, <3>1 DEF TraceInit, TraceTypes
  <2>4. ASSUME NEW t \in Tids PROVE ThreadInv(t)
    <3>1. TrapInv(NoStop, prstatus[t], setpc[t]) /\ PlaceInv(NoStop, armed[t], path[t], passed[t])
      BY DEF NoStop, TrapInv, PlaceInv
    <3>2. ArmedInv([n \in Notes |-> Unset], armed[t])
      BY Zenon DEF ArmedInv, Unset
    <3> QED BY Zenon, <3>1, <3>2 DEF TraceInit, ThreadInv
  <2> QED BY Zenon, <2>3, <2>4 DEF TraceInv
<1>2. TraceInv /\ [TraceNext]_traceVars => TraceInv'
  BY Zenon, TraceStep
<1>3. TraceInv => TraceTypeOK /\ TrapsWereArmed /\ PcAtTrap
  <2> SUFFICES ASSUME TraceInv PROVE TraceTypeOK /\ TrapsWereArmed /\ PcAtTrap
    OBVIOUS
  <2>1. TraceTypeOK
    <3>1. ASSUME NEW t \in Tids
          PROVE  /\ ptrace_stop[t].signo \in {"none", "stop", "trap"} /\ prstatus[t] \in Addrs \cup {0}
                 /\ path[t] \in Paths \cup {NoPath} /\ armed[t] \subseteq Addrs \cup {0}
      BY Zenon DEF TraceInv, TraceTypes
    <3>2. ASSUME NEW t \in Tids, NEW n \in Notes
          PROVE  hwdebug[t][n] \in [count : SlotCounts \cup {0}, addr : [1..Slots -> Addrs \cup {0}]]
      BY DEF TraceInv, TraceTypes, Regsets
    <3>3. ASSUME NEW t \in Tids
          PROVE  /\ ptrace_stop[t].addr \in IF ptrace_stop[t].signo = "trap" THEN Addrs ELSE {0}
                 /\ ptrace_stop[t].signo = "none" => ptrace_stop[t] = NoStop
      BY Zenon DEF TraceInv, ThreadInv, TrapInv
    <3>4. ptrace_tracer \subseteq Tids
      BY Zenon DEF TraceInv, TraceTypes
    <3> QED BY Zenon, <3>1, <3>2, <3>3, <3>4 DEF TraceTypeOK
  <2>2. TrapsWereArmed
    BY Zenon DEF TraceInv, ThreadInv, PlaceInv, TrapsWereArmed
  <2>3. PcAtTrap
    BY Zenon DEF TraceInv, ThreadInv, TrapInv, PcAtTrap, GetRegsetPc, Snapshot
  <2> QED BY Zenon, <2>1, <2>2, <2>3
<1>4. TraceInv /\ [TraceNext]_traceVars =>
        [\A t \in Tids :
           Cont(t) /\ path[t] # NoPath /\ (ptrace_stop[t].signo = "trap" \/ passed[t] = 0) =>
             StopsAtNext(t)]_traceVars
  BY Zenon, NextStep DEF StopsAtNext
<1>5. TraceInv /\ [TraceNext]_traceVars =>
        [answer' # answer /\ answer'.signo = "trap" => IsFirstReport(answer'.tid)]_traceVars
  <2> SUFFICES ASSUME TraceInv, TraceNext, answer' # answer, answer'.signo = "trap"
               PROVE  IsFirstReport(answer'.tid)
    BY Zenon
  <2>1. PICK t \in Tids : Wait4Report(t) \/ \E option \in WaitOptions : Wait4Other(t, option)
    BY Zenon DEF TraceNext, Attach, Interrupt, Detach, Cont, ContHit, ContFree, Command, SetHwDebug, SetPrstatus
  <2>2. Wait4Report(t)
    <3>1. ASSUME NEW option, Wait4Other(t, option) PROVE FALSE
      BY <3>1 DEF Wait4Other
    <3> QED BY Zenon, <2>1, <3>1
  <2>3. answer'.tid = t /\ ptrace_stop[t].signo = "trap"
    BY <2>2 DEF Wait4Report
  <2>4. ~ ptrace_stop[t].reported /\ ptrace_stop'[t].reported
    BY Zenon, <2>2, ReportStep DEF Wait4Report
  <2> QED BY Zenon, <2>3, <2>4 DEF IsFirstReport
<1> QED BY <1>1, <1>2, <1>3, <1>4, <1>5, PTL DEF TraceSpec, TrapsFaithful, NextExecuted, TrapsAreReal
=============================================================================
