-------------------------- MODULE DispatcherProofs --------------------------
(***************************************************************************)
(* Proofs about Dispatcher for every number of tasks, words and pipes: the *)
(* types, the conservation of tasks and the refinement of CoopTasks; then  *)
(* the order of tasks within a pass, and what it implies: no merge is      *)
(* skipped, new threads come first, nothing that could run is left when a  *)
(* call returns, and a call returns its own result.  Last, the mutual      *)
(* exclusion of BionicMutex.                                               *)
(***************************************************************************)
EXTENDS BionicMutex, TLAPS

-----------------------------------------------------------------------------
(* Lists of tasks as sets without repetition *)

\* A concatenation holds the elements of both parts.
LEMMA ToSetConcat ==
  ASSUME NEW S, NEW s \in Seq(S), NEW t \in Seq(S)
  PROVE  ToSet(s \o t) = ToSet(s) \cup ToSet(t)
<1>1. ASSUME NEW i \in DOMAIN (s \o t) PROVE (s \o t)[i] \in ToSet(s) \cup ToSet(t)
  <2>1. CASE i <= Len(s)
    BY <2>1, <1>1 DEF ToSet
  <2>2. CASE i > Len(s)
    <3>1. i - Len(s) \in DOMAIN t /\ (s \o t)[i] = t[i - Len(s)]
      BY <2>2, <1>1
    <3>2. QED BY Zenon, <3>1 DEF ToSet
  <2>3. QED BY <2>1, <2>2, <1>1
<1>2. ASSUME NEW i \in DOMAIN s PROVE s[i] \in ToSet(s \o t)
  <2>1. i \in DOMAIN (s \o t) /\ (s \o t)[i] = s[i] BY <1>2
  <2>2. QED BY Zenon, <2>1 DEF ToSet
<1>3. ASSUME NEW i \in DOMAIN t PROVE t[i] \in ToSet(s \o t)
  <2>1. i + Len(s) \in DOMAIN (s \o t) /\ (s \o t)[i + Len(s)] = t[i] BY <1>3
  <2>2. QED BY Zenon, <2>1 DEF ToSet
<1>4. QED BY Zenon, <1>1, <1>2, <1>3 DEF ToSet

\* A concatenation has no repetition iff its parts have none and share nothing.
LEMMA DistinctConcat ==
  ASSUME NEW S, NEW s \in Seq(S), NEW t \in Seq(S)
  PROVE  Distinct(s \o t) <=>
           Distinct(s) /\ Distinct(t) /\ ToSet(s) \cap ToSet(t) = {}
<1>1. ASSUME Distinct(s \o t)
      PROVE  Distinct(s) /\ Distinct(t) /\ ToSet(s) \cap ToSet(t) = {}
  <2>1. Distinct(s)
    BY <1>1 DEF Distinct
  <2>2. ASSUME NEW i \in DOMAIN t, NEW j \in DOMAIN t, i # j PROVE t[i] # t[j]
    <3>1. /\ i + Len(s) \in DOMAIN (s \o t) /\ (s \o t)[i + Len(s)] = t[i]
          /\ j + Len(s) \in DOMAIN (s \o t) /\ (s \o t)[j + Len(s)] = t[j]
          /\ i + Len(s) # j + Len(s)
      BY <2>2
    <3>2. QED BY Zenon, <3>1, <1>1 DEF Distinct
  <2>3. ASSUME NEW i \in DOMAIN s, NEW j \in DOMAIN t PROVE s[i] # t[j]
    <3>1. /\ i \in DOMAIN (s \o t) /\ (s \o t)[i] = s[i]
          /\ j + Len(s) \in DOMAIN (s \o t) /\ (s \o t)[j + Len(s)] = t[j]
          /\ i # j + Len(s)
      BY <2>3
    <3>2. QED BY Zenon, <3>1, <1>1 DEF Distinct
  <2>4. QED BY Zenon, <2>1, <2>2, <2>3 DEF Distinct, ToSet
<1>2. ASSUME Distinct(s), Distinct(t), ToSet(s) \cap ToSet(t) = {}
      PROVE  Distinct(s \o t)
  <2>1. \A i \in DOMAIN s, j \in DOMAIN t : s[i] # t[j]
    BY Zenon, <1>2 DEF ToSet
  <2>2. SUFFICES ASSUME NEW i \in DOMAIN (s \o t), NEW j \in DOMAIN (s \o t), i < j
                 PROVE  (s \o t)[i] # (s \o t)[j]
    BY DEF Distinct
  <2>3. CASE j <= Len(s)
    BY <2>3, <2>2, <1>2 DEF Distinct
  <2>4. CASE i <= Len(s) /\ j > Len(s)
    <3>1. i \in DOMAIN s /\ j - Len(s) \in DOMAIN t BY <2>4, <2>2
    <3>2. (s \o t)[i] = s[i] /\ (s \o t)[j] = t[j - Len(s)] BY <2>4, <2>2
    <3>3. QED BY Zenon, <3>1, <3>2, <2>1
  <2>5. CASE i > Len(s)
    <3>1. /\ i - Len(s) \in DOMAIN t /\ j - Len(s) \in DOMAIN t
          /\ i - Len(s) # j - Len(s)
      BY <2>5, <2>2
    <3>2. (s \o t)[i] = t[i - Len(s)] /\ (s \o t)[j] = t[j - Len(s)] BY <2>5, <2>2
    <3>3. QED BY Zenon, <3>1, <3>2, <1>2 DEF Distinct
  <2>6. QED BY <2>3, <2>4, <2>5, <2>2
<1>3. QED BY Zenon, <1>1, <1>2

\* A one-element list.
LEMMA Singleton ==
  ASSUME NEW S, NEW x \in S
  PROVE  <<x>> \in Seq(S) /\ ToSet(<<x>>) = {x} /\ Distinct(<<x>>)
BY DEF ToSet, Distinct

\* The empty list.
LEMMA EmptyList ==
  ASSUME NEW S
  PROVE  <<>> \in Seq(S) /\ ToSet(<<>>) = {} /\ Distinct(<<>>)
BY DEF ToSet, Distinct

\* The head of a list without repetition is not in its tail.
LEMMA HeadAndTail ==
  ASSUME NEW S, NEW s \in Seq(S), s # <<>>
  PROVE  /\ Head(s) \in S /\ Tail(s) \in Seq(S)
         /\ ToSet(s) = {Head(s)} \cup ToSet(Tail(s))
         /\ Distinct(s) => Distinct(Tail(s)) /\ Head(s) \notin ToSet(Tail(s))
<1>1. /\ Head(s) \in S /\ Tail(s) \in Seq(S) /\ Len(Tail(s)) = Len(s) - 1
      /\ \A i \in 1..Len(Tail(s)) : Tail(s)[i] = s[i + 1]
  OBVIOUS
<1>2. Head(s) = s[1] /\ Len(s) \in Nat /\ Len(s) > 0 /\ DOMAIN s = 1..Len(s)
  OBVIOUS
<1>3. DOMAIN Tail(s) = 1..(Len(s) - 1)
  BY <1>1
<1>4. \A i \in 1..(Len(s) - 1) : i + 1 \in DOMAIN s /\ i + 1 # 1 /\ Tail(s)[i] = s[i + 1]
  BY <1>1, <1>2
<1>5. \A i \in DOMAIN s : i = 1 \/ (i - 1 \in 1..(Len(s) - 1) /\ s[i] = Tail(s)[i - 1])
  BY <1>1, <1>2
<1>6. ToSet(s) = {Head(s)} \cup ToSet(Tail(s))
  <2>1. \A i \in DOMAIN s : s[i] \in {Head(s)} \cup ToSet(Tail(s))
    BY Zenon, <1>2, <1>3, <1>5 DEF ToSet
  <2>2. \A i \in DOMAIN Tail(s) : Tail(s)[i] \in ToSet(s)
    BY Zenon, <1>3, <1>4 DEF ToSet
  <2>3. Head(s) \in ToSet(s)
    BY <1>2 DEF ToSet
  <2>4. QED BY Zenon, <2>1, <2>2, <2>3 DEF ToSet
<1>7. ASSUME Distinct(s) PROVE Distinct(Tail(s)) /\ Head(s) \notin ToSet(Tail(s))
  <2>1. ASSUME NEW i \in DOMAIN Tail(s), NEW j \in DOMAIN Tail(s), i # j
        PROVE  Tail(s)[i] # Tail(s)[j]
    BY <2>1, <1>3, <1>4, <1>7 DEF Distinct
  <2>2. ASSUME NEW i \in DOMAIN Tail(s) PROVE Head(s) # Tail(s)[i]
    BY <1>2, <1>3, <1>4, <1>7 DEF Distinct
  <2>3. QED BY Zenon, <2>1, <2>2 DEF Distinct, ToSet
<1>8. QED BY Zenon, <1>1, <1>6, <1>7

\* Appending is concatenation with a one-element list.
LEMMA AppendConcat ==
  ASSUME NEW S, NEW s \in Seq(S), NEW x \in S
  PROVE  Append(s, x) = s \o <<x>> /\ Append(s, x) \in Seq(S)
OBVIOUS

\* Appending a new element keeps a list free of repetition.
LEMMA AppendList ==
  ASSUME NEW S, NEW s \in Seq(S), NEW x \in S
  PROVE  /\ Append(s, x) \in Seq(S)
         /\ ToSet(Append(s, x)) = ToSet(s) \cup {x}
         /\ Distinct(s) /\ x \notin ToSet(s) => Distinct(Append(s, x))
<1> DEFINE u == <<x>>
<1>1. Append(s, x) \in Seq(S) /\ Append(s, x) = s \o u
  BY Zenon, AppendConcat
<1>2. u \in Seq(S) /\ ToSet(u) = {x} /\ Distinct(u)
  BY Zenon, Singleton
<1> HIDE DEF u
<1>3. QED BY <1>1, <1>2, ToSetConcat, DistinctConcat

\* Reversing keeps the elements and their distinctness.
LEMMA ReverseList ==
  ASSUME NEW S, NEW s \in Seq(S)
  PROVE  /\ Reverse(s) \in Seq(S)
         /\ ToSet(Reverse(s)) = ToSet(s)
         /\ Distinct(s) => Distinct(Reverse(s))
<1>1. Reverse(s) \in Seq(S) /\ DOMAIN Reverse(s) = DOMAIN s
  BY DEF Reverse
<1>2. \A i \in DOMAIN s : /\ (Len(s) - i) + 1 \in DOMAIN s
                          /\ Reverse(s)[i] = s[(Len(s) - i) + 1]
  BY DEF Reverse
<1>3. \A i \in DOMAIN s : (Len(s) - ((Len(s) - i) + 1)) + 1 = i
  OBVIOUS
<1>4. ToSet(Reverse(s)) = ToSet(s)
  BY <1>1, <1>2, <1>3 DEF ToSet
<1>5. ASSUME Distinct(s) PROVE Distinct(Reverse(s))
  BY <1>1, <1>2, <1>5 DEF Distinct
<1>6. QED BY Zenon, <1>1, <1>4, <1>5

-----------------------------------------------------------------------------
(* Waiters *)

\* The kind of a waiter decides which record it is.
LEMMA WaiterKinds ==
  ASSUME NEW w \in Waiters
  PROVE  /\ IsFutex(w) => w \in FutexWaiters
         /\ IsOneShot(w) => w \in PipeWaiters
         /\ w.kind = "child" => w \in ChildWaiters
         /\ w.kind = "none" => w = NoWaiter
BY DEF Waiters, IsFutex, IsOneShot, NoWaiter, FutexWaiters, PipeWaiters, ChildWaiters

\* What the dispatcher does to a waiter leaves a waiter.
LEMMA WaiterUpdates ==
  ASSUME NEW w \in Waiters
  PROVE  /\ NoWaiter \in Waiters
         /\ Refused(w) \in Waiters
         /\ IsFutex(w) => [w EXCEPT !.woken = TRUE] \in Waiters
         /\ w.kind = "timed" /\ w.left > 0 => [w EXCEPT !.left = @ - 1] \in Waiters
<1>1. NoWaiter \in Waiters BY Zenon DEF Waiters
<1>2. Refused(w) \in Waiters
  BY Zenon, WaiterKinds DEF Refused, PipeWaiters, Waiters
<1>3. IsFutex(w) => [w EXCEPT !.woken = TRUE] \in Waiters
  BY Zenon, WaiterKinds DEF FutexWaiters, Waiters
<1>4. w.kind = "timed" /\ w.left > 0 => [w EXCEPT !.left = @ - 1] \in Waiters
  BY WaiterKinds DEF FutexWaiters, Waiters, IsFutex
<1>5. QED BY Zenon, <1>1, <1>2, <1>3, <1>4

\* A resumed wait leaves one of the known results in X0.
LEMMA ResumeResult ==
  ASSUME NEW w \in Waiters
  PROVE  ResumeValue(w) \in Results
BY Zenon DEF ResumeValue, Results

\* FUTEX_WAKE leaves waiters.
LEMMA WakeType ==
  ASSUME TypeOK, NEW a, NEW n
  PROVE  WakeFutex(a, n) \in [Tasks -> Waiters]
<1> DEFINE waits(i) == IsFutex(waiter[AllTasks[i]]) /\ waiter[AllTasks[i]].addr = a
           hit == {AllTasks[i] : i \in {j \in 1..Len(AllTasks) :
                     /\ waits(j)
                     /\ Cardinality({k \in 1..(j - 1) : waits(k)}) < n}}
<1>1. \A t \in hit : IsFutex(waiter[t])
  BY Zenon
<1>2. \A t \in Tasks : (IF t \in hit THEN [waiter[t] EXCEPT !.woken = TRUE] ELSE waiter[t])
                         \in Waiters
  <2> HIDE DEF hit
  <2>1. QED BY Zenon, <1>1, WaiterUpdates DEF TypeOK
<1>3. WakeFutex(a, n) = [t \in Tasks |-> IF t \in hit THEN [waiter[t] EXCEPT !.woken = TRUE]
                                                      ELSE waiter[t]]
  BY Zenon DEF WakeFutex
<1> HIDE DEF hit
<1>4. QED BY Zenon, <1>2, <1>3

\* Reading a pipe never goes past its end.
LEMMA ReadType ==
  ASSUME TypeOK, NEW w \in Waiters
  PROVE  /\ \A p \in Pipes : Consume(p) \subseteq [Pipes -> 0..MaxUnread]
         /\ ResumeUnread(w) \subseteq [Pipes -> 0..MaxUnread]
<1>1. ASSUME NEW p \in Pipes,
             NEW n \in (IF unread[p] = 0 THEN {0} ELSE 0..(unread[p] - 1))
      PROVE  [unread EXCEPT ![p] = n] \in [Pipes -> 0..MaxUnread]
  <2>1. unread[p] \in 0..MaxUnread BY Zenon DEF TypeOK
  <2>2. n \in 0..MaxUnread BY <2>1, <1>1, ConstantsAssumption
  <2>3. QED BY Zenon, <2>2 DEF TypeOK
<1>2. \A p \in Pipes : Consume(p) \subseteq [Pipes -> 0..MaxUnread]
  BY <1>1 DEF Consume
<1>3. w.kind = "pipe" => w.pipes \subseteq Pipes
  BY Zenon, WaiterKinds DEF IsOneShot, PipeWaiters
<1>4. ResumeUnread(w) \subseteq [Pipes -> 0..MaxUnread]
  BY Zenon, <1>2, <1>3 DEF ResumeUnread, TypeOK
<1>5. QED BY Zenon, <1>2, <1>4

-----------------------------------------------------------------------------
(* The inductive invariant *)

\* How the locals of run() relate to each other and to the states of the tasks.
LoopInv ==
  /\ finished \subseteq {t \in Threads : status[t] = "X"}
  /\ \A t \in Tasks : status[t] = "R" <=> (pc \in {"slice", "exited"} /\ t = runningTask)
  /\ pc \in {"idle", "pass", "alive"} =>
       kept = <<>> /\ scheduled = <<>> /\ ~ran /\ mainRet = NoTask
  /\ pc \in {"slice", "exited"} => ran /\ mainRet = NoTask /\ runningTask \in Tasks
  /\ mainRet # NoTask => ran /\ scheduled = <<>>

\* TasksConserved with the lists as disjoint sets.
Conserved ==
  /\ Distinct(threadTask)
  /\ pc \in {"idle", "pass", "alive"} =>
       /\ Distinct(taskList)
       /\ ToSet(taskList) \cap ToSet(threadTask) = {}
       /\ ToSet(taskList) \cup ToSet(threadTask) = Live
  /\ pc \in {"scan", "slice", "exited"} =>
       /\ Distinct(kept) /\ Distinct(scheduled)
       /\ ToSet(kept) \cap ToSet(scheduled) = {}
       /\ ToSet(kept) \cap ToSet(threadTask) = {}
       /\ ToSet(scheduled) \cap ToSet(threadTask) = {}
  /\ pc = "scan" => ToSet(kept) \cup ToSet(scheduled) \cup ToSet(threadTask) = Live
  /\ pc \in {"slice", "exited"} =>
       /\ runningTask \notin ToSet(kept) \cup ToSet(scheduled) \cup ToSet(threadTask)
       /\ ToSet(kept) \cup ToSet(scheduled) \cup ToSet(threadTask) \cup {runningTask} = Live

IndInv == TypeOK /\ LoopInv /\ Conserved

\* The sets of Conserved are the elements of Population.
LEMMA ConservedImplies ==
  ASSUME TypeOK, LoopInv, Conserved PROVE TasksConserved
<1> USE DEF TypeOK
<1>0. threadTask \in Seq(Tasks)
  BY DEF Tasks
<1>1. CASE pc \in {"idle", "pass", "alive"}
  <2>1. Population = taskList \o threadTask
    BY ZenonT(30), <1>1 DEF Population
  <2>2. ToSet(Population) = ToSet(taskList) \cup ToSet(threadTask)
    BY <2>1, <1>0, ToSetConcat
  <2>3. Distinct(Population)
    BY Zenon, <2>1, <1>0, <1>1, DistinctConcat DEF Conserved
  <2>4. QED BY Zenon, <2>2, <2>3, <1>1 DEF Conserved, TasksConserved
<1>2. CASE pc = "scan"
  <2> DEFINE front == kept \o scheduled
  <2>1. /\ front \in Seq(Tasks)
        /\ ToSet(front) = ToSet(kept) \cup ToSet(scheduled)
        /\ Distinct(front)
    BY <1>2, ToSetConcat, DistinctConcat DEF Conserved
  <2>2. Population = front \o threadTask
    BY Zenon, <1>2 DEF Population
  <2> HIDE DEF front
  <2>3. ToSet(Population) = ToSet(front) \cup ToSet(threadTask)
    BY <2>1, <2>2, <1>0, ToSetConcat
  <2>4. Distinct(Population)
    BY <2>1, <2>2, <1>0, <1>2, DistinctConcat DEF Conserved
  <2>5. QED BY Zenon, <2>1, <2>3, <2>4, <1>2 DEF Conserved, TasksConserved
<1>3. CASE pc \in {"slice", "exited"}
  <2> DEFINE run    == <<runningTask>>
             upto   == kept \o run
             front  == upto \o scheduled
  <2>0. Population = front \o threadTask
    BY Zenon, <1>3 DEF Population
  <2>1. run \in Seq(Tasks) /\ ToSet(run) = {runningTask} /\ Distinct(run)
    BY Zenon, <1>3, Singleton DEF LoopInv
  <2> HIDE DEF run
  <2>2. /\ upto \in Seq(Tasks)
        /\ ToSet(upto) = ToSet(kept) \cup {runningTask}
        /\ Distinct(upto)
    BY <2>1, <1>3, ToSetConcat, DistinctConcat DEF Conserved
  <2> HIDE DEF upto
  <2>3. /\ front \in Seq(Tasks)
        /\ ToSet(front) = ToSet(kept) \cup {runningTask} \cup ToSet(scheduled)
        /\ Distinct(front)
    BY <2>2, <1>3, ToSetConcat, DistinctConcat DEF Conserved
  <2> HIDE DEF front
  <2>4. ToSet(Population) = ToSet(front) \cup ToSet(threadTask)
    BY <2>0, <2>3, <1>0, ToSetConcat
  <2>5. Distinct(Population)
    BY <2>0, <2>3, <1>0, <1>3, DistinctConcat DEF Conserved
  <2>6. QED BY Zenon, <2>3, <2>4, <2>5, <1>3 DEF Conserved, TasksConserved
<1>4. QED BY Zenon, <1>1, <1>2, <1>3

\* retain() after run() removes nothing: a list of live tasks holds no finished one.
LEMMA RetainAll ==
  ASSUME TypeOK, LoopInv, NEW s \in Seq(Tasks), ToSet(s) \subseteq Live
  PROVE  Retain(s) = s
<1>1. ASSUME NEW i \in DOMAIN s PROVE ~IsFinish(s[i])
  <2>1. s[i] \in Live BY Zenon DEF ToSet
  <2>2. QED BY Zenon, <2>1, ConstantsAssumption DEF Live, IsFinish, LoopInv, Tasks
<1>2. QED BY Zenon, <1>1 DEF Retain

-----------------------------------------------------------------------------
(* The steps of a slice preserve the invariant *)

\* The parts of the type invariant that a step of a slice may change.
SliceTypes ==
  /\ waiter \in [Tasks -> Waiters]
  /\ saved \in [Tasks -> BOOLEAN]
  /\ tidPtr \in [Threads -> Words \cup {NoAddr}]
  /\ fork \in [Threads -> {"none", "alive", "dead"}]
  /\ mem \in [Words -> Vals \cup {Unmapped}]
  /\ unread \in [Pipes -> 0..MaxUnread]
  /\ x0 \in Results

\* A call that returns to the guest and creates nothing.
LEMMA ContinueStep ==
  ASSUME IndInv, pc = "slice", steps > 0, steps' = steps - 1, SliceTypes',
         UNCHANGED <<loop, host, threadTask, status, finished>>
  PROVE  IndInv'
<1>1. TypeOK'
  BY ConstantsAssumption DEF IndInv, TypeOK, SliceTypes, loop, host
<1>2. LoopInv'
  BY Zenon DEF IndInv, LoopInv, loop
<1>3. Conserved'
  BY Zenon DEF IndInv, Conserved, Live, loop
<1>4. QED BY Zenon, <1>1, <1>2, <1>3 DEF IndInv

\* clone and fork: a new task enters thread_task.
LEMMA SpawnStep ==
  ASSUME IndInv, pc = "slice", steps > 0, steps' = steps - 1, SliceTypes',
         NEW t \in Threads, status[t] = "N",
         threadTask' = Append(threadTask, t), status' = [status EXCEPT ![t] = "Z"],
         UNCHANGED <<loop, host, finished>>
  PROVE  IndInv'
<1> USE DEF IndInv
<1>1. t \in Tasks /\ t \notin Live /\ Live' = Live \cup {t}
  BY Zenon DEF TypeOK, Live, Tasks
<1>2. /\ threadTask' \in Seq(Threads)
      /\ ToSet(threadTask') = ToSet(threadTask) \cup {t}
      /\ Distinct(threadTask) /\ t \notin ToSet(threadTask) => Distinct(threadTask')
  BY AppendList DEF TypeOK
<1>3. TypeOK'
  BY <1>1, <1>2, ConstantsAssumption DEF TypeOK, SliceTypes, loop, host
<1>4. LoopInv'
  BY <1>1 DEF TypeOK, LoopInv, loop
<1>5. Conserved'
  BY <1>1, <1>2 DEF Conserved, loop
<1>6. QED BY Zenon, <1>3, <1>4, <1>5

\* A park or a yield: the running task goes to the kept list.
LEMMA SuspendStep ==
  ASSUME IndInv, pc = "slice", NEW w \in Waiters, Suspend(w)
  PROVE  IndInv'
<1> USE DEF IndInv
<1>1. runningTask \in Tasks /\ status[runningTask] = "R" /\ mainRet = NoTask /\ ran
  BY Zenon DEF LoopInv
<1>2. /\ kept' \in Seq(Tasks)
      /\ ToSet(kept') = ToSet(kept) \cup {runningTask}
      /\ Distinct(kept) /\ runningTask \notin ToSet(kept) => Distinct(kept')
  BY <1>1, AppendList DEF TypeOK, Suspend
<1>3. Live' = Live
  BY Zenon, <1>1 DEF TypeOK, Live, Suspend
<1>4. TypeOK'
  BY <1>1, <1>2, ConstantsAssumption DEF TypeOK, Suspend, host, Results
<1>5. LoopInv'
  BY <1>1 DEF TypeOK, LoopInv, Suspend
<1>6. Conserved'
  BY <1>1, <1>2, <1>3 DEF Conserved, Suspend
<1>7. QED BY Zenon, <1>4, <1>5, <1>6

\* An exit, a return or a fault: the running task leaves the lists.
LEMMA DropStep ==
  ASSUME IndInv, pc = "slice", Drop,
         waiter' \in [Tasks -> Waiters], mem' \in [Words -> Vals \cup {Unmapped}],
         fork' \in [Threads -> {"none", "alive", "dead"}],
         finished' \subseteq finished \cup ({runningTask} \cap Threads)
  PROVE  IndInv'
<1> USE DEF IndInv
<1>1. runningTask \in Tasks /\ status[runningTask] = "R" /\ mainRet = NoTask /\ ran
  BY Zenon DEF LoopInv
<1>2. Live' = Live \ {runningTask}
  BY Zenon, <1>1 DEF TypeOK, Live, Drop
<1>3. /\ kept' \in Seq(Tasks) /\ scheduled' \in Seq(Tasks)
      /\ Distinct(kept') /\ Distinct(scheduled')
      /\ ToSet(kept') \cup ToSet(scheduled') = ToSet(kept) \cup ToSet(scheduled)
      /\ ToSet(kept') \cap ToSet(scheduled') = {}
  <2>1. CASE runningTask \in Mains
    <3>1. kept' = kept \o scheduled /\ scheduled' = <<>>
      BY Zenon, <2>1 DEF Drop
    <3>2. /\ kept' \in Seq(Tasks) /\ Distinct(kept')
          /\ ToSet(kept') = ToSet(kept) \cup ToSet(scheduled)
      BY <3>1, ToSetConcat, DistinctConcat DEF TypeOK, Conserved
    <3>3. scheduled' \in Seq(Tasks) /\ ToSet(scheduled') = {} /\ Distinct(scheduled')
      BY Zenon, <3>1, EmptyList
    <3>4. QED BY Zenon, <3>2, <3>3
  <2>2. CASE runningTask \notin Mains
    BY Zenon, <2>2 DEF Drop, TypeOK, Conserved
  <2>3. QED BY Zenon, <2>1, <2>2
<1>4. TypeOK'
  <2>1. mainRet' \in Mains \cup {NoTask} /\ finished' \subseteq Threads
    BY Zenon DEF TypeOK, Drop
  <2>2. status' \in [Tasks -> {"N", "Z", "R", "S", "X"}]
    BY Zenon DEF TypeOK, Drop
  <2>3. steps' \in 0..MaxSteps /\ x0' \in Results /\ pc' = "scan"
    BY ConstantsAssumption DEF Drop, Results
  <2>4. UNCHANGED <<taskList, ran, runningTask, threadTask, call, answer, inThread, saved,
                   tidPtr, unread>>
    BY Zenon DEF Drop, host
  <2>5. QED BY Zenon, <2>1, <2>2, <2>3, <2>4, <1>3 DEF TypeOK
<1>5. LoopInv'
  BY <1>1 DEF TypeOK, LoopInv, Drop
<1>6. Conserved'
  <2>1. /\ pc' = "scan" /\ threadTask' = threadTask
    BY Zenon DEF Drop
  <2>2. QED BY <2>1, <1>2, <1>3 DEF Conserved
<1>7. QED BY Zenon, <1>4, <1>5, <1>6

\* The records with which a task parks are waiters.
LEMMA ParkRecords ==
  /\ \A a \in Words, v \in Vals, n \in Nat, k \in {"futex", "timed"} :
       [kind |-> k, addr |-> a, val |-> v, woken |-> FALSE, left |-> n] \in Waiters
  /\ \A k \in {"pipe", "poll"}, S \in SUBSET Pipes :
       [kind |-> k, pipes |-> S, yielded |-> FALSE] \in Waiters
  /\ \A c \in Threads : [kind |-> "child", child |-> c] \in Waiters
  /\ NoWaiter \in Waiters
BY Zenon DEF Waiters, FutexWaiters, PipeWaiters, ChildWaiters

\* Every step of a slice preserves the invariant.
LEMMA GuestStep ==
  ASSUME IndInv, Guest PROVE IndInv'
<1> USE DEF IndInv
<1>0. SliceTypes
  BY Zenon DEF TypeOK, SliceTypes
<1>1. ASSUME NEW a \in Words, NEW v \in GuestVals, Store(a, v) PROVE IndInv'
  <2>1. SliceTypes'
    BY Zenon, <1>0, <1>1 DEF Store, Continue, SliceTypes, Vals, tasks
  <2>2. QED BY Zenon, <2>1, <1>1, ContinueStep DEF Store, Slice, Continue, tasks
<1>2. ASSUME NEW a \in Words, Unmap(a) PROVE IndInv'
  <2>1. SliceTypes'
    BY Zenon, <1>0, <1>2 DEF Unmap, Continue, SliceTypes, Results, tasks
  <2>2. QED BY Zenon, <2>1, <1>2, ContinueStep DEF Unmap, Slice, Continue, tasks
<1>3. ASSUME NEW a \in Words, NEW v \in Vals, FutexWaitAgain(a, v) PROVE IndInv'
  <2>1. SliceTypes'
    BY Zenon, <1>0, <1>3 DEF FutexWaitAgain, Continue, SliceTypes, Results, tasks
  <2>2. QED BY Zenon, <2>1, <1>3, ContinueStep DEF FutexWaitAgain, Slice, Continue, tasks
<1>4. ASSUME NEW a \in Words, NEW v \in Vals, FutexWaitPark(a, v) PROVE IndInv'
  <2>1. PICK w \in Waiters : Suspend(w)
    BY ZenonT(30), <1>4, ParkRecords, ConstantsAssumption DEF FutexWaitPark
  <2>2. QED BY Zenon, <2>1, <1>4, SuspendStep DEF FutexWaitPark, Slice
<1>5. ASSUME NEW a \in Words, NEW n, FutexWake(a, n) PROVE IndInv'
  <2>1. SliceTypes'
    BY Zenon, <1>0, <1>5, WakeType DEF FutexWake, Continue, SliceTypes, Results
  <2>2. QED BY Zenon, <2>1, <1>5, ContinueStep DEF FutexWake, Slice, Continue
<1>6. ASSUME NEW a \in Words \cup {NoAddr}, SetTidAddress(a) PROVE IndInv'
  <2>1. SliceTypes'
    BY Zenon, <1>0, <1>6 DEF SetTidAddress, Continue, SliceTypes, Results
  <2>2. QED BY Zenon, <2>1, <1>6, ContinueStep DEF SetTidAddress, Slice, Continue
<1>7. ASSUME NEW t \in Threads, NEW a \in Words \cup {NoAddr}, NEW b \in Words \cup {NoAddr},
             Clone(t, a, b)
      PROVE  IndInv'
  <2>1. SliceTypes'
    BY Zenon, <1>0, <1>7 DEF Clone, Continue, SliceTypes, Results, Vals
  <2>2. QED BY ZenonT(30), <2>1, <1>7, SpawnStep DEF Clone, Slice, Continue
<1>8. ASSUME NEW t \in Threads, Fork(t) PROVE IndInv'
  <2>1. SliceTypes'
    BY ZenonT(30), <1>0, <1>8 DEF Fork, Continue, SliceTypes, Results
  <2>2. QED BY Zenon, <2>1, <1>8, SpawnStep DEF Fork, Slice, Continue
<1>9. ASSUME NEW t \in Threads, CreateFails(t) PROVE IndInv'
  <2>1. t \in Tasks /\ Live' = Live
    BY Zenon, <1>9 DEF CreateFails, Live, TypeOK, Tasks
  <2>2. TypeOK'
    <3>1. status' \in [Tasks -> {"N", "Z", "R", "S", "X"}]
      BY Zenon, <1>9 DEF CreateFails, TypeOK
    <3>2. steps' \in 0..MaxSteps /\ x0' \in Results
      BY <1>9, ConstantsAssumption DEF CreateFails, Slice, Continue, TypeOK, Results
    <3>3. UNCHANGED <<loop, host, threadTask, waiter, saved, finished, tidPtr, fork, mem,
                     unread>>
      BY Zenon, <1>9 DEF CreateFails, Continue
    <3>4. QED BY <3>1, <3>2, <3>3 DEF TypeOK, loop, host
  <2>3. LoopInv'
    BY <1>9, <2>1 DEF CreateFails, Slice, Continue, TypeOK, LoopInv, loop
  <2>4. Conserved'
    BY ZenonT(30), <1>9, <2>1 DEF CreateFails, Continue, Conserved, loop
  <2>5. QED BY Zenon, <2>2, <2>3, <2>4
<1>10. ASSUME NEW t \in Threads, NEW b, Wait4(t, b) PROVE IndInv'
  <2>1. CASE Suspend([kind |-> "child", child |-> t])
    BY Zenon, <2>1, <1>10, ParkRecords, SuspendStep DEF Wait4, Slice
  <2>2. CASE ~Suspend([kind |-> "child", child |-> t])
    <3>1. SliceTypes'
      BY Zenon, <1>0, <1>10, <2>2 DEF Wait4, Continue, SliceTypes, Results, tasks
    <3>2. QED BY Zenon, <3>1, <1>10, <2>2, ContinueStep DEF Wait4, Slice, Continue, tasks
  <2>3. QED BY Zenon, <2>1, <2>2
<1>11. ASSUME NEW p \in Pipes, PipeRead(p) PROVE IndInv'
  <2>1. CASE Suspend([kind |-> "pipe", pipes |-> {p}, yielded |-> FALSE])
    BY Zenon, <2>1, <1>11, ParkRecords, SuspendStep DEF PipeRead, Slice
  <2>2. CASE ~Suspend([kind |-> "pipe", pipes |-> {p}, yielded |-> FALSE])
    <3>1. unread' \in [Pipes -> 0..MaxUnread]
      BY Zenon, <1>11, <2>2, ReadType, WaiterUpdates, ParkRecords DEF PipeRead
    <3>2. SliceTypes'
      BY Zenon, <1>0, <1>11, <2>2, <3>1 DEF PipeRead, Continue, SliceTypes, Results, tasks
    <3>3. QED BY Zenon, <3>2, <1>11, <2>2, ContinueStep DEF PipeRead, Slice, Continue, tasks
  <2>3. QED BY Zenon, <2>1, <2>2
<1>12. ASSUME NEW p \in Pipes, PipeWrite(p) PROVE IndInv'
  <2>1. unread' \in [Pipes -> 0..MaxUnread]
    BY <1>12, ConstantsAssumption DEF PipeWrite, TypeOK
  <2>2. SliceTypes'
    BY Zenon, <1>0, <1>12, <2>1 DEF PipeWrite, Continue, SliceTypes, Results, tasks
  <2>3. QED BY Zenon, <2>2, <1>12, ContinueStep DEF PipeWrite, Slice, Continue, tasks
<1>13. ASSUME NEW S \in SUBSET Pipes, Ppoll(S) PROVE IndInv'
  <2> DEFINE w == [kind |-> "poll", pipes |-> S, yielded |-> FALSE]
  <2>1. w \in Waiters BY Zenon, ParkRecords
  <2>2. \/ Suspend(w)
        \/ /\ Continue("data") \/ Continue("zero")
           /\ UNCHANGED <<threadTask, tasks, mem, unread>>
    BY Zenon, <1>13 DEF Ppoll
  <2>3. CASE Suspend(w)
    BY Zenon, <2>1, <2>3, <1>13, SuspendStep DEF Ppoll, Slice
  <2>4. CASE /\ Continue("data") \/ Continue("zero")
             /\ UNCHANGED <<threadTask, tasks, mem, unread>>
    <3>1. SliceTypes'
      BY Zenon, <1>0, <2>4 DEF Continue, SliceTypes, Results, tasks
    <3>2. QED BY Zenon, <3>1, <2>4, <1>13, ContinueStep DEF Ppoll, Slice, Continue, tasks
  <2>5. QED BY Zenon, <2>2, <2>3, <2>4
<1>14. ASSUME Yield PROVE IndInv'
  <2>1. CASE Suspend(NoWaiter)
    BY Zenon, <2>1, <1>14, ParkRecords, SuspendStep DEF Yield, Slice
  <2>2. CASE ~Suspend(NoWaiter)
    <3>1. SliceTypes'
      BY Zenon, <1>0, <1>14, <2>2 DEF Yield, Continue, SliceTypes, Results, tasks
    <3>2. QED BY Zenon, <3>1, <1>14, <2>2, ContinueStep DEF Yield, Slice, Continue, tasks
  <2>3. QED BY Zenon, <2>1, <2>2
<1>15. ASSUME ExitThread PROVE IndInv'
  <2>1. waiter' \in [Tasks -> Waiters]
    BY Zenon, <1>15, WakeType DEF ExitThread, TypeOK
  <2>2. mem' \in [Words -> Vals \cup {Unmapped}]
    BY Zenon, <1>15, ConstantsAssumption DEF ExitThread, ClearTid, TypeOK, Vals
  <2>3. fork' \in [Threads -> {"none", "alive", "dead"}]
    BY Zenon, <1>15 DEF ExitThread, MarkForkExit, TypeOK
  <2>4. finished' \subseteq finished \cup ({runningTask} \cap Threads)
    BY Zenon, <1>15 DEF ExitThread
  <2>5. QED BY Zenon, <1>15, <2>1, <2>2, <2>3, <2>4, DropStep DEF ExitThread, Slice
<1>16. ASSUME ReturnOrFault PROVE IndInv'
  <2>1. mem' \in [Words -> Vals \cup {Unmapped}]
    BY Zenon, <1>16, ConstantsAssumption DEF ReturnOrFault, ClearTid, TypeOK, Vals
  <2>2. QED BY Zenon, <1>16, <2>1, DropStep DEF ReturnOrFault, TypeOK
<1>17. ASSUME TerminateHost PROVE IndInv'
  <2>1. TypeOK'
    BY SMTT(30), <1>17 DEF TerminateHost, TypeOK, host, tasks
  <2>2. LoopInv'
    BY SMTT(30), <1>17 DEF TerminateHost, Slice, LoopInv, tasks
  <2>3. Conserved'
    BY Zenon, <1>17 DEF TerminateHost, Slice, Conserved, Live, tasks
  <2>4. QED BY Zenon, <2>1, <2>2, <2>3
<1>18. QED
  BY ZenonT(30), <1>1, <1>2, <1>3, <1>4, <1>5, <1>6, <1>7, <1>8, <1>9, <1>10, <1>11, <1>12, <1>13,
     <1>14, <1>15, <1>16, <1>17 DEF Guest

-----------------------------------------------------------------------------
(* The steps of the host preserve the invariant *)

\* The end of a pass: the list becomes kept, with the new threads in front or not.
LEMMA EndOfPassStep ==
  ASSUME IndInv, EndOfPass, pc' \in {"pass", "alive"}, TypeOK',
         \/ taskList' = kept /\ threadTask' = threadTask
         \/ taskList' = Reverse(threadTask) \o kept /\ threadTask' = <<>>,
         UNCHANGED <<status, finished>>
  PROVE  LoopInv' /\ Conserved'
<1> USE DEF IndInv
<1>1. /\ pc = "scan" /\ scheduled = <<>> /\ kept' = <<>> /\ scheduled' = <<>>
      /\ ran' = FALSE /\ mainRet' = NoTask
  BY Zenon DEF EndOfPass
<1>2. LoopInv'
  BY Zenon, <1>1 DEF LoopInv
<1>3. ToSet(scheduled) = {} /\ Live' = Live
  BY <1>1 DEF ToSet, Live
<1>4. /\ ToSet(kept) \cup ToSet(threadTask) = Live
      /\ ToSet(kept) \cap ToSet(threadTask) = {}
      /\ Distinct(kept) /\ Distinct(threadTask)
  BY Zenon, <1>1, <1>3 DEF Conserved
<1>. SUFFICES /\ Distinct(threadTask') /\ Distinct(taskList')
              /\ ToSet(taskList') \cap ToSet(threadTask') = {}
              /\ ToSet(taskList') \cup ToSet(threadTask') = Live
  BY Zenon, <1>2, <1>3 DEF Conserved
<1>5. CASE taskList' = kept /\ threadTask' = threadTask
  BY Zenon, <1>5, <1>4
<1>6. CASE taskList' = Reverse(threadTask) \o kept /\ threadTask' = <<>>
  <2> DEFINE rev == Reverse(threadTask)
  <2>1. threadTask \in Seq(Tasks)
    BY DEF TypeOK, Tasks
  <2>2. rev \in Seq(Tasks) /\ ToSet(rev) = ToSet(threadTask) /\ Distinct(rev)
    BY Zenon, <2>1, <1>4, ReverseList
  <2>3. taskList' = rev \o kept /\ kept \in Seq(Tasks)
    BY Zenon, <1>6 DEF TypeOK
  <2> HIDE DEF rev
  <2>4. ToSet(taskList') = ToSet(rev) \cup ToSet(kept) /\ Distinct(taskList')
    BY <2>2, <2>3, <1>4, ToSetConcat, DistinctConcat
  <2>5. ToSet(threadTask') = {} /\ Distinct(threadTask')
    BY Zenon, <1>6, EmptyList
  <2>6. QED BY Zenon, <2>2, <2>4, <2>5, <1>4
<1>7. QED BY Zenon, <1>5, <1>6

\* Every step of the dispatcher loop preserves the invariant.
LEMMA HostStep ==
  ASSUME IndInv, Host PROVE IndInv'
<1> USE DEF IndInv
<1>1. ASSUME BeginPass PROVE IndInv'
  <2>1. TypeOK'
    BY Zenon, <1>1 DEF BeginPass, TypeOK, host, tasks
  <2>2. LoopInv'
    BY Zenon, <1>1 DEF BeginPass, LoopInv, TypeOK, tasks
  <2>3. kept' = <<>> /\ scheduled' = taskList /\ pc = "pass" /\ pc' = "scan"
        /\ threadTask' = threadTask /\ Live' = Live
    BY Zenon, <1>1 DEF BeginPass, LoopInv, Live, tasks
  <2>4. Conserved'
    BY Zenon, <2>3, EmptyList DEF Conserved
  <2>5. QED BY Zenon, <2>1, <2>2, <2>4
<1>2. ASSUME KeepTask PROVE IndInv'
  <2> DEFINE t == Head(scheduled)
  <2>1. /\ t \in Tasks /\ scheduled' \in Seq(Tasks)
        /\ ToSet(scheduled) = {t} \cup ToSet(scheduled')
        /\ Distinct(scheduled) => Distinct(scheduled') /\ t \notin ToSet(scheduled')
    BY Zenon, <1>2, HeadAndTail DEF KeepTask, TypeOK
  <2>2. /\ kept' \in Seq(Tasks) /\ ToSet(kept') = ToSet(kept) \cup {t}
        /\ Distinct(kept) /\ t \notin ToSet(kept) => Distinct(kept')
    BY <1>2, <2>1, AppendList DEF KeepTask, TypeOK
  <2>3. waiter' \in [Tasks -> Waiters]
    BY Zenon, <1>2, <2>1, WaiterUpdates DEF KeepTask, TypeOK
  <2>4. TypeOK'
    BY Zenon, <1>2, <2>1, <2>2, <2>3 DEF KeepTask, TypeOK, host
  <2>5. LoopInv'
    BY Zenon, <1>2 DEF KeepTask, LoopInv
  <2>6. /\ pc = "scan" /\ pc' = "scan" /\ threadTask' = threadTask /\ Live' = Live
    BY Zenon, <1>2 DEF KeepTask, Live
  <2> HIDE DEF t
  <2>7. Conserved'
    BY <2>1, <2>2, <2>6 DEF Conserved
  <2>8. QED BY Zenon, <2>4, <2>5, <2>7
<1>3. ASSUME DispatchTask PROVE IndInv'
  <2> DEFINE t == Head(scheduled)
  <2>1. /\ t \in Tasks /\ scheduled' \in Seq(Tasks)
        /\ ToSet(scheduled) = {t} \cup ToSet(scheduled')
        /\ Distinct(scheduled) => Distinct(scheduled') /\ t \notin ToSet(scheduled')
    BY Zenon, <1>3, HeadAndTail DEF DispatchTask, TypeOK
  <2>2. /\ pc = "scan" /\ pc' = "slice" /\ runningTask' = t /\ scheduled # <<>>
        /\ status' = [status EXCEPT ![t] = "R"] /\ ran' = TRUE /\ steps' = MaxSteps
        /\ x0' = ResumeValue(waiter[t]) /\ unread' \in ResumeUnread(waiter[t])
        /\ waiter' = [waiter EXCEPT ![t] = NoWaiter]
        /\ UNCHANGED <<taskList, kept, mainRet, threadTask, call, answer, inThread, saved,
                       finished, tidPtr, fork, mem>>
    BY Zenon, <1>3 DEF DispatchTask, host
  <2> HIDE DEF t
  <2>3. t \in Live
    BY Zenon, <2>1, <2>2 DEF Conserved
  <2>4. Live' = Live
    BY Zenon, <2>1, <2>2, <2>3 DEF Live, TypeOK
  <2>5. waiter[t] \in Waiters
    BY Zenon, <2>1 DEF TypeOK
  <2>6. x0' \in Results /\ unread' \in [Pipes -> 0..MaxUnread]
    BY SMTT(30), <2>2, <2>5, ResumeResult, ReadType
  <2>7. waiter' \in [Tasks -> Waiters] /\ status' \in [Tasks -> {"N", "Z", "R", "S", "X"}]
    BY Zenon, <2>1, <2>2, ParkRecords DEF TypeOK
  <2>8. steps' \in 0..MaxSteps
    BY <2>2, ConstantsAssumption
  <2>9. TypeOK'
    BY Zenon, <2>1, <2>2, <2>6, <2>7, <2>8 DEF TypeOK
  <2>10. LoopInv'
    BY <2>1, <2>2, <2>3 DEF LoopInv, TypeOK, Live
  <2>11. Conserved'
    BY Zenon, <2>1, <2>2, <2>4 DEF Conserved
  <2>12. QED BY Zenon, <2>9, <2>10, <2>11
<1>4. ASSUME EndPassMain PROVE IndInv'
  <2>1. Retain(kept) = kept
    BY Zenon, <1>4, RetainAll DEF EndPassMain, EndOfPass, Conserved, TypeOK
  <2>2. taskList' = kept /\ pc' = "alive" /\ answer' \in Mains \cup {NoTask}
    BY Zenon, <1>4, <2>1 DEF EndPassMain, LeaveRun, TypeOK
  <2>3. TypeOK'
    BY Zenon, <1>4, <2>2, EmptyList DEF EndPassMain, EndOfPass, TypeOK, tasks
  <2>4. QED BY SMTT(30), <1>4, <2>2, <2>3, EndOfPassStep DEF EndPassMain, tasks
<1>5. ASSUME EndPassRelease PROVE IndInv'
  <2>1. waiter' \in [Tasks -> Waiters]
    BY Zenon, <1>5, WaiterUpdates DEF EndPassRelease, Deadlocked, TypeOK
  <2>2. mem' \in [Words -> Vals \cup {Unmapped}]
    BY Zenon, <1>5, ConstantsAssumption DEF EndPassRelease, UnlockStale, TypeOK, Vals
  <2>3. TypeOK'
    BY Zenon, <1>5, <2>1, <2>2, EmptyList DEF EndPassRelease, EndOfPass, TypeOK, host
  <2>4. QED BY Zenon, <1>5, <2>3, EndOfPassStep DEF EndPassRelease
<1>6. ASSUME EndPassStuck PROVE IndInv'
  <2>1. Retain(kept) = kept
    BY Zenon, <1>6, RetainAll DEF EndPassStuck, EndOfPass, Conserved, TypeOK
  <2>2. taskList' = kept /\ pc' = "alive" /\ answer' \in Mains \cup {NoTask}
    BY Zenon, <1>6, <2>1 DEF EndPassStuck, LeaveRun, TypeOK
  <2>3. TypeOK'
    BY Zenon, <1>6, <2>2, EmptyList DEF EndPassStuck, EndOfPass, TypeOK, tasks
  <2>4. QED BY Zenon, <1>6, <2>2, <2>3, EndOfPassStep DEF EndPassStuck, tasks
<1>7. ASSUME EndPassMerge PROVE IndInv'
  <2> DEFINE merged == Reverse(threadTask) \o kept
  <2>1. threadTask \in Seq(Tasks) /\ kept \in Seq(Tasks)
    BY DEF TypeOK, Tasks
  <2>2. merged \in Seq(Tasks)
    BY <2>1, ReverseList
  <2>3. merged = <<>> => Retain(merged) = merged
    <3>1. DOMAIN <<>> = {}
      OBVIOUS
    <3>2. Retain(<<>>) = <<>>
      BY <3>1, Zenon DEF Retain
    <3> HIDE DEF merged
    <3>3. QED BY Zenon, <3>2
  <2>4. /\ taskList' = merged /\ threadTask' = <<>> /\ pc' \in {"pass", "alive"}
        /\ answer' \in Mains \cup {NoTask} /\ runningTask' \in Tasks \cup {NoTask}
        /\ UNCHANGED <<call, inThread, waiter, status, saved, finished, tidPtr, fork, mem,
                       unread, x0, steps>>
    BY Zenon, <1>7, <2>3 DEF EndPassMerge, LeaveRun, TypeOK, tasks
  <2>5. /\ EndOfPass /\ scheduled' = scheduled /\ kept' = <<>> /\ ran' = FALSE
        /\ mainRet' = NoTask
    BY Zenon, <1>7 DEF EndPassMerge, EndOfPass
  <2>6. TypeOK'
    <3> HIDE DEF merged
    <3>1. QED BY Zenon, <2>2, <2>4, <2>5, EmptyList DEF TypeOK
  <2>7. QED BY Zenon, <2>4, <2>5, <2>6, EndOfPassStep
<1>8. ASSUME AliveCheck PROVE IndInv'
  <2>1. waiter' \in [Tasks -> Waiters]
    BY Zenon, <1>8, WaiterUpdates DEF AliveCheck, TypeOK
  <2>2. TypeOK'
    BY ZenonT(30), <1>8, <2>1 DEF AliveCheck, TypeOK
  <2>3. LoopInv'
    BY Zenon, <1>8 DEF AliveCheck, LoopInv
  <2>4. Conserved'
    BY Zenon, <1>8 DEF AliveCheck, Conserved, Live
  <2>5. QED BY Zenon, <2>2, <2>3, <2>4
<1>9. QED
  BY Zenon, <1>1, <1>2, <1>3, <1>4, <1>5, <1>6, <1>7, <1>8 DEF Host

\* A new call puts a new main task at the front of the list.
LEMMA CallStep ==
  ASSUME IndInv, NEW m \in Mains, RunMainForResult(m) PROVE IndInv'
<1> USE DEF IndInv
<1> DEFINE u == <<m>>
<1>1. m \in Tasks /\ m \notin Live /\ Live' = Live \cup {m}
  BY Zenon DEF RunMainForResult, TypeOK, Live, Tasks
<1>2. u \in Seq(Tasks) /\ ToSet(u) = {m} /\ Distinct(u)
  BY Zenon, <1>1, Singleton
<1>3. /\ taskList' = u \o taskList /\ pc = "idle" /\ pc' = "pass"
      /\ threadTask' = threadTask
  BY Zenon DEF RunMainForResult
<1> HIDE DEF u
<1>4. /\ taskList' \in Seq(Tasks) /\ ToSet(taskList') = {m} \cup ToSet(taskList)
      /\ Distinct(taskList) /\ m \notin ToSet(taskList) => Distinct(taskList')
  BY <1>2, <1>3, ToSetConcat, DistinctConcat DEF TypeOK
<1>5. TypeOK'
  <2>1. status' \in [Tasks -> {"N", "Z", "R", "S", "X"}]
    BY Zenon DEF RunMainForResult, TypeOK
  <2>2. QED BY Zenon, <1>4, <2>1 DEF RunMainForResult, TypeOK
<1>6. LoopInv'
  BY <1>1 DEF RunMainForResult, LoopInv, TypeOK
<1>7. Conserved'
  BY Zenon, <1>1, <1>3, <1>4 DEF Conserved
<1>8. QED BY Zenon, <1>5, <1>6, <1>7

\* The clock changes timed waiters only.
LEMMA TickStep ==
  ASSUME IndInv, Tick PROVE IndInv'
<1> USE DEF IndInv
<1>1. waiter' \in [Tasks -> Waiters]
  BY Zenon, WaiterUpdates DEF Tick, TypeOK
<1>2. TypeOK'
  BY Zenon, <1>1 DEF Tick, TypeOK, loop, host
<1>3. LoopInv'
  BY Zenon DEF Tick, LoopInv, loop
<1>4. Conserved'
  BY Zenon DEF Tick, Conserved, Live, loop
<1>5. QED BY Zenon, <1>2, <1>3, <1>4

\* Every step of the host, the guest, the caller and the clock preserves the invariant.
LEMMA IndInvStep ==
  ASSUME IndInv, [Next]_vars PROVE IndInv'
<1>1. CASE UNCHANGED vars
  BY <1>1 DEF vars, loop, host, tasks, IndInv, TypeOK, LoopInv, Conserved, Live
<1>2. QED BY SMTT(30), <1>1, HostStep, GuestStep, CallStep, TickStep DEF Next

\* The dispatcher starts with empty lists, nothing parked and nothing created.
LEMMA IndInvInit == Init => IndInv
<1> SUFFICES ASSUME Init PROVE IndInv
  BY Zenon
<1>1. TypeOK
  <2>1. NoWaiter \in Waiters BY Zenon, ParkRecords
  <2>2. mem \in [Words -> Vals \cup {Unmapped}] /\ unread \in [Pipes -> 0..MaxUnread]
    BY ConstantsAssumption DEF Init, Vals
  <2>3. steps \in 0..MaxSteps /\ x0 \in Results
    BY ConstantsAssumption DEF Init, Results
  <2>4. <<>> \in Seq(Tasks) /\ <<>> \in Seq(Threads)
    BY Zenon, EmptyList
  <2>5. QED BY Zenon, <2>1, <2>2, <2>3, <2>4 DEF Init, TypeOK
<1>2. LoopInv
  BY Zenon DEF Init, LoopInv
<1>3. Conserved
  BY Zenon, EmptyList DEF Init, Conserved, Live
<1>4. QED BY Zenon, <1>1, <1>2, <1>3 DEF IndInv

\* IndInv holds in every reachable state.
THEOREM Invariance == Spec => []IndInv
BY IndInvInit, IndInvStep, PTL DEF Spec

\* The type invariant, for every set of tasks, words and pipes.
THEOREM TypeCorrect == Spec => []TypeOK
<1>1. IndInv => TypeOK BY Zenon DEF IndInv
<1>2. QED BY <1>1, Invariance, PTL

\* No task is lost, duplicated or left behind after its end.
THEOREM Conservation == Spec => []TasksConserved
<1>1. IndInv => TasksConserved BY Zenon, ConservedImplies DEF IndInv
<1>2. QED BY <1>1, Invariance, PTL

-----------------------------------------------------------------------------
(* The safety properties that rest on the invariant *)

-----------------------------------------------------------------------------
(* Joining an exited thread *)

(***************************************************************************)
(* A tid appears in memory only after the clone that created it, and exit  *)
(* wipes it from the word tid_ptr points to; nothing can write it there    *)
(* again, since a tid is stored only by its own clone.                     *)
(***************************************************************************)
TidInv ==
  /\ \A t \in Threads, a \in Words : status[t] = "N" => mem[a] # t
  /\ \A t \in finished : tidPtr[t] \in Words => mem[tidPtr[t]] # t

\* A word may keep its contents, take a guest value or take the tid of a new thread.
LEMMA TidMem ==
  ASSUME IndInv, TidInv,
         \A a \in Words : mem'[a] = mem[a] \/ mem'[a] \in GuestVals \cup {Unmapped},
         \A t \in Threads : status'[t] = "N" => status[t] = "N",
         finished' = finished,
         \A t \in finished : tidPtr'[t] = tidPtr[t]
  PROVE  TidInv'
<1>1. \A t \in Threads : t \notin GuestVals /\ t # Unmapped
  BY Zenon, ConstantsAssumption DEF Vals
<1>2. finished \subseteq Threads
  BY Zenon DEF IndInv, TypeOK
<1>3. QED BY <1>1, <1>2 DEF TidInv

\* Every step preserves TidInv: clone stores only the tid it creates, exit wipes it.
LEMMA TidStep ==
  ASSUME IndInv, IndInv', TidInv, [Next]_vars PROVE TidInv'
<1> USE DEF IndInv
<1>0. 0 \in GuestVals /\ \A t \in Threads : t \in Tasks
  BY Zenon, ConstantsAssumption DEF Tasks
<1>1. ASSUME NEW m \in Mains, RunMainForResult(m) PROVE TidInv'
  BY Zenon, <1>1, <1>0, TidMem DEF RunMainForResult, TypeOK
<1>2. ASSUME Host PROVE TidInv'
  <2>1. CASE EndPassRelease
    BY Zenon, <2>1, <1>0, TidMem DEF EndPassRelease, UnlockStale
  <2>2. CASE DispatchTask
    <3>1. \A t \in Threads : status'[t] = "N" => status[t] = "N"
      BY <2>2 DEF DispatchTask, TypeOK
    <3>2. QED BY Zenon, <2>2, <3>1, TidMem DEF DispatchTask
  <2>3. CASE UNCHANGED <<mem, status, finished, tidPtr>>
    BY Zenon, <2>3, TidMem
  <2>4. QED BY Zenon, <2>1, <2>2, <2>3, <1>2
        DEF Host, BeginPass, KeepTask, EndPassMain, EndPassStuck, EndPassMerge, AliveCheck, tasks
<1>3. ASSUME Tick PROVE TidInv'
  BY Zenon, <1>3, TidMem DEF Tick
<1>4. ASSUME Guest PROVE TidInv'
  <2>1. ASSUME NEW a \in Words, NEW v \in GuestVals, Store(a, v) PROVE TidInv'
    BY Zenon, <2>1, TidMem DEF Store, tasks, TypeOK
  <2>2. ASSUME NEW a \in Words, Unmap(a) PROVE TidInv'
    BY Zenon, <2>2, TidMem DEF Unmap, tasks, TypeOK
  <2>3. ASSUME NEW t \in Threads, NEW a \in Words \cup {NoAddr},
               NEW b \in Words \cup {NoAddr}, Clone(t, a, b)
        PROVE  TidInv'
    <3>1. /\ status[t] = "N" /\ status' = [status EXCEPT ![t] = "Z"]
          /\ tidPtr' = [tidPtr EXCEPT ![t] = a] /\ finished' = finished
          /\ \A c \in Words : mem'[c] = mem[c] \/ mem'[c] = t
      BY Zenon, <2>3 DEF Clone
    <3>2. t \notin finished
      BY Zenon, <3>1 DEF LoopInv
    <3>3. QED BY <3>1, <3>2, <1>0 DEF TidInv, TypeOK
  <2>4. ASSUME NEW t \in Threads, Fork(t) \/ CreateFails(t) PROVE TidInv'
    BY Zenon, <2>4, <1>0, TidMem DEF Fork, CreateFails, TypeOK
  <2>5. ASSUME NEW a \in Words \cup {NoAddr}, SetTidAddress(a) PROVE TidInv'
    <3>1. runningTask \notin finished
      BY Zenon, <2>5 DEF SetTidAddress, Slice, LoopInv
    <3>2. QED BY Zenon, <2>5, <3>1, TidMem DEF SetTidAddress, TypeOK
  <2>6. ASSUME ExitThread PROVE TidInv'
    <3> DEFINE t == runningTask
    <3>1. /\ t \in Threads /\ status' = [status EXCEPT ![t] = "X"] /\ tidPtr' = tidPtr
          /\ finished' = finished \cup {t} /\ mem' = ClearTid(t)
          /\ tidPtr[t] # NoAddr => mem[tidPtr[t]] # Unmapped
      BY Zenon, <2>6 DEF ExitThread, Drop
    <3>2. \A c \in Words : mem'[c] = mem[c] \/ mem'[c] = 0
      BY Zenon, <3>1 DEF ClearTid, TypeOK
    <3>3. tidPtr[t] \in Words => mem'[tidPtr[t]] = 0
      BY Zenon, <3>1, ConstantsAssumption DEF ClearTid, TypeOK
    <3>4. \A u \in Threads : u # 0 /\ (status'[u] = "N" => status[u] = "N")
      BY <3>1, <1>0, ConstantsAssumption DEF TypeOK
    <3>5. finished \subseteq Threads
      BY Zenon DEF TypeOK
    <3> HIDE DEF t
    <3>6. QED BY Zenon, <3>1, <3>2, <3>3, <3>4, <3>5 DEF TidInv
  <2>7. ASSUME ReturnOrFault PROVE TidInv'
    <3>1. \A c \in Words : mem'[c] = mem[c] \/ mem'[c] = 0
      BY Zenon, <2>7 DEF ReturnOrFault, ClearTid, TypeOK
    <3>2. \A u \in Threads : status'[u] = "N" => status[u] = "N"
      BY Zenon, <2>7, <1>0 DEF ReturnOrFault, Drop, TypeOK
    <3>3. QED BY Zenon, <2>7, <3>1, <3>2, <1>0, TidMem DEF ReturnOrFault, Drop
  <2>8. ASSUME NEW w, Suspend(w) PROVE TidInv'
    <3>1. \A u \in Threads : status'[u] = "N" => status[u] = "N"
      BY Zenon, <2>8, <1>0 DEF Suspend, TypeOK
    <3>2. QED BY Zenon, <2>8, <3>1, TidMem DEF Suspend
  <2>9. CASE UNCHANGED <<mem, status, finished, tidPtr>>
    BY Zenon, <2>9, TidMem
  <2>10. QED
    BY Zenon, <2>1, <2>2, <2>3, <2>4, <2>5, <2>6, <2>7, <2>8, <2>9, <1>4
    DEF Guest, FutexWaitAgain, FutexWaitPark, FutexWake, Wait4, PipeRead, PipeWrite, Ppoll,
        TerminateHost, Yield, tasks
<1>5. CASE UNCHANGED vars
  BY Zenon, <1>5, TidMem DEF vars, tasks
<1>6. QED BY Zenon, <1>1, <1>2, <1>3, <1>4, <1>5 DEF Next

\* A task that waits on the tid word of a thread that called exit can run, for
\* every number of threads and words.
THEOREM JoinersAlwaysRunnable == Spec => []JoinersRunnable
<1>1. Init => TidInv
  BY Zenon, ConstantsAssumption DEF Init, TidInv
<1>2. IndInv /\ TidInv => JoinersRunnable
  <2> SUFFICES ASSUME IndInv, TidInv, NEW t \in finished, NEW u \in Tasks,
                      IsFutex(waiter[u]), waiter[u].addr = tidPtr[t], waiter[u].val = t
               PROVE  CanDispatch(u)
    BY Zenon DEF JoinersRunnable
  <2>1. waiter[u].addr \in Words
    BY WaiterKinds DEF IndInv, TypeOK, FutexWaiters
  <2>2. mem[waiter[u].addr] # waiter[u].val
    BY Zenon, <2>1 DEF TidInv
  <2>3. QED BY Zenon, <2>2 DEF CanDispatch
<1>3. IndInv /\ IndInv' /\ TidInv /\ [Next]_vars => TidInv'
  BY Zenon, TidStep
<1>4. QED BY <1>1, <1>2, <1>3, Invariance, PTL DEF Spec

-----------------------------------------------------------------------------
(* The dispatcher implements cooperative tasks *)

\* A task that changes its status moves to the corresponding stage; the others stay.
LEMMA StageMove ==
  ASSUME TypeOK, NEW t \in Tasks, NEW s \in {"N", "Z", "R", "S", "X"},
         status' = [status EXCEPT ![t] = s]
  PROVE  [u \in Tasks |-> StageOf(status[u])]'
           = [[u \in Tasks |-> StageOf(status[u])] EXCEPT ![t] = StageOf(s)]
<1>1. \A u \in Tasks : status'[u] = IF u = t THEN s ELSE status[u]
  BY Zenon DEF TypeOK
<1>2. QED BY Zenon, <1>1 DEF TypeOK

\* What each status is mapped to.
LEMMA Stages ==
  /\ StageOf("N") = "none" /\ StageOf("Z") = "queued" /\ StageOf("R") = "running"
  /\ StageOf("S") = "parked" /\ StageOf("X") = "gone"
  /\ \A s \in {"N", "Z", "R", "S", "X"} : StageOf(s) = "running" => s = "R"
BY Zenon DEF StageOf

\* No abstract task runs outside a slice.
LEMMA CoopIdle ==
  ASSUME IndInv, pc \notin {"slice", "exited"} PROVE Coop!Idle
BY Zenon, Stages DEF Coop!Idle, IndInv, LoopInv, TypeOK

\* The running task is the witness that the abstract machine is not idle in a slice.
LEMMA CoopBusy ==
  ASSUME IndInv, pc = "slice" PROVE ~Coop!Idle /\ runningTask \in Tasks /\ status[runningTask] = "R"
<1>1. runningTask \in Tasks /\ status[runningTask] = "R"
  BY Zenon DEF IndInv, LoopInv, TypeOK
<1>2. [t \in Tasks |-> StageOf(status[t])][runningTask] = "running"
  BY Zenon, <1>1, Stages
<1>3. QED BY Zenon, <1>1, <1>2 DEF Coop!Idle

\* Every step of the dispatcher is a step of CoopTasks or leaves its state alone.
LEMMA CoopStep ==
  ASSUME IndInv, [Next]_vars PROVE [Coop!Next]_(Coop!cvars)
<1> USE DEF IndInv
<1>0. /\ Mains \subseteq Tasks /\ Threads \subseteq Tasks
      /\ \A t \in Threads : t \in Tasks \ Mains
  BY Zenon, ConstantsAssumption DEF Tasks
<1>1. ASSUME NEW m \in Mains, RunMainForResult(m) PROVE Coop!Next
  <2>1. Coop!Idle
    BY Zenon, <1>1, CoopIdle DEF RunMainForResult
  <2>2. [t \in Tasks |-> StageOf(status[t])]' =
          [[t \in Tasks |-> StageOf(status[t])] EXCEPT ![m] = "queued"]
    BY ZenonT(30), <1>0, <1>1, StageMove, Stages DEF RunMainForResult
  <2>3. [t \in Tasks |-> StageOf(status[t])][m] = "none"
    BY Zenon, <1>0, <1>1, Stages DEF RunMainForResult
  <2>4. Coop!Call(m)
    BY Zenon, <1>1, <2>1, <2>2, <2>3 DEF RunMainForResult, Coop!Call, Coop!Move
  <2>5. QED BY Zenon, <2>4 DEF Coop!Next
<1>2. CASE DispatchTask
  <2> DEFINE t == Head(scheduled)
  <2>1. /\ pc = "scan" /\ pc' = "slice" /\ scheduled # <<>>
        /\ status' = [status EXCEPT ![t] = "R"]
    BY Zenon, <1>2 DEF DispatchTask
  <2>2. t \in Tasks /\ t \in ToSet(scheduled)
    BY <2>1, HeadAndTail DEF TypeOK
  <2>3. status[t] \in {"Z", "S"}
    BY Zenon, <2>1, <2>2 DEF Conserved, Live, LoopInv, TypeOK
  <2> HIDE DEF t
  <2>4. [u \in Tasks |-> StageOf(status[u])]' =
          [[u \in Tasks |-> StageOf(status[u])] EXCEPT ![t] = "running"]
    BY ZenonT(30), <2>1, <2>2, StageMove, Stages
  <2>5. [u \in Tasks |-> StageOf(status[u])][t] \in {"queued", "parked"}
    BY Zenon, <2>2, <2>3, Stages
  <2>6. Coop!Start(t)
    BY Zenon, <2>1, <2>4, <2>5, CoopIdle DEF Coop!Start, Coop!Move
  <2>7. QED BY Zenon, <2>2, <2>6 DEF Coop!Next
<1>3. ASSUME NEW t \in Threads, pc = "slice", pc' = "slice", status[t] = "N",
             NEW s \in {"Z", "X"}, status' = [status EXCEPT ![t] = s]
      PROVE  Coop!Next
  <2>1. [u \in Tasks |-> StageOf(status[u])]' =
          [[u \in Tasks |-> StageOf(status[u])] EXCEPT ![t] = StageOf(s)]
    <3>1. s \in {"N", "Z", "R", "S", "X"} /\ t \in Tasks /\ TypeOK
      BY Zenon, <1>0, <1>3
    <3>2. status' = [status EXCEPT ![t] = s]
      BY Zenon, <1>3
    <3>3. QED BY Zenon, <3>1, <3>2, StageMove
  <2>2. [u \in Tasks |-> StageOf(status[u])][t] = "none"
    BY Zenon, <1>0, <1>3, Stages
  <2>3. StageOf(s) \in {"queued", "gone"}
    BY Zenon, <1>3, Stages
  <2>4. Coop!Create(t)
    BY Zenon, <1>3, <2>1, <2>2, <2>3, CoopBusy DEF Coop!Create, Coop!Move
  <2>5. QED BY Zenon, <1>0, <2>4 DEF Coop!Next
<1>4. ASSUME pc = "slice", pc' = "scan", NEW s \in {"S", "X"},
             status' = [status EXCEPT ![runningTask] = s]
      PROVE  Coop!Next
  <2>1. runningTask \in Tasks /\ status[runningTask] = "R"
    BY Zenon, <1>4, CoopBusy
  <2>2. [u \in Tasks |-> StageOf(status[u])]' =
          [[u \in Tasks |-> StageOf(status[u])] EXCEPT ![runningTask] = StageOf(s)]
    <3>1. s \in {"N", "Z", "R", "S", "X"} /\ TypeOK
      BY Zenon, <1>4
    <3>2. status' = [status EXCEPT ![runningTask] = s]
      BY Zenon, <1>4
    <3>3. QED BY ZenonT(30), <2>1, <3>1, <3>2, StageMove
  <2>3. [u \in Tasks |-> StageOf(status[u])][runningTask] = "running"
    BY Zenon, <2>1, Stages
  <2>4. StageOf(s) \in {"parked", "gone"}
    BY Zenon, <1>4, Stages
  <2>5. Coop!Stop(runningTask)
    BY Zenon, <1>4, <2>2, <2>3, <2>4 DEF Coop!Stop, Coop!Move
  <2>6. QED BY Zenon, <2>1, <2>5 DEF Coop!Next
<1>5. CASE status' = status /\ (pc' # "idle" <=> pc # "idle")
  BY Zenon, <1>5 DEF Coop!cvars
<1>6. CASE AliveCheck
  <2>1. CASE pc' = "pass"
    BY Zenon, <1>5, <1>6, <2>1 DEF AliveCheck
  <2>2. CASE pc' = "idle"
    <3>1. Coop!Return
      BY Zenon, <1>6, <2>2, CoopIdle DEF AliveCheck, Coop!Return
    <3>2. QED BY Zenon, <3>1 DEF Coop!Next
  <2>3. QED BY Zenon, <1>6, <2>1, <2>2 DEF AliveCheck
<1>7. ASSUME Host PROVE [Coop!Next]_(Coop!cvars)
  <2>1. CASE DispatchTask \/ AliveCheck
    BY Zenon, <1>2, <1>6, <2>1
  <2>2. CASE BeginPass \/ KeepTask
    BY Zenon, <1>5, <2>2 DEF BeginPass, KeepTask, tasks
  <2>3. CASE EndPassMain \/ EndPassStuck
    BY Zenon, <1>5, <2>3 DEF EndPassMain, EndPassStuck, EndOfPass, LeaveRun, tasks
  <2>4. CASE EndPassRelease
    BY Zenon, <1>5, <2>4 DEF EndPassRelease, EndOfPass
  <2>5. CASE EndPassMerge
    BY Zenon, <1>5, <2>5 DEF EndPassMerge, EndOfPass, LeaveRun, tasks
  <2>6. QED BY Zenon, <1>7, <2>1, <2>2, <2>3, <2>4, <2>5 DEF Host
<1>8. ASSUME Guest PROVE [Coop!Next]_(Coop!cvars)
  <2>1. ASSUME NEW r, Continue(r), status' = status, pc = "slice" PROVE [Coop!Next]_(Coop!cvars)
    BY Zenon, <1>5, <2>1 DEF Continue, loop
  <2>2. ASSUME NEW w, Suspend(w), pc = "slice" PROVE [Coop!Next]_(Coop!cvars)
    BY Zenon, <1>4, <2>2 DEF Suspend
  <2>3. ASSUME Drop, pc = "slice" PROVE [Coop!Next]_(Coop!cvars)
    BY Zenon, <1>4, <2>3 DEF Drop
  <2>4. ASSUME NEW t \in Threads, NEW a, NEW b, Clone(t, a, b) \/ Fork(t) \/ CreateFails(t)
        PROVE  [Coop!Next]_(Coop!cvars)
    BY Zenon, <1>3, <2>4 DEF Clone, Fork, CreateFails, Slice, Continue, loop
  <2>5. ASSUME NEW a \in Words,
               \/ \E v \in GuestVals : Store(a, v)
               \/ Unmap(a)
               \/ \E v \in Vals : FutexWaitAgain(a, v)
               \/ \E n \in 1..Cardinality(Tasks) : FutexWake(a, n)
        PROVE  [Coop!Next]_(Coop!cvars)
    BY Zenon, <2>1, <2>5 DEF Store, Unmap, FutexWaitAgain, FutexWake, Slice, tasks
  <2>6. ASSUME NEW a \in Words, NEW v \in Vals, FutexWaitPark(a, v)
        PROVE  [Coop!Next]_(Coop!cvars)
    BY Zenon, <2>2, <2>6 DEF FutexWaitPark, Slice
  <2>7. ASSUME NEW a, SetTidAddress(a) PROVE [Coop!Next]_(Coop!cvars)
    BY Zenon, <2>1, <2>7 DEF SetTidAddress, Slice
  <2>8. ASSUME NEW t \in Threads, Wait4(t, TRUE) \/ Wait4(t, FALSE)
        PROVE  [Coop!Next]_(Coop!cvars)
    <3>1. pc = "slice"
      BY Zenon, <2>8 DEF Wait4, Slice
    <3>2. QED BY Zenon, <2>1, <2>2, <2>8, <3>1 DEF Wait4, tasks
  <2>9. ASSUME NEW p, PipeRead(p) \/ PipeWrite(p) PROVE [Coop!Next]_(Coop!cvars)
    BY Zenon, <2>1, <2>2, <2>9 DEF PipeRead, PipeWrite, Slice, tasks
  <2>10. ASSUME NEW S, Ppoll(S) PROVE [Coop!Next]_(Coop!cvars)
    BY Zenon, <2>1, <2>2, <2>10 DEF Ppoll, Slice, tasks
  <2>11. CASE ExitThread \/ ReturnOrFault
    BY Zenon, <2>3, <2>11 DEF ExitThread, ReturnOrFault, Slice
  <2>12. CASE TerminateHost
    BY Zenon, <1>5, <2>12 DEF TerminateHost, Slice, tasks
  <2>13. CASE Yield
    BY Zenon, <2>1, <2>2, <2>13 DEF Yield, Slice, tasks
  <2>14. QED BY ZenonT(30), <1>8, <2>4, <2>5, <2>6, <2>7, <2>8, <2>9, <2>10, <2>11, <2>12, <2>13 DEF Guest
<1>9. CASE Tick \/ UNCHANGED vars
  BY Zenon, <1>5, <1>9 DEF Tick, vars, loop, tasks
<1>10. QED BY Zenon, <1>1, <1>7, <1>8, <1>9 DEF Next

\* For every number of tasks, the dispatcher implements CoopTasks.
THEOREM Refinement == Spec => CoopSpec
<1>1. Init => Coop!Init
  BY Zenon, Stages DEF Init, Coop!Init
<1>2. QED BY <1>1, CoopStep, Invariance, PTL DEF Spec, CoopSpec, Coop!Spec

-----------------------------------------------------------------------------
(* The order of tasks within a pass: invariants *)

\* Only a parked task has a waiter.
ParkedInv == \A t \in Tasks : waiter[t] # NoWaiter => status[t] = "S"

Ready(t) == ~IsFinish(t) /\ CanDispatch(t)

\* A pass that begins with threads in thread_task finds a task it can run.
ReadyInv ==
  threadTask # <<>> =>
    /\ pc = "pass" => \E t \in ToSet(taskList) : Ready(t)
    /\ pc = "scan" /\ ~ran => \E t \in ToSet(scheduled) : Ready(t)

\* No task of the list still waits for its first slice.
Started(s) == \A t \in ToSet(s) : status[t] # "Z"

\* Behind a main task no task of the list waits for its first slice.
MainsLast(s) == \A i, j \in DOMAIN s : i < j /\ s[i] \in Mains => status[s[j]] # "Z"

\* Tasks that wait for their first slice stand before every main task.
OrderInv ==
  /\ pc \in {"idle", "alive"} => Started(taskList)
  /\ pc = "pass" => MainsLast(taskList)
  /\ pc \in {"scan", "slice"} => MainsLast(scheduled) /\ Started(kept)
  /\ pc = "slice" /\ runningTask \in Mains => Started(scheduled)

-----------------------------------------------------------------------------
(* Parked tasks *)

\* A step that gives no new waiter and changes no parked status keeps ParkedInv.
LEMMA ParkedKeep ==
  ASSUME ParkedInv,
         \A t \in Tasks : waiter'[t] # NoWaiter =>
           waiter[t] # NoWaiter /\ (status[t] = "S" => status'[t] = "S")
  PROVE  ParkedInv'
BY Zenon DEF ParkedInv

\* FUTEX_WAKE and the exit of a thread touch only waiters that are there.
LEMMA WakeKeeps ==
  ASSUME NEW a, NEW n, NEW t \in Tasks, WakeFutex(a, n)[t] # NoWaiter
  PROVE  waiter[t] # NoWaiter
<1> DEFINE waits(i) == IsFutex(waiter[AllTasks[i]]) /\ waiter[AllTasks[i]].addr = a
           hit == {AllTasks[i] : i \in {j \in 1..Len(AllTasks) :
                     /\ waits(j)
                     /\ Cardinality({k \in 1..(j - 1) : waits(k)}) < n}}
<1>1. \A u \in hit : IsFutex(waiter[u])
  BY Zenon
<1>2. WakeFutex(a, n) = [u \in Tasks |-> IF u \in hit THEN [waiter[u] EXCEPT !.woken = TRUE]
                                                      ELSE waiter[u]]
  BY Zenon DEF WakeFutex
<1> HIDE DEF hit
<1>3. CASE t \in hit
  <2>1. waiter[t].kind \in {"futex", "timed"}
    BY Zenon, <1>1, <1>3 DEF IsFutex
  <2>2. QED BY <2>1 DEF NoWaiter
<1>4. CASE t \notin hit
  BY Zenon, <1>2, <1>4
<1>5. QED BY Zenon, <1>3, <1>4

\* can_dispatch gives no waiter to a task that has none.
LEMMA RefusedKeeps ==
  ASSUME NEW w, Refused(w) # NoWaiter PROVE w # NoWaiter
BY Zenon DEF Refused, NoWaiter, IsOneShot

\* Every step preserves ParkedInv.
LEMMA ParkedStep ==
  ASSUME IndInv, ParkedInv, [Next]_vars PROVE ParkedInv'
<1> USE DEF IndInv
<1>0. Threads \subseteq Tasks /\ Mains \subseteq Tasks
  BY Zenon DEF Tasks
<1>1. ASSUME NEW m \in Mains, RunMainForResult(m) PROVE ParkedInv'
  BY Zenon, <1>0, <1>1, ParkedKeep DEF RunMainForResult, TypeOK
<1>2. ASSUME Host PROVE ParkedInv'
  <2>1. CASE KeepTask
    <3>1. \A t \in Tasks : waiter'[t] # NoWaiter => waiter[t] # NoWaiter
      BY Zenon, <2>1, RefusedKeeps DEF KeepTask, TypeOK
    <3>2. QED BY Zenon, <2>1, <3>1, ParkedKeep DEF KeepTask
  <2>2. CASE DispatchTask
    <3>1. Head(scheduled) \in Tasks
      BY Zenon, <2>2, HeadAndTail DEF DispatchTask, TypeOK
    <3>2. \A t \in Tasks : waiter'[t] # NoWaiter =>
            waiter[t] # NoWaiter /\ status'[t] = status[t]
      BY Zenon, <2>2, <3>1 DEF DispatchTask, TypeOK
    <3>3. QED BY Zenon, <3>2, ParkedKeep
  <2>3. CASE EndPassRelease
    <3>1. \A t \in Deadlocked : waiter[t] # NoWaiter
      BY DEF Deadlocked, IsFutex, NoWaiter
    <3>2. \A t \in Tasks : waiter'[t] # NoWaiter => waiter[t] # NoWaiter
      BY Zenon, <2>3, <3>1 DEF EndPassRelease
    <3>3. QED BY Zenon, <2>3, <3>2, ParkedKeep DEF EndPassRelease
  <2>4. CASE AliveCheck
    <3>1. \A t \in Tasks : waiter'[t] # NoWaiter => waiter[t] # NoWaiter
      BY Zenon, <2>4, RefusedKeeps DEF AliveCheck
    <3>2. QED BY Zenon, <2>4, <3>1, ParkedKeep DEF AliveCheck
  <2>5. CASE UNCHANGED <<waiter, status>>
    BY Zenon, <2>5, ParkedKeep
  <2>6. QED BY Zenon, <2>1, <2>2, <2>3, <2>4, <2>5, <1>2
        DEF Host, BeginPass, EndPassMain, EndPassStuck, EndPassMerge, tasks
<1>3. ASSUME Tick PROVE ParkedInv'
  <2>1. \A t \in Tasks : waiter'[t] # NoWaiter => waiter[t] # NoWaiter
    BY Zenon, <1>3 DEF Tick, NoWaiter
  <2>2. QED BY Zenon, <1>3, <2>1, ParkedKeep DEF Tick
<1>4. ASSUME Guest PROVE ParkedInv'
  <2>1. ASSUME NEW w, Suspend(w), pc = "slice" PROVE ParkedInv'
    <3>1. runningTask \in Tasks
      BY Zenon, <2>1 DEF LoopInv
    <3>2. \A t \in Tasks : \/ t = runningTask /\ status'[t] = "S"
                           \/ waiter'[t] = waiter[t] /\ status'[t] = status[t]
      BY Zenon, <2>1, <3>1 DEF Suspend, TypeOK
    <3>3. QED BY Zenon, <3>2 DEF ParkedInv
  <2>2. ASSUME NEW a \in Words, NEW n, FutexWake(a, n) PROVE ParkedInv'
    <3>1. waiter' = WakeFutex(a, n) /\ status' = status
      BY Zenon, <2>2 DEF FutexWake
    <3>2. QED BY Zenon, <3>1, WakeKeeps, ParkedKeep
  <2>3. ASSUME NEW t \in Threads, status[t] = "N", NEW s, status' = [status EXCEPT ![t] = s],
               waiter' = waiter
        PROVE  ParkedInv'
    <3>1. \A u \in Tasks : status[u] = "S" => status'[u] = "S"
      BY Zenon, <1>0, <2>3 DEF TypeOK
    <3>2. QED BY Zenon, <2>3, <3>1, ParkedKeep
  <2>4. ASSUME ExitThread \/ ReturnOrFault PROVE ParkedInv'
    <3>1. runningTask \in Tasks /\ status[runningTask] = "R"
      BY Zenon, <2>4 DEF ExitThread, ReturnOrFault, Slice, LoopInv
    <3>2. status' = [status EXCEPT ![runningTask] = "X"]
      BY Zenon, <2>4 DEF ExitThread, ReturnOrFault, Drop
    <3>3. \A t \in Tasks : status[t] = "S" => status'[t] = "S"
      BY Zenon, <3>1, <3>2 DEF TypeOK
    <3>4. waiter' = waiter \/ \E a, n : waiter' = WakeFutex(a, n)
      BY Zenon, <2>4 DEF ExitThread, ReturnOrFault
    <3>5. QED BY Zenon, <3>3, <3>4, WakeKeeps, ParkedKeep
  <2>5. CASE UNCHANGED <<waiter, status>>
    BY Zenon, <2>5, ParkedKeep
  <2>6. QED
    BY Zenon, <2>1, <2>2, <2>3, <2>4, <2>5, <1>4
    DEF Guest, Store, Unmap, FutexWaitAgain, FutexWaitPark, Clone, Fork, CreateFails,
        SetTidAddress, Wait4, PipeRead, PipeWrite, Ppoll, TerminateHost, Yield, Slice, tasks
<1>5. CASE UNCHANGED vars
  BY Zenon, <1>5, ParkedKeep DEF vars, tasks
<1>6. QED BY Zenon, <1>1, <1>2, <1>3, <1>4, <1>5 DEF Next

-----------------------------------------------------------------------------
(* No merge is skipped *)

\* A task that can be dispatched still can after the clock, or after the
\* waiters of tasks that can not have noted a yield.
LEMMA ReadyStays ==
  ASSUME TypeOK, NEW t \in Tasks, Ready(t), UNCHANGED <<status, finished, mem, unread, fork>>,
         \/ waiter'[t] = waiter[t]
         \/ waiter[t].kind = "timed" /\ waiter[t].left > 0
              /\ waiter'[t] = [waiter[t] EXCEPT !.left = waiter[t].left - 1]
  PROVE  Ready(t)'
<1>1. ~IsFinish(t)'
  BY Zenon DEF Ready, IsFinish
<1>2. CASE waiter'[t] = waiter[t]
  <2>1. HasData(waiter[t])' <=> HasData(waiter[t])
    BY Zenon, <1>2 DEF HasData
  <2>2. CanDispatch(t)'
    BY Zenon, <1>2, <2>1 DEF Ready, CanDispatch, HasData
  <2>3. QED BY Zenon, <1>1, <2>2 DEF Ready
<1>3. CASE /\ waiter[t].kind = "timed" /\ waiter[t].left > 0
           /\ waiter'[t] = [waiter[t] EXCEPT !.left = waiter[t].left - 1]
  <2>1. waiter[t] \in FutexWaiters
    BY Zenon, <1>3, WaiterKinds DEF TypeOK, IsFutex
  <2>2. /\ waiter'[t].kind = "timed" /\ waiter'[t].addr = waiter[t].addr
        /\ waiter'[t].val = waiter[t].val /\ (waiter'[t].woken <=> waiter[t].woken)
    BY Zenon, <1>3, <2>1 DEF FutexWaiters
  <2>3. waiter[t].woken \/ mem[waiter[t].addr] # waiter[t].val
    BY <1>3, <2>1 DEF Ready, CanDispatch, IsOneShot, FutexWaiters
  <2>4. CanDispatch(t)'
    BY Zenon, <2>2, <2>3 DEF CanDispatch, IsFutex
  <2>5. QED BY Zenon, <1>1, <2>4 DEF Ready
<1>4. QED BY Zenon, <1>2, <1>3

\* A task that waits for its first slice can be dispatched.
LEMMA NewIsReady ==
  ASSUME TypeOK, LoopInv, ParkedInv, NEW t \in Tasks, status[t] = "Z" PROVE Ready(t)
<1>1. waiter[t] = NoWaiter
  BY Zenon DEF ParkedInv
<1>2. CanDispatch(t)
  BY <1>1 DEF CanDispatch, NoWaiter
<1>3. ~IsFinish(t)
  BY Zenon DEF IsFinish, LoopInv
<1>4. QED BY Zenon, <1>2, <1>3 DEF Ready

\* When a pass has ended without a slice, thread_task is empty.
LEMMA ReadyImplies ==
  ASSUME ReadyInv PROVE MergedBeforeRelease
<1>1. ToSet(<<>>) = {}
  BY DEF ToSet
<1>2. QED BY Zenon, <1>1 DEF ReadyInv, MergedBeforeRelease

\* Every step preserves ReadyInv.
LEMMA ReadyStep ==
  ASSUME IndInv, IndInv', ParkedInv, ParkedInv', ReadyInv, [Next]_vars PROVE ReadyInv'
<1> USE DEF IndInv
<1>1. ASSUME NEW m \in Mains, RunMainForResult(m) PROVE ReadyInv'
  <2>1. m \in Tasks /\ status'[m] = "Z" /\ pc' = "pass" /\ taskList' = <<m>> \o taskList
    BY Zenon, <1>1 DEF RunMainForResult, Tasks, TypeOK
  <2>2. Ready(m)'
    <3>1. waiter'[m] = NoWaiter
      BY Zenon, <2>1 DEF ParkedInv
    <3>2. CanDispatch(m)'
      BY <3>1 DEF CanDispatch, NoWaiter
    <3>3. ~IsFinish(m)'
      BY Zenon, <1>1, <2>1 DEF IsFinish
    <3>4. QED BY Zenon, <3>2, <3>3 DEF Ready
  <2>3. m \in ToSet(taskList')
    <3> DEFINE u == <<m>>
    <3>1. u \in Seq(Tasks) /\ ToSet(u) = {m} /\ taskList' = u \o taskList
      BY Zenon, <2>1, Singleton
    <3> HIDE DEF u
    <3>2. QED BY <3>1, ToSetConcat DEF TypeOK
  <2>4. QED BY Zenon, <2>1, <2>2, <2>3 DEF ReadyInv
<1>2. ASSUME pc' \notin {"pass", "scan"} \/ (pc' = "scan" /\ ran') \/ threadTask' = <<>>
      PROVE  ReadyInv'
  BY Zenon, <1>2 DEF ReadyInv
<1>3. ASSUME BeginPass PROVE ReadyInv'
  <2>1. \A t \in Tasks : Ready(t) => Ready(t)'
    BY Zenon, <1>3, ReadyStays DEF BeginPass, tasks
  <2>2. ToSet(taskList) \subseteq Tasks
    BY DEF ToSet, TypeOK
  <2>3. QED BY Zenon, <1>3, <2>1, <2>2 DEF BeginPass, ReadyInv
<1>4. ASSUME KeepTask PROVE ReadyInv'
  <2> DEFINE h == Head(scheduled)
  <2>1. /\ h \in Tasks /\ ToSet(scheduled) = {h} \cup ToSet(Tail(scheduled))
        /\ ToSet(scheduled) \subseteq Tasks
    <3>1. h \in Tasks /\ ToSet(scheduled) = {h} \cup ToSet(Tail(scheduled))
      BY Zenon, <1>4, HeadAndTail DEF KeepTask, TypeOK
    <3>2. ToSet(scheduled) \subseteq Tasks
      BY DEF ToSet, TypeOK
    <3>3. QED BY Zenon, <3>1, <3>2
  <2>2. ~Ready(h) /\ scheduled' = Tail(scheduled) /\ pc = "scan" /\ pc' = "scan"
    BY Zenon, <1>4 DEF KeepTask, Ready
  <2>3. ASSUME NEW t \in Tasks, t # h, Ready(t) PROVE Ready(t)'
    <3>1. waiter'[t] = waiter[t]
      BY Zenon, <1>4, <2>3 DEF KeepTask, TypeOK
    <3>2. QED BY Zenon, <1>4, <2>3, <3>1, ReadyStays DEF KeepTask
  <2>4. threadTask' = threadTask /\ (ran' <=> ran)
    BY Zenon, <1>4 DEF KeepTask
  <2> HIDE DEF h
  <2>5. QED BY Zenon, <2>1, <2>2, <2>3, <2>4 DEF ReadyInv
<1>5. ASSUME EndPassRelease PROVE ReadyInv'
  <2>1. threadTask = <<>>
    BY Zenon, <1>5, ReadyImplies DEF EndPassRelease, EndOfPass, MergedBeforeRelease
  <2>2. QED BY Zenon, <1>2, <1>5, <2>1 DEF EndPassRelease
<1>6. ASSUME AliveCheck PROVE ReadyInv'
  <2>1. CASE AliveTasks = {}
    BY Zenon, <1>2, <1>6, <2>1 DEF AliveCheck
  <2>2. CASE AliveTasks # {}
    <3>1. PICK t \in ToSet(taskList) : Ready(t)
      BY Zenon, <2>2 DEF AliveTasks, Ready
    <3>2. t \in Tasks
      BY DEF ToSet, TypeOK
    <3>3. waiter'[t] = waiter[t]
      BY Zenon, <1>6, <3>1, <3>2 DEF AliveCheck, Ready
    <3>4. Ready(t)'
      BY Zenon, <1>6, <3>1, <3>2, <3>3, ReadyStays DEF AliveCheck
    <3>5. taskList' = taskList /\ pc' = "pass"
      BY Zenon, <1>6, <2>2 DEF AliveCheck
    <3>6. QED BY Zenon, <3>1, <3>4, <3>5 DEF ReadyInv
  <2>3. QED BY Zenon, <2>1, <2>2
<1>7. ASSUME Host PROVE ReadyInv'
  <2>1. CASE DispatchTask \/ EndPassMain \/ EndPassStuck \/ EndPassMerge
    BY Zenon, <1>2, <2>1 DEF DispatchTask, EndPassMain, EndPassStuck, EndPassMerge, LeaveRun
  <2>2. QED BY Zenon, <1>3, <1>4, <1>5, <1>6, <1>7, <2>1 DEF Host
<1>8. ASSUME Guest PROVE ReadyInv'
  <2>1. pc = "slice" /\ ran
    BY Zenon, <1>8 DEF Guest, Store, Unmap, FutexWaitAgain, FutexWaitPark, FutexWake, Clone, Fork,
                CreateFails, SetTidAddress, Wait4, PipeRead, PipeWrite, Ppoll, ExitThread,
                TerminateHost, ReturnOrFault, Yield, Slice, LoopInv
  <2>2. ASSUME NEW r, Continue(r) PROVE ReadyInv'
    BY Zenon, <1>2, <2>1, <2>2 DEF Continue, loop
  <2>3. ASSUME NEW w, Suspend(w) PROVE ReadyInv'
    BY Zenon, <1>2, <2>1, <2>3 DEF Suspend
  <2>4. ASSUME Drop PROVE ReadyInv'
    BY Zenon, <1>2, <2>1, <2>4 DEF Drop
  <2>5. CASE TerminateHost
    BY Zenon, <1>2, <2>5 DEF TerminateHost
  <2>6. QED
    BY Zenon, <1>8, <2>2, <2>3, <2>4, <2>5
    DEF Guest, Store, Unmap, FutexWaitAgain, FutexWaitPark, FutexWake, Clone, Fork,
        CreateFails, SetTidAddress, Wait4, PipeRead, PipeWrite, Ppoll, ExitThread,
        ReturnOrFault, Yield
<1>9. ASSUME Tick PROVE ReadyInv'
  <2>1. \A t \in Tasks : Ready(t) => Ready(t)'
    BY Zenon, <1>9, ReadyStays DEF Tick
  <2>2. ToSet(taskList) \subseteq Tasks /\ ToSet(scheduled) \subseteq Tasks
    BY DEF ToSet, TypeOK
  <2>3. UNCHANGED <<taskList, scheduled, threadTask, pc, ran>>
    BY Zenon, <1>9 DEF Tick, loop
  <2>4. QED BY Zenon, <2>1, <2>2, <2>3 DEF ReadyInv
<1>10. CASE UNCHANGED vars
  <2>1. \A t \in Tasks : Ready(t) => Ready(t)'
    BY Zenon, <1>10, ReadyStays DEF vars, tasks
  <2>2. ToSet(taskList) \subseteq Tasks /\ ToSet(scheduled) \subseteq Tasks
    BY DEF ToSet, TypeOK
  <2>3. QED BY Zenon, <1>10, <2>1, <2>2 DEF ReadyInv, vars, loop
<1>11. QED BY Zenon, <1>1, <1>7, <1>8, <1>9, <1>10 DEF Next

-----------------------------------------------------------------------------
(* New threads first *)

\* A list of started tasks has none behind a main task that is not.
LEMMA StartedIsOrdered ==
  ASSUME NEW s \in Seq(Tasks), Started(s) PROVE MainsLast(s)
BY Zenon DEF Started, MainsLast, ToSet

\* What follows a main task at the head of an ordered list has been started.
LEMMA OrderedTail ==
  ASSUME NEW s \in Seq(Tasks), s # <<>>, MainsLast(s)
  PROVE  MainsLast(Tail(s)) /\ (Head(s) \in Mains => Started(Tail(s)))
<1>1. /\ Len(s) \in Nat /\ Len(s) > 0 /\ DOMAIN s = 1..Len(s) /\ Head(s) = s[1]
      /\ DOMAIN Tail(s) = 1..(Len(s) - 1)
      /\ \A i \in 1..(Len(s) - 1) : Tail(s)[i] = s[i + 1]
  OBVIOUS
<1>2. MainsLast(Tail(s))
  BY <1>1 DEF MainsLast
<1>3. ASSUME Head(s) \in Mains PROVE Started(Tail(s))
  <2>1. ASSUME NEW i \in 1..(Len(s) - 1) PROVE status[Tail(s)[i]] # "Z"
    <3>1. 1 \in DOMAIN s /\ i + 1 \in DOMAIN s /\ 1 < i + 1 /\ s[1] \in Mains
      BY <1>1, <1>3
    <3>2. QED BY Zenon, <1>1, <3>1 DEF MainsLast
  <2>2. QED BY Zenon, <1>1, <2>1 DEF Started, ToSet
<1>4. QED BY Zenon, <1>2, <1>3

\* A list without main tasks in front of a list of started tasks is ordered.
LEMMA OrderedConcat ==
  ASSUME NEW s \in Seq(Tasks), NEW r \in Seq(Tasks), Started(r),
         ToSet(s) \cap Mains = {}
  PROVE  MainsLast(s \o r)
<1> SUFFICES ASSUME NEW i \in DOMAIN (s \o r), NEW j \in DOMAIN (s \o r), i < j,
                    (s \o r)[i] \in Mains
             PROVE  status[(s \o r)[j]] # "Z"
  BY Zenon DEF MainsLast
<1>1. /\ Len(s) \in Nat /\ DOMAIN s = 1..Len(s) /\ DOMAIN (s \o r) = 1..(Len(s) + Len(r))
      /\ i \in Nat /\ j \in Nat /\ Len(r) \in Nat
  OBVIOUS
<1>2. j > Len(s)
  <2>1. i > Len(s)
    <3>1. SUFFICES ASSUME i <= Len(s) PROVE FALSE
      BY <1>1
    <3>2. i \in DOMAIN s /\ (s \o r)[i] = s[i]
      BY <1>1, <3>1
    <3>3. QED BY Zenon, <3>2 DEF ToSet
  <2>2. QED BY <1>1, <2>1
<1>3. j - Len(s) \in DOMAIN r /\ (s \o r)[j] = r[j - Len(s)]
  BY <1>1, <1>2
<1>4. QED BY Zenon, <1>3 DEF Started, ToSet

\* A call that returns to the guest leaves the order alone: a task it creates
\* is in neither list of the pass.
LEMMA OrderContinue ==
  ASSUME IndInv, OrderInv, pc = "slice", UNCHANGED loop,
         \A t \in Tasks : status[t] # "N" /\ status'[t] = "Z" => status[t] = "Z"
  PROVE  OrderInv'
<1>1. \A t \in ToSet(kept) \cup ToSet(scheduled) : t \in Tasks /\ status[t] # "N"
  BY Zenon DEF IndInv, Conserved, Live
<1>2. Started(kept) => Started(kept)'
  BY Zenon, <1>1 DEF Started, loop
<1>3. Started(scheduled) => Started(scheduled)'
  BY Zenon, <1>1 DEF Started, loop
<1>4. MainsLast(scheduled) => MainsLast(scheduled)'
  <2>1. \A j \in DOMAIN scheduled : scheduled[j] \in ToSet(scheduled)
    BY Zenon DEF ToSet
  <2>2. QED BY Zenon, <1>1, <2>1 DEF MainsLast, loop
<1>5. QED BY Zenon, <1>2, <1>3, <1>4 DEF OrderInv, loop

\* A park or a yield: the task that joins the kept list has had its slice.
LEMMA OrderSuspend ==
  ASSUME IndInv, OrderInv, pc = "slice", NEW w, Suspend(w)
  PROVE  OrderInv'
<1>1. runningTask \in Tasks /\ ToSet(kept') = ToSet(kept) \cup {runningTask}
  BY AppendList DEF IndInv, LoopInv, TypeOK, Suspend
<1>2. \A t \in Tasks : status'[t] = IF t = runningTask THEN "S" ELSE status[t]
  BY Zenon, <1>1 DEF Suspend, IndInv, TypeOK
<1>3. ToSet(kept) \subseteq Tasks /\ \A j \in DOMAIN scheduled : scheduled[j] \in Tasks
  BY DEF ToSet, IndInv, TypeOK
<1>4. Started(kept)'
  BY Zenon, <1>1, <1>2, <1>3 DEF Started, OrderInv
<1>5. MainsLast(scheduled)'
  <2>1. MainsLast(scheduled) /\ scheduled' = scheduled
    BY Zenon DEF OrderInv, Suspend
  <2>2. QED BY Zenon, <1>2, <1>3, <2>1 DEF MainsLast
<1>6. QED BY Zenon, <1>4, <1>5 DEF OrderInv, Suspend

\* The end of a task: what a main task leaves behind it has had its slice.
LEMMA OrderDrop ==
  ASSUME IndInv, OrderInv, pc = "slice", Drop
  PROVE  OrderInv'
<1>1. runningTask \in Tasks /\ pc' = "scan"
  BY Zenon DEF IndInv, LoopInv, Drop
<1>2. \A t \in Tasks : status'[t] = "Z" => status[t] = "Z"
  BY Zenon, <1>1 DEF Drop, IndInv, TypeOK
<1>3. /\ ToSet(kept) \subseteq Tasks /\ ToSet(scheduled) \subseteq Tasks
      /\ \A j \in DOMAIN scheduled : scheduled[j] \in Tasks
  BY DEF ToSet, IndInv, TypeOK
<1>4. Started(kept) /\ MainsLast(scheduled)
  BY Zenon DEF OrderInv
<1>5. CASE runningTask \in Mains
  <2>1. kept' = kept \o scheduled /\ scheduled' = <<>>
    BY Zenon, <1>5 DEF Drop
  <2>2. ToSet(kept') = ToSet(kept) \cup ToSet(scheduled)
    BY <2>1, ToSetConcat DEF IndInv, TypeOK
  <2>3. Started(scheduled)
    BY Zenon, <1>5 DEF OrderInv
  <2>4. Started(kept)'
    BY Zenon, <1>2, <1>3, <1>4, <2>2, <2>3 DEF Started
  <2>5. MainsLast(scheduled)'
    BY <2>1 DEF MainsLast
  <2>6. QED BY Zenon, <1>1, <2>4, <2>5 DEF OrderInv
<1>6. CASE runningTask \notin Mains
  <2>1. kept' = kept /\ scheduled' = scheduled
    BY Zenon, <1>6 DEF Drop
  <2>2. Started(kept)'
    BY Zenon, <1>2, <1>3, <1>4, <2>1 DEF Started
  <2>3. MainsLast(scheduled)'
    BY Zenon, <1>2, <1>3, <1>4, <2>1 DEF MainsLast
  <2>4. QED BY Zenon, <1>1, <2>2, <2>3 DEF OrderInv
<1>7. QED BY Zenon, <1>5, <1>6

\* Steps of the guest preserve OrderInv.
LEMMA OrderGuest ==
  ASSUME IndInv, OrderInv, Guest PROVE OrderInv'
<1>1. pc = "slice"
  BY Zenon DEF Guest, Store, Unmap, FutexWaitAgain, FutexWaitPark, FutexWake, Clone, Fork,
         CreateFails, SetTidAddress, Wait4, PipeRead, PipeWrite, Ppoll, ExitThread,
         TerminateHost, ReturnOrFault, Yield, Slice
<1>2. ASSUME NEW r, Continue(r), status' = status PROVE OrderInv'
  BY Zenon, <1>1, <1>2, OrderContinue DEF Continue
<1>3. ASSUME NEW t \in Threads, Fork(t) \/ CreateFails(t) \/ \E a, b : Clone(t, a, b)
      PROVE  OrderInv'
  <2>1. t \in Tasks /\ status[t] = "N" /\ UNCHANGED loop
    BY Zenon, <1>3 DEF Tasks, Fork, CreateFails, Clone, Continue
  <2>2. \A u \in Tasks : u # t => status'[u] = status[u]
    BY Zenon, <1>3 DEF Fork, CreateFails, Clone, IndInv, TypeOK
  <2>3. QED BY Zenon, <1>1, <2>1, <2>2, OrderContinue
<1>4. CASE TerminateHost
  BY Zenon, <1>4 DEF TerminateHost, OrderInv
<1>5. QED
  BY Zenon, <1>1, <1>2, <1>3, <1>4, OrderSuspend, OrderDrop
  DEF Guest, Store, Unmap, FutexWaitAgain, FutexWaitPark, FutexWake, SetTidAddress, Wait4,
      PipeRead, PipeWrite, Ppoll, ExitThread, ReturnOrFault, Yield, tasks

\* Steps of the loop preserve OrderInv.
LEMMA OrderHost ==
  ASSUME IndInv, ParkedInv, OrderInv, Host PROVE OrderInv'
<1> USE DEF IndInv
<1>0. /\ taskList \in Seq(Tasks) /\ threadTask \in Seq(Tasks)
      /\ scheduled \in Seq(Tasks) /\ kept \in Seq(Tasks)
  BY DEF TypeOK, Tasks
<1>1. CASE BeginPass
  <2>1. MainsLast(taskList) /\ UNCHANGED <<kept, status>>
    BY Zenon, <1>1 DEF BeginPass, OrderInv, tasks
  <2>2. scheduled' = taskList /\ pc' = "scan" /\ kept = <<>>
    BY Zenon, <1>1 DEF BeginPass, LoopInv
  <2>3. Started(kept)'
    BY Zenon, <2>1, <2>2, EmptyList DEF Started
  <2>4. MainsLast(scheduled)'
    BY Zenon, <2>1, <2>2 DEF MainsLast
  <2>5. QED BY Zenon, <2>2, <2>3, <2>4 DEF OrderInv
<1>2. CASE KeepTask
  <2> DEFINE h == Head(scheduled)
  <2>1. h \in Tasks /\ ToSet(kept') = ToSet(kept) \cup {h}
    BY <1>0, <1>2, HeadAndTail, AppendList DEF KeepTask
  <2>2. status[h] # "Z"
    BY Zenon, <1>2, <2>1, NewIsReady DEF KeepTask, Ready
  <2>3. status' = status /\ pc = "scan" /\ pc' = "scan" /\ scheduled' = Tail(scheduled)
    BY Zenon, <1>2 DEF KeepTask
  <2> HIDE DEF h
  <2>4. Started(kept)'
    BY Zenon, <2>1, <2>2, <2>3 DEF Started, OrderInv
  <2>5. MainsLast(Tail(scheduled))
    BY Zenon, <1>0, <1>2, OrderedTail DEF KeepTask, OrderInv
  <2>6. MainsLast(scheduled)'
    BY Zenon, <2>3, <2>5 DEF MainsLast
  <2>7. QED BY Zenon, <2>3, <2>4, <2>6 DEF OrderInv
<1>3. CASE DispatchTask
  <2> DEFINE h == Head(scheduled)
             r == Tail(scheduled)
  <2>1. /\ h \in Tasks /\ r \in Seq(Tasks)
        /\ pc = "scan" /\ pc' = "slice" /\ scheduled' = r /\ runningTask' = h /\ kept' = kept
    BY Zenon, <1>0, <1>3, HeadAndTail DEF DispatchTask
  <2>2. \A t \in Tasks : status'[t] = "Z" => status[t] = "Z"
    BY SMTT(30), <1>3, <2>1 DEF DispatchTask, TypeOK
  <2>3. MainsLast(r) /\ (h \in Mains => Started(r)) /\ Started(kept)
    BY Zenon, <1>0, <1>3, OrderedTail DEF DispatchTask, OrderInv
  <2> HIDE DEF h, r
  <2>4. MainsLast(scheduled)'
    <3>1. \A j \in DOMAIN r : r[j] \in Tasks
      BY <2>1
    <3>2. QED BY Zenon, <2>1, <2>2, <2>3, <3>1 DEF MainsLast
  <2>5. ToSet(kept) \subseteq Tasks /\ ToSet(r) \subseteq Tasks
    BY <1>0, <2>1 DEF ToSet
  <2>6. Started(kept)'
    BY Zenon, <2>1, <2>2, <2>3, <2>5 DEF Started
  <2>7. h \in Mains => Started(scheduled)'
    BY Zenon, <2>1, <2>2, <2>3, <2>5 DEF Started
  <2>8. QED BY Zenon, <2>1, <2>4, <2>6, <2>7 DEF OrderInv
<1>4. CASE EndPassMain \/ EndPassStuck
  <2>1. ToSet(kept) \subseteq Live
    BY Zenon, <1>4 DEF EndPassMain, EndPassStuck, EndOfPass, Conserved
  <2>2. taskList' = kept
    BY SMTT(30), <1>0, <1>4, <2>1, RetainAll DEF EndPassMain, EndPassStuck, LeaveRun
  <2>3. status' = status /\ pc' = "alive" /\ Started(kept)
    BY Zenon, <1>4 DEF EndPassMain, EndPassStuck, LeaveRun, EndOfPass, OrderInv, tasks
  <2>4. Started(taskList)'
    BY Zenon, <2>2, <2>3 DEF Started
  <2>5. QED BY Zenon, <2>3, <2>4 DEF OrderInv
<1>5. CASE EndPassRelease
  <2>1. taskList' = kept /\ status' = status /\ pc' = "pass" /\ Started(kept)
    BY Zenon, <1>5 DEF EndPassRelease, EndOfPass, OrderInv
  <2>2. MainsLast(kept)
    BY Zenon, <1>0, <2>1, StartedIsOrdered
  <2>3. MainsLast(taskList)'
    BY Zenon, <2>1, <2>2 DEF MainsLast
  <2>4. QED BY Zenon, <2>1, <2>3 DEF OrderInv
<1>6. CASE EndPassMerge
  <2> DEFINE new    == Reverse(threadTask)
             merged == new \o kept
  <2>1. Started(kept) /\ status' = status
    BY Zenon, <1>6 DEF EndPassMerge, EndOfPass, OrderInv, tasks
  <2>2. new \in Seq(Tasks) /\ ToSet(new) = ToSet(threadTask)
    BY Zenon, <1>0, ReverseList
  <2>3. ToSet(threadTask) \cap Mains = {}
    BY ConstantsAssumption DEF ToSet, TypeOK
  <2> HIDE DEF new
  <2>4. MainsLast(merged)
    BY Zenon, <1>0, <2>1, <2>2, <2>3, OrderedConcat
  <2>5. \/ merged = <<>> /\ taskList' = Retain(merged) /\ pc' = "alive"
        \/ merged = <<>> /\ taskList' = merged /\ pc' = "alive"
        \/ taskList' = merged /\ pc' = "pass"
    BY Zenon, <1>6 DEF EndPassMerge, LeaveRun, new
  <2> HIDE DEF merged
  <2>6. Retain(<<>>) = <<>>
    <3>1. DOMAIN <<>> = {}
      OBVIOUS
    <3>2. QED BY <3>1, Zenon DEF Retain
  <2>7. CASE pc' = "alive"
    <3>1. taskList' = <<>>
      BY Zenon, <2>5, <2>6, <2>7
    <3>2. Started(taskList)'
      BY Zenon, <3>1, EmptyList DEF Started
    <3>3. QED BY Zenon, <2>7, <3>2 DEF OrderInv
  <2>8. CASE pc' = "pass"
    <3>1. taskList' = merged
      BY Zenon, <2>5, <2>8
    <3>2. MainsLast(taskList)'
      BY Zenon, <2>1, <2>4, <3>1 DEF MainsLast
    <3>3. QED BY Zenon, <2>8, <3>2 DEF OrderInv
  <2>9. QED BY Zenon, <2>5, <2>7, <2>8
<1>7. CASE AliveCheck
  <2>1. Started(taskList) /\ taskList' = taskList /\ status' = status
    BY Zenon, <1>7 DEF AliveCheck, OrderInv
  <2>2. Started(taskList)'
    BY Zenon, <2>1 DEF Started
  <2>3. MainsLast(taskList)'
    <3>1. MainsLast(taskList)
      BY Zenon, <1>0, <2>1, StartedIsOrdered
    <3>2. QED BY Zenon, <2>1, <3>1 DEF MainsLast
  <2>4. QED BY Zenon, <1>7, <2>2, <2>3 DEF AliveCheck, OrderInv
<1>8. QED BY Zenon, <1>1, <1>2, <1>3, <1>4, <1>5, <1>6, <1>7 DEF Host

\* An index behind the first part is an index of the second.
LEMMA SecondPart ==
  ASSUME NEW S, NEW s \in Seq(S), NEW t \in Seq(S), NEW i \in DOMAIN (s \o t), i > Len(s)
  PROVE  i \in Nat /\ i - Len(s) \in DOMAIN t /\ (s \o t)[i] = t[i - Len(s)]
OBVIOUS

\* Behind a first part of one element comes the second part.
LEMMA BehindFirst ==
  ASSUME NEW S, NEW u \in Seq(S), Len(u) = 1, NEW s \in Seq(S)
  PROVE  \A i, j \in DOMAIN (u \o s) : i < j => j - 1 \in DOMAIN s /\ (u \o s)[j] = s[j - 1]
<1> SUFFICES ASSUME NEW i \in DOMAIN (u \o s), NEW j \in DOMAIN (u \o s), i < j
             PROVE  j - 1 \in DOMAIN s /\ (u \o s)[j] = s[j - 1]
  BY Zenon
<1>1. u \o s \in Seq(S) /\ i \in Nat /\ i > 0 /\ j \in Nat
  OBVIOUS
<1>2. j > Len(u)
  BY <1>1
<1>3. QED BY Zenon, <1>2, SecondPart

\* Every step preserves OrderInv.
LEMMA OrderStep ==
  ASSUME IndInv, ParkedInv, OrderInv, [Next]_vars PROVE OrderInv'
<1>1. ASSUME NEW m \in Mains, RunMainForResult(m) PROVE OrderInv'
  <2> DEFINE u == <<m>>
  <2>1. /\ m \in Tasks /\ pc = "idle" /\ pc' = "pass" /\ taskList' = u \o taskList
        /\ status[m] = "N" /\ taskList \in Seq(Tasks)
        /\ \A t \in Tasks : t # m => status'[t] = status[t]
    BY Zenon, <1>1 DEF RunMainForResult, Tasks, IndInv, TypeOK
  <2>2. u \in Seq(Tasks) /\ Len(u) = 1
    BY SMTT(30), <2>1
  <2> HIDE DEF u
  <2>3. ToSet(taskList) \subseteq Tasks \ {m}
    BY Zenon, <2>1 DEF IndInv, Conserved, Live
  <2>4. \A j \in DOMAIN taskList : status'[taskList[j]] # "Z"
    <3>1. \A j \in DOMAIN taskList : taskList[j] \in ToSet(taskList)
      BY Zenon DEF ToSet
    <3>2. QED BY Zenon, <2>1, <2>3, <3>1 DEF OrderInv, Started
  <2>5. \A i, j \in DOMAIN (u \o taskList) :
          i < j => j - 1 \in DOMAIN taskList /\ (u \o taskList)[j] = taskList[j - 1]
    <3>1. taskList \in Seq(Tasks)
      BY Zenon, <2>1
    <3>2. QED BY Zenon, <2>2, <3>1, BehindFirst
  <2>6. MainsLast(taskList)'
    BY <2>1, <2>4, <2>5 DEF MainsLast
  <2>7. QED BY Zenon, <2>1, <2>6 DEF OrderInv
<1>2. CASE Tick \/ UNCHANGED vars
  BY Zenon, <1>2 DEF Tick, vars, loop, tasks, OrderInv, Started, MainsLast
<1>3. QED BY Zenon, <1>1, <1>2, OrderGuest, OrderHost DEF Next

-----------------------------------------------------------------------------
(* Nothing is left that could run *)

\* Every step preserves NothingReadyAtReturn: a call returns only through
\* AliveCheck, and between calls only the clock moves.
LEMMA QuietStep ==
  ASSUME IndInv, IndInv', ParkedInv, NothingReadyAtReturn, [Next]_vars
  PROVE  NothingReadyAtReturn'
<1> USE DEF IndInv
<1>0. \A i \in DOMAIN taskList : taskList[i] \in Tasks /\ taskList[i] \in ToSet(taskList)
  <2>1. taskList \in Seq(Tasks)
    BY Zenon DEF TypeOK
  <2>2. \A i \in DOMAIN taskList : taskList[i] \in Tasks
    BY <2>1
  <2> QED BY Zenon, <2>2 DEF ToSet
<1>1. ASSUME pc' # "idle" PROVE NothingReadyAtReturn'
  BY Zenon, <1>1 DEF NothingReadyAtReturn
<1>2. CASE AliveCheck /\ pc' = "idle"
  <2>1. ASSUME NEW i \in DOMAIN taskList,
               IsFutex(waiter[taskList[i]]) \/ waiter[taskList[i]].kind = "child"
        PROVE  ~CanDispatch(taskList[i])
    <3> DEFINE t == taskList[i]
    <3>1. t \in Tasks /\ t \in ToSet(taskList) /\ AliveTasks = {}
      BY Zenon, <1>0, <1>2 DEF AliveCheck
    <3>2. waiter[t] # NoWaiter
      BY <2>1 DEF NoWaiter, IsFutex
    <3>3. status[t] = "S"
      BY Zenon, <3>1, <3>2 DEF ParkedInv
    <3>4. ~IsFinish(t)
      BY Zenon, <3>1, <3>3 DEF IsFinish, LoopInv
    <3> HIDE DEF t
    <3>5. QED BY Zenon, <3>1, <3>2, <3>3, <3>4 DEF AliveTasks, t
  <2>2. ASSUME NEW i \in DOMAIN taskList
        PROVE  waiter'[taskList[i]] = waiter[taskList[i]] \/ IsOneShot(waiter[taskList[i]])
    BY Zenon, <1>0, <1>2, <2>2 DEF AliveCheck, Refused
  <2>3. ASSUME NEW i \in DOMAIN taskList, IsOneShot(waiter[taskList[i]])
        PROVE  waiter'[taskList[i]].kind \in {"pipe", "poll"}
    <3>1. waiter[taskList[i]] \in PipeWaiters
      BY SMTT(30), <1>0, <2>3, WaiterKinds DEF TypeOK
    <3>2. waiter'[taskList[i]] \in {waiter[taskList[i]], Refused(waiter[taskList[i]])}
      BY Zenon, <1>0, <1>2 DEF AliveCheck
    <3>3. QED BY Zenon, <3>1, <3>2 DEF Refused, PipeWaiters
  <2>4. UNCHANGED <<taskList, mem, fork>>
    BY Zenon, <1>2 DEF AliveCheck
  <2>5. QED
    BY <2>1, <2>2, <2>3, <2>4 DEF NothingReadyAtReturn, CanDispatch, IsFutex
<1>3. CASE Tick
  <2>1. UNCHANGED <<taskList, pc, mem, fork>>
    BY Zenon, <1>3 DEF Tick, loop
  <2>2. ASSUME NEW i \in DOMAIN taskList, waiter'[taskList[i]] # waiter[taskList[i]]
        PROVE  LET w == waiter[taskList[i]]  v == waiter'[taskList[i]] IN
               /\ w.kind = "timed" /\ v.kind = "timed"
               /\ v.addr = w.addr /\ v.val = w.val /\ (v.woken <=> w.woken)
    <3> DEFINE w == waiter[taskList[i]]
    <3>1. w.kind = "timed" /\ waiter'[taskList[i]] = [w EXCEPT !.left = w.left - 1]
      BY Zenon, <1>0, <1>3, <2>2 DEF Tick
    <3>2. w \in FutexWaiters
      BY Zenon, <1>0, <3>1, WaiterKinds DEF TypeOK, IsFutex
    <3> HIDE DEF w
    <3>3. QED BY Zenon, <3>1, <3>2 DEF FutexWaiters, w
  <2>3. QED BY <2>1, <2>2 DEF NothingReadyAtReturn, IsFutex
<1>4. CASE UNCHANGED vars
  BY Zenon, <1>4 DEF vars, loop, tasks, NothingReadyAtReturn
<1>5. ASSUME Host, ~AliveCheck PROVE pc' # "idle"
  BY SMTT(30), <1>5 DEF Host, BeginPass, KeepTask, DispatchTask, EndPassMain, EndPassRelease,
              EndPassStuck, EndPassMerge, LeaveRun
<1>6. ASSUME Guest PROVE pc' # "idle"
  BY Zenon, <1>6 DEF Guest, Store, Unmap, FutexWaitAgain, FutexWaitPark, FutexWake, Clone, Fork,
              CreateFails, SetTidAddress, Wait4, PipeRead, PipeWrite, Ppoll, ExitThread,
              TerminateHost, ReturnOrFault, Yield, Slice, Continue, Suspend, Drop, loop
<1>7. ASSUME NEW m \in Mains, RunMainForResult(m) PROVE pc' # "idle"
  BY Zenon, <1>7 DEF RunMainForResult
<1>8. QED BY SMTT(30), <1>1, <1>2, <1>3, <1>4, <1>5, <1>6, <1>7 DEF Next

-----------------------------------------------------------------------------
(* The theorems *)

\* The four invariants hold initially.
LEMMA OrderInits ==
  ASSUME Init PROVE ParkedInv /\ ReadyInv /\ OrderInv /\ NothingReadyAtReturn
<1>1. taskList = <<>> /\ threadTask = <<>> /\ pc = "idle" /\ DOMAIN <<>> = {}
  BY DEF Init
<1>2. ParkedInv
  BY Zenon DEF Init, ParkedInv
<1>3. ReadyInv
  BY Zenon, <1>1 DEF ReadyInv
<1>4. OrderInv
  BY Zenon, <1>1, EmptyList DEF OrderInv, Started
<1>5. NothingReadyAtReturn
  BY Zenon, <1>1 DEF NothingReadyAtReturn
<1>6. QED BY Zenon, <1>2, <1>3, <1>4, <1>5

\* A pass that ran nothing has no new thread to merge when it releases the
\* deadlocked waiters, for every number of tasks: the "continue" of run()
\* skips no merge.
THEOREM NoMergeSkipped == Spec => []MergedBeforeRelease
<1>1. ReadyInv => MergedBeforeRelease
  BY Zenon, ReadyImplies
<1>2. QED BY <1>1, OrderInits, ParkedStep, ReadyStep, Invariance, PTL DEF Spec

\* When a main task runs, no task behind it in the pass still waits for its
\* first slice, for every number of threads and of calls left parked.
THEOREM NewThreadsFirst == Spec => []NewThreadsBeforeMain
<1>1. OrderInv => NewThreadsBeforeMain
  BY Zenon DEF OrderInv, Started, NewThreadsBeforeMain, ToSet
<1>2. QED BY <1>1, OrderInits, ParkedStep, OrderStep, Invariance, PTL DEF Spec

\* e_func never returns while the list holds a futex waiter or a wait4 caller
\* that could run, for every number of tasks.
THEOREM QuietAtReturn == Spec => []NothingReadyAtReturn
BY OrderInits, ParkedStep, QuietStep, Invariance, PTL DEF Spec

-----------------------------------------------------------------------------
(***************************************************************************)
(* e_func answers with its own result.  run() returns the result of any    *)
(* main task that finishes, so this rests on the main tasks of earlier     *)
(* calls: one that is still in the list never runs again.                  *)
(***************************************************************************)

-----------------------------------------------------------------------------
(* Invariants *)

\* fork registers a task that it creates.
ForkInv == \A t \in Threads : fork[t] = "alive" => status[t] # "N"

\* can_dispatch has refused the task, which waits for no futex.
Quiet(t) ==
  \/ IsOneShot(waiter[t]) /\ waiter[t].yielded
  \/ waiter[t].kind = "child" /\ fork[waiter[t].child] = "alive"

\* Until a pass runs something, it keeps only tasks that can_dispatch refused.
KeptInv == pc = "scan" /\ ~ran => \A t \in ToSet(kept) : IsFutex(waiter[t]) \/ Quiet(t)

\* The wait4 callers of S wait for each other, or for a child that ended
\* without mark_fork_exit (a return or a fault): none of them runs again.
Stranded(S) ==
  \A t \in S : /\ status[t] = "S" /\ waiter[t].kind = "child"
               /\ fork[waiter[t].child] = "alive"
               /\ waiter[t].child \in S \/ status[waiter[t].child] = "X"

\* The main tasks of earlier calls are stranded, and when a call has returned
\* so is its own.
Alone(S) ==
  /\ Stranded(S)
  /\ \A m \in Mains \cap Live : m # call \/ pc = "idle" => m \in S

\* run() left without the result of the pending call: nothing could run.
LeftInv ==
  pc = "alive" /\ call \in Live => threadTask = <<>> /\ \A t \in Live : Quiet(t)

\* Only the main task of the pending call finishes.
RetInv == mainRet # NoTask => mainRet = call /\ status[call] = "X"

AnswerInv ==
  /\ ForkInv /\ KeptInv /\ LeftInv /\ RetInv /\ OwnAnswer
  /\ \E S \in SUBSET Tasks : Alone(S)

-----------------------------------------------------------------------------
(* What a step does to tasks that wait for a child *)

\* A wait4 caller whose child lives is left alone, an ended task stays ended,
\* and the entry of a child that is parked or has ended is not touched.
WaitersKept ==
  /\ \A t \in Tasks : status[t] = "S" /\ waiter[t].kind = "child"
                        /\ fork[waiter[t].child] = "alive"
       => status'[t] = "S" /\ waiter'[t] = waiter[t]
  /\ \A t \in Tasks : status[t] = "X" => status'[t] = "X"
  /\ \A t \in Threads : status[t] \in {"S", "X"} /\ fork[t] = "alive" => fork'[t] = "alive"

\* Stranded tasks stay stranded.
LEMMA StrandedStays ==
  ASSUME TypeOK, NEW S \in SUBSET Tasks, Stranded(S), WaitersKept
  PROVE  Stranded(S)'
<1> SUFFICES ASSUME NEW t \in S
             PROVE  /\ status'[t] = "S" /\ waiter'[t].kind = "child"
                    /\ fork'[waiter'[t].child] = "alive"
                    /\ waiter'[t].child \in S \/ status'[waiter'[t].child] = "X"
  BY Zenon DEF Stranded
<1> DEFINE c == waiter[t].child
<1>1. /\ t \in Tasks /\ status[t] = "S" /\ waiter[t].kind = "child" /\ fork[c] = "alive"
      /\ c \in S \/ status[c] = "X"
  BY Zenon DEF Stranded
<1>2. c \in Threads /\ c \in Tasks
  BY <1>1, WaiterKinds DEF TypeOK, ChildWaiters, Tasks
<1>3. waiter'[t] = waiter[t] /\ status'[t] = "S"
  BY Zenon, <1>1 DEF WaitersKept
<1>4. status[c] \in {"S", "X"}
  BY Zenon, <1>1 DEF Stranded
<1>5. fork'[c] = "alive"
  BY Zenon, <1>1, <1>2, <1>4 DEF WaitersKept
<1>6. c \in S \/ status'[c] = "X"
  BY Zenon, <1>1, <1>2 DEF WaitersKept
<1> HIDE DEF c
<1>7. QED BY Zenon, <1>1, <1>3, <1>5, <1>6 DEF c

\* FUTEX_WAKE and the exit of a thread touch futex waiters only.
LEMMA WakeFutexOnly ==
  ASSUME NEW a, NEW n, NEW t \in Tasks, ~IsFutex(waiter[t])
  PROVE  WakeFutex(a, n)[t] = waiter[t]
<1> DEFINE waits(i) == IsFutex(waiter[AllTasks[i]]) /\ waiter[AllTasks[i]].addr = a
           hit == {AllTasks[i] : i \in {j \in 1..Len(AllTasks) :
                     /\ waits(j)
                     /\ Cardinality({k \in 1..(j - 1) : waits(k)}) < n}}
<1>1. t \notin hit
  BY Zenon
<1>2. WakeFutex(a, n) = [u \in Tasks |-> IF u \in hit THEN [waiter[u] EXCEPT !.woken = TRUE]
                                                      ELSE waiter[u]]
  BY Zenon DEF WakeFutex
<1> HIDE DEF hit
<1>3. QED BY Zenon, <1>1, <1>2

\* A step that changes only the running task, tasks that do not exist and
\* futex waiters leaves the wait4 callers alone.
LEMMA SliceKeepsWaiters ==
  ASSUME IndInv, pc = "slice",
         \A t \in Tasks : status[t] \in {"S", "X"} => status'[t] = status[t],
         \A t \in Tasks : status[t] = "S" /\ waiter[t].kind = "child" => waiter'[t] = waiter[t],
         \A t \in Threads : status[t] \in {"S", "X"} => fork'[t] = fork[t]
  PROVE  WaitersKept
BY Zenon DEF WaitersKept

\* No step touches a wait4 caller whose child lives.
LEMMA KeepsWaiters ==
  ASSUME IndInv, [Next]_vars PROVE WaitersKept
<1> USE DEF IndInv
<1>0. Threads \subseteq Tasks /\ Mains \subseteq Tasks
  BY Zenon DEF Tasks
<1>1. ASSUME NEW m \in Mains, RunMainForResult(m) PROVE WaitersKept
  BY Zenon, <1>0, <1>1 DEF RunMainForResult, TypeOK, WaitersKept
<1>2. ASSUME Host PROVE WaitersKept
  <2>1. CASE KeepTask
    <3>1. \A t \in Tasks : waiter[t].kind = "child" => waiter'[t] = waiter[t]
      BY Zenon, <2>1 DEF KeepTask, TypeOK, Refused, IsOneShot
    <3>2. QED BY Zenon, <2>1, <3>1 DEF KeepTask, WaitersKept
  <2>2. CASE DispatchTask
    <3> DEFINE h == Head(scheduled)
    <3>1. h \in Tasks /\ h \in ToSet(scheduled)
      BY <2>2, HeadAndTail DEF DispatchTask, TypeOK
    <3>2. status[h] # "X"
      BY Zenon, <2>2, <3>1 DEF Conserved, Live, DispatchTask
    <3>3. CanDispatch(h) /\ fork' = fork
      BY Zenon, <2>2 DEF DispatchTask
    <3>4. \A t \in Tasks : t # h => status'[t] = status[t] /\ waiter'[t] = waiter[t]
      BY Zenon, <2>2, <3>1 DEF DispatchTask, TypeOK
    <3> HIDE DEF h
    <3>5. waiter[h].kind = "child" => fork[waiter[h].child] # "alive"
      BY Zenon, <3>3 DEF CanDispatch, IsFutex, IsOneShot
    <3>6. QED BY Zenon, <3>2, <3>3, <3>4, <3>5 DEF WaitersKept
  <2>3. CASE EndPassRelease
    <3>1. \A t \in Tasks : waiter[t].kind = "child" => waiter'[t] = waiter[t]
      BY Zenon, <2>3 DEF EndPassRelease, Deadlocked, IsFutex
    <3>2. QED BY Zenon, <2>3, <3>1 DEF EndPassRelease, WaitersKept
  <2>4. CASE AliveCheck
    <3>1. \A t \in Tasks : waiter[t].kind = "child" => waiter'[t] = waiter[t]
      BY Zenon, <2>4 DEF AliveCheck, Refused, IsOneShot
    <3>2. QED BY Zenon, <2>4, <3>1 DEF AliveCheck, WaitersKept
  <2>5. CASE UNCHANGED <<waiter, status, fork>>
    BY Zenon, <2>5 DEF WaitersKept
  <2>6. QED BY Zenon, <2>1, <2>2, <2>3, <2>4, <2>5, <1>2
        DEF Host, BeginPass, EndPassMain, EndPassStuck, EndPassMerge, tasks
<1>3. ASSUME Tick PROVE WaitersKept
  BY Zenon, <1>3 DEF Tick, WaitersKept
<1>4. ASSUME Guest PROVE WaitersKept
  <2>0. pc = "slice"
    BY Zenon, <1>4 DEF Guest, Store, Unmap, FutexWaitAgain, FutexWaitPark, FutexWake, Clone, Fork,
         CreateFails, SetTidAddress, Wait4, PipeRead, PipeWrite, Ppoll, ExitThread,
         TerminateHost, ReturnOrFault, Yield, Slice
  <2>1. runningTask \in Tasks /\ status[runningTask] = "R"
    BY Zenon, <2>0 DEF LoopInv
  <2>2. ASSUME NEW w, Suspend(w) PROVE WaitersKept
    <3>1. \A t \in Tasks : t # runningTask => waiter'[t] = waiter[t] /\ status'[t] = status[t]
      BY Zenon, <2>1, <2>2 DEF Suspend, TypeOK
    <3>2. fork' = fork
      BY Zenon, <2>2 DEF Suspend
    <3>3. QED BY Zenon, <2>0, <2>1, <3>1, <3>2, SliceKeepsWaiters
  <2>3. ASSUME NEW a \in Words, NEW n, FutexWake(a, n) PROVE WaitersKept
    <3>1. waiter' = WakeFutex(a, n) /\ status' = status /\ fork' = fork
      BY Zenon, <2>3 DEF FutexWake
    <3>2. \A t \in Tasks : waiter[t].kind = "child" => waiter'[t] = waiter[t]
      BY Zenon, <3>1, WakeFutexOnly DEF IsFutex
    <3>3. QED BY Zenon, <2>0, <3>1, <3>2, SliceKeepsWaiters
  <2>4. ASSUME NEW t \in Threads, Fork(t) \/ CreateFails(t) \/ \E a, b : Clone(t, a, b)
        PROVE  WaitersKept
    <3>1. t \in Tasks /\ status[t] = "N" /\ waiter' = waiter
      BY Zenon, <1>0, <2>4 DEF Fork, CreateFails, Clone
    <3>2. \A u \in Tasks : u # t => status'[u] = status[u]
      BY Zenon, <2>4, <3>1 DEF Fork, CreateFails, Clone, TypeOK
    <3>3. \A u \in Threads : u # t => fork'[u] = fork[u]
      BY Zenon, <2>4 DEF Fork, CreateFails, Clone, TypeOK
    <3>4. QED BY Zenon, <1>0, <2>0, <3>1, <3>2, <3>3, SliceKeepsWaiters
  <2>5. ASSUME ExitThread \/ ReturnOrFault PROVE WaitersKept
    <3>1. \A t \in Tasks : t # runningTask => status'[t] = status[t]
      BY Zenon, <2>1, <2>5 DEF ExitThread, ReturnOrFault, Drop, TypeOK
    <3>2. \A t \in Threads : t # runningTask => fork'[t] = fork[t]
      BY Zenon, <2>5 DEF ExitThread, ReturnOrFault, MarkForkExit, TypeOK
    <3>3. waiter' = waiter \/ \E a, n : waiter' = WakeFutex(a, n)
      BY Zenon, <2>5 DEF ExitThread, ReturnOrFault
    <3>4. \A t \in Tasks : waiter[t].kind = "child" => waiter'[t] = waiter[t]
      BY Zenon, <3>3, WakeFutexOnly DEF IsFutex
    <3>5. QED BY Zenon, <1>0, <2>0, <2>1, <3>1, <3>2, <3>4, SliceKeepsWaiters
  <2>6. CASE UNCHANGED <<waiter, status, fork>>
    BY Zenon, <2>6 DEF WaitersKept
  <2>7. QED
    BY Zenon, <2>2, <2>3, <2>4, <2>5, <2>6, <1>4
    DEF Guest, Store, Unmap, FutexWaitAgain, FutexWaitPark, SetTidAddress, Wait4, PipeRead,
        PipeWrite, Ppoll, TerminateHost, Yield, tasks
<1>5. CASE UNCHANGED vars
  BY Zenon, <1>5 DEF vars, tasks, WaitersKept
<1>6. QED BY Zenon, <1>1, <1>2, <1>3, <1>4, <1>5 DEF Next

-----------------------------------------------------------------------------
(* How calls, states and fork entries change *)

\* Every step but e_func leaves the pending call alone; only AliveCheck returns
\* to the host; no task is unmade or made new again; main tasks begin and end
\* for good; fork registers what it creates.
StepFacts ==
  /\ call' = call
  /\ pc' = "idle" => pc = "idle" \/ AliveCheck
  /\ \A t \in Tasks : status'[t] = "N" => status[t] = "N"
  /\ \A t \in Tasks : status'[t] = "Z" => status[t] \in {"N", "Z"}
  /\ \A t \in Mains : status[t] \in {"N", "X"} => status'[t] = status[t]
  /\ \A t \in Threads : fork'[t] = "alive" => fork[t] = "alive" \/ status'[t] = "Z"

\* All steps but a new call have these effects.
LEMMA StepChanges ==
  ASSUME IndInv, Host \/ Guest \/ Tick \/ UNCHANGED vars PROVE StepFacts
<1> USE DEF IndInv
<1>0. Threads \subseteq Tasks /\ Mains \subseteq Tasks
  BY Zenon DEF Tasks
<1>1. ASSUME call' = call, pc' # "idle" \/ pc' = pc, status' = status, fork' = fork
      PROVE  StepFacts
  BY Zenon, <1>1 DEF StepFacts
<1>2. ASSUME Host PROVE StepFacts
  <2>1. CASE DispatchTask
    <3> DEFINE h == Head(scheduled)
    <3>1. h \in Tasks /\ h \in ToSet(scheduled)
      BY <2>1, HeadAndTail DEF DispatchTask, TypeOK
    <3>2. status[h] \notin {"N", "X"}
      BY Zenon, <2>1, <3>1 DEF Conserved, Live, DispatchTask
    <3>3. call' = call /\ pc' = "slice" /\ fork' = fork
      BY Zenon, <2>1 DEF DispatchTask, host
    <3>4. \A t \in Tasks : status'[t] = IF t = h THEN "R" ELSE status[t]
      BY Zenon, <2>1, <3>1 DEF DispatchTask, TypeOK
    <3> HIDE DEF h
    <3>5. QED BY Zenon, <1>0, <3>2, <3>3, <3>4 DEF StepFacts
  <2>2. CASE AliveCheck
    BY Zenon, <2>2 DEF AliveCheck, StepFacts
  <2>3. CASE BeginPass \/ KeepTask \/ EndPassMain \/ EndPassRelease \/ EndPassStuck \/ EndPassMerge
    BY SMTT(30), <1>1, <2>3 DEF BeginPass, KeepTask, EndPassMain, EndPassRelease, EndPassStuck,
             EndPassMerge, LeaveRun, host, tasks
  <2>4. QED BY Zenon, <1>2, <2>1, <2>2, <2>3 DEF Host
<1>3. ASSUME Guest PROVE StepFacts
  <2>0. pc = "slice"
    BY Zenon, <1>3 DEF Guest, Store, Unmap, FutexWaitAgain, FutexWaitPark, FutexWake, Clone, Fork,
         CreateFails, SetTidAddress, Wait4, PipeRead, PipeWrite, Ppoll, ExitThread,
         TerminateHost, ReturnOrFault, Yield, Slice
  <2>1. runningTask \in Tasks /\ status[runningTask] = "R"
    BY Zenon, <2>0 DEF LoopInv
  <2>2. ASSUME NEW w, Suspend(w) PROVE StepFacts
    <3>1. \A t \in Tasks : status'[t] = IF t = runningTask THEN "S" ELSE status[t]
      BY Zenon, <2>1, <2>2 DEF Suspend, TypeOK
    <3>2. call' = call /\ pc' = "scan" /\ fork' = fork
      BY Zenon, <2>2 DEF Suspend, host
    <3>3. QED BY Zenon, <1>0, <2>1, <3>1, <3>2 DEF StepFacts
  <2>3. ASSUME NEW r, Continue(r), UNCHANGED <<status, fork>> PROVE StepFacts
    BY Zenon, <1>1, <2>3 DEF Continue, loop, host
  <2>4. ASSUME NEW t \in Threads, Fork(t) \/ CreateFails(t) \/ \E a, b : Clone(t, a, b)
        PROVE  StepFacts
    <3>1. t \in Tasks /\ t \notin Mains /\ call' = call /\ pc' = "slice" /\ status[t] = "N"
      BY Zenon, <1>0, <2>0, <2>4, ConstantsAssumption DEF Fork, CreateFails, Clone, Continue, loop, host
    <3>2. \A u \in Tasks : u # t => status'[u] = status[u]
      BY Zenon, <2>4, <3>1 DEF Fork, CreateFails, Clone, TypeOK
    <3>3. status'[t] = "Z" \/ (status'[t] = "X" /\ fork' = fork)
      <4>1. \/ status' = [status EXCEPT ![t] = "Z"]
            \/ status' = [status EXCEPT ![t] = "X"] /\ fork' = fork
        BY Zenon, <2>4 DEF Fork, CreateFails, Clone
      <4>2. QED BY Zenon, <3>1, <4>1 DEF TypeOK
    <3>4. \A u \in Threads : u # t => fork'[u] = fork[u]
      BY Zenon, <2>4 DEF Fork, CreateFails, Clone, TypeOK
    <3>5. QED BY Zenon, <1>0, <3>1, <3>2, <3>3, <3>4 DEF StepFacts
  <2>5. ASSUME ExitThread \/ ReturnOrFault PROVE StepFacts
    <3>1. \A t \in Tasks : status'[t] = IF t = runningTask THEN "X" ELSE status[t]
      BY Zenon, <2>1, <2>5 DEF ExitThread, ReturnOrFault, Drop, TypeOK
    <3>2. \A t \in Threads : fork'[t] = "alive" => fork[t] = "alive"
      BY Zenon, <2>5 DEF ExitThread, ReturnOrFault, MarkForkExit, TypeOK
    <3>3. call' = call /\ pc' = "scan"
      BY Zenon, <2>5 DEF ExitThread, ReturnOrFault, Drop, host
    <3>4. QED BY Zenon, <1>0, <2>1, <3>1, <3>2, <3>3 DEF StepFacts
  <2>6. CASE TerminateHost
    BY Zenon, <1>1, <2>6 DEF TerminateHost, host, tasks
  <2>7. QED
    BY Zenon, <2>2, <2>3, <2>4, <2>5, <2>6, <1>3
    DEF Guest, Store, Unmap, FutexWaitAgain, FutexWaitPark, FutexWake, SetTidAddress, Wait4,
        PipeRead, PipeWrite, Ppoll, Yield, tasks
<1>4. ASSUME Tick \/ UNCHANGED vars PROVE StepFacts
  BY Zenon, <1>1, <1>4 DEF Tick, vars, loop, host, tasks
<1>5. QED BY Zenon, <1>2, <1>3, <1>4

-----------------------------------------------------------------------------
(* Every step preserves the invariant *)

\* ForkInv is inductive.
LEMMA ForkStep ==
  ASSUME IndInv, ForkInv, [Next]_vars PROVE ForkInv'
<1>1. Threads \subseteq Tasks
  BY Zenon DEF Tasks
<1>2. ASSUME NEW m \in Mains, RunMainForResult(m) PROVE ForkInv'
  BY Zenon, <1>1, <1>2, ConstantsAssumption DEF RunMainForResult, ForkInv, IndInv, TypeOK
<1>3. CASE StepFacts
  BY Zenon, <1>1, <1>3 DEF StepFacts, ForkInv
<1>4. QED BY Zenon, <1>2, <1>3, StepChanges DEF Next

\* The clock leaves refused tasks refused.
LEMMA TickQuiet ==
  ASSUME Tick, NEW t \in Tasks
  PROVE  /\ Quiet(t) => Quiet(t)'
         /\ TypeOK /\ IsFutex(waiter[t]) => IsFutex(waiter'[t])
<1>1. Quiet(t) => Quiet(t)'
  BY Zenon DEF Tick, Quiet, IsOneShot
<1>2. ASSUME TypeOK, IsFutex(waiter[t]) PROVE IsFutex(waiter'[t])
  <2>1. waiter[t] \in FutexWaiters
    BY Zenon, <1>2, WaiterKinds DEF TypeOK
  <2>2. QED BY Zenon, <1>2, <2>1 DEF Tick, IsFutex, FutexWaiters
<1>3. QED BY Zenon, <1>1, <1>2

\* KeptInv is inductive.
LEMMA KeptStep ==
  ASSUME IndInv, KeptInv, [Next]_vars PROVE KeptInv'
<1> USE DEF IndInv
<1>1. ASSUME pc' # "scan" \/ ran' PROVE KeptInv'
  BY Zenon, <1>1 DEF KeptInv
<1>2. ASSUME BeginPass PROVE KeptInv'
  <2>1. kept' = <<>>
    BY Zenon, <1>2 DEF BeginPass, LoopInv
  <2>2. QED BY Zenon, <2>1, EmptyList DEF KeptInv
<1>3. ASSUME KeepTask PROVE KeptInv'
  <2>0. PICK h \in Tasks : h = Head(scheduled)
    BY Zenon, <1>3, HeadAndTail DEF KeepTask, TypeOK
  <2>1. h \in ToSet(scheduled) /\ ToSet(kept') = ToSet(kept) \cup {h}
    BY <1>3, <2>0, HeadAndTail, AppendList DEF KeepTask, TypeOK
  <2>2. h \in Live /\ ToSet(kept) \subseteq Tasks
    BY Zenon, <1>3, <2>1 DEF KeepTask, Conserved, Live
  <2>3. ~IsFinish(h)
    BY Zenon, <2>2, ConstantsAssumption DEF Live, IsFinish, LoopInv, Tasks
  <2>4. waiter' = [waiter EXCEPT ![h] = Refused(@)] /\ ~CanDispatch(h)
    BY Zenon, <1>3, <2>0, <2>3 DEF KeepTask
  <2>5. UNCHANGED <<pc, ran, fork>> /\ pc = "scan"
    BY Zenon, <1>3 DEF KeepTask
  <2>6. waiter[h] \in Waiters /\ waiter'[h] = Refused(waiter[h])
    BY Zenon, <2>1, <2>4 DEF TypeOK
  <2>7. IsFutex(waiter'[h]) \/ Quiet(h)'
    <3>1. CASE IsOneShot(waiter[h])
      <4>1. waiter[h] \in PipeWaiters
        BY Zenon, <2>6, <3>1, WaiterKinds
      <4>2. waiter'[h] = [waiter[h] EXCEPT !.yielded = TRUE]
        BY Zenon, <2>6, <3>1 DEF Refused
      <4>3. QED BY Zenon, <3>1, <4>1, <4>2 DEF Quiet, IsOneShot, PipeWaiters
    <3>2. CASE ~IsOneShot(waiter[h])
      <4>1. waiter'[h] = waiter[h]
        BY Zenon, <2>6, <3>2 DEF Refused
      <4>2. waiter[h].kind \in {"none", "futex", "timed", "child"}
        BY <2>6, <3>2 DEF Waiters, NoWaiter, FutexWaiters, PipeWaiters, ChildWaiters, IsOneShot
      <4>3. QED BY Zenon, <2>4, <2>5, <4>1, <4>2 DEF CanDispatch, Quiet, IsFutex
    <3>3. QED BY Zenon, <3>1, <3>2
  <2>8. ASSUME NEW t \in ToSet(kept), t # h, IsFutex(waiter[t]) \/ Quiet(t)
        PROVE  IsFutex(waiter'[t]) \/ Quiet(t)'
    <3>1. waiter'[t] = waiter[t]
      BY Zenon, <2>2, <2>4, <2>8 DEF TypeOK
    <3>2. QED BY Zenon, <2>5, <2>8, <3>1 DEF Quiet
  <2>9. QED BY Zenon, <2>1, <2>5, <2>7, <2>8 DEF KeptInv
<1>4. ASSUME Tick PROVE KeptInv'
  <2>1. ToSet(kept) \subseteq Tasks /\ UNCHANGED <<pc, ran, kept>>
    BY <1>4 DEF ToSet, TypeOK, Tick, loop
  <2>2. QED BY Zenon, <1>4, <2>1, TickQuiet DEF KeptInv
<1>5. ASSUME Guest PROVE KeptInv'
  <2>1. pc = "slice" /\ ran
    BY Zenon, <1>5 DEF Guest, Store, Unmap, FutexWaitAgain, FutexWaitPark, FutexWake, Clone, Fork,
                CreateFails, SetTidAddress, Wait4, PipeRead, PipeWrite, Ppoll, ExitThread,
                TerminateHost, ReturnOrFault, Yield, Slice, LoopInv
  <2>2. ran' = ran
    BY Zenon, <1>5 DEF Guest, Store, Unmap, FutexWaitAgain, FutexWaitPark, FutexWake, Clone, Fork,
                CreateFails, SetTidAddress, Wait4, PipeRead, PipeWrite, Ppoll, ExitThread,
                TerminateHost, ReturnOrFault, Yield, Continue, Suspend, Drop, loop
  <2>3. QED BY Zenon, <1>1, <2>1, <2>2
<1>6. CASE DispatchTask \/ EndPassMain \/ EndPassRelease \/ EndPassStuck \/ EndPassMerge
           \/ AliveCheck \/ \E m \in Mains : RunMainForResult(m)
  BY Zenon, <1>1, <1>6 DEF DispatchTask, EndPassMain, EndPassRelease, EndPassStuck, EndPassMerge,
                   LeaveRun, AliveCheck, RunMainForResult
<1>7. CASE UNCHANGED vars
  BY Zenon, <1>7 DEF vars, loop, tasks, KeptInv, Quiet
<1>8. QED BY Zenon, <1>2, <1>3, <1>4, <1>5, <1>6, <1>7 DEF Next, Host

\* A main task that runs is the one of the pending call.
LEMMA RunningIsCall ==
  ASSUME IndInv, NEW S, Alone(S), pc = "slice", runningTask \in Mains
  PROVE  runningTask = call
<1>1. runningTask \in Mains \cap Live /\ status[runningTask] = "R"
  BY Zenon DEF IndInv, LoopInv, Live
<1>2. QED BY Zenon, <1>1 DEF Alone, Stranded

\* The result with which run() ends a pass is that of the pending call.
LEMMA RetStep ==
  ASSUME IndInv, RetInv, OwnAnswer, NEW S, Alone(S), [Next]_vars
  PROVE  RetInv' /\ OwnAnswer'
<1> USE DEF IndInv
<1>1. ASSUME NEW m \in Mains, RunMainForResult(m) PROVE RetInv' /\ OwnAnswer'
  BY Zenon, <1>1 DEF RunMainForResult, LoopInv, RetInv, OwnAnswer
<1>2. ASSUME call' = call, mainRet' = NoTask \/ mainRet' = mainRet,
             answer' \in {NoTask, answer, mainRet}, \A t \in Mains : status[t] = "X" => status'[t] = "X"
      PROVE  RetInv' /\ OwnAnswer'
  BY Zenon, <1>2 DEF RetInv, OwnAnswer, TypeOK
<1>3. ASSUME Drop, pc = "slice" PROVE RetInv' /\ OwnAnswer'
  <2>1. call' = call /\ answer' = answer
    BY Zenon, <1>3 DEF Drop, host
  <2>2. runningTask \in Tasks /\ mainRet = NoTask
    BY Zenon, <1>3 DEF LoopInv
  <2>3. CASE runningTask \in Mains
    <3>1. mainRet' = call /\ status'[call] = "X"
      BY Zenon, <1>3, <2>2, <2>3, RunningIsCall DEF Drop, TypeOK
    <3>2. QED BY Zenon, <2>1, <3>1 DEF RetInv, OwnAnswer
  <2>4. CASE runningTask \notin Mains
    BY Zenon, <1>3, <2>1, <2>2, <2>4 DEF Drop, RetInv, OwnAnswer
  <2>5. QED BY Zenon, <2>3, <2>4
<1>4. ASSUME StepFacts, Host PROVE RetInv' /\ OwnAnswer'
  <2>1. mainRet' = NoTask \/ mainRet' = mainRet
    BY SMTT(30), <1>4 DEF Host, BeginPass, KeepTask, DispatchTask, EndPassMain, EndPassRelease,
                EndPassStuck, EndPassMerge, EndOfPass, AliveCheck
  <2>2. answer' \in {NoTask, answer, mainRet}
    BY SMTT(30), <1>4 DEF Host, BeginPass, KeepTask, DispatchTask, EndPassMain, EndPassRelease,
                EndPassStuck, EndPassMerge, LeaveRun, AliveCheck, host
  <2>3. QED BY Zenon, <1>2, <1>4, <2>1, <2>2 DEF StepFacts
<1>5. ASSUME StepFacts, Guest PROVE RetInv' /\ OwnAnswer'
  <2>1. pc = "slice"
    BY Zenon, <1>5 DEF Guest, Store, Unmap, FutexWaitAgain, FutexWaitPark, FutexWake, Clone, Fork,
         CreateFails, SetTidAddress, Wait4, PipeRead, PipeWrite, Ppoll, ExitThread,
         TerminateHost, ReturnOrFault, Yield, Slice
  <2>2. Drop \/ UNCHANGED <<mainRet, answer>>
    BY Zenon, <1>5 DEF Guest, Store, Unmap, FutexWaitAgain, FutexWaitPark, FutexWake, Clone, Fork,
         CreateFails, SetTidAddress, Wait4, PipeRead, PipeWrite, Ppoll, ExitThread,
         TerminateHost, ReturnOrFault, Yield, Continue, Suspend, loop, host
  <2>3. QED BY Zenon, <1>2, <1>3, <1>5, <2>1, <2>2 DEF StepFacts
<1>6. ASSUME StepFacts, Tick \/ UNCHANGED vars PROVE RetInv' /\ OwnAnswer'
  BY Zenon, <1>2, <1>6 DEF Tick, vars, loop, host, StepFacts
<1>7. QED BY Zenon, <1>1, <1>4, <1>5, <1>6, StepChanges DEF Next

\* run() leaves with the result of the call, or when nothing could run.
LEMMA LeftStep ==
  ASSUME IndInv, IndInv', ReadyInv, KeptInv, RetInv, LeftInv, [Next]_vars
  PROVE  LeftInv'
<1> USE DEF IndInv
<1>1. ASSUME pc' # "alive" PROVE LeftInv'
  BY Zenon, <1>1 DEF LeftInv
<1>2. CASE EndPassMain
  <2>1. status[call] = "X" /\ call' = call /\ status' = status
    BY Zenon, <1>2 DEF EndPassMain, RetInv, tasks
  <2>2. QED BY Zenon, <2>1 DEF LeftInv, Live
<1>3. CASE EndPassStuck
  <2>1. /\ pc = "scan" /\ scheduled = <<>> /\ mainRet = NoTask /\ ~ran /\ Deadlocked = {}
        /\ UNCHANGED <<threadTask, status, waiter, fork>>
    BY Zenon, <1>3 DEF EndPassStuck, EndOfPass, tasks
  <2>2. threadTask = <<>>
    BY Zenon, <2>1, ReadyImplies DEF MergedBeforeRelease
  <2>3. Live = ToSet(kept)
    BY Zenon, <2>1, <2>2, EmptyList DEF Conserved
  <2>4. kept \o threadTask = kept
    BY <2>2 DEF TypeOK
  <2>5. \A t \in Live : Quiet(t)
    BY Zenon, <2>1, <2>3, <2>4 DEF KeptInv, Deadlocked
  <2>6. \A t \in Live : Quiet(t)'
    BY Zenon, <2>1, <2>5 DEF Quiet
  <2>7. QED BY Zenon, <2>1, <2>2, <2>6 DEF LeftInv, Live
<1>4. CASE EndPassMerge /\ pc' = "alive"
  <2>1. taskList' = <<>> /\ threadTask' = <<>>
    <3> DEFINE merged == Reverse(threadTask) \o kept
    <3>1. merged = <<>> /\ LeaveRun(merged, NoTask)
      BY Zenon, <1>4 DEF EndPassMerge
    <3>2. taskList' = <<>> \/ taskList' = Retain(<<>>)
      BY Zenon, <3>1 DEF LeaveRun
    <3>3. Retain(<<>>) = <<>>
      <4>1. DOMAIN <<>> = {}
        OBVIOUS
      <4>2. QED BY <4>1, Zenon DEF Retain
    <3>4. QED BY Zenon, <1>4, <3>2, <3>3 DEF EndPassMerge
  <2>2. Live' = {}
    BY Zenon, <1>4, <2>1, EmptyList DEF Conserved
  <2>3. QED BY Zenon, <2>2 DEF LeftInv
<1>5. CASE Tick
  <2>1. UNCHANGED <<pc, call, status, threadTask>> /\ Live \subseteq Tasks
    BY Zenon, <1>5 DEF Tick, loop, host, Live
  <2>2. \A t \in Live : Quiet(t) => Quiet(t)'
    BY Zenon, <1>5, <2>1, TickQuiet
  <2>3. Live' = Live
    BY Zenon, <2>1 DEF Live
  <2>4. QED BY Zenon, <2>1, <2>2, <2>3 DEF LeftInv
<1>6. CASE UNCHANGED vars
  BY Zenon, <1>6 DEF vars, loop, host, tasks, LeftInv, Quiet, Live
<1>7. ASSUME Guest PROVE pc' # "alive"
  BY Zenon, <1>7 DEF Guest, Store, Unmap, FutexWaitAgain, FutexWaitPark, FutexWake, Clone, Fork,
              CreateFails, SetTidAddress, Wait4, PipeRead, PipeWrite, Ppoll, ExitThread,
              TerminateHost, ReturnOrFault, Yield, Slice, Continue, Suspend, Drop, loop
<1>8. ASSUME BeginPass \/ KeepTask \/ DispatchTask \/ EndPassRelease
               \/ \E m \in Mains : RunMainForResult(m)
      PROVE  pc' # "alive"
  BY Zenon, <1>8 DEF BeginPass, KeepTask, DispatchTask, EndPassRelease, RunMainForResult
<1>9. ASSUME AliveCheck PROVE pc' # "alive"
  BY Zenon, <1>9 DEF AliveCheck
<1>10. QED BY Zenon, <1>1, <1>2, <1>3, <1>4, <1>5, <1>6, <1>7, <1>8, <1>9 DEF Next, Host

\* When a call returns with its own main task parked, every live task waits for
\* a child that is live too or has ended unreported: all of them are stranded.
LEMMA ReturnStrands ==
  ASSUME IndInv, ParkedInv, ForkInv, LeftInv, call \in Live, AliveCheck, pc' = "idle"
  PROVE  Stranded(Live)
<1> USE DEF IndInv
<1>1. /\ pc = "alive" /\ AliveTasks = {} /\ threadTask = <<>>
      /\ \A t \in Live : Quiet(t)
  BY Zenon DEF AliveCheck, LeftInv
<1>2. ToSet(taskList) = Live
  BY Zenon, <1>1, EmptyList DEF Conserved
<1> SUFFICES ASSUME NEW t \in Live
             PROVE  /\ status[t] = "S" /\ waiter[t].kind = "child"
                    /\ fork[waiter[t].child] = "alive"
                    /\ waiter[t].child \in Live \/ status[waiter[t].child] = "X"
  BY Zenon DEF Stranded
<1>3. t \in Tasks /\ waiter[t] # NoWaiter
  BY <1>1 DEF Live, Quiet, IsOneShot, NoWaiter
<1>4. status[t] = "S" /\ ~IsFinish(t)
  BY Zenon, <1>3 DEF ParkedInv, IsFinish, LoopInv
<1>5. ~CanDispatch(t)
  BY Zenon, <1>1, <1>2, <1>3, <1>4 DEF AliveTasks
<1>6. waiter[t].kind = "child" /\ fork[waiter[t].child] = "alive"
  BY Zenon, <1>1, <1>5 DEF CanDispatch, Quiet
<1>7. waiter[t].child \in Threads /\ waiter[t].child \in Tasks
  BY <1>3, <1>6, WaiterKinds DEF TypeOK, ChildWaiters, Tasks
<1>8. status[waiter[t].child] # "N"
  BY Zenon, <1>6, <1>7 DEF ForkInv
<1>9. QED BY Zenon, <1>4, <1>6, <1>7, <1>8 DEF Live

\* A set of stranded tasks stays one, or the tasks a call left behind join it.
LEMMA AloneStep ==
  ASSUME IndInv, ParkedInv, ForkInv, LeftInv, NEW S \in SUBSET Tasks, Alone(S), [Next]_vars
  PROVE  \E R \in SUBSET Tasks : Alone(R)'
<1> USE DEF IndInv
<1>1. Stranded(S)'
  BY Zenon, StrandedStays, KeepsWaiters DEF Alone
<1>2. ASSUME NEW m \in Mains, RunMainForResult(m) PROVE Alone(S)'
  <2>1. pc = "idle" /\ pc' = "pass" /\ call' = m
    BY Zenon, <1>2 DEF RunMainForResult
  <2>2. \A t \in Mains \cap Live' : t = m \/ t \in Live
    BY Zenon, <1>2 DEF RunMainForResult, Live, TypeOK
  <2>3. QED BY Zenon, <1>1, <2>1, <2>2 DEF Alone
<1>3. ASSUME StepFacts PROVE \A t \in Mains : t \in Live' => t \in Live
  BY Zenon, <1>3 DEF StepFacts, Live, Tasks
<1>4. ASSUME StepFacts, AliveCheck, pc' = "idle", call \in Live
      PROVE  \E R \in SUBSET Tasks : Alone(R)'
  <2>0. PICK R \in SUBSET Tasks : R = Live
    BY Zenon DEF Live
  <2>1. Stranded(R)
    BY Zenon, <1>4, <2>0, ReturnStrands
  <2>2. Stranded(R)'
    BY Zenon, <2>1, StrandedStays, KeepsWaiters
  <2>3. Live' = R
    BY Zenon, <1>4, <2>0 DEF AliveCheck, Live
  <2>4. Alone(R)'
    BY Zenon, <2>2, <2>3 DEF Alone
  <2>5. QED BY Zenon, <2>4
<1>5. ASSUME StepFacts, pc' # "idle" \/ pc = "idle" \/ call \notin Live PROVE Alone(S)'
  BY Zenon, <1>1, <1>3, <1>5 DEF Alone, StepFacts
<1>6. QED BY Zenon, <1>2, <1>4, <1>5, StepChanges DEF Next, StepFacts

\* AnswerInv is inductive, given the invariants of the pass.
LEMMA AnswerStep ==
  ASSUME IndInv, IndInv', ParkedInv, ReadyInv, AnswerInv, [Next]_vars
  PROVE  AnswerInv'
BY Zenon, ForkStep, KeptStep, RetStep, LeftStep, AloneStep DEF AnswerInv

\* It holds before the first call, when nothing is stranded.
LEMMA AnswerInit ==
  ASSUME Init PROVE AnswerInv
<1>1. Alone({})
  BY Zenon DEF Init, Alone, Stranded, Live, Tasks
<1>2. QED BY Zenon, <1>1 DEF Init, AnswerInv, ForkInv, KeptInv, LeftInv, RetInv, OwnAnswer

\* e_func answers with the result of its own main task or with None, for every
\* number of calls, threads and forked children: a main task left parked by an
\* earlier call waits for a child that never reports, and never runs again.
THEOREM AnswersOwnCall == Spec => []OwnAnswer
<1>1. AnswerInv => OwnAnswer
  BY Zenon DEF AnswerInv
<1>2. QED BY <1>1, AnswerInit, OrderInits, ParkedStep, ReadyStep, AnswerStep, Invariance, PTL
      DEF Spec

-----------------------------------------------------------------------------
(* Mutual exclusion of BionicMutex, when no task blocks while it holds a      *)
(* mutex.  The deadlock release of run() is the only step that zeroes the     *)
(* word of a mutex somebody else holds.  It fires in a pass that ran nothing, *)
(* and an owner that is not blocked would have run.                           *)

\* A thread that has not been merged has not run.
NewInv == \A t \in ToSet(threadTask) : status[t] = "Z"

\* No thread has a tid word: the words are mutexes.
TidNull == \A t \in Threads : tidPtr[t] = NoAddr

\* An owner has run; while it lives it is not parked, the word is locked, and
\* no other live task is inside.
OwnerInv ==
  /\ inside \in [Words -> SUBSET Tasks]
  /\ \A a \in Words : \A t \in inside[a] : status[t] \notin {"N", "Z"}
  /\ \A a \in Words : \A t \in inside[a] \cap Live : waiter[t] = NoWaiter /\ mem[a] \in {1, 2}
  /\ \A a \in Words : \A t, u \in inside[a] \cap Live : t = u

MutexInv == IndInv /\ ParkedInv /\ KeptInv /\ NewInv /\ TidNull /\ OwnerInv

-----------------------------------------------------------------------------
(* Steps of the mutex and steps of the dispatcher *)

\* Every step but the unlock, which stores and wakes at once, is a step of the
\* dispatcher.
LEMMA MutexIsStep ==
  ASSUME [MutexNext]_mvars PROVE [Next]_vars \/ \E a \in Words : Unlock(a)
<1>1. 0 \in GuestVals /\ 1 \in GuestVals /\ 2 \in GuestVals /\ GuestVals \subseteq Vals
  BY MutexAssumption DEF Vals
<1>2. ASSUME NEW a \in Words, Lock(a) \/ Contend(a) \/ LockWait(a) PROVE Guest
  BY Zenon, <1>1, <1>2 DEF Lock, Contend, LockWait, Guest
<1>3. ASSUME Other PROVE Host \/ Guest
  BY Zenon, <1>3 DEF Other, Guest
<1>4. QED BY Zenon, <1>2, <1>3 DEF MutexNext, Locking, Call, Next, mvars

\* An unlock keeps what the dispatcher relies on.
LEMMA UnlockStep ==
  ASSUME IndInv, ParkedInv, NEW a \in Words, Unlock(a)
  PROVE  IndInv' /\ ParkedInv' /\ KeptInv'
<1>1. pc = "slice" /\ steps > 0 /\ UNCHANGED <<loop, host>> /\ steps' = steps - 1
  BY Zenon DEF Unlock, Slice, Continue
<1>2. waiter' \in [Tasks -> Waiters]
  BY Zenon, WakeType DEF Unlock, IndInv, TypeOK
<1>3. SliceTypes'
  BY Zenon, <1>2, ConstantsAssumption DEF Unlock, Continue, SliceTypes, IndInv, TypeOK, Results, Vals
<1>4. IndInv'
  BY Zenon, <1>1, <1>3, ContinueStep DEF Unlock
<1>5. \A t \in Tasks : waiter'[t] # NoWaiter => waiter[t] # NoWaiter
  BY Zenon, WakeKeeps DEF Unlock
<1>6. ParkedInv'
  BY Zenon, <1>5, ParkedKeep DEF Unlock
<1>7. KeptInv'
  BY Zenon, <1>1 DEF KeptInv, loop
<1>8. QED BY Zenon, <1>4, <1>6, <1>7

-----------------------------------------------------------------------------
(* Owners *)

\* A step that leaves the mutexes to their owners keeps OwnerInv.
LEMMA OwnersKept ==
  ASSUME OwnerInv, inside' = inside,
         \A t \in Tasks : status'[t] \in {"N", "Z"} => status[t] \in {"N", "Z"},
         \A t \in Tasks : status[t] = "X" => status'[t] = "X",
         \A a \in Words : \A t \in inside[a] \cap Live :
           waiter[t] = NoWaiter => waiter'[t] = NoWaiter,
         \A a \in Words : inside[a] \cap Live # {} /\ mem[a] \in {1, 2} => mem'[a] \in {1, 2}
  PROVE  OwnerInv'
<1>1. \A a \in Words : inside[a] \subseteq Tasks
  BY Zenon DEF OwnerInv
<1>2. \A a \in Words : \A t \in inside[a] : status'[t] \notin {"N", "Z"}
  BY Zenon, <1>1 DEF OwnerInv
<1>3. \A a \in Words : \A t \in inside[a] : t \in Live' => t \in Live
  BY Zenon, <1>1 DEF OwnerInv, Live
<1>4. \A a \in Words : \A t \in inside[a] \cap Live' : waiter'[t] = NoWaiter /\ mem'[a] \in {1, 2}
  BY Zenon, <1>3 DEF OwnerInv
<1>5. QED BY <1>2, <1>3, <1>4 DEF OwnerInv

\* What the states of the tasks can become, in every step of the dispatcher.
LEMMA StatesAdvance ==
  ASSUME IndInv, [Next]_vars, NEW t \in Tasks
  PROVE  /\ status'[t] \in {"N", "Z"} => status[t] \in {"N", "Z"}
         /\ status[t] = "X" => status'[t] = "X"
<1>1. WaitersKept
  BY Zenon, KeepsWaiters
<1>2. ASSUME NEW m \in Mains, RunMainForResult(m)
      PROVE  status'[t] \in {"N", "Z"} => status[t] \in {"N", "Z"}
  BY Zenon, <1>2 DEF RunMainForResult, IndInv, TypeOK, Tasks
<1>3. CASE StepFacts
  BY Zenon, <1>1, <1>3 DEF WaitersKept, StepFacts
<1>4. QED BY Zenon, <1>1, <1>2, <1>3, StepChanges DEF Next, WaitersKept

\* When the deadlock release fires, no mutex has a live owner: the owner would
\* have run.
LEMMA NoLiveOwner ==
  ASSUME MutexInv, pc = "scan", scheduled = <<>>, ~ran, NEW a \in Words
  PROVE  inside[a] \cap Live = {}
<1> USE DEF MutexInv
<1> SUFFICES ASSUME NEW t \in inside[a] \cap Live PROVE FALSE
  BY Zenon
<1>1. waiter[t] = NoWaiter /\ status[t] # "Z"
  BY Zenon DEF OwnerInv
<1>2. t \in ToSet(kept) \cup ToSet(threadTask)
  BY Zenon, EmptyList DEF IndInv, Conserved
<1>3. t \notin ToSet(threadTask)
  BY Zenon, <1>1 DEF NewInv
<1>4. t \notin ToSet(kept)
  BY <1>1 DEF KeptInv, Quiet, NoWaiter, IsFutex, IsOneShot
<1>5. QED BY Zenon, <1>2, <1>3, <1>4

\* Every step of the dispatcher keeps OwnerInv, provided that it parks no owner
\* and unlocks no mutex that has a live one.
LEMMA OwnersKeptByStep ==
  ASSUME MutexInv, [Next]_vars, inside' = inside,
         \A a \in Words : \A t \in inside[a] \cap Live :
           waiter[t] = NoWaiter => waiter'[t] = NoWaiter,
         \A a \in Words : inside[a] \cap Live # {} /\ mem[a] \in {1, 2} => mem'[a] \in {1, 2}
  PROVE  OwnerInv'
<1>1. /\ \A t \in Tasks : status'[t] \in {"N", "Z"} => status[t] \in {"N", "Z"}
      /\ \A t \in Tasks : status[t] = "X" => status'[t] = "X"
  BY Zenon, StatesAdvance DEF MutexInv
<1>2. QED BY Zenon, <1>1, OwnersKept DEF MutexInv

\* Taking and leaving a mutex.
LEMMA LockStep ==
  ASSUME MutexInv, NEW a \in Words, Lock(a) PROVE OwnerInv'
<1> USE DEF MutexInv
<1>1. /\ pc = "slice" /\ mem[a] = 0 /\ UNCHANGED <<waiter, status>>
      /\ inside' = [inside EXCEPT ![a] = @ \cup {runningTask}]
      /\ \E v \in {1, 2} : mem' = [mem EXCEPT ![a] = v]
  BY Zenon DEF Lock, Store, Slice, tasks
<1>2. runningTask \in Tasks /\ status[runningTask] = "R"
  BY Zenon, <1>1 DEF IndInv, LoopInv
<1>3. waiter[runningTask] = NoWaiter
  BY Zenon, <1>2 DEF ParkedInv
<1>4. inside[a] \cap Live = {}
  BY <1>1 DEF OwnerInv
<1>5. Live' = Live
  BY Zenon, <1>1 DEF Live
<1>6. /\ mem'[a] \in {1, 2} /\ \A b \in Words : b # a => mem'[b] = mem[b]
  BY Zenon, <1>1 DEF IndInv, TypeOK
<1>7. /\ inside' \in [Words -> SUBSET Tasks]
      /\ inside'[a] = inside[a] \cup {runningTask}
      /\ \A b \in Words : b # a => inside'[b] = inside[b]
  BY Zenon, <1>1, <1>2 DEF OwnerInv
<1>8. \A b \in Words : \A t \in inside'[b] : status'[t] \notin {"N", "Z"}
  BY Zenon, <1>1, <1>2, <1>7 DEF OwnerInv
<1>9. \A b \in Words : \A t \in inside'[b] \cap Live' : waiter'[t] = NoWaiter /\ mem'[b] \in {1, 2}
  BY SMTT(30), <1>1, <1>3, <1>4, <1>5, <1>6, <1>7 DEF OwnerInv
<1>10. \A b \in Words : \A t, u \in inside'[b] \cap Live' : t = u
  BY <1>4, <1>5, <1>7 DEF OwnerInv
<1>11. QED BY Zenon, <1>7, <1>8, <1>9, <1>10 DEF OwnerInv

\* The owner gives the mutex up and the word with it; a waiter that is woken does
\* not own it yet.
LEMMA UnlockOwners ==
  ASSUME MutexInv, NEW a \in Words, Unlock(a) PROVE OwnerInv'
<1> USE DEF MutexInv
<1>1. /\ pc = "slice" /\ runningTask \in inside[a] /\ status' = status
      /\ inside' = [inside EXCEPT ![a] = @ \ {runningTask}]
      /\ mem' = [mem EXCEPT ![a] = 0]
      /\ waiter' = waiter \/ waiter' = WakeFutex(a, 1)
  BY Zenon DEF Unlock, Slice
<1>2. runningTask \in Live /\ Live' = Live
  BY Zenon, <1>1 DEF IndInv, LoopInv, Live
<1>3. /\ inside' \in [Words -> SUBSET Tasks]
      /\ inside'[a] = inside[a] \ {runningTask}
      /\ \A b \in Words : b # a => inside'[b] = inside[b]
  BY Zenon, <1>1 DEF OwnerInv
<1>4. inside'[a] \cap Live' = {}
  BY <1>1, <1>2, <1>3 DEF OwnerInv
<1>5. \A t \in Tasks : waiter[t] = NoWaiter => waiter'[t] = NoWaiter
  BY <1>1, WakeFutexOnly DEF NoWaiter, IsFutex
<1>6. \A b \in Words : b # a => mem'[b] = mem[b]
  BY Zenon, <1>1 DEF IndInv, TypeOK
<1>7. \A b \in Words : \A t \in inside'[b] : status'[t] \notin {"N", "Z"}
  BY Zenon, <1>1, <1>3 DEF OwnerInv
<1>8. \A b \in Words : \A t \in inside'[b] \cap Live' : waiter'[t] = NoWaiter /\ mem'[b] \in {1, 2}
  BY SMTT(30), <1>2, <1>3, <1>4, <1>5, <1>6 DEF OwnerInv, Live
<1>9. \A b \in Words : \A t, u \in inside'[b] \cap Live' : t = u
  BY <1>2, <1>3, <1>4 DEF OwnerInv
<1>10. QED BY Zenon, <1>3, <1>7, <1>8, <1>9 DEF OwnerInv

\* The running task parks or yields, holding no mutex when it parks.
LEMMA SuspendOwners ==
  ASSUME MutexInv, [Next]_vars, inside' = inside, pc = "slice", NEW w, Suspend(w),
         w = NoWaiter \/ \A a \in Words : runningTask \notin inside[a]
  PROVE  OwnerInv'
<1>1. runningTask \in Tasks /\ \A t \in Tasks : t # runningTask => waiter'[t] = waiter[t]
  BY Zenon DEF Suspend, MutexInv, IndInv, LoopInv, TypeOK
<1>2. waiter'[runningTask] = w /\ mem' = mem
  BY Zenon, <1>1 DEF Suspend, MutexInv, IndInv, TypeOK
<1>3. \A a \in Words : inside[a] \subseteq Tasks
  BY Zenon DEF MutexInv, OwnerInv
<1>4. QED BY Zenon, <1>1, <1>2, <1>3, OwnersKeptByStep

\* Every step of the dispatcher loop.
LEMMA HostOwners ==
  ASSUME MutexInv, Host, inside' = inside PROVE OwnerInv'
<1> USE DEF MutexInv
<1>0. [Next]_vars /\ \A a \in Words : inside[a] \subseteq Tasks
  BY Zenon DEF Next, OwnerInv
<1>1. ASSUME \A t \in Tasks : waiter[t] = NoWaiter => waiter'[t] = NoWaiter,
             mem' = mem
      PROVE  OwnerInv'
  BY Zenon, <1>0, <1>1, OwnersKeptByStep
<1>2. Refused(NoWaiter) = NoWaiter
  BY Zenon DEF Refused, NoWaiter, IsOneShot
<1>3. CASE KeepTask
  BY Zenon, <1>1, <1>2, <1>3 DEF KeepTask, IndInv, TypeOK
<1>4. CASE DispatchTask
  BY Zenon, <1>1, <1>4 DEF DispatchTask, IndInv, TypeOK
<1>5. CASE EndPassRelease
  <2>1. \A a \in Words : inside[a] \cap Live = {}
    BY Zenon, <1>5, NoLiveOwner DEF EndPassRelease, EndOfPass
  <2>2. QED BY Zenon, <1>0, <2>1, OwnersKeptByStep
<1>6. CASE AliveCheck
  BY Zenon, <1>1, <1>2, <1>6 DEF AliveCheck
<1>7. CASE BeginPass \/ EndPassMain \/ EndPassStuck \/ EndPassMerge
  <2>1. UNCHANGED <<waiter, mem>>
    BY Zenon, <1>7 DEF BeginPass, EndPassMain, EndPassStuck, EndPassMerge, tasks
  <2>2. QED BY Zenon, <1>1, <2>1
<1>8. QED BY Zenon, <1>3, <1>4, <1>5, <1>6, <1>7 DEF Host

\* Every step of the guest and of the host.
LEMMA OwnerStep ==
  ASSUME ParkInside = FALSE, MutexInv, [MutexNext]_mvars PROVE OwnerInv'
<1> USE DEF MutexInv
<1>0. ASSUME NEW a \in Words, Unlock(a) PROVE OwnerInv'
  BY Zenon, <1>0, UnlockOwners
<1>1. SUFFICES ASSUME [Next]_vars PROVE OwnerInv'
  BY Zenon, <1>0, MutexIsStep
<1>2. ASSUME inside' = inside, UNCHANGED <<waiter, mem>> PROVE OwnerInv'
  BY Zenon, <1>1, <1>2, OwnersKeptByStep
<1>3. ASSUME NEW a \in Words, Contend(a) PROVE OwnerInv'
  <2>1. mem' = [mem EXCEPT ![a] = 2] /\ inside' = inside /\ waiter' = waiter
    BY Zenon, <1>3 DEF Contend, Store, tasks
  <2>2. \A b \in Words : mem[b] \in {1, 2} => mem'[b] \in {1, 2}
    BY Zenon, <2>1 DEF IndInv, TypeOK
  <2>3. QED BY Zenon, <1>1, <2>1, <2>2, OwnersKeptByStep
<1>4. ASSUME NEW a \in Words, LockWait(a) PROVE OwnerInv'
  <2>1. inside' = inside /\ \A b \in Words : runningTask \notin inside[b]
    BY Zenon, <1>4 DEF LockWait, MayBlock
  <2>2. CASE FutexWaitAgain(a, 2)
    BY Zenon, <1>2, <2>1, <2>2 DEF FutexWaitAgain, tasks
  <2>3. CASE FutexWaitPark(a, 2)
    <3>1. pc = "slice" /\ \E w : Suspend(w)
      BY Zenon, <2>3 DEF FutexWaitPark, Slice
    <3>2. QED BY Zenon, <1>1, <2>1, <3>1, SuspendOwners
  <2>4. QED BY Zenon, <1>4, <2>2, <2>3 DEF LockWait
<1>5. ASSUME Other PROVE OwnerInv'
  <2>0. inside' = inside
    BY Zenon, <1>5 DEF Other
  <2>1. ASSUME NEW t \in Threads, Clone(t, NoAddr, NoAddr) PROVE OwnerInv'
    <3>1. \A a \in Words : mem'[a] = mem[a]
      BY Zenon, <2>1, ConstantsAssumption DEF Clone
    <3>2. waiter' = waiter
      BY Zenon, <2>1 DEF Clone
    <3>3. QED BY Zenon, <1>1, <2>0, <3>1, <3>2, OwnersKeptByStep
  <2>2. ASSUME MayBlock, NEW p \in Pipes, PipeRead(p) PROVE OwnerInv'
    <3>1. \A b \in Words : runningTask \notin inside[b]
      BY Zenon, <2>2 DEF MayBlock
    <3>2. pc = "slice" /\ ((\E w : Suspend(w)) \/ UNCHANGED <<waiter, mem>>)
      BY Zenon, <2>2 DEF PipeRead, Slice, tasks
    <3>3. QED BY SMTT(30), <1>1, <1>2, <2>0, <3>1, <3>2, SuspendOwners
  <2>3. CASE Yield
    <3>1. pc = "slice" /\ (Suspend(NoWaiter) \/ UNCHANGED <<waiter, mem>>)
      BY Zenon, <2>3 DEF Yield, Slice, tasks
    <3>2. QED BY Zenon, <1>1, <1>2, <2>0, <3>1, SuspendOwners
  <2>4. CASE ExitThread \/ ReturnOrFault
    <3>1. ClearTid(runningTask) = mem \/ runningTask \notin Threads
      BY Zenon DEF ClearTid, TidNull
    <3>2. UNCHANGED <<waiter, mem>>
      BY Zenon, <2>4, <3>1 DEF ExitThread, ReturnOrFault, TidNull
    <3>3. QED BY Zenon, <1>2, <2>0, <3>2
  <2>5. CASE TerminateHost \/ \E p \in Pipes : PipeWrite(p)
    BY Zenon, <1>2, <2>0, <2>5 DEF TerminateHost, PipeWrite, tasks
  <2>6. CASE Host
    BY Zenon, <2>0, <2>6, HostOwners
  <2>7. QED BY SMTT(30), <1>5, <2>1, <2>2, <2>3, <2>4, <2>5, <2>6 DEF Other
<1>6. CASE Call \/ UNCHANGED mvars
  BY Zenon, <1>2, <1>6 DEF Call, RunMainForResult, mvars, vars, tasks
<1>7. QED BY SMTT(30), <1>0, <1>3, <1>4, <1>5, <1>6, LockStep DEF MutexNext, Locking

-----------------------------------------------------------------------------
(* The other parts of the invariant *)

\* Threads wait in thread_task untouched until they are merged.
LEMMA NewStep ==
  ASSUME IndInv, NewInv, [Next]_vars PROVE NewInv'
<1> USE DEF IndInv
<1>0. Threads \subseteq Tasks /\ Mains \subseteq Tasks /\ ToSet(threadTask) \subseteq Tasks
  BY DEF Tasks, TypeOK, ToSet
<1>1. ASSUME UNCHANGED threadTask, \A t \in ToSet(threadTask) : status'[t] = status[t]
      PROVE  NewInv'
  BY Zenon, <1>1 DEF NewInv
<1>2. ASSUME NEW m \in Mains, RunMainForResult(m) PROVE NewInv'
  BY Zenon, <1>0, <1>1, <1>2 DEF RunMainForResult, TypeOK, NewInv
<1>3. CASE DispatchTask
  <2>1. Head(scheduled) \in ToSet(scheduled) /\ ToSet(scheduled) \cap ToSet(threadTask) = {}
    BY SMTT(30), <1>3, HeadAndTail DEF DispatchTask, TypeOK, Conserved
  <2>2. QED BY SMTT(30), <1>0, <1>1, <1>3, <2>1 DEF DispatchTask, TypeOK
<1>4. CASE EndPassMerge
  BY Zenon, <1>4, EmptyList DEF EndPassMerge, NewInv
<1>5. ASSUME NEW t \in Threads, Fork(t) \/ \E a, b : Clone(t, a, b) PROVE NewInv'
  <2>1. threadTask' = Append(threadTask, t) /\ status' = [status EXCEPT ![t] = "Z"]
    BY Zenon, <1>5 DEF Fork, Clone
  <2>2. ToSet(threadTask') = ToSet(threadTask) \cup {t}
    BY SMTT(30), <2>1, AppendList DEF TypeOK
  <2>3. QED BY Zenon, <1>0, <2>1, <2>2 DEF NewInv, TypeOK
<1>6. ASSUME NEW t \in Threads, CreateFails(t) PROVE NewInv'
  BY Zenon, <1>0, <1>1, <1>6 DEF CreateFails, NewInv, TypeOK
<1>7. ASSUME pc = "slice", NEW s, status' = [status EXCEPT ![runningTask] = s],
             UNCHANGED threadTask
      PROVE  NewInv'
  <2>1. runningTask \notin ToSet(threadTask)
    BY Zenon, <1>7 DEF Conserved
  <2>2. QED BY Zenon, <1>0, <1>1, <1>7, <2>1 DEF TypeOK
<1>8. ASSUME UNCHANGED <<threadTask, status>> PROVE NewInv'
  BY Zenon, <1>1, <1>8
<1>9. ASSUME Guest PROVE NewInv'
  BY Zenon, <1>5, <1>6, <1>7, <1>8, <1>9
     DEF Guest, Store, Unmap, FutexWaitAgain, FutexWaitPark, FutexWake, SetTidAddress, Wait4,
         PipeRead, PipeWrite, Ppoll, ExitThread, TerminateHost, ReturnOrFault, Yield, Suspend,
         Drop, Slice, tasks
<1>10. ASSUME Host PROVE NewInv'
  BY Zenon, <1>3, <1>4, <1>8, <1>10 DEF Host, BeginPass, KeepTask, EndPassMain, EndPassRelease,
         EndPassStuck, AliveCheck, tasks
<1>11. CASE Tick \/ UNCHANGED vars
  BY Zenon, <1>8, <1>11 DEF Tick, vars, tasks
<1>12. QED BY Zenon, <1>2, <1>9, <1>10, <1>11 DEF Next

\* Threads are created without a tid word and never ask for one.
LEMMA TidNullStep ==
  ASSUME TidNull, IndInv, [MutexNext]_mvars PROVE TidNull'
<1>1. ASSUME NEW t \in Threads, Clone(t, NoAddr, NoAddr) PROVE TidNull'
  BY Zenon, <1>1 DEF Clone, TidNull, IndInv, TypeOK
<1>2. ASSUME UNCHANGED tidPtr PROVE TidNull'
  BY Zenon, <1>2 DEF TidNull
<1>3. ASSUME Host PROVE UNCHANGED tidPtr
  BY Zenon, <1>3 DEF Host, BeginPass, KeepTask, DispatchTask, EndPassMain, EndPassRelease,
         EndPassStuck, EndPassMerge, AliveCheck, tasks
<1>4. ASSUME Locking PROVE UNCHANGED tidPtr
  BY Zenon, <1>4 DEF Locking, Lock, Contend, LockWait, Unlock, Store, FutexWaitPark,
         FutexWaitAgain, Suspend, tasks
<1>5. ASSUME Other PROVE TidNull'
  BY Zenon, <1>1, <1>2, <1>3, <1>5 DEF Other, PipeRead, PipeWrite, ExitThread, TerminateHost,
         ReturnOrFault, Yield, Suspend, Drop, tasks
<1>6. CASE Call \/ UNCHANGED mvars
  BY Zenon, <1>2, <1>6 DEF Call, RunMainForResult, mvars, vars, tasks
<1>7. QED BY Zenon, <1>2, <1>4, <1>5, <1>6 DEF MutexNext

\* MutexInv is inductive.
LEMMA MutexStep ==
  ASSUME ParkInside = FALSE, MutexInv, [MutexNext]_mvars PROVE MutexInv'
<1>1. OwnerInv' /\ TidNull'
  BY Zenon, OwnerStep, TidNullStep DEF MutexInv
<1>2. ASSUME [Next]_vars PROVE MutexInv'
  BY Zenon, <1>1, <1>2, IndInvStep, ParkedStep, KeptStep, NewStep DEF MutexInv
<1>3. ASSUME NEW a \in Words, Unlock(a) PROVE MutexInv'
  <2>1. NewInv'
    BY Zenon, <1>3 DEF Unlock, NewInv, MutexInv
  <2>2. QED BY Zenon, <1>1, <1>3, <2>1, UnlockStep DEF MutexInv
<1>4. QED BY Zenon, <1>2, <1>3, MutexIsStep

\* It holds before the first call.
LEMMA MutexInits ==
  ASSUME MutexInit PROVE MutexInv
<1>1. Init /\ inside = [a \in Words |-> {}]
  BY Zenon DEF MutexInit
<1>2. NewInv /\ TidNull /\ OwnerInv
  BY Zenon, <1>1, EmptyList DEF Init, NewInv, TidNull, OwnerInv
<1>3. KeptInv
  BY Zenon, <1>1 DEF Init, KeptInv
<1>4. QED BY Zenon, <1>1, <1>2, <1>3, IndInvInit, OrderInits DEF MutexInv

-----------------------------------------------------------------------------
(* The theorems *)

\* Two live tasks are never inside the same mutex, for every number of tasks
\* and mutexes, when no task blocks inside: the deadlock release takes a mutex
\* from nobody.
THEOREM MutexExcludes ==
  ASSUME ParkInside = FALSE PROVE MutexSpec => []MutualExclusion
<1>1. MutexInv => MutualExclusion
  BY Zenon DEF MutexInv, OwnerInv, MutualExclusion
<1>2. QED BY <1>1, MutexInits, MutexStep, PTL DEF MutexSpec

\* Under the same premise the comment on unlock_stale_futex is true: the
\* release unlocks only mutexes whose owner has ended.
THEOREM ReleaseUnlocksOrphans ==
  ASSUME ParkInside = FALSE PROVE MutexSpec => OnlyExitedOwnersUnlocked
<1>1. ASSUME MutexInv, [MutexNext]_mvars, NEW a \in Words, pc = "scan", mem'[a] # mem[a]
      PROVE  inside[a] \cap Live = {}
  <2>1. ~Guest /\ ~Unlock(a) /\ \A b \in Words : ~Unlock(b)
    BY Zenon, <1>1 DEF Guest, Store, Unmap, FutexWaitAgain, FutexWaitPark, FutexWake, Clone, Fork,
         CreateFails, SetTidAddress, Wait4, PipeRead, PipeWrite, Ppoll, ExitThread,
         TerminateHost, ReturnOrFault, Yield, Slice, Unlock
  <2>2. [Next]_vars
    BY Zenon, <1>1, <2>1, MutexIsStep
  <2>3. EndPassRelease
    BY Zenon, <1>1, <2>1, <2>2 DEF Next, Host, RunMainForResult, BeginPass, KeepTask,
         DispatchTask, EndPassMain, EndPassStuck, EndPassMerge, AliveCheck, Tick, vars
  <2>4. QED BY Zenon, <1>1, <2>3, NoLiveOwner DEF EndPassRelease, EndOfPass
<1>2. MutexInv /\ [MutexNext]_mvars =>
        [\A a \in Words : pc = "scan" /\ mem'[a] # mem[a] => inside[a] \cap Live = {}]_mvars
  BY Zenon, <1>1
<1>3. QED BY <1>2, MutexInits, MutexStep, PTL DEF MutexSpec, OnlyExitedOwnersUnlocked

=============================================================================
