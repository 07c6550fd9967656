------------------------------ MODULE Dispatcher ------------------------------
(***************************************************************************)
(* The cooperative thread dispatcher (UniThreadDispatcher) together with   *)
(* the system calls that park, wake, create and end its tasks.             *)
(*                                                                         *)
(* One host thread runs everything.  e_func pushes a main task and enters  *)
(* the loop of run(): a pass snapshots task_list and gives every task that *)
(* can be dispatched one slice of guest code.  A slice ends when the guest *)
(* parks (futex, pipe, poll, wait4), yields, exits, returns or faults.     *)
(* The guest program is arbitrary: in a slice it takes any of the steps    *)
(* named in Ops.                                                           *)
(***************************************************************************)
EXTENDS Integers, Sequences, FiniteSets

CONSTANTS
  Mains,      \* Function64 tasks, one for each call of e_func
  Threads,    \* MarshmallowThread tasks; the id is the tid
  Words,      \* 32-bit guest words used as futex or tid words
  GuestVals,  \* values the guest stores itself
  Pipes,      \* pipes the guest has opened
  Timeouts,   \* wait_millis values of timed futex waits
  MaxSteps,   \* bound: guest steps in one slice, after which it returns
  MaxUnread,  \* bound: unread chunks in a pipe
  Ops,        \* the kinds of step the guest program takes
  NoTask,     \* Option::None where a task is expected
  NoAddr,     \* the null tid pointer
  Unmapped    \* contents of a word that is not mapped

\* ToSet and Reverse mean what they do in SequencesExt, which is not extended: its
\* definitions, in the context of every obligation, slow the proof system down.
ToSet(s) == {s[i] : i \in DOMAIN s}
Reverse(s) == [i \in 1 .. Len(s) |-> s[(Len(s) - i) + 1]]

Tasks == Mains \cup Threads
Vals  == GuestVals \cup Threads

ASSUME ConstantsAssumption ==
  /\ Mains \cap Threads = {}
  /\ NoTask \notin Tasks
  /\ NoAddr \notin Words
  /\ 0 \in GuestVals
  /\ GuestVals \cap Threads = {}
  /\ Unmapped \notin Vals
  /\ Timeouts \subseteq Nat
  /\ MaxSteps \in Nat \ {0}
  /\ MaxUnread \in Nat \ {0}

VARIABLES
  taskList,     \* task_list
  threadTask,   \* thread_task: created, not yet merged into task_list
  scheduled,    \* the tasks of the current pass that are still to be visited
  kept,         \* the tasks of the current pass that stay in the list
  ran,          \* run_task_count > 0
  mainRet,      \* the main task that finished in this pass
  runningTask,  \* running_task
  pc,           \* where the host thread is
  call,         \* the main task of the pending (or last) e_func
  answer,       \* whose result that e_func returns
  inThread,     \* run() was entered by run_thread, not by run_main_for_result
  waiter,       \* waiter of each task
  status,       \* TaskStatus; "N": the task does not exist yet
  saved,        \* is_context_saved
  finished,     \* threads whose exit set BaseThreadTask.finished
  tidPtr,       \* tid_ptr of each thread
  fork,         \* fork_state of each thread
  mem,          \* guest words
  unread,       \* unread chunks of each pipe
  x0,           \* what the last call returned to the running slice
  steps         \* guest steps left in the slice

loop  == <<taskList, scheduled, kept, ran, mainRet, runningTask, pc>>
host  == <<call, answer, inThread>>
tasks == <<waiter, status, saved, finished, tidPtr, fork>>
vars  == <<loop, threadTask, host, tasks, mem, unread, x0, steps>>

-----------------------------------------------------------------------------
(* Waiters *)

NoWaiter      == [kind |-> "none"]
FutexWaiters  == [kind : {"futex", "timed"}, addr : Words, val : Vals,
                  woken : BOOLEAN, left : Nat]
PipeWaiters   == [kind : {"pipe", "poll"}, pipes : SUBSET Pipes, yielded : BOOLEAN]
ChildWaiters  == [kind : {"child"}, child : Threads]
Waiters       == {NoWaiter} \cup FutexWaiters \cup PipeWaiters \cup ChildWaiters

IsFutex(w)   == w.kind \in {"futex", "timed"}
IsOneShot(w) == w.kind \in {"pipe", "poll"}

\* pipe_unread of some watched pipe is positive
HasData(w) == \E p \in w.pipes : unread[p] > 0

(***************************************************************************)
(* can_dispatch.  A futex word that cannot be read counts as changed.  A   *)
(* timed waiter compares whole seconds with wait_millis, so "left" counts  *)
(* second boundaries.                                                      *)
(***************************************************************************)
CanDispatch(t) ==
  LET w == waiter[t] IN
  \/ w.kind = "none"
  \/ IsFutex(w) /\ (w.woken \/ mem[w.addr] # w.val)
  \/ w.kind = "timed" /\ w.left = 0
  \/ IsOneShot(w) /\ (w.yielded \/ HasData(w))
  \/ w.kind = "child" /\ fork[w.child] # "alive"

\* The side effect of can_dispatch on a waiter it refuses: pipe and poll
\* waiters note that they have yielded once and accept the next time.
Refused(w) == IF IsOneShot(w) THEN [w EXCEPT !.yielded = TRUE] ELSE w

\* Mutant: a resumed futex wait hands the awaited value back.
ResumeRaw(w) == IF IsFutex(w) THEN w.val ELSE "none"

\* What on_continue_run leaves in X0.
ResumeValue(w) ==
  CASE IsFutex(w) /\ w.woken             -> "zero"
    [] w.kind = "futex" /\ ~w.woken      -> "EAGAIN"
    [] w.kind = "timed" /\ ~w.woken      -> "ETIMEDOUT"
    [] IsOneShot(w) /\ HasData(w)        -> "data"
    [] IsOneShot(w) /\ ~HasData(w)       -> "zero"
    [] w.kind = "child"                  -> "exited"
    [] OTHER                             -> "none"

Results == {"none", "zero", "count", "EAGAIN", "ETIMEDOUT", "data", "exited", "stopped", "tid"}

\* A read takes some of what is there, at least one chunk if there is any.
Consume(p) ==
  {[unread EXCEPT ![p] = n] : n \in IF unread[p] = 0 THEN {0} ELSE 0..(unread[p] - 1)}

\* A resumed pipe read consumes; every other waiter leaves the pipes alone.
ResumeUnread(w) ==
  IF w.kind = "pipe" THEN UNION {Consume(p) : p \in w.pipes} ELSE {unread}

\* is_finish: a main by its status, a thread by its finished flag
IsFinish(t) == IF t \in Mains THEN status[t] = "X" ELSE t \in finished

\* snapshot_all_tasks and task_counts read the live lists: during a pass
\* task_list still holds the tasks the pass has already dropped.
AllTasks   == taskList \o threadTask
TaskCounts == Len(taskList) + Len(threadTask)

-----------------------------------------------------------------------------
Init ==
  /\ taskList = <<>> /\ threadTask = <<>> /\ scheduled = <<>> /\ kept = <<>>
  /\ ran = FALSE /\ mainRet = NoTask /\ runningTask = NoTask
  /\ pc = "idle" /\ call = NoTask /\ answer = NoTask /\ inThread = FALSE
  /\ waiter = [t \in Tasks |-> NoWaiter]
  /\ status = [t \in Tasks |-> "N"]
  /\ saved = [t \in Tasks |-> FALSE]
  /\ finished = {}
  /\ tidPtr = [t \in Threads |-> NoAddr]
  /\ fork = [t \in Threads |-> "none"]
  /\ mem = [a \in Words |-> 0]
  /\ unread = [p \in Pipes |-> 0]
  /\ x0 = "none" /\ steps = 0

-----------------------------------------------------------------------------
(* The host loop *)

\* e_func / e_entry: a new main task goes to the front of task_list.
RunMainForResult(m) ==
  /\ pc = "idle" /\ status[m] = "N"
  /\ taskList' = <<m>> \o taskList
  /\ status' = [status EXCEPT ![m] = "Z"]
  /\ call' = m /\ answer' = NoTask /\ inThread' = FALSE
  /\ pc' = "pass"
  /\ UNCHANGED <<threadTask, scheduled, kept, ran, mainRet, runningTask, waiter,
                 saved, finished, tidPtr, fork, mem, unread, x0, steps>>

\* The top of the loop in run(): snapshot the list.
BeginPass ==
  /\ pc = "pass"
  /\ scheduled' = taskList
  /\ pc' = "scan"
  /\ UNCHANGED <<taskList, kept, ran, mainRet, runningTask, threadTask, host, tasks, mem,
                 unread, x0, steps>>

\* A task that is finished or cannot be dispatched stays in the list.
KeepTask ==
  /\ pc = "scan" /\ scheduled # <<>>
  /\ LET t == Head(scheduled) IN
       /\ IsFinish(t) \/ ~CanDispatch(t)
       /\ kept' = Append(kept, t)
       /\ waiter' = IF IsFinish(t) THEN waiter
                    ELSE [waiter EXCEPT ![t] = Refused(@)]
  /\ scheduled' = Tail(scheduled)
  /\ UNCHANGED <<taskList, ran, mainRet, runningTask, pc, threadTask, host, status,
                 saved, finished, tidPtr, fork, mem, unread, x0, steps>>

\* dispatch and continue_run: the waiter delivers its result and is cleared,
\* then emulate() starts the slice.
DispatchTask ==
  /\ pc = "scan" /\ scheduled # <<>>
  /\ LET t == Head(scheduled) IN
       /\ ~IsFinish(t) /\ CanDispatch(t)
       /\ runningTask' = t
       /\ x0' = ResumeValue(waiter[t])
       /\ unread' \in ResumeUnread(waiter[t])
       /\ waiter' = [waiter EXCEPT ![t] = NoWaiter]
       /\ status' = [status EXCEPT ![t] = "R"]
  /\ ran' = TRUE
  /\ scheduled' = Tail(scheduled)
  /\ steps' = MaxSteps
  /\ pc' = "slice"
  /\ UNCHANGED <<taskList, kept, mainRet, threadTask, host, saved, finished, tidPtr,
                 fork, mem>>

\* retain() of run_main_for_result: finished tasks leave the list.
Retain(s) ==
  IF \A i \in DOMAIN s : ~IsFinish(s[i]) THEN s
  ELSE SelectSeq(s, LAMBDA t : ~IsFinish(t))

\* Leaving run() with a result.  run_thread discards it.
LeaveRun(list, ret) ==
  /\ taskList' = IF inThread THEN list ELSE Retain(list)
  /\ answer' = IF inThread THEN answer ELSE ret
  /\ pc' = "alive"

\* Every task of the snapshot has been visited; the locals of the pass die.
EndOfPass ==
  /\ pc = "scan" /\ scheduled = <<>>
  /\ kept' = <<>> /\ ran' = FALSE /\ mainRet' = NoTask /\ UNCHANGED scheduled

\* A main task finished: run() returns at once and thread_task is not merged.
EndPassMain ==
  /\ EndOfPass /\ mainRet # NoTask
  /\ LeaveRun(kept, mainRet)
  /\ runningTask' = NoTask
  /\ UNCHANGED <<threadTask, call, inThread, tasks, mem, unread, x0, steps>>

\* release_deadlocked_waiters over AllTasks, where task_list is kept by now.
Deadlocked == {t \in ToSet(kept \o threadTask) : IsFutex(waiter[t])}

\* unlock_stale_futex: the word goes to 0 if it still holds the awaited value.
UnlockStale(S) ==
  [a \in Words |-> IF \E t \in S : waiter[t].addr = a /\ waiter[t].val = mem[a]
                   THEN 0 ELSE mem[a]]

\* Mutant: the release does not look at run_task_count.
EndPassReleaseEager ==
  /\ EndOfPass /\ mainRet = NoTask /\ Deadlocked # {}
  /\ waiter' = [t \in Tasks |-> IF t \in Deadlocked
                                THEN [waiter[t] EXCEPT !.woken = TRUE] ELSE waiter[t]]
  /\ mem' = UnlockStale(Deadlocked)
  /\ taskList' = kept
  /\ pc' = "pass"
  /\ UNCHANGED <<runningTask, threadTask, host, status, saved, finished, tidPtr, fork,
                 unread, x0, steps>>

\* Mutant: the release unlocks the words but wakes nobody.
EndPassReleaseNoWake ==
  /\ EndOfPass /\ mainRet = NoTask /\ ~ran /\ Deadlocked # {}
  /\ mem' = UnlockStale(Deadlocked)
  /\ taskList' = kept
  /\ pc' = "pass"
  /\ UNCHANGED <<runningTask, threadTask, host, tasks, unread, x0, steps>>

\* Nothing ran and some task waits on a futex: release all of them and loop.
EndPassRelease ==
  /\ EndOfPass /\ mainRet = NoTask /\ ~ran /\ Deadlocked # {}
  /\ waiter' = [t \in Tasks |-> IF t \in Deadlocked
                                THEN [waiter[t] EXCEPT !.woken = TRUE] ELSE waiter[t]]
  /\ mem' = UnlockStale(Deadlocked)
  /\ taskList' = kept
  /\ pc' = "pass"
  /\ UNCHANGED <<runningTask, threadTask, host, status, saved, finished, tidPtr, fork,
                 unread, x0, steps>>

\* Nothing ran and nothing can be released: run() gives up with Ok(None).
EndPassStuck ==
  /\ EndOfPass /\ mainRet = NoTask /\ ~ran /\ Deadlocked = {}
  /\ LeaveRun(kept, NoTask)
  /\ UNCHANGED <<runningTask, threadTask, call, inThread, tasks, mem, unread, x0, steps>>

\* Mutant: new threads go to the back of the list.
EndPassMergeAtBack ==
  /\ EndOfPass /\ mainRet = NoTask /\ ran
  /\ LET merged == kept \o threadTask IN
       IF merged = <<>>
       THEN LeaveRun(merged, NoTask) /\ runningTask' = NoTask
       ELSE taskList' = merged /\ pc' = "pass" /\ UNCHANGED <<answer, runningTask>>
  /\ threadTask' = <<>>
  /\ UNCHANGED <<call, inThread, tasks, mem, unread, x0, steps>>

\* Mutant: new threads are not merged until the list is empty.
EndPassMergeLate ==
  /\ EndOfPass /\ mainRet = NoTask /\ ran
  /\ IF kept # <<>> THEN taskList' = kept /\ UNCHANGED threadTask
                    ELSE taskList' = threadTask /\ threadTask' = <<>>
  /\ IF taskList' = <<>> THEN pc' = "alive" /\ answer' = NoTask
                         ELSE pc' = "pass" /\ UNCHANGED answer
  /\ UNCHANGED <<runningTask, call, inThread, tasks, mem, unread, x0, steps>>

\* Something ran: new threads go to the front one by one; an empty list ends run().
EndPassMerge ==
  /\ EndOfPass /\ mainRet = NoTask /\ ran
  /\ LET merged == Reverse(threadTask) \o kept IN
       IF merged = <<>>
       THEN LeaveRun(merged, NoTask) /\ runningTask' = NoTask
       ELSE taskList' = merged /\ pc' = "pass" /\ UNCHANGED <<answer, runningTask>>
  /\ threadTask' = <<>>
  /\ UNCHANGED <<call, inThread, tasks, mem, unread, x0, steps>>

\* Mutant: alive_task_counts looks at threads only.
AliveThreadsOnly ==
  {t \in ToSet(taskList) \cap Threads : /\ ~IsFinish(t) /\ CanDispatch(t)
                                       /\ status[t] = "S" /\ waiter[t] # NoWaiter}

\* Mutant: alive_task_counts looks at main tasks only.
AliveMainsOnly ==
  {t \in ToSet(taskList) \cap Mains : /\ ~IsFinish(t) /\ CanDispatch(t)
                                     /\ status[t] = "S" /\ waiter[t] # NoWaiter}

\* Mutant: alive_task_counts does not ask can_dispatch.
AliveUnasked == {t \in ToSet(taskList) : ~IsFinish(t) /\ waiter[t] # NoWaiter}

\* alive_task_counts: parked tasks of task_list whose waiter now accepts.
AliveTasks ==
  {t \in ToSet(taskList) : /\ ~IsFinish(t) /\ CanDispatch(t)
                           /\ status[t] = "S" /\ waiter[t] # NoWaiter}

\* The loop of AndroidEmulator::run_main_for_result after the main call.
AliveCheck ==
  /\ pc = "alive"
  /\ waiter' = [t \in Tasks |-> IF t \in ToSet(taskList) /\ ~IsFinish(t) /\ ~CanDispatch(t)
                                THEN Refused(waiter[t]) ELSE waiter[t]]
  /\ IF AliveTasks # {} THEN pc' = "pass" /\ inThread' = TRUE
                        ELSE pc' = "idle" /\ UNCHANGED inThread
  /\ UNCHANGED <<taskList, scheduled, kept, ran, mainRet, runningTask, threadTask, call,
                 answer, status, saved, finished, tidPtr, fork, mem, unread, x0, steps>>

-----------------------------------------------------------------------------
(* The guest's slice *)

Slice(op) == pc = "slice" /\ steps > 0 /\ op \in Ops

\* A call that returns to the guest: the slice goes on.
Continue(r) ==
  /\ x0' = r /\ steps' = steps - 1
  /\ UNCHANGED <<loop, host>>

\* emu_stop(S) and, back in run(), save_context: the task is kept.
Suspend(w) ==
  /\ waiter' = [waiter EXCEPT ![runningTask] = w]
  /\ status' = [status EXCEPT ![runningTask] = "S"]
  /\ saved' = [saved EXCEPT ![runningTask] = TRUE]
  /\ kept' = Append(kept, runningTask)
  /\ pc' = "scan" /\ x0' = "none" /\ steps' = 0
  /\ UNCHANGED <<taskList, scheduled, ran, mainRet, runningTask, threadTask, host,
                 finished, tidPtr, fork, mem, unread>>

\* Mutant: the tasks behind a finished main task are not kept.
DropForgetsRest ==
  /\ status' = [status EXCEPT ![runningTask] = "X"]
  /\ IF runningTask \in Mains
     THEN mainRet' = runningTask /\ scheduled' = <<>> /\ UNCHANGED kept
     ELSE UNCHANGED <<mainRet, kept, scheduled>>
  /\ pc' = "scan" /\ x0' = "none" /\ steps' = 0
  /\ UNCHANGED <<taskList, ran, runningTask, threadTask, host, saved, tidPtr, unread>>

\* Mutant: a thread that has ended stays in the list.
DropStaysListed ==
  /\ status' = [status EXCEPT ![runningTask] = "X"]
  /\ IF runningTask \in Mains
     THEN mainRet' = runningTask /\ kept' = kept \o scheduled /\ scheduled' = <<>>
     ELSE kept' = Append(kept, runningTask) /\ UNCHANGED <<mainRet, scheduled>>
  /\ pc' = "scan" /\ x0' = "none" /\ steps' = 0
  /\ UNCHANGED <<taskList, ran, runningTask, threadTask, host, saved, tidPtr, unread>>

\* emu_stop(X), a return or a fault: run() drops the task; a main task also
\* ends the pass, every task behind it is kept without being run.
Drop ==
  /\ status' = [status EXCEPT ![runningTask] = "X"]
  /\ IF runningTask \in Mains
     THEN mainRet' = runningTask /\ kept' = kept \o scheduled /\ scheduled' = <<>>
     ELSE UNCHANGED <<mainRet, kept, scheduled>>
  /\ pc' = "scan" /\ x0' = "none" /\ steps' = 0
  /\ UNCHANGED <<taskList, ran, runningTask, threadTask, host, saved, tidPtr, unread>>

\* A guest instruction stores into a word.
Store(a, v) ==
  /\ Slice("store") /\ mem[a] # Unmapped
  /\ mem' = [mem EXCEPT ![a] = v]
  /\ Continue(x0)
  /\ UNCHANGED <<threadTask, tasks, unread>>

\* munmap of the page that holds a word.
Unmap(a) ==
  /\ Slice("munmap")
  /\ mem' = [mem EXCEPT ![a] = Unmapped]
  /\ Continue("zero")
  /\ UNCHANGED <<threadTask, tasks, unread>>

\* FUTEX_WAIT that does not park: the word differs, is unmapped, or the
\* dispatcher counts no other task.
FutexWaitAgain(a, v) ==
  /\ Slice("futex")
  /\ mem[a] # v \/ TaskCounts <= 1
  /\ Continue("EAGAIN")
  /\ UNCHANGED <<threadTask, tasks, mem, unread>>

\* FUTEX_WAIT that parks, with or without a timeout.
FutexWaitPark(a, v) ==
  /\ Slice("futex")
  /\ mem[a] = v /\ TaskCounts > 1
  /\ \/ Suspend([kind |-> "futex", addr |-> a, val |-> v, woken |-> FALSE, left |-> 0])
     \/ \E ms \in Timeouts :
          Suspend([kind |-> "timed", addr |-> a, val |-> v, woken |-> FALSE, left |-> ms])

\* wake_futex: the first max tasks of the snapshot that wait on the word, one
\* that has been woken already counting again.
WakeFutex(a, max) ==
  LET waits(i) == IsFutex(waiter[AllTasks[i]]) /\ waiter[AllTasks[i]].addr = a
      hit == {AllTasks[i] : i \in {j \in 1..Len(AllTasks) :
                /\ waits(j)
                /\ Cardinality({k \in 1..(j - 1) : waits(k)}) < max}}
  IN  [t \in Tasks |-> IF t \in hit THEN [waiter[t] EXCEPT !.woken = TRUE] ELSE waiter[t]]

FutexWake(a, max) ==
  /\ Slice("futex")
  /\ waiter' = WakeFutex(a, max)
  /\ Continue("count")
  /\ UNCHANGED <<threadTask, status, saved, finished, tidPtr, fork, mem, unread>>

\* bionic_clone and pthread_clone: the new thread waits in thread_task; its tid
\* is stored at child_tid and parent_tid, where they are given and mapped.
Clone(t, child, parent) ==
  /\ Slice("clone") /\ status[t] = "N"
  /\ threadTask' = Append(threadTask, t)
  /\ status' = [status EXCEPT ![t] = "Z"]
  /\ tidPtr' = [tidPtr EXCEPT ![t] = child]
  /\ mem' = [a \in Words |-> IF a \in {child, parent} /\ mem[a] # Unmapped
                             THEN t ELSE mem[a]]
  /\ Continue("tid")
  /\ UNCHANGED <<waiter, saved, finished, fork, unread>>

\* fork: the child is a task with a planted register snapshot.
Fork(t) ==
  /\ Slice("fork") /\ status[t] = "N"
  /\ threadTask' = Append(threadTask, t)
  /\ status' = [status EXCEPT ![t] = "Z"]
  /\ saved' = [saved EXCEPT ![t] = TRUE]
  /\ fork' = [fork EXCEPT ![t] = "alive"]
  /\ Continue("tid")
  /\ UNCHANGED <<waiter, finished, tidPtr, mem, unread>>

\* A tid is taken but no task comes of it: bionic_clone refuses a null
\* parent_tid (EINVAL), fork cannot allocate the copied stack.
CreateFails(t) ==
  /\ Slice("fork") /\ status[t] = "N"
  /\ status' = [status EXCEPT ![t] = "X"]
  /\ Continue("tid")
  /\ UNCHANGED <<threadTask, waiter, saved, finished, tidPtr, fork, mem, unread>>

\* set_tid_address changes the pointer of a thread, never that of a main task.
SetTidAddress(a) ==
  /\ Slice("settid") /\ runningTask \in Threads
  /\ tidPtr' = [tidPtr EXCEPT ![runningTask] = a]
  /\ Continue("tid")
  /\ UNCHANGED <<threadTask, waiter, status, saved, finished, fork, mem, unread>>

\* Mutant: the tid word of an exiting thread is left alone.
ClearTidForgotten(t) == mem

\* set_exit_status writes 0 to the tid word.
ClearTid(t) ==
  IF tidPtr[t] = NoAddr \/ mem[tidPtr[t]] = Unmapped THEN mem
  ELSE [mem EXCEPT ![tidPtr[t]] = 0]

\* mark_fork_exit: only tasks that fork registered have an entry.
MarkForkExit(t) == [fork EXCEPT ![t] = IF @ = "alive" THEN "dead" ELSE @]

\* exit and exit_group of a thread: exit_group ends that thread only.
ExitThread ==
  LET t == runningTask IN
  /\ Slice("exit") /\ t \in Threads
  /\ tidPtr[t] # NoAddr => mem[tidPtr[t]] # Unmapped
  /\ fork' = MarkForkExit(t)
  /\ finished' = finished \cup {t}
  /\ mem' = ClearTid(t)
  /\ waiter' = IF tidPtr[t] = NoAddr THEN waiter ELSE WakeFutex(tidPtr[t], Len(AllTasks))
  /\ Drop

\* The host process ends: a main task calls exit or exit_group, or the write of
\* a tid to an unmapped word panics (the exit of a thread, bionic_clone).
TerminateHost ==
  /\ \/ Slice("exit") /\ runningTask \in Mains
     \/ /\ Slice("exit") /\ runningTask \in Threads /\ tidPtr[runningTask] # NoAddr
        /\ mem[tidPtr[runningTask]] = Unmapped
     \/ Slice("clone") /\ \E a \in Words : mem[a] = Unmapped
  /\ pc' = "exited"
  /\ UNCHANGED <<taskList, scheduled, kept, ran, mainRet, runningTask, threadTask, host,
                 tasks, mem, unread, x0, steps>>

\* The guest function returns or faults, at the latest when its steps are
\* used up.  A thread that
\* ends in its first slice has its tid word cleared, a resumed one has not.
ReturnOrFault ==
  /\ pc = "slice"
  /\ "return" \in Ops \/ steps = 0
  /\ mem' = IF runningTask \in Threads /\ ~saved[runningTask]
            THEN ClearTid(runningTask) ELSE mem
  /\ Drop
  /\ UNCHANGED <<waiter, finished, fork>>

\* nanosleep / usleep: yield_to_other_threads, a no-op for the only task.
Yield ==
  /\ Slice("yield")
  /\ \/ TaskCounts > 1 /\ Suspend(NoWaiter)
     \/ /\ TaskCounts <= 1 /\ Continue("zero")
        /\ UNCHANGED <<threadTask, tasks, mem, unread>>

\* read of a pipe: parks only when it is empty and there is another task.
PipeRead(p) ==
  /\ Slice("pipe")
  /\ \/ unread[p] = 0 /\ TaskCounts > 1
        /\ Suspend([kind |-> "pipe", pipes |-> {p}, yielded |-> FALSE])
     \/ /\ unread[p] > 0 \/ TaskCounts <= 1
        /\ unread' \in Consume(p)
        /\ Continue(IF unread[p] > 0 THEN "data" ELSE "zero")
        /\ UNCHANGED <<threadTask, tasks, mem>>

PipeWrite(p) ==
  /\ Slice("pipe") /\ unread[p] < MaxUnread
  /\ unread' = [unread EXCEPT ![p] = @ + 1]
  /\ Continue("data")
  /\ UNCHANGED <<threadTask, tasks, mem>>

\* ppoll with POLLIN on a set of pipes.
Ppoll(S) ==
  /\ Slice("poll")
  /\ LET w == [kind |-> "poll", pipes |-> S, yielded |-> FALSE] IN
     \/ ~HasData(w) /\ TaskCounts > 1 /\ Suspend(w)
     \/ /\ HasData(w) \/ TaskCounts <= 1
        /\ Continue(IF HasData(w) THEN "data" ELSE "zero")
        /\ UNCHANGED <<threadTask, tasks, mem, unread>>

\* wait4 on a child: an exited child is reported (and stays), a running one
\* parks the caller unless WNOHANG, a pid fork does not know is "stopped".
Wait4(c, nohang) ==
  /\ Slice("wait4") /\ status[c] # "N"
  /\ \/ fork[c] = "alive" /\ ~nohang /\ Suspend([kind |-> "child", child |-> c])
     \/ /\ fork[c] # "alive" \/ nohang
        /\ Continue(CASE fork[c] = "dead" -> "exited" [] fork[c] = "alive" -> "zero"
                       [] fork[c] = "none" -> "stopped")
        /\ UNCHANGED <<threadTask, tasks, mem, unread>>

\* The wall clock crosses a second boundary.
Tick ==
  /\ pc # "exited"
  /\ \E t \in Tasks : waiter[t].kind = "timed" /\ waiter[t].left > 0
  /\ waiter' = [t \in Tasks |-> IF waiter[t].kind = "timed" /\ waiter[t].left > 0
                                THEN [waiter[t] EXCEPT !.left = @ - 1] ELSE waiter[t]]
  /\ UNCHANGED <<loop, threadTask, host, status, saved, finished, tidPtr, fork, mem,
                 unread, x0, steps>>

Host ==
  \/ BeginPass \/ KeepTask \/ DispatchTask
  \/ EndPassMain \/ EndPassRelease \/ EndPassStuck \/ EndPassMerge
  \/ AliveCheck

Guest ==
  \/ \E a \in Words : \/ \E v \in GuestVals : Store(a, v)
                     \/ Unmap(a)
                     \/ \E v \in Vals : FutexWaitAgain(a, v) \/ FutexWaitPark(a, v)
                     \/ \E n \in 1..Cardinality(Tasks) : FutexWake(a, n)
  \/ \E a \in Words \cup {NoAddr} : SetTidAddress(a)
  \/ \E t \in Threads : \/ \E a, b \in Words \cup {NoAddr} : Clone(t, a, b)
                       \/ Fork(t) \/ CreateFails(t)
                       \/ Wait4(t, TRUE) \/ Wait4(t, FALSE)
  \/ \E p \in Pipes : PipeRead(p) \/ PipeWrite(p)
  \/ \E S \in SUBSET Pipes : Ppoll(S)
  \/ ExitThread \/ TerminateHost \/ ReturnOrFault \/ Yield

Next == (\E m \in Mains : RunMainForResult(m)) \/ Host \/ Guest \/ Tick

Spec == Init /\ [][Next]_vars

(***************************************************************************)
(* The host thread never stops by itself: weak fairness of its steps.      *)
(* That a slice ends is a premise about the guest (MaxSteps): the backend  *)
(* does not enforce it, see JitBackend.  Nothing is assumed of the caller  *)
(* of e_func or the clock.                                                 *)
(***************************************************************************)
FairSpec == Spec /\ WF_vars(Host \/ Guest)

-----------------------------------------------------------------------------
(* Properties *)

\* Every variable holds a value of its kind; a slice belongs to some task and
\* no pipe is read past its end.
TypeOK ==
  /\ taskList \in Seq(Tasks) /\ threadTask \in Seq(Threads)
  /\ scheduled \in Seq(Tasks) /\ kept \in Seq(Tasks)
  /\ ran \in BOOLEAN /\ mainRet \in Mains \cup {NoTask}
  /\ runningTask \in Tasks \cup {NoTask}
  /\ pc \in {"idle", "pass", "scan", "slice", "alive", "exited"}
  /\ pc = "slice" => runningTask \in Tasks
  /\ call \in Mains \cup {NoTask} /\ answer \in Mains \cup {NoTask}
  /\ inThread \in BOOLEAN
  /\ waiter \in [Tasks -> Waiters]
  /\ status \in [Tasks -> {"N", "Z", "R", "S", "X"}]
  /\ saved \in [Tasks -> BOOLEAN]
  /\ finished \subseteq Threads
  /\ tidPtr \in [Threads -> Words \cup {NoAddr}]
  /\ fork \in [Threads -> {"none", "alive", "dead"}]
  /\ mem \in [Words -> Vals \cup {Unmapped}]
  /\ unread \in [Pipes -> 0..MaxUnread]
  /\ x0 \in Results
  /\ steps \in 0..MaxSteps

Distinct(s) == \A i, j \in DOMAIN s : i # j => s[i] # s[j]

\* The tasks the dispatcher will visit again, in order.
Population ==
  (CASE pc = "scan"             -> kept \o scheduled
     [] pc \in {"slice", "exited"} -> kept \o <<runningTask>> \o scheduled
     [] OTHER                   -> taskList) \o threadTask

Live == {t \in Tasks : status[t] \notin {"N", "X"}}

\* No task is lost, duplicated or left behind after its end: the lists of the
\* dispatcher always hold each live task exactly once and no other task.
TasksConserved ==
  /\ ToSet(Population) = Live
  /\ Distinct(Population)

\* When a pass ran nothing and goes to release_deadlocked_waiters, no new thread
\* is waiting in thread_task: the "continue" there never skips a merge.
MergedBeforeRelease ==
  pc = "scan" /\ scheduled = <<>> /\ mainRet = NoTask /\ ~ran => threadTask = <<>>

\* A thread merged into the list gets its first slice before any main task runs.
NewThreadsBeforeMain ==
  pc = "slice" /\ runningTask \in Mains =>
    \A i \in DOMAIN scheduled : status[scheduled[i]] # "Z"

\* e_func does not return to the host while the list holds a futex waiter that
\* was woken or whose word changed, or a wait4 caller whose child has exited.
NothingReadyAtReturn ==
  pc = "idle" =>
    \A i \in DOMAIN taskList : LET w == waiter[taskList[i]] IN
      /\ IsFutex(w) => ~w.woken /\ mem[w.addr] = w.val
      /\ w.kind = "child" => fork[w.child] = "alive"

\* No task sleeps on the tid word of a thread that has called exit: the word is
\* cleared and its waiters are woken (CLONE_CHILD_CLEARTID).
JoinersRunnable ==
  \A t \in finished, u \in Tasks :
    LET w == waiter[u] IN
    IsFutex(w) /\ w.addr = tidPtr[t] /\ w.val = t => CanDispatch(u)

\* e_func answers with the result of its own main task or with None, never
\* with the result of another call whose main task was still parked.
OwnAnswer == answer \in {NoTask, call}

\* A futex waiter that was woken, by FUTEX_WAKE, by the exit of a thread or by
\* the deadlock release, resumes (unless the host process ends), even when
\* the main task finishes in the pass that woke it.
WokenRuns ==
  \A t \in Tasks : (IsFutex(waiter[t]) /\ waiter[t].woken)
                    ~> (~IsFutex(waiter[t]) \/ pc = "exited")

\* A created thread runs, or the call that created it returns to the host.
CreatedRuns ==
  \A t \in Threads : (status[t] = "Z") ~> (status[t] # "Z" \/ pc \in {"idle", "exited"})

\* The loop never spins on parked futex waiters: a pass over a list that holds
\* one leads to a slice, by a wake or by the deadlock release.
DeadlockRecovered ==
  (pc = "pass" /\ \E i \in DOMAIN taskList : IsFutex(waiter[taskList[i]])) ~> (pc = "slice")

-----------------------------------------------------------------------------
(* The abstract specification *)

StageOf(s) ==
  CASE s = "N" -> "none" [] s = "Z" -> "queued" [] s = "R" -> "running"
    [] s = "S" -> "parked" [] OTHER -> "gone"

Coop == INSTANCE CoopTasks WITH stage <- [t \in Tasks |-> StageOf(status[t])],
                                open  <- pc # "idle"

\* The dispatcher implements cooperative tasks: one slice at a time, begun and
\* ended inside a call of e_func, and no task restarted after its end.
CoopSpec == Coop!Spec

=============================================================================
