---------------------------- MODULE TaskContexts ----------------------------
(***************************************************************************)
(* One emulated CPU, many guest tasks.  A task (a call made by the host, a *)
(* pthread, the child of fork) owns the CPU for a slice; between slices    *)
(* its registers live in BaseTask.snap / BaseTask.context.  This module    *)
(* follows the registers, the stacks and the host's stack pointer through  *)
(* slices, host calls, run_thread and the destruction of tasks.  Which     *)
(* task gets the next slice is the subject of Dispatcher; here any task    *)
(* may get it.                                                             *)
(***************************************************************************)
EXTENDS Integers, Sequences

CONSTANTS MaxTasks,     \* bound: tasks created in a behaviour
          MaxCalls,     \* bound: calls made by the host
          MaxSlices,    \* bound: slices of one task
          Blocks        \* stack blocks emulator.malloc can hand out

(* Tasks and slices can be counted, a task gets at least one slice, and no *)
(* stack block is called "none".                                           *)
ContextsAssumption ==
    /\ MaxTasks \in Nat /\ MaxSlices \in Nat \ {0}
    /\ "none" \notin Blocks

ASSUME ContextsHold == ContextsAssumption

VARIABLES cpu,       \* registers: tls (TPIDR_EL0), stack (where SP points),
                     \* mark (PC and X0..X30: whose they are, how far it got),
                     \* at (what PC points at)
          sp,        \* AndroidElfLoader.sp, the host's idea of the stack
          sp_back,   \* run_main_for_result's saved sp
          kept,      \* the context run_thread saves around the dispatcher
          tasks,     \* every task created so far
          running,   \* running_task, or NoTask between slices
          where,     \* where the host is
          blocks,    \* allocated stack blocks
          calls,     \* host calls made
          stuck,     \* history: a host call returned None, its task still parked
          last       \* history: each task's registers when its last slice ended

contextVars == <<cpu, sp, sp_back, kept, tasks, running, where, blocks, calls, stuck, last>>

NoTask == 0
NoBlock == "none"
TaskIds == 1 .. MaxTasks
Top == 0        \* the host stack after init_tls; a call with arguments lowers it
Host(depth) == <<"host", depth>>
Given(t) == <<"given", t>>          \* the stack the guest passed to clone
Block(b) == <<"block", b>>
MainTls == 0                        \* the TLS init_tls set up; a thread's is its id

Registers == [tls : {MainTls} \cup TaskIds,
              stack : {Host(d) : d \in {Top, Top - 1}} \cup {Given(t) : t \in TaskIds} \cup {Block(b) : b \in Blocks},
              mark : (TaskIds \cup {NoTask}) \X (0 .. MaxSlices),
              at : {"svc", "code", "lr"}]

Created == DOMAIN tasks
Live == {t \in Created : tasks[t].status # "dead"}
Fresh == Len(tasks) + 1

NoContext == [tls |-> MainTls, stack |-> Host(Top), mark |-> <<NoTask, 0>>, at |-> "code"]

ContextsInit == /\ cpu = NoContext
        /\ sp = Top /\ sp_back = Top
        /\ kept = NoContext
        /\ tasks = <<>>
        /\ running = NoTask
        /\ where = "idle"
        /\ blocks = {}
        /\ calls = 0
        /\ stuck = FALSE
        /\ last = <<>>

-----------------------------------------------------------------------------
(* BaseTask: saving, planting, restoring and destroying.                   *)

Task(kind, status, tls) ==
    [kind |-> kind, status |-> status, snap |-> NoContext, skip |-> FALSE,
     waiting |-> FALSE, block |-> NoBlock, tls |-> tls]

save_context_once(task, regs) ==
    [task EXCEPT !.snap = IF @ = NoContext THEN regs ELSE @, !.skip = TRUE, !.status = "saved"]

save_context(task, regs) ==
    [task EXCEPT !.snap = regs, !.skip = TRUE, !.status = "saved"]

(* A fork child carries a snap from the start and leaves by the wrapper's  *)
(* ret; a snap taken at the end of a slice resumes at LR when the          *)
(* instruction before PC is an SVC.                                        *)
plant_snap(task, regs) ==
    [task EXCEPT !.snap = regs, !.skip = FALSE]

continue_run_kept_tls(task) ==
    [task.snap EXCEPT !.at = IF task.skip /\ @ = "svc" THEN "lr" ELSE @, !.tls = cpu.tls]

continue_run(task) ==
    [task.snap EXCEPT !.at = IF task.skip /\ @ = "svc" THEN "lr" ELSE @]

Freed(task) == IF task.block = NoBlock THEN {} ELSE {task.block}

(* The task has left the list and is dropped.                              *)
Gone(task) == Task(task.kind, "dead", MainTls)

destroy(task) == blocks \ Freed(task)

-----------------------------------------------------------------------------
(* The host.  A call pushes its arguments below memory.sp; set_stack_point *)
(* moves the register with it, so a call without arguments runs where SP   *)
(* already is.                                                             *)
set_stack_point(regs, depth) == [regs EXCEPT !.stack = Host(depth)]

init_args(regs, args) == IF args = 0 THEN regs ELSE set_stack_point(regs, sp - args)

(* Function64::run: the new task is at the front of the list, runs first,  *)
(* and keeps the TPIDR_EL0 it finds.                                       *)
Function64_run(t, args) == [init_args(cpu, args) EXCEPT !.mark = <<t, 0>>, !.at = "code"]

e_func ==
    /\ where = "idle" /\ calls < MaxCalls /\ Fresh <= MaxTasks
    /\ \E args \in {0, 1} :
          /\ sp' = sp - args
          /\ cpu' = Function64_run(Fresh, args)
    /\ sp_back' = sp
    /\ tasks' = [t \in Created \cup {Fresh} |->
                    IF t = Fresh THEN Task("host", "running", MainTls) ELSE tasks[t]]
    /\ last' = [t \in Created \cup {Fresh} |-> IF t = Fresh THEN NoContext ELSE last[t]]
    /\ running' = Fresh /\ where' = "run" /\ calls' = calls + 1
    /\ UNCHANGED <<kept, blocks, stuck>>

(* What follows the dispatcher's return: run_main_for_result resets the    *)
(* stack pointer, run_thread restores the context it saved.                *)
ReturnsDirty(regs) ==
    /\ running' = NoTask /\ where' = "drain" /\ kept' = NoContext
    /\ sp' = IF where = "run" THEN sp_back ELSE sp
    /\ cpu' = IF where = "run" THEN set_stack_point(regs, sp_back) ELSE regs

Returns(regs) ==
    /\ running' = NoTask /\ where' = "drain" /\ kept' = NoContext
    /\ sp' = IF where = "run" THEN sp_back ELSE sp
    /\ cpu' = IF where = "run" THEN set_stack_point(regs, sp_back) ELSE kept

(* No task can be dispatched: the dispatcher gives up, the CPU still holds *)
(* the registers of the last slice.                                        *)
NoRunnable ==
    /\ where \in {"run", "thread"} /\ running = NoTask
    /\ \A t \in Live : tasks[t].waiting
    /\ Returns(cpu)
    /\ stuck' = (stuck \/ where = "run")
    /\ UNCHANGED <<sp_back, tasks, blocks, calls, last>>

(* run_main_for_result's loop: while alive_task_counts is not zero.        *)
run_thread ==
    /\ where = "drain"
    /\ \E t \in Live : tasks[t].status = "saved" /\ tasks[t].waiting
    /\ kept' = cpu
    /\ where' = "thread"
    /\ UNCHANGED <<cpu, sp, sp_back, tasks, running, blocks, calls, stuck, last>>

CallReturns ==
    /\ where = "drain"
    /\ where' = "idle"
    /\ UNCHANGED <<cpu, sp, sp_back, kept, tasks, running, blocks, calls, stuck, last>>

-----------------------------------------------------------------------------
(* The dispatcher gives a slice to a task.                                 *)
(* MarshmallowThread::dispatch, first slice: registers set up from the     *)
(* clone arguments, or from an allocated stack block.                      *)
dispatch(t) ==
    /\ where \in {"run", "thread"} /\ running = NoTask
    /\ tasks[t].status = "new"
    /\ \E own \in {Given(t)} \cup {Block(b) : b \in Blocks \ blocks} :
          /\ cpu' = [tls |-> t, stack |-> own, mark |-> <<t, 0>>, at |-> "code"]
          /\ blocks' = blocks \cup (IF own = Given(t) THEN {} ELSE {own[2]})
          /\ tasks' = [tasks EXCEPT ![t].status = "running",
                                    ![t].block = IF own = Given(t) THEN NoBlock ELSE own[2]]
    /\ running' = t
    /\ UNCHANGED <<sp, sp_back, kept, where, calls, stuck, last>>

Resume(t) ==
    /\ where \in {"run", "thread"} /\ running = NoTask
    /\ tasks[t].status = "saved" /\ tasks[t].snap.mark[2] < MaxSlices
    /\ cpu' = continue_run(tasks[t])
    /\ tasks' = [tasks EXCEPT ![t].status = "running", ![t].skip = FALSE, ![t].waiting = FALSE]
    /\ running' = t
    /\ UNCHANGED <<sp, sp_back, kept, where, blocks, calls, stuck, last>>

-----------------------------------------------------------------------------
(* What the task does with its slice.                                      *)
Advanced(at) == [cpu EXCEPT !.mark[2] = @ + 1, !.at = at]

clone ==
    /\ running # NoTask /\ Fresh <= MaxTasks
    /\ tasks' = [t \in Created \cup {Fresh} |-> IF t = Fresh THEN Task("thread", "new", Fresh) ELSE tasks[t]]
    /\ last' = [t \in Created \cup {Fresh} |-> IF t = Fresh THEN NoContext ELSE last[t]]
    /\ UNCHANGED <<cpu, sp, sp_back, kept, running, where, blocks, calls, stuck>>

(* The child gets the caller's registers, X0 = 0, SP moved into a copy of  *)
(* the stack, and the caller's TPIDR_EL0.                                  *)
ForkRegistersShared(t, b) == [cpu EXCEPT !.mark = <<t, 0>>, !.at = "svc"]

ForkRegisters(t, b) == [cpu EXCEPT !.mark = <<t, 0>>, !.at = "svc", !.stack = Block(b)]

fork ==
    /\ running # NoTask /\ Fresh <= MaxTasks
    /\ \E b \in Blocks \ blocks :
          LET child == [plant_snap(Task("fork", "saved", tasks[running].tls), ForkRegisters(Fresh, b))
                           EXCEPT !.block = b]
          IN /\ tasks' = [t \in Created \cup {Fresh} |-> IF t = Fresh THEN child ELSE tasks[t]]
             /\ last' = [t \in Created \cup {Fresh} |-> IF t = Fresh THEN ForkRegisters(Fresh, b) ELSE last[t]]
             /\ blocks' = blocks \cup {b}
    /\ UNCHANGED <<cpu, sp, sp_back, kept, running, where, calls, stuck>>

(* The slice ends without a result: a call parked the task on a waiter or  *)
(* yielded.  PC is behind the SVC, or wherever its handler has moved it.   *)
Park ==
    /\ running # NoTask
    /\ \E at \in {"svc", "code"}, waiting \in BOOLEAN :
          /\ waiting => at = "svc"
          /\ cpu' = Advanced(at)
          /\ tasks' = [tasks EXCEPT ![running] = [save_context(@, cpu') EXCEPT !.waiting = waiting]]
    /\ last' = [last EXCEPT ![running] = cpu']
    /\ running' = NoTask
    /\ UNCHANGED <<sp, sp_back, kept, where, blocks, calls, stuck>>

(* The slice ends with a result (return, exit or a fault).  The result of  *)
(* a host call ends the run.                                               *)
Finish ==
    /\ running # NoTask
    /\ tasks' = [tasks EXCEPT ![running] = Gone(@)]
    /\ blocks' = destroy(tasks[running])
    /\ last' = [last EXCEPT ![running] = NoContext]
    /\ IF tasks[running].kind = "host"
         THEN Returns(Advanced("svc"))
         ELSE /\ cpu' = Advanced("svc")
              /\ running' = NoTask
              /\ UNCHANGED <<sp, kept, where>>
    /\ UNCHANGED <<sp_back, calls, stuck>>

ContextsNext == \/ e_func \/ NoRunnable \/ run_thread \/ CallReturns
        \/ \E t \in Created : dispatch(t) \/ Resume(t)
        \/ clone \/ fork \/ Park \/ Finish

ContextsSpec == ContextsInit /\ [][ContextsNext]_contextVars
-----------------------------------------------------------------------------
(* Registers, stacks, tasks and histories have their types.                *)
ContextsTypeOK ==
    /\ cpu \in Registers /\ kept \in Registers
    /\ sp \in {Top, Top - 1} /\ sp_back \in {Top, Top - 1}
    /\ Created \subseteq TaskIds
    /\ \A t \in Created :
          /\ tasks[t].snap \in Registers /\ last[t] \in Registers
          /\ tasks[t].block \in Blocks \cup {NoBlock}
    /\ blocks \subseteq Blocks
    /\ where \in {"idle", "run", "thread", "drain"}
    /\ running \in {NoTask} \cup Created
    /\ (running # NoTask) => where \in {"run", "thread"}

(* The stack a task's registers point into, wherever they are kept.        *)
StackOf(t) == IF t = running THEN cpu.stack ELSE tasks[t].snap.stack

(* A slice runs on the task's own registers: whatever tasks, host calls    *)
(* and nested dispatcher runs went before, PC, the general registers and   *)
(* TPIDR_EL0 are the running task's.  The TLS of a host call is only its   *)
(* own while no earlier call was abandoned (continue_run, Function64::run, *)
(* MarshmallowThread::dispatch).  Includes the types.                      *)
OwnRegisters ==
    /\ ContextsTypeOK
    /\ running # NoTask =>
          /\ cpu.mark[1] = running
          /\ (~ stuck \/ tasks[running].kind = "thread") => cpu.tls = tasks[running].tls

(* Two tasks that can still run never have their stack pointers in the     *)
(* same stack: not after a stack block was freed and handed out again, and *)
(* not on the host stack, as long as no host call was abandoned.  A block  *)
(* is allocated exactly as long as the task that owns it lives             *)
(* (allocate_stack, set_stack_block, destroy).                             *)
StacksDisjoint ==
    /\ ~ stuck =>
          \A t, u \in {x \in Live : tasks[x].status # "new"} : t # u => StackOf(t) # StackOf(u)
    /\ blocks = {tasks[t].block : t \in Live} \ {NoBlock}

(* Between host calls the stack pointer is where it was before any call,   *)
(* in the loader's record and in the register (run_main_for_result), and   *)
(* the CPU has the main TLS again, although worker slices ran after the    *)
(* call's own result (run_thread saves and restores).                      *)
HostRestored ==
    where = "idle" => /\ sp = Top /\ cpu.stack = Host(Top)
                      /\ ~ stuck => cpu.tls = MainTls

(* A slice continues with the registers the task's previous slice ended    *)
(* with; only PC may differ.  The first slice of a fork child starts       *)
(* behind the SVC of the fork wrapper; every later one, and every slice of *)
(* another task that stopped at an SVC, goes on at LR (continue_run,       *)
(* BaseTask.skip_svc_epilogue).                                            *)
ResumeExact ==
    [][\A t \in Created : Resume(t) =>
          /\ [cpu' EXCEPT !.at = last[t].at] = last[t]
          /\ last[t].at = "svc" =>
                (cpu'.at = "svc" <=> tasks[t].kind = "fork" /\ last[t].mark[2] = 0)]_contextVars
=============================================================================
