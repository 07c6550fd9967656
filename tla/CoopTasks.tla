------------------------------ MODULE CoopTasks ------------------------------
(***************************************************************************)
(* What the dispatcher promises to the guest: cooperative tasks inside     *)
(* synchronous host calls.  At most one task runs; it runs until it parks, *)
(* finishes or ends the process; a task is created once, by the host or by *)
(* the running task, and never comes back once it is gone; no guest code   *)
(* runs between two host calls.                                            *)
(***************************************************************************)
CONSTANTS Tasks, Mains

VARIABLES
  stage,  \* none, queued, running, parked or gone
  open    \* the host is inside a call

cvars == <<stage, open>>

Init == stage = [t \in Tasks |-> "none"] /\ open = FALSE

Idle == \A t \in Tasks : stage[t] # "running"

Move(t, from, to) == stage[t] \in from /\ stage' = [stage EXCEPT ![t] = to]

\* The host enters a call with a new main task.
Call(m) == ~open /\ Idle /\ Move(m, {"none"}, "queued") /\ open' = TRUE

\* The running task creates another one; the creation may fail for good.
Create(t) ==
  /\ ~Idle
  /\ Move(t, {"none"}, "queued") \/ Move(t, {"none"}, "gone")
  /\ UNCHANGED open

Start(t) == open /\ Idle /\ Move(t, {"queued", "parked"}, "running") /\ UNCHANGED open

\* The running task gives up the processor or ends.
Stop(t) ==
  /\ Move(t, {"running"}, "parked") \/ Move(t, {"running"}, "gone")
  /\ UNCHANGED open

\* The host gets its answer.
Return == open /\ Idle /\ open' = FALSE /\ UNCHANGED stage

Next ==
  \/ \E m \in Mains : Call(m)
  \/ \E t \in Tasks \ Mains : Create(t)
  \/ \E t \in Tasks : Start(t) \/ Stop(t)
  \/ Return

Spec == Init /\ [][Next]_cvars

=============================================================================
