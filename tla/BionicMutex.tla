----------------------------- MODULE BionicMutex -----------------------------
(***************************************************************************)
(* Guest threads that share bionic mutexes, on top of the dispatcher.      *)
(*                                                                         *)
(* bionic is not part of the repository: the mutex is modelled from what   *)
(* unlock_stale_futex and futex() rely on.  A word is 0 (unlocked), 1      *)
(* (locked) or 2 (locked, contended); a locker that finds it locked        *)
(* exchanges it with 2 and waits for that value, an unlocker that finds 2  *)
(* wakes one waiter.                                                       *)
(***************************************************************************)
EXTENDS Dispatcher

CONSTANT ParkInside   \* may a task block while it holds a mutex?

ASSUME MutexAssumption == ParkInside \in BOOLEAN /\ GuestVals = 0..2

VARIABLE inside       \* the tasks that have locked each mutex and not unlocked it

mvars == <<vars, inside>>

MutexInit == Init /\ inside = [a \in Words |-> {}]

MayBlock == ParkInside \/ \A a \in Words : runningTask \notin inside[a]

\* The compare-and-swap or the exchange that finds the word unlocked; a task
\* that has waited leaves 2 behind.
Lock(a) ==
  /\ mem[a] = 0
  /\ \E v \in {1, 2} : Store(a, v)
  /\ inside' = [inside EXCEPT ![a] = @ \cup {runningTask}]

\* The exchange that finds the word locked.
Contend(a) ==
  /\ MayBlock /\ runningTask \notin inside[a]
  /\ mem[a] = 1 /\ Store(a, 2)
  /\ UNCHANGED inside

\* FUTEX_WAIT for the contended value; EAGAIN sends the locker round its loop.
LockWait(a) ==
  /\ MayBlock /\ runningTask \notin inside[a]
  /\ mem[a] = 2 /\ (FutexWaitPark(a, 2) \/ FutexWaitAgain(a, 2))
  /\ UNCHANGED inside

Unlock(a) ==
  /\ Slice("store") /\ runningTask \in inside[a]
  /\ mem' = [mem EXCEPT ![a] = 0]
  /\ waiter' = IF mem[a] = 2 THEN WakeFutex(a, 1) ELSE waiter
  /\ inside' = [inside EXCEPT ![a] = @ \ {runningTask}]
  /\ Continue("count")
  /\ UNCHANGED <<threadTask, status, saved, finished, tidPtr, fork, unread>>

\* The other steps of the guest and every step of the host.
Other ==
  /\ \/ \E t \in Threads : Clone(t, NoAddr, NoAddr)
     \/ MayBlock /\ \E p \in Pipes : PipeRead(p)
     \/ \E p \in Pipes : PipeWrite(p)
     \/ ExitThread \/ TerminateHost \/ ReturnOrFault \/ Yield
     \/ Host
  /\ UNCHANGED inside

Locking == \E a \in Words : Lock(a) \/ Contend(a) \/ LockWait(a) \/ Unlock(a)

Call == (\E m \in Mains : RunMainForResult(m)) /\ UNCHANGED inside

MutexNext == Call \/ Locking \/ Other

MutexSpec == MutexInit /\ [][MutexNext]_mvars

-----------------------------------------------------------------------------
\* Two live tasks are never inside the same mutex.  The deadlock release zeroes
\* the word of a mutex, so this rests on the release firing only when the
\* owner has ended.
MutualExclusion == \A a \in Words : \A t, u \in inside[a] \cap Live : t = u

\* release_deadlocked_waiters unlocks only what unlock_stale_futex is documented
\* for: "a bionic mutex word left behind by an exited thread".
OnlyExitedOwnersUnlocked ==
  [][\A a \in Words : pc = "scan" /\ mem'[a] # mem[a] => inside[a] \cap Live = {}]_mvars

=============================================================================
