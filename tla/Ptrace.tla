------------------------------- MODULE Ptrace -------------------------------
(* The ptrace emulation: a tracer attaches to threads, sets their hardware   *)
(* breakpoints and watchpoints, continues them and collects their stops with *)
(* wait4. No thread is really stopped and no breakpoint is really hit:       *)
(* PTRACE_CONT looks up the next enabled address on the path the worker is   *)
(* known to take and queues the stop itself. wait4 of a pid that fork has    *)
(* created belongs to the task dispatcher and is only distinguished here.    *)
EXTENDS Integers, Sequences, FiniteSetsExt, Functions

CONSTANTS
  Tids,         \* threads that may be traced
  Addrs,        \* code and data addresses, numbers other than 0
  Paths,        \* sequences of addresses that commands of a worker execute
  Slots,        \* slots of a register set of the debug unit
  SlotCounts,   \* values a tracer writes into the slot count of dbg_info
  WaitOptions   \* options of wait4: "hang", "nohang"

(* No path has an address twice: those of worker_exec_seq do not, provided   *)
(* that the guest's own table of stage markers does not.                     *)
ASSUME PtraceAssumption ==
  /\ Addrs \subseteq Nat \ {0}
  /\ \A p \in Paths : p \in Seq(Addrs) /\ IsInjective(p)
  /\ Slots \in Nat \ {0}
  /\ SlotCounts \subseteq Nat
  /\ WaitOptions \subseteq {"hang", "nohang"}

Notes == {"break", "watch"}
NoPath == <<"unknown">>   \* worker_exec_seq answers None
NoStop == [signo |-> "none", addr |-> 0, reported |-> TRUE]
Unset == [count |-> 0, addr |-> [s \in 1..Slots |-> 0]]

VARIABLES
  ptrace_tracer,  \* the threads that are attached
  ptrace_stop,    \* the stop of each thread, or NoStop
  hwdebug,        \* ptrace_regset of the two debug notes; address 0: disabled
  prstatus,       \* ptrace_regset of NT_PRSTATUS: its pc, or 0 if not stored
  path,           \* external: the path of the command the worker executes
  passed,         \* history: how far on its path the worker has been stopped
  armed,          \* history: addresses set since the thread was last detached
  setpc,          \* history: the tracer has written the registers itself
  answer          \* history: what the last wait4 reported

traceVars == <<ptrace_tracer, ptrace_stop, hwdebug, prstatus, path, passed, armed, setpc, answer>>

TraceInit ==
  /\ ptrace_tracer = {}
  /\ ptrace_stop = [t \in Tids |-> NoStop]
  /\ hwdebug = [t \in Tids |-> [n \in Notes |-> Unset]]
  /\ prstatus = [t \in Tids |-> 0]
  /\ path \in [Tids -> Paths \cup {NoPath}]
  /\ passed = [t \in Tids |-> 0]
  /\ armed = [t \in Tids |-> {}]
  /\ setpc = [t \in Tids |-> FALSE]
  /\ answer = [tid |-> 0, signo |-> "none"]

----------------------------------------------------------------------------
(* enabled_hwdebug: the enabled slots among the first of the set, as many as *)
(* the slot count that the tracer wrote says. ptrace_pick_hit numbers the    *)
(* watchpoints behind the breakpoints.                                       *)
EnabledSlots(buf) == {s \in 1..Slots : s <= buf.count /\ buf.addr[s] # 0}

SlotAddr(t, k) ==
  IF k <= Slots THEN hwdebug[t]["break"].addr[k] ELSE hwdebug[t]["watch"].addr[k - Slots]

Enabled(t) == EnabledSlots(hwdebug[t]["break"]) \cup {Slots + s : s \in EnabledSlots(hwdebug[t]["watch"])}
EnabledAddrs(t) == {SlotAddr(t, k) : k \in Enabled(t)}

(* ptrace_pick_hit: the address PTRACE_CONT stops the thread at, 0 for none. *)
LastHit(t) == IF ptrace_stop[t].signo = "trap" THEN ptrace_stop[t].addr ELSE 0

Begin(seq, last) ==
  IF last = 0 \/ last \notin Range(seq) THEN 1
  ELSE 1 + CHOOSE i \in DOMAIN seq : seq[i] = last /\ \A j \in 1..i - 1 : seq[j] # last

(* Mutant: the search starts at the first slot again.                        *)
NextOnPathSlotZero(seq, last, enabled) ==
  LET hits == {i \in DOMAIN seq : seq[i] \in enabled}
  IN  IF hits = {} THEN 0 ELSE seq[Min(hits)]

NextOnPath(seq, last, enabled) ==
  LET hits == {i \in Begin(seq, last)..Len(seq) : seq[i] \in enabled}
  IN  IF hits = {} THEN 0 ELSE seq[Min(hits)]

OtherSlot(t, last) ==
  LET others == {k \in Enabled(t) : SlotAddr(t, k) # last}
  IN  SlotAddr(t, Min(IF others # {} THEN others ELSE Enabled(t)))

PickHit(t) ==
  IF Enabled(t) = {} THEN 0
  ELSE IF path[t] # NoPath THEN NextOnPath(path[t], LastHit(t), EnabledAddrs(t))
  ELSE OtherSlot(t, LastHit(t))

----------------------------------------------------------------------------
(* ptrace_set_pc and ptrace_queue_stop.                                      *)
SetPc(t, addr) == IF addr # 0 THEN [prstatus EXCEPT ![t] = addr] ELSE prstatus

QueueStop(t, signo, addr) ==
  /\ ptrace_stop' = [ptrace_stop EXCEPT ![t] = [signo |-> signo, addr |-> addr, reported |-> FALSE]]
  /\ prstatus' = SetPc(t, addr)
  /\ setpc' = [setpc EXCEPT ![t] = @ /\ addr = 0]

(* PTRACE_ATTACH and PTRACE_SEIZE.                                           *)
Attach(t) ==
  /\ ptrace_tracer' = ptrace_tracer \cup {t}
  /\ QueueStop(t, "stop", 0)
  /\ UNCHANGED <<hwdebug, path, passed, armed, answer>>

Interrupt(t) ==
  /\ QueueStop(t, "stop", 0)
  /\ UNCHANGED <<ptrace_tracer, hwdebug, path, passed, armed, answer>>

(* PTRACE_DETACH forgets the stop and every register set of the thread.      *)
RetainRegsets(t) == [hwdebug EXCEPT ![t] = [n \in Notes |-> Unset]]

Detach(t) ==
  /\ ptrace_tracer' = ptrace_tracer \ {t}
  /\ ptrace_stop' = [ptrace_stop EXCEPT ![t] = NoStop]
  /\ hwdebug' = RetainRegsets(t)
  /\ prstatus' = [prstatus EXCEPT ![t] = 0]
  /\ passed' = [passed EXCEPT ![t] = 0]
  /\ armed' = [armed EXCEPT ![t] = {}]
  /\ setpc' = [setpc EXCEPT ![t] = FALSE]
  /\ UNCHANGED <<path, answer>>

(* PTRACE_SETREGSET of a debug note: the part of the set the tracer's buffer *)
(* does not reach is that of default_ptrace_regset, all disabled.            *)
Prefix(written) == [s \in 1..Slots |-> IF s \in DOMAIN written THEN written[s] ELSE 0]

SetHwDebug(t, note, count, written) ==
  /\ hwdebug' = [hwdebug EXCEPT ![t][note] = [count |-> count, addr |-> Prefix(written)]]
  /\ armed' = [armed EXCEPT ![t] = @ \cup Range(written)]
  /\ UNCHANGED <<ptrace_tracer, ptrace_stop, prstatus, path, passed, setpc, answer>>

(* PTRACE_SETREGSET of NT_PRSTATUS: stored, never given to the thread.       *)
SetPrstatus(t, pc) ==
  /\ prstatus' = [prstatus EXCEPT ![t] = pc]
  /\ setpc' = [setpc EXCEPT ![t] = TRUE]
  /\ UNCHANGED <<ptrace_tracer, ptrace_stop, hwdebug, path, passed, armed, answer>>

(* PTRACE_GETREGSET of NT_PRSTATUS: the pc of the stored registers, or of    *)
(* those the thread had when it was last suspended.                          *)
Snapshot == 0
GetRegsetPc(t) == IF prstatus[t] # 0 THEN prstatus[t] ELSE Snapshot

(* PTRACE_CONT.                                                              *)
Position(t, hit) ==
  IF path[t] = NoPath THEN 0 ELSE Min({i \in DOMAIN path[t] : path[t][i] = hit})

ContHit(t) ==
  LET hit == PickHit(t)
  IN  /\ hit # 0
      /\ QueueStop(t, "trap", hit)
      /\ passed' = [passed EXCEPT ![t] = Position(t, hit)]
      /\ UNCHANGED <<ptrace_tracer, hwdebug, path, armed, answer>>

ContFree(t) ==
  /\ PickHit(t) = 0
  /\ ptrace_stop' = [ptrace_stop EXCEPT ![t] = NoStop]
  /\ passed' = [passed EXCEPT ![t] = 0]
  /\ UNCHANGED <<ptrace_tracer, hwdebug, prstatus, path, armed, setpc, answer>>

Cont(t) == ContHit(t) \/ ContFree(t)

----------------------------------------------------------------------------
(* wait4 of a thread: a stop is reported once; afterwards WNOHANG answers 0  *)
(* and a call that should block answers a SIGSTOP that never happened.       *)
Wait4Report(t) ==
  /\ ~ptrace_stop[t].reported
  /\ ptrace_stop' = [ptrace_stop EXCEPT ![t].reported = TRUE]
  /\ answer' = [tid |-> t, signo |-> ptrace_stop[t].signo]
  /\ UNCHANGED <<ptrace_tracer, hwdebug, prstatus, path, passed, armed, setpc>>

Wait4Other(t, option) ==
  /\ ptrace_stop[t].reported
  /\ answer' = IF option = "nohang" /\ (ptrace_stop[t] # NoStop \/ t \in ptrace_tracer)
               THEN [tid |-> 0, signo |-> "none"]
               ELSE [tid |-> t, signo |-> "stop"]
  /\ UNCHANGED <<ptrace_tracer, ptrace_stop, hwdebug, prstatus, path, passed, armed, setpc>>

(* External: a worker that is not stopped takes its next command.            *)
Command(t) ==
  /\ ptrace_stop[t] = NoStop
  /\ \E p \in Paths \cup {NoPath} : path' = [path EXCEPT ![t] = p]
  /\ passed' = [passed EXCEPT ![t] = 0]
  /\ UNCHANGED <<ptrace_tracer, ptrace_stop, hwdebug, prstatus, armed, setpc, answer>>

----------------------------------------------------------------------------
TraceNext ==
  \E t \in Tids :
    \/ Attach(t) \/ Interrupt(t) \/ Detach(t) \/ Cont(t) \/ Command(t)
    \/ \E note \in Notes, count \in SlotCounts, n \in 0..Slots :
         \E written \in [1..n -> Addrs \cup {0}] : SetHwDebug(t, note, count, written)
    \/ \E pc \in Addrs : SetPrstatus(t, pc)
    \/ Wait4Report(t)
    \/ \E option \in WaitOptions : Wait4Other(t, option)

TraceSpec == TraceInit /\ [][TraceNext]_traceVars

(* A tracer that has set its breakpoints and now only continues and waits.   *)
Armed ==
  /\ ptrace_tracer = Tids
  /\ ptrace_stop = [t \in Tids |-> [signo |-> "stop", addr |-> 0, reported |-> TRUE]]
  /\ hwdebug \in [Tids -> [Notes -> [count : SlotCounts, addr : [1..Slots -> Addrs \cup {0}]]]]
  /\ prstatus = [t \in Tids |-> 0]
  /\ path \in [Tids -> Paths]
  /\ passed = [t \in Tids |-> 0]
  /\ armed = [t \in Tids |-> Addrs]
  /\ setpc = [t \in Tids |-> FALSE]
  /\ answer = [tid |-> 0, signo |-> "none"]

Continue(t) == ptrace_stop[t] # NoStop /\ Cont(t)

----------------------------------------------------------------------------
(* Every variable holds a value of its kind; a trap has an address.          *)
TraceTypeOK ==
  /\ ptrace_tracer \subseteq Tids
  /\ \A t \in Tids :
       /\ ptrace_stop[t].signo \in {"none", "stop", "trap"}
       /\ ptrace_stop[t].addr \in IF ptrace_stop[t].signo = "trap" THEN Addrs ELSE {0}
       /\ ptrace_stop[t].signo = "none" => ptrace_stop[t] = NoStop
       /\ prstatus[t] \in Addrs \cup {0}
       /\ path[t] \in Paths \cup {NoPath}
       /\ armed[t] \subseteq Addrs \cup {0}
       /\ \A n \in Notes : hwdebug[t][n] \in [count : SlotCounts \cup {0}, addr : [1..Slots -> Addrs \cup {0}]]

(* PTRACE_CONT of a worker on a known path stops it at the next address of   *)
(* the path that is enabled, counted from where it was last stopped: no      *)
(* enabled address is passed over and none is met twice. It runs on to the   *)
(* end only when no enabled address is ahead of it. This is so as long as    *)
(* the tracer continues from the SIGTRAP itself: an attach or an interrupt   *)
(* in between replaces the stop, and with it the place on the path.          *)
StopsAtNext(t) ==
  LET ahead == {i \in passed[t] + 1..Len(path[t]) : path[t][i] \in EnabledAddrs(t)}
  IN  IF ahead = {} THEN ptrace_stop'[t] = NoStop
      ELSE ptrace_stop'[t].signo = "trap" /\ ptrace_stop'[t].addr = path[t][Min(ahead)]

NextExecuted ==
  [][\A t \in Tids :
       Cont(t) /\ path[t] # NoPath /\ (ptrace_stop[t].signo = "trap" \/ passed[t] = 0) =>
         StopsAtNext(t)]_traceVars

(* A SIGTRAP is raised only at an address that the tracer has put into a     *)
(* debug register since the thread was last detached: a later tracing        *)
(* session does not meet the breakpoints of an earlier one.                  *)
TrapsWereArmed ==
  \A t \in Tids : ptrace_stop[t].signo = "trap" => ptrace_stop[t].addr \in armed[t] \ {0}

(* The registers PTRACE_GETREGSET shows at a SIGTRAP have the address of the *)
(* stop as their pc, unless the tracer has overwritten them since.           *)
PcAtTrap ==
  \A t \in Tids :
    ptrace_stop[t].signo = "trap" /\ ~setpc[t] => GetRegsetPc(t) = ptrace_stop[t].addr

(* A SIGTRAP that wait4 reports is never made up: it is the stop the thread  *)
(* is in, reported for the first time.                                       *)
IsFirstReport(t) == ptrace_stop[t].signo = "trap" /\ ~ptrace_stop[t].reported /\ ptrace_stop'[t].reported

TrapsAreReal ==
  [][answer' # answer /\ answer'.signo = "trap" => IsFirstReport(answer'.tid)]_traceVars

(* A worker that its tracer continues stops at the next enabled address of   *)
(* its path and at no other; a SIGTRAP is at an address armed since the last *)
(* detach, shows that address as its pc, and wait4 reports each stop once    *)
(* and never makes one up (PTRACE_CONT, wait4).                              *)
TrapsFaithful ==
  /\ NextExecuted /\ TrapsAreReal
  /\ [](TraceTypeOK /\ TrapsWereArmed /\ PcAtTrap)

(* A worker on a known path that is continued again and again passes all its *)
(* breakpoints and runs free.                                                *)
RunsFree == \A t \in Tids : <>(ptrace_stop[t] = NoStop)

=============================================================================
