----------------------------- MODULE Descriptors -----------------------------
(***************************************************************************)
(* The guest's descriptor table and the system calls on it.  A process and *)
(* its fork children are tasks of one emulator and share ONE table, so a   *)
(* close in one of them is seen by all; pipe ends are therefore never      *)
(* removed.  Every opened file carries a number (obj) that the code does   *)
(* not have: it lets the properties say that a descriptor still denotes    *)
(* the file its holder was given.                                          *)
(***************************************************************************)
EXTENDS SparseList, FiniteSets

CONSTANTS
  Procs,      \* guest processes, the fork children included
  Root,       \* the first process
  OpenKinds,  \* the kinds of files the guest opens
  Fds,        \* the numbers the guest passes as descriptors
  MaxFiles,   \* bound: files ever opened
  MaxBytes    \* bound: bytes ever written to one pipe

ASSUME DescriptorsAssumption ==
  Root \in Procs /\ Fds \subseteq Int /\ MaxFiles \in Nat /\ MaxBytes \in Nat

VARIABLES
  fds,      \* AndroidFileSystem.fd_map
  pipes,    \* the buffers of the pipes: [len, pos], shared by both ends
  parked,   \* process -> the pipe it waits for in read, 0 if none
  alive,    \* processes that exist
  panicked, \* the emulator hit a panic!, todo! or unreachable!
  count,    \* ghost: files opened so far
  held,     \* ghost: process -> the <<fd, file>> pairs it was given or inherited
  revoked,  \* ghost: pairs one process closed while another one held them
  peak,     \* ghost: the most files that were ever open at once
  got       \* ghost: pipe -> positions delivered to its readers, in order

ghosts == <<count, held, revoked, peak, got>>
vars == <<fds, pipes, parked, alive, panicked, ghosts>>

Opened == {"bytes", "file", "dir", "urandom", "proc", "socket"}
PipeKinds == {"pipe_r", "pipe_w"}
Kinds == Opened \cup PipeKinds \cup {"stdin", "stdout"}

\* FileIO: its kind, its identity, and for a pipe end the pipe's number.
File(k, o, n) == [kind |-> k, obj |-> o, pipe |-> n]
FileSet == [kind : Kinds, obj : Nat, pipe : Nat]
PipeEnds == [kind : PipeKinds, obj : Nat, pipe : Nat]

ASSUME FilesAssumption == OpenKinds \subseteq Opened /\ None \notin FileSet

Kind(fd) == IF Get(fds, fd) = None THEN "none" ELSE Get(fds, fd).kind

Runs(p) == p \in alive /\ parked[p] = 0 /\ ~panicked

\* Every task that holds descriptor fd, except p, loses its file to p's close.
HeldElsewhere(p, fd) ==
  {h \in UNION {held[q] : q \in Procs \ {p}} : h = <<fd, Get(fds, fd)>>}

Peak(l) == IF Cardinality(Live(l)) > peak THEN Cardinality(Live(l)) ELSE peak

\* The table starts with the three standard streams.
Stdio == <<File("stdin", 1, 0), File("stdout", 2, 0), File("stdout", 3, 0)>>

Init ==
  /\ fds = [data |-> Stdio, free |-> <<>>]
  /\ pipes = <<>>
  /\ parked = [p \in Procs |-> 0]
  /\ alive = {Root}
  /\ panicked = FALSE
  /\ count = 3
  /\ held = [p \in Procs |-> IF p = Root THEN {<<i - 1, Stdio[i]>> : i \in 1 .. 3} ELSE {}]
  /\ revoked = {}
  /\ peak = 3
  /\ got = <<>>

\* openat of a path that resolves, and socket(AF_LOCAL): one insertion.  An
\* open that fails touches nothing.
OpenAt(p, k) ==
  LET f == File(k, count + 1, 0) IN
  /\ Runs(p) /\ count < MaxFiles
  /\ fds' = Insert(fds, f)
  /\ held' = [held EXCEPT ![p] = @ \cup {<<NextIndex(fds), f>>}]
  /\ count' = count + 1
  /\ peak' = Peak(Insert(fds, f))
  /\ UNCHANGED <<pipes, parked, alive, panicked, revoked, got>>

Pipe2(p) ==
  LET n == Len(pipes) + 1
      r == File("pipe_r", count + 1, n)
      w == File("pipe_w", count + 2, n)
      half == Insert(fds, r) IN
  /\ Runs(p) /\ count + 1 < MaxFiles
  /\ fds' = Insert(half, w)
  /\ pipes' = Append(pipes, [len |-> 0, pos |-> 0])
  /\ got' = Append(got, <<>>)
  /\ held' = [held EXCEPT ![p] = @ \cup {<<NextIndex(fds), r>>, <<NextIndex(half), w>>}]
  /\ count' = count + 2
  /\ peak' = Peak(Insert(half, w))
  /\ UNCHANGED <<parked, alive, panicked, revoked>>

\* Mutant: pipe ends are removed like any other file.
RemovableAll(fd) == Kind(fd) # "urandom"

\* close asks the file for its path first: pipe ends stay, and the path of
\* /dev/urandom is a todo!.  Removing an empty slot is answered with EBADF.
Removable(fd) == Kind(fd) \notin {"urandom"} \cup PipeKinds

\* The caller forgets the number whatever the answer (0, or EBADF).
Close(p, fd) ==
  /\ Runs(p)
  /\ IF Removable(fd)
       THEN fds' = Remove(fds, fd) /\ revoked' = revoked \cup HeldElsewhere(p, fd)
       ELSE UNCHANGED <<fds, revoked>>
  /\ held' = [held EXCEPT ![p] = {h \in @ : h[1] # fd}]
  /\ panicked' = (Kind(fd) = "urandom")
  /\ UNCHANGED <<pipes, parked, alive, count, peak, got>>

Avail(n) == pipes[n].len - pipes[n].pos

\* Mutant: the bytes are delivered but the position stays.
DeliverAgain(n, c) ==
  LET k == IF c < Avail(n) THEN c ELSE Avail(n) IN
  /\ got' = [got EXCEPT ![n] = @ \o [j \in 1 .. k |-> pipes[n].pos + j]]
  /\ UNCHANGED pipes

Deliver(n, c) ==
  LET k == IF c < Avail(n) THEN c ELSE Avail(n) IN
  /\ pipes' = [pipes EXCEPT ![n].pos = @ + k]
  /\ got' = [got EXCEPT ![n] = @ \o [j \in 1 .. k |-> pipes[n].pos + j]]

\* read from a pipe's reader: what is there.  On an empty pipe it parks or, when
\* the dispatcher lists no other task (module Dispatcher), answers 0.
Read(p, fd, c) ==
  /\ Runs(p) /\ Kind(fd) = "pipe_r"
  /\ LET n == Get(fds, fd).pipe IN
     \/ Deliver(n, c) /\ UNCHANGED parked
     \/ Avail(n) = 0 /\ parked' = [parked EXCEPT ![p] = n] /\ UNCHANGED <<pipes, got>>
  /\ UNCHANGED <<fds, alive, panicked, count, held, revoked, peak>>

\* PipeReadWaiter::on_continue_run.  The waiter kept the pipe, not the
\* descriptor, and may find nothing: it waits for one pass only.
Resume(p, c) ==
  /\ ~panicked /\ parked[p] # 0
  /\ Deliver(parked[p], c)
  /\ parked' = [parked EXCEPT ![p] = 0]
  /\ UNCHANGED <<fds, alive, panicked, count, held, revoked, peak>>

\* write and writev to a pipe's writer; the reader end refuses with EACCES.
Write(p, fd, c) ==
  /\ Runs(p) /\ Kind(fd) = "pipe_w"
  /\ LET n == Get(fds, fd).pipe IN
     /\ pipes[n].len + c <= MaxBytes
     /\ pipes' = [pipes EXCEPT ![n].len = @ + c]
  /\ UNCHANGED <<fds, parked, alive, panicked, ghosts>>

\* Calls that end, or with some files may end, the emulator.
Panics ==
  ({"read", "write", "lseek"} \X {"dir", "socket"})
    \cup ({"write"} \X {"bytes", "file", "proc"})
    \cup ({"lseek", "fstat"} \X {"urandom"})
    \cup {<<"lseek", "proc">>, <<"fstat", "socket">>}
    \cup ({"getdents64"} \X (Kinds \ {"dir"}))

Panic(p, op, fd) ==
  /\ Runs(p) /\ <<op, Kind(fd)>> \in Panics
  /\ panicked' = TRUE
  /\ UNCHANGED <<fds, pipes, parked, alive, ghosts>>

\* fork: the child is a task over the same table.
Fork(p, c) ==
  /\ Runs(p) /\ c \notin alive
  /\ alive' = alive \cup {c}
  /\ held' = [held EXCEPT ![c] = held[p]]
  /\ UNCHANGED <<fds, pipes, parked, panicked, count, revoked, peak, got>>

\* exit closes no descriptor.
Exit(p) ==
  /\ Runs(p) /\ p # Root
  /\ alive' = alive \ {p}
  /\ held' = [held EXCEPT ![p] = {}]
  /\ UNCHANGED <<fds, pipes, parked, panicked, count, revoked, peak, got>>

Next ==
  \E p \in Procs :
    \/ \E k \in OpenKinds : OpenAt(p, k)
    \/ Pipe2(p)
    \/ \E fd \in Fds :
         \/ Close(p, fd)
         \/ \E c \in 1 .. MaxBytes : Read(p, fd, c) \/ Write(p, fd, c)
         \/ \E op \in {"read", "write", "lseek", "fstat", "getdents64"} : Panic(p, op, fd)
    \/ \E c \in 1 .. MaxBytes : Resume(p, c)
    \/ \E c \in Procs : Fork(p, c)
    \/ Exit(p)

Spec == Init /\ [][Next]_vars

-----------------------------------------------------------------------------
\* The table is well formed: every empty slot is queued for reuse exactly once
\* and no slot in use is queued (SparseList insert and remove).
TypeOK ==
  /\ fds \in [data : Seq(FileSet \cup {None}), free : Seq(Nat)]
  /\ WellFormed(fds)
  /\ pipes \in Seq([len : Nat, pos : Nat])
  /\ parked \in [Procs -> 0 .. Len(pipes)]
  /\ alive \in SUBSET Procs /\ panicked \in BOOLEAN /\ count \in Nat /\ peak \in Nat
  /\ held \in [Procs -> SUBSET (Nat \X FileSet)]
  /\ revoked \in SUBSET (Nat \X FileSet)

\* A descriptor a process was given denotes that very file for as long as no
\* process that shares the table closes it: no open hands out a number in use,
\* whatever the order of opens, closes, double closes and forks.
DescriptorStable ==
  \A p \in Procs : \A h \in held[p] \ revoked : Get(fds, h[1]) = h[2]

\* A process keeps its pipe ends whatever the others close: "Parent `close` of
\* unused pipe ends would steal the child's handshake/result fds, so keep pipe
\* fds live" (syscall_close).
PipeEndsKept ==
  \A p \in Procs : \A h \in held[p] : h[2] \in PipeEnds => Get(fds, h[1]) = h[2]

\* Descriptors are reused before the table grows: the largest number ever
\* given out is below the largest number of files open at one time.
ReusedBeforeGrowth == Len(fds.data) <= peak

\* A pipe delivers every byte once and in order, whichever mix of direct and
\* parked readers takes them (PipeIO::read, PipeReadWaiter::on_continue_run).
DeliveredOnce ==
  \A n \in 1 .. Len(pipes) : got[n] = [j \in 1 .. pipes[n].pos |-> j] /\ Avail(n) >= 0

\* The table implements the abstract partial map of FdTable.
Table == INSTANCE FdTable WITH table <- [i \in Live(fds) |-> Get(fds, i)]
TableSpec == Table!Spec

=============================================================================
