-------------------------- MODULE DescriptorsProofs --------------------------
(***************************************************************************)
(* Proofs about the descriptor table: its type correctness, that a         *)
(* descriptor keeps denoting its file and that pipe ends stay, whatever    *)
(* processes open, close, fork and exit in whatever order.                 *)
(***************************************************************************)
EXTENDS Descriptors, SparseListProofs, FiniteSetTheorems

(* The number in a pipe end is that of a pipe that exists.                 *)
PipeNumbers == \A i \in Int : Get(fds, i) \in PipeEnds => Get(fds, i).pipe \in 1 .. Len(pipes)

(* No pipe was read past its end.                                          *)
PosBounded == \A n \in 1 .. Len(pipes) : pipes[n].pos <= pipes[n].len

(* The inductive invariant for type correctness.                           *)
TypeInv == TypeOK /\ PipeNumbers /\ PosBounded

-----------------------------------------------------------------------------
(* A file the guest opens is a file and no pipe end.                       *)
LEMMA OpenedFile ==
  ASSUME NEW k \in OpenKinds, NEW o \in Nat
  PROVE  File(k, o, 0) \in FileSet \ PipeEnds
BY Zenon, FilesAssumption DEF File, FileSet, PipeEnds, Kinds, PipeKinds, Opened

(* The two ends of a pipe.                                                 *)
LEMMA PipeFile ==
  ASSUME NEW k \in PipeKinds, NEW o \in Nat, NEW n \in Nat
  PROVE  File(k, o, n) \in FileSet /\ File(k, o, n) \in PipeEnds /\ File(k, o, n).pipe = n
BY Zenon DEF File, FileSet, PipeEnds, Kinds, PipeKinds

(* Files are not the empty slot.                                           *)
LEMMA NoneIsNoFile == None \notin FileSet /\ None \notin PipeEnds
BY Zenon, FilesAssumption DEF FileSet, PipeEnds, Kinds

(* What a slot holds is a file or nothing.                                 *)
LEMMA SlotType ==
  ASSUME NEW l \in Slots(FileSet), NEW i
  PROVE  Get(l, i) \in FileSet \cup {None}
<1>1. l.data \in Seq(FileSet \cup {None}) /\ Len(l.data) \in Nat
  BY DEF Slots
<1>2. CASE i \in Indices(l)
  <2>1. i + 1 \in 1 .. Len(l.data)
    BY <1>1, <1>2 DEF Indices
  <2>2. l.data[i + 1] \in FileSet \cup {None}
    BY <1>1, <2>1
  <2> QED BY Zenon, <1>2, <2>2 DEF Get
<1>3. CASE i \notin Indices(l)
  BY Zenon, <1>3 DEF Get
<1> QED BY Zenon, <1>2, <1>3

(* The slots in use are finitely many.                                     *)
LEMMA LiveFinite ==
  ASSUME NEW l \in Slots(FileSet)
  PROVE  IsFiniteSet(Live(l)) /\ Cardinality(Live(l)) \in Nat /\ Cardinality(Live(l)) <= Len(l.data)
<1>1. Len(l.data) \in Nat
  BY DEF Slots
<1>2. IsFiniteSet(Indices(l)) /\ Cardinality(Indices(l)) = Len(l.data)
  <2>1. 0 \in Int /\ Len(l.data) - 1 \in Int
    BY <1>1
  <2>2. /\ IsFiniteSet(0 .. (Len(l.data) - 1))
        /\ Cardinality(0 .. (Len(l.data) - 1)) =
             IF 0 > Len(l.data) - 1 THEN 0 ELSE (Len(l.data) - 1) - 0 + 1
    BY Zenon, <2>1, FS_Interval
  <2> QED BY <1>1, <2>2 DEF Indices
<1>3. Live(l) \subseteq Indices(l)
  BY Zenon DEF Live
<1> QED BY Zenon, <1>1, <1>2, <1>3, FS_Subset, FS_CardinalityType

(* A descriptor of kind pipe_r or pipe_w holds a pipe end.                 *)
LEMMA KindOfPipe ==
  ASSUME TypeInv, NEW fd \in Int, Kind(fd) \in PipeKinds
  PROVE  Get(fds, fd) \in PipeEnds /\ Get(fds, fd).pipe \in 1 .. Len(pipes)
<1>1. fds \in Slots(FileSet)
  BY Zenon DEF TypeInv, TypeOK, Slots
<1>2. Get(fds, fd) \in FileSet /\ Get(fds, fd).kind \in PipeKinds
  BY Zenon, <1>1, SlotType DEF Kind, PipeKinds
<1>3. Get(fds, fd) \in PipeEnds
  BY Zenon, <1>2 DEF FileSet, PipeEnds
<1> QED BY Zenon, <1>3 DEF TypeInv, PipeNumbers

(* A delivery moves the position of one pipe, at most to its end.          *)
LEMMA DeliverType ==
  ASSUME pipes \in Seq([len : Nat, pos : Nat]), PosBounded,
         NEW n \in 1 .. Len(pipes), NEW c \in Nat, Deliver(n, c)
  PROVE  pipes' \in Seq([len : Nat, pos : Nat]) /\ Len(pipes') = Len(pipes) /\ PosBounded'
<1> DEFINE a == pipes[n].len - pipes[n].pos
           k == IF c < a THEN c ELSE a
           e == [len |-> pipes[n].len, pos |-> pipes[n].pos + k]
<1> HIDE DEF a, k, e
<1>1. pipes[n] \in [len : Nat, pos : Nat] /\ pipes[n].pos <= pipes[n].len
  <2>1. pipes[n] \in [len : Nat, pos : Nat]
    BY Zenon, ElementOfSeq
  <2> QED BY Zenon, <2>1 DEF PosBounded
<1>2. a \in Nat /\ k \in Nat /\ k <= a
  BY <1>1 DEF a, k
<1>3. e \in [len : Nat, pos : Nat] /\ e.pos <= e.len
  BY SMTT(30), <1>1, <1>2 DEF e, a
<1>4. pipes' = [pipes EXCEPT ![n] = e]
  <2>1. pipes' = [pipes EXCEPT ![n] = [pipes[n] EXCEPT !.pos = pipes[n].pos + k]]
    BY Zenon DEF Deliver, Avail, a, k
  <2>2. [pipes[n] EXCEPT !.pos = pipes[n].pos + k] = e
    BY <1>1 DEF e
  <2> QED BY Zenon, <2>1, <2>2
<1>5. /\ pipes' \in Seq([len : Nat, pos : Nat]) /\ Len(pipes') = Len(pipes)
      /\ \A j \in 1 .. Len(pipes) : pipes'[j] = IF j = n THEN e ELSE pipes[j]
  BY SMTT(30), <1>3, <1>4, ExceptSeq
<1> QED BY Zenon, <1>3, <1>5 DEF PosBounded

(* peak stays a number.                                                    *)
LEMMA PeakType ==
  ASSUME peak \in Nat, NEW l \in Slots(FileSet)
  PROVE  Peak(l) \in Nat /\ Peak(l) >= peak /\ Peak(l) >= Cardinality(Live(l))
<1>1. Cardinality(Live(l)) \in Nat
  BY Zenon, LiveFinite
<1> QED BY <1>1 DEF Peak

-----------------------------------------------------------------------------
(* The invariant holds at the start: the table holds the three streams.    *)
LEMMA TypeInit == Init => TypeInv
<1> SUFFICES ASSUME Init PROVE TypeInv
  BY Zenon
<1> DEFINE sin == File("stdin", 1, 0)
           so == File("stdout", 2, 0)
           se == File("stdout", 3, 0)
<1>1. sin \in FileSet \ PipeEnds /\ so \in FileSet \ PipeEnds /\ se \in FileSet \ PipeEnds
  BY Zenon DEF File, FileSet, PipeEnds, Kinds, PipeKinds, Opened
<1>2. sin # None /\ so # None /\ se # None
  BY Zenon, <1>1, NoneIsNoFile
<1> HIDE DEF sin, so, se
<1>3. fds.data = <<sin, so, se>> /\ fds.free = <<>> /\ fds = [data |-> <<sin, so, se>>, free |-> <<>>]
  BY Zenon DEF Init, Stdio, sin, so, se
<1>4. Len(fds.data) = 3 /\ fds.data[1] = sin /\ fds.data[2] = so /\ fds.data[3] = se
  BY Zenon, <1>3
<1>5. fds \in Slots(FileSet)
  BY <1>1, <1>3 DEF Slots
<1>6. Indices(fds) = 0 .. 2 /\ Live(fds) = 0 .. 2
  BY <1>2, <1>4 DEF Indices, Live
<1>7. WellFormed(fds)
  BY <1>3, <1>6 DEF WellFormed
<1>8. PipeNumbers
  BY <1>1, <1>4, <1>6, NoneIsNoFile DEF PipeNumbers, Get
<1>9. pipes \in Seq([len : Nat, pos : Nat]) /\ Len(pipes) = 0 /\ PosBounded
  BY DEF Init, PosBounded
<1>10. parked \in [Procs -> 0 .. Len(pipes)]
  BY <1>9 DEF Init
<1>11. held \in [Procs -> SUBSET (Nat \X FileSet)]
  <2>1. Stdio[1] = sin /\ Stdio[2] = so /\ Stdio[3] = se
    BY Zenon DEF Stdio, sin, so, se
  <2>2. \A i \in 1 .. 3 : i - 1 \in Nat /\ Stdio[i] \in FileSet
    BY <1>1, <2>1
  <2>3. {<<i - 1, Stdio[i]>> : i \in 1 .. 3} \in SUBSET (Nat \X FileSet)
    BY <2>2
  <2> HIDE DEF Init
  <2>4. held = [p \in Procs |-> IF p = Root THEN {<<i - 1, Stdio[i]>> : i \in 1 .. 3} ELSE {}]
    BY Zenon DEF Init
  <2> QED BY Zenon, <2>3, <2>4
<1>12. alive \in SUBSET Procs /\ panicked \in BOOLEAN /\ count \in Nat /\ peak \in Nat /\ revoked \in SUBSET (Nat \X FileSet)
  BY Zenon, DescriptorsAssumption DEF Init
<1> QED BY Zenon, <1>5, <1>7, <1>8, <1>9, <1>10, <1>11, <1>12 DEF TypeInv, TypeOK, Slots

(* Every step keeps the invariant.                                         *)
LEMMA TypeStep == TypeInv /\ [Next]_vars => TypeInv'
<1> SUFFICES ASSUME TypeInv, [Next]_vars PROVE TypeInv'
  BY Zenon
<1>1. /\ fds \in Slots(FileSet) /\ WellFormed(fds)
      /\ pipes \in Seq([len : Nat, pos : Nat]) /\ Len(pipes) \in Nat
      /\ parked \in [Procs -> 0 .. Len(pipes)]
      /\ alive \in SUBSET Procs /\ panicked \in BOOLEAN /\ count \in Nat /\ peak \in Nat
      /\ held \in [Procs -> SUBSET (Nat \X FileSet)]
      /\ revoked \in SUBSET (Nat \X FileSet)
      /\ PipeNumbers /\ PosBounded
  BY DEF TypeInv, TypeOK, Slots
<1>2. None \notin FileSet /\ None \notin PipeEnds
  BY Zenon, NoneIsNoFile
<1>3. ASSUME NEW p \in Procs, NEW k \in OpenKinds, OpenAt(p, k)
      PROVE  TypeInv'
  <2> DEFINE f == File(k, count + 1, 0)
  <2>1. f \in FileSet \ PipeEnds
    BY <1>1, OpenedFile
  <2> HIDE DEF f
  <2>2. fds' = Insert(fds, f) /\ peak' = Peak(fds')
    BY Zenon, <1>3 DEF OpenAt, f
  <2>3. fds' \in Slots(FileSet) /\ WellFormed(fds') /\ NextIndex(fds) \in Nat
    BY Zenon, <1>1, <1>2, <2>1, <2>2, InsertSlots, InsertWellFormed, NextIndexFree
  <2>4. peak' \in Nat
    BY Zenon, <1>1, <2>2, <2>3, PeakType
  <2>5. held' \in [Procs -> SUBSET (Nat \X FileSet)]
    <3>1. held' = [held EXCEPT ![p] = held[p] \cup {<<NextIndex(fds), f>>}]
      BY Zenon, <1>3 DEF OpenAt, f
    <3>2. held[p] \cup {<<NextIndex(fds), f>>} \in SUBSET (Nat \X FileSet)
      BY <1>1, <2>1, <2>3
    <3> QED BY Zenon, <1>1, <3>1, <3>2
  <2>6. PipeNumbers'
    <3>1. Get(fds', NextIndex(fds)) = f /\ \A i \in Int : i # NextIndex(fds) => Get(fds', i) = Get(fds, i)
      BY <1>1, <1>2, <2>1, <2>2, InsertSlots
    <3>2. pipes' = pipes
      BY Zenon, <1>3 DEF OpenAt
    <3> QED BY Zenon, <1>1, <2>1, <3>1, <3>2 DEF PipeNumbers
  <2>7. UNCHANGED <<pipes, parked, alive, panicked, revoked>> /\ count' \in Nat
    BY <1>1, <1>3 DEF OpenAt
  <2>8. PosBounded'
    BY Zenon, <1>1, <2>7 DEF PosBounded
  <2> QED BY Zenon, <1>1, <2>3, <2>4, <2>5, <2>6, <2>7, <2>8 DEF TypeInv, TypeOK, Slots
<1>4. ASSUME NEW p \in Procs, Pipe2(p)
      PROVE  TypeInv'
  <2> DEFINE n == Len(pipes) + 1
             r == File("pipe_r", count + 1, n)
             w == File("pipe_w", count + 2, n)
             half == Insert(fds, r)
  <2>1. n \in Nat /\ r \in FileSet /\ w \in FileSet /\ r.pipe = n /\ w.pipe = n
    BY <1>1, PipeFile DEF PipeKinds
  <2> HIDE DEF n, r, w
  <2>2. /\ half \in Slots(FileSet) /\ WellFormed(half) /\ NextIndex(fds) \in Nat
        /\ Get(half, NextIndex(fds)) = r
        /\ \A i \in Int : i # NextIndex(fds) => Get(half, i) = Get(fds, i)
    BY <1>1, <1>2, <2>1, InsertSlots, InsertWellFormed, NextIndexFree
  <2>3. fds' = Insert(half, w) /\ peak' = Peak(fds') /\ pipes' = Append(pipes, [len |-> 0, pos |-> 0])
    BY Zenon, <1>4 DEF Pipe2, n, r, w
  <2>4. held' = [held EXCEPT ![p] = held[p] \cup {<<NextIndex(fds), r>>, <<NextIndex(half), w>>}]
    BY Zenon, <1>4 DEF Pipe2, n, r, w
  <2> HIDE DEF half
  <2>5. /\ fds' \in Slots(FileSet) /\ WellFormed(fds') /\ NextIndex(half) \in Nat
        /\ Get(fds', NextIndex(half)) = w
        /\ \A i \in Int : i # NextIndex(half) => Get(fds', i) = Get(half, i)
    BY <1>2, <2>1, <2>2, <2>3, InsertSlots, InsertWellFormed, NextIndexFree
  <2>6. peak' \in Nat
    BY Zenon, <1>1, <2>3, <2>5, PeakType
  <2>7. held' \in [Procs -> SUBSET (Nat \X FileSet)]
    <3>1. held[p] \cup {<<NextIndex(fds), r>>, <<NextIndex(half), w>>} \in SUBSET (Nat \X FileSet)
      BY <1>1, <2>1, <2>2, <2>5
    <3> QED BY Zenon, <1>1, <2>4, <3>1
  <2>8. /\ pipes' \in Seq([len : Nat, pos : Nat]) /\ Len(pipes') = n
        /\ pipes'[n] = [len |-> 0, pos |-> 0]
        /\ \A j \in 1 .. Len(pipes) : pipes'[j] = pipes[j]
    <3>1. [len |-> 0, pos |-> 0] \in [len : Nat, pos : Nat]
      BY Zenon
    <3> QED BY <1>1, <2>3, <3>1, AppendProperties DEF n
  <2>9. PosBounded'
    <3> SUFFICES ASSUME NEW j \in 1 .. n PROVE pipes'[j].pos <= pipes'[j].len
      BY Zenon, <2>8 DEF PosBounded
    <3>1. CASE j = n
      BY <2>8, <3>1
    <3>2. CASE j \in 1 .. Len(pipes)
      BY Zenon, <1>1, <2>8, <3>2 DEF PosBounded
    <3> QED BY <1>1, <3>1, <3>2 DEF n
  <2>10. PipeNumbers'
    <3> SUFFICES ASSUME NEW i \in Int, Get(fds', i) \in PipeEnds PROVE Get(fds', i).pipe \in 1 .. n
      BY Zenon, <2>8 DEF PipeNumbers
    <3>1. n \in 1 .. n /\ 1 .. Len(pipes) \subseteq 1 .. n
      BY <1>1 DEF n
    <3>2. CASE i = NextIndex(half)
      BY Zenon, <2>1, <2>5, <3>1, <3>2
    <3>3. CASE i # NextIndex(half) /\ i = NextIndex(fds)
      BY Zenon, <2>1, <2>2, <2>5, <3>1, <3>3
    <3>4. CASE i # NextIndex(half) /\ i # NextIndex(fds)
      BY Zenon, <1>1, <2>2, <2>5, <3>1, <3>4 DEF PipeNumbers
    <3> QED BY Zenon, <3>2, <3>3, <3>4
  <2>11. UNCHANGED <<parked, alive, panicked, revoked>> /\ count' \in Nat
    BY <1>1, <1>4 DEF Pipe2
  <2>12. parked' \in [Procs -> 0 .. Len(pipes')]
    <3>1. 0 .. Len(pipes) \subseteq 0 .. n
      BY <1>1 DEF n
    <3> QED BY Zenon, <1>1, <2>8, <2>11, <3>1
  <2> QED BY Zenon, <1>1, <2>5, <2>6, <2>7, <2>8, <2>9, <2>10, <2>11, <2>12 DEF TypeInv, TypeOK, Slots
<1>5. ASSUME NEW p \in Procs, NEW fd \in Fds, Close(p, fd)
      PROVE  TypeInv'
  <2>1. fd \in Int
    BY Zenon, DescriptorsAssumption
  <2>2. fds' = fds \/ fds' = Remove(fds, fd)
    BY Zenon, <1>5 DEF Close
  <2>3. fds' \in Slots(FileSet) /\ WellFormed(fds')
    BY SMTT(30), <1>1, <1>2, <2>1, <2>2, RemoveSlots, RemoveWellFormed
  <2>4. \A i \in Int : Get(fds', i) = Get(fds, i) \/ Get(fds', i) = None
    BY <1>1, <1>2, <2>1, <2>2, RemoveSlots
  <2>5. UNCHANGED <<pipes, parked, alive, count, peak>>
    BY Zenon, <1>5 DEF Close
  <2>6. PipeNumbers' /\ PosBounded'
    BY Zenon, <1>1, <1>2, <2>4, <2>5 DEF PipeNumbers, PosBounded
  <2>7. revoked' \in SUBSET (Nat \X FileSet)
    <3>1. HeldElsewhere(p, fd) \subseteq Nat \X FileSet
      BY <1>1 DEF HeldElsewhere
    <3> QED BY Zenon, <1>1, <1>5, <3>1 DEF Close
  <2>8. held' \in [Procs -> SUBSET (Nat \X FileSet)]
    <3>1. held' = [held EXCEPT ![p] = {h \in held[p] : h[1] # fd}]
      BY Zenon, <1>5 DEF Close
    <3>2. {h \in held[p] : h[1] # fd} \in SUBSET (Nat \X FileSet)
      BY Zenon, <1>1
    <3> QED BY Zenon, <1>1, <3>1, <3>2
  <2>9. panicked' \in BOOLEAN
    BY Zenon, <1>5 DEF Close
  <2> QED BY Zenon, <1>1, <2>3, <2>5, <2>6, <2>7, <2>8, <2>9 DEF TypeInv, TypeOK, Slots
<1>6. ASSUME NEW p \in Procs, NEW fd \in Fds, NEW c \in 1 .. MaxBytes, Read(p, fd, c)
      PROVE  TypeInv'
  <2> DEFINE n == Get(fds, fd).pipe
  <2>1. n \in 1 .. Len(pipes)
    BY Zenon, <1>6, KindOfPipe, DescriptorsAssumption DEF Read, PipeKinds
  <2>2. c \in Nat
    BY DescriptorsAssumption
  <2>3. UNCHANGED <<fds, alive, panicked, count, held, revoked, peak>>
    BY Zenon, <1>6 DEF Read
  <2>4. CASE Deliver(n, c) /\ UNCHANGED parked
    <3>1. pipes' \in Seq([len : Nat, pos : Nat]) /\ Len(pipes') = Len(pipes) /\ PosBounded'
      BY Zenon, <1>1, <2>1, <2>2, <2>4, DeliverType
    <3>2. PipeNumbers'
      BY Zenon, <1>1, <2>3, <3>1 DEF PipeNumbers
    <3> QED BY Zenon, <1>1, <2>3, <2>4, <3>1, <3>2 DEF TypeInv, TypeOK, Slots
  <2>5. CASE parked' = [parked EXCEPT ![p] = n] /\ UNCHANGED <<pipes, got>>
    <3>1. parked' \in [Procs -> 0 .. Len(pipes)]
      BY <1>1, <2>1, <2>5
    <3>2. PipeNumbers' /\ PosBounded'
      BY Zenon, <1>1, <2>3, <2>5 DEF PipeNumbers, PosBounded
    <3> QED BY Zenon, <1>1, <2>3, <2>5, <3>1, <3>2 DEF TypeInv, TypeOK, Slots
  <2> QED BY Zenon, <1>6, <2>4, <2>5 DEF Read
<1>7. ASSUME NEW p \in Procs, NEW c \in 1 .. MaxBytes, Resume(p, c)
      PROVE  TypeInv'
  <2>1. parked[p] \in 1 .. Len(pipes) /\ c \in Nat
    BY <1>1, <1>7, DescriptorsAssumption DEF Resume
  <2>2. pipes' \in Seq([len : Nat, pos : Nat]) /\ Len(pipes') = Len(pipes) /\ PosBounded'
    BY Zenon, <1>1, <1>7, <2>1, DeliverType DEF Resume
  <2>3. UNCHANGED <<fds, alive, panicked, count, held, revoked, peak>> /\ parked' = [parked EXCEPT ![p] = 0]
    BY Zenon, <1>7 DEF Resume
  <2>4. parked' \in [Procs -> 0 .. Len(pipes')]
    BY <1>1, <2>2, <2>3
  <2>5. PipeNumbers'
    BY Zenon, <1>1, <2>2, <2>3 DEF PipeNumbers
  <2> QED BY Zenon, <1>1, <2>2, <2>3, <2>4, <2>5 DEF TypeInv, TypeOK, Slots
<1>8. ASSUME NEW p \in Procs, NEW fd \in Fds, NEW c \in 1 .. MaxBytes, Write(p, fd, c)
      PROVE  TypeInv'
  <2> DEFINE n == Get(fds, fd).pipe
             e == [len |-> pipes[n].len + c, pos |-> pipes[n].pos]
  <2>1. n \in 1 .. Len(pipes)
    BY Zenon, <1>8, KindOfPipe, DescriptorsAssumption DEF Write, PipeKinds
  <2> HIDE DEF n
  <2>2. c \in Nat /\ pipes[n] \in [len : Nat, pos : Nat] /\ pipes[n].pos <= pipes[n].len
    <3>1. pipes[n] \in [len : Nat, pos : Nat]
      BY Zenon, <1>1, <2>1, ElementOfSeq
    <3> QED BY SMTT(30), <1>1, <2>1, <3>1, DescriptorsAssumption DEF PosBounded
  <2>3. e \in [len : Nat, pos : Nat] /\ e.pos <= e.len
    BY <2>2
  <2>4. pipes' = [pipes EXCEPT ![n] = e]
    <3>1. pipes' = [pipes EXCEPT ![n] = [pipes[n] EXCEPT !.len = pipes[n].len + c]]
      BY Zenon, <1>8 DEF Write, n
    <3>2. [pipes[n] EXCEPT !.len = pipes[n].len + c] = e
      BY <2>2
    <3> QED BY Zenon, <3>1, <3>2
  <2> HIDE DEF e
  <2>5. /\ pipes' \in Seq([len : Nat, pos : Nat]) /\ Len(pipes') = Len(pipes)
        /\ \A j \in 1 .. Len(pipes) : pipes'[j] = IF j = n THEN e ELSE pipes[j]
    BY SMTT(30), <1>1, <2>1, <2>3, <2>4, ExceptSeq
  <2>6. PosBounded'
    BY Zenon, <1>1, <2>3, <2>5 DEF PosBounded
  <2>7. UNCHANGED <<fds, parked, alive, panicked, count, held, revoked, peak>>
    BY Zenon, <1>8 DEF Write, ghosts
  <2>8. PipeNumbers'
    BY Zenon, <1>1, <2>5, <2>7 DEF PipeNumbers
  <2> QED BY Zenon, <1>1, <2>5, <2>6, <2>7, <2>8 DEF TypeInv, TypeOK, Slots
<1>9. ASSUME NEW p \in Procs, NEW op, NEW fd \in Fds, Panic(p, op, fd)
      PROVE  TypeInv'
  <2>1. UNCHANGED <<fds, pipes, parked, alive, count, held, revoked, peak>> /\ panicked' = TRUE
    BY Zenon, <1>9 DEF Panic, ghosts
  <2> QED BY Zenon, <1>1, <2>1 DEF TypeInv, TypeOK, Slots, PipeNumbers, PosBounded
<1>10. ASSUME NEW p \in Procs, NEW c \in Procs, Fork(p, c)
       PROVE  TypeInv'
  <2>1. UNCHANGED <<fds, pipes, parked, panicked, count, revoked, peak>>
    BY Zenon, <1>10 DEF Fork
  <2>2. alive' \in SUBSET Procs /\ held' \in [Procs -> SUBSET (Nat \X FileSet)]
    BY Zenon, <1>1, <1>10 DEF Fork
  <2> QED BY SMTT(30), <1>1, <2>1, <2>2 DEF TypeInv, TypeOK, Slots, PipeNumbers, PosBounded
<1>11. ASSUME NEW p \in Procs, Exit(p)
       PROVE  TypeInv'
  <2>1. UNCHANGED <<fds, pipes, parked, panicked, count, revoked, peak>>
    BY Zenon, <1>11 DEF Exit
  <2>2. alive' \in SUBSET Procs /\ held' \in [Procs -> SUBSET (Nat \X FileSet)]
    BY SMTT(30), <1>1, <1>11 DEF Exit
  <2> QED BY Zenon, <1>1, <2>1, <2>2 DEF TypeInv, TypeOK, Slots, PipeNumbers, PosBounded
<1>12. CASE UNCHANGED vars
  BY Zenon, <1>1, <1>12 DEF vars, ghosts, TypeInv, TypeOK, Slots, PipeNumbers, PosBounded
<1> QED BY Zenon, <1>3, <1>4, <1>5, <1>6, <1>7, <1>8, <1>9, <1>10, <1>11, <1>12 DEF Next

(* The table stays well formed and every variable keeps its type, for any  *)
(* number of processes, files and bytes.                                   *)
THEOREM DescriptorsTypeCorrect == Spec => []TypeOK
<1>1. TypeInv => TypeOK
  BY Zenon DEF TypeInv
<1> QED BY <1>1, TypeInit, TypeStep, PTL DEF Spec

-----------------------------------------------------------------------------
(***************************************************************************)
(* What the guest relies on, proved for every number of processes, files   *)
(* and bytes: descriptors are stable, pipe ends are kept, numbers are      *)
(* reused before the table grows, and the table implements FdTable.        *)
(***************************************************************************)

(* The type facts the proofs below use.                                    *)
LEMMA TypeFacts ==
  ASSUME TypeInv
  PROVE  /\ fds \in Slots(FileSet) /\ WellFormed(fds)
         /\ count \in Nat /\ peak \in Nat /\ Len(pipes) \in Nat
         /\ held \in [Procs -> SUBSET (Nat \X FileSet)]
         /\ None \notin FileSet /\ None \notin PipeEnds
BY NoneIsNoFile DEF TypeInv, TypeOK, Slots

(* What a step does to the table: nothing, one insertion of a file, two    *)
(* insertions of pipe ends, or one removal of a file that is no pipe end.  *)
LEMMA TableSteps ==
  ASSUME TypeInv, [Next]_vars
  PROVE  \/ UNCHANGED fds
         \/ \E p \in Procs, k \in OpenKinds : OpenAt(p, k)
         \/ \E p \in Procs : Pipe2(p)
         \/ \E p \in Procs, fd \in Fds : Close(p, fd)
<1>1. ASSUME NEW p \in Procs, NEW fd \in Fds, NEW c \in 1 .. MaxBytes, Read(p, fd, c) \/ Write(p, fd, c)
      PROVE  UNCHANGED fds
  BY Zenon, <1>1 DEF Read, Write
<1>2. ASSUME NEW p \in Procs, NEW op, NEW fd \in Fds, Panic(p, op, fd)
      PROVE  UNCHANGED fds
  BY Zenon, <1>2 DEF Panic
<1>3. ASSUME NEW p \in Procs, NEW c, Resume(p, c) \/ Fork(p, c)
      PROVE  UNCHANGED fds
  BY Zenon, <1>3 DEF Resume, Fork
<1>4. ASSUME NEW p \in Procs, Exit(p)
      PROVE  UNCHANGED fds
  BY Zenon, <1>4 DEF Exit
<1>5. CASE UNCHANGED vars
  BY Zenon, <1>5 DEF vars
<1> QED BY Zenon, <1>1, <1>2, <1>3, <1>4, <1>5 DEF Next

-----------------------------------------------------------------------------
(* What the two inductive arguments below share: after a step other than a *)
(* close, a slot that held a file still holds it.                          *)
LEMMA SlotsKept ==
  ASSUME TypeInv, [Next]_vars, ~ \E p \in Procs, fd \in Fds : Close(p, fd), NEW i \in Int, Get(fds, i) # None
  PROVE  Get(fds', i) = Get(fds, i)
<1>1. fds \in Slots(FileSet) /\ WellFormed(fds) /\ count \in Nat /\ Len(pipes) \in Nat /\ None \notin FileSet
  BY Zenon, TypeFacts
<1>2. CASE UNCHANGED fds
  BY Zenon, <1>2
<1>3. ASSUME NEW p \in Procs, NEW k \in OpenKinds, OpenAt(p, k)
      PROVE  Get(fds', i) = Get(fds, i)
  <2> DEFINE f == File(k, count + 1, 0)
  <2>1. f \in FileSet
    BY <1>1, OpenedFile
  <2>2. fds' = Insert(fds, f)
    BY Zenon, <1>3 DEF OpenAt
  <2> HIDE DEF f
  <2> QED BY <1>1, <2>1, <2>2, InsertSlots, NextIndexFree
<1>4. ASSUME NEW p \in Procs, Pipe2(p)
      PROVE  Get(fds', i) = Get(fds, i)
  <2> DEFINE n == Len(pipes) + 1
             r == File("pipe_r", count + 1, n)
             w == File("pipe_w", count + 2, n)
             half == Insert(fds, r)
  <2>1. r \in FileSet /\ w \in FileSet
    BY <1>1, PipeFile DEF PipeKinds
  <2>2. fds' = Insert(half, w)
    BY Zenon, <1>4 DEF Pipe2
  <2> HIDE DEF r, w
  <2>3. half \in Slots(FileSet) /\ WellFormed(half)
    BY Zenon, <1>1, <2>1, InsertSlots, InsertWellFormed
  <2>4. Get(half, i) = Get(fds, i)
    BY <1>1, <2>1, InsertSlots, NextIndexFree
  <2> HIDE DEF half
  <2> QED BY <1>1, <2>1, <2>2, <2>3, <2>4, InsertSlots, NextIndexFree
<1> QED BY Zenon, <1>2, <1>3, <1>4, TableSteps

(* What a process holds after a step: what it held, what its parent held,  *)
(* or what the step has just put into the table.                           *)
LEMMA HeldSteps ==
  ASSUME TypeInv, [Next]_vars, NEW q \in Procs, NEW h \in held'[q]
  PROVE  \/ \E p \in Procs : h \in held[p]
         \/ Get(fds', h[1]) = h[2]
<1>1. /\ fds \in Slots(FileSet) /\ WellFormed(fds) /\ count \in Nat /\ Len(pipes) \in Nat
      /\ held \in [Procs -> SUBSET (Nat \X FileSet)] /\ None \notin FileSet
  BY Zenon, TypeFacts
<1>2. ASSUME NEW p \in Procs, NEW k \in OpenKinds, OpenAt(p, k)
      PROVE  h \in held[q] \/ Get(fds', h[1]) = h[2]
  <2> DEFINE f == File(k, count + 1, 0)
  <2>1. f \in FileSet
    BY <1>1, OpenedFile
  <2>2. fds' = Insert(fds, f) /\ held' = [held EXCEPT ![p] = held[p] \cup {<<NextIndex(fds), f>>}]
    BY Zenon, <1>2 DEF OpenAt
  <2> HIDE DEF f
  <2>3. h \in held[q] \/ h = <<NextIndex(fds), f>>
    BY Zenon, <1>1, <2>2
  <2>4. Get(fds', NextIndex(fds)) = f
    BY <1>1, <2>1, <2>2, InsertSlots
  <2> QED BY <2>3, <2>4
<1>3. ASSUME NEW p \in Procs, Pipe2(p)
      PROVE  h \in held[q] \/ Get(fds', h[1]) = h[2]
  <2> DEFINE n == Len(pipes) + 1
             r == File("pipe_r", count + 1, n)
             w == File("pipe_w", count + 2, n)
             half == Insert(fds, r)
  <2>1. r \in FileSet /\ w \in FileSet
    BY <1>1, PipeFile DEF PipeKinds
  <2>2. /\ fds' = Insert(half, w)
        /\ held' = [held EXCEPT ![p] = held[p] \cup {<<NextIndex(fds), r>>, <<NextIndex(half), w>>}]
    BY Zenon, <1>3 DEF Pipe2
  <2> HIDE DEF r, w
  <2>3. /\ half \in Slots(FileSet) /\ WellFormed(half) /\ Get(half, NextIndex(fds)) = r
        /\ NextIndex(fds) \in Nat
    BY <1>1, <2>1, InsertSlots, InsertWellFormed, NextIndexFree
  <2> HIDE DEF half
  <2>4. h \in held[q] \/ h = <<NextIndex(fds), r>> \/ h = <<NextIndex(half), w>>
    BY Zenon, <1>1, <2>2
  <2>5. Get(fds', NextIndex(half)) = w
    BY <1>1, <2>1, <2>2, <2>3, InsertSlots
  <2>6. Get(fds', NextIndex(fds)) = r
    <3>1. r # None
      BY Zenon, <1>1, <2>1
    <3> QED BY <1>1, <2>1, <2>2, <2>3, <3>1, InsertSlots, NextIndexFree
  <2> QED BY <2>4, <2>5, <2>6
<1>4. ASSUME NEW p \in Procs, NEW fd \in Fds, Close(p, fd)
      PROVE  h \in held[q]
  BY Zenon, <1>1, <1>4 DEF Close
<1>5. ASSUME NEW p \in Procs, NEW c \in Procs, Fork(p, c)
      PROVE  h \in held[q] \/ h \in held[p]
  BY Zenon, <1>1, <1>5 DEF Fork
<1>6. ASSUME NEW p \in Procs, Exit(p)
      PROVE  h \in held[q]
  BY Zenon, <1>1, <1>6 DEF Exit
<1>7. ASSUME NEW p \in Procs, NEW fd \in Fds, NEW c \in 1 .. MaxBytes, Read(p, fd, c) \/ Write(p, fd, c)
      PROVE  h \in held[q]
  BY Zenon, <1>7 DEF Read, Write, ghosts
<1>8. ASSUME NEW p \in Procs, NEW op, NEW fd \in Fds, Panic(p, op, fd)
      PROVE  h \in held[q]
  BY Zenon, <1>8 DEF Panic, ghosts
<1>9. ASSUME NEW p \in Procs, NEW c, Resume(p, c)
      PROVE  h \in held[q]
  BY Zenon, <1>9 DEF Resume
<1>10. CASE UNCHANGED vars
  BY Zenon, <1>10 DEF vars, ghosts
<1> QED BY Zenon, <1>2, <1>3, <1>4, <1>5, <1>6, <1>7, <1>8, <1>9, <1>10 DEF Next

(* The streams a process starts with are in the table.                     *)
LEMMA InitHeld ==
  ASSUME Init, NEW q \in Procs, NEW h \in held[q]
  PROVE  Get(fds, h[1]) = h[2]
<1>1. PICK i \in 1 .. 3 : h = <<i - 1, Stdio[i]>>
  BY Zenon DEF Init
<1>2. fds.data = Stdio /\ Len(Stdio) = 3
  BY Zenon DEF Init, Stdio
<1>3. i - 1 \in Indices(fds) /\ (i - 1) + 1 = i
  BY <1>2 DEF Indices
<1>4. Get(fds, i - 1) = Stdio[i]
  BY Zenon, <1>2, <1>3 DEF Get
<1> QED BY Zenon, <1>1, <1>4

(* A close keeps a held descriptor that is not the closed one; the closed  *)
(* one is revoked for every other holder.                                  *)
LEMMA StableStep == TypeInv /\ DescriptorStable /\ [Next]_vars => DescriptorStable'
<1> SUFFICES ASSUME TypeInv, DescriptorStable, [Next]_vars,
                    NEW q \in Procs, NEW h \in held'[q] \ revoked'
             PROVE  Get(fds', h[1]) = h[2]
  BY Zenon DEF DescriptorStable
<1>1. /\ fds \in Slots(FileSet) /\ held \in [Procs -> SUBSET (Nat \X FileSet)] /\ None \notin FileSet
  BY Zenon, TypeFacts
<1>2. ASSUME NEW p \in Procs, NEW fd \in Fds, Close(p, fd)
      PROVE  Get(fds', h[1]) = h[2]
  <2>1. h \in held[q] /\ (q = p => h[1] # fd)
    BY Zenon, <1>1, <1>2 DEF Close
  <2>2. h \notin revoked
    BY Zenon, <1>2 DEF Close
  <2>3. Get(fds, h[1]) = h[2] /\ h[1] \in Nat /\ fd \in Int /\ h = <<h[1], h[2]>>
    BY <1>1, <2>1, <2>2, DescriptorsAssumption DEF DescriptorStable
  <2>4. CASE h[1] # fd
    BY <1>1, <1>2, <2>3, <2>4, RemoveSlots DEF Close
  <2>5. CASE h[1] = fd
    <3>1. h = <<fd, Get(fds, fd)>> /\ q \in Procs \ {p}
      BY Zenon, <2>1, <2>3, <2>5
    <3>2. h \in HeldElsewhere(p, fd)
      BY Zenon, <2>1, <3>1 DEF HeldElsewhere
    <3>3. fds' = fds
      BY Zenon, <1>2, <3>2 DEF Close
    <3> QED BY Zenon, <2>3, <3>3
  <2> QED BY Zenon, <2>4, <2>5
<1>3. CASE ~ \E p \in Procs, fd \in Fds : Close(p, fd)
  <2>1. revoked' = revoked
    <3>1. ASSUME NEW p \in Procs, NEW k, OpenAt(p, k) \/ Pipe2(p) \/ Fork(p, k) \/ Exit(p) \/ Resume(p, k)
          PROVE  revoked' = revoked
      BY Zenon, <3>1 DEF OpenAt, Pipe2, Fork, Exit, Resume
    <3>2. ASSUME NEW p \in Procs, NEW fd, NEW c, Read(p, fd, c) \/ Write(p, fd, c) \/ Panic(p, c, fd)
          PROVE  revoked' = revoked
      BY Zenon, <3>2 DEF Read, Write, Panic, ghosts
    <3>3. CASE UNCHANGED vars
      BY Zenon, <3>3 DEF vars, ghosts
    <3> QED BY Zenon, <1>3, <3>1, <3>2, <3>3 DEF Next
  <2>2. ASSUME NEW p \in Procs, h \in held[p]
        PROVE  Get(fds', h[1]) = h[2]
    <3>1. Get(fds, h[1]) = h[2] /\ h[1] \in Int /\ h[2] \in FileSet
      BY <1>1, <2>1, <2>2 DEF DescriptorStable
    <3> QED BY Zenon, <1>1, <1>3, <3>1, SlotsKept
  <2> QED BY Zenon, <2>2, HeldSteps
<1> QED BY Zenon, <1>2, <1>3

(* A descriptor a process was given, or inherited, denotes that very file  *)
(* until some process that shares the table closes it: no order of opens,  *)
(* closes, double closes, forks and exits hands its number to another file.*)
THEOREM DescriptorsStable == Spec => []DescriptorStable
<1>1. Init => DescriptorStable
  BY Zenon, InitHeld DEF DescriptorStable
<1> QED BY <1>1, TypeInit, TypeStep, StableStep, PTL DEF Spec

-----------------------------------------------------------------------------
(* No close removes a pipe end.                                            *)
LEMMA KeptStep == TypeInv /\ PipeEndsKept /\ [Next]_vars => PipeEndsKept'
<1> SUFFICES ASSUME TypeInv, PipeEndsKept, [Next]_vars,
                    NEW q \in Procs, NEW h \in held'[q], h[2] \in PipeEnds
             PROVE  Get(fds', h[1]) = h[2]
  BY Zenon DEF PipeEndsKept
<1>1. /\ fds \in Slots(FileSet) /\ held \in [Procs -> SUBSET (Nat \X FileSet)]
      /\ None \notin FileSet /\ None \notin PipeEnds
  BY Zenon, TypeFacts
<1>2. ASSUME NEW p \in Procs, NEW fd \in Fds, Close(p, fd)
      PROVE  Get(fds', h[1]) = h[2]
  <2>1. h \in held[q]
    BY Zenon, <1>1, <1>2 DEF Close
  <2>2. Get(fds, h[1]) = h[2] /\ h[1] \in Int /\ fd \in Int
    BY <1>1, <2>1, DescriptorsAssumption DEF PipeEndsKept
  <2>3. CASE h[1] # fd
    BY <1>1, <1>2, <2>2, <2>3, RemoveSlots DEF Close
  <2>4. CASE h[1] = fd
    <3>1. Kind(fd) \in PipeKinds
      BY Zenon, <1>1, <2>2, <2>4 DEF Kind, PipeEnds
    <3>2. fds' = fds
      BY Zenon, <1>2, <3>1 DEF Close, Removable
    <3> QED BY Zenon, <2>2, <3>2
  <2> QED BY Zenon, <2>3, <2>4
<1>3. CASE ~ \E p \in Procs, fd \in Fds : Close(p, fd)
  <2>1. ASSUME NEW p \in Procs, h \in held[p]
        PROVE  Get(fds', h[1]) = h[2]
    <3>1. Get(fds, h[1]) = h[2] /\ h[1] \in Int
      BY <1>1, <2>1 DEF PipeEndsKept
    <3> QED BY Zenon, <1>1, <1>3, <3>1, SlotsKept
  <2> QED BY Zenon, <2>1, HeldSteps
<1> QED BY Zenon, <1>2, <1>3

(* A process keeps the pipe ends it holds whatever the processes that      *)
(* share the table close.                                                  *)
THEOREM PipeEndsAlwaysKept == Spec => []PipeEndsKept
<1>1. Init => PipeEndsKept
  BY Zenon, InitHeld DEF PipeEndsKept
<1> QED BY <1>1, TypeInit, TypeStep, KeptStep, PTL DEF Spec

-----------------------------------------------------------------------------
(* An insertion that makes the vector longer leaves no slot empty.         *)
LEMMA InsertGrowth ==
  ASSUME NEW l \in Slots(FileSet), WellFormed(l), NEW v \in FileSet
  PROVE  \/ Len(Insert(l, v).data) = Len(l.data)
         \/ Cardinality(Live(Insert(l, v))) = Len(Insert(l, v).data)
<1>1. /\ l.data \in Seq(FileSet \cup {None}) /\ l.free \in Seq(Nat) /\ Len(l.data) \in Nat
      /\ None \notin FileSet
  BY NoneIsNoFile DEF Slots
<1>2. CASE l.free = <<>>
  <2>1. Insert(l, v).data = Append(l.data, v) /\ NextIndex(l) = Len(l.data)
    BY Zenon, <1>2 DEF Insert, NextIndex, Slots
  <2>2. Len(Insert(l, v).data) = Len(l.data) + 1
    BY <1>1, <2>1
  <2>3. Live(l) = Indices(l)
    BY <1>2 DEF WellFormed, Live
  <2>4. Live(Insert(l, v)) = 0 .. Len(l.data)
    <3>1. Live(Insert(l, v)) = Live(l) \cup {NextIndex(l)}
      BY Zenon, <1>1, InsertLive
    <3>2. 0 .. Len(l.data) = (0 .. (Len(l.data) - 1)) \cup {Len(l.data)}
      BY <1>1
    <3> QED BY Zenon, <2>1, <2>3, <3>1, <3>2 DEF Indices
  <2>5. Cardinality(0 .. Len(l.data)) = Len(l.data) + 1
    BY <1>1, FS_Interval
  <2> QED BY Zenon, <2>2, <2>4, <2>5
<1>3. CASE l.free # <<>>
  <2>1. NextIndex(l) + 1 \in 1 .. Len(l.data) /\ NextIndex(l) = Head(l.free)
    BY <1>1, <1>3, NextIndexFree DEF Indices, NextIndex
  <2> QED BY <1>1, <1>3, <2>1, ExceptSeq DEF Insert
<1> QED BY Zenon, <1>2, <1>3

(* peak covers the length of the vector after every step.                  *)
LEMMA GrowthStep == TypeInv /\ ReusedBeforeGrowth /\ [Next]_vars => ReusedBeforeGrowth'
<1> SUFFICES ASSUME TypeInv, ReusedBeforeGrowth, [Next]_vars PROVE Len(fds'.data) <= peak'
  BY Zenon DEF ReusedBeforeGrowth
<1>1. /\ fds \in Slots(FileSet) /\ WellFormed(fds) /\ count \in Nat /\ peak \in Nat /\ Len(pipes) \in Nat
      /\ None \notin FileSet /\ Len(fds.data) \in Nat /\ Len(fds.data) <= peak
  BY TypeFacts DEF Slots, ReusedBeforeGrowth
<1>2. ASSUME NEW p \in Procs, NEW k \in OpenKinds, OpenAt(p, k)
      PROVE  Len(fds'.data) <= peak'
  <2> DEFINE f == File(k, count + 1, 0)
  <2>1. f \in FileSet
    BY <1>1, OpenedFile
  <2>2. fds' = Insert(fds, f) /\ peak' = Peak(fds')
    BY Zenon, <1>2 DEF OpenAt
  <2> HIDE DEF f
  <2>3. fds' \in Slots(FileSet)
    BY Zenon, <1>1, <2>1, <2>2, InsertSlots
  <2>4. peak' \in Nat /\ peak' >= peak /\ peak' >= Cardinality(Live(fds'))
    BY Zenon, <1>1, <2>2, <2>3, PeakType
  <2>5. Len(fds'.data) = Len(fds.data) \/ Cardinality(Live(fds')) = Len(fds'.data)
    BY Zenon, <1>1, <2>1, <2>2, InsertGrowth
  <2>6. Len(fds'.data) \in Nat
    BY <2>3 DEF Slots
  <2> QED BY <1>1, <2>4, <2>5, <2>6
<1>3. ASSUME NEW p \in Procs, Pipe2(p)
      PROVE  Len(fds'.data) <= peak'
  <2> DEFINE n == Len(pipes) + 1
             r == File("pipe_r", count + 1, n)
             w == File("pipe_w", count + 2, n)
             half == Insert(fds, r)
  <2>1. r \in FileSet /\ w \in FileSet
    BY <1>1, PipeFile DEF PipeKinds
  <2>2. fds' = Insert(half, w) /\ peak' = Peak(fds')
    BY Zenon, <1>3 DEF Pipe2
  <2> HIDE DEF r, w
  <2>3. /\ half \in Slots(FileSet) /\ WellFormed(half)
        /\ Len(half.data) = Len(fds.data) \/ Cardinality(Live(half)) = Len(half.data)
    BY Zenon, <1>1, <2>1, InsertSlots, InsertWellFormed, InsertGrowth
  <2> HIDE DEF half
  <2>4. fds' \in Slots(FileSet) /\ Live(fds') = Live(half) \cup {NextIndex(half)}
    BY Zenon, <1>1, <2>1, <2>2, <2>3, InsertSlots, InsertLive
  <2>5. peak' \in Nat /\ peak' >= peak /\ peak' >= Cardinality(Live(fds'))
    BY Zenon, <1>1, <2>2, <2>4, PeakType
  <2>6. Len(fds'.data) = Len(half.data) \/ Cardinality(Live(fds')) = Len(fds'.data)
    BY Zenon, <1>1, <2>1, <2>2, <2>3, InsertGrowth
  <2>7. Cardinality(Live(half)) <= Cardinality(Live(fds'))
    BY Zenon, <2>4, LiveFinite, FS_Subset
  <2>8. /\ Len(fds'.data) \in Nat /\ Len(half.data) \in Nat
        /\ Cardinality(Live(half)) \in Nat /\ Cardinality(Live(fds')) \in Nat
    <3>1. Len(fds'.data) \in Nat /\ Len(half.data) \in Nat
      BY <2>3, <2>4 DEF Slots
    <3>2. Cardinality(Live(half)) \in Nat
      BY Zenon, <2>3, LiveFinite
    <3>3. Cardinality(Live(fds')) \in Nat
      BY Zenon, <2>4, LiveFinite
    <3> QED BY Zenon, <3>1, <3>2, <3>3
  <2> QED BY <1>1, <2>3, <2>5, <2>6, <2>7, <2>8
<1>4. ASSUME NEW p \in Procs, NEW fd \in Fds, Close(p, fd)
      PROVE  Len(fds'.data) <= peak'
  <2>1. peak' = peak /\ (fds' = fds \/ fds' = Remove(fds, fd)) /\ fd \in Int
    BY Zenon, <1>4, DescriptorsAssumption DEF Close
  <2> QED BY <1>1, <2>1, RemoveSlots
<1>5. ASSUME NEW p \in Procs, NEW k, Fork(p, k) \/ Exit(p) \/ Resume(p, k)
      PROVE  UNCHANGED <<fds, peak>>
  BY Zenon, <1>5 DEF Fork, Exit, Resume
<1>6. ASSUME NEW p \in Procs, NEW fd, NEW c, Read(p, fd, c) \/ Write(p, fd, c) \/ Panic(p, c, fd)
      PROVE  UNCHANGED <<fds, peak>>
  BY Zenon, <1>6 DEF Read, Write, Panic, ghosts
<1>7. CASE UNCHANGED vars
  BY Zenon, <1>1, <1>7 DEF vars, ghosts
<1> QED BY Zenon, <1>1, <1>2, <1>3, <1>4, <1>5, <1>6, <1>7 DEF Next

(* The table never grows past the largest number of files that were open   *)
(* at one time.                                                            *)
THEOREM NumbersReused == Spec => []ReusedBeforeGrowth
<1>1. Init => ReusedBeforeGrowth
  BY DEF Init, Stdio, ReusedBeforeGrowth
<1> QED BY <1>1, TypeInit, TypeStep, GrowthStep, PTL DEF Spec

-----------------------------------------------------------------------------
(* The abstract table of FdTable is the map from the slots in use to their *)
(* files.                                                                  *)
TableOf(l) == [i \in Live(l) |-> Get(l, i)]

(* A slot in use holds a file.                                             *)
LEMMA LiveSlots ==
  ASSUME NEW l \in Slots(FileSet)
  PROVE  /\ Live(l) \subseteq Nat
         /\ \A i \in Int : i \in Live(l) <=> Get(l, i) # None
         /\ \A i \in Live(l) : Get(l, i) \in FileSet
<1>1. Len(l.data) \in Nat
  BY DEF Slots
<1>2. Live(l) \subseteq Nat
  BY <1>1 DEF Live, Indices
<1>3. \A i \in Int : i \in Live(l) <=> Get(l, i) # None
  BY Zenon DEF Live, Get, Indices
<1>4. \A i \in Live(l) : Get(l, i) \in FileSet
  BY <1>2, <1>3, SlotType
<1> QED BY Zenon, <1>2, <1>3, <1>4

(* The three streams are an initial table.                                 *)
LEMMA TableInit == Init => Table!Init
<1> SUFFICES ASSUME Init PROVE Table!Init
  BY Zenon
<1>1. TypeInv /\ fds \in Slots(FileSet) /\ None \notin FileSet
  BY Zenon, TypeInit, TypeFacts
<1>2. fds.data = Stdio /\ Len(Stdio) = 3
  BY Zenon DEF Init, Stdio
<1>3. Indices(fds) = 0 .. 2
  BY <1>2 DEF Indices
<1>4. \A i \in 0 .. 2 : Get(fds, i) \in FileSet \ PipeEnds
  <2>1. Stdio[1] \in FileSet \ PipeEnds /\ Stdio[2] \in FileSet \ PipeEnds /\ Stdio[3] \in FileSet \ PipeEnds
    BY Zenon DEF Stdio, File, FileSet, PipeEnds, Kinds, PipeKinds, Opened
  <2>2. Get(fds, 0) = Stdio[1] /\ Get(fds, 1) = Stdio[2] /\ Get(fds, 2) = Stdio[3]
    BY <1>2, <1>3 DEF Get
  <2> QED BY <2>1, <2>2
<1>5. Live(fds) = 0 .. 2
  <2>1. Live(fds) \subseteq 0 .. 2
    BY Zenon, <1>3 DEF Live
  <2>2. \A i \in 0 .. 2 : i \in Live(fds)
    BY <1>1, <1>4, LiveSlots
  <2> QED BY Zenon, <2>1, <2>2
<1> QED BY Zenon, <1>4, <1>5 DEF Table!Init

(* Every step of the system calls is a step of the abstract table.         *)
LEMMA TableStep ==
  TypeInv /\ TypeInv' /\ [Next]_vars => [Table!Next]_(TableOf(fds))
<1> SUFFICES ASSUME TypeInv, TypeInv', [Next]_vars
             PROVE  Table!Next \/ UNCHANGED TableOf(fds)
  BY Zenon
<1>1. /\ fds \in Slots(FileSet) /\ WellFormed(fds) /\ count \in Nat /\ Len(pipes) \in Nat
      /\ None \notin FileSet /\ None \notin PipeEnds
  BY Zenon, TypeFacts
<1>2. CASE UNCHANGED fds
  BY Zenon, <1>2 DEF TableOf
<1>3. ASSUME NEW p \in Procs, NEW k \in OpenKinds, OpenAt(p, k)
      PROVE  Table!Open
  <2> DEFINE f == File(k, count + 1, 0)
             j == NextIndex(fds)
  <2>1. f \in FileSet \ PipeEnds
    BY <1>1, OpenedFile
  <2>2. fds' = Insert(fds, f)
    BY Zenon, <1>3 DEF OpenAt
  <2> HIDE DEF f
  <2>3. Get(fds', j) = f /\ \A i \in Int : i # j => Get(fds', i) = Get(fds, i)
    BY <1>1, <2>1, <2>2, InsertSlots
  <2>4. Live(fds') = Live(fds) \cup {j} /\ j \notin Live(fds) /\ j \in Nat
    BY Zenon, <1>1, <2>1, <2>2, InsertLive, NextIndexFree
  <2>5. Live(fds) \subseteq Nat
    BY Zenon, <1>1, LiveSlots
  <2> HIDE DEF j
  <2>6. Table!Gain({j}, FileSet \ PipeEnds)
    BY <2>1, <2>3, <2>4, <2>5 DEF Table!Gain
  <2> QED BY ZenonT(30), <2>4, <2>6 DEF Table!Open
<1>4. ASSUME NEW p \in Procs, Pipe2(p)
      PROVE  Table!Pipe
  <2> DEFINE n == Len(pipes) + 1
             r == File("pipe_r", count + 1, n)
             w == File("pipe_w", count + 2, n)
             half == Insert(fds, r)
             a == NextIndex(fds)
             b == NextIndex(half)
  <2>1. r \in FileSet /\ w \in FileSet /\ r \in PipeEnds /\ w \in PipeEnds
    BY <1>1, PipeFile DEF PipeKinds
  <2>2. fds' = Insert(half, w)
    BY Zenon, <1>4 DEF Pipe2
  <2> HIDE DEF r, w
  <2>3. /\ half \in Slots(FileSet) /\ WellFormed(half) /\ Get(half, a) = r
        /\ \A i \in Int : i # a => Get(half, i) = Get(fds, i)
        /\ Live(half) = Live(fds) \cup {a} /\ a \notin Live(fds) /\ a \in Nat
    BY SMTT(30), <1>1, <2>1, InsertSlots, InsertWellFormed, InsertLive, NextIndexFree
  <2> HIDE DEF half
  <2>4. /\ Get(fds', b) = w /\ \A i \in Int : i # b => Get(fds', i) = Get(half, i)
        /\ Live(fds') = Live(half) \cup {b} /\ b \notin Live(half) /\ b \in Nat
    BY <1>1, <2>1, <2>2, <2>3, InsertSlots, InsertLive, NextIndexFree
  <2>5. Live(fds) \subseteq Nat
    BY Zenon, <1>1, LiveSlots
  <2> HIDE DEF a, b
  <2>6. /\ a # b /\ Live(fds') = Live(fds) \cup {a, b} /\ {a, b} \cap Live(fds) = {}
        /\ Get(fds', a) = r /\ Get(fds', b) = w
        /\ \A i \in Live(fds) : Get(fds', i) = Get(fds, i)
    BY <2>3, <2>4, <2>5
  <2>7. Table!Gain({a, b}, PipeEnds)
    BY Zenon, <2>1, <2>3, <2>4, <2>6 DEF Table!Gain
  <2> QED BY Zenon, <2>6, <2>7 DEF Table!Pipe
<1>5. ASSUME NEW p \in Procs, NEW fd \in Fds, Close(p, fd)
      PROVE  Table!Close \/ UNCHANGED TableOf(fds)
  <2>1. fd \in Int
    BY Zenon, DescriptorsAssumption
  <2>2. CASE fds' = fds
    BY Zenon, <2>2 DEF TableOf
  <2>3. CASE fds' # fds
    <3>1. fds' = Remove(fds, fd) /\ Removable(fd) /\ Get(fds, fd) # None
      BY Zenon, <1>5, <2>3 DEF Close, Remove
    <3>2. Get(fds, fd) \notin PipeEnds
      BY Zenon, <3>1 DEF Removable, Kind, PipeEnds
    <3>3. Live(fds') = Live(fds) \ {fd} /\ \A i \in Int : i # fd => Get(fds', i) = Get(fds, i)
      BY <1>1, <2>1, <3>1, RemoveSlots
    <3>4. fd \in Live(fds) /\ Live(fds) \subseteq Nat
      BY Zenon, <1>1, <2>1, <3>1, LiveSlots
    <3> QED BY <3>2, <3>3, <3>4 DEF Table!Close
  <2> QED BY Zenon, <2>2, <2>3
<1> QED BY Zenon, <1>2, <1>3, <1>4, <1>5, TableSteps DEF Table!Next

(* The table implements FdTable: a partial map in which an open takes a    *)
(* number not in use, a pipe two of them, a close removes one file that is *)
(* no pipe end, and nothing else changes.                                  *)
THEOREM TableImplemented == Spec => TableSpec
<1>1. TypeInv /\ TypeInv' /\ [Next]_vars => [Table!Next]_([i \in Live(fds) |-> Get(fds, i)])
  BY Zenon, TableStep DEF TableOf
<1> QED BY <1>1, TableInit, TypeInit, TypeStep, PTL DEF Spec, TableSpec, Table!Spec

-----------------------------------------------------------------------------
(* The inductive invariant for the bytes of the pipes.                     *)
DeliveredInv == got \in Seq(Seq(Nat)) /\ Len(got) = Len(pipes) /\ DeliveredOnce

(* The first m numbers followed by the next k are the first m + k.         *)
LEMMA Consecutive ==
  ASSUME NEW m \in Nat, NEW k \in Nat
  PROVE  /\ [j \in 1 .. m |-> j] \o [j \in 1 .. k |-> m + j] = [j \in 1 .. (m + k) |-> j]
         /\ [j \in 1 .. (m + k) |-> j] \in Seq(Nat)
<1> DEFINE a == [j \in 1 .. m |-> j]
           b == [j \in 1 .. k |-> m + j]
           c == [j \in 1 .. (m + k) |-> j]
<1>1. a \in Seq(Nat) /\ Len(a) = m /\ \A j \in 1 .. m : a[j] = j
  OBVIOUS
<1>2. b \in Seq(Nat) /\ Len(b) = k /\ \A j \in 1 .. k : b[j] = m + j
  OBVIOUS
<1>3. c \in Seq(Nat) /\ Len(c) = m + k /\ \A j \in 1 .. (m + k) : c[j] = j
  OBVIOUS
<1> HIDE DEF a, b, c
<1>4. /\ a \o b \in Seq(Nat) /\ Len(a \o b) = m + k
      /\ \A i \in 1 .. (m + k) : (a \o b)[i] = IF i <= m THEN a[i] ELSE b[i - m]
  BY ZenonT(30), <1>1, <1>2, ConcatProperties
<1>5. ASSUME NEW i \in 1 .. (m + k)
      PROVE  (a \o b)[i] = c[i]
  <2>1. CASE i <= m
    BY <1>1, <1>3, <1>4, <2>1
  <2>2. CASE ~(i <= m)
    <3>1. i - m \in 1 .. k
      BY <2>2
    <3>2. b[i - m] = i
      BY <1>2, <3>1
    <3> QED BY Zenon, <1>3, <1>4, <2>2, <3>2
  <2> QED BY Zenon, <2>1, <2>2
<1>6. a \o b = c
  BY Zenon, <1>3, <1>4, <1>5, SeqEqual
<1> QED BY Zenon, <1>3, <1>6 DEF a, b, c

(* A delivery hands out the next positions of its pipe.                    *)
LEMMA DeliverOrder ==
  ASSUME TypeInv, DeliveredInv, NEW n \in 1 .. Len(pipes), NEW c \in Nat, Deliver(n, c)
  PROVE  DeliveredInv'
<1> DEFINE a == pipes[n].len - pipes[n].pos
           k == IF c < a THEN c ELSE a
           e == [pipes[n] EXCEPT !.pos = pipes[n].pos + k]
           g == [j \in 1 .. (pipes[n].pos + k) |-> j]
<1> HIDE DEF a, k, e, g
<1>1. pipes \in Seq([len : Nat, pos : Nat]) /\ Len(pipes) \in Nat /\ PosBounded
  BY DEF TypeInv, TypeOK
<1>2. pipes[n] \in [len : Nat, pos : Nat] /\ pipes[n].pos <= pipes[n].len
  <2>1. pipes[n] \in [len : Nat, pos : Nat]
    BY ZenonT(30), <1>1, ElementOfSeq
  <2> QED BY Zenon, <1>1, <2>1 DEF PosBounded
<1>3. a \in Nat /\ k \in Nat /\ k <= a
  BY <1>2 DEF a, k
<1>4. got[n] = [j \in 1 .. pipes[n].pos |-> j]
  BY Zenon DEF DeliveredInv, DeliveredOnce
<1>5. got[n] \o [j \in 1 .. k |-> pipes[n].pos + j] = g /\ g \in Seq(Nat)
  BY Zenon, <1>2, <1>3, <1>4, Consecutive DEF g
<1>6. got' = [got EXCEPT ![n] = g] /\ pipes' = [pipes EXCEPT ![n] = e]
  <2>1. got' = [got EXCEPT ![n] = got[n] \o [j \in 1 .. k |-> pipes[n].pos + j]]
    BY Zenon DEF Deliver, Avail, a, k
  <2>2. pipes' = [pipes EXCEPT ![n] = e]
    BY Zenon DEF Deliver, Avail, a, k, e
  <2> QED BY Zenon, <1>5, <2>1, <2>2
<1>7. e.pos = pipes[n].pos + k /\ e.len = pipes[n].len /\ e \in [len : Nat, pos : Nat]
  BY <1>2, <1>3 DEF e
<1>8. /\ got' \in Seq(Seq(Nat)) /\ Len(got') = Len(got)
      /\ \A j \in 1 .. Len(got) : got'[j] = IF j = n THEN g ELSE got[j]
  BY <1>5, <1>6, ExceptSeq DEF DeliveredInv
<1>9. /\ Len(pipes') = Len(pipes)
      /\ \A j \in 1 .. Len(pipes) : pipes'[j] = IF j = n THEN e ELSE pipes[j]
  <2> DEFINE P == [len : Nat, pos : Nat]
  <2>1. pipes \in Seq(P) /\ n \in 1 .. Len(pipes) /\ e \in P
    BY Zenon, <1>1, <1>7
  <2> HIDE DEF P
  <2> QED BY <1>6, <2>1, ExceptSeq
<1>10. ASSUME NEW j \in 1 .. Len(pipes)
       PROVE  got'[j] = [i \in 1 .. pipes'[j].pos |-> i] /\ pipes'[j].len - pipes'[j].pos >= 0
  <2>1. CASE j = n
    <3>1. pipes'[j] = e /\ got'[j] = g
      BY Zenon, <1>8, <1>9, <2>1 DEF DeliveredInv
    <3>2. e.len - e.pos >= 0
      BY SMTT(30), <1>2, <1>3, <1>7 DEF a
    <3> QED BY Zenon, <1>7, <3>1, <3>2 DEF g
  <2>2. CASE j # n
    <3>1. pipes'[j] = pipes[j] /\ got'[j] = got[j]
      BY Zenon, <1>8, <1>9, <2>2 DEF DeliveredInv
    <3> QED BY Zenon, <3>1 DEF DeliveredInv, DeliveredOnce, Avail
  <2> QED BY Zenon, <2>1, <2>2
<1> QED BY Zenon, <1>8, <1>9, <1>10 DEF DeliveredInv, DeliveredOnce, Avail

(* Every step keeps the bytes in order.                                    *)
LEMMA DeliveredStep == TypeInv /\ DeliveredInv /\ [Next]_vars => DeliveredInv'
<1> SUFFICES ASSUME TypeInv, DeliveredInv, [Next]_vars PROVE DeliveredInv'
  BY Zenon
<1>1. pipes \in Seq([len : Nat, pos : Nat]) /\ Len(pipes) \in Nat /\ parked \in [Procs -> 0 .. Len(pipes)]
  BY DEF TypeInv, TypeOK
<1>2. ASSUME UNCHANGED <<pipes, got>>
      PROVE  DeliveredInv'
  BY Zenon, <1>2 DEF DeliveredInv, DeliveredOnce, Avail
<1>3. ASSUME NEW p \in Procs, Pipe2(p)
      PROVE  DeliveredInv'
  <2> DEFINE e == [len |-> 0, pos |-> 0]
  <2>1. pipes' = Append(pipes, e) /\ got' = Append(got, <<>>)
    BY Zenon, <1>3 DEF Pipe2
  <2>2. e \in [len : Nat, pos : Nat] /\ e.len = 0 /\ e.pos = 0
    BY Zenon
  <2> HIDE DEF e
  <2>3. /\ Len(pipes') = Len(pipes) + 1 /\ pipes'[Len(pipes) + 1] = e
        /\ \A j \in 1 .. Len(pipes) : pipes'[j] = pipes[j]
    BY <1>1, <2>1, <2>2, AppendProperties
  <2>4. /\ got' \in Seq(Seq(Nat)) /\ Len(got') = Len(got) + 1 /\ got'[Len(got) + 1] = <<>>
        /\ \A j \in 1 .. Len(got) : got'[j] = got[j]
    <3>1. <<>> \in Seq(Nat)
      OBVIOUS
    <3> QED BY <2>1, <3>1, AppendProperties DEF DeliveredInv
  <2>5. ASSUME NEW j \in 1 .. (Len(pipes) + 1)
        PROVE  got'[j] = [i \in 1 .. pipes'[j].pos |-> i] /\ pipes'[j].len - pipes'[j].pos >= 0
    <3>1. CASE j = Len(pipes) + 1
      <4>1. pipes'[j] = e /\ got'[j] = <<>>
        BY Zenon, <2>3, <2>4, <3>1 DEF DeliveredInv
      <4>2. [i \in 1 .. 0 |-> i] = <<>>
        OBVIOUS
      <4> QED BY <2>2, <4>1, <4>2
    <3>2. CASE j \in 1 .. Len(pipes)
      BY Zenon, <2>3, <2>4, <3>2 DEF DeliveredInv, DeliveredOnce, Avail
    <3> QED BY <1>1, <3>1, <3>2
  <2> QED BY Zenon, <2>3, <2>4, <2>5 DEF DeliveredInv, DeliveredOnce, Avail
<1>4. ASSUME NEW p \in Procs, NEW fd \in Fds, NEW c \in 1 .. MaxBytes, Read(p, fd, c)
      PROVE  DeliveredInv'
  <2>1. Get(fds, fd).pipe \in 1 .. Len(pipes) /\ c \in Nat
    BY <1>4, KindOfPipe, DescriptorsAssumption DEF Read, PipeKinds
  <2>2. Deliver(Get(fds, fd).pipe, c) \/ UNCHANGED <<pipes, got>>
    BY Zenon, <1>4 DEF Read
  <2> QED BY Zenon, <1>2, <2>1, <2>2, DeliverOrder
<1>5. ASSUME NEW p \in Procs, NEW c \in 1 .. MaxBytes, Resume(p, c)
      PROVE  DeliveredInv'
  <2>1. parked[p] \in 1 .. Len(pipes) /\ c \in Nat /\ Deliver(parked[p], c)
    BY <1>1, <1>5, DescriptorsAssumption DEF Resume
  <2> QED BY ZenonT(30), <2>1, DeliverOrder
<1>6. ASSUME NEW p \in Procs, NEW fd \in Fds, NEW c \in 1 .. MaxBytes, Write(p, fd, c)
      PROVE  DeliveredInv'
  <2> DEFINE n == Get(fds, fd).pipe
             e == [pipes[n] EXCEPT !.len = pipes[n].len + c]
  <2>1. n \in 1 .. Len(pipes) /\ c \in Nat
    BY <1>6, KindOfPipe, DescriptorsAssumption DEF Write, PipeKinds
  <2>2. pipes' = [pipes EXCEPT ![n] = e] /\ got' = got
    BY Zenon, <1>6 DEF Write, ghosts
  <2> HIDE DEF n
  <2>3. pipes[n] \in [len : Nat, pos : Nat]
    BY Zenon, <1>1, <2>1, ElementOfSeq
  <2>4. e \in [len : Nat, pos : Nat] /\ e.pos = pipes[n].pos /\ e.len = pipes[n].len + c
    BY <2>1, <2>3
  <2> HIDE DEF e
  <2>5. /\ Len(pipes') = Len(pipes)
        /\ \A j \in 1 .. Len(pipes) : pipes'[j] = IF j = n THEN e ELSE pipes[j]
    <3> DEFINE P == [len : Nat, pos : Nat]
    <3>1. pipes \in Seq(P) /\ n \in 1 .. Len(pipes) /\ e \in P
      BY Zenon, <1>1, <2>1, <2>4
    <3> HIDE DEF P
    <3> QED BY <2>2, <3>1, ExceptSeq
  <2>6. ASSUME NEW j \in 1 .. Len(pipes)
        PROVE  got[j] = [i \in 1 .. pipes'[j].pos |-> i] /\ pipes'[j].len - pipes'[j].pos >= 0
    <3>1. got[j] = [i \in 1 .. pipes[j].pos |-> i] /\ pipes[j].len - pipes[j].pos >= 0
      BY ZenonT(30) DEF DeliveredInv, DeliveredOnce, Avail
    <3>2. CASE j # n
      BY Zenon, <2>5, <3>1, <3>2
    <3>3. CASE j = n
      <4>1. pipes'[j] = e
        BY Zenon, <2>5, <3>3
      <4> QED BY <2>1, <2>3, <2>4, <3>1, <3>3, <4>1
    <3> QED BY Zenon, <3>2, <3>3
  <2> QED BY Zenon, <2>2, <2>5, <2>6 DEF DeliveredInv, DeliveredOnce, Avail
<1>7. ASSUME NEW p \in Procs, NEW k, OpenAt(p, k) \/ Close(p, k) \/ Fork(p, k) \/ Exit(p)
      PROVE  UNCHANGED <<pipes, got>>
  BY Zenon, <1>7 DEF OpenAt, Close, Fork, Exit
<1>8. ASSUME NEW p \in Procs, NEW op, NEW fd, Panic(p, op, fd)
      PROVE  UNCHANGED <<pipes, got>>
  BY Zenon, <1>8 DEF Panic, ghosts
<1>9. CASE UNCHANGED vars
  BY Zenon, <1>2, <1>9 DEF vars, ghosts
<1> QED BY Zenon, <1>2, <1>3, <1>4, <1>5, <1>6, <1>7, <1>8, <1>9 DEF Next

(* Whichever mix of direct and parked readers takes them, the bytes of a   *)
(* pipe are delivered once each and in order.                              *)
THEOREM PipesDeliverOnce == Spec => []DeliveredOnce
<1>1. Init => DeliveredInv
  BY DEF Init, DeliveredInv, DeliveredOnce
<1>2. DeliveredInv => DeliveredOnce
  BY Zenon DEF DeliveredInv
<1> QED BY <1>1, <1>2, TypeInit, TypeStep, DeliveredStep, PTL DEF Spec

=============================================================================
