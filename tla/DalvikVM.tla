------------------------------ MODULE DalvikVM ------------------------------
(***************************************************************************)
(* The JNI facade: two pools of references, the interned classes, the      *)
(* member lists that method and field ids index, the pending exception,    *)
(* and the calls from the host into native code.  A handle is a tag and a  *)
(* number; a class handle's number is class * Radix, and a member's id is  *)
(* its class handle plus its place in the class's list.  Objects carry a   *)
(* number (obj) that the code does not have.                               *)
(***************************************************************************)
EXTENDS SparseList, FiniteSets

CONSTANTS
  InitClasses,   \* the classes of the resolver, a sequence
  ErrorClass,    \* index in it of the NoSuch...Error classes
  BuiltinClass,  \* index in it of java/lang/String and byte[]
  ClassNames,    \* the names the guest looks up
  MemberNames,   \* name and signature of methods and fields
  Lengths,       \* lengths of strings and byte arrays
  Radix,         \* 0x10000: class handles are this far apart
  PageSize,
  ResultKinds,   \* kinds of objects the host's Jni answers with
  MaxClasses, MaxMembers, MaxObjects, MaxDepth, MaxBuffers   \* bounds

ASSUME DalvikAssumption ==
  /\ InitClasses \in Seq(STRING) /\ Radix \in Nat \ {0} /\ PageSize \in Nat \ {0}
  /\ ErrorClass \in 1 .. Len(InitClasses) /\ BuiltinClass \in 1 .. Len(InitClasses)
  /\ Lengths \subseteq Nat /\ ClassNames \cup MemberNames \subseteq STRING
  /\ Len(InitClasses) <= MaxClasses
  /\ {MaxClasses, MaxMembers, MaxObjects, MaxDepth, MaxBuffers} \subseteq Nat

VARIABLES
  disciplined,     \* the guest uses only what it holds, and as what it is
  local, global,   \* local_ref_pool and global_ref_pool
  classes,         \* class_map: the names in the order of their ids
  members,         \* class -> its methods and fields in the order of their ids
  throwable,       \* the pending exception, or None
  frames,          \* the host's calls into native code, the outermost first
  bufs,            \* guest memory handed out for strings and byte arrays
  panicked,        \* a panic!, an unwrap, unreachable!, or an error that stops the task
  born,            \* ghost: references made so far, numbers the objects
  lheld, gheld,    \* ghost: <<number, object>> of the references handed out
  ids,             \* ghost: <<class, kind, name, id>> handed out
  answer,          \* ghost: <<what native code returned, what the host got>>
  freed            \* ghost: <<size allocated, size freed>> of the last release

refs == <<local, global, lheld, gheld>>
meta == <<classes, members, ids>>
rest == <<throwable, frames, bufs, panicked, answer, freed>>
vars == <<disciplined, refs, meta, rest, born>>

ObjectKinds == {"simple", "array", "class", "string", "bytes", "objref"}
\* n is a class, for objref the number of a global reference.
Object(k, n, o, len) == [kind |-> k, n |-> n, obj |-> o, len |-> len]
Objects == [kind : ObjectKinds, n : Nat, obj : Nat, len : Nat]

\* The host's Jni answers with objects, never with the number of a reference.
ASSUME ObjectsAssumption == None \notin Objects /\ ResultKinds \subseteq ObjectKinds \ {"objref"}

\* get_flag_id and get_object_seq are the two parts of a handle.
Tags == {"class", "ref", "object"}
Handle(t, n) == [tag |-> t, n |-> n]
Deref(h) ==
  CASE h.tag = "ref" -> Get(global, h.n)
    [] h.tag = "object" -> Get(local, h.n)
    [] OTHER -> None

ClassId(c) == (c - 1) * Radix

\* The class an argument names: a class handle, or a global reference to a
\* class.  0 when there is none; the call then answers JNI_NULL or JNI_ERR.
ClassArg(h) ==
  IF h.tag = "class"
    THEN IF h.n % Radix = 0 /\ h.n \div Radix < Len(classes) THEN h.n \div Radix + 1 ELSE 0
    ELSE IF h.tag = "ref" /\ Deref(h) # None /\ Deref(h).kind = "class" THEN Deref(h).n ELSE 0

\* get_class: 0 stands for the panic on a reference that is gone.
GetClass(o) ==
  IF o = None THEN 0
  ELSE CASE o.kind = "objref" -> IF Get(global, o.n) = None THEN 0 ELSE Get(global, o.n).n
         [] o.kind \in {"string", "bytes"} -> BuiltinClass
         [] OTHER -> o.n

Init ==
  /\ disciplined \in BOOLEAN
  /\ local = New /\ global = New
  /\ classes = InitClasses /\ members = [c \in 1 .. MaxClasses |-> <<>>]
  /\ throwable = None /\ frames = <<>> /\ bufs = {} /\ panicked = FALSE
  /\ born = 0 /\ lheld = {} /\ gheld = {} /\ ids = {}
  /\ answer = <<None, None>> /\ freed = <<0, 0>>

\* Native code runs, and has not brought the emulator down.
Running == frames # <<>> /\ ~panicked

Held(h) ==
  CASE h.tag = "ref" -> \E p \in gheld : p[1] = h.n
    [] h.tag = "object" -> \E p \in lheld : p[1] = h.n
    [] OTHER -> ClassArg(h) # 0

\* What a disciplined guest passes: references it holds, to objects of a kind the
\* call is for; ids of the right kind, for the class they were asked for.
KindOf(h) == IF Deref(h) = None THEN "none" ELSE Deref(h).kind
Fits(h, kinds) == disciplined => Held(h) /\ KindOf(h) \in kinds
FitsId(h, i, k) == disciplined => Held(h) /\ h.tag # "class" /\ i[1] = GetClass(Deref(h)) /\ i[2] = k
FitsClassId(h, i, k) == disciplined => Held(h) /\ ClassArg(h) = i[1] /\ i[2] = k

AddLocal(o) ==
  /\ local' = Insert(local, o)
  /\ lheld' = lheld \cup {<<NextIndex(local), o>>}

AddGlobal(o) ==
  /\ global' = Insert(global, o)
  /\ gheld' = gheld \cup {<<NextIndex(global), o>>}

\* A new object goes into the local pool.
NewLocal(k, c, len) ==
  /\ born < MaxObjects
  /\ AddLocal(Object(k, c, born + 1, len))
  /\ born' = born + 1
  /\ UNCHANGED <<global, gheld, meta, rest>>

Panic == panicked' = TRUE /\ UNCHANGED <<refs, meta, throwable, frames, bufs, answer, freed, born>>

-----------------------------------------------------------------------------
\* References.

Intern(name) ==
  IF \E c \in 1 .. Len(classes) : classes[c] = name
    THEN UNCHANGED classes
    ELSE classes' = Append(classes, name)

FindClass(name) ==
  /\ Running /\ Len(classes) < MaxClasses
  /\ Intern(name)
  /\ UNCHANGED <<refs, members, ids, rest, born>>

\* A global reference is returned as it is; a class or a live local reference is
\* copied into the global pool.
NewGlobalRef(h) ==
  /\ Running /\ born < MaxObjects
  /\ \/ h.tag = "class" /\ ClassArg(h) # 0
        /\ AddGlobal(Object("class", ClassArg(h), born + 1, 0)) /\ born' = born + 1
     \/ h.tag = "object" /\ Deref(h) # None /\ AddGlobal(Deref(h)) /\ born' = born + 1
  /\ UNCHANGED <<local, lheld, meta, rest>>

\* The guest deletes what it was given; deleting it again is harmless as long as
\* the slot is not in use again.
DeleteGlobalRef(n) ==
  /\ Running /\ (Held(Handle("ref", n)) \/ (~disciplined /\ Get(global, n) = None))
  /\ global' = Remove(global, n)
  /\ gheld' = {h \in gheld : h[1] # n}
  /\ UNCHANGED <<local, lheld, meta, rest, born>>

NewLocalRef(h) ==
  /\ Running /\ born < MaxObjects /\ h.tag = "object" /\ Deref(h) # None
  /\ AddLocal(Deref(h)) /\ born' = born + 1
  /\ UNCHANGED <<global, gheld, meta, rest>>

DeleteLocalRef(h) ==
  /\ Running /\ (disciplined => Held(h) /\ h.tag # "ref")
  /\ CASE h.tag = "object" ->
            /\ local' = Remove(local, h.n)
            /\ lheld' = {p \in lheld : p[1] # h.n}
            /\ UNCHANGED <<global, gheld, meta, rest, born>>
       [] h.tag = "class" -> UNCHANGED vars
       [] OTHER -> Panic

\* Only a class handle itself will do.
AllocObject(h) ==
  Running /\ h.tag = "class" /\ ClassArg(h) # 0 /\ NewLocal("simple", ClassArg(h), 0)

\* The class of a reference that is gone is a panic; otherwise nothing changes.
GetObjectClass(h) ==
  Running /\ Fits(h, ObjectKinds) /\ Deref(h) # None /\ GetClass(Deref(h)) = 0 /\ Panic

NewStringUTF(len) == Running /\ NewLocal("string", BuiltinClass, len)

NewByteArray(len) == Running /\ NewLocal("bytes", BuiltinClass, len)

\* throw_class: a simple instance in the global pool that nobody ever removes,
\* and a reference to it as the exception.
ThrowClass(c) ==
  /\ global' = Insert(global, Object("simple", c, born + 1, 0))
  /\ throwable' = Object("objref", NextIndex(global), born + 1, 0)
  /\ born' = born + 1

\* get_local_ref panics on a handle that is no local reference.
Throw(h) ==
  /\ Running /\ (disciplined => Held(h) /\ h.tag = "object")
  /\ IF h.tag # "object"
       THEN Panic
       ELSE /\ throwable' = IF Deref(h) = None THEN throwable ELSE Deref(h)
            /\ UNCHANGED <<refs, meta, frames, bufs, panicked, answer, freed, born>>

ExceptionOccurred ==
  /\ Running /\ throwable # None /\ born < MaxObjects
  /\ AddLocal(throwable) /\ born' = born + 1
  /\ UNCHANGED <<global, gheld, meta, rest>>

ExceptionClear ==
  /\ Running /\ throwable' = None
  /\ UNCHANGED <<refs, meta, frames, bufs, panicked, answer, freed, born>>

-----------------------------------------------------------------------------
\* Members.

Member(k, name, fn) == [kind |-> k, name |-> name, fn |-> fn]

\* The places of class c's list that hold a member.
Places(c, k, name) ==
  {i \in 1 .. Len(members[c]) : members[c][i].kind = k /\ members[c][i].name = name}

\* The members of all classes, which MaxMembers bounds.
Listed == Cardinality(UNION {{c} \X (1 .. Len(members[c])) : c \in DOMAIN members})

First(s) == CHOOSE i \in s : \A j \in s : i <= j

\* Mutant: the id is the length of the list before the member is added.
MemberIdShort(c, i) == ClassId(c) + i - 1

MemberId(c, i) == ClassId(c) + i

\* The member is found or appended; the host's Jni may refuse the name, which
\* throws a NoSuch...Error.
GetMemberID(h, k, name, accept) ==
  LET c == ClassArg(h)
      old == Places(c, k, name)
      i == IF old = {} THEN Len(members[c]) + 1 ELSE First(old) IN
  /\ Running /\ c # 0
  /\ IF accept
       THEN /\ old # {} \/ Listed < MaxMembers
            /\ members' = IF old # {} THEN members
                          ELSE [members EXCEPT ![c] = Append(@, Member(k, name, FALSE))]
            /\ ids' = ids \cup {<<c, k, name, MemberId(c, i)>>}
            /\ UNCHANGED <<global, throwable, born>>
       ELSE born < MaxObjects /\ ThrowClass(ErrorClass) /\ UNCHANGED <<members, ids>>
  /\ UNCHANGED <<local, lheld, gheld, classes, frames, bufs, panicked, answer, freed>>

GetMethodID(h, name, accept) == GetMemberID(h, "method", name, accept)
GetStaticMethodID(h, name, accept) == GetMemberID(h, "method", name, accept)
GetFieldID(h, name, accept) == GetMemberID(h, "field", name, accept)
GetStaticFieldID(h, name, accept) == GetMemberID(h, "field", name, accept)

\* find_method_by_id and find_field_by_id: the place in the list, or 0.
FindById(c, k, id) ==
  LET i == id % Radix IN
  IF i \in 1 .. Len(members[c]) /\ members[c][i].kind = k THEN i ELSE 0

\* There is no instance, or its class does not have the id: an unwrap.
Unknown(h, k, id) ==
  LET c == GetClass(Deref(h)) IN IF c = 0 THEN TRUE ELSE FindById(c, k, id) = 0

\* Calls on an instance that does not exist answer JNI_NULL.
CallObjectMethodV(h, i, kind) ==
  /\ Running /\ FitsId(h, i, "method") /\ Deref(h) # None
  /\ IF Unknown(h, "method", i[4]) THEN Panic ELSE NewLocal(kind, 1, 0)

CallBooleanMethodV(h, i) ==
  /\ Running /\ FitsId(h, i, "method") /\ Deref(h) # None
  /\ Unknown(h, "method", i[4]) /\ Panic
CallIntMethodV(h, i) == CallBooleanMethodV(h, i)
CallVoidMethodV(h, i) == CallBooleanMethodV(h, i)

\* Field accesses on one panic.
GetObjectField(h, i, kind) ==
  /\ Running /\ FitsId(h, i, "field")
  /\ IF Unknown(h, "field", i[4]) THEN Panic ELSE NewLocal(kind, 1, 0)

GetIntField(h, i) ==
  /\ Running /\ FitsId(h, i, "field")
  /\ Unknown(h, "field", i[4])
  /\ Panic
SetObjectField(h, i) == GetIntField(h, i)

\* The static calls answer JNI_NULL for an unknown class or member, except for
\* CallStaticIntMethodV, which is unreachable! then.
CallStaticObjectMethodV(h, i, kind) ==
  /\ Running /\ FitsClassId(h, i, "method")
  /\ ClassArg(h) # 0 /\ FindById(ClassArg(h), "method", i[4]) # 0 /\ NewLocal(kind, 1, 0)

NewObjectV(h, i) ==
  /\ Running /\ FitsClassId(h, i, "method")
  /\ ClassArg(h) # 0 /\ FindById(ClassArg(h), "method", i[4]) # 0
  /\ NewLocal("simple", ClassArg(h), 0)

CallStaticIntMethodV(h, i) ==
  /\ Running /\ FitsClassId(h, i, "method")
  /\ IF ClassArg(h) = 0 THEN TRUE ELSE FindById(ClassArg(h), "method", i[4]) = 0
  /\ Panic

GetStaticObjectField(h, i, kind) ==
  /\ Running /\ FitsClassId(h, i, "field")
  /\ ClassArg(h) # 0 /\ FindById(ClassArg(h), "field", i[4]) # 0 /\ NewLocal(kind, 1, 0)

\* The elements were made by the host.
GetObjectArrayElement(h, kind) ==
  /\ Running /\ Fits(h, {"array"})
  /\ \/ h.tag = "class" /\ Panic
     \/ KindOf(h) = "array" /\ NewLocal(kind, 1, 0)

\* The length of what is no array is JNI_ERR, of a class handle unreachable!.
GetArrayLength(h) == Running /\ Fits(h, {"array", "bytes"}) /\ h.tag = "class" /\ Panic

\* A class that is not registered answers JNI_ERR; names registered twice are
\* listed twice.
RegisterNatives(h, names) ==
  LET c == ClassArg(h)
      ms == [i \in 1 .. Len(names) |-> Member("method", names[i], TRUE)] IN
  /\ Running /\ h.tag = "class" /\ c # 0
  /\ Listed + Len(names) <= MaxMembers
  /\ members' = [members EXCEPT ![c] = @ \o ms]
  /\ UNCHANGED <<refs, classes, ids, rest, born>>

-----------------------------------------------------------------------------
\* Copies of strings and arrays in guest memory.

Pages(size) == (size + PageSize - 1) \div PageSize

\* GetStringUTFChars asks for a byte more than GetByteArrayElements.
Extent(o) == IF o.kind = "string" THEN o.len + 1 ELSE o.len

\* Copies of one object are not told apart.
Allocate(h) ==
  /\ Cardinality(bufs) < MaxBuffers
  /\ bufs' = bufs \cup {[of |-> Deref(h).obj, pages |-> Pages(Extent(Deref(h)))]}
  /\ UNCHANGED <<refs, meta, throwable, frames, panicked, answer, freed, born>>

GetStringUTFChars(h) ==
  Running /\ Fits(h, {"string"}) /\ KindOf(h) = "string" /\ Allocate(h)

\* An array call on something else is unreachable!, on nothing JNI_ERR.
NotBytes(h) == h.tag = "class" \/ KindOf(h) \notin {"none", "bytes"}

GetByteArrayElements(h) ==
  /\ Running /\ Fits(h, {"bytes"})
  /\ IF NotBytes(h) THEN Panic ELSE Deref(h) # None /\ Allocate(h)

FreedSize(o) == Extent(o)

\* The guest gives the buffer back with a reference to the object it is of; the
\* size comes from the object, not the buffer.
Free(h, b) ==
  /\ Deref(h).obj = b.of
  /\ bufs' = bufs \ {b}
  /\ freed' = <<b.pages, Pages(FreedSize(Deref(h)))>>
  /\ UNCHANGED <<refs, meta, throwable, frames, panicked, answer, born>>

ReleaseStringUTFChars(h, b) ==
  Running /\ Fits(h, {"string"}) /\ KindOf(h) = "string" /\ Free(h, b)

\* Modes 0 and 2 free the buffer, 1 only copies it back.
ReleaseByteArrayElements(h, b, mode) ==
  /\ Running /\ Fits(h, {"bytes"})
  /\ IF NotBytes(h) THEN Panic ELSE Deref(h) # None /\ mode \in {0, 2} /\ Free(h, b)

\* The region calls stop the task on a handle that is no array, and panic on a
\* range that is not in it.
GetByteArrayRegion(h, start, length) ==
  /\ Running /\ Fits(h, {"bytes"})
  /\ disciplined => start + length <= Deref(h).len
  /\ IF KindOf(h) # "bytes" THEN TRUE ELSE start + length > Deref(h).len
  /\ Panic
SetByteArrayRegion(h, start, length) == GetByteArrayRegion(h, start, length)

-----------------------------------------------------------------------------
\* Calls from the host.

\* call_method and call_static_method take the first member of that name, and an
\* entry without a function, made by GetMethodID, is a panic.  The arguments
\* become local references.
CallMethod(c, name, args) ==
  LET found == Places(c, "method", name) IN
  /\ ~panicked /\ Len(frames) < MaxDepth /\ born < MaxObjects
  /\ disciplined => found # {} /\ members[c][First(found)].fn
  /\ IF found = {} \/ ~members[c][First(found)].fn
       THEN Panic
       ELSE /\ frames' = Append(frames, "method")
            /\ IF args
                 THEN AddLocal(Object("simple", c, born + 1, 0)) /\ born' = born + 1
                 ELSE UNCHANGED <<local, lheld, born>>
            /\ UNCHANGED <<global, gheld, meta, throwable, bufs, panicked, answer, freed>>

CallOnLoad ==
  /\ ~panicked /\ Len(frames) < MaxDepth
  /\ frames' = Append(frames, "onload")
  /\ UNCHANGED <<refs, meta, throwable, bufs, panicked, answer, freed, born>>

\* call_jni_export: the receiver is a new global reference.
CallExport ==
  /\ ~panicked /\ Len(frames) < MaxDepth /\ born < MaxObjects
  /\ AddGlobal(Object("simple", 1, born + 1, 0)) /\ born' = born + 1
  /\ frames' = Append(frames, "export")
  /\ UNCHANGED <<local, lheld, meta, throwable, bufs, panicked, answer, freed>>

\* Mutant: the pool is cleared before the result is looked up.
ResultAfterClear(h) == IF h.tag = "object" THEN None ELSE Deref(h)

Result(h) == Deref(h)

\* The innermost call returns handle h.  call_method and JNI_OnLoad clear the
\* whole local pool, call_jni_export does not; JNI_OnLoad answers a version.
Return(h) ==
  LET top == frames[Len(frames)]
      given == {p[2] : p \in {q \in IF h.tag = "ref" THEN gheld ELSE lheld : q[1] = h.n}} IN
  /\ Running /\ given # {}
  /\ frames' = SubSeq(frames, 1, Len(frames) - 1)
  /\ answer' = IF top = "onload" THEN <<None, None>>
               ELSE <<CHOOSE o \in given : TRUE, Result(h)>>
  /\ IF top = "export" THEN UNCHANGED <<local, lheld>> ELSE local' = Clear(local) /\ lheld' = {}
  /\ UNCHANGED <<global, gheld, meta, throwable, bufs, panicked, freed, born>>

ReturnVoid ==
  /\ Running
  /\ frames' = SubSeq(frames, 1, Len(frames) - 1)
  /\ IF frames[Len(frames)] = "export" THEN UNCHANGED <<local, lheld>>
     ELSE local' = Clear(local) /\ lheld' = {}
  /\ UNCHANGED <<global, gheld, meta, throwable, bufs, panicked, answer, freed, born>>

-----------------------------------------------------------------------------
RefHandles == [tag : {"object", "ref"}, n : 0 .. MaxObjects - 1]
ClassHandles == {Handle("class", ClassId(c)) : c \in 1 .. Len(classes)}

AnyHandles == RefHandles \cup ClassHandles

References ==
  \/ \E name \in ClassNames : FindClass(name)
  \/ \E h \in AnyHandles : NewGlobalRef(h) \/ DeleteLocalRef(h) \/ Throw(h) \/ AllocObject(h)
  \/ \E h \in RefHandles : NewLocalRef(h) \/ GetObjectClass(h)
  \/ \E n \in 0 .. MaxObjects : DeleteGlobalRef(n)
  \/ \E len \in Lengths : NewStringUTF(len) \/ NewByteArray(len)
  \/ ExceptionOccurred \/ ExceptionClear

Members ==
  \/ \E h \in AnyHandles, name \in MemberNames, accept \in BOOLEAN :
       \/ GetMethodID(h, name, accept) \/ GetStaticMethodID(h, name, accept)
       \/ GetFieldID(h, name, accept) \/ GetStaticFieldID(h, name, accept)
  \/ \E h \in AnyHandles, i \in ids :
       \/ CallBooleanMethodV(h, i) \/ CallIntMethodV(h, i) \/ CallVoidMethodV(h, i)
       \/ GetIntField(h, i) \/ SetObjectField(h, i) \/ CallStaticIntMethodV(h, i) \/ NewObjectV(h, i)
       \/ \E kind \in ResultKinds :
            \/ CallObjectMethodV(h, i, kind) \/ GetObjectField(h, i, kind)
            \/ CallStaticObjectMethodV(h, i, kind) \/ GetStaticObjectField(h, i, kind)
  \/ \E h \in AnyHandles, kind \in ResultKinds : GetObjectArrayElement(h, kind)
  \/ \E h \in ClassHandles, names \in {<<m>> : m \in MemberNames} \cup (MemberNames \X MemberNames) :
       RegisterNatives(h, names)

Buffers ==
  \E h \in AnyHandles :
    \/ GetStringUTFChars(h) \/ GetByteArrayElements(h) \/ GetArrayLength(h)
    \/ \E b \in bufs, mode \in 0 .. 2 : ReleaseStringUTFChars(h, b) \/ ReleaseByteArrayElements(h, b, mode)
    \/ \E start, length \in Lengths :
         GetByteArrayRegion(h, start, length) \/ SetByteArrayRegion(h, start, length)

HostCalls ==
  \/ CallOnLoad \/ CallExport \/ ReturnVoid
  \/ \E h \in RefHandles : Return(h)
  \/ \E c \in 1 .. Len(classes), name \in MemberNames, args \in BOOLEAN : CallMethod(c, name, args)

Next == (References \/ Members \/ Buffers \/ HostCalls) /\ UNCHANGED disciplined

Spec == Init /\ [][Next]_vars

-----------------------------------------------------------------------------
\* Both pools are well formed: every empty slot is queued once for reuse.
TypeOK ==
  /\ \A pool \in {local, global} :
       pool \in [data : Seq(Objects \cup {None}), free : Seq(Nat)] /\ WellFormed(pool)
  /\ classes \in Seq(STRING) /\ {panicked, disciplined} \subseteq BOOLEAN
  /\ throwable \in Objects \cup {None}
  /\ \A c \in DOMAIN members : \A i \in 1 .. Len(members[c]) :
       members[c][i] \in [kind : {"method", "field"}, name : STRING, fn : BOOLEAN]
  /\ frames \in Seq({"method", "export", "onload"})

\* A reference handed out denotes its object until somebody deletes it, or, for a
\* local reference, until the host clears the pool: slots are reused only when
\* they are free, whatever is deleted, deleted twice or cleared.
HandleStable ==
  /\ \A p \in lheld : Get(local, p[1]) = p[2]
  /\ \A p \in gheld : Get(global, p[1]) = p[2]

\* The pending exception and every reference made from it can be asked for its
\* class: the instance that throw_class put into the global pool stays there.
ExceptionResolves ==
  \A o \in {throwable} \cup {p[2] : p \in lheld \cup gheld} :
    (o # None /\ o.kind = "objref") => GetClass(o) = ErrorClass

\* A method or field id finds, in the class it was given for, the member that was
\* asked for, however many were asked for or registered since, as long as the
\* class has fewer members than the ids have room for.
IdsResolve ==
  \A i \in ids : i[4] - ClassId(i[1]) < Radix =>
    LET m == FindById(i[1], i[2], i[4]) IN m # 0 /\ members[i[1]][m].name = i[3]

\* What native code was given keeps denoting what it denoted: a reference until it
\* is deleted or the host clears the local pool, the pending exception and its
\* class, and a method or field id the member it was asked for (SparseList,
\* throw_class, find_method_by_id).
HandlesDenote == TypeOK /\ HandleStable /\ ExceptionResolves /\ IdsResolve

\* The host gets the object that native code returned: the result is looked up
\* before the local pool is cleared.
HostGetsResult == answer[1] = answer[2]

\* Guest memory for a string or an array is freed with the size it was allocated
\* with, since the object still has its length (ReleaseStringUTFChars).
FreedAsAllocated == freed[1] = freed[2]

\* A guest that uses only references it holds, as what they are, and ids with the
\* class they were asked for, never brings the emulator down: neither the reuse
\* of slots, nor a clear, nor the growth of the member lists get in its way.
NoPanic == disciplined => ~panicked

\* A careful guest meets no panic of the JNI functions, and guest memory of a copy
\* is freed as it was allocated, also by a careless one.
CarefulGuestSafe == FreedAsAllocated /\ NoPanic

=============================================================================
