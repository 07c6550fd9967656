----------------------------- MODULE ProcessVm -----------------------------
(***************************************************************************)
(* process_vm_readv and process_vm_writev copy between two lists of ranges *)
(* of the one guest address space: the source list is gathered into a      *)
(* buffer, the buffer is scattered over the destination list.  The ranges  *)
(* may overlap, be empty, null or unmapped.  Memory is bytes in pages of   *)
(* PageSize.                                                               *)
(***************************************************************************)
EXTENDS Integers, Sequences

CONSTANTS Bytes,        \* size of the address space; addresses are 1..Bytes
          PageSize,
          MappedPages,  \* possible sets of mapped pages
          Vectors,      \* iovec arrays: sequences of [base, len]
          MaxIovs,      \* 1024 in the code
          MaxLen,       \* cap on a range's length, 2^20 in the code
          MaxCopies     \* bound on calls

ASSUME VmAssumption ==
    /\ Bytes \in Nat /\ PageSize \in Nat \ {0} /\ MaxIovs \in Nat /\ MaxLen \in Nat /\ MaxCopies \in Nat
    /\ Vectors \subseteq Seq([base : Nat, len : Nat])

VARIABLES mem,      \* address -> byte
          present,  \* the mapped pages
          copies,   \* calls so far
          last      \* the last call: its lists, the memory before it, and its answer

vmVars == <<mem, present, copies, last>>

PageOf(a) == a \div PageSize
NoCall == [call |-> "none"]
EINVAL == <<"err", "EINVAL">>
EFAULT == <<"err", "EFAULT">>
ESRCH == <<"err", "ESRCH">>
Ok(n) == <<"ok", n>>

VmInit == /\ mem = [a \in 1..Bytes |-> a]
          /\ present \in MappedPages
          /\ copies = 0
          /\ last = NoCall

-----------------------------------------------------------------------------
Mapped(a) == a \in 1..Bytes /\ PageOf(a) \in present
Readable(base, len) == \A a \in base..(base + len - 1) : Mapped(a)

mem_read_as_vec(base, len) == [k \in 1..len |-> mem[base + k - 1]]

(* The backend writes page by page and stops at the first unmapped one.    *)
BytesWritten(base, len) ==
    LET bad == {a \in base..(base + len - 1) : ~ Mapped(a)}
    IN  IF bad = {} THEN len ELSE (CHOOSE a \in bad : \A b \in bad : a <= b) - base

mem_write(m, base, data) ==
    [a \in 1..Bytes |-> IF a >= base /\ a < base + BytesWritten(base, Len(data))
                        THEN data[a - base + 1] ELSE m[a]]

(* Null and empty ranges are dropped, an unreadable entry counts as null.  *)
Capped(r) == [base |-> r.base, len |-> IF r.len < MaxLen THEN r.len ELSE MaxLen]
Pushed(out, r) == IF r.base # 0 /\ r.len > 0 THEN Append(out, r) ELSE out

read_guest_iovs(v) ==
    LET out[i \in 0..Len(v)] == IF i = 0 THEN <<>> ELSE Pushed(out[i - 1], Capped(v[i]))
    IN  out[Len(v)]

gather_iovs(iovs) ==
    LET buf[i \in 0..Len(iovs)] ==
            IF i = 0 THEN <<>> ELSE buf[i - 1] \o mem_read_as_vec(iovs[i].base, iovs[i].len)
    IN  buf[Len(iovs)]

Gatherable(iovs) == \A i \in 1..Len(iovs) : Readable(iovs[i].base, iovs[i].len)

ScatterPast(p, r, data) ==
    LET n == IF r.len < Len(data) THEN r.len ELSE Len(data)
    IN  IF ~p.ok \/ p.off >= Len(data) THEN p
        ELSE [mem |-> mem_write(p.mem, r.base, SubSeq(data, 1, n)),
              off |-> p.off + n, ok |-> Readable(r.base, n)]

(* One range after another until the data or the ranges run out; a failed  *)
(* write ends the loop and leaves what was written.                        *)
Scatter(p, r, data) ==
    LET n == IF r.len < Len(data) - p.off THEN r.len ELSE Len(data) - p.off
    IN  IF ~p.ok \/ p.off >= Len(data) THEN p
        ELSE [mem |-> mem_write(p.mem, r.base, SubSeq(data, p.off + 1, p.off + n)),
              off |-> p.off + n, ok |-> Readable(r.base, n)]

scatter_iovs(iovs, data) ==
    LET step[i \in 0..Len(iovs)] ==
            IF i = 0 THEN [mem |-> mem, off |-> 0, ok |-> TRUE] ELSE Scatter(step[i - 1], iovs[i], data)
    IN  step[Len(iovs)]

copy_process_vm(src, dst) ==
    LET from == read_guest_iovs(src)
        to == read_guest_iovs(dst)
        done == scatter_iovs(to, gather_iovs(from))
    IN  IF Len(src) > MaxIovs \/ Len(dst) > MaxIovs THEN [mem |-> mem, answer |-> EINVAL]
        ELSE IF ~Gatherable(from) THEN [mem |-> mem, answer |-> EFAULT]
        ELSE [mem |-> done.mem, answer |-> IF done.ok THEN Ok(done.off) ELSE EFAULT]

Call(name, alive, src, dst) ==
    LET r == IF alive THEN copy_process_vm(src, dst) ELSE [mem |-> mem, answer |-> ESRCH]
    IN  /\ copies < MaxCopies /\ copies' = copies + 1
        /\ mem' = r.mem
        /\ last' = [call |-> name, src |-> src, dst |-> dst, before |-> mem, answer |-> r.answer]
        /\ UNCHANGED present

process_vm_readv(alive, local, remote) == Call("readv", alive, remote, local)
process_vm_writev(alive, local, remote) == Call("writev", alive, local, remote)

VmNext == \E alive \in BOOLEAN, l, r \in Vectors :
             process_vm_readv(alive, l, r) \/ process_vm_writev(alive, l, r)

VmSpec == VmInit /\ [][VmNext]_vmVars

-----------------------------------------------------------------------------
(* The addresses a list stands for, in order: the reference for both sides.*)
RangeOf(r) == IF r.base = 0 THEN <<>> ELSE [k \in 1..Capped(r).len |-> r.base + k - 1]
AddressesOf(v) ==
    LET all[i \in 0..Len(v)] == IF i = 0 THEN <<>> ELSE all[i - 1] \o RangeOf(v[i])
    IN  all[Len(v)]

(* The memory after n bytes of a copy, byte i from address from[i] to      *)
(* address to[i], the source read before anything is written and later     *)
(* writes winning.                                                         *)
AfterCopy(before, from, to, n) ==
    LET at(a) == {i \in 1..n : to[i] = a}
    IN  [a \in 1..Bytes |-> IF at(a) = {} THEN before[a]
                            ELSE before[from[CHOOSE i \in at(a) : \A j \in at(a) : j <= i]]]

Copied(n) == AfterCopy(last.before, AddressesOf(last.src), AddressesOf(last.dst), n)

Total == LET f == Len(AddressesOf(last.src))
             t == Len(AddressesOf(last.dst))
         IN  IF f < t THEN f ELSE t

(* A call that succeeds copies as many bytes as the shorter list has and   *)
(* says so, byte i of the source list to byte i of the destination list,   *)
(* also where the lists overlap, and touches nothing else.                 *)
CopyExact ==
    last.call # "none" /\ last.answer[1] = "ok" => last.answer = Ok(Total) /\ mem = Copied(Total)

(* A call that fails leaves a prefix of the copy, and none of it when a    *)
(* byte of the source list cannot be read.                                 *)
FaultLeavesPrefix ==
    last.call # "none" /\ last.answer[1] = "err" =>
        /\ \E n \in 0..Total : mem = Copied(n)
        /\ (\E i \in 1..Len(AddressesOf(last.src)) : PageOf(AddressesOf(last.src)[i]) \notin present)
               => mem = last.before

(* process_vm_readv and process_vm_writev are exact: both of the above.    *)
VmCopyExact == CopyExact /\ FaultLeavesPrefix
=============================================================================
