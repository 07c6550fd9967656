---------------------------- MODULE FileStreams ----------------------------
(* One open file of the emulated file system, of any of its kinds, and the   *)
(* calls a guest makes on its descriptor: read, write, lseek, getdents64 and *)
(* the mapping of the file.                                                  *)
(*                                                                           *)
(*   bytes    ByteArrayFileIO: a buffer the file resolver provides           *)
(*   host     LinuxFileIO: a file of the host                                *)
(*   proc     Cpuinfo and Meminfo: a fixed page of text                      *)
(*   bootid   RandomBootId                                                   *)
(*   maps     Maps                                                           *)
(*   stdio    StdinIO and StdoutIO                                           *)
(*   dir      Direction                                                      *)
(*                                                                           *)
(* The content is a sequence of bytes, told apart so that a byte delivered   *)
(* twice or not at all shows. What the guest received since it opened the    *)
(* file or last moved the cursor is kept in the history variable got.        *)
EXTENDS Integers, Sequences

CONSTANTS
  Kinds,      \* the kinds of file that may be open
  Sizes,      \* sizes of the file's content
  Counts,     \* byte counts of read and write
  Offsets,    \* offsets given to lseek
  MaxPos,     \* bound on the cursor and on the size of a file that is written
  Dirs,       \* directories: sequences of the lengths of their names
  DirSizes    \* buffer sizes given to getdents64

ASSUME FilesAssumption ==
  /\ MaxPos \in Nat /\ Sizes \subseteq 0..MaxPos
  /\ Counts \subseteq Nat \ {0} /\ Offsets \subseteq Int
  /\ Dirs \subseteq Seq(Nat) /\ DirSizes \subseteq Nat

StreamKinds == {"bytes", "host", "proc", "bootid", "maps"}

VARIABLES
  kind,      \* the kind of the open file
  flags,     \* access of a host file: "r", "w" or "a" (O_APPEND)
  content,   \* its bytes
  pos,       \* the cursor (data.position(), pos); i64 and u64 agree on it
  files,     \* Direction.files: the entries not listed yet
  off,       \* Direction.off: the next d_off
  panicked,  \* the emulator has stopped on an unreachable!, panic! or unwrap
  got,       \* history: bytes delivered since the cursor was last placed
  from,      \* history: where the guest was told the cursor then was
  first,     \* history: byte count of the first read since then, or 0
  ended,     \* history: the last read answered 0
  mapped,    \* history: the file has been mapped
  records,    \* history: the records getdents64 has written
  call       \* history: buffer size and answer of the last getdents64

fileVars == <<kind, flags, content, pos, files, off, panicked, got, from, first, ended, mapped, records, call>>
history == <<got, from, first, ended>>
static == <<kind, flags>>
dir == <<files, off, records, call>>

Byte == 0..MaxPos
Size == Len(content)

----------------------------------------------------------------------------
(* Direction::new puts "." and ".." before the entries it is given.          *)
DirectionEntries(names) ==
  LET all == <<1, 2>> \o names
  IN  [i \in DOMAIN all |-> [name |-> i, len |-> all[i]]]

FileInit ==
  /\ kind \in Kinds
  /\ flags \in IF kind = "host" THEN {"r", "w", "a"} ELSE {"r"}
  /\ \E n \in IF kind \in StreamKinds THEN Sizes ELSE {0} : content = [i \in 1..n |-> i]
  /\ \E names \in Dirs : files = IF kind = "dir" THEN DirectionEntries(names) ELSE <<>>
  /\ pos = 0 /\ off = 1 /\ panicked = FALSE
  /\ got = <<>> /\ from = 0 /\ first = 0 /\ ended = FALSE /\ mapped = FALSE
  /\ records = <<>> /\ call = [size |-> 0, answer |-> 0]

Panic == panicked' = TRUE /\ UNCHANGED <<static, content, pos, dir, history, mapped>>

(* Place(p): the guest has been told that the cursor is at p.                *)
Place(p) == from' = p /\ got' = <<>> /\ first' = 0 /\ ended' = FALSE

----------------------------------------------------------------------------
(* What read delivers for each kind. Cpuinfo, Meminfo and RandomBootId look  *)
(* at the cursor only to detect the end: the bytes are always those from the *)
(* start of the file, as many as the buffer takes.                           *)
Outside == pos < 0 \/ pos >= Size

(* Mutant: a read that meets the end is clamped one byte short.              *)
ReadBytesShort(count) ==
  IF Outside THEN <<>>
  ELSE SubSeq(content, pos + 1, pos + (IF count >= Size - pos THEN Size - pos - 1 ELSE count))

ReadBytesAtCursor(count) ==
  IF Outside THEN <<>>
  ELSE SubSeq(content, pos + 1, pos + (IF count > Size - pos THEN Size - pos ELSE count))

ReadSnapshot(count) ==
  IF Outside THEN <<>> ELSE SubSeq(content, 1, IF count > Size THEN Size ELSE count)

ReadBytes(count) ==
  IF kind \in {"proc", "bootid"} THEN ReadSnapshot(count) ELSE ReadBytesAtCursor(count)

(* The cursor after n bytes have been read.                                  *)
Advance(n) == pos + n

(* syscall_read. A directory is readable by its mode and then unreachable!.  *)
Read(count) ==
  /\ ~panicked
  /\ IF kind = "dir" THEN Panic
     ELSE LET data == ReadBytes(count)
          IN  /\ pos' = Advance(Len(data))
              /\ got' = got \o data
              /\ first' = IF first = 0 THEN count ELSE first
              /\ ended' = (data = <<>>)
              /\ UNCHANGED <<static, content, dir, from, panicked, mapped>>

----------------------------------------------------------------------------
(* lseek. Maps and directories do not support it. The position is kept as a  *)
(* signed number: a negative one is a huge usize, beyond the end of any file.*)
Target(offset, whence) ==
  CASE whence = "set" -> offset
    [] whence = "cur" -> pos + offset
    [] whence = "end" -> Size + offset

(* Seeks that are answered ENXIO and move nothing: a host file refuses a     *)
(* position before its start, RandomBootId looks at the offset alone.        *)
BootIdError(offset) == offset < 0 \/ offset > Size
OffsetError(offset, whence) ==
  \/ kind = "host" /\ Target(offset, whence) < 0
  \/ kind = "bootid" /\ BootIdError(offset)

(* The position the call leaves the cursor at, and the one it answers.       *)
Seek(offset, whence) == Target(offset, whence)

Lseek(offset, whence) ==
  /\ ~panicked
  /\ Target(offset, whence) \in -MaxPos..MaxPos
  /\ CASE kind \in {"maps", "dir"} -> Panic
       [] kind = "stdio" \/ OffsetError(offset, whence) -> UNCHANGED fileVars
       [] OTHER -> /\ pos' = Seek(offset, whence)
                   /\ Place(Target(offset, whence))
                   /\ UNCHANGED <<static, content, dir, panicked, mapped>>

----------------------------------------------------------------------------
(* A write of n bytes at a position of a host file, the gap before it filled.*)
Written(bytes, at, n) ==
  [i \in 1..(IF at + n > Len(bytes) THEN at + n ELSE Len(bytes)) |->
    IF i \in at + 1..at + n THEN 0
    ELSE IF i <= Len(bytes) THEN bytes[i] ELSE 0]

WriteAt == IF flags = "a" THEN Size ELSE pos

(* syscall_write and syscall_writev with the calls made by libc.so. Only     *)
(* host files opened for writing and the standard streams take data.         *)
Write(count) ==
  /\ ~panicked
  /\ IF kind = "stdio" THEN UNCHANGED fileVars
     ELSE IF kind # "host" \/ flags = "r" THEN Panic
     ELSE /\ WriteAt + count <= MaxPos
          /\ content' = Written(content, WriteAt, count)
          /\ pos' = WriteAt + count
          /\ Place(WriteAt + count)
          /\ UNCHANGED <<static, dir, panicked, mapped>>

(* FileIO::mmap reads the whole file through to_vec, which leaves the cursor *)
(* of a host file at its end. The files of /proc cannot be mapped.           *)
Mmap ==
  /\ ~panicked
  /\ kind \in StreamKinds \cup {"dir"}
  /\ IF kind \in {"bytes", "host"}
     THEN /\ pos' = IF kind = "host" THEN Size ELSE pos
          /\ mapped' = TRUE
          /\ UNCHANGED <<static, content, dir, panicked, history>>
     ELSE Panic

----------------------------------------------------------------------------
(* getdents64 of a directory.                                                *)
RecLen(len) == ((len + 24 - 1) \div 8 + 1) * 8

(* One entry of the retain loop: it is written when it fits with room to     *)
(* spare, and kept for a later call when it does not.                        *)
Fits(used, entry, size) == used + RecLen(entry.len) < size

(* Mutant: an entry that does not fit is dropped.                            *)
VisitDrops(size, acc, entry) ==
  IF Fits(acc.used, entry, size)
  THEN [acc EXCEPT !.used = @ + RecLen(entry.len),
                   !.out = Append(@, [name |-> entry.name, off |-> acc.next]),
                   !.next = @ + 1]
  ELSE acc

Visit(size, acc, entry) ==
  IF Fits(acc.used, entry, size)
  THEN [acc EXCEPT !.used = @ + RecLen(entry.len),
                   !.out = Append(@, [name |-> entry.name, off |-> acc.next]),
                   !.next = @ + 1]
  ELSE [acc EXCEPT !.kept = Append(@, entry)]

Retain(size) ==
  LET visited[i \in 0..Len(files)] ==
        IF i = 0 THEN [used |-> 0, kept |-> <<>>, out |-> <<>>, next |-> off]
        ELSE Visit(size, visited[i - 1], files[i])
  IN  visited[Len(files)]

Getdents64(size) ==
  /\ ~panicked
  /\ IF kind # "dir" THEN Panic
     ELSE LET r == Retain(size)
          IN  /\ files' = r.kept
              /\ off' = r.next
              /\ records' = records \o r.out
              /\ call' = [size |-> size, answer |-> r.used]
              /\ UNCHANGED <<static, content, pos, history, panicked, mapped>>

----------------------------------------------------------------------------
FileNext ==
  \/ \E count \in Counts : Read(count) \/ Write(count)
  \/ \E offset \in Offsets, whence \in {"set", "cur", "end"} : Lseek(offset, whence)
  \/ Mmap
  \/ \E size \in DirSizes : Getdents64(size)

FileSpec == FileInit /\ [][FileNext]_fileVars

(* A guest that only reads, as a loop until read answers 0 does, and one     *)
(* that lists a directory with a buffer larger than any of its records.      *)
AllEntries == {files[i] : i \in DOMAIN files}
Roomy(size) == \A e \in AllEntries : RecLen(e.len) < size

ReadOn == kind # "dir" /\ \E count \in Counts : Read(count)
ListOn == kind = "dir" /\ \E size \in DirSizes : Roomy(size) /\ Getdents64(size)

----------------------------------------------------------------------------
(* Every variable holds a value of its kind; a directory delivers no bytes.  *)
FileTypeOK ==
  /\ kind \in Kinds /\ flags \in {"r", "w", "a"}
  /\ content \in Seq(Byte) /\ got \in Seq(Byte)
  /\ pos \in Int /\ from \in Int /\ first \in Nat /\ off \in Nat
  /\ {panicked, ended, mapped} \subseteq BOOLEAN
  /\ kind # "dir" => files = <<>> /\ records = <<>>
  /\ kind = "maps" => pos \in 0..Size

(* The read calls of a guest on a resolver's buffer, a host file or          *)
(* /proc/self/maps deliver, one after the other, the bytes from the place    *)
(* where the guest was told the cursor is: none is left out, repeated or     *)
(* reordered, whatever the byte counts. The end is announced only there.     *)
SequentialReads ==
  kind \in {"bytes", "host", "maps"} /\ ~mapped =>
    /\ got # <<>> => got = SubSeq(content, from + 1, from + Len(got))
    /\ ended => \/ from < 0 \/ from + Len(got) >= Size

(* A guest that reads /proc/cpuinfo, /proc/meminfo or the boot id from the   *)
(* start into a buffer that holds the whole file receives exactly the file.  *)
WholeFileReads ==
  kind \in {"proc", "bootid"} /\ from = 0 /\ first >= Size /\ Size > 0 => got = content

(* The answer of lseek, plus the bytes read since, is where the cursor is:   *)
(* for every kind that can be positioned, whatever the offset and whence and *)
(* also after a seek that was refused.                                       *)
CursorAsTold == kind \in StreamKinds /\ ~mapped => pos = from + Len(got)

(* A write to a host file opened with O_APPEND changes no byte written       *)
(* before, wherever the cursor was moved in between.                         *)
AppendOnly ==
  [][flags = "a" => /\ Len(content) <= Len(content')
                    /\ \A i \in DOMAIN content : content'[i] = content[i]]_fileVars

(* Every entry of a directory is listed once or still to be listed, never    *)
(* both and never neither, whatever buffer sizes the calls have.             *)
EachEntryOnce ==
  kind = "dir" =>
    /\ \A i, j \in DOMAIN records : records[i].name = records[j].name => i = j
    /\ \A i, j \in DOMAIN files : files[i].name = files[j].name => i = j
    /\ \A i \in DOMAIN records, j \in DOMAIN files : records[i].name # files[j].name
    /\ \E names \in Dirs :
         {records[i].name : i \in DOMAIN records} \cup {e.name : e \in AllEntries} = 1..Len(names) + 2

(* The d_off of the listed records count up from 1 across calls, so that no  *)
(* two records of a listing carry the same position.                         *)
OffsetsCountUp == \A i \in DOMAIN records : records[i].off = i

(* A call whose buffer is larger than every record still to be listed lists  *)
(* one at least: the answer 0, which ends a listing, means there are none.   *)
ZeroMeansDone == Roomy(call.size) /\ call.answer = 0 /\ call.size > 0 => files = <<>>

(* The reads of a guest on a resolver's buffer, a host file or               *)
(* /proc/self/maps deliver the bytes from the place where the guest was told *)
(* the cursor is, none left out, repeated or reordered, and announce the end *)
(* only there, also after seeks that were refused; a /proc file read at once *)
(* is delivered whole; an append changes no byte written before, wherever    *)
(* the cursor was moved.                                                     *)
FileBytes ==
  /\ AppendOnly
  /\ [](FileTypeOK /\ SequentialReads /\ WholeFileReads /\ CursorAsTold)

(* getdents64: every entry of a directory is listed once or still to be      *)
(* listed, whatever buffer sizes the calls have, at positions that count up  *)
(* from 1; 0, which ends a listing, means that no entry that fits is left.   *)
FileListing == EachEntryOnce /\ OffsetsCountUp /\ ZeroMeansDone

(* A guest that reads on meets the end of the file, and one that lists on    *)
(* with a large enough buffer gets every entry.                              *)
LoopEnds == <>(ended \/ (kind = "dir" /\ files = <<>>))
=============================================================================
