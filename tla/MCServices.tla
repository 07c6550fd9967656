----------------------------- MODULE MCServices -----------------------------
(* The services a guest asks of the host, for TLC.  A behaviour is about one *)
(* of them: a traced thread ("trace", module Ptrace), an open file ("file",  *)
(* module FileStreams), the SVC callback ("gate", module SvcGate), walks of  *)
(* dl_iterate_phdr ("walk", module DlIterate), the stack of an executable    *)
(* that is started ("entry", module EntryStack).  Two guests go on until     *)
(* they are told to stop: one reads a file or lists a directory ("reader"),  *)
(* one continues a worker whose breakpoints are set ("tracer").              *)
EXTENDS Ptrace, FileStreams, SvcGate, DlIterate

VARIABLES part, entry_stack, todo, ptrs, args, dirty

entryVars == <<entry_stack, todo, ptrs, args, dirty>>

\* Paths that share addresses, as the cold and the hot path of a worker do.
SharedPaths == {<<1, 2>>, <<3, 2>>, <<2, 3, 1>>}

AllKinds == StreamKinds \cup {"stdio", "dir"}

\* A name of 8 characters takes a record of 32 bytes as "." does, one of 9 takes 40.
SmallDirs == {<<>>, <<9>>, <<9, 3>>, <<8, 9, 17>>, <<17, 3, 9, 8>>}

SeekOffsets == -2..2

\* Numbers with an arm, numbers of the enum without one, the edges of the
\* enum's ranges, and numbers beyond them.
SvcNumbers == {0, 56, 95, 115, 244, 260, 291, 292, 293, 435, 439, 1024, 1056} \cup {294, 436, 1080}

Entry == INSTANCE EntryStack WITH MaxArgs <- 3, Lengths <- {0, 15, 16}, stack <- entry_stack

\* The initial states of the parts that a behaviour is not about.
TraceUnused == TraceInit /\ path = [t \in Tids |-> NoPath]
FileUnused == FileInit /\ kind = "stdio"
EntryUnused == Entry!Init /\ args = <<0>> /\ dirty = FALSE

MCInit ==
  /\ GateInit /\ WalkInit
  /\ \/ part = "trace" /\ TraceInit /\ FileUnused /\ EntryUnused
     \/ part \in {"file", "reader"} /\ TraceUnused /\ FileInit /\ EntryUnused
     \/ part \in {"gate", "walk"} /\ TraceUnused /\ FileUnused /\ EntryUnused
     \/ part = "entry" /\ TraceUnused /\ FileUnused /\ Entry!Init
     \/ part = "tracer" /\ Armed /\ FileUnused /\ EntryUnused

(* The steps that go on by themselves: guest code inside a walk runs, the    *)
(* reading guest and the tracer make their next call.                        *)
WalkStep == part = "walk" /\ WalkNext /\ UNCHANGED <<part, traceVars, fileVars, gateVars, entryVars>>
ReadStep ==
  part = "reader" /\ (ReadOn \/ ListOn) /\ UNCHANGED <<part, traceVars, gateVars, entryVars, walkVars>>
TraceStep ==
  /\ part = "tracer" /\ \E t \in Tids : Continue(t)
  /\ UNCHANGED <<part, fileVars, gateVars, entryVars, walkVars>>

MCNext ==
  \/ part = "trace" /\ TraceNext /\ UNCHANGED <<part, fileVars, gateVars, entryVars, walkVars>>
  \/ part = "file" /\ FileNext /\ UNCHANGED <<part, traceVars, gateVars, entryVars, walkVars>>
  \/ part = "gate" /\ GateNext /\ UNCHANGED <<part, traceVars, fileVars, entryVars, walkVars>>
  \/ part = "entry" /\ Entry!Next /\ UNCHANGED <<part, traceVars, fileVars, gateVars, walkVars>>
  \/ WalkStep \/ ReadStep \/ TraceStep
  \/ /\ part = "tracer" /\ \E t \in Tids : Wait4Report(t)
     /\ UNCHANGED <<part, fileVars, gateVars, entryVars, walkVars>>

all == <<part, traceVars, fileVars, gateVars, entryVars, walkVars>>
MCSpec == MCInit /\ [][MCNext]_all /\ WF_all(WalkStep) /\ WF_all(ReadStep) /\ WF_all(TraceStep)

-----------------------------------------------------------------------------
(* An executable finds on the stack call_entry built its arguments, the      *)
(* environment strings and, by getauxval, every entry of the auxiliary       *)
(* vector, with the stack pointer 16 byte aligned, whatever the number and   *)
(* the lengths of the arguments.                                             *)
EntryReadBack ==
  part = "entry" =>
    Entry!ArgumentsRead /\ Entry!EnvironmentRead /\ Entry!AuxiliaryRead /\ Entry!EntryAligned

(* What must come to an end does: a walk whose callbacks return, a guest     *)
(* that reads on meets the end of the file, one that lists on with a large   *)
(* enough buffer gets every entry, a worker that is continued again and      *)
(* again passes its breakpoints and runs free.                               *)
LoopsEnd ==
  /\ part = "walk" => WalkEnds
  /\ part = "reader" => LoopEnds
  /\ part = "tracer" => RunsFree
=============================================================================
