------------------------------- MODULE Output -------------------------------
(***************************************************************************)
(* main around its loop, and emitter_output_elf: the calls that prepare    *)
(* the run, the assembly of the input (module Assembler), and the writes   *)
(* that make the executable, any of which may fail or stop short.  The     *)
(* executable is read back the way a loader maps it.                       *)
(***************************************************************************)
EXTENDS Assembler, FiniteSetsExt

CONSTANTS
  EhdrSize, PhdrSize,  \* sizes of the ELF and of a program header: 64 and 56
  PageSize,            \* 4096
  OldSizes,            \* sizes the output file may have before the run
  start_label          \* "_start", in Label or not

ASSUME SizesAssumption ==
  EhdrSize \in Nat \ {0} /\ PhdrSize \in Nat \ {0} /\ PageSize \in Nat \ {0}

ASSUME OldSizesAssumption == OldSizes \subseteq Nat

VARIABLES
  stage,    \* what main does next; "done" when it has returned
  exit,     \* its exit code, or -1 while it runs
  out,      \* the bytes of the output file
  off,      \* the file offset of output_fd
  faulty    \* history: a call failed or did less than it was asked

outvars == <<stage, exit, out, off, faulty>>
allvars == <<vars, outvars>>

Cell(kind) == Plain(kind)

\* main's calls before the loop, each of which ends the run if it fails.
Setup == <<"argparse", "strcmp", "open output", "open input", "fstat", "st_size",
           "mmap", "calloc", "open swap">>

OutInit ==
  /\ Init
  /\ stage = Setup[1]
  /\ exit = -1
  /\ \E n \in OldSizes : out = [i \in 1 .. n |-> Cell("old")]
  /\ off = 0
  /\ faulty = FALSE

Return(code) == stage' = "done" /\ exit' = code

------------------------------------------------------------------------------
(* Before the loop: nothing is truncated or written *)

SetupCall(k) ==
  /\ stage = Setup[k]
  /\ \/ /\ stage' = IF k < Len(Setup) THEN Setup[k + 1] ELSE "loop"
        /\ UNCHANGED <<exit, faulty>>
     \/ Return(1) /\ faulty' = TRUE
  /\ UNCHANGED <<vars, out, off>>

Loop ==
  /\ stage = "loop"
  /\ pc \in Parsing
  /\ Next
  /\ UNCHANGED outvars

\* parse_line's message, panic or an assertion ends the run.
LoopFails ==
  /\ stage = "loop"
  /\ pc \in {"error", "panic", "assert"}
  /\ Return(1)
  /\ UNCHANGED <<vars, out, off, faulty>>

LoopEnds ==
  /\ stage = "loop"
  /\ pc = "output"
  /\ stage' = "header"
  /\ UNCHANGED <<vars, exit, out, off, faulty>>

------------------------------------------------------------------------------
(* The headers *)

HasData == pos["SECT_DATA"] > 0

after == EhdrSize + PhdrSize + IF HasData THEN PhdrSize ELSE 0

RoundUp(n) == ((n + PageSize - 1) \div PageSize) * PageSize

DataOffset == RoundUp(pos["SECT_TEXT"])

Phdr(s) == [p_offset |-> IF s = "SECT_TEXT" THEN 0 ELSE DataOffset,
            p_vaddr  |-> vaddr[s],
            p_filesz |-> pos[s]]

e_entry ==
  after + IF start_label \in keys THEN val[start_label] ELSE vaddr["SECT_TEXT"]

------------------------------------------------------------------------------
(* The writes *)

\* bytes written at output_fd's offset; a hole before them reads as zeros.
Overwritten(bytes) ==
  [i \in 1 .. Max({Len(out), off + Len(bytes)}) |->
     IF off < i /\ i <= off + Len(bytes) THEN bytes[i - off]
     ELSE IF i <= Len(out) THEN out[i] ELSE Cell("zero")]

Put(bytes) ==
  /\ out' = IF bytes = <<>> THEN out ELSE Overwritten(bytes)
  /\ off' = off + Len(bytes)

\* Mutant: only an error is noticed, not a short count.
AcceptsShort(moved, wanted) == TRUE

AllMoved(moved, wanted) == moved = wanted

(***************************************************************************)
(* A write or copy_file_range of wanted bytes, of which bytes are there to *)
(* be read: it moves all of them, fewer (here: all but one), or fails;     *)
(* next is the stage after it.                                             *)
(***************************************************************************)
Transfer(bytes, wanted, next) ==
  /\ \/ \E n \in {Len(bytes) - 1, Len(bytes)} \cap Nat :
          /\ Put(SubSeq(bytes, 1, n))
          /\ faulty' = (faulty \/ n < Len(bytes))
          /\ IF AllMoved(n, wanted)
             THEN stage' = next /\ exit' = IF next = "done" THEN 0 ELSE exit
             ELSE Return(1)
     \/ Return(1) /\ faulty' = TRUE /\ UNCHANGED <<out, off>>
  /\ UNCHANGED vars

WriteHeader ==
  /\ stage = "header"
  /\ Transfer([i \in 1 .. after |-> Cell("header")], after, "copy text")

\* emit_section: what the swap file holds, up to its size, then the buffer.
CopySwap(s, next) ==
  Transfer(SubSeq(swap[s], 1, swap_size[s]), pos[s] - len(s), next)

WriteBuffer(s, next) == Transfer(buf[s], len(s), next)

EmitText ==
  \/ stage = "copy text"  /\ CopySwap("SECT_TEXT", "write text")
  \/ stage = "write text" /\ WriteBuffer("SECT_TEXT", IF HasData THEN "seek" ELSE "done")

SeekData ==
  /\ stage = "seek"
  /\ \/ /\ off' = DataOffset
        /\ stage' = "copy data"
        /\ UNCHANGED <<exit, faulty>>
     \/ Return(1) /\ faulty' = TRUE /\ UNCHANGED off
  /\ UNCHANGED <<vars, out>>

EmitData ==
  \/ stage = "copy data"  /\ CopySwap("SECT_DATA", "write data")
  \/ stage = "write data" /\ WriteBuffer("SECT_DATA", "done")

Returned == stage = "done" /\ UNCHANGED allvars

OutNext ==
  \/ \E k \in DOMAIN Setup : SetupCall(k)
  \/ Loop \/ LoopFails \/ LoopEnds
  \/ WriteHeader \/ EmitText \/ SeekData \/ EmitData
  \/ Returned

OutSpec == OutInit /\ [][OutNext]_allvars

------------------------------------------------------------------------------
(* The loader *)

Segments == {"SECT_TEXT"} \cup IF HasData THEN {"SECT_DATA"} ELSE {}

\* Where address a of a segment is in the file; whole pages are mapped.
Mapped(s, a) == vaddr[s] <= a /\ a < vaddr[s] + RoundUp(Phdr(s).p_filesz)
FileIndex(s, a) == Phdr(s).p_offset + a - Phdr(s).p_vaddr + 1

\* Where the first byte of section s is in memory.
Base(s) == vaddr[s] + IF s = "SECT_TEXT" THEN after ELSE 0

\* Byte i of section s is in memory, at its place.
IsLoaded(s, i) ==
  LET a == Base(s) + i - 1 IN
  /\ (Phdr(s).p_offset - Phdr(s).p_vaddr) % PageSize = 0
  /\ Mapped(s, a)
  /\ FileIndex(s, a) \in DOMAIN out
  /\ out[FileIndex(s, a)] = Image(s)[i]

AllLoaded == \A s \in Segments : \A i \in 1 .. pos[s] : IsLoaded(s, i)

\* main does not check that the base addresses it is given are page aligned.
BasesAligned == \A s \in Section : vaddr[s] % PageSize = 0

\* The headers and the text end in the page in which the text alone would end.
TextFits == after + pos["SECT_TEXT"] <= RoundUp(pos["SECT_TEXT"])

------------------------------------------------------------------------------
(* Properties *)

(***************************************************************************)
(* main returns 0 only if every write did all its work: when the headers   *)
(* fit into the text's last page, the sections are in memory byte by byte, *)
(* the text behind the headers and the data at its address, whatever the   *)
(* output file held before and whatever was spilled or left as a hole.     *)
(***************************************************************************)
ZeroMeansLoaded == exit = 0 /\ TextFits /\ BasesAligned => AllLoaded

------------------------------------------------------------------------------
(* What the comments say, and the code does not do *)

\* emitter.h: emitter_advance makes space "possibly with the help of a hole in
\* the file buffer".  Fails: a hole at the end of the file is not copied, and
\* main reports an error although no call failed.
HolesAreEmitted == exit = 1 /\ pc = "output" => faulty

\* emitter.c: the text segment "wraps in the elf/program headers".  Fails: the
\* headers are not counted in the segment's size nor in the data's offset, so
\* the end of the text is not mapped, or the data is written over it.
HeadersCounted == exit = 0 /\ BasesAligned => AllLoaded

\* Where _start was defined, if it was, is in the text.
StartInText ==
  /\ start_label \in keys
  /\ defs[start_label] # {}
  /\ defs[start_label] \subseteq vaddr["SECT_TEXT"] .. vaddr["SECT_TEXT"] + pos["SECT_TEXT"]

\* emitter.c: the file's headers are in front of the text, "so adjust the entry
\* point to compensate".  Fails: a _start that was referenced before it was
\* defined still has val -1, so the entry point is one less than the headers'
\* size, wherever the text is.
EntryInText ==
  exit = 0 /\ StartInText =>
    e_entry \in Base("SECT_TEXT") .. Base("SECT_TEXT") + pos["SECT_TEXT"]
==============================================================================
