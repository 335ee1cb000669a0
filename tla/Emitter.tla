------------------------------- MODULE Emitter -------------------------------
(***************************************************************************)
(* emitter.c and emitter.h: per section, a fixed buffer that spills into a *)
(* temporary file, and the map of labels with the references that wait for *)
(* their definition.  Operations carry the names of the C functions.       *)
(***************************************************************************)
EXTENDS Bytes

CONSTANT BufSize     \* sizeof section_buf[0]: 4096 in the code

\* emitter_buffer's loop runs at most once: no caller passes more than the
\* 8 bytes of a .dword.
ASSUME BufSizeAssumption == BufSize \in Nat /\ BufSize >= 8

VARIABLES
  current_section,
  buf,         \* section_buf[s][0 .. len-1], the bytes not yet in the file
  pos,         \* bytes written to the section so far, as the emitter counts
  swap,        \* the section's file up to its offset; a hole reads as zeros
  swap_size,   \* the file's size: an lseek past the end does not extend it
  keys,        \* the labels the map holds
  val,         \* label.val, negative while unassigned
  waiters      \* label.waiters, in the order they were pushed

sections == <<buf, pos, swap, swap_size>>
labels   == <<keys, val, waiters>>

Waiter == [fix_idx : Nat, section : Section, assign : AssignType]

len(s) == Len(buf[s])

\* Everything the section holds, wherever it is stored.
Image(s) == swap[s] \o buf[s]

EmitterInit ==
  /\ current_section = "SECT_TEXT"
  /\ buf       = [s \in Section |-> <<>>]
  /\ pos       = [s \in Section |-> 0]
  /\ swap      = [s \in Section |-> <<>>]
  /\ swap_size = [s \in Section |-> 0]
  /\ keys      = {}
  /\ val       = [l \in Label |-> -1]
  /\ waiters   = [l \in Label |-> <<>>]

------------------------------------------------------------------------------
(* Sections *)

\* Mutant: the buffer may be filled to its last byte.
FullTooLate(s, n) == len(s) + n > BufSize

\* Would n more bytes reach the end of the buffer?  The code spills as soon as
\* the buffer would be exactly full.
Full(s, n) == len(s) + n >= BufSize

\* Mutant: the buffer is written over what the file held.
ClearFromStart(s, hole) ==
  /\ swap' = [swap EXCEPT ![s] = buf[s] \o hole]
  /\ swap_size' = [swap_size EXCEPT ![s] = len(s)]

\* write() of the buffer to the file, then lseek over the hole.
emitter_clear_buffer(s, hole) ==
  /\ swap' = [swap EXCEPT ![s] = @ \o buf[s] \o hole]
  /\ swap_size' = [swap_size EXCEPT
                     ![s] = IF buf[s] = <<>> THEN @ ELSE Len(swap[s]) + len(s)]

\* How far emitter_buffer advances pos when it spills: len has already lost
\* the part that was copied to fill the buffer.
Spilled(data) == Len(data) - (BufSize - len(current_section))

(***************************************************************************)
(* When the data reaches the end of the buffer, its first bytes are copied *)
(* behind the len bytes in use, emitter_clear_buffer writes len bytes to   *)
(* the file, and the loop goes on with the rest: the copied bytes are in   *)
(* neither the file nor the buffer.                                        *)
(***************************************************************************)
emitter_buffer(data) ==
  LET s == current_section IN
  \/ /\ ~ Full(s, Len(data))
     /\ buf' = [buf EXCEPT ![s] = @ \o data]
     /\ pos' = [pos EXCEPT ![s] = @ + Len(data)]
     /\ UNCHANGED <<swap, swap_size>>
  \/ /\ Full(s, Len(data))
     /\ emitter_clear_buffer(s, <<>>)
     /\ buf' = [buf EXCEPT ![s] = SubSeq(data, BufSize - len(s) + 1, Len(data))]
     /\ pos' = [pos EXCEPT ![s] = @ + Spilled(data)]

emitter_advance(n) ==
  LET s == current_section IN
  /\ pos' = [pos EXCEPT ![s] = @ + n]
  /\ \/ /\ ~ Full(s, n)
        /\ buf' = [buf EXCEPT ![s] = @ \o Zeros(n)]
        /\ UNCHANGED <<swap, swap_size>>
     \/ /\ Full(s, n)
        /\ emitter_clear_buffer(s, Zeros(n))
        /\ buf' = [buf EXCEPT ![s] = <<>>]

------------------------------------------------------------------------------
(* Labels *)

\* The address a label gets if it is defined now.
Here == pos[current_section] + vaddr[current_section]

\* Where the waiting instruction starts in its buffer, counted from 0.
Target(w) == len(w.section) - (pos[w.section] - w.fix_idx)

\* Mutant: the displacement is computed in the section of the definition.
FixOfHere(w) == FixTo(w.assign, Here, current_section, w.fix_idx)

\* Mutant: the displacement is computed from the place in the buffer.
FixOfBuffered(w) == FixTo(w.assign, Here, w.section, Target(w))

FixOf(w) == FixTo(w.assign, Here, w.section, w.fix_idx)

\* Mutant: the check that the instruction is still in the buffer is forgotten.
NeverFlushed(w) == FALSE

\* The waiting instruction has left the buffer for the file.
Flushed(w) == pos[w.section] - len(w.section) > w.fix_idx

\* Mutant: only the oldest reference is completed.
CompletesFirst(l, s, i) ==
  { k \in DOMAIN waiters[l] \cap {1} :
      waiters[l][k].section = s /\ i \in Target(waiters[l][k]) + 1 .. Target(waiters[l][k]) + 4 }

\* The waiters of l whose instruction covers byte i of the buffer of s.
Completes(l, s, i) ==
  { k \in DOMAIN waiters[l] :
      waiters[l][k].section = s /\ i \in Target(waiters[l][k]) + 1 .. Target(waiters[l][k]) + 4 }

PatchedBuf(l) ==
  [s \in Section |-> [i \in DOMAIN buf[s] |->
     [buf[s][i] EXCEPT !.imm = @ \cup {FixOf(waiters[l][k]) : k \in Completes(l, s, i)}]]]

\* What the loop over the waiters does with one of them.
WaiterFate(w) ==
  IF Flushed(w) THEN "panic"
  ELSE IF Target(w) + 4 > len(w.section) THEN "assert"
  ELSE "patch"

\* emitter_label_add returns 0.  A label that was referenced first keeps its
\* negative val: nothing assigns it once its waiters are resolved.
emitter_label_add(l) ==
  \/ /\ l \notin keys
     /\ keys' = keys \cup {l}
     /\ val' = [val EXCEPT ![l] = Here]
     /\ UNCHANGED <<waiters, sections>>
  \/ /\ l \in keys
     /\ val[l] < 0
     /\ \A k \in DOMAIN waiters[l] : WaiterFate(waiters[l][k]) = "patch"
     /\ buf' = PatchedBuf(l)
     /\ waiters' = [waiters EXCEPT ![l] = <<>>]
     /\ UNCHANGED <<keys, val, pos, swap, swap_size>>

\* emitter_label_add returns -1.
Duplicate(l) == l \in keys /\ val[l] >= 0

\* emitter_label_add stops the program: the first waiter that cannot be
\* completed decides how.
LabelAddStops(l, fate) ==
  /\ l \in keys
  /\ val[l] < 0
  /\ \E k \in DOMAIN waiters[l] :
       /\ WaiterFate(waiters[l][k]) = fate
       /\ fate # "patch"
       /\ \A j \in 1 .. k - 1 : WaiterFate(waiters[l][j]) = "patch"

\* Mutant: the waiter is registered past the instruction, not at it.
WaiterAtNext(a) ==
  [fix_idx |-> pos[current_section] + 4, section |-> current_section, assign |-> a]

\* Mutant: the waiter is registered as if its instruction were already buffered.
WaiterAtPrevious(a) ==
  [fix_idx |-> pos[current_section] - 4, section |-> current_section, assign |-> a]

\* Mutant: the waiter is registered with the place in the buffer.
WaiterInBuffer(a) ==
  [fix_idx |-> len(current_section), section |-> current_section, assign |-> a]

WaiterHere(a) ==
  [fix_idx |-> pos[current_section], section |-> current_section, assign |-> a]

emitter_label_get_or_add_waiter(l, a) ==
  /\ keys' = keys \cup {l}
  /\ waiters' = IF val[l] < 0 THEN [waiters EXCEPT ![l] = Append(@, WaiterHere(a))]
                              ELSE waiters
  /\ UNCHANGED val

------------------------------------------------------------------------------
(* Invariant *)

\* The offsets in labels, waiters and the ELF header are those of the bytes:
\* pos always names the place where the next byte of the section lands, across
\* spills, holes and lost bytes, and neither memcpy nor bzero passes the end of
\* the buffer, which always has a byte to spare.
PosIsOffset ==
  \A s \in Section : pos[s] = Len(swap[s]) + len(s) /\ len(s) < BufSize
==============================================================================
