------------------------------ MODULE Assembler ------------------------------
(***************************************************************************)
(* main's loop over the lines of the input and what parse_line makes each  *)
(* of them do to the emitter.  The input is any sequence of lines; what a  *)
(* line is made of (module Encoding, and later the parser) is abstracted   *)
(* to the emitter calls it leads to.                                       *)
(***************************************************************************)
EXTENDS Emitter

CONSTANTS
  DataSizes,   \* bytes per element of the data directives used: of {1,2,4,8}
  Spaces,      \* the operands of .space
  Blanks,      \* numbers of blanks between .ascii and its opening quote
  MaxBytes     \* bound: bytes an input asks for, per section

ASSUME DataSizesAssumption == DataSizes \subseteq {1, 2, 4, 8}
ASSUME SpacesAssumption == Spaces \subseteq Nat
ASSUME BlanksAssumption == Blanks \subseteq Nat
ASSUME MaxBytesAssumption == MaxBytes \in [Section -> Nat]

VARIABLES
  pc,      \* "line": main is at a new line; "array", "string": in a data
           \* directive; "output": the input is exhausted; otherwise an exit
  elem,    \* parse_data_array: bytes
  count,   \* parse_data_array: bytes_emitted; parse_string_literal: s - *_s
  asked,   \* history: bytes the input asked for, per section
  defs     \* history: the addresses each label was defined at

vars == <<current_section, buf, pos, swap, swap_size, keys, val, waiters,
          pc, elem, count, asked, defs>>

Parsing == {"line", "array", "string"}
Exits == {"output", "error", "panic", "assert"}

Init ==
  /\ EmitterInit
  /\ pc = "line"
  /\ elem = 0
  /\ count = 0
  /\ asked = [s \in Section |-> 0]
  /\ defs = [l \in Label |-> {}]

Room(n) == asked[current_section] + n <= MaxBytes[current_section]

Ask(n) == asked' = [asked EXCEPT ![current_section] = @ + n]

Stay == UNCHANGED <<pc, elem, count>>

------------------------------------------------------------------------------
(* Lines that make one emitter call *)

\* An instruction without a label operand.
OpLine ==
  /\ pc = "line"
  /\ Room(4)
  /\ emitter_buffer(Word("op", NoLabel, {}))
  /\ Ask(4)
  /\ Stay
  /\ UNCHANGED <<current_section, labels, defs>>

\* The displacement a branch is emitted with: none while the label is unknown.
ImmNow(l, a) ==
  IF val[l] < 0 THEN {}
  ELSE {FixTo(a, val[l], current_section, pos[current_section])}

\* A branch (B_TYPE) or jal (J_TYPE): the waiter is registered first.
JumpLine(l, a) ==
  /\ pc = "line"
  /\ Room(4)
  /\ emitter_label_get_or_add_waiter(l, a)
  /\ emitter_buffer(Word(a, l, ImmNow(l, a)))
  /\ Ask(4)
  /\ Stay
  /\ UNCHANGED <<current_section, defs>>

LabelLine(l) ==
  /\ pc = "line"
  /\ emitter_label_add(l)
  /\ defs' = [defs EXCEPT ![l] = @ \cup {Here}]
  /\ Stay
  /\ UNCHANGED <<current_section, asked>>

SectionLine(s) ==
  /\ pc = "line"
  /\ current_section' = s
  /\ Stay
  /\ UNCHANGED <<sections, labels, asked, defs>>

SpaceLine(n) ==
  /\ pc = "line"
  /\ Room(n)
  /\ emitter_advance(n)
  /\ Ask(n)
  /\ Stay
  /\ UNCHANGED <<current_section, labels, defs>>

------------------------------------------------------------------------------
(* parse_data_array *)

\* One round of the loop, its first or a later one.
DataElement(n) ==
  /\ pc = "line" \/ (pc = "array" /\ elem = n)
  /\ Room(n)
  /\ emitter_buffer(DataBytes(n))
  /\ Ask(n)
  /\ pc' = "array"
  /\ elem' = n
  /\ count' = count + n
  /\ UNCHANGED <<current_section, labels, defs>>

\* Mutant: the padding is computed from the size of one element.
PadOfElement == elem % 4

\* The padding after the directive's bytes.
Pad == count % 4

\* No further comma, or the closing quote: pad and go to the next line.
EndDirective ==
  /\ pc \in {"array", "string"}
  /\ Room(Pad)
  /\ emitter_advance(Pad)
  /\ Ask(Pad)
  /\ pc' = "line"
  /\ elem' = 0
  /\ count' = 0
  /\ UNCHANGED <<current_section, labels, defs>>

------------------------------------------------------------------------------
(* parse_string_literal: count is the length of the source text read,      *)
(* both quotes and the blanks before the first one included.               *)

StringOpen(blanks) ==
  /\ pc = "line"
  /\ pc' = "string"
  /\ count' = blanks + 2
  /\ UNCHANGED <<elem, current_section, sections, labels, asked, defs>>

\* A character, of two source characters if it is an escape.
StringChar(width) ==
  /\ pc = "string"
  /\ Room(1)
  /\ emitter_buffer(DataBytes(1))
  /\ Ask(1)
  /\ count' = count + width
  /\ UNCHANGED <<pc, elem, current_section, labels, defs>>

------------------------------------------------------------------------------
(* The ends of the program *)

\* The rest of the state does not matter: main returns 1 or the process exits.
Exit(how) ==
  /\ pc' = how
  /\ UNCHANGED <<elem, count, current_section, sections, labels, asked, defs>>

EndOfInput == pc = "line" /\ Exit("output")

\* parse_line returned a message: a syntax error, possibly after some elements
\* of an array were buffered.
ParseError == pc \in Parsing /\ Exit("error")

Redefinition(l) == pc = "line" /\ Duplicate(l) /\ Exit("error")

\* A write or lseek of a spill fails, or an allocation for a label; inside a
\* directive only the next element, character or padding can spill.
Panic ==
  /\ \/ pc = "line"
     \/ pc = "array" /\ Full(current_section, elem)
     \/ pc = "string" /\ Full(current_section, 1)
     \/ pc \in {"array", "string"} /\ Full(current_section, Pad)
  /\ Exit("panic")

LabelStop(l, fate) == pc = "line" /\ LabelAddStops(l, fate) /\ Exit(fate)

Terminated == pc \in Exits /\ UNCHANGED vars

Next ==
  \/ OpLine
  \/ \E l \in Label, a \in AssignType : JumpLine(l, a)
  \/ \E l \in Label : LabelLine(l)
  \/ \E s \in Section : SectionLine(s)
  \/ \E n \in Spaces : SpaceLine(n)
  \/ \E n \in DataSizes : DataElement(n)
  \/ EndDirective
  \/ \E n \in Blanks : StringOpen(n)
  \/ \E width \in {1, 2} : StringChar(width)
  \/ EndOfInput
  \/ ParseError
  \/ \E l \in Label : Redefinition(l)
  \/ Panic
  \/ \E l \in Label, fate \in {"panic", "assert"} : LabelStop(l, fate)
  \/ Terminated

Spec == Init /\ [][Next]_vars

------------------------------------------------------------------------------
(* Invariants *)

TypeOK ==
  /\ current_section \in Section
  /\ buf \in [Section -> Seq(Byte)]
  /\ pos \in [Section -> Nat]
  /\ swap \in [Section -> Seq(Byte)]
  /\ swap_size \in [Section -> Nat]
  /\ keys \in SUBSET Label
  /\ val \in [Label -> Int]
  /\ waiters \in [Label -> Seq(Waiter)]
  /\ pc \in Parsing \cup Exits
  /\ elem \in Nat
  /\ count \in Nat
  /\ asked \in [Section -> Nat]
  /\ defs \in [Label -> SUBSET Int]

\* No byte the input asked for in section s is missing.
NothingLost(s) == asked[s] = pos[s]

(***************************************************************************)
(* In a section that lost no byte, the label map knows exactly the         *)
(* instructions that still need a displacement: an instruction waits in    *)
(* the list of the label it names, with its own offset, section and        *)
(* encoder, if and only if no displacement was ORed into it.               *)
(***************************************************************************)
PendingIffWaiting ==
  \A s \in Section : NothingLost(s) =>
    /\ \A l \in Label, a \in AssignType, i \in 1 .. pos[s] :
         LET b == Image(s)[i]
             w == [fix_idx |-> i - 1, section |-> s, assign |-> a]
         IN (b.kind = a /\ b.ref = l /\ b.part = 0 /\ b.imm = {})
              <=> (\E k \in DOMAIN waiters[l] : waiters[l][k] = w)
    /\ \A l \in Label : \A k \in DOMAIN waiters[l] :
         waiters[l][k].section = s => waiters[l][k].fix_idx < pos[s]

(***************************************************************************)
(* In a section that lost no byte, completing a reference never touches    *)
(* another instruction or data, a reference is completed at most once, all *)
(* four of its bytes together, with its own encoder, and with the distance *)
(* from itself to an address at which its own label was defined.           *)
(***************************************************************************)
FixesAreRight ==
  \A s \in Section : NothingLost(s) =>
    \A i \in 1 .. pos[s] :
      LET b == Image(s)[i] IN
      IF b.kind \notin AssignType THEN b.imm = {}
      ELSE /\ \/ b.imm = {}
              \/ \E d \in defs[b.ref] : b.imm = {FixTo(b.kind, d, s, i - 1 - b.part)}
           /\ b.part > 0 => Image(s)[i - 1].imm = b.imm

(***************************************************************************)
(* A waiter's instruction is entirely in its section, and so either in the *)
(* file or in the bytes in use of the buffer when its label is defined:    *)
(* emitter_label_add's assertion holds in a section that lost no byte.     *)
(***************************************************************************)
PatchesInBuffer ==
  \A l \in Label : \A k \in DOMAIN waiters[l] :
    NothingLost(waiters[l][k].section) => WaiterFate(waiters[l][k]) # "assert"

------------------------------------------------------------------------------
(* Action properties *)

\* What was spilled to a file is never changed, and a label that has an
\* address keeps it: references resolved early and late agree.
NothingMovesStep ==
  /\ \A s \in Section :
       /\ Len(swap[s]) <= Len(swap'[s])
       /\ SubSeq(swap'[s], 1, Len(swap[s])) = swap[s]
  /\ \A l \in Label : val[l] >= 0 => val'[l] = val[l]

NothingMoves == [][NothingMovesStep]_vars
------------------------------------------------------------------------------
(* What the code's comments and tests say, and the code does not do *)

\* emitter.h: val is "negative if unassigned (meaning there are waiters)".
\* Fails: nothing assigns the val of a label that was referenced first.
UnassignedMeansWaiting ==
  \A l \in keys : val[l] < 0 => waiters[l] # <<>>

\* test.c: what does not fit in the section buffer is "stored elsewhere".
\* Fails: the bytes that fill the buffer to its end are dropped.
NoByteLost == \A s \in Section : NothingLost(s)

\* parser.c: the data directives "keep things 4-byte aligned".
\* Fails: the padding is the remainder, not what is missing to 4.
LinesAligned == pc = "line" => pos[current_section] % 4 = 0

\* emitter.c asserts that a waiter's instruction is inside the buffer.
\* Fails: the instruction may have been dropped.
AssertHolds == pc # "assert"

(***************************************************************************)
(* A program without strings and .byte, that reserves only multiples of 4, *)
(* keeps every line of a section that lost no byte aligned: the padding is *)
(* right for elements of 2, 4 and 8 bytes, so every instruction and label  *)
(* that follows is at a multiple of 4.                                     *)
(***************************************************************************)
WideDataAligned ==
  (DataSizes \subseteq {2, 4, 8} /\ Blanks = {} /\ \A n \in Spaces : n % 4 = 0) =>
    \A s \in Section :
      NothingLost(s) /\ (elem = 0 \/ s # current_section) => pos[s] % 4 = 0

------------------------------------------------------------------------------
(* The assembler keeps the promise of module Listing until it drops a byte *)

L == INSTANCE Listing WITH
       here      <- current_section,
       image     <- [s \in Section |-> Image(s)],
       table     <- val,
       mentioned <- keys,
       intact    <- NoByteLost

\* The buffers, files and waiters implement the abstract listing: a definition
\* completes all references to its label, in both sections, and only those.
ImplementsListing == L!Spec
==============================================================================
