-------------------------------- MODULE Bytes --------------------------------
(***************************************************************************)
(* The bytes the assembler stores, abstracted to what its bookkeeping can  *)
(* confuse: what a byte is part of, and which branch displacements have    *)
(* been ORed into it.  A branch or jump whose label is not yet known is    *)
(* emitted with no displacement and is completed in place later.           *)
(***************************************************************************)
EXTENDS Integers, Sequences

CONSTANTS
  Label,     \* the label names of the program being assembled
  NoLabel,   \* the reference of a byte that belongs to no branch or jump
  vaddr      \* section -> base address (main's --text-vaddr, --data-vaddr)

Section == {"SECT_TEXT", "SECT_DATA"}

\* enum assign_type: which immediate encoder completes the instruction.
AssignType == {"ASSIGN_BTYPE", "ASSIGN_JTYPE"}

ASSUME LabelAssumption == NoLabel \notin Label

\* The options are long long; a base below zero would make every label look
\* unassigned (README, "What is left out").
ASSUME VaddrAssumption == vaddr \in [Section -> Nat]

\* A displacement that set_btype_imm or set_jtype_imm ORs into an instruction.
Fix == [assign : AssignType, offset : Int]

(***************************************************************************)
(* kind is the encoder of a label reference ("ASSIGN_BTYPE" for branches,  *)
(* "ASSIGN_JTYPE" for jal), "op" for other instructions, "data" for the    *)
(* data directives, "zero" for padding and reserved space; part is the     *)
(* byte's place in its instruction.                                        *)
(***************************************************************************)
Byte == [kind : AssignType \cup {"op", "data", "zero"},
         ref  : Label \cup {NoLabel},
         part : 0 .. 3,
         imm  : SUBSET Fix]

Plain(kind) == [kind |-> kind, ref |-> NoLabel, part |-> 0, imm |-> {}]

Zeros(n) == [i \in 1 .. n |-> Plain("zero")]

DataBytes(n) == [i \in 1 .. n |-> Plain("data")]

\* The four bytes of an instruction; sizeof instr is 4.
Word(kind, l, fixes) ==
  [i \in 1 .. 4 |-> [kind |-> kind, ref |-> l, part |-> i - 1, imm |-> fixes]]

\* The displacement from the instruction at offset at of section s to addr.
FixTo(a, addr, s, at) == [assign |-> a, offset |-> addr - (vaddr[s] + at)]
==============================================================================
