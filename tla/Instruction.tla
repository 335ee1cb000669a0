----------------------------- MODULE Instruction -----------------------------
(***************************************************************************)
(* The life of one instruction: parse_line builds its word from a line of  *)
(* source, with the displacement of its label if the label is known; if    *)
(* not, emitter_label_add completes the buffered word when the label is    *)
(* defined.  The reference is Encoding's reading of words.                 *)
(***************************************************************************)
EXTENDS Encoding

CONSTANTS
  Regs,      \* the registers lines use: parse_reg yields 0 .. 31
  Imms,      \* the immediates lines use
  Offsets    \* the distances from branches to their labels

ASSUME RegsAssumption == Regs \subseteq 0 .. 31
ASSUME ImmsAssumption == Imms \subseteq Int
ASSUME OffsetsAssumption == Offsets \subseteq Int

VARIABLES
  status,   \* "none", "waiting" for its label, "done" or "rejected"
  line,     \* [op, r0, r1, r2]: the operation and its registers as written
  imm,      \* the immediate as written, or the distance to the label
  word      \* the instruction in the section

vars == <<status, line, imm, word>>

Line == [op : Op, r0 : Regs, r1 : Regs, r2 : Regs]

Init ==
  /\ status = "none"
  /\ line \in Line
  /\ imm = 0
  /\ word = {}

\* The line's word without a displacement.
Base(i) == encode(line.op, line.r0, line.r1, line.r2, i)

\* A line that has no label operand.
PlainLine(i) ==
  /\ status = "none"
  /\ ~ Labelled(line.op)
  /\ imm' = i
  /\ \/ Accepted(line.op, i) /\ status' = "done" /\ word' = Base(i)
     \/ ~ Accepted(line.op, i) /\ status' = "rejected" /\ UNCHANGED word
  /\ UNCHANGED line

\* A branch or jump to a label that has an address, off bytes away.
KnownLabel(off) ==
  /\ status = "none"
  /\ Labelled(line.op)
  /\ imm' = off
  /\ word' = set_imm(line.op, Base(0), Bits(off))
  /\ status' = "done"
  /\ UNCHANGED line

UnknownLabel ==
  /\ status = "none"
  /\ Labelled(line.op)
  /\ word' = Base(0)
  /\ status' = "waiting"
  /\ UNCHANGED <<line, imm>>

\* The label is defined off bytes away from the waiting instruction.
DefineLabel(off) ==
  /\ status = "waiting"
  /\ imm' = off
  /\ word' = set_imm(line.op, word, Bits(off))
  /\ status' = "done"
  /\ UNCHANGED line

Terminated == status \in {"done", "rejected"} /\ UNCHANGED vars

Next ==
  \/ \E i \in Imms : PlainLine(i)
  \/ \E off \in Offsets : KnownLabel(off) \/ DefineLabel(off)
  \/ UnknownLabel
  \/ Terminated

Spec == Init /\ [][Next]_vars

------------------------------------------------------------------------------
(* Properties *)

TypeOK ==
  /\ status \in {"none", "waiting", "done", "rejected"}
  /\ line \in Line
  /\ imm \in Int
  /\ word \in Word

\* A processor executes the operation that was written: the tables of ops.c hold
\* the manual's values, and no register, immediate or displacement, known early
\* or ORed in late, disturbs the fields that select the operation.
OperationRecovered == status = "done" => Decoded(word) = line.op

\* A processor finds every register where the line put it: no immediate, in
\* particular no negative one and no displacement ORed in late, spills over it.
RegistersRecovered ==
  status \in {"waiting", "done"} /\ line.op \notin System =>
    CASE line.op \in format.R_TYPE ->
           /\ Field(word, 7, 5) = Bits(line.r0)
           /\ Field(word, 15, 5) = Bits(line.r1)
           /\ Field(word, 20, 5) = Bits(line.r2)
      [] line.op \in format.I_TYPE ->
           Field(word, 7, 5) = Bits(line.r0) /\ Field(word, 15, 5) = Bits(line.r1)
      [] line.op \in format.S_TYPE ->
           Field(word, 20, 5) = Bits(line.r0) /\ Field(word, 15, 5) = Bits(line.r2)
      [] line.op \in format.B_TYPE ->
           Field(word, 15, 5) = Bits(line.r0) /\ Field(word, 20, 5) = Bits(line.r1)
      [] OTHER -> Field(word, 7, 5) = Bits(line.r0)

\* A processor computes with the immediate that was written.
ImmediateRecovered ==
  status = "done" /\ ~ Labelled(line.op) /\ line.op \notin System =>
    CASE line.op \in Shifts -> Field(word, 20, 5) = Bits(imm)
      [] line.op \in format.I_TYPE \ Shifts -> ImmI(word) = Bits(imm)
      [] line.op \in format.S_TYPE -> ImmS(word) = Bits(imm)
      [] line.op \in format.U_TYPE -> ImmU(word) = Bits(imm)
      [] OTHER -> TRUE

\* The distances the displacement field of op can hold; the code checks neither
\* this nor that the label is at an even address.
Fits(op, off) ==
  LET limit == IF op \in format.B_TYPE THEN Weight[13] ELSE Weight[21]
  IN  off % 2 = 0 /\ -limit <= off /\ off < limit

\* A displacement that fits takes a processor exactly to the label.
DisplacementRecovered ==
  status = "done" /\ Labelled(line.op) /\ Fits(line.op, imm) =>
    (IF line.op \in format.B_TYPE THEN ImmB(word) ELSE ImmJ(word)) = Bits(imm)
==============================================================================
