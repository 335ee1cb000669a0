------------------------------- MODULE Encoding -------------------------------
(***************************************************************************)
(* The machine code of one instruction: ops.c's tables and the B_TYPE to   *)
(* R_TYPE cases of parse_line.  A word is the set of its bits that are 1,  *)
(* a subset of 0 .. 31; | is union, & is intersection.  A branch or jump   *)
(* whose label is unknown is built without its immediate, which            *)
(* emitter_label_add ORs in later.                                         *)
(***************************************************************************)
EXTENDS Integers

Word == SUBSET (0 .. 31)

\* Mutant: the bits that leave the word are kept.
ShlUncut(x, k) == {i + k : i \in x}

\* uint32_t shifts; what leaves the word is lost.
Shl(x, k) == {i + k : i \in x} \cap (0 .. 31)
Shr(x, k) == {i - k : i \in x} \cap (0 .. 31)

\* What the bits of a word are worth, its sign excepted: Weight[k + 1] is 2^k.
Weight == <<1, 2, 4, 8, 16, 32, 64, 128, 256, 512, 1024, 2048, 4096, 8192, 16384,
            32768, 65536, 131072, 262144, 524288, 1048576, 2097152, 4194304, 8388608,
            16777216, 33554432, 67108864, 134217728, 268435456, 536870912, 1073741824>>

\* (uint32_t) n, for |n| < 2^31: two's complement.
Bits(n) ==
  {k \in 0 .. 30 : (n \div Weight[k + 1]) % 2 = 1} \cup (IF n < 0 THEN {31} ELSE {})

------------------------------------------------------------------------------
(* ops.c *)

format == [
  R_TYPE |-> {"ADD", "SUB", "XOR", "OR", "AND", "SLL", "SRL", "SRA", "SLT", "SLTU"},
  I_TYPE |-> {"ADDI", "XORI", "ORI", "ANDI", "SLLI", "SRLI", "SRAI", "SLTI", "SLTIU",
              "LB", "LH", "LW", "LBU", "LHU", "JALR", "ECALL", "EBREAK"},
  S_TYPE |-> {"SB", "SH", "SW"},
  B_TYPE |-> {"BEQ", "BNE", "BLT", "BGE", "BLTU", "BGEU"},
  U_TYPE |-> {"LUI", "AUIPC"},
  J_TYPE |-> {"JAL"}]

Op == UNION {format[f] : f \in DOMAIN format}

Loads  == {"LB", "LH", "LW", "LBU", "LHU"}
Shifts == {"SLLI", "SRLI", "SRAI"}
System == {"ECALL", "EBREAK"}

opcodes(op) ==
  CASE op \in format.R_TYPE -> {0, 1, 4, 5}
    [] op \in Loads         -> {0, 1}
    [] op = "JALR"          -> {0, 1, 2, 5, 6}
    [] op \in System        -> {0, 1, 4, 5, 6}
    [] op \in format.I_TYPE \ (Loads \cup System \cup {"JALR"}) -> {0, 1, 4}
    [] op \in format.S_TYPE -> {0, 1, 5}
    [] op \in format.B_TYPE -> {0, 1, 5, 6}
    [] op = "JAL"           -> {0, 1, 2, 3, 5, 6}
    [] op = "LUI"           -> {0, 1, 2, 4, 5}
    [] op = "AUIPC"         -> {0, 1, 2, 4}

func3s(op) ==
  CASE op \in {"ADD", "SUB", "ADDI", "LB", "SB", "BEQ", "JALR", "ECALL", "EBREAK"} -> {}
    [] op \in {"SLL", "SLLI", "LH", "SH", "BNE"}                 -> {0}
    [] op \in {"SLT", "SLTI", "LW", "SW"}                        -> {1}
    [] op \in {"SLTU", "SLTIU"}                                  -> {0, 1}
    [] op \in {"XOR", "XORI", "LBU", "BLT"}                      -> {2}
    [] op \in {"SRL", "SRA", "SRLI", "SRAI", "LHU", "BGE"}       -> {0, 2}
    [] op \in {"OR", "ORI", "BLTU"}                              -> {1, 2}
    [] op \in {"AND", "ANDI", "BGEU"}                            -> {0, 1, 2}

\* Mutant: the rows of sub and sra hold 0x40, one bit too high.
Func7Bit6(op) == IF op \in {"SUB", "SRA"} THEN {6} ELSE {}

func7s(op) == IF op \in {"SUB", "SRA"} THEN {5} ELSE {}

------------------------------------------------------------------------------
(* The immediates of branches and jumps *)

\* Mutant: bit 11 is left where an S-type immediate has it.
BtypeBit11High(instr, i) ==
  instr \cup Shl(i \cap {12}, 19) \cup Shl(i \cap (5 .. 11), 20) \cup Shl(i \cap (1 .. 4), 7)

set_btype_imm(instr, i) ==
  instr \cup Shl(i \cap {12}, 19) \cup Shl(i \cap (5 .. 10), 20)
        \cup Shl(i \cap (1 .. 4), 7) \cup Shr(i \cap {11}, 4)

\* Mutant: bit 11 is left in place, where rd is.
JtypeBit11Low(instr, i) ==
  instr \cup Shl(i \cap {20}, 11) \cup (i \cap (11 .. 19)) \cup Shl(i \cap (1 .. 10), 20)

set_jtype_imm(instr, i) ==
  instr \cup Shl(i \cap {20}, 11) \cup (i \cap (12 .. 19))
        \cup Shl(i \cap (1 .. 10), 20) \cup Shl(i \cap {11}, 9)

set_imm(op, instr, i) ==
  IF op \in format.B_TYPE THEN set_btype_imm(instr, i) ELSE set_jtype_imm(instr, i)

------------------------------------------------------------------------------
(* parse_line: an operation and its operands, in the order they are written *)

Labelled(op) == op \in format.B_TYPE \cup format.J_TYPE

\* Mutant: 2048 is accepted, which reads as -2048.
AcceptedTo2048(op, imm) ==
  /\ op \in (format.I_TYPE \ System) \cup format.S_TYPE => -2048 <= imm /\ imm <= 2048
  /\ op \in Shifts => 0 <= imm /\ imm <= 31
  /\ op \in format.U_TYPE => 0 <= imm /\ imm <= 1048575

\* The range an immediate must be in; shift amounts are first parsed as others.
Accepted(op, imm) ==
  /\ op \in (format.I_TYPE \ System) \cup format.S_TYPE => -2048 <= imm /\ imm <= 2047
  /\ op \in Shifts => 0 <= imm /\ imm <= 31
  /\ op \in format.U_TYPE => 0 <= imm /\ imm <= 1048575

rd(r)   == Shl(Bits(r), 7)
rs1(r)  == Shl(Bits(r), 15)
rs2(r)  == Shl(Bits(r), 20)
f3(op)  == Shl(func3s(op), 12)

\* The bit that tells srai from srli.
Arithmetic(op) == IF op = "SRAI" THEN {30} ELSE {}

\* The third operand of an I_TYPE: ecall and ebreak take none.
ITypeImm(op, imm) ==
  CASE op = "ECALL" -> {} [] op = "EBREAK" -> {0} [] OTHER -> Bits(imm)

IReg(op, r) == IF op \in System THEN 0 ELSE r

\* The word of everything but a label's displacement; r0, r1, r2 are t0, t1, t2
\* of the code where they are registers.
encode(op, r0, r1, r2, imm) ==
  opcodes(op) \cup (
  CASE op \in format.R_TYPE -> rd(r0) \cup rs1(r1) \cup rs2(r2) \cup f3(op) \cup Shl(func7s(op), 25)
    [] op \in format.I_TYPE -> rd(IReg(op, r0)) \cup rs1(IReg(op, r1)) \cup f3(op)
                                 \cup Shl(ITypeImm(op, imm), 20) \cup Arithmetic(op)
    [] op \in format.S_TYPE -> rs1(r2) \cup rs2(r0) \cup f3(op)
                                 \cup Shl(Bits(imm) \cap (5 .. 11), 20)
                                 \cup Shl(Bits(imm) \cap (0 .. 4), 7)
    [] op \in format.B_TYPE -> rs1(r0) \cup rs2(r1) \cup f3(op)
    [] op \in format.U_TYPE -> rd(r0) \cup Shl(Bits(imm), 12)
    [] op \in format.J_TYPE -> rd(r0))

------------------------------------------------------------------------------
(* The reference: how a processor reads a word *)

Field(w, first, width) == Shr(w, first) \cap (0 .. width - 1)

\* Sign extension of an immediate whose sign is in bit n.
Extend(x, n) == IF n \in x THEN x \cup ((n + 1) .. 31) ELSE x

ImmI(w) == Extend(Field(w, 20, 12), 11)
ImmS(w) == Extend(Shl(Field(w, 25, 7), 5) \cup Field(w, 7, 5), 11)
ImmB(w) == Extend(Shl(Field(w, 31, 1), 12) \cup Shl(Field(w, 7, 1), 11)
                    \cup Shl(Field(w, 25, 6), 5) \cup Shl(Field(w, 8, 4), 1), 12)
ImmU(w) == Field(w, 12, 20)
ImmJ(w) == Extend(Shl(Field(w, 31, 1), 20) \cup Shl(Field(w, 12, 8), 12)
                    \cup Shl(Field(w, 20, 1), 11) \cup Shl(Field(w, 21, 10), 1), 20)

\* A field of three bits as a number.
Number(x) ==
  (IF 0 \in x THEN 1 ELSE 0) + (IF 1 \in x THEN 2 ELSE 0) + (IF 2 \in x THEN 4 ELSE 0)

\* The instruction-set manual's listing of RV32I, independent of ops.c: the
\* operations of one major opcode in the order of funct3, from 0 to 7.
LOAD   == <<"LB", "LH", "LW", "illegal", "LBU", "LHU", "illegal", "illegal">>
STORE  == <<"SB", "SH", "SW", "illegal", "illegal", "illegal", "illegal", "illegal">>
BRANCH == <<"BEQ", "BNE", "illegal", "illegal", "BLT", "BGE", "BLTU", "BGEU">>
OP_IMM == <<"ADDI", "SLLI", "SLTI", "SLTIU", "XORI", "SRLI", "ORI", "ANDI">>
OP     == <<"ADD", "SLL", "SLT", "SLTU", "XOR", "SRL", "OR", "AND">>

\* What bit 30 makes of an operation.
Alternate(op) ==
  CASE op = "ADD" -> "SUB" [] op = "SRL" -> "SRA" [] op = "SRLI" -> "SRAI"
    [] OTHER -> "illegal"

\* An operation that funct7 selects: all of OP, and the shifts of OP_IMM.
ByFunct7(w, op) ==
  CASE Field(w, 25, 7) = {}  -> op
    [] Field(w, 25, 7) = {5} -> Alternate(op)
    [] OTHER -> "illegal"

SYSTEM(w) ==
  IF Field(w, 7, 5) # {} \/ Field(w, 12, 3) # {} \/ Field(w, 15, 5) # {} THEN "illegal"
  ELSE CASE Field(w, 20, 12) = {}  -> "ECALL"
         [] Field(w, 20, 12) = {0} -> "EBREAK"
         [] OTHER -> "illegal"

\* The operation a processor executes.  The major opcodes are in the manual's
\* map, inst[6:5] its row and inst[4:2] its column; inst[1:0] is 11.
Decoded(w) ==
  LET major  == Field(w, 0, 7)
      funct3 == Number(Field(w, 12, 3)) + 1
  IN
  CASE major = {0, 1}             -> LOAD[funct3]
    [] major = {0, 1, 4}          -> IF funct3 \in {2, 6} THEN ByFunct7(w, OP_IMM[funct3])
                                                         ELSE OP_IMM[funct3]
    [] major = {0, 1, 2, 4}       -> "AUIPC"
    [] major = {0, 1, 5}          -> STORE[funct3]
    [] major = {0, 1, 4, 5}       -> ByFunct7(w, OP[funct3])
    [] major = {0, 1, 2, 4, 5}    -> "LUI"
    [] major = {0, 1, 5, 6}       -> BRANCH[funct3]
    [] major = {0, 1, 2, 5, 6}    -> IF funct3 = 1 THEN "JALR" ELSE "illegal"
    [] major = {0, 1, 2, 3, 5, 6} -> "JAL"
    [] major = {0, 1, 4, 5, 6}    -> SYSTEM(w)
    [] OTHER                      -> "illegal"
==============================================================================
