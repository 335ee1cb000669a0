-------------------------- MODULE InstructionProofs --------------------------
(***************************************************************************)
(* Theorems about Encoding and Instruction: completing a word changes its  *)
(* displacement only, and for all operations, registers, immediates and    *)
(* distances a processor reads back what the line says.                    *)
(***************************************************************************)
EXTENDS Instruction, TLAPS

------------------------------------------------------------------------------
(* The immediate encoders, bit by bit, for every 32-bit displacement *)

\* The bits of a word that hold a branch's, and a jump's, displacement.
BtypeBits == (7 .. 11) \cup (25 .. 31)
JtypeBits == 12 .. 31

\* One bit of a shifted word.
LEMMA ShlBit ==
  ASSUME NEW x \in Word, NEW k \in 0 .. 31, NEW b \in 0 .. 31
  PROVE  b \in Shl(x, k) <=> b - k \in x
BY DEF Shl, Word

LEMMA ShrBit ==
  ASSUME NEW x \in Word, NEW k \in 0 .. 31, NEW b \in 0 .. 31
  PROVE  b \in Shr(x, k) <=> b + k \in x
BY DEF Shr, Word

LEMMA ShiftType ==
  ASSUME NEW x, NEW k
  PROVE  Shl(x, k) \in Word /\ Shr(x, k) \in Word
BY DEF Shl, Shr, Word

\* Where set_btype_imm puts each bit.
LEMMA BtypeBit ==
  ASSUME NEW instr \in Word, NEW i \in Word, NEW b \in 0 .. 31
  PROVE  b \in set_btype_imm(instr, i) <=>
           \/ b \in instr
           \/ b = 31 /\ 12 \in i
           \/ b \in 25 .. 30 /\ b - 20 \in i
           \/ b \in 8 .. 11 /\ b - 7 \in i
           \/ b = 7 /\ 11 \in i
<1>1. b \in Shl(i \cap {12}, 19) <=> b = 31 /\ 12 \in i
  BY DEF Shl, Word
<1>2. b \in Shl(i \cap (5 .. 10), 20) <=> b \in 25 .. 30 /\ b - 20 \in i
  BY DEF Shl, Word
<1>3. b \in Shl(i \cap (1 .. 4), 7) <=> b \in 8 .. 11 /\ b - 7 \in i
  BY DEF Shl, Word
<1>4. b \in Shr(i \cap {11}, 4) <=> b = 7 /\ 11 \in i
  BY DEF Shr, Word
<1> QED
  BY <1>1, <1>2, <1>3, <1>4 DEF set_btype_imm

\* Where set_jtype_imm puts each bit.
LEMMA JtypeBit ==
  ASSUME NEW instr \in Word, NEW i \in Word, NEW b \in 0 .. 31
  PROVE  b \in set_jtype_imm(instr, i) <=>
           \/ b \in instr
           \/ b = 31 /\ 20 \in i
           \/ b \in 12 .. 19 /\ b \in i
           \/ b \in 21 .. 30 /\ b - 20 \in i
           \/ b = 20 /\ 11 \in i
<1>1. b \in Shl(i \cap {20}, 11) <=> b = 31 /\ 20 \in i
  BY DEF Shl, Word
<1>2. b \in Shl(i \cap (1 .. 10), 20) <=> b \in 21 .. 30 /\ b - 20 \in i
  BY DEF Shl, Word
<1>3. b \in Shl(i \cap {11}, 9) <=> b = 20 /\ 11 \in i
  BY DEF Shl, Word
<1> QED
  BY <1>1, <1>2, <1>3 DEF set_jtype_imm

\* The encoders yield words.
LEMMA EncodersType ==
  ASSUME NEW instr \in Word, NEW i \in Word
  PROVE  set_btype_imm(instr, i) \in Word /\ set_jtype_imm(instr, i) \in Word
BY ShiftType DEF set_btype_imm, set_jtype_imm, Word

\* set_btype_imm changes nothing outside the displacement's bits, so that an
\* instruction completed late keeps its operation and registers.
THEOREM BtypeKeepsOthers ==
  ASSUME NEW instr \in Word, NEW i \in Word
  PROVE  set_btype_imm(instr, i) \ BtypeBits = instr \ BtypeBits
<1>1. \A b \in (0 .. 31) \ BtypeBits : b \in set_btype_imm(instr, i) <=> b \in instr
  BY BtypeBit DEF BtypeBits
<1> QED
  BY <1>1, EncodersType DEF Word

\* Nor does set_jtype_imm.
THEOREM JtypeKeepsOthers ==
  ASSUME NEW instr \in Word, NEW i \in Word
  PROVE  set_jtype_imm(instr, i) \ JtypeBits = instr \ JtypeBits
<1>1. \A b \in (0 .. 31) \ JtypeBits : b \in set_jtype_imm(instr, i) <=> b \in instr
  BY JtypeBit DEF JtypeBits
<1> QED
  BY <1>1, EncodersType DEF Word

------------------------------------------------------------------------------
(* What a processor reads *)

\* One bit of a field.
LEMMA FieldBit ==
  ASSUME NEW w \in Word, NEW first \in 0 .. 31, NEW width \in 1 .. 32, NEW b \in 0 .. 31
  PROVE  b \in Field(w, first, width) <=> b < width /\ b + first \in w
<1>1. b \in Shr(w, first) <=> b + first \in w
  BY ShrBit
<1> QED
  BY <1>1 DEF Field

LEMMA FieldType ==
  ASSUME NEW w, NEW first, NEW width
  PROVE  Field(w, first, width) \in Word
BY ShiftType DEF Field, Word

\* Where a processor finds each bit of a branch's displacement.
LEMMA ImmBBit ==
  ASSUME NEW w \in Word, NEW b \in 0 .. 31
  PROVE  b \in ImmB(w) <=>
           \/ b \in 1 .. 4 /\ b + 7 \in w
           \/ b \in 5 .. 10 /\ b + 20 \in w
           \/ b = 11 /\ 7 \in w
           \/ b >= 12 /\ 31 \in w
<1> DEFINE f1 == Shl(Field(w, 31, 1), 12)
           f2 == Shl(Field(w, 7, 1), 11)
           f3_ == Shl(Field(w, 25, 6), 5)
           f4 == Shl(Field(w, 8, 4), 1)
<1>1. ASSUME NEW c \in 0 .. 31
      PROVE  /\ c \in f1 <=> c = 12 /\ 31 \in w
             /\ c \in f2 <=> c = 11 /\ 7 \in w
             /\ c \in f3_ <=> c \in 5 .. 10 /\ c + 20 \in w
             /\ c \in f4 <=> c \in 1 .. 4 /\ c + 7 \in w
  <2>1. c \in f1 <=> c - 12 \in Field(w, 31, 1)
    BY FieldType, ShlBit
  <2>2. c \in f2 <=> c - 11 \in Field(w, 7, 1)
    BY FieldType, ShlBit
  <2>3. c \in f3_ <=> c - 5 \in Field(w, 25, 6)
    BY FieldType, ShlBit
  <2>4. c \in f4 <=> c - 1 \in Field(w, 8, 4)
    BY FieldType, ShlBit
  <2> QED
    BY <2>1, <2>2, <2>3, <2>4 DEF Field, Shr, Word
<1>2. 12 \in f1 \cup f2 \cup f3_ \cup f4 <=> 31 \in w
  BY <1>1
<1>3. f1 \cup f2 \cup f3_ \cup f4 \in SUBSET (0 .. 31)
  BY ShiftType DEF Word
<1> HIDE DEF f1, f2, f3_, f4
<1>4. ImmB(w) = Extend(f1 \cup f2 \cup f3_ \cup f4, 12)
  BY DEF ImmB, f1, f2, f3_, f4
<1> QED
  BY <1>1, <1>2, <1>3, <1>4 DEF Extend

(***************************************************************************)
(* A branch built without a displacement and completed with any 32-bit     *)
(* distance takes a processor that distance away, bit 0 cleared, modulo    *)
(* 2^13: bits 1 to 11 as they are and bit 12 as the sign.                  *)
(***************************************************************************)
THEOREM BtypeDisplacement ==
  ASSUME NEW instr \in Word, NEW i \in Word, instr \cap BtypeBits = {}
  PROVE  ImmB(set_btype_imm(instr, i)) = Extend(i \cap (1 .. 12), 12)
<1> DEFINE w == set_btype_imm(instr, i)
<1>1. w \in Word
  BY EncodersType
<1>2. \A b \in 0 .. 31 : b \in BtypeBits => b \notin instr
  OBVIOUS
<1>3. \A b \in 0 .. 31 : b \in w <=>
           \/ b \in instr
           \/ b = 31 /\ 12 \in i
           \/ b \in 25 .. 30 /\ b - 20 \in i
           \/ b \in 8 .. 11 /\ b - 7 \in i
           \/ b = 7 /\ 11 \in i
  BY BtypeBit
<1> HIDE DEF w
<1>4. ASSUME NEW b \in 0 .. 31
      PROVE  b \in ImmB(w) <=> (b \in i /\ b \in 1 .. 12) \/ (b \in 13 .. 31 /\ 12 \in i)
  <2>1. 31 \in w <=> 12 \in i
    BY <1>2, <1>3 DEF BtypeBits
  <2>2. 7 \in w <=> 11 \in i
    BY <1>2, <1>3 DEF BtypeBits
  <2>3. b \in 5 .. 10 => (b + 20 \in w <=> b \in i)
    BY <1>2, <1>3 DEF BtypeBits
  <2>4. b \in 1 .. 4 => (b + 7 \in w <=> b \in i)
    BY <1>2, <1>3 DEF BtypeBits
  <2> QED
    BY <1>1, <2>1, <2>2, <2>3, <2>4, ImmBBit
<1>5. ImmB(w) \in SUBSET (0 .. 31)
  BY ShiftType DEF ImmB, Extend, Word
<1>6. ImmB(w) = Extend(i \cap (1 .. 12), 12)
  BY <1>4, <1>5 DEF Extend
<1> QED
  BY <1>6 DEF w

\* Where a processor finds each bit of a jump's displacement.
LEMMA ImmJBit ==
  ASSUME NEW w \in Word, NEW b \in 0 .. 31
  PROVE  b \in ImmJ(w) <=>
           \/ b \in 1 .. 10 /\ b + 20 \in w
           \/ b = 11 /\ 20 \in w
           \/ b \in 12 .. 19 /\ b \in w
           \/ b >= 20 /\ 31 \in w
<1> DEFINE f1 == Shl(Field(w, 31, 1), 20)
           f2 == Shl(Field(w, 12, 8), 12)
           f3_ == Shl(Field(w, 20, 1), 11)
           f4 == Shl(Field(w, 21, 10), 1)
<1>1. ASSUME NEW c \in 0 .. 31
      PROVE  /\ c \in f1 <=> c = 20 /\ 31 \in w
             /\ c \in f2 <=> c \in 12 .. 19 /\ c \in w
             /\ c \in f3_ <=> c = 11 /\ 20 \in w
             /\ c \in f4 <=> c \in 1 .. 10 /\ c + 20 \in w
  <2>1. c \in f1 <=> c - 20 \in Field(w, 31, 1)
    BY FieldType, ShlBit
  <2>2. c \in f2 <=> c - 12 \in Field(w, 12, 8)
    BY FieldType, ShlBit
  <2>3. c \in f3_ <=> c - 11 \in Field(w, 20, 1)
    BY FieldType, ShlBit
  <2>4. c \in f4 <=> c - 1 \in Field(w, 21, 10)
    BY FieldType, ShlBit
  <2> QED
    BY <2>1, <2>2, <2>3, <2>4 DEF Field, Shr, Word
<1>2. 20 \in f1 \cup f2 \cup f3_ \cup f4 <=> 31 \in w
  BY <1>1
<1>3. f1 \cup f2 \cup f3_ \cup f4 \in SUBSET (0 .. 31)
  BY ShiftType DEF Word
<1> HIDE DEF f1, f2, f3_, f4
<1>4. ImmJ(w) = Extend(f1 \cup f2 \cup f3_ \cup f4, 20)
  BY DEF ImmJ, f1, f2, f3_, f4
<1> QED
  BY <1>1, <1>2, <1>3, <1>4 DEF Extend

(***************************************************************************)
(* A jal completed with any 32-bit distance takes a processor that         *)
(* distance away, bit 0 cleared, modulo 2^21.                              *)
(***************************************************************************)
THEOREM JtypeDisplacement ==
  ASSUME NEW instr \in Word, NEW i \in Word, instr \cap JtypeBits = {}
  PROVE  ImmJ(set_jtype_imm(instr, i)) = Extend(i \cap (1 .. 20), 20)
<1> DEFINE w == set_jtype_imm(instr, i)
<1>1. w \in Word
  BY EncodersType
<1>2. \A b \in 0 .. 31 : b \in JtypeBits => b \notin instr
  OBVIOUS
<1>3. \A b \in 0 .. 31 : b \in w <=>
           \/ b \in instr
           \/ b = 31 /\ 20 \in i
           \/ b \in 12 .. 19 /\ b \in i
           \/ b \in 21 .. 30 /\ b - 20 \in i
           \/ b = 20 /\ 11 \in i
  BY JtypeBit
<1> HIDE DEF w
<1>4. ASSUME NEW b \in 0 .. 31
      PROVE  b \in ImmJ(w) <=> (b \in i /\ b \in 1 .. 20) \/ (b \in 21 .. 31 /\ 20 \in i)
  <2>1. 31 \in w <=> 20 \in i
    BY <1>2, <1>3 DEF JtypeBits
  <2>2. 20 \in w <=> 11 \in i
    BY <1>2, <1>3 DEF JtypeBits
  <2>3. b \in 12 .. 19 => (b \in w <=> b \in i)
    BY <1>2, <1>3 DEF JtypeBits
  <2>4. b \in 1 .. 10 => (b + 20 \in w <=> b \in i)
    BY <1>2, <1>3 DEF JtypeBits
  <2> QED
    BY <1>1, <2>1, <2>2, <2>3, <2>4, ImmJBit
<1>5. ImmJ(w) \in SUBSET (0 .. 31)
  BY ShiftType DEF ImmJ, Extend, Word
<1>6. ImmJ(w) = Extend(i \cap (1 .. 20), 20)
  BY <1>4, <1>5 DEF Extend
<1> QED
  BY <1>6 DEF w

------------------------------------------------------------------------------
(* Numbers as bits *)

\* A quotient by more than the number is its sign.
LEMMA SmallQuotient ==
  ASSUME NEW n \in Int, NEW w \in Int, w > 0, -w <= n, n < w
  PROVE  n \div w = IF n < 0 THEN -1 ELSE 0
OBVIOUS

\* The weights grow.
LEMMA Weights ==
  /\ \A k \in 0 .. 30 : Weight[k + 1] \in Nat /\ Weight[k + 1] > 0
  /\ \A k \in 0 .. 30 : \A m \in 0 .. k : Weight[m + 1] <= Weight[k + 1]
  /\ Weight[1] = 1
BY DEF Weight

LEMMA BitsType == \A n \in Int : Bits(n) \in Word
BY DEF Bits, Word

\* From the weight a number stays below on, its bits are copies of its sign.
LEMMA SignBits ==
  ASSUME NEW n \in Int, NEW m \in 0 .. 30, -Weight[m + 1] <= n, n < Weight[m + 1]
  PROVE  \A k \in m .. 31 : k \in Bits(n) <=> n < 0
<1> SUFFICES ASSUME NEW k \in m .. 31
             PROVE  k \in Bits(n) <=> n < 0
  OBVIOUS
<1>1. CASE k = 31
  BY <1>1 DEF Bits
<1>2. CASE k \in m .. 30
  <2>1. Weight[k + 1] \in Nat /\ Weight[k + 1] > 0 /\ Weight[m + 1] <= Weight[k + 1]
    <3>1. k \in 0 .. 30 /\ m \in 0 .. k
      BY <1>2
    <3> QED
      BY <3>1, Weights
  <2>2. -Weight[k + 1] <= n /\ n < Weight[k + 1]
    <3>1. Weight[m + 1] \in Nat
      BY Weights
    <3> QED
      BY <2>1, <3>1
  <2>3. n \div Weight[k + 1] = IF n < 0 THEN -1 ELSE 0
    BY <2>1, <2>2, SmallQuotient
  <2>4. \A q \in Int : q = (IF n < 0 THEN -1 ELSE 0) => (q % 2 = 1 <=> n < 0)
    OBVIOUS
  <2> QED
    BY <1>2, <2>3, <2>4 DEF Bits
<1> QED
  BY <1>1, <1>2

\* The numbers of five bits: registers, and shift amounts.
Reg == 0 .. 31

LEMMA FiveBits ==
  ASSUME NEW n \in Reg
  PROVE  Bits(n) \in SUBSET (0 .. 4)
<1>1. n \in Int /\ -Weight[6] <= n /\ n < Weight[6]
  BY DEF Weight, Reg
<1>2. \A k \in 5 .. 31 : k \in Bits(n) <=> n < 0
  BY <1>1, SignBits
<1>3. ~ (n < 0)
  BY DEF Reg
<1> QED
  BY <1>2, <1>3, BitsType, <1>1 DEF Word

\* The immediate of a U_TYPE has twenty.
LEMMA TwentyBits ==
  ASSUME NEW n \in Nat, n < Weight[21]
  PROVE  Bits(n) \in SUBSET (0 .. 19)
<1>1. -Weight[21] <= n
  BY DEF Weight
<1>2. \A k \in 20 .. 31 : k \in Bits(n) <=> n < 0
  BY <1>1, SignBits
<1> QED
  BY <1>2, BitsType DEF Word

\* x is n's bits 0 to m.
LowBits(x, n, m) == \A b \in 0 .. 31 : b \in x <=> b \in Bits(n) /\ b <= m

\* A number below the weight of bit m is what a processor makes of its bits up to m.
LEMMA Extended ==
  ASSUME NEW n \in Int, NEW m \in 0 .. 30, -Weight[m + 1] <= n, n < Weight[m + 1],
         NEW x \in Word, LowBits(x, n, m)
  PROVE  Extend(x, m) = Bits(n)
<1> DEFINE y == Bits(n)
<1>1. y \in SUBSET (0 .. 31)
  BY BitsType DEF Word
<1>2. \A k \in m .. 31 : k \in y <=> n < 0
  BY SignBits
<1>3. \A b \in 0 .. 31 : b \in x <=> b \in y /\ b <= m
  BY DEF LowBits
<1> HIDE DEF y
<1>4. \A b \in 0 .. 31 : b \in Extend(x, m) <=> b \in y
  BY <1>2, <1>3 DEF Extend
<1>5. Extend(x, m) \in SUBSET (0 .. 31)
  BY DEF Extend, Word
<1>6. Extend(x, m) = y
  BY <1>1, <1>4, <1>5
<1> QED
  BY <1>6 DEF y

\* An even number has no bit 0.
LEMMA EvenBits ==
  ASSUME NEW n \in Int, n % 2 = 0
  PROVE  0 \notin Bits(n)
<1>1. n \div 1 = n
  OBVIOUS
<1> QED
  BY <1>1, Weights DEF Bits

------------------------------------------------------------------------------
(* The tables *)

\* Every operation has one format.
LEMMA Formats ==
  ASSUME NEW op \in Op
  PROVE  \/ op \in format.R_TYPE \/ op \in format.I_TYPE \/ op \in format.S_TYPE
         \/ op \in format.B_TYPE \/ op \in format.U_TYPE \/ op \in format.J_TYPE
BY DEF Op, format

\* The codes fit in their fields.
LEMMA CodesFit ==
  ASSUME NEW op \in Op
  PROVE  /\ opcodes(op) \in SUBSET (0 .. 6)
         /\ op \notin format.U_TYPE \cup format.J_TYPE => func3s(op) \in SUBSET (0 .. 2)
         /\ func7s(op) \in SUBSET (0 .. 6)
<1>1. opcodes(op) \in SUBSET (0 .. 6)
  BY DEF Op, format, opcodes, Loads, System
<1>2. ASSUME op \notin format.U_TYPE \cup format.J_TYPE, NEW x \in func3s(op)
      PROVE  x \in 0 .. 2
  BY <1>2 DEF Op, format, func3s
<1>3. func7s(op) \in SUBSET (0 .. 6)
  BY DEF func7s
<1> QED
  BY <1>1, <1>2, <1>3

------------------------------------------------------------------------------
(* The fields of a word *)

\* The five fields every operation but the U_TYPE and J_TYPE ones is built of:
\* opcode, rd or what stands there, func3, rs1, and the twelve high bits.
Layout(O, A, F, B, I) ==
  O \cup Shl(A, 7) \cup Shl(F, 12) \cup Shl(B, 15) \cup Shl(I, 20)

\* w has them.
HasFields(w, O, A, F, B, I) ==
  /\ w \in Word
  /\ Field(w, 0, 7) = O
  /\ Field(w, 7, 5) = A
  /\ Field(w, 12, 3) = F
  /\ Field(w, 15, 5) = B
  /\ Field(w, 20, 12) = I \cap (0 .. 11)
  /\ Field(w, 20, 5) = I \cap (0 .. 4)
  /\ Field(w, 25, 7) = Field(I, 5, 7)

\* Where the bits of x are when it is shifted to the high end.
HighBits(x) == \A b \in 0 .. 31 : b \in Shl(x, 20) <=> b >= 20 /\ b - 20 \in x

LEMMA HighBitsHold ==
  ASSUME NEW x \in Word
  PROVE  HighBits(x)
<1> SUFFICES ASSUME NEW b \in 0 .. 31
             PROVE  b \in Shl(x, 20) <=> b >= 20 /\ b - 20 \in x
  BY DEF HighBits
<1>1. b \in Shl(x, 20) <=> b - 20 \in x
  BY ShlBit
<1>2. b - 20 \in x => b - 20 \in Nat
  BY DEF Word
<1> QED
  BY <1>1, <1>2

LEMMA LayoutBit ==
  ASSUME NEW O \in SUBSET (0 .. 6), NEW A \in SUBSET (0 .. 4), NEW F \in SUBSET (0 .. 2),
         NEW B \in SUBSET (0 .. 4), NEW I \in Word, NEW b \in 0 .. 31
  PROVE  b \in Layout(O, A, F, B, I) <=>
           \/ b \in O
           \/ b \in 7 .. 11 /\ b - 7 \in A
           \/ b \in 12 .. 14 /\ b - 12 \in F
           \/ b \in 15 .. 19 /\ b - 15 \in B
           \/ b >= 20 /\ b - 20 \in I
<1>1. b \in Shl(A, 7) <=> b \in 7 .. 11 /\ b - 7 \in A
  BY DEF Shl
<1>2. b \in Shl(F, 12) <=> b \in 12 .. 14 /\ b - 12 \in F
  BY DEF Shl
<1>3. b \in Shl(B, 15) <=> b \in 15 .. 19 /\ b - 15 \in B
  BY DEF Shl
<1>4. HighBits(I)
  BY HighBitsHold
<1>5. b \in Shl(I, 20) <=> b >= 20 /\ b - 20 \in I
  BY <1>4, SMTT(30) DEF HighBits
<1>6. b \in Layout(O, A, F, B, I) <=>
        b \in O \/ b \in Shl(A, 7) \/ b \in Shl(F, 12) \/ b \in Shl(B, 15) \/ b \in Shl(I, 20)
  BY DEF Layout
<1> QED
  BY <1>1, <1>2, <1>3, <1>5, <1>6

\* x is the bits of w from first on, width of them.
IsField(x, w, first, width) ==
  /\ x \in Word /\ first \in 0 .. 31 /\ width \in 1 .. 32
  /\ \A b \in 0 .. 31 : b \in x <=> b < width /\ b + first \in w

LEMMA FieldHas ==
  ASSUME NEW w \in Word, NEW first \in 0 .. 31, NEW width \in 1 .. 32
  PROVE  IsField(Field(w, first, width), w, first, width)
BY FieldBit, FieldType DEF IsField

\* A field is known by the bits it has.
LEMMA FieldIs ==
  ASSUME NEW w \in Word, NEW first, NEW width, NEW x, IsField(x, w, first, width)
  PROVE  Field(w, first, width) = x
<1>1. IsField(Field(w, first, width), w, first, width)
  BY FieldHas DEF IsField
<1>2. \A b \in 0 .. 31 : b \in Field(w, first, width) <=> b \in x
  BY <1>1 DEF IsField
<1> QED
  BY <1>2, FieldType DEF IsField, Word

\* None of them spills into another.
LEMMA LayoutFields ==
  ASSUME NEW O \in SUBSET (0 .. 6), NEW A \in SUBSET (0 .. 4), NEW F \in SUBSET (0 .. 2),
         NEW B \in SUBSET (0 .. 4), NEW I \in Word
  PROVE  HasFields(Layout(O, A, F, B, I), O, A, F, B, I)
<1> DEFINE w == Layout(O, A, F, B, I)
<1>1. w \in Word
  <2>1. O \in SUBSET (0 .. 31)
    OBVIOUS
  <2>2. /\ Shl(A, 7) \in SUBSET (0 .. 31) /\ Shl(F, 12) \in SUBSET (0 .. 31)
        /\ Shl(B, 15) \in SUBSET (0 .. 31) /\ Shl(I, 20) \in SUBSET (0 .. 31)
    BY ShiftType DEF Word
  <2> QED
    BY <2>1, <2>2 DEF Layout, Word
<1>2. \A b \in 0 .. 31 : b \in w <=>
           \/ b \in O
           \/ b \in 7 .. 11 /\ b - 7 \in A
           \/ b \in 12 .. 14 /\ b - 12 \in F
           \/ b \in 15 .. 19 /\ b - 15 \in B
           \/ b >= 20 /\ b - 20 \in I
  BY LayoutBit, SMTT(30)
<1> HIDE DEF w
<1>3. \A b \in Int : b + 0 = b
  OBVIOUS
<1>4. /\ O \in Word /\ A \in Word /\ F \in Word /\ B \in Word
      /\ I \cap (0 .. 11) \in Word /\ I \cap (0 .. 4) \in Word /\ Field(I, 5, 7) \in Word
  BY FieldType DEF Word
<1>5. Field(w, 0, 7) = O
  <2>1. IsField(O, w, 0, 7)
    BY <1>2, <1>3, <1>4 DEF IsField
  <2> QED
    BY <1>1, <2>1, FieldIs
<1>6. Field(w, 7, 5) = A
  <2>1. IsField(A, w, 7, 5)
    BY <1>1, <1>2, <1>4 DEF IsField, Word
  <2> QED
    BY <1>1, <2>1, FieldIs
<1>7. Field(w, 12, 3) = F
  <2>1. IsField(F, w, 12, 3)
    BY <1>1, <1>2, <1>4 DEF IsField, Word
  <2> QED
    BY <1>1, <2>1, FieldIs
<1>8. Field(w, 15, 5) = B
  <2>1. IsField(B, w, 15, 5)
    BY <1>1, <1>2, <1>4 DEF IsField, Word
  <2> QED
    BY <1>1, <2>1, FieldIs
<1>9. \A b \in 0 .. 31 : b + 20 \in w <=> b < 12 /\ b \in I
  BY <1>1, <1>2 DEF Word
<1>10. Field(w, 20, 12) = I \cap (0 .. 11)
  <2>1. IsField(I \cap (0 .. 11), w, 20, 12)
    BY <1>4, <1>9 DEF IsField
  <2> QED
    BY <1>1, <2>1, FieldIs
<1>11. Field(w, 20, 5) = I \cap (0 .. 4)
  <2>1. IsField(I \cap (0 .. 4), w, 20, 5)
    BY <1>4, <1>9 DEF IsField
  <2> QED
    BY <1>1, <2>1, FieldIs
<1>12. Field(w, 25, 7) = Field(I, 5, 7)
  <2>1. IsField(Field(I, 5, 7), I, 5, 7)
    BY FieldHas
  <2>2. ASSUME NEW b \in 0 .. 31
        PROVE  b < 7 /\ b + 5 \in I <=> b < 7 /\ b + 25 \in w
    <3>1. b < 7 => b + 25 \in 20 .. 31 /\ (b + 25) - 20 = b + 5
      OBVIOUS
    <3> QED
      BY <1>2, <3>1
  <2>3. IsField(Field(I, 5, 7), w, 25, 7)
    BY <1>4, <2>1, <2>2 DEF IsField
  <2> QED
    BY <1>1, <2>3, FieldIs
<1> QED
  BY <1>1, <1>5, <1>6, <1>7, <1>8, <1>10, <1>11, <1>12 DEF w, HasFields

\* Opcode, rd and a twenty-bit immediate: a U_TYPE, and without the immediate a J_TYPE.
WideLayout(O, A, x) == O \cup Shl(A, 7) \cup Shl(x, 12)

LEMMA WideLayoutBit ==
  ASSUME NEW O \in SUBSET (0 .. 6), NEW A \in SUBSET (0 .. 4), NEW x \in SUBSET (0 .. 19),
         NEW b \in 0 .. 31
  PROVE  b \in WideLayout(O, A, x) <=>
           \/ b \in O
           \/ b \in 7 .. 11 /\ b - 7 \in A
           \/ b >= 12 /\ b - 12 \in x
<1>1. b \in Shl(A, 7) <=> b \in 7 .. 11 /\ b - 7 \in A
  BY DEF Shl
<1>2. b \in Shl(x, 12) <=> b >= 12 /\ b - 12 \in x
  BY DEF Shl
<1> QED
  BY <1>1, <1>2 DEF WideLayout

LEMMA WideLayoutFields ==
  ASSUME NEW O \in SUBSET (0 .. 6), NEW A \in SUBSET (0 .. 4), NEW x \in SUBSET (0 .. 19)
  PROVE  /\ WideLayout(O, A, x) \in Word
         /\ Field(WideLayout(O, A, x), 0, 7) = O
         /\ Field(WideLayout(O, A, x), 7, 5) = A
         /\ Field(WideLayout(O, A, x), 12, 20) = x
<1> DEFINE w == WideLayout(O, A, x)
<1>1. w \in Word
  <2>1. O \in SUBSET (0 .. 31)
    OBVIOUS
  <2>2. Shl(A, 7) \in SUBSET (0 .. 31) /\ Shl(x, 12) \in SUBSET (0 .. 31)
    BY ShiftType DEF Word
  <2> QED
    BY <2>1, <2>2 DEF WideLayout, Word
<1>2. \A b \in 0 .. 31 : b \in w <=>
           \/ b \in O
           \/ b \in 7 .. 11 /\ b - 7 \in A
           \/ b >= 12 /\ b - 12 \in x
  BY WideLayoutBit
<1> HIDE DEF w
<1>3. \A b \in Int : b + 0 = b
  OBVIOUS
<1>4. O \in Word /\ A \in Word /\ x \in Word
  BY DEF Word
<1>5. IsField(O, w, 0, 7)
  BY <1>2, <1>3, <1>4 DEF IsField
<1>6. IsField(A, w, 7, 5)
  BY <1>1, <1>2, <1>4 DEF IsField, Word
<1>7. IsField(x, w, 12, 20)
  BY <1>1, <1>2, <1>4 DEF IsField, Word
<1>8. Field(w, 0, 7) = O /\ Field(w, 7, 5) = A /\ Field(w, 12, 20) = x
  BY <1>1, <1>5, <1>6, <1>7, FieldIs
<1> QED
  BY <1>1, <1>8 DEF w

\* S has none of the bits first to first + width - 1.
Outside(S, first, width) == \A b \in 0 .. 31 : b < width => b + first \notin S

\* Two words that differ only in the bits of S have the same fields elsewhere.
LEMMA FieldKept ==
  ASSUME NEW v \in Word, NEW w \in Word, NEW S, v \ S = w \ S,
         NEW first \in 0 .. 31, NEW width \in 1 .. 32, Outside(S, first, width)
  PROVE  Field(v, first, width) = Field(w, first, width)
<1>1. \A b \in 0 .. 31 : b < width => (b + first \in v <=> b + first \in w)
  BY DEF Outside
<1>2. \A b \in 0 .. 31 : b \in Field(v, first, width) <=> b \in Field(w, first, width)
  <2>1. /\ IsField(Field(v, first, width), v, first, width)
        /\ IsField(Field(w, first, width), w, first, width)
    BY FieldHas
  <2> QED
    BY <1>1, <2>1 DEF IsField
<1> QED
  BY <1>2, FieldType DEF Word

------------------------------------------------------------------------------
(* What parse_line builds *)

\* Bits shifted into the twelve high ones.
LEMMA ShlUnion ==
  ASSUME NEW x, NEW y, NEW k
  PROVE  Shl(x \cup y, k) = Shl(x, k) \cup Shl(y, k)
BY DEF Shl

LEMMA ShlTwice ==
  ASSUME NEW x \in SUBSET (0 .. 6)
  PROVE  Shl(Shl(x, 5), 20) = Shl(x, 25)
<1> SUFFICES ASSUME NEW b \in 0 .. 31
             PROVE  b \in Shl(Shl(x, 5), 20) <=> b \in Shl(x, 25)
  BY ShiftType DEF Word
<1>0. x \in Word /\ Shl(x, 5) \in Word
  BY ShiftType DEF Word
<1>1. b \in Shl(x, 25) <=> b - 25 \in x
  BY <1>0, ShlBit
<1>2. b \in Shl(Shl(x, 5), 20) <=> b - 20 \in Shl(x, 5)
  BY <1>0, ShlBit
<1>3. CASE b >= 20
  <2>1. b - 20 \in 0 .. 31 /\ (b - 20) - 5 = b - 25
    BY <1>3
  <2>2. b - 20 \in Shl(x, 5) <=> (b - 20) - 5 \in x
    BY <1>0, <2>1, ShlBit
  <2> QED
    BY <1>1, <1>2, <2>1, <2>2
<1>4. CASE b < 20
  BY <1>0, <1>1, <1>2, <1>4 DEF Word
<1> QED
  BY <1>3, <1>4

\* The twelve high bits of each format.
HighR(op, r2)  == Bits(r2) \cup Shl(func7s(op), 5)
HighI(op, i)   == ITypeImm(op, i) \cup (IF op = "SRAI" THEN {10} ELSE {})
HighS(r0, i)   == Bits(r0) \cup (Bits(i) \cap (5 .. 11))

LEMMA EncodeR ==
  ASSUME NEW op \in format.R_TYPE, NEW r0, NEW r1, NEW r2, NEW i
  PROVE  encode(op, r0, r1, r2, i)
           = Layout(opcodes(op), Bits(r0), func3s(op), Bits(r1), HighR(op, r2))
<1>1. Shl(HighR(op, r2), 20) = rs2(r2) \cup Shl(func7s(op), 25)
  BY ShlUnion, ShlTwice DEF HighR, rs2, func7s
<1>2. encode(op, r0, r1, r2, i)
        = opcodes(op) \cup (rd(r0) \cup rs1(r1) \cup rs2(r2) \cup f3(op) \cup Shl(func7s(op), 25))
  BY DEF encode, format
<1> QED
  BY <1>1, <1>2 DEF Layout, rd, rs1, f3

LEMMA EncodeI ==
  ASSUME NEW op \in format.I_TYPE, NEW r0, NEW r1, NEW r2, NEW i
  PROVE  encode(op, r0, r1, r2, i)
           = Layout(opcodes(op), Bits(IReg(op, r0)), func3s(op), Bits(IReg(op, r1)), HighI(op, i))
<1>1. Shl(IF op = "SRAI" THEN {10} ELSE {}, 20) = Arithmetic(op)
  BY DEF Shl, Arithmetic
<1>2. Shl(HighI(op, i), 20) = Shl(ITypeImm(op, i), 20) \cup Arithmetic(op)
  BY <1>1, ShlUnion DEF HighI
<1>3. encode(op, r0, r1, r2, i)
        = opcodes(op) \cup (rd(IReg(op, r0)) \cup rs1(IReg(op, r1)) \cup f3(op)
                              \cup Shl(ITypeImm(op, i), 20) \cup Arithmetic(op))
  BY DEF encode, format
<1> QED
  BY <1>2, <1>3 DEF Layout, rd, rs1, f3

LEMMA EncodeS ==
  ASSUME NEW op \in format.S_TYPE, NEW r0, NEW r1, NEW r2, NEW i
  PROVE  encode(op, r0, r1, r2, i)
           = Layout(opcodes(op), Bits(i) \cap (0 .. 4), func3s(op), Bits(r2), HighS(r0, i))
<1>1. Shl(HighS(r0, i), 20) = rs2(r0) \cup Shl(Bits(i) \cap (5 .. 11), 20)
  BY ShlUnion DEF HighS, rs2
<1>2. encode(op, r0, r1, r2, i)
        = opcodes(op) \cup (rs1(r2) \cup rs2(r0) \cup f3(op)
                              \cup Shl(Bits(i) \cap (5 .. 11), 20)
                              \cup Shl(Bits(i) \cap (0 .. 4), 7))
  BY DEF encode, format
<1> QED
  BY <1>1, <1>2 DEF Layout, rs1, f3

LEMMA EncodeB ==
  ASSUME NEW op \in format.B_TYPE, NEW r0, NEW r1, NEW r2, NEW i
  PROVE  encode(op, r0, r1, r2, i)
           = Layout(opcodes(op), {}, func3s(op), Bits(r0), Bits(r1))
<1>1. Shl({}, 7) = {}
  BY DEF Shl
<1>2. encode(op, r0, r1, r2, i) = opcodes(op) \cup (rs1(r0) \cup rs2(r1) \cup f3(op))
  BY DEF encode, format
<1> QED
  BY <1>1, <1>2 DEF Layout, rs1, rs2, f3

LEMMA EncodeU ==
  ASSUME NEW op \in format.U_TYPE, NEW r0, NEW r1, NEW r2, NEW i
  PROVE  encode(op, r0, r1, r2, i) = WideLayout(opcodes(op), Bits(r0), Bits(i))
<1>1. encode(op, r0, r1, r2, i) = opcodes(op) \cup (rd(r0) \cup Shl(Bits(i), 12))
  BY DEF encode, format
<1> QED
  BY <1>1 DEF WideLayout, rd

LEMMA EncodeJ ==
  ASSUME NEW op \in format.J_TYPE, NEW r0, NEW r1, NEW r2, NEW i
  PROVE  encode(op, r0, r1, r2, i) = WideLayout(opcodes(op), Bits(r0), {})
<1>1. encode(op, r0, r1, r2, i) = opcodes(op) \cup rd(r0)
  BY DEF encode, format
<1>2. Shl({}, 12) = {}
  BY DEF Shl
<1> QED
  BY <1>1, <1>2 DEF WideLayout, rd

------------------------------------------------------------------------------
(* What a processor reads in it *)

LEMMA ReadR ==
  ASSUME NEW op \in format.R_TYPE, NEW r0 \in Reg, NEW r1 \in Reg,
         NEW r2 \in Reg, NEW i
  PROVE  /\ HasFields(encode(op, r0, r1, r2, i),
                      opcodes(op), Bits(r0), func3s(op), Bits(r1), HighR(op, r2))
         /\ HighR(op, r2) \cap (0 .. 4) = Bits(r2)
         /\ Field(HighR(op, r2), 5, 7) = func7s(op)
<1> DEFINE x == Bits(r2)
           f == func7s(op)
           y == x \cup Shl(f, 5)
<1>1. x \in SUBSET (0 .. 4) /\ f \in SUBSET (0 .. 6) /\ f \in Word
  BY FiveBits DEF func7s, Word
<1> HIDE DEF x, f
<1>2. \A b \in 0 .. 31 : b \in Shl(f, 5) <=> b - 5 \in f
  BY <1>1, ShlBit
<1>3. Shl(f, 5) \in SUBSET (0 .. 31)
  BY ShiftType DEF Word
<1>4. \A b \in 0 .. 31 : b \in y <=> b \in x \/ b - 5 \in f
  BY <1>2
<1>5. y \in Word
  <2>1. x \in SUBSET (0 .. 31)
    BY <1>1
  <2> QED
    BY <1>3, <2>1 DEF Word
<1>6. y \cap (0 .. 4) = x
  <2>1. \A b \in 0 .. 4 : b - 5 \notin f
    BY <1>1
  <2>2. \A b \in 0 .. 4 : b \in y <=> b \in x
    BY <1>4, <2>1
  <2> HIDE DEF y
  <2> QED
    BY <1>1, <2>2
<1> HIDE DEF y
<1>7. Field(y, 5, 7) = f
  <2>1. IsField(f, y, 5, 7)
    BY <1>1, <1>4 DEF IsField
  <2> QED
    BY <1>1, <1>5, <2>1, FieldIs
<1>8. HighR(op, r2) = y
  BY DEF HighR, x, f, y
<1>9. op \in Op /\ op \notin format.U_TYPE \cup format.J_TYPE
  BY DEF Op, format
<1>10. HighR(op, r2) \in Word
  BY <1>5, <1>8
<1> QED
  BY <1>6, <1>7, <1>8, <1>9, <1>10, EncodeR, LayoutFields, CodesFit, FiveBits DEF x, f

\* The immediate of an I_TYPE may have all the bits of a negative number.
LEMMA ReadI ==
  ASSUME NEW op \in format.I_TYPE, NEW r0 \in Reg, NEW r1 \in Reg,
         NEW r2, NEW i \in Int
  PROVE  HasFields(encode(op, r0, r1, r2, i), opcodes(op), Bits(IReg(op, r0)), func3s(op),
                   Bits(IReg(op, r1)), HighI(op, i))
<1>1. op \in Op /\ op \notin format.U_TYPE \cup format.J_TYPE
  BY DEF Op, format
<1>2. ITypeImm(op, i) \in Word
  BY BitsType DEF ITypeImm, Word
<1>3. HighI(op, i) \in Word
  BY <1>2 DEF HighI, Word
<1>4. IReg(op, r0) \in Reg /\ IReg(op, r1) \in Reg
  BY DEF IReg, Reg
<1> QED
  BY <1>1, <1>3, <1>4, EncodeI, LayoutFields, CodesFit, FiveBits

LEMMA ReadS ==
  ASSUME NEW op \in format.S_TYPE, NEW r0 \in Reg, NEW r1,
         NEW r2 \in Reg, NEW i \in Int
  PROVE  /\ HasFields(encode(op, r0, r1, r2, i), opcodes(op), Bits(i) \cap (0 .. 4), func3s(op),
                      Bits(r2), HighS(r0, i))
         /\ HighS(r0, i) \cap (0 .. 4) = Bits(r0)
<1>1. op \in Op /\ op \notin format.U_TYPE \cup format.J_TYPE
  BY DEF Op, format
<1>2. Bits(r0) \in SUBSET (0 .. 4)
  BY FiveBits
<1>3. HighS(r0, i) \in Word
  BY <1>2 DEF HighS, Word
<1>4. HighS(r0, i) \cap (0 .. 4) = Bits(r0)
  BY <1>2 DEF HighS
<1>5. Bits(i) \cap (0 .. 4) \in SUBSET (0 .. 4)
  OBVIOUS
<1>6. opcodes(op) \in SUBSET (0 .. 6) /\ func3s(op) \in SUBSET (0 .. 2)
  BY <1>1, CodesFit
<1>7. Bits(r2) \in SUBSET (0 .. 4)
  BY FiveBits
<1>8. HasFields(Layout(opcodes(op), Bits(i) \cap (0 .. 4), func3s(op), Bits(r2), HighS(r0, i)),
                opcodes(op), Bits(i) \cap (0 .. 4), func3s(op), Bits(r2), HighS(r0, i))
  BY <1>3, <1>5, <1>6, <1>7, LayoutFields
<1> QED
  BY <1>4, <1>8, EncodeS

LEMMA ReadB ==
  ASSUME NEW op \in format.B_TYPE, NEW r0 \in Reg, NEW r1 \in Reg, NEW r2, NEW i
  PROVE  /\ HasFields(encode(op, r0, r1, r2, i), opcodes(op), {}, func3s(op), Bits(r0), Bits(r1))
         /\ Bits(r1) \cap (0 .. 4) = Bits(r1)
         /\ encode(op, r0, r1, r2, i) \cap BtypeBits = {}
<1>1. op \in Op /\ op \notin format.U_TYPE \cup format.J_TYPE
  BY DEF Op, format
<1>2. Bits(r0) \in SUBSET (0 .. 4) /\ Bits(r1) \in SUBSET (0 .. 4) /\ Bits(r1) \in Word
  BY FiveBits DEF Word
<1>3. opcodes(op) \in SUBSET (0 .. 6) /\ func3s(op) \in SUBSET (0 .. 2)
  BY <1>1, CodesFit
<1>4. Bits(r1) \cap (0 .. 4) = Bits(r1)
  BY <1>2
<1>5. \A b \in BtypeBits : b \in 0 .. 31
  BY DEF BtypeBits
<1>6. {} \in SUBSET (0 .. 4)
  OBVIOUS
<1>7. ASSUME NEW b \in BtypeBits
      PROVE  b \notin Layout(opcodes(op), {}, func3s(op), Bits(r0), Bits(r1))
  <2>1. b \in 0 .. 31
    BY <1>5
  <2>2. b \in 7 .. 11 \/ b \in 25 .. 31
    BY DEF BtypeBits
  <2>3. b \notin opcodes(op) /\ (b \in 25 .. 31 => b - 20 \notin Bits(r1))
    BY <1>2, <1>3, <2>2
  <2>4. b \in Layout(opcodes(op), {}, func3s(op), Bits(r0), Bits(r1)) <=>
           \/ b \in opcodes(op)
           \/ b \in 7 .. 11 /\ b - 7 \in {}
           \/ b \in 12 .. 14 /\ b - 12 \in func3s(op)
           \/ b \in 15 .. 19 /\ b - 15 \in Bits(r0)
           \/ b >= 20 /\ b - 20 \in Bits(r1)
    BY <1>2, <1>3, <1>6, <2>1, LayoutBit
  <2> QED
    BY <2>2, <2>3, <2>4
<1> QED
  BY <1>2, <1>3, <1>4, <1>6, <1>7, EncodeB, LayoutFields

LEMMA ReadU ==
  ASSUME NEW op \in format.U_TYPE, NEW r0 \in Reg, NEW r1, NEW r2,
         NEW i, Bits(i) \in SUBSET (0 .. 19)
  PROVE  /\ encode(op, r0, r1, r2, i) \in Word
         /\ Field(encode(op, r0, r1, r2, i), 0, 7) = opcodes(op)
         /\ Field(encode(op, r0, r1, r2, i), 7, 5) = Bits(r0)
         /\ Field(encode(op, r0, r1, r2, i), 12, 20) = Bits(i)
<1>1. op \in Op
  BY DEF Op, format
<1> QED
  BY <1>1, EncodeU, WideLayoutFields, CodesFit, FiveBits

LEMMA ReadJ ==
  ASSUME NEW op \in format.J_TYPE, NEW r0 \in Reg, NEW r1, NEW r2, NEW i
  PROVE  /\ encode(op, r0, r1, r2, i) \in Word
         /\ Field(encode(op, r0, r1, r2, i), 0, 7) = opcodes(op)
         /\ Field(encode(op, r0, r1, r2, i), 7, 5) = Bits(r0)
         /\ encode(op, r0, r1, r2, i) \cap JtypeBits = {}
<1>1. op \in Op
  BY DEF Op, format
<1>2. opcodes(op) \in SUBSET (0 .. 6) /\ Bits(r0) \in SUBSET (0 .. 4) /\ {} \in SUBSET (0 .. 19)
  BY <1>1, CodesFit, FiveBits
<1>3. ASSUME NEW b \in JtypeBits
      PROVE  b \notin WideLayout(opcodes(op), Bits(r0), {})
  <2>1. b \in 0 .. 31 /\ b \notin 7 .. 11 /\ b \notin opcodes(op)
    BY <1>2 DEF JtypeBits
  <2> QED
    BY <1>2, <2>1, WideLayoutBit
<1> QED
  BY <1>2, <1>3, EncodeJ, WideLayoutFields

\* The twelve-bit immediates, if they are accepted.
LEMMA TwelveBitsI ==
  ASSUME NEW op \in format.I_TYPE \ (Shifts \cup System), NEW i \in Int,
         -Weight[12] <= i, i < Weight[12], NEW w, Field(w, 20, 12) = HighI(op, i) \cap (0 .. 11)
  PROVE  ImmI(w) = Bits(i)
<1> DEFINE x == Bits(i) \cap (0 .. 11)
<1>1. HighI(op, i) = Bits(i)
  BY DEF HighI, ITypeImm, Shifts, System
<1>2. Field(w, 20, 12) = x
  BY <1>1
<1>3. x \in Word /\ LowBits(x, i, 11)
  BY BitsType DEF LowBits, Word
<1> HIDE DEF x
<1>4. Extend(x, 11) = Bits(i)
  BY <1>3, Extended
<1> QED
  BY <1>2, <1>4 DEF ImmI

LEMMA TwelveBitsS ==
  ASSUME NEW r \in Reg, NEW i \in Int, -Weight[12] <= i, i < Weight[12], NEW w,
         Field(w, 7, 5) = Bits(i) \cap (0 .. 4), Field(w, 25, 7) = Field(HighS(r, i), 5, 7)
  PROVE  ImmS(w) = Bits(i)
<1> DEFINE y == Bits(i)
           h == HighS(r, i)
           g == Field(h, 5, 7)
           x == Shl(g, 5) \cup (y \cap (0 .. 4))
<1>1. y \in SUBSET (0 .. 31)
  BY BitsType DEF Word
<1>2. Bits(r) \in SUBSET (0 .. 4)
  BY FiveBits
<1>3. \A b \in 5 .. 31 : b \in h <=> b \in y /\ b <= 11
  BY <1>2 DEF HighS
<1>4. h \in Word
  BY <1>2 DEF HighS, Word
<1>5. ImmS(w) = Extend(x, 11)
  BY DEF ImmS
<1> HIDE DEF y, h
<1>6. g \in Word /\ IsField(g, h, 5, 7)
  BY <1>4, FieldType, FieldHas
<1> HIDE DEF g
<1>7. Shl(g, 5) \in SUBSET (0 .. 31)
  BY ShiftType DEF Word
<1>8. ASSUME NEW b \in 0 .. 31
      PROVE  b \in Shl(g, 5) <=> b \in y /\ b \in 5 .. 11
  <2>1. b \in Shl(g, 5) <=> b - 5 \in g
    BY <1>6, ShlBit
  <2>2. CASE b < 5
    BY <1>6, <2>1, <2>2 DEF Word
  <2>3. CASE b >= 5
    <3>1. b - 5 \in 0 .. 31 /\ (b - 5) + 5 = b
      BY <2>3
    <3>2. b - 5 \in g <=> b - 5 < 7 /\ b \in h
      BY <1>6, <3>1 DEF IsField
    <3> QED
      BY <1>3, <2>1, <2>3, <3>2
  <2> QED
    BY <2>2, <2>3
<1>9. \A b \in 0 .. 31 : b \in x <=> b \in y /\ b <= 11
  BY <1>8
<1>10. x \in Word
  BY <1>1, <1>7 DEF Word
<1> HIDE DEF x
<1>11. LowBits(x, i, 11)
  BY <1>9 DEF LowBits, y
<1> QED
  BY <1>5, <1>10, <1>11, Extended

\* A shift amount, and the bit beside it.
LEMMA ShiftBits ==
  ASSUME NEW op \in Shifts, NEW i \in Reg
  PROVE  /\ HighI(op, i) \cap (0 .. 4) = Bits(i)
         /\ Field(HighI(op, i), 5, 7) = IF op = "SRAI" THEN {5} ELSE {}
<1> DEFINE x == Bits(i)
           y == HighI(op, i)
           z == IF op = "SRAI" THEN {5} ELSE {}
<1>1. x \in SUBSET (0 .. 4)
  BY FiveBits
<1>2. y = x \cup (IF op = "SRAI" THEN {10} ELSE {})
  BY DEF HighI, ITypeImm, Shifts
<1> HIDE DEF x, y
<1>3. y \cap (0 .. 4) = x
  <2>1. \A b \in 0 .. 4 : b \in y <=> b \in x
    BY <1>2
  <2> HIDE DEF y
  <2> QED
    BY <1>1, <2>1
<1>4. y \in Word /\ z \in Word
  <2>1. x \in SUBSET (0 .. 31)
    BY <1>1
  <2>2. (IF op = "SRAI" THEN {10} ELSE {}) \in SUBSET (0 .. 31)
    OBVIOUS
  <2>3. z \in SUBSET (0 .. 31)
    OBVIOUS
  <2> HIDE DEF z
  <2> QED
    BY <1>2, <2>1, <2>2, <2>3 DEF Word
<1>5. IsField(z, y, 5, 7)
  <2>1. \A b \in 0 .. 31 : b + 5 \notin x
    BY <1>1
  <2>2. \A b \in 0 .. 31 : b + 5 \in y <=> op = "SRAI" /\ b = 5
    BY <1>2, <2>1
  <2> HIDE DEF y
  <2> QED
    BY <1>4, <2>2 DEF IsField
<1> HIDE DEF z
<1>6. Field(y, 5, 7) = z
  BY <1>4, <1>5, FieldIs
<1> QED
  BY <1>3, <1>6 DEF x, y, z

\* What tells ecall from ebreak.
LEMMA SystemBits ==
  ASSUME NEW op \in System, NEW i
  PROVE  HighI(op, i) \cap (0 .. 11) = IF op = "EBREAK" THEN {0} ELSE {}
BY DEF HighI, ITypeImm, System

\* A displacement leaves the rest of a branch, and of a jump, alone.
LEMMA DisplacedB ==
  ASSUME NEW w \in Word, NEW x \in Word
  PROVE  LET v == set_btype_imm(w, x)
         IN  /\ v \in Word
             /\ Field(v, 0, 7) = Field(w, 0, 7)
             /\ Field(v, 12, 3) = Field(w, 12, 3)
             /\ Field(v, 15, 5) = Field(w, 15, 5)
             /\ Field(v, 20, 5) = Field(w, 20, 5)
<1> DEFINE v == set_btype_imm(w, x)
<1>1. v \in Word /\ v \ BtypeBits = w \ BtypeBits
  BY EncodersType, BtypeKeepsOthers
<1> HIDE DEF v
<1>2. /\ Outside(BtypeBits, 0, 7)
      /\ Outside(BtypeBits, 12, 3)
      /\ Outside(BtypeBits, 15, 5)
      /\ Outside(BtypeBits, 20, 5)
  BY DEF Outside, BtypeBits
<1>3. /\ Field(v, 0, 7) = Field(w, 0, 7)
      /\ Field(v, 12, 3) = Field(w, 12, 3)
      /\ Field(v, 15, 5) = Field(w, 15, 5)
      /\ Field(v, 20, 5) = Field(w, 20, 5)
  BY <1>1, <1>2, FieldKept
<1> QED
  BY <1>1, <1>3 DEF v

LEMMA DisplacedJ ==
  ASSUME NEW w \in Word, NEW x \in Word
  PROVE  LET v == set_jtype_imm(w, x)
         IN  /\ v \in Word
             /\ Field(v, 0, 7) = Field(w, 0, 7)
             /\ Field(v, 7, 5) = Field(w, 7, 5)
<1> DEFINE v == set_jtype_imm(w, x)
<1>1. v \in Word /\ v \ JtypeBits = w \ JtypeBits
  BY EncodersType, JtypeKeepsOthers
<1> HIDE DEF v
<1>2. Outside(JtypeBits, 0, 7) /\ Outside(JtypeBits, 7, 5)
  BY DEF Outside, JtypeBits
<1>3. /\ Field(v, 0, 7) = Field(w, 0, 7)
      /\ Field(v, 7, 5) = Field(w, 7, 5)
  BY <1>1, <1>2, FieldKept
<1> QED
  BY <1>1, <1>3 DEF v

\* A displacement that fits is read back.
LEMMA FittingB ==
  ASSUME NEW w \in Word, w \cap BtypeBits = {}, NEW n \in Int, n % 2 = 0,
         -Weight[13] <= n, n < Weight[13]
  PROVE  ImmB(set_btype_imm(w, Bits(n))) = Bits(n)
<1> DEFINE x == Bits(n) \cap (1 .. 12)
<1>1. ImmB(set_btype_imm(w, Bits(n))) = Extend(x, 12)
  BY BtypeDisplacement, BitsType
<1>2. x \in Word
  BY BitsType DEF Word
<1>3. LowBits(x, n, 12)
  BY EvenBits DEF LowBits
<1> HIDE DEF x
<1>4. Extend(x, 12) = Bits(n)
  BY <1>2, <1>3, Extended
<1> QED
  BY <1>1, <1>4

LEMMA FittingJ ==
  ASSUME NEW w \in Word, w \cap JtypeBits = {}, NEW n \in Int, n % 2 = 0,
         -Weight[21] <= n, n < Weight[21]
  PROVE  ImmJ(set_jtype_imm(w, Bits(n))) = Bits(n)
<1> DEFINE x == Bits(n) \cap (1 .. 20)
<1>1. ImmJ(set_jtype_imm(w, Bits(n))) = Extend(x, 20)
  BY JtypeDisplacement, BitsType
<1>2. x \in Word
  BY BitsType DEF Word
<1>3. LowBits(x, n, 20)
  BY EvenBits DEF LowBits
<1> HIDE DEF x
<1>4. Extend(x, 20) = Bits(n)
  BY <1>2, <1>3, Extended
<1> QED
  BY <1>1, <1>4

------------------------------------------------------------------------------
(* The invariant *)

\* What an accepted immediate fits in.
LEMMA Limits ==
  ASSUME NEW op \in Op, NEW i \in Int, Accepted(op, i)
  PROVE  /\ op \in format.I_TYPE \ System => -Weight[12] <= i /\ i < Weight[12]
         /\ op \in format.S_TYPE => -Weight[12] <= i /\ i < Weight[12]
         /\ op \in Shifts => i \in Reg
         /\ op \in format.U_TYPE => i \in Nat /\ i < Weight[21]
<1>1. Weight[12] = 2048 /\ Weight[21] = 1048576
  BY DEF Weight
<1>2. op \in (format.I_TYPE \ System) \cup format.S_TYPE => -Weight[12] <= i /\ i < Weight[12]
  BY <1>1 DEF Accepted
<1>3. op \in Shifts => i \in Reg
  BY DEF Accepted, Reg
<1>4. op \in format.U_TYPE => 0 <= i /\ i <= 1048575
  BY DEF Accepted
<1>5. op \in format.U_TYPE => i \in Nat /\ i < Weight[21]
  BY <1>1, <1>4
<1> QED
  BY <1>2, <1>3, <1>5

LEMMA FieldsWord ==
  ASSUME NEW w, NEW O, NEW A, NEW F, NEW B, NEW I, HasFields(w, O, A, F, B, I)
  PROVE  w \in Word
BY DEF HasFields

\* parse_line builds words.
LEMMA EncodeType ==
  ASSUME NEW op \in Op, NEW r0 \in Reg, NEW r1 \in Reg, NEW r2 \in Reg,
         NEW i \in Int, Accepted(op, i)
  PROVE  encode(op, r0, r1, r2, i) \in Word
<1>1. CASE op \in format.R_TYPE
  <2>1. HasFields(encode(op, r0, r1, r2, i),
                  opcodes(op), Bits(r0), func3s(op), Bits(r1), HighR(op, r2))
    BY <1>1, ReadR
  <2> QED
    BY <2>1, FieldsWord
<1>2. CASE op \in format.I_TYPE
  <2>1. HasFields(encode(op, r0, r1, r2, i), opcodes(op), Bits(IReg(op, r0)), func3s(op),
                  Bits(IReg(op, r1)), HighI(op, i))
    BY <1>2, ReadI
  <2> QED
    BY <2>1, FieldsWord
<1>3. CASE op \in format.S_TYPE
  <2>1. HasFields(encode(op, r0, r1, r2, i), opcodes(op), Bits(i) \cap (0 .. 4), func3s(op),
                  Bits(r2), HighS(r0, i))
    BY <1>3, ReadS
  <2> QED
    BY <2>1, FieldsWord
<1>4. CASE op \in format.B_TYPE
  <2>1. HasFields(encode(op, r0, r1, r2, i),
                  opcodes(op), {}, func3s(op), Bits(r0), Bits(r1))
    BY <1>4, ReadB
  <2> QED
    BY <2>1, FieldsWord
<1>5. CASE op \in format.U_TYPE
  <2>1. Bits(i) \in SUBSET (0 .. 19)
    BY <1>5, Limits, TwentyBits
  <2> QED
    BY <1>5, <2>1, ReadU
<1>6. CASE op \in format.J_TYPE
  BY <1>6, ReadJ
<1> QED
  BY <1>1, <1>2, <1>3, <1>4, <1>5, <1>6, Formats

LEMMA SetImmType ==
  ASSUME NEW op, NEW w \in Word, NEW x \in Word
  PROVE  set_imm(op, w, x) \in Word
BY EncodersType DEF set_imm

\* The word of an instruction is determined by its line: what it waits with has no
\* displacement, and it is done with an immediate that was accepted, or with the
\* displacement ORed into what it waited with, as if the label had been known.
Built ==
  /\ status = "waiting" => Labelled(line.op) /\ word = Base(0)
  /\ status = "done" =>
       IF Labelled(line.op)
         THEN word = set_imm(line.op, Base(0), Bits(imm))
         ELSE Accepted(line.op, imm) /\ word = Base(imm)

IInv == TypeOK /\ Built

LEMMA LineType ==
  ASSUME line \in Line
  PROVE  /\ line.op \in Op
         /\ line.r0 \in Reg /\ line.r1 \in Reg /\ line.r2 \in Reg
BY RegsAssumption DEF Line, Reg

\* A labelled operation's word has no immediate to be accepted.
LEMMA LabelledAccepted ==
  ASSUME NEW op \in Op, Labelled(op), NEW i
  PROVE  Accepted(op, i)
BY DEF Labelled, Accepted, format, Shifts, System

LEMMA BaseType ==
  ASSUME line \in Line, NEW i \in Int, Accepted(line.op, i)
  PROVE  Base(i) \in Word
BY LineType, EncodeType DEF Base

LEMMA IInvInit == Init => IInv
BY DEF Init, IInv, TypeOK, Built, Word

LEMMA IInvNext == IInv /\ [Next]_vars => IInv'
<1> SUFFICES ASSUME IInv, [Next]_vars
             PROVE  IInv'
  OBVIOUS
<1>1. TypeOK /\ Built /\ line \in Line
  BY DEF IInv, TypeOK
<1>2. Labelled(line.op) => Base(0) \in Word
  BY <1>1, LineType, LabelledAccepted, BaseType
<1>3. ASSUME NEW i \in Imms, PlainLine(i)
      PROVE  IInv'
  <2>1. i \in Int
    BY ImmsAssumption
  <2>2. Accepted(line.op, i) => Base(i) \in Word
    BY <1>1, <2>1, BaseType
  <2>3. line' = line /\ Base(i)' = Base(i)
    BY <1>3 DEF PlainLine, Base
  <2>4. CASE Accepted(line.op, i) /\ status' = "done" /\ word' = Base(i)
    BY <1>1, <1>3, <2>1, <2>2, <2>3, <2>4 DEF PlainLine, IInv, TypeOK, Built, Base
  <2>5. CASE ~ Accepted(line.op, i) /\ status' = "rejected" /\ UNCHANGED word
    BY <1>1, <1>3, <2>1, <2>3, <2>5 DEF PlainLine, IInv, TypeOK, Built
  <2> QED
    BY <1>3, <2>4, <2>5 DEF PlainLine
<1>4. ASSUME NEW off \in Offsets, KnownLabel(off)
      PROVE  IInv'
  <2>1. off \in Int /\ Bits(off) \in Word
    BY OffsetsAssumption, BitsType
  <2>2. set_imm(line.op, Base(0), Bits(off)) \in Word
    BY <1>2, <1>4, <2>1, SetImmType DEF KnownLabel
  <2> QED
    BY <1>1, <1>4, <2>1, <2>2 DEF KnownLabel, IInv, TypeOK, Built, Base
<1>5. ASSUME NEW off \in Offsets, DefineLabel(off)
      PROVE  IInv'
  <2>1. off \in Int /\ Bits(off) \in Word
    BY OffsetsAssumption, BitsType
  <2>2. Labelled(line.op) /\ word = Base(0) /\ word \in Word
    BY <1>1, <1>5 DEF DefineLabel, Built, TypeOK
  <2>3. set_imm(line.op, word, Bits(off)) \in Word
    BY <2>1, <2>2, SetImmType
  <2> QED
    BY <1>1, <1>5, <2>1, <2>2, <2>3 DEF DefineLabel, IInv, TypeOK, Built, Base
<1>6. ASSUME UnknownLabel
      PROVE  IInv'
  BY <1>1, <1>2, <1>6 DEF UnknownLabel, IInv, TypeOK, Built, Base
<1>7. CASE UNCHANGED vars
  BY <1>1, <1>7 DEF vars, IInv, TypeOK, Built, Base
<1> QED
  BY <1>3, <1>4, <1>5, <1>6, <1>7 DEF Next, Terminated

\* Type correctness: what parse_line and emitter_label_add build are 32-bit words.
THEOREM InstructionTypes == Spec => []TypeOK
<1>1. IInv => TypeOK
  BY DEF IInv
<1> QED
  BY <1>1, IInvInit, IInvNext, PTL DEF Spec

------------------------------------------------------------------------------
(* What holds of the words *)

\* w is v, with the displacement x or still without.
MayHold(w, op, v, x) == w = v \/ w = set_imm(op, v, x)

\* A branch.
LEMMA BranchFields ==
  ASSUME NEW op \in format.B_TYPE, NEW r0 \in Reg, NEW r1 \in Reg, NEW r2, NEW i,
         NEW x \in Word, NEW w,
         MayHold(w, op, encode(op, r0, r1, r2, i), x)
  PROVE  /\ Field(w, 0, 7) = opcodes(op)
         /\ Field(w, 12, 3) = func3s(op)
         /\ Field(w, 15, 5) = Bits(r0)
         /\ Field(w, 20, 5) = Bits(r1)
<1> DEFINE v == encode(op, r0, r1, r2, i)
<1>1. /\ HasFields(v, opcodes(op), {}, func3s(op), Bits(r0), Bits(r1))
      /\ Bits(r1) \cap (0 .. 4) = Bits(r1)
  BY ReadB
<1>2. w = v \/ w = set_btype_imm(v, x)
  BY DEF MayHold, set_imm
<1> HIDE DEF v
<1>3. /\ v \in Word
      /\ Field(v, 0, 7) = opcodes(op)
      /\ Field(v, 12, 3) = func3s(op)
      /\ Field(v, 15, 5) = Bits(r0)
      /\ Field(v, 20, 5) = Bits(r1)
  BY <1>1 DEF HasFields
<1> QED
  BY <1>2, <1>3, DisplacedB

\* A jump.
LEMMA JumpFields ==
  ASSUME NEW op \in format.J_TYPE, NEW r0 \in Reg, NEW r1, NEW r2, NEW i,
         NEW x \in Word, NEW w,
         MayHold(w, op, encode(op, r0, r1, r2, i), x)
  PROVE  Field(w, 0, 7) = opcodes(op) /\ Field(w, 7, 5) = Bits(r0)
<1> DEFINE v == encode(op, r0, r1, r2, i)
<1>1. v \in Word /\ Field(v, 0, 7) = opcodes(op) /\ Field(v, 7, 5) = Bits(r0)
  BY ReadJ
<1>2. w = v \/ w = set_jtype_imm(v, x)
  BY DEF MayHold, set_imm, format
<1> HIDE DEF v
<1> QED
  BY <1>1, <1>2, DisplacedJ

\* The invariant, for the operation and registers of the line.
LEMMA Cases ==
  ASSUME IInv, status \in {"waiting", "done"}
  PROVE  \/ /\ Labelled(line.op)
            /\ Bits(imm) \in Word
            /\ MayHold(word, line.op, encode(line.op, line.r0, line.r1, line.r2, 0), Bits(imm))
         \/ /\ ~ Labelled(line.op)
            /\ Accepted(line.op, imm)
            /\ word = encode(line.op, line.r0, line.r1, line.r2, imm)
BY BitsType DEF IInv, TypeOK, Built, Base, MayHold

\* Every register of every line is where a processor looks for it, whatever its
\* immediate, and whether its label was known when it was read (parse_line) or was
\* defined later (emitter_label_add).
THEOREM RegistersAlwaysRecovered == Spec => []RegistersRecovered
<1>1. IInv => RegistersRecovered
  <2> SUFFICES ASSUME IInv, status \in {"waiting", "done"}, line.op \notin System
               PROVE  RegistersRecovered
    BY DEF RegistersRecovered
  <2> DEFINE op == line.op
             r0 == line.r0
             r1 == line.r1
             r2 == line.r2
  <2>1. /\ op \in Op /\ r0 \in Reg /\ r1 \in Reg /\ r2 \in Reg
        /\ imm \in Int
    BY LineType DEF IInv, TypeOK
  <2>2. \/ /\ Labelled(op)
           /\ Bits(imm) \in Word
           /\ MayHold(word, op, encode(op, r0, r1, r2, 0), Bits(imm))
        \/ /\ ~ Labelled(op)
           /\ Accepted(op, imm)
           /\ word = encode(op, r0, r1, r2, imm)
    BY Cases
  <2>3. op \notin System
    OBVIOUS
  <2> HIDE DEF op, r0, r1, r2
  <2>4. CASE op \in format.R_TYPE
    <3>1. ~ Labelled(op)
      BY <2>4 DEF Labelled, format
    <3>2. /\ HasFields(word, opcodes(op), Bits(r0), func3s(op), Bits(r1), HighR(op, r2))
          /\ HighR(op, r2) \cap (0 .. 4) = Bits(r2)
      <4>1. word = encode(op, r0, r1, r2, imm)
        BY <2>2, <3>1
      <4> QED
        BY <2>1, <2>4, <4>1, ReadR
    <3>3. /\ Field(word, 7, 5) = Bits(r0)
          /\ Field(word, 15, 5) = Bits(r1)
          /\ Field(word, 20, 5) = Bits(r2)
      BY <3>2 DEF HasFields
    <3> QED
      BY <2>4, <3>3 DEF RegistersRecovered, format, op, r0, r1, r2
  <2>5. CASE op \in format.I_TYPE
    <3>1. ~ Labelled(op) /\ IReg(op, r0) = r0 /\ IReg(op, r1) = r1
      BY <2>3, <2>5 DEF Labelled, format, IReg
    <3>2. HasFields(word, opcodes(op), Bits(IReg(op, r0)), func3s(op), Bits(IReg(op, r1)),
                    HighI(op, imm))
      <4>1. word = encode(op, r0, r1, r2, imm)
        BY <2>2, <3>1
      <4> QED
        BY <2>1, <2>5, <4>1, ReadI
    <3>3. Field(word, 7, 5) = Bits(r0) /\ Field(word, 15, 5) = Bits(r1)
      BY <3>1, <3>2 DEF HasFields
    <3> QED
      BY <2>5, <3>3 DEF RegistersRecovered, format, op, r0, r1, r2
  <2>6. CASE op \in format.S_TYPE
    <3>1. ~ Labelled(op)
      BY <2>6 DEF Labelled, format
    <3>2. /\ HasFields(word, opcodes(op), Bits(imm) \cap (0 .. 4), func3s(op), Bits(r2),
                       HighS(r0, imm))
          /\ HighS(r0, imm) \cap (0 .. 4) = Bits(r0)
      <4>1. word = encode(op, r0, r1, r2, imm)
        BY <2>2, <3>1
      <4> QED
        BY <2>1, <2>6, <4>1, ReadS
    <3>3. Field(word, 20, 5) = Bits(r0) /\ Field(word, 15, 5) = Bits(r2)
      BY <3>2 DEF HasFields
    <3> QED
      BY <2>6, <3>3 DEF RegistersRecovered, format, op, r0, r1, r2
  <2>7. CASE op \in format.B_TYPE
    <3>1. Labelled(op)
      BY <2>7 DEF Labelled
    <3>2. Field(word, 15, 5) = Bits(r0) /\ Field(word, 20, 5) = Bits(r1)
      <4>1. MayHold(word, op, encode(op, r0, r1, r2, 0), Bits(imm)) /\ Bits(imm) \in Word
        BY <2>2, <3>1
      <4> QED
        BY <2>1, <2>7, <4>1, BranchFields
    <3> QED
      BY <2>7, <3>2 DEF RegistersRecovered, format, op, r0, r1, r2
  <2>8. CASE op \in format.U_TYPE
    <3>1. ~ Labelled(op)
      BY <2>8 DEF Labelled, format
    <3>2. Bits(imm) \in SUBSET (0 .. 19)
      BY <2>1, <2>2, <2>8, <3>1, Limits, TwentyBits
    <3>3. Field(word, 7, 5) = Bits(r0)
      BY <2>1, <2>2, <2>8, <3>1, <3>2, ReadU
    <3> QED
      BY <2>8, <3>3 DEF RegistersRecovered, format, op, r0, r1, r2
  <2>9. CASE op \in format.J_TYPE
    <3>1. Labelled(op)
      BY <2>9 DEF Labelled
    <3>2. Field(word, 7, 5) = Bits(r0)
      <4>1. MayHold(word, op, encode(op, r0, r1, r2, 0), Bits(imm)) /\ Bits(imm) \in Word
        BY <2>2, <3>1
      <4> QED
        BY <2>1, <2>9, <4>1, JumpFields
    <3> QED
      BY <2>9, <3>2 DEF RegistersRecovered, format, op, r0, r1, r2
  <2> QED
    BY <2>1, <2>4, <2>5, <2>6, <2>7, <2>8, <2>9, Formats
<1> QED
  BY <1>1, IInvInit, IInvNext, PTL DEF Spec

\* A processor computes with every immediate that parse_line accepts as it was
\* written, negative ones included; nothing of it is lost or taken from elsewhere.
THEOREM ImmediateAlwaysRecovered == Spec => []ImmediateRecovered
<1>1. IInv => ImmediateRecovered
  <2> SUFFICES ASSUME IInv, status = "done", ~ Labelled(line.op), line.op \notin System
               PROVE  ImmediateRecovered
    BY DEF ImmediateRecovered
  <2> DEFINE op == line.op
             r0 == line.r0
             r1 == line.r1
             r2 == line.r2
  <2>1. /\ op \in Op /\ r0 \in Reg /\ r1 \in Reg /\ r2 \in Reg
        /\ imm \in Int
    BY LineType DEF IInv, TypeOK
  <2>2. Accepted(op, imm) /\ word = encode(op, r0, r1, r2, imm)
    BY Cases
  <2>3. op \notin System
    OBVIOUS
  <2> HIDE DEF op, r0, r1, r2
  <2>4. CASE op \in format.I_TYPE
    <3>1. HasFields(word, opcodes(op), Bits(IReg(op, r0)), func3s(op), Bits(IReg(op, r1)),
                    HighI(op, imm))
      BY <2>1, <2>2, <2>4, ReadI
    <3>2. /\ Field(word, 20, 12) = HighI(op, imm) \cap (0 .. 11)
          /\ Field(word, 20, 5) = HighI(op, imm) \cap (0 .. 4)
      BY <3>1 DEF HasFields
    <3>3. CASE op \in Shifts
      <4>1. imm \in Reg
        BY <2>1, <2>2, <3>3, Limits
      <4>2. Field(word, 20, 5) = Bits(imm)
        BY <3>2, <3>3, <4>1, ShiftBits
      <4> QED
        BY <3>3, <4>2 DEF ImmediateRecovered, format, Shifts, op
    <3>4. CASE op \notin Shifts
      <4>1. -Weight[12] <= imm /\ imm < Weight[12]
        BY <2>1, <2>2, <2>3, <2>4, Limits
      <4>2. op \in format.I_TYPE \ (Shifts \cup System)
        BY <2>3, <2>4, <3>4
      <4>3. ImmI(word) = Bits(imm)
        BY <2>1, <3>2, <4>1, <4>2, TwelveBitsI
      <4> QED
        BY <2>4, <3>4, <4>3 DEF ImmediateRecovered, format, op
    <3> QED
      BY <3>3, <3>4
  <2>5. CASE op \in format.S_TYPE
    <3>1. HasFields(word, opcodes(op), Bits(imm) \cap (0 .. 4), func3s(op), Bits(r2),
                    HighS(r0, imm))
      BY <2>1, <2>2, <2>5, ReadS
    <3>2. /\ Field(word, 7, 5) = Bits(imm) \cap (0 .. 4)
          /\ Field(word, 25, 7) = Field(HighS(r0, imm), 5, 7)
      BY <3>1 DEF HasFields
    <3>3. -Weight[12] <= imm /\ imm < Weight[12]
      BY <2>1, <2>2, <2>5, Limits
    <3>4. ImmS(word) = Bits(imm)
      BY <2>1, <3>2, <3>3, TwelveBitsS
    <3> QED
      BY <2>5, <3>4 DEF ImmediateRecovered, format, Shifts, op
  <2>6. CASE op \in format.U_TYPE
    <3>1. Bits(imm) \in SUBSET (0 .. 19)
      BY <2>1, <2>2, <2>6, Limits, TwentyBits
    <3>2. ImmU(word) = Bits(imm)
      BY <2>1, <2>2, <2>6, <3>1, ReadU DEF ImmU
    <3> QED
      BY <2>6, <3>2 DEF ImmediateRecovered, format, Shifts, op
  <2>7. CASE op \in format.R_TYPE \cup format.B_TYPE \cup format.J_TYPE
    BY <2>7 DEF ImmediateRecovered, format, Shifts, op
  <2> QED
    BY <2>1, <2>4, <2>5, <2>6, <2>7, Formats
<1> QED
  BY <1>1, IInvInit, IInvNext, PTL DEF Spec

\* A displacement that fits its field takes a processor exactly to the label, whether
\* parse_line put it in or emitter_label_add did later.
THEOREM DisplacementAlwaysRecovered == Spec => []DisplacementRecovered
<1>1. IInv => DisplacementRecovered
  <2> SUFFICES ASSUME IInv, status = "done", Labelled(line.op), Fits(line.op, imm)
               PROVE  DisplacementRecovered
    BY DEF DisplacementRecovered
  <2> DEFINE op == line.op
             v == encode(line.op, line.r0, line.r1, line.r2, 0)
  <2>1. /\ op \in Op /\ line.r0 \in Reg /\ line.r1 \in Reg /\ line.r2 \in Reg
        /\ imm \in Int
    BY LineType DEF IInv, TypeOK
  <2>2. word = set_imm(op, v, Bits(imm))
    BY DEF IInv, Built, Base
  <2>3. imm % 2 = 0
    BY DEF Fits
  <2>4. CASE op \in format.B_TYPE
    <3>1. v \in Word /\ v \cap BtypeBits = {}
      BY <2>1, <2>4, ReadB, FieldsWord
    <3>2. word = set_btype_imm(v, Bits(imm))
      BY <2>2, <2>4 DEF set_imm
    <3>3. -Weight[13] <= imm /\ imm < Weight[13]
      BY <2>4 DEF Fits
    <3> HIDE DEF op, v
    <3>4. ImmB(word) = Bits(imm)
      BY <2>1, <2>3, <3>1, <3>2, <3>3, FittingB
    <3> QED
      BY <2>4, <3>4 DEF DisplacementRecovered, op
  <2>5. CASE op \in format.J_TYPE
    <3>1. v \in Word /\ v \cap JtypeBits = {}
      BY <2>1, <2>5, ReadJ
    <3>2. op \notin format.B_TYPE
      BY <2>5 DEF format
    <3>3. word = set_jtype_imm(v, Bits(imm))
      BY <2>2, <3>2 DEF set_imm
    <3>4. -Weight[21] <= imm /\ imm < Weight[21]
      BY <3>2 DEF Fits
    <3> HIDE DEF op, v
    <3>5. ImmJ(word) = Bits(imm)
      BY <2>1, <2>3, <3>1, <3>3, <3>4, FittingJ
    <3> QED
      BY <3>2, <3>5 DEF DisplacementRecovered, op
  <2> QED
    BY <2>4, <2>5 DEF Labelled
<1> QED
  BY <1>1, IInvInit, IInvNext, PTL DEF Spec

LEMMA ZeroBits == Bits(0) = {}
BY DEF Bits, Weight

\* The fields of w that select an operation are those of op's row in ops.c.
SelectedBy(w, op) ==
  /\ Field(w, 0, 7) = opcodes(op)
  /\ op \notin format.U_TYPE \cup format.J_TYPE => Field(w, 12, 3) = func3s(op)
  /\ op \in format.R_TYPE => Field(w, 25, 7) = func7s(op)
  /\ op \in Shifts => Field(w, 25, 7) = (IF op = "SRAI" THEN {5} ELSE {})
  /\ op \in System => /\ Field(w, 20, 12) = (IF op = "EBREAK" THEN {0} ELSE {})
                      /\ Field(w, 7, 5) = {} /\ Field(w, 15, 5) = {}

LEMMA Numbers ==
  /\ Number({}) = 0 /\ Number({0}) = 1 /\ Number({1}) = 2 /\ Number({0, 1}) = 3
  /\ Number({2}) = 4 /\ Number({0, 2}) = 5 /\ Number({1, 2}) = 6 /\ Number({0, 1, 2}) = 7
BY DEF Number

\* The major opcodes differ.
LEMMA OpcodesDiffer ==
  ASSUME NEW major
  PROVE  /\ major = {0, 1}                => 2 \notin major /\ 4 \notin major /\ 5 \notin major
         /\ major = {0, 1, 4}             => 2 \notin major /\ 4 \in major /\ 5 \notin major
         /\ major = {0, 1, 2, 4}          => 2 \in major /\ 4 \in major /\ 5 \notin major
         /\ major = {0, 1, 5}             => 2 \notin major /\ 4 \notin major /\ 5 \in major /\ 6 \notin major
         /\ major = {0, 1, 4, 5}          => 2 \notin major /\ 4 \in major /\ 5 \in major /\ 6 \notin major
         /\ major = {0, 1, 2, 4, 5}       => 2 \in major /\ 4 \in major /\ 5 \in major /\ 6 \notin major
         /\ major = {0, 1, 5, 6}          => 2 \notin major /\ 4 \notin major /\ 5 \in major /\ 6 \in major
         /\ major = {0, 1, 2, 5, 6}       => 2 \in major /\ 3 \notin major /\ 5 \in major /\ 6 \in major
         /\ major = {0, 1, 2, 3, 5, 6}    => 2 \in major /\ 3 \in major /\ 5 \in major /\ 6 \in major
         /\ major = {0, 1, 4, 5, 6}       => 2 \notin major /\ 4 \in major /\ 5 \in major /\ 6 \in major
OBVIOUS

\* The manual's map of major opcodes, one entry at a time.
LEMMA MajorOpcodes ==
  ASSUME NEW w, NEW major, major = Field(w, 0, 7),
         NEW funct3, funct3 = Number(Field(w, 12, 3)) + 1
  PROVE  /\ major = {0, 1}          => Decoded(w) = LOAD[funct3]
         /\ major = {0, 1, 4}       => Decoded(w) = (IF funct3 \in {2, 6}
                                                     THEN ByFunct7(w, OP_IMM[funct3])
                                                     ELSE OP_IMM[funct3])
         /\ major = {0, 1, 2, 4}    => Decoded(w) = "AUIPC"
         /\ major = {0, 1, 5}       => Decoded(w) = STORE[funct3]
         /\ major = {0, 1, 4, 5}    => Decoded(w) = ByFunct7(w, OP[funct3])
         /\ major = {0, 1, 2, 4, 5} => Decoded(w) = "LUI"
         /\ major = {0, 1, 5, 6}    => Decoded(w) = BRANCH[funct3]
         /\ major = {0, 1, 2, 5, 6} => (funct3 = 1 => Decoded(w) = "JALR")
         /\ major = {0, 1, 2, 3, 5, 6} => Decoded(w) = "JAL"
         /\ major = {0, 1, 4, 5, 6} => Decoded(w) = SYSTEM(w)
<1>1. CASE major = {0, 1}
  BY <1>1, OpcodesDiffer DEF Decoded
<1>2. CASE major = {0, 1, 4}
  BY <1>2, OpcodesDiffer DEF Decoded
<1>3. CASE major = {0, 1, 2, 4}
  BY <1>3, OpcodesDiffer DEF Decoded
<1>4. CASE major = {0, 1, 5}
  BY <1>4, OpcodesDiffer DEF Decoded
<1>5. CASE major = {0, 1, 4, 5}
  BY <1>5, OpcodesDiffer DEF Decoded
<1>6. CASE major = {0, 1, 2, 4, 5}
  BY <1>6, OpcodesDiffer DEF Decoded
<1>7. CASE major = {0, 1, 5, 6}
  BY <1>7, OpcodesDiffer DEF Decoded
<1>8. CASE major = {0, 1, 2, 5, 6}
  BY <1>8, OpcodesDiffer DEF Decoded
<1>9. CASE major = {0, 1, 2, 3, 5, 6}
  BY <1>9, OpcodesDiffer DEF Decoded
<1>10. CASE major = {0, 1, 4, 5, 6}
  BY <1>10, OpcodesDiffer DEF Decoded
<1> QED
  BY <1>1, <1>2, <1>3, <1>4, <1>5, <1>6, <1>7, <1>8, <1>9, <1>10

\* The operations of OP and their shifts of OP_IMM by funct7.
LEMMA Funct7Rows ==
  ASSUME NEW w, NEW op
  PROVE  /\ Field(w, 25, 7) = {} => ByFunct7(w, op) = op
         /\ Field(w, 25, 7) = {5} => ByFunct7(w, op) = Alternate(op)
BY DEF ByFunct7

\* Every row of ops.c is the manual's row of that operation.
LEMMA TablesAreTheManuals ==
  ASSUME NEW w, NEW op \in Op, SelectedBy(w, op)
  PROVE  Decoded(w) = op
<1> DEFINE funct3 == Number(Field(w, 12, 3)) + 1
<1>1. CASE op \in format.R_TYPE
  <2>0. op \notin format.U_TYPE \cup format.J_TYPE
    BY <1>1 DEF format
  <2>1. /\ Field(w, 0, 7) = {0, 1, 4, 5} /\ Field(w, 12, 3) = func3s(op)
        /\ Field(w, 25, 7) = func7s(op)
    <3>1. opcodes(op) = {0, 1, 4, 5}
      <4>1. /\ op \notin Loads /\ op # "JALR" /\ op \notin System
            /\ op \notin format.I_TYPE \ (Loads \cup System \cup {"JALR"})
            /\ op \notin format.S_TYPE /\ op \notin format.B_TYPE
            /\ op # "JAL" /\ op # "LUI" /\ op # "AUIPC"
        BY <1>1 DEF format, Loads, System
      <4> QED
        BY <1>1, <4>1 DEF opcodes
    <3> QED
      BY <1>1, <2>0, <3>1 DEF SelectedBy
  <2>2. Decoded(w) = ByFunct7(w, OP[funct3])
    BY <2>1, MajorOpcodes
  <2>3. CASE op \in {"SUB", "SRA"}
    <3>1. ByFunct7(w, OP[funct3]) = Alternate(OP[funct3])
      BY <2>1, <2>3, Funct7Rows DEF func7s
    <3>2. funct3 = IF op = "SUB" THEN 1 ELSE 6
      BY <2>1, <2>3, Numbers DEF func3s
    <3> QED
      BY <2>2, <2>3, <3>1, <3>2 DEF Alternate, OP
  <2>4. CASE op \notin {"SUB", "SRA"}
    <3>1. ByFunct7(w, OP[funct3]) = OP[funct3]
      BY <2>1, <2>4, Funct7Rows DEF func7s
    <3>2. op \in {"ADD", "XOR", "OR", "AND", "SLL", "SRL", "SLT", "SLTU"}
      BY <1>1, <2>4 DEF format
    <3>3. /\ (op = "ADD" => funct3 = 1) /\ (op = "XOR" => funct3 = 5) /\ (op = "OR" => funct3 = 7)
          /\ (op = "AND" => funct3 = 8) /\ (op = "SLL" => funct3 = 2) /\ (op = "SRL" => funct3 = 6)
          /\ (op = "SLT" => funct3 = 3) /\ (op = "SLTU" => funct3 = 4)
      BY <2>1, Numbers DEF func3s
    <3> QED
      BY <2>2, <3>1, <3>2, <3>3 DEF OP
  <2> QED
    BY <2>3, <2>4
<1>2. CASE op \in Loads
  <2>0. op \notin format.U_TYPE \cup format.J_TYPE /\ op \notin format.R_TYPE
    BY <1>2 DEF format, Loads
  <2>1. Field(w, 0, 7) = {0, 1} /\ Field(w, 12, 3) = func3s(op)
    <3>1. opcodes(op) = {0, 1}
      <4>1. /\ op # "JALR" /\ op \notin System
            /\ op \notin format.I_TYPE \ (Loads \cup System \cup {"JALR"})
            /\ op \notin format.S_TYPE /\ op \notin format.B_TYPE
            /\ op # "JAL" /\ op # "LUI" /\ op # "AUIPC"
        BY <1>2 DEF format, Loads, System
      <4> QED
        BY <1>2, <2>0, <4>1 DEF opcodes
    <3> QED
      BY <2>0, <3>1 DEF SelectedBy
  <2>2. Decoded(w) = LOAD[funct3]
    BY <2>1, MajorOpcodes
  <2>3. Decoded(w) = op
    <3>1. /\ (op = "LB" => funct3 = 1) /\ (op = "LH" => funct3 = 2) /\ (op = "LW" => funct3 = 3)
          /\ (op = "LBU" => funct3 = 5) /\ (op = "LHU" => funct3 = 6)
      BY <2>1, Numbers DEF func3s
    <3> QED
      BY <1>2, <2>2, <3>1 DEF LOAD, Loads
  <2> QED
    BY <2>3
<1>3. CASE op \in System
  <2>1. Field(w, 0, 7) = {0, 1, 4, 5, 6} /\ Field(w, 12, 3) = {}
    BY <1>3 DEF SelectedBy, format, opcodes, func3s, System, Loads
  <2>2. Decoded(w) = SYSTEM(w)
    BY <2>1, MajorOpcodes
  <2> QED
    BY <1>3, <2>1, <2>2 DEF SelectedBy, SYSTEM, System
<1>4. CASE op = "JALR"
  <2>1. Field(w, 0, 7) = {0, 1, 2, 5, 6} /\ Field(w, 12, 3) = {}
    BY <1>4 DEF SelectedBy, format, opcodes, func3s, Loads, System
  <2>2. funct3 = 1
    BY <2>1, Numbers
  <2> QED
    BY <1>4, <2>1, <2>2, MajorOpcodes
<1>5. CASE op \in format.I_TYPE \ (Loads \cup System \cup {"JALR"})
  <2>1. Field(w, 0, 7) = {0, 1, 4} /\ Field(w, 12, 3) = func3s(op)
    BY <1>5 DEF SelectedBy, format, opcodes, Loads, System
  <2>2. Decoded(w) = IF funct3 \in {2, 6} THEN ByFunct7(w, OP_IMM[funct3]) ELSE OP_IMM[funct3]
    BY <2>1, MajorOpcodes
  <2>3. CASE op \in Shifts
    <3>1. funct3 = IF op = "SLLI" THEN 2 ELSE 6
      BY <2>1, <2>3, Numbers DEF func3s, Shifts
    <3>2. Field(w, 25, 7) = IF op = "SRAI" THEN {5} ELSE {}
      BY <2>3 DEF SelectedBy
    <3>3. ByFunct7(w, OP_IMM[funct3]) = IF op = "SRAI" THEN Alternate(OP_IMM[funct3]) ELSE OP_IMM[funct3]
      BY <3>2, Funct7Rows
    <3> QED
      BY <2>2, <2>3, <3>1, <3>3 DEF Alternate, OP_IMM, Shifts
  <2>4. CASE op \notin Shifts
    <3>1. op \in {"ADDI", "XORI", "ORI", "ANDI", "SLTI", "SLTIU"}
      BY <1>5, <2>4 DEF format, Loads, System, Shifts
    <3>2. /\ (op = "ADDI" => funct3 = 1) /\ (op = "XORI" => funct3 = 5) /\ (op = "ORI" => funct3 = 7)
          /\ (op = "ANDI" => funct3 = 8) /\ (op = "SLTI" => funct3 = 3) /\ (op = "SLTIU" => funct3 = 4)
      BY <2>1, Numbers DEF func3s
    <3> QED
      BY <2>2, <3>1, <3>2 DEF OP_IMM
  <2> QED
    BY <2>3, <2>4
<1>6. CASE op \in format.S_TYPE
  <2>1. Field(w, 0, 7) = {0, 1, 5} /\ Field(w, 12, 3) = func3s(op)
    BY <1>6 DEF SelectedBy, format, opcodes, Loads, System
  <2>2. Decoded(w) = STORE[funct3]
    BY <2>1, MajorOpcodes
  <2>3. Decoded(w) = op
    <3>1. (op = "SB" => funct3 = 1) /\ (op = "SH" => funct3 = 2) /\ (op = "SW" => funct3 = 3)
      BY <2>1, Numbers DEF func3s
    <3>2. op \in {"SB", "SH", "SW"}
      BY <1>6 DEF format
    <3> QED
      BY <2>2, <3>1, <3>2 DEF STORE
  <2> QED
    BY <2>3
<1>7. CASE op \in format.B_TYPE
  <2>1. Field(w, 0, 7) = {0, 1, 5, 6} /\ Field(w, 12, 3) = func3s(op)
    BY <1>7 DEF SelectedBy, format, opcodes, Loads, System
  <2>2. Decoded(w) = BRANCH[funct3]
    BY <2>1, MajorOpcodes
  <2>3. Decoded(w) = op
    <3>1. /\ (op = "BEQ" => funct3 = 1) /\ (op = "BNE" => funct3 = 2) /\ (op = "BLT" => funct3 = 5)
          /\ (op = "BGE" => funct3 = 6) /\ (op = "BLTU" => funct3 = 7) /\ (op = "BGEU" => funct3 = 8)
      BY <2>1, Numbers DEF func3s
    <3>2. op \in {"BEQ", "BNE", "BLT", "BGE", "BLTU", "BGEU"}
      BY <1>7 DEF format
    <3> QED
      BY <2>2, <3>1, <3>2 DEF BRANCH
  <2> QED
    BY <2>3
<1>8. CASE op \in format.U_TYPE \cup format.J_TYPE
  <2>1. Field(w, 0, 7) = opcodes(op)
    BY DEF SelectedBy
  <2>2. \/ op = "AUIPC" /\ Field(w, 0, 7) = {0, 1, 2, 4}
        \/ op = "LUI" /\ Field(w, 0, 7) = {0, 1, 2, 4, 5}
        \/ op = "JAL" /\ Field(w, 0, 7) = {0, 1, 2, 3, 5, 6}
    BY <1>8, <2>1 DEF opcodes, format, Loads, System
  <2> QED
    BY <2>2, MajorOpcodes
<1> QED
  BY <1>1, <1>2, <1>3, <1>4, <1>5, <1>6, <1>7, <1>8 DEF Op, format

\* A processor executes the operation of the line, for every register, immediate
\* and displacement: the tables of ops.c are the manual's, and nothing that is
\* shifted or ORed into a word disturbs the fields that select the operation.
THEOREM OperationAlwaysRecovered == Spec => []OperationRecovered
<1>1. IInv => OperationRecovered
  <2> SUFFICES ASSUME IInv, status = "done"
               PROVE  Decoded(word) = line.op
    BY DEF OperationRecovered
  <2> DEFINE op == line.op
             r0 == line.r0
             r1 == line.r1
             r2 == line.r2
  <2>1. /\ op \in Op /\ r0 \in Reg /\ r1 \in Reg /\ r2 \in Reg
        /\ imm \in Int
    BY LineType DEF IInv, TypeOK
  <2>2. \/ /\ Labelled(op)
           /\ Bits(imm) \in Word
           /\ MayHold(word, op, encode(op, r0, r1, r2, 0), Bits(imm))
        \/ /\ ~ Labelled(op)
           /\ Accepted(op, imm)
           /\ word = encode(op, r0, r1, r2, imm)
    BY Cases
  <2> HIDE DEF op, r0, r1, r2
  <2>3. SelectedBy(word, op)
    <3>1. CASE op \in format.R_TYPE
      <4>0. ~ Labelled(op)
        BY <3>1 DEF Labelled, format
      <4>1. word = encode(op, r0, r1, r2, imm)
        BY <2>2, <4>0
      <4>2. /\ HasFields(word, opcodes(op), Bits(r0), func3s(op), Bits(r1), HighR(op, r2))
            /\ Field(HighR(op, r2), 5, 7) = func7s(op)
        BY <2>1, <3>1, <4>1, ReadR
      <4>3. /\ Field(word, 0, 7) = opcodes(op)
            /\ Field(word, 12, 3) = func3s(op)
            /\ Field(word, 25, 7) = func7s(op)
        BY <4>2 DEF HasFields
      <4> QED
        BY <3>1, <4>3 DEF SelectedBy, format, Shifts, System
    <3>2. CASE op \in format.I_TYPE
      <4>0. ~ Labelled(op)
        BY <3>2 DEF Labelled, format
      <4>1. word = encode(op, r0, r1, r2, imm) /\ Accepted(op, imm)
        BY <2>2, <4>0
      <4>2. HasFields(word, opcodes(op), Bits(IReg(op, r0)), func3s(op), Bits(IReg(op, r1)),
                      HighI(op, imm))
        BY <2>1, <3>2, <4>1, ReadI
      <4>3. /\ Field(word, 0, 7) = opcodes(op)
            /\ Field(word, 12, 3) = func3s(op)
            /\ Field(word, 20, 12) = HighI(op, imm) \cap (0 .. 11)
            /\ Field(word, 25, 7) = Field(HighI(op, imm), 5, 7)
        BY <4>2 DEF HasFields
      <4>4. op \in Shifts => Field(word, 25, 7) = (IF op = "SRAI" THEN {5} ELSE {})
        BY <2>1, <4>1, <4>3, Limits, ShiftBits
      <4>5. op \in System => /\ Field(word, 20, 12) = (IF op = "EBREAK" THEN {0} ELSE {})
                              /\ Field(word, 7, 5) = {} /\ Field(word, 15, 5) = {}
        BY <4>2, <4>3, SystemBits, ZeroBits DEF HasFields, IReg
      <4>6. op \notin format.R_TYPE
        BY <3>2 DEF format
      <4> QED
        BY <4>3, <4>4, <4>5, <4>6 DEF SelectedBy
    <3>3. CASE op \in format.S_TYPE
      <4>0. ~ Labelled(op)
        BY <3>3 DEF Labelled, format
      <4>1. word = encode(op, r0, r1, r2, imm)
        BY <2>2, <4>0
      <4>2. HasFields(word, opcodes(op), Bits(imm) \cap (0 .. 4), func3s(op), Bits(r2),
                      HighS(r0, imm))
        BY <2>1, <3>3, <4>1, ReadS
      <4>3. Field(word, 0, 7) = opcodes(op) /\ Field(word, 12, 3) = func3s(op)
        BY <4>2 DEF HasFields
      <4> QED
        BY <3>3, <4>3 DEF SelectedBy, format, Shifts, System
    <3>4. CASE op \in format.B_TYPE
      <4>1. MayHold(word, op, encode(op, r0, r1, r2, 0), Bits(imm)) /\ Bits(imm) \in Word
        BY <2>2, <3>4 DEF Labelled
      <4>2. Field(word, 0, 7) = opcodes(op) /\ Field(word, 12, 3) = func3s(op)
        BY <2>1, <3>4, <4>1, BranchFields
      <4> QED
        BY <3>4, <4>2 DEF SelectedBy, format, Shifts, System
    <3>5. CASE op \in format.U_TYPE
      <4>0. ~ Labelled(op)
        BY <3>5 DEF Labelled, format
      <4>1. word = encode(op, r0, r1, r2, imm) /\ Accepted(op, imm)
        BY <2>2, <4>0
      <4>2. Bits(imm) \in SUBSET (0 .. 19)
        BY <2>1, <3>5, <4>1, Limits, TwentyBits
      <4>3. Field(word, 0, 7) = opcodes(op)
        BY <2>1, <3>5, <4>1, <4>2, ReadU
      <4> QED
        BY <3>5, <4>3 DEF SelectedBy, format, Shifts, System
    <3>6. CASE op \in format.J_TYPE
      <4>1. MayHold(word, op, encode(op, r0, r1, r2, 0), Bits(imm)) /\ Bits(imm) \in Word
        BY <2>2, <3>6 DEF Labelled
      <4>2. Field(word, 0, 7) = opcodes(op)
        BY <2>1, <3>6, <4>1, JumpFields
      <4> QED
        BY <3>6, <4>2 DEF SelectedBy, format, Shifts, System
    <3> QED
      BY <2>1, <3>1, <3>2, <3>3, <3>4, <3>5, <3>6, Formats
  <2>4. Decoded(word) = op
    BY <2>1, <2>3, TablesAreTheManuals
  <2> QED
    BY <2>4 DEF op
<1> QED
  BY <1>1, IInvInit, IInvNext, PTL DEF Spec
==============================================================================
