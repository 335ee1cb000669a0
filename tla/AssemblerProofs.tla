--------------------------- MODULE AssemblerProofs ---------------------------
(***************************************************************************)
(* Theorems about Assembler, for every set of labels, every buffer size,   *)
(* every base address and every bound on the program: first what each      *)
(* operation of Emitter keeps, then the actions of Assembler.              *)
(***************************************************************************)
EXTENDS Assembler, SequenceTheorems, TLAPS

\* A label the map does not hold is as a new one is inserted.
AbsentLabels == \A l \in Label \ keys : val[l] = -1 /\ waiters[l] = <<>>

------------------------------------------------------------------------------
(* Sequences and bytes *)

\* A function on 1 .. n is a sequence of length n.
LEMMA FunctionIsSeq ==
  ASSUME NEW S, NEW n \in Nat, NEW f \in [1 .. n -> S]
  PROVE  f \in Seq(S) /\ Len(f) = n
OBVIOUS

\* The length of a concatenation.
LEMMA ConcatLen ==
  ASSUME NEW S, NEW a \in Seq(S), NEW b \in Seq(S)
  PROVE  a \o b \in Seq(S) /\ Len(a \o b) = Len(a) + Len(b)
OBVIOUS

\* An instruction is four bytes.
LEMMA WordType ==
  ASSUME NEW kind \in AssignType \cup {"op"}, NEW l \in Label \cup {NoLabel},
         NEW fixes \in SUBSET Fix
  PROVE  Word(kind, l, fixes) \in Seq(Byte) /\ Len(Word(kind, l, fixes)) = 4
<1>1. \A i \in 1 .. 4 :
        [kind |-> kind, ref |-> l, part |-> i - 1, imm |-> fixes] \in Byte
  BY DEF Byte
<1>2. Word(kind, l, fixes) \in [1 .. 4 -> Byte]
  BY <1>1 DEF Word
<1>3. \A n \in Nat : \A f \in [1 .. n -> Byte] : f \in Seq(Byte) /\ Len(f) = n
  BY FunctionIsSeq
<1>4. 4 \in Nat
  OBVIOUS
<1> QED
  BY <1>2, <1>3, <1>4, Zenon

\* n zeros are n bytes.
LEMMA ZerosType ==
  ASSUME NEW n \in Nat
  PROVE  Zeros(n) \in Seq(Byte) /\ Len(Zeros(n)) = n
<1>1. Plain("zero") \in Byte
  BY DEF Plain, Byte
<1>2. Zeros(n) \in [1 .. n -> Byte]
  BY <1>1 DEF Zeros
<1> QED
  BY <1>2, FunctionIsSeq

\* n bytes of data are n bytes.
LEMMA DataType ==
  ASSUME NEW n \in Nat
  PROVE  DataBytes(n) \in Seq(Byte) /\ Len(DataBytes(n)) = n
<1>1. Plain("data") \in Byte
  BY DEF Plain, Byte
<1>2. DataBytes(n) \in [1 .. n -> Byte]
  BY <1>1 DEF DataBytes
<1> QED
  BY <1>2, FunctionIsSeq

------------------------------------------------------------------------------
(* Sections *)

\* What the section operations keep.
SectionsOK ==
  /\ buf \in [Section -> Seq(Byte)]
  /\ pos \in [Section -> Nat]
  /\ swap \in [Section -> Seq(Byte)]
  /\ swap_size \in [Section -> Nat]
  /\ PosIsOffset

\* One section may change to any state in which its own offsets agree.
LEMMA SectionStep ==
  ASSUME SectionsOK, NEW s \in Section, NEW b \in Seq(Byte), NEW f \in Seq(Byte),
         NEW p \in Nat, NEW size \in Nat,
         Len(b) < BufSize, p = Len(f) + Len(b),
         buf' = [buf EXCEPT ![s] = b], pos' = [pos EXCEPT ![s] = p],
         swap' = [swap EXCEPT ![s] = f], swap_size' = [swap_size EXCEPT ![s] = size]
  PROVE  SectionsOK'
<1>1. /\ buf' \in [Section -> Seq(Byte)] /\ pos' \in [Section -> Nat]
      /\ swap' \in [Section -> Seq(Byte)] /\ swap_size' \in [Section -> Nat]
  BY DEF SectionsOK
<1>2. ASSUME NEW t \in Section
      PROVE  pos'[t] = Len(swap'[t]) + Len(buf'[t]) /\ Len(buf'[t]) < BufSize
  <2>1. CASE t = s
    <3>1. buf'[t] = b /\ pos'[t] = p /\ swap'[t] = f
      BY <2>1, Zenon DEF SectionsOK
    <3> QED
      BY <3>1
  <2>2. CASE t # s
    <3>1. buf'[t] = buf[t] /\ pos'[t] = pos[t] /\ swap'[t] = swap[t]
      BY <2>2, Zenon DEF SectionsOK
    <3> QED
      BY <3>1 DEF SectionsOK, PosIsOffset, len
  <2> QED
    BY <2>1, <2>2
<1> QED
  BY <1>1, <1>2 DEF SectionsOK, PosIsOffset, len

\* The facts about one section that its operations need.
LEMMA SectionFacts ==
  ASSUME SectionsOK, NEW s \in Section
  PROVE  /\ buf[s] \in Seq(Byte) /\ Len(buf[s]) \in Nat /\ len(s) = Len(buf[s])
         /\ swap[s] \in Seq(Byte) /\ Len(swap[s]) \in Nat
         /\ pos[s] \in Nat /\ swap_size[s] \in Nat
         /\ pos[s] = Len(swap[s]) + Len(buf[s])
         /\ Len(buf[s]) < BufSize
BY LenProperties DEF SectionsOK, PosIsOffset, len

\* A section's bytes are as many as pos says.
LEMMA ImageFacts ==
  ASSUME SectionsOK, NEW s \in Section
  PROVE  /\ Image(s) \in Seq(Byte) /\ Len(Image(s)) = pos[s] /\ pos[s] \in Nat
         /\ \A i \in 1 .. pos[s] :
              Image(s)[i] = IF i <= Len(swap[s]) THEN swap[s][i]
                            ELSE buf[s][i - Len(swap[s])]
<1> DEFINE f == swap[s]
           b == buf[s]
<1>1. f \in Seq(Byte) /\ b \in Seq(Byte) /\ pos[s] = Len(f) + Len(b) /\ pos[s] \in Nat
  BY SectionFacts
<1> HIDE DEF f, b
<1>2. f \o b \in Seq(Byte) /\ Len(f \o b) = Len(f) + Len(b)
  BY <1>1, ConcatLen
<1>3. \A i \in 1 .. Len(f) + Len(b) :
        (f \o b)[i] = IF i <= Len(f) THEN f[i] ELSE b[i - Len(f)]
  BY <1>1
<1> QED
  BY <1>1, <1>2, <1>3, Zenon DEF Image, f, b

\* emitter_buffer keeps pos at the end of what is stored, even when it drops
\* bytes, and leaves at least one byte of the buffer free.
LEMMA BufferKeeps ==
  ASSUME SectionsOK, NEW data \in Seq(Byte), Len(data) <= 8,
         current_section \in Section, emitter_buffer(data)
  PROVE  SectionsOK'
<1> DEFINE s == current_section
           b == buf[s]
           f == swap[s]
           n == Len(data)
<1>1. /\ b \in Seq(Byte) /\ f \in Seq(Byte) /\ s \in Section
      /\ len(s) = Len(b) /\ pos[s] = Len(f) + Len(b) /\ swap_size[s] \in Nat
  BY SectionFacts
<1>a. Len(b) \in Nat /\ Len(f) \in Nat /\ n \in Nat
  BY SectionFacts, LenProperties
<1>b. Len(b) < BufSize /\ BufSize \in Nat /\ BufSize >= 8 /\ n <= 8
  BY SectionFacts, BufSizeAssumption
<1>2. CASE ~ Full(s, n)
  <2>1. buf' = [buf EXCEPT ![s] = b \o data]
    BY <1>2 DEF emitter_buffer
  <2>2. /\ pos' = [pos EXCEPT ![s] = Len(f) + Len(b) + n]
        /\ swap' = [swap EXCEPT ![s] = f]
        /\ swap_size' = [swap_size EXCEPT ![s] = swap_size[s]]
    BY <1>1, <1>2 DEF emitter_buffer, SectionsOK
  <2>3. b \o data \in Seq(Byte) /\ Len(b \o data) = Len(b) + n
    BY <1>1, ConcatLen, Zenon
  <2> HIDE DEF s, b, f, n
  <2>4. Len(b) + n < BufSize
    BY <1>1, <1>a, <1>b, <1>2 DEF Full
  <2>5. Len(f) + Len(b) + n \in Nat /\ Len(f) + Len(b) + n = Len(f) + Len(b \o data)
    BY <1>a, <2>3
  <2>6. Len(b \o data) < BufSize
    BY <2>3, <2>4
  <2> QED
    BY <1>1, <2>1, <2>2, <2>3, <2>5, <2>6, SectionStep
<1>3. CASE Full(s, n)
  <2> DEFINE cut == BufSize - Len(b)
             rest == SubSeq(data, cut + 1, n)
             size == IF b = <<>> THEN swap_size[s] ELSE Len(f) + Len(b)
  <2>1. /\ buf' = [buf EXCEPT ![s] = rest]
        /\ pos' = [pos EXCEPT ![s] = @ + (n - cut)]
        /\ swap' = [swap EXCEPT ![s] = f \o b \o <<>>]
        /\ swap_size' = [swap_size EXCEPT ![s] = size]
    BY <1>3 DEF emitter_buffer, emitter_clear_buffer, Spilled, len
  <2>2. cut \in Nat /\ cut > 0 /\ cut <= n
    BY <1>1, <1>a, <1>b, <1>3 DEF Full
  <2>3. rest \in Seq(Byte) /\ Len(rest) = n - cut
    BY <1>a, <2>2
  <2>4. f \o b \o <<>> \in Seq(Byte) /\ Len(f \o b \o <<>>) = Len(f) + Len(b)
    <3>1. f \o b \in Seq(Byte) /\ Len(f \o b) = Len(f) + Len(b)
      BY <1>1, ConcatLen, Zenon
    <3>2. f \o b \o <<>> = f \o b
      BY <3>1, ConcatEmptySeq, Zenon
    <3> QED
      BY <3>1, <3>2
  <2>5. pos' = [pos EXCEPT ![s] = Len(f) + Len(b) + (n - cut)]
    BY <1>1, <2>1 DEF SectionsOK
  <2> HIDE DEF s, b, f, n, rest
  <2>6. size \in Nat
    BY <1>1, <1>a
  <2>7. Len(rest) < BufSize
    BY <1>a, <1>b, <2>2, <2>3
  <2>8. /\ Len(f) + Len(b) + (n - cut) \in Nat
        /\ Len(f) + Len(b) + (n - cut) = Len(f \o b \o <<>>) + Len(rest)
    BY <1>a, <2>2, <2>3, <2>4
  <2> HIDE DEF cut, size
  <2> QED
    BY <1>1, <2>1, <2>3, <2>4, <2>5, <2>6, <2>7, <2>8, SectionStep
<1> QED
  BY <1>2, <1>3

\* So does emitter_advance, whose hole may be of any size.
LEMMA AdvanceKeeps ==
  ASSUME SectionsOK, NEW n \in Nat, current_section \in Section, emitter_advance(n)
  PROVE  SectionsOK'
<1> DEFINE s == current_section
           b == buf[s]
           f == swap[s]
<1>1. /\ b \in Seq(Byte) /\ f \in Seq(Byte) /\ s \in Section
      /\ len(s) = Len(b) /\ pos[s] = Len(f) + Len(b) /\ swap_size[s] \in Nat
  BY SectionFacts
<1>a. Len(b) \in Nat /\ Len(f) \in Nat
  BY SectionFacts
<1>b. Len(b) < BufSize /\ BufSize \in Nat /\ BufSize >= 8
  BY SectionFacts, BufSizeAssumption
<1>2. Zeros(n) \in Seq(Byte) /\ Len(Zeros(n)) = n
  BY ZerosType
<1>3. CASE ~ Full(s, n)
  <2>1. buf' = [buf EXCEPT ![s] = b \o Zeros(n)]
    BY <1>3 DEF emitter_advance
  <2>2. /\ pos' = [pos EXCEPT ![s] = Len(f) + Len(b) + n]
        /\ swap' = [swap EXCEPT ![s] = f]
        /\ swap_size' = [swap_size EXCEPT ![s] = swap_size[s]]
    BY <1>1, <1>3 DEF emitter_advance, SectionsOK
  <2> HIDE DEF s, b, f
  <2>3. b \o Zeros(n) \in Seq(Byte) /\ Len(b \o Zeros(n)) = Len(b) + Len(Zeros(n))
    BY <1>1, <1>2, ConcatLen, Zenon
  <2>4. Len(b \o Zeros(n)) < BufSize
    BY <1>1, <1>2, <1>a, <1>b, <1>3, <2>3 DEF Full
  <2>5. Len(f) + Len(b) + n \in Nat /\ Len(f) + Len(b) + n = Len(f) + Len(b \o Zeros(n))
    BY <1>2, <1>a, <2>3
  <2> QED
    BY <1>1, <2>1, <2>2, <2>3, <2>4, <2>5, SectionStep
<1>4. CASE Full(s, n)
  <2> DEFINE file == f \o b \o Zeros(n)
             size == IF b = <<>> THEN swap_size[s] ELSE Len(f) + Len(b)
  <2>1. /\ buf' = [buf EXCEPT ![s] = <<>>]
        /\ pos' = [pos EXCEPT ![s] = @ + n]
        /\ swap' = [swap EXCEPT ![s] = file]
        /\ swap_size' = [swap_size EXCEPT ![s] = size]
    BY <1>4 DEF emitter_advance, emitter_clear_buffer, len
  <2>2. file \in Seq(Byte) /\ Len(file) = Len(f) + Len(b) + n
    <3>1. f \o b \in Seq(Byte) /\ Len(f \o b) = Len(f) + Len(b)
      BY <1>1, ConcatLen, Zenon
    <3>2. file \in Seq(Byte) /\ Len(file) = Len(f \o b) + Len(Zeros(n))
      BY <1>2, <3>1, ConcatLen, Zenon
    <3> QED
      BY <1>2, <3>1, <3>2
  <2>3. <<>> \in Seq(Byte) /\ Len(<<>>) = 0
    BY EmptySeq
  <2>4. pos' = [pos EXCEPT ![s] = Len(f) + Len(b) + n]
    BY <1>1, <2>1 DEF SectionsOK
  <2> HIDE DEF s, b, f, file
  <2>5. size \in Nat
    BY <1>1, <1>a
  <2>6. Len(<<>>) < BufSize
    BY <1>b, <2>3
  <2>7. Len(f) + Len(b) + n \in Nat /\ Len(f) + Len(b) + n = Len(file) + Len(<<>>)
    BY <1>a, <2>2, <2>3
  <2> HIDE DEF size
  <2> QED
    BY <1>1, <2>1, <2>2, <2>3, <2>4, <2>5, <2>6, <2>7, SectionStep
<1> QED
  BY <1>3, <1>4
\* How far emitter_buffer moves pos: never past the data, and by all of it
\* unless the buffer spills.
LEMMA BufferMoves ==
  ASSUME SectionsOK, NEW data \in Seq(Byte), current_section \in Section,
         emitter_buffer(data)
  PROVE  \E m \in 0 .. Len(data) : pos' = [pos EXCEPT ![current_section] = @ + m]
<1> DEFINE s == current_section
           b == Len(buf[s])
           n == Len(data)
<1>1. b \in Nat /\ n \in Nat /\ BufSize \in Nat /\ len(s) = b /\ b < BufSize
  BY SectionFacts, BufSizeAssumption, LenProperties
<1>2. CASE ~ Full(s, n)
  <2>1. pos' = [pos EXCEPT ![s] = @ + n]
    BY <1>2 DEF emitter_buffer
  <2>2. n \in 0 .. n
    BY <1>1
  <2> QED
    BY <2>1, <2>2
<1>3. CASE Full(s, n)
  <2> DEFINE m == n - (BufSize - b)
  <2>1. pos' = [pos EXCEPT ![s] = @ + m]
    BY <1>1, <1>3 DEF emitter_buffer, Spilled
  <2>2. b + n >= BufSize
    BY <1>1, <1>3 DEF Full
  <2> HIDE DEF b, n
  <2>3. m \in 0 .. n
    BY <1>1, <2>2
  <2> QED
    BY <2>1, <2>3 DEF n
<1> QED
  BY <1>2, <1>3

\* The files only grow.
FilesGrow ==
  \A s \in Section : /\ Len(swap[s]) <= Len(swap'[s])
                     /\ SubSeq(swap'[s], 1, Len(swap[s])) = swap[s]

\* The beginning of a concatenation.
LEMMA ConcatPrefix ==
  ASSUME NEW S, NEW a \in Seq(S), NEW b \in Seq(S)
  PROVE  Len(a) <= Len(a \o b) /\ SubSeq(a \o b, 1, Len(a)) = a
<1>1. a \o b \in Seq(S) /\ Len(a \o b) = Len(a) + Len(b) /\ Len(a) \in Nat /\ Len(b) \in Nat
  BY ConcatLen, LenProperties
<1>2. \A i \in 1 .. Len(a) : (a \o b)[i] = a[i] /\ a[i] \in S
  OBVIOUS
<1> DEFINE c == SubSeq(a \o b, 1, Len(a))
<1>3. c \in Seq(S) /\ Len(c) = Len(a) /\ \A i \in 1 .. Len(a) : c[i] = a[i]
  BY <1>1, <1>2
<1> HIDE DEF c
<1>4. c = a
  BY <1>3, SeqEqual
<1> QED
  BY <1>1, <1>4 DEF c

\* A file that does not change, or that is extended.
LEMMA FilesKept ==
  ASSUME SectionsOK, swap' = swap
  PROVE  FilesGrow
<1> SUFFICES ASSUME NEW s \in Section
             PROVE  Len(swap[s]) <= Len(swap[s]) /\ SubSeq(swap[s], 1, Len(swap[s])) = swap[s]
  BY DEF FilesGrow
<1> DEFINE f == swap[s]
<1>1. f \in Seq(Byte) /\ <<>> \in Seq(Byte)
  BY EmptySeq DEF SectionsOK
<1> HIDE DEF f
<1>2. f \o <<>> = f
  BY <1>1, ConcatEmptySeq, Zenon
<1>3. Len(f) <= Len(f \o <<>>) /\ SubSeq(f \o <<>>, 1, Len(f)) = f
  BY <1>1, ConcatPrefix, Zenon
<1> QED
  BY <1>2, <1>3 DEF f

LEMMA ClearGrows ==
  ASSUME SectionsOK, NEW s \in Section, NEW hole \in Seq(Byte),
         emitter_clear_buffer(s, hole)
  PROVE  FilesGrow
<1>1. swap' = [swap EXCEPT ![s] = swap[s] \o buf[s] \o hole]
  BY DEF emitter_clear_buffer
<1>2. swap \in [Section -> Seq(Byte)] /\ buf[s] \in Seq(Byte)
  BY DEF SectionsOK
<1>3. ASSUME NEW t \in Section
      PROVE  Len(swap[t]) <= Len(swap'[t]) /\ SubSeq(swap'[t], 1, Len(swap[t])) = swap[t]
  <2> DEFINE f == swap[t]
             g == buf[s] \o hole
             e == <<>>
  <2>1. f \in Seq(Byte) /\ g \in Seq(Byte)
    BY <1>2
  <2>2. CASE t = s
    <3>1. swap'[t] = f \o g
      <4> DEFINE x == buf[s]
      <4>2. f \in Seq(Byte) /\ x \in Seq(Byte)
        BY <1>2, <2>1
      <4> HIDE DEF f, x
      <4>3. (f \o x) \o hole = f \o (x \o hole)
        BY <4>2, ConcatAssociative
      <4>1. (f \o buf[s]) \o hole = f \o g
        BY <4>3 DEF x
      <4> QED
        BY <1>1, <1>2, <2>2, <4>1 DEF f
    <3> HIDE DEF g
    <3> QED
      BY <2>1, <3>1, ConcatPrefix
  <2>3. CASE t # s
    <3>1. swap'[t] = f
      BY <1>1, <1>2, <2>3
    <3>2. e \in Seq(Byte) /\ f \o e = f
      BY <2>1, ConcatEmptySeq, EmptySeq
    <3> HIDE DEF e
    <3>3. Len(f) <= Len(f \o e) /\ SubSeq(f \o e, 1, Len(f)) = f
      BY <2>1, <3>2, ConcatPrefix, Zenon
    <3> QED
      BY <3>1, <3>2, <3>3
  <2> QED
    BY <2>2, <2>3
<1> QED
  BY <1>3 DEF FilesGrow

\* The section operations only append to the files.
LEMMA BufferGrows ==
  ASSUME SectionsOK, current_section \in Section, NEW data, emitter_buffer(data)
  PROVE  FilesGrow
<1>1. <<>> \in Seq(Byte)
  BY EmptySeq
<1> QED
  BY <1>1, FilesKept, ClearGrows DEF emitter_buffer

LEMMA AdvanceGrows ==
  ASSUME SectionsOK, current_section \in Section, NEW n \in Nat, emitter_advance(n)
  PROVE  FilesGrow
BY ZerosType, FilesKept, ClearGrows DEF emitter_advance

------------------------------------------------------------------------------
(* Labels *)

\* What the label operations keep.
LabelsOK ==
  /\ keys \in SUBSET Label
  /\ val \in [Label -> Int]
  /\ waiters \in [Label -> Seq(Waiter)]
  /\ AbsentLabels

\* The displacement between two addresses is an integer.
LEMMA FixToType ==
  ASSUME NEW a \in AssignType, NEW addr \in Int, NEW s \in Section, NEW at \in Int
  PROVE  FixTo(a, addr, s, at) \in Fix
<1>1. vaddr[s] \in Int
  BY VaddrAssumption
<1>2. addr - (vaddr[s] + at) \in Int
  BY <1>1
<1> QED
  BY <1>2 DEF FixTo, Fix

\* The address of the place where the next byte lands.
LEMMA HereType ==
  ASSUME SectionsOK, current_section \in Section
  PROVE  Here \in Nat
<1>1. pos[current_section] \in Nat /\ vaddr[current_section] \in Nat
  BY VaddrAssumption DEF SectionsOK
<1> QED
  BY <1>1 DEF Here

\* Completing the references of a label keeps every byte a byte, in its place.
LEMMA PatchedKeeps ==
  ASSUME SectionsOK, LabelsOK, current_section \in Section, NEW l \in Label
  PROVE  /\ PatchedBuf(l) \in [Section -> Seq(Byte)]
         /\ \A s \in Section : Len(PatchedBuf(l)[s]) = Len(buf[s])
<1>1. ASSUME NEW k \in DOMAIN waiters[l]
      PROVE  FixOf(waiters[l][k]) \in Fix
  <2>1. waiters[l] \in Seq(Waiter)
    BY DEF LabelsOK
  <2>2. waiters[l][k] \in Waiter
    BY <2>1
  <2>3. /\ waiters[l][k].fix_idx \in Int /\ waiters[l][k].section \in Section
        /\ waiters[l][k].assign \in AssignType
    BY <2>2 DEF Waiter
  <2>4. Here \in Int
    BY HereType
  <2> QED
    BY <2>3, <2>4, FixToType DEF FixOf
<1>2. ASSUME NEW s \in Section, NEW i \in DOMAIN buf[s]
      PROVE  [buf[s][i] EXCEPT !.imm = @ \cup {FixOf(waiters[l][k]) : k \in Completes(l, s, i)}]
               \in Byte
  <2> DEFINE fixes == {FixOf(waiters[l][k]) : k \in Completes(l, s, i)}
             b == buf[s][i]
  <2>1. buf[s] \in Seq(Byte)
    BY DEF SectionsOK
  <2>2. b \in Byte
    BY <2>1
  <2>3. \A k \in Completes(l, s, i) : k \in DOMAIN waiters[l]
    BY DEF Completes
  <2>4. fixes \in SUBSET Fix
    BY <1>1, <2>3
  <2> HIDE DEF fixes, b
  <2>5. b.imm \cup fixes \in SUBSET Fix
    BY <2>2, <2>4 DEF Byte
  <2>6. [b EXCEPT !.imm = b.imm \cup fixes] \in Byte
    BY <2>2, <2>5 DEF Byte
  <2> QED
    BY <2>6 DEF fixes, b
<1>3. ASSUME NEW s \in Section
      PROVE  PatchedBuf(l)[s] \in Seq(Byte) /\ Len(PatchedBuf(l)[s]) = Len(buf[s])
  <2>1. buf[s] \in Seq(Byte) /\ Len(buf[s]) \in Nat /\ DOMAIN buf[s] = 1 .. Len(buf[s])
    BY LenProperties DEF SectionsOK
  <2>2. PatchedBuf(l)[s] \in [DOMAIN buf[s] -> Byte]
    BY <1>2 DEF PatchedBuf
  <2>3. PatchedBuf(l)[s] \in [1 .. Len(buf[s]) -> Byte]
    BY <2>1, <2>2
  <2> QED
    BY <2>1, <2>3, FunctionIsSeq, Zenon
<1>4. PatchedBuf(l) = [s \in Section |-> PatchedBuf(l)[s]]
  BY DEF PatchedBuf
<1> QED
  BY <1>3, <1>4, Zenon

\* emitter_label_add keeps the map and the sections.
LEMMA LabelAddKeeps ==
  ASSUME SectionsOK, LabelsOK, current_section \in Section,
         NEW l \in Label, emitter_label_add(l)
  PROVE  SectionsOK' /\ LabelsOK'
<1>1. CASE l \notin keys
  <2>1. keys' = keys \cup {l} /\ val' = [val EXCEPT ![l] = Here]
        /\ UNCHANGED <<waiters, sections>>
    BY <1>1 DEF emitter_label_add
  <2>2. Here \in Int
    BY HereType
  <2>3. SectionsOK'
    BY <2>1 DEF SectionsOK, PosIsOffset, len, sections
  <2>4. keys' \in SUBSET Label /\ val' \in [Label -> Int] /\ waiters' \in [Label -> Seq(Waiter)]
    BY <2>1, <2>2 DEF LabelsOK
  <2>5. AbsentLabels'
    BY <2>1 DEF LabelsOK, AbsentLabels
  <2> QED
    BY <2>3, <2>4, <2>5 DEF LabelsOK
<1>2. CASE l \in keys
  <2>1. /\ buf' = PatchedBuf(l) /\ waiters' = [waiters EXCEPT ![l] = <<>>]
        /\ UNCHANGED <<keys, val, pos, swap, swap_size>>
    BY <1>2 DEF emitter_label_add
  <2>2. SectionsOK'
    BY <2>1, PatchedKeeps DEF SectionsOK, PosIsOffset, len
  <2>3. <<>> \in Seq(Waiter)
    BY EmptySeq
  <2>4. waiters' \in [Label -> Seq(Waiter)]
    BY <2>1, <2>3 DEF LabelsOK
  <2>5. AbsentLabels'
    BY <1>2, <2>1 DEF LabelsOK, AbsentLabels
  <2> QED
    BY <2>1, <2>2, <2>4, <2>5 DEF LabelsOK
<1> QED
  BY <1>1, <1>2

\* emitter_label_get_or_add_waiter keeps the map.
LEMMA WaiterKeeps ==
  ASSUME SectionsOK, LabelsOK, current_section \in Section,
         NEW l \in Label, NEW a \in AssignType, emitter_label_get_or_add_waiter(l, a)
  PROVE  LabelsOK'
<1> DEFINE w == WaiterHere(a)
<1>1. w \in Waiter
  BY DEF SectionsOK, WaiterHere, Waiter
<1>2. waiters[l] \in Seq(Waiter)
  BY DEF LabelsOK
<1> HIDE DEF w
<1>3. Append(waiters[l], w) \in Seq(Waiter)
  BY <1>1, <1>2
<1>4. /\ keys' = keys \cup {l} /\ val' = val
      /\ waiters' = waiters \/ waiters' = [waiters EXCEPT ![l] = Append(waiters[l], w)]
  BY DEF emitter_label_get_or_add_waiter, w
<1>5. waiters' \in [Label -> Seq(Waiter)]
  BY <1>3, <1>4 DEF LabelsOK
<1>6. AbsentLabels'
  BY <1>4 DEF LabelsOK, AbsentLabels
<1> QED
  BY <1>4, <1>5, <1>6 DEF LabelsOK

------------------------------------------------------------------------------
\* The inductive invariant: typing needs the offsets (a spill cuts the data at
\* the end of the buffer), and the offsets need the typing.
Inv == TypeOK /\ PosIsOffset /\ AbsentLabels

------------------------------------------------------------------------------
(* The invariant *)

\* The operands of the directives.
LEMMA Operands ==
  /\ \A n \in DataSizes : n \in Nat /\ n <= 8
  /\ \A n \in Spaces : n \in Nat
  /\ \A n \in Blanks : n \in Nat
BY DataSizesAssumption, SpacesAssumption, BlanksAssumption

\* The displacement of a branch to a label with an address is a displacement.
LEMMA ImmNowType ==
  ASSUME SectionsOK, LabelsOK, current_section \in Section,
         NEW l \in Label, NEW a \in AssignType
  PROVE  ImmNow(l, a) \in SUBSET Fix
<1>1. val[l] \in Int /\ pos[current_section] \in Int
  BY DEF SectionsOK, LabelsOK
<1>2. FixTo(a, val[l], current_section, pos[current_section]) \in Fix
  BY <1>1, FixToType
<1> QED
  BY <1>2 DEF ImmNow

\* Typing, in the two parts the lemmas are about and the rest.
RestOK ==
  /\ current_section \in Section
  /\ pc \in Parsing \cup Exits
  /\ elem \in Nat
  /\ count \in Nat
  /\ asked \in [Section -> Nat]
  /\ defs \in [Label -> SUBSET Int]

LEMMA InvParts == Inv <=> SectionsOK /\ LabelsOK /\ RestOK
BY DEF Inv, TypeOK, SectionsOK, LabelsOK, RestOK

\* Asking for n bytes keeps the history a count.
LEMMA AskType ==
  ASSUME RestOK, NEW n \in Nat, Ask(n)
  PROVE  asked' \in [Section -> Nat]
BY DEF RestOK, Ask

LEMMA InitInv == Init => Inv
<1> SUFFICES ASSUME Init PROVE Inv
  OBVIOUS
<1>1. \A S : <<>> \in Seq(S) /\ Len(<<>>) = 0
  BY EmptySeq
<1>2. BufSize > 0
  BY BufSizeAssumption
<1>3. /\ current_section = "SECT_TEXT" /\ keys = {}
      /\ buf = [s \in Section |-> <<>>] /\ pos = [s \in Section |-> 0]
      /\ swap = [s \in Section |-> <<>>] /\ swap_size = [s \in Section |-> 0]
      /\ val = [l \in Label |-> -1] /\ waiters = [l \in Label |-> <<>>]
      /\ pc = "line" /\ elem = 0 /\ count = 0
      /\ asked = [s \in Section |-> 0] /\ defs = [l \in Label |-> {}]
  BY DEF Init, EmitterInit
<1>4. SectionsOK
  BY <1>1, <1>2, <1>3 DEF SectionsOK, PosIsOffset, len
<1>5. LabelsOK
  BY <1>1, <1>3 DEF LabelsOK, AbsentLabels
<1>6. RestOK
  BY <1>3 DEF RestOK, Section, Parsing
<1> QED
  BY <1>4, <1>5, <1>6, InvParts

\* Every step keeps the invariant.
LEMMA NextInv == Inv /\ [Next]_vars => Inv'
<1> SUFFICES ASSUME Inv, [Next]_vars PROVE Inv'
  OBVIOUS
<1>0. SectionsOK /\ LabelsOK /\ RestOK /\ current_section \in Section
  BY InvParts DEF RestOK
<1> SUFFICES SectionsOK' /\ LabelsOK' /\ RestOK'
  BY InvParts DEF Inv, TypeOK, SectionsOK, LabelsOK, RestOK, PosIsOffset, AbsentLabels, len
<1>1. CASE OpLine
  <2> DEFINE w == Word("op", NoLabel, {})
  <2>a. w \in Seq(Byte) /\ Len(w) = 4
    BY WordType
  <2> HIDE DEF w
  <2>1. w \in Seq(Byte) /\ Len(w) <= 8
    BY <2>a
  <2>2. SectionsOK'
    BY <1>0, <1>1, <2>1, BufferKeeps DEF OpLine, w
  <2>3. asked' \in [Section -> Nat]
    BY <1>0, <1>1, AskType DEF OpLine
  <2> QED
    BY <1>0, <1>1, <2>2, <2>3 DEF OpLine, Stay, labels, LabelsOK, AbsentLabels, RestOK
<1>2. ASSUME NEW l \in Label, NEW a \in AssignType, JumpLine(l, a)
      PROVE  SectionsOK' /\ LabelsOK' /\ RestOK'
  <2> DEFINE w == Word(a, l, ImmNow(l, a))
  <2>a. w \in Seq(Byte) /\ Len(w) = 4
    BY <1>0, WordType, ImmNowType
  <2> HIDE DEF w
  <2>1. w \in Seq(Byte) /\ Len(w) <= 8
    BY <2>a
  <2>2. SectionsOK'
    BY <1>0, <1>2, <2>1, BufferKeeps DEF JumpLine, w
  <2>3. LabelsOK'
    BY <1>0, <1>2, WaiterKeeps DEF JumpLine
  <2>4. asked' \in [Section -> Nat]
    BY <1>0, <1>2, AskType DEF JumpLine
  <2> QED
    BY <1>0, <1>2, <2>2, <2>3, <2>4 DEF JumpLine, Stay, RestOK
<1>3. ASSUME NEW l \in Label, LabelLine(l)
      PROVE  SectionsOK' /\ LabelsOK' /\ RestOK'
  <2>1. SectionsOK' /\ LabelsOK'
    BY <1>0, <1>3, LabelAddKeeps DEF LabelLine
  <2>2. Here \in Int
    BY <1>0, HereType
  <2>3. defs' \in [Label -> SUBSET Int]
    BY <1>0, <1>3, <2>2 DEF LabelLine, RestOK
  <2> QED
    BY <1>0, <1>3, <2>1, <2>3 DEF LabelLine, Stay, RestOK
<1>4. ASSUME NEW s \in Section, SectionLine(s)
      PROVE  SectionsOK' /\ LabelsOK' /\ RestOK'
  BY <1>0, <1>4 DEF SectionLine, Stay, sections, labels, SectionsOK, PosIsOffset, len,
                    LabelsOK, AbsentLabels, RestOK
<1>5. ASSUME NEW n \in Spaces, SpaceLine(n)
      PROVE  SectionsOK' /\ LabelsOK' /\ RestOK'
  <2>1. n \in Nat
    BY Operands
  <2>2. SectionsOK'
    BY <1>0, <1>5, <2>1, AdvanceKeeps DEF SpaceLine
  <2>3. asked' \in [Section -> Nat]
    BY <1>0, <1>5, <2>1, AskType DEF SpaceLine
  <2> QED
    BY <1>0, <1>5, <2>2, <2>3 DEF SpaceLine, Stay, labels, LabelsOK, AbsentLabels, RestOK
<1>6. ASSUME NEW n \in DataSizes, DataElement(n)
      PROVE  SectionsOK' /\ LabelsOK' /\ RestOK'
  <2>1. n \in Nat /\ n <= 8
    BY Operands
  <2>2. DataBytes(n) \in Seq(Byte) /\ Len(DataBytes(n)) <= 8
    BY <2>1, DataType
  <2>3. SectionsOK'
    BY <1>0, <1>6, <2>2, BufferKeeps DEF DataElement
  <2>4. asked' \in [Section -> Nat]
    BY <1>0, <1>6, <2>1, AskType DEF DataElement
  <2> QED
    BY <1>0, <1>6, <2>1, <2>3, <2>4
       DEF DataElement, labels, LabelsOK, AbsentLabels, RestOK, Parsing
<1>7. CASE EndDirective
  <2>1. Pad \in Nat
    BY <1>0 DEF Pad, RestOK
  <2>2. SectionsOK'
    BY <1>0, <1>7, <2>1, AdvanceKeeps DEF EndDirective
  <2>3. asked' \in [Section -> Nat]
    BY <1>0, <1>7, <2>1, AskType DEF EndDirective
  <2> QED
    BY <1>0, <1>7, <2>2, <2>3
       DEF EndDirective, labels, LabelsOK, AbsentLabels, RestOK, Parsing
<1>8. ASSUME NEW n \in Blanks, StringOpen(n)
      PROVE  SectionsOK' /\ LabelsOK' /\ RestOK'
  BY <1>0, <1>8, Operands
     DEF StringOpen, sections, labels, SectionsOK, PosIsOffset, len,
         LabelsOK, AbsentLabels, RestOK, Parsing
<1>9. ASSUME NEW width \in {1, 2}, StringChar(width)
      PROVE  SectionsOK' /\ LabelsOK' /\ RestOK'
  <2>1. DataBytes(1) \in Seq(Byte) /\ Len(DataBytes(1)) <= 8
    BY DataType
  <2>2. SectionsOK'
    BY <1>0, <1>9, <2>1, BufferKeeps DEF StringChar
  <2>3. asked' \in [Section -> Nat]
    BY <1>0, <1>9, AskType DEF StringChar
  <2> QED
    BY <1>0, <1>9, <2>2, <2>3 DEF StringChar, labels, LabelsOK, AbsentLabels, RestOK
<1>10. ASSUME NEW how \in {"output", "error", "panic", "assert"}, Exit(how)
       PROVE  SectionsOK' /\ LabelsOK' /\ RestOK'
  BY <1>0, <1>10 DEF Exit, sections, labels, SectionsOK, PosIsOffset, len,
                     LabelsOK, AbsentLabels, RestOK, Exits
<1>11. CASE UNCHANGED vars
  BY <1>0, <1>11 DEF vars, SectionsOK, PosIsOffset, len, LabelsOK, AbsentLabels, RestOK
<1>12. CASE Terminated
  BY <1>11, <1>12 DEF Terminated
<1> QED
  BY <1>1, <1>2, <1>3, <1>4, <1>5, <1>6, <1>7, <1>8, <1>9, <1>10, <1>11, <1>12
     DEF Next, EndOfInput, ParseError, Redefinition, Panic, LabelStop

\* The invariant holds of every program.
THEOREM Invariance == Spec => []Inv
<1> QED
  BY InitInv, NextInv, PTL DEF Spec

(***************************************************************************)
(* Every variable keeps its type: in particular no spill moves pos back,   *)
(* whatever part of an instruction it loses.                               *)
(***************************************************************************)
THEOREM TypeCorrect == Spec => []TypeOK
<1>1. Inv => TypeOK
  BY DEF Inv
<1> QED
  BY <1>1, Invariance, PTL

(***************************************************************************)
(* pos is the place of the next byte in every program: emitter_buffer and  *)
(* emitter_advance never pass the end of section_buf.                      *)
(***************************************************************************)
THEOREM OffsetsCorrect == Spec => []PosIsOffset
<1>1. Inv => PosIsOffset
  BY DEF Inv
<1> QED
  BY <1>1, Invariance, PTL
------------------------------------------------------------------------------
(* Nothing that is settled changes *)

\* Exiting changes nothing but pc.
LEMMA ExitKeeps ==
  ASSUME NEW how, Exit(how)
  PROVE  UNCHANGED <<current_section, sections, labels, asked, defs, elem, count>>
BY DEF Exit

\* Which emitter call a step makes, if it touches the sections or the labels.
LEMMA StepCalls ==
  ASSUME Inv, [Next]_vars
  PROVE  \/ \E data \in Seq(Byte) :
              /\ Len(data) <= 8 /\ emitter_buffer(data) /\ Ask(Len(data))
              /\ val' = val
         \/ \E n \in Nat : emitter_advance(n) /\ Ask(n) /\ UNCHANGED labels
         \/ \E l \in Label : emitter_label_add(l) /\ UNCHANGED asked
         \/ UNCHANGED <<sections, labels, asked>>
<1>0. SectionsOK /\ LabelsOK /\ RestOK /\ current_section \in Section
  BY InvParts DEF RestOK
<1>1. CASE OpLine
  <2> DEFINE w == Word("op", NoLabel, {})
  <2>1. w \in Seq(Byte) /\ Len(w) = 4
    BY WordType
  <2>2. emitter_buffer(w) /\ Ask(4) /\ val' = val
    BY <1>1 DEF OpLine, labels
  <2> HIDE DEF w
  <2>3. Len(w) <= 8 /\ Ask(Len(w))
    BY <2>1, <2>2
  <2> QED
    BY <2>1, <2>2, <2>3
<1>2. ASSUME NEW l \in Label, NEW a \in AssignType, JumpLine(l, a)
      PROVE  \E data \in Seq(Byte) :
               Len(data) <= 8 /\ emitter_buffer(data) /\ Ask(Len(data)) /\ val' = val
  <2> DEFINE w == Word(a, l, ImmNow(l, a))
  <2>1. w \in Seq(Byte) /\ Len(w) = 4
    BY <1>0, WordType, ImmNowType
  <2>2. emitter_buffer(w) /\ Ask(4) /\ val' = val
    BY <1>2 DEF JumpLine, emitter_label_get_or_add_waiter
  <2> HIDE DEF w
  <2>3. Len(w) <= 8 /\ Ask(Len(w))
    BY <2>1, <2>2
  <2> QED
    BY <2>1, <2>2, <2>3
<1>3. ASSUME NEW n \in Nat, n <= 8, emitter_buffer(DataBytes(n)), Ask(n), UNCHANGED labels
      PROVE  \E data \in Seq(Byte) :
               Len(data) <= 8 /\ emitter_buffer(data) /\ Ask(Len(data)) /\ val' = val
  <2>1. DataBytes(n) \in Seq(Byte) /\ Len(DataBytes(n)) = n
    BY DataType
  <2> QED
    BY <1>3, <2>1 DEF labels
<1>4. ASSUME NEW n \in DataSizes, DataElement(n)
      PROVE  n \in Nat /\ n <= 8 /\ emitter_buffer(DataBytes(n)) /\ Ask(n) /\ UNCHANGED labels
  BY <1>4, Operands DEF DataElement
<1>5. ASSUME NEW width \in {1, 2}, StringChar(width)
      PROVE  emitter_buffer(DataBytes(1)) /\ Ask(1) /\ UNCHANGED labels
  BY <1>5 DEF StringChar
<1>6. ASSUME NEW n \in Spaces, SpaceLine(n)
      PROVE  n \in Nat /\ emitter_advance(n) /\ Ask(n) /\ UNCHANGED labels
  BY <1>6, Operands DEF SpaceLine
<1>7. CASE EndDirective
  <2>1. Pad \in Nat
    BY <1>0 DEF Pad, RestOK
  <2> QED
    BY <1>7, <2>1 DEF EndDirective
<1>8. ASSUME NEW l \in Label, LabelLine(l)
      PROVE  emitter_label_add(l) /\ UNCHANGED asked
  BY <1>8 DEF LabelLine
<1>9. ASSUME \/ \E s \in Section : SectionLine(s)
             \/ \E n \in Blanks : StringOpen(n)
             \/ EndOfInput \/ ParseError \/ Panic \/ Terminated \/ UNCHANGED vars
             \/ \E l \in Label : Redefinition(l)
             \/ \E l \in Label, fate \in {"panic", "assert"} : LabelStop(l, fate)
      PROVE  UNCHANGED <<sections, labels, asked>>
  BY <1>9, ExitKeeps DEF SectionLine, StringOpen, EndOfInput, ParseError, Panic,
     Terminated, Redefinition, LabelStop, vars, sections, labels
<1>10. 1 \in Nat /\ 1 <= 8
  OBVIOUS
<1> QED
  BY <1>1, <1>2, <1>3, <1>4, <1>5, <1>6, <1>7, <1>8, <1>9, <1>10 DEF Next

(***************************************************************************)
(* Bytes that were spilled to a file stay as they are, and a label that    *)
(* has an address keeps it, whatever the program does next.                *)
(***************************************************************************)
THEOREM NothingEverMoves == Spec => NothingMoves
<1>1. ASSUME Inv, [Next]_vars
      PROVE  NothingMovesStep
  <2>0. SectionsOK /\ LabelsOK /\ current_section \in Section
    BY <1>1, InvParts DEF RestOK
  <2>1. ASSUME NEW data \in Seq(Byte), emitter_buffer(data), val' = val
        PROVE  NothingMovesStep
    BY <2>0, <2>1, BufferGrows DEF NothingMovesStep, FilesGrow
  <2>2. ASSUME NEW n \in Nat, emitter_advance(n), UNCHANGED labels
        PROVE  NothingMovesStep
    BY <2>0, <2>2, AdvanceGrows DEF NothingMovesStep, FilesGrow, labels
  <2>3. ASSUME NEW l \in Label, emitter_label_add(l)
        PROVE  NothingMovesStep
    <3>1. swap' = swap
      BY <2>3 DEF emitter_label_add, sections
    <3>2. \A k \in Label : val[k] >= 0 => val'[k] = val[k]
      <4>1. CASE l \in keys
        BY <2>3, <4>1 DEF emitter_label_add
      <4>2. CASE l \notin keys
        <5>1. val' = [val EXCEPT ![l] = Here] /\ val[l] = -1
          BY <2>0, <2>3, <4>2 DEF emitter_label_add, LabelsOK, AbsentLabels
        <5> QED
          BY <2>0, <5>1 DEF LabelsOK
      <4> QED
        BY <4>1, <4>2
    <3> QED
      BY <2>0, <3>1, <3>2, FilesKept DEF NothingMovesStep, FilesGrow
  <2>4. ASSUME UNCHANGED <<sections, labels, asked>>
        PROVE  NothingMovesStep
    BY <2>0, <2>4, FilesKept DEF NothingMovesStep, FilesGrow, sections, labels
  <2> QED
    BY <1>1, <2>1, <2>2, <2>3, <2>4, StepCalls
<1>2. Inv /\ [Next]_vars => [NothingMovesStep]_vars
  BY <1>1
<1> QED
  BY <1>2, Invariance, PTL DEF Spec, NothingMoves
------------------------------------------------------------------------------
(* Waiters and the bytes of their instructions *)

\* Bytes are lost but never invented.
StoredAtMostAsked == \A s \in Section : pos[s] <= asked[s]

\* In a section that lost no byte, a waiter's instruction is stored in full.
WaitersInside ==
  \A l \in Label : \A k \in DOMAIN waiters[l] :
    NothingLost(waiters[l][k].section)
      => waiters[l][k].fix_idx + 4 <= pos[waiters[l][k].section]

\* pos never decreases, and a section that has lost a byte has lost it for good.
LEMMA PosAndAsked ==
  ASSUME Inv, StoredAtMostAsked, [Next]_vars
  PROVE  /\ StoredAtMostAsked'
         /\ \A s \in Section : pos[s] <= pos'[s] /\ (NothingLost(s)' => NothingLost(s))
<1>0. /\ SectionsOK /\ LabelsOK /\ RestOK /\ current_section \in Section
      /\ pos \in [Section -> Nat] /\ asked \in [Section -> Nat]
  BY InvParts DEF RestOK, SectionsOK
<1> DEFINE c == current_section
<1>1. ASSUME NEW n \in Nat, NEW m \in 0 .. n,
             pos' = [pos EXCEPT ![c] = @ + m], asked' = [asked EXCEPT ![c] = @ + n]
      PROVE  /\ StoredAtMostAsked'
             /\ \A s \in Section : pos[s] <= pos'[s] /\ (NothingLost(s)' => NothingLost(s))
  <2>1. ASSUME NEW s \in Section
        PROVE  /\ pos'[s] <= asked'[s] /\ pos[s] <= pos'[s]
               /\ asked'[s] = pos'[s] => asked[s] = pos[s]
    <3>1. pos[s] \in Nat /\ asked[s] \in Nat /\ pos[s] <= asked[s]
      BY <1>0 DEF StoredAtMostAsked
    <3>2. \/ pos'[s] = pos[s] + m /\ asked'[s] = asked[s] + n
          \/ pos'[s] = pos[s] /\ asked'[s] = asked[s]
      BY <1>0, <1>1
    <3> QED
      BY <1>1, <3>1, <3>2
  <2> QED
    BY <2>1 DEF StoredAtMostAsked, NothingLost
<1>2. ASSUME NEW data \in Seq(Byte), emitter_buffer(data), Ask(Len(data))
      PROVE  /\ StoredAtMostAsked'
             /\ \A s \in Section : pos[s] <= pos'[s] /\ (NothingLost(s)' => NothingLost(s))
  <2>1. PICK m \in 0 .. Len(data) : pos' = [pos EXCEPT ![c] = @ + m]
    BY <1>0, <1>2, BufferMoves
  <2>2. Len(data) \in Nat
    BY LenProperties
  <2>3. asked' = [asked EXCEPT ![c] = @ + Len(data)]
    BY <1>2 DEF Ask
  <2> QED
    BY <1>1, <2>1, <2>2, <2>3
<1>3. ASSUME NEW n \in Nat, emitter_advance(n), Ask(n)
      PROVE  /\ StoredAtMostAsked'
             /\ \A s \in Section : pos[s] <= pos'[s] /\ (NothingLost(s)' => NothingLost(s))
  <2>1. pos' = [pos EXCEPT ![c] = @ + n] /\ n \in 0 .. n
    BY <1>3 DEF emitter_advance
  <2>2. asked' = [asked EXCEPT ![c] = @ + n]
    BY <1>3 DEF Ask
  <2> QED
    BY <1>1, <2>1, <2>2
<1>4. ASSUME UNCHANGED <<pos, asked>>
      PROVE  /\ StoredAtMostAsked'
             /\ \A s \in Section : pos[s] <= pos'[s] /\ (NothingLost(s)' => NothingLost(s))
  BY <1>0, <1>4 DEF StoredAtMostAsked, NothingLost
<1>5. ASSUME NEW l \in Label, emitter_label_add(l), UNCHANGED asked
      PROVE  UNCHANGED <<pos, asked>>
  BY <1>5 DEF emitter_label_add, sections
<1>6. UNCHANGED <<sections, labels, asked>> => UNCHANGED <<pos, asked>>
  BY DEF sections
<1> QED
  BY <1>2, <1>3, <1>4, <1>5, <1>6, StepCalls

\* A waiter either waited before the step or was added by it.
LEMMA WaitersKept ==
  ASSUME Inv, StoredAtMostAsked, WaitersInside, [Next]_vars
  PROVE  WaitersInside'
<1>0. /\ SectionsOK /\ LabelsOK /\ RestOK /\ current_section \in Section
      /\ pos \in [Section -> Nat] /\ asked \in [Section -> Nat]
      /\ waiters \in [Label -> Seq(Waiter)] /\ pos' \in [Section -> Nat]
  BY InvParts, NextInv DEF RestOK, SectionsOK, LabelsOK, Inv, TypeOK
<1>1. \A s \in Section : pos[s] <= pos'[s] /\ (NothingLost(s)' => NothingLost(s))
  BY PosAndAsked
<1>2. ASSUME NEW l \in Label, NEW k \in DOMAIN waiters[l],
             asked'[waiters[l][k].section] = pos'[waiters[l][k].section]
      PROVE  waiters[l][k].fix_idx + 4 <= pos'[waiters[l][k].section]
  <2> DEFINE w == waiters[l][k]
  <2>1. waiters[l] \in Seq(Waiter)
    BY <1>0
  <2>2. w \in Waiter
    BY <2>1
  <2>3. w.section \in Section /\ w.fix_idx \in Nat
    BY <2>2 DEF Waiter
  <2>4. w.fix_idx + 4 <= pos[w.section]
    BY <1>1, <1>2, <2>3 DEF WaitersInside, NothingLost
  <2>5. pos[w.section] \in Nat /\ pos'[w.section] \in Nat /\ pos[w.section] <= pos'[w.section]
    BY <1>0, <1>1, <2>3
  <2> HIDE DEF w
  <2>6. w.fix_idx + 4 <= pos'[w.section]
    BY <2>3, <2>4, <2>5
  <2> QED
    BY <2>6 DEF w
<1>3. CASE \A l \in Label : waiters'[l] = waiters[l] \/ waiters'[l] = <<>>
  <2> SUFFICES ASSUME NEW l \in Label, NEW k \in DOMAIN waiters'[l],
                      asked'[waiters'[l][k].section] = pos'[waiters'[l][k].section]
               PROVE  waiters'[l][k].fix_idx + 4 <= pos'[waiters'[l][k].section]
    BY DEF WaitersInside, NothingLost
  <2>1. waiters'[l] # <<>>
    OBVIOUS
  <2>2. waiters'[l] = waiters[l]
    BY <1>3, <2>1
  <2> QED
    BY <1>2, <2>2
<1>4. ASSUME NEW l \in Label, NEW a \in AssignType, JumpLine(l, a)
      PROVE  WaitersInside'
  <2>1. CASE val[l] >= 0
    <3>1. waiters' = waiters
      BY <1>0, <1>4, <2>1 DEF JumpLine, emitter_label_get_or_add_waiter, LabelsOK
    <3> QED
      BY <1>3, <3>1
  <2>2. CASE val[l] < 0
    <3> DEFINE v == WaiterHere(a)
               c == current_section
    <3>1. waiters' = [waiters EXCEPT ![l] = Append(waiters[l], v)]
      BY <1>4, <2>2 DEF JumpLine, emitter_label_get_or_add_waiter
    <3>2. v \in Waiter /\ v.fix_idx = pos[c] /\ v.section = c
      BY <1>0 DEF WaiterHere, Waiter
    <3>3. asked' = [asked EXCEPT ![c] = asked[c] + 4]
      BY <1>4 DEF JumpLine, Ask
    <3>4. asked[c] >= pos[c] /\ asked[c] \in Nat /\ pos[c] \in Nat /\ pos'[c] \in Nat
      BY <1>0 DEF StoredAtMostAsked
    <3>5. asked'[c] = pos'[c] => pos[c] + 4 <= pos'[c]
      <4>1. asked'[c] = asked[c] + 4
        BY <1>0, <3>3
      <4> QED
        BY <3>4, <4>1
    <3>6. ASSUME NEW m \in Label, NEW k \in DOMAIN waiters'[m]
          PROVE  waiters'[m][k] = v \/ (k \in DOMAIN waiters[m] /\ waiters'[m][k] = waiters[m][k])
      <4>1. waiters[m] \in Seq(Waiter) /\ waiters[l] \in Seq(Waiter)
        BY <1>0
      <4> HIDE DEF v
      <4>2. CASE m = l
        <5>1. waiters'[m] = Append(waiters[m], v)
          BY <1>0, <3>1, <4>2
        <5> QED
          BY <3>2, <4>1, <5>1
      <4>3. CASE m # l
        BY <1>0, <3>1, <4>3
      <4> QED
        BY <4>2, <4>3
    <3> HIDE DEF v, c
    <3> SUFFICES ASSUME NEW m \in Label, NEW k \in DOMAIN waiters'[m],
                        asked'[waiters'[m][k].section] = pos'[waiters'[m][k].section]
                 PROVE  waiters'[m][k].fix_idx + 4 <= pos'[waiters'[m][k].section]
      BY DEF WaitersInside, NothingLost
    <3>7. CASE waiters'[m][k] = v
      BY <3>2, <3>5, <3>7
    <3>8. CASE k \in DOMAIN waiters[m] /\ waiters'[m][k] = waiters[m][k]
      BY <1>2, <3>8
    <3> QED
      BY <3>6, <3>7, <3>8
  <2> QED
    BY <1>0, <2>1, <2>2 DEF LabelsOK
<1>5. ASSUME NEW l \in Label, LabelLine(l)
      PROVE  \A m \in Label : waiters'[m] = waiters[m] \/ waiters'[m] = <<>>
  BY <1>0, <1>5 DEF LabelLine, emitter_label_add
<1>6. ASSUME \/ OpLine \/ EndDirective
             \/ \E s \in Section : SectionLine(s)
             \/ \E n \in Spaces : SpaceLine(n)
             \/ \E n \in DataSizes : DataElement(n)
             \/ \E n \in Blanks : StringOpen(n)
             \/ \E width \in {1, 2} : StringChar(width)
             \/ EndOfInput \/ ParseError \/ Panic \/ Terminated \/ UNCHANGED vars
             \/ \E l \in Label : Redefinition(l)
             \/ \E l \in Label, fate \in {"panic", "assert"} : LabelStop(l, fate)
      PROVE  waiters' = waiters
  BY <1>6 DEF OpLine, EndDirective, SectionLine, SpaceLine, DataElement, StringOpen,
     StringChar, EndOfInput, ParseError, Panic, Terminated, Redefinition, LabelStop,
     Exit, vars, labels
<1> QED
  BY <1>3, <1>4, <1>5, <1>6 DEF Next

\* A waiter whose instruction is stored in full satisfies the assertion.
LEMMA InsideIsPatched ==
  ASSUME Inv, WaitersInside
  PROVE  PatchesInBuffer
<1> SUFFICES ASSUME NEW l \in Label, NEW k \in DOMAIN waiters[l],
                    NothingLost(waiters[l][k].section)
             PROVE  WaiterFate(waiters[l][k]) # "assert"
  BY DEF PatchesInBuffer
<1> DEFINE w == waiters[l][k]
           s == w.section
<1>1. waiters[l] \in Seq(Waiter)
  BY DEF Inv, TypeOK
<1>2. w \in Waiter
  BY <1>1
<1>3. s \in Section /\ w.fix_idx \in Nat
  BY <1>2 DEF Waiter
<1>4. w.fix_idx + 4 <= pos[s]
  BY DEF WaitersInside
<1>5. pos[s] \in Nat /\ len(s) \in Nat
  BY <1>3 DEF Inv, TypeOK, len
<1> HIDE DEF w
<1>6. ~ (Target(w) + 4 > len(s))
  BY <1>3, <1>4, <1>5 DEF Target
<1> QED
  BY <1>6 DEF WaiterFate, w

(***************************************************************************)
(* emitter_label_add's assertion holds, and its memcpy stays inside the    *)
(* bytes in use, whenever the section lost no byte.                        *)
(***************************************************************************)
THEOREM AssertionsHold == Spec => []PatchesInBuffer
<1> DEFINE J == Inv /\ StoredAtMostAsked /\ WaitersInside
<1>1. Init => J
  <2>1. Init => StoredAtMostAsked
    BY DEF Init, EmitterInit, StoredAtMostAsked
  <2>2. Init => WaitersInside
    BY DEF Init, EmitterInit, WaitersInside
  <2> QED
    BY <2>1, <2>2, InitInv
<1>2. J /\ [Next]_vars => J'
  BY NextInv, PosAndAsked, WaitersKept
<1>3. J => PatchesInBuffer
  BY InsideIsPatched
<1> QED
  BY <1>1, <1>2, <1>3, PTL DEF Spec
------------------------------------------------------------------------------
(* Alignment *)

\* The programs WideDataAligned is about.
WideProgram ==
  DataSizes \subseteq {2, 4, 8} /\ Blanks = {} /\ \A n \in Spaces : n % 4 = 0

\* In the middle of a directive the section is off by the bytes it emitted.
Offset(s) == IF s = current_section THEN count % 4 ELSE 0

DirectiveOK ==
  /\ pc # "string"
  /\ elem = 0 => count = 0
  /\ pc = "line" => elem = 0
  /\ count % 2 = 0
  /\ \A s \in Section : NothingLost(s) => pos[s] % 4 = Offset(s)

\* Arithmetic: what one element, one instruction and the padding do to an offset.
LEMMA Mod4 ==
  /\ \A p, k \in Nat : \A n \in {2, 4, 8} :
       /\ p % 4 = k % 4 => (p + n) % 4 = (k + n) % 4
       /\ k % 2 = 0 => (k + n) % 2 = 0
  /\ \A p, n \in Nat : p % 4 = 0 /\ n % 4 = 0 => (p + n) % 4 = 0
  /\ \A p, k \in Nat : p % 4 = k % 4 /\ k % 2 = 0 => (p + (k % 4)) % 4 = 0
OBVIOUS

\* A section that lost no byte grew by what was asked of it.
LEMMA GrewByAsked ==
  ASSUME Inv, StoredAtMostAsked, [Next]_vars, NEW n \in Nat, Ask(n),
         current_section' = current_section,
         NEW s \in Section, NothingLost(s)'
  PROVE  /\ NothingLost(s)
         /\ s = current_section => pos'[s] = pos[s] + n
         /\ s # current_section => pos'[s] = pos[s]
<1>1. NothingLost(s)
  BY PosAndAsked
<1>2. asked \in [Section -> Nat] /\ current_section \in Section /\ pos \in [Section -> Nat]
  BY DEF Inv, TypeOK
<1>3. asked' = [asked EXCEPT ![current_section] = asked[current_section] + n]
  BY DEF Ask
<1>4. s = current_section => asked'[s] = asked[s] + n
  BY <1>2, <1>3
<1>5. s # current_section => asked'[s] = asked[s]
  BY <1>2, <1>3
<1> QED
  BY <1>1, <1>4, <1>5 DEF NothingLost

\* Every step of such a program keeps the offset.
LEMMA DirectiveStep ==
  ASSUME WideProgram, Inv, StoredAtMostAsked, DirectiveOK, [Next]_vars
  PROVE  DirectiveOK'
<1>0. /\ pos \in [Section -> Nat] /\ count \in Nat /\ elem \in Nat
      /\ current_section \in Section
  BY DEF Inv, TypeOK
<1>1. ASSUME NEW n \in Nat, n % 4 = 0, Ask(n), pc = "line", Stay,
             current_section' = current_section
      PROVE  DirectiveOK'
  <2>1. count = 0 /\ elem = 0 /\ count' = 0 /\ elem' = 0 /\ pc' = pc
    BY <1>1 DEF DirectiveOK, Stay
  <2>2. ASSUME NEW s \in Section, NothingLost(s)'
        PROVE  pos'[s] % 4 = 0
    <3>1. NothingLost(s) /\ (pos'[s] = pos[s] + n \/ pos'[s] = pos[s])
      BY <1>1, <2>2, GrewByAsked
    <3>2. pos[s] \in Nat /\ pos[s] % 4 = 0
      BY <1>0, <2>1, <3>1 DEF DirectiveOK, Offset
    <3> QED
      BY <1>1, <3>1, <3>2, Mod4
  <2> QED
    BY <1>1, <2>1, <2>2 DEF DirectiveOK, Offset
<1>2. ASSUME NEW n \in DataSizes, DataElement(n)
      PROVE  DirectiveOK'
  <2>1. /\ n \in Nat /\ n \in {2, 4, 8} /\ Ask(n) /\ current_section' = current_section
        /\ count' = count + n /\ elem' = n /\ pc' = "array"
    BY <1>2 DEF WideProgram, DataElement
  <2>2. ASSUME NEW s \in Section, NothingLost(s)'
        PROVE  pos'[s] % 4 = Offset(s)'
    <3>1. NothingLost(s) /\ pos[s] \in Nat
      BY <1>0, <2>1, <2>2, GrewByAsked
    <3>2. CASE s = current_section
      <4>1. pos'[s] = pos[s] + n /\ pos[s] % 4 = count % 4
        BY <2>1, <2>2, <3>1, <3>2, GrewByAsked DEF DirectiveOK, Offset
      <4>2. (pos[s] + n) % 4 = (count + n) % 4
        BY <1>0, <2>1, <3>1, <4>1, Mod4
      <4> QED
        BY <2>1, <3>2, <4>1, <4>2 DEF Offset
    <3>3. CASE s # current_section
      BY <2>1, <2>2, <3>1, <3>3, GrewByAsked DEF DirectiveOK, Offset
    <3> QED
      BY <3>2, <3>3
  <2>3. count' % 2 = 0 /\ elem' # 0
    BY <1>0, <2>1, Mod4 DEF DirectiveOK
  <2> QED
    BY <2>1, <2>2, <2>3 DEF DirectiveOK
<1>3. CASE EndDirective
  <2>1. /\ Pad \in Nat /\ Pad = count % 4 /\ Ask(Pad) /\ current_section' = current_section
        /\ count' = 0 /\ elem' = 0 /\ pc' = "line"
    BY <1>0, <1>3 DEF EndDirective, Pad
  <2>2. ASSUME NEW s \in Section, NothingLost(s)'
        PROVE  pos'[s] % 4 = 0
    <3>1. NothingLost(s) /\ pos[s] \in Nat
      BY <1>0, <2>1, <2>2, GrewByAsked
    <3>2. CASE s = current_section
      <4>1. pos'[s] = pos[s] + (count % 4) /\ pos[s] % 4 = count % 4 /\ count % 2 = 0
        BY <2>1, <2>2, <3>1, <3>2, GrewByAsked DEF DirectiveOK, Offset
      <4> QED
        BY <1>0, <3>1, <4>1, Mod4
    <3>3. CASE s # current_section
      BY <2>1, <2>2, <3>1, <3>3, GrewByAsked DEF DirectiveOK, Offset
    <3> QED
      BY <3>2, <3>3
  <2> QED
    BY <2>1, <2>2 DEF DirectiveOK, Offset
<1>4. CASE OpLine \/ \E l \in Label, a \in AssignType : JumpLine(l, a)
  <2>1. Ask(4) /\ pc = "line" /\ Stay /\ current_section' = current_section
    BY <1>4 DEF OpLine, JumpLine
  <2>2. 4 \in Nat /\ 4 % 4 = 0
    OBVIOUS
  <2> QED
    BY <1>1, <2>1, <2>2
<1>5. ASSUME NEW n \in Spaces, SpaceLine(n)
      PROVE  DirectiveOK'
  BY <1>1, <1>5, Operands DEF SpaceLine, WideProgram
<1>6. ASSUME UNCHANGED <<pos, asked, elem, count>>, pc' # "string",
             pc' = "line" => pc = "line",
             current_section' = current_section \/ (pc = "line" /\ current_section' \in Section)
      PROVE  DirectiveOK'
  <2>1. CASE current_section' = current_section
    BY <1>6, <2>1 DEF DirectiveOK, Offset, NothingLost
  <2>2. CASE pc = "line"
    BY <1>6, <2>2 DEF DirectiveOK, Offset, NothingLost
  <2> QED
    BY <1>6, <2>1, <2>2
<1>7. ASSUME \/ \E l \in Label : LabelLine(l) \/ Redefinition(l)
             \/ \E s \in Section : SectionLine(s)
             \/ EndOfInput \/ ParseError \/ Panic \/ Terminated \/ UNCHANGED vars
             \/ \E l \in Label, fate \in {"panic", "assert"} : LabelStop(l, fate)
      PROVE  DirectiveOK'
  <2>1. pc # "string"
    BY DEF DirectiveOK
  <2>2. ASSUME NEW how \in {"output", "error", "panic", "assert"}, Exit(how)
        PROVE  DirectiveOK'
    BY <1>6, <2>2 DEF Exit, sections
  <2>3. ASSUME NEW l \in Label, LabelLine(l)
        PROVE  DirectiveOK'
    BY <1>6, <2>1, <2>3 DEF LabelLine, Stay, emitter_label_add, sections
  <2>4. ASSUME NEW s \in Section, SectionLine(s)
        PROVE  DirectiveOK'
    BY <1>6, <2>1, <2>4 DEF SectionLine, Stay, sections
  <2>5. CASE UNCHANGED vars \/ Terminated
    BY <1>6, <2>1, <2>5 DEF Terminated, vars
  <2> QED
    BY <1>7, <2>2, <2>3, <2>4, <2>5 DEF EndOfInput, ParseError, Panic, Redefinition, LabelStop
<1>8. ASSUME NEW n \in Blanks, StringOpen(n)
      PROVE  FALSE
  BY <1>8 DEF WideProgram
<1>9. ASSUME NEW width \in {1, 2}, StringChar(width)
      PROVE  FALSE
  BY <1>9 DEF StringChar, DirectiveOK
<1> QED
  BY <1>2, <1>3, <1>4, <1>5, <1>7, <1>8, <1>9 DEF Next

(***************************************************************************)
(* A program of instructions, aligned reservations and data directives of  *)
(* 2, 4 or 8 bytes an element keeps every line of a section aligned until  *)
(* the section loses a byte.                                               *)
(***************************************************************************)
THEOREM WideDataStaysAligned == Spec => []WideDataAligned
<1> DEFINE J == Inv /\ StoredAtMostAsked /\ (WideProgram => DirectiveOK)
<1>1. Init => J
  <2>1. Init => StoredAtMostAsked
    BY DEF Init, EmitterInit, StoredAtMostAsked
  <2>2. Init => DirectiveOK
    BY DEF Init, EmitterInit, DirectiveOK, Offset
  <2> QED
    BY <2>1, <2>2, InitInv
<1>2. J /\ [Next]_vars => J'
  <2>1. WideProgram' <=> WideProgram
    BY DEF WideProgram
  <2> QED
    BY <2>1, NextInv, PosAndAsked, DirectiveStep
<1>3. J => WideDataAligned
  <2> SUFFICES ASSUME J, WideProgram, NEW s \in Section, NothingLost(s),
                      elem = 0 \/ s # current_section
               PROVE  pos[s] % 4 = 0
    BY DEF WideDataAligned, WideProgram
  <2> QED
    BY DEF DirectiveOK, Offset
<1> QED
  BY <1>1, <1>2, <1>3, PTL DEF Spec
==============================================================================
