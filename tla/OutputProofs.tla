---------------------------- MODULE OutputProofs ----------------------------
(***************************************************************************)
(* Theorems about Output: what the executable that main wrote without an   *)
(* error holds, for every program, every buffer and page size, every base  *)
(* address and every file that was there before.                           *)
(***************************************************************************)
EXTENDS Output, AssemblerProofs

------------------------------------------------------------------------------
(* The inductive invariant *)

\* What the output file may hold.
Cells == Byte \cup {Cell("old"), Cell("header"), Cell("zero")}

Writing == {"header", "copy text", "write text", "seek", "copy data", "write data"}

OutTypes ==
  /\ out \in Seq(Cells)
  /\ off \in Nat
  /\ stage \in Range(Setup) \cup {"loop", "done"} \cup Writing
  /\ exit \in {-1, 0, 1}
  /\ stage = "done" <=> exit # -1

\* The offset of a swap file may be past its end, never before it.
SizeInFile == \A s \in Section : swap_size[s] <= Len(swap[s])

\* The first n bytes of section s are in the output file, from offset at on.
Copied(s, at, n) ==
  \A i \in 1 .. n : at + i \in DOMAIN out /\ out[at + i] = Image(s)[i]

\* The data does not reach back into the text.
TextCopied == TextFits => Copied("SECT_TEXT", after, pos["SECT_TEXT"])

\* Where the offset is and what is in the file before main's next call; the
\* data is written behind the text only if the text ends before it.
Progress ==
  /\ stage \in Range(Setup) \cup {"loop", "header"} => off = 0
  /\ stage = "copy text" => off = after
  /\ stage = "write text" =>
       /\ off = after + Len(swap["SECT_TEXT"])
       /\ Copied("SECT_TEXT", after, Len(swap["SECT_TEXT"]))
  /\ stage \in {"seek", "copy data", "write data"} => HasData /\ TextCopied
  /\ stage = "copy data" => off = DataOffset
  /\ stage = "write data" =>
       /\ off = DataOffset + Len(swap["SECT_DATA"])
       /\ Copied("SECT_DATA", DataOffset, Len(swap["SECT_DATA"]))
  /\ exit = 0 =>
       /\ TextCopied
       /\ HasData => Copied("SECT_DATA", DataOffset, pos["SECT_DATA"])

OutInv == Inv /\ SizeInFile /\ OutTypes /\ Progress

------------------------------------------------------------------------------
(* The files behind the buffers *)

\* One section's file may change to any whose size is not past its offset.
LEMMA SizeStep ==
  ASSUME SectionsOK, SizeInFile, NEW s \in Section, NEW hole \in Seq(Byte),
         emitter_clear_buffer(s, hole)
  PROVE  SizeInFile'
<1> DEFINE f == swap[s] \o buf[s] \o hole
<1>1. /\ swap' = [swap EXCEPT ![s] = f]
      /\ swap_size' = [swap_size EXCEPT
                         ![s] = IF buf[s] = <<>> THEN swap_size[s] ELSE Len(swap[s]) + Len(buf[s])]
  BY DEF emitter_clear_buffer, len
<1>2. /\ swap[s] \in Seq(Byte) /\ buf[s] \in Seq(Byte)
      /\ Len(swap[s]) \in Nat /\ Len(buf[s]) \in Nat /\ Len(hole) \in Nat
  BY SectionFacts, LenProperties
<1>3. swap[s] \o buf[s] \in Seq(Byte) /\ Len(swap[s] \o buf[s]) = Len(swap[s]) + Len(buf[s])
  BY <1>2, ConcatLen
<1>4. Len(f) = Len(swap[s]) + Len(buf[s]) + Len(hole)
  BY <1>2, <1>3, ConcatLen
<1> HIDE DEF f
<1>5. swap \in [Section -> Seq(Byte)] /\ swap_size \in [Section -> Nat]
  BY DEF SectionsOK
<1> SUFFICES ASSUME NEW t \in Section PROVE swap_size'[t] <= Len(swap'[t])
  BY DEF SizeInFile
<1>6. CASE t = s
  <2>1. swap'[t] = f
    BY <1>1, <1>5, <1>6
  <2>2. swap_size'[t] \in {swap_size[s], Len(swap[s]) + Len(buf[s])}
    BY <1>1, <1>5, <1>6
  <2>3. swap_size[s] \in Nat /\ swap_size[s] <= Len(swap[s])
    BY <1>5 DEF SizeInFile
  <2>4. Len(swap[s]) \in Nat /\ Len(buf[s]) \in Nat /\ Len(hole) \in Nat
    BY <1>2
  <2> DEFINE a == Len(swap[s])
             b == Len(buf[s])
             c == Len(hole)
             z == Len(f)
             x == swap_size[s]
             y == swap_size'[t]
  <2>5. a \in Nat /\ b \in Nat /\ c \in Nat /\ z = a + b + c /\ x <= a /\ x \in Nat /\ y \in {x, a + b}
    BY <1>4, <2>2, <2>3, <2>4
  <2> HIDE DEF a, b, c, x, y, z
  <2>6. y <= z
    BY <2>5
  <2> QED
    BY <2>1, <2>6 DEF y, z
<1>7. CASE t # s
  BY <1>1, <1>5, <1>7 DEF SizeInFile
<1> QED
  BY <1>6, <1>7

\* No step of the assembler puts the offset of a file before its end.
LEMMA SizeKept ==
  ASSUME Inv, SizeInFile, [Next]_vars
  PROVE  SizeInFile'
<1>0. SectionsOK /\ current_section \in Section /\ <<>> \in Seq(Byte)
  BY InvParts, EmptySeq DEF RestOK
<1>1. ASSUME NEW data, emitter_buffer(data)
      PROVE  SizeInFile'
  BY <1>0, <1>1, SizeStep DEF emitter_buffer, SizeInFile
<1>2. ASSUME NEW n \in Nat, emitter_advance(n)
      PROVE  SizeInFile'
  BY <1>0, <1>2, SizeStep, ZerosType DEF emitter_advance, SizeInFile
<1>3. ASSUME UNCHANGED <<swap, swap_size>>
      PROVE  SizeInFile'
  BY <1>3 DEF SizeInFile
<1>4. \A l \in Label : emitter_label_add(l) => UNCHANGED <<swap, swap_size>>
  BY DEF emitter_label_add, sections
<1> QED
  BY <1>1, <1>2, <1>3, <1>4, StepCalls DEF sections

------------------------------------------------------------------------------
(* Pages *)

LEMMA RoundUpFacts ==
  ASSUME NEW n \in Nat
  PROVE  RoundUp(n) \in Nat /\ n <= RoundUp(n) /\ RoundUp(n) % PageSize = 0
<1> DEFINE q == (n + PageSize - 1) \div PageSize
<1>0. PageSize \in Nat /\ PageSize > 0
  BY SizesAssumption
<1>1. q \in Int /\ PageSize * q <= n + PageSize - 1 /\ n + PageSize - 1 < PageSize * q + PageSize
  BY <1>0
<1>2. RoundUp(n) = PageSize * q
  BY <1>0, <1>1 DEF RoundUp
<1> HIDE DEF q
<1>3. PageSize * q \in Int
  BY <1>0, <1>1
<1>4. PageSize * q >= n
  BY <1>0, <1>1, <1>3
<1>5. (PageSize * q) % PageSize = 0
  BY <1>0, <1>1
<1> QED
  BY <1>2, <1>3, <1>4, <1>5

\* The distance between two multiples of a page is one.
LEMMA PageDistance ==
  ASSUME NEW a \in Nat, NEW b \in Nat, a % PageSize = 0, b % PageSize = 0
  PROVE  (a - b) % PageSize = 0
<1>0. PageSize \in Nat /\ PageSize > 0
  BY SizesAssumption
<1> DEFINE p == a \div PageSize
           q == b \div PageSize
<1>1. p \in Int /\ q \in Int /\ a = PageSize * p /\ b = PageSize * q
  BY <1>0
<1> HIDE DEF p, q
<1>2. a - b = PageSize * (p - q)
  BY <1>0, <1>1
<1> DEFINE r == p - q
<1>3. r \in Int
  BY <1>1
<1> HIDE DEF r
<1>4. (PageSize * r) % PageSize = 0
  BY <1>0, <1>3
<1> QED
  BY <1>2, <1>4 DEF r

------------------------------------------------------------------------------
(* The writes *)

LEMMA MaxOfTwo ==
  ASSUME NEW a \in Int, NEW b \in Int
  PROVE  Max({a, b}) \in {a, b} /\ Max({a, b}) >= a /\ Max({a, b}) >= b
<1> DEFINE IsMax(m) == m \in {a, b} /\ \A y \in {a, b} : m >= y
<1>1. \E m : IsMax(m)
  <2>1. CASE a >= b
    BY <2>1
  <2>2. CASE b >= a
    BY <2>2
  <2> QED
    BY <2>1, <2>2
<1>2. Max({a, b}) = CHOOSE m : IsMax(m)
  BY DEF Max
<1> HIDE DEF IsMax
<1>3. IsMax(Max({a, b}))
  BY <1>1, <1>2
<1> QED
  BY <1>3 DEF IsMax

\* The first n bytes of bytes are in the file at its offset, and what was
\* before or behind them is as it was.
Written(bytes, n) ==
  /\ out' \in Seq(Cells)
  /\ off' = off + n
  /\ \A i \in 1 .. n : off + i \in DOMAIN out' /\ out'[off + i] = bytes[i]
  /\ \A j \in DOMAIN out : j <= off \/ off + n < j => j \in DOMAIN out' /\ out'[j] = out[j]

LEMMA PutWrites ==
  ASSUME OutTypes, NEW bytes \in Seq(Cells), Put(bytes)
  PROVE  Written(bytes, Len(bytes))
<1>1. /\ out \in Seq(Cells) /\ off \in Nat /\ Len(out) \in Nat /\ Len(bytes) \in Nat
      /\ DOMAIN out = 1 .. Len(out) /\ \A j \in 1 .. Len(out) : out[j] \in Cells
      /\ \A i \in 1 .. Len(bytes) : bytes[i] \in Cells
  BY LenProperties DEF OutTypes
<1>2. off' = off + Len(bytes)
  BY DEF Put
<1>3. CASE bytes = <<>>
  <2>1. out' = out /\ Len(bytes) = 0
    BY <1>3, EmptySeq DEF Put
  <2> QED
    BY <1>1, <1>2, <2>1 DEF Written
<1>4. CASE bytes # <<>>
  <2> DEFINE k == Len(out)
             b == Len(bytes)
             e == off + b
             m == Max({k, e})
             F(i) == IF off < i /\ i <= e THEN bytes[i - off]
                     ELSE IF i <= k THEN out[i] ELSE Cell("zero")
  <2>0. off \in Nat /\ k \in Nat /\ b \in Nat
    BY <1>1
  <2> HIDE DEF k, b
  <2>1. e \in Nat /\ e = off + b
    BY <2>0
  <2> HIDE DEF e
  <2>2. m \in {k, e} /\ m >= k /\ m >= e
    <3>1. k \in Int /\ e \in Int
      BY <2>0, <2>1
    <3> QED
      BY <3>1, MaxOfTwo, Zenon
  <2>3. m \in Nat
    BY <2>0, <2>1, <2>2
  <2>4. out' = [i \in 1 .. m |-> F(i)]
    BY <1>4 DEF Put, Overwritten, k, b, e
  <2>5. Cell("zero") \in Cells
    BY DEF Cells
  <2> HIDE DEF m
  <2>6. ASSUME NEW i \in 1 .. m
        PROVE  F(i) \in Cells
    <3>1. CASE off < i /\ i <= e
      <4>1. i - off \in 1 .. b
        BY <2>0, <2>1, <2>3, <3>1
      <4>2. bytes[i - off] \in Cells
        BY <1>1, <4>1 DEF b
      <4> QED
        BY <3>1, <4>2
    <3>2. CASE ~ (off < i /\ i <= e)
      <4>1. i <= k => out[i] \in Cells
        BY <1>1, <2>0, <2>3 DEF k
      <4> QED
        BY <2>5, <3>2, <4>1
    <3> QED
      BY <3>1, <3>2
  <2> HIDE DEF F
  <2>7. out' \in [1 .. m -> Cells] /\ DOMAIN out' = 1 .. m
    BY <2>4, <2>6
  <2>8. out' \in Seq(Cells)
    BY <2>3, <2>7, FunctionIsSeq
  <2>9. ASSUME NEW i \in 1 .. b
        PROVE  off + i \in DOMAIN out' /\ out'[off + i] = bytes[i]
    <3>1. off + i \in 1 .. m /\ off < off + i /\ off + i <= e /\ (off + i) - off = i
      BY <2>0, <2>1, <2>2, <2>3
    <3>2. F(off + i) = bytes[i]
      BY <3>1 DEF F
    <3> QED
      BY <2>4, <2>7, <3>1, <3>2
  <2>10. ASSUME NEW j \in 1 .. k, j <= off \/ e < j
         PROVE  j \in DOMAIN out' /\ out'[j] = out[j]
    <3>1. j \in 1 .. m /\ ~ (off < j /\ j <= e) /\ j <= k
      BY <2>0, <2>1, <2>2, <2>3, <2>10
    <3>2. F(j) = out[j]
      BY <3>1 DEF F
    <3> QED
      BY <2>4, <2>7, <3>1, <3>2
  <2> QED
    BY <1>1, <1>2, <2>8, <2>9, <2>10 DEF Written, k, b, e
<1> QED
  BY <1>3, <1>4

\* A transfer ends the run with an error, or did all it was asked to do.
LEMMA TransferDoes ==
  ASSUME OutTypes, NEW bytes \in Seq(Cells), NEW wanted \in Nat, NEW next,
         Transfer(bytes, wanted, next)
  PROVE  /\ out' \in Seq(Cells) /\ off' \in Nat
         /\ UNCHANGED vars
         /\ \/ stage' = "done" /\ exit' = 1
            \/ /\ stage' = next /\ exit' = IF next = "done" THEN 0 ELSE exit
               /\ wanted <= Len(bytes)
               /\ Written(bytes, wanted)
<1>1. out \in Seq(Cells) /\ off \in Nat /\ Len(bytes) \in Nat
  BY LenProperties DEF OutTypes
<1>2. ASSUME NEW n \in {Len(bytes) - 1, Len(bytes)} \cap Nat, Put(SubSeq(bytes, 1, n)),
             IF AllMoved(n, wanted)
             THEN stage' = next /\ exit' = IF next = "done" THEN 0 ELSE exit
             ELSE Return(1)
      PROVE  /\ out' \in Seq(Cells) /\ off' \in Nat
             /\ \/ stage' = "done" /\ exit' = 1
                \/ /\ stage' = next /\ exit' = IF next = "done" THEN 0 ELSE exit
                   /\ wanted <= Len(bytes)
                   /\ Written(bytes, wanted)
  <2> DEFINE part == SubSeq(bytes, 1, n)
  <2>1. n \in Nat /\ n <= Len(bytes)
    BY <1>1
  <2>2. part \in Seq(Cells) /\ Len(part) = n /\ \A i \in 1 .. n : part[i] = bytes[i]
    BY <1>1, <2>1
  <2> HIDE DEF part
  <2>3. Written(part, n)
    BY <1>2, <2>2, PutWrites DEF part
  <2>4. Written(bytes, n)
    BY <2>2, <2>3 DEF Written
  <2>5. out' \in Seq(Cells) /\ off' \in Nat
    BY <1>1, <2>1, <2>4 DEF Written
  <2>6. CASE n = wanted
    BY <1>2, <2>1, <2>4, <2>5, <2>6 DEF AllMoved
  <2>7. CASE n # wanted
    BY <1>2, <2>5, <2>7 DEF AllMoved, Return
  <2> QED
    BY <2>6, <2>7
<1> QED
  BY <1>1, <1>2 DEF Transfer, Return

------------------------------------------------------------------------------
(* Copying a section *)

\* The writes change nothing of the assembler.
LEMMA SameProgram ==
  ASSUME Inv, SizeInFile, UNCHANGED vars
  PROVE  /\ Inv' /\ SizeInFile'
         /\ HasData' = HasData /\ after' = after /\ DataOffset' = DataOffset
         /\ TextFits' = TextFits /\ pos' = pos /\ swap' = swap
         /\ \A s \in Section : Image(s)' = Image(s)
<1>1. Inv' /\ SizeInFile'
  BY NextInv, SizeKept
<1>2. pos' = pos /\ swap' = swap /\ buf' = buf
  BY DEF vars
<1> QED
  BY <1>1, <1>2 DEF HasData, after, DataOffset, RoundUp, TextFits, Image

\* The places in the file, as numbers.
LEMMA Places ==
  ASSUME Inv
  PROVE  /\ after \in Nat /\ DataOffset \in Nat
         /\ \A s \in Section : pos[s] \in Nat /\ pos[s] <= RoundUp(pos[s])
                               /\ RoundUp(pos[s]) \in Nat /\ RoundUp(pos[s]) % PageSize = 0
         /\ TextFits <=> after + pos["SECT_TEXT"] <= DataOffset
<1>1. \A s \in Section : pos[s] \in Nat
  BY InvParts, SectionFacts
<1>2. "SECT_TEXT" \in Section
  BY DEF Section
<1>3. \A s \in Section : pos[s] <= RoundUp(pos[s])
                         /\ RoundUp(pos[s]) \in Nat /\ RoundUp(pos[s]) % PageSize = 0
  BY <1>1, RoundUpFacts
<1>4. DataOffset \in Nat
  BY <1>2, <1>3 DEF DataOffset
<1>5. after \in Nat
  BY SizesAssumption DEF after
<1>6. TextFits <=> after + pos["SECT_TEXT"] <= DataOffset
  BY DEF TextFits, DataOffset
<1> QED
  BY <1>1, <1>3, <1>4, <1>5, <1>6

\* The file is as it was, but for the bytes from offset lo to hi.
Kept(lo, hi) ==
  \A j \in DOMAIN out : j <= lo \/ hi < j => j \in DOMAIN out' /\ out'[j] = out[j]

LEMMA CopiedStays ==
  ASSUME NEW s \in Section, NEW at \in Nat, NEW n \in Nat, NEW lo \in Nat, NEW hi,
         Copied(s, at, n), Kept(lo, hi), at + n <= lo, Image(s)' = Image(s)
  PROVE  \A i \in 1 .. n : at + i \in DOMAIN out' /\ out'[at + i] = Image(s)'[i]
<1> SUFFICES ASSUME NEW i \in 1 .. n
             PROVE  at + i \in DOMAIN out' /\ out'[at + i] = Image(s)'[i]
  OBVIOUS
<1>1. at + i <= lo
  OBVIOUS
<1>2. at + i \in DOMAIN out /\ out[at + i] = Image(s)[i]
  BY DEF Copied
<1> QED
  BY <1>1, <1>2 DEF Kept

Failed == stage' = "done" /\ exit' = 1

\* What a successful transfer does, and what it returns if it was the last.
Passed(next, n) ==
  /\ stage' = next /\ exit' = IF next = "done" THEN 0 ELSE exit
  /\ off' = off + n
  /\ Kept(off, off + n)

\* copy_file_range: the bytes of the swap file are the section's first.
LEMMA SwapCopied ==
  ASSUME Inv, SizeInFile, OutTypes, NEW s \in Section, NEW next, CopySwap(s, next)
  PROVE  /\ out' \in Seq(Cells) /\ off' \in Nat /\ UNCHANGED vars
         /\ \/ Failed
            \/ /\ Passed(next, Len(swap[s]))
               /\ \A i \in 1 .. Len(swap[s]) :
                    off + i \in DOMAIN out' /\ out'[off + i] = Image(s)[i]
<1> DEFINE f == swap[s]
           n == Len(f)
           size == swap_size[s]
           bytes == SubSeq(f, 1, size)
<1>1. /\ f \in Seq(Byte) /\ n \in Nat /\ size \in Nat /\ size <= n
      /\ buf[s] \in Seq(Byte) /\ len(s) = Len(buf[s])
      /\ pos[s] = n + Len(buf[s]) /\ Len(buf[s]) \in Nat
  BY InvParts, SectionFacts DEF SizeInFile
<1>2. pos[s] - len(s) = n
  BY <1>1
<1>3. Transfer(bytes, n, next)
  BY <1>2 DEF CopySwap
<1> HIDE DEF f
<1>4. bytes \in Seq(Byte) /\ Len(bytes) = size /\ \A i \in 1 .. size : bytes[i] = f[i]
  BY <1>1
<1>5. bytes \in Seq(Cells)
  <2>1. \A i \in 1 .. size : bytes[i] \in Cells
    BY <1>1, <1>4 DEF Cells
  <2>2. DOMAIN bytes = 1 .. size /\ bytes = [i \in 1 .. size |-> bytes[i]]
    BY <1>1, <1>4
  <2> HIDE DEF bytes
  <2>3. bytes \in [1 .. size -> Cells]
    BY <2>1, <2>2
  <2> QED
    BY <1>1, <2>3, FunctionIsSeq
<1> HIDE DEF bytes, n, size
<1>6. /\ out' \in Seq(Cells) /\ off' \in Nat /\ UNCHANGED vars
      /\ \/ Failed
         \/ /\ stage' = next /\ exit' = IF next = "done" THEN 0 ELSE exit
            /\ n <= Len(bytes)
            /\ Written(bytes, n)
  BY <1>1, <1>3, <1>5, TransferDoes DEF Failed
<1>7. \A i \in 1 .. n : Image(s)[i] = f[i]
  <2>1. \A i \in 1 .. pos[s] : i <= Len(swap[s]) => Image(s)[i] = swap[s][i]
    BY InvParts, ImageFacts
  <2>2. n + Len(buf[s]) = pos[s] /\ n \in Nat /\ Len(buf[s]) \in Nat
    BY <1>1
  <2> DEFINE b == Len(buf[s])
             p == pos[s]
  <2> HIDE DEF b, p
  <2>3. n + b = p /\ n \in Nat /\ b \in Nat
    BY <2>2 DEF b, p
  <2>4. \A i \in 1 .. n : i \in 1 .. p /\ i <= n
    BY <2>3
  <2> QED
    BY <2>1, <2>4 DEF f, n, p
<1>8. ASSUME n <= Len(bytes), NEW i \in 1 .. n
      PROVE  bytes[i] = Image(s)[i]
  <2>1. i \in 1 .. size
    BY <1>1, <1>4, <1>8
  <2> QED
    BY <1>4, <1>7, <1>8, <2>1
<1> QED
  BY <1>6, <1>8 DEF Written, Passed, Kept, n, f

\* write: the bytes of the buffer follow those of the swap file.
LEMMA BufferCopied ==
  ASSUME Inv, SizeInFile, OutTypes, NEW s \in Section, NEW next, NEW at \in Nat,
         WriteBuffer(s, next), off = at + Len(swap[s]), Copied(s, at, Len(swap[s]))
  PROVE  /\ out' \in Seq(Cells) /\ off' \in Nat /\ UNCHANGED vars
         /\ \/ Failed
            \/ /\ Passed(next, len(s))
               /\ \A i \in 1 .. pos[s] :
                    at + i \in DOMAIN out' /\ out'[at + i] = Image(s)[i]
<1> DEFINE b == buf[s]
           n == Len(b)
           k == Len(swap[s])
           p == pos[s]
<1>1. b \in Seq(Byte) /\ n \in Nat /\ len(s) = n /\ k \in Nat /\ p = k + n
  BY InvParts, SectionFacts
<1>2. Transfer(b, n, next)
  BY <1>1 DEF WriteBuffer
<1>3. \A i \in 1 .. p : Image(s)[i] = IF i <= k THEN swap[s][i] ELSE b[i - k]
  BY InvParts, ImageFacts
<1> HIDE DEF b, n, k, p
<1>4. b \in Seq(Cells)
  <2>1. \A i \in 1 .. n : b[i] \in Cells
    BY <1>1 DEF Cells, n
  <2>2. b = [i \in 1 .. n |-> b[i]]
    BY <1>1 DEF n
  <2>3. b \in [1 .. n -> Cells]
    BY <2>1, <2>2
  <2> QED
    BY <1>1, <2>3, FunctionIsSeq
<1>5. /\ out' \in Seq(Cells) /\ off' \in Nat /\ UNCHANGED vars
      /\ \/ Failed
         \/ /\ stage' = next /\ exit' = IF next = "done" THEN 0 ELSE exit
            /\ Written(b, n)
  BY <1>1, <1>2, <1>4, TransferDoes DEF Failed
<1>6. ASSUME Written(b, n), NEW i \in 1 .. p
      PROVE  at + i \in DOMAIN out' /\ out'[at + i] = Image(s)[i]
  <2>1. CASE i <= k
    <3>1. i \in 1 .. k /\ at + i <= off
      BY <1>1, <2>1 DEF k
    <3>2. at + i \in DOMAIN out /\ out[at + i] = Image(s)[i]
      BY <3>1 DEF Copied, k
    <3> QED
      BY <1>6, <3>1, <3>2 DEF Written
  <2>2. CASE ~ (i <= k)
    <3>1. i - k \in 1 .. n /\ off + (i - k) = at + i
      <4>1. off = at + k
        BY DEF k
      <4> QED
        BY <1>1, <2>2, <4>1
    <3>2. Image(s)[i] = b[i - k]
      BY <1>3, <2>2
    <3> QED
      BY <1>6, <3>1, <3>2 DEF Written
  <2> QED
    BY <2>1, <2>2
<1>7. Written(b, n) => off' = off + n /\ Kept(off, off + n)
  BY DEF Written, Kept
<1> QED
  BY <1>1, <1>5, <1>6, <1>7 DEF Passed, p

------------------------------------------------------------------------------
(* Every step keeps the invariant *)

LEMMA SetupStages ==
  /\ Range(Setup) = {"argparse", "strcmp", "open output", "open input", "fstat",
                     "st_size", "mmap", "calloc", "open swap"}
  /\ \A k \in DOMAIN Setup : k < Len(Setup) => Setup[k + 1] \in Range(Setup)
  /\ \A k \in DOMAIN Setup : Setup[k] \in Range(Setup)
<1>1. Len(Setup) = 9 /\ DOMAIN Setup = 1 .. 9
  BY DEF Setup
<1>2. \A k \in DOMAIN Setup : Setup[k] \in Range(Setup)
  BY DEF Range
<1>3. \A k \in DOMAIN Setup : k < Len(Setup) => k + 1 \in DOMAIN Setup
  BY <1>1
<1>4. /\ Setup[1] = "argparse" /\ Setup[2] = "strcmp" /\ Setup[3] = "open output"
      /\ Setup[4] = "open input" /\ Setup[5] = "fstat" /\ Setup[6] = "st_size"
      /\ Setup[7] = "mmap" /\ Setup[8] = "calloc" /\ Setup[9] = "open swap"
  BY DEF Setup
<1>5. \A k \in DOMAIN Setup :
        \/ k = 1 \/ k = 2 \/ k = 3 \/ k = 4 \/ k = 5 \/ k = 6 \/ k = 7 \/ k = 8 \/ k = 9
  BY <1>1
<1>6. \A k \in DOMAIN Setup :
        Setup[k] \in {"argparse", "strcmp", "open output", "open input", "fstat",
                      "st_size", "mmap", "calloc", "open swap"}
  BY <1>4, <1>5, Zenon
<1>7. /\ 1 \in DOMAIN Setup /\ 2 \in DOMAIN Setup /\ 3 \in DOMAIN Setup
      /\ 4 \in DOMAIN Setup /\ 5 \in DOMAIN Setup /\ 6 \in DOMAIN Setup
      /\ 7 \in DOMAIN Setup /\ 8 \in DOMAIN Setup /\ 9 \in DOMAIN Setup
  BY <1>1
<1>8. {"argparse", "strcmp", "open output", "open input", "fstat",
       "st_size", "mmap", "calloc", "open swap"} \subseteq Range(Setup)
  BY <1>2, <1>4, <1>7
<1> QED
  BY <1>2, <1>3, <1>6, <1>8 DEF Range

\* No call before the loop has the name of a later stage.
LEMMA StagesDiffer ==
  \A st \in Range(Setup) : st \notin Writing \cup {"loop", "done"}
BY SetupStages DEF Writing

\* A run that has ended with an error promises nothing.
LEMMA FailedKeeps ==
  ASSUME Failed, out' \in Seq(Cells), off' \in Nat
  PROVE  OutTypes' /\ Progress'
<1>1. stage' = "done" /\ exit' = 1
  BY DEF Failed
<1>2. OutTypes'
  BY <1>1 DEF OutTypes
<1>3. "done" \notin Range(Setup)
  BY StagesDiffer
<1>4. Progress'
  BY <1>1, <1>3 DEF Progress
<1> QED
  BY <1>2, <1>4

LEMMA NewTypes ==
  ASSUME out' \in Seq(Cells), off' \in Nat,
         (stage' \in Writing /\ exit' = -1) \/ (stage' = "done" /\ exit' = 0)
  PROVE  OutTypes' /\ (stage' \in Writing => exit' # 0)
<1>0. "done" \notin Writing
  BY DEF Writing
<1>1. -1 # 0
  OBVIOUS
<1>2. CASE stage' \in Writing /\ exit' = -1
  BY <1>0, <1>1, <1>2, Zenon DEF OutTypes
<1>3. CASE stage' = "done" /\ exit' = 0
  BY <1>0, <1>1, <1>3, Zenon DEF OutTypes
<1> QED
  BY <1>2, <1>3

\* Writes at and behind the data's place leave the text alone.
LEMMA TextStays ==
  ASSUME Inv, SizeInFile, UNCHANGED vars, TextCopied, NEW lo \in Nat, NEW hi,
         Kept(lo, hi), DataOffset <= lo
  PROVE  TextCopied'
<1> SUFFICES ASSUME TextFits' PROVE Copied("SECT_TEXT", after, pos["SECT_TEXT"])'
  BY DEF TextCopied
<1> DEFINE T == "SECT_TEXT"
<1>1. /\ after' = after /\ TextFits /\ pos' = pos /\ T \in Section /\ Image(T)' = Image(T)
  BY SameProgram DEF Section
<1>2. after \in Nat /\ DataOffset \in Nat /\ pos[T] \in Nat /\ after + pos[T] <= DataOffset
  BY <1>1, Places
<1>3. after + pos[T] <= lo
  BY <1>2
<1>4. Copied(T, after, pos[T])
  BY <1>1 DEF TextCopied
<1>5. \A i \in 1 .. pos[T] : after + i \in DOMAIN out' /\ out'[after + i] = Image(T)'[i]
  BY <1>1, <1>2, <1>3, <1>4, CopiedStays
<1> QED
  BY <1>1, <1>5 DEF Copied

LEMMA BeforeWrites ==
  ASSUME OutInv, UNCHANGED <<out, off>>,
         \/ /\ stage \in Range(Setup) \cup {"loop"} /\ exit' = exit
            /\ stage' \in Range(Setup) \cup {"loop", "header"}
         \/ Failed
  PROVE  OutTypes' /\ Progress'
<1>1. out' \in Seq(Cells) /\ off' \in Nat
  BY DEF OutInv, OutTypes
<1>2. CASE Failed
  BY <1>1, <1>2, FailedKeeps
<1>3. CASE /\ stage \in Range(Setup) \cup {"loop"} /\ exit' = exit
           /\ stage' \in Range(Setup) \cup {"loop", "header"}
  <2>1. exit = -1 /\ off = 0
    BY <1>3, StagesDiffer DEF OutInv, OutTypes, Progress
  <2>2. OutTypes'
    BY <1>1, <1>3, <2>1, StagesDiffer DEF OutTypes, Writing
  <2>3. off' = 0 /\ exit' = -1
    BY <1>3, <2>1
  <2>4. stage' \notin {"copy text", "write text", "seek", "copy data", "write data"}
    BY <1>3, StagesDiffer DEF Writing
  <2>5. exit' # 0
    BY <2>3
  <2>6. Progress'
    BY <2>3, <2>4, <2>5, Zenon DEF Progress
  <2> QED
    BY <2>2, <2>6
<1> QED
  BY <1>2, <1>3

LEMMA HeaderKeeps ==
  ASSUME OutInv, WriteHeader
  PROVE  OutTypes' /\ Progress' /\ UNCHANGED vars
<1> DEFINE h == [i \in 1 .. after |-> Cell("header")]
<1>0. Inv /\ SizeInFile /\ OutTypes /\ stage = "header" /\ exit = -1 /\ off = 0
  BY DEF OutInv, OutTypes, Progress, WriteHeader
<1>1. after \in Nat
  BY <1>0, Places
<1>2. h \in [1 .. after -> Cells]
  BY DEF Cells
<1>3. h \in Seq(Cells)
  BY <1>1, <1>2, FunctionIsSeq
<1>4. Transfer(h, after, "copy text")
  BY DEF WriteHeader
<1> HIDE DEF h
<1>5. /\ out' \in Seq(Cells) /\ off' \in Nat /\ UNCHANGED vars
      /\ \/ Failed
         \/ stage' = "copy text" /\ exit' = exit /\ Written(h, after)
  <2> DEFINE next == "copy text"
  <2>1. next # "done" /\ Transfer(h, after, next)
    BY <1>4
  <2> HIDE DEF next
  <2>2. /\ out' \in Seq(Cells) /\ off' \in Nat /\ UNCHANGED vars
        /\ \/ stage' = "done" /\ exit' = 1
           \/ /\ stage' = next
              /\ exit' = IF next = "done" THEN 0 ELSE exit
              /\ Written(h, after)
    BY <1>0, <1>1, <1>3, <2>1, TransferDoes
  <2> QED
    BY <2>1, <2>2 DEF Failed, next
<1>6. ASSUME stage' = "copy text", exit' = exit, Written(h, after)
      PROVE  OutTypes' /\ Progress'
  <2>1. after' = after
    BY <1>0, <1>5, SameProgram
  <2>2. off' = 0 + after
    BY <1>0, <1>6 DEF Written
  <2>3. off' = after'
    BY <1>1, <2>1, <2>2
  <2>4. exit' = -1 /\ stage' \in Writing
    BY <1>0, <1>6 DEF Writing
  <2>5. OutTypes' /\ exit' # 0
    BY <1>5, <2>4, NewTypes, Zenon
  <2>6. "copy text" \notin Range(Setup) \cup {"loop", "header"}
    BY StagesDiffer DEF Writing
  <2>7. Progress'
    BY <1>6, <2>3, <2>5, <2>6, Zenon DEF Progress
  <2> QED
    BY <2>5, <2>7
<1> QED
  BY <1>5, <1>6, FailedKeeps

LEMMA TextKeeps ==
  ASSUME OutInv, EmitText
  PROVE  OutTypes' /\ Progress' /\ UNCHANGED vars
<1> DEFINE T == "SECT_TEXT"
<1>0. /\ Inv /\ SizeInFile /\ OutTypes /\ Progress /\ exit = -1 /\ T \in Section
      /\ after \in Nat /\ off \in Nat
  BY Places DEF OutInv, OutTypes, EmitText, Section
<1>1. CASE stage = "copy text" /\ CopySwap(T, "write text")
  <2>1. off = after
    BY <1>0, <1>1 DEF Progress
  <2>2. /\ out' \in Seq(Cells) /\ off' \in Nat /\ UNCHANGED vars
        /\ \/ Failed
           \/ /\ Passed("write text", Len(swap[T]))
              /\ \A i \in 1 .. Len(swap[T]) :
                   off + i \in DOMAIN out' /\ out'[off + i] = Image(T)[i]
    BY <1>0, <1>1, SwapCopied
  <2>3. after' = after /\ swap' = swap /\ Image(T)' = Image(T)
    BY <1>0, <2>2, SameProgram
  <2>4. ASSUME Passed("write text", Len(swap[T])),
               \A i \in 1 .. Len(swap[T]) :
                   off + i \in DOMAIN out' /\ out'[off + i] = Image(T)[i]
        PROVE  OutTypes' /\ Progress'
    <3>1. /\ stage' = "write text" /\ exit' = -1
          /\ off' = after' + Len(swap'[T])
      BY <1>0, <2>1, <2>3, <2>4 DEF Passed
    <3>2. Copied(T, after, Len(swap[T]))'
      BY <2>1, <2>3, <2>4 DEF Copied
    <3>3. OutTypes' /\ exit' # 0
      BY <2>2, <3>1, NewTypes DEF Writing
    <3>4. "write text" \notin Range(Setup) \cup {"loop", "header"}
      BY StagesDiffer DEF Writing
    <3>5. Progress'
      BY <3>1, <3>2, <3>3, <3>4, Zenon DEF Progress
    <3> QED
      BY <3>3, <3>5
  <2> QED
    BY <2>2, <2>4, FailedKeeps
<1>2. CASE stage = "write text" /\ WriteBuffer(T, IF HasData THEN "seek" ELSE "done")
  <2> DEFINE next == IF HasData THEN "seek" ELSE "done"
  <2>1. off = after + Len(swap[T]) /\ Copied(T, after, Len(swap[T]))
    BY <1>0, <1>2 DEF Progress
  <2>2. WriteBuffer(T, next)
    BY <1>2
  <2>3. (HasData /\ next = "seek") \/ (~ HasData /\ next = "done")
    BY Zenon
  <2> HIDE DEF next
  <2>4. /\ out' \in Seq(Cells) /\ off' \in Nat /\ UNCHANGED vars
        /\ \/ Failed
           \/ /\ Passed(next, len(T))
              /\ \A i \in 1 .. pos[T] :
                   after + i \in DOMAIN out' /\ out'[after + i] = Image(T)[i]
    BY <1>0, <2>1, <2>2, BufferCopied
  <2>5. after' = after /\ pos' = pos /\ Image(T)' = Image(T) /\ HasData' = HasData
    BY <1>0, <2>4, SameProgram
  <2>6. ASSUME Passed(next, len(T)),
               \A i \in 1 .. pos[T] :
                   after + i \in DOMAIN out' /\ out'[after + i] = Image(T)[i]
        PROVE  OutTypes' /\ Progress'
    <3>1. Copied(T, after, pos[T])'
      BY <2>5, <2>6 DEF Copied
    <3>2. TextCopied'
      BY <3>1 DEF TextCopied
    <3>3. CASE HasData /\ next = "seek"
      <4>1. stage' = "seek" /\ exit' = -1 /\ HasData'
        BY <1>0, <2>5, <2>6, <3>3 DEF Passed
      <4>2. OutTypes' /\ exit' # 0
        BY <2>4, <4>1, NewTypes DEF Writing
      <4>3. "seek" \notin Range(Setup) \cup {"loop", "header"}
        BY StagesDiffer DEF Writing
      <4>4. Progress'
        BY <3>2, <4>1, <4>2, <4>3, Zenon DEF Progress
      <4> QED
        BY <4>2, <4>4
    <3>4. CASE ~ HasData /\ next = "done"
      <4>1. stage' = "done" /\ exit' = 0 /\ ~ HasData'
        BY <2>5, <2>6, <3>4 DEF Passed
      <4>2. OutTypes'
        BY <2>4, <4>1, NewTypes
      <4>3. "done" \notin Range(Setup) \cup {"loop", "header"}
        BY StagesDiffer
      <4>4. Progress'
        BY <3>2, <4>1, <4>3, Zenon DEF Progress
      <4> QED
        BY <4>2, <4>4
    <3> QED
      BY <2>3, <3>3, <3>4
  <2> QED
    BY <2>4, <2>6, FailedKeeps
<1> QED
  BY <1>1, <1>2 DEF EmitText

LEMMA SeekKeeps ==
  ASSUME OutInv, SeekData
  PROVE  OutTypes' /\ Progress' /\ UNCHANGED vars
<1>0. /\ Inv /\ SizeInFile /\ out \in Seq(Cells) /\ off \in Nat /\ exit = -1
      /\ HasData /\ TextCopied /\ DataOffset \in Nat
  BY Places DEF OutInv, OutTypes, Progress, SeekData
<1>1. UNCHANGED vars /\ out' = out
  BY DEF SeekData
<1>2. HasData' /\ DataOffset' = DataOffset /\ after' = after /\ pos' = pos
      /\ TextFits' = TextFits /\ \A s \in Section : Image(s)' = Image(s)
  BY <1>0, <1>1, SameProgram, Zenon
<1>3. TextCopied'
  <2>1. "SECT_TEXT" \in Section
    BY DEF Section
  <2> QED
    BY <1>0, <1>1, <1>2, <2>1 DEF TextCopied, Copied
<1>4. CASE off' = DataOffset /\ stage' = "copy data" /\ exit' = exit
  <2>1. stage' \in Writing /\ exit' = -1
    BY <1>0, <1>4 DEF Writing
  <2>2. out' \in Seq(Cells) /\ off' \in Nat
    BY <1>0, <1>1, <1>4
  <2>3. OutTypes' /\ exit' # 0
    BY <2>1, <2>2, NewTypes, Zenon
  <2>4. "copy data" \notin Range(Setup) \cup {"loop", "header"}
    BY StagesDiffer DEF Writing
  <2>5. Progress'
    BY <1>2, <1>3, <1>4, <2>3, <2>4, Zenon DEF Progress
  <2> QED
    BY <1>1, <2>3, <2>5
<1>5. CASE Failed /\ off' = off
  BY <1>0, <1>1, <1>5, FailedKeeps
<1> QED
  BY <1>4, <1>5 DEF SeekData, Failed, Return

LEMMA DataKeeps ==
  ASSUME OutInv, EmitData
  PROVE  OutTypes' /\ Progress' /\ UNCHANGED vars
<1> DEFINE D == "SECT_DATA"
<1>0. /\ Inv /\ SizeInFile /\ OutTypes /\ exit = -1 /\ D \in Section
      /\ DataOffset \in Nat /\ off \in Nat /\ HasData /\ TextCopied
  BY Places DEF OutInv, OutTypes, Progress, EmitData, Section
<1>1. CASE stage = "copy data" /\ CopySwap(D, "write data")
  <2>1. off = DataOffset
    BY <1>1 DEF OutInv, Progress
  <2>2. /\ out' \in Seq(Cells) /\ off' \in Nat /\ UNCHANGED vars
        /\ \/ Failed
           \/ /\ Passed("write data", Len(swap[D]))
              /\ \A i \in 1 .. Len(swap[D]) :
                   off + i \in DOMAIN out' /\ out'[off + i] = Image(D)[i]
    BY <1>0, <1>1, SwapCopied
  <2>3. DataOffset' = DataOffset /\ swap' = swap /\ Image(D)' = Image(D) /\ HasData'
    BY <1>0, <2>2, SameProgram
  <2>4. ASSUME Passed("write data", Len(swap[D])),
               \A i \in 1 .. Len(swap[D]) :
                   off + i \in DOMAIN out' /\ out'[off + i] = Image(D)[i]
        PROVE  OutTypes' /\ Progress'
    <3>1. /\ stage' = "write data" /\ exit' = -1
          /\ off' = DataOffset' + Len(swap'[D])
      BY <1>0, <2>1, <2>3, <2>4 DEF Passed
    <3>2. Copied(D, DataOffset, Len(swap[D]))'
      BY <2>1, <2>3, <2>4 DEF Copied
    <3>3. OutTypes' /\ exit' # 0
      BY <2>2, <3>1, NewTypes DEF Writing
    <3>4. "write data" \notin Range(Setup) \cup {"loop", "header"}
      BY StagesDiffer DEF Writing
    <3>5. Kept(off, off + Len(swap[D]))
      BY <2>4 DEF Passed
    <3>6. DataOffset <= off
      BY <1>0, <2>1
    <3>7. TextCopied'
      BY <1>0, <2>2, <3>5, <3>6, TextStays
    <3>8. Progress'
      BY <2>3, <3>1, <3>2, <3>3, <3>4, <3>7, Zenon DEF Progress
    <3> QED
      BY <3>3, <3>8
  <2> QED
    BY <2>2, <2>4, FailedKeeps
<1>2. CASE stage = "write data" /\ WriteBuffer(D, "done")
  <2>1. off = DataOffset + Len(swap[D]) /\ Copied(D, DataOffset, Len(swap[D]))
    BY <1>2 DEF OutInv, Progress
  <2>2. /\ out' \in Seq(Cells) /\ off' \in Nat /\ UNCHANGED vars
        /\ \/ Failed
           \/ /\ Passed("done", len(D))
              /\ \A i \in 1 .. pos[D] :
                   DataOffset + i \in DOMAIN out' /\ out'[DataOffset + i] = Image(D)[i]
    BY <1>0, <1>2, <2>1, BufferCopied
  <2>3. DataOffset' = DataOffset /\ pos' = pos /\ Image(D)' = Image(D)
    BY <1>0, <2>2, SameProgram
  <2>4. ASSUME Passed("done", len(D)),
               \A i \in 1 .. pos[D] :
                   DataOffset + i \in DOMAIN out' /\ out'[DataOffset + i] = Image(D)[i]
        PROVE  OutTypes' /\ Progress'
    <3>1. stage' = "done" /\ exit' = 0
      BY <2>4 DEF Passed
    <3>2. Copied(D, DataOffset, pos[D])'
      BY <2>3, <2>4 DEF Copied
    <3>3. OutTypes'
      BY <2>2, <3>1, NewTypes
    <3>4. "done" \notin Range(Setup) \cup {"loop", "header"}
      BY StagesDiffer
    <3>5. Kept(off, off + len(D))
      BY <2>4 DEF Passed
    <3>6. DataOffset <= off
      <4>1. Len(swap[D]) \in Nat
        BY <1>0, InvParts, SectionFacts
      <4> QED
        BY <1>0, <2>1, <4>1
    <3>7. TextCopied'
      BY <1>0, <2>2, <3>5, <3>6, TextStays
    <3>8. Progress'
      BY <3>1, <3>2, <3>4, <3>7, Zenon DEF Progress
    <3> QED
      BY <3>3, <3>8
  <2> QED
    BY <2>2, <2>4, FailedKeeps
<1> QED
  BY <1>1, <1>2 DEF EmitData

\* A step of main is a step of the loop over the lines, or leaves it alone.
LEMMA StepIsAssembly ==
  ASSUME [OutNext]_allvars
  PROVE  [Next]_vars
<1>1. \A k \in DOMAIN Setup : SetupCall(k) => UNCHANGED vars
  BY DEF SetupCall
<1>2. Loop => Next
  BY DEF Loop
<1>3. LoopFails \/ LoopEnds \/ SeekData \/ Returned => UNCHANGED vars
  BY DEF LoopFails, LoopEnds, SeekData, Returned, allvars
<1>4. WriteHeader \/ EmitText \/ EmitData => UNCHANGED vars
  BY DEF WriteHeader, EmitText, EmitData, CopySwap, WriteBuffer, Transfer
<1>5. UNCHANGED allvars => UNCHANGED vars
  BY DEF allvars
<1> QED
  BY <1>1, <1>2, <1>3, <1>4, <1>5 DEF OutNext

LEMMA OutInitInv == OutInit => OutInv
<1> SUFFICES ASSUME OutInit PROVE OutInv
  OBVIOUS
<1>1. Inv
  BY InitInv DEF OutInit
<1>2. SizeInFile
  <2>1. swap = [s \in Section |-> <<>>] /\ swap_size = [s \in Section |-> 0]
    BY DEF OutInit, Init, EmitterInit
  <2>2. Len(<<>>) = 0
    OBVIOUS
  <2> QED
    BY <2>1, <2>2 DEF SizeInFile
<1>3. stage = "argparse" /\ exit = -1 /\ off = 0
  BY DEF OutInit, Setup
<1>4. "argparse" \in Range(Setup)
  BY SetupStages
<1>5. out \in Seq(Cells)
  <2>1. PICK n \in OldSizes : out = [i \in 1 .. n |-> Cell("old")]
    BY DEF OutInit
  <2>2. n \in Nat /\ out \in [1 .. n -> Cells]
    BY <2>1, OldSizesAssumption DEF Cells
  <2> QED
    BY <2>2, FunctionIsSeq
<1>6. OutTypes
  BY <1>3, <1>4, <1>5 DEF OutTypes
<1>7. Progress
  <2>1. exit # 0
    BY <1>3
  <2> QED
    BY <1>3, <2>1, Zenon DEF Progress
<1> QED
  BY <1>1, <1>2, <1>6, <1>7 DEF OutInv

LEMMA OutNextInv ==
  ASSUME OutInv, [OutNext]_allvars
  PROVE  OutInv'
<1>1. Inv' /\ SizeInFile'
  BY StepIsAssembly, NextInv, SizeKept DEF OutInv
<1>2. ASSUME NEW k \in DOMAIN Setup, SetupCall(k)
      PROVE  OutTypes' /\ Progress'
  <2>1. UNCHANGED <<out, off>> /\ stage \in Range(Setup)
    BY <1>2, SetupStages DEF SetupCall
  <2>2. \/ exit' = exit /\ stage' \in Range(Setup) \cup {"loop", "header"}
        \/ Failed
    BY <1>2, SetupStages DEF SetupCall, Return, Failed
  <2> QED
    BY <2>1, <2>2, BeforeWrites
<1>3. CASE Loop
  <2>1. /\ UNCHANGED <<out, off>> /\ exit' = exit
        /\ stage \in Range(Setup) \cup {"loop"}
        /\ stage' \in Range(Setup) \cup {"loop", "header"}
    BY <1>3 DEF Loop, outvars
  <2> QED
    BY <1>1, <2>1, BeforeWrites DEF OutInv
<1>4. CASE LoopFails
  <2>1. UNCHANGED <<out, off>> /\ Failed
    BY <1>4 DEF LoopFails, Return, Failed
  <2> QED
    BY <1>1, <2>1, BeforeWrites DEF OutInv
<1>5. CASE LoopEnds
  <2>1. /\ UNCHANGED <<out, off>> /\ exit' = exit
        /\ stage \in Range(Setup) \cup {"loop"}
        /\ stage' \in Range(Setup) \cup {"loop", "header"}
    BY <1>5 DEF LoopEnds
  <2> QED
    BY <1>1, <2>1, BeforeWrites DEF OutInv
<1>6. CASE UNCHANGED allvars
  <2>1. UNCHANGED vars /\ UNCHANGED <<out, off, stage, exit>>
    BY <1>6 DEF allvars, outvars
  <2>2. Inv /\ SizeInFile /\ OutTypes /\ Progress
    BY DEF OutInv
  <2>3. /\ HasData' = HasData /\ after' = after /\ DataOffset' = DataOffset
        /\ TextFits' = TextFits /\ pos' = pos /\ swap' = swap
        /\ \A s \in Section : Image(s)' = Image(s)
    BY <2>1, <2>2, SameProgram, Zenon
  <2>4. OutTypes'
    BY <2>1, <2>2 DEF OutTypes
  <2>5. "SECT_TEXT" \in Section /\ "SECT_DATA" \in Section
    BY DEF Section
  <2>6. /\ Copied("SECT_TEXT", after, Len(swap["SECT_TEXT"]))'
             <=> Copied("SECT_TEXT", after, Len(swap["SECT_TEXT"]))
        /\ Copied("SECT_DATA", DataOffset, Len(swap["SECT_DATA"]))'
             <=> Copied("SECT_DATA", DataOffset, Len(swap["SECT_DATA"]))
        /\ Copied("SECT_DATA", DataOffset, pos["SECT_DATA"])'
             <=> Copied("SECT_DATA", DataOffset, pos["SECT_DATA"])
        /\ Copied("SECT_TEXT", after, pos["SECT_TEXT"])'
             <=> Copied("SECT_TEXT", after, pos["SECT_TEXT"])
    BY <2>1, <2>3, <2>5 DEF Copied
  <2>7. TextCopied' <=> TextCopied
    BY <2>3, <2>6 DEF TextCopied
  <2>8. Progress'
    BY <2>1, <2>2, <2>3, <2>6, <2>7, Zenon DEF Progress
  <2> QED
    BY <1>1, <2>4, <2>8 DEF OutInv
<1> QED
  BY <1>1, <1>2, <1>3, <1>4, <1>5, <1>6, HeaderKeeps, TextKeeps, SeekKeeps, DataKeeps
  DEF OutNext, Returned, OutInv

------------------------------------------------------------------------------
(* Theorems *)

(***************************************************************************)
(* The loop of main is module Assembler: whatever main does around it, and *)
(* whichever of its calls fail, every theorem about the assembler holds in *)
(* the whole program.                                                      *)
(***************************************************************************)
THEOREM ProgramAssembles == OutSpec => Spec
<1>1. OutInit => Init
  BY DEF OutInit
<1>2. [OutNext]_allvars => [Next]_vars
  BY StepIsAssembly
<1> QED
  BY <1>1, <1>2, PTL DEF OutSpec, Spec

(***************************************************************************)
(* Before each write the file is at the offset the write is meant for, and *)
(* what the earlier writes put there is still there.                       *)
(***************************************************************************)
THEOREM WritesInPlace == OutSpec => []OutInv
<1>1. OutInv /\ [OutNext]_allvars => OutInv'
  BY OutNextInv
<1> QED
  BY <1>1, OutInitInv, PTL DEF OutSpec

\* A loader that maps an executable that was written without an error finds
\* every byte of both segments at its place.
LEMMA ZeroLoads == OutInv => ZeroMeansLoaded
<1> SUFFICES ASSUME OutInv, exit = 0, TextFits, BasesAligned PROVE AllLoaded
  BY DEF ZeroMeansLoaded
<1>0. /\ Inv /\ TextCopied
      /\ HasData => Copied("SECT_DATA", DataOffset, pos["SECT_DATA"])
  BY DEF OutInv, Progress
<1>1. /\ after \in Nat /\ DataOffset \in Nat
      /\ \A s \in Section : pos[s] \in Nat /\ pos[s] <= RoundUp(pos[s])
                            /\ RoundUp(pos[s]) \in Nat /\ RoundUp(pos[s]) % PageSize = 0
      /\ after + pos["SECT_TEXT"] <= RoundUp(pos["SECT_TEXT"])
  BY <1>0, Places DEF TextFits
<1>2. \A s \in Section : vaddr[s] \in Nat /\ vaddr[s] % PageSize = 0
  BY VaddrAssumption DEF BasesAligned
<1>3. ASSUME NEW i \in 1 .. pos["SECT_TEXT"]
      PROVE  IsLoaded("SECT_TEXT", i)
  <2> DEFINE s == "SECT_TEXT"
             v == vaddr[s]
             p == pos[s]
             a == Base(s) + i - 1
  <2>1. s \in Section /\ Phdr(s).p_offset = 0 /\ Phdr(s).p_vaddr = v /\ Phdr(s).p_filesz = p
        /\ Base(s) = v + after
    BY DEF Section, Phdr, Base
  <2>2. v \in Nat /\ v % PageSize = 0 /\ p \in Nat /\ after + p <= RoundUp(p) /\ RoundUp(p) \in Nat
    BY <1>1, <1>2, <2>1
  <2>3. (0 - v) % PageSize = 0
    <3>1. 0 \in Nat /\ 0 % PageSize = 0
      BY SizesAssumption
    <3> QED
      BY <2>2, <3>1, PageDistance
  <2>4. after + i \in DOMAIN out /\ out[after + i] = Image(s)[i]
    BY <1>0 DEF TextCopied, Copied
  <2>5. i \in 1 .. p
    OBVIOUS
  <2> HIDE DEF s, v, p
  <2>6. v <= a /\ a < v + RoundUp(p) /\ 0 + a - v + 1 = after + i
    BY <1>1, <2>1, <2>2, <2>5
  <2>7. FileIndex(s, a) = after + i /\ Mapped(s, a)
    BY <2>1, <2>6 DEF FileIndex, Mapped, v
  <2> HIDE DEF a
  <2> QED
    BY <2>1, <2>3, <2>4, <2>7 DEF IsLoaded, a, s
<1>4. ASSUME HasData, NEW i \in 1 .. pos["SECT_DATA"]
      PROVE  IsLoaded("SECT_DATA", i)
  <2> DEFINE s == "SECT_DATA"
             v == vaddr[s]
             p == pos[s]
             a == Base(s) + i - 1
  <2>1. s \in Section /\ Phdr(s).p_offset = DataOffset /\ Phdr(s).p_vaddr = v
        /\ Phdr(s).p_filesz = p /\ Base(s) = v + 0
    BY DEF Section, Phdr, Base
  <2>2. v \in Nat /\ v % PageSize = 0 /\ p \in Nat /\ p <= RoundUp(p) /\ RoundUp(p) \in Nat
    BY <1>1, <1>2, <2>1
  <2>3. (DataOffset - v) % PageSize = 0
    <3>1. DataOffset % PageSize = 0
      BY <1>1 DEF DataOffset, Section
    <3> QED
      BY <1>1, <2>2, <3>1, PageDistance
  <2>4. DataOffset + i \in DOMAIN out /\ out[DataOffset + i] = Image(s)[i]
    BY <1>0, <1>4 DEF Copied
  <2>5. i \in 1 .. p
    OBVIOUS
  <2> HIDE DEF s, v, p
  <2>6. v <= a /\ a < v + RoundUp(p) /\ DataOffset + a - v + 1 = DataOffset + i
    BY <1>1, <2>1, <2>2, <2>5
  <2>7. FileIndex(s, a) = DataOffset + i /\ Mapped(s, a)
    BY <2>1, <2>6 DEF FileIndex, Mapped, v
  <2> HIDE DEF a
  <2> QED
    BY <2>1, <2>3, <2>4, <2>7 DEF IsLoaded, a, s
<1> QED
  BY <1>3, <1>4 DEF AllLoaded, Segments

(***************************************************************************)
(* main returns 0 only for an executable that loads as the program was     *)
(* assembled, if its text ends before its data's page.                     *)
(***************************************************************************)
THEOREM ZeroAlwaysLoads == OutSpec => []ZeroMeansLoaded
BY ZeroLoads, WritesInPlace, PTL
==============================================================================
