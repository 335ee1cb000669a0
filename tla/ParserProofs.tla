---------------------------- MODULE ParserProofs ----------------------------
(***************************************************************************)
(* Theorems about Parser, for every text: parse_line reads nothing behind  *)
(* the newline main appended but the byte that ends the run, an error is   *)
(* reported with the line it is in, and a text without strings is accepted *)
(* if and only if it can be cut into sentences, and then asks for what     *)
(* these mean.                                                             *)
(***************************************************************************)
EXTENDS Parser, FiniteSetTheorems, WellFoundedInduction, TLAPS

------------------------------------------------------------------------------
(* The inductive invariant *)

\* The newlines before place i.
Newlines(i) == {j \in 1 .. i - 1 : tok(j) = "NL"}

\* Things a line's plan may ask for.
Asked == {"reg", "imm", "label", "quote", ",", "(", ")"}

InLine == {"operands", "string", "end"}

Places ==
  /\ input \in Inputs
  /\ pc \in InLine \cup {"line", "accepted", "error"}
  /\ pos \in Nat /\ start \in Nat /\ 1 <= start /\ start <= pos
  /\ pc # "accepted" => start <= Len(input)
  /\ pc = "line" => pos = start
  /\ pc \in {"operands", "end"} => pos <= Len(input) + 1
  /\ pc = "string" => pos <= Len(input) + 2
  /\ line \in Nat /\ line <= start

PeakInside ==
  /\ peak \in Nat
  /\ peak <= Len(input) + 1 \/ (pc = "error" /\ peak = Len(input) + 2)

Comma == ","

\* What a number follows, maybe on the next line.
Announces == {",", ".byte", ".space"}

NumberNext == plan # <<>> /\ plan[1] = "imm"

\* A number stands first in its line's plan or behind a comma, and if it comes
\* next, what was read last is its directive or the comma.
PlanOK ==
  /\ plan \in Seq(Asked)
  /\ \A i \in 2 .. Len(plan) : plan[i] = "imm" => plan[i - 1] = Comma
  /\ pc = "operands" /\ NumberNext => pos > 1 /\ tok(pos - 1) \in Announces

\* The text in front has no line that is counted twice or not at all, only if
\* the line begun at start has no newline so far.
OneLine ==
  pc \in InLine /\ PlainUpTo(pos) => \A j \in start .. pos - 1 : tok(j) # "NL"

\* The line begins behind a newline, or behind blanks that do.
Begun == pc = "line" /\ PlainUpTo(start) => Before(start) = "NL"

\* main is at a blank of a line of blanks, which makes the count wrong.
InBlankLine == pc = "line" /\ tok(start) = "blank" /\ tok(Skip(start, Blank)) = "NL"

CountOK ==
  PlainUpTo(start) => line = 1 + Cardinality(Newlines(start)) \/ InBlankLine

ParserInv ==
  Places /\ PeakInside /\ PlanOK /\ OneLine /\ Begun /\ CountOK

------------------------------------------------------------------------------
(* The characters of a text *)

LEMMA Least ==
  ASSUME NEW S \in SUBSET Nat, S # {}
  PROVE  \E x \in S : \A y \in S : x <= y
<1> DEFINE R == OpToRel(<, Nat)
<1>1. IsWellFoundedOn(R, Nat)
  BY NatLessThanWellFounded, Zenon
<1>2. \A a, b \in Nat : a < b => <<a, b>> \in R
  BY DEF OpToRel
<1> HIDE DEF R
<1>3. PICK x \in S : \A y \in S : ~ (<<y, x>> \in R)
  BY <1>1, WFMin
<1>4. ASSUME NEW y \in S
      PROVE  x <= y
  <2>1. x \in Nat /\ y \in Nat
    OBVIOUS
  <2>2. ~ (y < x)
    BY <1>2, <1>3, <2>1
  <2> QED
    BY <2>1, <2>2
<1> QED
  BY <1>3, <1>4

LEMMA EndOfText ==
  ASSUME input \in Inputs
  PROVE  /\ Len(input) \in Nat
         /\ tok(Len(input) + 1) = "NL" /\ tok(Len(input) + 2) = "NUL"
         /\ Len(input) < MaxLine /\ MaxLine \in Nat
<1>1. input \in Seq(STRING) /\ Len(input) \in Nat
  BY InputsAssumption

<1> QED
  BY <1>1, MaxLineAssumption DEF tok

LEMMA Marks ==
  ASSUME NEW t, t \in Mark
  PROVE  t \notin Keyword /\ t \notin Register /\ t \notin Name /\ t \notin Number
BY WordsAssumption DEF Word

\* Skip ends, at the first character that is not one of S.
LEMMA SkipIs ==
  ASSUME input \in Inputs, NEW S, "NUL" \notin S, NEW i \in Nat, 1 <= i, i <= Len(input) + 2
  PROVE  /\ Skip(i, S) \in Nat /\ i <= Skip(i, S) /\ Skip(i, S) <= Len(input) + 2
         /\ tok(Skip(i, S)) \notin S
         /\ \A k \in i .. Skip(i, S) - 1 : tok(k) \in S
<1> DEFINE n == Len(input) + 2
           Out == {k \in i .. n : tok(k) \notin S}
           First(j) == tok(j) \notin S /\ \A k \in i .. j - 1 : tok(k) \in S
<1>1. n \in Nat /\ tok(n) \notin S
  BY EndOfText
<1> HIDE DEF n
<1>2. n \in Out /\ Out \in SUBSET Nat
  BY <1>1 DEF n
<1>3. PICK j \in Out : \A k \in Out : j <= k
  BY <1>2, Least
<1>4. j \in i .. n /\ First(j)
  <2>1. j \in i .. n /\ tok(j) \notin S
    BY <1>3
  <2>2. ASSUME NEW k \in i .. j - 1, tok(k) \notin S
        PROVE  FALSE
    <3>1. k \in i .. n /\ k < j
      BY <1>1, <2>1
    <3> QED
      BY <1>3, <2>2, <3>1
  <2> QED
    BY <2>1, <2>2
<1>5. Skip(i, S) = CHOOSE k \in i .. n : First(k)
  BY DEF Skip, n
<1> HIDE DEF First
<1>6. Skip(i, S) \in i .. n /\ First(Skip(i, S))
  BY <1>4, <1>5
<1> QED
  BY <1>1, <1>6 DEF First, n

\* A place whose character is neither the newline nor a zero is in the text.
LEMMA InText ==
  ASSUME input \in Inputs, NEW p \in Nat, p <= Len(input) + 2, tok(p) \notin {"NL", "NUL"}
  PROVE  p <= Len(input)
<1>1. p # Len(input) + 1 /\ p # Len(input) + 2 /\ Len(input) \in Nat
  BY EndOfText
<1> QED
  BY <1>1

LEMMA SkipBlanks ==
  ASSUME input \in Inputs, NEW i \in Nat, 1 <= i, i <= Len(input) + 1
  PROVE  /\ Skip(i, Blank) \in Nat /\ i <= Skip(i, Blank) /\ Skip(i, Blank) <= Len(input) + 1
         /\ tok(Skip(i, Blank)) # "blank"
         /\ \A k \in i .. Skip(i, Blank) - 1 : tok(k) = "blank"
<1> DEFINE p == Skip(i, Blank)
           n == Len(input)
<1>1. n \in Nat /\ tok(n + 1) = "NL"
  BY EndOfText
<1>2. /\ p \in Nat /\ i <= p /\ p <= n + 2 /\ tok(p) \notin Blank
      /\ \A k \in i .. p - 1 : tok(k) \in Blank
  <2>1. "NUL" \notin Blank /\ i <= n + 2
    BY <1>1 DEF Blank
  <2> QED
    BY <2>1, SkipIs
<1> HIDE DEF p, n
<1>3. ASSUME p = n + 2
      PROVE  FALSE
  <2>1. n + 1 \in i .. p - 1
    BY <1>1, <1>2, <1>3 DEF n
  <2> QED
    BY <1>1, <1>2, <2>1 DEF Blank
<1>4. p <= n + 1
  BY <1>1, <1>2, <1>3
<1> QED
  BY <1>2, <1>4 DEF p, n, Blank

------------------------------------------------------------------------------
(* The text before a place *)

\* Blanks do not change what is before.
LEMMA BeforeBlanks ==
  ASSUME NEW i \in Nat, NEW j \in Nat, 1 <= i, i <= j, \A k \in i .. j - 1 : tok(k) = "blank"
  PROVE  Before(j) = Before(i)
<1>1. {k \in 1 .. j - 1 : tok(k) # "blank"} = {k \in 1 .. i - 1 : tok(k) # "blank"}
  OBVIOUS
<1> QED
  BY <1>1 DEF Before

LEMMA BeforeIs ==
  ASSUME NEW i \in Nat, 1 <= i, tok(i) # "blank"
  PROVE  Before(i + 1) = tok(i)
<1> DEFINE S == {k \in 1 .. i : tok(k) # "blank"}
<1>1. i \in S /\ \A k \in S : k \in Nat /\ k <= i
  OBVIOUS
<1>2. (i + 1) - 1 = i
  OBVIOUS
<1>3. Before(i + 1) = tok(Max(S))
  BY <1>1, <1>2 DEF Before
<1> HIDE DEF S
<1>4. Max(S) \in S /\ \A k \in S : Max(S) >= k
  <2>1. \A k \in S : i >= k
    BY <1>1
  <2> QED
    BY <1>1, <2>1 DEF Max
<1>5. Max(S) = i
  <2> DEFINE m == Max(S)
  <2>1. m \in Nat /\ m <= i
    BY <1>1, <1>4
  <2>2. m >= i
    BY <1>1, <1>4
  <2> HIDE DEF m
  <2>3. m = i
    BY <2>1, <2>2
  <2> QED
    BY <2>3 DEF m
<1> QED
  BY <1>3, <1>5

LEMMA PlainPrefix ==
  ASSUME NEW i \in Nat, NEW j \in Nat, i <= j, PlainUpTo(j)
  PROVE  PlainUpTo(i)
<1>1. \A k \in 1 .. i - 1 : k \in 1 .. j - 1
  OBVIOUS
<1> QED
  BY <1>1, Zenon DEF PlainUpTo

\* From place i to the newline p there is one newline, at the end.
LEMMA OneMore ==
  ASSUME NEW i \in Nat, NEW p \in Nat, 1 <= i, i <= p, tok(p) = "NL",
         \A k \in i .. p - 1 : tok(k) # "NL"
  PROVE  /\ Cardinality(Newlines(p + 1)) = Cardinality(Newlines(i)) + 1
         /\ Cardinality(Newlines(i)) \in Nat
<1>1. Newlines(p + 1) = Newlines(i) \cup {p} /\ p \notin Newlines(i)
  BY DEF Newlines
<1>2. IsFiniteSet(Newlines(i))
  <2>1. IsFiniteSet(1 .. i - 1)
    BY FS_Interval
  <2>2. Newlines(i) \subseteq 1 .. i - 1
    BY DEF Newlines
  <2> QED
    BY <2>1, <2>2, FS_Subset
<1> QED
  BY <1>1, <1>2, FS_AddElement, FS_CardinalityType

\* Between blanks the number of newlines stays.
LEMMA NoMore ==
  ASSUME NEW i \in Nat, NEW j \in Nat, 1 <= i, i <= j, \A k \in i .. j - 1 : tok(k) # "NL"
  PROVE  Newlines(j) = Newlines(i)
BY DEF Newlines

------------------------------------------------------------------------------
(* Steps within a line, steps that fail, and steps to the next line *)

\* The text does not change, so what is said of a place stays so.
LEMMA SameText ==
  ASSUME input' = input
  PROVE  /\ \A j : tok(j)' = tok(j)
         /\ \A p : start' = p => /\ PlainUpTo(start)' <=> PlainUpTo(p)
                                 /\ Before(start)' = Before(p)
                                 /\ Newlines(start)' = Newlines(p)
                                 /\ tok(start)' = tok(p)
                                 /\ tok(Skip(start, Blank))' = tok(Skip(p, Blank))
         /\ \A q : pos' = q => /\ PlainUpTo(pos)' <=> PlainUpTo(q)
                               /\ tok(pos - 1)' = tok(q - 1)
<1>1. \A j : tok(j)' = tok(j)
  BY DEF tok
<1>2. ASSUME NEW p, start' = p
      PROVE  /\ PlainUpTo(start)' <=> PlainUpTo(p)
             /\ Before(start)' = Before(p)
             /\ Newlines(start)' = Newlines(p)
             /\ tok(start)' = tok(p)
             /\ tok(Skip(start, Blank))' = tok(Skip(p, Blank))
  BY <1>2 DEF PlainUpTo, Before, Newlines, tok, Skip, Blank
<1>3. ASSUME NEW q, pos' = q
      PROVE  /\ PlainUpTo(pos)' <=> PlainUpTo(q)
             /\ tok(pos - 1)' = tok(q - 1)
  BY <1>3 DEF PlainUpTo, Before, tok
<1> QED
  BY <1>1, <1>2, <1>3

\* If main is at a line, the line is not empty.
NotBlank == pc = "line" => tok(Skip(pos, Blank)) # "NL"

LEMMA CountStays ==
  ASSUME ParserInv, NotBlank, input' = input, start' = start, line' = line
  PROVE  CountOK'
<1>1. ~ InBlankLine
  BY DEF ParserInv, Places, NotBlank, InBlankLine
<1>2. PlainUpTo(start)' <=> PlainUpTo(start)
  BY SameText
<1>3. Newlines(start)' = Newlines(start)
  BY SameText
<1> QED
  BY <1>1, <1>2, <1>3 DEF ParserInv, CountOK

LEMMA PeakSeen ==
  ASSUME ParserInv, pc # "error", input' = input, NEW x \in Nat, Seen(x),
         x <= Len(input) + 1 \/ (x <= Len(input) + 2 /\ pc' = "error")
  PROVE  PeakInside'
<1>1. peak \in Nat /\ peak <= Len(input) + 1 /\ Len(input) \in Nat
  BY EndOfText DEF ParserInv, Places, PeakInside
<1>2. peak' = x \/ peak' = peak
  BY DEF Seen
<1> DEFINE n == Len(input)
<1>3. Len(input)' = n
  OBVIOUS
<1> HIDE DEF n
<1>4. peak' \in Nat /\ (peak' <= n + 1 \/ (pc' = "error" /\ peak' = n + 2))
  BY <1>1, <1>2 DEF n
<1> QED
  BY <1>3, <1>4 DEF PeakInside

LEMMA Fails ==
  ASSUME ParserInv, NotBlank, pc # "error", pc # "accepted", input' = input, Fail,
         NEW x \in Nat, x <= Len(input) + 2, Seen(x)
  PROVE  ParserInv'
<1>1. CountOK'
  BY CountStays DEF Fail
<1>2. PeakInside'
  BY PeakSeen DEF Fail
<1>3. Places'
  BY DEF ParserInv, Places, Fail, InLine
<1>4. PlanOK'
  BY DEF ParserInv, PlanOK, Fail
<1>5. OneLine' /\ Begun'
  BY DEF OneLine, Begun, Fail, InLine
<1> QED
  BY <1>1, <1>2, <1>3, <1>4, <1>5 DEF ParserInv

\* A step within a line to place q, with no newline on the way, if the text
\* in front of q is plain.
LEMMA Within ==
  ASSUME ParserInv, NotBlank, pc \in InLine \cup {"line"}, pc' \in InLine,
         input' = input, start' = start, line' = line,
         NEW q \in Nat, pos' = q, pos <= q,
         q <= Len(input) + 1 \/ (pc' = "string" /\ q <= Len(input) + 2),
         PlainUpTo(q) => \A j \in pos .. q - 1 : tok(j) # "NL",
         PlanOK', PeakInside'
  PROVE  ParserInv'
<1>1. CountOK'
  BY CountStays
<1>2. Places'
  <2>1. pos \in Nat /\ start \in Nat /\ Len(input) \in Nat
    BY EndOfText DEF ParserInv, Places
  <2> QED
    BY <2>1 DEF ParserInv, Places, InLine
<1>3. OneLine'
  <2> SUFFICES ASSUME PlainUpTo(pos)', NEW j \in start .. q - 1
               PROVE  tok(j)' # "NL"
    BY DEF OneLine
  <2>1. PlainUpTo(q) /\ tok(j)' = tok(j)
    BY SameText
  <2>2. pos \in Nat /\ start \in Nat /\ start <= pos
    BY DEF ParserInv, Places
  <2>3. CASE j >= pos
    BY <2>1, <2>2, <2>3
  <2>4. CASE j < pos
    <3>1. j \in start .. pos - 1
      BY <2>2, <2>4
    <3>2. PlainUpTo(pos)
      BY <2>1, <2>2, PlainPrefix
    <3>3. pc \in InLine
      BY <3>1, <2>2 DEF ParserInv, Places
    <3> QED
      BY <2>1, <3>1, <3>2, <3>3 DEF ParserInv, OneLine
  <2> QED
    BY <2>2, <2>3, <2>4
<1>4. Begun'
  BY DEF Begun, InLine
<1> QED
  BY <1>1, <1>2, <1>3, <1>4 DEF ParserInv

\* A newline ends the line that start began, and the text goes on at q.
LEMMA ToNextLine ==
  ASSUME ParserInv, pc # "error", pc # "accepted", input' = input, NEW q \in Nat, NextLine(q),
         start < q, q <= Len(input) + 2, PeakInside',
         PlainUpTo(q) => /\ q <= Len(input) => Before(q) = "NL"
                         /\ \/ InBlankLine'
                            \/ line + 1 = 1 + Cardinality(Newlines(q))
  PROVE  ParserInv'
<1>1. /\ pos' = q /\ start' = q /\ pc' = AfterLine(q)
      /\ UNCHANGED <<kw, plan, args, events>>
  BY DEF NextLine
<1>2. line' = line + 1
  <2>1. line \in Nat /\ start \in Nat /\ line <= start /\ start <= Len(input)
    BY DEF ParserInv, Places
  <2>2. line < MaxLine
    BY <2>1, EndOfText DEF ParserInv, Places
  <2> QED
    BY <2>2 DEF NextLine, Counted
<1>3. Places'
  BY <1>1, <1>2, EndOfText DEF ParserInv, Places, AfterLine, InLine
<1>4. PlanOK'
  BY <1>1 DEF ParserInv, PlanOK, AfterLine
<1>5. OneLine'
  BY <1>1 DEF OneLine, AfterLine, InLine
<1>6. Begun'
  <2> SUFFICES ASSUME pc' = "line", PlainUpTo(start)'
               PROVE  Before(start)' = "NL"
    BY DEF Begun
  <2>1. PlainUpTo(q) /\ Before(start)' = Before(q)
    BY <1>1, SameText
  <2>2. q <= Len(input)
    BY <1>1 DEF AfterLine
  <2> QED
    BY <2>1, <2>2
<1>7. CountOK'
  <2> SUFFICES ASSUME PlainUpTo(start)', ~ InBlankLine'
               PROVE  line' = 1 + Cardinality(Newlines(start)')
    BY DEF CountOK
  <2>1. PlainUpTo(q) /\ Newlines(start)' = Newlines(q)
    BY <1>1, SameText
  <2> QED
    BY <1>2, <2>1
<1> QED
  BY <1>3, <1>4, <1>5, <1>6, <1>7 DEF ParserInv

------------------------------------------------------------------------------
(* Action by action *)

LEMMA Plans ==
  \A k \in Keyword :
    /\ Shape[k] \in Seq(Asked)
    /\ \A i \in 2 .. Len(Shape[k]) : Shape[k][i] = "imm" => Shape[k][i - 1] = Comma
    /\ Shape[k] # <<>> /\ Shape[k][1] = "imm" => k \in {".space", ".byte"}
<1> SUFFICES ASSUME NEW k \in Keyword
             PROVE  /\ Shape[k] \in Seq(Asked)
                    /\ \A i \in 2 .. Len(Shape[k]) : Shape[k][i] = "imm" => Shape[k][i - 1] = Comma
                    /\ Shape[k] # <<>> /\ Shape[k][1] = "imm" => k \in {".space", ".byte"}
  OBVIOUS
<1>0. ASSUME NEW p, p \in Seq(Asked), Shape[k] = p,
             \A i \in 2 .. Len(p) : p[i] = "imm" => p[i - 1] = Comma,
             p # <<>> /\ p[1] = "imm" => k \in {".space", ".byte"}
      PROVE  /\ Shape[k] \in Seq(Asked)
             /\ \A i \in 2 .. Len(Shape[k]) : Shape[k][i] = "imm" => Shape[k][i - 1] = Comma
             /\ Shape[k] # <<>> /\ Shape[k][1] = "imm" => k \in {".space", ".byte"}
  BY <1>0
<1>1. CASE k = "add"
  <2> DEFINE p == <<"reg", ",", "reg", ",", "reg">>
  <2>1. Shape[k] = p
    BY <1>1 DEF Shape, Keyword
  <2>2. p \in Seq(Asked) /\ Len(p) = 5
    BY DEF Asked
  <2>3. p[1] = "reg" /\ p[2] = "," /\ p[3] = "reg" /\ p[4] = "," /\ p[5] = "reg"
    OBVIOUS
  <2>4. \A i \in 2 .. 5 : (i = 2 /\ i - 1 = 1) \/ (i = 3 /\ i - 1 = 2)
                          \/ (i = 4 /\ i - 1 = 3) \/ (i = 5 /\ i - 1 = 4)
    OBVIOUS
  <2> HIDE DEF p
  <2>5. \A i \in 2 .. 5 : p[i] = "imm" => p[i - 1] = Comma
    BY <2>3, <2>4 DEF Comma
  <2> QED
    BY <1>0, <2>1, <2>2, <2>3, <2>5
<1>2. CASE k \in {"addi", "slli"}
  <2> DEFINE p == <<"reg", ",", "reg", ",", "imm">>
  <2>1. Shape[k] = p
    BY <1>2 DEF Shape, Keyword
  <2>2. p \in Seq(Asked) /\ Len(p) = 5
    BY DEF Asked
  <2>3. p[1] = "reg" /\ p[2] = "," /\ p[3] = "reg" /\ p[4] = "," /\ p[5] = "imm"
    OBVIOUS
  <2>4. \A i \in 2 .. 5 : (i = 2 /\ i - 1 = 1) \/ (i = 3 /\ i - 1 = 2)
                          \/ (i = 4 /\ i - 1 = 3) \/ (i = 5 /\ i - 1 = 4)
    OBVIOUS
  <2> HIDE DEF p
  <2>5. \A i \in 2 .. 5 : p[i] = "imm" => p[i - 1] = Comma
    BY <2>3, <2>4 DEF Comma
  <2> QED
    BY <1>0, <2>1, <2>2, <2>3, <2>5
<1>3. CASE k \in {"lw", "sw"}
  <2> DEFINE p == <<"reg", ",", "imm", "(", "reg", ")">>
  <2>1. Shape[k] = p
    BY <1>3 DEF Shape, Keyword
  <2>2. p \in Seq(Asked) /\ Len(p) = 6
    BY DEF Asked
  <2>3. p[1] = "reg" /\ p[2] = "," /\ p[3] = "imm" /\ p[4] = "(" /\ p[5] = "reg" /\ p[6] = ")"
    OBVIOUS
  <2>4. \A i \in 2 .. 6 : (i = 2 /\ i - 1 = 1) \/ (i = 3 /\ i - 1 = 2)
                          \/ (i = 4 /\ i - 1 = 3) \/ (i = 5 /\ i - 1 = 4) \/ (i = 6 /\ i - 1 = 5)
    OBVIOUS
  <2> HIDE DEF p
  <2>5. \A i \in 2 .. 6 : p[i] = "imm" => p[i - 1] = Comma
    BY <2>3, <2>4 DEF Comma
  <2> QED
    BY <1>0, <2>1, <2>2, <2>3, <2>5
<1>4. CASE k = "beq"
  <2> DEFINE p == <<"reg", ",", "reg", ",", "label">>
  <2>1. Shape[k] = p
    BY <1>4 DEF Shape, Keyword
  <2>2. p \in Seq(Asked) /\ Len(p) = 5
    BY DEF Asked
  <2>3. p[1] = "reg" /\ p[2] = "," /\ p[3] = "reg" /\ p[4] = "," /\ p[5] = "label"
    OBVIOUS
  <2>4. \A i \in 2 .. 5 : (i = 2 /\ i - 1 = 1) \/ (i = 3 /\ i - 1 = 2)
                          \/ (i = 4 /\ i - 1 = 3) \/ (i = 5 /\ i - 1 = 4)
    OBVIOUS
  <2> HIDE DEF p
  <2>5. \A i \in 2 .. 5 : p[i] = "imm" => p[i - 1] = Comma
    BY <2>3, <2>4 DEF Comma
  <2> QED
    BY <1>0, <2>1, <2>2, <2>3, <2>5
<1>5. CASE k = "jal"
  <2> DEFINE p == <<"reg", ",", "label">>
  <2>1. Shape[k] = p
    BY <1>5 DEF Shape, Keyword
  <2>2. p \in Seq(Asked) /\ Len(p) = 3
    BY DEF Asked
  <2>3. p[1] = "reg" /\ p[2] = "," /\ p[3] = "label"
    OBVIOUS
  <2>4. \A i \in 2 .. 3 : (i = 2 /\ i - 1 = 1) \/ (i = 3 /\ i - 1 = 2)
    OBVIOUS
  <2> HIDE DEF p
  <2>5. \A i \in 2 .. 3 : p[i] = "imm" => p[i - 1] = Comma
    BY <2>3, <2>4 DEF Comma
  <2> QED
    BY <1>0, <2>1, <2>2, <2>3, <2>5
<1>6. CASE k = "lui"
  <2> DEFINE p == <<"reg", ",", "imm">>
  <2>1. Shape[k] = p
    BY <1>6 DEF Shape, Keyword
  <2>2. p \in Seq(Asked) /\ Len(p) = 3
    BY DEF Asked
  <2>3. p[1] = "reg" /\ p[2] = "," /\ p[3] = "imm"
    OBVIOUS
  <2>4. \A i \in 2 .. 3 : (i = 2 /\ i - 1 = 1) \/ (i = 3 /\ i - 1 = 2)
    OBVIOUS
  <2> HIDE DEF p
  <2>5. \A i \in 2 .. 3 : p[i] = "imm" => p[i - 1] = Comma
    BY <2>3, <2>4 DEF Comma
  <2> QED
    BY <1>0, <2>1, <2>2, <2>3, <2>5
<1>7. CASE k \in {".space", ".byte"}
  <2> DEFINE p == <<"imm">>
  <2>1. Shape[k] = p
    BY <1>7 DEF Shape, Keyword
  <2>2. p \in Seq(Asked) /\ Len(p) = 1
    BY DEF Asked
  <2>3. p[1] = "imm" => k \in {".space", ".byte"}
    BY <1>7
  <2>4. 2 .. 1 = {}
    OBVIOUS
  <2> HIDE DEF p
  <2> QED
    BY <1>0, <2>1, <2>2, <2>3, <2>4
<1>8. CASE k = ".ascii"
  <2> DEFINE p == <<"quote">>
  <2>1. Shape[k] = p
    BY <1>8 DEF Shape, Keyword
  <2>2. p \in Seq(Asked) /\ Len(p) = 1
    BY DEF Asked
  <2>3. p[1] = "imm" => k \in {".space", ".byte"}
    BY <1>8
  <2>4. 2 .. 1 = {}
    OBVIOUS
  <2> HIDE DEF p
  <2> QED
    BY <1>0, <2>1, <2>2, <2>3, <2>4
<1>9. CASE k \in {"ecall", ".text", ".data"}
  <2> DEFINE p == <<>>
  <2>1. Shape[k] = p
    BY <1>9 DEF Shape, Keyword
  <2>2. p \in Seq(Asked) /\ Len(p) = 0
    BY DEF Asked
  <2> QED
    BY <2>1, <2>2
<1> QED
  BY <1>1, <1>2, <1>3, <1>4, <1>5, <1>6, <1>7, <1>8, <1>9 DEF Keyword

\* From the next blank on, the same character is found.
LEMMA SkipNext ==
  ASSUME input \in Inputs, NEW i \in Nat, 1 <= i, i <= Len(input), i + 1 <= Skip(i, Blank)
  PROVE  Skip(i + 1, Blank) = Skip(i, Blank)
<1> DEFINE p == Skip(i, Blank)
           q == Skip(i + 1, Blank)
<1>1. Len(input) \in Nat
  BY EndOfText
<1>2. p \in Nat /\ i <= p /\ tok(p) # "blank" /\ \A k \in i .. p - 1 : tok(k) = "blank"
  BY <1>1, SkipBlanks
<1>3. q \in Nat /\ i + 1 <= q /\ tok(q) # "blank" /\ \A k \in i + 1 .. q - 1 : tok(k) = "blank"
  BY <1>1, SkipBlanks
<1>4. i + 1 <= p
  OBVIOUS
<1> HIDE DEF p, q
<1>5. ~ (q < p) /\ ~ (p < q)
  <2>1. ASSUME q < p PROVE FALSE
    BY <1>2, <1>3, <2>1
  <2>2. ASSUME p < q PROVE FALSE
    BY <1>2, <1>3, <1>4, <2>2
  <2> QED
    BY <2>1, <2>2
<1>6. p = q
  BY <1>2, <1>3, <1>5
<1> QED
  BY <1>6 DEF p, q

LEMMA BlankLineKeeps == ParserInv /\ BlankLine => ParserInv'
<1> SUFFICES ASSUME ParserInv, BlankLine PROVE ParserInv'
  OBVIOUS
<1> DEFINE p == Skip(pos, Blank)
           q == pos + 1
<1>1. /\ input \in Inputs /\ input' = input /\ pc = "line" /\ pos = start
      /\ start \in Nat /\ 1 <= start /\ start <= Len(input) /\ Len(input) \in Nat
  BY EndOfText DEF ParserInv, Places, BlankLine
<1>2. /\ p \in Nat /\ pos <= p /\ p <= Len(input) + 1
      /\ \A k \in pos .. p - 1 : tok(k) = "blank"
  BY <1>1, SkipBlanks
<1>3. tok(p) = "NL" /\ NextLine(q) /\ Seen(p)
  BY DEF BlankLine, Step
<1>4. PeakInside'
  BY <1>1, <1>2, <1>3, PeakSeen
<1>5. CASE p = pos
  <2>1. tok(start) = "NL"
    BY <1>1, <1>3, <1>5
  <2>2. Before(q) = "NL"
    BY <1>1, <2>1, BeforeIs
  <2>3. ASSUME PlainUpTo(q)
        PROVE  line + 1 = 1 + Cardinality(Newlines(q))
    <3>1. PlainUpTo(start)
      BY <1>1, <2>3, PlainPrefix
    <3>2. line = 1 + Cardinality(Newlines(start))
      BY <2>1, <3>1 DEF ParserInv, CountOK, InBlankLine
    <3>3. /\ Cardinality(Newlines(q)) = Cardinality(Newlines(start)) + 1
          /\ Cardinality(Newlines(start)) \in Nat
      BY <1>1, <2>1, OneMore
    <3> QED
      BY <3>2, <3>3
  <2> QED
    BY <1>1, <1>3, <1>4, <2>2, <2>3, ToNextLine
<1>6. CASE pos < p
  <2>1. tok(start) = "blank"
    BY <1>1, <1>2, <1>6
  <2>2. ASSUME PlainUpTo(q)
        PROVE  Before(q) = "NL" /\ InBlankLine'
    <3>1. Before(q) = Before(start) /\ Before(start) = "NL"
      <4>1. PlainUpTo(start)
        BY <1>1, <2>2, PlainPrefix
      <4>2. \A k \in start .. q - 1 : tok(k) = "blank"
        BY <1>1, <2>1
      <4> QED
        BY <1>1, <4>1, <4>2, BeforeBlanks DEF ParserInv, Begun
    <3>2. q # p
      <4>1. start \in 1 .. q - 1 /\ start + 1 = q
        BY <1>1
      <4>2. tok(q) # "NL"
        BY <2>1, <2>2, <3>1, <4>1 DEF PlainUpTo
      <4> QED
        BY <1>3, <4>2
    <3>3. q \in pos .. p - 1 /\ q <= Len(input)
      BY <1>1, <1>2, <1>6, <3>2
    <3>4. pc' = "line" /\ start' = q
      BY <1>3, <3>3 DEF NextLine, AfterLine
    <3>5. tok(start)' = tok(q) /\ tok(Skip(start, Blank))' = tok(Skip(q, Blank))
      BY <1>1, <3>4, SameText
    <3>6. tok(q) = "blank" /\ Skip(q, Blank) = p
      BY <1>1, <1>2, <1>6, <3>3, SkipNext
    <3> QED
      BY <1>3, <3>1, <3>4, <3>5, <3>6 DEF InBlankLine
  <2> QED
    BY <1>1, <1>3, <1>4, <2>2, ToNextLine
<1> QED
  BY <1>1, <1>2, <1>5, <1>6

LEMMA EndOfLineKeeps == ParserInv /\ EndOfLine => ParserInv'
<1> SUFFICES ASSUME ParserInv, EndOfLine PROVE ParserInv'
  OBVIOUS
<1> DEFINE p == Skip(pos, Blank)
           q == p + 1
<1>1. /\ input \in Inputs /\ input' = input /\ pc = "end" /\ NotBlank
      /\ pos \in Nat /\ 1 <= pos /\ pos <= Len(input) + 1 /\ Len(input) \in Nat
      /\ start \in Nat /\ 1 <= start /\ start <= pos
  BY EndOfText DEF ParserInv, Places, EndOfLine, NotBlank
<1>2. /\ p \in Nat /\ pos <= p /\ p <= Len(input) + 1 /\ tok(p) # "blank"
      /\ \A k \in pos .. p - 1 : tok(k) = "blank"
  BY <1>1, SkipBlanks
<1>3. Seen(p)
  BY DEF EndOfLine
<1>4. PeakInside'
  BY <1>1, <1>2, <1>3, PeakSeen
<1>5. CASE tok(p) \in {"NL", "NUL"} /\ NextLine(q)
  <2>1. ASSUME PlainUpTo(q)
        PROVE  /\ Before(q) = "NL"
               /\ line + 1 = 1 + Cardinality(Newlines(q))
    <3>1. tok(p) = "NL"
      <4>1. p \in 1 .. q - 1
        BY <1>1, <1>2
      <4> QED
        BY <1>5, <2>1, <4>1 DEF PlainUpTo
    <3>2. Before(q) = "NL"
      BY <1>1, <1>2, <3>1, BeforeIs
    <3>3. PlainUpTo(start) /\ PlainUpTo(pos)
      BY <1>1, <1>2, <2>1, PlainPrefix
    <3>4. line = 1 + Cardinality(Newlines(start))
      BY <1>1, <3>3 DEF ParserInv, CountOK, InBlankLine
    <3>5. ASSUME NEW k \in start .. p - 1
          PROVE  tok(k) # "NL"
      <4>1. CASE k < pos
        <5>1. k \in start .. pos - 1
          BY <1>1, <4>1
        <5> QED
          BY <1>1, <3>3, <5>1 DEF ParserInv, OneLine, InLine
      <4>2. CASE k >= pos
        BY <1>1, <1>2, <4>2
      <4> QED
        BY <1>1, <4>1, <4>2
    <3>6. /\ Cardinality(Newlines(q)) = Cardinality(Newlines(start)) + 1
          /\ Cardinality(Newlines(start)) \in Nat
      BY <1>1, <1>2, <3>1, <3>5, OneMore
    <3> QED
      BY <3>2, <3>4, <3>6
  <2>2. q \in Nat /\ start < q /\ q <= Len(input) + 2
    BY <1>1, <1>2
  <2> QED
    BY <1>1, <1>4, <1>5, <2>1, <2>2, ToNextLine
<1>6. CASE tok(p) \notin {"NL", "NUL"} /\ Fail
  <2>1. p <= Len(input) + 2
    BY <1>1, <1>2
  <2> QED
    BY <1>1, <1>2, <1>3, <1>6, <2>1, Fails
<1> QED
  BY <1>5, <1>6 DEF EndOfLine

\* What a line is made of is in the text, and no newline.
LEMMA Token ==
  ASSUME input \in Inputs, NEW p \in Nat, p <= Len(input) + 2,
         tok(p) \in Word \cup {",", "(", ")", ":", "quote", "backslash"}
  PROVE  p <= Len(input) /\ tok(p) # "NL" /\ tok(p) # "NUL" /\ tok(p) # "blank"
<1>1. tok(p) \notin {"NL", "NUL", "blank"}
  BY WordsAssumption DEF Mark
<1> QED
  BY <1>1, InText

LEMMA KeywordLineKeeps == ParserInv /\ KeywordLine => ParserInv'
<1> SUFFICES ASSUME ParserInv, KeywordLine PROVE ParserInv'
  OBVIOUS
<1> DEFINE p == Skip(pos, Blank)
           q == p + 1
<1>1. /\ input \in Inputs /\ input' = input /\ pc = "line" /\ pos = start
      /\ start \in Nat /\ 1 <= start /\ start <= Len(input) /\ Len(input) \in Nat
  BY EndOfText DEF ParserInv, Places, KeywordLine
<1>2. /\ p \in Nat /\ pos <= p /\ p <= Len(input) + 1
      /\ \A k \in pos .. p - 1 : tok(k) = "blank"
  BY <1>1, SkipBlanks
<1>3. /\ tok(p) \in Keyword /\ plan' = Shape[tok(p)] /\ pos' = q /\ pc' = "operands" /\ Seen(p)
      /\ start' = start /\ line' = line
  BY DEF KeywordLine
<1>4. p <= Len(input) /\ tok(p) # "NL"
  <2>1. p <= Len(input) + 2 /\ tok(p) \in Word
    BY <1>1, <1>2, <1>3 DEF Word
  <2> QED
    BY <1>1, <1>2, <2>1, Token
<1>5. PlanOK'
  <2>1. tok(pos - 1)' = tok(p)
    <3>1. q - 1 = p
      BY <1>2
    <3> QED
      BY <1>1, <1>3, <3>1, SameText
  <2>2. pos' > 1
    BY <1>1, <1>2, <1>3
  <2> HIDE DEF p, q
  <2>3. /\ plan' \in Seq(Asked)
        /\ \A i \in 2 .. Len(plan') : plan'[i] = "imm" => plan'[i - 1] = Comma
        /\ plan' # <<>> /\ plan'[1] = "imm" => tok(p) \in {".space", ".byte"}
    <3> DEFINE s == Shape[tok(p)]
    <3>1. /\ s \in Seq(Asked)
          /\ \A i \in 2 .. Len(s) : s[i] = "imm" => s[i - 1] = Comma
          /\ s # <<>> /\ s[1] = "imm" => tok(p) \in {".space", ".byte"}
      BY <1>3, Plans
    <3>2. plan' = s
      BY <1>3
    <3> HIDE DEF s
    <3> QED
      BY <3>1, <3>2, Zenon
  <2>4. NumberNext' => tok(pos - 1)' \in Announces
    <3>1. NumberNext' => tok(p) \in Announces
      BY <2>3, Zenon DEF NumberNext, Announces
    <3> QED
      BY <2>1, <3>1
  <2> QED
    BY <2>2, <2>3, <2>4 DEF PlanOK
<1>6. PeakInside'
  BY <1>1, <1>2, <1>3, PeakSeen
<1>7. \A j \in pos .. q - 1 : tok(j) # "NL"
  <2>1. \A j \in pos .. q - 1 : j = p \/ j \in pos .. p - 1
    BY <1>1, <1>2
  <2> QED
    BY <1>2, <1>4, <2>1
<1>8. NotBlank /\ q \in Nat /\ pos <= q /\ q <= Len(input) + 1
  BY <1>1, <1>2, <1>4 DEF NotBlank
<1> HIDE DEF q
<1> QED
  BY <1>1, <1>3, <1>5, <1>6, <1>7, <1>8, Within DEF InLine

LEMMA LabelLineKeeps == ParserInv /\ LabelLine => ParserInv'
<1> SUFFICES ASSUME ParserInv, LabelLine PROVE ParserInv'
  OBVIOUS
<1> DEFINE p == Skip(pos, Blank)
           q == Skip(p + 1, Blank)
           r == q + 1
<1>1. /\ input \in Inputs /\ input' = input /\ pc = "line" /\ pos = start
      /\ start \in Nat /\ 1 <= start /\ start <= Len(input) /\ Len(input) \in Nat
  BY EndOfText DEF ParserInv, Places, LabelLine
<1>2. /\ p \in Nat /\ pos <= p /\ p <= Len(input) + 1
      /\ \A k \in pos .. p - 1 : tok(k) = "blank"
  BY <1>1, SkipBlanks
<1>3. NotBlank
  BY DEF LabelLine, NotBlank
<1>4. IsIdentifier(tok(p)) =>
        /\ p <= Len(input) /\ tok(p) # "NL"
        /\ q \in Nat /\ p + 1 <= q /\ q <= Len(input) + 1
        /\ \A k \in p + 1 .. q - 1 : tok(k) = "blank"
  <2> SUFFICES ASSUME tok(p) \in Word
               PROVE  /\ p <= Len(input) /\ tok(p) # "NL"
                      /\ q \in Nat /\ p + 1 <= q /\ q <= Len(input) + 1
                      /\ \A k \in p + 1 .. q - 1 : tok(k) = "blank"
    BY DEF IsIdentifier
  <2>1. p <= Len(input) + 2
    BY <1>1, <1>2
  <2>2. p <= Len(input) /\ tok(p) # "NL"
    BY <1>1, <1>2, <2>1, Token
  <2>3. p + 1 \in Nat /\ 1 <= p + 1 /\ p + 1 <= Len(input) + 1
    BY <1>1, <1>2, <2>2
  <2> HIDE DEF p
  <2> QED
    BY <1>1, <2>2, <2>3, SkipBlanks
<1>5. CASE /\ IsIdentifier(tok(p)) /\ tok(q) = ":" /\ pos' = r /\ pc' = "end" /\ Seen(q)
           /\ UNCHANGED <<line, kw, plan, args, start>>
  <2>1. q <= Len(input)
    <3>1. q <= Len(input) + 2
      BY <1>1, <1>4, <1>5
    <3> QED
      BY <1>1, <1>4, <1>5, <3>1, Token
  <2>2. PlanOK'
    BY <1>5 DEF ParserInv, PlanOK
  <2>3. PeakInside'
    BY <1>1, <1>4, <1>5, PeakSeen
  <2>4. \A j \in pos .. r - 1 : tok(j) # "NL"
    <3>1. \A j \in pos .. r - 1 : j = p \/ j = q \/ j \in pos .. p - 1 \/ j \in p + 1 .. q - 1
      BY <1>1, <1>2, <1>4, <1>5
    <3> QED
      BY <1>2, <1>4, <1>5, <3>1
  <2>5. r \in Nat /\ pos <= r /\ r <= Len(input) + 1
    BY <1>1, <1>2, <1>4, <1>5, <2>1
  <2> HIDE DEF r
  <2> QED
    BY <1>1, <1>3, <1>5, <2>2, <2>3, <2>4, <2>5, Within DEF InLine
<1>6. CASE Fail /\ Seen(IF IsIdentifier(tok(p)) THEN q ELSE p)
  <2> DEFINE x == IF IsIdentifier(tok(p)) THEN q ELSE p
  <2>1. x \in Nat /\ x <= Len(input) + 2
    BY <1>1, <1>2, <1>4
  <2> HIDE DEF x
  <2> QED
    BY <1>1, <1>3, <1>6, <2>1, Fails DEF x
<1> QED
  BY <1>5, <1>6 DEF LabelLine

LEMMA Announcing ==
  ASSUME NEW t, t \in Announces
  PROVE  t # "blank" /\ t # "NL"
BY Zenon DEF Announces

LEMMA PlainNewline ==
  ASSUME NEW i \in Nat, NEW j \in 1 .. i - 1, PlainUpTo(i), tok(j) = "NL"
  PROVE  Before(j) \notin Announces /\ Before(j) # "backslash"
BY Zenon DEF PlainUpTo, Announces

LEMMA FitsIs ==
  ASSUME NEW item \in Asked, NEW t, Fits(kw, item, t)
  PROVE  /\ t \in Word \cup {",", "(", ")", "quote"}
         /\ item = "," => t = ","
         /\ item = "imm" => t \in Word
BY DEF Fits, Asked, IsIdentifier, Word

\* White space in front of a number is blank, or the text is not plain.
LEMMA NumberOnLine ==
  ASSUME NEW i \in Nat, i > 1, tok(i - 1) \in Announces,
         NEW p \in Nat, i <= p, \A k \in i .. p - 1 : tok(k) \in CSpace,
         PlainUpTo(p + 1)
  PROVE  \A k \in i .. p - 1 : tok(k) # "NL"
<1> DEFINE S == {k \in i .. p - 1 : tok(k) = "NL"}
<1> SUFFICES ASSUME NEW o \in i .. p - 1, tok(o) = "NL" PROVE FALSE
  OBVIOUS
<1>2. PICK m \in S : \A k \in S : m <= k
  <2>1. S \in SUBSET Nat /\ S # {}
    OBVIOUS
  <2> HIDE DEF S
  <2> QED
    BY <2>1, Least
<1>3. m \in Nat /\ i <= m /\ m <= p - 1 /\ tok(m) = "NL"
  BY <1>2
<1>4. \A k \in i .. m - 1 : tok(k) = "blank"
  <2> TAKE k \in i .. m - 1
  <2>1. k \in i .. p - 1 /\ k < m /\ k \in Nat
    BY <1>3
  <2>2. k \notin S
    BY <1>2, <1>3, <2>1
  <2> QED
    BY <2>1, <2>2 DEF CSpace
<1>5. Before(m) = Before(i)
  BY <1>3, <1>4, BeforeBlanks
<1>6. Before(i) = tok(i - 1)
  <2> DEFINE j == i - 1
  <2>1. j \in Nat /\ 1 <= j /\ j + 1 = i /\ tok(j) # "blank"
    BY Announcing
  <2> HIDE DEF j
  <2>2. Before(j + 1) = tok(j)
    BY <2>1, BeforeIs
  <2> QED
    BY <2>1, <2>2 DEF j
<1>7. m \in 1 .. (p + 1) - 1 /\ p + 1 \in Nat
  BY <1>3
<1>8. Before(m) \notin Announces
  BY <1>3, <1>7, PlainNewline, Zenon
<1> QED
  BY <1>5, <1>6, <1>8

LEMMA Lists ==
  ASSUME NEW s \in Seq(Asked), s # <<>>
  PROVE  /\ Head(s) = s[1] /\ Head(s) \in Asked /\ Len(s) \in Nat
         /\ Tail(s) \in Seq(Asked) /\ Len(Tail(s)) = Len(s) - 1
         /\ \A i \in 1 .. Len(s) - 1 : Tail(s)[i] = s[i + 1]
OBVIOUS

LEMMA Shifted ==
  ASSUME NEW s \in Seq(Asked), NEW t \in Seq(Asked), Len(t) = Len(s) - 1,
         \A i \in 1 .. Len(s) - 1 : t[i] = s[i + 1],
         \A i \in 2 .. Len(s) : s[i] = "imm" => s[i - 1] = Comma
  PROVE  /\ \A i \in 2 .. Len(t) : t[i] = "imm" => t[i - 1] = Comma
         /\ t # <<>> /\ t[1] = "imm" => s[1] = Comma
<1>1. ASSUME NEW i \in 2 .. Len(t), t[i] = "imm"
      PROVE  t[i - 1] = Comma
  <2>1. i \in 1 .. Len(s) - 1 /\ i - 1 \in 1 .. Len(s) - 1 /\ i + 1 \in 2 .. Len(s)
        /\ (i - 1) + 1 = i /\ (i + 1) - 1 = i
    OBVIOUS
  <2>2. t[i] = s[i + 1] /\ t[i - 1] = s[i]
    BY <2>1
  <2> QED
    BY <1>1, <2>1, <2>2
<1>2. t # <<>> /\ t[1] = "imm" => s[1] = Comma
  <2>1. t # <<>> => 1 \in 1 .. Len(s) - 1 /\ 2 \in 2 .. Len(s)
    OBVIOUS
  <2>2. t # <<>> => t[1] = s[2]
    BY <2>1
  <2> QED
    BY <2>1, <2>2
<1> QED
  BY <1>1, <1>2

LEMMA TailOfPlan ==
  ASSUME NEW s \in Seq(Asked), s # <<>>,
         \A i \in 2 .. Len(s) : s[i] = "imm" => s[i - 1] = Comma
  PROVE  /\ Tail(s) \in Seq(Asked)
         /\ \A i \in 2 .. Len(Tail(s)) : Tail(s)[i] = "imm" => Tail(s)[i - 1] = Comma
         /\ Tail(s) # <<>> /\ Tail(s)[1] = "imm" => Head(s) = Comma
BY Lists, Shifted, Zenon

LEMMA OperandKeeps == ParserInv /\ Operand => ParserInv'
<1> SUFFICES ASSUME ParserInv, Operand PROVE ParserInv'
  OBVIOUS
<1> DEFINE item == Head(plan)
           S == IF item = "imm" THEN CSpace ELSE Blank
           p == Skip(pos, S)
           q == p + 1
<1>1. /\ input \in Inputs /\ input' = input /\ pc = "operands" /\ NotBlank
      /\ pos \in Nat /\ 1 <= pos /\ pos <= Len(input) + 1 /\ Len(input) \in Nat
  BY EndOfText DEF ParserInv, Places, Operand, NotBlank
<1>2. plan \in Seq(Asked) /\ plan # <<>> /\ item = plan[1] /\ item \in Asked
  <2>1. plan \in Seq(Asked) /\ plan # <<>>
    BY Zenon DEF ParserInv, PlanOK, Operand
  <2> QED
    BY <2>1, Lists, Zenon
<1>3. /\ p \in Nat /\ pos <= p /\ p <= Len(input) + 2
      /\ \A k \in pos .. p - 1 : tok(k) \in S
  <2>1. "NUL" \notin S /\ pos <= Len(input) + 2
    BY <1>1 DEF CSpace, Blank
  <2> HIDE DEF S
  <2> QED
    BY <1>1, <2>1, SkipIs
<1>4. Seen(p)
  BY DEF Operand, S, p
<1>5. CASE /\ Fits(kw, item, tok(p)) /\ pos' = q /\ plan' = Tail(plan)
           /\ UNCHANGED <<line, pc, kw, events, start>>
  <2>1. tok(p) \in Word \cup {",", "(", ")", "quote"} /\ (item = "," => tok(p) = ",")
    BY <1>2, <1>5, FitsIs
  <2>2. p <= Len(input) /\ tok(p) # "NL"
    BY <1>1, <1>3, <2>1, Token
  <2>3. PlanOK'
    <3>1. \A i \in 2 .. Len(plan) : plan[i] = "imm" => plan[i - 1] = Comma
      BY Zenon DEF ParserInv, PlanOK
    <3>2. /\ plan' \in Seq(Asked)
          /\ \A i \in 2 .. Len(plan') : plan'[i] = "imm" => plan'[i - 1] = Comma
          /\ plan' # <<>> /\ plan'[1] = "imm" => Head(plan) = Comma
      BY <1>2, <1>5, <3>1, TailOfPlan, Zenon
    <3>3. NumberNext' => tok(p) \in Announces
      BY <2>1, <3>2, Zenon DEF NumberNext, Comma, Announces
    <3>5. tok(pos - 1)' = tok(p)
      <4>1. q - 1 = p
        BY <1>3
      <4> QED
        BY <1>1, <1>5, <4>1, SameText
    <3>6. pos' > 1
      BY <1>1, <1>3, <1>5
    <3> HIDE DEF p, q, S, item
    <3> QED
      BY <3>2, <3>3, <3>5, <3>6 DEF PlanOK
  <2>4. PeakInside'
    <3>1. p <= Len(input) + 1
      BY <1>1, <1>3, <2>2
    <3> QED
      BY <1>1, <1>3, <1>4, <3>1, PeakSeen
  <2>5. ASSUME PlainUpTo(q)
        PROVE  \A j \in pos .. q - 1 : tok(j) # "NL"
    <3>1. \A j \in pos .. p - 1 : tok(j) # "NL"
      <4>1. CASE item = "imm"
        <5>1. NumberNext
          BY <1>2, <4>1, Zenon DEF NumberNext
        <5>2. pos > 1 /\ tok(pos - 1) \in Announces
          BY <1>1, <5>1, Zenon DEF ParserInv, PlanOK
        <5>3. \A k \in pos .. p - 1 : tok(k) \in CSpace
          BY <1>3, <4>1
        <5> HIDE DEF p, item
        <5> QED
          BY <1>1, <1>3, <2>5, <5>2, <5>3, NumberOnLine
      <4>2. CASE item # "imm"
        BY <1>3, <4>2 DEF Blank
      <4> QED
        BY <4>1, <4>2
    <3>2. \A j \in pos .. q - 1 : j = p \/ j \in pos .. p - 1
      BY <1>1, <1>3
    <3> QED
      BY <2>2, <3>1, <3>2
  <2>6. q \in Nat /\ pos <= q /\ q <= Len(input) + 1
    BY <1>1, <1>3, <2>2
  <2> HIDE DEF q
  <2> QED
    BY <1>1, <1>5, <2>3, <2>4, <2>5, <2>6, Within DEF InLine
<1>6. CASE Fail
  BY <1>1, <1>3, <1>4, <1>6, Fails
<1> QED
  BY <1>5, <1>6 DEF Operand

LEMMA EmitKeeps == ParserInv /\ (Emit \/ OpenString) => ParserInv'
<1> SUFFICES ASSUME ParserInv, Emit \/ OpenString PROVE ParserInv'
  OBVIOUS
<1>1. /\ pc = "operands" /\ pc' \in {"end", "string"} /\ NotBlank
      /\ UNCHANGED <<input, pos, line, start, plan, peak>>
  BY DEF Emit, OpenString, NotBlank
<1>2. pos \in Nat /\ pos <= Len(input) + 1
  BY <1>1 DEF ParserInv, Places
<1>3. PlanOK'
  BY <1>1 DEF ParserInv, PlanOK
<1>4. PeakInside'
  BY <1>1 DEF ParserInv, PeakInside
<1>5. \A j \in pos .. pos - 1 : tok(j) # "NL"
  BY <1>2
<1> QED
  BY <1>1, <1>2, <1>3, <1>4, <1>5, Within DEF InLine

LEMMA EmitElementKeeps == ParserInv /\ EmitElement => ParserInv'
<1> SUFFICES ASSUME ParserInv, EmitElement PROVE ParserInv'
  OBVIOUS
<1> DEFINE p == Skip(pos, Blank)
           q == p + 1
<1>0. pc = "operands" /\ UNCHANGED <<input, line, start>>
  BY Zenon DEF EmitElement
<1>1. /\ input \in Inputs /\ input' = input /\ pc = "operands" /\ NotBlank
      /\ pos \in Nat /\ 1 <= pos /\ pos <= Len(input) + 1 /\ Len(input) \in Nat
      /\ start' = start /\ line' = line
  BY <1>0, EndOfText DEF ParserInv, Places, NotBlank
<1>2. /\ p \in Nat /\ pos <= p /\ p <= Len(input) + 1
      /\ \A k \in pos .. p - 1 : tok(k) = "blank"
  BY <1>1, SkipBlanks
<1>3. Seen(p)
  BY DEF EmitElement
<1>4. PeakInside'
  BY <1>1, <1>2, <1>3, PeakSeen
<1>5. CASE tok(p) = "," /\ plan' = <<"imm">> /\ pos' = q /\ pc' = pc
  <2>1. p <= Len(input) /\ tok(p) # "NL"
    <3>1. p <= Len(input) + 2
      BY <1>1, <1>2
    <3> QED
      BY <1>1, <1>2, <1>5, <3>1, Token
  <2>2. tok(pos - 1)' \in Announces
    <3>1. q - 1 = p
      BY <1>2
    <3>2. tok(pos - 1)' = tok(p)
      BY <1>1, <1>5, <3>1, SameText
    <3> QED
      BY <1>5, <3>2, Zenon DEF Announces
  <2>3. PlanOK'
    <3>1. "imm" \in Asked /\ plan' = <<"imm">> /\ pos' = q
      BY <1>5, Zenon DEF Asked
    <3>2. plan' \in Seq(Asked) /\ Len(plan') = 1
      BY <3>1
    <3>3. pos' > 1
      BY <1>1, <1>2, <3>1
    <3> QED
      BY <2>2, <3>2, <3>3 DEF PlanOK
  <2>4. \A j \in pos .. q - 1 : tok(j) # "NL"
    <3>1. \A j \in pos .. q - 1 : j = p \/ j \in pos .. p - 1
      BY <1>1, <1>2
    <3> QED
      BY <1>2, <2>1, <3>1
  <2>5. q \in Nat /\ pos <= q /\ q <= Len(input) + 1
    BY <1>1, <1>2, <2>1
  <2> HIDE DEF q
  <2> QED
    BY <1>1, <1>4, <1>5, <2>3, <2>4, <2>5, Within DEF InLine
<1>6. CASE pc' = "end" /\ UNCHANGED <<plan, pos>>
  <2>1. PlanOK'
    BY <1>6 DEF ParserInv, PlanOK
  <2>2. \A j \in pos .. pos - 1 : tok(j) # "NL"
    BY <1>1
  <2> QED
    BY <1>1, <1>4, <1>6, <2>1, <2>2, Within DEF InLine
<1> QED
  BY <1>5, <1>6 DEF EmitElement

LEMMA StringCharKeeps == ParserInv /\ StringChar => ParserInv'
<1> SUFFICES ASSUME ParserInv, StringChar PROVE ParserInv'
  OBVIOUS
<1>1. /\ input \in Inputs /\ input' = input /\ pc = "string" /\ NotBlank
      /\ pos \in Nat /\ 1 <= pos /\ pos <= Len(input) + 2 /\ Len(input) \in Nat
  BY EndOfText DEF ParserInv, Places, StringChar, NotBlank
<1>2. CASE /\ tok(pos) \notin {"NL", "NUL"} /\ pos' = pos + 1 /\ pc' \in {"string", "end"}
           /\ Seen(pos) /\ UNCHANGED <<line, plan, start>>
  <2>1. pos <= Len(input)
    BY <1>1, <1>2, InText
  <2>2. PlanOK'
    BY <1>2 DEF ParserInv, PlanOK
  <2>3. PeakInside'
    <3>1. pos <= Len(input) + 1
      BY <1>1, <2>1
    <3> QED
      BY <1>1, <1>2, <3>1, PeakSeen
  <2> DEFINE q == pos + 1
  <2>4. q \in Nat /\ pos <= q /\ q <= Len(input) + 1 /\ pos' = q
    BY <1>1, <1>2, <2>1
  <2>5. \A j \in pos .. q - 1 : tok(j) # "NL"
    <3>1. \A j \in pos .. q - 1 : j = pos
      BY <1>1
    <3> QED
      BY <1>2, <3>1
  <2> HIDE DEF q
  <2> QED
    BY <1>1, <1>2, <2>2, <2>3, <2>4, <2>5, Within DEF InLine
<1>3. CASE /\ tok(pos) = "backslash" /\ pos' = pos + 2 /\ pc' = pc
           /\ Seen(pos + 1) /\ UNCHANGED <<line, plan, start>>
  <2>1. pos <= Len(input)
    BY <1>1, <1>3, InText
  <2>2. PlanOK'
    BY <1>1, <1>3 DEF ParserInv, PlanOK
  <2>3. PeakInside'
    <3> DEFINE x == pos + 1
    <3>1. x \in Nat /\ x <= Len(input) + 1 /\ Seen(x)
      BY <1>1, <1>3, <2>1
    <3> HIDE DEF x
    <3> QED
      BY <1>1, <3>1, PeakSeen
  <2> DEFINE q == pos + 2
  <2>4. q \in Nat /\ pos <= q /\ q <= Len(input) + 2 /\ pos' = q
    BY <1>1, <1>3, <2>1
  <2>5. ASSUME PlainUpTo(q)
        PROVE  \A j \in pos .. q - 1 : tok(j) # "NL"
    <3>1. \A j \in pos .. q - 1 : j = pos \/ j = pos + 1
      BY <1>1
    <3>2. Before(pos + 1) = "backslash"
      BY <1>1, <1>3, BeforeIs
    <3>3. pos + 1 \in 1 .. q - 1
      BY <1>1
    <3>4. tok(pos + 1) # "NL"
      BY <2>4, <2>5, <3>2, <3>3, PlainNewline, Zenon
    <3> QED
      BY <1>3, <3>1, <3>4
  <2> HIDE DEF q
  <2> QED
    BY <1>1, <1>3, <2>2, <2>3, <2>4, <2>5, Within DEF InLine
<1>4. CASE Seen(IF tok(pos) = "backslash" THEN pos + 1 ELSE pos) /\ Fail
  <2> DEFINE x == IF tok(pos) = "backslash" THEN pos + 1 ELSE pos
  <2>1. tok(pos) = "backslash" => pos <= Len(input)
    BY <1>1, InText
  <2>2. x \in Nat /\ x <= Len(input) + 2 /\ Seen(x)
    BY <1>1, <1>4, <2>1
  <2> HIDE DEF x
  <2> QED
    BY <1>1, <1>4, <2>2, Fails
<1>5. tok(pos) = "quote" => tok(pos) \notin {"NL", "NUL"}
  OBVIOUS
<1> QED
  BY <1>1, <1>2, <1>3, <1>4, <1>5 DEF StringChar, EndsString

LEMMA StartsRight == Init => ParserInv
<1> SUFFICES ASSUME Init PROVE ParserInv
  OBVIOUS
<1>1. /\ input \in Inputs /\ pos = 1 /\ line = 1 /\ pc = "line" /\ plan = <<>>
      /\ start = 1 /\ peak = 0
  BY DEF Init
<1>2. Len(input) \in Nat /\ 1 <= Len(input)
  BY <1>1, InputsAssumption DEF WellSpaced
<1>3. Places /\ PeakInside /\ PlanOK /\ OneLine
  BY <1>1, <1>2 DEF Places, PeakInside, PlanOK, OneLine, InLine
<1>4. Begun
  <2>1. {j \in 1 .. start - 1 : tok(j) # "blank"} = {}
    BY <1>1
  <2> QED
    BY <2>1 DEF Begun, Before
<1>5. CountOK
  <2>1. Newlines(start) = {}
    BY <1>1 DEF Newlines
  <2> QED
    BY <1>1, <2>1, FS_EmptySet DEF CountOK
<1> QED
  BY <1>3, <1>4, <1>5 DEF ParserInv

LEMMA StepKeeps == ParserInv /\ [Next]_vars => ParserInv'
<1> SUFFICES ASSUME ParserInv, [Next]_vars PROVE ParserInv'
  OBVIOUS
<1>1. CASE UNCHANGED vars
  <2>1. UNCHANGED <<input, pos, line, pc, plan, start, peak>>
    BY <1>1 DEF vars
  <2>2. Places' /\ PeakInside'
    BY <2>1 DEF ParserInv, Places, PeakInside
  <2>3. PlanOK'
    BY <2>1 DEF ParserInv, PlanOK, NumberNext, tok
  <2>4. /\ PlainUpTo(start)' <=> PlainUpTo(start)
        /\ Before(start)' = Before(start)
        /\ Newlines(start)' = Newlines(start)
        /\ tok(start)' = tok(start) /\ tok(Skip(start, Blank))' = tok(Skip(start, Blank))
        /\ PlainUpTo(pos)' <=> PlainUpTo(pos)
        /\ \A j : tok(j)' = tok(j)
    BY <2>1, SameText
  <2>5. OneLine'
    BY <2>1, <2>4 DEF ParserInv, OneLine
  <2>6. Begun' /\ CountOK'
    BY <2>1, <2>4 DEF ParserInv, Begun, CountOK, InBlankLine
  <2> QED
    BY <2>2, <2>3, <2>5, <2>6 DEF ParserInv
<1>2. CASE Next
  BY <1>1, <1>2, BlankLineKeeps, KeywordLineKeeps, LabelLineKeeps, OperandKeeps, EmitKeeps,
     EmitElementKeeps, StringCharKeeps, EndOfLineKeeps DEF Next, Finished
<1> QED
  BY <1>1, <1>2

------------------------------------------------------------------------------
(* Sequences and counts *)

IsSeq(s) == \E X : s \in Seq(X)

LEMMA SeqIs ==
  ASSUME NEW n \in Nat, NEW s, DOMAIN s = 1 .. n, s = [i \in 1 .. n |-> s[i]]
  PROVE  IsSeq(s) /\ Len(s) = n
<1> DEFINE X == {s[i] : i \in 1 .. n}
<1>1. \A i \in 1 .. n : s[i] \in X
  OBVIOUS
<1> HIDE DEF X
<1>2. [i \in 1 .. n |-> s[i]] \in Seq(X)
  BY <1>1
<1>3. s \in Seq(X)
  BY <1>2, Zenon
<1>4. Len(s) = n
  BY <1>3
<1> QED
  BY <1>3, <1>4, Zenon DEF IsSeq

LEMMA Joined ==
  ASSUME NEW s, NEW t, IsSeq(s), IsSeq(t)
  PROVE  /\ IsSeq(s \o t) /\ Len(s) \in Nat /\ Len(t) \in Nat /\ Len(s \o t) = Len(s) + Len(t)
         /\ \A i \in 1 .. Len(s) : (s \o t)[i] = s[i]
         /\ \A i \in 1 .. Len(t) : (s \o t)[Len(s) + i] = t[i]
<1>1. PICK X : s \in Seq(X)
  BY DEF IsSeq
<1>2. PICK Y : t \in Seq(Y)
  BY DEF IsSeq
<1>3. s \in Seq(X \cup Y) /\ t \in Seq(X \cup Y)
  BY <1>1, <1>2
<1>4. s \o t \in Seq(X \cup Y)
  BY <1>3
<1> QED
  BY <1>3, <1>4 DEF IsSeq

LEMMA NothingJoined ==
  ASSUME NEW s, IsSeq(s)
  PROVE  s \o <<>> = s
<1>1. PICK X : s \in Seq(X)
  BY DEF IsSeq
<1> QED
  BY <1>1

Grouped(s, t, u) == (s \o t) \o u = s \o (t \o u)

LEMMA Associative ==
  ASSUME NEW s, NEW t, NEW u, IsSeq(s), IsSeq(t), IsSeq(u)
  PROVE  Grouped(s, t, u)
<1>1. PICK X : s \in Seq(X)
  BY DEF IsSeq
<1>2. PICK Y : t \in Seq(Y)
  BY DEF IsSeq
<1>3. PICK Z : u \in Seq(Z)
  BY DEF IsSeq
<1> DEFINE A == X \cup Y \cup Z
<1>4. s \in Seq(A) /\ t \in Seq(A) /\ u \in Seq(A)
  BY <1>1, <1>2, <1>3
<1> HIDE DEF A
<1> QED
  BY <1>4 DEF Grouped

Regrouped(s, t, u, v) == ((s \o t) \o u) \o v = s \o ((t \o u) \o v)

LEMMA AssociativeOfFour ==
  ASSUME NEW s, NEW t, NEW u, NEW v, IsSeq(s), IsSeq(t), IsSeq(u), IsSeq(v)
  PROVE  Regrouped(s, t, u, v)
<1> DEFINE w == t \o u
<1>1. IsSeq(w)
  BY Joined
<1>2. (s \o t) \o u = s \o w
  <2>1. Grouped(s, t, u)
    BY Associative
  <2> QED
    BY <2>1, Zenon DEF Grouped
<1> HIDE DEF w
<1>3. (s \o w) \o v = s \o (w \o v)
  <2>1. Grouped(s, w, v)
    BY <1>1, Associative
  <2> QED
    BY <2>1, Zenon DEF Grouped
<1> QED
  BY <1>2, <1>3, Zenon DEF w, Regrouped

LEMMA Short ==
  ASSUME NEW a, NEW b
  PROVE  IsSeq(<<>>) /\ IsSeq(<<a>>) /\ IsSeq(<<a, b>>)
<1>1. <<>> \in Seq({a}) /\ <<a>> \in Seq({a}) /\ <<a, b>> \in Seq({a, b})
  OBVIOUS
<1> QED
  BY <1>1 DEF IsSeq

LEMMA Appended ==
  ASSUME NEW s, NEW e, IsSeq(s)
  PROVE  Append(s, e) = s \o <<e>>
<1>1. PICK X : s \in Seq(X)
  BY DEF IsSeq
<1>2. s \in Seq(X \cup {e}) /\ e \in X \cup {e}
  BY <1>1
<1> QED
  BY <1>2

\* What holds at 0 and is carried from each number to the next holds up to n.
LEMMA DomainIs ==
  ASSUME NEW s, IsSeq(s)
  PROVE  DOMAIN s = 1 .. Len(s)
<1>1. PICK X : s \in Seq(X)
  BY DEF IsSeq
<1> QED
  BY <1>1

LEMMA Extended ==
  ASSUME NEW s, NEW e, IsSeq(s)
  PROVE  /\ Len(s) \in Nat /\ DOMAIN s = 1 .. Len(s)
         /\ IsSeq(Append(s, e)) /\ Len(Append(s, e)) = Len(s) + 1
         /\ DOMAIN Append(s, e) = 1 .. Len(s) + 1
         /\ \A i \in 1 .. Len(s) : Append(s, e)[i] = s[i]
         /\ Append(s, e)[Len(s) + 1] = e
<1>1. PICK X : s \in Seq(X)
  BY DEF IsSeq
<1>2. s \in Seq(X \cup {e}) /\ e \in X \cup {e}
  BY <1>1
<1>3. Append(s, e) \in Seq(X \cup {e})
  BY <1>2
<1>4. IsSeq(Append(s, e))
  BY <1>3 DEF IsSeq
<1> HIDE DEF IsSeq
<1> QED
  BY <1>2, <1>4

LEMMA StepByStep ==
  ASSUME NEW n \in Nat, NEW P, 0 \in P, \A i \in 1 .. n : i - 1 \in P => i \in P
  PROVE  \A i \in 0 .. n : i \in P
<1> DEFINE Bad == {i \in 0 .. n : i \notin P}
<1>1. Bad = {}
  <2> SUFFICES ASSUME Bad # {} PROVE FALSE
    OBVIOUS
  <2>1. Bad \in SUBSET Nat
    OBVIOUS
  <2> HIDE DEF Bad
  <2>2. PICK m \in Bad : \A k \in Bad : m <= k
    BY <2>1, Least
  <2>3. m \in 0 .. n /\ m \notin P
    BY DEF Bad
  <2> DEFINE k == m - 1
  <2>4. m \in 1 .. n /\ k \in 0 .. n /\ k < m
    BY <2>3
  <2>5. k \notin Bad
    BY <2>2, <2>4
  <2>6. k \in P
    BY <2>4, <2>5 DEF Bad
  <2> QED
    BY <2>3, <2>4, <2>6
<1> QED
  BY <1>1

\* Sets of places below a bound are finite.
LEMMA PlacesFinite ==
  ASSUME NEW n \in Nat, NEW S \in SUBSET (1 .. n)
  PROVE  /\ IsFiniteSet(S) /\ Cardinality(S) \in Nat
         /\ \A i : UpTo(S, i) \in Nat /\ UpTo(S, i) <= Cardinality(S)
<1>1. IsFiniteSet(1 .. n)
  <2>1. 1 \in Int /\ n \in Int
    OBVIOUS
  <2> QED
    BY <2>1, FS_Interval, Zenon
<1>2. IsFiniteSet(S)
  BY <1>1, FS_Subset
<1>3. ASSUME NEW i
      PROVE  UpTo(S, i) \in Nat /\ UpTo(S, i) <= Cardinality(S)
  <2> DEFINE B == {j \in S : j <= i}
  <2>1. B \subseteq S
    OBVIOUS
  <2>2. IsFiniteSet(B) /\ Cardinality(B) <= Cardinality(S)
    BY <1>2, <2>1, FS_Subset
  <2>3. Cardinality(B) \in Nat
    BY <2>2, FS_CardinalityType
  <2> QED
    BY <2>2, <2>3 DEF UpTo
<1> QED
  BY <1>2, <1>3, FS_CardinalityType

\* One more place, behind all of S.
LEMMA OneMorePlace ==
  ASSUME NEW n \in Nat, NEW S \in SUBSET (1 .. n), NEW p \in Nat, n < p
  PROVE  /\ Cardinality(S \cup {p}) = Cardinality(S) + 1
         /\ \A i \in 0 .. p - 1 : UpTo(S \cup {p}, i) = UpTo(S, i)
         /\ UpTo(S \cup {p}, p) = Cardinality(S) + 1
         /\ \A i \in n .. p : UpTo(S, i) = Cardinality(S)
<1>1. p \notin S
  OBVIOUS
<1>2. Cardinality(S \cup {p}) = Cardinality(S) + 1
  BY <1>1, PlacesFinite, FS_AddElement
<1>3. ASSUME NEW i \in 0 .. p - 1
      PROVE  UpTo(S \cup {p}, i) = UpTo(S, i)
  <2>1. {j \in S \cup {p} : j <= i} = {j \in S : j <= i}
    OBVIOUS
  <2> QED
    BY <2>1 DEF UpTo
<1>0. \A j \in S : j \in Nat /\ j <= n
  OBVIOUS
<1>4. {j \in S \cup {p} : j <= p} = S \cup {p}
  <2>1. \A j \in S \cup {p} : j <= p
    BY <1>0
  <2> QED
    BY <2>1
<1>5. ASSUME NEW i \in n .. p
      PROVE  UpTo(S, i) = Cardinality(S)
  <2>1. \A j \in S : j <= i
    BY <1>0
  <2>2. {j \in S : j <= i} = S
    BY <2>1
  <2> QED
    BY <2>2 DEF UpTo
<1> QED
  BY <1>2, <1>3, <1>4, <1>5 DEF UpTo

LEMMA NoTokens ==
  /\ Cardinality({}) = 0 /\ Tokens({}) = <<>>
  /\ \A i : UpTo({}, i) = 0
<1>1. Cardinality({}) = 0
  BY FS_EmptySet
<1>2. \A i : {j \in {} : j <= i} = {}
  OBVIOUS
<1> QED
  BY <1>1, <1>2 DEF Tokens, UpTo

LEMMA TokensSeq ==
  ASSUME NEW n \in Nat, NEW S \in SUBSET (1 .. n)
  PROVE  IsSeq(Tokens(S)) /\ Len(Tokens(S)) = Cardinality(S)
<1>1. Cardinality(S) \in Nat
  BY PlacesFinite
<1> DEFINE s == Tokens(S)
<1>2. DOMAIN s = 1 .. Cardinality(S) /\ s = [i \in 1 .. Cardinality(S) |-> s[i]]
  BY DEF Tokens
<1> HIDE DEF s
<1>3. IsSeq(s) /\ Len(s) = Cardinality(S)
  BY <1>1, <1>2, SeqIs
<1> QED
  BY <1>3 DEF s

LEMMA TokensNext ==
  ASSUME NEW n \in Nat, NEW S \in SUBSET (1 .. n), NEW p \in Nat, n < p
  PROVE  /\ Tokens(S \cup {p}) = Append(Tokens(S), tok(p))
         /\ \A i \in 1 .. Cardinality(S) : Tokens(S \cup {p})[i] = Tokens(S)[i]
         /\ Tokens(S \cup {p})[Cardinality(S) + 1] = tok(p)
<1> DEFINE m == Cardinality(S)
           T == S \cup {p}
           At(U, i) == {j \in U : UpTo(U, j) = i}
<1>1. m \in Nat /\ Cardinality(T) = m + 1 /\ \A j \in S : UpTo(S, j) \in Nat /\ UpTo(S, j) <= m
  <2>1. m \in Nat /\ \A j \in S : UpTo(S, j) \in Nat /\ UpTo(S, j) <= m
    BY PlacesFinite, Zenon
  <2>2. Cardinality(T) = m + 1
    BY OneMorePlace, Zenon
  <2> QED
    BY <2>1, <2>2
<1>2. UpTo(T, p) = m + 1 /\ \A j \in S : UpTo(T, j) = UpTo(S, j)
  <2>1. \A j \in S : j \in 0 .. p - 1
    OBVIOUS
  <2>2. UpTo(T, p) = m + 1
    BY OneMorePlace, Zenon
  <2>3. \A j \in 0 .. p - 1 : UpTo(T, j) = UpTo(S, j)
    BY OneMorePlace, Zenon
  <2> QED
    BY <2>1, <2>2, <2>3, Zenon
<1>3. \A i \in 1 .. m : At(T, i) = At(S, i)
  <2>1. \A i \in 1 .. m : i # m + 1
    BY <1>1
  <2> HIDE DEF m
  <2> QED
    BY <1>2, <2>1
<1>4. At(T, m + 1) = {p}
  <2>1. \A j \in S : UpTo(T, j) # m + 1
    BY <1>1, <1>2
  <2> HIDE DEF m
  <2> QED
    BY <1>2, <2>1
<1>5. /\ \A i \in 1 .. m + 1 : Tokens(T)[i] = tok(CHOOSE j \in At(T, i) : TRUE)
      /\ \A i \in 1 .. m : Tokens(S)[i] = tok(CHOOSE j \in At(S, i) : TRUE)
      /\ DOMAIN Tokens(T) = 1 .. m + 1 /\ DOMAIN Tokens(S) = 1 .. m
  BY <1>1 DEF Tokens
<1>6. m + 1 \in 1 .. m + 1 /\ \A i \in 1 .. m : i \in 1 .. m + 1
  BY <1>1
<1> HIDE DEF At, m, T
<1>7. \A i \in 1 .. m : Tokens(T)[i] = Tokens(S)[i]
  BY <1>3, <1>5, <1>6, Zenon
<1>8. Tokens(T)[m + 1] = tok(p)
  <2>1. Tokens(T)[m + 1] = tok(CHOOSE j \in {p} : TRUE)
    BY <1>4, <1>5, <1>6, Zenon
  <2> QED
    BY <2>1
<1>9. Tokens(T) = Append(Tokens(S), tok(p))
  <2>1. IsSeq(Tokens(S)) /\ Len(Tokens(S)) = m
    BY TokensSeq DEF m
  <2>2. PICK X : Tokens(S) \in Seq(X)
    BY <2>1 DEF IsSeq
  <2>3. Tokens(T) = [i \in 1 .. m + 1 |-> Tokens(T)[i]]
    BY <1>1 DEF Tokens
  <2> DEFINE u == Append(Tokens(S), tok(p))
             Y == X \cup {tok(p)}
  <2>4. Tokens(S) \in Seq(Y) /\ tok(p) \in Y
    BY <2>2
  <2> HIDE DEF Y
  <2>5. /\ u \in Seq(Y) /\ Len(u) = m + 1 /\ \A i \in 1 .. m : u[i] = Tokens(S)[i]
        /\ u[m + 1] = tok(p)
    BY <1>1, <2>1, <2>4
  <2> HIDE DEF u
  <2>6. u = [i \in 1 .. m + 1 |-> u[i]]
    <3>1. u \in [1 .. Len(u) -> Y]
      BY <2>5
    <3>2. u \in [1 .. m + 1 -> Y]
      BY <2>5, <3>1
    <3> QED
      BY <3>2
  <2>7. \A i \in 1 .. m + 1 : i \in 1 .. m \/ i = m + 1
    BY <1>1 DEF m
  <2>8. \A i \in 1 .. m + 1 : Tokens(T)[i] = u[i]
    BY <1>7, <1>8, <2>5, <2>7
  <2>9. Tokens(T) = u
    BY <2>3, <2>6, <2>8
  <2> QED
    BY <2>9 DEF u
<1> QED
  BY <1>7, <1>8, <1>9 DEF T, m

------------------------------------------------------------------------------
(* Readings *)

Quoteless == "quote" \notin ToSet(input)

\* The places from i on and before j where no blank is.
NonBlank(i, j) == {m \in i .. j - 1 : tok(m) \notin Blank}

\* A reading ends a line before place s, and no line between s and p.
Covered(R, s) == \A m \in 1 .. s - 1 : tok(m) \notin Blank => \E b \in R : m <= b /\ b < s
Apart(R, s, p) == \A b \in R : ~ (s <= b /\ b < p)

\* Every reading does so, and makes base of the lines before s.
AllAgree(s, p, base) ==
  \A R \in Readings : Covered(R, s) /\ Apart(R, s, p) /\ MeaningUpTo(R)[s - 1] = base

\* The lines before s can be read.
SomeAgrees(s) ==
  \E R \in SUBSET Ends :
    /\ \A b \in R : b < s
    /\ Covered(R, s)
    /\ \A c \in R : RightCut(R, c)

LEMMA PlacesOfText ==
  ASSUME input \in Inputs
  PROVE  /\ Len(input) + 1 \in Nat /\ 1 <= Len(input) + 1
         /\ Ends \in SUBSET (1 .. Len(input) + 1) /\ Len(input) + 1 \in Ends
         /\ \A i \in Ends : tok(i) \notin Blank
<1>1. Len(input) \in Nat /\ tok(Len(input) + 1) = "NL"
  BY EndOfText
<1> QED
  BY <1>1 DEF Ends, Blank

LEMMA SentenceIs ==
  ASSUME NEW R \in SUBSET Nat, NEW s \in Nat, 1 <= s, NEW c \in Nat, s <= c, Covered(R, s), Apart(R, s, c)
  PROVE  SentenceAt(R, c) = NonBlank(s, c)
<1>1. ASSUME NEW i \in SentenceAt(R, c)
      PROVE  i \in NonBlank(s, c)
  <2>1. i \in 1 .. c - 1 /\ tok(i) \notin Blank /\ \A b \in R : ~ (i <= b /\ b < c)
    BY DEF SentenceAt
  <2>2. ASSUME i < s
        PROVE  FALSE
    <3>1. i \in 1 .. s - 1
      BY <2>1, <2>2
    <3>2. PICK b \in R : i <= b /\ b < s
      BY <2>1, <3>1 DEF Covered
    <3>3. b < c
      BY <3>2
    <3> QED
      BY <2>1, <3>2, <3>3
  <2> QED
    BY <2>1, <2>2 DEF NonBlank
<1>2. ASSUME NEW i \in NonBlank(s, c)
      PROVE  i \in SentenceAt(R, c)
  <2>1. i \in s .. c - 1 /\ tok(i) \notin Blank
    BY DEF NonBlank
  <2>2. ASSUME NEW b \in R, i <= b, b < c
        PROVE  FALSE
    <3>1. s <= i /\ i \in Nat /\ b \in Nat
      BY <2>1
    <3>2. s <= b
      BY <2>2, <3>1
    <3> QED
      BY <2>2, <3>2 DEF Apart
  <2>3. i \in 1 .. c - 1
    BY <2>1
  <2>4. \A b \in R : ~ (i <= b /\ b < c)
    BY <2>2
  <2> QED
    BY <2>1, <2>3, <2>4 DEF SentenceAt
<1> QED
  BY <1>1, <1>2

\* A reading's next end is that of a sentence.
LEMMA NextCut ==
  ASSUME input \in Inputs, NEW R \in Readings, NEW s \in Nat, 1 <= s, s <= Len(input) + 1,
         Covered(R, s)
  PROVE  \E c \in R : /\ c \in Nat /\ s <= c /\ c <= Len(input) + 1 /\ tok(c) \in {"NL", "NUL"}
                      /\ Apart(R, s, c)
                      /\ IsSentence(NonBlank(s, c))
                      /\ tok(c) = "NUL" => NonBlank(s, c) # {}
<1> DEFINE n == Len(input) + 1
           S == {b \in R : s <= b}
<1>1. n \in Nat /\ R \in SUBSET (1 .. n) /\ R \in SUBSET Ends /\ n \in R /\ \A c \in R : RightCut(R, c)
  BY PlacesOfText DEF Readings
<1> HIDE DEF n
<1>2. S \in SUBSET Nat /\ S # {}
  <2>1. n \in S
    BY <1>1 DEF n
  <2>2. \A b \in S : b \in 1 .. n
    BY <1>1
  <2> HIDE DEF S
  <2>3. \A b \in S : b \in Nat
    BY <1>1, <2>2
  <2> QED
    BY <2>1, <2>3
<1>3. PICK c \in S : \A b \in S : c <= b
  BY <1>2, Least
<1>4. c \in R /\ c \in Nat /\ s <= c /\ c <= n /\ tok(c) \in {"NL", "NUL"}
  BY <1>1, <1>3 DEF Ends
<1>5. Apart(R, s, c)
  BY <1>1, <1>3, <1>4 DEF Apart
<1>6. SentenceAt(R, c) = NonBlank(s, c)
  <2>1. R \in SUBSET Nat
    BY <1>1
  <2> QED
    BY <1>4, <1>5, <2>1, SentenceIs
<1> QED
  BY <1>1, <1>4, <1>5, <1>6 DEF RightCut, n

IsSaid(f, R) ==
  f = [c \in 0 .. Len(input) + 1 |->
         IF c = 0 THEN <<>>
         ELSE IF c \in R THEN f[c - 1] \o Meaning(SentenceAt(R, c)) ELSE f[c - 1]]

\* One after the other, the sentences are said.
LEMMA MeaningUpToIs ==
  ASSUME input \in Inputs, NEW R
  PROVE  /\ MeaningUpTo(R)[0] = <<>>
         /\ \A c \in 1 .. Len(input) + 1 :
              MeaningUpTo(R)[c] = IF c \in R THEN MeaningUpTo(R)[c - 1] \o Meaning(SentenceAt(R, c))
                                  ELSE MeaningUpTo(R)[c - 1]
<1> DEFINE n == Len(input) + 1
           M(c) == Meaning(SentenceAt(R, c))
           Good(f, m) == /\ f = [c \in 0 .. m |-> f[c]]
                         /\ f[0] = <<>>
                         /\ \A c \in 1 .. m : f[c] = IF c \in R THEN f[c - 1] \o M(c) ELSE f[c - 1]
           P == {m \in 0 .. n : \E f : Good(f, m)}
<1>1. n \in Nat
  BY PlacesOfText
<1> HIDE DEF n, M
<1>2. 0 \in P
  <2> DEFINE f == [c \in 0 .. 0 |-> <<>>]
  <2>1. Good(f, 0)
    OBVIOUS
  <2> HIDE DEF f, Good
  <2>2. 0 \in 0 .. n
    BY <1>1
  <2> QED
    BY <2>1, <2>2
<1>3. ASSUME NEW m \in 1 .. n, m - 1 \in P
      PROVE  m \in P
  <2>1. PICK f : Good(f, m - 1)
    BY <1>3
  <2> DEFINE e == IF m \in R THEN f[m - 1] \o M(m) ELSE f[m - 1]
             g == [c \in 0 .. m |-> IF c = m THEN e ELSE f[c]]
  <2>2. m \in Nat /\ m # 0
    BY <1>1
  <2>3. g[m] = e /\ \A c \in 0 .. m - 1 : g[c] = f[c]
    <3>1. m \in 0 .. m /\ \A c \in 0 .. m - 1 : c \in 0 .. m /\ c # m
      BY <2>2
    <3> HIDE DEF e
    <3> QED
      BY <3>1
  <2>4. g = [c \in 0 .. m |-> g[c]]
    <3> HIDE DEF e
    <3> QED
      OBVIOUS
  <2>5. g[0] = <<>>
    BY <2>1, <2>2, <2>3
  <2>6. \A c \in 1 .. m : g[c] = IF c \in R THEN g[c - 1] \o M(c) ELSE g[c - 1]
    <3> TAKE c \in 1 .. m
    <3>1. CASE c = m
      <4>1. g[c - 1] = f[m - 1]
        BY <2>2, <2>3, <3>1
      <4> HIDE DEF g
      <4> QED
        BY <2>3, <3>1, <4>1
    <3>2. CASE c # m
      <4>1. c \in 1 .. m - 1 /\ c \in 0 .. m - 1 /\ c - 1 \in 0 .. m - 1
        BY <2>2, <3>2
      <4>2. g[c] = f[c] /\ g[c - 1] = f[c - 1]
        BY <2>3, <4>1
      <4> HIDE DEF g, e
      <4> QED
        BY <2>1, <4>1, <4>2
    <3> QED
      BY <3>1, <3>2
  <2> HIDE DEF g, e
  <2>7. Good(g, m)
    BY <2>4, <2>5, <2>6
  <2> HIDE DEF Good
  <2>8. m \in 0 .. n
    BY <1>1
  <2> QED
    BY <2>7, <2>8
<1> HIDE DEF P
<1>4. n \in P
  <2>1. \A m \in 0 .. n : m \in P
    BY <1>1, <1>2, <1>3, StepByStep
  <2> QED
    BY <1>1, <2>1
<1>5. PICK f : Good(f, n)
  BY <1>4 DEF P
<1>6. IsSaid(f, R)
  <2>1. \A c \in 0 .. n : c = 0 \/ c \in 1 .. n
    BY <1>1
  <2>2. \A c \in 1 .. n : c # 0
    BY <1>1
  <2>3. \A c \in 0 .. n : f[c] = IF c = 0 THEN <<>> ELSE IF c \in R THEN f[c - 1] \o M(c) ELSE f[c - 1]
    BY <1>5, <2>1, <2>2
  <2>4. f = [c \in 0 .. n |-> f[c]]
    BY <1>5
  <2> HIDE DEF Good
  <2>5. f = [c \in 0 .. n |-> IF c = 0 THEN <<>> ELSE IF c \in R THEN f[c - 1] \o M(c) ELSE f[c - 1]]
    BY <2>3, <2>4
  <2> QED
    BY <2>5 DEF IsSaid, n, M
<1> DEFINE g == CHOOSE h : IsSaid(h, R)
<1>7. IsSaid(g, R)
  BY <1>6
<1>8. MeaningUpTo(R) = g
  BY DEF MeaningUpTo, IsSaid
<1> HIDE DEF g
<1>9. g = [c \in 0 .. n |-> IF c = 0 THEN <<>> ELSE IF c \in R THEN g[c - 1] \o M(c) ELSE g[c - 1]]
  BY <1>7 DEF IsSaid, n, M
<1>10. 0 \in 0 .. n /\ \A c \in 1 .. n : c \in 0 .. n /\ c # 0
  BY <1>1
<1>11. g[0] = <<>> /\ \A c \in 1 .. n : g[c] = IF c \in R THEN g[c - 1] \o M(c) ELSE g[c - 1]
  BY <1>9, <1>10
<1> QED
  BY <1>8, <1>11 DEF n, M

\* Nothing is said where no line ends.
LEMMA SilentPart ==
  ASSUME input \in Inputs, NEW R, NEW s \in Nat, 1 <= s, NEW p \in Nat, s <= p, p <= Len(input) + 2,
         Apart(R, s, p)
  PROVE  MeaningUpTo(R)[p - 1] = MeaningUpTo(R)[s - 1]
<1> DEFINE f == MeaningUpTo(R)
           n == Len(input) + 1
           d == p - s
           P == {i \in 0 .. d : f[s - 1 + i] = f[s - 1]}
<1>1. n \in Nat /\ d \in Nat /\ \A c \in 1 .. n : c \notin R => f[c] = f[c - 1]
  BY PlacesOfText, MeaningUpToIs
<1> HIDE DEF f
<1>2. 0 \in P
  <2>1. s - 1 + 0 = s - 1 /\ 0 \in 0 .. d
    BY <1>1
  <2> QED
    BY <2>1
<1>3. ASSUME NEW i \in 1 .. d, i - 1 \in P
      PROVE  i \in P
  <2> DEFINE c == s - 1 + i
  <2>1. c \in 1 .. n /\ s <= c /\ c < p /\ c - 1 = s - 1 + (i - 1) /\ i \in 0 .. d
    BY <1>1
  <2>2. c \notin R
    BY <2>1 DEF Apart
  <2> HIDE DEF c
  <2>3. f[c] = f[c - 1]
    BY <1>1, <2>1, <2>2
  <2>4. f[c - 1] = f[s - 1]
    BY <1>3, <2>1
  <2> QED
    BY <2>1, <2>3, <2>4 DEF c
<1>4. d \in P
  <2> HIDE DEF P, d
  <2>1. \A i \in 0 .. d : i \in P
    BY <1>1, <1>2, <1>3, StepByStep
  <2> QED
    BY <1>1, <2>1
<1>5. s - 1 + d = p - 1
  OBVIOUS
<1> QED
  BY <1>4, <1>5 DEF f

------------------------------------------------------------------------------
(* A line *)

LEMMA FirstIs ==
  ASSUME NEW S \in SUBSET Nat, NEW m \in S, \A j \in S : m <= j
  PROVE  FirstOf(S) = m
<1> DEFINE f == FirstOf(S)
<1>1. f \in S /\ \A j \in S : f <= j
  BY DEF FirstOf
<1> HIDE DEF f
<1>2. f \in Nat /\ m \in Nat /\ f <= m /\ m <= f
  BY <1>1
<1>3. f = m
  BY <1>2
<1> QED
  BY <1>3 DEF f

\* The line that begins at s opens with the first thing that is not blank.
LEMMA LineIs ==
  ASSUME input \in Inputs, NEW s \in Nat, 1 <= s, s <= Len(input) + 1,
         NEW f \in Nat, f = Skip(s, Blank), NEW c \in Nat, f < c
  PROVE  /\ f \in Nat /\ s <= f /\ f <= Len(input) + 1 /\ tok(f) \notin Blank
         /\ \A m \in s .. f - 1 : tok(m) \in Blank
         /\ NonBlank(s, c) = {f} \cup NonBlank(f + 1, c)
         /\ f \notin NonBlank(f + 1, c)
         /\ FirstOf(NonBlank(s, c)) = f
<1>1. /\ f \in Nat /\ s <= f /\ f <= Len(input) + 1 /\ tok(f) # "blank"
      /\ \A m \in s .. f - 1 : tok(m) = "blank"
  BY SkipBlanks
<1>2. tok(f) \notin Blank /\ \A m \in s .. f - 1 : tok(m) \in Blank
  BY <1>1 DEF Blank
<1>3. f \notin NonBlank(f + 1, c)
  BY <1>1 DEF NonBlank
<1>4. NonBlank(s, c) = {f} \cup NonBlank(f + 1, c)
  <2>1. \A m \in s .. c - 1 : m \in s .. f - 1 \/ m = f \/ m \in f + 1 .. c - 1
    BY <1>1
  <2>2. f \in s .. c - 1 /\ \A m \in f + 1 .. c - 1 : m \in s .. c - 1
    BY <1>1
  <2> QED
    BY <1>2, <2>1, <2>2 DEF NonBlank
<1>5. FirstOf(NonBlank(s, c)) = f
  <2>1. \A m \in NonBlank(f + 1, c) : m \in Nat /\ f <= m
    BY <1>1 DEF NonBlank
  <2> DEFINE S == NonBlank(s, c)
  <2>2. S \in SUBSET Nat /\ f \in S /\ \A m \in S : f <= m
    BY <1>1, <1>4, <2>1
  <2> HIDE DEF S
  <2>3. FirstOf(S) = f
    BY <2>2, FirstIs
  <2> QED
    BY <2>3 DEF S
<1> QED
  BY <1>1, <1>2, <1>3, <1>4, <1>5

LEMMA LabelIs ==
  ASSUME NEW t, IsIdentifier(t)
  PROVE  t \in Word /\ t # ":" /\ t \notin {"NL", "NUL", "blank"} /\ t # "quote"
BY WordsAssumption DEF IsIdentifier, Mark

LEMMA LineParts ==
  ASSUME input \in Inputs, NEW s \in Nat, 1 <= s, s <= Len(input) + 1,
         NEW f \in Nat, f = Skip(s, Blank), NEW c \in Nat, f < c, NEW S, S = NonBlank(s, c),
         NEW T, T = NonBlank(f + 1, c)
  PROVE  S # {} /\ FirstOf(S) = f /\ S \ {f} = T /\ S = {f} \cup T /\ f \notin T /\ f \in S
<1>1. S = {f} \cup T /\ f \notin T /\ FirstOf(S) = f
  BY LineIs
<1> QED
  BY <1>1

\* It is a sentence if it has a keyword and its operands, or a label and a colon.
LEMMA SentenceOpens ==
  ASSUME input \in Inputs, NEW s \in Nat, 1 <= s, s <= Len(input) + 1,
         NEW f \in Nat, f = Skip(s, Blank), NEW c \in Nat, f < c
  PROVE  /\ tok(f) \in Keyword => (IsSentence(NonBlank(s, c)) <=> IsOperands(tok(f), NonBlank(f + 1, c)))
         /\ tok(f) \notin Keyword =>
              (IsSentence(NonBlank(s, c)) <=>
                 /\ IsIdentifier(tok(f))
                 /\ \E i \in NonBlank(f + 1, c) : NonBlank(f + 1, c) = {i} /\ tok(i) = ":")
<1> DEFINE S == NonBlank(s, c)
           T == NonBlank(f + 1, c)
<1>1. S # {} /\ FirstOf(S) = f /\ S \ {f} = T /\ S = {f} \cup T /\ f \notin T /\ f \in S
  <2> HIDE DEF S, T
  <2>1. S = NonBlank(s, c) /\ T = NonBlank(f + 1, c)
    BY DEF S, T
  <2> QED
    BY <2>1, LineParts
<1> HIDE DEF S, T
<1>2. ASSUME tok(f) \in Keyword
      PROVE  IsSentence(S) <=> IsOperands(tok(f), T)
  BY <1>1, <1>2 DEF IsSentence
<1>3. ASSUME tok(f) \notin Keyword
      PROVE  IsSentence(S) <=> IsIdentifier(tok(f)) /\ \E i \in T : T = {i} /\ tok(i) = ":"
  <2>2. IsSentence(S) <=> IsIdentifier(tok(f)) /\ \E i \in S : S = {f, i} /\ tok(i) = ":"
    BY <1>1, <1>3 DEF IsSentence
  <2>3. ASSUME IsIdentifier(tok(f)), NEW i \in S, S = {f, i}, tok(i) = ":"
        PROVE  i \in T /\ T = {i}
    <3>1. i # f
      BY <2>3, LabelIs
    <3> QED
      BY <1>1, <2>3, <3>1
  <2>4. ASSUME NEW i \in T, T = {i}
        PROVE  i \in S /\ S = {f, i}
    BY <1>1, <2>4
  <2> QED
    BY <2>2, <2>3, <2>4
<1> QED
  BY <1>2, <1>3 DEF S, T

LEMMA SentenceSays ==
  ASSUME input \in Inputs, NEW s \in Nat, 1 <= s, s <= Len(input) + 1,
         NEW f \in Nat, f = Skip(s, Blank), NEW c \in Nat, f < c, NEW T, T = NonBlank(f + 1, c)
  PROVE  Meaning(NonBlank(s, c)) =
           IF tok(f) \notin Keyword THEN << <<"label", tok(f)>> >>
           ELSE IF tok(f) = ".byte" THEN Elements(Tokens(Operands(T))) \o << <<"pad">> >>
           ELSE Effect(tok(f), Tokens({i \in Operands(T) : tok(i) \in Word}))
<1> DEFINE S == NonBlank(s, c)
<1>1. S # {} /\ FirstOf(S) = f /\ S \ {f} = T
  <2> HIDE DEF S
  <2>1. S = NonBlank(s, c)
    BY DEF S
  <2> QED
    BY <2>1, LineParts
<1> HIDE DEF S
<1>2. Meaning(S) =
           IF tok(f) \notin Keyword THEN << <<"label", tok(f)>> >>
           ELSE IF tok(f) = ".byte" THEN Elements(Tokens(Operands(T))) \o << <<"pad">> >>
           ELSE Effect(tok(f), Tokens({i \in Operands(T) : tok(i) \in Word}))
  BY <1>1 DEF Meaning
<1> QED
  BY <1>2 DEF S

LEMMA NonBlankIn ==
  ASSUME NEW i \in Nat, 1 <= i, NEW p \in Nat, i <= p
  PROVE  NonBlank(i, p) \in SUBSET (1 .. p - 1) /\ Operands(NonBlank(i, p)) \in SUBSET (1 .. p - 1)
         /\ p - 1 \in Nat
BY DEF NonBlank, Operands

\* Nothing but characters of S from p on and before q.
Only(p, q, S) == \A m \in p .. q - 1 : tok(m) \in S

NewlinesIn(p, q) == {m \in p .. q - 1 : tok(m) = "NL"}

\* White space adds no operand, and what follows it adds one.
LEMMA Grows ==
  ASSUME NEW i \in Nat, 1 <= i, NEW p \in Nat, i <= p, NEW q \in Nat, p <= q,
         Only(p, q, CSpace)
  PROVE  /\ NonBlank(i, q) = NonBlank(i, p) \cup NewlinesIn(p, q)
         /\ Operands(NonBlank(i, q)) = Operands(NonBlank(i, p))
         /\ tok(q) \notin CSpace => Operands(NonBlank(i, q + 1)) = Operands(NonBlank(i, p)) \cup {q}
         /\ tok(q) \notin Blank => NonBlank(i, q + 1) = NonBlank(i, q) \cup {q}
         /\ tok(q) = "NL" => Operands(NonBlank(i, q + 1)) = Operands(NonBlank(i, p))
<1>1. \A m \in p .. q - 1 : tok(m) \in Blank \/ tok(m) = "NL"
  BY DEF Only, CSpace, Blank
<1> USE DEF NewlinesIn
<1>2. \A m \in i .. q - 1 : m \in i .. p - 1 \/ m \in p .. q - 1
  OBVIOUS
<1>3. \A m \in p .. q - 1 : m \in i .. q - 1
  OBVIOUS
<1>4. \A m \in i .. p - 1 : m \in i .. q - 1
  OBVIOUS
<1>5. "NL" \notin Blank
  BY DEF Blank
<1>6. NonBlank(i, q) = NonBlank(i, p) \cup {m \in p .. q - 1 : tok(m) = "NL"}
  BY <1>1, <1>2, <1>3, <1>4, <1>5 DEF NonBlank
<1>7. Operands(NonBlank(i, q)) = Operands(NonBlank(i, p))
  BY <1>6 DEF Operands
<1>8. ASSUME tok(q) \notin Blank
      PROVE  NonBlank(i, q + 1) = NonBlank(i, q) \cup {q}
  <2>1. \A m \in i .. (q + 1) - 1 : m \in i .. q - 1 \/ m = q
    OBVIOUS
  <2>2. q \in i .. (q + 1) - 1 /\ \A m \in i .. q - 1 : m \in i .. (q + 1) - 1
    OBVIOUS
  <2> QED
    BY <1>8, <2>1, <2>2 DEF NonBlank
<1>9. ASSUME tok(q) \notin CSpace
      PROVE  Operands(NonBlank(i, q + 1)) = Operands(NonBlank(i, p)) \cup {q}
  <2>1. tok(q) # "NL" /\ tok(q) \notin Blank
    BY <1>9 DEF CSpace, Blank
  <2>2. Operands(NonBlank(i, q) \cup {q}) = Operands(NonBlank(i, q)) \cup {q}
    BY <2>1 DEF Operands
  <2> QED
    BY <1>7, <1>8, <2>1, <2>2
<1>10. ASSUME tok(q) = "NL"
       PROVE  Operands(NonBlank(i, q + 1)) = Operands(NonBlank(i, p))
  <2>1. Operands(NonBlank(i, q) \cup {q}) = Operands(NonBlank(i, q))
    BY <1>10 DEF Operands
  <2> QED
    BY <1>5, <1>7, <1>8, <1>10, <2>1
<1> QED
  BY <1>6, <1>7, <1>8, <1>9, <1>10

\* The place of what stands behind white space among the operands of a longer line.
LEMMA Ahead ==
  ASSUME NEW i \in Nat, 1 <= i, NEW p \in Nat, i <= p, NEW q \in Nat, p <= q,
         Only(p, q, CSpace), tok(q) \notin Blank,
         NEW c \in Nat, q < c,
         NEW n, n = Cardinality(Operands(NonBlank(i, p))),
         NEW o, o = Operands(NonBlank(i, c))
  PROVE  /\ n \in Nat /\ Cardinality(o) \in Nat
         /\ tok(q) = "NL" => q \in NonBlank(i, c) \ o /\ UpTo(o, q) = n
         /\ tok(q) # "NL" => q \in o /\ UpTo(o, q) = n + 1 /\ n + 1 <= Cardinality(o)
<1> DEFINE O == Operands(NonBlank(i, p))
<1>1. O \in SUBSET (1 .. p - 1) /\ p - 1 \in Nat /\ o \in SUBSET (1 .. c - 1) /\ c - 1 \in Nat
  BY NonBlankIn
<1>2. n \in Nat /\ Cardinality(o) \in Nat /\ UpTo(o, q) <= Cardinality(o)
  <2> HIDE DEF O
  <2>1. Cardinality(O) \in Nat
    BY <1>1, PlacesFinite
  <2>2. Cardinality(o) \in Nat /\ UpTo(o, q) <= Cardinality(o)
    BY <1>1, PlacesFinite
  <2>3. n = Cardinality(O)
    BY Zenon DEF O
  <2> QED
    BY <2>1, <2>2, <2>3, Zenon
<1>3. q \in NonBlank(i, c)
  BY DEF NonBlank
<1>4. q \in o <=> tok(q) # "NL"
  BY <1>3 DEF Operands
<1>5. {j \in o : j <= q} = Operands(NonBlank(i, q + 1))
  <2>1. \A j \in NonBlank(i, c) : j <= q => j \in NonBlank(i, q + 1)
    BY DEF NonBlank
  <2>2. \A j \in NonBlank(i, q + 1) : j <= q /\ j \in NonBlank(i, c)
    BY DEF NonBlank
  <2> QED
    BY <2>1, <2>2 DEF Operands
<1>6. ASSUME tok(q) = "NL"
      PROVE  UpTo(o, q) = n
  <2>1. Operands(NonBlank(i, q + 1)) = O
    BY <1>6, Grows
  <2> QED
    BY <1>5, <2>1 DEF UpTo
<1>7. ASSUME tok(q) # "NL"
      PROVE  UpTo(o, q) = n + 1
  <2>1. tok(q) \notin CSpace
    BY <1>7 DEF CSpace, Blank
  <2>2. Operands(NonBlank(i, q + 1)) = O \cup {q}
    BY <2>1, Grows
  <2> HIDE DEF O
  <2>0. PICK b \in Nat : O \in SUBSET (1 .. b) /\ b < q
    <3>1. p - 1 < q
      OBVIOUS
    <3> QED
      BY <1>1, <3>1
  <2>3. Cardinality(O \cup {q}) = n + 1
    <3>1. Cardinality(O \cup {q}) = Cardinality(O) + 1
      BY <2>0, OneMorePlace
    <3>2. n = Cardinality(O)
      BY Zenon DEF O
    <3> QED
      BY <3>1, <3>2, Zenon
  <2>4. UpTo(o, q) = Cardinality(Operands(NonBlank(i, q + 1)))
    BY <1>5 DEF UpTo
  <2> QED
    BY <2>2, <2>3, <2>4
<1> HIDE DEF O
<1>8. tok(q) # "NL" => n + 1 <= Cardinality(o)
  BY <1>2, <1>7
<1> QED
  BY <1>2, <1>3, <1>4, <1>6, <1>7, <1>8

------------------------------------------------------------------------------
(* What a reading makes of a line *)

\* What may come next when keyword k has read n things.
Goes(k, n, t) ==
  /\ t = "NL" => Item(k, n + 1) = "imm" /\ ~ Complete(k, n)
  /\ t # "NL" => Fits(k, Item(k, n + 1), t) /\ (Complete(k, n) => k = ".byte")

LEMMA Longer ==
  ASSUME NEW k \in Keyword,
         NEW i \in Nat, 1 <= i, NEW p \in Nat, i <= p, NEW q \in Nat, p <= q,
         Only(p, q, CSpace), tok(q) \notin Blank,
         NEW c \in Nat, q < c, IsOperands(k, NonBlank(i, c)),
         NEW n \in Nat, n = Cardinality(Operands(NonBlank(i, p)))
  PROVE  Goes(k, n, tok(q))
<1> DEFINE o == Operands(NonBlank(i, c))
           l == Cardinality(o)
<1>1. /\ n \in Nat /\ l \in Nat
      /\ tok(q) = "NL" => q \in NonBlank(i, c) \ o /\ UpTo(o, q) = n
      /\ tok(q) # "NL" => q \in o /\ UpTo(o, q) = n + 1 /\ n + 1 <= l
  BY Ahead
<1>2. /\ Complete(k, l)
      /\ \A j \in o : Fits(k, Item(k, UpTo(o, j)), tok(j))
      /\ \A j \in NonBlank(i, c) \ o : UpTo(o, j) < l /\ Item(k, UpTo(o, j) + 1) = "imm"
  BY DEF IsOperands
<1> HIDE DEF o, l
<1>3. ASSUME tok(q) = "NL"
      PROVE  Item(k, n + 1) = "imm" /\ ~ Complete(k, n)
  <2>1. n < l /\ Item(k, n + 1) = "imm"
    BY <1>1, <1>2, <1>3
  <2>2. CASE k = ".byte"
    <3>1. (n + 1) % 2 = 1
      BY <1>1, <2>1, <2>2 DEF Item
    <3>2. n % 2 # 1
      BY <1>1, <3>1
    <3> QED
      BY <2>1, <2>2, <3>2 DEF Complete
  <2>3. CASE k # ".byte"
    BY <1>1, <1>2, <2>1, <2>3 DEF Complete
  <2> QED
    BY <2>2, <2>3
<1>4. ASSUME tok(q) # "NL"
      PROVE  Fits(k, Item(k, n + 1), tok(q)) /\ (Complete(k, n) => k = ".byte")
  <2>1. Fits(k, Item(k, n + 1), tok(q)) /\ n + 1 <= l
    BY <1>1, <1>2, <1>4
  <2> QED
    BY <1>1, <1>2, <2>1 DEF Complete
<1> QED
  BY <1>3, <1>4 DEF Goes

LEMMA ApartLess ==
  ASSUME NEW R \in SUBSET Nat, NEW s \in Nat, NEW c \in Nat, Apart(R, s, c), NEW p \in Nat, p <= c
  PROVE  Apart(R, s, p)
<1> SUFFICES ASSUME NEW b \in R, s <= b, b < p PROVE FALSE
  BY DEF Apart
<1>1. b \in Nat /\ b < c
  OBVIOUS
<1> QED
  BY <1>1 DEF Apart

LEMMA ReadingIs ==
  ASSUME input \in Inputs, NEW R \in Readings
  PROVE  /\ R \in SUBSET Nat /\ R \in SUBSET Ends /\ R \in SUBSET (1 .. Len(input) + 1)
         /\ Len(input) + 1 \in R
         /\ \A c \in R : RightCut(R, c) /\ tok(c) \in {"NL", "NUL"}
<1>1. R \in SUBSET Ends /\ Len(input) + 1 \in R /\ \A c \in R : RightCut(R, c)
  BY DEF Readings
<1>2. R \in SUBSET (1 .. Len(input) + 1)
  BY <1>1, PlacesOfText
<1>3. \A c \in R : tok(c) \in {"NL", "NUL"}
  BY <1>1 DEF Ends
<1> QED
  BY <1>1, <1>2, <1>3

\* Where the line at s can end, of which p is a place, q what comes after p.
LEMMA KeywordEnd ==
  ASSUME input \in Inputs, NEW R \in Readings, NEW s \in Nat, 1 <= s, s <= Len(input) + 1,
         Covered(R, s), NEW p \in Nat, Apart(R, s, p), NEW f \in Nat, f = Skip(s, Blank), f < p,
         NEW q \in Nat, p <= q, Only(p, q, CSpace), tok(q) \notin Blank,
         NEW n \in Nat, n = Cardinality(Operands(NonBlank(f + 1, p))),
         NEW k \in Keyword, k = tok(f)
  PROVE  \E c \in R :
           /\ c \in Nat /\ p <= c /\ c <= Len(input) + 1 /\ tok(c) \in {"NL", "NUL"} /\ Apart(R, s, c)
           /\ c <= q => Complete(k, n)
           /\ q < c => Goes(k, n, tok(q))
<1>0. f \in Nat /\ s <= f
  BY SkipBlanks
<1>1. PICK c \in R : /\ c \in Nat /\ s <= c /\ c <= Len(input) + 1 /\ tok(c) \in {"NL", "NUL"}
                     /\ Apart(R, s, c) /\ IsSentence(NonBlank(s, c))
  BY NextCut
<1>2. p <= c
  BY <1>1 DEF Apart
<1>3. f < c /\ f + 1 \in Nat /\ 1 <= f + 1 /\ f + 1 <= p /\ f + 1 <= c
  BY <1>0, <1>1, <1>2
<1>5. IsOperands(k, NonBlank(f + 1, c))
  <2>1. tok(f) \in Keyword
    OBVIOUS
  <2>2. IsOperands(tok(f), NonBlank(f + 1, c))
    BY <1>1, <1>3, <2>1, SentenceOpens
  <2> QED
    BY <2>2, Zenon
<1>6. ASSUME c <= q
      PROVE  Complete(k, n)
  <2>1. Only(p, c, CSpace)
    BY <1>1, <1>6 DEF Only
  <2>2. Operands(NonBlank(f + 1, c)) = Operands(NonBlank(f + 1, p))
    BY <1>1, <1>2, <1>3, <2>1, Grows
  <2>3. Complete(k, Cardinality(Operands(NonBlank(f + 1, c))))
    BY <1>5 DEF IsOperands
  <2> QED
    BY <2>2, <2>3
<1>7. ASSUME q < c
      PROVE  Goes(k, n, tok(q))
  BY <1>1, <1>3, <1>5, <1>7, Longer
<1> QED
  BY <1>1, <1>2, <1>6, <1>7

LEMMA LabelEnd ==
  ASSUME input \in Inputs, NEW R \in Readings, NEW s \in Nat, 1 <= s, s <= Len(input) + 1,
         Covered(R, s), NEW p \in Nat, Apart(R, s, p), NEW f \in Nat, f = Skip(s, Blank), f < p,
         NEW q \in Nat, p <= q, \A m \in p .. q - 1 : tok(m) \in Blank, tok(q) \notin Blank,
         tok(f) \notin Keyword
  PROVE  \E c \in R :
           /\ c \in Nat /\ p <= c /\ c <= Len(input) + 1 /\ tok(c) \in {"NL", "NUL"} /\ Apart(R, s, c)
           /\ c <= q => NonBlank(f + 1, p) # {}
           /\ q < c => NonBlank(f + 1, p) = {} /\ tok(q) = ":"
           /\ IsIdentifier(tok(f))
<1>0. f \in Nat /\ s <= f
  BY SkipBlanks
<1>1. PICK c \in R : /\ c \in Nat /\ s <= c /\ c <= Len(input) + 1 /\ tok(c) \in {"NL", "NUL"}
                     /\ Apart(R, s, c) /\ IsSentence(NonBlank(s, c))
  BY NextCut
<1>2. p <= c
  BY <1>1 DEF Apart
<1>3. f < c /\ f + 1 \in Nat /\ 1 <= f + 1 /\ f + 1 <= p /\ f + 1 <= c
  BY <1>0, <1>1, <1>2
<1>5. IsIdentifier(tok(f)) /\ \E i \in NonBlank(f + 1, c) : NonBlank(f + 1, c) = {i} /\ tok(i) = ":"
  BY <1>1, <1>3, SentenceOpens
<1>6. ASSUME c <= q
      PROVE  NonBlank(f + 1, p) # {}
  <2>1. \A m \in NonBlank(f + 1, c) : m \in NonBlank(f + 1, p)
    <3> TAKE m \in NonBlank(f + 1, c)
    <3>1. m \in f + 1 .. c - 1 /\ tok(m) \notin Blank
      BY DEF NonBlank
    <3>2. m \notin p .. q - 1
      BY <3>1
    <3>3. m \in f + 1 .. p - 1
      BY <1>1, <1>6, <3>1, <3>2
    <3> QED
      BY <3>1, <3>3 DEF NonBlank
  <2> QED
    BY <1>5, <2>1
<1>8. ASSUME q < c
      PROVE  NonBlank(f + 1, p) = {} /\ tok(q) = ":"
  <2>1. PICK i \in NonBlank(f + 1, c) : NonBlank(f + 1, c) = {i} /\ tok(i) = ":"
    BY <1>5
  <2>2. q \in NonBlank(f + 1, c)
    <3>1. f + 1 <= q /\ q <= c - 1
      BY <1>1, <1>3, <1>8
    <3>2. q \in f + 1 .. c - 1
      BY <1>3, <3>1
    <3> QED
      BY <3>2 DEF NonBlank
  <2>3. ASSUME NEW m \in NonBlank(f + 1, p)
        PROVE  FALSE
    <3>1. m \in NonBlank(f + 1, c) /\ m # q
      BY <1>1, <1>2, <1>3 DEF NonBlank
    <3> QED
      BY <2>1, <2>2, <3>1
  <2> QED
    BY <2>1, <2>2, <2>3
<1> QED
  BY <1>1, <1>2, <1>5, <1>6, <1>8

\* Behind blanks no line ends, and no line is opened by its end but an empty one.
LEMMA OpensLine ==
  ASSUME input \in Inputs, NEW R \in Readings, NEW s \in Nat, 1 <= s, s <= Len(input),
         Covered(R, s), NEW f \in Nat, f = Skip(s, Blank), tok(f) # "NL"
  PROVE  Apart(R, s, f + 1)
<1>1. /\ f \in Nat /\ s <= f /\ tok(f) # "blank" /\ \A m \in s .. f - 1 : tok(m) = "blank"
      /\ Len(input) \in Nat
  BY SkipBlanks, EndOfText
<1>2. PICK c \in R : /\ c \in Nat /\ s <= c /\ tok(c) \in {"NL", "NUL"}
                     /\ Apart(R, s, c) /\ (tok(c) = "NUL" => NonBlank(s, c) # {})
  BY <1>1, NextCut
<1>3. ~ (c < f)
  <2>1. c < f => c \in s .. f - 1
    BY <1>1, <1>2
  <2> QED
    BY <1>1, <1>2, <2>1
<1>4. c # f
  <2>1. NonBlank(s, f) = {}
    BY <1>1 DEF NonBlank, Blank
  <2> QED
    BY <1>2, <2>1
<1> QED
  <2>1. f + 1 \in Nat /\ f + 1 <= c
    BY <1>1, <1>2, <1>3, <1>4
  <2> QED
    BY <1>2, <2>1, ApartLess, ReadingIs

\* A byte that a comma follows is not the last of its line.
Done(f, q) == tok(f) = ".byte" => tok(q) # ","

LEMMA NothingNext ==
  ASSUME NEW k \in Keyword, NEW n \in Nat, NEW t, Complete(k, n), Goes(k, n, t)
  PROVE  k = ".byte" /\ t = ","
<1>1. t # "NL"
  BY DEF Goes
<1>2. k = ".byte" /\ Fits(k, Item(k, n + 1), t)
  BY <1>1 DEF Goes
<1>3. n % 2 = 1
  BY <1>2 DEF Complete
<1>4. (n + 1) % 2 # 1
  BY <1>3
<1>5. Item(k, n + 1) = ","
  BY <1>2, <1>4 DEF Item
<1> QED
  BY <1>2, <1>5 DEF Fits

\* A sentence that is read to its end ends its line.
LEMMA LineEnds ==
  ASSUME input \in Inputs, NEW R \in Readings, NEW s \in Nat, 1 <= s, s <= Len(input) + 1,
         Covered(R, s), NEW p \in Nat, p <= Len(input) + 1, Apart(R, s, p),
         NEW f \in Nat, f = Skip(s, Blank), f < p, IsSentence(NonBlank(s, p)),
         NEW q \in Nat, q = Skip(p, Blank), Done(f, q)
  PROVE  q \in R /\ Apart(R, s, q) /\ tok(q) \in {"NL", "NUL"}
<1>0. f \in Nat /\ s <= f
  BY SkipBlanks
<1>1. /\ 1 <= p /\ q \in Nat /\ p <= q /\ tok(q) # "blank" /\ \A m \in p .. q - 1 : tok(m) = "blank"
  <2>1. 1 <= p
    BY <1>0
  <2> QED
    BY <2>1, SkipBlanks
<1>2. /\ tok(q) \notin Blank /\ Only(p, q, CSpace)
      /\ \A m \in p .. q - 1 : tok(m) \in Blank
  BY <1>1 DEF Only, Blank, CSpace
<1> DEFINE T == NonBlank(f + 1, p)
<1>5. /\ tok(f) \in Keyword => IsOperands(tok(f), T)
      /\ tok(f) \notin Keyword => \E i \in T : T = {i}
  BY <1>0, SentenceOpens
<1> HIDE DEF T
<1>6. PICK c \in R : /\ c \in Nat /\ p <= c /\ tok(c) \in {"NL", "NUL"} /\ Apart(R, s, c)
                     /\ ~ (q < c)
  <2>1. CASE tok(f) \in Keyword
    <3> DEFINE n == Cardinality(Operands(NonBlank(f + 1, p)))
    <3>1. n \in Nat
      <4>1. Operands(NonBlank(f + 1, p)) \in SUBSET (1 .. p - 1) /\ p - 1 \in Nat
        BY <1>0, NonBlankIn
      <4> QED
        BY <4>1, PlacesFinite
    <3>2. Complete(tok(f), n)
      BY <1>5, <2>1 DEF IsOperands, T
    <3> HIDE DEF n
    <3>3. PICK c \in R : /\ c \in Nat /\ p <= c /\ tok(c) \in {"NL", "NUL"} /\ Apart(R, s, c)
                         /\ q < c => Goes(tok(f), n, tok(q))
      BY <1>1, <1>2, <2>1, <3>1, KeywordEnd DEF n
    <3>4. ~ (q < c)
      <4>1. ASSUME q < c PROVE FALSE
        BY <2>1, <3>1, <3>2, <3>3, <4>1, NothingNext DEF Done
      <4> QED
        BY <4>1
    <3> QED
      BY <3>3, <3>4
  <2>2. CASE tok(f) \notin Keyword
    BY <1>1, <1>2, <1>5, <2>2, LabelEnd DEF T
  <2> QED
    BY <2>1, <2>2
<1>7. ~ (c < q)
  <2>1. c < q => c \in p .. q - 1
    BY <1>1, <1>6
  <2> QED
    BY <1>1, <1>6, <2>1
<1>8. c = q
  BY <1>1, <1>6, <1>7
<1> QED
  BY <1>6, <1>8

------------------------------------------------------------------------------
(* From a line to the next one *)

LEMMA NothingBetween ==
  ASSUME NEW s \in Nat, NEW p \in Nat, s <= p, NEW q \in Nat, p <= q,
         \A m \in p .. q - 1 : tok(m) \in Blank
  PROVE  NonBlank(s, q) = NonBlank(s, p)
<1>1. \A m \in s .. q - 1 : m \in s .. p - 1 \/ m \in p .. q - 1
  OBVIOUS
<1>2. \A m \in s .. p - 1 : m \in s .. q - 1
  OBVIOUS
<1> QED
  BY <1>1, <1>2 DEF NonBlank

\* A reading that ends a line at q has all up to q behind it.
LEMMA CoveredNext ==
  ASSUME NEW R \in SUBSET Nat, NEW s \in Nat, 1 <= s, NEW q \in Nat, s <= q, Covered(R, s), q \in R
  PROVE  Covered(R, q + 1)
<1> SUFFICES ASSUME NEW m \in 1 .. (q + 1) - 1, tok(m) \notin Blank
             PROVE  \E b \in R : m <= b /\ b < q + 1
  BY DEF Covered
<1>1. m <= q /\ q < q + 1
  OBVIOUS
<1> QED
  BY <1>1

\* Whatever a reading makes of the lines before s, it adds the line from s to q.
LEMMA SaysNext ==
  ASSUME input \in Inputs, NEW R \in Readings, NEW s \in Nat, 1 <= s, NEW q \in Nat, s <= q,
         q \in R, Covered(R, s), Apart(R, s, q)
  PROVE  MeaningUpTo(R)[q] = MeaningUpTo(R)[s - 1] \o Meaning(NonBlank(s, q))
<1>1. R \in SUBSET Nat /\ q \in 1 .. Len(input) + 1
  BY ReadingIs
<1>2. MeaningUpTo(R)[q] = MeaningUpTo(R)[q - 1] \o Meaning(SentenceAt(R, q))
  BY <1>1, MeaningUpToIs
<1>3. MeaningUpTo(R)[q - 1] = MeaningUpTo(R)[s - 1]
  <2>1. Len(input) + 1 \in Nat
    BY PlacesOfText
  <2>2. q <= Len(input) + 2
    BY <1>1, <2>1
  <2> QED
    BY <2>2, SilentPart
<1>4. SentenceAt(R, q) = NonBlank(s, q)
  BY <1>1, SentenceIs
<1> QED
  BY <1>2, <1>3, <1>4

\* The line from s to q can be read, after those before it.
LEMMA OneMoreCut ==
  ASSUME input \in Inputs, NEW s \in Nat, 1 <= s, NEW q \in Ends, s <= q, SomeAgrees(s),
         IsSentence(NonBlank(s, q)), tok(q) = "NUL" => NonBlank(s, q) # {}
  PROVE  SomeAgrees(q + 1)
<1>1. PICK R \in SUBSET Ends : (\A b \in R : b < s) /\ Covered(R, s) /\ \A c \in R : RightCut(R, c)
  BY DEF SomeAgrees
<1> DEFINE Q == R \cup {q}
<1>2. PICK n \in Nat : Ends \in SUBSET (1 .. n)
  BY PlacesOfText
<1>3. R \in SUBSET Nat /\ Q \in SUBSET Nat /\ Q \in SUBSET Ends /\ q \in Nat /\ q \in Q
  BY <1>1, <1>2
<1>4. \A b \in Q : b < q + 1
  <2>1. \A b \in R : b \in Nat /\ b < s
    BY <1>1, <1>3
  <2> QED
    BY <1>3, <2>1
<1>5. Covered(Q, s)
  BY <1>1 DEF Covered
<1>6. Apart(Q, s, q)
  <2> SUFFICES ASSUME NEW b \in Q, s <= b, b < q PROVE FALSE
    BY DEF Apart
  <2>1. CASE b = q
    BY <1>3, <2>1
  <2>2. CASE b \in R
    BY <1>1, <1>3, <2>2
  <2> QED
    BY <2>1, <2>2
<1> HIDE DEF Q
<1>7. Covered(Q, q + 1)
  BY <1>3, <1>5, CoveredNext
<1>8. RightCut(Q, q)
  <2>1. SentenceAt(Q, q) = NonBlank(s, q)
    BY <1>3, <1>5, <1>6, SentenceIs
  <2> QED
    BY <2>1 DEF RightCut
<1>9. ASSUME NEW c \in R
      PROVE  RightCut(Q, c)
  <2>1. c \in Nat /\ c < s
    BY <1>1, <1>3
  <2>2. \A i : ~ (i <= q /\ q < c)
    BY <1>3, <2>1
  <2>3. SentenceAt(Q, c) = SentenceAt(R, c)
    BY <2>2 DEF SentenceAt, Q
  <2> QED
    BY <1>1, <2>3 DEF RightCut
<1>10. \A c \in Q : RightCut(Q, c)
  BY <1>8, <1>9 DEF Q
<1> QED
  BY <1>3, <1>4, <1>7, <1>10 DEF SomeAgrees

\* All readings end the line from s at q.
LEMMA AllGoOn ==
  ASSUME input \in Inputs, NEW s \in Nat, 1 <= s, NEW q \in Nat, s <= q,
         NEW p \in Nat, NEW base, AllAgree(s, p, base),
         \A R \in Readings : q \in R /\ Apart(R, s, q)
  PROVE  AllAgree(q + 1, q + 1, base \o Meaning(NonBlank(s, q)))
<1> SUFFICES ASSUME NEW R \in Readings
             PROVE  /\ Covered(R, q + 1) /\ Apart(R, q + 1, q + 1)
                    /\ MeaningUpTo(R)[(q + 1) - 1] = base \o Meaning(NonBlank(s, q))
  BY DEF AllAgree
<1>1. Covered(R, s) /\ MeaningUpTo(R)[s - 1] = base /\ q \in R /\ Apart(R, s, q)
  BY DEF AllAgree
<1>2. Covered(R, q + 1)
  BY <1>1, CoveredNext, ReadingIs
<1>3. Apart(R, q + 1, q + 1)
  <2>1. R \in SUBSET Nat
    BY ReadingIs
  <2> QED
    BY <2>1 DEF Apart
<1>4. MeaningUpTo(R)[q] = MeaningUpTo(R)[s - 1] \o Meaning(NonBlank(s, q))
  BY <1>1, SaysNext
<1>5. (q + 1) - 1 = q
  OBVIOUS
<1> QED
  BY <1>1, <1>2, <1>3, <1>4, <1>5

------------------------------------------------------------------------------
(* What is known inside a line *)

\* At the places T are things keyword k reads, as far as they go.
Follow(k, T) ==
  LET o == Operands(T) IN
  /\ \A i \in o : Fits(k, Item(k, UpTo(o, i)), tok(i))
  /\ \A i \in T \ o : UpTo(o, i) < Cardinality(o) /\ Item(k, UpTo(o, i) + 1) = "imm"

Words(T) == {i \in Operands(T) : tok(i) \in Word}

\* pl is what keyword k still asks for behind T, ar what it has read.
Left(k, T, pl, ar) ==
  LET n == Cardinality(Operands(T)) IN
  /\ k = ".byte" => IF n % 2 = 0 THEN pl = <<"imm">> /\ ar = <<>>
                    ELSE pl = <<>> /\ ar = <<Tokens(Operands(T))[n]>>
  /\ k # ".byte" => /\ n <= Len(Shape[k])
                    /\ pl = SubSeq(Shape[k], n + 1, Len(Shape[k]))
                    /\ ar = Tokens(Words(T))

\* What was asked of the emitter inside the line: the bytes a comma follows.
Data(t, m) == [i \in 1 .. m |-> <<"data", t[2 * i - 1]>>]

Said(k, T) ==
  IF k = ".byte" THEN Data(Tokens(Operands(T)), Cardinality(Operands(T)) \div 2) ELSE <<>>

\* Every reading makes ev of the lines before s and of what the line at s said.
Agree(s, p, ev, said) ==
  \E base : IsSeq(base) /\ ev = base \o said /\ AllAgree(s, p, base)

\* The line at s, opened by its keyword k at f, is read up to p.
MidLine(s, f, p, k, pl, ar, ev) ==
  /\ f < p /\ k \in Keyword /\ tok(f) = k
  /\ Follow(k, NonBlank(f + 1, p)) /\ Left(k, NonBlank(f + 1, p), pl, ar)
  /\ Agree(s, p, ev, Said(k, NonBlank(f + 1, p)))

\* The line at s is read, up to p.
WholeLine(s, f, p, ev) ==
  /\ f < p /\ IsSentence(NonBlank(s, p)) /\ Done(f, Skip(p, Blank))
  /\ Agree(s, p, ev, Meaning(NonBlank(s, p)))

LEMMA LineEndsAll ==
  ASSUME input \in Inputs, NEW s \in Nat, 1 <= s, s <= Len(input) + 1,
         NEW f \in Nat, f = Skip(s, Blank), NEW p \in Nat, p <= Len(input) + 1, NEW ev,
         WholeLine(s, f, p, ev), NEW q \in Nat, q = Skip(p, Blank)
  PROVE  /\ \A R \in Readings : q \in R /\ Apart(R, s, q) /\ tok(q) \in {"NL", "NUL"}
         /\ s <= p /\ p <= q /\ q <= Len(input) + 1 /\ NonBlank(s, q) = NonBlank(s, p)
         /\ NonBlank(s, p) # {}
<1>1. f < p /\ IsSentence(NonBlank(s, p)) /\ Done(f, q)
  BY DEF WholeLine
<1>2. s <= f
  BY SkipBlanks
<1>3. 1 <= p /\ s <= p
  BY <1>1, <1>2
<1>4. p <= q /\ q <= Len(input) + 1 /\ \A m \in p .. q - 1 : tok(m) \in Blank
  BY <1>3, SkipBlanks DEF Blank
<1>5. NonBlank(s, q) = NonBlank(s, p)
  BY <1>3, <1>4, NothingBetween
<1>6. ASSUME NEW R \in Readings
      PROVE  q \in R /\ Apart(R, s, q) /\ tok(q) \in {"NL", "NUL"}
  <2>1. Covered(R, s) /\ Apart(R, s, p)
    BY DEF WholeLine, Agree, AllAgree
  <2> QED
    BY <1>1, <2>1, LineEnds, SMTT(30)
<1>7. NonBlank(s, p) # {}
  BY <1>1, LineIs
<1> QED
  BY <1>3, <1>4, <1>5, <1>6, <1>7

LEMMA EndRead ==
  ASSUME input \in Inputs, NEW s \in Nat, 1 <= s, s <= Len(input) + 1,
         NEW f \in Nat, f = Skip(s, Blank), NEW p \in Nat, p <= Len(input) + 1, NEW ev,
         SomeAgrees(s), WholeLine(s, f, p, ev), NEW q \in Nat, q = Skip(p, Blank)
  PROVE  /\ tok(q) \in {"NL", "NUL"} => SomeAgrees(q + 1) /\ AllAgree(q + 1, q + 1, ev)
         /\ tok(q) \notin {"NL", "NUL"} => Readings = {}
<1>1. /\ \A R \in Readings : q \in R /\ Apart(R, s, q) /\ tok(q) \in {"NL", "NUL"}
      /\ s <= p /\ p <= q /\ q <= Len(input) + 1 /\ NonBlank(s, q) = NonBlank(s, p)
      /\ NonBlank(s, p) # {}
  BY LineEndsAll
<1>2. PICK base : ev = base \o Meaning(NonBlank(s, p)) /\ AllAgree(s, p, base)
  BY DEF WholeLine, Agree
<1>3. s <= q
  BY <1>1
<1>4. AllAgree(q + 1, q + 1, ev)
  <2>1. AllAgree(q + 1, q + 1, base \o Meaning(NonBlank(s, q)))
    BY <1>1, <1>2, <1>3, AllGoOn
  <2> QED
    BY <1>1, <1>2, <2>1, Zenon
<1>5. ASSUME tok(q) \in {"NL", "NUL"}
      PROVE  SomeAgrees(q + 1)
  <2>1. q \in Ends
    <3>1. q \in 1 .. Len(input) + 1
      BY <1>1, <1>3
    <3> QED
      BY <1>5, <3>1 DEF Ends
  <2>2. IsSentence(NonBlank(s, q)) /\ NonBlank(s, q) # {}
    BY <1>1 DEF WholeLine
  <2> QED
    BY <1>3, <2>1, <2>2, OneMoreCut
<1> QED
  BY <1>1, <1>4, <1>5

\* A newline where a line could begin is an empty line.
LEMMA EmptyLine ==
  ASSUME input \in Inputs, NEW R \in Readings, NEW s \in Nat, 1 <= s, s <= Len(input) + 1,
         Covered(R, s), tok(s) = "NL"
  PROVE  s \in R
<1>1. PICK c \in R : /\ c \in Nat /\ s <= c /\ c <= Len(input) + 1 /\ IsSentence(NonBlank(s, c))
  BY NextCut
<1>2. Skip(s, Blank) = s
  <2>1. /\ Skip(s, Blank) \in Nat /\ s <= Skip(s, Blank)
        /\ \A m \in s .. Skip(s, Blank) - 1 : tok(m) = "blank"
    BY SkipBlanks
  <2>2. s < Skip(s, Blank) => s \in s .. Skip(s, Blank) - 1
    BY <2>1
  <2> QED
    BY <2>1, <2>2
<1>3. ASSUME s < c
      PROVE  FALSE
  <2>1. tok(s) \notin Keyword
    BY Marks DEF Mark
  <2>2. IsIdentifier(tok(s))
    BY <1>1, <1>2, <1>3, <2>1, SentenceOpens
  <2> QED
    BY <2>2, LabelIs
<1> QED
  BY <1>1, <1>3

\* main steps over a blank, or an empty line.
LEMMA BlankRead ==
  ASSUME input \in Inputs, NEW s \in Nat, 1 <= s, s <= Len(input), NEW ev, IsSeq(ev),
         SomeAgrees(s), AllAgree(s, s, ev), tok(s) \in {"blank", "NL"}
  PROVE  SomeAgrees(s + 1) /\ AllAgree(s + 1, s + 1, ev)
<1>0. Len(input) \in Nat
  BY EndOfText
<1>1. CASE tok(s) = "blank"
  <2>1. s \notin Ends
    BY <1>1 DEF Ends
  <2>2. ASSUME NEW R \in SUBSET Nat, Covered(R, s)
        PROVE  Covered(R, s + 1)
    <3> SUFFICES ASSUME NEW m \in 1 .. (s + 1) - 1, tok(m) \notin Blank
                 PROVE  \E b \in R : m <= b /\ b < s + 1
      BY DEF Covered
    <3>1. m \in 1 .. s - 1
      BY <1>1 DEF Blank
    <3>2. PICK b \in R : m <= b /\ b < s
      BY <2>2, <3>1 DEF Covered
    <3>3. b < s + 1
      BY <3>2
    <3> QED
      BY <3>2, <3>3
  <2>3. SomeAgrees(s + 1)
    <3>1. PICK R \in SUBSET Ends : (\A b \in R : b < s) /\ Covered(R, s) /\ \A c \in R : RightCut(R, c)
      BY DEF SomeAgrees
    <3>2. R \in SUBSET Nat /\ \A b \in R : b < s + 1
      <4>1. R \in SUBSET Nat
        <5>1. PICK n \in Nat : Ends \in SUBSET (1 .. n)
          BY PlacesOfText
        <5> QED
          BY <5>1
      <4>2. \A b \in R : b \in Nat /\ b < s
        BY <3>1, <4>1
      <4> QED
        BY <4>1, <4>2
    <3>3. Covered(R, s + 1)
      BY <2>2, <3>1, <3>2
    <3> QED
      BY <3>1, <3>2, <3>3 DEF SomeAgrees
  <2>4. ASSUME NEW R \in Readings
        PROVE  Covered(R, s + 1) /\ Apart(R, s + 1, s + 1) /\ MeaningUpTo(R)[(s + 1) - 1] = ev
    <3>1. R \in SUBSET Nat /\ Covered(R, s) /\ MeaningUpTo(R)[s - 1] = ev
      BY ReadingIs DEF AllAgree
    <3>2. Apart(R, s + 1, s + 1)
      BY ReadingIs DEF Apart
    <3>3. s \in 1 .. Len(input) + 1 /\ s \notin R
      BY <1>0, <2>1, ReadingIs
    <3>4. MeaningUpTo(R)[s] = ev
      BY <3>1, <3>3, MeaningUpToIs
    <3>5. (s + 1) - 1 = s
      OBVIOUS
    <3> QED
      BY <2>2, <3>1, <3>2, <3>4, <3>5
  <2> QED
    BY <2>3, <2>4 DEF AllAgree
<1>2. CASE tok(s) = "NL"
  <2>1. s \in Ends
    <3>1. s \in 1 .. Len(input) + 1
      BY <1>0
    <3> QED
      BY <1>2, <3>1 DEF Ends
  <2>2. NonBlank(s, s) = {} /\ IsSentence(NonBlank(s, s)) /\ Meaning(NonBlank(s, s)) = <<>>
    <3>1. NonBlank(s, s) = {}
      BY DEF NonBlank
    <3> QED
      BY <3>1 DEF IsSentence, Meaning
  <2>3. SomeAgrees(s + 1)
    <3>1. IsSentence(NonBlank(s, s)) /\ tok(s) # "NUL" /\ s <= s
      BY <1>2, <2>2
    <3> QED
      BY <2>1, <3>1, OneMoreCut
  <2>4. AllAgree(s + 1, s + 1, ev \o <<>>)
    <3>1. \A R \in Readings : s \in R /\ Apart(R, s, s)
      <4> TAKE R \in Readings
      <4>1. Covered(R, s) /\ Apart(R, s, s)
        BY DEF AllAgree
      <4>2. s <= Len(input) + 1
        BY <1>0
      <4> QED
        BY <1>2, <4>1, <4>2, EmptyLine
    <3>2. AllAgree(s + 1, s + 1, ev \o Meaning(NonBlank(s, s)))
      BY <3>1, AllGoOn
    <3> QED
      BY <2>2, <3>2
  <2>5. ev \o <<>> = ev
    BY NothingJoined
  <2> QED
    BY <2>3, <2>4, <2>5
<1> QED
  BY <1>1, <1>2

------------------------------------------------------------------------------
(* What is left of a line *)

LEMMA WhatRemains ==
  ASSUME NEW s \in Seq(Asked), NEW n \in Nat, n <= Len(s)
  PROVE  /\ SubSeq(s, 1, Len(s)) = s
         /\ SubSeq(s, n + 1, Len(s)) = <<>> <=> n = Len(s)
         /\ n < Len(s) => /\ Head(SubSeq(s, n + 1, Len(s))) = s[n + 1] /\ s[n + 1] \in Asked
                          /\ Tail(SubSeq(s, n + 1, Len(s))) = SubSeq(s, n + 2, Len(s))
<1>1. SubSeq(s, 1, Len(s)) = s
  OBVIOUS
<1> DEFINE t == SubSeq(s, n + 1, Len(s))
           u == SubSeq(s, n + 2, Len(s))
           l == Len(s)
<1>2. /\ t \in Seq(Asked) /\ Len(t) = l - n /\ \A i \in 1 .. l - n : t[i] = s[n + i]
      /\ l \in Nat /\ n <= l
  OBVIOUS
<1>3. ASSUME n < l
      PROVE  u \in Seq(Asked) /\ Len(u) = l - n - 1 /\ \A i \in 1 .. l - n - 1 : u[i] = s[n + 1 + i]
  BY <1>3
<1> HIDE DEF t, u, l
<1>4. t = <<>> <=> n = l
  BY <1>2
<1>5. ASSUME n < l
      PROVE  Head(t) = s[n + 1] /\ s[n + 1] \in Asked /\ Tail(t) = u
  <2>1. t # <<>>
    BY <1>4, <1>5
  <2>2. Head(t) = t[1] /\ t[1] \in Asked /\ 1 \in 1 .. l - n
    BY <1>2, <1>5, <2>1
  <2>3. Head(t) = s[n + 1] /\ s[n + 1] \in Asked
    BY <1>2, <2>2
  <2>4. /\ Tail(t) \in Seq(Asked) /\ Len(Tail(t)) = l - n - 1
        /\ \A i \in 1 .. l - n - 1 : Tail(t)[i] = t[i + 1]
    BY <1>2, <2>1
  <2>5. \A i \in 1 .. l - n - 1 : Tail(t)[i] = u[i]
    <3> TAKE i \in 1 .. l - n - 1
    <3>1. i + 1 \in 1 .. l - n /\ n + (i + 1) = n + 1 + i
      BY <1>2
    <3> QED
      BY <1>2, <1>3, <1>5, <2>4, <3>1
  <2>6. Tail(t) = u
    BY <1>3, <1>5, <2>4, <2>5
  <2> QED
    BY <2>3, <2>6
<1> QED
  BY <1>1, <1>4, <1>5 DEF t, u, l

\* What fits is a word where one is asked for, and never white space.
LEMMA Fitting ==
  ASSUME NEW k, NEW item \in Asked, NEW t, Fits(k, item, t)
  PROVE  /\ t \in Word <=> item \in {"reg", "imm", "label"}
         /\ t \notin CSpace /\ t \notin Blank /\ t # "NL"
<1>1. CASE item \in {"reg", "imm", "label"}
  <2>1. t \in Word
    BY <1>1 DEF Fits, IsIdentifier, Word
  <2> QED
    BY <1>1, <2>1, WordsAssumption DEF Mark, CSpace, Blank
<1>2. CASE item \notin {"reg", "imm", "label"}
  <2>1. t = item /\ t \in {"quote", ",", "(", ")"}
    BY <1>2 DEF Fits, Asked
  <2>2. t \notin Word
    BY <2>1, WordsAssumption DEF Mark
  <2> QED
    BY <1>2, <2>1, <2>2 DEF CSpace, Blank
<1> QED
  BY <1>1, <1>2

LEMMA ByteShape == Shape[".byte"] = <<"imm">>
<1>1. ".byte" \in Keyword
  BY DEF Keyword
<1> QED
  BY <1>1 DEF Shape

\* The plan is what the operands lack.
LEMMA PlanIs ==
  ASSUME NEW k \in Keyword, NEW T, NEW pl, NEW ar, Left(k, T, pl, ar),
         NEW n \in Nat, n = Cardinality(Operands(T))
  PROVE  /\ pl = <<>> <=> Complete(k, n)
         /\ pl # <<>> => Head(pl) = Item(k, n + 1) /\ Head(pl) \in Asked
<1>1. CASE k = ".byte"
  <2>1. IF n % 2 = 0 THEN pl = <<"imm">> ELSE pl = <<>>
    BY <1>1 DEF Left
  <2>2. CASE n % 2 = 0
    <3>1. (n + 1) % 2 = 1 /\ n % 2 # 1
      BY <2>2
    <3>2. pl = <<"imm">> /\ pl # <<>> /\ Head(pl) = "imm"
      <4>1. pl = <<"imm">>
        BY <2>1, <2>2, Zenon
      <4>2. <<"imm">> # <<>> /\ Head(<<"imm">>) = "imm"
        OBVIOUS
      <4> QED
        BY <4>1, <4>2, Zenon
    <3>3. ~ Complete(k, n)
      BY <1>1, <3>1 DEF Complete
    <3>4. Item(k, n + 1) = "imm"
      BY <1>1, <3>1 DEF Item
    <3>5. "imm" \in Asked
      BY DEF Asked
    <3> QED
      BY <3>2, <3>3, <3>4, <3>5, Zenon
  <2>3. CASE n % 2 # 0
    <3>1. n % 2 = 1
      BY <2>3
    <3> QED
      BY <1>1, <2>1, <2>3, <3>1 DEF Complete
  <2> QED
    BY <2>2, <2>3
<1>2. CASE k # ".byte"
  <2> DEFINE h == Shape[k]
  <2>1. h \in Seq(Asked)
    BY Plans
  <2>2. n <= Len(h) /\ pl = SubSeq(h, n + 1, Len(h))
    BY <1>2 DEF Left
  <2> HIDE DEF h
  <2>3. pl = <<>> <=> n = Len(h)
    BY <2>1, <2>2, WhatRemains
  <2>4. pl # <<>> => n < Len(h) /\ Head(pl) = h[n + 1] /\ h[n + 1] \in Asked
    BY <2>1, <2>2, <2>3, WhatRemains
  <2>5. n < Len(h) => n + 1 <= Len(h)
    BY <2>1
  <2> QED
    BY <1>2, <2>3, <2>4, <2>5 DEF Complete, Item, h
<1> QED
  BY <1>1, <1>2

------------------------------------------------------------------------------
(* A line begins *)

LEMMA NothingYet ==
  ASSUME NEW k \in Keyword
  PROVE  Follow(k, {}) /\ Left(k, {}, Shape[k], <<>>) /\ Said(k, {}) = <<>>
<1>1. Operands({}) = {} /\ Words({}) = {} /\ Cardinality({}) = 0 /\ Tokens({}) = <<>>
  BY NoTokens DEF Operands, Words
<1>2. Follow(k, {})
  BY <1>1 DEF Follow
<1>3. Left(k, {}, Shape[k], <<>>)
  <2> DEFINE h == Shape[k]
  <2>1. h \in Seq(Asked)
    BY Plans
  <2> HIDE DEF h
  <2>2. 0 <= Len(h) /\ h = SubSeq(h, 0 + 1, Len(h))
    <3>1. 0 \in Nat /\ 0 <= Len(h) /\ 0 + 1 = 1
      BY <2>1
    <3> QED
      BY <2>1, <3>1, WhatRemains
  <2>3. k = ".byte" => h = <<"imm">>
    BY ByteShape, Zenon DEF h
  <2>4. 0 % 2 = 0
    OBVIOUS
  <2> QED
    BY <1>1, <2>2, <2>3, <2>4, Zenon DEF Left, h
<1>4. Said(k, {}) = <<>>
  <2>1. 0 \div 2 = 0
    OBVIOUS
  <2>2. \A t : Data(t, 0) = <<>>
    BY DEF Data
  <2> QED
    BY <1>1, <2>1, <2>2 DEF Said
<1> QED
  BY <1>2, <1>3, <1>4

LEMMA NothingFrom ==
  ASSUME NEW i \in Nat
  PROVE  NonBlank(i, i) = {}
BY DEF NonBlank

LEMMA KeywordRead ==
  ASSUME input \in Inputs, NEW s \in Nat, 1 <= s, s <= Len(input),
         NEW f \in Nat, f = Skip(s, Blank), NEW k \in Keyword, tok(f) = k,
         NEW ev, IsSeq(ev), AllAgree(s, s, ev)
  PROVE  MidLine(s, f, f + 1, k, Shape[k], <<>>, ev)
<1>1. tok(f) # "NL"
  BY Marks DEF Mark
<1>2. NonBlank(f + 1, f + 1) = {}
  BY NothingFrom
<1>3. AllAgree(s, f + 1, ev)
  <2> SUFFICES ASSUME NEW R \in Readings
               PROVE  Covered(R, s) /\ Apart(R, s, f + 1) /\ MeaningUpTo(R)[s - 1] = ev
    BY DEF AllAgree
  <2>1. Covered(R, s) /\ MeaningUpTo(R)[s - 1] = ev
    BY DEF AllAgree
  <2> QED
    BY <1>1, <2>1, OpensLine
<1>4. Agree(s, f + 1, ev, <<>>)
  <2>1. ev = ev \o <<>>
    BY NothingJoined
  <2> QED
    BY <1>3, <2>1 DEF Agree
<1>5. Follow(k, {}) /\ Left(k, {}, Shape[k], <<>>) /\ Said(k, {}) = <<>>
  BY NothingYet
<1>6. f < f + 1
  OBVIOUS
<1> QED
  BY <1>2, <1>4, <1>5, <1>6 DEF MidLine

LEMMA LabelRead ==
  ASSUME input \in Inputs, NEW s \in Nat, 1 <= s, s <= Len(input),
         NEW f \in Nat, f = Skip(s, Blank), tok(f) \notin Keyword \cup {"NL"},
         NEW ev, IsSeq(ev), AllAgree(s, s, ev),
         NEW g \in Nat, g = f + 1, NEW q \in Nat, g <= q, tok(q) \notin Blank,
         \A m \in g .. q - 1 : tok(m) \in Blank
  PROVE  IF IsIdentifier(tok(f)) /\ tok(q) = ":"
         THEN WholeLine(s, f, q + 1, Append(ev, <<"label", tok(f)>>))
         ELSE Readings = {}
<1>0. Len(input) \in Nat
  BY EndOfText
<1>1. ASSUME NEW R \in Readings
      PROVE  /\ Covered(R, s) /\ MeaningUpTo(R)[s - 1] = ev
             /\ IsIdentifier(tok(f)) /\ tok(q) = ":" /\ Apart(R, s, q + 1)
  <2>1. Covered(R, s) /\ MeaningUpTo(R)[s - 1] = ev /\ s <= Len(input) + 1
    BY <1>0 DEF AllAgree
  <2>2. Apart(R, s, g) /\ NonBlank(f + 1, g) = {} /\ f < g /\ tok(f) \notin Keyword
    BY <2>1, OpensLine, NothingFrom
  <2>3. PICK c \in R : /\ c \in Nat /\ g <= c /\ Apart(R, s, c)
                       /\ c <= q => NonBlank(f + 1, g) # {}
                       /\ q < c => tok(q) = ":"
                       /\ IsIdentifier(tok(f))
    BY <2>1, <2>2, LabelEnd
  <2>4. q < c /\ q + 1 <= c /\ q + 1 \in Nat
    BY <2>2, <2>3
  <2>5. Apart(R, s, q + 1)
    BY <2>3, <2>4, ApartLess, ReadingIs
  <2> QED
    BY <2>1, <2>3, <2>4, <2>5
<1>2. ASSUME IsIdentifier(tok(f)), tok(q) = ":"
      PROVE  WholeLine(s, f, q + 1, Append(ev, <<"label", tok(f)>>))
  <2> DEFINE p == q + 1
  <2>1. AllAgree(s, p, ev)
    BY <1>1 DEF AllAgree
  <2>2. NonBlank(f + 1, p) = {q}
    <3>1. NonBlank(f + 1, q) = NonBlank(f + 1, f + 1)
      BY NothingBetween
    <3>2. NonBlank(f + 1, p) = NonBlank(f + 1, q) \cup {q}
      <4>1. \A m \in f + 1 .. p - 1 : m \in f + 1 .. q - 1 \/ m = q
        OBVIOUS
      <4>2. q \in f + 1 .. p - 1 /\ \A m \in f + 1 .. q - 1 : m \in f + 1 .. p - 1
        OBVIOUS
      <4> QED
        BY <4>1, <4>2 DEF NonBlank
    <3> QED
      BY <3>1, <3>2, NothingFrom
  <2>3. f < p /\ p \in Nat /\ s <= Len(input) + 1 /\ tok(f) \notin Keyword
    BY <1>0
  <2> HIDE DEF p
  <2>4. IsSentence(NonBlank(s, p))
    <3>1. \E i \in NonBlank(f + 1, p) : NonBlank(f + 1, p) = {i} /\ tok(i) = ":"
      BY <1>2, <2>2
    <3> QED
      BY <1>2, <2>3, <3>1, SentenceOpens
  <2>5. Meaning(NonBlank(s, p)) = << <<"label", tok(f)>> >>
    BY <2>3, SentenceSays
  <2>6. Done(f, Skip(p, Blank))
    BY <2>3 DEF Done, Keyword
  <2>7. Append(ev, <<"label", tok(f)>>) = ev \o Meaning(NonBlank(s, p))
    BY <2>5, Appended
  <2> QED
    BY <2>1, <2>3, <2>4, <2>6, <2>7 DEF WholeLine, Agree, p
<1> QED
  BY <1>1, <1>2

------------------------------------------------------------------------------
(* One more operand *)


\* The operand at q comes behind T with its n operands O, which makes it U with V.
Grown(p, q, T, U, O, V, n) ==
  /\ O \in SUBSET (1 .. p - 1) /\ p - 1 \in Nat /\ p - 1 < q
  /\ n \in Nat /\ n = Cardinality(O) /\ O = Operands(T) /\ V = Operands(U)
  /\ V = O \cup {q} /\ Cardinality(V) = n + 1 /\ UpTo(V, q) = n + 1
  /\ \A j \in O : UpTo(V, j) = UpTo(O, j)
  /\ \A j \in U \ V : \/ j \in T \ O /\ UpTo(V, j) = UpTo(O, j)
                      \/ j \in p .. q - 1 /\ tok(j) = "NL" /\ UpTo(V, j) = n

LEMMA OperandNext ==
  ASSUME NEW i \in Nat, 1 <= i, NEW p \in Nat, i <= p, NEW q \in Nat, p <= q,
         Only(p, q, CSpace), tok(q) \notin CSpace
  PROVE  Grown(p, q, NonBlank(i, p), NonBlank(i, q + 1), Operands(NonBlank(i, p)),
               Operands(NonBlank(i, q + 1)), Cardinality(Operands(NonBlank(i, p))))
<1> DEFINE T == NonBlank(i, p)
           U == NonBlank(i, q + 1)
           O == Operands(T)
           V == Operands(U)
           W == O \cup {q}
           N == {m \in p .. q - 1 : tok(m) = "NL"}
           n == Cardinality(O)
<1>1. O \in SUBSET (1 .. p - 1) /\ p - 1 \in Nat /\ p - 1 < q
  BY NonBlankIn
<1>2. V = W /\ U = (T \cup N) \cup {q}
  <2>1. tok(q) \notin Blank
    BY DEF CSpace, Blank
  <2>2. NonBlank(i, q) = T \cup NewlinesIn(p, q)
    BY Grows
  <2>3. V = W
    BY Grows
  <2>4. U = NonBlank(i, q) \cup {q}
    BY <2>1, Grows
  <2>5. N = NewlinesIn(p, q)
    BY DEF NewlinesIn
  <2> HIDE DEF N, T, U, V, W
  <2> QED
    BY <2>2, <2>3, <2>4, <2>5, Zenon
<1>6. \A j \in T : j \in 0 .. q - 1
  BY DEF NonBlank
<1>7. O \subseteq T /\ V \subseteq U /\ O = Operands(T) /\ V = Operands(U)
  BY DEF Operands
<1> HIDE DEF T, U, V, O
<1>4. PICK b \in Nat : O \in SUBSET (1 .. b) /\ b < q /\ b = p - 1
  BY <1>1
<1>3. n \in Nat
  BY <1>4, PlacesFinite
<1>5. /\ Cardinality(W) = n + 1 /\ UpTo(W, q) = n + 1
      /\ \A j \in 0 .. q - 1 : UpTo(W, j) = UpTo(O, j)
      /\ \A j \in b .. q : UpTo(O, j) = n
  <2>1. Cardinality(W) = n + 1 /\ UpTo(W, q) = n + 1
    BY <1>4, OneMorePlace, ZenonT(60)
  <2>2. \A j \in 0 .. q - 1 : UpTo(W, j) = UpTo(O, j)
    BY <1>4, OneMorePlace, ZenonT(60)
  <2>3. \A j \in b .. q : UpTo(O, j) = n
    BY <1>4, OneMorePlace, ZenonT(60)
  <2> QED
    BY <2>1, <2>2, <2>3
<1> HIDE DEF W
<1>8. \A j \in O : UpTo(V, j) = UpTo(O, j)
  BY <1>2, <1>5, <1>6, <1>7
<1>9. ASSUME NEW j \in U \ V
      PROVE  \/ j \in T \ O /\ UpTo(V, j) = UpTo(O, j)
             \/ j \in p .. q - 1 /\ tok(j) = "NL" /\ UpTo(V, j) = n
  <2>1. CASE j \in T
    BY <1>2, <1>5, <1>6, <2>1 DEF W
  <2>2. CASE j \notin T
    <3>1. j \in p .. q - 1 /\ tok(j) = "NL"
      BY <1>2, <2>2 DEF W
    <3>2. j \in 0 .. q - 1 /\ j \in b .. q
      BY <1>4, <3>1
    <3> QED
      BY <1>2, <1>5, <3>1, <3>2
  <2> QED
    BY <2>1, <2>2
<1>10. V = O \cup {q}
  BY <1>2 DEF W
<1>11. n = Cardinality(O) /\ Cardinality(V) = n + 1 /\ UpTo(V, q) = n + 1
  BY <1>2, <1>5
<1> HIDE DEF n
<1>12. Grown(p, q, T, U, O, V, n)
  BY <1>1, <1>3, <1>7, <1>8, <1>9, <1>10, <1>11 DEF Grown
<1> QED
  BY <1>12 DEF T, U, O, V, n

LEMMA FollowNext ==
  ASSUME NEW k \in Keyword, NEW p \in Nat, NEW q \in Nat,
         NEW T, NEW U, NEW O, NEW V, NEW n, Grown(p, q, T, U, O, V, n),
         Follow(k, T), Fits(k, Item(k, n + 1), tok(q)),
         Item(k, n + 1) = "imm" \/ Only(p, q, Blank)
  PROVE  Follow(k, U)
<1>1. /\ \A j \in O : Fits(k, Item(k, UpTo(O, j)), tok(j))
      /\ \A j \in T \ O : UpTo(O, j) < n /\ Item(k, UpTo(O, j) + 1) = "imm"
  BY DEF Follow, Grown
<1>2. /\ n \in Nat /\ V = O \cup {q} /\ Cardinality(V) = n + 1 /\ UpTo(V, q) = n + 1
      /\ \A j \in O : UpTo(V, j) = UpTo(O, j)
      /\ \A j \in U \ V : \/ j \in T \ O /\ UpTo(V, j) = UpTo(O, j)
                          \/ j \in p .. q - 1 /\ tok(j) = "NL" /\ UpTo(V, j) = n
  BY DEF Grown
<1>3. ASSUME NEW j \in V
      PROVE  Fits(k, Item(k, UpTo(V, j)), tok(j))
  <2>1. CASE j = q
    BY <1>2, <2>1
  <2>2. CASE j \in O
    BY <1>1, <1>2, <2>2
  <2> QED
    BY <1>2, <2>1, <2>2
<1>5. ASSUME NEW j \in U \ V
      PROVE  UpTo(V, j) < n + 1 /\ Item(k, UpTo(V, j) + 1) = "imm"
  <2>1. CASE j \in T \ O /\ UpTo(V, j) = UpTo(O, j)
    <3>1. UpTo(O, j) < n /\ Item(k, UpTo(O, j) + 1) = "imm"
      BY <1>1, <2>1
    <3>2. UpTo(O, j) \in Nat
      <4>1. O \in SUBSET (1 .. p - 1) /\ p - 1 \in Nat
        BY DEF Grown
      <4> QED
        BY <4>1, PlacesFinite
    <3>3. UpTo(O, j) < n + 1
      BY <1>2, <3>1, <3>2
    <3> QED
      BY <2>1, <3>1, <3>3
  <2>2. CASE j \in p .. q - 1 /\ tok(j) = "NL" /\ UpTo(V, j) = n
    <3>1. ~ Only(p, q, Blank)
      BY <2>2 DEF Only, Blank
    <3>2. Item(k, n + 1) = "imm"
      BY <3>1
    <3>3. n < n + 1
      BY <1>2
    <3> QED
      BY <2>2, <3>2, <3>3
  <2> QED
    BY <1>2, <2>1, <2>2
<1>6. Cardinality(V) = n + 1 /\ V = Operands(U)
  BY DEF Grown
<1> QED
  BY <1>3, <1>5, <1>6 DEF Follow

LEMMA SaidNext ==
  ASSUME NEW b \in Nat, NEW O \in SUBSET (1 .. b), NEW q \in Nat, b < q
  PROVE  /\ Data(Tokens(O \cup {q}), Cardinality(O) \div 2) = Data(Tokens(O), Cardinality(O) \div 2)
         /\ Cardinality(O) % 2 # 0 =>
              Data(Tokens(O \cup {q}), (Cardinality(O) + 1) \div 2)
                = Data(Tokens(O), Cardinality(O) \div 2) \o << <<"data", Tokens(O)[Cardinality(O)]>> >>
<1> DEFINE n == Cardinality(O)
<1>1. n \in Nat
  BY PlacesFinite
<1>2. \A i \in 1 .. n : Tokens(O \cup {q})[i] = Tokens(O)[i]
  BY TokensNext
<1> DEFINE m == n \div 2
           t == Tokens(O)
           u == Tokens(O \cup {q})
<1>3. m \in Nat /\ 2 * m <= n
  BY <1>1
<1> HIDE DEF n, m, t, u
<1>4. \A i \in 1 .. m : u[2 * i - 1] = t[2 * i - 1]
  <2>1. \A i \in 1 .. m : 2 * i - 1 \in 1 .. n
    BY <1>1, <1>3
  <2> QED
    BY <1>2, <2>1 DEF t, u
<1>5. Data(u, m) = Data(t, m)
  BY <1>4 DEF Data
<1>7. ASSUME n % 2 # 0
      PROVE  /\ (n + 1) % 2 = 0
             /\ Data(u, (n + 1) \div 2) = Data(t, m) \o << <<"data", t[n]>> >>
  <2>1. (n + 1) % 2 = 0 /\ (n + 1) \div 2 = m + 1 /\ n = 2 * m + 1
    BY <1>1, <1>7 DEF m
  <2>2. 2 * (m + 1) - 1 = n /\ n \in 1 .. n
    BY <1>1, <1>3, <2>1
  <2>3. u[n] = t[n]
    BY <1>2, <2>2 DEF t, u
  <2> DEFINE d == Data(t, m)
             e == Data(u, m + 1)
             X == {d[i] : i \in 1 .. m} \cup {<<"data", t[n]>>}
  <2>4. /\ d = [i \in 1 .. m |-> d[i]] /\ e = [i \in 1 .. m + 1 |-> e[i]]
        /\ DOMAIN d = 1 .. m
        /\ \A i \in 1 .. m : d[i] = <<"data", t[2 * i - 1]>>
        /\ \A i \in 1 .. m + 1 : e[i] = <<"data", u[2 * i - 1]>>
    BY DEF Data
  <2> HIDE DEF d, e
  <2>5. \A i \in 1 .. m : d[i] \in X
    OBVIOUS
  <2>6. <<"data", t[n]>> \in X
    OBVIOUS
  <2> HIDE DEF X
  <2>7. d \in Seq(X) /\ Len(d) = m
    <3>1. [i \in 1 .. m |-> d[i]] \in Seq(X) /\ Len([i \in 1 .. m |-> d[i]]) = m
      BY <1>3, <2>5
    <3> QED
      BY <2>4, <3>1, Zenon
  <2> DEFINE w == <<"data", t[n]>>
             c == d \o <<w>>
  <2>8. w \in X
    BY <2>6
  <2> HIDE DEF w
  <2>9. /\ c \in Seq(X) /\ Len(c) = m + 1 /\ \A i \in 1 .. m : c[i] = d[i]
        /\ c[m + 1] = w
    BY <1>3, <2>7, <2>8
  <2> HIDE DEF c
  <2>10. c = [i \in 1 .. m + 1 |-> c[i]]
    <3>1. c \in [1 .. m + 1 -> X]
      BY <2>9
    <3> QED
      BY <3>1
  <2>11. \A i \in 1 .. m + 1 : c[i] = e[i]
    <3> TAKE i \in 1 .. m + 1
    <3>1. CASE i = m + 1
      <4>1. e[i] = <<"data", u[2 * i - 1]>>
        BY <2>4
      <4>2. 2 * i - 1 = n
        BY <2>2, <3>1
      <4>3. e[i] = w
        BY <2>3, <4>1, <4>2 DEF w
      <4> QED
        BY <2>9, <3>1, <4>3
    <3>2. CASE i # m + 1
      <4>1. i \in 1 .. m
        BY <1>3, <3>2
      <4>2. e[i] = <<"data", u[2 * i - 1]>> /\ d[i] = <<"data", t[2 * i - 1]>>
        BY <2>4, <4>1
      <4>3. u[2 * i - 1] = t[2 * i - 1]
        BY <1>4, <4>1
      <4> QED
        BY <2>9, <4>1, <4>2, <4>3
    <3> QED
      BY <3>1, <3>2
  <2>12. c = e
    BY <2>4, <2>10, <2>11
  <2> QED
    BY <2>1, <2>12 DEF c, d, e, w
<1> QED
  BY <1>5, <1>7 DEF n, m, t, u

LEMMA SaidLast ==
  ASSUME NEW b \in Nat, NEW O \in SUBSET (1 .. b), Cardinality(O) % 2 # 0
  PROVE  Elements(Tokens(O)) = Data(Tokens(O), Cardinality(O) \div 2) \o << <<"data", Tokens(O)[Cardinality(O)]>> >>
<1> DEFINE n == Cardinality(O)
           q == b + 1
           m == (n + 1) \div 2
           t == Tokens(O)
           u == Tokens(O \cup {q})
<1>1. n \in Nat /\ q \in Nat /\ b < q /\ Len(t) = n
  <2>1. n \in Nat
    BY PlacesFinite
  <2>2. Len(t) = n
    BY TokensSeq
  <2>3. q \in Nat /\ b < q
    OBVIOUS
  <2> QED
    BY <2>1, <2>2, <2>3
<1>2. Data(u, m) = Data(t, n \div 2) \o << <<"data", t[n]>> >>
  BY <1>1, SaidNext
<1>3. \A i \in 1 .. n : u[i] = t[i]
  BY <1>1, TokensNext
<1>4. m \in Nat /\ 2 * m <= n + 1
  BY <1>1
<1> HIDE DEF n, q, m, t, u
<1>5. \A i \in 1 .. m : u[2 * i - 1] = t[2 * i - 1]
  <2>1. \A i \in 1 .. m : 2 * i - 1 \in 1 .. n
    BY <1>1, <1>4
  <2> QED
    BY <1>3, <2>1
<1>6. Data(u, m) = Data(t, m)
  BY <1>5 DEF Data
<1>7. Elements(t) = Data(t, m)
  BY <1>1 DEF Elements, Data, m
<1> QED
  BY <1>2, <1>6, <1>7 DEF t, n

\* args after the item t.
Taken(item, t, ar) == IF item \in {"reg", "imm", "label"} THEN Append(ar, t) ELSE ar

LEMMA LeftNext ==
  ASSUME NEW k \in Keyword, NEW p \in Nat, NEW q \in Nat,
         NEW T, NEW U, NEW O, NEW V, NEW n, Grown(p, q, T, U, O, V, n),
         NEW pl, NEW ar, Left(k, T, pl, ar), pl # <<>>, Fits(k, Head(pl), tok(q))
  PROVE  Left(k, U, Tail(pl), Taken(Head(pl), tok(q), ar)) /\ Said(k, U) = Said(k, T)
<1> DEFINE br == Taken(Head(pl), tok(q), ar)
<1>0. br = IF Head(pl) \in {"reg", "imm", "label"} THEN Append(ar, tok(q)) ELSE ar
  BY DEF Taken
<1> HIDE DEF br
<1>1. /\ n \in Nat /\ n = Cardinality(O) /\ O = Operands(T) /\ V = Operands(U)
      /\ V = O \cup {q} /\ Cardinality(V) = n + 1
  BY DEF Grown
<1>2. PICK b \in Nat : O \in SUBSET (1 .. b) /\ b < q
  BY DEF Grown
<1>3. Head(pl) = Item(k, n + 1) /\ Head(pl) \in Asked /\ ~ Complete(k, n)
  BY <1>1, PlanIs
<1>4. tok(q) \in Word <=> Head(pl) \in {"reg", "imm", "label"}
  BY <1>3, Fitting
<1>5. CASE k = ".byte"
  <2>1. n % 2 = 0
    <3>1. n % 2 # 1
      BY <1>3, <1>5 DEF Complete
    <3> QED
      BY <1>1, <3>1
  <2>2. (n + 1) \div 2 = n \div 2 /\ (n + 1) % 2 # 0
        /\ Data(Tokens(V), n \div 2) = Data(Tokens(O), n \div 2)
    <3>0. n \in Nat
      BY <1>1
    <3>1. (n + 1) \div 2 = n \div 2 /\ (n + 1) % 2 # 0
      BY <2>1, <3>0
    <3>2. n = Cardinality(O)
      BY <1>1
    <3>3. Data(Tokens(O \cup {q}), Cardinality(O) \div 2) = Data(Tokens(O), Cardinality(O) \div 2)
      BY <1>2, SaidNext
    <3>4. V = O \cup {q}
      BY <1>1
    <3> QED
      BY <3>1, <3>2, <3>3, <3>4, Zenon
  <2>3. Said(k, U) = Said(k, T)
    BY <1>1, <1>5, <2>2 DEF Said
  <2>4. pl = <<"imm">> /\ ar = <<>>
    BY <1>1, <1>5, <2>1 DEF Left
  <2>5. Tail(<<"imm">>) = <<>> /\ Head(<<"imm">>) = "imm" /\ Append(<<>>, tok(q)) = <<tok(q)>>
    OBVIOUS
  <2>6. Tail(pl) = <<>> /\ br = <<tok(q)>>
    BY <1>0, <2>4, <2>5
  <2>7. Tokens(V)[n + 1] = tok(q)
    BY <1>1, <1>2, TokensNext
  <2>8. Left(k, U, <<>>, <<tok(q)>>)
    <3>1. br = <<Tokens(Operands(U))[Cardinality(Operands(U))]>>
      BY <1>1, <2>6, <2>7, Zenon
    <3>2. ~ (Cardinality(Operands(U)) % 2 = 0)
      BY <1>1, <2>2, Zenon
    <3> QED
      BY <1>5, <2>6, <3>1, <3>2, Zenon DEF Left
  <2> QED
    BY <2>3, <2>6, <2>8, Zenon DEF br
<1>6. CASE k # ".byte"
  <2> DEFINE h == Shape[k]
  <2>1. h \in Seq(Asked)
    BY Plans
  <2>2. n <= Len(h) /\ pl = SubSeq(h, n + 1, Len(h)) /\ ar = Tokens(Words(T))
    BY <1>1, <1>6 DEF Left
  <2>3. n # Len(h)
    BY <1>3, <1>6 DEF Complete
  <2> HIDE DEF h
  <2>0. n \in Nat
    BY <1>1
  <2>4. n < Len(h) /\ n + 1 <= Len(h)
    BY <2>0, <2>1, <2>2, <2>3
  <2>5. Tail(pl) = SubSeq(h, n + 2, Len(h))
    BY <2>0, <2>1, <2>2, <2>4, WhatRemains, SMTT(30)
  <2>6. br = Tokens(Words(U))
    <3> DEFINE A == Words(T)
    <3>0. A = {i \in O : tok(i) \in Word} /\ Words(U) = {i \in V : tok(i) \in Word}
      BY <1>1, Zenon DEF Words
    <3>1. CASE tok(q) \in Word
      <4>1. Words(U) = A \cup {q}
        BY <1>1, <3>0, <3>1
      <4>2. A \in SUBSET (1 .. b)
        BY <1>2, <3>0
      <4> HIDE DEF A
      <4>3. Tokens(A \cup {q}) = Append(Tokens(A), tok(q))
        BY <1>2, <4>2, TokensNext
      <4>4. br = Append(ar, tok(q))
        BY <1>0, <1>4, <3>1, Zenon
      <4> QED
        BY <2>2, <4>1, <4>3, <4>4, Zenon DEF A
    <3>2. CASE tok(q) \notin Word
      <4>1. Words(U) = A
        BY <1>1, <3>0, <3>2
      <4>2. br = ar
        BY <1>0, <1>4, <3>2, Zenon
      <4> QED
        BY <2>2, <4>1, <4>2, Zenon DEF A
    <3> QED
      BY <3>1, <3>2
  <2>7. Said(k, U) = Said(k, T)
    BY <1>6 DEF Said
  <2>8. (n + 1) + 1 = n + 2
    BY <1>1
  <2>9. Left(k, U, Tail(pl), br)
    BY <1>1, <1>6, <2>4, <2>5, <2>6, <2>8, Zenon DEF Left, h
  <2> QED
    BY <2>7, <2>9 DEF br
<1> QED
  BY <1>5, <1>6

\* Every reading of a line whose operands lack something goes on with it.
LEMMA MoreToRead ==
  ASSUME input \in Inputs, NEW s \in Nat, 1 <= s, s <= Len(input) + 1,
         NEW f \in Nat, f = Skip(s, Blank), NEW p \in Nat, f < p,
         NEW k \in Keyword, k = tok(f), NEW base, AllAgree(s, p, base),
         NEW n \in Nat, n = Cardinality(Operands(NonBlank(f + 1, p))),
         NEW q \in Nat, p <= q, Only(p, q, CSpace), tok(q) \notin Blank,
         ~ Complete(k, n) \/ (Only(p, q, Blank) /\ tok(q) \notin {"NL", "NUL"})
  PROVE  /\ AllAgree(s, q + 1, base)
         /\ Readings # {} => Goes(k, n, tok(q))
<1>1. ASSUME NEW R \in Readings
      PROVE  /\ Covered(R, s) /\ Apart(R, s, q + 1) /\ MeaningUpTo(R)[s - 1] = base
             /\ Goes(k, n, tok(q))
  <2>1. Covered(R, s) /\ Apart(R, s, p) /\ MeaningUpTo(R)[s - 1] = base
    BY DEF AllAgree
  <2>2. PICK c \in R : /\ c \in Nat /\ p <= c /\ tok(c) \in {"NL", "NUL"} /\ Apart(R, s, c)
                       /\ c <= q => Complete(k, n)
                       /\ q < c => Goes(k, n, tok(q))
    <3>1. \A m \in p .. q - 1 : tok(m) \in CSpace
      BY DEF Only
    <3> QED
      BY <2>1, <3>1, KeywordEnd
  <2>3. ASSUME c <= q
        PROVE  FALSE
    <3>1. Only(p, q, Blank) /\ tok(q) \notin {"NL", "NUL"}
      BY <2>2, <2>3
    <3>2. c # q
      BY <2>2, <3>1
    <3>3. c \in p .. q - 1
      BY <2>2, <2>3, <3>2
    <3>4. tok(c) \in Blank
      BY <3>1, <3>3 DEF Only
    <3> QED
      BY <2>2, <3>4 DEF Blank
  <2>4. q < c /\ q + 1 <= c /\ q + 1 \in Nat
    BY <2>2, <2>3
  <2>5. Apart(R, s, q + 1)
    BY <2>2, <2>4, ApartLess, ReadingIs
  <2> QED
    BY <2>1, <2>2, <2>4, <2>5
<1> QED
  BY <1>1 DEF AllAgree

LEMMA OperandRead ==
  ASSUME input \in Inputs, NEW s \in Nat, 1 <= s, s <= Len(input) + 1,
         NEW f \in Nat, f = Skip(s, Blank), NEW p \in Nat, NEW k, NEW pl, NEW ar, NEW ev,
         MidLine(s, f, p, k, pl, ar, ev), pl # <<>>,
         NEW item, item = Head(pl), NEW S, S = IF item = "imm" THEN CSpace ELSE Blank,
         NEW q \in Nat, p <= q, Only(p, q, S), tok(q) \notin S
  PROVE  /\ Fits(k, item, tok(q)) => MidLine(s, f, q + 1, k, Tail(pl), Taken(item, tok(q), ar), ev)
         /\ ~ Fits(k, item, tok(q)) => Readings = {}
<1>1. /\ f < p /\ k \in Keyword /\ tok(f) = k
      /\ Follow(k, NonBlank(f + 1, p)) /\ Left(k, NonBlank(f + 1, p), pl, ar)
      /\ Agree(s, p, ev, Said(k, NonBlank(f + 1, p)))
  BY DEF MidLine
<1> DEFINE T == NonBlank(f + 1, p)
           U == NonBlank(f + 1, q + 1)
           n == Cardinality(Operands(T))
<1>2. f + 1 \in Nat /\ 1 <= f + 1 /\ f + 1 <= p /\ f < q + 1
  BY <1>1
<1>3. n \in Nat
  <2>1. Operands(T) \in SUBSET (1 .. p - 1) /\ p - 1 \in Nat
    BY <1>2, NonBlankIn
  <2> QED
    BY <2>1, PlacesFinite
<1>4. item = Item(k, n + 1) /\ item \in Asked /\ ~ Complete(k, n)
  <2>1. Left(k, T, pl, ar)
    BY <1>1
  <2> HIDE DEF T
  <2>2. Head(pl) = Item(k, n + 1) /\ Head(pl) \in Asked /\ ~ Complete(k, n)
    BY <1>1, <1>3, <2>1, PlanIs
  <2> QED
    BY <2>2, Zenon
<1>5. /\ Only(p, q, CSpace) /\ tok(q) \notin Blank
      /\ item = "imm" => tok(q) # "NL"
      /\ item # "imm" => Only(p, q, Blank)
  BY DEF Only, CSpace, Blank
<1>6. PICK base : IsSeq(base) /\ ev = base \o Said(k, T) /\ AllAgree(s, p, base)
  BY <1>1 DEF Agree
<1>7. AllAgree(s, q + 1, base) /\ (Readings # {} => Goes(k, n, tok(q)))
  BY <1>1, <1>3, <1>4, <1>5, <1>6, MoreToRead
<1>8. ASSUME Fits(k, item, tok(q))
      PROVE  MidLine(s, f, q + 1, k, Tail(pl), Taken(item, tok(q), ar), ev)
  <2>1. tok(q) \notin CSpace
    BY <1>4, <1>8, Fitting
  <2>2. Grown(p, q, T, U, Operands(T), Operands(U), n)
    BY <1>2, <1>5, <2>1, OperandNext
  <2>3. Follow(k, T) /\ Left(k, T, pl, ar)
    BY <1>1
  <2> HIDE DEF T, U, n
  <2>4. Follow(k, U)
    <3>1. Fits(k, Item(k, n + 1), tok(q)) /\ (Item(k, n + 1) = "imm" \/ Only(p, q, Blank))
      BY <1>4, <1>5, <1>8, Zenon
    <3> QED
      BY <1>1, <2>2, <2>3, <3>1, FollowNext
  <2>5. Left(k, U, Tail(pl), Taken(item, tok(q), ar)) /\ Said(k, U) = Said(k, T)
    <3>1. Fits(k, Head(pl), tok(q)) /\ k \in Keyword
      BY <1>1, <1>8, Zenon
    <3>2. Left(k, U, Tail(pl), Taken(Head(pl), tok(q), ar)) /\ Said(k, U) = Said(k, T)
      BY <2>2, <2>3, <3>1, LeftNext
    <3> QED
      BY <3>2, Zenon
  <2>6. Agree(s, q + 1, ev, Said(k, U))
    BY <1>6, <1>7, <2>5, Zenon DEF Agree
  <2> QED
    BY <1>1, <1>2, <2>4, <2>5, <2>6, Zenon DEF MidLine, U
<1>9. ASSUME ~ Fits(k, item, tok(q)), Readings # {}
      PROVE  FALSE
  <2>1. Goes(k, n, tok(q))
    BY <1>7, <1>9
  <2> HIDE DEF n
  <2>2. tok(q) = "NL" => Item(k, n + 1) = "imm"
    BY <2>1 DEF Goes
  <2>3. tok(q) # "NL"
    BY <1>4, <1>5, <2>2, Zenon
  <2>4. Fits(k, Item(k, n + 1), tok(q))
    BY <2>1, <2>3 DEF Goes
  <2> QED
    BY <1>4, <1>9, <2>4, Zenon
<1> QED
  BY <1>8, <1>9

LEMMA OperandsRead ==
  ASSUME NEW k \in Keyword, NEW T, NEW pl, NEW ar, Follow(k, T), Left(k, T, pl, ar), pl = <<>>,
         NEW b \in Nat, T \in SUBSET (1 .. b)
  PROVE  /\ IsOperands(k, T) /\ Complete(k, Cardinality(Operands(T))) /\ Cardinality(Operands(T)) \in Nat
         /\ Operands(T) \in SUBSET (1 .. b)
<1>1. Operands(T) \in SUBSET (1 .. b)
  BY DEF Operands
<1>2. Cardinality(Operands(T)) \in Nat
  BY <1>1, PlacesFinite
<1>3. Complete(k, Cardinality(Operands(T)))
  BY <1>2, PlanIs
<1> QED
  BY <1>1, <1>2, <1>3 DEF Follow, IsOperands

\* An instruction or a directive is read.
LEMMA EmitRead ==
  ASSUME input \in Inputs, NEW s \in Nat, 1 <= s, s <= Len(input) + 1,
         NEW f \in Nat, f = Skip(s, Blank), NEW p \in Nat, NEW k, NEW ar, NEW ev,
         MidLine(s, f, p, k, <<>>, ar, ev), k # ".byte"
  PROVE  WholeLine(s, f, p, ev \o Effect(k, ar))
<1> DEFINE T == NonBlank(f + 1, p)
<1>1. /\ f < p /\ k \in Keyword /\ tok(f) = k
      /\ Follow(k, T) /\ Left(k, T, <<>>, ar)
      /\ Agree(s, p, ev, Said(k, T))
  BY DEF MidLine
<1>2. T \in SUBSET (1 .. p - 1) /\ p - 1 \in Nat
  <2>1. f + 1 \in Nat /\ 1 <= f + 1 /\ f + 1 <= p
    BY <1>1
  <2> QED
    BY <2>1, NonBlankIn
<1>3. T = NonBlank(f + 1, p)
  OBVIOUS
<1> HIDE DEF T
<1>4. IsOperands(k, T)
  BY <1>1, <1>2, OperandsRead
<1>5. IsSentence(NonBlank(s, p))
  BY <1>1, <1>4, SentenceOpens DEF T
<1>6. Meaning(NonBlank(s, p)) = Effect(k, ar)
  <2>1. Meaning(NonBlank(s, p)) =
           IF tok(f) \notin Keyword THEN << <<"label", tok(f)>> >>
           ELSE IF tok(f) = ".byte" THEN Elements(Tokens(Operands(T))) \o << <<"pad">> >>
           ELSE Effect(tok(f), Tokens({i \in Operands(T) : tok(i) \in Word}))
    BY <1>1, <1>3, SentenceSays
  <2>2. ar = Tokens({i \in Operands(T) : tok(i) \in Word})
    BY <1>1 DEF Left, Words
  <2> QED
    BY <1>1, <2>1, <2>2, Zenon
<1>7. PICK base : IsSeq(base) /\ ev = base \o Said(k, T) /\ AllAgree(s, p, base)
  BY <1>1 DEF Agree
<1>8. ev = base
  <2>1. Said(k, T) = <<>>
    BY DEF Said
  <2> QED
    BY <1>7, <2>1, NothingJoined
<1>9. Agree(s, p, ev \o Effect(k, ar), Meaning(NonBlank(s, p)))
  BY <1>6, <1>7, <1>8, Zenon DEF Agree
<1> QED
  BY <1>1, <1>5, <1>9, Zenon DEF WholeLine, Done

\* The last element of .byte, and another one after a comma.
LEMMA ElementRead ==
  ASSUME input \in Inputs, NEW s \in Nat, 1 <= s, s <= Len(input) + 1,
         NEW f \in Nat, f = Skip(s, Blank), NEW p \in Nat, NEW k, NEW ar, NEW ev,
         MidLine(s, f, p, k, <<>>, ar, ev), k = ".byte",
         NEW q \in Nat, q = Skip(p, Blank), p <= q, Only(p, q, Blank), tok(q) \notin Blank
  PROVE  /\ tok(q) = "," => MidLine(s, f, q + 1, k, <<"imm">>, <<>>, ev \o Effect(k, ar))
         /\ tok(q) # "," => WholeLine(s, f, p, (ev \o Effect(k, ar)) \o << <<"pad">> >>)
<1> DEFINE T == NonBlank(f + 1, p)
           U == NonBlank(f + 1, q + 1)
           O == Operands(T)
           V == Operands(U)
           n == Cardinality(O)
           e == << <<"data", Tokens(O)[n]>> >>
           said == Data(Tokens(O), n \div 2)
<1>1. /\ f < p /\ k \in Keyword /\ tok(f) = k
      /\ Follow(k, T) /\ Left(k, T, <<>>, ar)
      /\ Agree(s, p, ev, Said(k, T))
  BY DEF MidLine
<1>2. T \in SUBSET (1 .. p - 1) /\ p - 1 \in Nat /\ f + 1 \in Nat /\ 1 <= f + 1 /\ f + 1 <= p
  <2>1. f + 1 \in Nat /\ 1 <= f + 1 /\ f + 1 <= p
    BY <1>1
  <2> QED
    BY <2>1, NonBlankIn
<1>3. /\ T = NonBlank(f + 1, p) /\ U = NonBlank(f + 1, q + 1) /\ O = Operands(T) /\ V = Operands(U)
      /\ n = Cardinality(O)
  OBVIOUS
<1> HIDE DEF T, U, O, V, n
<1>4. IsOperands(k, T) /\ Complete(k, n) /\ n \in Nat /\ O \in SUBSET (1 .. p - 1)
  <2>1. /\ IsOperands(k, T) /\ Complete(k, Cardinality(Operands(T))) /\ Cardinality(Operands(T)) \in Nat
        /\ Operands(T) \in SUBSET (1 .. p - 1)
    BY <1>1, <1>2, OperandsRead
  <2> QED
    BY <1>3, <2>1, Zenon
<1>5. n % 2 = 1
  BY <1>4 DEF Complete
<1>6. n % 2 # 0 /\ (n + 1) % 2 # 1 /\ (n + 1) % 2 = 0
  BY <1>4, <1>5
<1>7. ar = <<Tokens(O)[n]>>
  BY <1>1, <1>3, <1>6, Zenon DEF Left
<1>8. Effect(k, ar) = e
  <2>1. ar[1] = Tokens(O)[n]
    BY <1>7
  <2>2. Effect(k, ar) = << <<"data", ar[1]>> >>
    BY DEF Effect
  <2> QED
    BY <2>1, <2>2
<1>9. Said(k, T) = said
  BY <1>3, Zenon DEF Said
<1>10. PICK base : IsSeq(base) /\ ev = base \o said /\ AllAgree(s, p, base)
  BY <1>1, <1>9 DEF Agree
<1>11. IsSeq(said) /\ IsSeq(e) /\ IsSeq(<< <<"pad">> >>)
  <2>1. n \div 2 \in Nat
    BY <1>4
  <2>2. DOMAIN said = 1 .. n \div 2 /\ said = [i \in 1 .. n \div 2 |-> said[i]]
    BY DEF Data
  <2> HIDE DEF said
  <2>3. IsSeq(said)
    BY <2>1, <2>2, SeqIs
  <2> QED
    BY <2>3, Short
<1> HIDE DEF said, e
<1>12. (base \o said) \o e = base \o (said \o e)
  <2>1. IsSeq(base)
    BY <1>10
  <2>2. Grouped(base, said, e)
    BY <1>11, <2>1, Associative
  <2> QED
    BY <2>2, Zenon DEF Grouped
<1>13. ASSUME tok(q) = ","
       PROVE  MidLine(s, f, q + 1, k, <<"imm">>, <<>>, ev \o Effect(k, ar))
  <2>1. Only(p, q, CSpace) /\ tok(q) \notin CSpace /\ tok(q) \notin {"NL", "NUL"}
    BY <1>13 DEF Only, CSpace, Blank
  <2>2. Grown(p, q, T, U, O, V, n)
    BY <1>2, <2>1, OperandNext DEF T, U, O, V, n
  <2>3. Item(k, n + 1) = ","
    BY <1>6 DEF Item
  <2>4. Follow(k, U)
    <3>1. Fits(k, Item(k, n + 1), tok(q))
      BY <1>13, <2>3 DEF Fits
    <3> QED
      BY <1>1, <2>2, <3>1, FollowNext
  <2>5. Cardinality(V) = n + 1 /\ V = O \cup {q}
    BY <2>2 DEF Grown
  <2>6. Left(k, U, <<"imm">>, <<>>)
    BY <1>3, <1>6, <2>5, Zenon DEF Left
  <2>7. Said(k, U) = said \o e
    <3>1. p - 1 \in Nat /\ p - 1 < q
      BY <1>2
    <3>0. Cardinality(O) % 2 # 0
      BY <1>3, <1>6, Zenon
    <3>2. Data(Tokens(O \cup {q}), (Cardinality(O) + 1) \div 2)
            = Data(Tokens(O), Cardinality(O) \div 2) \o << <<"data", Tokens(O)[Cardinality(O)]>> >>
      <4>1. O \in SUBSET (1 .. p - 1)
        BY <1>4
      <4> QED
        BY <3>0, <3>1, <4>1, SaidNext, Zenon
    <3>3. Said(k, U) = Data(Tokens(V), Cardinality(V) \div 2)
      BY <1>3, Zenon DEF Said
    <3> QED
      BY <1>3, <2>5, <3>2, <3>3, Zenon DEF said, e
  <2>8. AllAgree(s, q + 1, base)
    <3>1. n = Cardinality(Operands(NonBlank(f + 1, p)))
      BY <1>3
    <3>2. k = tok(f) /\ k \in Keyword /\ f < p
      BY <1>1
    <3> QED
      BY <1>4, <1>10, <2>1, <3>1, <3>2, MoreToRead
  <2>9. Agree(s, q + 1, ev \o Effect(k, ar), Said(k, U))
    <3>1. ev \o Effect(k, ar) = base \o Said(k, U)
      BY <1>8, <1>10, <1>12, <2>7, Zenon
    <3> QED
      BY <1>10, <2>8, <3>1, Zenon DEF Agree
  <2>10. f < q + 1
    BY <1>1
  <2> QED
    BY <1>1, <1>3, <2>4, <2>6, <2>9, <2>10, Zenon DEF MidLine
<1>14. ASSUME tok(q) # ","
       PROVE  WholeLine(s, f, p, (ev \o Effect(k, ar)) \o << <<"pad">> >>)
  <2>1. IsSentence(NonBlank(s, p))
    BY <1>1, <1>4, SentenceOpens DEF T
  <2>2. Meaning(NonBlank(s, p)) = (said \o e) \o << <<"pad">> >>
    <3>1. Meaning(NonBlank(s, p)) =
             IF tok(f) \notin Keyword THEN << <<"label", tok(f)>> >>
             ELSE IF tok(f) = ".byte" THEN Elements(Tokens(Operands(T))) \o << <<"pad">> >>
             ELSE Effect(tok(f), Tokens({i \in Operands(T) : tok(i) \in Word}))
      BY <1>1, <1>3, SentenceSays
    <3>2. Elements(Tokens(O)) = said \o e
      <4>1. Cardinality(O) % 2 # 0
        BY <1>3, <1>6
      <4>2. Elements(Tokens(O)) = Data(Tokens(O), Cardinality(O) \div 2) \o << <<"data", Tokens(O)[Cardinality(O)]>> >>
        BY <1>2, <1>4, <4>1, SaidLast
      <4> QED
        BY <1>3, <4>2, Zenon DEF said, e
    <3> QED
      BY <1>1, <1>3, <3>1, <3>2, Zenon
  <2>3. (ev \o Effect(k, ar)) \o << <<"pad">> >> = base \o Meaning(NonBlank(s, p))
    <3>1. IsSeq(base)
      BY <1>10
    <3> DEFINE z == << <<"pad">> >>
    <3>2. IsSeq(z)
      BY <1>11
    <3> HIDE DEF z
    <3>3. ((base \o said) \o e) \o z = base \o ((said \o e) \o z)
      <4>1. Regrouped(base, said, e, z)
        BY <1>11, <3>1, <3>2, AssociativeOfFour
      <4> QED
        BY <4>1, Zenon DEF Regrouped
    <3> QED
      BY <1>8, <1>10, <2>2, <3>3, Zenon DEF z
  <2>4. Agree(s, p, (ev \o Effect(k, ar)) \o << <<"pad">> >>, Meaning(NonBlank(s, p)))
    BY <1>10, <2>3, Zenon DEF Agree
  <2>5. Done(f, Skip(p, Blank))
    BY <1>14 DEF Done
  <2> QED
    BY <1>1, <2>1, <2>4, <2>5, Zenon DEF WholeLine
<1> QED
  BY <1>13, <1>14

------------------------------------------------------------------------------
(* Labels are not defined again *)

\* Nothing of t defines a label.
Labelless(t) == \A i \in DOMAIN t : t[i][1] # "label"

LEMMA LawfulLonger ==
  ASSUME NEW s, NEW t, IsSeq(s), IsSeq(t), Lawful(s), Labelless(t)
  PROVE  Lawful(s \o t)
<1> DEFINE u == s \o t
           m == Len(s)
<1>1. /\ m \in Nat /\ Len(t) \in Nat /\ IsSeq(u) /\ Len(u) = m + Len(t)
      /\ \A i \in 1 .. m : u[i] = s[i]
      /\ \A i \in 1 .. Len(t) : u[m + i] = t[i]
  BY Joined
<1>2. DOMAIN s = 1 .. m /\ DOMAIN t = 1 .. Len(t) /\ DOMAIN u = 1 .. m + Len(t)
  BY <1>1, DomainIs
<1>3. ASSUME NEW i \in DOMAIN u, u[i][1] = "label"
      PROVE  i \in 1 .. m
  <2>1. CASE i \in 1 .. m
    BY <2>1
  <2>2. CASE i \notin 1 .. m
    <3>1. i - m \in 1 .. Len(t) /\ m + (i - m) = i
      BY <1>1, <1>2, <2>2
    <3>2. u[i] = t[i - m]
      BY <1>1, <3>1
    <3> HIDE DEF u
    <3> QED
      BY <1>2, <1>3, <3>1, <3>2 DEF Labelless
  <2> QED
    BY <2>1, <2>2
<1> HIDE DEF u, m
<1>4. ASSUME NEW i \in DOMAIN u, NEW j \in DOMAIN u, i < j, u[i][1] = "label", u[i] = u[j]
      PROVE  \E k \in 1 .. i - 1 : u[k] = <<"reference", u[i][2]>>
  <2>1. i \in 1 .. m /\ j \in 1 .. m
    BY <1>3, <1>4
  <2>2. s[i] = u[i] /\ s[j] = u[j]
    BY <1>1, <2>1
  <2>3. PICK k \in 1 .. i - 1 : s[k] = <<"reference", s[i][2]>>
    BY <1>2, <1>4, <2>1, <2>2 DEF Lawful
  <2>4. k \in 1 .. m
    BY <1>1, <2>1
  <2> QED
    BY <1>1, <2>2, <2>3, <2>4
<1>5. Lawful(u)
  BY <1>4 DEF Lawful
<1> QED
  BY <1>5 DEF u

LEMMA LawfulDefinition ==
  ASSUME NEW s, NEW l, IsSeq(s), Lawful(s), ~ Assigned(s, l)
  PROVE  Lawful(Append(s, <<"label", l>>))
<1> DEFINE e == <<"label", l>>
           u == Append(s, e)
           m == Len(s)
<1>1. /\ m \in Nat /\ DOMAIN s = 1 .. m /\ DOMAIN u = 1 .. m + 1
      /\ \A i \in 1 .. m : u[i] = s[i]
      /\ u[m + 1] = e
  BY Extended
<1>2. e[2] = l
  OBVIOUS
<1> HIDE DEF u, m, e
<1>3. ASSUME NEW i \in DOMAIN u, NEW j \in DOMAIN u, i < j, u[i][1] = "label", u[i] = u[j]
      PROVE  \E k \in 1 .. i - 1 : u[k] = <<"reference", u[i][2]>>
  <2>1. i \in 1 .. m /\ s[i] = u[i]
    BY <1>1, <1>3
  <2>2. PICK k \in 1 .. i - 1 : s[k] = <<"reference", s[i][2]>>
    <3>1. CASE j = m + 1
      <4>1. s[i] = e
        BY <1>1, <1>3, <2>1, <3>1
      <4>2. \E k \in 1 .. i - 1 : s[k] = <<"reference", l>>
        BY <1>1, <2>1, <4>1 DEF Assigned, e
      <4> QED
        BY <1>2, <4>1, <4>2
    <3>2. CASE j # m + 1
      <4>1. j \in 1 .. m /\ s[j] = u[j]
        BY <1>1, <3>2
      <4> QED
        BY <1>1, <1>3, <2>1, <4>1 DEF Lawful
    <3> QED
      BY <3>1, <3>2
  <2>3. k \in 1 .. m
    BY <1>1, <2>1
  <2> QED
    BY <1>1, <2>1, <2>2, <2>3
<1>4. Lawful(u)
  BY <1>3 DEF Lawful
<1> QED
  BY <1>4 DEF u, e

\* Whatever follows, a label that has a value was defined again.
LEMMA Redefined ==
  ASSUME NEW s, NEW l, NEW b, IsSeq(s), IsSeq(b), Assigned(s, l)
  PROVE  ~ Lawful(Append(s, <<"label", l>>) \o b)
<1> DEFINE e == <<"label", l>>
           t == Append(s, e)
           u == t \o b
           m == Len(s)
<1>1. /\ m \in Nat /\ DOMAIN s = 1 .. m /\ IsSeq(t) /\ Len(t) = m + 1
      /\ \A i \in 1 .. m : t[i] = s[i]
      /\ t[m + 1] = e
  BY Extended
<1>2. e[1] = "label" /\ e[2] = l
  OBVIOUS
<1> HIDE DEF t, m, e
<1>3. /\ Len(b) \in Nat /\ IsSeq(u) /\ Len(u) = m + 1 + Len(b)
      /\ \A i \in 1 .. m + 1 : u[i] = t[i]
  BY <1>1, Joined
<1>4. DOMAIN u = 1 .. m + 1 + Len(b)
  BY <1>3, DomainIs
<1> HIDE DEF u
<1>5. u[m + 1] = e /\ \A i \in 1 .. m : u[i] = s[i]
  BY <1>1, <1>3
<1>6. PICK i \in 1 .. m : s[i] = e /\ \A j \in 1 .. i - 1 : s[j] # <<"reference", l>>
  BY <1>1 DEF Assigned, e
<1>7. i \in DOMAIN u /\ m + 1 \in DOMAIN u /\ i < m + 1 /\ u[i] = e
  BY <1>1, <1>3, <1>4, <1>5, <1>6
<1>8. \A k \in 1 .. i - 1 : u[k] # <<"reference", l>>
  <2>1. \A k \in 1 .. i - 1 : k \in 1 .. m
    BY <1>1, <1>6
  <2> QED
    BY <1>5, <1>6, <2>1
<1>9. ASSUME Lawful(u)
      PROVE  FALSE
  <2>1. \E k \in 1 .. i - 1 : u[k] = <<"reference", u[i][2]>>
    BY <1>2, <1>5, <1>7, <1>9 DEF Lawful
  <2> QED
    BY <1>2, <1>7, <1>8, <2>1
<1> QED
  BY <1>9 DEF u, t, e

LEMMA MeaningSeq ==
  ASSUME input \in Inputs, NEW n \in Nat, NEW S \in SUBSET (1 .. n)
  PROVE  IsSeq(Meaning(S))
<1> DEFINE k == tok(FirstOf(S))
           o == Operands(S \ {FirstOf(S)})
<1>1. IsSeq(<<>>) /\ IsSeq(<< <<"label", k>> >>) /\ IsSeq(<< <<"pad">> >>)
  BY Short
<1>2. \A q, w : IsSeq(Effect(q, w))
  BY Short DEF Effect
<1>3. IsSeq(Tokens(o)) /\ Len(Tokens(o)) \in Nat
  <2>1. o \in SUBSET (1 .. n)
    BY DEF Operands
  <2> HIDE DEF o
  <2>2. IsSeq(Tokens(o))
    BY <2>1, TokensSeq
  <2> QED
    BY <2>2, Joined
<1> DEFINE T == Tokens(o)
<1> HIDE DEF o
<1>4. IsSeq(Elements(T))
  <2> DEFINE z == (Len(T) + 1) \div 2
             x == Elements(T)
  <2>1. z \in Nat
    BY <1>3
  <2>2. DOMAIN x = 1 .. z /\ x = [i \in 1 .. z |-> x[i]]
    BY DEF Elements
  <2> HIDE DEF z, x
  <2>3. IsSeq(x)
    BY <2>1, <2>2, SeqIs
  <2> QED
    BY <2>3 DEF x
<1>5. IsSeq(Elements(T) \o << <<"pad">> >>)
  BY <1>1, <1>4, Joined
<1>6. Meaning(S) \in {<<>>, << <<"label", k>> >>, Elements(T) \o << <<"pad">> >>}
        \/ \E q, w : Meaning(S) = Effect(q, w)
  BY Zenon DEF Meaning, T, o, k
<1> QED
  BY <1>1, <1>2, <1>5, <1>6, Zenon

\* What is said later is said behind what was said.
LEMMA MeaningGrows ==
  ASSUME input \in Inputs, NEW R, NEW c \in 1 .. Len(input) + 1, IsSeq(MeaningUpTo(R)[c])
  PROVE  \E b : IsSeq(b) /\ MeaningOf(R) = MeaningUpTo(R)[c] \o b
<1> DEFINE n == Len(input) + 1
           s == MeaningUpTo(R)[c]
           d == n - c
           P == {i \in 0 .. d : \E b : IsSeq(b) /\ MeaningUpTo(R)[c + i] = s \o b}
<1>1. n \in Nat /\ d \in Nat /\ c \in Nat
  BY PlacesOfText
<1>2. 0 \in P
  <2>1. IsSeq(<<>>) /\ c + 0 = c /\ 0 \in 0 .. d
    <3>1. IsSeq(<<>>)
      BY Short
    <3> HIDE DEF d
    <3> QED
      BY <1>1, <3>1
  <2>2. s \o <<>> = s
    <3>1. IsSeq(s)
      OBVIOUS
    <3> HIDE DEF s
    <3> QED
      BY <3>1, NothingJoined
  <2>3. MeaningUpTo(R)[c + 0] = s \o <<>>
    <3> HIDE DEF s
    <3> QED
      BY <2>1, <2>2 DEF s
  <2> HIDE DEF s, d
  <2>4. \E b : IsSeq(b) /\ MeaningUpTo(R)[c + 0] = s \o b
    BY <2>1, <2>3, Zenon
  <2> QED
    BY <2>1, <2>4
<1>3. ASSUME NEW i \in 1 .. d, i - 1 \in P
      PROVE  i \in P
  <2>1. PICK b : IsSeq(b) /\ MeaningUpTo(R)[c + (i - 1)] = s \o b
    BY <1>3
  <2>2. c + i \in 1 .. n /\ (c + i) - 1 = c + (i - 1) /\ c + i \in Nat /\ i \in 0 .. d
    BY <1>1
  <2> DEFINE a == c + i
             M == Meaning(SentenceAt(R, a))
  <2>3. MeaningUpTo(R)[a] = IF a \in R THEN (s \o b) \o M ELSE s \o b
    <3>1. MeaningUpTo(R)[a] = IF a \in R THEN MeaningUpTo(R)[a - 1] \o M ELSE MeaningUpTo(R)[a - 1]
      BY <2>2, MeaningUpToIs
    <3> HIDE DEF s, M
    <3> QED
      BY <2>1, <2>2, <3>1, Zenon
  <2>4. IsSeq(M)
    <3>1. SentenceAt(R, a) \in SUBSET (1 .. a)
      <4>1. \A z \in 1 .. a - 1 : z \in 1 .. a
        BY <2>2
      <4> HIDE DEF a
      <4> QED
        BY <4>1 DEF SentenceAt
    <3> HIDE DEF a
    <3> QED
      BY <2>2, <3>1, MeaningSeq DEF a
  <2> HIDE DEF s, M, a
  <2>5. IsSeq(b \o M) /\ (s \o b) \o M = s \o (b \o M)
    <3>1. Grouped(s, b, M)
      BY <2>1, <2>4, Associative DEF s
    <3> QED
      BY <2>1, <2>4, <3>1, Joined DEF Grouped
  <2>6. \E z : IsSeq(z) /\ MeaningUpTo(R)[a] = s \o z
    BY <2>1, <2>3, <2>5, Zenon
  <2> HIDE DEF d
  <2> QED
    BY <2>2, <2>6 DEF a
<1> HIDE DEF P
<1>4. d \in P
  <2>1. \A i \in 0 .. d : i \in P
    <3> HIDE DEF d
    <3> QED
      BY <1>1, <1>2, <1>3, StepByStep
  <2>2. d \in 0 .. d
    BY <1>1
  <2> QED
    BY <2>1, <2>2
<1>5. c + d = n
  BY <1>1
<1> HIDE DEF d, s
<1> QED
  BY <1>4, <1>5 DEF P, s, n, MeaningOf

------------------------------------------------------------------------------
(* The text does not change, and nor do its readings *)

LEMMA SameReadings ==
  ASSUME input' = input
  PROVE  /\ Quoteless' <=> Quoteless
         /\ Readings' = Readings
<1>1. Quoteless' <=> Quoteless
  BY DEF Quoteless
<1>2. Readings' = Readings
  BY DEF Readings, RightCut, Ends, SentenceAt, IsSentence, IsOperands, IsIdentifier, Operands, Fits, tok
<1> QED
  BY <1>1, <1>2

------------------------------------------------------------------------------
(* The invariant *)

\* Every reading of the text defines a label again.
Rejects == \A R \in Readings : ~ Lawful(MeaningOf(R))

\* What the reader knows at p of the line at s, in state c.
Understands(c, s, p, k, pl, ar, ev) ==
  /\ c # "string"
  /\ c = "error" => Rejects
  /\ c # "error" => SomeAgrees(s)
  /\ c \in {"line", "accepted"} => s = p /\ AllAgree(s, p, ev)
  /\ c = "accepted" => Len(input) < p /\ p <= Len(input) + 2
  /\ c = "operands" => MidLine(s, Skip(s, Blank), p, k, pl, ar, ev)
  /\ c = "end" => WholeLine(s, Skip(s, Blank), p, ev)

Understanding == Quoteless => Understands(pc, start, pos, kw, plan, args, events)

\* The operands that are read are those of a keyword.
OfKeyword == pc = "operands" => kw \in Keyword

UnderstoodInv ==
  ParserInv /\ IsSeq(events) /\ Lawful(events) /\ OfKeyword /\ Understanding

LEMMA Carried ==
  ASSUME input' = input, NEW c, NEW s, NEW p, NEW k, NEW pl, NEW ar, NEW ev,
         pc' = c, start' = s, pos' = p, kw' = k, plan' = pl, args' = ar, events' = ev,
         Quoteless => Understands(c, s, p, k, pl, ar, ev)
  PROVE  Understanding'
<1>1. Quoteless' <=> Quoteless
  BY SameReadings
<1>2. Readings' = Readings
  BY SameReadings
<1>3. SomeAgrees(start)' <=> SomeAgrees(s)
  BY DEF SomeAgrees, Covered, RightCut, Ends, SentenceAt, IsSentence, IsOperands, IsIdentifier, Operands, Fits, tok
<1>4. /\ AllAgree(start, pos, events)' <=> AllAgree(s, p, ev)
      /\ \A base : AllAgree(start, pos, base)' <=> AllAgree(s, p, base)
  <2>1. \A R : MeaningUpTo(R)' = MeaningUpTo(R)
    BY DEF MeaningUpTo, Meaning, Tokens, Effect, Elements, SentenceAt, Operands, tok
  <2>2. \A R : Covered(R, start)' <=> Covered(R, s)
    BY DEF Covered, tok
  <2>3. \A R : Apart(R, start, pos)' <=> Apart(R, s, p)
    BY DEF Apart
  <2> QED
    BY <1>2, <2>1, <2>2, <2>3 DEF AllAgree
<1>5. MidLine(start, Skip(start, Blank), pos, kw, plan, args, events)' <=> MidLine(s, Skip(s, Blank), p, k, pl, ar, ev)
  <2>1. Follow(kw, NonBlank(Skip(start, Blank) + 1, pos))' <=> Follow(k, NonBlank(Skip(s, Blank) + 1, p))
    BY DEF Follow, NonBlank, Skip, Blank, Operands, Fits, IsIdentifier, tok
  <2>2. Left(kw, NonBlank(Skip(start, Blank) + 1, pos), plan, args)'
          <=> Left(k, NonBlank(Skip(s, Blank) + 1, p), pl, ar)
    BY DEF Left, Words, Tokens, NonBlank, Skip, Blank, Operands, tok
  <2>3. Said(kw, NonBlank(Skip(start, Blank) + 1, pos))' = Said(k, NonBlank(Skip(s, Blank) + 1, p))
    BY DEF Said, Data, Tokens, NonBlank, Skip, Blank, Operands, tok
  <2>4. Agree(start, pos, events, Said(kw, NonBlank(Skip(start, Blank) + 1, pos)))'
          <=> Agree(s, p, ev, Said(k, NonBlank(Skip(s, Blank) + 1, p)))
    BY <1>4, <2>3 DEF Agree
  <2>5. Skip(start, Blank)' = Skip(s, Blank) /\ tok(Skip(start, Blank))' = tok(Skip(s, Blank))
    BY DEF Skip, Blank, tok
  <2> QED
    BY <2>1, <2>2, <2>4, <2>5 DEF MidLine
<1>6. WholeLine(start, Skip(start, Blank), pos, events)' <=> WholeLine(s, Skip(s, Blank), p, ev)
  <2>1. IsSentence(NonBlank(start, pos))' <=> IsSentence(NonBlank(s, p))
    BY DEF NonBlank, Blank, IsSentence, IsOperands, IsIdentifier, Operands, Fits, tok
  <2>2. Meaning(NonBlank(start, pos))' = Meaning(NonBlank(s, p))
    BY DEF NonBlank, Blank, Meaning, Tokens, Effect, Elements, Operands, tok
  <2>3. Agree(start, pos, events, Meaning(NonBlank(start, pos)))' <=> Agree(s, p, ev, Meaning(NonBlank(s, p)))
    BY <1>4, <2>2 DEF Agree
  <2>4. /\ Skip(start, Blank)' = Skip(s, Blank)
        /\ Done(Skip(start, Blank), Skip(pos, Blank))' <=> Done(Skip(s, Blank), Skip(p, Blank))
    BY DEF Done, Skip, Blank, tok
  <2> QED
    BY <2>1, <2>3, <2>4 DEF WholeLine
<1>7. Rejects' <=> Rejects
  <2>1. \A R : MeaningOf(R)' = MeaningOf(R)
    BY DEF MeaningOf, MeaningUpTo, Meaning, Tokens, Effect, Elements, SentenceAt, Operands, tok
  <2>2. \A R : Lawful(MeaningOf(R))' <=> Lawful(MeaningOf(R))
    BY <2>1 DEF Lawful
  <2> QED
    BY <1>2, <2>2 DEF Rejects
<1>8. Quoteless => Understands(pc, start, pos, kw, plan, args, events)'
  BY <1>2, <1>3, <1>4, <1>5, <1>6, <1>7 DEF Understands
<1> QED
  BY <1>1, <1>8 DEF Understanding

------------------------------------------------------------------------------
(* The steps keep the invariant *)

LEMMA EventsSeq == IsSeq(events) /\ [Next]_vars => IsSeq(events')
<1> SUFFICES ASSUME IsSeq(events), [Next]_vars PROVE IsSeq(events')
  OBVIOUS
<1>1. \A e : IsSeq(Append(events, e))
  <2> SUFFICES ASSUME NEW e PROVE IsSeq(Append(events, e))
    OBVIOUS
  <2>1. IsSeq(<<e>>)
    BY Short
  <2>2. IsSeq(events \o <<e>>)
    BY <2>1, Joined
  <2> QED
    BY <2>2, Appended
<1>2. \A k, o : IsSeq(Effect(k, o))
  BY Short DEF Effect
<1>3. \A k, o : IsSeq(events \o Effect(k, o))
  BY <1>2, Joined
<1>4. \A k, o, e : IsSeq((events \o Effect(k, o)) \o <<e>>)
  BY <1>3, Short, Joined
<1>5. \/ events' = events
      \/ \E e : events' = Append(events, e)
      \/ \E k, o : events' = events \o Effect(k, o)
      \/ \E k, o, e : events' = (events \o Effect(k, o)) \o <<e>>
  BY DEF Next, BlankLine, KeywordLine, LabelLine, Operand, Emit, EmitElement, OpenString,
         StringChar, EndOfLine, Finished, NextLine, Fail, vars
<1> QED
  BY <1>1, <1>3, <1>4, <1>5

\* A text without quotes has no string.
LEMMA NoQuote ==
  ASSUME input \in Inputs, Quoteless, NEW i \in Nat, 1 <= i
  PROVE  tok(i) # "quote"
<1>1. input \in Seq(STRING)
  BY InputsAssumption
<1>2. i <= Len(input) => input[i] # "quote"
  BY <1>1 DEF Quoteless, ToSet
<1> QED
  BY <1>2 DEF tok

LEMMA NeverString ==
  ASSUME input \in Inputs, Quoteless, NEW s, NEW f \in Nat, NEW p \in Nat, NEW ar, NEW ev
  PROVE  ~ MidLine(s, f, p, ".ascii", <<>>, ar, ev)
<1> SUFFICES ASSUME MidLine(s, f, p, ".ascii", <<>>, ar, ev)
             PROVE  FALSE
  OBVIOUS
<1> DEFINE T == NonBlank(f + 1, p)
           O == Operands(T)
           n == Cardinality(O)
<1>1. f < p /\ ".ascii" \in Keyword /\ Follow(".ascii", T) /\ Left(".ascii", T, <<>>, ar)
  BY DEF MidLine
<1>2. O \in SUBSET (1 .. p - 1) /\ p - 1 \in Nat
  <2>1. f + 1 \in Nat /\ 1 <= f + 1 /\ f + 1 <= p
    BY <1>1
  <2> QED
    BY <2>1, NonBlankIn
<1>3. n \in Nat /\ IsFiniteSet(O)
  BY <1>2, PlacesFinite
<1>4. \A i \in O : Fits(".ascii", Item(".ascii", UpTo(O, i)), tok(i))
  BY <1>1 DEF Follow
<1>5. Complete(".ascii", n)
  <2> HIDE DEF T
  <2> QED
    BY <1>1, <1>3, PlanIs
<1>6. n = 1
  BY <1>1, <1>5 DEF Complete, Shape
<1> HIDE DEF O, n
<1>7. PICK i : O = {i}
  BY <1>3, <1>6, FS_Singleton DEF n
<1>8. UpTo(O, i) = 1
  <2>1. i \in Int
    BY <1>2, <1>7
  <2>2. {j \in O : j <= i} = {i}
    BY <1>7, <2>1
  <2> QED
    BY <2>2, FS_Singleton DEF UpTo
<1>9. Item(".ascii", 1) = "quote"
  BY <1>1 DEF Item, Shape
<1>10. tok(i) = "quote"
  <2>1. Fits(".ascii", "quote", tok(i))
    BY <1>4, <1>7, <1>8, <1>9
  <2> QED
    BY <2>1 DEF Fits
<1>11. i \in Nat /\ 1 <= i
  BY <1>2, <1>7
<1> QED
  BY <1>10, <1>11, NoQuote

\* What the steps start from.
LEMMA Stands ==
  ASSUME UnderstoodInv
  PROVE  /\ input \in Inputs /\ Len(input) \in Nat /\ IsSeq(events)
         /\ pos \in Nat /\ start \in Nat /\ 1 <= start /\ start <= pos
         /\ pc = "line" => start = pos /\ start <= Len(input)
         /\ pc \in {"operands", "end"} => pos <= Len(input) + 1 /\ start <= Len(input) + 1
BY EndOfText DEF UnderstoodInv, ParserInv, Places

LEMMA BlankLineUnderstood == UnderstoodInv /\ BlankLine => Understanding'
<1> SUFFICES ASSUME UnderstoodInv, BlankLine PROVE Understanding'
  OBVIOUS
<1> DEFINE q == pos + 1
<1>1. /\ input \in Inputs /\ Len(input) \in Nat /\ IsSeq(events) /\ pc = "line" /\ input' = input
      /\ pos \in Nat /\ 1 <= pos /\ start = pos /\ pos <= Len(input)
  BY Stands DEF BlankLine
<1>2. tok(pos) \in {"blank", "NL"}
  <2>1. /\ Skip(pos, Blank) \in Nat /\ pos <= Skip(pos, Blank)
        /\ \A k \in pos .. Skip(pos, Blank) - 1 : tok(k) = "blank"
    BY <1>1, SkipBlanks
  <2>2. tok(Skip(pos, Blank)) = "NL"
    BY DEF BlankLine
  <2> DEFINE z == Skip(pos, Blank)
  <2>3. z \in Nat /\ pos <= z /\ (\A k \in pos .. z - 1 : tok(k) = "blank") /\ tok(z) = "NL"
    BY <2>1, <2>2
  <2> HIDE DEF z
  <2>4. pos = z \/ pos \in pos .. z - 1
    BY <1>1, <2>3
  <2> QED
    BY <2>3, <2>4
<1>3. /\ pos' = q /\ start' = q /\ pc' = AfterLine(q)
      /\ kw' = kw /\ plan' = plan /\ args' = args /\ events' = events
  BY DEF BlankLine, NextLine, Step
<1>4. ASSUME Quoteless
      PROVE  Understands(AfterLine(q), q, q, kw, plan, args, events)
  <2>1. SomeAgrees(pos) /\ AllAgree(pos, pos, events)
    <3>1. Understands("line", pos, pos, kw, plan, args, events)
      BY <1>1, <1>4, Zenon DEF UnderstoodInv, Understanding
    <3> QED
      BY <3>1 DEF Understands
  <2>2. SomeAgrees(q) /\ AllAgree(q, q, events)
    BY <1>1, <1>2, <2>1, BlankRead
  <2>3. AfterLine(q) = "accepted" => Len(input) < q /\ q <= Len(input) + 2
    BY <1>1 DEF AfterLine
  <2>4. AfterLine(q) \in {"line", "accepted"}
    BY DEF AfterLine
  <2> HIDE DEF q
  <2> QED
    BY <2>2, <2>3, <2>4 DEF Understands
<1> HIDE DEF q
<1> QED
  BY <1>1, <1>3, <1>4, Carried

LEMMA KeywordLineUnderstood == UnderstoodInv /\ KeywordLine => Understanding'
<1> SUFFICES ASSUME UnderstoodInv, KeywordLine PROVE Understanding'
  OBVIOUS
<1> DEFINE f == Skip(pos, Blank)
           k == tok(f)
           h == Shape[k]
           q == f + 1
<1>1. /\ input \in Inputs /\ Len(input) \in Nat /\ IsSeq(events) /\ pc = "line" /\ input' = input
      /\ pos \in Nat /\ 1 <= pos /\ start = pos /\ pos <= Len(input)
  BY Stands DEF KeywordLine
<1>2. f \in Nat
  <2>1. pos <= Len(input) + 1
    BY <1>1
  <2> QED
    BY <1>1, <2>1, SkipBlanks
<1>3. /\ k \in Keyword /\ kw' = k /\ plan' = h /\ args' = <<>> /\ pos' = q /\ pc' = "operands"
      /\ events' = events /\ start' = pos
  BY <1>1 DEF KeywordLine
<1>4. ASSUME Quoteless
      PROVE  Understands("operands", pos, q, k, h, <<>>, events)
  <2>1. SomeAgrees(pos) /\ AllAgree(pos, pos, events)
    <3>1. Understands("line", pos, pos, kw, plan, args, events)
      BY <1>1, <1>4, Zenon DEF UnderstoodInv, Understanding
    <3> QED
      BY <3>1 DEF Understands
  <2>2. f = Skip(pos, Blank) /\ k = tok(f) /\ h = Shape[k] /\ q = f + 1
    OBVIOUS
  <2> HIDE DEF f, k, h
  <2>3. MidLine(pos, f, f + 1, k, Shape[k], <<>>, events)
    BY <1>1, <1>2, <1>3, <2>1, <2>2, KeywordRead
  <2> HIDE DEF q
  <2>4. MidLine(pos, Skip(pos, Blank), q, k, h, <<>>, events)
    BY <2>2, <2>3, Zenon
  <2> QED
    BY <2>1, <2>4 DEF Understands
<1> HIDE DEF q, h, k, f
<1> QED
  BY <1>1, <1>3, <1>4, Carried

\* The run ends where no reading of the text is left.
LEMMA FailUnderstood ==
  ASSUME input' = input, Fail, Quoteless => Readings = {} \/ Rejects
  PROVE  Understanding'
<1>1. /\ pc' = "error" /\ start' = start /\ pos' = pos /\ kw' = kw /\ plan' = plan /\ args' = args
      /\ events' = events
  BY DEF Fail
<1>2. Quoteless => Understands("error", start, pos, kw, plan, args, events)
  BY DEF Understands, Rejects
<1> QED
  BY <1>1, <1>2, Carried

\* However the text goes on, no reading of it is lawful.
LEMMA RedefinedLine ==
  ASSUME input \in Inputs, NEW s \in Nat, 1 <= s, s <= Len(input) + 1,
         NEW f \in Nat, f = Skip(s, Blank), NEW r \in Nat, 1 <= r, r <= Len(input) + 1,
         NEW ev, NEW l, IsSeq(ev), Assigned(ev, l),
         SomeAgrees(s), WholeLine(s, f, r, Append(ev, <<"label", l>>))
  PROVE  Rejects
<1> DEFINE said == Append(ev, <<"label", l>>)
           q == Skip(r, Blank)
<1>1. Len(input) \in Nat /\ q \in Nat /\ r <= q /\ q <= Len(input) + 1
  BY SkipBlanks, EndOfText
<1>2. IsSeq(said)
  BY Extended
<1>3. q = Skip(r, Blank)
  OBVIOUS
<1> HIDE DEF q
<1>4. /\ tok(q) \in {"NL", "NUL"} => AllAgree(q + 1, q + 1, said)
      /\ tok(q) \notin {"NL", "NUL"} => Readings = {}
  <2> HIDE DEF said
  <2> QED
    BY <1>1, <1>3, EndRead DEF said
<1>5. ASSUME NEW R \in Readings
      PROVE  ~ Lawful(MeaningOf(R))
  <2>1. AllAgree(q + 1, q + 1, said)
    BY <1>4
  <2>2. MeaningUpTo(R)[q] = said
    <3>1. (q + 1) - 1 = q
      BY <1>1
    <3> HIDE DEF said
    <3> QED
      BY <2>1, <3>1 DEF AllAgree
  <2>3. q \in 1 .. Len(input) + 1
    BY <1>1
  <2>4. PICK b : IsSeq(b) /\ MeaningOf(R) = said \o b
    <3> HIDE DEF said
    <3>1. IsSeq(MeaningUpTo(R)[q])
      BY <1>2, <2>2
    <3>2. \E b : IsSeq(b) /\ MeaningOf(R) = MeaningUpTo(R)[q] \o b
      BY <2>3, <3>1, MeaningGrows
    <3> QED
      BY <2>2, <3>2
  <2>5. ~ Lawful(said \o b)
    BY <2>4, Redefined
  <2> QED
    BY <2>4, <2>5, Zenon
<1> QED
  BY <1>5 DEF Rejects

LEMMA LabelLineUnderstood == UnderstoodInv /\ LabelLine => Understanding'
<1> SUFFICES ASSUME UnderstoodInv, LabelLine PROVE Understanding'
  OBVIOUS
<1> DEFINE f == Skip(pos, Blank)
           g == f + 1
           q == Skip(g, Blank)
           r == q + 1
           named == IsIdentifier(tok(f)) /\ tok(q) = ":"
           ev == Append(events, <<"label", tok(f)>>)
<1>1. /\ input \in Inputs /\ Len(input) \in Nat /\ IsSeq(events) /\ pc = "line" /\ input' = input
      /\ pos \in Nat /\ 1 <= pos /\ start = pos /\ pos <= Len(input)
  BY Stands DEF LabelLine
<1>2. f \in Nat /\ pos <= f /\ f <= Len(input) + 1
  <2>1. pos <= Len(input) + 1
    BY <1>1
  <2> QED
    BY <1>1, <2>1, SkipBlanks
<1>3. tok(f) \notin Keyword \cup {"NL"}
  BY DEF LabelLine
<1>4. g \in Nat /\ 1 <= g /\ g <= Len(input) + 1
  <2>1. f # Len(input) + 1
    BY <1>1, <1>3, EndOfText
  <2> HIDE DEF f
  <2> QED
    BY <1>1, <1>2, <2>1
<1>5. /\ q \in Nat /\ g <= q /\ tok(q) \notin Blank
      /\ \A m \in g .. q - 1 : tok(m) \in Blank
  <2> HIDE DEF g
  <2> QED
    BY <1>1, <1>4, SkipBlanks DEF Blank
<1>6. ASSUME Quoteless
      PROVE  /\ SomeAgrees(pos)
             /\ IF named THEN WholeLine(pos, f, r, ev) ELSE Readings = {}
  <2>1. SomeAgrees(pos) /\ AllAgree(pos, pos, events)
    <3>1. Understands("line", pos, pos, kw, plan, args, events)
      BY <1>1, <1>6, Zenon DEF UnderstoodInv, Understanding
    <3> QED
      BY <3>1 DEF Understands
  <2>2. f = Skip(pos, Blank) /\ g = f + 1
    OBVIOUS
  <2> HIDE DEF f, g, q
  <2>3. IF IsIdentifier(tok(f)) /\ tok(q) = ":"
        THEN WholeLine(pos, f, q + 1, Append(events, <<"label", tok(f)>>)) ELSE Readings = {}
    BY <1>1, <1>2, <1>3, <1>4, <1>5, <2>1, <2>2, LabelRead
  <2> QED
    BY <2>1, <2>3
<1>7. CASE named /\ ~ Assigned(events, tok(f))
  <2>1. /\ events' = ev /\ pos' = r /\ pc' = "end" /\ start' = pos
        /\ kw' = kw /\ plan' = plan /\ args' = args
    BY <1>1, <1>7 DEF LabelLine
  <2>2. Quoteless => Understands("end", pos, r, kw, plan, args, ev)
    <3>1. Quoteless => SomeAgrees(pos) /\ WholeLine(pos, Skip(pos, Blank), r, ev)
      BY <1>6, <1>7
    <3> HIDE DEF r, ev, f, q
    <3> QED
      BY <3>1 DEF Understands
  <2> HIDE DEF r, ev, f, q
  <2> QED
    BY <1>1, <2>1, <2>2, Carried
<1>8. CASE ~ named
  <2>1. Fail
    BY <1>8 DEF LabelLine
  <2> QED
    BY <1>1, <1>6, <1>8, <2>1, FailUnderstood
<1>9. CASE named /\ Assigned(events, tok(f))
  <2>1. Fail
    BY <1>9 DEF LabelLine
  <2>2. Quoteless => Rejects
    <3>1. SUFFICES ASSUME Quoteless PROVE Rejects
      OBVIOUS
    <3>2. SomeAgrees(pos) /\ WholeLine(pos, f, r, ev)
      BY <1>6, <1>9, <3>1
    <3>3. r \in Nat /\ 1 <= r /\ r <= Len(input) + 1
      <4>1. q <= Len(input) + 1 /\ tok(Len(input) + 1) = "NL"
        <5> HIDE DEF g
        <5> QED
          BY <1>1, <1>4, SkipBlanks, EndOfText
      <4>2. q # Len(input) + 1
        BY <1>9, <4>1
      <4> HIDE DEF q
      <4> QED
        BY <1>1, <1>4, <1>5, <4>1, <4>2
    <3>4. f = Skip(pos, Blank)
      OBVIOUS
    <3> HIDE DEF f, r
    <3> QED
      BY <1>1, <1>2, <1>9, <3>2, <3>3, <3>4, RedefinedLine
  <2> QED
    BY <1>1, <2>1, <2>2, FailUnderstood
<1> QED
  BY <1>7, <1>8, <1>9

\* Inside a line.
LEMMA StandsInside ==
  ASSUME UnderstoodInv, pc = "operands", Quoteless
  PROVE  SomeAgrees(start) /\ MidLine(start, Skip(start, Blank), pos, kw, plan, args, events)
BY Zenon DEF UnderstoodInv, Understanding, Understands

LEMMA OpeningIs ==
  ASSUME UnderstoodInv, pc \in {"operands", "end"}
  PROVE  Skip(start, Blank) \in Nat
<1>1. input \in Inputs /\ start \in Nat /\ 1 <= start /\ start <= Len(input) + 1
  BY Stands
<1> QED
  BY <1>1, SkipBlanks

LEMMA OperandUnderstood == UnderstoodInv /\ Operand => Understanding'
<1> SUFFICES ASSUME UnderstoodInv, Operand PROVE Understanding'
  OBVIOUS
<1> DEFINE f == Skip(start, Blank)
           item == Head(plan)
           S == IF item = "imm" THEN CSpace ELSE Blank
           q == Skip(pos, S)
           r == q + 1
           pl == Tail(plan)
           ar == Taken(item, tok(q), args)
<1>1. /\ input \in Inputs /\ Len(input) \in Nat /\ pc = "operands" /\ input' = input
      /\ pos \in Nat /\ 1 <= pos /\ pos <= Len(input) + 1
      /\ start \in Nat /\ 1 <= start /\ start <= Len(input) + 1 /\ plan # <<>>
  BY Stands DEF Operand
<1>2. f \in Nat
  BY <1>1, OpeningIs
<1>3. q \in Nat /\ pos <= q /\ tok(q) \notin S /\ Only(pos, q, S)
  <2>1. "NUL" \notin S
    BY DEF CSpace, Blank
  <2> HIDE DEF S
  <2>2. pos <= Len(input) + 2
    BY <1>1
  <2> QED
    BY <1>1, <2>1, <2>2, SkipIs DEF Only
<1>4. ASSUME Quoteless
      PROVE  /\ SomeAgrees(start)
             /\ Fits(kw, item, tok(q)) => MidLine(start, f, r, kw, pl, ar, events)
             /\ ~ Fits(kw, item, tok(q)) => Readings = {}
  <2>1. SomeAgrees(start) /\ MidLine(start, f, pos, kw, plan, args, events)
    BY <1>1, <1>4, StandsInside
  <2>2. f = Skip(start, Blank) /\ item = Head(plan) /\ S = IF item = "imm" THEN CSpace ELSE Blank
    OBVIOUS
  <2> HIDE DEF f, item, S, q
  <2>3. /\ Fits(kw, item, tok(q)) => MidLine(start, f, q + 1, kw, Tail(plan), Taken(item, tok(q), args), events)
        /\ ~ Fits(kw, item, tok(q)) => Readings = {}
    BY <1>1, <1>2, <1>3, <2>1, <2>2, OperandRead
  <2> QED
    BY <2>1, <2>3, Zenon
<1>5. CASE Fits(kw, item, tok(q))
  <2>1. /\ events' = events /\ pos' = r /\ pc' = "operands" /\ start' = start
        /\ kw' = kw /\ plan' = pl /\ args' = ar
    BY <1>1, <1>5 DEF Operand, Taken
  <2>2. Quoteless => Understands("operands", start, r, kw, pl, ar, events)
    <3>1. Quoteless => SomeAgrees(start) /\ MidLine(start, Skip(start, Blank), r, kw, pl, ar, events)
      BY <1>4, <1>5
    <3> HIDE DEF r, ar, pl
    <3> QED
      BY <3>1 DEF Understands
  <2> HIDE DEF r, ar, pl
  <2> QED
    BY <1>1, <2>1, <2>2, Carried
<1>6. CASE ~ Fits(kw, item, tok(q))
  <2>1. Fail
    BY <1>6 DEF Operand
  <2> QED
    BY <1>1, <1>4, <1>6, <2>1, FailUnderstood
<1> QED
  BY <1>5, <1>6

LEMMA EmitUnderstood == UnderstoodInv /\ Emit => Understanding'
<1> SUFFICES ASSUME UnderstoodInv, Emit PROVE Understanding'
  OBVIOUS
<1> DEFINE f == Skip(start, Blank)
           ev == events \o Effect(kw, args)
<1>1. /\ input \in Inputs /\ pc = "operands" /\ input' = input
      /\ pos \in Nat /\ start \in Nat /\ 1 <= start /\ start <= Len(input) + 1
  BY Stands DEF Emit
<1>2. f \in Nat
  BY <1>1, OpeningIs
<1>3. /\ events' = ev /\ pos' = pos /\ pc' = "end" /\ start' = start
      /\ kw' = kw /\ plan' = plan /\ args' = args
  BY DEF Emit
<1>4. ASSUME Quoteless
      PROVE  Understands("end", start, pos, kw, plan, args, ev)
  <2>1. SomeAgrees(start) /\ MidLine(start, f, pos, kw, <<>>, args, events) /\ kw # ".byte"
    <3>1. plan = <<>> /\ kw # ".byte"
      BY DEF Emit
    <3>2. MidLine(start, f, pos, kw, plan, args, events) /\ SomeAgrees(start)
      BY <1>1, <1>4, StandsInside
    <3> QED
      BY <3>1, <3>2
  <2>2. WholeLine(start, f, pos, ev)
    <3>1. f = Skip(start, Blank)
      OBVIOUS
    <3> HIDE DEF f
    <3> QED
      BY <1>1, <1>2, <2>1, <3>1, EmitRead
  <2> HIDE DEF ev
  <2> QED
    BY <2>1, <2>2 DEF Understands
<1> HIDE DEF ev
<1> QED
  BY <1>1, <1>3, <1>4, Carried

LEMMA EmitElementUnderstood == UnderstoodInv /\ EmitElement => Understanding'
<1> SUFFICES ASSUME UnderstoodInv, EmitElement PROVE Understanding'
  OBVIOUS
<1> DEFINE f == Skip(start, Blank)
           q == Skip(pos, Blank)
           r == q + 1
           e == events \o Effect(kw, args)
           ev == e \o << <<"pad">> >>
           pl == <<"imm">>
<1>0. pc = "operands" /\ input' = input /\ kw = ".byte" /\ plan = <<>>
  BY DEF EmitElement
<1> HIDE DEF f, q, r, e, ev, pl
<1>1. /\ input \in Inputs /\ pc = "operands" /\ input' = input
      /\ pos \in Nat /\ 1 <= pos /\ pos <= Len(input) + 1
      /\ start \in Nat /\ 1 <= start /\ start <= Len(input) + 1
      /\ kw = ".byte" /\ plan = <<>>
  <2>1. input \in Inputs /\ Len(input) \in Nat /\ pos \in Nat /\ start \in Nat /\ 1 <= start /\ start <= pos
    BY Stands
  <2>2. pos <= Len(input) + 1 /\ start <= Len(input) + 1
    BY <1>0, Stands
  <2> QED
    BY <1>0, <2>1, <2>2
<1> USE DEF f, q, r, e, ev, pl
<1>2. f \in Nat
  BY <1>1, OpeningIs
<1>3. q \in Nat /\ pos <= q /\ tok(q) \notin Blank /\ Only(pos, q, Blank)
  BY <1>1, SkipBlanks DEF Only, Blank
<1>4. ASSUME Quoteless
      PROVE  /\ SomeAgrees(start)
             /\ tok(q) = "," => MidLine(start, f, r, kw, pl, <<>>, e)
             /\ tok(q) # "," => WholeLine(start, f, pos, ev)
  <2>1. SomeAgrees(start) /\ MidLine(start, f, pos, kw, <<>>, args, events)
    <3>1. MidLine(start, f, pos, kw, plan, args, events) /\ SomeAgrees(start)
      BY <1>1, <1>4, StandsInside
    <3> QED
      BY <1>1, <3>1
  <2>2. f = Skip(start, Blank) /\ q = Skip(pos, Blank)
    OBVIOUS
  <2> HIDE DEF f, q
  <2>3. /\ tok(q) = "," => MidLine(start, f, q + 1, kw, <<"imm">>, <<>>, events \o Effect(kw, args))
        /\ tok(q) # "," => WholeLine(start, f, pos, (events \o Effect(kw, args)) \o << <<"pad">> >>)
    BY <1>1, <1>2, <1>3, <2>1, <2>2, ElementRead
  <2> QED
    BY <2>1, <2>3, Zenon
<1>5. CASE tok(q) = ","
  <2>1. /\ events' = e /\ pos' = r /\ pc' = "operands" /\ start' = start
        /\ kw' = kw /\ plan' = pl /\ args' = <<>>
    BY <1>1, <1>5 DEF EmitElement
  <2>2. Quoteless => Understands("operands", start, r, kw, pl, <<>>, e)
    <3>1. Quoteless => SomeAgrees(start) /\ MidLine(start, Skip(start, Blank), r, kw, pl, <<>>, e)
      BY <1>4, <1>5
    <3> HIDE DEF r, pl, e
    <3> QED
      BY <3>1 DEF Understands
  <2> HIDE DEF r, pl, e
  <2> QED
    BY <1>1, <2>1, <2>2, Carried
<1>6. CASE tok(q) # ","
  <2>1. /\ events' = ev /\ pos' = pos /\ pc' = "end" /\ start' = start
        /\ kw' = kw /\ plan' = plan /\ args' = <<>>
    BY <1>1, <1>6 DEF EmitElement
  <2>2. Quoteless => Understands("end", start, pos, kw, plan, <<>>, ev)
    <3>1. Quoteless => SomeAgrees(start) /\ WholeLine(start, Skip(start, Blank), pos, ev)
      BY <1>4, <1>6
    <3> HIDE DEF ev
    <3> QED
      BY <3>1 DEF Understands
  <2> HIDE DEF ev
  <2> QED
    BY <1>1, <2>1, <2>2, Carried
<1> QED
  BY <1>5, <1>6

LEMMA StringUnderstood == UnderstoodInv /\ (OpenString \/ StringChar) => Understanding'
<1> SUFFICES ASSUME UnderstoodInv, OpenString \/ StringChar PROVE Understanding'
  OBVIOUS
<1>1. input \in Inputs /\ input' = input
  BY Stands DEF OpenString, StringChar
<1>2. ASSUME Quoteless
      PROVE  FALSE
  <2>1. CASE OpenString
    <3>1. pc = "operands" /\ plan = <<>> /\ kw = ".ascii" /\ pos \in Nat
      BY <2>1, Stands DEF OpenString
    <3>2. MidLine(start, Skip(start, Blank), pos, ".ascii", <<>>, args, events)
      <4>1. MidLine(start, Skip(start, Blank), pos, kw, plan, args, events)
        BY <1>2, <3>1, StandsInside
      <4> QED
        BY <3>1, <4>1
    <3>3. Skip(start, Blank) \in Nat
      BY <3>1, OpeningIs
    <3> QED
      BY <1>1, <1>2, <3>1, <3>2, <3>3, NeverString
  <2>2. CASE StringChar
    <3>1. pc = "string"
      BY <2>2 DEF StringChar
    <3> QED
      BY <1>2, <3>1, Zenon DEF UnderstoodInv, Understanding, Understands
  <2> QED
    BY <2>1, <2>2
<1>3. Quoteless' <=> Quoteless
  BY <1>1, SameReadings
<1> QED
  BY <1>2, <1>3 DEF Understanding

LEMMA EndOfLineUnderstood == UnderstoodInv /\ EndOfLine => Understanding'
<1> SUFFICES ASSUME UnderstoodInv, EndOfLine PROVE Understanding'
  OBVIOUS
<1> DEFINE f == Skip(start, Blank)
           q == Skip(pos, Blank)
           r == q + 1
<1>1. /\ input \in Inputs /\ Len(input) \in Nat /\ pc = "end" /\ input' = input
      /\ pos \in Nat /\ 1 <= pos /\ pos <= Len(input) + 1
      /\ start \in Nat /\ 1 <= start /\ start <= Len(input) + 1
  BY Stands DEF EndOfLine
<1>2. f \in Nat
  BY <1>1, OpeningIs
<1>3. q \in Nat /\ q <= Len(input) + 1
  BY <1>1, SkipBlanks
<1>4. ASSUME Quoteless
      PROVE  /\ tok(q) \in {"NL", "NUL"} => SomeAgrees(r) /\ AllAgree(r, r, events)
             /\ tok(q) \notin {"NL", "NUL"} => Readings = {}
  <2>1. SomeAgrees(start) /\ WholeLine(start, f, pos, events)
    BY <1>1, <1>4, Zenon DEF UnderstoodInv, Understanding, Understands
  <2>2. f = Skip(start, Blank) /\ q = Skip(pos, Blank)
    OBVIOUS
  <2> HIDE DEF f, q
  <2> QED
    BY <1>1, <1>2, <1>3, <2>1, <2>2, EndRead
<1>5. CASE tok(q) \in {"NL", "NUL"}
  <2>1. /\ events' = events /\ pos' = r /\ pc' = AfterLine(r) /\ start' = r
        /\ kw' = kw /\ plan' = plan /\ args' = args
    BY <1>5 DEF EndOfLine, NextLine
  <2>2. Quoteless => Understands(AfterLine(r), r, r, kw, plan, args, events)
    <3>1. Quoteless => SomeAgrees(r) /\ AllAgree(r, r, events)
      BY <1>4, <1>5
    <3>2. AfterLine(r) = "accepted" => Len(input) < r /\ r <= Len(input) + 2
      <4> HIDE DEF q
      <4> QED
        BY <1>1, <1>3 DEF AfterLine
    <3>3. AfterLine(r) \in {"line", "accepted"}
      BY DEF AfterLine
    <3> HIDE DEF r
    <3> QED
      BY <3>1, <3>2, <3>3 DEF Understands
  <2> HIDE DEF r
  <2> QED
    BY <1>1, <2>1, <2>2, Carried
<1>6. CASE tok(q) \notin {"NL", "NUL"}
  <2>1. Fail
    BY <1>6 DEF EndOfLine
  <2> QED
    BY <1>1, <1>4, <1>6, <2>1, FailUnderstood
<1> QED
  BY <1>5, <1>6

\* What is asked for stays lawful.
LEMMA EventsLawful ==
  ASSUME IsSeq(events), Lawful(events), OfKeyword, [Next]_vars
  PROVE  Lawful(events')
<1>1. ASSUME NEW e, e[1] # "label"
      PROVE  IsSeq(<<e>>) /\ Labelless(<<e>>)
  <2>1. DOMAIN <<e>> = {1} /\ <<e>>[1] = e
    OBVIOUS
  <2> QED
    BY <1>1, <2>1, Short DEF Labelless
<1>2. ASSUME NEW e, e[1] # "label"
      PROVE  Lawful(Append(events, e))
  <2>1. Lawful(events \o <<e>>)
    BY <1>1, <1>2, LawfulLonger
  <2> QED
    BY <2>1, Appended
<1>3. ASSUME NEW k \in Keyword, NEW o
      PROVE  IsSeq(Effect(k, o)) /\ Labelless(Effect(k, o))
  <2>1. IsSeq(Effect(k, o))
    BY Short DEF Effect
  <2>2. k # "label"
    BY DEF Keyword
  <2>3. Labelless(Effect(k, o))
    BY <2>2 DEF Effect, Labelless
  <2> QED
    BY <2>1, <2>3
<1>4. ASSUME NEW k \in Keyword, NEW o
      PROVE  Lawful(events \o Effect(k, o)) /\ Lawful((events \o Effect(k, o)) \o << <<"pad">> >>)
  <2>1. IsSeq(events \o Effect(k, o)) /\ Lawful(events \o Effect(k, o))
    BY <1>3, <1>4, LawfulLonger, Joined
  <2>2. IsSeq(<< <<"pad">> >>) /\ Labelless(<< <<"pad">> >>)
    <3>1. <<"pad">>[1] # "label"
      OBVIOUS
    <3> QED
      BY <1>1, <3>1
  <2> QED
    BY <2>1, <2>2, LawfulLonger
<1>5. \/ events' = events
      \/ \E l : events' = Append(events, <<"label", l>>) /\ ~ Assigned(events, l)
      \/ \E e : events' = Append(events, e) /\ e[1] # "label"
      \/ \E k \in Keyword : \E o : \/ events' = events \o Effect(k, o)
                                \/ events' = (events \o Effect(k, o)) \o << <<"pad">> >>
  <2>1. Emit \/ EmitElement => kw \in Keyword
    BY DEF Emit, EmitElement, OfKeyword
  <2>2. StringChar => \/ events' = events
                      \/ \E e : events' = Append(events, e) /\ e[1] # "label"
    <3>1. <<"pad">>[1] # "label" /\ \A c : <<"char", c>>[1] # "label"
      OBVIOUS
    <3> QED
      BY <3>1 DEF StringChar, Fail
  <2>3. Emit => events' = events \o Effect(kw, args)
    BY DEF Emit
  <2>4. EmitElement => \/ events' = events \o Effect(kw, args)
                       \/ events' = (events \o Effect(kw, args)) \o << <<"pad">> >>
    BY DEF EmitElement
  <2>5. LabelLine => \/ events' = events
                     \/ \E l : events' = Append(events, <<"label", l>>) /\ ~ Assigned(events, l)
    BY DEF LabelLine, Fail
  <2>6. BlankLine \/ KeywordLine \/ Operand \/ OpenString \/ EndOfLine \/ Finished \/ UNCHANGED vars
          => events' = events
    BY DEF BlankLine, KeywordLine, Operand, OpenString, EndOfLine, Finished, NextLine, Fail, vars
  <2> QED
    BY <2>1, <2>2, <2>3, <2>4, <2>5, <2>6 DEF Next
<1> QED
  BY <1>2, <1>4, <1>5, LawfulDefinition

LEMMA KeywordStays ==
  ASSUME OfKeyword, [Next]_vars
  PROVE  OfKeyword'
BY DEF OfKeyword, Next, BlankLine, KeywordLine, LabelLine, Operand, Emit, EmitElement, OpenString,
       StringChar, EndOfLine, Finished, NextLine, AfterLine, Fail, vars

LEMMA UnderstoodKeeps == UnderstoodInv /\ [Next]_vars => UnderstoodInv'
<1> SUFFICES ASSUME UnderstoodInv, [Next]_vars PROVE UnderstoodInv'
  OBVIOUS
<1>1. ParserInv'
  BY StepKeeps DEF UnderstoodInv
<1>2. IsSeq(events)'
  <2>1. IsSeq(events')
    BY EventsSeq DEF UnderstoodInv
  <2> QED
    BY <2>1
<1>3. ASSUME UNCHANGED vars
      PROVE  Understanding'
  <2>1. /\ input' = input /\ pc' = pc /\ start' = start /\ pos' = pos /\ kw' = kw /\ plan' = plan
        /\ args' = args /\ events' = events
    BY <1>3 DEF vars
  <2>2. Quoteless => Understands(pc, start, pos, kw, plan, args, events)
    BY Zenon DEF UnderstoodInv, Understanding
  <2> QED
    BY <2>1, <2>2, Carried
<1>4. Understanding'
  BY <1>3, BlankLineUnderstood, KeywordLineUnderstood, LabelLineUnderstood, OperandUnderstood,
     EmitUnderstood, EmitElementUnderstood, StringUnderstood, EndOfLineUnderstood DEF Next, Finished
<1>5. Lawful(events)' /\ OfKeyword'
  <2>1. Lawful(events')
    BY EventsLawful DEF UnderstoodInv
  <2>2. OfKeyword'
    BY KeywordStays DEF UnderstoodInv
  <2> QED
    BY <2>1, <2>2 DEF Lawful
<1> QED
  BY <1>1, <1>2, <1>4, <1>5 DEF UnderstoodInv

LEMMA StartsUnderstood == Init => UnderstoodInv
<1> SUFFICES ASSUME Init PROVE UnderstoodInv
  OBVIOUS
<1>1. /\ input \in Inputs /\ pos = 1 /\ start = 1 /\ pc = "line" /\ events = <<>>
  BY DEF Init
<1>2. SomeAgrees(1)
  <2> DEFINE R == {}
  <2>1. R \in SUBSET Ends /\ (\A b \in R : b < 1) /\ Covered(R, 1) /\ \A c \in R : RightCut(R, c)
    BY DEF Covered
  <2> QED
    BY <2>1 DEF SomeAgrees
<1>3. AllAgree(1, 1, <<>>)
  <2> SUFFICES ASSUME NEW R \in Readings
               PROVE  Covered(R, 1) /\ Apart(R, 1, 1) /\ MeaningUpTo(R)[1 - 1] = <<>>
    BY DEF AllAgree
  <2>1. Covered(R, 1)
    BY DEF Covered
  <2>2. Apart(R, 1, 1)
    <3>1. R \in SUBSET Nat
      BY <1>1, ReadingIs
    <3>2. \A b \in R : ~ (1 <= b /\ b < 1)
      BY <3>1
    <3> QED
      BY <3>2, Zenon DEF Apart
  <2>3. MeaningUpTo(R)[0] = <<>>
    BY <1>1, MeaningUpToIs
  <2> QED
    BY <2>1, <2>2, <2>3
<1>4. Understands("line", 1, 1, kw, plan, args, <<>>)
  BY <1>2, <1>3 DEF Understands
<1>5. Understanding
  BY <1>1, <1>4, Zenon DEF Understanding
<1>6. IsSeq(events)
  BY <1>1, Short
<1>7. Lawful(events) /\ OfKeyword
  BY <1>1 DEF Lawful, OfKeyword
<1> QED
  BY <1>5, <1>6, <1>7, StartsRight DEF UnderstoodInv

\* If all lines can be read, so can the text.
LEMMA SomeReading ==
  ASSUME input \in Inputs, NEW n \in Nat, n = Len(input) + 1, SomeAgrees(n + 1)
  PROVE  Readings # {}
<1>1. PICK R \in SUBSET Ends : (\A b \in R : b < n + 1) /\ Covered(R, n + 1) /\ \A c \in R : RightCut(R, c)
  BY DEF SomeAgrees
<1>2. 1 <= n /\ tok(n) \notin Blank /\ R \in SUBSET Nat
  <2>1. 1 <= n /\ n \in Ends /\ \A i \in Ends : tok(i) \notin Blank
    BY PlacesOfText
  <2>2. Ends \in SUBSET Nat
    BY PlacesOfText
  <2> QED
    BY <2>1, <2>2
<1>3. PICK b \in R : n <= b /\ b < n + 1
  <2>1. n \in 1 .. (n + 1) - 1
    BY <1>2
  <2> QED
    BY <1>1, <1>2, <2>1 DEF Covered
<1>4. n = b
  BY <1>2, <1>3
<1> QED
  BY <1>1, <1>3, <1>4 DEF Readings

\* What is accepted has a reading, and every reading means what was asked.
LEMMA AllUnderstood == UnderstoodInv => Understood
<1> SUFFICES ASSUME UnderstoodInv, pc \in {"accepted", "error"}, Quoteless
             PROVE  /\ pc = "accepted" <=> \E R \in Readings : Lawful(MeaningOf(R))
                    /\ pc = "accepted" => \A R \in Readings : events = MeaningOf(R)
  BY DEF Understood, Quoteless
<1> DEFINE n == Len(input) + 1
<1>1. /\ input \in Inputs /\ n \in Nat /\ 1 <= n /\ pos \in Nat /\ 1 <= pos /\ IsSeq(events)
  BY Stands
<1>2. n = Len(input) + 1
  OBVIOUS
<1>3. Understands(pc, start, pos, kw, plan, args, events)
  BY Zenon DEF UnderstoodInv, Understanding
<1>4. pc = "error" => ~ \E R \in Readings : Lawful(MeaningOf(R))
  <2>1. pc = "error" => Rejects
    BY <1>3, Zenon DEF Understands
  <2> QED
    BY <2>1 DEF Rejects
<1>5. ASSUME pc = "accepted"
      PROVE  /\ SomeAgrees(pos) /\ AllAgree(pos, pos, events)
             /\ pos = n \/ pos = n + 1
  <2>1. SomeAgrees(start) /\ start = pos /\ AllAgree(start, pos, events)
    BY <1>3, <1>5, Zenon DEF Understands
  <2>2. Len(input) < pos /\ pos <= Len(input) + 2
    BY <1>3, <1>5, Zenon DEF Understands
  <2>3. pos = n \/ pos = n + 1
    BY <1>1, <2>2
  <2> QED
    BY <2>1, <2>3, Zenon
<1>6. /\ n \in Ends /\ tok(n) = "NL"
      /\ n <= n /\ NonBlank(n, n) = {} /\ IsSentence({}) /\ Meaning({}) = <<>>
  BY <1>1, PlacesOfText, EndOfText, NothingFrom DEF IsSentence, Meaning
<1> HIDE DEF n
<1>7. ASSUME pc = "accepted"
      PROVE  Readings # {}
  <2>1. SomeAgrees(n + 1)
    <3>1. CASE pos = n
      <4>1. SomeAgrees(n)
        BY <1>5, <1>7, <3>1
      <4>2. IsSentence(NonBlank(n, n)) /\ tok(n) # "NUL"
        BY <1>6
      <4> QED
        BY <1>1, <1>6, <4>1, <4>2, OneMoreCut
    <3> QED
      BY <1>5, <1>7, <3>1
  <2> QED
    BY <1>1, <1>2, <2>1, SomeReading
<1>8. ASSUME pc = "accepted", NEW R \in Readings
      PROVE  events = MeaningOf(R)
  <2>1. Covered(R, pos) /\ Apart(R, pos, pos) /\ MeaningUpTo(R)[pos - 1] = events
    BY <1>5, <1>8 DEF AllAgree
  <2>2. MeaningUpTo(R)[n] = events
    <3>1. CASE pos = n
      <4>1. n \in R
        BY <1>1, <1>2, ReadingIs
      <4>2. Covered(R, n) /\ Apart(R, n, n) /\ MeaningUpTo(R)[n - 1] = events
        BY <2>1, <3>1
      <4>3. MeaningUpTo(R)[n] = MeaningUpTo(R)[n - 1] \o Meaning(NonBlank(n, n))
        BY <1>1, <1>6, <4>1, <4>2, SaysNext
      <4>4. MeaningUpTo(R)[n] = events \o <<>>
        BY <1>6, <4>2, <4>3
      <4>5. events \o <<>> = events
        BY <1>1, NothingJoined
      <4> QED
        BY <4>4, <4>5, Zenon
    <3>2. CASE pos = n + 1
      <4>1. pos - 1 = n
        BY <1>1, <3>2
      <4> QED
        BY <2>1, <4>1
    <3> QED
      BY <1>5, <1>8, <3>1, <3>2
  <2> QED
    BY <1>2, <2>2, Zenon DEF MeaningOf
<1>9. ASSUME pc = "accepted"
      PROVE  \E R \in Readings : Lawful(MeaningOf(R))
  <2>1. PICK R \in Readings : TRUE
    BY <1>7, <1>9
  <2>2. Lawful(events) /\ events = MeaningOf(R)
    BY <1>8, <1>9 DEF UnderstoodInv
  <2> QED
    BY <2>2, Zenon
<1> QED
  BY <1>4, <1>8, <1>9

------------------------------------------------------------------------------
(* Theorems *)

\* Wherever parse_line stands, the text it has read, the operands it expects
\* and main's line counter agree.
THEOREM LinesStand == Spec => []ParserInv
<1>1. Init => ParserInv
  BY StartsRight
<1>2. ParserInv /\ [Next]_vars => ParserInv'
  BY StepKeeps
<1> QED
  BY <1>1, <1>2, PTL DEF Spec

\* For every text, nothing behind the newline main appends is read but the
\* byte after it, and that ends the run with an error.
THEOREM ReadsAlwaysInside == Spec => []ReadsStayInside
<1>1. ParserInv => ReadsStayInside
  <2> SUFFICES ASSUME ParserInv PROVE ReadsStayInside
    OBVIOUS
  <2>1. Len(input) \in Nat
    BY EndOfText DEF ParserInv, Places
  <2> QED
    BY <2>1 DEF ParserInv, PeakInside, ReadsStayInside
<1> QED
  BY <1>1, LinesStand, PTL

\* For every text, main reports an error with the line it is in, unless the
\* text before has one of the lines that are counted wrong.
THEOREM LinesAlwaysReported == Spec => []LineReported
<1>1. ParserInv => LineReported
  BY DEF ParserInv, CountOK, InBlankLine, LineReported, Newlines
<1> QED
  BY <1>1, LinesStand, PTL

\* For every text without strings, parse_line accepts it if and only if it can
\* be cut into sentences of the language that define no label twice, and then
\* asks the emitter for what they mean, whichever way it is cut.
THEOREM TextsAlwaysUnderstood == Spec => []Understood
<1>1. Init => UnderstoodInv
  BY StartsUnderstood
<1>2. UnderstoodInv /\ [Next]_vars => UnderstoodInv'
  BY UnderstoodKeeps
<1>3. UnderstoodInv => Understood
  BY AllUnderstood
<1> QED
  BY <1>1, <1>2, <1>3, PTL DEF Spec
==============================================================================
