-------------------------- MODULE ContainerProofs ---------------------------
(***************************************************************************)
(* Vector and Str implement Items, for all elements, capacities and runs:  *)
(* growing ends with room enough, no copy of overlapping cells loses one,  *)
(* the terminator stays behind the text, and the two passes of a formatted *)
(* insertion agree.                                                        *)
(***************************************************************************)
EXTENDS Str, SequenceTheorems, WellFoundedInduction, TLAPS

Cell == VecEls \cup {Unset}

\* The inductive invariant: the memory has cap cells, of which size are items.
VecOK(v) ==
  /\ v \in [size : Nat, cap : Nat, mem : Seq(Cell)]
  /\ Len(v.mem) = v.cap /\ v.size <= v.cap

VecInv == VecOK(vec) /\ vecFailed \in BOOLEAN

ItemsOf(v) == SubSeq(v.mem, 1, v.size)

------------------------------------------------------------------------------
(* Doubling *)

LEMMA LeastOf ==
  ASSUME NEW S \in SUBSET Nat, S # {}
  PROVE  \E x \in S : \A y \in S : x <= y
<1> DEFINE R == OpToRel(<, Nat)
<1>1. IsWellFoundedOn(R, Nat)
  BY NatLessThanWellFounded, Zenon
<1>2. \A a, b \in Nat : a < b => <<a, b>> \in R
  BY DEF OpToRel
<1> HIDE DEF R
<1>3. PICK x \in S : \A y \in S : ~ (<<y, x>> \in R)
  BY <1>1, WFMin
<1>4. ASSUME NEW y \in S
      PROVE  x <= y
  <2>1. x \in Nat /\ y \in Nat
    OBVIOUS
  <2>2. ~ (y < x)
    BY <1>2, <1>3, <2>1
  <2> QED
    BY <2>1, <2>2
<1> QED
  BY <1>3, <1>4

\* Doubling from c on, as Grown's function does.
Doubles(grow, size) == grow = [c \in Nat |-> IF c < size THEN grow[2 * c] ELSE c]

\* Where the function is known down to size - m.
Known(grow, size, m) ==
  \A c \in Nat : c >= size - m => grow[c] = IF c < size THEN grow[2 * c] ELSE c

\* There is such a function: place after place, down from size.
LEMMA DoublingEnds ==
  ASSUME NEW size \in Nat, size > 0
  PROVE  \E grow : Doubles(grow, size)
<1> DEFINE Bad == {m \in 0 .. size : ~ \E grow \in [Nat -> Nat] : Known(grow, size, m)}
<1>1. Bad = {}
  <2> SUFFICES ASSUME Bad # {} PROVE FALSE
    OBVIOUS
  <2>1. Bad \in SUBSET Nat
    OBVIOUS
  <2> HIDE DEF Bad
  <2>2. PICK m \in Bad : \A k \in Bad : m <= k
    BY <2>1, LeastOf
  <2>3. m \in 0 .. size /\ m \in Nat
    BY DEF Bad
  <2>4. CASE m = 0
    <3> DEFINE g == [c \in Nat |-> c]
    <3>1. g \in [Nat -> Nat] /\ Known(g, size, 0)
      BY DEF Known
    <3> QED
      BY <2>4, <3>1 DEF Bad
  <2>5. CASE m > 0
    <3> DEFINE n == m - 1
               k == size - m
    <3>1. n \in 0 .. size /\ n \notin Bad /\ k \in Nat
      BY <2>2, <2>3, <2>5
    <3>2. PICK g \in [Nat -> Nat] : Known(g, size, n)
      BY <3>1 DEF Bad
    <3> DEFINE h == [g EXCEPT ![k] = g[2 * k]]
    <3>3. h \in [Nat -> Nat]
      BY <3>1
    <3>4. \A c \in Nat : c # k => h[c] = g[c]
      BY <3>1
    <3>5. h[k] = g[2 * k]
      BY <3>1
    <3> HIDE DEF h
    <3>6. ASSUME NEW c \in Nat, c >= size - m
          PROVE  h[c] = IF c < size THEN h[2 * c] ELSE c
      <4>1. CASE c = k
        <5>1. c < size
          BY <2>3, <2>5, <4>1
        <5>2. h[2 * k] = g[2 * k]
          BY <3>1, <3>4, <3>5
        <5> QED
          BY <3>5, <4>1, <5>1, <5>2
      <4>2. CASE c # k
        <5>1. c >= size - n /\ 2 * c # k /\ 2 * c \in Nat
          BY <2>3, <3>6, <4>2
        <5> QED
          BY <3>2, <3>4, <4>2, <5>1 DEF Known
      <4> QED
        BY <4>1, <4>2
    <3>7. Known(h, size, m)
      BY <3>6 DEF Known
    <3> QED
      BY <3>3, <3>7 DEF Bad
  <2> QED
    BY <2>3, <2>4, <2>5
<1>2. PICK g \in [Nat -> Nat] : Known(g, size, size)
  <2>1. size \in 0 .. size
    OBVIOUS
  <2> QED
    BY <1>1, <2>1
<1>3. ASSUME NEW c \in Nat
      PROVE  g[c] = IF c < size THEN g[2 * c] ELSE c
  <2>1. c >= size - size
    OBVIOUS
  <2> QED
    BY <1>2, <2>1 DEF Known
<1>4. g = [c \in Nat |-> IF c < size THEN g[2 * c] ELSE c]
  BY <1>3
<1> QED
  BY <1>4 DEF Doubles

\* And it has room for size.
LEMMA DoublingGrows ==
  ASSUME NEW size \in Nat, size > 0, NEW grow, Doubles(grow, size), NEW c \in Nat, c > 0
  PROVE  grow[c] \in Nat /\ grow[c] >= size
<1> DEFINE Bad == {m \in Nat : \E d \in Nat : d > 0 /\ d + m = size
                                 /\ ~ (grow[d] \in Nat /\ grow[d] >= size)}
<1>1. \A d \in Nat : grow[d] = IF d < size THEN grow[2 * d] ELSE d
  <2>1. grow = [d \in Nat |-> IF d < size THEN grow[2 * d] ELSE d]
    BY DEF Doubles
  <2> QED
    BY <2>1
<1>2. Bad = {}
  <2> SUFFICES ASSUME Bad # {} PROVE FALSE
    OBVIOUS
  <2>1. Bad \in SUBSET Nat
    OBVIOUS
  <2> HIDE DEF Bad
  <2>2. PICK m \in Bad : \A k \in Bad : m <= k
    BY <2>1, LeastOf
  <2>3. PICK d \in Nat : d > 0 /\ d + m = size /\ ~ (grow[d] \in Nat /\ grow[d] >= size)
    BY DEF Bad
  <2>4. m \in Nat
    BY <2>1
  <2>5. d < size /\ grow[d] = grow[2 * d]
    BY <1>1, <2>3, <2>4
  <2>6. CASE 2 * d >= size
    <3>1. 2 * d \in Nat /\ grow[2 * d] = 2 * d
      BY <1>1, <2>6
    <3> QED
      BY <2>3, <2>5, <2>6, <3>1
  <2>7. CASE 2 * d < size
    <3> DEFINE k == size - 2 * d
    <3>1. k \in Nat /\ 2 * d \in Nat /\ 2 * d > 0 /\ 2 * d + k = size /\ k < m
      BY <2>3, <2>4, <2>7
    <3>2. k \in Bad
      BY <2>3, <2>5, <3>1 DEF Bad
    <3> QED
      BY <2>2, <2>4, <3>1, <3>2
  <2> QED
    BY <2>6, <2>7
<1>3. CASE c >= size
  BY <1>1, <1>3
<1>4. CASE c < size
  <2> DEFINE m == size - c
  <2>1. m \in Nat /\ c + m = size
    BY <1>4
  <2> QED
    BY <1>2, <2>1
<1> QED
  BY <1>3, <1>4

LEMMA GrownIs ==
  ASSUME NEW cap \in Nat, NEW size \in Nat, size > 0
  PROVE  Grown(cap, size) \in Nat /\ Grown(cap, size) >= size
<1> DEFINE c == IF cap = 0 THEN 2 ELSE cap
           grow == CHOOSE g : Doubles(g, size)
<1>1. Doubles(grow, size)
  BY DoublingEnds
<1>2. c \in Nat /\ c > 0
  OBVIOUS
<1>3. Grown(cap, size) = grow[c]
  BY DEF Grown, Doubles
<1> HIDE DEF grow, c
<1> QED
  BY <1>1, <1>2, <1>3, DoublingGrows

------------------------------------------------------------------------------
(* The memory *)

LEMMA VecTypes ==
  ASSUME NEW v, VecOK(v)
  PROVE  /\ v.size \in Nat /\ v.cap \in Nat /\ v.mem \in Seq(Cell)
         /\ Len(v.mem) = v.cap /\ v.size <= v.cap
         /\ DOMAIN v.mem = 1 .. v.cap
         /\ \A i \in 1 .. v.cap : v.mem[i] \in Cell
<1>1. /\ v.size \in Nat /\ v.cap \in Nat /\ v.mem \in Seq(Cell)
      /\ Len(v.mem) = v.cap /\ v.size <= v.cap
  BY DEF VecOK
<1>2. DOMAIN v.mem = 1 .. v.cap /\ \A i \in 1 .. v.cap : v.mem[i] \in Cell
  <2> DEFINE m == v.mem
  <2>1. m \in Seq(Cell) /\ Len(m) = v.cap
    BY <1>1
  <2> HIDE DEF m
  <2>2. DOMAIN m = 1 .. Len(m) /\ \A i \in 1 .. Len(m) : m[i] \in Cell
    BY <2>1
  <2> QED
    BY <2>1, <2>2 DEF m
<1> QED
  BY <1>1, <1>2

\* A run of cells is a sequence.
LEMMA CellsAre ==
  ASSUME NEW n \in Nat, NEW f \in [1 .. n -> Cell]
  PROVE  f \in Seq(Cell) /\ Len(f) = n
OBVIOUS

LEMMA NewVec ==
  ASSUME NEW size \in Nat, NEW cap \in Nat, size <= cap, NEW mem \in [1 .. cap -> Cell]
  PROVE  VecOK([size |-> size, cap |-> cap, mem |-> mem])
BY CellsAre DEF VecOK

LEMMA ItemsAre ==
  ASSUME NEW v, VecOK(v)
  PROVE  /\ ItemsOf(v) \in Seq(Cell) /\ Len(ItemsOf(v)) = v.size
         /\ \A i \in 1 .. v.size : ItemsOf(v)[i] = v.mem[i]
<1> DEFINE m == v.mem
           n == v.size
<1>1. n \in Nat /\ \A i \in 1 .. n : m[i] \in Cell
  BY VecTypes
<1>2. ItemsOf(v) = SubSeq(m, 1, n)
  BY DEF ItemsOf
<1> HIDE DEF m, n
<1>3. /\ SubSeq(m, 1, n) \in Seq(Cell)
      /\ Len(SubSeq(m, 1, n)) = IF 1 <= n THEN n - 1 + 1 ELSE 0
      /\ \A i \in 1 .. n - 1 + 1 : SubSeq(m, 1, n)[i] = m[1 + i - 1]
  BY <1>1, SubSeqProperties
<1>4. \A i \in 1 .. n : i \in 1 .. n - 1 + 1 /\ 1 + i - 1 = i
  BY <1>1
<1>5. Len(SubSeq(m, 1, n)) = n
  BY <1>1, <1>3
<1> QED
  BY <1>2, <1>3, <1>4, <1>5 DEF m, n

\* The items are told by their number and the cells they are in.
LEMMA SameItems ==
  ASSUME NEW v, VecOK(v), NEW s \in Seq(Cell), Len(s) = v.size,
         \A i \in 1 .. v.size : s[i] = v.mem[i]
  PROVE  ItemsOf(v) = s
BY ItemsAre, SeqEqual

LEMMA ResizedIs ==
  ASSUME NEW m \in Seq(Cell), NEW cap \in Nat
  PROVE  /\ Resized(m, cap) \in [1 .. cap -> Cell]
         /\ \A i \in 1 .. cap : i <= Len(m) => Resized(m, cap)[i] = m[i]
BY DEF Resized, Cell

\* reserve keeps the items, and makes room if it succeeds.
LEMMA ReservedIs ==
  ASSUME NEW v, VecOK(v), NEW n \in Nat, NEW w \in VecReserved(v, n)
  PROVE  /\ VecOK(w) /\ w.size = v.size /\ w.cap >= n /\ ItemsOf(w) = ItemsOf(v)
         /\ \A i \in 1 .. v.size : w.mem[i] = v.mem[i]
<1>1. CASE v.cap >= n
  BY <1>1 DEF VecReserved
<1>2. CASE ~ (v.cap >= n)
  <2> DEFINE m == Resized(v.mem, n)
  <2>1. /\ v.size \in Nat /\ v.cap \in Nat /\ v.size <= v.cap /\ v.mem \in Seq(Cell)
        /\ Len(v.mem) = v.cap
    BY VecTypes
  <2>2. w = [size |-> v.size, cap |-> n, mem |-> m]
    BY <1>2 DEF VecReserved, VecOK
  <2>3. m \in [1 .. n -> Cell] /\ \A i \in 1 .. n : i <= v.cap => m[i] = v.mem[i]
    BY <2>1, ResizedIs
  <2> HIDE DEF m
  <2>4. VecOK(w)
    BY <1>2, <2>1, <2>2, <2>3, NewVec
  <2>5. \A i \in 1 .. v.size : w.mem[i] = v.mem[i]
    <3>1. \A i \in 1 .. v.size : i \in 1 .. n /\ i <= v.cap
      BY <1>2, <2>1
    <3> QED
      BY <2>2, <2>3, <3>1
  <2>6. ItemsOf(w) = ItemsOf(v)
    <3>1. \A i \in 1 .. w.size : ItemsOf(v)[i] = w.mem[i]
      BY <2>2, <2>5, ItemsAre
    <3> QED
      BY <2>2, <2>4, <3>1, ItemsAre, SameItems
  <2> QED
    BY <1>2, <2>1, <2>2, <2>4, <2>5, <2>6
<1> QED
  BY <1>1, <1>2

LEMMA TwoChanged ==
  ASSUME NEW v, VecOK(v), NEW size, NEW mem
  PROVE  [v EXCEPT !.size = size, !.mem = mem] = [size |-> size, cap |-> v.cap, mem |-> mem]
<1>1. PICK a \in Nat, c \in Nat, m \in Seq(Cell) : v = [size |-> a, cap |-> c, mem |-> m]
  BY DEF VecOK
<1>2. [v EXCEPT !.size = size] = [size |-> size, cap |-> c, mem |-> m]
  BY <1>1
<1>3. [v EXCEPT !.size = size, !.mem = mem] = [[v EXCEPT !.size = size] EXCEPT !.mem = mem]
  OBVIOUS
<1>4. [[size |-> size, cap |-> c, mem |-> m] EXCEPT !.mem = mem] =
         [size |-> size, cap |-> c, mem |-> mem]
  OBVIOUS
<1> QED
  BY <1>1, <1>2, <1>3, <1>4

\* The cells behind a gap move down over it.
LEMMA ErasedIs ==
  ASSUME NEW v, VecOK(v), NEW index \in Nat, NEW n \in Nat, index + n <= v.size
  PROVE  /\ VecOK(Erased(v, index, n)) /\ Erased(v, index, n).size = v.size - n
         /\ \A i \in 1 .. v.size - n :
              Erased(v, index, n).mem[i] = IF i <= index THEN v.mem[i] ELSE v.mem[i + n]
<1> DEFINE k == v.size - n - index
           m == Moved(v.mem, index + 1, index + n + 1, k)
<1>1. /\ v.size \in Nat /\ v.cap \in Nat /\ v.size <= v.cap /\ DOMAIN v.mem = 1 .. v.cap
      /\ \A i \in 1 .. v.cap : v.mem[i] \in Cell
  BY VecTypes
<1>2. Erased(v, index, n) = [size |-> v.size - n, cap |-> v.cap, mem |-> m]
  BY TwoChanged DEF Erased
<1>3. m = [i \in 1 .. v.cap |-> IF i \in index + 1 .. index + 1 + k - 1
                                THEN v.mem[i - (index + 1) + (index + n + 1)] ELSE v.mem[i]]
  BY <1>1 DEF Moved
<1>4. ASSUME NEW i \in 1 .. v.cap
      PROVE  /\ m[i] = IF i \in index + 1 .. v.size - n THEN v.mem[i + n] ELSE v.mem[i]
             /\ m[i] \in Cell
  <2>1. i \in Nat /\ v.size \in Nat
    BY <1>1
  <2>2. index + 1 + k - 1 = v.size - n /\ i - (index + 1) + (index + n + 1) = i + n
    BY <2>1
  <2>3. m[i] = IF i \in index + 1 .. v.size - n THEN v.mem[i + n] ELSE v.mem[i]
    BY <1>3, <2>2
  <2>4. i \in index + 1 .. v.size - n => i + n \in 1 .. v.cap
    BY <1>1
  <2> QED
    BY <1>1, <2>3, <2>4
<1>5. m \in [1 .. v.cap -> Cell]
  BY <1>3, <1>4
<1>6. v.size - n \in Nat /\ v.size - n <= v.cap
  BY <1>1
<1> HIDE DEF m, k
<1>7. \A i \in 1 .. v.size - n : m[i] = IF i <= index THEN v.mem[i] ELSE v.mem[i + n]
  <2> TAKE i \in 1 .. v.size - n
  <2>1. i \in 1 .. v.cap /\ (i \in index + 1 .. v.size - n <=> ~ (i <= index))
    BY <1>1, <1>6
  <2> QED
    BY <1>4, <2>1
<1> QED
  BY <1>1, <1>2, <1>5, <1>6, <1>7, NewVec

\* The cells behind a place move up, and the new items fill the gap.
LEMMA InsertedIs ==
  ASSUME NEW v, VecOK(v), NEW index \in Nat, index <= v.size,
         NEW new \in Seq(Cell), new # <<>>, NEW w \in Inserted(v, index, new)
  PROVE  /\ VecOK(w) /\ w.size = v.size + Len(new)
         /\ \A i \in 1 .. v.size + Len(new) :
              w.mem[i] = IF i <= index THEN v.mem[i]
                         ELSE IF i <= index + Len(new) THEN new[i - index]
                         ELSE v.mem[i - Len(new)]
<1> DEFINE n == Len(new)
           moved(u) == Moved(u.mem, index + n + 1, index + 1, v.size - index)
           mem(u) == [i \in 1 .. u.cap |-> IF i \in index + 1 .. index + n
                                           THEN new[i - index] ELSE moved(u)[i]]
<1>1. n \in Nat /\ n > 0 /\ v.size \in Nat /\ v.cap \in Nat /\ v.size <= v.cap
  BY VecTypes, EmptySeq
<1>2. PICK u \in IF v.size + n > v.cap THEN VecReserved(v, Grown(v.cap, v.size + n)) ELSE {v} :
        w = [u EXCEPT !.size = v.size + n, !.mem = mem(u)]
  BY DEF Inserted
<1>3. /\ VecOK(u) /\ u.size = v.size /\ u.cap >= v.size + n
      /\ \A i \in 1 .. v.size : u.mem[i] = v.mem[i]
  <2>1. CASE v.size + n > v.cap
    <3> DEFINE c == Grown(v.cap, v.size + n)
    <3>1. c \in Nat /\ c >= v.size + n
      <4>1. v.size + n \in Nat /\ v.size + n > 0
        BY <1>1
      <4> HIDE DEF n
      <4> QED
        BY <1>1, <4>1, GrownIs
    <3>2. u \in VecReserved(v, c)
      BY <1>2, <2>1
    <3> HIDE DEF c, n
    <3>3. /\ VecOK(u) /\ u.size = v.size /\ u.cap >= c
          /\ \A i \in 1 .. v.size : u.mem[i] = v.mem[i]
      BY <3>1, <3>2, ReservedIs
    <3>4. u.cap \in Nat
      BY <3>3, VecTypes
    <3> QED
      BY <1>1, <3>1, <3>3, <3>4
  <2>2. CASE ~ (v.size + n > v.cap)
    BY <1>1, <1>2, <2>2
  <2> QED
    BY <2>1, <2>2
<1>4. w = [size |-> v.size + n, cap |-> u.cap, mem |-> mem(u)]
  BY <1>2, <1>3, TwoChanged
<1>5. /\ u.cap \in Nat /\ DOMAIN u.mem = 1 .. u.cap /\ \A i \in 1 .. u.cap : u.mem[i] \in Cell
  BY <1>3, VecTypes
<1>6. \A i \in 1 .. n : new[i] \in Cell
  BY ElementOfSeq
<1> HIDE DEF n
<1>7. ASSUME NEW i \in 1 .. u.cap
      PROVE  /\ mem(u)[i] = IF i \in index + 1 .. index + n THEN new[i - index]
                            ELSE IF i \in index + n + 1 .. v.size + n THEN u.mem[i - n]
                            ELSE u.mem[i]
             /\ mem(u)[i] \in Cell
  <2>1. index + n + 1 + (v.size - index) - 1 = v.size + n
        /\ i - (index + n + 1) + (index + 1) = i - n
    BY <1>1
  <2>2. moved(u)[i] = IF i \in index + n + 1 .. v.size + n THEN u.mem[i - n] ELSE u.mem[i]
    BY <1>5, <2>1 DEF Moved
  <2> HIDE DEF moved
  <2>3. mem(u)[i] = IF i \in index + 1 .. index + n THEN new[i - index] ELSE moved(u)[i]
    OBVIOUS
  <2>4. /\ i \in index + 1 .. index + n => i - index \in 1 .. n
        /\ i \in index + n + 1 .. v.size + n => i - n \in 1 .. u.cap
    BY <1>1, <1>5
  <2> HIDE DEF mem
  <2> QED
    BY <1>5, <1>6, <2>2, <2>3, <2>4
<1>8. mem(u) \in [1 .. u.cap -> Cell]
  BY <1>7
<1> HIDE DEF mem, moved
<1>9. v.size + n \in Nat /\ v.size + n <= u.cap
  BY <1>1, <1>3, <1>5
<1>10. VecOK(w) /\ w.size = v.size + n
  BY <1>4, <1>5, <1>8, <1>9, NewVec
<1>11. ASSUME NEW i \in 1 .. v.size + n
       PROVE  w.mem[i] = IF i <= index THEN v.mem[i]
                         ELSE IF i <= index + n THEN new[i - index] ELSE v.mem[i - n]
  <2>1. /\ i \in 1 .. u.cap
        /\ i \in index + 1 .. index + n <=> (~ (i <= index) /\ i <= index + n)
        /\ i \in index + n + 1 .. v.size + n <=> ~ (i <= index + n)
        /\ i <= index => i \in 1 .. v.size /\ i <= index + n
        /\ ~ (i <= index + n) => i - n \in 1 .. v.size
    BY <1>1, <1>5, <1>9
  <2>2. w.mem[i] = mem(u)[i]
    BY <1>4
  <2> QED
    BY <1>3, <1>7, <2>1, <2>2
<1> QED
  BY <1>10, <1>11 DEF n

------------------------------------------------------------------------------
(* Sequences in pieces *)

LEMMA PieceIs ==
  ASSUME NEW S, NEW s \in Seq(S), NEW a \in Nat, NEW b \in Nat, a >= 1, b <= Len(s), a <= b + 1
  PROVE  /\ SubSeq(s, a, b) \in Seq(S) /\ Len(SubSeq(s, a, b)) = b - a + 1
         /\ \A i \in 1 .. b - a + 1 : SubSeq(s, a, b)[i] = s[a + i - 1]
<1>1. \A i \in a .. b : s[i] \in S
  <2> TAKE i \in a .. b
  <2>1. i \in 1 .. Len(s)
    BY LenProperties
  <2> QED
    BY <2>1, ElementOfSeq
<1>2. IF a <= b THEN TRUE ELSE b - a + 1 = 0
  OBVIOUS
<1> QED
  BY <1>1, <1>2, SubSeqProperties

\* What stands before i, new items, and what stands behind the first n from i on.
Spliced(s, i, n, new) == (SubSeq(s, 1, i - 1) \o new) \o SubSeq(s, i + n, Len(s))

\* t is s with new in the place of its n items from i on.
IsSpliced(S, t, s, i, n, new) ==
  /\ t \in Seq(S) /\ Len(t) = Len(s) - n + Len(new)
  /\ \A j \in 1 .. Len(s) - n + Len(new) :
       t[j] = IF j <= i - 1 THEN s[j]
              ELSE IF j <= i - 1 + Len(new) THEN new[j - (i - 1)]
              ELSE s[j - Len(new) + n]

LEMMA PiecesAre ==
  ASSUME NEW S, NEW s \in Seq(S), NEW i \in Nat, NEW n \in Nat, i >= 1, i + n <= Len(s) + 1,
         NEW new \in Seq(S)
  PROVE  IsSpliced(S, Spliced(s, i, n, new), s, i, n, new)
<1> DEFINE t == Spliced(s, i, n, new)
           x == SubSeq(s, 1, i - 1)
           y == SubSeq(s, i + n, Len(s))
           k == Len(new)
           l == Len(s)
<1>1. k \in Nat /\ l \in Nat
  BY LenProperties
<1>2. /\ x \in Seq(S) /\ Len(x) = i - 1 /\ \A j \in 1 .. i - 1 : x[j] = s[j]
  <2>1. 1 <= (i - 1) + 1 /\ i - 1 <= l /\ i - 1 \in Nat /\ (i - 1) - 1 + 1 = i - 1
    BY <1>1
  <2>2. \A j \in 1 .. i - 1 : 1 + j - 1 = j
    OBVIOUS
  <2> QED
    BY <2>1, <2>2, PieceIs
<1>3. /\ y \in Seq(S) /\ Len(y) = l - (i + n) + 1
      /\ \A j \in 1 .. l - (i + n) + 1 : y[j] = s[(i + n) + j - 1]
  <2>1. i + n \in Nat /\ i + n >= 1 /\ i + n <= l + 1
    BY <1>1
  <2> QED
    BY <1>1, <2>1, PieceIs
<1> HIDE DEF x, y, k, l
<1>4. /\ x \o new \in Seq(S) /\ Len(x \o new) = i - 1 + k
      /\ \A j \in 1 .. i - 1 + k : (x \o new)[j] = IF j <= i - 1 THEN x[j] ELSE new[j - (i - 1)]
  <2>1. /\ x \o new \in Seq(S) /\ Len(x \o new) = Len(x) + Len(new)
        /\ \A j \in 1 .. Len(x) + Len(new) :
             (x \o new)[j] = IF j <= Len(x) THEN x[j] ELSE new[j - Len(x)]
    BY <1>2, ConcatProperties
  <2> QED
    BY <1>2, <2>1 DEF k
<1> DEFINE z == x \o new
<1>0. z \in Seq(S)
  BY <1>4
<1> HIDE DEF z
<1>5. /\ z \o y \in Seq(S) /\ Len(z \o y) = Len(z) + Len(y)
      /\ \A j \in 1 .. Len(z) + Len(y) :
           (z \o y)[j] = IF j <= Len(z) THEN z[j] ELSE y[j - Len(z)]
  BY <1>0, <1>3, ConcatProperties
<1>6. t = z \o y /\ Len(z) = i - 1 + k /\ Len(z) + Len(y) = l - n + k
  <2>1. t = z \o y
    BY Zenon DEF x, y, z, l, Spliced
  <2>2. Len(z) = i - 1 + k
    BY <1>4 DEF z
  <2>3. Len(y) = l - (i + n) + 1
    BY <1>3
  <2>4. Len(z) + Len(y) = l - n + k
    BY <1>1, <2>2, <2>3
  <2> QED
    BY <2>1, <2>2, <2>4
<1>7. ASSUME NEW j \in 1 .. l - n + k
      PROVE  t[j] = IF j <= i - 1 THEN s[j]
                    ELSE IF j <= i - 1 + k THEN new[j - (i - 1)] ELSE s[j - k + n]
  <2>1. t[j] = IF j <= i - 1 + k THEN z[j] ELSE y[j - (i - 1 + k)]
    BY <1>5, <1>6
  <2>2. CASE j <= i - 1
    <3>1. j \in 1 .. i - 1 /\ j \in 1 .. i - 1 + k /\ j <= i - 1 + k
      BY <1>1, <2>2
    <3> QED
      BY <1>2, <1>4, <2>1, <2>2, <3>1 DEF z
  <2>3. CASE ~ (j <= i - 1) /\ j <= i - 1 + k
    <3>1. j \in 1 .. i - 1 + k
      BY <1>1, <2>3
    <3> QED
      BY <1>4, <2>1, <2>3, <3>1 DEF z
  <2>4. CASE ~ (j <= i - 1 + k)
    <3> DEFINE m == j - (i - 1 + k)
    <3>1. m \in 1 .. l - (i + n) + 1 /\ (i + n) + m - 1 = j - k + n /\ ~ (j <= i - 1)
      BY <1>1, <2>4
    <3> HIDE DEF m
    <3>2. t[j] = y[m]
      BY <2>1, <2>4 DEF m
    <3> QED
      BY <1>3, <2>4, <3>1, <3>2
  <2> QED
    BY <2>2, <2>3, <2>4
<1> HIDE DEF t
<1> QED
  BY <1>5, <1>6, <1>7 DEF k, l, t, IsSpliced

------------------------------------------------------------------------------
(* Call by call *)

\* A call fails and changes nothing, or succeeds with one of its vectors.
LEMMA Returns ==
  ASSUME VecInv, NEW vectors, NEW answer, VecReturns(vectors, answer)
  PROVE  \/ VecAsItems!Fail /\ VecInv'
         \/ /\ VecAsItems!Settled /\ vecFailed' \in BOOLEAN
            /\ vec' \in vectors /\ vecAnswer' = answer
<1>1. CASE vectors = {}
  <2>1. vec' = vec /\ vecFailed' = TRUE /\ vecAnswer' = {} /\ ~ vecFailed
    BY <1>1 DEF VecReturns
  <2> QED
    BY <2>1 DEF VecInv, VecItems, VecAsItems!Fail
<1>2. CASE vectors # {}
  BY <1>2 DEF VecReturns, VecInv, VecAsItems!Settled
<1> QED
  BY <1>1, <1>2

LEMMA ItemsOfVec == VecItems = ItemsOf(vec) /\ VecItems' = ItemsOf(vec')
BY DEF VecItems, ItemsOf

LEMMA RunsAre ==
  ASSUME NEW new \in VecRuns
  PROVE  new \in Seq(Cell)
BY VecAssumption DEF VecRuns, Cell

\* The same items, whatever the memory.
LEMMA Rearranges ==
  ASSUME VecInv, NEW vectors, VecReturns(vectors, {0}),
         \A w \in vectors : VecOK(w) /\ ItemsOf(w) = ItemsOf(vec)
  PROVE  VecInv' /\ VecAsItems!ItemsNext
<1>1. CASE VecAsItems!Fail /\ VecInv'
  BY <1>1 DEF VecAsItems!ItemsNext
<1>2. CASE /\ VecAsItems!Settled /\ vecFailed' \in BOOLEAN
           /\ vec' \in vectors /\ vecAnswer' = {0}
  <2>1. VecInv' /\ VecItems' = VecItems
    BY <1>2, ItemsOfVec DEF VecInv
  <2>2. VecAsItems!Rearrange
    BY <1>2, <2>1 DEF VecAsItems!Rearrange
  <2> QED
    BY <2>1, <2>2 DEF VecAsItems!ItemsNext
<1> QED
  BY <1>1, <1>2, Returns

LEMMA InsertKeeps ==
  ASSUME VecInv, NEW index \in 0 .. vec.size, NEW new \in VecRuns, VecInsertN(index, new)
  PROVE  VecInv' /\ VecAsItems!ItemsNext
<1> DEFINE s == VecItems
           i == index + 1
           n == Len(new)
<1>1. new \in Seq(Cell) /\ n \in Nat /\ VecOK(vec) /\ vec.size \in Nat
  BY RunsAre, VecTypes, LenProperties DEF VecInv
<1>2. s \in Seq(Cell) /\ Len(s) = vec.size /\ \A j \in 1 .. vec.size : s[j] = vec.mem[j]
  BY <1>1, ItemsAre, ItemsOfVec
<1> DEFINE t == (SubSeq(s, 1, i - 1) \o new) \o SubSeq(s, i, Len(s))
<1> HIDE DEF s
<1>3. /\ t \in Seq(Cell) /\ Len(t) = vec.size + n
      /\ \A j \in 1 .. vec.size + n :
           t[j] = IF j <= index THEN s[j] ELSE IF j <= index + n THEN new[j - index] ELSE s[j - n]
  <2> DEFINE o == 0
  <2>1. i \in Nat /\ i >= 1 /\ o \in Nat /\ i + o <= Len(s) + 1
    BY <1>1, <1>2
  <2>2. t = Spliced(s, i, o, new)
    <3>1. i + o = i
      BY <1>1
    <3> HIDE DEF i
    <3> QED
      BY <3>1 DEF Spliced
  <2>3. /\ i - 1 = index /\ Len(s) - o + n = vec.size + n
        /\ \A j \in 1 .. vec.size + n : j - n + o = j - n
    BY <1>1, <1>2
  <2> HIDE DEF i, n, o, t
  <2>4. /\ t \in Seq(Cell) /\ Len(t) = Len(s) - o + Len(new)
        /\ \A j \in 1 .. Len(s) - o + Len(new) :
              t[j] = IF j <= i - 1 THEN s[j]
                     ELSE IF j <= i - 1 + Len(new) THEN new[j - (i - 1)]
                     ELSE s[j - Len(new) + o]
    <3>1. new \in Seq(Cell) /\ s \in Seq(Cell)
      BY <1>1, <1>2
    <3>2. IsSpliced(Cell, Spliced(s, i, o, new), s, i, o, new)
      BY <2>1, <3>1, PiecesAre
    <3> QED
      BY <2>2, <3>2, Zenon DEF IsSpliced
  <2>5. Len(s) - o + Len(new) = vec.size + n
    BY <2>3 DEF n
  <2>6. ASSUME NEW j \in 1 .. vec.size + n
        PROVE  t[j] = IF j <= index THEN s[j]
                      ELSE IF j <= index + n THEN new[j - index] ELSE s[j - n]
    <3>1. t[j] = IF j <= i - 1 THEN s[j]
                 ELSE IF j <= i - 1 + Len(new) THEN new[j - (i - 1)]
                 ELSE s[j - Len(new) + o]
      BY <2>4, <2>5
    <3>2. j - Len(new) + o = j - n
      BY <2>3 DEF n
    <3> QED
      BY <2>3, <3>1, <3>2 DEF n
  <2> QED
    BY <2>4, <2>5, <2>6
<1>4. i \in 1 .. Len(s) + 1
  BY <1>1, <1>2
<1>5. ASSUME VecAsItems!Settled, vecFailed' \in BOOLEAN, VecOK(vec'), VecItems' = t,
             vecAnswer' = IF new = <<>> THEN {} ELSE {i}
      PROVE  VecInv' /\ VecAsItems!ItemsNext
  <2>1. VecAsItems!Insert(i, new)
    BY <1>5 DEF VecAsItems!Insert, VecAsItems!Front, VecAsItems!Rest, s
  <2> HIDE DEF i
  <2> QED
    BY <1>4, <1>5, <2>1 DEF VecAsItems!ItemsNext, VecInv, s
<1>6. CASE new = <<>>
  <2>1. VecReturns({vec}, {})
    BY <1>6 DEF VecInsertN
  <2>2. CASE VecAsItems!Fail /\ VecInv'
    BY <2>2 DEF VecAsItems!ItemsNext
  <2>3. CASE /\ VecAsItems!Settled /\ vecFailed' \in BOOLEAN
             /\ vec' \in {vec} /\ vecAnswer' = {}
    <3>1. n = 0
      BY <1>6
    <3> HIDE DEF t, n
    <3>2. Len(s) = Len(t) /\ \A j \in 1 .. Len(s) : s[j] = t[j]
      BY <1>1, <1>2, <1>3, <3>1
    <3>3. s = t
      BY <1>2, <1>3, <3>2, SeqEqual
    <3>4. VecItems' = t
      BY <2>3, <3>3, ItemsOfVec DEF s
    <3> QED
      BY <1>1, <1>5, <1>6, <2>3, <3>4 DEF t
  <2> QED
    BY <2>1, <2>2, <2>3, Returns
<1>7. CASE new # <<>>
  <2>1. VecReturns(Inserted(vec, index, new), {i})
    BY <1>7 DEF VecInsertN
  <2>2. CASE VecAsItems!Fail /\ VecInv'
    BY <2>2 DEF VecAsItems!ItemsNext
  <2>3. CASE /\ VecAsItems!Settled /\ vecFailed' \in BOOLEAN
             /\ vec' \in Inserted(vec, index, new) /\ vecAnswer' = {i}
    <3> DEFINE w == vec'
    <3>0. index \in Nat /\ index <= vec.size
      BY <1>1
    <3>1. /\ VecOK(w) /\ w.size = vec.size + n
          /\ \A j \in 1 .. vec.size + n :
               w.mem[j] = IF j <= index THEN vec.mem[j]
                          ELSE IF j <= index + n THEN new[j - index] ELSE vec.mem[j - n]
      BY <1>1, <1>7, <2>3, <3>0, InsertedIs
    <3> HIDE DEF w, t, n
    <3>2. \A j \in 1 .. w.size : t[j] = w.mem[j]
      <4> TAKE j \in 1 .. w.size
      <4>1. /\ j <= index => j \in 1 .. vec.size
            /\ ~ (j <= index + n) => j - n \in 1 .. vec.size
        BY <1>1, <3>0, <3>1
      <4> QED
        BY <1>2, <1>3, <3>1, <4>1
    <3>3. ItemsOf(w) = t
      BY <1>3, <3>1, <3>2, SameItems
    <3> QED
      BY <1>5, <1>7, <2>3, <3>1, <3>3, ItemsOfVec DEF w, t
  <2> QED
    BY <2>1, <2>2, <2>3, Returns
<1> QED
  BY <1>6, <1>7

LEMMA EraseKeeps ==
  ASSUME VecInv, NEW index \in 0 .. vec.size, NEW n \in 0 .. vec.size - index,
         VecEraseN(index, n)
  PROVE  VecInv' /\ VecAsItems!ItemsNext
<1> DEFINE s == VecItems
           i == index + 1
           w == IF n = 0 THEN vec ELSE Erased(vec, index, n)
           t == SubSeq(s, 1, i - 1) \o SubSeq(s, i + n, Len(s))
<1>1. /\ VecOK(vec) /\ vec.size \in Nat /\ index \in Nat /\ n \in Nat /\ index + n <= vec.size
  BY VecTypes DEF VecInv
<1>2. s \in Seq(Cell) /\ Len(s) = vec.size /\ \A j \in 1 .. vec.size : s[j] = vec.mem[j]
  BY <1>1, ItemsAre, ItemsOfVec
<1>3. i \in Nat /\ i >= 1 /\ i + n <= Len(s) + 1 /\ i - 1 = index
  BY <1>1, <1>2
<1> HIDE DEF s, i
<1>4. t = Spliced(s, i, n, <<>>)
  <2> DEFINE x == SubSeq(s, 1, i - 1)
  <2>1. 1 <= (i - 1) + 1 /\ i - 1 <= Len(s) /\ i - 1 \in Nat /\ Len(s) \in Nat
    BY <1>1, <1>2, <1>3
  <2>2. x \in Seq(Cell)
    BY <1>2, <2>1, PieceIs
  <2> HIDE DEF x
  <2>3. x \o <<>> = x
    BY <2>2, ConcatEmptySeq
  <2> QED
    BY <2>3 DEF x, Spliced
<1>5. /\ t \in Seq(Cell) /\ Len(t) = vec.size - n
      /\ \A j \in 1 .. vec.size - n : t[j] = IF j <= index THEN s[j] ELSE s[j + n]
  <2> DEFINE e == <<>>
  <2>1. e \in Seq(Cell) /\ Len(e) = 0
    OBVIOUS
  <2> HIDE DEF e
  <2>2. IsSpliced(Cell, Spliced(s, i, n, e), s, i, n, e)
    BY <1>1, <1>2, <1>3, <2>1, PiecesAre
  <2>3. t = Spliced(s, i, n, e)
    BY <1>4 DEF e
  <2> HIDE DEF t
  <2>4. /\ t \in Seq(Cell) /\ Len(t) = Len(s) - n + Len(e)
        /\ \A j \in 1 .. Len(s) - n + Len(e) :
              t[j] = IF j <= i - 1 THEN s[j]
                     ELSE IF j <= i - 1 + Len(e) THEN e[j - (i - 1)]
                     ELSE s[j - Len(e) + n]
    BY <2>2, <2>3, Zenon DEF IsSpliced
  <2>5. Len(s) - n + Len(e) = vec.size - n
    BY <1>1, <1>2, <2>1
  <2>6. ASSUME NEW j \in 1 .. vec.size - n
        PROVE  t[j] = IF j <= index THEN s[j] ELSE s[j + n]
    <3>1. t[j] = IF j <= i - 1 THEN s[j]
                 ELSE IF j <= i - 1 + Len(e) THEN e[j - (i - 1)]
                 ELSE s[j - Len(e) + n]
      BY <2>4, <2>5
    <3>2. j - Len(e) + n = j + n /\ i - 1 + Len(e) = index
      BY <1>1, <1>3, <2>1
    <3> QED
      BY <1>3, <3>1, <3>2
  <2> QED
    BY <2>4, <2>5, <2>6
<1>6. /\ VecOK(w) /\ w.size = vec.size - n
      /\ \A j \in 1 .. vec.size - n : w.mem[j] = IF j <= index THEN vec.mem[j] ELSE vec.mem[j + n]
  <2>1. CASE n = 0
    BY <1>1, <2>1
  <2>2. CASE n # 0
    BY <1>1, <2>2, ErasedIs
  <2> QED
    BY <2>1, <2>2
<1>7. VecReturns({w}, {i})
  BY DEF VecEraseN, i
<1> HIDE DEF w, t
<1>8. CASE VecAsItems!Fail /\ VecInv'
  BY <1>8 DEF VecAsItems!ItemsNext
<1>9. CASE /\ VecAsItems!Settled /\ vecFailed' \in BOOLEAN /\ vec' \in {w} /\ vecAnswer' = {i}
  <2>1. \A j \in 1 .. w.size : t[j] = w.mem[j]
    <3> TAKE j \in 1 .. w.size
    <3>1. j \in 1 .. vec.size /\ (~ (j <= index) => j + n \in 1 .. vec.size)
          /\ j \in 1 .. vec.size - n
      BY <1>1, <1>6
    <3> QED
      BY <1>2, <1>5, <1>6, <3>1
  <2>2. ItemsOf(w) = t
    BY <1>5, <1>6, <2>1, SameItems
  <2>3. VecInv' /\ VecItems' = t
    BY <1>6, <1>9, <2>2, ItemsOfVec DEF VecInv
  <2>4. VecAsItems!Remove(i, n)
    BY <1>9, <2>3 DEF VecAsItems!Remove, VecAsItems!Front, VecAsItems!Rest, s, t
  <2>5. i \in 1 .. Len(s) + 1 /\ n \in 0 .. Len(s) + 1 - i
    BY <1>1, <1>2, <1>3
  <2> QED
    BY <2>3, <2>4, <2>5 DEF VecAsItems!ItemsNext, s
<1> QED
  BY <1>7, <1>8, <1>9, Returns

LEMMA ReserveKeeps ==
  ASSUME VecInv, NEW n \in Nat, VecReserve(n)
  PROVE  VecInv' /\ VecAsItems!ItemsNext
<1>1. VecReturns(VecReserved(vec, n), {0})
  BY DEF VecReserve
<1>2. \A w \in VecReserved(vec, n) : VecOK(w) /\ ItemsOf(w) = ItemsOf(vec)
  BY ReservedIs DEF VecInv
<1> QED
  BY <1>1, <1>2, Rearranges

\* The first n items stay.
LEMMA Shortens ==
  ASSUME VecInv, NEW n \in Nat, n <= vec.size,
         VecReturns({Erased(vec, n, vec.size - n)}, {0})
  PROVE  VecInv' /\ VecAsItems!ItemsNext
<1> DEFINE s == VecItems
           k == vec.size - n
           w == Erased(vec, n, k)
           t == SubSeq(s, 1, n)
<1>1. VecOK(vec) /\ vec.size \in Nat /\ k \in Nat /\ n + k <= vec.size /\ vec.size - k = n
  BY VecTypes DEF VecInv
<1>2. s \in Seq(Cell) /\ Len(s) = vec.size /\ \A j \in 1 .. vec.size : s[j] = vec.mem[j]
  BY <1>1, ItemsAre, ItemsOfVec
<1>3. /\ VecOK(w) /\ w.size = n /\ \A j \in 1 .. n : w.mem[j] = vec.mem[j]
  <2> HIDE DEF k
  <2>1. /\ VecOK(w) /\ w.size = vec.size - k
        /\ \A j \in 1 .. vec.size - k : w.mem[j] = IF j <= n THEN vec.mem[j] ELSE vec.mem[j + k]
    BY <1>1, ErasedIs
  <2> QED
    BY <1>1, <2>1
<1> HIDE DEF s
<1>4. t \in Seq(Cell) /\ Len(t) = n /\ \A j \in 1 .. n : t[j] = s[j]
  <2>1. n - 1 + 1 = n /\ \A j \in 1 .. n : 1 + j - 1 = j
    OBVIOUS
  <2>2. n <= Len(s) /\ 1 <= n + 1
    BY <1>2
  <2> QED
    BY <1>2, <2>1, <2>2, PieceIs
<1> HIDE DEF w, t
<1>5. CASE VecAsItems!Fail /\ VecInv'
  BY <1>5 DEF VecAsItems!ItemsNext
<1>6. CASE VecAsItems!Settled /\ vecFailed' \in BOOLEAN /\ vec' \in {w} /\ vecAnswer' = {0}
  <2>1. \A j \in 1 .. w.size : t[j] = w.mem[j]
    <3>1. \A j \in 1 .. n : j \in 1 .. vec.size
      BY <1>1
    <3> QED
      BY <1>2, <1>3, <1>4, <3>1
  <2>2. ItemsOf(w) = t
    BY <1>3, <1>4, <2>1, SameItems
  <2>3. VecInv' /\ VecItems' = t
    BY <1>3, <1>6, <2>2, ItemsOfVec DEF VecInv
  <2>4. VecAsItems!Shorten(n)
    BY <1>6, <2>3 DEF VecAsItems!Shorten, s, t
  <2>5. n \in 0 .. Len(s)
    BY <1>1, <1>2
  <2> QED
    BY <2>3, <2>4, <2>5 DEF VecAsItems!ItemsNext, s
<1> QED
  BY <1>5, <1>6, Returns DEF w

LEMMA ResizeKeeps ==
  ASSUME VecInv, NEW n \in Nat, VecResize(n)
  PROVE  VecInv' /\ VecAsItems!ItemsNext
<1>1. VecReturns(VecResized(vec, n), {0})
  BY DEF VecResize
<1>2. VecOK(vec) /\ vec.size \in Nat
  BY VecTypes DEF VecInv
<1>3. CASE n <= vec.size
  <2>1. VecReturns({Erased(vec, n, vec.size - n)}, {0})
    BY <1>1, <1>3 DEF VecResized
  <2> QED
    BY <1>3, <2>1, Shortens
<1>4. CASE ~ (n <= vec.size)
  <2> DEFINE S == VecResized(vec, n)
             s == VecItems
  <2>1. CASE VecAsItems!Fail /\ VecInv'
    BY <2>1 DEF VecAsItems!ItemsNext
  <2>2. CASE VecAsItems!Settled /\ vecFailed' \in BOOLEAN /\ vec' \in S /\ vecAnswer' = {0}
    <3>1. PICK u \in VecReserved(vec, n) : vec' = [u EXCEPT !.size = n]
      BY <1>4, <2>2 DEF VecResized
    <3>2. /\ VecOK(u) /\ u.cap >= n /\ \A j \in 1 .. vec.size : u.mem[j] = vec.mem[j]
      BY <1>2, <3>1, ReservedIs
    <3>3. vec' = [size |-> n, cap |-> u.cap, mem |-> u.mem]
      BY <3>1, <3>2 DEF VecOK
    <3>4. /\ u.cap \in Nat /\ u.mem \in Seq(Cell) /\ Len(u.mem) = u.cap
      BY <3>2, VecTypes
    <3>5. VecOK(vec')
      <4>1. n <= u.cap
        BY <3>2, <3>4
      <4> QED
        BY <3>3, <3>4, <4>1 DEF VecOK
    <3> DEFINE t == ItemsOf(vec')
    <3>6. t \in Seq(Cell) /\ Len(t) = n /\ \A j \in 1 .. n : t[j] = u.mem[j]
      BY <3>3, <3>5, ItemsAre
    <3>7. s \in Seq(Cell) /\ Len(s) = vec.size /\ \A j \in 1 .. vec.size : s[j] = vec.mem[j]
      BY <1>2, ItemsAre, ItemsOfVec
    <3>8. VecInv' /\ VecItems' = t
      BY <2>2, <3>5, ItemsOfVec DEF VecInv
    <3> HIDE DEF s, t
    <3>9. SubSeq(t, 1, Len(s)) = s
      <4> DEFINE k == Len(s)
                 x == SubSeq(t, 1, k)
      <4>1. k \in Nat /\ k <= Len(t) /\ 1 <= k + 1 /\ k - 1 + 1 = k
            /\ \A j \in 1 .. k : 1 + j - 1 = j
        BY <1>2, <1>4, <3>6, <3>7
      <4> HIDE DEF k
      <4>2. x \in Seq(Cell) /\ Len(x) = k /\ \A j \in 1 .. k : x[j] = t[j]
        BY <3>6, <4>1, PieceIs
      <4>3. \A j \in 1 .. k : j \in 1 .. n /\ j \in 1 .. vec.size
        BY <1>2, <1>4, <3>7 DEF k
      <4>4. \A j \in 1 .. k : x[j] = s[j]
        BY <3>2, <3>6, <3>7, <4>2, <4>3
      <4> HIDE DEF x
      <4>5. x = s
        BY <3>7, <4>2, <4>4, SeqEqual DEF k
      <4> QED
        BY <4>5 DEF x, k
    <3>10. Len(t) > Len(s)
      BY <1>2, <1>4, <3>6, <3>7
    <3>11. VecAsItems!Lengthen
      BY <2>2, <3>6, <3>8, <3>9, <3>10 DEF VecAsItems!Lengthen, Cell, s
    <3> QED
      BY <3>8, <3>11 DEF VecAsItems!ItemsNext
  <2> QED
    BY <1>1, <2>1, <2>2, Returns
<1> QED
  BY <1>3, <1>4

LEMMA EmptyIs ==
  VecOK(VecPlaceholder) /\ ItemsOf(VecPlaceholder) = <<>>
<1>1. VecPlaceholder.size = 0 /\ VecPlaceholder.mem = <<>> /\ VecPlaceholder.cap = 0
  BY DEF VecPlaceholder
<1>2. VecOK(VecPlaceholder)
  BY DEF VecOK, VecPlaceholder
<1> QED
  BY <1>1, <1>2, SubSeqEmpty DEF ItemsOf

\* A copy without spare capacity.
LEMMA TrimmedIs ==
  ASSUME NEW v, VecOK(v), NEW w,
         w = [size |-> v.size, cap |-> v.size, mem |-> Resized(v.mem, v.size)]
  PROVE  VecOK(w) /\ ItemsOf(w) = ItemsOf(v)
<1> DEFINE m == Resized(v.mem, v.size)
<1>1. /\ v.size \in Nat /\ v.cap \in Nat /\ v.size <= v.cap /\ v.mem \in Seq(Cell)
      /\ Len(v.mem) = v.cap
  BY VecTypes
<1>2. m \in [1 .. v.size -> Cell] /\ \A i \in 1 .. v.size : i <= v.cap => m[i] = v.mem[i]
  BY <1>1, ResizedIs
<1> HIDE DEF m
<1>3. w = [size |-> v.size, cap |-> v.size, mem |-> m]
  BY DEF m
<1>4. VecOK(w)
  BY <1>1, <1>2, <1>3, NewVec
<1>5. \A i \in 1 .. w.size : ItemsOf(v)[i] = w.mem[i]
  <2>1. \A i \in 1 .. v.size : i <= v.cap
    BY <1>1
  <2> QED
    BY <1>2, <1>3, <2>1, ItemsAre
<1>6. w.size = v.size
  BY <1>3
<1> QED
  BY <1>4, <1>5, <1>6, ItemsAre, SameItems

LEMMA TrimsKeep ==
  ASSUME VecInv, VecShrink \/ VecClone
  PROVE  VecInv' /\ VecAsItems!ItemsNext
<1>1. VecOK(vec) /\ vec.size \in Nat
  BY VecTypes DEF VecInv
<1> DEFINE trimmed == [size |-> vec.size, cap |-> vec.size, mem |-> Resized(vec.mem, vec.size)]
<1>2. ASSUME NEW w, VecReturns({w}, {0}),
             w = vec \/ w = trimmed \/ (w = VecPlaceholder /\ vec.size = 0)
      PROVE  VecInv' /\ VecAsItems!ItemsNext
  <2>1. CASE w = vec
    BY <1>1, <1>2, <2>1, Rearranges
  <2>2. CASE w = trimmed
    <3>1. VecOK(w) /\ ItemsOf(w) = ItemsOf(vec)
      BY <1>1, <2>2, TrimmedIs
    <3> QED
      BY <1>2, <3>1, Rearranges
  <2>3. CASE w = VecPlaceholder /\ vec.size = 0
    <3>1. ItemsOf(vec) = <<>>
      BY <2>3, SubSeqEmpty DEF ItemsOf
    <3>2. VecOK(w) /\ ItemsOf(w) = ItemsOf(vec)
      BY <2>3, <3>1, EmptyIs
    <3> QED
      BY <1>2, <3>2, Rearranges
  <2> QED
    BY <1>2, <2>1, <2>2, <2>3
<1>3. CASE VecShrink
  <2> DEFINE w == Shrunk(vec)
  <2>1. CASE vec.size # vec.cap /\ vec.size # 0
    <3> DEFINE n == vec.size
               m == Resized(vec.mem, vec.size)
    <3>1. w = [vec EXCEPT !.cap = n, !.mem = m]
      BY <2>1 DEF Shrunk
    <3>2. [vec EXCEPT !.cap = n] = [size |-> n, cap |-> n, mem |-> vec.mem]
      BY <1>1 DEF VecOK
    <3> HIDE DEF m, n
    <3>3. [[size |-> n, cap |-> n, mem |-> vec.mem] EXCEPT !.mem = m] =
             [size |-> n, cap |-> n, mem |-> m]
      OBVIOUS
    <3>4. w = trimmed
      BY <3>1, <3>2, <3>3 DEF m, n
    <3> QED
      BY <1>2, <1>3, <3>4 DEF VecShrink
  <2>2. CASE vec.size = vec.cap
    <3>1. w = vec
      BY <2>2 DEF Shrunk
    <3> QED
      BY <1>2, <1>3, <3>1 DEF VecShrink
  <2>3. CASE vec.size # vec.cap /\ vec.size = 0
    <3>1. w = VecPlaceholder
      BY <2>3 DEF Shrunk
    <3> QED
      BY <1>2, <1>3, <2>3, <3>1 DEF VecShrink
  <2> QED
    BY <2>1, <2>2, <2>3
<1>4. CASE VecClone
  BY <1>2, <1>4 DEF VecClone, VecCloned
<1> QED
  BY <1>3, <1>4

LEMMA VecNextKeeps ==
  ASSUME VecInv, [VecNext]_vecVars
  PROVE  VecInv' /\ [VecAsItems!ItemsNext]_<<VecItems, vecAnswer, vecFailed>>
<1>1. CASE UNCHANGED vecVars
  BY <1>1 DEF vecVars, VecInv, VecItems
<1>2. ASSUME NEW index \in 0 .. vec.size, NEW new \in VecRuns, VecInsertN(index, new)
      PROVE  VecInv' /\ VecAsItems!ItemsNext
  BY <1>2, InsertKeeps
<1>3. ASSUME NEW index \in 0 .. vec.size, NEW n \in 0 .. vec.size - index, VecEraseN(index, n)
      PROVE  VecInv' /\ VecAsItems!ItemsNext
  BY <1>3, EraseKeeps
<1>4. ASSUME NEW n \in 0 .. MaxVec + 1, VecReserve(n) \/ VecResize(n)
      PROVE  VecInv' /\ VecAsItems!ItemsNext
  <2>1. n \in Nat
    BY VecAssumption
  <2> QED
    BY <1>4, <2>1, ReserveKeeps, ResizeKeeps
<1>5. CASE VecShrink \/ VecClone
  BY <1>5, TrimsKeep
<1>6. CASE VecClear
  <2>1. 0 \in Nat /\ 0 <= vec.size /\ vec.size - 0 = vec.size
    BY VecTypes DEF VecInv
  <2>2. VecReturns({Erased(vec, 0, vec.size - 0)}, {0})
    BY <1>6, <2>1 DEF VecClear
  <2> QED
    BY <2>1, <2>2, Shortens
<1>7. CASE VecCleanup
  <2>1. VecItems' = <<>> /\ VecInv'
    BY <1>7, EmptyIs, ItemsOfVec DEF VecCleanup, VecInv
  <2>2. VecAsItems!Reset
    BY <1>7, <2>1 DEF VecCleanup, VecAsItems!Reset
  <2> QED
    BY <2>1, <2>2 DEF VecAsItems!ItemsNext
<1>8. CASE VecShrinkFails \/ VecCloneFails
  <2>1. VecReturns({}, {0})
    BY <1>8 DEF VecShrinkFails, VecCloneFails, VecReturns
  <2> QED
    BY <2>1, Rearranges
<1> QED
  BY <1>1, <1>2, <1>3, <1>4, <1>5, <1>6, <1>7, <1>8 DEF VecNext

------------------------------------------------------------------------------
(* Theorems *)

\* The memory is always cap cells, and the items never exceed it.
THEOREM MemoryStands == VecSpec => []VecInv
<1>1. VecInit => VecInv
  BY EmptyIs DEF VecInit, VecInv
<1>2. VecInv /\ [VecNext]_vecVars => VecInv'
  BY VecNextKeeps
<1> QED
  BY <1>1, <1>2, PTL DEF VecSpec

(***************************************************************************)
(* For all elements, runs and capacities, cc_vec is a sequence: every call *)
(* that inserts, erases, grows, shrinks or copies shows its caller what a  *)
(* call on a sequence shows, and a failing allocation loses nothing.       *)
(***************************************************************************)
THEOREM VectorImplementsItems == VecSpec => VecIsItems
<1>1. VecInit => VecAsItems!ItemsInit
  BY EmptyIs DEF VecInit, VecAsItems!ItemsInit, VecItems, ItemsOf
<1>2. VecInv /\ [VecNext]_vecVars => [VecAsItems!ItemsNext]_<<VecItems, vecAnswer, vecFailed>>
  BY VecNextKeeps
<1> QED
  BY <1>1, <1>2, MemoryStands, PTL
     DEF VecSpec, VecIsItems, VecAsItems!ItemsSpec, VecAsItems!itemVars

------------------------------------------------------------------------------
(* Strings *)

StrCell == Chars \cup {Nul, Unset}

\* The inductive invariant: the memory has cap + 1 cells, of which size are
\* characters and the next is the terminator.
StrOK(s) ==
  /\ s \in [size : Nat, cap : Nat, mem : Seq(StrCell)]
  /\ Len(s.mem) = s.cap + 1 /\ s.size <= s.cap
  /\ s.mem[s.size + 1] = Nul
  /\ \A i \in 1 .. s.size : s.mem[i] \in Chars

StrInv == StrOK(str) /\ strFailed \in BOOLEAN

LEMMA NulIsNone == Nul \notin Chars
BY StrAssumption DEF Nul

LEMMA StrTypes ==
  ASSUME NEW s, StrOK(s)
  PROVE  /\ s.size \in Nat /\ s.cap \in Nat /\ s.mem \in Seq(StrCell)
         /\ Len(s.mem) = s.cap + 1 /\ s.size <= s.cap
         /\ s.mem[s.size + 1] = Nul /\ \A i \in 1 .. s.size : s.mem[i] \in Chars
         /\ DOMAIN s.mem = 1 .. s.cap + 1
         /\ \A i \in 1 .. s.cap + 1 : s.mem[i] \in StrCell
<1>1. /\ s.size \in Nat /\ s.cap \in Nat /\ s.mem \in Seq(StrCell)
      /\ Len(s.mem) = s.cap + 1 /\ s.size <= s.cap
      /\ s.mem[s.size + 1] = Nul /\ \A i \in 1 .. s.size : s.mem[i] \in Chars
  BY DEF StrOK
<1>2. DOMAIN s.mem = 1 .. s.cap + 1 /\ \A i \in 1 .. s.cap + 1 : s.mem[i] \in StrCell
  <2> DEFINE m == s.mem
  <2>1. m \in Seq(StrCell) /\ Len(m) = s.cap + 1
    BY <1>1
  <2> HIDE DEF m
  <2>2. DOMAIN m = 1 .. Len(m) /\ \A i \in 1 .. Len(m) : m[i] \in StrCell
    BY <2>1
  <2> QED
    BY <2>1, <2>2 DEF m
<1> QED
  BY <1>1, <1>2

LEMMA NewStr ==
  ASSUME NEW size \in Nat, NEW cap \in Nat, size <= cap, NEW mem \in [1 .. cap + 1 -> StrCell],
         mem[size + 1] = Nul, \A i \in 1 .. size : mem[i] \in Chars
  PROVE  StrOK([size |-> size, cap |-> cap, mem |-> mem])
<1>1. mem \in Seq(StrCell) /\ Len(mem) = cap + 1
  OBVIOUS
<1> QED
  BY <1>1 DEF StrOK

\* What C reads is the first size cells.
LEMMA CStringIs ==
  ASSUME NEW s, StrOK(s)
  PROVE  /\ CString(s) \in Seq(Chars) /\ Len(CString(s)) = s.size
         /\ \A i \in 1 .. s.size : CString(s)[i] = s.mem[i]
<1> DEFINE m == s.mem
           n == s.size
           ends == {i \in DOMAIN m : m[i] = Nul} \cup {Len(m) + 1}
<1>1. n \in Nat /\ \A i \in 1 .. n : m[i] \in Chars
  BY StrTypes
<1>2. n + 1 \in ends /\ \A y \in ends : n + 1 =< y /\ y \in Nat
  <2>1. n + 1 \in ends
    BY StrTypes
  <2>2. ASSUME NEW y \in ends
        PROVE  y \in Nat /\ n + 1 =< y
    <3>1. y \in 1 .. s.cap + 2
      BY StrTypes
    <3>2. y \in 1 .. n => m[y] # Nul /\ y # Len(m) + 1
      BY StrTypes, NulIsNone
    <3> QED
      BY <1>1, <3>1, <3>2
  <2> QED
    BY <2>1, <2>2
<1> HIDE DEF ends
<1>3. Min(ends) = n + 1
  <2>1. \A x \in ends : (\A y \in ends : x =< y) => x = n + 1
    BY <1>1, <1>2
  <2> QED
    BY <1>2, <2>1 DEF Min
<1>4. CString(s) = SubSeq(m, 1, n)
  <2>1. CString(s) = SubSeq(m, 1, Min(ends) - 1)
    BY DEF CString, ends
  <2>2. Min(ends) - 1 = n
    BY <1>1, <1>3
  <2> QED
    BY <2>1, <2>2
<1> HIDE DEF m, n
<1>5. /\ SubSeq(m, 1, n) \in Seq(Chars)
      /\ Len(SubSeq(m, 1, n)) = IF 1 <= n THEN n - 1 + 1 ELSE 0
      /\ \A i \in 1 .. n - 1 + 1 : SubSeq(m, 1, n)[i] = m[1 + i - 1]
  BY <1>1, SubSeqProperties
<1>6. \A i \in 1 .. n : i \in 1 .. n - 1 + 1 /\ 1 + i - 1 = i
  BY <1>1
<1>7. Len(SubSeq(m, 1, n)) = n
  BY <1>1, <1>5
<1> QED
  BY <1>4, <1>5, <1>6, <1>7 DEF m, n

\* A string is told by its length and its characters.
LEMMA SameString ==
  ASSUME NEW s, StrOK(s), NEW t \in Seq(Chars), Len(t) = s.size,
         \A i \in 1 .. s.size : t[i] = s.mem[i]
  PROVE  CString(s) = t
BY CStringIs, SeqEqual

LEMMA StrResizedMemory ==
  ASSUME NEW m \in Seq(StrCell), NEW n \in Nat
  PROVE  /\ Resized(m, n) \in [1 .. n -> StrCell]
         /\ \A i \in 1 .. n : i <= Len(m) => Resized(m, n)[i] = m[i]
BY DEF Resized, StrCell

LEMMA StrTwoChanged ==
  ASSUME NEW s, StrOK(s), NEW size, NEW mem
  PROVE  [s EXCEPT !.size = size, !.mem = mem] = [size |-> size, cap |-> s.cap, mem |-> mem]
<1>1. PICK a \in Nat, c \in Nat, m \in Seq(StrCell) : s = [size |-> a, cap |-> c, mem |-> m]
  BY DEF StrOK
<1>2. [s EXCEPT !.size = size] = [size |-> size, cap |-> c, mem |-> m]
  BY <1>1
<1>3. [s EXCEPT !.size = size, !.mem = mem] = [[s EXCEPT !.size = size] EXCEPT !.mem = mem]
  OBVIOUS
<1>4. [[size |-> size, cap |-> c, mem |-> m] EXCEPT !.mem = mem] =
         [size |-> size, cap |-> c, mem |-> mem]
  OBVIOUS
<1> QED
  BY <1>1, <1>2, <1>3, <1>4

LEMMA StrCapChanged ==
  ASSUME NEW s, StrOK(s), NEW cap, NEW mem
  PROVE  [s EXCEPT !.cap = cap, !.mem = mem] = [size |-> s.size, cap |-> cap, mem |-> mem]
<1>1. PICK a \in Nat, c \in Nat, m \in Seq(StrCell) : s = [size |-> a, cap |-> c, mem |-> m]
  BY DEF StrOK
<1>2. [s EXCEPT !.cap = cap] = [size |-> a, cap |-> cap, mem |-> m]
  BY <1>1
<1>3. [s EXCEPT !.cap = cap, !.mem = mem] = [[s EXCEPT !.cap = cap] EXCEPT !.mem = mem]
  OBVIOUS
<1>4. [[size |-> a, cap |-> cap, mem |-> m] EXCEPT !.mem = mem] =
         [size |-> a, cap |-> cap, mem |-> mem]
  OBVIOUS
<1> QED
  BY <1>1, <1>2, <1>3, <1>4

\* reserve keeps the characters and the terminator.
LEMMA StrReservedIs ==
  ASSUME NEW s, StrOK(s), NEW n \in Nat, NEW w \in StrReserved(s, n)
  PROVE  /\ StrOK(w) /\ w.size = s.size /\ w.cap >= n /\ CString(w) = CString(s)
         /\ \A i \in 1 .. s.size + 1 : w.mem[i] = s.mem[i]
<1>1. CASE s.cap >= n
  BY <1>1 DEF StrReserved
<1>2. CASE ~ (s.cap >= n)
  <2> DEFINE m == Resized(s.mem, n + 1)
  <2>1. /\ s.size \in Nat /\ s.cap \in Nat /\ s.size <= s.cap /\ s.mem \in Seq(StrCell)
        /\ Len(s.mem) = s.cap + 1 /\ s.mem[s.size + 1] = Nul
        /\ \A i \in 1 .. s.size : s.mem[i] \in Chars
    BY StrTypes
  <2>2. w = [size |-> s.size, cap |-> n, mem |-> m]
    <3>1. w = [s EXCEPT !.cap = n, !.mem = m]
      BY <1>2 DEF StrReserved
    <3> HIDE DEF m
    <3> QED
      BY <3>1, StrCapChanged
  <2>3. m \in [1 .. n + 1 -> StrCell] /\ \A i \in 1 .. n + 1 : i <= s.cap + 1 => m[i] = s.mem[i]
    <3> DEFINE k == n + 1
    <3>1. k \in Nat
      OBVIOUS
    <3> HIDE DEF k
    <3>2. /\ Resized(s.mem, k) \in [1 .. k -> StrCell]
          /\ \A i \in 1 .. k : i <= Len(s.mem) => Resized(s.mem, k)[i] = s.mem[i]
      BY <2>1, <3>1, StrResizedMemory
    <3> QED
      BY <2>1, <3>2 DEF k
  <2> HIDE DEF m
  <2>4. \A i \in 1 .. s.size + 1 : m[i] = s.mem[i]
    <3>1. \A i \in 1 .. s.size + 1 : i \in 1 .. n + 1 /\ i <= s.cap + 1
      BY <1>2, <2>1
    <3> QED
      BY <2>3, <3>1
  <2>5. m[s.size + 1] = Nul /\ \A i \in 1 .. s.size : m[i] \in Chars
    <3>1. s.size + 1 \in 1 .. s.size + 1 /\ \A i \in 1 .. s.size : i \in 1 .. s.size + 1
      BY <2>1
    <3>2. m[s.size + 1] = s.mem[s.size + 1]
      BY <2>4, <3>1
    <3> QED
      BY <2>1, <2>4, <3>1, <3>2
  <2>6. s.size <= n
    BY <1>2, <2>1
  <2>7. StrOK(w)
    BY <2>1, <2>2, <2>3, <2>5, <2>6, NewStr
  <2>8. CString(w) = CString(s)
    <3>1. \A i \in 1 .. w.size : CString(s)[i] = w.mem[i]
      BY <2>1, <2>2, <2>4, CStringIs
    <3> QED
      BY <2>2, <2>7, <3>1, CStringIs, SameString
  <2> QED
    BY <1>2, <2>1, <2>2, <2>4, <2>7, <2>8
<1> QED
  BY <1>1, <1>2


\* u is s with a gap of n cells before what follows index.
HasRoom(u, s, index, n) ==
  /\ u = [size |-> s.size + n, cap |-> u.cap, mem |-> u.mem]
  /\ u.cap \in Nat /\ s.size + n <= u.cap /\ u.mem \in [1 .. u.cap + 1 -> StrCell]
  /\ \A i \in 1 .. index : u.mem[i] = s.mem[i]
  /\ \A i \in index + n + 1 .. s.size + n + 1 : u.mem[i] = s.mem[i - n]

LEMMA RoomIs ==
  ASSUME NEW s, StrOK(s), NEW index \in Nat, index <= s.size, NEW n \in Nat,
         NEW u \in WithRoom(s, index, n)
  PROVE  HasRoom(u, s, index, n)
<1> DEFINE moved(w) == Moved(w.mem, index + n + 1, index + 1, s.size - index + 1)
<1>1. /\ s.size \in Nat /\ s.cap \in Nat /\ s.size <= s.cap
  BY StrTypes
<1>2. PICK w \in IF s.size + n > s.cap THEN StrReserved(s, Grown(s.cap, s.size + n)) ELSE {s} :
        u = [w EXCEPT !.size = s.size + n, !.mem = moved(w)]
  BY DEF WithRoom
<1>3. /\ StrOK(w) /\ w.size = s.size /\ w.cap >= s.size + n
      /\ \A i \in 1 .. s.size + 1 : w.mem[i] = s.mem[i]
  <2>1. CASE s.size + n > s.cap
    <3> DEFINE c == Grown(s.cap, s.size + n)
    <3>1. c \in Nat /\ c >= s.size + n
      <4>1. s.size + n \in Nat /\ s.size + n > 0
        BY <1>1, <2>1
      <4> QED
        BY <1>1, <4>1, GrownIs
    <3>2. w \in StrReserved(s, c)
      BY <1>2, <2>1
    <3> HIDE DEF c
    <3>3. /\ StrOK(w) /\ w.size = s.size /\ w.cap >= c
          /\ \A i \in 1 .. s.size + 1 : w.mem[i] = s.mem[i]
      BY <3>1, <3>2, StrReservedIs
    <3>4. w.cap \in Nat
      BY <3>3, StrTypes
    <3> QED
      BY <1>1, <3>1, <3>3, <3>4
  <2>2. CASE ~ (s.size + n > s.cap)
    BY <1>1, <1>2, <2>2
  <2> QED
    BY <2>1, <2>2
<1>4. u = [size |-> s.size + n, cap |-> w.cap, mem |-> moved(w)]
  BY <1>2, <1>3, StrTwoChanged
<1>5. /\ w.cap \in Nat /\ DOMAIN w.mem = 1 .. w.cap + 1
      /\ \A i \in 1 .. w.cap + 1 : w.mem[i] \in StrCell
  BY <1>3, StrTypes
<1>6. ASSUME NEW i \in 1 .. w.cap + 1
      PROVE  /\ moved(w)[i] = IF i \in index + n + 1 .. s.size + n + 1 THEN w.mem[i - n]
                              ELSE w.mem[i]
             /\ moved(w)[i] \in StrCell
  <2>1. index + n + 1 + (s.size - index + 1) - 1 = s.size + n + 1
        /\ i - (index + n + 1) + (index + 1) = i - n
    BY <1>1
  <2>2. moved(w)[i] = IF i \in index + n + 1 .. s.size + n + 1 THEN w.mem[i - n] ELSE w.mem[i]
    BY <1>5, <2>1 DEF Moved
  <2>3. i \in index + n + 1 .. s.size + n + 1 => i - n \in 1 .. w.cap + 1
    BY <1>1, <1>5
  <2> HIDE DEF moved
  <2> QED
    BY <1>5, <2>2, <2>3
<1>7. moved(w) \in [1 .. w.cap + 1 -> StrCell]
  <2>1. DOMAIN moved(w) = 1 .. w.cap + 1 /\ moved(w) = [i \in 1 .. w.cap + 1 |-> moved(w)[i]]
    BY <1>5 DEF Moved
  <2> HIDE DEF moved
  <2> QED
    BY <1>6, <2>1
<1> HIDE DEF moved
<1>8. \A i \in 1 .. index : moved(w)[i] = s.mem[i]
  <2> TAKE i \in 1 .. index
  <2>1. i \in 1 .. w.cap + 1 /\ i \notin index + n + 1 .. s.size + n + 1 /\ i \in 1 .. s.size + 1
    BY <1>1, <1>3, <1>5
  <2> QED
    BY <1>3, <1>6, <2>1
<1>9. \A i \in index + n + 1 .. s.size + n + 1 : moved(w)[i] = s.mem[i - n]
  <2> TAKE i \in index + n + 1 .. s.size + n + 1
  <2>1. i \in 1 .. w.cap + 1 /\ i - n \in 1 .. s.size + 1
    BY <1>1, <1>3, <1>5
  <2> QED
    BY <1>3, <1>6, <2>1
<1> QED
  BY <1>3, <1>4, <1>5, <1>7, <1>8, <1>9 DEF HasRoom

\* w is s with new before what follows index.
HasText(w, s, index, new) ==
  /\ StrOK(w) /\ w.size = s.size + Len(new)
  /\ \A j \in 1 .. s.size + Len(new) :
       w.mem[j] = IF j <= index THEN s.mem[j]
                  ELSE IF j <= index + Len(new) THEN new[j - index] ELSE s.mem[j - Len(new)]

\* The gap filled, and nothing else touched.
FilledWith(m, c, index, new) ==
  [i \in 1 .. c |-> IF i \in index + 1 .. index + Len(new) THEN new[i - index] ELSE m[i]]

FillsGap(mem, u, index, new) == mem = FilledWith(u.mem, u.cap + 1, index, new)

LEMMA MemChanged ==
  ASSUME NEW u, NEW a, NEW c, NEW m, u = [size |-> a, cap |-> c, mem |-> m], NEW mem
  PROVE  [u EXCEPT !.mem = mem] = [size |-> a, cap |-> c, mem |-> mem]
OBVIOUS

LEMMA FilledGap ==
  ASSUME NEW s, StrOK(s), NEW index \in Nat, index <= s.size, NEW new \in Seq(Chars),
         NEW u, HasRoom(u, s, index, Len(new)), NEW mem, FillsGap(mem, u, index, new)
  PROVE  HasText([u EXCEPT !.mem = mem], s, index, new)
<1> DEFINE n == Len(new)
           w == [size |-> s.size + n, cap |-> u.cap, mem |-> mem]
<1>1. /\ s.size \in Nat /\ s.mem[s.size + 1] = Nul /\ \A i \in 1 .. s.size : s.mem[i] \in Chars
  BY StrTypes
<1>2. n \in Nat /\ \A i \in 1 .. n : new[i] \in Chars
  BY LenProperties, ElementOfSeq
<1>3. /\ u = [size |-> s.size + n, cap |-> u.cap, mem |-> u.mem]
      /\ u.cap \in Nat /\ s.size + n <= u.cap /\ u.mem \in [1 .. u.cap + 1 -> StrCell]
      /\ \A i \in 1 .. index : u.mem[i] = s.mem[i]
      /\ \A i \in index + n + 1 .. s.size + n + 1 : u.mem[i] = s.mem[i - n]
  BY DEF HasRoom
<1>4. [u EXCEPT !.mem = mem] = w
  <2> DEFINE a == s.size + n
             c == u.cap
             m == u.mem
  <2>1. u = [size |-> a, cap |-> c, mem |-> m]
    BY <1>3
  <2> HIDE DEF a, c, m
  <2>2. [u EXCEPT !.mem = mem] = [size |-> a, cap |-> c, mem |-> mem]
    BY <2>1, MemChanged
  <2> QED
    BY <2>2 DEF a, c
<1> HIDE DEF n
<1>5. /\ DOMAIN mem = 1 .. u.cap + 1 /\ mem = [i \in 1 .. u.cap + 1 |-> mem[i]]
      /\ \A i \in 1 .. u.cap + 1 :
           mem[i] = IF i \in index + 1 .. index + n THEN new[i - index] ELSE u.mem[i]
  BY DEF n, FillsGap, FilledWith
<1>6. mem \in [1 .. u.cap + 1 -> StrCell]
  <2>1. \A i \in 1 .. u.cap + 1 : mem[i] \in StrCell
    <3> TAKE i \in 1 .. u.cap + 1
    <3>1. i \in index + 1 .. index + n => i - index \in 1 .. n
      BY <1>2, <1>3
    <3> QED
      BY <1>2, <1>3, <1>5, <3>1 DEF StrCell
  <2> QED
    BY <1>5, <2>1
<1>7. ASSUME NEW j \in 1 .. s.size + n
      PROVE  mem[j] = IF j <= index THEN s.mem[j]
                      ELSE IF j <= index + n THEN new[j - index] ELSE s.mem[j - n]
  <2>1. /\ j \in 1 .. u.cap + 1 /\ (j <= index => j \in 1 .. index)
        /\ j \in index + 1 .. index + n <=> (~ (j <= index) /\ j <= index + n)
        /\ ~ (j <= index + n) => j \in index + n + 1 .. s.size + n + 1
    BY <1>1, <1>2, <1>3
  <2> QED
    BY <1>2, <1>3, <1>5, <2>1
<1>8. mem[s.size + n + 1] = Nul
  <2> DEFINE j == s.size + n + 1
  <2>1. j \in 1 .. u.cap + 1 /\ j \notin index + 1 .. index + n
        /\ j \in index + n + 1 .. s.size + n + 1 /\ j - n = s.size + 1
    BY <1>1, <1>2, <1>3
  <2> HIDE DEF j
  <2>2. mem[j] = s.mem[s.size + 1]
    BY <1>3, <1>5, <2>1
  <2> QED
    BY <1>1, <2>2 DEF j
<1>9. \A j \in 1 .. s.size + n : mem[j] \in Chars
  <2> TAKE j \in 1 .. s.size + n
  <2>1. /\ j <= index => j \in 1 .. s.size
        /\ (~ (j <= index) /\ j <= index + n) => j - index \in 1 .. n
        /\ ~ (j <= index + n) => j - n \in 1 .. s.size
    BY <1>1, <1>2
  <2> QED
    BY <1>1, <1>2, <1>7, <2>1
<1>10. StrOK(w)
  <2> DEFINE k == s.size + n
             c == u.cap
  <2>1. /\ k \in Nat /\ c \in Nat /\ k <= c /\ mem \in [1 .. c + 1 -> StrCell]
        /\ mem[k + 1] = Nul /\ \A j \in 1 .. k : mem[j] \in Chars
    BY <1>1, <1>2, <1>3, <1>6, <1>8, <1>9
  <2> HIDE DEF k, c
  <2>2. StrOK([size |-> k, cap |-> c, mem |-> mem])
    BY <2>1, NewStr
  <2> QED
    BY <2>2 DEF k, c
<1> QED
  BY <1>4, <1>7, <1>10 DEF HasText, n

LEMMA StrInsertedIs ==
  ASSUME NEW s, StrOK(s), NEW index \in Nat, index <= s.size, NEW new \in Seq(Chars),
         NEW w \in StrInserted(s, index, new)
  PROVE  HasText(w, s, index, new)
<1> DEFINE n == Len(new)
<1>1. n \in Nat
  BY LenProperties
<1>2. PICK u \in WithRoom(s, index, n) : w = [u EXCEPT !.mem = Written(u.mem, index, new)]
  BY DEF StrInserted
<1> HIDE DEF n
<1>3. HasRoom(u, s, index, n)
  BY <1>1, RoomIs
<1>4. FillsGap(Written(u.mem, index, new), u, index, new)
  <2>1. DOMAIN u.mem = 1 .. u.cap + 1
    BY <1>3 DEF HasRoom
  <2> QED
    BY <2>1 DEF Written, FillsGap, FilledWith
<1> DEFINE mem == Written(u.mem, index, new)
<1> HIDE DEF mem
<1>5. FillsGap(mem, u, index, new) /\ HasRoom(u, s, index, Len(new))
  BY <1>3, <1>4 DEF mem, n
<1>6. HasText([u EXCEPT !.mem = mem], s, index, new)
  BY <1>5, FilledGap
<1> QED
  BY <1>2, <1>6 DEF mem

\* As sequences: what stood before index, new, what followed.
InsertedAt(x, t, i, new) == x = (SubSeq(t, 1, i - 1) \o new) \o SubSeq(t, i, Len(t))

LEMMA TextInserted ==
  ASSUME NEW s, StrOK(s), NEW index \in Nat, index <= s.size, NEW new \in Seq(Chars),
         NEW w, HasText(w, s, index, new)
  PROVE  InsertedAt(CString(w), CString(s), index + 1, new)
<1> DEFINE t == CString(s)
           i == index + 1
           n == Len(new)
           o == 0
           x == (SubSeq(t, 1, i - 1) \o new) \o SubSeq(t, i, Len(t))
<1>1. n \in Nat /\ s.size \in Nat
  BY StrTypes, LenProperties
<1>2. t \in Seq(Chars) /\ Len(t) = s.size /\ \A j \in 1 .. s.size : t[j] = s.mem[j]
  BY CStringIs
<1>3. i \in Nat /\ i >= 1 /\ o \in Nat /\ i + o <= Len(t) + 1 /\ i + o = i /\ i - 1 = index
  BY <1>1, <1>2
<1> HIDE DEF t, i
<1>4. x = Spliced(t, i, o, new)
  BY <1>3 DEF Spliced
<1>5. /\ Len(t) - o + n = s.size + n
      /\ \A j \in 1 .. s.size + n : j - n + o = j - n
  BY <1>1, <1>2
<1>6. /\ StrOK(w) /\ w.size = s.size + n
      /\ \A j \in 1 .. s.size + n :
           w.mem[j] = IF j <= index THEN s.mem[j]
                      ELSE IF j <= index + n THEN new[j - index] ELSE s.mem[j - n]
  BY DEF HasText
<1> HIDE DEF x, o, n
<1>7. IsSpliced(Chars, x, t, i, o, new)
  BY <1>2, <1>3, <1>4, PiecesAre
<1>8. /\ x \in Seq(Chars) /\ Len(x) = Len(t) - o + Len(new)
      /\ \A j \in 1 .. Len(t) - o + Len(new) :
           x[j] = IF j <= i - 1 THEN t[j]
                  ELSE IF j <= i - 1 + Len(new) THEN new[j - (i - 1)]
                  ELSE t[j - Len(new) + o]
  BY <1>7, Zenon DEF IsSpliced
<1>9. Len(t) - o + Len(new) = s.size + n
  BY <1>5 DEF n
<1>10. ASSUME NEW j \in 1 .. s.size + n
       PROVE  x[j] = w.mem[j]
  <2>1. x[j] = IF j <= i - 1 THEN t[j]
               ELSE IF j <= i - 1 + Len(new) THEN new[j - (i - 1)]
               ELSE t[j - Len(new) + o]
    BY <1>8, <1>9
  <2>2. j - Len(new) + o = j - n
    BY <1>5 DEF n
  <2>3. x[j] = IF j <= index THEN t[j]
               ELSE IF j <= index + n THEN new[j - index] ELSE t[j - n]
    BY <1>3, <2>1, <2>2 DEF n
  <2>4. /\ j <= index => j \in 1 .. s.size
        /\ ~ (j <= index + n) => j - n \in 1 .. s.size
    BY <1>1
  <2> QED
    BY <1>2, <1>6, <2>3, <2>4
<1>11. CString(w) = x
  BY <1>6, <1>8, <1>9, <1>10, SameString
<1>12. InsertedAt(CString(w), t, i, new)
  BY <1>11 DEF x, InsertedAt
<1> QED
  BY <1>12 DEF t, i

\* Erasing moves the terminator too.
LEMMA StrErasedIs ==
  ASSUME NEW s, StrOK(s), NEW index \in Nat, NEW n \in Nat, index + n <= s.size
  PROVE  /\ StrOK(StrErased(s, index, n)) /\ StrErased(s, index, n).size = s.size - n
         /\ \A i \in 1 .. s.size - n :
              StrErased(s, index, n).mem[i] = IF i <= index THEN s.mem[i] ELSE s.mem[i + n]
<1> DEFINE k == s.size - n - index + 1
           m == Moved(s.mem, index + 1, index + n + 1, k)
           e == s.size - n
<1>1. /\ s.size \in Nat /\ s.cap \in Nat /\ s.size <= s.cap /\ DOMAIN s.mem = 1 .. s.cap + 1
      /\ s.mem[s.size + 1] = Nul /\ \A i \in 1 .. s.size : s.mem[i] \in Chars
      /\ \A i \in 1 .. s.cap + 1 : s.mem[i] \in StrCell
  BY StrTypes
<1>2. StrErased(s, index, n) = [size |-> e, cap |-> s.cap, mem |-> m]
  BY StrTwoChanged DEF StrErased
<1>3. m = [i \in 1 .. s.cap + 1 |-> IF i \in index + 1 .. index + 1 + k - 1
                                    THEN s.mem[i - (index + 1) + (index + n + 1)] ELSE s.mem[i]]
  BY <1>1 DEF Moved
<1>4. ASSUME NEW i \in 1 .. s.cap + 1
      PROVE  /\ m[i] = IF i \in index + 1 .. e + 1 THEN s.mem[i + n] ELSE s.mem[i]
             /\ m[i] \in StrCell
  <2>1. i \in Nat /\ s.size \in Nat
    BY <1>1
  <2>2. index + 1 + k - 1 = e + 1 /\ i - (index + 1) + (index + n + 1) = i + n
    BY <2>1
  <2>3. m[i] = IF i \in index + 1 .. e + 1 THEN s.mem[i + n] ELSE s.mem[i]
    BY <1>3, <2>2
  <2>4. i \in index + 1 .. e + 1 => i + n \in 1 .. s.cap + 1
    BY <1>1
  <2> QED
    BY <1>1, <2>3, <2>4
<1>5. m \in [1 .. s.cap + 1 -> StrCell]
  BY <1>3, <1>4
<1>6. e \in Nat /\ e <= s.cap /\ index <= e /\ e + n = s.size
  BY <1>1
<1> HIDE DEF m, k, e
<1>7. \A i \in 1 .. e : m[i] = IF i <= index THEN s.mem[i] ELSE s.mem[i + n]
  <2> TAKE i \in 1 .. e
  <2>1. i \in 1 .. s.cap + 1 /\ (i \in index + 1 .. e + 1 <=> ~ (i <= index))
    BY <1>1, <1>6
  <2> QED
    BY <1>4, <2>1
<1>8. m[e + 1] = Nul
  <2> DEFINE j == e + 1
  <2>1. j \in 1 .. s.cap + 1 /\ j \in index + 1 .. e + 1 /\ j + n = s.size + 1
    BY <1>1, <1>6
  <2> HIDE DEF j
  <2> QED
    BY <1>1, <1>4, <2>1 DEF j
<1>9. \A i \in 1 .. e : m[i] \in Chars
  <2> TAKE i \in 1 .. e
  <2>1. i \in 1 .. s.size /\ i + n \in 1 .. s.size
    BY <1>1, <1>6
  <2> QED
    BY <1>1, <1>7, <2>1
<1>10. StrOK([size |-> e, cap |-> s.cap, mem |-> m])
  BY <1>1, <1>5, <1>6, <1>8, <1>9, NewStr
<1> QED
  BY <1>2, <1>7, <1>10 DEF e

ErasedAt(x, t, i, n) == x = SubSeq(t, 1, i - 1) \o SubSeq(t, i + n, Len(t))

LEMMA TextErased ==
  ASSUME NEW s, StrOK(s), NEW index \in Nat, NEW n \in Nat, index + n <= s.size,
         NEW w, StrOK(w), w.size = s.size - n,
         \A j \in 1 .. s.size - n : w.mem[j] = IF j <= index THEN s.mem[j] ELSE s.mem[j + n]
  PROVE  ErasedAt(CString(w), CString(s), index + 1, n)
<1> DEFINE t == CString(s)
           i == index + 1
           e == <<>>
           x == SubSeq(t, 1, i - 1) \o SubSeq(t, i + n, Len(t))
<1>1. s.size \in Nat
  BY StrTypes
<1>2. t \in Seq(Chars) /\ Len(t) = s.size /\ \A j \in 1 .. s.size : t[j] = s.mem[j]
  BY CStringIs
<1>3. i \in Nat /\ i >= 1 /\ i + n <= Len(t) + 1 /\ i - 1 = index
  BY <1>1, <1>2
<1> HIDE DEF t, i
<1>4. x = Spliced(t, i, n, e)
  <2> DEFINE y == SubSeq(t, 1, i - 1)
  <2>1. 1 <= (i - 1) + 1 /\ i - 1 <= Len(t) /\ i - 1 \in Nat /\ 1 \in Nat /\ 1 >= 1
    BY <1>1, <1>2, <1>3
  <2>2. y \in Seq(Chars)
    BY <1>2, <2>1, PieceIs
  <2> HIDE DEF y
  <2>3. y \o e = y
    BY <2>2, ConcatEmptySeq
  <2> QED
    BY <2>3 DEF y, Spliced
<1>5. e \in Seq(Chars) /\ Len(e) = 0
  OBVIOUS
<1> HIDE DEF x, e
<1>6. IsSpliced(Chars, x, t, i, n, e)
  BY <1>2, <1>3, <1>4, <1>5, PiecesAre
<1>7. /\ x \in Seq(Chars) /\ Len(x) = Len(t) - n + Len(e)
      /\ \A j \in 1 .. Len(t) - n + Len(e) :
           x[j] = IF j <= i - 1 THEN t[j]
                  ELSE IF j <= i - 1 + Len(e) THEN e[j - (i - 1)]
                  ELSE t[j - Len(e) + n]
  BY <1>6, Zenon DEF IsSpliced
<1>8. Len(t) - n + Len(e) = s.size - n
  BY <1>1, <1>2, <1>5
<1>9. ASSUME NEW j \in 1 .. w.size
      PROVE  x[j] = w.mem[j]
  <2>1. x[j] = IF j <= i - 1 THEN t[j]
               ELSE IF j <= i - 1 + Len(e) THEN e[j - (i - 1)]
               ELSE t[j - Len(e) + n]
    BY <1>7, <1>8
  <2>2. j - Len(e) + n = j + n /\ i - 1 + Len(e) = index
    BY <1>1, <1>3, <1>5
  <2>3. x[j] = IF j <= index THEN t[j] ELSE t[j + n]
    BY <1>3, <2>1, <2>2
  <2>4. j \in 1 .. s.size /\ (~ (j <= index) => j + n \in 1 .. s.size)
    BY <1>1
  <2> QED
    BY <1>2, <2>3, <2>4
<1>10. CString(w) = x
  BY <1>7, <1>8, <1>9, SameString
<1>11. ErasedAt(CString(w), t, i, n)
  BY <1>10 DEF x, ErasedAt
<1> QED
  BY <1>11 DEF t, i

LEMMA TextCut ==
  ASSUME NEW s, StrOK(s), NEW n \in Nat, n <= s.size, NEW w, StrOK(w), w.size = n,
         \A j \in 1 .. n : w.mem[j] = s.mem[j]
  PROVE  CString(w) = SubSeq(CString(s), 1, n)
<1> DEFINE t == CString(s)
           x == SubSeq(t, 1, n)
<1>1. t \in Seq(Chars) /\ Len(t) = s.size /\ \A j \in 1 .. s.size : t[j] = s.mem[j]
      /\ s.size \in Nat
  BY CStringIs, StrTypes
<1>2. x \in Seq(Chars) /\ Len(x) = n /\ \A j \in 1 .. n : x[j] = t[j]
  <2>1. /\ 1 \in Nat /\ 1 >= 1 /\ n <= Len(t) /\ 1 <= n + 1 /\ n - 1 + 1 = n
        /\ \A j \in 1 .. n : 1 + j - 1 = j
    BY <1>1
  <2> HIDE DEF t
  <2> QED
    BY <1>1, <2>1, PieceIs
<1> HIDE DEF x, t
<1>3. \A j \in 1 .. w.size : x[j] = w.mem[j]
  <2>1. \A j \in 1 .. n : j \in 1 .. s.size
    BY <1>1
  <2> QED
    BY <1>1, <1>2, <2>1
<1>4. CString(w) = x
  BY <1>2, <1>3, SameString
<1> QED
  BY <1>4 DEF x, t

\* Growing adds characters behind.
LEMMA FilledIs ==
  ASSUME NEW s, StrOK(s), NEW n \in Nat, n > s.size, NEW fill \in Chars,
         NEW u \in StrReserved(s, n), NEW w, w = Filled(u, s, n, fill)
  PROVE  StrOK(w) /\ w.size = n /\ \A j \in 1 .. s.size : w.mem[j] = s.mem[j]
<1>1. s.size \in Nat /\ \A j \in 1 .. s.size : s.mem[j] \in Chars
  BY StrTypes
<1>2. StrOK(u) /\ u.cap >= n /\ \A i \in 1 .. s.size + 1 : u.mem[i] = s.mem[i]
  BY StrReservedIs
<1>3. /\ u.cap \in Nat /\ DOMAIN u.mem = 1 .. u.cap + 1
      /\ \A i \in 1 .. u.cap + 1 : u.mem[i] \in StrCell
  BY <1>2, StrTypes
<1> DEFINE m == [i \in 1 .. u.cap + 1 |-> IF i \in s.size + 1 .. n THEN fill
                                          ELSE IF i = n + 1 THEN Nul ELSE u.mem[i]]
<1>4. w = [size |-> n, cap |-> u.cap, mem |-> m]
  <2>1. w = [u EXCEPT !.size = n, !.mem = m]
    BY <1>3 DEF Filled
  <2> HIDE DEF m
  <2> QED
    BY <1>2, <2>1, StrTwoChanged
<1>5. m \in [1 .. u.cap + 1 -> StrCell]
  BY <1>3 DEF StrCell
<1>6. \A j \in 1 .. s.size : m[j] = s.mem[j]
  <2> TAKE j \in 1 .. s.size
  <2>1. /\ j \in 1 .. u.cap + 1 /\ j \notin s.size + 1 .. n /\ j # n + 1
        /\ j \in 1 .. s.size + 1
    BY <1>1, <1>2, <1>3
  <2> QED
    BY <1>2, <2>1
<1>7. m[n + 1] = Nul
  <2>1. n + 1 \in 1 .. u.cap + 1 /\ n + 1 \notin s.size + 1 .. n
    BY <1>2, <1>3
  <2> QED
    BY <2>1
<1>8. \A j \in 1 .. n : m[j] \in Chars
  <2> TAKE j \in 1 .. n
  <2>1. j \in 1 .. u.cap + 1 /\ (j \in 1 .. s.size \/ j \in s.size + 1 .. n)
    BY <1>1, <1>2, <1>3
  <2> QED
    BY <1>1, <1>6, <2>1
<1> HIDE DEF m
<1>9. n <= u.cap
  BY <1>2, <1>3
<1>10. StrOK([size |-> n, cap |-> u.cap, mem |-> m])
  BY <1>3, <1>5, <1>7, <1>8, <1>9, NewStr
<1> QED
  BY <1>4, <1>6, <1>10

------------------------------------------------------------------------------
(* Formatted arguments *)

\* What holds at 0 and is carried from each number to the next holds up to n.
LEMMA StepByStep ==
  ASSUME NEW n \in Nat, NEW P, 0 \in P, \A i \in 1 .. n : i - 1 \in P => i \in P
  PROVE  \A i \in 0 .. n : i \in P
<1> DEFINE Bad == {i \in 0 .. n : i \notin P}
<1>1. Bad = {}
  <2> SUFFICES ASSUME Bad # {} PROVE FALSE
    OBVIOUS
  <2>1. Bad \in SUBSET Nat
    OBVIOUS
  <2> HIDE DEF Bad
  <2>2. PICK m \in Bad : \A k \in Bad : m <= k
    BY <2>1, LeastOf
  <2>3. m \in 0 .. n /\ m \notin P
    BY DEF Bad
  <2> DEFINE k == m - 1
  <2>4. m \in 1 .. n /\ k \in 0 .. n /\ k < m
    BY <2>3
  <2>5. k \notin Bad
    BY <2>2, <2>4
  <2>6. k \in P
    BY <2>4, <2>5 DEF Bad
  <2> QED
    BY <2>3, <2>4, <2>6
<1> QED
  BY <1>1

\* Recursion from place to place ends.
Steps(step, S, n) == step \in [1 .. n -> [S -> S]]

Recursion(f, S, n, a, step) ==
  f \in [0 .. n -> S] /\ f[0] = a /\ \A i \in 1 .. n : f[i] = step[i][f[i - 1]]

LEMMA RecursionEnds ==
  ASSUME NEW S, NEW n \in Nat, NEW a \in S, NEW step, Steps(step, S, n)
  PROVE  \E f : Recursion(f, S, n, a, step)
<1> DEFINE Upto(m) == \E f \in [0 .. n -> S] :
                        f[0] = a /\ \A i \in 1 .. m : f[i] = step[i][f[i - 1]]
           P == {m \in 0 .. n : Upto(m)}
<1>1. 0 \in P
  <2> DEFINE z == [i \in 0 .. n |-> a]
  <2>1. z \in [0 .. n -> S] /\ z[0] = a /\ 0 \in 0 .. n
    OBVIOUS
  <2> HIDE DEF z
  <2>2. \A i \in 1 .. 0 : z[i] = step[i][z[i - 1]]
    OBVIOUS
  <2> QED
    BY <2>1, <2>2
<1>2. ASSUME NEW m \in 1 .. n, m - 1 \in P
      PROVE  m \in P
  <2>1. PICK f \in [0 .. n -> S] : f[0] = a /\ \A i \in 1 .. m - 1 : f[i] = step[i][f[i - 1]]
    BY <1>2
  <2> DEFINE g == [f EXCEPT ![m] = step[m][f[m - 1]]]
  <2>2. m \in 0 .. n /\ m - 1 \in 0 .. n /\ m # 0 /\ 0 \in 0 .. n
    OBVIOUS
  <2>3. step[m][f[m - 1]] \in S
    BY <2>2 DEF Steps
  <2>4. g \in [0 .. n -> S] /\ g[m] = step[m][f[m - 1]] /\ \A i \in 0 .. n : i # m => g[i] = f[i]
    <3> DEFINE x == step[m][f[m - 1]]
    <3> HIDE DEF x
    <3>1. x \in S
      BY <2>3 DEF x
    <3>2. [f EXCEPT ![m] = x] \in [0 .. n -> S] /\ [f EXCEPT ![m] = x][m] = x
          /\ \A i \in 0 .. n : i # m => [f EXCEPT ![m] = x][i] = f[i]
      BY <2>2, <3>1
    <3> QED
      BY <3>2 DEF x
  <2> HIDE DEF g
  <2>5. \A i \in 1 .. m : g[i] = step[i][g[i - 1]]
    <3> TAKE i \in 1 .. m
    <3>1. i \in 0 .. n /\ i - 1 \in 0 .. n /\ i - 1 # m
      OBVIOUS
    <3>2. CASE i = m
      BY <2>4, <3>1, <3>2
    <3>3. CASE i # m
      <4>1. i \in 1 .. m - 1
        BY <3>3
      <4> QED
        BY <2>1, <2>4, <3>1, <3>3, <4>1
    <3> QED
      BY <3>2, <3>3
  <2>6. g[0] = a
    BY <2>1, <2>2, <2>4
  <2> QED
    BY <2>2, <2>4, <2>5, <2>6
<1> HIDE DEF P
<1>3. n \in P
  <2>1. \A i \in 0 .. n : i \in P
    BY <1>1, <1>2, StepByStep
  <2> QED
    BY <2>1
<1> QED
  BY <1>3 DEF P, Recursion

LEMMA MaxIs ==
  ASSUME NEW n \in Nat, NEW S \in SUBSET (1 .. n), S # {}
  PROVE  Max(S) \in S
<1> DEFINE D == {n - x : x \in S}
<1>1. D \in SUBSET Nat /\ D # {}
  <2>1. \A x \in S : x \in 1 .. n /\ n - x \in Nat
    OBVIOUS
  <2> QED
    BY <2>1
<1>2. PICK d \in D : \A e \in D : d <= e
  <2> HIDE DEF D
  <2> QED
    BY <1>1, LeastOf
<1>3. PICK x \in S : d = n - x
  OBVIOUS
<1>4. \A y \in S : x >= y
  <2> TAKE y \in S
  <2>1. n - y \in D /\ x \in Nat /\ y \in Nat
    OBVIOUS
  <2>2. n - x <= n - y
    BY <1>2, <1>3, <2>1
  <2> QED
    BY <2>1, <2>2
<1> QED
  BY <1>4 DEF Max

Arguments == [kind : {"mode"}, what : Modes] \cup [kind : {"number"}, what : Numbers]
               \cup [kind : {"text"}, what : Texts]

LEMMA ModeIs ==
  ASSUME NEW args \in Seq(Arguments), NEW i \in 1 .. Len(args)
  PROVE  ModeAt(args, i, DefaultMode) \in Modes
<1> DEFINE set == {j \in 1 .. i - 1 : args[j].kind = "mode"}
<1>1. CASE set = {}
  BY <1>1, StrAssumption DEF ModeAt
<1>2. CASE set # {}
  <2>1. i - 1 \in Nat /\ set \in SUBSET (1 .. i - 1)
    BY LenProperties
  <2> DEFINE j == Max(set)
  <2> HIDE DEF set
  <2>2. j \in set
    BY <1>2, <2>1, MaxIs
  <2> HIDE DEF j
  <2>3. j \in 1 .. Len(args) /\ args[j].kind = "mode"
    BY <2>2, LenProperties DEF set
  <2>4. args[j] \in Arguments
    BY <2>3, ElementOfSeq
  <2>5. args[j].what \in Modes
    BY <2>3, <2>4 DEF Arguments
  <2> QED
    BY <1>2, <2>5 DEF ModeAt, set, j
<1> QED
  BY <1>1, <1>2

\* The text of the i-th argument.
TextOf(args, i) == Printed(args[i], ModeAt(args, i, DefaultMode))

LEMMA TextIs ==
  ASSUME NEW args \in Seq(Arguments), NEW i \in 1 .. Len(args)
  PROVE  /\ TextOf(args, i) \in Seq(Chars)
         /\ FormattedLength(args, i) = Len(TextOf(args, i)) /\ FormattedLength(args, i) \in Nat
<1> DEFINE mode == ModeAt(args, i, DefaultMode)
           arg == args[i]
<1>1. mode \in Modes /\ arg \in Arguments
  BY ModeIs, ElementOfSeq
<1> HIDE DEF mode, arg
<1>2. Printed(arg, mode) \in Seq(Chars)
  <2>1. CASE arg \in [kind : {"mode"}, what : Modes]
    <3>1. arg.kind = "mode"
      BY <2>1
    <3>2. Printed(arg, mode) = <<>>
      BY <3>1 DEF Printed
    <3> QED
      BY <3>2
  <2>2. CASE arg \in [kind : {"number"}, what : Numbers]
    <3>1. arg.kind = "number" /\ arg.what \in Numbers
      BY <2>2
    <3>2. Printed(arg, mode) = Shown(arg.what, mode)
      BY <3>1 DEF Printed
    <3>3. Shown(arg.what, mode) \in Seq(Chars)
      BY <1>1, <3>1, StrAssumption
    <3> QED
      BY <3>2, <3>3
  <2>3. CASE arg \in [kind : {"text"}, what : Texts]
    <3>1. arg.kind = "text" /\ arg.what \in Texts
      BY <2>3
    <3>2. Printed(arg, mode) = arg.what
      BY <3>1 DEF Printed
    <3>3. arg.what \in Seq(Chars)
      BY <3>1, StrAssumption
    <3> QED
      BY <3>2, <3>3
  <2> QED
    BY <1>1, <2>1, <2>2, <2>3 DEF Arguments
<1>3. TextOf(args, i) = Printed(arg, mode)
  BY DEF TextOf, arg, mode
<1>4. FormattedLength(args, i) = Len(TextOf(args, i))
  BY DEF TextOf, FormattedLength
<1> QED
  BY <1>2, <1>3, <1>4, LenProperties

\* The sum and the text of the arguments so far, and the memory after each.
IsSum(sum, args) ==
  sum = [i \in 0 .. Len(args) |-> IF i = 0 THEN 0 ELSE sum[i - 1] + FormattedLength(args, i)]

IsText(text, args) ==
  text = [i \in 0 .. Len(args) |-> IF i = 0 THEN <<>> ELSE text[i - 1] \o TextOf(args, i)]

IsMemory(after, m, index, args) ==
  after = [i \in 0 .. Len(args) |->
             IF i = 0 THEN m
             ELSE Cells(after[i - 1], index + Total(args)[i - 1], TextOf(args, i),
                        FormattedLength(args, i))]

LEMMA TotalIs ==
  ASSUME NEW args \in Seq(Arguments)
  PROVE  /\ Total(args)[0] = 0
         /\ \A i \in 0 .. Len(args) : Total(args)[i] \in Nat
         /\ \A i \in 1 .. Len(args) : Total(args)[i] = Total(args)[i - 1] + FormattedLength(args, i)
<1> DEFINE n == Len(args)
           len(i) == FormattedLength(args, i)
           sum == CHOOSE f : IsSum(f, args)
<1>1. n \in Nat /\ \A i \in 1 .. n : len(i) \in Nat
  BY LenProperties, TextIs
<1> HIDE DEF n, len
<1>2. \E f : IsSum(f, args)
  <2> DEFINE step == [i \in 1 .. n |-> [x \in Nat |-> x + len(i)]]
  <2>1. step \in [1 .. n -> [Nat -> Nat]]
    BY <1>1
  <2>2. \A i \in 1 .. n : \A x \in Nat : step[i][x] = x + len(i)
    OBVIOUS
  <2> HIDE DEF step
  <2>3. PICK f \in [0 .. n -> Nat] : f[0] = 0 /\ \A i \in 1 .. n : f[i] = step[i][f[i - 1]]
    <3> DEFINE a == 0
    <3>1. a \in Nat
      OBVIOUS
    <3> HIDE DEF a
    <3>2. Steps(step, Nat, n)
      BY <2>1 DEF Steps
    <3>3. \E f : Recursion(f, Nat, n, a, step)
      BY <1>1, <3>1, <3>2, RecursionEnds
    <3> QED
      BY <3>3 DEF a, Recursion
  <2>4. \A i \in 0 .. n : f[i] = IF i = 0 THEN 0 ELSE f[i - 1] + len(i)
    <3> TAKE i \in 0 .. n
    <3>1. i = 0 \/ (i \in 1 .. n /\ i - 1 \in 0 .. n)
      BY <1>1
    <3> QED
      BY <2>2, <2>3, <3>1
  <2>5. f = [i \in 0 .. n |-> IF i = 0 THEN 0 ELSE f[i - 1] + len(i)]
    BY <2>3, <2>4
  <2> QED
    BY <2>5 DEF IsSum, n, len
<1>3. IsSum(sum, args)
  BY <1>2
<1>4. Total(args) = sum
  BY DEF Total, IsSum
<1> HIDE DEF sum
<1>5. sum = [i \in 0 .. n |-> IF i = 0 THEN 0 ELSE sum[i - 1] + len(i)]
  BY <1>3 DEF IsSum, n, len
<1>6. sum[0] = 0 /\ \A i \in 1 .. n : sum[i] = sum[i - 1] + len(i)
  <2>1. 0 \in 0 .. n /\ \A i \in 1 .. n : i \in 0 .. n /\ i # 0
    BY <1>1
  <2> QED
    BY <1>5, <2>1
<1>7. \A i \in 0 .. n : sum[i] \in Nat
  <2> DEFINE P == {i \in 0 .. n : sum[i] \in Nat}
  <2>1. 0 \in P
    BY <1>1, <1>6
  <2>2. \A i \in 1 .. n : i - 1 \in P => i \in P
    BY <1>1, <1>6
  <2> HIDE DEF P
  <2>3. \A i \in 0 .. n : i \in P
    BY <1>1, <2>1, <2>2, StepByStep
  <2> QED
    BY <2>3 DEF P
<1> QED
  BY <1>4, <1>6, <1>7 DEF n, len

\* The texts are of the measured lengths, and stand one behind the other.
LEMMA ExpectedIs ==
  ASSUME NEW args \in Seq(Arguments)
  PROVE  \E text :
           /\ Expected(args) = text[Len(args)] /\ text[0] = <<>>
           /\ \A i \in 0 .. Len(args) : text[i] \in Seq(Chars) /\ Len(text[i]) = Total(args)[i]
           /\ \A i \in 1 .. Len(args) : text[i] = text[i - 1] \o TextOf(args, i)
<1> DEFINE n == Len(args)
           of(i) == TextOf(args, i)
           text == CHOOSE f : IsText(f, args)
<1>1. n \in Nat /\ \A i \in 1 .. n : of(i) \in Seq(Chars)
  BY LenProperties, TextIs
<1> HIDE DEF n, of
<1>2. \E f : IsText(f, args)
  <2> DEFINE step == [i \in 1 .. n |-> [x \in Seq(Chars) |-> x \o of(i)]]
  <2>1. step \in [1 .. n -> [Seq(Chars) -> Seq(Chars)]]
    <3>1. \A i \in 1 .. n : \A x \in Seq(Chars) : x \o of(i) \in Seq(Chars)
      BY <1>1, ConcatProperties
    <3> QED
      BY <3>1
  <2>2. \A i \in 1 .. n : \A x \in Seq(Chars) : step[i][x] = x \o of(i)
    OBVIOUS
  <2> HIDE DEF step
  <2>3. PICK f \in [0 .. n -> Seq(Chars)] :
          f[0] = <<>> /\ \A i \in 1 .. n : f[i] = step[i][f[i - 1]]
    <3> DEFINE a == <<>>
    <3>1. a \in Seq(Chars)
      OBVIOUS
    <3> HIDE DEF a
    <3>2. Steps(step, Seq(Chars), n)
      BY <2>1 DEF Steps
    <3>3. \E f : Recursion(f, Seq(Chars), n, a, step)
      BY <1>1, <3>1, <3>2, RecursionEnds
    <3> QED
      BY <3>3 DEF a, Recursion
  <2>4. \A i \in 0 .. n : f[i] = IF i = 0 THEN <<>> ELSE f[i - 1] \o of(i)
    <3> TAKE i \in 0 .. n
    <3>1. i = 0 \/ (i \in 1 .. n /\ i - 1 \in 0 .. n)
      BY <1>1
    <3> QED
      BY <2>2, <2>3, <3>1
  <2>5. f = [i \in 0 .. n |-> IF i = 0 THEN <<>> ELSE f[i - 1] \o of(i)]
    BY <2>3, <2>4
  <2> QED
    BY <2>5 DEF IsText, n, of
<1>3. IsText(text, args)
  BY <1>2
<1>4. Expected(args) = text[n]
  BY DEF Expected, IsText, TextOf, n
<1> HIDE DEF text
<1>5. text = [i \in 0 .. n |-> IF i = 0 THEN <<>> ELSE text[i - 1] \o of(i)]
  BY <1>3 DEF IsText, n, of
<1>6. text[0] = <<>> /\ \A i \in 1 .. n : text[i] = text[i - 1] \o of(i)
  <2>1. 0 \in 0 .. n /\ \A i \in 1 .. n : i \in 0 .. n /\ i # 0
    BY <1>1
  <2> QED
    BY <1>5, <2>1
<1>7. \A i \in 0 .. n : text[i] \in Seq(Chars) /\ Len(text[i]) = Total(args)[i]
  <2> DEFINE P == {i \in 0 .. n : text[i] \in Seq(Chars) /\ Len(text[i]) = Total(args)[i]}
  <2>1. 0 \in P
    <3> DEFINE e == <<>>
    <3>1. Total(args)[0] = 0 /\ Len(e) = 0 /\ e \in Seq(Chars)
      BY TotalIs
    <3>2. text[0] = e /\ 0 \in 0 .. n
      BY <1>1, <1>6
    <3> HIDE DEF e
    <3> QED
      BY <3>1, <3>2
  <2>2. ASSUME NEW i \in 1 .. n, i - 1 \in P
        PROVE  i \in P
    <3> DEFINE x == text[i - 1]
    <3>1. x \in Seq(Chars) /\ Len(x) = Total(args)[i - 1]
      BY <2>2
    <3>2. of(i) \in Seq(Chars) /\ Len(of(i)) = FormattedLength(args, i)
      BY TextIs DEF of, n
    <3>3. Total(args)[i] = Total(args)[i - 1] + FormattedLength(args, i)
      BY TotalIs DEF n
    <3> DEFINE y == of(i)
    <3>4. text[i] = x \o y
      BY <1>6
    <3> HIDE DEF x, y
    <3>5. x \o y \in Seq(Chars) /\ Len(x \o y) = Len(x) + Len(y)
      BY <3>1, <3>2, ConcatProperties DEF y
    <3>6. Len(x \o y) = Total(args)[i]
      BY <3>1, <3>2, <3>3, <3>5 DEF y
    <3>7. i \in 0 .. n
      BY <1>1
    <3> QED
      BY <3>4, <3>5, <3>6, <3>7
  <2> HIDE DEF P
  <2>3. \A i \in 0 .. n : i \in P
    BY <1>1, <2>1, <2>2, StepByStep
  <2> QED
    BY <2>3 DEF P
<1> QED
  BY <1>4, <1>6, <1>7 DEF n, of

Joined(z, x, y, from, index) ==
  x \in Seq(Chars) /\ y \in Seq(Chars) /\ z = x \o y /\ from = index + Len(x)

\* One argument more.
LEMMA OneMore ==
  ASSUME NEW c \in Nat, NEW m, NEW index \in Nat,
         NEW x, NEW y, NEW z, NEW from, Joined(z, x, y, from, index)
  PROVE  Cells(FilledWith(m, c, index, x), from, y, Len(y)) = FilledWith(m, c, index, z)
<1> DEFINE a == FilledWith(m, c, index, x)
           b == FilledWith(m, c, index, z)
           k == Len(x)
           l == Len(y)
           r == Cells(a, from, y, Len(y))
<1>1. /\ k \in Nat /\ l \in Nat /\ z = x \o y /\ from = index + k
      /\ x \in Seq(Chars) /\ y \in Seq(Chars)
  BY LenProperties DEF Joined
<1>2. /\ Len(z) = k + l
      /\ \A j \in 1 .. k + l : z[j] = IF j <= k THEN x[j] ELSE y[j - k]
  BY <1>1, ConcatProperties
<1> HIDE DEF k, l
<1>3. /\ DOMAIN a = 1 .. c
      /\ \A j \in 1 .. c : a[j] = IF j \in index + 1 .. index + k THEN x[j - index] ELSE m[j]
  BY DEF FilledWith, k
<1>4. /\ b = [j \in 1 .. c |-> b[j]]
      /\ \A j \in 1 .. c : b[j] = IF j \in index + 1 .. index + (k + l)
                                  THEN z[j - index] ELSE m[j]
  BY <1>2 DEF FilledWith
<1> HIDE DEF a, b
<1>5. r = [j \in 1 .. c |-> IF j - (index + k) \notin 1 .. l THEN a[j]
                            ELSE IF j - (index + k) <= l THEN y[j - (index + k)]
                            ELSE IF j - (index + k) = l + 1 THEN Nul ELSE a[j]]
  BY <1>1, <1>3 DEF Cells, l
<1>6. \A j \in 1 .. c : r[j] = b[j]
  <2> TAKE j \in 1 .. c
  <2> DEFINE p == j - (index + k)
  <2>1. r[j] = IF p \notin 1 .. l THEN a[j]
               ELSE IF p <= l THEN y[p] ELSE IF p = l + 1 THEN Nul ELSE a[j]
    BY <1>5
  <2> HIDE DEF r
  <2>2. CASE p \in 1 .. l
    <3> DEFINE q == j - index
    <3>1. /\ j \in index + 1 .. index + (k + l) /\ q \in 1 .. k + l /\ ~ (q <= k)
          /\ q - k = p /\ p <= l
      BY <1>1, <2>2
    <3>2. b[j] = z[q]
      BY <1>4, <3>1
    <3> HIDE DEF p, q
    <3>3. z[q] = y[p]
      BY <1>2, <3>1
    <3> QED
      BY <2>1, <2>2, <3>1, <3>2, <3>3
  <2>3. CASE p \notin 1 .. l
    <3>1. r[j] = a[j]
      BY <2>1, <2>3
    <3>2. CASE j \in index + 1 .. index + k
      <4> DEFINE q == j - index
      <4>1. j \in index + 1 .. index + (k + l) /\ q \in 1 .. k + l /\ q <= k
        BY <1>1, <3>2
      <4>2. b[j] = z[q] /\ a[j] = x[q]
        BY <1>3, <1>4, <3>2, <4>1
      <4> HIDE DEF q
      <4>3. z[q] = x[q]
        BY <1>2, <4>1
      <4> QED
        BY <3>1, <4>2, <4>3
    <3>3. CASE j \notin index + 1 .. index + k
      <4>1. j \notin index + 1 .. index + (k + l)
        BY <1>1, <2>3, <3>3
      <4>2. b[j] = m[j] /\ a[j] = m[j]
        BY <1>3, <1>4, <3>3, <4>1
      <4> QED
        BY <3>1, <4>2
    <3> QED
      BY <3>2, <3>3
  <2> QED
    BY <2>2, <2>3
<1>7. r = [j \in 1 .. c |-> r[j]]
  BY <1>5
<1> HIDE DEF r
<1>8. r = b
  BY <1>4, <1>6, <1>7
<1> QED
  BY <1>8 DEF r, a, b, k, l

Spans(m, c) == m = [j \in 1 .. c |-> m[j]]

\* The second pass writes what the arguments stand for, where the first one
\* measured it, and nothing else.
LEMMA PrintedIs ==
  ASSUME NEW args \in Seq(Arguments), NEW c \in Nat, NEW m, Spans(m, c), NEW index \in Nat
  PROVE  /\ Expected(args) \in Seq(Chars) /\ Len(Expected(args)) = Total(args)[Len(args)]
         /\ PrintedInto(m, index, args) = FilledWith(m, c, index, Expected(args))
<1> DEFINE n == Len(args)
<1>1. PICK text :
        /\ Expected(args) = text[n] /\ text[0] = <<>>
        /\ \A i \in 0 .. n : text[i] \in Seq(Chars) /\ Len(text[i]) = Total(args)[i]
        /\ \A i \in 1 .. n : text[i] = text[i - 1] \o TextOf(args, i)
  BY ExpectedIs
<1>2. n \in Nat
  BY LenProperties
<1> DEFINE printed(i) == FilledWith(m, c, index, text[i])
           cells(f, i) == Cells(f, index + Total(args)[i - 1], TextOf(args, i),
                                FormattedLength(args, i))
           after == CHOOSE f : IsMemory(f, m, index, args)
<1>3. \A i \in 1 .. n : TextOf(args, i) \in Seq(Chars)
                          /\ FormattedLength(args, i) = Len(TextOf(args, i))
  BY TextIs
<1> HIDE DEF n
<1>4. ASSUME NEW i \in 1 .. n
      PROVE  cells(printed(i - 1), i) = printed(i)
  <2> DEFINE x == text[i - 1]
             y == TextOf(args, i)
             z == text[i]
             from == index + Len(x)
  <2>1. i - 1 \in 0 .. n
    BY <1>2
  <2>2. x \in Seq(Chars) /\ Len(x) = Total(args)[i - 1] /\ y \in Seq(Chars) /\ z = x \o y
        /\ FormattedLength(args, i) = Len(y)
    BY <1>1, <1>3, <2>1
  <2>3. /\ printed(i - 1) = FilledWith(m, c, index, x) /\ printed(i) = FilledWith(m, c, index, z)
        /\ cells(printed(i - 1), i) = Cells(printed(i - 1), from, y, Len(y))
    <3> HIDE DEF printed
    <3>1. cells(printed(i - 1), i) = Cells(printed(i - 1), from, y, Len(y))
      BY <2>2
    <3> QED
      BY <3>1 DEF printed
  <2>4. Joined(z, x, y, from, index)
    BY <2>2 DEF Joined
  <2> HIDE DEF x, y, z, from, printed, cells
  <2>5. Cells(FilledWith(m, c, index, x), from, y, Len(y)) = FilledWith(m, c, index, z)
    BY <2>4, OneMore
  <2> QED
    BY <2>3, <2>5
<1>5. printed(0) = m
  <2> DEFINE e == text[0]
  <2>1. Len(e) = 0
    BY <1>1
  <2>2. \A j \in 1 .. c : j \notin index + 1 .. index + Len(e)
    BY <2>1
  <2> QED
    BY <2>2 DEF FilledWith, Spans
<1> HIDE DEF printed, cells
<1>6. \E f : IsMemory(f, m, index, args)
  <2> DEFINE f == [i \in 0 .. n |-> printed(i)]
  <2>1. \A i \in 0 .. n : f[i] = IF i = 0 THEN m ELSE cells(f[i - 1], i)
    <3> TAKE i \in 0 .. n
    <3>1. CASE i = 0
      BY <1>5, <3>1
    <3>2. CASE i # 0
      <4>1. i \in 1 .. n /\ i - 1 \in 0 .. n
        BY <1>2, <3>2
      <4>2. f[i - 1] = printed(i - 1) /\ f[i] = printed(i)
        BY <4>1
      <4> QED
        BY <1>4, <3>2, <4>1, <4>2
    <3> QED
      BY <3>1, <3>2
  <2>2. f = [i \in 0 .. n |-> f[i]]
    OBVIOUS
  <2> HIDE DEF f
  <2>3. f = [i \in 0 .. n |-> IF i = 0 THEN m ELSE cells(f[i - 1], i)]
    BY <2>1, <2>2
  <2> QED
    BY <2>3 DEF IsMemory, n, cells
<1>7. IsMemory(after, m, index, args)
  BY <1>6
<1>8. PrintedInto(m, index, args) = after[n]
  BY DEF PrintedInto, IsMemory, TextOf, ModeReset, n
<1> HIDE DEF after
<1>9. after = [i \in 0 .. n |-> IF i = 0 THEN m ELSE cells(after[i - 1], i)]
  BY <1>7 DEF IsMemory, n, cells
<1>10. \A i \in 0 .. n : after[i] = printed(i)
  <2> DEFINE P == {i \in 0 .. n : after[i] = printed(i)}
  <2>1. 0 \in P
    BY <1>2, <1>5, <1>9
  <2>2. ASSUME NEW i \in 1 .. n, i - 1 \in P
        PROVE  i \in P
    <3>1. i \in 0 .. n /\ i # 0 /\ after[i - 1] = printed(i - 1)
      BY <1>2, <2>2
    <3>2. after[i] = cells(after[i - 1], i)
      BY <1>9, <3>1
    <3> QED
      BY <1>4, <3>1, <3>2
  <2> HIDE DEF P
  <2>3. \A i \in 0 .. n : i \in P
    BY <1>2, <2>1, <2>2, StepByStep
  <2> QED
    BY <2>3 DEF P
<1>11. n \in 0 .. n
  BY <1>2
<1>12. PrintedInto(m, index, args) = printed(n) /\ Expected(args) = text[n]
       /\ text[n] \in Seq(Chars) /\ Len(text[n]) = Total(args)[n]
  BY <1>1, <1>8, <1>10, <1>11
<1> QED
  BY <1>12 DEF printed, n

LEMMA FormatsAre ==
  ASSUME NEW args \in Formats
  PROVE  args \in Seq(Arguments)
BY StrAssumption DEF Arguments

\* Arguments that print something stand for something.
LEMMA SomethingExpected ==
  ASSUME NEW args \in Formats
  PROVE  Expected(args) \in Seq(Chars) /\ Expected(args) # <<>>
<1> DEFINE n == Len(args)
           len(i) == FormattedLength(args, i)
           sum == Total(args)
<1>1. args \in Seq(Arguments)
  BY FormatsAre
<1>2. n \in Nat /\ DOMAIN args = 1 .. n
  BY <1>1, LenProperties
<1>3. /\ sum[0] = 0 /\ \A i \in 0 .. n : sum[i] \in Nat
      /\ \A i \in 1 .. n : sum[i] = sum[i - 1] + len(i)
  BY <1>1, TotalIs
<1>4. PICK k \in 1 .. n : len(k) > 0
  BY <1>2, FormatsPrint
<1>5. \A i \in 1 .. n : len(i) \in Nat
  BY <1>1, TextIs
<1> HIDE DEF sum, len, n
<1> DEFINE P == {i \in 0 .. n : i >= k => sum[i] > 0}
<1>6. 0 \in P
  BY <1>2
<1>7. ASSUME NEW i \in 1 .. n, i - 1 \in P
      PROVE  i \in P
  <2>1. sum[i] = sum[i - 1] + len(i) /\ sum[i - 1] \in Nat /\ len(i) \in Nat /\ i \in 0 .. n
    BY <1>2, <1>3, <1>5
  <2>2. CASE i = k
    BY <1>4, <2>1, <2>2
  <2>3. CASE i # k
    <3>1. i >= k => i - 1 >= k
      BY <2>3
    <3> QED
      BY <1>7, <2>1, <3>1
  <2> QED
    BY <2>2, <2>3
<1> HIDE DEF P
<1>8. \A i \in 0 .. n : i \in P
  BY <1>2, <1>6, <1>7, StepByStep
<1>9. sum[n] > 0
  <2>1. n \in P
    BY <1>2, <1>8
  <2> QED
    BY <1>2, <2>1 DEF P
<1>10. Expected(args) \in Seq(Chars) /\ Len(Expected(args)) = sum[n]
  <2> DEFINE m == [j \in 1 .. 0 |-> Nul]
             c == 0
  <2>1. Spans(m, c) /\ c \in Nat
    BY DEF Spans
  <2> HIDE DEF m, c
  <2> QED
    BY <1>1, <2>1, PrintedIs DEF sum, n
<1> QED
  BY <1>9, <1>10

LEMMA FmtInsertedIs ==
  ASSUME NEW s, StrOK(s), NEW index \in Nat, index <= s.size, NEW args \in Formats,
         NEW w \in FmtInserted(s, index, args)
  PROVE  HasText(w, s, index, Expected(args))
<1> DEFINE new == Expected(args)
           n == Total(args)[Len(args)]
<1>1. args \in Seq(Arguments)
  BY FormatsAre
<1>2. PICK u \in WithRoom(s, index, n) : w = [u EXCEPT !.mem = PrintedInto(u.mem, index, args)]
  BY DEF FmtInserted
<1>3. n \in Nat
  <2>1. Len(args) \in Nat
    BY <1>1, LenProperties
  <2>2. Len(args) \in 0 .. Len(args)
    BY <2>1
  <2> QED
    BY <1>1, <2>2, TotalIs
<1> HIDE DEF n
<1>4. HasRoom(u, s, index, n)
  BY <1>3, RoomIs
<1> DEFINE m == u.mem
           c == u.cap + 1
           mem == PrintedInto(m, index, args)
<1>5. c \in Nat /\ Spans(m, c)
  BY <1>4 DEF HasRoom, Spans
<1> HIDE DEF m, c
<1>6. /\ new \in Seq(Chars) /\ Len(new) = n
      /\ mem = FilledWith(m, c, index, new)
  BY <1>1, <1>5, PrintedIs DEF n
<1> HIDE DEF new, mem
<1>7. FillsGap(mem, u, index, new)
  BY <1>6 DEF FillsGap, m, c
<1>8. HasRoom(u, s, index, Len(new))
  BY <1>4, <1>6
<1>9. HasText([u EXCEPT !.mem = mem], s, index, new)
  BY <1>6, <1>7, <1>8, FilledGap
<1> QED
  BY <1>2, <1>9 DEF mem, m, new

------------------------------------------------------------------------------
(* Strings, call by call *)

LEMMA StrReturnsIs ==
  ASSUME StrInv, NEW strings, NEW answer, StrReturns(strings, answer)
  PROVE  \/ StrAsItems!Fail /\ StrInv'
         \/ /\ StrAsItems!Settled /\ strFailed' \in BOOLEAN
            /\ str' \in strings /\ strAnswer' = answer
<1>1. CASE strings = {}
  <2>1. str' = str /\ strFailed' = TRUE /\ strAnswer' = {} /\ ~ strFailed
    BY <1>1 DEF StrReturns
  <2> QED
    BY <2>1 DEF StrInv, StrAsItems!Fail
<1>2. CASE strings # {}
  BY <1>2 DEF StrReturns, StrInv, StrAsItems!Settled
<1> QED
  BY <1>1, <1>2

\* The same text, whatever the memory.
LEMMA StrRearranges ==
  ASSUME StrInv, NEW strings, StrReturns(strings, {0}),
         \A w \in strings : StrOK(w) /\ CString(w) = CString(str)
  PROVE  StrInv' /\ StrAsItems!ItemsNext
<1>1. CASE StrAsItems!Fail /\ StrInv'
  BY <1>1 DEF StrAsItems!ItemsNext
<1>2. CASE /\ StrAsItems!Settled /\ strFailed' \in BOOLEAN
           /\ str' \in strings /\ strAnswer' = {0}
  <2>1. StrInv' /\ CString(str') = CString(str)
    BY <1>2 DEF StrInv
  <2>2. StrAsItems!Rearrange
    BY <1>2, <2>1 DEF StrAsItems!Rearrange
  <2> QED
    BY <2>1, <2>2 DEF StrAsItems!ItemsNext
<1> QED
  BY <1>1, <1>2, StrReturnsIs

StrRuns == Texts \cup {Expected(f) : f \in Formats} \cup {<<>>}

LEMMA StrInserts ==
  ASSUME StrInv, NEW index \in 0 .. str.size, NEW new \in StrRuns, new \in Seq(Chars), new # <<>>,
         NEW strings, StrReturns(strings, {index + 1}),
         \A w \in strings : HasText(w, str, index, new)
  PROVE  StrInv' /\ StrAsItems!ItemsNext
<1> DEFINE t == CString(str)
           i == index + 1
<1>1. StrOK(str) /\ str.size \in Nat /\ index \in Nat /\ index <= str.size
  BY StrTypes DEF StrInv
<1>2. t \in Seq(Chars) /\ Len(t) = str.size
  BY <1>1, CStringIs
<1>3. CASE StrAsItems!Fail /\ StrInv'
  BY <1>3 DEF StrAsItems!ItemsNext
<1>4. CASE /\ StrAsItems!Settled /\ strFailed' \in BOOLEAN
           /\ str' \in strings /\ strAnswer' = {i}
  <2>1. HasText(str', str, index, new)
    BY <1>4
  <2>2. StrInv'
    BY <1>4, <2>1 DEF HasText, StrInv
  <2>3. CString(str') = (SubSeq(t, 1, i - 1) \o new) \o SubSeq(t, i, Len(t))
    <3>1. InsertedAt(CString(str'), t, i, new)
      BY <1>1, <2>1, TextInserted
    <3> QED
      BY <3>1 DEF InsertedAt
  <2>4. StrAsItems!Insert(i, new)
    BY <1>4, <2>3 DEF StrAsItems!Insert, StrAsItems!Front, StrAsItems!Rest
  <2>5. i \in 1 .. Len(t) + 1
    BY <1>1, <1>2
  <2> HIDE DEF i
  <2> QED
    BY <2>2, <2>4, <2>5 DEF StrAsItems!ItemsNext, StrRuns
<1> QED
  BY <1>3, <1>4, StrReturnsIs

LEMMA StrInsertKeeps ==
  ASSUME StrInv, NEW index \in 0 .. str.size, NEW new \in Texts, StrInsertN(index, new)
  PROVE  StrInv' /\ StrAsItems!ItemsNext
<1>1. new \in Seq(Chars) /\ StrOK(str) /\ str.size \in Nat /\ index \in Nat /\ index <= str.size
  BY StrAssumption, StrTypes DEF StrInv
<1>2. CASE new # <<>>
  <2>1. StrReturns(StrInserted(str, index, new), {index + 1})
    BY <1>2 DEF StrInsertN
  <2>2. \A w \in StrInserted(str, index, new) : HasText(w, str, index, new)
    BY <1>1, StrInsertedIs
  <2>3. new \in StrRuns
    BY DEF StrRuns
  <2> QED
    BY <1>1, <1>2, <2>1, <2>2, <2>3, StrInserts
<1>3. CASE new = <<>>
  <2> DEFINE t == CString(str)
             one == 1
             e == <<>>
  <2>1. StrReturns({str}, {})
    BY <1>3 DEF StrInsertN
  <2>2. CASE StrAsItems!Fail /\ StrInv'
    BY <2>2 DEF StrAsItems!ItemsNext
  <2>3. CASE /\ StrAsItems!Settled /\ strFailed' \in BOOLEAN
             /\ str' \in {str} /\ strAnswer' = {}
    <3>1. StrInv' /\ CString(str') = t
      BY <2>3 DEF StrInv
    <3>2. t \in Seq(Chars)
      BY <1>1, CStringIs
    <3>3. SubSeq(t, 1, one - 1) = <<>> /\ SubSeq(t, one, Len(t)) = t
      BY <3>2, SubSeqEmpty, SubSeqFull
    <3>4. (SubSeq(t, 1, one - 1) \o e) \o SubSeq(t, one, Len(t)) = t
      BY <3>2, <3>3, ConcatEmptySeq
    <3>5. StrAsItems!Insert(one, e)
      BY <2>3, <3>1, <3>4 DEF StrAsItems!Insert, StrAsItems!Front, StrAsItems!Rest
    <3>6. one \in 1 .. Len(t) + 1 /\ e \in StrRuns
      BY <3>2, LenProperties DEF StrRuns
    <3> HIDE DEF one, e
    <3> QED
      BY <3>1, <3>5, <3>6 DEF StrAsItems!ItemsNext, StrRuns
  <2> QED
    BY <2>1, <2>2, <2>3, StrReturnsIs
<1> QED
  BY <1>2, <1>3

LEMMA StrFmtKeeps ==
  ASSUME StrInv, NEW index \in 0 .. str.size, NEW args \in Formats, StrInsertFmt(index, args)
  PROVE  StrInv' /\ StrAsItems!ItemsNext
<1>1. StrOK(str) /\ index \in Nat /\ index <= str.size
  BY StrTypes DEF StrInv
<1>2. StrReturns(FmtInserted(str, index, args), {index + 1})
  BY DEF StrInsertFmt
<1>3. Expected(args) \in Seq(Chars) /\ Expected(args) # <<>> /\ Expected(args) \in StrRuns
  BY SomethingExpected DEF StrRuns
<1>4. \A w \in FmtInserted(str, index, args) : HasText(w, str, index, Expected(args))
  BY <1>1, FmtInsertedIs
<1> QED
  BY <1>2, <1>3, <1>4, StrInserts

LEMMA StrEraseKeeps ==
  ASSUME StrInv, NEW index \in 0 .. str.size, NEW n \in 0 .. str.size - index,
         StrEraseN(index, n)
  PROVE  StrInv' /\ StrAsItems!ItemsNext
<1> DEFINE t == CString(str)
           i == index + 1
           w == IF n = 0 THEN str ELSE StrErased(str, index, n)
<1>1. /\ StrOK(str) /\ str.size \in Nat /\ index \in Nat /\ n \in Nat
      /\ index + n <= str.size
  BY StrTypes DEF StrInv
<1>2. t \in Seq(Chars) /\ Len(t) = str.size
  BY <1>1, CStringIs
<1>3. /\ StrOK(w) /\ w.size = str.size - n
      /\ \A j \in 1 .. str.size - n : w.mem[j] = IF j <= index THEN str.mem[j] ELSE str.mem[j + n]
  <2>1. CASE n = 0
    BY <1>1, <2>1
  <2>2. CASE n # 0
    BY <1>1, <2>2, StrErasedIs
  <2> QED
    BY <2>1, <2>2
<1>4. StrReturns({w}, {i})
  BY DEF StrEraseN
<1> HIDE DEF w
<1>5. ErasedAt(CString(w), t, i, n)
  BY <1>1, <1>3, TextErased
<1>6. CASE StrAsItems!Fail /\ StrInv'
  BY <1>6 DEF StrAsItems!ItemsNext
<1>7. CASE /\ StrAsItems!Settled /\ strFailed' \in BOOLEAN /\ str' \in {w} /\ strAnswer' = {i}
  <2>1. StrInv' /\ ErasedAt(CString(str'), t, i, n)
    BY <1>3, <1>5, <1>7 DEF StrInv
  <2>2. StrAsItems!Remove(i, n)
    BY <1>7, <2>1 DEF StrAsItems!Remove, StrAsItems!Front, StrAsItems!Rest, ErasedAt
  <2>3. i \in 1 .. Len(t) + 1 /\ n \in 0 .. Len(t) + 1 - i
    BY <1>1, <1>2
  <2> HIDE DEF i
  <2> QED
    BY <2>1, <2>2, <2>3 DEF StrAsItems!ItemsNext
<1> QED
  BY <1>4, <1>6, <1>7, StrReturnsIs

LEMMA StrReserveKeeps ==
  ASSUME StrInv, NEW n \in Nat, StrReserve(n)
  PROVE  StrInv' /\ StrAsItems!ItemsNext
<1>1. StrReturns(StrReserved(str, n), {0})
  BY DEF StrReserve
<1>2. \A w \in StrReserved(str, n) : StrOK(w) /\ CString(w) = CString(str)
  BY StrReservedIs DEF StrInv
<1> QED
  BY <1>1, <1>2, StrRearranges

\* The first n characters stay.
LEMMA StrShortens ==
  ASSUME StrInv, NEW n \in Nat, n <= str.size, NEW w, StrOK(w), w.size = n,
         \A j \in 1 .. n : w.mem[j] = str.mem[j], StrReturns({w}, {0})
  PROVE  StrInv' /\ StrAsItems!ItemsNext
<1>1. StrOK(str) /\ str.size \in Nat
  BY StrTypes DEF StrInv
<1>2. CString(w) = SubSeq(CString(str), 1, n) /\ Len(CString(str)) = str.size
  BY <1>1, TextCut, CStringIs
<1>3. CASE StrAsItems!Fail /\ StrInv'
  BY <1>3 DEF StrAsItems!ItemsNext
<1>4. CASE /\ StrAsItems!Settled /\ strFailed' \in BOOLEAN /\ str' \in {w} /\ strAnswer' = {0}
  <2>1. StrInv' /\ CString(str') = SubSeq(CString(str), 1, n)
    BY <1>2, <1>4 DEF StrInv
  <2>2. StrAsItems!Shorten(n)
    BY <1>4, <2>1 DEF StrAsItems!Shorten
  <2>3. n \in 0 .. Len(CString(str))
    BY <1>1, <1>2
  <2> QED
    BY <2>1, <2>2, <2>3 DEF StrAsItems!ItemsNext
<1> QED
  BY <1>3, <1>4, StrReturnsIs

LEMMA StrResizeKeeps ==
  ASSUME StrInv, NEW n \in Nat, NEW fill \in Chars, StrResize(n, fill)
  PROVE  StrInv' /\ StrAsItems!ItemsNext
<1>1. StrReturns(StrResized(str, n, fill), {0})
  BY DEF StrResize
<1>2. StrOK(str) /\ str.size \in Nat
  BY StrTypes DEF StrInv
<1>3. CASE n = str.size
  <2>1. StrReturns({str}, {0})
    BY <1>1, <1>3 DEF StrResized
  <2> QED
    BY <1>2, <2>1, StrRearranges
<1>4. CASE n < str.size
  <2> DEFINE k == str.size - n
             w == StrErased(str, n, k)
  <2>1. k \in Nat /\ n + k <= str.size /\ str.size - k = n /\ n <= str.size
    BY <1>2, <1>4
  <2>2. StrReturns({w}, {0})
    BY <1>1, <1>2, <1>4 DEF StrResized
  <2> HIDE DEF k
  <2>3. /\ StrOK(w) /\ w.size = str.size - k
        /\ \A j \in 1 .. str.size - k : w.mem[j] = IF j <= n THEN str.mem[j] ELSE str.mem[j + k]
    BY <1>2, <2>1, StrErasedIs
  <2> HIDE DEF w
  <2>4. w.size = n /\ \A j \in 1 .. n : w.mem[j] = str.mem[j]
    BY <2>1, <2>3
  <2> QED
    BY <2>1, <2>2, <2>3, <2>4, StrShortens
<1>5. CASE n > str.size
  <2> DEFINE S == StrResized(str, n, fill)
             t == CString(str)
  <2>1. S = {Filled(u, str, n, fill) : u \in StrReserved(str, n)}
    BY <1>2, <1>5 DEF StrResized
  <2>2. t \in Seq(Chars) /\ Len(t) = str.size /\ \A j \in 1 .. str.size : t[j] = str.mem[j]
    BY <1>2, CStringIs
  <2>3. CASE StrAsItems!Fail /\ StrInv'
    BY <2>3 DEF StrAsItems!ItemsNext
  <2>4. CASE StrAsItems!Settled /\ strFailed' \in BOOLEAN /\ str' \in S /\ strAnswer' = {0}
    <3> DEFINE x == CString(str')
    <3>1. PICK u \in StrReserved(str, n) : str' = Filled(u, str, n, fill)
      BY <2>1, <2>4
    <3>2. StrOK(str') /\ str'.size = n /\ \A j \in 1 .. str.size : str'.mem[j] = str.mem[j]
      BY <1>2, <1>5, <3>1, FilledIs
    <3>3. x \in Seq(Chars) /\ Len(x) = n /\ \A j \in 1 .. n : x[j] = str'.mem[j]
      BY <3>2, CStringIs
    <3>4. StrInv'
      BY <2>4, <3>2 DEF StrInv
    <3> HIDE DEF x, t
    <3>5. SubSeq(x, 1, Len(t)) = t
      <4> DEFINE k == Len(t)
                 y == SubSeq(x, 1, k)
      <4>1. /\ k \in Nat /\ k <= Len(x) /\ 1 <= k + 1 /\ k - 1 + 1 = k /\ 1 \in Nat /\ 1 >= 1
            /\ \A j \in 1 .. k : 1 + j - 1 = j
        BY <1>2, <1>5, <2>2, <3>3
      <4> HIDE DEF k
      <4>2. y \in Seq(Chars) /\ Len(y) = k /\ \A j \in 1 .. k : y[j] = x[j]
        BY <3>3, <4>1, PieceIs
      <4>3. \A j \in 1 .. k : j \in 1 .. n /\ j \in 1 .. str.size
        BY <1>2, <1>5, <2>2 DEF k
      <4>4. \A j \in 1 .. k : y[j] = t[j]
        BY <2>2, <3>2, <3>3, <4>2, <4>3
      <4> HIDE DEF y
      <4>5. y = t
        BY <2>2, <4>2, <4>4, SeqEqual DEF k
      <4> QED
        BY <4>5 DEF y, k
    <3>6. Len(x) > Len(t)
      BY <1>2, <1>5, <2>2, <3>3
    <3>7. StrAsItems!Lengthen
      BY <2>4, <3>3, <3>5, <3>6 DEF StrAsItems!Lengthen, x, t
    <3> QED
      BY <3>4, <3>7 DEF StrAsItems!ItemsNext
  <2> QED
    BY <1>1, <2>3, <2>4, StrReturnsIs
<1> QED
  BY <1>2, <1>3, <1>4, <1>5

LEMMA StrEmptyIs ==
  StrOK(StrPlaceholder) /\ CString(StrPlaceholder) = <<>>
<1> DEFINE s == StrPlaceholder
<1>1. s.size = 0 /\ s.cap = 0 /\ s.mem = <<Nul>>
  BY DEF StrPlaceholder
<1>2. s.mem \in Seq(StrCell) /\ Len(s.mem) = s.cap + 1 /\ s.mem[1] = Nul
  BY <1>1 DEF StrCell
<1>3. s \in [size : Nat, cap : Nat, mem : Seq(StrCell)]
  BY <1>1, <1>2 DEF StrPlaceholder
<1>4. StrOK(s)
  BY <1>1, <1>2, <1>3 DEF StrOK
<1> HIDE DEF s
<1>5. CString(s) \in Seq(Chars) /\ Len(CString(s)) = 0
  BY <1>1, <1>4, CStringIs
<1>6. CString(s) = <<>>
  BY <1>5, EmptySeq
<1> QED
  BY <1>4, <1>6 DEF s

\* A string of size 0 reads as nothing.
LEMMA NothingRead ==
  ASSUME NEW s, StrOK(s), s.size = 0
  PROVE  CString(s) = <<>>
<1>1. CString(s) \in Seq(Chars) /\ Len(CString(s)) = 0
  BY CStringIs
<1> QED
  BY <1>1, EmptySeq

\* A copy of the characters and the terminator without spare capacity.
LEMMA StrTrimmedIs ==
  ASSUME NEW s, StrOK(s), NEW m \in [1 .. s.size + 1 -> StrCell],
         \A i \in 1 .. s.size + 1 : m[i] = s.mem[i]
  PROVE  /\ StrOK([size |-> s.size, cap |-> s.size, mem |-> m])
         /\ CString([size |-> s.size, cap |-> s.size, mem |-> m]) = CString(s)
<1> DEFINE n == s.size
           w == [size |-> s.size, cap |-> s.size, mem |-> m]
<1>1. n \in Nat /\ s.mem[n + 1] = Nul /\ \A i \in 1 .. n : s.mem[i] \in Chars
  BY StrTypes
<1>2. n + 1 \in 1 .. n + 1 /\ \A i \in 1 .. n : i \in 1 .. n + 1
  BY <1>1
<1>3. m[n + 1] = Nul /\ \A i \in 1 .. n : m[i] \in Chars
  BY <1>1, <1>2
<1>4. StrOK(w)
  <2>1. n <= n
    BY <1>1
  <2> QED
    BY <1>1, <1>3, <2>1, NewStr
<1>5. /\ CString(s) \in Seq(Chars) /\ Len(CString(s)) = n
      /\ \A i \in 1 .. n : CString(s)[i] = m[i]
  BY <1>2, CStringIs
<1>6. w.size = n /\ w.mem = m
  OBVIOUS
<1> HIDE DEF w
<1>7. CString(w) = CString(s)
  BY <1>4, <1>5, <1>6, SameString
<1> QED
  BY <1>4, <1>7 DEF w

LEMMA StrTrimsKeep ==
  ASSUME StrInv, StrShrink \/ StrClone
  PROVE  StrInv' /\ StrAsItems!ItemsNext
<1> DEFINE n == str.size
<1>1. StrOK(str) /\ n \in Nat /\ str.mem \in Seq(StrCell) /\ n + 1 <= Len(str.mem)
  BY StrTypes DEF StrInv
<1>2. ASSUME NEW m \in [1 .. n + 1 -> StrCell], \A i \in 1 .. n + 1 : m[i] = str.mem[i],
             StrReturns({[size |-> n, cap |-> n, mem |-> m]}, {0})
      PROVE  StrInv' /\ StrAsItems!ItemsNext
  <2> DEFINE w == [size |-> n, cap |-> n, mem |-> m]
  <2>1. StrOK(w) /\ CString(w) = CString(str)
    BY <1>1, <1>2, StrTrimmedIs
  <2>2. StrReturns({w}, {0})
    BY <1>2
  <2> HIDE DEF w
  <2> QED
    BY <2>1, <2>2, StrRearranges
<1>3. ASSUME StrReturns({str}, {0}) \/ (StrReturns({StrPlaceholder}, {0}) /\ n = 0)
      PROVE  StrInv' /\ StrAsItems!ItemsNext
  <2>1. CASE StrReturns({str}, {0})
    BY <1>1, <2>1, StrRearranges
  <2>2. CASE StrReturns({StrPlaceholder}, {0}) /\ n = 0
    <3>1. StrOK(StrPlaceholder) /\ CString(StrPlaceholder) = CString(str)
      BY <1>1, <2>2, StrEmptyIs, NothingRead
    <3> QED
      BY <2>2, <3>1, StrRearranges
  <2> QED
    BY <1>3, <2>1, <2>2
<1>4. CASE StrShrink
  <2>1. CASE n # str.cap /\ n # 0
    <3> DEFINE m == Resized(str.mem, n + 1)
    <3>1. StrShrunk(str) = [str EXCEPT !.cap = n, !.mem = m]
      BY <2>1 DEF StrShrunk
    <3>2. m \in [1 .. n + 1 -> StrCell] /\ \A i \in 1 .. n + 1 : m[i] = str.mem[i]
      <4> DEFINE k == n + 1
      <4>1. k \in Nat
        BY <1>1
      <4>2. k <= Len(str.mem)
        BY <1>1
      <4> HIDE DEF k
      <4>3. /\ Resized(str.mem, k) \in [1 .. k -> StrCell]
            /\ \A i \in 1 .. k : i <= Len(str.mem) => Resized(str.mem, k)[i] = str.mem[i]
        BY <1>1, <4>1, StrResizedMemory
      <4>4. \A i \in 1 .. k : i <= Len(str.mem)
        BY <1>1, <4>1, <4>2, LenProperties
      <4> QED
        BY <4>3, <4>4 DEF k
    <3> HIDE DEF m
    <3>3. StrShrunk(str) = [size |-> n, cap |-> n, mem |-> m]
      BY <1>1, <3>1, StrCapChanged
    <3>4. StrReturns({[size |-> n, cap |-> n, mem |-> m]}, {0})
      BY <1>4, <3>3 DEF StrShrink
    <3> QED
      BY <1>2, <3>2, <3>4
  <2>2. CASE n = str.cap
    <3>1. StrShrunk(str) = str
      BY <2>2 DEF StrShrunk
    <3> QED
      BY <1>3, <1>4, <3>1 DEF StrShrink
  <2>3. CASE n # str.cap /\ n = 0
    <3>1. StrShrunk(str) = StrPlaceholder
      BY <2>3 DEF StrShrunk
    <3> QED
      BY <1>3, <1>4, <2>3, <3>1 DEF StrShrink
  <2> QED
    BY <2>1, <2>2, <2>3
<1>5. CASE StrClone
  <2>1. CASE n # 0
    <3> DEFINE k == n + 1
               m == SubSeq(str.mem, 1, k)
    <3>1. StrCloned(str) = [size |-> n, cap |-> n, mem |-> m]
      BY <2>1 DEF StrCloned
    <3>2. m \in [1 .. n + 1 -> StrCell] /\ \A i \in 1 .. n + 1 : m[i] = str.mem[i]
      <4>1. /\ k \in Nat /\ k <= Len(str.mem) /\ 1 <= k + 1 /\ k - 1 + 1 = k /\ 1 \in Nat /\ 1 >= 1
            /\ \A j \in 1 .. k : 1 + j - 1 = j
        BY <1>1
      <4> HIDE DEF k
      <4>2. SubSeq(str.mem, 1, k) \in Seq(StrCell) /\ Len(SubSeq(str.mem, 1, k)) = k
            /\ \A j \in 1 .. k : SubSeq(str.mem, 1, k)[j] = str.mem[j]
        BY <1>1, <4>1, PieceIs
      <4>3. m \in Seq(StrCell) /\ Len(m) = k /\ \A j \in 1 .. k : m[j] = str.mem[j]
        BY <4>2
      <4> HIDE DEF m
      <4>4. m \in [1 .. k -> StrCell]
        BY <4>3
      <4> QED
        BY <4>3, <4>4 DEF k
    <3> HIDE DEF m
    <3>3. StrReturns({[size |-> n, cap |-> n, mem |-> m]}, {0})
      BY <1>5, <3>1 DEF StrClone
    <3> QED
      BY <1>2, <3>2, <3>3
  <2>2. CASE n = 0
    <3>1. StrCloned(str) = StrPlaceholder
      BY <2>2 DEF StrCloned
    <3> QED
      BY <1>3, <1>5, <2>2, <3>1 DEF StrClone
  <2> QED
    BY <2>1, <2>2
<1> QED
  BY <1>4, <1>5

LEMMA StrClearKeeps ==
  ASSUME StrInv, StrClear
  PROVE  StrInv' /\ StrAsItems!ItemsNext
<1>1. /\ StrOK(str) /\ str.size \in Nat /\ str.cap \in Nat /\ str.size <= str.cap
      /\ DOMAIN str.mem = 1 .. str.cap + 1 /\ \A i \in 1 .. str.cap + 1 : str.mem[i] \in StrCell
  BY StrTypes DEF StrInv
<1>2. StrReturns({StrCleared(str)}, {0})
  BY DEF StrClear
<1>3. CASE str.cap = 0
  <2>1. StrCleared(str) = str
    BY <1>3 DEF StrCleared
  <2> QED
    BY <1>1, <1>2, <2>1, StrRearranges
<1>4. CASE str.cap # 0
  <2> DEFINE m == Written(str.mem, 0, <<Nul>>)
             n == 0
             w == [size |-> n, cap |-> str.cap, mem |-> m]
  <2>1. StrCleared(str) = [str EXCEPT !.size = n, !.mem = m]
    BY <1>4 DEF StrCleared
  <2> DEFINE c == str.cap + 1
  <2>2. m \in [1 .. c -> StrCell] /\ m[1] = Nul
    <3>1. 1 \in 1 .. c /\ Nul \in StrCell
      BY <1>1 DEF StrCell
    <3>2. \A i \in 0 + 1 .. 0 + Len(<<Nul>>) : i = 1 /\ <<Nul>>[i - 0] = Nul
      OBVIOUS
    <3>3. 1 \in 0 + 1 .. 0 + Len(<<Nul>>)
      OBVIOUS
    <3> DEFINE new == <<Nul>>
               gap == 0 + 1 .. 0 + Len(new)
    <3>4. m = [i \in 1 .. c |-> IF i \in gap THEN new[i - 0] ELSE str.mem[i]]
      BY <1>1 DEF Written
    <3>5. 1 \in gap /\ \A i \in gap : new[i - 0] = Nul
      BY <3>2, <3>3
    <3> HIDE DEF m, c, new, gap
    <3>6. m[1] = Nul
      BY <3>1, <3>4, <3>5
    <3>7. \A i \in 1 .. c : (IF i \in gap THEN new[i - 0] ELSE str.mem[i]) \in StrCell
      BY <1>1, <3>1, <3>5 DEF c
    <3> QED
      BY <3>4, <3>6, <3>7
  <2>3. m \in [1 .. str.cap + 1 -> StrCell] /\ m[1] = Nul
    BY <2>2
  <2> HIDE DEF m
  <2>4. n \in Nat /\ n <= str.cap /\ n <= str.size /\ m[n + 1] = Nul /\ \A i \in 1 .. n : FALSE
    BY <1>1, <2>3
  <2> HIDE DEF n
  <2>5. StrOK(w)
    BY <1>1, <2>3, <2>4, NewStr
  <2>6. StrCleared(str) = w
    BY <1>1, <2>1, StrTwoChanged
  <2>7. w.size = n /\ \A j \in 1 .. n : w.mem[j] = str.mem[j]
    BY <2>4
  <2>8. StrReturns({w}, {0})
    BY <1>2, <2>6
  <2> HIDE DEF w
  <2> QED
    BY <2>4, <2>5, <2>7, <2>8, StrShortens
<1> QED
  BY <1>3, <1>4

LEMMA StrNextKeeps ==
  ASSUME StrInv, [StrNext]_strVars
  PROVE  StrInv' /\ [StrAsItems!ItemsNext]_<<CString(str), strAnswer, strFailed>>
<1>1. CASE UNCHANGED strVars
  BY <1>1 DEF strVars, StrInv
<1>2. ASSUME NEW index \in 0 .. str.size, NEW new \in Texts, StrInsertN(index, new)
      PROVE  StrInv' /\ StrAsItems!ItemsNext
  BY <1>2, StrInsertKeeps
<1>3. ASSUME NEW index \in 0 .. str.size, NEW args \in Formats, StrInsertFmt(index, args)
      PROVE  StrInv' /\ StrAsItems!ItemsNext
  BY <1>3, StrFmtKeeps
<1>4. ASSUME NEW index \in 0 .. str.size, NEW n \in 0 .. str.size - index, StrEraseN(index, n)
      PROVE  StrInv' /\ StrAsItems!ItemsNext
  BY <1>4, StrEraseKeeps
<1>5. ASSUME NEW n \in 0 .. MaxStr + 1,
             StrReserve(n) \/ \E fill \in Chars : StrResize(n, fill)
      PROVE  StrInv' /\ StrAsItems!ItemsNext
  <2>1. n \in Nat
    BY StrAssumption
  <2> QED
    BY <1>5, <2>1, StrReserveKeeps, StrResizeKeeps
<1>6. CASE StrShrink \/ StrClone
  BY <1>6, StrTrimsKeep
<1>7. CASE StrClear
  BY <1>7, StrClearKeeps
<1>8. CASE StrCleanup
  <2>1. StrInv' /\ CString(str') = <<>>
    BY <1>8, StrEmptyIs DEF StrCleanup, StrInv
  <2>2. StrAsItems!Reset
    BY <1>8, <2>1 DEF StrCleanup, StrAsItems!Reset
  <2> QED
    BY <2>1, <2>2 DEF StrAsItems!ItemsNext
<1>9. CASE StrShrinkFails \/ StrCloneFails
  <2>1. StrReturns({}, {0})
    BY <1>9 DEF StrShrinkFails, StrCloneFails, StrReturns
  <2> QED
    BY <2>1, StrRearranges
<1> QED
  BY <1>1, <1>2, <1>3, <1>4, <1>5, <1>6, <1>7, <1>8, <1>9 DEF StrNext

\* The memory is always cap + 1 cells: the characters, the terminator behind
\* them, and spare room.
THEOREM StrMemoryStands == StrSpec => []StrInv
<1>1. StrInit => StrInv
  BY StrEmptyIs DEF StrInit, StrInv
<1>2. StrInv /\ [StrNext]_strVars => StrInv'
  BY StrNextKeeps
<1> QED
  BY <1>1, <1>2, PTL DEF StrSpec

(***************************************************************************)
(* For all texts, formats and capacities, cc_size is what strlen returns:  *)
(* no operation loses, doubles or misplaces the terminator.                *)
(***************************************************************************)
THEOREM TerminatorStands == StrSpec => []SizeIsLength
<1>1. StrInv => SizeIsLength
  BY StrTypes, CStringIs DEF StrInv, SizeIsLength
<1> QED
  BY <1>1, StrMemoryStands, PTL

(***************************************************************************)
(* For all argument lists, whatever modes they set and leave set, the pass *)
(* of cc_insert_fmt that prints fills exactly the room of the pass that    *)
(* measures, with the text that the arguments stand for.                   *)
(***************************************************************************)
THEOREM FormatsAlwaysMeasured == StrSpec => []FormatsAsMeasured
<1>1. ASSUME StrInv, NEW args \in Formats, NEW s \in FmtInserted(str, 0, args)
      PROVE  CString(s) = Expected(args) \o CString(str)
  <2> DEFINE o == 0
             i == o + 1
             t == CString(str)
             new == Expected(args)
  <2>1. StrOK(str) /\ o \in Nat /\ o <= str.size
    BY <1>1, StrTypes DEF StrInv
  <2>2. t \in Seq(Chars) /\ new \in Seq(Chars)
    BY <2>1, CStringIs, SomethingExpected
  <2>3. SubSeq(t, 1, i - 1) = <<>> /\ SubSeq(t, i, Len(t)) = t
    BY <2>2, SubSeqEmpty, SubSeqFull
  <2>4. s \in FmtInserted(str, o, args)
    BY <1>1
  <2> HIDE DEF o
  <2>5. HasText(s, str, o, new)
    BY <2>1, <2>4, FmtInsertedIs
  <2>6. InsertedAt(CString(s), t, i, new)
    BY <2>1, <2>2, <2>5, TextInserted
  <2> HIDE DEF i, t, new
  <2>7. (SubSeq(t, 1, i - 1) \o new) \o SubSeq(t, i, Len(t)) = new \o t
    BY <2>2, <2>3, ConcatEmptySeq
  <2> QED
    BY <2>6, <2>7 DEF InsertedAt, t, new
<1>2. StrInv => FormatsAsMeasured
  BY <1>1 DEF FormatsAsMeasured
<1> QED
  BY <1>2, StrMemoryStands, PTL

(***************************************************************************)
(* For all texts, formats and capacities, cc_str read up to its terminator *)
(* is the sequence of characters that its caller inserted and did not      *)
(* erase, formatted text among them, and a failing allocation loses        *)
(* nothing.                                                                *)
(***************************************************************************)
THEOREM StringImplementsItems == StrSpec => StringIsItems
<1>1. StrInit => StrAsItems!ItemsInit
  BY StrEmptyIs DEF StrInit, StrAsItems!ItemsInit
<1>2. StrInv /\ [StrNext]_strVars => [StrAsItems!ItemsNext]_<<CString(str), strAnswer, strFailed>>
  BY StrNextKeeps
<1> QED
  BY <1>1, <1>2, StrMemoryStands, PTL
     DEF StrSpec, StringIsItems, StrAsItems!ItemsSpec, StrAsItems!itemVars
==============================================================================
