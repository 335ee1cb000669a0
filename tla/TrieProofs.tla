----------------------------- MODULE TrieProofs -----------------------------
(***************************************************************************)
(* The keyword trie is right for every list of words.  A node finds a      *)
(* key's place in the auxiliary array by a shift and a popcount: the       *)
(* number of its keys before that key, so that no two keys share a place   *)
(* (RankCountsKeysBefore, PlacesInOrder).  What the builder inserts is a   *)
(* tree of the words' beginnings; gbuf_fill gives each of its nodes and    *)
(* words a slot of its own and fills every slot gbuf_size counted; and     *)
(* parse_line's walk from the root follows the path its text spells.       *)
(***************************************************************************)
EXTENDS Trie, SequenceTheorems, FiniteSetTheorems, WellFoundedInduction, TLAPS

\* The characters a node is asked for (KeyAssumption in Trie).
Asked == {c \in 0 .. 127 : Frag(c) # 0}

NodeKeys == [0 .. 1 -> Bits64]

\* A node whose keys are the characters of C.
Keyed(C) == [ik \in 0 .. 1 |-> {Frag(c) : c \in {d \in C : Half(d) = ik}}]

\* A node's keys that precede c, as bits of its lower and upper word.
LowerBefore(keys, c) == {b \in keys[0] : b < c}
UpperBefore(keys, c) == {b \in keys[1] : 64 + b < c}

LEMMA WordFinite ==
  ASSUME NEW x \in Bits64, NEW y \in SUBSET x
  PROVE  /\ IsFiniteSet(y)
         /\ Cardinality(y) \in Nat
         /\ Cardinality(y) <= Cardinality(x)
<1>1. IsFiniteSet(0 .. 63)
  <2>1. 0 \in Int /\ 63 \in Int
    OBVIOUS
  <2> QED
    BY <2>1, FS_Interval, Zenon
<1>2. IsFiniteSet(x)
  BY <1>1, FS_Subset DEF Bits64
<1>3. IsFiniteSet(y) /\ Cardinality(y) <= Cardinality(x)
  BY <1>2, FS_Subset
<1> QED
  BY <1>3, FS_CardinalityType

\* Shifting a word left by 64 - f leaves as many ones as it has below bit f.
LEMMA ShiftCounts ==
  ASSUME NEW x \in Bits64, NEW f \in 1 .. 63
  PROVE  Cardinality(Shl64(x, 64 - f)) = Cardinality({b \in x : b < f})
<1> DEFINE below == {b \in x : b < f}
           shift == [b \in below |-> b + (64 - f)]
<1>1. x \subseteq 0 .. 63
  BY DEF Bits64
<1>2. Shl64(x, 64 - f) = {b + (64 - f) : b \in below}
  <2>1. \A e \in x : e + (64 - f) < 64 <=> e < f
    BY <1>1
  <2>2. {e \in x : e + (64 - f) < 64} = below
    BY <2>1, Zenon
  <2> QED
    BY <2>2, Zenon DEF Shl64
<1>3. shift \in Bijection(below, Shl64(x, 64 - f))
  <2>1. shift \in [below -> Shl64(x, 64 - f)]
    BY <1>2
  <2>2. \A a, b \in below : shift[a] = shift[b] => a = b
    BY <1>1
  <2>3. \A t \in Shl64(x, 64 - f) : \E b \in below : shift[b] = t
    BY <1>2
  <2> QED
    BY <2>1, <2>2, <2>3 DEF Bijection, Injection, Surjection, IsInjective
<1>4. IsFiniteSet(below)
  BY WordFinite
<1> QED
  BY <1>3, <1>4, FS_Bijection DEF ExistsBijection

LEMMA Halves ==
  ASSUME NEW c \in Asked
  PROVE  /\ c \in 0 .. 127
         /\ Frag(c) \in 1 .. 63
         /\ \/ Half(c) = 0 /\ c = Frag(c)
            \/ Half(c) = 1 /\ c = 64 + Frag(c)
BY SMT DEF Asked, Frag, Half

\* trie_next_: the rank of a character is the number of keys before it.
THEOREM RankCountsKeysBefore ==
  ASSUME NEW keys \in NodeKeys, NEW c \in Asked
  PROVE  Rank(keys, c) = Cardinality(LowerBefore(keys, c)) + Cardinality(UpperBefore(keys, c))
<1>1. keys[0] \in Bits64 /\ keys[1] \in Bits64
  BY DEF NodeKeys
<1>2. keys[0] \subseteq 0 .. 63 /\ keys[1] \subseteq 0 .. 63
  BY <1>1 DEF Bits64
<1>3. Cardinality(keys[0]) \in Nat
  BY <1>1, WordFinite
<1>4. CASE Half(c) = 0 /\ c = Frag(c)
  <2>1. UpperBefore(keys, c) = {}
    BY <1>2, <1>4, Halves DEF UpperBefore
  <2>2. Cardinality(UpperBefore(keys, c)) = 0
    BY <2>1, FS_EmptySet
  <2>3. Cardinality(Shl64(keys[0], 64 - Frag(c))) = Cardinality(LowerBefore(keys, c))
    <3>1. LowerBefore(keys, c) = {b \in keys[0] : b < Frag(c)}
      BY <1>4, Zenon DEF LowerBefore
    <3> QED
      BY <1>1, <3>1, Halves, ShiftCounts, Zenon
  <2>4. Cardinality(LowerBefore(keys, c)) \in Nat
    BY <1>1, WordFinite DEF LowerBefore
  <2> QED
    BY <1>4, <2>2, <2>3, <2>4 DEF Rank
<1>5. CASE Half(c) = 1 /\ c = 64 + Frag(c)
  <2>1. LowerBefore(keys, c) = keys[0]
    BY <1>2, <1>5, Halves DEF LowerBefore
  <2>2. UpperBefore(keys, c) = {b \in keys[1] : b < Frag(c)}
    BY <1>2, <1>5, Halves DEF UpperBefore
  <2>3. Cardinality(Shl64(keys[1], 64 - Frag(c))) = Cardinality(UpperBefore(keys, c))
    BY <1>1, <2>2, Halves, ShiftCounts
  <2> QED
    BY <1>5, <2>1, <2>3 DEF Rank
<1> QED
  BY <1>4, <1>5, Halves

\* The places of two keys are in the order of the keys, and inside the node's
\* part of the auxiliary array.
THEOREM PlacesInOrder ==
  ASSUME NEW keys \in NodeKeys, NEW c \in Asked, HasKey(keys, c)
  PROVE  /\ 0 <= Rank(keys, c) /\ Rank(keys, c) < KeyCount(keys)
         /\ \A d \in Asked : c < d => Rank(keys, c) < Rank(keys, d)
<1>1. keys[0] \in Bits64 /\ keys[1] \in Bits64
  BY DEF NodeKeys
<1>2. keys[0] \subseteq 0 .. 63 /\ keys[1] \subseteq 0 .. 63
  BY <1>1 DEF Bits64
<1> DEFINE low(n) == LowerBefore(keys, n)
           up(n)  == UpperBefore(keys, n)
<1>3. \A n \in Nat : /\ low(n) \in SUBSET keys[0] /\ up(n) \in SUBSET keys[1]
                     /\ IsFiniteSet(low(n)) /\ IsFiniteSet(up(n))
                     /\ Cardinality(low(n)) \in Nat /\ Cardinality(up(n)) \in Nat
  <2>1. \A n \in Nat : low(n) \in SUBSET keys[0] /\ up(n) \in SUBSET keys[1]
    BY DEF LowerBefore, UpperBefore
  <2> QED
    BY <1>1, <2>1, WordFinite
\* c is one of the keys before any larger number, and not before itself.
<1>4. ASSUME NEW n \in Nat, c < n
      PROVE  Cardinality(low(c)) + Cardinality(up(c)) < Cardinality(low(n)) + Cardinality(up(n))
  <2>1. c \in Nat
    BY Halves
  <2>2. low(c) \subseteq low(n) /\ up(c) \subseteq up(n)
    BY <1>2, <1>4, <2>1 DEF LowerBefore, UpperBefore
  <2>3. low(c) # low(n) \/ up(c) # up(n)
    <3>1. CASE Half(c) = 0 /\ c = Frag(c)
      BY <1>2, <1>4, <2>1, <3>1 DEF HasKey, LowerBefore
    <3>2. CASE Half(c) = 1 /\ c = 64 + Frag(c)
      BY <1>2, <1>4, <2>1, <3>2 DEF HasKey, UpperBefore
    <3> QED
      BY <3>1, <3>2, Halves
  <2>4. /\ Cardinality(low(c)) <= Cardinality(low(n))
        /\ Cardinality(low(c)) = Cardinality(low(n)) => low(c) = low(n)
    BY <1>3, <1>4, <2>2, FS_Subset
  <2>5. /\ Cardinality(up(c)) <= Cardinality(up(n))
        /\ Cardinality(up(c)) = Cardinality(up(n)) => up(c) = up(n)
    BY <1>3, <1>4, <2>2, FS_Subset
  <2> HIDE DEF low, up
  <2> DEFINE a == Cardinality(low(c))
             b == Cardinality(up(c))
             d == Cardinality(low(n))
             e == Cardinality(up(n))
  <2>6. a \in Nat /\ b \in Nat /\ d \in Nat /\ e \in Nat
    BY <1>3, <2>1
  <2>7. a <= d /\ b <= e /\ (a # d \/ b # e)
    BY <2>3, <2>4, <2>5
  <2> HIDE DEF a, b, d, e
  <2>8. a + b < d + e
    BY <2>6, <2>7
  <2> QED
    BY <2>8 DEF a, b, d, e
<1>5. Rank(keys, c) = Cardinality(low(c)) + Cardinality(up(c))
  BY RankCountsKeysBefore
<1>6. low(128) = keys[0] /\ up(128) = keys[1]
  BY <1>2 DEF LowerBefore, UpperBefore
<1>7. c \in Nat /\ c < 128
  BY Halves
<1>8. 0 <= Rank(keys, c) /\ Rank(keys, c) < KeyCount(keys)
  BY <1>3, <1>4, <1>5, <1>6, <1>7 DEF KeyCount
<1>9. ASSUME NEW d \in Asked, c < d
      PROVE  Rank(keys, c) < Rank(keys, d)
  <2>1. d \in Nat
    BY Halves
  <2>2. Rank(keys, d) = Cardinality(low(d)) + Cardinality(up(d))
    BY RankCountsKeysBefore
  <2> QED
    BY <1>4, <1>5, <1>9, <2>1, <2>2
<1> QED
  BY <1>8, <1>9

------------------------------------------------------------------------------
(* Numbers *)

LEMMA LeastOf ==
  ASSUME NEW S \in SUBSET Nat, S # {}
  PROVE  \E x \in S : \A y \in S : x <= y
<1> DEFINE R == OpToRel(<, Nat)
<1>1. IsWellFoundedOn(R, Nat)
  BY NatLessThanWellFounded, Zenon
<1>2. \A a, b \in Nat : a < b => <<a, b>> \in R
  BY DEF OpToRel
<1> HIDE DEF R
<1>3. PICK x \in S : \A y \in S : ~ (<<y, x>> \in R)
  BY <1>1, WFMin
<1>4. ASSUME NEW y \in S
      PROVE  x <= y
  <2>1. x \in Nat /\ y \in Nat
    OBVIOUS
  <2>2. ~ (y < x)
    BY <1>2, <1>3, <2>1
  <2> QED
    BY <2>1, <2>2
<1> QED
  BY <1>3, <1>4

\* What holds at 0 and is carried from each number to the next holds up to n.
LEMMA StepByStep ==
  ASSUME NEW n \in Nat, NEW P, 0 \in P, \A i \in 1 .. n : i - 1 \in P => i \in P
  PROVE  \A i \in 0 .. n : i \in P
<1> DEFINE Bad == {i \in 0 .. n : i \notin P}
<1>1. Bad = {}
  <2> SUFFICES ASSUME Bad # {} PROVE FALSE
    OBVIOUS
  <2>1. Bad \in SUBSET Nat
    OBVIOUS
  <2> HIDE DEF Bad
  <2>2. PICK m \in Bad : \A k \in Bad : m <= k
    BY <2>1, LeastOf
  <2>3. m \in 0 .. n /\ m \notin P
    BY DEF Bad
  <2> DEFINE k == m - 1
  <2>4. m \in 1 .. n /\ k \in 0 .. n /\ k < m
    BY <2>3
  <2>5. k \notin Bad
    BY <2>2, <2>4
  <2>6. k \in P
    BY <2>4, <2>5 DEF Bad
  <2> QED
    BY <2>3, <2>4, <2>6
<1> QED
  BY <1>1

------------------------------------------------------------------------------
(* Paths *)

LEMMA AppendIs ==
  ASSUME NEW S, NEW s \in Seq(S), NEW c \in S
  PROVE  /\ Append(s, c) \in Seq(S) /\ Append(s, c) # <<>>
         /\ Len(Append(s, c)) = Len(s) + 1
         /\ Front(Append(s, c)) = s /\ Last(Append(s, c)) = c
         /\ \A i \in 1 .. Len(s) : Append(s, c)[i] = s[i]
<1>1. /\ Append(s, c) \in Seq(S) /\ Append(s, c) # <<>>
      /\ Len(Append(s, c)) = Len(s) + 1 /\ Append(s, c)[Len(s) + 1] = c
      /\ \A i \in 1 .. Len(s) : Append(s, c)[i] = s[i]
      /\ Len(s) \in Nat
  BY AppendProperties, LenProperties
<1> DEFINE t == Append(s, c)
<1> HIDE DEF t
<1>2. /\ t \in Seq(S) /\ Len(t) = Len(s) + 1 /\ \A i \in 1 .. Len(s) : t[i] = s[i]
      /\ Len(s) \in Nat
  BY <1>1 DEF t
<1>3. Front(t) = s
  <2>1. Len(t) - 1 = Len(s)
    BY <1>2
  <2>2. Front(t) \in Seq(S) /\ Len(Front(t)) = Len(s) /\ \A i \in 1 .. Len(s) : Front(t)[i] = t[i]
    BY <1>2, <2>1 DEF Front
  <2> HIDE DEF Front
  <2> QED
    BY <1>2, <2>2, SeqEqual
<1>4. Last(t) = c
  BY <1>1, <1>2 DEF Last, t
<1> QED
  BY <1>1, <1>3, <1>4 DEF t

\* What the first n characters are.
LEMMA PartOf ==
  ASSUME NEW S, NEW s \in Seq(S), NEW n \in 0 .. Len(s)
  PROVE  /\ SubSeq(s, 1, n) \in Seq(S) /\ Len(SubSeq(s, 1, n)) = n
         /\ \A i \in 1 .. n : SubSeq(s, 1, n)[i] = s[i]
         /\ SubSeq(s, 1, 0) = <<>> /\ SubSeq(s, 1, Len(s)) = s
         /\ n > 0 => SubSeq(s, 1, n) = Append(SubSeq(s, 1, n - 1), s[n])
<1>1. Len(s) \in Nat /\ n \in Nat /\ n <= Len(s)
  OBVIOUS
<1>2. \A m \in 0 .. Len(s) : /\ SubSeq(s, 1, m) \in Seq(S) /\ Len(SubSeq(s, 1, m)) = m
                             /\ \A i \in 1 .. m : SubSeq(s, 1, m)[i] = s[i]
  BY <1>1
<1>3. SubSeq(s, 1, 0) = <<>> /\ SubSeq(s, 1, Len(s)) = s
  <2>1. SubSeq(s, 1, 0) = <<>>
    <3>1. SubSeq(s, 1, 0) \in Seq(S) /\ Len(SubSeq(s, 1, 0)) = 0
      BY <1>1, <1>2
    <3> QED
      BY <3>1, EmptySeq
  <2>2. SubSeq(s, 1, Len(s)) = s
    <3>1. Len(s) \in 0 .. Len(s)
      BY <1>1
    <3> DEFINE t == SubSeq(s, 1, Len(s))
    <3>2. t \in Seq(S) /\ Len(t) = Len(s) /\ \A i \in 1 .. Len(s) : t[i] = s[i]
      BY <1>2, <3>1
    <3> HIDE DEF t
    <3>3. t = s
      BY <3>2, SeqEqual
    <3> QED
      BY <3>3 DEF t
  <2> QED
    BY <2>1, <2>2
<1>4. ASSUME n > 0
      PROVE  SubSeq(s, 1, n) = Append(SubSeq(s, 1, n - 1), s[n])
  <2> DEFINE a == SubSeq(s, 1, n)
             b == SubSeq(s, 1, n - 1)
  <2>1. /\ a \in Seq(S) /\ Len(a) = n /\ \A i \in 1 .. n : a[i] = s[i]
        /\ b \in Seq(S) /\ Len(b) = n - 1 /\ \A i \in 1 .. n - 1 : b[i] = s[i]
    BY <1>1, <1>2, <1>4
  <2>2. s[n] \in S
    BY <1>1, <1>4, ElementOfSeq
  <2> DEFINE c == s[n]
  <2> HIDE DEF a, b, c
  <2>3. /\ Append(b, c) \in Seq(S) /\ Len(Append(b, c)) = Len(b) + 1
        /\ \A i \in 1 .. Len(b) : Append(b, c)[i] = b[i]
        /\ Append(b, c)[Len(b) + 1] = c
    BY <2>1, <2>2, AppendProperties DEF c
  <2>4. Len(Append(b, c)) = Len(a) /\ \A i \in 1 .. Len(a) : Append(b, c)[i] = a[i]
    BY <1>1, <1>4, <2>1, <2>3 DEF c
  <2>5. Append(b, c) = a
    BY <2>1, <2>3, <2>4, SeqEqual
  <2> QED
    BY <2>5 DEF a, b, c
<1> QED
  BY <1>2, <1>3, <1>4

LEMMA FrontLast ==
  ASSUME NEW S, NEW s \in Seq(S), s # <<>>
  PROVE  /\ Front(s) \in Seq(S) /\ Last(s) \in S
         /\ Append(Front(s), Last(s)) = s /\ Len(Front(s)) = Len(s) - 1 /\ Len(s) \in Nat \ {0}
<1>1. Len(s) \in Nat \ {0} /\ \A i \in 1 .. Len(s) : s[i] \in S
  BY EmptySeq, ElementOfSeq, LenProperties
<1>2. /\ Front(s) \in Seq(S) /\ Len(Front(s)) = Len(s) - 1
      /\ \A i \in 1 .. Len(s) - 1 : Front(s)[i] = s[i]
  <2>1. Len(s) - 1 \in 0 .. Len(s)
    BY <1>1
  <2> QED
    BY <2>1, PartOf DEF Front
<1>3. Last(s) \in S /\ Last(s) = s[Len(s)]
  BY <1>1 DEF Last
<1>4. Append(Front(s), Last(s)) = s
  <2> DEFINE f == Front(s)
             c == Last(s)
  <2> HIDE DEF f, c
  <2>1. f \in Seq(S) /\ c \in S
    BY <1>2, <1>3 DEF f, c
  <2>2. /\ Append(f, c) \in Seq(S) /\ Len(Append(f, c)) = Len(f) + 1
        /\ \A i \in 1 .. Len(f) : Append(f, c)[i] = f[i]
        /\ Append(f, c)[Len(f) + 1] = c
    BY <2>1, AppendProperties
  <2>3. Len(Append(f, c)) = Len(s)
    BY <1>1, <1>2, <2>2 DEF f
  <2>4. \A i \in 1 .. Len(s) : Append(f, c)[i] = s[i]
    BY <1>1, <1>2, <1>3, <2>2 DEF f, c
  <2> QED
    BY <2>2, <2>3, <2>4, SeqEqual DEF f, c
<1> QED
  BY <1>1, <1>2, <1>3, <1>4

LEMMA PrefixIs ==
  ASSUME NEW S, NEW p \in Seq(S), NEW w \in Seq(S)
  PROVE  /\ IsPrefix(p, w) <=> Len(p) <= Len(w) /\ p = SubSeq(w, 1, Len(p))
         /\ IsPrefix(p, w) <=> Len(p) <= Len(w) /\ \A i \in 1 .. Len(p) : p[i] = w[i]
         /\ Len(p) \in Nat /\ Len(w) \in Nat
<1>1. Len(p) \in Nat /\ Len(w) \in Nat /\ Len(p) \in 0 .. Len(p)
  BY LenProperties
<1>2. SubSeq(p, 1, Len(p)) = p
  BY <1>1, PartOf
<1>3. IsPrefix(p, w) <=> Len(p) <= Len(w) /\ p = SubSeq(w, 1, Len(p))
  BY <1>2 DEF IsPrefix
<1>4. ASSUME Len(p) <= Len(w)
      PROVE  p = SubSeq(w, 1, Len(p)) <=> \A i \in 1 .. Len(p) : p[i] = w[i]
  <2> DEFINE t == SubSeq(w, 1, Len(p))
  <2>1. Len(p) \in 0 .. Len(w)
    BY <1>1, <1>4
  <2>2. t \in Seq(S) /\ Len(t) = Len(p) /\ \A i \in 1 .. Len(p) : t[i] = w[i]
    BY <2>1, PartOf
  <2> HIDE DEF t
  <2>3. p = t <=> \A i \in 1 .. Len(p) : p[i] = t[i]
    BY <2>2, SeqEqual
  <2> QED
    BY <2>2, <2>3 DEF t
<1> QED
  BY <1>1, <1>3, <1>4

LEMMA PrefixFacts ==
  ASSUME NEW S, NEW w \in Seq(S)
  PROVE  /\ IsPrefix(w, w) /\ <<>> \in Seq(S) /\ IsPrefix(<<>>, w)
         /\ w # <<>> => IsPrefix(Front(w), w)
         /\ \A p \in Seq(S) : w # <<>> => (IsPrefix(p, w) <=> p = w \/ IsPrefix(p, Front(w)))
         /\ \A p \in Seq(S) : IsPrefix(p, <<>>) => p = <<>>
<1>1. <<>> \in Seq(S) /\ Len(<<>>) = 0 /\ Len(w) \in Nat
  BY LenProperties
<1>2. IsPrefix(w, w)
  BY <1>1, PrefixIs
<1>3. IsPrefix(<<>>, w)
  <2>1. Len(<<>>) <= Len(w) /\ \A i \in 1 .. Len(<<>>) : <<>>[i] = w[i]
    BY <1>1
  <2> QED
    BY <1>1, <2>1, PrefixIs
<1>4. ASSUME NEW p \in Seq(S), w # <<>>
      PROVE  IsPrefix(p, w) <=> p = w \/ IsPrefix(p, Front(w))
  <2> DEFINE f == Front(w)
  <2>1. /\ f \in Seq(S) /\ Len(f) = Len(w) - 1 /\ Len(w) \in Nat \ {0}
        /\ \A i \in 1 .. Len(f) : f[i] = w[i]
    <3>1. f \in Seq(S) /\ Len(f) = Len(w) - 1 /\ Len(w) \in Nat \ {0}
      BY <1>4, FrontLast
    <3>2. Len(w) - 1 \in 0 .. Len(w)
      BY <3>1
    <3>3. \A i \in 1 .. Len(w) - 1 : f[i] = w[i]
      BY <3>2, PartOf DEF Front
    <3> QED
      BY <3>1, <3>3
  <2> HIDE DEF f
  <2>2. /\ IsPrefix(p, w) <=> Len(p) <= Len(w) /\ \A i \in 1 .. Len(p) : p[i] = w[i]
        /\ IsPrefix(p, f) <=> Len(p) <= Len(f) /\ \A i \in 1 .. Len(p) : p[i] = f[i]
        /\ Len(p) \in Nat
    BY <2>1, PrefixIs
  <2>3. IsPrefix(p, f) => IsPrefix(p, w)
    BY <2>1, <2>2
  <2>4. p = w => IsPrefix(p, w)
    BY <1>2
  <2>5. ASSUME IsPrefix(p, w), ~ IsPrefix(p, f)
        PROVE  p = w
    <3>1. ~ (Len(p) <= Len(f))
      BY <2>1, <2>2, <2>5
    <3>2. Len(p) = Len(w)
      BY <2>1, <2>2, <2>5, <3>1
    <3> QED
      BY <2>2, <2>5, <3>2, SeqEqual
  <2> QED
    BY <2>3, <2>4, <2>5 DEF f
<1>5. w # <<>> => IsPrefix(Front(w), w)
  <2> SUFFICES ASSUME w # <<>> PROVE IsPrefix(Front(w), w)
    OBVIOUS
  <2>1. Front(w) \in Seq(S) /\ Len(Front(w)) \in Nat
    BY FrontLast, LenProperties
  <2>2. IsPrefix(Front(w), Front(w))
    BY <2>1, PrefixIs
  <2> QED
    BY <1>4, <2>1, <2>2
<1>6. ASSUME NEW p \in Seq(S), IsPrefix(p, <<>>)
      PROVE  p = <<>>
  <2>1. Len(p) <= 0 /\ Len(p) \in Nat
    BY <1>1, <1>6, PrefixIs
  <2> QED
    BY <2>1, EmptySeq
<1> QED
  BY <1>1, <1>2, <1>3, <1>4, <1>5, <1>6

LEMMA PrefixChain ==
  ASSUME NEW S, NEW p \in Seq(S), NEW q \in Seq(S), NEW w \in Seq(S)
  PROVE  /\ IsPrefix(p, q) /\ IsPrefix(q, w) => IsPrefix(p, w)
         /\ IsPrefix(p, w) /\ IsPrefix(q, w) /\ Len(p) <= Len(q) => IsPrefix(p, q)
         /\ IsPrefix(p, q) /\ IsPrefix(q, p) => p = q
         /\ IsPrefix(p, w) /\ Len(p) = Len(w) => p = w
<1>1. /\ IsPrefix(p, w) <=> Len(p) <= Len(w) /\ \A i \in 1 .. Len(p) : p[i] = w[i]
      /\ IsPrefix(q, w) <=> Len(q) <= Len(w) /\ \A i \in 1 .. Len(q) : q[i] = w[i]
      /\ IsPrefix(p, q) <=> Len(p) <= Len(q) /\ \A i \in 1 .. Len(p) : p[i] = q[i]
      /\ IsPrefix(q, p) <=> Len(q) <= Len(p) /\ \A i \in 1 .. Len(q) : q[i] = p[i]
      /\ Len(p) \in Nat /\ Len(q) \in Nat /\ Len(w) \in Nat
  BY PrefixIs
<1>2. IsPrefix(p, q) /\ IsPrefix(q, w) => IsPrefix(p, w)
  BY <1>1
<1>3. IsPrefix(p, w) /\ IsPrefix(q, w) /\ Len(p) <= Len(q) => IsPrefix(p, q)
  BY <1>1
<1>4. IsPrefix(p, q) /\ IsPrefix(q, p) => p = q
  <2>1. IsPrefix(p, q) /\ IsPrefix(q, p) => Len(p) = Len(q)
    BY <1>1
  <2> QED
    BY <1>1, <2>1, SeqEqual
<1>5. IsPrefix(p, w) /\ Len(p) = Len(w) => p = w
  BY <1>1, SeqEqual
<1> QED
  BY <1>2, <1>3, <1>4, <1>5

\* One character more.
LEMMA PrefixNext ==
  ASSUME NEW S, NEW p \in Seq(S), NEW w \in Seq(S), NEW c \in S
  PROVE  IsPrefix(Append(p, c), w) <=> IsPrefix(p, w) /\ Len(p) < Len(w) /\ w[Len(p) + 1] = c
<1> DEFINE t == Append(p, c)
<1>1. /\ t \in Seq(S) /\ Len(t) = Len(p) + 1 /\ t[Len(p) + 1] = c
      /\ \A i \in 1 .. Len(p) : t[i] = p[i]
      /\ Len(p) \in Nat /\ Len(w) \in Nat
  BY AppendProperties, LenProperties
<1> HIDE DEF t
<1>2. /\ IsPrefix(p, w) <=> Len(p) <= Len(w) /\ \A i \in 1 .. Len(p) : p[i] = w[i]
      /\ IsPrefix(t, w) <=> Len(t) <= Len(w) /\ \A i \in 1 .. Len(t) : t[i] = w[i]
  BY <1>1, PrefixIs
<1>3. ASSUME IsPrefix(t, w)
      PROVE  IsPrefix(p, w) /\ Len(p) < Len(w) /\ w[Len(p) + 1] = c
  BY <1>1, <1>2, <1>3
<1>4. ASSUME IsPrefix(p, w), Len(p) < Len(w), w[Len(p) + 1] = c
      PROVE  IsPrefix(t, w)
  <2>1. \A i \in 1 .. Len(t) : i \in 1 .. Len(p) \/ i = Len(p) + 1
    BY <1>1
  <2> QED
    BY <1>1, <1>2, <1>4, <2>1
<1> QED
  BY <1>3, <1>4 DEF t

LEMMA PrefixesAre ==
  ASSUME NEW S, NEW w \in Seq(S)
  PROVE  /\ Prefixes(w) \subseteq Seq(S)
         /\ \A p \in Seq(S) : p \in Prefixes(w) <=> IsPrefix(p, w)
<1>1. Prefixes(w) = {SubSeq(w, 1, l) : l \in 0 .. Len(w)}
  BY DEF Prefixes
<1>2. \A n \in 0 .. Len(w) : SubSeq(w, 1, n) \in Seq(S) /\ Len(SubSeq(w, 1, n)) = n
  BY PartOf
<1>3. ASSUME NEW p \in Seq(S)
      PROVE  p \in Prefixes(w) <=> IsPrefix(p, w)
  <2>1. (IsPrefix(p, w) <=> Len(p) <= Len(w) /\ p = SubSeq(w, 1, Len(p))) /\ Len(p) \in Nat /\ Len(w) \in Nat
    BY PrefixIs
  <2>2. Len(p) <= Len(w) <=> Len(p) \in 0 .. Len(w)
    BY <2>1
  <2> QED
    BY <1>1, <1>2, <2>1, <2>2
<1> QED
  BY <1>1, <1>2, <1>3

\* A set that has what its members grew from has all that begins them.
LEMMA BeginsInside ==
  ASSUME NEW S, NEW P \in SUBSET Seq(S), \A q \in P : q # <<>> => Front(q) \in P,
         NEW w \in P, NEW p \in Seq(S), IsPrefix(p, w)
  PROVE  p \in P
<1> DEFINE n == Len(w)
           Inside == {k \in 0 .. n : SubSeq(w, 1, n - k) \in P}
<1>1. w \in Seq(S) /\ n \in Nat
  BY LenProperties
<1>2. 0 \in Inside
  <2>1. SubSeq(w, 1, n) = w /\ n - 0 = n /\ 0 \in 0 .. n
    <3>1. n \in 0 .. n
      BY <1>1
    <3> QED
      BY <1>1, <3>1, PartOf
  <2> QED
    BY <2>1
<1>3. ASSUME NEW k \in 1 .. n, k - 1 \in Inside
      PROVE  k \in Inside
  <2> DEFINE m == n - (k - 1)
             a == SubSeq(w, 1, m)
             b == SubSeq(w, 1, m - 1)
  <2>1. m \in 1 .. n /\ m \in 0 .. n /\ m - 1 \in 0 .. n /\ m - 1 = n - k /\ k \in 0 .. n /\ m > 0
    BY <1>1
  <2>2. a \in P
    BY <1>3
  <2> HIDE DEF m
  <2>3. b \in Seq(S) /\ w[m] \in S /\ a = Append(b, w[m])
    <3>1. m - 1 \in 0 .. Len(w) /\ m \in 0 .. Len(w) /\ m \in 1 .. Len(w) /\ m > 0
      BY <2>1
    <3>2. b \in Seq(S)
      BY <1>1, <3>1, PartOf
    <3>3. a = Append(b, w[m])
      BY <1>1, <3>1, PartOf
    <3>4. w[m] \in S
      BY <1>1, <3>1, ElementOfSeq
    <3> QED
      BY <3>2, <3>3, <3>4
  <2>4. a # <<>> /\ Front(a) = b
    <3> DEFINE x == w[m]
    <3>1. b \in Seq(S) /\ x \in S /\ a = Append(b, x)
      BY <2>3
    <3> HIDE DEF x, a, b
    <3>2. Append(b, x) # <<>> /\ Front(Append(b, x)) = b
      BY <3>1, AppendIs
    <3> QED
      BY <3>1, <3>2
  <2>5. b \in P
    BY <2>2, <2>4
  <2> QED
    BY <2>1, <2>5
<1> HIDE DEF Inside
<1>4. \A k \in 0 .. n : k \in Inside
  BY <1>1, <1>2, <1>3, StepByStep
<1>5. Len(p) \in Nat /\ Len(p) <= n /\ p = SubSeq(w, 1, Len(p))
  BY <1>1, PrefixIs
<1>6. n - Len(p) \in 0 .. n /\ n - (n - Len(p)) = Len(p)
  BY <1>1, <1>5
<1> QED
  BY <1>4, <1>5, <1>6 DEF Inside

------------------------------------------------------------------------------
(* The inductive invariant *)

\* The tree: what begins a path is one, and a node's keys lead to its paths.
TreeOK ==
  /\ kids \in [Paths -> Seq(Asked)] /\ Paths \subseteq Seq(Asked) /\ IsFiniteSet(Paths)
  /\ <<>> \in Paths
  /\ \A p \in Paths : p # <<>> => Front(p) \in Paths
  /\ \A p \in Paths : \A c \in Asked : Append(p, c) \in Paths <=> c \in ToSet(kids[p])
  /\ \A p \in Paths : \A j, k \in 1 .. Len(kids[p]) : kids[p][j] = kids[p][k] => j = k

\* The words: every word that is inserted is a path, and an end if no earlier
\* one hides it.
WordsOK ==
  /\ DOMAIN data \subseteq Paths \ {<<>>}
  /\ \A p \in DOMAIN data : data[p] \in 1 .. done /\ list[data[p]] = p /\ ~ Hidden(data[p])
  /\ \A w \in 1 .. done : list[w] \in Paths /\ (list[w] \in DOMAIN data \/ Hidden(w))
  /\ \A p \in Paths : p = <<>> \/ \E w \in 1 .. done : IsPrefix(p, list[w])

BuildInv ==
  /\ list \in Lists /\ done \in 0 .. Len(list)
  /\ TreeOK /\ WordsOK

\* The nodes for which gbuf_fill was called.
Nodes == DOMAIN number

\* What a node has a slot for: the nodes and the words behind its keys.
Linked(N) == {q \in Paths : q # <<>> /\ Inner(q) /\ Front(q) \in N}
Ended(N) == {q \in DOMAIN data : Front(q) \in N}

NodeAt(p) == gbuf[number[p]]
LinkSlot(q) == NodeAt(Front(q)).next + Rank(NodeAt(Front(q)).keys, Last(q))
TermSlot(q) == NodeAt(Front(q)).data + Rank(NodeAt(Front(q)).terms, Last(q))

\* The second loop of the node before q is past q.
Past(q) == \E j \in 1 .. entry[Front(q)] - 1 : kids[Front(q)][j] = Last(q)

\* The first g nodes: each path has one, and the place of its own keys.
NodesBelow(g) ==
  /\ number \in [Nodes -> 0 .. g - 1] /\ DOMAIN gbuf = 0 .. g - 1
  /\ \A n \in 0 .. g - 1 : \E p \in Nodes : number[p] = n
  /\ \A p, q \in Nodes : number[p] = number[q] => p = q
  /\ Nodes \subseteq Paths
  /\ \A p \in Nodes : NodeAt(p).keys = Keyed(NextKeys(p)) /\ NodeAt(p).terms = Keyed(TermKeys(p))

\* Each is called for once, after its parent, in the parent's loop.
NodesOK ==
  /\ gpos \in Nat /\ NodesBelow(gpos + 1)
  /\ <<>> \in Nodes /\ number[<<>>] = 0
  /\ \A p \in Nodes : p # <<>> => Inner(p) /\ Front(p) \in Nodes

CallsOK ==
  /\ current \in Nodes
  /\ DOMAIN entry = Nodes
  /\ \A p \in Nodes : entry[p] \in 1 .. Len(kids[p]) + 1
  /\ \A p \in Nodes : ~ IsPrefix(p, current) => entry[p] = Len(kids[p]) + 1
  /\ \A q \in Linked(Nodes) : q \in Nodes <=> Past(q)

\* The slots: as many as there are nodes and words to store, each for one.
SlotsOK ==
  /\ apos = Cardinality(Linked(Nodes)) + Cardinality(Ended(Nodes))
  /\ \A q \in Linked(Nodes) : LinkSlot(q) \in 0 .. apos - 1
  /\ \A q \in Ended(Nodes) : TermSlot(q) \in 0 .. apos - 1
  /\ \A q, r \in Linked(Nodes) : LinkSlot(q) = LinkSlot(r) => q = r
  /\ \A q, r \in Ended(Nodes) : TermSlot(q) = TermSlot(r) => q = r
  /\ \A q \in Linked(Nodes), r \in Ended(Nodes) : LinkSlot(q) # TermSlot(r)

\* What is written.
WrittenOK ==
  /\ DOMAIN aux = {LinkSlot(q) : q \in {r \in Linked(Nodes) : Past(r)}}
                    \cup {TermSlot(q) : q \in {r \in Ended(Nodes) : Past(r)}}
  /\ \A q \in Linked(Nodes) : Past(q) => aux[LinkSlot(q)] = number[q]
  /\ \A q \in Ended(Nodes) : Past(q) => aux[TermSlot(q)] = data[q]

FillInv == NodesOK /\ CallsOK /\ SlotsOK /\ WrittenOK

AllFilled == \A p \in Nodes : entry[p] = Len(kids[p]) + 1

\* The walk has come along a path.
WalkInv ==
  /\ query \in Seq(Char) /\ here \in 1 .. Len(query) /\ answer = 0
  /\ LET p == Seven(SubSeq(query, 1, here - 1)) IN p \in Nodes /\ node = number[p]

TrieInv ==
  /\ BuildInv
  /\ stage \in {"insert", "fill", "idle", "walk", "answered"}
  /\ stage = "insert" => gbuf = <<>> /\ aux = <<>> /\ number = <<>> /\ entry = <<>> /\ gpos = 0 /\ apos = 0
  /\ stage # "insert" => done = Len(list) /\ FillInv
  /\ stage \in {"idle", "walk", "answered"} => AllFilled
  /\ stage = "walk" => WalkInv
  /\ LookupRight

------------------------------------------------------------------------------
(* The keys of a node *)

LEMMA FragHalf ==
  ASSUME NEW c \in Char
  PROVE  /\ Half(c) \in 0 .. 1 /\ Frag(c) \in 0 .. 63
         /\ c % 128 \in 0 .. 127 /\ c % 128 = 64 * Half(c) + Frag(c)
         /\ Half(c % 128) = Half(c) /\ Frag(c % 128) = Frag(c)
         /\ c < 128 => c % 128 = c
<1> DEFINE d == c % 128
<1>1. c \in Int /\ 0 <= c /\ c <= 255
  BY DEF Char
<1>2. d \in 0 .. 127 /\ (d = c \/ d = c - 128) /\ (c < 128 => d = c)
  BY <1>1
<1>3. Half(c) \in 0 .. 1 /\ Frag(c) \in 0 .. 63
  BY <1>1 DEF Half, Frag
<1> HIDE DEF d
<1>4. CASE d = c
  <2>1. d = 64 * Half(c) + Frag(c)
    BY <1>1, <1>2, <1>4 DEF Half, Frag
  <2> QED
    BY <1>2, <1>3, <1>4, <2>1 DEF d
<1>5. CASE d = c - 128
  <2>1. Half(d) = Half(c)
    BY <1>1, <1>2, <1>5 DEF Half
  <2>2. Frag(d) = Frag(c)
    BY <1>1, <1>2, <1>5 DEF Frag
  <2>3. d = 64 * Half(d) + Frag(d)
    BY <1>1, <1>2, <1>5 DEF Half, Frag
  <2> QED
    BY <1>2, <1>3, <2>1, <2>2, <2>3 DEF d
<1> QED
  BY <1>2, <1>4, <1>5

\* A half and a place in it are one character.
LEMMA AskedIs ==
  ASSUME NEW c \in Asked
  PROVE  /\ c \in Char /\ c \in Nat /\ c % 128 = c
         /\ Half(c) \in 0 .. 1 /\ Frag(c) \in 1 .. 63 /\ c = 64 * Half(c) + Frag(c)
<1>1. c \in Char /\ c < 128 /\ c \in Nat /\ Frag(c) # 0
  BY DEF Asked, Char
<1> QED
  BY <1>1, FragHalf

LEMMA KeyedIs ==
  ASSUME NEW C \in SUBSET Asked
  PROVE  /\ Keyed(C) \in NodeKeys
         /\ \A c \in Char : HasKey(Keyed(C), c) <=> c % 128 \in C
<1>1. \A c \in C : /\ c \in Char /\ c \in Nat /\ c % 128 = c /\ Half(c) \in 0 .. 1
                   /\ Frag(c) \in 1 .. 63 /\ c = 64 * Half(c) + Frag(c)
  BY AskedIs
<1>2. \A ik \in 0 .. 1 : {Frag(c) : c \in {d \in C : Half(d) = ik}} \in SUBSET (0 .. 63)
  BY <1>1
<1>3. Keyed(C) \in NodeKeys
  BY <1>2 DEF Keyed, NodeKeys, Bits64
<1>4. ASSUME NEW c \in Char
      PROVE  HasKey(Keyed(C), c) <=> c % 128 \in C
  <2>1. Half(c) \in 0 .. 1 /\ Frag(c) \in 0 .. 63 /\ c % 128 = 64 * Half(c) + Frag(c)
        /\ Half(c % 128) = Half(c) /\ Frag(c % 128) = Frag(c)
    BY FragHalf
  <2> DEFINE m == c % 128
             h == Half(c)
             f == Frag(c)
  <2> HIDE DEF m, h, f
  <2>2. h \in 0 .. 1 /\ f \in 0 .. 63 /\ m = 64 * h + f /\ Half(m) = h /\ Frag(m) = f
    BY <2>1 DEF m, h, f
  <2>3. HasKey(Keyed(C), c) <=> \E d \in C : Half(d) = h /\ Frag(d) = f
    BY <2>2 DEF HasKey, Keyed, h, f
  <2>4. \A d \in C : Half(d) = h /\ Frag(d) = f => d = m
    BY <1>1, <2>2
  <2> QED
    BY <2>2, <2>3, <2>4 DEF m
<1> QED
  BY <1>3, <1>4

LEMMA KeyedNone == Keyed({}) = NoKeys
BY DEF Keyed, NoKeys

LEMMA SetKeyIs ==
  ASSUME NEW C \in SUBSET Asked, NEW c \in Asked
  PROVE  trie_set_key(Keyed(C), c) = Keyed(C \cup {c})
<1>1. Half(c) \in 0 .. 1
  BY AskedIs
<1> DEFINE part(D, ik) == {Frag(e) : e \in {d \in D : Half(d) = ik}}
<1>2. trie_set_key(Keyed(C), c) = [ik \in 0 .. 1 |-> IF ik = Half(c) THEN part(C, ik) \cup {Frag(c)} ELSE part(C, ik)]
  BY <1>1 DEF trie_set_key, Keyed
<1>3. \A ik \in 0 .. 1 : (IF ik = Half(c) THEN part(C, ik) \cup {Frag(c)} ELSE part(C, ik)) = part(C \cup {c}, ik)
  <2> TAKE ik \in 0 .. 1
  <2>1. CASE ik = Half(c)
    <3>1. part(C \cup {c}, ik) = part(C, ik) \cup {Frag(c)}
      BY <2>1
    <3> QED
      BY <2>1, <3>1, Zenon
  <2>2. CASE ik # Half(c)
    <3>1. part(C \cup {c}, ik) = part(C, ik)
      BY <2>2
    <3> QED
      BY <2>2, <3>1, Zenon
  <2> QED
    BY <2>1, <2>2
<1>4. Keyed(C \cup {c}) = [ik \in 0 .. 1 |-> part(C \cup {c}, ik)]
  BY Zenon DEF Keyed
<1> HIDE DEF part
<1> QED
  BY <1>2, <1>3, <1>4

\* A node counts each of its characters once.
LEMMA KeyedCount ==
  ASSUME NEW C \in SUBSET Asked
  PROVE  IsFiniteSet(C) /\ Cardinality(C) \in Nat /\ KeyCount(Keyed(C)) = Cardinality(C)
<1>1. IsFiniteSet(C) /\ Cardinality(C) \in Nat
  <2>1. IsFiniteSet(0 .. 127)
    <3>1. 0 \in Int /\ 127 \in Int
      OBVIOUS
    <3> QED
      BY <3>1, FS_Interval, Zenon
  <2>2. C \in SUBSET (0 .. 127)
    BY DEF Asked
  <2> QED
    BY <2>1, <2>2, FS_Subset, FS_CardinalityType
<1> DEFINE part(ik) == {d \in C : Half(d) = ik}
           bits(ik) == {Frag(c) : c \in part(ik)}
<1>2. ASSUME NEW ik \in 0 .. 1
      PROVE  IsFiniteSet(part(ik)) /\ Cardinality(bits(ik)) = Cardinality(part(ik)) /\ Cardinality(part(ik)) \in Nat
  <2>1. part(ik) \in SUBSET C
    OBVIOUS
  <2>2. IsFiniteSet(part(ik))
    BY <1>1, <2>1, FS_Subset
  <2> DEFINE f == [c \in part(ik) |-> Frag(c)]
  <2>3. f \in Surjection(part(ik), bits(ik))
    BY DEF Surjection
  <2>4. \A c, d \in part(ik) : Frag(c) = Frag(d) => c = d
    BY AskedIs
  <2>5. f \in Bijection(part(ik), bits(ik))
    <3>1. \A c, d \in part(ik) : f[c] = f[d] => c = d
      BY <2>4
    <3>2. f \in Injection(part(ik), bits(ik))
      BY <2>3, <3>1 DEF Injection, IsInjective, Surjection
    <3> QED
      BY <2>3, <3>2 DEF Bijection
  <2> QED
    BY <2>2, <2>5, FS_Bijection, FS_CardinalityType DEF ExistsBijection
<1>3. C = part(0) \cup part(1) /\ part(0) \cap part(1) = {}
  <2>1. \A c \in C : Half(c) = 0 \/ Half(c) = 1
    BY AskedIs
  <2> QED
    BY <2>1
<1>4. Keyed(C)[0] = bits(0) /\ Keyed(C)[1] = bits(1)
  BY DEF Keyed
<1> HIDE DEF part, bits
<1>5. Cardinality(part(0) \cap part(1)) = 0
  BY <1>3, FS_EmptySet
<1>6. Cardinality(C) = Cardinality(part(0)) + Cardinality(part(1)) - Cardinality(part(0) \cap part(1))
  BY <1>2, <1>3, FS_Union
<1>7. 0 \in 0 .. 1 /\ 1 \in 0 .. 1
  OBVIOUS
<1>8. KeyCount(Keyed(C)) = Cardinality(part(0)) + Cardinality(part(1))
  BY <1>2, <1>4, <1>7 DEF KeyCount
<1> QED
  BY <1>1, <1>2, <1>5, <1>6, <1>7, <1>8

\* The place of a character: no other has it, and it is one of the node's.
LEMMA KeyedRank ==
  ASSUME NEW C \in SUBSET Asked, NEW c \in C
  PROVE  /\ Rank(Keyed(C), c) \in 0 .. Cardinality(C) - 1
         /\ \A d \in C : Rank(Keyed(C), c) = Rank(Keyed(C), d) => c = d
<1>1. \A d \in C : d \in Asked /\ d \in Nat /\ HasKey(Keyed(C), d)
  BY KeyedIs, AskedIs
<1>2. Keyed(C) \in NodeKeys
  BY KeyedIs
<1> DEFINE K == Keyed(C)
<1> HIDE DEF K
<1>3. \A d \in C : /\ 0 <= Rank(K, d) /\ Rank(K, d) < KeyCount(K) /\ Rank(K, d) \in Int
                   /\ \A e \in C : d < e => Rank(K, d) < Rank(K, e)
  <2> TAKE d \in C
  <2>1. d \in Asked /\ HasKey(K, d) /\ K \in NodeKeys
    BY <1>1, <1>2 DEF K
  <2>2. Rank(K, d) = Cardinality(LowerBefore(K, d)) + Cardinality(UpperBefore(K, d))
    BY <2>1, RankCountsKeysBefore
  <2>3. K[0] \in Bits64 /\ K[1] \in Bits64
    BY <2>1 DEF NodeKeys
  <2>4. Cardinality(LowerBefore(K, d)) \in Nat /\ Cardinality(UpperBefore(K, d)) \in Nat
    BY <2>3, WordFinite DEF LowerBefore, UpperBefore
  <2>5. Rank(K, d) \in Int
    BY <2>2, <2>4
  <2> QED
    BY <1>1, <2>1, <2>5, PlacesInOrder
<1>4. KeyCount(K) = Cardinality(C) /\ Cardinality(C) \in Nat
  BY KeyedCount DEF K
<1>5. Rank(K, c) \in 0 .. Cardinality(C) - 1
  BY <1>3, <1>4
<1>6. \A d \in C : Rank(K, c) = Rank(K, d) => c = d
  <2> TAKE d \in C
  <2>1. c < d \/ c = d \/ d < c
    BY <1>1
  <2> QED
    BY <1>3, <2>1
<1> QED
  BY <1>5, <1>6 DEF K

\* A line's character finds what the character without its top bit does.
LEMMA RankSeven ==
  ASSUME NEW keys, NEW c \in Char
  PROVE  Rank(keys, c) = Rank(keys, c % 128) /\ (HasKey(keys, c) <=> HasKey(keys, c % 128))
<1>1. Half(c % 128) = Half(c) /\ Frag(c % 128) = Frag(c)
  BY FragHalf
<1> QED
  BY <1>1, Zenon DEF Rank, HasKey

IsKeySet(f, s, C) ==
  f = [k \in 0 .. Len(s) |->
         IF k = 0 THEN NoKeys
         ELSE IF s[k] \in C THEN trie_set_key(f[k - 1], s[k]) ELSE f[k - 1]]

\* One by one, the keys that are in C.
LEMMA KeySetIs ==
  ASSUME NEW p, kids[p] \in Seq(Asked), NEW C \in SUBSET ToSet(kids[p])
  PROVE  C \in SUBSET Asked /\ KeySet(p, C) = Keyed(C)
<1> DEFINE s == kids[p]
           n == Len(s)
           first(k) == {c \in C : \E i \in 1 .. k : s[i] = c}
<1> HIDE DEF s
<1>1. s \in Seq(Asked) /\ n \in Nat /\ \A k \in 1 .. n : s[k] \in Asked
  BY ElementOfSeq, LenProperties DEF s
<1>2. C \in SUBSET {s[k] : k \in 1 .. n}
  <2>1. ToSet(s) = {s[k] : k \in 1 .. n}
    BY <1>1 DEF ToSet
  <2> QED
    BY <2>1 DEF s
<1>3. C \in SUBSET Asked
  BY <1>1, <1>2
<1>4. \A k \in 0 .. n : first(k) \in SUBSET Asked
  BY <1>3
<1>5. first(0) = {} /\ first(n) = C
  BY <1>1, <1>2
<1>6. ASSUME NEW k \in 1 .. n
      PROVE  Keyed(first(k)) = IF s[k] \in C THEN trie_set_key(Keyed(first(k - 1)), s[k]) ELSE Keyed(first(k - 1))
  <2>1. k - 1 \in 0 .. n /\ k \in Nat
    BY <1>1
  <2>2. CASE s[k] \in C
    <3>1. first(k) = first(k - 1) \cup {s[k]}
      <4>1. \A i \in 1 .. k : i \in 1 .. k - 1 \/ i = k
        BY <2>1
      <4>2. \A i \in 1 .. k - 1 : i \in 1 .. k
        BY <2>1
      <4>3. k \in 1 .. k
        BY <2>1
      <4> QED
        BY <2>2, <4>1, <4>2, <4>3
    <3>2. first(k - 1) \in SUBSET Asked /\ s[k] \in Asked
      BY <1>1, <1>4, <2>1
    <3> HIDE DEF first, n
    <3>3. trie_set_key(Keyed(first(k - 1)), s[k]) = Keyed(first(k - 1) \cup {s[k]})
      BY <3>2, SetKeyIs
    <3> QED
      BY <2>2, <3>1, <3>3
  <2>3. CASE s[k] \notin C
    <3>1. first(k) = first(k - 1)
      <4>1. \A i \in 1 .. k : i \in 1 .. k - 1 \/ i = k
        BY <2>1
      <4>2. \A i \in 1 .. k - 1 : i \in 1 .. k
        BY <2>1
      <4> QED
        BY <2>3, <4>1, <4>2
    <3> HIDE DEF first, n
    <3> QED
      BY <2>3, <3>1
  <2> QED
    BY <2>2, <2>3
<1> DEFINE K == [k \in 0 .. n |-> Keyed(first(k))]
<1>7. IsKeySet(K, s, C)
  <2>1. \A k \in 0 .. n : K[k] = Keyed(first(k))
    OBVIOUS
  <2>2. K[0] = NoKeys
    <3>1. K[0] = Keyed(first(0))
      <4>1. 0 \in 0 .. n
        BY <1>1
      <4> HIDE DEF K, first
      <4> QED
        BY <2>1, <4>1
    <3> HIDE DEF first
    <3> QED
      BY <1>5, <3>1, KeyedNone
  <2>3. \A k \in 1 .. n : k - 1 \in 0 .. n /\ k \in 0 .. n /\ k # 0
    BY <1>1
  <2> HIDE DEF first
  <2>4. K = [k \in 0 .. n |-> K[k]]
    OBVIOUS
  <2> HIDE DEF K
  <2>5. \A k \in 1 .. n : K[k] = IF s[k] \in C THEN trie_set_key(K[k - 1], s[k]) ELSE K[k - 1]
    BY <1>6, <2>1, <2>3
  <2>6. \A k \in 0 .. n : K[k] = IF k = 0 THEN NoKeys
                                 ELSE IF s[k] \in C THEN trie_set_key(K[k - 1], s[k]) ELSE K[k - 1]
    <3> TAKE k \in 0 .. n
    <3>1. k = 0 \/ k \in 1 .. n
      BY <1>1
    <3> QED
      BY <2>2, <2>3, <2>5, <3>1
  <2> QED
    BY <2>4, <2>6 DEF IsKeySet
<1> DEFINE set == CHOOSE f : IsKeySet(f, s, C)
<1>8. IsKeySet(set, s, C)
  BY <1>7
<1>9. KeySet(p, C) = set[n]
  BY DEF KeySet, IsKeySet, s
<1> HIDE DEF set, K
<1>10. set[0] = NoKeys /\ \A k \in 1 .. n : set[k] = IF s[k] \in C THEN trie_set_key(set[k - 1], s[k]) ELSE set[k - 1]
  <2>1. 0 \in 0 .. n /\ \A k \in 1 .. n : k \in 0 .. n /\ k # 0
    BY <1>1
  <2> QED
    BY <1>8, <2>1 DEF IsKeySet
<1> DEFINE P == {k \in 0 .. n : set[k] = Keyed(first(k))}
<1>11. 0 \in P
  <2>1. 0 \in 0 .. n
    BY <1>1
  <2>2. set[0] = Keyed(first(0))
    <3> HIDE DEF first
    <3> QED
      BY <1>5, <1>10, KeyedNone
  <2> QED
    BY <2>1, <2>2
<1>12. \A k \in 1 .. n : k - 1 \in P => k \in P
  <2> HIDE DEF first
  <2>1. \A k \in 1 .. n : k \in 0 .. n
    BY <1>1
  <2> QED
    BY <1>6, <1>10, <2>1
<1> HIDE DEF P
<1>13. n \in P
  <2>1. \A k \in 0 .. n : k \in P
    BY <1>1, <1>11, <1>12, StepByStep
  <2> QED
    BY <1>1, <2>1
<1>14. set[n] = Keyed(C)
  BY <1>5, <1>13 DEF P
<1> QED
  BY <1>3, <1>9, <1>14

------------------------------------------------------------------------------
(* The builder *)

LEMMA WordsAre ==
  ASSUME NEW l \in Lists
  PROVE  /\ l \in Seq(Seq(Char)) /\ DOMAIN l = 1 .. Len(l) /\ Len(l) \in Nat
         /\ \A w \in 1 .. Len(l) : l[w] \in Seq(Asked) /\ l[w] # <<>>
<1>1. l \in Seq(Seq(Char)) /\ DOMAIN l = 1 .. Len(l) /\ Len(l) \in Nat
  BY ListAssumption, LenProperties
<1>2. ASSUME NEW w \in 1 .. Len(l)
      PROVE  l[w] \in Seq(Asked) /\ l[w] # <<>>
  <2> DEFINE x == l[w]
  <2>1. x \in Seq(Char)
    BY <1>1, ElementOfSeq
  <2>2. x # <<>> /\ \A k \in DOMAIN x : x[k] \in Char /\ x[k] < 128 /\ Frag(x[k]) # 0
    BY <1>1, KeyAssumption
  <2> HIDE DEF x
  <2>3. DOMAIN x = 1 .. Len(x) /\ Len(x) \in Nat /\ x = [k \in 1 .. Len(x) |-> x[k]]
    BY <2>1, LenProperties
  <2>4. \A k \in 1 .. Len(x) : x[k] \in Asked
    <3>1. \A c \in Char : c < 128 /\ Frag(c) # 0 => c \in Asked
      BY DEF Asked, Char
    <3> QED
      BY <2>2, <2>3, <3>1
  <2>5. x \in [1 .. Len(x) -> Asked]
    BY <2>3, <2>4
  <2>6. x \in Seq(Asked)
    <3> DEFINE n == Len(x)
    <3>1. n \in Nat /\ x \in [1 .. n -> Asked]
      BY <2>3, <2>5
    <3> HIDE DEF n
    <3>2. x \in UNION {[1 .. m -> Asked] : m \in Nat}
      BY <3>1
    <3> QED
      BY <3>2, SeqDef, Zenon
  <2> QED
    BY <2>2, <2>6 DEF x
<1> QED
  BY <1>1, <1>2

\* The longest part of a word the tree has.
LEMMA KnownIs ==
  ASSUME TreeOK, NEW w \in Seq(Asked)
  PROVE  /\ Known(w) \in Paths /\ IsPrefix(Known(w), w)
         /\ \A q \in Paths : IsPrefix(q, w) => Len(q) <= Len(Known(w))
         /\ w \in Paths <=> Known(w) = w
<1>1. Paths \subseteq Seq(Asked) /\ <<>> \in Paths
  BY DEF TreeOK
<1> DEFINE found == {q \in Paths : IsPrefix(q, w)}
           short == {Len(w) - Len(q) : q \in found}
<1>2. \A q \in found : Len(q) \in Nat /\ Len(w) \in Nat /\ Len(q) <= Len(w)
  BY <1>1, PrefixIs
<1>3. short \in SUBSET Nat /\ short # {}
  <2>1. <<>> \in found
    BY <1>1, PrefixFacts
  <2> HIDE DEF found
  <2>2. \A q \in found : Len(w) - Len(q) \in Nat
    BY <1>2
  <2> QED
    BY <2>1, <2>2
<1>4. \E p \in found : \A q \in found : Len(q) <= Len(p)
  <2> HIDE DEF short
  <2>1. PICK x \in short : \A y \in short : x <= y
    BY <1>3, LeastOf
  <2> USE DEF short
  <2> HIDE DEF found
  <2>2. PICK p \in found : x = Len(w) - Len(p)
    BY <2>1
  <2>3. \A q \in found : Len(w) - Len(p) <= Len(w) - Len(q)
    BY <2>1, <2>2
  <2> QED
    BY <1>2, <2>3
<1>5. \E p \in Paths : IsPrefix(p, w) /\ \A q \in Paths : IsPrefix(q, w) => Len(q) <= Len(p)
  BY <1>4
<1>6. /\ Known(w) \in Paths /\ IsPrefix(Known(w), w)
      /\ \A q \in Paths : IsPrefix(q, w) => Len(q) <= Len(Known(w))
  BY <1>5 DEF Known
<1>7. ASSUME w \in Paths
      PROVE  Known(w) = w
  <2> DEFINE p == Known(w)
  <2> HIDE DEF p
  <2>1. p \in Seq(Asked) /\ IsPrefix(p, w) /\ Len(p) <= Len(w) /\ Len(p) \in Nat /\ Len(w) \in Nat
    BY <1>1, <1>6, PrefixIs DEF p
  <2>2. Len(w) <= Len(p)
    BY <1>6, <1>7, PrefixFacts DEF p
  <2>3. Len(p) = Len(w)
    BY <2>1, <2>2
  <2> QED
    BY <2>1, <2>3, PrefixChain DEF p
<1> QED
  BY <1>6, <1>7

\* What the new keys are.
LEMMA InsertKids ==
  ASSUME TreeOK, NEW w \in Seq(Asked), NEW d, Known(w) # w, trie_builder_insert(w, d)
  PROVE  /\ Paths' = Paths \cup Prefixes(w) /\ w \notin Paths
         /\ kids' = [q \in Paths' |-> kids'[q]]
         /\ kids'[Known(w)] = Append(kids[Known(w)], w[Len(Known(w)) + 1])
         /\ \A q \in Paths \ {Known(w)} : kids'[q] = kids[q]
         /\ kids'[w] = <<>>
         /\ \A q \in Prefixes(w) \ Paths : q # w => kids'[q] = <<w[Len(q) + 1]>>
         /\ data' = With(data, w, d)
<1> DEFINE p == Known(w)
<1>1. p \in Paths /\ w \notin Paths
  BY KnownIs
<1> HIDE DEF p
<1>2. /\ kids' = [q \in Paths \cup Prefixes(w) |->
                   IF q = p THEN Append(kids[p], w[Len(p) + 1])
                   ELSE IF q \in Paths THEN kids[q]
                   ELSE IF q = w THEN <<>>
                   ELSE <<w[Len(q) + 1]>>]
      /\ data' = With(data, w, d)
  BY Zenon DEF trie_builder_insert, p
<1>3. Paths' = Paths \cup Prefixes(w)
  BY <1>2 DEF Paths
<1>4. w \in Prefixes(w)
  BY PrefixesAre, PrefixFacts
<1>5. kids'[p] = Append(kids[p], w[Len(p) + 1])
  BY <1>1, <1>2
<1>6. \A q \in Paths \ {p} : kids'[q] = kids[q]
  BY <1>2
<1>7. kids'[w] = <<>>
  BY <1>1, <1>2, <1>4
<1>8. \A q \in Prefixes(w) \ Paths : q # w => kids'[q] = <<w[Len(q) + 1]>>
  BY <1>1, <1>2
<1>9. kids' = [q \in Paths' |-> kids'[q]]
  BY <1>2, <1>3
<1> QED
  BY <1>1, <1>2, <1>3, <1>5, <1>6, <1>7, <1>8, <1>9 DEF p

LEMMA PrefixesFinite ==
  ASSUME NEW S, NEW w \in Seq(S)
  PROVE  IsFiniteSet(Prefixes(w))
<1> DEFINE D == 0 .. Len(w)
           f == [l \in D |-> SubSeq(w, 1, l)]
<1>1. IsFiniteSet(D)
  <2>1. 0 \in Int /\ Len(w) \in Int
    BY LenProperties
  <2> QED
    BY <2>1, FS_Interval, Zenon
<1>2. f \in Surjection(D, Prefixes(w))
  BY DEF Surjection, Prefixes
<1> HIDE DEF D, f
<1> QED
  BY <1>1, <1>2, FS_Surjection

\* The new tree is one.
LEMMA InsertTree ==
  ASSUME TreeOK, NEW w \in Seq(Asked), NEW d, Known(w) # w, trie_builder_insert(w, d)
  PROVE  TreeOK'
<1> DEFINE p == Known(w)
           c == w[Len(p) + 1]
           P == Paths
           Q == Prefixes(w)
<1>1. /\ p \in P /\ p \in Seq(Asked) /\ IsPrefix(p, w) /\ w \notin P
      /\ \A q \in P : IsPrefix(q, w) => Len(q) <= Len(p)
  BY KnownIs, InsertKids DEF TreeOK
<1>2. /\ P \subseteq Seq(Asked) /\ IsFiniteSet(P) /\ <<>> \in P
      /\ \A q \in P : q # <<>> => Front(q) \in P
      /\ \A q \in P : \A e \in Asked : Append(q, e) \in P <=> e \in ToSet(kids[q])
      /\ \A q \in P : kids[q] \in Seq(Asked)
      /\ \A q \in P : \A j, k \in 1 .. Len(kids[q]) : kids[q][j] = kids[q][k] => j = k
  BY DEF TreeOK
<1>3. /\ Paths' = P \cup Q
      /\ kids' = [q \in Paths' |-> kids'[q]]
      /\ kids'[p] = Append(kids[p], c)
      /\ \A q \in P \ {p} : kids'[q] = kids[q]
      /\ kids'[w] = <<>>
      /\ \A q \in Q \ P : q # w => kids'[q] = <<w[Len(q) + 1]>>
  BY InsertKids
<1>4. Q \subseteq Seq(Asked) /\ IsFiniteSet(Q) /\ \A q \in Seq(Asked) : q \in Q <=> IsPrefix(q, w)
  BY PrefixesAre, PrefixesFinite
<1>5. \A q \in Seq(Asked) : IsPrefix(q, w) => Len(q) \in Nat /\ Len(w) \in Nat /\ Len(q) <= Len(w) /\ (Len(q) = Len(w) => q = w)
  BY PrefixIs, PrefixChain
<1>6. \A n \in 1 .. Len(w) : w[n] \in Asked
  BY ElementOfSeq
<1> HIDE DEF p, P, Q
\* The known prefixes are the shorter ones.
<1>7. \A q \in Q : q \in P <=> Len(q) <= Len(p)
  <2> TAKE q \in Q
  <2>1. q \in Seq(Asked) /\ IsPrefix(q, w)
    BY <1>4
  <2>2. q \in P => Len(q) <= Len(p)
    BY <1>1, <2>1
  <2>3. ASSUME Len(q) <= Len(p)
        PROVE  q \in P
    <3>1. IsPrefix(q, p)
      BY <1>1, <2>1, <2>3, PrefixChain
    <3> QED
      BY <1>1, <1>2, <2>1, <3>1, BeginsInside
  <2> QED
    BY <2>2, <2>3
<1>8. Len(p) \in Nat /\ Len(w) \in Nat /\ Len(p) < Len(w) /\ c \in Asked
  <2>1. Len(p) \in Nat /\ Len(w) \in Nat /\ Len(p) <= Len(w) /\ Len(p) # Len(w)
    BY <1>1, <1>5
  <2>2. Len(p) + 1 \in 1 .. Len(w)
    BY <2>1
  <2> QED
    BY <1>6, <2>1, <2>2
<1>9. \A q \in Seq(Asked) : \A e \in Asked :
        Append(q, e) \in Q <=> q \in Q /\ Len(q) < Len(w) /\ w[Len(q) + 1] = e
  <2> TAKE q \in Seq(Asked)
  <2> TAKE e \in Asked
  <2>1. Append(q, e) \in Seq(Asked)
    BY AppendIs
  <2> QED
    BY <1>4, <2>1, PrefixNext
\* The new keys, by place.
<1>10. /\ kids'[p] \in Seq(Asked) /\ ToSet(kids'[p]) = ToSet(kids[p]) \cup {c}
       /\ c \notin ToSet(kids[p])
       /\ \A j, k \in 1 .. Len(kids'[p]) : kids'[p][j] = kids'[p][k] => j = k
  <2> DEFINE s == kids[p]
             t == Append(s, c)
  <2>1. s \in Seq(Asked) /\ \A j, k \in 1 .. Len(s) : s[j] = s[k] => j = k
    BY <1>1, <1>2
  <2> HIDE DEF s, c
  <2>2. /\ t \in Seq(Asked) /\ Len(t) = Len(s) + 1 /\ t[Len(s) + 1] = c /\ Len(s) \in Nat
        /\ \A i \in 1 .. Len(s) : t[i] = s[i]
        /\ DOMAIN t = 1 .. Len(t) /\ DOMAIN s = 1 .. Len(s)
    BY <1>8, <2>1, AppendProperties, LenProperties
  <2> HIDE DEF t
  <2>3. \A i \in 1 .. Len(t) : i \in 1 .. Len(s) \/ i = Len(s) + 1
    BY <2>2
  <2>4. \A i \in 1 .. Len(s) : i \in 1 .. Len(t)
    BY <2>2
  <2>5. Len(s) + 1 \in 1 .. Len(t)
    BY <2>2
  <2>6. ToSet(t) = ToSet(s) \cup {c}
    BY <2>2, <2>3, <2>4, <2>5 DEF ToSet
  <2>7. c \notin ToSet(s)
    <3>1. Append(p, c) \in Seq(Asked) /\ Len(Append(p, c)) = Len(p) + 1
      BY <1>1, <1>8, AppendIs
    <3>2. p \in Q /\ Append(p, c) \in Q
      BY <1>1, <1>4, <1>8, <1>9 DEF c
    <3>3. Append(p, c) \notin P
      <4> DEFINE a == Append(p, c)
      <4>1. a \in Q /\ Len(a) = Len(p) + 1
        BY <3>1, <3>2
      <4> HIDE DEF a
      <4>2. a \notin P
        BY <1>7, <1>8, <4>1
      <4> QED
        BY <4>2 DEF a
    <3>4. c \in Asked /\ \A e \in Asked : Append(p, e) \in P <=> e \in ToSet(kids[p])
      BY <1>1, <1>2, <1>8
    <3>5. c \notin ToSet(kids[p])
      BY <3>3, <3>4
    <3> QED
      BY <3>5 DEF s
  <2>8. \A j \in 1 .. Len(s) : s[j] # c
    BY <2>2, <2>7 DEF ToSet
  <2>9. \A j, k \in 1 .. Len(t) : t[j] = t[k] => j = k
    BY <2>1, <2>2, <2>3, <2>8
  <2> QED
    BY <1>3, <2>2, <2>6, <2>7, <2>9 DEF s, t, c
<1> HIDE DEF c
<1>11. ASSUME NEW q \in Q \ P, q # w
       PROVE  /\ Len(q) < Len(w) /\ w[Len(q) + 1] \in Asked
              /\ kids'[q] \in Seq(Asked) /\ ToSet(kids'[q]) = {w[Len(q) + 1]}
              /\ \A j, k \in 1 .. Len(kids'[q]) : j = k
  <2>1. Len(q) \in Nat /\ Len(w) \in Nat /\ Len(q) < Len(w)
    BY <1>4, <1>5, <1>11
  <2>2. Len(q) + 1 \in 1 .. Len(w)
    BY <2>1
  <2> DEFINE e == w[Len(q) + 1]
             s == <<e>>
  <2>3. e \in Asked /\ kids'[q] = s
    BY <1>3, <1>6, <1>11, <2>2
  <2> HIDE DEF e
  <2>4. s \in Seq(Asked) /\ ToSet(s) = {e} /\ Len(s) = 1
    BY <2>3 DEF ToSet
  <2> HIDE DEF s
  <2> QED
    BY <2>1, <2>3, <2>4 DEF e
<1>12. ToSet(kids'[w]) = {} /\ kids'[w] \in Seq(Asked) /\ Len(kids'[w]) = 0
  BY <1>3 DEF ToSet
<1> DEFINE R == Paths'
<1>13. \A q \in R : q = p \/ q \in P \ {p} \/ q = w \/ (q \in Q \ P /\ q # w)
  BY <1>3
<1>14. kids' \in [R -> Seq(Asked)]
  <2>1. \A q \in R : kids'[q] \in Seq(Asked)
    BY <1>2, <1>3, <1>10, <1>11, <1>12, <1>13
  <2> QED
    BY <1>3, <2>1
<1>15. R \subseteq Seq(Asked) /\ IsFiniteSet(R) /\ <<>> \in R
  BY <1>2, <1>3, <1>4, FS_Union
<1>16. ASSUME NEW q \in R, q # <<>>
       PROVE  Front(q) \in R
  <2>1. CASE q \in P
    BY <1>2, <1>3, <1>16, <2>1
  <2>2. CASE q \in Q
    <3>1. q \in Seq(Asked) /\ IsPrefix(q, w) /\ Front(q) \in Seq(Asked) /\ IsPrefix(Front(q), q)
      BY <1>4, <1>16, <2>2, PrefixFacts, FrontLast
    <3>2. IsPrefix(Front(q), w)
      BY <3>1, PrefixChain
    <3> QED
      BY <1>3, <1>4, <3>1, <3>2
  <2> QED
    BY <1>3, <2>1, <2>2
<1>17. ASSUME NEW q \in R, NEW e \in Asked
       PROVE  Append(q, e) \in R <=> e \in ToSet(kids'[q])
  <2>1. q \in Seq(Asked) /\ Append(q, e) \in Seq(Asked)
        /\ Len(Append(q, e)) = Len(q) + 1 /\ Len(q) \in Nat
        /\ Front(Append(q, e)) = q /\ Append(q, e) # <<>>
    BY <1>15, AppendIs, LenProperties
  <2>2. Append(q, e) \in R <=> Append(q, e) \in P \/ Append(q, e) \in Q
    BY <1>3
  <2>3. q \in P => (Append(q, e) \in P <=> e \in ToSet(kids[q]))
    BY <1>2
  <2>4. q \notin P => Append(q, e) \notin P
    BY <1>2, <2>1
  <2>5. Append(q, e) \in Q <=> q \in Q /\ Len(q) < Len(w) /\ w[Len(q) + 1] = e
    BY <1>9, <2>1
  <2>6. CASE q = p
    <3>1. p \in Q
      BY <1>1, <1>4
    <3> QED
      BY <1>1, <1>8, <1>10, <2>2, <2>3, <2>5, <2>6, <3>1 DEF c
  <2>7. CASE q \in P \ {p}
    <3>1. Append(q, e) \in Q => Append(q, e) \in P
      <4>1. SUFFICES ASSUME Append(q, e) \in Q PROVE Append(q, e) \in P
        OBVIOUS
      <4>2. q \in Q /\ Len(q) <= Len(p)
        BY <1>7, <2>5, <2>7, <4>1
      <4>3. Len(q) # Len(p)
        <5>1. IsPrefix(q, w) /\ IsPrefix(p, w)
          BY <1>1, <1>4, <2>1, <4>2
        <5>2. Len(q) = Len(p) => IsPrefix(q, p)
          BY <1>1, <1>8, <2>1, <4>2, <5>1, PrefixChain
        <5> QED
          BY <1>1, <2>1, <2>7, <5>2, PrefixChain
      <4>4. Len(Append(q, e)) <= Len(p)
        BY <1>8, <2>1, <4>2, <4>3
      <4> QED
        BY <1>7, <4>1, <4>4
    <3>2. kids'[q] = kids[q]
      BY <1>3, <2>7
    <3> QED
      BY <2>2, <2>3, <2>7, <3>1, <3>2
  <2>8. CASE q = w
    BY <1>1, <1>8, <1>12, <2>2, <2>4, <2>5, <2>8
  <2>9. CASE q \in Q \ P /\ q # w
    BY <1>11, <2>2, <2>4, <2>5, <2>9
  <2> QED
    BY <1>13, <2>6, <2>7, <2>8, <2>9
<1>18. \A q \in R : \A j, k \in 1 .. Len(kids'[q]) : kids'[q][j] = kids'[q][k] => j = k
  <2> TAKE q \in R
  <2>1. CASE q = p
    BY <1>10, <2>1
  <2>2. CASE q \in P \ {p}
    BY <1>2, <1>3, <2>2
  <2>3. CASE q = w
    BY <1>12, <2>3
  <2>4. CASE q \in Q \ P /\ q # w
    BY <1>11, <2>4
  <2> QED
    BY <1>13, <2>1, <2>2, <2>3, <2>4
<1> QED
  BY <1>14, <1>15, <1>16, <1>17, <1>18 DEF TreeOK

LEMMA InsertInv ==
  ASSUME BuildInv, Insert
  PROVE  BuildInv' /\ done' = done + 1 /\ done + 1 \in 1 .. Len(list)
<1> DEFINE w == list[done + 1]
           p == Known(w)
<1>1. /\ list \in Lists /\ done \in Nat /\ done < Len(list) /\ Len(list) \in Nat
      /\ TreeOK /\ list' = list /\ done' = done + 1
      /\ trie_builder_insert(w, done + 1)
  BY WordsAre DEF BuildInv, Insert
<1>2. done + 1 \in 1 .. Len(list) /\ done' \in 0 .. Len(list)
  BY <1>1
<1>3. w \in Seq(Asked) /\ w # <<>>
  BY <1>1, <1>2, WordsAre
<1>4. Paths \subseteq Seq(Asked) /\ \A q \in Paths : q # <<>> => Front(q) \in Paths
  BY <1>1 DEF TreeOK
<1>5. \A j \in 1 .. done : list[j] \in Seq(Asked)
  BY <1>1, <1>2, WordsAre
<1>6. /\ DOMAIN data \subseteq Paths \ {<<>>}
      /\ \A q \in DOMAIN data : data[q] \in 1 .. done /\ list[data[q]] = q /\ ~ Hidden(data[q])
      /\ \A j \in 1 .. done : list[j] \in Paths /\ (list[j] \in DOMAIN data \/ Hidden(j))
      /\ \A q \in Paths : q = <<>> \/ \E j \in 1 .. done : IsPrefix(q, list[j])
  BY DEF BuildInv, WordsOK
<1>7. \A j : Hidden(j)' <=> Hidden(j)
  BY <1>1 DEF Hidden
<1>8. \A j \in 1 .. done' : j \in 1 .. done \/ j = done + 1
  BY <1>1
<1>9. \A j \in 1 .. done : j \in 1 .. done'
  BY <1>1
<1>10. done + 1 \in 1 .. done'
  BY <1>1
\* What is a path already is the beginning of an earlier word.
<1>11. w \in Paths <=> Hidden(done + 1)
  <2>1. Hidden(done + 1) <=> \E j \in 1 .. done : IsPrefix(w, list[j])
    <3>1. (done + 1) - 1 = done
      BY <1>1
    <3> QED
      BY <3>1 DEF Hidden
  <2>2. w \in Paths => \E j \in 1 .. done : IsPrefix(w, list[j])
    BY <1>3, <1>6
  <2>3. ASSUME NEW j \in 1 .. done, IsPrefix(w, list[j])
        PROVE  w \in Paths
    <3>1. list[j] \in Paths
      BY <1>6
    <3> HIDE DEF w
    <3> QED
      BY <1>3, <1>4, <2>3, <3>1, BeginsInside
  <2> QED
    BY <2>1, <2>2, <2>3
<1>12. CASE p = w
  <2>1. kids' = kids /\ data' = data /\ w \in Paths
    BY <1>1, <1>3, <1>12, KnownIs DEF trie_builder_insert
  <2>2. TreeOK'
    BY <1>1, <2>1 DEF TreeOK, Paths
  <2>3. Paths' = Paths /\ (DOMAIN data)' = DOMAIN data
    BY <2>1 DEF Paths
  <2>4. (DOMAIN data \subseteq Paths \ {<<>>})'
    BY <1>6, <2>3
  <2>5. (\A q \in DOMAIN data : data[q] \in 1 .. done /\ list[data[q]] = q /\ ~ Hidden(data[q]))'
    BY <1>1, <1>6, <1>7, <1>9, <2>1
  <2>6. (\A j \in 1 .. done : list[j] \in Paths /\ (list[j] \in DOMAIN data \/ Hidden(j)))'
    <3> SUFFICES ASSUME NEW j \in 1 .. done'
                 PROVE  list[j] \in Paths /\ (list[j] \in DOMAIN data \/ Hidden(j))
      BY <1>1, <1>7, <2>1, <2>3
    <3>1. CASE j = done + 1
      BY <1>11, <2>1, <3>1
    <3>2. CASE j \in 1 .. done
      BY <1>6, <3>2
    <3> QED
      BY <1>8, <3>1, <3>2
  <2>7. (\A q \in Paths : q = <<>> \/ \E j \in 1 .. done : IsPrefix(q, list[j]))'
    BY <1>1, <1>6, <1>9, <2>3
  <2>8. WordsOK'
    BY <2>4, <2>5, <2>6, <2>7 DEF WordsOK
  <2> QED
    BY <1>1, <1>2, <2>2, <2>8 DEF BuildInv
<1>13. CASE p # w
  <2>1. /\ Paths' = Paths \cup Prefixes(w) /\ w \notin Paths /\ data' = With(data, w, done + 1)
        /\ TreeOK'
    BY <1>1, <1>3, <1>13, InsertKids, InsertTree
  <2>2. \A q \in Seq(Asked) : q \in Prefixes(w) <=> IsPrefix(q, w)
    BY <1>3, PrefixesAre
  <2>3. Prefixes(w) \subseteq Seq(Asked) /\ w \in Prefixes(w)
    BY <1>3, <2>2, PrefixesAre, PrefixFacts
  <2> HIDE DEF w
  <2>4. /\ DOMAIN data' = DOMAIN data \cup {w}
        /\ data'[w] = done + 1
        /\ \A q \in DOMAIN data : q # w => data'[q] = data[q]
    BY <2>1 DEF With
  <2>5. w \notin DOMAIN data
    BY <1>6, <2>1
  <2>6. DOMAIN data' \subseteq Paths' \ {<<>>}
    BY <1>3, <1>6, <2>1, <2>3, <2>4
  <2>7. ASSUME NEW q \in DOMAIN data'
        PROVE  data'[q] \in 1 .. done' /\ list[data'[q]] = q /\ ~ Hidden(data'[q])
    <3>1. CASE q = w
      BY <1>10, <1>11, <2>1, <2>4, <3>1 DEF w
    <3>2. CASE q \in DOMAIN data /\ q # w
      BY <1>6, <1>9, <2>4, <3>2
    <3> QED
      BY <2>4, <3>1, <3>2
  <2>8. ASSUME NEW j \in 1 .. done'
        PROVE  list[j] \in Paths' /\ (list[j] \in DOMAIN data' \/ Hidden(j))
    <3>1. CASE j = done + 1
      BY <2>1, <2>3, <2>4, <3>1 DEF w
    <3>2. CASE j \in 1 .. done
      BY <1>6, <2>1, <2>4, <3>2
    <3> QED
      BY <1>8, <3>1, <3>2
  <2>9. ASSUME NEW q \in Paths'
        PROVE  q = <<>> \/ \E j \in 1 .. done' : IsPrefix(q, list[j])
    <3>1. CASE q \in Paths
      BY <1>6, <1>9, <3>1
    <3>2. CASE q \in Prefixes(w)
      <4>1. IsPrefix(q, w)
        BY <2>2, <2>3, <3>2
      <4> QED
        BY <1>10, <4>1 DEF w
    <3> QED
      BY <2>1, <3>1, <3>2
  <2>10. WordsOK'
    <3>1. (\A q \in DOMAIN data : data[q] \in 1 .. done /\ list[data[q]] = q /\ ~ Hidden(data[q]))'
      BY <1>1, <1>7, <2>7
    <3>2. (\A j \in 1 .. done : list[j] \in Paths /\ (list[j] \in DOMAIN data \/ Hidden(j)))'
      BY <1>1, <1>7, <2>8
    <3>3. (\A q \in Paths : q = <<>> \/ \E j \in 1 .. done : IsPrefix(q, list[j]))'
      BY <1>1, <2>9
    <3> QED
      BY <2>6, <3>1, <3>2, <3>3 DEF WordsOK
  <2> QED
    BY <1>1, <1>2, <2>1, <2>10 DEF BuildInv
<1> QED
  BY <1>1, <1>2, <1>12, <1>13

------------------------------------------------------------------------------
(* The layout *)

LEMMA Branches ==
  ASSUME BuildInv, NEW p \in Paths
  PROVE  /\ p \in Seq(Asked) /\ kids[p] \in Seq(Asked)
         /\ NextKeys(p) \in SUBSET Asked /\ TermKeys(p) \in SUBSET Asked
         /\ KeySet(p, NextKeys(p)) = Keyed(NextKeys(p))
         /\ KeySet(p, TermKeys(p)) = Keyed(TermKeys(p))
         /\ \A c \in Asked : c \in NextKeys(p) <=> Append(p, c) \in Paths /\ Inner(Append(p, c))
         /\ \A c \in Asked : c \in TermKeys(p) <=> Append(p, c) \in DOMAIN data
<1>1. p \in Seq(Asked) /\ kids[p] \in Seq(Asked)
      /\ \A c \in Asked : Append(p, c) \in Paths <=> c \in ToSet(kids[p])
  BY DEF BuildInv, TreeOK
<1>2. NextKeys(p) \in SUBSET ToSet(kids[p]) /\ TermKeys(p) \in SUBSET ToSet(kids[p])
  BY DEF NextKeys, TermKeys
<1>3. DOMAIN data \subseteq Paths
  BY DEF BuildInv, WordsOK
<1> HIDE DEF Paths
<1>4. /\ NextKeys(p) \in SUBSET Asked /\ TermKeys(p) \in SUBSET Asked
      /\ KeySet(p, NextKeys(p)) = Keyed(NextKeys(p))
      /\ KeySet(p, TermKeys(p)) = Keyed(TermKeys(p))
  <2> DEFINE C == NextKeys(p)
             D == TermKeys(p)
  <2>1. C \in SUBSET ToSet(kids[p]) /\ D \in SUBSET ToSet(kids[p])
    BY <1>2
  <2> HIDE DEF C, D
  <2>2. C \in SUBSET Asked /\ KeySet(p, C) = Keyed(C)
    BY <1>1, <2>1, KeySetIs
  <2>3. D \in SUBSET Asked /\ KeySet(p, D) = Keyed(D)
    BY <1>1, <2>1, KeySetIs
  <2> QED
    BY <2>2, <2>3 DEF C, D
<1>5. ASSUME NEW c \in Asked
      PROVE  c \in NextKeys(p) <=> Append(p, c) \in Paths /\ Inner(Append(p, c))
  BY <1>1 DEF NextKeys
<1>6. ASSUME NEW c \in Asked
      PROVE  c \in TermKeys(p) <=> Append(p, c) \in DOMAIN data
  BY <1>1, <1>3 DEF TermKeys
<1> QED
  BY <1>1, <1>4, <1>5, <1>6

LEMMA ParentOf ==
  ASSUME BuildInv, NEW q \in Paths, q # <<>>
  PROVE  /\ q \in Seq(Asked) /\ Front(q) \in Paths /\ Last(q) \in Asked
         /\ Append(Front(q), Last(q)) = q
         /\ Last(q) \in ToSet(kids[Front(q)]) /\ Inner(Front(q))
         /\ Inner(q) => Last(q) \in NextKeys(Front(q))
         /\ q \in DOMAIN data => Last(q) \in TermKeys(Front(q))
<1>1. q \in Seq(Asked) /\ Front(q) \in Paths
  BY DEF BuildInv, TreeOK
<1> DEFINE f == Front(q)
           c == Last(q)
<1>2. f \in Paths /\ c \in Asked /\ Append(f, c) = q
  BY <1>1, FrontLast
<1> HIDE DEF f, c
<1>3. /\ c \in NextKeys(f) <=> Append(f, c) \in Paths /\ Inner(Append(f, c))
      /\ c \in TermKeys(f) <=> Append(f, c) \in DOMAIN data
      /\ kids[f] \in Seq(Asked)
  BY <1>2, Branches
<1>4. c \in ToSet(kids[f])
  BY <1>2 DEF BuildInv, TreeOK
<1>5. Inner(f)
  <2>1. kids[f] # <<>>
    BY <1>4 DEF ToSet
  <2> QED
    BY <2>1 DEF Inner
<1> QED
  BY <1>1, <1>2, <1>3, <1>4, <1>5 DEF f, c

\* Nodes and words have their slots behind their parent.
LEMMA ChildrenOf ==
  ASSUME BuildInv, NEW p \in Paths
  PROVE  /\ Linked({p}) = {Append(p, c) : c \in NextKeys(p)}
         /\ Ended({p}) = {Append(p, c) : c \in TermKeys(p)}
         /\ Cardinality(Linked({p})) = Cardinality(NextKeys(p))
         /\ Cardinality(Ended({p})) = Cardinality(TermKeys(p))
<1> DEFINE C == NextKeys(p)
           D == TermKeys(p)
           linked == {Append(p, c) : c \in C}
           ended == {Append(p, c) : c \in D}
<1>1. /\ p \in Seq(Asked) /\ C \in SUBSET Asked /\ D \in SUBSET Asked
      /\ \A c \in Asked : c \in C <=> Append(p, c) \in Paths /\ Inner(Append(p, c))
      /\ \A c \in Asked : c \in D <=> Append(p, c) \in DOMAIN data
  BY Branches
<1>2. DOMAIN data \subseteq Paths \ {<<>>}
  BY DEF BuildInv, WordsOK
<1>3. \A c \in Asked : Append(p, c) # <<>> /\ Front(Append(p, c)) = p /\ Last(Append(p, c)) = c
  BY <1>1, AppendIs
<1>4. \A q \in Paths : q # <<>> => Last(q) \in Asked /\ Append(Front(q), Last(q)) = q
  BY ParentOf
<1> HIDE DEF C, D
<1>5. Linked({p}) = linked
  <2>1. \A q \in Linked({p}) : q \in linked
    <3> TAKE q \in Linked({p})
    <3>1. q \in Paths /\ q # <<>> /\ Inner(q) /\ Front(q) = p
      BY DEF Linked
    <3>2. Last(q) \in Asked /\ Append(p, Last(q)) = q
      BY <1>4, <3>1
    <3> QED
      BY <1>1, <3>1, <3>2
  <2>2. \A c \in C : Append(p, c) \in Linked({p})
    BY <1>1, <1>3 DEF Linked
  <2> QED
    BY <2>1, <2>2
<1>6. Ended({p}) = ended
  <2>1. \A q \in Ended({p}) : q \in ended
    <3> TAKE q \in Ended({p})
    <3>1. q \in DOMAIN data /\ q \in Paths /\ q # <<>> /\ Front(q) = p
      BY <1>2 DEF Ended
    <3>2. Last(q) \in Asked /\ Append(p, Last(q)) = q
      BY <1>4, <3>1
    <3> QED
      BY <1>1, <3>1, <3>2
  <2>2. \A c \in D : Append(p, c) \in Ended({p})
    BY <1>1, <1>3 DEF Ended
  <2> QED
    BY <2>1, <2>2
<1>7. ASSUME NEW X \in SUBSET Asked
      PROVE  Cardinality({Append(p, c) : c \in X}) = Cardinality(X)
  <2> DEFINE T == {Append(p, c) : c \in X}
             f == [c \in X |-> Append(p, c)]
  <2>1. f \in Surjection(X, T)
    BY DEF Surjection
  <2>2. \A c, d \in X : f[c] = f[d] => c = d
    <3>1. \A c, d \in X : Append(p, c) = Append(p, d) => c = d
      BY <1>3
    <3> QED
      BY <3>1
  <2>3. f \in Bijection(X, T)
    BY <2>1, <2>2 DEF Bijection, Injection, IsInjective, Surjection
  <2>4. IsFiniteSet(X)
    BY KeyedCount
  <2> HIDE DEF T, f
  <2>5. Cardinality(T) = Cardinality(X)
    BY <2>3, <2>4, FS_Bijection DEF ExistsBijection
  <2> QED
    BY <2>5 DEF T
<1> QED
  BY <1>1, <1>5, <1>6, <1>7 DEF C, D

\* The slots a node is given: first those of its nodes, then those of its words.
LEMMA SlotsGiven ==
  ASSUME BuildInv, apos \in Nat, NEW p \in Paths
  PROVE  LET n == Cardinality(NextKeys(p))
             t == Cardinality(TermKeys(p))
             link(c) == NodeOf(p).next + Rank(NodeOf(p).keys, c)
             term(c) == NodeOf(p).data + Rank(NodeOf(p).terms, c)
         IN  /\ n \in Nat /\ t \in Nat /\ AposAfter(p) = apos + n + t
             /\ \A c \in NextKeys(p) : link(c) \in apos .. apos + n - 1
             /\ \A c \in TermKeys(p) : term(c) \in apos + n .. apos + n + t - 1
             /\ \A c, d \in NextKeys(p) : link(c) = link(d) => c = d
             /\ \A c, d \in TermKeys(p) : term(c) = term(d) => c = d
<1> DEFINE C == NextKeys(p)
           D == TermKeys(p)
           n == Cardinality(C)
           t == Cardinality(D)
<1>1. C \in SUBSET Asked /\ D \in SUBSET Asked
      /\ KeySet(p, C) = Keyed(C) /\ KeySet(p, D) = Keyed(D)
  BY Branches
<1>2. NodeOf(p).keys = Keyed(C) /\ NodeOf(p).terms = Keyed(D)
      /\ NodeOf(p).next = (IF C = {} THEN 0 ELSE apos)
      /\ NodeOf(p).data = (IF D = {} THEN 0 ELSE apos + n)
  BY <1>1, Zenon DEF NodeOf
<1>3. AposAfter(p) = apos + n + t
  BY DEF AposAfter
<1> HIDE DEF C, D
<1>4. n \in Nat /\ t \in Nat
  BY <1>1, KeyedCount
<1>5. \A c \in C : Rank(Keyed(C), c) \in 0 .. n - 1 /\ \A d \in C : Rank(Keyed(C), c) = Rank(Keyed(C), d) => c = d
  BY <1>1, KeyedRank
<1>6. \A c \in D : Rank(Keyed(D), c) \in 0 .. t - 1 /\ \A d \in D : Rank(Keyed(D), c) = Rank(Keyed(D), d) => c = d
  BY <1>1, KeyedRank
<1> DEFINE rankC(c) == Rank(Keyed(C), c)
           rankD(c) == Rank(Keyed(D), c)
           link(c) == NodeOf(p).next + Rank(NodeOf(p).keys, c)
           term(c) == NodeOf(p).data + Rank(NodeOf(p).terms, c)
<1>7. \A c \in C : link(c) = apos + rankC(c)
  BY <1>2, Zenon
<1>8. \A c \in D : term(c) = apos + n + rankD(c)
  BY <1>2, Zenon
<1> HIDE DEF n, t, rankC, rankD, link, term
<1>9. \A c \in C : rankC(c) \in 0 .. n - 1 /\ \A d \in C : rankC(c) = rankC(d) => c = d
  BY <1>5 DEF rankC
<1>10. \A c \in D : rankD(c) \in 0 .. t - 1 /\ \A d \in D : rankD(c) = rankD(d) => c = d
  BY <1>6 DEF rankD
<1>11. \A c \in C : link(c) \in apos .. apos + n - 1
  BY <1>4, <1>7, <1>9
<1>12. \A c \in D : term(c) \in apos + n .. apos + n + t - 1
  BY <1>4, <1>8, <1>10
<1>13. \A c, d \in C : link(c) = link(d) => c = d
  BY <1>4, <1>7, <1>9
<1>14. \A c, d \in D : term(c) = term(d) => c = d
  BY <1>4, <1>8, <1>10
<1> QED
  BY <1>3, <1>4, <1>11, <1>12, <1>13, <1>14, Zenon DEF C, D, n, t, link, term

LEMMA SameTree ==
  ASSUME kids' = kids, data' = data, NEW p
  PROVE  /\ Paths' = Paths /\ (DOMAIN data)' = DOMAIN data
         /\ Inner(p)' <=> Inner(p)
         /\ NextKeys(p)' = NextKeys(p) /\ TermKeys(p)' = TermKeys(p)
<1>1. NextKeys(p)' = NextKeys(p)
  BY DEF NextKeys, Inner
<1>2. TermKeys(p)' = TermKeys(p)
  BY DEF TermKeys
<1> QED
  BY <1>1, <1>2 DEF Paths, Inner

LEMMA LinkedAre ==
  ASSUME NEW N, NEW p
  PROVE  /\ Linked(N \cup {p}) = Linked(N) \cup Linked({p})
         /\ Ended(N \cup {p}) = Ended(N) \cup Ended({p})
         /\ p \notin N => Linked(N) \cap Linked({p}) = {} /\ Ended(N) \cap Ended({p}) = {}
<1>1. Linked(N \cup {p}) = Linked(N) \cup Linked({p})
  BY DEF Linked
<1>2. Ended(N \cup {p}) = Ended(N) \cup Ended({p})
  BY DEF Ended
<1>3. p \notin N => Linked(N) \cap Linked({p}) = {} /\ Ended(N) \cap Ended({p}) = {}
  BY DEF Linked, Ended
<1> QED
  BY <1>1, <1>2, <1>3

LEMMA LinkedFinite ==
  ASSUME BuildInv, NEW N
  PROVE  /\ IsFiniteSet(Linked(N)) /\ IsFiniteSet(Ended(N))
         /\ Cardinality(Linked(N)) \in Nat /\ Cardinality(Ended(N)) \in Nat
<1>1. IsFiniteSet(Paths) /\ DOMAIN data \subseteq Paths
  BY DEF BuildInv, TreeOK, WordsOK
<1>2. Linked(N) \in SUBSET Paths /\ Ended(N) \in SUBSET Paths
  BY <1>1 DEF Linked, Ended
<1> HIDE DEF Paths
<1>3. IsFiniteSet(Linked(N)) /\ IsFiniteSet(Ended(N))
  BY <1>1, <1>2, FS_Subset
<1> QED
  BY <1>3, FS_CardinalityType

\* A call of gbuf_fill: one node more, and the slots of what is behind it.
LEMMA CallNodes ==
  ASSUME BuildInv, NEW g \in Nat, NodesBelow(g), apos \in Nat,
         NEW p \in Paths \ Nodes, Call(p, g), kids' = kids, data' = data
  PROVE  /\ Nodes' = Nodes \cup {p}
         /\ number'[p] = g /\ \A q \in Nodes : number'[q] = number[q] /\ NodeAt(q)' = NodeAt(q)
         /\ NodeAt(p)' = NodeOf(p)
         /\ NodesBelow(g + 1)'
<1>1. /\ number' = With(number, p, g) /\ gbuf' = With(gbuf, g, NodeOf(p))
  BY DEF Call
<1>2. /\ number \in [Nodes -> 0 .. g - 1] /\ DOMAIN gbuf = 0 .. g - 1
      /\ \A n \in 0 .. g - 1 : \E q \in Nodes : number[q] = n
      /\ \A q, r \in Nodes : number[q] = number[r] => q = r
      /\ Nodes \subseteq Paths
      /\ \A q \in Nodes : NodeAt(q).keys = Keyed(NextKeys(q)) /\ NodeAt(q).terms = Keyed(TermKeys(q))
  BY DEF NodesBelow
<1>3. Nodes' = Nodes \cup {p}
  BY <1>1 DEF Nodes, With
<1>4. number' = [q \in Nodes' |-> number'[q]] /\ number'[p] = g /\ \A q \in Nodes : number'[q] = number[q]
  BY <1>1, <1>3 DEF With, Nodes
<1>5. DOMAIN gbuf' = 0 .. g /\ gbuf'[g] = NodeOf(p) /\ \A n \in 0 .. g - 1 : gbuf'[n] = gbuf[n]
  <2>1. DOMAIN gbuf' = (0 .. g - 1) \cup {g}
    BY <1>1, <1>2 DEF With
  <2>2. (0 .. g - 1) \cup {g} = 0 .. g
    OBVIOUS
  <2>3. \A n \in 0 .. g - 1 : n # g
    OBVIOUS
  <2> QED
    BY <1>1, <1>2, <2>1, <2>2, <2>3 DEF With
<1>6. \A q \in Nodes : NodeAt(q)' = NodeAt(q)
  <2> TAKE q \in Nodes
  <2>1. number[q] \in 0 .. g - 1
    BY <1>2
  <2> QED
    BY <1>4, <1>5, <2>1 DEF NodeAt
<1>7. NodeAt(p)' = NodeOf(p)
  BY <1>4, <1>5 DEF NodeAt
<1>8. \A q : NextKeys(q)' = NextKeys(q) /\ TermKeys(q)' = TermKeys(q)
  BY SameTree
<1>9. NodeOf(p).keys = Keyed(NextKeys(p)) /\ NodeOf(p).terms = Keyed(TermKeys(p))
  <2>1. KeySet(p, NextKeys(p)) = Keyed(NextKeys(p)) /\ KeySet(p, TermKeys(p)) = Keyed(TermKeys(p))
    BY Branches
  <2> QED
    BY <2>1, Zenon DEF NodeOf
<1>10. \A n \in 0 .. g : n \in 0 .. g - 1 \/ n = g
  OBVIOUS
<1>11. \A n \in 0 .. g - 1 : n \in 0 .. g /\ n # g
  OBVIOUS
<1> DEFINE h == g + 1
<1>12. h - 1 = g
  OBVIOUS
<1> HIDE DEF h
<1>13. NodesBelow(h)'
  <2>1. number' \in [Nodes' -> 0 .. g]
    <3>1. \A q \in Nodes' : number'[q] \in 0 .. g
      <4> TAKE q \in Nodes'
      <4>1. CASE q = p
        BY <1>4, <4>1
      <4>2. CASE q \in Nodes
        <5>1. number[q] \in 0 .. g - 1
          BY <1>2, <4>2
        <5> QED
          BY <1>4, <1>11, <4>2, <5>1
      <4> QED
        BY <1>3, <4>1, <4>2
    <3> QED
      BY <1>4, <3>1
  <2>2. \A n \in 0 .. g : \E q \in Nodes' : number'[q] = n
    BY <1>2, <1>3, <1>4, <1>10
  <2>3. \A q, r \in Nodes' : number'[q] = number'[r] => q = r
    <3>1. \A q \in Nodes : number'[q] = number[q] /\ number[q] # g
      <4>1. \A q \in Nodes : number[q] \in 0 .. g - 1
        BY <1>2
      <4> QED
        BY <1>4, <1>11, <4>1
    <3> QED
      BY <1>2, <1>3, <1>4, <3>1
  <2>4. Nodes' \subseteq Paths'
    BY <1>2, <1>3, SameTree
  <2>5. \A q \in Nodes' : NodeAt(q)'.keys = Keyed(NextKeys(q)') /\ NodeAt(q)'.terms = Keyed(TermKeys(q)')
    <3> HIDE DEF NodeAt
    <3> QED
      BY <1>2, <1>3, <1>6, <1>7, <1>8, <1>9
  <2> QED
    BY <1>5, <1>12, <2>1, <2>2, <2>3, <2>4, <2>5 DEF NodesBelow
<1> QED
  BY <1>3, <1>4, <1>6, <1>7, <1>13 DEF h

LEMMA CallSlots ==
  ASSUME BuildInv, NEW g \in Nat, NodesBelow(g), SlotsOK,
         NEW p \in Paths \ Nodes, Call(p, g), kids' = kids, data' = data
  PROVE  /\ SlotsOK'
         /\ Linked(Nodes)' = Linked(Nodes) \cup Linked({p})
         /\ Ended(Nodes)' = Ended(Nodes) \cup Ended({p})
         /\ \A q \in Linked(Nodes) : LinkSlot(q)' = LinkSlot(q)
         /\ \A q \in Ended(Nodes) : TermSlot(q)' = TermSlot(q)
<1> DEFINE n == Cardinality(NextKeys(p))
           t == Cardinality(TermKeys(p))
           link(c) == NodeOf(p).next + Rank(NodeOf(p).keys, c)
           term(c) == NodeOf(p).data + Rank(NodeOf(p).terms, c)
           a == apos
           b == apos'
           L == Linked(Nodes)
           E == Ended(Nodes)
           M == Linked({p})
           F == Ended({p})
<1>1. /\ a = Cardinality(L) + Cardinality(E)
      /\ \A q \in L : LinkSlot(q) \in 0 .. a - 1
      /\ \A q \in E : TermSlot(q) \in 0 .. a - 1
      /\ \A q, r \in L : LinkSlot(q) = LinkSlot(r) => q = r
      /\ \A q, r \in E : TermSlot(q) = TermSlot(r) => q = r
      /\ \A q \in L, r \in E : LinkSlot(q) # TermSlot(r)
  BY DEF SlotsOK
<1>2. /\ IsFiniteSet(L) /\ IsFiniteSet(E) /\ IsFiniteSet(M) /\ IsFiniteSet(F)
      /\ Cardinality(L) \in Nat /\ Cardinality(E) \in Nat
  BY LinkedFinite
<1>3. a \in Nat
  BY <1>1, <1>2
<1>4. /\ Nodes' = Nodes \cup {p}
      /\ \A q \in Nodes : NodeAt(q)' = NodeAt(q)
      /\ NodeAt(p)' = NodeOf(p)
  BY <1>3, CallNodes
<1>5. /\ n \in Nat /\ t \in Nat /\ b = a + n + t
      /\ \A c \in NextKeys(p) : link(c) \in a .. a + n - 1
      /\ \A c \in TermKeys(p) : term(c) \in a + n .. a + n + t - 1
      /\ \A c, d \in NextKeys(p) : link(c) = link(d) => c = d
      /\ \A c, d \in TermKeys(p) : term(c) = term(d) => c = d
  BY <1>3, SlotsGiven DEF Call
<1>6. Linked(Nodes)' = L \cup M /\ Ended(Nodes)' = E \cup F /\ L \cap M = {} /\ E \cap F = {}
  <2>1. Linked(Nodes)' = Linked(Nodes \cup {p})
    BY <1>4 DEF Linked, Inner, Paths
  <2>2. Ended(Nodes)' = Ended(Nodes \cup {p})
    BY <1>4 DEF Ended
  <2> QED
    BY <2>1, <2>2, LinkedAre
<1>7. Cardinality(M) = n /\ Cardinality(F) = t
  BY ChildrenOf
<1>8. /\ \A q \in L : Front(q) \in Nodes
      /\ \A q \in E : Front(q) \in Nodes
      /\ \A q \in M : Front(q) = p /\ Last(q) \in NextKeys(p) /\ q = Append(p, Last(q))
      /\ \A q \in F : Front(q) = p /\ Last(q) \in TermKeys(p) /\ q = Append(p, Last(q))
  <2>1. \A q \in L : Front(q) \in Nodes
    BY DEF Linked
  <2>2. \A q \in E : Front(q) \in Nodes
    BY DEF Ended
  <2>3. \A q \in M : q \in Paths /\ q # <<>> /\ Inner(q) /\ Front(q) = p
    BY DEF Linked
  <2>4. \A q \in F : q \in Paths /\ q # <<>> /\ q \in DOMAIN data /\ Front(q) = p
    BY DEF Ended, BuildInv, WordsOK
  <2> QED
    BY <2>1, <2>2, <2>3, <2>4, ParentOf
<1>9. \A q \in L : LinkSlot(q)' = LinkSlot(q)
  BY <1>4, <1>8 DEF LinkSlot
<1>10. \A q \in E : TermSlot(q)' = TermSlot(q)
  BY <1>4, <1>8 DEF TermSlot
<1>11. \A q \in M : LinkSlot(q)' = link(Last(q))
  BY <1>4, <1>8 DEF LinkSlot
<1>12. \A q \in F : TermSlot(q)' = term(Last(q))
  BY <1>4, <1>8 DEF TermSlot
<1>13. b = Cardinality(L \cup M) + Cardinality(E \cup F)
  <2> HIDE DEF L, E, M, F, n, t, a, b
  <2>1. Cardinality(L \cap M) = 0 /\ Cardinality(E \cap F) = 0
    BY <1>6, FS_EmptySet
  <2>2. Cardinality(L \cup M) = Cardinality(L) + Cardinality(M) - Cardinality(L \cap M)
    BY <1>2, FS_Union
  <2>3. Cardinality(E \cup F) = Cardinality(E) + Cardinality(F) - Cardinality(E \cap F)
    BY <1>2, FS_Union
  <2> QED
    BY <1>1, <1>2, <1>5, <1>7, <2>1, <2>2, <2>3
<1> DEFINE X == Linked(Nodes)'
           Y == Ended(Nodes)'
           ls(q) == LinkSlot(q)'
           ts(q) == TermSlot(q)'
<1>14. X = L \cup M /\ Y = E \cup F
  BY <1>6
<1>15. /\ \A q \in L : ls(q) = LinkSlot(q) /\ ls(q) \in 0 .. a - 1
       /\ \A q \in E : ts(q) = TermSlot(q) /\ ts(q) \in 0 .. a - 1
  BY <1>1, <1>9, <1>10
<1>16. /\ \A q \in M : ls(q) \in a .. a + n - 1
       /\ \A q \in F : ts(q) \in a + n .. a + n + t - 1
  <2>1. /\ \A q \in M : Last(q) \in NextKeys(p) /\ ls(q) = link(Last(q))
        /\ \A q \in F : Last(q) \in TermKeys(p) /\ ts(q) = term(Last(q))
    BY <1>8, <1>11, <1>12
  <2> HIDE DEF n, t, link, term, a, b, M, F, ls, ts
  <2> QED
    BY <1>5, <2>1
<1>17. /\ \A q, r \in M : ls(q) = ls(r) => q = r
       /\ \A q, r \in F : ts(q) = ts(r) => q = r
  <2>1. \A q, r \in M : ls(q) = ls(r) => Last(q) = Last(r)
    BY <1>5, <1>8, <1>11
  <2>2. \A q, r \in F : ts(q) = ts(r) => Last(q) = Last(r)
    BY <1>5, <1>8, <1>12
  <2> QED
    BY <1>8, <2>1, <2>2
<1> HIDE DEF n, t, link, term, a, b, L, E, M, F, X, Y, ls, ts
<1>18. \A q \in X : ls(q) \in 0 .. b - 1
  BY <1>3, <1>5, <1>14, <1>15, <1>16
<1>19. \A q \in Y : ts(q) \in 0 .. b - 1
  BY <1>3, <1>5, <1>14, <1>15, <1>16
<1>20. \A q \in L : \A r \in M : ls(q) # ls(r)
  BY <1>3, <1>5, <1>15, <1>16
<1>21. \A q \in E : \A r \in F : ts(q) # ts(r)
  BY <1>3, <1>5, <1>15, <1>16
<1>22. \A q, r \in X : ls(q) = ls(r) => q = r
  BY <1>1, <1>14, <1>15, <1>17, <1>20
<1>23. \A q, r \in Y : ts(q) = ts(r) => q = r
  BY <1>1, <1>14, <1>15, <1>17, <1>21
<1>24. \A q \in L, r \in F : ls(q) # ts(r)
  BY <1>3, <1>5, <1>15, <1>16
<1>25. \A q \in M, r \in E : ls(q) # ts(r)
  BY <1>3, <1>5, <1>15, <1>16
<1>26. \A q \in M, r \in F : ls(q) # ts(r)
  BY <1>3, <1>5, <1>16
<1>27. \A q \in X, r \in Y : ls(q) # ts(r)
  BY <1>1, <1>14, <1>15, <1>24, <1>25, <1>26
<1>28. SlotsOK'
  BY <1>13, <1>14, <1>18, <1>19, <1>22, <1>23, <1>27 DEF SlotsOK, X, Y, ls, ts, b
<1> QED
  BY <1>6, <1>9, <1>10, <1>28 DEF L, E, M, F

\* What the loop of gbuf_fill is at: entry e of p, whose key is c and path q.
EntryAt(p, e, c, q) ==
  /\ p = current /\ e = entry[p] /\ c = kids[p][e] /\ q = Append(p, c)
  /\ p \in Nodes /\ p \in Seq(Asked) /\ e \in 1 .. Len(kids[p]) /\ Len(kids[p]) \in Nat
  /\ c \in Asked /\ q \in Paths /\ q # <<>> /\ Front(q) = p /\ Last(q) = c
  /\ ~ Past(q)

LEMMA EntryIs ==
  ASSUME BuildInv, FillInv, entry[current] <= Len(kids[current])
  PROVE  \E p, e, c, q : EntryAt(p, e, c, q)
<1>1. PICK p : p = current
  OBVIOUS
<1>2. PICK e : e = entry[p]
  OBVIOUS
<1>3. p \in Nodes /\ p \in Paths
  BY <1>1 DEF FillInv, CallsOK, NodesOK, NodesBelow
<1>4. /\ p \in Seq(Asked) /\ kids[p] \in Seq(Asked)
      /\ \A j, k \in 1 .. Len(kids[p]) : kids[p][j] = kids[p][k] => j = k
      /\ \A c \in Asked : Append(p, c) \in Paths <=> c \in ToSet(kids[p])
  BY <1>3 DEF BuildInv, TreeOK
<1>5. Len(kids[p]) \in Nat
  BY <1>4, LenProperties
<1>6. e \in 1 .. Len(kids[p])
  <2>1. e \in 1 .. Len(kids[p]) + 1 /\ e <= Len(kids[p])
    BY <1>1, <1>2, <1>3 DEF FillInv, CallsOK
  <2> QED
    BY <1>5, <2>1
<1>7. PICK c : c = kids[p][e]
  OBVIOUS
<1>8. c \in Asked /\ c \in ToSet(kids[p])
  <2>1. DOMAIN kids[p] = 1 .. Len(kids[p]) /\ c \in Asked
    BY <1>4, <1>6, <1>7, LenProperties, ElementOfSeq
  <2> QED
    BY <1>6, <1>7, <2>1 DEF ToSet
<1>9. PICK q : q = Append(p, c)
  OBVIOUS
<1>10. q \in Paths /\ q # <<>> /\ Front(q) = p /\ Last(q) = c
  BY <1>4, <1>8, <1>9, AppendIs
<1>11. ~ Past(q)
  <2>1. \A j \in 1 .. e - 1 : j \in 1 .. Len(kids[p]) /\ j # e
    BY <1>5, <1>6
  <2>2. \A j \in 1 .. e - 1 : kids[p][j] # c
    BY <1>4, <1>6, <1>7, <2>1
  <2> QED
    BY <1>2, <1>10, <2>2 DEF Past
<1> QED
  BY <1>1, <1>2, <1>3, <1>4, <1>5, <1>6, <1>7, <1>8, <1>9, <1>10, <1>11 DEF EntryAt

\* The loop moves past q and nothing else.
LEMMA PastNext ==
  ASSUME BuildInv, NEW p, NEW e, NEW c, NEW q, EntryAt(p, e, c, q), kids' = kids,
         entry'[p] = e + 1, \A r \in Nodes \ {p} : entry'[r] = entry[r],
         NEW r \in Paths, r # <<>>, Front(r) \in Nodes
  PROVE  Past(r)' <=> Past(r) \/ r = q
<1>1. /\ e = entry[p] /\ c = kids[p][e] /\ q = Append(p, c) /\ e \in Nat /\ Front(q) = p /\ Last(q) = c
  BY DEF EntryAt
<1>2. Append(Front(r), Last(r)) = r
  BY ParentOf
<1>3. CASE Front(r) = p
  <2>1. Past(r)' <=> \E j \in 1 .. e : kids[p][j] = Last(r)
    <3>1. (e + 1) - 1 = e
      BY <1>1
    <3> QED
      BY <1>3, <3>1 DEF Past
  <2>2. Past(r) <=> \E j \in 1 .. e - 1 : kids[p][j] = Last(r)
    BY <1>1, <1>3 DEF Past
  <2>3. r = q <=> Last(r) = c
    BY <1>1, <1>2, <1>3
  <2>4. \A j \in 1 .. e : j \in 1 .. e - 1 \/ j = e
    BY <1>1
  <2>5. \A j \in 1 .. e - 1 : j \in 1 .. e
    BY <1>1
  <2>6. e \in 1 .. e
    BY DEF EntryAt
  <2> QED
    BY <1>1, <2>1, <2>2, <2>3, <2>4, <2>5, <2>6
<1>4. CASE Front(r) # p
  <2>1. entry'[Front(r)] = entry[Front(r)]
    BY <1>4
  <2>2. r # q
    BY <1>1, <1>4
  <2>3. Past(r)' <=> Past(r)
    BY <2>1 DEF Past
  <2> QED
    BY <2>2, <2>3
<1> QED
  BY <1>3, <1>4

\* The root.
LEMMA FillStart ==
  ASSUME BuildInv, Fill,
         gbuf = <<>>, aux = <<>>, number = <<>>, entry = <<>>, apos = 0
  PROVE  FillInv'
<1>1. /\ Call(<<>>, 0) /\ entry' = With(entry, <<>>, 1) /\ kids' = kids /\ data' = data /\ aux' = aux
  BY DEF Fill, buildVars
<1>2. PICK p : p = <<>>
  OBVIOUS
<1>3. PICK g : g = 0
  OBVIOUS
<1>4. g \in Nat /\ Call(p, g) /\ g - 1 = -1 /\ 0 .. g - 1 = {}
  BY <1>1, <1>2, <1>3
<1>5. p \in Paths /\ p \in Seq(Asked) /\ kids[p] \in Seq(Asked)
  BY <1>2 DEF BuildInv, TreeOK
<1>6. Nodes = {} /\ DOMAIN gbuf = {} /\ DOMAIN aux = {} /\ DOMAIN entry = {}
  BY DEF Nodes
<1>7. NodesBelow(g)
  <2>1. number \in [Nodes -> 0 .. g - 1]
    BY <1>6
  <2> QED
    BY <1>4, <1>6, <2>1 DEF NodesBelow
<1>8. Linked(Nodes) = {} /\ Ended(Nodes) = {}
  BY <1>6 DEF Linked, Ended
<1>9. SlotsOK
  <2>1. Cardinality({}) = 0
    BY FS_EmptySet
  <2> QED
    BY <1>8, <2>1 DEF SlotsOK
<1>10. /\ Nodes' = {p} /\ number'[p] = g /\ NodesBelow(g + 1)' /\ SlotsOK'
       /\ Linked(Nodes)' = Linked({p}) /\ Ended(Nodes)' = Ended({p})
  <2>1. p \in Paths \ Nodes /\ apos \in Nat
    BY <1>5, <1>6
  <2>2. Nodes' = Nodes \cup {p} /\ number'[p] = g /\ NodesBelow(g + 1)'
    BY <1>1, <1>4, <1>7, <2>1, CallNodes
  <2>3. SlotsOK' /\ Linked(Nodes)' = Linked(Nodes) \cup Linked({p}) /\ Ended(Nodes)' = Ended(Nodes) \cup Ended({p})
    BY <1>1, <1>4, <1>7, <1>9, <2>1, CallSlots
  <2> QED
    BY <1>6, <1>8, <2>2, <2>3
<1>11. gpos' = g /\ current' = p
  BY <1>4 DEF Call
<1>12. NodesOK'
  <2>1. NodesBelow(gpos + 1)'
    BY <1>10, <1>11 DEF NodesBelow
  <2> QED
    BY <1>2, <1>3, <1>4, <1>10, <1>11, <2>1 DEF NodesOK
<1>13. DOMAIN entry' = {p} /\ entry'[p] = 1
  BY <1>1, <1>2, <1>6 DEF With
<1>14. \A q \in Linked({p}) \cup Ended({p}) : Front(q) = p /\ q # p /\ ~ Past(q)'
  <2> TAKE q \in Linked({p}) \cup Ended({p})
  <2>1. Front(q) = p /\ q # p
    BY <1>2 DEF Linked, Ended, BuildInv, WordsOK
  <2>2. \A j \in 1 .. entry'[p] - 1 : FALSE
    BY <1>13
  <2> QED
    BY <2>1, <2>2 DEF Past
<1>15. CallsOK'
  <2>1. Len(kids'[p]) \in Nat
    BY <1>1, <1>5, LenProperties
  <2>2. 1 \in 1 .. Len(kids'[p]) + 1
    BY <2>1
  <2>3. IsPrefix(p, p)
    BY <1>5, PrefixFacts
  <2> QED
    BY <1>10, <1>11, <1>13, <1>14, <2>2, <2>3 DEF CallsOK
<1>16. WrittenOK'
  <2>1. DOMAIN aux' = {}
    BY <1>1, <1>6
  <2> QED
    BY <1>10, <1>14, <2>1 DEF WrittenOK
<1> QED
  BY <1>10, <1>12, <1>15, <1>16 DEF FillInv

\* A word of the entry is written to its slot.
Termed(p, c, q) ==
  IF q \in DOMAIN data THEN With(aux, NodeAt(p).data + Rank(NodeAt(p).terms, c), data[q]) ELSE aux

LEMMA FillEntryIs ==
  ASSUME FillEntry, NEW p, NEW e, NEW c, NEW q, EntryAt(p, e, c, q)
  PROVE  /\ kids' = kids /\ data' = data /\ buildVars' = buildVars
         /\ \/ /\ Inner(q) /\ Call(q, gpos + 1)
               /\ aux' = With(Termed(p, c, q), NodeAt(p).next + Rank(NodeAt(p).keys, c), gpos + 1)
               /\ entry' = With([entry EXCEPT ![p] = e + 1], q, 1)
            \/ /\ ~ Inner(q)
               /\ aux' = Termed(p, c, q)
               /\ entry' = [entry EXCEPT ![p] = e + 1]
               /\ UNCHANGED <<gbuf, gpos, apos, current, number>>
<1>1. p = current /\ e = entry[p] /\ c = kids[p][e] /\ q = Append(p, c)
  BY DEF EntryAt
<1>2. kids' = kids /\ data' = data /\ buildVars' = buildVars
  BY DEF FillEntry, buildVars
<1>3. \/ /\ Inner(q) /\ Call(q, gpos + 1)
         /\ aux' = With(Termed(p, c, q), NodeAt(p).next + Rank(NodeAt(p).keys, c), gpos + 1)
         /\ entry' = With([entry EXCEPT ![p] = e + 1], q, 1)
      \/ /\ ~ Inner(q)
         /\ aux' = Termed(p, c, q)
         /\ entry' = [entry EXCEPT ![p] = e + 1]
         /\ UNCHANGED <<gbuf, gpos, apos, current, number>>
  BY <1>1, Zenon DEF FillEntry, Termed, NodeAt
<1> QED
  BY <1>2, <1>3

\* What is written behind the entries the loops are past, and at q.
TermedOK(p, c, q) ==
  /\ Linked(Nodes) \subseteq Paths \ {<<>>} /\ Ended(Nodes) \subseteq Paths \ {<<>>}
  /\ \A r \in Linked(Nodes) \cup Ended(Nodes) : Front(r) \in Nodes
  /\ q \in Linked(Nodes) <=> Inner(q)
  /\ q \in Ended(Nodes) <=> q \in DOMAIN data
  /\ LinkSlot(q) = NodeAt(p).next + Rank(NodeAt(p).keys, c)
  /\ DOMAIN Termed(p, c, q) =
       {LinkSlot(r) : r \in {s \in Linked(Nodes) : Past(s)}}
         \cup {TermSlot(r) : r \in {s \in Ended(Nodes) : Past(s) \/ s = q}}
  /\ \A r \in Linked(Nodes) : Past(r) => Termed(p, c, q)[LinkSlot(r)] = number[r]
  /\ \A r \in Ended(Nodes) : Past(r) \/ r = q => Termed(p, c, q)[TermSlot(r)] = data[r]

LEMMA TermedIs ==
  ASSUME BuildInv, FillInv, NEW p, NEW e, NEW c, NEW q, EntryAt(p, e, c, q)
  PROVE  TermedOK(p, c, q)
<1> DEFINE L == Linked(Nodes)
           E == Ended(Nodes)
           T == Termed(p, c, q)
<1>1. /\ p \in Nodes /\ q \in Paths /\ q # <<>> /\ Front(q) = p /\ Last(q) = c /\ ~ Past(q)
  BY DEF EntryAt
<1>2. DOMAIN data \subseteq Paths \ {<<>>}
  BY DEF BuildInv, WordsOK
<1>3. L \subseteq Paths \ {<<>>} /\ E \subseteq Paths \ {<<>>} /\ \A r \in L \cup E : Front(r) \in Nodes
  BY <1>2 DEF Linked, Ended
<1>4. q \in L <=> Inner(q)
  BY <1>1 DEF Linked
<1>5. q \in E <=> q \in DOMAIN data
  BY <1>1 DEF Ended
<1>6. LinkSlot(q) = NodeAt(p).next + Rank(NodeAt(p).keys, c)
      /\ TermSlot(q) = NodeAt(p).data + Rank(NodeAt(p).terms, c)
  BY <1>1, Zenon DEF LinkSlot, TermSlot
<1>7. T = IF q \in E THEN With(aux, TermSlot(q), data[q]) ELSE aux
  BY <1>5, <1>6, Zenon DEF Termed
<1>8. /\ DOMAIN aux = {LinkSlot(r) : r \in {s \in L : Past(s)}} \cup {TermSlot(r) : r \in {s \in E : Past(s)}}
      /\ \A r \in L : Past(r) => aux[LinkSlot(r)] = number[r]
      /\ \A r \in E : Past(r) => aux[TermSlot(r)] = data[r]
  BY DEF FillInv, WrittenOK
<1>9. /\ \A r, s \in E : TermSlot(r) = TermSlot(s) => r = s
      /\ \A r \in L, s \in E : LinkSlot(r) # TermSlot(s)
  BY DEF FillInv, SlotsOK
<1> HIDE DEF L, E, T
<1>10. CASE q \in E
  <2>1. T = With(aux, TermSlot(q), data[q])
    BY <1>7, <1>10
  <2>2. /\ DOMAIN T = DOMAIN aux \cup {TermSlot(q)} /\ T[TermSlot(q)] = data[q]
        /\ \A x \in DOMAIN aux : x # TermSlot(q) => T[x] = aux[x]
    BY <2>1 DEF With
  <2>3. DOMAIN T = {LinkSlot(r) : r \in {s \in L : Past(s)}} \cup {TermSlot(r) : r \in {s \in E : Past(s) \/ s = q}}
    BY <1>8, <1>10, <2>2
  <2>4. \A r \in L : Past(r) => T[LinkSlot(r)] = number[r]
    BY <1>8, <1>9, <1>10, <2>2
  <2>5. \A r \in E : Past(r) \/ r = q => T[TermSlot(r)] = data[r]
    BY <1>8, <1>9, <1>10, <2>2
  <2> QED
    BY <1>3, <1>4, <1>5, <1>6, <2>3, <2>4, <2>5 DEF TermedOK, L, E, T
<1>11. CASE q \notin E
  <2>1. T = aux
    BY <1>7, <1>11
  <2>2. {s \in E : Past(s) \/ s = q} = {s \in E : Past(s)}
    BY <1>11
  <2>3. DOMAIN T = {LinkSlot(r) : r \in {s \in L : Past(s)}} \cup {TermSlot(r) : r \in {s \in E : Past(s) \/ s = q}}
    BY <1>8, <2>1, <2>2
  <2>4. \A r \in E : Past(r) \/ r = q => T[TermSlot(r)] = data[r]
    BY <1>8, <1>11, <2>1
  <2> QED
    BY <1>3, <1>4, <1>5, <1>6, <1>8, <2>1, <2>3, <2>4 DEF TermedOK, L, E, T
<1> QED
  BY <1>10, <1>11

\* An entry without a node behind it.
LEMMA FillLeaf ==
  ASSUME BuildInv, FillInv, NEW p, NEW e, NEW c, NEW q, EntryAt(p, e, c, q),
         kids' = kids, data' = data, ~ Inner(q),
         aux' = Termed(p, c, q), entry' = [entry EXCEPT ![p] = e + 1],
         UNCHANGED <<gbuf, gpos, apos, current, number>>
  PROVE  FillInv'
<1> DEFINE L == Linked(Nodes)
           E == Ended(Nodes)
<1>1. p = current /\ p \in Nodes /\ q \in Paths /\ e = entry[p] /\ e \in 1 .. Len(kids[p]) /\ Len(kids[p]) \in Nat
  BY DEF EntryAt
<1>2. /\ DOMAIN entry = Nodes /\ current \in Nodes
      /\ \A r \in Nodes : entry[r] \in 1 .. Len(kids[r]) + 1
      /\ \A r \in Nodes : ~ IsPrefix(r, current) => entry[r] = Len(kids[r]) + 1
      /\ \A r \in L : r \in Nodes <=> Past(r)
  BY DEF FillInv, CallsOK
<1>3. entry'[p] = e + 1 /\ DOMAIN entry' = DOMAIN entry /\ \A r \in Nodes \ {p} : entry'[r] = entry[r]
  BY <1>1, <1>2
<1>4. /\ L \subseteq Paths \ {<<>>} /\ E \subseteq Paths \ {<<>>} /\ \A r \in L \cup E : Front(r) \in Nodes
      /\ q \notin L
      /\ DOMAIN aux' = {LinkSlot(r) : r \in {s \in L : Past(s)}}
                         \cup {TermSlot(r) : r \in {s \in E : Past(s) \/ s = q}}
      /\ \A r \in L : Past(r) => aux'[LinkSlot(r)] = number[r]
      /\ \A r \in E : Past(r) \/ r = q => aux'[TermSlot(r)] = data[r]
  <2> DEFINE T == Termed(p, c, q)
  <2>1. /\ L \subseteq Paths \ {<<>>} /\ E \subseteq Paths \ {<<>>} /\ \A r \in L \cup E : Front(r) \in Nodes
        /\ q \in L <=> Inner(q)
        /\ DOMAIN T = {LinkSlot(r) : r \in {s \in L : Past(s)}}
                        \cup {TermSlot(r) : r \in {s \in E : Past(s) \/ s = q}}
        /\ \A r \in L : Past(r) => T[LinkSlot(r)] = number[r]
        /\ \A r \in E : Past(r) \/ r = q => T[TermSlot(r)] = data[r]
    <3>1. TermedOK(p, c, q)
      BY TermedIs
    <3> QED
      BY <3>1, Zenon DEF TermedOK
  <2>2. aux' = T
    OBVIOUS
  <2> HIDE DEF T, L, E
  <2> QED
    BY <2>1, <2>2
<1>5. \A r \in L \cup E : Past(r)' <=> Past(r) \/ r = q
  BY <1>3, <1>4, PastNext
<1>6. Nodes' = Nodes /\ Paths' = Paths /\ \A r : (Inner(r)' <=> Inner(r)) /\ NodeAt(r)' = NodeAt(r)
  BY DEF Nodes, Paths, Inner, NodeAt
<1>7. L' = L /\ E' = E
  <2>1. L' = L
    BY <1>6 DEF Linked
  <2>2. E' = E
    BY <1>6 DEF Ended
  <2> QED
    BY <2>1, <2>2
<1>8. \A r : LinkSlot(r)' = LinkSlot(r) /\ TermSlot(r)' = TermSlot(r)
  BY <1>6 DEF LinkSlot, TermSlot
<1>9. NodesOK'
  <2>1. \A r : NextKeys(r)' = NextKeys(r) /\ TermKeys(r)' = TermKeys(r)
    BY SameTree
  <2>2. NodesOK
    BY DEF FillInv
  <2>3. NodesBelow(gpos + 1)'
    BY <1>6, <2>1, <2>2 DEF NodesBelow, NodesOK
  <2> QED
    BY <1>6, <2>2, <2>3 DEF NodesOK
<1>10. CallsOK'
  <2>1. \A r \in Nodes : entry'[r] \in 1 .. Len(kids[r]) + 1
    <3>1. e + 1 \in 1 .. Len(kids[p]) + 1
      BY <1>1
    <3> QED
      BY <1>2, <1>3, <3>1
  <2>2. \A r \in Nodes : ~ IsPrefix(r, current) => entry'[r] = Len(kids[r]) + 1
    <3>1. IsPrefix(p, p)
      BY PrefixFacts DEF EntryAt
    <3> QED
      BY <1>1, <1>2, <1>3, <3>1
  <2>3. \A r \in L : r \in Nodes <=> Past(r)'
    BY <1>2, <1>4, <1>5
  <2> QED
    BY <1>2, <1>3, <1>6, <1>7, <2>1, <2>2, <2>3 DEF CallsOK
<1>11. SlotsOK'
  BY <1>7, <1>8 DEF FillInv, SlotsOK
<1>12. WrittenOK'
  <2>1. {s \in L : Past(s)} = {s \in L : Past(s)'} /\ {s \in E : Past(s) \/ s = q} = {s \in E : Past(s)'}
    BY <1>4, <1>5
  <2>2. DOMAIN aux' = {LinkSlot(r) : r \in {s \in L : Past(s)'}} \cup {TermSlot(r) : r \in {s \in E : Past(s)'}}
    BY <1>4, <2>1
  <2>3. \A r \in L : Past(r)' => aux'[LinkSlot(r)] = number'[r]
    BY <1>4, <1>5
  <2>4. \A r \in E : Past(r)' => aux'[TermSlot(r)] = data'[r]
    BY <1>4, <1>5
  <2> QED
    BY <1>7, <1>8, <2>2, <2>3, <2>4 DEF WrittenOK
<1> QED
  BY <1>9, <1>10, <1>11, <1>12 DEF FillInv

\* An entry with a node behind it: gbuf_fill is called for that.
LEMMA FillNode ==
  ASSUME BuildInv, FillInv, NEW p, NEW e, NEW c, NEW q, EntryAt(p, e, c, q),
         kids' = kids, data' = data, Inner(q), NEW g, g = gpos + 1, Call(q, g),
         aux' = With(Termed(p, c, q), LinkSlot(q), g),
         entry' = With([entry EXCEPT ![p] = e + 1], q, 1)
  PROVE  FillInv'
<1> DEFINE L == Linked(Nodes)
           E == Ended(Nodes)
           T == Termed(p, c, q)
<1>1. /\ p = current /\ p \in Nodes /\ q \in Paths /\ e = entry[p] /\ e \in 1 .. Len(kids[p])
      /\ Len(kids[p]) \in Nat /\ p \in Seq(Asked) /\ c \in Asked /\ q = Append(p, c)
      /\ Front(q) = p /\ q # <<>> /\ ~ Past(q)
  BY DEF EntryAt
<1>2. /\ DOMAIN entry = Nodes /\ current \in Nodes
      /\ \A r \in Nodes : entry[r] \in 1 .. Len(kids[r]) + 1
      /\ \A r \in Nodes : ~ IsPrefix(r, current) => entry[r] = Len(kids[r]) + 1
      /\ \A r \in L : r \in Nodes <=> Past(r)
  BY DEF FillInv, CallsOK
<1>3. /\ L \subseteq Paths \ {<<>>} /\ E \subseteq Paths \ {<<>>} /\ \A r \in L \cup E : Front(r) \in Nodes
      /\ q \in L
      /\ DOMAIN T = {LinkSlot(r) : r \in {s \in L : Past(s)}}
                      \cup {TermSlot(r) : r \in {s \in E : Past(s) \/ s = q}}
      /\ \A r \in L : Past(r) => T[LinkSlot(r)] = number[r]
      /\ \A r \in E : Past(r) \/ r = q => T[TermSlot(r)] = data[r]
  <2>1. TermedOK(p, c, q)
    BY TermedIs
  <2>2. /\ L \subseteq Paths \ {<<>>} /\ E \subseteq Paths \ {<<>>} /\ \A r \in L \cup E : Front(r) \in Nodes
        /\ q \in L <=> Inner(q)
        /\ DOMAIN T = {LinkSlot(r) : r \in {s \in L : Past(s)}}
                        \cup {TermSlot(r) : r \in {s \in E : Past(s) \/ s = q}}
        /\ \A r \in L : Past(r) => T[LinkSlot(r)] = number[r]
        /\ \A r \in E : Past(r) \/ r = q => T[TermSlot(r)] = data[r]
    BY <2>1, Zenon DEF TermedOK
  <2> HIDE DEF L, E, T
  <2> QED
    BY <2>2
<1>4. q \notin Nodes
  BY <1>1, <1>2, <1>3
<1>5. /\ gpos \in Nat /\ g \in Nat /\ NodesBelow(g) /\ SlotsOK /\ <<>> \in Nodes /\ number[<<>>] = 0
      /\ \A r \in Nodes : r # <<>> => Inner(r) /\ Front(r) \in Nodes
      /\ Nodes \subseteq Paths
  <2>1. NodesOK /\ SlotsOK
    BY DEF FillInv
  <2>2. gpos \in Nat /\ NodesBelow(g)
    BY <2>1 DEF NodesOK
  <2> QED
    BY <2>1, <2>2 DEF NodesOK, NodesBelow
<1>6. apos \in Nat
  <2>1. apos = Cardinality(L) + Cardinality(E)
    BY <1>5 DEF SlotsOK
  <2>2. Cardinality(L) \in Nat /\ Cardinality(E) \in Nat
    BY LinkedFinite
  <2> QED
    BY <2>1, <2>2
<1>7. /\ Nodes' = Nodes \cup {q} /\ number'[q] = g /\ \A r \in Nodes : number'[r] = number[r]
      /\ NodesBelow(g + 1)'
  BY <1>1, <1>4, <1>5, <1>6, CallNodes
<1>8. /\ SlotsOK'
      /\ Linked(Nodes)' = L \cup Linked({q})
      /\ Ended(Nodes)' = E \cup Ended({q})
      /\ \A r \in L : LinkSlot(r)' = LinkSlot(r)
      /\ \A r \in E : TermSlot(r)' = TermSlot(r)
  BY <1>1, <1>4, <1>5, CallSlots
<1>9. gpos' = g /\ current' = q
  BY DEF Call
<1>10. /\ DOMAIN entry' = Nodes' /\ entry'[q] = 1 /\ entry'[p] = e + 1
       /\ \A r \in Nodes \ {p} : entry'[r] = entry[r]
  <2> DEFINE f == [entry EXCEPT ![p] = e + 1]
  <2>1. DOMAIN f = Nodes /\ f[p] = e + 1 /\ \A r \in Nodes \ {p} : f[r] = entry[r]
    BY <1>1, <1>2
  <2>2. entry' = With(f, q, 1)
    OBVIOUS
  <2> HIDE DEF f
  <2>3. \A r \in Nodes : r # q
    BY <1>4
  <2>4. DOMAIN entry' = Nodes \cup {q} /\ entry'[q] = 1 /\ \A r \in Nodes : entry'[r] = f[r]
    BY <2>1, <2>2, <2>3 DEF With
  <2> QED
    BY <1>1, <1>7, <2>1, <2>4
<1>11. \A r \in L \cup E : Past(r)' <=> Past(r) \/ r = q
  BY <1>3, <1>10, PastNext
<1>12. \A r \in Linked({q}) \cup Ended({q}) : r \in Paths /\ r # <<>> /\ Front(r) = q /\ ~ Past(r)' /\ r \notin Nodes'
  <2> TAKE r \in Linked({q}) \cup Ended({q})
  <2>1. r \in Paths /\ r # <<>> /\ Front(r) = q
    BY DEF Linked, Ended, BuildInv, WordsOK
  <2>2. \A j \in 1 .. entry'[q] - 1 : FALSE
    BY <1>10
  <2>3. ~ Past(r)'
    BY <2>1, <2>2 DEF Past
  <2>4. r \notin Nodes
    BY <1>4, <1>5, <2>1
  <2>5. r # q
    <3>1. q \in Seq(Asked) /\ Len(Front(q)) = Len(q) - 1 /\ Len(q) \in Nat
      BY <1>1, FrontLast DEF BuildInv, TreeOK
    <3> DEFINE m == Len(q)
    <3>2. Len(Front(q)) # m
      BY <3>1
    <3> QED
      BY <2>1, <3>2
  <2> QED
    BY <1>7, <2>1, <2>3, <2>4, <2>5
<1>13. NodesOK'
  <2>1. NodesBelow(gpos + 1)'
    BY <1>7, <1>9 DEF NodesBelow
  <2>2. \A r \in Nodes' : r # <<>> => Inner(r)' /\ Front(r) \in Nodes'
    <3>1. \A r : Inner(r)' <=> Inner(r)
      BY SameTree
    <3> QED
      BY <1>1, <1>5, <1>7, <3>1
  <2>3. <<>> \in Nodes' /\ number'[<<>>] = 0
    BY <1>5, <1>7
  <2> QED
    BY <1>5, <1>9, <2>1, <2>2, <2>3 DEF NodesOK
<1>14. CallsOK'
  <2>1. Len(kids[q]) \in Nat
    BY <1>1, LenProperties DEF BuildInv, TreeOK
  <2>2. \A r \in Nodes' : entry'[r] \in 1 .. Len(kids[r]) + 1
    <3>1. e + 1 \in 1 .. Len(kids[p]) + 1 /\ 1 \in 1 .. Len(kids[q]) + 1
      BY <1>1, <2>1
    <3> QED
      BY <1>2, <1>7, <1>10, <3>1
  <2>3. \A r \in Nodes' : ~ IsPrefix(r, q) => entry'[r] = Len(kids[r]) + 1
    <3> SUFFICES ASSUME NEW r \in Nodes', ~ IsPrefix(r, q)
                 PROVE  entry'[r] = Len(kids[r]) + 1
      OBVIOUS
    <3>1. q \in Seq(Asked) /\ p \in Seq(Asked) /\ \A x \in Nodes : x \in Seq(Asked)
      BY <1>1, <1>5 DEF BuildInv, TreeOK
    <3>2. r # q
      BY <3>1, PrefixFacts
    <3>3. r \in Nodes /\ r \in Seq(Asked)
      BY <1>7, <3>1, <3>2
    <3>4. ~ IsPrefix(r, p)
      BY <1>1, <3>1, <3>3, PrefixFacts
    <3>5. r # p
      BY <3>1, <3>4, PrefixFacts
    <3> QED
      BY <1>1, <1>2, <1>10, <3>3, <3>4, <3>5
  <2>4. \A r \in L \cup Linked({q}) : r \in Nodes' <=> Past(r)'
    <3> TAKE r \in L \cup Linked({q})
    <3>1. CASE r \in L
      BY <1>2, <1>7, <1>11, <3>1
    <3>2. CASE r \in Linked({q})
      BY <1>12, <3>2
    <3> QED
      BY <3>1, <3>2
  <2> QED
    BY <1>7, <1>8, <1>9, <1>10, <2>2, <2>3, <2>4 DEF CallsOK
<1> DEFINE X == Linked(Nodes)'
           Y == Ended(Nodes)'
           ls(r) == LinkSlot(r)'
           ts(r) == TermSlot(r)'
           past(r) == Past(r)'
<1>15. /\ \A r \in L : r # q => LinkSlot(r) # LinkSlot(q)
       /\ \A r \in E : TermSlot(r) # LinkSlot(q)
  BY <1>3, <1>5 DEF SlotsOK
<1>16. /\ DOMAIN aux' = DOMAIN T \cup {LinkSlot(q)} /\ aux'[LinkSlot(q)] = g
       /\ \A x \in DOMAIN T : x # LinkSlot(q) => aux'[x] = T[x]
  <2> HIDE DEF T
  <2>1. aux' = With(T, LinkSlot(q), g)
    BY DEF T
  <2> QED
    BY <2>1 DEF With
<1>17. {s \in X : past(s)} = {s \in L : Past(s)} \cup {q} /\ {s \in Y : past(s)} = {s \in E : Past(s) \/ s = q}
  <2>1. \A s \in Linked({q}) \cup Ended({q}) : ~ past(s)
    BY <1>12
  <2>2. \A s \in L \cup E : past(s) <=> Past(s) \/ s = q
    BY <1>11
  <2>3. X = L \cup Linked({q}) /\ Y = E \cup Ended({q})
    BY <1>8
  <2> HIDE DEF X, Y, L, E, past
  <2> QED
    BY <1>3, <2>1, <2>2, <2>3
<1> HIDE DEF X, Y, past, L, E, T, ls, ts
<1>18. DOMAIN aux' = {ls(r) : r \in {s \in X : past(s)}} \cup {ts(r) : r \in {s \in Y : past(s)}}
  <2>1. \A r \in {s \in L : Past(s)} \cup {q} : ls(r) = LinkSlot(r)
    BY <1>3, <1>8 DEF ls
  <2>2. \A r \in {s \in E : Past(s) \/ s = q} : ts(r) = TermSlot(r)
    BY <1>8 DEF ts
  <2>3. {ls(r) : r \in {s \in X : past(s)}} = {LinkSlot(r) : r \in {s \in L : Past(s)}} \cup {LinkSlot(q)}
    BY <1>17, <2>1
  <2>4. {ts(r) : r \in {s \in Y : past(s)}} = {TermSlot(r) : r \in {s \in E : Past(s) \/ s = q}}
    BY <1>17, <2>2
  <2> QED
    BY <1>3, <1>16, <2>3, <2>4
<1>19. \A r \in X : past(r) => aux'[ls(r)] = number'[r]
  <2> SUFFICES ASSUME NEW r \in X, past(r)
               PROVE  aux'[ls(r)] = number'[r]
    OBVIOUS
  <2>1. r \in L /\ (Past(r) \/ r = q) /\ ls(r) = LinkSlot(r)
    BY <1>3, <1>8, <1>17 DEF ls
  <2>2. CASE r = q
    BY <1>7, <1>16, <2>1, <2>2
  <2>3. CASE r # q
    <3>1. Past(r) /\ r \in Nodes
      BY <1>2, <2>1, <2>3
    <3>2. LinkSlot(r) \in DOMAIN T /\ LinkSlot(r) # LinkSlot(q)
      BY <1>3, <1>15, <2>1, <2>3, <3>1
    <3> QED
      BY <1>3, <1>7, <1>16, <2>1, <3>1, <3>2
  <2> QED
    BY <2>2, <2>3
<1>20. \A r \in Y : past(r) => aux'[ts(r)] = data'[r]
  <2> SUFFICES ASSUME NEW r \in Y, past(r)
               PROVE  aux'[ts(r)] = data'[r]
    OBVIOUS
  <2>1. r \in E /\ (Past(r) \/ r = q) /\ ts(r) = TermSlot(r)
    BY <1>8, <1>17 DEF ts
  <2>2. TermSlot(r) \in DOMAIN T /\ TermSlot(r) # LinkSlot(q)
    BY <1>3, <1>15, <2>1
  <2> QED
    BY <1>3, <1>16, <2>1, <2>2
<1>21. WrittenOK'
  BY <1>18, <1>19, <1>20 DEF WrittenOK, X, Y, past, ls, ts
<1> QED
  BY <1>8, <1>13, <1>14, <1>21 DEF FillInv

LEMMA FillEntryInv ==
  ASSUME BuildInv, FillInv, FillEntry
  PROVE  FillInv'
<1>1. entry[current] <= Len(kids[current])
  BY DEF FillEntry
<1>2. PICK p, e, c, q : EntryAt(p, e, c, q)
  BY <1>1, EntryIs
<1>3. kids' = kids /\ data' = data
  BY <1>2, FillEntryIs
<1>4. CASE /\ Inner(q) /\ Call(q, gpos + 1)
           /\ aux' = With(Termed(p, c, q), NodeAt(p).next + Rank(NodeAt(p).keys, c), gpos + 1)
           /\ entry' = With([entry EXCEPT ![p] = e + 1], q, 1)
  <2>1. PICK g : g = gpos + 1
    OBVIOUS
  <2>2. LinkSlot(q) = NodeAt(p).next + Rank(NodeAt(p).keys, c)
    <3>1. TermedOK(p, c, q)
      BY <1>2, TermedIs
    <3> QED
      BY <3>1, Zenon DEF TermedOK
  <2>3. Inner(q) /\ Call(q, g) /\ aux' = With(Termed(p, c, q), LinkSlot(q), g)
        /\ entry' = With([entry EXCEPT ![p] = e + 1], q, 1)
    BY <1>4, <2>1, <2>2, Zenon
  <2> QED
    BY <1>2, <1>3, <2>1, <2>3, FillNode
<1>5. CASE /\ ~ Inner(q)
           /\ aux' = Termed(p, c, q)
           /\ entry' = [entry EXCEPT ![p] = e + 1]
           /\ UNCHANGED <<gbuf, gpos, apos, current, number>>
  BY <1>2, <1>3, <1>5, FillLeaf
<1>6. \/ /\ Inner(q) /\ Call(q, gpos + 1)
         /\ aux' = With(Termed(p, c, q), NodeAt(p).next + Rank(NodeAt(p).keys, c), gpos + 1)
         /\ entry' = With([entry EXCEPT ![p] = e + 1], q, 1)
      \/ /\ ~ Inner(q)
         /\ aux' = Termed(p, c, q)
         /\ entry' = [entry EXCEPT ![p] = e + 1]
         /\ UNCHANGED <<gbuf, gpos, apos, current, number>>
  BY <1>2, FillEntryIs, Zenon
<1> QED
  BY <1>4, <1>5, <1>6, Zenon

\* Nothing the walk or a return does changes the layout.
LEMMA SameLayout ==
  ASSUME BuildInv, FillInv, UNCHANGED <<kids, data, gbuf, aux, gpos, apos, number, entry>>,
         CallsOK'
  PROVE  FillInv'
<1>1. Nodes' = Nodes /\ Paths' = Paths /\ \A r : (Inner(r)' <=> Inner(r)) /\ NodeAt(r)' = NodeAt(r)
  BY DEF Nodes, Paths, Inner, NodeAt
<1>2. Linked(Nodes)' = Linked(Nodes) /\ Ended(Nodes)' = Ended(Nodes)
  <2>1. Linked(Nodes)' = Linked(Nodes)
    BY <1>1 DEF Linked
  <2>2. Ended(Nodes)' = Ended(Nodes)
    BY <1>1 DEF Ended
  <2> QED
    BY <2>1, <2>2
<1>3. \A r : LinkSlot(r)' = LinkSlot(r) /\ TermSlot(r)' = TermSlot(r) /\ (Past(r)' <=> Past(r))
  BY <1>1 DEF LinkSlot, TermSlot, Past
<1>4. NodesOK'
  <2>1. \A r : NextKeys(r)' = NextKeys(r) /\ TermKeys(r)' = TermKeys(r)
    BY SameTree
  <2>2. NodesOK
    BY DEF FillInv
  <2>3. NodesBelow(gpos + 1)'
    BY <1>1, <2>1, <2>2 DEF NodesBelow, NodesOK
  <2> QED
    BY <1>1, <2>2, <2>3 DEF NodesOK
<1>5. SlotsOK'
  BY <1>2, <1>3 DEF FillInv, SlotsOK
<1>6. WrittenOK'
  <2>1. WrittenOK
    BY DEF FillInv
  <2> DEFINE A == {LinkSlot(q) : q \in {r \in Linked(Nodes) : Past(r)}}
             B == {TermSlot(q) : q \in {r \in Ended(Nodes) : Past(r)}}
  <2>2. A' = A
    BY <1>2, <1>3
  <2>3. B' = B
    BY <1>2, <1>3
  <2> QED
    BY <1>1, <1>2, <1>3, <2>1, <2>2, <2>3 DEF WrittenOK
<1> QED
  BY <1>4, <1>5, <1>6 DEF FillInv

LEMMA FillReturnInv ==
  ASSUME BuildInv, FillInv, FillReturn
  PROVE  /\ BuildInv' /\ FillInv'
         /\ stage' = "idle" => AllFilled'
         /\ stage' \in {"fill", "idle"} /\ done' = done /\ list' = list
<1>1. /\ stage = "fill" /\ entry[current] > Len(kids[current])
      /\ UNCHANGED <<list, done, kids, data, gbuf, aux, gpos, apos, number, entry>>
      /\ \/ current # <<>> /\ current' = Front(current) /\ stage' = stage
         \/ current = <<>> /\ stage' = "idle" /\ current' = current
  BY DEF FillReturn, buildVars
<1>2. /\ Nodes \subseteq Paths /\ \A r \in Nodes : r # <<>> => Front(r) \in Nodes
      /\ current \in Nodes /\ DOMAIN entry = Nodes
      /\ \A r \in Nodes : entry[r] \in 1 .. Len(kids[r]) + 1
      /\ \A r \in Nodes : ~ IsPrefix(r, current) => entry[r] = Len(kids[r]) + 1
      /\ \A r \in Linked(Nodes) : r \in Nodes <=> Past(r)
  BY DEF FillInv, NodesOK, NodesBelow, CallsOK
<1>3. \A r \in Nodes : r \in Seq(Asked) /\ kids[r] \in Seq(Asked)
  BY <1>2 DEF BuildInv, TreeOK
<1>4. entry[current] = Len(kids[current]) + 1
  <2>1. entry[current] \in 1 .. Len(kids[current]) + 1 /\ Len(kids[current]) \in Nat
    BY <1>2, <1>3, LenProperties
  <2> QED
    BY <1>1, <2>1
<1>5. BuildInv'
  <2>1. TreeOK'
    BY <1>1 DEF BuildInv, TreeOK, Paths
  <2>2. \A j : Hidden(j)' <=> Hidden(j)
    BY <1>1 DEF Hidden
  <2>3. WordsOK'
    BY <1>1, <2>2 DEF BuildInv, WordsOK, Paths
  <2> QED
    BY <1>1, <2>1, <2>3 DEF BuildInv
<1>6. \A r \in Nodes : ~ IsPrefix(r, current') => entry[r] = Len(kids[r]) + 1
  <2> SUFFICES ASSUME NEW r \in Nodes, ~ IsPrefix(r, current')
               PROVE  entry[r] = Len(kids[r]) + 1
    OBVIOUS
  <2>1. CASE r = current
    BY <1>4, <2>1
  <2>2. CASE r # current
    <3>1. ~ IsPrefix(r, current)
      <4>1. CASE current # <<>> /\ current' = Front(current)
        BY <1>2, <1>3, <2>2, <4>1, PrefixFacts
      <4>2. CASE current' = current
        BY <4>2
      <4> QED
        BY <1>1, <4>1, <4>2
    <3> QED
      BY <1>2, <3>1
  <2> QED
    BY <2>1, <2>2
<1>7. CallsOK'
  <2>1. Nodes' = Nodes /\ Linked(Nodes)' = Linked(Nodes)
    <3>1. Nodes' = Nodes
      BY <1>1 DEF Nodes
    <3> QED
      BY <1>1, <3>1 DEF Linked, Paths, Inner
  <2>2. \A r : Past(r)' <=> Past(r)
    BY <1>1 DEF Past
  <2>3. current' \in Nodes
    BY <1>1, <1>2
  <2> QED
    BY <1>1, <1>2, <1>6, <2>1, <2>2, <2>3 DEF CallsOK
<1>8. FillInv'
  BY <1>1, <1>7, SameLayout
<1>9. ASSUME stage' = "idle"
      PROVE  AllFilled'
  <2>1. current = <<>>
    BY <1>1, <1>9
  <2>2. \A r \in Nodes : entry[r] = Len(kids[r]) + 1
    <3> TAKE r \in Nodes
    <3>1. CASE r = <<>>
      BY <1>4, <2>1, <3>1
    <3>2. CASE r # <<>>
      BY <1>2, <1>3, <2>1, <3>2, PrefixFacts
    <3> QED
      BY <3>1, <3>2
  <2> QED
    BY <1>1, <2>2 DEF AllFilled, Nodes
<1> QED
  BY <1>1, <1>5, <1>8, <1>9

------------------------------------------------------------------------------
(* The whole layout *)

LEMMA AllPast ==
  ASSUME BuildInv, FillInv, AllFilled
  PROVE  /\ \A r \in Linked(Nodes) \cup Ended(Nodes) : r \in Paths /\ r # <<>> /\ Front(r) \in Nodes /\ Past(r)
         /\ Linked(Nodes) \subseteq Nodes
<1>1. ASSUME NEW r \in Linked(Nodes) \cup Ended(Nodes)
      PROVE  r \in Paths /\ r # <<>> /\ Front(r) \in Nodes /\ Past(r)
  <2>1. r \in Paths /\ r # <<>> /\ Front(r) \in Nodes
    BY DEF Linked, Ended, BuildInv, WordsOK
  <2>2. Last(r) \in ToSet(kids[Front(r)]) /\ kids[Front(r)] \in Seq(Asked)
    BY <2>1, ParentOf, Branches
  <2> DEFINE s == kids[Front(r)]
  <2>3. entry[Front(r)] = Len(s) + 1
    BY <2>1 DEF AllFilled
  <2> HIDE DEF s
  <2>4. \E j \in 1 .. Len(s) : s[j] = Last(r)
    <3>1. DOMAIN s = 1 .. Len(s)
      BY <2>2, LenProperties DEF s
    <3> QED
      BY <2>2, <3>1 DEF ToSet, s
  <2>5. Len(s) \in Nat
    BY <2>2, LenProperties DEF s
  <2>6. (Len(s) + 1) - 1 = Len(s)
    BY <2>5
  <2>7. Past(r)
    BY <2>3, <2>4, <2>6 DEF Past, s
  <2> QED
    BY <2>1, <2>7
<1>2. Linked(Nodes) \subseteq Nodes
  BY <1>1 DEF FillInv, CallsOK
<1> QED
  BY <1>1, <1>2

\* gbuf_fill comes to every path that is one.
LEMMA AllCalled ==
  ASSUME BuildInv, FillInv, AllFilled
  PROVE  /\ Nodes = {<<>>} \cup {q \in Paths : q # <<>> /\ Inner(q)}
         /\ Linked(Nodes) = {q \in Paths : q # <<>> /\ Inner(q)}
         /\ Ended(Nodes) = DOMAIN data
<1> DEFINE I == {q \in Paths : q # <<>> /\ Inner(q)}
           Bad == I \ Nodes
           lens == {Len(q) : q \in Bad}
<1>1. <<>> \in Nodes /\ Nodes \subseteq Paths /\ \A q \in Nodes : q # <<>> => Inner(q)
  BY DEF FillInv, NodesOK, NodesBelow
<1>2. \A q \in Paths : q \in Seq(Asked) /\ Len(q) \in Nat
  BY LenProperties DEF BuildInv, TreeOK
<1>3. Bad = {}
  <2> SUFFICES ASSUME Bad # {} PROVE FALSE
    OBVIOUS
  <2>1. lens \in SUBSET Nat /\ lens # {}
    BY <1>2
  <2> HIDE DEF lens
  <2>2. PICK x \in lens : \A y \in lens : x <= y
    BY <2>1, LeastOf
  <2>3. PICK q \in Bad : x = Len(q)
    BY <2>2 DEF lens
  <2>4. \A r \in Bad : Len(q) <= Len(r)
    BY <2>2, <2>3 DEF lens
  <2>5. q \in Paths /\ q # <<>> /\ Inner(q) /\ q \notin Nodes
    OBVIOUS
  <2>6. Front(q) \in Paths /\ Inner(Front(q)) /\ Len(Front(q)) = Len(q) - 1 /\ Len(q) \in Nat
    BY <1>2, <2>5, ParentOf, FrontLast
  <2> DEFINE f == Front(q)
  <2>7. f \in Nodes
    <3>1. Len(f) < Len(q)
      BY <2>6
    <3>2. f \notin Bad
      BY <1>2, <2>4, <2>6, <3>1
    <3> QED
      BY <1>1, <2>6, <3>2
  <2>8. q \in Linked(Nodes)
    BY <2>5, <2>7 DEF Linked
  <2> QED
    BY <2>5, <2>8, AllPast
<1>4. Nodes = {<<>>} \cup I
  BY <1>1, <1>3
<1>5. \A q \in Paths : q # <<>> => Front(q) \in Nodes
  <2> TAKE q \in Paths
  <2>1. q # <<>> => Front(q) \in Paths /\ Inner(Front(q))
    BY ParentOf
  <2> QED
    BY <1>4, <2>1
<1>6. Linked(Nodes) = I
  BY <1>5 DEF Linked
<1>7. Ended(Nodes) = DOMAIN data
  BY <1>5 DEF Ended, BuildInv, WordsOK
<1> QED
  BY <1>4, <1>6, <1>7

\* As many nodes and slots as gbuf_size counted, and no hole.
LEMMA LayoutIs ==
  ASSUME BuildInv, FillInv, AllFilled
  PROVE  DOMAIN gbuf = 0 .. GbufSize /\ DOMAIN aux = 0 .. AuxSize - 1
<1> DEFINE I == {q \in Paths : q # <<>> /\ Inner(q)}
           L == Linked(Nodes)
           E == Ended(Nodes)
<1>1. Nodes = {<<>>} \cup I /\ L = I /\ E = DOMAIN data
  BY AllCalled
<1>2. /\ IsFiniteSet(L) /\ IsFiniteSet(E) /\ Cardinality(L) \in Nat /\ Cardinality(E) \in Nat
  BY LinkedFinite
<1>3. GbufSize = Cardinality(I) /\ AuxSize = Cardinality(I) + Cardinality(DOMAIN data)
  BY DEF GbufSize, AuxSize
<1>4. DOMAIN gbuf = 0 .. GbufSize
  <2>1. /\ gpos \in Nat /\ number \in [Nodes -> 0 .. gpos] /\ DOMAIN gbuf = 0 .. gpos
        /\ \A g \in 0 .. gpos : \E p \in Nodes : number[p] = g
        /\ \A p, q \in Nodes : number[p] = number[q] => p = q
    <3>1. gpos \in Nat /\ NodesBelow(gpos + 1)
      BY DEF FillInv, NodesOK
    <3>2. (gpos + 1) - 1 = gpos
      BY <3>1
    <3> QED
      BY <3>1, <3>2 DEF NodesBelow
  <2>2. number \in Bijection(Nodes, 0 .. gpos)
    BY <2>1 DEF Bijection, Injection, Surjection, IsInjective
  <2>3. <<>> \notin I /\ IsFiniteSet(I)
    BY <1>1, <1>2
  <2> HIDE DEF I
  <2>4. IsFiniteSet(Nodes) /\ Cardinality(Nodes) = Cardinality(I) + 1
    <3> DEFINE root == <<>>
    <3>1. root \notin I /\ Nodes = I \cup {root}
      BY <1>1, <2>3
    <3> HIDE DEF root
    <3> QED
      BY <2>3, <3>1, FS_AddElement
  <2>5. Cardinality(0 .. gpos) = Cardinality(Nodes)
    BY <2>2, <2>4, FS_Bijection DEF ExistsBijection
  <2>6. Cardinality(0 .. gpos) = gpos + 1
    <3>1. 0 \in Int /\ gpos \in Int /\ ~ (0 > gpos) /\ gpos - 0 + 1 = gpos + 1
      BY <2>1
    <3>2. Cardinality(0 .. gpos) = IF 0 > gpos THEN 0 ELSE gpos - 0 + 1
      BY <3>1, FS_Interval, Zenon
    <3> QED
      BY <3>1, <3>2
  <2>7. Cardinality(I) \in Nat
    BY <1>1, <1>2
  <2>8. gpos = Cardinality(I)
    BY <2>1, <2>4, <2>5, <2>6, <2>7
  <2> QED
    BY <1>3, <2>1, <2>8
<1>5. DOMAIN aux = 0 .. AuxSize - 1
  <2>1. /\ DOMAIN aux = {LinkSlot(q) : q \in {r \in L : Past(r)}} \cup {TermSlot(q) : q \in {r \in E : Past(r)}}
        /\ apos = Cardinality(L) + Cardinality(E)
        /\ \A q \in L : LinkSlot(q) \in 0 .. apos - 1
        /\ \A q \in E : TermSlot(q) \in 0 .. apos - 1
        /\ \A q, r \in L : LinkSlot(q) = LinkSlot(r) => q = r
        /\ \A q, r \in E : TermSlot(q) = TermSlot(r) => q = r
        /\ \A q \in L, r \in E : LinkSlot(q) # TermSlot(r)
    BY DEF FillInv, SlotsOK, WrittenOK
  <2> DEFINE X == {LinkSlot(q) : q \in L}
             Y == {TermSlot(q) : q \in E}
             A == 0 .. apos - 1
  <2>2. DOMAIN aux = X \cup Y
    <3>1. \A r \in L \cup E : Past(r)
      BY AllPast
    <3>2. {r \in L : Past(r)} = L /\ {r \in E : Past(r)} = E
      BY <3>1
    <3> QED
      BY <2>1, <3>2
  <2>3. Cardinality(X) = Cardinality(L) /\ IsFiniteSet(X)
    <3> DEFINE f == [q \in L |-> LinkSlot(q)]
    <3> HIDE DEF L
    <3>1. f \in Bijection(L, X)
      BY <2>1 DEF Bijection, Injection, Surjection, IsInjective
    <3> HIDE DEF f, X
    <3> QED
      BY <1>2, <3>1, FS_Bijection DEF ExistsBijection
  <2>4. Cardinality(Y) = Cardinality(E) /\ IsFiniteSet(Y)
    <3> DEFINE f == [q \in E |-> TermSlot(q)]
    <3> HIDE DEF E
    <3>1. f \in Bijection(E, Y)
      BY <2>1 DEF Bijection, Injection, Surjection, IsInjective
    <3> HIDE DEF f, Y
    <3> QED
      BY <1>2, <3>1, FS_Bijection DEF ExistsBijection
  <2>5. X \cap Y = {} /\ X \cup Y \in SUBSET A
    BY <2>1
  <2> HIDE DEF X, Y, A, L, E
  <2>6. Cardinality(X \cap Y) = 0
    BY <2>5, FS_EmptySet
  <2>7. Cardinality(X \cup Y) = Cardinality(X) + Cardinality(Y) - Cardinality(X \cap Y)
    BY <2>3, <2>4, FS_Union
  <2>8. Cardinality(X \cup Y) = apos /\ apos \in Nat
    BY <1>2, <2>1, <2>3, <2>4, <2>6, <2>7
  <2>9. IsFiniteSet(A) /\ Cardinality(A) = apos
    <3>1. 0 \in Int /\ apos - 1 \in Int
      BY <2>8
    <3>2. IsFiniteSet(A) /\ Cardinality(A) = IF 0 > apos - 1 THEN 0 ELSE (apos - 1) - 0 + 1
      BY <3>1, FS_Interval, Zenon DEF A
    <3> QED
      BY <2>8, <3>2
  <2>10. A = X \cup Y
    BY <2>5, <2>8, <2>9, FS_Subset
  <2>11. AuxSize = apos
    BY <1>1, <1>3, <2>1
  <2> QED
    BY <2>2, <2>10, <2>11 DEF A
<1> QED
  BY <1>4, <1>5

------------------------------------------------------------------------------
(* The walk *)

Low == 0 .. 127

LEMMA SevenIs ==
  ASSUME NEW x \in Seq(Char)
  PROVE  /\ Seven(x) \in Seq(Low) /\ Len(Seven(x)) = Len(x) /\ Len(x) \in Nat
         /\ \A i \in 1 .. Len(x) : Seven(x)[i] = x[i] % 128
<1>1. DOMAIN x = 1 .. Len(x) /\ Len(x) \in Nat /\ \A i \in 1 .. Len(x) : x[i] \in Char
  BY LenProperties, ElementOfSeq
<1>2. \A i \in 1 .. Len(x) : x[i] % 128 \in Low
  <2>1. \A c \in Char : c % 128 \in Low
    BY FragHalf DEF Low
  <2> QED
    BY <1>1, <2>1
<1> DEFINE n == Len(x)
           y == [i \in 1 .. n |-> x[i] % 128]
<1>3. Seven(x) = y
  BY <1>1, Zenon DEF Seven
<1>4. y \in [1 .. n -> Low] /\ n \in Nat
  BY <1>1, <1>2
<1>5. \A i \in 1 .. n : y[i] = x[i] % 128
  OBVIOUS
<1> HIDE DEF y, n
<1>6. y \in Seq(Low) /\ DOMAIN y = 1 .. n
  <2>1. y \in UNION {[1 .. m -> Low] : m \in Nat}
    BY <1>4
  <2> QED
    BY <1>4, <2>1, SeqDef, Zenon
<1>7. Len(y) = n
  BY <1>4, <1>6, LenProperties
<1> QED
  BY <1>3, <1>4, <1>5, <1>6, <1>7 DEF n

\* What the walk has come along, and what it comes to.
LEMMA SevenNext ==
  ASSUME NEW x \in Seq(Char), NEW h \in 1 .. Len(x)
  PROVE  /\ SubSeq(x, 1, h) \in Seq(Char) /\ x[h] \in Char
         /\ Seven(SubSeq(x, 1, h - 1)) \in Seq(Low) /\ x[h] % 128 \in Low
         /\ Len(Seven(SubSeq(x, 1, h - 1))) = h - 1
         /\ Seven(SubSeq(x, 1, h)) = Append(Seven(SubSeq(x, 1, h - 1)), x[h] % 128)
         /\ IsPrefix(Seven(SubSeq(x, 1, h)), Seven(x))
         /\ Seven(SubSeq(x, 1, 0)) = <<>> /\ SubSeq(x, 1, Len(x)) = x
<1>1. Len(x) \in Nat /\ h \in 0 .. Len(x) /\ h - 1 \in 0 .. Len(x) /\ 0 \in 0 .. Len(x) /\ h > 0 /\ h \in Nat
  BY LenProperties
<1> DEFINE a == SubSeq(x, 1, h - 1)
           b == SubSeq(x, 1, h)
           c == x[h]
           d == c % 128
<1>2. a \in Seq(Char) /\ Len(a) = h - 1 /\ \A i \in 1 .. h - 1 : a[i] = x[i]
  BY <1>1, PartOf
<1>3. b \in Seq(Char) /\ Len(b) = h /\ \A i \in 1 .. h : b[i] = x[i]
  BY <1>1, PartOf
<1>4. c \in Char
  BY ElementOfSeq
<1>5. SubSeq(x, 1, 0) = <<>> /\ SubSeq(x, 1, Len(x)) = x
  BY <1>1, PartOf
<1> HIDE DEF a, b
<1>6. /\ Seven(a) \in Seq(Low) /\ Len(Seven(a)) = h - 1 /\ \A i \in 1 .. h - 1 : Seven(a)[i] = a[i] % 128
      /\ Seven(b) \in Seq(Low) /\ Len(Seven(b)) = h /\ \A i \in 1 .. h : Seven(b)[i] = b[i] % 128
      /\ Seven(x) \in Seq(Low) /\ Len(Seven(x)) = Len(x) /\ \A i \in 1 .. Len(x) : Seven(x)[i] = x[i] % 128
  <2> DEFINE of(y) == /\ Seven(y) \in Seq(Low) /\ Len(Seven(y)) = Len(y)
                      /\ \A i \in 1 .. Len(y) : Seven(y)[i] = y[i] % 128
  <2>1. of(a) /\ of(b) /\ of(x)
    BY <1>2, <1>3, SevenIs
  <2> QED
    BY <1>2, <1>3, <2>1
<1>7. d \in Low
  BY <1>4, FragHalf DEF Low
<1> DEFINE sa == Seven(a)
           sb == Seven(b)
           sx == Seven(x)
           t == Append(sa, d)
<1>8. sb[h] = d
  <2>1. h \in 1 .. h
    BY <1>1
  <2> QED
    BY <1>3, <1>6, <2>1
<1>9. \A i \in 1 .. h - 1 : sb[i] = sa[i]
  <2>1. \A i \in 1 .. h - 1 : i \in 1 .. h
    BY <1>1
  <2> QED
    BY <1>2, <1>3, <1>6, <2>1
<1>10. \A i \in 1 .. h : sb[i] = sx[i]
  <2>1. \A i \in 1 .. h : i \in 1 .. Len(x)
    BY <1>1
  <2> QED
    BY <1>3, <1>6, <2>1
<1>11. /\ sa \in Seq(Low) /\ Len(sa) = h - 1
       /\ sb \in Seq(Low) /\ Len(sb) = h
       /\ sx \in Seq(Low) /\ Len(sx) = Len(x)
  BY <1>6
<1> HIDE DEF sa, sb, sx, d
<1>12. /\ t \in Seq(Low) /\ Len(t) = Len(sa) + 1 /\ t[Len(sa) + 1] = d
       /\ \A i \in 1 .. Len(sa) : t[i] = sa[i]
  BY <1>7, <1>11, AppendProperties
<1> HIDE DEF t
<1>13. sb = t
  <2>1. \A i \in 1 .. h : i \in 1 .. h - 1 \/ i = h
    BY <1>1
  <2>2. Len(t) = h /\ t[h] = d
    BY <1>1, <1>11, <1>12
  <2>3. \A i \in 1 .. h : sb[i] = t[i]
    BY <1>8, <1>9, <1>11, <1>12, <2>1, <2>2
  <2> QED
    BY <1>11, <1>12, <2>2, <2>3, SeqEqual
<1>14. IsPrefix(sb, sx)
  BY <1>1, <1>10, <1>11, PrefixIs
<1>15. Seven(<<>>) = <<>>
  <2> DEFINE e == <<>>
  <2>1. e \in Seq(Char) /\ Len(e) = 0
    OBVIOUS
  <2> HIDE DEF e
  <2>2. Seven(e) \in Seq(Low) /\ Len(Seven(e)) = 0
    BY <2>1, SevenIs
  <2> QED
    BY <2>2, EmptySeq DEF e
<1> QED
  BY <1>3, <1>4, <1>5, <1>7, <1>11, <1>13, <1>14, <1>15 DEF sa, sb, sx, d, t, a, b

\* A node answers for the path of one character more.
Goes(p, c, q) == p \in Nodes /\ c \in Char /\ q = Append(p, c % 128)

Answers(p, c, q) ==
  /\ Front(q) = p /\ q # <<>>
  /\ trie_next_(NodeAt(p).terms, NodeAt(p).data, c) = IF q \in DOMAIN data THEN TermSlot(q) ELSE -1
  /\ trie_next_(NodeAt(p).keys, NodeAt(p).next, c) = IF q \in Paths /\ Inner(q) THEN LinkSlot(q) ELSE -1
  /\ q \in DOMAIN data => TermSlot(q) \in Nat /\ aux[TermSlot(q)] = data[q]
  /\ q \in Paths /\ Inner(q) => LinkSlot(q) \in Nat /\ aux[LinkSlot(q)] = number[q] /\ q \in Nodes

LEMMA NodeAnswers ==
  ASSUME BuildInv, FillInv, AllFilled, NEW p, NEW c, NEW q, Goes(p, c, q)
  PROVE  Answers(p, c, q)
<1>0. p \in Nodes /\ c \in Char /\ q = Append(p, c % 128)
  BY DEF Goes
<1> DEFINE d == c % 128
<1>1. p \in Paths /\ NodeAt(p).keys = Keyed(NextKeys(p)) /\ NodeAt(p).terms = Keyed(TermKeys(p))
  BY <1>0 DEF FillInv, NodesOK, NodesBelow
<1>2. /\ p \in Seq(Asked) /\ NextKeys(p) \in SUBSET Asked /\ TermKeys(p) \in SUBSET Asked
      /\ \A e \in Asked : e \in NextKeys(p) <=> Append(p, e) \in Paths /\ Inner(Append(p, e))
      /\ \A e \in Asked : e \in TermKeys(p) <=> Append(p, e) \in DOMAIN data
      /\ Paths \subseteq Seq(Asked) /\ DOMAIN data \subseteq Paths
  BY <1>1, Branches DEF BuildInv, TreeOK, WordsOK
<1>3. d \in Low /\ Asked \subseteq Low
  BY <1>0, FragHalf DEF Low, Asked
<1> HIDE DEF d
<1>4. q = Append(p, d)
  BY <1>0 DEF d
<1>5. Front(q) = p /\ Last(q) = d /\ q # <<>>
  <2>1. p \in Seq(Low)
    BY <1>2, <1>3, SeqMonotonic
  <2> QED
    BY <1>3, <1>4, <2>1, AppendIs
<1>6. q \in Paths => d \in Asked
  <2> SUFFICES ASSUME q \in Paths PROVE d \in Asked
    OBVIOUS
  <2>1. q \in Seq(Asked)
    BY <1>2
  <2> QED
    BY <1>5, <2>1, FrontLast
<1>7. (d \in NextKeys(p) <=> q \in Paths /\ Inner(q)) /\ (d \in TermKeys(p) <=> q \in DOMAIN data)
  BY <1>2, <1>4, <1>6
<1>8. /\ HasKey(NodeAt(p).keys, c) <=> q \in Paths /\ Inner(q)
      /\ HasKey(NodeAt(p).terms, c) <=> q \in DOMAIN data
  <2>1. HasKey(Keyed(NextKeys(p)), c) <=> d \in NextKeys(p)
    BY <1>0, <1>2, KeyedIs DEF d
  <2>2. HasKey(Keyed(TermKeys(p)), c) <=> d \in TermKeys(p)
    BY <1>0, <1>2, KeyedIs DEF d
  <2> QED
    BY <1>1, <1>7, <2>1, <2>2
<1>9. /\ Rank(NodeAt(p).keys, c) = Rank(NodeAt(p).keys, d)
      /\ Rank(NodeAt(p).terms, c) = Rank(NodeAt(p).terms, d)
  BY <1>0, RankSeven DEF d
<1>10. trie_next_(NodeAt(p).terms, NodeAt(p).data, c) = IF q \in DOMAIN data THEN TermSlot(q) ELSE -1
  BY <1>5, <1>8, <1>9, Zenon DEF trie_next_, TermSlot
<1>11. trie_next_(NodeAt(p).keys, NodeAt(p).next, c) = IF q \in Paths /\ Inner(q) THEN LinkSlot(q) ELSE -1
  BY <1>5, <1>8, <1>9, Zenon DEF trie_next_, LinkSlot
<1>12. q \in DOMAIN data => q \in Ended(Nodes)
  BY <1>0, <1>5 DEF Ended
<1>13. q \in Paths /\ Inner(q) => q \in Linked(Nodes)
  BY <1>0, <1>5 DEF Linked
<1>14. \A r \in Linked(Nodes) \cup Ended(Nodes) : Past(r)
  BY AllPast
<1>15. /\ \A r \in Linked(Nodes) : LinkSlot(r) \in Nat
       /\ \A r \in Ended(Nodes) : TermSlot(r) \in Nat
  BY DEF FillInv, SlotsOK
<1>16. /\ \A r \in Linked(Nodes) : aux[LinkSlot(r)] = number[r]
       /\ \A r \in Ended(Nodes) : aux[TermSlot(r)] = data[r]
  BY <1>14 DEF FillInv, WrittenOK
<1>17. Linked(Nodes) \subseteq Nodes
  BY AllPast
<1> QED
  BY <1>5, <1>10, <1>11, <1>12, <1>13, <1>15, <1>16, <1>17 DEF Answers

LEMMA SameBuild ==
  ASSUME BuildInv, UNCHANGED buildVars
  PROVE  /\ BuildInv' /\ \A j : Hidden(j)' <=> Hidden(j)
<1>1. list' = list /\ done' = done /\ kids' = kids /\ data' = data
  BY DEF buildVars
<1>2. TreeOK'
  BY <1>1 DEF BuildInv, TreeOK, Paths
<1>3. \A j : Hidden(j)' <=> Hidden(j)
  BY <1>1 DEF Hidden
<1>4. WordsOK'
  BY <1>1, <1>3 DEF BuildInv, WordsOK, Paths
<1> QED
  BY <1>1, <1>2, <1>3, <1>4 DEF BuildInv

LEMMA SameFill ==
  ASSUME BuildInv, FillInv, AllFilled, UNCHANGED <<buildVars, fillVars>>
  PROVE  FillInv' /\ AllFilled' /\ Nodes' = Nodes
<1>1. UNCHANGED <<kids, data, gbuf, aux, gpos, apos, current, number, entry>>
  BY DEF buildVars, fillVars
<1>2. Nodes' = Nodes /\ Linked(Nodes)' = Linked(Nodes)
  BY <1>1 DEF Nodes, Linked, Paths, Inner
<1>3. \A r : Past(r)' <=> Past(r)
  BY <1>1 DEF Past
<1>4. CallsOK'
  BY <1>1, <1>2, <1>3 DEF FillInv, CallsOK
<1>5. FillInv'
  BY <1>1, <1>4, SameLayout
<1>6. AllFilled'
  BY <1>1, <1>2 DEF AllFilled
<1> QED
  BY <1>2, <1>5, <1>6

LEMMA AskInv ==
  ASSUME BuildInv, FillInv, Ask
  PROVE  WalkInv'
<1>1. /\ query' \in Queries(list) /\ node' = 0 /\ here' = 1 /\ answer' = 0 /\ number' = number
  BY DEF Ask, fillVars
<1>2. query' \in Seq(Char) \ {<<>>}
  BY <1>1, QueryAssumption DEF BuildInv
<1>3. <<>> \in Nodes /\ number[<<>>] = 0
  BY DEF FillInv, NodesOK
<1>4. PICK x : x = query'
  OBVIOUS
<1>5. x \in Seq(Char) /\ Len(x) \in Nat /\ Len(x) # 0
  BY <1>2, <1>4, LenProperties, EmptySeq
<1>6. 1 \in 1 .. Len(x)
  BY <1>5
<1>7. Seven(SubSeq(x, 1, 0)) = <<>>
  BY <1>5, <1>6, SevenNext
<1>8. Nodes' = Nodes
  BY <1>1 DEF Nodes
<1>9. here' - 1 = 0
  BY <1>1
<1> QED
  BY <1>1, <1>3, <1>4, <1>5, <1>6, <1>7, <1>8, <1>9 DEF WalkInv, Seven

\* The node of the walk, and the path it looks for.
WalkAt(p, c, q) ==
  /\ p = Seven(SubSeq(query, 1, here - 1)) /\ c = query[here] /\ q = Append(p, c % 128)
  /\ p \in Nodes /\ p \in Seq(Low) /\ c \in Char /\ Len(p) = here - 1
  /\ gbuf[node] = NodeAt(p)
  /\ q = Seven(SubSeq(query, 1, here)) /\ q \in Seq(Low) /\ Len(q) = here
  /\ IsPrefix(q, Seven(query)) /\ Seven(query) \in Seq(Low) /\ Len(Seven(query)) = Len(query)
  /\ Len(query) \in Nat /\ here \in 1 .. Len(query)
  /\ here = Len(query) => q = Seven(query)

LEMMA WalkIs ==
  ASSUME WalkInv
  PROVE  \E p, c, q : WalkAt(p, c, q)
<1>1. PICK p : p = Seven(SubSeq(query, 1, here - 1))
  OBVIOUS
<1>2. PICK c : c = query[here]
  OBVIOUS
<1>3. PICK q : q = Append(p, c % 128)
  OBVIOUS
<1>4. query \in Seq(Char) /\ here \in 1 .. Len(query) /\ p \in Nodes /\ node = number[p]
  BY <1>1 DEF WalkInv
<1>5. /\ c \in Char /\ p \in Seq(Low) /\ c % 128 \in Low /\ Len(p) = here - 1
      /\ SubSeq(query, 1, here) \in Seq(Char)
      /\ q = Seven(SubSeq(query, 1, here)) /\ IsPrefix(q, Seven(query))
      /\ SubSeq(query, 1, Len(query)) = query
  <2>1. PICK x : x = query
    OBVIOUS
  <2>2. PICK h : h = here
    OBVIOUS
  <2>3. x \in Seq(Char) /\ h \in 1 .. Len(x)
    BY <1>4, <2>1, <2>2
  <2>4. /\ SubSeq(x, 1, h) \in Seq(Char) /\ x[h] \in Char
        /\ Seven(SubSeq(x, 1, h - 1)) \in Seq(Low) /\ x[h] % 128 \in Low
        /\ Len(Seven(SubSeq(x, 1, h - 1))) = h - 1
        /\ Seven(SubSeq(x, 1, h)) = Append(Seven(SubSeq(x, 1, h - 1)), x[h] % 128)
        /\ IsPrefix(Seven(SubSeq(x, 1, h)), Seven(x))
        /\ SubSeq(x, 1, Len(x)) = x
    BY <2>3, SevenNext
  <2> QED
    BY <1>1, <1>2, <1>3, <2>1, <2>2, <2>4, Zenon
<1>6. Seven(query) \in Seq(Low) /\ Len(Seven(query)) = Len(query) /\ Len(query) \in Nat
  BY <1>4, SevenIs
<1>7. q \in Seq(Low) /\ Len(q) = Len(p) + 1
  BY <1>3, <1>5, AppendIs
<1>8. Len(q) = here
  BY <1>4, <1>5, <1>7
<1>9. here = Len(query) => q = Seven(query)
  BY <1>5
<1>10. gbuf[node] = NodeAt(p)
  BY <1>4 DEF NodeAt
<1>11. WalkAt(p, c, q)
  BY <1>1, <1>2, <1>3, <1>4, <1>5, <1>6, <1>7, <1>8, <1>9, <1>10 DEF WalkAt
<1> QED
  BY <1>11

LEMMA WordEndRight ==
  ASSUME BuildInv, FillInv, AllFilled, WalkInv, done = Len(list), WordEnd
  PROVE  LookupRight'
<1>1. PICK p, c, q : WalkAt(p, c, q)
  BY WalkIs
<1>2. /\ here = Len(query) /\ query' = query /\ list' = list
      /\ answer' = IF Hit(TermIdx) THEN aux[TermIdx] ELSE 0
  BY DEF WordEnd, buildVars
<1>3. q = Seven(query)
  BY <1>1, <1>2 DEF WalkAt
<1>4. /\ trie_next_(NodeAt(p).terms, NodeAt(p).data, c) = IF q \in DOMAIN data THEN TermSlot(q) ELSE -1
      /\ q \in DOMAIN data => TermSlot(q) \in Nat /\ aux[TermSlot(q)] = data[q]
  <2>1. Goes(p, c, q)
    BY <1>1 DEF WalkAt, Goes
  <2>2. Answers(p, c, q)
    BY <2>1, NodeAnswers
  <2> QED
    BY <2>2, Zenon DEF Answers
<1>5. TermIdx = IF q \in DOMAIN data THEN TermSlot(q) ELSE -1
  BY <1>1, <1>4, Zenon DEF TermIdx, WalkAt
<1>6. /\ \A r \in DOMAIN data : data[r] \in 1 .. done /\ list[data[r]] = r /\ ~ Hidden(data[r])
      /\ \A w \in 1 .. done : list[w] \in DOMAIN data \/ Hidden(w)
      /\ DOMAIN list = 1 .. done
  BY WordsAre DEF BuildInv, WordsOK
<1>7. \A j : Hidden(j)' <=> Hidden(j)
  BY <1>2 DEF Hidden
<1>8. Seven(query)' = q
  BY <1>2, <1>3 DEF Seven
<1>9. CASE q \in DOMAIN data
  <2>1. answer' = data[q]
    <3>1. TermIdx \in Nat
      BY <1>4, <1>5, <1>9
    <3>2. Hit(TermIdx)
      BY <3>1 DEF Hit
    <3> QED
      BY <1>2, <1>4, <1>5, <1>9, <3>2
  <2>2. data[q] \in 1 .. done /\ list[data[q]] = q /\ ~ Hidden(data[q])
    BY <1>6, <1>9
  <2> DEFINE a == data[q]
  <2> HIDE DEF a
  <2>3. a # 0
    BY <2>2 DEF a
  <2> QED
    BY <1>2, <1>6, <1>7, <1>8, <2>1, <2>2, <2>3 DEF LookupRight, a
<1>10. CASE q \notin DOMAIN data
  <2>1. TermIdx = -1
    BY <1>5, <1>10
  <2>2. ~ Hit(TermIdx)
    BY <2>1 DEF Hit
  <2>3. answer' = 0
    BY <1>2, <2>2
  <2>4. \A w \in DOMAIN list : list[w] = q => Hidden(w)
    BY <1>6, <1>10
  <2> QED
    BY <1>2, <1>7, <1>8, <2>3, <2>4 DEF LookupRight
<1> QED
  BY <1>9, <1>10

LEMMA FollowInv ==
  ASSUME BuildInv, FillInv, AllFilled, WalkInv, done = Len(list), stage = "walk", Follow
  PROVE  \/ stage' = "walk" /\ WalkInv'
         \/ stage' = "answered" /\ LookupRight'
<1>1. PICK p, c, q : WalkAt(p, c, q)
  BY WalkIs
<1>2. /\ here < Len(query) /\ query' = query /\ list' = list /\ answer' = answer /\ number' = number
      /\ IF Hit(NextIdx) THEN node' = aux[NextIdx] /\ here' = here + 1 /\ stage' = stage
         ELSE stage' = "answered"
  BY DEF Follow, buildVars, fillVars
<1>3. /\ Front(q) = p /\ q # <<>>
      /\ trie_next_(NodeAt(p).keys, NodeAt(p).next, c) = IF q \in Paths /\ Inner(q) THEN LinkSlot(q) ELSE -1
      /\ q \in Paths /\ Inner(q) => LinkSlot(q) \in Nat /\ aux[LinkSlot(q)] = number[q] /\ q \in Nodes
  <2>1. Goes(p, c, q)
    BY <1>1 DEF WalkAt, Goes
  <2>2. Answers(p, c, q)
    BY <2>1, NodeAnswers
  <2> QED
    BY <2>2, Zenon DEF Answers
<1>4. NextIdx = IF q \in Paths /\ Inner(q) THEN LinkSlot(q) ELSE -1
  BY <1>1, <1>3, Zenon DEF NextIdx, WalkAt
<1>5. query \in Seq(Char) /\ answer = 0
  BY DEF WalkInv
<1>6. CASE q \in Paths /\ Inner(q)
  <2>1. Hit(NextIdx)
    <3>1. NextIdx \in Nat
      BY <1>3, <1>4, <1>6
    <3> QED
      BY <3>1 DEF Hit
  <2>2. node' = number[q] /\ here' = here + 1 /\ stage' = "walk" /\ q \in Nodes
    BY <1>2, <1>3, <1>4, <1>6, <2>1
  <2>3. here' \in 1 .. Len(query) /\ here' - 1 = here
    BY <1>1, <1>2, <2>2 DEF WalkAt
  <2>4. q = Seven(SubSeq(query, 1, here))
    BY <1>1 DEF WalkAt
  <2>5. Nodes' = Nodes
    BY <1>2 DEF Nodes
  <2>6. WalkInv'
    BY <1>2, <1>5, <2>2, <2>3, <2>4, <2>5 DEF WalkInv, Seven
  <2> QED
    BY <2>2, <2>6
\* No word of the list goes on from here.
<1>7. CASE ~ (q \in Paths /\ Inner(q))
  <2>1. NextIdx = -1
    BY <1>4, <1>7
  <2>2. ~ Hit(NextIdx)
    BY <2>1 DEF Hit
  <2>3. stage' = "answered" /\ answer' = 0
    BY <1>2, <1>5, <2>2
  <2>4. ASSUME NEW w \in DOMAIN list, list[w] = Seven(query)
        PROVE  FALSE
    <3>1. w \in 1 .. done
      BY WordsAre DEF BuildInv
    <3> DEFINE x == Seven(query)
    <3>2. x \in Paths
      BY <2>4, <3>1 DEF BuildInv, WordsOK
    <3>3. Paths \subseteq Seq(Asked) /\ \A r \in Paths : r # <<>> => Front(r) \in Paths
      BY DEF BuildInv, TreeOK
    <3>4. Paths \subseteq Seq(Low)
      <4>1. Asked \subseteq Low
        BY DEF Asked, Low
      <4>2. Seq(Asked) \subseteq Seq(Low)
        BY <4>1, SeqMonotonic
      <4> QED
        BY <3>3, <4>2
    <3>5. q \in Seq(Low) /\ x \in Seq(Low) /\ IsPrefix(q, x) /\ Len(q) = here /\ Len(x) = Len(query) /\ here \in Nat
      BY <1>1 DEF WalkAt
    <3> HIDE DEF x
    <3>6. q \in Paths
      BY <3>2, <3>3, <3>4, <3>5, BeginsInside
    <3> DEFINE d == x[Len(q) + 1]
               r == Append(q, d)
    <3>7. Len(q) < Len(x) /\ Len(x) \in Nat /\ Len(q) \in Nat
      BY <1>2, <3>5, LenProperties
    <3>8. d \in Low
      <4>1. Len(q) + 1 \in 1 .. Len(x)
        BY <3>7
      <4> QED
        BY <3>5, <4>1, ElementOfSeq
    <3>9. IsPrefix(r, x)
      <4> HIDE DEF d
      <4>1. IsPrefix(Append(q, d), x) <=> IsPrefix(q, x) /\ Len(q) < Len(x) /\ x[Len(q) + 1] = d
        BY <3>5, <3>8, PrefixNext
      <4> QED
        BY <3>5, <3>7, <4>1 DEF d
    <3> HIDE DEF d
    <3>10. r \in Seq(Low) /\ Front(r) = q /\ r # <<>>
      BY <3>5, <3>8, AppendIs
    <3> HIDE DEF r
    <3>11. r \in Paths
      BY <3>2, <3>3, <3>4, <3>9, <3>10, BeginsInside
    <3>12. Inner(q)
      BY <3>10, <3>11, ParentOf
    <3> QED
      BY <1>7, <3>6, <3>12
  <2>5. Seven(query)' = Seven(query)
    BY <1>2 DEF Seven
  <2>6. LookupRight'
    BY <1>2, <2>3, <2>4, <2>5 DEF LookupRight
  <2> QED
    BY <2>3, <2>6
<1> QED
  BY <1>6, <1>7

------------------------------------------------------------------------------
(* The specification *)

LEMMA TrieInit == Init => TrieInv
<1> SUFFICES ASSUME Init PROVE TrieInv
  OBVIOUS
<1>1. /\ stage = "insert" /\ list \in Lists /\ done = 0 /\ kids = [p \in {<<>>} |-> <<>>] /\ data = <<>>
      /\ gbuf = <<>> /\ aux = <<>> /\ gpos = 0 /\ apos = 0 /\ number = <<>> /\ entry = <<>>
  BY DEF Init
<1>2. PICK r : r = <<>>
  OBVIOUS
<1>3. Paths = {r} /\ kids[r] = r /\ r \in Seq(Asked) /\ Len(r) = 0 /\ DOMAIN data = {} /\ ToSet(kids[r]) = {}
  BY <1>1, <1>2 DEF Paths, ToSet
<1>4. TreeOK
  <2>1. \A c \in Asked : Append(r, c) # r
    BY <1>2, <1>3, AppendIs
  <2>2. IsFiniteSet({r})
    BY FS_Singleton
  <2>3. kids \in [{r} -> Seq(Asked)]
    BY <1>1, <1>2, <1>3
  <2>4. \A j, k \in 1 .. Len(kids[r]) : FALSE
    BY <1>3
  <2> QED
    BY <1>2, <1>3, <2>1, <2>2, <2>3, <2>4 DEF TreeOK
<1>5. WordsOK
  <2>1. \A w \in 1 .. done : FALSE
    BY <1>1
  <2> QED
    BY <1>2, <1>3, <2>1 DEF WordsOK
<1>6. done \in 0 .. Len(list)
  BY <1>1, WordsAre
<1> QED
  BY <1>1, <1>4, <1>5, <1>6 DEF TrieInv, BuildInv, LookupRight

LEMMA TrieNext == TrieInv /\ [Next]_vars => TrieInv'
<1> SUFFICES ASSUME TrieInv, [Next]_vars PROVE TrieInv'
  OBVIOUS
<1>1. /\ BuildInv /\ stage \in {"insert", "fill", "idle", "walk", "answered"}
      /\ stage = "insert" => gbuf = <<>> /\ aux = <<>> /\ number = <<>> /\ entry = <<>> /\ gpos = 0 /\ apos = 0
      /\ stage # "insert" => done = Len(list) /\ FillInv
      /\ stage \in {"idle", "walk", "answered"} => AllFilled
      /\ stage = "walk" => WalkInv
      /\ LookupRight
  BY Zenon DEF TrieInv
<1>2. CASE Insert
  <2>1. stage = "insert" /\ stage' = stage
        /\ gbuf' = gbuf /\ aux' = aux /\ number' = number /\ entry' = entry /\ gpos' = gpos /\ apos' = apos
    BY <1>2 DEF Insert, fillVars
  <2>2. BuildInv'
    BY <1>1, <1>2, InsertInv
  <2>3. LookupRight'
    BY <2>1 DEF LookupRight
  <2> QED
    BY <1>1, <2>1, <2>2, <2>3 DEF TrieInv
<1>3. CASE Fill
  <2>1. stage = "insert" /\ stage' = "fill" /\ done = Len(list) /\ UNCHANGED buildVars
    BY <1>3 DEF Fill
  <2>2. BuildInv' /\ done' = done /\ list' = list
    BY <1>1, <2>1, SameBuild DEF buildVars
  <2>3. FillInv'
    BY <1>1, <1>3, <2>1, FillStart
  <2>4. LookupRight'
    BY <2>1 DEF LookupRight
  <2> QED
    BY <2>1, <2>2, <2>3, <2>4 DEF TrieInv
<1>4. CASE FillEntry
  <2>1. stage = "fill" /\ stage' = stage /\ UNCHANGED buildVars
    BY <1>4 DEF FillEntry
  <2>2. BuildInv' /\ done' = done /\ list' = list
    BY <1>1, <2>1, SameBuild DEF buildVars
  <2>3. FillInv'
    BY <1>1, <1>4, <2>1, FillEntryInv
  <2>4. LookupRight'
    BY <2>1 DEF LookupRight
  <2> QED
    BY <1>1, <2>1, <2>2, <2>3, <2>4 DEF TrieInv
<1>5. CASE FillReturn
  <2>1. stage = "fill"
    BY <1>5 DEF FillReturn
  <2>2. /\ BuildInv' /\ FillInv' /\ (stage' = "idle" => AllFilled')
        /\ stage' \in {"fill", "idle"} /\ done' = done /\ list' = list
    BY <1>1, <1>5, <2>1, FillReturnInv
  <2>3. LookupRight'
    BY <2>2 DEF LookupRight
  <2> QED
    BY <1>1, <2>1, <2>2, <2>3 DEF TrieInv
<1>6. CASE Ask
  <2>1. stage \in {"idle", "answered"} /\ stage' = "walk" /\ UNCHANGED <<buildVars, fillVars>>
    BY <1>6 DEF Ask
  <2>2. done = Len(list) /\ FillInv /\ AllFilled
    BY <1>1, <2>1
  <2>3. BuildInv' /\ done' = done /\ list' = list
    BY <1>1, <2>1, SameBuild DEF buildVars
  <2>4. FillInv' /\ AllFilled'
    BY <1>1, <2>1, <2>2, SameFill
  <2>5. WalkInv'
    BY <1>1, <1>6, <2>2, AskInv
  <2>6. LookupRight'
    BY <2>1 DEF LookupRight
  <2> QED
    BY <2>1, <2>2, <2>3, <2>4, <2>5, <2>6 DEF TrieInv
<1>7. CASE WordEnd
  <2>1. stage = "walk" /\ stage' = "answered" /\ UNCHANGED <<buildVars, fillVars>>
    BY <1>7 DEF WordEnd
  <2>2. done = Len(list) /\ FillInv /\ AllFilled /\ WalkInv
    BY <1>1, <2>1
  <2>3. BuildInv' /\ done' = done /\ list' = list
    BY <1>1, <2>1, SameBuild DEF buildVars
  <2>4. FillInv' /\ AllFilled'
    BY <1>1, <2>1, <2>2, SameFill
  <2>5. LookupRight'
    BY <1>1, <1>7, <2>2, WordEndRight
  <2> QED
    BY <2>1, <2>2, <2>3, <2>4, <2>5 DEF TrieInv
<1>8. CASE Follow
  <2>1. stage = "walk" /\ UNCHANGED <<buildVars, fillVars>>
    BY <1>8 DEF Follow
  <2>2. done = Len(list) /\ FillInv /\ AllFilled /\ WalkInv
    BY <1>1, <2>1
  <2>3. BuildInv' /\ done' = done /\ list' = list
    BY <1>1, <2>1, SameBuild DEF buildVars
  <2>4. FillInv' /\ AllFilled'
    BY <1>1, <2>1, <2>2, SameFill
  <2>5. \/ stage' = "walk" /\ WalkInv'
        \/ stage' = "answered" /\ LookupRight'
    BY <1>1, <1>8, <2>1, <2>2, FollowInv
  <2>6. LookupRight'
    BY <2>5 DEF LookupRight
  <2> QED
    BY <2>2, <2>3, <2>4, <2>5, <2>6 DEF TrieInv
<1>9. CASE UNCHANGED vars
  <2>1. UNCHANGED <<stage, list, done, kids, data, gbuf, aux, gpos, apos, current, number, entry,
                    query, node, here, answer>> /\ UNCHANGED buildVars
    BY <1>9 DEF vars, buildVars, fillVars, walkVars
  <2>2. BuildInv' /\ \A j : Hidden(j)' <=> Hidden(j)
    BY <1>1, <2>1, SameBuild
  <2>3. Nodes' = Nodes /\ Linked(Nodes)' = Linked(Nodes) /\ \A r : Past(r)' <=> Past(r)
    BY <2>1 DEF Nodes, Linked, Paths, Inner, Past
  <2>4. FillInv => FillInv'
    <3> SUFFICES ASSUME FillInv PROVE FillInv'
      OBVIOUS
    <3>1. CallsOK'
      BY <2>1, <2>3 DEF FillInv, CallsOK
    <3> QED
      BY <1>1, <2>1, <3>1, SameLayout
  <2>5. AllFilled => AllFilled'
    BY <2>1, <2>3 DEF AllFilled
  <2>6. WalkInv => WalkInv'
    BY <2>1, <2>3 DEF WalkInv, Seven
  <2>7. LookupRight'
    BY <1>1, <2>1, <2>2 DEF LookupRight, Seven
  <2> QED
    BY <1>1, <2>1, <2>2, <2>4, <2>5, <2>6, <2>7 DEF TrieInv
<1> QED
  BY <1>2, <1>3, <1>4, <1>5, <1>6, <1>7, <1>8, <1>9 DEF Next

\* The tree is one, its layout has a slot for every node and word, each written
\* when the loop before it is past its entry, and the walk follows a path.
THEOREM TrieInvariant == Spec => []TrieInv
<1>1. Init => TrieInv
  BY TrieInit
<1>2. TrieInv /\ [Next]_vars => TrieInv'
  BY TrieNext
<1> QED
  BY <1>1, <1>2, PTL DEF Spec

\* For all lists of words, in any order, and all lines: trie_builder_insert,
\* gbuf_fill and the walk of parse_line together find exactly the words that no
\* earlier one hides.
THEOREM TrieLookupRight == Spec => []LookupRight
<1>1. TrieInv => LookupRight
  BY DEF TrieInv
<1> QED
  BY <1>1, TrieInvariant, PTL

\* gbuf_fill writes all the nodes and slots gbuf_size counted and no other, for
\* every tree the builder makes.
THEOREM TrieLayoutFits == Spec => []LayoutFits
<1>1. TrieInv => LayoutFits
  <2> SUFFICES ASSUME TrieInv, stage \notin {"insert", "fill"}
               PROVE  DOMAIN gbuf = 0 .. GbufSize /\ DOMAIN aux = 0 .. AuxSize - 1
    BY DEF LayoutFits
  <2>1. BuildInv /\ FillInv /\ AllFilled
    BY DEF TrieInv
  <2> QED
    BY <2>1, LayoutIs
<1> QED
  BY <1>1, TrieInvariant, PTL
==============================================================================
