--------------------------- MODULE RegisterProofs ---------------------------
(***************************************************************************)
(* What parse_reg yields on every text: exactly the register the first     *)
(* word spells, and a number that fits into the five bits an instruction   *)
(* has for it, read from characters of the text.                           *)
(***************************************************************************)
EXTENDS Register, SequenceTheorems, WellFoundedInduction, TLAPS

\* A reading that starts at i: its number fits, and its last character is one of t.
IsRegister(r, t, i) ==
  r.number \in 0 .. 31 /\ r.next \in i + 2 .. i + 4 /\ at(t, r.next - 1) # "NL"

------------------------------------------------------------------------------
(* White space and words *)

LEMMA Least ==
  ASSUME NEW S \in SUBSET Nat, S # {}
  PROVE  \E x \in S : \A y \in S : x <= y
<1> DEFINE R == OpToRel(<, Nat)
<1>1. IsWellFoundedOn(R, Nat)
  BY NatLessThanWellFounded, Zenon
<1>2. \A a, b \in Nat : a < b => <<a, b>> \in R
  BY DEF OpToRel
<1> HIDE DEF R
<1>3. PICK x \in S : \A y \in S : ~ (<<y, x>> \in R)
  BY <1>1, WFMin
<1>4. ASSUME NEW y \in S
      PROVE  x <= y
  <2>1. x \in Nat /\ y \in Nat
    OBVIOUS
  <2>2. ~ (y < x)
    BY <1>2, <1>3, <2>1, Zenon
  <2> QED
    BY <2>1, <2>2
<1> QED
  BY <1>4

\* Characters of a kind end at the newline behind the text at the latest.
LEMMA FirstOutside ==
  ASSUME NEW t \in Seq(STRING), NEW i \in 1 .. Len(t) + 1, NEW C, "NL" \notin C
  PROVE  \E k \in i .. Len(t) + 1 :
           at(t, k) \notin C /\ \A j \in i .. k - 1 : at(t, j) \in C
<1> DEFINE S == {k \in i .. Len(t) + 1 : at(t, k) \notin C}
<1>1. Len(t) \in Nat
  OBVIOUS
<1>2. Len(t) + 1 \in S
  <2>1. Len(t) + 1 \notin DOMAIN t
    BY <1>1
  <2>2. at(t, Len(t) + 1) = "NL"
    BY <2>1 DEF at
  <2>3. at(t, Len(t) + 1) \notin C
    BY <2>2
  <2>4. Len(t) + 1 \in i .. Len(t) + 1
    BY <1>1
  <2> QED
    BY <2>3, <2>4
<1>3. S \in SUBSET Nat
  BY <1>1
<1>4. PICK k \in S : \A y \in S : k <= y
  BY <1>2, <1>3, Least
<1>5. k \in i .. Len(t) + 1 /\ at(t, k) \notin C
  OBVIOUS
<1>6. ASSUME NEW j \in i .. k - 1
      PROVE  at(t, j) \in C
  <2>1. j \in i .. Len(t) + 1 /\ ~ (k <= j)
    BY <1>1, <1>5
  <2> QED
    BY <1>4, <2>1
<1> QED
  BY <1>5, <1>6

LEMMA SkipStops ==
  ASSUME NEW t \in Seq(STRING), NEW i \in 1 .. Len(t) + 1
  PROVE  skip_whitespace(t, i) \in i .. Len(t) + 1
BY FirstOutside DEF skip_whitespace, Whitespace

------------------------------------------------------------------------------
(* The names of registers *)

LEMMA DigitRange ==
  ASSUME NEW c \in Digits
  PROVE  DigitValue[c] \in 0 .. 9
BY DEF Digits, DigitValue

LEMMA DigitIsText ==
  ASSUME NEW c \in Digits
  PROVE  c # "NL"
BY DEF Digits, DigitValue

\* One digit or two are read, or nothing.
LEMMA LongNumber ==
  ASSUME NEW t, NEW i \in Nat, parse_reg_long_number(t, i) # Nothing
  PROVE  \E n \in 0 .. 99, next \in {i + 1, i + 2} :
           parse_reg_long_number(t, i) = Reading(n, next) /\ at(t, next - 1) # "NL"
<1>1. at(t, i) \in Digits
  BY DEF parse_reg_long_number
<1>2. CASE at(t, i + 1) \notin Digits
  <2>1. parse_reg_long_number(t, i) = Reading(DigitValue[at(t, i)], i + 1)
    BY <1>1, <1>2 DEF parse_reg_long_number
  <2>2. DigitValue[at(t, i)] \in 0 .. 99
    BY <1>1, DigitRange
  <2>3. at(t, (i + 1) - 1) # "NL"
    BY <1>1, DigitIsText
  <2> QED
    BY <2>1, <2>2, <2>3
<1>3. CASE at(t, i + 1) \in Digits
  <2>1. parse_reg_long_number(t, i)
          = Reading(10 * DigitValue[at(t, i)] + DigitValue[at(t, i + 1)], i + 2)
    BY <1>1, <1>3 DEF parse_reg_long_number
  <2>2. DigitValue[at(t, i)] \in 0 .. 9 /\ DigitValue[at(t, i + 1)] \in 0 .. 9
    BY <1>1, <1>3, DigitRange
  <2>3. 10 * DigitValue[at(t, i)] + DigitValue[at(t, i + 1)] \in 0 .. 99
    BY <2>2
  <2>4. (i + 2) - 1 = i + 1
    OBVIOUS
  <2>5. at(t, (i + 2) - 1) # "NL"
    BY <1>3, <2>4, DigitIsText
  <2> QED
    BY <2>1, <2>3, <2>5
<1> QED
  BY <1>2, <1>3

LEMMA NumberedFits ==
  ASSUME NEW t, NEW i \in Nat, NEW places,
         DOMAIN places \subseteq Nat, \A n \in DOMAIN places : places[n] \in 0 .. 31,
         Numbered(t, i, places) # Nothing
  PROVE  IsRegister(Numbered(t, i, places), t, i)
<1> DEFINE n == parse_reg_long_number(t, i + 1)
<1>1. n.number \in DOMAIN places /\ Numbered(t, i, places) = Reading(places[n.number], n.next)
  BY DEF Numbered
<1>2. n # Nothing
  BY <1>1 DEF Nothing
<1>3. PICK k \in 0 .. 99, next \in {(i + 1) + 1, (i + 1) + 2} :
        n = Reading(k, next) /\ at(t, next - 1) # "NL"
  <2>1. i + 1 \in Nat
    OBVIOUS
  <2> QED
    BY <1>2, <2>1, LongNumber, Zenon
<1>4. n.next = next
  BY <1>3 DEF Reading
<1> HIDE DEF n
<1>5. next \in i + 2 .. i + 4
  OBVIOUS
<1>6. places[n.number] \in 0 .. 31
  BY <1>1
<1>7. Numbered(t, i, places) = Reading(places[n.number], next)
  BY <1>1, <1>4
<1> QED
  BY <1>3, <1>5, <1>6, <1>7 DEF IsRegister, Reading

LEMMA NamedFits ==
  ASSUME NEW t, NEW i \in Nat, NEW name, NEW number \in 0 .. 31, NEW k \in 1 .. 3,
         k = Len(name), k \in DOMAIN name, name[k] # "NL", Named(t, i, name, number) # Nothing
  PROVE  IsRegister(Named(t, i, name, number), t, i)
<1>1. Named(t, i, name, number) = Reading(number, i + 1 + k) /\ at(t, i + k) = name[k]
  BY DEF Named
<1>2. i + 1 + k \in i + 2 .. i + 4 /\ (i + 1 + k) - 1 = i + k
  OBVIOUS
<1>3. at(t, (i + 1 + k) - 1) # "NL"
  BY <1>1, <1>2
<1> QED
  BY <1>1, <1>2, <1>3 DEF IsRegister, Reading

\* What the switch of parse_reg reads in any text, at any place, is a register.
THEOREM RegisterFits ==
  ASSUME NEW t, NEW i \in Nat, RegisterAt(t, i) # Nothing
  PROVE  IsRegister(RegisterAt(t, i), t, i)
<1> DEFINE r == RegisterAt(t, i)
           Numbers == {XNumbers, SNumbers, TNumbers, ANumbers}
<1>1. \/ \E places \in Numbers : r = Numbered(t, i, places)
      \/ r = Named(t, i, <<"e", "r", "o">>, 0)
      \/ r = Named(t, i, <<"a">>, 1)
      \/ r = Named(t, i, <<"p">>, 3)
      \/ r = Named(t, i, <<"p">>, 8)
      \/ at(t, i + 1) = "p" /\ r = Reading(2, i + 2)
      \/ at(t, i + 1) = "p" /\ r = Reading(4, i + 2)
  BY Zenon DEF RegisterAt
<1> HIDE DEF r
<1>2. ASSUME NEW places \in Numbers, r = Numbered(t, i, places)
      PROVE  IsRegister(r, t, i)
  <2>1. DOMAIN places \subseteq Nat /\ \A n \in DOMAIN places : places[n] \in 0 .. 31
    BY DEF XNumbers, SNumbers, TNumbers, ANumbers
  <2> QED
    BY <1>2, <2>1, NumberedFits DEF r
<1>3. CASE r = Named(t, i, <<"e", "r", "o">>, 0)
  BY <1>3, NamedFits DEF r
<1>4. CASE r = Named(t, i, <<"a">>, 1)
  BY <1>4, NamedFits DEF r
<1>5. CASE r = Named(t, i, <<"p">>, 3)
  BY <1>5, NamedFits DEF r
<1>6. CASE r = Named(t, i, <<"p">>, 8)
  BY <1>6, NamedFits DEF r
<1>7. ASSUME NEW number \in {2, 4}, at(t, i + 1) = "p", r = Reading(number, i + 2)
      PROVE  IsRegister(r, t, i)
  <2>1. at(t, (i + 2) - 1) = "p"
    BY <1>7
  <2> QED
    BY <1>7, <2>1 DEF IsRegister, Reading
<1> QED
  BY <1>1, <1>2, <1>3, <1>4, <1>5, <1>6, <1>7 DEF r

------------------------------------------------------------------------------
(* Digits *)

Digit(v) == CHOOSE c \in Digits : DigitValue[c] = v

LEMMA DigitTable ==
  /\ Digits = {"0", "1", "2", "3", "4", "5", "6", "7", "8", "9"}
  /\ DigitValue["0"] = 0 /\ DigitValue["1"] = 1 /\ DigitValue["2"] = 2 /\ DigitValue["3"] = 3
  /\ DigitValue["4"] = 4 /\ DigitValue["5"] = 5 /\ DigitValue["6"] = 6 /\ DigitValue["7"] = 7
  /\ DigitValue["8"] = 8 /\ DigitValue["9"] = 9
BY DEF Digits, DigitValue

\* Every number below ten has one digit, and a digit is that of its value.
LEMMA DigitOf ==
  ASSUME NEW v \in 0 .. 9
  PROVE  Digit(v) \in Digits /\ DigitValue[Digit(v)] = v
<1>1. \E c \in Digits : DigitValue[c] = v
  BY DigitTable
<1> QED
  BY <1>1 DEF Digit

LEMMA DigitInverse ==
  ASSUME NEW c \in Digits
  PROVE  Digit(DigitValue[c]) = c
<1>1. \A d \in Digits : DigitValue[d] = DigitValue[c] => d = c
  BY DigitTable
<1>2. Digit(DigitValue[c]) \in Digits /\ DigitValue[Digit(DigitValue[c])] = DigitValue[c]
  BY DigitRange, DigitOf
<1> QED
  BY <1>1, <1>2

LEMMA DecimalIs ==
  ASSUME NEW n
  PROVE  Decimal(n) = {<<Digit(n \div 10), Digit(n % 10)>>}
                        \cup IF n < 10 THEN {<<Digit(n)>>} ELSE {}
BY DEF Decimal, Digit

\* The number two digits stand for is written with them.
LEMMA TwoDigits ==
  ASSUME NEW c \in Digits, NEW d \in Digits
  PROVE  <<c, d>> \in Decimal(10 * DigitValue[c] + DigitValue[d])
<1> DEFINE a == DigitValue[c]
           b == DigitValue[d]
<1>1. a \in 0 .. 9 /\ b \in 0 .. 9 /\ Digit(a) = c /\ Digit(b) = d
  BY DigitRange, DigitInverse
<1> HIDE DEF a, b
<1>2. (10 * a + b) \div 10 = a /\ (10 * a + b) % 10 = b
  BY <1>1
<1>3. <<c, d>> \in Decimal(10 * a + b)
  BY <1>1, <1>2, DecimalIs, Zenon
<1> QED
  BY <1>3 DEF a, b

LEMMA OneDigit ==
  ASSUME NEW c \in Digits
  PROVE  <<c>> \in Decimal(DigitValue[c])
<1>1. DigitValue[c] < 10 /\ Digit(DigitValue[c]) = c
  BY DigitRange, DigitInverse
<1> QED
  BY <1>1, DecimalIs

\* How a number below a hundred is written: with two digits, or with one.
LEMMA DecimalDigits ==
  ASSUME NEW n \in 0 .. 99, NEW w \in Decimal(n)
  PROVE  \/ \E c, d \in Digits : w = <<c, d>> /\ n = 10 * DigitValue[c] + DigitValue[d]
         \/ \E c \in Digits : w = <<c>> /\ n = DigitValue[c]
<1>1. CASE w = <<Digit(n \div 10), Digit(n % 10)>>
  <2> DEFINE a == n \div 10
             b == n % 10
  <2>1. a \in 0 .. 9 /\ b \in 0 .. 9 /\ n = 10 * a + b
    OBVIOUS
  <2> HIDE DEF a, b
  <2>2. /\ Digit(a) \in Digits /\ DigitValue[Digit(a)] = a
        /\ Digit(b) \in Digits /\ DigitValue[Digit(b)] = b
    BY <2>1, DigitOf
  <2> QED
    BY <1>1, <2>1, <2>2 DEF a, b
<1>2. CASE n < 10 /\ w = <<Digit(n)>>
  <2>1. n \in 0 .. 9
    BY <1>2
  <2> QED
    BY <1>2, <2>1, DigitOf
<1> QED
  BY <1>1, <1>2, DecimalIs

------------------------------------------------------------------------------
(* The spellings *)

\* The registers whose names are a letter and a number.
LEMMA ConventionIs ==
  /\ DOMAIN Convention = {"x", "t", "s", "a"}
  /\ Convention["x"] = XNumbers /\ Convention["t"] = TNumbers
  /\ Convention["s"] = SNumbers /\ Convention["a"] = ANumbers
<1>1. DOMAIN Convention = {"x", "t", "s", "a"}
  BY DEF Convention
<1>2. Convention["x"] = XNumbers
  BY DEF Convention, XNumbers
<1>3. Convention["t"] = TNumbers
  <2>1. \A n \in 0 .. 6 : << 5, 6, 7, 28, 29, 30, 31 >>[n + 1] = IF n < 3 THEN n + 5 ELSE n + 25
    <3> TAKE n \in 0 .. 6
    <3>1. n = 0 \/ n = 1 \/ n = 2 \/ n = 3 \/ n = 4 \/ n = 5 \/ n = 6
      OBVIOUS
    <3> QED
      BY <3>1
  <2> QED
    BY <2>1 DEF Convention, TNumbers
<1>4. Convention["s"] = SNumbers
  <2>1. \A n \in 0 .. 11 : << 8, 9, 18, 19, 20, 21, 22, 23, 24, 25, 26, 27 >>[n + 1]
                             = IF n < 2 THEN n + 8 ELSE n + 16
    <3> TAKE n \in 0 .. 11
    <3>1. \/ n = 0 \/ n = 1 \/ n = 2 \/ n = 3 \/ n = 4 \/ n = 5 \/ n = 6
          \/ n = 7 \/ n = 8 \/ n = 9 \/ n = 10 \/ n = 11
      OBVIOUS
    <3> QED
      BY <3>1
  <2> QED
    BY <2>1 DEF Convention, SNumbers
<1>5. Convention["a"] = ANumbers
  <2>1. \A n \in 0 .. 7 : << 10, 11, 12, 13, 14, 15, 16, 17 >>[n + 1] = n + 10
    <3> TAKE n \in 0 .. 7
    <3>1. n = 0 \/ n = 1 \/ n = 2 \/ n = 3 \/ n = 4 \/ n = 5 \/ n = 6 \/ n = 7
      OBVIOUS
    <3> QED
      BY <3>1
  <2> QED
    BY <2>1 DEF Convention, ANumbers
<1> QED
  BY <1>1, <1>2, <1>3, <1>4, <1>5

\* w is the letter and the decimal of one of the letter's registers.
IsNumbered(w, l, n) ==
  \E m \in DOMAIN Convention[l] :
    Convention[l][m] = n /\ \E d \in Decimal(m) : w = <<l>> \o d

\* w is one of the names that stand alone.
IsNamed(w, n) ==
  \/ n = 0 /\ w = <<"z", "e", "r", "o">>
  \/ n = 1 /\ w = <<"r", "a">>
  \/ n = 2 /\ w = <<"s", "p">>
  \/ n = 3 /\ w = <<"g", "p">>
  \/ n = 4 /\ w = <<"t", "p">>
  \/ n = 8 /\ w = <<"f", "p">>

LEMMA SpellingsIs ==
  ASSUME NEW n \in 0 .. 31, NEW w
  PROVE  w \in Spellings[n] <=> (\E l \in DOMAIN Convention : IsNumbered(w, l, n)) \/ IsNamed(w, n)
<1> DEFINE Alone == CASE n = 0 -> {<<"z", "e", "r", "o">>}
                      [] n = 1 -> {<<"r", "a">>}
                      [] n = 2 -> {<<"s", "p">>}
                      [] n = 3 -> {<<"g", "p">>}
                      [] n = 4 -> {<<"t", "p">>}
                      [] n = 8 -> {<<"f", "p">>}
                      [] OTHER -> {}
           Of(letter) == UNION {{<<letter>> \o d : d \in Decimal(m)} :
                                  m \in {k \in DOMAIN Convention[letter] : Convention[letter][k] = n}}
           Lettered == UNION {Of(letter) : letter \in DOMAIN Convention}
<1>1. Spellings[n] = Lettered \cup Alone
  BY Zenon DEF Spellings
<1>2. w \in Alone <=> IsNamed(w, n)
  <2>1. CASE n \in {0, 1, 2, 3, 4, 8}
    BY <2>1 DEF IsNamed
  <2>2. CASE n \notin {0, 1, 2, 3, 4, 8}
    <3>1. Alone = {}
      BY <2>2
    <3> QED
      BY <2>2, <3>1 DEF IsNamed
  <2> QED
    BY <2>1, <2>2
<1>3. ASSUME NEW letter
      PROVE  w \in Of(letter) <=> IsNumbered(w, letter, n)
  BY DEF IsNumbered
<1> HIDE DEF Alone, Of
<1>4. w \in Lettered <=> \E letter \in DOMAIN Convention : w \in Of(letter)
  OBVIOUS
<1>5. (\E letter \in DOMAIN Convention : w \in Of(letter))
        <=> \E letter \in DOMAIN Convention : IsNumbered(w, letter, n)
  BY <1>3
<1>6. w \in Lettered <=> \E letter \in DOMAIN Convention : IsNumbered(w, letter, n)
  BY <1>4, <1>5
<1> HIDE DEF Lettered
<1>7. w \in Spellings[n] <=> w \in Lettered \/ w \in Alone
  BY <1>1
<1> QED
  BY <1>2, <1>6, <1>7

LEMMA LetterWord ==
  ASSUME NEW l, NEW c, NEW d
  PROVE  <<l>> \o <<c>> = <<l, c>> /\ <<l>> \o <<c, d>> = <<l, c, d>>
<1> DEFINE S == {l, c, d}
<1>0. l \in S /\ c \in S /\ d \in S
  OBVIOUS
<1> HIDE DEF S
<1>1. ASSUME NEW s \in Seq(S), NEW t \in Seq(S), Len(s) = 2, Len(t) = 2, s[1] = t[1], s[2] = t[2]
      PROVE  s = t
  <2>1. \A i \in 1 .. Len(s) : s[i] = t[i]
    BY <1>1
  <2> QED
    BY <1>1, <2>1, SeqEqual
<1>2. ASSUME NEW s \in Seq(S), NEW t \in Seq(S), Len(s) = 3, Len(t) = 3,
             s[1] = t[1], s[2] = t[2], s[3] = t[3]
      PROVE  s = t
  <2>1. \A i \in 1 .. Len(s) : s[i] = t[i]
    BY <1>2
  <2> QED
    BY <1>2, <2>1, SeqEqual
<1>3. <<l>> \in Seq(S) /\ <<c>> \in Seq(S) /\ <<c, d>> \in Seq(S)
      /\ <<l, c>> \in Seq(S) /\ <<l, c, d>> \in Seq(S)
  BY <1>0
<1>4. /\ <<l>> \o <<c>> \in Seq(S) /\ Len(<<l>> \o <<c>>) = 2
      /\ (<<l>> \o <<c>>)[1] = l /\ (<<l>> \o <<c>>)[2] = c
  BY <1>0
<1>5. /\ <<l>> \o <<c, d>> \in Seq(S) /\ Len(<<l>> \o <<c, d>>) = 3
      /\ (<<l>> \o <<c, d>>)[1] = l /\ (<<l>> \o <<c, d>>)[2] = c
      /\ (<<l>> \o <<c, d>>)[3] = d
  BY <1>0
<1> DEFINE lc == <<l, c>>
           lcd == <<l, c, d>>
           u == <<l>> \o <<c>>
           v == <<l>> \o <<c, d>>
<1>6. Len(lc) = 2 /\ lc[1] = l /\ lc[2] = c
  OBVIOUS
<1>7. Len(lcd) = 3 /\ lcd[1] = l /\ lcd[2] = c /\ lcd[3] = d
  OBVIOUS
<1>8. lc \in Seq(S) /\ lcd \in Seq(S) /\ u \in Seq(S) /\ v \in Seq(S)
  BY <1>3, <1>4, <1>5
<1>9. Len(u) = 2 /\ u[1] = l /\ u[2] = c /\ Len(v) = 3 /\ v[1] = l /\ v[2] = c /\ v[3] = d
  BY <1>4, <1>5
<1> HIDE DEF lc, lcd, u, v
<1>10. u = lc
  BY <1>1, <1>6, <1>8, <1>9
<1>11. v = lcd
  BY <1>2, <1>7, <1>8, <1>9
<1> QED
  BY <1>10, <1>11 DEF lc, lcd, u, v

------------------------------------------------------------------------------
(* What is read is spelled, and what is spelled is read *)

\* The characters of t from i on begin with w.
Holds(t, i, w) == \A k \in 1 .. Len(w) : at(t, i + k - 1) = w[k]

\* The letters and digits of registers are characters of names.
LEMMA CharsOfNames ==
  DOMAIN Convention \cup Digits \cup {"z", "e", "r", "o", "p", "g", "f"} \subseteq IdentifierChars
BY ConventionIs DEF IdentifierChars

LEMMA Holds2 ==
  ASSUME NEW t, NEW i \in Nat, NEW l, NEW c
  PROVE  Holds(t, i, <<l, c>>) <=> at(t, i) = l /\ at(t, i + 1) = c
<1>1. Len(<<l, c>>) = 2 /\ <<l, c>>[1] = l /\ <<l, c>>[2] = c
  OBVIOUS
<1>2. 1 .. 2 = {1, 2} /\ i + 1 - 1 = i /\ i + 2 - 1 = i + 1
  OBVIOUS
<1> QED
  BY <1>1, <1>2 DEF Holds

LEMMA Holds3 ==
  ASSUME NEW t, NEW i \in Nat, NEW l, NEW c, NEW d
  PROVE  Holds(t, i, <<l, c, d>>) <=> at(t, i) = l /\ at(t, i + 1) = c /\ at(t, i + 2) = d
<1>1. Len(<<l, c, d>>) = 3 /\ <<l, c, d>>[1] = l /\ <<l, c, d>>[2] = c /\ <<l, c, d>>[3] = d
  OBVIOUS
<1>2. 1 .. 3 = {1, 2, 3} /\ i + 1 - 1 = i /\ i + 2 - 1 = i + 1 /\ i + 3 - 1 = i + 2
  OBVIOUS
<1> QED
  BY <1>1, <1>2 DEF Holds

LEMMA Holds4 ==
  ASSUME NEW t, NEW i \in Nat, NEW l, NEW c, NEW d, NEW e
  PROVE  Holds(t, i, <<l, c, d, e>>)
           <=> at(t, i) = l /\ at(t, i + 1) = c /\ at(t, i + 2) = d /\ at(t, i + 3) = e
<1>1. /\ Len(<<l, c, d, e>>) = 4 /\ <<l, c, d, e>>[1] = l /\ <<l, c, d, e>>[2] = c
      /\ <<l, c, d, e>>[3] = d /\ <<l, c, d, e>>[4] = e
  OBVIOUS
<1>2. 1 .. 4 = {1, 2, 3, 4} /\ i + 1 - 1 = i /\ i + 2 - 1 = i + 1 /\ i + 3 - 1 = i + 2
      /\ i + 4 - 1 = i + 3
  OBVIOUS
<1> QED
  BY <1>1, <1>2 DEF Holds

\* What Numbered reads is the letter and the decimal of one of its registers.
LEMMA NumberedReading ==
  ASSUME NEW t, NEW i \in Nat, NEW l \in DOMAIN Convention, at(t, i) = l,
         Numbered(t, i, Convention[l]) # Nothing
  PROVE  \E w \in Seq(IdentifierChars), n \in 0 .. 31 :
           /\ IsNumbered(w, l, n) /\ Holds(t, i, w)
           /\ Numbered(t, i, Convention[l]) = Reading(n, i + Len(w))
<1> DEFINE P == Convention[l]
           q == parse_reg_long_number(t, i + 1)
           c == at(t, i + 1)
           d == at(t, i + 2)
<1>0. (i + 1) + 1 = i + 2 /\ (i + 1) + 2 = i + 3
  OBVIOUS
<1>1. q.number \in DOMAIN P /\ Numbered(t, i, P) = Reading(P[q.number], q.next)
  BY DEF Numbered
<1>2. DOMAIN P \subseteq Nat /\ \A m \in DOMAIN P : P[m] \in 0 .. 31
  BY ConventionIs DEF XNumbers, SNumbers, TNumbers, ANumbers
<1>3. c \in Digits
  <2>1. c \notin Digits => q.number = -1
    BY DEF parse_reg_long_number, Nothing
  <2> QED
    BY <1>1, <1>2, <2>1
<1>4. CASE d \notin Digits
  <2> DEFINE w == <<l, c>>
             m == DigitValue[c]
  <2>1. q = Reading(m, i + 2)
    BY <1>0, <1>3, <1>4 DEF parse_reg_long_number
  <2>2. m \in DOMAIN P /\ Numbered(t, i, P) = Reading(P[m], i + 2)
    BY <1>1, <2>1 DEF Reading
  <2>3. w \in Seq(IdentifierChars) /\ Len(w) = 2 /\ w = <<l>> \o <<c>>
    BY <1>3, CharsOfNames, LetterWord
  <2>4. IsNumbered(w, l, P[m])
    BY <1>3, <2>2, <2>3, OneDigit DEF IsNumbered
  <2>5. Holds(t, i, w)
    BY Holds2
  <2>6. P[m] \in 0 .. 31
    BY <1>2, <2>2
  <2> HIDE DEF w, P
  <2>7. Numbered(t, i, P) = Reading(P[m], i + Len(w))
    BY <2>2, <2>3
  <2> QED
    BY <2>3, <2>4, <2>5, <2>6, <2>7 DEF P
<1>5. CASE d \in Digits
  <2> DEFINE w == <<l, c, d>>
             m == 10 * DigitValue[c] + DigitValue[d]
  <2>1. q = Reading(m, i + 3)
    BY <1>0, <1>3, <1>5 DEF parse_reg_long_number
  <2>2. m \in DOMAIN P /\ Numbered(t, i, P) = Reading(P[m], i + 3)
    BY <1>1, <2>1 DEF Reading
  <2>3. w \in Seq(IdentifierChars) /\ Len(w) = 3 /\ w = <<l>> \o <<c, d>>
    BY <1>3, <1>5, CharsOfNames, LetterWord
  <2>4. <<c, d>> \in Decimal(m)
    BY <1>3, <1>5, TwoDigits
  <2>5. IsNumbered(w, l, P[m])
    BY <2>2, <2>3, <2>4 DEF IsNumbered
  <2>6. Holds(t, i, w)
    BY Holds3
  <2>7. P[m] \in 0 .. 31
    BY <1>2, <2>2
  <2> HIDE DEF w, P, m
  <2>8. Numbered(t, i, P) = Reading(P[m], i + Len(w))
    BY <2>2, <2>3
  <2> QED
    BY <2>3, <2>5, <2>6, <2>7, <2>8 DEF P
<1> QED
  BY <1>4, <1>5

\* And where the letter and the decimal stand, whole, Numbered reads them.
LEMMA NumberedRead ==
  ASSUME NEW t, NEW i \in Nat, NEW l \in DOMAIN Convention, NEW n, NEW w,
         IsNumbered(w, l, n), Holds(t, i, w), at(t, i + Len(w)) \notin Digits
  PROVE  /\ Numbered(t, i, Convention[l]) = Reading(n, i + Len(w))
         /\ at(t, i) = l /\ at(t, i + 1) \in Digits
<1> DEFINE P == Convention[l]
           q == parse_reg_long_number(t, i + 1)
<1>0. (i + 1) + 1 = i + 2 /\ (i + 1) + 2 = i + 3
  OBVIOUS
<1>1. PICK m \in DOMAIN P : P[m] = n /\ \E v \in Decimal(m) : w = <<l>> \o v
  BY DEF IsNumbered
<1>2. PICK v \in Decimal(m) : w = <<l>> \o v
  BY <1>1
<1>3. m \in 0 .. 99
  <2>1. P \in {XNumbers, SNumbers, TNumbers, ANumbers}
    BY ConventionIs
  <2>2. \A k : k \in DOMAIN XNumbers \/ k \in DOMAIN SNumbers \/ k \in DOMAIN TNumbers
               \/ k \in DOMAIN ANumbers => k \in 0 .. 99
    BY DEF XNumbers, SNumbers, TNumbers, ANumbers
  <2> HIDE DEF P
  <2> QED
    BY <2>1, <2>2
<1>4. ASSUME NEW c \in Digits, NEW d \in Digits, v = <<c, d>>,
             m = 10 * DigitValue[c] + DigitValue[d]
      PROVE  Numbered(t, i, P) = Reading(n, i + Len(w)) /\ at(t, i) = l /\ at(t, i + 1) \in Digits
  <2>1. w = <<l, c, d>> /\ Len(w) = 3
    <3>1. w = <<l, c, d>>
      BY <1>2, <1>4, LetterWord
    <3> QED
      BY <3>1
  <2>2. at(t, i) = l /\ at(t, i + 1) = c /\ at(t, i + 2) = d
    BY <2>1, Holds3
  <2>3. q = Reading(m, i + 3)
    BY <1>0, <1>4, <2>2 DEF parse_reg_long_number
  <2>4. q.number = m /\ q.next = i + 3
    BY <2>3 DEF Reading
  <2>5. Numbered(t, i, P) = Reading(P[m], i + 3)
    BY <2>4 DEF Numbered
  <2> QED
    BY <1>1, <1>4, <2>1, <2>2, <2>5
<1>5. ASSUME NEW c \in Digits, v = <<c>>, m = DigitValue[c]
      PROVE  Numbered(t, i, P) = Reading(n, i + Len(w)) /\ at(t, i) = l /\ at(t, i + 1) \in Digits
  <2>1. w = <<l, c>> /\ Len(w) = 2
    <3>1. w = <<l, c>>
      BY <1>2, <1>5, LetterWord
    <3> QED
      BY <3>1
  <2>2. at(t, i) = l /\ at(t, i + 1) = c /\ at(t, i + 2) \notin Digits
    BY <2>1, Holds2
  <2>3. q = Reading(m, i + 2)
    BY <1>0, <1>5, <2>2 DEF parse_reg_long_number
  <2>4. q.number = m /\ q.next = i + 2
    BY <2>3 DEF Reading
  <2>5. Numbered(t, i, P) = Reading(P[m], i + 2)
    BY <2>4 DEF Numbered
  <2> QED
    BY <1>1, <1>5, <2>1, <2>2, <2>5
<1> QED
  BY <1>2, <1>3, <1>4, <1>5, DecimalDigits

LEMMA LetterRegister ==
  ASSUME NEW t, NEW i \in Nat, at(t, i) \in DOMAIN Convention,
         at(t, i + 1) # "p" \/ at(t, i) \in {"x", "a"}
  PROVE  RegisterAt(t, i) = Numbered(t, i, Convention[at(t, i)])
<1>1. at(t, i) = "x" => RegisterAt(t, i) = Numbered(t, i, XNumbers)
  BY DEF RegisterAt
<1>2. at(t, i) = "t" => RegisterAt(t, i) = Numbered(t, i, TNumbers)
  BY DEF RegisterAt
<1>3. at(t, i) = "s" => RegisterAt(t, i) = Numbered(t, i, SNumbers)
  BY DEF RegisterAt
<1>4. at(t, i) = "a" => RegisterAt(t, i) = Numbered(t, i, ANumbers)
  BY DEF RegisterAt
<1> QED
  BY <1>1, <1>2, <1>3, <1>4, ConventionIs

\* The names that stand alone, read and spelled.
LEMMA NamedReads ==
  ASSUME NEW t, NEW i \in Nat
  PROVE  /\ at(t, i) = "z" =>
              RegisterAt(t, i) = IF Holds(t, i, <<"z", "e", "r", "o">>) THEN Reading(0, i + 4)
                                 ELSE Nothing
         /\ at(t, i) = "r" =>
              RegisterAt(t, i) = IF Holds(t, i, <<"r", "a">>) THEN Reading(1, i + 2) ELSE Nothing
         /\ at(t, i) = "g" =>
              RegisterAt(t, i) = IF Holds(t, i, <<"g", "p">>) THEN Reading(3, i + 2) ELSE Nothing
         /\ at(t, i) = "f" =>
              RegisterAt(t, i) = IF Holds(t, i, <<"f", "p">>) THEN Reading(8, i + 2) ELSE Nothing
         /\ at(t, i) = "s" /\ Holds(t, i, <<"s", "p">>) => RegisterAt(t, i) = Reading(2, i + 2)
         /\ at(t, i) = "t" /\ Holds(t, i, <<"t", "p">>) => RegisterAt(t, i) = Reading(4, i + 2)
<1>1. \A c, n : Named(t, i, <<c>>, n) = IF at(t, i + 1) = c THEN Reading(n, i + 2) ELSE Nothing
  <2> TAKE c, n
  <2>1. DOMAIN <<c>> = {1} /\ <<c>>[1] = c /\ Len(<<c>>) = 1 /\ i + 1 + 1 = i + 2
    OBVIOUS
  <2> QED
    BY <2>1 DEF Named
<1>2. Named(t, i, <<"e", "r", "o">>, 0)
        = IF at(t, i + 1) = "e" /\ at(t, i + 2) = "r" /\ at(t, i + 3) = "o"
          THEN Reading(0, i + 4) ELSE Nothing
  <2> DEFINE name == <<"e", "r", "o">>
  <2>1. /\ DOMAIN name = {1, 2, 3} /\ name[1] = "e" /\ name[2] = "r" /\ name[3] = "o"
        /\ Len(name) = 3 /\ i + 1 + 3 = i + 4
    OBVIOUS
  <2> HIDE DEF name
  <2>2. Named(t, i, name, 0)
        = IF at(t, i + 1) = "e" /\ at(t, i + 2) = "r" /\ at(t, i + 3) = "o"
          THEN Reading(0, i + 4) ELSE Nothing
    BY <2>1 DEF Named
  <2> QED
    BY <2>2 DEF name
<1>3. at(t, i) = "z" => RegisterAt(t, i) = Named(t, i, <<"e", "r", "o">>, 0)
  BY DEF RegisterAt
<1>4. at(t, i) = "r" => RegisterAt(t, i) = Named(t, i, <<"a">>, 1)
  BY DEF RegisterAt
<1>5. at(t, i) = "g" => RegisterAt(t, i) = Named(t, i, <<"p">>, 3)
  BY DEF RegisterAt
<1>6. at(t, i) = "f" => RegisterAt(t, i) = Named(t, i, <<"p">>, 8)
  BY DEF RegisterAt
<1>7. at(t, i) = "s" /\ at(t, i + 1) = "p" => RegisterAt(t, i) = Reading(2, i + 2)
  BY DEF RegisterAt
<1>8. at(t, i) = "t" /\ at(t, i + 1) = "p" => RegisterAt(t, i) = Reading(4, i + 2)
  BY DEF RegisterAt
<1>9. Holds(t, i, <<"z", "e", "r", "o">>)
        <=> at(t, i) = "z" /\ at(t, i + 1) = "e" /\ at(t, i + 2) = "r" /\ at(t, i + 3) = "o"
  BY Holds4
<1>10. \A l, c : Holds(t, i, <<l, c>>) <=> at(t, i) = l /\ at(t, i + 1) = c
  BY Holds2
<1> QED
  BY <1>1, <1>2, <1>3, <1>4, <1>5, <1>6, <1>7, <1>8, <1>9, <1>10

LEMMA NamedSpelling ==
  /\ \A n \in 0 .. 31 : \A w : IsNamed(w, n) => w \in Spellings[n] /\ w \in Seq(IdentifierChars)
  /\ IsNamed(<<"z", "e", "r", "o">>, 0) /\ IsNamed(<<"r", "a">>, 1) /\ IsNamed(<<"s", "p">>, 2)
  /\ IsNamed(<<"g", "p">>, 3) /\ IsNamed(<<"t", "p">>, 4) /\ IsNamed(<<"f", "p">>, 8)
  /\ Len(<<"z", "e", "r", "o">>) = 4 /\ \A l, c : Len(<<l, c>>) = 2
<1>1. \A n \in 0 .. 31 : \A w : IsNamed(w, n) => w \in Spellings[n]
  BY SpellingsIs
<1>2. ASSUME NEW n \in 0 .. 31, NEW w, IsNamed(w, n)
      PROVE  w \in Seq(IdentifierChars)
  <2>1. {"z", "e", "r", "o", "a", "p", "s", "g", "t", "f"} \subseteq IdentifierChars
    BY DEF IdentifierChars
  <2>2. /\ <<"z", "e", "r", "o">> \in Seq(IdentifierChars) /\ <<"r", "a">> \in Seq(IdentifierChars)
        /\ <<"s", "p">> \in Seq(IdentifierChars) /\ <<"g", "p">> \in Seq(IdentifierChars)
        /\ <<"t", "p">> \in Seq(IdentifierChars) /\ <<"f", "p">> \in Seq(IdentifierChars)
    BY <2>1
  <2> QED
    BY <1>2, <2>2, Zenon DEF IsNamed
<1>3. /\ IsNamed(<<"z", "e", "r", "o">>, 0) /\ IsNamed(<<"r", "a">>, 1) /\ IsNamed(<<"s", "p">>, 2)
      /\ IsNamed(<<"g", "p">>, 3) /\ IsNamed(<<"t", "p">>, 4) /\ IsNamed(<<"f", "p">>, 8)
  BY DEF IsNamed
<1>4. Len(<<"z", "e", "r", "o">>) = 4 /\ \A l, c : Len(<<l, c>>) = 2
  OBVIOUS
<1> QED
  BY <1>1, <1>2, <1>3, <1>4

\* What the switch of parse_reg reads at i is spelled there.
LEMMA ReadIsSpelled ==
  ASSUME NEW t, NEW i \in Nat, RegisterAt(t, i) # Nothing
  PROVE  \E w \in Seq(IdentifierChars), n \in 0 .. 31 :
           w \in Spellings[n] /\ Holds(t, i, w) /\ RegisterAt(t, i) = Reading(n, i + Len(w))
<1> DEFINE r == RegisterAt(t, i)
           Spelled(w, n) == /\ w \in Seq(IdentifierChars) /\ w \in Spellings[n]
                            /\ Holds(t, i, w) /\ r = Reading(n, i + Len(w))
<1>1. ASSUME NEW n \in 0 .. 31, NEW w, IsNamed(w, n), Holds(t, i, w), r = Reading(n, i + Len(w))
      PROVE  \E v \in Seq(IdentifierChars), m \in 0 .. 31 : Spelled(v, m)
  <2>1. w \in Seq(IdentifierChars) /\ Spelled(w, n)
    BY <1>1, NamedSpelling
  <2> QED
    BY <2>1
<1>2. CASE at(t, i) = "z"
  <2>1. Holds(t, i, <<"z", "e", "r", "o">>) /\ r = Reading(0, i + 4)
    BY <1>2, NamedReads
  <2>2. r = Reading(0, i + Len(<<"z", "e", "r", "o">>))
    BY <2>1, NamedSpelling
  <2>3. 0 \in 0 .. 31
    OBVIOUS
  <2> QED
    BY <1>1, <2>1, <2>2, <2>3, NamedSpelling, Zenon
<1>3. CASE at(t, i) = "r"
  <2>1. Holds(t, i, <<"r", "a">>) /\ r = Reading(1, i + 2)
    BY <1>3, NamedReads
  <2>2. r = Reading(1, i + Len(<<"r", "a">>))
    BY <2>1, NamedSpelling
  <2>3. 1 \in 0 .. 31
    OBVIOUS
  <2> QED
    BY <1>1, <2>1, <2>2, <2>3, NamedSpelling, Zenon
<1>4. CASE at(t, i) = "g"
  <2>1. Holds(t, i, <<"g", "p">>) /\ r = Reading(3, i + 2)
    BY <1>4, NamedReads
  <2>2. r = Reading(3, i + Len(<<"g", "p">>))
    BY <2>1, NamedSpelling
  <2>3. 3 \in 0 .. 31
    OBVIOUS
  <2> QED
    BY <1>1, <2>1, <2>2, <2>3, NamedSpelling, Zenon
<1>5. CASE at(t, i) = "f"
  <2>1. Holds(t, i, <<"f", "p">>) /\ r = Reading(8, i + 2)
    BY <1>5, NamedReads
  <2>2. r = Reading(8, i + Len(<<"f", "p">>))
    BY <2>1, NamedSpelling
  <2>3. 8 \in 0 .. 31
    OBVIOUS
  <2> QED
    BY <1>1, <2>1, <2>2, <2>3, NamedSpelling, Zenon
<1>6. CASE at(t, i) = "s" /\ at(t, i + 1) = "p"
  <2>1. Holds(t, i, <<"s", "p">>) /\ r = Reading(2, i + 2)
    BY <1>6, NamedReads, Holds2
  <2>2. r = Reading(2, i + Len(<<"s", "p">>))
    BY <2>1, NamedSpelling
  <2>3. 2 \in 0 .. 31
    OBVIOUS
  <2> QED
    BY <1>1, <2>1, <2>2, <2>3, NamedSpelling, Zenon
<1>7. CASE at(t, i) = "t" /\ at(t, i + 1) = "p"
  <2>1. Holds(t, i, <<"t", "p">>) /\ r = Reading(4, i + 2)
    BY <1>7, NamedReads, Holds2
  <2>2. r = Reading(4, i + Len(<<"t", "p">>))
    BY <2>1, NamedSpelling
  <2>3. 4 \in 0 .. 31
    OBVIOUS
  <2> QED
    BY <1>1, <2>1, <2>2, <2>3, NamedSpelling, Zenon
<1>8. CASE at(t, i) \in DOMAIN Convention /\ (at(t, i + 1) # "p" \/ at(t, i) \in {"x", "a"})
  <2> DEFINE l == at(t, i)
  <2>1. r = Numbered(t, i, Convention[l])
    BY <1>8, LetterRegister
  <2>2. PICK w \in Seq(IdentifierChars), n \in 0 .. 31 :
          IsNumbered(w, l, n) /\ Holds(t, i, w) /\ r = Reading(n, i + Len(w))
    BY <1>8, <2>1, NumberedReading
  <2>3. w \in Spellings[n]
    BY <1>8, <2>2, SpellingsIs
  <2> QED
    BY <2>2, <2>3
<1>9. at(t, i) \in {"z", "r", "g", "f"} \cup DOMAIN Convention
  BY ConventionIs, Zenon DEF RegisterAt
<1> QED
  BY <1>2, <1>3, <1>4, <1>5, <1>6, <1>7, <1>8, <1>9, ConventionIs

\* And a spelling that stands at i, whole, is what it reads.
LEMMA SpelledIsRead ==
  ASSUME NEW t, NEW i \in Nat, NEW n \in 0 .. 31, NEW w \in Spellings[n],
         Holds(t, i, w), EndsName(t, i + Len(w))
  PROVE  RegisterAt(t, i) = Reading(n, i + Len(w))
<1>1. CASE IsNamed(w, n)
  <2>1. \/ n = 0 /\ w = <<"z", "e", "r", "o">> /\ at(t, i) = "z" /\ Len(w) = 4
        \/ n = 1 /\ w = <<"r", "a">> /\ at(t, i) = "r" /\ Len(w) = 2
        \/ n = 2 /\ w = <<"s", "p">> /\ at(t, i) = "s" /\ Len(w) = 2
        \/ n = 3 /\ w = <<"g", "p">> /\ at(t, i) = "g" /\ Len(w) = 2
        \/ n = 4 /\ w = <<"t", "p">> /\ at(t, i) = "t" /\ Len(w) = 2
        \/ n = 8 /\ w = <<"f", "p">> /\ at(t, i) = "f" /\ Len(w) = 2
    BY <1>1, Holds2, Holds4, NamedSpelling DEF IsNamed
  <2> QED
    BY <2>1, NamedReads
<1>2. ASSUME NEW l \in DOMAIN Convention, IsNumbered(w, l, n)
      PROVE  RegisterAt(t, i) = Reading(n, i + Len(w))
  <2>1. at(t, i + Len(w)) \notin Digits
    BY DEF EndsName, IdentifierChars
  <2>2. /\ Numbered(t, i, Convention[l]) = Reading(n, i + Len(w))
        /\ at(t, i) = l /\ at(t, i + 1) \in Digits
    BY <1>2, <2>1, NumberedRead
  <2>3. at(t, i + 1) # "p"
    BY <2>2, DigitTable
  <2> QED
    BY <2>2, <2>3, LetterRegister
<1> QED
  BY <1>1, <1>2, SpellingsIs

------------------------------------------------------------------------------
(* The first word *)

\* A word is determined by where it starts: it is all the characters up to the
\* first that is none of a name.
LEMMA WholeWord ==
  ASSUME NEW t, NEW i \in Nat, NEW w \in Seq(IdentifierChars), NEW v \in Seq(IdentifierChars),
         Holds(t, i, w), EndsName(t, i + Len(w)), Holds(t, i, v), EndsName(t, i + Len(v))
  PROVE  w = v
<1>1. ASSUME NEW a \in Seq(IdentifierChars), NEW b \in Seq(IdentifierChars),
             EndsName(t, i + Len(a)), Holds(t, i, b), Len(a) < Len(b)
      PROVE  FALSE
  <2> DEFINE k == Len(a) + 1
  <2>1. Len(a) \in Nat /\ Len(b) \in Nat
    OBVIOUS
  <2>2. k \in 1 .. Len(b) /\ i + k - 1 = i + Len(a)
    BY <1>1, <2>1
  <2> HIDE DEF k
  <2>3. at(t, i + Len(a)) = b[k]
    BY <1>1, <2>2 DEF Holds
  <2>4. b[k] \in IdentifierChars
    BY <2>2
  <2> QED
    BY <1>1, <2>3, <2>4 DEF EndsName
<1>2. Len(w) = Len(v)
  <2>1. Len(w) \in Nat /\ Len(v) \in Nat
    OBVIOUS
  <2>2. ~ (Len(w) < Len(v)) /\ ~ (Len(v) < Len(w))
    BY <1>1
  <2> QED
    BY <2>1, <2>2
<1>3. \A k \in 1 .. Len(w) : w[k] = v[k]
  BY <1>2 DEF Holds
<1> QED
  BY <1>2, <1>3, SeqEqual

LEMMA NewlineEnds == "NL" \notin IdentifierChars
BY DigitTable DEF IdentifierChars

LEMMA FirstWordIs ==
  ASSUME text \in Seq(STRING)
  PROVE  LET from == skip_whitespace(text, 1) IN
         /\ from \in Nat
         /\ FirstWord \in Seq(IdentifierChars)
         /\ Holds(text, from, FirstWord)
         /\ EndsName(text, from + Len(FirstWord))
<1> DEFINE i == skip_whitespace(text, 1)
           IsEnd(k) == /\ at(text, k) \notin IdentifierChars
                       /\ \A j \in i .. k - 1 : at(text, j) \in IdentifierChars
           to == CHOOSE k \in i .. Len(text) + 1 : IsEnd(k)
           w == SubSeq(text, i, to - 1)
<1>1. Len(text) \in Nat
  OBVIOUS
<1>2. i \in 1 .. Len(text) + 1
  <2>1. 1 \in 1 .. Len(text) + 1
    BY <1>1
  <2> QED
    BY <2>1, SkipStops, Zenon
<1>3. FirstWord = w
  BY Zenon DEF FirstWord
<1> HIDE DEF i
<1>4. to \in i .. Len(text) + 1 /\ IsEnd(to)
  BY <1>2, FirstOutside, NewlineEnds
<1> HIDE DEF to
<1>5. to \in Nat /\ i \in Nat /\ i <= to /\ to <= Len(text) + 1 /\ 1 <= i
  BY <1>1, <1>2, <1>4
<1>6. Len(w) = to - i /\ \A k \in 1 .. to - i : w[k] = text[i + k - 1]
  BY <1>5
<1>7. w = [k \in 1 .. to - i |-> w[k]]
  BY <1>5
<1> HIDE DEF w
<1>8. ASSUME NEW k \in 1 .. to - i
      PROVE  w[k] \in IdentifierChars /\ at(text, i + k - 1) = w[k]
  <2>1. i + k - 1 \in i .. to - 1 /\ i + k - 1 \in DOMAIN text
    BY <1>1, <1>5
  <2>2. at(text, i + k - 1) \in IdentifierChars
    BY <1>4, <2>1
  <2> QED
    BY <1>6, <2>1, <2>2 DEF at
<1>9. w \in [1 .. to - i -> IdentifierChars] /\ to - i \in Nat
  BY <1>5, <1>7, <1>8
<1>10. w \in Seq(IdentifierChars)
  BY <1>9
<1>11. Holds(text, i, w)
  BY <1>6, <1>8 DEF Holds
<1>12. i + Len(w) = to
  BY <1>5, <1>6
<1>13. EndsName(text, i + Len(w))
  BY <1>4, <1>12 DEF EndsName
<1> QED
  BY <1>3, <1>5, <1>10, <1>11, <1>13 DEF i

\* What parse_reg reads is what the first word spells.
LEMMA ReadsFirstWord ==
  ASSUME text \in Seq(STRING), reading = parse_reg(text, 1)
  PROVE  RegistersRead
<1> DEFINE i == skip_whitespace(text, 1)
           w == FirstWord
           r == RegisterAt(text, i)
           numbers == {n \in DOMAIN Spellings : w \in Spellings[n]}
<1>1. /\ i \in Nat /\ w \in Seq(IdentifierChars)
      /\ Holds(text, i, w) /\ EndsName(text, i + Len(w))
  BY FirstWordIs
<1>2. DOMAIN Spellings = 0 .. 31
  BY DEF Spellings
<1>3. reading = IF r # Nothing /\ EndsName(text, r.next) THEN r ELSE Nothing
  BY DEF parse_reg
<1> HIDE DEF i, w, r
<1>4. ASSUME NEW n \in numbers
      PROVE  reading = Reading(n, i + Len(w))
  <2>1. n \in 0 .. 31 /\ w \in Spellings[n]
    BY <1>2, <1>4
  <2>2. r = Reading(n, i + Len(w))
    BY <1>1, <2>1, SpelledIsRead DEF r
  <2>3. r.number = n /\ r.next = i + Len(w)
    BY <2>2 DEF Reading
  <2>4. r # Nothing
    BY <2>1, <2>3 DEF Nothing
  <2> QED
    BY <1>1, <1>3, <2>2, <2>3, <2>4
<1>5. ASSUME reading # Nothing
      PROVE  numbers # {}
  <2>1. r # Nothing /\ EndsName(text, r.next)
    BY <1>3, <1>5
  <2>2. PICK v \in Seq(IdentifierChars), n \in 0 .. 31 :
          v \in Spellings[n] /\ Holds(text, i, v) /\ r = Reading(n, i + Len(v))
    BY <1>1, <2>1, ReadIsSpelled DEF r
  <2>3. r.next = i + Len(v)
    BY <2>2 DEF Reading
  <2>4. v = w
    BY <1>1, <2>1, <2>2, <2>3, WholeWord
  <2> QED
    BY <1>2, <2>2, <2>4
<1>6. CASE numbers = {}
  BY <1>5, <1>6 DEF RegistersRead, w
<1>7. CASE numbers # {}
  BY <1>4, <1>7 DEF RegistersRead, w, i
<1> QED
  BY <1>6, <1>7

(***************************************************************************)
(* Whatever the text, parse_reg reads a register exactly where the first   *)
(* word is one of its spellings, whole, and goes on behind it.             *)
(***************************************************************************)
THEOREM RegistersAlwaysRead == RegisterSpec => []RegistersRead
<1> DEFINE IInv == text \in Texts /\ reading \in {Unread, parse_reg(text, 1)}
<1>1. RegisterInit => IInv
  BY DEF RegisterInit
<1>2. IInv /\ [ReadRegister]_registerVars => IInv'
  BY DEF ReadRegister, registerVars
<1>3. IInv => RegistersRead
  <2> SUFFICES ASSUME IInv PROVE RegistersRead
    OBVIOUS
  <2>1. CASE reading = Unread
    BY <2>1 DEF RegistersRead
  <2>2. CASE reading = parse_reg(text, 1)
    BY <2>2, ReadsFirstWord, TextsAssumption
  <2> QED
    BY <2>1, <2>2
<1> QED
  BY <1>1, <1>2, <1>3, PTL DEF RegisterSpec
==============================================================================
