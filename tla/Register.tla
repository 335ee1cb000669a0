------------------------------- MODULE Register -------------------------------
(***************************************************************************)
(* parse_reg of src/parser.c: the spelling of registers.  A text is a      *)
(* sequence of one-character strings, and behind it is the newline main    *)
(* puts there.                                                             *)
(***************************************************************************)
EXTENDS Integers, Sequences

CONSTANT Texts      \* the texts that are read

ASSUME TextsAssumption == \A t \in Texts : t \in Seq(STRING)

VARIABLES
  text,
  reading           \* what parse_reg read at its beginning, or Unread

registerVars == <<text, reading>>

Unread == [number |-> -2, next |-> 0]

DigitValue ==
  [c \in {"0", "1", "2", "3", "4", "5", "6", "7", "8", "9"} |->
     CASE c = "0" -> 0 [] c = "1" -> 1 [] c = "2" -> 2 [] c = "3" -> 3 [] c = "4" -> 4
       [] c = "5" -> 5 [] c = "6" -> 6 [] c = "7" -> 7 [] c = "8" -> 8 [] c = "9" -> 9]

Digits == DOMAIN DigitValue

Whitespace == {" ", "tab", "CR"}

\* The characters identifier() accepts; one capital stands for all.
IdentifierChars ==
  {"a", "b", "c", "d", "e", "f", "g", "h", "i", "j", "k", "l", "m", "n", "o", "p", "q",
   "r", "s", "t", "u", "v", "w", "x", "y", "z", "A", "_"} \cup Digits

at(t, i) == IF i \in DOMAIN t THEN t[i] ELSE "NL"

\* The place behind the white space at i.
skip_whitespace(t, i) ==
  CHOOSE k \in i .. Len(t) + 1 :
    at(t, k) \notin Whitespace /\ \A j \in i .. k - 1 : at(t, j) \in Whitespace

------------------------------------------------------------------------------
(* A reading is the number read and the place behind it *)

Nothing == [number |-> -1, next |-> 0]

Reading(number, next) == [number |-> number, next |-> next]

\* One digit or two.
parse_reg_long_number(t, i) ==
  LET tens == at(t, i)
      ones == at(t, i + 1)
  IN IF tens \notin Digits THEN Nothing
     ELSE IF ones \notin Digits THEN Reading(DigitValue[tens], i + 1)
     ELSE Reading(10 * DigitValue[tens] + DigitValue[ones], i + 2)

\* A letter and a number; places has the registers of those the letter goes with.
Numbered(t, i, places) ==
  LET n == parse_reg_long_number(t, i + 1) IN
  IF n.number \in DOMAIN places THEN Reading(places[n.number], n.next) ELSE Nothing

XNumbers == [n \in 0 .. 31 |-> n]
SNumbers == [n \in 0 .. 11 |-> IF n < 2 THEN n + 8 ELSE n + 16]
TNumbers == [n \in 0 .. 6  |-> IF n < 3 THEN n + 5 ELSE n + 25]

ANumbers == [n \in 0 .. 7  |-> n + 10]

\* A whole name, which follows its first letter.
Named(t, i, name, number) ==
  IF \A k \in DOMAIN name : at(t, i + k) = name[k]
  THEN Reading(number, i + 1 + Len(name)) ELSE Nothing

\* The switch of parse_reg; "sp" and "tp" are tried before the numbers.
RegisterAt(t, i) ==
  LET c == at(t, i)
      followed(name) == at(t, i + 1) = name
  IN CASE c = "x" -> Numbered(t, i, XNumbers)
       [] c = "z" -> Named(t, i, <<"e", "r", "o">>, 0)
       [] c = "r" -> Named(t, i, <<"a">>, 1)
       [] c = "s" /\ followed("p")   -> Reading(2, i + 2)
       [] c = "s" /\ ~ followed("p") -> Numbered(t, i, SNumbers)
       [] c = "g" -> Named(t, i, <<"p">>, 3)
       [] c = "t" /\ followed("p")   -> Reading(4, i + 2)
       [] c = "t" /\ ~ followed("p") -> Numbered(t, i, TNumbers)
       [] c = "a" -> Numbered(t, i, ANumbers)
       [] c = "f" -> Named(t, i, <<"p">>, 8)
       [] OTHER   -> Nothing

\* Mutant: what follows the name is not looked at.
EndsAnywhere(t, i) == TRUE

EndsName(t, i) == at(t, i) \notin IdentifierChars

parse_reg(t, i) ==
  LET read == RegisterAt(t, skip_whitespace(t, i)) IN
  IF read # Nothing /\ EndsName(t, read.next) THEN read ELSE Nothing

RegisterInit == text \in Texts /\ reading = Unread

ReadRegister == reading = Unread /\ reading' = parse_reg(text, 1) /\ UNCHANGED text

RegisterSpec == RegisterInit /\ [][ReadRegister]_registerVars

------------------------------------------------------------------------------
(* The calling convention's names, and the reference *)

Decimal(n) ==
  LET digit(v) == CHOOSE c \in Digits : DigitValue[c] = v IN
  {<<digit(n \div 10), digit(n % 10)>>} \cup IF n < 10 THEN {<<digit(n)>>} ELSE {}

\* "x0" to "x31", "t0" to "t6", "s0" to "s11", "a0" to "a7"; "x09" is x9.
Convention ==
  [x |-> [n \in 0 .. 31 |-> n],
   t |-> [n \in 0 .. 6  |-> << 5, 6, 7, 28, 29, 30, 31 >>[n + 1]],
   s |-> [n \in 0 .. 11 |-> << 8, 9, 18, 19, 20, 21, 22, 23, 24, 25, 26, 27 >>[n + 1]],
   a |-> [n \in 0 .. 7  |-> << 10, 11, 12, 13, 14, 15, 16, 17 >>[n + 1]]]

Spellings ==
  [number \in 0 .. 31 |->
     (UNION {UNION {{<<letter>> \o d : d \in Decimal(n)} :
                      n \in {m \in DOMAIN Convention[letter] : Convention[letter][m] = number}} :
               letter \in DOMAIN Convention})
       \cup CASE number = 0 -> {<<"z", "e", "r", "o">>}
              [] number = 1 -> {<<"r", "a">>}
              [] number = 2 -> {<<"s", "p">>}
              [] number = 3 -> {<<"g", "p">>}
              [] number = 4 -> {<<"t", "p">>}
              [] number = 8 -> {<<"f", "p">>}
              [] OTHER      -> {}]

\* The text's first word, without what is in front of it.
FirstWord ==
  LET from == skip_whitespace(text, 1)
      to   == CHOOSE k \in from .. Len(text) + 1 :
                /\ at(text, k) \notin IdentifierChars
                /\ \A j \in from .. k - 1 : at(text, j) \in IdentifierChars
  IN SubSeq(text, from, to - 1)

(***************************************************************************)
(* parse_reg reads a register exactly where the first word of the text is  *)
(* one of its spellings, whole, and goes on behind it: no name is taken    *)
(* for another, for a longer one or for a label.                           *)
(***************************************************************************)
RegistersRead ==
  LET numbers == {number \in DOMAIN Spellings : FirstWord \in Spellings[number]} IN
  reading # Unread =>
    IF numbers = {} THEN reading = Nothing
    ELSE reading \in {Reading(n, skip_whitespace(text, 1) + Len(FirstWord)) : n \in numbers}
===============================================================================
