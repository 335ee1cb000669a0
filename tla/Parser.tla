------------------------------- MODULE Parser -------------------------------
(***************************************************************************)
(* main's loop and parse_line over the text of the input.  The text is a   *)
(* sequence of tokens: a word, a number, one blank or one other character. *)
(* Words never touch, since they would be one word.  What a line asks of   *)
(* the emitter is recorded as events; the emitter itself is in module      *)
(* Emitter.                                                                *)
(***************************************************************************)
EXTENDS Integers, Sequences, FiniteSets, FiniteSetsExt, SequencesExt

CONSTANTS
  Inputs,      \* the texts
  Register,    \* words parse_reg reads
  Name,        \* words that are neither keywords nor registers
  Number,      \* what strtoll reads, as words
  Value,       \* Number -> Int
  SpaceLimit,  \* .space reserves less than this: 2^32
  MaxLine      \* bound: the line counter stops here

ASSUME ValueAssumption == Value \in [Number -> Int] /\ SpaceLimit \in Nat

Keyword == {"add", "addi", "slli", "lw", "sw", "beq", "lui", "jal", "ecall",
            ".text", ".data", ".space", ".byte", ".ascii"}

\* One keyword stands for those that parse_line treats alike.
Directive == {".text", ".data", ".space", ".byte", ".ascii"}

Word == Keyword \cup Register \cup Name \cup Number

\* Characters that are no words, among others.
Mark == {"blank", "NL", "NUL", ",", "(", ")", ":", "quote", "backslash"}

ASSUME WordsAssumption == Word \cap Mark = {}

\* No two words touch, and the text is not empty.
WellSpaced(text) ==
  text # <<>> /\ \A i \in 1 .. Len(text) - 1 : ~ (text[i] \in Word /\ text[i + 1] \in Word)

ASSUME InputsAssumption == \A text \in Inputs : text \in Seq(STRING) /\ WellSpaced(text)

\* The counter is not stopped before the end of a text.
ASSUME MaxLineAssumption == MaxLine \in Nat /\ \A text \in Inputs : Len(text) < MaxLine

VARIABLES
  input,    \* the mapped file
  pos,      \* main's pos, or parse_line's s while it runs; the first is 1
  line,     \* main's line
  pc,       \* "line", "operands", "string", "end" in parse_line; "accepted" or "error"
  kw,       \* the keyword of the line
  plan,     \* what must still be read of the line's operands
  args,     \* registers, numbers and labels read so far
  events,   \* what was asked of the emitter
  start,    \* history: where the line being parsed starts
  peak      \* history: the last place that was read

vars == <<input, pos, line, pc, kw, plan, args, events, start, peak>>

Init ==
  /\ input \in Inputs
  /\ pos = 1 /\ line = 1 /\ pc = "line"
  /\ kw = "" /\ plan = <<>> /\ args = <<>>
  /\ events = <<>>
  /\ start = 1 /\ peak = 0

------------------------------------------------------------------------------
(* The characters *)

\* The file, the newline main appends, and the zeros of the rest of the page.
tok(i) == IF i <= Len(input) THEN input[i]
          ELSE IF i = Len(input) + 1 THEN "NL" ELSE "NUL"

Blank == {"blank"}              \* whitespace()

\* Mutant: a number must be on the line of its operation.
OnlyBlank == {"blank"}

CSpace == {"blank", "NL"}       \* what strtoll skips

\* A sequence of characters identifier() accepts.
IsIdentifier(t) == t \in Word /\ t \notin Directive /\ (t \in Number => Value[t] >= 0)

Skip(i, S) == CHOOSE j \in i .. Len(input) + 2 :
                tok(j) \notin S /\ \A k \in i .. j - 1 : tok(k) \in S

------------------------------------------------------------------------------
(* What each keyword reads *)

Shape == [k \in Keyword |->
  CASE k = "add"             -> <<"reg", ",", "reg", ",", "reg">>
    [] k \in {"addi","slli"} -> <<"reg", ",", "reg", ",", "imm">>
    [] k \in {"lw", "sw"}    -> <<"reg", ",", "imm", "(", "reg", ")">>
    [] k = "beq"             -> <<"reg", ",", "reg", ",", "label">>
    [] k = "jal"             -> <<"reg", ",", "label">>
    [] k = "lui"             -> <<"reg", ",", "imm">>
    [] k \in {".space", ".byte"} -> <<"imm">>
    [] k = ".ascii"          -> <<"quote">>
    [] OTHER                 -> <<>>]

Imm12(v) == -2048 <= v /\ v < 2048

ShiftAmount(v) == 0 <= v /\ v <= 31

Upper20(v) == 0 <= v /\ v < 1048576

ByteValue(v) == -128 <= v /\ v < 256

SpaceSize(v) == 0 <= v /\ v < SpaceLimit

InRange(k, v) ==
  CASE k = "slli"   -> ShiftAmount(v)
    [] k = "lui"    -> Upper20(v)
    [] k = ".byte"  -> ByteValue(v)
    [] k = ".space" -> SpaceSize(v)
    [] OTHER        -> Imm12(v)

Fits(k, item, t) ==
  CASE item = "reg"   -> t \in Register
    [] item = "imm"   -> t \in Number /\ InRange(k, Value[t])
    [] item = "label" -> IsIdentifier(t)
    [] OTHER          -> t = item

\* What an accepted operand list makes the line ask for.
Effect(k, operands) ==
  CASE k \in {"beq", "jal"} -> << <<"reference", operands[Len(operands)]>>, <<k, operands>> >>
    [] k \in {".byte"}      -> << <<"data", operands[1]>> >>
    [] OTHER                -> << <<k, operands>> >>

------------------------------------------------------------------------------
(* The steps *)

Fail == pc' = "error" /\ UNCHANGED <<pos, line, kw, plan, args, events, start>>

Seen(i) == peak' = IF i > peak THEN i ELSE peak

\* main's loop condition.
AfterLine(p) == IF p <= Len(input) THEN "line" ELSE "accepted"

\* Mutant: the counter is incremented only if there is another line.
CountedIfMore(p) == IF p < Len(input) THEN line + 1 ELSE line

Counted(p) == IF line < MaxLine THEN line + 1 ELSE line

NextLine(p) ==
  /\ pos' = p /\ start' = p
  /\ line' = Counted(p)
  /\ pc' = AfterLine(p)
  /\ UNCHANGED <<kw, plan, args, events>>

\* Mutant: main does not step over the character parse_line stopped at.
StepNowhere(p) == p

\* main's pos++.
Step(p) == p + 1

\* parse_line returns without moving: main steps over one blank, or the newline.
BlankLine ==
  LET p == Skip(pos, Blank) IN
  /\ pc = "line"
  /\ tok(p) = "NL"
  /\ NextLine(Step(pos))
  /\ Seen(p)
  /\ UNCHANGED input

KeywordLine ==
  LET p == Skip(pos, Blank) IN
  /\ pc = "line"
  /\ tok(p) \in Keyword
  /\ kw' = tok(p) /\ plan' = Shape[tok(p)] /\ args' = <<>>
  /\ pos' = p + 1
  /\ pc' = "operands"
  /\ Seen(p)
  /\ UNCHANGED <<input, line, events, start>>

\* Mutant: a label may be defined again.
NeverAssigned(said, name) == FALSE

\* A label has a value, and no other definition, once it is defined; one that
\* was waited for is never given its value.
Assigned(said, name) ==
  \E i \in DOMAIN said :
    said[i] = <<"label", name>> /\ \A j \in 1 .. i - 1 : said[j] # <<"reference", name>>

\* Anything else must be a label and a colon.
LabelLine ==
  LET p == Skip(pos, Blank)
      q == Skip(p + 1, Blank)
  IN
  /\ pc = "line"
  /\ tok(p) \notin Keyword \cup {"NL"}
  /\ \/ /\ IsIdentifier(tok(p)) /\ tok(q) = ":"
        /\ ~ Assigned(events, tok(p))
        /\ events' = Append(events, <<"label", tok(p)>>)
        /\ pos' = q + 1
        /\ pc' = "end"
        /\ Seen(q)
        /\ UNCHANGED <<line, kw, plan, args, start>>
     \/ /\ IsIdentifier(tok(p)) /\ tok(q) = ":" => Assigned(events, tok(p))
        /\ Seen(IF IsIdentifier(tok(p)) THEN q ELSE p)
        /\ Fail
  /\ UNCHANGED input

\* parse_reg, expect_char_literal, parse_imm or parse_identifier.
Operand ==
  /\ pc = "operands"
  /\ plan # <<>>
  /\ LET item == Head(plan)
         p == Skip(pos, IF item = "imm" THEN CSpace ELSE Blank)
     IN /\ Seen(p)
        /\ \/ /\ Fits(kw, item, tok(p))
              /\ pos' = p + 1
              /\ plan' = Tail(plan)
              /\ args' = IF item \in {"reg", "imm", "label"} THEN Append(args, tok(p)) ELSE args
              /\ UNCHANGED <<line, pc, kw, events, start>>
           \/ ~ Fits(kw, item, tok(p)) /\ Fail
  /\ UNCHANGED input

\* The operands of an instruction, a section or .space are complete.
Emit ==
  /\ pc = "operands"
  /\ plan = <<>>
  /\ kw \notin {".byte", ".ascii"}
  /\ events' = events \o Effect(kw, args)
  /\ pc' = "end"
  /\ UNCHANGED <<input, pos, line, kw, plan, args, start, peak>>

\* parse_data_array: one element, and another one after a comma.
EmitElement ==
  LET p == Skip(pos, Blank) IN
  /\ pc = "operands"
  /\ plan = <<>>
  /\ kw = ".byte"
  /\ args' = <<>>
  /\ \/ /\ tok(p) = ","
        /\ events' = events \o Effect(kw, args)
        /\ plan' = <<"imm">>
        /\ pos' = p + 1
        /\ UNCHANGED pc
     \/ /\ tok(p) # ","
        /\ events' = events \o Effect(kw, args) \o << <<"pad">> >>
        /\ pc' = "end"
        /\ UNCHANGED <<plan, pos>>
  /\ Seen(p)
  /\ UNCHANGED <<input, line, kw, start>>

OpenString ==
  /\ pc = "operands"
  /\ plan = <<>>
  /\ kw = ".ascii"
  /\ pc' = "string"
  /\ UNCHANGED <<input, pos, line, kw, plan, args, events, start, peak>>

\* Characters a backslash may precede; "n" stands for b, f, n, r and t.
Escapable == {"quote", "backslash", "NL", "n"}

\* Mutant: the end of the text is not noticed inside a string.
EndsStringNL == {"NL"}

EndsString == {"NL", "NUL"}

StringChar ==
  LET c == tok(pos) IN
  /\ pc = "string"
  /\ \/ /\ c = "quote"
        /\ pos' = pos + 1
        /\ events' = Append(events, <<"pad">>)
        /\ pc' = "end"
        /\ Seen(pos)
        /\ UNCHANGED <<line, kw, plan, args, start>>
     \/ /\ c \notin EndsString \cup {"quote", "backslash"}
        /\ pos' = pos + 1
        /\ events' = Append(events, <<"char", c>>)
        /\ Seen(pos)
        /\ UNCHANGED <<line, pc, kw, plan, args, start>>
     \/ /\ c = "backslash"
        /\ tok(pos + 1) \in Escapable
        /\ pos' = pos + 2
        /\ events' = Append(events, <<"char", tok(pos + 1)>>)
        /\ Seen(pos + 1)
        /\ UNCHANGED <<line, pc, kw, plan, args, start>>
     \/ /\ c \in EndsString \/ (c = "backslash" /\ tok(pos + 1) \notin Escapable)
        /\ Seen(IF c = "backslash" THEN pos + 1 ELSE pos)
        /\ Fail
  /\ UNCHANGED input

\* out_check_line, and main's pos++.
EndOfLine ==
  LET p == Skip(pos, Blank) IN
  /\ pc = "end"
  /\ \/ tok(p) \in {"NL", "NUL"} /\ NextLine(p + 1)
     \/ tok(p) \notin {"NL", "NUL"} /\ Fail
  /\ Seen(p)
  /\ UNCHANGED input

Finished == pc \in {"accepted", "error"} /\ UNCHANGED vars

Next ==
  \/ BlankLine \/ KeywordLine \/ LabelLine
  \/ Operand \/ Emit \/ EmitElement
  \/ OpenString \/ StringChar
  \/ EndOfLine
  \/ Finished

\* main runs alone and does nothing but parse.
Spec == Init /\ [][Next]_vars /\ WF_vars(Next)

------------------------------------------------------------------------------
(* The language, without strings *)

\* The i-th thing keyword k reads.
Item(k, i) == IF k = ".byte" THEN IF i % 2 = 1 THEN "imm" ELSE ","
              ELSE IF i <= Len(Shape[k]) THEN Shape[k][i] ELSE "nothing"

Complete(k, n) == IF k = ".byte" THEN n % 2 = 1 ELSE n = Len(Shape[k])

\* How many of the places S are i or before, and what stands at S in order.
UpTo(S, i) == Cardinality({j \in S : j <= i})
Tokens(S) == [n \in 1 .. Cardinality(S) |-> tok(CHOOSE i \in {j \in S : UpTo(S, j) = n} : TRUE)]

Operands(S) == {i \in S : tok(i) # "NL"}

\* At the places S are the operands of keyword k, with newlines only before
\* numbers.
IsOperands(k, S) ==
  LET o == Operands(S) IN
  /\ Complete(k, Cardinality(o))
  /\ \A i \in o : Fits(k, Item(k, UpTo(o, i)), tok(i))
  /\ \A i \in S \ o : UpTo(o, i) < Cardinality(o) /\ Item(k, UpTo(o, i) + 1) = "imm"

FirstOf(S) == CHOOSE i \in S : \A j \in S : i <= j

\* A sentence is a set of places: none, a label and its colon, or a keyword and
\* its operands.
IsSentence(S) ==
  \/ S = {}
  \/ /\ IsIdentifier(tok(FirstOf(S))) /\ tok(FirstOf(S)) \notin Keyword
     /\ \E i \in S : S = {FirstOf(S), i} /\ tok(i) = ":"
  \/ tok(FirstOf(S)) \in Keyword /\ IsOperands(tok(FirstOf(S)), S \ {FirstOf(S)})

Elements(o) == [i \in 1 .. (Len(o) + 1) \div 2 |-> <<"data", o[2 * i - 1]>>]

\* What a sentence asks of the emitter.
Meaning(S) ==
  IF S = {} THEN <<>>
  ELSE LET k == tok(FirstOf(S))
           o == Operands(S \ {FirstOf(S)})
       IN IF k \notin Keyword THEN << <<"label", k>> >>
          ELSE IF k = ".byte" THEN Elements(Tokens(o)) \o << <<"pad">> >>
          ELSE Effect(k, Tokens({i \in o : tok(i) \in Word}))

\* The places of the sentence that ends at place c when the lines end at cuts.
SentenceAt(cuts, c) ==
  {i \in 1 .. c - 1 : tok(i) \notin Blank /\ \A b \in cuts : ~ (i <= b /\ b < c)}

Ends == {i \in 1 .. Len(input) + 1 : tok(i) \in {"NL", "NUL"}}

\* Only a blank line needs its newline.
RightCut(cuts, c) ==
  /\ IsSentence(SentenceAt(cuts, c))
  /\ tok(c) = "NUL" => SentenceAt(cuts, c) # {}

\* The ways to cut the text into sentences.
Readings == {cuts \in SUBSET Ends : Len(input) + 1 \in cuts /\ \A c \in cuts : RightCut(cuts, c)}

\* What the sentences up to a place ask for, one after the other.
MeaningUpTo(cuts) ==
  LET said[c \in 0 .. Len(input) + 1] ==
        IF c = 0 THEN <<>>
        ELSE IF c \in cuts THEN said[c - 1] \o Meaning(SentenceAt(cuts, c)) ELSE said[c - 1]
  IN  said

MeaningOf(cuts) == MeaningUpTo(cuts)[Len(input) + 1]

\* A label is defined once, unless it was referenced before.
Lawful(said) ==
  \A i, j \in DOMAIN said :
    i < j /\ said[i][1] = "label" /\ said[i] = said[j] =>
      \E k \in 1 .. i - 1 : said[k] = <<"reference", said[i][2]>>

------------------------------------------------------------------------------
(* Properties *)

(***************************************************************************)
(* parse_line accepts a text without strings if and only if it can be cut  *)
(* into sentences of the assembly language that define no label twice, and *)
(* then asks the emitter for what these sentences mean, once each and in   *)
(* their order: no lookahead, rewind or skipped newline makes it read a    *)
(* line as another one.                                                    *)
(***************************************************************************)
Understood ==
  pc \in {"accepted", "error"} /\ "quote" \notin ToSet(input) =>
    /\ pc = "accepted" <=> \E cuts \in Readings : Lawful(MeaningOf(cuts))
    /\ pc = "accepted" => \A cuts \in Readings : events = MeaningOf(cuts)

\* The last character before place i that is not blank.
Before(i) == LET S == {j \in 1 .. i - 1 : tok(j) # "blank"} IN
             IF S = {} THEN "NL" ELSE tok(Max(S))

\* Every newline before place i ends one line, which is empty or has a word.
PlainUpTo(i) ==
  \A j \in 1 .. i - 1 :
    /\ tok(j) # "NUL"
    /\ tok(j) = "NL" => Before(j) \notin {",", ".byte", ".space", "backslash"}
    /\ tok(j) = "blank" /\ tok(j + 1) = "NL" => Before(j) # "NL"

(***************************************************************************)
(* The line main reports with an error is the line of the text, as long as *)
(* the text before it has no line of blanks only (each blank is counted as *)
(* a line), no newline in a string or before a number (not counted) and no *)
(* zero byte (counted).                                                    *)
(***************************************************************************)
LineReported ==
  pc = "error" /\ PlainUpTo(start) =>
    line = 1 + Cardinality({j \in 1 .. start - 1 : tok(j) = "NL"})

(***************************************************************************)
(* The newline main appends ends the reading: a number missing at the end  *)
(* or a string that ends in a backslash lets parse_line look at the byte   *)
(* after it, and that byte ends the run with an error.                     *)
(***************************************************************************)
ReadsStayInside ==
  /\ peak <= Len(input) + 2
  /\ peak = Len(input) + 2 => pc = "error"

\* Every text is accepted or rejected: each round of main's loop moves pos,
\* even if parse_line returns without having moved.
Terminates == <>(pc \in {"accepted", "error"})

------------------------------------------------------------------------------
(* What main prints, and is not so *)

\* main reports input:line.  Fails: a line of blanks is counted once for each
\* blank and once for its newline.
LineIsOfText ==
  pc = "error" => line <= 1 + Cardinality({j \in 1 .. pos - 1 : tok(j) = "NL"})
==============================================================================
