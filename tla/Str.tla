--------------------------------- MODULE Str ---------------------------------
(***************************************************************************)
(* cc_str of src/cc.h: a vector of characters with one cell more for the   *)
(* terminator, which every operation moves along, and insertion of         *)
(* formatted arguments in two passes, one that measures and one that       *)
(* prints.  The memory of a string has cap + 1 cells.                      *)
(***************************************************************************)
EXTENDS Vector, FiniteSetsExt

CONSTANTS
    Chars,       \* characters
    Modes,       \* ways to print a number, each a formatting argument itself
    Numbers,     \* the numbers that are printed
    Shown(_, _), \* how a number is printed in a mode: a sequence of Chars
    Texts,       \* strings given as arguments
    Formats,     \* the lists of arguments given to one call
    MaxStr       \* bound: the largest capacity the allocator gives

DefaultMode == "dec"

ASSUME StrAssumption ==
    /\ "nul" \notin Chars /\ DefaultMode \in Modes
    /\ Texts \subseteq Seq(Chars) /\ MaxStr \in Nat
    /\ \A n \in Numbers, m \in Modes : Shown(n, m) \in Seq(Chars)
    /\ Formats \subseteq Seq([kind : {"mode"}, what : Modes] \cup
                            [kind : {"number"}, what : Numbers] \cup
                            [kind : {"text"}, what : Texts])

VARIABLES
    str,        \* size, capacity and memory
    strAnswer,  \* what the last call returned: {} for NULL
    strFailed

strVars == <<str, strAnswer, strFailed>>

Nul == "nul"

StrPlaceholder == [size |-> 0, cap |-> 0, mem |-> <<Nul>>]

----------------------------------------------------------------------------
\* Only a string that had no memory is given a terminator.
StrReserved(s, n) ==
    IF s.cap >= n THEN {s}
    ELSE IF n > MaxStr THEN {} ELSE {[s EXCEPT !.cap = n, !.mem = Resized(@, n + 1)]}

\* The strings with room for n more characters before index; the terminator
\* moves with what follows index.
WithRoom(s, index, n) ==
    {[w EXCEPT !.size = s.size + n,
               !.mem = Moved(w.mem, index + n + 1, index + 1, s.size - index + 1)] :
        w \in IF s.size + n > s.cap THEN StrReserved(s, Grown(s.cap, s.size + n)) ELSE {s}}

\* chars in the cells from index on.
Written(m, index, chars) ==
    [i \in DOMAIN m |-> IF i \in index + 1 .. index + Len(chars) THEN chars[i - index] ELSE m[i]]

StrInserted(s, index, new) ==
    {[w EXCEPT !.mem = Written(w.mem, index, new)] : w \in WithRoom(s, index, Len(new))}

\* Mutant: the terminator stays where it is.
ErasedShort(s, index, n) ==
    [s EXCEPT !.size = @ - n,
              !.mem = Moved(s.mem, index + 1, index + n + 1, s.size - n - index)]

StrErased(s, index, n) ==
    [s EXCEPT !.size = @ - n,
              !.mem = Moved(s.mem, index + 1, index + n + 1, s.size - n - index + 1)]

\* Mutant: only the memory that is new is filled.
FilledFromCap(w, s, n, fill) ==
    [w EXCEPT !.size = n,
              !.mem = [i \in DOMAIN w.mem |-> IF i \in s.cap + 2 .. n THEN fill
                                              ELSE IF i = n + 1 THEN Nul ELSE w.mem[i]]]

Filled(w, s, n, fill) ==
    [w EXCEPT !.size = n,
              !.mem = [i \in DOMAIN w.mem |-> IF i \in s.size + 1 .. n THEN fill
                                              ELSE IF i = n + 1 THEN Nul ELSE w.mem[i]]]

StrResized(s, n, fill) ==
    CASE n = s.size -> {s}
      [] n < s.size -> {StrErased(s, n, s.size - n)}
      [] n > s.size -> {Filled(w, s, n, fill) : w \in StrReserved(s, n)}

StrShrunk(s) ==
    CASE s.size = s.cap -> s
      [] s.size # s.cap /\ s.size = 0 -> StrPlaceholder
      [] s.size # s.cap /\ s.size # 0 ->
            [s EXCEPT !.cap = s.size, !.mem = Resized(s.mem, s.size + 1)]

StrCloned(s) ==
    IF s.size = 0 THEN StrPlaceholder
    ELSE [size |-> s.size, cap |-> s.size, mem |-> SubSeq(s.mem, 1, s.size + 1)]

StrCleared(s) ==
    IF s.cap = 0 THEN s ELSE [s EXCEPT !.size = 0, !.mem = Written(s.mem, 0, <<Nul>>)]

----------------------------------------------------------------------------
(* Formatted arguments *)

\* The mode in force at the i-th argument of a pass that begins with start.
ModeAt(args, i, start) ==
    LET set == {j \in 1 .. i - 1 : args[j].kind = "mode"}
    IN  IF set = {} THEN start ELSE args[Max(set)].what

Printed(arg, mode) ==
    CASE arg.kind = "number" -> Shown(arg.what, mode)
      [] arg.kind = "text"   -> arg.what
      [] arg.kind = "mode"   -> << >>

\* Mutant: the second pass goes on with the mode the first one ended in.
ModeKept(args) == ModeAt(args, Len(args) + 1, DefaultMode)

\* The mode the second pass begins with.
ModeReset(args) == DefaultMode

\* What the first pass measures, argument by argument and up to each of them.
FormattedLength(args, i) == Len(Printed(args[i], ModeAt(args, i, DefaultMode)))
Total(args) ==
    LET sum[i \in 0 .. Len(args)] == IF i = 0 THEN 0 ELSE sum[i - 1] + FormattedLength(args, i)
    IN  sum

\* snprintf prints a number into len cells and ends it, saving what the end
\* would overwrite; a text of len characters is copied.
Cells(m, cursor, chars, len) ==
    [i \in DOMAIN m |->
        LET k == i - cursor
        IN  IF k \notin 1 .. len THEN m[i]
            ELSE IF k <= Len(chars) THEN chars[k]
            ELSE IF k = Len(chars) + 1 THEN Nul ELSE m[i]]

\* The second pass.
PrintedInto(m, index, args) ==
    LET after[i \in 0 .. Len(args)] ==
            IF i = 0 THEN m
            ELSE Cells(after[i - 1], index + Total(args)[i - 1],
                       Printed(args[i], ModeAt(args, i, ModeReset(args))),
                       FormattedLength(args, i))
    IN  after[Len(args)]

\* A call that prints nothing would write to the constant placeholder, which
\* is undefined: no caller makes it.
ASSUME FormatsPrint ==
    \A args \in Formats : \E i \in DOMAIN args : FormattedLength(args, i) > 0

FmtInserted(s, index, args) ==
    {[w EXCEPT !.mem = PrintedInto(w.mem, index, args)] :
        w \in WithRoom(s, index, Total(args)[Len(args)])}

----------------------------------------------------------------------------
StrInit == str = StrPlaceholder /\ strAnswer = {} /\ strFailed = FALSE

StrReturns(strings, answer) ==
    /\ ~strFailed
    /\ strFailed' = (strings = {})
    /\ IF strings = {}
       THEN strAnswer' = {} /\ UNCHANGED str
       ELSE strAnswer' = answer /\ str' \in strings

\* cc_insert_n, cc_insert, cc_push_n and cc_push; nothing to insert answers NULL.
StrInsertN(index, new) ==
    IF new = << >> THEN StrReturns({str}, {}) ELSE StrReturns(StrInserted(str, index, new), {index + 1})

\* cc_insert_fmt and cc_push_fmt
StrInsertFmt(index, args) == StrReturns(FmtInserted(str, index, args), {index + 1})

StrEraseN(index, n) ==
    StrReturns({IF n = 0 THEN str ELSE StrErased(str, index, n)}, {index + 1})

StrReserve(n) == StrReturns(StrReserved(str, n), {0})
StrResize(n, fill) == StrReturns(StrResized(str, n, fill), {0})
StrShrink == StrReturns({StrShrunk(str)}, {0})
StrShrinkFails == str.size \notin {0, str.cap} /\ StrReturns({}, {})

\* The caller goes on with the copy.
StrClone == StrReturns({StrCloned(str)}, {0})
StrCloneFails == str.size # 0 /\ StrReturns({}, {})

StrClear == StrReturns({StrCleared(str)}, {0})

StrCleanup == str' = StrPlaceholder /\ strAnswer' = {} /\ strFailed' = FALSE

StrNext ==
    \/ \E index \in 0 .. str.size, new \in Texts : StrInsertN(index, new)
    \/ \E index \in 0 .. str.size, args \in Formats : StrInsertFmt(index, args)
    \/ \E index \in 0 .. str.size : \E n \in 0 .. str.size - index : StrEraseN(index, n)
    \/ \E n \in 0 .. MaxStr + 1 : StrReserve(n)
    \/ \E n \in 0 .. MaxStr + 1, fill \in Chars : StrResize(n, fill)
    \/ StrShrink \/ StrShrinkFails \/ StrClone \/ StrCloneFails \/ StrClear \/ StrCleanup

StrSpec == StrInit /\ [][StrNext]_strVars

----------------------------------------------------------------------------
\* What a C function reads.
CString(s) ==
    SubSeq(s.mem, 1, Min({i \in DOMAIN s.mem : s.mem[i] = Nul} \cup {Len(s.mem) + 1}) - 1)

\* The text an argument list stands for.
Expected(args) ==
    LET text[i \in 0 .. Len(args)] ==
            IF i = 0 THEN << >> ELSE text[i - 1] \o Printed(args[i], ModeAt(args, i, DefaultMode))
    IN  text[Len(args)]

StrAsItems == INSTANCE Items WITH
    Item <- Chars, Runs <- Texts \cup {Expected(f) : f \in Formats} \cup {<< >>},
    items <- CString(str), answer <- strAnswer, failed <- strFailed

\* A string read up to its terminator is the sequence of the characters that
\* were inserted and not erased, each a character someone gave, however often
\* it grows, shrinks, moves or is copied.
StringIsItems == StrAsItems!ItemsSpec

\* cc_size is what strlen returns: no operation loses, doubles or misplaces the
\* terminator, at full capacity too.
SizeIsLength == Len(str.mem) = str.cap + 1 /\ str.size = Len(CString(str))

\* The two passes of a formatted insertion agree: whatever modes the arguments
\* set and leave set, exactly the measured room is filled, with the text that
\* the arguments stand for.
FormatsAsMeasured ==
    \A args \in Formats : \A s \in FmtInserted(str, 0, args) :
        CString(s) = Expected(args) \o CString(str)
=============================================================================
