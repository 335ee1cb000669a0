------------------------------ MODULE MCParser ------------------------------
(***************************************************************************)
(* Texts for Parser: every text one edit away from a correct line (a       *)
(* character or word inserted, removed or replaced), alone and after a few *)
(* lines that are easily misread.                                          *)
(***************************************************************************)
EXTENDS Parser

MCValue == [n \in Number |-> CASE n = "-1" -> -1 [] n = "7" -> 7 [] n = "300" -> 300
                               [] n = "5000" -> 5000]

Lines == {
  <<"add", "blank", "x1", ",", "x1", ",", "x1">>,
  <<"addi", "blank", "x1", ",", "x1", ",", "-1">>,
  <<"slli", "blank", "x1", ",", "x1", ",", "7">>,
  <<"sw", "blank", "x1", ",", "7", "(", "x1", ")">>,
  <<"beq", "blank", "x1", ",", "x1", ",", "n">>,
  <<"lui", "blank", "x1", ",", "300">>,
  <<"jal", "blank", "x1", ",", "n">>,
  <<"ecall">>, <<".data">>, <<"n", ":">>, <<"blank", "n", "blank", ":">>, <<"7", ":">>,
  <<".space", "blank", "7">>,
  <<".byte", "blank", "7", ",", "7">>,
  <<".ascii", "quote", "n", "backslash", "n", "quote">>,
  <<>> }

Alphabet == {"add", ".byte", ".text", "lw", "x1", "n", "-1", "300", "5000", "blank", "NL", "NUL", ",", "(",
             ")", ":", "quote", "backslash"}

Edits(l) ==
  {l} \cup {RemoveAt(l, i) : i \in DOMAIN l}
      \cup {InsertAt(l, i, t) : i \in 1 .. Len(l) + 1, t \in Alphabet}
      \cup {ReplaceAt(l, i, t) : i \in DOMAIN l, t \in Alphabet}

Openings == {
  <<>>, <<"NL">>, <<"blank", "NL">>, <<"n", ":", "NL">>, <<"ecall", "NUL">>,
  <<".byte", "NL", "7", ",", "NL">>, <<"lui", "blank", "x1", ",", "NL">>,
  <<".ascii", "quote", "backslash", "NL", "quote", "NL">>,
  <<"jal", "blank", "x1", ",", "n", "NL", "n", ":", "NL">> }

MCInputs == {t \in {o \o e : o \in Openings, e \in UNION {Edits(l) : l \in Lines}} : WellSpaced(t)}
=============================================================================
