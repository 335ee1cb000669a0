------------------------------- MODULE MCTrie -------------------------------
(***************************************************************************)
(* Instances of Trie: every list of up to MaxWords distinct words of a     *)
(* small pool, whose characters lie in both halves of the key set, asked   *)
(* for every word up to MaxQuery characters; and the assembler's own list, *)
(* asked for its words, what they begin with and what begins with them.    *)
(***************************************************************************)
EXTENDS Trie, Keywords

CONSTANTS MaxWords, MaxQuery

\* ".", "0", "Z", "a", "b"
Pool == { <<97>>, <<97, 98>>, <<97, 98, 97>>, <<97, 48>>, <<97, 90, 98>>, <<46, 97>>, <<98>> }

SmallLists == {l \in UNION {[1 .. n -> Pool] : n \in 0 .. MaxWords} : IsInjective(l)}

MCLists == SmallLists \cup {Keywords}

\* 225 is "a" with its top bit set; only the first character of a line can be.
SmallQueries ==
  UNION {[1 .. n -> {48, 90, 97, 98}] : n \in 1 .. MaxQuery}
    \cup {<<c>> \o q : c \in {46, 64, 225}, q \in UNION {[1 .. n -> {97, 98}] : n \in 0 .. 2}}

KeywordQueries ==
  LET words == ToSet(Keywords) IN
  UNION {Prefixes(w) \ {<<>>} : w \in words} \cup {Append(w, 105) : w \in words}

MCQueries(l) == IF l \in SmallLists THEN SmallQueries ELSE KeywordQueries
==============================================================================
