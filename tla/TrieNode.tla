------------------------------ MODULE TrieNode ------------------------------
(***************************************************************************)
(* One node of the keyword trie: trie.h's struct, trie_next_ and            *)
(* instruction_trie.h's trie_set_key.  A 64-bit word is the set of its one  *)
(* bits; a node's keys are two words, and the keys below a given one are    *)
(* counted with a shift and a popcount to find its place in the auxiliary   *)
(* array.                                                                   *)
(***************************************************************************)
EXTENDS Integers, FiniteSets

Char == 0 .. 255

Bits64 == SUBSET (0 .. 63)

Half(c) == (c \div 64) % 2

Frag(c) == c % 64

\* A 64-bit shift to the left; k is less than 64 (see KeyAssumption in Trie).
Shl64(x, k) == {b + k : b \in {e \in x : e + k < 64}}

\* Mutant: the key itself is counted.
RankWithSelf(keys, c) ==
  (IF Half(c) = 1 THEN Cardinality(keys[0]) ELSE 0)
    + Cardinality(Shl64(keys[Half(c)], 63 - Frag(c)))

\* How many keys of the node precede c.
Rank(keys, c) ==
  (IF Half(c) = 1 THEN Cardinality(keys[0]) ELSE 0)
    + Cardinality(Shl64(keys[Half(c)], 64 - Frag(c)))

HasKey(keys, c) == Frag(c) \in keys[Half(c)]

\* The top bit of c is ignored; -1 if c is not a key.
trie_next_(keys, next, c) == IF HasKey(keys, c) THEN next + Rank(keys, c) ELSE -1

trie_set_key(keys, c) == [keys EXCEPT ![Half(c)] = @ \cup {Frag(c)}]

NoKeys == [ik \in 0 .. 1 |-> {}]

KeyCount(keys) == Cardinality(keys[0]) + Cardinality(keys[1])
==============================================================================
