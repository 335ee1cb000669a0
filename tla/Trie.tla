-------------------------------- MODULE Trie --------------------------------
(***************************************************************************)
(* The keyword trie.  At build time instruction_trie/main.c inserts a list *)
(* of words into a tree and lays it out in two arrays; at run time         *)
(* parse_line walks the arrays.  A word is a sequence of characters, a     *)
(* character its code; the number stored for a word is its place in the    *)
(* list.                                                                   *)
(***************************************************************************)
EXTENDS TrieNode, Sequences, SequencesExt

CONSTANTS
  Lists,       \* the lists of words the builder may be run on
  Queries(_)   \* for a list, the words a line of assembly may begin with

\* A key whose bit is the first of its half would shift by 64, which C leaves
\* undefined (trie.c:15).
ASSUME KeyAssumption ==
  \A list \in Lists : \A i \in DOMAIN list :
    list[i] # <<>> /\ \A k \in DOMAIN list[i] :
      list[i][k] \in Char /\ list[i][k] < 128 /\ Frag(list[i][k]) # 0

ASSUME ListAssumption == \A list \in Lists : list \in Seq(Seq(Char))

\* A line begins with at least one character.
ASSUME QueryAssumption == \A list \in Lists : Queries(list) \subseteq Seq(Char) \ {<<>>}

VARIABLES
  stage,   \* "insert", "fill", "idle", "walk", "answered"
  list,    \* the words given to the builder
  done,    \* how many of them are inserted
  kids,    \* the builder's tree: for the path to a node, its keys in order
  data,    \* for the path to an entry with term set, its data
  gbuf,    \* the nodes of the laid out trie
  aux,     \* its auxiliary array, as far as it was written
  gpos,    \* the last node, and
  apos,    \* the first slot that is nobody's
  current, \* gbuf_fill was called for this path, and before for its beginnings
  number,  \* for each path it was called for, its local n, and
  entry,   \* its local i in the second loop, the first entry being 1
  query,   \* the word looked up
  node,    \* parse_line's pos, as an index of gbuf
  here,    \* the place in query of parse_line's here
  answer   \* the data found, or 0

buildVars == <<list, done, kids, data>>
fillVars == <<gbuf, aux, gpos, apos, current, number, entry>>
walkVars == <<query, node, here, answer>>
vars == <<stage, buildVars, fillVars, walkVars>>

Init ==
  /\ stage = "insert"
  /\ list \in Lists
  /\ done = 0
  /\ kids = [p \in {<<>>} |-> <<>>]
  /\ data = <<>>
  /\ gbuf = <<>> /\ aux = <<>> /\ gpos = 0 /\ apos = 0
  /\ current = <<>> /\ number = <<>> /\ entry = <<>>
  /\ query = <<>> /\ node = 0 /\ here = 0 /\ answer = 0

\* f where x has the value e.
With(f, x, e) == [y \in DOMAIN f \cup {x} |-> IF y = x THEN e ELSE f[y]]

------------------------------------------------------------------------------
(* The builder *)

Paths == DOMAIN kids

\* The longest part of word the tree has.
Known(word) == CHOOSE p \in Paths : IsPrefix(p, word)
                 /\ \A q \in Paths : IsPrefix(q, word) => Len(q) <= Len(p)

\* A word that is already a path is dropped, even if no word ends there.
trie_builder_insert(word, d) ==
  LET p == Known(word) IN
  IF p = word THEN UNCHANGED <<kids, data>>
  ELSE /\ kids' = [q \in Paths \cup Prefixes(word) |->
                     IF q = p THEN Append(kids[p], word[Len(p) + 1])
                     ELSE IF q \in Paths THEN kids[q]
                     ELSE IF q = word THEN <<>>
                     ELSE <<word[Len(q) + 1]>>]
       /\ data' = With(data, word, d)

Insert ==
  /\ stage = "insert"
  /\ done < Len(list)
  /\ trie_builder_insert(list[done + 1], done + 1)
  /\ done' = done + 1
  /\ UNCHANGED <<stage, list, fillVars, walkVars>>

------------------------------------------------------------------------------
(* The layout *)

Inner(p) == kids[p] # <<>>

\* gbuf_size: the nodes besides the root, and the slots of the auxiliary array.
GbufSize == Cardinality({p \in Paths : p # <<>> /\ Inner(p)})
AuxSize  == GbufSize + Cardinality(DOMAIN data)

\* The first loop over the entries of p: the keys that are in C, one by one.
KeySet(p, C) ==
  LET set[k \in 0 .. Len(kids[p])] ==
        IF k = 0 THEN NoKeys
        ELSE IF kids[p][k] \in C THEN trie_set_key(set[k - 1], kids[p][k]) ELSE set[k - 1]
  IN  set[Len(kids[p])]

NextKeys(p) == {c \in ToSet(kids[p]) : Inner(Append(p, c))}
TermKeys(p) == {c \in ToSet(kids[p]) : Append(p, c) \in DOMAIN data}

\* Mutant: a node's words are not counted in the space it takes.
AposWithoutTerms(p) == apos + Cardinality(NextKeys(p))

AposAfter(p) == apos + Cardinality(NextKeys(p)) + Cardinality(TermKeys(p))

\* The node gbuf_fill writes for p.
NodeOf(p) ==
  [keys  |-> KeySet(p, NextKeys(p)),
   terms |-> KeySet(p, TermKeys(p)),
   next  |-> IF NextKeys(p) = {} THEN 0 ELSE apos,
   data  |-> IF TermKeys(p) = {} THEN 0 ELSE apos + Cardinality(NextKeys(p))]

\* gbuf_fill up to its second loop.
Call(p, g) ==
  /\ gpos' = g
  /\ current' = p
  /\ number' = With(number, p, g)
  /\ gbuf' = With(gbuf, g, NodeOf(p))
  /\ apos' = AposAfter(p)

Fill ==
  /\ stage = "insert"
  /\ done = Len(list)
  /\ stage' = "fill"
  /\ Call(<<>>, 0)
  /\ entry' = With(entry, <<>>, 1)
  /\ UNCHANGED <<buildVars, aux, walkVars>>

\* Its second loop: a word of the entry, and the node behind it.
FillEntry ==
  LET t == gbuf[number[current]]
      c == kids[current][entry[current]]
      q == Append(current, c)
      termed == IF q \in DOMAIN data THEN With(aux, t.data + Rank(t.terms, c), data[q]) ELSE aux
      looped == [entry EXCEPT ![current] = @ + 1]
  IN
  /\ stage = "fill"
  /\ entry[current] <= Len(kids[current])
  /\ \/ /\ Inner(q)
        /\ aux' = With(termed, t.next + Rank(t.keys, c), gpos + 1)
        /\ Call(q, gpos + 1)
        /\ entry' = With(looped, q, 1)
     \/ /\ ~ Inner(q)
        /\ aux' = termed
        /\ entry' = looped
        /\ UNCHANGED <<gbuf, gpos, apos, current, number>>
  /\ UNCHANGED <<stage, buildVars, walkVars>>

\* It returns to the loop of its caller, or to main.
FillReturn ==
  /\ stage = "fill"
  /\ entry[current] > Len(kids[current])
  /\ \/ current # <<>> /\ current' = Front(current) /\ UNCHANGED stage
     \/ current = <<>> /\ stage' = "idle" /\ UNCHANGED current
  /\ UNCHANGED <<buildVars, gbuf, aux, gpos, apos, number, entry, walkVars>>

------------------------------------------------------------------------------
(* The walk of parse_line *)

Ask ==
  /\ stage \in {"idle", "answered"}
  /\ stage' = "walk"
  /\ query' \in Queries(list)
  /\ node' = 0
  /\ here' = 1
  /\ answer' = 0
  /\ UNCHANGED <<buildVars, fillVars>>

TermIdx == trie_next_(gbuf[node].terms, gbuf[node].data, query[here])
NextIdx == trie_next_(gbuf[node].keys, gbuf[node].next, query[here])

\* Mutant: index 0, the first slot of the root, is taken for a failure.
PositiveOnly(idx) == idx > 0

Hit(idx) == idx >= 0

\* The character after here is not part of an identifier: look for a word.
WordEnd ==
  /\ stage = "walk"
  /\ here = Len(query)
  /\ stage' = "answered"
  /\ answer' = IF Hit(TermIdx) THEN aux[TermIdx] ELSE 0
  /\ UNCHANGED <<buildVars, fillVars, query, node, here>>

\* It is: follow the link, or give up.
Follow ==
  /\ stage = "walk"
  /\ here < Len(query)
  /\ IF Hit(NextIdx) THEN /\ node' = aux[NextIdx]
                          /\ here' = here + 1
                          /\ UNCHANGED stage
                     ELSE /\ stage' = "answered"
                          /\ UNCHANGED <<node, here>>
  /\ UNCHANGED <<buildVars, fillVars, query, answer>>

Next == Insert \/ Fill \/ FillEntry \/ FillReturn \/ Ask \/ WordEnd \/ Follow

Spec == Init /\ [][Next]_vars

------------------------------------------------------------------------------
(* Properties *)

\* trie_builder_insert drops a word that is the beginning of an earlier one.
Hidden(w) == \E j \in 1 .. w - 1 : IsPrefix(list[w], list[j])

\* What the text spells, the top bit of its characters ignored.
Seven(word) == [k \in DOMAIN word |-> word[k] % 128]

(***************************************************************************)
(* parse_line recognises exactly the words of the list that no earlier     *)
(* word hides, each as itself, whatever the order of the list, the shape   *)
(* of the tree and the halves its characters lie in.                       *)
(***************************************************************************)
LookupRight ==
  stage = "answered" =>
    IF answer # 0
    THEN answer \in DOMAIN list /\ list[answer] = Seven(query) /\ ~ Hidden(answer)
    ELSE \A w \in DOMAIN list : list[w] = Seven(query) => Hidden(w)

(***************************************************************************)
(* gbuf_fill stays inside the two arrays gbuf_size measured and leaves no  *)
(* hole in them: as many writes as slots, each to its own slot.            *)
(***************************************************************************)
LayoutFits ==
  stage \notin {"insert", "fill"} =>
    /\ DOMAIN gbuf = 0 .. GbufSize
    /\ DOMAIN aux = 0 .. AuxSize - 1

------------------------------------------------------------------------------
(* The list main() builds the assembler's trie from *)

LOCAL INSTANCE Keywords

\* Every operation and directive of the assembler is recognised: none of them
\* is the beginning of one that main() inserts before it.
KeywordsKnown ==
  stage = "answered" /\ list = Keywords /\ Seven(query) \in ToSet(list) => answer # 0
==============================================================================
