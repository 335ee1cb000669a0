------------------------------- MODULE Items -------------------------------
(***************************************************************************)
(* What the sequential containers of src/cc.h promise their callers: a     *)
(* sequence of items, and for each call the position it answers with.      *)
(* Vector and Str implement it.                                            *)
(***************************************************************************)
EXTENDS Integers, Sequences

CONSTANTS
    Item,         \* what a place may hold
    Runs          \* the sequences of items that are inserted at once

VARIABLES
    items,
    answer,       \* {position}, or {} for NULL
    failed        \* an allocation failed

itemVars == <<items, answer, failed>>

Front(i) == SubSeq(items, 1, i - 1)
Rest(i) == SubSeq(items, i, Len(items))

ItemsInit == items = << >> /\ answer = {} /\ failed = FALSE

Settled == ~failed /\ UNCHANGED failed

\* New items go before position i.
Insert(i, new) ==
    /\ Settled
    /\ items' = Front(i) \o new \o Rest(i)
    /\ answer' = IF new = << >> THEN {} ELSE {i}

\* n items go, from position i on.
Remove(i, n) ==
    /\ Settled
    /\ items' = Front(i) \o Rest(i + n)
    /\ answer' = {i}

\* Items are added whose values are nobody's.
Lengthen ==
    /\ Settled
    /\ items' \in Seq(Item) /\ Len(items') > Len(items)
    /\ SubSeq(items', 1, Len(items)) = items
    /\ answer' = {0}

\* The items after the first n go.
Shorten(n) == Settled /\ items' = SubSeq(items, 1, n) /\ answer' = {0}

\* reserve, shrink and init_clone show the caller nothing.
Rearrange == Settled /\ answer' = {0} /\ UNCHANGED items

\* A failed allocation loses nothing, whichever call it stops.
Fail == ~failed /\ failed' = TRUE /\ answer' = {} /\ UNCHANGED items

\* Cleaning up leaves an empty container, after a failure too.
Reset == items' = << >> /\ answer' = {} /\ failed' = FALSE

ItemsNext ==
    \/ \E i \in 1 .. Len(items) + 1, new \in Runs : Insert(i, new)
    \/ \E i \in 1 .. Len(items) + 1 : \E n \in 0 .. Len(items) + 1 - i : Remove(i, n)
    \/ \E n \in 0 .. Len(items) : Shorten(n)
    \/ Lengthen \/ Rearrange \/ Fail \/ Reset

ItemsSpec == ItemsInit /\ [][ItemsNext]_itemVars
=============================================================================
