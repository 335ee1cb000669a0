------------------------------- MODULE Vector -------------------------------
(***************************************************************************)
(* cc_vec of src/cc.h: the vector a label keeps its waiters in.  Bounds:   *)
(* MaxVec is the largest capacity the allocator gives, MaxNew the longest  *)
(* run of elements inserted at once.                                       *)
(***************************************************************************)
EXTENDS Integers, Sequences

CONSTANTS VecEls, MaxVec, MaxNew

ASSUME VecAssumption == MaxVec \in Nat \ {0} /\ MaxNew \in Nat

VARIABLES
    vec,        \* size, capacity and memory
    vecAnswer,  \* what the last call returned: {} for NULL
    vecFailed

vecVars == <<vec, vecAnswer, vecFailed>>

Unset == "unset"

VecPlaceholder == [size |-> 0, cap |-> 0, mem |-> << >>]

----------------------------------------------------------------------------
\* Memory m with length cap: realloc keeps what fits.
Resized(m, cap) == [i \in 1..cap |-> IF i <= Len(m) THEN m[i] ELSE Unset]

\* The n cells at from copied upwards one by one, and moved, to another place.
CopiedUp(m, to, from, n) ==
    LET after[k \in 0..n] ==
            IF k = 0 THEN m
            ELSE [after[k - 1] EXCEPT ![to + k - 1] = after[k - 1][from + k - 1]]
    IN  after[n]
Moved(m, to, from, n) ==
    [i \in DOMAIN m |-> IF i \in to .. to + n - 1 THEN m[i - to + from] ELSE m[i]]

\* The vectors an allocating call can return: none when allocation fails.
VecReserved(v, n) ==
    IF v.cap >= n THEN {v}
    ELSE IF n > MaxVec THEN {} ELSE {[v EXCEPT !.cap = n, !.mem = Resized(v.mem, n)]}

\* The capacity doubles until size fits.
Grown(cap, size) ==
    LET grow[c \in Nat] == IF c < size THEN grow[2 * c] ELSE c
    IN  grow[IF cap = 0 THEN 2 ELSE cap]

\* new goes before index (from 0).
Inserted(v, index, new) ==
    LET n == Len(new)
    IN  {[w EXCEPT !.size = v.size + n,
                   !.mem = [i \in 1..w.cap |->
                              IF i \in index + 1 .. index + n
                              THEN new[i - index]
                              ELSE Moved(w.mem, index + n + 1, index + 1, v.size - index)[i]]] :
            w \in IF v.size + n > v.cap THEN VecReserved(v, Grown(v.cap, v.size + n)) ELSE {v}}

Erased(v, index, n) ==
    [v EXCEPT !.size = @ - n,
              !.mem = Moved(v.mem, index + 1, index + n + 1, v.size - n - index)]

\* New elements are whatever the memory holds.
VecResized(v, n) ==
    IF n <= v.size
    THEN {Erased(v, n, v.size - n)}
    ELSE {[w EXCEPT !.size = n] : w \in VecReserved(v, n)}

Shrunk(v) ==
    CASE v.size = v.cap -> v
      [] v.size # v.cap /\ v.size = 0 -> VecPlaceholder
      [] v.size # v.cap /\ v.size # 0 ->
            [v EXCEPT !.cap = v.size, !.mem = Resized(v.mem, v.size)]

\* The copy has no spare capacity.
VecCloned(v) ==
    IF v.size = 0 THEN VecPlaceholder
    ELSE [size |-> v.size, cap |-> v.size, mem |-> Resized(v.mem, v.size)]

----------------------------------------------------------------------------
VecInit == vec = VecPlaceholder /\ vecAnswer = {} /\ vecFailed = FALSE

VecReturns(vectors, answer) ==
    /\ ~vecFailed
    /\ vecFailed' = (vectors = {})
    /\ IF vectors = {}
       THEN vecAnswer' = {} /\ UNCHANGED vec
       ELSE vecAnswer' = answer /\ vec' \in vectors

\* cc_insert_n, cc_insert, cc_push_n and cc_push; nothing to insert answers NULL.
VecInsertN(index, new) ==
    IF new = << >>
    THEN VecReturns({vec}, {})
    ELSE VecReturns(Inserted(vec, index, new), {index + 1})

VecEraseN(index, n) ==
    VecReturns({IF n = 0 THEN vec ELSE Erased(vec, index, n)}, {index + 1})

VecReserve(n) == VecReturns(VecReserved(vec, n), {0})
VecResize(n) == VecReturns(VecResized(vec, n), {0})
VecShrink == VecReturns({Shrunk(vec)}, {0})
VecShrinkFails == vec.size \notin {0, vec.cap} /\ VecReturns({}, {})

\* The caller goes on with the copy.
VecClone == VecReturns({VecCloned(vec)}, {0})
VecCloneFails == vec.size # 0 /\ VecReturns({}, {})

VecClear == VecReturns({Erased(vec, 0, vec.size)}, {0})

VecCleanup == vec' = VecPlaceholder /\ vecAnswer' = {} /\ vecFailed' = FALSE

VecRuns == UNION {[1..n -> VecEls] : n \in 0..MaxNew}

VecNext ==
    \/ \E index \in 0 .. vec.size, new \in VecRuns :
            VecInsertN(index, new)
    \/ \E index \in 0 .. vec.size : \E n \in 0 .. vec.size - index : VecEraseN(index, n)
    \/ \E n \in 0 .. MaxVec + 1 : VecReserve(n) \/ VecResize(n)
    \/ VecShrink \/ VecShrinkFails \/ VecClone \/ VecCloneFails \/ VecClear \/ VecCleanup

VecSpec == VecInit /\ [][VecNext]_vecVars

----------------------------------------------------------------------------
\* cc_get, and the steps of cc_for_each from cc_first to cc_end.
VecItems == SubSeq(vec.mem, 1, vec.size)

VecAsItems == INSTANCE Items WITH
    Item <- VecEls \cup {Unset}, Runs <- VecRuns, items <- VecItems, answer <- vecAnswer,
    failed <- vecFailed

\* A vector is a sequence: whatever is inserted, erased, grown, shrunk or
\* copied, and however often the memory moves, the elements that stay keep their
\* values and order, and an element is unset only if resizing made it.
VecIsItems == VecAsItems!ItemsSpec
=============================================================================
