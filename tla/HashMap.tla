------------------------------ MODULE HashMap ------------------------------
(***************************************************************************)
(* cc_map of src/cc.h: an open-addressing table with quadratic probing in  *)
(* which the keys of one home bucket are linked by displacements.  A       *)
(* bucket is its metadatum (fragment of the hash, in-home flag, distance   *)
(* of the next key) with its key and element; a vacated bucket's stale     *)
(* bytes are not kept.  Bounds: MaxCap is the largest table the allocator  *)
(* gives, DispMask and MinCap stand for CC_MAP_DISPLACEMENT_MASK and       *)
(* CC_MAP_MIN_NONZERO_BUCKET_COUNT.                                        *)
(***************************************************************************)
EXTENDS Integers, Sequences, SequencesExt, FiniteSetsExt

CONSTANTS
    Keys,           \* what a caller asks for
    Pairs,          \* the keys and elements it inserts
    Hashes,         \* the hash functions considered: subsets of [Keys -> Nat]
    FragUnit,       \* a hash's fragment is its part above this power of two
    MinCap, DispMask, MaxCap,
    Loads,          \* maximum load factors, as <<numerator, denominator>>
    Reserved        \* the numbers of elements the caller reserves room for

ASSUME HashAssumption ==
    /\ Hashes \subseteq [Keys -> Nat]
    /\ MinCap \in Nat \ {0, 1} /\ DispMask \in Nat \ {0}
    /\ FragUnit >= MaxCap

VARIABLES
    map,            \* size, mask (capacity - 1, or 0) and buckets
    hash, load,     \* what the key type was declared with
    mapCall,        \* the call under way and its arguments, or Idle
    mapAnswer,      \* what the last call returned
    mapAt,          \* the iterator of the sweep, as a bucket, or NoSweep
    mapSwept,       \* the keys the sweep visited, in order
    mapFailed       \* the last allocation failed

mapVars == <<map, hash, load, mapCall, mapAnswer, mapAt, mapSwept, mapFailed>>

NoSweep == -1

----------------------------------------------------------------------------
Vacant == [frag |-> 0, home |-> FALSE, disp |-> 0, pair |-> << >>]

\* cap is a power of two: mask + 1, except in the placeholder.
Blank(mask) == [size |-> 0, mask |-> mask, bucket |-> [b \in 0..mask |-> Vacant]]

MapPlaceholder == Blank(0)

Cap(m) == IF m.mask = 0 THEN 0 ELSE m.mask + 1
Masked(m, n) == n % (m.mask + 1)

Used(m) == {b \in 0..m.mask : m.bucket[b] # Vacant}
KeyAt(m, b) == m.bucket[b].pair[1]
Home(m, k) == Masked(m, hash[k])
Frag(k) == hash[k] \div FragUnit

Quadratic(d) == (d * d + d) \div 2
At(m, home, d) == Masked(m, home + Quadratic(d))
Following(m, home, b) == At(m, home, m.bucket[b].disp)
EndsChain(m, b) == m.bucket[b].disp = DispMask

\* The buckets linked from home, in order.
Chain(m, home) ==
    LET from[b \in 0..m.mask] ==
            IF EndsChain(m, b) THEN <<b>> ELSE <<b>> \o from[Following(m, home, b)]
    IN  from[home]

MaxSize(cap) == (load[1] * cap) \div load[2]

MinCapFor(n) ==
    LET atLeast[cap \in Nat] == IF n > MaxSize(cap) THEN atLeast[2 * cap] ELSE cap
    IN  IF n = 0 THEN 0 ELSE atLeast[MinCap]

\* The displacement of the first empty bucket; {} beyond the limit.
FirstEmpty(m, home) ==
    LET empty == {d \in 1 .. DispMask - 1 : m.bucket[At(m, home, d)] = Vacant}
    IN  IF empty = {} THEN {} ELSE {Min(empty)}

\* A new key is linked at the end of its chain.
EndOfChain(m, home, d) == Chain(m, home)[Len(Chain(m, home))]

\* The bucket after which displacement d is linked.
InsertLocation(m, home, d) ==
    SelectSeq(Chain(m, home), LAMBDA b : m.bucket[b].disp > d)[1]

Link(m, home, d, entry) ==
    LET prev == InsertLocation(m, home, d)
    IN  [m EXCEPT !.bucket[At(m, home, d)] =
                      [entry EXCEPT !.home = FALSE, !.disp = m.bucket[prev].disp],
                  !.bucket[prev].disp = d]

Before(m, home, b) ==
    CHOOSE p \in Range(Chain(m, home)) : ~EndsChain(m, p) /\ Following(m, home, p) = b

\* The key of bucket b out of its chain.
CutOut(m, home, b) == [m EXCEPT !.bucket[Before(m, home, b)].disp = m.bucket[b].disp]

\* Every step that may fail returns the map as it leaves it, and whether it
\* succeeded.
Done(m) == [ok |-> TRUE, map |-> m]
Refused(m) == [ok |-> FALSE, map |-> m]

\* The key in bucket b, which does not belong there, moves along its chain.
\* It is out of its chain when no place is found for it.
Evict(m, b) ==
    LET home == Home(m, KeyAt(m, b))
        cut  == CutOut(m, home, b)
    IN  IF FirstEmpty(cut, home) = {}
        THEN Refused(cut)
        ELSE Done(Link(cut, home, Min(FirstEmpty(cut, home)), m.bucket[b]))

\* What cc_map_insert_raw does for a new key once the load is checked, and
\* the whole of cc_map_reinsert.
Place(m, pair) ==
    LET home  == Home(m, pair[1])
        entry == [frag |-> Frag(pair[1]), home |-> TRUE, disp |-> DispMask, pair |-> pair]
        AtHome(n) == [n EXCEPT !.bucket[home] = entry, !.size = @ + 1]
    IN  CASE m.bucket[home] = Vacant -> Done(AtHome(m))
          [] m.bucket[home] # Vacant /\ ~m.bucket[home].home ->
                LET out == Evict(m, home)
                IN  IF out.ok THEN Done(AtHome(out.map)) ELSE out
          [] m.bucket[home].home ->
                IF FirstEmpty(m, home) = {}
                THEN Refused(m)
                ELSE Done([Link(m, home, Min(FirstEmpty(m, home)), entry)
                           EXCEPT !.size = @ + 1])

\* The bucket of key k, found along the chain of its home: {} or one bucket.
Find(m, k) ==
    IF m.bucket[Home(m, k)].home
    THEN {b \in Range(Chain(m, Home(m, k))) :
            m.bucket[b].frag = Frag(k) /\ KeyAt(m, b) = k}
    ELSE {}

InsertRaw(m, k, e, replace) ==
    CASE Find(m, k) # {} ->
            Done(IF replace THEN [m EXCEPT !.bucket[Min(Find(m, k))].pair = <<k, e>>] ELSE m)
      [] Find(m, k) = {} /\ m.size + 1 > MaxSize(Cap(m)) -> Refused(m)
      [] Find(m, k) = {} /\ m.size + 1 <= MaxSize(Cap(m)) -> Place(m, <<k, e>>)

\* The keys are placed in the order of their buckets until one finds no place.
Refill(m, cap) ==
    LET place(result, b) == IF result.ok THEN Place(result.map, m.bucket[b].pair) ELSE result
    IN  FoldLeft(place, Done(Blank(cap - 1)), SetToSortSeq(Used(m), <)).map

MakeRehash(m, cap) ==
    LET try[c \in Nat] ==
            CASE c > MaxCap -> Refused(m)
              [] c <= MaxCap /\ Refill(m, c).size < m.size -> try[2 * c]
              [] c <= MaxCap /\ Refill(m, c).size >= m.size -> Done(Refill(m, c))
    IN  try[cap]

RECURSIVE InsertLoop(_, _, _, _)
InsertLoop(m, k, e, replace) ==
    LET raw  == InsertRaw(m, k, e, replace)
        grown == MakeRehash(raw.map, IF m.mask = 0 THEN MinCap ELSE 2 * Cap(m))
    IN  CASE raw.ok -> raw
          [] ~raw.ok /\ ~grown.ok -> grown
          [] ~raw.ok /\ grown.ok -> InsertLoop(grown.map, k, e, replace)

----------------------------------------------------------------------------
\* The first occupied bucket from b on, or the end.
LeapForward(m, b) == Min({c \in Used(m) : c >= b} \cup {Cap(m)})

\* Whether an iterator at b moves on when last takes the place of b; always.
MovesOnAlways(b, last) == TRUE
MovesOn(b, last) == last <= b

\* Erasing always occurs at the end of a chain: its last key takes the place
\* of the one erased.
EraseRaw(m, b) ==
    LET home  == IF m.bucket[b].home THEN b ELSE Home(m, KeyAt(m, b))
        chain == Chain(m, home)
        last  == chain[Len(chain)]
        less  == [m EXCEPT !.size = @ - 1]
    IN  [moveOn |-> MovesOn(b, last),
         map |-> IF Len(chain) = 1
                 THEN [less EXCEPT !.bucket[b] = Vacant]
                 ELSE [less EXCEPT !.bucket[b].pair = m.bucket[last].pair,
                                   !.bucket[b].frag = m.bucket[last].frag,
                                   !.bucket[Before(m, home, last)].disp = DispMask,
                                   !.bucket[last] = Vacant]]

----------------------------------------------------------------------------
Idle == [op |-> "none"]

MapCalls ==
    {[op |-> "insert", key |-> p[1], el |-> p[2], replace |-> r] : p \in Pairs, r \in BOOLEAN}
    \cup {[op |-> o, key |-> k] : o \in {"get", "erase"}, k \in Keys}
    \cup {[op |-> "reserve", n |-> n] : n \in Reserved}
    \cup {[op |-> o] : o \in {"shrink", "init_clone", "clear", "cleanup", "first"}}

SweepCalls == {[op |-> o] : o \in {"next", "erase_itr"}}

MapInit ==
    /\ map = MapPlaceholder
    /\ hash \in Hashes /\ load \in Loads
    /\ mapCall = Idle /\ mapAnswer = {} /\ mapAt = NoSweep /\ mapSwept = << >>
    /\ mapFailed = FALSE

True == {"true"}

\* The buckets a failed eviction left out of their chains.
Lost(m) == {b \in Used(m) : Find(m, KeyAt(m, b)) = {}}

\* With a key out of its chain, the caller may only look up keys or clean up; a
\* sweep goes on to its end.
MapAsk(c) ==
    /\ mapCall = Idle
    /\ IF mapAt = NoSweep
       THEN c \in MapCalls /\ (Lost(map) # {} => c.op \in {"get", "cleanup"})
       ELSE c \in SweepCalls /\ mapAt \in Used(map)
    /\ mapCall' = c /\ mapAnswer' = {}
    /\ UNCHANGED <<map, hash, load, mapAt, mapSwept, mapFailed>>

Asked(op) == mapCall.op = op /\ mapCall' = Idle /\ UNCHANGED <<hash, load>>

Unswept == UNCHANGED <<mapAt, mapSwept>>

\* A call that may allocate leaves the caller the map it had when it fails.
Returns(out, answer) ==
    /\ map' = out.map
    /\ mapFailed' = ~out.ok
    /\ mapAnswer' = IF out.ok THEN answer ELSE {}
    /\ Unswept

ElsAt(m, buckets) == {m.bucket[b].pair[2] : b \in buckets}

\* cc_insert, cc_get_or_insert
MapInsert ==
    LET k   == mapCall.key
        out == InsertLoop(map, k, mapCall.el, mapCall.replace)
    IN  Asked("insert") /\ Returns(out, ElsAt(out.map, Find(out.map, k)))

MapGet ==
    /\ Asked("get") /\ Unswept
    /\ mapAnswer' = ElsAt(map, Find(map, mapCall.key))
    /\ UNCHANGED <<map, mapFailed>>

MapErase ==
    LET found == Find(map, mapCall.key)
    IN  /\ Asked("erase")
        /\ IF found = {} THEN Returns(Done(map), {})
           ELSE Returns(Done(EraseRaw(map, Min(found)).map), True)

MapReserve ==
    LET cap == MinCapFor(mapCall.n)
    IN  /\ Asked("reserve")
        /\ Returns(IF Cap(map) >= cap THEN Done(map) ELSE MakeRehash(map, cap), True)

MapShrink ==
    LET cap == MinCapFor(map.size)
    IN  /\ Asked("shrink")
        /\ Returns(CASE cap = Cap(map) -> Done(map)
                     [] cap # Cap(map) /\ cap = 0 -> Done(MapPlaceholder)
                     [] cap # Cap(map) /\ cap # 0 -> MakeRehash(map, cap),
                   True)

\* The caller goes on with the copy, or without it if there is no memory.
MapClone ==
    /\ Asked("init_clone")
    /\ \/ Returns(Done(IF map.size = 0 THEN MapPlaceholder ELSE map), True)
       \/ map.size # 0 /\ Returns(Refused(map), {})

MapClear == Asked("clear") /\ Returns(Done(Blank(map.mask)), {})

MapCleanup == Asked("cleanup") /\ Returns(Done(MapPlaceholder), {})

MapFirst ==
    /\ Asked("first")
    /\ mapAt' = LeapForward(map, 0)
    /\ UNCHANGED <<map, mapAnswer, mapSwept, mapFailed>>

\* The sweep looks at the key under the iterator, and goes on to the next.
MapVisit ==
    /\ mapSwept' = Append(mapSwept, KeyAt(map, mapAt))
    /\ UNCHANGED <<mapAnswer, mapFailed>>

MapStep ==
    /\ Asked("next") /\ MapVisit
    /\ mapAt' = LeapForward(map, mapAt + 1) /\ UNCHANGED map

MapEraseItr ==
    LET out == EraseRaw(map, mapAt)
    IN  /\ Asked("erase_itr") /\ MapVisit
        /\ map' = out.map
        /\ mapAt' = IF out.moveOn THEN LeapForward(out.map, mapAt + 1) ELSE mapAt

MapEnd ==
    /\ mapCall = Idle /\ mapAt = Cap(map)
    /\ mapAt' = NoSweep /\ mapSwept' = << >>
    /\ mapAnswer' = {} /\ UNCHANGED <<map, hash, load, mapCall, mapFailed>>

MapNext ==
    \/ \E c \in MapCalls \cup SweepCalls : MapAsk(c)
    \/ MapInsert \/ MapGet \/ MapErase
    \/ MapReserve \/ MapShrink \/ MapClone \/ MapClear \/ MapCleanup
    \/ MapFirst \/ MapStep \/ MapEraseItr \/ MapEnd

MapSpec == MapInit /\ [][MapNext]_mapVars

----------------------------------------------------------------------------
\* What cc_map_get finds.
MapContent ==
    LET found == {KeyAt(map, b) : b \in Used(map) \ Lost(map)}
    IN  [k \in found |-> map.bucket[Min(Find(map, k))].pair[2]]

MapAsDictionary == INSTANCE Dictionary WITH
    MayLose <- 1,
    content <- MapContent, call <- mapCall, answer <- mapAnswer,
    sweeping <- mapAt # NoSweep, swept <- mapSwept

\* The table is a dictionary, where a key is in it if cc_map_get finds it: every
\* insertion, lookup and erasure does to the key it is made for, and answers,
\* what a plain function from keys to elements would, across every eviction,
\* growth, shrinking and rehash; a failed allocation costs nothing but, in an
\* insertion, the one key that was being moved; and a sweep that erases some of
\* the keys under its iterator still meets every key once and none twice.
MapIsDictionary == MapAsDictionary!DictSpec

\* The chains cc_map_get follows: every key is on the chain of its own home
\* bucket and of no other, the chain begins there and runs outwards, and the
\* size counts the keys and respects the load factor.  Only one key may be on
\* no chain, and only after a failed allocation.
ChainsRight ==
    /\ map.size = Cardinality(Used(map))
    /\ map.size <= MaxSize(Cap(map))
    /\ Cardinality(Lost(map)) <= IF mapFailed THEN 1 ELSE 0
    /\ \A b \in Used(map) : map.bucket[b].home <=> b = Home(map, KeyAt(map, b))
    /\ \A b \in Used(map) : map.bucket[b].home =>
        LET chain == Chain(map, b)
        IN  /\ Range(chain) = {c \in Used(map) \ Lost(map) : Home(map, KeyAt(map, c)) = b}
            /\ \A i \in 1 .. Len(chain) - 1 :
                    map.bucket[chain[i]].disp < map.bucket[chain[i + 1]].disp
=============================================================================
