-------------------------------- MODULE Tree --------------------------------
(***************************************************************************)
(* cc_omap of src/cc.h: an ordered map kept as a red-black tree with one   *)
(* shared, constant sentinel.  A node is named by the key it was made for: *)
(* no function copies a key from a node to another.  Direction 0 is left   *)
(* or backwards and 1 is right or forwards, as the code's bools are.       *)
(***************************************************************************)
EXTENDS Integers, Sequences, FiniteSetsExt

CONSTANTS
    TreeKeys,
    TreePairs       \* the pairs of a key and an element that are inserted

ASSUME TreeAssumption ==
    /\ TreeKeys \subseteq Nat \ {0}
    /\ TreePairs \subseteq TreeKeys \X {p[2] : p \in TreePairs}

VARIABLES
    tree,           \* whether it has a header; its size, root and nodes
    treeCall,       \* the call under way and its arguments, or TreeIdle
    treeAnswer,     \* what the last call returned: {} for NULL
    treeDir,        \* the direction of the sweep under way
    treeAt,         \* its iterator: a node, an end, or NoSweep
    treeSwept       \* the keys it visited, in order

treeVars == <<tree, treeCall, treeAnswer, treeDir, treeAt, treeSwept>>

Sentinel == 0
Null == -1
Nodes == TreeKeys \cup {Sentinel}

\* The iterators before the first and after the last node, and none.
REnd == -1
End == -2
EndIn(dir) == IF dir = 1 THEN End ELSE REnd
NotSweeping == -3

SentinelNode == [red |-> FALSE, parent |-> Null, kids |-> [d \in 0..1 |-> Null], el |-> {}]
FreeNode == SentinelNode

NoTree(header) == [header |-> header, size |-> 0, root |-> Sentinel,
                   node |-> [n \in Nodes |-> FreeNode]]

----------------------------------------------------------------------------
Kid(t, n, d) == t.node[n].kids[d]
Parent(t, n) == t.node[n].parent
IsRed(t, n) == t.node[n].red
Side(t, p, n) == IF Kid(t, p, 1) = n THEN 1 ELSE 0
Opposite(t, p, n) == IF n = Kid(t, p, 0) THEN 1 ELSE 0

Colour(t, n, red) == [t EXCEPT !.node[n].red = red]
SetParent(t, n, p) == IF n = Sentinel THEN t ELSE [t EXCEPT !.node[n].parent = p]

\* new takes the place of old under old's parent p.
Hang(t, p, old, new) ==
    SetParent(IF p = Sentinel THEN [t EXCEPT !.root = new]
              ELSE [t EXCEPT !.node[p].kids[Side(t, p, old)] = new], new, p)

Rotate(t, n, d) ==
    LET child == Kid(t, n, 1 - d)
        inner == Kid(t, child, d)
        swung == SetParent([t EXCEPT !.node[n].kids[1 - d] = inner], inner, n)
        hung  == Hang(swung, Parent(t, n), n, child)
    IN  SetParent([hung EXCEPT !.node[child].kids[d] = n], n, child)

RECURSIVE FixInsert(_, _)
FixInsert(t, n) ==
    IF n = t.root \/ ~IsRed(t, Parent(t, n))
    THEN Colour(t, t.root, FALSE)
    ELSE LET p     == Parent(t, n)
             g     == Parent(t, p)
             d     == Opposite(t, g, p)
             uncle == Kid(t, g, d)
             bent  == n = Kid(t, p, d)
             \* The node below and the tree once the path to it is straight.
             low   == IF bent THEN p ELSE n
             st    == IF bent THEN Rotate(t, p, 1 - d) ELSE t
             mid   == Parent(st, low)
             top   == Parent(st, mid)
         IN  IF IsRed(t, uncle)
             THEN FixInsert(Colour(Colour(Colour(t, p, FALSE), uncle, FALSE), g, TRUE), g)
             ELSE FixInsert(Rotate(Colour(Colour(st, mid, FALSE), top, TRUE), top, d), low)

\* The sibling rises to the parent's place: its far child keeps its colour, and
\* becomes black.
LiftUncoloured(t, parent, sibling, d) ==
    Rotate(Colour(Colour(t, sibling, IsRed(t, parent)), parent, FALSE), parent, 1 - d)
Lift(t, parent, sibling, d) ==
    Rotate(Colour(Colour(Colour(t, sibling, IsRed(t, parent)), parent, FALSE),
                  Kid(t, sibling, d), FALSE), parent, 1 - d)

\* n, perhaps the sentinel, is below parent and lacks one black node.
RECURSIVE FixErase(_, _, _)
FixErase(t, n, parent) ==
    IF n = t.root \/ IsRed(t, n)
    THEN IF n = Sentinel THEN t ELSE Colour(t, n, FALSE)
    ELSE LET d   == Opposite(t, parent, n)
             s0  == Kid(t, parent, d)
             t1  == IF IsRed(t, s0)
                    THEN Rotate(Colour(Colour(t, s0, FALSE), parent, TRUE), parent, 1 - d)
                    ELSE t
             s1  == Kid(t1, parent, d)
             t2  == IF IsRed(t1, Kid(t1, s1, d)) THEN t1
                    ELSE Rotate(Colour(Colour(t1, Kid(t1, s1, 1 - d), FALSE), s1, TRUE), s1, d)
             t3  == Lift(t2, parent, Kid(t2, parent, d), d)
         IN  IF \A c \in 0..1 : ~IsRed(t1, Kid(t1, s1, c))
             THEN FixErase(Colour(t1, s1, TRUE), parent, Parent(t1, parent))
             ELSE FixErase(t3, t3.root, Sentinel)

----------------------------------------------------------------------------
\* The last node from n on in direction d.
Furthest(t, n, d) ==
    LET go[m \in TreeKeys] == IF Kid(t, m, d) = Sentinel THEN m ELSE go[Kid(t, m, d)]
    IN  go[n]

FirstOrLast(t, dir) ==
    IF t.root = Sentinel THEN EndIn(dir) ELSE Furthest(t, t.root, 1 - dir)

\* The node after n in direction dir, looking one node up only.
IterateOneUp(t, n, dir) ==
    IF Kid(t, n, dir) # Sentinel THEN Furthest(t, Kid(t, n, dir), 1 - dir)
    ELSE IF Parent(t, n) # Sentinel /\ Kid(t, Parent(t, n), 1 - dir) = n
         THEN Parent(t, n) ELSE EndIn(dir)

\* The node after n in direction dir: below it, or the first node above it
\* that it is before.
Iterate(t, n, dir) ==
    LET climb[m \in TreeKeys] ==
            CASE Parent(t, m) = Sentinel -> EndIn(dir)
              [] Parent(t, m) # Sentinel /\ Kid(t, Parent(t, m), 1 - dir) = m -> Parent(t, m)
              [] Parent(t, m) # Sentinel /\ Kid(t, Parent(t, m), 1 - dir) # m -> climb[Parent(t, m)]
    IN  IF Kid(t, n, dir) # Sentinel THEN Furthest(t, Kid(t, n, dir), 1 - dir) ELSE climb[n]

\* The nodes a search for k passes, in order.
Path(t, k) ==
    LET from[n \in Nodes] ==
            CASE n = Sentinel -> << >>
              [] n = k -> <<n>>
              [] n # Sentinel /\ n # k -> <<n>> \o from[Kid(t, n, IF k > n THEN 1 ELSE 0)]
    IN  from[t.root]

Holds(t, k) == Path(t, k) # << >> /\ Path(t, k)[Len(Path(t, k))] = k

\* The first node on the path that is not before k, in direction dir.
BoundedFirst(t, k, dir) ==
    LET path  == Path(t, k)
        after == {i \in DOMAIN path : IF dir = 1 THEN path[i] > k ELSE path[i] < k}
    IN  CASE Holds(t, k) -> k
          [] ~Holds(t, k) /\ after = {} -> EndIn(dir)
          [] ~Holds(t, k) /\ after # {} -> path[Min(after)]

\* The last node on the path that is not before k, in direction dir.
Bounded(t, k, dir) ==
    LET path  == Path(t, k)
        after == {i \in DOMAIN path : IF dir = 1 THEN path[i] > k ELSE path[i] < k}
    IN  CASE Holds(t, k) -> k
          [] ~Holds(t, k) /\ after = {} -> EndIn(dir)
          [] ~Holds(t, k) /\ after # {} -> path[Max(after)]

\* The new node, red, goes below the last node of the search.
TreeInserted(t, k, e, replace) ==
    LET path == Path(t, k)
        p    == IF path = << >> THEN Sentinel ELSE path[Len(path)]
        made == [t EXCEPT !.header = TRUE, !.size = @ + 1,
                          !.node[k] = [red |-> TRUE, parent |-> p, el |-> {e},
                                       kids |-> [d \in 0..1 |-> Sentinel]]]
    IN  CASE Holds(t, k) -> IF replace THEN [t EXCEPT !.node[k].el = {e}] ELSE t
          [] ~Holds(t, k) /\ p = Sentinel -> FixInsert([made EXCEPT !.root = k], k)
          [] ~Holds(t, k) /\ p # Sentinel ->
                FixInsert([made EXCEPT !.node[p].kids[IF k > p THEN 1 ELSE 0] = k], k)

\* The node that leaves the bottom of the tree: n, or its successor, which
\* then takes n's place.
ToDetach(t, n) ==
    IF \E d \in 0..1 : Kid(t, n, d) = Sentinel THEN n ELSE Furthest(t, Kid(t, n, 1), 0)

Supplanted(t, n, by) ==
    LET placed == [Hang(t, Parent(t, n), n, by) EXCEPT !.node[by].kids = t.node[n].kids,
                                                       !.node[by].red = IsRed(t, n)]
    IN  SetParent(SetParent(placed, Kid(t, n, 0), by), Kid(t, n, 1), by)

TreeErased(t, n) ==
    LET detach == ToDetach(t, n)
        child  == Kid(t, detach, IF Kid(t, detach, 0) = Sentinel THEN 1 ELSE 0)
        cut    == Hang(t, Parent(t, detach), detach, child)
        fixed  == IF IsRed(t, detach) THEN cut ELSE FixErase(cut, child, Parent(t, detach))
        moved  == IF detach = n THEN fixed ELSE Supplanted(fixed, n, detach)
    IN  [moved EXCEPT !.node[n] = FreeNode, !.size = @ - 1]

----------------------------------------------------------------------------
TreeIdle == [op |-> "none"]

TreeCalls ==
    {[op |-> "insert", key |-> p[1], el |-> p[2], replace |-> r] : p \in TreePairs, r \in BOOLEAN}
    \cup {[op |-> o, key |-> k] : o \in {"get", "erase"}, k \in TreeKeys}
    \cup {[op |-> o] : o \in {"init_clone", "clear", "cleanup"}}
    \cup {[op |-> "first", dir |-> d] : d \in 0..1}

TreeSweepCalls == {[op |-> o] : o \in {"next", "erase_itr"}}

TreeInit ==
    /\ tree = NoTree(FALSE)
    /\ treeCall = TreeIdle /\ treeAnswer = {}
    /\ treeDir = 1 /\ treeAt = NotSweeping /\ treeSwept = << >>

TreeTrue == {"true"}

\* Erasing under an iterator moves it forward only: backwards, nothing is erased.
TreeAsk(c) ==
    /\ treeCall = TreeIdle
    /\ IF treeAt = NotSweeping THEN c \in TreeCalls
       ELSE c \in TreeSweepCalls /\ treeAt \in TreeKeys /\ (c.op = "erase_itr" => treeDir = 1)
    /\ treeCall' = c /\ treeAnswer' = {}
    /\ UNCHANGED <<tree, treeDir, treeAt, treeSwept>>

TreeAsked(op) == treeCall.op = op /\ treeCall' = TreeIdle

TreeReturns(t, answer) ==
    tree' = t /\ treeAnswer' = answer /\ UNCHANGED <<treeDir, treeAt, treeSwept>>

TreeInsert ==
    LET k == treeCall.key
        t == TreeInserted(tree, k, treeCall.el, treeCall.replace)
    IN  TreeAsked("insert") /\ TreeReturns(t, t.node[k].el)

\* The header is kept when only the node's allocation fails.
TreeInsertFails(header) ==
    /\ TreeAsked("insert")
    /\ ~Holds(tree, treeCall.key) /\ (tree.header => header)
    /\ TreeReturns([tree EXCEPT !.header = header], {})

TreeGet ==
    LET k == treeCall.key
    IN  TreeAsked("get") /\ TreeReturns(tree, IF Holds(tree, k) THEN tree.node[k].el ELSE {})

TreeErase ==
    LET k == treeCall.key
    IN  /\ TreeAsked("erase")
        /\ IF Holds(tree, k) THEN TreeReturns(TreeErased(tree, k), TreeTrue)
           ELSE TreeReturns(tree, {})

\* The caller goes on with the copy, whose root is made black, or without it if
\* there is no memory.
TreeClone ==
    /\ TreeAsked("init_clone")
    /\ \/ TreeReturns(IF tree.size = 0 THEN NoTree(FALSE)
                       ELSE Colour(tree, tree.root, FALSE), TreeTrue)
       \/ tree.size # 0 /\ TreeReturns(tree, {})

TreeClear == TreeAsked("clear") /\ TreeReturns(NoTree(tree.header), {})

TreeCleanup == TreeAsked("cleanup") /\ TreeReturns(NoTree(FALSE), {})

TreeFirst ==
    /\ TreeAsked("first")
    /\ treeDir' = treeCall.dir /\ treeAt' = FirstOrLast(tree, treeCall.dir)
    /\ UNCHANGED <<tree, treeAnswer, treeSwept>>

TreeVisit ==
    /\ treeSwept' = Append(treeSwept, treeAt)
    /\ treeAt' = Iterate(tree, treeAt, treeDir)
    /\ UNCHANGED <<treeAnswer, treeDir>>

TreeStep == TreeAsked("next") /\ TreeVisit /\ UNCHANGED tree

\* Erasing under an iterator moves it first.
TreeEraseItr == TreeAsked("erase_itr") /\ TreeVisit /\ tree' = TreeErased(tree, treeAt)

TreeEnd ==
    /\ treeCall = TreeIdle /\ treeAt = EndIn(treeDir)
    /\ treeAt' = NotSweeping /\ treeDir' = 1 /\ treeSwept' = << >>
    /\ treeAnswer' = {} /\ UNCHANGED <<tree, treeCall>>

TreeNext ==
    \/ \E c \in TreeCalls \cup TreeSweepCalls : TreeAsk(c)
    \/ TreeInsert \/ (\E header \in BOOLEAN : TreeInsertFails(header))
    \/ TreeGet \/ TreeErase \/ TreeClone \/ TreeClear \/ TreeCleanup
    \/ TreeFirst \/ TreeStep \/ TreeEraseItr \/ TreeEnd

TreeSpec == TreeInit /\ [][TreeNext]_treeVars

----------------------------------------------------------------------------
Kept == {k \in TreeKeys : tree.node[k] # FreeNode}

\* What a search from the root finds.
Found == {k \in TreeKeys : Holds(tree, k)}

TreeAsDictionary == INSTANCE Dictionary WITH
    MayLose <- 0,
    content <- [k \in Found |-> CHOOSE e \in {p[2] : p \in TreePairs} : tree.node[k].el = {e}],
    call <- treeCall, answer <- treeAnswer,
    sweeping <- treeAt # NotSweeping, swept <- treeSwept

\* The tree is a dictionary, where a key is in it if a search from the root finds
\* it: every insertion, lookup and erasure does to the key it is made for, and
\* answers, what a plain function from keys to elements would, across every
\* rebalancing; a failed allocation costs nothing; and a sweep that erases under
\* its iterator still meets every key once and none twice.
TreeIsDictionary == TreeAsDictionary!DictSpec

\* The nodes from the root to a leaf's sentinel, and their number of black ones.
BlackHeights(n) ==
    LET heights[m \in Nodes] ==
            IF m = Sentinel THEN {0}
            ELSE {h + (IF IsRed(tree, m) THEN 0 ELSE 1) :
                    h \in heights[Kid(tree, m, 0)] \cup heights[Kid(tree, m, 1)]}
    IN  heights[n]

\* Balance survives every insertion and erasure, which never write to the
\* constant sentinel all trees share: parents and children agree, the root is
\* black, no red node has a red child, and every path has as many black nodes.
RedBlack ==
    /\ tree.node[Sentinel] = SentinelNode
    /\ tree.size = Cardinality(Kept)
    /\ ~IsRed(tree, tree.root)
    /\ \A n \in Kept : n = tree.root <=> Parent(tree, n) = Sentinel
    /\ \A n \in Kept : \A d \in 0..1 :
        LET kid == Kid(tree, n, d)
        IN  kid # Sentinel => /\ Parent(tree, kid) = n
                              /\ ~(IsRed(tree, n) /\ IsRed(tree, kid))
    /\ Cardinality(BlackHeights(tree.root)) = 1

\* cc_first and cc_last with a bound find the nearest key on its side, and a
\* sweep meets the keys in order.
InOrder ==
    /\ \A k \in TreeKeys :
        /\ Bounded(tree, k, 1) = Min({j \in Kept : j >= k} \cup (IF \E j \in Kept : j >= k THEN {} ELSE {End}))
        /\ Bounded(tree, k, 0) = Max({j \in Kept : j <= k} \cup {REnd})
    /\ \A i \in 1 .. Len(treeSwept) - 1 :
        IF treeDir = 1 THEN treeSwept[i] < treeSwept[i + 1] ELSE treeSwept[i] > treeSwept[i + 1]
=============================================================================
