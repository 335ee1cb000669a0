-------------------------------- MODULE List --------------------------------
(***************************************************************************)
(* cc_list of src/cc.h: doubly linked lists whose ends are nodes of their  *)
(* header, all lists without a header sharing the ends of one constant     *)
(* placeholder.  Iterators always name the placeholder's ends.  Two lists  *)
(* are modelled, so that nodes may be spliced from one to the other.       *)
(* Bound: the allocator has MaxNodes nodes.                                *)
(***************************************************************************)
EXTENDS Integers, Sequences, SequencesExt, FiniteSetsExt

CONSTANTS ListEls, MaxNodes

ASSUME ListAssumption == MaxNodes \in Nat

VARIABLES
    lists,        \* for each list, whether it has a header, and its size
    link,         \* the neighbours of every allocated node and end
    item,         \* the elements of the allocated nodes
    listCall,     \* the call under way and its arguments, or ListIdle
    listAnswer,   \* {iterator} or {"true"} returned by the last call, {} for NULL
    listDead,     \* the program has written to the constant placeholder
    owned         \* the nodes the calls have put into each list and not taken out

listVars == <<lists, link, item, listCall, listAnswer, listDead, owned>>

Two == 1..2

\* Ends are those of list 1 or 2's header, or of the placeholder (0).
REndOf(l) == <<"r_end", l>>
EndOf(l) == <<"end", l>>
Node(i) == <<"node", i>>
HeaderOf(l) == IF lists[l].header THEN l ELSE 0

ListPlaceholder == [a \in {REndOf(0), EndOf(0)} |->
                  [prev |-> REndOf(0), next |-> EndOf(0)]]

----------------------------------------------------------------------------
\* Iterators leave the placeholder's ends for the header's, and return to them.
NextOf(l, a) ==
    LET next == link[IF a = REndOf(0) THEN REndOf(HeaderOf(l)) ELSE a].next
    IN  IF next = EndOf(HeaderOf(l)) THEN link[next].next ELSE next

PrevOf(l, a) ==
    LET prev == link[IF a = EndOf(0) THEN EndOf(HeaderOf(l)) ELSE a].prev
    IN  IF prev = REndOf(HeaderOf(l)) THEN link[prev].prev ELSE prev

FirstOf(l) == NextOf(l, REndOf(0))

\* The nodes cc_for_each and cc_r_for_each meet.
Forwards(l) ==
    LET from[a \in DOMAIN link] == IF a = EndOf(0) THEN << >> ELSE <<a>> \o from[NextOf(l, a)]
    IN  from[FirstOf(l)]
Backwards(l) ==
    LET from[a \in DOMAIN link] == IF a = REndOf(0) THEN << >> ELSE <<a>> \o from[PrevOf(l, a)]
    IN  from[PrevOf(l, EndOf(0))]

\* What becomes of the links: a header whose ends know the placeholder's, a
\* node taken out (or only its predecessor linked past it), a node put before
\* another or before an end.
WithHeader(links, all, l) ==
    IF all[l].header THEN links
    ELSE (REndOf(l) :> [prev |-> REndOf(0), next |-> EndOf(l)]) @@
         (EndOf(l) :> [prev |-> REndOf(l), next |-> EndOf(0)]) @@ links

DetachedForwards(links, a) == [links EXCEPT ![links[a].prev].next = links[a].next]
Detached(links, a) ==
    LET n == links[a]
    IN  [links EXCEPT ![n.prev].next = n.next, ![n.next].prev = n.prev]

HeadersOwn(l, a) ==
    IF a = REndOf(0) THEN REndOf(l) ELSE IF a = EndOf(0) THEN EndOf(l) ELSE a

\* The last of the four assignments is forgotten.
AttachedOneWay(links, l, before, a) ==
    LET at == HeadersOwn(l, before)
    IN  [(a :> [prev |-> links[at].prev, next |-> at]) @@ links EXCEPT ![at].prev = a]

\* Each assignment reads what the ones before it wrote.
Attached(links, l, before, a) ==
    LET at     == HeadersOwn(l, before)
        placed == (a :> [prev |-> links[at].prev, next |-> at]) @@ links
        back   == [placed EXCEPT ![at].prev = a]
    IN  [back EXCEPT ![back[a].prev].next = a]

Free == {Node(i) : i \in 1..MaxNodes} \ DOMAIN item
Fresh == Node(Min({a[2] : a \in Free}))

Without(f, gone) == [a \in DOMAIN f \ gone |-> f[a]]

\* The nodes a caller has iterators of: those it walks to, and those of its
\* list that no walk meets.
Walked(l) == Range(Forwards(l))
Adrift(l) == owned[l] \ Walked(l)

----------------------------------------------------------------------------
ListIdle == [op |-> "none"]

Befores(l) == owned[l] \cup {EndOf(0), REndOf(0)}

ListCalls ==
    UNION {[op : {"insert"}, list : {l}, before : Befores(l), el : ListEls] : l \in Two}
    \cup UNION {[op : {"splice"}, list : {l}, before : Befores(l), from : {f}, at : owned[f]] :
                    l, f \in Two}
    \cup UNION {[op : {"erase"}, list : {l}, at : owned[l]] : l \in Two}
    \cup [op : {"init_clone", "clear", "cleanup"}, list : Two]

ListInit ==
    /\ lists = [l \in Two |-> [header |-> FALSE, size |-> 0]]
    /\ link = ListPlaceholder
    /\ item = << >> /\ owned = [l \in Two |-> {}]
    /\ listCall = ListIdle /\ listAnswer = {} /\ listDead = FALSE

ListAsk ==
    /\ ~listDead /\ listCall = ListIdle /\ listCall' \in ListCalls
    /\ listAnswer' = {}
    /\ UNCHANGED <<lists, link, item, listDead, owned>>

ListReturns(op, answer) ==
    /\ listCall.op = op /\ listCall' = ListIdle
    /\ listAnswer' = answer /\ UNCHANGED listDead

\* The placeholder is a constant: a write to it stops the program.
WritesConstant(links) == \E a \in DOMAIN ListPlaceholder : links[a] # ListPlaceholder[a]

\* cc_list_insert and cc_list_splice, once there is a header and a node.
Attaches(op, links, a, sizes, elements, owns, answer) ==
    LET l   == listCall.list
        out == Attached(WithHeader(links, lists, l), l, listCall.before, a)
    IN  /\ ListReturns(op, answer)
        /\ ~WritesConstant(out) /\ link' = out
        /\ lists' = [sizes EXCEPT ![l] = [header |-> TRUE, size |-> @.size + 1]]
        /\ item' = elements /\ owned' = [owns EXCEPT ![l] = @ \cup {a}]

ListStops ==
    LET l     == listCall.list
        links == WithHeader(link, lists, l)
    IN  /\ \/ /\ listCall.op = "insert" /\ Free # {}
              /\ WritesConstant(Attached(links, l, listCall.before, Fresh))
           \/ /\ listCall.op = "splice"
              /\ WritesConstant(Attached(Detached(links, listCall.at), l, listCall.before,
                                         listCall.at))
        /\ listDead' = TRUE /\ listCall' = ListIdle /\ listAnswer' = {}
        /\ UNCHANGED <<lists, link, item, owned>>

ListInsert ==
    /\ listCall.op = "insert" /\ Free # {}
    /\ Attaches("insert", link, Fresh, lists, (Fresh :> listCall.el) @@ item, owned, {Fresh})

\* The header is kept when only the node's allocation fails.
ListInsertFails(header) ==
    LET l == listCall.list
    IN  /\ ListReturns("insert", {})
        /\ lists[l].header => header
        /\ link' = IF header THEN WithHeader(link, lists, l) ELSE link
        /\ lists' = [lists EXCEPT ![l].header = header]
        /\ UNCHANGED <<item, owned>>

ListSplice ==
    LET a == listCall.at
    IN  Attaches("splice", Detached(link, a), a,
                 [lists EXCEPT ![listCall.from].size = @ - 1], item,
                 [owned EXCEPT ![listCall.from] = @ \ {a}], {"true"})

ListSpliceFails ==
    /\ ListReturns("splice", {}) /\ ~lists[listCall.list].header
    /\ UNCHANGED <<lists, link, item, owned>>

ListErase ==
    LET l    == listCall.list
        a    == listCall.at
        next == link[a].next
    IN  /\ ListReturns("erase", {IF next = EndOf(l) THEN link[next].next ELSE next})
        /\ link' = Without(Detached(link, a), {a})
        /\ item' = Without(item, {a})
        /\ lists' = [lists EXCEPT ![l].size = @ - 1]
        /\ owned' = [owned EXCEPT ![l] = @ \ {a}]

\* A copy of every node: the caller goes on with the copy and cleans up the
\* original.
ListClone ==
    LET l     == listCall.list
        nodes == Forwards(l)
        copy  == SubSeq(SetToSortSeq(Free, LAMBDA a, b : a[2] < b[2]), 1, Len(nodes))
        bare  == Without(link, Range(nodes) \cup {REndOf(l), EndOf(l)})
        kept  == [lists EXCEPT ![l].header = FALSE]
    IN  /\ ListReturns("init_clone", {"true"}) /\ Cardinality(Free) >= Len(nodes)
        /\ link' = IF nodes = << >> THEN bare
                   ELSE FoldLeft(LAMBDA links, a : Attached(links, l, EndOf(0), a),
                                 WithHeader(bare, kept, l), copy)
        /\ item' = [i \in Range(copy) |-> item[nodes[CHOOSE n \in DOMAIN copy : copy[n] = i]]]
                      @@ Without(item, Range(nodes))
        /\ lists' = [lists EXCEPT ![l] = [header |-> nodes # << >>, size |-> Len(nodes)]]
        /\ owned' = [owned EXCEPT ![l] = Range(copy)]

\* An incomplete copy is given back.
ListCloneFails ==
    /\ ListReturns("init_clone", {}) /\ Forwards(listCall.list) # << >>
    /\ UNCHANGED <<lists, link, item, owned>>

\* Clearing erases first elements until there is none, and keeps the header.
ListClear ==
    LET l     == listCall.list
        nodes == Forwards(l)
    IN  /\ ListReturns("clear", {})
        /\ link' = FoldLeft(LAMBDA links, a : Without(Detached(links, a), {a}), link, nodes)
        /\ item' = Without(item, Range(nodes))
        /\ lists' = [lists EXCEPT ![l].size = @ - Len(nodes)]
        /\ owned' = [owned EXCEPT ![l] = @ \ Range(nodes)]

ListCleanup ==
    LET l == listCall.list
    IN  /\ ListReturns("cleanup", {})
        /\ link' = Without(link, Walked(l) \cup {REndOf(l), EndOf(l)})
        /\ item' = Without(item, Walked(l))
        /\ lists' = [lists EXCEPT ![l] = [header |-> FALSE, size |-> 0]]
        /\ owned' = [owned EXCEPT ![l] = {}]

ListNext ==
    \/ ListAsk
    \/ ListInsert \/ (\E header \in BOOLEAN : ListInsertFails(header))
    \/ ListSplice \/ ListSpliceFails \/ ListErase
    \/ ListClone \/ ListCloneFails \/ ListClear \/ ListCleanup
    \/ ListStops

ListSpec == ListInit /\ [][ListNext]_listVars

----------------------------------------------------------------------------
ListsAsOrders == INSTANCE Lists WITH
    End <- EndOf(0), REnd <- REndOf(0),
    order <- [l \in Two |-> Forwards(l)], adrift <- [l \in Two |-> Adrift(l)],
    value <- item, call <- listCall, answer <- listAnswer, stopped <- listDead

\* Two lists are two sequences of places that keep their elements: what an
\* insertion puts in, a splice moves within a list or across, an erasure or a
\* clearing takes out is the element, at the place, that the call names, and it
\* answers with the new place or the one that comes after, whichever list has a
\* header and whatever fails.
ListsAreItems == ListsAsOrders!OrderSpec

\* A walk forwards meets what a walk backwards meets, in the other order, and
\* only nodes the calls have put into that list and no other; the size counts
\* those nodes, also the ones no walk meets.
WalksAgree ==
    /\ \A l \in Two :
        /\ Forwards(l) = Reverse(Backwards(l)) /\ Walked(l) \subseteq owned[l]
        /\ lists[l].size = Cardinality(owned[l])
    /\ owned[1] \cap owned[2] = {}

----------------------------------------------------------------------------
\* cc.h:343-345, "Returns the number of elements": what size counts is what a
\* loop over the list meets.
SizeIsWalked == \A l \in Two : lists[l].size = Len(Forwards(l))

\* cc.h:2585-2586, "Handle r_end and end pointer-iterators as a special case":
\* either may be inserted before.
REndIsHandled == ~listDead
=============================================================================
