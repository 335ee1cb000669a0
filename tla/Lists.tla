------------------------------- MODULE Lists -------------------------------
(***************************************************************************)
(* What the lists of src/cc.h promise a caller that names elements by      *)
(* their pointer-iterators: two sequences of places, what each call does   *)
(* to them and what it answers.  A call is made in one step and returns in *)
(* the next.  Two calls do what no sequence does: a place spliced before   *)
(* itself drifts out of its list, and nothing can be put before r_end.     *)
(* List implements it.                                                     *)
(***************************************************************************)
EXTENDS Integers, Sequences, SequencesExt, Functions, TLC

CONSTANTS End, REnd    \* the iterators past the last and before the first element

VARIABLES
    order,      \* the places of each list, in order
    adrift,     \* the places of each list that are in no order any more
    value,      \* the element at every place
    call,       \* the call under way and its arguments, or NoCall
    answer,     \* {place}, {"true"}, or {} for NULL
    stopped     \* the program has been stopped

listsVars == <<order, adrift, value, call, answer, stopped>>

NoCall == [op |-> "none"]

OrderInit ==
    /\ order = << << >>, << >> >> /\ adrift = <<{}, {}>> /\ value = << >>
    /\ call = NoCall /\ answer = {} /\ stopped = FALSE

Ask ==
    /\ ~stopped /\ call = NoCall /\ call' # NoCall
    /\ answer' = {} /\ UNCHANGED <<order, adrift, value, stopped>>

Returns(op) == call.op = op /\ call' = NoCall /\ UNCHANGED stopped

After(s, p) == Append(s, End)[SelectInSeq(s, LAMBDA q : q = p) + 1]
PutBefore(s, p, q) == InsertAt(s, SelectInSeq(Append(s, End), LAMBDA r : r = p), q)

\* Place p of the orders and drifts given goes where the call says.
Goes(p, orders, drifts) ==
    LET l == call.list
    IN  IF call.before \in drifts[l] \cup {p}
        THEN order' = orders /\ adrift' = [drifts EXCEPT ![l] = @ \cup {p}]
        ELSE order' = [orders EXCEPT ![l] = PutBefore(@, call.before, p)] /\ adrift' = drifts

Allowed == call.before # REnd

\* An insertion answers with the new place.
Insert ==
    /\ Returns("insert") /\ Allowed
    /\ \E p \in DOMAIN value' \ DOMAIN value :
        Goes(p, order, adrift) /\ value' = (p :> call.el) @@ value /\ answer' = {p}

Splice ==
    /\ Returns("splice") /\ Allowed
    /\ Goes(call.at, [order EXCEPT ![call.from] = Remove(@, call.at)],
                     [adrift EXCEPT ![call.from] = @ \ {call.at}])
    /\ answer' = {"true"} /\ UNCHANGED value

\* An erasure answers with the place that came after, if the place was in order.
Erase ==
    LET l == call.list
    IN  /\ Returns("erase")
        /\ order' = [order EXCEPT ![l] = Remove(@, call.at)]
        /\ adrift' = [adrift EXCEPT ![l] = @ \ {call.at}]
        /\ value' = Restrict(value, DOMAIN value \ {call.at})
        /\ IF call.at \in adrift[l] THEN answer' \in {{p} : p \in adrift[l]}
           ELSE answer' = {After(order[l], call.at)}

\* A copy has places of its own; the caller goes on with it and cleans up.
Clone ==
    LET l    == call.list
        copy == order'[l]
    IN  /\ Returns("init_clone")
        /\ order' = [order EXCEPT ![l] = copy] /\ adrift' = [adrift EXCEPT ![l] = {}]
        /\ Len(copy) = Len(order[l]) /\ IsInjective(copy)
        /\ Range(copy) \cap DOMAIN value = {}
        /\ value' = [p \in (DOMAIN value \ Range(order[l])) \cup Range(copy) |->
                        IF p \in DOMAIN value THEN value[p]
                        ELSE value[order[l][SelectInSeq(copy, LAMBDA q : q = p)]]]
        /\ answer' = {"true"}

\* A place that drifted out is not found to be cleared away.
Wipe(op) ==
    LET l == call.list
    IN  /\ Returns(op)
        /\ order' = [order EXCEPT ![l] = << >>]
        /\ value' = Restrict(value, DOMAIN value \ Range(order[l]))
        /\ answer' = {}

Clear == Wipe("clear") /\ UNCHANGED adrift
Cleanup == Wipe("cleanup") /\ adrift' = [adrift EXCEPT ![call.list] = {}]

\* A failed allocation changes nothing that can be seen.
Fail ==
    /\ \E op \in {"insert", "splice", "init_clone"} : Returns(op)
    /\ answer' = {} /\ UNCHANGED <<order, adrift, value>>

\* Putting an element before r_end is the end of the program.
Stop ==
    /\ call.op \in {"insert", "splice"} /\ ~Allowed /\ stopped' = TRUE
    /\ call' = NoCall /\ answer' = {} /\ UNCHANGED <<order, adrift, value>>

OrderNext ==
    \/ Ask
    \/ Insert \/ Splice \/ Erase \/ Clone \/ Clear \/ Cleanup
    \/ Fail \/ Stop

OrderSpec == OrderInit /\ [][OrderNext]_listsVars
=============================================================================
