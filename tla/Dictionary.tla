---------------------------- MODULE Dictionary ----------------------------
(***************************************************************************)
(* What the two associative containers of src/cc.h promise their callers,  *)
(* whatever the layout behind them: a finite function from keys to         *)
(* elements, what each call does to the key it is made for, and sweeps     *)
(* (first, next, erase_itr) that visit every key exactly once although the *)
(* caller may erase each key it visits.  A call is made in one step and    *)
(* returns in the next.  HashMap and Tree implement it.                    *)
(***************************************************************************)
EXTENDS FiniteSets, Sequences, Functions, TLC

CONSTANT MayLose    \* how many other keys a failed insertion may cost

VARIABLES
    content,    \* the elements by key
    call,       \* the call under way and its arguments, or NoCall
    answer,     \* what the last call returned: {} for NULL
    sweeping,   \* whether an iteration from first to end is under way
    swept       \* the keys it visited, in order

dictVars == <<content, call, answer, sweeping, swept>>

NoCall == [op |-> "none"]
True == {"true"}

Without(lost) == Restrict(content, DOMAIN content \ lost)

DictInit ==
    /\ content = << >> /\ call = NoCall /\ answer = {}
    /\ sweeping = FALSE /\ swept = << >>

Ask ==
    /\ call = NoCall /\ call' # NoCall
    /\ answer' = {} /\ UNCHANGED <<content, sweeping, swept>>

Returns(op) == call.op = op /\ call' = NoCall

Plain(op) == Returns(op) /\ ~sweeping /\ UNCHANGED <<sweeping, swept>>

\* An insertion answers with the element that is in the container after it.
Put ==
    /\ Plain("insert")
    /\ content' = IF call.key \in DOMAIN content /\ ~call.replace
                  THEN content
                  ELSE (call.key :> call.el) @@ content
    /\ answer' = {content'[call.key]}

\* A failed allocation stops the insertion of a new key.
PutFails ==
    /\ Plain("insert") /\ call.key \notin DOMAIN content
    /\ \E lost \in SUBSET DOMAIN content :
        Cardinality(lost) <= MayLose /\ content' = Without(lost)
    /\ answer' = {}

Look ==
    /\ Plain("get") /\ UNCHANGED content
    /\ answer' = {content[k] : k \in DOMAIN content \cap {call.key}}

Remove ==
    /\ Plain("erase")
    /\ content' = Without({call.key})
    /\ answer' = IF call.key \in DOMAIN content THEN True ELSE {}

\* What does not show, whether it fails or not.
Rearrange ==
    /\ \E op \in {"reserve", "shrink", "init_clone"} : Plain(op)
    /\ answer' \in {True, {}} /\ UNCHANGED content

Wipe ==
    /\ \E op \in {"clear", "cleanup"} : Plain(op)
    /\ content' = << >> /\ answer' = {}

StartSweep ==
    /\ Returns("first") /\ ~sweeping
    /\ sweeping' = TRUE /\ swept' = << >> /\ answer' = {}
    /\ UNCHANGED content

\* The sweep visits a key it has not visited, and may erase it.
Visit ==
    /\ sweeping /\ UNCHANGED sweeping
    /\ \E k \in DOMAIN content \ Range(swept) :
        /\ swept' = Append(swept, k)
        /\ \/ Returns("next") /\ UNCHANGED content
           \/ Returns("erase_itr") /\ content' = Without({k})
    /\ answer' = {}

\* The caller finds its iterator at the end.
EndSweep ==
    /\ sweeping /\ call = NoCall
    /\ DOMAIN content \subseteq Range(swept)
    /\ sweeping' = FALSE /\ swept' = << >> /\ answer' = {}
    /\ UNCHANGED <<content, call>>

DictNext ==
    \/ Ask
    \/ Put \/ PutFails \/ Look \/ Remove \/ Rearrange \/ Wipe
    \/ StartSweep \/ Visit \/ EndSweep

DictSpec == DictInit /\ [][DictNext]_dictVars
=============================================================================
