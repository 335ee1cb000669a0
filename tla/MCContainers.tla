---------------------------- MODULE MCContainers ----------------------------
(***************************************************************************)
(* One container of each kind, of which a behaviour uses one.              *)
(***************************************************************************)
EXTENDS Vector, Str, HashMap, Tree, List

VARIABLE used

\* Homes that collide, wrap around, interleave and meet the displacement
\* limit, with equal and with different fragments.
MCHashes ==
    LET f(a, b, c, d) == ("a" :> a) @@ ("b" :> b) @@ ("c" :> c) @@ ("d" :> d)
    IN  {f(0, 8, 1, 3), f(0, 16, 1, 17), f(7, 23, 7, 8)}

MCLoads == {<<9, 10>>}

MCMapPairs == ({"a", "b", "c", "d"} \X {"x"}) \cup {<<"b", "y">>}

MCPairs == (TreeKeys \X {"x"}) \cup {<<4, "y">>}

MCShown(n, m) == IF m = "dec" THEN <<"x", "y">> ELSE <<"y">>

MCTexts == {<< >>, <<"x">>, <<"y", "x">>}

MCFormats ==
    LET mode(m) == [kind |-> "mode", what |-> m]
        number  == [kind |-> "number", what |-> 10]
        text    == [kind |-> "text", what |-> <<"x">>]
    IN  {<<number, mode("hex")>>, <<mode("hex"), text, number>>,
         <<mode("hex"), number, mode("dec"), text>>}

Kinds == {"vec", "str", "map", "omap", "list"}

Init == used \in Kinds /\ VecInit /\ StrInit /\ MapInit /\ TreeInit /\ ListInit
        /\ (used # "map" => hash = CHOOSE h \in Hashes : TRUE)

UseVector == used = "vec" /\ VecNext /\ UNCHANGED <<used, strVars, mapVars, treeVars, listVars>>
UseStr == used = "str" /\ StrNext /\ UNCHANGED <<used, vecVars, mapVars, treeVars, listVars>>
UseMap == used = "map" /\ MapNext /\ UNCHANGED <<used, vecVars, strVars, treeVars, listVars>>
UseTree == used = "omap" /\ TreeNext /\ UNCHANGED <<used, vecVars, strVars, mapVars, listVars>>
UseList == used = "list" /\ ListNext /\ UNCHANGED <<used, vecVars, strVars, mapVars, treeVars>>

Next == UseVector \/ UseStr \/ UseMap \/ UseTree \/ UseList

Spec == Init /\ [][Next]_<<used, vecVars, strVars, mapVars, treeVars, listVars>>
=============================================================================
