------------------------------- MODULE Listing -------------------------------
(***************************************************************************)
(* What the emitter promises its caller, without buffers, files, offsets   *)
(* or lists of waiters: two growing sequences of bytes and a table of      *)
(* addresses.  Defining a label completes every reference to it, wherever  *)
(* the reference is.  The promise ends with the first byte that is lost.   *)
(*                                                                         *)
(* Like the code, and unlike what the code means to do, a label that was   *)
(* referenced before it is defined never gets its address: see the         *)
(* violation of UnassignedMeansWaiting in module Assembler.                *)
(***************************************************************************)
EXTENDS Bytes

VARIABLES
  here,       \* the section that grows
  image,      \* section -> its bytes
  table,      \* label -> its address, negative while it has none
  mentioned,  \* the labels defined or referenced so far
  intact      \* no byte was lost

listing == <<here, image, table, mentioned, intact>>

Init ==
  /\ here = "SECT_TEXT"
  /\ image = [s \in Section |-> <<>>]
  /\ table = [l \in Label |-> -1]
  /\ mentioned = {}
  /\ intact = TRUE

Address == vaddr[here] + Len(image[here])

\* The section grows by bytes that need no label.
PlainBytes ==
  /\ \A s \in Section : s # here => image'[s] = image[s]
  /\ Len(image'[here]) >= Len(image[here])
  /\ \A i \in DOMAIN image'[here] :
       IF i <= Len(image[here]) THEN image'[here][i] = image[here][i]
       ELSE image'[here][i].kind \notin AssignType /\ image'[here][i].imm = {}
  /\ UNCHANGED <<here, table, mentioned>>

\* The section grows by an instruction that refers to l.
Refer(l, a) ==
  /\ mentioned' = mentioned \cup {l}
  /\ image' = [image EXCEPT ![here] = @ \o
                 Word(a, l, IF table[l] < 0 THEN {}
                            ELSE {FixTo(a, table[l], here, Len(image[here]))})]
  /\ UNCHANGED <<here, table>>

\* A definition of l that no reference precedes.
Define(l) ==
  /\ l \notin mentioned
  /\ mentioned' = mentioned \cup {l}
  /\ table' = [table EXCEPT ![l] = Address]
  /\ UNCHANGED <<here, image>>

\* A byte of a reference to l that has no displacement yet.
Incomplete(b, l) == b.kind \in AssignType /\ b.ref = l /\ b.imm = {}

\* A definition of l after references to it.
Complete(l) ==
  /\ l \in mentioned
  /\ table[l] < 0
  /\ image' = [s \in Section |-> [i \in DOMAIN image[s] |->
       LET b == image[s][i] IN
       IF Incomplete(b, l)
         THEN [b EXCEPT !.imm = {FixTo(b.kind, Address, s, i - 1 - b.part)}]
         ELSE b]]
  /\ UNCHANGED <<here, table, mentioned>>

Switch ==
  /\ here' \in Section
  /\ UNCHANGED <<image, table, mentioned>>

Next ==
  \/ intact /\ intact' /\ (\/ PlainBytes
                           \/ \E l \in Label, a \in AssignType : Refer(l, a)
                           \/ \E l \in Label : Define(l) \/ Complete(l)
                           \/ Switch)
  \/ ~ intact'

Spec == Init /\ [][Next]_listing
==============================================================================
