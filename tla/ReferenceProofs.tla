--------------------------- MODULE ReferenceProofs ---------------------------
(***************************************************************************)
(* References to labels, byte by byte: which instruction each waiter       *)
(* stands for, and what is ORed into which bytes when its label is         *)
(* defined.  From that, PendingIffWaiting and FixesAreRight, and that      *)
(* buffers, files and waiters implement Listing.                           *)
(***************************************************************************)
EXTENDS AssemblerProofs

(***************************************************************************)
(* The invariant, of one section's bytes g: W are the lists of waiters and *)
(* D the addresses labels were defined at.                                 *)
(***************************************************************************)

\* The offset of the instruction that byte i belongs to.
Start(g, i) == i - 1 - g[i].part

\* All four bytes of the instruction of byte i are there, and they agree.
WholeWord(g, i) ==
  /\ g[i].ref \in Label
  /\ Start(g, i) >= 0 /\ Start(g, i) + 4 <= Len(g)
  /\ \A p \in 0 .. 3 : g[Start(g, i) + 1 + p] =
       [kind |-> g[i].kind, ref |-> g[i].ref, part |-> p, imm |-> g[i].imm]

\* The waiter of the instruction of byte i.
WaiterOf(g, s, i) == [fix_idx |-> Start(g, i), section |-> s, assign |-> g[i].kind]

HasWaiter(g, s, W, i) == \E k \in DOMAIN W[g[i].ref] : W[g[i].ref][k] = WaiterOf(g, s, i)

HasFix(g, s, D, i) ==
  \E d \in D[g[i].ref] : g[i].imm = {FixTo(g[i].kind, d, s, Start(g, i))}

\* A byte of a reference waits, or it has its displacement; others have none.
ByteOK(g, s, W, D, i) ==
  IF g[i].kind \in AssignType
  THEN WholeWord(g, i) /\ (IF g[i].imm = {} THEN HasWaiter(g, s, W, i) ELSE HasFix(g, s, D, i))
  ELSE g[i].imm = {}

\* Every waiter stands at an instruction without displacement.
WaiterOK(g, l, w) ==
  /\ w.fix_idx < Len(g)
  /\ g[w.fix_idx + 1] = [kind |-> w.assign, ref |-> l, part |-> 0, imm |-> {}]

References(g, s, W, D) ==
  /\ \A i \in 1 .. Len(g) : ByteOK(g, s, W, D, i)
  /\ \A l \in Label : \A k \in DOMAIN W[l] : W[l][k].section = s => WaiterOK(g, l, W[l][k])

\* A label's address is one it was defined at.
AddressesDefined == \A l \in Label : val[l] >= 0 => val[l] \in defs[l]

ReferencesOK == \A s \in Section : NothingLost(s) => References(Image(s), s, waiters, defs)
------------------------------------------------------------------------------
(* One section's bytes *)

\* G begins with g.
Begins(g, G) == Len(g) <= Len(G) /\ \A i \in 1 .. Len(g) : G[i] = g[i]

\* Every waiter of W is in W2, where it was.
StillWaiting(W, W2) ==
  \A l \in Label : \A k \in DOMAIN W[l] : k \in DOMAIN W2[l] /\ W2[l][k] = W[l][k]

\* W2 has no waiter of section s that W has not.
NoNewWaiter(W, W2, s) ==
  \A l \in Label : \A k \in DOMAIN W2[l] :
    W2[l][k].section = s => k \in DOMAIN W[l] /\ W[l][k] = W2[l][k]

\* The labels have further addresses.
MoreAddresses(D, D2) == \A l \in Label : D[l] \subseteq D2[l]

\* Behind g, G has no byte of a reference.
PlainBehind(g, G) ==
  \A i \in 1 .. Len(G) : i > Len(g) => G[i].kind \notin AssignType /\ G[i].imm = {}

\* A section's bytes and all waiters, in order.
InOrder(g, s, W, D) ==
  g \in Seq(Byte) /\ W \in [Label -> Seq(Waiter)] /\ References(g, s, W, D)

\* Nothing changes.
LEMMA SelfRelated ==
  /\ \A W : StillWaiting(W, W)
  /\ \A W, s : NoNewWaiter(W, W, s)
  /\ \A D : MoreAddresses(D, D)
BY DEF StillWaiting, NoNewWaiter, MoreAddresses

\* A byte of a section has its fields.
LEMMA ByteFields ==
  ASSUME NEW g \in Seq(Byte), NEW i \in 1 .. Len(g)
  PROVE  /\ g[i] \in Byte /\ g[i].part \in 0 .. 3 /\ g[i].ref \in Label \cup {NoLabel}
         /\ g[i].imm \in SUBSET Fix
         /\ g[i] = [kind |-> g[i].kind, ref |-> g[i].ref, part |-> g[i].part, imm |-> g[i].imm]
         /\ Len(g) \in Nat /\ i \in Nat /\ Start(g, i) \in Int
<1>1. g[i] \in Byte
  OBVIOUS
<1> QED
  BY <1>1 DEF Byte, Start

\* A byte stays in order while the section grows, waiters are added and labels
\* get further addresses.
LEMMA ByteStays ==
  ASSUME NEW g \in Seq(Byte), NEW G \in Seq(Byte), Begins(g, G),
         NEW W, NEW W2, StillWaiting(W, W2),
         NEW D, NEW D2, MoreAddresses(D, D2),
         NEW s, NEW i \in 1 .. Len(g), ByteOK(g, s, W, D, i)
  PROVE  ByteOK(G, s, W2, D2, i)
<1>1. G[i] = g[i] /\ Start(G, i) = Start(g, i)
  BY DEF Begins, Start
<1>2. CASE g[i].kind \notin AssignType
  BY <1>1, <1>2 DEF ByteOK
<1>3. CASE g[i].kind \in AssignType
  <2>1. WholeWord(g, i)
    BY <1>3 DEF ByteOK
  <2> DEFINE at == Start(g, i)
  <2>2. at \in Int /\ Len(g) \in Nat /\ Len(G) \in Nat
    BY ByteFields, LenProperties, Zenon
  <2>3. g[i].ref \in Label /\ at >= 0 /\ at + 4 <= Len(g) /\ Len(g) <= Len(G)
    BY <2>1 DEF WholeWord, Begins
  <2>4. WholeWord(G, i)
    <3> HIDE DEF at
    <3>1. \A p \in 0 .. 3 : at + 1 + p \in 1 .. Len(g)
      BY <2>2, <2>3
    <3>2. \A p \in 0 .. 3 : G[at + 1 + p] = g[at + 1 + p]
      BY <3>1 DEF Begins
    <3>3. at + 4 <= Len(G)
      BY <2>2, <2>3
    <3> QED
      BY <1>1, <2>1, <2>3, <3>2, <3>3 DEF WholeWord, at
  <2>5. HasWaiter(g, s, W, i) => HasWaiter(G, s, W2, i)
    BY <1>1, <2>3 DEF HasWaiter, WaiterOf, StillWaiting
  <2>6. HasFix(g, s, D, i) => HasFix(G, s, D2, i)
    BY <1>1, <2>3 DEF HasFix, MoreAddresses
  <2> QED
    BY <1>1, <1>3, <2>4, <2>5, <2>6 DEF ByteOK
<1> QED
  BY <1>2, <1>3

\* So does a waiter.
LEMMA WaiterStays ==
  ASSUME NEW g \in Seq(Byte), NEW G \in Seq(Byte), Begins(g, G),
         NEW l, NEW w \in Waiter, WaiterOK(g, l, w)
  PROVE  WaiterOK(G, l, w)
<1>1. /\ w.fix_idx \in Nat /\ Len(g) \in Nat /\ Len(G) \in Nat
      /\ Len(g) <= Len(G) /\ w.fix_idx < Len(g)
  BY DEF Waiter, WaiterOK, Begins
<1>2. w.fix_idx + 1 \in 1 .. Len(g)
  BY <1>1
<1> QED
  BY <1>1, <1>2 DEF WaiterOK, Begins

\* Bytes that belong to no reference keep a section in order.
LEMMA PlainKeeps ==
  ASSUME NEW g, NEW s, NEW W, NEW D, InOrder(g, s, W, D),
         NEW G \in Seq(Byte), Begins(g, G), PlainBehind(g, G),
         NEW W2, StillWaiting(W, W2), NoNewWaiter(W, W2, s),
         NEW D2, MoreAddresses(D, D2)
  PROVE  References(G, s, W2, D2)
<1>0. g \in Seq(Byte) /\ W \in [Label -> Seq(Waiter)] /\ References(g, s, W, D)
  BY DEF InOrder
<1>1. ASSUME NEW i \in 1 .. Len(G)
      PROVE  ByteOK(G, s, W2, D2, i)
  <2>0. Len(g) \in Nat /\ Len(G) \in Nat
    BY <1>0, LenProperties
  <2>1. CASE i > Len(g)
    BY <2>1 DEF ByteOK, PlainBehind
  <2>2. CASE i <= Len(g)
    <3>1. i \in 1 .. Len(g)
      BY <2>0, <2>2
    <3>2. ByteOK(g, s, W, D, i)
      BY <1>0, <3>1 DEF References
    <3> QED
      BY <1>0, <3>1, <3>2, ByteStays
  <2> QED
    BY <2>0, <2>1, <2>2
<1>2. ASSUME NEW l \in Label, NEW k \in DOMAIN W2[l], W2[l][k].section = s
      PROVE  WaiterOK(G, l, W2[l][k])
  <2>1. k \in DOMAIN W[l] /\ W[l][k] = W2[l][k]
    BY <1>2 DEF NoNewWaiter
  <2>2. W[l] \in Seq(Waiter)
    BY <1>0
  <2>3. W[l][k] \in Waiter
    BY <2>1, <2>2
  <2>4. WaiterOK(g, l, W[l][k])
    BY <1>0, <1>2, <2>1 DEF References
  <2>5. WaiterOK(G, l, W[l][k])
    BY <1>0, <2>3, <2>4, WaiterStays
  <2> QED
    BY <2>1, <2>5
<1> QED
  BY <1>1, <1>2 DEF References

\* G is g and an instruction behind it.
AddsWord(g, G, a, l, fixes) ==
  /\ Begins(g, G)
  /\ Len(G) = Len(g) + 4
  /\ \A p \in 0 .. 3 :
       G[Len(g) + 1 + p] = [kind |-> a, ref |-> l, part |-> p, imm |-> fixes]

\* The bytes of a new reference are a whole word.
LEMMA NewWord ==
  ASSUME NEW g \in Seq(Byte), NEW G \in Seq(Byte), NEW a \in AssignType, NEW l \in Label,
         NEW fixes, AddsWord(g, G, a, l, fixes), NEW i \in 1 .. Len(G), i > Len(g)
  PROVE  /\ G[i].kind = a /\ G[i].ref = l /\ G[i].imm = fixes
         /\ Start(G, i) = Len(g) /\ WholeWord(G, i)
<1> DEFINE n == Len(g)
           p == i - 1 - n
<1>1. n \in Nat /\ Len(G) = n + 4 /\ i \in Nat
  BY LenProperties DEF AddsWord
<1>2. p \in 0 .. 3 /\ i = n + 1 + p /\ n >= 0
  BY <1>1
<1>3. \A q \in 0 .. 3 : G[n + 1 + q] = [kind |-> a, ref |-> l, part |-> q, imm |-> fixes]
  BY DEF AddsWord
<1>4. G[i] = [kind |-> a, ref |-> l, part |-> p, imm |-> fixes]
  BY <1>2, <1>3
<1> HIDE DEF n
<1>5. Start(G, i) = n
  BY <1>1, <1>4 DEF Start
<1>6. WholeWord(G, i)
  BY <1>1, <1>2, <1>3, <1>4, <1>5 DEF WholeWord
<1> QED
  BY <1>4, <1>5, <1>6 DEF n

\* A reference without displacement keeps a section in order if it waits.
LEMMA WaitingKeeps ==
  ASSUME NEW g, NEW s \in Section, NEW W, NEW D, InOrder(g, s, W, D),
         NEW G \in Seq(Byte), NEW a \in AssignType, NEW l \in Label,
         AddsWord(g, G, a, l, {}), NEW w \in Waiter,
         w = [fix_idx |-> Len(g), section |-> s, assign |-> a]
  PROVE  References(G, s, [W EXCEPT ![l] = Append(W[l], w)], D)
<1> DEFINE W2 == [W EXCEPT ![l] = Append(W[l], w)]
<1>0. g \in Seq(Byte) /\ W \in [Label -> Seq(Waiter)] /\ References(g, s, W, D)
  BY DEF InOrder
<1>1. W[l] \in Seq(Waiter)
  BY <1>0
<1>2. /\ Len(Append(W[l], w)) = Len(W[l]) + 1 /\ Append(W[l], w)[Len(W[l]) + 1] = w
      /\ DOMAIN Append(W[l], w) = 1 .. Len(W[l]) + 1
      /\ \A k \in DOMAIN W[l] : k \in DOMAIN Append(W[l], w) /\ Append(W[l], w)[k] = W[l][k]
      /\ \A k \in DOMAIN Append(W[l], w) :
           \/ Append(W[l], w)[k] = w
           \/ k \in DOMAIN W[l] /\ Append(W[l], w)[k] = W[l][k]
  BY <1>1
<1>3. W2[l] = Append(W[l], w) /\ \A m \in Label : m # l => W2[m] = W[m]
  BY <1>0
<1>4. StillWaiting(W, W2)
  BY <1>2, <1>3 DEF StillWaiting
<1>5. Len(W[l]) + 1 \in DOMAIN W2[l] /\ W2[l][Len(W[l]) + 1] = w
  BY <1>1, <1>2, <1>3
<1> HIDE DEF W2
<1>6. Begins(g, G) /\ Len(g) \in Nat /\ Len(G) = Len(g) + 4
  BY <1>0, LenProperties DEF AddsWord
<1>7. ASSUME NEW i \in 1 .. Len(G)
      PROVE  ByteOK(G, s, W2, D, i)
  <2>1. CASE i > Len(g)
    <3>1. /\ G[i].kind = a /\ G[i].ref = l /\ G[i].imm = {}
          /\ Start(G, i) = Len(g) /\ WholeWord(G, i)
      BY <1>0, <2>1, NewWord
    <3>2. HasWaiter(G, s, W2, i)
      BY <1>5, <3>1 DEF HasWaiter, WaiterOf
    <3> QED
      BY <3>1, <3>2 DEF ByteOK
  <2>2. CASE i <= Len(g)
    <3>1. i \in 1 .. Len(g)
      BY <1>6, <2>2
    <3>2. ByteOK(g, s, W, D, i)
      BY <1>0, <3>1 DEF References
    <3> QED
      BY <1>0, <1>4, <1>6, <3>1, <3>2, SelfRelated, ByteStays
  <2> QED
    BY <1>6, <2>1, <2>2
<1>8. ASSUME NEW m \in Label, NEW k \in DOMAIN W2[m], W2[m][k].section = s
      PROVE  WaiterOK(G, m, W2[m][k])
  <2>1. \/ m = l /\ W2[m][k] = w
        \/ k \in DOMAIN W[m] /\ W2[m][k] = W[m][k]
    BY <1>2, <1>3
  <2>2. CASE m = l /\ W2[m][k] = w
    <3>1. 0 \in 0 .. 3 /\ Len(g) + 1 + 0 = Len(g) + 1
      BY <1>6
    <3>2. G[Len(g) + 1] = [kind |-> a, ref |-> l, part |-> 0, imm |-> {}]
      BY <3>1 DEF AddsWord
    <3> QED
      BY <1>6, <2>2, <3>2 DEF WaiterOK
  <2>3. CASE k \in DOMAIN W[m] /\ W2[m][k] = W[m][k]
    <3>1. W[m] \in Seq(Waiter)
      BY <1>0
    <3>2. W[m][k] \in Waiter
      BY <2>3, <3>1
    <3>3. WaiterOK(g, m, W[m][k])
      BY <1>0, <1>8, <2>3 DEF References
    <3> QED
      BY <1>0, <1>6, <2>3, <3>2, <3>3, WaiterStays
  <2> QED
    BY <2>1, <2>2, <2>3
<1> QED
  BY <1>7, <1>8 DEF References, W2

\* A reference with the displacement to an address of its label does not wait.
LEMMA FixedKeeps ==
  ASSUME NEW g, NEW s \in Section, NEW W, NEW D, InOrder(g, s, W, D),
         NEW G \in Seq(Byte), NEW a \in AssignType, NEW l \in Label, NEW d \in D[l],
         AddsWord(g, G, a, l, {FixTo(a, d, s, Len(g))})
  PROVE  References(G, s, W, D)
<1>0. g \in Seq(Byte) /\ W \in [Label -> Seq(Waiter)] /\ References(g, s, W, D)
  BY DEF InOrder
<1>1. Begins(g, G) /\ Len(g) \in Nat /\ Len(G) = Len(g) + 4
  BY <1>0, LenProperties DEF AddsWord
<1>2. StillWaiting(W, W) /\ MoreAddresses(D, D)
  BY SelfRelated
<1>3. ASSUME NEW i \in 1 .. Len(G)
      PROVE  ByteOK(G, s, W, D, i)
  <2>1. CASE i > Len(g)
    <3>1. /\ G[i].kind = a /\ G[i].ref = l /\ G[i].imm = {FixTo(a, d, s, Len(g))}
          /\ Start(G, i) = Len(g) /\ WholeWord(G, i)
      BY <1>0, <2>1, NewWord
    <3>2. HasFix(G, s, D, i)
      BY <3>1 DEF HasFix
    <3>3. G[i].imm # {}
      BY <3>1
    <3> QED
      BY <3>1, <3>2, <3>3 DEF ByteOK
  <2>2. CASE i <= Len(g)
    <3>1. i \in 1 .. Len(g)
      BY <1>1, <2>2
    <3>2. ByteOK(g, s, W, D, i)
      BY <1>0, <3>1 DEF References
    <3> QED
      BY <1>0, <1>1, <1>2, <3>1, <3>2, ByteStays
  <2> QED
    BY <1>1, <2>1, <2>2
<1>4. ASSUME NEW m \in Label, NEW k \in DOMAIN W[m], W[m][k].section = s
      PROVE  WaiterOK(G, m, W[m][k])
  <2>1. W[m] \in Seq(Waiter)
    BY <1>0
  <2>2. W[m][k] \in Waiter
    BY <2>1
  <2>3. WaiterOK(g, m, W[m][k])
    BY <1>0, <1>4 DEF References
  <2> QED
    BY <1>0, <1>1, <2>2, <2>3, WaiterStays
<1> QED
  BY <1>3, <1>4 DEF References

\* The waiters of W for label l whose instruction covers byte i of section s.
Covering(W, l, s, i) ==
  { k \in DOMAIN W[l] : /\ W[l][k].section = s
                        /\ i \in W[l][k].fix_idx + 1 .. W[l][k].fix_idx + 4 }

\* What the waiters of l make of byte b, when l is defined at address d.
PatchedByte(b, W, l, s, i, d) ==
  [b EXCEPT !.imm = @ \cup {FixTo(W[l][k].assign, d, W[l][k].section, W[l][k].fix_idx) :
                              k \in Covering(W, l, s, i)}]

\* What the listing makes of it.
CompletedByte(b, l, s, i, d) ==
  IF b.kind \in AssignType /\ b.ref = l /\ b.imm = {}
  THEN [b EXCEPT !.imm = {FixTo(b.kind, d, s, i - 1 - b.part)}]
  ELSE b

\* G is g with the references to l completed.
Completed(g, G, l, s, d) ==
  Len(G) = Len(g) /\ \A i \in 1 .. Len(g) : G[i] = CompletedByte(g[i], l, s, i, d)

\* The bytes a waiter covers are those of one instruction that waits.
LEMMA CoveredWord ==
  ASSUME NEW g \in Seq(Byte), NEW s \in Section, NEW W \in [Label -> Seq(Waiter)], NEW D,
         References(g, s, W, D), NEW l \in Label, NEW k \in DOMAIN W[l],
         W[l][k].section = s
  PROVE  LET w == W[l][k] IN
         /\ w.fix_idx \in Nat /\ w.assign \in AssignType
         /\ w.fix_idx + 4 <= Len(g)
         /\ \A p \in 0 .. 3 : g[w.fix_idx + 1 + p] =
              [kind |-> w.assign, ref |-> l, part |-> p, imm |-> {}]
<1> DEFINE w == W[l][k]
           at == w.fix_idx
           i == at + 1
<1>1. W[l] \in Seq(Waiter)
  OBVIOUS
<1>2. w \in Waiter
  BY <1>1
<1>3. at \in Nat /\ w.assign \in AssignType /\ Len(g) \in Nat
  BY <1>2 DEF Waiter
<1>4. at < Len(g) /\ g[i] = [kind |-> w.assign, ref |-> l, part |-> 0, imm |-> {}]
  BY DEF References, WaiterOK
<1> HIDE DEF w, at
<1>5. i \in 1 .. Len(g)
  BY <1>3, <1>4
<1>6. /\ g[i].kind = w.assign /\ g[i].ref = l /\ g[i].part = 0 /\ g[i].imm = {}
      /\ Start(g, i) = at
  BY <1>3, <1>4 DEF Start
<1>7. WholeWord(g, i)
  BY <1>3, <1>5, <1>6 DEF References, ByteOK
<1>8. /\ at + 4 <= Len(g)
      /\ \A p \in 0 .. 3 : g[at + 1 + p] =
           [kind |-> w.assign, ref |-> l, part |-> p, imm |-> {}]
  BY <1>6, <1>7 DEF WholeWord
<1> QED
  BY <1>3, <1>8 DEF at, w

(***************************************************************************)
(* ORing the displacement into what the waiters of l cover completes the   *)
(* references to l that have none, and nothing else.                       *)
(***************************************************************************)
LEMMA PatchCompletes ==
  ASSUME NEW g, NEW s \in Section, NEW W, NEW D, InOrder(g, s, W, D), NEW l \in Label, NEW d
  PROVE  \A i \in 1 .. Len(g) :
           PatchedByte(g[i], W, l, s, i, d) = CompletedByte(g[i], l, s, i, d)
<1>0. g \in Seq(Byte) /\ W \in [Label -> Seq(Waiter)] /\ References(g, s, W, D)
  BY DEF InOrder
<1> TAKE i \in 1 .. Len(g)
<1> DEFINE b == g[i]
           C == Covering(W, l, s, i)
           fix == FixTo(b.kind, d, s, i - 1 - b.part)
           Of(k) == FixTo(W[l][k].assign, d, W[l][k].section, W[l][k].fix_idx)
<1>1. /\ b \in Byte /\ Len(g) \in Nat /\ i \in Nat /\ b.part \in 0 .. 3
      /\ Start(g, i) = i - 1 - b.part /\ Start(g, i) \in Int
  BY <1>0, ByteFields DEF Start
<1>2. ASSUME NEW k \in C
      PROVE  b.kind \in AssignType /\ b.ref = l /\ b.imm = {} /\ Of(k) = fix
  <2> DEFINE w == W[l][k]
             p == i - 1 - w.fix_idx
  <2>1. k \in DOMAIN W[l] /\ w.section = s /\ i \in w.fix_idx + 1 .. w.fix_idx + 4
    BY DEF Covering
  <2>2. /\ w.fix_idx \in Nat /\ w.assign \in AssignType
        /\ \A q \in 0 .. 3 : g[w.fix_idx + 1 + q] =
             [kind |-> w.assign, ref |-> l, part |-> q, imm |-> {}]
    BY <1>0, <2>1, CoveredWord
  <2>3. p \in 0 .. 3 /\ i = w.fix_idx + 1 + p
    <3> DEFINE at == w.fix_idx
    <3>1. i \in Nat /\ at \in Nat /\ i \in at + 1 .. at + 4
      BY <1>1, <2>1, <2>2
    <3> HIDE DEF at
    <3>2. i - 1 - at \in 0 .. 3 /\ i = at + 1 + (i - 1 - at)
      BY <3>1
    <3> QED
      BY <3>2 DEF at
  <2>4. b = [kind |-> w.assign, ref |-> l, part |-> p, imm |-> {}]
    BY <2>2, <2>3
  <2>5. i - 1 - b.part = w.fix_idx
    BY <1>1, <2>2, <2>4
  <2> QED
    BY <2>1, <2>2, <2>4, <2>5
<1>3. ASSUME b.kind \in AssignType, b.ref = l, b.imm = {}
      PROVE  C # {}
  <2>1. HasWaiter(g, s, W, i)
    BY <1>0, <1>3 DEF References, ByteOK
  <2>2. PICK k \in DOMAIN W[l] : W[l][k] = WaiterOf(g, s, i)
    BY <1>3, <2>1 DEF HasWaiter
  <2>3. W[l][k].section = s /\ W[l][k].fix_idx = i - 1 - b.part
    BY <1>1, <2>2 DEF WaiterOf
  <2>4. i \in (i - 1 - b.part) + 1 .. (i - 1 - b.part) + 4
    BY <1>1
  <2>5. k \in C
    BY <2>3, <2>4 DEF Covering
  <2> QED
    BY <2>5
<1>4. CASE b.kind \in AssignType /\ b.ref = l /\ b.imm = {}
  <2>1. {Of(k) : k \in C} = {fix}
    BY <1>2, <1>3, <1>4
  <2>2. b.imm \cup {Of(k) : k \in C} = {fix}
    BY <1>4, <2>1
  <2>3. PatchedByte(b, W, l, s, i, d) = [b EXCEPT !.imm = b.imm \cup {Of(k) : k \in C}]
    BY DEF PatchedByte
  <2>4. CompletedByte(b, l, s, i, d) = [b EXCEPT !.imm = {fix}]
    BY <1>4 DEF CompletedByte
  <2> QED
    BY <2>2, <2>3, <2>4
<1>5. CASE ~ (b.kind \in AssignType /\ b.ref = l /\ b.imm = {})
  <2>1. C = {}
    BY <1>2, <1>5
  <2>2. b.imm \cup {Of(k) : k \in C} = b.imm
    BY <2>1
  <2>3. PatchedByte(b, W, l, s, i, d) = [b EXCEPT !.imm = b.imm \cup {Of(k) : k \in C}]
    BY DEF PatchedByte
  <2>4. CompletedByte(b, l, s, i, d) = b
    BY <1>5 DEF CompletedByte
  <2>5. [b EXCEPT !.imm = b.imm] = b
    BY <1>1 DEF Byte
  <2> QED
    BY <2>2, <2>3, <2>4, <2>5
<1> QED
  BY <1>4, <1>5

\* Completing the references to l keeps a section in order.
LEMMA CompletedKeeps ==
  ASSUME NEW g, NEW s \in Section, NEW W, NEW D, InOrder(g, s, W, D),
         NEW G \in Seq(Byte), NEW l \in Label, NEW d, Completed(g, G, l, s, d),
         NEW D2, MoreAddresses(D, D2), d \in D2[l]
  PROVE  References(G, s, [W EXCEPT ![l] = <<>>], D2)
<1> DEFINE W2 == [W EXCEPT ![l] = <<>>]
           Open(i) == g[i].kind \in AssignType /\ g[i].ref = l /\ g[i].imm = {}
           fix(i) == FixTo(g[i].kind, d, s, Start(g, i))
<1>0. /\ g \in Seq(Byte) /\ W \in [Label -> Seq(Waiter)] /\ References(g, s, W, D)
      /\ Len(G) = Len(g)
  BY DEF InOrder, Completed
<1>1. ASSUME NEW i \in 1 .. Len(g)
      PROVE  /\ G[i].kind = g[i].kind /\ G[i].ref = g[i].ref /\ G[i].part = g[i].part
             /\ G[i].imm = (IF Open(i) THEN {fix(i)} ELSE g[i].imm)
             /\ G[i] = [kind |-> g[i].kind, ref |-> g[i].ref, part |-> g[i].part,
                        imm |-> G[i].imm]
             /\ Start(G, i) = Start(g, i)
  <2>1. G[i] = IF Open(i) THEN [g[i] EXCEPT !.imm = {fix(i)}] ELSE g[i]
    BY DEF Completed, CompletedByte, Start
  <2>2. g[i] = [kind |-> g[i].kind, ref |-> g[i].ref, part |-> g[i].part, imm |-> g[i].imm]
    BY <1>0, ByteFields
  <2> QED
    BY <2>1, <2>2 DEF Start
<1>2. W2[l] = <<>> /\ \A m \in Label : m # l => W2[m] = W[m]
  BY <1>0
<1> HIDE DEF W2
<1>3. ASSUME NEW i \in 1 .. Len(G)
      PROVE  ByteOK(G, s, W2, D2, i)
  <2>1. i \in 1 .. Len(g) /\ ByteOK(g, s, W, D, i)
    BY <1>0, <1>3 DEF References
  <2>2. CASE g[i].kind \notin AssignType
    BY <1>1, <2>1, <2>2 DEF ByteOK
  <2>3. CASE g[i].kind \in AssignType
    <3> DEFINE at == Start(g, i)
    <3>1. WholeWord(g, i)
      BY <2>1, <2>3 DEF ByteOK
    <3>2. at \in Int /\ Len(g) \in Nat
      BY <1>0, <2>1, ByteFields
    <3>3. g[i].ref \in Label /\ at >= 0 /\ at + 4 <= Len(g)
      BY <3>1 DEF WholeWord
    <3>4. ASSUME NEW p \in 0 .. 3
          PROVE  G[at + 1 + p] = [kind |-> g[i].kind, ref |-> g[i].ref, part |-> p,
                                  imm |-> G[i].imm]
      <4> DEFINE j == at + 1 + p
      <4>1. g[j] = [kind |-> g[i].kind, ref |-> g[i].ref, part |-> p, imm |-> g[i].imm]
        BY <3>1 DEF WholeWord
      <4> HIDE DEF at
      <4>2. j \in 1 .. Len(g) /\ j - 1 - p = at
        BY <3>2, <3>3
      <4>3. Start(g, j) = at /\ (Open(j) <=> Open(i))
        BY <4>1, <4>2 DEF Start
      <4>4. fix(j) = fix(i)
        BY <4>1, <4>3 DEF at
      <4> QED
        BY <1>1, <2>1, <4>1, <4>2, <4>3, <4>4
    <3>5. WholeWord(G, i)
      BY <1>0, <1>1, <2>1, <3>3, <3>4 DEF WholeWord
    <3>6. CASE Open(i)
      <4>1. G[i].imm = {FixTo(G[i].kind, d, s, Start(G, i))} /\ G[i].ref = l
        BY <1>1, <2>1, <3>6
      <4>2. HasFix(G, s, D2, i) /\ G[i].imm # {}
        BY <4>1 DEF HasFix
      <4> QED
        BY <1>1, <2>1, <2>3, <3>5, <4>2 DEF ByteOK
    <3>7. CASE ~ Open(i)
      <4>1. G[i].imm = g[i].imm
        BY <1>1, <2>1, <3>7
      <4>2. CASE g[i].imm = {}
        <5>1. g[i].ref # l
          BY <2>3, <3>7, <4>2
        <5>2. HasWaiter(g, s, W, i)
          BY <2>1, <2>3, <4>2 DEF ByteOK
        <5>3. /\ G[i].ref = g[i].ref /\ W2[g[i].ref] = W[g[i].ref]
              /\ WaiterOf(G, s, i) = WaiterOf(g, s, i)
          BY <1>1, <1>2, <2>1, <3>3, <5>1 DEF WaiterOf
        <5>4. HasWaiter(G, s, W2, i)
          BY <5>2, <5>3 DEF HasWaiter
        <5> QED
          BY <1>1, <2>1, <2>3, <3>5, <4>1, <4>2, <5>4 DEF ByteOK
      <4>3. CASE g[i].imm # {}
        <5>1. HasFix(g, s, D, i)
          BY <2>1, <2>3, <4>3 DEF ByteOK
        <5>2. HasFix(G, s, D2, i)
          BY <1>1, <2>1, <3>3, <4>1, <5>1 DEF HasFix, MoreAddresses
        <5> QED
          BY <1>1, <2>1, <2>3, <3>5, <4>1, <4>3, <5>2 DEF ByteOK
      <4> QED
        BY <4>2, <4>3
    <3> QED
      BY <3>6, <3>7
  <2> QED
    BY <2>2, <2>3
<1>4. ASSUME NEW m \in Label, NEW k \in DOMAIN W2[m], W2[m][k].section = s
      PROVE  WaiterOK(G, m, W2[m][k])
  <2>1. W2[m] # <<>>
    BY <1>4
  <2>2. m # l /\ W2[m] = W[m]
    BY <1>2, <2>1
  <2>3. W[m] \in Seq(Waiter)
    BY <1>0
  <2>4. W[m][k] \in Waiter
    BY <1>4, <2>2, <2>3
  <2>5. WaiterOK(g, m, W[m][k])
    BY <1>0, <1>4, <2>2 DEF References
  <2> DEFINE w == W[m][k]
             i == w.fix_idx + 1
  <2>6. w.fix_idx \in Nat /\ Len(g) \in Nat
    BY <1>0, <2>4 DEF Waiter
  <2>7. w.fix_idx < Len(g) /\ g[i] = [kind |-> w.assign, ref |-> m, part |-> 0, imm |-> {}]
    BY <2>5 DEF WaiterOK
  <2> HIDE DEF w
  <2>8. i \in 1 .. Len(g)
    BY <2>6, <2>7
  <2>9. ~ Open(i)
    BY <2>2, <2>7
  <2>10. G[i] = [kind |-> w.assign, ref |-> m, part |-> 0, imm |-> {}]
    BY <1>1, <2>7, <2>8, <2>9
  <2> QED
    BY <1>0, <2>2, <2>7, <2>10 DEF WaiterOK, w
<1> QED
  BY <1>3, <1>4 DEF References, W2
------------------------------------------------------------------------------
(* What the emitter's operations do to the bytes of a section *)

\* Where the bytes of two parts are.
LEMMA TwoParts ==
  ASSUME NEW f \in Seq(Byte), NEW b \in Seq(Byte)
  PROVE  /\ f \o b \in Seq(Byte) /\ Len(f \o b) = Len(f) + Len(b)
         /\ \A i \in 1 .. Len(f) + Len(b) :
              (f \o b)[i] = IF i <= Len(f) THEN f[i] ELSE b[i - Len(f)]
OBVIOUS

\* Three parts of a section may be put together in either order.
LEMMA ThreeParts ==
  ASSUME NEW f \in Seq(Byte), NEW b \in Seq(Byte), NEW d \in Seq(Byte)
  PROVE  f \o (b \o d) = (f \o b) \o d
BY ConcatAssociative

\* What grew by data begins as it was and ends with data.
LEMMA ConcatBytes ==
  ASSUME NEW g \in Seq(Byte), NEW data \in Seq(Byte)
  PROVE  /\ Begins(g, g \o data) /\ g \o data \in Seq(Byte)
         /\ Len(g \o data) = Len(g) + Len(data)
         /\ \A j \in 1 .. Len(data) : (g \o data)[Len(g) + j] = data[j]
<1>1. g \o data \in Seq(Byte) /\ Len(g \o data) = Len(g) + Len(data)
      /\ Len(g) \in Nat /\ Len(data) \in Nat
  BY ConcatLen, LenProperties
<1>2. \A i \in 1 .. Len(g) : (g \o data)[i] = g[i]
  OBVIOUS
<1>3. \A j \in 1 .. Len(data) : (g \o data)[Len(g) + j] = data[j]
  OBVIOUS
<1> QED
  BY <1>1, <1>2, <1>3 DEF Begins

\* emitter_buffer appends its data to a section that loses nothing.
LEMMA BufferStores ==
  ASSUME Inv, StoredAtMostAsked, NEW data \in Seq(Byte), emitter_buffer(data),
         Ask(Len(data)), NEW s \in Section, NothingLost(s)'
  PROVE  Image(s)' = IF s = current_section THEN Image(s) \o data ELSE Image(s)
<1> DEFINE c == current_section
<1>0. /\ SectionsOK /\ c \in Section /\ asked \in [Section -> Nat]
      /\ pos \in [Section -> Nat]
  BY InvParts DEF RestOK, SectionsOK
<1>1. CASE s # c
  <2>1. buf'[s] = buf[s] /\ swap'[s] = swap[s]
    BY <1>0, <1>1 DEF emitter_buffer, emitter_clear_buffer, SectionsOK
  <2> QED
    BY <1>1, <2>1 DEF Image
<1>2. CASE s = c /\ ~ Full(c, Len(data))
  <2>1. buf'[s] = buf[s] \o data /\ swap'[s] = swap[s]
    BY <1>0, <1>2 DEF emitter_buffer, SectionsOK
  <2> DEFINE f == swap[s]
             b == buf[s]
  <2>2. f \in Seq(Byte) /\ b \in Seq(Byte)
    BY <1>0 DEF SectionsOK
  <2> HIDE DEF f, b
  <2>3. f \o (b \o data) = (f \o b) \o data
    BY <2>2, ThreeParts
  <2> QED
    BY <1>2, <2>1, <2>3 DEF Image, f, b
<1>3. CASE s = c /\ Full(c, Len(data))
  <2> DEFINE n == Len(data)
             b == Len(buf[c])
  <2>1. pos'[c] = pos[c] + (n - (BufSize - b))
    BY <1>0, <1>3 DEF emitter_buffer, Spilled, len
  <2>2. asked'[c] = asked[c] + n
    BY <1>0 DEF Ask
  <2>3. n \in Nat /\ b \in Nat /\ BufSize \in Nat /\ b < BufSize
    BY <1>0, SectionFacts, BufSizeAssumption, LenProperties
  <2>4. pos[c] \in Nat /\ asked[c] \in Nat /\ pos[c] <= asked[c]
    BY <1>0 DEF StoredAtMostAsked
  <2>5. pos'[c] # asked'[c]
    <3> HIDE DEF n, b, c
    <3> QED
      BY <2>1, <2>2, <2>3, <2>4
  <2> QED
    BY <1>3, <2>5 DEF NothingLost
<1> QED
  BY <1>1, <1>2, <1>3

\* emitter_advance appends zeros.
LEMMA AdvanceStores ==
  ASSUME Inv, NEW n \in Nat, emitter_advance(n), NEW s \in Section
  PROVE  Image(s)' = IF s = current_section THEN Image(s) \o Zeros(n) ELSE Image(s)
<1> DEFINE c == current_section
<1>0. SectionsOK /\ c \in Section
  BY InvParts DEF RestOK
<1>1. CASE s # c
  <2>1. buf'[s] = buf[s] /\ swap'[s] = swap[s]
    BY <1>0, <1>1 DEF emitter_advance, emitter_clear_buffer, SectionsOK
  <2> QED
    BY <1>1, <2>1 DEF Image
<1>2. CASE s = c
  <2> DEFINE f == swap[s]
             b == buf[s]
             z == Zeros(n)
  <2>1. f \in Seq(Byte) /\ b \in Seq(Byte) /\ z \in Seq(Byte)
    BY <1>0, ZerosType DEF SectionsOK
  <2>2. \/ buf'[s] = b \o z /\ swap'[s] = f
        \/ buf'[s] = <<>> /\ swap'[s] = f \o b \o z
    BY <1>0, <1>2 DEF emitter_advance, emitter_clear_buffer, SectionsOK
  <2> HIDE DEF f, b, z
  <2>3. f \o (b \o z) = (f \o b) \o z
    BY <2>1, ThreeParts
  <2>4. (f \o b) \o z \in Seq(Byte)
    BY <2>1, ConcatLen, Zenon
  <2>5. ((f \o b) \o z) \o <<>> = (f \o b) \o z
    BY <2>4, ConcatEmptySeq, Zenon
  <2> QED
    BY <1>2, <2>2, <2>3, <2>5 DEF Image, f, b, z
<1> QED
  BY <1>1, <1>2

\* emitter_label_add patches the bytes its waiters cover, and no others: none
\* of them is in the file.
LEMMA LabelAddStores ==
  ASSUME Inv, NEW l \in Label, emitter_label_add(l), l \in keys, NEW s \in Section
  PROVE  /\ Len(Image(s)') = Len(Image(s))
         /\ \A i \in 1 .. Len(Image(s)) :
              Image(s)'[i] = PatchedByte(Image(s)[i], waiters, l, s, i, Here)
<1> DEFINE f == swap[s]
           b == buf[s]
           n == Len(f)
<1>0. /\ SectionsOK /\ LabelsOK /\ current_section \in Section
      /\ SectionsOK' /\ waiters[l] \in Seq(Waiter)
  BY InvParts, LabelAddKeeps DEF RestOK, LabelsOK
<1>1. /\ buf' = PatchedBuf(l) /\ pos' = pos /\ swap' = swap
      /\ \A k \in DOMAIN waiters[l] : WaiterFate(waiters[l][k]) = "patch"
  BY DEF emitter_label_add
<1>2. /\ Image(s) \in Seq(Byte) /\ Len(Image(s)) = pos[s] /\ pos[s] \in Nat
      /\ \A i \in 1 .. pos[s] : Image(s)[i] = IF i <= n THEN f[i] ELSE b[i - n]
  BY <1>0, ImageFacts
<1>3. /\ Len(Image(s)') = pos[s]
      /\ \A i \in 1 .. pos[s] :
           Image(s)'[i] = IF i <= n THEN f[i] ELSE PatchedBuf(l)[s][i - n]
  <2> DEFINE x == PatchedBuf(l)[s]
  <2>1. Image(s)' = f \o x
    BY <1>1 DEF Image
  <2>2. f \in Seq(Byte) /\ x \in Seq(Byte) /\ Len(x) = Len(b)
    BY <1>0, PatchedKeeps DEF SectionsOK
  <2>3. pos[s] = Len(f) + Len(x)
    BY <1>0, <2>2, SectionFacts
  <2> HIDE DEF f, x
  <2>4. /\ Len(f \o x) = pos[s]
        /\ \A i \in 1 .. pos[s] : (f \o x)[i] = IF i <= Len(f) THEN f[i] ELSE x[i - Len(f)]
    BY <2>2, <2>3, TwoParts
  <2> QED
    BY <2>1, <2>4, Zenon DEF x
<1>4. ASSUME NEW k \in DOMAIN waiters[l], waiters[l][k].section = s
      PROVE  /\ waiters[l][k].fix_idx \in Nat /\ n \in Nat
             /\ Target(waiters[l][k]) = waiters[l][k].fix_idx - n
             /\ n <= waiters[l][k].fix_idx
  <2> DEFINE w == waiters[l][k]
  <2>1. w \in Waiter
    BY <1>0
  <2>2. w.fix_idx \in Nat /\ n \in Nat /\ len(s) \in Nat /\ pos[s] = n + len(s)
    BY <1>0, <2>1, SectionFacts DEF Waiter
  <2>3. ~ Flushed(w)
    BY <1>1 DEF WaiterFate
  <2> HIDE DEF w, n
  <2>4. w.section = s
    BY <1>4 DEF w
  <2>5. n <= w.fix_idx /\ Target(w) = w.fix_idx - n
    BY <2>2, <2>3, <2>4 DEF Flushed, Target
  <2> QED
    BY <2>2, <2>5 DEF w
<1>5. ASSUME NEW i \in 1 .. pos[s]
      PROVE  Image(s)'[i] = PatchedByte(Image(s)[i], waiters, l, s, i, Here)
  <2>0. n \in Nat /\ i \in Nat /\ pos[s] = n + Len(b) /\ Len(b) \in Nat
    <3>1. n \in Nat /\ pos[s] = n + Len(b) /\ Len(b) \in Nat
      BY <1>0, SectionFacts
    <3> QED
      BY <3>1, <1>2
  <2>1. CASE i <= n
    <3>1. Covering(waiters, l, s, i) = {}
      <4> SUFFICES ASSUME NEW k \in DOMAIN waiters[l], waiters[l][k].section = s,
                          i \in waiters[l][k].fix_idx + 1 .. waiters[l][k].fix_idx + 4
                   PROVE  FALSE
        BY DEF Covering
      <4> HIDE DEF n
      <4> QED
        BY <1>4, <2>0, <2>1
    <3>2. Image(s)'[i] = Image(s)[i]
      BY <1>2, <1>3, <2>1
    <3>3. PatchedByte(Image(s)[i], waiters, l, s, i, Here)
            = [Image(s)[i] EXCEPT !.imm = Image(s)[i].imm \cup {}]
      BY <3>1 DEF PatchedByte
    <3>4. Image(s)[i] \in Byte
      BY <1>2
    <3> QED
      BY <3>2, <3>3, <3>4 DEF Byte
  <2>2. CASE i > n
    <3> DEFINE j == i - n
    <3>1. j \in 1 .. Len(b) /\ DOMAIN b = 1 .. Len(b)
      BY <1>0, <2>0, <2>2 DEF SectionsOK
    <3>2. Image(s)'[i] = PatchedBuf(l)[s][j] /\ Image(s)[i] = b[j]
      BY <1>2, <1>3, <2>2
    <3>3. PatchedBuf(l)[s][j] = [b[j] EXCEPT !.imm =
            @ \cup {FixOf(waiters[l][k]) : k \in Completes(l, s, j)}]
      BY <3>1 DEF PatchedBuf
    <3>4. Completes(l, s, j) = Covering(waiters, l, s, i)
      <4> SUFFICES ASSUME NEW k \in DOMAIN waiters[l], waiters[l][k].section = s
                   PROVE  j \in Target(waiters[l][k]) + 1 .. Target(waiters[l][k]) + 4
                     <=> i \in waiters[l][k].fix_idx + 1 .. waiters[l][k].fix_idx + 4
        BY DEF Completes, Covering
      <4> HIDE DEF n
      <4> QED
        BY <1>4, <2>0
    <3> QED
      BY <3>2, <3>3, <3>4 DEF PatchedByte, FixOf
  <2> QED
    BY <2>0, <2>1, <2>2
<1> QED
  BY <1>2, <1>3, <1>5
------------------------------------------------------------------------------
(* The steps, as the bytes of the sections see them *)

\* Bytes of no reference.
NoReference(data) ==
  \A j \in 1 .. Len(data) : data[j].kind \notin AssignType /\ data[j].imm = {}

\* The section that grows gets data behind its bytes, unless it loses some.
Appends(data) ==
  \A s \in Section : NothingLost(s)' =>
    Image(s)' = IF s = current_section THEN Image(s) \o data ELSE Image(s)

LEMMA PlainData ==
  /\ \A n \in Nat : NoReference(Zeros(n)) /\ NoReference(DataBytes(n))
  /\ NoReference(Word("op", NoLabel, {}))
<1>1. /\ Plain("zero").kind \notin AssignType /\ Plain("zero").imm = {}
      /\ Plain("data").kind \notin AssignType /\ Plain("data").imm = {}
  BY DEF Plain, AssignType
<1>2. ASSUME NEW n \in Nat
      PROVE  NoReference(Zeros(n)) /\ NoReference(DataBytes(n))
  <2>1. Len(Zeros(n)) = n /\ Len(DataBytes(n)) = n
    BY ZerosType, DataType
  <2>2. \A j \in 1 .. n : Zeros(n)[j] = Plain("zero") /\ DataBytes(n)[j] = Plain("data")
    BY DEF Zeros, DataBytes
  <2> QED
    BY <1>1, <2>1, <2>2 DEF NoReference
<1>3. NoReference(Word("op", NoLabel, {}))
  <2>1. Len(Word("op", NoLabel, {})) = 4
    BY WordType
  <2>2. \A j \in 1 .. 4 : /\ Word("op", NoLabel, {})[j].kind = "op"
                          /\ Word("op", NoLabel, {})[j].imm = {}
    BY DEF Word
  <2> QED
    BY <2>1, <2>2 DEF NoReference, AssignType
<1> QED
  BY <1>2, <1>3

\* Every step appends plain bytes, refers to a label, defines one, or leaves the
\* bytes and labels alone.
LEMMA StepStores ==
  ASSUME Inv, StoredAtMostAsked, [Next]_vars
  PROVE  \/ \E data \in Seq(Byte) :
              /\ NoReference(data) /\ Appends(data)
              /\ UNCHANGED <<current_section, labels, defs>>
         \/ \E l \in Label, a \in AssignType :
              JumpLine(l, a) /\ Appends(Word(a, l, ImmNow(l, a)))
         \/ \E l \in Label : LabelLine(l)
         \/ /\ UNCHANGED <<sections, labels, asked, defs>>
            /\ current_section' \in Section
<1>0. SectionsOK /\ LabelsOK /\ RestOK /\ current_section \in Section
  BY InvParts DEF RestOK
<1>a. ASSUME NEW data \in Seq(Byte), emitter_buffer(data), Ask(Len(data))
      PROVE  Appends(data)
  BY <1>a, BufferStores DEF Appends
<1>b. ASSUME NEW n \in Nat, emitter_advance(n),
             UNCHANGED <<current_section, labels, defs>>
      PROVE  \E data \in Seq(Byte) :
               /\ NoReference(data) /\ Appends(data)
               /\ UNCHANGED <<current_section, labels, defs>>
  <2>1. Appends(Zeros(n))
    BY <1>b, AdvanceStores DEF Appends
  <2>2. Zeros(n) \in Seq(Byte) /\ NoReference(Zeros(n))
    BY ZerosType, PlainData
  <2> QED
    BY <1>b, <2>1, <2>2
<1>c. ASSUME NEW n \in Nat, emitter_buffer(DataBytes(n)), Ask(n),
             UNCHANGED <<current_section, labels, defs>>
      PROVE  \E data \in Seq(Byte) :
               /\ NoReference(data) /\ Appends(data)
               /\ UNCHANGED <<current_section, labels, defs>>
  <2>1. DataBytes(n) \in Seq(Byte) /\ Len(DataBytes(n)) = n /\ NoReference(DataBytes(n))
    BY DataType, PlainData
  <2> QED
    BY <1>a, <1>c, <2>1
<1>1. CASE OpLine
  <2> DEFINE w == Word("op", NoLabel, {})
  <2>1. w \in Seq(Byte) /\ Len(w) = 4 /\ NoReference(w)
    BY WordType, PlainData
  <2>2. emitter_buffer(w) /\ Ask(4) /\ UNCHANGED <<current_section, labels, defs>>
    BY <1>1 DEF OpLine
  <2> HIDE DEF w
  <2>3. Appends(w)
    BY <1>a, <2>1, <2>2
  <2> QED
    BY <2>1, <2>2, <2>3
<1>2. ASSUME NEW l \in Label, NEW a \in AssignType, JumpLine(l, a)
      PROVE  Appends(Word(a, l, ImmNow(l, a)))
  <2> DEFINE w == Word(a, l, ImmNow(l, a))
  <2>1. w \in Seq(Byte) /\ Len(w) = 4
    BY <1>0, WordType, ImmNowType
  <2>2. emitter_buffer(w) /\ Ask(4)
    BY <1>2 DEF JumpLine
  <2> HIDE DEF w
  <2> QED
    BY <1>a, <2>1, <2>2 DEF w
<1>3. ASSUME NEW n \in Spaces, SpaceLine(n)
      PROVE  n \in Nat /\ emitter_advance(n) /\ UNCHANGED <<current_section, labels, defs>>
  BY <1>3, Operands DEF SpaceLine
<1>4. CASE EndDirective
  <2>1. Pad \in Nat
    BY <1>0 DEF Pad, RestOK
  <2> QED
    BY <1>4, <1>b, <2>1 DEF EndDirective
<1>5. ASSUME NEW n \in DataSizes, DataElement(n)
      PROVE  /\ n \in Nat /\ emitter_buffer(DataBytes(n)) /\ Ask(n)
             /\ UNCHANGED <<current_section, labels, defs>>
  BY <1>5, Operands DEF DataElement
<1>6. ASSUME NEW width \in {1, 2}, StringChar(width)
      PROVE  /\ 1 \in Nat /\ emitter_buffer(DataBytes(1)) /\ Ask(1)
             /\ UNCHANGED <<current_section, labels, defs>>
  BY <1>6 DEF StringChar
<1>7. ASSUME \/ \E s \in Section : SectionLine(s)
             \/ \E n \in Blanks : StringOpen(n)
             \/ EndOfInput \/ ParseError \/ Panic \/ Terminated \/ UNCHANGED vars
             \/ \E l \in Label : Redefinition(l)
             \/ \E l \in Label, fate \in {"panic", "assert"} : LabelStop(l, fate)
      PROVE  UNCHANGED <<sections, labels, asked, defs>> /\ current_section' \in Section
  BY <1>0, <1>7, ExitKeeps DEF SectionLine, StringOpen, EndOfInput, ParseError, Panic,
     Terminated, Redefinition, LabelStop, vars, sections, labels
<1> QED
  BY <1>b, <1>c, <1>1, <1>2, <1>3, <1>4, <1>5, <1>6, <1>7 DEF Next

\* The addresses of labels are those of definitions, whatever the step.
LEMMA AddressesStay ==
  ASSUME Inv, AddressesDefined, StoredAtMostAsked, [Next]_vars
  PROVE  AddressesDefined'
<1>0. SectionsOK /\ LabelsOK /\ RestOK /\ current_section \in Section
  BY InvParts DEF RestOK
<1>1. ASSUME UNCHANGED <<val, defs>>
      PROVE  AddressesDefined'
  BY <1>1 DEF AddressesDefined
<1>2. ASSUME NEW l \in Label, LabelLine(l)
      PROVE  AddressesDefined'
  <2>1. defs' = [defs EXCEPT ![l] = @ \cup {Here}]
    BY <1>2 DEF LabelLine
  <2>2. val' = val \/ val' = [val EXCEPT ![l] = Here]
    BY <1>2 DEF LabelLine, emitter_label_add
  <2> SUFFICES ASSUME NEW m \in Label, val'[m] >= 0
               PROVE  val'[m] \in defs'[m]
    BY DEF AddressesDefined
  <2> QED
    BY <1>0, <2>1, <2>2 DEF AddressesDefined, LabelsOK, RestOK
<1>3. ASSUME NEW l \in Label, NEW a \in AssignType, JumpLine(l, a)
      PROVE  UNCHANGED <<val, defs>>
  BY <1>3 DEF JumpLine, emitter_label_get_or_add_waiter
<1>4. UNCHANGED labels => UNCHANGED val
  BY DEF labels
<1> QED
  BY <1>1, <1>2, <1>3, <1>4, StepStores

\* What a section holds stays in order if neither its bytes nor its waiters
\* change, whatever addresses are added.
LEMMA SameKeeps ==
  ASSUME NEW g, NEW s, NEW W, NEW D, InOrder(g, s, W, D),
         NEW W2, StillWaiting(W, W2), NoNewWaiter(W, W2, s),
         NEW D2, MoreAddresses(D, D2)
  PROVE  References(g, s, W2, D2)
<1>1. g \in Seq(Byte) /\ Len(g) \in Nat
  BY LenProperties DEF InOrder
<1>2. Begins(g, g) /\ PlainBehind(g, g)
  BY <1>1 DEF Begins, PlainBehind
<1> QED
  BY <1>1, <1>2, PlainKeeps

\* What the invariant says of a section that lost no byte.
LEMMA SectionInOrder ==
  ASSUME Inv, ReferencesOK, NEW s \in Section, NothingLost(s)
  PROVE  /\ InOrder(Image(s), s, waiters, defs)
         /\ Image(s) \in Seq(Byte) /\ Len(Image(s)) = pos[s]
<1>1. SectionsOK /\ LabelsOK
  BY InvParts
<1>2. Image(s) \in Seq(Byte) /\ Len(Image(s)) = pos[s]
  BY <1>1, ImageFacts
<1>3. waiters \in [Label -> Seq(Waiter)]
  BY <1>1 DEF LabelsOK
<1> QED
  BY <1>2, <1>3 DEF InOrder, ReferencesOK

\* A reference to a label: it waits for the label, or has its displacement.
LEMMA JumpKeeps ==
  ASSUME Inv, StoredAtMostAsked, AddressesDefined, ReferencesOK,
         NEW l \in Label, NEW a \in AssignType, JumpLine(l, a),
         Appends(Word(a, l, ImmNow(l, a))), [Next]_vars
  PROVE  ReferencesOK'
<1> DEFINE c == current_section
           w == WaiterHere(a)
<1>0. /\ SectionsOK /\ LabelsOK /\ c \in Section /\ waiters \in [Label -> Seq(Waiter)]
      /\ waiters' \in [Label -> Seq(Waiter)]
  BY InvParts, NextInv DEF RestOK, LabelsOK, Inv, TypeOK
<1>1. waiters' = (IF val[l] < 0 THEN [waiters EXCEPT ![l] = Append(waiters[l], w)] ELSE waiters)
      /\ defs' = defs
  BY DEF JumpLine, emitter_label_get_or_add_waiter
<1>2. w \in Waiter /\ w = [fix_idx |-> pos[c], section |-> c, assign |-> a]
  BY <1>0 DEF WaiterHere, Waiter, SectionsOK
<1>3. ASSUME NEW s \in Section, NothingLost(s)'
      PROVE  References(Image(s)', s, waiters', defs')
  <2> DEFINE g == Image(s)
             G == Image(s)'
             word == Word(a, l, ImmNow(l, a))
  <2>1. NothingLost(s)
    BY <1>3, PosAndAsked
  <2>2. InOrder(g, s, waiters, defs) /\ g \in Seq(Byte) /\ Len(g) = pos[s]
    BY <2>1, SectionInOrder
  <2>3. CASE s # c
    <3>1. G = g
      BY <1>3, <2>3 DEF Appends
    <3>2. ASSUME NEW m \in Label
          PROVE  /\ \A k \in DOMAIN waiters[m] :
                      k \in DOMAIN waiters'[m] /\ waiters'[m][k] = waiters[m][k]
                 /\ \A k \in DOMAIN waiters'[m] : waiters'[m][k].section = s =>
                      k \in DOMAIN waiters[m] /\ waiters[m][k] = waiters'[m][k]
      <4>1. waiters[m] \in Seq(Waiter) /\ waiters[l] \in Seq(Waiter)
        BY <1>0
      <4>2. waiters'[m] = waiters[m] \/ (m = l /\ waiters'[m] = Append(waiters[m], w))
        BY <1>0, <1>1
      <4> HIDE DEF w
      <4>3. w.section # s
        BY <1>2, <2>3
      <4>4. CASE waiters'[m] = waiters[m]
        BY <4>4
      <4>5. CASE waiters'[m] = Append(waiters[m], w)
        <5> DEFINE q == waiters[m]
        <5>1. q \in Seq(Waiter) /\ w \in Waiter
          BY <1>2, <4>1
        <5> HIDE DEF q
        <5>2. \A k \in DOMAIN q : k \in DOMAIN Append(q, w) /\ Append(q, w)[k] = q[k]
          BY <5>1
        <5>3. \A k \in DOMAIN Append(q, w) : Append(q, w)[k] = w \/ k \in DOMAIN q
          BY <5>1
        <5> QED
          BY <4>3, <4>5, <5>2, <5>3 DEF q
      <4> QED
        BY <4>2, <4>4, <4>5
    <3>3. StillWaiting(waiters, waiters') /\ NoNewWaiter(waiters, waiters', s)
      BY <3>2 DEF StillWaiting, NoNewWaiter
    <3>4. MoreAddresses(defs, defs')
      BY <1>1 DEF MoreAddresses
    <3> HIDE DEF g, G
    <3>5. References(g, s, waiters', defs')
      BY <2>2, <3>3, <3>4, SameKeeps
    <3> QED
      BY <3>1, <3>5 DEF G
  <2>4. CASE s = c
    <3>1. word \in Seq(Byte) /\ Len(word) = 4
      BY <1>0, WordType, ImmNowType
    <3>2. G = g \o word
      BY <1>3, <2>4 DEF Appends
    <3>3. \A j \in 1 .. 4 : word[j] =
            [kind |-> a, ref |-> l, part |-> j - 1, imm |-> ImmNow(l, a)]
      BY DEF Word
    <3> HIDE DEF word, g, G
    <3>4. /\ Begins(g, G) /\ G \in Seq(Byte) /\ Len(G) = Len(g) + 4 /\ Len(g) \in Nat
          /\ \A j \in 1 .. 4 : G[Len(g) + j] = word[j]
      <4>1. /\ Begins(g, g \o word) /\ g \o word \in Seq(Byte)
            /\ Len(g \o word) = Len(g) + Len(word)
            /\ \A j \in 1 .. Len(word) : (g \o word)[Len(g) + j] = word[j]
        BY <2>2, <3>1, ConcatBytes, Zenon
      <4>2. Len(g) \in Nat
        BY <2>2, LenProperties
      <4> QED
        BY <3>1, <3>2, <4>1, <4>2
    <3>5. AddsWord(g, G, a, l, ImmNow(l, a))
      <4>1. ASSUME NEW p \in 0 .. 3
            PROVE  G[Len(g) + 1 + p] = [kind |-> a, ref |-> l, part |-> p, imm |-> ImmNow(l, a)]
        <5>1. p + 1 \in 1 .. 4 /\ Len(g) + 1 + p = Len(g) + (p + 1) /\ (p + 1) - 1 = p
          BY <3>4
        <5> QED
          BY <3>3, <3>4, <5>1
      <4> QED
        BY <3>4, <4>1 DEF AddsWord
    <3>6. CASE val[l] < 0
      <4>1. ImmNow(l, a) = {}
        BY <3>6 DEF ImmNow
      <4>2. w = [fix_idx |-> Len(g), section |-> s, assign |-> a]
        BY <1>2, <2>2, <2>4
      <4> HIDE DEF w
      <4>3. References(G, s, [waiters EXCEPT ![l] = Append(waiters[l], w)], defs)
        <5>1. AddsWord(g, G, a, l, {})
          BY <3>5, <4>1, Zenon
        <5> QED
          BY <1>2, <2>2, <3>4, <4>2, <5>1, WaitingKeeps
      <4> QED
        BY <1>1, <3>6, <4>3 DEF G
    <3>7. CASE ~ (val[l] < 0)
      <4>1. val[l] \in defs[l]
        BY <1>0, <3>7 DEF AddressesDefined, LabelsOK
      <4>2. ImmNow(l, a) = {FixTo(a, val[l], s, Len(g))}
        BY <2>2, <2>4, <3>7 DEF ImmNow
      <4>3. AddsWord(g, G, a, l, {FixTo(a, val[l], s, Len(g))})
        BY <3>5, <4>2, Zenon
      <4>4. References(G, s, waiters, defs)
        BY <2>2, <3>4, <4>1, <4>3, FixedKeeps
      <4> QED
        BY <1>1, <3>7, <4>4 DEF G
    <3> QED
      BY <3>6, <3>7
  <2> QED
    BY <2>3, <2>4
<1> QED
  BY <1>3 DEF ReferencesOK

\* A definition: the references that waited get the displacement to it.
LEMMA LabelKeeps ==
  ASSUME Inv, StoredAtMostAsked, ReferencesOK,
         NEW l \in Label, LabelLine(l), [Next]_vars
  PROVE  ReferencesOK'
<1>0. /\ SectionsOK /\ LabelsOK /\ SectionsOK'
      /\ waiters \in [Label -> Seq(Waiter)] /\ defs \in [Label -> SUBSET Int]
      /\ current_section \in Section
  BY InvParts, NextInv DEF RestOK, LabelsOK, Inv, TypeOK, SectionsOK, PosIsOffset, len
<1>1. emitter_label_add(l) /\ defs' = [defs EXCEPT ![l] = defs[l] \cup {Here}]
  BY DEF LabelLine
<1>2. Here \in defs'[l] /\ MoreAddresses(defs, defs')
  BY <1>0, <1>1 DEF MoreAddresses
<1>3. ASSUME NEW s \in Section, NothingLost(s)'
      PROVE  References(Image(s)', s, waiters', defs')
  <2> DEFINE g == Image(s)
             G == Image(s)'
  <2>1. NothingLost(s)
    BY <1>3, PosAndAsked
  <2>2. InOrder(g, s, waiters, defs) /\ g \in Seq(Byte)
    BY <2>1, SectionInOrder
  <2>3. CASE l \notin keys
    <3>1. G = g /\ waiters' = waiters
      BY <1>1, <2>3 DEF emitter_label_add, sections, Image
    <3> HIDE DEF g, G
    <3>2. References(g, s, waiters, defs')
      BY <1>2, <2>2, SelfRelated, SameKeeps
    <3> QED
      BY <3>1, <3>2 DEF G
  <2>4. CASE l \in keys
    <3>1. waiters' = [waiters EXCEPT ![l] = <<>>]
      BY <1>1, <2>4 DEF emitter_label_add
    <3>2. /\ Len(G) = Len(g)
          /\ \A i \in 1 .. Len(g) : G[i] = PatchedByte(g[i], waiters, l, s, i, Here)
      BY <1>1, <2>4, LabelAddStores
    <3>3. G \in Seq(Byte)
      BY <1>0, ConcatLen DEF Image, SectionsOK
    <3> HIDE DEF g, G
    <3>4. Completed(g, G, l, s, Here)
      <4>1. \A i \in 1 .. Len(g) :
              PatchedByte(g[i], waiters, l, s, i, Here) = CompletedByte(g[i], l, s, i, Here)
        BY <2>2, PatchCompletes
      <4> QED
        BY <3>2, <4>1 DEF Completed
    <3>5. References(G, s, [waiters EXCEPT ![l] = <<>>], defs')
      BY <1>2, <2>2, <3>3, <3>4, CompletedKeeps
    <3> QED
      BY <3>1, <3>5 DEF G
  <2> QED
    BY <2>3, <2>4
<1> QED
  BY <1>3 DEF ReferencesOK

\* Bytes of no reference: the others stay in order.
LEMMA AppendKeeps ==
  ASSUME Inv, StoredAtMostAsked, ReferencesOK, [Next]_vars,
         NEW data \in Seq(Byte), NoReference(data), Appends(data),
         UNCHANGED <<labels, defs>>
  PROVE  ReferencesOK'
<1>0. SectionsOK /\ waiters \in [Label -> Seq(Waiter)] /\ waiters' = waiters /\ defs' = defs
  BY InvParts DEF LabelsOK, labels
<1>1. ASSUME NEW s \in Section, NothingLost(s)'
      PROVE  References(Image(s)', s, waiters', defs')
  <2> DEFINE g == Image(s)
             G == g \o data
  <2>1. NothingLost(s)
    BY <1>1, PosAndAsked
  <2>2. InOrder(g, s, waiters, defs) /\ g \in Seq(Byte)
    BY <2>1, SectionInOrder
  <2>3. Image(s)' = g \/ Image(s)' = G
    BY <1>1 DEF Appends
  <2> HIDE DEF g
  <2>4. /\ Begins(g, G) /\ G \in Seq(Byte) /\ Len(G) = Len(g) + Len(data)
        /\ \A j \in 1 .. Len(data) : G[Len(g) + j] = data[j]
        /\ Len(g) \in Nat /\ Len(data) \in Nat
    BY <2>2, ConcatBytes, LenProperties
  <2> HIDE DEF G
  <2>5. ASSUME NEW i \in 1 .. Len(G), i > Len(g)
        PROVE  G[i].kind \notin AssignType /\ G[i].imm = {}
    <3>1. i - Len(g) \in 1 .. Len(data) /\ i = Len(g) + (i - Len(g))
      BY <2>4, <2>5
    <3> QED
      BY <2>4, <3>1 DEF NoReference
  <2>6. PlainBehind(g, G)
    BY <2>5 DEF PlainBehind
  <2>7. References(G, s, waiters, defs)
    BY <2>2, <2>4, <2>6, SelfRelated, PlainKeeps
  <2> QED
    BY <1>0, <2>2, <2>3, <2>7 DEF InOrder
<1> QED
  BY <1>1 DEF ReferencesOK

\* Every step keeps the references in order.
LEMMA ReferencesKept ==
  ASSUME Inv, StoredAtMostAsked, AddressesDefined, ReferencesOK, [Next]_vars
  PROVE  ReferencesOK'
<1>1. ASSUME UNCHANGED <<sections, labels, asked, defs>>
      PROVE  ReferencesOK'
  BY <1>1 DEF ReferencesOK, NothingLost, sections, labels, Image
<1> QED
  BY <1>1, AppendKeeps, JumpKeeps, LabelKeeps, StepStores

\* The invariant that says where every reference stands.
RefInv == Inv /\ StoredAtMostAsked /\ AddressesDefined /\ ReferencesOK

LEMMA InitReferences == Init => RefInv
<1> SUFFICES ASSUME Init PROVE RefInv
  OBVIOUS
<1>1. Inv /\ StoredAtMostAsked /\ AddressesDefined
  BY InitInv DEF Init, EmitterInit, StoredAtMostAsked, AddressesDefined
<1>2. \A s \in Section : pos[s] = 0
  BY DEF Init, EmitterInit
<1>3. \A s \in Section : Len(Image(s)) = 0
  BY <1>1, <1>2, InvParts, ImageFacts
<1>4. waiters = [l \in Label |-> <<>>]
  BY DEF Init, EmitterInit
<1>5. ReferencesOK
  BY <1>3, <1>4 DEF ReferencesOK, References
<1> QED
  BY <1>1, <1>5 DEF RefInv

THEOREM ReferencesStand == Spec => []RefInv
<1>1. RefInv /\ [Next]_vars => RefInv'
  BY NextInv, PosAndAsked, AddressesStay, ReferencesKept DEF RefInv
<1> QED
  BY <1>1, InitReferences, PTL DEF Spec

------------------------------------------------------------------------------
(* What follows for the runs' invariants *)

(***************************************************************************)
(* For every program, label set, buffer size and pair of base addresses:   *)
(* in a section that lost no byte an instruction waits in the list of the  *)
(* label it names if and only if no displacement was ORed into it, with    *)
(* its own offset, section and encoder.                                    *)
(***************************************************************************)
THEOREM WaitersAreTheOpenReferences == Spec => []PendingIffWaiting
<1>1. RefInv => PendingIffWaiting
  <2> SUFFICES ASSUME RefInv, NEW s \in Section, NothingLost(s)
               PROVE  /\ \A l \in Label, a \in AssignType, i \in 1 .. pos[s] :
                           LET b == Image(s)[i]
                               w == [fix_idx |-> i - 1, section |-> s, assign |-> a]
                           IN (b.kind = a /\ b.ref = l /\ b.part = 0 /\ b.imm = {})
                                <=> (\E k \in DOMAIN waiters[l] : waiters[l][k] = w)
                      /\ \A l \in Label : \A k \in DOMAIN waiters[l] :
                           waiters[l][k].section = s => waiters[l][k].fix_idx < pos[s]
    BY DEF PendingIffWaiting
  <2> DEFINE g == Image(s)
  <2>1. g \in Seq(Byte) /\ Len(g) = pos[s] /\ pos[s] \in Nat
    BY InvParts, ImageFacts DEF RefInv
  <2>2. References(g, s, waiters, defs)
    BY DEF RefInv, ReferencesOK
  <2> HIDE DEF g
  <2>3. ASSUME NEW l \in Label, NEW a \in AssignType, NEW i \in 1 .. pos[s]
        PROVE  (g[i].kind = a /\ g[i].ref = l /\ g[i].part = 0 /\ g[i].imm = {})
                 <=> (\E k \in DOMAIN waiters[l] :
                        waiters[l][k] = [fix_idx |-> i - 1, section |-> s, assign |-> a])
    <3>1. ASSUME g[i].kind = a, g[i].ref = l, g[i].part = 0, g[i].imm = {}
          PROVE  \E k \in DOMAIN waiters[l] :
                   waiters[l][k] = [fix_idx |-> i - 1, section |-> s, assign |-> a]
      <4>1. HasWaiter(g, s, waiters, i)
        BY <2>1, <2>2, <3>1 DEF References, ByteOK
      <4>2. Start(g, i) = i - 1
        BY <3>1 DEF Start
      <4> QED
        BY <3>1, <4>1, <4>2 DEF HasWaiter, WaiterOf
    <3>2. ASSUME NEW k \in DOMAIN waiters[l],
                 waiters[l][k] = [fix_idx |-> i - 1, section |-> s, assign |-> a]
          PROVE  g[i].kind = a /\ g[i].ref = l /\ g[i].part = 0 /\ g[i].imm = {}
      <4>1. WaiterOK(g, l, waiters[l][k])
        BY <2>2, <3>2 DEF References
      <4>2. g[(i - 1) + 1] = [kind |-> a, ref |-> l, part |-> 0, imm |-> {}]
        BY <3>2, <4>1 DEF WaiterOK
      <4>3. (i - 1) + 1 = i
        BY <2>1
      <4> QED
        BY <4>2, <4>3
    <3> QED
      BY <3>1, <3>2
  <2>4. ASSUME NEW l \in Label, NEW k \in DOMAIN waiters[l], waiters[l][k].section = s
        PROVE  waiters[l][k].fix_idx < pos[s]
    BY <2>1, <2>2, <2>4 DEF References, WaiterOK
  <2> QED
    BY <2>3, <2>4 DEF g
<1> QED
  BY <1>1, ReferencesStand, PTL

(***************************************************************************)
(* For every program: in a section that lost no byte nothing is ever ORed  *)
(* into data or into an instruction that names no label, and what is ORed  *)
(* into a reference, into all four of its bytes, is one displacement, in   *)
(* its own encoding, from itself to an address of its own label.           *)
(***************************************************************************)
THEOREM FixesAreAlwaysRight == Spec => []FixesAreRight
<1>1. RefInv => FixesAreRight
  <2> SUFFICES ASSUME RefInv, NEW s \in Section, NothingLost(s), NEW i \in 1 .. pos[s]
               PROVE  LET b == Image(s)[i] IN
                      IF b.kind \notin AssignType THEN b.imm = {}
                      ELSE /\ \/ b.imm = {}
                              \/ \E d \in defs[b.ref] :
                                   b.imm = {FixTo(b.kind, d, s, i - 1 - b.part)}
                           /\ b.part > 0 => Image(s)[i - 1].imm = b.imm
    BY DEF FixesAreRight
  <2> DEFINE g == Image(s)
             b == g[i]
  <2>1. g \in Seq(Byte) /\ Len(g) = pos[s] /\ pos[s] \in Nat
    BY InvParts, ImageFacts DEF RefInv
  <2>2. ByteOK(g, s, waiters, defs, i)
    BY <2>1 DEF RefInv, ReferencesOK, References
  <2> HIDE DEF g
  <2>3. CASE b.kind \notin AssignType
    BY <2>2, <2>3 DEF ByteOK, g
  <2>4. CASE b.kind \in AssignType
    <3>1. WholeWord(g, i)
      BY <2>2, <2>4 DEF ByteOK
    <3>2. b.imm = {} \/ HasFix(g, s, defs, i)
      BY <2>2, <2>4 DEF ByteOK
    <3>3. b.imm = {} \/ \E d \in defs[b.ref] : b.imm = {FixTo(b.kind, d, s, i - 1 - b.part)}
      BY <3>2 DEF HasFix, Start
    <3>4. ASSUME b.part > 0
          PROVE  g[i - 1].imm = b.imm
      <4>1. b.part \in 0 .. 3 /\ i \in Nat /\ Start(g, i) = i - 1 - b.part
        BY <2>1, ByteFields DEF Start
      <4> DEFINE p == b.part - 1
      <4>2. p \in 0 .. 3 /\ Start(g, i) + 1 + p = i - 1
        BY <3>4, <4>1
      <4>3. g[i - 1] = [kind |-> b.kind, ref |-> b.ref, part |-> p, imm |-> b.imm]
        BY <3>1, <4>2 DEF WholeWord
      <4> QED
        BY <4>3
    <3> QED
      BY <2>4, <3>3, <3>4 DEF g
  <2> QED
    BY <2>3, <2>4
<1> QED
  BY <1>1, ReferencesStand, PTL

------------------------------------------------------------------------------
(* The refinement *)

\* The listing's bytes.
Bar == [s \in Section |-> Image(s)]

\* The instance has the definitions of Bytes of its own.
LEMMA SameBytes ==
  /\ L!Section = Section /\ L!AssignType = AssignType
  /\ \A a, l, f : L!Word(a, l, f) = Word(a, l, f)
  /\ \A a, d, s, at : L!FixTo(a, d, s, at) = FixTo(a, d, s, at)
BY DEF L!Section, Section, L!AssignType, AssignType, L!Word, Word, L!FixTo, FixTo

\* While no byte is lost, the refinement maps Here to the listing's address.
LEMMA BarFacts ==
  ASSUME Inv
  PROVE  /\ current_section \in Section
         /\ \A s \in Section : /\ Bar[s] = Image(s) /\ Image(s) \in Seq(Byte)
                               /\ Len(Image(s)) = pos[s]
         /\ vaddr[current_section] + Len(Bar[current_section]) = Here
<1>1. SectionsOK /\ current_section \in Section
  BY InvParts DEF RestOK
<1>2. \A s \in Section : /\ Bar[s] = Image(s) /\ Image(s) \in Seq(Byte)
                         /\ Len(Image(s)) = pos[s]
  BY <1>1, ImageFacts DEF Bar
<1>3. vaddr[current_section] \in Nat /\ pos[current_section] \in Nat
  BY <1>1, VaddrAssumption DEF SectionsOK
<1> QED
  BY <1>1, <1>2, <1>3 DEF Here

LEMMA BarNext ==
  ASSUME NEW s \in Section
  PROVE  Bar'[s] = Image(s)'
BY DEF Bar

\* Plain bytes.
LEMMA PlainRefines ==
  ASSUME Inv, NoByteLost, NoByteLost', NEW data \in Seq(Byte), NoReference(data),
         Appends(data), UNCHANGED <<current_section, labels>>
  PROVE  L!PlainBytes
<1> DEFINE c == current_section
           g == Image(c)
           G == g \o data
<1>1. /\ c \in Section /\ g \in Seq(Byte)
      /\ \A s \in Section : Bar[s] = Image(s)
  BY BarFacts
<1>2. \A s \in Section : Bar'[s] = IF s = c THEN G ELSE Image(s)
  BY BarNext DEF Appends, NoByteLost
<1>3. Bar[c] = g /\ Bar'[c] = G
  BY <1>1, <1>2
<1> HIDE DEF g
<1>4. /\ Begins(g, G) /\ G \in Seq(Byte) /\ Len(G) = Len(g) + Len(data)
      /\ \A j \in 1 .. Len(data) : G[Len(g) + j] = data[j]
      /\ Len(g) \in Nat /\ Len(data) \in Nat
  BY <1>1, ConcatBytes, LenProperties
<1> HIDE DEF G
<1>5. Len(G) >= Len(g) /\ DOMAIN G = 1 .. Len(G)
  BY <1>4
<1>6. ASSUME NEW i \in 1 .. Len(G)
      PROVE  IF i <= Len(g) THEN G[i] = g[i]
             ELSE G[i].kind \notin AssignType /\ G[i].imm = {}
  <2>1. CASE i <= Len(g)
    BY <1>4, <2>1 DEF Begins
  <2>2. CASE ~ (i <= Len(g))
    <3>1. i - Len(g) \in 1 .. Len(data) /\ i = Len(g) + (i - Len(g))
      BY <1>4, <2>2
    <3> QED
      BY <1>4, <2>2, <3>1 DEF NoReference
  <2> QED
    BY <2>1, <2>2
<1>7. \A s \in Section : s # c => Bar'[s] = Bar[s]
  BY <1>1, <1>2
<1>8. UNCHANGED <<current_section, val, keys>>
  BY DEF labels
<1> HIDE DEF c
<1> QED
  BY <1>3, <1>5, <1>6, <1>7, <1>8, SameBytes DEF L!PlainBytes, Bar, c

\* A reference.
LEMMA JumpRefines ==
  ASSUME Inv, NoByteLost, NoByteLost', NEW l \in Label, NEW a \in AssignType,
         JumpLine(l, a), Appends(Word(a, l, ImmNow(l, a)))
  PROVE  L!Refer(l, a)
<1> DEFINE c == current_section
           word == Word(a, l, ImmNow(l, a))
<1>1. c \in Section /\ \A s \in Section : Bar[s] = Image(s) /\ Len(Image(s)) = pos[s]
  BY BarFacts
<1>2. \A s \in Section : Bar'[s] = IF s = c THEN Image(s) \o word ELSE Image(s)
  BY BarNext DEF Appends, NoByteLost
<1>3. keys' = keys \cup {l} /\ UNCHANGED <<current_section, val>>
  BY DEF JumpLine, emitter_label_get_or_add_waiter
<1>4. word = Word(a, l, IF val[l] < 0 THEN {}
                        ELSE {FixTo(a, val[l], c, Len(Bar[c]))})
  BY <1>1, Zenon DEF ImmNow
<1> HIDE DEF word
<1>5. Bar' = [Bar EXCEPT ![c] = Bar[c] \o word]
  BY <1>1, <1>2 DEF Bar
<1>6. Bar' = [Bar EXCEPT ![c] = Bar[c] \o
               Word(a, l, IF val[l] < 0 THEN {}
                          ELSE {FixTo(a, val[l], c, Len(Bar[c]))})]
  BY <1>4, <1>5, Zenon
<1> QED
  BY <1>3, <1>6, SameBytes, Zenon DEF L!Refer, Bar

\* A definition, before or after references.
LEMMA LabelRefines ==
  ASSUME RefInv, NoByteLost, NoByteLost', NEW l \in Label, LabelLine(l), Inv'
  PROVE  L!Define(l) \/ L!Complete(l)
<1>0. /\ Inv /\ SectionsOK /\ LabelsOK /\ waiters \in [Label -> Seq(Waiter)]
      /\ emitter_label_add(l) /\ current_section' = current_section
      /\ \A s \in Section : InOrder(Image(s), s, waiters, defs)
  BY InvParts, SectionInOrder DEF RefInv, LabelsOK, LabelLine, NoByteLost
<1>1. \A s \in Section : Bar[s] = Image(s) /\ Image(s) \in Seq(Byte)
  BY <1>0, BarFacts
<1>2. Here = L!Address
  BY <1>0, BarFacts DEF L!Address, Bar
<1>3. CASE l \notin keys
  <2>1. /\ keys' = keys \cup {l} /\ val' = [val EXCEPT ![l] = Here]
        /\ UNCHANGED sections
    BY <1>0, <1>3 DEF emitter_label_add
  <2>2. Bar' = Bar
    BY <2>1 DEF Bar, Image, sections
  <2> QED
    BY <1>0, <1>2, <1>3, <2>1, <2>2 DEF L!Define, Bar
<1>4. CASE l \in keys
  <2>1. val[l] < 0 /\ UNCHANGED <<keys, val>>
    BY <1>0, <1>4 DEF emitter_label_add
  <2>2. ASSUME NEW s \in Section
        PROVE  Bar'[s] = [i \in DOMAIN Bar[s] |->
                            CompletedByte(Bar[s][i], l, s, i, Here)]
    <3> DEFINE g == Image(s)
               G == Image(s)'
    <3>1. /\ Len(G) = Len(g)
          /\ \A i \in 1 .. Len(g) : G[i] = PatchedByte(g[i], waiters, l, s, i, Here)
      BY <1>0, <1>4, LabelAddStores
    <3>2. g \in Seq(Byte) /\ G \in Seq(Byte)
      <4>1. buf'[s] \in Seq(Byte) /\ swap'[s] \in Seq(Byte)
        BY DEF Inv, TypeOK
      <4> QED
        BY <1>1, <4>1, ConcatLen DEF Image
    <3>3. Bar'[s] = G /\ Bar[s] = g
      BY <1>1, BarNext
    <3>4. InOrder(g, s, waiters, defs)
      BY <1>0
    <3> HIDE DEF g, G
    <3>5. ASSUME NEW i \in 1 .. Len(g)
          PROVE  G[i] = CompletedByte(g[i], l, s, i, Here)
      <4>1. \A j \in 1 .. Len(g) :
              PatchedByte(g[j], waiters, l, s, j, Here) = CompletedByte(g[j], l, s, j, Here)
        BY <3>4, PatchCompletes
      <4> QED
        BY <3>1, <4>1
    <3>6. DOMAIN g = 1 .. Len(g) /\ DOMAIN G = 1 .. Len(g) /\ G = [i \in DOMAIN G |-> G[i]]
      BY <3>1, <3>2
    <3>7. G = [i \in DOMAIN g |-> CompletedByte(g[i], l, s, i, Here)]
      BY <3>5, <3>6, Zenon
    <3> QED
      BY <3>3, <3>7, Zenon
  <2>3. Bar' = [s \in Section |-> Bar'[s]]
    BY DEF Bar
  <2>4. Bar' = [s \in Section |-> [i \in DOMAIN Bar[s] |->
                  CompletedByte(Bar[s][i], l, s, i, Here)]]
    BY <2>2, <2>3, Zenon
  <2>5. Bar' = [s \in Section |-> [i \in DOMAIN Bar[s] |->
                  LET b == Bar[s][i] IN
                  IF L!Incomplete(b, l)
                  THEN [b EXCEPT !.imm = {L!FixTo(b.kind, L!Address, s, i - 1 - b.part)}]
                  ELSE b]]
    <3>1. \A b, s, i : CompletedByte(b, l, s, i, Here) =
            IF L!Incomplete(b, l)
            THEN [b EXCEPT !.imm = {L!FixTo(b.kind, L!Address, s, i - 1 - b.part)}]
            ELSE b
      BY <1>2, SameBytes, Zenon DEF CompletedByte, L!Incomplete
    <3> QED
      BY <2>4, <3>1, Zenon
  <2> QED
    BY <1>0, <1>4, <2>1, <2>5, SameBytes, Zenon DEF L!Complete, Bar
<1> QED
  BY <1>3, <1>4

\* A step that loses no byte is a step of the listing.
LEMMA StepRefines ==
  ASSUME RefInv, NoByteLost, NoByteLost', [Next]_vars
  PROVE  L!PlainBytes \/ (\E l \in Label, a \in AssignType : L!Refer(l, a))
           \/ (\E l \in Label : L!Define(l) \/ L!Complete(l)) \/ L!Switch
<1>1. Inv /\ StoredAtMostAsked /\ Inv'
  BY NextInv DEF RefInv
<1>2. ASSUME UNCHANGED <<sections, labels, asked, defs>>, current_section' \in Section
      PROVE  L!Switch
  <2>1. Bar' = Bar /\ UNCHANGED <<val, keys>>
    BY <1>2 DEF Bar, Image, sections, labels
  <2> QED
    BY <1>2, <2>1, SameBytes DEF L!Switch, Bar
<1> QED
  BY <1>1, <1>2, StepStores, PlainRefines, JumpRefines, LabelRefines

(***************************************************************************)
(* Buffers, files, offsets and lists of waiters implement the listing, for *)
(* every buffer size: until a byte is lost, a definition completes every   *)
(* reference to its label in both sections and changes nothing else.       *)
(***************************************************************************)
THEOREM AssemblerImplementsListing == Spec => ImplementsListing
<1>1. Init => L!Init
  <2> SUFFICES ASSUME Init PROVE L!Init
    OBVIOUS
  <2>1. /\ current_section = "SECT_TEXT" /\ val = [l \in Label |-> -1] /\ keys = {}
        /\ \A s \in Section : buf[s] = <<>> /\ swap[s] = <<>> /\ pos[s] = asked[s]
    BY DEF Init, EmitterInit
  <2>2. \A s \in Section : Image(s) = <<>>
    BY <2>1 DEF Image
  <2>3. [s \in Section |-> Image(s)] = [s \in L!Section |-> <<>>]
    BY <2>2, SameBytes
  <2>4. NoByteLost = TRUE
    BY <2>1 DEF NoByteLost, NothingLost
  <2> QED
    BY <2>1, <2>3, <2>4 DEF L!Init
<1>2. RefInv /\ [Next]_vars => [L!Next]_(L!listing)
  <2> SUFFICES ASSUME RefInv, [Next]_vars PROVE L!Next
    OBVIOUS
  <2>1. CASE ~ NoByteLost'
    BY <2>1 DEF L!Next
  <2>2. CASE NoByteLost'
    <3>1. NoByteLost
      BY <2>2, PosAndAsked DEF RefInv, NoByteLost
    <3> QED
      BY <2>2, <3>1, StepRefines, SameBytes DEF L!Next
  <2> QED
    BY <2>1, <2>2
<1> QED
  BY <1>1, <1>2, ReferencesStand, PTL DEF Spec, ImplementsListing, L!Spec
==============================================================================
