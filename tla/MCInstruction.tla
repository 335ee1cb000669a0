---------------------------- MODULE MCInstruction ----------------------------
(***************************************************************************)
(* One line, from its word on, or one register, from its text on.          *)
(* Registers that set no, one, alternating and all bits of a field;        *)
(* immediates on both sides of every limit and every single bit of a       *)
(* displacement, with its neighbours and its negative.  Texts of three     *)
(* characters, and every register's name with up to two characters behind  *)
(* it or blanks in front of it.                                            *)
(***************************************************************************)
EXTENDS Instruction, Register

MCRegs == {0, 1, 21, 31}

MCImms == {-2049, -2048, -2047, -1366, -33, -32, -1, 0, 1, 5, 16, 31, 32, 33, 64, 1365,
           1024, 2046, 2047, 2048, 4096, 699050, 524288, 1048575, 1048576}

MCOffsets ==
  LET powers == {2^k : k \in 1 .. 22} IN
  {0, 1} \cup powers \cup {-p : p \in powers} \cup {p - 2 : p \in powers} \cup {2 - p : p \in powers}

Characters == {"x", "z", "e", "r", "o", "a", "s", "p", "g", "t", "f", "A", "_", ",", " "} \cup Digits

MCTexts ==
  [1 .. 3 -> Characters]
    \cup {name \o end : name \in UNION {Spellings[n] : n \in 0 .. 31},
                       end \in UNION {[1 .. n -> Characters] : n \in 0 .. 2}}
    \cup {<<" ", "tab">> \o name : name \in UNION {Spellings[n] : n \in 0 .. 31}}

NoLine == [op |-> CHOOSE op \in Op : TRUE, r0 |-> 0, r1 |-> 0, r2 |-> 0]

MCInit == \/ Init /\ text = <<>> /\ reading = Unread
          \/ RegisterInit /\ status = "none" /\ line = NoLine /\ imm = 0 /\ word = {}

MCNext == \/ text = <<>> /\ Next /\ UNCHANGED registerVars
          \/ text # <<>> /\ ReadRegister /\ UNCHANGED vars
          \/ reading # Unread /\ UNCHANGED <<vars, registerVars>>

MCSpec == MCInit /\ [][MCNext]_<<vars, registerVars>>
==============================================================================
