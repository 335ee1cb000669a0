---------------------------- MODULE MCAssembler ----------------------------
(***************************************************************************)
(* Small instances of Assembler: base addresses that differ, so that a     *)
(* displacement taken in the wrong section shows, and fewer bytes of data  *)
(* than of text, so that TLC can exhaust the programs.                     *)
(***************************************************************************)
EXTENDS Assembler, TLC

CONSTANTS MaxText, MaxData

MCvaddr == [s \in Section |-> IF s = "SECT_TEXT" THEN 100 ELSE 200]

MCMaxBytes == [s \in Section |-> IF s = "SECT_TEXT" THEN MaxText ELSE MaxData]

Symmetry == Permutations(Label)
=============================================================================
