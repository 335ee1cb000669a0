------------------------------ MODULE MCOutput ------------------------------
(***************************************************************************)
(* Small instances of Output: headers of 2 and 1 bytes and pages of 8, so  *)
(* that some programs fit behind the headers and some do not; the output   *)
(* file is new, or shorter or longer than the executable.                  *)
(***************************************************************************)
EXTENDS Output

CONSTANTS MaxText, MaxData

MCvaddr == [s \in Section |-> IF s = "SECT_TEXT" THEN 96 ELSE 200]

MCMaxBytes == [s \in Section |-> IF s = "SECT_TEXT" THEN MaxText ELSE MaxData]
=============================================================================
