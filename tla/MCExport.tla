------------------------------ MODULE MCExport ------------------------------
(***************************************************************************)
(* Instances of Export for TLC: two notes, each of which may be saved once *)
(* or be in the trash.                                                     *)
(***************************************************************************)
EXTENDS Export, TLC

CONSTANTS n1, n2

TwoNotes == {n1, n2}
AnyNote  == Permutations(Notes)
=============================================================================
