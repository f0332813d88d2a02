--------------------------- MODULE MCStandardVault ---------------------------
(* Two notes of a Standard Vault; the bounds are in the cfg files. *)
EXTENDS StandardVault, TLC

CONSTANTS n1, n2

TwoNotes == {n1, n2}
OneNote  == {n1}

Interchangeable == Permutations({n1, n2})
=============================================================================
