--------------------------- MODULE MCSecureStore ---------------------------
(***************************************************************************)
(* Instances of SecureStore for TLC: a few blobs, the owner of the vault   *)
(* and at most one session opened read-only beside it.                     *)
(***************************************************************************)
EXTENDS SecureStore, TLC

CONSTANTS o1, o2, o3, w, r

TwoObjects   == {o1, o2}
ThreeObjects == {o1, o2, o3}
Nobody       == {}
OneReader    == {r}
AnyObject    == Permutations(Objects)
=============================================================================
