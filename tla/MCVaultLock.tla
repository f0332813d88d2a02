---------------------------- MODULE MCVaultLock ----------------------------
(***************************************************************************)
(* Instances of VaultLock for TLC: sessions a and b share one machine, c   *)
(* reaches the vault from another one.                                     *)
(***************************************************************************)
EXTENDS VaultLock, TLC

CONSTANTS a, b, c, here, there

ThreeSessions == {a, b, c}
TwoHosts      == {here, there}
HomeOf        == (a :> here) @@ (b :> here) @@ (c :> there)
HomeSame      == (a :> here) @@ (b :> here) @@ (c :> here)
NoHosts       == {}
TwoPids       == {1, 2}
ThreePids     == {1, 2, 3}
SameMachine   == Permutations({a, b})
AllAlike      == Permutations({a, b, c})
=============================================================================
