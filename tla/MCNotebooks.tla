---------------------------- MODULE MCNotebooks ----------------------------
(***************************************************************************)
(* Instances of Notebooks for TLC: a note without and one with a password  *)
(* of its own, a file of another program, two names beside Inbox.          *)
(***************************************************************************)
EXTENDS Notebooks, TLC

CONSTANTS plain, secret, plan, inbox, work, play

BothNotes == {plain, secret}
OneSecret == {secret}
OneFile == {plan}
ThreeNames == {inbox, work, play}
OtherNames == {work, play}
AnyName == Permutations(OtherNames)
=============================================================================
