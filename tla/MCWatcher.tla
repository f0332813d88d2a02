----------------------------- MODULE MCWatcher -----------------------------
(* Two notes: one to be open, one to be changed behind its back. *)
EXTENDS Watcher, TLC

CONSTANTS a, b

BothNotes == {a, b}
=============================================================================
