----------------------------- MODULE MCOpening -----------------------------
(***************************************************************************)
(* Instances of Opening for TLC: one directory and two loose files of the  *)
(* same name, which may be exchanged like the sessions.                    *)
(***************************************************************************)
EXTENDS Opening, TLC

CONSTANTS s1, s2, p1, p2, tree, old, new

TwoSessions == {s1, s2}
TwoPasswords == {p1, p2}
Plaintext == {tree, old, new}
NoFiles == {}
Places3 == [a \in Artifacts |-> IF a = tree THEN "Notes" ELSE LoosePlace]
Names3 == [a \in Artifacts |-> IF a = tree THEN "note.md" ELSE "todo.md"]
Alike == Permutations(Sessions) \cup Permutations({old, new})
=============================================================================
