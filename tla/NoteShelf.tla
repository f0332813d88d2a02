------------------------------ MODULE NoteShelf ------------------------------
(***************************************************************************)
(* What a vault promises of its notes: a note is on the shelf, or in the   *)
(* trash, or it is not there; each change concerns one note and happens    *)
(* entirely or not at all, and a note disappears only from the trash.      *)
(***************************************************************************)
CONSTANT Notes

VARIABLES live,   \* the notes of the vault
          trash   \* the notes in its trash

Init == live = {} /\ trash = {}

Create(n) ==
  /\ n \in Notes \ (live \cup trash)
  /\ live' = live \cup {n}
  /\ UNCHANGED trash

Discard(n) ==
  /\ n \in live
  /\ live' = live \ {n}
  /\ trash' = trash \cup {n}

Restore(n) ==
  /\ n \in trash
  /\ live' = live \cup {n}
  /\ trash' = trash \ {n}

Delete(n) ==
  /\ n \in trash
  /\ trash' = trash \ {n}
  /\ UNCHANGED live

Next == \E n \in Notes : Create(n) \/ Discard(n) \/ Restore(n) \/ Delete(n)

Spec == Init /\ [][Next]_<<live, trash>>
=============================================================================
