---------------------------- MODULE SingleWriter ----------------------------
(***************************************************************************)
(* What the vault lock promises: at any moment a vault has at most one     *)
(* writable session, and the right to write passes from one session to     *)
(* another only through a moment at which nobody has it (the owner         *)
(* released the lock, crashed, or its machine restarted).                  *)
(***************************************************************************)
CONSTANTS Sessions,  \* the SenatorialNotes processes that may open the vault
          NoWriter   \* "nobody"

VARIABLE writer      \* the session that may write the vault, or NoWriter

Init == writer = NoWriter

\* A session becomes the writer of a vault nobody writes.
Open(s) == writer = NoWriter /\ writer' = s

\* The writer gives the vault up, or ends.
Close == writer # NoWriter /\ writer' = NoWriter

Next == Close \/ \E s \in Sessions : Open(s)

Spec == Init /\ [][Next]_writer
=============================================================================
