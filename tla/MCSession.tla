----------------------------- MODULE MCSession -----------------------------
(* A Standard Vault std with the notes a and b, a Secure Vault sec with c. *)
EXTENDS Session, TLC

CONSTANTS a, b, c, std, sec

StdHomes == (a :> std) @@ (b :> std)
SecHomes == (b :> sec) @@ (c :> sec)
OneHome == (c :> sec)

\* Each run leaves out the commands whose findings the README tells, where it
\* shows what the rest of the window keeps, and what its question does not need.
EditCommands == AllCommands \ {"next-note", "same-view"}
LockCommands ==
    AllCommands \ {"lock-note", "change-password", "remove-encryption",
                   "move", "rename", "save", "restore", "delete"}
============================================================================
