---------------------------- MODULE VaultAccess ----------------------------
(***************************************************************************)
(* What the window promises about the vault it shows: documents are in     *)
(* memory only while the vault is open, they are documents of that vault,  *)
(* and a Secure Vault is opened only by a password that was typed since it *)
(* was last entered or locked.                                             *)
(***************************************************************************)
CONSTANTS Notes, Vaults, Secure, Home, None

VARIABLES
    vault,        \* the vault in the window, or None
    open,         \* its notes can be read
    asked,        \* a password for it was typed since it was entered or locked
    documents     \* the notes whose text is in memory

vars == <<vault, open, asked, documents>>

NotesOf(v) == {n \in Notes : Home[n] = v}

Init == vault = None /\ open = FALSE /\ asked = FALSE /\ documents = {}

\* A vault replaces the one in the window.
Enter(v) ==
    /\ vault' = v
    /\ open' = (v \notin Secure)
    /\ asked' = FALSE
    /\ documents' \in SUBSET (IF v \in Secure THEN {} ELSE NotesOf(v))

Ask ==
    /\ vault \in Secure /\ ~open
    /\ asked' = TRUE
    /\ UNCHANGED <<vault, open, documents>>

Unlock ==
    /\ asked /\ ~open
    /\ open' = TRUE
    /\ documents' \in SUBSET NotesOf(vault)
    /\ UNCHANGED <<vault, asked>>

Use ==
    /\ open
    /\ documents' \in SUBSET NotesOf(vault)
    /\ UNCHANGED <<vault, open, asked>>

Lock ==
    /\ vault \in Secure /\ open
    /\ open' = FALSE /\ asked' = FALSE /\ documents' = {}
    /\ UNCHANGED vault

Leave == vault' = None /\ open' = FALSE /\ asked' = FALSE /\ documents' = {}

Next ==
    \/ \E v \in Vaults : Enter(v)
    \/ Ask \/ Unlock \/ Use \/ Lock \/ Leave

Spec == Init /\ [][Next]_vars
============================================================================
