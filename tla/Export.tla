------------------------------- MODULE Export -------------------------------
(***************************************************************************)
(* "Export to a Standard Vault" (src/src/vault_export.rs and its dialogs   *)
(* in ui.rs): a worker builds a plaintext copy of an unlocked Secure Vault *)
(* in a staging directory beside the chosen folder and makes it that       *)
(* folder with one rename.                                                 *)
(*                                                                         *)
(* While the worker runs, the editor's timers still save notes, the idle   *)
(* timer may lock the vault, the user may cancel, other programs may use   *)
(* the chosen folder, any disk access may fail and the process may die.    *)
(* A text is a version number, the files of one vault a function from its  *)
(* notes to versions.                                                      *)
(***************************************************************************)
EXTENDS Naturals

CONSTANTS
    Notes,          \* the notes of the Secure Vault, in Notes/ or in its trash
    MaxVersion,     \* bound: how often a note is saved
    None            \* no file

ASSUME ExportAssumption ==
    /\ MaxVersion \in Nat
    /\ None \notin Nat

VARIABLES
    text,           \* text[n]: the version in the blob of n
    trashed,        \* the notes in the trash
    attachments,    \* whether the manifest carries attachment records
    session,        \* whether the vault is unlocked, and whether the session
                    \* that started the worker is still the current one
    dialog,         \* the step of the dialog chain, and what was entered
    worker,         \* the worker's next step, its result, its snapshot
    todo,           \* the objects it has still to copy
    cancelled,      \* ExportProgress.cancelled
    temp,           \* the staging directory
    dest,           \* the chosen folder: what the export put there
    others,         \* whether it holds files of other programs: none, files
                    \* that the worker could see, files put there meanwhile
    made            \* history: the snapshot the copy in dest was made of

vars == <<text, trashed, attachments, session, dialog, worker, todo, cancelled,
          temp, dest, others, made>>

Source == <<text, trashed, attachments>>

Versions == 0 .. MaxVersion
Steps == {"none", "explainer", "password", "folder", "confirm", "progress", "complete", "failed"}
Places == {"apart", "vault", "inside", "around"}
Files == [Notes -> Versions \cup {None}]
NoFiles == [n \in Notes |-> None]
Snapshot == [trash : SUBSET Notes, base : [Notes -> Versions]]
NoDialog == [step |-> "none", right |-> FALSE, place |-> "apart"]
NoSnapshot == [trash |-> {}, base |-> [n \in Notes |-> 0]]
\* Where the export leaves files: vault says that Vault::create was there, and
\* records are the sidecars of trashed notes.
NoDirectory == [there |-> FALSE, vault |-> FALSE, files |-> NoFiles, records |-> {}]
PCs == {"idle", "validate", "keys", "manifest", "stage", "prepare", "notes", "trash", "check",
        "move", "remove-destination", "remove-staging", "returned"}
Results == {"none", "exported", "cancelled", "failed", "cleanup-failed", "crashed"}

Init ==
    /\ text = [n \in Notes |-> 0]
    /\ trashed \in SUBSET Notes
    /\ attachments \in BOOLEAN
    /\ session = [unlocked |-> TRUE, current |-> TRUE]
    /\ dialog = NoDialog
    /\ worker = [pc |-> "idle", result |-> "none", snap |-> NoSnapshot]
    /\ todo = {}
    /\ cancelled = FALSE
    /\ temp = NoDirectory
    /\ dest = [NoDirectory EXCEPT !.there = TRUE]
    /\ others \in {"none", "before"}
    /\ made = NoSnapshot

-----------------------------------------------------------------------------
(* The dialogs *)

Goto(step) == dialog' = [dialog EXCEPT !.step = step]
Close == dialog' = NoDialog
Worker == <<worker, todo, cancelled>>
Disk == <<temp, dest, others, made>>

\* present_export_to_standard; a vault that is locked or read-only is refused.
AskExport ==
    /\ dialog.step = "none" /\ worker.pc = "idle"
    /\ session.unlocked
    /\ Goto("explainer")
    /\ UNCHANGED <<Source, session, Worker, Disk>>

Explained ==
    /\ dialog.step = "explainer"
    /\ Goto("password")
    /\ UNCHANGED <<Source, session, Worker, Disk>>

\* export_step_password: what was typed is tried by the worker only.
PasswordTyped ==
    /\ dialog.step = "password"
    /\ \E right \in BOOLEAN : dialog' = [dialog EXCEPT !.step = "folder", !.right = right]
    /\ UNCHANGED <<Source, session, Worker, Disk>>

\* Mutant of FolderChosen: a folder without a local path is not refused.
FolderChosenAnywhere ==
    /\ dialog.step = "folder"
    /\ \E place \in Places \cup {"remote"} :
         dialog' = [dialog EXCEPT !.step = "confirm", !.place = place]
    /\ UNCHANGED <<Source, session, Worker, Disk>>

\* export_step_choose_folder: select_folder gives a folder that exists.
FolderChosen ==
    /\ dialog.step = "folder"
    /\ \E place \in Places :
         /\ place = "apart" => dest.there
         /\ dialog' = [dialog EXCEPT !.step = "confirm", !.place = place]
    /\ UNCHANGED <<Source, session, Worker, Disk>>

\* export_step_confirm and run_export_worker: the session that is current now.
Confirmed ==
    /\ dialog.step = "confirm"
    /\ Goto("progress")
    /\ worker' = [worker EXCEPT !.pc = "validate", !.result = "none"]
    /\ session' = [session EXCEPT !.current = TRUE]
    /\ cancelled' = FALSE
    /\ temp' = NoDirectory
    /\ others' = IF others = "none" THEN "none" ELSE "before"
    /\ UNCHANGED <<Source, todo, dest, made>>

Dismissed ==
    /\ dialog.step \in {"explainer", "password", "folder", "confirm", "complete", "failed"}
    /\ Close
    /\ UNCHANGED <<Source, session, Worker, Disk>>

\* The Cancel button of the progress window.
RequestCancel ==
    /\ dialog.step = "progress" /\ ~cancelled
    /\ cancelled' = TRUE
    /\ UNCHANGED <<Source, session, dialog, worker, todo, Disk>>

\* The window closes; a session that is not the current one is told nothing.
Answer ==
    /\ dialog.step = "progress" /\ worker.pc = "returned"
    /\ worker' = [worker EXCEPT !.pc = "idle"]
    /\ cancelled' = FALSE
    /\ IF ~session.current \/ worker.result = "cancelled" THEN Close
       ELSE dialog' = [NoDialog EXCEPT !.step = IF worker.result = "exported" THEN "complete"
                                                                           ELSE "failed"]
    /\ UNCHANGED <<Source, session, todo, Disk>>

-----------------------------------------------------------------------------
(* The rest of the program, and the rest of the world *)

\* A timer saves the open note of the unlocked vault.
Autosave(n) ==
    /\ session.unlocked /\ n \notin trashed /\ text[n] < MaxVersion
    /\ text' = [text EXCEPT ![n] = @ + 1]
    /\ UNCHANGED <<trashed, attachments, session, dialog, Worker, Disk>>

\* Notes move to the trash and back while no modal dialog is open.
MoveNote(n) ==
    /\ session.unlocked /\ dialog.step = "none"
    /\ trashed' = IF n \in trashed THEN trashed \ {n} ELSE trashed \cup {n}
    /\ UNCHANGED <<text, attachments, session, dialog, Worker, Disk>>

\* lock_vault begins a new session; so does the next unlock.
LockVault ==
    /\ session.unlocked
    /\ session' = [unlocked |-> FALSE, current |-> FALSE]
    /\ UNCHANGED <<Source, dialog, Worker, Disk>>

UnlockVault ==
    /\ ~session.unlocked /\ dialog.step = "none"
    /\ session' = [unlocked |-> TRUE, current |-> FALSE]
    /\ UNCHANGED <<Source, dialog, Worker, Disk>>

\* Other programs create the folder, put a file there, or remove it while empty.
MakeFolder ==
    /\ ~dest.there
    /\ dest' = [NoDirectory EXCEPT !.there = TRUE]
    /\ UNCHANGED <<Source, session, dialog, Worker, temp, others, made>>

PutFile ==
    /\ dest.there /\ others = "none"
    /\ others' = IF worker.pc \in {"idle", "validate", "returned"} THEN "before" ELSE "meanwhile"
    /\ UNCHANGED <<Source, session, dialog, Worker, temp, dest, made>>

RemoveFolder ==
    /\ dest.there /\ others = "none" /\ ~dest.vault
    /\ dest' = NoDirectory
    /\ UNCHANGED <<Source, session, dialog, Worker, temp, others, made>>

\* The process dies; what it was building stays where it is.
Crash ==
    /\ dialog.step # "none" \/ session.unlocked
    /\ session' = [unlocked |-> FALSE, current |-> FALSE]
    /\ Close
    /\ worker' = IF worker.pc = "idle" THEN worker
                 ELSE [pc |-> "idle", result |-> "crashed", snap |-> NoSnapshot]
    /\ todo' = {} /\ cancelled' = FALSE
    /\ UNCHANGED <<Source, Disk>>

-----------------------------------------------------------------------------
(* export_secure_vault_to_standard *)

World == <<Source, session, dialog, cancelled>>
Proceed(pc) == worker' = [worker EXCEPT !.pc = pc]
Return(result) == worker' = [pc |-> "returned", result |-> result, snap |-> NoSnapshot]

\* An error inside build_and_finalize: first what is at the destination goes.
CleanUp(result) ==
    /\ worker' = [pc |-> "remove-destination", result |-> result, snap |-> NoSnapshot]
    /\ todo' = {}

\* Mutant of Validate: an error removes the destination here, too.
ValidateCleansUp ==
    /\ worker.pc = "validate"
    /\ IF dialog.place = "apart" /\ others = "none" /\ ~dest.vault
       THEN Proceed("keys") /\ UNCHANGED todo ELSE CleanUp("failed")
    /\ UNCHANGED <<World, Disk>>

\* validate_destination: not the vault, not in it, not around it, and empty.
Validate ==
    /\ worker.pc = "validate"
    /\ IF dialog.place = "apart" /\ others = "none" /\ ~dest.vault
       THEN Proceed("keys") ELSE Return("failed")
    /\ UNCHANGED <<World, todo, Disk>>

\* open_keyfile
DeriveKeys ==
    /\ worker.pc = "keys"
    /\ IF dialog.right THEN Proceed("manifest") ELSE Return("failed")
    /\ UNCHANGED <<World, todo, Disk>>

\* read_sealed_manifest; attachments are refused before anything is written.
ReadManifest ==
    /\ worker.pc = "manifest"
    /\ IF attachments THEN Return("failed")
       ELSE worker' = [worker EXCEPT !.pc = "stage",
                                     !.snap = [trash |-> trashed, base |-> text]]
    /\ UNCHANGED <<World, todo, Disk>>

\* make_temp_dir
MakeStaging ==
    /\ worker.pc = "stage"
    /\ Proceed("prepare")
    /\ temp' = [NoDirectory EXCEPT !.there = TRUE]
    /\ UNCHANGED <<World, todo, dest, others, made>>

\* Vault::create and the notebooks.
Prepare ==
    /\ worker.pc = "prepare"
    /\ Proceed("notes")
    /\ todo' = Notes \ worker.snap.trash
    /\ temp' = [temp EXCEPT !.vault = TRUE]
    /\ UNCHANGED <<World, dest, others, made>>

\* Mutant of CopyNote: the note is not ticked off.
CopyNoteAgain(n) ==
    /\ worker.pc = "notes" /\ n \in todo /\ ~cancelled
    /\ temp' = [temp EXCEPT !.files[n] = text[n]]
    /\ UNCHANGED <<World, worker, todo, dest, others, made>>

\* An object is copied: the blob as it is now.  cancel_point comes first.
CopyNote(n) ==
    /\ worker.pc = "notes" /\ n \in todo /\ ~cancelled
    /\ temp' = [temp EXCEPT !.files[n] = text[n]]
    /\ todo' = todo \ {n}
    /\ UNCHANGED <<World, worker, dest, others, made>>

\* Mutant of NotesCopied: the trash is left out, and so is the validation.
NotesCopiedOnly ==
    /\ worker.pc = "notes" /\ todo = {}
    /\ Proceed("move")
    /\ todo' = {}
    /\ UNCHANGED <<World, Disk>>

NotesCopied ==
    /\ worker.pc = "notes" /\ todo = {}
    /\ Proceed("trash")
    /\ todo' = worker.snap.trash
    /\ UNCHANGED <<World, Disk>>

\* A trashed note gets its file and then its record; nothing looks in between.
CopyTrashed(n) ==
    /\ worker.pc = "trash" /\ n \in todo /\ ~cancelled
    /\ temp' = [temp EXCEPT !.files[n] = text[n], !.records = @ \cup {n}]
    /\ todo' = todo \ {n}
    /\ UNCHANGED <<World, worker, dest, others, made>>

\* Mutant of Cancelled: it returns without the cleanup.
CancelledAtOnce ==
    /\ worker.pc \in {"notes", "trash"} /\ todo # {} /\ cancelled
    /\ Return("cancelled")
    /\ todo' = {}
    /\ UNCHANGED <<World, Disk>>

Cancelled ==
    /\ worker.pc \in {"notes", "trash"} /\ todo # {} /\ cancelled
    /\ CleanUp("cancelled")
    /\ UNCHANGED <<World, Disk>>

TrashCopied ==
    /\ worker.pc = "trash" /\ todo = {}
    /\ Proceed("check")
    /\ UNCHANGED <<World, todo, Disk>>

\* The vault is opened again and its notes and trashed notes are counted.
Built == {n \in Notes : temp.files[n] # None}
Check ==
    /\ worker.pc = "check"
    /\ Built = Notes /\ temp.records = worker.snap.trash
    /\ Proceed("move")
    /\ UNCHANGED <<World, todo, Disk>>

\* finalize_move: one rename, onto nothing or onto an empty directory.
Move ==
    /\ worker.pc = "move"
    /\ others = "none"
    /\ dest' = temp
    /\ temp' = NoDirectory
    /\ made' = worker.snap
    /\ Return("exported")
    /\ UNCHANGED <<World, todo, others>>

\* ... and a directory that is not empty any more is refused by the rename.
MoveRefused ==
    /\ worker.pc = "move"
    /\ others # "none"
    /\ CleanUp("failed")
    /\ UNCHANGED <<World, Disk>>

\* A disk access fails: the manifest or a blob that cannot be read or opened, a
\* write, the validation, or the rename.
Fails ==
    /\ \/ worker.pc \in {"manifest", "stage"} /\ Return("failed") /\ UNCHANGED todo
       \/ worker.pc \in {"prepare", "notes", "trash", "check", "move"} /\ CleanUp("failed")
    /\ UNCHANGED <<World, Disk>>

RemoveDestination ==
    /\ worker.pc = "remove-destination"
    /\ Proceed("remove-staging")
    /\ \/ dest' = NoDirectory /\ others' = "none"
       \/ /\ dest.there                          \* some or all of it stays
          /\ others' \in {"none", others}
          /\ UNCHANGED dest
    /\ UNCHANGED <<World, todo, temp, made>>

RemoveStaging ==
    /\ worker.pc = "remove-staging"
    /\ \/ temp' = NoDirectory /\ Return(worker.result)
       \/ temp.there /\ Return("cleanup-failed") /\ UNCHANGED temp
    /\ UNCHANGED <<World, todo, dest, others, made>>

-----------------------------------------------------------------------------
Dialogs ==
    \/ AskExport \/ Explained \/ PasswordTyped \/ FolderChosen \/ Confirmed \/ Dismissed
    \/ RequestCancel \/ Answer

Outside ==
    \/ \E n \in Notes : Autosave(n) \/ MoveNote(n)
    \/ LockVault \/ UnlockVault \/ MakeFolder \/ PutFile \/ RemoveFolder \/ Crash

Work ==
    \/ Validate \/ DeriveKeys \/ ReadManifest \/ MakeStaging \/ Prepare
    \/ \E n \in Notes : CopyNote(n) \/ CopyTrashed(n)
    \/ NotesCopied \/ Cancelled \/ TrashCopied \/ Check \/ Move \/ MoveRefused
    \/ RemoveDestination \/ RemoveStaging

Next == Dialogs \/ Outside \/ Work \/ Fails

Spec == Init /\ [][Next]_vars

\* The worker's thread runs, whether or not its disk accesses fail, and the main
\* loop hears of its end.
FairSpec == Spec /\ WF_vars(Work) /\ WF_vars(Answer)

-----------------------------------------------------------------------------
DialogStates == [step : Steps, right : BOOLEAN, place : Places]
WorkerStates == [pc : PCs, result : Results, snap : Snapshot]
Directory == [there : BOOLEAN, vault : BOOLEAN, files : Files, records : SUBSET Notes]

\* Every variable has its type.
TypeOK ==
    /\ text \in [Notes -> Versions] /\ trashed \in SUBSET Notes /\ attachments \in BOOLEAN
    /\ session \in [unlocked : BOOLEAN, current : BOOLEAN]
    /\ dialog \in DialogStates
    /\ worker \in WorkerStates
    /\ todo \in SUBSET Notes /\ cancelled \in BOOLEAN
    /\ temp \in Directory /\ dest \in Directory
    /\ others \in {"none", "before", "meanwhile"}
    /\ made \in Snapshot

\* What the chosen folder holds of the export, at any moment and after a crash
\* anywhere, is all of it: every note and every trashed note of one snapshot of
\* the manifest, its trash with a record for each, and in each file a text the
\* note had between that snapshot and now (build_and_finalize, finalize_move).
DestinationIsWhole ==
    dest.vault =>
        /\ dest.there
        /\ dest.records = made.trash
        /\ \A n \in Notes : /\ dest.files[n] # None
                            /\ made.base[n] <= dest.files[n]
                            /\ dest.files[n] <= text[n]

\* What the worker returns is true: "exported" with the whole copy in the
\* folder, and after an error or a cancellation no copy and no plaintext in the
\* staging directory, unless its path is what is reported
\* (export_secure_vault_to_standard, "Export cancelled. Nothing was written.").
AnswerIsTrue ==
    worker.pc = "returned" =>
        /\ worker.result = "exported" => ~temp.there /\ dest.vault
        /\ worker.result \in {"cancelled", "failed"} => ~temp.there
        /\ worker.result = "cleanup-failed" => temp.there

\* No export, failed or cancelled or crashed, removes the copy an earlier one
\* made, or files the worker could see when it looked at the folder.
KeepsWhatWasThere ==
    [][/\ dest.vault => dest' = dest
       /\ others = "before" => others' = "before"]_vars

\* Files that other programs keep in the folder the user chose stay there
\* ("Rejects a destination that could clobber ... [a] non-empty directory").
ForeignFilesKept == [][others # "none" => others' # "none"]_vars

\* The progress window closes: the export ends, is cancelled or fails.
ExportEnds == dialog.step = "progress" ~> dialog.step # "progress"
=============================================================================
