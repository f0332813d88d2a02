--------------------------- MODULE StandardVault ---------------------------
(***************************************************************************)
(* The storage of a Standard Vault (src/src/vault.rs): one file per note,  *)
(* Trash/ with a record per trashed note, recovery/ with the text of saves *)
(* that failed, and the open note of the editor (src/src/ui.rs).           *)
(*                                                                         *)
(* A step is one access to the disk: reading a stamp, atomic_write, rename,*)
(* remove_file.  The session may die before any step, any step may fail,   *)
(* and other programs edit the notes between any two of them.  A text is a *)
(* number, a new one for each edit: a stamp names the text of the file.    *)
(***************************************************************************)
EXTENDS Naturals

CONSTANTS
  Notes,     \* note ids
  NoNote,    \* the editor shows no note
  External,  \* other programs edit the notes
  MaxText    \* bound on the number of texts

ASSUME VaultAssumption ==
  /\ NoNote \notin Notes
  /\ External \in BOOLEAN
  /\ MaxText \in Nat

File == [at : {"nowhere", "Notes", "Trash"}, ext : {"md", "snote"},
         form : {"markdown", "container"}, text : Nat]

NoFile == [at |-> "nowhere", ext |-> "md", form |-> "markdown", text |-> 0]

\* The ActiveDocument: the extension of its path, whether the path is still the
\* one of the file in Notes/, the text in the editor, the text last read from or written to the
\* file, the text its stamp names, and whether it was rescued and not yet saved.
Editor == [note : Notes \cup {NoNote}, ext : {"md", "snote"}, there : BOOLEAN, held : Nat,
           base : Nat, stamp : Nat, dirty : BOOLEAN, rescued : BOOLEAN]

NoEditor == [note |-> NoNote, ext |-> "md", there |-> FALSE, held |-> 0,
             base |-> 0, stamp |-> 0, dirty |-> FALSE, rescued |-> FALSE]

Saves == {"save", "title", "saveLocked"}
Calls == Saves \cup {"none", "open", "create", "encrypt", "rekey", "decrypt",
                     "trash", "restore", "delete"}

Writing == {"write", "rename", "sync", "drop", "check", "stamp"}
Moving  == {"record", "trash", "back", "unlink", "unrecord"}
PC == {"closed", "idle", "verify", "rescue"} \cup Writing \cup Moving

VARIABLES
  file,      \* file[n]: the file of note n
  record,    \* record[n]: the extension Trash/<n>.trash.toml names, or "none"
  recovery,  \* recovery[n]: the text in recovery/<n>.md, 0 when there is none
  texts,     \* texts so far
  ed,        \* the open note
  pc,        \* closed, between calls, or the next step of a call
  job,       \* the call: its name, its note, the text it will write
  rescued,   \* history: the text a failed save put away that no save has written
  sealed,    \* history: notes whose encrypt_note returned Ok
  late       \* history: the file of the call's note changed since it was verified

vars == <<file, record, recovery, texts, ed, pc, job, rescued, sealed, late>>

NoJob == [name |-> "none", note |-> NoNote, text |-> 0]

\* Note::parse reads Markdown and inspect_header reads containers.
Legible(n) ==
  /\ file[n].at = "Notes"
  /\ file[n].form = IF file[n].ext = "md" THEN "markdown" ELSE "container"

Init ==
  /\ file = [n \in Notes |-> NoFile]
  /\ record = [n \in Notes |-> "none"]
  /\ recovery = [n \in Notes |-> 0]
  /\ texts = 0
  /\ ed = NoEditor
  /\ pc = "closed"
  /\ job = NoJob
  /\ rescued = [n \in Notes |-> 0]
  /\ sealed = {}
  /\ late = FALSE

-----------------------------------------------------------------------------
(* The session and its editor, between calls *)

Start ==
  /\ pc = "closed"
  /\ pc' = "idle"
  /\ UNCHANGED <<file, record, recovery, texts, ed, job, rescued, sealed, late>>

\* A crash at any moment, or the exit of the program.
End ==
  /\ pc # "closed"
  /\ pc' = "closed"
  /\ ed' = NoEditor
  /\ job' = NoJob
  /\ UNCHANGED <<file, record, recovery, texts, rescued, sealed, late>>

Edit ==
  /\ pc = "idle"
  /\ ed.note # NoNote
  /\ texts < MaxText
  /\ texts' = texts + 1
  /\ ed' = [ed EXCEPT !.held = texts + 1, !.dirty = TRUE]
  /\ UNCHANGED <<file, record, recovery, pc, job, rescued, sealed, late>>

\* Another program rewrites the file of a note.
ExternalEdit(n) ==
  /\ External
  /\ file[n].at = "Notes"
  /\ texts < MaxText
  /\ texts' = texts + 1
  /\ file' = [file EXCEPT ![n].text = texts + 1]
  /\ late' = (late \/ job.note = n)
  /\ UNCHANGED <<record, recovery, ed, pc, job, rescued, sealed>>

-----------------------------------------------------------------------------
(* The calls.  Every one but a save waits for persist_active: ~ed.dirty.    *)

Begin(name, n, text, first) ==
  /\ pc = "idle"
  /\ job' = [name |-> name, note |-> n, text |-> text]
  /\ pc' = first
  /\ late' = FALSE
  /\ UNCHANGED <<file, record, recovery, rescued, sealed>>

CreateNote(n) ==
  /\ ~ed.dirty
  /\ file[n] = NoFile
  /\ texts < MaxText
  /\ texts' = texts + 1
  /\ Begin("create", n, texts + 1, "write")
  /\ UNCHANGED ed

\* load_note and load_encrypted_note: the text first, the stamp in a later step.
OpenNote(n) ==
  /\ ~ed.dirty
  /\ Legible(n)
  /\ ed' = [NoEditor EXCEPT !.note = n, !.ext = file[n].ext, !.there = TRUE,
                            !.held = file[n].text, !.base = file[n].text]
  /\ Begin("open", n, file[n].text, "stamp")
  /\ UNCHANGED texts

\* persist_active: save_note, commit_title or save_encrypted_note.
Save ==
  /\ ed.dirty
  /\ \E name \in Saves :
       /\ name = "saveLocked" <=> ed.ext = "snote"
       /\ Begin(name, ed.note, ed.held, "verify")
  /\ UNCHANGED <<ed, texts>>

EncryptNote ==
  /\ ed.note # NoNote /\ ~ed.dirty /\ ed.ext = "md"
  /\ Begin("encrypt", ed.note, ed.held, "verify")
  /\ UNCHANGED <<ed, texts>>

\* change_encrypted_password and remove_encryption read the text from the file.
ChangeEncryption ==
  /\ ed.note # NoNote /\ ~ed.dirty /\ ed.ext = "snote"
  /\ ed.there /\ Legible(ed.note)
  /\ \E name \in {"rekey", "decrypt"} : Begin(name, ed.note, file[ed.note].text, "write")
  /\ UNCHANGED <<ed, texts>>

MoveToTrash(n) ==
  /\ ~ed.dirty
  /\ Legible(n)
  /\ record[n] = "none"
  /\ Begin("trash", n, 0, "record")
  /\ UNCHANGED <<ed, texts>>

RestoreFromTrash(n) ==
  /\ record[n] # "none"
  /\ Begin("restore", n, 0, "back")
  /\ UNCHANGED <<ed, texts>>

\* permanently_delete, and each round of empty_trash
PermanentlyDelete(n) ==
  /\ record[n] # "none"
  /\ Begin("delete", n, 0, "unlink")
  /\ UNCHANGED <<ed, texts>>

-----------------------------------------------------------------------------
(* How a call ends *)

Return ==
  /\ pc' = "idle"
  /\ job' = NoJob

\* An error: a failed load shows nothing, a failed save is followed by
\* write_recovery, and the path encrypt_note changed belongs to a plain document.
Fails ==
  /\ IF job.name \in {"save", "title"}
       THEN pc' = "rescue" /\ UNCHANGED job
       ELSE Return
  /\ ed' = CASE job.name = "open" -> NoEditor
             [] job.name = "encrypt" /\ pc \in {"drop", "stamp"} -> [ed EXCEPT !.there = FALSE]
             [] OTHER -> ed

-----------------------------------------------------------------------------
(* The steps of a call that writes the file of job.note *)

\* verify_stamp: the file is where the editor expects it, and as it left it.
Unchanged ==
  /\ ed.there
  /\ file[job.note].at = "Notes"
  /\ file[job.note].text = ed.stamp

\* Mutant of Verify: the recovery copy goes before the note is written.
VerifyDrops ==
  /\ pc = "verify"
  /\ IF Unchanged
       THEN /\ pc' = "write" /\ late' = FALSE /\ UNCHANGED <<ed, job>>
            /\ recovery' = [recovery EXCEPT ![job.note] = 0]
       ELSE Fails /\ UNCHANGED <<late, recovery>>
  /\ UNCHANGED <<file, record, texts, rescued, sealed>>

\* The guard of every save, and of encrypt_note.
Verify ==
  /\ pc = "verify"
  /\ IF Unchanged
       THEN pc' = "write" /\ late' = FALSE /\ UNCHANGED <<ed, job>>
       ELSE Fails /\ UNCHANGED late
  /\ UNCHANGED <<file, record, recovery, texts, rescued, sealed>>

Form == IF job.name \in {"encrypt", "rekey", "saveLocked"} THEN "container" ELSE "markdown"

\* What follows the write; commit_title renames the file when its name changes.
AfterWrite ==
  CASE job.name = "title" -> {"rename", "drop"}
    [] job.name \in {"encrypt", "decrypt"} -> {"rename"}
    [] job.name = "rekey" -> {"check"}
    [] OTHER -> {"drop"}

\* atomic_write of the note.
Write ==
  /\ pc = "write"
  /\ file' = [file EXCEPT ![job.note].at = "Notes", ![job.note].form = Form,
                          ![job.note].text = job.text]
  /\ IF job.name = "create"
       THEN Return
       ELSE pc' \in AfterWrite /\ UNCHANGED job
  /\ IF job.name \in Saves \cup {"encrypt"}
       THEN /\ ed' = [ed EXCEPT !.base = job.text, !.rescued = FALSE]
            /\ rescued' = IF ed.rescued THEN [rescued EXCEPT ![job.note] = 0] ELSE rescued
       ELSE UNCHANGED <<ed, rescued>>
  /\ sealed' = IF job.name = "decrypt" THEN sealed \ {job.note} ELSE sealed
  /\ UNCHANGED <<record, recovery, texts, late>>

\* rename to the path of the new title or the new extension.
Rename ==
  /\ pc = "rename"
  /\ file' = [file EXCEPT ![job.note].ext = CASE job.name = "encrypt" -> "snote"
                                              [] job.name = "decrypt" -> "md"
                                              [] OTHER -> @]
  /\ ed' = [ed EXCEPT !.there = FALSE]
  /\ pc' = "sync"
  /\ UNCHANGED <<record, recovery, texts, job, rescued, sealed, late>>

\* sync_directory; only then the caller's note has the new path.
Sync ==
  /\ pc = "sync"
  /\ IF job.name = "decrypt"
       THEN pc' = "stamp" /\ UNCHANGED ed
       ELSE /\ pc' = "drop"
            /\ ed' = [ed EXCEPT !.there = TRUE, !.ext = file[job.note].ext]
  /\ UNCHANGED <<file, record, recovery, texts, job, rescued, sealed, late>>

\* Mutant of Drop: the recovery copy of an encrypted note stays.
DropOfSaves ==
  /\ pc = "drop"
  /\ recovery' = IF job.name = "encrypt" THEN recovery ELSE [recovery EXCEPT ![job.note] = 0]
  /\ IF job.name = "trash"
       THEN /\ Return
            /\ ed' = IF ed.note = job.note THEN NoEditor ELSE ed
       ELSE pc' = "stamp" /\ UNCHANGED <<ed, job>>
  /\ UNCHANGED <<file, record, texts, rescued, sealed, late>>

\* remove_recovery, the last step of move_to_trash.
Drop ==
  /\ pc = "drop"
  /\ recovery' = [recovery EXCEPT ![job.note] = 0]
  /\ IF job.name = "trash"
       THEN /\ Return
            /\ ed' = IF ed.note = job.note THEN NoEditor ELSE ed
       ELSE pc' = "stamp" /\ UNCHANGED <<ed, job>>
  /\ UNCHANGED <<file, record, texts, rescued, sealed, late>>

\* change_encrypted_password opens what it wrote with the new password.
Check ==
  /\ pc = "check"
  /\ file[job.note].text = job.text
  /\ pc' = "stamp"
  /\ UNCHANGED <<file, record, recovery, texts, ed, job, rescued, sealed, late>>

\* file_stamp of whatever the file is by now; the call returns Ok.
Stamp ==
  /\ pc = "stamp"
  /\ LET n == job.note IN
       /\ ed' = IF job.name \in {"rekey", "decrypt"}
                  THEN [NoEditor EXCEPT !.note = n, !.ext = file[n].ext, !.there = TRUE,
                           !.held = job.text, !.base = job.text, !.stamp = file[n].text]
                  ELSE [ed EXCEPT !.stamp = file[n].text, !.dirty = FALSE]
       /\ sealed' = IF job.name = "encrypt" THEN sealed \cup {n} ELSE sealed
  /\ Return
  /\ UNCHANGED <<file, record, recovery, texts, rescued, late>>

\* write_recovery of the open note, or its failure.
Rescue ==
  /\ pc = "rescue"
  /\ \/ /\ recovery' = [recovery EXCEPT ![job.note] = job.text]
        /\ rescued' = [rescued EXCEPT ![job.note] = job.text]
        /\ ed' = [ed EXCEPT !.rescued = TRUE]
     \/ UNCHANGED <<recovery, rescued, ed>>
  /\ Return
  /\ UNCHANGED <<file, record, texts, sealed, late>>

-----------------------------------------------------------------------------
(* The steps of a call that moves the file of job.note *)

\* Mutant of Record: the record is written after the rename.
RecordLater ==
  /\ pc = "record"
  /\ pc' = "trash"
  /\ UNCHANGED <<file, record, recovery, texts, ed, job, rescued, sealed, late>>

\* Mutant of Record: the record keeps where the note was, not what it is.
RecordPlace ==
  /\ pc = "record"
  /\ record' = [record EXCEPT ![job.note] = file[job.note].at]
  /\ pc' = "trash"
  /\ UNCHANGED <<file, recovery, texts, ed, job, rescued, sealed, late>>

Record ==
  /\ pc = "record"
  /\ record' = [record EXCEPT ![job.note] = file[job.note].ext]
  /\ pc' = "trash"
  /\ UNCHANGED <<file, recovery, texts, ed, job, rescued, sealed, late>>

\* The rename into Trash/; when it fails the record is removed, if it can be.
Trash ==
  /\ pc = "trash"
  /\ \/ /\ file' = [file EXCEPT ![job.note].at = "Trash"]
        /\ pc' = "drop"
        /\ UNCHANGED <<record, job>>
     \/ /\ record' = [record EXCEPT ![job.note] = "none"]
        /\ Return
        /\ UNCHANGED file
     \/ /\ Return
        /\ UNCHANGED <<file, record>>
  /\ UNCHANGED <<recovery, texts, ed, rescued, sealed, late>>

Trashed(n) == file[n].at = "Trash" /\ file[n].ext = record[n]

\* restore_from_trash: the rename back, to the old path or to Inbox.
Back ==
  /\ pc = "back"
  /\ Trashed(job.note)
  /\ file' = [file EXCEPT ![job.note].at = "Notes"]
  /\ pc' = "unrecord"
  /\ UNCHANGED <<record, recovery, texts, ed, job, rescued, sealed, late>>

\* Mutant of Unlink: the record goes before the file.
UnlinkRecord ==
  /\ pc = "unlink"
  /\ Trashed(job.note)
  /\ record' = [record EXCEPT ![job.note] = "none"]
  /\ pc' = "unrecord"
  /\ UNCHANGED <<file, recovery, texts, ed, job, rescued, sealed, late>>

\* permanently_delete: remove_file of the note.
Unlink ==
  /\ pc = "unlink"
  /\ Trashed(job.note)
  /\ file' = [file EXCEPT ![job.note].at = "nowhere"]
  /\ pc' = "unrecord"
  /\ UNCHANGED <<record, recovery, texts, ed, job, rescued, sealed, late>>

Unrecord ==
  /\ pc = "unrecord"
  /\ record' = [record EXCEPT ![job.note] = "none"]
  /\ Return
  /\ UNCHANGED <<file, recovery, texts, ed, rescued, sealed, late>>

\* Any step but these two, which treat their errors themselves, may fail.
StepFails ==
  /\ pc \in (Writing \cup Moving) \ {"trash", "rescue"}
  /\ Fails
  /\ UNCHANGED <<file, record, recovery, texts, rescued, sealed, late>>

-----------------------------------------------------------------------------
Next ==
  \/ Start \/ End \/ Edit
  \/ \E n \in Notes : ExternalEdit(n)
  \/ \E n \in Notes : CreateNote(n) \/ OpenNote(n) \/ MoveToTrash(n)
                        \/ RestoreFromTrash(n) \/ PermanentlyDelete(n)
  \/ Save \/ EncryptNote \/ ChangeEncryption
  \/ Verify \/ Write \/ Rename \/ Sync \/ Drop \/ Check \/ Stamp \/ Rescue
  \/ Record \/ Trash \/ Back \/ Unlink \/ Unrecord
  \/ StepFails

Spec == Init /\ [][Next]_vars

-----------------------------------------------------------------------------
(* Properties *)

\* The files, the records, the recovery copies and the editor keep their types.
TypeOK ==
  /\ file \in [Notes -> File]
  /\ record \in [Notes -> {"none", "md", "snote"}]
  /\ recovery \in [Notes -> Nat]
  /\ texts \in Nat
  /\ ed \in Editor
  /\ pc \in PC
  /\ job \in [name : Calls, note : Notes \cup {NoNote}, text : Nat]
  /\ rescued \in [Notes -> Nat]
  /\ sealed \subseteq Notes
  /\ late \in BOOLEAN

\* The order of the steps of move_to_trash, restore_from_trash and
\* permanently_delete leaves no file in Trash/ that scan_trash does not list,
\* whatever fails and wherever the program dies: it could not be restored.
TrashHasRecord == \A n \in Notes : file[n].at = "Trash" => record[n] = file[n].ext

\* Once encrypt_note has returned Ok, and until remove_encryption writes the
\* note again, no plaintext of it is left, in its file or in recovery/, whatever
\* other saves fail meanwhile ("Encrypted notes never use plaintext recovery
\* files", vault.rs).
SealedStaysSealed ==
  \A n \in sealed : file[n].form = "container" /\ recovery[n] = 0

\* "A private local recovery copy was preserved" (ui.rs): text a failed save put
\* away is in recovery/ for as long as the editor that holds it has not saved it.
RescuedTextKept == ed.rescued => recovery[ed.note] = rescued[ed.note]

\* "Never silently discard either version" (SPECIFICATION.md): text that was put
\* away stays until it has been saved, whoever saves the note meanwhile.
RescuedVersionKept == \A n \in Notes : rescued[n] # 0 => recovery[n] = rescued[n]

\* "Do not overwrite a note when the on-disk version changed externally without
\* warning" (SPECIFICATION.md): a save replaces a text its session has not read
\* or written only when that text came after the call compared the stamps.
NoSilentOverwrite ==
  [][pc = "write" /\ pc' # "write" /\ job.name \in Saves /\ file' # file
       => file[job.note].text = ed.base \/ late]_vars

\* "cannot leave a second plaintext copy behind" (encrypt_note, vault.rs): a
\* crash in encrypt_note leaves no plaintext beside the container.
NoSecondPlaintext ==
  pc = "closed" => \A n \in Notes : file[n].form = "container" => recovery[n] = 0

-----------------------------------------------------------------------------
(* What the vault implements *)

NS == INSTANCE NoteShelf
        WITH live <- {n \in Notes : file[n].at = "Notes"},
             trash <- {n \in Notes : Trashed(n)}

\* At every step, and so after every crash, a note is in the vault, or in the
\* trash the user sees, or permanently deleted from there.
ImplementsNoteShelf == NS!Spec
=============================================================================
