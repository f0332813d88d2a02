---------------------------- MODULE SecureStore ----------------------------
(***************************************************************************)
(* The storage of a Secure Vault (src/src/vault_encrypted.rs): one sealed  *)
(* blob per note or recovery copy, and one sealed manifest that lists them.*)
(*                                                                         *)
(* A session that is unlocked works on its own copy of the manifest.  Each *)
(* atomic_write of a blob, each atomic_write of the manifest and each      *)
(* removal is a step of its own; a session may die, and a write may fail,  *)
(* before or after it has replaced the file.  Besides the writable owner   *)
(* of the vault there may be read-only sessions ("Open Read-Only"), which  *)
(* unlock the same directory.                                              *)
(***************************************************************************)
EXTENDS Naturals

CONSTANTS
  Objects,      \* object ids, the names of blobs; a note is named by its object
  Writer,       \* the session that owns the vault lock
  Readers,      \* sessions opened read-only on the same vault
  NoObject,     \* no recovery copy
  Conversions   \* notes are given, or lose, a password of their own

Sessions == {Writer} \cup Readers

ASSUME StoreAssumption ==
  /\ Writer \notin Readers
  /\ NoObject \notin Objects
  /\ Conversions \in BOOLEAN

\* The manifest: notes and trash by object, the ones marked snote, and the
\* recovery object of a note.
Manifest == [notes : SUBSET Objects, trash : SUBSET Objects, snote : SUBSET Objects,
             rec : [Objects -> Objects \cup {NoObject}]]

Fresh == [notes |-> {}, trash |-> {}, snote |-> {}, rec |-> [o \in Objects |-> NoObject]]

Kinds == {"Note", "InnerSnote"}

Jobs == {"create", "save", "title", "saveInner", "encrypt", "decrypt",
         "recover", "trash", "restore", "delete", "rewrite"}

PC == {"locked", "listing", "reconciling", "ready", "rewrite", "blob", "manifest", "unlink"}

VARIABLES
  disk,     \* the sealed manifest on disk
  store,    \* store[o]: the ObjectType of the blob in store/, or "none"
  orphans,  \* the blobs moved to store/orphans/
  pc,       \* pc[s]: locked, unlocking, ready, or the next write of a call
  mem,      \* mem[s]: the manifest of the unlocked session s
  todo,     \* todo[s]: unreferenced files that reconcile has still to move
  job,      \* job[s]: the call s is in: its name, note, blob and what to remove
  shown,    \* history: notes whose creation succeeded or that an unlock found
  rescued   \* history: notes with unsaved text that write_recovery put away

vars == <<disk, store, orphans, pc, mem, todo, job, shown, rescued>>

NoJob == [name |-> "rewrite", note |-> NoObject, blob |-> NoObject, gone |-> NoObject]

Unlocked(s) == pc[s] \notin {"locked", "listing", "reconciling"}

\* all_object_ids
Refs(m) == m.notes \cup m.trash \cup {o \in Objects : \E n \in Objects : m.rec[n] = o}

Present == {o \in Objects : store[o] # "none"}

\* new_object_id: 128 random bits name nothing that exists.
Unused(o) ==
  /\ store[o] = "none" /\ o \notin orphans /\ o \notin Refs(disk)
  /\ \A s \in Sessions : o \notin Refs(mem[s]) /\ job[s].blob # o

\* read_note_markdown and read_inner_snote open a blob as one ObjectType.
Readable(m, o) == store[o] = IF o \in m.snote THEN "InnerSnote" ELSE "Note"

Init ==
  /\ disk = Fresh
  /\ store = [o \in Objects |-> "none"]
  /\ orphans = {}
  /\ pc = [s \in Sessions |-> "locked"]
  /\ mem = [s \in Sessions |-> Fresh]
  /\ todo = [s \in Sessions |-> {}]
  /\ job = [s \in Sessions |-> NoJob]
  /\ shown = {}
  /\ rescued = {}

Goto(s, where) == pc' = [pc EXCEPT ![s] = where]

-----------------------------------------------------------------------------
(* finish_unlock, lock and the end of a session *)

\* Mutant of Unlock: a new manifest instead of the one on disk.
UnlockFresh(s) ==
  /\ pc[s] = "locked"
  /\ mem' = [mem EXCEPT ![s] = Fresh]
  /\ Goto(s, "listing")
  /\ UNCHANGED <<disk, store, orphans, todo, job, shown, rescued>>

\* read_manifest
Unlock(s) ==
  /\ pc[s] = "locked"
  /\ mem' = [mem EXCEPT ![s] = disk]
  /\ Goto(s, "listing")
  /\ UNCHANGED <<disk, store, orphans, todo, job, shown, rescued>>

\* Mutant of List: only live notes count as referenced.
ListNotesOnly(s) ==
  /\ pc[s] = "listing"
  /\ todo' = [todo EXCEPT ![s] = Present \ mem[s].notes]
  /\ Goto(s, "reconciling")
  /\ UNCHANGED <<disk, store, orphans, mem, job, shown, rescued>>

\* reconcile: the directory is listed ...
List(s) ==
  /\ pc[s] = "listing"
  /\ todo' = [todo EXCEPT ![s] = Present \ Refs(mem[s])]
  /\ Goto(s, "reconciling")
  /\ UNCHANGED <<disk, store, orphans, mem, job, shown, rescued>>

\* Mutant of MoveOrphan: the file is deleted.
DeleteOrphan(s) ==
  /\ pc[s] = "reconciling"
  /\ \E o \in todo[s] :
       /\ todo' = [todo EXCEPT ![s] = @ \ {o}]
       /\ store' = [store EXCEPT ![o] = "none"]
  /\ UNCHANGED <<disk, orphans, pc, mem, job, shown, rescued>>

\* ... and each file the manifest does not name is moved to orphans/.
MoveOrphan(s) ==
  /\ pc[s] = "reconciling"
  /\ \E o \in todo[s] :
       /\ todo' = [todo EXCEPT ![s] = @ \ {o}]
       /\ store' = [store EXCEPT ![o] = "none"]
       /\ orphans' = IF store[o] = "none" THEN orphans ELSE orphans \cup {o}
  /\ UNCHANGED <<disk, pc, mem, job, shown, rescued>>

Unlocks(s) ==
  /\ pc[s] = "reconciling"
  /\ todo[s] = {}
  /\ Goto(s, "ready")
  /\ shown' = IF s = Writer THEN shown \cup ((mem[s].notes \cup mem[s].trash) \cap Present)
                            ELSE shown
  /\ UNCHANGED <<disk, store, orphans, mem, todo, job, rescued>>

\* lock() between calls; a crash, or the exit of the program, at any moment.
Lock(s) ==
  /\ pc[s] # "locked"
  /\ Goto(s, "locked")
  /\ mem' = [mem EXCEPT ![s] = Fresh]
  /\ todo' = [todo EXCEPT ![s] = {}]
  /\ job' = [job EXCEPT ![s] = NoJob]
  /\ UNCHANGED <<disk, store, orphans, shown, rescued>>

-----------------------------------------------------------------------------
(* The calls: each checks, then names the writes it will make *)

Begin(s, name, note, blob, gone, first) ==
  /\ pc[s] = "ready"
  /\ job' = [job EXCEPT ![s] = [name |-> name, note |-> note, blob |-> blob, gone |-> gone]]
  /\ Goto(s, first)
  /\ UNCHANGED <<disk, store, orphans, mem, todo, rescued>>

\* create_note: create_notebook writes the manifest, then blob, then manifest.
CreateNote ==
  \E o \in Objects :
    /\ Unused(o)
    /\ Begin(Writer, "create", o, o, NoObject, "rewrite")
    /\ UNCHANGED shown

\* Mutant of SaveNote: the recovery copy goes first.
SaveNoteLast ==
  \E o \in mem[Writer].notes \ mem[Writer].snote :
    /\ o \in Present
    /\ Begin(Writer, "save", o, o, mem[Writer].rec[o], "manifest")
    /\ UNCHANGED shown

\* save_note and commit_title: file_stamp needs the blob; its recovery goes last.
SaveNote ==
  \E o \in mem[Writer].notes \ mem[Writer].snote, name \in {"save", "title"} :
    /\ o \in Present
    /\ Begin(Writer, name, o, o, mem[Writer].rec[o], "blob")
    /\ UNCHANGED shown

\* save_encrypted_note, and change_encrypted_password
SaveEncryptedNote ==
  \E o \in mem[Writer].notes \cap mem[Writer].snote :
    /\ o \in Present
    /\ Begin(Writer, "saveInner", o, o, NoObject, "blob")
    /\ UNCHANGED shown

EncryptNote ==
  \E o \in mem[Writer].notes \ mem[Writer].snote :
    /\ Conversions /\ o \in Present
    /\ Begin(Writer, "encrypt", o, o, NoObject, "blob")
    /\ UNCHANGED shown

RemoveEncryption ==
  \E o \in mem[Writer].notes \cap mem[Writer].snote :
    /\ Conversions /\ store[o] = "InnerSnote"
    /\ Begin(Writer, "decrypt", o, o, NoObject, "blob")
    /\ UNCHANGED shown

WriteRecovery ==
  \E n \in mem[Writer].notes \ mem[Writer].snote, o \in Objects :
    /\ Unused(o)
    /\ Begin(Writer, "recover", n, o, NoObject, "blob")
    /\ UNCHANGED shown

\* Mutant of MoveToTrash: the trash record does not name the note.
MoveToTrashUnnamed ==
  \E o \in mem[Writer].notes :
    /\ Readable(mem[Writer], o)
    /\ Begin(Writer, "trash", NoObject, NoObject, NoObject, "manifest")
    /\ UNCHANGED shown

MoveToTrash ==
  \E o \in mem[Writer].notes :
    /\ Readable(mem[Writer], o)
    /\ Begin(Writer, "trash", o, NoObject, NoObject, "manifest")
    /\ UNCHANGED shown

RestoreFromTrash ==
  \E o \in mem[Writer].trash :
    /\ Begin(Writer, "restore", o, NoObject, NoObject, "manifest")
    /\ UNCHANGED shown

\* permanently_delete, and each round of empty_trash
PermanentlyDelete ==
  \E o \in mem[Writer].trash :
    /\ Begin(Writer, "delete", o, NoObject, o, "manifest")
    /\ shown' = shown \ {o}

\* Every other with_manifest_mut of the writer (notebooks, move_note), and
\* set_session_state, which any unlocked session calls when it locks the vault
\* or switches to another one: the manifest is sealed again.
Rewrite(s) ==
  /\ Begin(s, "rewrite", NoObject, NoObject, NoObject, "manifest")
  /\ UNCHANGED shown

-----------------------------------------------------------------------------
(* The writes of a call *)

\* What a call makes of the session's manifest.
Updated(m, j) ==
  CASE j.name = "create"  -> [m EXCEPT !.notes = @ \cup {j.note}]
    [] j.name = "encrypt" -> [m EXCEPT !.snote = @ \cup {j.note}]
    [] j.name = "decrypt" -> [m EXCEPT !.snote = @ \ {j.note}]
    [] j.name = "recover" -> [m EXCEPT !.rec[j.note] = j.blob]
    [] j.name = "trash"   -> [m EXCEPT !.notes = @ \ {j.note}, !.trash = @ \cup {j.note}]
    [] j.name = "restore" -> [m EXCEPT !.notes = @ \cup {j.note}, !.trash = @ \ {j.note}]
    [] j.name = "delete"  -> [m EXCEPT !.trash = @ \ {j.note}, !.snote = @ \ {j.note}]
    [] j.name \in {"save", "title"} -> [m EXCEPT !.rec[j.note] = NoObject]
    [] OTHER -> m

BlobKind(j) == IF j.name \in {"saveInner", "encrypt"} THEN "InnerSnote" ELSE "Note"

\* Dropping the recovery copy ends save_note and commit_title.
DropRecovery(j) == IF j.gone = NoObject THEN "ready" ELSE "manifest"

\* What may follow the blob: commit_title writes the manifest when the filename
\* changes.
AfterBlob(j) ==
  CASE j.name = "title"     -> {"rewrite", DropRecovery(j)}
    [] j.name = "save"      -> {DropRecovery(j)}
    [] j.name = "saveInner" -> {"ready"}
    [] OTHER                -> {"manifest"}

\* create_notebook inside create_note, or the new filename of commit_title.
AfterRewrite(j) ==
  CASE j.name = "create" -> "blob"
    [] j.name = "title"  -> DropRecovery(j)
    [] OTHER             -> "ready"

AfterManifest(j) == IF j.gone = NoObject THEN "ready" ELSE "unlink"

\* A call goes on to its next write, or returns.
Continue(s, next) ==
  /\ Goto(s, next)
  /\ job' = IF next = "ready" THEN [job EXCEPT ![s] = NoJob] ELSE job

\* In each write the last disjunct is atomic_write that replaced the file but
\* could not sync the directory: the call returns Err there.
WriteBlob(s) ==
  /\ pc[s] = "blob"
  /\ store' = [store EXCEPT ![job[s].blob] = BlobKind(job[s])]
  /\ rescued' = IF job[s].name \in {"save", "title"} THEN rescued \ {job[s].note} ELSE rescued
  /\ \/ \E next \in AfterBlob(job[s]) : Continue(s, next)
     \/ Continue(s, "ready")
  /\ UNCHANGED <<disk, orphans, mem, todo, shown>>

RewriteFirst(s) ==
  /\ pc[s] = "rewrite"
  /\ disk' = mem[s]
  /\ \/ Continue(s, AfterRewrite(job[s]))
     \/ Continue(s, "ready")
  /\ UNCHANGED <<store, orphans, mem, todo, shown, rescued>>

\* Mutant of WriteManifest: the session's own manifest stays as it was.
WriteManifestOnly(s) ==
  /\ pc[s] = "manifest"
  /\ disk' = Updated(mem[s], job[s])
  /\ Continue(s, AfterManifest(job[s]))
  /\ shown' = IF job[s].name = "create" THEN shown \cup {job[s].note} ELSE shown
  /\ UNCHANGED <<store, orphans, mem, todo, rescued>>

WriteManifest(s) ==
  /\ pc[s] = "manifest"
  /\ disk' = Updated(mem[s], job[s])
  /\ \/ /\ mem' = [mem EXCEPT ![s] = Updated(mem[s], job[s])]
        /\ Continue(s, AfterManifest(job[s]))
        /\ shown' = IF job[s].name = "create" THEN shown \cup {job[s].note} ELSE shown
        /\ rescued' = IF job[s].name = "recover" THEN rescued \cup {job[s].note} ELSE rescued
     \/ /\ Continue(s, "ready")
        /\ UNCHANGED <<mem, shown, rescued>>
  /\ UNCHANGED <<store, orphans, todo>>

\* remove_file of a blob no manifest names any more; its failure is ignored.
Unlink(s) ==
  /\ pc[s] = "unlink"
  /\ \/ store' = [store EXCEPT ![job[s].gone] = "none"]
     \/ UNCHANGED store
  /\ Continue(s, "ready")
  /\ UNCHANGED <<disk, orphans, mem, todo, shown, rescued>>

\* A write that fails leaves its file as it was, and the call returns Err.
WriteFails(s) ==
  /\ pc[s] \in {"rewrite", "blob", "manifest"}
  /\ Continue(s, "ready")
  /\ UNCHANGED <<disk, store, orphans, mem, todo, shown, rescued>>

-----------------------------------------------------------------------------
Calls ==
  \/ CreateNote \/ SaveNote \/ SaveEncryptedNote \/ EncryptNote \/ RemoveEncryption
  \/ WriteRecovery \/ MoveToTrash \/ RestoreFromTrash \/ PermanentlyDelete

Step(s) ==
  \/ Unlock(s) \/ List(s) \/ MoveOrphan(s) \/ Unlocks(s) \/ Lock(s)
  \/ Rewrite(s) \/ RewriteFirst(s) \/ WriteBlob(s) \/ WriteManifest(s)
  \/ Unlink(s) \/ WriteFails(s)

Next == Calls \/ \E s \in Sessions : Step(s)

Spec == Init /\ [][Next]_vars

-----------------------------------------------------------------------------
(* Properties *)

\* The store, the manifest and the sessions keep their types.
TypeOK ==
  /\ disk \in Manifest
  /\ store \in [Objects -> Kinds \cup {"none"}]
  /\ orphans \subseteq Objects
  /\ pc \in [Sessions -> PC]
  /\ mem \in [Sessions -> Manifest]
  /\ todo \in [Sessions -> SUBSET Objects]
  /\ job \in [Sessions -> [name : Jobs, note : Objects \cup {NoObject},
                           blob : Objects \cup {NoObject}, gone : Objects \cup {NoObject}]]
  /\ shown \subseteq Objects
  /\ rescued \subseteq Objects

\* The write order (blob, then the manifest that names it; manifest, then the
\* removal of what it no longer names) and reconcile leave no manifest entry
\* without its blob, on disk or in a session, at any point a crash can hit.
NoDanglingRecord ==
  /\ Refs(disk) \subseteq Present
  /\ \A s \in Sessions : Unlocked(s) => Refs(mem[s]) \subseteq Present

\* "no note is silently dropped", "zero note loss" (ENCRYPTED_VAULT_FORMAT.md):
\* a note whose creation succeeded, or that an unlock found, stays in the
\* manifest until it is permanently deleted, through crashes and failed writes.
NoNoteDropped == shown \subseteq disk.notes \cup disk.trash

\* Unsaved text that write_recovery put away stays on disk, and readable, until
\* the note itself has been written.
RescuedTextKept ==
  \A n \in rescued : disk.rec[n] # NoObject /\ store[disk.rec[n]] = "Note"

\* scan_notes reads every note that is not a locked one, and fails as a whole
\* when one cannot be read: every unlocked session can list its notes.
ScanSucceeds ==
  \A s \in Sessions : pc[s] = "ready" =>
    \A o \in mem[s].notes \ mem[s].snote : store[o] = "Note"

\* reconcile moves, and never deletes: the blob of a note that was not
\* permanently deleted exists, in the store or among the orphans, whatever other
\* sessions unlock the vault.
ContentNeverDestroyed == shown \subseteq Present \cup orphans

\* What the vault shows: the unlocked owner's manifest, or the one it would read.
View == IF Unlocked(Writer) THEN mem[Writer] ELSE disk

NS == INSTANCE NoteShelf WITH Notes <- Objects, live <- View.notes, trash <- View.trash

\* Every call changes the notes and the trash entirely or not at all, and a call
\* that reported an error can at most take effect at the next unlock.
ImplementsNoteShelf == NS!Spec
=============================================================================
