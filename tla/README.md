# SenatorialNotes: TLA+ models, checks and proofs

SenatorialNotes is a local note editor written in Rust on GTK.  It keeps notes in
*vaults*: a Standard Vault is a directory of Markdown files, a Secure Vault is a
store of sealed blobs behind a password.  These modules model what the program
does to a vault: who may write it, in which order files are replaced, what a
crash, a failed write, another session or another program makes of it, and what
the window does with the document in it while timers, dialogs and workers answer.

All paths below are relative to the repository's source (`src/` in
`PROJECT.json` is the repository root, so `src/src/vault.rs` is its `src/vault.rs`).

## 1. Inventory

| Part | State | Operations | Interacts with |
|---|---|---|---|
| Vault lock (`vault_lock.rs`) | `vault.lock` on disk; the owner flag of a session | `classify`, `acquire`, `take_over`, `read_only`, `Drop` | opening a vault; the contention dialog |
| Atomic replacement (`storage/atomic.rs`) | none | `atomic_write`, `rename_no_replace` | every write of every store, the lock |
| Secure Vault store (`vault_encrypted.rs`) | the sealed manifest, the blobs, `orphans/`; the unlocked session's manifest and keys | unlock with `reconcile`, lock, and calls on notes, trash, recovery copies, notebooks, session state | editor, lock screen, export, read-only sessions |
| Standard Vault (`vault.rs`) | note files, `Trash/` with its records, `recovery/` | create, load, save, retitle, encrypt, decrypt, re-key, trash, restore, delete, notebooks | editor, watcher, other programs |
| Editor (`ui.rs`: `ActiveDocument`, `AppState`) | the open note, its stamp, dirty flags, caches, timers | open, edit, `persist_active`, leave, lock, close | the vault's calls; timers; the watcher |
| Opening a vault (`ui.rs`, `vault_manifest.rs`, `vault_quarantine.rs`) | `vault.toml`, read-only flag, pending quarantine | validate, migrate, quarantine, lock, commit the switch | lock, editor, configuration |
| Sessions (`ui_state.rs`, `ui.rs`) | the session token, pending worker and timers | bump, unlock worker, idle and focus-loss lock | editor, Secure Vault store |
| Watcher (`watcher.rs`, `ui.rs`) | queued events, the baseline snapshot | poll, reload, refresh the baseline | editor |
| Export (`vault_export.rs`) | snapshot of a manifest, a temporary directory | validate, build, check, finalize, cancel, clean up | a live Secure Vault session |
| Cryptography (`crypto/`) | keys in memory, the keyfile | seal, open, re-wrap | Secure Vault store, notes with a password |
| Pure helpers (`sort.rs`, `search.rs`, `paths.rs`, `formatting.rs`, `markdown_spans.rs`, `model.rs`) | none | ordering, matching, file names, text edits | lists and editor |
| Configuration (`config.rs`) | recent vaults, per-vault session state | load, save, record | opening a vault |

What is hard here, and what makes each part correct:

* **Lock.**  Sessions on several hosts read, place, replace and remove one file
  with nothing but renames between them, and judge owners that may have crashed,
  rebooted, or left a pid to another process.  Correct: one writable owner; a live
  owner is never proven dead; nobody removes another's lock; a loser leaves no lock.
* **Secure Vault store.**  A call is two or three separate file replacements, each
  of which may fail before or after it took effect.  Correct: the manifest never
  names a blob that is not there; no note drops out of it; rescued text stays until
  the note is written; every call happens entirely or not at all; an unlocked
  session can list its notes.
* **Standard Vault.**  A call is a sequence of renames, writes and removals, while
  other programs edit the same files.  Correct: nothing in the trash is invisible;
  an encrypted note leaves no plaintext; no text is silently replaced or discarded.
* **Editor, sessions, watcher.**  Callbacks, timers and a worker thread act on
  state that may have moved on.  Correct: late answers change nothing; text is
  flushed before it is dropped; unsaved text is eventually saved.
* **Opening and export.**  Long sequences of file operations that may stop
  anywhere.  Correct: nothing is written before the lock is held; a failed open
  leaves the current session alone; a failed export leaves nothing at its target.

`PROJECT.json` lists every hazard at its line with the property that covers it.

## 2. Modules

| Module | What it is | Code |
|---|---|---|
| `SingleWriter` | abstract: ownership of a vault never passes directly from one session to another | |
| `VaultLock` | the lock protocol, one action per read, rename and removal | `vault_lock.rs` |
| `NoteShelf` | abstract: a note is in the vault, or in its trash, or gone; a change concerns one note and is atomic; a note disappears only from the trash | |
| `SecureStore` | the store of a Secure Vault, one action per file replacement | `vault_encrypted.rs` |
| `StandardVault` | the files of a Standard Vault and the editor's open note, one action per disk access | `vault.rs`, `storage/` |
| `VaultAccess` | abstract: documents are in memory only while their vault is open, and a Secure Vault opens only with a password asked for since it was entered or locked | |
| `Session` | the main window: the open document, its timers, dialogs, workers and locks, one action per handler | `ui.rs`, `ui_state.rs`, `crypto/session.rs` |
| `Export` | a plaintext copy of a Secure Vault, one action per disk access, and its dialogs | `vault_export.rs`, `ui.rs` |
| `Opening` | one folder while processes create, open, migrate, quarantine and re-key it | `vault_manifest.rs`, `vault_quarantine.rs`, `crypto/vault.rs`, `ui.rs` |
| `Notebooks` | the notebook tree of both kinds of vault, and the paths the window remembers | `vault.rs`, `vault_encrypted.rs`, `ui.rs` |
| `Watcher` | what other programs do to the notes of a Standard Vault, and what the poll makes of it, one action per disk access | `watcher.rs`, `ui.rs` |
| `MC...` | small instances | |
| `..._proofs` | theorems | |

`SecureStore` and `StandardVault` are two implementations of the one `NoteShelf`.
`VaultLock` implements `SingleWriter`, `Session` implements `VaultAccess`.  Where one
module needs another it takes its promise, not its steps: `Opening` takes the lock in
one step, `Session` and `Export` save a note in one step that may fail, `Notebooks`
moves it in one.  Operators with the comment "Mutant of" are deliberate errors, used
to check that a property notices them; nothing else refers to them.

### VaultLock

`lock` is `vault.lock`: absent, illegible (`Opaque`: malformed or of a newer
format), or a `LockOwner` (hostname, boot id, pid, start ticks).  `pc[s]` is where
session `s` stands in `acquire`, `take_over`, `write_and_verify` or `Drop`, and
`read[s]` is what it read last, so that other sessions act between a read and the
rename that relies on it.  `Classify` and `LivenessVerdict` return the *set* of
verdicts the code can reach, because `kill(pid, 0)` and `/proc` answer about
whatever process has the pid now.  `Acquire`/`AcquireClassified`,
`TakeOver`/`TakeOverClassified`, `Place`/`Rename`/`ReadBack`/`Lost`/`Verify` and
`Release`/`Remove` are the halves of the functions of those names;
`finish_opening_vault` and the contention dialog are their caller (`Contended`,
`Cancel`, `OpenReadOnly`).

Constants choose the environment: `NoReplace` (the filesystem has
`RENAME_NOREPLACE`; otherwise the fallback's check and rename are two steps),
`TakeOvers` (users confirm takeovers), `Recycle` (pids are reused within a boot),
`SameUser` (`kill` is permitted and processes are visible), `Legible` (hosts whose
`/proc` can be read), `MaxBoot` (restarts).

### SecureStore

`disk` is the sealed manifest, `store[o]` the object type of blob `o`, `orphans`
the blobs moved aside, `mem[s]` the manifest of unlocked session `s`, `job[s]` the
call it is in.  A call first checks and names its writes (`CreateNote`,
`SaveNote`, ...), then makes them one step at a time (`RewriteFirst`, `WriteBlob`,
`WriteManifest`, `Unlink`).  `Updated` is what the call makes of the manifest.
Each write may fail before it replaced the file (`WriteFails`) or after (the last
disjunct of each write: the directory could not be synced), and the session may
lock or die anywhere (`Lock`).  `Unlock`, `List`, `MoveOrphan`, `Unlocks` are
`finish_unlock`; every session runs them, a read-only one too, as the code does.
Random object ids are fresh names (`Unused`).  Bodies, titles and notebooks are
left out: a note is its object.  Password changes of a note rewrite its blob like
`save_encrypted_note` does.

### StandardVault

`file[n]` says where note `n` is, under which extension, in which form (Markdown
or container) and with which text; `record[n]` its trash record; `recovery[n]` its
recovery copy.  Texts are numbers, a new one for each edit.  `ed` is the open
note: what the editor holds, what it last read or wrote (`base`), what its stamp
names (`stamp`), whether its path still is the file's (`there`).  The difference
between `base` and `stamp` is the time between reading a file and taking its stamp.
Every step may fail (`StepFails`, with what the caller does about it in `Fails`
and `Rescue`), the program may die (`End`), and another program may rewrite a note
(`ExternalEdit`) between any two steps.  `rescued`, `sealed` and `late` are history
variables for the properties.  The editor's caches of parsed notes are left out:
a cached note is reused only when the file's time and size are unchanged, and
behaves as if it had stayed open.  Two notes never share a path: names carry the id.

### Session

GTK runs one handler at a time, so a handler is one action.  Handlers call each
other and return early, so each is an operator from a world (the state it finds) to
the set of worlds it may leave (one for each outcome of a save, a load, a row that a
view happens to show); `Do` makes an action of it, and `Then` continues after a
success and returns after a failure, as `?` and the early returns do.  `app` is
`AppState` with the widgets: the vault, its keys, the active document, whose text the
buffer shows, the dirty flags, the armed timers, the cached documents (`held`), the
selection that waits for its timeout (`pick`), the idle clock.  `dialog` is the one
modal dialog, `workers` the key derivations with their session token: `fresh` says
that the token still is the current one (`SessionRegistry::bump` makes it stale,
`Outdated`).  `log` is history.  `Persist` is `persist_active`, `PrepareToLeave`
`prepare_to_leave_active`, `Display` `display_document`, and so on by name.

A text is told apart only by the note it was typed for.  A fallback selection may
land on any note of the vault.  External edits are `StandardVault`'s matter.

### Export

`dialog` walks through `present_export_to_standard` and the `export_step_*` functions,
`worker.pc` through `export_secure_vault_to_standard`: each step is one disk access,
may fail (`Fails`), may find the cancellation flag (`Cancelled`), and the process may
die at it.  `temp` and `dest` say what lies in the staging directory and in the chosen
folder.  Meanwhile timers save notes, the idle timer locks the vault, other programs
use the folder (`others`).  A text is its version, so that `DestinationIsWhole` can say
that each exported text is one the note had between the snapshot and now.

### Opening

`toml`, `keyfile`, `store`, `marks` and `where` are the folder: `vault.toml` (version,
kind, id), the key and the password in `vault.keys`, the key that sealed the manifest,
the directories, and for each plaintext file of an older version where it is now.
`job[s]` walks from the folder picker through `VaultManifest::load`, the migration, the
lock, the dialogs and the quarantine to `commit_vault_switch`; `maker[s]` is the
dialog and key worker of a new Secure Vault, `rekey[s]` a change of password, `window[s]`
what is open.  `seen` is the plaintext that was there at the look the window rests on.

### Notebooks

`notebooks` is the set of paths: directories in a Standard Vault, the list of the
manifest in a Secure Vault (`sealed`).  `home[x]` is the notebook of a note or of
another program's file; `listed`, `path`, `copies`, `view` and `sidebar` are what the
window remembers of paths.  `removing` is a removal of directories under way, during
which other programs add files and directories.

### Watcher

`tree` says which notes have a file.  `baseline`, `listed` and `stamp` are what the
program remembers of these files: in the snapshot of the last poll or write
(`watch_baseline`), in the list of summaries, in the stamp of the open note.  A memory
is only ever compared with the file, so it is one of three: there was none, it is as the
file is now, it is of an older file.  Each change of a file ages what was remembered of
it, and any number of edits is covered by three values.  `raised` and `queued` are a
report on its way and in the channel.  `Poll`, `Compare`, `CheckStamp`, `Scan` and
`Adopt` are `install_watcher_poll` with `note_tree_snapshot`,
`reload_after_external_change`, `refresh_after_watcher` and `refresh_watch_baseline`;
`Edit` and `Remove` may come between any two of them.  The window's own calls write and
then adopt the tree as their baseline (`pc = "own"`).

## 3. Runs

| Run | Instance | Question and answer |
|---|---|---|
| `lock_exclusive` | 3 sessions, 2 hosts, 2 pids, 2 boots; pids recycled; atomic rename; no takeovers | Can two sessions own a vault, or one remove another's lock?  No; the protocol implements `SingleWriter`. |
| `lock_takeover` | same sessions; takeovers; check-then-rename fallback; no recycled pids | Is a lock left by a loser, or a live owner proven dead?  No. |
| `store_owner` | one session, 3 objects, conversions included | Does a crash or failed write lose a note, a blob or rescued text?  No; the store implements `NoteShelf`. |
| `store_shared` | an owner and a read-only session, 2 objects | Is content ever destroyed?  No: at worst it is moved to `orphans/`. |
| `plain_vault` | 2 notes, 3 texts, other programs | Is anything in the trash invisible, is plaintext of an encrypted note left after `encrypt_note` succeeded, does rescued text stay while its editor is open?  The vault implements `NoteShelf`. |
| `session_edits` | a Standard Vault, a plain and an encrypted note, failing saves and loads | Does any handler drop unsaved text (`EditsAreHeld`), and is changed text saved by itself or its failure shown (`Autosaves`, liveness)?  No handler does, it is. |
| `session_locking` | a Standard and a Secure Vault with a note with and one without a password of its own | Does a lock leave text in memory, does a late answer open a vault, is text written over another note, is an idle vault locked (liveness)?  The window implements `VaultAccess`. |
| `session_next_note` | 2 notes, four commands | **Violated:** the next-note keys open another note without saving the one that is open. |
| `export` | 2 notes, 2 saves | Is the folder ever partly filled, the answer ever untrue, an earlier copy removed, does the export end (liveness)?  Whole, true, kept; it ends. |
| `opening` | 2 processes, a directory and two loose files of one name, 2 passwords, 2 quarantine folders, 2 ids | Is a moved file replaced, a vault with plaintext written, its key, password or identity lost?  No. |
| `notebooks` | a note with and one without password, a foreign file, two names beside Inbox, depth 2, 3 notebooks | Is something in a notebook that is not there, the list untrue, a document misled by anything but a rename of a notebook?  No. |
| `watcher` | 2 notes, any edits and removals | Is a change of another program left without a report that a poll will act on (`ChangesArePending`), and is it listed or told at last (`ChangesAreListed`, liveness)?  None is; it is, unless the user writes first. |

The property of the run marked violated states what the repository's own documents
promise; `PROJECT.json` quotes the line.

More counterexamples are kept as configurations that TLC replays in seconds; section 5
tells what each shows: `store_reader_reconciles.cfg`, `store_reader_reseals.cfg`,
`store_conversion_crash.cfg`, `plain_silent_overwrite.cfg`,
`plain_rescued_discarded.cfg`, `plain_second_plaintext.cfg`, `session_idle_lock.cfg`,
`export_clobbers.cfg`, `opening_unwritable.cfg`, `notebooks_rename.cfg`,
`notebooks_merge.cfg`, `lock_two_takeovers.cfg`, `watcher_saves.cfg`,
`watcher_next_note.cfg`, `opening_two_creators.cfg`, `opening_two_changes.cfg`; each checks with the `MC` module of its component, as in
`tlc -config export_clobbers.cfg MCExport`.

**Bounds.**  Two hosts tell "this machine" from "another one", three sessions let
two act while a third has died, two pids and two boots make reuse and restart
possible; the lock file holds at most one owner, so a fourth session repeats what
a third can do.  Three objects hold a note, its recovery copy and a second note.
Two notes suffice where a call concerns one and the editor shows another; the
texts allow a saved text, an unsaved one and a foreign one (5 where the violation
needs them).  `plain_vault` was also run with 4 and 5 texts without a different
result.  In the window one note is open and another is clicked, cached or trashed; a
third would be one more of these.  For the watcher one note is open and another changes
behind it; the three values of a memory put no bound on the number of edits.  Two versions of a text distinguish a copy made
before a save from one made after it.  Two files of one name are what a quarantine
could mix up; two folders let an interrupted quarantine be repeated.  Depth 2 and
three notebooks give a parent, a child and a place to move to.

Bounds that leave cases out, each named in its module:

* `Session`: `Commands` says what the user of a run does.  `session_edits` leaves out
  the next-note keys and the button of the view already shown, `session_locking`
  locking, re-keying and decrypting a single note: with them the properties fail, which
  section 5 tells and `session_next_note` and `session_idle_lock.cfg` show.  It also
  leaves out moving, renaming, saving by hand, restoring and deleting, which
  `session_edits` has.
* `Opening`: in the run a process that is making a vault is not raced by another one
  (`Races = FALSE`) and one password change runs at a time (`Overlaps = FALSE`): with
  either the properties fail, which section 5 tells and `opening_two_creators.cfg` and
  `opening_two_changes.cfg` show; a folder does not have both plaintext of an
  older version and a second password (`Together`; each alone is explored in full);
  checking and creating a quarantine folder is one step; a folder has one path.
* `Notebooks`: `NewNames` are given, never Inbox; other programs add and do not remove;
  scans succeed; a note that is deleted for good does not come back.
* `Watcher`: the run leaves out the next-note keys on unsaved text (`NextNoteKeys`), with
  which `ChangesArePending` fails (section 5); when the vault is entered the notes could
  be read; the advisory poll of a Secure Vault, which only tells, is left out.

Symmetry is used only where no temporal property tells the values apart:
interchangeable sessions of one machine, object ids, notes, the two loose files, the
two names.  The runs with liveness (`session_*`, `export`, `watcher`) use none.

**Deadlock** is checked except in the runs of `VaultLock` and `StandardVault`, where
a session that ended never starts again and where texts run out.

**Fairness.**  `Session` assumes weak fairness of the timers, the delayed
selection, the idle tick and the workers: GTK's main loop calls every source that is
due, and threads run.  A key restarts its timer, so that a timer comes due only when
the user pauses; that it does is part of the assumption, and so is that the idle tick,
which every key postpones, finds an expired clock at some time.  Nothing is assumed
about the user: no dialog must be answered, no note saved by hand.  `Export` assumes
weak fairness of the worker's thread (`Work`, whether its disk accesses fail or not)
and of the main loop that receives its answer.  The other modules assume none: their
properties are safety.

In `Watcher` the system reports each change, a handler that runs ends (both weak
fairness), and the poll, the timer of the last key and the delayed selection get their
turn when they are due again and again (strong fairness, since a handler or a
selection in between disables them): a GTK source that is due is called once the handler
before it has returned.  That the poll meets a moment without a waiting selection means
that the user does not click without a pause.  A save that failed is not tried again by
itself, as in the code.

## 4. Proofs

All theorems hold for every value of the constants that meets the named
assumptions (`LockAssumption`, `StoreAssumption`, `ExportAssumption`,
`OpeningAssumption`, `NotebooksAssumption`, `VaultAssumption`, `SessionAssumption`,
`WatcherAssumption`); extra conditions are in the statement.

*VaultLock_proofs.*

* `TypeCorrect`, `ProcInvariant`: types, and that live processes of one host have
  distinct pids, the current boot, and start ticks from the past.
* `Exclusion`, `DropIsSafe`, `Refinement` (an atomic no-replace rename, no
  takeovers): at most one owner, only own locks removed, `SingleWriter`
  implemented.  `OneWriter` is not inductive: an owner's claim rests on the file.
  The invariant adds that whoever writes or is about to remove finds its own
  identity on disk, that nobody stands in the check-then-rename or takeover steps,
  and what a session has read back.  Two processes with one identity cannot both
  live (`ProcInvariant`), hence one writer.
* `OwnersStayAlive` (no pid twice in a boot; takeovers and the fallback allowed):
  the file of a live owner carries that owner's own start ticks, because a lock
  whose pid is ours was written by us (`Origin`).  So no probe proves it dead.
  Without the condition it fails: `HeldByThisProcess` ignores the start ticks, a
  stale file with our recycled pid is adopted unchanged, and the next session sees
  a process that started at another time.
* `NothingStranded` (every host can read `/proc`): with verdicts about our own
  file always `HeldByThisProcess`, nobody gives up while its file is in place.
  Where `/proc` is illegible the file of a loser stays.

*SecureStore_proofs.*  For any number of read-only sessions, which reconcile when they
unlock and seal the manifest they have read:

* `NothingDestroyed` (`ContentNeverDestroyed`): whatever a reader moves away or writes
  back, and whatever fails or crashes, the blob of a note that was not deleted is in
  `objects/` or in `orphans/`.  The only step that removes a blob is the end of a call of
  the owner, and what it removes is a recovery copy or a note that is being deleted.  So
  the invariant, `SharedInv`, speaks of every manifest a session may still work from
  (`Held`, the one on disk and each session's, however outdated): a blob that holds a
  note is the recovery copy of nothing in any of them (`Apart`).  It adds that readers
  only reseal (`ReadersReseal`) and that the owner's call keeps a blob to one use, even
  when a reader has moved it meanwhile (`CallApart`).  The theorem is all that readers
  leave: that the manifest names blobs that exist, and that no note drops out of it,
  they break (section 5).

With no read-only session (`Readers = {}`), which is what the lock is for:

* `NothingDangles`, `NothingDropped`: the invariant
  `StoreInv` says of the manifest on disk, of the session's, and of the one the
  current call will write that all name blobs that exist (`DiskSafe`, `MemSafe`,
  `CallSafe`), and that what reconciliation still has to move is not among them
  (`ScanSafe`).  It is needed because after a failed sync the disk may hold the
  manifest of a call that reported an error, while the session goes on from the
  older one.
* `RescueKept`: every note with rescued text has a recovery entry, on disk, in
  memory, and in the manifest being written, unless the note has been written.
* `Refinement`: the refinement mapping is the owner's manifest while unlocked and
  the one on disk otherwise; a call with an error takes effect at the next unlock.
* `ListingSucceeds` (and no conversions): listing never fails, so conversions are
  the only reason for the violation found.

*StandardVault_proofs.*  `TypeCorrect`; `TrashIsVisible` (`TrashHasRecord`),
`RescueKept` (`RescuedTextKept`), `NoPlaintextLeft` (`SealedStaysSealed`), and
`Refinement` (`NoteShelf` implemented, where a note on the way between the folder and
the trash counts as being where its file is).  A call is a list of steps with an
open end, so the invariants say which calls reach a step and on which note
(`TypeInv`), where the file of that note is before and after the record is written
(`PlaceInv`), that a call about to remove the recovery copy has written the note
(`RescueInv`), and what `encrypt_note` has done at each step, while no call that
writes or rescues plaintext concerns a sealed note (`SealInv`).

*Export_proofs.*  `TypeCorrect`; `Transaction` (`DestinationIsWhole`), `TrueAnswers`
(`AnswerIsTrue`), `NothingOldRemoved` (`KeepsWhatWasThere`).  The invariant says what
the staging directory holds at each step of the worker: exactly the notes no longer in
`todo`, each with a version between the snapshot's and the current one, the records of
the trash, and nothing there after an answer that promises nothing.  It is needed
because the rename makes the staging directory the destination at a moment when notes
are being saved.

*Opening_proofs.*  `TypeCorrect`; `OnlyCleanIsWritten` (`WriterIsClean`):
by `LookIsHonest` an opening that goes on to write has seen what was in the folder,
and whatever it saw has left it or made it read-only; `QuarantineReplacesNothing`
(`NothingReplaced`): a file moved to a quarantine folder is the only one of its name
there, because each quarantine has a folder of its own and two files of one name are
never in one place of the folder together.  These three, and `VaultKeepsKey`, hold for
any processes whatever they do at the same time.

`VaultKeepsKey` says that the key file of a Secure Vault wraps the key its store was
sealed with, so that some password opens it, even when several processes make vaults of
one folder or change the password at once (`Races`, `Overlaps`).  `vault.toml` comes
last in a creation, so what it promises was done in steps before it was there; `KeyInv`
says what each has left (`JobsFit`: before `seal` the key file is the new vault's, before
`register` so is the store).  What keeps another creation from doing these steps over is
`.senatorial-notes`: it is made first, nothing removes it, and a folder that has it is
never clean again (`SecureMarked`).  So a Secure Vault is made at most once in a folder,
while nobody works on one, has one open or changes its password (`SecureOnce`); and a
password change writes back the very key it read (`CopiesFit`).

`VaultStaysOpenable` (`PasswordOpensVault`) adds which password opens it, under the
condition that one change is under way at a time; `SaidInv` says what the change may rely
on at each step.  `VaultKeepsIdentity` (`IdentityKept`), under the condition that one
process makes the folder a vault at a time, rests on `IdInv`: only a new vault writes its
manifest, where none is (`OneMaker`), and a migration writes the upgrade of the
`vault.toml` that is there, even if another process has migrated it meanwhile
(`UpgradeOnce`).  Neither condition can be dropped: section 5 tells what TLC finds
without it.

*Notebooks_proofs.*  `TypeCorrect`; `NothingUnfiled` (`Filed`): the removal of
directories goes on to a directory only while nothing is in it, whatever other
programs do meanwhile, and a rename maps the notes with the notebooks;
`NotesListedWhereTheyAre` (`ListIsTrue`) and `OnlyRenames` (`OnlyRenamesMislead`),
case by case over the handlers.

*Watcher_proofs.*  `TypeCorrect` (with it, only an open note has something unsaved);
`NothingOverlooked` (`ChangesArePending`), when the next-note keys are not used on unsaved
text.  A poll that has drained the channel and looks is covered by what it still has to
do, one that looked away by the unsaved text, whose save adopts the tree; the invariant
says so for each place of the running handler.

*Session_proofs.*  For everything that the user may do: `TypeCorrect`, `LockedIsBlank`
(`ShutVaultIsBlank`) and `Refinement` (`ImplementsVaultAccess`).  Where the next-note keys
are not used (`session_next_note` shows what they do): `EditsStay` (`EditsAreHeld`).
Where the flag of the open note is not toggled, or neither a view is shown empty nor a
note's password changed or removed: `TextStaysOwn` (`TextIsOwn`); with both it fails,
which section 5 tells.  A handler is an operator from a world to a set of worlds, so the
invariant is a predicate on worlds and each operator has a lemma.  `Good` is the
conjunction of `Sound` (types; a locked vault leaves the window blank; what an open dialog or a
running worker relies on; documents are of the vault that is shown; `Fits`) and, where the
next-note keys are not used (`Minds`), of `Held` (text the document lacks on disk has its timer or its
dialog) and `Calm` (unsaved text only on the editor page, with a vault and no dialog).
`Fits` is what `TextStaysOwn` needs: every file has its own note's text (`Whole`), and the
widgets show the active note's whenever a save might take it from them (`Shows`).  A save
runs from timers and from handlers that know nothing of each other, and the text it
writes was put into the widgets long before, hence an invariant about all of them.
`Rest` is `Sound` with nothing unsaved.  A handler that replaces the document must start from
`Rest`: either `prepare_to_leave_active` has just succeeded, or the page, the dialog or the
trash view on which the button stands shows that nothing is unsaved (`NowRests`), which
is why `Calm` is in the invariant.  For the refinement each lemma also says what the
operator does to the `Room`, that is the vault, its keys and the password history: most handlers stay in
it (`Stays`), the others make one of four turns (`Turns`), and each turn is a step of
`VaultAccess` (`TurnsMap`).  A worker whose token is still the current one was started
after a password was typed in this very session (`Asking`), which makes its answer an
`Unlock`.

Only model-checked: the liveness of `Session`, `Export` and `Watcher` (`Autosaves`,
`IdleVaultLocks`, `ExportEnds`, `ChangesAreListed`).  Every invariant, every action property and every refinement that a passing run
checks is stated by a theorem.  Out of reach of the
prover and left to TLC: liveness under fairness, ENABLED, induction over data and
RECURSIVE operators.

## 5. What the code does not do, and what the checks do not promise

Each is what the model, read back to the code, shows.  Names in parentheses are the
configuration that replays it and the property that fails.

*Lock.*

* Two confirmed takeovers of one dead lock both succeed (`lock_two_takeovers`,
  `OneWriter`).
* Without `RENAME_NOREPLACE` two owners are possible (`NoReplace = FALSE`): one
  session's check and another's rename interleave.
* `Contended` after a lost race may carry `Free` or `HeldByThisProcess`, although
  a comment in `ui.rs` says it never does; the vault then opens read-only, and
  the lock is free.
* After a takeover, `Drop` of a session that was taken over compares and removes
  in two steps, and may remove the new owner's lock.

*Secure Vault store.*

* A read-only session's unlock reconciles, and moves away a blob whose manifest its
  owner has not written yet (`store_reader_reconciles`, `NoDanglingRecord`; against
  `ROADMAP_v0.3.md:95`).
* A read-only session that stores its view seals its older manifest over the owner's,
  whose new notes drop out of it (`store_reader_reseals`, `NoNoteDropped`).
* A crash between the blob and the manifest of a conversion leaves an entry of one
  kind with a blob of the other, and the notes cannot be listed any more
  (`store_conversion_crash`, `ScanSucceeds`; `ENCRYPTED_VAULT_FORMAT.md:359`).

*Standard Vault.*

* An edit of another program between the read, or the write, and the stamp is adopted
  by the stamp and overwritten later (`plain_silent_overwrite`, `NoSilentOverwrite`;
  `SPECIFICATION.md:392`).
* A save, or a move to the trash, in a later session deletes the recovery copy nobody
  looked at (`plain_rescued_discarded`, `RescuedVersionKept`; `SPECIFICATION.md:400`).
* An interrupted `encrypt_note` leaves plaintext in `recovery/`
  (`plain_second_plaintext`, `NoSecondPlaintext`; `vault.rs:822`).
* A save whose directory could not be synced replaced the file but kept the old
  stamp: it conflicts with itself.  After any conflict nothing refreshes the stamp,
  so the note can be neither saved nor left.
* When `restore_from_trash` cannot remove its record, the note is back but can
  never be moved to the trash again.

*Window.*

* The next-note keys drop unsaved text (`session_next_note`, `EditsAreHeld`).
* Locking the open note, decrypting it, or a scan that fails while a vault is entered,
  stops the idle clock of an unlocked Secure Vault, which then is not locked until
  something sensitive is touched (`session_idle_lock`, `IdleVaultLocks`;
  `SECURITY.md:77`).
* The button of the view that is shown, the change of the vault's password and the
  export cancel the timers and save nothing: the text waits for the next key.
* `clear_editor` empties the widgets and leaves the document active; a flag toggled
  then saves a blank text over the note (with `EmptyViews` in a run that checks
  `TextIsOwn`).
* The answer of a dialog is applied without asking whether its note is still the open
  one: changing or removing a password then makes a note active whose text is not in
  the editor, and a late note dialog replaces the page of a locked vault.
* A load or a creation that fails after the note before it was put away leaves an
  editor that takes text and belongs to no note.
* A vault that was left in its Trash view makes a new note each time it is opened.
* The flag action is not refused in a read-only vault, and makes the note
  unsavable and unleavable.
* Text is not saved when the focus is lost unless locking is on
  (`SPECIFICATION.md:381` says so).

*Export.*

* After an error or a cancellation the chosen folder is removed with all that
  other programs put there since it was looked at (`export_clobbers`,
  `ForeignFilesKept`; `vault_export.rs:288`).
* A crash leaves `.senatorial-export-*.tmp` with plaintext that nothing removes.  When
  the session changed, a failed cleanup is told to nobody.
* A cancellation after the last note is ignored.  Unsaved text is not saved first, so
  the copy has the text of the last save.

*Opening.*

* A folder that cannot be written is not opened read-only: the lock is taken first, and
  its error ends the opening (`opening_unwritable`, `UnwritableVaultOpens`;
  `README.md:23`).
* Two processes that make the same empty folder a vault at once both find no
  `vault.toml`, and the later one replaces the earlier one's: a window stays on a vault
  whose id is gone (`opening_two_creators`, `IdentityKept`).  A Secure Vault is never made
  twice (`VaultKeepsKey`).
* A read-only session may change the vault's password.  Of two overlapping changes the
  one that was reported first may be overwritten by the other, which then reports a
  failure or dies: the last password reported does not open the vault
  (`opening_two_changes`, `PasswordOpensVault`).  A write that fails after its
  rename has changed the password although the answer says that it was not.
* A crash between the steps of a new Secure Vault leaves `.senatorial-notes` without
  `vault.toml`: the folder is no longer accepted for a Secure Vault, and opening it
  makes it an ordinary one.
* Directories are made and the manifest migrated before the lock is held.
* Choosing a vault again that is open read-only does nothing.

*Notebooks.*

* After the rename of a notebook the open note and the unlocked copies keep their old
  paths, and every later save fails (`notebooks_rename`, `OpenNoteIsThere`; against
  the comments around `ui.rs:5196`).
* In a Secure Vault a notebook that is gone may come back without its parent, and a
  rename then merges two notebooks (`notebooks_merge`, `RenamesKeepApart`;
  `vault.rs:504`).
* A view stays on a notebook that was deleted, and a new note makes it again.  A note
  restored from the trash gets its notebook again in a Standard Vault, in a Secure
  Vault it goes to Inbox.  The sidebar is not rendered again after a restore, a new
  note or a move.

*Watcher.*

* A save, and every other call that writes, makes the tree it finds its baseline: a change
  that another program made to another note, reported but not listed yet, is then listed
  by no poll (`watcher_saves`, `ChangesSurviveSaves`).
* A poll drains the channel while something is unsaved and relies on the save that
  follows; the next-note keys drop the text instead, and the change has no report any more
  (`watcher_next_note`, `ChangesArePending`).
* A poll that stops because the open note has changed takes all other changes into its
  baseline unlisted; so does one during whose scan another program writes.
* A restore does not refresh the baseline: its own write makes the next poll scan.

*Not modelled, and why.*  `PROJECT.json` names each component.  The
cryptography is arithmetic over bytes; its promises appear as "the right password
opens, another does not".  Durability is per rename (a crash keeps every completed
rename), as the code's syncs intend.  Tags, the limit of the plain cache, emptying
the trash, attachments (which no caller writes), the first-run setup.  Search, sort,
formatting and the list of recent vaults are functions without steps.  Layout and
wording have no state.

## 6. Plan

1. Done: `VaultLock`, `SecureStore`, `StandardVault`, `Session`, `Export`, `Opening`,
   `Notebooks`, `Watcher`, with the proofs of section 4.
2. Proofs: the store's `Refinement` in the presence of readers that do not seal; the
   password of a vault under overlapping changes, with a property that tells which of
   them were said to have succeeded.
3. Operators: sorting, path validation, search, selection arithmetic, recent vaults,
   against reference definitions over bounded inputs.
