------------------------------ MODULE Session ------------------------------
(***************************************************************************)
(* The main window of SenatorialNotes (ui.rs) over the vaults it shows one *)
(* after the other: which document is in the editor, what of it is not on  *)
(* disk yet, which timers, dialogs and workers will answer later, and when *)
(* an unlocked Secure Vault is locked again.                               *)
(*                                                                         *)
(* GTK runs one handler at a time, so a handler is one action; what        *)
(* interleaves are the handlers: timers, the key-derivation worker, modal  *)
(* dialogs, the loss of focus, and the user.  Handlers call each other, so *)
(* each is an operator from a world, the state it finds, to the set of     *)
(* worlds it may leave, and an action becomes one of them.                 *)
(*                                                                         *)
(* A text is told apart only by whose it is: disk.text[n] is n while the   *)
(* file of n holds what was typed for n, None once a cleared editor was    *)
(* saved there.  Which rows a view shows, in which order, is left open: a  *)
(* fallback may land on any note of the vault, unless the view is empty.   *)
(***************************************************************************)
EXTENDS FiniteSets

CONSTANTS
    Notes, Vaults, None,
    Secure,          \* the vaults that are Secure Vaults
    Home,            \* the vault of each note
    Secret,          \* the notes that start with a password of their own
    Absent,          \* the notes that are still to be created
    LockOnSwitch,    \* encrypted_note_locking.on_note_switch
    AutoLock,        \* on_focus_loss or on_minimize, and after_minutes > 0
    EmptyViews,      \* a view may show no row although the vault has notes
    ReadsFail,       \* scanning a vault, or loading a note, may fail
    Commands         \* what the user of this instance does

AllCommands ==
    {"type", "save", "click", "next-note", "unlock-note", "view", "same-view", "new-note",
     "flag", "move", "rename", "trash", "restore", "delete", "lock-note", "encrypt",
     "change-password", "remove-encryption", "lock-vault", "switch-vault", "close"}

ASSUME SessionAssumption ==
    /\ Secure \subseteq Vaults /\ Secret \subseteq Notes /\ Absent \subseteq Notes
    /\ Home \in [Notes -> Vaults]
    /\ None \notin Notes \cup Vaults
    /\ {LockOnSwitch, AutoLock, EmptyViews, ReadsFail} \subseteq BOOLEAN
    /\ Commands \subseteq AllCommands

VARIABLES
    app,        \* AppState, the widgets and PendingSaves
    disk,       \* the files of the vaults
    dialog,     \* the modal dialog that waits for an answer
    workers,    \* the key derivations that run, with their session token
    log         \* history: edits not on disk, and whether a password was typed

vars == <<app, disk, dialog, workers, log>>

Parts == {"body", "title"}
Pages == {"welcome", "editor", "locked", "empty", "trash-detail", "vault-locked"}
NoDialog == [kind |-> "none", of |-> None]

Closed ==
    [vault |-> None, keys |-> FALSE, readOnly |-> FALSE, trashView |-> FALSE, selected |-> None,
     active |-> None, buffer |-> None, page |-> "welcome", dirty |-> {}, timers |-> {},
     failed |-> FALSE, held |-> {}, pick |-> None, clock |-> FALSE]

Init ==
    /\ app = Closed
    /\ disk = [text |-> [n \in Notes |-> n], secret |-> Secret,
               place |-> [n \in Notes |-> IF n \in Absent THEN "gone" ELSE "notes"]]
    /\ dialog = NoDialog
    /\ workers = {}
    /\ log = [unsaved |-> {}, asked |-> FALSE]

Now == [app |-> app, disk |-> disk, dialog |-> dialog, workers |-> workers, log |-> log]

\* The handler leaves one of the worlds ws.
Do(ws) ==
    \E w \in ws : /\ app' = w.app /\ disk' = w.disk /\ dialog' = w.dialog
                  /\ workers' = w.workers /\ log' = w.log

(***************************************************************************)
(* What handlers ask of a world.                                           *)
(***************************************************************************)
Shut(w) == w.app.vault \in Secure /\ ~w.app.keys
In(w, place) ==
    {n \in Notes : Home[n] = w.app.vault /\ w.disk.place[n] = place /\ ~Shut(w)}
Listed(w) == In(w, "notes")
IsSecret(w, n) == n \in w.disk.secret
ActiveSecret(w) == w.app.active # None /\ IsSecret(w, w.app.active)
\* current_note_id: the open note, or the selected one.
Current(w) == IF w.app.active # None THEN w.app.active ELSE w.app.selected

(***************************************************************************)
(* Saving.  An outcome says whether the call succeeded, and the world.     *)
(***************************************************************************)
Outcome(ok, w) == [ok |-> ok, w |-> w]
\* The caller goes on with F after success and returns after failure.
Then(outcomes, F(_)) == UNION {IF o.ok THEN F(o.w) ELSE {o.w} : o \in outcomes}

SaveParts(w, parts) ==
    LET n == w.app.active
        kept == IF w.app.buffer = n THEN parts ELSE parts \ {"body"}
    IN [w EXCEPT !.app.dirty = @ \ parts, !.app.failed = FALSE,
                 !.disk.text[n] = IF "body" \in parts THEN w.app.buffer ELSE @,
                 !.log.unsaved = @ \ ({n} \X kept)]

\* persist_active: nothing to save is success; a failed save keeps the flags.
Persist(w, commitTitle) ==
    LET parts == IF commitTitle THEN w.app.dirty ELSE w.app.dirty \ {"title"}
    IN IF parts = {} THEN {Outcome(TRUE, w)}
       ELSE IF w.app.active = None THEN {Outcome(FALSE, w)}
       ELSE {Outcome(FALSE, [w EXCEPT !.app.failed = TRUE])}
            \cup (IF w.app.readOnly THEN {} ELSE {Outcome(TRUE, SaveParts(w, parts))})

CancelTimers(w) == [w EXCEPT !.app.timers = {}]

\* Mutant of Stash: no early return without an open note.
StashUnchecked(w) == [w EXCEPT !.app.active = None, !.app.held = @ \cup {w.app.active}]

\* stash_or_lock_active: the open note goes to a cache, or is forgotten.
Stash(w) ==
    LET n == w.app.active
        keeps == IF IsSecret(w, n) THEN ~LockOnSwitch ELSE w.app.dirty = {}
    IN IF n = None THEN w
       ELSE [w EXCEPT !.app.active = None, !.app.held = IF keeps THEN @ \cup {n} ELSE @]

\* Mutant of PrepareToLeave: the result of the save is ignored.
LeaveUnsaved(w) == {Outcome(TRUE, Stash(o.w)) : o \in Persist(CancelTimers(w), TRUE)}

PrepareToLeave(w) ==
    {Outcome(o.ok, IF o.ok THEN Stash(o.w) ELSE o.w) : o \in Persist(CancelTimers(w), TRUE)}

(***************************************************************************)
(* Showing a document.                                                     *)
(***************************************************************************)
\* Mutant of Touch: only an encrypted note is sensitive.
TouchForNotes(w) == IF ActiveSecret(w) THEN [w EXCEPT !.app.clock = TRUE] ELSE w

\* touch_sensitive_activity: the idle clock runs while something is secret.
Touch(w) ==
    IF ActiveSecret(w) \/ (w.app.vault \in Secure /\ w.app.keys)
    THEN [w EXCEPT !.app.clock = TRUE] ELSE w

\* Mutant of Display: the buffer is not replaced.
DisplayFlagsOnly(w, n) ==
    Touch([w EXCEPT !.app.active = n, !.app.page = "editor", !.app.dirty = {},
                    !.app.held = @ \ {n}, !.app.failed = FALSE, !.app.clock = FALSE])

\* display_document: whatever was open before is dropped, its flags too.
Display(w, n) ==
    Touch([w EXCEPT !.app.active = n, !.app.buffer = w.disk.text[n], !.app.page = "editor",
                    !.app.dirty = {}, !.app.held = @ \ {n}, !.app.failed = FALSE,
                    !.app.clock = FALSE])

\* open_note_by_id: a locked note shows its placeholder, and the password
\* dialog if the user asked for this very note.
OpenNote(w, n, prompt) ==
    LET s == [w EXCEPT !.app.selected = n, !.app.trashView = FALSE]
        locked == [s EXCEPT !.app.page = "locked",
                            !.dialog = IF prompt THEN [kind |-> "note", of |-> n] ELSE @]
    IN IF n \notin Listed(w) THEN {w}
       ELSE IF n \in w.app.held THEN {Display(s, n)}
       ELSE IF IsSecret(w, n) THEN {locked}
       ELSE {Display(s, n)} \cup (IF ReadsFail THEN {s} ELSE {})

\* clear_editor: the flags and the widgets, but not the active document.
ClearEditor(w) == [w EXCEPT !.app.dirty = {}, !.app.buffer = None, !.app.page = "empty"]

ShowTrash(w) == [w EXCEPT !.app.page = "trash-detail"]

\* select_first_row, select_adjacent_after_removal: any row of the view.
FallBack(w) ==
    LET rows == In(w, IF w.app.trashView THEN "trash" ELSE "notes")
    IN (IF EmptyViews \/ rows = {} THEN {ClearEditor(w)} ELSE {})
       \cup (IF w.app.trashView THEN {ShowTrash(w) : n \in rows}
             ELSE UNION {OpenNote(w, n, FALSE) : n \in rows})

\* The other view with nothing open yet.
Emptied(w, trash) ==
    [Stash(w) EXCEPT !.app.trashView = trash, !.app.page = "empty",
                     !.app.selected = IF trash THEN None ELSE @]

\* switch_view, after its early returns: ok says whether the view changed.
EnterView(w, trash) ==
    LET switched(v) == FallBack(Emptied(v, trash)) \cup (IF ReadsFail THEN {Emptied(v, trash)} ELSE {})
    IN UNION {IF o.ok THEN {Outcome(TRUE, v) : v \in switched(o.w)} ELSE {o} : o \in Persist(w, TRUE)}

\* The new note n is on disk and selected.
WithNote(w, n) ==
    [w EXCEPT !.disk = [text |-> [@.text EXCEPT ![n] = n], secret |-> @.secret \ {n},
                        place |-> [@.place EXCEPT ![n] = "notes"]],
              !.app.selected = n, !.app.trashView = FALSE]

\* create_new_note: to its notebook first unless the view is there already.
CreateNote(w) ==
    LET created(v) ==
            {v} \cup UNION {OpenNote(WithNote(v, n), n, TRUE) :
                            n \in IF v.app.readOnly THEN {} ELSE In(v, "gone")}
        leave(v) == Then(PrepareToLeave(v), created)
    IN IF Shut(w) THEN {CancelTimers(w)}
       ELSE leave(w) \cup Then(EnterView(CancelTimers(w), FALSE), leave)

(***************************************************************************)
(* Vaults.                                                                 *)
(***************************************************************************)
\* Mutant of Outdated: the session is not bumped.
NotBumped(ws) == ws

Outdated(ws) == {[vault |-> k.vault, fresh |-> FALSE] : k \in ws}

\* clear_sensitive_documents, the timers, the pick and the flags, and
\* SessionRegistry.bump: a worker's answer is no longer wanted.
Forget(w) ==
    [w EXCEPT !.app = [Closed EXCEPT !.vault = w.app.vault, !.readOnly = w.app.readOnly,
                                     !.page = w.app.page, !.buffer = w.app.buffer],
              !.workers = Outdated(@), !.log.asked = FALSE]

\* Mutant of LockedScreen: the widgets keep their text.
LockedScreenOnly(w) == [w EXCEPT !.app.page = "vault-locked"]

LockedScreen(w) == [w EXCEPT !.app.page = "vault-locked", !.app.buffer = None]

\* enter_vault_workspace: the saved view, then the saved note, a new note when
\* no note was scanned (none is in the trash view), or the first row; the
\* clock starts last.
EnterWorkspace(w) ==
    LET restored(v) ==
            LET scanned == IF v.app.trashView THEN {} ELSE Listed(v)
            IN IF scanned = {} /\ ~v.app.readOnly THEN CreateNote(v)
               ELSE FallBack(v) \cup UNION {OpenNote(v, n, FALSE) : n \in scanned}
        views == {[w EXCEPT !.app.trashView = t] : t \in BOOLEAN}
    IN {Touch(v) : v \in UNION {restored(u) : u \in views}}
       \cup (IF ReadsFail THEN views ELSE {})

\* The new vault is taken over: locked, or with its notes.
ShowVault(w, v, readOnly) ==
    LET s == Forget([w EXCEPT !.app.vault = v, !.app.readOnly = readOnly])
    IN IF v \in Secure THEN {LockedScreen(s)} ELSE EnterWorkspace(s)

CommitVaultSwitch(w, v, readOnly) ==
    LET show(u) == ShowVault(u, v, readOnly)
    IN IF w.app.vault = None THEN show(w) ELSE Then(PrepareToLeave(w), show)

\* lock_vault: only an unlocked Secure Vault, and only once it is flushed.
LockVault(w) ==
    LET locked(v) == {LockedScreen(Forget(v))}
    IN IF w.app.vault \in Secure /\ w.app.keys THEN Then(Persist(w, TRUE), locked) ELSE {w}

\* The secret document in the editor is dropped and its page locked.
LockOpenNote(w) ==
    [w EXCEPT !.app.active = None, !.app.buffer = None, !.app.page = "locked",
              !.app.clock = FALSE]

\* lock_all_encrypted: the cache is drained; the clock stops with the open note.
LockAllEncrypted(w) ==
    LET drained(v) ==
            LET d == [v EXCEPT !.app.held = @ \ v.disk.secret]
            IN {IF ActiveSecret(v) THEN LockOpenNote(d) ELSE d}
    IN Then(Persist(w, TRUE), drained)

(***************************************************************************)
(* The user at the keyboard.  A modal dialog takes all input; timers, the  *)
(* worker and the loss of focus do not wait for it.                        *)
(***************************************************************************)
User(command) == command \in Commands /\ dialog = NoDialog /\ app.vault # None

\* Mutant of Type: the flag is set, no timer armed.
TypeUntimed(part) ==
    /\ User("type") /\ app.page = "editor" /\ app.active # None
    /\ Do({[Now EXCEPT !.log.unsaved = @ \cup {<<app.active, part>>},
                       !.app.dirty = @ \cup {part}, !.app.failed = FALSE]})

\* schedule_body_save and the title's changed signal; without an active note
\* both return, and the text stays in the widgets only.
Type(part) ==
    /\ User("type") /\ app.page = "editor" /\ ~app.readOnly /\ app.active # None
    /\ Do({Touch([Now EXCEPT !.log.unsaved = @ \cup {<<app.active, part>>},
                             !.app.dirty = @ \cup {part}, !.app.failed = FALSE,
                             !.app.timers = @ \cup {part},
                             !.app.buffer = IF part = "body" THEN app.active ELSE @])})

\* The two timers; the title's commits both parts.
TimerFires(part) ==
    /\ part \in app.timers
    /\ Do({o.w : o \in Persist([Now EXCEPT !.app.timers = @ \ {part}], part = "title")})

\* The save action; Enter, or leaving the title, which keeps the body's timer.
Save ==
    /\ User("save")
    /\ \E cancelled \in {Parts, {"title"}} :
         Do({o.w : o \in Persist([Now EXCEPT !.app.timers = @ \ cancelled], TRUE)})

\* request_selection: the newest row waits for one timeout.
Click(n) ==
    /\ User("click") /\ n \in In(Now, IF app.trashView THEN "trash" ELSE "notes")
    /\ Do({[Now EXCEPT !.app.pick = n]})

\* The timeout: dispatch_selection, which leaves the open note first.
Dispatch ==
    LET n == app.pick
        w == [Now EXCEPT !.app.pick = None]
        open(v) == OpenNote(v, n, TRUE)
    IN /\ n # None
       /\ Do(IF n \notin In(w, IF app.trashView THEN "trash" ELSE "notes") THEN {w}
             ELSE IF app.trashView THEN {ShowTrash(w)}
             ELSE IF n = app.active THEN {w}
             ELSE Then(PrepareToLeave(w), open))

\* select_adjacent_note: loads the next row as it is.
Adjacent(n) ==
    /\ User("next-note")
    /\ n \in In(Now, IF app.trashView THEN "trash" ELSE "notes") \ {app.selected}
    /\ Do(IF app.trashView THEN {ShowTrash(Now)} ELSE OpenNote(Now, n, TRUE))

\* The button of the locked page, and note_quick_lock of a locked note.
AskNotePassword ==
    /\ User("unlock-note") /\ app.page = "locked" /\ app.selected # None
    /\ Do(OpenNote(Now, app.selected, TRUE))

\* A sidebar button cancels the timers, whatever switch_view does then.
View(trash) ==
    LET switched == {o.w : o \in EnterView(CancelTimers(Now), trash)}
    IN \/ User("view") /\ ~Shut(Now) /\ (trash => ~app.trashView) /\ Do(switched)
       \/ User("same-view") /\ Do({CancelTimers(Now)})

NewNote == User("new-note") /\ Do(CreateNote(Now))

\* The note is no longer in the view: the list selects a neighbour.
MayLeaveView(w, n) == {w} \cup (IF n = w.app.selected THEN FallBack(w) ELSE {})

\* toggle_note_flag, and the tags of the open note: its metadata is part of
\* the body's save, and makes the body dirty first.
Flag(n) ==
    LET toggled(w) ==
            IF n = w.app.active
            THEN Then(Persist([w EXCEPT !.app.dirty = @ \cup {"body"}], FALSE),
                      LAMBDA v : MayLeaveView(v, n))
            ELSE IF IsSecret(w, n) \/ w.app.readOnly THEN {w}
            ELSE {w} \cup MayLeaveView(w, n)
    IN /\ User("flag") /\ n \in Listed(Now) /\ ~app.trashView
       /\ Do(Then(Persist(Now, TRUE), toggled))

\* move_note_by_id: the file moves, and every copy in memory is rebound.
Move(n) ==
    LET moved(w) == {w} \cup (IF w.app.readOnly THEN {} ELSE MayLeaveView(w, n))
    IN /\ User("move") /\ n \in Listed(Now) /\ ~app.trashView
       /\ Do(Then(Persist(Now, TRUE), moved))

\* rename_note_by_id opens the note and focuses its title.
Rename(n) ==
    LET open(w) == OpenNote(w, n, TRUE)
    IN /\ User("rename") /\ n \in Listed(Now) \ {app.active} /\ ~app.trashView
       /\ Do(Then(PrepareToLeave(Now), open))

\* The note is in the trash, and no document of it is kept.
Trashed(w, n) ==
    [w EXCEPT !.disk.place[n] = "trash", !.app.held = @ \ {n},
              !.app.active = IF @ = n THEN None ELSE @, !.app.selected = IF @ = n THEN None ELSE @]

\* move_note_to_trash_by_id, from the action that cancels the timers or the key.
MoveToTrash(n) ==
    LET gone(w) ==
            LET t == Trashed(w, n)
                cleared == IF n = w.app.active THEN ClearEditor(t) ELSE t
            IN {w} \cup (IF w.app.readOnly THEN {}
                         ELSE IF n = w.app.selected THEN FallBack(cleared) ELSE {cleared})
    IN /\ User("trash") /\ n \in Listed(Now) /\ ~app.trashView
       /\ \E w \in {Now, CancelTimers(Now)} : Do(Then(Persist(w, TRUE), gone))

RestoreNote(n) ==
    /\ User("restore") /\ app.trashView /\ n \in In(Now, "trash")
    /\ Do({Now} \cup (IF app.readOnly THEN {}
                      ELSE FallBack([Now EXCEPT !.disk.place[n] = "notes"])))

(***************************************************************************)
(* Modal dialogs.                                                          *)
(***************************************************************************)
\* encrypt_active_note, change_active_password, remove_active_encryption: each
\* flushes the open note before it asks.  (change-vault-password and the
\* export only cancel the timers, as View does for the view that is shown.)
Ask(w, kind) ==
    LET asked(v) ==
            {IF v.app.active # None /\ (kind = "encrypt") = ~ActiveSecret(v)
             THEN [v EXCEPT !.dialog = [kind |-> kind, of |-> v.app.active]] ELSE v}
    IN Then(Persist(w, TRUE), asked)

AskAbout(kind) == User(kind) /\ Do(Ask(CancelTimers(Now), kind))

\* encrypt_note_by_id of a row opens the note first.
EncryptRow(n) ==
    LET ask(w) == UNION {Ask(v, "encrypt") : v \in OpenNote(w, n, TRUE)}
    IN /\ User("encrypt") /\ n \in Listed(Now) \ (disk.secret \cup {app.active})
       /\ ~app.trashView
       /\ Do(Then(PrepareToLeave(Now), ask))

AskDelete(n) ==
    /\ User("delete") /\ app.trashView /\ n \in In(Now, "trash")
    /\ Do({[Now EXCEPT !.dialog = [kind |-> "delete", of |-> n]]})

\* begin_vault_unlock.
AskVaultPassword ==
    /\ dialog = NoDialog /\ Shut(Now)
    /\ ~\E k \in workers : k.fresh
    /\ Do({[Now EXCEPT !.dialog = [kind |-> "vault", of |-> app.vault]]})

\* A cancelled dialog changes nothing.
Cancel == dialog # NoDialog /\ Do({[Now EXCEPT !.dialog = NoDialog]})

\* The document as it is on disk becomes the open one; the widgets stay.
Reopened(w, n, secret) ==
    [w EXCEPT !.app.active = n, !.app.held = @ \ {n}, !.app.dirty = {},
              !.app.clock = secret, !.disk.secret = IF secret THEN @ ELSE @ \ {n}]

\* What a dialog does with the note it was opened for; note that none asks
\* whether that note is still the open one.
AnswerNote ==
    LET n == dialog.of
        w == [Now EXCEPT !.dialog = NoDialog]
        reachable == n \in Listed(w)
    IN \/ /\ dialog.kind = "note"
          /\ Do({[w EXCEPT !.app.page = "locked"]} \cup (IF reachable THEN {Display(w, n)} ELSE {}))
       \/ /\ dialog.kind = "encrypt"
          /\ Do({w} \cup (IF app.active = n /\ ~app.readOnly
                          THEN {[w EXCEPT !.disk.secret = @ \cup {n}, !.app.clock = TRUE]} ELSE {}))
       \/ /\ dialog.kind = "change-password"
          /\ Do({w} \cup (IF reachable /\ ~app.readOnly THEN {Reopened(w, n, TRUE)} ELSE {}))
       \/ /\ dialog.kind = "remove-encryption"
          /\ Do({w} \cup (IF reachable /\ ~app.readOnly THEN {Reopened(w, n, FALSE)} ELSE {}))
       \/ /\ dialog.kind = "delete"
          /\ Do({w} \cup (IF n \in In(w, "trash") /\ ~app.readOnly
                          THEN FallBack([w EXCEPT !.disk.place[n] = "gone"]) ELSE {}))

\* The password goes to a worker, which remembers the session it was asked in.
AnswerVault ==
    /\ dialog.kind = "vault"
    /\ Do({[Now EXCEPT !.dialog = NoDialog, !.log.asked = TRUE,
                       !.workers = @ \cup {[vault |-> dialog.of, fresh |-> TRUE]}]})

\* The worker is done: an answer of another session is dropped, a wrong
\* password or a store that cannot be opened only shows a message.
WorkerAnswers(k) ==
    LET w == [Now EXCEPT !.workers = @ \ {k}]
    IN /\ k \in workers
       /\ Do(IF ~k.fresh THEN {w}
             ELSE {[w EXCEPT !.app.page = "vault-locked"]}
                  \cup (IF k.vault = app.vault THEN EnterWorkspace([w EXCEPT !.app.keys = TRUE]) ELSE {}))

(***************************************************************************)
(* Locking, switching and closing.                                         *)
(***************************************************************************)
\* lock_active_note; the lock-note action locks every note, and cancels timers.
LockNote ==
    LET locked(w) == {IF ActiveSecret(w) THEN LockOpenNote(w) ELSE w}
    IN /\ User("lock-note")
       /\ \/ ActiveSecret(Now) /\ Do(Then(Persist(Now, TRUE), locked))
          \/ Do(LockAllEncrypted(CancelTimers(Now)))

\* The action is disabled unless a Secure Vault is unlocked.
LockVaultNow == User("lock-vault") /\ app.keys /\ Do(LockVault(CancelTimers(Now)))

\* The loss of focus, and the idle tick of an expired clock: the notes, then
\* the vault, whatever dialog is open.
LockAll == Do(UNION {LockVault(w) : w \in LockAllEncrypted(Now)})
FocusLost == AutoLock /\ app.vault # None /\ LockAll
IdleTick == AutoLock /\ app.clock /\ LockAll

SwitchVault(v, readOnly) ==
    /\ "switch-vault" \in Commands /\ dialog = NoDialog /\ v # app.vault
    /\ Do(CommitVaultSwitch(Now, v, readOnly))

\* The window is destroyed, and what it held with it.
Gone(w) == [w EXCEPT !.app = Closed, !.workers = {}, !.log.asked = FALSE]

\* The close request is refused while the note cannot be saved.
Close ==
    LET w == [CancelTimers(Now) EXCEPT !.app.pick = None]
        gone(v) == {Gone(v)}
    IN User("close") /\ Do(Then(Persist(w, TRUE), gone))

UserStep ==
    \/ \E part \in Parts : Type(part)
    \/ Save \/ NewNote \/ AskNotePassword \/ LockNote \/ LockVaultNow \/ Close
    \/ AskVaultPassword \/ AnswerVault \/ AnswerNote \/ Cancel
    \/ \E trash \in BOOLEAN : View(trash)
    \/ \E kind \in {"encrypt", "change-password", "remove-encryption"} : AskAbout(kind)
    \/ \E n \in Notes :
          \/ Click(n) \/ Adjacent(n) \/ Flag(n) \/ Move(n) \/ Rename(n) \/ EncryptRow(n)
          \/ MoveToTrash(n) \/ RestoreNote(n) \/ AskDelete(n)
    \/ \E v \in Vaults, readOnly \in BOOLEAN : SwitchVault(v, readOnly)

Next ==
    \/ UserStep
    \/ \E part \in Parts : TimerFires(part)
    \/ Dispatch
    \/ \E k \in workers : WorkerAnswers(k)
    \/ FocusLost \/ IdleTick

Spec == Init /\ [][Next]_vars

\* GTK's main loop fires what is due.  A keystroke restarts its timer and the
\* clock: that they come due means that the user pauses now and then.
Fairness ==
    /\ \A part \in Parts : WF_vars(TimerFires(part))
    /\ WF_vars(Dispatch)
    /\ WF_vars(IdleTick)
    /\ \A v \in Secure, fresh \in BOOLEAN : WF_vars(WorkerAnswers([vault |-> v, fresh |-> fresh]))

FairSpec == Spec /\ Fairness

(***************************************************************************)
(* Properties.                                                             *)
(***************************************************************************)
\* Every part of the window, the vaults' files and what is pending has its
\* type in every reachable state.
TypeOK ==
    /\ app \in [vault : Vaults \cup {None}, keys : BOOLEAN, readOnly : BOOLEAN,
                trashView : BOOLEAN, selected : Notes \cup {None}, active : Notes \cup {None},
                buffer : Notes \cup {None}, page : Pages, dirty : SUBSET Parts,
                timers : SUBSET Parts, failed : BOOLEAN, held : SUBSET Notes,
                pick : Notes \cup {None}, clock : BOOLEAN]
    /\ disk \in [text : [Notes -> Notes \cup {None}], secret : SUBSET Notes,
                 place : [Notes -> {"notes", "trash", "gone"}]]
    /\ dialog \in [kind : {"none", "note", "vault", "encrypt", "change-password",
                           "remove-encryption", "delete"},
                   of : Notes \cup Vaults \cup {None}]
    /\ workers \subseteq [vault : Secure, fresh : BOOLEAN]
    /\ log \in [unsaved : SUBSET (Notes \X Parts), asked : BOOLEAN]

\* Text typed into a note and not saved yet is still in the editor, belongs to
\* the open note, and is marked dirty: no handler lets it go, in no order of
\* timers, dialogs, selections, locks and failing saves.
EditsAreHeld ==
    \A e \in log.unsaved :
        /\ e[1] = app.active /\ e[2] \in app.dirty
        /\ e[2] = "body" => app.buffer = e[1]

\* A save never writes the contents of an emptied editor, or another note's,
\* over a note.
TextIsOwn == \A n \in Notes : disk.text[n] = n

\* While a Secure Vault is locked neither a document nor the editor holds any
\* of its text, and nothing is waiting to be saved.
ShutVaultIsBlank ==
    Shut(Now) => /\ app.active = None /\ app.held = {} /\ app.buffer = None
                 /\ app.dirty = {} /\ app.timers = {} /\ app.page # "editor"

\* Documents are in memory only while their vault is open, and a worker's
\* answer opens a vault only in the session in which its password was asked.
Access ==
    INSTANCE VaultAccess WITH
        vault <- app.vault,
        open <- app.vault # None /\ ~Shut(Now),
        asked <- log.asked,
        documents <- (app.held \cup {app.active}) \ {None}
ImplementsVaultAccess == Access!Spec

\* A changed text is saved by itself, or the user is told that it was not.
Autosaves == "body" \in app.dirty ~> ("body" \notin app.dirty \/ app.failed)

\* An unlocked Secure Vault is locked once the user is away, or the user is
\* told that its note could not be saved.
IdleVaultLocks ==
    (app.vault \in Secure /\ app.keys) ~> (~app.keys \/ app.failed)
============================================================================
