------------------------------ MODULE Watcher ------------------------------
(***************************************************************************)
(* How the window notices what other programs do to the notes of a         *)
(* Standard Vault (watcher.rs, install_watcher_poll in ui.rs).  The system *)
(* reports changes to a channel; a poll drains it and, while nothing is    *)
(* unsaved, compares the tree with a baseline: the tree as it was when the *)
(* program last wrote or rescanned.  If they differ, the notes are scanned *)
(* again.                                                                  *)
(*                                                                         *)
(* Handlers run one at a time on GTK's thread, but other programs write    *)
(* between their disk accesses: each access is a step.                     *)
(*                                                                         *)
(* What is remembered of a file (in the list, the baseline, the stamp) is  *)
(* only ever compared with the file: it is that there was none, that it is *)
(* as it is now, or that it was another one, by its path, time or          *)
(* contents.  Copies of notes in memory are Notebooks' matter.             *)
(***************************************************************************)
CONSTANTS
    Notes, None,
    NextNoteKeys    \* the next-note keys are used while something is unsaved

ASSUME WatcherAssumption ==
    /\ None \notin Notes
    /\ NextNoteKeys \in BOOLEAN

VARIABLES
    tree,       \* tree[n]: New, or Gone if n is not in Notes/
    raised,     \* a change that the system has not reported yet
    queued,     \* a report in the channel
    watching,   \* AppState.watcher is Some
    baseline,   \* AppState.watch_baseline
    listed,     \* listed[n]: the file that the summary of n was made from
    active,     \* the open note
    stamp,      \* the file that it was read from or written to
    dirty,      \* body_dirty or title_dirty
    trashView,
    pick,       \* the row that waits for its select_source
    told,       \* the status line says that something failed or changed
    pc          \* where the running handler is

files == <<tree, raised>>
editor == <<active, stamp, dirty>>
view == <<trashView, pick>>
vars == <<files, queued, watching, baseline, listed, editor, view, told, pc>>

Gone == "gone"
Old == "old"
New == "new"
Memories == {Gone, Old, New}

\* enter_vault_workspace has listed the notes and opened one of them, or none, or
\* it shows the saved Trash view; the baseline is taken last.
Init ==
    /\ trashView \in BOOLEAN
    /\ tree \in [Notes -> {Gone, New}]
    /\ baseline = [n \in Notes |-> Gone]
    /\ listed = IF trashView THEN baseline ELSE tree
    /\ raised = FALSE /\ queued = FALSE /\ watching = TRUE
    /\ \/ active = None /\ stamp = Gone
       \/ ~trashView /\ active \in Notes /\ tree[active] = New /\ stamp = New
    /\ dirty = FALSE /\ pick = None /\ told = FALSE /\ pc = "own"

\* What is remembered of n, once its file is another one
Aged(memory, n) == IF memory[n] = New THEN [memory EXCEPT ![n] = Old] ELSE memory
AgedStamp(n) == IF n = active /\ stamp = New THEN Old ELSE stamp

\* The file of n changes, and the system notices.
Write(n, file) ==
    /\ tree' = [tree EXCEPT ![n] = file]
    /\ raised' = TRUE
    /\ baseline' = Aged(baseline, n)

\* The same, unknown to the window
WriteUnseen(n, file) ==
    Write(n, file) /\ listed' = Aged(listed, n) /\ stamp' = AgedStamp(n)

Idle == pc = "idle"

-----------------------------------------------------------------------------
(* Other programs, and the watcher's thread *)

Edit(n) ==
    /\ WriteUnseen(n, New)
    /\ UNCHANGED <<queued, watching, active, dirty, view, told, pc>>

Remove(n) ==
    /\ tree[n] = New
    /\ WriteUnseen(n, Gone)
    /\ UNCHANGED <<queued, watching, active, dirty, view, told, pc>>

\* The callback of notify sends into the channel.
Report ==
    /\ raised /\ watching
    /\ raised' = FALSE /\ queued' = TRUE
    /\ UNCHANGED <<tree, watching, baseline, listed, editor, view, told, pc>>

-----------------------------------------------------------------------------
(* The poll *)

\* A waiting selection is left alone: its reports stay for the next tick.
MayPoll == Idle /\ watching /\ pick = None

Poll ==
    /\ MayPoll /\ queued
    /\ queued' = FALSE
    /\ pc' = IF dirty THEN "idle" ELSE "compare"
    /\ UNCHANGED <<files, watching, baseline, listed, editor, view, told>>

\* The channel holds an error, or is disconnected.
PollFails ==
    /\ MayPoll
    /\ watching' = FALSE /\ queued' = FALSE /\ told' = TRUE
    /\ UNCHANGED <<files, baseline, listed, editor, view, pc>>

\* note_tree_snapshot and the comparison
Compare ==
    /\ pc = "compare"
    /\ pc' = IF tree = baseline THEN "idle" ELSE IF active = None THEN "scan" ELSE "stamp"
    /\ UNCHANGED <<files, queued, watching, baseline, listed, editor, view, told>>

\* reload_after_external_change: an open note that is not as it was read, or not
\* there, is reported, and nothing is scanned.
CheckStamp ==
    /\ pc = "stamp"
    /\ pc' = IF stamp = tree[active] THEN "scan" ELSE "adopt"
    /\ told' = (told \/ stamp # tree[active])
    /\ UNCHANGED <<files, queued, watching, baseline, listed, editor, view>>

\* Mutant of Merged: what was not listed before is left out.
MergedKnown ==
    [n \in Notes |-> IF listed[n] = Gone THEN Gone ELSE IF n = active THEN listed[n] ELSE tree[n]]

\* refresh_after_watcher: the summary of the open note stays as it is edited.
Merged ==
    [n \in Notes |-> IF n = active /\ Gone \notin {listed[n], tree[n]} THEN listed[n] ELSE tree[n]]

Scan ==
    /\ pc = "scan"
    /\ pc' = "adopt"
    /\ \/ /\ listed' = IF trashView THEN listed ELSE Merged
          /\ UNCHANGED told
       \/ told' = TRUE /\ UNCHANGED listed
    /\ UNCHANGED <<files, queued, watching, baseline, editor, view>>

\* Mutant of AdoptedNow: after a poll the baseline stays.
AdoptedOwn == IF pc = "own" THEN tree ELSE baseline

\* refresh_watch_baseline
AdoptedNow == tree

\* The baseline becomes the tree as it is by now: the end of a poll that looked,
\* and of every handler that wrote ("own").
Adopt ==
    /\ pc \in {"adopt", "own"}
    /\ baseline' = AdoptedNow
    /\ pc' = "idle"
    /\ UNCHANGED <<files, queued, watching, listed, editor, view, told>>

-----------------------------------------------------------------------------
(* The program's own changes.  What leaves the open note saves it first: the *)
(* step Save, after which the handler finds nothing unsaved, or gives up.     *)

Type ==
    /\ Idle /\ active # None
    /\ dirty' = TRUE /\ told' = FALSE
    /\ UNCHANGED <<files, queued, watching, baseline, listed, active, stamp, view, pc>>

\* persist_active.  A failed save may have replaced the file all the same.  A
\* title that is still a draft stays dirty.
Save ==
    /\ Idle /\ dirty
    /\ \/ /\ stamp = tree[active]
          /\ Write(active, New) /\ stamp' = New /\ listed' = [listed EXCEPT ![active] = New]
          /\ dirty' \in BOOLEAN
          /\ told' = FALSE /\ pc' = "own"
       \/ /\ \/ stamp = tree[active] /\ WriteUnseen(active, New)
             \/ UNCHANGED <<files, baseline, listed, stamp>>
          /\ told' = TRUE /\ UNCHANGED <<dirty, pc>>
    /\ UNCHANGED <<queued, watching, active, view>>

\* open_note_by_id
Open(n) ==
    IF tree[n] # Gone THEN active' = n /\ stamp' = tree[n] ELSE active' = None /\ stamp' = Gone

\* request_selection: the newest row waits for one timeout.
Click(n) ==
    /\ Idle /\ ~trashView /\ listed[n] # Gone
    /\ pick' = n
    /\ UNCHANGED <<files, queued, watching, baseline, listed, editor, trashView, told, pc>>

\* dispatch_selection
Dispatch ==
    /\ Idle /\ pick # None
    /\ dirty => told
    /\ pick' = None
    /\ IF dirty \/ pick = active \/ listed[pick] = Gone
         THEN UNCHANGED <<active, stamp, told>>
         ELSE Open(pick) /\ told' = (told \/ tree[pick] = Gone)
    /\ UNCHANGED <<files, queued, watching, baseline, listed, dirty, trashView, pc>>

\* select_adjacent_note: whatever is unsaved is dropped.
NextNote(n) ==
    /\ dirty => NextNoteKeys
    /\ Idle /\ ~trashView /\ n # active /\ tree[n] # Gone /\ listed[n] # Gone
    /\ Open(n) /\ dirty' = FALSE
    /\ UNCHANGED <<files, queued, watching, baseline, listed, view, told, pc>>

\* create_new_note, move_note_to_trash_by_id, move_note_by_id: a note appears,
\* disappears, or goes on under another path; its summary follows.
Rearrange(n) ==
    /\ Idle /\ ~dirty /\ ~trashView
    /\ \/ /\ tree[n] = Gone /\ listed[n] = Gone
          /\ Write(n, New) /\ listed' = [listed EXCEPT ![n] = New]
          /\ active' = n /\ stamp' = New
       \/ /\ tree[n] = New /\ listed[n] # Gone
          /\ Write(n, Gone) /\ listed' = [listed EXCEPT ![n] = Gone]
          /\ IF n = active THEN active' = None /\ stamp' = Gone ELSE UNCHANGED <<active, stamp>>
       \/ /\ tree[n] = New /\ listed[n] # Gone
          /\ Write(n, New) /\ UNCHANGED <<listed, active, stamp>>
    /\ pc' = "own"
    /\ UNCHANGED <<queued, watching, dirty, view, told>>

\* encrypt_active_note, change_active_password, remove_active_encryption: the
\* file is written in another form, and the view is refreshed.
Convert ==
    /\ Idle /\ ~dirty /\ active # None /\ stamp = tree[active]
    /\ Write(active, New) /\ stamp' = New
    /\ listed' = tree'
    /\ pc' = "own"
    /\ UNCHANGED <<queued, watching, active, dirty, view, told>>

\* restore_note_by_id leaves list and baseline as they are.
Restore(n) ==
    /\ Idle /\ trashView /\ tree[n] = Gone
    /\ WriteUnseen(n, New)
    /\ UNCHANGED <<queued, watching, active, dirty, view, told, pc>>

Closed == active' = None /\ stamp' = Gone

\* switch_view: the open note is put away and the view refreshed, which may
\* fail; outside Trash some note that is listed is opened, or none.
SwitchView ==
    /\ Idle /\ ~dirty
    /\ trashView' = ~trashView
    /\ \/ /\ listed' = IF trashView' THEN listed ELSE tree
          /\ Closed \/ \E n \in Notes : ~trashView' /\ tree[n] # Gone /\ Open(n)
          /\ UNCHANGED told
       \/ /\ Closed
          /\ told' = TRUE /\ UNCHANGED listed
    /\ UNCHANGED <<files, queued, watching, baseline, dirty, pick, pc>>

-----------------------------------------------------------------------------

Elsewhere == Report \/ \E n \in Notes : Edit(n) \/ Remove(n)
Tick == Poll \/ PollFails \/ Compare \/ CheckStamp \/ Scan \/ Adopt
Window ==
    \/ Type \/ Save \/ Dispatch \/ Convert \/ SwitchView
    \/ \E n \in Notes : Click(n) \/ NextNote(n) \/ Rearrange(n) \/ Restore(n)

Next == Elsewhere \/ Tick \/ Window

Spec == Init /\ [][Next]_vars

\* The body's timer was armed by the last key; a failed save does not arm it.
Autosave == ~told /\ Save

\* The system reports, and a handler ends.  A timer that is due fires once the
\* handler before it has returned; that the poll meets a moment without a waiting
\* selection means that the user pauses now and then.
Fairness ==
    /\ WF_vars(Report)
    /\ WF_vars(Compare \/ CheckStamp \/ Scan \/ Adopt)
    /\ SF_vars(Poll) /\ SF_vars(Autosave) /\ SF_vars(Dispatch)

FairSpec == Spec /\ Fairness

-----------------------------------------------------------------------------
(* What must hold *)

\* Every variable has its type, and only an open note has something unsaved.
TypeOK ==
    /\ tree \in [Notes -> {Gone, New}] /\ raised \in BOOLEAN /\ queued \in BOOLEAN
    /\ watching \in BOOLEAN
    /\ baseline \in [Notes -> Memories] /\ listed \in [Notes -> Memories]
    /\ active \in Notes \cup {None} /\ stamp \in Memories
    /\ dirty \in BOOLEAN /\ (dirty => active # None)
    /\ trashView \in BOOLEAN /\ pick \in Notes \cup {None}
    /\ told \in BOOLEAN
    /\ pc \in {"idle", "compare", "stamp", "scan", "adopt", "own"}

\* While nothing runs and nothing is unsaved, a tree that is not the baseline has
\* a report on its way: no drained report, in a poll that looked away because of
\* an unsaved text, in one that stopped at the open note or in one that raced
\* with a save, leaves behind a change that no later poll would look for
\* (install_watcher_poll, refresh_watch_baseline).
ChangesArePending ==
    Idle /\ watching /\ ~dirty /\ tree # baseline => raised \/ queued

\* The list differs from the tree by a change of n that a poll would see.  (A note
\* whose removal was taken in unlisted, and that comes back, may vanish again.)
Unseen(n) ==
    tree[n] \notin {listed[n], baseline[n]} /\ (baseline[n] = Gone => listed[n] = Gone)

\* A change that another program made to a note that is not open, while nothing
\* runs, is listed at last, unless the user is told that something failed or that
\* the open note changed, looks at Trash, opens the note, or writes to the vault:
\* then the baseline takes in what has not been listed (install_watcher_poll,
\* reload_after_external_change, refresh_after_watcher).
ChangesAreListed ==
    \A n \in Notes :
        (Idle /\ Unseen(n) /\ (raised \/ queued) /\ watching)
            ~> (tree[n] = listed[n] \/ told \/ trashView \/ active = n \/ pc = "own")

\* A change that another program made while nothing runs is listed or told, even
\* if the user goes on writing.  It does not hold: the save that follows makes the
\* changed tree its baseline (persist_active, refresh_watch_baseline).
ChangesSurviveSaves ==
    \A n \in Notes :
        (Idle /\ Unseen(n) /\ (raised \/ queued) /\ watching)
            ~> (tree[n] = listed[n] \/ told \/ trashView \/ active = n)
=============================================================================
