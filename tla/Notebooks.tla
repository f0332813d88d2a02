----------------------------- MODULE Notebooks -----------------------------
(***************************************************************************)
(* The notebook tree of one open vault and what the window remembers of    *)
(* it: the paths of the notes it lists, of the open note and of the notes  *)
(* it keeps a copy of, the notebook it shows, the rows of the sidebar.     *)
(* Notebooks are made, renamed and deleted, notes are made, moved, trashed *)
(* and restored (vault.rs, vault_encrypted.rs and the handlers of ui.rs).  *)
(*                                                                         *)
(* In a Standard Vault notebooks are directories, which other programs     *)
(* fill too; in a Secure Vault they are a list of paths in its manifest.   *)
(* A path is the sequence of its names.  File names hold the id of their   *)
(* note, so that two notes never collide and the path of a note is that of *)
(* its notebook here.                                                      *)
(***************************************************************************)
EXTENDS Naturals, FiniteSets, SequencesExt

CONSTANTS
    Notes,
    Secret,         \* the notes with a password of their own
    Files,          \* files of other programs, in a Standard Vault
    Names,          \* names of notebooks
    NewNames,       \* bound: the names that are given to them
    Inbox,          \* the name of the notebook that is always there
    NoNote,
    MaxDepth,       \* bound: names in a path
    MaxNotebooks    \* bound: notebooks at a time

ASSUME NotebooksAssumption ==
    /\ Secret \subseteq Notes
    /\ Notes \cap Files = {}
    /\ Inbox \in Names /\ NewNames \subseteq Names
    /\ NoNote \notin Notes

VARIABLES
    sealed,         \* a Secure Vault
    notebooks,      \* the paths of the notebooks
    home,           \* home[x]: where the note or file is, Nowhere if not in the tree
    origin,         \* origin[n]: the path in its trash record, if there is one
    removing,       \* the notebook whose directories are being removed
    view,           \* the view shown
    listed,         \* listed[n]: the path in the summary of n
    sidebar,        \* the notebooks in the sidebar
    active,         \* the open note
    path,           \* the path that the open document has
    dirty,          \* it has unsaved text
    copies          \* copies[n]: the path in the copy kept of n (plain_cache,
                    \* unlocked_cache), Nowhere without one

tree == <<notebooks, home, origin>>
lists == <<view, listed, sidebar>>
editor == <<active, path, dirty, copies>>
vars == <<sealed, tree, removing, lists, editor>>

Nowhere == <<>>
Things == Notes \cup Files
Default == <<Inbox>>
Places == Seq(Names)

AllNotes == [mode |-> "all", at |-> Nowhere]
Trash == [mode |-> "trash", at |-> Nowhere]
Notebook(p) == [mode |-> "notebook", at |-> p]
Views == [mode : {"all", "trash", "notebook"}, at : Places]

Init ==
    /\ sealed \in BOOLEAN
    /\ notebooks = {Default}
    /\ home = [x \in Things |-> Nowhere]
    /\ origin = [n \in Notes |-> Nowhere]
    /\ removing = Nowhere
    /\ view = AllNotes /\ sidebar = {}
    /\ listed = [n \in Notes |-> Nowhere]
    /\ active = NoNote /\ path = Nowhere /\ dirty = FALSE
    /\ copies = [n \in Notes |-> Nowhere]

-----------------------------------------------------------------------------
(* The tree *)

InTree(x) == home[x] # Nowhere
Unborn(n) == home[n] = Nowhere /\ origin[n] = Nowhere

\* The note or file is somewhere in the subtree of p.
Inside(p, x) == IsPrefix(p, home[x])

\* create_notebook: directories are made with their parents, in the list of a
\* Secure Vault stands the path alone.
With(p) ==
    notebooks \cup IF sealed THEN {p} ELSE {SubSeq(p, 1, i) : i \in 1 .. Len(p)}

\* Bound: so many notebooks at a time.
Room == Cardinality(notebooks') <= MaxNotebooks

\* The path of q after the notebook p has become new.
Renamed(p, new, q) == IF IsPrefix(p, q) THEN new \o SubSeq(q, Len(p) + 1, Len(q)) ELSE q

\* Mutant of Scan: files of other programs are listed as notes.
ScanEverything(h) == h

\* the paths that scan_notes gives the notes
Scan(h) == [n \in Notes |-> h[n]]

\* Mutant of Rescan: the list is left as it was.
RescanLater(h) == listed

\* refresh_after_watcher, refresh_current_view: in Trash only the trash is read.
Rescan(h) == IF view = Trash THEN listed ELSE Scan(h)

\* render_notebook_list
Rows(tree_) == tree_ \ {Default}

-----------------------------------------------------------------------------
(* The editor *)

\* view_includes
Shows(v, list, n) == list[n] # Nowhere /\ (v = AllNotes \/ v = Notebook(list[n]))
Shown(n) == Shows(view, listed, n)

\* persist_active: a document whose file is not at its path cannot be saved.
CanSave == dirty => path = home[active]

\* stash_or_lock_active, with the setting that keeps unlocked notes
Stash == IF active = NoNote THEN copies ELSE [copies EXCEPT ![active] = path]

\* Mutant of Usable: a copy is shown without a look at its file.
UsableUnseen(n, kept) == kept[n] # Nowhere

\* A copy of an encrypted note is shown as it is, another only if the stamp of
\* the file at its path still matches (open_note_by_id).
Usable(n, kept) == kept[n] # Nowhere /\ (n \in Secret \/ kept[n] = home'[n])

\* where open_note_by_id finds the note: a copy, or the file that is listed
Found(n, kept, list) ==
    IF Usable(n, kept) THEN kept[n] ELSE IF list[n] = home'[n] THEN list[n] ELSE Nowhere

Display(n, kept, list) ==
    /\ Found(n, kept, list) # Nowhere
    /\ active' = n /\ path' = Found(n, kept, list) /\ dirty' = FALSE
    /\ copies' = [kept EXCEPT ![n] = Nowhere]

\* No document: the row is that of a locked note, or there is none.
Blank(kept) == active' = NoNote /\ path' = Nowhere /\ dirty' = FALSE /\ copies' = kept

\* select_first_row, select_adjacent_after_removal: a note of the view is opened,
\* but no password is asked for.
Locked(n, kept) == n \in Secret /\ kept[n] = Nowhere
Select(v, list, kept) ==
    \/ \E n \in Notes : Shows(v, list, n) /\ ~Locked(n, kept) /\ Display(n, kept, list)
    \/ /\ \A n \in Notes : Shows(v, list, n) => Locked(n, kept)
       /\ Blank(kept)
    \/ /\ \E n \in Notes : Shows(v, list, n) /\ Locked(n, kept)
       /\ Blank(kept)

\* The handlers run one after the other on one thread.
Free == removing = Nowhere

\* Another note of the list is opened; the password may be refused.
OpenNote(n) ==
    /\ Free /\ Shown(n) /\ n # active /\ CanSave
    /\ UNCHANGED <<sealed, tree, removing, lists>>
    /\ \/ Display(n, Stash, listed)
       \/ Locked(n, Stash) /\ Blank(Stash)
       \/ Found(n, Stash, listed) = Nowhere /\ Blank([Stash EXCEPT ![n] = Nowhere])

\* switch_view
SwitchView(v) ==
    /\ Free /\ v # view /\ CanSave
    /\ view' = v
    /\ UNCHANGED <<sealed, tree, removing, sidebar>>
    /\ IF v = Trash
         THEN UNCHANGED listed /\ Blank(Stash)
         ELSE listed' = Scan(home) /\ Select(v, listed', Stash)

Type ==
    /\ Free /\ active # NoNote /\ ~dirty
    /\ dirty' = TRUE
    /\ UNCHANGED <<sealed, tree, removing, lists, active, path, copies>>

\* The autosave, and update_active_summary after it
Save ==
    /\ Free /\ dirty /\ CanSave
    /\ dirty' = FALSE
    /\ listed' = [listed EXCEPT ![active] = path]
    /\ UNCHANGED <<sealed, tree, removing, view, sidebar, active, path, copies>>

-----------------------------------------------------------------------------
(* Notes *)

\* target_notebook_for_new_note: the notebook shown, whether it is there or not
Target == IF view.mode = "notebook" THEN view.at ELSE Default

\* create_new_note: in the view of the target, in a notebook that is made again
\* if need be.  The note that the change of view opens first is passed over.
NewNote(n) ==
    /\ Free /\ Unborn(n) /\ CanSave
    /\ notebooks' = With(Target) /\ Room
    /\ view' = Notebook(Target)
    /\ UNCHANGED <<sealed, origin, removing, sidebar>>
    /\ \/ /\ home' = [home EXCEPT ![n] = Target]
          /\ listed' = [IF view = view' THEN listed ELSE Scan(home) EXCEPT ![n] = Target]
          /\ active' = n /\ path' = Target /\ dirty' = FALSE /\ copies' = Stash
       \/ /\ UNCHANGED home
          /\ listed' = IF view = view' THEN listed ELSE Scan(home)
          /\ Blank(Stash)

\* the copies after n was moved to p
Moved(n, p) == IF copies[n] = Nowhere THEN copies ELSE [copies EXCEPT ![n] = p]

\* Vault::move_note, from where the list says that the note is
CanMove(n, p) == p \in notebooks /\ p # home[n] /\ listed[n] = home[n]

\* move_note_by_id.  A note that leaves the view takes the selection to the next.
MoveNote(n, p) ==
    /\ Free /\ Shown(n) /\ CanSave /\ CanMove(n, p)
    /\ home' = [home EXCEPT ![n] = p]
    /\ listed' = [listed EXCEPT ![n] = p]
    /\ UNCHANGED <<sealed, notebooks, origin, removing, view, sidebar>>
    /\ \/ /\ dirty' = FALSE /\ copies' = Moved(n, p)
          /\ active' = active /\ path' = IF active = n THEN p ELSE path
       \/ /\ active = n /\ ~Shows(view, listed', n)
          /\ \E m \in Notes :
               Shows(view, listed', m) /\ ~Locked(m, copies) /\ Display(m, Moved(n, p), listed')

\* move_note_to_trash_by_id
TrashNote(n) ==
    /\ Free /\ Shown(n) /\ CanSave
    /\ listed[n] = home[n]
    /\ origin' = [origin EXCEPT ![n] = home[n]]
    /\ home' = [home EXCEPT ![n] = Nowhere]
    /\ listed' = [listed EXCEPT ![n] = Nowhere]
    /\ UNCHANGED <<sealed, notebooks, removing, view, sidebar>>
    /\ LET kept == [copies EXCEPT ![n] = Nowhere] IN
       IF active = n
         THEN Select(view, listed', kept)
         ELSE dirty' = FALSE /\ copies' = kept /\ UNCHANGED <<active, path>>

\* Where restore_from_trash puts the note: a Standard Vault makes the notebook
\* again, a Secure Vault falls back on the default one.
Refuge(n) == IF sealed /\ origin[n] \notin notebooks THEN Default ELSE origin[n]

RestoreNote(n) ==
    /\ Free /\ view = Trash /\ origin[n] # Nowhere
    /\ notebooks' = With(Refuge(n)) /\ Room
    /\ home' = [home EXCEPT ![n] = Refuge(n)]
    /\ origin' = [origin EXCEPT ![n] = Nowhere]
    /\ UNCHANGED <<sealed, removing, lists, editor>>

-----------------------------------------------------------------------------
(* Notebooks *)

\* present_new_notebook_dialog
NewNotebook(parent, name) ==
    LET p == Append(parent, name) IN
    /\ Free /\ parent \in sidebar \cup {Nowhere} /\ Len(p) <= MaxDepth
    /\ notebooks' = With(p) /\ Room
    /\ sidebar' = Rows(notebooks')
    /\ UNCHANGED <<sealed, home, origin, removing, view, listed, editor>>

\* Vault::rename_notebook: the directory must be there; the list is not asked
\* whether the old path is in it, nor whether there are paths below the new one.
CanRename(p, new) ==
    /\ new # p /\ new # Default /\ new \notin notebooks
    /\ sealed \/ p \in notebooks

\* present_rename_notebook_dialog.  The open document and the copies keep their
\* paths.
RenameNotebook(p, name) ==
    LET new == Append(Front(p), name) IN
    /\ Free /\ p \in sidebar /\ CanSave /\ CanRename(p, new)
    /\ notebooks' = {Renamed(p, new, q) : q \in notebooks}
    /\ home' = [x \in Things |-> Renamed(p, new, home[x])]
    /\ sidebar' = Rows(notebooks')
    /\ view' = IF view = Notebook(p) THEN Notebook(new) ELSE view
    /\ listed' = Rescan(home')
    /\ dirty' = FALSE
    /\ UNCHANGED <<sealed, origin, removing, active, path, copies>>

\* Vault::delete_notebook: nothing but directories is in the subtree.
CanDelete(p) == \A x \in Things : ~Inside(p, x)

\* EncryptedStore::delete_notebook: the list without the subtree
Without(p) == {q \in notebooks : ~IsPrefix(p, q)}

\* confirm_delete_notebook.  The list loses the
\* paths at once, directories are removed one by one.
DeleteNotebook(p) ==
    /\ Free /\ p \in sidebar /\ CanDelete(p)
    /\ \/ /\ sealed
          /\ notebooks' = Without(p)
          /\ sidebar' = Rows(notebooks')
          /\ UNCHANGED removing
       \/ /\ ~sealed /\ p \in notebooks
          /\ removing' = p
          /\ UNCHANGED <<notebooks, sidebar>>
    /\ UNCHANGED <<sealed, home, origin, view, listed, editor>>

\* Mutant of Empty: what the look at the subtree found is still true.
EmptyAsSeen(d) == TRUE

\* remove_dir refuses a directory that is not empty.
Empty(d) ==
    /\ \A x \in Things : home[x] # d
    /\ \A q \in notebooks : ~IsStrictPrefix(d, q)

\* remove_empty_subtree: an error leaves what has not been removed yet, and the
\* sidebar as it was.
RemoveDirectory(d) ==
    /\ removing # Nowhere /\ d \in notebooks /\ IsPrefix(removing, d)
    /\ \/ /\ Empty(d)
          /\ notebooks' = notebooks \ {d}
          /\ removing' = IF d = removing THEN Nowhere ELSE removing
          /\ sidebar' = IF d = removing THEN Rows(notebooks') ELSE sidebar
       \/ /\ removing' = Nowhere
          /\ UNCHANGED <<notebooks, sidebar>>
    /\ UNCHANGED <<sealed, home, origin, view, listed, editor>>

-----------------------------------------------------------------------------
(* Other programs, in the directories of a Standard Vault.  Bound: they add. *)

PutFile(f, p) ==
    /\ ~sealed /\ ~InTree(f) /\ p \in notebooks
    /\ home' = [home EXCEPT ![f] = p]
    /\ UNCHANGED <<sealed, notebooks, origin, removing, lists, editor>>

MakeDirectory(parent, name) ==
    LET p == Append(parent, name) IN
    /\ ~sealed /\ parent \in notebooks \cup {Nowhere} /\ Len(p) <= MaxDepth
    /\ notebooks' = notebooks \cup {p} /\ Room
    /\ UNCHANGED <<sealed, home, origin, removing, lists, editor>>

Browse ==
    \/ \E n \in Notes : OpenNote(n)
    \/ \E v \in {AllNotes, Trash} \cup {Notebook(p) : p \in sidebar \cup {Default}} : SwitchView(v)
    \/ Type \/ Save

File ==
    \/ \E n \in Notes : NewNote(n) \/ TrashNote(n) \/ RestoreNote(n)
    \/ \E n \in Notes, p \in notebooks : MoveNote(n, p)

Arrange ==
    \/ \E p \in sidebar \cup {Nowhere}, name \in NewNames : NewNotebook(p, name)
    \/ \E p \in sidebar, name \in NewNames : RenameNotebook(p, name)
    \/ \E p \in sidebar : DeleteNotebook(p)
    \/ \E d \in notebooks : RemoveDirectory(d)

Elsewhere ==
    \/ \E f \in Files, p \in notebooks : PutFile(f, p)
    \/ \E p \in notebooks \cup {Nowhere}, name \in NewNames : MakeDirectory(p, name)

Next == Browse \/ File \/ Arrange \/ Elsewhere

Spec == Init /\ [][Next]_vars

-----------------------------------------------------------------------------
(* What must hold *)

\* Every variable has its type.
TypeOK ==
    /\ sealed \in BOOLEAN
    /\ notebooks \subseteq Places
    /\ home \in [Things -> Places]
    /\ origin \in [Notes -> Places]
    /\ removing \in Places
    /\ view \in Views
    /\ listed \in [Notes -> Places]
    /\ sidebar \subseteq Places
    /\ active \in Notes \cup {NoNote}
    /\ path \in Places
    /\ dirty \in BOOLEAN
    /\ copies \in [Notes -> Places]

\* Whatever is in the tree is in a notebook that is there: no notebook, listed or
\* a directory, is renamed or removed from around its notes or from around a file
\* of another program, also when that is put there during the removal
\* (delete_notebook, remove_empty_subtree, rename_notebook, restore_from_trash).
Filed == \A x \in Things : InTree(x) => home[x] \in notebooks

\* Outside Trash, every note is listed where it is, whatever was renamed, moved,
\* trashed or restored meanwhile (refresh_after_watcher, switch_view).
ListIsTrue == view # Trash => listed = Scan(home)

\* The document of n, or the copy that it will be shown from unseen, has a path
\* where its note is not.
Misled(n) ==
    \/ active = n /\ path # home[n]
    \/ n \in Secret /\ copies[n] \notin {Nowhere, home[n]}

\* Only the rename of a notebook leaves a document with a path where its note is
\* not: whatever else is done, before or after a rename, a document that is open,
\* is opened or is kept is at the path of its note (move_note_by_id,
\* move_note_to_trash_by_id, open_note_by_id, restore_from_trash).
OnlyRenamesMislead ==
    [][\A n \in Notes : Misled(n)' /\ ~Misled(n) =>
         \E p \in sidebar, name \in Names : RenameNotebook(p, name)]_vars

\* The open document has the path where its note is, so that it can be saved.
\* It does not hold: the rename of a notebook corrects the list, but not the open
\* document, nor the unlocked copies (present_rename_notebook_dialog).
OpenNoteIsThere == active # NoNote => path = home[active]

\* A rename changes names, it does not put notes together that were in different
\* notebooks.  It does not hold in a Secure Vault: a notebook whose parent was
\* deleted comes back without it when a note is made in its view, and another
\* notebook can then take the name of the parent.
RenamesKeepApart ==
    [][\A p \in sidebar, name \in Names :
         RenameNotebook(p, name) =>
            \A x, y \in Things : InTree(x) /\ InTree(y) /\ home[x] # home[y] => home'[x] # home'[y]]_vars
=============================================================================
