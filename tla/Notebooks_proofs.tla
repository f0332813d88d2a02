-------------------------- MODULE Notebooks_proofs --------------------------
(***************************************************************************)
(* Proofs about Notebooks: the types, that everything in the tree is in a  *)
(* notebook that is there, that the list of notes is true, and that only   *)
(* the rename of a notebook leaves documents with a wrong path.            *)
(***************************************************************************)
EXTENDS Notebooks, TLAPS

-----------------------------------------------------------------------------
(* Paths *)

LEMMA AppendedPath ==
    ASSUME NEW p \in Places, NEW name \in Names
    PROVE  Append(p, name) \in Places /\ Append(p, name) # Nowhere
<1>1. Append(p, name) \in Seq(Names) /\ Len(Append(p, name)) = Len(p) + 1 /\ Len(p) \in Nat
  BY DEF Places
<1>2. Len(<<>>) = 0
  OBVIOUS
<1> QED
  BY <1>1, <1>2 DEF Places, Nowhere

LEMMA NewPath ==
    ASSUME NEW p \in Places, NEW name \in Names
    PROVE  Append(Front(p), name) \in Places /\ Append(Front(p), name) # Nowhere
<1>1. Front(p) \in Places
  <2>1. CASE Len(p) = 0
    BY <2>1 DEF Front, Places
  <2>2. CASE Len(p) # 0
    BY <2>2 DEF Front, Places
  <2> QED
    BY <2>1, <2>2
<1> QED
  BY <1>1, AppendedPath

LEMMA RenamedPath ==
    ASSUME NEW p \in Places, NEW new \in Places, new # Nowhere, NEW q \in Places
    PROVE  /\ Renamed(p, new, q) \in Places
           /\ q # Nowhere => Renamed(p, new, q) # Nowhere
           /\ q = Nowhere /\ p # Nowhere => Renamed(p, new, q) = Nowhere
<1>1. CASE IsPrefix(p, q)
  <2>1. Len(p) <= Len(q) /\ Len(p) \in Nat /\ Len(q) \in Nat
    BY <1>1 DEF IsPrefix, Places
  <2>2. SubSeq(q, Len(p) + 1, Len(q)) \in Seq(Names)
    BY <2>1 DEF Places
  <2>3. new \o SubSeq(q, Len(p) + 1, Len(q)) \in Seq(Names) /\ Len(new \o SubSeq(q, Len(p) + 1, Len(q))) > 0
    BY <2>2 DEF Places, Nowhere
  <2>4. q = Nowhere => p = Nowhere
    BY <2>1 DEF Places, Nowhere
  <2> QED
    BY <1>1, <2>3, <2>4 DEF Renamed, Places, Nowhere
<1>2. CASE ~IsPrefix(p, q)
  BY <1>2 DEF Renamed
<1> QED
  BY <1>1, <1>2

LEMMA WithPath ==
    ASSUME TypeOK, NEW p \in Places, p # Nowhere, Nowhere \notin notebooks
    PROVE  /\ With(p) \subseteq Places
           /\ notebooks \subseteq With(p)
           /\ p \in With(p)
           /\ Nowhere \notin With(p)
<1>1. Len(p) \in Nat /\ Len(p) >= 1 /\ SubSeq(p, 1, Len(p)) = p
  BY DEF Places, Nowhere
<1>2. \A i \in 1 .. Len(p) : SubSeq(p, 1, i) \in Places /\ SubSeq(p, 1, i) # Nowhere
  <2> SUFFICES ASSUME NEW i \in 1 .. Len(p)
               PROVE  SubSeq(p, 1, i) \in Places /\ SubSeq(p, 1, i) # Nowhere
    OBVIOUS
  <2>1. SubSeq(p, 1, i) \in Seq(Names) /\ Len(SubSeq(p, 1, i)) = i
    BY <1>1 DEF Places
  <2> QED
    BY <1>1, <2>1 DEF Places, Nowhere
<1>3. p \in {SubSeq(p, 1, i) : i \in 1 .. Len(p)}
  <2>1. Len(p) \in 1 .. Len(p)
    BY <1>1
  <2>2. \E i \in 1 .. Len(p) : p = SubSeq(p, 1, i)
    BY <1>1, <2>1, Zenon
  <2> QED
    BY <2>2, Zenon
<1>4. notebooks \subseteq Places
  BY DEF TypeOK
<1>5. CASE sealed
  <2>1. With(p) = notebooks \cup {p}
    BY <1>5 DEF With
  <2> QED
    BY <1>4, <2>1
<1>6. CASE ~sealed
  <2>1. With(p) = notebooks \cup {SubSeq(p, 1, i) : i \in 1 .. Len(p)}
    BY <1>6 DEF With
  <2> QED
    BY <1>2, <1>3, <1>4, <2>1
<1> QED
  BY <1>5, <1>6

LEMMA DefaultPath == Default \in Places /\ Default # Nowhere
<1>1. <<Inbox>> \in Seq(Names)
  BY NotebooksAssumption
<1>2. Len(<<Inbox>>) = 1 /\ Len(<<>>) = 0
  OBVIOUS
<1>3. Default # Nowhere
  BY <1>2, Zenon DEF Default, Nowhere
<1> QED
  BY <1>1, <1>3, Zenon DEF Default, Places

-----------------------------------------------------------------------------
(* Types *)

\* The types, and: the empty path is not that of a notebook.
Typed ==
    /\ TypeOK
    /\ Nowhere \notin notebooks /\ Nowhere \notin sidebar
    /\ view.mode = "notebook" => view.at # Nowhere

LEMMA NowherePath == Nowhere \in Places
  BY DEF Nowhere, Places

LEMMA TypedInit == Init => Typed
<1> SUFFICES ASSUME Init PROVE Typed
  OBVIOUS
<1>1. view \in Views /\ view.mode = "all"
  BY NowherePath DEF Init, Views, AllNotes
<1>2. home \in [Things -> Places] /\ origin \in [Notes -> Places]
  BY NowherePath DEF Init
<1>3. listed \in [Notes -> Places] /\ copies \in [Notes -> Places]
  BY NowherePath DEF Init
<1>4. notebooks \subseteq Places /\ Nowhere \notin notebooks /\ sidebar = {}
  BY DefaultPath DEF Init
<1> QED
  BY <1>1, <1>2, <1>3, <1>4, NowherePath DEF Init, Typed, TypeOK

\* What the handlers show in the editor has the types of the editor.
EditorTyped ==
    /\ active' \in Notes \cup {NoNote}
    /\ path' \in Places
    /\ dirty' \in BOOLEAN
    /\ copies' \in [Notes -> Places]

LEMMA DisplayTyped ==
    ASSUME NEW n \in Notes, NEW kept \in [Notes -> Places], NEW list \in [Notes -> Places],
           Display(n, kept, list)
    PROVE  EditorTyped
  BY NowherePath DEF Display, Found, EditorTyped

LEMMA BlankTyped ==
    ASSUME NEW kept \in [Notes -> Places], Blank(kept)
    PROVE  EditorTyped
  BY NowherePath DEF Blank, EditorTyped

LEMMA SelectTyped ==
    ASSUME NEW v, NEW kept \in [Notes -> Places], NEW list \in [Notes -> Places],
           Select(v, list, kept)
    PROVE  EditorTyped
  BY DisplayTyped, BlankTyped DEF Select

LEMMA StashTyped == TypeOK => Stash \in [Notes -> Places]
  BY DEF TypeOK, Stash

LEMMA ScanTyped == ASSUME NEW h \in [Things -> Places] PROVE Scan(h) \in [Notes -> Places]
  BY DEF Scan, Things

LEMMA RowsTyped ==
    ASSUME NEW nb \in SUBSET Places, Nowhere \notin nb
    PROVE  Rows(nb) \subseteq Places /\ Nowhere \notin Rows(nb)
  BY DEF Rows

LEMMA NotebookTyped ==
    ASSUME NEW p \in Places
    PROVE  Notebook(p) \in Views /\ Notebook(p).mode = "notebook" /\ Notebook(p).at = p
  BY DEF Notebook, Views

LEMMA TargetTyped == Typed => Target \in Places /\ Target # Nowhere
  BY DefaultPath DEF Typed, TypeOK, Target, Views

LEMMA TypedStep == Typed /\ [Next]_vars => Typed'
<1> SUFFICES ASSUME Typed, [Next]_vars PROVE Typed'
  OBVIOUS
<1> USE DEF tree, lists, editor
<1>0. TypeOK
  BY DEF Typed
<1>a. ASSUME EditorTyped, TypeOK, UNCHANGED <<sealed, tree, removing, lists>> PROVE Typed'
  BY <1>0, <1>a DEF Typed, TypeOK, EditorTyped
<1>1. ASSUME NEW n \in Notes, OpenNote(n) PROVE Typed'
  <2>1. Stash \in [Notes -> Places] /\ [Stash EXCEPT ![n] = Nowhere] \in [Notes -> Places]
        /\ listed \in [Notes -> Places]
    BY <1>0, StashTyped, NowherePath DEF TypeOK
  <2> QED
    BY <1>0, <1>1, <1>a, <2>1, DisplayTyped, BlankTyped DEF OpenNote
<1>2. ASSUME NEW v \in {AllNotes, Trash} \cup {Notebook(p) : p \in sidebar \cup {Default}}, SwitchView(v)
      PROVE  Typed'
  <2>1. v \in Views /\ (v.mode = "notebook" => v.at # Nowhere)
    <3>1. CASE v \in {AllNotes, Trash}
      BY <3>1, NowherePath DEF AllNotes, Trash, Views
    <3>2. ASSUME NEW p \in sidebar \cup {Default}, v = Notebook(p)
          PROVE  v \in Views /\ v.at # Nowhere
      BY <1>0, <3>2, DefaultPath, NotebookTyped DEF Typed, TypeOK
    <3> QED
      BY <3>1, <3>2
  <2>2. EditorTyped /\ listed' \in [Notes -> Places]
    <3>1. Stash \in [Notes -> Places] /\ Scan(home) \in [Notes -> Places]
      BY <1>0, StashTyped, ScanTyped DEF TypeOK
    <3>2. CASE v = Trash
      BY <1>0, <1>2, <3>1, <3>2, BlankTyped DEF SwitchView, TypeOK
    <3>3. CASE v # Trash
      BY <1>2, <3>1, <3>3, SelectTyped DEF SwitchView
    <3> QED
      BY <3>2, <3>3
  <2> QED
    BY <1>2, <2>1, <2>2 DEF SwitchView, Typed, TypeOK, EditorTyped
<1>3. CASE Type
  BY <1>3 DEF Type, Typed, TypeOK
<1>4. CASE Save
  BY <1>4 DEF Save, Typed, TypeOK
<1>5. ASSUME NEW n \in Notes, NewNote(n) PROVE Typed'
  <2>1. Target \in Places /\ Target # Nowhere
    BY TargetTyped
  <2>2. notebooks' \subseteq Places /\ Nowhere \notin notebooks'
    BY <1>0, <1>5, <2>1, WithPath DEF NewNote, Typed
  <2>3. view' \in Views /\ view'.at # Nowhere
    BY <1>5, <2>1, NotebookTyped DEF NewNote
  <2>4. Stash \in [Notes -> Places] /\ Scan(home) \in [Notes -> Places]
    BY <1>0, StashTyped, ScanTyped DEF TypeOK
  <2>5. EditorTyped
    BY <1>5, <2>1, <2>4, BlankTyped DEF NewNote, EditorTyped
  <2>6. listed' \in [Notes -> Places] /\ home' \in [Things -> Places]
    BY <1>0, <1>5, <2>1, <2>4 DEF NewNote, TypeOK
  <2> QED
    BY <1>5, <2>2, <2>3, <2>5, <2>6 DEF NewNote, Typed, TypeOK, EditorTyped
<1>6. ASSUME NEW n \in Notes, NEW p \in notebooks, MoveNote(n, p) PROVE Typed'
  <2>1. p \in Places
    BY <1>0 DEF TypeOK
  <2>2. Moved(n, p) \in [Notes -> Places]
    BY <1>0, <2>1 DEF Moved, TypeOK
  <2>3. listed' \in [Notes -> Places] /\ home' \in [Things -> Places]
    BY <1>0, <1>6, <2>1 DEF MoveNote, CanMove, TypeOK
  <2>4. EditorTyped
    BY <1>0, <1>6, <2>1, <2>2, <2>3, DisplayTyped DEF MoveNote, CanMove, EditorTyped, TypeOK
  <2> QED
    BY <1>6, <2>3, <2>4 DEF MoveNote, CanMove, Typed, TypeOK, EditorTyped
<1>7. ASSUME NEW n \in Notes, TrashNote(n) PROVE Typed'
  <2>1. /\ listed' \in [Notes -> Places] /\ home' \in [Things -> Places]
        /\ origin' \in [Notes -> Places]
    BY <1>0, <1>7, NowherePath DEF TrashNote, TypeOK, Things
  <2>2. [copies EXCEPT ![n] = Nowhere] \in [Notes -> Places]
    BY <1>0, NowherePath DEF TypeOK
  <2>3. EditorTyped
    BY <1>0, <1>7, <2>1, <2>2, SelectTyped DEF TrashNote, EditorTyped, TypeOK
  <2> QED
    BY <1>7, <2>1, <2>3 DEF TrashNote, Typed, TypeOK, EditorTyped
<1>8. ASSUME NEW n \in Notes, RestoreNote(n) PROVE Typed'
  <2>1. Refuge(n) \in Places /\ Refuge(n) # Nowhere
    BY <1>0, <1>8, DefaultPath DEF RestoreNote, Refuge, TypeOK
  <2>2. notebooks' \subseteq Places /\ Nowhere \notin notebooks'
    BY <1>0, <1>8, <2>1, WithPath DEF RestoreNote, Typed
  <2>3. home' \in [Things -> Places] /\ origin' \in [Notes -> Places]
    BY <1>0, <1>8, <2>1, NowherePath DEF RestoreNote, TypeOK
  <2> QED
    BY <1>8, <2>2, <2>3 DEF RestoreNote, Typed, TypeOK
<1>9. ASSUME NEW p \in sidebar \cup {Nowhere}, NEW name \in Names, NewNotebook(p, name) PROVE Typed'
  <2>1. Append(p, name) \in Places /\ Append(p, name) # Nowhere
    BY <1>0, AppendedPath, NowherePath DEF TypeOK
  <2>2. notebooks' \subseteq Places /\ Nowhere \notin notebooks'
    BY <1>0, <1>9, <2>1, WithPath DEF NewNotebook, Typed
  <2> QED
    BY <1>9, <2>2, RowsTyped DEF NewNotebook, Typed, TypeOK
<1>10. ASSUME NEW p \in sidebar, NEW name \in Names, RenameNotebook(p, name) PROVE Typed'
  <2> DEFINE new == Append(Front(p), name)
  <2>1. p \in Places /\ new \in Places /\ new # Nowhere
    BY <1>0, NewPath DEF TypeOK
  <2> HIDE DEF new
  <2>2. \A q \in Places : /\ Renamed(p, new, q) \in Places
                          /\ q # Nowhere => Renamed(p, new, q) # Nowhere
    BY <2>1, RenamedPath
  <2>3. /\ notebooks' = {Renamed(p, new, q) : q \in notebooks}
        /\ home' = [x \in Things |-> Renamed(p, new, home[x])]
        /\ view' = IF view = Notebook(p) THEN Notebook(new) ELSE view
    BY <1>10 DEF RenameNotebook, CanRename, new
  <2>4. notebooks' \subseteq Places /\ Nowhere \notin notebooks'
    BY <1>0, <2>2, <2>3 DEF Typed, TypeOK
  <2>5. home' \in [Things -> Places]
    BY <1>0, <2>2, <2>3 DEF TypeOK
  <2>6. listed' \in [Notes -> Places]
    BY <1>0, <1>10, <2>5, ScanTyped DEF RenameNotebook, CanRename, Rescan, TypeOK
  <2>7. view' \in Views /\ (view'.mode = "notebook" => view'.at # Nowhere)
    BY <1>0, <2>1, <2>3, NotebookTyped DEF Typed, TypeOK
  <2> QED
    BY <1>10, <2>4, <2>5, <2>6, <2>7, RowsTyped DEF RenameNotebook, CanRename, Typed, TypeOK
<1>11. ASSUME NEW p \in sidebar, DeleteNotebook(p) PROVE Typed'
  <2>1. p \in Places /\ notebooks' \subseteq notebooks
    BY <1>0, <1>11 DEF TypeOK, DeleteNotebook, CanDelete, Without
  <2>2. sidebar' \subseteq Places /\ Nowhere \notin sidebar'
    BY <1>0, <1>11, <2>1, RowsTyped DEF DeleteNotebook, CanDelete, Without, Typed, TypeOK
  <2> QED
    BY <1>11, <2>1, <2>2 DEF DeleteNotebook, CanDelete, Without, Typed, TypeOK
<1>12. ASSUME NEW d \in notebooks, RemoveDirectory(d) PROVE Typed'
  <2>1. notebooks' \subseteq notebooks /\ removing' \in Places
    BY <1>0, <1>12, NowherePath DEF TypeOK, RemoveDirectory
  <2>2. sidebar' \subseteq Places /\ Nowhere \notin sidebar'
    BY <1>0, <1>12, <2>1, RowsTyped DEF RemoveDirectory, Typed, TypeOK
  <2> QED
    BY <1>12, <2>1, <2>2 DEF RemoveDirectory, Typed, TypeOK
<1>13. ASSUME NEW f \in Files, NEW p \in notebooks, PutFile(f, p) PROVE Typed'
  BY <1>13 DEF PutFile, Typed, TypeOK
<1>14. ASSUME NEW p \in notebooks \cup {Nowhere}, NEW name \in Names, MakeDirectory(p, name)
       PROVE  Typed'
  <2>1. Append(p, name) \in Places /\ Append(p, name) # Nowhere
    BY <1>0, AppendedPath, NowherePath DEF TypeOK
  <2> QED
    BY <1>14, <2>1 DEF MakeDirectory, Typed, TypeOK
<1>15. CASE UNCHANGED vars
  BY <1>15 DEF vars, Typed, TypeOK
<1> QED
  BY NotebooksAssumption, <1>1, <1>2, <1>3, <1>4, <1>5, <1>6, <1>7, <1>8, <1>9, <1>10, <1>11, <1>12, <1>13, <1>14, <1>15
     DEF Next, Browse, File, Arrange, Elsewhere

\* Every variable keeps its type (TypeOK).
THEOREM TypeCorrect == Spec => []TypeOK
<1>1. Typed => TypeOK
  BY DEF Typed
<1> QED
  BY <1>1, TypedInit, TypedStep, PTL DEF Spec

-----------------------------------------------------------------------------
(* What is in the tree is in a notebook *)

LEMMA FiledStep == Typed /\ Filed /\ [Next]_vars => Filed'
<1> SUFFICES ASSUME Typed, Filed, [Next]_vars PROVE Filed'
  OBVIOUS
<1> USE DEF tree, lists, editor
<1>0. TypeOK /\ \A n \in Notes : n \in Things
  BY DEF Typed, Things
<1>1. ASSUME notebooks \subseteq notebooks',
             \A x \in Things : home'[x] = home[x] \/ home'[x] \in notebooks' \cup {Nowhere}
      PROVE  Filed'
  BY <1>1 DEF Filed, InTree
<1>2. CASE UNCHANGED <<notebooks, home>>
  BY <1>1, <1>2
<1>3. CASE Browse \/ UNCHANGED vars
  BY <1>2, <1>3 DEF Browse, OpenNote, SwitchView, Type, Save, vars
<1>4. ASSUME NEW n \in Notes, NewNote(n) PROVE Filed'
  <2>1. notebooks \subseteq notebooks' /\ Target \in notebooks'
    BY <1>0, <1>4, TargetTyped, WithPath DEF NewNote, Typed
  <2> QED
    BY <1>0, <1>1, <1>4, <2>1 DEF NewNote, TypeOK
<1>5. ASSUME NEW n \in Notes, NEW p \in notebooks, MoveNote(n, p) PROVE Filed'
  BY <1>0, <1>1, <1>5 DEF MoveNote, CanMove, TypeOK
<1>6. ASSUME NEW n \in Notes, TrashNote(n) PROVE Filed'
  BY <1>0, <1>1, <1>6 DEF TrashNote, TypeOK
<1>7. ASSUME NEW n \in Notes, RestoreNote(n) PROVE Filed'
  <2>1. Refuge(n) \in Places /\ Refuge(n) # Nowhere
    BY <1>0, <1>7, DefaultPath DEF RestoreNote, Refuge, TypeOK
  <2>2. notebooks \subseteq notebooks' /\ Refuge(n) \in notebooks'
    BY <1>0, <1>7, <2>1, WithPath DEF RestoreNote, Typed
  <2> QED
    BY <1>0, <1>1, <1>7, <2>2 DEF RestoreNote, TypeOK
<1>8. ASSUME NEW p \in sidebar \cup {Nowhere}, NEW name \in Names, NewNotebook(p, name) PROVE Filed'
  BY <1>1, <1>8 DEF NewNotebook, With
<1>9. ASSUME NEW p \in sidebar, NEW name \in Names, RenameNotebook(p, name) PROVE Filed'
  <2> DEFINE new == Append(Front(p), name)
  <2>1. p \in Places /\ new \in Places /\ new # Nowhere /\ p # Nowhere
    BY <1>0, NewPath DEF Typed, TypeOK
  <2>2. /\ notebooks' = {Renamed(p, new, q) : q \in notebooks}
        /\ home' = [x \in Things |-> Renamed(p, new, home[x])]
    BY <1>9 DEF RenameNotebook, CanRename
  <2> HIDE DEF new
  <2>3. ASSUME NEW x \in Things, home'[x] # Nowhere PROVE home'[x] \in notebooks'
    <3>1. home[x] \in Places /\ home'[x] = Renamed(p, new, home[x])
      BY <1>0, <2>2 DEF TypeOK
    <3>2. home[x] # Nowhere
      BY <2>1, <2>3, <3>1, RenamedPath
    <3> QED
      BY <2>2, <3>1, <3>2 DEF Filed, InTree
  <2> QED
    BY <2>3 DEF Filed, InTree
<1>10. ASSUME NEW p \in sidebar, DeleteNotebook(p) PROVE Filed'
  <2>1. CASE UNCHANGED notebooks
    BY <1>2, <1>10, <2>1 DEF DeleteNotebook, CanDelete, Without
  <2>2. CASE notebooks' = {q \in notebooks : ~IsPrefix(p, q)}
    BY <1>10, <2>2 DEF DeleteNotebook, CanDelete, Without, Inside, Filed, InTree
  <2> QED
    BY <1>10, <2>1, <2>2 DEF DeleteNotebook, CanDelete, Without
<1>11. ASSUME NEW d \in notebooks, RemoveDirectory(d) PROVE Filed'
  BY <1>11 DEF RemoveDirectory, Empty, Filed, InTree
<1>12. ASSUME NEW f \in Files, NEW p \in notebooks, PutFile(f, p) PROVE Filed'
  BY <1>0, <1>1, <1>12 DEF PutFile, TypeOK, Things
<1>13. ASSUME NEW p \in notebooks \cup {Nowhere}, NEW name \in Names, MakeDirectory(p, name)
       PROVE  Filed'
  BY <1>1, <1>13 DEF MakeDirectory
<1> QED
  BY NotebooksAssumption, <1>3, <1>4, <1>5, <1>6, <1>7, <1>8, <1>9, <1>10, <1>11, <1>12, <1>13
     DEF Next, File, Arrange, Elsewhere

LEMMA FiledInit == Init => Filed
  BY DEF Init, Filed, InTree

\* Notes and files stay in notebooks that are there, whatever is renamed, removed
\* or restored, and whatever is put into a directory that is being removed (Filed).
THEOREM NothingUnfiled == Spec => []Filed
  BY TypedInit, TypedStep, FiledInit, FiledStep, PTL DEF Spec

-----------------------------------------------------------------------------
(* The list of notes *)

LEMMA ListStep == Typed /\ ListIsTrue /\ [Next]_vars => ListIsTrue'
<1> SUFFICES ASSUME Typed, ListIsTrue, [Next]_vars, view' # Trash PROVE listed' = Scan(home')
  BY DEF ListIsTrue, Scan
<1> USE DEF tree, lists, editor
<1>0. TypeOK /\ \A n \in Notes : n \in Things
  BY DEF Typed, Things
<1>1. CASE UNCHANGED <<view, listed>> /\ \A n \in Notes : home'[n] = home[n]
  BY <1>1 DEF ListIsTrue, Scan
<1>2. ASSUME NEW n \in Notes, NEW p \in Places, view # Trash,
             listed' = [listed EXCEPT ![n] = p], home' = [home EXCEPT ![n] = p]
      PROVE  listed' = Scan(home')
  BY <1>0, <1>2 DEF ListIsTrue, Scan, TypeOK
<1>3. ASSUME NEW n \in Notes, OpenNote(n) PROVE listed' = Scan(home')
  BY <1>1, <1>3 DEF OpenNote
<1>4. ASSUME NEW v, SwitchView(v) PROVE listed' = Scan(home')
  BY <1>4 DEF SwitchView
<1>5. CASE Type \/ UNCHANGED vars
  BY <1>1, <1>5 DEF Type, vars
<1>6. CASE Save
  BY <1>0, <1>6 DEF Save, CanSave, ListIsTrue, Scan, TypeOK
<1>7. ASSUME NEW n \in Notes, NewNote(n) PROVE listed' = Scan(home')
  <2>1. view = view' => view # Trash
    BY <1>7 DEF NewNote, Notebook, Trash
  <2>2. (IF view = view' THEN listed ELSE Scan(home)) = Scan(home)
    BY <2>1 DEF ListIsTrue
  <2>3. CASE UNCHANGED home /\ listed' = Scan(home)
    BY <2>3
  <2>4. CASE home' = [home EXCEPT ![n] = Target] /\ listed' = [Scan(home) EXCEPT ![n] = Target]
    BY <1>0, <2>4 DEF Scan, TypeOK
  <2> QED
    BY <1>7, <2>2, <2>3, <2>4 DEF NewNote
<1>8. ASSUME NEW n \in Notes, NEW p \in notebooks, MoveNote(n, p) PROVE listed' = Scan(home')
  BY <1>0, <1>2, <1>8 DEF MoveNote, CanMove, TypeOK
<1>9. ASSUME NEW n \in Notes, TrashNote(n) PROVE listed' = Scan(home')
  BY <1>0, <1>2, <1>9, NowherePath DEF TrashNote
<1>10. ASSUME NEW n \in Notes, RestoreNote(n) PROVE listed' = Scan(home')
  BY <1>10 DEF RestoreNote
<1>11. ASSUME NEW p \in sidebar, NEW name \in Names, RenameNotebook(p, name) PROVE listed' = Scan(home')
  <2>1. view # Trash
    BY <1>11 DEF RenameNotebook, CanRename, Notebook, Trash
  <2> QED
    BY <1>11, <2>1 DEF RenameNotebook, CanRename, Rescan
<1>12. ASSUME NEW p, NEW name, NewNotebook(p, name) \/ DeleteNotebook(p) \/ RemoveDirectory(p)
              \/ MakeDirectory(p, name)
       PROVE  listed' = Scan(home')
  BY <1>1, <1>12 DEF NewNotebook, DeleteNotebook, CanDelete, Without, RemoveDirectory, MakeDirectory
<1>13. ASSUME NEW f \in Files, NEW p \in notebooks, PutFile(f, p) PROVE listed' = Scan(home')
  BY <1>0, <1>1, <1>13, NotebooksAssumption DEF PutFile, TypeOK, Things
<1> QED
  BY NotebooksAssumption, <1>3, <1>4, <1>5, <1>6, <1>7, <1>8, <1>9, <1>10, <1>11, <1>12, <1>13
     DEF Next, Browse, File, Arrange, Elsewhere

LEMMA ListInit == Init => ListIsTrue
  BY DEF Init, ListIsTrue, Scan, Things

\* Outside Trash every note is listed where it is (ListIsTrue).
THEOREM NotesListedWhereTheyAre == Spec => []ListIsTrue
  BY TypedInit, TypedStep, ListInit, ListStep, PTL DEF Spec

-----------------------------------------------------------------------------
(* Documents with a wrong path *)

\* A note is in the tree or in Trash; an open document has a path.
Placed ==
    /\ \A n \in Notes : origin[n] = Nowhere \/ home[n] = Nowhere
    /\ active # NoNote => path # Nowhere

LEMMA PlacedInit == Init => Placed
  BY DEF Init, Placed

LEMMA PlacedStep == Typed /\ Placed /\ [Next]_vars => Placed'
<1> SUFFICES ASSUME Typed, Placed, [Next]_vars PROVE Placed'
  OBVIOUS
<1> USE DEF tree, lists, editor
<1>0. TypeOK /\ \A n \in Notes : n \in Things
  BY DEF Typed, Things
<1>1. ASSUME UNCHANGED <<active, path>> \/ (active' # NoNote => path' # Nowhere),
             UNCHANGED origin /\ \A n \in Notes : home'[n] = home[n]
      PROVE  Placed'
  BY <1>1 DEF Placed
<1>2. ASSUME NEW n, NEW kept, NEW list, Display(n, kept, list) \/ Blank(kept)
      PROVE  active' # NoNote => path' # Nowhere
  BY <1>2 DEF Display, Blank
<1>3. ASSUME NEW v, NEW kept, NEW list, Select(v, list, kept) PROVE active' # NoNote => path' # Nowhere
  BY <1>2, <1>3 DEF Select
<1>4. ASSUME NEW n \in Notes, OpenNote(n) PROVE Placed'
  BY <1>1, <1>2, <1>4 DEF OpenNote
<1>5. ASSUME NEW v, SwitchView(v) PROVE Placed'
  BY <1>1, <1>2, <1>3, <1>5 DEF SwitchView
<1>6. CASE Type \/ Save \/ UNCHANGED vars
  BY <1>1, <1>6 DEF Type, Save, vars
<1>7. ASSUME NEW n \in Notes, NewNote(n) PROVE Placed'
  <2>1. active' # NoNote => path' # Nowhere
    BY <1>2, <1>7, TargetTyped DEF NewNote
  <2>2. UNCHANGED origin /\ \A m \in Notes : m # n => home'[m] = home[m]
    BY <1>0, <1>7 DEF NewNote, TypeOK
  <2> QED
    BY <1>7, <2>1, <2>2 DEF NewNote, Unborn, Placed
<1>8. ASSUME NEW n \in Notes, NEW p \in notebooks, MoveNote(n, p) PROVE Placed'
  <2>1. p # Nowhere
    BY DEF Typed
  <2>2. active' # NoNote => path' # Nowhere
    BY <1>2, <1>8, <2>1 DEF MoveNote, CanMove, Placed
  <2>3. UNCHANGED origin /\ \A m \in Notes : m # n => home'[m] = home[m]
    BY <1>0, <1>8 DEF MoveNote, CanMove, TypeOK
  <2>4. home[n] # Nowhere
    BY <1>8 DEF MoveNote, CanMove, Shown, Shows
  <2> QED
    BY <2>2, <2>3, <2>4 DEF Placed
<1>9. ASSUME NEW n \in Notes, TrashNote(n) PROVE Placed'
  <2>1. active' # NoNote => path' # Nowhere
    BY <1>3, <1>9 DEF TrashNote, Placed
  <2>2. home'[n] = Nowhere /\ \A m \in Notes : m # n => home'[m] = home[m] /\ origin'[m] = origin[m]
    BY <1>0, <1>9 DEF TrashNote, TypeOK
  <2> QED
    BY <2>1, <2>2 DEF Placed
<1>10. ASSUME NEW n \in Notes, RestoreNote(n) PROVE Placed'
  <2>1. origin'[n] = Nowhere /\ \A m \in Notes : m # n => home'[m] = home[m] /\ origin'[m] = origin[m]
    BY <1>0, <1>10 DEF RestoreNote, TypeOK
  <2> QED
    BY <1>10, <2>1 DEF RestoreNote, Placed
<1>11. ASSUME NEW p \in sidebar, NEW name \in Names, RenameNotebook(p, name) PROVE Placed'
  <2> DEFINE new == Append(Front(p), name)
  <2>1. p \in Places /\ p # Nowhere /\ new \in Places /\ new # Nowhere
    BY <1>0, NewPath DEF Typed, TypeOK
  <2>2. home' = [x \in Things |-> Renamed(p, new, home[x])] /\ UNCHANGED <<origin, active, path>>
    BY <1>11 DEF RenameNotebook, CanRename
  <2> HIDE DEF new
  <2>3. \A n \in Notes : home[n] = Nowhere => home'[n] = Nowhere
    BY <1>0, <2>1, <2>2, RenamedPath, NowherePath
  <2> QED
    BY <2>2, <2>3 DEF Placed
<1>12. ASSUME NEW p, NEW name, NewNotebook(p, name) \/ DeleteNotebook(p) \/ RemoveDirectory(p)
              \/ MakeDirectory(p, name)
       PROVE  Placed'
  BY <1>1, <1>12 DEF NewNotebook, DeleteNotebook, CanDelete, Without, RemoveDirectory, MakeDirectory
<1>13. ASSUME NEW f \in Files, NEW p \in notebooks, PutFile(f, p) PROVE Placed'
  BY <1>0, <1>1, <1>13, NotebooksAssumption DEF PutFile, TypeOK, Things
<1> QED
  BY NotebooksAssumption, <1>4, <1>5, <1>6, <1>7, <1>8, <1>9, <1>10, <1>11, <1>12, <1>13
     DEF Next, Browse, File, Arrange, Elsewhere

\* What a handler may make of the editor: no document with a wrong path that was
\* not there before.
NoneMisled == \A n \in Notes : Misled(n)' => Misled(n)

\* the copies kept that are wrong are those of documents with wrong paths
KeptAsWere(kept) ==
    \A n \in Notes : n \in Secret /\ kept[n] \notin {Nowhere, home'[n]} => Misled(n)

LEMMA StashMisled ==
    ASSUME TypeOK, \A n \in Notes : home'[n] = home[n]
    PROVE  KeptAsWere(Stash)
  BY DEF TypeOK, Stash, KeptAsWere, Misled

LEMMA DisplayMisled ==
    ASSUME NEW n \in Notes, NEW kept \in [Notes -> Places], NEW list \in [Notes -> Places],
           KeptAsWere(kept), Display(n, kept, list)
    PROVE  NoneMisled
<1>1. \A m \in Notes : copies'[m] \in {Nowhere, kept[m]}
  BY DEF Display
<1>2. ~Misled(n) => path' = home'[n]
  BY DEF Display, Found, Usable, KeptAsWere
<1>3. active' = n
  BY DEF Display
<1> QED
  BY <1>1, <1>2, <1>3 DEF NoneMisled, KeptAsWere, Misled

LEMMA BlankMisled ==
    ASSUME NEW kept, KeptAsWere(kept), Blank(kept)
    PROVE  NoneMisled
  BY NotebooksAssumption DEF Blank, NoneMisled, KeptAsWere, Misled

LEMMA SelectMisled ==
    ASSUME NEW v, NEW kept \in [Notes -> Places], NEW list \in [Notes -> Places],
           KeptAsWere(kept), Select(v, list, kept)
    PROVE  NoneMisled
  BY DisplayMisled, BlankMisled DEF Select

LEMMA MisledStep ==
    ASSUME Typed, Placed, [Next]_vars,
           ~\E p \in sidebar, name \in Names : RenameNotebook(p, name)
    PROVE  NoneMisled
<1> USE DEF tree, lists, editor
<1>0. TypeOK /\ \A n \in Notes : n \in Things
  BY DEF Typed, Things
<1>a. Stash \in [Notes -> Places] /\ listed \in [Notes -> Places] /\ Scan(home) \in [Notes -> Places]
  BY <1>0, StashTyped, ScanTyped DEF TypeOK
<1>1. CASE UNCHANGED <<active, path, copies>> /\ \A n \in Notes : home'[n] = home[n]
  BY <1>1 DEF NoneMisled, Misled
<1>2. ASSUME NEW n \in Notes, OpenNote(n) PROVE NoneMisled
  <2>1. KeptAsWere(Stash)
    BY <1>0, <1>2, StashMisled DEF OpenNote
  <2>2. KeptAsWere([Stash EXCEPT ![n] = Nowhere]) /\ [Stash EXCEPT ![n] = Nowhere] \in [Notes -> Places]
    BY <1>a, <2>1, NowherePath DEF KeptAsWere
  <2> QED
    BY <1>2, <1>a, <2>1, <2>2, DisplayMisled, BlankMisled DEF OpenNote
<1>3. ASSUME NEW v, SwitchView(v) PROVE NoneMisled
  <2>1. KeptAsWere(Stash)
    BY <1>0, <1>3, StashMisled DEF SwitchView
  <2> QED
    BY <1>3, <1>a, <2>1, SelectMisled, BlankMisled DEF SwitchView
<1>4. CASE Type \/ Save \/ UNCHANGED vars
  BY <1>1, <1>4 DEF Type, Save, vars
<1>5. ASSUME NEW n \in Notes, NewNote(n) PROVE NoneMisled
  <2>1. CASE UNCHANGED home /\ Blank(Stash)
    BY <1>0, <2>1, StashMisled, BlankMisled
  <2>2. CASE /\ home' = [home EXCEPT ![n] = Target]
             /\ active' = n /\ path' = Target /\ copies' = Stash
    <3>1. home'[n] = Target /\ \A m \in Notes : m # n => home'[m] = home[m]
      BY <1>0, <2>2 DEF TypeOK
    <3>2. \A m \in Notes : m \in Secret /\ m # n /\ Stash[m] \notin {Nowhere, home[m]} => Misled(m)
      BY <1>0 DEF TypeOK, Stash, Misled
    <3>3. n \in Secret /\ Stash[n] # Nowhere => Misled(n)
      BY <1>0, <1>5 DEF NewNote, Unborn, TypeOK, Stash, Misled
    <3> QED
      BY <2>2, <3>1, <3>2, <3>3 DEF NoneMisled, Misled
  <2> QED
    BY <1>5, <2>1, <2>2 DEF NewNote
<1>6. ASSUME NEW n \in Notes, NEW p \in notebooks, MoveNote(n, p) PROVE NoneMisled
  <2>1. p \in Places /\ home'[n] = p /\ \A m \in Notes : m # n => home'[m] = home[m]
    BY <1>0, <1>6 DEF MoveNote, CanMove, TypeOK
  <2>2. Moved(n, p) \in [Notes -> Places] /\ Moved(n, p)[n] \in {Nowhere, p}
        /\ \A m \in Notes : m # n => Moved(n, p)[m] = copies[m]
    BY <1>0, <2>1 DEF Moved, TypeOK
  <2>3. KeptAsWere(Moved(n, p))
    BY <2>1, <2>2 DEF KeptAsWere, Misled
  <2>4. listed' \in [Notes -> Places]
    BY <1>0, <1>6, <2>1 DEF MoveNote, CanMove, TypeOK
  <2>5. CASE copies' = Moved(n, p) /\ active' = active /\ path' = IF active = n THEN p ELSE path
    BY <2>1, <2>2, <2>5 DEF NoneMisled, Misled
  <2>6. CASE \E m \in Notes : Display(m, Moved(n, p), listed')
    BY <2>2, <2>3, <2>4, <2>6, DisplayMisled
  <2> QED
    BY <1>6, <2>5, <2>6 DEF MoveNote, CanMove
<1>7. ASSUME NEW n \in Notes, TrashNote(n) PROVE NoneMisled
  <2> DEFINE kept == [copies EXCEPT ![n] = Nowhere]
  <2>1. \A m \in Notes : m # n => home'[m] = home[m]
    BY <1>0, <1>7 DEF TrashNote, TypeOK
  <2>2. kept \in [Notes -> Places] /\ kept[n] = Nowhere /\ \A m \in Notes : m # n => kept[m] = copies[m]
    BY <1>0, NowherePath DEF TypeOK
  <2>3. CASE active = n /\ Select(view, listed', kept)
    <3>1. listed' \in [Notes -> Places]
      BY <1>0, <1>7, NowherePath DEF TrashNote, TypeOK
    <3>2. KeptAsWere(kept)
      BY <2>1, <2>2 DEF KeptAsWere, Misled
    <3> QED
      BY <2>2, <2>3, <3>1, <3>2, SelectMisled
  <2>4. CASE active # n /\ copies' = kept /\ UNCHANGED <<active, path>>
    BY <2>1, <2>2, <2>4 DEF NoneMisled, Misled
  <2> QED
    BY <1>7, <2>3, <2>4 DEF TrashNote
<1>8. ASSUME NEW n \in Notes, RestoreNote(n) PROVE NoneMisled
  <2>1. \A m \in Notes : m # n => home'[m] = home[m]
    BY <1>0, <1>8 DEF RestoreNote, TypeOK
  <2>2. home[n] = Nowhere
    BY <1>8 DEF RestoreNote, Placed
  <2> QED
    BY <1>8, <2>1, <2>2, NotebooksAssumption DEF RestoreNote, Placed, NoneMisled, Misled
<1>9. ASSUME NEW p, NEW name, NewNotebook(p, name) \/ DeleteNotebook(p) \/ RemoveDirectory(p)
             \/ MakeDirectory(p, name)
      PROVE  NoneMisled
  BY <1>1, <1>9 DEF NewNotebook, DeleteNotebook, CanDelete, Without, RemoveDirectory, MakeDirectory
<1>10. ASSUME NEW f \in Files, NEW p \in notebooks, PutFile(f, p) PROVE NoneMisled
  BY <1>0, <1>1, <1>10, NotebooksAssumption DEF PutFile, TypeOK, Things
<1> QED
  BY NotebooksAssumption, <1>2, <1>3, <1>4, <1>5, <1>6, <1>7, <1>8, <1>9, <1>10
     DEF Next, Browse, File, Arrange, Elsewhere

\* Only the rename of a notebook leaves a document with a path where its note is
\* not (OnlyRenamesMislead).
THEOREM OnlyRenames == Spec => OnlyRenamesMislead
<1>1. Typed /\ Placed /\ [Next]_vars =>
        [\A n \in Notes : Misled(n)' /\ ~Misled(n) =>
           \E p \in sidebar, name \in Names : RenameNotebook(p, name)]_vars
  BY MisledStep DEF NoneMisled
<1> QED
  BY <1>1, TypedInit, TypedStep, PlacedInit, PlacedStep, PTL DEF Spec, OnlyRenamesMislead

=============================================================================
