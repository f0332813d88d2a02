------------------------ MODULE StandardVault_proofs ------------------------
(***************************************************************************)
(* Theorems about the storage of a Standard Vault.                         *)
(***************************************************************************)
EXTENDS StandardVault, TLAPS

Job == [name : Calls, note : Notes \cup {NoNote}, text : Nat]
Extensions == {"md", "snote"}

InCall == pc \notin {"closed", "idle"}

\* The calls on the open note.
OfEditor == Saves \cup {"open", "encrypt", "rekey", "decrypt"}

\* Which calls reach a step, and on which note.
CallInv ==
  /\ InCall => job.note \in Notes
  /\ job.name \in OfEditor => job.note = ed.note
  /\ ed.dirty => ed.note \in Notes
  /\ pc = "verify" => job.name \in Saves \cup {"encrypt"}
  /\ pc = "write" => job.name \in Saves \cup {"create", "encrypt", "rekey", "decrypt"}
  /\ pc \in {"rename", "sync"} => job.name \in {"title", "encrypt", "decrypt"}
  /\ pc = "drop" => job.name \in Saves \cup {"encrypt", "trash"}
  /\ pc = "check" => job.name = "rekey"
  /\ pc = "stamp" => job.name \in OfEditor
  /\ pc = "rescue" => job.name \in {"save", "title"}
  /\ pc \in {"record", "trash"} => job.name = "trash"
  /\ pc = "back" => job.name = "restore"
  /\ pc = "unlink" => job.name = "delete"
  /\ pc = "unrecord" => job.name \in {"restore", "delete"}

TypeInv == TypeOK /\ CallInv

USE VaultAssumption

\* What Begin makes of a call.
LEMMA BeginType ==
  ASSUME TypeInv, NEW name \in Calls, NEW n \in Notes, NEW text \in Nat, NEW first \in PC,
         Begin(name, n, text, first)
  PROVE  /\ job' \in Job /\ job'.name = name /\ job'.note = n /\ job'.text = text
         /\ pc' = first /\ pc' \in PC
         /\ late' \in BOOLEAN
         /\ UNCHANGED <<file, record, recovery, rescued, sealed>>
BY DEF Begin, Job

\* What Return and Fails leave.
LEMMA EndType ==
  /\ NoJob \in Job /\ NoJob.name = "none"
  /\ NoEditor \in Editor /\ NoEditor.note = NoNote /\ ~NoEditor.dirty /\ ~NoEditor.rescued
  /\ "idle" \in PC /\ "rescue" \in PC /\ "closed" \in PC
BY DEF NoJob, Job, Calls, NoEditor, Editor, PC

\* What a failing step leaves of the call and the editor.
LEMMA FailsType ==
  ASSUME TypeInv, Fails, InCall, pc # "rescue"
  PROVE  /\ pc' \in PC /\ job' \in Job /\ ed' \in Editor
         /\ \/ pc' = "idle" /\ job' = NoJob
            \/ pc' = "rescue" /\ job' = job /\ ed' = ed /\ job.name \in {"save", "title"}
         /\ ed'.dirty => ed'.note \in Notes
         /\ ed'.rescued => ed.rescued /\ ed'.note = ed.note
         /\ ed'.note \in {ed.note, NoNote}
         /\ ed'.note = ed.note /\ ed.note \in Notes => ed'.ext = ed.ext
<1>1. ed' \in {NoEditor, [ed EXCEPT !.there = FALSE], ed}
  BY DEF Fails
<1>t. ed \in Editor /\ (ed.dirty => ed.note \in Notes)
  BY DEF TypeInv, TypeOK, CallInv
<1>u. [ed EXCEPT !.there = FALSE] \in Editor
  BY <1>t DEF Editor
<1>2. /\ ed' \in Editor
      /\ ed'.dirty => ed'.note \in Notes
      /\ ed'.rescued => ed.rescued /\ ed'.note = ed.note
      /\ ed'.note \in {ed.note, NoNote}
  <2>1. CASE ed' = NoEditor
    BY <2>1, EndType
  <2>2. CASE ed' = [ed EXCEPT !.there = FALSE]
    BY <1>t, <1>u, <2>2 DEF Editor
  <2> QED BY <1>1, <1>t, <2>1, <2>2
<1>3. ed'.note = ed.note /\ ed.note \in Notes => ed'.ext = ed.ext
  BY <1>1, EndType DEF Editor, TypeInv, TypeOK
<1>4. CASE job.name \in {"save", "title"}
  <2>1. pc' = "rescue" /\ job' = job /\ ed' = ed
    BY <1>4 DEF Fails
  <2> QED BY <1>2, <1>4, <2>1, EndType DEF TypeInv, TypeOK, Job
<1>5. CASE job.name \notin {"save", "title"}
  <2>1. pc' = "idle" /\ job' = NoJob
    BY <1>5 DEF Fails, Return
  <2> QED BY <1>2, <1>3, <2>1, EndType
<1> QED BY <1>4, <1>5

\* Every step keeps the types, and the calls at their steps.
LEMMA TypeStep == TypeInv /\ [Next]_vars => TypeInv'
<1> SUFFICES ASSUME TypeInv, [Next]_vars PROVE TypeInv'
  OBVIOUS
<1> USE EndType
<1>t. /\ file \in [Notes -> File] /\ record \in [Notes -> {"none", "md", "snote"}]
      /\ recovery \in [Notes -> Nat] /\ texts \in Nat /\ ed \in Editor /\ pc \in PC
      /\ job \in Job /\ rescued \in [Notes -> Nat] /\ sealed \subseteq Notes /\ late \in BOOLEAN
  BY DEF TypeInv, TypeOK, Job
<1>e. /\ ed.note \in Notes \cup {NoNote} /\ ed.held \in Nat /\ ed.ext \in Extensions
      /\ ed.rescued \in BOOLEAN
  BY <1>t DEF Editor, Extensions
<1>f. \A n \in Notes : file[n].text \in Nat /\ file[n].ext \in Extensions /\ file[n].at \in {"nowhere", "Notes", "Trash"}
  BY <1>t DEF File, Extensions
<1>c. CallInv
  BY DEF TypeInv
\* It is enough to look at what a step changes of files and editor, and of the call.
<1>g. ASSUME file' \in [Notes -> File], record' \in [Notes -> {"none", "md", "snote"}],
             recovery' \in [Notes -> Nat], texts' \in Nat, ed' \in Editor, pc' \in PC,
             job' \in Job, rescued' \in [Notes -> Nat], sealed' \subseteq Notes, late' \in BOOLEAN
      PROVE  TypeOK'
  BY <1>g DEF TypeOK, Job
<1>h. ASSUME Fails, UNCHANGED <<file, record, recovery, texts, rescued, sealed, late>>,
             pc \in {"verify"} \cup Writing \cup Moving
      PROVE  TypeInv'
  <2>1. InCall /\ pc # "rescue"
    BY <1>h DEF InCall, Writing, Moving
  <2>2. /\ pc' \in PC /\ job' \in Job /\ ed' \in Editor
        /\ \/ pc' = "idle" /\ job' = NoJob
           \/ pc' = "rescue" /\ job' = job /\ ed' = ed /\ job.name \in {"save", "title"}
        /\ ed'.dirty => ed'.note \in Notes
    BY <1>h, <2>1, FailsType
  <2>3. CallInv'
    BY <2>1, <2>2, <1>c DEF CallInv, InCall, OfEditor, Saves
  <2> QED BY <1>h, <1>t, <1>g, <2>2, <2>3 DEF TypeInv
<1>1. CASE Start \/ End
  BY <1>1, <1>t, <1>c, <1>g DEF Start, End, TypeInv, CallInv, InCall, OfEditor, NoJob, NoEditor, Saves
<1>2. CASE Edit
  <2>e. texts + 1 \in Nat /\ [ed EXCEPT !.held = texts + 1, !.dirty = TRUE] \in Editor
    <3>1. texts + 1 \in Nat
      BY <1>t
    <3>2. \A x \in Nat : [ed EXCEPT !.held = x, !.dirty = TRUE] \in Editor
      BY <1>t DEF Editor
    <3> QED BY <3>1, <3>2
  <2>1. ed' \in Editor /\ texts' \in Nat
    BY <1>2, <2>e DEF Edit
  <2>2. CallInv'
    BY <1>2, <1>c, <1>e, <1>t DEF Edit, CallInv, InCall, Editor
  <2> QED BY <1>2, <1>t, <1>g, <2>1, <2>2 DEF Edit, TypeInv
<1>3. ASSUME NEW n \in Notes, ExternalEdit(n) PROVE TypeInv'
  <2>1. file' \in [Notes -> File] /\ texts' \in Nat /\ late' \in BOOLEAN
    BY <1>3, <1>t DEF ExternalEdit, File
  <2>2. CallInv'
    BY <1>3, <1>c DEF ExternalEdit, CallInv, InCall
  <2> QED BY <1>3, <1>t, <1>g, <2>1, <2>2 DEF ExternalEdit, TypeInv
\* Every call begins at a step it may be at.
<1>b. ASSUME NEW name \in Calls, NEW n \in Notes, NEW text \in Nat, NEW first \in PC,
             Begin(name, n, text, first), ed' \in Editor, texts' \in Nat,
             ed'.dirty => ed'.note \in Notes,
             name \in OfEditor => n = ed'.note,
             \/ first = "verify" /\ name \in Saves \cup {"encrypt"}
             \/ first = "write" /\ name \in {"create", "rekey", "decrypt"}
             \/ first = "stamp" /\ name = "open"
             \/ first = "record" /\ name = "trash"
             \/ first = "back" /\ name = "restore"
             \/ first = "unlink" /\ name = "delete"
      PROVE  TypeInv'
  <2>1. TypeOK'
    BY <1>b, <1>g, <1>t, BeginType
  <2>2. CallInv'
    BY <1>b, BeginType DEF CallInv, InCall, OfEditor, Saves
  <2> QED BY <2>1, <2>2 DEF TypeInv
<1>n. Saves \cup {"create", "open", "encrypt", "rekey", "decrypt", "trash", "restore", "delete"} \subseteq Calls
  BY DEF Calls
<1>p. {"verify", "write", "stamp", "record", "back", "unlink"} \subseteq PC
  BY DEF PC, Writing, Moving
<1>d. ed.dirty => ed.note \in Notes
  BY <1>c DEF CallInv
<1>4. ASSUME NEW n \in Notes, CreateNote(n) PROVE TypeInv'
  BY <1>4, <1>b, <1>d, <1>n, <1>p, <1>t DEF CreateNote, OfEditor, Saves
<1>5. ASSUME NEW n \in Notes, OpenNote(n) PROVE TypeInv'
  <2>1. ed' \in Editor /\ ed'.note = n
    BY <1>5, <1>f DEF OpenNote, NoEditor, Editor, Extensions
  <2> QED BY <1>5, <1>b, <1>f, <1>n, <1>p, <1>t, <2>1 DEF OpenNote
<1>6. ASSUME NEW n \in Notes, MoveToTrash(n) \/ RestoreFromTrash(n) \/ PermanentlyDelete(n)
      PROVE  TypeInv'
  BY <1>6, <1>b, <1>d, <1>n, <1>p, <1>t DEF MoveToTrash, RestoreFromTrash, PermanentlyDelete, OfEditor, Saves
<1>7. CASE Save
  BY <1>7, <1>b, <1>d, <1>e, <1>n, <1>p, <1>t DEF Save
<1>8. CASE EncryptNote
  BY <1>8, <1>b, <1>d, <1>e, <1>n, <1>p, <1>t DEF EncryptNote
<1>9. CASE ChangeEncryption
  BY <1>9, <1>b, <1>d, <1>e, <1>f, <1>n, <1>p, <1>t DEF ChangeEncryption, OfEditor
<1>i. InCall => job.note \in Notes
  BY <1>c DEF CallInv
<1>10. CASE Verify
  <2>1. CASE Unchanged
    BY <1>10, <2>1, <1>t, <1>c, <1>g DEF Verify, TypeInv, CallInv, InCall, OfEditor, PC, Writing
  <2>2. CASE ~Unchanged
    <3>1. Fails /\ UNCHANGED <<file, record, recovery, texts, rescued, sealed, late>> /\ pc = "verify"
      BY <1>10, <2>2 DEF Verify
    <3> QED BY <3>1, <1>h
  <2> QED BY <2>1, <2>2
<1>11. CASE Write
  <2>1. job.note \in Notes
    BY <1>11, <1>i DEF Write, InCall
  <2>2. Form \in {"markdown", "container"} /\ job.text \in Nat
    BY <1>t DEF Form, Job
  <2>3. file' \in [Notes -> File]
    BY <1>11, <1>t, <2>1, <2>2 DEF Write, File
  <2>e. ed' = ed \/ ed' = [ed EXCEPT !.base = job.text, !.rescued = FALSE]
    BY <1>11 DEF Write
  <2>4. ed' \in Editor /\ rescued' \in [Notes -> Nat] /\ sealed' \subseteq Notes
    <3>1. ed' \in Editor
      <4>1. [ed EXCEPT !.base = job.text, !.rescued = FALSE] \in Editor
        BY <1>t, <2>2 DEF Editor
      <4> QED BY <1>t, <2>e, <4>1
    <3>2. rescued' \in [Notes -> Nat] /\ sealed' \subseteq Notes
      BY <1>11, <1>t, <2>1, <2>2 DEF Write
    <3> QED BY <3>1, <3>2
  <2>5. pc' \in PC /\ job' \in Job
    BY <1>11, <1>t DEF Write, AfterWrite, Return, PC, Writing
  <2>6. TypeOK'
    BY <1>11, <1>t, <1>g, <2>3, <2>4, <2>5 DEF Write
  <2>7. ed'.note = ed.note /\ ed'.dirty = ed.dirty
    BY <1>t, <2>e DEF Editor
  <2>8. \/ pc' = "idle" /\ job' = NoJob
        \/ job' = job /\ pc' \in {"rename", "drop"} /\ job.name = "title"
        \/ job' = job /\ pc' = "rename" /\ job.name \in {"encrypt", "decrypt"}
        \/ job' = job /\ pc' = "check" /\ job.name = "rekey"
        \/ job' = job /\ pc' = "drop" /\ job.name \in {"save", "saveLocked"}
    BY <1>11, <1>c DEF Write, AfterWrite, Return, CallInv, Saves
  <2>9. CallInv'
    BY <1>c, <2>1, <2>7, <2>8 DEF CallInv, InCall, OfEditor, Saves
  <2> QED BY <2>6, <2>9 DEF TypeInv
<1>12. CASE Rename
  <2>1. job.note \in Notes
    BY <1>12, <1>i DEF Rename, InCall
  <2>2. file' \in [Notes -> File]
    BY <1>12, <1>t, <2>1 DEF Rename, File
  <2>3. ed' \in Editor /\ ed'.note = ed.note /\ ed'.dirty = ed.dirty
    BY <1>12, <1>t DEF Rename, Editor
  <2>4. CallInv'
    BY <1>12, <1>c, <2>3 DEF Rename, CallInv, InCall
  <2> QED BY <1>12, <1>t, <1>g, <2>2, <2>3, <2>4 DEF Rename, TypeInv, PC, Writing
<1>13. CASE Sync
  <2>1. job.note \in Notes
    BY <1>13, <1>i DEF Sync, InCall
  <2>e. ed' = ed \/ ed' = [ed EXCEPT !.there = TRUE, !.ext = file[job.note].ext]
    BY <1>13 DEF Sync
  <2>2. ed' \in Editor /\ ed'.note = ed.note /\ ed'.dirty = ed.dirty
    <3>1. ed' \in Editor
      <4>1. file[job.note].ext \in {"md", "snote"}
        BY <1>f, <2>1 DEF Extensions
      <4>2. [ed EXCEPT !.there = TRUE, !.ext = file[job.note].ext] \in Editor
        BY <1>t, <4>1 DEF Editor
      <4> QED BY <1>t, <2>e, <4>2
    <3> QED BY <1>t, <2>e, <3>1 DEF Editor
  <2>3. CallInv'
    BY <1>13, <1>c, <2>2 DEF Sync, CallInv, InCall, OfEditor, Saves
  <2> QED BY <1>13, <1>t, <1>g, <2>2, <2>3 DEF Sync, TypeInv, PC, Writing
<1>14. CASE Drop
  <2>1. job.note \in Notes
    BY <1>14, <1>i DEF Drop, InCall
  <2>2. recovery' \in [Notes -> Nat]
    BY <1>14, <1>t, <2>1 DEF Drop
  <2>3. /\ ed' \in Editor /\ (ed'.dirty => ed'.note \in Notes)
        /\ \/ pc' = "idle" /\ job' = NoJob
           \/ pc' = "stamp" /\ job' = job /\ ed' = ed /\ job.name \in Saves \cup {"encrypt"}
    BY <1>14, <1>t, <1>c, <1>d DEF Drop, Return, CallInv
  <2>4. CallInv'
    BY <2>1, <2>3, <1>c DEF CallInv, InCall, OfEditor, Saves
  <2> QED BY <1>14, <1>t, <1>g, <2>2, <2>3, <2>4 DEF Drop, TypeInv, PC, Writing
<1>15. CASE Check
  BY <1>15, <1>t, <1>c, <1>g DEF Check, TypeInv, CallInv, InCall, OfEditor, PC, Writing
<1>16. CASE Stamp
  <2>1. job.note \in Notes /\ job.text \in Nat
    BY <1>16, <1>i, <1>t DEF Stamp, InCall, Job
  <2>2. ed' \in Editor /\ sealed' \subseteq Notes /\ ~ed'.dirty
    BY <1>16, <1>t, <1>f, <2>1 DEF Stamp, Editor, NoEditor, Extensions
  <2>3. CallInv'
    BY <1>16, <2>2 DEF Stamp, Return, CallInv, InCall, OfEditor, Saves
  <2> QED BY <1>16, <1>t, <1>g, <2>2, <2>3 DEF Stamp, Return, TypeInv
<1>17. CASE Rescue
  <2>1. job.note \in Notes /\ job.text \in Nat
    BY <1>17, <1>i, <1>t DEF Rescue, InCall, Job
  <2>2. /\ ed' \in Editor /\ recovery' \in [Notes -> Nat] /\ rescued' \in [Notes -> Nat]
        /\ ed'.note = ed.note /\ ed'.dirty = ed.dirty
    BY <1>17, <1>t, <2>1 DEF Rescue, Editor
  <2>3. CallInv'
    BY <1>17, <1>d, <2>2 DEF Rescue, Return, CallInv, InCall, OfEditor, Saves
  <2> QED BY <1>17, <1>t, <1>g, <2>2, <2>3 DEF Rescue, Return, TypeInv
<1>18. CASE Record \/ Unrecord
  <2>1. job.note \in Notes
    BY <1>18, <1>i DEF Record, Unrecord, InCall
  <2>2. record' \in [Notes -> {"none", "md", "snote"}]
    BY <1>18, <1>t, <1>f, <2>1 DEF Record, Unrecord, Extensions
  <2>3. CallInv'
    BY <1>18, <1>c DEF Record, Unrecord, Return, CallInv, InCall, OfEditor, Saves
  <2> QED BY <1>18, <1>t, <1>g, <2>2, <2>3 DEF Record, Unrecord, Return, TypeInv, PC, Moving
<1>19. CASE Trash
  <2>1. job.note \in Notes
    BY <1>19, <1>i DEF Trash, InCall
  <2>2. file' \in [Notes -> File] /\ record' \in [Notes -> {"none", "md", "snote"}]
    BY <1>19, <1>t, <2>1 DEF Trash, File
  <2>3. CallInv'
    BY <1>19, <1>c DEF Trash, Return, CallInv, InCall, OfEditor, Saves
  <2> QED BY <1>19, <1>t, <1>g, <2>2, <2>3 DEF Trash, Return, TypeInv, PC, Writing
<1>20. CASE Back \/ Unlink
  <2>1. job.note \in Notes
    BY <1>20, <1>i DEF Back, Unlink, InCall
  <2>2. file' \in [Notes -> File]
    BY <1>20, <1>t, <2>1 DEF Back, Unlink, File
  <2>3. CallInv'
    BY <1>20, <1>c DEF Back, Unlink, CallInv, InCall, OfEditor, Saves
  <2> QED BY <1>20, <1>t, <1>g, <2>2, <2>3 DEF Back, Unlink, TypeInv, PC, Moving
<1>21. CASE StepFails
  BY <1>21, <1>h DEF StepFails
<1>22. CASE UNCHANGED vars
  BY <1>22 DEF vars, TypeInv, TypeOK, CallInv, InCall
<1> QED
  BY <1>1, <1>2, <1>3, <1>4, <1>5, <1>6, <1>7, <1>8, <1>9, <1>10, <1>11, <1>12, <1>13, <1>14,
     <1>15, <1>16, <1>17, <1>18, <1>19, <1>20, <1>21, <1>22 DEF Next

LEMMA TypeInit == Init => TypeInv
<1> SUFFICES ASSUME Init PROVE TypeInv
  OBVIOUS
<1>1. NoFile \in File
  BY DEF NoFile, File
<1>2. TypeOK
  BY <1>1, EndType DEF Init, TypeOK, Job
<1>3. CallInv
  BY EndType DEF Init, CallInv, InCall, OfEditor, Saves
<1> QED BY <1>2, <1>3 DEF TypeInv

\* The files, the records, the recovery copies and the editor of a Standard Vault
\* keep their types, for any notes and any number of texts.
THEOREM TypeCorrect == Spec => []TypeOK
<1>1. TypeInv => TypeOK
  BY DEF TypeInv
<1> QED BY <1>1, TypeInit, TypeStep, PTL DEF Spec

-----------------------------------------------------------------------------
(* Trash and its records *)

\* Where the file of a call's note is at each step, and that the record is there
\* before the file is in Trash/ and goes after it.
PlaceInv ==
  /\ TrashHasRecord
  /\ pc \in {"record", "trash", "rename"} => file[job.note].at = "Notes"
  /\ pc = "trash" => record[job.note] = file[job.note].ext
  /\ pc = "write" => file[job.note].at = IF job.name = "create" THEN "nowhere" ELSE "Notes"
  /\ pc = "unrecord" => file[job.note].at # "Trash"

LEMMA PlaceStep == TypeInv /\ PlaceInv /\ [Next]_vars => PlaceInv'
<1> SUFFICES ASSUME TypeInv, PlaceInv, [Next]_vars PROVE PlaceInv'
  OBVIOUS
<1>t. file \in [Notes -> File] /\ record \in [Notes -> {"none", "md", "snote"}]
  BY DEF TypeInv, TypeOK
<1>f. \A n \in Notes : file[n].ext \in Extensions
  BY <1>t DEF File, Extensions
<1>i. InCall => job.note \in Notes
  BY DEF TypeInv, CallInv
<1>p. TrashHasRecord
  BY DEF PlaceInv
\* Nothing can go wrong where neither files nor records change, unless the call
\* comes to one of the steps of PlaceInv.
<1>q. ASSUME UNCHANGED <<file, record>>, pc' \notin {"record", "trash", "rename", "write", "unrecord"}
      PROVE  PlaceInv'
  BY <1>q, <1>p DEF PlaceInv, TrashHasRecord
<1>h. ASSUME Fails, UNCHANGED <<file, record>> PROVE PlaceInv'
  <2>1. pc' \in {"idle", "rescue"}
    BY <1>h DEF Fails, Return
  <2> QED BY <1>h, <1>q, <2>1
<1>1. CASE Start \/ End
  BY <1>1, <1>q DEF Start, End
<1>2. CASE Edit
  BY <1>2 DEF Edit, PlaceInv, TrashHasRecord
<1>3. ASSUME NEW n \in Notes, ExternalEdit(n) PROVE PlaceInv'
  <2>1. file' = [file EXCEPT ![n].text = texts + 1] /\ UNCHANGED <<record, pc, job>>
    BY <1>3 DEF ExternalEdit
  <2>2. \A k \in Notes : file'[k].at = file[k].at /\ file'[k].ext = file[k].ext
    BY <1>t, <2>1 DEF File
  <2>3. TrashHasRecord'
    BY <1>p, <2>1, <2>2 DEF TrashHasRecord
  <2> QED BY <1>i, <2>1, <2>2, <2>3 DEF PlaceInv, InCall
<1>4. ASSUME NEW n \in Notes, CreateNote(n) PROVE PlaceInv'
  <2>1. /\ UNCHANGED <<file, record>> /\ pc' = "write"
        /\ job'.name = "create" /\ job'.note = n /\ file[n].at = "nowhere"
    BY <1>4 DEF CreateNote, Begin, NoFile
  <2> QED BY <1>p, <2>1 DEF PlaceInv, TrashHasRecord
<1>5. ASSUME NEW n \in Notes, OpenNote(n) \/ RestoreFromTrash(n) \/ PermanentlyDelete(n)
      PROVE  PlaceInv'
  BY <1>5, <1>q DEF OpenNote, RestoreFromTrash, PermanentlyDelete, Begin
<1>6. ASSUME NEW n \in Notes, MoveToTrash(n) PROVE PlaceInv'
  <2>1. /\ UNCHANGED <<file, record>> /\ pc' = "record" /\ job'.note = n /\ file[n].at = "Notes"
    BY <1>6 DEF MoveToTrash, Begin, Legible
  <2> QED BY <1>p, <2>1 DEF PlaceInv, TrashHasRecord
<1>7. CASE Save \/ EncryptNote
  BY <1>7, <1>q DEF Save, EncryptNote, Begin
<1>8. CASE ChangeEncryption
  <2>1. /\ UNCHANGED <<file, record>> /\ pc' = "write" /\ job'.note = ed.note
        /\ job'.name \in {"rekey", "decrypt"} /\ file[ed.note].at = "Notes"
    BY <1>8 DEF ChangeEncryption, Begin, Legible
  <2> QED BY <1>p, <2>1 DEF PlaceInv, TrashHasRecord
<1>9. CASE Verify
  <2>1. CASE Unchanged
    <3>1. /\ UNCHANGED <<file, record, job>> /\ pc' = "write" /\ file[job.note].at = "Notes"
          /\ job.name # "create"
      BY <1>9, <2>1 DEF Verify, Unchanged, TypeInv, CallInv, Saves
    <3> QED BY <1>p, <3>1 DEF PlaceInv, TrashHasRecord
  <2>2. CASE ~Unchanged
    BY <1>9, <1>h, <2>2 DEF Verify
  <2> QED BY <2>1, <2>2
<1>10. CASE Write
  <2>1. job.note \in Notes /\ file' = [file EXCEPT ![job.note].at = "Notes", ![job.note].form = Form,
                                                   ![job.note].text = job.text]
    BY <1>10, <1>i DEF Write, InCall
  <2>2. /\ file'[job.note].at = "Notes"
        /\ \A k \in Notes : file'[k].ext = file[k].ext /\ (k # job.note => file'[k].at = file[k].at)
    BY <1>t, <2>1 DEF File
  <2>3. UNCHANGED record /\ (pc' = "idle" \/ (pc' \in {"rename", "drop", "check"} /\ job' = job))
    <3>1. AfterWrite \subseteq {"rename", "drop", "check"}
      BY DEF AfterWrite
    <3> QED BY <1>10, <3>1 DEF Write, Return
  <2> QED BY <1>p, <2>1, <2>2, <2>3 DEF PlaceInv, TrashHasRecord
<1>11. CASE Rename
  <2>1. job.note \in Notes /\ file[job.note].at = "Notes" /\ pc' = "sync" /\ UNCHANGED record
    BY <1>11, <1>i DEF Rename, PlaceInv, InCall
  <2>2. PICK x : file' = [file EXCEPT ![job.note].ext = x]
    BY <1>11, <1>t DEF Rename
  <2>3. \A k \in Notes : file'[k].at = file[k].at /\ (k # job.note => file'[k].ext = file[k].ext)
    BY <1>t, <2>1, <2>2 DEF File
  <2> QED BY <1>p, <2>1, <2>3 DEF PlaceInv, TrashHasRecord
<1>12. CASE Sync \/ Drop \/ Check \/ Stamp \/ Rescue
  <2>1. UNCHANGED <<file, record>> /\ pc' \in {"stamp", "drop", "idle"}
    BY <1>12 DEF Sync, Drop, Check, Stamp, Rescue, Return
  <2> QED BY <1>q, <2>1
<1>13. CASE Record
  <2>1. /\ job.note \in Notes /\ file[job.note].at = "Notes" /\ pc' = "trash" /\ UNCHANGED <<file, job>>
        /\ record' = [record EXCEPT ![job.note] = file[job.note].ext]
    BY <1>13, <1>i DEF Record, PlaceInv, InCall
  <2> QED BY <1>t, <1>p, <2>1 DEF PlaceInv, TrashHasRecord
<1>14. CASE Trash
  <2>1. job.note \in Notes /\ file[job.note].at = "Notes" /\ record[job.note] = file[job.note].ext
    BY <1>14, <1>i DEF Trash, PlaceInv, InCall
  <2>2. CASE file' = [file EXCEPT ![job.note].at = "Trash"] /\ pc' = "drop" /\ UNCHANGED record
    <3>1. \A k \in Notes : file'[k].ext = file[k].ext /\ (k # job.note => file'[k].at = file[k].at)
      BY <1>t, <2>2 DEF File
    <3> QED BY <1>p, <2>1, <2>2, <3>1 DEF PlaceInv, TrashHasRecord
  <2>3. CASE record' = [record EXCEPT ![job.note] = "none"] /\ pc' = "idle" /\ UNCHANGED file
    BY <1>t, <1>p, <2>1, <2>3 DEF PlaceInv, TrashHasRecord
  <2>4. CASE pc' = "idle" /\ UNCHANGED <<file, record>>
    BY <1>q, <2>4
  <2> QED BY <1>14, <2>2, <2>3, <2>4 DEF Trash, Return
<1>15. CASE Back \/ Unlink
  <2>1. /\ job.note \in Notes /\ pc' = "unrecord" /\ UNCHANGED <<record, job>>
    BY <1>15, <1>i DEF Back, Unlink, InCall
  <2>2. PICK a \in {"Notes", "nowhere"} : file' = [file EXCEPT ![job.note].at = a]
    BY <1>15 DEF Back, Unlink
  <2>3. /\ file'[job.note].at = a
        /\ \A k \in Notes : file'[k].ext = file[k].ext /\ (k # job.note => file'[k].at = file[k].at)
    BY <1>t, <2>1, <2>2 DEF File
  <2> QED BY <1>p, <2>1, <2>2, <2>3 DEF PlaceInv, TrashHasRecord
<1>16. CASE Unrecord
  <2>1. /\ job.note \in Notes /\ pc' = "idle" /\ UNCHANGED file /\ file[job.note].at # "Trash"
        /\ record' = [record EXCEPT ![job.note] = "none"]
    BY <1>16, <1>i DEF Unrecord, Return, PlaceInv, InCall
  <2> QED BY <1>t, <1>p, <2>1 DEF PlaceInv, TrashHasRecord
<1>17. CASE StepFails
  BY <1>17, <1>h DEF StepFails
<1>18. CASE UNCHANGED vars
  BY <1>18 DEF vars, PlaceInv, TrashHasRecord
<1> QED
  BY <1>1, <1>2, <1>3, <1>4, <1>5, <1>6, <1>7, <1>8, <1>9, <1>10, <1>11, <1>12, <1>13, <1>14,
     <1>15, <1>16, <1>17, <1>18 DEF Next

\* Whatever fails and wherever the program dies, every file in Trash/ has the
\* record with which scan_trash lists it.
THEOREM TrashIsVisible == Spec => []TrashHasRecord
<1>1. Init => PlaceInv
  BY DEF Init, PlaceInv, TrashHasRecord, NoFile
<1>2. PlaceInv => TrashHasRecord
  BY DEF PlaceInv
<1> QED BY <1>1, <1>2, TypeInit, TypeStep, PlaceStep, PTL DEF Spec

-----------------------------------------------------------------------------
(* Text that a failed save put away *)

\* A call that removes the recovery copy has written the note before.
RescueInv ==
  /\ RescuedTextKept
  /\ pc \in {"rename", "sync", "drop"} /\ job.name \in Saves \cup {"encrypt"} => ~ed.rescued

LEMMA RescueStep == TypeInv /\ RescueInv /\ [Next]_vars => RescueInv'
<1> SUFFICES ASSUME TypeInv, RescueInv, [Next]_vars PROVE RescueInv'
  OBVIOUS
<1>t. /\ recovery \in [Notes -> Nat] /\ rescued \in [Notes -> Nat] /\ ed \in Editor
      /\ CallInv
  BY DEF TypeInv, TypeOK
\* Nothing can go wrong while the copies and the editor's flag stay.
<1>q. ASSUME UNCHANGED <<recovery, rescued>>,
             ed'.rescued => ed.rescued /\ ed'.note = ed.note,
             pc' \notin {"rename", "sync", "drop"}
      PROVE  RescueInv'
  BY <1>q DEF RescueInv, RescuedTextKept
<1>h. ASSUME Fails, InCall, pc # "rescue", UNCHANGED <<recovery, rescued>> PROVE RescueInv'
  <2>1. pc' \in {"idle", "rescue"} /\ (ed'.rescued => ed.rescued /\ ed'.note = ed.note)
    BY <1>h, FailsType
  <2> QED BY <1>h, <1>q, <2>1
<1>1. CASE Start \/ End
  BY <1>1, <1>q, EndType DEF Start, End
<1>2. CASE Edit
  <2>1. ed'.rescued = ed.rescued /\ ed'.note = ed.note
    BY <1>2, <1>t DEF Edit, Editor
  <2> QED BY <1>2, <1>q, <2>1 DEF Edit
<1>3. ASSUME NEW n \in Notes, ExternalEdit(n) PROVE RescueInv'
  BY <1>3 DEF ExternalEdit, RescueInv, RescuedTextKept
<1>4. ASSUME NEW n \in Notes,
             CreateNote(n) \/ MoveToTrash(n) \/ RestoreFromTrash(n) \/ PermanentlyDelete(n)
      PROVE  RescueInv'
  BY <1>4, <1>q DEF CreateNote, MoveToTrash, RestoreFromTrash, PermanentlyDelete, Begin
<1>5. ASSUME NEW n \in Notes, OpenNote(n) PROVE RescueInv'
  <2>1. ~ed'.rescued
    BY <1>5 DEF OpenNote, NoEditor
  <2> QED BY <1>5, <1>q, <2>1 DEF OpenNote, Begin
<1>6. CASE Save \/ EncryptNote \/ ChangeEncryption
  BY <1>6, <1>q DEF Save, EncryptNote, ChangeEncryption, Begin
<1>7. CASE Verify
  <2>1. CASE Unchanged
    BY <1>7, <1>q, <2>1 DEF Verify
  <2>2. CASE ~Unchanged
    BY <1>7, <1>h, <2>2 DEF Verify, InCall
  <2> QED BY <2>1, <2>2
<1>8. CASE Write
  <2>1. CASE job.name \in Saves \cup {"encrypt"}
    <3>1. ed' = [ed EXCEPT !.base = job.text, !.rescued = FALSE]
      BY <1>8, <2>1 DEF Write
    <3>2. ~ed'.rescued
      BY <1>t, <3>1 DEF Editor
    <3> QED BY <3>2 DEF RescueInv, RescuedTextKept
  <2>2. CASE job.name \notin Saves \cup {"encrypt"}
    <3>1. UNCHANGED <<ed, rescued, recovery>> /\ job'.name \notin Saves \cup {"encrypt"}
      BY <1>8, <2>2 DEF Write, Return, NoJob, Saves
    <3> QED BY <3>1 DEF RescueInv, RescuedTextKept
  <2> QED BY <2>1, <2>2
<1>9. CASE Rename \/ Sync
  <2>1. /\ ed' \in {ed, [ed EXCEPT !.there = FALSE], [ed EXCEPT !.there = TRUE, !.ext = file[job.note].ext]}
        /\ UNCHANGED <<job, recovery, rescued>> /\ pc \in {"rename", "sync"}
    BY <1>9 DEF Rename, Sync
  <2>2. ed'.rescued = ed.rescued /\ ed'.note = ed.note
    BY <1>t, <2>1 DEF Editor
  <2>3. RescuedTextKept'
    BY <2>1, <2>2 DEF RescueInv, RescuedTextKept
  <2> QED BY <2>1, <2>2, <2>3 DEF RescueInv
<1>10. CASE Drop
  <2>1. /\ job.note \in Notes /\ UNCHANGED rescued /\ pc' \in {"idle", "stamp"}
        /\ recovery' = [recovery EXCEPT ![job.note] = 0]
    BY <1>10, <1>t DEF Drop, Return, CallInv, InCall
  <2>2. ed'.rescued => ed' = ed /\ ed.note # job.note
    <3>1. CASE job.name = "trash"
      BY <1>10, <3>1, EndType DEF Drop
    <3>2. CASE job.name # "trash"
      <4>1. ed' = ed /\ ~ed.rescued
        BY <1>10, <1>t, <3>2 DEF Drop, CallInv, RescueInv
      <4> QED BY <4>1
    <3> QED BY <3>1, <3>2
  <2>3. ed'.rescued => recovery'[ed.note] = recovery[ed.note]
    BY <1>t, <2>1, <2>2 DEF Editor
  <2> QED BY <2>1, <2>2, <2>3 DEF RescueInv, RescuedTextKept
<1>11. CASE Check
  BY <1>11, <1>q DEF Check
<1>12. CASE Stamp
  <2>1. ed'.rescued => ed.rescued /\ ed'.note = ed.note
    <3>1. CASE job.name \in {"rekey", "decrypt"}
      <4>1. ~ed'.rescued
        BY <1>12, <3>1 DEF Stamp, NoEditor
      <4> QED BY <4>1
    <3>2. CASE job.name \notin {"rekey", "decrypt"}
      BY <1>12, <1>t, <3>2 DEF Stamp, Editor
    <3> QED BY <3>1, <3>2
  <2> QED BY <1>12, <1>q, <2>1 DEF Stamp, Return
<1>13. CASE Rescue
  <2>1. job.note \in Notes /\ job.note = ed.note /\ pc' = "idle"
    BY <1>13, <1>t DEF Rescue, Return, CallInv, InCall, OfEditor, Saves
  <2>2. CASE UNCHANGED <<recovery, rescued, ed>>
    BY <1>q, <2>1, <2>2
  <2>3. CASE /\ recovery' = [recovery EXCEPT ![job.note] = job.text]
             /\ rescued' = [rescued EXCEPT ![job.note] = job.text]
             /\ ed' = [ed EXCEPT !.rescued = TRUE]
    <3>1. ed'.note = ed.note
      BY <1>t, <2>3 DEF Editor
    <3> QED BY <1>t, <2>1, <2>3, <3>1 DEF RescueInv, RescuedTextKept
  <2> QED BY <1>13, <2>2, <2>3 DEF Rescue
<1>14. CASE Record \/ Back \/ Unlink \/ Unrecord
  BY <1>14, <1>q DEF Record, Back, Unlink, Unrecord, Return
<1>15. CASE Trash
  <2>1. job.name = "trash" /\ UNCHANGED <<recovery, rescued, ed>>
    BY <1>15, <1>t DEF Trash, CallInv
  <2>2. pc' = "idle" \/ (pc' = "drop" /\ job' = job)
    BY <1>15 DEF Trash, Return
  <2> QED BY <2>1, <2>2 DEF RescueInv, RescuedTextKept, Saves
<1>16. CASE StepFails
  BY <1>16, <1>h DEF StepFails, InCall, Writing, Moving
<1>17. CASE UNCHANGED vars
  BY <1>17 DEF vars, RescueInv, RescuedTextKept
<1> QED
  BY <1>1, <1>2, <1>3, <1>4, <1>5, <1>6, <1>7, <1>8, <1>9, <1>10, <1>11, <1>12, <1>13, <1>14,
     <1>15, <1>16, <1>17 DEF Next

\* Text that a failed save put away stays in recovery/ as long as the editor that
\* holds it has not saved it.
THEOREM RescueKept == Spec => []RescuedTextKept
<1>1. Init => RescueInv
  BY EndType DEF Init, RescueInv, RescuedTextKept
<1>2. RescueInv => RescuedTextKept
  BY DEF RescueInv
<1> QED BY <1>1, <1>2, TypeInit, TypeStep, RescueStep, PTL DEF Spec

-----------------------------------------------------------------------------
(* Encrypted notes *)

\* What encrypt_note has done of its work at each step; and that no call which
\* writes or rescues plaintext is about a sealed note.
SealInv ==
  /\ SealedStaysSealed
  /\ \A n \in sealed : file[n].ext = "snote" /\ (ed.note = n => ed.ext = "snote")
  /\ job.name \in {"save", "title", "create"} => job.note \notin sealed
  /\ pc = "rename" /\ job.name = "decrypt" => job.note \notin sealed
  /\ job.name = "encrypt" =>
       /\ pc \in {"rename", "sync", "drop", "stamp"} => file[job.note].form = "container"
       /\ pc \in {"sync", "drop", "stamp"} => file[job.note].ext = "snote"
       /\ pc \in {"drop", "stamp"} => ed.ext = "snote"
       /\ pc = "stamp" => recovery[job.note] = 0

LEMMA SealStep == TypeInv /\ SealInv /\ [Next]_vars => SealInv'
<1> SUFFICES ASSUME TypeInv, SealInv, [Next]_vars PROVE SealInv'
  OBVIOUS
<1>t. /\ file \in [Notes -> File] /\ recovery \in [Notes -> Nat] /\ ed \in Editor
      /\ sealed \subseteq Notes /\ CallInv
  BY DEF TypeInv, TypeOK
<1>i. InCall => job.note \in Notes
  BY <1>t DEF CallInv
<1>s. \A n \in sealed : file[n].form = "container" /\ file[n].ext = "snote" /\ recovery[n] = 0
                        /\ (ed.note = n => ed.ext = "snote")
  BY DEF SealInv, SealedStaysSealed
<1>p. job.name \in {"save", "title", "create"} => job.note \notin sealed
  BY DEF SealInv
\* Nothing can go wrong while sealed notes keep what makes them sealed, unless
\* the call comes to a step of encrypt_note or remove_encryption.
<1>q. ASSUME \A n \in sealed' :
                 /\ n \in sealed
                 /\ file'[n].form = file[n].form /\ file'[n].ext = file[n].ext
                 /\ recovery'[n] = recovery[n]
                 /\ ed'.note = n => ed'.ext = "snote",
             job'.name \in {"save", "title", "create"} => job'.note \notin sealed',
             pc' \notin {"rename", "sync", "drop", "stamp"} \/ job'.name \notin {"encrypt", "decrypt"}
      PROVE  SealInv'
  BY <1>q, <1>s DEF SealInv, SealedStaysSealed
<1>h. ASSUME Fails, InCall, pc # "rescue", UNCHANGED <<file, recovery, sealed>> PROVE SealInv'
  <2>1. /\ \/ pc' = "idle" /\ job' = NoJob
           \/ pc' = "rescue" /\ job' = job
        /\ ed'.note \in {ed.note, NoNote}
        /\ ed'.note = ed.note /\ ed.note \in Notes => ed'.ext = ed.ext
    BY <1>h, FailsType
  <2>2. \A n \in sealed : ed'.note = n => ed'.ext = "snote"
    BY <1>s, <1>t, <2>1
  <2> QED BY <1>h, <1>p, <1>q, <2>1, <2>2 DEF NoJob
<1>1. CASE Start \/ End
  BY <1>1, <1>p, <1>q, <1>s, <1>t DEF Start, End, NoEditor, NoJob
<1>2. CASE Edit
  <2>1. ed'.ext = ed.ext /\ ed'.note = ed.note /\ pc' = "idle"
    BY <1>2, <1>t DEF Edit, Editor
  <2> QED BY <1>2, <1>p, <1>q, <1>s, <2>1 DEF Edit
<1>3. ASSUME NEW n \in Notes, ExternalEdit(n) PROVE SealInv'
  <2>1. file' = [file EXCEPT ![n].text = texts + 1] /\ UNCHANGED <<recovery, ed, pc, job, sealed>>
    BY <1>3 DEF ExternalEdit
  <2>2. \A k \in Notes : file'[k].form = file[k].form /\ file'[k].ext = file[k].ext
    BY <1>t, <2>1 DEF File
  <2>3. job.name = "encrypt" /\ pc \in {"rename", "sync", "drop", "stamp"} => job.note \in Notes
    BY <1>i DEF InCall
  <2> QED BY <1>s, <1>t, <2>1, <2>2, <2>3 DEF SealInv, SealedStaysSealed
<1>4. ASSUME NEW n \in Notes, CreateNote(n) PROVE SealInv'
  <2>1. n \notin sealed
    BY <1>4, <1>s DEF CreateNote, NoFile
  <2> QED BY <1>4, <1>q, <1>s, <2>1 DEF CreateNote, Begin
<1>5. ASSUME NEW n \in Notes, OpenNote(n) PROVE SealInv'
  <2>1. ed'.note = n /\ ed'.ext = file[n].ext
    BY <1>5 DEF OpenNote, NoEditor
  <2> QED BY <1>5, <1>q, <1>s, <2>1 DEF OpenNote, Begin
<1>6. ASSUME NEW n \in Notes, MoveToTrash(n) \/ RestoreFromTrash(n) \/ PermanentlyDelete(n)
      PROVE  SealInv'
  BY <1>6, <1>q, <1>s DEF MoveToTrash, RestoreFromTrash, PermanentlyDelete, Begin
<1>7. CASE Save
  <2>1. PICK name \in Saves : (name = "saveLocked" <=> ed.ext = "snote") /\ Begin(name, ed.note, ed.held, "verify")
    BY <1>7 DEF Save
  <2>2. name # "saveLocked" => ed.note \notin sealed
    BY <1>s, <2>1
  <2> QED BY <1>7, <1>q, <1>s, <2>1, <2>2 DEF Save, Begin, Saves
<1>8. CASE EncryptNote \/ ChangeEncryption
  BY <1>8, <1>q, <1>s DEF EncryptNote, ChangeEncryption, Begin
<1>9. CASE Verify
  <2>1. CASE Unchanged
    BY <1>9, <1>p, <1>q, <1>s, <2>1 DEF Verify
  <2>2. CASE ~Unchanged
    BY <1>9, <1>h, <2>2 DEF Verify, InCall
  <2> QED BY <2>1, <2>2
<1>10. CASE Write
  <2>1. /\ job.note \in Notes /\ UNCHANGED recovery
        /\ file' = [file EXCEPT ![job.note].at = "Notes", ![job.note].form = Form,
                                ![job.note].text = job.text]
    BY <1>10, <1>i DEF Write, InCall
  <2>2. /\ file'[job.note].form = Form
        /\ \A k \in Notes : file'[k].ext = file[k].ext /\ (k # job.note => file'[k].form = file[k].form)
    BY <1>t, <2>1 DEF File
  <2>3. sealed' = IF job.name = "decrypt" THEN sealed \ {job.note} ELSE sealed
    BY <1>10 DEF Write
  <2>4. job.note \in sealed' => Form = "container"
    <3>1. job.name \in Saves \cup {"create", "encrypt", "rekey", "decrypt"}
      BY <1>10, <1>t DEF Write, CallInv
    <3> QED BY <1>p, <2>3, <3>1 DEF Form, Saves
  <2>5. ed' \in {ed, [ed EXCEPT !.base = job.text, !.rescued = FALSE]}
    BY <1>10 DEF Write
  <2>6. ed'.note = ed.note /\ ed'.ext = ed.ext
    BY <1>t, <2>5 DEF Editor
  <2>7. \/ pc' = "idle" /\ job' = NoJob
        \/ pc' \in AfterWrite /\ job' = job
    BY <1>10 DEF Write, Return
  <2>8. job' = job /\ job.name = "encrypt" => pc' = "rename" /\ Form = "container"
    BY <2>7 DEF AfterWrite, Form, NoJob
  <2>9. SealedStaysSealed'
    BY <1>s, <1>t, <2>1, <2>2, <2>3, <2>4 DEF SealedStaysSealed
  <2>10. \A n \in sealed' : file'[n].ext = "snote" /\ (ed'.note = n => ed'.ext = "snote")
    BY <1>s, <1>t, <2>2, <2>3, <2>6
  <2>11. job'.name \in {"save", "title", "create"} => job'.note \notin sealed'
    BY <1>p, <2>3, <2>7 DEF NoJob
  <2>12. pc' = "rename" /\ job'.name = "decrypt" => job'.note \notin sealed'
    BY <2>3, <2>7 DEF NoJob
  <2>13. job'.name = "encrypt" => pc' = "rename" /\ file'[job'.note].form = "container"
    BY <2>2, <2>7, <2>8 DEF NoJob
  <2> QED BY <2>9, <2>10, <2>11, <2>12, <2>13 DEF SealInv
<1>11. CASE Rename
  <2>1. job.note \in Notes /\ pc = "rename" /\ pc' = "sync" /\ UNCHANGED <<recovery, job, sealed>>
    BY <1>11, <1>i DEF Rename, InCall
  <2>x. PICK x : /\ file' = [file EXCEPT ![job.note].ext = x]
                 /\ job.name = "encrypt" => x = "snote"
                 /\ job.name = "title" => x = file[job.note].ext
    BY <1>11, <1>t, <2>1 DEF Rename
  <2>2. /\ file'[job.note].ext = x
        /\ \A k \in Notes : file'[k].form = file[k].form /\ (k # job.note => file'[k].ext = file[k].ext)
    BY <1>t, <2>1, <2>x DEF File
  <2>3. job.name \in {"title", "encrypt", "decrypt"}
    BY <1>t, <2>1 DEF CallInv
  <2>4. ed'.note = ed.note /\ ed'.ext = ed.ext
    BY <1>11, <1>t DEF Rename, Editor
  <2>5. \A n \in sealed : file'[n].ext = "snote"
    BY <1>s, <1>t, <2>1, <2>x, <2>2, <2>3 DEF SealInv
  <2>6. job.name = "encrypt" => file'[job.note].form = "container" /\ file'[job.note].ext = "snote"
    BY <2>1, <2>x, <2>2 DEF SealInv
  <2> QED BY <1>p, <1>s, <1>t, <2>1, <2>2, <2>4, <2>5, <2>6 DEF SealInv, SealedStaysSealed
<1>12. CASE Sync
  <2>1. job.note \in Notes /\ pc = "sync" /\ UNCHANGED <<file, recovery, job, sealed>>
    BY <1>12, <1>i DEF Sync, InCall
  <2>2. job.name = "encrypt" => file[job.note].form = "container" /\ file[job.note].ext = "snote"
    BY <2>1 DEF SealInv
  <2>3. CASE job.name = "decrypt"
    BY <1>12, <1>p, <1>s, <2>1, <2>3 DEF Sync, SealInv, SealedStaysSealed
  <2>4. CASE job.name # "decrypt"
    <3>1. pc' = "drop" /\ ed' = [ed EXCEPT !.there = TRUE, !.ext = file[job.note].ext]
      BY <1>12, <2>4 DEF Sync
    <3>2. ed'.note = ed.note /\ ed'.ext = file[job.note].ext
      BY <1>t, <3>1 DEF Editor
    <3>3. job.note = ed.note
      BY <1>t, <2>1 DEF CallInv, OfEditor, Saves
    <3> QED BY <1>p, <1>s, <2>1, <2>2, <2>4, <3>1, <3>2, <3>3 DEF SealInv, SealedStaysSealed
  <2> QED BY <2>3, <2>4
<1>13. CASE Drop
  <2>1. /\ job.note \in Notes /\ pc = "drop" /\ UNCHANGED <<file, sealed>>
        /\ recovery' = [recovery EXCEPT ![job.note] = 0]
    BY <1>13, <1>i DEF Drop, InCall
  <2>2. SealedStaysSealed'
    BY <1>s, <1>t, <2>1 DEF SealedStaysSealed
  <2>3. CASE job.name = "trash"
    <3>1. job' = NoJob /\ pc' = "idle" /\ ed' \in {ed, NoEditor}
      BY <1>13, <2>3 DEF Drop, Return
    <3>2. \A n \in sealed : ed'.note = n => ed'.ext = "snote"
      BY <1>s, <1>t, <3>1, EndType
    <3> QED BY <1>s, <2>1, <2>2, <3>1, <3>2 DEF SealInv, NoJob
  <2>4. CASE job.name # "trash"
    <3>1. pc' = "stamp" /\ UNCHANGED <<ed, job>>
      BY <1>13, <2>4 DEF Drop
    <3> QED BY <1>t, <2>1, <2>2, <3>1 DEF SealInv
  <2> QED BY <2>3, <2>4
<1>14. CASE Check
  <2>1. job.name = "rekey" /\ pc' = "stamp" /\ UNCHANGED <<file, recovery, ed, job, sealed>>
    BY <1>14, <1>t DEF Check, CallInv
  <2> QED BY <1>q, <1>s, <2>1
<1>15. CASE Stamp
  <2>1. /\ job.note \in Notes /\ pc = "stamp" /\ pc' = "idle" /\ job' = NoJob
        /\ UNCHANGED <<file, recovery>>
    BY <1>15, <1>i DEF Stamp, Return, InCall
  <2>2. job.note = ed.note
    BY <1>t, <2>1 DEF CallInv
  <2>3. CASE job.name = "encrypt"
    <3>1. sealed' = sealed \cup {job.note} /\ ed' = [ed EXCEPT !.stamp = file[job.note].text, !.dirty = FALSE]
      BY <1>15, <2>3 DEF Stamp
    <3>2. ed'.note = ed.note /\ ed'.ext = "snote"
      BY <1>t, <2>1, <2>3, <3>1 DEF Editor, SealInv
    <3> QED BY <1>s, <2>1, <2>3, <3>1, <3>2 DEF SealInv, SealedStaysSealed, NoJob
  <2>4. CASE job.name \in {"rekey", "decrypt"}
    <3>1. sealed' = sealed /\ ed'.note = job.note /\ ed'.ext = file[job.note].ext
      BY <1>15, <2>4 DEF Stamp, NoEditor
    <3> QED BY <1>q, <1>s, <2>1, <3>1 DEF NoJob
  <2>5. CASE job.name \notin {"encrypt", "rekey", "decrypt"}
    <3>1. sealed' = sealed /\ ed' = [ed EXCEPT !.stamp = file[job.note].text, !.dirty = FALSE]
      BY <1>15, <2>5 DEF Stamp
    <3>2. ed'.note = ed.note /\ ed'.ext = ed.ext
      BY <1>t, <3>1 DEF Editor
    <3> QED BY <1>q, <1>s, <2>1, <3>1, <3>2 DEF NoJob
  <2> QED BY <2>3, <2>4, <2>5
<1>16. CASE Rescue
  <2>1. /\ job.name \in {"save", "title"} /\ job.note \notin sealed /\ pc' = "idle" /\ job' = NoJob
        /\ UNCHANGED <<file, sealed>>
    BY <1>16, <1>p, <1>t DEF Rescue, Return, CallInv
  <2>2. ed'.note = ed.note /\ ed'.ext = ed.ext
    BY <1>16, <1>t DEF Rescue, Editor
  <2>3. \A n \in sealed : recovery'[n] = recovery[n]
    BY <1>16, <1>t, <2>1 DEF Rescue
  <2> QED BY <1>q, <1>s, <2>1, <2>2, <2>3 DEF NoJob
<1>17. CASE Record \/ Unrecord
  BY <1>17, <1>p, <1>q, <1>s DEF Record, Unrecord, Return, NoJob
<1>18. CASE Trash \/ Back \/ Unlink
  <2>1. /\ job.note \in Notes /\ job.name \in {"trash", "restore", "delete"}
        /\ UNCHANGED <<recovery, ed, sealed>> /\ job' \in {job, NoJob}
    BY <1>18, <1>i, <1>t DEF Trash, Back, Unlink, Return, CallInv, InCall
  <2>2. file' \in {file, [file EXCEPT ![job.note].at = "Trash"],
                  [file EXCEPT ![job.note].at = "Notes"], [file EXCEPT ![job.note].at = "nowhere"]}
    BY <1>18 DEF Trash, Back, Unlink
  <2>3. \A k \in Notes : file'[k].form = file[k].form /\ file'[k].ext = file[k].ext
    BY <1>t, <2>1, <2>2 DEF File
  <2> QED BY <1>q, <1>s, <1>t, <2>1, <2>3 DEF NoJob
<1>19. CASE StepFails
  BY <1>19, <1>h DEF StepFails, InCall, Writing, Moving
<1>20. CASE UNCHANGED vars
  BY <1>20 DEF vars, SealInv, SealedStaysSealed
<1> QED
  BY <1>1, <1>2, <1>3, <1>4, <1>5, <1>6, <1>7, <1>8, <1>9, <1>10, <1>11, <1>12, <1>13, <1>14,
     <1>15, <1>16, <1>17, <1>18, <1>19, <1>20 DEF Next

\* Once encrypt_note has returned Ok and until remove_encryption writes the note
\* again, no plaintext of the note is in its file or in recovery/.
THEOREM NoPlaintextLeft == Spec => []SealedStaysSealed
<1>1. Init => SealInv
  BY DEF Init, SealInv, SealedStaysSealed, NoJob
<1>2. SealInv => SealedStaysSealed
  BY DEF SealInv
<1> QED BY <1>1, <1>2, TypeInit, TypeStep, SealStep, PTL DEF Spec

-----------------------------------------------------------------------------
(* What the vault implements *)

\* A step leaves every file where it is, or moves the file of one note as a step
\* of NoteShelf does.
Stays == \A n \in Notes : file'[n].at = file[n].at
Moves(n, from, to) ==
  /\ file[n].at = from /\ file'[n].at = to
  /\ \A k \in Notes \ {n} : file'[k].at = file[k].at

LEMMA PlaceMoves ==
  ASSUME TypeInv, PlaceInv, [Next]_vars
  PROVE  \/ Stays
         \/ \E n \in Notes : \/ Moves(n, "nowhere", "Notes") \/ Moves(n, "Notes", "Trash")
                             \/ Moves(n, "Trash", "Notes") \/ Moves(n, "Trash", "nowhere")
<1>t. file \in [Notes -> File]
  BY DEF TypeInv, TypeOK
<1>i. InCall => job.note \in Notes
  BY DEF TypeInv, CallInv
<1>u. CASE UNCHANGED file
  BY <1>u DEF Stays
<1>1. ASSUME NEW n \in Notes, ExternalEdit(n) PROVE Stays
  <2>1. file' = [file EXCEPT ![n].text = texts + 1]
    BY <1>1 DEF ExternalEdit
  <2> QED BY <1>t, <2>1 DEF Stays, File
<1>2. CASE Write
  <2>1. job.note \in Notes /\ file' = [file EXCEPT ![job.note].at = "Notes", ![job.note].form = Form,
                                                   ![job.note].text = job.text]
    BY <1>2, <1>i DEF Write, InCall
  <2>2. /\ file'[job.note].at = "Notes"
        /\ \A k \in Notes \ {job.note} : file'[k].at = file[k].at
    BY <1>t, <2>1 DEF File
  <2>3. file[job.note].at \in {"nowhere", "Notes"}
    BY <1>2 DEF Write, PlaceInv
  <2> QED BY <2>1, <2>2, <2>3 DEF Stays, Moves
<1>3. CASE Rename
  <2>1. job.note \in Notes
    BY <1>3, <1>i DEF Rename, InCall
  <2>2. PICK x : file' = [file EXCEPT ![job.note].ext = x]
    BY <1>3, <1>t DEF Rename
  <2> QED BY <1>t, <2>1, <2>2 DEF Stays, File
<1>4. CASE Trash
  <2>1. job.note \in Notes /\ file[job.note].at = "Notes"
    BY <1>4, <1>i DEF Trash, PlaceInv, InCall
  <2>2. file' = file \/ file' = [file EXCEPT ![job.note].at = "Trash"]
    BY <1>4 DEF Trash
  <2>3. CASE file' = [file EXCEPT ![job.note].at = "Trash"]
    BY <1>t, <2>1, <2>3 DEF Moves, File
  <2> QED BY <1>u, <2>1, <2>2, <2>3
<1>5. CASE Back
  <2>1. /\ job.note \in Notes /\ file[job.note].at = "Trash"
        /\ file' = [file EXCEPT ![job.note].at = "Notes"]
    BY <1>5, <1>i DEF Back, Trashed, InCall
  <2>2. Moves(job.note, "Trash", "Notes")
    BY <1>t, <2>1 DEF Moves, File
  <2> QED BY <2>1, <2>2
<1>6. CASE Unlink
  <2>1. /\ job.note \in Notes /\ file[job.note].at = "Trash"
        /\ file' = [file EXCEPT ![job.note].at = "nowhere"]
    BY <1>6, <1>i DEF Unlink, Trashed, InCall
  <2>2. Moves(job.note, "Trash", "nowhere")
    BY <1>t, <2>1 DEF Moves, File
  <2> QED BY <2>1, <2>2
<1>7. CASE \/ Start \/ End \/ Edit \/ Save \/ EncryptNote \/ ChangeEncryption
           \/ \E n \in Notes : CreateNote(n) \/ OpenNote(n) \/ MoveToTrash(n)
                                 \/ RestoreFromTrash(n) \/ PermanentlyDelete(n)
  BY <1>7, <1>u DEF Start, End, Edit, Save, EncryptNote, ChangeEncryption, CreateNote, OpenNote,
     MoveToTrash, RestoreFromTrash, PermanentlyDelete, Begin
<1>8. CASE Verify \/ Sync \/ Drop \/ Check \/ Stamp \/ Rescue \/ Record \/ Unrecord \/ StepFails
  BY <1>8, <1>u DEF Verify, Sync, Drop, Check, Stamp, Rescue, Record, Unrecord, StepFails
<1>9. CASE UNCHANGED vars
  BY <1>9, <1>u DEF vars
<1> QED BY <1>1, <1>2, <1>3, <1>4, <1>5, <1>6, <1>7, <1>8, <1>9 DEF Next

\* A Standard Vault implements NoteShelf: whatever fails, wherever the program
\* dies, a note is in the vault, in the trash the user sees, or deleted from there.
THEOREM Refinement == Spec => ImplementsNoteShelf
<1> DEFINE Live == {n \in Notes : file[n].at = "Notes"}
           Discarded == {n \in Notes : Trashed(n)}
<1>1. Init => NS!Init
  BY DEF Init, NS!Init, Trashed, NoFile
<1>2. TypeInv /\ PlaceInv /\ [Next]_vars => [NS!Next]_<<Live, Discarded>>
  <2> SUFFICES ASSUME TypeInv, PlaceInv, [Next]_vars PROVE [NS!Next]_<<Live, Discarded>>
    OBVIOUS
  <2>1. TrashHasRecord /\ TrashHasRecord'
    BY PlaceStep DEF PlaceInv
  <2>2. /\ Discarded = {n \in Notes : file[n].at = "Trash"}
        /\ Discarded' = {n \in Notes : file'[n].at = "Trash"}
        /\ Live' = {n \in Notes : file'[n].at = "Notes"}
    BY <2>1 DEF TrashHasRecord, Trashed
  <2> HIDE DEF Live, Discarded
  <2>l. Live = {n \in Notes : file[n].at = "Notes"}
    BY DEF Live
  <2>3. CASE Stays
    <3>1. Live' = Live /\ Discarded' = Discarded
      BY <2>2, <2>l, <2>3 DEF Stays
    <3> QED BY <3>1
  <2>4. ASSUME NEW n \in Notes, Moves(n, "nowhere", "Notes") PROVE NS!Next
    <3>1. n \notin Live \cup Discarded /\ Live' = Live \cup {n} /\ Discarded' = Discarded
      BY <2>2, <2>l, <2>4 DEF Moves
    <3> QED BY <3>1 DEF NS!Next, NS!Create, Live, Discarded
  <2>5. ASSUME NEW n \in Notes, Moves(n, "Notes", "Trash") PROVE NS!Next
    <3>1. n \in Live /\ Live' = Live \ {n} /\ Discarded' = Discarded \cup {n}
      BY <2>2, <2>l, <2>5 DEF Moves
    <3> QED BY <3>1 DEF NS!Next, NS!Discard, Live, Discarded
  <2>6. ASSUME NEW n \in Notes, Moves(n, "Trash", "Notes") PROVE NS!Next
    <3>1. n \in Discarded /\ Live' = Live \cup {n} /\ Discarded' = Discarded \ {n}
      BY <2>2, <2>l, <2>6 DEF Moves
    <3> QED BY <3>1 DEF NS!Next, NS!Restore, Live, Discarded
  <2>7. ASSUME NEW n \in Notes, Moves(n, "Trash", "nowhere") PROVE NS!Next
    <3>1. n \in Discarded /\ Live' = Live /\ Discarded' = Discarded \ {n}
      BY <2>2, <2>l, <2>7 DEF Moves
    <3> QED BY <3>1 DEF NS!Next, NS!Delete, Live, Discarded
  <2> QED BY <2>3, <2>4, <2>5, <2>6, <2>7, PlaceMoves
<1>3. Init => PlaceInv
  BY DEF Init, PlaceInv, TrashHasRecord, NoFile
<1> QED BY <1>1, <1>2, <1>3, TypeInit, TypeStep, PlaceStep, PTL DEF Spec, ImplementsNoteShelf, NS!Spec
=============================================================================
