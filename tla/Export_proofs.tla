--------------------------- MODULE Export_proofs ---------------------------
(***************************************************************************)
(* What the export promises, for any notes and any number of saves: the    *)
(* folder holds all of one snapshot or nothing, the answer is true, and    *)
(* what was there before stays.                                            *)
(***************************************************************************)
EXTENDS Export, TLAPS

\* From the snapshot on, no text is older than it.
SnapshotIsPast ==
    worker.pc \in {"stage", "prepare", "notes", "trash", "check", "move"} =>
        \A n \in Notes : worker.snap.base[n] <= text[n]

\* What was copied was copied between the snapshot and now.
CopiedSince ==
    worker.pc \in {"prepare", "notes", "trash", "check", "move"} =>
        /\ temp.there
        /\ worker.pc # "prepare" => temp.vault
        /\ \A n \in Notes : temp.files[n] # None =>
               /\ worker.snap.base[n] <= temp.files[n]
               /\ temp.files[n] <= text[n]

\* Past the validation everything has been copied.
CheckedIsBuilt ==
    worker.pc = "move" =>
        /\ \A n \in Notes : temp.files[n] # None
        /\ temp.records = worker.snap.trash

\* Past validate_destination the folder holds nothing the worker could see.
FolderIsFree ==
    worker.pc \notin {"idle", "validate", "returned"} => ~dest.vault /\ others # "before"

\* Before make_temp_dir there is no staging directory; the cleanup knows why.
StagingKnown ==
    /\ worker.pc \in {"validate", "keys", "manifest", "stage"} => ~temp.there
    /\ worker.pc \in {"remove-destination", "remove-staging"} =>
           temp.there /\ worker.result \in {"cancelled", "failed"}

IInv ==
    /\ TypeOK
    /\ SnapshotIsPast /\ CopiedSince /\ CheckedIsBuilt /\ FolderIsFree /\ StagingKnown
    /\ DestinationIsWhole /\ AnswerIsTrue

\* The directories the steps build.
LEMMA DirectoryTypes ==
    /\ NoDirectory \in Directory
    /\ [NoDirectory EXCEPT !.there = TRUE] \in Directory
    /\ ~NoDirectory.there /\ ~NoDirectory.vault
    /\ [NoDirectory EXCEPT !.there = TRUE].there
    /\ ~[NoDirectory EXCEPT !.there = TRUE].vault
    /\ \A n \in Notes : [NoDirectory EXCEPT !.there = TRUE].files[n] = None
  BY DEF NoDirectory, Directory, NoFiles, Files

\* Copying a text keeps the type of a directory.
LEMMA DirectoryCopies ==
    TypeOK => /\ [temp EXCEPT !.vault = TRUE] \in Directory
              /\ \A n \in Notes :
                   /\ [temp EXCEPT !.files[n] = text[n]] \in Directory
                   /\ [temp EXCEPT !.files[n] = text[n], !.records = @ \cup {n}] \in Directory
<1>0. TypeOK => [temp EXCEPT !.vault = TRUE] \in Directory
  BY DEF TypeOK, Directory
<1> SUFFICES ASSUME TypeOK, NEW n \in Notes
             PROVE /\ [temp EXCEPT !.files[n] = text[n]] \in Directory
                   /\ [temp EXCEPT !.files[n] = text[n], !.records = @ \cup {n}] \in Directory
  BY <1>0
<1>1. /\ temp.files \in Files /\ temp.records \in SUBSET Notes
      /\ temp = [there |-> temp.there, vault |-> temp.vault, files |-> temp.files,
                 records |-> temp.records]
      /\ temp.there \in BOOLEAN /\ temp.vault \in BOOLEAN
  BY DEF TypeOK, Directory
<1>2. [temp.files EXCEPT ![n] = text[n]] \in Files
  BY <1>1 DEF TypeOK, Files
<1> QED
  BY <1>1, <1>2 DEF Directory

LEMMA SnapshotTypes ==
    /\ NoSnapshot \in Snapshot
    /\ TypeOK => [trash |-> trashed, base |-> text] \in Snapshot
  BY ExportAssumption DEF NoSnapshot, Snapshot, Versions, TypeOK

\* The names the steps use are names of their sets.
LEMMA Names ==
    /\ "none" \in Steps /\ "explainer" \in Steps /\ "password" \in Steps
    /\ "folder" \in Steps /\ "confirm" \in Steps /\ "progress" \in Steps
    /\ "complete" \in Steps /\ "failed" \in Steps /\ "apart" \in Places
    /\ "idle" \in PCs /\ "validate" \in PCs /\ "keys" \in PCs /\ "manifest" \in PCs
    /\ "stage" \in PCs /\ "prepare" \in PCs /\ "notes" \in PCs /\ "trash" \in PCs
    /\ "check" \in PCs /\ "move" \in PCs /\ "remove-destination" \in PCs
    /\ "remove-staging" \in PCs /\ "returned" \in PCs
    /\ "none" \in Results /\ "exported" \in Results /\ "cancelled" \in Results
    /\ "failed" \in Results /\ "cleanup-failed" \in Results /\ "crashed" \in Results
  BY DEF Steps, PCs, Results, Places

\* What the handlers make of the dialog has its type.
LEMMA DialogTypes ==
    /\ NoDialog \in DialogStates
    /\ \A step \in Steps : [NoDialog EXCEPT !.step = step] \in DialogStates
    /\ dialog \in DialogStates =>
         /\ \A step \in Steps : Goto(step) => dialog' \in DialogStates
         /\ \A right \in BOOLEAN :
              [dialog EXCEPT !.step = "folder", !.right = right] \in DialogStates
         /\ \A place \in Places :
              [dialog EXCEPT !.step = "confirm", !.place = place] \in DialogStates
<1>1. NoDialog \in DialogStates
  BY Names DEF NoDialog, DialogStates
<1> QED
  BY <1>1, Names DEF DialogStates, Goto

\* What the steps make of the worker has its type.
LEMMA WorkerTypes ==
    ASSUME worker \in WorkerStates
    PROVE  /\ \A pc \in PCs, result \in Results, snap \in Snapshot :
                [pc |-> pc, result |-> result, snap |-> snap] \in WorkerStates
           /\ \A pc \in PCs : [worker EXCEPT !.pc = pc] \in WorkerStates
           /\ \A pc \in PCs : Proceed(pc) => worker' \in WorkerStates
           /\ \A result \in Results : Return(result) => worker' \in WorkerStates
           /\ \A result \in Results : CleanUp(result) => worker' \in WorkerStates /\ todo' = {}
<1>1. \A pc \in PCs, result \in Results, snap \in Snapshot :
          [pc |-> pc, result |-> result, snap |-> snap] \in WorkerStates
  BY DEF WorkerStates
<1>2. \A pc \in PCs : [worker EXCEPT !.pc = pc] \in WorkerStates
  BY DEF WorkerStates
<1> QED
  BY <1>1, <1>2, SnapshotTypes, Names DEF Proceed, Return, CleanUp

LEMMA WorkerResets ==
    ASSUME worker \in WorkerStates
    PROVE  /\ [worker EXCEPT !.pc = "validate", !.result = "none"] \in WorkerStates
           /\ \A snap \in Snapshot :
                [worker EXCEPT !.pc = "stage", !.snap = snap] \in WorkerStates
  BY Names DEF WorkerStates

\* What the steps make of the worker.
LEMMA WorkerEffects ==
    ASSUME worker \in WorkerStates
    PROVE  /\ \A pc \in PCs : Proceed(pc) =>
                worker'.pc = pc /\ worker'.result = worker.result /\ worker'.snap = worker.snap
           /\ \A result \in Results : Return(result) =>
                worker'.pc = "returned" /\ worker'.result = result
           /\ \A result \in Results : CleanUp(result) =>
                worker'.pc = "remove-destination" /\ worker'.result = result
           /\ worker' = [worker EXCEPT !.pc = "validate", !.result = "none"] =>
                worker'.pc = "validate"
           /\ worker' = [worker EXCEPT !.pc = "idle"] => worker'.pc = "idle"
           /\ \A snap \in Snapshot : worker' = [worker EXCEPT !.pc = "stage", !.snap = snap] =>
                worker'.pc = "stage" /\ worker'.snap = snap
<1>1. DOMAIN worker = {"pc", "result", "snap"}
  BY DEF WorkerStates
<1>2. \A pc \in PCs : Proceed(pc) =>
          worker'.pc = pc /\ worker'.result = worker.result /\ worker'.snap = worker.snap
  BY <1>1 DEF Proceed
<1>3. \A result \in Results : Return(result) =>
          worker'.pc = "returned" /\ worker'.result = result
  BY DEF Return
<1>4. \A result \in Results : CleanUp(result) =>
          worker'.pc = "remove-destination" /\ worker'.result = result
  BY DEF CleanUp
<1>5. worker' = [worker EXCEPT !.pc = "validate", !.result = "none"] => worker'.pc = "validate"
  BY DEF WorkerStates
<1>6. worker' = [worker EXCEPT !.pc = "idle"] => worker'.pc = "idle"
  BY <1>1
<1>7. \A snap \in Snapshot : worker' = [worker EXCEPT !.pc = "stage", !.snap = snap] =>
          worker'.pc = "stage" /\ worker'.snap = snap
  BY DEF WorkerStates
<1> QED
  BY <1>2, <1>3, <1>4, <1>5, <1>6, <1>7

\* The initial states are good.
LEMMA InitGood == Init => IInv
<1> SUFFICES ASSUME Init PROVE IInv
  OBVIOUS
<1>1. text \in [Notes -> Versions] /\ trashed \in SUBSET Notes /\ attachments \in BOOLEAN
  BY ExportAssumption DEF Init, Versions
<1>2. session \in [unlocked : BOOLEAN, current : BOOLEAN]
  BY DEF Init
<1>3. dialog \in DialogStates
  BY DialogTypes DEF Init
<1>4. worker \in WorkerStates
  BY SnapshotTypes, Names DEF Init, WorkerStates
<1>5. temp \in Directory /\ dest \in Directory /\ made \in Snapshot
  BY DirectoryTypes, SnapshotTypes DEF Init
<1>6. todo \in SUBSET Notes /\ cancelled \in BOOLEAN /\ others \in {"none", "before", "meanwhile"}
  BY DEF Init
<1>7. worker.pc = "idle" /\ ~dest.vault
  BY DirectoryTypes DEF Init
<1> QED
  BY <1>1, <1>2, <1>3, <1>4, <1>5, <1>6, <1>7
     DEF IInv, TypeOK, SnapshotIsPast, CopiedSince, CheckedIsBuilt, FolderIsFree,
         StagingKnown, DestinationIsWhole, AnswerIsTrue

-----------------------------------------------------------------------------
(* Types *)

LEMMA TypeStep == TypeOK /\ [Next]_vars => TypeOK'
<1> SUFFICES ASSUME TypeOK, [Next]_vars PROVE TypeOK'
  OBVIOUS
<1>1. CASE Dialogs
  <2>1. (text \in [Notes -> Versions] /\ trashed \in SUBSET Notes /\ attachments \in BOOLEAN)'
    BY <1>1 DEF TypeOK, Dialogs, AskExport, Explained, PasswordTyped, FolderChosen,
           Confirmed, Dismissed, RequestCancel, Answer, World, Source, Worker, Disk
  <2>2. (session \in [unlocked : BOOLEAN, current : BOOLEAN])'
    BY <1>1 DEF TypeOK, Dialogs, AskExport, Explained, PasswordTyped, FolderChosen,
           Confirmed, Dismissed, RequestCancel, Answer, World, Source, Worker, Disk
  <2>3. (dialog \in DialogStates)'
    BY <1>1, DialogTypes, Names DEF TypeOK, Dialogs, AskExport, Explained, PasswordTyped,
           FolderChosen, Confirmed, Dismissed, RequestCancel, Answer, World, Source, Worker,
           Disk, Close
  <2>4. (worker \in WorkerStates)'
    BY <1>1, SnapshotTypes, WorkerTypes, WorkerResets, Names
       DEF TypeOK, Dialogs, AskExport, Explained,
           PasswordTyped, FolderChosen, Confirmed, Dismissed, RequestCancel, Answer, World,
           Source, Worker, Disk
  <2>5. (todo \in SUBSET Notes /\ cancelled \in BOOLEAN)'
    BY <1>1 DEF TypeOK, Dialogs, AskExport, Explained, PasswordTyped, FolderChosen,
           Confirmed, Dismissed, RequestCancel, Answer, World, Source, Worker, Disk
  <2>6. (temp \in Directory /\ dest \in Directory /\ made \in Snapshot)'
    BY <1>1, DirectoryTypes, DirectoryCopies DEF TypeOK, Dialogs, AskExport, Explained,
           PasswordTyped, FolderChosen, Confirmed, Dismissed, RequestCancel, Answer, World,
           Source, Worker, Disk
  <2>7. (others \in {"none", "before", "meanwhile"})'
    BY <1>1 DEF TypeOK, Dialogs, AskExport, Explained, PasswordTyped, FolderChosen,
           Confirmed, Dismissed, RequestCancel, Answer, World, Source, Worker, Disk
  <2> QED
    BY <2>1, <2>2, <2>3, <2>4, <2>5, <2>6, <2>7 DEF TypeOK
<1>2. CASE \E n \in Notes : Autosave(n) \/ MoveNote(n)
  <2>1. (text \in [Notes -> Versions] /\ trashed \in SUBSET Notes /\ attachments \in BOOLEAN)'
    BY <1>2, ExportAssumption DEF TypeOK, Autosave, MoveNote, World, Source, Worker, Disk,
           Versions
  <2>2. (session \in [unlocked : BOOLEAN, current : BOOLEAN])'
    BY <1>2 DEF TypeOK, Autosave, MoveNote, World, Source, Worker, Disk
  <2>3. (dialog \in DialogStates)'
    BY <1>2 DEF TypeOK, Autosave, MoveNote, World, Source, Worker, Disk
  <2>4. (worker \in WorkerStates)'
    BY <1>2, SnapshotTypes, WorkerTypes, WorkerResets, Names DEF TypeOK, Autosave, MoveNote, World,
           Source, Worker, Disk
  <2>5. (todo \in SUBSET Notes /\ cancelled \in BOOLEAN)'
    BY <1>2 DEF TypeOK, Autosave, MoveNote, World, Source, Worker, Disk
  <2>6. (temp \in Directory /\ dest \in Directory /\ made \in Snapshot)'
    BY <1>2, DirectoryTypes, DirectoryCopies DEF TypeOK, Autosave, MoveNote, World, Source,
           Worker, Disk
  <2>7. (others \in {"none", "before", "meanwhile"})'
    BY <1>2 DEF TypeOK, Autosave, MoveNote, World, Source, Worker, Disk
  <2> QED
    BY <2>1, <2>2, <2>3, <2>4, <2>5, <2>6, <2>7 DEF TypeOK
<1>3. CASE LockVault \/ UnlockVault \/ MakeFolder \/ PutFile \/ RemoveFolder \/ Crash
  <2>1. (text \in [Notes -> Versions] /\ trashed \in SUBSET Notes /\ attachments \in BOOLEAN)'
    BY <1>3 DEF TypeOK, LockVault, UnlockVault, MakeFolder, PutFile, RemoveFolder, Crash,
           World, Source, Worker, Disk
  <2>2. (session \in [unlocked : BOOLEAN, current : BOOLEAN])'
    <3>1. \A u \in BOOLEAN :
            [unlocked |-> u, current |-> FALSE] \in [unlocked : BOOLEAN, current : BOOLEAN]
      OBVIOUS
    <3>2. CASE LockVault \/ UnlockVault \/ Crash
      BY <3>1, <3>2, Zenon DEF LockVault, UnlockVault, Crash
    <3>3. CASE MakeFolder \/ PutFile \/ RemoveFolder
      BY <3>3 DEF TypeOK, MakeFolder, PutFile, RemoveFolder
    <3> QED
      BY <1>3, <3>2, <3>3
  <2>3. (dialog \in DialogStates)'
    BY <1>3, DialogTypes, Names DEF TypeOK, LockVault, UnlockVault, MakeFolder, PutFile,
           RemoveFolder, Crash, World, Source, Worker, Disk, Close
  <2>4. (worker \in WorkerStates)'
    <3>1. CASE Crash
      <4>1. [pc |-> "idle", result |-> "crashed", snap |-> NoSnapshot] \in WorkerStates
        BY SnapshotTypes, Names DEF WorkerStates
      <4> QED
        BY <3>1, <4>1 DEF TypeOK, Crash
    <3>2. CASE LockVault \/ UnlockVault \/ MakeFolder \/ PutFile \/ RemoveFolder
      BY <3>2 DEF TypeOK, LockVault, UnlockVault, MakeFolder, PutFile, RemoveFolder, Worker
    <3> QED
      BY <1>3, <3>1, <3>2
  <2>5. (todo \in SUBSET Notes /\ cancelled \in BOOLEAN)'
    BY <1>3 DEF TypeOK, LockVault, UnlockVault, MakeFolder, PutFile, RemoveFolder, Crash,
           World, Source, Worker, Disk
  <2>6. (temp \in Directory /\ dest \in Directory /\ made \in Snapshot)'
    BY <1>3, DirectoryTypes, DirectoryCopies DEF TypeOK, LockVault, UnlockVault, MakeFolder,
           PutFile, RemoveFolder, Crash, World, Source, Worker, Disk
  <2>7. (others \in {"none", "before", "meanwhile"})'
    BY <1>3 DEF TypeOK, LockVault, UnlockVault, MakeFolder, PutFile, RemoveFolder, Crash,
           World, Source, Worker, Disk
  <2> QED
    BY <2>1, <2>2, <2>3, <2>4, <2>5, <2>6, <2>7 DEF TypeOK
<1>4. CASE \E n \in Notes : CopyNote(n) \/ CopyTrashed(n)
  <2>1. (text \in [Notes -> Versions] /\ trashed \in SUBSET Notes /\ attachments \in BOOLEAN)'
    BY <1>4 DEF TypeOK, CopyNote, CopyTrashed, World, Source, Worker, Disk
  <2>2. (session \in [unlocked : BOOLEAN, current : BOOLEAN])'
    BY <1>4 DEF TypeOK, CopyNote, CopyTrashed, World, Source, Worker, Disk
  <2>3. (dialog \in DialogStates)'
    BY <1>4 DEF TypeOK, CopyNote, CopyTrashed, World, Source, Worker, Disk
  <2>4. (worker \in WorkerStates)'
    BY <1>4, SnapshotTypes, WorkerTypes, WorkerResets, Names
       DEF TypeOK, CopyNote, CopyTrashed, World,
           Source, Worker, Disk
  <2>5. (todo \in SUBSET Notes /\ cancelled \in BOOLEAN)'
    BY <1>4 DEF TypeOK, CopyNote, CopyTrashed, World, Source, Worker, Disk
  <2>6. (temp \in Directory /\ dest \in Directory /\ made \in Snapshot)'
    BY <1>4, DirectoryTypes, DirectoryCopies DEF TypeOK, CopyNote, CopyTrashed, World,
           Source, Worker, Disk
  <2>7. (others \in {"none", "before", "meanwhile"})'
    BY <1>4 DEF TypeOK, CopyNote, CopyTrashed, World, Source, Worker, Disk
  <2> QED
    BY <2>1, <2>2, <2>3, <2>4, <2>5, <2>6, <2>7 DEF TypeOK
<1>5. CASE Validate \/ DeriveKeys \/ ReadManifest \/ MakeStaging \/ Prepare \/ NotesCopied
  <2>1. (text \in [Notes -> Versions] /\ trashed \in SUBSET Notes /\ attachments \in BOOLEAN)'
    BY <1>5 DEF TypeOK, Validate, DeriveKeys, ReadManifest, MakeStaging, Prepare,
           NotesCopied, World, Source, Worker, Disk
  <2>2. (session \in [unlocked : BOOLEAN, current : BOOLEAN])'
    BY <1>5 DEF TypeOK, Validate, DeriveKeys, ReadManifest, MakeStaging, Prepare,
           NotesCopied, World, Source, Worker, Disk
  <2>3. (dialog \in DialogStates)'
    BY <1>5 DEF TypeOK, Validate, DeriveKeys, ReadManifest, MakeStaging, Prepare,
           NotesCopied, World, Source, Worker, Disk
  <2>4. (worker \in WorkerStates)'
    BY <1>5, SnapshotTypes, WorkerTypes, WorkerResets, Names DEF TypeOK, Validate, DeriveKeys,
           ReadManifest, MakeStaging, Prepare, NotesCopied, World, Source, Worker, Disk
  <2>5. (todo \in SUBSET Notes /\ cancelled \in BOOLEAN)'
    BY <1>5 DEF TypeOK, Validate, DeriveKeys, ReadManifest, MakeStaging, Prepare,
           NotesCopied, World, Source, Worker, Disk, Snapshot, WorkerStates
  <2>6. (temp \in Directory /\ dest \in Directory /\ made \in Snapshot)'
    BY <1>5, DirectoryTypes, DirectoryCopies DEF TypeOK, Validate, DeriveKeys, ReadManifest,
           MakeStaging, Prepare, NotesCopied, World, Source, Worker, Disk
  <2>7. (others \in {"none", "before", "meanwhile"})'
    BY <1>5 DEF TypeOK, Validate, DeriveKeys, ReadManifest, MakeStaging, Prepare,
           NotesCopied, World, Source, Worker, Disk
  <2> QED
    BY <2>1, <2>2, <2>3, <2>4, <2>5, <2>6, <2>7 DEF TypeOK
<1>6. CASE \/ Cancelled \/ TrashCopied \/ Check \/ Move \/ MoveRefused
           \/ RemoveDestination \/ RemoveStaging \/ Fails
  <2>1. (text \in [Notes -> Versions] /\ trashed \in SUBSET Notes /\ attachments \in BOOLEAN)'
    BY <1>6 DEF TypeOK, Cancelled, TrashCopied, Check, Move, MoveRefused, RemoveDestination,
           RemoveStaging, Fails, World, Source, Worker, Disk
  <2>2. (session \in [unlocked : BOOLEAN, current : BOOLEAN])'
    BY <1>6 DEF TypeOK, Cancelled, TrashCopied, Check, Move, MoveRefused, RemoveDestination,
           RemoveStaging, Fails, World, Source, Worker, Disk
  <2>3. (dialog \in DialogStates)'
    BY <1>6 DEF TypeOK, Cancelled, TrashCopied, Check, Move, MoveRefused, RemoveDestination,
           RemoveStaging, Fails, World, Source, Worker, Disk
  <2>4. (worker \in WorkerStates)'
    <3>1. worker \in WorkerStates
      BY DEF TypeOK
    <3>2. CASE Cancelled \/ MoveRefused \/ Fails
      BY <3>1, <3>2, WorkerTypes, Names DEF Cancelled, MoveRefused, Fails
    <3>3. CASE TrashCopied \/ Check \/ Move \/ RemoveDestination
      BY <3>1, <3>3, WorkerTypes, Names DEF TrashCopied, Check, Move, RemoveDestination
    <3>4. CASE RemoveStaging
      <4>1. worker.result \in Results
        BY <3>1 DEF WorkerStates
      <4> QED
        BY <3>1, <3>4, <4>1, WorkerTypes, Names DEF RemoveStaging
    <3> QED
      BY <1>6, <3>2, <3>3, <3>4
  <2>5. (todo \in SUBSET Notes /\ cancelled \in BOOLEAN)'
    BY <1>6, WorkerTypes, Names DEF TypeOK, Cancelled, TrashCopied, Check, Move,
           MoveRefused, RemoveDestination, RemoveStaging, Fails, World, Source, Worker, Disk
  <2>6. (temp \in Directory /\ dest \in Directory /\ made \in Snapshot)'
    BY <1>6, DirectoryTypes, DirectoryCopies DEF TypeOK, Cancelled, TrashCopied, Check,
           Move, MoveRefused, RemoveDestination, RemoveStaging, Fails, World, Source,
           Worker, Disk, WorkerStates
  <2>7. (others \in {"none", "before", "meanwhile"})'
    BY <1>6 DEF TypeOK, Cancelled, TrashCopied, Check, Move, MoveRefused, RemoveDestination,
           RemoveStaging, Fails, World, Source, Worker, Disk
  <2> QED
    BY <2>1, <2>2, <2>3, <2>4, <2>5, <2>6, <2>7 DEF TypeOK
<1>7. CASE UNCHANGED vars
  BY <1>7 DEF vars, TypeOK
<1> QED
  BY <1>1, <1>2, <1>3, <1>4, <1>5, <1>6, <1>7 DEF Next, Outside, Work

\* Every state of the export has its type.
THEOREM TypeCorrect == Spec => []TypeOK
<1>1. Init => TypeOK
  BY InitGood DEF IInv
<1> QED
  BY <1>1, TypeStep, PTL DEF Spec

-----------------------------------------------------------------------------
(* The inductive invariant, part by part *)

\* Where each step leaves the worker.
LEMMA WorkerMoves ==
    ASSUME TypeOK
    PROVE  /\ Confirmed => worker'.pc = "validate"
           /\ Answer \/ Crash => worker'.pc = "idle"
           /\ Validate => worker'.pc \in {"keys", "returned"}
           /\ DeriveKeys => worker'.pc \in {"manifest", "returned"}
           /\ ReadManifest => worker'.pc \in {"stage", "returned"}
           /\ Validate /\ worker'.pc = "returned" => worker'.result = "failed"
           /\ DeriveKeys /\ worker'.pc = "returned" => worker'.result = "failed"
           /\ ReadManifest /\ worker'.pc = "returned" => worker'.result = "failed"
           /\ RemoveDestination =>
                worker'.pc = "remove-staging" /\ worker'.result = worker.result
           /\ Cancelled \/ MoveRefused \/ Fails \/ Move \/ RemoveStaging =>
                worker'.pc \in {"remove-destination", "returned"}
<1> USE TypeOK
<1>w. worker \in WorkerStates
  BY DEF TypeOK
<1>1. Confirmed => worker'.pc = "validate"
  BY <1>w, WorkerEffects DEF Confirmed
<1>2. Answer => worker'.pc = "idle"
  BY <1>w, WorkerEffects DEF Answer
<1>3. Crash => worker'.pc = "idle"
  BY DEF Crash
<1>4. Validate => worker'.pc = "keys" \/ (worker'.pc = "returned" /\ worker'.result = "failed")
  BY <1>w, WorkerEffects, Names DEF Validate
<1>5. DeriveKeys =>
        worker'.pc = "manifest" \/ (worker'.pc = "returned" /\ worker'.result = "failed")
  BY <1>w, WorkerEffects, Names DEF DeriveKeys
<1>6. ReadManifest =>
        worker'.pc = "stage" \/ (worker'.pc = "returned" /\ worker'.result = "failed")
  <2>1. [trash |-> trashed, base |-> text] \in Snapshot
    BY SnapshotTypes
  <2> QED
    BY <2>1, <1>w, WorkerEffects, Names DEF ReadManifest
<1>7. RemoveDestination => worker'.pc = "remove-staging" /\ worker'.result = worker.result
  BY <1>w, WorkerEffects, Names DEF RemoveDestination
<1>8. Cancelled \/ MoveRefused \/ Fails \/ Move \/ RemoveStaging =>
        worker'.pc \in {"remove-destination", "returned"}
  BY DEF Cancelled, MoveRefused, Fails, Move, RemoveStaging, Return, CleanUp
<1> QED
  BY <1>1, <1>2, <1>3, <1>4, <1>5, <1>6, <1>7, <1>8

LEMMA SnapshotStep == IInv /\ [Next]_vars => SnapshotIsPast'
<1> SUFFICES ASSUME IInv, [Next]_vars PROVE SnapshotIsPast'
  OBVIOUS
<1> USE DEF IInv, SnapshotIsPast
<1>0. TypeOK'
  BY TypeStep
<1>w. worker \in WorkerStates
  BY DEF TypeOK
<1>1. CASE UNCHANGED <<text, worker>>
  BY <1>1
<1>2. CASE \E n \in Notes : Autosave(n)
  BY <1>2, ExportAssumption DEF Autosave, TypeOK, Worker, Versions, WorkerStates, Snapshot
<1>3. CASE ReadManifest
  <2>1. \A n \in Notes : text[n] <= text[n]
    BY ExportAssumption DEF TypeOK, Versions
  <2>2. worker'.pc = "returned" \/ (worker'.snap.base = text /\ text' = text)
    <3>1. CASE attachments
      BY <1>3, <3>1, <1>w, WorkerEffects, Names DEF ReadManifest
    <3>2. CASE ~attachments
      <4>1. [trash |-> trashed, base |-> text] \in Snapshot
        BY SnapshotTypes
      <4>2. worker'.snap = [trash |-> trashed, base |-> text]
        BY <1>3, <3>2, <4>1, <1>w, WorkerEffects DEF ReadManifest
      <4> QED
        BY <1>3, <4>2 DEF ReadManifest, World, Source
    <3> QED
      BY <3>1, <3>2
  <2> QED
    BY <2>1, <2>2
<1>4. CASE Confirmed \/ Answer \/ Crash
  BY <1>4, WorkerMoves
<1>5. CASE Validate \/ DeriveKeys \/ MakeStaging \/ Prepare \/ NotesCopied \/ TrashCopied
           \/ Check \/ RemoveDestination
  BY <1>5 DEF Validate, DeriveKeys, MakeStaging, Prepare, NotesCopied, TrashCopied, Check,
              RemoveDestination, World, Source, Proceed, Return, TypeOK, WorkerStates
<1>6. CASE Cancelled \/ Move \/ MoveRefused \/ RemoveStaging \/ Fails
  BY <1>6 DEF Cancelled, Move, MoveRefused, RemoveStaging, Fails, Return, CleanUp
<1> QED
  BY <1>1, <1>2, <1>3, <1>4, <1>5, <1>6
     DEF Next, vars, Dialogs, Outside, Work, AskExport, Explained, PasswordTyped, FolderChosen,
         Dismissed, RequestCancel, MoveNote, LockVault, UnlockVault, MakeFolder, PutFile,
         RemoveFolder, CopyNote, CopyTrashed, Source, Worker, World, Disk

LEMMA CopiedStep == IInv /\ [Next]_vars => CopiedSince'
<1> SUFFICES ASSUME IInv, [Next]_vars PROVE CopiedSince'
  OBVIOUS
<1>t. TypeOK /\ TypeOK' /\ worker \in WorkerStates
  BY TypeStep DEF IInv, TypeOK
<1>i. CopiedSince /\ SnapshotIsPast
  BY DEF IInv
<1>1. CASE UNCHANGED <<text, worker, temp>>
  BY <1>1, <1>i DEF CopiedSince
<1>2. CASE \E n \in Notes : Autosave(n)
  <2>1. \A n \in Notes : text[n] \in Nat /\ text[n] <= text'[n] /\ text'[n] \in Nat
    BY <1>2, <1>t, ExportAssumption DEF Autosave, TypeOK, Versions
  <2>2. \A n \in Notes : temp.files[n] # None => temp.files[n] \in Nat
    BY <1>t DEF TypeOK, Directory, Files, Versions
  <2> QED
    BY <1>2, <1>i, <2>1, <2>2 DEF Autosave, CopiedSince, Worker, Disk
<1>3. CASE MakeStaging
  BY <1>3, <1>t, DirectoryTypes, WorkerEffects, Names DEF MakeStaging, CopiedSince
<1>4. CASE Prepare
  <2>1. temp'.files = temp.files /\ temp'.there = temp.there /\ temp'.vault
    BY <1>4, <1>t DEF Prepare, TypeOK, Directory
  <2> QED
    BY <1>4, <2>1, <1>t, <1>i, WorkerEffects, Names DEF Prepare, CopiedSince, World, Source
<1>5. CASE \E n \in Notes : CopyNote(n) \/ CopyTrashed(n)
  <2> PICK n \in Notes : CopyNote(n) \/ CopyTrashed(n)
    BY <1>5
  <2>1. /\ temp'.there = temp.there /\ temp'.vault = temp.vault
        /\ temp'.files = [temp.files EXCEPT ![n] = text[n]]
    BY <1>t DEF CopyNote, CopyTrashed, TypeOK, Directory
  <2>2. temp.files \in Files /\ \A m \in Notes : text[m] <= text[m]
    BY <1>t, ExportAssumption DEF TypeOK, Directory, Versions
  <2>3. worker.pc \in {"notes", "trash"} /\ worker' = worker /\ text' = text
    BY DEF CopyNote, CopyTrashed, World, Source
  <2> QED
    BY <2>1, <2>2, <2>3, <1>i DEF CopiedSince, SnapshotIsPast, Files
<1>6. CASE NotesCopied \/ TrashCopied \/ Check
  BY <1>6, <1>t, <1>i, WorkerEffects, Names
     DEF NotesCopied, TrashCopied, Check, CopiedSince, World, Source, Disk
<1>7. CASE Validate \/ DeriveKeys \/ ReadManifest \/ RemoveDestination
  BY <1>7, <1>t, WorkerMoves DEF CopiedSince
<1>8. CASE Cancelled \/ MoveRefused \/ Fails \/ Move \/ RemoveStaging
  BY <1>8, <1>t, WorkerMoves DEF CopiedSince
<1>9. CASE Confirmed \/ Answer \/ Crash
  BY <1>9, <1>t, WorkerMoves DEF CopiedSince
<1> QED
  BY <1>1, <1>2, <1>3, <1>4, <1>5, <1>6, <1>7, <1>8, <1>9
     DEF Next, vars, Dialogs, Outside, Work, AskExport, Explained, PasswordTyped, FolderChosen,
         Dismissed, RequestCancel, MoveNote, LockVault, UnlockVault, MakeFolder, PutFile,
         RemoveFolder, Source, Worker, Disk

LEMMA CheckedStep == IInv /\ [Next]_vars => CheckedIsBuilt'
<1> SUFFICES ASSUME IInv, [Next]_vars PROVE CheckedIsBuilt'
  OBVIOUS
<1>t. TypeOK /\ worker \in WorkerStates /\ CheckedIsBuilt
  BY DEF IInv, TypeOK
<1>1. CASE UNCHANGED <<worker, temp>>
  BY <1>1, <1>t DEF CheckedIsBuilt
<1>2. CASE Check
  BY <1>2, <1>t, WorkerEffects, Names DEF Check, CheckedIsBuilt, Built, Disk
<1>3. CASE \E n \in Notes : CopyNote(n) \/ CopyTrashed(n)
  BY <1>3 DEF CopyNote, CopyTrashed, CheckedIsBuilt
<1>4. CASE MakeStaging \/ Prepare \/ NotesCopied \/ TrashCopied
  BY <1>4, <1>t, WorkerEffects, Names
     DEF MakeStaging, Prepare, NotesCopied, TrashCopied, CheckedIsBuilt
<1>5. CASE \/ Confirmed \/ Answer \/ Crash \/ Validate \/ DeriveKeys \/ ReadManifest
           \/ RemoveDestination \/ Cancelled \/ MoveRefused \/ Fails \/ Move \/ RemoveStaging
  BY <1>5, <1>t, WorkerMoves DEF CheckedIsBuilt
<1> QED
  BY <1>1, <1>2, <1>3, <1>4, <1>5
     DEF Next, vars, Dialogs, Outside, Work, AskExport, Explained, PasswordTyped, FolderChosen,
         Dismissed, RequestCancel, Autosave, MoveNote, LockVault, UnlockVault, MakeFolder,
         PutFile, RemoveFolder, Worker, Disk

LEMMA FreeStep == IInv /\ [Next]_vars => FolderIsFree'
<1> SUFFICES ASSUME IInv, [Next]_vars PROVE FolderIsFree'
  OBVIOUS
<1>t. TypeOK /\ worker \in WorkerStates /\ FolderIsFree
  BY DEF IInv, TypeOK
<1>1. CASE UNCHANGED <<worker, dest, others>>
  BY <1>1, <1>t DEF FolderIsFree
<1>2. CASE MakeFolder \/ RemoveFolder
  BY <1>2, <1>t, DirectoryTypes DEF MakeFolder, RemoveFolder, FolderIsFree, Worker
<1>3. CASE PutFile
  BY <1>3, <1>t DEF PutFile, FolderIsFree, Worker
<1>4. CASE Validate
  BY <1>4, <1>t, WorkerEffects, Names DEF Validate, FolderIsFree, Disk
<1>5. CASE DeriveKeys \/ ReadManifest \/ Cancelled \/ MoveRefused \/ Fails
  BY <1>5, <1>t, WorkerMoves
     DEF DeriveKeys, ReadManifest, Cancelled, MoveRefused, Fails, FolderIsFree, Disk
<1>6. CASE MakeStaging \/ Prepare \/ NotesCopied \/ TrashCopied \/ Check
  BY <1>6, <1>t, WorkerEffects, Names
     DEF MakeStaging, Prepare, NotesCopied, TrashCopied, Check, FolderIsFree, Disk
<1>7. CASE \E n \in Notes : CopyNote(n) \/ CopyTrashed(n)
  BY <1>7, <1>t DEF CopyNote, CopyTrashed, FolderIsFree
<1>8. CASE RemoveDestination
  BY <1>8, <1>t, DirectoryTypes DEF RemoveDestination, FolderIsFree
<1>9. CASE Confirmed \/ Answer \/ Crash
  BY <1>9, <1>t, WorkerMoves DEF FolderIsFree
<1>10. CASE Move \/ RemoveStaging
  BY <1>10, <1>t DEF Move, RemoveStaging, Return, FolderIsFree
<1> QED
  BY <1>1, <1>2, <1>3, <1>4, <1>5, <1>6, <1>7, <1>8, <1>9, <1>10
     DEF Next, vars, Dialogs, Outside, Work, AskExport, Explained, PasswordTyped, FolderChosen,
         Dismissed, RequestCancel, Autosave, MoveNote, LockVault, UnlockVault, Worker, Disk

LEMMA StagingStep == IInv /\ [Next]_vars => StagingKnown'
<1> SUFFICES ASSUME IInv, [Next]_vars PROVE StagingKnown'
  OBVIOUS
<1>t. TypeOK /\ worker \in WorkerStates /\ StagingKnown /\ CopiedSince
  BY DEF IInv, TypeOK
<1>1. CASE UNCHANGED <<worker, temp>>
  BY <1>1, <1>t DEF StagingKnown
<1>2. CASE Confirmed
  BY <1>2, <1>t, WorkerMoves, DirectoryTypes DEF Confirmed, StagingKnown
<1>3. CASE Validate \/ DeriveKeys \/ ReadManifest
  BY <1>3, <1>t, WorkerMoves DEF Validate, DeriveKeys, ReadManifest, StagingKnown, Disk
<1>4. CASE MakeStaging \/ Prepare \/ NotesCopied \/ TrashCopied \/ Check
  BY <1>4, <1>t, WorkerEffects, Names
     DEF MakeStaging, Prepare, NotesCopied, TrashCopied, Check, StagingKnown
<1>5. CASE \E n \in Notes : CopyNote(n) \/ CopyTrashed(n)
  BY <1>5 DEF CopyNote, CopyTrashed, StagingKnown
<1>6. CASE Cancelled \/ MoveRefused \/ Fails
  BY <1>6, <1>t
     DEF Cancelled, MoveRefused, Fails, CleanUp, Return, StagingKnown, CopiedSince, Disk
<1>7. CASE Move \/ RemoveStaging
  BY <1>7 DEF Move, RemoveStaging, Return, StagingKnown
<1>8. CASE RemoveDestination
  BY <1>8, <1>t, WorkerMoves DEF RemoveDestination, StagingKnown
<1>9. CASE Answer \/ Crash
  BY <1>9, <1>t, WorkerMoves DEF StagingKnown
<1> QED
  BY <1>1, <1>2, <1>3, <1>4, <1>5, <1>6, <1>7, <1>8, <1>9
     DEF Next, vars, Dialogs, Outside, Work, AskExport, Explained, PasswordTyped, FolderChosen,
         Dismissed, RequestCancel, Autosave, MoveNote, LockVault, UnlockVault, MakeFolder,
         PutFile, RemoveFolder, Worker, Disk

LEMMA WholeStep == IInv /\ [Next]_vars => DestinationIsWhole'
<1> SUFFICES ASSUME IInv, [Next]_vars PROVE DestinationIsWhole'
  OBVIOUS
<1>t. TypeOK /\ DestinationIsWhole /\ CopiedSince /\ CheckedIsBuilt
  BY DEF IInv
<1>1. CASE UNCHANGED <<text, dest, made>>
  BY <1>1, <1>t DEF DestinationIsWhole
<1>2. CASE \E n \in Notes : Autosave(n)
  <2>1. \A n \in Notes : text[n] \in Nat /\ text[n] <= text'[n] /\ text'[n] \in Nat
    BY <1>2, <1>t, ExportAssumption DEF Autosave, TypeOK, Versions
  <2>2. \A n \in Notes : dest.files[n] # None => dest.files[n] \in Nat
    BY <1>t DEF TypeOK, Directory, Files, Versions
  <2> QED
    BY <1>2, <1>t, <2>1, <2>2 DEF Autosave, DestinationIsWhole, Disk
<1>3. CASE MakeFolder \/ RemoveFolder
  BY <1>3, DirectoryTypes DEF MakeFolder, RemoveFolder, DestinationIsWhole
<1>4. CASE Move
  BY <1>4, <1>t DEF Move, CopiedSince, CheckedIsBuilt, DestinationIsWhole, World, Source
<1>5. CASE RemoveDestination
  BY <1>5, <1>t, DirectoryTypes DEF RemoveDestination, DestinationIsWhole, World, Source
<1> QED
  BY <1>1, <1>2, <1>3, <1>4, <1>5
     DEF Next, vars, Dialogs, Outside, Work, AskExport, Explained, PasswordTyped, FolderChosen,
         Confirmed, Dismissed, RequestCancel, Answer, MoveNote, LockVault, UnlockVault,
         PutFile, Crash, Validate, DeriveKeys, ReadManifest, MakeStaging, Prepare, CopyNote,
         CopyTrashed, NotesCopied, Cancelled, TrashCopied, Check, MoveRefused, Fails,
         RemoveStaging, Source, World, Disk

LEMMA AnswerStep == IInv /\ [Next]_vars => AnswerIsTrue'
<1> SUFFICES ASSUME IInv, [Next]_vars PROVE AnswerIsTrue'
  OBVIOUS
<1>t. TypeOK /\ worker \in WorkerStates /\ AnswerIsTrue /\ StagingKnown /\ CheckedIsBuilt
  BY DEF IInv, TypeOK
<1>1. CASE UNCHANGED <<worker, temp, dest>>
  BY <1>1, <1>t DEF AnswerIsTrue
<1>2. CASE MakeFolder \/ RemoveFolder
  BY <1>2, <1>t DEF MakeFolder, RemoveFolder, AnswerIsTrue, DestinationIsWhole, IInv, Worker
<1>3. CASE Confirmed \/ Answer \/ Crash \/ RemoveDestination
  BY <1>3, <1>t, WorkerMoves DEF AnswerIsTrue
<1>4. CASE Validate \/ DeriveKeys \/ ReadManifest
  BY <1>4, <1>t, WorkerMoves
     DEF Validate, DeriveKeys, ReadManifest, AnswerIsTrue, StagingKnown, Disk
<1>5. CASE MakeStaging \/ Prepare \/ NotesCopied \/ TrashCopied \/ Check
  BY <1>5, <1>t, WorkerEffects, Names
     DEF MakeStaging, Prepare, NotesCopied, TrashCopied, Check, AnswerIsTrue
<1>6. CASE \E n \in Notes : CopyNote(n) \/ CopyTrashed(n)
  BY <1>6 DEF CopyNote, CopyTrashed, AnswerIsTrue
<1>7. CASE Cancelled \/ MoveRefused \/ Fails
  BY <1>7, <1>t
     DEF Cancelled, MoveRefused, Fails, CleanUp, Return, AnswerIsTrue, StagingKnown, Disk
<1>8. CASE Move
  <2>1. temp.vault
    BY <1>8 DEF IInv, CopiedSince, Move
  <2> QED
    BY <1>8, <2>1, DirectoryTypes DEF Move, Return, AnswerIsTrue
<1>9. CASE RemoveStaging
  BY <1>9, <1>t, DirectoryTypes DEF RemoveStaging, Return, AnswerIsTrue, StagingKnown
<1> QED
  BY <1>1, <1>2, <1>3, <1>4, <1>5, <1>6, <1>7, <1>8, <1>9
     DEF Next, vars, Dialogs, Outside, Work, AskExport, Explained, PasswordTyped, FolderChosen,
         Dismissed, RequestCancel, Autosave, MoveNote, LockVault, UnlockVault, PutFile,
         Worker, Disk

-----------------------------------------------------------------------------
(* The theorems *)

LEMMA Invariance == Spec => []IInv
<1>1. IInv /\ [Next]_vars => IInv'
  BY TypeStep, SnapshotStep, CopiedStep, CheckedStep, FreeStep, StagingStep, WholeStep,
     AnswerStep DEF IInv
<1> QED
  BY InitGood, <1>1, PTL DEF Spec

\* Whatever fails, and wherever the process dies, the folder the user chose
\* holds a whole copy of one snapshot or nothing of the export.
THEOREM Transaction == Spec => []DestinationIsWhole
<1>1. IInv => DestinationIsWhole
  BY DEF IInv
<1> QED
  BY Invariance, <1>1, PTL

\* The result the worker returns agrees with what it left on the disk.
THEOREM TrueAnswers == Spec => []AnswerIsTrue
<1>1. IInv => AnswerIsTrue
  BY DEF IInv
<1> QED
  BY Invariance, <1>1, PTL

\* No export removes an earlier copy, or files that were there when it looked.
THEOREM NothingOldRemoved == Spec => KeepsWhatWasThere
<1>1. IInv /\ [Next]_vars => [/\ dest.vault => dest' = dest
                              /\ others = "before" => others' = "before"]_vars
  <2> SUFFICES ASSUME IInv, [Next]_vars
               PROVE  /\ dest.vault => dest' = dest
                      /\ others = "before" => others' = "before"
    OBVIOUS
  <2>1. CASE UNCHANGED <<dest, others>>
    BY <2>1
  <2>2. CASE MakeFolder \/ PutFile \/ RemoveFolder \/ Confirmed
    BY <2>2, DirectoryTypes
       DEF MakeFolder, PutFile, RemoveFolder, Confirmed, IInv, TypeOK, Directory,
           DestinationIsWhole
  <2>3. CASE Move \/ RemoveDestination
    BY <2>3 DEF Move, RemoveDestination, IInv, FolderIsFree
  <2> QED
    BY <2>1, <2>2, <2>3
       DEF Next, vars, Dialogs, Outside, Work, AskExport, Explained, PasswordTyped,
           FolderChosen, Dismissed, RequestCancel, Answer, Autosave, MoveNote, LockVault,
           UnlockVault, Crash, Validate, DeriveKeys, ReadManifest, MakeStaging, Prepare,
           CopyNote, CopyTrashed, NotesCopied, Cancelled, TrashCopied, Check, MoveRefused,
           Fails, RemoveStaging, Disk
<1> QED
  BY Invariance, <1>1, PTL DEF Spec, KeepsWhatWasThere
=============================================================================
