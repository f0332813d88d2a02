------------------------- MODULE SecureStore_proofs -------------------------
(***************************************************************************)
(* Theorems about the storage of a Secure Vault.                           *)
(***************************************************************************)
EXTENDS SecureStore, TLAPS

USE DEF Goto

-----------------------------------------------------------------------------
(* Types *)

\* A call that changes the manifest names a note, and a recovery its blob.
JobNamed(j) ==
  /\ j.name # "rewrite" => j.note \in Objects
  /\ j.name = "recover" => j.blob \in Objects

TypeInv == TypeOK /\ \A s \in Sessions : JobNamed(job[s])

Job == [name : Jobs, note : Objects \cup {NoObject},
        blob : Objects \cup {NoObject}, gone : Objects \cup {NoObject}]

\* What with_manifest_mut persists is a manifest.
LEMMA UpdatedType ==
  ASSUME NEW m \in Manifest, NEW j \in Job, JobNamed(j)
  PROVE  Updated(m, j) \in Manifest
<1>1. CASE j.name \in {"create", "encrypt", "decrypt", "trash", "restore", "delete"}
  <2>1. j.note \in Objects
    BY <1>1 DEF JobNamed
  <2> QED BY <1>1, <2>1 DEF Updated, Manifest
<1>2. CASE j.name \in {"recover", "save", "title"}
  <2>1. j.note \in Objects /\ (j.name = "recover" => j.blob \in Objects)
    BY <1>2 DEF JobNamed
  <2> QED BY <1>2, <2>1 DEF Updated, Manifest
<1>3. CASE j.name \in {"saveInner", "rewrite"}
  BY <1>3 DEF Updated
<1> QED BY <1>1, <1>2, <1>3 DEF Job, Jobs

\* The next step of a call, or its return, keeps pc and job well typed.
LEMMA ContinueType ==
  ASSUME TypeInv, NEW s \in Sessions, NEW next \in PC, Continue(s, next)
  PROVE  /\ pc' \in [Sessions -> PC]
         /\ job' \in [Sessions -> Job]
         /\ \A t \in Sessions : JobNamed(job'[t])
<1>1. NoJob \in Job /\ JobNamed(NoJob)
  BY DEF NoJob, Job, Jobs, JobNamed
<1> QED BY <1>1 DEF Continue, TypeInv, TypeOK, Job

\* The start of a call keeps every type.
LEMMA BeginType ==
  ASSUME TypeInv, shown' \subseteq Objects,
         NEW s \in Sessions, NEW name \in Jobs, NEW note \in Objects \cup {NoObject},
         NEW blob \in Objects \cup {NoObject}, NEW gone \in Objects \cup {NoObject},
         NEW first \in PC, Begin(s, name, note, blob, gone, first),
         name # "rewrite" => note \in Objects,
         name = "recover" => blob \in Objects
  PROVE  TypeInv'
<1>1. [name |-> name, note |-> note, blob |-> blob, gone |-> gone] \in Job
  BY DEF Job
<1>2. JobNamed([name |-> name, note |-> note, blob |-> blob, gone |-> gone])
  BY DEF JobNamed
<1>3. job' \in [Sessions -> Job] /\ \A t \in Sessions : JobNamed(job'[t])
  BY <1>1, <1>2 DEF Begin, TypeInv, TypeOK, Job
<1> QED BY <1>3 DEF Begin, TypeInv, TypeOK, Job

\* Every step keeps the types.
LEMMA TypeStep == TypeInv /\ [Next]_vars => TypeInv'
<1> SUFFICES ASSUME TypeInv, [Next]_vars PROVE TypeInv'
  OBVIOUS
<1>w. Writer \in Sessions
  BY DEF Sessions
<1>m. \A s \in Sessions : mem[s] \in Manifest /\ job[s] \in Job /\ JobNamed(job[s])
  BY DEF TypeInv, TypeOK, Job
<1>r. mem[Writer].notes \subseteq Objects /\ mem[Writer].trash \subseteq Objects
      /\ \A o \in Objects : mem[Writer].rec[o] \in Objects \cup {NoObject}
  BY <1>w, <1>m DEF Manifest
<1>s. shown \subseteq Objects /\ \A o : shown \ {o} \subseteq Objects
  BY DEF TypeInv, TypeOK
<1>1. CASE Calls
  <2>1. CASE CreateNote
    BY <1>w, <1>s, <2>1, BeginType DEF CreateNote, Jobs, PC
  <2>2. CASE SaveNote
    BY <1>w, <1>s, <1>r, <2>2, BeginType DEF SaveNote, Jobs, PC
  <2>3. CASE SaveEncryptedNote
    BY <1>w, <1>s, <1>r, <2>3, BeginType DEF SaveEncryptedNote, Jobs, PC
  <2>4. CASE EncryptNote
    BY <1>w, <1>s, <1>r, <2>4, BeginType DEF EncryptNote, Jobs, PC
  <2>5. CASE RemoveEncryption
    BY <1>w, <1>s, <1>r, <2>5, BeginType DEF RemoveEncryption, Jobs, PC
  <2>6. CASE WriteRecovery
    BY <1>w, <1>s, <1>r, <2>6, BeginType DEF WriteRecovery, Jobs, PC
  <2>7. CASE MoveToTrash
    BY <1>w, <1>s, <1>r, <2>7, BeginType DEF MoveToTrash, Jobs, PC
  <2>8. CASE RestoreFromTrash
    BY <1>w, <1>s, <1>r, <2>8, BeginType DEF RestoreFromTrash, Jobs, PC
  <2>9. CASE PermanentlyDelete
    BY <1>w, <1>s, <1>r, <2>9, BeginType DEF PermanentlyDelete, Jobs, PC
  <2> QED BY <1>1, <2>1, <2>2, <2>3, <2>4, <2>5, <2>6, <2>7, <2>8, <2>9 DEF Calls
<1>2. ASSUME NEW s \in Sessions, Unlock(s) PROVE TypeInv'
  BY <1>2 DEF Unlock, TypeInv, TypeOK, PC
<1>3. ASSUME NEW s \in Sessions, List(s) PROVE TypeInv'
  BY <1>3 DEF List, TypeInv, TypeOK, PC, Present
<1>4. ASSUME NEW s \in Sessions, MoveOrphan(s) PROVE TypeInv'
  BY <1>4 DEF MoveOrphan, TypeInv, TypeOK
<1>5. ASSUME NEW s \in Sessions, Unlocks(s) PROVE TypeInv'
  BY <1>5 DEF Unlocks, TypeInv, TypeOK, PC, Present
<1>6. ASSUME NEW s \in Sessions, Lock(s) PROVE TypeInv'
  <2>1. Fresh \in Manifest
    BY DEF Fresh, Manifest
  <2>2. NoJob \in Job /\ JobNamed(NoJob)
    BY DEF NoJob, Job, Jobs, JobNamed
  <2> QED BY <1>6, <2>1, <2>2 DEF Lock, TypeInv, TypeOK, PC, Job
<1>7. ASSUME NEW s \in Sessions, Rewrite(s) PROVE TypeInv'
  BY <1>7, <1>s, BeginType DEF Rewrite, Jobs, PC
<1>8. ASSUME NEW s \in Sessions, RewriteFirst(s) PROVE TypeInv'
  <2>1. PICK next \in PC : Continue(s, next)
    BY <1>8 DEF RewriteFirst, AfterRewrite, DropRecovery, PC
  <2> QED BY <1>8, <1>m, <2>1, ContinueType DEF RewriteFirst, TypeInv, TypeOK, Job
<1>9. ASSUME NEW s \in Sessions, WriteBlob(s) PROVE TypeInv'
  <2>1. PICK next \in PC : Continue(s, next)
    BY <1>9 DEF WriteBlob, AfterBlob, DropRecovery, PC
  <2>2. store' \in [Objects -> Kinds \cup {"none"}] /\ rescued' \subseteq Objects
    BY <1>9 DEF WriteBlob, TypeInv, TypeOK, BlobKind, Kinds
  <2> QED BY <1>9, <2>1, <2>2, ContinueType DEF WriteBlob, TypeInv, TypeOK, Job
<1>10. ASSUME NEW s \in Sessions, WriteManifest(s) PROVE TypeInv'
  <2>1. PICK next \in PC : Continue(s, next)
    BY <1>10 DEF WriteManifest, AfterManifest, PC
  <2>2. Updated(mem[s], job[s]) \in Manifest
    BY <1>m, UpdatedType
  <2>3. disk' \in Manifest /\ mem' \in [Sessions -> Manifest]
    BY <1>10, <2>2 DEF WriteManifest, TypeInv, TypeOK
  <2>4. shown' \subseteq Objects /\ rescued' \subseteq Objects
    BY <1>10, <1>m DEF WriteManifest, TypeInv, TypeOK, JobNamed
  <2> QED BY <1>10, <2>1, <2>3, <2>4, ContinueType DEF WriteManifest, TypeInv, TypeOK, Job
<1>11. ASSUME NEW s \in Sessions, Unlink(s) PROVE TypeInv'
  <2>1. Continue(s, "ready")
    BY <1>11 DEF Unlink
  <2>2. store' \in [Objects -> Kinds \cup {"none"}]
    BY <1>11 DEF Unlink, TypeInv, TypeOK
  <2> QED BY <1>11, <2>1, <2>2, ContinueType DEF Unlink, TypeInv, TypeOK, Job, PC
<1>12. ASSUME NEW s \in Sessions, WriteFails(s) PROVE TypeInv'
  <2>1. Continue(s, "ready")
    BY <1>12 DEF WriteFails
  <2> QED BY <1>12, <2>1, ContinueType DEF WriteFails, TypeInv, TypeOK, Job, PC
<1>13. CASE UNCHANGED vars
  BY <1>13 DEF vars, TypeInv, TypeOK
<1> QED
  BY <1>1, <1>2, <1>3, <1>4, <1>5, <1>6, <1>7, <1>8, <1>9, <1>10, <1>11, <1>12, <1>13
  DEF Next, Step

\* A new vault, and nobody in it.
LEMMA TypeInit == Init => TypeInv
<1>1. Fresh \in Manifest
  BY DEF Fresh, Manifest
<1>2. NoJob \in Job /\ JobNamed(NoJob)
  BY DEF NoJob, Job, Jobs, JobNamed
<1> QED BY <1>1, <1>2 DEF Init, TypeInv, TypeOK, PC, Job

\* The manifest, the store and the sessions keep their types, for any objects
\* and any number of sessions opened read-only beside the owner.
THEOREM TypeCorrect == Spec => []TypeOK
<1>1. TypeInv => TypeOK
  BY DEF TypeInv
<1> QED BY <1>1, TypeInit, TypeStep, PTL DEF Spec

-----------------------------------------------------------------------------
(* What a call makes of a manifest *)

\* A blob has one use: it is a live note, a note of the trash, or the recovery
\* copy of one note.
Orderly(m) ==
  /\ m.notes \cap m.trash = {}
  /\ \A n \in Objects : m.rec[n] \notin m.notes \cup m.trash
  /\ \A n, k \in Objects : m.rec[n] = m.rec[k] /\ m.rec[n] # NoObject => n = k

\* What the checks of a call established about the manifest it works on.
JobFits(j, m) ==
  /\ j.name \in {"create", "recover"} => j.blob \in Objects \ Refs(m)
  /\ j.name = "create" => j.note = j.blob
  /\ j.name \in {"save", "title"} => j.gone = m.rec[j.note]
  /\ j.name \in {"save", "title", "saveInner", "encrypt", "decrypt"}
       => j.note \in m.notes /\ j.blob = j.note
  /\ j.name \in {"recover", "trash"} => j.note \in m.notes
  /\ j.name \in {"restore", "delete"} => j.note \in m.trash
  /\ j.name = "delete" => j.gone = j.note
  /\ j.name \notin {"save", "title", "delete"} => j.gone = NoObject

\* A blob keeps its one use in the manifest a call writes.
LEMMA UpdatedOrderly ==
  ASSUME NEW m \in Manifest, NEW j \in Job, JobNamed(j), Orderly(m), JobFits(j, m)
  PROVE  Orderly(Updated(m, j))
<1> DEFINE u == Updated(m, j)
<1>0. NoObject \notin Objects
  BY StoreAssumption
<1>1. CASE j.name = "create"
  <2>1. /\ u.notes = m.notes \cup {j.note} /\ u.trash = m.trash /\ u.rec = m.rec
        /\ j.note \in Objects \ Refs(m)
    BY <1>1 DEF Updated, Manifest, JobFits
  <2>2. j.note \notin m.trash /\ \A n \in Objects : m.rec[n] # j.note
    BY <2>1 DEF Refs
  <2> QED BY <2>1, <2>2 DEF Orderly
<1>2. CASE j.name = "recover"
  <2>1. /\ u.notes = m.notes /\ u.trash = m.trash
        /\ u.rec = [m.rec EXCEPT ![j.note] = j.blob]
        /\ j.blob \in Objects \ Refs(m)
    BY <1>2 DEF Updated, Manifest, JobFits
  <2>2. j.blob \notin m.notes \cup m.trash /\ \A n \in Objects : m.rec[n] # j.blob
    BY <2>1 DEF Refs
  <2>3. \A n \in Objects : u.rec[n] = IF n = j.note THEN j.blob ELSE m.rec[n]
    BY <2>1 DEF Manifest
  <2> QED BY <2>1, <2>2, <2>3 DEF Orderly
<1>3. CASE j.name \in {"save", "title"}
  <2>1. /\ u.notes = m.notes /\ u.trash = m.trash
        /\ u.rec = [m.rec EXCEPT ![j.note] = NoObject]
    BY <1>3 DEF Updated, Manifest
  <2>2. \A n \in Objects : u.rec[n] = IF n = j.note THEN NoObject ELSE m.rec[n]
    BY <2>1 DEF Manifest
  <2>3. NoObject \notin m.notes \cup m.trash
    BY <1>0 DEF Manifest
  <2> QED BY <2>1, <2>2, <2>3 DEF Orderly
<1>4. CASE j.name \in {"encrypt", "decrypt", "saveInner", "rewrite"}
  <2>1. u.notes = m.notes /\ u.trash = m.trash /\ u.rec = m.rec
    BY <1>4 DEF Updated, Manifest
  <2> QED BY <2>1 DEF Orderly
<1>5. CASE j.name = "trash"
  <2>1. /\ u.notes = m.notes \ {j.note} /\ u.trash = m.trash \cup {j.note}
        /\ u.rec = m.rec /\ j.note \in m.notes
    BY <1>5 DEF Updated, Manifest, JobFits
  <2> QED BY <2>1 DEF Orderly
<1>6. CASE j.name = "restore"
  <2>1. /\ u.notes = m.notes \cup {j.note} /\ u.trash = m.trash \ {j.note}
        /\ u.rec = m.rec /\ j.note \in m.trash
    BY <1>6 DEF Updated, Manifest, JobFits
  <2> QED BY <2>1 DEF Orderly
<1>7. CASE j.name = "delete"
  <2>1. /\ u.notes = m.notes /\ u.trash = m.trash \ {j.note} /\ u.rec = m.rec
    BY <1>7 DEF Updated, Manifest
  <2> QED BY <2>1 DEF Orderly
<1> QED BY <1>1, <1>2, <1>3, <1>4, <1>5, <1>6, <1>7 DEF Job, Jobs

\* A call puts no blob to a new use in the manifest but the one it has written.
LEMMA UpdatedUses ==
  ASSUME NEW m \in Manifest, NEW j \in Job, JobNamed(j), JobFits(j, m)
  PROVE  /\ Updated(m, j).notes \cup Updated(m, j).trash \subseteq
              m.notes \cup m.trash \cup {n \in {j.blob} : j.name = "create"}
         /\ \A n \in Objects : \/ Updated(m, j).rec[n] = m.rec[n]
                               \/ Updated(m, j).rec[n] = NoObject
                               \/ Updated(m, j).rec[n] = j.blob /\ j.name = "recover"
<1>1. CASE j.name \in {"create", "encrypt", "decrypt", "saveInner", "rewrite"}
  BY <1>1 DEF Updated, Manifest, JobFits
<1>2. CASE j.name \in {"recover", "save", "title"}
  BY <1>2 DEF Updated, Manifest
<1>3. CASE j.name \in {"trash", "restore", "delete"}
  BY <1>3 DEF Updated, Manifest, JobFits
<1> QED BY <1>1, <1>2, <1>3 DEF Job, Jobs

\* The manifest a call writes names no blob but those of the session's
\* manifest and the one the call has written.
LEMMA UpdatedRefs ==
  ASSUME NEW m \in Manifest, NEW j \in Job, JobNamed(j), JobFits(j, m)
  PROVE  \A o \in Refs(Updated(m, j)) :
           o \in Refs(m) \/ (j.name \in {"create", "recover"} /\ o = j.blob)
<1>1. NoObject \notin Objects
  BY StoreAssumption
<1> QED BY <1>1, UpdatedUses DEF Refs

\* What a call removes after the manifest is a blob the manifest does not name.
LEMMA GoneUnreferenced ==
  ASSUME NEW m \in Manifest, NEW j \in Job, JobNamed(j), Orderly(m), JobFits(j, m),
         j.gone # NoObject
  PROVE  j.gone \in Objects \ Refs(Updated(m, j))
<1>0. j.gone \in Objects
  BY DEF Job
<1>1. CASE j.name \in {"save", "title"}
  <2> DEFINE u == Updated(m, j)
  <2>1. /\ u.notes = m.notes /\ u.trash = m.trash
        /\ u.rec = [m.rec EXCEPT ![j.note] = NoObject]
        /\ j.note \in Objects /\ j.gone = m.rec[j.note]
    BY <1>1 DEF Updated, Manifest, JobFits
  <2>2. \A n \in Objects : u.rec[n] = IF n = j.note THEN NoObject ELSE m.rec[n]
    BY <2>1 DEF Manifest
  <2> QED BY <1>0, <2>1, <2>2 DEF Orderly, Refs
<1>2. CASE j.name = "delete"
  <2> DEFINE u == Updated(m, j)
  <2>1. /\ u.notes = m.notes /\ u.trash = m.trash \ {j.note} /\ u.rec = m.rec
        /\ j.note \in m.trash /\ j.gone = j.note
    BY <1>2 DEF Updated, Manifest, JobFits
  <2> QED BY <1>0, <2>1 DEF Orderly, Refs
<1> QED BY <1>1, <1>2 DEF JobFits

\* No call but create_note adds a note, and none but permanently_delete loses one.
LEMMA UpdatedNotes ==
  ASSUME NEW m \in Manifest, NEW j \in Job, JobNamed(j), JobFits(j, m)
  PROVE  /\ j.name = "create" => j.note \in Updated(m, j).notes
         /\ \A n \in m.notes \cup m.trash :
              \/ n \in Updated(m, j).notes \cup Updated(m, j).trash
              \/ j.name = "delete" /\ n = j.note
<1>1. CASE j.name \in {"create", "encrypt", "decrypt", "saveInner", "rewrite"}
  BY <1>1 DEF Updated, Manifest
<1>2. CASE j.name \in {"recover", "save", "title"}
  BY <1>2 DEF Updated, Manifest
<1>3. CASE j.name \in {"trash", "restore", "delete"}
  BY <1>3 DEF Updated, Manifest
<1> QED BY <1>1, <1>2, <1>3 DEF Job, Jobs

-----------------------------------------------------------------------------
(* The owner alone: no other session has the vault open *)

Writing == {"rewrite", "blob", "manifest"}

\* What is on disk, whatever the session does.
DiskSafe ==
  /\ Orderly(disk)
  /\ Refs(disk) \subseteq Present
  /\ shown \subseteq disk.notes \cup disk.trash

\* What the session believes, from the moment it is unlocked.
MemSafe ==
  Unlocked(Writer) =>
    /\ Orderly(mem[Writer])
    /\ Refs(mem[Writer]) \subseteq Present
    /\ shown \subseteq mem[Writer].notes \cup mem[Writer].trash

\* While it unlocks it has what is on disk, and moves nothing that is named there.
ScanSafe ==
  /\ pc[Writer] \in {"listing", "reconciling"} => mem[Writer] = disk
  /\ pc[Writer] = "reconciling" => todo[Writer] \cap Refs(disk) = {}

\* What the call it is in has established, up to the write that is next.
CallSafe ==
  /\ pc[Writer] \in Writing =>
       /\ JobFits(job[Writer], mem[Writer])
       /\ job[Writer].name = "delete" => job[Writer].note \notin shown
  /\ pc[Writer] = "manifest" /\ job[Writer].name \in {"create", "recover"}
       => job[Writer].blob \in Present
  /\ pc[Writer] = "unlink"
       => job[Writer].gone \in Objects \ (Refs(disk) \cup Refs(mem[Writer]))

StoreInv == TypeInv /\ DiskSafe /\ MemSafe /\ ScanSafe /\ CallSafe

\* The checks at the start of a call establish what its writes rely on.
LEMMA BeginSafe ==
  ASSUME StoreInv, TypeInv',
         NEW name \in Jobs, NEW note \in Objects \cup {NoObject},
         NEW blob \in Objects \cup {NoObject}, NEW gone \in Objects \cup {NoObject},
         NEW first \in Writing, Begin(Writer, name, note, blob, gone, first),
         shown' \subseteq shown,
         first = "manifest" => name \notin {"create", "recover"},
         name = "delete" => note \notin shown',
         JobFits([name |-> name, note |-> note, blob |-> blob, gone |-> gone], mem[Writer])
  PROVE  StoreInv'
<1>0. Writer \in Sessions
  BY DEF Sessions
<1>1. /\ job'[Writer] = [name |-> name, note |-> note, blob |-> blob, gone |-> gone]
      /\ pc[Writer] = "ready" /\ pc'[Writer] = first
      /\ UNCHANGED <<disk, store, mem, todo>>
  BY <1>0 DEF Begin, StoreInv, TypeInv, TypeOK
<1>2. DiskSafe'
  BY <1>1 DEF StoreInv, DiskSafe, Present
<1>3. MemSafe'
  BY <1>1 DEF StoreInv, MemSafe, Present, Unlocked
<1>4. ScanSafe'
  BY <1>1 DEF ScanSafe, Writing
<1>5. CallSafe'
  BY <1>1 DEF CallSafe, Writing
<1> QED BY <1>2, <1>3, <1>4, <1>5 DEF StoreInv

\* The start of each call keeps the invariant.
LEMMA CallsSafe == StoreInv /\ TypeInv' /\ Calls => StoreInv'
<1> SUFFICES ASSUME StoreInv, TypeInv', Calls PROVE StoreInv'
  OBVIOUS
<1> DEFINE m == mem[Writer]
<1>w. Writer \in Sessions /\ NoObject \notin Objects
  BY StoreAssumption DEF Sessions
<1>r. /\ m.notes \subseteq Objects /\ m.trash \subseteq Objects
      /\ \A o \in Objects : m.rec[o] \in Objects \cup {NoObject}
  BY <1>w DEF StoreInv, TypeInv, TypeOK, Manifest
<1>o. pc[Writer] = "ready" => Orderly(m)
  BY DEF StoreInv, MemSafe, Unlocked
<1>1. CASE CreateNote
  <2>1. PICK o \in Objects :
          Unused(o) /\ Begin(Writer, "create", o, o, NoObject, "rewrite") /\ UNCHANGED shown
    BY <1>1 DEF CreateNote
  <2>2. JobFits([name |-> "create", note |-> o, blob |-> o, gone |-> NoObject], m)
    BY <1>w, <2>1 DEF Unused, JobFits
  <2> QED BY <2>1, <2>2, BeginSafe DEF Jobs, Writing
<1>2. CASE SaveNote
  <2>1. PICK o \in m.notes, name \in {"save", "title"} :
          Begin(Writer, name, o, o, m.rec[o], "blob") /\ UNCHANGED shown
    BY <1>2 DEF SaveNote
  <2>2. JobFits([name |-> name, note |-> o, blob |-> o, gone |-> m.rec[o]], m)
    BY <2>1 DEF JobFits
  <2> QED BY <1>r, <2>1, <2>2, BeginSafe DEF Jobs, Writing
<1>3. CASE SaveEncryptedNote \/ EncryptNote \/ RemoveEncryption
  <2>1. PICK o \in m.notes, name \in {"saveInner", "encrypt", "decrypt"} :
          Begin(Writer, name, o, o, NoObject, "blob") /\ UNCHANGED shown
    BY <1>3 DEF SaveEncryptedNote, EncryptNote, RemoveEncryption
  <2>2. JobFits([name |-> name, note |-> o, blob |-> o, gone |-> NoObject], m)
    BY <2>1 DEF JobFits
  <2> QED BY <1>r, <2>1, <2>2, BeginSafe DEF Jobs, Writing
<1>4. CASE WriteRecovery
  <2>1. PICK n \in m.notes, o \in Objects :
          Unused(o) /\ Begin(Writer, "recover", n, o, NoObject, "blob") /\ UNCHANGED shown
    BY <1>4 DEF WriteRecovery
  <2>2. JobFits([name |-> "recover", note |-> n, blob |-> o, gone |-> NoObject], m)
    BY <1>w, <2>1 DEF Unused, JobFits
  <2> QED BY <1>r, <2>1, <2>2, BeginSafe DEF Jobs, Writing
<1>5. CASE MoveToTrash
  <2>1. PICK o \in m.notes :
          Begin(Writer, "trash", o, NoObject, NoObject, "manifest") /\ UNCHANGED shown
    BY <1>5 DEF MoveToTrash
  <2>2. JobFits([name |-> "trash", note |-> o, blob |-> NoObject, gone |-> NoObject], m)
    BY <2>1 DEF JobFits
  <2> QED BY <1>r, <2>1, <2>2, BeginSafe DEF Jobs, Writing
<1>6. CASE RestoreFromTrash
  <2>1. PICK o \in m.trash :
          Begin(Writer, "restore", o, NoObject, NoObject, "manifest") /\ UNCHANGED shown
    BY <1>6 DEF RestoreFromTrash
  <2>2. JobFits([name |-> "restore", note |-> o, blob |-> NoObject, gone |-> NoObject], m)
    BY <2>1 DEF JobFits
  <2> QED BY <1>r, <2>1, <2>2, BeginSafe DEF Jobs, Writing
<1>7. CASE PermanentlyDelete
  <2>1. PICK o \in m.trash :
          Begin(Writer, "delete", o, NoObject, o, "manifest") /\ shown' = shown \ {o}
    BY <1>7 DEF PermanentlyDelete
  <2>2. JobFits([name |-> "delete", note |-> o, blob |-> NoObject, gone |-> o], m)
    BY <2>1 DEF JobFits
  <2>3. shown' \subseteq shown /\ o \notin shown'
    BY <2>1
  <2> QED BY <1>r, <2>1, <2>2, <2>3, BeginSafe DEF Jobs, Writing
<1> QED BY <1>1, <1>2, <1>3, <1>4, <1>5, <1>6, <1>7 DEF Calls

\* Unlocking, locking and reconcile keep the invariant.
LEMMA UnlockSafe ==
  ASSUME StoreInv, TypeInv',
         Unlock(Writer) \/ List(Writer) \/ MoveOrphan(Writer) \/ Unlocks(Writer) \/ Lock(Writer)
  PROVE  StoreInv'
<1>w. Writer \in Sessions /\ NoObject \notin Objects
  BY StoreAssumption DEF Sessions
<1> USE DEF StoreInv, TypeInv, TypeOK
<1>1. CASE Unlock(Writer)
  <2>1. /\ pc'[Writer] = "listing" /\ mem'[Writer] = disk
        /\ UNCHANGED <<disk, store, shown>>
    BY <1>w, <1>1 DEF Unlock
  <2> QED BY <2>1 DEF DiskSafe, MemSafe, ScanSafe, CallSafe, Writing, Present, Unlocked
<1>2. CASE List(Writer)
  <2>1. /\ pc[Writer] = "listing" /\ pc'[Writer] = "reconciling"
        /\ todo'[Writer] = Present \ Refs(mem[Writer])
        /\ UNCHANGED <<disk, store, shown, mem>>
    BY <1>w, <1>2 DEF List
  <2> QED BY <2>1 DEF DiskSafe, MemSafe, ScanSafe, CallSafe, Writing, Present, Unlocked
<1>3. CASE MoveOrphan(Writer)
  <2>1. PICK o \in todo[Writer] :
          /\ todo' = [todo EXCEPT ![Writer] = @ \ {o}]
          /\ store' = [store EXCEPT ![o] = "none"]
    BY <1>3 DEF MoveOrphan
  <2>2. /\ pc[Writer] = "reconciling" /\ o \notin Refs(disk)
        /\ todo'[Writer] \subseteq todo[Writer]
        /\ UNCHANGED <<disk, pc, mem, shown>>
    BY <1>w, <1>3, <2>1 DEF MoveOrphan, ScanSafe
  <2>3. Present \ {o} \subseteq Present'
    BY <2>1 DEF Present
  <2> QED
    BY <2>1, <2>2, <2>3 DEF DiskSafe, MemSafe, ScanSafe, CallSafe, Writing, Unlocked
<1>4. CASE Unlocks(Writer)
  <2>1. /\ pc[Writer] = "reconciling" /\ pc'[Writer] = "ready"
        /\ shown' \subseteq shown \cup mem[Writer].notes \cup mem[Writer].trash
        /\ mem[Writer] = disk
        /\ UNCHANGED <<disk, store, mem>>
    BY <1>w, <1>4 DEF Unlocks, ScanSafe
  <2>2. shown' \subseteq disk.notes \cup disk.trash
    BY <2>1 DEF DiskSafe
  <2> QED BY <2>1, <2>2 DEF DiskSafe, MemSafe, ScanSafe, CallSafe, Writing, Present, Unlocked
<1>5. CASE Lock(Writer)
  <2>1. pc'[Writer] = "locked" /\ UNCHANGED <<disk, store, shown>>
    BY <1>w, <1>5 DEF Lock
  <2> QED BY <2>1 DEF DiskSafe, MemSafe, ScanSafe, CallSafe, Writing, Present, Unlocked
<1> QED BY <1>1, <1>2, <1>3, <1>4, <1>5

\* Writing the blob, or the manifest as it is, keeps the invariant.
LEMMA BlobSafe ==
  ASSUME StoreInv, TypeInv', WriteBlob(Writer) \/ RewriteFirst(Writer) \/ WriteFails(Writer)
  PROVE  StoreInv'
<1>w. Writer \in Sessions /\ NoObject \notin Objects
  BY StoreAssumption DEF Sessions
<1> USE DEF StoreInv, TypeInv, TypeOK
<1>1. CASE WriteBlob(Writer)
  <2>1. /\ pc[Writer] = "blob" /\ UNCHANGED <<disk, mem, todo, shown>>
        /\ store' = [store EXCEPT ![job[Writer].blob] = BlobKind(job[Writer])]
    BY <1>1 DEF WriteBlob
  <2>2. Present \subseteq Present' /\ (job[Writer].blob \in Objects => job[Writer].blob \in Present')
    BY <2>1 DEF Present, BlobKind
  <2>3. PICK next \in {"rewrite", "ready", "manifest"} : Continue(Writer, next)
    BY <1>1 DEF WriteBlob, AfterBlob, DropRecovery
  <2>4. /\ pc'[Writer] = next
        /\ next # "ready" => job'[Writer] = job[Writer]
    BY <1>w, <2>3 DEF Continue
  <2>5. DiskSafe' /\ MemSafe' /\ ScanSafe'
    BY <2>1, <2>2, <2>4 DEF DiskSafe, MemSafe, ScanSafe, Unlocked
  <2>6. /\ JobFits(job[Writer], mem[Writer])
        /\ job[Writer].name = "delete" => job[Writer].note \notin shown
    BY <2>1 DEF CallSafe, Writing
  <2>7. job[Writer].name \in {"create", "recover"} => job[Writer].blob \in Present'
    BY <2>2, <2>6 DEF JobFits
  <2>8. CallSafe'
    BY <2>1, <2>4, <2>6, <2>7 DEF CallSafe, Writing
  <2> QED BY <2>5, <2>8
<1>2. CASE RewriteFirst(Writer)
  <2>1. /\ pc[Writer] = "rewrite" /\ disk' = mem[Writer]
        /\ UNCHANGED <<store, mem, todo, shown>>
    BY <1>2 DEF RewriteFirst
  <2>2. PICK next \in {"blob", "ready", "manifest"} :
          /\ Continue(Writer, next)
          /\ next = "manifest" => job[Writer].name = "title"
    BY <1>2 DEF RewriteFirst, AfterRewrite, DropRecovery
  <2>3. /\ pc'[Writer] = next
        /\ next # "ready" => job'[Writer] = job[Writer]
    BY <1>w, <2>2 DEF Continue
  <2>4. DiskSafe' /\ MemSafe' /\ ScanSafe'
    BY <2>1, <2>3 DEF DiskSafe, MemSafe, ScanSafe, Unlocked, Present
  <2>5. CallSafe'
    BY <2>1, <2>2, <2>3 DEF CallSafe, Writing
  <2> QED BY <2>4, <2>5
<1>3. CASE WriteFails(Writer)
  <2>1. /\ pc[Writer] \in Writing /\ pc'[Writer] = "ready"
        /\ UNCHANGED <<disk, store, mem, todo, shown>>
    BY <1>w, <1>3 DEF WriteFails, Continue, Writing
  <2> QED BY <2>1 DEF DiskSafe, MemSafe, ScanSafe, CallSafe, Writing, Present, Unlocked
<1> QED BY <1>1, <1>2, <1>3

\* Writing the new manifest keeps the invariant, whether or not the session
\* learns that it was written.
LEMMA ManifestSafe ==
  ASSUME StoreInv, TypeInv', WriteManifest(Writer)
  PROVE  StoreInv'
<1> DEFINE m == mem[Writer]
           j == job[Writer]
           u == Updated(m, j)
<1>w. Writer \in Sessions /\ NoObject \notin Objects
  BY StoreAssumption DEF Sessions
<1>1. pc[Writer] = "manifest" /\ disk' = u /\ UNCHANGED <<store, todo>>
  BY DEF WriteManifest
<1>2. m \in Manifest /\ j \in Job /\ JobNamed(j)
  BY <1>w DEF StoreInv, TypeInv, TypeOK, Job
<1>3. /\ Orderly(m) /\ Refs(m) \subseteq Present
      /\ shown \subseteq m.notes \cup m.trash
      /\ JobFits(j, m)
      /\ j.name = "delete" => j.note \notin shown
      /\ j.name \in {"create", "recover"} => j.blob \in Present
  BY <1>1 DEF StoreInv, MemSafe, CallSafe, Unlocked, Writing
<1>4. Orderly(u)
  BY <1>2, <1>3, UpdatedOrderly
<1>5. Refs(u) \subseteq Present /\ Present' = Present
  BY <1>1, <1>2, <1>3, UpdatedRefs DEF Present
<1>6. shown \subseteq u.notes \cup u.trash /\ (j.name = "create" => j.note \in u.notes)
  BY <1>2, <1>3, UpdatedNotes
<1>7. shown' \subseteq u.notes \cup u.trash
  BY <1>6 DEF WriteManifest
<1>8. DiskSafe'
  BY <1>1, <1>4, <1>5, <1>7 DEF DiskSafe
<1>9. CASE mem' = [mem EXCEPT ![Writer] = u] /\ Continue(Writer, AfterManifest(j))
  <2>1. /\ mem'[Writer] = u
        /\ pc'[Writer] = AfterManifest(j)
        /\ pc'[Writer] = "unlink" => job'[Writer] = j
    BY <1>w, <1>9 DEF Continue, AfterManifest, StoreInv, TypeInv, TypeOK
  <2>2. pc'[Writer] = "unlink" => j.gone \in Objects \ Refs(u)
    BY <1>2, <1>3, <2>1, GoneUnreferenced DEF AfterManifest
  <2>3. pc'[Writer] \in {"ready", "unlink"}
    BY <2>1 DEF AfterManifest
  <2>4. MemSafe' /\ ScanSafe'
    BY <1>4, <1>5, <1>7, <2>1, <2>3 DEF MemSafe, ScanSafe
  <2>5. CallSafe'
    BY <1>1, <2>1, <2>2, <2>3 DEF CallSafe, Writing
  <2> QED BY <1>8, <2>4, <2>5 DEF StoreInv
<1>10. CASE Continue(Writer, "ready") /\ UNCHANGED <<mem, shown>>
  <2>1. pc'[Writer] = "ready"
    BY <1>w, <1>10 DEF Continue, StoreInv, TypeInv, TypeOK
  <2>2. MemSafe' /\ ScanSafe' /\ CallSafe'
    BY <1>3, <1>5, <1>10, <2>1 DEF MemSafe, ScanSafe, CallSafe, Writing
  <2> QED BY <1>8, <2>2 DEF StoreInv
<1> QED BY <1>9, <1>10 DEF WriteManifest

\* Removing what no manifest names keeps the invariant.
LEMMA UnlinkSafe ==
  ASSUME StoreInv, TypeInv', Unlink(Writer)
  PROVE  StoreInv'
<1>w. Writer \in Sessions
  BY DEF Sessions
<1>1. /\ pc[Writer] = "unlink" /\ pc'[Writer] = "ready"
      /\ UNCHANGED <<disk, mem, todo, shown>>
  BY <1>w DEF Unlink, Continue, StoreInv, TypeInv, TypeOK
<1>2. job[Writer].gone \notin Refs(disk) \cup Refs(mem[Writer])
  BY <1>1 DEF StoreInv, CallSafe
<1>3. Present \ {job[Writer].gone} \subseteq Present'
  BY DEF Unlink, Present, StoreInv, TypeInv, TypeOK
<1>4. DiskSafe' /\ MemSafe'
  BY <1>1, <1>2, <1>3 DEF StoreInv, DiskSafe, MemSafe, Unlocked
<1>5. ScanSafe' /\ CallSafe'
  BY <1>1 DEF ScanSafe, CallSafe, Writing
<1> QED BY <1>4, <1>5 DEF StoreInv

\* With no reader beside the owner, every step keeps the invariant.
LEMMA StoreStep == Readers = {} /\ StoreInv /\ [Next]_vars => StoreInv'
<1> SUFFICES ASSUME Readers = {}, StoreInv, [Next]_vars PROVE StoreInv'
  OBVIOUS
<1>1. TypeInv'
  BY TypeStep DEF StoreInv
<1>2. CASE Calls
  BY <1>1, <1>2, CallsSafe
<1>3. CASE \E s \in Sessions : Step(s)
  <2>1. Step(Writer)
    BY <1>3 DEF Sessions
  <2>2. CASE Rewrite(Writer)
    <3>1. JobFits([name |-> "rewrite", note |-> NoObject, blob |-> NoObject,
                   gone |-> NoObject], mem[Writer])
      BY DEF JobFits
    <3>2. shown' = shown
      BY <2>2 DEF Rewrite
    <3> QED BY <1>1, <2>2, <3>1, <3>2, BeginSafe DEF Rewrite, Jobs, Writing
  <2> QED BY <1>1, <2>1, <2>2, UnlockSafe, BlobSafe, ManifestSafe, UnlinkSafe DEF Step
<1>4. CASE UNCHANGED vars
  BY <1>1, <1>4 DEF vars, StoreInv, DiskSafe, MemSafe, ScanSafe, CallSafe, Present, Unlocked
<1> QED BY <1>2, <1>3, <1>4 DEF Next

\* A new vault satisfies the invariant.
LEMMA StoreInit == Init => StoreInv
<1> SUFFICES ASSUME Init PROVE StoreInv
  OBVIOUS
<1>1. TypeInv
  BY TypeInit
<1>2. Orderly(Fresh) /\ Refs(Fresh) = {}
  BY StoreAssumption DEF Fresh, Orderly, Refs
<1>3. Writer \in Sessions
  BY DEF Sessions
<1>4. disk = Fresh /\ shown = {} /\ pc[Writer] = "locked"
  BY <1>3 DEF Init
<1> QED
  BY <1>1, <1>2, <1>4
  DEF StoreInv, DiskSafe, MemSafe, ScanSafe, CallSafe, Writing, Unlocked, Present

\* As long as nobody has the vault open beside its owner, every blob a manifest
\* names exists, on disk and in the session, at every point a crash can hit.
THEOREM NothingDangles == ASSUME Readers = {} PROVE Spec => []NoDanglingRecord
<1>1. StoreInv => NoDanglingRecord
  BY DEF StoreInv, DiskSafe, MemSafe, NoDanglingRecord, Sessions
<1>2. StoreInv /\ [Next]_vars => StoreInv'
  BY StoreStep
<1> QED BY <1>1, <1>2, StoreInit, PTL DEF Spec

\* Under the same condition no crash and no failed write drops a note that was
\* created, or that an unlock has found, before it is permanently deleted.
THEOREM NothingDropped == ASSUME Readers = {} PROVE Spec => []NoNoteDropped
<1>1. StoreInv => NoNoteDropped
  BY DEF StoreInv, DiskSafe, NoNoteDropped
<1>2. StoreInv /\ [Next]_vars => StoreInv'
  BY StoreStep
<1> QED BY <1>1, <1>2, StoreInit, PTL DEF Spec

-----------------------------------------------------------------------------
(* The owner beside sessions opened read-only *)

\* Every manifest somebody could still write, or read: the sealed one and the
\* ones sessions work on, which other sessions may have outdated.
Held == {disk} \cup {mem[s] : s \in Sessions}

\* A blob that holds a note is the recovery copy of nothing, in any manifest:
\* however stale the manifest, what it lets a call remove is no note.
Apart ==
  \A m \in Held : \A n \in Objects :
    /\ m.rec[n] \notin shown
    /\ \A k \in Held : m.rec[n] \notin k.notes \cup k.trash

\* A session opened read-only changes nothing but the manifest, which it seals
\* as it read it.
ReadersReseal ==
  \A s \in Readers : pc[s] \notin {"rewrite", "blob", "unlink"} /\ job[s] = NoJob

\* The owner's call keeps blobs to one use.  The blob of a note it creates may be
\* moved to orphans/ by a session that unlocks, but it is not lost.
CallApart ==
  LET j == job[Writer] IN
  /\ pc[Writer] \in Writing =>
       /\ JobFits(j, mem[Writer])
       /\ j.name = "delete" => j.note \notin shown
       /\ j.name = "create" => \A m \in Held : \A n \in Objects : m.rec[n] # j.blob
       /\ j.name = "recover" =>
            j.blob \notin shown /\ \A m \in Held : j.blob \notin m.notes \cup m.trash
  /\ pc[Writer] = "manifest" /\ j.name = "create" => j.blob \in Present \cup orphans
  /\ pc[Writer] = "unlink" => j.gone \in Objects \ shown

SharedInv == TypeInv /\ ContentNeverDestroyed /\ Apart /\ ReadersReseal /\ CallApart

\* What the writer's manifests are made of.
LEMMA HeldManifests ==
  ASSUME TypeInv
  PROVE  /\ \A m \in Held : m \in Manifest
         /\ \A s \in Sessions : mem[s] \in Held
         /\ disk \in Held /\ Writer \in Sessions
  BY DEF Held, TypeInv, TypeOK, Sessions

\* A step that adds no manifest to the ones held, but an empty one, and no note
\* to the ones shown, keeps the uses of blobs apart.
LEMMA FewerHeld ==
  ASSUME SharedInv, \A m \in Held' : m \in Held \/ m = Fresh, UNCHANGED shown
  PROVE  Apart'
<1>1. \A m \in Held : m \in Manifest
  BY HeldManifests DEF SharedInv
<1>2. NoObject \notin shown /\ \A m \in Held : NoObject \notin m.notes \cup m.trash
  BY <1>1, StoreAssumption DEF SharedInv, TypeInv, TypeOK, Manifest
<1> QED BY <1>2 DEF SharedInv, Apart, Fresh

\* If it leaves the owner's call alone as well, the call keeps what it relies on.
LEMMA ElsewhereApart ==
  ASSUME SharedInv, \A m \in Held' : m \in Held \/ m = Fresh, UNCHANGED shown,
         pc'[Writer] = pc[Writer], job'[Writer] = job[Writer],
         pc[Writer] \in Writing => mem'[Writer] = mem[Writer],
         Present \cup orphans \subseteq Present' \cup orphans'
  PROVE  CallApart'
<1> DEFINE j == job[Writer]
<1>1. \A n \in Objects : Fresh.rec[n] = NoObject
  BY DEF Fresh
<1>2. pc[Writer] \in Writing /\ j.name \in {"create", "recover"}
        => j.blob \notin {NoObject} \cup Fresh.notes \cup Fresh.trash
  BY StoreAssumption DEF SharedInv, CallApart, JobFits, Fresh
<1> QED BY <1>1, <1>2 DEF SharedInv, CallApart

\* The start of a call of the owner keeps blobs to one use.
LEMMA BeginApart ==
  ASSUME SharedInv, TypeInv',
         NEW name \in Jobs, NEW note \in Objects \cup {NoObject},
         NEW blob \in Objects \cup {NoObject}, NEW gone \in Objects \cup {NoObject},
         NEW first \in Writing, Begin(Writer, name, note, blob, gone, first),
         shown' \subseteq shown,
         first = "manifest" => name # "create",
         name = "delete" => note \notin shown',
         name = "create" => \A m \in Held : \A n \in Objects : m.rec[n] # blob,
         name = "recover" =>
           blob \notin shown /\ \A m \in Held : blob \notin m.notes \cup m.trash,
         JobFits([name |-> name, note |-> note, blob |-> blob, gone |-> gone], mem[Writer])
  PROVE  SharedInv'
<1>w. Writer \in Sessions /\ Writer \notin Readers
  BY StoreAssumption DEF Sessions
<1>1. /\ job'[Writer] = [name |-> name, note |-> note, blob |-> blob, gone |-> gone]
      /\ pc'[Writer] = first
      /\ UNCHANGED <<disk, store, orphans, mem>>
      /\ \A s \in Readers : pc'[s] = pc[s] /\ job'[s] = job[s]
  BY <1>w DEF Begin, SharedInv, TypeInv, TypeOK, Sessions
<1>2. Held' = Held
  BY <1>1 DEF Held
<1>3. Apart' /\ ContentNeverDestroyed'
  BY <1>1, <1>2 DEF SharedInv, Apart, ContentNeverDestroyed, Present
<1>4. ReadersReseal'
  BY <1>1 DEF SharedInv, ReadersReseal
<1>5. CallApart'
  BY <1>1, <1>2 DEF CallApart, Writing
<1> QED BY <1>3, <1>4, <1>5 DEF SharedInv

\* Each call establishes what its writes rely on, whatever other sessions did to
\* the vault since it was unlocked.
LEMMA CallsApart == SharedInv /\ TypeInv' /\ Calls => SharedInv'
<1> SUFFICES ASSUME SharedInv, TypeInv', Calls PROVE SharedInv'
  OBVIOUS
<1> DEFINE m == mem[Writer]
<1>w. Writer \in Sessions /\ NoObject \notin Objects /\ m \in Held
  BY StoreAssumption, HeldManifests DEF Sessions, SharedInv
<1>r. /\ m.notes \subseteq Objects /\ m.trash \subseteq Objects
      /\ \A o \in Objects : m.rec[o] \in Objects \cup {NoObject}
  BY <1>w DEF SharedInv, TypeInv, TypeOK, Manifest
<1>u. ASSUME NEW o \in Objects, Unused(o)
      PROVE  /\ o \notin shown /\ o \notin Refs(m)
             /\ \A k \in Held : o \notin k.notes \cup k.trash
             /\ \A k \in Held : \A n \in Objects : k.rec[n] # o
  <2>1. o \notin shown
    BY <1>u DEF Unused, SharedInv, ContentNeverDestroyed, Present
  <2>2. \A k \in Held : o \notin Refs(k)
    BY <1>u DEF Unused, Held
  <2> QED BY <1>w, <1>u, <2>1, <2>2 DEF Refs
<1>1. CASE CreateNote
  <2>1. PICK o \in Objects :
          Unused(o) /\ Begin(Writer, "create", o, o, NoObject, "rewrite") /\ UNCHANGED shown
    BY <1>1 DEF CreateNote
  <2>2. JobFits([name |-> "create", note |-> o, blob |-> o, gone |-> NoObject], m)
    BY <1>w, <1>u, <2>1 DEF JobFits
  <2> QED BY <1>u, <2>1, <2>2, BeginApart DEF Jobs, Writing
<1>2. CASE SaveNote
  <2>1. PICK o \in m.notes, name \in {"save", "title"} :
          Begin(Writer, name, o, o, m.rec[o], "blob") /\ UNCHANGED shown
    BY <1>2 DEF SaveNote
  <2>2. JobFits([name |-> name, note |-> o, blob |-> o, gone |-> m.rec[o]], m)
    BY <2>1 DEF JobFits
  <2> QED BY <1>r, <2>1, <2>2, BeginApart DEF Jobs, Writing
<1>3. CASE SaveEncryptedNote \/ EncryptNote \/ RemoveEncryption
  <2>1. PICK o \in m.notes, name \in {"saveInner", "encrypt", "decrypt"} :
          Begin(Writer, name, o, o, NoObject, "blob") /\ UNCHANGED shown
    BY <1>3 DEF SaveEncryptedNote, EncryptNote, RemoveEncryption
  <2>2. JobFits([name |-> name, note |-> o, blob |-> o, gone |-> NoObject], m)
    BY <2>1 DEF JobFits
  <2> QED BY <1>r, <2>1, <2>2, BeginApart DEF Jobs, Writing
<1>4. CASE WriteRecovery
  <2>1. PICK n \in m.notes, o \in Objects :
          Unused(o) /\ Begin(Writer, "recover", n, o, NoObject, "blob") /\ UNCHANGED shown
    BY <1>4 DEF WriteRecovery
  <2>2. JobFits([name |-> "recover", note |-> n, blob |-> o, gone |-> NoObject], m)
    BY <1>w, <1>u, <2>1 DEF JobFits
  <2> QED BY <1>r, <1>u, <2>1, <2>2, BeginApart DEF Jobs, Writing
<1>5. CASE MoveToTrash
  <2>1. PICK o \in m.notes :
          Begin(Writer, "trash", o, NoObject, NoObject, "manifest") /\ UNCHANGED shown
    BY <1>5 DEF MoveToTrash
  <2>2. JobFits([name |-> "trash", note |-> o, blob |-> NoObject, gone |-> NoObject], m)
    BY <2>1 DEF JobFits
  <2> QED BY <1>r, <2>1, <2>2, BeginApart DEF Jobs, Writing
<1>6. CASE RestoreFromTrash
  <2>1. PICK o \in m.trash :
          Begin(Writer, "restore", o, NoObject, NoObject, "manifest") /\ UNCHANGED shown
    BY <1>6 DEF RestoreFromTrash
  <2>2. JobFits([name |-> "restore", note |-> o, blob |-> NoObject, gone |-> NoObject], m)
    BY <2>1 DEF JobFits
  <2> QED BY <1>r, <2>1, <2>2, BeginApart DEF Jobs, Writing
<1>7. CASE PermanentlyDelete
  <2>1. PICK o \in m.trash :
          Begin(Writer, "delete", o, NoObject, o, "manifest") /\ shown' = shown \ {o}
    BY <1>7 DEF PermanentlyDelete
  <2>2. JobFits([name |-> "delete", note |-> o, blob |-> NoObject, gone |-> o], m)
    BY <2>1 DEF JobFits
  <2>3. shown' \subseteq shown /\ o \notin shown'
    BY <2>1
  <2> QED BY <1>r, <2>1, <2>2, <2>3, BeginApart DEF Jobs, Writing
<1> QED BY <1>1, <1>2, <1>3, <1>4, <1>5, <1>6, <1>7 DEF Calls

\* Unlocking, reconcile and locking, by any session: reconcile puts what it takes
\* from the store among the orphans.
LEMMA UnlockApart ==
  ASSUME SharedInv, TypeInv', NEW s \in Sessions,
         Unlock(s) \/ List(s) \/ MoveOrphan(s) \/ Unlocks(s) \/ Lock(s)
  PROVE  SharedInv'
<1>w. Writer \in Sessions /\ Writer \notin Readers /\ Readers \subseteq Sessions
  BY StoreAssumption DEF Sessions
<1>t. /\ pc \in [Sessions -> PC] /\ job \in [Sessions -> Job] /\ mem \in [Sessions -> Manifest]
      /\ store \in [Objects -> Kinds \cup {"none"}]
  BY DEF SharedInv, TypeInv, TypeOK, Job
<1>1. /\ pc'[s] \notin Writing \cup {"unlink"}
      /\ job'[s] \in {job[s], NoJob}
      /\ \A t \in Sessions : t # s => /\ pc'[t] = pc[t] /\ job'[t] = job[t]
                                    /\ mem'[t] = mem[t]
  BY <1>t DEF Unlock, List, MoveOrphan, Unlocks, Lock, Writing
<1>2. ReadersReseal'
  BY <1>w, <1>1 DEF SharedInv, ReadersReseal, Writing
<1>3. \A m \in Held' : m \in Held \/ m = Fresh
  <2>1. disk' = disk /\ mem'[s] \in {mem[s], disk, Fresh}
    BY <1>t DEF Unlock, List, MoveOrphan, Unlocks, Lock
  <2> QED BY <1>1, <2>1 DEF Held
<1>4. Present \cup orphans \subseteq Present' \cup orphans'
  <2>1. CASE MoveOrphan(s)
    <3>1. PICK o \in todo[s] :
            /\ store' = [store EXCEPT ![o] = "none"]
            /\ orphans' = IF store[o] = "none" THEN orphans ELSE orphans \cup {o}
      BY <2>1 DEF MoveOrphan
    <3> QED BY <1>t, <3>1 DEF Present
  <2>2. CASE UNCHANGED <<store, orphans>>
    BY <2>2 DEF Present
  <2> QED BY <2>1, <2>2 DEF Unlock, List, Unlocks, Lock
<1>5. CallApart'
  <2>1. CASE s = Writer
    BY <1>1, <2>1 DEF CallApart, Writing
  <2>2. CASE s # Writer
    <3>1. UNCHANGED shown
      BY <2>2 DEF Unlock, List, MoveOrphan, Unlocks, Lock
    <3> QED BY <1>w, <1>1, <1>3, <1>4, <2>2, <3>1, ElsewhereApart
  <2> QED BY <2>1, <2>2
<1>6. CASE UNCHANGED shown
  BY <1>2, <1>3, <1>4, <1>5, <1>6, FewerHeld DEF SharedInv, ContentNeverDestroyed
<1>7. CASE Unlocks(Writer)
  <2>1. /\ shown' = shown \cup ((mem[Writer].notes \cup mem[Writer].trash) \cap Present)
        /\ UNCHANGED <<disk, mem, store, orphans>>
    BY <1>7 DEF Unlocks
  <2>2. Held' = Held /\ Present' = Present /\ mem[Writer] \in Held
    BY <1>w, <2>1 DEF Held, Present
  <2>3. Apart' /\ ContentNeverDestroyed'
    BY <2>1, <2>2 DEF SharedInv, Apart, ContentNeverDestroyed
  <2> QED BY <1>2, <1>5, <2>3 DEF SharedInv
<1> QED BY <1>6, <1>7 DEF Unlock, List, MoveOrphan, Unlocks, Lock

\* The writes: what a call removes is a recovery copy, or the note it deletes.
LEMMA WritesApart ==
  ASSUME SharedInv, TypeInv', NEW s \in Sessions,
         \/ Rewrite(s) \/ RewriteFirst(s) \/ WriteBlob(s) \/ WriteManifest(s)
         \/ Unlink(s) \/ WriteFails(s)
  PROVE  SharedInv'
<1> DEFINE j == job[Writer]
           m == mem[Writer]
<1>w. /\ Writer \in Sessions /\ Writer \notin Readers /\ Readers \subseteq Sessions
      /\ s # Writer => s \in Readers
  BY StoreAssumption DEF Sessions
<1>t. /\ pc \in [Sessions -> PC] /\ job \in [Sessions -> Job] /\ mem \in [Sessions -> Manifest]
      /\ store \in [Objects -> Kinds \cup {"none"}] /\ JobNamed(j)
      /\ m \in Manifest /\ j \in Job /\ m \in Held
  BY <1>w, HeldManifests DEF SharedInv, TypeInv, TypeOK, Job
<1>1. CASE s \in Readers
  <2>1. pc[s] \notin {"rewrite", "blob", "unlink"} /\ job[s] = NoJob
    BY <1>1 DEF SharedInv, ReadersReseal
  <2>2. Updated(mem[s], NoJob) = mem[s]
    BY DEF Updated, NoJob
  <2>3. /\ disk' \in {disk, mem[s]} /\ UNCHANGED <<mem, store, orphans, shown>>
        /\ pc'[s] \in {"manifest", "ready"} /\ job' = job
        /\ \A t \in Sessions : t # s => pc'[t] = pc[t]
    BY <1>t, <2>1, <2>2
    DEF Rewrite, RewriteFirst, WriteBlob, WriteManifest, Unlink, WriteFails, Begin,
        Continue, AfterManifest, NoJob
  <2>4. ReadersReseal'
    BY <1>w, <2>3 DEF SharedInv, ReadersReseal
  <2>5. \A k \in Held' : k \in Held
    BY <2>3 DEF Held
  <2>6. Present' = Present
    BY <2>3 DEF Present
  <2>7. CallApart'
    BY <1>w, <1>1, <2>3, <2>5, <2>6, ElsewhereApart
  <2> QED BY <2>3, <2>4, <2>5, <2>6, <2>7, FewerHeld DEF SharedInv, ContentNeverDestroyed
<1>2. ASSUME s = Writer
      PROVE  ReadersReseal'
  <2>1. \A t \in Readers : pc'[t] = pc[t] /\ job'[t] = job[t]
    BY <1>w, <1>t, <1>2
    DEF Rewrite, RewriteFirst, WriteBlob, WriteManifest, Unlink, WriteFails, Begin, Continue
  <2> QED BY <2>1 DEF SharedInv, ReadersReseal
<1>3. CASE s = Writer /\ Rewrite(s)
  <2>1. JobFits([name |-> "rewrite", note |-> NoObject, blob |-> NoObject,
                 gone |-> NoObject], m)
    BY DEF JobFits
  <2> QED BY <1>3, <2>1, BeginApart DEF Rewrite, Jobs, Writing
<1>4. CASE s = Writer /\ (RewriteFirst(s) \/ WriteBlob(s) \/ WriteFails(s))
  <2>1. /\ disk' \in {disk, m} /\ UNCHANGED <<mem, orphans, shown>>
        /\ pc[Writer] \in Writing
        /\ pc'[Writer] = "ready" \/ (pc'[Writer] \in Writing /\ job'[Writer] = j)
        /\ pc'[Writer] = "manifest" /\ j.name = "create"
             => WriteBlob(Writer)
    BY <1>w, <1>t, <1>4
    DEF RewriteFirst, WriteBlob, WriteFails, Continue, AfterRewrite, AfterBlob,
        DropRecovery, Writing
  <2>2. /\ Present \subseteq Present'
        /\ WriteBlob(Writer) /\ j.blob \in Objects => j.blob \in Present'
    <3>1. UNCHANGED store \/ store' = [store EXCEPT ![j.blob] = BlobKind(j)]
      BY <1>4 DEF RewriteFirst, WriteBlob, WriteFails
    <3>2. WriteBlob(Writer) => store' = [store EXCEPT ![j.blob] = BlobKind(j)]
      BY DEF WriteBlob
    <3> QED BY <1>t, <3>1, <3>2 DEF Present, BlobKind
  <2>3. \A k \in Held' : k \in Held
    BY <1>t, <2>1 DEF Held
  <2>4. CallApart'
    BY <2>1, <2>2, <2>3 DEF SharedInv, CallApart, JobFits, Writing
  <2> QED BY <1>2, <1>4, <2>1, <2>2, <2>3, <2>4, FewerHeld DEF SharedInv, ContentNeverDestroyed
<1>5. CASE s = Writer /\ WriteManifest(s)
  <2> DEFINE u == Updated(m, j)
  <2>1. /\ pc[Writer] = "manifest" /\ JobFits(j, m)
        /\ disk' = u /\ mem' \in {mem, [mem EXCEPT ![Writer] = u]}
        /\ shown' \in {shown, shown \cup {n \in {j.note} : j.name = "create"}}
        /\ UNCHANGED <<store, orphans>>
    BY <1>5 DEF WriteManifest, SharedInv, CallApart, Writing
  <2>2. \A k \in Held' : k \in Held \/ k = u
    BY <1>t, <2>1 DEF Held
  <2>3. /\ u.notes \cup u.trash \subseteq
             m.notes \cup m.trash \cup {n \in {j.blob} : j.name = "create"}
        /\ \A n \in Objects : \/ u.rec[n] = m.rec[n]
                              \/ u.rec[n] = NoObject
                              \/ u.rec[n] = j.blob /\ j.name = "recover"
    BY <1>t, <2>1, UpdatedUses
  <2>4. NoObject \notin shown /\ \A k \in Held : NoObject \notin k.notes \cup k.trash
    BY HeldManifests, StoreAssumption DEF SharedInv, TypeInv, TypeOK, Manifest
  <2>5. /\ j.name = "create" => /\ j.note = j.blob /\ j.blob \in Objects
                                /\ j.blob \in Present \cup orphans
                                /\ \A k \in Held : \A n \in Objects : k.rec[n] # j.blob
        /\ j.name = "recover" =>
             /\ j.blob \notin shown
             /\ \A k \in Held : j.blob \notin k.notes \cup k.trash
    BY <2>1 DEF SharedInv, CallApart, JobFits, Writing
  <2>6. Apart'
    <3>1. \A k \in Held' : \A n \in Objects :
            k.rec[n] \notin shown'
      BY <1>t, <2>1, <2>2, <2>3, <2>4, <2>5, StoreAssumption DEF SharedInv, Apart
    <3>2. \A k, l \in Held' : \A n \in Objects : k.rec[n] \notin l.notes \cup l.trash
      BY <1>t, <2>2, <2>3, <2>4, <2>5, StoreAssumption DEF SharedInv, Apart
    <3> QED BY <3>1, <3>2 DEF Apart
  <2>7. ContentNeverDestroyed'
    BY <2>1, <2>5 DEF SharedInv, ContentNeverDestroyed, Present
  <2>8. CallApart'
    <3>1. CASE pc'[Writer] = "ready"
      BY <3>1 DEF CallApart, Writing
    <3>2. CASE /\ pc'[Writer] = "unlink" /\ j.gone # NoObject /\ job'[Writer] = j
               /\ j.name \in {"save", "title", "delete"}
      <4>1. shown' = shown
        BY <2>1, <3>2
      <4>2. j.gone \in Objects \ shown
        <5>1. j.name \in {"save", "title"} => j.note \in Objects /\ j.gone = m.rec[j.note]
          BY <1>t, <2>1 DEF JobFits, JobNamed
        <5>2. j.name = "delete" => j.gone = j.note /\ j.note \notin shown
          BY <2>1 DEF JobFits, SharedInv, CallApart, Writing
        <5>3. \A n \in Objects : m.rec[n] \notin shown
          BY <1>t DEF SharedInv, Apart
        <5> QED BY <1>t, <3>2, <5>1, <5>2, <5>3 DEF Job
      <4> QED BY <3>2, <4>1, <4>2 DEF CallApart, Writing
    <3> QED BY <1>w, <1>t, <1>5, <2>1, <3>1, <3>2
            DEF WriteManifest, Continue, AfterManifest, JobFits
  <2> QED BY <1>2, <1>5, <2>6, <2>7, <2>8 DEF SharedInv
<1>6. CASE s = Writer /\ Unlink(s)
  <2>1. /\ pc[Writer] = "unlink" /\ pc'[Writer] = "ready"
        /\ UNCHANGED <<disk, mem, orphans, shown>>
        /\ store' = store \/ store' = [store EXCEPT ![j.gone] = "none"]
    BY <1>w, <1>t, <1>6 DEF Unlink, Continue
  <2>2. j.gone \in Objects \ shown
    BY <2>1 DEF SharedInv, CallApart
  <2>3. ContentNeverDestroyed'
    BY <1>t, <2>1, <2>2 DEF SharedInv, ContentNeverDestroyed, Present
  <2>4. Held' = Held
    BY <2>1 DEF Held
  <2>5. CallApart'
    BY <2>1 DEF CallApart, Writing
  <2> QED BY <1>2, <1>6, <2>1, <2>3, <2>4, <2>5, FewerHeld DEF SharedInv
<1> QED BY <1>w, <1>1, <1>3, <1>4, <1>5, <1>6

\* The blob of a note that was not permanently deleted is in the store or among
\* the orphans, however many sessions are opened read-only beside the owner, unlock
\* the vault with any manifest and seal theirs over the owner's.
THEOREM NothingDestroyed == Spec => []ContentNeverDestroyed
<1>1. Init => SharedInv
  <2>1. Init => TypeInv
    BY TypeInit
  <2>2. Writer \in Sessions
    BY DEF Sessions
  <2>3. Init => \A m \in Held : m = Fresh
    BY DEF Init, Held
  <2>4. Init => Apart
    BY <2>3 DEF Init, Apart, Fresh
  <2> QED BY <2>1, <2>2, <2>4
          DEF Init, SharedInv, ContentNeverDestroyed, ReadersReseal, CallApart, Writing, Sessions
<1>2. SharedInv /\ [Next]_vars => SharedInv'
  <2> SUFFICES ASSUME SharedInv, [Next]_vars PROVE SharedInv'
    OBVIOUS
  <2>1. TypeInv'
    BY TypeStep DEF SharedInv
  <2>2. CASE Calls
    BY <2>1, <2>2, CallsApart
  <2>3. ASSUME NEW s \in Sessions, Step(s) PROVE SharedInv'
    BY <2>1, <2>3, UnlockApart, WritesApart DEF Step
  <2>4. CASE UNCHANGED vars
    BY <2>4 DEF vars, SharedInv, TypeInv, TypeOK, ContentNeverDestroyed, Present, Apart, Held,
       ReadersReseal, CallApart
  <2> QED BY <2>2, <2>3, <2>4 DEF Next
<1>3. SharedInv => ContentNeverDestroyed
  BY DEF SharedInv
<1> QED BY <1>1, <1>2, <1>3, PTL DEF Spec

-----------------------------------------------------------------------------
(* Unsaved text put away by write_recovery *)

\* The recovery copies a manifest names are notes in plain form.
Copies(m) == \A n \in Objects : m.rec[n] # NoObject => store[m.rec[n]] = "Note"

\* Every note with unsaved text put away has its copy.
Copied(m) == \A n \in rescued : m.rec[n] # NoObject

RescueInv ==
  /\ Copies(disk) /\ Copied(disk)
  /\ Unlocked(Writer) =>
       /\ Copies(mem[Writer]) /\ Copied(mem[Writer])
       /\ \A n \in Objects : disk.rec[n] \notin mem[Writer].notes
  /\ pc[Writer] = "manifest" /\ job[Writer].name = "recover"
       => store[job[Writer].blob] = "Note"
  /\ pc[Writer] \in {"manifest", "rewrite"} /\ job[Writer].name \in {"save", "title"}
       => job[Writer].note \notin rescued

\* The recovery copies of a manifest that a call has updated.
LEMMA UpdatedCopies ==
  ASSUME NEW m \in Manifest, NEW j \in Job, JobNamed(j), JobFits(j, m),
         store \in [Objects -> Kinds \cup {"none"}], rescued \subseteq Objects,
         Copies(m), Copied(m),
         j.name = "recover" => store[j.blob] = "Note",
         j.name \in {"save", "title"} => j.note \notin rescued
  PROVE  /\ Copies(Updated(m, j)) /\ Copied(Updated(m, j))
         /\ \A n \in Objects : Updated(m, j).rec[n] \in {m.rec[n], NoObject}
                                 \/ (j.name = "recover" /\ Updated(m, j).rec[n] = j.blob)
         /\ j.name = "recover" => Updated(m, j).rec[j.note] # NoObject
<1> DEFINE u == Updated(m, j)
<1>0. NoObject \notin Objects
  BY StoreAssumption
<1>1. CASE j.name = "recover"
  <2>1. j.note \in Objects /\ j.blob \in Objects
    BY <1>1 DEF JobNamed
  <2>2. \A n \in Objects : u.rec[n] = IF n = j.note THEN j.blob ELSE m.rec[n]
    BY <1>1, <2>1 DEF Updated, Manifest
  <2> QED BY <1>0, <1>1, <2>1, <2>2 DEF Copies, Copied
<1>2. CASE j.name \in {"save", "title"}
  <2>1. \A n \in Objects : u.rec[n] = IF n = j.note THEN NoObject ELSE m.rec[n]
    BY <1>2 DEF Updated, Manifest
  <2> QED BY <1>2, <2>1 DEF Copies, Copied
<1>3. CASE j.name \notin {"recover", "save", "title"}
  <2>1. u.rec = m.rec
    BY <1>3 DEF Updated, Manifest, Job, Jobs
  <2> QED BY <1>3, <2>1 DEF Copies, Copied
<1> QED BY <1>1, <1>2, <1>3

\* No step before the writes of a call disturbs a recovery copy.
LEMMA RescueUnwritten ==
  ASSUME StoreInv, RescueInv,
         \/ Calls \/ Rewrite(Writer)
         \/ Unlock(Writer) \/ List(Writer) \/ MoveOrphan(Writer)
         \/ Unlocks(Writer) \/ Lock(Writer) \/ WriteFails(Writer)
  PROVE  RescueInv'
<1>w. Writer \in Sessions /\ NoObject \notin Objects
  BY StoreAssumption DEF Sessions
<1>t. disk \in Manifest
  BY DEF StoreInv, TypeInv, TypeOK
<1> USE DEF StoreInv, TypeInv, TypeOK, RescueInv, Copies, Copied, Unlocked
<1>1. CASE Calls \/ Rewrite(Writer)
  <2>1. \A name, note, blob, gone, first :
          Begin(Writer, name, note, blob, gone, first)
            => /\ pc[Writer] = "ready" /\ UNCHANGED <<disk, store, mem, rescued>>
               /\ pc'[Writer] = first /\ job'[Writer].name = name
    BY <1>w DEF Begin
  <2>2. CASE CreateNote
    BY <2>1, <2>2 DEF CreateNote
  <2>3. CASE SaveNote
    BY <2>1, <2>3 DEF SaveNote
  <2>4. CASE SaveEncryptedNote \/ EncryptNote \/ RemoveEncryption
    BY <2>1, <2>4 DEF SaveEncryptedNote, EncryptNote, RemoveEncryption
  <2>5. CASE WriteRecovery
    BY <2>1, <2>5 DEF WriteRecovery
  <2>6. CASE MoveToTrash \/ RestoreFromTrash \/ PermanentlyDelete
    BY <2>1, <2>6 DEF MoveToTrash, RestoreFromTrash, PermanentlyDelete
  <2>7. CASE Rewrite(Writer)
    BY <2>1, <2>7 DEF Rewrite
  <2> QED BY <1>1, <2>2, <2>3, <2>4, <2>5, <2>6, <2>7 DEF Calls
<1>2. CASE Unlock(Writer) \/ List(Writer) \/ Lock(Writer)
  <2>1. /\ UNCHANGED <<disk, store, rescued>>
        /\ pc'[Writer] \in {"listing", "reconciling", "locked"}
    BY <1>w, <1>2 DEF Unlock, List, Lock
  <2> QED BY <2>1
<1>3. CASE MoveOrphan(Writer)
  <2>1. PICK o \in todo[Writer] : store' = [store EXCEPT ![o] = "none"]
    BY <1>3 DEF MoveOrphan
  <2>2. /\ pc[Writer] = "reconciling" /\ o \notin Refs(disk)
        /\ UNCHANGED <<disk, pc, mem, rescued>>
    BY <1>3, <2>1 DEF MoveOrphan, ScanSafe
  <2>3. \A n \in Objects : disk.rec[n] # NoObject => disk.rec[n] # o
    BY <1>t, <2>2 DEF Manifest, Refs
  <2> QED BY <1>t, <2>1, <2>2, <2>3 DEF Manifest
<1>4. CASE Unlocks(Writer)
  <2>1. /\ pc'[Writer] = "ready" /\ mem[Writer] = disk
        /\ UNCHANGED <<disk, store, mem, rescued>>
    BY <1>w, <1>4 DEF Unlocks, ScanSafe
  <2> QED BY <2>1 DEF DiskSafe, Orderly
<1>5. CASE WriteFails(Writer)
  <2>1. /\ pc[Writer] \in Writing /\ pc'[Writer] = "ready"
        /\ UNCHANGED <<disk, store, mem, rescued>>
    BY <1>w, <1>5 DEF WriteFails, Continue, Writing
  <2> QED BY <2>1 DEF Writing
<1> QED BY <1>1, <1>2, <1>3, <1>4, <1>5

\* Nor does a write of a call, for the copy of any note but its own.
LEMMA RescueWritten ==
  ASSUME StoreInv, RescueInv,
         \/ WriteBlob(Writer) \/ RewriteFirst(Writer)
         \/ WriteManifest(Writer) \/ Unlink(Writer)
  PROVE  RescueInv'
<1> DEFINE m == mem[Writer]
           j == job[Writer]
<1>w. Writer \in Sessions /\ NoObject \notin Objects
  BY StoreAssumption DEF Sessions
<1>t. /\ disk \in Manifest /\ m \in Manifest /\ j \in Job /\ JobNamed(j)
      /\ store \in [Objects -> Kinds \cup {"none"}] /\ rescued \subseteq Objects
      /\ pc \in [Sessions -> PC] /\ job \in [Sessions -> Job]
      /\ mem \in [Sessions -> Manifest]
  BY <1>w DEF StoreInv, TypeInv, TypeOK, Job
<1>1. CASE WriteBlob(Writer)
  <2>1. /\ pc[Writer] = "blob" /\ UNCHANGED <<disk, mem>>
        /\ store' = [store EXCEPT ![j.blob] = BlobKind(j)]
        /\ rescued' = IF j.name \in {"save", "title"} THEN rescued \ {j.note} ELSE rescued
    BY <1>1 DEF WriteBlob
  <2>2. JobFits(j, m) /\ Orderly(m)
    BY <2>1 DEF StoreInv, CallSafe, MemSafe, Writing, Unlocked
  <2>3. /\ pc'[Writer] \in {"ready", "rewrite", "manifest"}
        /\ pc'[Writer] # "ready" => job'[Writer] = j
    BY <1>w, <1>t, <1>1 DEF WriteBlob, AfterBlob, DropRecovery, Continue
  <2>4. ASSUME NEW n \in Objects, NEW o \in Objects, o \in {disk.rec[n], m.rec[n]}
        PROVE  store'[o] = "Note"
    <3>1. store[o] = "Note"
      BY <1>w, <2>1, <2>4 DEF RescueInv, Copies, Unlocked
    <3>2. CASE BlobKind(j) = "Note"
      BY <1>t, <2>1, <3>1, <3>2
    <3>3. CASE BlobKind(j) # "Note"
      <4>1. j.blob \in m.notes
        BY <2>2, <3>3 DEF BlobKind, JobFits
      <4>2. o # j.blob
        BY <2>1, <2>2, <2>4, <4>1 DEF RescueInv, Orderly, Unlocked
      <4> QED BY <1>t, <2>1, <3>1, <4>2
    <3> QED BY <3>2, <3>3
  <2>5. Copies(disk)' /\ Copies(mem[Writer])'
    BY <1>t, <2>1, <2>4 DEF Copies, Manifest
  <2>6. Copied(disk)' /\ Copied(mem[Writer])'
    BY <2>1 DEF RescueInv, Copied, Unlocked
  <2>7. j.name = "recover" => store'[j.blob] = "Note"
    BY <1>t, <2>1 DEF BlobKind, JobNamed
  <2> QED BY <2>1, <2>3, <2>5, <2>6, <2>7 DEF RescueInv, Unlocked
<1>2. CASE RewriteFirst(Writer)
  <2>1. pc[Writer] = "rewrite" /\ disk' = m /\ UNCHANGED <<store, mem, rescued>>
    BY <1>2 DEF RewriteFirst
  <2>2. /\ pc'[Writer] \in {"blob", "ready", "manifest"}
        /\ pc'[Writer] # "ready" => job'[Writer] = j
        /\ pc'[Writer] = "manifest" => j.name = "title"
    BY <1>w, <1>t, <1>2 DEF RewriteFirst, AfterRewrite, DropRecovery, Continue
  <2>3. Copies(m) /\ Copied(m) /\ Orderly(m)
    BY <2>1 DEF RescueInv, StoreInv, MemSafe, Unlocked
  <2> QED BY <2>1, <2>2, <2>3 DEF RescueInv, Unlocked, Copies, Copied, Orderly
<1>3. CASE WriteManifest(Writer)
  <2> DEFINE u == Updated(m, j)
  <2>1. pc[Writer] = "manifest" /\ disk' = u /\ UNCHANGED store
    BY <1>3 DEF WriteManifest
  <2>2. /\ JobFits(j, m) /\ Orderly(m) /\ Copies(m) /\ Copied(m)
        /\ j.name = "recover" => store[j.blob] = "Note"
        /\ j.name \in {"save", "title"} => j.note \notin rescued
    BY <2>1 DEF StoreInv, CallSafe, MemSafe, RescueInv, Writing, Unlocked
  <2>3. /\ Copies(u) /\ Copied(u)
        /\ \A n \in Objects : u.rec[n] \in {m.rec[n], NoObject}
                                \/ (j.name = "recover" /\ u.rec[n] = j.blob)
        /\ j.name = "recover" => u.rec[j.note] # NoObject
    BY <1>t, <2>2, UpdatedCopies
  <2>4. Orderly(u)
    BY <1>t, <2>2, UpdatedOrderly
  <2>5. CASE Continue(Writer, "ready") /\ UNCHANGED <<mem, rescued>>
    <3>1. pc'[Writer] = "ready"
      BY <1>w, <1>t, <2>5 DEF Continue
    <3>2. \A n \in Objects : u.rec[n] \notin m.notes
      <4>1. NoObject \notin m.notes
        BY <1>w, <1>t DEF Manifest
      <4>2. j.name = "recover" => j.blob \notin m.notes
        BY <2>2 DEF JobFits, Refs
      <4>3. \A n \in Objects : m.rec[n] \notin m.notes
        BY <2>2 DEF Orderly
      <4> QED BY <2>3, <4>1, <4>2, <4>3
    <3> QED BY <2>1, <2>2, <2>3, <2>5, <3>1, <3>2 DEF RescueInv, Unlocked, Copies, Copied
  <2>6. CASE /\ mem' = [mem EXCEPT ![Writer] = u]
             /\ Continue(Writer, AfterManifest(j))
             /\ rescued' = IF j.name = "recover" THEN rescued \cup {j.note} ELSE rescued
    <3>1. pc'[Writer] \in {"ready", "unlink"}
      BY <1>w, <1>t, <2>6 DEF Continue, AfterManifest
    <3>2. mem'[Writer] = u
      BY <1>w, <1>t, <2>6
    <3>3. \A n \in rescued' : u.rec[n] # NoObject
      BY <2>3, <2>6 DEF Copied
    <3> QED BY <2>1, <2>3, <2>4, <3>1, <3>2, <3>3 DEF RescueInv, Unlocked, Copies, Copied, Orderly
  <2> QED BY <1>3, <2>5, <2>6 DEF WriteManifest
<1>4. CASE Unlink(Writer)
  <2>1. /\ pc[Writer] = "unlink" /\ pc'[Writer] = "ready" /\ UNCHANGED <<disk, mem, rescued>>
        /\ store' = [store EXCEPT ![j.gone] = "none"] \/ store' = store
    BY <1>w, <1>t, <1>4 DEF Unlink, Continue
  <2>2. j.gone \in Objects \ (Refs(disk) \cup Refs(m))
    BY <2>1 DEF StoreInv, CallSafe
  <2>3. \A n \in Objects : j.gone \notin {disk.rec[n], m.rec[n]}
    BY <2>2 DEF Refs
  <2>4. Copies(disk) /\ Copies(m)
    BY <2>1 DEF RescueInv, Unlocked
  <2>5. Copies(disk)' /\ Copies(mem[Writer])'
    BY <1>t, <2>1, <2>3, <2>4 DEF Copies, Manifest
  <2> QED BY <2>1, <2>5 DEF RescueInv, Unlocked, Copied
<1> QED BY <1>1, <1>2, <1>3, <1>4

\* Unsaved text that write_recovery put away stays readable, whatever crashes and
\* failed writes come after it, until its note has been written.
THEOREM RescueKept == ASSUME Readers = {} PROVE Spec => []RescuedTextKept
<1>1. Init => RescueInv
  <2>1. Writer \in Sessions
    BY DEF Sessions
  <2> QED BY <2>1 DEF Init, RescueInv, Fresh, Copies, Copied, Unlocked
<1>2. StoreInv /\ RescueInv /\ [Next]_vars => RescueInv'
  <2> SUFFICES ASSUME StoreInv, RescueInv, [Next]_vars PROVE RescueInv'
    OBVIOUS
  <2>1. CASE Next
    <3>1. Calls \/ Step(Writer)
      BY <2>1 DEF Next, Sessions
    <3> QED BY <3>1, RescueUnwritten, RescueWritten DEF Step
  <2>2. CASE UNCHANGED vars
    BY <2>2 DEF vars, RescueInv, Copies, Copied, Unlocked
  <2> QED BY <2>1, <2>2
<1>3. StoreInv /\ RescueInv => RescuedTextKept
  BY DEF StoreInv, TypeInv, TypeOK, RescueInv, Copies, Copied, RescuedTextKept
<1>4. StoreInv /\ [Next]_vars => StoreInv'
  BY StoreStep
<1> QED BY <1>1, <1>2, <1>3, <1>4, StoreInit, PTL DEF Spec

-----------------------------------------------------------------------------
(* What the store implements *)

\* Manifest b is manifest a, or what one step of NoteShelf makes of it.
Shelf(a, b) ==
  \/ b.notes = a.notes /\ b.trash = a.trash
  \/ \E n \in Objects :
       \/ n \notin a.notes \cup a.trash /\ b.notes = a.notes \cup {n} /\ b.trash = a.trash
       \/ n \in a.notes /\ b.notes = a.notes \ {n} /\ b.trash = a.trash \cup {n}
       \/ n \in a.trash /\ b.notes = a.notes \cup {n} /\ b.trash = a.trash \ {n}
       \/ n \in a.trash /\ b.notes = a.notes /\ b.trash = a.trash \ {n}

\* A write that failed too late has put at most one step of NoteShelf on disk
\* that the session does not know of.
ShelfInv == Unlocked(Writer) => Shelf(mem[Writer], disk)

\* Each call is one step of NoteShelf, or none.
LEMMA UpdatedShelf ==
  ASSUME NEW m \in Manifest, NEW j \in Job, JobNamed(j), JobFits(j, m)
  PROVE  Shelf(m, Updated(m, j))
<1> DEFINE u == Updated(m, j)
<1>1. CASE j.name = "create"
  <2>1. u.notes = m.notes \cup {j.note} /\ u.trash = m.trash
    BY <1>1 DEF Updated, Manifest
  <2>2. j.note \in Objects /\ j.note \notin m.notes \cup m.trash
    BY <1>1 DEF JobFits, Refs
  <2> QED BY <2>1, <2>2 DEF Shelf
<1>2. CASE j.name = "trash"
  <2>1. u.notes = m.notes \ {j.note} /\ u.trash = m.trash \cup {j.note}
    BY <1>2 DEF Updated, Manifest
  <2>2. j.note \in Objects /\ j.note \in m.notes
    BY <1>2 DEF JobFits, JobNamed
  <2> QED BY <2>1, <2>2 DEF Shelf
<1>3. CASE j.name = "restore"
  <2>1. u.notes = m.notes \cup {j.note} /\ u.trash = m.trash \ {j.note}
    BY <1>3 DEF Updated, Manifest
  <2>2. j.note \in Objects /\ j.note \in m.trash
    BY <1>3 DEF JobFits, JobNamed
  <2> QED BY <2>1, <2>2 DEF Shelf
<1>4. CASE j.name = "delete"
  <2>1. u.notes = m.notes /\ u.trash = m.trash \ {j.note}
    BY <1>4 DEF Updated, Manifest
  <2>2. j.note \in Objects /\ j.note \in m.trash
    BY <1>4 DEF JobFits, JobNamed
  <2> QED BY <2>1, <2>2 DEF Shelf
<1>5. CASE j.name \in {"encrypt", "decrypt", "saveInner", "rewrite"}
  <2>1. u.notes = m.notes /\ u.trash = m.trash
    BY <1>5 DEF Updated, Manifest
  <2> QED BY <2>1 DEF Shelf
<1>6. CASE j.name \in {"recover", "save", "title"}
  <2>1. u.notes = m.notes /\ u.trash = m.trash
    BY <1>6 DEF Updated, Manifest
  <2> QED BY <2>1 DEF Shelf
<1> QED BY <1>1, <1>2, <1>3, <1>4, <1>5, <1>6 DEF Job, Jobs

\* What a step does to the view: nothing, or one step of NoteShelf; and the disk
\* stays at most one step away from what the session knows.
LEMMA ShelfStep ==
  ASSUME StoreInv, ShelfInv, Readers = {}, [Next]_vars
  PROVE  ShelfInv' /\ Shelf(View, View')
<1>w. Writer \in Sessions
  BY DEF Sessions
<1>t. mem \in [Sessions -> Manifest] /\ pc \in [Sessions -> PC] /\ job \in [Sessions -> Job]
  BY DEF StoreInv, TypeInv, TypeOK, Job
<1>s. \A a : Shelf(a, a)
  BY DEF Shelf
<1>1. ASSUME UNCHANGED <<disk, mem>>, Unlocked(Writer)' = Unlocked(Writer)
      PROVE  ShelfInv' /\ Shelf(View, View')
  BY <1>1, <1>s DEF ShelfInv, View, Shelf
<1>2. CASE Calls
  <2>1. \A name, note, blob, gone : \A first \in Writing :
          Begin(Writer, name, note, blob, gone, first)
            => UNCHANGED <<disk, mem>> /\ Unlocked(Writer)' = Unlocked(Writer)
    BY <1>w, <1>t DEF Begin, Unlocked, Writing
  <2>2. CASE CreateNote
    BY <1>1, <2>1, <2>2 DEF CreateNote, Writing
  <2>3. CASE SaveNote
    BY <1>1, <2>1, <2>3 DEF SaveNote, Writing
  <2>4. CASE SaveEncryptedNote \/ EncryptNote \/ RemoveEncryption
    BY <1>1, <2>1, <2>4 DEF SaveEncryptedNote, EncryptNote, RemoveEncryption, Writing
  <2>5. CASE WriteRecovery
    BY <1>1, <2>1, <2>5 DEF WriteRecovery, Writing
  <2>6. CASE MoveToTrash \/ RestoreFromTrash \/ PermanentlyDelete
    BY <1>1, <2>1, <2>6 DEF MoveToTrash, RestoreFromTrash, PermanentlyDelete, Writing
  <2> QED BY <1>2, <2>2, <2>3, <2>4, <2>5, <2>6 DEF Calls
<1>3. CASE Unlock(Writer) \/ List(Writer) \/ MoveOrphan(Writer)
  <2>1. ~Unlocked(Writer) /\ ~Unlocked(Writer)' /\ UNCHANGED disk
    BY <1>w, <1>t, <1>3 DEF Unlock, List, MoveOrphan, Unlocked
  <2> QED BY <1>s, <2>1 DEF ShelfInv, View
<1>4. CASE Unlocks(Writer)
  <2>1. ~Unlocked(Writer) /\ Unlocked(Writer)' /\ UNCHANGED <<disk, mem>> /\ mem[Writer] = disk
    BY <1>w, <1>t, <1>4 DEF Unlocks, Unlocked, StoreInv, ScanSafe
  <2> QED BY <1>s, <2>1 DEF ShelfInv, View
<1>5. CASE Lock(Writer)
  <2>1. ~Unlocked(Writer)' /\ UNCHANGED disk
    BY <1>w, <1>t, <1>5 DEF Lock, Unlocked
  <2> QED BY <1>s, <2>1 DEF ShelfInv, View
<1>6. CASE Rewrite(Writer) \/ WriteBlob(Writer) \/ Unlink(Writer) \/ WriteFails(Writer)
  <2>1. /\ UNCHANGED <<disk, mem>> /\ Unlocked(Writer)
        /\ pc'[Writer] \in {"ready", "rewrite", "manifest"}
    BY <1>w, <1>t, <1>6 DEF Rewrite, Begin, WriteBlob, AfterBlob, DropRecovery, Unlink,
       WriteFails, Continue, Unlocked
  <2>2. Unlocked(Writer)'
    BY <2>1 DEF Unlocked
  <2> QED BY <1>1, <2>1, <2>2
<1>7. CASE RewriteFirst(Writer)
  <2>1. /\ disk' = mem[Writer] /\ UNCHANGED mem /\ Unlocked(Writer)
        /\ pc'[Writer] \in {"ready", "blob", "manifest"}
    BY <1>w, <1>t, <1>7 DEF RewriteFirst, AfterRewrite, DropRecovery, Continue, Unlocked
  <2>2. Unlocked(Writer)'
    BY <2>1 DEF Unlocked
  <2> QED BY <1>s, <2>1, <2>2 DEF ShelfInv, View
<1>8. CASE WriteManifest(Writer)
  <2> DEFINE m == mem[Writer]
             u == Updated(m, job[Writer])
  <2>1. /\ Unlocked(Writer) /\ disk' = u
        /\ mem' = [mem EXCEPT ![Writer] = u] \/ mem' = mem
        /\ pc'[Writer] \in {"ready", "unlink"}
    BY <1>w, <1>t, <1>8 DEF WriteManifest, AfterManifest, Continue, Unlocked
  <2>2. Unlocked(Writer)' /\ mem'[Writer] \in {m, u}
    BY <1>w, <1>t, <2>1 DEF Unlocked
  <2>3. Shelf(m, u)
    <3>1. JobFits(job[Writer], m)
      BY <1>8 DEF WriteManifest, StoreInv, CallSafe, Writing
    <3>2. m \in Manifest /\ job[Writer] \in Job /\ JobNamed(job[Writer])
      BY <1>w, <1>t DEF StoreInv, TypeInv
    <3> QED BY <3>1, <3>2, UpdatedShelf
  <2> QED BY <1>s, <2>1, <2>2, <2>3 DEF ShelfInv, View
<1>9. CASE UNCHANGED vars
  BY <1>1, <1>9 DEF vars, Unlocked
<1> QED
  BY <1>2, <1>3, <1>4, <1>5, <1>6, <1>7, <1>8, <1>9 DEF Next, Step, Sessions

\* What the owner of a vault sees of its notes and its trash is a NoteShelf: each
\* call, each failed write and each crash changes one note entirely or not at all.
THEOREM Refinement == ASSUME Readers = {} PROVE Spec => ImplementsNoteShelf
<1>1. Init => NS!Init /\ ShelfInv
  <2>1. Writer \in Sessions
    BY DEF Sessions
  <2> QED BY <2>1 DEF Init, NS!Init, View, Unlocked, Fresh, ShelfInv
<1>2. StoreInv /\ ShelfInv /\ [Next]_vars => ShelfInv'
  BY ShelfStep
<1>3. StoreInv /\ ShelfInv /\ [Next]_vars => [NS!Next]_<<View.notes, View.trash>>
  <2> SUFFICES ASSUME StoreInv, ShelfInv, [Next]_vars, View.notes' # View.notes \/ View.trash' # View.trash
               PROVE  NS!Next
    OBVIOUS
  <2>1. Shelf(View, View')
    BY ShelfStep
  <2>2. View.notes \subseteq Objects /\ View.trash \subseteq Objects
    BY DEF View, StoreInv, TypeInv, TypeOK, Manifest, Sessions
  <2>3. /\ (View.notes)' = (View').notes /\ (View.trash)' = (View').trash
    OBVIOUS
  <2>4. PICK n \in Objects :
          LET a == View  b == View' IN
          \/ n \notin a.notes \cup a.trash /\ b.notes = a.notes \cup {n} /\ b.trash = a.trash
          \/ n \in a.notes /\ b.notes = a.notes \ {n} /\ b.trash = a.trash \cup {n}
          \/ n \in a.trash /\ b.notes = a.notes \cup {n} /\ b.trash = a.trash \ {n}
          \/ n \in a.trash /\ b.notes = a.notes /\ b.trash = a.trash \ {n}
    BY <2>1 DEF Shelf
  <2>5. NS!Create(n) \/ NS!Discard(n) \/ NS!Restore(n) \/ NS!Delete(n)
    BY <2>4 DEF NS!Create, NS!Discard, NS!Restore, NS!Delete
  <2> QED BY <2>5 DEF NS!Next
<1>4. StoreInv /\ [Next]_vars => StoreInv'
  BY StoreStep
<1> QED
  BY <1>1, <1>2, <1>3, <1>4, StoreInit, PTL DEF Spec, ImplementsNoteShelf, NS!Spec

-----------------------------------------------------------------------------
(* Without notes that have a password of their own *)

PlainInv ==
  /\ disk.snote = {} /\ mem[Writer].snote = {}
  /\ job[Writer].name \notin {"encrypt", "decrypt", "saveInner"}
  /\ \A o \in Objects : store[o] \in {"none", "Note"}

\* If no note is given a password of its own, every listing of the notes succeeds:
\* only the conversions can leave a blob that scan_notes cannot read.
THEOREM ListingSucceeds ==
  ASSUME Readers = {}, ~Conversions PROVE Spec => []ScanSucceeds
<1>w. Writer \in Sessions
  BY DEF Sessions
<1>1. Init => PlainInv
  BY <1>w DEF Init, PlainInv, Fresh, NoJob
<1>2. StoreInv /\ PlainInv /\ [Next]_vars => PlainInv'
  <2> SUFFICES ASSUME StoreInv, PlainInv, [Next]_vars PROVE PlainInv'
    OBVIOUS
  <2>t. /\ mem \in [Sessions -> Manifest] /\ job \in [Sessions -> Job]
        /\ store \in [Objects -> Kinds \cup {"none"}]
    BY DEF StoreInv, TypeInv, TypeOK, Job
  <2>1. CASE Calls
    <3>1. \A name \in {"create", "save", "title", "recover", "trash", "restore", "delete"} :
            \A note, blob, gone, first :
              Begin(Writer, name, note, blob, gone, first) => PlainInv'
      BY <1>w, <2>t DEF Begin, PlainInv
    <3>2. ~SaveEncryptedNote /\ ~EncryptNote /\ ~RemoveEncryption
      BY DEF SaveEncryptedNote, EncryptNote, RemoveEncryption, PlainInv
    <3>3. CASE CreateNote \/ SaveNote \/ WriteRecovery
      BY <3>1, <3>3 DEF CreateNote, SaveNote, WriteRecovery
    <3>4. CASE MoveToTrash \/ RestoreFromTrash \/ PermanentlyDelete
      BY <3>1, <3>4 DEF MoveToTrash, RestoreFromTrash, PermanentlyDelete
    <3> QED BY <2>1, <3>2, <3>3, <3>4 DEF Calls
  <2>2. CASE Unlock(Writer) \/ List(Writer) \/ MoveOrphan(Writer) \/ Unlocks(Writer)
    BY <1>w, <2>t, <2>2 DEF Unlock, List, MoveOrphan, Unlocks, PlainInv
  <2>3. CASE Lock(Writer)
    BY <1>w, <2>t, <2>3 DEF Lock, PlainInv, Fresh, NoJob
  <2>4. CASE Rewrite(Writer)
    BY <1>w, <2>t, <2>4 DEF Rewrite, Begin, PlainInv
  <2>5. CASE RewriteFirst(Writer) \/ Unlink(Writer) \/ WriteFails(Writer)
    BY <1>w, <2>t, <2>5 DEF RewriteFirst, Unlink, WriteFails, Continue, PlainInv, NoJob
  <2>6. CASE WriteBlob(Writer)
    <3>1. BlobKind(job[Writer]) = "Note"
      BY DEF BlobKind, PlainInv
    <3> QED BY <1>w, <2>t, <2>6, <3>1 DEF WriteBlob, Continue, PlainInv, NoJob
  <2>7. CASE WriteManifest(Writer)
    <3> DEFINE u == Updated(mem[Writer], job[Writer])
    <3>1. u.snote = {}
      BY <1>w, <2>t DEF Updated, Manifest, Job, Jobs, PlainInv
    <3>2. /\ disk' = u /\ UNCHANGED store
          /\ mem' = [mem EXCEPT ![Writer] = u] \/ mem' = mem
          /\ job' = job \/ job' = [job EXCEPT ![Writer] = NoJob]
      BY <2>7 DEF WriteManifest, Continue
    <3> QED BY <1>w, <2>t, <3>1, <3>2 DEF PlainInv, NoJob
  <2>8. CASE UNCHANGED vars
    BY <2>8 DEF vars, PlainInv
  <2> QED
    BY <2>1, <2>2, <2>3, <2>4, <2>5, <2>6, <2>7, <2>8 DEF Next, Step, Sessions
<1>3. StoreInv /\ PlainInv => ScanSucceeds
  BY DEF StoreInv, MemSafe, PlainInv, ScanSucceeds, Unlocked, Present, Refs, Sessions
<1>4. StoreInv /\ [Next]_vars => StoreInv'
  BY StoreStep
<1> QED BY <1>1, <1>2, <1>3, <1>4, StoreInit, PTL DEF Spec
=============================================================================
