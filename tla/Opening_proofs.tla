--------------------------- MODULE Opening_proofs ---------------------------
(***************************************************************************)
(* What opening, creating and quarantining promise for any number of       *)
(* processes, files, quarantine folders and vaults: no plaintext is        *)
(* replaced, only a clean vault is written, and the key file of a Secure   *)
(* Vault wraps the key of its store; unless two processes change the       *)
(* password at once, a password somebody knows opens it; unless two make   *)
(* the folder a vault at once, vault.toml keeps its identity.              *)
(***************************************************************************)
EXTENDS Opening, TLAPS

\* The manifests that the steps build.
LEMMA ManifestTypes ==
    /\ NoToml \in Loaded /\ NoToml \in Manifest
    /\ \A id \in Ids : [version |-> 2, kind |-> "ordinary", id |-> id] \in Loaded
    /\ \A id \in Ids : [version |-> 3, kind |-> "encrypted", id |-> id] \in Loaded
    /\ \A m \in Manifest : Upgraded(m) \in Loaded
    /\ \A m \in Manifest : ~Unusable(m) => m \in Loaded
    /\ Loaded \subseteq Manifest
<1>1. 0 \in 0 .. MaxId /\ Ids \subseteq 0 .. MaxId
  BY OpeningAssumption DEF Ids
<1>2. /\ NoToml \in Manifest
      /\ \A id \in Ids : [version |-> 2, kind |-> "ordinary", id |-> id] \in Manifest
      /\ \A id \in Ids : [version |-> 3, kind |-> "encrypted", id |-> id] \in Manifest
  BY <1>1 DEF NoToml, Manifest, Kinds
<1>3. ASSUME NEW m \in Manifest PROVE Upgraded(m) \in Manifest /\ Upgraded(m).version = 2
  <2>1. 2 \in 0 .. 4 /\ "ordinary" \in Kinds
    BY DEF Kinds
  <2>2. m \in [version : 0 .. 4, kind : Kinds, id : 0 .. MaxId]
    BY DEF Manifest
  <2>3. Upgraded(m) \in [version : 0 .. 4, kind : Kinds, id : 0 .. MaxId]
    BY <2>1, <2>2 DEF Upgraded
  <2>4. Upgraded(m).version = 2
    BY <2>2 DEF Upgraded
  <2> QED
    BY <2>3, <2>4 DEF Manifest
<1>4. /\ NoToml \in Loaded
      /\ \A id \in Ids : [version |-> 2, kind |-> "ordinary", id |-> id] \in Loaded
      /\ \A id \in Ids : [version |-> 3, kind |-> "encrypted", id |-> id] \in Loaded
      /\ \A m \in Manifest : Upgraded(m) \in Loaded
  BY <1>2, <1>3 DEF Loaded, NoToml
<1>5. \A m \in Manifest : ~Unusable(m) => m \in Loaded
  BY DEF Loaded, Unusable
<1>6. Loaded \subseteq Manifest
  BY DEF Loaded
<1> QED
  BY <1>2, <1>4, <1>5, <1>6, Zenon

\* The records that stand for "nothing under way".
LEMMA NothingTypes ==
    /\ NoKeys \in KeyFiles
    /\ NoJob \in Jobs
    /\ [NoJob EXCEPT !.pc = "refused"] \in Jobs
    /\ [NoJob EXCEPT !.pc = "load"] \in Jobs
    /\ [NoJob EXCEPT !.pc = "load", !.again = TRUE] \in Jobs
    /\ NoMaker \in Makers /\ NoWindow \in Windows /\ NoRekey \in Rekeys
<1>1. 0 \in 0 .. MaxId /\ 0 \in 0 .. MaxFolders
  BY OpeningAssumption
<1>2. NoKeys \in KeyFiles
  BY <1>1, OpeningAssumption DEF NoKeys, KeyFiles
<1>3. NoJob \in Jobs
  BY <1>1, ManifestTypes, OpeningAssumption DEF NoJob, Jobs, PCs, Resting
<1>4. /\ [NoJob EXCEPT !.pc = "refused"] \in Jobs
      /\ [NoJob EXCEPT !.pc = "load"] \in Jobs
      /\ [NoJob EXCEPT !.pc = "load", !.again = TRUE] \in Jobs
  BY <1>3 DEF Jobs, PCs, Resting
<1> QED
  BY <1>2, <1>3, <1>4, OpeningAssumption
     DEF NoMaker, Makers, NoWindow, Windows, Kinds, NoRekey, Rekeys

\* The jobs that the steps build out of a job.
LEMMA JobTypes ==
    ASSUME NEW j \in Jobs
    PROVE  /\ \A pc \in PCs : [j EXCEPT !.pc = pc] \in Jobs
           /\ \A pc \in PCs, m \in Loaded : [j EXCEPT !.pc = pc, !.vault = m] \in Jobs
           /\ \A m \in Loaded : [j EXCEPT !.pc = "directories", !.fresh = TRUE, !.vault = m] \in Jobs
           /\ \A m \in Loaded, A \in SUBSET Artifacts, b \in BOOLEAN :
                [j EXCEPT !.pc = "decide", !.vault = m, !.pending = A, !.readOnly = b] \in Jobs
           /\ [j EXCEPT !.pc = "decide", !.readOnly = TRUE] \in Jobs
           /\ \A d \in 0 .. MaxFolders :
                [j EXCEPT !.pc = "move", !.folder = d, !.left = j.pending] \in Jobs
           /\ \A A : [j EXCEPT !.left = @ \ A] \in Jobs
           /\ \A m \in Loaded, p \in Passwords :
                [j EXCEPT !.pc = "keyfile", !.fresh = TRUE, !.password = p, !.vault = m] \in Jobs
<1>1. \A pc \in PCs : [j EXCEPT !.pc = pc] \in Jobs
  BY DEF Jobs
<1>2. \A pc \in PCs, m \in Loaded : [j EXCEPT !.pc = pc, !.vault = m] \in Jobs
  BY DEF Jobs
<1>3. \A m \in Loaded : [j EXCEPT !.pc = "directories", !.fresh = TRUE, !.vault = m] \in Jobs
  BY DEF Jobs, PCs
<1>4. \A m \in Loaded, A \in SUBSET Artifacts, b \in BOOLEAN :
         [j EXCEPT !.pc = "decide", !.vault = m, !.pending = A, !.readOnly = b] \in Jobs
  BY DEF Jobs, PCs
<1>5. [j EXCEPT !.pc = "decide", !.readOnly = TRUE] \in Jobs
  BY DEF Jobs, PCs
<1>6. \A d \in 0 .. MaxFolders : [j EXCEPT !.pc = "move", !.folder = d, !.left = j.pending] \in Jobs
  BY DEF Jobs, PCs
<1>7. \A A : [j EXCEPT !.left = @ \ A] \in Jobs
  BY DEF Jobs
<1>8. \A m \in Loaded, p \in Passwords :
         [j EXCEPT !.pc = "keyfile", !.fresh = TRUE, !.password = p, !.vault = m] \in Jobs
  BY DEF Jobs, PCs
<1> QED
  BY <1>1, <1>2, <1>3, <1>4, <1>5, <1>6, <1>7, <1>8

LEMMA TypeInit == Init => TypeOK
<1> SUFFICES ASSUME Init PROVE TypeOK
  OBVIOUS
<1>1. 1 \in 0 .. MaxId /\ 0 \in 0 .. MaxId /\ 0 \in 0 .. MaxFolders /\ 1 \in Ids
  BY OpeningAssumption DEF Ids
<1>2. toml \in Manifest /\ keyfile \in KeyFiles /\ store \in 0 .. MaxId /\ marks \subseteq AllMarks
  BY <1>1, ManifestTypes, NothingTypes, OpeningAssumption
     DEF Init, Manifest, Kinds, KeyFiles, AllMarks
<1>3. where \in [Artifacts -> Whereabouts]
  BY <1>1 DEF Init, Nowhere, Whereabouts
<1> QED
  BY <1>1, <1>2, <1>3, NothingTypes, OpeningAssumption DEF Init, TypeOK

LEMMA TypeCommit ==
    ASSUME TypeOK, NEW s \in Sessions, NEW owner \in BOOLEAN, Commit(s, owner)
    PROVE  /\ job' \in [Sessions -> Jobs]
           /\ lock' \in Sessions \cup {NoOne, Dead}
           /\ maker' \in [Sessions -> Makers]
           /\ window' \in [Sessions -> Windows]
           /\ rekey' \in [Sessions -> Rekeys]
<1>1. CASE UNCHANGED <<lock, maker, window, rekey>> /\ Abandon(s)
  BY <1>1, NothingTypes DEF TypeOK, Abandon, Set
<1>2. CASE /\ window' = [window EXCEPT ![s] =
                 [mode |-> Mode(s, owner), kind |-> job[s].vault.kind,
                  open |-> job[s].vault.kind = "ordinary" \/ job[s].fresh,
                  seen |-> job[s].pending]]
           /\ lock' = IF owner THEN s ELSE lock
           /\ Late(s) /\ Abandon(s)
  <2> DEFINE w == [mode |-> Mode(s, owner), kind |-> job[s].vault.kind,
                   open |-> job[s].vault.kind = "ordinary" \/ job[s].fresh,
                   seen |-> job[s].pending]
  <2>1. /\ job[s].vault.kind \in Kinds /\ job[s].pending \in SUBSET Artifacts
    BY DEF TypeOK, Jobs, Loaded, Manifest
  <2>2. Mode(s, owner) \in {"none", "read-only", "writable"}
    BY DEF Mode
  <2>3. w \in Windows
    BY <2>1, <2>2, Zenon DEF Windows
  <2>4. window' \in [Sessions -> Windows]
    BY <1>2, <2>3, Zenon DEF TypeOK
  <2>5. job' \in [Sessions -> Jobs]
    BY <1>2, NothingTypes DEF TypeOK, Abandon, Set
  <2>6. lock' \in Sessions \cup {NoOne, Dead}
    BY <1>2, Zenon DEF TypeOK
  <2>7. maker' \in [Sessions -> Makers]
    BY <1>2 DEF TypeOK, Late, Makers
  <2>8. rekey' \in [Sessions -> Rekeys]
    BY <1>2 DEF TypeOK, Late, Rekeys
  <2> QED
    BY <2>4, <2>5, <2>6, <2>7, <2>8
<1> QED
  BY <1>1, <1>2, Zenon DEF Commit

\* One case per action; what an action leaves alone keeps its type.
LEMMA TypeStep == TypeOK /\ [Next]_vars => TypeOK'
<1> SUFFICES ASSUME TypeOK, [Next]_vars PROVE TypeOK'
  OBVIOUS
<1> USE DEF Disk, History
<1>0. /\ 0 \in 0 .. MaxId /\ Ids \subseteq 0 .. MaxId /\ {"state"} \subseteq AllMarks
      /\ \A s \in Sessions : job[s] \in Jobs /\ maker[s] \in Makers /\ window[s] \in Windows
                             /\ rekey[s] \in Rekeys
  BY OpeningAssumption DEF Ids, AllMarks, TypeOK
<1>00. \A s \in Sessions : /\ job[s].vault \in Loaded /\ job[s].vault \in Manifest
                           /\ job[s].vault.id \in 0 .. MaxId
                           /\ job[s].password \in Passwords /\ maker[s].password \in Passwords
                           /\ job[s].pending \subseteq Artifacts
  BY <1>0 DEF Jobs, Loaded, Manifest, Makers
<1>000. ASSUME NEW s \in Sessions, Late(s)
        PROVE  maker' \in [Sessions -> Makers] /\ rekey' \in [Sessions -> Rekeys]
  <2>1. [maker[s] EXCEPT !.current = FALSE] \in Makers
    BY <1>0 DEF Makers
  <2>2. [rekey[s] EXCEPT !.current = FALSE] \in Rekeys
    BY <1>0 DEF Rekeys
  <2> QED
    BY <1>000, <2>1, <2>2 DEF TypeOK, Late
<1>1. ASSUME NEW s \in Sessions, OpenVault(s) \/ Load(s) PROVE TypeOK'
  <2>1. CASE OpenVault(s)
    BY <2>1, <1>0, NothingTypes DEF TypeOK, OpenVault, Set
  <2>2. CASE LoadNothing(s)
    <3>1. CASE ids < MaxId
      <4>1. ids' \in Ids /\ ids' \in 0 .. MaxId /\ ids' = ids + 1
        BY <2>2, <3>1, OpeningAssumption DEF TypeOK, LoadNothing, Ids
      <4>2. [job[s] EXCEPT !.pc = "directories", !.fresh = TRUE,
                           !.vault = [version |-> 2, kind |-> "ordinary", id |-> ids + 1]] \in Jobs
        BY <1>0, <4>1, ManifestTypes, JobTypes
      <4> QED
        BY <2>2, <3>1, <4>1, <4>2 DEF TypeOK, LoadNothing, Set
    <3>2. CASE ~(ids < MaxId)
      BY <2>2, <3>2, NothingTypes DEF TypeOK, LoadNothing, Abandon, Set
    <3> QED
      BY <3>1, <3>2
  <2>3. CASE LoadRefused(s)
    BY <2>3, NothingTypes DEF TypeOK, LoadRefused, Refuse, Set
  <2>4. CASE LoadOrdinary(s)
    <3>1. toml \in Loaded /\ Upgraded(toml) \in Loaded
      BY <2>4, ManifestTypes DEF TypeOK, LoadOrdinary
    <3>2. "migrate" \in PCs /\ "directories" \in PCs
      BY DEF PCs
    <3>3. /\ [job[s] EXCEPT !.pc = "migrate", !.vault = Upgraded(toml)] \in Jobs
          /\ [job[s] EXCEPT !.pc = "directories", !.vault = toml] \in Jobs
      BY <1>0, <3>1, <3>2, JobTypes
    <3> QED
      BY <2>4, <3>3 DEF TypeOK, LoadOrdinary, Set
  <2>5. CASE LoadSecure(s)
    <3>1. toml \in Loaded /\ InRoot \in SUBSET Artifacts /\ (InRoot # {}) \in BOOLEAN
      BY <2>5, ManifestTypes DEF TypeOK, LoadSecure, InRoot
    <3>2. [job[s] EXCEPT !.pc = "decide", !.vault = toml, !.pending = InRoot,
                         !.readOnly = InRoot # {}] \in Jobs
      BY <1>0, <3>1, JobTypes
    <3> QED
      BY <2>5, <3>2 DEF TypeOK, LoadSecure, Set
  <2> QED
    BY <1>1, <2>1, <2>2, <2>3, <2>4, <2>5 DEF Load
<1>2. ASSUME NEW s \in Sessions, Ordinary(s) \/ Decide(s) PROVE TypeOK'
  <2>1. CASE Migrate(s)
    <3>1. /\ [job[s] EXCEPT !.pc = "directories"] \in Jobs
          /\ [job[s] EXCEPT !.pc = "decide", !.readOnly = TRUE] \in Jobs
      BY <1>0, JobTypes DEF PCs
    <3> QED
      BY <2>1, <3>1, <1>00 DEF TypeOK, Migrate, Goto, Set
  <2>2. CASE MakeDirectories(s)
    <3>1. /\ [job[s] EXCEPT !.pc = "manifest"] \in Jobs
          /\ [job[s] EXCEPT !.pc = "decide"] \in Jobs
      BY <1>0, JobTypes DEF PCs
    <3> QED
      BY <2>2, <3>1, NothingTypes DEF TypeOK, MakeDirectories, Goto, Set, Refuse
  <2>3. CASE WriteManifest(s)
    <3>1. [job[s] EXCEPT !.pc = "decide"] \in Jobs
      BY <1>0, JobTypes DEF PCs
    <3> QED
      BY <2>3, <3>1, <1>00, NothingTypes DEF TypeOK, WriteManifest, Goto, Set, Refuse
  <2>4. CASE Decide(s)
    <3>1. /\ [job[s] EXCEPT !.pc = "conflict"] \in Jobs
          /\ [job[s] EXCEPT !.pc = "lock"] \in Jobs
      BY <1>0, JobTypes DEF PCs, Dialogs
    <3> QED
      BY <2>4, <3>1, NothingTypes DEF TypeOK, Decide, Goto, Set, Abandon
  <2> QED
    BY <1>2, <2>1, <2>2, <2>3, <2>4 DEF Ordinary
<1>3. ASSUME NEW s \in Sessions, TakeLock(s) \/ Choose(s) PROVE TypeOK'
  <2>1. CASE \E owner \in BOOLEAN : Commit(s, owner) /\ UNCHANGED <<Disk, ids, writable, History>>
    BY <2>1, TypeCommit DEF TypeOK
  <2>2. CASE (Refuse(s) \/ Abandon(s)) /\ UNCHANGED <<Disk, ids, writable, lock, maker, window, rekey, History>>
    BY <2>2, NothingTypes DEF TypeOK, Refuse, Abandon, Set
  <2>3. CASE /\ \E pc \in {"folder", "contended", "left-behind"} : Goto(s, pc)
             /\ UNCHANGED <<Disk, ids, writable, lock, maker, window, rekey, History>>
    <3>1. \A pc \in {"folder", "contended", "left-behind"} : [job[s] EXCEPT !.pc = pc] \in Jobs
      BY <1>0, JobTypes DEF PCs, Dialogs
    <3> QED
      BY <2>3, <3>1 DEF TypeOK, Goto, Set
  <2>4. TakeLock(s) => \/ Commit(s, TRUE) \/ Commit(s, FALSE)
                       \/ Refuse(s) /\ UNCHANGED <<lock, maker, window, rekey>>
                       \/ /\ Goto(s, "contended") \/ Goto(s, "left-behind")
                          /\ UNCHANGED <<lock, maker, window, rekey>>
    BY DEF TakeLock
  <2> QED
    BY <1>3, <2>1, <2>2, <2>3, <2>4
       DEF TakeLock, Choose, TakeOver, OpenReadOnly, Cancel, AskQuarantine
<1>4. ASSUME NEW s \in Sessions, Quarantine(s) PROVE TypeOK'
  <2>0. [job[s] EXCEPT !.pc = "failed"] \in Jobs
    BY <1>0, JobTypes DEF PCs, Dialogs
  <2>1. CASE MakeQuarantine(s)
    <3>1. FreshFolder <= MaxFolders => FreshFolder \in 0 .. MaxFolders
      BY OpeningAssumption DEF TypeOK, FreshFolder
    <3>2. FreshFolder <= MaxFolders =>
            [job[s] EXCEPT !.pc = "move", !.folder = FreshFolder, !.left = job[s].pending] \in Jobs
      BY <3>1, <1>0, JobTypes
    <3> QED
      BY <2>0, <2>1, <3>1, <3>2 DEF TypeOK, MakeQuarantine, Set, Goto
  <2>2. CASE MoveArtifact(s)
    <3>1. \A a : [job[s] EXCEPT !.left = @ \ SameItem(a)] \in Jobs
      BY <1>0, JobTypes
    <3>2. Kept(job[s].folder) \in Whereabouts /\ Gone \in Whereabouts
      BY <1>0, OpeningAssumption DEF Kept, Gone, Whereabouts, Jobs
    <3>3. where' \in [Artifacts -> Whereabouts]
      BY <2>2, <3>2 DEF TypeOK, MoveArtifact
    <3> QED
      BY <2>0, <2>2, <3>1, <3>3 DEF TypeOK, MoveArtifact, Set, Goto
  <2>3. CASE Rescan(s)
    BY <2>0, <2>3, NothingTypes DEF TypeOK, Rescan, Set, Goto
  <2> QED
    BY <1>4, <2>1, <2>2, <2>3 DEF Quarantine
<1>5. ASSUME NEW s \in Sessions, AskSecureVault(s) \/ TypePassword(s) \/ MakeSecure(s) PROVE TypeOK'
  <2>1. CASE AskSecureVault(s)
    BY <2>1, <1>0 DEF TypeOK, AskSecureVault, Makers
  <2>2. CASE TypePassword(s)
    <3>1. \A p \in Passwords : [step |-> "deriving", current |-> TRUE, password |-> p] \in Makers
      BY DEF Makers
    <3> QED
      BY <2>2, <3>1, NothingTypes, OpeningAssumption DEF TypeOK, TypePassword, Choice
  <2>3. CASE Derived(s)
    <3>1. ids < MaxId => ids + 1 \in Ids
      BY OpeningAssumption DEF TypeOK, Ids
    <3>1a. ids < MaxId => ids + 1 \in 0 .. MaxId
      BY OpeningAssumption DEF TypeOK
    <3>2. [NoJob EXCEPT !.pc = "refused"] \in Jobs /\ NoJob \in Jobs
      BY NothingTypes
    <3>3. ids < MaxId =>
            [NoJob EXCEPT !.pc = "keyfile", !.fresh = TRUE, !.password = maker[s].password,
               !.vault = [version |-> 3, kind |-> "encrypted", id |-> ids + 1]] \in Jobs
      BY <3>1, <3>2, <1>00, ManifestTypes, JobTypes
    <3>4. job' \in [Sessions -> Jobs]
      BY <2>3, <3>2, <3>3 DEF TypeOK, Derived, Set, Refuse
    <3>5. maker' \in [Sessions -> Makers] /\ marks' \subseteq AllMarks /\ ids' \in 0 .. MaxId
      BY <2>3, <3>1a, <1>0, NothingTypes DEF TypeOK, Derived
    <3> QED
      BY <2>3, <3>4, <3>5 DEF TypeOK, Derived
  <2>4. /\ [job[s] EXCEPT !.pc = "seal"] \in Jobs
        /\ [job[s] EXCEPT !.pc = "register"] \in Jobs
        /\ [job[s] EXCEPT !.pc = "lock"] \in Jobs
    BY <1>0, JobTypes DEF PCs
  <2>5. CASE WriteKeys(s)
    <3>1. [id |-> job[s].vault.id, password |-> job[s].password] \in KeyFiles
      BY <1>00 DEF KeyFiles
    <3> QED
      BY <2>4, <2>5, <3>1, NothingTypes DEF TypeOK, WriteKeys, Set, Goto, Refuse
  <2>6. CASE Seal(s)
    BY <2>4, <2>6, <1>00, NothingTypes DEF TypeOK, Seal, Set, Goto, Refuse
  <2>7. CASE Register(s)
    BY <2>4, <2>7, <1>00, NothingTypes DEF TypeOK, Register, Set, Goto, Refuse
  <2> QED
    BY <1>5, <2>1, <2>2, <2>3, <2>5, <2>6, <2>7 DEF MakeSecure
<1>6. ASSUME NEW s \in Sessions, Use(s) PROVE TypeOK'
  <2>1. CASE Unlock(s)
    BY <2>1, <1>0 DEF TypeOK, Unlock, Windows
  <2>2. CASE LockVault(s)
    <3>1. [window[s] EXCEPT !.open = FALSE] \in Windows
      BY <1>0 DEF Windows
    <3> QED
      BY <2>2, <1>000, <3>1 DEF TypeOK, LockVault
  <2>3. CASE Leave(s)
    BY <2>3, <1>000, NothingTypes DEF TypeOK, Leave
  <2>4. CASE AskRekey(s)
    <3>1. \A p \in Passwords :
            [pc |-> "write", current |-> TRUE, new |-> p, copy |-> keyfile] \in Rekeys
      BY DEF TypeOK, Rekeys
    <3> QED
      BY <2>4, <3>1, OpeningAssumption DEF TypeOK, AskRekey, Choice
  <2> QED
    BY <1>6, <2>1, <2>2, <2>3, <2>4 DEF Use
<1>7. ASSUME NEW s \in Sessions, Rekey(s) PROVE TypeOK'
  <2>1. CASE WriteRewrapped(s)
    <3>1. Rewrapped(rekey[s].copy, rekey[s].new) \in KeyFiles
      BY <1>0 DEF Rewrapped, KeyFiles, Rekeys
    <3>2. rekey' \in [Sessions -> Rekeys]
      BY <2>1, <1>0 DEF TypeOK, WriteRewrapped, Step, Rekeys
    <3> QED
      BY <2>1, <3>1, <3>2 DEF TypeOK, WriteRewrapped
  <2>2. CASE Verify(s)
    <3>0. \A pc \in {"changed", "failed"} : [rekey[s] EXCEPT !.pc = pc] \in Rekeys
      BY <1>0 DEF Rekeys
    <3>1. rekey' \in [Sessions -> Rekeys]
      BY <2>2, <3>0 DEF TypeOK, Verify, Step
    <3> QED
      BY <2>2, <3>1 DEF TypeOK, Verify
  <2>3. CASE AnswerRekey(s)
    <3>1. rekey[s].new \in Passwords
      BY <1>0 DEF Rekeys
    <3> QED
      BY <2>3, <3>1, NothingTypes DEF TypeOK, AnswerRekey
  <2> QED
    BY <1>7, <2>1, <2>2, <2>3 DEF Rekey
<1>8. ASSUME NEW s \in Sessions, Crash(s) PROVE TypeOK'
  BY <1>8, NothingTypes DEF TypeOK, Crash
<1>9. ASSUME NEW a \in Artifacts, PutArtifact(a) PROVE TypeOK'
  <2>1. Here \in Whereabouts
    BY OpeningAssumption DEF Here, Whereabouts
  <2> QED
    BY <1>9, <2>1 DEF TypeOK, PutArtifact
<1>10. CASE UNCHANGED vars
  BY <1>10 DEF TypeOK, vars
<1> QED
  BY <1>1, <1>2, <1>3, <1>4, <1>5, <1>6, <1>7, <1>8, <1>9, <1>10 DEF Next

\* Every variable of an opening always has its type (TypeOK).
THEOREM TypeCorrect == Spec => []TypeOK
  BY TypeInit, TypeStep, PTL DEF Spec

-----------------------------------------------------------------------------
(* Only a clean vault is written *)

\* What an opening knows of the plaintext: with any in sight it is read-only.
LookIsHonest ==
    \A s \in Sessions : ~job[s].readOnly => job[s].pending = {}

\* A writable window was opened by the owner of the lock after a clean look.
WriterOwns ==
    \A s \in Sessions : window[s].mode = "writable" => lock = s /\ window[s].seen = {}

LEMMA LookInit == Init => LookIsHonest /\ WriterOwns
  BY DEF Init, LookIsHonest, WriterOwns, NoJob, NoWindow

\* An opening that has seen plaintext is read-only.
Honest(j) == ~j.readOnly => j.pending = {}

\* The jobs that the steps build are as honest as the job they build them from.
LEMMA HonestJobs ==
    /\ Honest(NoJob) /\ Honest([NoJob EXCEPT !.pc = "refused"])
    /\ Honest([NoJob EXCEPT !.pc = "load"])
    /\ Honest([NoJob EXCEPT !.pc = "load", !.again = TRUE])
    /\ \A p \in Passwords, m \in Loaded :
         Honest([NoJob EXCEPT !.pc = "keyfile", !.fresh = TRUE, !.password = p, !.vault = m])
    /\ \A j \in Jobs :
         /\ Honest(j) => /\ \A pc : Honest([j EXCEPT !.pc = pc])
                         /\ \A pc, m : Honest([j EXCEPT !.pc = pc, !.vault = m])
                         /\ \A m : Honest([j EXCEPT !.pc = "directories", !.fresh = TRUE, !.vault = m])
                         /\ \A d, left :
                              Honest([j EXCEPT !.pc = "move", !.folder = d, !.left = left])
                         /\ \A A : Honest([j EXCEPT !.left = @ \ A])
         /\ \A m, A :
              Honest([j EXCEPT !.pc = "decide", !.vault = m, !.pending = A, !.readOnly = A # {}])
         /\ Honest([j EXCEPT !.pc = "decide", !.readOnly = TRUE])
<1>1. /\ Honest(NoJob) /\ Honest([NoJob EXCEPT !.pc = "refused"])
      /\ Honest([NoJob EXCEPT !.pc = "load"])
      /\ Honest([NoJob EXCEPT !.pc = "load", !.again = TRUE])
      /\ \A p \in Passwords, m \in Loaded :
           Honest([NoJob EXCEPT !.pc = "keyfile", !.fresh = TRUE, !.password = p, !.vault = m])
  BY DEF Honest, NoJob
<1>2. ASSUME NEW j \in Jobs, Honest(j)
      PROVE  /\ \A pc : Honest([j EXCEPT !.pc = pc])
             /\ \A pc, m : Honest([j EXCEPT !.pc = pc, !.vault = m])
             /\ \A m : Honest([j EXCEPT !.pc = "directories", !.fresh = TRUE, !.vault = m])
             /\ \A d, left : Honest([j EXCEPT !.pc = "move", !.folder = d, !.left = left])
             /\ \A A : Honest([j EXCEPT !.left = @ \ A])
  BY <1>2 DEF Honest, Jobs
<1>3. ASSUME NEW j \in Jobs
      PROVE  /\ \A m, A : Honest([j EXCEPT !.pc = "decide", !.vault = m, !.pending = A,
                                           !.readOnly = A # {}])
             /\ Honest([j EXCEPT !.pc = "decide", !.readOnly = TRUE])
  BY DEF Honest, Jobs
<1> QED
  BY <1>1, <1>2, <1>3

\* What any step leaves of the look that an opening of s has taken.
LEMMA LookOfJob ==
    ASSUME TypeOK, LookIsHonest, [Next]_vars, NEW s \in Sessions
    PROVE  Honest(job'[s])
<1> USE DEF Disk, History
<1>0. job[s] \in Jobs /\ Honest(job[s])
  BY DEF TypeOK, LookIsHonest, Honest
<1>1. \A j : Set(s, j) => job'[s] = j
  BY DEF TypeOK, Set
<1>2. CASE job'[s] = job[s]
  BY <1>0, <1>2
<1>3. CASE OpenVault(s) \/ Load(s)
  <2>1. CASE OpenVault(s)
    BY <1>0, <1>1, <1>2, <2>1, HonestJobs DEF OpenVault
  <2>2. CASE LoadNothing(s)
    <3>1. \/ \E m : Set(s, [job[s] EXCEPT !.pc = "directories", !.fresh = TRUE, !.vault = m])
          \/ Set(s, NoJob)
      BY <2>2 DEF LoadNothing, Abandon
    <3>2. ASSUME NEW m, Set(s, [job[s] EXCEPT !.pc = "directories", !.fresh = TRUE, !.vault = m])
          PROVE  Honest(job'[s])
      BY <1>0, <3>2 DEF Set, Honest, Jobs, TypeOK
    <3>3. CASE Set(s, NoJob)
      BY <3>3 DEF Set, Honest, NoJob, TypeOK
    <3> QED
      BY <3>1, <3>2, <3>3
  <2>3. CASE LoadRefused(s)
    BY <1>0, <1>1, <1>2, <2>3, HonestJobs DEF LoadRefused, Refuse
  <2>4. CASE LoadOrdinary(s)
    <3>1. \E pc, m : Set(s, [job[s] EXCEPT !.pc = pc, !.vault = m])
      BY <2>4 DEF LoadOrdinary
    <3> QED
      BY <1>0, <3>1 DEF Set, Honest, Jobs, TypeOK
  <2>5. CASE LoadSecure(s)
    BY <1>0, <1>2, <2>5 DEF Set, Honest, Jobs, NoJob, TypeOK, LoadSecure
  <2> QED
    BY <1>3, <2>1, <2>2, <2>3, <2>4, <2>5 DEF Load
<1>4. CASE Ordinary(s) \/ Decide(s)
  <2>1. CASE Migrate(s)
    BY <1>0, <1>1, <1>2, <2>1, HonestJobs DEF Migrate, Goto
  <2>2. CASE MakeDirectories(s)
    BY <1>0, <1>2, <2>2 DEF Set, Honest, Jobs, NoJob, TypeOK, MakeDirectories, Goto, Refuse
  <2>3. CASE WriteManifest(s)
    BY <1>0, <1>1, <1>2, <2>3, HonestJobs DEF WriteManifest, Goto, Refuse
  <2>4. CASE Decide(s)
    BY <1>0, <1>2, <2>4 DEF Set, Honest, Jobs, NoJob, TypeOK, Decide, Goto, Abandon
  <2> QED
    BY <1>4, <2>1, <2>2, <2>3, <2>4 DEF Ordinary
<1>5. CASE TakeLock(s) \/ Choose(s)
  <2>1. CASE TakeLock(s)
    <3>1. \/ Set(s, NoJob) \/ Set(s, [NoJob EXCEPT !.pc = "refused"])
          \/ \E pc : Set(s, [job[s] EXCEPT !.pc = pc])
      BY <2>1 DEF TakeLock, Commit, Goto, Refuse, Abandon
    <3>2. Set(s, NoJob) => Honest(job'[s])
      BY DEF Set, Honest, NoJob, TypeOK
    <3>3. Set(s, [NoJob EXCEPT !.pc = "refused"]) => Honest(job'[s])
      BY DEF Set, Honest, NoJob, TypeOK
    <3>4. ASSUME NEW pc, Set(s, [job[s] EXCEPT !.pc = pc]) PROVE Honest(job'[s])
      BY <1>0, <3>4 DEF Set, Honest, Jobs, TypeOK
    <3> QED
      BY <3>1, <3>2, <3>3, <3>4
  <2>2. CASE TakeOver(s)
    BY <1>0, <1>1, <1>2, <2>2, HonestJobs DEF TakeOver, Commit, Refuse, Abandon
  <2>3. CASE OpenReadOnly(s)
    BY <1>0, <1>1, <1>2, <2>3, HonestJobs DEF OpenReadOnly, Commit, Abandon
  <2>4. CASE Cancel(s)
    BY <1>0, <1>1, <1>2, <2>4, HonestJobs DEF Cancel, Abandon
  <2>5. CASE AskQuarantine(s)
    BY <1>0, <1>2, <2>5 DEF Set, Honest, Jobs, NoJob, TypeOK, AskQuarantine, Goto
  <2> QED
    BY <1>5, <2>1, <2>2, <2>3, <2>4, <2>5 DEF Choose
<1>6. CASE Quarantine(s)
  <2>1. CASE MakeQuarantine(s)
    <3>1. \/ \E d, left : Set(s, [job[s] EXCEPT !.pc = "move", !.folder = d, !.left = left])
          \/ \E pc : Set(s, [job[s] EXCEPT !.pc = pc])
      BY <2>1 DEF MakeQuarantine, Goto
    <3>2. ASSUME NEW d, NEW left, Set(s, [job[s] EXCEPT !.pc = "move", !.folder = d, !.left = left])
          PROVE  Honest(job'[s])
      BY <1>0, <3>2 DEF Set, Honest, Jobs, TypeOK
    <3>3. ASSUME NEW pc, Set(s, [job[s] EXCEPT !.pc = pc]) PROVE Honest(job'[s])
      BY <1>0, <3>3 DEF Set, Honest, Jobs, TypeOK
    <3> QED
      BY <3>1, <3>2, <3>3
  <2>2. CASE MoveArtifact(s)
    <3>1. \/ \E A : Set(s, [job[s] EXCEPT !.left = @ \ A])
          \/ Set(s, [job[s] EXCEPT !.pc = "failed"])
      BY <2>2 DEF MoveArtifact, Goto
    <3>2. ASSUME NEW A, Set(s, [job[s] EXCEPT !.left = @ \ A]) PROVE Honest(job'[s])
      BY <1>0, <3>2 DEF Set, Honest, Jobs, TypeOK
    <3>3. Set(s, [job[s] EXCEPT !.pc = "failed"]) => Honest(job'[s])
      BY <1>0 DEF Set, Honest, Jobs, TypeOK
    <3> QED
      BY <3>1, <3>2, <3>3
  <2>3. CASE Rescan(s)
    <3>1. \/ Set(s, [NoJob EXCEPT !.pc = "load", !.again = TRUE])
          \/ Set(s, [job[s] EXCEPT !.pc = "failed"])
      BY <2>3 DEF Rescan, Goto
    <3>2. Set(s, [NoJob EXCEPT !.pc = "load", !.again = TRUE]) => Honest(job'[s])
      BY DEF Set, Honest, NoJob, TypeOK
    <3>3. Set(s, [job[s] EXCEPT !.pc = "failed"]) => Honest(job'[s])
      BY <1>0 DEF Set, Honest, Jobs, TypeOK
    <3> QED
      BY <3>1, <3>2, <3>3
  <2> QED
    BY <1>6, <2>1, <2>2, <2>3 DEF Quarantine
<1>7. CASE MakeSecure(s)
  <2>1. CASE Derived(s)
    <3>1. ids < MaxId => [version |-> 3, kind |-> "encrypted", id |-> ids + 1] \in Loaded
      BY ManifestTypes, OpeningAssumption DEF TypeOK, Ids
    <3>2. maker[s].password \in Passwords
      BY DEF TypeOK, Makers
    <3>3. ids < MaxId =>
            Honest([NoJob EXCEPT !.pc = "keyfile", !.fresh = TRUE, !.password = maker[s].password,
                      !.vault = [version |-> 3, kind |-> "encrypted", id |-> ids + 1]])
      BY <3>1, <3>2, HonestJobs
    <3> QED
      BY <1>0, <1>1, <1>2, <2>1, <3>3, HonestJobs DEF Derived, Refuse
  <2>2. CASE WriteKeys(s)
    BY <1>0, <1>2, <2>2 DEF Set, Honest, Jobs, NoJob, TypeOK, WriteKeys, Goto, Refuse
  <2>3. CASE Seal(s)
    BY <1>0, <1>1, <1>2, <2>3, HonestJobs DEF Seal, Goto, Refuse
  <2>4. CASE Register(s)
    BY <1>0, <1>2, <2>4 DEF Set, Honest, Jobs, NoJob, TypeOK, Register, Goto, Refuse
  <2> QED
    BY <1>7, <2>1, <2>2, <2>3, <2>4 DEF MakeSecure
<1>8. CASE Crash(s)
  BY <1>8, HonestJobs DEF Crash, TypeOK
<1>9. ASSUME NEW t \in Sessions, t # s,
             OpenVault(t) \/ Load(t) \/ Ordinary(t) \/ Decide(t) \/ TakeLock(t) \/ Choose(t)
             \/ Quarantine(t) \/ MakeSecure(t) \/ Crash(t)
      PROVE  job'[s] = job[s]
  BY <1>9 DEF OpenVault, Load, LoadNothing, LoadRefused, LoadOrdinary, LoadSecure, Ordinary, Migrate,
     MakeDirectories, WriteManifest, Decide, TakeLock, Choose, TakeOver, OpenReadOnly, Cancel,
     AskQuarantine, Commit, Quarantine, MakeQuarantine, MoveArtifact, Rescan, MakeSecure, Derived,
     WriteKeys, Seal, Register, Crash, Set, Goto, Refuse, Abandon, TypeOK
<1>10. ASSUME NEW t \in Sessions, AskSecureVault(t) \/ TypePassword(t) \/ Use(t) \/ Rekey(t)
       PROVE  job'[s] = job[s]
  BY <1>10 DEF AskSecureVault, TypePassword, Use, Unlock, LockVault, Leave, AskRekey, Rekey,
     WriteRewrapped, Verify, AnswerRekey
<1>11. ASSUME NEW a \in Artifacts, PutArtifact(a) PROVE job'[s] = job[s]
  BY <1>11 DEF PutArtifact
<1>12. CASE UNCHANGED vars
  BY <1>12, <1>2 DEF vars
<1> QED
  BY <1>2, <1>3, <1>4, <1>5, <1>6, <1>7, <1>8, <1>9, <1>10, <1>11, <1>12 DEF Next

LEMMA LookStep == TypeOK /\ LookIsHonest /\ [Next]_vars => LookIsHonest'
  BY LookOfJob DEF LookIsHonest, Honest

\* A commit that makes the owner of the lock a writer, and nobody else.
LEMMA WriterOfCommit ==
    ASSUME TypeOK, LookIsHonest, WriterOwns, NEW s \in Sessions, NEW owner \in BOOLEAN,
           Commit(s, owner), owner => lock \in {NoOne, Dead, s}
    PROVE  WriterOwns'
<1>1. CASE UNCHANGED <<lock, window>>
  BY <1>1 DEF WriterOwns
<1>2. CASE /\ window' = [window EXCEPT ![s] =
                 [mode |-> Mode(s, owner), kind |-> job[s].vault.kind,
                  open |-> job[s].vault.kind = "ordinary" \/ job[s].fresh,
                  seen |-> job[s].pending]]
           /\ lock' = IF owner THEN s ELSE lock
  <2> DEFINE w == [mode |-> Mode(s, owner), kind |-> job[s].vault.kind,
                   open |-> job[s].vault.kind = "ordinary" \/ job[s].fresh,
                   seen |-> job[s].pending]
  <2>1. window'[s] = w
    BY <1>2, Zenon DEF TypeOK
  <2>2. \A t \in Sessions : t # s => window'[t] = window[t]
    BY <1>2, Zenon DEF TypeOK
  <2>3. w.mode = Mode(s, owner) /\ w.seen = job[s].pending
    OBVIOUS
  <2>4. Mode(s, owner) = "writable" => owner /\ job[s].pending = {}
    BY DEF Mode, LookIsHonest
  <2>5. window'[s].mode = "writable" => lock' = s /\ window'[s].seen = {}
    BY <1>2, <2>1, <2>3, <2>4
  <2>6. \A t \in Sessions : t # s /\ lock = t => ~owner
    BY OpeningAssumption
  <2>7. \A t \in Sessions \ {s} : window'[t].mode = "writable" => lock' = t /\ window'[t].seen = {}
    BY <1>2, <2>2, <2>6 DEF WriterOwns
  <2> QED
    BY <2>5, <2>7 DEF WriterOwns
<1> QED
  BY <1>1, <1>2, Zenon DEF Commit

LEMMA WriterStep == TypeOK /\ LookIsHonest /\ WriterOwns /\ [Next]_vars => WriterOwns'
<1> SUFFICES ASSUME TypeOK, LookIsHonest, WriterOwns, [Next]_vars PROVE WriterOwns'
  OBVIOUS
<1> USE DEF Disk, History
<1>1. CASE UNCHANGED <<lock, window>>
  BY <1>1 DEF WriterOwns
<1>2. ASSUME NEW s \in Sessions, TakeLock(s) \/ Choose(s) PROVE WriterOwns'
  <2>1. CASE \E owner \in BOOLEAN : Commit(s, owner) /\ (owner => lock \in {NoOne, Dead, s})
    BY <2>1, WriterOfCommit
  <2>2. CASE ~\E owner \in BOOLEAN : Commit(s, owner) /\ (owner => lock \in {NoOne, Dead, s})
    BY <1>1, <1>2, <2>2 DEF TakeLock, Choose, TakeOver, OpenReadOnly, Cancel, AskQuarantine
  <2> QED
    BY <2>1, <2>2
<1>3. ASSUME NEW s \in Sessions, Unlock(s) \/ LockVault(s) PROVE WriterOwns'
  BY <1>3 DEF Unlock, LockVault, WriterOwns, TypeOK, Windows
<1>4. ASSUME NEW s \in Sessions, Leave(s) \/ Crash(s) PROVE WriterOwns'
  BY <1>4, OpeningAssumption DEF Leave, Crash, WriterOwns, TypeOK, NoWindow
<1>5. ASSUME NEW s \in Sessions,
             OpenVault(s) \/ Load(s) \/ Ordinary(s) \/ Decide(s) \/ Quarantine(s)
             \/ AskSecureVault(s) \/ TypePassword(s) \/ MakeSecure(s) \/ AskRekey(s) \/ Rekey(s)
      PROVE  UNCHANGED <<lock, window>>
  BY <1>5 DEF OpenVault, Load, LoadNothing, LoadRefused, LoadOrdinary, LoadSecure, Ordinary, Migrate,
     MakeDirectories, WriteManifest, Decide, Quarantine, MakeQuarantine, MoveArtifact, Rescan,
     AskSecureVault, TypePassword, MakeSecure, Derived, WriteKeys, Seal, Register, AskRekey, Rekey,
     WriteRewrapped, Verify, AnswerRekey
<1>6. ASSUME NEW a \in Artifacts, PutArtifact(a) PROVE UNCHANGED <<lock, window>>
  BY <1>6 DEF PutArtifact
<1>7. CASE UNCHANGED vars
  BY <1>1, <1>7 DEF vars
<1> QED
  BY <1>1, <1>2, <1>3, <1>4, <1>5, <1>6, <1>7 DEF Next, Use

\* A Secure Vault is written only by the owner of its lock, and only when the
\* look at its folder was clean (WriterIsClean).
THEOREM OnlyCleanIsWritten == Spec => []WriterIsClean
<1>1. WriterOwns => WriterIsClean
  BY DEF WriterOwns, WriterIsClean
<1> QED
  BY <1>1, TypeInit, TypeStep, LookInit, LookStep, WriterStep, PTL DEF Spec

-----------------------------------------------------------------------------
(* A quarantine replaces nothing *)

Moving(s) == job[s].pc = "move"

\* Quarantine folders are numbered as they are made, two quarantines never use
\* the same one, and what is left to be moved has no namesake in the folder.
QuarantineInv ==
    /\ \A b \in Artifacts : where[b].at = "kept" => where[b].folder <= folders
    /\ \A s \in Sessions : Moving(s) => job[s].folder <= folders
    /\ \A s, t \in Sessions : Moving(s) /\ Moving(t) /\ s # t => job[s].folder # job[t].folder
    /\ \A s \in Sessions, b \in Artifacts :
         Moving(s) /\ Place[b] = LoosePlace /\ where[b] = Kept(job[s].folder) =>
            SameItem(b) \cap job[s].left = {}
    /\ NothingReplaced

LEMMA QuarantineInit == Init => QuarantineInv
  BY DEF Init, QuarantineInv, Moving, NothingReplaced, NoJob, Nowhere, Gone

\* Only the steps of the quarantine itself lead to moves or go on with them.
LEMMA MovesOfJob ==
    ASSUME TypeOK, [Next]_vars, NEW s \in Sessions, ~MakeQuarantine(s), ~MoveArtifact(s)
    PROVE  job'[s] = job[s] \/ job'[s].pc # "move"
<1> USE DEF Disk, History
<1>0. job[s] \in Jobs
  BY DEF TypeOK
<1>2. CASE job'[s] = job[s]
  BY <1>2
<1>3. CASE OpenVault(s) \/ Load(s)
  <2>1. CASE OpenVault(s)
    BY <2>1 DEF OpenVault, Set, NoJob, TypeOK
  <2>2. CASE LoadNothing(s)
    <3>1. \/ \E m : Set(s, [job[s] EXCEPT !.pc = "directories", !.fresh = TRUE, !.vault = m])
          \/ Set(s, NoJob)
      BY <2>2 DEF LoadNothing, Abandon
    <3>2. ASSUME NEW m, Set(s, [job[s] EXCEPT !.pc = "directories", !.fresh = TRUE, !.vault = m])
          PROVE  job'[s].pc # "move"
      BY <1>0, <3>2 DEF Set, Jobs, TypeOK
    <3>3. CASE Set(s, NoJob)
      BY <3>3 DEF Set, NoJob, TypeOK
    <3> QED
      BY <3>1, <3>2, <3>3
  <2>3. CASE LoadRefused(s)
    BY <2>3 DEF LoadRefused, Refuse, Set, NoJob, TypeOK
  <2>4. CASE LoadOrdinary(s)
    <3>1. \E pc \in {"migrate", "directories"} : \E m : Set(s, [job[s] EXCEPT !.pc = pc, !.vault = m])
      BY <2>4 DEF LoadOrdinary
    <3> QED
      BY <1>0, <3>1 DEF Set, Jobs, TypeOK
  <2>5. CASE LoadSecure(s)
    BY <1>0, <2>5 DEF LoadSecure, Set, Jobs, TypeOK
  <2> QED
    BY <1>3, <2>1, <2>2, <2>3, <2>4, <2>5 DEF Load
<1>4. CASE Ordinary(s) \/ Decide(s) \/ AskQuarantine(s) \/ Cancel(s)
  <2>1. \/ Set(s, NoJob) \/ Set(s, [NoJob EXCEPT !.pc = "refused"])
        \/ \E pc \in PCs \ {"move"} : Set(s, [job[s] EXCEPT !.pc = pc])
        \/ Set(s, [job[s] EXCEPT !.pc = "decide", !.readOnly = TRUE])
    BY <1>4 DEF Ordinary, Migrate, MakeDirectories, WriteManifest, Decide, AskQuarantine, Cancel,
       Goto, Refuse, Abandon, PCs, Dialogs, Resting
  <2>2. CASE \E pc \in PCs \ {"move"} : Set(s, [job[s] EXCEPT !.pc = pc])
    BY <1>0, <2>2 DEF Set, Jobs, TypeOK
  <2>3. CASE Set(s, [job[s] EXCEPT !.pc = "decide", !.readOnly = TRUE])
    BY <1>0, <2>3 DEF Set, Jobs, TypeOK
  <2> QED
    BY <2>1, <2>2, <2>3 DEF Set, NoJob, TypeOK
<1>5. CASE TakeLock(s) \/ TakeOver(s) \/ OpenReadOnly(s)
  <2>1. \/ Set(s, NoJob) \/ Set(s, [NoJob EXCEPT !.pc = "refused"])
        \/ \E pc \in {"left-behind", "contended"} : Set(s, [job[s] EXCEPT !.pc = pc])
    BY <1>5 DEF TakeLock, TakeOver, OpenReadOnly, Commit, Goto, Refuse, Abandon
  <2> QED
    BY <1>0, <2>1 DEF Set, NoJob, Jobs, TypeOK
<1>6. CASE Rescan(s)
  <2>1. \/ Set(s, [job[s] EXCEPT !.pc = "failed"])
        \/ Set(s, [NoJob EXCEPT !.pc = "load", !.again = TRUE])
    BY <1>6 DEF Rescan, Goto
  <2>2. CASE Set(s, [job[s] EXCEPT !.pc = "failed"])
    BY <1>0, <2>2 DEF Set, Jobs, TypeOK
  <2>3. CASE Set(s, [NoJob EXCEPT !.pc = "load", !.again = TRUE])
    BY <2>3 DEF Set, NoJob, TypeOK
  <2> QED
    BY <2>1, <2>2, <2>3
<1>7. CASE Derived(s)
  <2>1. \/ \E p, m : Set(s, [NoJob EXCEPT !.pc = "keyfile", !.fresh = TRUE, !.password = p, !.vault = m])
        \/ Set(s, [NoJob EXCEPT !.pc = "refused"])
        \/ job' = job
    BY <1>7 DEF Derived, Refuse
  <2>2. ASSUME NEW p, NEW m,
               Set(s, [NoJob EXCEPT !.pc = "keyfile", !.fresh = TRUE, !.password = p, !.vault = m])
        PROVE  job'[s].pc # "move"
    BY <2>2 DEF Set, NoJob, TypeOK
  <2>3. Set(s, [NoJob EXCEPT !.pc = "refused"]) => job'[s].pc # "move"
    BY DEF Set, NoJob, TypeOK
  <2> QED
    BY <2>1, <2>2, <2>3
<1>8. CASE WriteKeys(s) \/ Seal(s) \/ Register(s)
  BY <1>0, <1>8 DEF WriteKeys, Seal, Register, Goto, Set, Refuse, NoJob, Jobs, TypeOK
<1>9. CASE Crash(s)
  BY <1>9 DEF Crash, NoJob, TypeOK
<1>10. ASSUME NEW t \in Sessions, t # s,
             OpenVault(t) \/ Load(t) \/ Ordinary(t) \/ Decide(t) \/ TakeLock(t) \/ Choose(t)
             \/ Quarantine(t) \/ MakeSecure(t) \/ Crash(t)
      PROVE  job'[s] = job[s]
  BY <1>10 DEF OpenVault, Load, LoadNothing, LoadRefused, LoadOrdinary, LoadSecure, Ordinary, Migrate,
     MakeDirectories, WriteManifest, Decide, TakeLock, Choose, TakeOver, OpenReadOnly, Cancel,
     AskQuarantine, Commit, Quarantine, MakeQuarantine, MoveArtifact, Rescan, MakeSecure, Derived,
     WriteKeys, Seal, Register, Crash, Set, Goto, Refuse, Abandon, TypeOK
<1>11. ASSUME NEW t \in Sessions, AskSecureVault(t) \/ TypePassword(t) \/ Use(t) \/ Rekey(t)
       PROVE  job'[s] = job[s]
  BY <1>11 DEF AskSecureVault, TypePassword, Use, Unlock, LockVault, Leave, AskRekey, Rekey,
     WriteRewrapped, Verify, AnswerRekey
<1>12. ASSUME NEW a \in Artifacts, PutArtifact(a) PROVE job'[s] = job[s]
  BY <1>12 DEF PutArtifact
<1>13. CASE UNCHANGED vars
  BY <1>2, <1>13 DEF vars
<1> QED
  BY <1>2, <1>3, <1>4, <1>5, <1>6, <1>7, <1>8, <1>9, <1>10, <1>11, <1>12, <1>13
     DEF Next, Choose, Quarantine, MakeSecure

LEMMA QuarantineStep == TypeOK /\ QuarantineInv /\ [Next]_vars => QuarantineInv'
<1> SUFFICES ASSUME TypeOK, QuarantineInv, [Next]_vars PROVE QuarantineInv'
  OBVIOUS
<1> USE DEF Disk, History
<1>0. /\ folders \in Nat /\ \A b \in Artifacts : where[b].folder \in Nat /\ where[b] \in Whereabouts
      /\ \A s \in Sessions : job[s] \in Jobs /\ job[s].folder \in Nat
  BY OpeningAssumption DEF TypeOK, Whereabouts, Jobs
<1>00. \A d, e : Kept(d) = Kept(e) => d = e
  BY DEF Kept
<1>1. ASSUME NEW s \in Sessions, MakeQuarantine(s) PROVE QuarantineInv'
  <2>1. UNCHANGED where /\ \A t \in Sessions : t # s => job'[t] = job[t]
    BY <1>1 DEF MakeQuarantine, Set, Goto, TypeOK
  <2>2. CASE job'[s].pc # "move" /\ folders' = folders
    BY <2>1, <2>2 DEF QuarantineInv, Moving, NothingReplaced
  <2>3. CASE folders' = folders + 1 /\ job'[s].folder = folders + 1
    <3>1. \A t \in Sessions : t # s /\ Moving(t) => job[t].folder # folders + 1
      BY <1>0 DEF QuarantineInv
    <3>2. \A b \in Artifacts : where[b] # Kept(folders + 1)
      BY <1>0 DEF QuarantineInv, Kept
    <3>3. \A b \in Artifacts : where'[b].at = "kept" => where'[b].folder <= folders'
      BY <1>0, <2>1, <2>3 DEF QuarantineInv
    <3>4. \A t \in Sessions : Moving(t)' => job'[t].folder <= folders'
      BY <1>0, <2>1, <2>3 DEF QuarantineInv, Moving
    <3>5. \A t, u \in Sessions : Moving(t)' /\ Moving(u)' /\ t # u => job'[t].folder # job'[u].folder
      BY <2>1, <2>3, <3>1 DEF QuarantineInv, Moving
    <3>6. \A t \in Sessions, b \in Artifacts :
             Moving(t)' /\ Place[b] = LoosePlace /\ where'[b] = Kept(job'[t].folder) =>
                SameItem(b) \cap job'[t].left = {}
      BY <2>1, <2>3, <3>2 DEF QuarantineInv, Moving
    <3> QED
      BY <2>1, <3>3, <3>4, <3>5, <3>6 DEF QuarantineInv, Moving, NothingReplaced
  <2>4. \/ /\ folders' = folders + 1
           /\ Set(s, [job[s] EXCEPT !.pc = "move", !.folder = folders + 1, !.left = job[s].pending])
        \/ folders' = folders /\ Set(s, [job[s] EXCEPT !.pc = "failed"])
    BY <1>1 DEF MakeQuarantine, FreshFolder, Goto
  <2>5. \/ folders' = folders + 1 /\ job'[s].folder = folders + 1
        \/ job'[s].pc # "move" /\ folders' = folders
    BY <1>0, <2>4 DEF Set, Jobs, TypeOK
  <2> QED
    BY <2>2, <2>3, <2>5
<1>2. ASSUME NEW s \in Sessions, MoveArtifact(s) PROVE QuarantineInv'
  <2>1. Moving(s) /\ UNCHANGED folders /\ \A t \in Sessions : t # s => job'[t] = job[t]
    BY <1>2 DEF MoveArtifact, Set, Goto, TypeOK, Moving
  <2>2. CASE Goto(s, "failed") /\ UNCHANGED where
    <3>1. job'[s].pc # "move"
      BY <1>0, <2>2 DEF Goto, Set, Jobs, TypeOK
    <3> QED
      BY <2>1, <2>2, <3>1 DEF QuarantineInv, Moving, NothingReplaced
  <2>3. ASSUME NEW a \in job[s].left, a \in Artifacts,
               where' = [b \in Artifacts |->
                  IF b \in Moved(a) THEN Kept(job[s].folder)
                  ELSE IF b \in Replaced(s, a) THEN Gone ELSE where[b]],
               Set(s, [job[s] EXCEPT !.left = @ \ SameItem(a)])
        PROVE  QuarantineInv'
    <3>1. Replaced(s, a) = {}
      <4>1. \A b \in SameItem(a) : Place[a] = LoosePlace => a \in SameItem(b) /\ Place[b] = LoosePlace
        BY <2>3 DEF SameItem
      <4> QED
        BY <2>1, <2>3, <4>1 DEF Replaced, QuarantineInv, SameItem
    <3>2. /\ job'[s].pc = "move" /\ job'[s].folder = job[s].folder
          /\ job'[s].left = job[s].left \ SameItem(a)
      BY <1>0, <2>1, <2>3 DEF Set, Jobs, TypeOK, Moving
    <3>3. \A b \in Artifacts : where'[b] = IF b \in Moved(a) THEN Kept(job[s].folder) ELSE where[b]
      BY <2>3, <3>1
    <3>4. \A d : Kept(d) # Gone /\ Kept(d).at = "kept" /\ Kept(d).folder = d
      BY DEF Kept, Gone
    <3>5. \A b \in Artifacts : where'[b].at = "kept" => where'[b].folder <= folders'
      BY <2>1, <3>3, <3>4 DEF QuarantineInv
    <3>6. \A t \in Sessions : job'[t].folder = job[t].folder /\ (Moving(t)' <=> Moving(t))
      BY <2>1, <3>2 DEF Moving
    <3>7. \A t \in Sessions, b \in Artifacts :
             Moving(t)' /\ Place[b] = LoosePlace /\ where'[b] = Kept(job'[t].folder) =>
                SameItem(b) \cap job'[t].left = {}
      <4> SUFFICES ASSUME NEW t \in Sessions, NEW b \in Artifacts, Moving(t)',
                          Place[b] = LoosePlace, where'[b] = Kept(job'[t].folder)
                   PROVE  SameItem(b) \cap job'[t].left = {}
        OBVIOUS
      <4>1. CASE t # s
        <5>1. b \notin Moved(a)
          BY <1>00, <2>1, <3>3, <3>6, <4>1 DEF QuarantineInv
        <5> QED
          BY <2>1, <3>3, <3>6, <4>1, <5>1 DEF QuarantineInv
      <4>2. CASE t = s /\ b \in Moved(a)
        <5>1. SameItem(b) = SameItem(a)
          BY <2>3, <4>2 DEF Moved, SameItem
        <5> QED
          BY <3>2, <4>2, <5>1
      <4>3. CASE t = s /\ b \notin Moved(a)
        <5>1. where[b] = Kept(job[s].folder)
          BY <3>3, <3>6, <4>3
        <5>2. SameItem(b) \cap job[s].left = {}
          BY <2>1, <5>1 DEF QuarantineInv
        <5> QED
          BY <3>2, <4>3, <5>2
      <4> QED
        BY <4>1, <4>2, <4>3
    <3>8. \A b \in Artifacts : where'[b] # Gone
      BY <3>3, <3>4 DEF QuarantineInv, NothingReplaced
    <3>9. \A t \in Sessions : Moving(t)' => job'[t].folder <= folders'
      BY <2>1, <3>6 DEF QuarantineInv
    <3>10. \A t, u \in Sessions : Moving(t)' /\ Moving(u)' /\ t # u => job'[t].folder # job'[u].folder
      BY <3>6 DEF QuarantineInv
    <3> QED
      BY <3>5, <3>7, <3>8, <3>9, <3>10 DEF QuarantineInv, NothingReplaced
  <2>4. NextMoves(job[s].left) \subseteq job[s].left /\ job[s].left \subseteq Artifacts
    BY <1>0 DEF NextMoves, Jobs
  <2> QED
    BY <1>2, <2>2, <2>3, <2>4 DEF MoveArtifact
<1>3. ASSUME \A s \in Sessions : ~MakeQuarantine(s) /\ ~MoveArtifact(s),
             UNCHANGED folders,
             \A b \in Artifacts : where'[b] = where[b] \/ where'[b] = Here
      PROVE  QuarantineInv'
  <2>1. \A s \in Sessions : job'[s] = job[s] \/ job'[s].pc # "move"
    BY <1>3, MovesOfJob
  <2>2. Here.at # "kept" /\ Here # Gone /\ \A d : Here # Kept(d)
    BY DEF Here, Gone, Kept
  <2>3. \A s \in Sessions : Moving(s)' => Moving(s) /\ job'[s] = job[s]
    BY <2>1 DEF Moving
  <2>4. \A b \in Artifacts : where'[b].at = "kept" \/ where'[b] = Gone => where'[b] = where[b]
    BY <1>3, <2>2
  <2>5. \A s \in Sessions, b \in Artifacts :
           where'[b] = Kept(job[s].folder) => where'[b] = where[b]
    BY <1>3, <2>2
  <2> QED
    BY <1>3, <2>3, <2>4, <2>5 DEF QuarantineInv, NothingReplaced
<1>4. CASE \A s \in Sessions : ~MakeQuarantine(s) /\ ~MoveArtifact(s)
  <2>1. ASSUME NEW a \in Artifacts, PutArtifact(a)
        PROVE  UNCHANGED folders /\ \A b \in Artifacts : where'[b] = where[b] \/ where'[b] = Here
    BY <2>1 DEF PutArtifact, TypeOK
  <2>2. ASSUME NEW s \in Sessions,
               OpenVault(s) \/ Load(s) \/ Ordinary(s) \/ Decide(s) \/ TakeLock(s) \/ Choose(s)
               \/ Rescan(s)
        PROVE  UNCHANGED <<folders, where>>
    BY <2>2 DEF OpenVault, Load, LoadNothing, LoadRefused, LoadOrdinary, LoadSecure, Ordinary, Migrate,
       MakeDirectories, WriteManifest, Decide, TakeLock, Choose, TakeOver, OpenReadOnly, Cancel,
       AskQuarantine, Rescan
  <2>3. ASSUME NEW s \in Sessions,
               AskSecureVault(s) \/ TypePassword(s) \/ MakeSecure(s) \/ Use(s) \/ Rekey(s) \/ Crash(s)
        PROVE  UNCHANGED <<folders, where>>
    BY <2>3 DEF AskSecureVault, TypePassword, MakeSecure, Derived, WriteKeys, Seal, Register, Use,
       Unlock, LockVault, Leave, AskRekey, Rekey, WriteRewrapped, Verify, AnswerRekey, Crash
  <2>4. ASSUME UNCHANGED vars PROVE UNCHANGED <<folders, where>>
    BY <2>4 DEF vars
  <2>5. UNCHANGED folders /\ \A b \in Artifacts : where'[b] = where[b] \/ where'[b] = Here
    BY <1>4, <2>1, <2>2, <2>3, <2>4 DEF Next, Quarantine, vars
  <2> QED
    BY <1>3, <1>4, <2>5
<1> QED
  BY <1>1, <1>2, <1>4

\* However often plaintext is put into a Secure Vault and quarantined, no file is
\* replaced by another (NothingReplaced).
THEOREM QuarantineReplacesNothing == Spec => []NothingReplaced
<1>1. QuarantineInv => NothingReplaced
  BY DEF QuarantineInv
<1> QED
  BY <1>1, TypeInit, TypeStep, QuarantineInit, QuarantineStep, PTL DEF Spec

-----------------------------------------------------------------------------
(* What a step does to an opening, to the files and to a password change *)

\* The steps that write a new Secure Vault
NewSecure == {"keyfile", "seal", "register"}

\* The steps of an opening between its look at the folder and its end
Settled == {"decide", "lock", "folder", "move"} \cup Dialogs

\* An opening ends, or begins at the folder.
Restarts(s) ==
    job'[s].pc \in Resting \cup {"load"} /\ job'[s].vault = NoToml /\ ~job'[s].fresh

\* One goes on with the vault it has.
Settles(s) ==
    /\ job[s].pc \in Settled /\ job'[s].pc \in Settled
    /\ job'[s].vault = job[s].vault /\ job'[s].fresh = job[s].fresh

\* A Secure Vault is begun, in a folder that is still clean.
Begins(s) == Derived(s) /\ job'[s].pc \in NewSecure

\* Set changes one job.
LEMMA SetOne ==
    ASSUME TypeOK, NEW s \in Sessions, NEW j, Set(s, j)
    PROVE  job'[s] = j /\ \A t \in Sessions \ {s} : job'[t] = job[t]
  BY DEF TypeOK, Set

\* Goto changes where an opening is.
LEMMA GotoOne ==
    ASSUME TypeOK, NEW s \in Sessions, NEW pc, Goto(s, pc)
    PROVE  /\ job'[s].pc = pc /\ job'[s].vault = job[s].vault
           /\ job'[s].fresh = job[s].fresh /\ job'[s].password = job[s].password
  BY SetOne DEF Goto, TypeOK, Jobs

\* An opening that ends, or begins again, has no vault.
LEMMA RestartOne ==
    ASSUME TypeOK, NEW s \in Sessions,
           \/ Refuse(s) \/ Abandon(s)
           \/ Set(s, [NoJob EXCEPT !.pc = "load"])
           \/ Set(s, [NoJob EXCEPT !.pc = "load", !.again = TRUE])
    PROVE  Restarts(s)
<1>1. \A j : Set(s, j) => job'[s] = j
  BY SetOne
<1>2. job'[s] \in {NoJob, [NoJob EXCEPT !.pc = "refused"], [NoJob EXCEPT !.pc = "load"],
                   [NoJob EXCEPT !.pc = "load", !.again = TRUE]}
  BY <1>1 DEF Refuse, Abandon
<1>3. CASE job'[s] = NoJob
  BY <1>3 DEF Restarts, NoJob, Resting
<1>4. CASE job'[s] = [NoJob EXCEPT !.pc = "refused"]
  BY <1>4 DEF Restarts, NoJob, Resting
<1>5. CASE job'[s] = [NoJob EXCEPT !.pc = "load"]
  BY <1>5 DEF Restarts, NoJob
<1>6. CASE job'[s] = [NoJob EXCEPT !.pc = "load", !.again = TRUE]
  BY <1>6 DEF Restarts, NoJob
<1> QED
  BY <1>2, <1>3, <1>4, <1>5, <1>6

\* What a step does to the opening of one process.
LEMMA JobTurns ==
    ASSUME TypeOK, [Next]_vars, NEW s \in Sessions
    PROVE  \/ job'[s] = job[s] \/ Restarts(s) \/ Settles(s)
           \/ LoadNothing(s) \/ LoadOrdinary(s) \/ LoadSecure(s)
           \/ Ordinary(s)
           \/ Begins(s) \/ WriteKeys(s) \/ Seal(s) \/ Register(s)
<1>0. job[s] \in Jobs
  BY DEF TypeOK
<1>1. {"decide", "lock", "folder", "move", "conflict", "contended", "left-behind", "failed"}
        \subseteq Settled
  BY DEF Settled, Dialogs
<1>2. ASSUME job[s].pc \in Settled, NEW pc \in Settled, Goto(s, pc) PROVE Settles(s)
  BY <1>2, GotoOne DEF Settles
<1>3. ASSUME job[s].pc \in Settled, NEW A, Set(s, [job[s] EXCEPT !.left = @ \ A])
      PROVE  Settles(s)
  <2>1. job'[s] = [job[s] EXCEPT !.left = @ \ A]
    BY <1>3, SetOne
  <2> QED
    BY <1>0, <1>3, <2>1 DEF Settles, Jobs
<1>5. \A owner : Commit(s, owner) => Restarts(s)
  BY RestartOne DEF Commit
<1>6. CASE OpenVault(s) \/ LoadRefused(s) \/ Cancel(s) \/ OpenReadOnly(s)
  BY <1>5, <1>6, RestartOne DEF OpenVault, LoadRefused, Cancel, OpenReadOnly
<1>7. CASE Decide(s)
  <2>1. Abandon(s) \/ Goto(s, "conflict") \/ Goto(s, "lock")
    BY <1>7 DEF Decide
  <2> QED
    BY <1>1, <1>2, <1>7, <2>1, RestartOne DEF Decide
<1>8. CASE TakeLock(s)
  <2>1. (\E owner : Commit(s, owner)) \/ Refuse(s) \/ Goto(s, "left-behind") \/ Goto(s, "contended")
    BY <1>8 DEF TakeLock
  <2> QED
    BY <1>1, <1>2, <1>5, <1>8, <2>1, RestartOne DEF TakeLock
<1>9. CASE TakeOver(s) \/ AskQuarantine(s)
  BY <1>1, <1>2, <1>5, <1>9, RestartOne DEF TakeOver, AskQuarantine
<1>10. CASE MakeQuarantine(s)
  <2>1. \/ Goto(s, "failed")
        \/ Set(s, [job[s] EXCEPT !.pc = "move", !.folder = FreshFolder, !.left = job[s].pending])
    BY <1>10 DEF MakeQuarantine
  <2>2. job[s].pc \in Settled
    BY <1>1, <1>10 DEF MakeQuarantine
  <2>3. CASE Goto(s, "failed")
    BY <1>1, <1>2, <2>2, <2>3
  <2>4. CASE Set(s, [job[s] EXCEPT !.pc = "move", !.folder = FreshFolder, !.left = job[s].pending])
    <3>1. job'[s] = [job[s] EXCEPT !.pc = "move", !.folder = FreshFolder, !.left = job[s].pending]
      BY <2>4, SetOne
    <3> QED
      BY <1>0, <1>1, <2>2, <3>1 DEF Settles, Jobs
  <2> QED
    BY <2>1, <2>3, <2>4
<1>11. CASE MoveArtifact(s)
  <2>1. Goto(s, "failed") \/ \E A : Set(s, [job[s] EXCEPT !.left = @ \ A])
    BY <1>11 DEF MoveArtifact
  <2> QED
    BY <1>1, <1>2, <1>3, <1>11, <2>1 DEF MoveArtifact
<1>12. CASE Rescan(s)
  BY <1>1, <1>2, <1>12, RestartOne DEF Rescan
<1>13. CASE Derived(s)
  <2>1. \/ job'[s] = job[s] \/ Refuse(s)
        \/ Set(s, [NoJob EXCEPT !.pc = "keyfile", !.fresh = TRUE, !.password = maker[s].password,
                     !.vault = [version |-> 3, kind |-> "encrypted", id |-> ids + 1]])
    BY <1>13 DEF Derived
  <2>2. CASE Set(s, [NoJob EXCEPT !.pc = "keyfile", !.fresh = TRUE, !.password = maker[s].password,
                       !.vault = [version |-> 3, kind |-> "encrypted", id |-> ids + 1]])
    <3>1. \A j : Set(s, j) => job'[s] = j
      BY SetOne
    <3>2. job'[s].pc = "keyfile"
      BY <2>2, <3>1 DEF NoJob
    <3> QED
      BY <1>13, <3>2 DEF Begins, NewSecure
  <2> QED
    BY <2>1, <2>2, RestartOne
<1>14. CASE Crash(s)
  BY <1>14 DEF Crash, TypeOK, Restarts, NoJob, Resting
<1>15. ASSUME NEW t \in Sessions \ {s},
              OpenVault(t) \/ Load(t) \/ Ordinary(t) \/ Decide(t) \/ TakeLock(t) \/ Choose(t)
              \/ Quarantine(t) \/ MakeSecure(t) \/ Crash(t)
       PROVE  job'[s] = job[s]
  BY <1>15 DEF OpenVault, Load, LoadNothing, LoadRefused, LoadOrdinary, LoadSecure, Ordinary, Migrate,
     MakeDirectories, WriteManifest, Decide, TakeLock, Choose, TakeOver, OpenReadOnly, Cancel,
     AskQuarantine, Commit, Quarantine, MakeQuarantine, MoveArtifact, Rescan, MakeSecure, Derived,
     WriteKeys, Seal, Register, Crash, Set, Goto, Refuse, Abandon, TypeOK
<1>16. ASSUME NEW t \in Sessions, AskSecureVault(t) \/ TypePassword(t) \/ Use(t) \/ Rekey(t)
       PROVE  job'[s] = job[s]
  BY <1>16 DEF AskSecureVault, TypePassword, Use, Unlock, LockVault, Leave, AskRekey, Rekey,
     WriteRewrapped, Verify, AnswerRekey
<1>17. CASE (\E a \in Artifacts : PutArtifact(a)) \/ UNCHANGED vars
  BY <1>17 DEF PutArtifact, vars
<1> QED
  BY <1>6, <1>7, <1>8, <1>9, <1>10, <1>11, <1>12, <1>13, <1>14, <1>15, <1>16, <1>17
     DEF Next, Load, Choose, Quarantine, MakeSecure

\* A step of one opening leaves the others alone.
LEMMA OthersJobs ==
    ASSUME TypeOK, NEW t \in Sessions, NEW s \in Sessions \ {t},
           Load(t) \/ Ordinary(t) \/ Begins(t) \/ WriteKeys(t) \/ Seal(t) \/ Register(t)
    PROVE  job'[s] = job[s]
  BY DEF Load, LoadNothing, LoadRefused, LoadOrdinary, LoadSecure, Ordinary, Migrate,
     MakeDirectories, WriteManifest, Begins, Derived, WriteKeys, Seal, Register, Set, Goto, Refuse,
     Abandon, TypeOK

\* An opening that has looked at the folder: of a new vault,
LEMMA NothingLoads ==
    ASSUME TypeOK, NEW s \in Sessions, LoadNothing(s)
    PROVE  \/ Restarts(s)
           \/ /\ job'[s].pc = "directories" /\ job'[s].fresh
              /\ job'[s].vault = [version |-> 2, kind |-> "ordinary", id |-> ids + 1]
<1>1. CASE Abandon(s)
  BY <1>1, RestartOne
<1>2. CASE Set(s, [job[s] EXCEPT !.pc = "directories", !.fresh = TRUE,
                     !.vault = [version |-> 2, kind |-> "ordinary", id |-> ids + 1]])
  <2>1. job'[s] = [job[s] EXCEPT !.pc = "directories", !.fresh = TRUE,
                     !.vault = [version |-> 2, kind |-> "ordinary", id |-> ids + 1]]
    BY <1>2, SetOne
  <2> QED
    BY <2>1 DEF TypeOK, Jobs
<1> QED
  BY <1>1, <1>2 DEF LoadNothing

\* of one in plain files,
LEMMA OrdinaryLoads ==
    ASSUME TypeOK, NEW s \in Sessions, LoadOrdinary(s)
    PROVE  /\ job'[s].fresh = job[s].fresh
           /\ \/ /\ toml.version = 1 /\ job'[s].pc = "migrate" /\ job'[s].vault = Upgraded(toml)
              \/ /\ toml.version # 1 /\ toml.kind = "ordinary"
                 /\ job'[s].pc = "directories" /\ job'[s].vault = toml
<1>1. CASE Set(s, [job[s] EXCEPT !.pc = "migrate", !.vault = Upgraded(toml)]) /\ toml.version = 1
  <2>1. job'[s] = [job[s] EXCEPT !.pc = "migrate", !.vault = Upgraded(toml)]
    BY <1>1, SetOne
  <2> QED
    BY <1>1, <2>1 DEF TypeOK, Jobs
<1>2. CASE /\ Set(s, [job[s] EXCEPT !.pc = "directories", !.vault = toml])
           /\ toml.version # 1 /\ toml.kind = "ordinary"
  <2>1. job'[s] = [job[s] EXCEPT !.pc = "directories", !.vault = toml]
    BY <1>2, SetOne
  <2> QED
    BY <1>2, <2>1 DEF TypeOK, Jobs
<1> QED
  BY <1>1, <1>2 DEF LoadOrdinary

\* and of a Secure Vault.
LEMMA SecureLoads ==
    ASSUME TypeOK, NEW s \in Sessions, LoadSecure(s)
    PROVE  job'[s].pc = "decide" /\ job'[s].vault = toml /\ job'[s].fresh = job[s].fresh
<1>1. job'[s] = [job[s] EXCEPT !.pc = "decide", !.vault = toml, !.pending = InRoot,
                   !.readOnly = InRoot # {}]
  BY SetOne DEF LoadSecure
<1> QED
  BY <1>1 DEF TypeOK, Jobs

\* The steps on a vault in plain files, and those that make a Secure Vault, keep the
\* vault of the opening, unless they end it.
LEMMA KeepsVault ==
    ASSUME TypeOK, NEW s \in Sessions,
           Ordinary(s) \/ WriteKeys(s) \/ Seal(s) \/ Register(s), ~Restarts(s)
    PROVE  /\ job'[s].vault = job[s].vault /\ job'[s].fresh = job[s].fresh
           /\ job'[s].password = job[s].password
           /\ Ordinary(s) => job'[s].pc \in {"directories", "manifest", "decide"}
           /\ WriteKeys(s) => /\ job'[s].pc = "seal"
                              /\ keyfile' = [id |-> job[s].vault.id, password |-> job[s].password]
           /\ Seal(s) => job'[s].pc = "register" /\ store' = job[s].vault.id
           /\ Register(s) => /\ job'[s].pc = "lock" /\ toml' = job[s].vault
                             /\ said' = job[s].password /\ unsettled' = {}
<1>0. job[s] \in Jobs
  BY DEF TypeOK
<1>1. ~Refuse(s)
  BY RestartOne
<1>2. /\ Ordinary(s) => \/ Goto(s, "directories") \/ Goto(s, "manifest") \/ Goto(s, "decide")
                        \/ Set(s, [job[s] EXCEPT !.pc = "decide", !.readOnly = TRUE])
      /\ WriteKeys(s) => /\ Goto(s, "seal")
                         /\ keyfile' = [id |-> job[s].vault.id, password |-> job[s].password]
      /\ Seal(s) => Goto(s, "register") /\ store' = job[s].vault.id
      /\ Register(s) => /\ Goto(s, "lock") /\ toml' = job[s].vault
                        /\ said' = job[s].password /\ unsettled' = {}
  BY <1>1 DEF Ordinary, Migrate, MakeDirectories, WriteManifest, WriteKeys, Seal, Register
<1>3. /\ Goto(s, "directories") => job'[s].pc = "directories"
      /\ Goto(s, "manifest") => job'[s].pc = "manifest"
      /\ Goto(s, "decide") => job'[s].pc = "decide"
      /\ Goto(s, "seal") => job'[s].pc = "seal"
      /\ Goto(s, "register") => job'[s].pc = "register"
      /\ Goto(s, "lock") => job'[s].pc = "lock"
  BY GotoOne
<1>4. ASSUME NEW pc, Goto(s, pc)
      PROVE  /\ job'[s].vault = job[s].vault /\ job'[s].fresh = job[s].fresh
             /\ job'[s].password = job[s].password
  BY <1>4, GotoOne
<1>5. ASSUME Set(s, [job[s] EXCEPT !.pc = "decide", !.readOnly = TRUE])
      PROVE  /\ job'[s].vault = job[s].vault /\ job'[s].fresh = job[s].fresh
             /\ job'[s].password = job[s].password /\ job'[s].pc = "decide"
  <2>1. job'[s] = [job[s] EXCEPT !.pc = "decide", !.readOnly = TRUE]
    BY <1>5, SetOne
  <2> QED
    BY <1>0, <2>1 DEF Jobs
<1> QED
  BY <1>2, <1>3, <1>4, <1>5

\* Which steps write vault.toml, the key file and the store; no step removes a directory.
LEMMA FileWrites ==
    ASSUME TypeOK, [Next]_vars
    PROVE  /\ \/ UNCHANGED <<toml, keyfile, store>>
              \/ \E s \in Sessions :
                   \/ Migrate(s) \/ WriteManifest(s) \/ Register(s)
                   \/ WriteKeys(s) \/ Seal(s) \/ WriteRewrapped(s)
           /\ marks \subseteq marks'
<1> USE DEF Disk
<1>1. ASSUME NEW s \in Sessions, Ordinary(s)
      PROVE  /\ Migrate(s) \/ WriteManifest(s) \/ UNCHANGED <<toml, keyfile, store>>
             /\ marks \subseteq marks'
  BY <1>1 DEF Ordinary, Migrate, MakeDirectories, WriteManifest, TypeOK
<1>2. ASSUME NEW s \in Sessions, MakeSecure(s)
      PROVE  /\ \/ WriteKeys(s) \/ Seal(s) \/ Register(s)
                \/ UNCHANGED <<toml, keyfile, store>>
             /\ marks \subseteq marks'
  BY <1>2 DEF MakeSecure, Derived, WriteKeys, Seal, Register
<1>3. ASSUME NEW s \in Sessions, Rekey(s)
      PROVE  WriteRewrapped(s) \/ UNCHANGED <<toml, keyfile, store>>
  BY <1>3 DEF Rekey, Verify, AnswerRekey
<1>4. ASSUME NEW s \in Sessions, Rekey(s) PROVE marks' = marks
  BY <1>4 DEF Rekey, Verify, AnswerRekey, WriteRewrapped
<1>5. ASSUME NEW s \in Sessions,
             OpenVault(s) \/ Load(s) \/ Decide(s) \/ TakeLock(s) \/ Choose(s)
      PROVE  UNCHANGED <<toml, keyfile, store, marks>>
  BY <1>5 DEF OpenVault, Load, LoadNothing, LoadRefused, LoadOrdinary, LoadSecure, Decide, TakeLock,
     Choose, TakeOver, OpenReadOnly, Cancel, AskQuarantine
<1>6. ASSUME NEW s \in Sessions,
             Quarantine(s) \/ AskSecureVault(s) \/ TypePassword(s) \/ Use(s) \/ Crash(s)
      PROVE  UNCHANGED <<toml, keyfile, store, marks>>
  BY <1>6 DEF Quarantine, MakeQuarantine, MoveArtifact, Rescan, AskSecureVault, TypePassword, Use,
     Unlock, LockVault, Leave, AskRekey, Crash
<1>7. ASSUME NEW a \in Artifacts, PutArtifact(a) PROVE UNCHANGED <<toml, keyfile, store, marks>>
  BY <1>7 DEF PutArtifact
<1>8. CASE UNCHANGED vars
  BY <1>8 DEF vars
<1> QED
  BY <1>1, <1>2, <1>3, <1>4, <1>5, <1>6, <1>7, <1>8 DEF Next

\* The key file and the store are written by three steps only.
LEMMA KeyFileWrites ==
    ASSUME TypeOK, [Next]_vars
    PROVE  \/ UNCHANGED <<keyfile, store>>
           \/ \E s \in Sessions : WriteKeys(s) \/ Seal(s) \/ WriteRewrapped(s)
<1>1. ASSUME NEW s \in Sessions, Migrate(s) \/ WriteManifest(s) \/ Register(s)
      PROVE  UNCHANGED <<keyfile, store>>
  BY <1>1 DEF Migrate, WriteManifest, Register
<1> QED
  BY <1>1, FileWrites

\* A password change either stays as it is, but for the token, or is dropped, or makes
\* one of its own steps.
LEMMA RekeyChanges ==
    ASSUME TypeOK, [Next]_vars, NEW s \in Sessions
    PROVE  \/ AskRekey(s) \/ WriteRewrapped(s) \/ Verify(s) \/ AnswerRekey(s)
           \/ rekey'[s].pc = "none"
           \/ /\ rekey'[s].pc = rekey[s].pc /\ rekey'[s].new = rekey[s].new
              /\ rekey'[s].copy = rekey[s].copy
<1> USE DEF Disk, History
<1> DEFINE Same == /\ rekey'[s].pc = rekey[s].pc /\ rekey'[s].new = rekey[s].new
                   /\ rekey'[s].copy = rekey[s].copy
<1>0. \A t \in Sessions : Late(t) => Same
  BY DEF Late, TypeOK, Rekeys
<1>1. ASSUME NEW t \in Sessions, TakeLock(t) \/ Choose(t) PROVE Same
  <2>1. (\E owner : Commit(t, owner)) \/ rekey' = rekey
    BY <1>1 DEF TakeLock, Choose, TakeOver, OpenReadOnly, Cancel, AskQuarantine
  <2> QED
    BY <1>0, <2>1 DEF Commit
<1>2. ASSUME NEW t \in Sessions, Unlock(t) \/ LockVault(t) \/ Leave(t) PROVE Same
  BY <1>0, <1>2 DEF Unlock, LockVault, Leave
<1>3. ASSUME NEW t \in Sessions, t # s,
             AskRekey(t) \/ WriteRewrapped(t) \/ Verify(t) \/ AnswerRekey(t)
      PROVE  Same
  BY <1>3 DEF AskRekey, WriteRewrapped, Verify, AnswerRekey, Step, TypeOK
<1>4. ASSUME NEW t \in Sessions, Crash(t) PROVE Same \/ rekey'[s].pc = "none"
  BY <1>4 DEF Crash, NoRekey, TypeOK
<1>5. ASSUME NEW t \in Sessions,
             OpenVault(t) \/ Load(t) \/ Ordinary(t) \/ Decide(t) \/ Quarantine(t)
             \/ AskSecureVault(t) \/ TypePassword(t) \/ MakeSecure(t)
      PROVE  rekey' = rekey
  BY <1>5 DEF OpenVault, Load, LoadNothing, LoadRefused, LoadOrdinary, LoadSecure, Ordinary, Migrate,
     MakeDirectories, WriteManifest, Decide, Quarantine, MakeQuarantine, MoveArtifact, Rescan,
     AskSecureVault, TypePassword, MakeSecure, Derived, WriteKeys, Seal, Register
<1>6. ASSUME NEW a \in Artifacts, PutArtifact(a) PROVE rekey' = rekey
  BY <1>6 DEF PutArtifact
<1>7. CASE UNCHANGED vars
  BY <1>7 DEF vars
<1> QED
  BY <1>1, <1>2, <1>3, <1>4, <1>5, <1>6, <1>7 DEF Next, Use, Rekey

\* A window has a kind of vault from the opening that ends in it.
LEMMA WindowChanges ==
    ASSUME TypeOK, [Next]_vars, NEW s \in Sessions, window'[s].kind = "encrypted"
    PROVE  \/ window[s].kind = "encrypted"
           \/ job[s].pc \in Settled /\ job[s].vault.kind = "encrypted"
<1> USE DEF Disk, History
<1>1. ASSUME NEW t \in Sessions, NEW owner, Commit(t, owner), job[t].pc \in Settled
      PROVE  \/ window'[s] = window[s]
             \/ job[s].pc \in Settled /\ window'[s].kind = job[s].vault.kind
  BY <1>1 DEF Commit, TypeOK
<1>2. ASSUME NEW t \in Sessions, TakeLock(t) \/ Choose(t)
      PROVE  \/ window'[s] = window[s]
             \/ job[s].pc \in Settled /\ window'[s].kind = job[s].vault.kind
  <2>1. job[t].pc \in Settled
    BY <1>2 DEF TakeLock, Choose, TakeOver, OpenReadOnly, Cancel, AskQuarantine, Settled, Dialogs
  <2>2. (\E owner : Commit(t, owner)) \/ window' = window
    BY <1>2 DEF TakeLock, Choose, TakeOver, OpenReadOnly, Cancel, AskQuarantine
  <2> QED
    BY <1>1, <2>1, <2>2
<1>3. ASSUME NEW t \in Sessions, Use(t)
      PROVE  window'[s].kind \in {window[s].kind, "ordinary"}
  BY <1>3 DEF Use, Unlock, LockVault, Leave, AskRekey, NoWindow, TypeOK, Windows
<1>4. ASSUME NEW t \in Sessions, Crash(t) PROVE window'[s].kind \in {window[s].kind, "ordinary"}
  BY <1>4 DEF Crash, NoWindow, TypeOK
<1>5. ASSUME NEW t \in Sessions,
             OpenVault(t) \/ Load(t) \/ Ordinary(t) \/ Decide(t) \/ Quarantine(t)
             \/ AskSecureVault(t) \/ TypePassword(t) \/ MakeSecure(t) \/ Rekey(t)
      PROVE  window' = window
  BY <1>5 DEF OpenVault, Load, LoadNothing, LoadRefused, LoadOrdinary, LoadSecure, Ordinary, Migrate,
     MakeDirectories, WriteManifest, Decide, Quarantine, MakeQuarantine, MoveArtifact, Rescan,
     AskSecureVault, TypePassword, MakeSecure, Derived, WriteKeys, Seal, Register, Rekey,
     WriteRewrapped, Verify, AnswerRekey
<1>6. CASE (\E a \in Artifacts : PutArtifact(a)) \/ UNCHANGED vars
  BY <1>6 DEF PutArtifact, vars
<1> QED
  BY <1>2, <1>3, <1>4, <1>5, <1>6 DEF Next

-----------------------------------------------------------------------------
(* The key file wraps the key of the store, whoever makes vaults of the folder *)

Secure(m) == There(m) /\ m.version = 3 /\ m.kind = "encrypted"

\* What job j relies on, while the key file is k, and the store is sealed with the
\* key of vault sealed.
JobFits(j, k, sealed) ==
    /\ j.pc \in NewSecure => j.vault.kind = "encrypted"
    /\ j.pc \in {"directories", "manifest", "migrate"} => j.vault.kind = "ordinary"
    /\ j.pc \in {"seal", "register"} => k = [id |-> j.vault.id, password |-> j.password]
    /\ j.pc = "register" => sealed = j.vault.id

JobsFit == \A s \in Sessions : JobFits(job[s], keyfile, store)

\* Process s is making or opening a Secure Vault, or has one open or its password
\* changed.
Works(s) == job[s].vault.kind = "encrypted"
Opened(s) == window[s].kind = "encrypted" \/ rekey[s].pc # "none"

\* The directory .senatorial-notes, which is never removed, keeps a folder that has
\* been a Secure Vault, or was to be one, from being clean again.
SecureMarked ==
    Secure(toml) \/ (\E s \in Sessions : Works(s) \/ Opened(s)) => "state" \in marks

\* So a Secure Vault is made once, before anybody has to do with one.
SecureOnce ==
    \A s \in Sessions : job[s].pc \in NewSecure =>
        /\ ~Secure(toml)
        /\ \A t \in Sessions : ~Opened(t) /\ (t # s => ~Works(t))

\* A change of the password writes back the key it has read.
CopiesFit == \A s \in Sessions : rekey[s].pc = "write" => rekey[s].copy.id = keyfile.id

\* The key file wraps the key that the store of the vault was sealed with.
KeyOpensStore == Secure(toml) => keyfile.id = toml.id /\ store = toml.id

KeyInv == JobsFit /\ SecureMarked /\ SecureOnce /\ CopiesFit /\ KeyOpensStore

LEMMA KeyInit == Init => KeyInv
<1> SUFFICES ASSUME Init PROVE KeyInv
  OBVIOUS
<1>1. \A s \in Sessions : job[s].pc = "idle" /\ ~Works(s) /\ ~Opened(s) /\ rekey[s].pc = "none"
  BY DEF Init, NoJob, NoToml, NoWindow, NoRekey, Works, Opened
<1>2. Secure(toml) => "state" \in marks /\ keyfile.id = toml.id /\ store = toml.id
  BY DEF Init, Secure, There, NoToml
<1> QED
  BY <1>1, <1>2 DEF KeyInv, JobsFit, JobFits, SecureMarked, SecureOnce, CopiesFit, KeyOpensStore,
     NewSecure

\* Who has to do with a Secure Vault after a step had to before, or loads one, or
\* begins to make one.
LEMMA WorksStep ==
    ASSUME TypeOK, KeyInv, [Next]_vars, NEW s \in Sessions, Works(s)'
    PROVE  Works(s) \/ LoadSecure(s) \/ Begins(s)
<1>0. job[s] \in Jobs /\ JobFits(job[s], keyfile, store)
  BY DEF TypeOK, KeyInv, JobsFit
<1>1. ~Restarts(s)
  BY DEF Restarts, Works, NoToml
<1>2. CASE LoadNothing(s)
  BY <1>1, <1>2, NothingLoads DEF Works
<1>3. CASE LoadOrdinary(s)
  <2>1. Upgraded(toml).kind = "ordinary"
    BY DEF Upgraded, TypeOK, Manifest
  <2> QED
    BY <1>3, <2>1, OrdinaryLoads DEF Works
<1>4. CASE Ordinary(s)
  <2>1. job[s].vault.kind = "ordinary"
    BY <1>0, <1>4 DEF Ordinary, Migrate, MakeDirectories, WriteManifest, JobFits
  <2> QED
    BY <1>1, <1>4, <2>1, KeepsVault DEF Works
<1>5. CASE WriteKeys(s) \/ Seal(s) \/ Register(s)
  BY <1>0, <1>5 DEF WriteKeys, Seal, Register, JobFits, Works, NewSecure
<1>6. CASE job'[s] = job[s] \/ Settles(s)
  BY <1>6 DEF Settles, Works
<1> QED
  BY <1>1, <1>2, <1>3, <1>4, <1>5, <1>6, JobTurns

\* Nobody opens one who did not work on it.
LEMMA OpenedStep ==
    ASSUME TypeOK, KeyInv, [Next]_vars, NEW s \in Sessions, Opened(s)'
    PROVE  Opened(s) \/ (job[s].pc \in Settled /\ Works(s))
<1>1. CASE window'[s].kind = "encrypted"
  BY <1>1, WindowChanges DEF Opened, Works
<1>2. CASE rekey'[s].pc # "none"
  BY <1>2, RekeyChanges DEF AskRekey, WriteRewrapped, Verify, AnswerRekey, Opened
<1> QED
  BY <1>1, <1>2 DEF Opened

\* Only Register writes the vault.toml of a Secure Vault.
LEMMA SecureStep ==
    ASSUME TypeOK, KeyInv, [Next]_vars, Secure(toml')
    PROVE  \/ toml' = toml
           \/ \E s \in Sessions : Register(s) /\ toml' = job[s].vault /\ ~Restarts(s)
<1>1. ASSUME NEW s \in Sessions, Migrate(s) \/ WriteManifest(s) PROVE toml' = toml
  <2>1. job[s].vault.kind = "ordinary"
    BY <1>1 DEF Migrate, WriteManifest, KeyInv, JobsFit, JobFits
  <2> QED
    BY <1>1, <2>1 DEF Migrate, WriteManifest, Secure
<1>2. ASSUME NEW s \in Sessions, WriteKeys(s) \/ Seal(s) \/ WriteRewrapped(s) PROVE toml' = toml
  BY <1>2 DEF WriteKeys, Seal, WriteRewrapped
<1>3. ASSUME NEW s \in Sessions, Register(s), toml' # toml
      PROVE  toml' = job[s].vault /\ ~Restarts(s)
  <2>1. toml' = job[s].vault /\ Goto(s, "lock")
    BY <1>3 DEF Register
  <2> QED
    BY <2>1, GotoOne DEF Restarts, Resting
<1> QED
  BY <1>1, <1>2, <1>3, FileWrites

\* Where a Secure Vault is begun there was none, and nobody had to do with one.
LEMMA BeginsAlone ==
    ASSUME TypeOK, KeyInv, NEW s \in Sessions, Begins(s)
    PROVE  /\ ~Secure(toml) /\ \A t \in Sessions : ~Works(t) /\ ~Opened(t)
           /\ UNCHANGED <<toml, keyfile, store, window, rekey>> /\ "state" \in marks'
           /\ \A t \in Sessions \ {s} : job'[t] = job[t]
           /\ job'[s].pc = "keyfile" /\ job'[s].fresh
           /\ job'[s].vault = [version |-> 3, kind |-> "encrypted", id |-> ids + 1]
<1>1. job[s].pc \in Resting \cup Dialogs /\ Derived(s)
  BY DEF Begins, Derived
<1>2. ~Restarts(s) /\ job' # job
  BY <1>1 DEF Begins, Restarts, NewSecure, Resting, Dialogs
<1>3. /\ MayMake /\ marks' = marks \cup {"state"}
      /\ Set(s, [NoJob EXCEPT !.pc = "keyfile", !.fresh = TRUE, !.password = maker[s].password,
                   !.vault = [version |-> 3, kind |-> "encrypted", id |-> ids + 1]])
  BY <1>1, <1>2, RestartOne DEF Derived
<1>4. marks = {}
  BY <1>3 DEF MayMake, Clean
<1>5. UNCHANGED <<toml, keyfile, store, window, rekey>>
  BY <1>1 DEF Derived
<1>6. job'[s] = [NoJob EXCEPT !.pc = "keyfile", !.fresh = TRUE, !.password = maker[s].password,
                   !.vault = [version |-> 3, kind |-> "encrypted", id |-> ids + 1]]
  BY <1>3, SetOne
<1>7. /\ job'[s].pc = "keyfile" /\ job'[s].fresh
      /\ job'[s].vault = [version |-> 3, kind |-> "encrypted", id |-> ids + 1]
  BY <1>6 DEF NoJob
<1> QED
  BY <1>3, <1>4, <1>5, <1>6, <1>7, SetOne DEF KeyInv, SecureMarked

LEMMA MarkedStep == TypeOK /\ KeyInv /\ [Next]_vars => SecureMarked'
<1> SUFFICES ASSUME TypeOK, KeyInv, [Next]_vars PROVE SecureMarked'
  OBVIOUS
<1>1. marks \subseteq marks'
  BY FileWrites
<1>2. ASSUME NEW s \in Sessions, Works(s)' PROVE "state" \in marks'
  <2>1. CASE Works(s)
    BY <1>1, <2>1 DEF KeyInv, SecureMarked
  <2>2. CASE LoadSecure(s)
    BY <1>1, <2>2 DEF LoadSecure, Secure, KeyInv, SecureMarked
  <2>3. CASE Begins(s)
    BY <2>3, BeginsAlone
  <2> QED
    BY <1>2, <2>1, <2>2, <2>3, WorksStep
<1>3. ASSUME NEW s \in Sessions, Opened(s)' PROVE "state" \in marks'
  BY <1>1, <1>3, OpenedStep DEF KeyInv, SecureMarked
<1>4. ASSUME Secure(toml') PROVE "state" \in marks'
  <2>1. CASE toml' = toml
    BY <1>1, <1>4, <2>1 DEF KeyInv, SecureMarked
  <2>2. ASSUME NEW s \in Sessions, Register(s) PROVE "state" \in marks'
    <3>1. Works(s)
      BY <2>2 DEF Register, KeyInv, JobsFit, JobFits, Works, NewSecure
    <3> QED
      BY <1>1, <3>1 DEF KeyInv, SecureMarked
  <2> QED
    BY <1>4, <2>1, <2>2, SecureStep
<1> QED
  BY <1>2, <1>3, <1>4 DEF SecureMarked, Secure

\* Who makes a Secure Vault after a step made it before, or begins to.
LEMMA NewSecureStep ==
    ASSUME TypeOK, KeyInv, [Next]_vars, NEW s \in Sessions, job'[s].pc \in NewSecure
    PROVE  job[s].pc \in NewSecure \/ Begins(s)
<1>1. ~Restarts(s) /\ ~Settles(s)
  BY DEF Restarts, Settles, Resting, Settled, Dialogs, NewSecure
<1>2. ~LoadNothing(s) /\ ~LoadOrdinary(s) /\ ~LoadSecure(s)
  BY <1>1, NothingLoads, OrdinaryLoads, SecureLoads DEF NewSecure
<1>3. ~Ordinary(s)
  BY <1>1, KeepsVault DEF NewSecure
<1> QED
  BY <1>1, <1>2, <1>3, JobTurns DEF WriteKeys, Seal, Register, NewSecure

LEMMA OnceStep == TypeOK /\ KeyInv /\ [Next]_vars => SecureOnce'
<1> SUFFICES ASSUME TypeOK, KeyInv, [Next]_vars, NEW s \in Sessions, job'[s].pc \in NewSecure
             PROVE  /\ ~Secure(toml')
                    /\ \A t \in Sessions : ~Opened(t)' /\ (t # s => ~Works(t)')
  BY DEF SecureOnce, Secure
<1>1. CASE Begins(s)
  BY <1>1, BeginsAlone DEF Works, Opened
<1>2. CASE job[s].pc \in NewSecure
  <2>1. /\ ~Secure(toml) /\ Works(s) /\ "state" \in marks
        /\ \A t \in Sessions : ~Opened(t) /\ (t # s => ~Works(t))
    BY <1>2 DEF KeyInv, SecureOnce, SecureMarked, JobsFit, JobFits, Works
  <2>2. ~Secure(toml')
    <3>1. ASSUME NEW t \in Sessions, Register(t), ~Restarts(t) PROVE FALSE
      <4>1. Works(t)
        BY <3>1 DEF Register, KeyInv, JobsFit, JobFits, Works, NewSecure
      <4>2. t = s
        BY <2>1, <4>1
      <4>3. job'[s].pc = "lock"
        BY <3>1, <4>2, KeepsVault
      <4> QED
        BY <4>3 DEF NewSecure
    <3> QED
      BY <2>1, <3>1, SecureStep
  <2>3. ASSUME NEW t \in Sessions, Opened(t)' PROVE FALSE
    BY <1>2, <2>1, <2>3, OpenedStep DEF Settled, Dialogs, NewSecure
  <2>4. ASSUME NEW t \in Sessions, t # s, Works(t)' PROVE FALSE
    <3>1. ~LoadSecure(t)
      BY <2>1 DEF LoadSecure, Secure
    <3>2. ~Begins(t)
      BY <2>1, BeginsAlone
    <3> QED
      BY <2>1, <2>4, <3>1, <3>2, WorksStep
  <2> QED
    BY <2>2, <2>3, <2>4
<1> QED
  BY <1>1, <1>2, NewSecureStep

\* What any step leaves of what a job relies on.
LEMMA JobStep ==
    ASSUME TypeOK, KeyInv, [Next]_vars, NEW s \in Sessions
    PROVE  JobFits(job'[s], keyfile', store')
<1>0. job[s] \in Jobs /\ JobFits(job[s], keyfile, store)
  BY DEF TypeOK, KeyInv, JobsFit
<1>1. ASSUME Restarts(s) PROVE JobFits(job'[s], keyfile', store')
  BY <1>1 DEF Restarts, JobFits, Resting, NewSecure
<1>2. ASSUME Settles(s) PROVE JobFits(job'[s], keyfile', store')
  BY <1>2 DEF Settles, JobFits, Settled, Dialogs, NewSecure
<1>3. CASE job'[s] = job[s]
  <2>1. ASSUME job[s].pc \in NewSecure PROVE UNCHANGED <<keyfile, store>>
    <3>1. \A t \in Sessions : ~Opened(t) /\ (t # s => ~Works(t))
      BY <2>1 DEF KeyInv, SecureOnce
    <3>2. ASSUME NEW t \in Sessions, WriteKeys(t) \/ Seal(t) PROVE FALSE
      <4>1. Works(t)
        BY <3>2 DEF WriteKeys, Seal, KeyInv, JobsFit, JobFits, Works, NewSecure
      <4>2. t = s
        BY <3>1, <4>1
      <4>3. ~Restarts(s)
        BY <1>3, <2>1 DEF Restarts, Resting, NewSecure
      <4>4. job'[s].pc # job[s].pc
        BY <3>2, <4>2, <4>3, KeepsVault DEF WriteKeys, Seal
      <4> QED
        BY <1>3, <4>4
    <3>3. ASSUME NEW t \in Sessions, WriteRewrapped(t) PROVE FALSE
      BY <3>1, <3>3 DEF WriteRewrapped, Opened
    <3> QED
      BY <3>2, <3>3, KeyFileWrites
  <2> QED
    BY <1>0, <1>3, <2>1 DEF JobFits, NewSecure
<1>4. CASE LoadNothing(s)
  BY <1>1, <1>4, NothingLoads DEF JobFits, NewSecure
<1>5. CASE LoadOrdinary(s)
  <2>1. Upgraded(toml).kind = "ordinary"
    BY DEF Upgraded, TypeOK, Manifest
  <2>2. job'[s].pc \in {"migrate", "directories"} /\ job'[s].vault.kind = "ordinary"
    BY <1>5, <2>1, OrdinaryLoads
  <2> QED
    BY <2>2 DEF JobFits, NewSecure
<1>6. CASE LoadSecure(s)
  BY <1>6, SecureLoads DEF JobFits, NewSecure
<1>7. CASE Ordinary(s)
  <2>1. job[s].vault.kind = "ordinary"
    BY <1>0, <1>7 DEF Ordinary, Migrate, MakeDirectories, WriteManifest, JobFits
  <2> QED
    BY <1>1, <1>7, <2>1, KeepsVault DEF JobFits, NewSecure
<1>8. CASE Begins(s)
  BY <1>8, BeginsAlone DEF JobFits
<1>9. CASE WriteKeys(s)
  BY <1>0, <1>1, <1>9, KeepsVault DEF WriteKeys, JobFits, NewSecure
<1>10. CASE Seal(s)
  <2>1. keyfile' = keyfile
    BY <1>10 DEF Seal
  <2> QED
    BY <1>0, <1>1, <1>10, <2>1, KeepsVault DEF Seal, JobFits, NewSecure
<1>11. CASE Register(s)
  BY <1>1, <1>11, KeepsVault DEF JobFits, NewSecure
<1> QED
  BY <1>1, <1>2, <1>3, <1>4, <1>5, <1>6, <1>7, <1>8, <1>9, <1>10, <1>11, JobTurns

\* What a step of a password change writes
LEMMA Rewraps ==
    ASSUME TypeOK, KeyInv, NEW s \in Sessions, WriteRewrapped(s)
    PROVE  /\ keyfile'.id = keyfile.id /\ UNCHANGED <<toml, store, said, unsettled>>
           /\ keyfile'.password \in {keyfile.password, rekey[s].new}
<1>1. /\ rekey[s].copy \in KeyFiles /\ rekey[s].copy.id = keyfile.id
      /\ UNCHANGED <<toml, store, said, unsettled>>
  BY DEF WriteRewrapped, TypeOK, Rekeys, KeyInv, CopiesFit, History
<1>2. CASE keyfile' = Rewrapped(rekey[s].copy, rekey[s].new)
  BY <1>1, <1>2 DEF Rewrapped, KeyFiles
<1> QED
  BY <1>1, <1>2 DEF WriteRewrapped

\* Which steps touch the key file and the store while a Secure Vault is there or
\* somebody has it open
LEMMA KeyWrites ==
    ASSUME TypeOK, KeyInv, [Next]_vars, Secure(toml) \/ \E s \in Sessions : Opened(s)
    PROVE  UNCHANGED <<keyfile, store>> \/ \E s \in Sessions : WriteRewrapped(s)
<1>1. ASSUME NEW s \in Sessions PROVE job[s].pc \notin NewSecure
  BY DEF KeyInv, SecureOnce
<1> QED
  BY <1>1, KeyFileWrites DEF WriteKeys, Seal, NewSecure

LEMMA KeyStep == TypeOK /\ KeyInv /\ [Next]_vars => KeyInv'
<1> SUFFICES ASSUME TypeOK, KeyInv, [Next]_vars PROVE KeyInv'
  OBVIOUS
<1>1. ASSUME Secure(toml) \/ \E s \in Sessions : Opened(s)
      PROVE  keyfile'.id = keyfile.id /\ store' = store
  BY <1>1, KeyWrites, Rewraps
<1>2. KeyOpensStore'
  <2>1. CASE Secure(toml') /\ toml' = toml
    BY <1>1, <2>1 DEF KeyInv, KeyOpensStore
  <2>2. ASSUME NEW s \in Sessions, Register(s), toml' = job[s].vault
        PROVE  keyfile'.id = toml'.id /\ store' = toml'.id
    BY <2>2 DEF Register, KeyInv, JobsFit, JobFits
  <2> QED
    BY <2>1, <2>2, SecureStep DEF KeyOpensStore, Secure
<1>3. CopiesFit'
  <2>1. ASSUME NEW s \in Sessions, rekey'[s].pc = "write" PROVE rekey'[s].copy.id = keyfile'.id
    <3>1. CASE AskRekey(s)
      <4>1. PICK new : rekey' = [rekey EXCEPT ![s] = [pc |-> "write", current |-> TRUE,
                                                      new |-> new, copy |-> keyfile]]
        BY <3>1 DEF AskRekey
      <4>2. keyfile' = keyfile
        BY <3>1 DEF AskRekey, Disk
      <4> QED
        BY <4>1, <4>2 DEF TypeOK
    <3>2. ~WriteRewrapped(s) /\ ~Verify(s) /\ ~AnswerRekey(s)
      BY <2>1 DEF WriteRewrapped, Verify, AnswerRekey, Step, NoRekey, TypeOK, Rekeys
    <3>3. CASE rekey[s].pc = "write" /\ rekey'[s].copy = rekey[s].copy
      BY <1>1, <3>3 DEF Opened, KeyInv, CopiesFit
    <3> QED
      BY <2>1, <3>1, <3>2, <3>3, RekeyChanges
  <2> QED
    BY <2>1 DEF CopiesFit
<1> QED
  BY <1>2, <1>3, JobStep, MarkedStep, OnceStep DEF KeyInv, JobsFit

\* Whoever makes vaults of the folder, and however many change the password at once:
\* the key file of a Secure Vault wraps the key its store was sealed with, so that
\* some password opens it.
THEOREM VaultKeepsKey == Spec => []KeyOpensStore
<1>1. Init => TypeOK /\ KeyInv
  BY TypeInit, KeyInit
<1>2. TypeOK /\ KeyInv /\ [Next]_vars => (TypeOK /\ KeyInv)'
  BY TypeStep, KeyStep
<1>3. KeyInv => KeyOpensStore
  BY DEF KeyInv
<1> QED
  BY <1>1, <1>2, <1>3, PTL DEF Spec

-----------------------------------------------------------------------------
(* The password opens the vault, as long as one change of it is under way at a time *)

\* One process at a time changes the password; the new one may be the password of the
\* vault from the moment it was asked for, and is when the change is about to be said
\* to have succeeded.
SaidFits ==
    /\ \A s, t \in Sessions : rekey[s].pc # "none" /\ rekey[t].pc # "none" => s = t
    /\ \A s \in Sessions :
         /\ rekey[s].pc \in {"write", "verify", "changed"} => rekey[s].new \in {said} \cup unsettled
         /\ rekey[s].pc = "changed" => keyfile.password = rekey[s].new

SaidInv == SaidFits /\ PasswordOpensVault

LEMMA SaidInit == Init => SaidInv
<1> SUFFICES ASSUME Init PROVE SaidInv
  OBVIOUS
<1>1. \A s \in Sessions : rekey[s].pc = "none"
  BY DEF Init, NoRekey
<1>2. PasswordOpensVault
  BY DEF Init, PasswordOpensVault, There, NoToml
<1> QED
  BY <1>1, <1>2 DEF SaidInv, SaidFits

\* Asking for a new password
LEMMA Asks ==
    ASSUME TypeOK, NEW s \in Sessions, AskRekey(s)
    PROVE  /\ rekey[s].pc = "none" /\ (Overlaps \/ \A t \in Sessions : rekey[t].pc = "none")
           /\ rekey'[s].new \in unsettled' /\ rekey'[s].pc = "write"
           /\ unsettled \subseteq unsettled' /\ UNCHANGED <<toml, keyfile, store, said>>
           /\ \A t \in Sessions \ {s} : rekey'[t] = rekey[t]
<1>1. PICK new \in Choice \ {keyfile.password} :
        /\ rekey' = [rekey EXCEPT ![s] = [pc |-> "write", current |-> TRUE, new |-> new,
                                          copy |-> keyfile]]
        /\ unsettled' = unsettled \cup {new}
  BY DEF AskRekey
<1>2. rekey'[s] = [pc |-> "write", current |-> TRUE, new |-> new, copy |-> keyfile]
  BY <1>1 DEF TypeOK
<1>3. \A t \in Sessions \ {s} : rekey'[t] = rekey[t]
  BY <1>1 DEF TypeOK
<1>4. UNCHANGED <<toml, keyfile, store, said>>
  BY DEF AskRekey, Disk
<1> QED
  BY <1>1, <1>2, <1>3, <1>4 DEF AskRekey

\* The answer of a change
LEMMA Answers ==
    ASSUME TypeOK, NEW s \in Sessions, AnswerRekey(s)
    PROVE  /\ rekey[s].pc # "none" /\ rekey'[s].pc = "none" /\ UNCHANGED <<toml, keyfile, store>>
           /\ \/ UNCHANGED <<said, unsettled>>
              \/ rekey[s].pc = "changed" /\ said' = rekey[s].new /\ unsettled' = {}
<1>1. rekey'[s].pc = "none"
  BY DEF AnswerRekey, NoRekey, TypeOK
<1>2. UNCHANGED <<toml, keyfile, store>>
  BY DEF AnswerRekey, Disk
<1>3. \/ UNCHANGED <<said, unsettled>>
      \/ rekey[s].pc = "changed" /\ said' = rekey[s].new /\ unsettled' = {}
  BY DEF AnswerRekey, Succeeded, History
<1> QED
  BY <1>1, <1>2, <1>3 DEF AnswerRekey

\* What is said of the password changes when a Secure Vault is registered, and when a
\* change is asked for or answered.
LEMMA SaidChanges ==
    ASSUME TypeOK, [Next]_vars
    PROVE  \/ UNCHANGED <<said, unsettled>>
           \/ \E s \in Sessions : AskRekey(s) \/ AnswerRekey(s) \/ Register(s)
<1> USE DEF History
<1>1. ASSUME NEW s \in Sessions,
             \/ OpenVault(s) \/ Load(s) \/ Ordinary(s) \/ Decide(s) \/ TakeLock(s) \/ Choose(s)
      PROVE  UNCHANGED <<said, unsettled>>
  BY <1>1 DEF OpenVault, Load, LoadNothing, LoadRefused, LoadOrdinary, LoadSecure, Ordinary, Migrate,
     MakeDirectories, WriteManifest, Decide, TakeLock, Choose, TakeOver, OpenReadOnly, Cancel,
     AskQuarantine
<1>2. ASSUME NEW s \in Sessions,
             Quarantine(s) \/ AskSecureVault(s) \/ TypePassword(s) \/ Crash(s)
      PROVE  UNCHANGED <<said, unsettled>>
  BY <1>2 DEF Quarantine, MakeQuarantine, MoveArtifact, Rescan, AskSecureVault, TypePassword, Crash
<1>3. ASSUME NEW s \in Sessions, MakeSecure(s)
      PROVE  Register(s) \/ UNCHANGED <<said, unsettled>>
  BY <1>3 DEF MakeSecure, Derived, WriteKeys, Seal
<1>4. ASSUME NEW s \in Sessions, Use(s) PROVE AskRekey(s) \/ UNCHANGED <<said, unsettled>>
  BY <1>4 DEF Use, Unlock, LockVault, Leave
<1>5. ASSUME NEW s \in Sessions, Rekey(s) PROVE AnswerRekey(s) \/ UNCHANGED <<said, unsettled>>
  BY <1>5 DEF Rekey, WriteRewrapped, Verify
<1>6. CASE (\E a \in Artifacts : PutArtifact(a)) \/ UNCHANGED vars
  BY <1>6 DEF PutArtifact, vars
<1> QED
  BY <1>1, <1>2, <1>3, <1>4, <1>5, <1>6 DEF Next

\* A change that goes on is the one that went on before, unless it has just been asked
\* for.
LEMMA GoesOn ==
    ASSUME TypeOK, [Next]_vars, NEW s \in Sessions, rekey'[s].pc # "none", ~AskRekey(s)
    PROVE  /\ rekey[s].pc # "none" /\ rekey'[s].new = rekey[s].new
           /\ \/ rekey'[s].pc = rekey[s].pc
              \/ WriteRewrapped(s) /\ rekey[s].pc = "write" /\ rekey'[s].pc \in {"verify", "failed"}
              \/ Verify(s) /\ rekey[s].pc = "verify" /\ rekey'[s].pc \in {"changed", "failed"}
<1>1. ASSUME NEW pc, Step(s, pc) PROVE rekey'[s].pc = pc /\ rekey'[s].new = rekey[s].new
  BY <1>1 DEF Step, TypeOK, Rekeys
<1>2. CASE WriteRewrapped(s)
  BY <1>1, <1>2 DEF WriteRewrapped
<1>3. CASE Verify(s)
  BY <1>1, <1>3 DEF Verify
<1>4. ~AnswerRekey(s)
  BY Answers
<1> QED
  BY <1>2, <1>3, <1>4, RekeyChanges

LEMMA SaidFitsStep ==
    ASSUME ~Overlaps, TypeOK, KeyInv, SaidFits, [Next]_vars
    PROVE  SaidFits'
<1>1. ASSUME NEW s \in Sessions, NEW t \in Sessions, rekey'[s].pc # "none", rekey'[t].pc # "none"
      PROVE  s = t
  <2>1. ASSUME NEW u \in Sessions, NEW v \in Sessions, AskRekey(u), rekey'[v].pc # "none"
        PROVE  u = v
    BY <2>1, Asks
  <2> QED
    BY <1>1, <2>1, GoesOn DEF SaidFits
<1>2. ASSUME NEW s \in Sessions, rekey'[s].pc \in {"write", "verify", "changed"}, ~AskRekey(s)
      PROVE  UNCHANGED <<said, unsettled>>
  <2>1. rekey[s].pc # "none"
    BY <1>2, GoesOn
  <2>2. ASSUME NEW t \in Sessions, AskRekey(t) PROVE FALSE
    BY <2>1, <2>2, Asks
  <2>3. ASSUME NEW t \in Sessions, AnswerRekey(t) PROVE FALSE
    BY <1>2, <2>1, <2>3, Answers DEF SaidFits
  <2>4. ASSUME NEW t \in Sessions, Register(t) PROVE FALSE
    BY <2>1, <2>4 DEF Register, KeyInv, SecureOnce, Opened, NewSecure
  <2> QED
    BY <2>2, <2>3, <2>4, SaidChanges
<1>3. ASSUME NEW s \in Sessions, rekey'[s].pc \in {"write", "verify", "changed"}
      PROVE  rekey'[s].new \in {said'} \cup unsettled'
  <2>1. CASE AskRekey(s)
    BY <2>1, Asks
  <2>2. CASE ~AskRekey(s)
    BY <1>2, <1>3, <2>2, GoesOn DEF SaidFits
  <2> QED
    BY <2>1, <2>2
<1>4. ASSUME NEW s \in Sessions, rekey'[s].pc = "changed" PROVE keyfile'.password = rekey'[s].new
  <2>1. ~AskRekey(s)
    BY <1>4, Asks
  <2>2. CASE Verify(s)
    <3>1. keyfile' = keyfile /\ (keyfile.password = rekey[s].new \/ Step(s, "failed"))
      BY <2>2 DEF Verify, Disk
    <3>2. ~Step(s, "failed")
      BY <1>4 DEF Step, TypeOK, Rekeys
    <3> QED
      BY <1>4, <2>1, <3>1, <3>2, GoesOn
  <2>3. CASE rekey[s].pc = "changed"
    <3>1. ASSUME NEW t \in Sessions, WriteRewrapped(t) PROVE FALSE
      BY <2>3, <3>1 DEF WriteRewrapped, SaidFits
    <3>2. keyfile' = keyfile
      BY <2>3, <3>1, KeyWrites DEF Opened
    <3> QED
      BY <1>4, <2>1, <2>3, <3>2, GoesOn DEF SaidFits
  <2> QED
    BY <1>4, <2>1, <2>2, <2>3, GoesOn
<1> QED
  BY <1>1, <1>3, <1>4 DEF SaidFits

LEMMA OpensStep ==
    ASSUME TypeOK, KeyInv, SaidInv, [Next]_vars
    PROVE  PasswordOpensVault'
<1> SUFFICES ASSUME Secure(toml') PROVE keyfile'.password \in {said'} \cup unsettled'
  BY KeyStep DEF PasswordOpensVault, KeyInv, KeyOpensStore, Secure, There
<1>1. ASSUME NEW s \in Sessions, Register(s), toml' = job[s].vault, ~Restarts(s)
      PROVE  keyfile'.password \in {said'} \cup unsettled'
  <2>1. keyfile' = keyfile /\ keyfile.password = job[s].password
    BY <1>1 DEF Register, KeyInv, JobsFit, JobFits
  <2> QED
    BY <1>1, <2>1, KeepsVault
<1>2. CASE toml' = toml
  <2>1. Secure(toml) /\ keyfile.password \in {said} \cup unsettled
    BY <1>2 DEF SaidInv, PasswordOpensVault, Secure
  <2>2. ASSUME NEW s \in Sessions, WriteRewrapped(s)
        PROVE  keyfile'.password \in {said'} \cup unsettled'
    <3>1. rekey[s].new \in {said} \cup unsettled
      BY <2>2 DEF WriteRewrapped, SaidInv, SaidFits
    <3> QED
      BY <2>1, <2>2, <3>1, Rewraps
  <2>3. CASE keyfile' = keyfile
    <3>1. ASSUME NEW s \in Sessions, AskRekey(s)
          PROVE  keyfile'.password \in {said'} \cup unsettled'
      BY <2>1, <2>3, <3>1, Asks
    <3>2. ASSUME NEW s \in Sessions, AnswerRekey(s)
          PROVE  keyfile'.password \in {said'} \cup unsettled'
      BY <2>1, <2>3, <3>2, Answers DEF SaidInv, SaidFits
    <3>3. ASSUME NEW s \in Sessions, Register(s) PROVE FALSE
      BY <2>1, <3>3 DEF Register, KeyInv, SecureOnce, NewSecure
    <3> QED
      BY <2>1, <2>3, <3>1, <3>2, <3>3, SaidChanges
  <2> QED
    BY <2>1, <2>2, <2>3, KeyWrites
<1> QED
  BY <1>1, <1>2, SecureStep

\* A folder that says it is a Secure Vault can be unlocked, whatever step of its
\* creation or of a password change was the last, with the password that was last said
\* to be set or one that was tried since, for any processes, passwords and plaintext
\* of other programs; as long as no two processes change the password at once.
THEOREM VaultStaysOpenable == ASSUME ~Overlaps PROVE Spec => []PasswordOpensVault
<1>1. Init => TypeOK /\ KeyInv /\ SaidInv
  BY TypeInit, KeyInit, SaidInit
<1>2. TypeOK /\ KeyInv /\ SaidInv /\ [Next]_vars => (TypeOK /\ KeyInv /\ SaidInv)'
  BY TypeStep, KeyStep, SaidFitsStep, OpensStep DEF SaidInv
<1>3. SaidInv => PasswordOpensVault
  BY DEF SaidInv
<1> QED
  BY <1>1, <1>2, <1>3, PTL DEF Spec

-----------------------------------------------------------------------------
(* vault.toml keeps its identity, as long as one process at a time makes a vault *)

\* What job j relies on, while vault.toml is m: only a new vault writes its manifest
\* or its keys; a migration has the upgrade of the v1 vault.toml that is there, or was
\* before another migration.
IdFits(j, m) ==
    /\ j.pc \in NewSecure \cup {"manifest"} => j.fresh
    /\ j.pc \in {"load", "migrate"} => ~j.fresh
    /\ j.pc = "migrate" =>
         There(m) /\ m.version \in {1, 2} /\ KindOf(m) = "ordinary" /\ j.vault = Upgraded(m)

\* One process makes a vault, and only where there is none.
OneMaker ==
    /\ \A s, t \in Making : s = t
    /\ Making # {} => ~There(toml)

IdInv == OneMaker /\ \A s \in Sessions : IdFits(job[s], toml)

LEMMA IdInit == Init => IdInv
<1> SUFFICES ASSUME Init PROVE IdInv
  OBVIOUS
<1>1. \A s \in Sessions : job[s].pc = "idle"
  BY DEF Init, NoJob
<1> QED
  BY <1>1 DEF IdInv, OneMaker, Making, IdFits, NewSecure

\* An upgrade changes nothing but the version, and it is done once.
LEMMA UpgradeOnce ==
    ASSUME NEW m \in Manifest, m.version \in {1, 2}, KindOf(m) = "ordinary"
    PROVE  /\ Upgraded(m).id = m.id /\ Upgraded(m).version = 2
           /\ KindOf(Upgraded(m)) = "ordinary" /\ Upgraded(m).kind = "ordinary"
           /\ Upgraded(Upgraded(m)) = Upgraded(m)
           /\ m.version <= 2
<1> DEFINE R == [version : 0 .. 4, kind : Kinds, id : 0 .. MaxId]
<1> DEFINE u == Upgraded(m)
<1>1. m \in R
  BY DEF Manifest
<1>2. u.id = m.id /\ u.version = 2 /\ u.kind = "ordinary"
  BY <1>1 DEF Upgraded
<1>3. u \in R
  <2>1. 2 \in 0 .. 4 /\ "ordinary" \in Kinds
    BY DEF Kinds
  <2> QED
    BY <1>1, <2>1 DEF Upgraded
<1>4. \A x \in R : x.version = 2 /\ x.kind = "ordinary" => Upgraded(x) = x
  BY DEF Upgraded
<1>5. Upgraded(u) = u
  BY <1>2, <1>3, <1>4
<1>6. KindOf(u) = "ordinary"
  BY <1>2 DEF KindOf
<1>7. m.version <= 2
  OBVIOUS
<1> QED
  BY <1>2, <1>5, <1>6, <1>7

\* Who writes vault.toml: a migration, or the process that makes a vault, which is done
\* with that.
LEMMA TomlChanges ==
    ASSUME TypeOK, IdInv, [Next]_vars
    PROVE  \/ toml' = toml
           \/ \E s \in Sessions :
                /\ toml' = job[s].vault
                /\ job[s].pc = "migrate" \/ s \in Making \ Making'
<1>1. ASSUME NEW s \in Sessions, WriteManifest(s) \/ Register(s), toml' # toml
      PROVE  toml' = job[s].vault /\ s \in Making \ Making'
  <2>1. toml' = job[s].vault /\ (Goto(s, "decide") \/ Goto(s, "lock"))
    BY <1>1 DEF WriteManifest, Register
  <2>2. job'[s].pc \in {"decide", "lock"}
    BY <2>1, GotoOne
  <2>3. s \in Making
    BY <1>1 DEF WriteManifest, Register, IdInv, IdFits, Making, NewSecure
  <2> QED
    BY <2>1, <2>2, <2>3 DEF Making
<1>2. ASSUME NEW s \in Sessions, Migrate(s), toml' # toml
      PROVE  toml' = job[s].vault /\ job[s].pc = "migrate"
  BY <1>2 DEF Migrate
<1>3. ASSUME NEW s \in Sessions, WriteKeys(s) \/ Seal(s) \/ WriteRewrapped(s) PROVE toml' = toml
  BY <1>3 DEF WriteKeys, Seal, WriteRewrapped
<1> QED
  BY <1>1, <1>2, <1>3, FileWrites

\* The vault.toml that is there is replaced by its own upgrade only.
LEMMA TomlStays ==
    ASSUME TypeOK, IdInv, [Next]_vars, There(toml)
    PROVE  \/ toml' = toml
           \/ /\ toml.version \in {1, 2} /\ KindOf(toml) = "ordinary"
              /\ toml' = Upgraded(toml)
<1>1. ASSUME NEW s \in Sessions, s \in Making PROVE FALSE
  BY <1>1 DEF IdInv, OneMaker
<1>2. ASSUME NEW s \in Sessions, job[s].pc = "migrate"
      PROVE  /\ toml.version \in {1, 2} /\ KindOf(toml) = "ordinary"
             /\ job[s].vault = Upgraded(toml)
  BY <1>2 DEF IdInv, IdFits
<1> QED
  BY <1>1, <1>2, TomlChanges

LEMMA IdentityStep ==
    ASSUME TypeOK, IdInv, [Next]_vars, There(toml)
    PROVE  toml'.id = toml.id /\ KindOf(toml') = KindOf(toml) /\ toml'.version >= toml.version
<1>1. toml \in Manifest
  BY DEF TypeOK
<1>2. CASE toml' = toml
  BY <1>1, <1>2 DEF Manifest
<1>3. CASE toml.version \in {1, 2} /\ KindOf(toml) = "ordinary" /\ toml' = Upgraded(toml)
  <2>1. /\ toml'.id = toml.id /\ toml'.version = 2 /\ KindOf(toml') = "ordinary"
        /\ toml.version <= 2
    BY <1>1, <1>3, UpgradeOnce
  <2> QED
    BY <1>3, <2>1
<1> QED
  BY <1>2, <1>3, TomlStays

\* What any step leaves of what a job relies on.
LEMMA IdJobStep ==
    ASSUME TypeOK, KeyInv, IdInv, [Next]_vars, NEW s \in Sessions
    PROVE  IdFits(job'[s], toml')
<1>0. IdFits(job[s], toml) /\ toml \in Manifest
  BY DEF IdInv, TypeOK
<1>1. CASE job'[s] = job[s]
  <2>1. CASE job[s].pc = "migrate"
    <3>1. There(toml)
      BY <1>0, <2>1 DEF IdFits
    <3>2. CASE toml' = toml
      BY <1>0, <1>1, <3>2 DEF IdFits
    <3>3. CASE toml.version \in {1, 2} /\ KindOf(toml) = "ordinary" /\ toml' = Upgraded(toml)
      <4>1. /\ toml'.id = toml.id /\ toml'.version = 2 /\ KindOf(toml') = "ordinary"
            /\ Upgraded(toml') = toml'
        BY <1>0, <3>3, UpgradeOnce
      <4>2. ~job[s].fresh /\ job[s].vault = Upgraded(toml)
        BY <1>0, <2>1 DEF IdFits
      <4> QED
        BY <1>1, <2>1, <3>1, <3>3, <4>1, <4>2 DEF IdFits, There, NewSecure
    <3> QED
      BY <3>1, <3>2, <3>3, TomlStays
  <2> QED
    BY <1>0, <1>1, <2>1 DEF IdFits
<1>2. CASE Restarts(s)
  BY <1>2 DEF Restarts, IdFits, Resting, NewSecure
<1>3. CASE Settles(s)
  BY <1>3 DEF Settles, Settled, Dialogs, IdFits, NewSecure
<1>4. CASE LoadNothing(s)
  BY <1>2, <1>4, NothingLoads DEF IdFits, NewSecure
<1>5. CASE LoadOrdinary(s)
  <2>1. There(toml) /\ ~job[s].fresh /\ toml' = toml
    BY <1>0, <1>5 DEF LoadOrdinary, IdFits, Disk
  <2>2. toml.version = 1 => KindOf(toml) = "ordinary"
    BY DEF KindOf
  <2> QED
    BY <1>5, <2>1, <2>2, OrdinaryLoads DEF IdFits, NewSecure
<1>6. CASE LoadSecure(s)
  BY <1>6, SecureLoads DEF IdFits, NewSecure
<1>7. CASE Ordinary(s) /\ ~Restarts(s)
  <2>1. job'[s].pc \in {"directories", "manifest", "decide"} /\ job'[s].fresh = job[s].fresh
    BY <1>7, KeepsVault
  <2>2. ASSUME job'[s].pc = "manifest" PROVE job[s].fresh
    <3>1. ASSUME NEW pc \in {"directories", "decide"} PROVE ~Goto(s, pc)
      BY <2>2, <3>1, GotoOne
    <3>2. ~Set(s, [job[s] EXCEPT !.pc = "decide", !.readOnly = TRUE])
      <4>1. [job[s] EXCEPT !.pc = "decide", !.readOnly = TRUE].pc = "decide"
        BY DEF TypeOK, Jobs
      <4> QED
        BY <2>2, <4>1, SetOne
    <3>3. ~Refuse(s)
      BY <1>7, RestartOne
    <3> QED
      BY <1>7, <3>1, <3>2, <3>3 DEF Ordinary, Migrate, MakeDirectories, WriteManifest
  <2> QED
    BY <2>1, <2>2 DEF IdFits, NewSecure
<1>8. CASE Begins(s)
  BY <1>8, BeginsAlone DEF IdFits
<1>9. CASE (WriteKeys(s) \/ Seal(s) \/ Register(s)) /\ ~Restarts(s)
  <2>1. job[s].fresh
    BY <1>0, <1>9 DEF WriteKeys, Seal, Register, IdFits, NewSecure
  <2>2. job'[s].pc \in {"seal", "register", "lock"} /\ job'[s].fresh
    BY <1>9, <2>1, KeepsVault
  <2> QED
    BY <2>2 DEF IdFits
<1> QED
  BY <1>1, <1>2, <1>3, <1>4, <1>5, <1>6, <1>7, <1>8, <1>9, JobTurns

\* A process begins to make a vault only where none is, and alone.
LEMMA MakerJoins ==
    ASSUME ~Races, TypeOK, KeyInv, IdInv, [Next]_vars, NEW s \in Sessions,
           s \in Making', s \notin Making
    PROVE  /\ Making \subseteq {s} /\ ~There(toml) /\ toml' = toml
           /\ \A t \in Sessions \ {s} : job'[t] = job[t]
<1> DEFINE Busy == {"directories", "manifest", "keyfile", "seal", "register"}
<1>0. IdFits(job[s], toml)
  BY DEF IdInv
<1>1. job'[s].fresh /\ job'[s].pc \in Busy /\ ~(job[s].fresh /\ job[s].pc \in Busy)
  BY DEF Making
<1>2. CASE LoadNothing(s)
  <2>1. Making \subseteq {s} /\ ~There(toml) /\ toml' = toml
    BY <1>2 DEF LoadNothing, Alone, Disk
  <2> QED
    BY <1>2, <2>1, OthersJobs DEF Load
<1>3. CASE Begins(s)
  <2>1. Making \subseteq {s}
    BY <1>3 DEF Begins, Derived, Alone
  <2>2. ~There(toml)
    <3>1. ~Restarts(s) /\ job' # job
      BY <1>1, <1>3 DEF Begins, Derived, Restarts, Resting, Dialogs, NewSecure
    <3>2. ~Refuse(s)
      BY <3>1, RestartOne
    <3> QED
      BY <1>3, <3>1, <3>2 DEF Begins, Derived, MayMake, Clean
  <2> QED
    BY <1>3, <2>1, <2>2, BeginsAlone
<1>4. ~Restarts(s) /\ ~Settles(s) /\ job'[s] # job[s]
  BY <1>1 DEF Restarts, Settles, Settled, Resting, Dialogs
<1>5. ~LoadOrdinary(s)
  <2>1. LoadOrdinary(s) => ~job[s].fresh
    BY <1>0 DEF LoadOrdinary, IdFits
  <2>2. LoadOrdinary(s) => job'[s].fresh = job[s].fresh
    BY OrdinaryLoads
  <2> QED
    BY <1>1, <2>1, <2>2
<1>6. ~LoadSecure(s)
  BY <1>1, SecureLoads
<1>7. ~Ordinary(s)
  <2>1. Ordinary(s) => job[s].pc \in {"migrate", "directories", "manifest"}
    BY DEF Ordinary, Migrate, MakeDirectories, WriteManifest
  <2>2. Ordinary(s) => job'[s].fresh = job[s].fresh
    BY <1>4, KeepsVault
  <2> QED
    BY <1>0, <1>1, <2>1, <2>2 DEF IdFits
<1>8. ~WriteKeys(s) /\ ~Seal(s) /\ ~Register(s)
  BY <1>0, <1>1 DEF WriteKeys, Seal, Register, IdFits, NewSecure
<1> QED
  BY <1>2, <1>3, <1>4, <1>5, <1>6, <1>7, <1>8, JobTurns

LEMMA MakerStep ==
    ASSUME ~Races, TypeOK, KeyInv, IdInv, [Next]_vars
    PROVE  OneMaker'
<1>0. Making \subseteq Sessions /\ Making' \subseteq Sessions
  BY DEF Making
<1>1. ASSUME NEW s \in Making', NEW t \in Making', s \notin Making PROVE s = t
  <2>1. Making \subseteq {s} /\ \A u \in Sessions \ {s} : job'[u] = job[u]
    BY <1>0, <1>1, MakerJoins
  <2>2. t \in Sessions \ {s} => t \in Making
    BY <2>1 DEF Making
  <2> QED
    BY <1>0, <2>1, <2>2
<1>2. ASSUME NEW s \in Making', NEW t \in Making' PROVE s = t
  BY <1>1, <1>2 DEF IdInv, OneMaker
<1>3. ASSUME NEW s \in Making' PROVE ~There(toml')
  <2>1. CASE s \notin Making
    BY <1>0, <2>1, MakerJoins
  <2>2. CASE s \in Making
    <3>1. ~There(toml)
      BY <2>2 DEF IdInv, OneMaker
    <3>2. ASSUME NEW t \in Sessions, t \in Making \ Making' PROVE FALSE
      BY <2>2, <3>2 DEF IdInv, OneMaker
    <3>3. ASSUME NEW t \in Sessions, job[t].pc = "migrate" PROVE FALSE
      BY <3>1, <3>3 DEF IdInv, IdFits
    <3> QED
      BY <3>1, <3>2, <3>3, TomlChanges
  <2> QED
    BY <2>1, <2>2
<1> QED
  BY <1>2, <1>3 DEF OneMaker

\* A vault keeps its identity and its kind, and its version only grows, for any
\* processes, vaults of before and plaintext of other programs; as long as no two
\* processes make the folder a vault at once.
THEOREM VaultKeepsIdentity == ASSUME ~Races PROVE Spec => IdentityKept
<1>1. Init => TypeOK /\ KeyInv /\ IdInv
  BY TypeInit, KeyInit, IdInit
<1>2. TypeOK /\ KeyInv /\ IdInv /\ [Next]_vars => (TypeOK /\ KeyInv /\ IdInv)'
  BY TypeStep, KeyStep, MakerStep, IdJobStep DEF IdInv
<1>3. TypeOK /\ IdInv /\ [Next]_vars =>
        [There(toml) => toml'.id = toml.id /\ KindOf(toml') = KindOf(toml)
                        /\ toml'.version >= toml.version]_vars
  BY IdentityStep
<1> QED
  BY <1>1, <1>2, <1>3, PTL DEF Spec, IdentityKept
=============================================================================
