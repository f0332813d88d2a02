------------------------------ MODULE Opening ------------------------------
(***************************************************************************)
(* What happens to one folder while SenatorialNotes processes make it a    *)
(* vault, open it and change its password: vault.toml and its migration    *)
(* (vault_manifest.rs, Vault::create), the key file and the sealed         *)
(* manifest of a new Secure Vault, the plaintext that an older version     *)
(* wrote beside a Secure Vault and its quarantine (vault_quarantine.rs),   *)
(* and the dialogs of ui.rs from the folder picker to commit_vault_switch. *)
(*                                                                         *)
(* A step is one access to the disk, so that another process, the older    *)
(* version or a crash may come between any two.  The vault lock is taken   *)
(* in one step here; VaultLock shows how.                                  *)
(***************************************************************************)
EXTENDS Naturals, FiniteSets

CONSTANTS
    Sessions,       \* the processes
    Artifacts,      \* the plaintext files that another program may write
    Place,          \* Place[a]: where in the folder a is written
    Name,           \* Name[a]: its file name
    Passwords,
    FirstPassword,  \* the password of a Secure Vault that is there already
    MaxFolders,     \* bound: quarantine folders
    MaxId,          \* bound: vault ids ever made
    Together,       \* bound: FALSE if a folder never has both plaintext of
                    \* another program and a second password
    Races,          \* bound: FALSE if one process at a time makes the folder a vault
    Overlaps,       \* bound: FALSE if one password change at a time is under way
    NoOne, Dead     \* the lock: no lock file, one left by a dead process

LoosePlace == "root"
Places == {"Notes", "Trash", "Attachments", LoosePlace}

ASSUME OpeningAssumption ==
    /\ Place \in [Artifacts -> Places]
    /\ FirstPassword \in Passwords
    /\ MaxFolders \in Nat
    /\ MaxId \in Nat \ {0}
    /\ {Together, Races, Overlaps} \subseteq BOOLEAN
    /\ Dead # NoOne
    /\ {NoOne, Dead} \cap Sessions = {}

VARIABLES
    toml,           \* vault.toml
    keyfile,        \* vault.keys: the vault key it wraps, and the password
    store,          \* the vault key that sealed store/manifest, 0 without one
    marks,          \* the directories there: .senatorial-notes, Notes and so on
    where,          \* where[a]: not written, in the folder, in a quarantine
                    \* folder, or replaced by another file
    folders,        \* how many quarantine folders there are
    ids,            \* how many vault ids have been made
    writable,       \* whether the folder can be written at all
    lock,           \* whose vault.lock it is
    job,            \* job[s]: the opening under way in s
    maker,          \* maker[s]: its Secure Vault dialog and key worker
    window,         \* window[s]: the folder as the open vault of s
    rekey,          \* rekey[s]: its password change under way
    said,           \* history: the password that last was said to be set
    unsettled       \* history: the passwords tried since

Disk == <<toml, keyfile, store, marks, where, folders>>
History == <<said, unsettled>>
vars == <<toml, keyfile, store, marks, where, folders, ids, writable, lock, job,
          maker, window, rekey, said, unsettled>>

Ids == 1 .. MaxId
Kinds == {"ordinary", "encrypted"}
\* vault.toml; version 0 stands for a file that does not parse, 4 for any newer
\* format.
Manifest == [version : 0 .. 4, kind : Kinds, id : 0 .. MaxId]
\* the manifests that this build knows
Loaded == {m \in Manifest : m.version \in 0 .. 3}
NoToml == [version |-> 0, kind |-> "ordinary", id |-> 0]
NoKeys == [id |-> 0, password |-> FirstPassword]
AllMarks == {"state", "tree"}
NoJob == [pc |-> "idle", vault |-> NoToml, pending |-> {}, left |-> {}, folder |-> 0,
          readOnly |-> FALSE, again |-> FALSE, fresh |-> FALSE, password |-> FirstPassword]
NoMaker == [step |-> "none", current |-> FALSE, password |-> FirstPassword]
NoWindow == [mode |-> "none", kind |-> "ordinary", open |-> FALSE, seen |-> {}]
NoRekey == [pc |-> "none", current |-> FALSE, new |-> FirstPassword, copy |-> NoKeys]
Resting == {"idle", "refused"}
Dialogs == {"conflict", "contended", "left-behind", "failed"}
PCs == Resting \cup Dialogs \cup
       {"load", "migrate", "directories", "manifest", "decide", "lock", "folder", "move",
        "rescan", "keyfile", "seal", "register"}

KeyFiles == [id : 0 .. MaxId, password : Passwords]
Jobs == [pc : PCs, vault : Loaded, pending : SUBSET Artifacts, left : SUBSET Artifacts,
         folder : 0 .. MaxFolders, readOnly : BOOLEAN, again : BOOLEAN, fresh : BOOLEAN,
         password : Passwords]
Makers == [step : {"none", "password", "deriving"}, current : BOOLEAN, password : Passwords]
Windows == [mode : {"none", "read-only", "writable"}, kind : Kinds, open : BOOLEAN,
            seen : SUBSET Artifacts]
Rekeys == [pc : {"none", "write", "verify", "changed", "failed"}, current : BOOLEAN,
           new : Passwords, copy : KeyFiles]

There(m) == m.id # 0
\* where a file is: not written yet, in the folder, in a quarantine folder, or
\* nowhere any more
Nowhere == [at |-> "nowhere", folder |-> 0]
Here == [at |-> "here", folder |-> 0]
Kept(d) == [at |-> "kept", folder |-> d]
Gone == [at |-> "gone", folder |-> 0]
Whereabouts == [at : {"nowhere", "here", "kept", "gone"}, folder : 0 .. MaxFolders]

InRoot == {a \in Artifacts : where[a] = Here}

\* Bound: the passwords that can be set, and whether plaintext can appear.
Choice == IF Together \/ \A a \in Artifacts : where[a] = Nowhere THEN Passwords ELSE {FirstPassword}
OnePasswordYet ==
    \/ Together
    \/ /\ said = FirstPassword /\ unsettled = {}
       /\ \A s \in Sessions : maker[s].password = FirstPassword /\ job[s].password = FirstPassword

\* What a folder may hold when the first process meets it: nothing, a vault of
\* any version, a vault.toml this build refuses.
Init ==
    /\ \/ /\ toml = NoToml /\ keyfile = NoKeys /\ store = 0 /\ marks = {}
          /\ ids = 0
       \/ /\ ids = 1
          /\ \E v \in 0 .. 4, k \in Kinds :
               toml = [version |-> v, kind |-> k, id |-> 1]
          /\ IF toml.version = 3 /\ toml.kind = "encrypted"
               THEN keyfile = [id |-> 1, password |-> FirstPassword] /\ store = 1 /\ marks = {"state"}
               ELSE keyfile = NoKeys /\ store = 0 /\ marks = AllMarks
    /\ where = [a \in Artifacts |-> Nowhere]
    /\ folders = 0
    /\ writable \in BOOLEAN
    /\ lock \in IF There(toml) THEN {NoOne, Dead} ELSE {NoOne}
    /\ job = [s \in Sessions |-> NoJob]
    /\ maker = [s \in Sessions |-> NoMaker]
    /\ window = [s \in Sessions |-> NoWindow]
    /\ rekey = [s \in Sessions |-> NoRekey]
    /\ said = FirstPassword /\ unsettled = {}

-----------------------------------------------------------------------------
(* What the steps are made of *)

Set(s, j) == job' = [job EXCEPT ![s] = j]
Goto(s, pc) == Set(s, [job[s] EXCEPT !.pc = pc])

\* The opening ends without a switch; report_vault_open_error says why.
Abandon(s) == Set(s, NoJob)
Refuse(s) == Set(s, [NoJob EXCEPT !.pc = "refused"])

\* Bound, unless Races: a process that makes a vault of the folder is not raced by
\* another.
Making == {s \in Sessions :
             job[s].fresh /\ job[s].pc \in {"directories", "manifest", "keyfile", "seal", "register"}}
Alone(s) == Races \/ Making \subseteq {s}

\* ensure_encrypted_target_is_clean
Clean == marks = {} /\ ~There(toml) /\ InRoot = {}

\* SessionRegistry::bump: answers of the workers of s come too late now.
Late(s) ==
    /\ maker' = [maker EXCEPT ![s].current = FALSE]
    /\ rekey' = [rekey EXCEPT ![s].current = FALSE]

\* Mutant of Mode: the owner of the lock may write, whatever the vault says.
ModeByLock(s, owner) == IF owner THEN "writable" ELSE "read-only"

\* read_only of the new session
Mode(s, owner) == IF job[s].readOnly \/ ~owner THEN "read-only" ELSE "writable"

\* commit_vault_switch with a lock that s owns or with a read-only one.  The
\* vault of before may refuse to go: its text cannot be saved.
Commit(s, owner) ==
    \/ /\ window' = [window EXCEPT ![s] =
             [mode |-> Mode(s, owner), kind |-> job[s].vault.kind,
              open |-> job[s].vault.kind = "ordinary" \/ job[s].fresh,
              seen |-> job[s].pending]]
       /\ lock' = IF owner THEN s ELSE lock
       /\ Late(s)
       /\ Abandon(s)
    \/ /\ Abandon(s)
       /\ UNCHANGED <<lock, maker, window, rekey>>

-----------------------------------------------------------------------------
(* Vault::create and Vault::open *)

\* open_vault, after the picker, the switcher or the start of the application
OpenVault(s) ==
    /\ job[s].pc \in Resting /\ maker[s].step # "password"
    /\ Set(s, [NoJob EXCEPT !.pc = "load"])
    /\ UNCHANGED <<Disk, ids, writable, lock, maker, window, rekey, History>>

\* A folder without vault.toml becomes an ordinary vault.
LoadNothing(s) ==
    /\ job[s].pc = "load" /\ ~There(toml)
    /\ Alone(s)
    /\ IF ids < MaxId
         THEN /\ ids' = ids + 1
              /\ Set(s, [job[s] EXCEPT !.pc = "directories", !.fresh = TRUE,
                           !.vault = [version |-> 2, kind |-> "ordinary", id |-> ids + 1]])
         ELSE Abandon(s) /\ UNCHANGED ids
    /\ UNCHANGED <<Disk, writable, lock, maker, window, rekey, History>>

\* Mutant of Unusable: a newer format is read as if it were known.
UnusableUnlessNewer(m) ==
    \/ m.version = 0
    \/ m.version = 2 /\ m.kind = "encrypted"
    \/ m.version = 3 /\ m.kind = "encrypted" /\ keyfile.id = 0

\* VaultManifest::load refuses, or the vault is "encrypted" without being v3 or
\* without a key file.
Unusable(m) ==
    \/ m.version \notin 1 .. 3
    \/ m.version = 2 /\ m.kind = "encrypted"
    \/ m.version = 3 /\ m.kind = "encrypted" /\ keyfile.id = 0

LoadRefused(s) ==
    /\ job[s].pc = "load" /\ There(toml) /\ Unusable(toml)
    /\ Refuse(s)
    /\ UNCHANGED <<Disk, ids, writable, lock, maker, window, rekey, History>>

\* Mutant of Upgraded: the kind that somebody wrote into a v1 file is honoured.
UpgradedAsWritten(m) == [m EXCEPT !.version = 2]

\* The v2 manifest of a v1 vault: always ordinary, the id preserved.
Upgraded(m) == [m EXCEPT !.version = 2, !.kind = "ordinary"]

\* A vault in plain files: v1 goes on to be migrated.
LoadOrdinary(s) ==
    /\ job[s].pc = "load" /\ There(toml) /\ ~Unusable(toml)
    /\ \/ /\ toml.version = 1
          /\ Set(s, [job[s] EXCEPT !.pc = "migrate", !.vault = Upgraded(toml)])
       \/ /\ toml.version # 1 /\ toml.kind = "ordinary"
          /\ Set(s, [job[s] EXCEPT !.pc = "directories", !.vault = toml])
    /\ UNCHANGED <<Disk, ids, writable, lock, maker, window, rekey, History>>

\* A Secure Vault: detect looks at the folder, EncryptedStore::open at the keys.
LoadSecure(s) ==
    /\ job[s].pc = "load" /\ There(toml) /\ ~Unusable(toml)
    /\ toml.version = 3 /\ toml.kind = "encrypted"
    /\ Set(s, [job[s] EXCEPT !.pc = "decide", !.vault = toml, !.pending = InRoot,
                 !.readOnly = InRoot # {}])
    /\ UNCHANGED <<Disk, ids, writable, lock, maker, window, rekey, History>>

\* The v2 manifest is written back; a vault where that fails is read-only.
Migrate(s) ==
    /\ job[s].pc = "migrate"
    /\ \/ /\ writable
          /\ toml' = job[s].vault
          /\ Goto(s, "directories")
       \/ /\ Set(s, [job[s] EXCEPT !.pc = "decide", !.readOnly = TRUE])
          /\ UNCHANGED toml
    /\ UNCHANGED <<keyfile, store, marks, where, folders, ids, writable, lock, maker, window,
                   rekey, History>>

\* ensure_directories; a new vault writes its manifest after that.
MakeDirectories(s) ==
    /\ job[s].pc = "directories"
    /\ \/ /\ writable \/ marks = AllMarks
          /\ marks' = AllMarks
          /\ Goto(s, IF job[s].fresh THEN "manifest" ELSE "decide")
       \/ /\ marks # AllMarks
          /\ Refuse(s)
          /\ UNCHANGED marks
    /\ UNCHANGED <<toml, keyfile, store, where, folders, ids, writable, lock, maker, window, rekey,
                   History>>

WriteManifest(s) ==
    /\ job[s].pc = "manifest"
    /\ \/ writable /\ toml' = job[s].vault /\ Goto(s, "decide")
       \/ Refuse(s) /\ UNCHANGED toml
    /\ UNCHANGED <<keyfile, store, marks, where, folders, ids, writable, lock, maker, window,
                   rekey, History>>

-----------------------------------------------------------------------------
(* The decision: which lock, and what of the plaintext *)

\* open_vault and proceed_with_opened_vault: the vault that is open already is
\* left alone; after a quarantine the conflict is not looked at again.
Decide(s) ==
    /\ job[s].pc = "decide"
    /\ IF window[s].mode # "none" /\ ~job[s].again
         THEN Abandon(s)
         ELSE Goto(s, IF job[s].pending # {} /\ ~job[s].again THEN "conflict" ELSE "lock")
    /\ UNCHANGED <<Disk, ids, writable, lock, maker, window, rekey, History>>

\* finish_opening_vault
TakeLock(s) ==
    /\ job[s].pc = "lock"
    /\ \/ /\ lock \in {NoOne, s} /\ writable
          /\ Commit(s, TRUE)
       \/ /\ lock = NoOne
          /\ Refuse(s)
          /\ UNCHANGED <<lock, maker, window, rekey>>
       \/ /\ lock \notin {NoOne, s} /\ job[s].readOnly
          /\ Commit(s, FALSE)
       \/ /\ lock \notin {NoOne, s} /\ ~job[s].readOnly
          /\ Goto(s, IF lock = Dead THEN "left-behind" ELSE "contended")
          /\ UNCHANGED <<lock, maker, window, rekey>>
    /\ UNCHANGED <<Disk, ids, writable, History>>

\* present_lock_contention_dialog, "Take Over": the lock is still a dead one's
TakeOver(s) ==
    /\ job[s].pc = "left-behind"
    /\ \/ lock \in {NoOne, Dead} /\ writable /\ Commit(s, TRUE)
       \/ Refuse(s) /\ UNCHANGED <<lock, maker, window, rekey>>
    /\ UNCHANGED <<Disk, ids, writable, History>>

\* "Open Read-Only" of the three dialogs
OpenReadOnly(s) ==
    /\ job[s].pc \in Dialogs
    /\ Commit(s, FALSE)
    /\ UNCHANGED <<Disk, ids, writable, History>>

Cancel(s) ==
    /\ job[s].pc \in Dialogs
    /\ Abandon(s)
    /\ UNCHANGED <<Disk, ids, writable, lock, maker, window, rekey, History>>

-----------------------------------------------------------------------------
(* The quarantine *)

\* present_plaintext_conflict_dialog, "Quarantine Plaintext Files"
AskQuarantine(s) ==
    /\ job[s].pc = "conflict"
    /\ Goto(s, "folder")
    /\ UNCHANGED <<Disk, ids, writable, lock, maker, window, rekey, History>>

\* Mutant of FreshFolder: the folder of the last quarantine is used again.
FreshFolderReused == IF folders = 0 THEN 1 ELSE folders

\* The name is the time, and a suffix if there is such a folder already.
FreshFolder == folders + 1

\* The check and the creation of the folder are one step: no other process
\* picks the same second between them.
MakeQuarantine(s) ==
    /\ job[s].pc = "folder"
    /\ \/ /\ writable /\ FreshFolder <= MaxFolders
          /\ folders' = FreshFolder
          /\ Set(s, [job[s] EXCEPT !.pc = "move", !.folder = FreshFolder, !.left = job[s].pending])
       \/ /\ Goto(s, "failed")
          /\ UNCHANGED folders
    /\ UNCHANGED <<toml, keyfile, store, marks, where, ids, writable, lock, maker, window, rekey,
                   History>>

\* The files that one rename concerns: a directory with all that is in it by
\* now, or whatever has the name of the loose file.
SameItem(a) ==
    {b \in Artifacts : Place[b] = Place[a] /\ (Place[a] = LoosePlace => Name[b] = Name[a])}

Moved(a) == SameItem(a) \cap InRoot

\* rename replaces a file of the same name in the quarantine folder.
Replaced(s, a) ==
    {b \in SameItem(a) : Place[a] = LoosePlace /\ where[b] = Kept(job[s].folder)}

\* The directories are moved first.
NextMoves(left) ==
    LET directories == {a \in left : Place[a] # LoosePlace} IN
    IF directories # {} THEN directories ELSE left

MoveArtifact(s) ==
    /\ job[s].pc = "move" /\ job[s].left # {}
    /\ \/ \E a \in NextMoves(job[s].left) :
            /\ writable /\ Moved(a) # {}
            /\ where' = [b \in Artifacts |->
                  IF b \in Moved(a) THEN Kept(job[s].folder)
                  ELSE IF b \in Replaced(s, a) THEN Gone ELSE where[b]]
            /\ Set(s, [job[s] EXCEPT !.left = @ \ SameItem(a)])
       \/ /\ Goto(s, "failed")
          /\ UNCHANGED where
    /\ UNCHANGED <<toml, keyfile, store, marks, folders, ids, writable, lock, maker, window, rekey,
                   History>>

\* detect again, then Vault::open again
Rescan(s) ==
    /\ job[s].pc = "move" /\ job[s].left = {}
    /\ IF InRoot # {}
         THEN Goto(s, "failed")
         ELSE Set(s, [NoJob EXCEPT !.pc = "load", !.again = TRUE])
    /\ UNCHANGED <<Disk, ids, writable, lock, maker, window, rekey, History>>

-----------------------------------------------------------------------------
(* A new Secure Vault *)

\* present_encrypted_vault_creator, present_managed_secure_vault_setup
AskSecureVault(s) ==
    /\ job[s].pc \in Resting /\ maker[s].step = "none"
    /\ Clean /\ Alone(s)
    /\ maker' = [maker EXCEPT ![s].step = "password"]
    /\ UNCHANGED <<Disk, ids, writable, lock, job, window, rekey, History>>

\* The key is derived by a worker; meanwhile the window can be used.
TypePassword(s) ==
    /\ maker[s].step = "password"
    /\ \/ \E p \in Choice :
            maker' = [maker EXCEPT ![s] = [step |-> "deriving", current |-> TRUE, password |-> p]]
       \/ maker' = [maker EXCEPT ![s] = NoMaker]
    /\ UNCHANGED <<Disk, ids, writable, lock, job, window, rekey, History>>

\* Mutant of MayMake: what was clean before the password was asked is clean.
MayMakeUnchecked == TRUE

\* finish_create_encrypted checks again.
MayMake == Clean

\* The worker answers: too late, or for a folder that is not clean any more, or
\* the folder and .senatorial-notes are made.
Derived(s) ==
    /\ maker[s].step = "deriving" /\ job[s].pc \in Resting \cup Dialogs
    /\ Alone(s)
    /\ maker' = [maker EXCEPT ![s] = NoMaker]
    /\ \/ /\ maker[s].current /\ MayMake /\ writable /\ ids < MaxId
          /\ ids' = ids + 1
          /\ marks' = marks \cup {"state"}
          /\ Set(s, [NoJob EXCEPT !.pc = "keyfile", !.fresh = TRUE, !.password = maker[s].password,
                       !.vault = [version |-> 3, kind |-> "encrypted", id |-> ids + 1]])
       \/ /\ maker[s].current
          /\ IF job[s].pc \in Resting THEN Refuse(s) ELSE UNCHANGED job
          /\ UNCHANGED <<ids, marks>>
       \/ /\ ~maker[s].current
          /\ UNCHANGED <<ids, marks, job>>
    /\ UNCHANGED <<toml, keyfile, store, where, folders, writable, lock, window, rekey, History>>

\* EncryptedStore::create_from: vault.keys, then the sealed empty manifest.
WriteKeys(s) ==
    /\ job[s].pc = "keyfile"
    /\ \/ /\ writable
          /\ keyfile' = [id |-> job[s].vault.id, password |-> job[s].password]
          /\ Goto(s, "seal")
       \/ Refuse(s) /\ UNCHANGED keyfile
    /\ UNCHANGED <<toml, store, marks, where, folders, ids, writable, lock, maker, window, rekey,
                   History>>

Seal(s) ==
    /\ job[s].pc = "seal"
    /\ \/ writable /\ store' = job[s].vault.id /\ Goto(s, "register")
       \/ Refuse(s) /\ UNCHANGED store
    /\ UNCHANGED <<toml, keyfile, marks, where, folders, ids, writable, lock, maker, window, rekey,
                   History>>

\* vault.toml last: from now on this is a Secure Vault.
Register(s) ==
    /\ job[s].pc = "register"
    /\ \/ /\ writable
          /\ toml' = job[s].vault
          /\ said' = job[s].password /\ unsettled' = {}
          /\ Goto(s, "lock")
       \/ Refuse(s) /\ UNCHANGED <<toml, History>>
    /\ UNCHANGED <<keyfile, store, marks, where, folders, ids, writable, lock, maker, window, rekey>>

-----------------------------------------------------------------------------
(* The open vault *)

\* begin_vault_unlock with the password of the key file
Unlock(s) ==
    /\ window[s].mode # "none" /\ ~window[s].open
    /\ job[s].pc \in Resting
    /\ There(toml) /\ keyfile.id = toml.id /\ store = keyfile.id
    /\ window' = [window EXCEPT ![s].open = TRUE]
    /\ UNCHANGED <<Disk, ids, writable, lock, job, maker, rekey, History>>

\* lock_vault, by hand or by the idle timer
LockVault(s) ==
    /\ window[s].kind = "encrypted" /\ window[s].open
    /\ window' = [window EXCEPT ![s].open = FALSE]
    /\ Late(s)
    /\ UNCHANGED <<Disk, ids, writable, lock, job, History>>

\* Another vault is opened, or the window is closed.
Leave(s) ==
    /\ window[s].mode # "none" /\ job[s].pc \in Resting
    /\ window' = [window EXCEPT ![s] = NoWindow]
    /\ lock' = IF lock = s THEN NoOne ELSE lock
    /\ Late(s)
    /\ UNCHANGED <<Disk, ids, writable, job, History>>

Step(s, pc) == rekey' = [rekey EXCEPT ![s].pc = pc]

\* change_vault_password_flow, and the worker as far as the password that was
\* typed first opens the key file it reads.  A read-only session may do it.
\* Bound: one change at a time in a process and, unless Overlaps, in all of them.
AskRekey(s) ==
    /\ window[s].kind = "encrypted" /\ window[s].open
    /\ rekey[s].pc = "none"
    /\ Overlaps \/ \A t \in Sessions : rekey[t].pc = "none"
    /\ \E new \in Choice \ {keyfile.password} :
         /\ rekey' = [rekey EXCEPT ![s] = [pc |-> "write", current |-> TRUE, new |-> new,
                                           copy |-> keyfile]]
         /\ unsettled' = unsettled \cup {new}
    /\ UNCHANGED <<Disk, ids, writable, lock, job, maker, window, said>>

\* rewrap_keyfile: the same vault key under another password
Rewrapped(k, p) == [k EXCEPT !.password = p]

\* atomic_write, which may fail before or after its rename.
WriteRewrapped(s) ==
    /\ rekey[s].pc = "write"
    /\ \/ /\ writable
          /\ keyfile' = Rewrapped(rekey[s].copy, rekey[s].new)
          /\ \E pc \in {"verify", "failed"} : Step(s, pc)
       \/ Step(s, "failed") /\ UNCHANGED keyfile
    /\ UNCHANGED <<toml, store, marks, where, folders, ids, writable, lock, job, maker, window,
                   History>>

\* The new password opens the key file, the old one does not.
Verify(s) ==
    /\ rekey[s].pc = "verify"
    /\ \/ keyfile.password = rekey[s].new /\ Step(s, "changed")
       \/ Step(s, "failed")
    /\ UNCHANGED <<Disk, ids, writable, lock, job, maker, window, History>>

\* Unless the session is not the current one any more, the window says so.
Succeeded(s) == rekey[s].pc = "changed" /\ rekey[s].current

AnswerRekey(s) ==
    /\ rekey[s].pc \in {"changed", "failed"}
    /\ rekey' = [rekey EXCEPT ![s] = NoRekey]
    /\ IF Succeeded(s)
         THEN said' = rekey[s].new /\ unsettled' = {}
         ELSE UNCHANGED History
    /\ UNCHANGED <<Disk, ids, writable, lock, job, maker, window>>

-----------------------------------------------------------------------------
(* The world *)

\* An older version, which does not read vault.toml, or any other program.
PutArtifact(a) ==
    /\ where[a] = Nowhere /\ writable /\ OnePasswordYet
    /\ \A b \in InRoot : Place[b] = Place[a] => Name[b] # Name[a]
    /\ where' = [where EXCEPT ![a] = Here]
    /\ UNCHANGED <<toml, keyfile, store, marks, folders, ids, writable, lock, job, maker, window,
                   rekey, History>>

\* The process dies, and its workers with it.
Crash(s) ==
    /\ job' = [job EXCEPT ![s] = NoJob]
    /\ maker' = [maker EXCEPT ![s] = NoMaker]
    /\ window' = [window EXCEPT ![s] = NoWindow]
    /\ rekey' = [rekey EXCEPT ![s] = NoRekey]
    /\ lock' = IF lock = s THEN Dead ELSE lock
    /\ UNCHANGED <<Disk, ids, writable, History>>

Load(s) == LoadNothing(s) \/ LoadRefused(s) \/ LoadOrdinary(s) \/ LoadSecure(s)
Ordinary(s) == Migrate(s) \/ MakeDirectories(s) \/ WriteManifest(s)
Choose(s) == TakeOver(s) \/ OpenReadOnly(s) \/ Cancel(s) \/ AskQuarantine(s)
Quarantine(s) == MakeQuarantine(s) \/ MoveArtifact(s) \/ Rescan(s)
MakeSecure(s) == Derived(s) \/ WriteKeys(s) \/ Seal(s) \/ Register(s)
Rekey(s) == WriteRewrapped(s) \/ Verify(s) \/ AnswerRekey(s)
Use(s) == Unlock(s) \/ LockVault(s) \/ Leave(s) \/ AskRekey(s)

Next ==
    \/ \E s \in Sessions :
         \/ OpenVault(s) \/ Load(s) \/ Ordinary(s) \/ Decide(s) \/ TakeLock(s) \/ Choose(s)
         \/ Quarantine(s)
         \/ AskSecureVault(s) \/ TypePassword(s) \/ MakeSecure(s)
         \/ Use(s) \/ Rekey(s) \/ Crash(s)
    \/ \E a \in Artifacts : PutArtifact(a)

Spec == Init /\ [][Next]_vars

-----------------------------------------------------------------------------
(* What must hold *)

\* Every variable has its type; an opening goes on only with a manifest that
\* this build knows (VaultManifest::load).
TypeOK ==
    /\ toml \in Manifest
    /\ keyfile \in KeyFiles
    /\ store \in 0 .. MaxId
    /\ marks \subseteq AllMarks
    /\ where \in [Artifacts -> Whereabouts]
    /\ folders \in 0 .. MaxFolders
    /\ ids \in 0 .. MaxId
    /\ writable \in BOOLEAN
    /\ lock \in Sessions \cup {NoOne, Dead}
    /\ job \in [Sessions -> Jobs]
    /\ maker \in [Sessions -> Makers]
    /\ window \in [Sessions -> Windows]
    /\ rekey \in [Sessions -> Rekeys]
    /\ said \in Passwords /\ unsettled \subseteq Passwords

\* A quarantine loses nothing: no file that another program wrote is replaced by
\* a later one of the same name, however often the older version writes, the
\* quarantine fails half-way, the process dies or another process quarantines
\* the same folder (vault_quarantine.rs, PendingQuarantine::quarantine).
NothingReplaced == \A a \in Artifacts : where[a] # Gone

\* A Secure Vault is open for writing only in the session that owns the lock,
\* and only if the look at the folder that this session rests on found none of
\* the plaintext that is in it (Vault::create, commit_vault_switch).
WriterIsClean ==
    \A s \in Sessions :
        window[s].mode = "writable" =>
            lock = s /\ (window[s].kind = "encrypted" => window[s].seen \cap InRoot = {})

\* A folder that says it is a Secure Vault can be unlocked, whatever step of its
\* creation or of a password change was the last before a crash: the key file
\* wraps the key that the store was sealed with, under the password that was last
\* said to be set, or under that of a later change that has not been said to have
\* succeeded (Vault::finish_create_encrypted, rewrap_vault_keyfile,
\* change_vault_password_flow).
PasswordOpensVault ==
    There(toml) /\ toml.version = 3 /\ toml.kind = "encrypted" =>
        /\ keyfile.id = toml.id /\ store = toml.id
        /\ keyfile.password \in {said} \cup unsettled

\* The kind that vault.toml means: v1 knew only one.
KindOf(m) == IF m.version = 1 THEN "ordinary" ELSE m.kind

\* A vault keeps its identity and its kind, and its version only grows: no
\* opening, no migration and no creation replaces the vault.toml of another
\* vault (VaultManifest::load, Vault::create, Vault::finish_create_encrypted).
IdentityKept ==
    [][There(toml) => toml'.id = toml.id /\ KindOf(toml') = KindOf(toml)
                      /\ toml'.version >= toml.version]_vars

\* A vault whose manifest cannot be rewritten opens read-only.  It does not hold:
\* the lock is taken first, cannot be written either, and the error ends the
\* opening (finish_opening_vault).
UnwritableVaultOpens ==
    There(toml) /\ toml.version = 1 /\ ~writable =>
        \A s \in Sessions : job[s].pc # "refused"
=============================================================================
