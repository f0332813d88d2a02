----------------------------- MODULE VaultLock -----------------------------
(***************************************************************************)
(* The advisory vault lock (src/src/vault_lock.rs) as several processes,   *)
(* on several machines, use it on one shared vault.                        *)
(*                                                                         *)
(* A session is one run of the program: it starts, tries to own the vault, *)
(* is shown the contention dialog, writes or only reads, releases, and may *)
(* die at any step.  Every filesystem access of the code is a step of its  *)
(* own: reading vault.lock, probing the process it names, renaming the     *)
(* temporary file into place, reading it back, removing it.                *)
(***************************************************************************)
EXTENDS Naturals

CONSTANTS
  Sessions,   \* process incarnations (each starts at most once)
  Hosts,      \* machines that reach the vault directory
  Home,       \* Home[s]: the machine session s runs on
  Legible,    \* the machines whose /proc tells hostname, boot id and ticks
  Pids,       \* process ids
  NoFile,     \* vault.lock does not exist
  Opaque,     \* vault.lock is unreadable, malformed or of a newer format
  NoHost,     \* the empty hostname
  NoReplace,  \* the filesystem supports RENAME_NOREPLACE
  SameUser,   \* all processes belong to one user: kill(pid, 0) is permitted
  Recycle,    \* the kernel reuses process ids within one boot
  TakeOvers,  \* users ever press "Take Over"
  MaxBoot     \* bound on the number of boots of a machine

ASSUME LockAssumption ==
  /\ Home \in [Sessions -> Hosts]
  /\ Legible \subseteq Hosts
  /\ NoHost \notin Hosts
  /\ Pids # {}
  /\ NoReplace \in BOOLEAN /\ SameUser \in BOOLEAN
  /\ Recycle \in BOOLEAN /\ TakeOvers \in BOOLEAN
  /\ MaxBoot \in Nat \ {0}

DeadReasons == {"DifferentBoot", "ProcessGone", "PidReused"}
LockStatus  == {"Free", "HeldByThisProcess", "Blocked"} \cup DeadReasons

LockOwner == [host : Hosts \cup {NoHost}, boot : Nat, pid : Pids, ticks : Nat]

\* Where a session is: between two calls, or between two steps of one call.
Running == {"idle", "acquire", "place", "check", "overwrite", "placed", "verify",
            "exists", "lost", "dialog", "takeover", "writing", "reading", "removing"}
PC == Running \cup {"off", "ended"}

ASSUME FileAssumption ==
  /\ NoFile # Opaque
  /\ {NoFile, Opaque} \cap LockOwner = {}

VARIABLES
  lock,    \* what vault.lock holds: NoFile, Opaque or a LockOwner
  pc,      \* pc[s]: where session s is
  proc,    \* proc[s]: boot, pid and start ticks of the process of s
  read,    \* read[s]: the lock file as the call s is in has read it
  status,  \* status[s]: the LockStatus the last Contended carried, or "None";
           \*            in take_over, the DeadReason the user confirmed
  boot,    \* boot[h]: which boot machine h is in
  clock    \* process starts so far: the source of start ticks

vars == <<lock, pc, proc, read, status, boot, clock>>

Alive(s) == pc[s] \in Running

\* Mutant of Identity: the pid is left at zero.
IdentityWithoutPid(s) == [host |-> Home[s], boot |-> proc[s].boot, pid |-> 0,
                          ticks |-> proc[s].ticks]

\* LockOwner::for_this_process: empty strings and 0 where /proc is unreadable.
Identity(s) ==
  IF Home[s] \in Legible
    THEN [host |-> Home[s], boot |-> proc[s].boot, pid |-> proc[s].pid,
          ticks |-> proc[s].ticks]
    ELSE [host |-> NoHost, boot |-> 0, pid |-> proc[s].pid, ticks |-> 0]

\* The comparison classify and Drop share: hostname, boot id and pid, but not
\* the start ticks.
Ours(s, file) ==
  /\ file \notin {NoFile, Opaque}
  /\ Home[s] \in Legible
  /\ file.host = Home[s]
  /\ file.boot = proc[s].boot
  /\ file.pid  = proc[s].pid

\* kill(pid, 0), then /proc/<pid>/comm and its start time.  A pid that no
\* session has is gone, or (when pids are recycled) some unrelated program's.
Probe(s, owner) ==
  LET at == {t \in Sessions : Alive(t) /\ Home[t] = Home[s] /\ proc[t].pid = owner.pid}
  IN  {r \in {"Blocked"} :
         ~SameUser \/ \E t \in at : proc[t].ticks = owner.ticks}
      \cup {r \in {"ProcessGone"} : at = {}}
      \cup {r \in {"PidReused"} :
              \/ \E t \in at : proc[t].ticks # owner.ticks
              \/ at = {} /\ Recycle}

\* Mutant of LivenessVerdict: the hostname is not compared.
VerdictOfAnyHost(s, owner) ==
  IF Home[s] \notin Legible THEN {"Blocked"}
  ELSE IF owner.boot # proc[s].boot THEN {"DifferentBoot"}
  ELSE Probe(s, owner)

\* liveness_verdict: only this machine's processes can be proven dead.
LivenessVerdict(s, owner) ==
  IF Home[s] \notin Legible \/ owner.host # Home[s] THEN {"Blocked"}
  ELSE IF owner.boot # proc[s].boot THEN {"DifferentBoot"}
  ELSE Probe(s, owner)

\* Mutant of Classify: a file of this process is judged like any other.
ClassifyNeverOurs(s, file) ==
  CASE file = NoFile -> {"Free"}
    [] file = Opaque -> {"Blocked"}
    [] OTHER         -> LivenessVerdict(s, file)

\* classify: what session s may conclude of the lock file it has read.
Classify(s, file) ==
  CASE file = NoFile -> {"Free"}
    [] file = Opaque -> {"Blocked"}
    [] Ours(s, file) -> {"HeldByThisProcess"}
    [] OTHER         -> LivenessVerdict(s, file)

Init ==
  /\ lock \in {NoFile, Opaque}
  /\ pc = [s \in Sessions |-> "off"]
  /\ proc = [s \in Sessions |-> [boot |-> 0, pid |-> CHOOSE p \in Pids : TRUE, ticks |-> 0]]
  /\ read = [s \in Sessions |-> NoFile]
  /\ status = [s \in Sessions |-> "None"]
  /\ boot = [h \in Hosts |-> 1]
  /\ clock = 0

Goto(s, where) == pc' = [pc EXCEPT ![s] = where]
Note(s, st)    == status' = [status EXCEPT ![s] = st]
ReadLock(s)    == read' = [read EXCEPT ![s] = lock]
Forget(s)      == read' = [read EXCEPT ![s] = NoFile]  \* classify returns

-----------------------------------------------------------------------------
(* Processes *)

\* A process id is free when no live process has it; unless pids are recycled
\* it has not been used in this boot either.
FreePid(h, p) ==
  \A t \in Sessions :
    Home[t] = h /\ proc[t].boot = boot[h] /\ proc[t].pid = p
      => Recycle /\ ~Alive(t)

Start(s) ==
  /\ pc[s] = "off"
  /\ clock' = clock + 1
  /\ \E p \in Pids :
       /\ FreePid(Home[s], p)
       /\ proc' = [proc EXCEPT ![s] =
                     [boot |-> boot[Home[s]], pid |-> p, ticks |-> clock + 1]]
  /\ Goto(s, "idle")
  /\ UNCHANGED <<lock, read, status, boot>>

\* A crash, or an exit without a lock to drop.
End(s) ==
  /\ Alive(s)
  /\ Goto(s, "ended")
  /\ Forget(s)
  /\ Note(s, "None")
  /\ UNCHANGED <<lock, proc, boot, clock>>

Reboot(h) ==
  /\ boot[h] < MaxBoot
  /\ boot' = [boot EXCEPT ![h] = @ + 1]
  /\ LET down == {s \in Sessions : Home[s] = h /\ Alive(s)} IN
       /\ pc' = [s \in Sessions |-> IF s \in down THEN "ended" ELSE pc[s]]
       /\ read' = [s \in Sessions |-> IF s \in down THEN NoFile ELSE read[s]]
       /\ status' = [s \in Sessions |-> IF s \in down THEN "None" ELSE status[s]]
  /\ UNCHANGED <<lock, proc, clock>>

-----------------------------------------------------------------------------
(* What the caller does with Contended(st): finish_opening_vault and the    *)
(* contention dialog after acquire; an error report after take_over.        *)

Contended(s, st) ==
  IF status[s] \in DeadReasons
    THEN Goto(s, "idle") /\ Note(s, "None")
    ELSE /\ Goto(s, IF st \in {"Free", "HeldByThisProcess"} THEN "reading" ELSE "dialog")
         /\ Note(s, st)

-----------------------------------------------------------------------------
(* VaultLock::acquire *)

Acquire(s) ==
  /\ pc[s] = "idle"
  /\ ReadLock(s)
  /\ Goto(s, "acquire")
  /\ UNCHANGED <<lock, proc, status, boot, clock>>

\* Mutant of AcquireClassified: a proven-dead lock is reclaimed without review.
AcquireReclaims(s) ==
  /\ pc[s] = "acquire"
  /\ \E st \in Classify(s, read[s]) :
       \/ st = "HeldByThisProcess" /\ Goto(s, "writing") /\ UNCHANGED status
       \/ st = "Free" /\ Goto(s, "place") /\ UNCHANGED status
       \/ st \in DeadReasons /\ Goto(s, "overwrite") /\ UNCHANGED status
       \/ st = "Blocked" /\ Contended(s, st)
  /\ Forget(s)
  /\ UNCHANGED <<lock, proc, boot, clock>>

AcquireClassified(s) ==
  /\ pc[s] = "acquire"
  /\ \E st \in Classify(s, read[s]) :
       \/ st = "HeldByThisProcess" /\ Goto(s, "writing") /\ UNCHANGED status
       \/ st = "Free" /\ Goto(s, "place") /\ UNCHANGED status
       \/ st \in {"Blocked"} \cup DeadReasons /\ Contended(s, st)
  /\ Forget(s)
  /\ UNCHANGED <<lock, proc, boot, clock>>

-----------------------------------------------------------------------------
(* VaultLock::take_over *)

TakeOver(s) ==
  /\ pc[s] = "dialog"
  /\ status[s] \in DeadReasons
  /\ TakeOvers
  /\ ReadLock(s)
  /\ Goto(s, "takeover")
  /\ UNCHANGED <<lock, proc, status, boot, clock>>

TakeOverClassified(s) ==
  /\ pc[s] = "takeover"
  /\ \E st \in Classify(s, read[s]) :
       \/ st = "Free" /\ Goto(s, "place") /\ UNCHANGED status
       \/ st = status[s] /\ Goto(s, "overwrite") /\ UNCHANGED status
       \/ st \notin {"Free", status[s]} /\ Contended(s, st)
  /\ Forget(s)
  /\ UNCHANGED <<lock, proc, boot, clock>>

-----------------------------------------------------------------------------
(* VaultLock::write_and_verify *)

\* The temporary file cannot be written, or the rename fails: Err, reported.
WriteFails(s) ==
  /\ pc[s] \in {"place", "overwrite"}
  /\ Goto(s, "idle")
  /\ Note(s, "None")
  /\ UNCHANGED <<lock, proc, read, boot, clock>>

\* Mutant of Place: a plain rename, whether or not another process placed its file.
PlaceReplacing(s) ==
  /\ pc[s] = "place"
  /\ lock' = Identity(s)
  /\ Goto(s, "placed")
  /\ UNCHANGED <<proc, read, status, boot, clock>>

\* rename_no_replace, atomically when the filesystem can, and otherwise as an
\* existence check followed by a plain rename.
Place(s) ==
  /\ pc[s] = "place"
  /\ \/ /\ lock # NoFile
        /\ Goto(s, "exists")
        /\ UNCHANGED lock
     \/ /\ lock = NoFile /\ NoReplace
        /\ lock' = Identity(s)
        /\ Goto(s, "placed")
     \/ /\ lock = NoFile /\ ~NoReplace
        /\ Goto(s, "check")
        /\ UNCHANGED lock
  /\ UNCHANGED <<proc, read, status, boot, clock>>

\* The plain rename: of the fallback, or of a confirmed takeover.
Rename(s) ==
  /\ pc[s] \in {"check", "overwrite"}
  /\ lock' = Identity(s)
  /\ Goto(s, "placed")
  /\ UNCHANGED <<proc, read, status, boot, clock>>

\* After AlreadyExists, and after a successful rename, the file is read again.
ReadBack(s) ==
  /\ \/ pc[s] = "exists" /\ Goto(s, "lost")
     \/ pc[s] = "placed" /\ Goto(s, "verify")
  /\ ReadLock(s)
  /\ UNCHANGED <<lock, proc, status, boot, clock>>

Lost(s) ==
  /\ pc[s] = "lost"
  /\ \E st \in Classify(s, read[s]) : Contended(s, st)
  /\ Forget(s)
  /\ UNCHANGED <<lock, proc, boot, clock>>

Verify(s) ==
  /\ pc[s] = "verify"
  /\ \E st \in Classify(s, read[s]) :
       IF st = "HeldByThisProcess"
         THEN Goto(s, "writing") /\ Note(s, "None")
         ELSE Contended(s, st)
  /\ Forget(s)
  /\ UNCHANGED <<lock, proc, boot, clock>>

-----------------------------------------------------------------------------
(* The contention dialog, and leaving the vault *)

Cancel(s) ==
  /\ pc[s] \in {"dialog", "reading"}
  /\ Goto(s, "idle")
  /\ Note(s, "None")
  /\ UNCHANGED <<lock, proc, read, boot, clock>>

OpenReadOnly(s) ==
  /\ pc[s] = "dialog"
  /\ Goto(s, "reading")
  /\ UNCHANGED <<lock, proc, read, status, boot, clock>>

\* Drop, first half: the file is read and compared with our identity.
Release(s) ==
  /\ pc[s] = "writing"
  /\ Goto(s, IF Ours(s, lock) THEN "removing" ELSE "idle")
  /\ UNCHANGED <<lock, proc, read, status, boot, clock>>

\* Drop, second half: remove_file, whatever the file is by now; its failure is
\* ignored.
Remove(s) ==
  /\ pc[s] = "removing"
  /\ \/ lock' = NoFile
     \/ UNCHANGED lock
  /\ Goto(s, "idle")
  /\ UNCHANGED <<proc, read, status, boot, clock>>

-----------------------------------------------------------------------------
Step(s) ==
  \/ Start(s) \/ End(s)
  \/ Acquire(s) \/ AcquireClassified(s)
  \/ TakeOver(s) \/ TakeOverClassified(s)
  \/ WriteFails(s) \/ Place(s) \/ Rename(s)
  \/ ReadBack(s) \/ Lost(s) \/ Verify(s)
  \/ Cancel(s) \/ OpenReadOnly(s)
  \/ Release(s) \/ Remove(s)

Next ==
  \/ \E s \in Sessions : Step(s)
  \/ \E h \in Hosts : Reboot(h)

Spec == Init /\ [][Next]_vars

-----------------------------------------------------------------------------
(* Properties *)

\* Every variable keeps its type (the shape of vault.lock and of the sessions).
TypeOK ==
  /\ lock \in {NoFile, Opaque} \cup LockOwner
  /\ pc \in [Sessions -> PC]
  /\ proc \in [Sessions -> [boot : Nat, pid : Pids, ticks : Nat]]
  /\ read \in [Sessions -> {NoFile, Opaque} \cup LockOwner]
  /\ status \in [Sessions -> {"None"} \cup LockStatus]
  /\ boot \in [Hosts -> Nat \ {0}]
  /\ clock \in Nat

\* "Only one writable SenatorialNotes session may own a given vault at a time"
\* (vault_lock.rs): no interleaving of acquire, take_over, Drop, crashes and
\* restarts leaves two sessions that both believe they own the vault.
OneWriter ==
  \A s, t \in Sessions : pc[s] = "writing" /\ pc[t] = "writing" => s = t

\* "never delete a lock that was taken over from under us, and never anyone
\* else's" (vault_lock.rs, Drop): when a Drop removes the file, what it removes
\* still names the process that drops it.
RemovesOnlyOwn ==
  [][lock # NoFile /\ lock' = NoFile
       => \E s \in Sessions : pc[s] = "removing" /\ Ours(s, lock)]_vars

\* A session that was told the vault is contended, or reads it without the lock,
\* has left no lock file naming itself: such a file would show a live owner to
\* everyone, and nobody could write the vault or take it over.
NoStrandedLock ==
  \A s \in Sessions : pc[s] \in {"dialog", "reading"} => lock # Identity(s)

\* The core safety rule (vault_lock.rs): while a writable owner's file is on
\* disk, no other session can conclude that the owner is dead.
LiveOwnerNeverProvenDead ==
  \A s, t \in Sessions :
    s # t /\ Alive(s) /\ pc[t] = "writing" /\ Ours(t, lock)
      => Classify(s, lock) \cap DeadReasons = {}

-----------------------------------------------------------------------------
(* What the lock implements *)

ASSUME NoWriterAssumption == "nobody" \notin Sessions

NoWriter == "nobody"

\* The session that writes the vault.
Writer == IF \E s \in Sessions : pc[s] = "writing"
            THEN CHOOSE s \in Sessions : pc[s] = "writing"
            ELSE NoWriter

SW == INSTANCE SingleWriter WITH writer <- Writer

\* The sessions that write the vault behave as SingleWriter allows: ownership
\* never passes directly from one session to another.
ImplementsSingleWriter == SW!Spec
=============================================================================
