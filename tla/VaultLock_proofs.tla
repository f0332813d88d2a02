-------------------------- MODULE VaultLock_proofs --------------------------
(***************************************************************************)
(* Theorems about the vault lock, for any number of sessions and machines. *)
(***************************************************************************)
EXTENDS VaultLock, TLAPS

USE DEF Goto, Note, ReadLock, Forget

-----------------------------------------------------------------------------
(* Types *)

\* What LockOwner::for_this_process builds is a LockOwner.
LEMMA IdentityType ==
  ASSUME TypeOK, NEW s \in Sessions
  PROVE  Identity(s) \in LockOwner
BY LockAssumption DEF TypeOK, Identity, LockOwner

\* What classify returns is a LockStatus.
LEMMA ClassifyType ==
  ASSUME NEW s \in Sessions, NEW file
  PROVE  Classify(s, file) \subseteq LockStatus
BY DEF Classify, LivenessVerdict, Probe, LockStatus, DeadReasons

\* The handling of a Contended result keeps pc and status well typed.
LEMMA ContendedType ==
  ASSUME TypeOK, NEW s \in Sessions, NEW st \in LockStatus, Contended(s, st)
  PROVE  pc' \in [Sessions -> PC] /\ status' \in [Sessions -> {"None"} \cup LockStatus]
BY DEF Contended, TypeOK, PC, Running, LockStatus

\* Every step keeps the types of vault.lock and of the sessions.
LEMMA TypeStep == TypeOK /\ [Next]_vars => TypeOK'
<1> SUFFICES ASSUME TypeOK, [Next]_vars PROVE TypeOK'
  OBVIOUS
<1> USE DEF TypeOK
<1>1. ASSUME NEW s \in Sessions, Start(s) PROVE TypeOK'
  <2>1. boot[Home[s]] \in Nat /\ clock' \in Nat
    <3>1. Home[s] \in Hosts
      BY LockAssumption
    <3>2. clock' = clock + 1
      BY <1>1 DEF Start
    <3> QED BY <3>1, <3>2
  <2>2. PICK p \in Pids :
          proc' = [proc EXCEPT ![s] =
                     [boot |-> boot[Home[s]], pid |-> p, ticks |-> clock + 1]]
    BY <1>1 DEF Start
  <2>3. proc' \in [Sessions -> [boot : Nat, pid : Pids, ticks : Nat]]
    BY <2>1, <2>2
  <2>4. pc' \in [Sessions -> PC]
    BY <1>1 DEF Start, PC, Running
  <2> QED BY <1>1, <2>1, <2>3, <2>4 DEF Start
<1>2. ASSUME NEW s \in Sessions, End(s) PROVE TypeOK'
  BY <1>2 DEF End, PC
<1>3. ASSUME NEW s \in Sessions, Acquire(s) PROVE TypeOK'
  BY <1>3 DEF Acquire, PC, Running
<1>4. ASSUME NEW s \in Sessions, AcquireClassified(s) PROVE TypeOK'
  <2>1. PICK st \in Classify(s, read[s]) :
          \/ st = "HeldByThisProcess" /\ Goto(s, "writing") /\ UNCHANGED status
          \/ st = "Free" /\ Goto(s, "place") /\ UNCHANGED status
          \/ st \in {"Blocked"} \cup DeadReasons /\ Contended(s, st)
    BY <1>4 DEF AcquireClassified
  <2>2. pc' \in [Sessions -> PC] /\ status' \in [Sessions -> {"None"} \cup LockStatus]
    BY <2>1, ClassifyType, ContendedType DEF PC, Running
  <2> QED BY <1>4, <2>2 DEF AcquireClassified
<1>5. ASSUME NEW s \in Sessions, TakeOver(s) PROVE TypeOK'
  BY <1>5 DEF TakeOver, PC, Running
<1>6. ASSUME NEW s \in Sessions, TakeOverClassified(s) PROVE TypeOK'
  <2>1. PICK st \in Classify(s, read[s]) :
          \/ st = "Free" /\ Goto(s, "place") /\ UNCHANGED status
          \/ st = status[s] /\ Goto(s, "overwrite") /\ UNCHANGED status
          \/ st \notin {"Free", status[s]} /\ Contended(s, st)
    BY <1>6 DEF TakeOverClassified
  <2>2. pc' \in [Sessions -> PC] /\ status' \in [Sessions -> {"None"} \cup LockStatus]
    BY <2>1, ClassifyType, ContendedType DEF PC, Running
  <2> QED BY <1>6, <2>2 DEF TakeOverClassified
<1>7. ASSUME NEW s \in Sessions, WriteFails(s) PROVE TypeOK'
  BY <1>7 DEF WriteFails, PC, Running
<1>8. ASSUME NEW s \in Sessions, Place(s) PROVE TypeOK'
  BY <1>8, IdentityType DEF Place, PC, Running
<1>9. ASSUME NEW s \in Sessions, Rename(s) PROVE TypeOK'
  BY <1>9, IdentityType DEF Rename, PC, Running
<1>10. ASSUME NEW s \in Sessions, ReadBack(s) PROVE TypeOK'
  BY <1>10 DEF ReadBack, PC, Running
<1>11. ASSUME NEW s \in Sessions, Lost(s) PROVE TypeOK'
  <2>1. pc' \in [Sessions -> PC] /\ status' \in [Sessions -> {"None"} \cup LockStatus]
    BY <1>11, ClassifyType, ContendedType DEF Lost
  <2> QED BY <1>11, <2>1 DEF Lost
<1>12. ASSUME NEW s \in Sessions, Verify(s) PROVE TypeOK'
  <2>1. pc' \in [Sessions -> PC] /\ status' \in [Sessions -> {"None"} \cup LockStatus]
    BY <1>12, ClassifyType, ContendedType DEF Verify, PC, Running
  <2> QED BY <1>12, <2>1 DEF Verify
<1>13. ASSUME NEW s \in Sessions, Cancel(s) PROVE TypeOK'
  BY <1>13 DEF Cancel, PC, Running
<1>14. ASSUME NEW s \in Sessions, OpenReadOnly(s) PROVE TypeOK'
  BY <1>14 DEF OpenReadOnly, PC, Running
<1>15. ASSUME NEW s \in Sessions, Release(s) PROVE TypeOK'
  BY <1>15 DEF Release, PC, Running
<1>16. ASSUME NEW s \in Sessions, Remove(s) PROVE TypeOK'
  BY <1>16 DEF Remove, PC, Running
<1>17. ASSUME NEW h \in Hosts, Reboot(h) PROVE TypeOK'
  BY <1>17 DEF Reboot, PC
<1>18. CASE UNCHANGED vars
  BY <1>18 DEF vars
<1> QED
  BY <1>1, <1>2, <1>3, <1>4, <1>5, <1>6, <1>7, <1>8, <1>9, <1>10, <1>11, <1>12,
     <1>13, <1>14, <1>15, <1>16, <1>17, <1>18 DEF Next, Step

\* vault.lock, the sessions' program counters and what they have read always
\* have their types, for any sessions, machines and filesystem.
THEOREM TypeCorrect == Spec => []TypeOK
<1>1. Init => TypeOK
  BY LockAssumption DEF Init, TypeOK, PC
<1> QED BY <1>1, TypeStep, PTL DEF Spec

-----------------------------------------------------------------------------
(* What a step of one session does to the rest of the system *)

\* Every step of session s but its start leaves the processes as they are, and
\* the other sessions where they are.
OwnStep(s) ==
  /\ Alive(s) /\ pc'[s] # "off"
  /\ UNCHANGED <<proc, boot, clock>>
  /\ \A t \in Sessions : t # s => pc'[t] = pc[t] /\ read'[t] = read[t]

\* How a step of session s may change vault.lock, and what puts s in the states
\* the invariants speak of.
Effect(s) ==
  /\ \/ lock' = lock /\ pc'[s] # "placed"
     \/ /\ lock' = Identity(s) /\ pc'[s] = "placed"
        /\ \/ pc[s] \in {"check", "overwrite"}
           \/ pc[s] = "place" /\ lock = NoFile
     \/ lock' = NoFile /\ pc[s] = "removing" /\ pc'[s] = "idle"
  /\ pc'[s] = "writing" => pc[s] \in {"acquire", "verify"} /\ Ours(s, read[s])
  /\ pc'[s] = "removing" => pc[s] = "writing" /\ Ours(s, lock) /\ lock' = lock
  /\ pc'[s] \in {"acquire", "verify"} => read'[s] = lock /\ lock' = lock
  /\ pc'[s] = "verify" => pc[s] = "placed"
  /\ pc'[s] = "check" => ~NoReplace
  /\ pc'[s] = "takeover" => TakeOvers
  /\ pc'[s] = "overwrite" => pc[s] = "takeover"
  /\ pc[s] = "placed" => pc'[s] \in {"verify", "ended"}
  /\ pc[s] = "writing" => pc'[s] \in {"removing", "ended"} \/ ~Ours(s, lock)
  /\ pc[s] \in {"acquire", "verify"} => pc'[s] \in {"writing", "ended"} \/ ~Ours(s, read[s])
  /\ pc[s] \in {"idle", "placed", "writing", "removing"}
       => pc'[s] \in {"idle", "acquire", "verify", "removing", "ended"}

\* classify answers HeldByThisProcess exactly for a file that is ours.
LEMMA ClassifyOurs ==
  ASSUME NEW s \in Sessions, NEW file
  PROVE  "HeldByThisProcess" \in Classify(s, file) <=> Ours(s, file)
BY DEF Classify, Ours, LivenessVerdict, Probe

\* A file that is ours is classified as nothing else.
LEMMA OursClassified ==
  ASSUME NEW s \in Sessions, NEW file, Ours(s, file)
  PROVE  Classify(s, file) = {"HeldByThisProcess"}
BY DEF Classify, Ours

\* Where Contended sends a session.
LEMMA ContendedEffect ==
  ASSUME TypeOK, NEW s \in Sessions, NEW st, Contended(s, st)
  PROVE  /\ pc'[s] \in {"idle", "reading", "dialog"}
         /\ \A t \in Sessions : t # s => pc'[t] = pc[t]
BY DEF Contended, TypeOK

\* Each step of a running session has an Effect.
LEMMA StepEffect ==
  ASSUME TypeOK, NEW s \in Sessions, Step(s), ~Start(s)
  PROVE  OwnStep(s) /\ Effect(s)
<1> USE DEF TypeOK, OwnStep, Effect, Alive, Running
<1>1. CASE End(s)
  BY <1>1 DEF End
<1>2. CASE Acquire(s)
  BY <1>2 DEF Acquire
<1>3. CASE AcquireClassified(s)
  <2>1. PICK st \in Classify(s, read[s]) :
          \/ st = "HeldByThisProcess" /\ Goto(s, "writing") /\ UNCHANGED status
          \/ st = "Free" /\ Goto(s, "place") /\ UNCHANGED status
          \/ st \in {"Blocked"} \cup DeadReasons /\ Contended(s, st)
    BY <1>3 DEF AcquireClassified
  <2>2. pc'[s] = "writing" <=> Ours(s, read[s])
    <3>1. CASE Ours(s, read[s])
      BY <2>1, <3>1, OursClassified DEF DeadReasons
    <3>2. CASE ~Ours(s, read[s])
      BY <2>1, <3>2, ClassifyOurs, ContendedEffect
    <3> QED BY <3>1, <3>2
  <2>3. /\ pc'[s] \in {"writing", "place", "idle", "reading", "dialog"}
        /\ \A t \in Sessions : t # s => pc'[t] = pc[t]
    BY <2>1, ContendedEffect
  <2> QED BY <1>3, <2>2, <2>3 DEF AcquireClassified
<1>4. CASE TakeOver(s)
  BY <1>4 DEF TakeOver
<1>5. CASE TakeOverClassified(s)
  <2>1. /\ pc'[s] \in {"place", "overwrite", "idle", "reading", "dialog"}
        /\ \A t \in Sessions : t # s => pc'[t] = pc[t]
    BY <1>5, ContendedEffect DEF TakeOverClassified
  <2> QED BY <1>5, <2>1 DEF TakeOverClassified
<1>6. CASE WriteFails(s)
  BY <1>6 DEF WriteFails
<1>7. CASE Place(s)
  <2>1. CASE lock # NoFile /\ Goto(s, "exists") /\ UNCHANGED lock
    BY <1>7, <2>1 DEF Place
  <2>2. CASE lock = NoFile /\ NoReplace /\ lock' = Identity(s) /\ Goto(s, "placed")
    BY <1>7, <2>2 DEF Place
  <2>3. CASE lock = NoFile /\ ~NoReplace /\ Goto(s, "check") /\ UNCHANGED lock
    BY <1>7, <2>3 DEF Place
  <2> QED BY <1>7, <2>1, <2>2, <2>3 DEF Place
<1>8. CASE Rename(s)
  BY <1>8 DEF Rename
<1>9. CASE ReadBack(s)
  BY <1>9 DEF ReadBack
<1>10. CASE Lost(s)
  <2>1. /\ pc'[s] \in {"idle", "reading", "dialog"}
        /\ \A t \in Sessions : t # s => pc'[t] = pc[t]
    BY <1>10, ContendedEffect DEF Lost
  <2> QED BY <1>10, <2>1 DEF Lost
<1>11. CASE Verify(s)
  <2>1. PICK st \in Classify(s, read[s]) :
          IF st = "HeldByThisProcess"
            THEN Goto(s, "writing") /\ Note(s, "None")
            ELSE Contended(s, st)
    BY <1>11 DEF Verify
  <2>2. /\ pc'[s] \in {"writing", "idle", "reading", "dialog"}
        /\ \A t \in Sessions : t # s => pc'[t] = pc[t]
    BY <2>1, ContendedEffect
  <2>3. pc'[s] = "writing" <=> Ours(s, read[s])
    <3>1. CASE Ours(s, read[s])
      BY <2>1, <3>1, OursClassified
    <3>2. CASE ~Ours(s, read[s])
      BY <2>1, <3>2, ClassifyOurs, ContendedEffect
    <3> QED BY <3>1, <3>2
  <2> QED BY <1>11, <2>2, <2>3 DEF Verify
<1>12. CASE Cancel(s)
  BY <1>12 DEF Cancel
<1>13. CASE OpenReadOnly(s)
  BY <1>13 DEF OpenReadOnly
<1>14. CASE Release(s)
  BY <1>14 DEF Release
<1>15. CASE Remove(s)
  BY <1>15 DEF Remove
<1> QED
  BY <1>1, <1>2, <1>3, <1>4, <1>5, <1>6, <1>7, <1>8, <1>9, <1>10, <1>11, <1>12,
     <1>13, <1>14, <1>15 DEF Step

-----------------------------------------------------------------------------
(* Processes: live ones on one machine have different pids and its present *)
(* boot id; start ticks grow.                                               *)

CurrentBoot ==
  \A s \in Sessions : /\ proc[s].boot <= boot[Home[s]]
                      /\ Alive(s) => proc[s].boot = boot[Home[s]]

DistinctPids ==
  \A s, t \in Sessions :
    s # t /\ Alive(s) /\ Alive(t) /\ Home[s] = Home[t] => proc[s].pid # proc[t].pid

GrowingTicks ==
  /\ \A s \in Sessions : proc[s].ticks <= clock
  /\ \A s \in Sessions : pc[s] = "off" <=> proc[s].ticks = 0
  /\ \A s, t \in Sessions :
       s # t /\ proc[s].ticks = proc[t].ticks => proc[s].ticks = 0

ProcInv == CurrentBoot /\ DistinctPids /\ GrowingTicks

\* Every step keeps the facts about processes.
LEMMA ProcInvStep == TypeOK /\ ProcInv /\ [Next]_vars => ProcInv'
<1> SUFFICES ASSUME TypeOK, ProcInv, [Next]_vars PROVE ProcInv'
  OBVIOUS
<1>1. ASSUME NEW s \in Sessions, Start(s) PROVE ProcInv'
  <2>1. PICK p \in Pids :
          /\ FreePid(Home[s], p)
          /\ proc' = [proc EXCEPT ![s] =
                        [boot |-> boot[Home[s]], pid |-> p, ticks |-> clock + 1]]
    BY <1>1 DEF Start
  <2>2. /\ pc[s] = "off" /\ pc' = [pc EXCEPT ![s] = "idle"]
        /\ clock' = clock + 1 /\ boot' = boot
    BY <1>1 DEF Start
  <2>3. /\ \A t \in Sessions : t # s => pc'[t] = pc[t] /\ proc'[t] = proc[t]
        /\ pc'[s] = "idle"
        /\ proc'[s] = [boot |-> boot[Home[s]], pid |-> p, ticks |-> clock + 1]
    BY <2>1, <2>2 DEF TypeOK
  <2>4. \A t \in Sessions : Home[t] \in Hosts
    BY LockAssumption
  <2>5. \A t \in Sessions : t # s /\ Alive(t) /\ Home[t] = Home[s] => proc[t].pid # p
    BY <2>1 DEF FreePid, ProcInv, CurrentBoot
  <2>6. \A t \in Sessions : t # s => (Alive(t)' <=> Alive(t))
    BY <2>3 DEF Alive
  <2>7. CurrentBoot'
    BY <2>2, <2>3, <2>4, <2>6 DEF ProcInv, CurrentBoot, TypeOK
  <2>8. DistinctPids'
    BY <2>3, <2>5, <2>6 DEF ProcInv, DistinctPids
  <2>9. GrowingTicks'
    <3>1. \A t \in Sessions : proc[t].ticks \in Nat /\ proc[t].ticks <= clock
      BY DEF ProcInv, GrowingTicks, TypeOK
    <3>2. proc'[s].ticks = clock + 1 /\ clock \in Nat /\ clock' = clock + 1
      BY <2>2, <2>3 DEF TypeOK
    <3>3. \A t \in Sessions : t # s => proc'[t].ticks = proc[t].ticks
      BY <2>3
    <3>4. \A t \in Sessions : proc'[t].ticks <= clock'
      BY <3>1, <3>2, <3>3
    <3>5. \A t \in Sessions : pc'[t] = "off" <=> proc'[t].ticks = 0
      BY <2>3, <3>2, <3>3 DEF ProcInv, GrowingTicks
    <3>6. \A t, u \in Sessions :
            t # u /\ proc'[t].ticks = proc'[u].ticks => proc'[t].ticks = 0
      BY <3>1, <3>2, <3>3 DEF ProcInv, GrowingTicks
    <3> QED BY <3>4, <3>5, <3>6 DEF GrowingTicks
  <2> QED BY <2>7, <2>8, <2>9 DEF ProcInv
<1>2. ASSUME NEW s \in Sessions, Step(s), ~Start(s) PROVE ProcInv'
  <2>1. OwnStep(s)
    BY <1>2, StepEffect
  <2> QED BY <2>1 DEF OwnStep, ProcInv, CurrentBoot, DistinctPids, GrowingTicks,
                  Alive, TypeOK, Running
<1>3. ASSUME NEW h \in Hosts, Reboot(h) PROVE ProcInv'
  <2>1. /\ boot' = [boot EXCEPT ![h] = @ + 1] /\ UNCHANGED <<proc, clock>>
        /\ \A s \in Sessions :
             pc'[s] = IF Home[s] = h /\ Alive(s) THEN "ended" ELSE pc[s]
    BY <1>3 DEF Reboot
  <2>2. \A t \in Sessions : Home[t] \in Hosts
    BY LockAssumption
  <2>3. /\ \A s \in Sessions : Alive(s)' <=> Alive(s) /\ Home[s] # h
        /\ \A s \in Sessions : pc'[s] = "off" <=> pc[s] = "off"
    BY <2>1 DEF Alive, Running
  <2>4. CurrentBoot'
    <3>1. \A s \in Sessions :
            /\ boot[Home[s]] \in Nat /\ proc[s].boot \in Nat
            /\ boot'[Home[s]] = IF Home[s] = h THEN boot[Home[s]] + 1 ELSE boot[Home[s]]
      BY <2>1, <2>2 DEF TypeOK
    <3> QED BY <2>1, <2>3, <3>1 DEF ProcInv, CurrentBoot
  <2>5. DistinctPids'
    BY <2>1, <2>3 DEF ProcInv, DistinctPids
  <2>6. GrowingTicks'
    BY <2>1, <2>3 DEF ProcInv, GrowingTicks
  <2> QED BY <2>4, <2>5, <2>6 DEF ProcInv
<1>4. CASE UNCHANGED vars
  BY <1>4 DEF vars, ProcInv, CurrentBoot, DistinctPids, GrowingTicks, Alive
<1> QED BY <1>1, <1>2, <1>3, <1>4 DEF Next

\* Live processes of one machine always have different pids and the machine's
\* present boot id.
THEOREM ProcInvariant == Spec => []ProcInv
<1>1. Init => ProcInv
  BY LockAssumption DEF Init, ProcInv, CurrentBoot, DistinctPids, GrowingTicks,
                       Alive, Running
<1> QED BY <1>1, ProcInvStep, TypeCorrect, PTL DEF Spec

-----------------------------------------------------------------------------
(* One writer, where renames do not replace and nobody takes over           *)

OnlyAtomicPlaces == \A s \in Sessions : pc[s] \notin {"check", "takeover", "overwrite"}

OwnersOnDisk ==
  \A s \in Sessions : pc[s] \in {"writing", "removing"} => Ours(s, lock)

\* A file that was ours when read is still there: nobody else removes it.
ReadsStand ==
  \A s \in Sessions : pc[s] \in {"acquire", "verify"} /\ Ours(s, read[s]) => Ours(s, lock)

ExclusiveInv == OnlyAtomicPlaces /\ OwnersOnDisk /\ ReadsStand

\* Two live processes do not both recognise one lock file as theirs.
LEMMA OneOwnerPerFile ==
  ASSUME ProcInv, NEW s \in Sessions, NEW t \in Sessions,
         Alive(s), Alive(t), Ours(s, lock), Ours(t, lock)
  PROVE  s = t
BY DEF ProcInv, DistinctPids, Ours

\* Every step keeps the lock exclusive.
LEMMA ExclusiveStep ==
  ASSUME NoReplace, ~TakeOvers, TypeOK, ProcInv, ExclusiveInv, [Next]_vars
  PROVE  ExclusiveInv'
<1>1. ASSUME NEW s \in Sessions, Start(s) PROVE ExclusiveInv'
  <2>1. /\ pc[s] = "off" /\ pc' = [pc EXCEPT ![s] = "idle"] /\ UNCHANGED <<lock, read>>
        /\ \A t \in Sessions : t # s => proc'[t] = proc[t]
    BY <1>1 DEF Start, TypeOK
  <2> QED
    BY <2>1 DEF ExclusiveInv, OnlyAtomicPlaces, OwnersOnDisk, ReadsStand, Ours, TypeOK
<1>2. ASSUME NEW s \in Sessions, Step(s), ~Start(s) PROVE ExclusiveInv'
  <2>1. OwnStep(s) /\ Effect(s)
    BY <1>2, StepEffect
  <2>2. \A t \in Sessions : \A f : Ours(t, f)' <=> Ours(t, f')
    BY <2>1 DEF OwnStep, Ours
  <2>3. OnlyAtomicPlaces'
    BY <2>1 DEF OwnStep, Effect, ExclusiveInv, OnlyAtomicPlaces
  <2>4. ASSUME NEW t \in Sessions, t # s, Alive(t), Ours(t, lock)
        PROVE  lock' = lock
    <3>1. lock # NoFile
      BY <2>4 DEF Ours
    <3>2. pc[s] # "removing"
      BY <2>4, <2>1, OneOwnerPerFile DEF OwnStep, ExclusiveInv, OwnersOnDisk
    <3> QED BY <2>1, <3>1, <3>2 DEF Effect, ExclusiveInv, OnlyAtomicPlaces
  <2>5. OwnersOnDisk'
    <3> SUFFICES ASSUME NEW t \in Sessions, pc'[t] \in {"writing", "removing"}
                 PROVE  Ours(t, lock')
      BY <2>2 DEF OwnersOnDisk
    <3>1. CASE t = s
      <4>1. Ours(s, lock)
        BY <2>1, <3>1 DEF Effect, ExclusiveInv, ReadsStand
      <4>2. lock' = lock
        BY <2>1, <3>1 DEF Effect
      <4> QED BY <3>1, <4>1, <4>2
    <3>2. CASE t # s
      <4>1. pc[t] \in {"writing", "removing"} /\ Ours(t, lock)
        BY <2>1, <3>2 DEF OwnStep, ExclusiveInv, OwnersOnDisk
      <4> QED BY <2>4, <3>2, <4>1 DEF Alive, Running
    <3> QED BY <3>1, <3>2
  <2>6. ReadsStand'
    <3> SUFFICES ASSUME NEW t \in Sessions, pc'[t] \in {"acquire", "verify"},
                        Ours(t, read'[t])
                 PROVE  Ours(t, lock')
      BY <2>1, <2>2 DEF ReadsStand, OwnStep, Ours
    <3>1. CASE t = s
      BY <2>1, <3>1 DEF Effect
    <3>2. CASE t # s
      <4>1. pc[t] \in {"acquire", "verify"} /\ Ours(t, lock)
        BY <2>1, <3>2 DEF OwnStep, ExclusiveInv, ReadsStand
      <4> QED BY <2>4, <3>2, <4>1 DEF Alive, Running
    <3> QED BY <3>1, <3>2
  <2> QED BY <2>3, <2>5, <2>6 DEF ExclusiveInv
<1>3. ASSUME NEW h \in Hosts, Reboot(h) PROVE ExclusiveInv'
  <2>1. /\ UNCHANGED <<lock, proc>>
        /\ \A s \in Sessions :
             \/ pc'[s] = "ended"
             \/ pc'[s] = pc[s] /\ read'[s] = read[s]
    BY <1>3 DEF Reboot
  <2> QED BY <2>1 DEF ExclusiveInv, OnlyAtomicPlaces, OwnersOnDisk, ReadsStand, Ours
<1>4. CASE UNCHANGED vars
  BY <1>4 DEF vars, ExclusiveInv, OnlyAtomicPlaces, OwnersOnDisk, ReadsStand, Ours
<1> QED BY <1>1, <1>2, <1>3, <1>4 DEF Next

\* The lock is exclusive before any session has started.
LEMMA ExclusiveInit == Init => ExclusiveInv
BY DEF Init, ExclusiveInv, OnlyAtomicPlaces, OwnersOnDisk, ReadsStand

\* The invariant's conclusion.
LEMMA ExclusiveImpliesOneWriter ==
  ASSUME ProcInv, ExclusiveInv
  PROVE  OneWriter
<1> SUFFICES ASSUME NEW s \in Sessions, NEW t \in Sessions,
                    pc[s] = "writing", pc[t] = "writing"
             PROVE  s = t
  BY DEF OneWriter
<1> QED BY OneOwnerPerFile DEF ExclusiveInv, OwnersOnDisk, Alive, Running

\* Where the filesystem supports RENAME_NOREPLACE and nobody takes a lock over,
\* a vault never has two writable sessions, whatever crashes, restarts, process
\* id reuse and machines there are.
THEOREM Exclusion == ASSUME NoReplace, ~TakeOvers PROVE Spec => []OneWriter
<1>1. TypeOK /\ ProcInv /\ ExclusiveInv /\ [Next]_vars => ExclusiveInv'
  BY ExclusiveStep
<1>2. ProcInv /\ ExclusiveInv => OneWriter
  BY ExclusiveImpliesOneWriter
<1> QED BY <1>1, <1>2, ExclusiveInit, TypeCorrect, ProcInvariant, PTL DEF Spec

\* Under the same conditions Drop removes no lock but that of its own process.
THEOREM DropIsSafe == ASSUME NoReplace, ~TakeOvers PROVE Spec => RemovesOnlyOwn
<1>1. ASSUME TypeOK, ExclusiveInv, [Next]_vars, lock # NoFile, lock' = NoFile
      PROVE  \E s \in Sessions : pc[s] = "removing" /\ Ours(s, lock)
  <2>1. PICK s \in Sessions : Step(s) /\ ~Start(s)
    BY <1>1 DEF Next, Start, Reboot, vars
  <2>2. Identity(s) # NoFile
    BY <1>1, IdentityType, FileAssumption
  <2>3. pc[s] = "removing"
    BY <1>1, <2>1, <2>2, StepEffect DEF Effect
  <2> QED BY <1>1, <2>3 DEF ExclusiveInv, OwnersOnDisk
<1>2. TypeOK /\ ExclusiveInv /\ [Next]_vars
        => [lock # NoFile /\ lock' = NoFile
              => \E s \in Sessions : pc[s] = "removing" /\ Ours(s, lock)]_vars
  BY <1>1
<1>3. TypeOK /\ ProcInv /\ ExclusiveInv /\ [Next]_vars => ExclusiveInv'
  BY ExclusiveStep
<1> QED BY <1>2, <1>3, ExclusiveInit, TypeCorrect, ProcInvariant, PTL
        DEF Spec, RemovesOnlyOwn

-----------------------------------------------------------------------------
(* The refinement of SingleWriter                                           *)

\* The abstract writer is the session that writes.
LEMMA WriterIs ==
  /\ \A s \in Sessions : OneWriter /\ pc[s] = "writing" => Writer = s
  /\ (\A s \in Sessions : pc[s] # "writing") => Writer = NoWriter
BY DEF Writer, OneWriter

\* The same, of the next state.
LEMMA WriterIsNext ==
  /\ \A s \in Sessions : OneWriter' /\ pc'[s] = "writing" => Writer' = s
  /\ (\A s \in Sessions : pc'[s] # "writing") => Writer' = NoWriter
BY DEF Writer, OneWriter

\* A step that neither makes a writer nor ends one leaves Writer as it is.
LEMMA WriterKept ==
  ASSUME OneWriter, OneWriter',
         \A s \in Sessions : pc'[s] = "writing" <=> pc[s] = "writing"
  PROVE  Writer' = Writer
<1>1. CASE \E s \in Sessions : pc[s] = "writing"
  BY <1>1, WriterIs, WriterIsNext
<1>2. CASE \A s \in Sessions : pc[s] # "writing"
  BY <1>2, WriterIs, WriterIsNext
<1> QED BY <1>1, <1>2

\* A step that changes who writes opens or closes the vault.
LEMMA WriterStep ==
  ASSUME TypeOK, OneWriter, OneWriter', [Next]_vars
  PROVE  [SW!Next]_Writer
<1> USE DEF SW!Next, SW!Open, SW!Close
<1>1. ASSUME NEW s \in Sessions, Start(s) PROVE Writer' = Writer
  <2>1. pc[s] = "off" /\ pc' = [pc EXCEPT ![s] = "idle"]
    BY <1>1 DEF Start
  <2> QED BY <2>1, WriterKept DEF TypeOK
<1>2. ASSUME NEW s \in Sessions, Step(s), ~Start(s) PROVE [SW!Next]_Writer
  <2>1. OwnStep(s) /\ Effect(s)
    BY <1>2, StepEffect
  <2>2. \A t \in Sessions : t # s => pc'[t] = pc[t]
    BY <2>1 DEF OwnStep
  <2>3. CASE pc[s] = "writing"
    <3>1. pc'[s] # "writing"
      BY <2>1, <2>3 DEF Effect
    <3>2. \A t \in Sessions : pc'[t] # "writing"
      BY <2>2, <2>3, <3>1 DEF OneWriter
    <3>3. Writer = s /\ Writer' = NoWriter
      BY <2>3, <3>2, WriterIs, WriterIsNext
    <3> QED BY <3>3, NoWriterAssumption DEF NoWriter
  <2>4. CASE pc[s] # "writing" /\ pc'[s] = "writing"
    <3>1. \A t \in Sessions : pc[t] # "writing"
      BY <2>2, <2>4 DEF OneWriter
    <3>2. Writer = NoWriter /\ Writer' = s
      BY <2>4, <3>1, WriterIs, WriterIsNext
    <3> QED BY <3>2
  <2>5. CASE pc[s] # "writing" /\ pc'[s] # "writing"
    BY <2>2, <2>5, WriterKept
  <2> QED BY <2>3, <2>4, <2>5
<1>3. ASSUME NEW h \in Hosts, Reboot(h) PROVE [SW!Next]_Writer
  <2>1. \A s \in Sessions : pc'[s] = "ended" \/ pc'[s] = pc[s]
    BY <1>3 DEF Reboot
  <2>2. CASE \E s \in Sessions : pc[s] = "writing" /\ pc'[s] # "writing"
    <3>1. PICK s \in Sessions : pc[s] = "writing" /\ pc'[s] # "writing"
      BY <2>2
    <3>2. \A t \in Sessions : pc'[t] # "writing"
      BY <2>1, <3>1 DEF OneWriter
    <3>3. Writer = s /\ Writer' = NoWriter
      BY <3>1, <3>2, WriterIs, WriterIsNext
    <3> QED BY <3>3, NoWriterAssumption DEF NoWriter
  <2>3. CASE \A s \in Sessions : pc[s] = "writing" => pc'[s] = "writing"
    BY <2>1, <2>3, WriterKept
  <2> QED BY <2>2, <2>3
<1>4. CASE UNCHANGED vars
  BY <1>4 DEF vars, Writer
<1> QED BY <1>1, <1>2, <1>3, <1>4 DEF Next

\* Where the filesystem supports RENAME_NOREPLACE and nobody takes a lock over,
\* the sessions implement SingleWriter: ownership passes only through a moment
\* at which nobody writes.
THEOREM Refinement == ASSUME NoReplace, ~TakeOvers PROVE Spec => ImplementsSingleWriter
<1>1. Init => SW!Init
  BY WriterIs DEF Init, SW!Init
<1>2. TypeOK /\ OneWriter /\ OneWriter' /\ [Next]_vars => [SW!Next]_Writer
  BY WriterStep
<1> QED BY <1>1, <1>2, TypeCorrect, Exclusion, PTL
        DEF Spec, ImplementsSingleWriter, SW!Spec

-----------------------------------------------------------------------------
(* Whatever the filesystem and the users do: where vault.lock comes from     *)

\* The file is one that was there before, or one that some session wrote.
LockOrigin ==
  \/ lock \in {NoFile, Opaque}
  \/ \E u \in Sessions : pc[u] # "off" /\ lock = Identity(u)

\* Without recycling, no two processes of one boot have had the same pid.
FreshPids ==
  ~Recycle => \A s, t \in Sessions :
                s # t /\ pc[s] # "off" /\ pc[t] # "off" /\ Home[s] = Home[t]
                  /\ proc[s].boot = proc[t].boot => proc[s].pid # proc[t].pid

OriginInv == LockOrigin /\ FreshPids

\* Identity depends on the process alone.
LEMMA SameIdentity ==
  ASSUME NEW s \in Sessions, proc'[s] = proc[s]
  PROVE  Identity(s)' = Identity(s)
BY DEF Identity

\* Every step keeps the origin of the lock file and the freshness of pids.
LEMMA OriginStep ==
  ASSUME TypeOK, OriginInv, [Next]_vars
  PROVE  OriginInv'
<1>1. ASSUME NEW s \in Sessions, Start(s) PROVE OriginInv'
  <2>1. PICK p \in Pids :
          /\ FreePid(Home[s], p)
          /\ proc' = [proc EXCEPT ![s] =
                        [boot |-> boot[Home[s]], pid |-> p, ticks |-> clock + 1]]
    BY <1>1 DEF Start
  <2>2. /\ pc[s] = "off" /\ pc' = [pc EXCEPT ![s] = "idle"]
        /\ lock' = lock
    BY <1>1 DEF Start
  <2>3. /\ \A t \in Sessions : t # s => pc'[t] = pc[t] /\ proc'[t] = proc[t]
        /\ proc'[s] = [boot |-> boot[Home[s]], pid |-> p, ticks |-> clock + 1]
    BY <2>1, <2>2 DEF TypeOK
  <2>4. LockOrigin'
    BY <2>2, <2>3, SameIdentity DEF OriginInv, LockOrigin
  <2>5. FreshPids'
    <3>1. ~Recycle => \A t \in Sessions :
                        Home[t] = Home[s] /\ proc[t].boot = boot[Home[s]] => proc[t].pid # p
      BY <2>1 DEF FreePid
    <3> QED BY <2>3, <3>1 DEF OriginInv, FreshPids
  <2> QED BY <2>4, <2>5 DEF OriginInv
<1>2. ASSUME NEW s \in Sessions, Step(s), ~Start(s) PROVE OriginInv'
  <2>1. OwnStep(s) /\ Effect(s)
    BY <1>2, StepEffect
  <2>2. \A t \in Sessions : Identity(t)' = Identity(t) /\ (pc[t] # "off" => pc'[t] # "off")
    BY <2>1, SameIdentity DEF OwnStep
  <2>3. LockOrigin'
    <3>1. pc[s] # "off" /\ pc'[s] # "off"
      BY <2>1 DEF OwnStep, Alive, Running
    <3> QED BY <2>1, <2>2, <3>1 DEF Effect, OriginInv, LockOrigin
  <2>4. FreshPids'
    <3>1. \A t \in Sessions : pc'[t] # "off" => pc[t] # "off"
      BY <2>1 DEF OwnStep, Alive, Running
    <3> QED BY <2>1, <3>1 DEF OwnStep, OriginInv, FreshPids
  <2> QED BY <2>3, <2>4 DEF OriginInv
<1>3. ASSUME NEW h \in Hosts, Reboot(h) PROVE OriginInv'
  <2>1. /\ UNCHANGED <<lock, proc>>
        /\ \A s \in Sessions : pc'[s] = "off" <=> pc[s] = "off"
    BY <1>3 DEF Reboot, Alive, Running, TypeOK
  <2> QED BY <2>1, SameIdentity DEF OriginInv, LockOrigin, FreshPids
<1>4. CASE UNCHANGED vars
  BY <1>4, SameIdentity DEF vars, OriginInv, LockOrigin, FreshPids
<1> QED BY <1>1, <1>2, <1>3, <1>4 DEF Next

\* vault.lock always is a file of some session that ran, or one found at first.
THEOREM Origin == Spec => []OriginInv
<1>1. Init => OriginInv
  BY DEF Init, OriginInv, LockOrigin, FreshPids
<1> QED BY <1>1, OriginStep, TypeCorrect, PTL DEF Spec

\* A live owner's file carries the owner's own start ticks.
LEMMA OwnFile ==
  ASSUME TypeOK, ProcInv, OriginInv, ~Recycle,
         NEW t \in Sessions, Alive(t), Ours(t, lock)
  PROVE  lock = Identity(t)
<1>1. PICK u \in Sessions : pc[u] # "off" /\ lock = Identity(u)
  BY DEF OriginInv, LockOrigin, Ours
<1>2. Home[u] = Home[t] /\ proc[u].boot = proc[t].boot /\ proc[u].pid = proc[t].pid
  BY <1>1, LockAssumption DEF Ours, Identity
<1>3. u = t
  BY <1>1, <1>2 DEF OriginInv, FreshPids, Alive, Running
<1> QED BY <1>1, <1>3

\* Without process id reuse, a writable owner whose file is on disk is never
\* proven dead by anyone, whether or not renames replace and locks are taken
\* over.
THEOREM OwnersStayAlive == ASSUME ~Recycle PROVE Spec => []LiveOwnerNeverProvenDead
<1>1. ASSUME TypeOK, ProcInv, OriginInv PROVE LiveOwnerNeverProvenDead
  <2> SUFFICES ASSUME NEW s \in Sessions, NEW t \in Sessions, s # t, Alive(s),
                      pc[t] = "writing", Ours(t, lock)
               PROVE  Classify(s, lock) \cap DeadReasons = {}
    BY DEF LiveOwnerNeverProvenDead
  <2>1. Alive(t)
    BY DEF Alive, Running
  <2>2. /\ lock.host = Home[t] /\ lock.boot = proc[t].boot /\ lock.pid = proc[t].pid
        /\ lock.ticks = proc[t].ticks
    BY <1>1, <2>1, OwnFile DEF Ours, Identity
  <2>3. CASE Ours(s, lock)
    BY <2>3, OursClassified DEF DeadReasons
  <2>4. CASE ~Ours(s, lock)
    <3>1. Classify(s, lock) = LivenessVerdict(s, lock)
      BY <2>4 DEF Classify, Ours
    <3>2. CASE Home[s] \notin Legible \/ Home[s] # Home[t]
      BY <2>2, <3>1, <3>2 DEF LivenessVerdict, DeadReasons
    <3>3. CASE Home[s] \in Legible /\ Home[s] = Home[t]
      <4>1. lock.boot = proc[s].boot
        BY <1>1, <2>1, <2>2, <3>3 DEF ProcInv, CurrentBoot
      <4>2. LivenessVerdict(s, lock) = Probe(s, lock)
        BY <2>2, <3>3, <4>1 DEF LivenessVerdict
      <4>3. {u \in Sessions : Alive(u) /\ Home[u] = Home[s] /\ proc[u].pid = lock.pid} = {t}
        BY <1>1, <2>1, <2>2, <3>3 DEF ProcInv, DistinctPids
      <4>4. Probe(s, lock) \subseteq {"Blocked"}
        BY <2>2, <4>3 DEF Probe
      <4> QED BY <3>1, <4>2, <4>4 DEF DeadReasons
    <3> QED BY <3>2, <3>3
  <2> QED BY <2>3, <2>4
<1> QED BY <1>1, TypeCorrect, ProcInvariant, Origin, PTL

-----------------------------------------------------------------------------
(* No session leaves its own lock behind                                     *)

\* A session that has not placed its file, or has lost it, since it asked.
Without == {"place", "check", "overwrite", "exists", "lost", "dialog", "takeover", "reading"}

NotMine == \A s \in Sessions : pc[s] \in Without => lock # Identity(s)

\* A session that will find its file gone has really lost it.
SeesMine == \A s \in Sessions :
  pc[s] \in {"acquire", "verify"} /\ lock = Identity(s) => Ours(s, read[s])

\* On a machine with a legible /proc a session recognises the file it wrote.
LEMMA RecognisesOwn ==
  ASSUME TypeOK, Legible = Hosts, NEW s \in Sessions
  PROVE  Ours(s, Identity(s))
<1>1. Home[s] \in Legible
  BY LockAssumption
<1>2. Identity(s) \notin {NoFile, Opaque}
  BY IdentityType, FileAssumption
<1> QED BY <1>1, <1>2 DEF Ours, Identity

\* Two sessions that ran have different identities there: the ticks differ.
LEMMA DistinctIdentities ==
  ASSUME ProcInv, Legible = Hosts, NEW s \in Sessions, NEW t \in Sessions,
         s # t, pc[s] # "off"
  PROVE  Identity(s) # Identity(t)
<1>1. Home[s] \in Legible /\ Home[t] \in Legible
  BY LockAssumption
<1> QED BY <1>1 DEF Identity, ProcInv, GrowingTicks

\* Every step keeps that a session without the lock has left no file behind.
LEMMA StrandedStep ==
  ASSUME Legible = Hosts, TypeOK, ProcInv, OriginInv, NotMine, SeesMine, [Next]_vars
  PROVE  NotMine' /\ SeesMine'
<1>1. ASSUME NEW s \in Sessions, Start(s) PROVE NotMine' /\ SeesMine'
  <2>1. /\ pc[s] = "off" /\ pc' = [pc EXCEPT ![s] = "idle"]
        /\ UNCHANGED <<lock, read>>
        /\ \A t \in Sessions : t # s => proc'[t] = proc[t]
        /\ proc'[s].ticks = clock + 1
    BY <1>1 DEF Start, TypeOK
  <2>3. \A t \in Sessions : t # s => Identity(t)' = Identity(t) /\ pc'[t] = pc[t]
    BY <2>1, SameIdentity DEF TypeOK
  <2>4. NotMine'
    BY <2>1, <2>3 DEF NotMine, Without, TypeOK
  <2>5. SeesMine'
    BY <2>1, <2>3 DEF SeesMine, Ours, TypeOK
  <2> QED BY <2>4, <2>5
<1>2. ASSUME NEW s \in Sessions, Step(s), ~Start(s) PROVE NotMine' /\ SeesMine'
  <2>1. OwnStep(s) /\ Effect(s)
    BY <1>2, StepEffect
  <2>2. \A t \in Sessions : Identity(t)' = Identity(t)
    BY <2>1, SameIdentity DEF OwnStep
  <2>3. \A t \in Sessions : \A f : Ours(t, f)' <=> Ours(t, f')
    BY <2>1 DEF OwnStep, Ours
  <2>4. \A t \in Sessions : Identity(t) # NoFile
    BY IdentityType, FileAssumption
  <2>5. pc[s] \in Running
    BY <2>1 DEF OwnStep, Alive
  <2>6. \A t \in Sessions : t # s => Identity(s) # Identity(t)
    BY <2>5, DistinctIdentities DEF Running
  <2>7. ASSUME NEW t \in Sessions, t # s, lock' = Identity(t)
        PROVE  lock' = lock
    BY <2>1, <2>4, <2>6, <2>7 DEF Effect
  <2>8. NotMine'
    <3> SUFFICES ASSUME NEW t \in Sessions, pc'[t] \in Without, lock' = Identity(t)
                 PROVE  FALSE
      BY <2>2 DEF NotMine
    <3>1. CASE t # s
      BY <2>1, <2>7, <3>1 DEF OwnStep, NotMine
    <3>2. CASE t = s
      <4>1. lock' = lock
        BY <2>1, <2>4, <3>2 DEF Effect, Without
      <4>2. lock = Identity(s) /\ Ours(s, lock)
        BY <3>2, <4>1, RecognisesOwn
      <4>3. pc[s] \notin Without
        BY <4>2 DEF NotMine
      <4>4. pc[s] \in {"acquire", "verify"}
        BY <2>1, <2>5, <3>2, <4>3 DEF Effect, Running, Without
      <4>5. ~Ours(s, read[s])
        BY <2>1, <3>2, <4>4 DEF Effect, Without
      <4> QED BY <4>2, <4>4, <4>5 DEF SeesMine
    <3> QED BY <3>1, <3>2
  <2>9. SeesMine'
    <3> SUFFICES ASSUME NEW t \in Sessions, pc'[t] \in {"acquire", "verify"},
                        lock' = Identity(t)
                 PROVE  Ours(t, read'[t])
      BY <2>1, <2>2 DEF SeesMine, OwnStep, Ours
    <3>1. CASE t # s
      BY <2>1, <2>7, <3>1 DEF OwnStep, SeesMine
    <3>2. CASE t = s
      BY <2>1, <3>2, RecognisesOwn DEF Effect
    <3> QED BY <3>1, <3>2
  <2> QED BY <2>8, <2>9
<1>3. ASSUME NEW h \in Hosts, Reboot(h) PROVE NotMine' /\ SeesMine'
  <2>1. /\ UNCHANGED <<lock, proc>>
        /\ \A s \in Sessions : \/ pc'[s] = "ended"
                               \/ pc'[s] = pc[s] /\ read'[s] = read[s]
    BY <1>3 DEF Reboot, TypeOK
  <2> QED BY <2>1, SameIdentity DEF NotMine, SeesMine, Without, Ours
<1>4. CASE UNCHANGED vars
  BY <1>4, SameIdentity DEF vars, NotMine, SeesMine, Ours
<1> QED BY <1>1, <1>2, <1>3, <1>4 DEF Next

\* On machines whose /proc is legible no session that is not the owner leaves a
\* lock naming itself, whatever races it lost and whoever took over from it.
THEOREM NothingStranded == ASSUME Legible = Hosts PROVE Spec => []NoStrandedLock
<1>1. Init => NotMine /\ SeesMine
  BY DEF Init, NotMine, SeesMine, Without
<1>2. TypeOK /\ ProcInv /\ OriginInv /\ NotMine /\ SeesMine /\ [Next]_vars
        => NotMine' /\ SeesMine'
  BY StrandedStep
<1>3. NotMine => NoStrandedLock
  BY DEF NotMine, NoStrandedLock, Without
<1> QED BY <1>1, <1>2, <1>3, TypeCorrect, ProcInvariant, Origin, PTL DEF Spec
=============================================================================
