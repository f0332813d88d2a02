--------------------------- MODULE Watcher_proofs ---------------------------
(***************************************************************************)
(* Proofs about Watcher, for any notes: its types, and that a change is    *)
(* never left behind without a report that makes a poll look for it.       *)
(***************************************************************************)
EXTENDS Watcher, TLAPS

\* Every variable has its type: in particular, whatever is remembered of a file
\* while it changes under the handlers is one of the three things that the poll,
\* the stamp and the list can tell apart (note_tree_snapshot, FileStamp).
THEOREM TypeCorrect == Spec => []TypeOK
<1>0. Gone \in Memories /\ Old \in Memories /\ New \in Memories
  BY DEF Memories
<1>1. Init => TypeOK
  BY DEF Init, TypeOK, Memories
<1>2. TypeOK /\ [Next]_vars => TypeOK'
  <2> SUFFICES ASSUME TypeOK, [Next]_vars PROVE TypeOK'
    OBVIOUS
  <2> USE DEF Idle, files, editor, view
  <2>0. ASSUME NEW m \in [Notes -> Memories], NEW n \in Notes
        PROVE Aged(m, n) \in [Notes -> Memories]
    BY <1>0 DEF Aged
  <2>a. ASSUME NEW n \in Notes PROVE AgedStamp(n) \in Memories
    BY <1>0 DEF AgedStamp, TypeOK
  <2>w. ASSUME NEW n \in Notes, NEW file \in {Gone, New}, Write(n, file)
        PROVE /\ tree' \in [Notes -> {Gone, New}] /\ raised' \in BOOLEAN
              /\ baseline' \in [Notes -> Memories]
    <3>1. Aged(baseline, n) \in [Notes -> Memories]
      BY <2>0 DEF TypeOK
    <3> QED
      BY <2>w, <3>1 DEF Write, TypeOK
  <2>u. ASSUME NEW n \in Notes, NEW file \in {Gone, New}, WriteUnseen(n, file)
        PROVE /\ tree' \in [Notes -> {Gone, New}] /\ raised' \in BOOLEAN
              /\ baseline' \in [Notes -> Memories]
              /\ listed' \in [Notes -> Memories] /\ stamp' \in Memories
    <3>1. Write(n, file) /\ listed' = Aged(listed, n) /\ stamp' = AgedStamp(n)
      BY <2>u DEF WriteUnseen
    <3>2. Aged(listed, n) \in [Notes -> Memories] /\ AgedStamp(n) \in Memories
      BY <2>0, <2>a DEF TypeOK
    <3> QED
      BY <3>1, <3>2, <2>w
  <2>1. CASE Elsewhere
    <3>1. CASE Report
      BY <3>1 DEF Report, TypeOK
    <3>2. ASSUME NEW n \in Notes, Edit(n) PROVE TypeOK'
      BY <3>2, <2>u DEF Edit, TypeOK
    <3>3. ASSUME NEW n \in Notes, Remove(n) PROVE TypeOK'
      BY <3>3, <2>u DEF Remove, TypeOK
    <3> QED
      BY <2>1, <3>1, <3>2, <3>3 DEF Elsewhere
  <2>2. CASE Tick
    <3>1. CASE Poll
      BY <3>1 DEF Poll, TypeOK
    <3>2. CASE PollFails
      BY <3>2 DEF PollFails, TypeOK
    <3>3. CASE Compare
      BY <3>3 DEF Compare, TypeOK
    <3>4. CASE CheckStamp
      BY <3>4 DEF CheckStamp, TypeOK
    <3>5. CASE Scan
      <4>1. Merged \in [Notes -> Memories]
        BY <1>0 DEF Merged, TypeOK
      <4> QED
        BY <3>5, <4>1 DEF Scan, TypeOK
    <3>6. CASE Adopt
      BY <3>6, <1>0 DEF Adopt, AdoptedNow, TypeOK
    <3> QED
      BY <2>2, <3>1, <3>2, <3>3, <3>4, <3>5, <3>6 DEF Tick
  <2>3. CASE Window
    <3>o. ASSUME NEW n \in Notes, Open(n)
          PROVE active' \in Notes \cup {None} /\ stamp' \in Memories
      BY <3>o, <1>0 DEF Open, TypeOK
    <3>1. CASE Type
      BY <3>1 DEF Type, TypeOK
    <3>2. CASE Save
      <4>0. active \in Notes
        BY <3>2 DEF Save, TypeOK
      <4>1. CASE /\ Write(active, New) /\ stamp' = New /\ listed' = [listed EXCEPT ![active] = New]
                 /\ dirty' \in BOOLEAN /\ told' = FALSE /\ pc' = "own"
        <5>1. listed' \in [Notes -> Memories]
          BY <4>0, <4>1, <1>0 DEF TypeOK
        <5> QED
          BY <3>2, <4>0, <4>1, <5>1, <2>w, <1>0 DEF Save, TypeOK
      <4>2. CASE WriteUnseen(active, New) /\ told' = TRUE /\ UNCHANGED <<dirty, pc>>
        BY <3>2, <4>0, <4>2, <2>u DEF Save, TypeOK
      <4>3. CASE UNCHANGED <<files, baseline, listed, stamp>> /\ told' = TRUE
                 /\ UNCHANGED <<dirty, pc>>
        BY <3>2, <4>3 DEF Save, TypeOK
      <4> QED
        BY <3>2, <4>1, <4>2, <4>3 DEF Save
    <3>3. CASE Dispatch
      <4>1. CASE UNCHANGED <<active, stamp, told>>
        BY <3>3, <4>1 DEF Dispatch, TypeOK
      <4>2. CASE Open(pick) /\ ~dirty /\ told' = (told \/ tree[pick] = Gone)
        <5>1. pick \in Notes
          BY <3>3 DEF Dispatch, TypeOK
        <5> QED
          BY <3>3, <4>2, <5>1, <3>o DEF Dispatch, TypeOK
      <4> QED
        BY <3>3, <4>1, <4>2 DEF Dispatch
    <3>4. CASE Convert
      <4>0. active \in Notes
        BY <3>4 DEF Convert, TypeOK
      <4> QED
        BY <3>4, <4>0, <2>w, <1>0 DEF Convert, TypeOK
    <3>5. CASE SwitchView
      <4>1. active' \in Notes \cup {None} /\ stamp' \in Memories
        BY <3>5, <3>o, <1>0 DEF SwitchView, Closed
      <4>2. listed' \in [Notes -> Memories]
        BY <3>5, <1>0 DEF SwitchView, TypeOK
      <4> QED
        BY <3>5, <4>1, <4>2 DEF SwitchView, TypeOK
    <3>6. ASSUME NEW n \in Notes, Click(n) PROVE TypeOK'
      BY <3>6 DEF Click, TypeOK
    <3>7. ASSUME NEW n \in Notes, NextNote(n) PROVE TypeOK'
      BY <3>7, <3>o DEF NextNote, TypeOK
    <3>8. ASSUME NEW n \in Notes, Rearrange(n) PROVE TypeOK'
      <4>1. CASE /\ Write(n, New) /\ listed' = [listed EXCEPT ![n] = New]
                 /\ active' = n /\ stamp' = New
        BY <3>8, <4>1, <2>w, <1>0 DEF Rearrange, TypeOK
      <4>2. CASE /\ Write(n, Gone) /\ listed' = [listed EXCEPT ![n] = Gone]
                 /\ IF n = active THEN active' = None /\ stamp' = Gone
                                  ELSE UNCHANGED <<active, stamp>>
        <5>1. listed' \in [Notes -> Memories]
          BY <4>2, <1>0 DEF TypeOK
        <5>2. active' \in Notes \cup {None} /\ stamp' \in Memories
          BY <4>2, <1>0 DEF TypeOK
        <5> QED
          BY <3>8, <4>2, <5>1, <5>2, <2>w DEF Rearrange, TypeOK
      <4>3. CASE Write(n, New) /\ UNCHANGED <<listed, active, stamp>>
        BY <3>8, <4>3, <2>w DEF Rearrange, TypeOK
      <4> QED
        BY <3>8, <4>1, <4>2, <4>3 DEF Rearrange
    <3>9. ASSUME NEW n \in Notes, Restore(n) PROVE TypeOK'
      BY <3>9, <2>u DEF Restore, TypeOK
    <3> QED
      BY <2>3, <3>1, <3>2, <3>3, <3>4, <3>5, <3>6, <3>7, <3>8, <3>9 DEF Window
  <2>4. CASE UNCHANGED vars
    BY <2>4 DEF vars, TypeOK
  <2> QED
    BY <2>1, <2>2, <2>3, <2>4 DEF Next
<1> QED
  BY <1>1, <1>2, PTL DEF Spec

\* Without the keys that drop unsaved text, a change that no poll has taken in has
\* a report on its way.  The formula is inductive: the poll goes back to idle with
\* a tree that is the baseline, or finds something unsaved; what is unsaved ends
\* with a save, and every save with a new baseline (install_watcher_poll,
\* persist_active).
THEOREM NothingOverlooked ==
    ASSUME ~NextNoteKeys PROVE Spec => []ChangesArePending
<1>1. Init => ChangesArePending
  BY DEF Init, ChangesArePending, Idle
<1>2. ChangesArePending /\ [Next]_vars => ChangesArePending'
  <2> SUFFICES ASSUME ChangesArePending, [Next]_vars PROVE ChangesArePending'
    OBVIOUS
  <2> USE DEF Idle, files, editor, view
  <2>1. CASE Elsewhere
    BY <2>1 DEF Elsewhere, Report, Edit, Remove, WriteUnseen, Write, ChangesArePending
  <2>2. CASE Tick
    <3>1. CASE Poll \/ PollFails
      BY <3>1 DEF Poll, PollFails, MayPoll, ChangesArePending
    <3>2. CASE Compare \/ CheckStamp \/ Scan
      BY <3>2 DEF Compare, CheckStamp, Scan, ChangesArePending
    <3>3. CASE Adopt
      BY <3>3 DEF Adopt, AdoptedNow, ChangesArePending
    <3> QED
      BY <2>2, <3>1, <3>2, <3>3 DEF Tick
  <2>3. CASE Window
    <3>1. CASE Type
      BY <3>1 DEF Type, ChangesArePending
    <3>2. CASE Save
      BY <3>2 DEF Save, ChangesArePending
    <3>3. CASE Dispatch \/ SwitchView
      BY <3>3 DEF Dispatch, SwitchView, ChangesArePending
    <3>4. CASE Convert
      BY <3>4 DEF Convert, ChangesArePending
    <3>5. ASSUME NEW n \in Notes, Click(n) PROVE ChangesArePending'
      BY <3>5 DEF Click, ChangesArePending
    <3>6. ASSUME NEW n \in Notes, Rearrange(n) PROVE ChangesArePending'
      BY <3>6 DEF Rearrange, ChangesArePending
    <3>7. ASSUME NEW n \in Notes, Restore(n) PROVE ChangesArePending'
      BY <3>7 DEF Restore, WriteUnseen, Write, ChangesArePending
    <3>8. ASSUME NEW n \in Notes, NextNote(n) PROVE ChangesArePending'
      BY <3>8 DEF NextNote, ChangesArePending
    <3> QED
      BY <2>3, <3>1, <3>2, <3>3, <3>4, <3>5, <3>6, <3>7, <3>8 DEF Window
  <2>4. CASE UNCHANGED vars
    BY <2>4 DEF vars, ChangesArePending
  <2> QED
    BY <2>1, <2>2, <2>3, <2>4 DEF Next
<1> QED
  BY <1>1, <1>2, PTL DEF Spec
=============================================================================
