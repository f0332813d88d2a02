--------------------------- MODULE Session_proofs ---------------------------
(***************************************************************************)
(* Proofs about Session, for any notes and vaults: its types, that no      *)
(* handler drops unsaved text (without the next-note keys, which do), that *)
(* a save writes the open note's own text (where TextStaysOwn says), that  *)
(* a locked Secure Vault leaves nothing in memory, and that the window     *)
(* keeps what VaultAccess promises.                                        *)
(*                                                                         *)
(* A handler is an operator from a world to a set of worlds, so the        *)
(* invariants are predicates on worlds, and each operator has a lemma:     *)
(* from a world with the invariant it leads only to such worlds.           *)
(***************************************************************************)
EXTENDS Session, TLAPS

Apps == [vault : Vaults \cup {None}, keys : BOOLEAN, readOnly : BOOLEAN,
         trashView : BOOLEAN, selected : Notes \cup {None}, active : Notes \cup {None},
         buffer : Notes \cup {None}, page : Pages, dirty : SUBSET Parts,
         timers : SUBSET Parts, failed : BOOLEAN, held : SUBSET Notes,
         pick : Notes \cup {None}, clock : BOOLEAN]
Disks == [text : [Notes -> Notes \cup {None}], secret : SUBSET Notes,
          place : [Notes -> {"notes", "trash", "gone"}]]
NoteDialogs == {"note", "encrypt", "change-password", "remove-encryption"}
\* These open the document again without its text.
Reopenings == {"change-password", "remove-encryption"}
Dialogs == [kind : {"none", "note", "vault", "encrypt", "change-password",
                    "remove-encryption", "delete"},
            of : Notes \cup Vaults \cup {None}]
Workers == SUBSET [vault : Secure, fresh : BOOLEAN]
Logs == [unsaved : SUBSET (Notes \X Parts), asked : BOOLEAN]
Worlds == [app : Apps, disk : Disks, dialog : Dialogs, workers : Workers, log : Logs]

\* A locked Secure Vault has nothing in memory.
Blank(w) ==
    Shut(w) => /\ w.app.active = None /\ w.app.held = {} /\ w.app.buffer = None
               /\ w.app.dirty = {} /\ w.app.timers = {} /\ w.app.page # "editor"

\* What dialogs and workers rely on: a key is derived, and a vault's password asked
\* for, only while that vault is shown and locked; a note's dialog belongs to a view
\* of notes, and so does an open note.
Asking(w) ==
    /\ \A k \in w.workers : 
        k.fresh => Shut(w) /\ k.vault = w.app.vault /\ w.dialog.kind = "none" /\ w.log.asked
    /\ w.dialog.kind = "vault" => Shut(w) /\ w.dialog.of = w.app.vault
    /\ w.dialog.kind \in NoteDialogs \cup {"delete"} => w.dialog.of \in Notes
    /\ w.dialog.kind \in Reopenings => w.dialog.kind \in Commands
    /\ w.dialog.kind \in NoteDialogs => ~w.app.trashView
    /\ w.app.active # None => ~w.app.trashView

\* Documents are of the vault that is shown.
Own(w) == \A n \in Notes : n = w.app.active \/ n \in w.app.held => Home[n] = w.app.vault

\* Only a flag makes a text dirty that was not typed, and only a view without
\* rows and a new password leave an open note without its text in the editor:
\* without either a save writes the open note's own text.
FlagFree == "flag" \notin Commands
Faithful == ~EmptyViews /\ Commands \cap Reopenings = {}
Whole(d) == FlagFree \/ Faithful => \A n \in Notes : d.text[n] = n
Shows(a, d) ==
    /\ FlagFree => ("body" \in a.dirty => a.active # None /\ a.buffer = a.active)
    /\ Faithful => (a.active # None => a.buffer = a.active /\ d.place[a.active] = "notes")
Fits(w) == Whole(w.disk) /\ Shows(w.app, w.disk)

Sound(w) == w \in Worlds /\ Blank(w) /\ Asking(w) /\ Own(w) /\ Fits(w)

\* Unsaved text is the open note's, marked dirty and in the editor; nothing is asked.
Held(w) ==
    \A e \in w.log.unsaved :
        /\ e[1] = w.app.active /\ e[2] \in w.app.dirty
        /\ e[2] = "body" => w.app.buffer = e[1]
Calm(w) ==
    w.log.unsaved # {} => w.app.page = "editor" /\ w.dialog.kind = "none" /\ w.app.vault # None

\* The next-note keys drop text: with them nothing is claimed of what is unsaved.
Minds == "next-note" \notin Commands
Good(w) == Sound(w) /\ (Minds => Held(w) /\ Calm(w))
\* The same, with nothing unsaved
Rest(w) == Sound(w) /\ (Minds => w.log.unsaved = {})

\* What VaultAccess sees of a world, but for the documents
Room(w) == <<w.app.vault, w.app.keys, w.log.asked>>

LEMMA RestIsGood == \A w : Rest(w) => Good(w)
  BY DEF Rest, Good, Held, Calm

LEMMA ShutRests == ASSUME NEW w, Good(w), Shut(w) PROVE Rest(w)
<1>1. w.app.active = None /\ w.log.unsaved \subseteq Notes \X Parts
  BY DEF Good, Sound, Blank, Worlds, Logs
<1>2. None \notin Notes
  BY SessionAssumption
<1> QED
  BY <1>1, <1>2 DEF Good, Held, Rest

\* The step of a handler that leads to the worlds ws
LEMMA DoStep == ASSUME NEW ws, ws \subseteq Worlds, Do(ws) PROVE Now' \in ws
<1>1. PICK w \in ws : /\ app' = w.app /\ disk' = w.disk /\ dialog' = w.dialog
                      /\ workers' = w.workers /\ log' = w.log
  BY DEF Do
<1>2. w = [app |-> w.app, disk |-> w.disk, dialog |-> w.dialog, workers |-> w.workers, log |-> w.log]
  BY DEF Worlds
<1>3. Now' = w
  BY <1>1, <1>2 DEF Now
<1> QED
  BY <1>3

\* What a world is made of
LEMMA WorldParts ==
    ASSUME NEW w \in Worlds
    PROVE  /\ w.app \in Apps /\ w.disk \in Disks /\ w.dialog \in Dialogs
           /\ w.workers \in Workers /\ w.log \in Logs
           /\ \A a : w.app = a => [w EXCEPT !.app = a] = w
  BY DEF Worlds

\* A world whose window changes only in what no invariant speaks of
LEMMA Aside ==
    ASSUME NEW w, NEW x \in Worlds,
           x.disk = w.disk, x.dialog = w.dialog, x.workers = w.workers, x.log = w.log,
           x.app.vault = w.app.vault, x.app.keys = w.app.keys, x.app.active = w.app.active,
           x.app.buffer = w.app.buffer, x.app.page = w.app.page, x.app.dirty = w.app.dirty,
           x.app.held = w.app.held, x.app.trashView = w.app.trashView,
           x.app.timers \subseteq w.app.timers
    PROVE  (Good(w) => Good(x)) /\ (Rest(w) => Rest(x)) /\ Room(x) = Room(w)
<1>1. Shut(x) = Shut(w)
  BY DEF Shut
<1>2. Sound(w) => Sound(x)
  BY <1>1 DEF Sound, Blank, Asking, Own, Fits, Shows
<1> QED
  BY <1>2 DEF Good, Rest, Held, Calm, Room

LEMMA CancelTimersGood ==
    ASSUME NEW w, Good(w)
    PROVE  /\ Good(CancelTimers(w)) /\ (Rest(w) => Rest(CancelTimers(w)))
           /\ CancelTimers(w).dialog = w.dialog /\ CancelTimers(w).app.vault = w.app.vault
           /\ CancelTimers(w).app.active = w.app.active /\ Room(CancelTimers(w)) = Room(w)
<1> DEFINE x == CancelTimers(w)
<1>1. w \in Worlds
  BY DEF Good, Sound
<1>2. x \in Worlds
  BY <1>1 DEF CancelTimers, Worlds, Apps
<1>3. x.disk = w.disk /\ x.dialog = w.dialog /\ x.workers = w.workers /\ x.log = w.log
  BY <1>1 DEF CancelTimers, Worlds
<1>4. /\ x.app.vault = w.app.vault /\ x.app.keys = w.app.keys /\ x.app.active = w.app.active
      /\ x.app.buffer = w.app.buffer /\ x.app.page = w.app.page /\ x.app.dirty = w.app.dirty
      /\ x.app.held = w.app.held /\ x.app.trashView = w.app.trashView /\ x.app.timers = {}
  BY <1>1 DEF CancelTimers, Worlds, Apps
<1>6. (Good(w) => Good(x)) /\ (Rest(w) => Rest(x)) /\ Room(x) = Room(w)
  BY <1>2, <1>3, <1>4, Aside
<1> QED
  BY <1>3, <1>4, <1>6

LEMMA TouchGood ==
    ASSUME NEW w, Good(w)
    PROVE  Good(Touch(w)) /\ (Rest(w) => Rest(Touch(w))) /\ Room(Touch(w)) = Room(w)
<1> DEFINE x == [w EXCEPT !.app.clock = TRUE]
<1>1. w \in Worlds
  BY DEF Good, Sound
<1>2. x \in Worlds
  BY <1>1 DEF Worlds, Apps
<1>3. x.disk = w.disk /\ x.dialog = w.dialog /\ x.workers = w.workers /\ x.log = w.log
  BY <1>1 DEF Worlds
<1>4. /\ x.app.vault = w.app.vault /\ x.app.keys = w.app.keys /\ x.app.active = w.app.active
      /\ x.app.buffer = w.app.buffer /\ x.app.page = w.app.page /\ x.app.dirty = w.app.dirty
      /\ x.app.held = w.app.held /\ x.app.trashView = w.app.trashView
      /\ x.app.timers = w.app.timers
  BY <1>1 DEF Worlds, Apps
<1>6. (Good(w) => Good(x)) /\ (Rest(w) => Rest(x)) /\ Room(x) = Room(w)
  BY <1>2, <1>3, <1>4, Aside
<1>7. Touch(w) = x \/ Touch(w) = w
  BY DEF Touch
<1> QED
  BY <1>6, <1>7

\* What a save leaves as it is
SameScene(w, x) ==
    /\ x.dialog = w.dialog /\ x.workers = w.workers
    /\ x.app.vault = w.app.vault /\ x.app.keys = w.app.keys /\ x.app.active = w.app.active
    /\ x.app.buffer = w.app.buffer /\ x.app.page = w.app.page /\ x.app.held = w.app.held
    /\ x.app.trashView = w.app.trashView /\ x.app.timers = w.app.timers

LEMMA SavedParts ==
    ASSUME NEW w, Good(w), NEW parts, parts \subseteq w.app.dirty, w.app.active # None
    PROVE  /\ Good(SaveParts(w, parts)) /\ SameScene(w, SaveParts(w, parts))
           /\ Minds /\ parts = w.app.dirty => SaveParts(w, parts).log.unsaved = {}
           /\ SaveParts(w, parts).app.dirty = w.app.dirty \ parts
           /\ SaveParts(w, parts).log.unsaved \subseteq w.log.unsaved
           /\ Room(SaveParts(w, parts)) = Room(w)
<1> DEFINE n == w.app.active
           kept == IF w.app.buffer = n THEN parts ELSE parts \ {"body"}
           x == SaveParts(w, parts)
<1>1. w \in Worlds /\ n \in Notes /\ w.app.buffer \in Notes \cup {None}
  BY DEF Good, Sound, Worlds, Apps
<1>2. x = [w EXCEPT !.app.dirty = @ \ parts, !.app.failed = FALSE,
                    !.disk.text[n] = IF "body" \in parts THEN w.app.buffer ELSE @,
                    !.log.unsaved = @ \ ({n} \X kept)]
  BY DEF SaveParts
<1> DEFINE text == IF "body" \in parts THEN w.app.buffer ELSE w.disk.text[n]
           a == [w.app EXCEPT !.dirty = @ \ parts, !.failed = FALSE]
           d == [w.disk EXCEPT !.text = [@ EXCEPT ![n] = text]]
           l == [w.log EXCEPT !.unsaved = @ \ ({n} \X kept)]
<1>20. x.app = a /\ x.disk = d /\ x.log = l /\ x.dialog = w.dialog /\ x.workers = w.workers
       /\ x \in [app : {a}, disk : {d}, dialog : {w.dialog}, workers : {w.workers}, log : {l}]
  BY <1>1, <1>2 DEF Worlds
<1>21. w.app \in Apps /\ w.disk \in Disks /\ w.log \in Logs /\ w.dialog \in Dialogs /\ w.workers \in Workers
  BY <1>1, WorldParts
<1>22. a \in Apps
  BY <1>21 DEF Apps
<1>23. d \in Disks
  BY <1>1, <1>21 DEF Disks
<1>24. l \in Logs
  BY <1>21 DEF Logs
<1>3. x \in Worlds
  BY <1>20, <1>21, <1>22, <1>23, <1>24 DEF Worlds
<1>4. x.dialog = w.dialog /\ x.workers = w.workers
  BY <1>20
<1>5. /\ x.app.vault = w.app.vault /\ x.app.keys = w.app.keys /\ x.app.active = w.app.active
      /\ x.app.buffer = w.app.buffer /\ x.app.page = w.app.page
      /\ x.app.held = w.app.held /\ x.app.trashView = w.app.trashView
      /\ x.app.timers = w.app.timers /\ x.app.dirty = w.app.dirty \ parts
  BY <1>20, <1>21 DEF Apps
<1>6. x.log.unsaved = w.log.unsaved \ ({n} \X kept) /\ x.log.asked = w.log.asked
  BY <1>1, <1>2 DEF Worlds, Logs
<1>7. ~Shut(w) /\ Fits(w)
  BY DEF Good, Sound, Blank
<1>70. d.place = w.disk.place /\ d.text = [w.disk.text EXCEPT ![n] = text]
  BY <1>21 DEF Disks
<1>71. ASSUME FlagFree \/ Faithful PROVE text = n
  <2>1. w.disk.text[n] = n
    BY <1>1, <1>7, <1>71 DEF Fits, Whole
  <2>2. "body" \in parts => w.app.buffer = n
    BY <1>7, <1>71 DEF Fits, Shows
  <2> QED
    BY <2>1, <2>2
<1>72. Fits(x)
  <2> HIDE DEF text
  <2>1. Whole(d)
    BY <1>1, <1>7, <1>21, <1>70, <1>71 DEF Fits, Whole, Disks
  <2> HIDE DEF d, a, x
  <2>2. Shows(x.app, d)
    BY <1>5, <1>7, <1>70 DEF Fits, Shows
  <2> QED
    BY <1>20, <2>1, <2>2 DEF Fits
<1>8. Sound(x) /\ Room(x) = Room(w)
  BY <1>3, <1>4, <1>5, <1>6, <1>7, <1>72 DEF Good, Sound, Blank, Asking, Own, Shut, Room
<1>9. ASSUME Minds, NEW e \in x.log.unsaved
      PROVE  /\ e[1] = n /\ e[2] \in w.app.dirty \ parts
             /\ e[2] = "body" => w.app.buffer = n
  <2>1. e \in w.log.unsaved /\ e \notin {n} \X kept
    BY <1>6
  <2>2. e[1] = n /\ e[2] \in w.app.dirty /\ (e[2] = "body" => w.app.buffer = n)
    BY <1>9, <2>1 DEF Good, Held
  <2>3. e = <<e[1], e[2]>>
    <3>1. w.log.unsaved \subseteq Notes \X Parts
      BY <1>1 DEF Worlds, Logs
    <3> QED
      BY <2>1, <3>1
  <2>4. e[2] \notin kept
    BY <2>1, <2>2, <2>3
  <2>5. e[2] \notin parts
    BY <2>2, <2>4
  <2> QED
    BY <2>2, <2>5
<1>10. Minds => Held(x) /\ Calm(x)
  BY <1>4, <1>5, <1>6, <1>9 DEF Held, Calm, Good
<1>11. Minds /\ parts = w.app.dirty => x.log.unsaved = {}
  BY <1>9
<1> QED
  BY <1>4, <1>5, <1>6, <1>8, <1>10, <1>11 DEF Good, SameScene

LEMMA PersistGood ==
    ASSUME NEW w, Good(w), NEW c \in BOOLEAN, NEW o \in Persist(w, c)
    PROVE  /\ o.ok \in BOOLEAN /\ Good(o.w) /\ SameScene(w, o.w) /\ Room(o.w) = Room(w)
           /\ Rest(w) => Rest(o.w)
           /\ o.ok /\ c => Rest(o.w) /\ o.w.app.dirty = {}
<1> DEFINE parts == IF c THEN w.app.dirty ELSE w.app.dirty \ {"title"}
           f == [w EXCEPT !.app.failed = TRUE]
<1>1. w \in Worlds
  BY DEF Good, Sound
<1>2. CASE parts = {}
  <2>1. o = Outcome(TRUE, w)
    BY <1>2 DEF Persist
  <2>2. o.ok = TRUE /\ o.w = w
    BY <2>1 DEF Outcome
  <2>3. c => w.app.dirty = {} /\ (Minds => w.log.unsaved = {})
    BY <1>2 DEF Good, Held
  <2> QED
    BY <2>2, <2>3 DEF SameScene, Good, Rest
<1>3. CASE parts # {} /\ w.app.active = None
  <2>1. o = Outcome(FALSE, w)
    BY <1>3 DEF Persist
  <2>2. o.ok = FALSE /\ o.w = w
    BY <2>1 DEF Outcome
  <2> QED
    BY <2>2 DEF SameScene
<1>4. CASE parts # {} /\ w.app.active # None
  <2>1. o = Outcome(FALSE, f) \/ o = Outcome(TRUE, SaveParts(w, parts))
    BY <1>4 DEF Persist
  <2>2. CASE o = Outcome(FALSE, f)
    <3>1. o.ok = FALSE /\ o.w = f
      BY <2>2 DEF Outcome
    <3>2. f \in Worlds
      BY <1>1 DEF Worlds, Apps
    <3>3. f.dialog = w.dialog /\ f.workers = w.workers /\ f.log = w.log
      BY <1>1 DEF Worlds
    <3>4. /\ f.app.vault = w.app.vault /\ f.app.keys = w.app.keys /\ f.app.active = w.app.active
          /\ f.app.buffer = w.app.buffer /\ f.app.page = w.app.page /\ f.app.dirty = w.app.dirty
          /\ f.app.held = w.app.held /\ f.app.trashView = w.app.trashView
          /\ f.app.timers = w.app.timers
      BY <1>1 DEF Worlds, Apps
    <3>5. f.disk = w.disk
      BY <1>1 DEF Worlds
    <3> QED
      BY <3>1, <3>2, <3>3, <3>4, <3>5, Aside DEF SameScene
  <2>3. CASE o = Outcome(TRUE, SaveParts(w, parts))
    <3>1. o.ok = TRUE /\ o.w = SaveParts(w, parts)
      BY <2>3 DEF Outcome
    <3>2. parts \subseteq w.app.dirty /\ (c => parts = w.app.dirty)
      OBVIOUS
    <3>3. /\ Good(o.w) /\ SameScene(w, o.w) /\ Room(o.w) = Room(w)
          /\ c => o.w.app.dirty = {} /\ (Minds => o.w.log.unsaved = {})
          /\ o.w.log.unsaved \subseteq w.log.unsaved
      BY <1>4, <3>1, <3>2, SavedParts
    <3> QED
      BY <3>1, <3>3 DEF Good, Rest
  <2> QED
    BY <2>1, <2>2, <2>3
<1> QED
  BY <1>2, <1>3, <1>4

LEMMA StashRests ==
    ASSUME NEW w, Rest(w), w.app.dirty = {}
    PROVE  /\ Rest(Stash(w)) /\ Stash(w).app.active = None
           /\ Stash(w).dialog = w.dialog /\ Stash(w).app.vault = w.app.vault
           /\ Room(Stash(w)) = Room(w)
<1> DEFINE n == w.app.active
           keeps == IF IsSecret(w, n) THEN ~LockOnSwitch ELSE w.app.dirty = {}
           x == [w EXCEPT !.app.active = None, !.app.held = IF keeps THEN @ \cup {n} ELSE @]
<1>1. w \in Worlds
  BY DEF Rest, Sound
<1>2. CASE n = None
  BY <1>2 DEF Stash
<1>3. CASE n # None
  <2>1. Stash(w) = x /\ n \in Notes
    BY <1>1, <1>3 DEF Stash, Worlds, Apps
  <2> DEFINE held == IF keeps THEN w.app.held \cup {n} ELSE w.app.held
             a == [w.app EXCEPT !.active = None, !.held = held]
  <2>20. x.app = a /\ x = [w EXCEPT !.app = a]
    BY <1>1 DEF Worlds
  <2>21. w.app \in Apps /\ held \subseteq Notes /\ held \subseteq w.app.held \cup {n}
    BY <1>1, <2>1 DEF Worlds, Apps
  <2> HIDE DEF held
  <2>22. a \in Apps
    BY <2>21 DEF Apps
  <2>2. x \in Worlds
    BY <1>1, <2>20, <2>22 DEF Worlds
  <2>3. x.dialog = w.dialog /\ x.workers = w.workers /\ x.log = w.log
    BY <1>1 DEF Worlds
  <2>23. /\ a.vault = w.app.vault /\ a.keys = w.app.keys /\ a.active = None
         /\ a.trashView = w.app.trashView /\ a.held = held /\ a.dirty = {}
    BY <2>21 DEF Apps
  <2> HIDE DEF x
  <2>4. /\ x.app.vault = w.app.vault /\ x.app.keys = w.app.keys /\ x.app.active = None
        /\ x.app.trashView = w.app.trashView /\ x.app.held = held /\ x.app.dirty = {}
        /\ x.disk = w.disk
    BY <1>1, <2>20, <2>23 DEF Worlds
  <2>5. ~Shut(w) /\ ~Shut(x)
    BY <1>3, <2>4 DEF Rest, Sound, Blank, Shut
  <2>6. Own(x)
    BY <2>4, <2>21, SessionAssumption DEF Rest, Sound, Own
  <2>60. Fits(x)
    BY <2>4 DEF Rest, Sound, Fits, Shows
  <2>7. Sound(x)
    BY <2>2, <2>3, <2>4, <2>5, <2>6, <2>60 DEF Rest, Sound, Blank, Asking
  <2> QED
    BY <2>1, <2>3, <2>4, <2>7 DEF Rest, Room
<1> QED
  BY <1>2, <1>3

LEMMA LeaveGood ==
    ASSUME NEW w, Good(w), NEW o \in PrepareToLeave(w)
    PROVE  /\ o.ok \in BOOLEAN /\ Good(o.w)
           /\ o.w.dialog = w.dialog /\ o.w.app.vault = w.app.vault /\ Room(o.w) = Room(w)
           /\ o.ok => Rest(o.w) /\ o.w.app.active = None
<1>1. PICK p \in Persist(CancelTimers(w), TRUE) : o = Outcome(p.ok, IF p.ok THEN Stash(p.w) ELSE p.w)
  BY DEF PrepareToLeave
<1>2. o.ok = p.ok /\ o.w = IF p.ok THEN Stash(p.w) ELSE p.w
  BY <1>1 DEF Outcome
<1>3. /\ Good(CancelTimers(w)) /\ CancelTimers(w).dialog = w.dialog
      /\ CancelTimers(w).app.vault = w.app.vault /\ Room(CancelTimers(w)) = Room(w)
  BY CancelTimersGood
<1>4. /\ p.ok \in BOOLEAN /\ Good(p.w) /\ SameScene(CancelTimers(w), p.w) /\ Room(p.w) = Room(w)
      /\ p.ok => Rest(p.w) /\ p.w.app.dirty = {}
  BY <1>1, <1>3, PersistGood
<1>5. p.w.dialog = w.dialog /\ p.w.app.vault = w.app.vault
  BY <1>3, <1>4 DEF SameScene
<1> QED
  BY <1>2, <1>4, <1>5, StashRests, RestIsGood

\* A window with nothing unsaved shows something else of the same vault.
LEMMA NewApp ==
    ASSUME NEW w, Rest(w), NEW a \in Apps,
           a.vault = w.app.vault, a.keys = w.app.keys,
           Shut(w) => /\ a.active = None /\ a.held = {} /\ a.buffer = None
                      /\ a.dirty = {} /\ a.timers = {} /\ a.page # "editor",
           a.trashView => w.dialog.kind \notin NoteDialogs,
           a.active # None => ~a.trashView,
           \A n \in Notes : n = a.active \/ n \in a.held => Home[n] = a.vault,
           Shows(a, w.disk)
    PROVE  /\ Rest([w EXCEPT !.app = a]) /\ Room([w EXCEPT !.app = a]) = Room(w)
           /\ [w EXCEPT !.app = a].app = a /\ [w EXCEPT !.app = a].disk = w.disk
           /\ [w EXCEPT !.app = a].dialog = w.dialog /\ [w EXCEPT !.app = a].workers = w.workers
           /\ Shut([w EXCEPT !.app = a]) = Shut(w)
<1> DEFINE x == [w EXCEPT !.app = a]
<1>1. w \in Worlds
  BY DEF Rest, Sound
<1>2. x \in Worlds
  BY <1>1 DEF Worlds
<1>3. /\ x.app = a /\ x.disk = w.disk /\ x.dialog = w.dialog /\ x.workers = w.workers
      /\ x.log = w.log
  BY <1>1 DEF Worlds
<1> HIDE DEF x
<1>4. Shut(x) = Shut(w)
  BY <1>3 DEF Shut
<1>5. Blank(x)
  BY <1>3, <1>4 DEF Blank
<1>6. Asking(x) /\ Own(x) /\ Fits(x)
  BY <1>3, <1>4 DEF Asking, Own, Fits, Rest, Sound
<1>7. Rest(x) /\ Room(x) = Room(w)
  BY <1>2, <1>3, <1>5, <1>6 DEF Rest, Sound, Room
<1> QED
  BY <1>3, <1>4, <1>7 DEF x

LEMMA DisplayRests ==
    ASSUME NEW w, Rest(w), NEW n \in Listed(w), ~w.app.trashView
    PROVE  Rest(Display(w, n)) /\ Room(Display(w, n)) = Room(w)
<1> DEFINE a == [w.app EXCEPT !.active = n, !.buffer = w.disk.text[n], !.page = "editor",
                              !.dirty = {}, !.held = @ \ {n}, !.failed = FALSE, !.clock = FALSE]
           x == [w EXCEPT !.app = a]
<1>1. w \in Worlds /\ n \in Notes /\ ~Shut(w) /\ Home[n] = w.app.vault /\ Own(w)
  BY DEF Rest, Sound, Listed, In
<1>2. w.app \in Apps /\ w.disk.text[n] \in Notes \cup {None}
  BY <1>1 DEF Worlds, Disks
<1>3. a \in Apps
  BY <1>1, <1>2 DEF Apps, Pages
<1>4. /\ a.vault = w.app.vault /\ a.keys = w.app.keys /\ ~a.trashView
      /\ a.active = n /\ a.held \subseteq w.app.held
      /\ a.buffer = w.disk.text[n] /\ a.dirty = {}
  BY <1>2 DEF Apps
<1> HIDE DEF a
<1>40. w.disk.place[n] = "notes" /\ (Faithful => w.disk.text[n] = n)
  BY <1>1 DEF Listed, In, Rest, Sound, Fits, Whole
<1>41. Shows(a, w.disk)
  BY <1>4, <1>40 DEF Shows
<1>5. Rest(x) /\ Room(x) = Room(w)
  BY <1>1, <1>3, <1>4, <1>41, NewApp DEF Own
<1>6. [w EXCEPT !.app.active = n, !.app.buffer = w.disk.text[n], !.app.page = "editor",
                !.app.dirty = {}, !.app.held = @ \ {n}, !.app.failed = FALSE,
                !.app.clock = FALSE] = x
  BY <1>1 DEF a, Worlds
<1> HIDE DEF x
<1>7. Display(w, n) = Touch(x)
  BY <1>6 DEF Display
<1> QED
  BY <1>5, <1>7, TouchGood, RestIsGood

\* The worlds of OpenNote, but for the dialog
LEMMA OpenRests ==
    ASSUME NEW w, Rest(w), NEW n \in Notes, NEW prompt \in BOOLEAN, NEW x \in OpenNote(w, n, prompt)
    PROVE  Rest(x) /\ Room(x) = Room(w)
<1> DEFINE s == [w EXCEPT !.app.selected = n, !.app.trashView = FALSE]
           a == [w.app EXCEPT !.selected = n, !.trashView = FALSE]
           b == [w.app EXCEPT !.selected = n, !.trashView = FALSE, !.page = "locked"]
           locked == [s EXCEPT !.app.page = "locked",
                               !.dialog = IF prompt THEN [kind |-> "note", of |-> n] ELSE @]
<1>1. w \in Worlds
  BY DEF Rest, Sound
<1>2. w.app \in Apps
  BY <1>1, WorldParts
<1>3. CASE n \notin Listed(w)
  BY <1>3 DEF OpenNote
<1>4. CASE n \in Listed(w)
  <2>1. ~Shut(w)
    BY <1>4 DEF Listed, In
  <2>2. a \in Apps /\ b \in Apps
    BY <1>2 DEF Apps, Pages
  <2>3. /\ a.vault = w.app.vault /\ a.keys = w.app.keys /\ ~a.trashView
        /\ b.vault = w.app.vault /\ b.keys = w.app.keys /\ ~b.trashView
        /\ a.active = w.app.active /\ a.held = w.app.held
        /\ a.dirty = w.app.dirty /\ a.buffer = w.app.buffer
        /\ b.active = w.app.active /\ b.held = w.app.held
        /\ b.dirty = w.app.dirty /\ b.buffer = w.app.buffer
    BY <1>2 DEF Apps
  <2>4. s = [w EXCEPT !.app = a]
    BY <1>1 DEF Worlds
  <2>5. locked = [[w EXCEPT !.app = b] EXCEPT !.dialog = IF prompt THEN [kind |-> "note", of |-> n] ELSE @]
    BY <1>1 DEF Worlds
  <2> DEFINE sa == [w EXCEPT !.app = a]
             sb == [w EXCEPT !.app = b]
             sn == [sb EXCEPT !.dialog = [kind |-> "note", of |-> n]]
  <2> HIDE DEF a, b
  <2>5a. Own(w) /\ Shows(a, w.disk) /\ Shows(b, w.disk)
    BY <2>3 DEF Rest, Sound, Fits, Shows
  <2>6. /\ Rest(sa) /\ sa.app = a /\ sa.disk = w.disk /\ Shut(sa) = Shut(w) /\ Room(sa) = Room(w)
        /\ Rest(sb) /\ sb.app = b /\ sb.disk = w.disk /\ Shut(sb) = Shut(w) /\ Room(sb) = Room(w)
    BY <2>1, <2>2, <2>3, <2>5a, NewApp DEF Own
  <2> HIDE DEF sa, sb
  <2>7. Rest(sn) /\ Room(sn) = Room(w)
    <3>1. sb \in Worlds
      BY <2>6 DEF Rest, Sound
    <3>2. sn \in Worlds
      BY <3>1 DEF Worlds, Dialogs
    <3>3. /\ sn.app = sb.app /\ sn.disk = sb.disk /\ sn.workers = sb.workers /\ sn.log = sb.log
          /\ sn.dialog.kind = "note" /\ sn.dialog.of = n
      BY <3>1 DEF Worlds
    <3> HIDE DEF sn
    <3>4. ~Shut(sn) /\ ~Shut(sb)
      BY <2>1, <2>6, <3>3 DEF Shut
    <3>5. Blank(sn) /\ Asking(sn) /\ Own(sn) /\ Fits(sn)
      BY <2>3, <2>6, <3>3, <3>4 DEF Blank, Asking, Own, Fits, Rest, Sound, NoteDialogs, Reopenings
    <3>6. Room(sn) = Room(sb)
      BY <3>3 DEF Room
    <3> QED
      BY <2>6, <3>2, <3>3, <3>5, <3>6 DEF Rest, Sound
  <2>8. locked = sn \/ locked = sb
    <3>1. sb \in Worlds
      BY <2>6 DEF Rest, Sound
    <3>2. [sb EXCEPT !.dialog = sb.dialog] = sb
      BY <3>1 DEF Worlds
    <3>3. CASE prompt
      BY <2>5, <3>3 DEF sb
    <3>4. CASE ~prompt
      BY <2>5, <3>2, <3>4 DEF sb
    <3> QED
      BY <3>3, <3>4
  <2>9. n \in Listed(sa) /\ ~sa.app.trashView
    BY <1>4, <2>3, <2>6 DEF Listed, In
  <2>10. Rest(Display(sa, n)) /\ Room(Display(sa, n)) = Room(w)
    BY <2>6, <2>9, DisplayRests
  <2>11. x = Display(s, n) \/ x = s \/ x = locked
    BY <1>4 DEF OpenNote
  <2> HIDE DEF s, locked
  <2> QED
    BY <2>4, <2>6, <2>7, <2>8, <2>10, <2>11 DEF sa
<1> QED
  BY <1>3, <1>4

LEMMA ClearRests ==
    ASSUME NEW w, Rest(w)
    PROVE  /\ (Faithful => w.app.active = None)
              => Rest(ClearEditor(w)) /\ Room(ClearEditor(w)) = Room(w)
           /\ Rest(ShowTrash(w)) /\ Room(ShowTrash(w)) = Room(w)
<1> DEFINE a == [w.app EXCEPT !.dirty = {}, !.buffer = None, !.page = "empty"]
           b == [w.app EXCEPT !.page = "trash-detail"]
<1>1. w \in Worlds
  BY DEF Rest, Sound
<1>2. w.app \in Apps
  BY <1>1, WorldParts
<1>3. a \in Apps /\ b \in Apps
  BY <1>2 DEF Apps, Pages
<1>4. /\ a.vault = w.app.vault /\ a.keys = w.app.keys /\ a.trashView = w.app.trashView
      /\ a.active = w.app.active /\ a.held = w.app.held /\ a.timers = w.app.timers
      /\ a.buffer = None /\ a.dirty = {} /\ a.page = "empty"
  BY <1>2 DEF Apps
<1>5. /\ b.vault = w.app.vault /\ b.keys = w.app.keys /\ b.trashView = w.app.trashView
      /\ b.active = w.app.active /\ b.held = w.app.held /\ b.timers = w.app.timers
      /\ b.buffer = w.app.buffer /\ b.dirty = w.app.dirty /\ b.page = "trash-detail"
  BY <1>2 DEF Apps
<1>6. ClearEditor(w) = [w EXCEPT !.app = a] /\ ShowTrash(w) = [w EXCEPT !.app = b]
  BY <1>1 DEF ClearEditor, ShowTrash, Worlds
<1> HIDE DEF a, b
<1>7. /\ w.app.trashView => w.dialog.kind \notin NoteDialogs
      /\ w.app.active # None => ~w.app.trashView
      /\ Shut(w) => /\ w.app.active = None /\ w.app.held = {} /\ w.app.buffer = None
                    /\ w.app.dirty = {} /\ w.app.timers = {}
      /\ \A n \in Notes : n = w.app.active \/ n \in w.app.held => Home[n] = w.app.vault
      /\ Shows(w.app, w.disk)
  BY DEF Rest, Sound, Blank, Asking, Own, Fits
<1>70. (Faithful => w.app.active = None) => Shows(a, w.disk)
  BY <1>4, <1>7 DEF Shows
<1>71. Shows(b, w.disk)
  BY <1>5, <1>7 DEF Shows
<1>8. (Faithful => w.app.active = None)
      => Rest([w EXCEPT !.app = a]) /\ Room([w EXCEPT !.app = a]) = Room(w)
  BY <1>3, <1>4, <1>7, <1>70, NewApp
<1>9. Rest([w EXCEPT !.app = b]) /\ Room([w EXCEPT !.app = b]) = Room(w)
  BY <1>3, <1>5, <1>7, <1>71, NewApp
<1> QED
  BY <1>6, <1>8, <1>9

LEMMA FallBackRests == ASSUME NEW w, Rest(w), NEW x \in FallBack(w) PROVE Rest(x) /\ Room(x) = Room(w)
<1> DEFINE rows == In(w, IF w.app.trashView THEN "trash" ELSE "notes")
<1>1. rows \subseteq Notes
  BY DEF In
<1>2. \/ x = ClearEditor(w) /\ (EmptyViews \/ rows = {})
      \/ x = ShowTrash(w)
      \/ \E n \in rows : x \in OpenNote(w, n, FALSE)
  BY DEF FallBack
<1>3. ASSUME Faithful, EmptyViews \/ rows = {}, w.app.active # None PROVE FALSE
  <2>1. /\ w.app.active \in Notes /\ ~w.app.trashView /\ ~Shut(w)
        /\ Home[w.app.active] = w.app.vault /\ w.disk.place[w.app.active] = "notes"
    BY <1>3 DEF Rest, Sound, Worlds, Apps, Blank, Asking, Own, Fits, Shows
  <2> QED
    BY <1>3, <2>1 DEF In, Faithful
<1> QED
  BY <1>1, <1>2, <1>3, ClearRests, OpenRests

LEMMA LeaveViewRests ==
    ASSUME NEW w, Rest(w), NEW n, NEW x \in MayLeaveView(w, n) PROVE Rest(x) /\ Room(x) = Room(w)
  BY FallBackRests DEF MayLeaveView

\* Of the files only the texts matter, and where the open note is.
LEMMA NewDisk ==
    ASSUME NEW w, Good(w), NEW d \in Disks, Whole(d), Shows(w.app, d)
    PROVE  /\ Good([w EXCEPT !.disk = d]) /\ (Rest(w) => Rest([w EXCEPT !.disk = d]))
           /\ [w EXCEPT !.disk = d].app = w.app /\ [w EXCEPT !.disk = d].disk = d
           /\ [w EXCEPT !.disk = d].dialog = w.dialog /\ Room([w EXCEPT !.disk = d]) = Room(w)
<1> DEFINE x == [w EXCEPT !.disk = d]
<1>1. w \in Worlds
  BY DEF Good, Sound
<1>2. x \in Worlds
  BY <1>1 DEF Worlds
<1>3. /\ x.app = w.app /\ x.disk = d /\ x.dialog = w.dialog /\ x.workers = w.workers
      /\ x.log = w.log
  BY <1>1 DEF Worlds
<1> HIDE DEF x
<1>4. Sound(x)
  BY <1>2, <1>3 DEF Good, Sound, Blank, Asking, Own, Fits, Shut
<1>5. Good(x) /\ (Rest(w) => Rest(x)) /\ Room(x) = Room(w)
  BY <1>3, <1>4 DEF Good, Rest, Held, Calm, Room
<1> QED
  BY <1>3, <1>5 DEF x

\* A dialog about a note of a vault that is open
LEMMA NewDialog ==
    ASSUME NEW w, Rest(w), ~Shut(w), NEW n \in Notes, NEW kind \in NoteDialogs \cup {"delete"},
           kind \in NoteDialogs => ~w.app.trashView, kind \in Reopenings => kind \in Commands
    PROVE  /\ Rest([w EXCEPT !.dialog = [kind |-> kind, of |-> n]])
           /\ Room([w EXCEPT !.dialog = [kind |-> kind, of |-> n]]) = Room(w)
<1> DEFINE g == [kind |-> kind, of |-> n]
           x == [w EXCEPT !.dialog = g]
<1>1. w \in Worlds
  BY DEF Rest, Sound
<1>2. g \in Dialogs /\ g.kind = kind /\ g.of = n /\ kind # "vault"
  BY DEF Dialogs, NoteDialogs
<1> HIDE DEF g
<1>3. x \in Worlds
  BY <1>1, <1>2 DEF Worlds
<1>4. /\ x.app = w.app /\ x.disk = w.disk /\ x.dialog = g /\ x.workers = w.workers
      /\ x.log = w.log
  BY <1>1 DEF Worlds
<1> HIDE DEF x
<1>5. Sound(x)
  BY <1>2, <1>3, <1>4 DEF Rest, Sound, Blank, Asking, Own, Fits, Shut
<1>6. Room(x) = Room(w)
  BY <1>4 DEF Room
<1> QED
  BY <1>4, <1>5, <1>6 DEF Rest, x, g

LEMMA NoDialogGood ==
    ASSUME NEW w, Good(w)
    PROVE  /\ Good([w EXCEPT !.dialog = NoDialog]) /\ (Rest(w) => Rest([w EXCEPT !.dialog = NoDialog]))
           /\ [w EXCEPT !.dialog = NoDialog].app = w.app
           /\ [w EXCEPT !.dialog = NoDialog].disk = w.disk
           /\ [w EXCEPT !.dialog = NoDialog].dialog.kind = "none"
           /\ Room([w EXCEPT !.dialog = NoDialog]) = Room(w)
<1> DEFINE x == [w EXCEPT !.dialog = NoDialog]
<1>1. w \in Worlds
  BY DEF Good, Sound
<1>2. NoDialog \in Dialogs /\ NoDialog.kind = "none"
  BY DEF NoDialog, Dialogs
<1>3. x \in Worlds
  BY <1>1, <1>2 DEF Worlds
<1>4. x.app = w.app /\ x.disk = w.disk /\ x.dialog = NoDialog /\ x.workers = w.workers /\ x.log = w.log
  BY <1>1 DEF Worlds
<1> HIDE DEF x
<1>5. Sound(x)
  BY <1>2, <1>3, <1>4 DEF Good, Sound, Blank, Asking, Own, Fits, Shut, NoteDialogs, Reopenings
<1>6. Room(x) = Room(w)
  BY <1>4 DEF Room
<1> QED
  BY <1>2, <1>4, <1>5, <1>6 DEF Good, Rest, Held, Calm, x

LEMMA EnterViewGood ==
    ASSUME NEW w, Good(w), NEW trash \in BOOLEAN, trash => w.dialog.kind \notin NoteDialogs,
           NEW o \in EnterView(w, trash)
    PROVE  o.ok \in BOOLEAN /\ Good(o.w) /\ (o.ok => Rest(o.w)) /\ Room(o.w) = Room(w)
<1>1. PICK p \in Persist(w, TRUE) :
        IF p.ok THEN \E v \in FallBack(Emptied(p.w, trash)) \cup {Emptied(p.w, trash)} : o = Outcome(TRUE, v) ELSE o = p
  BY DEF EnterView
<1>2. /\ p.ok \in BOOLEAN /\ Good(p.w) /\ SameScene(w, p.w) /\ Room(p.w) = Room(w)
      /\ p.ok => Rest(p.w) /\ p.w.app.dirty = {}
  BY PersistGood
<1>3. CASE p.ok
  <2> DEFINE v == Stash(p.w)
             sel == IF trash THEN None ELSE v.app.selected
             a == [v.app EXCEPT !.trashView = trash, !.page = "empty", !.selected = sel]
  <2>1. Rest(v) /\ v.app.active = None /\ v.dialog = w.dialog /\ Room(v) = Room(w)
    BY <1>2, <1>3, StashRests DEF SameScene
  <2>2. v \in Worlds /\ Blank(v) /\ Own(v) /\ Fits(v)
    BY <2>1 DEF Rest, Sound
  <2> HIDE DEF v
  <2>3. v.app \in Apps
    BY <2>2, WorldParts
  <2>4. sel \in Notes \cup {None}
    BY <2>3 DEF Apps
  <2>5. Emptied(p.w, trash) = [v EXCEPT !.app = a]
    BY <2>2 DEF v, Worlds, Emptied
  <2> HIDE DEF sel
  <2>6. a \in Apps
    BY <2>3, <2>4 DEF Apps, Pages
  <2>7. /\ a.vault = v.app.vault /\ a.keys = v.app.keys /\ a.trashView = trash
        /\ a.active = v.app.active /\ a.held = v.app.held /\ a.timers = v.app.timers
        /\ a.buffer = v.app.buffer /\ a.dirty = v.app.dirty /\ a.page = "empty"
    BY <2>3 DEF Apps
  <2> HIDE DEF a
  <2>70. Shows(a, v.disk)
    BY <2>2, <2>7 DEF Fits, Shows
  <2>8. Rest(Emptied(p.w, trash)) /\ Room(Emptied(p.w, trash)) = Room(w)
    BY <2>1, <2>2, <2>5, <2>6, <2>7, <2>70, NewApp DEF Blank, Own
  <2>9. PICK u \in FallBack(Emptied(p.w, trash)) \cup {Emptied(p.w, trash)} : o = Outcome(TRUE, u)
    BY <1>1, <1>3
  <2>10. Rest(u) /\ Room(u) = Room(w) /\ o.ok = TRUE /\ o.w = u
    BY <2>8, <2>9, FallBackRests DEF Outcome
  <2> QED
    BY <2>10, RestIsGood
<1>4. CASE ~p.ok
  BY <1>1, <1>2, <1>4
<1> QED
  BY <1>2, <1>3, <1>4

LEMMA WithNoteRests ==
    ASSUME NEW v, Rest(v), NEW n \in Notes
    PROVE  Rest(WithNote(v, n)) /\ Room(WithNote(v, n)) = Room(v)
<1> DEFINE a == [v.app EXCEPT !.selected = n, !.trashView = FALSE]
           d == [text |-> [v.disk.text EXCEPT ![n] = n], secret |-> v.disk.secret \ {n},
                 place |-> [v.disk.place EXCEPT ![n] = "notes"]]
           va == [v EXCEPT !.app = a]
<1>1. v \in Worlds /\ Blank(v) /\ Own(v) /\ Fits(v) /\ n \in Notes
  BY DEF Rest, Sound
<1>2. v.app \in Apps /\ v.disk \in Disks
  BY <1>1, WorldParts
<1>3. a \in Apps
  BY <1>1, <1>2 DEF Apps
<1>4. /\ a.vault = v.app.vault /\ a.keys = v.app.keys /\ a.trashView = FALSE
      /\ a.active = v.app.active /\ a.held = v.app.held /\ a.timers = v.app.timers
      /\ a.buffer = v.app.buffer /\ a.dirty = v.app.dirty /\ a.page = v.app.page
  BY <1>2 DEF Apps
<1>5. d \in Disks
  BY <1>1, <1>2 DEF Disks
<1>6. WithNote(v, n) = [va EXCEPT !.disk = d]
  BY <1>1, <1>2 DEF Worlds, WithNote
<1>60. Whole(d) /\ \A k \in Notes : v.disk.place[k] = "notes" => d.place[k] = "notes"
  BY <1>1, <1>2 DEF Fits, Whole, Disks
<1> HIDE DEF a, d
<1>61. Shows(a, v.disk)
  BY <1>1, <1>4 DEF Fits, Shows
<1>7. Rest(va) /\ Room(va) = Room(v) /\ va.app = a
  BY <1>1, <1>3, <1>4, <1>61, NewApp DEF Blank, Own
<1>62. Shows(a, d)
  BY <1>3, <1>60, <1>61 DEF Shows, Apps
<1> HIDE DEF va
<1>8. Rest(WithNote(v, n)) /\ Room(WithNote(v, n)) = Room(v)
  BY <1>5, <1>6, <1>60, <1>62, <1>7, NewDisk, RestIsGood
<1> QED
  BY <1>8

LEMMA CreateNoteGood ==
    ASSUME NEW w, Good(w), NEW x \in CreateNote(w) PROVE Good(x) /\ Room(x) = Room(w)
<1> DEFINE created(v) ==
             {v} \cup UNION {OpenNote(WithNote(v, n), n, TRUE) : n \in IF v.app.readOnly THEN {} ELSE In(v, "gone")}
           leave(v) == Then(PrepareToLeave(v), created)
<1>1. ASSUME NEW v, Rest(v), NEW y \in created(v) PROVE Rest(y) /\ Room(y) = Room(v)
  <2>1. CASE y = v
    BY <1>1, <2>1
  <2>2. ASSUME NEW n \in In(v, "gone"), y \in OpenNote(WithNote(v, n), n, TRUE)
        PROVE Rest(y) /\ Room(y) = Room(v)
    <3>1. n \in Notes /\ Rest(WithNote(v, n)) /\ Room(WithNote(v, n)) = Room(v)
      BY <1>1, WithNoteRests DEF In
    <3> QED
      BY <2>2, <3>1, OpenRests
  <2> QED
    BY <1>1, <2>1, <2>2
<1> HIDE DEF created
<1>2. ASSUME NEW v, Good(v), NEW y \in leave(v) PROVE Good(y) /\ Room(y) = Room(v)
  <2>1. PICK o \in PrepareToLeave(v) : IF o.ok THEN y \in created(o.w) ELSE y = o.w
    BY <1>2 DEF Then
  <2> QED
    BY <1>1, <1>2, <2>1, LeaveGood, RestIsGood
<1> HIDE DEF leave
<1>3. Good(CancelTimers(w)) /\ Room(CancelTimers(w)) = Room(w)
  BY CancelTimersGood
<1>4. x = CancelTimers(w) \/ x \in leave(w) \/ x \in Then(EnterView(CancelTimers(w), FALSE), leave)
  BY DEF CreateNote, leave, created, Then
<1>5. ASSUME x \in Then(EnterView(CancelTimers(w), FALSE), leave) PROVE Good(x) /\ Room(x) = Room(w)
  <2>1. PICK o \in EnterView(CancelTimers(w), FALSE) : IF o.ok THEN x \in leave(o.w) ELSE x = o.w
    BY <1>5 DEF Then
  <2>2. Good(o.w) /\ Room(o.w) = Room(w)
    BY <1>3, <2>1, EnterViewGood
  <2> QED
    BY <1>2, <2>1, <2>2
<1> QED
  BY <1>2, <1>3, <1>4, <1>5

\* The session is bumped: no worker that is left is fresh.
LEMMA ForgetRests ==
    ASSUME NEW w \in Worlds, Minds => w.log.unsaved = {}, w.dialog.kind # "vault",
           w.dialog.kind \in NoteDialogs \cup {"delete"} => w.dialog.of \in Notes,
           w.dialog.kind \in Reopenings => w.dialog.kind \in Commands, Whole(w.disk)
    PROVE  /\ Rest(LockedScreen(Forget(w)))
           /\ Room(LockedScreen(Forget(w))) = <<w.app.vault, FALSE, FALSE>>
           /\ w.app.vault \notin Secure => Rest(Forget(w))
           /\ Room(Forget(w)) = <<w.app.vault, FALSE, FALSE>>
           /\ Forget(w).dialog = w.dialog /\ Forget(w).app.active = None
<1> DEFINE a == [Closed EXCEPT !.vault = w.app.vault, !.readOnly = w.app.readOnly,
                               !.page = w.app.page, !.buffer = w.app.buffer]
           b == [a EXCEPT !.page = "vault-locked", !.buffer = None]
           l == [w.log EXCEPT !.asked = FALSE]
           x == Forget(w)
           y == LockedScreen(x)
<1>1. /\ w.app \in Apps /\ w.disk \in Disks /\ w.dialog \in Dialogs
      /\ w.workers \in Workers /\ w.log \in Logs
  BY WorldParts
<1>2. a \in Apps /\ b \in Apps
  <2>1. /\ w.app.vault \in Vaults \cup {None} /\ w.app.readOnly \in BOOLEAN
        /\ w.app.page \in Pages /\ w.app.buffer \in Notes \cup {None}
    BY <1>1 DEF Apps
  <2>2. Closed \in Apps
    BY DEF Closed, Apps, Pages
  <2>3. a \in Apps
    BY <2>1, <2>2 DEF Apps
  <2> HIDE DEF a
  <2>4. b \in Apps
    BY <2>3 DEF Apps, Pages
  <2> QED
    BY <2>3, <2>4
<1>3. /\ a.vault = w.app.vault /\ a.active = None /\ a.trashView = FALSE
      /\ a.keys = FALSE /\ a.held = {} /\ a.dirty = {} /\ b.keys = FALSE
      /\ b.vault = w.app.vault /\ b.active = None /\ b.trashView = FALSE
      /\ b.held = {} /\ b.buffer = None /\ b.dirty = {} /\ b.timers = {} /\ b.page = "vault-locked"
  BY <1>1 DEF Apps, Closed
<1>4. Outdated(w.workers) \in Workers /\ \A k \in Outdated(w.workers) : ~k.fresh
  <2>1. \A k \in w.workers : k.vault \in Secure
    BY <1>1 DEF Workers
  <2>2. ASSUME NEW k \in Outdated(w.workers) PROVE k \in [vault : Secure, fresh : BOOLEAN] /\ ~k.fresh
    <3>1. PICK j \in w.workers : k = [vault |-> j.vault, fresh |-> FALSE]
      BY DEF Outdated
    <3> QED
      BY <2>1, <3>1
  <2> QED
    BY <2>2 DEF Workers
<1>5. l \in Logs /\ (Minds => l.unsaved = {}) /\ l.asked = FALSE
  BY <1>1 DEF Logs
<1>6. x = [w EXCEPT !.app = a, !.workers = Outdated(w.workers), !.log = l]
  BY DEF Forget, Worlds
<1> HIDE DEF a, b, l, x
<1>7. /\ x.app = a /\ x.disk = w.disk /\ x.dialog = w.dialog /\ x.workers = Outdated(w.workers)
      /\ x.log = l
  BY <1>6 DEF Worlds
<1>8. x \in Worlds
  BY <1>1, <1>2, <1>4, <1>5, <1>6 DEF Worlds
<1>9. y = [x EXCEPT !.app = b]
  BY <1>7, <1>8 DEF b, Worlds, LockedScreen
<1> HIDE DEF y
<1>10. y \in Worlds
  BY <1>2, <1>8, <1>9 DEF Worlds
<1>11. /\ y.app = b /\ y.dialog = w.dialog /\ y.workers = Outdated(w.workers) /\ y.log = l
       /\ y.disk = w.disk
  BY <1>7, <1>8, <1>9 DEF Worlds
<1>110. Fits(x) /\ Fits(y)
  BY <1>3, <1>7, <1>11 DEF Fits, Shows
<1>12. Asking(x) /\ Asking(y) /\ Blank(y) /\ Own(x) /\ Own(y)
  BY <1>3, <1>4, <1>7, <1>11, SessionAssumption DEF Asking, Blank, Own
<1>12a. Room(x) = <<w.app.vault, FALSE, FALSE>> /\ Room(y) = <<w.app.vault, FALSE, FALSE>>
  BY <1>3, <1>5, <1>7, <1>11 DEF Room
<1>13. w.app.vault \notin Secure => Blank(x)
  BY <1>3, <1>7 DEF Blank, Shut
<1> QED
  BY <1>3, <1>5, <1>7, <1>8, <1>10, <1>11, <1>110, <1>12, <1>12a, <1>13 DEF Rest, Sound, x, y

LEMMA EnterWorkspaceGood ==
    ASSUME NEW w, Rest(w), w.app.active = None, w.dialog.kind = "none", NEW x \in EnterWorkspace(w)
    PROVE  Good(x) /\ Room(x) = Room(w)
<1> DEFINE a(t) == [w.app EXCEPT !.trashView = t]
           u(t) == [w EXCEPT !.app = a(t)]
<1>1. w \in Worlds /\ Blank(w) /\ Own(w) /\ Fits(w)
  BY DEF Rest, Sound
<1>2. w.app \in Apps
  BY <1>1, WorldParts
<1>3. ASSUME NEW t \in BOOLEAN
      PROVE  Rest(u(t)) /\ Room(u(t)) = Room(w) /\ [w EXCEPT !.app.trashView = t] = u(t)
  <2>1. a(t) \in Apps
    BY <1>2 DEF Apps
  <2>2. /\ a(t).vault = w.app.vault /\ a(t).keys = w.app.keys
        /\ a(t).active = w.app.active /\ a(t).held = w.app.held /\ a(t).timers = w.app.timers
        /\ a(t).buffer = w.app.buffer /\ a(t).dirty = w.app.dirty /\ a(t).page = w.app.page
    BY <1>2 DEF Apps
  <2>3. [w EXCEPT !.app.trashView = t] = u(t)
    BY <1>1 DEF Worlds
  <2> HIDE DEF a
  <2>30. Shows(a(t), w.disk)
    BY <1>1, <2>2 DEF Fits, Shows
  <2>4. Rest(u(t)) /\ Room(u(t)) = Room(w)
    BY <1>1, <2>1, <2>2, <2>30, NewApp DEF Blank, Own, NoteDialogs
  <2> QED
    BY <2>3, <2>4
<1> HIDE DEF u, a
<1> DEFINE scanned(v) == IF v.app.trashView THEN {} ELSE Listed(v)
           restored(v) == IF scanned(v) = {} /\ ~v.app.readOnly THEN CreateNote(v)
                          ELSE FallBack(v) \cup UNION {OpenNote(v, n, FALSE) : n \in scanned(v)}
<1>4. ASSUME NEW v, Rest(v), NEW y \in restored(v) PROVE Good(y) /\ Room(y) = Room(v)
  <2>1. scanned(v) \subseteq Notes
    BY DEF Listed, In
  <2> HIDE DEF scanned
  <2>2. y \in CreateNote(v) \/ y \in FallBack(v) \/ \E n \in scanned(v) : y \in OpenNote(v, n, FALSE)
    BY <1>4
  <2> QED
    BY <1>4, <2>1, <2>2, CreateNoteGood, FallBackRests, OpenRests, RestIsGood
<1> DEFINE views == {[w EXCEPT !.app.trashView = t] : t \in BOOLEAN}
<1>5. EnterWorkspace(w) = {Touch(v) : v \in UNION {restored(v) : v \in views}}
                          \cup (IF ReadsFail THEN views ELSE {})
  BY DEF EnterWorkspace
<1>6. \A v \in views : Rest(v) /\ Room(v) = Room(w)
  BY <1>3
<1> HIDE DEF views, restored
<1> QED
  BY <1>4, <1>5, <1>6, TouchGood, RestIsGood

LEMMA SwitchGood ==
    ASSUME NEW w, Good(w), w.dialog.kind = "none", NEW v \in Vaults \cup {None}, NEW r \in BOOLEAN,
           NEW x \in CommitVaultSwitch(w, v, r)
    PROVE  Good(x) /\ (Room(x) = Room(w) \/ Room(x) = <<v, FALSE, FALSE>>)
<1> DEFINE t(u) == [u EXCEPT !.app.vault = v, !.app.readOnly = r]
<1>1. ASSUME NEW u, Rest(u), u.dialog.kind = "none"
      PROVE  /\ t(u) \in Worlds /\ (Minds => t(u).log.unsaved = {}) /\ t(u).dialog.kind = "none"
             /\ t(u).app.vault = v /\ Whole(t(u).disk)
  <2> DEFINE a == [u.app EXCEPT !.vault = v, !.readOnly = r]
  <2>1. u \in Worlds
    BY <1>1 DEF Rest, Sound
  <2>2. u.app \in Apps
    BY <2>1, WorldParts
  <2>3. a \in Apps /\ a.vault = v
    BY <2>2 DEF Apps
  <2>4. t(u) = [u EXCEPT !.app = a]
    BY <2>1 DEF Worlds
  <2> HIDE DEF a, t
  <2>5. /\ t(u) \in Worlds /\ t(u).app = a /\ t(u).dialog = u.dialog /\ t(u).log = u.log
        /\ t(u).disk = u.disk
    BY <2>1, <2>3, <2>4 DEF Worlds
  <2> QED
    BY <1>1, <2>3, <2>5 DEF Rest, Sound, Fits
<1>2. ASSUME NEW u, Rest(u), u.dialog.kind = "none", NEW y \in ShowVault(u, v, r)
      PROVE  Good(y) /\ Room(y) = <<v, FALSE, FALSE>>
  <2> DEFINE f == Forget(t(u))
  <2>1. y = LockedScreen(f) \/ (v \notin Secure /\ y \in EnterWorkspace(f))
    BY <1>2 DEF ShowVault
  <2> HIDE DEF t
  <2>2. /\ Rest(LockedScreen(f)) /\ (v \notin Secure => Rest(f))
        /\ Room(LockedScreen(f)) = <<v, FALSE, FALSE>> /\ Room(f) = <<v, FALSE, FALSE>>
        /\ f.dialog.kind = "none" /\ f.app.active = None
    BY <1>1, <1>2, ForgetRests DEF NoteDialogs, Reopenings
  <2> HIDE DEF f
  <2> QED
    BY <2>1, <2>2, EnterWorkspaceGood, RestIsGood
<1> HIDE DEF t
<1>3. \/ w.app.vault = None /\ x \in ShowVault(w, v, r)
      \/ \E o \in PrepareToLeave(w) : IF o.ok THEN x \in ShowVault(o.w, v, r) ELSE x = o.w
  BY DEF CommitVaultSwitch, Then
<1>4. w.app.vault = None => Rest(w)
  BY DEF Good, Rest, Calm
<1> QED
  BY <1>2, <1>3, <1>4, LeaveGood

LEMMA LockVaultGood ==
    ASSUME NEW w, Good(w), NEW x \in LockVault(w)
    PROVE  /\ Good(x)
           /\ \/ Room(x) = Room(w)
              \/ w.app.vault \in Secure /\ Room(x) = <<w.app.vault, FALSE, FALSE>>
<1>1. CASE w.app.vault \in Secure /\ w.app.keys
  <2>1. PICK o \in Persist(w, TRUE) :
          x = IF o.ok THEN LockedScreen(Forget(o.w)) ELSE o.w
    BY <1>1 DEF LockVault, Then
  <2>2. Good(o.w) /\ SameScene(w, o.w) /\ (o.ok => Rest(o.w)) /\ Room(o.w) = Room(w)
    BY <2>1, PersistGood
  <2>3. ASSUME Rest(o.w)
        PROVE  /\ Rest(LockedScreen(Forget(o.w)))
               /\ Room(LockedScreen(Forget(o.w))) = <<w.app.vault, FALSE, FALSE>>
    <3>1. ~Shut(o.w)
      BY <1>1, <2>2 DEF Shut, SameScene
    <3>2. /\ o.w \in Worlds /\ (Minds => o.w.log.unsaved = {}) /\ o.w.dialog.kind # "vault"
          /\ o.w.dialog.kind \in NoteDialogs \cup {"delete"} => o.w.dialog.of \in Notes
          /\ o.w.dialog.kind \in Reopenings => o.w.dialog.kind \in Commands
          /\ Whole(o.w.disk)
      BY <2>3, <3>1 DEF Rest, Sound, Asking, Fits
    <3> QED
      BY <2>2, <3>2, ForgetRests DEF SameScene
  <2> QED
    BY <1>1, <2>1, <2>2, <2>3, RestIsGood
<1>2. CASE ~(w.app.vault \in Secure /\ w.app.keys)
  BY <1>2 DEF LockVault, Then
<1> QED
  BY <1>1, <1>2

LEMMA LockOpenNoteRests ==
    ASSUME NEW w, Rest(w), w.app.dirty = {}
    PROVE  Rest(LockOpenNote(w)) /\ Room(LockOpenNote(w)) = Room(w)
<1> DEFINE a == [w.app EXCEPT !.active = None, !.buffer = None, !.page = "locked", !.clock = FALSE]
<1>1. w \in Worlds /\ Blank(w) /\ Own(w)
  BY DEF Rest, Sound
<1>2. w.app \in Apps
  BY <1>1, WorldParts
<1>3. a \in Apps
  BY <1>2 DEF Apps, Pages
<1>4. /\ a.vault = w.app.vault /\ a.keys = w.app.keys /\ a.trashView = w.app.trashView
      /\ a.active = None /\ a.held = w.app.held /\ a.timers = w.app.timers
      /\ a.buffer = None /\ a.dirty = w.app.dirty /\ a.page = "locked"
  BY <1>2 DEF Apps
<1>5. LockOpenNote(w) = [w EXCEPT !.app = a]
  BY <1>1 DEF LockOpenNote, Worlds
<1>6. w.app.trashView => w.dialog.kind \notin NoteDialogs
  BY DEF Rest, Sound, Asking
<1> HIDE DEF a
<1>7. Shows(a, w.disk)
  BY <1>4 DEF Shows
<1> QED
  BY <1>1, <1>3, <1>4, <1>5, <1>6, <1>7, SessionAssumption, NewApp DEF Blank, Own

LEMMA DrainRests ==
    ASSUME NEW w, Rest(w)
    PROVE  /\ Rest([w EXCEPT !.app.held = @ \ w.disk.secret])
           /\ Room([w EXCEPT !.app.held = @ \ w.disk.secret]) = Room(w)
           /\ [w EXCEPT !.app.held = @ \ w.disk.secret].app.dirty = w.app.dirty
<1> DEFINE a == [w.app EXCEPT !.held = @ \ w.disk.secret]
<1>1. w \in Worlds /\ Blank(w) /\ Asking(w) /\ Own(w) /\ Fits(w)
  BY DEF Rest, Sound
<1>2. w.app \in Apps
  BY <1>1, WorldParts
<1>3. a \in Apps
  BY <1>2 DEF Apps
<1>4. /\ a.vault = w.app.vault /\ a.keys = w.app.keys /\ a.trashView = w.app.trashView
      /\ a.active = w.app.active /\ a.held \subseteq w.app.held /\ a.timers = w.app.timers
      /\ a.buffer = w.app.buffer /\ a.dirty = w.app.dirty /\ a.page = w.app.page
  BY <1>2 DEF Apps
<1>5. [w EXCEPT !.app.held = @ \ w.disk.secret] = [w EXCEPT !.app = a]
  BY <1>1 DEF Worlds
<1> HIDE DEF a
<1>6. Shows(a, w.disk)
  BY <1>1, <1>4 DEF Fits, Shows
<1>7. /\ Rest([w EXCEPT !.app = a]) /\ Room([w EXCEPT !.app = a]) = Room(w)
      /\ [w EXCEPT !.app = a].app = a
  BY <1>1, <1>3, <1>4, <1>6, NewApp DEF Blank, Asking, Own
<1> QED
  BY <1>4, <1>5, <1>7

LEMMA LockAllGood ==
    ASSUME NEW w, Good(w), NEW x \in LockAllEncrypted(w) PROVE Good(x) /\ Room(x) = Room(w)
<1> DEFINE d(v) == [v EXCEPT !.app.held = @ \ v.disk.secret]
<1>1. PICK o \in Persist(w, TRUE) :
        IF o.ok THEN x = d(o.w) \/ x = LockOpenNote(d(o.w)) ELSE x = o.w
  BY DEF LockAllEncrypted, Then
<1>2. Good(o.w) /\ (o.ok => Rest(o.w) /\ o.w.app.dirty = {}) /\ Room(o.w) = Room(w)
  BY PersistGood
<1>3. Rest(o.w) => Rest(d(o.w)) /\ Room(d(o.w)) = Room(o.w) /\ d(o.w).app.dirty = o.w.app.dirty
  BY DrainRests
<1> HIDE DEF d
<1> QED
  BY <1>1, <1>2, <1>3, LockOpenNoteRests, RestIsGood

LEMMA AskGood ==
    ASSUME NEW w, Good(w), NEW kind \in NoteDialogs, kind \in Reopenings => kind \in Commands,
           NEW x \in Ask(w, kind)
    PROVE  Good(x) /\ Room(x) = Room(w)
<1>1. PICK o \in Persist(w, TRUE) :
        IF o.ok
        THEN \/ x = o.w
             \/ o.w.app.active # None /\ x = [o.w EXCEPT !.dialog = [kind |-> kind, of |-> o.w.app.active]]
        ELSE x = o.w
  BY DEF Ask, Then
<1>2. Good(o.w) /\ (o.ok => Rest(o.w)) /\ Room(o.w) = Room(w)
  BY PersistGood
<1>3. ASSUME Rest(o.w), o.w.app.active # None
      PROVE  /\ Rest([o.w EXCEPT !.dialog = [kind |-> kind, of |-> o.w.app.active]])
             /\ Room([o.w EXCEPT !.dialog = [kind |-> kind, of |-> o.w.app.active]]) = Room(w)
  <2>1. ~Shut(o.w) /\ ~o.w.app.trashView
    BY <1>3 DEF Rest, Sound, Blank, Asking
  <2>2. o.w.app.active \in Notes
    BY <1>3 DEF Rest, Sound, Worlds, Apps
  <2> QED
    BY <1>2, <1>3, <2>1, <2>2, NewDialog
<1> QED
  BY <1>1, <1>2, <1>3, RestIsGood

(***************************************************************************)
(* The actions                                                             *)
(***************************************************************************)
LEMMA NowIs ==
    /\ Now.app = app /\ Now.disk = disk /\ Now.dialog = dialog /\ Now.workers = workers
    /\ Now.log = log
  BY DEF Now

\* Most actions stay in the vault; what the others do VaultAccess tells apart.
Stays(w, x) == Good(x) /\ Room(x) = Room(w)
Turns(w, x) ==
    /\ Good(x)
    /\ \/ Room(x) = Room(w)
       \/ \E v \in Vaults : Room(x) = <<v, FALSE, FALSE>>
       \/ Room(x) = <<None, FALSE, FALSE>>
       \/ Shut(w) /\ Room(x) = <<w.app.vault, FALSE, TRUE>>
       \/ Shut(w) /\ w.log.asked /\ Room(x) = <<w.app.vault, TRUE, TRUE>>

LEMMA StaysTurns == \A w, x : Stays(w, x) => Turns(w, x)
  BY DEF Stays, Turns

LEMMA DoGood == ASSUME NEW ws, \A x \in ws : Stays(Now, x), Do(ws) PROVE Stays(Now, Now')
<1>1. ws \subseteq Worlds
  BY DEF Stays, Good, Sound
<1> QED
  BY <1>1, DoStep

LEMMA DoTurn == ASSUME NEW ws, \A x \in ws : Turns(Now, x), Do(ws) PROVE Turns(Now, Now')
<1>1. ws \subseteq Worlds
  BY DEF Turns, Good, Sound
<1> QED
  BY <1>1, DoStep

\* With no document open, or with a dialog, nothing is unsaved.
LEMMA NowRests ==
    ASSUME NEW w, Good(w),
           w.app.active = None \/ w.app.trashView \/ w.app.page # "editor" \/ w.dialog.kind # "none"
    PROVE  Rest(w)
<1>1. ASSUME Minds, NEW e \in w.log.unsaved
      PROVE  w.app.active # None /\ ~w.app.trashView /\ w.app.page = "editor" /\ w.dialog.kind = "none"
  <2>1. e \in Notes \X Parts
    BY <1>1 DEF Good, Sound, Worlds, Logs
  <2>2. e[1] \in Notes /\ e[1] = w.app.active
    BY <1>1, <2>1 DEF Good, Held
  <2>3. w.app.active # None
    BY <2>2, SessionAssumption
  <2> QED
    BY <1>1, <2>3 DEF Good, Sound, Asking, Calm
<1> QED
  BY <1>1 DEF Good, Rest

LEMMA TypeStep == ASSUME Good(Now), NEW part \in Parts, Type(part) PROVE Stays(Now, Now')
<1> DEFINE n == app.active
           a == [app EXCEPT !.dirty = @ \cup {part}, !.failed = FALSE, !.timers = @ \cup {part},
                            !.buffer = IF part = "body" THEN n ELSE @]
           l == [log EXCEPT !.unsaved = @ \cup {<<n, part>>}]
           x == [Now EXCEPT !.app = a, !.log = l]
<1>1. /\ app.page = "editor" /\ n # None /\ dialog = NoDialog /\ app.vault # None
      /\ Do({Touch([Now EXCEPT !.log.unsaved = @ \cup {<<app.active, part>>},
                               !.app.dirty = @ \cup {part}, !.app.failed = FALSE,
                               !.app.timers = @ \cup {part},
                               !.app.buffer = IF part = "body" THEN app.active ELSE @])})
  BY DEF Type, User
<1>2. /\ Now \in Worlds /\ Blank(Now) /\ Asking(Now) /\ Own(Now) /\ Fits(Now)
      /\ Minds => Held(Now)
  BY DEF Good, Sound
<1>3. app \in Apps /\ log \in Logs
  BY <1>2, WorldParts, NowIs
<1>4. n \in Notes /\ app.buffer \in Notes \cup {None}
  BY <1>1, <1>3 DEF Apps
<1>5. a \in Apps
  BY <1>3, <1>4 DEF Apps
<1>6. /\ a.vault = app.vault /\ a.keys = app.keys /\ a.trashView = app.trashView
      /\ a.active = n /\ a.dirty = app.dirty \cup {part} /\ a.page = app.page /\ a.held = app.held
      /\ a.buffer = IF part = "body" THEN n ELSE app.buffer
  BY <1>3 DEF Apps
<1>7. l \in Logs /\ l.unsaved = log.unsaved \cup {<<n, part>>} /\ l.asked = log.asked
  BY <1>3, <1>4 DEF Logs
<1>8. [Now EXCEPT !.log.unsaved = @ \cup {<<app.active, part>>},
                  !.app.dirty = @ \cup {part}, !.app.failed = FALSE,
                  !.app.timers = @ \cup {part},
                  !.app.buffer = IF part = "body" THEN app.active ELSE @] = x
  BY DEF Now
<1> HIDE DEF a, l
<1>9. x \in Worlds
  BY <1>2, <1>5, <1>7 DEF Worlds
<1>10. x.app = a /\ x.disk = disk /\ x.dialog = dialog /\ x.workers = workers /\ x.log = l
  BY DEF Now
<1> HIDE DEF x
<1>11. ~Shut(Now) /\ ~Shut(x)
  BY <1>1, <1>2, <1>6, <1>10, NowIs DEF Blank, Shut
<1>12. Blank(x) /\ Asking(x) /\ Own(x) /\ Room(x) = Room(Now)
  BY <1>2, <1>6, <1>7, <1>10, <1>11, NowIs DEF Blank, Asking, Own, Room
<1>120. Fits(x)
  BY <1>1, <1>2, <1>6, <1>10, NowIs DEF Fits, Shows
<1>13. Minds => Held(x)
  <2> SUFFICES ASSUME Minds, NEW e \in l.unsaved
               PROVE  /\ e[1] = n /\ e[2] \in a.dirty
                      /\ e[2] = "body" => a.buffer = e[1]
    BY <1>6, <1>10 DEF Held
  <2>1. CASE e = <<n, part>>
    BY <1>6, <2>1
  <2>2. CASE e \in log.unsaved
    BY <1>2, <1>6, <2>2, NowIs DEF Held
  <2> QED
    BY <1>7, <2>1, <2>2
<1>14. Calm(x)
  BY <1>1, <1>6, <1>10 DEF Calm, NoDialog
<1>15. Good(x)
  BY <1>9, <1>12, <1>120, <1>13, <1>14 DEF Good, Sound
<1> QED
  BY <1>1, <1>8, <1>12, <1>15, TouchGood, DoGood DEF Stays

\* Timers, the pick and the dialog's absence are not what the invariants speak of.
LEMMA LessTimers ==
    ASSUME NEW w, Good(w), NEW ts
    PROVE  /\ Good([w EXCEPT !.app.timers = @ \ ts])
           /\ Room([w EXCEPT !.app.timers = @ \ ts]) = Room(w)
<1> DEFINE a == [w.app EXCEPT !.timers = @ \ ts]
           x == [w EXCEPT !.app = a]
<1>1. w \in Worlds
  BY DEF Good, Sound
<1>2. w.app \in Apps
  BY <1>1, WorldParts
<1>3. a \in Apps
  BY <1>2 DEF Apps
<1>4. /\ a.vault = w.app.vault /\ a.keys = w.app.keys /\ a.trashView = w.app.trashView
      /\ a.active = w.app.active /\ a.held = w.app.held /\ a.timers \subseteq w.app.timers
      /\ a.buffer = w.app.buffer /\ a.dirty = w.app.dirty /\ a.page = w.app.page
  BY <1>2 DEF Apps
<1>5. [w EXCEPT !.app.timers = @ \ ts] = x
  BY <1>1 DEF Worlds
<1> HIDE DEF a
<1>6. x \in Worlds
  BY <1>1, <1>3 DEF Worlds
<1>7. x.app = a /\ x.disk = w.disk /\ x.dialog = w.dialog /\ x.workers = w.workers /\ x.log = w.log
  BY <1>1 DEF Worlds
<1> HIDE DEF x
<1> QED
  BY <1>4, <1>5, <1>6, <1>7, Aside

LEMMA NewPick ==
    ASSUME NEW w, Good(w), NEW n \in Notes \cup {None}
    PROVE  /\ Good([w EXCEPT !.app.pick = n]) /\ Room([w EXCEPT !.app.pick = n]) = Room(w)
           /\ [w EXCEPT !.app.pick = n].dialog = w.dialog
           /\ [w EXCEPT !.app.pick = n].app.trashView = w.app.trashView
<1> DEFINE a == [w.app EXCEPT !.pick = n]
           x == [w EXCEPT !.app = a]
<1>1. w \in Worlds
  BY DEF Good, Sound
<1>2. w.app \in Apps
  BY <1>1, WorldParts
<1>3. a \in Apps
  BY <1>2 DEF Apps
<1>4. /\ a.vault = w.app.vault /\ a.keys = w.app.keys /\ a.trashView = w.app.trashView
      /\ a.active = w.app.active /\ a.held = w.app.held /\ a.timers = w.app.timers
      /\ a.buffer = w.app.buffer /\ a.dirty = w.app.dirty /\ a.page = w.app.page
  BY <1>2 DEF Apps
<1>5. [w EXCEPT !.app.pick = n] = x
  BY <1>1 DEF Worlds
<1> HIDE DEF a
<1>6. x \in Worlds
  BY <1>1, <1>3 DEF Worlds
<1>7. x.app = a /\ x.disk = w.disk /\ x.dialog = w.dialog /\ x.workers = w.workers /\ x.log = w.log
  BY <1>1 DEF Worlds
<1> HIDE DEF x
<1> QED
  BY <1>4, <1>5, <1>6, <1>7, Aside

LEMMA TimerStep == ASSUME Good(Now), NEW part \in Parts, TimerFires(part) PROVE Stays(Now, Now')
<1> DEFINE x == [Now EXCEPT !.app.timers = @ \ {part}]
           title == part = "title"
<1>1. Do({o.w : o \in Persist(x, title)}) /\ title \in BOOLEAN
  BY DEF TimerFires
<1>2. Good(x) /\ Room(x) = Room(Now)
  BY LessTimers
<1> HIDE DEF x, title
<1> QED
  BY <1>1, <1>2, PersistGood, DoGood DEF Stays

LEMMA SaveStep == ASSUME Good(Now), Save PROVE Stays(Now, Now')
<1> DEFINE x(ts) == [Now EXCEPT !.app.timers = @ \ ts]
<1>1. PICK ts \in {Parts, {"title"}} : Do({o.w : o \in Persist(x(ts), TRUE)})
  BY DEF Save
<1>2. Good(x(ts)) /\ Room(x(ts)) = Room(Now)
  BY LessTimers
<1> HIDE DEF x
<1>3. \A o \in Persist(x(ts), TRUE) : Stays(Now, o.w)
  BY <1>2, PersistGood DEF Stays
<1> QED
  BY <1>1, <1>3, DoGood

LEMMA ClickStep == ASSUME Good(Now), NEW n \in Notes, Click(n) PROVE Stays(Now, Now')
<1> DEFINE x == [Now EXCEPT !.app.pick = n]
<1>1. Do({x})
  BY DEF Click
<1>2. Stays(Now, x)
  BY NewPick DEF Stays
<1> HIDE DEF x
<1> QED
  BY <1>1, <1>2, DoGood

LEMMA DispatchStep == ASSUME Good(Now), Dispatch PROVE Stays(Now, Now')
<1> DEFINE n == app.pick
           w == [Now EXCEPT !.app.pick = None]
           open(v) == OpenNote(v, n, TRUE)
           ws == IF n \notin In(w, IF app.trashView THEN "trash" ELSE "notes") THEN {w}
                 ELSE IF app.trashView THEN {ShowTrash(w)}
                 ELSE IF n = app.active THEN {w}
                 ELSE Then(PrepareToLeave(w), open)
<1>1. Do(ws) /\ n # None
  BY DEF Dispatch
<1>2. Good(w) /\ w.app.trashView = app.trashView /\ Room(w) = Room(Now)
  BY NewPick, NowIs
<1>3. app.trashView => Rest(w)
  BY <1>2, NowRests
<1>4. n \in Notes
  BY <1>1, NowIs DEF Good, Sound, Worlds, Apps
<1> HIDE DEF w
<1>5. ASSUME NEW x \in ws PROVE Stays(Now, x)
  <2>1. \/ x = w
        \/ app.trashView /\ x = ShowTrash(w)
        \/ \E o \in PrepareToLeave(w) : IF o.ok THEN x \in OpenNote(o.w, n, TRUE) ELSE x = o.w
    BY <1>5 DEF Then
  <2>2. Stays(Now, w)
    BY <1>2 DEF Stays
  <2>3. app.trashView => Stays(Now, ShowTrash(w))
    BY <1>2, <1>3, ClearRests, RestIsGood DEF Stays
  <2>4. ASSUME NEW o \in PrepareToLeave(w), IF o.ok THEN x \in OpenNote(o.w, n, TRUE) ELSE x = o.w
        PROVE  Stays(Now, x)
    <3>1. Good(o.w) /\ Room(o.w) = Room(Now) /\ (o.ok => Rest(o.w))
      BY <1>2, LeaveGood
    <3>2. o.ok => Rest(x) /\ Room(x) = Room(o.w)
      BY <1>4, <2>4, <3>1, OpenRests
    <3> QED
      BY <2>4, <3>1, <3>2, RestIsGood DEF Stays
  <2> QED
    BY <2>1, <2>2, <2>3, <2>4
<1> QED
  BY <1>1, <1>5, DoGood

LEMMA AskNotePasswordStep == ASSUME Good(Now), AskNotePassword PROVE Stays(Now, Now')
<1> DEFINE n == app.selected
<1>1. app.page = "locked" /\ n # None /\ Do(OpenNote(Now, n, TRUE))
  BY DEF AskNotePassword
<1>2. Rest(Now)
  BY <1>1, NowIs, NowRests
<1>3. n \in Notes
  BY <1>1, NowIs DEF Good, Sound, Worlds, Apps
<1> QED
  BY <1>1, <1>2, <1>3, OpenRests, RestIsGood, DoGood DEF Stays

LEMMA ViewStep == ASSUME Good(Now), NEW trash \in BOOLEAN, View(trash) PROVE Stays(Now, Now')
<1> DEFINE w == CancelTimers(Now)
           ws == {o.w : o \in EnterView(w, trash)}
<1>1. Do(ws) \/ Do({w})
  BY DEF View
<1>2. dialog = NoDialog
  BY DEF View, User
<1>3. Good(w) /\ w.dialog.kind = "none" /\ Room(w) = Room(Now)
  BY <1>2, NowIs, CancelTimersGood DEF NoDialog
<1> HIDE DEF w
<1>4. \A x \in ws : Stays(Now, x)
  BY <1>3, EnterViewGood DEF NoteDialogs, Stays
<1> QED
  BY <1>1, <1>3, <1>4, DoGood DEF Stays

\* The next-note keys leave the open note as it is.
LEMMA AdjacentStep == ASSUME Good(Now), NEW n \in Notes, Adjacent(n) PROVE Stays(Now, Now')
<1> DEFINE ws == IF app.trashView THEN {ShowTrash(Now)} ELSE OpenNote(Now, n, TRUE)
<1>1. Do(ws) /\ ~Minds
  BY DEF Adjacent, User, Minds
<1>2. Rest(Now)
  BY <1>1 DEF Good, Rest
<1>3. \A x \in ws : Stays(Now, x)
  BY <1>2, ClearRests, OpenRests, RestIsGood DEF Stays
<1> QED
  BY <1>1, <1>3, DoGood

LEMMA NewNoteStep == ASSUME Good(Now), NewNote PROVE Stays(Now, Now')
  BY CreateNoteGood, DoGood DEF NewNote, Stays

\* An open note whose metadata changed is dirty.
LEMMA DirtyRests ==
    ASSUME NEW w, Rest(w), w.app.active # None, ~FlagFree
    PROVE  /\ Rest([w EXCEPT !.app.dirty = @ \cup {"body"}])
           /\ Room([w EXCEPT !.app.dirty = @ \cup {"body"}]) = Room(w)
<1> DEFINE a == [w.app EXCEPT !.dirty = @ \cup {"body"}]
<1>1. w \in Worlds /\ Blank(w) /\ Asking(w) /\ Own(w) /\ Fits(w)
  BY DEF Rest, Sound
<1>2. w.app \in Apps
  BY <1>1, WorldParts
<1>3. a \in Apps
  BY <1>2 DEF Apps, Parts
<1>4. /\ a.vault = w.app.vault /\ a.keys = w.app.keys /\ a.trashView = w.app.trashView
      /\ a.active = w.app.active /\ a.held = w.app.held /\ a.buffer = w.app.buffer
  BY <1>2 DEF Apps
<1>5. [w EXCEPT !.app.dirty = @ \cup {"body"}] = [w EXCEPT !.app = a]
  BY <1>1 DEF Worlds
<1> HIDE DEF a
<1>6. Shows(a, w.disk)
  BY <1>1, <1>4 DEF Fits, Shows
<1> QED
  BY <1>1, <1>3, <1>4, <1>5, <1>6, NewApp DEF Blank, Asking, Own

LEMMA FlagStep == ASSUME Good(Now), NEW n \in Notes, Flag(n) PROVE Stays(Now, Now')
<1> DEFINE d(w) == [w EXCEPT !.app.dirty = @ \cup {"body"}]
           toggled(w) ==
             IF n = w.app.active
             THEN UNION {IF o.ok THEN MayLeaveView(o.w, n) ELSE {o.w} : o \in Persist(d(w), FALSE)}
             ELSE IF IsSecret(w, n) \/ w.app.readOnly THEN {w}
             ELSE {w} \cup MayLeaveView(w, n)
           ws == UNION {IF o.ok THEN toggled(o.w) ELSE {o.w} : o \in Persist(Now, TRUE)}
<1>1. Do(ws) /\ ~FlagFree
  BY DEF Flag, Then, User, FlagFree
<1>2. ASSUME NEW w, Rest(w), NEW x \in toggled(w) PROVE Rest(x) /\ Room(x) = Room(w)
  <2>1. CASE n = w.app.active
    <3>1. Rest(d(w)) /\ Room(d(w)) = Room(w)
      BY <1>1, <1>2, <2>1, SessionAssumption, DirtyRests
    <3> HIDE DEF d
    <3>2. PICK o \in Persist(d(w), FALSE) : IF o.ok THEN x \in MayLeaveView(o.w, n) ELSE x = o.w
      BY <1>2, <2>1
    <3>3. Rest(o.w) /\ Room(o.w) = Room(w)
      BY <3>1, <3>2, PersistGood, RestIsGood
    <3> QED
      BY <3>2, <3>3, LeaveViewRests
  <2>2. CASE n # w.app.active
    <3>1. x = w \/ x \in MayLeaveView(w, n)
      BY <1>2, <2>2
    <3> QED
      BY <1>2, <3>1, LeaveViewRests
  <2> QED
    BY <2>1, <2>2
<1> HIDE DEF toggled
<1>3. ASSUME NEW x \in ws PROVE Stays(Now, x)
  <2>1. PICK o \in Persist(Now, TRUE) : IF o.ok THEN x \in toggled(o.w) ELSE x = o.w
    BY <1>3
  <2>2. Good(o.w) /\ Room(o.w) = Room(Now) /\ (o.ok => Rest(o.w))
    BY PersistGood
  <2> QED
    BY <1>2, <2>1, <2>2, RestIsGood DEF Stays
<1> QED
  BY <1>1, <1>3, DoGood

LEMMA MoveStep == ASSUME Good(Now), NEW n \in Notes, Move(n) PROVE Stays(Now, Now')
<1> DEFINE moved(w) == {w} \cup (IF w.app.readOnly THEN {} ELSE MayLeaveView(w, n))
           ws == UNION {IF o.ok THEN moved(o.w) ELSE {o.w} : o \in Persist(Now, TRUE)}
<1>1. Do(ws)
  BY DEF Move, Then
<1>2. ASSUME NEW x \in ws PROVE Stays(Now, x)
  <2>1. PICK o \in Persist(Now, TRUE) : x = o.w \/ (o.ok /\ x \in MayLeaveView(o.w, n))
    BY <1>2
  <2>2. Good(o.w) /\ (o.ok => Rest(o.w)) /\ Room(o.w) = Room(Now)
    BY <2>1, PersistGood
  <2> QED
    BY <2>1, <2>2, LeaveViewRests, RestIsGood DEF Stays
<1> QED
  BY <1>1, <1>2, DoGood

LEMMA RenameStep == ASSUME Good(Now), NEW n \in Notes, Rename(n) PROVE Stays(Now, Now')
<1> DEFINE ws == UNION {IF o.ok THEN OpenNote(o.w, n, TRUE) ELSE {o.w} : o \in PrepareToLeave(Now)}
<1>1. Do(ws)
  BY DEF Rename, Then
<1>2. ASSUME NEW x \in ws PROVE Stays(Now, x)
  <2>1. PICK o \in PrepareToLeave(Now) : IF o.ok THEN x \in OpenNote(o.w, n, TRUE) ELSE x = o.w
    BY <1>2
  <2>2. Good(o.w) /\ Room(o.w) = Room(Now) /\ (o.ok => Rest(o.w))
    BY LeaveGood
  <2>3. o.ok => Rest(x) /\ Room(x) = Room(o.w)
    BY <2>1, <2>2, OpenRests
  <2> QED
    BY <2>1, <2>2, <2>3, RestIsGood DEF Stays
<1> QED
  BY <1>1, <1>2, DoGood

LEMMA TrashedRests ==
    ASSUME NEW w, Rest(w), w.app.dirty = {}, NEW n \in Notes
    PROVE  /\ Rest(Trashed(w, n)) /\ Room(Trashed(w, n)) = Room(w)
           /\ n = w.app.active => Trashed(w, n).app.active = None
<1> DEFINE active == IF w.app.active = n THEN None ELSE w.app.active
           selected == IF w.app.selected = n THEN None ELSE w.app.selected
           a == [w.app EXCEPT !.held = @ \ {n}, !.active = active, !.selected = selected]
           d == [w.disk EXCEPT !.place = [@ EXCEPT ![n] = "trash"]]
           x == [w EXCEPT !.app = a]
<1>1. w \in Worlds /\ Blank(w) /\ Asking(w) /\ Own(w) /\ Fits(w)
  BY DEF Rest, Sound
<1>2. w.app \in Apps /\ w.disk \in Disks
  BY <1>1, WorldParts
<1>3. active \in Notes \cup {None} /\ selected \in Notes \cup {None}
  BY <1>2 DEF Apps
<1>4. Trashed(w, n) = [x EXCEPT !.disk = d]
  BY <1>1, <1>2 DEF Worlds, Apps, Trashed
<1>5. /\ active # None => active = w.app.active /\ active # n
      /\ n = w.app.active => active = None
  OBVIOUS
<1>50. /\ d.text = w.disk.text
       /\ \A k \in Notes : k # n => d.place[k] = w.disk.place[k]
  BY <1>2 DEF Disks
<1> HIDE DEF active, selected
<1>6. a \in Apps
  BY <1>2, <1>3 DEF Apps
<1>7. /\ a.vault = w.app.vault /\ a.keys = w.app.keys /\ a.trashView = w.app.trashView
      /\ a.active = active /\ a.held \subseteq w.app.held /\ a.timers = w.app.timers
      /\ a.buffer = w.app.buffer /\ a.dirty = w.app.dirty /\ a.page = w.app.page
  BY <1>2 DEF Apps
<1>8. d \in Disks
  BY <1>2 DEF Disks
<1> HIDE DEF a, d
<1>80. Shows(a, w.disk)
  BY <1>1, <1>5, <1>7 DEF Fits, Shows
<1>81. Whole(d) /\ Shows(a, d)
  BY <1>1, <1>3, <1>5, <1>50, <1>7, <1>80 DEF Fits, Whole, Shows
<1>9. Rest(x) /\ Room(x) = Room(w) /\ x.app = a
  BY <1>1, <1>5, <1>6, <1>7, <1>80, NewApp, SessionAssumption DEF Blank, Asking, Own
<1> HIDE DEF x
<1>10. /\ Rest([x EXCEPT !.disk = d]) /\ Room([x EXCEPT !.disk = d]) = Room(x)
       /\ [x EXCEPT !.disk = d].app = a
  BY <1>8, <1>81, <1>9, NewDisk, RestIsGood
<1> QED
  BY <1>4, <1>5, <1>7, <1>9, <1>10

LEMMA MoveToTrashStep == ASSUME Good(Now), NEW n \in Notes, MoveToTrash(n) PROVE Stays(Now, Now')
<1> DEFINE cleared(w) == IF n = w.app.active THEN ClearEditor(Trashed(w, n)) ELSE Trashed(w, n)
           gone(w) == {w} \cup (IF w.app.readOnly THEN {}
                                ELSE IF n = w.app.selected THEN FallBack(cleared(w)) ELSE {cleared(w)})
           ws(w) == UNION {IF o.ok THEN gone(o.w) ELSE {o.w} : o \in Persist(w, TRUE)}
<1>1. PICK w \in {Now, CancelTimers(Now)} : Do(ws(w))
  BY DEF MoveToTrash, Then
<1>2. Good(w) /\ Room(w) = Room(Now)
  BY <1>1, CancelTimersGood
<1>3. ASSUME NEW u, Rest(u), u.app.dirty = {}, NEW x \in gone(u)
      PROVE  Rest(x) /\ Room(x) = Room(u)
  <2>1. Rest(cleared(u)) /\ Room(cleared(u)) = Room(u)
    BY <1>3, TrashedRests, ClearRests
  <2> HIDE DEF cleared
  <2>2. x = u \/ x = cleared(u) \/ x \in FallBack(cleared(u))
    BY <1>3
  <2> QED
    BY <1>3, <2>1, <2>2, FallBackRests
<1> HIDE DEF gone
<1>4. ASSUME NEW x \in ws(w) PROVE Stays(Now, x)
  <2>1. PICK o \in Persist(w, TRUE) : IF o.ok THEN x \in gone(o.w) ELSE x = o.w
    BY <1>4
  <2>2. Good(o.w) /\ Room(o.w) = Room(Now) /\ (o.ok => Rest(o.w) /\ o.w.app.dirty = {})
    BY <1>2, PersistGood
  <2> QED
    BY <1>3, <2>1, <2>2, RestIsGood DEF Stays
<1> HIDE DEF ws
<1> QED
  BY <1>1, <1>4, DoGood

LEMMA RestoreStep == ASSUME Good(Now), NEW n \in Notes, RestoreNote(n) PROVE Stays(Now, Now')
<1> DEFINE d == [disk EXCEPT !.place = [@ EXCEPT ![n] = "notes"]]
           x == [Now EXCEPT !.disk = d]
           ws == {Now} \cup (IF app.readOnly THEN {} ELSE FallBack(x))
<1>1. Do(ws) /\ app.trashView
  BY DEF RestoreNote, Now
<1>2. Rest(Now)
  BY <1>1, NowIs, NowRests
<1>3. disk \in Disks
  BY <1>2, NowIs, WorldParts DEF Rest, Sound
<1>4. d \in Disks /\ d.text = disk.text
  BY <1>3 DEF Disks
<1> HIDE DEF d
<1>40. Whole(d) /\ Shows(app, d)
  BY <1>1, <1>2, <1>4, NowIs DEF Rest, Sound, Asking, Fits, Whole, Shows
<1>5. Rest(x) /\ Room(x) = Room(Now)
  BY <1>2, <1>4, <1>40, NowIs, NewDisk, RestIsGood
<1> HIDE DEF x
<1>6. \A y \in ws : Stays(Now, y)
  BY <1>2, <1>5, FallBackRests, RestIsGood DEF Stays
<1> QED
  BY <1>1, <1>6, DoGood

LEMMA AskAboutStep ==
    ASSUME Good(Now), NEW kind \in {"encrypt", "change-password", "remove-encryption"}, AskAbout(kind)
    PROVE  Stays(Now, Now')
<1>1. Do(Ask(CancelTimers(Now), kind)) /\ kind \in NoteDialogs /\ kind \in Commands
  BY DEF AskAbout, NoteDialogs, User
<1>2. Good(CancelTimers(Now)) /\ Room(CancelTimers(Now)) = Room(Now)
  BY CancelTimersGood
<1> QED
  BY <1>1, <1>2, AskGood, DoGood DEF Stays

LEMMA EncryptRowStep == ASSUME Good(Now), NEW n \in Notes, EncryptRow(n) PROVE Stays(Now, Now')
<1> DEFINE ask(w) == UNION {Ask(v, "encrypt") : v \in OpenNote(w, n, TRUE)}
           ws == UNION {IF o.ok THEN ask(o.w) ELSE {o.w} : o \in PrepareToLeave(Now)}
<1>1. Do(ws)
  BY DEF EncryptRow, Then
<1>2. ASSUME NEW w, Rest(w), NEW x \in ask(w) PROVE Good(x) /\ Room(x) = Room(w)
  <2>1. PICK v \in OpenNote(w, n, TRUE) : x \in Ask(v, "encrypt")
    BY <1>2
  <2>2. Good(v) /\ Room(v) = Room(w)
    BY <1>2, <2>1, OpenRests, RestIsGood
  <2> QED
    BY <2>1, <2>2, AskGood DEF NoteDialogs, Reopenings
<1> HIDE DEF ask
<1>3. ASSUME NEW x \in ws PROVE Stays(Now, x)
  <2>1. PICK o \in PrepareToLeave(Now) : IF o.ok THEN x \in ask(o.w) ELSE x = o.w
    BY <1>3
  <2> QED
    BY <1>2, <2>1, LeaveGood DEF Stays
<1> QED
  BY <1>1, <1>3, DoGood

LEMMA AskDeleteStep == ASSUME Good(Now), NEW n \in Notes, AskDelete(n) PROVE Stays(Now, Now')
<1> DEFINE x == [Now EXCEPT !.dialog = [kind |-> "delete", of |-> n]]
<1>1. app.trashView /\ ~Shut(Now) /\ Do({x})
  BY DEF AskDelete, In
<1>2. Rest(Now)
  BY <1>1, NowIs, NowRests
<1>3. Rest(x) /\ Room(x) = Room(Now)
  BY <1>1, <1>2, NewDialog DEF NoteDialogs, Reopenings
<1> HIDE DEF x
<1> QED
  BY <1>1, <1>3, RestIsGood, DoGood DEF Stays

LEMMA AskVaultPasswordStep == ASSUME Good(Now), AskVaultPassword PROVE Stays(Now, Now')
<1> DEFINE g == [kind |-> "vault", of |-> app.vault]
           x == [Now EXCEPT !.dialog = g]
<1>1. Shut(Now) /\ (~\E k \in workers : k.fresh) /\ Do({x})
  BY DEF AskVaultPassword
<1>2. Rest(Now)
  BY <1>1, ShutRests
<1>3. Now \in Worlds /\ Blank(Now) /\ Asking(Now) /\ Own(Now) /\ Fits(Now)
  BY <1>2 DEF Rest, Sound
<1>4. app \in Apps
  BY <1>3, WorldParts, NowIs
<1>5. g \in Dialogs /\ g.kind = "vault" /\ g.of = app.vault
  BY <1>4 DEF Dialogs, Apps
<1> HIDE DEF g
<1>6. x \in Worlds
  BY <1>3, <1>5 DEF Worlds
<1>7. x.app = app /\ x.disk = disk /\ x.dialog = g /\ x.workers = workers /\ x.log = log
  BY DEF Now
<1> HIDE DEF x
<1>8. Sound(x)
  BY <1>1, <1>3, <1>5, <1>6, <1>7, NowIs
     DEF Sound, Blank, Asking, Own, Fits, Shut, NoteDialogs, Reopenings
<1>9. Good(x) /\ Room(x) = Room(Now)
  BY <1>2, <1>7, <1>8, NowIs, RestIsGood DEF Rest, Room
<1> QED
  BY <1>1, <1>9, DoGood DEF Stays

LEMMA AnswerVaultStep == ASSUME Good(Now), AnswerVault PROVE Turns(Now, Now')
<1> DEFINE k == [vault |-> dialog.of, fresh |-> TRUE]
           l == [log EXCEPT !.asked = TRUE]
           x == [Now EXCEPT !.dialog = NoDialog, !.log = l, !.workers = workers \cup {k}]
<1>1. /\ dialog.kind = "vault"
      /\ Do({[Now EXCEPT !.dialog = NoDialog, !.log.asked = TRUE, !.workers = @ \cup {k}]})
  BY DEF AnswerVault
<1>2. [Now EXCEPT !.dialog = NoDialog, !.log.asked = TRUE, !.workers = @ \cup {k}] = x
  BY DEF Now
<1>3. Rest(Now)
  BY <1>1, NowIs, NowRests
<1>4. Now \in Worlds /\ Blank(Now) /\ Asking(Now) /\ Own(Now) /\ Fits(Now)
  BY <1>3 DEF Rest, Sound
<1>5. /\ app \in Apps /\ workers \in Workers /\ log \in Logs
      /\ NoDialog \in Dialogs /\ NoDialog.kind = "none"
  BY <1>4, WorldParts, NowIs DEF Dialogs, NoDialog
<1>6. Shut(Now) /\ dialog.of = app.vault
  BY <1>1, <1>4, NowIs DEF Asking
<1>7. k \in [vault : Secure, fresh : BOOLEAN] /\ k.vault = app.vault
  BY <1>6, NowIs DEF Shut
<1>8. l \in Logs /\ l.unsaved = log.unsaved /\ l.asked = TRUE
  BY <1>5 DEF Logs
<1> HIDE DEF k, l
<1>9. x \in Worlds
  BY <1>4, <1>5, <1>7, <1>8 DEF Worlds, Workers
<1>10. /\ x.app = app /\ x.disk = disk /\ x.dialog = NoDialog
       /\ x.workers = workers \cup {k} /\ x.log = l
  BY DEF Now
<1> HIDE DEF x
<1>11. Shut(x)
  BY <1>6, <1>10, NowIs DEF Shut
<1>12. Blank(x) /\ Own(x) /\ Fits(x)
  BY <1>4, <1>6, <1>10, NowIs DEF Blank, Own, Fits
<1>13. Asking(x)
  BY <1>4, <1>5, <1>7, <1>8, <1>10, <1>11, NowIs DEF Asking, NoteDialogs, Reopenings
<1>14. Good(x)
  BY <1>3, <1>8, <1>9, <1>10, <1>12, <1>13, NowIs, RestIsGood DEF Rest, Sound
<1>15. app.keys = FALSE
  BY <1>5, <1>6, NowIs DEF Shut, Apps
<1>16. Room(x) = <<app.vault, FALSE, TRUE>>
  BY <1>8, <1>10, <1>15 DEF Room
<1> QED
  BY <1>1, <1>2, <1>6, <1>14, <1>16, NowIs, DoTurn DEF Turns

LEMMA CancelStep == ASSUME Good(Now), Cancel PROVE Stays(Now, Now')
<1> DEFINE x == [Now EXCEPT !.dialog = NoDialog]
<1>1. Stays(Now, x) /\ Do({x})
  BY NoDialogGood DEF Cancel, Stays
<1> HIDE DEF x
<1> QED
  BY <1>1, DoGood

LEMMA WorkerStep == ASSUME Good(Now), NEW k \in workers, WorkerAnswers(k) PROVE Turns(Now, Now')
<1> DEFINE ks == workers \ {k}
           w == [Now EXCEPT !.workers = ks]
           a == [app EXCEPT !.page = "vault-locked"]
           b == [app EXCEPT !.keys = TRUE]
           x == [w EXCEPT !.app = a]
           y == [w EXCEPT !.app = b]
<1>1. Now \in Worlds /\ Blank(Now) /\ Asking(Now) /\ Own(Now) /\ Fits(Now)
  BY DEF Good, Sound
<1>2. app \in Apps /\ workers \in Workers /\ log \in Logs
  BY <1>1, WorldParts, NowIs
<1>3. w \in Worlds
  BY <1>1, <1>2 DEF Worlds, Workers
<1>4. /\ w.app = app /\ w.disk = disk /\ w.dialog = dialog /\ w.workers = ks /\ w.log = log
  BY DEF Now
<1>5. x = [w EXCEPT !.app.page = "vault-locked"] /\ y = [w EXCEPT !.app.keys = TRUE]
  BY <1>3, <1>4 DEF Worlds
<1> HIDE DEF w
<1>6. Sound(w)
  BY <1>1, <1>3, <1>4, NowIs DEF Sound, Blank, Asking, Own, Fits, Shut
<1>7. Good(w) /\ Room(w) = Room(Now)
  BY <1>4, <1>6, NowIs DEF Good, Held, Calm, Room
<1>8. CASE ~k.fresh
  <2>1. Do({w})
    BY <1>8, NowIs DEF WorkerAnswers, w
  <2> QED
    BY <1>7, <2>1, DoTurn DEF Turns
<1>9. CASE k.fresh
  <2> DEFINE ws == {x} \cup (IF k.vault = app.vault THEN EnterWorkspace(y) ELSE {})
  <2>1. Do(ws)
    BY <1>5, <1>9, NowIs DEF WorkerAnswers, w
  <2>2. Shut(Now) /\ k.vault = app.vault /\ dialog.kind = "none" /\ log.asked
    BY <1>1, <1>9, NowIs DEF Asking
  <2>3. Rest(w) /\ Shut(w) /\ w.dialog.kind = "none"
    BY <1>4, <1>7, <2>2, NowIs, ShutRests DEF Shut
  <2>4. /\ app.active = None /\ app.held = {} /\ app.buffer = None /\ app.dirty = {}
        /\ app.timers = {}
    BY <1>1, <2>2, NowIs DEF Blank
  <2>5. a \in Apps /\ b \in Apps
    BY <1>2 DEF Apps, Pages
  <2>6. /\ a.vault = app.vault /\ a.keys = app.keys /\ a.trashView = app.trashView
        /\ a.active = app.active /\ a.held = app.held /\ a.timers = app.timers
        /\ a.buffer = app.buffer /\ a.dirty = app.dirty /\ a.page = "vault-locked"
        /\ b.vault = app.vault /\ b.keys = TRUE /\ b.active = app.active /\ b.held = app.held
        /\ b.dirty = app.dirty
    BY <1>2 DEF Apps
  <2> HIDE DEF a, b
  <2>60. \A e : Shows(a, e) /\ Shows(b, e)
    BY <2>4, <2>6 DEF Shows
  <2>7. Rest(x) /\ Room(x) = Room(w)
    BY <1>4, <2>3, <2>4, <2>5, <2>6, <2>60, NewApp, SessionAssumption DEF NoteDialogs
  <2>8. \A j \in ks : ~j.fresh
    <3>1. ASSUME NEW j \in ks, j.fresh PROVE FALSE
      <4>1. j \in [vault : Secure, fresh : BOOLEAN] /\ k \in [vault : Secure, fresh : BOOLEAN]
        BY <1>2, <3>1 DEF Workers
      <4>2. j.vault = k.vault /\ j.fresh = TRUE /\ k.fresh = TRUE
        BY <1>1, <1>9, <2>2, <3>1, <4>1, NowIs DEF Asking
      <4>3. j = [vault |-> j.vault, fresh |-> j.fresh] /\ k = [vault |-> k.vault, fresh |-> k.fresh]
        BY <4>1
      <4>4. j = k
        BY <4>2, <4>3
      <4> QED
        BY <3>1, <4>4
    <3> QED
      BY <3>1
  <2>9. y \in Worlds
    BY <1>3, <2>5 DEF Worlds
  <2>10. y.app = b /\ y.disk = disk /\ y.dialog = w.dialog /\ y.workers = ks /\ y.log = w.log
    BY <1>3, <1>4 DEF Worlds
  <2> HIDE DEF y
  <2>100. Fits(y)
    BY <1>1, <2>10, <2>60, NowIs DEF Fits
  <2>11. Sound(y)
    BY <2>3, <2>4, <2>6, <2>8, <2>9, <2>10, <2>100, SessionAssumption
       DEF Sound, Blank, Asking, Own, Shut, NoteDialogs, Reopenings
  <2>12. Rest(y) /\ y.app.active = None /\ y.dialog.kind = "none"
    BY <2>3, <2>4, <2>6, <2>10, <2>11 DEF Rest
  <2>14. Room(y) = <<app.vault, TRUE, TRUE>>
    BY <1>2, <1>4, <2>2, <2>6, <2>10 DEF Room, Logs
  <2> HIDE DEF x
  <2>13. \A v \in ws : Turns(Now, v)
    BY <1>7, <2>2, <2>7, <2>12, <2>14, NowIs, EnterWorkspaceGood, RestIsGood DEF Turns
  <2> HIDE DEF ws
  <2> QED
    BY <2>1, <2>13, DoTurn
<1> QED
  BY <1>8, <1>9

LEMMA ReopenedRests ==
    ASSUME NEW w, Rest(w), NEW n \in Listed(w), ~w.app.trashView, NEW secret \in BOOLEAN, ~Faithful
    PROVE  Rest(Reopened(w, n, secret)) /\ Room(Reopened(w, n, secret)) = Room(w)
<1> DEFINE a == [w.app EXCEPT !.active = n, !.held = @ \ {n}, !.dirty = {}, !.clock = secret]
           ns == IF secret THEN w.disk.secret ELSE w.disk.secret \ {n}
           d == [w.disk EXCEPT !.secret = ns]
           x == [w EXCEPT !.app = a]
<1>1. w \in Worlds /\ n \in Notes /\ ~Shut(w) /\ Home[n] = w.app.vault /\ Own(w) /\ Fits(w)
  BY DEF Rest, Sound, Listed, In
<1>2. w.app \in Apps /\ w.disk \in Disks
  BY <1>1, WorldParts
<1>3. ns \subseteq Notes
  BY <1>2 DEF Disks
<1>4. Reopened(w, n, secret) = [x EXCEPT !.disk = d]
  BY <1>1 DEF Reopened, Worlds
<1> HIDE DEF ns
<1>5. d \in Disks /\ a \in Apps /\ d.text = w.disk.text
  BY <1>1, <1>2, <1>3 DEF Disks, Apps
<1>6. a.vault = w.app.vault /\ a.keys = w.app.keys /\ a.trashView = w.app.trashView
      /\ a.active = n /\ a.held \subseteq w.app.held /\ a.dirty = {}
  BY <1>2 DEF Apps
<1> HIDE DEF a, d
<1>60. Whole(d) /\ \A e : Shows(a, e)
  BY <1>1, <1>5, <1>6 DEF Fits, Whole, Shows
<1>7. Rest(x) /\ Room(x) = Room(w) /\ x.app = a
  BY <1>1, <1>5, <1>6, <1>60, NewApp DEF Own
<1> HIDE DEF x
<1> QED
  BY <1>4, <1>5, <1>60, <1>7, NewDisk, RestIsGood

LEMMA AnswerNoteStep == ASSUME Good(Now), AnswerNote PROVE Stays(Now, Now')
<1> DEFINE n == dialog.of
           w == [Now EXCEPT !.dialog = NoDialog]
           reachable == n \in Listed(w)
           locked == [w EXCEPT !.app.page = "locked"]
           sealed == [w EXCEPT !.disk.secret = @ \cup {n}, !.app.clock = TRUE]
           gone == [w EXCEPT !.disk.place[n] = "gone"]
<1>1. \/ dialog.kind = "note" /\ Do({locked} \cup (IF reachable THEN {Display(w, n)} ELSE {}))
      \/ dialog.kind = "encrypt" /\ Do({w} \cup (IF app.active = n /\ ~app.readOnly THEN {sealed} ELSE {}))
      \/ /\ dialog.kind = "change-password"
         /\ Do({w} \cup (IF reachable /\ ~app.readOnly THEN {Reopened(w, n, TRUE)} ELSE {}))
      \/ /\ dialog.kind = "remove-encryption"
         /\ Do({w} \cup (IF reachable /\ ~app.readOnly THEN {Reopened(w, n, FALSE)} ELSE {}))
      \/ /\ dialog.kind = "delete"
         /\ Do({w} \cup (IF n \in In(w, "trash") /\ ~app.readOnly THEN FallBack(gone) ELSE {}))
  BY DEF AnswerNote
<1>2. Rest(Now)
  BY <1>1, NowIs, NowRests
<1>3. Now \in Worlds /\ Blank(Now) /\ Asking(Now) /\ Own(Now) /\ Fits(Now)
  BY <1>2 DEF Rest, Sound
<1>4. Rest(w) /\ Room(w) = Room(Now) /\ w.app = app /\ w.disk = disk /\ w.dialog.kind = "none" /\ w \in Worlds
  BY <1>2, NowIs, NoDialogGood, RestIsGood DEF Rest, Sound
<1> HIDE DEF w
<1>5. /\ app \in Apps /\ disk \in Disks /\ n \in Notes
      /\ dialog.kind # "delete" => ~app.trashView
      /\ dialog.kind \in Reopenings => ~Faithful
  BY <1>1, <1>3, WorldParts, NowIs DEF Asking, NoteDialogs, Faithful
<1>50. Whole(disk) /\ Shows(app, disk)
  BY <1>3, NowIs DEF Fits
<1>6. Rest(locked) /\ Room(locked) = Room(Now)
  <2> DEFINE a == [app EXCEPT !.page = "locked"]
  <2>1. a \in Apps
    BY <1>5 DEF Apps, Pages
  <2>2. /\ a.vault = app.vault /\ a.keys = app.keys /\ a.trashView = app.trashView
        /\ a.active = app.active /\ a.held = app.held /\ a.timers = app.timers
        /\ a.buffer = app.buffer /\ a.dirty = app.dirty /\ a.page = "locked"
    BY <1>5 DEF Apps
  <2>3. locked = [w EXCEPT !.app = a]
    BY <1>4 DEF Worlds
  <2> HIDE DEF a
  <2>4. Blank(w) /\ Asking(w) /\ Own(w) /\ w.dialog.kind \notin NoteDialogs
    BY <1>4 DEF Rest, Sound, NoteDialogs
  <2>5. Shows(a, disk)
    BY <1>50, <2>2 DEF Shows
  <2> QED
    BY <1>4, <2>1, <2>2, <2>3, <2>4, <2>5, NewApp DEF Blank, Asking, Own
<1>7. Rest(sealed) /\ Room(sealed) = Room(Now)
  <2> DEFINE a == [app EXCEPT !.clock = TRUE]
             d == [disk EXCEPT !.secret = @ \cup {n}]
             x == [w EXCEPT !.app = a]
  <2>1. a \in Apps /\ d \in Disks
    BY <1>5 DEF Apps, Disks
  <2>2. /\ a.vault = app.vault /\ a.keys = app.keys /\ a.trashView = app.trashView
        /\ a.active = app.active /\ a.held = app.held /\ a.timers = app.timers
        /\ a.buffer = app.buffer /\ a.dirty = app.dirty /\ a.page = app.page
    BY <1>5 DEF Apps
  <2>3. sealed = [x EXCEPT !.disk = d]
    BY <1>4 DEF Worlds
  <2>30. d.text = disk.text /\ d.place = disk.place
    BY <1>5 DEF Disks
  <2> HIDE DEF a, d
  <2>31. Whole(d) /\ Shows(a, disk) /\ Shows(a, d)
    BY <1>50, <2>2, <2>30 DEF Whole, Shows
  <2>4. Rest(x) /\ Room(x) = Room(Now) /\ x.app = a
    BY <1>4, <2>1, <2>2, <2>31, NewApp DEF Rest, Sound, Blank, Asking, Own, NoteDialogs
  <2> HIDE DEF x
  <2> QED
    BY <2>1, <2>3, <2>31, <2>4, NewDisk, RestIsGood
<1>8. n \in In(w, "trash") => Rest(gone) /\ Room(gone) = Room(Now)
  <2> DEFINE d == [disk EXCEPT !.place = [@ EXCEPT ![n] = "gone"]]
  <2>1. d \in Disks /\ d.text = disk.text /\ \A k \in Notes : k # n => d.place[k] = disk.place[k]
    BY <1>5 DEF Disks
  <2>2. gone = [w EXCEPT !.disk = d]
    BY <1>4 DEF Worlds
  <2> HIDE DEF d
  <2>3. Whole(d) /\ (disk.place[n] = "trash" => Shows(app, d))
    BY <1>5, <1>50, <2>1 DEF Whole, Shows, Apps
  <2> QED
    BY <1>4, <2>1, <2>2, <2>3, NewDisk, RestIsGood DEF In
<1>9. n \in In(w, "trash") => \A x \in FallBack(gone) : Stays(Now, x)
  BY <1>8, FallBackRests, RestIsGood DEF Stays
<1>10. Stays(Now, w) /\ Stays(Now, locked) /\ Stays(Now, sealed)
  BY <1>4, <1>6, <1>7, RestIsGood DEF Stays
<1>11. ASSUME reachable, ~app.trashView
       PROVE  /\ Stays(Now, Display(w, n))
              /\ ~Faithful => \A s \in BOOLEAN : Stays(Now, Reopened(w, n, s))
  BY <1>4, <1>11, DisplayRests, ReopenedRests, RestIsGood DEF Stays
<1> HIDE DEF n, locked, sealed, gone, reachable
<1>12. CASE dialog.kind = "note"
  <2>1. Do({locked} \cup (IF reachable THEN {Display(w, n)} ELSE {}))
    BY <1>1, <1>12
  <2>2. \A x \in {locked} \cup (IF reachable THEN {Display(w, n)} ELSE {}) : Stays(Now, x)
    BY <1>5, <1>10, <1>11, <1>12
  <2> QED
    BY <2>1, <2>2, DoGood
<1>13. CASE dialog.kind = "encrypt"
  <2> DEFINE ws == {w} \cup (IF app.active = n /\ ~app.readOnly THEN {sealed} ELSE {})
  <2>1. Do(ws) /\ \A x \in ws : Stays(Now, x)
    BY <1>1, <1>10, <1>13
  <2> QED
    BY <2>1, DoGood
<1>14. CASE dialog.kind \in {"change-password", "remove-encryption"}
  <2> DEFINE ws(s) == {w} \cup (IF reachable /\ ~app.readOnly THEN {Reopened(w, n, s)} ELSE {})
  <2>1. PICK s \in BOOLEAN : Do(ws(s))
    BY <1>1, <1>14
  <2>2. \A x \in ws(s) : Stays(Now, x)
    BY <1>5, <1>10, <1>11, <1>14 DEF Reopenings
  <2> QED
    BY <2>1, <2>2, DoGood
<1>15. CASE dialog.kind = "delete"
  <2> DEFINE ws == {w} \cup (IF n \in In(w, "trash") /\ ~app.readOnly THEN FallBack(gone) ELSE {})
  <2>1. Do(ws) /\ \A x \in ws : Stays(Now, x)
    BY <1>1, <1>9, <1>10, <1>15
  <2> QED
    BY <2>1, DoGood
<1> QED
  BY <1>1, <1>12, <1>13, <1>14, <1>15

LEMMA LockNoteStep == ASSUME Good(Now), LockNote PROVE Stays(Now, Now')
<1> DEFINE locked(w) == IF ActiveSecret(w) THEN LockOpenNote(w) ELSE w
           ws == UNION {IF o.ok THEN {locked(o.w)} ELSE {o.w} : o \in Persist(Now, TRUE)}
<1>1. Do(ws) \/ Do(LockAllEncrypted(CancelTimers(Now)))
  BY DEF LockNote, Then
<1>2. ASSUME NEW x \in ws PROVE Stays(Now, x)
  <2>1. PICK o \in Persist(Now, TRUE) : x = o.w \/ (o.ok /\ x = LockOpenNote(o.w))
    BY <1>2
  <2>2. Good(o.w) /\ (o.ok => Rest(o.w) /\ o.w.app.dirty = {}) /\ Room(o.w) = Room(Now)
    BY <2>1, PersistGood
  <2> QED
    BY <2>1, <2>2, LockOpenNoteRests, RestIsGood DEF Stays
<1>3. \A x \in LockAllEncrypted(CancelTimers(Now)) : Stays(Now, x)
  BY CancelTimersGood, LockAllGood DEF Stays
<1> HIDE DEF ws
<1> QED
  BY <1>1, <1>2, <1>3, DoGood

LEMMA LockVaultStep == ASSUME Good(Now), LockVaultNow PROVE Turns(Now, Now')
<1>1. Do(LockVault(CancelTimers(Now)))
  BY DEF LockVaultNow
<1>2. \A x \in LockVault(CancelTimers(Now)) : Turns(Now, x)
  BY CancelTimersGood, LockVaultGood, SessionAssumption DEF Turns
<1> QED
  BY <1>1, <1>2, DoTurn

LEMMA LockAllStep == ASSUME Good(Now), LockAll PROVE Turns(Now, Now')
<1> DEFINE ws == UNION {LockVault(w) : w \in LockAllEncrypted(Now)}
<1>1. Do(ws)
  BY DEF LockAll
<1>2. ASSUME NEW x \in ws PROVE Turns(Now, x)
  <2>1. PICK w \in LockAllEncrypted(Now) : x \in LockVault(w)
    BY <1>2
  <2>2. Good(w) /\ Room(w) = Room(Now)
    BY <2>1, LockAllGood
  <2> QED
    BY <2>1, <2>2, LockVaultGood, SessionAssumption DEF Turns
<1> HIDE DEF ws
<1> QED
  BY <1>1, <1>2, DoTurn

LEMMA SwitchStep ==
    ASSUME Good(Now), NEW v \in Vaults, NEW readOnly \in BOOLEAN, SwitchVault(v, readOnly)
    PROVE  Turns(Now, Now')
<1>1. Do(CommitVaultSwitch(Now, v, readOnly)) /\ Now.dialog.kind = "none"
  BY NowIs DEF SwitchVault, NoDialog
<1>2. \A x \in CommitVaultSwitch(Now, v, readOnly) : Turns(Now, x)
  BY <1>1, SwitchGood DEF Turns
<1> QED
  BY <1>1, <1>2, DoTurn

LEMMA GoneRests ==
    ASSUME NEW w, Rest(w), w.dialog.kind = "none"
    PROVE  Rest(Gone(w)) /\ Room(Gone(w)) = <<None, FALSE, FALSE>>
<1> DEFINE l == [w.log EXCEPT !.asked = FALSE]
           x == [w EXCEPT !.app = Closed, !.workers = {}, !.log = l]
<1>1. w \in Worlds
  BY DEF Rest, Sound
<1>2. w.log \in Logs
  BY <1>1, WorldParts
<1>3. l \in Logs /\ l.unsaved = w.log.unsaved /\ l.asked = FALSE
  BY <1>2 DEF Logs
<1>4. Gone(w) = x
  BY <1>1 DEF Gone, Worlds
<1> HIDE DEF l
<1>5. Closed \in Apps /\ Closed.vault = None /\ Closed.active = None
      /\ Closed.keys = FALSE /\ Closed.held = {} /\ Closed.dirty = {}
  BY DEF Closed, Apps, Pages
<1>6. None \notin Secure /\ None \notin Notes
  BY SessionAssumption
<1>7. x \in Worlds
  BY <1>1, <1>3, <1>5 DEF Worlds, Workers
<1>8. x.app = Closed /\ x.disk = w.disk /\ x.dialog = w.dialog /\ x.workers = {} /\ x.log = l
  BY <1>1 DEF Worlds
<1> HIDE DEF x
<1>80. Fits(x)
  BY <1>5, <1>8 DEF Rest, Sound, Fits, Shows
<1>9. Sound(x)
  BY <1>5, <1>6, <1>7, <1>8, <1>80 DEF Sound, Blank, Asking, Own, Shut, NoteDialogs, Reopenings
<1> QED
  BY <1>3, <1>4, <1>5, <1>8, <1>9 DEF Rest, Room

LEMMA CloseStep == ASSUME Good(Now), Close PROVE Turns(Now, Now')
<1> DEFINE w == [CancelTimers(Now) EXCEPT !.app.pick = None]
           ws == UNION {IF o.ok THEN {Gone(o.w)} ELSE {o.w} : o \in Persist(w, TRUE)}
<1>1. Do(ws)
  BY DEF Close, Then
<1>2. dialog = NoDialog
  BY DEF Close, User, Then
<1> HIDE DEF ws
<1>3. Good(w) /\ w.dialog.kind = "none" /\ Room(w) = Room(Now)
  <2> DEFINE c == CancelTimers(Now)
  <2>1. Good(c) /\ c.dialog.kind = "none" /\ Room(c) = Room(Now)
    BY <1>2, NowIs, CancelTimersGood DEF NoDialog
  <2> HIDE DEF c
  <2>2. Good([c EXCEPT !.app.pick = None]) /\ [c EXCEPT !.app.pick = None].dialog.kind = "none"
        /\ Room([c EXCEPT !.app.pick = None]) = Room(c)
    BY <2>1, NewPick
  <2> QED
    BY <2>1, <2>2 DEF c
<1> HIDE DEF w
<1>4. ASSUME NEW x \in ws PROVE Turns(Now, x)
  <2>1. PICK o \in Persist(w, TRUE) : x = IF o.ok THEN Gone(o.w) ELSE o.w
    BY <1>4 DEF ws
  <2>2. Good(o.w) /\ SameScene(w, o.w) /\ (o.ok => Rest(o.w)) /\ Room(o.w) = Room(Now)
    BY <1>3, <2>1, PersistGood
  <2>3. o.w.dialog.kind = "none"
    BY <1>3, <2>2 DEF SameScene
  <2>4. o.ok => Rest(Gone(o.w)) /\ Room(Gone(o.w)) = <<None, FALSE, FALSE>>
    BY <2>2, <2>3, GoneRests
  <2> QED
    BY <2>1, <2>2, <2>4, RestIsGood DEF Turns
<1> QED
  BY <1>1, <1>4, DoTurn

(***************************************************************************)
(* The theorems                                                            *)
(***************************************************************************)
IInv == Good(Now)

LEMMA InitHolds == Init => IInv
<1> SUFFICES ASSUME Init PROVE Good(Now)
  BY DEF IInv
<1>1. /\ app = Closed /\ dialog = NoDialog /\ workers = {} /\ log = [unsaved |-> {}, asked |-> FALSE]
      /\ disk = [text |-> [n \in Notes |-> n], secret |-> Secret,
                 place |-> [n \in Notes |-> IF n \in Absent THEN "gone" ELSE "notes"]]
  BY DEF Init
<1>2. /\ Closed \in Apps /\ Closed.vault = None /\ Closed.active = None
      /\ Closed.held = {} /\ Closed.dirty = {}
  BY DEF Closed, Apps, Pages
<1>3. NoDialog \in Dialogs /\ NoDialog.kind = "none"
  BY DEF NoDialog, Dialogs
<1>4. disk \in Disks
  BY <1>1, SessionAssumption DEF Disks
<1>5. workers \in Workers /\ log \in Logs
  BY <1>1 DEF Workers, Logs
<1>6. Now \in Worlds
  BY <1>1, <1>2, <1>3, <1>4, <1>5 DEF Now, Worlds
<1>7. ~Shut(Now)
  BY <1>1, <1>2, NowIs, SessionAssumption DEF Shut
<1>70. Fits(Now)
  BY <1>1, <1>2, NowIs DEF Fits, Whole, Shows
<1>8. Sound(Now)
  BY <1>1, <1>2, <1>3, <1>6, <1>7, <1>70, NowIs, SessionAssumption
     DEF Sound, Blank, Asking, Own, NoteDialogs, Reopenings
<1> QED
  BY <1>1, <1>8, NowIs, RestIsGood DEF Rest

LEMMA UserTurns == ASSUME Good(Now), UserStep PROVE Turns(Now, Now')
<1>1. CASE \E part \in Parts : Type(part)
  BY <1>1, TypeStep, StaysTurns
<1>2. CASE Save \/ NewNote \/ AskNotePassword \/ LockNote \/ LockVaultNow \/ Close
  BY <1>2, SaveStep, NewNoteStep, AskNotePasswordStep, LockNoteStep, LockVaultStep, CloseStep, StaysTurns
<1>3. CASE AskVaultPassword \/ AnswerVault \/ AnswerNote \/ Cancel
  BY <1>3, AskVaultPasswordStep, AnswerVaultStep, AnswerNoteStep, CancelStep, StaysTurns
<1>4. CASE \E trash \in BOOLEAN : View(trash)
  BY <1>4, ViewStep, StaysTurns
<1>5. CASE \E kind \in {"encrypt", "change-password", "remove-encryption"} : AskAbout(kind)
  BY <1>5, AskAboutStep, StaysTurns
<1>6. CASE \E n \in Notes : Click(n) \/ Flag(n) \/ Move(n) \/ Rename(n) \/ EncryptRow(n)
  BY <1>6, ClickStep, FlagStep, MoveStep, RenameStep, EncryptRowStep, StaysTurns
<1>7. CASE \E n \in Notes : MoveToTrash(n) \/ RestoreNote(n) \/ AskDelete(n)
  BY <1>7, MoveToTrashStep, RestoreStep, AskDeleteStep, StaysTurns
<1>8. CASE \E v \in Vaults, readOnly \in BOOLEAN : SwitchVault(v, readOnly)
  BY <1>8, SwitchStep
<1>9. CASE \E n \in Notes : Adjacent(n)
  BY <1>9, AdjacentStep, StaysTurns
<1> QED
  BY <1>1, <1>2, <1>3, <1>4, <1>5, <1>6, <1>7, <1>8, <1>9 DEF UserStep

\* What a step may do to the vault that is shown
LEMMA StepTurns == ASSUME Good(Now), [Next]_vars PROVE Turns(Now, Now')
<1>1. CASE UserStep
  BY <1>1, UserTurns
<1>2. CASE \E part \in Parts : TimerFires(part)
  BY <1>2, TimerStep, StaysTurns
<1>3. CASE Dispatch
  BY <1>3, DispatchStep, StaysTurns
<1>4. CASE \E k \in workers : WorkerAnswers(k)
  BY <1>4, WorkerStep
<1>5. CASE FocusLost \/ IdleTick
  BY <1>5, LockAllStep DEF FocusLost, IdleTick
<1>6. CASE UNCHANGED vars
  BY <1>6 DEF vars, Now, Turns
<1> QED
  BY <1>1, <1>2, <1>3, <1>4, <1>5, <1>6 DEF Next

LEMMA StepHolds == IInv /\ [Next]_vars => IInv'
  BY StepTurns DEF IInv, Turns

LEMMA Invariant == Spec => []IInv
<1>1. Init => IInv
  BY InitHolds
<1>2. IInv /\ [Next]_vars => IInv'
  BY StepHolds
<1> QED
  BY <1>1, <1>2, PTL DEF Spec

\* Every part of the window, of the vaults' files and of what is pending has
\* its type, for any notes, vaults, settings and commands.
THEOREM TypeCorrect == Spec => []TypeOK
<1>1. IInv => TypeOK
  <2> SUFFICES ASSUME IInv PROVE TypeOK
    OBVIOUS
  <2>1. Now \in Worlds
    BY DEF IInv, Good, Sound
  <2>2. app \in Apps /\ disk \in Disks /\ dialog \in Dialogs /\ workers \in Workers /\ log \in Logs
    BY <2>1, WorldParts, NowIs
  <2> QED
    BY <2>2 DEF TypeOK, Apps, Disks, Dialogs, Workers, Logs
<1> QED
  BY <1>1, Invariant, PTL

\* Without the next-note keys no handler drops text that is not saved, for any
\* notes and vaults, in any order of timers, dialogs, workers, selections,
\* locks and failing saves (display_document, prepare_to_leave_active).
THEOREM EditsStay == ASSUME "next-note" \notin Commands PROVE Spec => []EditsAreHeld
<1>1. IInv => EditsAreHeld
  BY NowIs DEF IInv, Good, Minds, Held, EditsAreHeld
<1> QED
  BY <1>1, Invariant, PTL

\* Where no flag of the open note is toggled, and also where every view shows
\* a note and no note gets a new password or loses its own, a save writes the
\* open note's own text, never another note's or an emptied editor's
\* (persist_active, clear_editor).
THEOREM TextStaysOwn ==
    ASSUME \/ "flag" \notin Commands
           \/ ~EmptyViews /\ Commands \cap {"change-password", "remove-encryption"} = {}
    PROVE  Spec => []TextIsOwn
<1>1. IInv => TextIsOwn
  BY NowIs DEF IInv, Good, Sound, Fits, Whole, FlagFree, Faithful, Reopenings, TextIsOwn
<1> QED
  BY <1>1, Invariant, PTL

\* A locked Secure Vault leaves no document, no text in the widgets, no timer
\* and nothing to save (lock_vault, and the switch to a vault that is still
\* locked).
THEOREM LockedIsBlank == Spec => []ShutVaultIsBlank
<1>1. IInv => ShutVaultIsBlank
  BY NowIs DEF IInv, Good, Sound, Blank, ShutVaultIsBlank
<1> QED
  BY <1>1, Invariant, PTL

\* What VaultAccess calls open, and the documents in memory
Open(w) == w.app.vault # None /\ ~Shut(w)
Documents(w) == (w.app.held \cup {w.app.active}) \ {None}
OfVault(v) == {n \in Notes : Home[n] = v}

\* Documents are of the vault that is shown, and of none while it is closed.
LEMMA DocumentsAreOwn ==
    ASSUME NEW w, Good(w)
    PROVE  Documents(w) \subseteq OfVault(w.app.vault) /\ (~Open(w) => Documents(w) = {})
<1>1. w.app \in Apps /\ Own(w) /\ Blank(w)
  BY WorldParts DEF Good, Sound
<1>2. Documents(w) \subseteq OfVault(w.app.vault)
  BY <1>1 DEF Documents, OfVault, Own, Apps
<1>3. CASE Shut(w)
  BY <1>1, <1>2, <1>3 DEF Blank, Documents, Open
<1>4. CASE w.app.vault = None
  BY <1>2, <1>4, SessionAssumption DEF OfVault
<1> QED
  BY <1>2, <1>3, <1>4 DEF Open

\* The steps of VaultAccess, as a relation on worlds
Uses(w, x) == Open(w) /\ Open(x) /\ Room(x) = Room(w)
Enters(w, x) ==
    \E v \in Vaults : /\ x.app.vault = v /\ Open(x) = (v \notin Secure) /\ x.log.asked = FALSE
                      /\ Documents(x) \subseteq IF v \in Secure THEN {} ELSE OfVault(v)
Asks(w, x) ==
    /\ w.app.vault \in Secure /\ ~Open(w) /\ x.app.vault = w.app.vault /\ ~Open(x)
    /\ x.log.asked = TRUE /\ Documents(w) = {} /\ Documents(x) = {}
Unlocks(w, x) ==
    /\ w.log.asked = TRUE /\ ~Open(w) /\ Open(x)
    /\ x.app.vault = w.app.vault /\ x.log.asked = w.log.asked
Leaves(x) == x.app.vault = None /\ ~Open(x) /\ x.log.asked = FALSE /\ Documents(x) = {}
Rests(w, x) ==
    /\ ~Open(w) /\ ~Open(x) /\ Room(x) = Room(w) /\ Documents(w) = {} /\ Documents(x) = {}

LEMMA TurnsMap ==
    ASSUME NEW w, NEW x, Good(w), Turns(w, x)
    PROVE  \/ Uses(w, x) \/ Enters(w, x) \/ Asks(w, x) \/ Unlocks(w, x) \/ Leaves(x) \/ Rests(w, x)
<1>1. /\ Good(x) /\ w.log \in Logs /\ w.app \in Apps
  BY WorldParts DEF Turns, Good, Sound
<1>2. Documents(x) \subseteq OfVault(x.app.vault) /\ (~Open(x) => Documents(x) = {})
  BY <1>1, DocumentsAreOwn
<1>3. ~Open(w) => Documents(w) = {}
  BY DocumentsAreOwn
<1>4. None \notin Vaults /\ None \notin Secure
  BY SessionAssumption
<1>5. CASE Room(x) = Room(w)
  <2>1. Open(x) = Open(w)
    BY <1>5 DEF Open, Shut, Room
  <2> QED
    BY <1>2, <1>3, <1>5, <2>1 DEF Uses, Rests
<1>6. CASE \E v \in Vaults : Room(x) = <<v, FALSE, FALSE>>
  <2>1. PICK v \in Vaults : x.app.vault = v /\ x.app.keys = FALSE /\ x.log.asked = FALSE
    BY <1>6 DEF Room
  <2>2. Open(x) = (v \notin Secure)
    BY <1>4, <2>1 DEF Open, Shut
  <2> QED
    BY <1>2, <2>1, <2>2 DEF Enters
<1>7. CASE Room(x) = <<None, FALSE, FALSE>>
  <2>1. x.app.vault = None /\ x.log.asked = FALSE /\ ~Open(x)
    BY <1>7 DEF Room, Open
  <2> QED
    BY <1>2, <2>1 DEF Leaves
<1>8. CASE Shut(w) /\ Room(x) = <<w.app.vault, FALSE, TRUE>>
  <2>1. /\ w.app.vault \in Secure /\ x.app.vault = w.app.vault /\ x.app.keys = FALSE
        /\ x.log.asked = TRUE
    BY <1>8 DEF Room, Shut
  <2>2. ~Open(w) /\ ~Open(x)
    BY <1>8, <2>1 DEF Open, Shut
  <2> QED
    BY <1>2, <1>3, <2>1, <2>2 DEF Asks
<1>9. CASE Shut(w) /\ w.log.asked /\ Room(x) = <<w.app.vault, TRUE, TRUE>>
  <2>1. /\ w.app.vault \in Secure /\ x.app.vault = w.app.vault /\ x.app.keys = TRUE
        /\ x.log.asked = TRUE
    BY <1>9 DEF Room, Shut
  <2>2. ~Open(w) /\ Open(x)
    BY <1>4, <1>9, <2>1 DEF Open, Shut
  <2>3. w.log.asked = TRUE
    BY <1>1, <1>9 DEF Logs
  <2> QED
    BY <2>1, <2>2, <2>3 DEF Unlocks
<1> QED
  BY <1>5, <1>6, <1>7, <1>8, <1>9 DEF Turns

\* The window keeps what VaultAccess promises, for any notes, vaults, settings
\* and commands: documents in memory are of the vault that is shown and
\* only while it is open, and a Secure Vault is opened only by a password typed
\* since it was entered or locked (SessionRegistry::bump, lock_vault,
\* commit_vault_switch, the unlock worker's token).
THEOREM Refinement == Spec => ImplementsVaultAccess
<1>1. Init => Access!Init
  <2> SUFFICES ASSUME Init PROVE Access!Init
    OBVIOUS
  <2>1. app = Closed /\ log.asked = FALSE
    BY DEF Init
  <2>2. app.vault = None /\ app.active = None /\ app.held = {}
    BY <2>1 DEF Closed
  <2> QED
    BY <2>1, <2>2 DEF Access!Init
<1>2. IInv /\ IInv' /\ [Next]_vars => [Access!Next]_Access!vars
  <2> SUFFICES ASSUME IInv, IInv', [Next]_vars PROVE [Access!Next]_Access!vars
    OBVIOUS
  <2> DEFINE x == Now'
  <2>1. Good(Now) /\ Turns(Now, x)
    BY StepTurns DEF IInv
  <2>2. x.app = app' /\ x.log = log'
    BY DEF Now
  <2>3. /\ Open(Now) = (app.vault # None /\ ~Shut(Now))
        /\ Open(x) = (app'.vault # None /\ ~Shut(x))
        /\ Documents(Now) = (app.held \cup {app.active}) \ {None}
        /\ Documents(x) = (app'.held \cup {app'.active}) \ {None}
        /\ Room(Now) = <<app.vault, app.keys, log.asked>>
        /\ Room(x) = <<app'.vault, app'.keys, log'.asked>>
    BY <2>2, NowIs DEF Open, Documents, Room
  <2>4. Documents(x) \subseteq OfVault(app'.vault)
    BY <2>1, <2>2, DocumentsAreOwn DEF Turns
  <2>5. \A v : Access!NotesOf(v) = OfVault(v)
    BY DEF Access!NotesOf, OfVault
  <2>6. CASE Uses(Now, x)
    <3>1. Open(Now) = TRUE /\ Open(x) = TRUE /\ app'.vault = app.vault /\ log'.asked = log.asked
      BY <2>3, <2>6 DEF Uses
    <3>2. Access!Use
      BY <2>3, <2>4, <2>5, <3>1 DEF Access!Use
    <3> QED
      BY <3>2 DEF Access!Next
  <2>7. CASE Enters(Now, x)
    <3>1. \E v \in Vaults : Access!Enter(v)
      BY <2>2, <2>3, <2>5, <2>7 DEF Access!Enter, Enters
    <3> QED
      BY <3>1 DEF Access!Next
  <2>8. CASE Asks(Now, x)
    <3>1. Access!Ask
      BY <2>2, <2>3, <2>8, NowIs DEF Access!Ask, Asks
    <3> QED
      BY <3>1 DEF Access!Next
  <2>9. CASE Unlocks(Now, x)
    <3>1. Access!Unlock
      BY <2>2, <2>3, <2>4, <2>5, <2>9, NowIs DEF Access!Unlock, Unlocks
    <3> QED
      BY <3>1 DEF Access!Next
  <2>10. CASE Leaves(x)
    <3>1. Access!Leave
      BY <2>2, <2>3, <2>10 DEF Access!Leave, Leaves
    <3> QED
      BY <3>1 DEF Access!Next
  <2>11. CASE Rests(Now, x)
    <3>1. /\ Open(Now) = FALSE /\ Open(x) = FALSE /\ app'.vault = app.vault /\ log'.asked = log.asked
          /\ Documents(Now) = {} /\ Documents(x) = {}
      BY <2>3, <2>11 DEF Rests
    <3>2. UNCHANGED Access!vars
      BY <2>3, <3>1 DEF Access!vars
    <3> QED
      BY <3>2
  <2> QED
    BY <2>1, <2>6, <2>7, <2>8, <2>9, <2>10, <2>11, TurnsMap
<1> QED
  BY <1>1, <1>2, Invariant, PTL DEF Spec, ImplementsVaultAccess, Access!Spec
=============================================================================
