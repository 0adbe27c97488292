---------------------------- MODULE MigrationsInv ----------------------------
(***************************************************************************)
(* Why the migrations keep out of each other's way: the inductive          *)
(* invariant behind the properties of Migrations.                          *)
(***************************************************************************)
EXTENDS Migrations

(***************************************************************************)
(* What holds always, overlapping undos included.                          *)
(***************************************************************************)

\* The stage of a process and its transaction agree.
StageInv(p) ==
  /\ program[p] \in Programs[p]
  /\ tx[p] = "open" <=> pc[p] \in {"migrate", "record", "commit"}
  /\ tx[p] \in {"orphan", "inDoubt"} => pc[p] = "off"
  /\ tx[p] = "none" => work[p] = NoWork
  /\ tx[p] # "open" \/ pc[p] = "commit" => todo[p] = {}
  /\ pc[p] = "serving" => program[p] = "serve" /\ source[p] = 2

\* An undo removes and erases, once; whoever applies does neither.
KindInv(p) ==
  LET w == work[p] IN
  /\ IF Undoing(p) THEN w.added = {} /\ w.recorded = {}
     ELSE w.removed = {} /\ w.erased = {}
  /\ Undoing(p) /\ pc[p] \in {"migrate", "record"} =>
       w.erased = {} /\ \A m, n \in todo[p] : m = n
  /\ Undoing(p) /\ pc[p] = "migrate" => w.removed = {}

\* One transaction makes a table, and only where it is not there; one drops it,
\* and only where it is.
TableLockInv ==
  \A p \in Process, m \in {1, 3} :
    LET o == Makes[m] IN
    /\ o \in work[p].added => o \notin schema /\ ~Adding(p, o)
    /\ o \in work[p].removed => o \in schema /\ ~Removing(p, o)

\* A transaction records what it has done to the tables.
RecordInv(p, m) ==
  LET o == Makes[m]
      w == work[p]
  IN /\ tx[p] = "inDoubt" \/ pc[p] = "commit" =>
          (o \in w.added <=> m \in w.recorded) /\ (o \in w.removed <=> m \in w.erased)
     /\ pc[p] = "migrate" => (o \in w.added <=> m \in w.recorded)
     /\ pc[p] = "record" =>
          \E k \in Migration :
            /\ Comes(p, k)
            /\ ~Undoing(p) => (o \in w.added <=> m \in w.recorded \union {k})
            /\ Undoing(p) => (o \in w.removed <=> m = k)

\* What the first initialization has yet to do, and what it leaves for the
\* second.
FirstInv(p) ==
  source[p] = 1 /\ ~undone[p] /\ pc[p] \in {"migrate", "record", "commit"} =>
    Migration \subseteq history \union work[p].recorded \union todo[p]

SecondInv(p) ==
  source[p] = 2 /\ ~undone[p] =>
    /\ pc[p] # "off" => history = Migration
    /\ program[p] # "undo" => todo[p] = {}

AlwaysInv ==
  /\ TablesRecorded /\ TableLockInv
  /\ \A p \in Process :
       /\ StageInv(p) /\ KindInv(p) /\ FirstInv(p) /\ SecondInv(p)
       /\ \A m \in {1, 3} : RecordInv(p, m)

(***************************************************************************)
(* What holds until two undos overlap.                                     *)
(***************************************************************************)

\* All migrations are applied at once, and only the last is ever undone.
BaseInv ==
  /\ history \in {{}, {1, 2, 3}, {1, 2, 3, 4}}
  /\ schema = {Makes[m] : m \in history}

\* What a process has set out to do, before it does the first of it.  An undo
\* has always found everything applied, since it comes after an initialization.
TodoInv(p) ==
  /\ Undoing(p) /\ pc[p] # "off" => history = Migration
  /\ Undoing(p) /\ pc[p] \in {"migrate", "record"} => todo[p] = {4}
  /\ ~Undoing(p) /\ pc[p] = "migrate" /\ work[p] = NoWork =>
       todo[p] = Migration \/ (todo[p] = {4} /\ history # {})

\* Who applies holds the first object that is missing, and has done and
\* recorded all it has not yet to do.
Applying(p) ==
  LET w == work[p] IN
  /\ ~Undoing(p) /\ history # Migration
  /\ w.removed = {} /\ w.erased = {}
  /\ (IF history = {} THEN "auth" ELSE "usersAdmin") \in w.added
  /\ tx[p] = "inDoubt" \/ pc[p] = "commit" =>
       /\ w.recorded = Migration \ history
       /\ w.added = {Makes[m] : m \in w.recorded}
  /\ pc[p] = "migrate" =>
       /\ w.recorded = Migration \ (history \union todo[p])
       /\ w.added = {Makes[m] : m \in w.recorded}
  /\ pc[p] = "record" =>
       /\ w.recorded = Migration \ (history \union todo[p])
       /\ \E m \in Migration :
            Comes(p, m) /\ w.added = {Makes[n] : n \in w.recorded \union {m}}
  /\ pc[p] \in {"migrate", "record"} =>
       /\ todo[p] \subseteq Migration \ history
       /\ \A m \in todo[p] : \A n \in Migration : n >= m => n \in todo[p]

\* Who undoes has deleted the administrator's row in users, nothing else.
Undone(p) ==
  LET w == work[p] IN
  /\ Undoing(p) /\ history = Migration
  /\ w.removed = {"usersAdmin"} /\ w.added = {} /\ w.recorded = {}
  /\ pc[p] # "migrate"
  /\ pc[p] = "record" => w.erased = {}
  /\ tx[p] = "inDoubt" \/ pc[p] = "commit" => w.erased = {4}

WorkInv(p) ==
  /\ work[p] # NoWork => Applying(p) \/ Undone(p)
  /\ tx[p] = "inDoubt" \/ pc[p] \in {"record", "commit"} => work[p] # NoWork

\* The keys and names of the database do what a lock would: at most one
\* transaction has changed anything.
Alone ==
  \A p, q \in Process : work[p] # NoWork /\ work[q] # NoWork => p = q

OneUndo ==
  \A p, q \in Process : UndoInProgress(p) /\ UndoInProgress(q) => p = q

OneAtATime ==
  BaseInv /\ Alone /\ OneUndo /\ \A p \in Process : TodoInv(p) /\ WorkInv(p)

MigrationsInv == AlwaysInv /\ (~overlapped => OneAtATime)
=============================================================================
