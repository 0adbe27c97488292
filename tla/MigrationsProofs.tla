-------------------------- MODULE MigrationsProofs --------------------------
(***************************************************************************)
(* Proofs about Migrations, for any processes, programs and number of      *)
(* failures.                                                               *)
(***************************************************************************)
EXTENDS MigrationsInv, TLAPS

USE ProgramsAssumption, TroublesAssumption

-----------------------------------------------------------------------------
(***************************************************************************)
(* The four migrations and what they make.                                 *)
(***************************************************************************)

LEMMA FourMigrations == Migration = {1, 2, 3, 4}
  BY DEF Migration

\* Each migration makes an object of its own.
LEMMA FourObjects ==
  /\ Makes[1] = "auth" /\ Makes[2] = "authAdmin"
  /\ Makes[3] = "users" /\ Makes[4] = "usersAdmin"
  /\ Object = {"auth", "authAdmin", "users", "usersAdmin"}
<1>1. /\ Makes[1] = "auth" /\ Makes[2] = "authAdmin"
      /\ Makes[3] = "users" /\ Makes[4] = "usersAdmin"
  BY FourMigrations DEF Makes
<1>2. QED
  BY <1>1, FourMigrations DEF Object

-----------------------------------------------------------------------------
(***************************************************************************)
(* Types.                                                                  *)
(***************************************************************************)

LEMMA NoWorkType == NoWork \in Work
  BY DEF NoWork, Work

LEMMA TypeInit == Init => MigrationsTypeOK
<1> SUFFICES ASSUME Init PROVE MigrationsTypeOK
  OBVIOUS
<1>1. /\ schema \subseteq Object /\ history \subseteq Migration
      /\ historyTable \in BOOLEAN /\ overlapped \in BOOLEAN
      /\ undone \in [Process -> BOOLEAN]
  BY DEF Init
<1>2. /\ program \in [Process -> {"serve", "run", "undo"}]
      /\ pc \in [Process -> Stages] /\ source \in [Process -> {1, 2}]
      /\ tx \in [Process -> {"none", "open", "orphan", "inDoubt"}]
  BY DEF Init, Stages
<1>3. /\ todo \in [Process -> SUBSET Migration]
      /\ work \in [Process -> Work]
  BY NoWorkType DEF Init
<1>4. troubles \in 0 .. MaxTroubles
  BY DEF Init
<1>5. QED
  BY <1>1, <1>2, <1>3, <1>4 DEF MigrationsTypeOK

\* Ready only moves a process between stages and data sources.
LEMMA ReadyType ==
  ASSUME MigrationsTypeOK, NEW p \in Process, Ready(p)
  PROVE  pc' \in [Process -> Stages] /\ source' \in [Process -> {1, 2}]
  BY DEF MigrationsTypeOK, Ready, Goto, Stages

\* What a process sets out to do when it looks.
LEMMA LoadTodo ==
  ASSUME MigrationsTypeOK, NEW p \in Process, Load(p)
  PROVE  /\ todo'[p] \in Pending(p)
         /\ todo' = [todo EXCEPT ![p] = todo'[p]]
         /\ IF todo'[p] = {}
            THEN Ready(p) /\ UNCHANGED tx
            ELSE /\ Goto(p, "migrate") /\ tx' = [tx EXCEPT ![p] = "open"]
                 /\ UNCHANGED source
<1>1. PICK list \in Pending(p) :
        /\ todo' = [todo EXCEPT ![p] = list]
        /\ IF list = {}
           THEN Ready(p) /\ UNCHANGED tx
           ELSE /\ Goto(p, "migrate") /\ tx' = [tx EXCEPT ![p] = "open"]
                /\ UNCHANGED source
  BY DEF Load
<1>2. todo'[p] = list
  BY <1>1 DEF MigrationsTypeOK
<1>3. QED
  BY <1>1, <1>2

LEMMA PendingType ==
  ASSUME MigrationsTypeOK, NEW p \in Process, NEW list \in Pending(p)
  PROVE  list \subseteq Migration
  BY DEF Pending, ToUndo, LastExecuted, MigrationsTypeOK

LEMMA TypeStep ==
  ASSUME MigrationsTypeOK, [Next]_vars
  PROVE  MigrationsTypeOK'
<1>1. CASE UNCHANGED vars
  BY <1>1 DEF MigrationsTypeOK, vars, database, ghosts
<1>2. ASSUME NEW p \in Process, Start(p) PROVE MigrationsTypeOK'
  BY <1>2 DEF Start, Goto, Trouble, MigrationsTypeOK, Stages, database
<1>3. ASSUME NEW p \in Process, CheckHistory(p) \/ CreateHistory(p)
      PROVE  MigrationsTypeOK'
  BY <1>3 DEF CheckHistory, CreateHistory, Goto, MigrationsTypeOK, Stages,
              database, ghosts
<1>4. ASSUME NEW p \in Process, Load(p) PROVE MigrationsTypeOK'
  <2>1. todo' \in [Process -> SUBSET Migration]
    BY <1>4, LoadTodo, PendingType DEF MigrationsTypeOK
  <2>2. /\ pc' \in [Process -> Stages] /\ source' \in [Process -> {1, 2}]
        /\ tx' \in [Process -> {"none", "open", "orphan", "inDoubt"}]
    BY <1>4, LoadTodo, ReadyType DEF Goto, Stages, MigrationsTypeOK
  <2>3. QED
    BY <1>4, <2>1, <2>2 DEF Load, MigrationsTypeOK, database, ghosts
<1>5. ASSUME NEW p \in Process, NEW m \in Migration, Up(p, m)
      PROVE  MigrationsTypeOK'
  <2>1. Makes[m] \in Object
    BY DEF Object
  <2>2. work' \in [Process -> Work]
    <3>1. work' = [work EXCEPT ![p].added = @ \union {Makes[m]}]
      BY <1>5 DEF Up
    <3>2. work \in [Process -> Work]
      BY DEF MigrationsTypeOK
    <3>3. [work[p] EXCEPT !.added = @ \union {Makes[m]}] \in Work
      BY <2>1, <3>2 DEF Work
    <3>4. QED
      BY <3>1, <3>2, <3>3
  <2>3. pc' \in [Process -> Stages]
    BY <1>5 DEF Up, Goto, MigrationsTypeOK, Stages
  <2>4. QED
    BY <1>5, <2>2, <2>3 DEF Up, MigrationsTypeOK, database, ghosts
<1>6. ASSUME NEW p \in Process, NEW m \in Migration, Down(p, m)
      PROVE  MigrationsTypeOK'
  <2>1. View(p) \subseteq Object
    BY DEF View, MigrationsTypeOK, Work
  <2>2. work' \in [Process -> Work]
    <3>1. PICK S \in SUBSET Object : work' = [work EXCEPT ![p].removed = S]
      BY <1>6, <2>1 DEF Down
    <3>2. work \in [Process -> Work]
      BY DEF MigrationsTypeOK
    <3>3. [work[p] EXCEPT !.removed = S] \in Work
      BY <3>2 DEF Work
    <3>4. QED
      BY <3>1, <3>2, <3>3
  <2>3. pc' \in [Process -> Stages]
    BY <1>6 DEF Down, Goto, MigrationsTypeOK, Stages
  <2>4. QED
    BY <1>6, <2>2, <2>3 DEF Down, MigrationsTypeOK, database, ghosts
<1>7. ASSUME NEW p \in Process, NEW m \in Migration, Record(p, m)
      PROVE  MigrationsTypeOK'
  <2>1. work' \in [Process -> Work]
    <3>1. CASE Undoing(p)
      <4>1. work' = [work EXCEPT ![p].erased = {m} \intersect history]
        BY <1>7, <3>1 DEF Record
      <4>2. work \in [Process -> Work]
        BY DEF MigrationsTypeOK
      <4>3. [work[p] EXCEPT !.erased = {m} \intersect history] \in Work
        BY <4>2 DEF Work
      <4>4. QED
        BY <4>1, <4>2, <4>3
    <3>2. CASE ~Undoing(p)
      <4>1. work' = [work EXCEPT ![p].recorded = @ \union {m}]
        BY <1>7, <3>2 DEF Record
      <4>2. work \in [Process -> Work]
        BY DEF MigrationsTypeOK
      <4>3. [work[p] EXCEPT !.recorded = @ \union {m}] \in Work
        BY <4>2 DEF Work
      <4>4. QED
        BY <4>1, <4>2, <4>3
    <3>3. QED
      BY <3>1, <3>2
  <2>2. todo' \in [Process -> SUBSET Migration]
    BY <1>7 DEF Record, MigrationsTypeOK
  <2>3. pc' \in [Process -> Stages]
    BY <1>7 DEF Record, Goto, MigrationsTypeOK, Stages
  <2>4. QED
    BY <1>7, <2>1, <2>2, <2>3 DEF Record, MigrationsTypeOK, database, ghosts
<1>8. ASSUME NEW p \in Process, Commit(p) \/ LateCommit(p)
      PROVE  MigrationsTypeOK'
  <2>1. schema' \subseteq Object /\ history' \subseteq Migration
    BY <1>8 DEF Commit, LateCommit, Install, MigrationsTypeOK, Work
  <2>2. pc' \in [Process -> Stages] /\ source' \in [Process -> {1, 2}]
    BY <1>8, ReadyType DEF Commit, LateCommit, MigrationsTypeOK
  <2>3. work' \in [Process -> Work]
    BY <1>8, NoWorkType DEF Commit, LateCommit, Install, MigrationsTypeOK
  <2>4. undone' \in [Process -> BOOLEAN]
    <3>1. undone' = [q \in Process |-> undone[q] \/ work[p].erased # {}]
      BY <1>8 DEF Commit, LateCommit, Install
    <3>2. QED
      BY <3>1
  <2>5. /\ tx' \in [Process -> {"none", "open", "orphan", "inDoubt"}]
        /\ UNCHANGED <<historyTable, program, todo, troubles, overlapped>>
    BY <1>8 DEF Commit, LateCommit, Install, MigrationsTypeOK
  <2>6. QED
    BY <2>1, <2>2, <2>3, <2>4, <2>5 DEF MigrationsTypeOK
<1>9. ASSUME NEW p \in Process, Lose(p) \/ Fail(p) \/ Crash(p) \/ Reap(p)
      PROVE  MigrationsTypeOK'
  <2>1. work' \in [Process -> Work]
    BY <1>9, NoWorkType DEF Lose, Fail, Crash, Reap, Exit, MigrationsTypeOK
  <2>2. tx' \in [Process -> {"none", "open", "orphan", "inDoubt"}]
    BY <1>9 DEF Lose, Fail, Crash, Reap, Exit, MigrationsTypeOK
  <2>3. todo' \in [Process -> SUBSET Migration]
    BY <1>9 DEF Lose, Fail, Crash, Reap, Exit, MigrationsTypeOK
  <2>4. troubles' \in 0 .. MaxTroubles
    BY <1>9 DEF Lose, Fail, Crash, Reap, Trouble, MigrationsTypeOK
  <2>5. QED
    BY <1>9, <2>1, <2>2, <2>3, <2>4
    DEF Lose, Fail, Crash, Reap, Exit, Goto, Trouble, Stages,
        MigrationsTypeOK, database, ghosts
<1>10. QED
  BY <1>1, <1>2, <1>3, <1>4, <1>5, <1>6, <1>7, <1>8, <1>9 DEF Next, Step

\* Whatever fails and whoever is started, what the processes, the server and
\* the tables hold stays within its type.
THEOREM MigrationsTypeCorrect == Spec => []MigrationsTypeOK
<1>1. QED
  BY TypeInit, TypeStep, PTL DEF Spec

-----------------------------------------------------------------------------
(***************************************************************************)
(* What holds always.                                                      *)
(***************************************************************************)

\* A step of one process.
Act(p) ==
  \/ Start(p) \/ CheckHistory(p) \/ CreateHistory(p) \/ Load(p)
  \/ \E m \in Migration : Up(p, m) \/ Down(p, m) \/ Record(p, m)
  \/ Commit(p) \/ LateCommit(p) \/ Lose(p) \/ Fail(p) \/ Crash(p) \/ Reap(p)

LEMMA NextIsAct == Next <=> \E p \in Process : Act(p)
  BY DEF Next, Step, Act

\* A step of one process leaves the others' variables alone.
OthersStay(p) ==
  \A q \in Process \ {p} :
    /\ program'[q] = program[q] /\ pc'[q] = pc[q] /\ source'[q] = source[q]
    /\ todo'[q] = todo[q] /\ tx'[q] = tx[q] /\ work'[q] = work[q]

LEMMA ActFrame ==
  ASSUME MigrationsTypeOK, NEW p \in Process, Act(p)
  PROVE  OthersStay(p)
<1>1. CASE Start(p) \/ CheckHistory(p) \/ CreateHistory(p) \/ Load(p)
  BY <1>1 DEF MigrationsTypeOK, OthersStay, Start, CheckHistory, CreateHistory,
              Load, Ready, Goto
<1>2. ASSUME NEW m \in Migration, Up(p, m) \/ Down(p, m) \/ Record(p, m)
      PROVE  OthersStay(p)
  BY <1>2 DEF MigrationsTypeOK, OthersStay, Up, Down, Record, Goto
<1>3. CASE Commit(p) \/ LateCommit(p)
  BY <1>3 DEF MigrationsTypeOK, OthersStay, Commit, LateCommit, Install, Ready,
              Goto
<1>4. CASE Lose(p) \/ Fail(p) \/ Crash(p) \/ Reap(p)
  BY <1>4 DEF MigrationsTypeOK, OthersStay, Lose, Fail, Crash, Reap, Exit, Goto
<1>5. QED
  BY <1>1, <1>2, <1>3, <1>4 DEF Act

\* The tables change only when a transaction commits.
LEMMA ChangeIsInstall ==
  ASSUME NEW p \in Process, Act(p)
  PROVE  \/ Install(p) /\ (pc[p] = "commit" \/ tx[p] = "inDoubt")
         \/ /\ schema' = schema /\ history' = history
            /\ undone' = undone \/ (Start(p) /\ undone' = [undone EXCEPT ![p] = FALSE])
  BY DEF Act, Start, CheckHistory, CreateHistory, Load, Up, Down, Record,
         Commit, LateCommit, Lose, Fail, Crash, Reap, Exit, database, ghosts

LEMMA StageKeeps ==
  ASSUME MigrationsTypeOK, NEW p \in Process, StageInv(p), Act(p)
  PROVE  StageInv(p)'
<1>1. CASE Start(p)
  BY <1>1 DEF StageInv, Start, Goto
<1>2. CASE CheckHistory(p) \/ CreateHistory(p)
  BY <1>2 DEF MigrationsTypeOK, StageInv, CheckHistory, CreateHistory, Goto
<1>3. CASE Load(p)
  BY <1>3 DEF MigrationsTypeOK, StageInv, Load, Ready, Goto
<1>4. ASSUME NEW m \in Migration, Up(p, m) \/ Down(p, m) \/ Record(p, m)
      PROVE  StageInv(p)'
  BY <1>4 DEF MigrationsTypeOK, StageInv, Up, Down, Record, Goto
<1>5. CASE Commit(p) \/ LateCommit(p)
  BY <1>5 DEF MigrationsTypeOK, StageInv, Commit, LateCommit, Install, Ready,
              Goto
<1>6. CASE Lose(p) \/ Fail(p) \/ Crash(p) \/ Reap(p)
  BY <1>6 DEF MigrationsTypeOK, StageInv, Lose, Fail, Crash, Reap, Exit, Goto
<1>7. QED
  BY <1>1, <1>2, <1>3, <1>4, <1>5, <1>6 DEF Act

\* What a process undoes is one migration.
LEMMA PendingUndo ==
  ASSUME MigrationsTypeOK, NEW p \in Process, Undoing(p)
  PROVE  \A list \in Pending(p) : \A m, n \in list : m = n
  BY DEF Pending, ToUndo

LEMMA KindKeeps ==
  ASSUME MigrationsTypeOK, NEW p \in Process, StageInv(p), KindInv(p), Act(p)
  PROVE  KindInv(p)'
<1>1. CASE Start(p) \/ CheckHistory(p) \/ CreateHistory(p)
  BY <1>1
  DEF MigrationsTypeOK, StageInv, KindInv, NoWork, Start, CheckHistory,
      CreateHistory
<1>2. CASE Load(p)
  <2>1. /\ tx[p] = "none" /\ work[p] = NoWork /\ work' = work
        /\ program' = program /\ todo'[p] \in Pending(p)
    BY <1>2, LoadTodo DEF Load, MigrationsTypeOK, StageInv
  <2>2. todo'[p] = {} \/ (pc'[p] = "migrate" /\ source' = source)
    BY <1>2, LoadTodo DEF Goto, MigrationsTypeOK
  <2>3. QED
    BY <2>1, <2>2, PendingUndo DEF KindInv, Undoing, NoWork
<1>3. ASSUME NEW m \in Migration, Up(p, m)
      PROVE  KindInv(p)'
  <2>1. work'[p] = [work[p] EXCEPT !.added = @ \union {Makes[m]}]
    BY <1>3 DEF Up, MigrationsTypeOK
  <2>2. /\ work'[p].removed = work[p].removed /\ work'[p].erased = work[p].erased
    BY <2>1 DEF MigrationsTypeOK, Work
  <2>3. QED
    BY <1>3, <2>2 DEF KindInv, Up, Undoing
<1>4. ASSUME NEW m \in Migration, Down(p, m)
      PROVE  KindInv(p)'
  <2>1. /\ work'[p].added = work[p].added /\ work'[p].erased = work[p].erased
        /\ work'[p].recorded = work[p].recorded /\ pc'[p] = "record"
    BY <1>4 DEF Down, Goto, MigrationsTypeOK, Work
  <2>2. QED
    BY <1>4, <2>1 DEF KindInv, Down, Undoing
<1>5. ASSUME NEW m \in Migration, Record(p, m)
      PROVE  KindInv(p)'
  <2>1. CASE Undoing(p)
    <3>1. /\ work'[p].added = work[p].added
          /\ work'[p].recorded = work[p].recorded
      BY <1>5, <2>1 DEF Record, MigrationsTypeOK, Work
    <3>2. todo[p] = {m}
      BY <1>5, <2>1 DEF Record, KindInv, Comes
    <3>3. pc'[p] = "commit"
      BY <1>5, <3>2 DEF Record, Goto, MigrationsTypeOK
    <3>4. QED
      BY <1>5, <2>1, <3>1, <3>3 DEF KindInv, Record, Undoing
  <2>2. CASE ~Undoing(p)
    <3>1. /\ work'[p].removed = work[p].removed
          /\ work'[p].erased = work[p].erased
      BY <1>5, <2>2 DEF Record, MigrationsTypeOK, Work
    <3>2. QED
      BY <1>5, <2>2, <3>1 DEF KindInv, Record, Undoing
  <2>3. QED
    BY <2>1, <2>2
<1>6. CASE Commit(p) \/ LateCommit(p)
  <2>1. work'[p] = NoWork
    BY <1>6 DEF Commit, LateCommit, Install, MigrationsTypeOK
  <2>2. pc'[p] \notin {"migrate", "record"}
    BY <1>6 DEF Commit, LateCommit, Ready, Goto, MigrationsTypeOK, StageInv
  <2>3. QED
    BY <2>1, <2>2 DEF KindInv, NoWork
<1>7. CASE Lose(p) \/ Fail(p) \/ Crash(p) \/ Reap(p)
  <2>1. /\ pc'[p] = "off" /\ program' = program /\ source' = source
        /\ work'[p] = work[p] \/ work'[p] = NoWork
    BY <1>7 DEF MigrationsTypeOK, StageInv, Lose, Fail, Crash, Reap, Exit, Goto
  <2>2. QED
    BY <2>1 DEF KindInv, NoWork, Undoing
<1>8. QED
  BY <1>1, <1>2, <1>3, <1>4, <1>5, <1>6, <1>7 DEF Act

\* A transaction without errors of its own records exactly what it does.
LEMMA RecordedKeeps ==
  ASSUME MigrationsTypeOK, TablesRecorded, TableLockInv,
         NEW p \in Process, StageInv(p), KindInv(p), NEW m \in {1, 3},
         RecordInv(p, m), Act(p)
  PROVE  RecordInv(p, m)'
<1> DEFINE o == Makes[m]
<1>0. m \in Migration
  BY FourMigrations
<1>1. CASE Start(p) \/ CheckHistory(p) \/ CreateHistory(p)
  BY <1>1
  DEF MigrationsTypeOK, RecordInv, Start, CheckHistory, CreateHistory, Goto
<1>2. CASE Load(p)
  <2>1. /\ tx[p] = "none" /\ work[p] = NoWork /\ work' = work
        /\ pc'[p] \in {"migrate", "check", "serving", "off"}
        /\ tx'[p] # "inDoubt"
    BY <1>2 DEF Load, Ready, Goto, MigrationsTypeOK, StageInv
  <2>2. QED
    BY <2>1 DEF RecordInv, NoWork
<1>3. ASSUME NEW k \in Migration, Up(p, k)
      PROVE  RecordInv(p, m)'
  <2>1. work'[p] = [work[p] EXCEPT !.added = @ \union {Makes[k]}]
    BY <1>3 DEF Up, MigrationsTypeOK
  <2>2. /\ work'[p].added = work[p].added \union {Makes[k]}
        /\ work'[p].recorded = work[p].recorded
    BY <2>1 DEF MigrationsTypeOK, Work
  <2>3. /\ pc[p] = "migrate" /\ pc'[p] = "record" /\ Comes(p, k)' /\ ~Undoing(p)'
        /\ tx'[p] # "inDoubt"
    BY <1>3 DEF Up, Comes, Undoing, Goto, MigrationsTypeOK, StageInv
  <2>4. Makes[k] = o <=> k = m
    BY FourMigrations, FourObjects
  <2>5. o \in work[p].added <=> m \in work[p].recorded
    BY <2>3 DEF RecordInv
  <2>6. o \in work'[p].added <=> m \in work'[p].recorded \union {k}
    BY <2>2, <2>4, <2>5
  <2>7. QED
    BY <2>3, <2>6 DEF RecordInv
<1>4. ASSUME NEW k \in Migration, Down(p, k)
      PROVE  RecordInv(p, m)'
  <2>1. /\ work'[p].removed = {x \in View(p) : x = Makes[k] \/ (x \in Rows /\ TableOf[x] = Makes[k])}
    BY <1>4 DEF Down, MigrationsTypeOK, Work
  <2>2. /\ pc[p] = "migrate" /\ pc'[p] = "record" /\ Comes(p, k)' /\ Undoing(p)'
        /\ tx'[p] # "inDoubt"
    BY <1>4 DEF Down, Comes, Undoing, Goto, MigrationsTypeOK, StageInv
  <2>3. Makes[k] = o <=> k = m
    BY FourMigrations, FourObjects
  <2>4. o \notin Rows
    BY FourObjects DEF Rows, TableOf
  <2>5. k = m => o \in View(p)
    BY <1>4, <2>4 DEF Down, DownFails
  <2>6. o \in work'[p].removed <=> m = k
    BY <2>1, <2>3, <2>4, <2>5
  <2>7. QED
    BY <2>2, <2>6 DEF RecordInv
<1>5. ASSUME NEW k \in Migration, Record(p, k)
      PROVE  RecordInv(p, m)'
  <2>1. PICK l \in Migration :
          /\ Comes(p, l)
          /\ ~Undoing(p) => (o \in work[p].added <=> m \in work[p].recorded \union {l})
          /\ Undoing(p) => (o \in work[p].removed <=> m = l)
    BY <1>5 DEF Record, RecordInv
  <2>2. l = k
    BY <1>5, <2>1, FourMigrations DEF Record, Comes
  <2>3. /\ pc'[p] \in {"commit", "migrate"} /\ tx'[p] # "inDoubt"
        /\ pc[p] = "record"
    BY <1>5 DEF Record, Goto, MigrationsTypeOK, StageInv
  <2>4. CASE Undoing(p)
    <3>1. /\ work'[p].added = work[p].added /\ work'[p].removed = work[p].removed
          /\ work'[p].recorded = work[p].recorded
          /\ work'[p].erased = {k} \intersect history
      BY <1>5, <2>4 DEF Record, MigrationsTypeOK, Work
    <3>2. o \in work[p].removed => m \in history
      BY DEF TableLockInv, TablesRecorded
    <3>3. /\ o \in work'[p].added <=> m \in work'[p].recorded
          /\ o \in work'[p].removed <=> m \in work'[p].erased
      BY <2>1, <2>2, <2>4, <3>1, <3>2 DEF KindInv
    <3>4. QED
      BY <2>3, <3>3 DEF RecordInv
  <2>5. CASE ~Undoing(p)
    <3>1. /\ work'[p].added = work[p].added /\ work'[p].removed = work[p].removed
          /\ work'[p].recorded = work[p].recorded \union {k}
          /\ work'[p].erased = work[p].erased
      BY <1>5, <2>5 DEF Record, MigrationsTypeOK, Work
    <3>2. /\ o \in work'[p].added <=> m \in work'[p].recorded
          /\ o \in work'[p].removed <=> m \in work'[p].erased
      BY <2>1, <2>2, <2>5, <3>1 DEF KindInv
    <3>3. QED
      BY <2>3, <3>2 DEF RecordInv
  <2>6. QED
    BY <2>4, <2>5
<1>6. CASE Commit(p) \/ LateCommit(p)
  BY <1>6 DEF Commit, LateCommit, Install, Ready, Goto, MigrationsTypeOK,
              StageInv, RecordInv
<1>7. CASE Lose(p) \/ Fail(p) \/ Reap(p)
  BY <1>7 DEF MigrationsTypeOK, StageInv, Lose, Fail, Reap, Exit, Goto,
              RecordInv
<1>8. CASE Crash(p)
  <2>1. /\ pc'[p] = "off" /\ work' = work
        /\ tx'[p] = "inDoubt" => tx[p] = "inDoubt" \/ pc[p] = "commit"
    BY <1>8 DEF Crash, Goto, MigrationsTypeOK
  <2>2. QED
    BY <2>1 DEF RecordInv
<1>9. QED
  BY <1>1, <1>2, <1>3, <1>4, <1>5, <1>6, <1>7, <1>8 DEF Act

\* A step may add one object to what its process has made or dropped: a table
\* is made or dropped where nobody else does it.
LEMMA TableWork ==
  ASSUME MigrationsTypeOK, NEW p \in Process, KindInv(p), Act(p),
         NEW m \in {1, 3}
  PROVE  /\ Makes[m] \in work'[p].added =>
              \/ Makes[m] \in work[p].added
              \/ Makes[m] \notin schema /\ ~Adding(p, Makes[m])
         /\ Makes[m] \in work'[p].removed =>
              \/ Makes[m] \in work[p].removed
              \/ Makes[m] \in schema /\ ~Removing(p, Makes[m])
<1> DEFINE o == Makes[m]
<1>1. ASSUME NEW k \in Migration, Up(p, k)
      PROVE  /\ work'[p].removed = work[p].removed
             /\ o \in work'[p].added =>
                  o \in work[p].added \/ (o \notin schema /\ ~Adding(p, o))
  <2>1. work'[p] = [work[p] EXCEPT !.added = @ \union {Makes[k]}]
    BY <1>1 DEF Up, MigrationsTypeOK
  <2>2. /\ work'[p].added = work[p].added \union {Makes[k]}
        /\ work'[p].removed = work[p].removed
    BY <2>1 DEF MigrationsTypeOK, Work
  <2>3. Makes[k] \notin schema /\ ~Adding(p, Makes[k])
    BY <1>1 DEF Up, UpAwaits, UpFails, View, KindInv
  <2>4. QED
    BY <2>2, <2>3
<1>2. ASSUME NEW k \in Migration, Down(p, k)
      PROVE  /\ work'[p].added = work[p].added
             /\ o \in work'[p].removed => o \in schema /\ ~Removing(p, o)
  <2>1. /\ work'[p].removed = {x \in View(p) : x = Makes[k] \/ (x \in Rows /\ TableOf[x] = Makes[k])}
        /\ work'[p].added = work[p].added
    BY <1>2 DEF Down, MigrationsTypeOK, Work
  <2>2. o \notin Rows
    BY FourObjects DEF Rows, TableOf
  <2>3. View(p) \subseteq schema
    BY <1>2 DEF View, Down, KindInv
  <2>4. ~Removing(p, Makes[k])
    BY <1>2 DEF Down, DownAwaits
  <2>5. QED
    BY <2>1, <2>2, <2>3, <2>4
<1>3. ASSUME NEW k \in Migration, Record(p, k)
      PROVE  work'[p].added = work[p].added /\ work'[p].removed = work[p].removed
  BY <1>3 DEF Record, MigrationsTypeOK, Work
<1>4. CASE \/ Start(p) \/ CheckHistory(p) \/ CreateHistory(p) \/ Load(p)
           \/ Commit(p) \/ LateCommit(p) \/ Lose(p) \/ Fail(p) \/ Crash(p)
           \/ Reap(p)
  <2>1. work'[p] = work[p] \/ work'[p] = NoWork
    BY <1>4 DEF Start, CheckHistory, CreateHistory, Load, Commit, LateCommit,
                Lose, Fail, Crash, Reap, Exit, Install, MigrationsTypeOK
  <2>2. QED
    BY <2>1 DEF NoWork
<1>5. QED
  BY <1>1, <1>2, <1>3, <1>4 DEF Act

LEMMA TableLockKeeps ==
  ASSUME MigrationsTypeOK, TableLockInv, NEW p \in Process, KindInv(p), Act(p)
  PROVE  TableLockInv'
<1> SUFFICES ASSUME NEW q \in Process, NEW m \in {1, 3}
             PROVE  /\ Makes[m] \in work'[q].added =>
                         Makes[m] \notin schema' /\ ~Adding(q, Makes[m])'
                    /\ Makes[m] \in work'[q].removed =>
                         Makes[m] \in schema' /\ ~Removing(q, Makes[m])'
  BY DEF TableLockInv
<1> DEFINE o == Makes[m]
<1>1. OthersStay(p)
  BY ActFrame
<1>2. /\ o \in work[q].added => o \notin schema /\ ~Adding(q, o)
      /\ o \in work[q].removed => o \in schema /\ ~Removing(q, o)
  BY DEF TableLockInv
<1>3. /\ o \in work'[p].added =>
           o \in work[p].added \/ (o \notin schema /\ ~Adding(p, o))
      /\ o \in work'[p].removed =>
           o \in work[p].removed \/ (o \in schema /\ ~Removing(p, o))
  BY TableWork
<1>4. /\ o \in work'[q].added => o \notin schema /\ ~Adding(q, o)'
      /\ o \in work'[q].removed => o \in schema /\ ~Removing(q, o)'
  <2>1. CASE q = p
    BY <1>1, <1>2, <1>3, <2>1 DEF OthersStay, Adding, Removing, Others
  <2>2. CASE q # p
    BY <1>1, <1>2, <1>3, <2>2 DEF OthersStay, Adding, Removing, Others
  <2>3. QED
    BY <2>1, <2>2
<1>5. CASE schema' = schema
  BY <1>4, <1>5
<1>6. CASE Install(p)
  <2>1. work'[p] = NoWork
    BY <1>6 DEF Install, MigrationsTypeOK
  <2>2. CASE q = p
    BY <2>1, <2>2 DEF NoWork
  <2>3. CASE q # p
    <3>1. work'[q] = work[q]
      BY <1>1, <2>3 DEF OthersStay
    <3>2. /\ o \in work[q].added => o \notin work[p].added
          /\ o \in work[q].removed => o \notin work[p].removed
      BY <1>2, <2>3 DEF Adding, Removing, Others
    <3>3. schema' = (schema \ work[p].removed) \union work[p].added
      BY <1>6 DEF Install
    <3>4. QED
      BY <1>2, <1>4, <3>1, <3>2, <3>3
  <2>4. QED
    BY <2>2, <2>3
<1>7. QED
  BY <1>5, <1>6, ChangeIsInstall

\* A COMMIT changes the history of a table exactly as it changes the table.
LEMMA TablesRecordedKeeps ==
  ASSUME MigrationsTypeOK, TablesRecorded, NEW p \in Process,
         \A m \in {1, 3} : RecordInv(p, m), Act(p)
  PROVE  TablesRecorded'
<1>1. CASE schema' = schema /\ history' = history
  BY <1>1 DEF TablesRecorded
<1>2. CASE Install(p) /\ (pc[p] = "commit" \/ tx[p] = "inDoubt")
  BY <1>2 DEF TablesRecorded, RecordInv, Install
<1>3. QED
  BY <1>1, <1>2, ChangeIsInstall

\* What is in the history stays there, as far as a process knows of no undo.
LEMMA HistoryGrows ==
  ASSUME MigrationsTypeOK, NEW p \in Process, Act(p),
         NEW q \in Process, ~undone'[q]
  PROVE  history \subseteq history' /\ ((q = p /\ Start(p)) \/ ~undone[q])
<1>1. CASE Install(p)
  BY <1>1 DEF Install
<1>2. CASE history' = history
  BY <1>2, ChangeIsInstall DEF Install, MigrationsTypeOK
<1>3. QED
  BY <1>1, <1>2, ChangeIsInstall

LEMMA FirstKeeps ==
  ASSUME MigrationsTypeOK, NEW p \in Process, NEW q \in Process,
         StageInv(p), FirstInv(q), Act(p)
  PROVE  FirstInv(q)'
<1> SUFFICES ASSUME source'[q] = 1, ~undone'[q],
                    pc'[q] \in {"migrate", "record", "commit"}
             PROVE  Migration \subseteq history' \union work'[q].recorded \union todo'[q]
  BY DEF FirstInv
<1>1. history \subseteq history' /\ ((q = p /\ Start(p)) \/ ~undone[q])
  BY HistoryGrows
<1>2. CASE q # p
  BY <1>1, <1>2, ActFrame DEF OthersStay, FirstInv
<1>3. CASE q = p
  <2>1. ~Start(p)
    BY <1>3 DEF Start, Goto, MigrationsTypeOK
  <2>2. CASE Load(p)
    <3>1. ~Undoing(p) /\ todo'[p] \in Pending(p)
      BY <1>3, <2>2, LoadTodo DEF Ready, Goto, MigrationsTypeOK, Undoing
    <3>2. todo'[p] = Migration \ history
      BY <3>1 DEF Pending
    <3>3. QED
      BY <1>1, <1>3, <3>2
  <2>3. ASSUME NEW m \in Migration, Up(p, m) \/ Down(p, m)
        PROVE  work'[p].recorded = work[p].recorded
    <3>1. CASE Up(p, m)
      <4>1. work' = [work EXCEPT ![p].added = @ \union {Makes[m]}]
        BY <3>1 DEF Up
      <4>2. QED
        BY <4>1 DEF MigrationsTypeOK, Work
    <3>2. CASE Down(p, m)
      BY <3>2 DEF Down, MigrationsTypeOK, Work
    <3>3. QED
      BY <2>3, <3>1, <3>2
  <2>4. ASSUME NEW m \in Migration, Up(p, m) \/ Down(p, m)
        PROVE  Migration \subseteq history' \union work'[q].recorded \union todo'[q]
    <3>1. /\ pc[p] = "migrate" /\ source[p] = 1 /\ todo' = todo
      BY <1>3, <2>4 DEF Up, Down
    <3>2. QED
      BY <1>1, <1>3, <2>1, <2>3, <2>4, <3>1 DEF FirstInv
  <2>5. ASSUME NEW m \in Migration, Record(p, m)
        PROVE  Migration \subseteq history' \union work'[q].recorded \union todo'[q]
    <3>1. ~Undoing(p) /\ pc[p] = "record" /\ source[p] = 1
      BY <1>3, <2>5 DEF Record, Undoing
    <3>2. /\ work'[p].recorded = work[p].recorded \union {m}
          /\ todo'[p] = todo[p] \ {m}
      BY <2>5, <3>1 DEF Record, MigrationsTypeOK, Work
    <3>3. QED
      BY <1>1, <1>3, <2>1, <3>1, <3>2 DEF FirstInv
  <2>6. ~(\/ CheckHistory(p) \/ CreateHistory(p) \/ Commit(p) \/ LateCommit(p)
          \/ Lose(p) \/ Fail(p) \/ Crash(p) \/ Reap(p))
    BY <1>3 DEF CheckHistory, CreateHistory, Commit, LateCommit, Lose, Fail,
                Crash, Reap, Exit, Ready, Goto, MigrationsTypeOK, StageInv
  <2>7. QED
    BY <2>1, <2>2, <2>4, <2>5, <2>6 DEF Act
<1>4. QED
  BY <1>2, <1>3

LEMMA SecondKeeps ==
  ASSUME MigrationsTypeOK, MigrationsTypeOK', NEW p \in Process, NEW q \in Process,
         StageInv(p), FirstInv(p), SecondInv(q), Act(p)
  PROVE  SecondInv(q)'
<1> SUFFICES ASSUME source'[q] = 2, ~undone'[q]
             PROVE  /\ pc'[q] # "off" => history' = Migration
                    /\ program'[q] # "undo" => todo'[q] = {}
  BY DEF SecondInv
<1>1. history \subseteq history' /\ ((q = p /\ Start(p)) \/ ~undone[q])
  BY HistoryGrows
<1>2. history' \subseteq Migration
  BY DEF MigrationsTypeOK
<1>3. CASE q # p
  BY <1>1, <1>2, <1>3, ActFrame DEF OthersStay, SecondInv
<1>4. CASE q = p
  <2>1. ~Start(p)
    BY <1>4 DEF Start, MigrationsTypeOK
  <2>2. ~undone[p]
    BY <1>1, <1>4, <2>1
  <2>3. CASE Load(p)
    <3>1. /\ pc[p] = "load" /\ todo'[p] \in Pending(p) /\ history' = history
          /\ program' = program
      BY <2>3, LoadTodo DEF Load, database
    <3>2. ~Undoing(p) => todo'[p] = Migration \ history
      BY <3>1 DEF Pending
    <3>3. CASE source[p] = 2
      BY <1>4, <2>2, <3>1, <3>2, <3>3 DEF SecondInv, Undoing
    <3>4. CASE source[p] = 1
      <4>1. todo'[p] = {}
        BY <1>4, <2>3, <3>4, LoadTodo
      <4>2. history = Migration
        <5>1. Migration \ history = {}
          BY <3>2, <3>4, <4>1 DEF Undoing
        <5>2. history \subseteq Migration
          BY DEF MigrationsTypeOK
        <5>3. QED
          BY <5>1, <5>2
      <4>3. QED
        BY <1>4, <3>1, <4>1, <4>2
    <3>5. QED
      BY <3>3, <3>4 DEF MigrationsTypeOK
  <2>4. CASE Commit(p)
    <3>1. /\ pc[p] = "commit" /\ todo'[p] = todo[p] /\ todo[p] = {}
      BY <2>4 DEF Commit, StageInv
    <3>2. CASE source[p] = 2
      BY <1>1, <1>2, <1>4, <2>2, <3>1, <3>2 DEF SecondInv
    <3>3. CASE source[p] = 1
      <4>1. Migration \subseteq history \union work[p].recorded
        BY <2>2, <3>1, <3>3 DEF FirstInv
      <4>2. work[p].recorded \subseteq history'
        BY <2>4 DEF Commit, Install
      <4>3. QED
        BY <1>1, <1>2, <1>4, <3>1, <4>1, <4>2
    <3>4. QED
      BY <3>2, <3>3 DEF MigrationsTypeOK
  <2>5. ASSUME \/ CheckHistory(p) \/ CreateHistory(p) \/ LateCommit(p)
               \/ Lose(p) \/ Fail(p) \/ Crash(p) \/ Reap(p)
               \/ \E m \in Migration : Up(p, m) \/ Down(p, m) \/ Record(p, m)
        PROVE  /\ source[p] = 2 /\ program' = program
               /\ pc'[p] # "off" => pc[p] # "off"
               /\ todo'[p] \subseteq todo[p]
    BY <1>4, <2>5
    DEF CheckHistory, CreateHistory, LateCommit, Lose, Fail, Crash, Reap, Exit,
        Up, Down, Record, MigrationsTypeOK
  <2>6. QED
    BY <1>1, <1>2, <1>4, <2>1, <2>2, <2>3, <2>4, <2>5 DEF Act, SecondInv
<1>5. QED
  BY <1>3, <1>4

LEMMA AlwaysInit == Init => AlwaysInv
<1> SUFFICES ASSUME Init PROVE AlwaysInv
  OBVIOUS
<1>1. TablesRecorded /\ TableLockInv
  BY DEF Init, TablesRecorded, TableLockInv, NoWork
<1>2. \A p \in Process : StageInv(p) /\ KindInv(p) /\ FirstInv(p) /\ SecondInv(p)
  BY DEF Init, StageInv, KindInv, FirstInv, SecondInv, NoWork
<1>3. \A p \in Process, m \in {1, 3} : RecordInv(p, m)
  BY DEF Init, RecordInv
<1>4. QED
  BY <1>1, <1>2, <1>3 DEF AlwaysInv

\* The parts of another process's invariant that its own variables make up.
LEMMA OthersKeep ==
  ASSUME NEW p \in Process, OthersStay(p), NEW q \in Process, q # p,
         StageInv(q), KindInv(q), NEW m \in {1, 3}, RecordInv(q, m)
  PROVE  StageInv(q)' /\ KindInv(q)' /\ RecordInv(q, m)'
<1>1. /\ program'[q] = program[q] /\ pc'[q] = pc[q] /\ source'[q] = source[q]
      /\ todo'[q] = todo[q] /\ tx'[q] = tx[q] /\ work'[q] = work[q]
  BY DEF OthersStay
<1>2. (Undoing(q)' <=> Undoing(q)) /\ \A k : Comes(q, k)' <=> Comes(q, k)
  BY <1>1 DEF Undoing, Comes
<1>3. StageInv(q)' /\ KindInv(q)'
  BY <1>1, <1>2 DEF StageInv, KindInv
<1>4. RecordInv(q, m)'
  BY <1>1, <1>2 DEF RecordInv
<1>5. QED
  BY <1>3, <1>4

LEMMA AlwaysStep ==
  ASSUME MigrationsTypeOK, MigrationsTypeOK', AlwaysInv, [Next]_vars
  PROVE  AlwaysInv'
<1>1. CASE UNCHANGED vars
  BY <1>1
  DEF vars, database, ghosts, AlwaysInv, TablesRecorded, TableLockInv, Adding,
      Removing, StageInv, KindInv, FirstInv, SecondInv, RecordInv, Undoing,
      Comes
<1>2. ASSUME NEW p \in Process, Act(p)
      PROVE  AlwaysInv'
  <2>1. /\ TablesRecorded /\ TableLockInv
        /\ \A q \in Process :
             /\ StageInv(q) /\ KindInv(q) /\ FirstInv(q) /\ SecondInv(q)
             /\ \A m \in {1, 3} : RecordInv(q, m)
    BY DEF AlwaysInv
  <2>2. TablesRecorded' /\ TableLockInv'
    BY <1>2, <2>1, TablesRecordedKeeps, TableLockKeeps
  <2>3. ASSUME NEW q \in Process, NEW m \in {1, 3}
        PROVE  StageInv(q)' /\ KindInv(q)' /\ RecordInv(q, m)'
    <3>1. CASE q = p
      BY <1>2, <2>1, <3>1, StageKeeps, KindKeeps, RecordedKeeps
    <3>2. CASE q # p
      BY <1>2, <2>1, <3>2, ActFrame, OthersKeep
    <3>3. QED
      BY <3>1, <3>2
  <2>4. \A q \in Process : FirstInv(q)' /\ SecondInv(q)'
    BY <1>2, <2>1, FirstKeeps, SecondKeeps
  <2>5. QED
    BY <2>2, <2>3, <2>4 DEF AlwaysInv
<1>3. QED
  BY <1>1, <1>2, NextIsAct

-----------------------------------------------------------------------------
(***************************************************************************)
(* What holds until two undos overlap.                                     *)
(***************************************************************************)

Inv == MigrationsTypeOK /\ AlwaysInv /\ OneAtATime

LocalInv(p) == TodoInv(p) /\ WorkInv(p)

\* An undo is the only one if none was going on when it began.
LEMMA OneUndoKeeps ==
  ASSUME Inv, NEW p \in Process, Act(p), ~overlapped'
  PROVE  ~overlapped /\ OneUndo'
<1>1. OneUndo /\ MigrationsTypeOK /\ StageInv(p) /\ OthersStay(p)
  BY ActFrame DEF Inv, OneAtATime, AlwaysInv
<1>2. \A q \in Process \ {p} : UndoInProgress(q)' <=> UndoInProgress(q)
  BY <1>1 DEF OthersStay, UndoInProgress
<1>3. CASE Start(p)
  <2>1. PICK k \in Programs[p] :
          /\ program' = [program EXCEPT ![p] = k]
          /\ overlapped' =
               (overlapped \/ (k = "undo" /\ \E q \in Process : UndoInProgress(q)))
    BY <1>3 DEF Start
  <2>2. ~overlapped /\ (k = "undo" => \A q \in Process : ~UndoInProgress(q))
    BY <2>1
  <2>3. UndoInProgress(p)' => k = "undo"
    BY <1>1, <2>1 DEF UndoInProgress, MigrationsTypeOK
  <2>4. QED
    BY <1>1, <1>2, <2>2, <2>3 DEF OneUndo
<1>4. CASE ~Start(p)
  <2>1. overlapped' = overlapped /\ program' = program
    BY <1>4 DEF Act, CheckHistory, CreateHistory, Load, Up, Down, Record,
                Commit, LateCommit, Lose, Fail, Crash, Reap, Exit, ghosts
  <2>2. UndoInProgress(p)' => UndoInProgress(p)
    <3>1. pc[p] = "off" /\ tx[p] = "none" => pc'[p] = "off" /\ tx'[p] = "none"
      BY <1>1, <1>4
      DEF Act, CheckHistory, CreateHistory, Load, Up, Down, Record, Commit,
          LateCommit, Lose, Fail, Crash, Reap
    <3>2. QED
      BY <2>1, <3>1 DEF UndoInProgress
  <2>3. QED
    BY <1>1, <1>2, <2>1, <2>2 DEF OneUndo
<1>5. QED
  BY <1>3, <1>4

\* What the invariant says of a process depends on its own variables and on
\* the history.
LEMMA LocalStays ==
  ASSUME NEW q \in Process, LocalInv(q), history' = history,
         program'[q] = program[q], pc'[q] = pc[q], source'[q] = source[q],
         todo'[q] = todo[q], tx'[q] = tx[q], work'[q] = work[q]
  PROVE  LocalInv(q)'
<1>1. Undoing(q)' <=> Undoing(q)
  BY DEF Undoing
<1>2. \A m \in Migration : Comes(q, m)' <=> Comes(q, m)
  BY DEF Comes
<1>3. TodoInv(q)'
  BY <1>1 DEF LocalInv, TodoInv
<1>4. ASSUME Applying(q) PROVE Applying(q)'
  BY <1>1, <1>2, <1>4 DEF Applying
<1>5. ASSUME Undone(q) PROVE Undone(q)'
  BY <1>1, <1>5 DEF Undone
<1>6. QED
  BY <1>3, <1>4, <1>5 DEF LocalInv, WorkInv

\* A step of one process that leaves the tables alone keeps the invariant if
\* it keeps the process's own part, and if its transaction changes something
\* first only where no other has.
LEMMA QuietStep ==
  ASSUME OneAtATime, OneUndo', NEW p \in Process, OthersStay(p),
         schema' = schema, history' = history, LocalInv(p)',
         \/ work'[p] = NoWork \/ work[p] # NoWork
         \/ \A q \in Process \ {p} : work[q] = NoWork
  PROVE  OneAtATime'
<1>1. BaseInv'
  BY DEF OneAtATime, BaseInv
<1>2. Alone'
  BY DEF OneAtATime, Alone, OthersStay
<1>3. ASSUME NEW q \in Process, q # p PROVE LocalInv(q)'
  BY <1>3, LocalStays DEF OneAtATime, LocalInv, OthersStay
<1>4. QED
  BY <1>1, <1>2, <1>3 DEF OneAtATime, AlwaysInv, LocalInv

\* The objects there are tell the history.
LEMMA SchemaTells ==
  ASSUME MigrationsTypeOK, BaseInv, NEW m \in Migration
  PROVE  Makes[m] \in schema <=> m \in history
<1>1. ASSUME NEW n \in Migration, Makes[n] = Makes[m] PROVE n = m
  BY <1>1, FourMigrations, FourObjects
<1>2. QED
  BY <1>1 DEF BaseInv, MigrationsTypeOK

\* A process without a transaction has nothing in hand.
LEMMA Idle ==
  ASSUME Inv, NEW p \in Process,
         pc[p] \in {"check", "create", "load", "serving"}
  PROVE  tx[p] = "none" /\ work[p] = NoWork /\ todo[p] = {}
  BY DEF Inv, MigrationsTypeOK, AlwaysInv, StageInv

LEMMA StartKeeps ==
  ASSUME Inv, OneUndo', NEW p \in Process, Start(p)
  PROVE  OneAtATime'
<1>1. PICK k \in Programs[p] : program' = [program EXCEPT ![p] = k]
  BY DEF Start
<1>2. /\ pc[p] = "off" /\ tx[p] = "none" /\ pc'[p] = "check"
      /\ source'[p] = 1 /\ undone'[p] = FALSE /\ program'[p] \in Programs[p]
  BY <1>1 DEF Start, Goto, Inv, MigrationsTypeOK
<1>3. /\ UNCHANGED <<schema, history, todo, tx, work>>
      /\ OthersStay(p)
  BY <1>1 DEF Start, Goto, OthersStay, database
<1>4. LocalInv(p)'
  BY <1>2, <1>3
  DEF Inv, AlwaysInv, LocalInv, StageInv, TodoInv, WorkInv, Undoing
<1>5. work'[p] = NoWork
  BY <1>2, <1>3 DEF Inv, AlwaysInv, StageInv
<1>6. QED
  BY <1>3, <1>4, <1>5, QuietStep DEF Inv

LEMMA HistoryTableKeeps ==
  ASSUME Inv, OneUndo', NEW p \in Process, CheckHistory(p) \/ CreateHistory(p)
  PROVE  OneAtATime'
<1>1. /\ pc[p] \in {"check", "create"} /\ pc'[p] \in {"load", "create"}
      /\ UNCHANGED <<schema, history, program, source, todo, tx, work, undone>>
  BY DEF CheckHistory, CreateHistory, Goto, Inv, MigrationsTypeOK, database, ghosts
<1>2. OthersStay(p)
  BY <1>1 DEF CheckHistory, CreateHistory, Goto, Inv, MigrationsTypeOK, OthersStay
<1>3. tx[p] = "none" /\ work[p] = NoWork /\ todo[p] = {}
  BY <1>1, Idle
<1>4. LocalInv(p)'
  BY <1>1, <1>3 DEF Inv, OneAtATime, LocalInv, TodoInv, WorkInv, Undoing
<1>5. QED
  BY <1>1, <1>2, <1>3, <1>4, QuietStep DEF Inv

\* What there is to do when a process looks.
LEMMA PendingIs ==
  ASSUME Inv, ~overlapped, NEW p \in Process, pc[p] = "load",
         NEW list \in Pending(p)
  PROVE  /\ Undoing(p) => history = Migration /\ list = {4}
         /\ ~Undoing(p) =>
              \/ history = {} /\ list = Migration
              \/ history = {1, 2, 3} /\ list = {4}
              \/ history = Migration /\ list = {}
<1>1. Undoing(p) => history = Migration
  BY DEF Inv, OneAtATime, TodoInv
<1>2. Undoing(p) => list = {4}
  <2>1. history = Migration => LastExecuted = {4}
    BY FourMigrations DEF LastExecuted
  <2>2. QED
    BY <1>1, <2>1, FourMigrations DEF Pending, ToUndo
<1>3. CASE ~Undoing(p)
  BY <1>3, FourMigrations DEF Pending, Inv, OneAtATime, BaseInv
<1>4. QED
  BY <1>1, <1>2, <1>3

LEMMA LoadKeeps ==
  ASSUME Inv, ~overlapped, OneUndo', NEW p \in Process, Load(p)
  PROVE  OneAtATime'
<1>1. /\ pc[p] = "load" /\ todo' = [todo EXCEPT ![p] = todo'[p]]
      /\ todo'[p] \in Pending(p)
      /\ UNCHANGED <<schema, history, program, work, undone>>
  BY LoadTodo DEF Load, database, ghosts, Inv
<1>2. tx[p] = "none" /\ work[p] = NoWork /\ todo[p] = {}
  BY <1>1, Idle
<1>3. OthersStay(p)
  BY <1>1, LoadTodo DEF Load, Ready, Goto, Inv, MigrationsTypeOK, OthersStay
<1>4. CASE todo'[p] = {}
  <2>1. history = Migration /\ ~Undoing(p)
    BY <1>1, <1>4, PendingIs, FourMigrations
  <2>2. /\ tx' = tx
        /\ \/ pc'[p] = "check" /\ source'[p] = 2
           \/ /\ source'[p] = source[p] /\ source[p] = 2
              /\ pc'[p] = IF program[p] = "serve" THEN "serving" ELSE "off"
    BY <1>4, LoadTodo DEF Ready, Goto, Inv, MigrationsTypeOK
  <2>3. LocalInv(p)'
    BY <1>1, <1>2, <1>4, <2>1, <2>2 DEF LocalInv, TodoInv, WorkInv
  <2>4. QED
    BY <1>1, <1>2, <1>3, <2>3, QuietStep DEF Inv
<1>5. CASE todo'[p] # {}
  <2>1. pc'[p] = "migrate" /\ tx'[p] = "open" /\ source' = source
    BY <1>5, LoadTodo DEF Goto, Inv, MigrationsTypeOK
  <2>2. Undoing(p)' <=> Undoing(p)
    BY <1>1, <2>1 DEF Undoing
  <2>3. WorkInv(p)'
    BY <1>1, <1>2, <2>1 DEF WorkInv
  <2>4. TodoInv(p)'
    BY <1>1, <1>5, <2>1, <2>2, PendingIs DEF TodoInv
  <2>5. QED
    BY <1>1, <1>2, <1>3, <2>3, <2>4, QuietStep DEF Inv, LocalInv
<1>6. QED
  BY <1>4, <1>5

\* Who applies something first finds the tables where they were when it
\* looked, and nobody else at work.
LEMMA FirstUp ==
  ASSUME Inv, NEW p \in Process, NEW m \in Migration, Up(p, m), work[p] = NoWork
  PROVE  /\ \/ history = {} /\ todo[p] = Migration /\ m = 1
            \/ history = {1, 2, 3} /\ todo[p] = {4} /\ m = 4
         /\ \A q \in Process \ {p} : work[q] = NoWork
<1>1. /\ pc[p] = "migrate" /\ ~Undoing(p) /\ Comes(p, m)
      /\ ~UpAwaits(p, Makes[m]) /\ ~UpFails(p, Makes[m])
  BY DEF Up
<1>2. \/ todo[p] = Migration /\ m = 1
      \/ todo[p] = {4} /\ m = 4 /\ history # {}
  <2>1. todo[p] = Migration \/ (todo[p] = {4} /\ history # {})
    BY <1>1 DEF Inv, OneAtATime, TodoInv
  <2>2. m \in todo[p] /\ \A n \in todo[p] : m <= n
    BY <1>1 DEF Comes
  <2>3. QED
    BY <2>1, <2>2, FourMigrations
<1>3. Makes[m] \notin schema
  BY <1>1 DEF UpFails, View, NoWork
<1>4. m \notin history
  BY <1>3, SchemaTells DEF Inv, OneAtATime
<1>5. \/ history = {} /\ todo[p] = Migration /\ m = 1
      \/ history = {1, 2, 3} /\ todo[p] = {4} /\ m = 4
  BY <1>2, <1>4 DEF Inv, OneAtATime, BaseInv
<1>6. ASSUME NEW q \in Process \ {p}, work[q] # NoWork PROVE FALSE
  <2>1. Applying(q) \/ Undone(q)
    BY <1>6 DEF Inv, OneAtATime, WorkInv
  <2>2. Applying(q)
    BY <2>1, <1>5, FourMigrations DEF Undone
  <2>3. Makes[m] \in work[q].added
    BY <2>2, <1>5, FourObjects DEF Applying
  <2>4. QED
    BY <1>1, <2>3 DEF UpAwaits, Adding, Others
<1>7. QED
  BY <1>5, <1>6

\* A migration is applied by who holds all that is missing so far.
LEMMA UpKeeps ==
  ASSUME Inv, OneUndo', NEW p \in Process, NEW m \in Migration, Up(p, m)
  PROVE  OneAtATime'
<1> DEFINE w == work[p]
<1>1. /\ pc[p] = "migrate" /\ ~Undoing(p) /\ Comes(p, m)
      /\ work' = [work EXCEPT ![p].added = @ \union {Makes[m]}]
      /\ UNCHANGED <<schema, history, program, source, todo, tx, undone>>
  BY DEF Up, database, ghosts
<1>2. pc'[p] = "record" /\ OthersStay(p)
  BY <1>1 DEF Up, Goto, Inv, MigrationsTypeOK, OthersStay
<1>3. work'[p] = [w EXCEPT !.added = @ \union {Makes[m]}] /\ w \in Work
  BY <1>1 DEF Inv, MigrationsTypeOK
<1>4. /\ work'[p].added = w.added \union {Makes[m]}
      /\ work'[p].removed = w.removed /\ work'[p].erased = w.erased
      /\ work'[p].recorded = w.recorded
  BY <1>3 DEF Work
<1>5. /\ history # Migration /\ w.removed = {} /\ w.erased = {}
      /\ (IF history = {} THEN "auth" ELSE "usersAdmin") \in work'[p].added
      /\ w.recorded = Migration \ (history \union todo[p])
      /\ w.added = {Makes[n] : n \in w.recorded}
      /\ todo[p] \subseteq Migration \ history
      /\ \A n \in todo[p] : \A k \in Migration : k >= n => k \in todo[p]
  <2>1. CASE w = NoWork
    <3>1. w.removed = {} /\ w.erased = {} /\ w.recorded = {} /\ w.added = {}
      BY <2>1 DEF NoWork
    <3>2. \/ history = {} /\ todo[p] = Migration /\ m = 1
          \/ history = {1, 2, 3} /\ todo[p] = {4} /\ m = 4
      BY <2>1, FirstUp
    <3>3. \A n \in todo[p] : \A k \in Migration : k >= n => k \in todo[p]
      BY <3>2, FourMigrations
    <3>4. QED
      BY <1>4, <3>1, <3>2, <3>3, FourMigrations, FourObjects
  <2>2. CASE w # NoWork
    <3>1. Applying(p)
      BY <1>1, <2>2 DEF Inv, OneAtATime, WorkInv, Undone
    <3>2. QED
      BY <1>1, <1>4, <3>1 DEF Applying
  <2>3. QED
    BY <2>1, <2>2
<1>6. work'[p].added = {Makes[n] : n \in work'[p].recorded \union {m}}
  BY <1>4, <1>5
<1>7. Undoing(p)' <=> Undoing(p)
  BY <1>1 DEF Undoing
<1>8. Comes(p, m)'
  BY <1>1 DEF Comes
<1>9. Applying(p)'
  BY <1>1, <1>2, <1>4, <1>5, <1>6, <1>7, <1>8
  DEF Applying, Inv, AlwaysInv, StageInv
<1>10. work'[p] # NoWork
  <2>1. work'[p].added # {}
    BY <1>4
  <2>2. QED
    BY <2>1 DEF NoWork
<1>11. TodoInv(p)'
  BY <1>1, <1>2, <1>7, <1>10 DEF TodoInv
<1>12. LocalInv(p)'
  BY <1>9, <1>10, <1>11 DEF LocalInv, WorkInv
<1>13. \/ work[p] # NoWork
       \/ \A q \in Process \ {p} : work[q] = NoWork
  BY FirstUp
<1>14. QED
  BY <1>1, <1>2, <1>12, <1>13, QuietStep DEF Inv

\* An undo finds the administrator's row in users, and nobody else at work.
LEMMA DownKeeps ==
  ASSUME Inv, OneUndo', NEW p \in Process, NEW m \in Migration, Down(p, m)
  PROVE  OneAtATime'
<1>1. /\ pc[p] = "migrate" /\ Undoing(p) /\ Comes(p, m)
      /\ ~DownAwaits(p, Makes[m])
      /\ UNCHANGED <<schema, history, program, source, todo, tx, undone>>
  BY DEF Down, database, ghosts
<1>2. pc'[p] = "record" /\ OthersStay(p)
  BY <1>1 DEF Down, Goto, Inv, MigrationsTypeOK, OthersStay
<1>3. history = Migration /\ todo[p] = {4} /\ m = 4
  BY <1>1 DEF Comes, Inv, OneAtATime, TodoInv
<1>4. work[p] = NoWork
  BY <1>1, <1>3 DEF Inv, OneAtATime, WorkInv, Applying, Undone
<1>5. work'[p] = [NoWork EXCEPT !.removed = {"usersAdmin"}]
  <2>1. View(p) = Object
    <3>1. schema = Object
      BY <1>3 DEF Inv, OneAtATime, BaseInv, Object
    <3>2. QED
      BY <1>4, <3>1 DEF View, NoWork
  <2>2. {o \in Object : o = Makes[4] \/ (o \in Rows /\ TableOf[o] = Makes[4])}
          = {"usersAdmin"}
    BY FourObjects DEF Rows, TableOf
  <2>3. QED
    BY <1>3, <1>4, <2>1, <2>2 DEF Down, Inv, MigrationsTypeOK
<1>6. /\ work'[p].removed = {"usersAdmin"} /\ work'[p].added = {}
      /\ work'[p].recorded = {} /\ work'[p].erased = {}
  BY <1>5 DEF NoWork
<1>7. Undoing(p)' <=> Undoing(p)
  BY <1>1 DEF Undoing
<1>8. work'[p] # NoWork
  BY <1>6 DEF NoWork
<1>9. Undone(p)'
  BY <1>1, <1>2, <1>3, <1>6, <1>7 DEF Undone, Inv, AlwaysInv, StageInv
<1>10. TodoInv(p)'
  BY <1>1, <1>2, <1>3, <1>7, <1>8 DEF TodoInv
<1>11. ASSUME NEW q \in Process \ {p}, work[q] # NoWork PROVE FALSE
  <2>1. Undoing(q)
    BY <1>3, <1>11 DEF Inv, OneAtATime, WorkInv, Applying, Undone
  <2>2. UndoInProgress(p) /\ UndoInProgress(q)
    BY <1>1, <1>11, <2>1 DEF Inv, AlwaysInv, StageInv, Undoing, UndoInProgress
  <2>3. QED
    BY <1>11, <2>2 DEF Inv, OneAtATime, OneUndo
<1>12. QED
  BY <1>1, <1>2, <1>8, <1>9, <1>10, <1>11, QuietStep DEF Inv, LocalInv, WorkInv

\* The history's row is written when its migration has been applied or undone.
LEMMA RecordKeeps ==
  ASSUME Inv, OneUndo', NEW p \in Process, NEW m \in Migration, Record(p, m)
  PROVE  OneAtATime'
<1> DEFINE w == work[p]
<1>1. /\ pc[p] = "record" /\ Comes(p, m)
      /\ todo' = [todo EXCEPT ![p] = @ \ {m}]
      /\ pc' = [pc EXCEPT ![p] = IF todo[p] = {m} THEN "commit" ELSE "migrate"]
      /\ UNCHANGED <<schema, history, program, source, tx, undone>>
  BY DEF Record, Goto, database, ghosts
<1>2. /\ todo'[p] = todo[p] \ {m} /\ OthersStay(p)
      /\ pc'[p] = IF todo[p] = {m} THEN "commit" ELSE "migrate"
  BY <1>1 DEF Record, Inv, MigrationsTypeOK, OthersStay
<1>3. /\ tx[p] = "open" /\ w # NoWork /\ w \in Work
      /\ m \in todo[p] /\ todo[p] \subseteq Migration
  BY <1>1 DEF Comes, Inv, MigrationsTypeOK, OneAtATime, AlwaysInv, StageInv,
              WorkInv
<1>4. Undoing(p)' <=> Undoing(p)
  BY <1>1 DEF Undoing
<1>5. CASE Undoing(p)
  <2>1. Undone(p)
    BY <1>3, <1>5 DEF Inv, OneAtATime, WorkInv, Applying
  <2>2. todo[p] = {4} /\ m = 4 /\ history = Migration
    BY <1>1, <1>3, <1>5 DEF Inv, OneAtATime, TodoInv
  <2>3. work'[p] = [w EXCEPT !.erased = {4}]
    BY <1>5, <2>2, FourMigrations DEF Record, Inv, MigrationsTypeOK
  <2>4. /\ work'[p].removed = w.removed /\ work'[p].added = w.added
        /\ work'[p].recorded = w.recorded /\ work'[p].erased = {4}
    BY <1>3, <2>3 DEF Work
  <2>5. work'[p] # NoWork
    BY <2>4 DEF NoWork
  <2>6. pc'[p] = "commit" /\ todo'[p] = {}
    BY <1>2, <2>2
  <2>7. Undone(p)'
    BY <1>1, <1>3, <1>4, <2>1, <2>4, <2>6 DEF Undone
  <2>8. TodoInv(p)'
    BY <1>1, <1>3, <1>4, <1>5, <2>2, <2>5, <2>6 DEF TodoInv
  <2>9. QED
    BY <1>1, <1>2, <1>3, <2>5, <2>7, <2>8, QuietStep DEF Inv, LocalInv, WorkInv
<1>6. CASE ~Undoing(p)
  <2>1. Applying(p)
    BY <1>3, <1>6 DEF Inv, OneAtATime, WorkInv, Undone
  <2>2. work'[p] = [w EXCEPT !.recorded = @ \union {m}]
    BY <1>6 DEF Record, Inv, MigrationsTypeOK
  <2>3. /\ work'[p].removed = w.removed /\ work'[p].added = w.added
        /\ work'[p].recorded = w.recorded \union {m}
        /\ work'[p].erased = w.erased
    BY <1>3, <2>2 DEF Work
  <2>4. w.added = {Makes[n] : n \in w.recorded \union {m}}
    <3>1. PICK k \in Migration :
            Comes(p, k) /\ w.added = {Makes[n] : n \in w.recorded \union {k}}
      BY <1>1, <2>1 DEF Applying
    <3>2. k = m
      BY <1>1, <3>1, FourMigrations DEF Comes
    <3>3. QED
      BY <3>1, <3>2
  <2>5. work'[p].recorded = Migration \ (history \union todo'[p])
    BY <1>1, <1>2, <1>3, <2>1, <2>3 DEF Applying
  <2>6. \A n \in todo'[p] : \A k \in Migration : k >= n => k \in todo'[p]
    <3>1. ASSUME NEW n \in todo'[p], NEW k \in Migration, k >= n
          PROVE  k \in todo'[p]
      <4>1. n \in todo[p] /\ n # m /\ n >= m
        BY <1>1, <1>2, <1>3, <3>1, FourMigrations DEF Comes
      <4>2. k \in todo[p]
        BY <1>1, <2>1, <3>1, <4>1 DEF Applying
      <4>3. k # m
        BY <1>3, <3>1, <4>1, FourMigrations
      <4>4. QED
        BY <1>2, <4>2, <4>3
    <3>2. QED
      BY <3>1
  <2>7. Applying(p)'
    BY <1>1, <1>2, <1>3, <1>4, <2>1, <2>3, <2>4, <2>5, <2>6 DEF Applying
  <2>8. work'[p] # NoWork
    <3>1. Makes[m] \in work'[p].added
      BY <2>3, <2>4
    <3>2. QED
      BY <3>1 DEF NoWork
  <2>9. TodoInv(p)'
    BY <1>1, <1>2, <1>3, <1>4, <1>6, <2>8 DEF TodoInv
  <2>10. QED
    BY <1>1, <1>2, <1>3, <2>7, <2>8, <2>9, QuietStep DEF Inv, LocalInv, WorkInv
<1>7. QED
  BY <1>5, <1>6

\* A process that ends, or whose transaction the server ends, leaves nothing.
LEMMA EndKeeps ==
  ASSUME Inv, OneUndo', NEW p \in Process, Lose(p) \/ Fail(p) \/ Reap(p)
  PROVE  OneAtATime'
<1>1. /\ tx' = [tx EXCEPT ![p] = "none"] /\ work' = [work EXCEPT ![p] = NoWork]
      /\ UNCHANGED <<schema, history, program, source, undone>>
      /\ \/ /\ pc' = [pc EXCEPT ![p] = "off"]
            /\ todo' = [todo EXCEPT ![p] = {}]
         \/ UNCHANGED <<pc, todo>> /\ tx[p] \in {"orphan", "inDoubt"}
  BY DEF Lose, Fail, Reap, Exit, Goto, database, ghosts
<1>2. /\ tx'[p] = "none" /\ work'[p] = NoWork /\ pc'[p] = "off"
      /\ todo'[p] = {} /\ OthersStay(p)
  BY <1>1 DEF Inv, MigrationsTypeOK, AlwaysInv, StageInv, OthersStay
<1>3. LocalInv(p)'
  BY <1>1, <1>2 DEF LocalInv, TodoInv, WorkInv
<1>4. QED
  BY <1>1, <1>2, <1>3, QuietStep DEF Inv

\* A process that is killed leaves its transaction as it was.
LEMMA CrashKeeps ==
  ASSUME Inv, OneUndo', NEW p \in Process, Crash(p)
  PROVE  OneAtATime'
<1>1. /\ pc[p] # "off" /\ pc'[p] = "off" /\ todo'[p] = {} /\ OthersStay(p)
      /\ UNCHANGED <<schema, history, program, source, work, undone>>
  BY DEF Crash, Goto, Inv, MigrationsTypeOK, OthersStay, database, ghosts
<1>2. tx'[p] = CASE tx[p] = "none" -> "none"
                 [] tx[p] = "open" /\ pc[p] = "commit" -> "inDoubt"
                 [] OTHER -> "orphan"
  BY DEF Crash, Inv, MigrationsTypeOK
<1>3. tx[p] \in {"none", "open"}
  BY <1>1 DEF Inv, MigrationsTypeOK, AlwaysInv, StageInv
<1>4. /\ tx'[p] = "none" <=> tx[p] = "none"
      /\ tx'[p] = "inDoubt" => pc[p] = "commit"
      /\ tx'[p] # "open"
  BY <1>2, <1>3
<1>5. Undoing(p)' <=> Undoing(p)
  BY <1>1 DEF Undoing
<1>6. ASSUME Applying(p) PROVE Applying(p)'
  BY <1>1, <1>4, <1>5, <1>6 DEF Applying
<1>7. ASSUME Undone(p) PROVE Undone(p)'
  BY <1>1, <1>4, <1>5, <1>7 DEF Undone
<1>8. TodoInv(p)'
  BY <1>1, <1>4, <1>5 DEF TodoInv
<1>9. LocalInv(p)'
  BY <1>1, <1>4, <1>6, <1>7, <1>8 DEF Inv, OneAtATime, LocalInv, WorkInv
<1>10. QED
  BY <1>1, <1>9, QuietStep DEF Inv

\* A COMMIT applies all that was missing, or undoes the last migration; it is
\* the one step that changes the tables.
LEMMA InstallChanges ==
  ASSUME Inv, NEW p \in Process, Install(p), pc[p] = "commit" \/ tx[p] = "inDoubt"
  PROVE  /\ BaseInv'
         /\ \/ ~Undoing(p) /\ history' = Migration
            \/ /\ Undoing(p) /\ 4 \in history /\ history' = history \ {4}
               /\ history' = {1, 2, 3}
<1> DEFINE w == work[p]
<1>1. /\ schema' = (schema \ w.removed) \union w.added
      /\ history' = (history \ w.erased) \union w.recorded
  BY DEF Install
<1>2. Applying(p) \/ Undone(p)
  BY DEF Inv, OneAtATime, WorkInv
<1>3. schema = {Makes[m] : m \in history} /\ history \subseteq Migration
  BY DEF Inv, MigrationsTypeOK, OneAtATime, BaseInv
<1>4. CASE Applying(p)
  <2>1. /\ w.removed = {} /\ w.erased = {}
        /\ w.recorded = Migration \ history
        /\ w.added = {Makes[m] : m \in w.recorded} /\ ~Undoing(p)
    BY <1>4 DEF Applying
  <2>2. history' = Migration
    BY <1>1, <1>3, <2>1
  <2>3. schema' = {Makes[m] : m \in Migration}
    BY <1>1, <1>3, <2>1
  <2>4. BaseInv'
    BY <2>2, <2>3, FourMigrations DEF BaseInv
  <2>5. QED
    BY <2>1, <2>2, <2>4
<1>5. CASE Undone(p)
  <2>1. /\ w.removed = {"usersAdmin"} /\ w.added = {} /\ w.recorded = {}
        /\ w.erased = {4} /\ history = Migration /\ Undoing(p)
    BY <1>5 DEF Undone
  <2>2. 4 \in history /\ history' = history \ {4} /\ history' = {1, 2, 3}
    BY <1>1, <2>1, FourMigrations
  <2>3. schema' = {Makes[m] : m \in {1, 2, 3}}
    BY <1>1, <1>3, <2>1, FourMigrations, FourObjects
  <2>4. BaseInv'
    BY <2>2, <2>3 DEF BaseInv
  <2>5. QED
    BY <2>1, <2>2, <2>4
<1>6. QED
  BY <1>2, <1>4, <1>5

LEMMA InstallKeepsOthers ==
  ASSUME Inv, NEW p \in Process, Install(p), pc[p] = "commit" \/ tx[p] = "inDoubt",
         NEW q \in Process \ {p}, program'[q] = program[q], pc'[q] = pc[q],
         source'[q] = source[q], todo'[q] = todo[q]
  PROVE  LocalInv(q)'
<1>1. work[q] = NoWork
  <2>1. work[p] # NoWork
    BY DEF Inv, OneAtATime, WorkInv
  <2>2. QED
    BY <2>1 DEF Inv, OneAtATime, Alone
<1>2. tx'[q] = tx[q] /\ work'[q] = NoWork
  BY <1>1 DEF Install, Inv, MigrationsTypeOK
<1>3. Undoing(q)' <=> Undoing(q)
  BY DEF Undoing
<1>4. Undoing(q) /\ pc[q] # "off" => ~Undoing(p)
  <2>1. Undoing(p) => UndoInProgress(p)
    BY DEF Undoing, UndoInProgress
  <2>2. Undoing(q) /\ pc[q] # "off" => UndoInProgress(q)
    BY DEF Undoing, UndoInProgress
  <2>3. QED
    BY <2>1, <2>2 DEF Inv, OneAtATime, OneUndo
<1>5. history' = Migration \/ (Undoing(p) /\ history' = {1, 2, 3})
  BY InstallChanges
<1>6. WorkInv(q)'
  BY <1>1, <1>2 DEF Inv, OneAtATime, WorkInv
<1>7. TodoInv(q)'
  BY <1>1, <1>3, <1>4, <1>5, FourMigrations DEF Inv, OneAtATime, TodoInv
<1>8. QED
  BY <1>6, <1>7 DEF LocalInv

LEMMA CommitKeeps ==
  ASSUME Inv, OneUndo', NEW p \in Process, Commit(p) \/ LateCommit(p)
  PROVE  OneAtATime'
<1>1. /\ Install(p) /\ (pc[p] = "commit" \/ tx[p] = "inDoubt")
      /\ UNCHANGED <<program, todo>>
  BY DEF Commit, LateCommit
<1>2. tx'[p] = "none" /\ work'[p] = NoWork /\ todo'[p] = {}
  BY <1>1 DEF Install, Inv, MigrationsTypeOK, AlwaysInv, StageInv
<1>3. \/ pc'[p] = "off" /\ source'[p] = source[p]
      \/ pc'[p] = "check" /\ source[p] = 1 /\ source'[p] = 2
      \/ /\ pc'[p] = "serving" /\ program[p] = "serve"
         /\ source'[p] = 2 /\ source[p] = 2
  BY DEF Commit, LateCommit, Ready, Goto, Inv, MigrationsTypeOK, AlwaysInv,
         StageInv
<1>4. \A q \in Process \ {p} : pc'[q] = pc[q] /\ source'[q] = source[q]
  BY DEF Commit, LateCommit, Ready, Goto, Inv, MigrationsTypeOK
<1>5. Undoing(p) \/ history' = Migration
  BY <1>1, InstallChanges
<1>6. WorkInv(p)'
  BY <1>1, <1>2, <1>3 DEF WorkInv
<1>7. TodoInv(p)'
  BY <1>1, <1>2, <1>3, <1>5 DEF TodoInv, Undoing
<1>8. \A q \in Process : LocalInv(q)'
  BY <1>1, <1>4, <1>6, <1>7, InstallKeepsOthers DEF LocalInv
<1>9. Alone'
  BY <1>1, <1>2 DEF Install, Inv, OneAtATime, Alone
<1>10. QED
  BY <1>1, <1>8, <1>9, InstallChanges DEF OneAtATime, LocalInv

LEMMA ApartInit == Init => OneAtATime
<1> SUFFICES ASSUME Init PROVE OneAtATime
  OBVIOUS
<1>1. BaseInv /\ Alone
  BY DEF Init, BaseInv, Alone
<1>2. OneUndo
  BY DEF Init, OneUndo, UndoInProgress
<1>3. \A p \in Process : TodoInv(p) /\ WorkInv(p)
  BY DEF Init, TodoInv, WorkInv
<1>4. QED
  BY <1>1, <1>2, <1>3 DEF OneAtATime

LEMMA ApartStep ==
  ASSUME MigrationsTypeOK, MigrationsInv, [Next]_vars, ~overlapped'
  PROVE  OneAtATime'
<1>1. CASE UNCHANGED vars
  <2>1. OneAtATime
    BY <1>1 DEF vars, ghosts, MigrationsInv
  <2>2. \A p \in Process : LocalInv(p)'
    BY <1>1, <2>1, LocalStays DEF vars, database, OneAtATime, LocalInv
  <2>3. BaseInv' /\ Alone' /\ OneUndo'
    BY <1>1, <2>1
    DEF vars, database, OneAtATime, BaseInv, Alone, OneUndo, UndoInProgress
  <2>4. QED
    BY <2>2, <2>3 DEF OneAtATime, LocalInv
<1>2. ASSUME NEW p \in Process, Act(p)
      PROVE  OneAtATime'
  <2>1. ~overlapped
    BY <1>2 DEF Act, Start, CheckHistory, CreateHistory, Load, Up, Down, Record,
                Commit, LateCommit, Lose, Fail, Crash, Reap, Exit, ghosts
  <2>2. Inv /\ OneUndo'
    BY <1>2, <2>1, OneUndoKeeps DEF Inv, MigrationsInv
  <2>3. CASE \E m \in Migration : Up(p, m) \/ Down(p, m) \/ Record(p, m)
    BY <2>2, <2>3, UpKeeps, DownKeeps, RecordKeeps
  <2>4. QED
    BY <1>2, <2>1, <2>2, <2>3, StartKeeps, HistoryTableKeeps, LoadKeeps, CommitKeeps,
       EndKeeps, CrashKeeps DEF Act
<1>3. QED
  BY <1>1, <1>2, NextIsAct

-----------------------------------------------------------------------------
(***************************************************************************)
(* The theorems.                                                           *)
(***************************************************************************)

\* However many processes start at once, and whatever fails: until two undos
\* overlap, no two transactions have changed anything at the same time,
\* although nothing locks the migrations; and afterwards the tables still
\* keep one transaction from undoing another's.
THEOREM MigrationsKeptApart == Spec => []MigrationsInv
<1>1. Init => MigrationsTypeOK /\ MigrationsInv
  BY TypeInit, AlwaysInit, ApartInit DEF MigrationsInv
<1>2. MigrationsTypeOK /\ MigrationsInv /\ [Next]_vars =>
        (MigrationsTypeOK /\ MigrationsInv)'
  <2> SUFFICES ASSUME MigrationsTypeOK, MigrationsInv, [Next]_vars
               PROVE  MigrationsTypeOK' /\ MigrationsInv'
    OBVIOUS
  <2>1. MigrationsTypeOK'
    BY TypeStep
  <2>2. AlwaysInv'
    BY <2>1, AlwaysStep DEF MigrationsInv
  <2>3. ~overlapped' => OneAtATime'
    BY ApartStep
  <2>4. QED
    BY <2>1, <2>2, <2>3 DEF MigrationsInv
<1>3. QED
  BY <1>1, <1>2, PTL DEF Spec

\* The history tells which tables there are, overlapping undos or not.
THEOREM TablesTold == Spec => []TablesRecorded
<1>1. MigrationsInv => TablesRecorded
  BY DEF MigrationsInv, AlwaysInv
<1>2. QED
  BY <1>1, MigrationsKeptApart, PTL

\* Until two undos overlap, the history tells what the database is.
THEOREM HistoryTrue == Spec => []HistoryAgrees
<1>1. MigrationsTypeOK /\ MigrationsInv => HistoryAgrees
  <2> SUFFICES ASSUME MigrationsInv, ~overlapped PROVE
        /\ \A m \in history : 1 .. m \subseteq history
        /\ schema = {Makes[m] : m \in history}
    BY DEF HistoryAgrees
  <2>1. BaseInv
    BY DEF MigrationsInv, OneAtATime
  <2>2. QED
    BY <2>1 DEF BaseInv
<1>2. QED
  BY <1>1, MigrationsTypeCorrect, MigrationsKeptApart, PTL

\* Who serves has all tables, and the administrator in them until two undos
\* overlap.
THEOREM ServesAll == Spec => []ServesComplete
<1>1. MigrationsInv => ServesComplete
  <2> SUFFICES ASSUME MigrationsInv, NEW p \in Process,
                      pc[p] = "serving", ~undone[p]
               PROVE  /\ history = Migration
                      /\ {Makes[1], Makes[3]} \subseteq schema
                      /\ ~overlapped => schema = Object
    BY DEF ServesComplete
  <2>1. history = Migration
    BY DEF MigrationsInv, AlwaysInv, StageInv, SecondInv
  <2>2. {Makes[1], Makes[3]} \subseteq schema
    BY <2>1, FourMigrations DEF MigrationsInv, AlwaysInv, TablesRecorded
  <2>3. ~overlapped => schema = Object
    BY <2>1 DEF MigrationsInv, OneAtATime, BaseInv, Object
  <2>4. QED
    BY <2>1, <2>2, <2>3
<1>2. QED
  BY <1>1, MigrationsKeptApart, PTL

\* The second initialization of a process finds the work of the first.
THEOREM SecondFindsAll == Spec => []SecondIsIdle
<1>1. MigrationsInv => SecondIsIdle
  BY DEF MigrationsInv, AlwaysInv, SecondInv, SecondIsIdle
<1>2. QED
  BY <1>1, MigrationsKeptApart, PTL

\* Until two undos overlap, the migrations of one initialization are applied
\* all or none.
THEOREM AppliedAllOrNothing == Spec => AllOrNothing
<1> DEFINE A == history' # history /\ ~overlapped =>
                  \/ history' = Migration
                  \/ \E m \in history : history' = history \ {m}
<1>1. MigrationsTypeOK /\ MigrationsInv /\ [Next]_vars => [A]_vars
  <2> SUFFICES ASSUME MigrationsTypeOK, MigrationsInv, Next, history' # history,
                      ~overlapped
               PROVE  A
    OBVIOUS
  <2>1. Inv
    BY DEF Inv, MigrationsInv
  <2>2. PICK p \in Process : Commit(p) \/ LateCommit(p)
    BY DEF Next, Step, Start, CheckHistory, CreateHistory, Load, Up, Down,
           Record, Lose, Fail, Crash, Reap, Exit, database
  <2>3. Install(p) /\ (pc[p] = "commit" \/ tx[p] = "inDoubt")
    BY <2>2 DEF Commit, LateCommit
  <2>4. QED
    BY <2>1, <2>3, InstallChanges
<1>2. QED
  BY <1>1, MigrationsTypeCorrect, MigrationsKeptApart, PTL
  DEF Spec, AllOrNothing
=============================================================================
