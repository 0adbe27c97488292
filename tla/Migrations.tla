----------------------------- MODULE Migrations -----------------------------
(***************************************************************************)
(* The start of the service and the migration commands.  Several processes *)
(* share the database; each initializes two data sources (a server makes   *)
(* two application contexts, a command initializes its data source and     *)
(* then runs or undoes), and every initialization runs the migrations that *)
(* are pending.  No lock keeps the processes apart: the migrations of one  *)
(* initialization are one transaction, and two that do the same thing meet *)
(* at the keys and names of the database.                                  *)
(***************************************************************************)
EXTENDS Naturals

CONSTANTS
  Process,
  Programs,    \* what each process may run: a container its server, a shell
               \* the commands
  MaxTroubles  \* how many failures, crashes and undos there are at most

ASSUME ProgramsAssumption == Programs \in [Process -> SUBSET {"serve", "run", "undo"}]
ASSUME TroublesAssumption == MaxTroubles \in Nat

Migration == 1 .. 4

\* What each migration makes: a table, or the administrator's row in it.
Makes == [m \in Migration |->
            CASE m = 1 -> "auth"  [] m = 2 -> "authAdmin"
              [] m = 3 -> "users" [] m = 4 -> "usersAdmin"]
TableOf == [o \in {"authAdmin", "usersAdmin"} |->
              IF o = "authAdmin" THEN "auth" ELSE "users"]
Rows == DOMAIN TableOf
Object == {Makes[m] : m \in Migration}

VARIABLES
  schema,       \* the objects there are
  historyTable, \* whether the table migrations_history exists
  history,      \* the migrations it holds
  program,      \* what a process runs
  pc,           \* where it stands
  source,       \* which of its two data sources it is working with
  todo,         \* the migrations its transaction has yet to run or undo
  tx,           \* that transaction, as the server sees it
  work,         \* what the transaction has done
  troubles,     \* how many failures, crashes and undos there have been
  undone,       \* history variable: whether something was undone since a
                \* process began
  overlapped    \* history variable: whether an undo began while another was
                \* going on

database == <<schema, historyTable, history>>
ghosts == <<undone, overlapped>>
vars == <<database, program, pc, source, todo, tx, work, troubles, ghosts>>

Work == [added : SUBSET Object, removed : SUBSET Object,
         recorded : SUBSET Migration, erased : SUBSET Migration]
NoWork == [added |-> {}, removed |-> {}, recorded |-> {}, erased |-> {}]

Stages == {"off", "check", "create", "load", "migrate", "record", "commit",
           "serving"}

MigrationsTypeOK ==
  /\ schema \subseteq Object
  /\ historyTable \in BOOLEAN
  /\ history \subseteq Migration
  /\ program \in [Process -> {"serve", "run", "undo"}]
  /\ pc \in [Process -> Stages]
  /\ source \in [Process -> {1, 2}]
  /\ todo \in [Process -> SUBSET Migration]
  /\ tx \in [Process -> {"none", "open", "orphan", "inDoubt"}]
  /\ work \in [Process -> Work]
  /\ troubles \in 0 .. MaxTroubles
  /\ undone \in [Process -> BOOLEAN]
  /\ overlapped \in BOOLEAN

Init ==
  /\ schema = {} /\ historyTable = FALSE /\ history = {}
  /\ program \in [Process -> {"serve", "run", "undo"}]
  /\ \A p \in Process : program[p] \in Programs[p]
  /\ pc = [p \in Process |-> "off"]
  /\ source = [p \in Process |-> 1]
  /\ todo = [p \in Process |-> {}]
  /\ tx = [p \in Process |-> "none"]
  /\ work = [p \in Process |-> NoWork]
  /\ troubles = 0
  /\ undone = [p \in Process |-> FALSE]
  /\ overlapped = FALSE
-----------------------------------------------------------------------------
Goto(p, stage) == pc' = [pc EXCEPT ![p] = stage]

Trouble == troubles < MaxTroubles /\ troubles' = troubles + 1

\* A command migration:undo that runs, or whose transaction the server has
\* yet to end.
UndoInProgress(p) == program[p] = "undo" /\ (pc[p] # "off" \/ tx[p] # "none")

\* Undos are rare; everything else may be started again and again.
Start(p) ==
  /\ pc[p] = "off" /\ tx[p] = "none"
  /\ \E k \in Programs[p] :
       /\ program' = [program EXCEPT ![p] = k]
       /\ IF k = "undo" THEN Trouble ELSE UNCHANGED troubles
       /\ overlapped' =
            (overlapped \/ (k = "undo" /\ \E q \in Process : UndoInProgress(q)))
  /\ Goto(p, "check")
  /\ source' = [source EXCEPT ![p] = 1]
  /\ undone' = [undone EXCEPT ![p] = FALSE]
  /\ UNCHANGED <<database, todo, tx, work>>

\* The process ends by itself, with its transaction rolled back if it has one.
Exit(p) ==
  /\ Goto(p, "off")
  /\ tx' = [tx EXCEPT ![p] = "none"]
  /\ work' = [work EXCEPT ![p] = NoWork]
  /\ todo' = [todo EXCEPT ![p] = {}]
  /\ UNCHANGED <<database, program, source, ghosts>>

\* Seeded bug: the bootstrap makes one application context after the other.
ReadyAgain(p) == Goto(p, "check") /\ source' = [source EXCEPT ![p] = @ + 1]

\* A data source is initialized, or its command has run.
Ready(p) ==
  IF source[p] = 1
  THEN Goto(p, "check") /\ source' = [source EXCEPT ![p] = 2]
  ELSE /\ Goto(p, IF program[p] = "serve" THEN "serving" ELSE "off")
       /\ UNCHANGED source

(***************************************************************************)
(* The table migrations_history is made outside the transaction.           *)
(***************************************************************************)
CheckHistory(p) ==
  /\ pc[p] = "check"
  /\ Goto(p, IF historyTable THEN "load" ELSE "create")
  /\ UNCHANGED <<database, program, source, todo, tx, work,
                 troubles, ghosts>>

CreateHistory(p) ==
  /\ pc[p] = "create" /\ ~historyTable
  /\ historyTable' = TRUE
  /\ Goto(p, "load")
  /\ UNCHANGED <<schema, history, program, source, todo, tx, work, troubles, ghosts>>

Undoing(p) == program[p] = "undo" /\ source[p] = 2

\* The migration an undo may take.  The code takes the one executed last, the
\* greatest id of the table.  No ids are kept here: until undos overlap,
\* migrations are recorded in their order and only the last is ever erased, so
\* it is the highest; after that the model allows any that is recorded.
LastExecuted ==
  IF overlapped THEN history ELSE {m \in history : \A n \in history : n <= m}

ToUndo == IF history = {} THEN {{}} ELSE {{m} : m \in LastExecuted}

\* Seeded bug: a transaction for each migration.
PendingFirst(p) ==
  LET rest == Migration \ history IN
  IF Undoing(p) THEN ToUndo ELSE {{m \in rest : \A n \in rest : m <= n}}

\* What there may be to do: everything that is not in the history, or to undo
\* the last migration that is.
Pending(p) == IF Undoing(p) THEN ToUndo ELSE {Migration \ history}

Load(p) ==
  /\ pc[p] = "load"
  /\ \E list \in Pending(p) :
       /\ todo' = [todo EXCEPT ![p] = list]
       /\ IF list = {}
          THEN Ready(p) /\ UNCHANGED tx
          ELSE /\ Goto(p, "migrate") /\ tx' = [tx EXCEPT ![p] = "open"]
               /\ UNCHANGED source
  /\ UNCHANGED <<database, program, work, troubles, ghosts>>
-----------------------------------------------------------------------------
(***************************************************************************)
(* The statements of a migration.                                          *)
(***************************************************************************)

\* The objects a transaction sees.
View(p) == (schema \ work[p].removed) \union work[p].added

Others(p) == Process \ {p}
Adding(p, o) == \E q \in Others(p) : o \in work[q].added
Removing(p, o) == \E q \in Others(p) : o \in work[q].removed

\* A row's statement waits for whoever is dropping the table.
Dropping(p, o) == o \in Rows /\ Removing(p, TableOf[o])

NoTable(p, o) == o \in Rows /\ TableOf[o] \notin View(p)

\* A key or a name is taken when the transaction that is adding it, or
\* removing the row that has it, commits or not.
UpAwaits(p, o) ==
  Adding(p, o) \/ (o \in Rows /\ Removing(p, o)) \/ Dropping(p, o)

UpFails(p, o) == o \in View(p) \/ NoTable(p, o)

\* DROP TABLE waits for everyone who has changed the table; DELETE for who
\* has deleted the row.
DownAwaits(p, o) ==
  \/ Removing(p, o) \/ Dropping(p, o)
  \/ o \notin Rows /\ \E r \in Rows : TableOf[r] = o /\ (Adding(p, r) \/ Removing(p, r))

\* DELETE finds no row and goes on; DROP finds no table and fails.
DownFails(p, o) == NoTable(p, o) \/ (o \notin Rows /\ o \notin View(p))

\* The migration to run next; an undo has only one.
Comes(p, m) == m \in todo[p] /\ \A n \in todo[p] : m <= n

Up(p, m) ==
  /\ pc[p] = "migrate" /\ ~Undoing(p) /\ Comes(p, m)
  /\ ~UpAwaits(p, Makes[m]) /\ ~UpFails(p, Makes[m])
  /\ work' = [work EXCEPT ![p].added = @ \union {Makes[m]}]
  /\ Goto(p, "record")
  /\ UNCHANGED <<database, program, source, todo, tx, troubles,
                 ghosts>>

\* Seeded bug: a down() that is left empty.
DownNothing(p, m) ==
  /\ pc[p] = "migrate" /\ Undoing(p) /\ Comes(p, m)
  /\ Goto(p, "record")
  /\ UNCHANGED <<database, program, source, todo, tx, work, troubles, ghosts>>

\* A dropped table takes its rows along.
Down(p, m) ==
  /\ pc[p] = "migrate" /\ Undoing(p) /\ Comes(p, m)
  /\ ~DownAwaits(p, Makes[m]) /\ ~DownFails(p, Makes[m])
  /\ work' = [work EXCEPT ![p].removed =
       {o \in View(p) : o = Makes[m] \/ (o \in Rows /\ TableOf[o] = Makes[m])}]
  /\ Goto(p, "record")
  /\ UNCHANGED <<database, program, source, todo, tx, troubles,
                 ghosts>>

\* The row of the history, in the same transaction; then the next migration.
Record(p, m) ==
  /\ pc[p] = "record" /\ Comes(p, m)
  /\ work' = IF Undoing(p)
             THEN [work EXCEPT ![p].erased = {m} \intersect history]
             ELSE [work EXCEPT ![p].recorded = @ \union {m}]
  /\ todo' = [todo EXCEPT ![p] = @ \ {m}]
  /\ Goto(p, IF todo[p] = {m} THEN "commit" ELSE "migrate")
  /\ UNCHANGED <<database, program, source, tx, troubles, ghosts>>

\* What the server does with COMMIT.
Install(p) ==
  /\ schema' = (schema \ work[p].removed) \union work[p].added
  /\ history' = (history \ work[p].erased) \union work[p].recorded
  /\ undone' = [q \in Process |-> undone[q] \/ work[p].erased # {}]
  /\ tx' = [tx EXCEPT ![p] = "none"]
  /\ work' = [work EXCEPT ![p] = NoWork]

Commit(p) ==
  /\ pc[p] = "commit"
  /\ Install(p) /\ Ready(p)
  /\ UNCHANGED <<historyTable, program, todo, troubles, overlapped>>
-----------------------------------------------------------------------------
(***************************************************************************)
(* What may go wrong.                                                      *)
(***************************************************************************)

\* Seeded bug: the process does not exit.
LoseUnnoticed(p) ==
  /\ pc[p] = "create" /\ historyTable
  /\ UNCHANGED vars

\* Another process was first: the statement fails and the process exits.
Lose(p) ==
  /\ \/ pc[p] = "create" /\ historyTable
     \/ /\ pc[p] = "migrate"
        /\ \E m \in Migration : LET o == Makes[m] IN
             /\ Comes(p, m)
             /\ IF Undoing(p) THEN ~DownAwaits(p, o) /\ DownFails(p, o)
                ELSE ~UpAwaits(p, o) /\ UpFails(p, o)
  /\ Exit(p)
  /\ UNCHANGED troubles

\* Seeded bug: the error is caught and the start goes on.
FailIgnored(p) ==
  /\ pc[p] \notin {"off", "serving"}
  /\ Trouble /\ Ready(p)
  /\ tx' = [tx EXCEPT ![p] = "none"]
  /\ work' = [work EXCEPT ![p] = NoWork]
  /\ todo' = [todo EXCEPT ![p] = {}]
  /\ UNCHANGED <<database, program, ghosts>>

\* Anything else that rejects the start: the database cannot be reached, a
\* statement fails, the port is in use.
Fail(p) ==
  /\ pc[p] \notin {"off", "serving"}
  /\ Trouble /\ Exit(p)

\* The process is killed; the server still has its transaction, and perhaps
\* a COMMIT on its way.
Crash(p) ==
  /\ pc[p] # "off"
  /\ Trouble
  /\ Goto(p, "off")
  /\ tx' = [tx EXCEPT ![p] =
       CASE @ = "none" -> "none"
         [] @ = "open" /\ pc[p] = "commit" -> "inDoubt"
         [] OTHER -> "orphan"]
  /\ todo' = [todo EXCEPT ![p] = {}]
  /\ UNCHANGED <<database, program, source, work, ghosts>>

\* The server ends a transaction whose client is gone.
Reap(p) ==
  /\ tx[p] \in {"orphan", "inDoubt"}
  /\ tx' = [tx EXCEPT ![p] = "none"]
  /\ work' = [work EXCEPT ![p] = NoWork]
  /\ UNCHANGED <<database, program, pc, source, todo, troubles,
                 ghosts>>

LateCommit(p) ==
  /\ tx[p] = "inDoubt"
  /\ Install(p)
  /\ UNCHANGED <<historyTable, program, pc, source, todo, troubles,
                 overlapped>>
-----------------------------------------------------------------------------
Step(p) ==
  \/ CheckHistory(p) \/ CreateHistory(p) \/ Load(p)
  \/ \E m \in Migration : Up(p, m) \/ Down(p, m) \/ Record(p, m)
  \/ Commit(p) \/ Lose(p)

Next ==
  \E p \in Process :
    Start(p) \/ Step(p) \/ Fail(p) \/ Crash(p) \/ Reap(p) \/ LateCommit(p)

Spec == Init /\ [][Next]_vars

\* Servers are restarted always; a process that waits for nothing goes on; the
\* server notices that a client is gone.
Fairness ==
  \A p \in Process :
    /\ Programs[p] = {"serve"} => WF_vars(Start(p))
    /\ WF_vars(Step(p)) /\ WF_vars(Reap(p))

FairSpec == Spec /\ Fairness
-----------------------------------------------------------------------------
(***************************************************************************)
(* What the migrations guarantee, and how much of it overlapping undos     *)
(* leave.                                                                  *)
(***************************************************************************)

\* However starts, undos, failures and crashes overlap, the history tells which
\* tables there are: at most the administrator's rows can be missing, or be
\* there and not be recorded.
TablesRecorded == \A m \in {1, 3} : Makes[m] \in schema <=> m \in history

\* The history tells what the database is: a beginning of the list of
\* migrations, and exactly the objects these make, the administrator's two rows
\* among them, whoever crashed or lost a race in the middle.
HistoryAgrees ==
  ~overlapped =>
    /\ \A m \in history : 1 .. m \subseteq history
    /\ schema = {Makes[m] : m \in history}

\* Who serves finds all migrations recorded and both tables there, unless an
\* undo took them away since it began; and the administrator in them, if no two
\* undos have overlapped: this is the state UsersRepository starts from.
ServesComplete ==
  \A p \in Process :
    pc[p] = "serving" /\ ~undone[p] =>
      /\ history = Migration
      /\ {Makes[1], Makes[3]} \subseteq schema
      /\ ~overlapped => schema = Object

\* The second initialization of a process has nothing left to do, unless
\* something was undone after its first.
SecondIsIdle ==
  \A p \in Process :
    source[p] = 2 /\ todo[p] # {} => program[p] = "undo" \/ undone[p]

\* The migrations of one initialization are one transaction: the history
\* leaves what it was only for all four, or by one.
AllOrNothing ==
  [][history' # history /\ ~overlapped =>
       \/ history' = Migration
       \/ \E m \in history : history' = history \ {m}]_vars

\* However the processes got in each other's way, in the end every server
\* serves for good.
ServersServe ==
  \A p \in Process :
    Programs[p] = {"serve"} => <>[](pc[p] = "serving" \/ overlapped)
=============================================================================
