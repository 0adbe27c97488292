-------------------------- MODULE UsersRepository --------------------------
(***************************************************************************)
(* UsersPgRepository: its five operations run concurrently on behalf of    *)
(* many callers, over one connection pool and two tables.                  *)
(*                                                                         *)
(* A step is the code between two awaits, or one statement of the          *)
(* database.  The database runs at READ COMMITTED: a transaction's new row *)
(* version stays its own until it commits and locks the row meanwhile; a   *)
(* partial unique index keeps live usernames apart.  Each operation writes *)
(* at most one row of each table, the one with its id.                     *)
(***************************************************************************)
EXTENDS UsersData

CONSTANTS
  Caller,      \* the calls that may be in progress at a time
  PoolSize,    \* connections of the pool (POSTGRES max)
  Calls,       \* the calls that may be made
  Faults       \* which of FaultKind may happen

FaultKind == {"statement", "connection", "crash"}

ASSUME CallsAssumption ==
  /\ Calls \subseteq Arguments
  /\ Faults \subseteq FaultKind
  /\ PoolSize \in Nat \ {0}

VARIABLES
  auth, users,         \* the committed rows of the two tables
  newAuth, newUsers,   \* the row version a caller's transaction has written
  tx,                  \* that transaction, as the server sees it
  conn,                \* the connection a caller holds
  pc,                  \* where a caller's operation stands
  arg, id,             \* its arguments and the id it works on
  authRow, usersRow,   \* the entities it has in memory
  columns,             \* the columns its save() is about to write
  rows,                \* what findAndCount has read so far
  ret                  \* what it returns: [error, data, count]

tables == <<auth, users>>
server == <<newAuth, newUsers, tx>>
memory == <<arg, id, authRow, usersRow, columns, rows>>
vars == <<tables, server, conn, pc, memory, ret>>

Stages == {"idle", "getAll", "count", "getById", "find", "findAuth",
           "findUsers", "check", "connect", "begin", "insertAuth",
           "insertUsers", "selectAuth", "writeAuth", "selectUsers",
           "writeUsers", "deleteAuth", "deleteUsers", "commit", "rollback",
           "release", "returned"}

\* Stages that wait for a statement of a transaction that has begun.
InTransaction == {"insertAuth", "insertUsers", "selectAuth", "writeAuth",
                  "selectUsers", "writeUsers", "deleteAuth", "deleteUsers",
                  "commit"}

Columns == {"username", "password", "salt", "role", "name", "age", "deleted"}

JoinedRow == [id : Id, auth : AuthEntity \union {None}, users : UsersEntity]

TypeOK ==
  /\ auth \in [Id -> AuthEntity \union {None}]
  /\ users \in [Id -> UsersEntity \union {None}]
  /\ newAuth \in [Caller -> AuthEntity \union {None}]
  /\ newUsers \in [Caller -> UsersEntity \union {None}]
  /\ tx \in [Caller -> {"none", "active", "aborted", "inDoubt"}]
  /\ conn \in [Caller -> {"none", "up", "lost"}]
  /\ pc \in [Caller -> Stages]
  /\ arg \in [Caller -> Arguments \union {NoCall}]
  /\ id \in [Caller -> Id \union {None}]
  /\ authRow \in [Caller -> AuthEntity \union {None}]
  /\ usersRow \in [Caller -> UsersEntity \union {None}]
  /\ columns \in [Caller -> SUBSET Columns]
  /\ rows \in [Caller -> SUBSET JoinedRow]
  /\ ret \in [Caller -> Result]

\* The tables as the migrations leave them: the administrator alone.
Init ==
  /\ \E p \in Secret, s \in Salt :
       auth = [i \in Id |->
                 IF i = AdminId
                 THEN [username |-> AdminName, password |-> Hash(Plain(p), s),
                       salt |-> s, role |-> "admin", deleted |-> FALSE]
                 ELSE None]
  /\ \E n \in Name :
       users = [i \in Id |->
                  IF i = AdminId
                  THEN [name |-> n, age |-> None, deleted |-> FALSE]
                  ELSE None]
  /\ newAuth = [r \in Caller |-> None]
  /\ newUsers = [r \in Caller |-> None]
  /\ tx = [r \in Caller |-> "none"]
  /\ conn = [r \in Caller |-> "none"]
  /\ pc = [r \in Caller |-> "idle"]
  /\ arg = [r \in Caller |-> NoCall]
  /\ id = [r \in Caller |-> None]
  /\ authRow = [r \in Caller |-> None]
  /\ usersRow = [r \in Caller |-> None]
  /\ columns = [r \in Caller |-> {}]
  /\ rows = [r \in Caller |-> {}]
  /\ ret = [r \in Caller |-> NoResult]
-----------------------------------------------------------------------------
\* Seeded bug: delete() marks the users row first.
GotoUsersFirst(r, stage) ==
  pc' = [pc EXCEPT ![r] =
           CASE pc[r] = "begin" /\ stage = "deleteAuth" -> "deleteUsers"
             [] pc[r] = "deleteUsers" /\ stage = "commit" -> "deleteAuth"
             [] pc[r] = "deleteAuth" /\ stage = "deleteUsers" -> "commit"
             [] OTHER -> stage]

Goto(r, stage) == pc' = [pc EXCEPT ![r] = stage]

\* The function's variables are gone once it has returned.
Forget(r) ==
  /\ authRow' = [authRow EXCEPT ![r] = None]
  /\ usersRow' = [usersRow EXCEPT ![r] = None]
  /\ columns' = [columns EXCEPT ![r] = {}]
  /\ rows' = [rows EXCEPT ![r] = {}]

\* Returns from an operation that holds no connection (any more).
Return(r, result) ==
  /\ Goto(r, "returned")
  /\ ret' = [ret EXCEPT ![r] = result]
  /\ Forget(r)
  /\ UNCHANGED <<arg, id>>

PoolFree == Cardinality({r \in Caller : conn[r] # "none"}) < PoolSize

(***************************************************************************)
(* A call.  create() draws its id, which no row and no call in progress    *)
(* has, and builds the two entities; the others work on the id they are    *)
(* given.  A slot whose transaction the server has yet to end is not used. *)
(***************************************************************************)
Fresh(i) ==
  /\ auth[i] = None /\ users[i] = None
  /\ \A r \in Caller : id[r] # i

CallCreate(r, c) ==
  /\ c.op = "create"
  /\ pc[r] = "idle" /\ tx[r] = "none"
  /\ \E i \in Id : Fresh(i) /\ id' = [id EXCEPT ![r] = i]
  /\ arg' = [arg EXCEPT ![r] = c]
  /\ authRow' = [authRow EXCEPT ![r] = NewAuth(c)]
  /\ usersRow' = [usersRow EXCEPT ![r] = NewUsers(c)]
  /\ Goto(r, "connect")
  /\ UNCHANGED <<tables, server, conn, columns, rows, ret>>

FirstStage(op) ==
  CASE op = "getAll" -> "getAll"
    [] op = "getById" -> "getById"
    [] OTHER -> "find"

CallOther(r, c) ==
  /\ c.op # "create"
  /\ pc[r] = "idle" /\ tx[r] = "none"
  /\ id' = [id EXCEPT ![r] = c.id]
  /\ arg' = [arg EXCEPT ![r] = c]
  /\ Goto(r, FirstStage(c.op))
  /\ UNCHANGED <<tables, server, conn, authRow, usersRow, columns, rows, ret>>

Call(r, c) == CallCreate(r, c) \/ CallOther(r, c)

\* The caller takes the result; the id stays while a transaction needs it.
Take(r) ==
  /\ pc[r] = "returned"
  /\ Goto(r, "idle")
  /\ arg' = [arg EXCEPT ![r] = NoCall]
  /\ id' = [id EXCEPT ![r] = IF tx[r] = "none" THEN None ELSE @]
  /\ ret' = [ret EXCEPT ![r] = NoResult]
  /\ UNCHANGED <<tables, server, conn, authRow, usersRow, columns, rows>>

-----------------------------------------------------------------------------
(***************************************************************************)
(* Reads outside a transaction.  Each query takes a connection of the pool *)
(* for its own duration; findAndCount keeps one over its two queries.      *)
(***************************************************************************)

\* _fillModel reads entity.auth.username: without an auth row it throws.
FillModels(read) ==
  IF \E row \in read : row.auth = None
  THEN Error("repository")
  ELSE [NoResult EXCEPT
          !.list = {FillModel(row.id, row.auth, row.users) : row \in read}]

LiveUsers == {i \in Id : IsLive(users[i])}

\* Seeded bug: the count includes deleted users.
CountedDeleted == Cardinality({i \in Id : users[i] # None})

\* The second query of findAndCount.
Counted == Cardinality(LiveUsers)

GetAllRows(r) ==
  /\ pc[r] = "getAll" /\ PoolFree
  /\ rows' = [rows EXCEPT ![r] =
       {[id |-> i, auth |-> Find(auth[i]), users |-> users[i]] :
          i \in LiveUsers}]
  /\ conn' = [conn EXCEPT ![r] = "up"]
  /\ Goto(r, "count")
  /\ UNCHANGED <<tables, server, arg, id, authRow, usersRow, columns, ret>>

GetAllCount(r) ==
  /\ pc[r] = "count" /\ conn[r] = "up"
  /\ conn' = [conn EXCEPT ![r] = "none"]
  /\ LET filled == FillModels(rows[r]) IN
       Return(r, IF filled.error = "none"
                 THEN [filled EXCEPT !.count = Counted]
                 ELSE filled)
  /\ UNCHANGED <<tables, server>>

\* findOne with a relation asks for the id first and for its rows second, on
\* one connection: it returns what the second finds, if the first found it.
GetById(r) ==
  /\ pc[r] = "getById" /\ PoolFree
  /\ LET a == Find(auth[id[r]])
         u == Find(users[id[r]])
     IN Return(r,
          IF u = None THEN NoResult
          ELSE IF a = None THEN Error("repository")
          ELSE [NoResult EXCEPT !.model = FillModel(id[r], a, u)])
  /\ UNCHANGED <<tables, server, conn>>

\* Seeded bug: the auth query has lost its where clause.
FindAuthAnywhere(r) ==
  /\ pc[r] \in {"find", "findAuth"} /\ PoolFree
  /\ \E i \in Id : authRow' = [authRow EXCEPT ![r] = Find(auth[i])]
  /\ Goto(r, IF pc[r] = "find" THEN "findUsers" ELSE "check")
  /\ UNCHANGED <<tables, server, conn, arg, id, usersRow, columns, rows, ret>>

\* _findOneAuthAndUsers: two queries on two connections, in either order.
FindAuth(r) ==
  /\ pc[r] \in {"find", "findAuth"} /\ PoolFree
  /\ authRow' = [authRow EXCEPT ![r] = Find(auth[id[r]])]
  /\ Goto(r, IF pc[r] = "find" THEN "findUsers" ELSE "check")
  /\ UNCHANGED <<tables, server, conn, arg, id, usersRow, columns, rows, ret>>

FindUsers(r) ==
  /\ pc[r] \in {"find", "findUsers"} /\ PoolFree
  /\ usersRow' = [usersRow EXCEPT ![r] = Find(users[id[r]])]
  /\ Goto(r, IF pc[r] = "find" THEN "findAuth" ELSE "check")
  /\ UNCHANGED <<tables, server, conn, arg, id, authRow, columns, rows, ret>>

Missing(r) == authRow[r] = None \/ usersRow[r] = None

\* Seeded bug: only delete() refuses to touch the administrator.
ReadonlyForDelete(r) ==
  /\ authRow[r].username = AdminName
  /\ authRow[r].role = "admin"
  /\ arg[r].op = "delete"

Readonly(r) ==
  /\ authRow[r].username = AdminName
  /\ authRow[r].role = "admin"
  /\ arg[r].op = "update" => arg[r].role \notin {None, "admin"}

ReturnMissing(r) ==
  /\ pc[r] = "check" /\ Missing(r)
  /\ Return(r, Count(0))
  /\ UNCHANGED <<tables, server, conn>>

ReturnReadonly(r) ==
  /\ pc[r] = "check" /\ ~Missing(r) /\ Readonly(r)
  /\ Return(r, Error("readonly"))
  /\ UNCHANGED <<tables, server, conn>>

PassCheck(r) ==
  /\ pc[r] = "check" /\ ~Missing(r) /\ ~Readonly(r)
  /\ Goto(r, "connect")
  /\ UNCHANGED <<tables, server, conn, memory, ret>>
-----------------------------------------------------------------------------
(***************************************************************************)
(* The transaction of a write operation.                                   *)
(***************************************************************************)
\* Seeded bug: delete() marks the auth row alone.
AfterAuthDeleted(c) ==
  CASE c.op = "create" -> "insertUsers"
    [] c.op = "delete" -> "commit"
    [] OTHER -> IF ChangesUsers(c) THEN "selectUsers" ELSE "commit"

\* Seeded bug: nothing is done to the users row.
AfterAuthNothing(c) == "commit"

AfterAuth(c) ==
  CASE c.op = "create" -> "insertUsers"
    [] c.op = "delete" -> "deleteUsers"
    [] OTHER -> IF ChangesUsers(c) THEN "selectUsers" ELSE "commit"

AfterBegin(c) ==
  CASE c.op = "create" -> "insertAuth"
    [] c.op = "delete" -> "deleteAuth"
    [] OTHER -> IF ChangesAuth(c) THEN "selectAuth" ELSE AfterAuth(c)

Connect(r) ==
  /\ pc[r] = "connect" /\ PoolFree
  /\ conn' = [conn EXCEPT ![r] = "up"]
  /\ Goto(r, "begin")
  /\ UNCHANGED <<tables, server, memory, ret>>

\* update() assigns its arguments to the entities it found before.
Begin(r) ==
  /\ pc[r] = "begin" /\ conn[r] = "up"
  /\ tx' = [tx EXCEPT ![r] = "active"]
  /\ IF arg[r].op = "update"
     THEN /\ authRow' = [authRow EXCEPT ![r] = AssignAuth(@, arg[r])]
          /\ usersRow' = [usersRow EXCEPT ![r] = AssignUsers(@, arg[r])]
     ELSE UNCHANGED <<authRow, usersRow>>
  /\ Goto(r, AfterBegin(arg[r]))
  /\ UNCHANGED <<tables, newAuth, newUsers, conn, arg, id, columns, rows, ret>>

\* The server gives up the transaction's row versions, and its locks.
DropVersions(r) ==
  /\ newAuth' = [newAuth EXCEPT ![r] = None]
  /\ newUsers' = [newUsers EXCEPT ![r] = None]

\* A statement of the transaction raises an error: the server aborts the
\* transaction, the code goes to its catch block.
Abort(r) ==
  /\ DropVersions(r)
  /\ tx' = [tx EXCEPT ![r] = "aborted"]
  /\ Goto(r, "rollback")

AuthLocked(r) == \E o \in Caller \ {r} : newAuth[o] # None /\ id[o] = id[r]
UsersLocked(r) == \E o \in Caller \ {r} : newUsers[o] # None /\ id[o] = id[r]

(***************************************************************************)
(* The unique index on the usernames of live rows, when r writes a live    *)
(* row: it waits for a transaction that has a row of that username in      *)
(* hand, and fails when another committed row has it.                      *)
(***************************************************************************)
UsernameAwaited(r, name) ==
  \E o \in Caller \ {r} :
    /\ newAuth[o] # None /\ id[o] # id[r]
    /\ newAuth[o].username = name
    /\ IsLive(newAuth[o]) \/ IsLive(auth[id[o]])

\* Seeded bug: the index on the usernames is not unique.
UsernameNeverTaken(r, name) == FALSE

UsernameTaken(r, name) ==
  \E i \in Id \ {id[r]} : IsLive(auth[i]) /\ auth[i].username = name

PutAuth(r, row) ==
  /\ ~AuthLocked(r)
  /\ IsLive(row) => ~UsernameAwaited(r, row.username)
  /\ IF IsLive(row) /\ UsernameTaken(r, row.username)
     THEN Abort(r)
     ELSE /\ newAuth' = [newAuth EXCEPT ![r] = row]
          /\ Goto(r, AfterAuth(arg[r]))
          /\ UNCHANGED <<newUsers, tx>>

PutUsers(r, row) ==
  /\ ~UsersLocked(r)
  /\ newUsers' = [newUsers EXCEPT ![r] = row]
  /\ Goto(r, "commit")
  /\ UNCHANGED <<newAuth, tx>>

InsertAuth(r) ==
  /\ pc[r] = "insertAuth" /\ conn[r] = "up"
  /\ PutAuth(r, authRow[r])
  /\ UNCHANGED <<tables, conn, memory, ret>>

InsertUsers(r) ==
  /\ pc[r] = "insertUsers" /\ conn[r] = "up"
  /\ PutUsers(r, usersRow[r])
  /\ UNCHANGED <<tables, conn, memory, ret>>

DeleteAuth(r) ==
  /\ pc[r] = "deleteAuth" /\ conn[r] = "up"
  /\ PutAuth(r, SoftDelete(auth[id[r]]))
  /\ UNCHANGED <<tables, conn, memory, ret>>

DeleteUsers(r) ==
  /\ pc[r] = "deleteUsers" /\ conn[r] = "up"
  /\ PutUsers(r, SoftDelete(users[id[r]]))
  /\ UNCHANGED <<tables, conn, memory, ret>>

\* save(authRow): the SELECT, and nothing more if no column differs.
SelectAuth(r) ==
  /\ pc[r] = "selectAuth" /\ conn[r] = "up"
  /\ LET diff == DiffColumns(authRow[r], auth[id[r]]) IN
       /\ columns' = [columns EXCEPT ![r] = diff]
       /\ Goto(r, IF diff = {} THEN AfterAuth(arg[r]) ELSE "writeAuth")
  /\ UNCHANGED <<tables, server, conn, arg, id, authRow, usersRow, rows, ret>>

\* save(authRow): the UPDATE, once the row's lock is free.
WriteAuth(r) ==
  /\ pc[r] = "writeAuth" /\ conn[r] = "up"
  /\ PutAuth(r, UpdateColumns(auth[id[r]], authRow[r], columns[r]))
  /\ UNCHANGED <<tables, conn, memory, ret>>

SelectUsers(r) ==
  /\ pc[r] = "selectUsers" /\ conn[r] = "up"
  /\ LET diff == DiffColumns(usersRow[r], users[id[r]]) IN
       /\ columns' = [columns EXCEPT ![r] = diff]
       /\ Goto(r, IF diff = {} THEN "commit" ELSE "writeUsers")
  /\ UNCHANGED <<tables, server, conn, arg, id, authRow, usersRow, rows, ret>>

WriteUsers(r) ==
  /\ pc[r] = "writeUsers" /\ conn[r] = "up"
  /\ PutUsers(r, UpdateColumns(users[id[r]], usersRow[r], columns[r]))
  /\ UNCHANGED <<tables, conn, memory, ret>>

\* The server commits: the row versions become the rows.
InstallVersions(r) ==
  /\ auth' = [auth EXCEPT ![id[r]] = Defined(newAuth[r], @)]
  /\ users' = [users EXCEPT ![id[r]] = Defined(newUsers[r], @)]
  /\ DropVersions(r)
  /\ tx' = [tx EXCEPT ![r] = "none"]

Success(r) ==
  CASE arg[r].op = "create" ->
         [NoResult EXCEPT !.model = FillModel(id[r], authRow[r], usersRow[r])]
    [] arg[r].op = "update" ->
         Count(IF ChangesAuth(arg[r]) \/ ChangesUsers(arg[r]) THEN 1 ELSE 0)
    [] OTHER -> Count(1)

\* Seeded bug: the transaction is released without being committed.
CommitForgotten(r) ==
  /\ pc[r] = "commit" /\ conn[r] = "up"
  /\ DropVersions(r)
  /\ tx' = [tx EXCEPT ![r] = "none"]
  /\ ret' = [ret EXCEPT ![r] = Success(r)]
  /\ Goto(r, "release")
  /\ UNCHANGED <<tables, conn, memory>>

Commit(r) ==
  /\ pc[r] = "commit" /\ conn[r] = "up"
  /\ InstallVersions(r)
  /\ ret' = [ret EXCEPT ![r] = Success(r)]
  /\ Goto(r, "release")
  /\ UNCHANGED <<conn, memory>>

\* Seeded bug: the catch block does not roll back.
RollbackForgotten(r) ==
  /\ pc[r] = "rollback"
  /\ ret' = [ret EXCEPT ![r] = Error("repository")]
  /\ Goto(r, "release")
  /\ UNCHANGED <<tables, server, conn, memory>>

\* _rollbackExecute: on a connection that is lost ROLLBACK fails too, which
\* is combined into the error; the server is left with the transaction.
Rollback(r) ==
  /\ pc[r] = "rollback"
  /\ IF conn[r] = "up"
     THEN DropVersions(r) /\ tx' = [tx EXCEPT ![r] = "none"]
     ELSE UNCHANGED server
  /\ ret' = [ret EXCEPT ![r] = Error("repository")]
  /\ Goto(r, "release")
  /\ UNCHANGED <<tables, conn, memory>>

\* Seeded bug: the connection is not released.
ReleaseForgotten(r) ==
  /\ pc[r] = "release"
  /\ Return(r, ret[r])
  /\ UNCHANGED <<tables, server, conn>>

\* The finally block.
Release(r) ==
  /\ pc[r] = "release"
  /\ conn' = [conn EXCEPT ![r] = "none"]
  /\ Return(r, ret[r])
  /\ UNCHANGED <<tables, server>>

-----------------------------------------------------------------------------
(***************************************************************************)
(* What may fail.                                                          *)
(***************************************************************************)

\* A query outside a transaction fails, or no connection can be had.
QueryFails(r) ==
  /\ "statement" \in Faults
  /\ pc[r] \in {"getAll", "getById", "find", "findAuth", "findUsers",
                "connect"}
  /\ Return(r, Error("repository"))
  /\ UNCHANGED <<tables, server, conn>>

CountFails(r) ==
  /\ "statement" \in Faults
  /\ pc[r] = "count" /\ conn[r] = "up"
  /\ conn' = [conn EXCEPT ![r] = "none"]
  /\ Return(r, Error("repository"))
  /\ UNCHANGED <<tables, server>>

StatementFails(r) ==
  /\ "statement" \in Faults
  /\ pc[r] \in InTransaction /\ conn[r] = "up"
  /\ Abort(r)
  /\ UNCHANGED <<tables, conn, memory, ret>>

\* The connection breaks; the server keeps the transaction for now.
LoseConnection(r) ==
  /\ "connection" \in Faults
  /\ conn[r] = "up"
  /\ conn' = [conn EXCEPT ![r] = "lost"]
  /\ UNCHANGED <<tables, server, pc, memory, ret>>

\* The connection breaks while COMMIT is on its way.
LoseCommit(r) ==
  /\ "connection" \in Faults
  /\ pc[r] = "commit" /\ conn[r] = "up"
  /\ conn' = [conn EXCEPT ![r] = "lost"]
  /\ tx' = [tx EXCEPT ![r] = "inDoubt"]
  /\ Goto(r, "rollback")
  /\ UNCHANGED <<tables, newAuth, newUsers, memory, ret>>

\* Seeded bug: BEGIN is not tried on a connection that broke before it.
FindBrokenLater(r) ==
  /\ conn[r] = "lost"
  /\ \/ /\ pc[r] \in InTransaction
        /\ Goto(r, "rollback")
        /\ UNCHANGED <<conn, memory, ret>>
     \/ /\ pc[r] = "count"
        /\ conn' = [conn EXCEPT ![r] = "none"]
        /\ Return(r, Error("repository"))
  /\ UNCHANGED <<tables, server>>

\* The code meets the broken connection with its next statement.
FindBroken(r) ==
  /\ conn[r] = "lost"
  /\ \/ /\ pc[r] \in InTransaction
        /\ Goto(r, "rollback")
        /\ UNCHANGED <<conn, memory, ret>>
     \/ /\ pc[r] = "begin"
        /\ Goto(r, "release")
        /\ ret' = [ret EXCEPT ![r] = Error("repository")]
        /\ UNCHANGED <<conn, memory>>
     \/ /\ pc[r] = "count"
        /\ conn' = [conn EXCEPT ![r] = "none"]
        /\ Return(r, Error("repository"))
  /\ UNCHANGED <<tables, server>>

\* The server ends a transaction whose client is gone.
Orphan(r) == tx[r] # "none" /\ conn[r] # "up"

ForgetId(r) == id' = [id EXCEPT ![r] = IF pc[r] = "idle" THEN None ELSE @]

Reap(r) ==
  /\ Orphan(r)
  /\ DropVersions(r)
  /\ tx' = [tx EXCEPT ![r] = "none"]
  /\ ForgetId(r)
  /\ UNCHANGED <<tables, conn, pc, arg, authRow, usersRow, columns, rows, ret>>

LateCommit(r) ==
  /\ tx[r] = "inDoubt"
  /\ InstallVersions(r)
  /\ ForgetId(r)
  /\ UNCHANGED <<conn, pc, arg, authRow, usersRow, columns, rows, ret>>

\* The process dies: every call in progress, and its memory, is gone.  The
\* server may have received a COMMIT.
Crash ==
  /\ "crash" \in Faults
  /\ pc' = [r \in Caller |-> "idle"]
  /\ conn' = [r \in Caller |-> "none"]
  /\ arg' = [r \in Caller |-> NoCall]
  /\ id' = [r \in Caller |-> IF tx[r] = "none" THEN None ELSE id[r]]
  /\ authRow' = [r \in Caller |-> None]
  /\ usersRow' = [r \in Caller |-> None]
  /\ columns' = [r \in Caller |-> {}]
  /\ rows' = [r \in Caller |-> {}]
  /\ ret' = [r \in Caller |-> NoResult]
  /\ tx' = [r \in Caller |->
              IF pc[r] = "commit" /\ conn[r] = "up" THEN "inDoubt" ELSE tx[r]]
  /\ UNCHANGED <<tables, newAuth, newUsers>>

-----------------------------------------------------------------------------
Statement(r) ==
  \/ GetAllRows(r) \/ GetAllCount(r) \/ GetById(r)
  \/ FindAuth(r) \/ FindUsers(r)
  \/ ReturnMissing(r) \/ ReturnReadonly(r) \/ PassCheck(r)
  \/ Connect(r) \/ Begin(r)
  \/ InsertAuth(r) \/ InsertUsers(r)
  \/ DeleteAuth(r) \/ DeleteUsers(r)
  \/ SelectAuth(r) \/ WriteAuth(r)
  \/ SelectUsers(r) \/ WriteUsers(r)
  \/ Commit(r) \/ Rollback(r) \/ Release(r) \/ FindBroken(r)

Fault(r) ==
  \/ QueryFails(r) \/ CountFails(r) \/ StatementFails(r)
  \/ LoseConnection(r) \/ LoseCommit(r)

Server(r) == Reap(r) \/ LateCommit(r)

\* What goes on inside the repository while its callers wait.
Internal ==
  \/ \E r \in Caller : Statement(r) \/ Fault(r) \/ Server(r)
  \/ Crash

Next ==
  \/ \E r \in Caller : Take(r) \/ \E c \in Calls : Call(r, c)
  \/ Internal

Spec == Init /\ [][Next]_vars

-----------------------------------------------------------------------------
(***************************************************************************)
(* Safety.                                                                 *)
(***************************************************************************)

\* The administrator the migrations insert stays a live user, named admin,
\* with the role admin: update() and delete() refuse on an entity they read
\* before their transaction (lines 124-131, 197-199), which is enough
\* whatever runs in between.
AdminProtected ==
  /\ IsLive(auth[AdminId]) /\ IsLive(users[AdminId])
  /\ auth[AdminId].username = AdminName
  /\ auth[AdminId].role = "admin"

\* No two live users share a username, although create() never looks and an
\* update() that writes a stale entity back can undo a deletion.
UniqueLiveUsername ==
  \A i, j \in Id :
    /\ IsLive(auth[i]) /\ IsLive(auth[j])
    /\ auth[i].username = auth[j].username
    => i = j

\* A user has a row in both tables or in none: create() never leaves half a
\* user behind, whichever of its steps fails or is cut off.
CreatedTogether == \A i \in Id : auth[i] = None <=> users[i] = None

\* An operation that is over holds no connection, and a connection goes back
\* to the pool without an open transaction on it.
ConnectionsReturned ==
  \A r \in Caller :
    /\ pc[r] \in {"idle", "returned"} => conn[r] = "none"
    /\ pc[r] = "release" /\ conn[r] = "up" => tx[r] = "none"

\* A create() that returned a user has stored it; one that returned an error
\* has stored nothing, now or later, unless its connection broke.
CreateTellsTheTruth ==
  \A r \in Caller :
    pc[r] = "returned" /\ arg[r].op = "create" =>
      IF ret[r].error = "none"
      THEN /\ auth[id[r]] # None /\ users[id[r]] # None
           /\ auth[id[r]].username = arg[r].username
      ELSE "connection" \notin Faults =>
             auth[id[r]] = None /\ users[id[r]] = None /\ tx[r] = "none"

\* The statement r stands at waits for another caller o, until o's operation
\* or transaction is over: for a connection of the pool, for the lock of a row
\* of auth or users, or for the decision about a username.
AuthToWrite(r) ==
  CASE pc[r] = "insertAuth" -> authRow[r]
    [] pc[r] = "deleteAuth" -> SoftDelete(auth[id[r]])
    [] OTHER -> UpdateColumns(auth[id[r]], authRow[r], columns[r])

AwaitsConnection(r, o) ==
  /\ pc[r] \in {"getAll", "getById", "find", "findAuth", "findUsers", "connect"}
  /\ ~PoolFree
  /\ conn[o] # "none"

AwaitsAuth(r, o) ==
  /\ pc[r] \in {"insertAuth", "deleteAuth", "writeAuth"} /\ conn[r] = "up"
  /\ o # r /\ newAuth[o] # None
  /\ \/ id[o] = id[r]
     \/ /\ IsLive(AuthToWrite(r))
        /\ newAuth[o].username = AuthToWrite(r).username
        /\ IsLive(newAuth[o]) \/ IsLive(auth[id[o]])

AwaitsUsers(r, o) ==
  /\ pc[r] \in {"insertUsers", "deleteUsers", "writeUsers"} /\ conn[r] = "up"
  /\ o # r /\ newUsers[o] # None
  /\ id[o] = id[r]

Awaits(r, o) ==
  AwaitsConnection(r, o) \/ AwaitsAuth(r, o) \/ AwaitsUsers(r, o)

\* Callers never wait for each other in a circle, although they hold their
\* connection while they wait for a lock (line 138), and locks while they wait
\* for more: whoever waits for a connection holds nothing, and every
\* transaction writes to auth first and to users after.
NoWaitCycle ==
  \A S \in SUBSET Caller :
    S # {} => \E r \in S : \A o \in S : ~Awaits(r, o)

\* A call in progress can go on by itself unless it waits for another caller:
\* no failure and no lost connection leaves it where no statement comes next.
GoesOn ==
  \A r \in Caller :
    \/ pc[r] \in {"idle", "returned"}
    \/ ENABLED Statement(r)
    \/ \E o \in Caller : Awaits(r, o)

\* The username and the salt of a row never change: save() writes whatever
\* column differs, and only the password and the role may.
IdentityImmutable ==
  [][\A i \in Id : auth[i] # None =>
       /\ auth'[i] # None
       /\ auth'[i].username = auth[i].username
       /\ auth'[i].salt = auth[i].salt]_vars

\* A step that deletes one of a user's rows leaves both deleted.
Deletes(row, new) == IsLive(row) /\ ~IsLive(new)

DeletesBoth ==
  [][\A i \in Id :
       Deletes(auth[i], auth'[i]) \/ Deletes(users[i], users'[i]) =>
         ~IsLive(auth'[i]) /\ ~IsLive(users'[i])]_vars

\* The transaction that ends is an update of i, or one in doubt of which the
\* process remembers nothing.
UpdateCommits(r, i) ==
  /\ id[r] = i
  /\ tx[r] \in {"active", "inDoubt"} /\ tx'[r] = "none"
  /\ \/ arg[r].op = "update"
     \/ arg[r].op = "none" /\ tx[r] = "inDoubt"

\* The two rows of a user part company only in the step in which an update of
\* that user ends its transaction: creations and deletions alone keep them
\* together, however they interleave and whatever fails.
OnlyUpdatesPart ==
  [][\A i \in Id :
       (IsLive(auth[i]) <=> IsLive(users[i])) =>
         \/ IsLive(auth'[i]) <=> IsLive(users'[i])
         \/ \E r \in Caller : UpdateCommits(r, i)]_vars

\* Who could bring the deleted user i back: an update that has found it in both
\* tables before, or a transaction with a live version of one of its rows.
MayRevive(r, i) ==
  /\ id[r] = i
  /\ \/ arg[r].op = "update" /\ ~Missing(r)
     \/ IsLive(newAuth[r]) \/ IsLive(newUsers[r])

Buried(i) ==
  /\ auth[i] # None /\ auth[i].deleted
  /\ users[i] # None /\ users[i].deleted
  /\ \A r \in Caller : ~MayRevive(r, i)

\* A deletion is final as soon as no update is left that had found the user
\* before (lines 120, 193): whatever is called later, a retry of such an update
\* included, the two rows stay deleted.
DeletionFinal == [][\A i \in Id : Buried(i) => Buried(i)']_vars

-----------------------------------------------------------------------------
(***************************************************************************)
(* What holds of calls that do not overlap, and not of calls that do.      *)
(***************************************************************************)

\* The two rows of a user are live or deleted together, so that getAll() and
\* getById() can fill a model for every live users row.
LivePairing == \A i \in Id : IsLive(auth[i]) <=> IsLive(users[i])

\* The role of a user changes only to the role the update() that is being
\* committed asks for.  Of a transaction in doubt the process may have forgotten
\* the call, so that this says nothing of it.
RoleChangesOnRequest ==
  [][\A i \in Id :
       auth[i] # None /\ auth'[i] # None /\ auth'[i].role # auth[i].role =>
         \E r \in Caller :
           id[r] = i /\ (arg[r].role = auth'[i].role \/ tx[r] = "inDoubt")]_vars

\* getAll() counts the users it lists.
CountMatchesList ==
  \A r \in Caller :
    pc[r] = "returned" /\ arg[r].op = "getAll" /\ ret[r].error = "none" =>
      ret[r].count = Cardinality(ret[r].list)
=============================================================================
