------------------------ MODULE UsersRepositoryInv ------------------------
(***************************************************************************)
(* The inductive invariant of UsersRepository, in named parts.             *)
(***************************************************************************)
EXTENDS UsersRepository

FindStages == {"find", "findAuth", "findUsers", "check"}
WriteStages == InTransaction \union {"connect", "begin", "rollback", "release"}
BeforeCommit == InTransaction \union {"connect", "begin"}

\* Which operation may be at which stage, and on which id.
StageInv(r) ==
  LET op == arg[r].op IN
  /\ pc[r] # "idle" => arg[r] \in Arguments
  /\ pc[r] # "idle" /\ op # "getAll" => id[r] \in Id
  /\ pc[r] \in {"getAll", "count"} => op = "getAll"
  /\ pc[r] = "getById" => op = "getById"
  /\ pc[r] \in FindStages => op \in {"update", "delete"}
  /\ pc[r] \in WriteStages => op \in {"create", "update", "delete"}
  /\ pc[r] \in {"insertAuth", "insertUsers"} => op = "create"
  /\ pc[r] \in {"deleteAuth", "deleteUsers"} => op = "delete"
  /\ pc[r] \in {"selectAuth", "writeAuth", "selectUsers", "writeUsers"} =>
       op = "update"

\* What an operation has in memory was read from rows that are still there,
\* of the same username and salt.
EntityInv(r) ==
  /\ pc[r] \in {"idle", "returned"} => authRow[r] = None /\ usersRow[r] = None
  /\ pc[r] \in WriteStages => authRow[r] # None /\ usersRow[r] # None
  /\ authRow[r] # None => ~authRow[r].deleted
  /\ arg[r].op \in {"update", "delete"} /\ authRow[r] # None =>
       /\ auth[id[r]] # None
       /\ auth[id[r]].username = authRow[r].username
       /\ auth[id[r]].salt = authRow[r].salt
  /\ arg[r].op \in {"update", "delete"} /\ usersRow[r] # None =>
       users[id[r]] # None /\ ~usersRow[r].deleted
  /\ pc[r] = "writeAuth" => columns[r] \subseteq {"password", "role", "deleted"}

\* A connection, a transaction and the stage that uses them agree; only an
\* open transaction has row versions.
TransactionInv(r) ==
  /\ pc[r] \in FindStages \union {"idle", "returned", "getAll", "getById",
                                 "connect"} => conn[r] = "none"
  /\ conn[r] = "up" =>
       /\ pc[r] \in InTransaction => tx[r] = "active"
       /\ pc[r] \in {"begin", "release", "count"} => tx[r] = "none"
  /\ tx[r] = "inDoubt" => conn[r] # "up"
  /\ pc[r] \in FindStages \union {"getAll", "getById", "connect", "begin"} =>
       tx[r] = "none"
  /\ newAuth[r] # None \/ newUsers[r] # None =>
       tx[r] \in {"active", "inDoubt"} /\ id[r] \in Id
  /\ tx[r] = "inDoubt" => pc[r] \notin BeforeCommit /\ id[r] \in Id

\* The locks an operation holds at each stage: auth is written before users,
\* and only COMMIT comes after both.
HeldInv(r) ==
  conn[r] = "up" =>
    /\ newAuth[r] # None =>
         pc[r] \in {"insertUsers", "deleteUsers", "selectUsers", "writeUsers",
                   "commit"}
    /\ newUsers[r] # None => pc[r] = "commit"

\* A version is a new state of its row, or the first one.
VersionInv(r) ==
  newAuth[r] # None /\ auth[id[r]] # None =>
    /\ newAuth[r].username = auth[id[r]].username
    /\ newAuth[r].salt = auth[id[r]].salt

\* A transaction that may commit leaves a row in both tables.
WholeInv(r) ==
  LET Whole == auth[id[r]] = None => newAuth[r] # None /\ newUsers[r] # None
  IN /\ pc[r] = "commit" /\ conn[r] = "up" => Whole
     /\ tx[r] = "inDoubt" => Whole
     /\ pc[r] = "insertUsers" /\ conn[r] = "up" => newAuth[r] # None

\* No two transactions hold versions of the same row of auth.
RowLockInv ==
  \A r, o \in Caller :
    newAuth[r] # None /\ newAuth[o] # None /\ id[r] = id[o] => r = o

\* An id without rows belongs to the one create() that drew it.
Creates(r) ==
  \/ pc[r] \in BeforeCommit /\ arg[r].op = "create"
  \/ newAuth[r] # None /\ auth[id[r]] = None

CreatorInv ==
  /\ \A r \in Caller : pc[r] \in BeforeCommit /\ arg[r].op = "create" =>
       auth[id[r]] = None
  /\ \A r, o \in Caller : Creates(r) /\ Creates(o) /\ id[r] = id[o] => r = o

\* A live version has a username that no other live row or version has.
ClaimInv ==
  \A r \in Caller : IsLive(newAuth[r]) =>
    /\ \A i \in Id \ {id[r]} :
         IsLive(auth[i]) => auth[i].username # newAuth[r].username
    /\ \A o \in Caller \ {r} :
         IsLive(newAuth[o]) => newAuth[o].username # newAuth[r].username

\* Nobody has the administrator's deletion or degradation in hand.
AdminInv(r) ==
  id[r] = AdminId =>
    /\ newAuth[r] # None => ~newAuth[r].deleted /\ newAuth[r].role = "admin"
    /\ newUsers[r] # None => ~newUsers[r].deleted
    /\ authRow[r] # None => authRow[r].role = "admin"
    /\ usersRow[r] # None => ~usersRow[r].deleted
    /\ pc[r] \in WriteStages =>
         arg[r].op = "update" /\ arg[r].role \in {None, "admin"}

LocalInv ==
  \A r \in Caller :
    StageInv(r) /\ EntityInv(r) /\ TransactionInv(r) /\ HeldInv(r)

RowInv == CreatedTogether /\ \A r \in Caller : VersionInv(r) /\ WholeInv(r)

IInv ==
  /\ TypeOK
  /\ LocalInv
  /\ RowInv
  /\ CreatorInv
  /\ RowLockInv /\ ClaimInv /\ UniqueLiveUsername
  /\ AdminProtected /\ \A r \in Caller : AdminInv(r)
=============================================================================
