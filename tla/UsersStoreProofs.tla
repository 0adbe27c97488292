-------------------------- MODULE UsersStoreProofs --------------------------
(***************************************************************************)
(* UsersRepository implements UsersStore, for every value of the           *)
(* constants: the invariant StoreInv, and the step of UsersStore that each *)
(* step of the repository is.                                              *)
(***************************************************************************)
EXTENDS UsersStoreRefinement, UsersRepositoryProofs

USE NoneAssumption, AdminAssumption, CallsAssumption

-----------------------------------------------------------------------------
(***************************************************************************)
(* A step of one caller, and what it leaves alone.                         *)
(***************************************************************************)

Act(r) ==
  \/ Take(r) \/ Statement(r) \/ Fault(r) \/ Server(r)
  \/ \E c \in Calls : Call(r, c)

\* All that belongs to a caller.
Mine(q) == <<newAuth[q], newUsers[q], tx[q], conn[q], pc[q], arg[q], id[q],
             authRow[q], usersRow[q], columns[q], rows[q], ret[q]>>

\* Every step is a caller's or a crash.
LEMMA NextIsAct == Next <=> Crash \/ \E r \in Caller : Act(r)
  BY DEF Next, Internal, Act

\* A caller's step changes nothing that belongs to another caller.
LEMMA Frame ==
  ASSUME TypeOK, NEW r \in Caller, NEW q \in Caller \ {r}, Act(r)
  PROVE  Mine(q)' = Mine(q)
<1>1. ASSUME NEW c \in Calls, Call(r, c)
      PROVE  Mine(q)' = Mine(q)
  BY <1>1 DEF TypeOK, Mine, Call, CallCreate, CallOther, Goto, server
<1>2. CASE Take(r)
  BY <1>2 DEF Mine, Take, Goto, server
<1>3. CASE GetAllRows(r) \/ GetAllCount(r) \/ GetById(r) \/ FindAuth(r)
           \/ FindUsers(r)
  BY <1>3
  DEF TypeOK, Mine, GetAllRows, GetAllCount, GetById, FindAuth, FindUsers,
      Return, Forget, Goto, server
<1>4. CASE ReturnMissing(r) \/ ReturnReadonly(r) \/ PassCheck(r)
  BY <1>4
  DEF TypeOK, Mine, ReturnMissing, ReturnReadonly, PassCheck, Return, Forget,
      Goto, server, memory
<1>5. CASE Connect(r) \/ Begin(r)
  BY <1>5 DEF TypeOK, Mine, Connect, Begin, Goto, server, memory
<1>6. CASE InsertAuth(r) \/ DeleteAuth(r) \/ WriteAuth(r)
  BY <1>6
  DEF TypeOK, Mine, InsertAuth, DeleteAuth, WriteAuth, PutAuth, Abort,
      DropVersions, Goto, memory
<1>7. CASE InsertUsers(r) \/ DeleteUsers(r) \/ WriteUsers(r)
  BY <1>7
  DEF TypeOK, Mine, InsertUsers, DeleteUsers, WriteUsers, PutUsers, Goto,
      memory
<1>8. CASE SelectAuth(r) \/ SelectUsers(r)
  BY <1>8 DEF TypeOK, Mine, SelectAuth, SelectUsers, Goto, server
<1>9. CASE Commit(r) \/ Rollback(r) \/ Release(r)
  BY <1>9
  DEF TypeOK, Mine, Commit, Rollback, Release, InstallVersions, DropVersions,
      Return, Forget, Goto, server, memory
<1>10. CASE QueryFails(r) \/ CountFails(r) \/ StatementFails(r)
  BY <1>10
  DEF TypeOK, Mine, QueryFails, CountFails, StatementFails, Abort,
      DropVersions, Return, Forget, Goto, server, memory
<1>11. CASE LoseConnection(r) \/ LoseCommit(r) \/ FindBroken(r)
  BY <1>11
  DEF TypeOK, Mine, LoseConnection, LoseCommit, FindBroken, Return, Forget,
      Goto, server, memory
<1>12. CASE Server(r)
  BY <1>12
  DEF TypeOK, Mine, Server, Reap, LateCommit, InstallVersions, DropVersions,
      ForgetId
<1>13. QED
  BY <1>1, <1>2, <1>3, <1>4, <1>5, <1>6, <1>7, <1>8, <1>9, <1>10, <1>11,
     <1>12
  DEF Act, Statement, Fault

\* A caller's step changes the tables only where it commits: the rows of the
\* caller's id become the caller's versions.
LEMMA ActTables ==
  ASSUME LocalInv, NEW r \in Caller, Act(r)
  PROVE  \/ UNCHANGED tables
         \/ /\ id[r] \in Id
            /\ auth' = [auth EXCEPT ![id[r]] = Defined(newAuth[r], @)]
            /\ users' = [users EXCEPT ![id[r]] = Defined(newUsers[r], @)]
<1>1. CASE Commit(r) \/ LateCommit(r)
  BY <1>1 DEF LocalInv, StageInv, TransactionInv, WriteStages, InTransaction,
              Commit, LateCommit, InstallVersions
<1>2. CASE GetAllRows(r) \/ GetAllCount(r) \/ GetById(r) \/ FindAuth(r)
           \/ FindUsers(r) \/ ReturnMissing(r) \/ ReturnReadonly(r)
           \/ PassCheck(r) \/ Connect(r) \/ Begin(r)
  BY <1>2
  DEF GetAllRows, GetAllCount, GetById, FindAuth, FindUsers, ReturnMissing,
      ReturnReadonly, PassCheck, Connect, Begin
<1>3. CASE InsertAuth(r) \/ InsertUsers(r) \/ DeleteAuth(r) \/ DeleteUsers(r)
           \/ SelectAuth(r) \/ WriteAuth(r) \/ SelectUsers(r) \/ WriteUsers(r)
  BY <1>3
  DEF InsertAuth, InsertUsers, DeleteAuth, DeleteUsers, SelectAuth, WriteAuth,
      SelectUsers, WriteUsers
<1>4. CASE Rollback(r) \/ Release(r) \/ FindBroken(r) \/ Take(r) \/ Reap(r)
           \/ \E c \in Calls : Call(r, c)
  BY <1>4
  DEF Rollback, Release, FindBroken, Take, Reap, Call, CallCreate, CallOther
<1>5. CASE Fault(r)
  BY <1>5
  DEF Fault, QueryFails, CountFails, StatementFails, LoseConnection, LoseCommit
<1>6. QED
  BY <1>1, <1>2, <1>3, <1>4, <1>5 DEF Act, Statement, Server

\* The tables change when a transaction commits, now or behind the back of
\* its caller, and at no other time.
LEMMA ChangeIsCommit ==
  ASSUME NEW r \in Caller, Act(r), ~UNCHANGED tables
  PROVE  Commit(r) \/ LateCommit(r)
  BY DEF Act, Call, CallCreate, CallOther, Take, Statement, GetAllRows,
         GetAllCount, GetById, FindAuth, FindUsers, ReturnMissing,
         ReturnReadonly, PassCheck, Connect, Begin, InsertAuth, InsertUsers,
         DeleteAuth, DeleteUsers, SelectAuth, WriteAuth, SelectUsers,
         WriteUsers, Rollback, Release, FindBroken, Fault, QueryFails,
         CountFails, StatementFails, LoseConnection, LoseCommit, Server, Reap

\* A row of which a caller holds a version is changed by no other caller.
LEMMA LockedRows ==
  ASSUME TypeOK, LocalInv, RowLockInv, UsersLockInv,
         NEW r \in Caller, NEW q \in Caller \ {r}, Act(r)
  PROVE  /\ newAuth[q] # None => auth'[id[q]] = auth[id[q]]
         /\ newUsers[q] # None => users'[id[q]] = users[id[q]]
<1>1. newAuth[q] # None \/ newUsers[q] # None => id[q] \in Id
  BY DEF LocalInv, TransactionInv
<1>2. QED
  BY <1>1, ActTables
  DEF TypeOK, RowLockInv, UsersLockInv, Defined, tables

-----------------------------------------------------------------------------
(***************************************************************************)
(* The invariant StoreInv.                                                 *)
(***************************************************************************)

\* Of what is left of a call, another caller's step changes nothing.
LEMMA OthersCall ==
  ASSUME IInv, NEW r \in Caller, NEW q \in Caller \ {r}, Act(r), CallInv(q)
  PROVE  CallInv(q)'
<1>1. Mine(q)' = Mine(q)
  BY Frame DEF IInv
<1>2. /\ pc'[q] = pc[q] /\ arg'[q] = arg[q] /\ id'[q] = id[q]
      /\ ret'[q] = ret[q] /\ rows'[q] = rows[q]
      /\ authRow'[q] = authRow[q] /\ usersRow'[q] = usersRow[q]
  BY <1>1 DEF Mine
<1>3. \A row \in rows[q] : row.auth # None =>
        /\ auth'[row.id] # None
        /\ row.auth.username = auth'[row.id].username
        /\ row.auth.salt = auth'[row.id].salt
  BY RowsStay, NextIsAct DEF IInv, TypeOK, JoinedRow, CallInv
<1>4. QED
  BY <1>2, <1>3 DEF CallInv

\* Nor does it change how far the call's transaction has got.
LEMMA OthersProgress ==
  ASSUME IInv, UsersLockInv, NEW r \in Caller, NEW q \in Caller \ {r}, Act(r),
         ProgressInv(q)
  PROVE  ProgressInv(q)'
<1>1. Mine(q)' = Mine(q)
  BY Frame DEF IInv
<1>2. /\ pc'[q] = pc[q] /\ arg'[q] = arg[q] /\ id'[q] = id[q]
      /\ conn'[q] = conn[q]
      /\ newAuth'[q] = newAuth[q] /\ newUsers'[q] = newUsers[q]
  BY <1>1 DEF Mine
<1>3. /\ newAuth[q] # None => auth'[id[q]] = auth[id[q]]
      /\ newUsers[q] # None => users'[id[q]] = users[id[q]]
  BY LockedRows DEF IInv
<1>4. id[q] \in Id /\ auth[id[q]] # None => auth'[id[q]] # None
  BY RowsStay, NextIsAct DEF IInv
<1>5. SUFFICES ASSUME pc[q] \in InTransaction, conn[q] = "up"
               PROVE  ProgressInv(q)'
  BY <1>2 DEF ProgressInv
<1>6. /\ id[q] \in Id /\ authRow[q] # None /\ usersRow[q] # None
      /\ arg[q].op \in {"update", "delete"} =>
           auth[id[q]] \in AuthEntity /\ users[id[q]] \in UsersEntity
  BY <1>5 DEF IInv, TypeOK, LocalInv, EntityInv, StageInv, WriteStages
<1>7. CASE arg[q].op = "create"
  BY <1>2, <1>5, <1>7 DEF ProgressInv
<1>8. CASE arg[q].op = "delete"
  <2>1. /\ SoftDelete(auth[id[q]]) # None
        /\ SoftDelete(users[id[q]]) # None
    BY <1>6, <1>8, SoftDeletedAuth, SoftDeletedUsers
  <2>2. QED
    BY <1>2, <1>3, <1>5, <1>8, <2>1 DEF ProgressInv
<1>9. CASE arg[q].op = "update"
  BY <1>2, <1>3, <1>4, <1>5, <1>6, <1>9 DEF ProgressInv, Updates
<1>10. QED
  BY <1>2, <1>7, <1>8, <1>9 DEF ProgressInv

\* Nor what a transaction in doubt will do.
LEMMA OthersDoubt ==
  ASSUME IInv, UsersLockInv, NEW r \in Caller, NEW q \in Caller \ {r}, Act(r),
         DoubtInv(q)
  PROVE  DoubtInv(q)'
<1>1. Mine(q)' = Mine(q)
  BY Frame DEF IInv
<1>2. /\ tx'[q] = tx[q] /\ id'[q] = id[q]
      /\ pc'[q] = pc[q] /\ arg'[q] = arg[q]
      /\ newAuth'[q] = newAuth[q] /\ newUsers'[q] = newUsers[q]
  BY <1>1 DEF Mine
<1>3. /\ newAuth[q] # None => auth'[id[q]] = auth[id[q]]
      /\ newUsers[q] # None => users'[id[q]] = users[id[q]]
  BY LockedRows DEF IInv
<1>4. SUFFICES ASSUME tx[q] = "inDoubt", NEW c \in Calls, Outcome(q, c)
               PROVE  Outcome(q, c)'
  BY <1>2 DEF DoubtInv
<1>5. id[q] \in Id
  BY <1>4 DEF IInv, LocalInv, TransactionInv
<1>6. auth[id[q]] # None => auth'[id[q]] # None
  BY <1>5, RowsStay, NextIsAct DEF IInv
<1>7. CASE c.op = "create"
  <2>1. NewAuth(c) # None
    BY <1>7, NewEntities
  <2>2. QED
    BY <1>2, <1>3, <1>4, <1>7, <2>1 DEF Outcome
<1>8. CASE c.op = "delete"
  <2>1. auth[id[q]] \in AuthEntity /\ users[id[q]] \in UsersEntity
    BY <1>4, <1>5, <1>8 DEF IInv, TypeOK, RowInv, CreatedTogether, Outcome
  <2>2. /\ SoftDelete(auth[id[q]]) # None
        /\ SoftDelete(users[id[q]]) # None
    BY <2>1, SoftDeletedAuth, SoftDeletedUsers
  <2>3. QED
    BY <1>2, <1>3, <1>4, <1>8, <2>2 DEF Outcome
<1>9. CASE c.op = "update"
  BY <1>2, <1>3, <1>4, <1>6, <1>9 DEF Outcome, Updates
<1>10. QED
  BY <1>4, <1>7, <1>8, <1>9 DEF Outcome

\* A caller's own step leaves of its call what the stage it reaches needs.
LEMMA OwnCall ==
  ASSUME TypeOK, LocalInv, RowInv, Next, NEW r \in Caller, Act(r), CallInv(r)
  PROVE  CallInv(r)'
<1>1. CASE \E c \in Calls : Call(r, c)
  BY <1>1
  DEF TypeOK, CallInv, Call, CallCreate, CallOther, FirstStage, Goto, tables
<1>2. CASE Take(r)
  BY <1>2
  DEF TypeOK, BeforeCommit, InTransaction, CallInv, Take, Goto, tables
<1>3. CASE GetAllRows(r) \/ GetAllCount(r) \/ GetById(r) \/ FindAuth(r) \/
           FindUsers(r)
  BY <1>3
  DEF TypeOK, BeforeCommit, InTransaction, CallInv, GetAllRows, GetAllCount,
      GetById, FindAuth, FindUsers, Find, Return, Forget, Goto, tables
<1>4. CASE ReturnMissing(r) \/ ReturnReadonly(r) \/ PassCheck(r)
  BY <1>4
  DEF TypeOK, LocalInv, StageInv, FindStages, CallInv, ReturnMissing,
      ReturnReadonly, PassCheck, Return, Forget, Goto, tables, memory
<1>5. CASE Connect(r) \/ Begin(r)
  BY <1>5
  DEF TypeOK, BeforeCommit, CallInv, Connect, Begin, AfterBegin, AfterAuth,
      Goto, tables, memory
<1>6. CASE InsertAuth(r) \/ DeleteAuth(r) \/ WriteAuth(r)
  BY <1>6
  DEF TypeOK, BeforeCommit, InTransaction, CallInv, InsertAuth, DeleteAuth,
      WriteAuth, PutAuth, AfterAuth, Abort, Goto, tables, memory
<1>7. CASE InsertUsers(r) \/ DeleteUsers(r) \/ WriteUsers(r)
  BY <1>7
  DEF TypeOK, BeforeCommit, InTransaction, CallInv, InsertUsers, DeleteUsers,
      WriteUsers, PutUsers, Goto, tables, memory
<1>8. CASE SelectAuth(r) \/ SelectUsers(r)
  BY <1>8
  DEF TypeOK, BeforeCommit, InTransaction, CallInv, SelectAuth, SelectUsers,
      AfterAuth, Goto, tables
<1>9. CASE Commit(r) \/ Rollback(r) \/ Release(r)
  <2>1. \A row \in rows[r] : row.auth # None =>
          /\ auth'[row.id] # None
          /\ row.auth.username = auth'[row.id].username
          /\ row.auth.salt = auth'[row.id].salt
    BY RowsStay DEF TypeOK, JoinedRow, CallInv
  <2>2. QED
    BY <1>9, <2>1
    DEF TypeOK, BeforeCommit, InTransaction, CallInv, Commit, Rollback,
        Release, Return, Forget, Goto, memory
<1>10. CASE QueryFails(r) \/ CountFails(r) \/ StatementFails(r)
  BY <1>10
  DEF TypeOK, BeforeCommit, InTransaction, CallInv, QueryFails, CountFails,
      StatementFails, Abort, Return, Forget, Goto, tables, memory
<1>11. CASE LoseConnection(r) \/ LoseCommit(r) \/ FindBroken(r)
  BY <1>11
  DEF TypeOK, BeforeCommit, InTransaction, CallInv, LoseConnection, LoseCommit,
      FindBroken, Return, Forget, Goto, tables, memory
<1>12. CASE Server(r)
  <2>1. \A row \in rows[r] : row.auth # None =>
          /\ auth'[row.id] # None
          /\ row.auth.username = auth'[row.id].username
          /\ row.auth.salt = auth'[row.id].salt
    BY RowsStay DEF TypeOK, JoinedRow, CallInv
  <2>2. QED
    BY <1>12, <2>1 DEF TypeOK, CallInv, Server, Reap, LateCommit, ForgetId
<1>13. QED
  BY <1>1, <1>2, <1>3, <1>4, <1>5, <1>6, <1>7, <1>8, <1>9,
     <1>10, <1>11, <1>12
  DEF Act, Statement, Fault

\* Two transactions never come to hold versions of one row of users.
LEMMA UsersLockStep ==
  ASSUME TypeOK, LocalInv, UsersLockInv, NEW r \in Caller, Act(r)
  PROVE  UsersLockInv'
<1>1. CASE \E c \in Calls : Call(r, c)
  BY <1>1
  DEF TypeOK, LocalInv, TransactionInv, UsersLockInv, Call, CallCreate,
      CallOther, server
<1>2. CASE Take(r)
  BY <1>2 DEF LocalInv, TransactionInv, UsersLockInv, Take, server
<1>3. CASE GetAllRows(r) \/ GetAllCount(r) \/ GetById(r) \/ FindAuth(r) \/
           FindUsers(r)
  BY <1>3
  DEF UsersLockInv, GetAllRows, GetAllCount, GetById, FindAuth, FindUsers,
      Return, server
<1>4. CASE ReturnMissing(r) \/ ReturnReadonly(r) \/ PassCheck(r)
  BY <1>4
  DEF UsersLockInv, ReturnMissing, ReturnReadonly, PassCheck, Return, server,
      memory
<1>5. CASE Connect(r) \/ Begin(r)
  BY <1>5 DEF UsersLockInv, Connect, Begin, server, memory
<1>6. CASE InsertAuth(r) \/ DeleteAuth(r) \/ WriteAuth(r)
  BY <1>6
  DEF TypeOK, UsersLockInv, InsertAuth, DeleteAuth, WriteAuth, PutAuth, Abort,
      DropVersions, memory
<1>7. CASE InsertUsers(r) \/ DeleteUsers(r) \/ WriteUsers(r)
  BY <1>7
  DEF TypeOK, UsersLockInv, UsersLocked, InsertUsers, DeleteUsers, WriteUsers,
      PutUsers, memory
<1>8. CASE SelectAuth(r) \/ SelectUsers(r)
  BY <1>8 DEF UsersLockInv, SelectAuth, SelectUsers, server
<1>9. CASE Commit(r) \/ Rollback(r) \/ Release(r)
  BY <1>9
  DEF TypeOK, UsersLockInv, Commit, Rollback, Release, InstallVersions,
      DropVersions, Return, server, memory
<1>10. CASE QueryFails(r) \/ CountFails(r) \/ StatementFails(r)
  BY <1>10
  DEF TypeOK, UsersLockInv, QueryFails, CountFails, StatementFails, Abort,
      DropVersions, Return, server, memory
<1>11. CASE LoseConnection(r) \/ LoseCommit(r) \/ FindBroken(r)
  BY <1>11
  DEF UsersLockInv, LoseConnection, LoseCommit, FindBroken, Return, server,
      memory
<1>12. CASE Server(r)
  BY <1>12
  DEF TypeOK, UsersLockInv, Server, Reap, LateCommit, InstallVersions,
      DropVersions, ForgetId
<1>13. QED
  BY <1>1, <1>2, <1>3, <1>4, <1>5, <1>6, <1>7, <1>8, <1>9,
     <1>10, <1>11, <1>12
  DEF Act, Statement, Fault

\* A statement of a transaction writes the version its call asks for.
LEMMA OwnProgress ==
  ASSUME IInv, NEW r \in Caller, Act(r), CallInv(r), ProgressInv(r)
  PROVE  ProgressInv(r)'
<1>1. CASE \E c \in Calls : Call(r, c)
  BY <1>1
  DEF LocalInv, TransactionInv, IInv, ProgressInv, Call, CallCreate, CallOther
<1>2. CASE Take(r)
  BY <1>2 DEF LocalInv, TransactionInv, IInv, ProgressInv, Take
<1>3. CASE GetAllRows(r) \/ GetAllCount(r) \/ GetById(r) \/ FindAuth(r) \/
           FindUsers(r)
  BY <1>3
  DEF LocalInv, StageInv, TransactionInv, FindStages, IInv, ProgressInv,
      GetAllRows, GetAllCount, GetById, FindAuth, FindUsers, Return
<1>4. CASE ReturnMissing(r) \/ ReturnReadonly(r) \/ PassCheck(r)
  BY <1>4
  DEF LocalInv, TransactionInv, FindStages, IInv, ProgressInv, ReturnMissing,
      ReturnReadonly, PassCheck
<1>5. CASE Connect(r) \/ Begin(r)
  <2>1. pc'[r] \in InTransaction =>
          /\ Begin(r) /\ id'[r] = id[r] /\ UNCHANGED <<tables, arg>>
          /\ newAuth'[r] = None /\ newUsers'[r] = None
    BY <1>5
    DEF IInv, TypeOK, LocalInv, TransactionInv, InTransaction, Connect, Begin,
        Goto
  <2>2. /\ arg[r].op = "create" => AfterBegin(arg[r]) = "insertAuth"
        /\ arg[r].op = "delete" => AfterBegin(arg[r]) = "deleteAuth"
    BY DEF AfterBegin
  <2>3. Begin(r) => pc'[r] = AfterBegin(arg[r])
    BY DEF IInv, TypeOK, Begin, Goto
  <2>4. arg[r].op = "update" /\ Begin(r) => auth[id[r]] # None
    BY DEF IInv, LocalInv, EntityInv, WriteStages, Begin
  <2>5. QED
    BY <2>1, <2>2, <2>3, <2>4 DEF ProgressInv, Updates, tables
<1>6. CASE InsertAuth(r) \/ DeleteAuth(r) \/ WriteAuth(r)
  <2>1. /\ id[r] \in Id /\ authRow[r] # None /\ pc[r] \in InTransaction
        /\ UNCHANGED <<tables, conn, arg, id>> /\ conn[r] = "up"
    BY <1>6
    DEF IInv, LocalInv, EntityInv, StageInv, WriteStages, InTransaction,
        InsertAuth, DeleteAuth, WriteAuth, memory
  <2>2. CASE pc'[r] = "rollback"
    BY <2>2 DEF ProgressInv, InTransaction
  <2>3. CASE InsertAuth(r) /\ pc'[r] # "rollback"
    <3>1. arg[r].op = "create" /\ authRow[r] = NewAuth(arg[r])
      BY <2>3
      DEF IInv, LocalInv, StageInv, CallInv, BeforeCommit, InTransaction,
          InsertAuth
    <3>2. newAuth'[r] = NewAuth(arg[r]) /\ pc'[r] = "insertUsers"
      BY <2>3, <3>1
      DEF IInv, TypeOK, InsertAuth, PutAuth, Abort, AfterAuth, Goto
    <3>3. QED
      BY <2>1, <3>1, <3>2 DEF ProgressInv
  <2>4. CASE DeleteAuth(r) /\ pc'[r] # "rollback"
    <3>1. arg[r].op = "delete"
      BY <2>4 DEF IInv, LocalInv, StageInv, DeleteAuth
    <3>2. /\ newAuth'[r] = SoftDelete(auth[id[r]])
          /\ pc'[r] = "deleteUsers"
      BY <2>4, <3>1
      DEF IInv, TypeOK, DeleteAuth, PutAuth, Abort, AfterAuth, Goto
    <3>3. QED
      BY <2>1, <3>1, <3>2 DEF ProgressInv, tables
  <2>5. CASE WriteAuth(r) /\ pc'[r] # "rollback"
    <3>1. arg[r].op = "update" /\ ChangesAuth(arg[r])
      BY <2>5 DEF IInv, LocalInv, StageInv, CallInv, WriteAuth
    <3>2. PICK row \in AuthEntity :
            /\ PutAuth(r, row)
            /\ row.deleted => auth[id[r]].deleted
      <4>1. ~InsertAuth(r)
        BY <2>5 DEF InsertAuth, WriteAuth
      <4>2. QED
        BY <2>5, <4>1, RowPut DEF IInv
    <3>3. newAuth'[r] = row /\ newUsers'[r] = newUsers[r]
      BY <2>5, <3>2 DEF IInv, TypeOK, PutAuth, Abort, Goto
    <3>4. Updates(r, arg[r])
      BY <2>1, <3>1 DEF ProgressInv
    <3>5. Updates(r, arg[r])'
      BY <2>1, <3>1, <3>2, <3>3, <3>4 DEF Updates, tables
    <3>6. QED
      BY <2>1, <3>1, <3>5 DEF ProgressInv
  <2>6. QED
    BY <1>6, <2>2, <2>3, <2>4, <2>5
<1>7. CASE InsertUsers(r) \/ DeleteUsers(r) \/ WriteUsers(r)
  <2>1. /\ id[r] \in Id /\ usersRow[r] \in UsersEntity
        /\ pc[r] \in InTransaction /\ conn[r] = "up"
        /\ UNCHANGED <<tables, conn, arg, id, newAuth>>
        /\ pc'[r] = "commit"
    BY <1>7
    DEF IInv, TypeOK, LocalInv, EntityInv, StageInv, WriteStages, InTransaction,
        InsertUsers, DeleteUsers, WriteUsers, PutUsers, Goto, memory
  <2>2. CASE InsertUsers(r)
    <3>1. /\ arg[r].op = "create" /\ usersRow[r] = NewUsers(arg[r])
          /\ newAuth[r] = NewAuth(arg[r])
      BY <2>1, <2>2
      DEF IInv, LocalInv, StageInv, CallInv, ProgressInv, BeforeCommit,
          InsertUsers
    <3>2. newUsers'[r] = NewUsers(arg[r])
      BY <2>2, <3>1 DEF IInv, TypeOK, InsertUsers, PutUsers
    <3>3. QED
      BY <2>1, <3>1, <3>2 DEF ProgressInv
  <2>3. CASE DeleteUsers(r)
    <3>1. /\ arg[r].op = "delete"
          /\ newAuth[r] = SoftDelete(auth[id[r]])
      BY <2>1, <2>3 DEF IInv, LocalInv, StageInv, ProgressInv, DeleteUsers
    <3>2. newUsers'[r] = SoftDelete(users[id[r]])
      BY <2>3, <3>1 DEF IInv, TypeOK, DeleteUsers, PutUsers
    <3>3. QED
      BY <2>1, <3>1, <3>2 DEF ProgressInv, tables
  <2>4. CASE WriteUsers(r)
    <3>1. /\ arg[r].op = "update" /\ ChangesUsers(arg[r])
          /\ Updates(r, arg[r]) /\ ~usersRow[r].deleted
          /\ users[id[r]] \in UsersEntity
      BY <2>1, <2>4
      DEF IInv, TypeOK, LocalInv, StageInv, EntityInv, CallInv, ProgressInv,
          WriteUsers
    <3>2. PICK row \in UsersEntity :
            /\ newUsers' = [newUsers EXCEPT ![r] = row]
            /\ row.deleted => users[id[r]].deleted
      <4>1. LET row == UpdateColumns(users[id[r]], usersRow[r], columns[r])
            IN row \in UsersEntity /\ (row.deleted => users[id[r]].deleted)
        BY <2>1, <3>1, UpdateUsersColumns
      <4>2. newUsers' = [newUsers EXCEPT ![r] =
                UpdateColumns(users[id[r]], usersRow[r], columns[r])]
        BY <2>4 DEF WriteUsers, PutUsers
      <4>3. QED
        BY <4>1, <4>2
    <3>3. Updates(r, arg[r])'
      BY <2>1, <3>1, <3>2 DEF Updates, tables
    <3>4. QED
      BY <2>1, <3>1, <3>3 DEF ProgressInv
  <2>5. QED
    BY <1>7, <2>2, <2>3, <2>4
<1>8. CASE SelectAuth(r) \/ SelectUsers(r)
  BY <1>8
  DEF LocalInv, StageInv, InTransaction, IInv, ProgressInv, Updates,
      SelectAuth, SelectUsers, tables, server
<1>9. CASE Commit(r) \/ Rollback(r) \/ Release(r)
  BY <1>9
  DEF TypeOK, InTransaction, IInv, ProgressInv, Commit, Rollback, Release, Goto
<1>10. CASE QueryFails(r) \/ CountFails(r) \/ StatementFails(r)
  BY <1>10
  DEF TypeOK, InTransaction, IInv, ProgressInv, QueryFails, CountFails,
      StatementFails, Abort, Return, Goto
<1>11. CASE LoseConnection(r) \/ LoseCommit(r) \/ FindBroken(r)
  BY <1>11
  DEF LocalInv, StageInv, InTransaction, IInv, ProgressInv, Updates,
      LoseConnection, LoseCommit, FindBroken, Return, tables, server, memory
<1>12. CASE Server(r)
  BY <1>12
  DEF LocalInv, TransactionInv, IInv, ProgressInv, Server, Orphan, Reap,
      LateCommit
<1>13. QED
  BY <1>1, <1>2, <1>3, <1>4, <1>5, <1>6, <1>7, <1>8, <1>9,
     <1>10, <1>11, <1>12
  DEF Act, Statement, Fault

\* A transaction that is about to commit will do what its call asks for.
LEMMA CommitOutcome ==
  ASSUME IInv, NEW r \in Caller, CallInv(r), ProgressInv(r),
         pc[r] = "commit", conn[r] = "up"
  PROVE  arg[r] \in Calls /\ Outcome(r, arg[r])
<1>1. /\ arg[r].op \in {"create", "update", "delete"}
      /\ authRow[r] # None
  BY DEF IInv, LocalInv, StageInv, EntityInv, WriteStages, InTransaction
<1>2. /\ arg[r] \in Calls
      /\ arg[r].op \in {"update", "delete"} => arg[r].id = id[r]
  BY DEF CallInv
<1>3. arg[r].op = "create" => auth[id[r]] = None
  BY DEF IInv, CreatorInv, BeforeCommit, InTransaction
<1>4. arg[r].op \in {"update", "delete"} => auth[id[r]] # None
  BY <1>1 DEF IInv, LocalInv, EntityInv
<1>5. QED
  BY <1>1, <1>2, <1>3, <1>4 DEF ProgressInv, Outcome, InTransaction

\* A commit falls in doubt only on its way, and its transaction stays as it is.
LEMMA FallsInDoubt ==
  ASSUME IInv, NEW r \in Caller, Act(r), tx'[r] = "inDoubt"
  PROVE  \/ LoseCommit(r)
         \/ /\ tx[r] = "inDoubt" /\ UNCHANGED tables /\ id'[r] = id[r]
            /\ newAuth'[r] = newAuth[r] /\ newUsers'[r] = newUsers[r]
            /\ pc'[r] # "idle" => pc[r] # "idle" /\ arg'[r] = arg[r]
<1>1. CASE \E c \in Calls : Call(r, c)
  BY <1>1 DEF Call, CallCreate, CallOther, server
<1>2. CASE Take(r)
  BY <1>2 DEF IInv, TypeOK, Take, Goto, server
<1>3. CASE GetAllRows(r) \/ GetAllCount(r) \/ GetById(r) \/ FindAuth(r) \/
           FindUsers(r)
  BY <1>3
  DEF GetAllRows, GetAllCount, GetById, FindAuth, FindUsers, Return, server
<1>4. CASE ReturnMissing(r) \/ ReturnReadonly(r) \/ PassCheck(r)
  BY <1>4 DEF ReturnMissing, ReturnReadonly, PassCheck, Return, server, memory
<1>5. CASE Connect(r) \/ Begin(r)
  BY <1>5 DEF IInv, TypeOK, Connect, Begin, server, memory
<1>6. CASE InsertAuth(r) \/ DeleteAuth(r) \/ WriteAuth(r)
  BY <1>6
  DEF IInv, TypeOK, LocalInv, TransactionInv, InsertAuth, DeleteAuth,
      WriteAuth, PutAuth, Abort
<1>7. CASE InsertUsers(r) \/ DeleteUsers(r) \/ WriteUsers(r)
  BY <1>7
  DEF IInv, LocalInv, TransactionInv, InsertUsers, DeleteUsers, WriteUsers,
      PutUsers
<1>8. CASE SelectAuth(r) \/ SelectUsers(r)
  BY <1>8 DEF SelectAuth, SelectUsers, server
<1>9. CASE Commit(r) \/ Rollback(r) \/ Release(r)
  BY <1>9
  DEF IInv, TypeOK, Commit, Rollback, Release, InstallVersions, Return, server,
      memory
<1>10. CASE QueryFails(r) \/ CountFails(r) \/ StatementFails(r)
  BY <1>10
  DEF IInv, TypeOK, QueryFails, CountFails, StatementFails, Abort, Return,
      server
<1>11. CASE LoseConnection(r) \/ LoseCommit(r) \/ FindBroken(r)
  BY <1>11 DEF InTransaction, LoseConnection, FindBroken, Return, server, memory
<1>12. CASE Server(r)
  BY <1>12 DEF IInv, TypeOK, Server, Reap, LateCommit, InstallVersions
<1>13. QED
  BY <1>1, <1>2, <1>3, <1>4, <1>5, <1>6, <1>7, <1>8, <1>9,
     <1>10, <1>11, <1>12
  DEF Act, Statement, Fault

\* A transaction in doubt is still the one that some call asked for.
LEMMA OwnDoubt ==
  ASSUME IInv, NEW r \in Caller, Act(r), CallInv(r), ProgressInv(r), DoubtInv(r)
  PROVE  DoubtInv(r)'
<1>1. CASE LoseCommit(r)
  <2>1. arg[r] \in Calls /\ Outcome(r, arg[r])
    BY <1>1, CommitOutcome DEF LoseCommit
  <2>2. Outcome(r, arg[r])'
    BY <1>1, <2>1 DEF LoseCommit, Outcome, Updates, tables, memory
  <2>3. "connection" \in Faults /\ arg' = arg
    BY <1>1 DEF LoseCommit, memory
  <2>4. QED
    BY <2>1, <2>2, <2>3 DEF DoubtInv
<1>2. CASE ~LoseCommit(r)
  BY <1>2, FallsInDoubt DEF DoubtInv, Outcome, Updates, tables
<1>3. QED
  BY <1>1, <1>2

\* A crash leaves the transactions to the server, and in doubt those of
\* which the COMMIT may have been received.
LEMMA CrashStore == IInv /\ StoreInv /\ Crash => StoreInv'
<1>1. SUFFICES ASSUME IInv, StoreInv, Crash
               PROVE  StoreInv'
  OBVIOUS
<1>2. UsersLockInv'
  BY <1>1 DEF IInv, LocalInv, TransactionInv, StoreInv, UsersLockInv, Crash
<1>3. ASSUME NEW q \in Caller
      PROVE  CallInv(q)' /\ ProgressInv(q)'
  BY <1>1
  DEF Crash, CallInv, ProgressInv, BeforeCommit, InTransaction
<1>4. ASSUME NEW q \in Caller
      PROVE  DoubtInv(q)'
  <2>1. CASE pc[q] = "commit" /\ conn[q] = "up"
    <3>1. arg[q] \in Calls /\ Outcome(q, arg[q])
      BY <1>1, <2>1, CommitOutcome DEF StoreInv
    <3>2. id'[q] = id[q]
      BY <1>1, <2>1
      DEF IInv, LocalInv, TransactionInv, InTransaction, Crash
    <3>3. PICK c \in Calls : Outcome(q, c)
      BY <3>1
    <3>4. Outcome(q, c)'
      BY <1>1, <3>2, <3>3 DEF Crash, Outcome, Updates, tables
    <3>5. QED
      BY <1>1, <3>4 DEF Crash, DoubtInv
  <2>2. CASE ~(pc[q] = "commit" /\ conn[q] = "up")
    BY <1>1, <2>2 DEF StoreInv, DoubtInv, Crash, Outcome, Updates, tables
  <2>3. QED
    BY <2>1, <2>2
<1>5. QED
  BY <1>2, <1>3, <1>4 DEF StoreInv

\* No transaction at all: the invariant holds of the tables the migrations
\* leave.
LEMMA InitStoreInv == Init => StoreInv
  BY DEF Init, StoreInv, UsersLockInv, CallInv, ProgressInv, DoubtInv,
         BeforeCommit, InTransaction

\* Every step keeps the invariant.
LEMMA NextStoreInv == IInv /\ StoreInv /\ [Next]_vars => StoreInv'
<1>1. ASSUME IInv, StoreInv, NEW r \in Caller, Act(r)
      PROVE  StoreInv'
  <2>1. UsersLockInv'
    BY <1>1, UsersLockStep DEF IInv, StoreInv
  <2>2. ASSUME NEW q \in Caller \ {r}
        PROVE  CallInv(q)' /\ ProgressInv(q)' /\ DoubtInv(q)'
    BY <1>1, OthersCall, OthersProgress, OthersDoubt DEF StoreInv
  <2>3. CallInv(r)' /\ ProgressInv(r)' /\ DoubtInv(r)'
    BY <1>1, NextIsAct, OwnCall, OwnProgress, OwnDoubt DEF IInv, StoreInv
  <2>4. QED
    BY <2>1, <2>2, <2>3 DEF StoreInv
<1>2. ASSUME IInv, StoreInv, UNCHANGED vars
      PROVE  StoreInv'
  BY <1>2
  DEF StoreInv, UsersLockInv, CallInv, ProgressInv, DoubtInv, Outcome, Updates,
      vars, tables, server, memory
<1>3. QED
  BY <1>1, <1>2, CrashStore, NextIsAct

\* Whatever is called, and whatever fails, a transaction that may still commit
\* does what one of the calls asks for, and to rows that no other transaction
\* can change meanwhile.
THEOREM StoreInvariance == Spec => []StoreInv
  BY Invariance, InitStoreInv, NextStoreInv, PTL DEF Spec

-----------------------------------------------------------------------------
(***************************************************************************)
(* What a step may do to the tables.                                       *)
(***************************************************************************)

\* A transaction that changes the tables does what a call asks for, and ends:
\* the call its caller still waits for, or one of which the process has let go.
LEMMA EffectStep ==
  ASSUME IInv, StoreInv, Next
  PROVE  \/ UNCHANGED tables
         \/ \E r \in Caller, c \in Calls :
              /\ id[r] \in Id
              /\ auth' = [auth EXCEPT ![id[r]] = Defined(newAuth[r], @)]
              /\ users' = [users EXCEPT ![id[r]] = Defined(newUsers[r], @)]
              /\ Outcome(r, c)
              /\ tx[r] \in {"active", "inDoubt"} /\ tx'[r] = "none"
              /\ c = arg[r] \/ (arg[r] = NoCall /\ tx[r] = "inDoubt")
<1>1. SUFFICES ASSUME ~UNCHANGED tables
               PROVE  \E r \in Caller, c \in Calls :
                        /\ id[r] \in Id
                        /\ auth' = [auth EXCEPT ![id[r]] = Defined(newAuth[r], @)]
                        /\ users' = [users EXCEPT ![id[r]] = Defined(newUsers[r], @)]
                        /\ Outcome(r, c)
                        /\ tx[r] \in {"active", "inDoubt"} /\ tx'[r] = "none"
                        /\ c = arg[r] \/ (arg[r] = NoCall /\ tx[r] = "inDoubt")
  OBVIOUS
<1>2. ~Crash
  BY <1>1 DEF Crash
<1>3. PICK r \in Caller : Act(r)
  BY <1>2, NextIsAct
<1>4. Commit(r) \/ LateCommit(r)
  BY <1>1, <1>3, ChangeIsCommit
<1>5. /\ id[r] \in Id
      /\ auth' = [auth EXCEPT ![id[r]] = Defined(newAuth[r], @)]
      /\ users' = [users EXCEPT ![id[r]] = Defined(newUsers[r], @)]
  BY <1>1, <1>3, ActTables DEF IInv
<1>6. /\ tx[r] \in {"active", "inDoubt"} /\ tx'[r] = "none"
      /\ tx[r] = "inDoubt" \/ (pc[r] = "commit" /\ conn[r] = "up")
  BY <1>4 DEF Commit, LateCommit, InstallVersions, IInv, TypeOK, LocalInv,
              TransactionInv, InTransaction
<1>7. \E c \in Calls :
        Outcome(r, c) /\ (c = arg[r] \/ (arg[r] = NoCall /\ tx[r] = "inDoubt"))
  <2>1. CASE pc[r] = "commit" /\ conn[r] = "up"
    BY <2>1, CommitOutcome DEF StoreInv
  <2>2. CASE tx[r] = "inDoubt"
    BY <2>2 DEF StoreInv, DoubtInv, CallInv
  <2>3. QED
    BY <1>6, <2>1, <2>2
<1>8. QED
  BY <1>5, <1>6, <1>7

\* The row that is left of the two: a create() and a delete() write both rows
\* alike, an update() never marks a row deleted.
LEMMA OutcomeMarks ==
  ASSUME IInv, NEW r \in Caller, NEW c \in Calls, Outcome(r, c), id[r] \in Id
  PROVE  LET a == Defined(newAuth[r], auth[id[r]])
             u == Defined(newUsers[r], users[id[r]])
         IN /\ c.op = "create" => /\ ~IsLive(auth[id[r]]) /\ IsLive(a)
                                  /\ ~IsLive(users[id[r]]) /\ IsLive(u)
            /\ c.op = "delete" => ~IsLive(a) /\ ~IsLive(u)
            /\ c.op = "update" => ~Deletes(auth[id[r]], a)
                                  /\ ~Deletes(users[id[r]], u)
<1>1. c \in Arguments
  OBVIOUS
<1>2. CASE c.op = "create"
  <2>1. /\ auth[id[r]] = None /\ users[id[r]] = None
        /\ newAuth[r] = NewAuth(c) /\ newUsers[r] = NewUsers(c)
    BY <1>2 DEF IInv, RowInv, CreatedTogether, Outcome
  <2>2. /\ NewAuth(c) # None /\ ~NewAuth(c).deleted
        /\ NewUsers(c) # None /\ ~NewUsers(c).deleted
    BY <1>1, <1>2, NewEntities
  <2>3. QED
    BY <1>2, <2>1, <2>2 DEF Defined, IsLive
<1>3. CASE c.op = "delete"
  <2>1. /\ newAuth[r] = SoftDelete(auth[id[r]])
        /\ newUsers[r] = SoftDelete(users[id[r]])
        /\ auth[id[r]] \in AuthEntity /\ users[id[r]] \in UsersEntity
    BY <1>3 DEF IInv, TypeOK, RowInv, CreatedTogether, Outcome
  <2>2. /\ newAuth[r] # None /\ newAuth[r].deleted
        /\ newUsers[r] # None /\ newUsers[r].deleted
    BY <2>1, SoftDeletedAuth, SoftDeletedUsers
  <2>3. QED
    BY <1>3, <2>2 DEF Defined, IsLive
<1>4. CASE c.op = "update"
  <2>1. auth[id[r]] # None /\ users[id[r]] # None
    BY <1>4 DEF IInv, RowInv, CreatedTogether, Outcome, Updates
  <2>2. QED
    BY <1>4, <2>1 DEF Outcome, Updates, Defined, IsLive, Deletes
<1>5. QED
  BY <1>2, <1>3, <1>4

\* A step that deletes one of a user's rows leaves both deleted.
THEOREM DeletesBothRows == Spec => DeletesBoth
<1>1. IInv /\ StoreInv /\ [Next]_vars =>
        [\A i \in Id :
           Deletes(auth[i], auth'[i]) \/ Deletes(users[i], users'[i]) =>
             ~IsLive(auth'[i]) /\ ~IsLive(users'[i])]_vars
  <2>1. SUFFICES ASSUME IInv, StoreInv, Next, NEW i \in Id,
                        Deletes(auth[i], auth'[i]) \/ Deletes(users[i], users'[i])
                 PROVE  ~IsLive(auth'[i]) /\ ~IsLive(users'[i])
    OBVIOUS
  <2>2. ~UNCHANGED tables
    BY <2>1 DEF Deletes, tables
  <2>3. PICK r \in Caller, c \in Calls :
          /\ id[r] \in Id /\ Outcome(r, c)
          /\ auth' = [auth EXCEPT ![id[r]] = Defined(newAuth[r], @)]
          /\ users' = [users EXCEPT ![id[r]] = Defined(newUsers[r], @)]
    BY <2>1, <2>2, EffectStep
  <2>4. c.op \in {"create", "delete", "update"}
    BY <2>3 DEF Outcome
  <2>5. QED
    BY <2>1, <2>3, <2>4, OutcomeMarks DEF IInv, TypeOK, Deletes
<1>2. QED
  BY <1>1, Invariance, StoreInvariance, PTL DEF Spec, DeletesBoth

\* Only the COMMIT of an update, or of a call the process has let go of, parts
\* two rows.
THEOREM OnlyUpdatesPartRows == Spec => OnlyUpdatesPart
<1>1. IInv /\ StoreInv /\ [Next]_vars =>
        [\A i \in Id :
           (IsLive(auth[i]) <=> IsLive(users[i])) =>
             \/ IsLive(auth'[i]) <=> IsLive(users'[i])
             \/ \E r \in Caller : UpdateCommits(r, i)]_vars
  <2>1. SUFFICES ASSUME IInv, StoreInv, Next, NEW i \in Id,
                        IsLive(auth[i]) <=> IsLive(users[i]),
                        ~(IsLive(auth'[i]) <=> IsLive(users'[i]))
                 PROVE  \E r \in Caller : UpdateCommits(r, i)
    OBVIOUS
  <2>2. ~UNCHANGED tables
    BY <2>1 DEF tables
  <2>3. PICK r \in Caller, c \in Calls :
          /\ id[r] \in Id /\ Outcome(r, c)
          /\ auth' = [auth EXCEPT ![id[r]] = Defined(newAuth[r], @)]
          /\ users' = [users EXCEPT ![id[r]] = Defined(newUsers[r], @)]
          /\ tx[r] \in {"active", "inDoubt"} /\ tx'[r] = "none"
          /\ c = arg[r] \/ (arg[r] = NoCall /\ tx[r] = "inDoubt")
    BY <2>1, <2>2, EffectStep
  <2>4. id[r] = i
    BY <2>1, <2>3 DEF IInv, TypeOK
  <2>5. c.op \notin {"create", "delete"}
    BY <2>1, <2>3, <2>4, OutcomeMarks DEF IInv, TypeOK
  <2>6. c.op = "update"
    BY <2>3, <2>5 DEF Outcome
  <2>7. NoCall.op = "none"
    BY DEF NoCall
  <2>8. UpdateCommits(r, i)
    BY <2>3, <2>4, <2>6, <2>7 DEF UpdateCommits
  <2>9. QED
    BY <2>8
<1>2. QED
  BY <1>1, Invariance, StoreInvariance, PTL DEF Spec, OnlyUpdatesPart

\* A step for a deleted user finds nothing to bring back.
LEMMA NoRevival ==
  ASSUME IInv, NEW r \in Caller, Act(r), NEW i \in Id, Buried(i)
  PROVE  ~MayRevive(r, i)'
<1>1. CASE id'[r] # i
  BY <1>1 DEF MayRevive
<1>2. CASE id'[r] = i /\ id[r] # i
  <2>1. PICK c \in Calls : Call(r, c)
    BY <1>2
    DEF IInv, TypeOK, Act, Take, Statement, GetAllRows, GetAllCount, GetById,
        FindAuth, FindUsers, ReturnMissing, ReturnReadonly, PassCheck, Connect,
        Begin, InsertAuth, InsertUsers, DeleteAuth, DeleteUsers, SelectAuth,
        WriteAuth, SelectUsers, WriteUsers, Commit, Rollback, Release,
        FindBroken, Fault, QueryFails, CountFails, StatementFails,
        LoseConnection, LoseCommit, Server, Reap, LateCommit, ForgetId, Return,
        memory
  <2>2. /\ newAuth'[r] = None /\ newUsers'[r] = None
        /\ pc[r] = "idle" /\ tx[r] = "none"
    BY <2>1
    DEF IInv, LocalInv, TransactionInv, Call, CallCreate, CallOther, server
  <2>3. CASE CallCreate(r, c)
    BY <1>2, <2>3 DEF IInv, TypeOK, CallCreate, Fresh, Buried
  <2>4. CASE CallOther(r, c)
    BY <2>2, <2>4
    DEF IInv, LocalInv, EntityInv, CallOther, MayRevive, Missing, IsLive
  <2>5. QED
    BY <2>1, <2>3, <2>4 DEF Call
<1>3. CASE id'[r] = i /\ id[r] = i
  <2>1. /\ ~(arg[r].op = "update" /\ ~Missing(r))
        /\ ~IsLive(newAuth[r]) /\ ~IsLive(newUsers[r])
        /\ auth[i] # None /\ auth[i].deleted
        /\ users[i] # None /\ users[i].deleted
    BY <1>3 DEF Buried, MayRevive
  <2>2. pc[r] \in WriteStages => arg[r].op # "update"
    BY <2>1 DEF IInv, LocalInv, EntityInv, Missing
  <2>3. ~(arg'[r].op = "update" /\ ~Missing(r)')
    <3>1. CASE FindAuth(r) \/ FindUsers(r)
      BY <1>3, <2>1, <3>1
      DEF IInv, TypeOK, FindAuth, FindUsers, Find, IsLive, Missing
    <3>2. CASE \E c \in Calls : Call(r, c)
      BY <1>3, <2>1, <3>2
      DEF IInv, TypeOK, LocalInv, EntityInv, Call, CallCreate, CallOther,
          Missing, Fresh
    <3>3. CASE Begin(r)
      BY <2>2, <3>3 DEF Begin, WriteStages
    <3>4. QED
      BY <2>1, <3>1, <3>2, <3>3
      DEF IInv, TypeOK, Act, Take, Statement, GetAllRows, GetAllCount, GetById,
          ReturnMissing, ReturnReadonly, PassCheck, Connect,
          InsertAuth, InsertUsers, DeleteAuth, DeleteUsers, SelectAuth,
          WriteAuth, SelectUsers, WriteUsers, Commit, Rollback, Release,
          FindBroken, Fault, QueryFails, CountFails, StatementFails,
          LoseConnection, LoseCommit, Server, Reap, LateCommit, Return, Forget,
          Missing, NoCall, memory
  <2>4. ~IsLive(newAuth'[r]) /\ ~IsLive(newUsers'[r])
    <3>1. ~(InsertAuth(r) \/ InsertUsers(r))
      BY <1>3, <2>1
      DEF IInv, LocalInv, StageInv, CreatorInv, BeforeCommit, InTransaction,
          InsertAuth, InsertUsers
    <3>2. ~(WriteAuth(r) \/ WriteUsers(r))
      BY <2>2
      DEF IInv, LocalInv, StageInv, WriteStages, InTransaction, WriteAuth,
          WriteUsers
    <3>3. CASE DeleteAuth(r)
      <4>1. SoftDelete(auth[i]).deleted
        <5>1. auth[i] \in AuthEntity
          BY <2>1 DEF IInv, TypeOK
        <5>2. QED
          BY <5>1, SoftDeletedAuth
      <4>2. /\ newAuth'[r] \in {SoftDelete(auth[i]), None}
            /\ newUsers'[r] \in {newUsers[r], None}
        <5>1. PutAuth(r, SoftDelete(auth[i]))
          BY <1>3, <3>3 DEF DeleteAuth
        <5>2. QED
          BY <5>1 DEF IInv, TypeOK, PutAuth, Abort, DropVersions
      <4>3. QED
        BY <2>1, <4>1, <4>2 DEF IsLive
    <3>4. CASE DeleteUsers(r)
      <4>1. SoftDelete(users[i]).deleted
        BY <2>1, SoftDeletedUsers DEF IInv, TypeOK
      <4>2. QED
        BY <1>3, <2>1, <3>4, <4>1
        DEF IInv, TypeOK, DeleteUsers, PutUsers, IsLive
    <3>5. ASSUME ~DeleteAuth(r), ~DeleteUsers(r)
          PROVE  /\ newAuth'[r] \in {newAuth[r], None}
                 /\ newUsers'[r] \in {newUsers[r], None}
      BY <3>1, <3>2, <3>5
      DEF IInv, TypeOK, Act, Take, Statement, GetAllRows, GetAllCount, GetById,
          FindAuth, FindUsers, ReturnMissing, ReturnReadonly, PassCheck,
          Connect, Begin, SelectAuth, SelectUsers, Commit, Rollback, Release,
          FindBroken, Fault, QueryFails, CountFails, StatementFails, Abort,
          LoseConnection, LoseCommit, Server, Reap, LateCommit,
          InstallVersions, DropVersions, Call, CallCreate, CallOther, server
    <3>6. QED
      BY <2>1, <3>3, <3>4, <3>5 DEF IsLive
  <2>5. QED
    BY <2>3, <2>4 DEF MayRevive
<1>4. QED
  BY <1>1, <1>2, <1>3

\* A user that is deleted, and that no update has found before, stays so.
LEMMA BuriedStays ==
  ASSUME IInv, [Next]_vars, NEW i \in Id, Buried(i)
  PROVE  Buried(i)'
<1>1. CASE UNCHANGED vars
  BY <1>1 DEF Buried, MayRevive, Missing, vars, tables, server, memory
<1>2. CASE Crash
  <2>1. UNCHANGED <<tables, newAuth, newUsers>>
    BY <1>2 DEF Crash
  <2>2. \A r \in Caller : id'[r] = i => id[r] = i
    BY <1>2, NoneAssumption DEF Crash
  <2>3. \A r \in Caller : arg'[r].op # "update"
    BY <1>2 DEF Crash, NoCall
  <2>4. QED
    BY <2>1, <2>2, <2>3 DEF Buried, MayRevive, tables
<1>3. ASSUME NEW r \in Caller, Act(r)
      PROVE  Buried(i)'
  <2>1. ~MayRevive(r, i)'
    BY <1>3, NoRevival
  <2>2. ASSUME NEW q \in Caller \ {r}
        PROVE  ~MayRevive(q, i)'
    <3>1. Mine(q)' = Mine(q)
      BY <1>3, Frame DEF IInv
    <3>2. QED
      BY <3>1 DEF Mine, Buried, MayRevive, Missing
  <2>3. id[r] = i => ~IsLive(newAuth[r]) /\ ~IsLive(newUsers[r])
    BY DEF Buried, MayRevive
  <2>4. /\ auth'[i] # None /\ auth'[i].deleted
        /\ users'[i] # None /\ users'[i].deleted
    BY <1>3, <2>3, ActTables
    DEF IInv, TypeOK, Buried, Defined, IsLive, tables
  <2>5. QED
    BY <2>1, <2>2, <2>4 DEF Buried
<1>4. QED
  BY <1>1, <1>2, <1>3, NextIsAct

\* A deletion is final as soon as no update is left that had found the user.
THEOREM DeletedForGood == Spec => DeletionFinal
<1>1. IInv /\ [Next]_vars => [\A i \in Id : Buried(i) => Buried(i)']_vars
  BY BuriedStays
<1>2. QED
  BY <1>1, Invariance, PTL DEF Spec, DeletionFinal

-----------------------------------------------------------------------------
(***************************************************************************)
(* The refinement: the step of UsersStore that a step of the repository is.*)
(***************************************************************************)

\* The operators UsersStore takes from UsersData are the repository's.
LEMMA SameData ==
  /\ Store!NoResult = NoResult /\ Store!NoCall = NoCall
  /\ Store!NoWrite = NoWrite
  /\ \A value, old : Store!Defined(value, old) = Defined(value, old)
  /\ \A kind : Store!Error(kind) = Error(kind)
  /\ \A n : Store!Count(n) = Count(n)
  /\ \A c : Store!NewAuth(c) = NewAuth(c) /\ Store!NewUsers(c) = NewUsers(c)
  /\ \A c : Store!ChangesAuth(c) <=> ChangesAuth(c)
  /\ \A c : Store!ChangesUsers(c) <=> ChangesUsers(c)
  /\ \A row : Store!SoftDelete(row) = SoftDelete(row)
  /\ \A i, a, u : Store!FillModel(i, a, u) = FillModel(i, a, u)
  /\ Store!AuthEntity = AuthEntity /\ Store!UsersEntity = UsersEntity
  BY DEF Store!NoResult, NoResult, Store!NoCall, NoCall, Store!Error, Error,
         Store!NoWrite, NoWrite, Store!Defined, Defined,
         Store!Count, Count, Store!NewAuth, NewAuth, Store!NewUsers, NewUsers,
         Store!ChangesAuth, ChangesAuth, Store!ChangesUsers, ChangesUsers,
         Store!SoftDelete, SoftDelete, Store!FillModel, FillModel,
         Store!AuthEntity, AuthEntity, Store!UsersEntity, UsersEntity,
         Store!Password, Password, Store!UsersRoleEnum, UsersRoleEnum

\* So is the number of elements of a set.
LEMMA SameCardinality == \A S : Store!Cardinality(S) = Cardinality(S)
  BY DEF Store!Cardinality, Cardinality

\* The tables the migrations leave are a store with the administrator alone.
LEMMA InitStore == Init => Store!Init
<1>1. SUFFICES ASSUME Init PROVE Store!Init
  OBVIOUS
<1>2. PICK p \in Secret, s \in Salt :
        auth = [i \in Id |->
                  IF i = AdminId
                  THEN [username |-> AdminName, password |-> Hash(Plain(p), s),
                        salt |-> s, role |-> "admin", deleted |-> FALSE]
                  ELSE None]
  BY <1>1 DEF Init
<1>3. PICK n \in Name :
        users = [i \in Id |->
                   IF i = AdminId
                   THEN [name |-> n, age |-> None, deleted |-> FALSE]
                   ELSE None]
  BY <1>1 DEF Init
<1>4. [username |-> AdminName, password |-> Hash(Plain(p), s),
       salt |-> s, role |-> "admin", deleted |-> FALSE] \in AuthEntity
  BY DEF AuthEntity, Password, Hash, Plain, UsersRoleEnum
<1>5. StoredUsers =
        [i \in Id |->
           IF i = AdminId
           THEN [auth |-> [username |-> AdminName,
                           password |-> Hash(Plain(p), s),
                           salt |-> s, role |-> "admin", deleted |-> FALSE],
                 users |-> [name |-> n, age |-> None, deleted |-> FALSE]]
           ELSE None]
  BY <1>2, <1>3, <1>4 DEF StoredUsers
<1>6. Hash(Plain(p), s) = Store!Hash(Store!Plain(p), s)
  BY DEF Hash, Plain, Store!Hash, Store!Plain
<1>7. /\ arg = [r \in Caller |-> Store!NoCall]
      /\ Decided = [r \in Caller |-> Store!NoResult]
      /\ Left = [r \in Caller |-> Store!NoWrite]
  BY <1>1, SameData DEF Init, Decided, Left
<1>8. QED
  BY <1>5, <1>6, <1>7 DEF Store!Init

\* The user of an id is its two rows, if it has any.
LEMMA Stored ==
  ASSUME IInv, NEW i \in Id
  PROVE  /\ StoredUsers[i] = None <=> auth[i] = None
         /\ auth[i] # None => /\ StoredUsers[i].auth = auth[i]
                             /\ StoredUsers[i].users = users[i]
<1>1. CASE auth[i] = None
  BY <1>1 DEF StoredUsers
<1>2. CASE auth[i] # None
  <2>1. auth[i] \in AuthEntity /\ users[i] \in UsersEntity
    BY <1>2 DEF IInv, TypeOK, RowInv, CreatedTogether
  <2>2. [auth |-> auth[i], users |-> users[i]] \in User
    BY <2>1 DEF User
  <2>3. StoredUsers[i] = [auth |-> auth[i], users |-> users[i]]
    BY <1>2 DEF StoredUsers
  <2>4. QED
    BY <1>2, <2>2, <2>3
<1>3. QED
  BY <1>1, <1>2

\* A username nobody but i has is not taken in the store.
LEMMA NotTaken ==
  ASSUME IInv, NEW i \in Id, NEW name,
         \A j \in Id \ {i} : IsLive(auth[j]) => auth[j].username # name
  PROVE  ~Store!Taken(i, name)
<1>1. SUFFICES ASSUME NEW j \in Id \ {i}, StoredUsers[j] # None,
                      ~StoredUsers[j].auth.deleted,
                      StoredUsers[j].auth.username = name
               PROVE  FALSE
  BY DEF Store!Taken
<1>2. auth[j] # None
  BY <1>1, Stored
<1>3. StoredUsers[j].auth = auth[j]
  BY <1>2, Stored
<1>4. QED
  BY <1>1, <1>2, <1>3 DEF IsLive

\* A write that is the versions of a transaction, or the rows it will leave, is
\* one its call may make.
LEMMA AskedWrite ==
  ASSUME IInv, NEW r \in Caller, NEW c \in Calls, Outcome(r, c), id[r] \in Id,
         NEW x, x \in {newAuth[r], Defined(newAuth[r], auth[id[r]])},
         NEW y, y \in {newUsers[r], Defined(newUsers[r], users[id[r]])},
         NEW w, w = [id |-> id[r], auth |-> x, users |-> y]
  PROVE  /\ Store!Asks(c, w)
         /\ Store!Written(w) =
              [auth |-> Defined(newAuth[r], auth[id[r]]),
               users |-> Defined(newUsers[r], users[id[r]])]
         /\ Defined(newAuth[r], auth[id[r]]) \in AuthEntity
         /\ Defined(newUsers[r], users[id[r]]) \in UsersEntity
<1> DEFINE i == id[r]
           a == Defined(newAuth[r], auth[i])
           u == Defined(newUsers[r], users[i])
<1>1. /\ auth \in [Id -> AuthEntity \union {None}]
      /\ users \in [Id -> UsersEntity \union {None}]
      /\ newAuth[r] \in AuthEntity \union {None}
      /\ newUsers[r] \in UsersEntity \union {None}
  BY DEF IInv, TypeOK
<1>2. a \in AuthEntity /\ u \in UsersEntity
  <2>1. CASE c.op = "create"
    BY <1>1, <2>1, NewEntities DEF Outcome, Defined
  <2>2. CASE c.op \in {"update", "delete"}
    BY <1>1, <2>2 DEF IInv, RowInv, CreatedTogether, Outcome, Updates, Defined
  <2>3. QED
    BY <2>1, <2>2 DEF Outcome
<1>3. w.id = i /\ w.auth = x /\ w.users = y
  OBVIOUS
<1>4. Store!Written(w) = [auth |-> a, users |-> u]
  <2>1. auth[i] # None => /\ StoredUsers[i].auth = auth[i]
                          /\ StoredUsers[i].users = users[i]
    BY Stored
  <2>2. auth[i] = None => users[i] = None
    BY DEF IInv, RowInv, CreatedTogether
  <2>3. Defined(x, StoredUsers[i].auth) = a
    BY <1>2, <2>1 DEF Defined
  <2>4. Defined(y, StoredUsers[i].users) = u
    BY <1>2, <2>1, <2>2 DEF Defined
  <2> HIDE DEF i, a, u
  <2>5. QED
    BY <1>3, <2>3, <2>4, SameData DEF Store!Written
<1>5. IsLive(a) => \A j \in Id \ {i} :
                     IsLive(auth[j]) => auth[j].username # a.username
  BY DEF IInv, ClaimInv, UniqueLiveUsername, IsLive, Defined
<1>6. CASE c.op = "create"
  <2>1. /\ auth[i] = None /\ newAuth[r] = NewAuth(c)
        /\ newUsers[r] = NewUsers(c)
    BY <1>6 DEF Outcome
  <2>2. /\ a = NewAuth(c) /\ u = NewUsers(c)
        /\ IsLive(a) /\ a.username = c.username
    BY <1>6, <2>1, NewEntities DEF Defined, IsLive
  <2>3. StoredUsers[i] = None /\ ~Store!Taken(i, c.username)
    BY <1>5, <2>1, <2>2, Stored, NotTaken
  <2>4. x = NewAuth(c) /\ y = NewUsers(c)
    BY <2>1, <2>2
  <2>5. Store!Inserts(c, w)
    BY <1>3, <1>6, <2>3, <2>4, SameData DEF Store!Inserts
  <2>6. QED
    BY <1>2, <1>3, <1>4, <2>5 DEF Store!Asks
<1>7. CASE c.op = "delete"
  <2>1. /\ c.id = i /\ auth[i] # None
        /\ newAuth[r] = SoftDelete(auth[i])
        /\ newUsers[r] = SoftDelete(users[i])
    BY <1>7 DEF Outcome
  <2>2. auth[i] \in AuthEntity /\ users[i] \in UsersEntity
    BY <1>1, <2>1 DEF IInv, RowInv, CreatedTogether
  <2>3. /\ x = SoftDelete(auth[i]) /\ y = SoftDelete(users[i])
        /\ newAuth[r] # None /\ newAuth[r].deleted
    BY <2>1, <2>2, SoftDeletedAuth, SoftDeletedUsers DEF Defined
  <2>4. i # AdminId
    BY <2>3 DEF IInv, AdminInv
  <2>5. /\ StoredUsers[i] # None
        /\ StoredUsers[i].auth = auth[i] /\ StoredUsers[i].users = users[i]
    BY <2>1, Stored
  <2>6. Store!Deletes(c, w)
    BY <1>3, <1>7, <2>1, <2>3, <2>4, <2>5, SameData DEF Store!Deletes
  <2>7. QED
    BY <1>2, <1>3, <1>4, <2>6 DEF Store!Asks
<1>8. CASE c.op = "update"
  <2>1. c.id = i /\ auth[i] # None /\ Updates(r, c)
    BY <1>8 DEF Outcome, Updates
  <2>2. /\ StoredUsers[i] # None
        /\ StoredUsers[i].auth = auth[i] /\ StoredUsers[i].users = users[i]
    BY <2>1, Stored
  <2>3. /\ ~ChangesAuth(c) => a = auth[i]
        /\ ~ChangesUsers(c) => u = users[i]
        /\ a.deleted => auth[i].deleted
        /\ u.deleted => users[i].deleted
    BY <2>1 DEF Updates, Defined
  <2>4. a.username = auth[i].username /\ a.salt = auth[i].salt
    BY <2>1 DEF IInv, RowInv, VersionInv, Defined
  <2>5. ~a.deleted => ~Store!Taken(i, a.username)
    BY <1>2, <1>5, NotTaken DEF IsLive
  <2>6. i = AdminId => a.role = "admin"
    BY DEF IInv, AdminInv, AdminProtected, Defined
  <2>7. /\ Store!Written(w) \in Store!User
        /\ Store!Written(w).auth = a /\ Store!Written(w).users = u
    <3> HIDE DEF i, a, u
    <3>1. [auth |-> a, users |-> u] \in Store!User
      BY <1>2, SameData DEF Store!User
    <3>2. QED
      BY <1>4, <3>1
  <2>8. Store!Changes(c, w)
    <3> HIDE DEF i, a, u
    <3>1. /\ Store!ChangesAuth(c) <=> ChangesAuth(c)
          /\ Store!ChangesUsers(c) <=> ChangesUsers(c)
      BY SameData
    <3>2. QED
      BY <1>3, <1>8, <2>1, <2>2, <2>3, <2>4, <2>5, <2>6, <2>7, <3>1
      DEF Store!Changes
  <2>9. QED
    BY <1>2, <1>3, <1>4, <2>8 DEF Store!Asks
<1>9. QED
  BY <1>6, <1>7, <1>8 DEF Outcome

\* A COMMIT puts one user into the store.
LEMMA InstalledUser ==
  ASSUME NEW i \in Id, NEW a, NEW u, a # None,
         auth \in [Id -> AuthEntity \union {None}],
         users \in [Id -> UsersEntity \union {None}],
         auth' = [auth EXCEPT ![i] = a], users' = [users EXCEPT ![i] = u]
  PROVE  StoredUsers' = [StoredUsers EXCEPT ![i] = [auth |-> a, users |-> u]]
  BY DEF StoredUsers

-----------------------------------------------------------------------------
(***************************************************************************)
(* What a step leaves alone.                                               *)
(***************************************************************************)

\* The tables, the calls, the answers and what is left are all of the store.
LEMMA StoredSame == UNCHANGED tables => UNCHANGED StoredUsers
  BY DEF tables, StoredUsers

\* A step decides the answer, and leaves the write, of no other caller.
LEMMA DecidedAndLeft ==
  ASSUME IInv, NEW r \in Caller, Act(r)
  PROVE  /\ Decided' = [Decided EXCEPT ![r] = Decided'[r]]
         /\ Left' = [Left EXCEPT ![r] = Left'[r]]
<1>1. ASSUME NEW q \in Caller \ {r}
      PROVE  Decided'[q] = Decided[q] /\ Left'[q] = Left[q]
  <2>1. Mine(q)' = Mine(q)
    BY Frame DEF IInv
  <2>2. /\ pc'[q] = pc[q] /\ ret'[q] = ret[q] /\ tx'[q] = tx[q]
        /\ id'[q] = id[q] /\ newAuth'[q] = newAuth[q]
        /\ newUsers'[q] = newUsers[q]
    BY <2>1 DEF Mine
  <2>3. QED
    BY <2>2 DEF Decided, Left
<1>2. QED
  BY <1>1 DEF Decided, Left

\* Only a connection that breaks at COMMIT, and the server, change what is left.
LEMMA LeftStays ==
  ASSUME IInv, NEW r \in Caller, Act(r),
         \/ Take(r) \/ Statement(r) \/ QueryFails(r) \/ CountFails(r)
         \/ StatementFails(r) \/ LoseConnection(r)
         \/ \E c \in Calls : Call(r, c)
  PROVE  UNCHANGED Left
<1> DEFINE Stays ==
             /\ tx'[r] = "inDoubt" <=> tx[r] = "inDoubt"
             /\ tx[r] = "inDoubt" =>
                  /\ id'[r] = id[r] /\ newAuth'[r] = newAuth[r]
                  /\ newUsers'[r] = newUsers[r]
<1>1. ASSUME \E c \in Calls : Call(r, c)
      PROVE  Stays
  BY <1>1 DEF Call, CallCreate, CallOther, server
<1>2. ASSUME Take(r)
      PROVE  Stays
  BY <1>2 DEF IInv, TypeOK, Take, server
<1>3. ASSUME GetAllRows(r) \/ GetAllCount(r) \/ GetById(r) \/ FindAuth(r) \/
             FindUsers(r)
      PROVE  Stays
  BY <1>3
  DEF GetAllRows, GetAllCount, GetById, FindAuth, FindUsers, Return, server
<1>4. ASSUME ReturnMissing(r) \/ ReturnReadonly(r) \/ PassCheck(r)
      PROVE  Stays
  BY <1>4 DEF ReturnMissing, ReturnReadonly, PassCheck, Return, server, memory
<1>5. ASSUME Connect(r) \/ Begin(r)
      PROVE  Stays
  BY <1>5 DEF IInv, TypeOK, LocalInv, TransactionInv, Connect, Begin, server,
              memory
<1>6. ASSUME InsertAuth(r) \/ DeleteAuth(r) \/ WriteAuth(r)
      PROVE  Stays
  BY <1>6
  DEF IInv, TypeOK, LocalInv, TransactionInv, InsertAuth, DeleteAuth,
      WriteAuth, PutAuth, Abort
<1>7. ASSUME InsertUsers(r) \/ DeleteUsers(r) \/ WriteUsers(r)
      PROVE  Stays
  BY <1>7
  DEF IInv, LocalInv, TransactionInv, InsertUsers, DeleteUsers, WriteUsers,
      PutUsers
<1>8. ASSUME SelectAuth(r) \/ SelectUsers(r)
      PROVE  Stays
  BY <1>8 DEF SelectAuth, SelectUsers, server
<1>9. ASSUME Commit(r) \/ Rollback(r) \/ Release(r)
      PROVE  Stays
  BY <1>9
  DEF IInv, TypeOK, LocalInv, TransactionInv, Commit, Rollback, Release,
      InstallVersions, DropVersions, Return, server, memory
<1>10. ASSUME QueryFails(r) \/ CountFails(r) \/ StatementFails(r)
      PROVE  Stays
  BY <1>10
  DEF IInv, TypeOK, LocalInv, TransactionInv, QueryFails, CountFails,
      StatementFails, Abort, Return, server
<1>11. ASSUME LoseConnection(r) \/ FindBroken(r)
      PROVE  Stays
  BY <1>11 DEF LoseConnection, FindBroken, Return, server, memory
<1>12. Stays
  BY <1>1, <1>2, <1>3, <1>4, <1>5, <1>6, <1>7, <1>8, <1>9, <1>10, <1>11
  DEF Statement
<1>13. Left'[r] = Left[r]
  BY <1>12 DEF Left
<1>14. QED
  BY <1>13, DecidedAndLeft DEF Left

\* Calls are no NoCall.
LEMMA CallIsCall ==
  ASSUME NEW c \in Calls
  PROVE  c # NoCall
  BY ArgumentsType DEF NoCall

\* A call whose answer is not decided waits for it.
LEMMA Unanswered ==
  ASSUME StoreInv, NEW r \in Caller,
         pc[r] \notin {"idle", "rollback", "release", "returned"}
  PROVE  /\ arg[r] \in Calls /\ arg[r] # NoCall /\ arg[r] # Store!NoCall
         /\ ret[r] = NoResult
         /\ Decided[r] = NoResult /\ Decided[r] = Store!NoResult
  BY CallIsCall, SameData DEF StoreInv, CallInv, Decided

\* A step that decides nothing is none of the store.
LEMMA NothingDecided ==
  ASSUME IInv, NEW r \in Caller, Act(r), UNCHANGED <<tables, arg>>,
         UNCHANGED Left, Decided'[r] = Decided[r]
  PROVE  UNCHANGED <<StoredUsers, arg, Decided, Left>>
<1>1. UNCHANGED Decided
  BY DecidedAndLeft DEF Decided
<1>2. QED
  BY <1>1, StoredSame

-----------------------------------------------------------------------------
(***************************************************************************)
(* Step by step.                                                           *)
(***************************************************************************)

\* A call is begun and ended.
LEMMA CallStep ==
  ASSUME IInv, StoreInv, NEW r \in Caller, Act(r),
         Take(r) \/ \E c \in Calls : Call(r, c)
  PROVE  Store!Next
<1>1. UNCHANGED Left
  BY LeftStays
<1>2. CASE Take(r)
  <2>1. Decided'[r] = NoResult
    BY <1>2 DEF IInv, TypeOK, Take, Goto, Decided
  <2>2. Store!End(r)
    BY <1>1, <1>2, <2>1, DecidedAndLeft, StoredSame, SameData DEF Take, Store!End
  <2>3. QED
    BY <2>2 DEF Store!Next
<1>3. ASSUME NEW c \in Calls, Call(r, c)
      PROVE  Store!Next
  <2>1. arg[r] = NoCall /\ arg' = [arg EXCEPT ![r] = c]
    BY <1>3 DEF StoreInv, CallInv, Call, CallCreate, CallOther
  <2>2. /\ UNCHANGED tables /\ UNCHANGED ret /\ tx[r] = "none"
        /\ pc[r] = "idle" /\ pc'[r] # "rollback"
    BY <1>3 DEF Call, CallCreate, CallOther, FirstStage, Goto, IInv, TypeOK
  <2>3. Left[r] = NoWrite /\ Decided'[r] = Decided[r]
    BY <2>2 DEF Left, Decided
  <2>4. UNCHANGED <<StoredUsers, Decided, Left>>
    BY <1>1, <2>2, <2>3, DecidedAndLeft, StoredSame DEF Decided
  <2>5. Store!Begin(r)
    BY <2>1, <2>3, <2>4, SameData DEF Store!Begin
  <2>6. QED
    BY <2>5 DEF Store!Next
<1>4. QED
  BY <1>2, <1>3

\* An error refuses the call.
LEMMA RefuseStep ==
  ASSUME IInv, StoreInv, NEW r \in Caller, Act(r),
         pc[r] \notin {"idle", "rollback", "release", "returned"},
         NEW kind \in {"repository", "readonly"},
         UNCHANGED <<tables, arg>>, UNCHANGED Left, Decided'[r] = Error(kind)
  PROVE  Store!Next
<1>1. Decided' = [Decided EXCEPT ![r] = Error(kind)]
  BY DecidedAndLeft
<1>2. Store!Answer(r, Store!Error(kind))
  BY <1>1, Unanswered, SameData DEF Store!Answer
<1>3. Store!Refuse(r)
  BY <1>2, Unanswered, StoredSame DEF Store!Refuse
<1>4. QED
  BY <1>3 DEF Store!Next

\* What goes on before the answer is decided is nothing to the store, until
\* something fails.
LEMMA InnerStep ==
  ASSUME IInv, StoreInv, NEW r \in Caller, Act(r),
         pc[r] \notin {"idle", "rollback", "release", "returned"},
         UNCHANGED <<tables, arg, ret>>, UNCHANGED Left
  PROVE  Store!Next \/ UNCHANGED <<StoredUsers, arg, Decided, Left>>
<1>1. CASE pc'[r] = "rollback"
  <2>1. Decided'[r] = Error("repository")
    BY <1>1 DEF Decided
  <2>2. QED
    BY <2>1, RefuseStep
<1>2. CASE pc'[r] # "rollback"
  <2>1. Decided'[r] = Decided[r]
    BY <1>2 DEF Decided
  <2>2. QED
    BY <2>1, NothingDecided
<1>3. QED
  BY <1>1, <1>2

\* The list and the count that getAll() puts into its result.
LEMMA ListedResult ==
  ASSUME NEW list, NEW n
  PROVE  /\ [NoResult EXCEPT !.list = list].error = "none"
         /\ [[NoResult EXCEPT !.list = list] EXCEPT !.count = n] =
              [error |-> "none", model |-> None, list |-> list, count |-> n]
<1>1. [NoResult EXCEPT !.list = list] =
        [error |-> "none", model |-> None, list |-> list, count |-> 0]
  BY DEF NoResult
<1>2. [[error |-> "none", model |-> None, list |-> list, count |-> 0]
          EXCEPT !.count = n] =
        [error |-> "none", model |-> None, list |-> list, count |-> n]
  OBVIOUS
<1>3. QED
  BY <1>1, <1>2

\* getAll() counts the users of the moment, and every user it lists exists.
LEMMA ListStep ==
  ASSUME IInv, StoreInv, NEW r \in Caller, Act(r), GetAllCount(r)
  PROVE  Store!Next
<1>1. /\ pc[r] = "count" /\ arg[r].op = "getAll"
      /\ UNCHANGED <<tables, arg>> /\ Decided'[r] = ret'[r]
  BY DEF GetAllCount, Return, Goto, Decided, IInv, TypeOK, LocalInv, StageInv
<1> UNCHANGED Left
  BY LeftStays DEF Statement
<1>2. CASE \E row \in rows[r] : row.auth = None
  <2>1. FillModels(rows[r]) = Error("repository")
    BY <1>2 DEF FillModels
  <2>2. FillModels(rows[r]).error # "none"
    BY <2>1 DEF Error, NoResult
  <2>3. ret'[r] = Error("repository")
    BY <2>1, <2>2 DEF GetAllCount, Return, IInv, TypeOK
  <2>4. QED
    BY <1>1, <2>3, RefuseStep
<1>3. CASE \A row \in rows[r] : row.auth # None
  <2> DEFINE list == {FillModel(row.id, row.auth, row.users) : row \in rows[r]}
             result == [error |-> "none", model |-> None, list |-> list,
                        count |-> Counted]
  <2>1. FillModels(rows[r]) = [NoResult EXCEPT !.list = list]
    BY <1>3 DEF FillModels
  <2>2. Decided'[r] = result
    <3>1. /\ FillModels(rows[r]).error = "none"
          /\ [FillModels(rows[r]) EXCEPT !.count = Counted] = result
      BY <2>1, ListedResult
    <3>2. ret'[r] = result
      BY <3>1 DEF GetAllCount, Return, IInv, TypeOK
    <3>3. QED
      BY <1>1, <3>2
  <2>3. Store!Listed = LiveUsers
    BY Stored DEF Store!Listed, LiveUsers, IsLive, IInv, RowInv, CreatedTogether
  <2>4. result = [error |-> "none", model |-> None, list |-> result.list,
                  count |-> Cardinality(Store!Listed)]
    BY <2>3 DEF Counted
  <2>5. ASSUME NEW m \in list
        PROVE  /\ StoredUsers[m.id] # None
               /\ m.username = StoredUsers[m.id].auth.username
               /\ m.salt = StoredUsers[m.id].auth.salt
    <3>1. PICK row \in rows[r] : m = FillModel(row.id, row.auth, row.users)
      BY <2>5
    <3>2. m.id = row.id /\ m.username = row.auth.username
          /\ m.salt = row.auth.salt
      BY <3>1 DEF FillModel
    <3>3. /\ row.id \in Id /\ auth[row.id] # None
          /\ row.auth.username = auth[row.id].username
          /\ row.auth.salt = auth[row.id].salt
      BY <1>3 DEF IInv, TypeOK, JoinedRow, StoreInv, CallInv
    <3>4. QED
      BY <3>2, <3>3, Stored
  <2> HIDE DEF result, list
  <2>6. Store!Answer(r, result)
    BY <1>1, <2>2, Unanswered, DecidedAndLeft DEF Store!Answer
  <2>7. result.list = list
    BY DEF result
  <2>8. /\ Decided'[r] = [error |-> "none", model |-> None,
                       list |-> Decided'[r].list,
                       count |-> Store!Cardinality(Store!Listed)]
        /\ Store!Answer(r, Decided'[r])
        /\ \A m \in Decided'[r].list :
             /\ StoredUsers[m.id] # None
             /\ m.username = StoredUsers[m.id].auth.username
             /\ m.salt = StoredUsers[m.id].auth.salt
    BY <2>2, <2>4, <2>5, <2>6, <2>7, SameCardinality
  <2>9. Store!List(r)
    BY <1>1, <2>8, StoredSame DEF Store!List
  <2>10. QED
    BY <2>9 DEF Store!Next
<1>4. QED
  BY <1>2, <1>3

\* getById() answers with the user, with nothing, or with an error.
LEMMA ReadStep ==
  ASSUME IInv, StoreInv, NEW r \in Caller, Act(r), GetById(r)
  PROVE  Store!Next \/ UNCHANGED <<StoredUsers, arg, Decided, Left>>
<1> DEFINE i == id[r]
           a == Find(auth[i])
           u == Find(users[i])
<1>1. /\ pc[r] = "getById" /\ arg[r].op = "getById" /\ arg[r].id = i
      /\ i \in Id /\ UNCHANGED <<tables, arg>> /\ Decided'[r] = ret'[r]
  BY DEF GetById, Return, Goto, Decided, IInv, TypeOK, LocalInv, StageInv,
         StoreInv, CallInv
<1> UNCHANGED Left
  BY LeftStays DEF Statement
<1>2. CASE u = None
  <2>1. ret'[r] = NoResult
    BY <1>2 DEF GetById, Return, IInv, TypeOK
  <2>2. QED
    BY <1>1, <2>1, Unanswered, NothingDecided
<1>3. CASE u # None /\ a = None
  <2>1. ret'[r] = Error("repository")
    BY <1>3 DEF GetById, Return, IInv, TypeOK
  <2>2. QED
    BY <1>1, <2>1, RefuseStep
<1>4. CASE u # None /\ a # None
  <2> DEFINE result == [NoResult EXCEPT !.model = FillModel(i, a, u)]
  <2>1. ret'[r] = result
    BY <1>4 DEF GetById, Return, IInv, TypeOK
  <2>2. /\ a = auth[i] /\ auth[i] # None /\ ~auth[i].deleted
        /\ u = users[i] /\ ~users[i].deleted
    BY <1>4 DEF Find, IsLive
  <2>3. /\ StoredUsers[i] # None
        /\ StoredUsers[i].auth = a /\ StoredUsers[i].users = u
    BY <1>1, <2>2, Stored
  <2>4. result = [Store!NoResult EXCEPT !.model = Store!FillModel(i, a, u)]
    BY SameData
  <2> HIDE DEF result
  <2>5. Store!Answer(r, result)
    BY <1>1, <2>1, Unanswered, DecidedAndLeft DEF Store!Answer
  <2> HIDE DEF i, a, u
  <2>6. Store!Read(r)
    BY <1>1, <2>2, <2>3, <2>4, <2>5, StoredSame DEF Store!Read
  <2>7. QED
    BY <2>6 DEF Store!Next
<1>5. QED
  BY <1>2, <1>3, <1>4

\* The COMMIT of a call is its write, and decides its answer.
LEMMA CommitStep ==
  ASSUME IInv, StoreInv, NEW r \in Caller, Act(r), Commit(r)
  PROVE  Store!Next
<1> DEFINE i == id[r]
           a == Defined(newAuth[r], auth[i])
           u == Defined(newUsers[r], users[i])
           w == [id |-> i, auth |-> StoredUsers'[i].auth,
                 users |-> StoredUsers'[i].users]
<1>1. /\ pc[r] = "commit" /\ conn[r] = "up" /\ i \in Id
      /\ arg' = arg /\ Decided'[r] = Success(r)
      /\ auth' = [auth EXCEPT ![i] = a] /\ users' = [users EXCEPT ![i] = u]
  BY DEF Commit, InstallVersions, memory, Goto, Decided, IInv, TypeOK, LocalInv,
         StageInv, WriteStages, InTransaction
<1>2. arg[r] \in Calls /\ Outcome(r, arg[r])
  BY <1>1, CommitOutcome DEF StoreInv
<1>3. a \in AuthEntity /\ u \in UsersEntity
  BY <1>1, <1>2, AskedWrite
<1>4. StoredUsers' = [StoredUsers EXCEPT ![i] = [auth |-> a, users |-> u]]
  BY <1>1, <1>3, InstalledUser DEF IInv, TypeOK
<1>5. /\ StoredUsers'[i] = [auth |-> a, users |-> u]
      /\ StoredUsers'[i].auth = a /\ StoredUsers'[i].users = u
  <2>1. StoredUsers'[i] = [auth |-> a, users |-> u]
    <3> HIDE DEF i, a, u
    <3>1. QED
      BY <1>1, <1>4 DEF StoredUsers
  <2>2. QED
    BY <2>1
<1>6. StoredUsers'[i] # None
  BY <1>3, <1>5 DEF User
<1>7. /\ Store!Asks(arg[r], w)
      /\ Store!Written(w) = [auth |-> a, users |-> u]
  BY <1>1, <1>2, <1>5, AskedWrite
<1>8. Store!Put(w)
  <2>1. w.id = i
    OBVIOUS
  <2> HIDE DEF i, a, u, w
  <2>2. QED
    BY <1>4, <1>7, <2>1 DEF Store!Put
<1>9. arg[r].op = "create" =>
        authRow[r] = NewAuth(arg[r]) /\ usersRow[r] = NewUsers(arg[r])
  BY <1>1 DEF StoreInv, CallInv, BeforeCommit, InTransaction
<1>10. Success(r) = Store!Success(arg[r], i)
  <2>1. CASE arg[r].op = "create"
    BY <1>9, <2>1, SameData DEF Success, Store!Success
  <2>2. CASE arg[r].op = "update"
    BY <2>2, SameData DEF Success, Store!Success
  <2>3. CASE arg[r].op \notin {"create", "update"}
    BY <2>3, SameData DEF Success, Store!Success
  <2>4. QED
    BY <2>1, <2>2, <2>3
<1>11. Store!Answer(r, Store!Success(arg[r], i))
  BY <1>1, <1>10, Unanswered, DecidedAndLeft DEF Store!Answer
<1>12. UNCHANGED Left
  BY LeftStays DEF Statement
<1>13. Store!Write(r)
  <2> HIDE DEF i, a, u
  <2>1. QED
    BY <1>1, <1>6, <1>7, <1>8, <1>11, <1>12 DEF Store!Write
<1>14. QED
  BY <1>13 DEF Store!Next

\* A connection that breaks at COMMIT leaves the write to the server.
LEMMA DoubtStep ==
  ASSUME IInv, StoreInv, NEW r \in Caller, Act(r), LoseCommit(r)
  PROVE  Store!Next
<1> DEFINE w == [id |-> id[r], auth |-> newAuth[r], users |-> newUsers[r]]
<1>1. /\ pc[r] = "commit" /\ conn[r] = "up" /\ id[r] \in Id
      /\ "connection" \in Faults
      /\ UNCHANGED <<tables, arg>> /\ Decided'[r] = Error("repository")
  BY DEF LoseCommit, Goto, memory, Decided, IInv, TypeOK, LocalInv, StageInv,
         WriteStages, InTransaction
<1>2. Left'[r] = w
  BY DEF LoseCommit, memory, Left, IInv, TypeOK
<1>3. arg[r] \in Calls /\ Outcome(r, arg[r])
  BY <1>1, CommitOutcome DEF StoreInv
<1>4. Store!Asks(arg[r], w)
  BY <1>1, <1>3, AskedWrite
<1>5. Store!Answer(r, Store!Error("repository"))
  BY <1>1, Unanswered, DecidedAndLeft, SameData DEF Store!Answer
<1>6. Store!Doubt(r)
  <2> HIDE DEF w
  <2>1. QED
    BY <1>1, <1>2, <1>4, <1>5, DecidedAndLeft, StoredSame DEF Store!Doubt
<1>7. QED
  BY <1>6 DEF Store!Next

\* The server commits what was left.
LEMMA LateStep ==
  ASSUME IInv, StoreInv, NEW r \in Caller, Act(r), LateCommit(r)
  PROVE  Store!Next
<1> DEFINE i == id[r]
           a == Defined(newAuth[r], auth[i])
           u == Defined(newUsers[r], users[i])
           w == [id |-> i, auth |-> newAuth[r], users |-> newUsers[r]]
<1>1. /\ tx[r] = "inDoubt" /\ i \in Id /\ UNCHANGED <<arg, ret, pc>>
      /\ auth' = [auth EXCEPT ![i] = a] /\ users' = [users EXCEPT ![i] = u]
      /\ tx'[r] = "none"
  BY DEF LateCommit, InstallVersions, IInv, TypeOK, LocalInv, TransactionInv
<1>2. PICK c \in Calls : Outcome(r, c)
  BY <1>1 DEF StoreInv, DoubtInv
<1>3. Left[r] = w /\ Left'[r] = NoWrite /\ Decided'[r] = Decided[r]
  BY <1>1 DEF Left, Decided
<1>4. w # NoWrite
  <2>1. w.id # NoWrite.id
    BY <1>1 DEF NoWrite
  <2>2. QED
    BY <2>1
<1>5. /\ Store!Asks(c, w) /\ Store!Written(w) = [auth |-> a, users |-> u]
      /\ a \in AuthEntity
  BY <1>1, <1>2, AskedWrite
<1>6. StoredUsers' = [StoredUsers EXCEPT ![i] = [auth |-> a, users |-> u]]
  BY <1>1, <1>5, InstalledUser DEF IInv, TypeOK
<1>7. Store!Put(w)
  <2>1. w.id = i
    OBVIOUS
  <2> HIDE DEF i, a, u, w
  <2>2. QED
    BY <1>5, <1>6, <2>1 DEF Store!Put
<1>8. /\ UNCHANGED <<arg, Decided>>
      /\ Left' = [Left EXCEPT ![r] = NoWrite]
  BY <1>1, <1>3, DecidedAndLeft DEF Decided
<1>9. Store!Late(r)
  <2> HIDE DEF i, a, u, w
  <2>1. QED
    BY <1>3, <1>4, <1>5, <1>7, <1>8, SameData DEF Store!Late
<1>10. QED
  BY <1>9 DEF Store!Next

\* Or rolls it back; of any other transaction it ends, the store knows nothing.
LEMMA ReapStep ==
  ASSUME IInv, StoreInv, NEW r \in Caller, Act(r), Reap(r)
  PROVE  Store!Next \/ UNCHANGED <<StoredUsers, arg, Decided, Left>>
<1>1. /\ UNCHANGED <<tables, arg, ret, pc>> /\ tx'[r] = "none"
  BY DEF Reap, IInv, TypeOK
<1>2. Decided'[r] = Decided[r] /\ Left'[r] = NoWrite
  BY <1>1 DEF Decided, Left
<1>3. UNCHANGED Decided /\ Left' = [Left EXCEPT ![r] = NoWrite]
  BY <1>2, DecidedAndLeft DEF Decided
<1>4. CASE Left[r] # NoWrite
  <2>1. Store!Drop(r)
    BY <1>1, <1>3, <1>4, StoredSame, SameData DEF Store!Drop
  <2>2. QED
    BY <2>1 DEF Store!Next
<1>5. CASE Left[r] = NoWrite
  BY <1>1, <1>3, <1>5, StoredSame DEF Left
<1>6. QED
  BY <1>4, <1>5

\* A step that fails for good refuses the call.
LEMMA FailStep ==
  ASSUME IInv, StoreInv, NEW r \in Caller, Act(r),
         ReturnReadonly(r) \/ QueryFails(r) \/ CountFails(r) \/ FindBroken(r)
  PROVE  Store!Next \/ UNCHANGED <<StoredUsers, arg, Decided, Left>>
<1>1. UNCHANGED Left
  BY LeftStays DEF Statement
<1>2. CASE ReturnReadonly(r)
  <2>1. /\ pc[r] = "check" /\ UNCHANGED <<tables, arg>>
        /\ Decided'[r] = Error("readonly")
    BY <1>2 DEF ReturnReadonly, Return, Goto, Decided, IInv, TypeOK
  <2>2. QED
    BY <1>1, <2>1, RefuseStep
<1>3. CASE ~ReturnReadonly(r)
  <2>1. /\ pc[r] \notin {"idle", "rollback", "release", "returned"}
        /\ UNCHANGED <<tables, arg>>
        /\ Decided'[r] = Error("repository")
    BY <1>3
    DEF QueryFails, CountFails, FindBroken, Return, Goto, Decided, InTransaction,
        memory, IInv, TypeOK
  <2>2. QED
    BY <1>1, <2>1, RefuseStep
<1>4. QED
  BY <1>2, <1>3

\* The other steps of a call are its own business, unless they fail.
LEMMA OwnStep ==
  ASSUME IInv, StoreInv, NEW r \in Caller, Act(r),
         ~(Take(r) \/ \E c \in Calls : Call(r, c)),
         ~(GetAllCount(r) \/ GetById(r) \/ Commit(r) \/ LoseCommit(r)),
         ~(ReturnReadonly(r) \/ QueryFails(r) \/ CountFails(r)
           \/ FindBroken(r)),
         ~Server(r)
  PROVE  Store!Next \/ UNCHANGED <<StoredUsers, arg, Decided, Left>>
<1>1. UNCHANGED Left
  BY LeftStays DEF Act, Fault
<1>2. CASE GetAllRows(r) \/ FindAuth(r) \/ FindUsers(r) \/ PassCheck(r)
           \/ Connect(r) \/ Begin(r) \/ StatementFails(r)
  <2>1. /\ UNCHANGED <<tables, arg, ret>>
        /\ pc[r] \notin {"idle", "rollback", "release", "returned"}
    BY <1>2
    DEF GetAllRows, FindAuth, FindUsers, PassCheck, Connect, Begin,
        StatementFails, InTransaction, memory
  <2>2. QED
    BY <1>1, <2>1, InnerStep
<1>3. CASE InsertAuth(r) \/ InsertUsers(r) \/ DeleteAuth(r) \/ DeleteUsers(r)
           \/ SelectAuth(r) \/ WriteAuth(r) \/ SelectUsers(r) \/ WriteUsers(r)
  <2>1. /\ UNCHANGED <<tables, arg, ret>>
        /\ pc[r] \notin {"idle", "rollback", "release", "returned"}
    BY <1>3
    DEF InsertAuth, InsertUsers, DeleteAuth, DeleteUsers, SelectAuth,
        WriteAuth, SelectUsers, WriteUsers, memory
  <2>2. QED
    BY <1>1, <2>1, InnerStep
<1>4. CASE LoseConnection(r)
  <2>1. UNCHANGED <<tables, arg>> /\ Decided'[r] = Decided[r]
    BY <1>4 DEF LoseConnection, Decided, memory
  <2>2. QED
    BY <1>1, <2>1, NothingDecided
<1>5. CASE ReturnMissing(r)
  <2>1. Count(0) = NoResult
    BY DEF Count, NoResult
  <2>2. pc[r] = "check" /\ UNCHANGED <<tables, arg>> /\ Decided'[r] = Count(0)
    BY <1>5 DEF ReturnMissing, Return, Goto, Decided, IInv, TypeOK
  <2>3. Decided'[r] = Decided[r]
    BY <2>1, <2>2, Unanswered
  <2>4. QED
    BY <1>1, <2>2, <2>3, NothingDecided
<1>6. CASE Rollback(r) \/ Release(r)
  <2>1. UNCHANGED <<tables, arg>> /\ Decided'[r] = Decided[r]
    BY <1>6 DEF Rollback, Release, Return, Goto, Decided, memory, IInv, TypeOK
  <2>2. QED
    BY <1>1, <2>1, NothingDecided
<1>7. QED
  BY <1>2, <1>3, <1>4, <1>5, <1>6 DEF Act, Statement, Fault

\* A process that dies leaves the writes of which the COMMIT was on its way.
LEMMA RestartStep ==
  ASSUME IInv, StoreInv, Crash
  PROVE  Store!Next
<1>1. /\ "crash" \in Faults /\ UNCHANGED tables
      /\ arg' = [q \in Caller |-> NoCall]
      /\ Decided' = [q \in Caller |-> NoResult]
  BY DEF Crash, Decided
<1>2. ASSUME NEW q \in Caller
      PROVE  \/ Left'[q] = Left[q]
             \/ Decided[q] = Store!NoResult /\ Store!Asks(arg[q], Left'[q])
  <2>1. CASE pc[q] = "commit" /\ conn[q] = "up"
    <3>1. tx[q] = "active" /\ id[q] \in Id
      BY <2>1 DEF IInv, LocalInv, TransactionInv, StageInv, WriteStages,
                  InTransaction
    <3>2. arg[q] \in Calls /\ Outcome(q, arg[q])
      BY <2>1, CommitOutcome DEF StoreInv
    <3>3. Left'[q] = [id |-> id[q], auth |-> newAuth[q], users |-> newUsers[q]]
      BY <2>1, <3>1 DEF Crash, Left
    <3>4. Store!Asks(arg[q], Left'[q])
      BY <3>1, <3>2, <3>3, AskedWrite
    <3>5. QED
      BY <2>1, <3>4, Unanswered
  <2>2. CASE ~(pc[q] = "commit" /\ conn[q] = "up")
    BY <2>2 DEF Crash, Left
  <2>3. QED
    BY <2>1, <2>2
<1>3. Left' = [q \in Caller |-> Left'[q]]
  BY DEF Left
<1>4. Store!Restart
  BY <1>1, <1>2, <1>3, StoredSame, SameData DEF Store!Restart
<1>5. QED
  BY <1>4 DEF Store!Next

\* Every step of the repository is a step of the store, or none.
LEMMA StoreStep ==
  IInv /\ StoreInv /\ [Next]_vars =>
    [Store!Next]_<<StoredUsers, arg, Decided, Left>>
<1>1. ASSUME IInv, StoreInv, NEW r \in Caller, Act(r)
      PROVE  Store!Next \/ UNCHANGED <<StoredUsers, arg, Decided, Left>>
  BY <1>1, CallStep, ListStep, ReadStep, CommitStep, DoubtStep, LateStep,
     ReapStep, FailStep, OwnStep
  DEF Server
<1>2. ASSUME UNCHANGED vars
      PROVE  UNCHANGED <<StoredUsers, arg, Decided, Left>>
  BY <1>2, StoredSame DEF vars, memory, server, Decided, Left
<1>3. QED
  BY <1>1, <1>2, RestartStep, NextIsAct

\* The repository implements the store: for every number of callers, every
\* interleaving and every fault, the tables change only by whole users, once
\* for a call, in the step that decides its answer; or, if its connection or
\* process went at the COMMIT, at most once and exactly as it was written.
THEOREM ImplementsStore == Spec => StoreSpec
<1>1. IInv /\ StoreInv /\ [Next]_vars => [Store!Next]_(Store!storeVars)
  BY StoreStep DEF Store!storeVars
<1>2. QED
  BY <1>1, InitStore, Invariance, StoreInvariance, PTL
  DEF Spec, StoreSpec, Store!Spec

=============================================================================
