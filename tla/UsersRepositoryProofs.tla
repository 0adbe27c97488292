----------------------- MODULE UsersRepositoryProofs -----------------------
(***************************************************************************)
(* Proofs about UsersRepository, for every value of its constants.         *)
(***************************************************************************)
EXTENDS UsersRepositoryInv, FiniteSetTheorems, TLAPS

USE NoneAssumption, AdminAssumption, CallsAssumption

-----------------------------------------------------------------------------
(***************************************************************************)
(* Lemmas about the operators on rows.                                     *)
(***************************************************************************)

\* What save() writes into a row of auth is a row of auth; the columns that
\* are not written keep their values.
LEMMA UpdateAuthColumns ==
  ASSUME NEW row \in AuthEntity, NEW entity \in AuthEntity, NEW cols
  PROVE  LET new == UpdateColumns(row, entity, cols) IN
         /\ new \in AuthEntity
         /\ "username" \notin cols => new.username = row.username
         /\ "salt" \notin cols => new.salt = row.salt
         /\ new.role = IF "role" \in cols THEN entity.role ELSE row.role
         /\ new.deleted = IF "deleted" \in cols THEN entity.deleted
                                                ELSE row.deleted
  BY DEF UpdateColumns, AuthEntity

\* The same of users.
LEMMA UpdateUsersColumns ==
  ASSUME NEW row \in UsersEntity, NEW entity \in UsersEntity, NEW cols
  PROVE  LET new == UpdateColumns(row, entity, cols) IN
         /\ new \in UsersEntity
         /\ new.deleted = IF "deleted" \in cols THEN entity.deleted
                                                ELSE row.deleted
  BY DEF UpdateColumns, UsersEntity

\* save() never finds a difference in a column that is equal in both.
LEMMA DiffAuthColumns ==
  ASSUME NEW row \in AuthEntity, NEW entity \in AuthEntity
  PROVE  LET diff == DiffColumns(entity, row) IN
         /\ diff \subseteq Columns
         /\ entity.username = row.username /\ entity.salt = row.salt =>
              diff \subseteq {"password", "role", "deleted"}
  BY DEF DiffColumns, AuthEntity, Columns

\* The columns save() finds different in a row of users are columns.
LEMMA DiffUsersColumns ==
  ASSUME NEW row \in UsersEntity, NEW entity \in UsersEntity
  PROVE  DiffColumns(entity, row) \subseteq Columns
  BY DEF DiffColumns, UsersEntity, Columns

\* softDelete() changes nothing but the mark.
LEMMA SoftDeletedAuth ==
  ASSUME NEW row \in AuthEntity
  PROVE  /\ SoftDelete(row) \in AuthEntity
         /\ SoftDelete(row).username = row.username
         /\ SoftDelete(row).salt = row.salt
         /\ SoftDelete(row).role = row.role
         /\ SoftDelete(row).deleted = TRUE
  BY DEF SoftDelete, AuthEntity

\* The same of a row of users.
LEMMA SoftDeletedUsers ==
  ASSUME NEW row \in UsersEntity
  PROVE  SoftDelete(row) \in UsersEntity /\ SoftDelete(row).deleted = TRUE
  BY DEF SoftDelete, UsersEntity

\* The arguments of each operation.
LEMMA ArgumentsType ==
  ASSUME NEW c \in Arguments
  PROVE  /\ c.op \in {"getAll", "getById", "create", "update", "delete"}
         /\ c.op \in {"getById", "update", "delete"} => c.id \in Id
         /\ c.op = "create" =>
              /\ c.username \in Username /\ c.password \in Password
              /\ c.salt \in Salt /\ c.role \in UsersRoleEnum
              /\ c.name \in Name /\ c.age \in Age
         /\ c.op = "update" =>
              /\ c.password \in Password \union {None}
              /\ c.role \in UsersRoleEnum \union {None}
              /\ c.name \in Name \union {None}
              /\ c.age \in Age \union {None}
         /\ c.id \in Id \union {None}
  BY DEF Arguments

\* An update assigns the password and the role, and no other column.
LEMMA AssignedAuth ==
  ASSUME NEW row \in AuthEntity, NEW c \in Arguments, c.op = "update"
  PROVE  LET new == AssignAuth(row, c)
         IN /\ new \in AuthEntity
            /\ new.username = row.username /\ new.salt = row.salt
            /\ new.role = Defined(c.role, row.role)
            /\ new.deleted = row.deleted
  BY ArgumentsType DEF AssignAuth, Defined, AuthEntity

\* An update assigns the name and the age, and not the mark.
LEMMA AssignedUsers ==
  ASSUME NEW row \in UsersEntity, NEW c \in Arguments, c.op = "update"
  PROVE  LET new == AssignUsers(row, c)
         IN new \in UsersEntity /\ new.deleted = row.deleted
  BY ArgumentsType DEF AssignUsers, Defined, UsersEntity

\* create() builds two live entities from its arguments.
LEMMA NewEntities ==
  ASSUME NEW c \in Arguments, c.op = "create"
  PROVE  /\ NewAuth(c) \in AuthEntity /\ NewUsers(c) \in UsersEntity
         /\ NewAuth(c).username = c.username
         /\ ~NewAuth(c).deleted /\ ~NewUsers(c).deleted
  BY ArgumentsType DEF NewAuth, NewUsers, AuthEntity, UsersEntity

\* A model is filled from one row of each table.
LEMMA FilledModel ==
  ASSUME NEW i \in Id, NEW a \in AuthEntity, NEW u \in UsersEntity
  PROVE  FillModel(i, a, u) \in UsersModel
  BY DEF FillModel, UsersModel, AuthEntity, UsersEntity

\* A list of joined rows becomes an error or a list of models.
LEMMA FilledModels ==
  ASSUME NEW read \in SUBSET JoinedRow
  PROVE  FillModels(read) \in Result
<1>1. CASE \E row \in read : row.auth = None
  BY <1>1 DEF FillModels, Error, NoResult, Result
<1>2. CASE ~ \E row \in read : row.auth = None
  <2>1. \A row \in read : FillModel(row.id, row.auth, row.users) \in UsersModel
    BY <1>2, FilledModel DEF JoinedRow
  <2>2. QED
    BY <1>2, <2>1 DEF FillModels, NoResult, Result
<1>3. QED
  BY <1>1, <1>2

-----------------------------------------------------------------------------
(***************************************************************************)
(* Types.                                                                  *)
(***************************************************************************)

\* The tables the migrations leave are of the right type.
LEMMA TypeInit == Init => TypeOK
  BY DEF Init, TypeOK, AuthEntity, UsersEntity, Password, Hash, Plain,
         UsersRoleEnum, Stages, NoResult, Result

\* Every step keeps the types, given that it meets the rows it expects.
LEMMA TypeStep ==
  ASSUME TypeOK, LocalInv, Next
  PROVE  TypeOK'
<1>1. ASSUME NEW r \in Caller, NEW c \in Calls, CallCreate(r, c)
      PROVE  TypeOK'
  BY <1>1, NewEntities
  DEF TypeOK, CallCreate, Goto, Stages, tables, server
<1>2. ASSUME NEW r \in Caller, NEW c \in Calls, CallOther(r, c)
      PROVE  TypeOK'
  BY <1>2, ArgumentsType
  DEF TypeOK, CallOther, FirstStage, Goto, Stages, tables, server
<1>3. ASSUME NEW r \in Caller, Take(r)
      PROVE  TypeOK'
  BY <1>3 DEF TypeOK, Take, Goto, Stages, tables, server, NoResult, Result
<1>4. ASSUME NEW r \in Caller, GetAllRows(r)
      PROVE  TypeOK'
  <2>1. {[id |-> i, auth |-> Find(auth[i]), users |-> users[i]] :
           i \in LiveUsers} \in SUBSET JoinedRow
    BY DEF TypeOK, LiveUsers, IsLive, Find, JoinedRow
  <2>2. QED
    BY <1>4, <2>1 DEF TypeOK, GetAllRows, Goto, Stages, tables, server
<1>5. ASSUME NEW r \in Caller, GetAllCount(r)
      PROVE  TypeOK'
  <2>1. FillModels(rows[r]) \in Result
    BY FilledModels DEF TypeOK
  <2>2. Counted \in Nat
    BY IdAssumption, FS_Subset, FS_CardinalityType DEF Counted, LiveUsers
  <2>3. [FillModels(rows[r]) EXCEPT !.count = Counted] \in Result
    BY <2>1, <2>2 DEF Result
  <2>4. \E result \in Result : Return(r, result)
    BY <1>5, <2>1, <2>3 DEF GetAllCount
  <2>5. UNCHANGED <<tables, server>> /\ conn' = [conn EXCEPT ![r] = "none"]
    BY <1>5 DEF GetAllCount
  <2>6. QED
    BY <2>4, <2>5
    DEF TypeOK, Return, Forget, Goto, Stages, tables, server
<1>6. ASSUME NEW r \in Caller, GetById(r)
      PROVE  TypeOK'
  <2>1. id[r] \in Id
    BY <1>6 DEF LocalInv, StageInv, GetById
  <2>2. ASSUME Find(users[id[r]]) # None, Find(auth[id[r]]) # None
        PROVE  [NoResult EXCEPT !.model =
                  FillModel(id[r], Find(auth[id[r]]), Find(users[id[r]]))]
                  \in Result
    BY <2>1, <2>2, FilledModel DEF TypeOK, Find, NoResult, Result
  <2>3. \E result \in Result : Return(r, result)
    BY <1>6, <2>2 DEF GetById, NoResult, Error, Result
  <2>4. UNCHANGED <<tables, server, conn>>
    BY <1>6 DEF GetById
  <2>5. QED
    BY <2>3, <2>4
    DEF TypeOK, Return, Forget, Goto, Stages, tables, server
<1>7. ASSUME NEW r \in Caller, FindAuth(r) \/ FindUsers(r)
      PROVE  TypeOK'
  <2>1. id[r] \in Id
    BY <1>7 DEF LocalInv, StageInv, FindStages, FindAuth, FindUsers
  <2>2. QED
    BY <1>7, <2>1
    DEF TypeOK, FindAuth, FindUsers, Find, Goto, Stages, tables, server
<1>8. ASSUME NEW r \in Caller,
             ReturnMissing(r) \/ ReturnReadonly(r) \/ QueryFails(r)
             \/ CountFails(r)
      PROVE  TypeOK'
  <2>1. Count(0) \in Result /\ Error("readonly") \in Result
        /\ Error("repository") \in Result
    BY DEF Count, Error, NoResult, Result
  <2>2. QED
    BY <1>8, <2>1
    DEF TypeOK, ReturnMissing, ReturnReadonly, QueryFails, CountFails, Return,
        Forget, Goto, Stages, tables, server
<1>9. ASSUME NEW r \in Caller,
             PassCheck(r) \/ Connect(r) \/ LoseConnection(r) \/ LoseCommit(r)
      PROVE  TypeOK'
  BY <1>9
  DEF TypeOK, PassCheck, Connect, LoseConnection, LoseCommit, Goto, Stages,
      tables, server, memory
<1>10. ASSUME NEW r \in Caller, Begin(r)
       PROVE  TypeOK'
  <2>1. authRow[r] \in AuthEntity /\ usersRow[r] \in UsersEntity
    BY <1>10 DEF TypeOK, LocalInv, EntityInv, Begin, WriteStages
  <2>2. AfterBegin(arg[r]) \in Stages
    BY DEF AfterBegin, AfterAuth, Stages
  <2>3. CASE arg[r].op = "update"
    <3>1. arg[r] \in Arguments
      BY <1>10 DEF LocalInv, StageInv, Begin
    <3>2. /\ AssignAuth(authRow[r], arg[r]) \in AuthEntity
          /\ AssignUsers(usersRow[r], arg[r]) \in UsersEntity
      BY <2>1, <2>3, <3>1, AssignedAuth, AssignedUsers
    <3>3. QED
      BY <1>10, <2>2, <2>3, <3>2 DEF TypeOK, Begin, Goto, tables
  <2>4. CASE arg[r].op # "update"
    BY <1>10, <2>2, <2>4 DEF TypeOK, Begin, Goto, tables
  <2>5. QED
    BY <2>3, <2>4
<1>11. ASSUME NEW r \in Caller,
              InsertAuth(r) \/ DeleteAuth(r) \/ WriteAuth(r)
       PROVE  TypeOK'
  <2>1. authRow[r] \in AuthEntity
    BY <1>11 DEF TypeOK, LocalInv, EntityInv, InsertAuth, DeleteAuth, WriteAuth,
                 WriteStages, InTransaction
  <2>2. DeleteAuth(r) \/ WriteAuth(r) => auth[id[r]] \in AuthEntity
    BY <2>1 DEF TypeOK, LocalInv, EntityInv, StageInv, DeleteAuth, WriteAuth
  <2>3. PICK row \in AuthEntity : PutAuth(r, row)
    BY <1>11, <2>1, <2>2, SoftDeletedAuth, UpdateAuthColumns
    DEF InsertAuth, DeleteAuth, WriteAuth
  <2>4. UNCHANGED <<tables, conn, memory, ret>>
    BY <1>11 DEF InsertAuth, DeleteAuth, WriteAuth
  <2>5. AfterAuth(arg[r]) \in Stages
    BY DEF AfterAuth, Stages
  <2>6. QED
    BY <2>3, <2>4, <2>5
    DEF TypeOK, PutAuth, Abort, DropVersions, Goto, Stages, tables, memory
<1>12. ASSUME NEW r \in Caller,
              InsertUsers(r) \/ DeleteUsers(r) \/ WriteUsers(r)
       PROVE  TypeOK'
  <2>1. usersRow[r] \in UsersEntity
    BY <1>12 DEF TypeOK, LocalInv, EntityInv, InsertUsers, DeleteUsers,
                 WriteUsers, WriteStages, InTransaction
  <2>2. DeleteUsers(r) \/ WriteUsers(r) => users[id[r]] \in UsersEntity
    BY <2>1 DEF TypeOK, LocalInv, EntityInv, StageInv, DeleteUsers, WriteUsers
  <2>3. PICK row \in UsersEntity : PutUsers(r, row)
    BY <1>12, <2>1, <2>2, SoftDeletedUsers, UpdateUsersColumns
    DEF InsertUsers, DeleteUsers, WriteUsers
  <2>4. UNCHANGED <<tables, conn, memory, ret>>
    BY <1>12 DEF InsertUsers, DeleteUsers, WriteUsers
  <2>5. QED
    BY <2>3, <2>4 DEF TypeOK, PutUsers, Goto, Stages, tables, memory
<1>13. ASSUME NEW r \in Caller, SelectAuth(r)
       PROVE  TypeOK'
  <2>1. authRow[r] \in AuthEntity /\ auth[id[r]] \in AuthEntity
    BY <1>13 DEF TypeOK, LocalInv, EntityInv, StageInv, SelectAuth,
                 WriteStages, InTransaction
  <2>2. DiffColumns(authRow[r], auth[id[r]]) \subseteq Columns
    BY <2>1, DiffAuthColumns
  <2>3. AfterAuth(arg[r]) \in Stages
    BY DEF AfterAuth, Stages
  <2>4. QED
    BY <1>13, <2>2, <2>3 DEF TypeOK, SelectAuth, Goto, Stages, tables, server
<1>14. ASSUME NEW r \in Caller, SelectUsers(r)
       PROVE  TypeOK'
  <2>1. usersRow[r] \in UsersEntity /\ users[id[r]] \in UsersEntity
    BY <1>14 DEF TypeOK, LocalInv, EntityInv, StageInv, SelectUsers,
                 WriteStages, InTransaction
  <2>2. DiffColumns(usersRow[r], users[id[r]]) \subseteq Columns
    BY <2>1, DiffUsersColumns
  <2>3. QED
    BY <1>14, <2>2 DEF TypeOK, SelectUsers, Goto, Stages, tables, server
<1>15. ASSUME NEW r \in Caller, Commit(r)
       PROVE  TypeOK'
  <2>1. /\ id[r] \in Id
        /\ authRow[r] \in AuthEntity /\ usersRow[r] \in UsersEntity
    BY <1>15 DEF TypeOK, LocalInv, EntityInv, StageInv, Commit,
                 WriteStages, InTransaction
  <2>2. Success(r) \in Result
    BY <2>1, FilledModel DEF Success, Count, NoResult, Result
  <2>3. QED
    BY <1>15, <2>1, <2>2
    DEF TypeOK, Commit, InstallVersions, Defined, DropVersions, Goto, Stages,
        memory
<1>16. ASSUME NEW r \in Caller,
              Rollback(r) \/ Release(r) \/ FindBroken(r) \/ StatementFails(r)
       PROVE  TypeOK'
  <2>1. Error("repository") \in Result /\ ret[r] \in Result
    BY DEF TypeOK, Error, NoResult, Result
  <2>2. CASE Rollback(r)
    BY <2>1, <2>2
    DEF TypeOK, Rollback, DropVersions, Goto, Stages, tables, server, memory
  <2>3. CASE Release(r)
    BY <2>1, <2>3
    DEF TypeOK, Release, Return, Forget, Goto, Stages, tables, server
  <2>4. CASE FindBroken(r)
    BY <2>1, <2>4
    DEF TypeOK, FindBroken, Return, Forget, Goto, Stages, tables, server, memory
  <2>5. CASE StatementFails(r)
    BY <2>5
    DEF TypeOK, StatementFails, Abort, DropVersions, Goto, Stages, tables, memory
  <2>6. QED
    BY <1>16, <2>2, <2>3, <2>4, <2>5
<1>17. ASSUME NEW r \in Caller, Server(r)
       PROVE  TypeOK'
  <2>1. LateCommit(r) => id[r] \in Id
    BY DEF LocalInv, TransactionInv, LateCommit
  <2>2. QED
    BY <1>17, <2>1
    DEF TypeOK, Server, Reap, LateCommit, InstallVersions, Defined,
        DropVersions, ForgetId, tables
<1>18. ASSUME Crash
       PROVE  TypeOK'
  BY <1>18 DEF TypeOK, Crash, Stages, NoResult, Result, tables
<1>19. QED
  BY <1>1, <1>2, <1>3, <1>4, <1>5, <1>6, <1>7, <1>8, <1>9, <1>10, <1>11,
     <1>12, <1>13, <1>14, <1>15, <1>16, <1>17, <1>18
  DEF Next, Internal, Call, Statement, Fault

-----------------------------------------------------------------------------
(***************************************************************************)
(* What a step does to the tables.                                         *)
(***************************************************************************)

\* Only a transaction that ends well touches the tables: its versions become
\* the rows of its id.
LEMMA TablesStep ==
  ASSUME TypeOK, LocalInv, Next
  PROVE  \/ UNCHANGED tables
         \/ \E r \in Caller :
              /\ id[r] \in Id
              /\ (pc[r] = "commit" /\ conn[r] = "up") \/ tx[r] = "inDoubt"
              /\ auth' = [auth EXCEPT ![id[r]] = Defined(newAuth[r], @)]
              /\ users' = [users EXCEPT ![id[r]] = Defined(newUsers[r], @)]
<1>1. ASSUME NEW r \in Caller, Commit(r) \/ LateCommit(r)
      PROVE  /\ id[r] \in Id
             /\ (pc[r] = "commit" /\ conn[r] = "up") \/ tx[r] = "inDoubt"
             /\ auth' = [auth EXCEPT ![id[r]] = Defined(newAuth[r], @)]
             /\ users' = [users EXCEPT ![id[r]] = Defined(newUsers[r], @)]
  BY <1>1 DEF LocalInv, StageInv, TransactionInv, WriteStages, InTransaction,
              Commit, LateCommit, InstallVersions
<1>2. ASSUME NEW r \in Caller, Statement(r), ~Commit(r)
      PROVE  UNCHANGED tables
  <2>1. CASE GetAllRows(r) \/ GetAllCount(r) \/ GetById(r) \/ FindAuth(r)
             \/ FindUsers(r) \/ ReturnMissing(r) \/ ReturnReadonly(r)
             \/ PassCheck(r) \/ Connect(r) \/ Begin(r)
    BY <2>1
    DEF GetAllRows, GetAllCount, GetById, FindAuth, FindUsers, ReturnMissing,
        ReturnReadonly, PassCheck, Connect, Begin
  <2>2. CASE InsertAuth(r) \/ InsertUsers(r) \/ DeleteAuth(r)
             \/ DeleteUsers(r) \/ SelectAuth(r) \/ WriteAuth(r)
             \/ SelectUsers(r) \/ WriteUsers(r) 
    BY <2>2
    DEF InsertAuth, InsertUsers, DeleteAuth, DeleteUsers, SelectAuth, WriteAuth,
        SelectUsers, WriteUsers
  <2>3. CASE Rollback(r) \/ Release(r) \/ FindBroken(r)
    BY <2>3 DEF Rollback, Release, FindBroken
  <2>4. QED
    BY <1>2, <2>1, <2>2, <2>3 DEF Statement
<1>3. ASSUME NEW r \in Caller, Fault(r) \/ Reap(r) \/ Take(r)
      PROVE  UNCHANGED tables
  BY <1>3
  DEF Fault, QueryFails, CountFails, StatementFails, LoseConnection,
      LoseCommit, Reap, Take
<1>4. ASSUME Crash \/ \E r \in Caller, c \in Calls : Call(r, c)
      PROVE  UNCHANGED tables
  BY <1>4 DEF Crash, Call, CallCreate, CallOther
<1>5. UNCHANGED tables \/ \E r \in Caller : Commit(r) \/ LateCommit(r)
  BY <1>2, <1>3, <1>4 DEF Next, Internal, Server
<1>6. QED
  BY <1>1, <1>5

\* No step removes a row of auth or users, or changes a username or a salt.
LEMMA RowsStay ==
  ASSUME TypeOK, LocalInv, RowInv, Next
  PROVE  \A i \in Id :
           /\ auth[i] # None => /\ auth'[i] # None
                                /\ auth'[i].username = auth[i].username
                                /\ auth'[i].salt = auth[i].salt
           /\ users[i] # None => users'[i] # None
  BY TablesStep DEF TypeOK, RowInv, VersionInv, Defined, tables

\* The two rows of a user appear in one step.
LEMMA CreatedTogetherStep ==
  ASSUME TypeOK, LocalInv, RowInv, Next
  PROVE  CreatedTogether'
  BY TablesStep
  DEF TypeOK, RowInv, CreatedTogether, WholeInv, Defined, tables

\* A commit never makes a second live user of a username.
LEMMA UniqueStep ==
  ASSUME TypeOK, LocalInv, ClaimInv, UniqueLiveUsername, Next
  PROVE  UniqueLiveUsername'
  BY TablesStep
  DEF TypeOK, ClaimInv, UniqueLiveUsername, IsLive, Defined, tables

-----------------------------------------------------------------------------
(***************************************************************************)
(* The parts of the inductive invariant.                                   *)
(***************************************************************************)

\* Every operation keeps to its own stages.
LEMMA StageStep ==
  ASSUME TypeOK, LocalInv, Next, NEW q \in Caller
  PROVE  StageInv(q)'
<1>1. ASSUME NEW r \in Caller, NEW c \in Calls, Call(r, c)
      PROVE  StageInv(q)'
  BY <1>1, ArgumentsType
  DEF TypeOK, LocalInv, StageInv, FindStages, WriteStages, InTransaction, Call,
      CallCreate, CallOther, FirstStage, Goto
<1>2. ASSUME NEW r \in Caller, Take(r)
      PROVE  StageInv(q)'
  BY <1>2
  DEF TypeOK, LocalInv, StageInv, FindStages, WriteStages, InTransaction, Take,
      Goto
<1>3. ASSUME NEW r \in Caller,
             GetAllRows(r) \/ GetAllCount(r) \/ GetById(r) \/ FindAuth(r)
             \/ FindUsers(r)
      PROVE  StageInv(q)'
  BY <1>3
  DEF TypeOK, LocalInv, StageInv, FindStages, WriteStages, InTransaction,
      GetAllRows, GetAllCount, GetById, FindAuth, FindUsers, Find, Return, Goto
<1>4. ASSUME NEW r \in Caller,
             ReturnMissing(r) \/ ReturnReadonly(r) \/ PassCheck(r)
      PROVE  StageInv(q)'
  BY <1>4
  DEF TypeOK, LocalInv, StageInv, FindStages, ReturnMissing, ReturnReadonly,
      PassCheck, Missing, Return, Goto, memory
<1>5. ASSUME NEW r \in Caller, Connect(r) \/ Begin(r)
      PROVE  StageInv(q)'
  BY <1>5
  DEF TypeOK, LocalInv, StageInv, FindStages, WriteStages, Connect, Begin,
      AfterBegin, AfterAuth, Goto, memory
<1>6. ASSUME NEW r \in Caller,
             InsertAuth(r) \/ DeleteAuth(r) \/ WriteAuth(r)
      PROVE  StageInv(q)'
  BY <1>6
  DEF TypeOK, LocalInv, StageInv, FindStages, InsertAuth, DeleteAuth,
      WriteAuth, PutAuth, AfterAuth, Abort, Goto, memory
<1>7. ASSUME NEW r \in Caller,
             InsertUsers(r) \/ DeleteUsers(r) \/ WriteUsers(r)
      PROVE  StageInv(q)'
  BY <1>7
  DEF TypeOK, LocalInv, StageInv, FindStages, InsertUsers, DeleteUsers,
      WriteUsers, PutUsers, Goto, memory
<1>8. ASSUME NEW r \in Caller, SelectAuth(r) \/ SelectUsers(r)
      PROVE  StageInv(q)'
  BY <1>8
  DEF TypeOK, LocalInv, StageInv, SelectAuth, SelectUsers, AfterAuth, Goto
<1>9. ASSUME NEW r \in Caller, Commit(r) \/ Rollback(r) \/ Release(r)
      PROVE  StageInv(q)'
  BY <1>9
  DEF TypeOK, LocalInv, StageInv, FindStages, WriteStages, InTransaction,
      Commit, Rollback, Release, Return, Goto, memory
<1>10. ASSUME NEW r \in Caller,
              QueryFails(r) \/ CountFails(r) \/ StatementFails(r)
       PROVE  StageInv(q)'
  BY <1>10
  DEF TypeOK, LocalInv, StageInv, FindStages, WriteStages, InTransaction,
      QueryFails, CountFails, StatementFails, Abort, Return, Goto, memory
<1>11. ASSUME NEW r \in Caller,
              LoseConnection(r) \/ LoseCommit(r) \/ FindBroken(r)
       PROVE  StageInv(q)'
  BY <1>11
  DEF TypeOK, LocalInv, StageInv, FindStages, WriteStages, InTransaction,
      LoseConnection, LoseCommit, FindBroken, Return, Goto, memory
<1>12. ASSUME NEW r \in Caller, Server(r)
       PROVE  StageInv(q)'
  BY <1>12
  DEF TypeOK, LocalInv, StageInv, Server, Orphan, Reap, LateCommit, ForgetId
<1>13. ASSUME Crash
       PROVE  StageInv(q)'
  BY <1>13 DEF StageInv, FindStages, WriteStages, InTransaction, Crash
<1>14. QED
  BY <1>1, <1>2, <1>3, <1>4, <1>5, <1>6, <1>7, <1>8, <1>9, <1>10, <1>11,
     <1>12, <1>13
  DEF Next, Internal, Statement, Fault, Call

\* Connections, transactions and stages stay in agreement.
LEMMA TransactionStep ==
  ASSUME TypeOK, LocalInv, Next, NEW q \in Caller
  PROVE  TransactionInv(q)'
<1>1. ASSUME NEW r \in Caller, NEW c \in Calls, Call(r, c)
      PROVE  TransactionInv(q)'
  BY <1>1
  DEF TypeOK, LocalInv, TransactionInv, Call, CallCreate, CallOther,
      FirstStage, Goto, server
<1>2. ASSUME NEW r \in Caller, Take(r)
      PROVE  TransactionInv(q)'
  BY <1>2
  DEF LocalInv, TransactionInv, BeforeCommit, FindStages, InTransaction, Take,
      Goto, server
<1>3. ASSUME NEW r \in Caller,
             GetAllRows(r) \/ GetAllCount(r) \/ GetById(r) \/ FindAuth(r)
             \/ FindUsers(r)
      PROVE  TransactionInv(q)'
  BY <1>3
  DEF TypeOK, LocalInv, TransactionInv, FindStages, InTransaction, GetAllRows,
      GetAllCount, GetById, FindAuth, FindUsers, Find, Return, Goto, server
<1>4. ASSUME NEW r \in Caller,
             ReturnMissing(r) \/ ReturnReadonly(r) \/ PassCheck(r)
      PROVE  TransactionInv(q)'
  BY <1>4
  DEF TypeOK, LocalInv, TransactionInv, FindStages, ReturnMissing,
      ReturnReadonly, PassCheck, Missing, Return, Goto, server, memory
<1>5. ASSUME NEW r \in Caller, Connect(r) \/ Begin(r)
      PROVE  TransactionInv(q)'
  BY <1>5
  DEF TypeOK, LocalInv, TransactionInv, FindStages, InTransaction, Connect,
      Begin, AfterBegin, AfterAuth, Goto, server, memory
<1>6. ASSUME NEW r \in Caller,
             InsertAuth(r) \/ DeleteAuth(r) \/ WriteAuth(r)
      PROVE  TransactionInv(q)'
  BY <1>6
  DEF TypeOK, LocalInv, StageInv, TransactionInv, FindStages, InTransaction,
      InsertAuth, DeleteAuth, WriteAuth, PutAuth, AfterAuth, Abort,
      DropVersions, Goto, memory
<1>7. ASSUME NEW r \in Caller,
             InsertUsers(r) \/ DeleteUsers(r) \/ WriteUsers(r)
      PROVE  TransactionInv(q)'
  BY <1>7
  DEF TypeOK, LocalInv, StageInv, TransactionInv, FindStages, InTransaction,
      InsertUsers, DeleteUsers, WriteUsers, PutUsers, Goto, memory
<1>8. ASSUME NEW r \in Caller, SelectAuth(r) \/ SelectUsers(r)
      PROVE  TransactionInv(q)'
  BY <1>8
  DEF TypeOK, LocalInv, TransactionInv, FindStages, InTransaction, SelectAuth,
      SelectUsers, AfterAuth, Goto, server
<1>9. ASSUME NEW r \in Caller, Commit(r) \/ Rollback(r) \/ Release(r)
      PROVE  TransactionInv(q)'
  BY <1>9
  DEF TypeOK, LocalInv, TransactionInv, BeforeCommit, FindStages,
      InTransaction, Commit, Rollback, Release, InstallVersions, DropVersions,
      Return, Goto, server, memory
<1>10. ASSUME NEW r \in Caller,
              QueryFails(r) \/ CountFails(r) \/ StatementFails(r)
       PROVE  TransactionInv(q)'
  BY <1>10
  DEF TypeOK, LocalInv, TransactionInv, FindStages, InTransaction, QueryFails,
      CountFails, StatementFails, Abort, DropVersions, Return, Goto, server,
      memory
<1>11. ASSUME NEW r \in Caller,
              LoseConnection(r) \/ LoseCommit(r) \/ FindBroken(r)
       PROVE  TransactionInv(q)'
  BY <1>11
  DEF TypeOK, LocalInv, StageInv, TransactionInv, BeforeCommit, FindStages,
      WriteStages, InTransaction, LoseConnection, LoseCommit, FindBroken,
      Return, Goto, server, memory
<1>12. ASSUME NEW r \in Caller, Server(r)
       PROVE  TransactionInv(q)'
  BY <1>12
  DEF TypeOK, LocalInv, TransactionInv, Server, Orphan, Reap, LateCommit,
      InstallVersions, DropVersions, ForgetId
<1>13. ASSUME Crash
       PROVE  TransactionInv(q)'
  BY <1>13
  DEF LocalInv, StageInv, TransactionInv, BeforeCommit, FindStages,
      WriteStages, InTransaction, Crash
<1>14. QED
  BY <1>1, <1>2, <1>3, <1>4, <1>5, <1>6, <1>7, <1>8, <1>9, <1>10, <1>11,
     <1>12, <1>13
  DEF Next, Internal, Statement, Fault, Call

\* An operation takes its locks in order, whatever fails in between.
LEMMA HeldStep ==
  ASSUME TypeOK, LocalInv, Next, NEW q \in Caller
  PROVE  HeldInv(q)'
<1>1. ASSUME NEW r \in Caller, NEW c \in Calls, Call(r, c)
      PROVE  HeldInv(q)'
  BY <1>1
  DEF TypeOK, LocalInv, HeldInv, TransactionInv, Call, CallCreate, CallOther,
      FirstStage, Goto, server
<1>2. ASSUME NEW r \in Caller,
             Take(r) \/ GetAllRows(r) \/ GetAllCount(r) \/ GetById(r)
             \/ FindAuth(r) \/ FindUsers(r)
      PROVE  HeldInv(q)'
  BY <1>2
  DEF TypeOK, LocalInv, HeldInv, TransactionInv, FindStages, InTransaction,
      Take, GetAllRows, GetAllCount, GetById, FindAuth, FindUsers, Return,
      Goto, server
<1>3. ASSUME NEW r \in Caller,
             ReturnMissing(r) \/ ReturnReadonly(r) \/ PassCheck(r)
             \/ Connect(r) \/ Begin(r)
      PROVE  HeldInv(q)'
  BY <1>3
  DEF TypeOK, LocalInv, HeldInv, TransactionInv, FindStages, InTransaction,
      ReturnMissing, ReturnReadonly, PassCheck, Connect, Begin, AfterBegin,
      AfterAuth, Return, Goto, server, memory
<1>4. ASSUME NEW r \in Caller,
             InsertAuth(r) \/ DeleteAuth(r) \/ WriteAuth(r)
      PROVE  HeldInv(q)'
  BY <1>4
  DEF TypeOK, LocalInv, HeldInv, InTransaction, InsertAuth, DeleteAuth,
      WriteAuth, PutAuth, AfterAuth, Abort, DropVersions, Goto, memory
<1>5. ASSUME NEW r \in Caller,
             InsertUsers(r) \/ DeleteUsers(r) \/ WriteUsers(r)
      PROVE  HeldInv(q)'
  BY <1>5
  DEF TypeOK, LocalInv, HeldInv, InTransaction, InsertUsers, DeleteUsers,
      WriteUsers, PutUsers, Goto, memory
<1>6. ASSUME NEW r \in Caller, SelectAuth(r) \/ SelectUsers(r)
      PROVE  HeldInv(q)'
  BY <1>6
  DEF TypeOK, LocalInv, HeldInv, SelectAuth, SelectUsers, AfterAuth, Goto,
      server
<1>7. ASSUME NEW r \in Caller, Commit(r) \/ Rollback(r) \/ Release(r)
      PROVE  HeldInv(q)'
  BY <1>7
  DEF TypeOK, LocalInv, HeldInv, Commit, Rollback, Release, InstallVersions,
      DropVersions, Return, Goto, server, memory
<1>8. ASSUME NEW r \in Caller, Fault(r) \/ FindBroken(r)
      PROVE  HeldInv(q)'
  BY <1>8
  DEF TypeOK, LocalInv, HeldInv, TransactionInv, FindStages, InTransaction,
      Fault, QueryFails, CountFails, StatementFails, LoseConnection,
      LoseCommit, FindBroken, Abort, DropVersions, Return, Goto, server,
      memory
<1>9. ASSUME NEW r \in Caller, Server(r)
      PROVE  HeldInv(q)'
  BY <1>9
  DEF TypeOK, LocalInv, HeldInv, Server, Reap, LateCommit, InstallVersions,
      DropVersions
<1>10. ASSUME Crash
       PROVE  HeldInv(q)'
  BY <1>10 DEF HeldInv, Crash
<1>11. QED
  BY <1>1, <1>2, <1>3, <1>4, <1>5, <1>6, <1>7, <1>8, <1>9, <1>10
  DEF Next, Internal, Statement

\* What is in memory stays in agreement with the rows.
LEMMA EntityStep ==
  ASSUME TypeOK, LocalInv, RowInv, Next, NEW q \in Caller
  PROVE  EntityInv(q)'
<1>1. ASSUME NEW r \in Caller, NEW c \in Calls, Call(r, c)
      PROVE  EntityInv(q)'
  BY <1>1, RowsStay, NewEntities
  DEF TypeOK, LocalInv, StageInv, EntityInv, WriteStages, InTransaction, Call,
      CallCreate, CallOther, FirstStage, Goto
<1>2. ASSUME NEW r \in Caller, Take(r)
      PROVE  EntityInv(q)'
  BY <1>2, RowsStay
  DEF LocalInv, StageInv, EntityInv, WriteStages, InTransaction, Take, Goto
<1>3. ASSUME NEW r \in Caller,
             GetAllRows(r) \/ GetAllCount(r) \/ GetById(r) \/ FindAuth(r)
             \/ FindUsers(r)
      PROVE  EntityInv(q)'
  BY <1>3, RowsStay
  DEF TypeOK, LocalInv, StageInv, EntityInv, WriteStages, InTransaction,
      IsLive, GetAllRows, GetAllCount, GetById, FindAuth, FindUsers, Find,
      Return, Forget, Goto
<1>4. ASSUME NEW r \in Caller,
             ReturnMissing(r) \/ ReturnReadonly(r) \/ PassCheck(r)
      PROVE  EntityInv(q)'
  BY <1>4, RowsStay
  DEF TypeOK, LocalInv, StageInv, EntityInv, WriteStages, InTransaction,
      ReturnMissing, ReturnReadonly, PassCheck, Missing, Return, Forget, Goto,
      memory
<1>5. ASSUME NEW r \in Caller, Connect(r) \/ Begin(r)
      PROVE  EntityInv(q)'
  <2>1. CASE Begin(r) /\ arg[r].op = "update"
    <3>1. /\ authRow[r] \in AuthEntity /\ usersRow[r] \in UsersEntity
          /\ arg[r] \in Arguments
      BY <2>1 DEF TypeOK, LocalInv, EntityInv, StageInv, Begin, WriteStages
    <3>2. LET a == AssignAuth(authRow[r], arg[r])
              u == AssignUsers(usersRow[r], arg[r])
          IN /\ a \in AuthEntity /\ u \in UsersEntity
             /\ a.username = authRow[r].username /\ a.salt = authRow[r].salt
             /\ a.deleted = authRow[r].deleted
             /\ u.deleted = usersRow[r].deleted
      BY <2>1, <3>1, AssignedAuth, AssignedUsers
    <3>3. QED
      BY <2>1, <3>1, <3>2
      DEF TypeOK, LocalInv, EntityInv, Begin, AfterBegin, AfterAuth, Goto,
          tables
  <2>2. CASE Connect(r) \/ (Begin(r) /\ arg[r].op # "update")
    BY <2>2
    DEF TypeOK, LocalInv, EntityInv, WriteStages, Connect, Begin, AfterBegin,
        AfterAuth, Goto, tables, memory
  <2>3. QED
    BY <1>5, <2>1, <2>2
<1>6. ASSUME NEW r \in Caller,
             InsertAuth(r) \/ DeleteAuth(r) \/ WriteAuth(r)
      PROVE  EntityInv(q)'
  BY <1>6, RowsStay
  DEF TypeOK, LocalInv, StageInv, EntityInv, WriteStages, InTransaction,
      InsertAuth, DeleteAuth, WriteAuth, PutAuth, AfterAuth, Abort, Goto,
      memory
<1>7. ASSUME NEW r \in Caller,
             InsertUsers(r) \/ DeleteUsers(r) \/ WriteUsers(r)
      PROVE  EntityInv(q)'
  BY <1>7, RowsStay
  DEF TypeOK, LocalInv, StageInv, EntityInv, WriteStages, InTransaction,
      InsertUsers, DeleteUsers, WriteUsers, PutUsers, Goto, memory
<1>8. ASSUME NEW r \in Caller, SelectAuth(r) \/ SelectUsers(r)
      PROVE  EntityInv(q)'
  BY <1>8, RowsStay, DiffAuthColumns
  DEF TypeOK, LocalInv, StageInv, EntityInv, WriteStages, InTransaction,
      SelectAuth, SelectUsers, AfterAuth, Goto
<1>9. ASSUME NEW r \in Caller, Commit(r) \/ Rollback(r) \/ Release(r)
      PROVE  EntityInv(q)'
  BY <1>9, RowsStay
  DEF TypeOK, LocalInv, StageInv, EntityInv, WriteStages, InTransaction,
      Commit, Rollback, Release, Return, Forget, Goto, memory
<1>10. ASSUME NEW r \in Caller,
              QueryFails(r) \/ CountFails(r) \/ StatementFails(r)
       PROVE  EntityInv(q)'
  BY <1>10, RowsStay
  DEF TypeOK, LocalInv, StageInv, EntityInv, WriteStages, InTransaction,
      QueryFails, CountFails, StatementFails, Abort, Return, Forget, Goto,
      memory
<1>11. ASSUME NEW r \in Caller,
              LoseConnection(r) \/ LoseCommit(r) \/ FindBroken(r)
       PROVE  EntityInv(q)'
  BY <1>11, RowsStay
  DEF TypeOK, LocalInv, StageInv, EntityInv, WriteStages, InTransaction,
      LoseConnection, LoseCommit, FindBroken, Return, Forget, Goto, memory
<1>12. ASSUME NEW r \in Caller, Server(r)
       PROVE  EntityInv(q)'
  BY <1>12, RowsStay
  DEF TypeOK, LocalInv, StageInv, EntityInv, Server, Orphan, Reap, LateCommit,
      ForgetId
<1>13. ASSUME Crash
       PROVE  EntityInv(q)'
  BY <1>13 DEF EntityInv, WriteStages, InTransaction, Crash
<1>14. QED
  BY <1>1, <1>2, <1>3, <1>4, <1>5, <1>6, <1>7, <1>8, <1>9, <1>10, <1>11,
     <1>12, <1>13
  DEF Next, Internal, Statement, Fault, Call

\* What a statement writes into auth: the new user's row, or the row that is
\* there with the deletion mark or some other columns changed.
LEMMA RowPut ==
  ASSUME TypeOK, LocalInv, CreatorInv, NEW r \in Caller,
         InsertAuth(r) \/ DeleteAuth(r) \/ WriteAuth(r)
  PROVE  /\ id[r] \in Id
         /\ UNCHANGED <<tables, conn, memory, ret>>
         /\ \E row \in AuthEntity :
              /\ PutAuth(r, row)
              /\ \/ InsertAuth(r) /\ row = authRow[r] /\ auth[id[r]] = None
                 \/ /\ DeleteAuth(r) \/ WriteAuth(r)
                    /\ auth[id[r]] # None
                    /\ row.username = auth[id[r]].username
                    /\ row.salt = auth[id[r]].salt
                    /\ WriteAuth(r) =>
                         /\ row.role \in {authRow[r].role, auth[id[r]].role}
                         /\ row.deleted => auth[id[r]].deleted
<1>1. /\ id[r] \in Id /\ authRow[r] \in AuthEntity /\ ~authRow[r].deleted
      /\ UNCHANGED <<tables, conn, memory, ret>>
  BY DEF TypeOK, LocalInv, EntityInv, StageInv, WriteStages, InTransaction,
         InsertAuth, DeleteAuth, WriteAuth
<1>2. CASE InsertAuth(r)
  <2>1. auth[id[r]] = None
    BY <1>2 DEF LocalInv, StageInv, CreatorInv, BeforeCommit, InTransaction,
                InsertAuth
  <2>2. QED
    BY <1>1, <1>2, <2>1 DEF InsertAuth
<1>3. CASE DeleteAuth(r)
  <2>1. auth[id[r]] \in AuthEntity
    BY <1>1, <1>3 DEF TypeOK, LocalInv, StageInv, EntityInv, DeleteAuth
  <2>2. ~ WriteAuth(r)
    BY <1>3 DEF DeleteAuth, WriteAuth
  <2>3. PutAuth(r, SoftDelete(auth[id[r]]))
    BY <1>3 DEF DeleteAuth
  <2>4. QED
    BY <1>1, <1>3, <2>1, <2>2, <2>3, SoftDeletedAuth
<1>4. CASE WriteAuth(r)
  <2>1. /\ auth[id[r]] \in AuthEntity
        /\ columns[r] \subseteq {"password", "role", "deleted"}
    BY <1>1, <1>4 DEF TypeOK, LocalInv, StageInv, EntityInv, WriteAuth
  <2>2. PutAuth(r, UpdateColumns(auth[id[r]], authRow[r], columns[r]))
    BY <1>4 DEF WriteAuth
  <2>3. QED
    BY <1>1, <1>4, <2>1, <2>2, UpdateAuthColumns
<1>5. QED
  BY <1>2, <1>3, <1>4

\* A row version keeps the username and the salt of its row.
LEMMA VersionStep ==
  ASSUME TypeOK, LocalInv, RowInv, CreatorInv, Next, NEW q \in Caller
  PROVE  VersionInv(q)'
<1>1. ASSUME NEW r \in Caller, NEW c \in Calls, Call(r, c)
      PROVE  VersionInv(q)'
  BY <1>1
  DEF TypeOK, LocalInv, TransactionInv, RowInv, VersionInv, Call, CallCreate,
      CallOther, FirstStage, tables, server
<1>2. ASSUME NEW r \in Caller, Take(r)
      PROVE  VersionInv(q)'
  BY <1>2
  DEF LocalInv, TransactionInv, RowInv, VersionInv, Take, tables, server
<1>3. ASSUME NEW r \in Caller,
             GetAllRows(r) \/ GetAllCount(r) \/ GetById(r) \/ FindAuth(r)
             \/ FindUsers(r)
      PROVE  VersionInv(q)'
  BY <1>3
  DEF RowInv, VersionInv, GetAllRows, GetAllCount, GetById, FindAuth,
      FindUsers, Find, Return, tables, server
<1>4. ASSUME NEW r \in Caller,
             ReturnMissing(r) \/ ReturnReadonly(r) \/ PassCheck(r)
      PROVE  VersionInv(q)'
  BY <1>4
  DEF RowInv, VersionInv, ReturnMissing, ReturnReadonly, PassCheck, Missing,
      Return, tables, server, memory
<1>5. ASSUME NEW r \in Caller, Connect(r) \/ Begin(r)
      PROVE  VersionInv(q)'
  BY <1>5
  DEF RowInv, VersionInv, Connect, Begin, AfterBegin, tables, server, memory
<1>6. ASSUME NEW r \in Caller,
             InsertAuth(r) \/ DeleteAuth(r) \/ WriteAuth(r)
      PROVE  VersionInv(q)'
  <2>1. PICK row \in AuthEntity :
          /\ PutAuth(r, row)
          /\ auth[id[r]] # None => /\ row.username = auth[id[r]].username
                                   /\ row.salt = auth[id[r]].salt
    BY <1>6, RowPut
  <2>2. UNCHANGED <<tables, memory>>
    BY <1>6, RowPut
  <2>3. QED
    BY <2>1, <2>2
    DEF TypeOK, RowInv, VersionInv, PutAuth, Abort, DropVersions, tables, memory
<1>7. ASSUME NEW r \in Caller,
             InsertUsers(r) \/ DeleteUsers(r) \/ WriteUsers(r)
      PROVE  VersionInv(q)'
  BY <1>7
  DEF RowInv, VersionInv, InsertUsers, DeleteUsers, WriteUsers, PutUsers,
      tables, memory
<1>8. ASSUME NEW r \in Caller, SelectAuth(r) \/ SelectUsers(r)
      PROVE  VersionInv(q)'
  BY <1>8
  DEF RowInv, VersionInv, SelectAuth, SelectUsers, tables, server
<1>9. ASSUME NEW r \in Caller, Commit(r) \/ Rollback(r) \/ Release(r)
      PROVE  VersionInv(q)'
  BY <1>9
  DEF TypeOK, LocalInv, TransactionInv, RowInv, VersionInv, CreatorInv,
      Creates, Defined, Commit, Rollback, Release, InstallVersions,
      DropVersions, Return, tables, server, memory
<1>10. ASSUME NEW r \in Caller,
              QueryFails(r) \/ CountFails(r) \/ StatementFails(r)
       PROVE  VersionInv(q)'
  BY <1>10
  DEF TypeOK, RowInv, VersionInv, QueryFails, CountFails, StatementFails,
      Abort, DropVersions, Return, tables, server, memory
<1>11. ASSUME NEW r \in Caller,
              LoseConnection(r) \/ LoseCommit(r) \/ FindBroken(r)
       PROVE  VersionInv(q)'
  BY <1>11
  DEF RowInv, VersionInv, LoseConnection, LoseCommit, FindBroken, Return,
      tables, server, memory
<1>12. ASSUME NEW r \in Caller, Server(r)
       PROVE  VersionInv(q)'
  BY <1>12
  DEF TypeOK, LocalInv, TransactionInv, RowInv, VersionInv, CreatorInv,
      Creates, Defined, Server, Orphan, Reap, LateCommit, InstallVersions,
      DropVersions, ForgetId, tables
<1>13. ASSUME Crash
       PROVE  VersionInv(q)'
  BY <1>13
  DEF LocalInv, TransactionInv, RowInv, VersionInv, Crash, tables
<1>14. QED
  BY <1>1, <1>2, <1>3, <1>4, <1>5, <1>6, <1>7, <1>8, <1>9, <1>10, <1>11,
     <1>12, <1>13
  DEF Next, Internal, Statement, Fault, Call

\* A transaction that may commit leaves a row in both tables, still.
LEMMA WholeStep ==
  ASSUME TypeOK, LocalInv, RowInv, CreatorInv, Next, NEW q \in Caller
  PROVE  WholeInv(q)'
<1>1. ASSUME NEW r \in Caller, NEW c \in Calls, Call(r, c)
      PROVE  WholeInv(q)'
  BY <1>1, RowsStay
  DEF TypeOK, LocalInv, StageInv, TransactionInv, WriteStages, InTransaction,
      RowInv, WholeInv, Call, CallCreate, CallOther, FirstStage, Goto, server
<1>2. ASSUME NEW r \in Caller, Take(r)
      PROVE  WholeInv(q)'
  BY <1>2, RowsStay
  DEF LocalInv, StageInv, TransactionInv, WriteStages, InTransaction, RowInv,
      WholeInv, Take, Goto, server
<1>3. ASSUME NEW r \in Caller,
             GetAllRows(r) \/ GetAllCount(r) \/ GetById(r) \/ FindAuth(r)
             \/ FindUsers(r)
      PROVE  WholeInv(q)'
  BY <1>3, RowsStay
  DEF TypeOK, LocalInv, StageInv, TransactionInv, WriteStages, InTransaction,
      RowInv, WholeInv, GetAllRows, GetAllCount, GetById, FindAuth, FindUsers,
      Find, Return, Goto, server
<1>4. ASSUME NEW r \in Caller,
             ReturnMissing(r) \/ ReturnReadonly(r) \/ PassCheck(r)
      PROVE  WholeInv(q)'
  BY <1>4, RowsStay
  DEF TypeOK, LocalInv, StageInv, TransactionInv, WriteStages, InTransaction,
      RowInv, WholeInv, ReturnMissing, ReturnReadonly, PassCheck, Missing,
      Return, Goto, server, memory
<1>5. ASSUME NEW r \in Caller, Connect(r) \/ Begin(r)
      PROVE  WholeInv(q)'
  BY <1>5, RowsStay
  DEF TypeOK, LocalInv, StageInv, EntityInv, TransactionInv, WriteStages,
      InTransaction, RowInv, WholeInv, Connect, Begin, AfterBegin, AfterAuth,
      Goto, server, memory
<1>6. ASSUME NEW r \in Caller,
             InsertAuth(r) \/ DeleteAuth(r) \/ WriteAuth(r)
      PROVE  WholeInv(q)'
  <2>1. PICK row \in AuthEntity : PutAuth(r, row)
    BY <1>6, RowPut
  <2>2. /\ UNCHANGED <<tables, conn, memory>>
        /\ InsertAuth(r) \/ auth[id[r]] # None
    BY <1>6, RowPut
  <2>3. QED
    BY <1>6, <2>1, <2>2
    DEF TypeOK, RowInv, WholeInv, PutAuth, AfterAuth, Abort, DropVersions,
        Goto, LocalInv, StageInv, InsertAuth, DeleteAuth, WriteAuth, tables,
        memory
<1>7. ASSUME NEW r \in Caller,
             InsertUsers(r) \/ DeleteUsers(r) \/ WriteUsers(r)
      PROVE  WholeInv(q)'
  BY <1>7, RowsStay
  DEF TypeOK, LocalInv, StageInv, EntityInv, TransactionInv, WriteStages,
      InTransaction, RowInv, WholeInv, InsertUsers, DeleteUsers, WriteUsers,
      PutUsers, Goto, memory
<1>8. ASSUME NEW r \in Caller, SelectAuth(r) \/ SelectUsers(r)
      PROVE  WholeInv(q)'
  BY <1>8, RowsStay
  DEF TypeOK, LocalInv, StageInv, EntityInv, TransactionInv, WriteStages,
      InTransaction, RowInv, WholeInv, SelectAuth, SelectUsers, AfterAuth,
      Goto, server
<1>9. ASSUME NEW r \in Caller, Commit(r) \/ Rollback(r) \/ Release(r)
      PROVE  WholeInv(q)'
  BY <1>9, RowsStay
  DEF TypeOK, LocalInv, StageInv, TransactionInv, WriteStages, InTransaction,
      RowInv, WholeInv, Commit, Rollback, Release, InstallVersions,
      DropVersions, Return, Goto, server, memory
<1>10. ASSUME NEW r \in Caller,
              QueryFails(r) \/ CountFails(r) \/ StatementFails(r)
       PROVE  WholeInv(q)'
  BY <1>10, RowsStay
  DEF TypeOK, LocalInv, StageInv, TransactionInv, WriteStages, InTransaction,
      RowInv, WholeInv, QueryFails, CountFails, StatementFails, Abort,
      DropVersions, Return, Goto, server, memory
<1>11. ASSUME NEW r \in Caller,
              LoseConnection(r) \/ LoseCommit(r) \/ FindBroken(r)
       PROVE  WholeInv(q)'
  BY <1>11, RowsStay
  DEF TypeOK, LocalInv, StageInv, TransactionInv, WriteStages, InTransaction,
      RowInv, WholeInv, LoseConnection, LoseCommit, FindBroken, Return, Goto,
      server, memory
<1>12. ASSUME NEW r \in Caller, Server(r)
       PROVE  WholeInv(q)'
  BY <1>12, RowsStay
  DEF TypeOK, LocalInv, StageInv, TransactionInv, WriteStages, InTransaction,
      RowInv, WholeInv, Server, Orphan, Reap, LateCommit, InstallVersions,
      DropVersions, ForgetId
<1>13. ASSUME Crash
       PROVE  WholeInv(q)'
  BY <1>13, RowsStay
  DEF LocalInv, StageInv, TransactionInv, WriteStages, InTransaction, RowInv,
      WholeInv, Crash
<1>14. QED
  BY <1>1, <1>2, <1>3, <1>4, <1>5, <1>6, <1>7, <1>8, <1>9, <1>10, <1>11,
     <1>12, <1>13
  DEF Next, Internal, Statement, Fault, Call

\* The id of a create() in progress stays without rows, and its own.
LEMMA CreatorStep ==
  ASSUME TypeOK, LocalInv, CreatorInv, RowInv, Next
  PROVE  CreatorInv'
<1>1. ASSUME NEW r \in Caller, NEW c \in Calls, Call(r, c)
      PROVE  CreatorInv'
  BY <1>1, RowsStay
  DEF TypeOK, LocalInv, StageInv, EntityInv, TransactionInv, FindStages,
      WriteStages, InTransaction, CreatorInv, Creates, BeforeCommit, Defined,
      Fresh, Call, CallCreate, CallOther, FirstStage, Goto, tables, server
<1>2. ASSUME NEW r \in Caller, Take(r)
      PROVE  CreatorInv'
  BY <1>2
  DEF LocalInv, TransactionInv, InTransaction, CreatorInv, Creates,
      BeforeCommit, Take, Goto, tables, server
<1>3. ASSUME NEW r \in Caller,
             GetAllRows(r) \/ GetAllCount(r) \/ GetById(r) \/ FindAuth(r)
             \/ FindUsers(r)
      PROVE  CreatorInv'
  BY <1>3
  DEF TypeOK, InTransaction, CreatorInv, Creates, BeforeCommit, GetAllRows,
      GetAllCount, GetById, FindAuth, FindUsers, Find, Return, Goto, tables,
      server
<1>4. ASSUME NEW r \in Caller,
             ReturnMissing(r) \/ ReturnReadonly(r) \/ PassCheck(r)
      PROVE  CreatorInv'
  BY <1>4
  DEF TypeOK, LocalInv, StageInv, FindStages, CreatorInv, Creates,
      ReturnMissing, ReturnReadonly, PassCheck, Missing, Return, Goto, tables,
      server, memory
<1>5. ASSUME NEW r \in Caller, Connect(r) \/ Begin(r)
      PROVE  CreatorInv'
  BY <1>5
  DEF TypeOK, CreatorInv, Creates, BeforeCommit, Connect, Begin, AfterBegin,
      Goto, tables, server, memory
<1>6. ASSUME NEW r \in Caller,
             InsertAuth(r) \/ DeleteAuth(r) \/ WriteAuth(r)
      PROVE  CreatorInv'
  <2>1. PICK row \in AuthEntity : PutAuth(r, row)
    BY <1>6, RowPut
  <2>2. /\ UNCHANGED <<tables, conn, memory>> /\ id[r] \in Id
        /\ InsertAuth(r) \/ auth[id[r]] # None
    BY <1>6, RowPut
  <2>3. /\ pc[r] \in BeforeCommit
        /\ arg[r].op = "create" <=> InsertAuth(r)
    BY <1>6
    DEF LocalInv, StageInv, BeforeCommit, InTransaction, InsertAuth, DeleteAuth,
        WriteAuth
  <2>4. \A o \in Caller : Creates(o)' => Creates(o)
    BY <2>1, <2>2, <2>3
    DEF TypeOK, Creates, PutAuth, Abort, DropVersions, Goto, tables, memory
  <2>5. QED
    BY <2>1, <2>2, <2>3, <2>4
    DEF TypeOK, CreatorInv, PutAuth, Abort, Goto, tables, memory
<1>7. ASSUME NEW r \in Caller,
             InsertUsers(r) \/ DeleteUsers(r) \/ WriteUsers(r)
      PROVE  CreatorInv'
  BY <1>7
  DEF TypeOK, InTransaction, CreatorInv, Creates, BeforeCommit, InsertUsers,
      DeleteUsers, WriteUsers, PutUsers, Goto, tables, memory
<1>8. ASSUME NEW r \in Caller, SelectAuth(r) \/ SelectUsers(r)
      PROVE  CreatorInv'
  BY <1>8
  DEF TypeOK, InTransaction, CreatorInv, Creates, BeforeCommit, SelectAuth,
      SelectUsers, Goto, tables, server
<1>9. ASSUME NEW r \in Caller, Commit(r) \/ Rollback(r) \/ Release(r)
      PROVE  CreatorInv'
  BY <1>9
  DEF TypeOK, LocalInv, StageInv, TransactionInv, InTransaction, CreatorInv,
      Creates, BeforeCommit, Defined, Commit, Rollback, Release,
      InstallVersions, DropVersions, Return, Goto, tables, server, memory
<1>10. ASSUME NEW r \in Caller,
              QueryFails(r) \/ CountFails(r) \/ StatementFails(r)
       PROVE  CreatorInv'
  BY <1>10
  DEF TypeOK, InTransaction, CreatorInv, Creates, BeforeCommit, QueryFails,
      CountFails, StatementFails, Abort, DropVersions, Return, Goto, tables,
      server, memory
<1>11. ASSUME NEW r \in Caller,
              LoseConnection(r) \/ LoseCommit(r) \/ FindBroken(r)
       PROVE  CreatorInv'
  BY <1>11
  DEF TypeOK, InTransaction, CreatorInv, Creates, BeforeCommit, LoseConnection,
      LoseCommit, FindBroken, Return, Goto, tables, server, memory
<1>12. ASSUME NEW r \in Caller, Server(r)
       PROVE  CreatorInv'
  BY <1>12, RowsStay
  DEF TypeOK, LocalInv, StageInv, EntityInv, TransactionInv, FindStages,
      InTransaction, CreatorInv, Creates, BeforeCommit, Defined, Server,
      Orphan, Reap, LateCommit, InstallVersions, DropVersions, ForgetId, tables
<1>13. ASSUME Crash
       PROVE  CreatorInv'
  BY <1>13, RowsStay
  DEF TypeOK, LocalInv, StageInv, EntityInv, TransactionInv, FindStages,
      WriteStages, InTransaction, CreatorInv, Creates, BeforeCommit, Defined,
      Crash, tables
<1>14. QED
  BY <1>1, <1>2, <1>3, <1>4, <1>5, <1>6, <1>7, <1>8, <1>9, <1>10, <1>11,
     <1>12, <1>13
  DEF Next, Internal, Statement, Fault, Call

\* Row locks exclude each other.
LEMMA RowLockStep ==
  ASSUME TypeOK, LocalInv, RowLockInv, Next
  PROVE  RowLockInv'
<1>1. ASSUME NEW r \in Caller, NEW c \in Calls, Call(r, c)
      PROVE  RowLockInv'
  BY <1>1
  DEF TypeOK, LocalInv, TransactionInv, RowLockInv, Call, CallCreate,
      CallOther, FirstStage, server
<1>2. ASSUME NEW r \in Caller, Take(r)
      PROVE  RowLockInv'
  BY <1>2 DEF LocalInv, TransactionInv, RowLockInv, Take, server
<1>3. ASSUME NEW r \in Caller,
             GetAllRows(r) \/ GetAllCount(r) \/ GetById(r) \/ FindAuth(r)
             \/ FindUsers(r)
      PROVE  RowLockInv'
  BY <1>3
  DEF RowLockInv, GetAllRows, GetAllCount, GetById, FindAuth, FindUsers, Find,
      Return, server
<1>4. ASSUME NEW r \in Caller,
             ReturnMissing(r) \/ ReturnReadonly(r) \/ PassCheck(r)
      PROVE  RowLockInv'
  BY <1>4
  DEF RowLockInv, ReturnMissing, ReturnReadonly, PassCheck, Missing, Return,
      server, memory
<1>5. ASSUME NEW r \in Caller, Connect(r) \/ Begin(r)
      PROVE  RowLockInv'
  BY <1>5 DEF RowLockInv, Connect, Begin, AfterBegin, server, memory
<1>6. ASSUME NEW r \in Caller,
             InsertAuth(r) \/ DeleteAuth(r) \/ WriteAuth(r)
      PROVE  RowLockInv'
  BY <1>6
  DEF TypeOK, RowLockInv, AuthLocked, InsertAuth, DeleteAuth, WriteAuth,
      PutAuth, Abort, DropVersions, memory
<1>7. ASSUME NEW r \in Caller,
             InsertUsers(r) \/ DeleteUsers(r) \/ WriteUsers(r)
      PROVE  RowLockInv'
  BY <1>7 DEF RowLockInv, InsertUsers, DeleteUsers, WriteUsers, PutUsers, memory
<1>8. ASSUME NEW r \in Caller, SelectAuth(r) \/ SelectUsers(r)
      PROVE  RowLockInv'
  BY <1>8 DEF RowLockInv, SelectAuth, SelectUsers, server
<1>9. ASSUME NEW r \in Caller, Commit(r) \/ Rollback(r) \/ Release(r)
      PROVE  RowLockInv'
  BY <1>9
  DEF TypeOK, RowLockInv, Commit, Rollback, Release, InstallVersions,
      DropVersions, Return, server, memory
<1>10. ASSUME NEW r \in Caller,
              QueryFails(r) \/ CountFails(r) \/ StatementFails(r)
       PROVE  RowLockInv'
  BY <1>10
  DEF TypeOK, RowLockInv, QueryFails, CountFails, StatementFails, Abort,
      DropVersions, Return, server, memory
<1>11. ASSUME NEW r \in Caller,
              LoseConnection(r) \/ LoseCommit(r) \/ FindBroken(r)
       PROVE  RowLockInv'
  BY <1>11
  DEF RowLockInv, LoseConnection, LoseCommit, FindBroken, Return, server,
      memory
<1>12. ASSUME NEW r \in Caller, Server(r)
       PROVE  RowLockInv'
  BY <1>12
  DEF TypeOK, RowLockInv, Server, Orphan, Reap, LateCommit, InstallVersions,
      DropVersions, ForgetId
<1>13. ASSUME Crash
       PROVE  RowLockInv'
  BY <1>13 DEF LocalInv, TransactionInv, RowLockInv, Crash
<1>14. QED
  BY <1>1, <1>2, <1>3, <1>4, <1>5, <1>6, <1>7, <1>8, <1>9, <1>10, <1>11,
     <1>12, <1>13
  DEF Next, Internal, Statement, Fault, Call

\* The unique index keeps live usernames claimed by one row or version.
LEMMA ClaimStep ==
  ASSUME TypeOK, LocalInv, CreatorInv, RowLockInv, ClaimInv, Next
  PROVE  ClaimInv'
<1>1. ASSUME NEW r \in Caller, NEW c \in Calls, Call(r, c)
      PROVE  ClaimInv'
  BY <1>1
  DEF TypeOK, LocalInv, TransactionInv, ClaimInv, IsLive, Call, CallCreate,
      CallOther, FirstStage, tables, server
<1>2. ASSUME NEW r \in Caller, Take(r)
      PROVE  ClaimInv'
  BY <1>2 DEF LocalInv, TransactionInv, ClaimInv, IsLive, Take, tables, server
<1>3. ASSUME NEW r \in Caller,
             GetAllRows(r) \/ GetAllCount(r) \/ GetById(r) \/ FindAuth(r)
             \/ FindUsers(r)
      PROVE  ClaimInv'
  BY <1>3
  DEF ClaimInv, GetAllRows, GetAllCount, GetById, FindAuth, FindUsers, Find,
      Return, tables, server
<1>4. ASSUME NEW r \in Caller,
             ReturnMissing(r) \/ ReturnReadonly(r) \/ PassCheck(r)
      PROVE  ClaimInv'
  BY <1>4
  DEF ClaimInv, ReturnMissing, ReturnReadonly, PassCheck, Missing, Return,
      tables, server, memory
<1>5. ASSUME NEW r \in Caller, Connect(r) \/ Begin(r)
      PROVE  ClaimInv'
  BY <1>5 DEF ClaimInv, Connect, Begin, AfterBegin, tables, server, memory
<1>6. ASSUME NEW r \in Caller,
             InsertAuth(r) \/ DeleteAuth(r) \/ WriteAuth(r)
      PROVE  ClaimInv'
  <2>1. PICK row \in AuthEntity : PutAuth(r, row)
    BY <1>6, RowPut
  <2>2. UNCHANGED <<tables, memory>> /\ id[r] \in Id
    BY <1>6, RowPut
  <2>3. CASE newAuth' = [newAuth EXCEPT ![r] = row]
    <3>1. ~AuthLocked(r)
      BY <2>1 DEF PutAuth
    <3>2. IsLive(row) =>
            ~UsernameAwaited(r, row.username) /\ ~UsernameTaken(r, row.username)
      <4>1. newAuth'[r] # None
        BY <2>3 DEF TypeOK
      <4>2. QED
        BY <2>1, <4>1 DEF TypeOK, PutAuth, Abort, DropVersions
    <3>3. IsLive(row) =>
            /\ \A i \in Id \ {id[r]} :
                 IsLive(auth[i]) => auth[i].username # row.username
            /\ \A o \in Caller \ {r} :
                 IsLive(newAuth[o]) => newAuth[o].username # row.username
      BY <3>1, <3>2 DEF AuthLocked, UsernameAwaited, UsernameTaken, IsLive
    <3>4. QED
      BY <2>2, <2>3, <3>3 DEF TypeOK, ClaimInv, tables, memory, IsLive
  <2>4. CASE newAuth' = [newAuth EXCEPT ![r] = None]
    BY <2>2, <2>4 DEF TypeOK, ClaimInv, tables, memory, IsLive
  <2>5. QED
    BY <2>1, <2>3, <2>4 DEF PutAuth, Abort, DropVersions
<1>7. ASSUME NEW r \in Caller,
             InsertUsers(r) \/ DeleteUsers(r) \/ WriteUsers(r)
      PROVE  ClaimInv'
  BY <1>7
  DEF ClaimInv, InsertUsers, DeleteUsers, WriteUsers, PutUsers, tables, memory
<1>8. ASSUME NEW r \in Caller, SelectAuth(r) \/ SelectUsers(r)
      PROVE  ClaimInv'
  BY <1>8 DEF ClaimInv, SelectAuth, SelectUsers, tables, server
<1>9. ASSUME NEW r \in Caller, Commit(r) \/ Rollback(r) \/ Release(r)
      PROVE  ClaimInv'
  BY <1>9
  DEF TypeOK, ClaimInv, IsLive, Defined, Commit, Rollback, Release,
      InstallVersions, DropVersions, Return, tables, server, memory
<1>10. ASSUME NEW r \in Caller,
              QueryFails(r) \/ CountFails(r) \/ StatementFails(r)
       PROVE  ClaimInv'
  BY <1>10
  DEF TypeOK, ClaimInv, IsLive, QueryFails, CountFails, StatementFails, Abort,
      DropVersions, Return, tables, server, memory
<1>11. ASSUME NEW r \in Caller,
              LoseConnection(r) \/ LoseCommit(r) \/ FindBroken(r)
       PROVE  ClaimInv'
  BY <1>11
  DEF ClaimInv, LoseConnection, LoseCommit, FindBroken, Return, tables, server,
      memory
<1>12. ASSUME NEW r \in Caller, Server(r)
       PROVE  ClaimInv'
  BY <1>12
  DEF TypeOK, ClaimInv, IsLive, Defined, Server, Orphan, Reap, LateCommit,
      InstallVersions, DropVersions, ForgetId, tables
<1>13. ASSUME Crash
       PROVE  ClaimInv'
  BY <1>13 DEF LocalInv, TransactionInv, ClaimInv, IsLive, Crash, tables
<1>14. QED
  BY <1>1, <1>2, <1>3, <1>4, <1>5, <1>6, <1>7, <1>8, <1>9, <1>10, <1>11,
     <1>12, <1>13
  DEF Next, Internal, Statement, Fault, Call

\* Nobody takes the deletion or the degradation of the administrator in hand.
LEMMA AdminStep ==
  ASSUME TypeOK, LocalInv, CreatorInv, AdminProtected,
         \A r \in Caller : AdminInv(r), Next, NEW q \in Caller
  PROVE  AdminInv(q)'
<1>1. ASSUME NEW r \in Caller, NEW c \in Calls, Call(r, c)
      PROVE  AdminInv(q)'
  BY <1>1
  DEF TypeOK, LocalInv, EntityInv, TransactionInv, WriteStages, InTransaction,
      AdminInv, AdminProtected, IsLive, Fresh, Call, CallCreate, CallOther,
      FirstStage, Goto, server
<1>2. ASSUME NEW r \in Caller, Take(r)
      PROVE  AdminInv(q)'
  BY <1>2 DEF WriteStages, InTransaction, AdminInv, Take, Goto, server
<1>3. ASSUME NEW r \in Caller,
             GetAllRows(r) \/ GetAllCount(r) \/ GetById(r) \/ FindAuth(r)
             \/ FindUsers(r)
      PROVE  AdminInv(q)'
  BY <1>3
  DEF TypeOK, WriteStages, InTransaction, AdminInv, AdminProtected, IsLive,
      Find, GetAllRows, GetAllCount, GetById, FindAuth, FindUsers, Return,
      Forget, Goto, server
<1>4. ASSUME NEW r \in Caller,
             ReturnMissing(r) \/ ReturnReadonly(r) \/ PassCheck(r)
      PROVE  AdminInv(q)'
  BY <1>4
  DEF TypeOK, LocalInv, StageInv, EntityInv, FindStages, WriteStages,
      InTransaction, AdminInv, AdminProtected, Readonly, ReturnMissing,
      ReturnReadonly, PassCheck, Missing, Return, Forget, Goto, server, memory
<1>5. ASSUME NEW r \in Caller, Connect(r) \/ Begin(r)
      PROVE  AdminInv(q)'
  <2>1. CASE Begin(r) /\ arg[r].op = "update"
    <3>1. /\ authRow[r] \in AuthEntity /\ usersRow[r] \in UsersEntity
          /\ arg[r] \in Arguments
      BY <2>1 DEF TypeOK, LocalInv, EntityInv, StageInv, Begin, WriteStages
    <3>2. /\ AssignAuth(authRow[r], arg[r]).role =
               Defined(arg[r].role, authRow[r].role)
          /\ AssignUsers(usersRow[r], arg[r]).deleted = usersRow[r].deleted
      BY <2>1, <3>1, AssignedAuth, AssignedUsers
    <3>3. QED
      BY <2>1, <3>1, <3>2
      DEF TypeOK, AdminInv, WriteStages, Begin, AfterBegin, Defined, Goto
  <2>2. CASE Connect(r) \/ (Begin(r) /\ arg[r].op # "update")
    BY <2>2
    DEF TypeOK, AdminInv, WriteStages, Connect, Begin, Goto, server, memory
  <2>3. QED
    BY <1>5, <2>1, <2>2
<1>6. ASSUME NEW r \in Caller,
             InsertAuth(r) \/ DeleteAuth(r) \/ WriteAuth(r)
      PROVE  AdminInv(q)'
  <2>1. InsertAuth(r) => ~WriteAuth(r)
    BY DEF InsertAuth, WriteAuth
  <2>2. PICK row \in AuthEntity :
          /\ PutAuth(r, row)
          /\ WriteAuth(r) => /\ row.role \in {authRow[r].role, auth[id[r]].role}
                             /\ row.deleted => auth[id[r]].deleted
    BY <1>6, <2>1, RowPut
  <2>3. UNCHANGED <<tables, memory>>
    BY <1>6, RowPut
  <2>4. /\ pc[r] \in WriteStages /\ authRow[r] # None
        /\ id[r] = AdminId => WriteAuth(r)
    BY <1>6
    DEF LocalInv, StageInv, EntityInv, AdminInv, WriteStages, InTransaction,
        InsertAuth, DeleteAuth, WriteAuth
  <2>5. QED
    BY <2>2, <2>3, <2>4
    DEF TypeOK, AdminProtected, AdminInv, IsLive, PutAuth, Abort, DropVersions,
        Goto, memory
<1>7. ASSUME NEW r \in Caller,
             InsertUsers(r) \/ DeleteUsers(r) \/ WriteUsers(r)
      PROVE  AdminInv(q)'
  <2>1. /\ usersRow[r] \in UsersEntity /\ id[r] \in Id
        /\ id[r] = AdminId => WriteUsers(r)
    BY <1>7
    DEF TypeOK, LocalInv, StageInv, EntityInv, AdminInv, WriteStages,
        InTransaction, InsertUsers, DeleteUsers, WriteUsers
  <2>2. ASSUME id[r] = AdminId
        PROVE  newUsers' = newUsers
               \/ \E row \in UsersEntity :
                    ~row.deleted /\ newUsers' = [newUsers EXCEPT ![r] = row]
    BY <2>1, <2>2, UpdateUsersColumns
    DEF TypeOK, AdminInv, AdminProtected, IsLive, WriteUsers, PutUsers
  <2>3. /\ UNCHANGED <<tables, memory, newAuth>>
        /\ pc' = [pc EXCEPT ![r] = "commit"] /\ pc[r] \in WriteStages
        /\ \A o \in Caller \ {r} : newUsers'[o] = newUsers[o]
    BY <1>7
    DEF TypeOK, InsertUsers, DeleteUsers, WriteUsers, PutUsers, Goto,
        WriteStages, InTransaction
  <2>4. QED
    BY <2>2, <2>3
    DEF TypeOK, AdminInv, tables, memory
<1>8. ASSUME NEW r \in Caller, SelectAuth(r) \/ SelectUsers(r)
      PROVE  AdminInv(q)'
  BY <1>8
  DEF TypeOK, WriteStages, InTransaction, AdminInv, SelectAuth, SelectUsers,
      Goto, server
<1>9. ASSUME NEW r \in Caller, Commit(r) \/ Rollback(r) \/ Release(r)
      PROVE  AdminInv(q)'
  BY <1>9
  DEF TypeOK, WriteStages, InTransaction, AdminInv, Commit, Rollback, Release,
      InstallVersions, DropVersions, Return, Forget, Goto, server, memory
<1>10. ASSUME NEW r \in Caller,
              QueryFails(r) \/ CountFails(r) \/ StatementFails(r)
       PROVE  AdminInv(q)'
  BY <1>10
  DEF TypeOK, WriteStages, InTransaction, AdminInv, QueryFails, CountFails,
      StatementFails, Abort, DropVersions, Return, Forget, Goto, server, memory
<1>11. ASSUME NEW r \in Caller,
              LoseConnection(r) \/ LoseCommit(r) \/ FindBroken(r)
       PROVE  AdminInv(q)'
  BY <1>11
  DEF TypeOK, WriteStages, InTransaction, AdminInv, LoseConnection, LoseCommit,
      FindBroken, Return, Forget, Goto, server, memory
<1>12. ASSUME NEW r \in Caller, Server(r)
       PROVE  AdminInv(q)'
  BY <1>12
  DEF TypeOK, AdminInv, Server, Orphan, Reap, LateCommit, InstallVersions,
      DropVersions, ForgetId
<1>13. ASSUME Crash
       PROVE  AdminInv(q)'
  BY <1>13 DEF WriteStages, InTransaction, AdminInv, Crash
<1>14. QED
  BY <1>1, <1>2, <1>3, <1>4, <1>5, <1>6, <1>7, <1>8, <1>9, <1>10, <1>11,
     <1>12, <1>13
  DEF Next, Internal, Statement, Fault, Call

\* A commit leaves the administrator as it was.
LEMMA AdminProtectedStep ==
  ASSUME TypeOK, LocalInv, RowInv, AdminProtected,
         \A r \in Caller : AdminInv(r), Next
  PROVE  AdminProtected'
  BY TablesStep, RowsStay
  DEF TypeOK, AdminProtected, AdminInv, IsLive, Defined, tables

-----------------------------------------------------------------------------
(***************************************************************************)
(* The inductive invariant, and the theorems that follow from it.          *)
(***************************************************************************)

\* The tables the migrations leave, and no calls, satisfy the invariant.
LEMMA InitIInv == Init => IInv
<1>1. SUFFICES ASSUME Init PROVE IInv
  OBVIOUS
<1>2. TypeOK
  BY <1>1, TypeInit
<1>3. LocalInv
  BY <1>1
  DEF Init, LocalInv, StageInv, EntityInv, TransactionInv, HeldInv, FindStages,
      WriteStages, InTransaction, NoCall
<1>4. \A i \in Id : auth[i] # None <=> i = AdminId
  <2>1. PICK p \in Secret, s \in Salt :
          auth = [i \in Id |->
                    IF i = AdminId
                    THEN [username |-> AdminName, password |-> Hash(Plain(p), s),
                          salt |-> s, role |-> "admin", deleted |-> FALSE]
                    ELSE None]
    BY <1>1 DEF Init
  <2>2. [username |-> AdminName, password |-> Hash(Plain(p), s),
         salt |-> s, role |-> "admin", deleted |-> FALSE] \in AuthEntity
    BY DEF AuthEntity, Password, Hash, Plain, UsersRoleEnum
  <2>3. QED
    BY <2>1, <2>2
<1>5. \A i \in Id : users[i] # None <=> i = AdminId
  <2>1. PICK n \in Name :
          users = [i \in Id |->
                     IF i = AdminId
                     THEN [name |-> n, age |-> None, deleted |-> FALSE]
                     ELSE None]
    BY <1>1 DEF Init
  <2>2. [name |-> n, age |-> None, deleted |-> FALSE] \in UsersEntity
    BY DEF UsersEntity
  <2>3. QED
    BY <2>1, <2>2
<1>6. RowInv
  BY <1>1, <1>4, <1>5 DEF Init, RowInv, CreatedTogether, VersionInv, WholeInv
<1>7. CreatorInv /\ RowLockInv /\ ClaimInv
  BY <1>1 DEF Init, CreatorInv, Creates, BeforeCommit, InTransaction, RowLockInv,
         ClaimInv, IsLive
<1>8. UniqueLiveUsername
  BY <1>1, <1>4 DEF UniqueLiveUsername, IsLive
<1>9. AdminProtected
  BY <1>1, <1>4, <1>5 DEF Init, AdminProtected, IsLive
<1>10. \A r \in Caller : AdminInv(r)
  BY <1>1 DEF Init, AdminInv, WriteStages, InTransaction
<1>11. QED
  BY <1>2, <1>3, <1>6, <1>7, <1>8, <1>9, <1>10 DEF IInv

\* Every step, and every fault, keeps the invariant.
LEMMA NextIInv == IInv /\ [Next]_vars => IInv'
<1>1. ASSUME IInv, Next
      PROVE  IInv'
  <2>1. TypeOK' /\ LocalInv'
    BY <1>1, TypeStep, StageStep, EntityStep, TransactionStep,
       HeldStep DEF IInv, LocalInv
  <2>2. RowInv' /\ CreatorInv'
    BY <1>1, CreatedTogetherStep, VersionStep, WholeStep, CreatorStep
    DEF IInv, RowInv
  <2>3. RowLockInv' /\ ClaimInv' /\ UniqueLiveUsername'
    BY <1>1, RowLockStep, ClaimStep, UniqueStep DEF IInv
  <2>4. AdminProtected' /\ \A r \in Caller : AdminInv(r)'
    BY <1>1, AdminProtectedStep, AdminStep DEF IInv
  <2>5. QED
    BY <2>1, <2>2, <2>3, <2>4 DEF IInv
<1>2. ASSUME IInv, UNCHANGED vars
      PROVE  IInv'
  BY <1>2
  DEF IInv, TypeOK, LocalInv, StageInv, EntityInv, TransactionInv, HeldInv,
      RowInv,
      CreatedTogether, VersionInv, WholeInv, CreatorInv, Creates, RowLockInv,
      ClaimInv, UniqueLiveUsername, AdminProtected, AdminInv, vars, tables,
      server, memory
<1>3. QED
  BY <1>1, <1>2

\* Every behaviour of the repository keeps the inductive invariant.
THEOREM Invariance == Spec => []IInv
  BY InitIInv, NextIInv, PTL DEF Spec

\* Whatever is called, and whatever fails, every variable keeps its type: no
\* operation marks, merges or fills a row that is not there.
THEOREM TypeCorrect == Spec => []TypeOK
  BY Invariance, PTL DEF IInv

\* The administrator of the migrations stays live, named admin and with the
\* role admin, for every number of callers and every interleaving of them
\* with failures, although update() and delete() look before they lock.
THEOREM AdminSafe == Spec => []AdminProtected
  BY Invariance, PTL DEF IInv

\* No two live users ever share a username.
THEOREM UsernameUnique == Spec => []UniqueLiveUsername
  BY Invariance, PTL DEF IInv

\* A user never has a row in one table and not in the other.
THEOREM UserWhole == Spec => []CreatedTogether
  BY Invariance, PTL DEF IInv, RowInv

\* A caller that is done holds no connection, and no connection returns to
\* the pool with a transaction open on it.
THEOREM PoolClean == Spec => []ConnectionsReturned
<1>1. IInv => ConnectionsReturned
  BY DEF IInv, LocalInv, TransactionInv, ConnectionsReturned
<1>2. QED
  BY <1>1, Invariance, PTL

\* The username and the salt of a row never change.
THEOREM IdentityKept == Spec => IdentityImmutable
<1>1. IInv /\ [Next]_vars =>
        [\A i \in Id : auth[i] # None =>
            /\ auth'[i] # None
            /\ auth'[i].username = auth[i].username
            /\ auth'[i].salt = auth[i].salt]_vars
  BY RowsStay DEF IInv
<1>2. QED
  BY <1>1, Invariance, PTL DEF Spec, IdentityImmutable

\* However many callers compete for however few connections, rows and
\* usernames, there is always one among those that wait whom none of them
\* keeps waiting.
THEOREM NoDeadlock == Spec => []NoWaitCycle
<1>1. ASSUME IInv PROVE NoWaitCycle
  <2>1. SUFFICES ASSUME NEW S \in SUBSET Caller, S # {},
                        \A r \in S : \E o \in S : Awaits(r, o)
                 PROVE  FALSE
    BY DEF NoWaitCycle
  <2>2. \A r \in S :
          /\ newUsers[r] = None
          /\ pc[r] \in {"insertAuth", "deleteAuth", "writeAuth"} =>
               newAuth[r] = None
          /\ pc[r] \in {"getAll", "getById", "find", "findAuth", "findUsers",
                       "connect"} => newAuth[r] = None /\ conn[r] = "none"
    BY <1>1, <2>1
    DEF IInv, LocalInv, TransactionInv, HeldInv, FindStages, Awaits,
        AwaitsConnection, AwaitsAuth, AwaitsUsers
  <2>3. \A r, o \in S : ~AwaitsUsers(r, o)
    BY <2>2 DEF AwaitsUsers
  <2>4. \A r, o \in S : ~AwaitsAuth(r, o)
    BY <2>1, <2>2, <2>3 DEF AwaitsAuth, Awaits, AwaitsConnection
  <2>5. \A r, o \in S : ~AwaitsConnection(r, o)
    BY <2>1, <2>2, <2>3, <2>4 DEF Awaits, AwaitsConnection
  <2>6. QED
    BY <2>1, <2>3, <2>4, <2>5 DEF Awaits
<1>2. QED
  BY <1>1, Invariance, PTL

=============================================================================
