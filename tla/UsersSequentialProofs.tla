----------------------- MODULE UsersSequentialProofs -----------------------
(***************************************************************************)
(* Proofs about calls that do not overlap, for every value of the other    *)
(* constants: the two rows of a user live and die together, only a request *)
(* changes a role, and counts match lists, whatever fails.                 *)
(***************************************************************************)
EXTENDS UsersSequentialInv, UsersStoreProofs, FiniteSetTheorems

USE NoneAssumption, AdminAssumption, CallsAssumption

-----------------------------------------------------------------------------
(***************************************************************************)
(* The transaction.                                                        *)
(***************************************************************************)

\* What an update or a deletion has read stays so until it commits: nobody
\* else changes the rows.
LEMMA SeenStep ==
  ASSUME IInv, NEW r \in Caller, Act(r), SeenInv(r)
  PROVE  SeenInv(r)'
<1>1. SUFFICES ASSUME pc'[r] \in Preparing, arg'[r].op \in {"update", "delete"}
               PROVE  SeenInv(r)'
  BY DEF SeenInv
<1>2. UNCHANGED tables
  <2>1. ~Commit(r)
    BY <1>1 DEF IInv, TypeOK, Commit, Goto, Preparing, FindStages, BeforeCommit,
                InTransaction
  <2>2. ~LateCommit(r)
    BY <1>1 DEF IInv, LocalInv, TransactionInv, LateCommit, Preparing
  <2>3. QED
    BY <2>1, <2>2, ChangeIsCommit
<1>3. CASE \E c \in Calls : Call(r, c)
  <2>1. /\ authRow[r] = None /\ usersRow[r] = None /\ newAuth[r] = None
    BY <1>3
    DEF IInv, LocalInv, EntityInv, TransactionInv, Call, CallCreate, CallOther
  <2>2. PICK c \in Calls : CallOther(r, c)
    BY <1>1, <1>3 DEF IInv, TypeOK, Call, CallCreate
  <2>3. QED
    BY <2>1, <2>2 DEF SeenInv, CallOther, server
<1>4. CASE FindAuth(r) \/ FindUsers(r)
  <2>1. /\ pc[r] \in Preparing /\ newAuth' = newAuth
        /\ UNCHANGED <<arg, id>>
    BY <1>4 DEF FindAuth, FindUsers, Preparing, FindStages, server
  <2>2. /\ authRow'[r] \in {authRow[r], Find(auth[id[r]])}
        /\ usersRow'[r] \in {usersRow[r], Find(users[id[r]])}
    BY <1>4 DEF IInv, TypeOK, FindAuth, FindUsers
  <2>3. QED
    BY <1>1, <1>2, <2>1, <2>2 DEF SeenInv, Find, tables
<1>5. CASE PassCheck(r) \/ Connect(r) \/ SelectAuth(r) \/ SelectUsers(r)
           \/ InsertUsers(r) \/ DeleteUsers(r) \/ WriteUsers(r)
           \/ LoseConnection(r)
  <2>1. /\ pc[r] \in Preparing \/ pc'[r] = pc[r]
        /\ newAuth' = newAuth
        /\ UNCHANGED <<arg, id, authRow, usersRow>>
    BY <1>5
    DEF PassCheck, Connect, SelectAuth, SelectUsers, InsertUsers, DeleteUsers,
        WriteUsers, PutUsers, LoseConnection, Preparing, FindStages,
        BeforeCommit, InTransaction, server, memory
  <2>2. QED
    BY <1>1, <1>2, <2>1 DEF SeenInv, tables
<1>6. CASE Begin(r)
  <2>1. /\ pc[r] \in Preparing /\ newAuth'[r] = None /\ UNCHANGED <<arg, id>>
        /\ authRow[r] # None /\ usersRow[r] # None
    BY <1>6
    DEF IInv, LocalInv, EntityInv, TransactionInv, WriteStages, Begin, Preparing,
        BeforeCommit
  <2>2. CASE arg[r].op = "update"
    <3>1. authRow'[r] = AssignAuth(authRow[r], arg[r])
      BY <1>6, <2>2 DEF IInv, TypeOK, Begin
    <3>2. authRow[r] \in AuthEntity /\ arg[r] \in Arguments
      BY <1>6, <2>1, <2>2 DEF IInv, TypeOK, LocalInv, StageInv, Begin
    <3>3. authRow'[r].role = Defined(arg[r].role, authRow[r].role)
      BY <2>2, <3>1, <3>2, AssignedAuth
    <3>4. QED
      BY <1>2, <2>1, <2>2, <3>3 DEF SeenInv, Defined, tables
  <2>3. CASE arg[r].op # "update"
    <3>1. UNCHANGED <<authRow, usersRow>>
      BY <1>6, <2>3 DEF Begin
    <3>2. QED
      BY <1>1, <1>2, <2>1, <3>1 DEF SeenInv, tables
  <2>4. QED
    BY <2>2, <2>3
<1>7. CASE InsertAuth(r) \/ DeleteAuth(r) \/ WriteAuth(r)
  <2>1. /\ pc[r] \in Preparing /\ UNCHANGED <<arg, id, authRow, usersRow>>
        /\ pc'[r] # "rollback" /\ authRow[r] # None
    BY <1>1, <1>7
    DEF IInv, LocalInv, EntityInv, WriteStages, InsertAuth, DeleteAuth,
        WriteAuth, Preparing, FindStages, BeforeCommit, InTransaction, memory
  <2>2. ~InsertAuth(r)
    BY <1>1, <2>1 DEF IInv, LocalInv, StageInv, InsertAuth
  <2>3. newAuth'[r].role \in {auth[id[r]].role, authRow[r].role}
    <3>1. id[r] \in Id /\ auth[id[r]] # None
      BY <1>7, <2>2, RowPut DEF IInv
    <3>2. CASE DeleteAuth(r)
      <4>1. newAuth'[r] = SoftDelete(auth[id[r]])
        BY <2>1, <3>2 DEF IInv, TypeOK, DeleteAuth, PutAuth, Abort, Goto
      <4>2. auth[id[r]] \in AuthEntity
        BY <3>1 DEF IInv, TypeOK
      <4>3. QED
        BY <4>1, <4>2, SoftDeletedAuth
    <3>3. CASE WriteAuth(r)
      <4>1. newAuth'[r] = UpdateColumns(auth[id[r]], authRow[r], columns[r])
        BY <2>1, <3>3 DEF IInv, TypeOK, WriteAuth, PutAuth, Abort, Goto
      <4>2. auth[id[r]] \in AuthEntity /\ authRow[r] \in AuthEntity
        BY <2>1, <3>1 DEF IInv, TypeOK
      <4>3. QED
        BY <4>1, <4>2, UpdateAuthColumns
    <3>4. QED
      BY <1>7, <2>2, <3>2, <3>3
  <2>4. QED
    BY <1>1, <1>2, <2>1, <2>3 DEF SeenInv, tables
<1>8. CASE Reap(r)
  <2>1. /\ pc' = pc /\ newAuth'[r] = None /\ UNCHANGED <<arg, authRow, usersRow>>
        /\ id'[r] = id[r]
    BY <1>1, <1>8
    DEF IInv, TypeOK, Reap, DropVersions, ForgetId, Preparing, FindStages,
        BeforeCommit, InTransaction
  <2>2. QED
    BY <1>1, <1>2, <2>1 DEF SeenInv, tables
<1>9. CASE Take(r) \/ GetAllRows(r) \/ GetAllCount(r) \/ GetById(r)
           \/ ReturnMissing(r) \/ ReturnReadonly(r) \/ Commit(r) \/ Rollback(r)
           \/ Release(r) \/ FindBroken(r) \/ QueryFails(r) \/ CountFails(r)
           \/ StatementFails(r) \/ LoseCommit(r)
  <2>1. pc'[r] \in {"idle", "count", "returned", "rollback", "release"}
    BY <1>9
    DEF IInv, TypeOK, Take, GetAllRows, GetAllCount, GetById, ReturnMissing,
        ReturnReadonly, Commit, Rollback, Release, FindBroken, QueryFails,
        CountFails, StatementFails, LoseCommit, Return, Abort, Goto
  <2>2. QED
    BY <1>1, <2>1 DEF Preparing, FindStages, BeforeCommit, InTransaction
<1>10. CASE LateCommit(r)
  BY <1>1, <1>10 DEF IInv, LocalInv, TransactionInv, LateCommit, Preparing
<1>11. QED
  BY <1>3, <1>4, <1>5, <1>6, <1>7, <1>8, <1>9, <1>10
  DEF Act, Statement, Fault, Server

\* What a COMMIT writes is a user of two live rows or of two deleted ones.
LEMMA PairedCommit ==
  ASSUME IInv, StoreInv, LivePairing, NEW r \in Caller, SeenInv(r),
         pc[r] = "commit", conn[r] = "up"
  PROVE  IsLive(Defined(newAuth[r], auth[id[r]])) <=>
         IsLive(Defined(newUsers[r], users[id[r]]))
<1>1. arg[r] \in Calls /\ Outcome(r, arg[r])
  BY CommitOutcome DEF StoreInv
<1>2. /\ id[r] \in Id /\ authRow[r] # None /\ usersRow[r] # None
      /\ arg[r].op \in {"create", "update", "delete"}
  BY DEF IInv, LocalInv, StageInv, EntityInv, WriteStages, InTransaction
<1>3. arg[r].op = "update" => IsLive(auth[id[r]]) /\ IsLive(users[id[r]])
  BY <1>2 DEF SeenInv, Preparing, BeforeCommit, InTransaction
<1>4. QED
  BY <1>1, <1>2, <1>3, OutcomeMarks DEF Deletes

\* So does one that is left to the server.
LEMMA PairedStep ==
  ASSUME IInv, StoreInv, LivePairing, NEW r \in Caller, Act(r), SeenInv(r),
         PairedInv(r)
  PROVE  PairedInv(r)'
<1>1. SUFFICES ASSUME tx'[r] = "inDoubt"
               PROVE  PairedInv(r)'
  BY DEF PairedInv
<1>2. CASE LoseCommit(r)
  <2>1. UNCHANGED <<tables, newAuth, newUsers, id>>
    BY <1>2 DEF LoseCommit, memory
  <2>2. IsLive(Defined(newAuth[r], auth[id[r]])) <=>
        IsLive(Defined(newUsers[r], users[id[r]]))
    BY <1>2, PairedCommit DEF LoseCommit
  <2>3. QED
    BY <2>1, <2>2 DEF PairedInv, tables
<1>3. CASE ~LoseCommit(r)
  BY <1>1, <1>3, FallsInDoubt DEF PairedInv, tables
<1>4. QED
  BY <1>2, <1>3

\* A commit leaves all users as pairs.
LEMMA PairingStep ==
  ASSUME IInv, StoreInv, LivePairing, NEW r \in Caller, Act(r), SeenInv(r),
         PairedInv(r)
  PROVE  LivePairing'
<1>1. CASE UNCHANGED tables
  BY <1>1 DEF LivePairing, tables
<1>2. CASE ~UNCHANGED tables
  <2>1. /\ id[r] \in Id
        /\ auth' = [auth EXCEPT ![id[r]] = Defined(newAuth[r], @)]
        /\ users' = [users EXCEPT ![id[r]] = Defined(newUsers[r], @)]
    BY <1>2, ActTables DEF IInv
  <2>2. IsLive(Defined(newAuth[r], auth[id[r]])) <=>
        IsLive(Defined(newUsers[r], users[id[r]]))
    BY <1>2, ChangeIsCommit, PairedCommit DEF Commit, LateCommit, PairedInv
  <2>3. QED
    BY <2>1, <2>2 DEF LivePairing, IInv, TypeOK
<1>3. QED
  BY <1>1, <1>2

-----------------------------------------------------------------------------
(***************************************************************************)
(* The list.                                                               *)
(***************************************************************************)

\* What was read stays so until it is counted.
LEMMA RowsRead ==
  ASSUME IInv, NEW r \in Caller, Act(r), ReadInv(r)
  PROVE  ReadInv(r)'
<1>1. CASE ~(pc'[r] = "count" /\ conn'[r] = "up")
  BY <1>1 DEF ReadInv
<1>2. CASE GetAllRows(r)
  <2>1. rows'[r] = {[id |-> i, auth |-> Find(auth[i]), users |-> users[i]] :
                      i \in LiveUsers}
    BY <1>2 DEF IInv, TypeOK, GetAllRows
  <2>2. UNCHANGED tables
    BY <1>2 DEF GetAllRows
  <2>3. LiveUsers' = LiveUsers
    BY <2>2 DEF LiveUsers, tables
  <2>4. QED
    BY <2>1, <2>2, <2>3 DEF ReadInv, tables
<1>3. CASE ~GetAllRows(r) /\ pc'[r] = "count" /\ conn'[r] = "up"
  <2>1. /\ pc[r] = "count" /\ conn[r] = "up"
        /\ rows'[r] = rows[r] /\ UNCHANGED tables
    BY <1>3
    DEF IInv, TypeOK, LocalInv, TransactionInv, Act, Call, CallCreate,
        CallOther, Take, Statement, GetAllCount, GetById, FindAuth, FindUsers,
        ReturnMissing, ReturnReadonly, PassCheck, Connect, Begin, AfterBegin,
        AfterAuth, InsertAuth, InsertUsers, DeleteAuth, DeleteUsers,
        SelectAuth, WriteAuth, SelectUsers, WriteUsers, PutAuth, PutUsers,
        Commit, Rollback, Release, FindBroken, Fault, QueryFails, CountFails,
        StatementFails, LoseConnection, LoseCommit, Server, Reap, LateCommit,
        Abort, Return, Goto
  <2>2. LiveUsers' = LiveUsers
    BY <2>1 DEF LiveUsers, tables
  <2>3. QED
    BY <2>1, <2>2 DEF ReadInv, tables
<1>4. QED
  BY <1>1, <1>2, <1>3

\* The models of different rows are different: a list is as long as it has
\* rows.
LEMMA ListLength ==
  ASSUME NEW read,
         read = {[id |-> i, auth |-> Find(auth[i]), users |-> users[i]] :
                   i \in LiveUsers}
  PROVE  Cardinality({FillModel(row.id, row.auth, row.users) : row \in read})
           = Cardinality(LiveUsers)
<1> DEFINE f == [i \in LiveUsers |-> FillModel(i, Find(auth[i]), users[i])]
           list == {FillModel(row.id, row.auth, row.users) : row \in read}
<1>1. IsFiniteSet(LiveUsers)
  BY IdAssumption, FS_Subset DEF LiveUsers
<1>2. \A m : m \in list <=> \E i \in LiveUsers : m = f[i]
  <2>1. ASSUME NEW m \in list
        PROVE  \E i \in LiveUsers : m = f[i]
    <3>1. PICK row \in read : m = FillModel(row.id, row.auth, row.users)
      BY <2>1
    <3>2. PICK i \in LiveUsers :
            row = [id |-> i, auth |-> Find(auth[i]), users |-> users[i]]
      BY <3>1
    <3>3. row.id = i /\ row.auth = Find(auth[i]) /\ row.users = users[i]
      BY <3>2
    <3>4. QED
      BY <3>1, <3>3
  <2>2. ASSUME NEW i \in LiveUsers
        PROVE  f[i] \in list
    <3>1. PICK row \in read :
            row = [id |-> i, auth |-> Find(auth[i]), users |-> users[i]]
      OBVIOUS
    <3>2. row.id = i /\ row.auth = Find(auth[i]) /\ row.users = users[i]
      BY <3>1
    <3>3. QED
      BY <3>2
  <2>3. QED
    BY <2>1, <2>2
<1>3. \A i \in LiveUsers : f[i].id = i
  BY DEF FillModel
<1>4. f \in Injection(LiveUsers, list)
  BY <1>2, <1>3 DEF Injection, IsInjective
<1>5. f \in Surjection(LiveUsers, list)
  BY <1>2 DEF Surjection
<1>6. ExistsBijection(LiveUsers, list)
  BY <1>4, <1>5 DEF ExistsBijection, Bijection
<1>7. QED
  BY <1>1, <1>6, FS_Bijection

\* A list is returned by the query that counts it.
LEMMA CountStep ==
  ASSUME IInv, NEW r \in Caller, Act(r), ReadInv(r), CountMatchesList,
         Sequential
  PROVE  CountMatchesList'
<1>1. SUFFICES ASSUME pc'[r] = "returned", arg'[r].op = "getAll",
                      ret'[r].error = "none"
               PROVE  ret'[r].count = Cardinality(ret'[r].list)
  BY DEF CountMatchesList, Sequential
<1>2. CASE GetAllCount(r)
  <2>1. rows[r] = {[id |-> i, auth |-> Find(auth[i]), users |-> users[i]] :
                     i \in LiveUsers}
    BY <1>2 DEF GetAllCount, ReadInv
  <2>2. ret'[r] = IF FillModels(rows[r]).error = "none"
                  THEN [FillModels(rows[r]) EXCEPT !.count = Counted]
                  ELSE FillModels(rows[r])
    BY <1>2 DEF IInv, TypeOK, GetAllCount, Return
  <2>3. FillModels(rows[r]) =
          [NoResult EXCEPT !.list = {FillModel(row.id, row.auth, row.users) :
                                       row \in rows[r]}]
    BY <1>1, <2>2 DEF FillModels, Error, NoResult
  <2>4. PICK list :
          list = {FillModel(row.id, row.auth, row.users) : row \in rows[r]}
    OBVIOUS
  <2>5. FillModels(rows[r]) = [NoResult EXCEPT !.list = list]
    BY <2>3, <2>4
  <2>6. ret'[r] = [error |-> "none", model |-> None, list |-> list,
                   count |-> Counted]
    BY <2>2, <2>5, ListedResult
  <2>7. ret'[r].list = list /\ ret'[r].count = Counted
    BY <2>6
  <2>8. Cardinality(list) = Cardinality(LiveUsers)
    BY <2>1, <2>4, ListLength
  <2>9. QED
    BY <2>7, <2>8 DEF Counted
<1>3. CASE ~GetAllCount(r)
  <2>1. pc[r] = "returned" /\ arg'[r] = arg[r] /\ ret'[r] = ret[r]
    BY <1>1, <1>3
    DEF IInv, TypeOK, LocalInv, StageInv, FindStages, WriteStages, Act, Call,
        CallCreate, CallOther, FirstStage, Take, Statement, GetAllRows,
        GetById, FindAuth, FindUsers, ReturnMissing, ReturnReadonly, PassCheck,
        Connect, Begin, InsertAuth, InsertUsers, DeleteAuth, DeleteUsers,
        SelectAuth, WriteAuth, SelectUsers, WriteUsers, Commit, Rollback,
        Release, FindBroken, Fault, QueryFails, CountFails, StatementFails,
        LoseConnection, LoseCommit, Server, Reap, LateCommit, Return, Goto,
        Error, NoResult, memory
  <2>2. QED
    BY <1>1, <2>1 DEF CountMatchesList
<1>4. QED
  BY <1>2, <1>3

-----------------------------------------------------------------------------
(***************************************************************************)
(* All calls.                                                              *)
(***************************************************************************)

\* A crash leaves nothing in memory, and in doubt a COMMIT on its way.
LEMMA CrashSequential ==
  ASSUME IInv, StoreInv, SequentialIInv, Crash
  PROVE  SequentialIInv'
<1>1. /\ UNCHANGED <<tables, newAuth, newUsers>>
      /\ \A r \in Caller :
           /\ pc'[r] = "idle"
           /\ id'[r] = IF tx[r] = "none" THEN None ELSE id[r]
           /\ tx'[r] = IF pc[r] = "commit" /\ conn[r] = "up" THEN "inDoubt"
                       ELSE tx[r]
  BY DEF Crash
<1>2. LivePairing' /\ CountMatchesList'
  BY <1>1 DEF SequentialIInv, LivePairing, CountMatchesList, tables
<1>3. ASSUME NEW r \in Caller
      PROVE  SeenInv(r)' /\ ReadInv(r)'
  BY <1>1 DEF SeenInv, ReadInv, Preparing, FindStages, BeforeCommit,
              InTransaction
<1>4. ASSUME NEW r \in Caller, tx'[r] = "inDoubt"
      PROVE  PairedInv(r)'
  <2>1. id'[r] = id[r]
    BY <1>1, <1>4 DEF IInv, LocalInv, TransactionInv, InTransaction
  <2>2. IsLive(Defined(newAuth[r], auth[id[r]])) <=>
        IsLive(Defined(newUsers[r], users[id[r]]))
    BY <1>1, <1>4, PairedCommit DEF SequentialIInv, PairedInv
  <2>3. QED
    BY <1>1, <2>1, <2>2 DEF PairedInv, tables
<1>5. QED
  BY <1>2, <1>3, <1>4 DEF SequentialIInv, PairedInv

\* However calls follow each other and whatever fails: what an operation has
\* read is what the rows hold when it writes.
THEOREM SequentialInvariance ==
  ASSUME Sequential
  PROVE  Spec => []SequentialIInv
<1>1. Init => SequentialIInv
  <2> SUFFICES ASSUME Init PROVE SequentialIInv
    OBVIOUS
  <2>1. LivePairing
    <3>1. PICK p \in Secret, s \in Salt :
            auth = [i \in Id |->
                      IF i = AdminId
                      THEN [username |-> AdminName, password |-> Hash(Plain(p), s),
                            salt |-> s, role |-> "admin", deleted |-> FALSE]
                      ELSE None]
      BY DEF Init
    <3>2. PICK n \in Name :
            users = [i \in Id |->
                       IF i = AdminId
                       THEN [name |-> n, age |-> None, deleted |-> FALSE]
                       ELSE None]
      BY DEF Init
    <3>3. /\ [username |-> AdminName, password |-> Hash(Plain(p), s),
              salt |-> s, role |-> "admin", deleted |-> FALSE] \in AuthEntity
          /\ [name |-> n, age |-> None, deleted |-> FALSE] \in UsersEntity
      BY DEF AuthEntity, UsersEntity, Password, Hash, Plain, UsersRoleEnum
    <3>4. ASSUME NEW i \in Id
          PROVE  IsLive(auth[i]) <=> IsLive(users[i])
      <4>1. CASE i = AdminId
        BY <3>1, <3>2, <3>3, <4>1, NoneAssumption DEF IsLive, AuthEntity, UsersEntity
      <4>2. CASE i # AdminId
        BY <3>1, <3>2, <4>2 DEF IsLive
      <4>3. QED
        BY <4>1, <4>2
    <3>5. QED
      BY <3>4 DEF LivePairing
  <2>2. QED
    BY <2>1
    DEF Init, SequentialIInv, CountMatchesList, SeenInv, PairedInv, ReadInv
<1>2. IInv /\ StoreInv /\ SequentialIInv /\ [Next]_vars => SequentialIInv'
  <2>1. ASSUME IInv, StoreInv, SequentialIInv, NEW r \in Caller, Act(r)
        PROVE  SequentialIInv'
    <3>1. SeenInv(r)' /\ PairedInv(r)' /\ ReadInv(r)'
      BY <2>1, SeenStep, PairedStep, RowsRead DEF SequentialIInv
    <3>2. LivePairing' /\ CountMatchesList'
      BY <2>1, PairingStep, CountStep DEF SequentialIInv
    <3>3. QED
      BY <3>1, <3>2 DEF SequentialIInv, Sequential
  <2>2. ASSUME SequentialIInv, UNCHANGED vars
        PROVE  SequentialIInv'
    <3>1. LiveUsers' = LiveUsers
      BY <2>2 DEF LiveUsers, vars, tables
    <3>2. \A r \in Caller : ReadInv(r)' <=> ReadInv(r)
      BY <2>2, <3>1 DEF ReadInv, vars, tables, memory
    <3>3. \A r \in Caller : SeenInv(r)' /\ PairedInv(r)'
      BY <2>2 DEF SequentialIInv, SeenInv, PairedInv, vars, tables, server, memory
    <3>4. LivePairing' /\ CountMatchesList'
      BY <2>2 DEF SequentialIInv, LivePairing, CountMatchesList, vars, tables,
                  memory
    <3>5. QED
      BY <2>2, <3>2, <3>3, <3>4 DEF SequentialIInv
  <2>3. QED
    BY <2>1, <2>2, CrashSequential, NextIsAct
<1>3. QED
  BY <1>1, <1>2, Invariance, StoreInvariance, PTL DEF Spec

\* The two rows of a user are live or deleted together.
THEOREM LivePaired ==
  ASSUME Sequential
  PROVE  Spec => []LivePairing
<1>1. SequentialIInv => LivePairing
  BY DEF SequentialIInv
<1>2. QED
  BY <1>1, SequentialInvariance, PTL

\* getAll() counts the users it lists.
THEOREM CountTrue ==
  ASSUME Sequential
  PROVE  Spec => []CountMatchesList
<1>1. SequentialIInv => CountMatchesList
  BY DEF SequentialIInv
<1>2. QED
  BY <1>1, SequentialInvariance, PTL

\* Only the update() that asks for a role gives it.
LEMMA RoleStep ==
  ASSUME IInv, SequentialIInv, NEW r \in Caller, Act(r), NEW i \in Id,
         auth[i] # None, auth'[i] # None, auth'[i].role # auth[i].role
  PROVE  id[r] = i /\ (arg[r].role = auth'[i].role \/ tx[r] = "inDoubt")
<1>1. ~UNCHANGED tables
  BY DEF tables
<1>2. /\ id[r] \in Id /\ auth' = [auth EXCEPT ![id[r]] = Defined(newAuth[r], @)]
  BY <1>1, ActTables DEF IInv
<1>3. id[r] = i /\ newAuth[r] # None /\ auth'[i] = newAuth[r]
  BY <1>2 DEF IInv, TypeOK, Defined
<1>4. CASE LateCommit(r)
  BY <1>3, <1>4 DEF LateCommit
<1>5. CASE Commit(r)
  <2>1. pc[r] = "commit" /\ arg[r].op \in {"create", "update", "delete"}
    BY <1>5 DEF Commit, IInv, LocalInv, StageInv, WriteStages, InTransaction
  <2>2. arg[r].op # "create"
    BY <1>3, <2>1 DEF IInv, CreatorInv, BeforeCommit, InTransaction
  <2>3. newAuth[r].role \in {auth[i].role, arg[r].role}
    BY <1>3, <2>1, <2>2
    DEF SequentialIInv, SeenInv, Preparing, BeforeCommit, InTransaction
  <2>4. QED
    BY <1>3, <2>3
<1>6. QED
  BY <1>1, <1>4, <1>5, ChangeIsCommit

\* No update() undoes the role that another one has given.
THEOREM RoleRequested ==
  ASSUME Sequential
  PROVE  Spec => RoleChangesOnRequest
<1>1. IInv /\ SequentialIInv /\ [Next]_vars =>
        [\A i \in Id :
           auth[i] # None /\ auth'[i] # None /\ auth'[i].role # auth[i].role =>
             \E r \in Caller :
               id[r] = i /\ (arg[r].role = auth'[i].role \/ tx[r] = "inDoubt")]_vars
  BY RoleStep, NextIsAct DEF Crash, tables
<1>2. QED
  BY <1>1, Invariance, SequentialInvariance, PTL DEF Spec, RoleChangesOnRequest
=============================================================================
