------------------------- MODULE UsersServiceProofs -------------------------
(***************************************************************************)
(* Proofs about UsersService, and about what the repository promises it,   *)
(* for every value of the constants.                                       *)
(***************************************************************************)
EXTENDS UsersServiceInv, UsersStoreProofs

USE NoneAssumption, AdminAssumption, CallsAssumption, RequestsAssumption

-----------------------------------------------------------------------------
(***************************************************************************)
(* What becomes of a creation.                                             *)
(***************************************************************************)

\* A step that draws no id leaves a creation the id it has drawn.
LEMMA DrewBefore ==
  ASSUME IInv, Next, NEW r \in Caller, Act(r), Drew(r)',
         \A c \in Calls : ~CallCreate(r, c)
  PROVE  Drew(r) /\ id'[r] = id[r]
<1>1. CASE \E c \in Calls : Call(r, c)
  BY <1>1
  DEF TypeOK, LocalInv, TransactionInv, IInv, Drew, Call, CallOther, server
<1>2. CASE Take(r)
  BY <1>2, RowsStay
  DEF TypeOK, LocalInv, TransactionInv, IInv, Drew, Take, Goto, server
<1>3. CASE GetAllRows(r) \/ GetAllCount(r) \/ GetById(r) \/ FindAuth(r) \/
           FindUsers(r)
  BY <1>3
  DEF Drew, GetAllRows, GetAllCount, GetById, FindAuth, FindUsers, Return,
      tables, server
<1>4. CASE ReturnMissing(r) \/ ReturnReadonly(r) \/ PassCheck(r)
  BY <1>4
  DEF Drew, ReturnMissing, ReturnReadonly, PassCheck, Return, tables, server,
      memory
<1>5. CASE Connect(r) \/ Begin(r)
  BY <1>5 DEF Drew, Connect, Begin, tables, server, memory
<1>6. CASE InsertAuth(r) \/ DeleteAuth(r) \/ WriteAuth(r)
  BY <1>6, RowsStay
  DEF LocalInv, StageInv, EntityInv, WriteStages, InTransaction, IInv, Drew,
      InsertAuth, DeleteAuth, WriteAuth, memory
<1>7. CASE InsertUsers(r) \/ DeleteUsers(r) \/ WriteUsers(r)
  BY <1>7
  DEF Drew, InsertUsers, DeleteUsers, WriteUsers, PutUsers, tables, memory
<1>8. CASE SelectAuth(r) \/ SelectUsers(r)
  BY <1>8 DEF Drew, SelectAuth, SelectUsers, tables, server
<1>9. CASE Commit(r) \/ Rollback(r) \/ Release(r)
  BY <1>9, RowsStay
  DEF LocalInv, StageInv, EntityInv, WriteStages, InTransaction, IInv, Drew,
      Commit, Rollback, Release, Return, memory
<1>10. CASE QueryFails(r) \/ CountFails(r) \/ StatementFails(r)
  BY <1>10, RowsStay
  DEF LocalInv, StageInv, EntityInv, TransactionInv, WriteStages, IInv, Drew,
      QueryFails, CountFails, StatementFails, Return, server, memory
<1>11. CASE LoseConnection(r) \/ LoseCommit(r) \/ FindBroken(r)
  BY <1>11
  DEF InTransaction, Drew, LoseConnection, LoseCommit, FindBroken, Return,
      tables, server, memory
<1>12. CASE Server(r)
  BY <1>12
  DEF TypeOK, IInv, Drew, Server, Reap, LateCommit, InstallVersions,
      DropVersions, ForgetId
<1>13. QED
  BY <1>1, <1>2, <1>3, <1>4, <1>5, <1>6, <1>7, <1>8, <1>9,
     <1>10, <1>11, <1>12
  DEF Act, Statement, Fault

\* An id that is drawn has been drawn by nobody else.
LEMMA DrawnStep ==
  ASSUME IInv, DrawnInv, Next, NEW r \in Caller, Act(r)
  PROVE  DrawnInv'
<1>1. ASSUME NEW q \in Caller \ {r}, Drew(q)'
      PROVE  Drew(q) /\ id'[q] = id[q]
  <2>1. Mine(q)' = Mine(q)
    BY Frame DEF IInv
  <2>2. newAuth[q] # None => id[q] \in Id
    BY DEF IInv, LocalInv, TransactionInv
  <2>3. newAuth[q] # None /\ auth'[id[q]] = None => auth[id[q]] = None
    BY <2>2, RowsStay DEF IInv
  <2>4. QED
    BY <1>1, <2>1, <2>3 DEF Drew, Mine
<1>2. CASE \E c \in Calls : CallCreate(r, c)
  <2>1. \A q \in Caller : id[q] # id'[r]
    BY <1>2 DEF IInv, TypeOK, CallCreate, Fresh
  <2>2. QED
    BY <1>1, <2>1 DEF DrawnInv
<1>3. CASE \A c \in Calls : ~CallCreate(r, c)
  BY <1>1, <1>3, DrewBefore DEF DrawnInv
<1>4. QED
  BY <1>2, <1>3

\* A transaction keeps its connection until it is over.
LEMMA OwnKept ==
  ASSUME IInv, NEW r \in Caller, Act(r), KeptInv(r)
  PROVE  KeptInv(r)'
<1>1. CASE \E c \in Calls : Call(r, c)
  BY <1>1
  DEF TypeOK, InTransaction, IInv, KeptInv, Call, CallCreate, CallOther,
      FirstStage, Goto
<1>2. CASE Take(r)
  BY <1>2 DEF InTransaction, KeptInv, Take, Goto
<1>3. CASE GetAllRows(r) \/ GetAllCount(r) \/ GetById(r) \/ FindAuth(r) \/
           FindUsers(r)
  BY <1>3
  DEF TypeOK, InTransaction, IInv, KeptInv, GetAllRows, GetAllCount, GetById,
      FindAuth, FindUsers, Return, Goto
<1>4. CASE ReturnMissing(r) \/ ReturnReadonly(r) \/ PassCheck(r)
  BY <1>4
  DEF TypeOK, InTransaction, IInv, KeptInv, ReturnMissing, ReturnReadonly,
      PassCheck, Return, Goto
<1>5. CASE Connect(r) \/ Begin(r)
  BY <1>5 DEF TypeOK, IInv, KeptInv, Connect, Begin
<1>6. CASE InsertAuth(r) \/ DeleteAuth(r) \/ WriteAuth(r)
  BY <1>6 DEF KeptInv, InsertAuth, DeleteAuth, WriteAuth
<1>7. CASE InsertUsers(r) \/ DeleteUsers(r) \/ WriteUsers(r)
  BY <1>7 DEF KeptInv, InsertUsers, DeleteUsers, WriteUsers
<1>8. CASE SelectAuth(r) \/ SelectUsers(r)
  BY <1>8 DEF KeptInv, SelectAuth, SelectUsers
<1>9. CASE Commit(r) \/ Rollback(r) \/ Release(r)
  BY <1>9
  DEF TypeOK, InTransaction, IInv, KeptInv, Commit, Rollback, Release, Return,
      Goto
<1>10. CASE QueryFails(r) \/ CountFails(r) \/ StatementFails(r)
  BY <1>10
  DEF TypeOK, InTransaction, IInv, KeptInv, QueryFails, CountFails,
      StatementFails, Return, Goto
<1>11. CASE LoseConnection(r) \/ LoseCommit(r) \/ FindBroken(r)
  BY <1>11 DEF KeptInv, LoseConnection, LoseCommit, FindBroken
<1>12. CASE Server(r)
  BY <1>12 DEF KeptInv, Server, Reap, LateCommit
<1>13. QED
  BY <1>1, <1>2, <1>3, <1>4, <1>5, <1>6, <1>7, <1>8, <1>9,
     <1>10, <1>11, <1>12
  DEF Act, Statement, Fault

\* A creation reaches its end with the tables as it says.
LEMMA OwnCreation ==
  ASSUME IInv, Next, NEW r \in Caller, Act(r), KeptInv(r), CreationInv(r),
         CallInv(r), ProgressInv(r)
  PROVE  CreationInv(r)'
<1>1. CASE \E c \in Calls : Call(r, c)
  BY <1>1
  DEF TypeOK, IInv, CreationInv, Over, Call, CallCreate, CallOther, Goto
<1>2. CASE Take(r)
  BY <1>2 DEF TypeOK, IInv, CreationInv, Take, Goto
<1>3. CASE GetAllRows(r) \/ GetAllCount(r) \/ GetById(r) \/ FindAuth(r) \/
           FindUsers(r)
  BY <1>3
  DEF LocalInv, StageInv, FindStages, IInv, CreationInv, GetAllRows,
      GetAllCount, GetById, FindAuth, FindUsers, Return
<1>4. CASE ReturnMissing(r) \/ ReturnReadonly(r) \/ PassCheck(r)
  BY <1>4
  DEF LocalInv, StageInv, FindStages, IInv, CreationInv, ReturnMissing,
      ReturnReadonly, PassCheck, Return, memory
<1>5. CASE Connect(r) \/ Begin(r)
  BY <1>5
  DEF TypeOK, IInv, CreationInv, Over, Connect, Begin, AfterBegin, Goto
<1>6. CASE InsertAuth(r) \/ DeleteAuth(r) \/ WriteAuth(r)
  BY <1>6
  DEF TypeOK, BeforeCommit, InTransaction, IInv, CreatorInv, CreationInv, Over,
      InsertAuth, DeleteAuth, WriteAuth, PutAuth, AfterAuth, Abort,
      DropVersions, Goto, tables, memory
<1>7. CASE InsertUsers(r) \/ DeleteUsers(r) \/ WriteUsers(r)
  BY <1>7
  DEF TypeOK, IInv, CreationInv, Over, InsertUsers, DeleteUsers, WriteUsers,
      PutUsers, Goto
<1>8. CASE SelectAuth(r) \/ SelectUsers(r)
  BY <1>8
  DEF LocalInv, StageInv, IInv, CreationInv, SelectAuth, SelectUsers
<1>9. CASE Commit(r) \/ Rollback(r) \/ Release(r)
  <2>1. CASE Commit(r) /\ arg[r].op = "create"
    <3>1. /\ arg[r] \in Arguments /\ newAuth[r] = NewAuth(arg[r])
          /\ id[r] \in Id
      BY <2>1, CommitOutcome DEF IInv, LocalInv, StageInv, Commit, Outcome
    <3>2. newAuth[r] # None /\ newAuth[r].username = arg[r].username
      BY <2>1, <3>1, NewEntities
    <3>3. /\ auth'[id[r]] = newAuth[r] /\ UNCHANGED memory
          /\ pc'[r] = "release" /\ ret'[r].error = "none"
      BY <2>1, <3>1, <3>2
      DEF IInv, TypeOK, Commit, InstallVersions, Defined, Success, NoResult,
          Goto
    <3>4. QED
      BY <3>2, <3>3 DEF CreationInv, Over, memory
  <2>2. CASE Commit(r) /\ arg[r].op # "create"
    BY <2>2 DEF Commit, CreationInv, memory
  <2>3. CASE Rollback(r)
    BY <2>3
    DEF IInv, TypeOK, KeptInv, CreationInv, Rollback, DropVersions, Error,
        Goto, tables, memory
  <2>4. CASE Release(r)
    BY <2>4 DEF CreationInv, Over, Release, Return, Goto, tables, server
  <2>5. QED
    BY <1>9, <2>1, <2>2, <2>3, <2>4
<1>10. CASE QueryFails(r) \/ CountFails(r) \/ StatementFails(r)
  BY <1>10
  DEF TypeOK, LocalInv, StageInv, TransactionInv, FindStages, BeforeCommit,
      IInv, CreatorInv, CreationInv, Over, Error, NoResult, QueryFails,
      CountFails, StatementFails, Abort, DropVersions, Return, Goto, tables,
      server, memory
<1>11. CASE LoseConnection(r) \/ LoseCommit(r) \/ FindBroken(r)
  BY <1>11, RowsStay
  DEF TypeOK, LocalInv, StageInv, IInv, KeptInv, CreationInv, Over, Error,
      NoResult, LoseConnection, LoseCommit, FindBroken, Return, Goto, memory
<1>12. CASE Server(r)
  BY <1>12, RowsStay
  DEF TypeOK, LocalInv, StageInv, IInv, KeptInv, CreationInv, Over, Server,
      Orphan, Reap, LateCommit, ForgetId
<1>13. QED
  BY <1>1, <1>2, <1>3, <1>4, <1>5, <1>6, <1>7, <1>8, <1>9,
     <1>10, <1>11, <1>12
  DEF Act, Statement, Fault

\* Nobody else touches what a creation has come to.
LEMMA OthersCreation ==
  ASSUME IInv, DrawnInv, Next, NEW r \in Caller, NEW q \in Caller \ {r},
         Act(r), CreationInv(q)
  PROVE  CreationInv(q)'
<1>1. Mine(q)' = Mine(q)
  BY Frame DEF IInv
<1>2. /\ pc'[q] = pc[q] /\ arg'[q] = arg[q] /\ id'[q] = id[q]
      /\ ret'[q] = ret[q] /\ tx'[q] = tx[q] /\ newAuth'[q] = newAuth[q]
  BY <1>1 DEF Mine
<1>3. SUFFICES ASSUME pc[q] # "idle", arg[q].op = "create"
               PROVE  CreationInv(q)'
  BY <1>2 DEF CreationInv
<1>4. id[q] \in Id
  BY <1>3 DEF IInv, LocalInv, StageInv
<1>5. auth[id[q]] # None =>
        auth'[id[q]] # None /\ auth'[id[q]].username = auth[id[q]].username
  BY <1>4, RowsStay DEF IInv
<1>6. auth[id[q]] = None => auth'[id[q]] = None
  <2>1. ASSUME auth[id[q]] = None, id[r] = id[q]
        PROVE  newAuth[r] = None
    BY <1>3, <2>1 DEF DrawnInv, Drew
  <2>2. QED
    BY <1>4, <2>1, ActTables DEF IInv, TypeOK, Defined, tables
<1>7. QED
  BY <1>2, <1>5, <1>6 DEF CreationInv, Over

\* A crash leaves of a creation what is in its transaction.
LEMMA CrashFate == IInv /\ FateInv /\ Crash => FateInv'
<1>1. SUFFICES ASSUME IInv, FateInv, Crash
               PROVE  FateInv'
  OBVIOUS
<1>2. ASSUME NEW q \in Caller
      PROVE  KeptInv(q)' /\ CreationInv(q)'
  BY <1>1 DEF Crash, KeptInv, CreationInv, InTransaction
<1>3. ASSUME NEW q \in Caller, Drew(q)'
      PROVE  Drew(q) /\ id'[q] = id[q]
  BY <1>1, <1>3 DEF Crash, Drew, IInv, LocalInv, TransactionInv, tables
<1>4. QED
  BY <1>1, <1>2, <1>3 DEF FateInv, DrawnInv

\* At first there is no creation.
LEMMA InitFate == Init => FateInv
  BY DEF Init, FateInv, DrawnInv, Drew, KeptInv, CreationInv, InTransaction

\* Every step keeps what creations have come to.
LEMMA NextFate == IInv /\ StoreInv /\ FateInv /\ [Next]_vars => FateInv'
<1>1. ASSUME IInv, StoreInv, FateInv, NEW r \in Caller, Act(r)
      PROVE  FateInv'
  <2>1. Next
    BY <1>1, NextIsAct
  <2>2. DrawnInv'
    BY <1>1, <2>1, DrawnStep DEF FateInv
  <2>3. KeptInv(r)' /\ CreationInv(r)'
    BY <1>1, <2>1, OwnKept, OwnCreation DEF FateInv, StoreInv
  <2>4. ASSUME NEW q \in Caller \ {r}
        PROVE  KeptInv(q)' /\ CreationInv(q)'
    <3>1. conn'[q] = conn[q] /\ pc'[q] = pc[q]
      BY <1>1, Frame DEF IInv, Mine
    <3>2. QED
      BY <1>1, <2>1, <3>1, OthersCreation DEF FateInv, KeptInv
  <2>5. QED
    BY <2>2, <2>3, <2>4 DEF FateInv
<1>2. ASSUME FateInv, UNCHANGED vars
      PROVE  FateInv'
  BY <1>2
  DEF FateInv, DrawnInv, Drew, KeptInv, CreationInv, Over, vars, tables,
      server, memory
<1>3. QED
  BY <1>1, <1>2, CrashFate, NextIsAct

\* A creation that has succeeded is stored and stays so; one that has failed,
\* its connection unbroken, has stored nothing and never will: its id is
\* nobody else's.
THEOREM FateInvariance == Spec => []FateInv
  BY Invariance, StoreInvariance, InitFate, NextFate, PTL DEF Spec

\* What create() returns is true of the tables as long as its caller has not
\* taken it: success of a user with that name in both tables, and an error of
\* no row in either and no transaction that could still leave one.
THEOREM CreateTruthful == Spec => []CreateTellsTheTruth
<1>1. ASSUME IInv, FateInv, NEW r \in Caller, pc[r] = "returned",
             arg[r].op = "create"
      PROVE  IF ret[r].error = "none"
             THEN /\ auth[id[r]] # None /\ users[id[r]] # None
                  /\ auth[id[r]].username = arg[r].username
             ELSE "connection" \notin Faults =>
                    auth[id[r]] = None /\ users[id[r]] = None /\ tx[r] = "none"
  <2>1. id[r] \in Id
    BY <1>1 DEF IInv, LocalInv, StageInv
  <2>2. auth[id[r]] = None <=> users[id[r]] = None
    BY <1>1, <2>1 DEF IInv, RowInv, CreatedTogether
  <2>3. QED
    BY <1>1, <2>2 DEF FateInv, CreationInv, Over
<1>2. IInv /\ FateInv => CreateTellsTheTruth
  BY <1>1 DEF CreateTellsTheTruth
<1>3. QED
  BY <1>2, Invariance, FateInvariance, PTL

-----------------------------------------------------------------------------
(***************************************************************************)
(* The service drives the repository by its protocol.                      *)
(***************************************************************************)

\* A step of the service for one request.
Serve(r) ==
  \/ Accept(r) \/ Continue(r)
  \/ RepositoryStep(r) \/ RepositoryFault(r) \/ ServerStep(r)

\* What a step for another request leaves alone.
Slot(q) == <<step[q], req[q], user[q], reply[q]>>

\* Every step is made for one request, is a crash, or changes nothing.
LEMMA ServiceNextIsServe ==
  ServiceNext <=> ServiceCrash \/ AllOver \/ \E r \in Caller : Serve(r)
  BY DEF ServiceNext, Serve

\* The calls that the methods make are calls of the repository.
LEMMA CallsOfMethods ==
  ASSUME NEW q \in Requests
  PROVE  /\ q \in Request
         /\ q.method = "getAll" => GetAllCall \in Calls
         /\ q.method \in {"getById", "update", "delete"} =>
              GetByIdCall(q) \in Calls /\ q.id \in Id
         /\ q.method = "delete" => DeleteCall(q) \in Calls
         /\ \A salt \in Salt :
              /\ q.method = "create" => CreateCall(q, salt) \in Calls
              /\ q.method = "update" => UpdateCall(q, salt) \in Calls
<1>1. Validated(q) /\ CallsFor(q) \subseteq Calls
  BY RequestsAssumption
<1>2. q \in Request /\ (q.method \in {"getById", "update", "delete"} => q.id \in Id)
  BY <1>1 DEF Validated, Request
<1>3. QED
  BY <1>1, <1>2 DEF CallsFor

\* What a call keeps of the request it is made for.
LEMMA CallsArguments ==
  ASSUME NEW q, NEW salt
  PROVE  /\ GetAllCall.op = "getAll" /\ GetByIdCall(q).op = "getById"
         /\ DeleteCall(q).op = "delete"
         /\ GetByIdCall(q).id = q.id /\ DeleteCall(q).id = q.id
         /\ CreateCall(q, salt).op = "create"
         /\ CreateCall(q, salt).password = Hash(q.password, salt)
         /\ CreateCall(q, salt).salt = salt
         /\ UpdateCall(q, salt).op = "update"
         /\ UpdateCall(q, salt).id = q.id
         /\ UpdateCall(q, salt).password =
              IF q.password = None THEN None ELSE Hash(q.password, salt)
  BY DEF GetAllCall, GetByIdCall, DeleteCall, CreateCall, UpdateCall, NoCall

\* A method that goes to the repository makes a call of it.
LEMMA MethodsCall ==
  ASSUME ServiceInv, NEW r \in Caller,
         Accept(r) \/ UpdateMethod(r) \/ DeleteMethod(r)
  PROVE  \E c \in Calls : Call(r, c)
<1>1. ASSUME NEW q \in Requests,
             GetAllMethod(r, q) \/ GetByIdMethod(r, q) \/ CreateMethod(r, q)
      PROVE  \E c \in Calls : Call(r, c)
  BY <1>1, CallsOfMethods DEF GetAllMethod, GetByIdMethod, CreateMethod
<1>2. CASE UpdateMethod(r) \/ DeleteMethod(r)
  <2>1. req[r] \in Requests /\ user[r] \in UsersModel
    BY <1>2
    DEF ServiceInv, ServiceTypeOK, ProtocolInv, UpdateMethod, DeleteMethod
  <2>2. user[r].salt \in Salt
    BY <2>1 DEF UsersModel
  <2>3. QED
    BY <1>2, <2>1, <2>2, CallsOfMethods DEF UpdateMethod, DeleteMethod
<1>3. QED
  BY <1>1, <1>2 DEF Accept

\* A step for a request makes a step of its caller in the repository.
LEMMA ServeIsAct ==
  ASSUME ServiceInv, NEW r \in Caller, Serve(r)
  PROVE  Act(r)
  BY MethodsCall
  DEF Serve, Continue, GetByIdReturns, Answer, RepositoryStep, RepositoryFault,
      ServerStep, Act

\* Every step of the service is a step of the repository, or none.
LEMMA ServiceIsRepository ==
  ASSUME ServiceInv, [ServiceNext]_serviceVars
  PROVE  [Next]_vars
  BY ServiceNextIsServe, ServeIsAct, NextIsAct
  DEF ServiceCrash, AllOver, serviceVars

\* A step for one request leaves the others where they are.
LEMMA ServiceFrame ==
  ASSUME ServiceInv, NEW r \in Caller, NEW q \in Caller \ {r}, Serve(r)
  PROVE  Mine(q)' = Mine(q) /\ Slot(q)' = Slot(q)
<1>1. Mine(q)' = Mine(q)
  BY ServeIsAct, Frame DEF ServiceInv, ServiceTypeOK
<1>2. Slot(q)' = Slot(q)
  BY DEF ServiceInv, ServiceTypeOK, Serve, Accept, GetAllMethod, GetByIdMethod,
         CreateMethod, Receive, Continue, GetByIdReturns, UpdateMethod,
         DeleteMethod, Answer, RepositoryStep, RepositoryFault, ServerStep,
         Proceed, Slot, service
<1>3. QED
  BY <1>1, <1>2

\* While the service waits, the call goes on being the same.
LEMMA WorkGoesOn ==
  ASSUME IInv, NEW r \in Caller, Statement(r) \/ Fault(r) \/ Server(r)
  PROVE  /\ pc'[r] = "idle" <=> pc[r] = "idle"
         /\ arg'[r] = arg[r] /\ (pc[r] # "idle" => id'[r] = id[r])
<1>1. CASE GetAllRows(r) \/ GetAllCount(r) \/ GetById(r) \/ FindAuth(r)
           \/ FindUsers(r) \/ ReturnMissing(r) \/ ReturnReadonly(r)
           \/ PassCheck(r) \/ Connect(r) \/ Begin(r)
  BY <1>1
  DEF IInv, TypeOK, GetAllRows, GetAllCount, GetById, FindAuth, FindUsers,
      ReturnMissing, ReturnReadonly, PassCheck, Connect, Begin, AfterBegin,
      AfterAuth, Return, Goto, memory
<1>2. CASE InsertAuth(r) \/ DeleteAuth(r) \/ WriteAuth(r) \/ SelectAuth(r)
           \/ InsertUsers(r) \/ DeleteUsers(r) \/ WriteUsers(r)
           \/ SelectUsers(r)
  BY <1>2
  DEF IInv, TypeOK, InsertAuth, DeleteAuth, WriteAuth, SelectAuth, InsertUsers,
      DeleteUsers, WriteUsers, SelectUsers, PutAuth, PutUsers, Abort,
      AfterAuth, Goto, memory
<1>3. CASE Commit(r) \/ Rollback(r) \/ Release(r) \/ FindBroken(r) \/ Server(r)
  BY <1>3
  DEF IInv, TypeOK, Commit, Rollback, Release, FindBroken, Server, Reap,
      LateCommit, ForgetId, InTransaction, Return, Goto, memory
<1>4. CASE Fault(r)
  BY <1>4
  DEF IInv, TypeOK, Fault, QueryFails, CountFails, StatementFails,
      LoseConnection, LoseCommit, InTransaction, Abort, Return, Goto, memory
<1>5. QED
  BY <1>1, <1>2, <1>3, <1>4 DEF Statement

\* Whatever is returned to a request is of the type of replies.
LEMMA ReplyType ==
  LET Reply == [error : {"none", "repository", "readonly", "notFound"},
                model : UsersModel \union {None},
                list : SUBSET UsersModel, count : Nat]
  IN Result \subseteq Reply /\ Error("notFound") \in Reply
  BY DEF Result, Error, NoResult

\* The service has the types it declares.
LEMMA ServiceTypeStep ==
  ASSUME IInv, IInv', ServiceInv, [ServiceNext]_serviceVars
  PROVE  ServiceTypeOK'
<1>1. TypeOK /\ TypeOK' /\ ServiceTypeOK
  BY DEF IInv, ServiceInv
<1>2. ASSUME NEW r \in Caller, Accept(r)
      PROVE  ServiceTypeOK'
  BY <1>1, <1>2
  DEF ServiceTypeOK, Accept, GetAllMethod, GetByIdMethod, CreateMethod,
      Receive, Proceed
<1>3. ASSUME NEW r \in Caller, GetByIdReturns(r)
      PROVE  ServiceTypeOK'
  <2>1. ret[r] \in Result
    BY <1>1 DEF TypeOK
  <2>2. ret[r].model \in UsersModel \union {None}
    BY <2>1 DEF Result
  <2>3. QED
    BY <1>1, <1>3, <2>1, <2>2, ReplyType
    DEF ServiceTypeOK, GetByIdReturns, Proceed
<1>4. ASSUME NEW r \in Caller, UpdateMethod(r) \/ DeleteMethod(r)
      PROVE  ServiceTypeOK'
  BY <1>1, <1>4 DEF ServiceTypeOK, UpdateMethod, DeleteMethod, Proceed
<1>5. ASSUME NEW r \in Caller, Answer(r)
      PROVE  ServiceTypeOK'
  <2>1. ret[r] \in Result
    BY <1>1 DEF TypeOK
  <2>2. QED
    BY <1>1, <1>5, <2>1, ReplyType DEF ServiceTypeOK, Answer, Proceed
<1>6. CASE UNCHANGED service
  BY <1>1, <1>6 DEF ServiceTypeOK, service
<1>7. CASE ServiceCrash
  BY <1>1, <1>7 DEF ServiceTypeOK, ServiceCrash
<1>8. QED
  BY <1>2, <1>3, <1>4, <1>5, <1>6, <1>7
  DEF ServiceNext, Continue, RepositoryStep, RepositoryFault, ServerStep,
      AllOver, serviceVars

\* A step for a request keeps to the protocol.
LEMMA ProtocolStep ==
  ASSUME IInv, ServiceInv, NEW r \in Caller, Serve(r)
  PROVE  ProtocolInv(r)'
<1>1. TypeOK /\ ServiceTypeOK /\ ProtocolInv(r)
  BY DEF IInv, ServiceInv
<1>2. CASE Accept(r)
  <2>1. PICK q \in Requests :
          GetAllMethod(r, q) \/ GetByIdMethod(r, q) \/ CreateMethod(r, q)
    BY <1>2 DEF Accept
  <2>2. PICK c :
          /\ Call(r, c)
          /\ \/ step'[r] = "answer" /\ c.op = q.method
             \/ /\ step'[r] = "getById" /\ c = GetByIdCall(q)
                /\ q.method \in {"getById", "update", "delete"}
    <3>1. CASE GetAllMethod(r, q)
      BY <1>1, <3>1 DEF ServiceTypeOK, GetAllMethod, Proceed, GetAllCall, NoCall
    <3>2. CASE GetByIdMethod(r, q)
      BY <1>1, <3>2 DEF ServiceTypeOK, GetByIdMethod, Proceed
    <3>3. CASE CreateMethod(r, q)
      <4>1. PICK salt \in Salt : Call(r, CreateCall(q, salt))
        BY <3>3 DEF CreateMethod
      <4>2. step'[r] = "answer" /\ q.method = "create"
        BY <1>1, <3>3 DEF ServiceTypeOK, CreateMethod, Proceed
      <4>3. CreateCall(q, salt).op = "create"
        BY CallsArguments
      <4>4. QED
        BY <4>1, <4>2, <4>3
    <3>4. QED
      BY <2>1, <3>1, <3>2, <3>3
  <2>3. pc'[r] # "idle" /\ arg'[r] = c
    BY <1>1, <2>2 DEF TypeOK, Call, CallCreate, CallOther, FirstStage, Goto
  <2>4. req'[r] = q
    BY <1>1, <2>1
    DEF ServiceTypeOK, GetAllMethod, GetByIdMethod, CreateMethod, Receive
  <2>5. QED
    BY <2>2, <2>3, <2>4 DEF ProtocolInv
<1>3. CASE GetByIdReturns(r)
  BY <1>1, <1>3
  DEF TypeOK, ServiceTypeOK, ProtocolInv, GetByIdReturns, Take, Proceed, Goto,
      Error
<1>4. CASE UpdateMethod(r) \/ DeleteMethod(r)
  <2>1. \E c : Call(r, c) /\ c.op = req[r].method
    <3>1. CASE UpdateMethod(r)
      <4>1. UpdateCall(req[r], user[r].salt).op = "update"
        BY CallsArguments
      <4>2. QED
        BY <3>1, <4>1 DEF UpdateMethod
    <3>2. CASE DeleteMethod(r)
      <4>1. DeleteCall(req[r]).op = "delete"
        BY CallsArguments
      <4>2. QED
        BY <3>2, <4>1 DEF DeleteMethod
    <3>3. QED
      BY <1>4, <3>1, <3>2
  <2>2. pc'[r] # "idle" /\ arg'[r].op = req[r].method
    BY <1>1, <2>1 DEF TypeOK, Call, CallCreate, CallOther, FirstStage, Goto
  <2>3. /\ step[r] = "found" /\ req' = req
        /\ step' = [step EXCEPT ![r] = "answer"]
    BY <1>4 DEF UpdateMethod, DeleteMethod, Proceed
  <2>4. QED
    BY <1>1, <2>1, <2>2, <2>3 DEF ServiceTypeOK, ProtocolInv
<1>5. CASE Answer(r)
  BY <1>1, <1>5
  DEF TypeOK, ServiceTypeOK, ProtocolInv, Answer, Take, Proceed, Goto
<1>6. CASE RepositoryStep(r) \/ RepositoryFault(r) \/ ServerStep(r)
  BY <1>1, <1>6, WorkGoesOn
  DEF ProtocolInv, RepositoryStep, RepositoryFault, ServerStep, service
<1>7. QED
  BY <1>2, <1>3, <1>4, <1>5, <1>6 DEF Serve, Continue

\* Every step of the service keeps its types and its protocol.
LEMMA NextServiceInv ==
  IInv /\ IInv' /\ ServiceInv /\ [ServiceNext]_serviceVars => ServiceInv'
<1>1. SUFFICES ASSUME IInv, IInv', ServiceInv, [ServiceNext]_serviceVars
               PROVE  \A q \in Caller : ProtocolInv(q)'
  BY ServiceTypeStep DEF ServiceInv
<1>2. ASSUME NEW r \in Caller, Serve(r), NEW q \in Caller
      PROVE  ProtocolInv(q)'
  <2>1. CASE q = r
    BY <1>1, <1>2, <2>1, ProtocolStep
  <2>2. CASE q # r
    BY <1>1, <1>2, <2>2, ServiceFrame DEF ServiceInv, ProtocolInv, Mine, Slot
  <2>3. QED
    BY <2>1, <2>2
<1>3. CASE ServiceCrash
  BY <1>1, <1>3 DEF ServiceInv, ProtocolInv, ServiceCrash, Crash
<1>4. CASE UNCHANGED serviceVars
  BY <1>1, <1>4
  DEF ServiceInv, ProtocolInv, serviceVars, service, vars, memory
<1>5. QED
  BY <1>1, <1>2, <1>3, <1>4, ServiceNextIsServe DEF AllOver

\* At first the service has no request.
LEMMA InitServiceInv == ServiceInit => ServiceInv
<1>1. NoResult \in [error : {"none", "repository", "readonly", "notFound"},
                    model : UsersModel \union {None},
                    list : SUBSET UsersModel, count : Nat]
  BY DEF NoResult
<1>2. ServiceInit => ServiceTypeOK
  BY <1>1, TypeInit DEF ServiceInit, ServiceTypeOK
<1>3. ServiceInit => \A r \in Caller : ProtocolInv(r)
  BY DEF ServiceInit, Init, ProtocolInv
<1>4. QED
  BY <1>2, <1>3 DEF ServiceInv

\* The invariants of the repository hold of the service, and the service
\* keeps to its protocol.
THEOREM ServiceInvariance == ServiceSpec => [](IInv /\ StoreInv /\ FateInv /\ ServiceInv)
<1> DEFINE J == IInv /\ StoreInv /\ FateInv /\ ServiceInv
<1>1. ServiceInit => J
  BY InitIInv, InitStoreInv, InitFate, InitServiceInv DEF ServiceInit
<1>2. J /\ [ServiceNext]_serviceVars => J'
  BY ServiceIsRepository, NextIInv, NextStoreInv, NextFate, NextServiceInv
<1>3. QED
  BY <1>1, <1>2, PTL DEF ServiceSpec

\* Of every request the service keeps types, whatever the repository returns.
THEOREM ServiceTypeCorrect == ServiceSpec => []ServiceTypeOK
  BY ServiceInvariance, PTL DEF ServiceInv

\* Whatever requests arrive, the service makes of the repository only the
\* calls it may make, one at a time for a request: what holds of the
\* repository on its own holds of it behind the service.
THEOREM ServiceDrivesRepository == ServiceSpec => RepositorySpec
<1>1. ServiceInit => Init
  BY DEF ServiceInit
<1>2. ServiceInv /\ [ServiceNext]_serviceVars => [Next]_vars
  BY ServiceIsRepository
<1>3. QED
  BY <1>1, <1>2, ServiceInvariance, PTL DEF ServiceSpec, RepositorySpec, Spec

-----------------------------------------------------------------------------
(***************************************************************************)
(* The salts of passwords.                                                 *)
(***************************************************************************)

\* Whatever columns are written, a row keeps its salt and a password that
\* was made with it.
LEMMA SaltedRows ==
  ASSUME NEW row \in AuthEntity, Salted(row)
  PROVE  /\ Salted(SoftDelete(row))
         /\ \A entity \in AuthEntity : \A cols :
              Salted(entity) /\ entity.salt = row.salt =>
                Salted(UpdateColumns(row, entity, cols))
  BY DEF Salted, SoftDelete, UpdateColumns, AuthEntity

\* A row that is assigned a password made with its salt stays so.
LEMMA SaltedAssigned ==
  ASSUME NEW row \in AuthEntity, Salted(row), NEW c,
         c.password # None => c.password.salt = row.salt
  PROVE  Salted(AssignAuth(row, c))
  BY DEF Salted, AssignAuth, Defined, AuthEntity

\* Only a statement that puts a row of auth writes a version of it.
LEMMA VersionFrame ==
  ASSUME IInv, NEW r \in Caller, Act(r),
         ~(InsertAuth(r) \/ DeleteAuth(r) \/ WriteAuth(r))
  PROVE  newAuth'[r] \in {newAuth[r], None}
<1>1. CASE \E c \in Calls : Call(r, c)
  BY <1>1 DEF Call, CallCreate, CallOther, server
<1>2. CASE Take(r)
  BY <1>2 DEF Take, server
<1>3. CASE GetAllRows(r) \/ GetAllCount(r) \/ GetById(r) \/ FindAuth(r) \/
           FindUsers(r)
  BY <1>3 DEF GetAllRows, GetAllCount, GetById, FindAuth, FindUsers, server
<1>4. CASE ReturnMissing(r) \/ ReturnReadonly(r) \/ PassCheck(r)
  BY <1>4 DEF ReturnMissing, ReturnReadonly, PassCheck, server
<1>5. CASE Connect(r) \/ Begin(r)
  BY <1>5 DEF Connect, Begin, server
<1>6. CASE InsertUsers(r) \/ DeleteUsers(r) \/ WriteUsers(r)
  BY <1>6 DEF InsertUsers, DeleteUsers, WriteUsers, PutUsers
<1>7. CASE SelectAuth(r) \/ SelectUsers(r)
  BY <1>7 DEF SelectAuth, SelectUsers, AfterAuth, server
<1>8. CASE Commit(r) \/ Rollback(r) \/ Release(r)
  BY <1>8
  DEF IInv, TypeOK, Commit, Rollback, Release, InstallVersions, DropVersions,
      server
<1>9. CASE QueryFails(r) \/ CountFails(r) \/ StatementFails(r)
  BY <1>9
  DEF IInv, TypeOK, QueryFails, CountFails, StatementFails, Abort,
      DropVersions, server
<1>10. CASE LoseConnection(r) \/ LoseCommit(r) \/ FindBroken(r)
  BY <1>10 DEF LoseConnection, LoseCommit, FindBroken, server
<1>11. CASE Server(r)
  BY <1>11
  DEF IInv, TypeOK, Server, Reap, LateCommit, InstallVersions, DropVersions
<1>12. QED
  BY <1>1, <1>2, <1>3, <1>4, <1>5, <1>6, <1>7, <1>8, <1>9, <1>10, <1>11
  DEF Act, Statement, Fault

\* An entity of auth is built by create(), found, or assigned to.
LEMMA EntityFrame ==
  ASSUME IInv, NEW r \in Caller, Act(r), ~FindAuth(r), ~Begin(r),
         \A c \in Calls : ~CallCreate(r, c)
  PROVE  authRow'[r] \in {authRow[r], None}
<1>1. CASE \E c \in Calls : Call(r, c)
  BY <1>1 DEF Call, CallOther
<1>2. CASE Take(r)
  BY <1>2 DEF Take
<1>3. CASE GetAllRows(r) \/ GetAllCount(r) \/ GetById(r) \/ FindAuth(r) \/
           FindUsers(r)
  BY <1>3
  DEF IInv, TypeOK, GetAllRows, GetAllCount, GetById, FindUsers, Return, Forget
<1>4. CASE ReturnMissing(r) \/ ReturnReadonly(r) \/ PassCheck(r)
  BY <1>4
  DEF IInv, TypeOK, ReturnMissing, ReturnReadonly, PassCheck, Return, Forget,
      memory
<1>5. CASE Connect(r) \/ Begin(r)
  BY <1>5 DEF Connect, memory
<1>6. CASE InsertAuth(r) \/ DeleteAuth(r) \/ WriteAuth(r)
  BY <1>6 DEF InsertAuth, DeleteAuth, WriteAuth, memory
<1>7. CASE InsertUsers(r) \/ DeleteUsers(r) \/ WriteUsers(r)
  BY <1>7 DEF InsertUsers, DeleteUsers, WriteUsers, memory
<1>8. CASE SelectAuth(r) \/ SelectUsers(r)
  BY <1>8 DEF SelectAuth, SelectUsers, AfterAuth
<1>9. CASE Commit(r) \/ Rollback(r) \/ Release(r)
  BY <1>9 DEF IInv, TypeOK, Commit, Rollback, Release, Return, Forget, memory
<1>10. CASE QueryFails(r) \/ CountFails(r) \/ StatementFails(r)
  BY <1>10
  DEF IInv, TypeOK, QueryFails, CountFails, StatementFails, Return, Forget,
      memory
<1>11. CASE LoseConnection(r) \/ LoseCommit(r) \/ FindBroken(r)
  BY <1>11
  DEF IInv, TypeOK, LoseConnection, LoseCommit, FindBroken, Return, Forget,
      memory
<1>12. CASE Server(r)
  BY <1>12 DEF Server, Reap, LateCommit
<1>13. QED
  BY <1>1, <1>2, <1>3, <1>4, <1>5, <1>6, <1>7, <1>8, <1>9,
     <1>10, <1>11, <1>12
  DEF Act, Statement, Fault

\* A model is returned by getById() and by create().
LEMMA ModelFrame ==
  ASSUME IInv, NEW r \in Caller, Act(r), ~GetById(r), ~Commit(r)
  PROVE  ret'[r].model \in {ret[r].model, None}
<1>1. CASE \E c \in Calls : Call(r, c)
  BY <1>1 DEF Call, CallCreate, CallOther
<1>2. CASE Take(r)
  BY <1>2 DEF NoResult, Take
<1>3. CASE GetAllRows(r) \/ GetAllCount(r) \/ GetById(r) \/ FindAuth(r) \/
           FindUsers(r)
  <2>1. CASE GetAllCount(r)
    <3>1. \A read, n : /\ FillModels(read).model = None
                       /\ [FillModels(read) EXCEPT !.count = n].model = None
      BY DEF FillModels, Error, NoResult
    <3>2. QED
      BY <2>1, <3>1 DEF GetAllCount, Return
  <2>2. CASE GetAllRows(r) \/ FindAuth(r) \/ FindUsers(r)
    BY <2>2 DEF GetAllRows, FindAuth, FindUsers
  <2>3. QED
    BY <1>3, <2>1, <2>2
<1>4. CASE ReturnMissing(r) \/ ReturnReadonly(r) \/ PassCheck(r)
  BY <1>4
  DEF IInv, TypeOK, Error, Count, NoResult, ReturnMissing, ReturnReadonly,
      PassCheck, Return
<1>5. CASE Connect(r) \/ Begin(r)
  BY <1>5 DEF Connect, Begin
<1>6. CASE InsertAuth(r) \/ DeleteAuth(r) \/ WriteAuth(r)
  BY <1>6 DEF InsertAuth, DeleteAuth, WriteAuth
<1>7. CASE InsertUsers(r) \/ DeleteUsers(r) \/ WriteUsers(r)
  BY <1>7 DEF InsertUsers, DeleteUsers, WriteUsers
<1>8. CASE SelectAuth(r) \/ SelectUsers(r)
  BY <1>8 DEF SelectAuth, SelectUsers
<1>9. CASE Commit(r) \/ Rollback(r) \/ Release(r)
  BY <1>9 DEF IInv, TypeOK, Error, NoResult, Rollback, Release, Return
<1>10. CASE QueryFails(r) \/ CountFails(r) \/ StatementFails(r)
  BY <1>10
  DEF IInv, TypeOK, Error, NoResult, QueryFails, CountFails, StatementFails,
      Return
<1>11. CASE LoseConnection(r) \/ LoseCommit(r) \/ FindBroken(r)
  BY <1>11
  DEF IInv, TypeOK, Error, NoResult, LoseConnection, LoseCommit, FindBroken,
      Return
<1>12. CASE Server(r)
  BY <1>12 DEF Server, Reap, LateCommit
<1>13. QED
  BY <1>1, <1>2, <1>3, <1>4, <1>5, <1>6, <1>7, <1>8, <1>9,
     <1>10, <1>11, <1>12
  DEF Act, Statement, Fault

\* A version that a step writes has the salt its password was made with.
LEMMA VersionSalted ==
  ASSUME IInv, SaltsInv, NEW r \in Caller, Act(r), newAuth'[r] # None
  PROVE  newAuth'[r].password.salt = newAuth'[r].salt
<1>1. CASE newAuth'[r] = newAuth[r]
  BY <1>1 DEF SaltsInv, PasswordMatchesSalt
<1>2. CASE InsertAuth(r) \/ DeleteAuth(r) \/ WriteAuth(r)
  <2>1. id[r] \in Id /\ authRow[r] \in AuthEntity /\ Salted(authRow[r])
    BY <1>2
    DEF IInv, TypeOK, LocalInv, StageInv, EntityInv, InTransaction, WriteStages,
        SaltsInv, MemorySalted, InsertAuth, DeleteAuth, WriteAuth
  <2>2. DeleteAuth(r) \/ WriteAuth(r) =>
          /\ auth[id[r]] \in AuthEntity /\ Salted(auth[id[r]])
          /\ authRow[r].salt = auth[id[r]].salt
    BY <2>1
    DEF IInv, TypeOK, LocalInv, StageInv, EntityInv, SaltsInv,
        PasswordMatchesSalt, Salted, DeleteAuth, WriteAuth
  <2>3. \E row : PutAuth(r, row) /\ Salted(row)
    BY <1>2, <2>1, <2>2, SaltedRows DEF InsertAuth, DeleteAuth, WriteAuth
  <2>4. QED
    BY <1>1, <2>3 DEF IInv, TypeOK, PutAuth, Abort, DropVersions, Salted
<1>3. CASE ~(InsertAuth(r) \/ DeleteAuth(r) \/ WriteAuth(r))
  <2>1. newAuth'[r] = newAuth[r] \/ newAuth'[r] = None
    BY <1>3, VersionFrame DEF IInv
  <2>2. QED
    BY <1>1, <2>1
<1>4. QED
  BY <1>2, <1>3

\* The salt of what a caller has in memory is that of the row it was read of.
LEMMA EntitySalted ==
  ASSUME IInv, SaltsInv, NEW r \in Caller, Act(r),
         \A c \in Calls : CallCreate(r, c) => Salted(c)
  PROVE  MemorySalted(r)'
<1>1. CASE \E c \in Calls : CallCreate(r, c)
  <2>1. PICK c \in Calls : CallCreate(r, c) /\ Salted(c)
    BY <1>1
  <2>2. authRow'[r] = NewAuth(c)
    BY <2>1 DEF IInv, TypeOK, CallCreate
  <2>3. QED
    BY <2>1, <2>2 DEF MemorySalted, Salted, NewAuth
<1>2. CASE FindAuth(r)
  <2>1. id[r] \in Id
    BY <1>2 DEF IInv, LocalInv, StageInv, FindStages, FindAuth
  <2>2. QED
    BY <1>2, <2>1
    DEF SaltsInv, PasswordMatchesSalt, MemorySalted, Salted, FindAuth, Find
<1>3. CASE Begin(r)
  <2>1. authRow[r] \in AuthEntity /\ Salted(authRow[r])
    BY <1>3
    DEF IInv, TypeOK, LocalInv, EntityInv, WriteStages, SaltsInv, MemorySalted,
        Begin
  <2>2. CASE arg[r].op = "update"
    <3>1. arg[r].password # None => arg[r].password.salt = authRow[r].salt
      BY <1>3, <2>1, <2>2
      DEF IInv, LocalInv, EntityInv, SaltsInv, CallSalted, Begin
    <3>2. authRow'[r] = AssignAuth(authRow[r], arg[r])
      BY <1>3, <2>2 DEF IInv, TypeOK, Begin
    <3>3. QED
      BY <2>1, <3>1, <3>2, SaltedAssigned DEF MemorySalted
  <2>3. CASE arg[r].op # "update"
    BY <1>3, <2>1, <2>3 DEF MemorySalted, Begin
  <2>4. QED
    BY <2>2, <2>3
<1>4. CASE ~FindAuth(r) /\ ~Begin(r) /\ \A c \in Calls : ~CallCreate(r, c)
  BY <1>4, EntityFrame DEF IInv, SaltsInv, MemorySalted
<1>5. QED
  BY <1>1, <1>2, <1>3, <1>4

\* What a step leaves of the rows a salt was taken from.
LEMMA SaltsStay ==
  ASSUME IInv, Next, NEW i \in Id, auth[i] # None
  PROVE  auth'[i] # None /\ auth'[i].salt = auth[i].salt
  BY RowsStay DEF IInv

\* Another request's step changes none of this.
LEMMA OthersSalted ==
  ASSUME IInv, SaltsInv, ServiceInv, NEW r \in Caller,
         NEW q \in Caller \ {r}, Serve(r)
  PROVE  MemorySalted(q)' /\ CallSalted(q)' /\ ReadSalted(q)'
<1>1. /\ pc'[q] = pc[q] /\ arg'[q] = arg[q] /\ id'[q] = id[q]
      /\ ret'[q] = ret[q] /\ authRow'[q] = authRow[q]
      /\ step'[q] = step[q] /\ user'[q] = user[q] /\ req'[q] = req[q]
  BY ServiceFrame DEF Mine, Slot
<1>2. Next
  BY ServeIsAct, NextIsAct
<1>3. MemorySalted(q)'
  BY <1>1 DEF SaltsInv, MemorySalted
<1>4. pc[q] # "idle" /\ arg[q].op \in {"update", "getById"} => id[q] \in Id
  BY DEF IInv, LocalInv, StageInv
<1>5. CallSalted(q)'
  BY <1>1, <1>2, <1>4, SaltsStay DEF SaltsInv, CallSalted
<1>6. step[q] = "found" => req[q].id \in Id
  BY CallsOfMethods DEF ServiceInv, ProtocolInv
<1>7. ReadSalted(q)'
  BY <1>1, <1>2, <1>4, <1>6, SaltsStay DEF SaltsInv, ReadSalted, ReadOf
<1>8. QED
  BY <1>3, <1>5, <1>7

\* A request's call brings the salt of the user it was found with.
LEMMA CallSaltedStep ==
  ASSUME IInv, SaltsInv, ServiceInv, NEW r \in Caller, Serve(r)
  PROVE  CallSalted(r)'
<1>1. TypeOK /\ CallSalted(r) /\ ReadSalted(r)
  BY DEF IInv, SaltsInv
<1>2. CASE Accept(r)
  <2>1. PICK q \in Requests :
          GetAllMethod(r, q) \/ GetByIdMethod(r, q) \/ CreateMethod(r, q)
    BY <1>2 DEF Accept
  <2>2. PICK c \in Calls :
          Call(r, c) /\ (c.op = "create" => Salted(c)) /\ c.op # "update"
    <3>1. CASE GetAllMethod(r, q)
      BY <3>1, CallsOfMethods DEF GetAllMethod, GetAllCall, NoCall
    <3>2. CASE GetByIdMethod(r, q)
      BY <3>2, CallsOfMethods DEF GetByIdMethod, GetByIdCall, NoCall
    <3>3. CASE CreateMethod(r, q)
      BY <3>3, CallsOfMethods DEF CreateMethod, CreateCall, Hash, Salted
    <3>4. QED
      BY <2>1, <3>1, <3>2, <3>3
  <2>3. arg'[r] = c
    BY <1>1, <2>2 DEF TypeOK, Call, CallCreate, CallOther
  <2>4. QED
    BY <2>2, <2>3 DEF CallSalted
<1>3. CASE UpdateMethod(r)
  <2>1. req[r] \in Requests /\ ReadOf(user[r], req[r].id)
    BY <1>1, <1>3 DEF ReadSalted, ServiceInv, ProtocolInv, UpdateMethod
  <2>2. req[r].id \in Id
    BY <1>3, <2>1, CallsOfMethods DEF UpdateMethod
  <2>3. PICK c : /\ Call(r, c) /\ c.op = "update" /\ c.id = req[r].id
                 /\ c.password # None => c.password.salt = user[r].salt
    <3>1. /\ UpdateCall(req[r], user[r].salt).op = "update"
          /\ UpdateCall(req[r], user[r].salt).id = req[r].id
          /\ UpdateCall(req[r], user[r].salt).password =
               IF req[r].password = None THEN None
               ELSE Hash(req[r].password, user[r].salt)
      BY CallsArguments
    <3>2. QED
      BY <1>3, <3>1 DEF UpdateMethod, Hash
  <2>4. arg'[r] = c /\ id'[r] = req[r].id /\ UNCHANGED tables
    BY <1>1, <2>3 DEF TypeOK, Call, CallCreate, CallOther
  <2>5. QED
    BY <2>1, <2>3, <2>4 DEF CallSalted, ReadOf, tables
<1>4. CASE DeleteMethod(r)
  <2>1. PICK c : Call(r, c) /\ c.op = "delete"
    <3>1. DeleteCall(req[r]).op = "delete"
      BY CallsArguments
    <3>2. QED
      BY <1>4, <3>1 DEF DeleteMethod
  <2>2. arg'[r] = c
    BY <1>1, <2>1 DEF TypeOK, Call, CallCreate, CallOther
  <2>3. QED
    BY <2>1, <2>2 DEF CallSalted
<1>5. CASE GetByIdReturns(r) \/ Answer(r)
  BY <1>1, <1>5 DEF TypeOK, CallSalted, GetByIdReturns, Answer, Take, Goto
<1>6. CASE RepositoryStep(r) \/ RepositoryFault(r) \/ ServerStep(r)
  <2>1. /\ pc'[r] = "idle" <=> pc[r] = "idle"
        /\ arg'[r] = arg[r] /\ (pc[r] # "idle" => id'[r] = id[r])
    BY <1>6, WorkGoesOn DEF RepositoryStep, RepositoryFault, ServerStep
  <2>2. pc[r] # "idle" /\ arg[r].op = "update" => id[r] \in Id
    BY DEF IInv, LocalInv, StageInv
  <2>3. Next
    BY ServeIsAct, NextIsAct
  <2>4. QED
    BY <1>1, <2>1, <2>2, <2>3, SaltsStay DEF CallSalted
<1>7. QED
  BY <1>2, <1>3, <1>4, <1>5, <1>6 DEF Serve, Continue

\* What getById() returns, and what is kept of it, is of the row it has read.
LEMMA ReadSaltedStep ==
  ASSUME IInv, StoreInv, SaltsInv, ServiceInv, NEW r \in Caller, Serve(r)
  PROVE  ReadSalted(r)'
<1>1. TypeOK /\ ServiceTypeOK /\ ReadSalted(r) /\ ProtocolInv(r)
  BY DEF IInv, SaltsInv, ServiceInv
<1>2. Act(r) /\ Next
  BY ServeIsAct, NextIsAct
<1>3. CASE Accept(r) \/ UpdateMethod(r) \/ DeleteMethod(r)
  <2>1. \E c : Call(r, c)
    BY <1>3 DEF Accept, GetAllMethod, GetByIdMethod, CreateMethod, UpdateMethod,
                DeleteMethod
  <2>2. pc'[r] # "returned"
    BY <1>1, <2>1 DEF TypeOK, Call, CallCreate, CallOther, FirstStage, Goto
  <2>3. step'[r] # "found"
    BY <1>1, <1>3
    DEF ServiceTypeOK, Accept, GetAllMethod, GetByIdMethod, CreateMethod,
        UpdateMethod, DeleteMethod, Proceed
  <2>4. QED
    BY <2>2, <2>3 DEF ReadSalted
<1>4. CASE GetByIdReturns(r)
  <2>1. /\ pc[r] = "returned" /\ pc'[r] = "idle" /\ UNCHANGED <<tables, req>>
        /\ arg[r] = GetByIdCall(req[r]) /\ req[r] \in Requests
    BY <1>1, <1>4
    DEF TypeOK, ProtocolInv, GetByIdReturns, Take, Goto
  <2>2. arg[r].op = "getById" /\ arg[r].id = req[r].id
    BY <2>1, CallsArguments
  <2>3. id[r] = req[r].id
    BY <2>1, <2>2 DEF StoreInv, CallInv
  <2>4. step'[r] = "found" => user'[r] = ret[r].model /\ ret[r].model # None
    BY <1>1, <1>4 DEF ServiceTypeOK, GetByIdReturns, Proceed, Error
  <2>5. QED
    BY <1>1, <2>1, <2>2, <2>3, <2>4 DEF ReadSalted, ReadOf, tables
<1>5. CASE Answer(r)
  BY <1>1, <1>5 DEF TypeOK, ReadSalted, Answer, Take, Proceed, Goto
<1>6. ASSUME Statement(r) \/ Fault(r) \/ Server(r), UNCHANGED service
      PROVE  ReadSalted(r)'
  <2>1. step[r] = "found" => req[r].id \in Id
    BY <1>1, CallsOfMethods DEF ProtocolInv
  <2>2. step'[r] = "found" => ReadOf(user[r], req[r].id)'
    BY <1>1, <1>2, <1>6, <2>1, SaltsStay DEF ReadSalted, ReadOf, service
  <2>3. /\ pc'[r] = "idle" <=> pc[r] = "idle"
        /\ arg'[r] = arg[r] /\ (pc[r] # "idle" => id'[r] = id[r])
    BY <1>6, WorkGoesOn
  <2>4. SUFFICES ASSUME pc'[r] = "returned", arg[r].op = "getById",
                        ret'[r].model # None
                 PROVE  ReadOf(ret[r].model, id[r])'
    BY <1>6, <2>2, <2>3 DEF ReadSalted, ReadOf, service
  <2>5. id[r] \in Id /\ id'[r] = id[r] /\ pc[r] # "idle"
    BY <2>3, <2>4 DEF IInv, LocalInv, StageInv
  <2>6. CASE GetById(r)
    <3>1. UNCHANGED tables
      BY <2>6 DEF GetById
    <3>2. /\ Find(auth[id[r]]) # None
          /\ ret'[r] = [NoResult EXCEPT !.model =
               FillModel(id[r], Find(auth[id[r]]), Find(users[id[r]]))]
      BY <1>1, <2>4, <2>6 DEF TypeOK, GetById, Return, Error, NoResult
    <3>3. /\ ret'[r].model.id = id[r]
          /\ ret'[r].model.salt = Find(auth[id[r]]).salt
      BY <3>2 DEF NoResult, FillModel
    <3>4. QED
      BY <2>5, <3>1, <3>2, <3>3 DEF ReadOf, Find, tables
  <2>7. CASE ~GetById(r)
    <3>1. ~Commit(r) /\ pc[r] # "release"
      BY <2>4 DEF IInv, LocalInv, StageInv, WriteStages, InTransaction, Commit
    <3>2. ret'[r].model = ret[r].model
      BY <1>2, <2>4, <2>7, <3>1, ModelFrame
    <3>3. pc[r] = "returned"
      BY <2>4, <3>1, <3>2 DEF StoreInv, CallInv, NoResult
    <3>4. ReadOf(ret[r].model, id[r])
      BY <1>1, <2>4, <3>2, <3>3 DEF ReadSalted
    <3>5. QED
      BY <1>2, <2>5, <3>2, <3>4, SaltsStay DEF ReadOf
  <2>8. QED
    BY <2>6, <2>7
<1>7. QED
  BY <1>3, <1>4, <1>5, <1>6
  DEF Serve, Continue, RepositoryStep, RepositoryFault, ServerStep

\* A crash leaves no password in memory.
LEMMA CrashSalted == SaltsInv /\ ServiceCrash => SaltsInv'
  BY DEF SaltsInv, PasswordMatchesSalt, MemorySalted, CallSalted, ReadSalted,
         ServiceCrash, Crash, tables

\* The administrator's row of the migrations is hashed with its salt.
LEMMA InitSalted == ServiceInit => SaltsInv
  BY DEF ServiceInit, Init, SaltsInv, PasswordMatchesSalt, MemorySalted,
         CallSalted, ReadSalted, Hash

\* Every step keeps passwords and salts together.
LEMMA NextSalted ==
  ASSUME IInv, StoreInv, ServiceInv, SaltsInv, [ServiceNext]_serviceVars
  PROVE  SaltsInv'
<1>1. ASSUME NEW r \in Caller, Serve(r)
      PROVE  SaltsInv'
  <2>1. Act(r)
    BY <1>1, ServeIsAct
  <2>2. PasswordMatchesSalt'
    <3>1. ASSUME NEW q \in Caller, newAuth'[q] # None
          PROVE  newAuth'[q].password.salt = newAuth'[q].salt
      <4>1. CASE q = r
        BY <2>1, <3>1, <4>1, VersionSalted
      <4>2. CASE q # r
        BY <2>1, <3>1, <4>2, Frame
        DEF IInv, Mine, SaltsInv, PasswordMatchesSalt
      <4>3. QED
        BY <4>1, <4>2
    <3>2. ASSUME NEW i \in Id, auth'[i] # None
          PROVE  auth'[i].password.salt = auth'[i].salt
      BY <2>1, <3>2, ActTables
      DEF IInv, TypeOK, Defined, SaltsInv, PasswordMatchesSalt, tables
    <3>3. QED
      BY <3>1, <3>2 DEF PasswordMatchesSalt
  <2>3. CallSalted(r)'
    BY <1>1, CallSaltedStep
  <2>4. ReadSalted(r)'
    BY <1>1, ReadSaltedStep
  <2>5. MemorySalted(r)'
    <3>1. ASSUME NEW c \in Calls, CallCreate(r, c)
          PROVE  Salted(c)
      BY <2>3, <3>1 DEF IInv, TypeOK, CallCreate, Goto, CallSalted
    <3>2. QED
      BY <2>1, <3>1, EntitySalted
  <2>6. \A q \in Caller \ {r} :
          MemorySalted(q)' /\ CallSalted(q)' /\ ReadSalted(q)'
    BY <1>1, OthersSalted
  <2>7. QED
    BY <2>2, <2>3, <2>4, <2>5, <2>6 DEF SaltsInv
<1>2. CASE UNCHANGED serviceVars
  BY <1>2
  DEF SaltsInv, PasswordMatchesSalt, MemorySalted, CallSalted, ReadSalted,
      ReadOf, serviceVars, service, vars, tables, server, memory
<1>3. QED
  BY <1>1, <1>2, CrashSalted, ServiceNextIsServe DEF AllOver

\* Whatever requests meet, every password that is stored, is about to be, or
\* is in memory on its way there was hashed with the salt of its own row;
\* and of the rest of what the service knows of the tables this much is true.
THEOREM ServiceIInvariance == ServiceSpec => []ServiceIInv
<1>1. ServiceInit => SaltsInv
  BY InitSalted
<1>2. /\ IInv /\ StoreInv /\ FateInv /\ ServiceInv /\ SaltsInv
      /\ [ServiceNext]_serviceVars
      => SaltsInv'
  BY NextSalted
<1>3. ServiceSpec => []SaltsInv
  BY <1>1, <1>2, ServiceInvariance, PTL DEF ServiceSpec
<1>4. QED
  BY <1>3, ServiceInvariance, PTL DEF ServiceIInv

\* Every stored password is hashed with the salt of its own row, although
\* create() and update() take the salt from different places.
THEOREM PasswordsSalted == ServiceSpec => []PasswordMatchesSalt
  BY ServiceIInvariance, PTL DEF ServiceIInv, SaltsInv
=============================================================================
