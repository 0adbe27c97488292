---------------------------- MODULE GrpcApiProofs ----------------------------
(***************************************************************************)
(* Proofs about GrpcApi, for every value of the constants: what a client   *)
(* is told is true.                                                        *)
(***************************************************************************)
EXTENDS GrpcApiInv, UsersServiceProofs

USE NoneAssumption, AdminAssumption, CallsAssumption, RequestsAssumption

-----------------------------------------------------------------------------
(***************************************************************************)
(* The API in terms of the service.                                        *)
(***************************************************************************)

\* A step for one message behind the guard and the validation.
Work(r) == Behind(r) \/ \E header \in Header : Handle(r, header)

\* A step that gives a message its status.
GiveStatus(r) ==
  \/ \E header \in Header : Forbid(r, header) \/ Invalidate(r, header)
  \/ AnswerClient(r)

\* Every step is made for one message, is a crash, or changes nothing.
LEMMA ApiNextIsWork ==
  ApiNext <=>
    \/ ApiCrash \/ AllAnswered
    \/ \E r \in Caller : Work(r) \/ GiveStatus(r)
  BY DEF ApiNext, Work, GiveStatus

\* A message is worked on by a step of the service.
LEMMA WorkIsServe ==
  ASSUME NEW r \in Caller, Work(r)
  PROVE  Serve(r)
  BY DEF Work, Behind, Handle, Serve

\* A message is answered while the service stands still.
LEMMA StatusIsQuiet ==
  ASSUME NEW r \in Caller, GiveStatus(r)
  PROVE  UNCHANGED <<serviceVars, applied>>
  BY DEF GiveStatus, Forbid, Invalidate, AnswerClient, Respond

\* Every step of the API is a step of the service, or none.
LEMMA ApiIsService ==
  ASSUME [ApiNext]_apiVars
  PROVE  [ServiceNext]_serviceVars
  BY ApiNextIsWork, WorkIsServe, StatusIsQuiet, ServiceNextIsServe
  DEF ApiCrash, AllAnswered, apiVars

\* What the service keeps to, it keeps to behind the API.
LEMMA ApiServes == ApiSpec => ServiceSpec
<1>1. ApiInit => ServiceInit
  BY DEF ApiInit
<1>2. QED
  BY <1>1, ApiIsService, PTL DEF ApiSpec, ServiceSpec

-----------------------------------------------------------------------------
(***************************************************************************)
(* What a step may do to the tables, and when.                             *)
(***************************************************************************)

\* A caller without a transaction has none after a step, unless it begins one.
LEMMA NoTransaction ==
  ASSUME IInv, NEW r \in Caller, Act(r), tx[r] = "none", ~Begin(r)
  PROVE  tx'[r] = "none" /\ UNCHANGED tables
<1>1. ~(pc[r] \in InTransaction /\ conn[r] = "up")
  BY DEF IInv, LocalInv, TransactionInv
<1>2. UNCHANGED tables
  BY <1>1, ChangeIsCommit DEF InTransaction, Commit, LateCommit
<1>3. CASE Statement(r) \/ Take(r) \/ \E c \in Calls : Call(r, c)
  BY <1>1, <1>3
  DEF IInv, TypeOK, Call, CallCreate, CallOther, Take, Statement, GetAllRows,
      GetAllCount, GetById, FindAuth, FindUsers, ReturnMissing,
      ReturnReadonly, PassCheck, Connect, InsertAuth, InsertUsers, DeleteAuth,
      DeleteUsers, SelectAuth, WriteAuth, SelectUsers, WriteUsers,
      InTransaction, Commit, Rollback, Release, FindBroken, server
<1>4. CASE Fault(r) \/ Server(r)
  BY <1>1, <1>4
  DEF IInv, TypeOK, Fault, QueryFails, CountFails, StatementFails,
      LoseConnection, LoseCommit, InTransaction, Server, Reap, LateCommit,
      InstallVersions, server
<1>5. QED
  BY <1>2, <1>3, <1>4 DEF Act

\* After its rollback or its commit a call goes on to its end.
LEMMA EndIsNear ==
  ASSUME IInv, NEW r \in Caller, Statement(r) \/ Fault(r) \/ Server(r),
         pc[r] = "rollback" \/ Over(r)
  PROVE  pc'[r] = "rollback" \/ Over(r)'
  BY DEF IInv, TypeOK, Over, Statement, GetAllRows, GetAllCount, GetById,
         FindAuth, FindUsers, ReturnMissing, ReturnReadonly, PassCheck,
         Connect, Begin, InsertAuth, InsertUsers, DeleteAuth, DeleteUsers,
         SelectAuth, WriteAuth, SelectUsers, WriteUsers, Commit, Rollback,
         Release, FindBroken, Fault, QueryFails, CountFails, StatementFails,
         LoseConnection, LoseCommit, Server, Reap, LateCommit, Return, Goto,
         InTransaction

\* How a call may come to its result.
LEMMA ResultKinds ==
  ASSUME IInv, NEW r \in Caller, Statement(r) \/ Fault(r) \/ Server(r),
         Over(r)'
  PROVE  \/ ret'[r].error = "repository"
         \/ Over(r) /\ ret'[r] = ret[r]
         \/ ReturnMissing(r) \/ ReturnReadonly(r)
         \/ GetAllCount(r) \/ GetById(r) \/ Commit(r)
<1>1. CASE GetAllRows(r) \/ FindAuth(r) \/ FindUsers(r) \/ PassCheck(r)
           \/ Connect(r) \/ Begin(r)
  BY <1>1
  DEF IInv, TypeOK, Over, GetAllRows, FindAuth, FindUsers, PassCheck, Connect,
      Begin, AfterBegin, AfterAuth, Goto
<1>2. CASE InsertAuth(r) \/ DeleteAuth(r) \/ WriteAuth(r) \/ SelectAuth(r)
           \/ InsertUsers(r) \/ DeleteUsers(r) \/ WriteUsers(r)
           \/ SelectUsers(r)
  BY <1>2
  DEF IInv, TypeOK, Over, InsertAuth, DeleteAuth, WriteAuth, SelectAuth,
      InsertUsers, DeleteUsers, WriteUsers, SelectUsers, PutAuth, PutUsers,
      Abort, AfterAuth, Goto
<1>3. CASE Rollback(r) \/ FindBroken(r)
  BY <1>3
  DEF IInv, TypeOK, Over, Rollback, FindBroken, Return, Goto, Error, NoResult
<1>4. CASE Release(r) \/ Server(r)
  BY <1>4 DEF IInv, TypeOK, Over, Release, Server, Reap, LateCommit, Return
<1>5. CASE Fault(r)
  BY <1>5
  DEF IInv, TypeOK, Over, Fault, QueryFails, CountFails, StatementFails,
      LoseConnection, LoseCommit, Abort, Return, Goto, Error, NoResult
<1>6. QED
  BY <1>1, <1>2, <1>3, <1>4, <1>5 DEF Statement

\* A creation that commits changes the tables; an update that commits and
\* says that it has done nothing has not changed them.
LEMMA CommitTold ==
  ASSUME IInv, StoreInv, NEW r \in Caller, Commit(r)
  PROVE  /\ tx'[r] = "none" /\ ret'[r].error = "none"
         /\ arg[r].op \in {"create", "update", "delete"}
         /\ arg[r].op = "create" => ~UNCHANGED tables
         /\ arg[r].op # "create" /\ ret'[r].count = 0 => UNCHANGED tables
<1>1. /\ Outcome(r, arg[r]) /\ id[r] \in Id /\ arg[r] \in Arguments
      /\ arg[r].op \in {"create", "update", "delete"}
  BY CommitOutcome
  DEF StoreInv, IInv, LocalInv, StageInv, WriteStages, InTransaction, Commit
<1>2. tx'[r] = "none" /\ ret'[r] = Success(r)
  BY DEF IInv, TypeOK, Commit, InstallVersions
<1>3. Success(r).error = "none"
  BY DEF Success, Count, NoResult
<1>4. ASSUME arg[r].op = "create"
      PROVE  ~UNCHANGED tables
  <2>1. auth[id[r]] = None /\ newAuth[r] # None
    BY <1>1, <1>4, NewEntities DEF Outcome
  <2>2. auth'[id[r]] = newAuth[r]
    BY <1>1, <2>1 DEF IInv, TypeOK, Commit, InstallVersions, Defined
  <2>3. QED
    BY <2>1, <2>2 DEF tables
<1>5. ASSUME arg[r].op # "create", Success(r).count = 0
      PROVE  UNCHANGED tables
  <2>1. /\ arg[r].op = "update"
        /\ ~ChangesAuth(arg[r]) /\ ~ChangesUsers(arg[r])
    BY <1>1, <1>5 DEF Success, Count, NoResult
  <2>2. newAuth[r] = None /\ newUsers[r] = None
    BY <1>1, <2>1 DEF Outcome, Updates
  <2>3. QED
    BY <1>1, <2>2
    DEF IInv, TypeOK, Commit, InstallVersions, Defined, tables
<1>6. QED
  BY <1>1, <1>2, <1>3, <1>4, <1>5

\* The history of a message, after a step behind the controller.
LEMMA AppliedStep ==
  ASSUME ApiInv, NEW r \in Caller, Behind(r)
  PROVE  applied'[r] <=> applied[r] \/ ~UNCHANGED tables
  BY DEF ApiInv, ApiTypeOK, Behind

\* The result that a call comes to is true of what it has done.
LEMMA ResultTold ==
  ASSUME IInv, StoreInv, ServiceInv, ApiInv, NEW r \in Caller, Behind(r),
         Statement(r) \/ Fault(r) \/ Server(r), UNCHANGED service,
         step[r] = "answer", Over(r)'
  PROVE  Told(r, ret[r])'
<1>1. WorkInv(r) /\ ProtocolInv(r) /\ Act(r) /\ pc[r] # "idle"
  BY DEF ApiInv, ServiceInv, ProtocolInv, Act
<1>2. /\ req'[r] = req[r] /\ arg[r].op = req[r].method
      /\ applied'[r] <=> applied[r] \/ ~UNCHANGED tables
  BY <1>1, AppliedStep DEF ProtocolInv, service
<1>3. CASE ret'[r].error = "repository"
  BY <1>3 DEF Told
<1>4. CASE Over(r) /\ ret'[r] = ret[r] /\ ret[r].error # "repository"
  <2>1. Told(r, ret[r]) /\ ret[r] \in Result
    BY <1>1, <1>4 DEF IInv, TypeOK, WorkInv
  <2>2. ret[r].error \in {"none", "readonly"}
    BY <1>4, <2>1 DEF Result
  <2>3. tx[r] = "none" /\ ~Begin(r)
    BY <1>4, <2>1, <2>2 DEF Told, Over, Begin
  <2>4. tx'[r] = "none" /\ UNCHANGED tables
    BY <1>1, <2>3, NoTransaction
  <2>5. QED
    BY <1>2, <1>4, <2>1, <2>4 DEF Told
<1>5. CASE ReturnMissing(r) \/ ReturnReadonly(r) \/ GetAllCount(r) \/ GetById(r)
  <2>1. tx[r] = "none" /\ arg[r].op # "create" /\ ~Begin(r)
    BY <1>5
    DEF IInv, LocalInv, StageInv, TransactionInv, FindStages, ReturnMissing,
        ReturnReadonly, GetAllCount, GetById, Begin
  <2>2. tx'[r] = "none" /\ UNCHANGED tables
    BY <1>1, <2>1, NoTransaction
  <2>3. ~applied[r]
    BY <1>1, <1>5
    DEF WorkInv, Over, ReturnMissing, ReturnReadonly, GetAllCount, GetById
  <2>4. QED
    BY <1>2, <2>1, <2>2, <2>3 DEF Told
<1>6. CASE Commit(r)
  <2>1. ~applied[r]
    BY <1>1, <1>6 DEF WorkInv, Over, Commit
  <2>2. QED
    BY <1>2, <1>6, <2>1, CommitTold DEF Told
<1>7. QED
  BY <1>3, <1>4, <1>5, <1>6, ResultKinds

\* A step of the repository or the server changes the tables only while its
\* call is being answered, and not what an earlier result has told.
LEMMA RepositoryWork ==
  ASSUME IInv, StoreInv, ServiceInv, ApiInv, NEW r \in Caller, Behind(r),
         Statement(r) \/ Fault(r) \/ Server(r), UNCHANGED service
  PROVE  WorkInv(r)'
<1>1. WorkInv(r) /\ ProtocolInv(r) /\ Act(r)
  BY DEF ApiInv, ServiceInv, Act
<1>2. /\ step'[r] = step[r] /\ req'[r] = req[r] /\ reply'[r] = reply[r]
      /\ applied'[r] <=> applied[r] \/ ~UNCHANGED tables
      /\ pc'[r] = "idle" <=> pc[r] = "idle"
      /\ arg'[r] = arg[r]
  BY AppliedStep, WorkGoesOn DEF service
<1>3. CASE step[r] \in {"idle", "getById", "found"}
  <2>1. GetByIdCall(req[r]).op = "getById"
    BY CallsArguments
  <2>2. tx[r] = "none" /\ ~Begin(r)
    BY <1>1, <1>3, <2>1
    DEF IInv, LocalInv, StageInv, WriteStages, ProtocolInv, WorkInv, Begin
  <2>3. QED
    BY <1>1, <1>2, <1>3, <2>2, NoTransaction DEF WorkInv
<1>4. CASE step[r] = "answer"
  <2>1. Over(r)' => Told(r, ret[r])'
    BY <1>4, ResultTold
  <2>2. arg[r].op = "getAll" => ~applied'[r] /\ tx'[r] = "none"
    <3>1. arg[r].op = "getAll" => tx[r] = "none" /\ ~Begin(r)
      BY <1>1, <1>4
      DEF IInv, LocalInv, StageInv, WriteStages, ProtocolInv, WorkInv, Begin
    <3>2. QED
      BY <1>1, <1>2, <1>4, <3>1, NoTransaction DEF WorkInv
  <2>3. applied'[r] => pc'[r] = "rollback" \/ Over(r)'
    <3>1. CASE applied[r]
      BY <1>1, <1>4, <3>1, EndIsNear DEF WorkInv
    <3>2. CASE Commit(r)
      BY <3>2 DEF IInv, TypeOK, Commit, Goto, Over
    <3>3. CASE LateCommit(r)
      <4>1. tx[r] = "inDoubt" /\ pc'[r] = pc[r] /\ pc[r] # "idle"
        BY <1>1, <1>4, <3>3 DEF ProtocolInv, LateCommit
      <4>2. pc[r] = "count" => arg[r].op = "getAll"
        BY <4>1 DEF IInv, LocalInv, StageInv
      <4>3. pc[r] \in {"rollback", "release", "returned", "count"}
        BY <4>1
        DEF IInv, TypeOK, LocalInv, TransactionInv, Stages, FindStages,
            BeforeCommit, InTransaction
      <4>4. QED
        BY <1>1, <1>4, <4>1, <4>2, <4>3 DEF WorkInv, Over
    <3>4. QED
      BY <1>1, <1>2, <3>1, <3>2, <3>3, ChangeIsCommit
  <2>4. QED
    BY <1>2, <1>4, <2>1, <2>2, <2>3 DEF WorkInv
<1>5. CASE step[r] = "done"
  <2>1. Told(r, reply[r]) /\ pc[r] = "idle" /\ ~Begin(r)
    BY <1>1, <1>5 DEF ProtocolInv, WorkInv, Begin
  <2>2. QED
    BY <1>1, <1>2, <1>5, <2>1, NoTransaction DEF WorkInv, Told
<1>6. CASE step[r] = "lost"
  BY <1>2, <1>6 DEF WorkInv
<1>7. QED
  BY <1>3, <1>4, <1>5, <1>6 DEF ServiceInv, ServiceTypeOK

\* A call that is made or taken changes neither tables nor transactions.
LEMMA CallsAreQuiet ==
  ASSUME IInv, NEW r \in Caller, Take(r) \/ \E c \in Calls : Call(r, c)
  PROVE  /\ UNCHANGED tables /\ tx' = tx
         /\ Take(r) => pc'[r] = "idle"
         /\ (\E c \in Calls : Call(r, c)) => ~Over(r)' /\ pc'[r] # "rollback"
  BY DEF IInv, TypeOK, Take, Call, CallCreate, CallOther, FirstStage, Goto,
         Over, server

\* What the service does for a message it takes on, or with a result.
LEMMA ServiceWork ==
  ASSUME IInv, StoreInv, ServiceInv, ApiInv, NEW r \in Caller,
         (Accept(r) /\ UNCHANGED applied) \/ (Continue(r) /\ Behind(r))
  PROVE  WorkInv(r)'
<1>1. WorkInv(r) /\ ProtocolInv(r) /\ ServiceTypeOK
  BY DEF ApiInv, ServiceInv
<1>2. CASE Accept(r) \/ UpdateMethod(r) \/ DeleteMethod(r)
  <2>1. \E c \in Calls : Call(r, c)
    BY <1>2, MethodsCall
  <2>2. /\ step[r] \in {"idle", "found"}
        /\ step'[r] \in {"getById", "answer"}
    BY <1>1, <1>2
    DEF ServiceTypeOK, Accept, GetAllMethod, GetByIdMethod, CreateMethod,
        Receive, UpdateMethod, DeleteMethod, Proceed
  <2>3. ~applied[r] /\ tx[r] = "none"
    BY <1>1, <2>2 DEF WorkInv
  <2>4. ~applied'[r] /\ tx'[r] = "none" /\ ~Over(r)' /\ pc'[r] # "rollback"
    BY <2>1, <2>3, CallsAreQuiet, AppliedStep
  <2>5. QED
    BY <2>2, <2>4 DEF WorkInv
<1>3. CASE GetByIdReturns(r)
  <2>1. /\ Take(r) /\ step[r] = "getById" /\ req' = req
        /\ pc[r] = "returned" /\ arg[r] = GetByIdCall(req[r])
    BY <1>1, <1>3 DEF ProtocolInv, GetByIdReturns, Take
  <2>2. ~applied'[r] /\ tx'[r] = "none"
    BY <1>1, <1>3, <2>1, CallsAreQuiet, AppliedStep DEF WorkInv, Accept
  <2>3. CASE step'[r] = "found"
    BY <2>2, <2>3 DEF WorkInv
  <2>4. CASE step'[r] # "found"
    <3>1. step'[r] = "done"
      BY <1>1, <1>3, <2>4 DEF ServiceTypeOK, GetByIdReturns, Proceed
    <3>2. reply'[r].error = "none" => req[r].method # "create"
      BY <1>1, <2>1 DEF ProtocolInv
    <3>3. QED
      BY <2>1, <2>2, <3>1, <3>2 DEF WorkInv, Told
  <2>5. QED
    BY <2>3, <2>4
<1>4. CASE Answer(r)
  <2>1. /\ Take(r) /\ step[r] = "answer" /\ Over(r)
        /\ step'[r] = "done" /\ reply'[r] = ret[r] /\ req' = req
    BY <1>1, <1>4 DEF ServiceTypeOK, Answer, Take, Proceed, Over
  <2>2. Told(r, ret[r])
    BY <1>1, <2>1 DEF WorkInv
  <2>3. (applied'[r] <=> applied[r]) /\ tx'[r] = tx[r]
    BY <2>1, CallsAreQuiet, AppliedStep
  <2>4. QED
    BY <2>1, <2>2, <2>3 DEF WorkInv, Told
<1>5. QED
  BY <1>2, <1>3, <1>4 DEF Continue

\* Work on one message says nothing to, and does nothing for, another.
LEMMA OthersWork ==
  ASSUME IInv, ServiceInv, ApiInv, NEW r \in Caller, NEW q \in Caller \ {r},
         Work(r)
  PROVE  WorkInv(q)' /\ StatusInv(q)'
<1>1. /\ pc'[q] = pc[q] /\ arg'[q] = arg[q] /\ tx'[q] = tx[q]
      /\ ret'[q] = ret[q] /\ step'[q] = step[q] /\ req'[q] = req[q]
      /\ reply'[q] = reply[q]
  BY WorkIsServe, ServiceFrame DEF Mine, Slot
<1>2. status'[q] = status[q] /\ applied'[q] = applied[q]
  BY DEF ApiInv, ApiTypeOK, Work, Behind, Handle, api
<1>3. QED
  BY <1>1, <1>2 DEF ApiInv, WorkInv, StatusInv, Told, Over

\* Once a message has its status, or the service has done with it, it is not
\* taken up again.
LEMMA DoneIsDone ==
  ASSUME ServiceInv, NEW r \in Caller, Work(r)
  PROVE  \/ status[r] = None /\ UNCHANGED status
         \/ /\ status'[r] = status[r] /\ reply'[r] = reply[r]
            /\ step'[r] = step[r]
         \/ /\ status'[r] = status[r]
            /\ step[r] \in {"getById", "found", "answer"}
  BY DEF Work, Handle, Behind, Continue, GetByIdReturns, UpdateMethod,
         DeleteMethod, Answer, RepositoryStep, RepositoryFault, ServerStep,
         service, api

\* Of a message that is worked on, the invariant holds on.
LEMMA OwnWork ==
  ASSUME IInv, StoreInv, ServiceInv, ApiInv, NEW r \in Caller, Work(r)
  PROVE  WorkInv(r)' /\ StatusInv(r)'
<1>1. CASE \E header \in Header : Handle(r, header)
  BY <1>1, ServiceWork DEF Handle, api, StatusInv, ApiInv
<1>2. CASE Behind(r)
  <2>1. WorkInv(r)'
    BY <1>2, RepositoryWork, ServiceWork
    DEF Behind, RepositoryStep, RepositoryFault, ServerStep
  <2>2. StatusInv(r)'
    BY <1>2, DoneIsDone DEF Work, StatusInv, ApiInv, Behind
  <2>3. QED
    BY <2>1, <2>2
<1>3. QED
  BY <1>1, <1>2 DEF Work

\* The status that a message gets is that of what became of it.
LEMMA StatusGiven ==
  ASSUME ApiInv, NEW r \in Caller, GiveStatus(r), NEW q \in Caller
  PROVE  WorkInv(q)' /\ StatusInv(q)'
<1>1. UNCHANGED <<serviceVars, applied>>
  BY StatusIsQuiet
<1>2. WorkInv(q)'
  BY <1>1
  DEF ApiInv, WorkInv, Told, Over, serviceVars, service, vars, server, memory
<1>3. CASE status'[q] = status[q]
  BY <1>1, <1>2, <1>3 DEF ApiInv, StatusInv, serviceVars, service
<1>4. CASE status'[q] # status[q]
  BY <1>1, <1>2, <1>4
  DEF ApiInv, ApiTypeOK, StatusInv, GiveStatus, Forbid, Invalidate,
      AnswerClient, Respond, serviceVars, service
<1>5. QED
  BY <1>2, <1>3, <1>4

\* A crash takes the calls in progress, and tells those who wait that it has.
LEMMA CrashWork ==
  ASSUME IInv, ServiceInv, ApiInv, ApiCrash, NEW q \in Caller
  PROVE  WorkInv(q)' /\ StatusInv(q)'
<1>1. WorkInv(q) /\ StatusInv(q) /\ ProtocolInv(q) /\ ServiceTypeOK
  BY DEF ApiInv, ServiceInv
<1>2. /\ step'[q] = (IF step[q] \in {"idle", "done"} THEN step[q] ELSE "lost")
      /\ reply'[q] = reply[q] /\ req'[q] = req[q] /\ applied'[q] = applied[q]
      /\ status'[q] = (IF step[q] # "idle" /\ status[q] = None
                       THEN Answers("UNAVAILABLE", FALSE) ELSE status[q])
      /\ pc[q] = "idle" => tx'[q] = tx[q]
  BY DEF ApiCrash, ServiceCrash, Crash
<1>3. WorkInv(q)'
  BY <1>1, <1>2 DEF ProtocolInv, WorkInv, Told
<1>4. StatusInv(q)'
  BY <1>1, <1>2 DEF StatusInv, ServiceTypeOK
<1>5. QED
  BY <1>3, <1>4

\* Every status is one of those the client may be sent.
LEMMA StatusType ==
  /\ \A exception : Catch(exception) \in Status
  /\ Answers("OK", TRUE) \in Status /\ Answers("UNAVAILABLE", FALSE) \in Status
  BY DEF Catch, Answers, Status

\* The API keeps its types.
LEMMA ApiTypeStep ==
  ASSUME ApiTypeOK, ServiceTypeOK', [ApiNext]_apiVars
  PROVE  ApiTypeOK'
<1>1. ASSUME NEW r \in Caller, GiveStatus(r)
      PROVE  ApiTypeOK'
  <2>1. applied' = applied
    BY <1>1, StatusIsQuiet
  <2>2. \E answer \in Status : status' = [status EXCEPT ![r] = answer]
    BY <1>1, StatusType
    DEF GiveStatus, Forbid, Invalidate, AnswerClient, Respond
  <2>3. QED
    BY <2>1, <2>2 DEF ApiTypeOK
<1>2. ASSUME NEW r \in Caller, Work(r)
      PROVE  ApiTypeOK'
  <2>1. \E b \in BOOLEAN : applied' = [applied EXCEPT ![r] = b] \/ applied' = applied
    BY <1>2 DEF Work, Behind, Handle, api
  <2>2. status' = status
    BY <1>2 DEF Work, Behind, Handle, api
  <2>3. QED
    BY <2>1, <2>2 DEF ApiTypeOK
<1>3. CASE ApiCrash
  BY <1>3, StatusType DEF ApiCrash, ApiTypeOK
<1>4. CASE UNCHANGED apiVars
  BY <1>4 DEF ApiTypeOK, apiVars, api
<1>5. QED
  BY <1>1, <1>2, <1>3, <1>4, ApiNextIsWork DEF AllAnswered

\* No message has come yet.
LEMMA InitApiInv == ApiInit => ApiInv
<1>1. ApiInit => ApiTypeOK
  BY InitServiceInv DEF ApiInit, ServiceInv, ApiTypeOK
<1>2. ApiInit => \A r \in Caller : WorkInv(r) /\ StatusInv(r)
  BY DEF ApiInit, ServiceInit, Init, WorkInv, StatusInv
<1>3. QED
  BY <1>1, <1>2 DEF ApiInv

\* Every step keeps the invariant.
LEMMA NextApiInv ==
  ASSUME IInv, StoreInv, ServiceInv, ServiceInv', ApiInv, [ApiNext]_apiVars
  PROVE  ApiInv'
<1>1. ApiTypeOK'
  BY ApiTypeStep DEF ServiceInv, ApiInv
<1>2. ASSUME NEW q \in Caller
      PROVE  WorkInv(q)' /\ StatusInv(q)'
  <2>1. ASSUME NEW r \in Caller, Work(r)
        PROVE  WorkInv(q)' /\ StatusInv(q)'
    BY <2>1, OwnWork, OthersWork
  <2>2. CASE UNCHANGED apiVars
    BY <2>2
    DEF ApiInv, WorkInv, StatusInv, Told, Over, apiVars, api, serviceVars,
        service, vars, server, memory
  <2>3. QED
    BY <2>1, <2>2, StatusGiven, CrashWork, ApiNextIsWork DEF AllAnswered
<1>3. QED
  BY <1>1, <1>2 DEF ApiInv

\* Whatever messages come and whatever fails, a message changes nothing before
\* its call commits, and what its call returns says whether it has.
THEOREM ApiInvariance == ApiSpec => []ApiInv
<1>1. ServiceSpec => [](IInv /\ StoreInv /\ ServiceInv)
  BY ServiceInvariance, PTL
<1>2. /\ IInv /\ StoreInv /\ ServiceInv /\ ServiceInv' /\ ApiInv
      /\ [ApiNext]_apiVars
      => ApiInv'
  BY NextApiInv
<1>3. QED
  BY <1>1, <1>2, ApiServes, InitApiInv, PTL DEF ApiSpec

\* Whatever is refused, answered or lost, the API keeps its types.
THEOREM ApiTypeCorrect == ApiSpec => []ApiTypeOK
  BY ApiInvariance, PTL DEF ApiInv

\* What a client is told is true and stays so: an operational error means that
\* its message has changed nothing and never will, OK to a Create that the user
\* has been stored, and OK with count 0 that nothing has changed.
THEOREM StatusTruthful == ApiSpec => []StatusTellsTheTruth
<1>1. ASSUME ApiInv, NEW r \in Caller, status[r] # None
      PROVE  /\ status[r].code # "OK" /\ status[r].isOperation =>
                  ~applied[r] /\ tx[r] = "none"
             /\ status[r].code = "OK" =>
                  CASE req[r].method = "create" -> applied[r]
                    [] req[r].method \in {"update", "delete"} ->
                         reply[r].count = 0 => ~applied[r]
                    [] OTHER -> ~applied[r]
  <2>1. WorkInv(r) /\ StatusInv(r)
    BY <1>1 DEF ApiInv
  <2>2. CASE step[r] = "idle"
    BY <1>1, <2>1, <2>2 DEF WorkInv, StatusInv, Catch, Answers
  <2>3. CASE step[r] = "done" /\ status[r] # Answers("UNAVAILABLE", FALSE)
    <3>1. Told(r, reply[r])
      BY <2>1, <2>3 DEF WorkInv
    <3>2. CASE reply[r].error = "none"
      BY <1>1, <2>1, <2>3, <3>1, <3>2 DEF StatusInv, Told, Answers
    <3>3. CASE reply[r].error # "none"
      <4>1. status[r] = Catch(reply[r].error)
        BY <1>1, <2>1, <2>3, <3>3 DEF StatusInv
      <4>2. reply[r].error \in {"repository", "readonly", "notFound"}
        BY <1>1, <3>3 DEF ApiInv, ApiTypeOK, ServiceTypeOK
      <4>3. QED
        BY <3>1, <4>1, <4>2 DEF Told, Catch, Answers
    <3>4. QED
      BY <3>2, <3>3
  <2>4. CASE status[r] = Answers("UNAVAILABLE", FALSE)
    BY <2>4 DEF Answers
  <2>5. QED
    BY <1>1, <2>1, <2>2, <2>3, <2>4 DEF StatusInv
<1>2. ApiInv => StatusTellsTheTruth
  BY <1>1 DEF StatusTellsTheTruth
<1>3. QED
  BY <1>2, ApiInvariance, PTL

-----------------------------------------------------------------------------
(***************************************************************************)
(* The whole system.                                                       *)
(***************************************************************************)

\* Behind the API every behaviour is one of the repository.
LEMMA ApiDrivesRepository == ApiSpec => Spec
  BY ApiServes, ServiceDrivesRepository, PTL DEF RepositorySpec

\* Whatever messages arrive, from whomever and in whatever order, the tables
\* change only as the store lets them: by whole users, once for a call, in the
\* step that decides its answer.
THEOREM SystemImplementsStore == ApiSpec => StoreSpec
  BY ApiDrivesRepository, ImplementsStore, PTL

\* No sequence of messages harms the administrator, gives a username to two
\* live users, stores half a user or a password hashed with a foreign salt,
\* or makes calls wait for each other for ever.
THEOREM SystemSafe ==
  ApiSpec => [](/\ AdminProtected /\ UniqueLiveUsername /\ CreatedTogether
                /\ PasswordMatchesSalt /\ NoWaitCycle)
  BY ApiDrivesRepository, ApiServes, AdminSafe, UsernameUnique, UserWhole,
     PasswordsSalted, NoDeadlock, PTL

=============================================================================
