------------------------- MODULE UsersOverlapProofs -------------------------
(***************************************************************************)
(* What overlapping calls leave of the properties that hold of calls one   *)
(* after the other: a user's rows can be parted only where both updates    *)
(* and deletions of it are called, and a stale entity brings back only     *)
(* what was asked for.                                                     *)
(***************************************************************************)
EXTENDS UsersStoreProofs, UsersOverlap

USE NoneAssumption, AdminAssumption, CallsAssumption

-----------------------------------------------------------------------------
(***************************************************************************)
(* The two rows of a user.                                                 *)
(***************************************************************************)

\* The migrations leave the administrator's two rows, both live.
LEMMA InitRows ==
  ASSUME Init, NEW i \in Id
  PROVE  IF i = AdminId THEN IsLive(auth[i]) /\ IsLive(users[i])
                        ELSE auth[i] = None /\ users[i] = None
<1>1. PICK p \in Secret, s \in Salt :
        auth = [j \in Id |->
                  IF j = AdminId
                  THEN [username |-> AdminName, password |-> Hash(Plain(p), s),
                        salt |-> s, role |-> "admin", deleted |-> FALSE]
                  ELSE None]
  BY DEF Init
<1>2. PICK n \in Name :
        users = [j \in Id |->
                   IF j = AdminId
                   THEN [name |-> n, age |-> None, deleted |-> FALSE]
                   ELSE None]
  BY DEF Init
<1>3. CASE i = AdminId
  BY <1>3, InitIInv DEF IInv, AdminProtected, IsLive
<1>4. CASE i # AdminId
  BY <1>1, <1>2, <1>4
<1>5. QED
  BY <1>3, <1>4

\* A step that changes a user does to its rows what a call asks for.
LEMMA UserStep ==
  ASSUME IInv, StoreInv, Next, NEW i \in Id,
         auth'[i] # auth[i] \/ users'[i] # users[i]
  PROVE  \E r \in Caller, c \in Calls :
           /\ id[r] = i /\ Outcome(r, c)
           /\ auth'[i] = Defined(newAuth[r], auth[i])
           /\ users'[i] = Defined(newUsers[r], users[i])
<1>1. ~UNCHANGED tables
  BY DEF tables
<1>2. PICK r \in Caller, c \in Calls :
        /\ id[r] \in Id /\ Outcome(r, c)
        /\ auth' = [auth EXCEPT ![id[r]] = Defined(newAuth[r], @)]
        /\ users' = [users EXCEPT ![id[r]] = Defined(newUsers[r], @)]
  BY <1>1, EffectStep
<1>3. id[r] = i
  BY <1>2 DEF IInv, TypeOK
<1>4. QED
  BY <1>2, <1>3 DEF IInv, TypeOK

\* Both rows of a user whom nobody ever updates are live or deleted together,
\* however creations and deletions overlap and fail.
THEOREM PairedUnlessUpdated ==
  ASSUME NEW i \in Id, \A c \in Calls : c.op = "update" => c.id # i
  PROVE  Spec => [](IsLive(auth[i]) <=> IsLive(users[i]))
<1> DEFINE Paired == IsLive(auth[i]) <=> IsLive(users[i])
<1>1. Init => Paired
  BY InitRows DEF IsLive
<1>2. IInv /\ StoreInv /\ Paired /\ [Next]_vars => Paired'
  <2>1. SUFFICES ASSUME IInv, StoreInv, Paired, Next,
                        auth'[i] # auth[i] \/ users'[i] # users[i]
                 PROVE  Paired'
    BY DEF IsLive, vars, tables
  <2>2. PICK r \in Caller, c \in Calls :
          /\ id[r] = i /\ Outcome(r, c)
          /\ auth'[i] = Defined(newAuth[r], auth[i])
          /\ users'[i] = Defined(newUsers[r], users[i])
    BY <2>1, UserStep
  <2>3. c.op \in {"create", "delete"}
    BY <2>2 DEF Outcome
  <2>4. QED
    BY <2>1, <2>2, <2>3, OutcomeMarks
<1>3. QED
  BY <1>1, <1>2, Invariance, StoreInvariance, PTL DEF Spec

\* The same holds of a user whom nobody ever deletes, however creations and
\* updates overlap and fail.
THEOREM PairedUnlessDeleted ==
  ASSUME NEW i \in Id, \A c \in Calls : c.op = "delete" => c.id # i
  PROVE  Spec => [](IsLive(auth[i]) <=> IsLive(users[i]))
<1> DEFINE Undeleted == /\ auth[i] # None => IsLive(auth[i])
                        /\ users[i] # None => IsLive(users[i])
<1>1. Init => Undeleted
  BY InitRows DEF IsLive
<1>2. IInv /\ StoreInv /\ Undeleted /\ [Next]_vars => Undeleted'
  <2>1. SUFFICES ASSUME IInv, StoreInv, Undeleted, Next,
                        auth'[i] # auth[i] \/ users'[i] # users[i]
                 PROVE  Undeleted'
    BY DEF IsLive, vars, tables
  <2>2. PICK r \in Caller, c \in Calls :
          /\ id[r] = i /\ Outcome(r, c)
          /\ auth'[i] = Defined(newAuth[r], auth[i])
          /\ users'[i] = Defined(newUsers[r], users[i])
    BY <2>1, UserStep
  <2>3. CASE c.op = "create"
    BY <2>1, <2>2, <2>3, OutcomeMarks
  <2>4. CASE c.op = "update"
    <3>1. auth[i] # None /\ users[i] # None
      BY <2>1, <2>2, <2>4 DEF Outcome, Updates, IInv, RowInv, CreatedTogether
    <3>2. ~Deletes(auth[i], auth'[i]) /\ ~Deletes(users[i], users'[i])
      BY <2>1, <2>2, <2>4, OutcomeMarks
    <3>3. QED
      BY <2>1, <3>1, <3>2 DEF Deletes
  <2>5. QED
    BY <2>2, <2>3, <2>4 DEF Outcome
<1>3. IInv /\ Undeleted => (IsLive(auth[i]) <=> IsLive(users[i]))
  BY DEF IInv, RowInv, CreatedTogether, IsLive
<1>4. QED
  BY <1>1, <1>2, <1>3, Invariance, StoreInvariance, PTL DEF Spec

-----------------------------------------------------------------------------
(***************************************************************************)
(* What save() writes, told by the history.                                *)
(***************************************************************************)

\* A call keeps or assigns what was asked for.
LEMMA AssignedAsked ==
  ASSUME NEW row \in AuthEntity, NEW c \in Calls, c.op = "update",
         NEW grants, AskedFor(grants, row), Grant(c) \in grants
  PROVE  AskedFor(grants, AssignAuth(row, c))
<1>1. /\ AssignAuth(row, c).role = Defined(c.role, row.role)
      /\ AssignAuth(row, c).password = Defined(c.password, row.password)
  BY DEF AssignAuth, AuthEntity
<1>2. Grant(c).role = c.role /\ Grant(c).password = c.password
  BY DEF Grant
<1>3. QED
  BY <1>1, <1>2 DEF Defined, AskedFor

\* save() takes every column from the row or from the entity.
LEMMA UpdatedAsked ==
  ASSUME NEW row \in AuthEntity, NEW entity \in AuthEntity, NEW cols,
         NEW grants, AskedFor(grants, row), AskedFor(grants, entity)
  PROVE  AskedFor(grants, UpdateColumns(row, entity, cols))
<1>1. /\ UpdateColumns(row, entity, cols).role \in {row.role, entity.role}
      /\ UpdateColumns(row, entity, cols).password
           \in {row.password, entity.password}
  BY DEF UpdateColumns, AuthEntity
<1>2. QED
  BY <1>1 DEF AskedFor

\* softDelete() keeps both columns.
LEMMA DeletedAsked ==
  ASSUME NEW row \in AuthEntity, NEW grants, AskedFor(grants, row)
  PROVE  AskedFor(grants, SoftDelete(row))
<1>1. /\ SoftDelete(row).role = row.role
      /\ SoftDelete(row).password = row.password
  BY DEF SoftDelete, AuthEntity
<1>2. QED
  BY <1>1 DEF AskedFor

\* A row or an entity that holds what a source says was asked for.
LEMMA GrantedAsked ==
  ASSUME NEW row, NEW source, NEW grants, Grant(source) \in grants,
         row.role = source.role, row.password = source.password
  PROVE  AskedFor(grants, row)
BY DEF Grant, AskedFor

\* More grants allow no less.
LEMMA MoreGrants ==
  ASSUME NEW grants, NEW more, grants \subseteq more, NEW row,
         AskedFor(grants, row)
  PROVE  AskedFor(more, row)
BY DEF AskedFor

\* While somebody works on a user, what it is given is only added to.
LEMMA GrantsGrow ==
  ASSUME GivenStep, NEW r \in Caller, NEW i \in Id, id'[r] = i
  PROVE  /\ given[i] \subseteq given'[i]
         /\ r \in Begun(i) => Grant(arg'[r]) \in given'[i]
<1>1. ~Quiet(i)'
  BY DEF Quiet
<1>2. given'[i] = given[i] \union {Grant(arg'[q]) : q \in Begun(i)}
  BY <1>1 DEF GivenStep
<1>3. QED
  BY <1>2

\* Where nobody is left, the row is all that is given.
LEMMA GrantsQuiet ==
  ASSUME GivenStep, NEW i \in Id, Quiet(i)', auth'[i] # None
  PROVE  AskedFor(given'[i], auth'[i])
<1>1. given'[i] = {Grant(auth'[i])}
  BY DEF GivenStep, Held
<1>2. QED
  BY <1>1, GrantedAsked

\* Only a call that begins takes another id or other arguments.
LEMMA SameCall ==
  ASSUME IInv, NEW r \in Caller, Act(r), ~ \E c \in Calls : Call(r, c)
  PROVE  /\ id'[r] \in Id => id'[r] = id[r]
         /\ pc'[r] # "idle" =>
              pc[r] # "idle" /\ arg'[r] = arg[r] /\ id'[r] = id[r]
<1>1. CASE Take(r)
  BY <1>1 DEF IInv, TypeOK, Take, Goto
<1>2. CASE GetAllRows(r) \/ GetAllCount(r) \/ GetById(r) \/ FindAuth(r)
           \/ FindUsers(r) \/ SelectAuth(r) \/ SelectUsers(r)
  BY <1>2
  DEF GetAllRows, GetAllCount, GetById, FindAuth, FindUsers, SelectAuth,
      SelectUsers, Return
<1>3. CASE ReturnMissing(r) \/ ReturnReadonly(r) \/ PassCheck(r)
           \/ Connect(r) \/ Begin(r)
  BY <1>3
  DEF ReturnMissing, ReturnReadonly, PassCheck, Connect, Begin, Return, memory
<1>4. CASE InsertAuth(r) \/ InsertUsers(r) \/ DeleteAuth(r) \/ DeleteUsers(r)
           \/ WriteAuth(r) \/ WriteUsers(r)
  BY <1>4
  DEF InsertAuth, InsertUsers, DeleteAuth, DeleteUsers, WriteAuth, WriteUsers,
      memory
<1>5. CASE Commit(r) \/ Rollback(r) \/ Release(r)
  BY <1>5 DEF Commit, Rollback, Release, Return, memory
<1>6. CASE Fault(r) \/ FindBroken(r)
  BY <1>6
  DEF Fault, QueryFails, CountFails, StatementFails, LoseConnection,
      LoseCommit, FindBroken, InTransaction, Return, memory
<1>7. CASE Server(r)
  BY <1>7 DEF IInv, TypeOK, Server, Reap, LateCommit, ForgetId
<1>8. QED
  BY <1>1, <1>2, <1>3, <1>4, <1>5, <1>6, <1>7 DEF Act, Statement

\* What a call asks for is recorded when it begins, and stays so.
LEMMA CallGivenStep ==
  ASSUME IInv, GivenStep, NEW r \in Caller, Act(r), CallGiven(r)
  PROVE  CallGiven(r)'
<1>1. SUFFICES ASSUME pc'[r] # "idle", arg'[r].op \in {"create", "update"}
               PROVE  Grant(arg'[r]) \in given'[id'[r]]
  BY DEF CallGiven
<1>2. CASE \E c \in Calls : Call(r, c)
  <2>1. PICK c \in Calls : Call(r, c)
    BY <1>2
  <2>2. /\ pc[r] = "idle" /\ arg'[r] = c
        /\ c.op = "create" => id'[r] \in Id
        /\ c.op # "create" => id'[r] = c.id
    BY <2>1 DEF IInv, TypeOK, Call, CallCreate, CallOther
  <2>3. id'[r] \in Id
    BY <1>1, <2>2, ArgumentsType
  <2>4. r \in Begun(id'[r])
    BY <1>1, <2>2 DEF Begun
  <2>5. QED
    BY <2>3, <2>4, GrantsGrow
<1>3. CASE ~ \E c \in Calls : Call(r, c)
  <2>1. pc[r] # "idle" /\ arg'[r] = arg[r] /\ id'[r] = id[r]
    BY <1>1, <1>3, SameCall
  <2>2. id[r] \in Id
    BY <1>1, <2>1 DEF IInv, LocalInv, StageInv
  <2>3. given[id[r]] \subseteq given'[id[r]]
    BY <2>1, <2>2, GrantsGrow
  <2>4. QED
    BY <1>1, <2>1, <2>3 DEF CallGiven
<1>4. QED
  BY <1>2, <1>3

\* What an operation has in memory, and writes, was given to its user.
LEMMA MemoryStep ==
  ASSUME IInv, StoreInv, OnlyAskedFor, GivenStep, NEW r \in Caller, Act(r),
         MemoryAsked(r), CallGiven(r)
  PROVE  MemoryAsked(r)'
<1> SUFFICES ASSUME NEW i \in Id, id'[r] = i
             PROVE  /\ authRow'[r] # None => AskedFor(given'[i], authRow'[r])
                    /\ newAuth'[r] # None => AskedFor(given'[i], newAuth'[r])
  BY DEF MemoryAsked
<1>1. CASE \E c \in Calls : Call(r, c)
  <2>1. PICK c \in Calls : Call(r, c)
    BY <1>1
  <2>2. newAuth'[r] = None
    BY <2>1
    DEF IInv, LocalInv, TransactionInv, Call, CallCreate, CallOther, server
  <2>3. CASE CallCreate(r, c)
    <3>1. /\ authRow'[r] = NewAuth(c) /\ c.op = "create" /\ arg'[r] = c
          /\ pc[r] = "idle" /\ pc'[r] # "idle"
      BY <2>3 DEF IInv, TypeOK, CallCreate, Goto
    <3>2. Grant(c) \in given'[i]
      BY <3>1, GrantsGrow DEF Begun
    <3>3. NewAuth(c).role = c.role /\ NewAuth(c).password = c.password
      BY DEF NewAuth
    <3>4. QED
      BY <2>2, <3>1, <3>2, <3>3, GrantedAsked
  <2>4. CASE CallOther(r, c)
    BY <2>2, <2>4 DEF IInv, LocalInv, EntityInv, CallOther
  <2>5. QED
    BY <2>1, <2>3, <2>4 DEF Call
<1>2. CASE ~ \E c \in Calls : Call(r, c)
  <2>1. id[r] = i
    BY <1>2, SameCall
  <2>2. /\ authRow[r] # None => AskedFor(given[i], authRow[r])
        /\ newAuth[r] # None => AskedFor(given[i], newAuth[r])
        /\ auth[i] # None => AskedFor(given[i], auth[i])
    BY <2>1 DEF MemoryAsked, OnlyAskedFor
  <2>3. authRow'[r] # None => AskedFor(given[i], authRow'[r])
    <3>1. CASE FindAuth(r)
      BY <2>1, <2>2, <3>1 DEF IInv, TypeOK, FindAuth, Find, IsLive
    <3>2. CASE Begin(r)
      <4>1. CASE arg[r].op = "update"
        <5>1. arg[r] \in Calls /\ authRow[r] \in AuthEntity
          BY <3>2, <4>1
          DEF IInv, TypeOK, LocalInv, EntityInv, StoreInv, CallInv, Begin,
              WriteStages
        <5>2. authRow'[r] = AssignAuth(authRow[r], arg[r])
          BY <3>2, <4>1 DEF IInv, TypeOK, Begin
        <5>3. authRow[r] # None
          BY <3>2 DEF IInv, LocalInv, EntityInv, Begin, WriteStages
        <5>4. Grant(arg[r]) \in given[i]
          BY <2>1, <3>2, <4>1 DEF CallGiven, Begin
        <5>5. QED
          BY <2>2, <4>1, <5>1, <5>2, <5>3, <5>4, AssignedAsked
      <4>2. CASE arg[r].op # "update"
        BY <2>2, <3>2, <4>2 DEF Begin
      <4>3. QED
        BY <4>1, <4>2
    <3>3. ASSUME ~FindAuth(r), ~Begin(r)
          PROVE  authRow'[r] \in {authRow[r], None}
      BY <1>2, <3>3
      DEF IInv, TypeOK, Act, Take, Statement, GetAllRows, GetAllCount, GetById,
          FindUsers, ReturnMissing, ReturnReadonly, PassCheck, Connect,
          InsertAuth, InsertUsers, DeleteAuth, DeleteUsers, SelectAuth,
          WriteAuth, SelectUsers, WriteUsers, Commit, Rollback, Release,
          FindBroken, Fault, QueryFails, CountFails, StatementFails,
          LoseConnection, LoseCommit, Server, Reap, LateCommit, Return, Forget,
          memory
    <3>4. QED
      BY <2>2, <3>1, <3>2, <3>3
  <2>4. newAuth'[r] # None => AskedFor(given[i], newAuth'[r])
    <3>1. ASSUME NEW row, AskedFor(given[i], row), PutAuth(r, row)
          PROVE  newAuth'[r] # None => AskedFor(given[i], newAuth'[r])
      BY <3>1 DEF IInv, TypeOK, PutAuth, Abort, DropVersions
    <3>2. CASE InsertAuth(r)
      BY <2>2, <3>1, <3>2
      DEF IInv, LocalInv, EntityInv, InsertAuth, WriteStages, InTransaction
    <3>3. CASE DeleteAuth(r)
      <4>1. auth[i] \in AuthEntity /\ auth[i] # None
        BY <2>1, <3>3
        DEF IInv, TypeOK, LocalInv, StageInv, EntityInv, DeleteAuth,
            WriteStages, InTransaction
      <4>2. QED
        BY <2>1, <2>2, <3>1, <3>3, <4>1, DeletedAsked DEF DeleteAuth
    <3>4. CASE WriteAuth(r)
      <4>1. /\ auth[i] \in AuthEntity /\ authRow[r] \in AuthEntity
            /\ auth[i] # None /\ authRow[r] # None
        BY <2>1, <3>4
        DEF IInv, TypeOK, LocalInv, StageInv, EntityInv, WriteAuth,
            WriteStages, InTransaction
      <4>2. QED
        BY <2>1, <2>2, <3>1, <3>4, <4>1, UpdatedAsked DEF WriteAuth
    <3>5. ASSUME ~InsertAuth(r), ~DeleteAuth(r), ~WriteAuth(r)
          PROVE  newAuth'[r] \in {newAuth[r], None}
      BY <1>2, <3>5
      DEF IInv, TypeOK, Act, Take, Statement, GetAllRows, GetAllCount, GetById,
          FindAuth, FindUsers, ReturnMissing, ReturnReadonly, PassCheck,
          Connect, Begin, InsertUsers, DeleteUsers, PutUsers, SelectAuth,
          SelectUsers, WriteUsers, Commit, Rollback, Release, FindBroken,
          Fault, QueryFails, CountFails, StatementFails, Abort,
          LoseConnection, LoseCommit, Server, Reap, LateCommit,
          InstallVersions, DropVersions, server
    <3>6. QED
      BY <2>2, <3>2, <3>3, <3>4, <3>5
  <2>5. given[i] \subseteq given'[i]
    BY GrantsGrow
  <2>6. QED
    BY <2>3, <2>4, <2>5, MoreGrants
<1>3. QED
  BY <1>1, <1>2

\* Every step keeps the rows and the memories to what was given.
LEMMA AskedStep ==
  ASSUME IInv, StoreInv, AskedInv, [OverlapNext]_overlapVars
  PROVE  AskedInv'
<1>1. CASE UNCHANGED overlapVars
  BY <1>1
  DEF AskedInv, OnlyAskedFor, MemoryAsked, CallGiven, overlapVars, vars,
      tables, server, memory
<1>2. CASE Crash /\ GivenStep
  <2>1. ASSUME NEW i \in Id, auth'[i] # None
        PROVE  AskedFor(given'[i], auth'[i])
    <3>1. CASE Quiet(i)'
      BY <1>2, <2>1, <3>1, GrantsQuiet
    <3>2. CASE ~Quiet(i)'
      <4>1. given[i] \subseteq given'[i]
        BY <1>2, <3>2, GrantsGrow DEF Quiet
      <4>2. QED
        BY <1>2, <2>1, <4>1, MoreGrants DEF AskedInv, OnlyAskedFor, Crash, tables
    <3>3. QED
      BY <3>1, <3>2
  <2>2. ASSUME NEW q \in Caller
        PROVE  MemoryAsked(q)' /\ CallGiven(q)'
    <3>1. pc'[q] = "idle" /\ authRow'[q] = None /\ newAuth'[q] = newAuth[q]
      BY <1>2 DEF Crash
    <3>2. ASSUME NEW i \in Id, id'[q] = i, newAuth[q] # None
          PROVE  AskedFor(given'[i], newAuth[q])
      <4>1. id[q] = i /\ given[i] \subseteq given'[i]
        BY <1>2, <3>2, GrantsGrow DEF Crash
      <4>2. QED
        BY <3>2, <4>1, MoreGrants DEF AskedInv, MemoryAsked
    <3>3. QED
      BY <3>1, <3>2 DEF MemoryAsked, CallGiven
  <2>3. QED
    BY <2>1, <2>2 DEF AskedInv, OnlyAskedFor
<1>3. ASSUME NEW r \in Caller, Act(r), GivenStep
      PROVE  AskedInv'
  <2>1. MemoryAsked(r)' /\ CallGiven(r)'
    BY <1>3, MemoryStep, CallGivenStep DEF AskedInv
  <2>2. ASSUME NEW q \in Caller \ {r}
        PROVE  MemoryAsked(q)' /\ CallGiven(q)'
    <3>1. /\ newAuth'[q] = newAuth[q] /\ authRow'[q] = authRow[q]
          /\ pc'[q] = pc[q] /\ arg'[q] = arg[q] /\ id'[q] = id[q]
      <4>1. Mine(q)' = Mine(q)
        BY <1>3, Frame DEF IInv
      <4>2. QED
        BY <4>1 DEF Mine
    <3>2. id[q] \in Id => given[id[q]] \subseteq given'[id[q]]
      BY <1>3, <3>1, GrantsGrow
    <3>3. MemoryAsked(q)'
      BY <3>1, <3>2, MoreGrants DEF AskedInv, MemoryAsked
    <3>4. CallGiven(q)'
      BY <3>1, <3>2 DEF AskedInv, CallGiven, IInv, LocalInv, StageInv
    <3>5. QED
      BY <3>3, <3>4
  <2>3. ASSUME NEW i \in Id, auth'[i] # None
        PROVE  AskedFor(given'[i], auth'[i])
    <3>1. CASE Quiet(i)'
      BY <1>3, <2>3, <3>1, GrantsQuiet
    <3>2. CASE ~Quiet(i)'
      <4>1. given[i] \subseteq given'[i]
        BY <1>3, <3>2, GrantsGrow DEF Quiet
      <4>2. \/ auth'[i] = auth[i]
            \/ id[r] = i /\ auth'[i] = Defined(newAuth[r], auth[i])
        BY <1>3, ActTables DEF IInv, TypeOK, tables
      <4>3. AskedFor(given[i], auth'[i])
        BY <2>3, <4>2 DEF AskedInv, OnlyAskedFor, MemoryAsked, Defined
      <4>4. QED
        BY <4>1, <4>3, MoreGrants
    <3>3. QED
      BY <3>1, <3>2
  <2>4. QED
    BY <2>1, <2>2, <2>3 DEF AskedInv, OnlyAskedFor
<1>4. QED
  BY <1>1, <1>2, <1>3, NextIsAct DEF OverlapNext

\* The administrator has what the migrations give it, the others nothing.
LEMMA InitAsked == OverlapInit => AskedInv
<1>1. SUFFICES ASSUME Init, GivenInit PROVE AskedInv
  BY DEF OverlapInit
<1>2. ASSUME NEW i \in Id, auth[i] # None
      PROVE  AskedFor(given[i], auth[i])
  <2>1. given[i] = {Grant(auth[i])}
    BY <1>1, <1>2 DEF GivenInit, Held
  <2>2. QED
    BY <2>1, GrantedAsked
<1>3. QED
  BY <1>1, <1>2 DEF Init, AskedInv, OnlyAskedFor, MemoryAsked, CallGiven

\* The history leaves the steps as they are.
LEMMA HistoryOnly == OverlapSpec => Spec
<1>1. OverlapInit => Init
  BY DEF OverlapInit
<1>2. [OverlapNext]_overlapVars => [Next]_vars
  BY DEF OverlapNext, overlapVars
<1>3. QED
  BY <1>1, <1>2, PTL DEF OverlapSpec, Spec

\* However calls overlap and fail, a user's role and password are ones that
\* its row held before they began, or that this user's creation or one of the
\* updates of it called since has asked for.
THEOREM OnlyAsked == OverlapSpec => []OnlyAskedFor
<1>1. AskedInv => OnlyAskedFor
  BY DEF AskedInv
<1>2. QED
  BY <1>1, InitAsked, AskedStep, HistoryOnly, Invariance, StoreInvariance, PTL
  DEF OverlapSpec
=============================================================================
