---------------------------- MODULE UsersService ----------------------------
(***************************************************************************)
(* UsersService on top of the repository.  Every request is one slot of    *)
(* Caller and is made once.  A step of the service is one call of the      *)
(* repository, or the return of one; hashing happens in the memory of the  *)
(* request and is part of the call that follows it.                        *)
(***************************************************************************)
EXTENDS UsersRepository

CONSTANT Requests   \* the validated requests that may be made

Request ==
  LET Maybe(S) == S \union {None}
  IN [method : {"getAll", "getById", "create", "update", "delete"},
      id : Maybe(Id), username : Maybe(Username), password : Maybe(Password),
      role : Maybe(UsersRoleEnum), name : Maybe(Name), age : Maybe(Age)]

\* What validation lets through: every field of a creation, the id of the
\* others; passwords in plain text.
Validated(q) ==
  /\ q \in Request
  /\ q.method \in {"getById", "update", "delete"} => q.id # None
  /\ q.method = "create" =>
       None \notin {q.username, q.role, q.name, q.age} /\ q.password # None
  /\ q.password # None => q.password.salt = None

\* The calls of the repository that the methods make for a request.
GetAllCall == [NoCall EXCEPT !.op = "getAll"]
GetByIdCall(q) == [NoCall EXCEPT !.op = "getById", !.id = q.id]
DeleteCall(q) == [NoCall EXCEPT !.op = "delete", !.id = q.id]

\* create(): the password is hashed with a new salt.
CreateCall(q, salt) ==
  [op |-> "create", id |-> None, username |-> q.username,
   password |-> Hash(q.password, salt), salt |-> salt,
   role |-> q.role, name |-> q.name, age |-> q.age]

\* Seeded bug: update() stores the password as it was received.
UpdateCallPlain(q, salt) ==
  [NoCall EXCEPT
     !.op = "update", !.id = q.id, !.password = q.password,
     !.role = q.role, !.name = q.name, !.age = q.age]

\* update(): a new password is hashed with the salt of the user found.
UpdateCall(q, salt) ==
  [NoCall EXCEPT
     !.op = "update", !.id = q.id,
     !.password = IF q.password = None THEN None ELSE Hash(q.password, salt),
     !.role = q.role, !.name = q.name, !.age = q.age]

CallsFor(q) ==
  CASE q.method = "getAll" -> {GetAllCall}
    [] q.method = "getById" -> {GetByIdCall(q)}
    [] q.method = "delete" -> {GetByIdCall(q), DeleteCall(q)}
    [] q.method = "create" -> {CreateCall(q, salt) : salt \in Salt}
    [] q.method = "update" ->
         {GetByIdCall(q)} \union {UpdateCall(q, salt) : salt \in Salt}

ASSUME RequestsAssumption ==
  \A q \in Requests : Validated(q) /\ CallsFor(q) \subseteq Calls

VARIABLES
  step,    \* where the service stands with a request
  req,     \* the request
  user,    \* userData: what getById() has found for update() or delete()
  reply    \* what the method returns

service == <<step, req, user, reply>>
serviceVars == <<vars, service>>

NoRequest == [method |-> "none"]

ServiceTypeOK ==
  /\ TypeOK
  /\ step \in [Caller -> {"idle", "getById", "found", "answer", "done",
                          "lost"}]
  /\ req \in [Caller -> Requests \union {NoRequest}]
  /\ user \in [Caller -> UsersModel \union {None}]
  /\ reply \in [Caller -> [error : {"none", "repository", "readonly",
                                    "notFound"},
                           model : UsersModel \union {None},
                           list : SUBSET UsersModel, count : Nat]]

ServiceInit ==
  /\ Init
  /\ step = [r \in Caller |-> "idle"]
  /\ req = [r \in Caller |-> NoRequest]
  /\ user = [r \in Caller |-> None]
  /\ reply = [r \in Caller |-> NoResult]

-----------------------------------------------------------------------------
Proceed(r, s) == step' = [step EXCEPT ![r] = s]
Receive(r, q) ==
  /\ step[r] = "idle"
  /\ req' = [req EXCEPT ![r] = q]
  /\ UNCHANGED <<user, reply>>

GetAllMethod(r, q) ==
  /\ q.method = "getAll"
  /\ Receive(r, q)
  /\ Call(r, GetAllCall)
  /\ Proceed(r, "answer")

\* getById(), and with it update() and delete(), begin by reading the user.
GetByIdMethod(r, q) ==
  /\ q.method \in {"getById", "update", "delete"}
  /\ Receive(r, q)
  /\ Call(r, GetByIdCall(q))
  /\ Proceed(r, "getById")

CreateMethod(r, q) ==
  /\ q.method = "create"
  /\ Receive(r, q)
  /\ \E salt \in Salt : Call(r, CreateCall(q, salt))
  /\ Proceed(r, "answer")

GetByIdReturns(r) ==
  LET result == IF ret[r].error = "none" /\ ret[r].model = None
                THEN Error("notFound") ELSE ret[r]
  IN /\ step[r] = "getById"
     /\ Take(r)
     /\ IF result.error # "none" \/ req[r].method = "getById"
        THEN /\ reply' = [reply EXCEPT ![r] = result]
             /\ Proceed(r, "done")
             /\ UNCHANGED user
        ELSE /\ user' = [user EXCEPT ![r] = result.model]
             /\ Proceed(r, "found")
             /\ UNCHANGED reply
     /\ UNCHANGED req

UpdateMethod(r) ==
  /\ step[r] = "found" /\ req[r].method = "update"
  /\ Call(r, UpdateCall(req[r], user[r].salt))
  /\ Proceed(r, "answer")
  /\ UNCHANGED <<req, user, reply>>

DeleteMethod(r) ==
  /\ step[r] = "found" /\ req[r].method = "delete"
  /\ Call(r, DeleteCall(req[r]))
  /\ Proceed(r, "answer")
  /\ UNCHANGED <<req, user, reply>>

\* Seeded bug: the repository's promise is not awaited.
AnswerAtOnce(r) ==
  /\ step[r] = "answer"
  /\ Goto(r, "idle")
  /\ Proceed(r, "done")
  /\ UNCHANGED <<tables, server, conn, memory, ret, req, user, reply>>

Answer(r) ==
  /\ step[r] = "answer"
  /\ reply' = [reply EXCEPT ![r] = ret[r]]
  /\ user' = [user EXCEPT ![r] = None]
  /\ Take(r)
  /\ Proceed(r, "done")
  /\ UNCHANGED req

\* The process dies with the requests it was working on.
ServiceCrash ==
  /\ Crash
  /\ step' = [r \in Caller |->
                IF step[r] \in {"idle", "done"} THEN step[r] ELSE "lost"]
  /\ user' = [r \in Caller |-> None]
  /\ UNCHANGED <<req, reply>>

-----------------------------------------------------------------------------
Accept(r) ==
  \E q \in Requests : GetAllMethod(r, q) \/ GetByIdMethod(r, q)
                      \/ CreateMethod(r, q)

Continue(r) ==
  \/ GetByIdReturns(r) \/ UpdateMethod(r) \/ DeleteMethod(r) \/ Answer(r)

RepositoryStep(r) == Statement(r) /\ UNCHANGED service
RepositoryFault(r) == Fault(r) /\ UNCHANGED service
ServerStep(r) == Server(r) /\ UNCHANGED service

\* Every request is over: nothing more happens.
AllOver ==
  /\ \A r \in Caller : step[r] \in {"done", "lost"} /\ tx[r] = "none"
  /\ UNCHANGED serviceVars

ServiceNext ==
  \/ \E r \in Caller :
       Accept(r) \/ Continue(r) \/ RepositoryStep(r) \/ RepositoryFault(r)
       \/ ServerStep(r)
  \/ ServiceCrash
  \/ AllOver

(***************************************************************************)
(* Fairness: the event loop goes on with every request whose next step can *)
(* be taken, and the server ends the transactions of clients that are      *)
(* gone.  Nothing obliges a request to arrive, or anything to fail.        *)
(***************************************************************************)
Fairness ==
  \A r \in Caller :
    /\ WF_serviceVars(Continue(r))
    /\ WF_serviceVars(RepositoryStep(r))
    /\ WF_serviceVars(ServerStep(r))

ServiceSpec == ServiceInit /\ [][ServiceNext]_serviceVars
FairServiceSpec == ServiceSpec /\ Fairness

-----------------------------------------------------------------------------
\* Every stored password, and every one a transaction is about to store, is
\* hashed with the salt of its own row: create() and update() take the salt
\* from different places and store it at different times.
PasswordMatchesSalt ==
  /\ \A i \in Id : auth[i] # None => auth[i].password.salt = auth[i].salt
  /\ \A r \in Caller :
       newAuth[r] # None => newAuth[r].password.salt = newAuth[r].salt

\* The service drives the repository by its protocol: one call at a time for
\* a request, the next only when the last has returned.
RepositorySpec == Spec

\* Every request that arrives is answered, or lost with the process: callers
\* that wait for a connection, for a row or for a username never wait on
\* each other for ever, not even while a dead client's transaction is open.
Answered ==
  \A r \in Caller : step[r] = "getById" \/ step[r] = "answer" ~>
                    step[r] \in {"done", "lost"}
=============================================================================
