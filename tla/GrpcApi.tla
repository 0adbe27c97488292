------------------------------ MODULE GrpcApi ------------------------------
(***************************************************************************)
(* What a gRPC client of the service meets: the guard, the validation, the *)
(* controller and the exception filter, around UsersService.  Each slot of *)
(* Caller is one message of a client, answered with one status.            *)
(***************************************************************************)
EXTENDS UsersService

VARIABLES
  status,    \* what the client of a message is answered, None before
  applied    \* history: whether the message has changed the tables

api == <<status, applied>>
apiVars == <<serviceVars, api>>

\* The Authorization header: whether it has the prefix 'Bearer ', and whether
\* what follows its first blank verifies.
Header == [bearer : BOOLEAN, verifies : BOOLEAN] \union {None}

\* A status with the metadata is-operation; OK is an answer with data.
Status ==
  [code : {"OK", "INVALID_ARGUMENT", "PERMISSION_DENIED", "NOT_FOUND",
           "UNKNOWN", "UNAVAILABLE"},
   isOperation : BOOLEAN]

ApiTypeOK ==
  /\ ServiceTypeOK
  /\ status \in [Caller -> Status \union {None}]
  /\ applied \in [Caller -> BOOLEAN]

ApiInit ==
  /\ ServiceInit
  /\ status = [r \in Caller |-> None]
  /\ applied = [r \in Caller |-> FALSE]

-----------------------------------------------------------------------------
CanActivate(header) == header # None /\ header.bearer /\ header.verifies

Answers(code, isOperation) == [code |-> code, isOperation |-> isOperation]

\* The status that GrpcExceptionFilter makes of an exception.
Catch(exception) ==
  CASE exception = "unprocessable" -> Answers("INVALID_ARGUMENT", TRUE)
    [] exception \in {"forbidden", "readonly"} ->
         Answers("PERMISSION_DENIED", TRUE)
    [] exception = "notFound" -> Answers("NOT_FOUND", TRUE)
    [] OTHER -> Answers("UNKNOWN", FALSE)

Respond(r, answer) ==
  /\ status[r] = None
  /\ status' = [status EXCEPT ![r] = answer]
  /\ UNCHANGED <<serviceVars, applied>>

\* The guard refuses the message.
Forbid(r, header) ==
  /\ step[r] = "idle" /\ ~CanActivate(header)
  /\ Respond(r, Catch("forbidden"))

\* The validation pipe refuses the payload of a message the guard let in.
Invalidate(r, header) ==
  /\ step[r] = "idle" /\ CanActivate(header)
  /\ Respond(r, Catch("unprocessable"))

\* The controller passes a validated request on to the service.
Handle(r, header) ==
  /\ status[r] = None /\ CanActivate(header)
  /\ Accept(r)
  /\ UNCHANGED api

\* Seeded bug: the controller answers without looking at the error.
AnswerAlways(r) ==
  /\ step[r] = "done"
  /\ Respond(r, Answers("OK", TRUE))

\* The service has returned: the controller throws its error, or answers.
AnswerClient(r) ==
  /\ step[r] = "done"
  /\ Respond(r, IF reply[r].error = "none" THEN Answers("OK", TRUE)
                ELSE Catch(reply[r].error))

-----------------------------------------------------------------------------
\* A step behind the controller; the history notes what it does to the tables.
Behind(r) ==
  /\ \/ Continue(r) \/ RepositoryStep(r) \/ RepositoryFault(r)
     \/ ServerStep(r)
  /\ applied' = [applied EXCEPT ![r] = @ \/ tables' # tables]
  /\ UNCHANGED status

\* The process dies: clients that wait for an answer see the connection end.
ApiCrash ==
  /\ ServiceCrash
  /\ status' = [r \in Caller |->
                  IF step[r] # "idle" /\ status[r] = None
                  THEN Answers("UNAVAILABLE", FALSE) ELSE status[r]]
  /\ UNCHANGED applied

\* Every message is answered: nothing more happens.
AllAnswered ==
  /\ \A r \in Caller : status[r] # None /\ tx[r] = "none"
  /\ UNCHANGED apiVars

ApiNext ==
  \/ \E r \in Caller :
       \/ \E header \in Header :
            Forbid(r, header) \/ Invalidate(r, header) \/ Handle(r, header)
       \/ AnswerClient(r)
       \/ Behind(r)
  \/ ApiCrash
  \/ AllAnswered

\* The event loop sends the answers too.
ApiFairness ==
  \A r \in Caller :
    /\ WF_apiVars(AnswerClient(r))
    /\ WF_apiVars(Continue(r) /\ Behind(r))
    /\ WF_apiVars(RepositoryStep(r) /\ Behind(r))
    /\ WF_apiVars(ServerStep(r) /\ Behind(r))

ApiSpec == ApiInit /\ [][ApiNext]_apiVars
FairApiSpec == ApiSpec /\ ApiFairness

-----------------------------------------------------------------------------
\* What a client is told is true, and stays true.  An error that is marked
\* operational means that the message has changed nothing and never will: no
\* transaction is left that could still commit.  OK to a Create means that
\* the user has been stored.  OK with count 0 means that nothing changed.
StatusTellsTheTruth ==
  \A r \in Caller : status[r] # None =>
    /\ status[r].code # "OK" /\ status[r].isOperation =>
         ~applied[r] /\ tx[r] = "none"
    /\ status[r].code = "OK" =>
         CASE req[r].method = "create" -> applied[r]
           [] req[r].method \in {"update", "delete"} ->
                reply[r].count = 0 => ~applied[r]
           [] OTHER -> ~applied[r]

\* Every message the guard and the validation let in is answered.
Replied == \A r \in Caller : step[r] # "idle" ~> status[r] # None
=============================================================================
