-------------------------- MODULE UsersServiceInv --------------------------
(***************************************************************************)
(* The invariants that what UsersService promises rests on, in named       *)
(* parts: what becomes of a creation, the protocol between service and     *)
(* repository, and the salts of passwords on their way.                    *)
(***************************************************************************)
EXTENDS UsersService, UsersStoreRefinement

(***************************************************************************)
(* What becomes of a creation.                                             *)
(***************************************************************************)

\* The id is one that create() has drawn: its caller has yet to take the
\* result, or its transaction is all that is left of it.
Drew(r) ==
  \/ pc[r] # "idle" /\ arg[r].op = "create"
  \/ newAuth[r] # None /\ auth[id[r]] = None

\* No id is drawn twice.
DrawnInv == \A r, o \in Caller : Drew(r) /\ Drew(o) /\ id[r] = id[o] => r = o

\* Where connections do not break, a transaction keeps its own.
KeptInv(r) ==
  "connection" \notin Faults =>
    /\ conn[r] # "lost"
    /\ pc[r] \in InTransaction \union {"begin", "rollback", "release"} =>
         conn[r] = "up"

Over(r) == pc[r] \in {"release", "returned"}

\* A creation that has succeeded is stored, and one that has failed is not
\* and will not be.
CreationInv(r) ==
  pc[r] # "idle" /\ arg[r].op = "create" =>
    /\ Over(r) /\ ret[r].error = "none" =>
         /\ auth[id[r]] # None
         /\ auth[id[r]].username = arg[r].username
    /\ "connection" \notin Faults
       /\ (pc[r] = "rollback" \/ (Over(r) /\ ret[r].error # "none")) =>
         /\ auth[id[r]] = None /\ newAuth[r] = None
         /\ tx[r] = IF Over(r) THEN "none" ELSE "aborted"

FateInv ==
  DrawnInv /\ \A r \in Caller : KeptInv(r) /\ CreationInv(r)

-----------------------------------------------------------------------------
(***************************************************************************)
(* The protocol between service and repository.                            *)
(***************************************************************************)

\* The service waits for the call it has made, and makes none before the
\* last has returned.
ProtocolInv(r) ==
  /\ step[r] \in {"getById", "found", "answer"} => req[r] \in Requests
  /\ step[r] \in {"getById", "answer"} <=> pc[r] # "idle"
  /\ step[r] = "getById" =>
       /\ req[r].method \in {"getById", "update", "delete"}
       /\ arg[r] = GetByIdCall(req[r])
  /\ step[r] = "found" =>
       req[r].method \in {"update", "delete"} /\ user[r] # None
  /\ step[r] = "answer" => arg[r].op = req[r].method

ServiceInv == ServiceTypeOK /\ \A r \in Caller : ProtocolInv(r)

-----------------------------------------------------------------------------
(***************************************************************************)
(* The salts of passwords on their way.                                    *)
(***************************************************************************)
Salted(row) == row.password.salt = row.salt

\* A model that was read of the user with the id asked for.
ReadOf(model, i) ==
  /\ model.id = i
  /\ auth[i] # None /\ model.salt = auth[i].salt

MemorySalted(r) == authRow[r] # None => Salted(authRow[r])

\* A call brings the salt of the row it will write.
CallSalted(r) ==
  pc[r] # "idle" =>
    /\ arg[r].op = "create" => Salted(arg[r])
    /\ arg[r].op = "update" /\ arg[r].password # None =>
         /\ auth[id[r]] # None
         /\ arg[r].password.salt = auth[id[r]].salt

\* What getById() returns, and what the service keeps of it.
ReadSalted(r) ==
  /\ pc[r] = "returned" /\ arg[r].op = "getById" /\ ret[r].model # None =>
       ReadOf(ret[r].model, id[r])
  /\ step[r] = "found" => ReadOf(user[r], req[r].id)

SaltsInv ==
  /\ PasswordMatchesSalt
  /\ \A r \in Caller : MemorySalted(r) /\ CallSalted(r) /\ ReadSalted(r)

\* What a creation has come to, what the service waits for, and the salt of
\* every password in memory.
ServiceIInv == FateInv /\ ServiceInv /\ SaltsInv
=============================================================================
