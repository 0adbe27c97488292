------------------------ MODULE UsersStoreRefinement ------------------------
(***************************************************************************)
(* UsersRepository implements UsersStore: a user is the pair of its rows,  *)
(* a call takes effect when its transaction commits, and is refused when   *)
(* it comes to its catch block; a transaction in doubt is a write that is  *)
(* left.                                                                   *)
(***************************************************************************)
EXTENDS UsersRepositoryInv

StoredUsers ==
  [i \in Id |-> IF auth[i] = None THEN None
                ELSE [auth |-> auth[i], users |-> users[i]]]

\* What a caller is told, as soon as that is decided.
Decided == [r \in Caller |-> IF pc[r] = "rollback" THEN Error("repository") ELSE ret[r]]

Left ==
  [r \in Caller |-> IF tx[r] = "inDoubt"
                    THEN [id |-> id[r], auth |-> newAuth[r], users |-> newUsers[r]]
                    ELSE NoWrite]

Store == INSTANCE UsersStore
  WITH store <- StoredUsers, call <- arg, answer <- Decided, left <- Left

\* Whatever the interleaving, the tables change only as UsersStore lets them:
\* by whole users, once for a call, in the step that decides its answer
\* (lines 93, 171, 214), and never for a call that is refused, unless its COMMIT
\* was on its way when the connection broke or the process died: then what that
\* call was writing, once, or nothing.
StoreSpec == Store!Spec

-----------------------------------------------------------------------------
(***************************************************************************)
(* The invariant the refinement rests on, beyond IInv.                     *)
(***************************************************************************)

\* What is left of a call while it is in progress.
CallInv(r) ==
  LET c == arg[r] IN
  /\ IF pc[r] = "idle" THEN c = NoCall ELSE c \in Calls
  /\ pc[r] # "idle" /\ c.op \in {"getById", "update", "delete"} =>
       c.id = id[r]
  /\ pc[r] \notin {"release", "returned"} => ret[r] = NoResult
  /\ pc[r] \in BeforeCommit /\ c.op = "create" =>
       authRow[r] = NewAuth(c) /\ usersRow[r] = NewUsers(c)
  /\ pc[r] \in {"selectAuth", "writeAuth"} => ChangesAuth(c)
  /\ pc[r] \in {"selectUsers", "writeUsers"} => ChangesUsers(c)
  /\ \A row \in rows[r] : row.auth # None =>
       /\ auth[row.id] # None
       /\ row.auth.username = auth[row.id].username
       /\ row.auth.salt = auth[row.id].salt

\* The versions an update has written so far.
Updates(r, c) ==
  /\ auth[id[r]] # None
  /\ newAuth[r] # None =>
       ChangesAuth(c) /\ (newAuth[r].deleted => auth[id[r]].deleted)
  /\ newUsers[r] # None =>
       ChangesUsers(c) /\ (newUsers[r].deleted => users[id[r]].deleted)

\* How far a transaction has got.
ProgressInv(r) ==
  LET c == arg[r] IN
  pc[r] \in InTransaction /\ conn[r] = "up" =>
    /\ c.op = "create" =>
         /\ pc[r] \in {"insertUsers", "commit"} => newAuth[r] = NewAuth(c)
         /\ pc[r] = "commit" => newUsers[r] = NewUsers(c)
    /\ c.op = "delete" =>
         /\ pc[r] \in {"deleteUsers", "commit"} =>
              newAuth[r] = SoftDelete(auth[id[r]])
         /\ pc[r] = "commit" => newUsers[r] = SoftDelete(users[id[r]])
    /\ c.op = "update" => Updates(r, c)

\* What the transaction will do to the tables if it commits now.
Outcome(r, c) ==
  \/ /\ c.op = "create" /\ auth[id[r]] = None
     /\ newAuth[r] = NewAuth(c) /\ newUsers[r] = NewUsers(c)
  \/ /\ c.op = "delete" /\ c.id = id[r] /\ auth[id[r]] # None
     /\ newAuth[r] = SoftDelete(auth[id[r]])
     /\ newUsers[r] = SoftDelete(users[id[r]])
  \/ c.op = "update" /\ c.id = id[r] /\ Updates(r, c)

DoubtInv(r) ==
  tx[r] = "inDoubt" =>
    /\ Faults \intersect {"connection", "crash"} # {}
    /\ \E c \in Calls : Outcome(r, c) /\ (pc[r] # "idle" => c = arg[r])

\* No two transactions hold versions of the same row of users.
UsersLockInv ==
  \A r, o \in Caller :
    newUsers[r] # None /\ newUsers[o] # None /\ id[r] = id[o] => r = o

\* Every transaction that may still commit does what one of the calls asks
\* for, to rows that no other transaction can change meanwhile.
StoreInv ==
  /\ UsersLockInv
  /\ \A r \in Caller : CallInv(r) /\ ProgressInv(r) /\ DoubtInv(r)
=============================================================================
