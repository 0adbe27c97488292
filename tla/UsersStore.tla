----------------------------- MODULE UsersStore -----------------------------
(***************************************************************************)
(* What the repository promises its callers: one map from ids to users.    *)
(* A write takes effect in a single step, the one that decides its answer; *)
(* a refused call has no effect.  The one exception is a write whose       *)
(* connection or process went at its COMMIT: it is left to the server,     *)
(* and takes effect later, exactly as it was and once, or never.           *)
(*                                                                         *)
(* An update is loose on purpose: it writes back what it read some time    *)
(* before, so all that can be promised is what it leaves alone.            *)
(***************************************************************************)
EXTENDS UsersData

CONSTANTS
  Caller,      \* the calls that may be in progress at a time
  Calls,       \* the calls that may be made
  Faults       \* what may fail

VARIABLES
  store,       \* the users, None for an id that has none
  call,        \* what a caller waits for
  answer,      \* what it is told, NoResult until that is decided
  left         \* the write of its call that is left to the server, or NoWrite

storeVars == <<store, call, answer, left>>

Init ==
  /\ \E p \in Secret, s \in Salt, n \in Name :
       store = [i \in Id |->
         IF i = AdminId
         THEN [auth |-> [username |-> AdminName, password |-> Hash(Plain(p), s),
                         salt |-> s, role |-> "admin", deleted |-> FALSE],
               users |-> [name |-> n, age |-> None, deleted |-> FALSE]]
         ELSE None]
  /\ call = [r \in Caller |-> NoCall]
  /\ answer = [r \in Caller |-> NoResult]
  /\ left = [r \in Caller |-> NoWrite]
-----------------------------------------------------------------------------
\* The users getAll() counts.
Listed == {i \in Id : store[i] # None /\ ~store[i].users.deleted}

Taken(i, username) ==
  \E j \in Id \ {i} :
    store[j] # None /\ ~store[j].auth.deleted /\ store[j].auth.username = username

\* The user a write makes of the one there is.
Written(w) == [auth |-> Defined(w.auth, store[w.id].auth),
               users |-> Defined(w.users, store[w.id].users)]

Inserts(c, w) ==
  /\ c.op = "create"
  /\ store[w.id] = None /\ ~Taken(w.id, c.username)
  /\ w.auth = NewAuth(c) /\ w.users = NewUsers(c)

Deletes(c, w) ==
  /\ c.op = "delete" /\ c.id = w.id
  /\ w.id # AdminId /\ store[w.id] # None
  /\ w.auth = SoftDelete(store[w.id].auth)
  /\ w.users = SoftDelete(store[w.id].users)

\* Of the rows the update is about, the username and the salt stay, a live
\* row stays live, a deleted one may come back where its username is free;
\* the administrator keeps its role.  The other rows stay as they are.
Changes(c, w) ==
  LET old == store[w.id]
      new == Written(w)
  IN /\ c.op = "update" /\ c.id = w.id
     /\ old # None /\ new \in User
     /\ ~ChangesAuth(c) => new.auth = old.auth
     /\ ~ChangesUsers(c) => new.users = old.users
     /\ new.auth.username = old.auth.username
     /\ new.auth.salt = old.auth.salt
     /\ new.auth.deleted => old.auth.deleted
     /\ new.users.deleted => old.users.deleted
     /\ ~new.auth.deleted => ~Taken(w.id, new.auth.username)
     /\ w.id = AdminId => new.auth.role = "admin"

\* The writes a call may make.
Asks(c, w) == w.id \in Id /\ (Inserts(c, w) \/ Deletes(c, w) \/ Changes(c, w))

Put(w) == store' = [store EXCEPT ![w.id] = Written(w)]

Success(c, i) ==
  CASE c.op = "create" ->
         [NoResult EXCEPT !.model = FillModel(i, NewAuth(c), NewUsers(c))]
    [] c.op = "update" ->
         Count(IF ChangesAuth(c) \/ ChangesUsers(c) THEN 1 ELSE 0)
    [] OTHER -> Count(1)
-----------------------------------------------------------------------------
Begin(r) ==
  /\ call[r] = NoCall /\ left[r] = NoWrite
  /\ \E c \in Calls : call' = [call EXCEPT ![r] = c]
  /\ UNCHANGED <<store, answer, left>>

Answer(r, result) ==
  /\ answer[r] = NoResult
  /\ answer' = [answer EXCEPT ![r] = result]
  /\ UNCHANGED call

\* A write call is answered in the step in which it takes effect.
Write(r) ==
  /\ \E i \in Id :
       LET w == [id |-> i, auth |-> store'[i].auth, users |-> store'[i].users] IN
       /\ Answer(r, Success(call[r], i))
       /\ store'[i] # None /\ Asks(call[r], w) /\ Put(w)
  /\ UNCHANGED left

\* getById() finds the user in one step.
Read(r) ==
  LET u == store[call[r].id] IN
  /\ call[r].op = "getById"
  /\ u # None /\ ~u.auth.deleted /\ ~u.users.deleted
  /\ Answer(r, [NoResult EXCEPT !.model = FillModel(call[r].id, u.auth, u.users)])
  /\ UNCHANGED <<store, left>>

\* getAll() counts the users of the moment, and lists users that existed at
\* some moment before.
List(r) ==
  LET result == answer'[r] IN
  /\ call[r].op = "getAll"
  /\ result = [error |-> "none", model |-> None, list |-> result.list,
               count |-> Cardinality(Listed)]
  /\ \A m \in result.list :
       /\ store[m.id] # None
       /\ m.username = store[m.id].auth.username
       /\ m.salt = store[m.id].auth.salt
  /\ Answer(r, result)
  /\ UNCHANGED <<store, left>>

\* Something failed, or may not be done.
Refuse(r) ==
  /\ call[r] # NoCall
  /\ \E kind \in {"repository", "readonly"} : Answer(r, Error(kind))
  /\ UNCHANGED <<store, left>>

End(r) ==
  /\ call' = [call EXCEPT ![r] = NoCall]
  /\ answer' = [answer EXCEPT ![r] = NoResult]
  /\ UNCHANGED <<store, left>>

\* The connection breaks at COMMIT: the caller is told of an error, and the
\* write is left.
Doubt(r) ==
  /\ "connection" \in Faults
  /\ Answer(r, Error("repository"))
  /\ Asks(call[r], left'[r])
  /\ left' = [left EXCEPT ![r] = left'[r]]
  /\ UNCHANGED store

\* The process dies, and may leave the writes of calls that were not answered.
Restart ==
  /\ "crash" \in Faults
  /\ call' = [r \in Caller |-> NoCall]
  /\ answer' = [r \in Caller |-> NoResult]
  /\ left' = [r \in Caller |-> left'[r]]
  /\ \A r \in Caller :
       \/ left'[r] = left[r]
       \/ answer[r] = NoResult /\ Asks(call[r], left'[r])
  /\ UNCHANGED store

\* The server commits a write that was left, which by then is still one that
\* is asked for, or rolls it back.
Late(r) ==
  /\ left[r] # NoWrite
  /\ \E c \in Calls : Asks(c, left[r])
  /\ Put(left[r])
  /\ left' = [left EXCEPT ![r] = NoWrite]
  /\ UNCHANGED <<call, answer>>

Drop(r) ==
  /\ left[r] # NoWrite
  /\ left' = [left EXCEPT ![r] = NoWrite]
  /\ UNCHANGED <<store, call, answer>>

Next ==
  \/ \E r \in Caller :
       \/ Begin(r) \/ Write(r) \/ Read(r) \/ List(r) \/ Refuse(r) \/ End(r)
       \/ Doubt(r) \/ Late(r) \/ Drop(r)
  \/ Restart

Spec == Init /\ [][Next]_storeVars
=============================================================================
