--------------------------- MODULE MCUsersService ---------------------------
(***************************************************************************)
(* UsersService on small sets: three requests, each made once.             *)
(***************************************************************************)
EXTENDS UsersServiceInv, TLC

CONSTANTS a0, i1, i2, admin, bob, p1, p2, s1, s2, n1, g1, r1, r2, r3

MCId == {a0, i1, i2}
MCUsername == {admin, bob}

Asks(method, i) ==
  [method |-> method, id |-> i, username |-> None, password |-> None,
   role |-> None, name |-> None, age |-> None]

CreateBob ==
  [Asks("create", None) EXCEPT !.username = bob, !.password = Plain(p1),
                               !.role = "user", !.name = n1, !.age = g1]

\* A user is created, changed and deleted.
LifeCycle ==
  {CreateBob, Asks("delete", i1),
   [Asks("update", i1) EXCEPT !.password = Plain(p2), !.age = g1]}

\* Requests that compete for a row, for a username and for connections.
Competing ==
  {CreateBob, [Asks("update", a0) EXCEPT !.password = Plain(p2)],
   Asks("getAll", None)}

CompetingCalls == UNION {CallsFor(q) : q \in Competing}

LifeCycleCalls == UNION {CallsFor(q) : q \in LifeCycle}

RequestSymmetry == Permutations({r1, r2, r3})
=============================================================================
