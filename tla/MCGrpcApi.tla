----------------------------- MODULE MCGrpcApi -----------------------------
(***************************************************************************)
(* GrpcApi on small sets: two or three messages, each one of the requests  *)
(* below or refused.                                                       *)
(***************************************************************************)
EXTENDS GrpcApiInv, TLC

CONSTANTS a0, i1, i2, admin, bob, p1, s1, n1, n2, g1, r1, r2, r3

MCId == {a0, i1, i2}
MCUsername == {admin, bob}

Asks(method, i) ==
  [method |-> method, id |-> i, username |-> None, password |-> None,
   role |-> None, name |-> None, age |-> None]

\* Requests that meet at one user, and one that degrades the administrator.
Messages ==
  {[Asks("create", None) EXCEPT !.username = bob, !.password = Plain(p1),
                                !.role = "user", !.name = n1, !.age = g1],
   Asks("getAll", None), Asks("delete", i1),
   [Asks("update", i1) EXCEPT !.name = n2],
   [Asks("update", a0) EXCEPT !.role = "user"]}

MessageCalls == UNION {CallsFor(q) : q \in Messages}

MessageSymmetry == Permutations({r1, r2, r3})
=============================================================================
