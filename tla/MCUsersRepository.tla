------------------------- MODULE MCUsersRepository -------------------------
(***************************************************************************)
(* UsersRepository on small sets: the administrator and two more ids, two  *)
(* callers that call again and again.                                      *)
(***************************************************************************)
EXTENDS UsersSequentialInv, TLC

CONSTANTS a0, i1, i2, admin, bob, p1, p2, s1, n1, n2, g1, r1, r2

MCId == {a0, i1, i2}
MCUsername == {admin, bob}
MCCaller == {r1, r2}
CallerSymmetry == Permutations(MCCaller)

CreateOf(username) ==
  [op |-> "create", id |-> None, username |-> username,
   password |-> Hash(Plain(p1), s1), salt |-> s1, role |-> "user",
   name |-> n1, age |-> g1]
IdCall(op, i) == [NoCall EXCEPT !.op = op, !.id = i]
UpdateOf(i, role, name) ==
  [IdCall("update", i) EXCEPT !.role = role, !.name = name]
GetAllOf == [NoCall EXCEPT !.op = "getAll"]

NewPasswordOf(i) ==
  [UpdateOf(i, None, None) EXCEPT !.password = Hash(Plain(p2), s1)]

\* One user is created, read, made administrator, renamed, given a password,
\* deleted, and listed; the administrator may not be deleted.
OneUser ==
  {CreateOf(bob), UpdateOf(i1, "admin", None), UpdateOf(i1, None, n2),
   UpdateOf(i1, "user", n1), NewPasswordOf(i1), IdCall("delete", i1),
   IdCall("delete", a0), IdCall("getById", i1), GetAllOf}

\* Two updates of the same row that ask for different columns.
TwoUpdates ==
  {CreateOf(bob), UpdateOf(i1, "admin", None), NewPasswordOf(i1)}
=============================================================================
