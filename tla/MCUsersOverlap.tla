--------------------------- MODULE MCUsersOverlap ---------------------------
(***************************************************************************)
(* UsersRepository with its history on small sets: two callers that call   *)
(* every operation again and again, on the administrator and on others.    *)
(* bob and carol may be there together and differ in password and role.    *)
(***************************************************************************)
EXTENDS MCUsersRepository, UsersOverlap

CONSTANTS carol, g2

OverlapUsername == {admin, bob, carol}

CreateCarol ==
  [CreateOf(carol) EXCEPT !.password = Hash(Plain(p2), s1), !.role = "admin"]

\* An update that writes to both tables.
PromoteOf(i, role) == [IdCall("update", i) EXCEPT !.role = role, !.age = g2]

AllCalls ==
  {CreateOf(bob), CreateCarol, CreateOf(admin),
   IdCall("delete", a0), IdCall("delete", i1),
   PromoteOf(a0, "user"), PromoteOf(i1, "admin"),
   GetAllOf, IdCall("getById", i1)}
=============================================================================
