----------------------------- MODULE UsersData -----------------------------
(***************************************************************************)
(* The data of the users service: the two tables a user is spread over     *)
(* (auth: credentials and role; users: name and age), the model the        *)
(* repository hands out, and what the ORM does with an entity when it is   *)
(* found and when it is saved.  Time stamps other than "deleted or not"    *)
(* are left out.                                                           *)
(***************************************************************************)
EXTENDS Naturals, FiniteSets

CONSTANTS
  Id,          \* the uuids that may occur in requests or be generated
  AdminId,     \* the uuid of the administrator the migrations insert
  Username,
  AdminName,   \* the username 'admin'
  Secret,      \* plaintext passwords
  Salt,        \* bcrypt salts
  Name,
  Age,
  None         \* undefined, null, "no such row"

UsersRoleEnum == {"admin", "user"}

(***************************************************************************)
(* A password as stored or as received: hashed with a salt, or plain when  *)
(* salt = None.                                                            *)
(***************************************************************************)
Password == [plain : Secret, salt : Salt \union {None}]

Plain(secret) == [plain |-> secret, salt |-> None]

\* bcrypt.hash(password, salt): the hash carries the salt it was made with.
Hash(password, salt) == [plain |-> password.plain, salt |-> salt]

AuthEntity == [username : Username, password : Password, salt : Salt,
               role : UsersRoleEnum, deleted : BOOLEAN]

UsersEntity == [name : Name, age : Age \union {None}, deleted : BOOLEAN]

UsersModel == [id : Id, username : Username, password : Password, salt : Salt,
               role : UsersRoleEnum, name : Name, age : Age \union {None}]

\* A user is the two rows with its id.
User == [auth : AuthEntity, users : UsersEntity]

ASSUME IdAssumption == IsFiniteSet(Id)

ASSUME AdminAssumption == AdminId \in Id /\ AdminName \in Username

ASSUME NoneAssumption ==
  /\ None \notin Id \union Username \union Secret \union Salt
  /\ None \notin Name \union Age \union Password
  /\ None \notin AuthEntity /\ None \notin UsersEntity
  /\ None \notin UsersModel /\ None \notin User /\ None \notin UsersRoleEnum

-----------------------------------------------------------------------------
(***************************************************************************)
(* What the ORM does with rows.  A row is None until it is inserted; it is *)
(* never removed, only marked deleted.                                     *)
(***************************************************************************)

IsLive(row) == row # None /\ ~row.deleted

\* Seeded bug: deleted rows are found as well.
FindDeleted(row) == row

\* find, findOne, findOneBy and the joins they make skip soft-deleted rows.
Find(row) == IF IsLive(row) THEN row ELSE None

\* softDelete(Entity, id): UPDATE ... SET delete_at, whatever the row holds.
SoftDelete(row) == [row EXCEPT !.deleted = TRUE]

(***************************************************************************)
(* save(entity) selects the row (deleted or not), compares it with the     *)
(* entity, and updates the columns that differ; the columns it does not    *)
(* write keep what the row holds when the UPDATE gets the row's lock.      *)
(***************************************************************************)
DiffColumns(entity, row) == {c \in DOMAIN row : entity[c] # row[c]}

UpdateColumns(row, entity, columns) ==
  [c \in DOMAIN row |-> IF c \in columns THEN entity[c] ELSE row[c]]

\* The model made of a users row and the auth row joined to it.
FillModel(id, auth, users) ==
  [id |-> id, username |-> auth.username, password |-> auth.password,
   salt |-> auth.salt, role |-> auth.role, name |-> users.name,
   age |-> users.age]

\* A value that is undefined leaves the old one.
Defined(value, old) == IF value # None THEN value ELSE old

\* Seeded bug: an update that leaves the role undefined resets it.
AssignAuthReset(entity, c) ==
  [entity EXCEPT !.password = Defined(c.password, entity.password),
                 !.role = Defined(c.role, "user")]

\* update() assigns the arguments that are defined to the entities.
AssignAuth(entity, c) ==
  [entity EXCEPT !.password = Defined(c.password, entity.password),
                 !.role = Defined(c.role, entity.role)]

AssignUsers(entity, c) ==
  [entity EXCEPT !.name = Defined(c.name, entity.name),
                 !.age = Defined(c.age, entity.age)]
-----------------------------------------------------------------------------
(***************************************************************************)
(* The calls of the repository and what they return.                       *)
(***************************************************************************)

\* A call's arguments; None is an argument the operation does not have or an
\* update leaves undefined.
Arguments ==
  LET Maybe(S) == S \union {None}
      Only(op) == [op : op, id : Id, username : {None}, password : {None},
                   salt : {None}, role : {None}, name : {None}, age : {None}]
  IN UNION {
       [op : {"getAll"}, id : {None}, username : {None}, password : {None},
        salt : {None}, role : {None}, name : {None}, age : {None}],
       Only({"getById", "delete"}),
       [op : {"create"}, id : {None}, username : Username,
        password : Password, salt : Salt, role : UsersRoleEnum,
        name : Name, age : Age],
       [op : {"update"}, id : Id, username : {None},
        password : Maybe(Password), salt : {None},
        role : Maybe(UsersRoleEnum), name : Maybe(Name), age : Maybe(Age)]}

Result == [error : {"none", "repository", "readonly"},
           model : UsersModel \union {None}, list : SUBSET UsersModel,
           count : Nat]

NoResult == [error |-> "none", model |-> None, list |-> {}, count |-> 0]
Error(kind) == [NoResult EXCEPT !.error = kind]
Count(n) == [NoResult EXCEPT !.count = n]

NoCall == [op |-> "none", id |-> None, username |-> None, password |-> None,
           salt |-> None, role |-> None, name |-> None, age |-> None]

\* A write has an id, and the new row of each table, None where that stays.
NoWrite == [id |-> None, auth |-> None, users |-> None]

NewAuth(c) ==
  [username |-> c.username, password |-> c.password, salt |-> c.salt,
   role |-> c.role, deleted |-> FALSE]

NewUsers(c) == [name |-> c.name, age |-> c.age, deleted |-> FALSE]

ChangesAuth(c) == c.password # None \/ c.role # None
ChangesUsers(c) == c.name # None \/ c.age # None
=============================================================================
