# A verification of the users service

This directory models the users microservice of this repository (`src/src`, a
NestJS service that speaks gRPC and keeps its users in PostgreSQL through
TypeORM) in TLA+. TLC checks the models on small instances; TLAPS proves the safety
properties, each where it holds (three for calls that do not overlap, some of the
migrations until two undos overlap), and that the whole system implements an abstract
specification, for instances of every size. Only liveness, and what needs ENABLED, rests
on TLC alone.

All paths below are relative to `src/src`; `U` stands for `module/users`.

## The system

| component | state | operations | talks to |
|---|---|---|---|
| repository `U/infrastructure/repository/users-pg.repository.ts` | the tables `auth` and `users`; per call: entities, a query runner | `getAll`, `getById`, `create`, `update`, `delete` | the database, through a connection pool |
| entities and model `U/infrastructure/entity`, `U/core/model` | a user is one row in each table with the same id; rows are only marked deleted | | |
| service `U/core/service/users.service.ts` | none of its own | the same five, with password hashing and not-found errors | repository, bcrypt |
| controller and DTOs `U/api/grpc` | none | `FindAll`, `FindOne`, `Create`, `Update`, `Delete` | service |
| guard and exception filter `api/grpc` | none | let a request in; turn an error into a status | every request |
| start, migrations and commands `main.ts`, `cli.ts`, `U/infrastructure/migrations`, `api/command` | the schema, its history, the administrator's rows | run, undo; every start runs what is pending | the database |
| configuration `loader` | the environment of the process and the `.env` file | validates the environment; sets the size of the pool | start of the process |
| default and filter models `utility/model` | which properties are defaults; page, order and conditions of a list | proxies, clones; `addSortBy`, `addCondition` | DTOs, service |

How a request runs: the guard and the validation let it in, the controller
calls the service, which calls the repository once (`getAll`, `getById`,
`create`) or twice (`update` and `delete` read the user first). The repository's
`update` and `delete` read both rows *before* they open a transaction, decide on
what they read, and then write. Requests run concurrently in one Node.js
process: between two `await`s nothing else runs, at an `await` anything may.
Several processes may share the database.

### What is hard in this code

* `update` and `delete` act on rows read before their transaction and lock
  nothing, and `save()` writes every column in which the stale entity differs
  from the row, the deletion mark included.
* Two tables and no foreign key: the code alone keeps a user's two rows
  together, in two statements of a transaction that may fail in between.
* Nothing looks for a username before inserting it; a partial unique index on
  live rows decides, and transactions wait for each other there.
* Connections are scarce and are held while waiting for row locks.
* Connections break, also while COMMIT is on its way; ROLLBACK then fails too.
* The process may die with transactions open on the server.
* The salt is read in one query and the hash made with it stored later.
* Every process runs the pending migrations twice when it starts, since `main.ts`
  makes two application contexts; nothing locks the migrations, and the loser of
  a race exits and relies on being restarted. `migration:undo` also runs them first.
* What is validated of the environment is a copy; what is used is not.

Correct means, for the repository: the administrator stays what the migrations
made it; live usernames are unique; a user has both rows or none; deletion hits
both, for good; identity (username, salt) never changes; answers are true; connections
return; callers never wait in a circle. All this follows one abstract specification, in which a call changes one
map from ids to users in one step or not at all. For the service: hashes match
salts, and every request is answered. For the migrations: the history tells what
the database is, and every server ends up serving.
`PROJECT.json` lists each hazard at its line with the properties that watch it.

## The modules

| module | models |
|---|---|
| `UsersData` | the rows, the model, what TypeORM's find, `softDelete` and `save` do with a row, and the operators of `update()` on entities |
| `UsersRepository` | `UsersPgRepository`, its pool and its database, with concurrent callers and faults; its properties |
| `UsersRepositoryInv` | the inductive invariant |
| `UsersRepositoryProofs` | the theorems about it and their proofs |
| `UsersService` | `UsersService` on top of the repository; fairness; its properties |
| `GrpcApi` | guard, validation, controller and exception filter around `UsersService`; what clients are told |
| `UsersStore` | the abstract specification: what the repository promises its callers |
| `UsersStoreRefinement` | the refinement mapping from `UsersRepository`, and the invariant it rests on |
| `UsersStoreProofs` | that invariant, what a step may do to the two rows of a user, and the refinement |
| `UsersSequentialInv`, `UsersSequentialProofs` | what holds of the repository when calls do not overlap: invariant and proofs |
| `UsersOverlap`, `UsersOverlapProofs` | what overlapping calls leave of that: the repository with a history of what each user was given, and proofs |
| `UsersServiceInv`, `UsersServiceProofs` | the service's inductive invariant; its theorems and their proofs |
| `GrpcApiInv`, `GrpcApiProofs` | the same for the API |
| `Migrations` | processes that start, run the migrations and undo them |
| `MigrationsInv`, `MigrationsProofs` | its inductive invariant; its theorems and their proofs |
| `MigrationsUndo` | `Migrations` with a history of what each process found, for one property |
| `DefaultModel`, `FilterModel`, `Configuration` | `utility/model` and `loader`, each by itself |
| `ModelsProofs` | the theorems about these three |
| `MCUsersRepository`, `MCUsersOverlap`, `MCUsersService`, `MCGrpcApi`, `MCMigrations`, `MCMigrationsUndo`, `MCModels` | small sets for TLC |

### UsersRepository

`auth` and `users` are the committed rows (`None` until inserted). A caller `r`
is one call in progress: `pc[r]` is the `await` it stands at, `arg[r]` its
arguments, `id[r]` the id it works on, `authRow[r]` and `usersRow[r]` the entities
in its memory, `columns[r]` the columns `save()` has found different,
`rows[r]` what `findAndCount` has read, `ret[r]` what it returns. `conn[r]` is the
connection it holds. On the server's side, `tx[r]` is its transaction and
`newAuth[r]`, `newUsers[r]` the row versions it has written and not committed;
a version is at the same time the lock of its row.

An action is one statement of the database with the code up to the next
`await`:

| code | actions |
|---|---|
| `getAll` | `GetAllRows`, `GetAllCount` (the two queries of `findAndCount`) |
| `getById` | `GetById` |
| `create` | `CallCreate`, `Connect`, `Begin`, `InsertAuth`, `InsertUsers`, `Commit` |
| `update` | `FindAuth`, `FindUsers` (in either order), `ReturnMissing`, `ReturnReadonly`, `PassCheck`, `Connect`, `Begin` (with the assignments), `SelectAuth`, `WriteAuth`, `SelectUsers`, `WriteUsers` (SELECT and UPDATE of each `save()`), `Commit` |
| `delete` | the same beginning, then `DeleteAuth`, `DeleteUsers`, `Commit` |
| `catch`, `_rollbackExecute`, `finally` | `Abort` (in the failing statement), `Rollback`, `Release` |
| failures | `QueryFails`, `CountFails`, `StatementFails`, `LoseConnection`, `LoseCommit`, `FindBroken`, `Crash` |
| the server alone | `Reap` (ends the transaction of a lost client), `LateCommit` (applies a COMMIT that was on its way) |

What is not under `src/` is modelled as the code uses it: TypeORM 0.3 (`find*`
skips soft-deleted rows; `save()` selects the row whether deleted or not,
compares, and updates the columns that differ; `softDelete()` marks
unconditionally; `findAndCount` is two queries), PostgreSQL at its default READ
COMMITTED (a statement waits for a locked row and then works on the newest
committed one; the unique index waits for an undecided rival and then fails or
passes), and the pool (a bound on connections in use). Generated ids never
repeat. `Awaits(r, o)` says that a caller cannot go on before another has: it waits for a
connection, a row or a username that the other holds. A call's memory is dropped when it returns. The slot of a call whose
connection was lost is used again only when the server has ended its
transaction: that bounds the abandoned transactions by the number of callers.

### UsersService

`step[r]` is where the service stands with request `req[r]`, `user[r]` the
user that `getById` has found, `reply[r]` the answer. `GetByIdReturns` followed by
`UpdateMethod` or `DeleteMethod` are the two halves of `update` and `delete`. A
request is `Validated`: passwords are plain, and required fields are there. Each
request is made at most once, which bounds the runs.

### GrpcApi

A message is refused by the guard (`Forbid`; `CanActivate` looks at the header
as `grpc-auth.guard.ts` does, whether a token verifies is given) or by the
validation pipe (`Invalidate`), or handed to the service (`Handle`).
`AnswerClient` is the controller after its `await`: it throws the error, which
the filter's `Catch` turns into a code and an is-operation mark, or answers.
`ApiCrash` ends the connections of waiting clients, who see UNAVAILABLE.
`applied[r]` is a history variable: whether the message has changed the tables.

### UsersStore and its refinement

`UsersStore` has one variable for the data, `store`, a map from ids to users. A
call begins, is answered once, and ends. A write `[id, auth, users]` is what a call makes of one
user, and `Asks(c, w)` says which writes call `c` may make. Creations and deletions are exact
(`Inserts`, `Deletes`). What an `update` may write (`Changes`) is loose, because the code writes
back what it read some time before: it says only what an update leaves alone.
It may bring a part of a deleted user back, but never delete one, change a
username or a salt, take the administrator's role, or touch the row it has no columns for.

A write takes effect in the step that gives the answer (`Write`), and a refused call (`Refuse`)
has no effect, then or later. The one exception is a call whose connection breaks (`Doubt`) or
whose process ends (`Restart`) while its COMMIT is on its way: that one write is kept in
`left[r]`, and the server applies it as it is, once (`Late`), or rolls it back (`Drop`). Nothing
else is ever left, so no call takes effect twice, and none that was refused.

The mapping (`StoreSpec` in `UsersStoreRefinement`) pairs the committed rows, and takes `arg`
for the call. A caller is told an error as soon as its call comes to the catch block (`Decided`);
a write is left while its transaction is in doubt (`Left`). Everything before COMMIT is a
stutter. That a COMMIT is a write its call asks for rests on `StoreInv`: a transaction
that may commit holds exactly what its call asks for (`ProgressInv`, `DoubtInv`),
and nobody else can change those rows meanwhile (`UsersLockInv`, with `RowLockInv` for `auth`).

### Migrations

A process is a server (`main.ts`) or a command (`cli.ts`); `source[p]` tells which of its two
initializations it is in (a server's two application contexts, a command's data
source and then the command itself). `schema` is the set of tables and administrator's
rows there are, `history` the set of migrations in `migrations_history`.

| code | actions |
|---|---|
| `bootstrap`, restart by the container | `Start`; `Ready` between the two contexts |
| TypeORM's `executePendingMigrations`, with `migrationsRun` and one transaction for all | `CheckHistory`, `CreateHistory` (outside the transaction), `Load`, `Record`, `Commit` |
| `up()` and `down()` of the four migrations | `Up`, `Down` |
| `undoLastMigration` | the same actions, when `Undoing` |
| a statement that fails because another process was first, `process.exit(1)` | `Lose` |
| any other failure; a killed process; the server alone | `Fail`; `Crash`; `Reap`, `LateCommit` |

`work[p]` is what a transaction has done and not committed. The statements of two
processes meet at keys, names and table locks: `UpAwaits` and `DownAwaits` say when
one waits for the other, `UpFails` and `DownFails` when it fails after that.
`undone[p]` and `overlapped` are history variables: whether something was undone since
the process began, and whether an undo has begun while another was in
progress (`UndoInProgress`; it is in progress until the server has ended its transaction).
`MigrationsUndo` adds another, `found[p]`: what the history held when the process began.

The code undoes the migration that was executed last, the row of `migrations_history` with the
greatest id. The model keeps no ids. Until two undos overlap, migrations are recorded in their order
and only the last is erased, so `ToUndo` is exact: the highest. After an overlap the orders may
differ ({1, 2, 4}, then 3 again: the last executed is 3), and `ToUndo` allows any migration of
the history. All that is checked and proved of the time after an overlap holds of this wider choice.

### DefaultModel, FilterModel, Configuration

`DefaultModel` keeps the proxies apart from the arrays their lists of default
properties are: `list[m]` is the array model `m` writes, `asks[m]` the one its
`isDefaultProperty` closure reads. They differ for a clone, since `cloneDeep` copies
the array and not the closure: the clone's `isDefaultProperty` answers for the original. Nothing
calls the function yet, and `ListedAreDefaults` says nothing of a clone's.
`FilterModel` checks `addSortBy` against a definition over the history of its calls.
`Configuration` enumerates every setting of three variables in the file and in the
process: the name of the key file, which is required, and the two bounds of the pool, which
are numbers. `PoolMax` follows `pg-config.service.ts`, which writes the key `max` in the
spread for the minimum too: the pool is as large as DB_PG_MIN says when DB_PG_MAX is
missing, 0 or negative. `PoolNotEmpty` is what `UsersRepository` assumes of `PoolSize`.

## What TLC checks

Every run has the administrator `a0` and two further ids, the usernames `admin`
and `bob` (`repository` has `carol` too, who differs from bob in password and role), and callers
or requests as below. Two callers suffice for every
race the code has, since an operation meets another at one row, one username or
one connection; three are used where two may block a third. Three ids let one
user be deleted and its username be taken again. Two passwords, names and roles
tell "changed" from "kept". `Faults` selects what may fail; `PoolSize` bounds the
connections.

| run | instance | shows |
|---|---|---|
| `repository` | 2 callers, pool 2, `AllCalls`, all faults | the administrator is safe (`AdminProtected`); live usernames are unique; a user has both rows or none (`CreatedTogether`); connections come back clean; username and salt never change; a deletion deletes both rows (`DeletesBoth`); a user's two rows part only in the step that ends the transaction of an update of this user (`OnlyUpdatesPart`); a deletion is final once no update is left that had found the user before (`DeletionFinal`); while calls on a user overlap, its role and password are what its row held when they began or what one of them asks for (`OnlyAskedFor`, over the history of `UsersOverlap`); callers never wait in a circle (`NoWaitCycle`), and who waits for nobody can go on (`GoesOn`); the repository implements `UsersStore` (`StoreSpec`); the invariants behind the proofs, `IInv` and `StoreInv` |
| `repository_sequential` | 1 caller, `OneUser`, all faults | what holds of calls that do not overlap: `LivePairing`, `CountMatchesList`, `RoleChangesOnRequest`. A call begins when the server has ended the transaction of the one before. `SequentialIInv` is the invariant behind the proofs |
| `service` | 3 requests, pool 2, two salts, failing statements, crashes | `PasswordMatchesSalt`; `CreateTellsTheTruth`: a `create()` that returns a user has stored it, one that returns an error has stored nothing; `RepositorySpec`: the service implements what the repository's specification assumes of its callers; `ServiceIInv`, the invariant behind the proofs |
| `api` | 3 messages, pool 2, broken connections, crashes | `StatusTellsTheTruth`: a status marked operational means that nothing was changed nor ever will be; OK to a creation means it is stored; `ApiInv`, the invariant behind the proof |
| `api_liveness` | 2 messages, pool 1, broken connections, crashes | every admitted message is answered (`Replied`) |
| `service_contention` | 3 requests, pool 2, no faults | every request is answered (`Answered`) when requests block each other at a row, a username and the pool |
| `migrations` | a server, a shell that runs and undoes, a shell that serves and undoes; an empty database, 3 troubles | `TablesRecorded`: the history tells which tables there are, whatever overlaps; `HistoryAgrees`: the history is a beginning of the list and the schema exactly what it makes; `ServesComplete`: who serves has everything, the `Init` of `UsersRepository`; `SecondIsIdle`; `AllOrNothing`; the invariant behind them, `MigrationsInv`; every server serves for good in the end (`ServersServe`) |
| `models` | 3 default models, 2 properties; 4 calls of a filter; all environments of 3 variables | clones and originals do not disturb each other's lists (`ListedAreDefaults`, `UnlistedAreGiven`); `SortIsOfFirstAndLast`, `ConditionNeverReplaced`; what is used of the environment was validated (`ReadsAreValid`); `PoolNotEmpty` |
| `finding_lost_update`, `finding_half_deleted`, `finding_count` | 2 callers, pool 2, no faults | the disagreements below |
| `finding_undo` | one command, run again and again | the fourth disagreement |

`migrations` has two processes that may serve, which is what a race takes, and two that may
undo, so that undos overlap each other and a start. `MaxTroubles` bounds failures, crashes and
undos together: three let two undos meet a crash while a server restarts. Deadlock is not checked there, since
nothing need happen once all serve, nor in `models`, whose behaviours end.
`models` has a value for every case the code tells apart: absent, empty, no
number, negative, zero, positive. Three models are an original, a clone, and a clone of it.

In `repository` the pool has a connection for each caller, so that every race at a row or a
username can happen; there nobody waits for the pool. `api_liveness` has a pool of one, and
`NoDeadlock` proves `NoWaitCycle` for every pool. `service_contention` asks whether requests that
block each other are all answered and has no faults; that a request whose client or connection
is lost blocks nobody for ever is what `api_liveness` asks.

The safety runs with several callers use their symmetry, which no action
breaks; the liveness runs do not. A crash ends every call in progress, so the
model is one process that is restarted; calls of several processes differ from it
only in not sharing a pool. `CreateTellsTheTruth` promises
something of errors only where no connection breaks, so its run has no broken
connections: after a lost COMMIT an error may well mean that the user was
stored. `repository` and `api` cover that case for everything else. Every property has a seeded bug (operators marked so
in the modules) that TLC must find.

Liveness assumes weak fairness of each request's steps in the controller, the
service and the repository (the event loop resumes every promise that is settled, the pool
serves its waiting clients in order, the database goes on with a statement
whose locks are free) and of the server's end of abandoned transactions
(TCP keepalive). Nothing obliges a request to come, or a fault to happen.
For `ServersServe` it assumes the same of the processes' steps, and that a server that
has exited is started again (`restart: always` in `docker-compose.yml`); of a command
nothing is assumed.

### Disagreements found

1. **Lost update** (`finding_lost_update`). Two updates of one user, one of the
   role and one of the password. Both read the user; the first commits; the
   second's `save()` sees that its role differs from the row and writes the old
   one back (`users-pg.repository.ts:163`).
2. **Half deleted** (`finding_half_deleted`). An update of a user read before a
   deletion commits after it. `save()` sees the deletion mark differ and clears it
   on the table it writes; the other row stays deleted. If `users` is the one
   that comes back, `_fillModel` throws on its missing `auth` and `getAll()`
   fails for every caller.
3. **Count and list** (`finding_count`). The two queries of `findAndCount` see
   different tables (`users-pg.repository.ts:33`). The claim it contradicts is a thin one: only
   the service's tests say that count and list agree, and they compare what a mock returns.
4. **Undo undoes once** (`finding_undo`). `migration:undo` initializes a data source
   that first runs what is pending (`migrationsRun`), the migration undone before
   included, and then undoes it again (`migration.command.ts:33`). However often
   it is run, one migration is undone, never two.

No document says what overlapping undos should do, so what they break is no disagreement; but
it is worth knowing, and the run `migrations` has them. An undo reads the history
before another commits its own, and sets out to undo what is no longer the last migration:

* The first is about to commit its undo of migration 4; the second loads {1, 2, 3}. A server
  applies 4 again; the second undo drops `users`, with the administrator's row, and erases 3. The
  history is {1, 2, 4}: a later start makes the table again and never the row, and serves without it.
* A history can also lack 4 while the row it inserts is there: every later start fails on the key.

What survives is `TablesRecorded`: history and tables agree always, and a start that succeeds
finds both tables (`ServesComplete`). The rest holds until two undos overlap, and each
property says so by `overlapped`.

The first two are the price of saving whole entities read outside the
transaction. That `AdminProtected`, `UniqueLiveUsername` and `IdentityImmutable`
hold nevertheless is less obvious than it looks, and it is what is proved.

## What TLAPS proves

`UsersRepositoryProofs` proves, for any finite set of ids and any callers, calls,
faults and pool size:

| theorem | property |
|---|---|
| `TypeCorrect` | `[]TypeOK` |
| `AdminSafe` | `[]AdminProtected` |
| `UsernameUnique` | `[]UniqueLiveUsername` |
| `UserWhole` | `[]CreatedTogether` |
| `PoolClean` | `[]ConnectionsReturned` |
| `IdentityKept` | `IdentityImmutable` |
| `NoDeadlock` | `[]NoWaitCycle` |

They rest on assumptions on the constants alone (`IdAssumption`,
`AdminAssumption`, `NoneAssumption`, `CallsAssumption`; TLC evaluates them in
every run) and on one theorem, `Invariance`: `Spec => []IInv`.

None of the properties is inductive by itself. `IInv` (module
`UsersRepositoryInv`) adds what they depend on:

* `StageInv`: which operation may stand at which `await`, with which id;
* `EntityInv`: an entity in memory comes from a row that is still there and has
  the same username and salt, so `save()` finds at most the password, the role
  and the deletion mark different;
* `TransactionInv`: connection, transaction and stage agree, and only an open
  transaction has row versions;
* `HeldInv`: which locks an operation holds at each stage, `auth` before `users`. Who waits holds no row
  of `users`, so in a circle nobody waits for one; who waits for `auth` holds none of it, so nobody
  waits there either; and who waits for a connection has none, so nothing is left to wait for;
* `VersionInv`, `WholeInv`: a version keeps its row's username and salt; a
  transaction that may commit leaves both rows;
* `CreatorInv`: an id without rows belongs to the one `create()` that drew it;
* `RowLockInv`: no two versions of one row of `auth`;
* `ClaimInv`: a live version's username belongs to no other live row or version.
  This is what the index buys, through an update's revival of a deleted row too;
* `AdminInv`: whoever works on the administrator's id and has passed the check
  is an update that leaves the role admin, on entities that are not deleted. The
  check before the transaction is enough because nobody can get past it with
  anything else, so the row cannot change under it either.

The proof has a lemma for every part that says a step keeps it, with one step
for each group of actions, and lemmas for what the operators on rows keep
(`UpdateAuthColumns`, `DiffAuthColumns`, `SoftDeletedAuth`, `AssignedAuth`, `RowPut`).

`MigrationsProofs` proves, for any number of processes, servers and commands, and any
number of undos, failures and crashes:

| theorem | property |
|---|---|
| `MigrationsTypeCorrect` | `[]MigrationsTypeOK` |
| `MigrationsKeptApart` | `[]MigrationsInv` |
| `TablesTold` | `[]TablesRecorded` |
| `HistoryTrue` | `[]HistoryAgrees` |
| `ServesAll` | `[]ServesComplete` |
| `SecondFindsAll` | `[]SecondIsIdle` |
| `AppliedAllOrNothing` | `AllOrNothing` |

`MigrationsInv` has two halves. `AlwaysInv` holds whatever overlaps: one transaction at a time
makes or drops a table, because the others wait for its name or its lock (`TableLockInv`), and it records or
erases exactly that (`RecordInv`); this makes `TablesRecorded` inductive. `FirstInv` and
`SecondInv` say what the first initialization has yet to do and what it leaves for the second.

`OneAtATime` holds until two undos overlap. Its heart is `Alone`: at most one transaction has changed anything,
although the code takes no lock. It holds because whoever applies migrations has first
inserted the first object that is missing (`Applying`): another process that read the same history waits for
that key and fails, and one that read an older history fails on what is there. An
undo comes after an initialization, so the history is complete when it looks
(`TodoInv`), and stays so, since only another undo could change that (`OneUndo`). `BaseInv` follows:
the history is empty, all, or all but the last. Each action has a lemma that says it keeps the
invariant; `QuietStep` serves all but COMMIT, `InstallChanges` is about COMMIT.

### The refinement of UsersStore

`UsersStoreProofs` proves, for the same instances as `UsersRepositoryProofs`:

| theorem | property |
|---|---|
| `StoreInvariance` | `[]StoreInv` |
| `DeletesBothRows` | `DeletesBoth` |
| `OnlyUpdatesPartRows` | `OnlyUpdatesPart` |
| `DeletedForGood` | `DeletionFinal` |
| `ImplementsStore` | `StoreSpec` |

`StoreInv` is inductive together with `IInv`. A step of one call must keep the others' parts of
it: `Frame` says a step leaves everything alone that belongs to other calls, `LockedRows` that
it leaves the committed rows alone of which another transaction has versions. That needs
`UsersLockInv`: no two transactions have versions of one row of `users`, as `RowLockInv` says for `auth`.

The tables change only in `Commit` and `LateCommit` (`ActTables`, `ChangeIsCommit`), and by
`ProgressInv` and `DoubtInv` the versions they install are what a call makes of the rows
(`Outcome`). `EffectStep` puts this into one statement, from which `DeletesBoth` and
`OnlyUpdatesPart` follow. `DeletionFinal` bounds the second disagreement above: no call that begins
after a deletion brings the user back, since it cannot find both rows
(`NoRevival`), and no other call may take over the id (`BuriedStays`). In the refinement a call begins and ends as one of the store (`CallStep`), reads
answer it (`ReadStep`, `ListStep`), COMMIT is its write (`CommitStep`), a failure refuses it
(`RefuseStep`, `FailStep`), a connection lost at COMMIT leaves its write (`DoubtStep`), which the server
applies or drops (`LateStep`, `ReapStep`), a crash is `Restart` (`RestartStep`), and every other
step is a stutter (`InnerStep`). `AskedWrite` is the heart: the versions that a COMMIT installs,
late or not, are then still a write that the call may make. `LeftStays` says that nobody else
disturbs a write that is left.

### Calls that do not overlap

`UsersSequentialProofs` proves the three properties that the first three disagreements
refute in general, under `Sequential`: there is one caller at a time. Connections may still break, and the
process may still end with a COMMIT on its way.

| theorem | property |
|---|---|
| `SequentialInvariance` | `[]SequentialIInv` |
| `LivePaired` | `[]LivePairing` |
| `CountTrue` | `[]CountMatchesList` |
| `RoleRequested` | `RoleChangesOnRequest` |

`SequentialIInv` says what concurrency takes away: what an operation has in memory is what the
rows still hold (`SeenInv`, `ReadInv`), hence a COMMIT, however late, leaves both
rows of a user live or both deleted (`PairedInv`). `RoleChangesOnRequest` says nothing of a
transaction in doubt: the process may have forgotten what its call was.

### Calls that overlap

`UsersOverlapProofs` proves, for any number of callers, what overlapping calls leave of that:

| theorem | states |
|---|---|
| `PairedUnlessUpdated` | if no call updates a user, its rows are always live or deleted together |
| `PairedUnlessDeleted` | if no call deletes a user, the same |
| `OnlyAsked` | `[]OnlyAskedFor`, of `OverlapSpec` |

Together with `DeletedForGood` the first two say how narrow the second disagreement is: it takes an update and a deletion
of one user, and the update must have found the user before. `OnlyAsked` bounds the first: `save()`
writes back a role or a password that its caller did not ask for, but nothing older than the overlap and
nothing of another user's. `given[i]` is the history this needs: what the row of `i` held when the
first of the calls now at work on it began, and what each creation and update of `i` that was really
called since asks for; when nobody works on `i` it starts afresh. It restricts no step
(`HistoryOnly`). `AskedInv` says the same of what is in memory and in transactions.

### The service

`UsersServiceProofs` proves, for any requests, salts and number of callers:

| theorem | property |
|---|---|
| `CreateTruthful` | `[]CreateTellsTheTruth` |
| `ServiceTypeCorrect` | `[]ServiceTypeOK` |
| `ServiceDrivesRepository` | `RepositorySpec` |
| `ServiceIInvariance` | `[]ServiceIInv` |
| `PasswordsSalted` | `[]PasswordMatchesSalt` |

* `FateInv` is about creations: an id is drawn by one of them only (`DrawnInv`), so what stands
  in its rows is this creation's doing, and its result is true of them
  (`CreationInv`). Where connections do not break, a transaction keeps its own (`KeptInv`).
* `ProtocolInv` says what the service waits for: it makes one call at a time, and
  only calls that its request allows. Therefore every behaviour of the service is
  one of `UsersRepository` (`ServiceDrivesRepository`), and every theorem
  about the repository is one about the service.
* `SaltsInv` follows the salt: what `getById()` returns carries the salt of the row
  (`ReadSalted`), the hash that `update()` is called with is made with it
  (`CallSalted`), and an entity in memory is as consistent as its row
  (`MemorySalted`). The row cannot get another salt meanwhile: that is `IdentityKept`.

### The API

`GrpcApiProofs` proves, with any faults:

| theorem | property |
|---|---|
| `ApiInvariance` | `[]ApiInv` |
| `ApiTypeCorrect` | `[]ApiTypeOK` |
| `StatusTruthful` | `[]StatusTellsTheTruth` |
| `SystemImplementsStore` | `StoreSpec` |
| `SystemSafe` | `[]` of `AdminProtected`, `UniqueLiveUsername`, `CreatedTogether`, `PasswordMatchesSalt` and `NoWaitCycle` |

`ApiServes` shows that the API drives the service as `ServiceSpec` allows, so the invariants
of all three layers may be used. `WorkInv` says that a message changes nothing before its call
commits, and that a result tells whether it has (`Told`); `StatusInv` that a status is made of that
result, of a refusal before the work, or of a lost connection. That a call's
transaction is over when it returns without an error is what needs the repository's
invariants: `NoTransaction`, `EndIsNear`.

The last two compose the layers: a behaviour of the API is one of the service (`ApiServes`), and that is one of
the repository (`ApiDrivesRepository`), so the system with all its clients implements
`UsersStore`, and what is proved of the parts holds of it.

### The models

`ModelsProofs` proves, for any properties, models and paths, any number of calls, and any texts in the environment, numerals of any integers among them:

| theorem | property |
|---|---|
| `ModelTypeCorrect` | `[]ModelTypeOK` |
| `ListedDefaults` | `[]ListedAreDefaults` |
| `UnlistedGiven` | `[]UnlistedAreGiven` |
| `SortOrder` | `[]SortIsOfFirstAndLast` |
| `ConditionStays` | `ConditionNeverReplaced` |
| `ValidReads` | `[]ReadsAreValid` |
| `PoolFilled` | `[]PoolNotEmpty` |

For the default models, `ModelIInv` adds that every model writes a list of its own (`ListsInv`).
For the sort order, `SortIInv` adds that the calls for a path have a first and a last one (`EndsInv`):
it is what induction would give, stated as an invariant, since induction over
the length of a sequence is out of the prover's reach. For the same reason
`FilterModel` defines what is found in a sequence by the set of its indexes.
TLC has checked both invariants on the instance of `models`; the run lists what they are for. `PoolFilled`
goes by cases on which of the two bounds is a positive numeral.

### What the proofs assume, and what is left to TLC

The theorems assume of the constants what the modules state as ASSUME: ids are finitely many, the
administrator's id and name are among the ids and names (`IdAssumption`, `AdminAssumption`);
`None` is no value of any type (`NoneAssumption`); calls and requests are those that
pass the types and the validation (`CallsAssumption`, `RequestsAssumption`); defaults are properties
(`DefaultsAssumption`); every variable may be absent, and the pool's default size is positive
(`SettingAssumption`); a numeral is neither an absent nor an empty text, and its value an integer
(`NumeralAssumption`). TLC evaluates all of them. Beyond that only `Sequential` is assumed, in
`UsersSequentialProofs`.

Model-checked only are `Replied`, `Answered` and `ServersServe`, which are liveness under
fairness, and `GoesOn`, which is about ENABLED: the prover handles neither. The type invariants
`TypeOK`, `ServiceTypeOK`, `ApiTypeOK` and `ModelTypeOK` are proved and are not properties of a run
by themselves (`IInv`, `ServiceIInv` and `ApiInv` contain the first three). `AskedInv`, too, is proved
and not listed in a run; TLC has checked it on the instance of `repository`. The disagreements are
counterexamples, which is TLC's to find.

## Not modelled

* Time stamps, their time zone (`date-time.ts`) and the order of lists; lengths, ranges and formats of
  fields; the contents of tokens and messages; logging.
* `users.pb.ts` is generated from the protocol file and declares types only; the modules
  (`*.module.ts`) wire providers together and have no behaviour of their own
  but the connection, which is in `Configuration` and `Migrations`.
* The remaining variables of the environment are read and checked like the
  three of `Configuration`.
* Default models of nested objects: no model of this repository has one. An assignment of an object
  is modelled, since it takes another branch.

## Plan

Done: every component that has state of its own is modelled, every safety property of a run is
proved except `GoesOn`, and the layers are composed. What is left: `RoleChangesOnRequest` for several
callers of whom no two update one user at a time, which is still proved for one caller only; and a
model of the time stamps, if the order of lists is ever to be relied on.
