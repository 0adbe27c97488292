---------------------------- MODULE UsersOverlap ----------------------------
(***************************************************************************)
(* UsersRepository with a history: what may be written to a user's auth    *)
(* row while calls for this user overlap.  The history follows the steps   *)
(* and restricts none.                                                     *)
(***************************************************************************)
EXTENDS UsersRepositoryInv

VARIABLE given   \* for each id, the roles and passwords its user was given

overlapVars == <<vars, given>>

\* What a row holds, or a call asks for: None is "leave it as it is".
Grant(source) == [role |-> source.role, password |-> source.password]

Held(i) == IF auth[i] = None THEN {} ELSE {Grant(auth[i])}

\* Nobody works on i, not even a transaction the process has forgotten.
Quiet(i) == \A r \in Caller : id[r] # i

\* The creation and the updates of i whose call begins in this step.
Begun(i) ==
  {r \in Caller : /\ pc[r] = "idle" /\ pc'[r] # "idle"
                  /\ id'[r] = i /\ arg'[r].op \in {"create", "update"}}

\* From the moment the first of the calls now at work on i began: what the row
\* held then, and what each of the calls made since has asked for.
GivenInit == given = [i \in Id |-> Held(i)]

GivenStep ==
  given' = [i \in Id |->
              IF Quiet(i)' THEN Held(i)'
              ELSE given[i] \union {Grant(arg'[r]) : r \in Begun(i)}]

OverlapInit == Init /\ GivenInit
OverlapNext == Next /\ GivenStep
OverlapSpec == OverlapInit /\ [][OverlapNext]_overlapVars

-----------------------------------------------------------------------------
\* Both values of a row or an entity are among the grants.
AskedFor(grants, row) ==
  /\ \E g \in grants : g.role = row.role
  /\ \E g \in grants : g.password = row.password

\* save() writes columns back that nobody has asked it to write (line 163), but
\* only with values that this user's row held when the first of the calls now
\* at work on it began, or that this user's creation or update, really called
\* since, asks for: an update may undo another that overlaps it, but it brings
\* back nothing older, and nothing of another user's.
OnlyAskedFor ==
  \A i \in Id : auth[i] # None => AskedFor(given[i], auth[i])

-----------------------------------------------------------------------------
(***************************************************************************)
(* The invariant behind it.                                                *)
(***************************************************************************)

\* Entities in memory and versions hold only what was given to their user.
MemoryAsked(r) ==
  id[r] \in Id =>
    /\ authRow[r] # None => AskedFor(given[id[r]], authRow[r])
    /\ newAuth[r] # None => AskedFor(given[id[r]], newAuth[r])

\* What a call in progress asks for is recorded.
CallGiven(r) ==
  pc[r] # "idle" /\ arg[r].op \in {"create", "update"} =>
    Grant(arg[r]) \in given[id[r]]

AskedInv == OnlyAskedFor /\ \A r \in Caller : MemoryAsked(r) /\ CallGiven(r)
=============================================================================
