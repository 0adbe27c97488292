------------------------- MODULE UsersSequentialInv -------------------------
(***************************************************************************)
(* UsersRepository when its calls do not overlap, and the invariant that   *)
(* what holds of it then rests on: what an operation has in memory is what *)
(* the rows still hold.                                                    *)
(***************************************************************************)
EXTENDS UsersStoreRefinement

\* One call at a time; the transaction of a call whose connection is lost is
\* ended before the next call begins.
Sequential == \A r, o \in Caller : r = o

\* Stages at which update() and delete() have entities and have not committed.
Preparing == FindStages \union BeforeCommit

\* The rows that were found live are live, and an entity has the role of its
\* row or the one that is asked for.
SeenInv(r) ==
  pc[r] \in Preparing /\ arg[r].op \in {"update", "delete"} =>
    /\ authRow[r] # None =>
         IsLive(auth[id[r]]) /\ authRow[r].role \in {auth[id[r]].role, arg[r].role}
    /\ usersRow[r] # None => IsLive(users[id[r]])
    /\ newAuth[r] # None => newAuth[r].role \in {auth[id[r]].role, arg[r].role}

\* A COMMIT on its way leaves both rows live or both deleted.
PairedInv(r) ==
  tx[r] = "inDoubt" =>
    (IsLive(Defined(newAuth[r], auth[id[r]])) <=>
     IsLive(Defined(newUsers[r], users[id[r]])))

\* What findAndCount has read is what it will count.
ReadInv(r) ==
  pc[r] = "count" /\ conn[r] = "up" =>
    rows[r] = {[id |-> i, auth |-> Find(auth[i]), users |-> users[i]] :
                 i \in LiveUsers}

SequentialIInv ==
  /\ LivePairing /\ CountMatchesList
  /\ \A r \in Caller : SeenInv(r) /\ PairedInv(r) /\ ReadInv(r)
=============================================================================
