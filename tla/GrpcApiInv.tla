----------------------------- MODULE GrpcApiInv -----------------------------
(***************************************************************************)
(* The invariant that the answers to clients rest on: what a message may   *)
(* have done to the tables at each step of its way.                        *)
(***************************************************************************)
EXTENDS GrpcApi, UsersServiceInv

\* A result is true of what a message has done.
Told(r, result) ==
  /\ result.error \in {"readonly", "notFound"} => ~applied[r] /\ tx[r] = "none"
  /\ result.error = "none" =>
       /\ tx[r] = "none"
       /\ CASE req[r].method = "create" -> applied[r]
            [] req[r].method \in {"update", "delete"} ->
                 result.count = 0 => ~applied[r]
            [] OTHER -> ~applied[r]

\* A message changes nothing before its call commits.
WorkInv(r) ==
  /\ step[r] \in {"idle", "getById", "found"} => ~applied[r] /\ tx[r] = "none"
  /\ step[r] = "answer" =>
       /\ arg[r].op = "getAll" => ~applied[r] /\ tx[r] = "none"
       /\ applied[r] => pc[r] = "rollback" \/ Over(r)
       /\ Over(r) => Told(r, ret[r])
  /\ step[r] = "done" => Told(r, reply[r])

\* A status is that of a message refused, answered, or lost.
StatusInv(r) ==
  status[r] # None =>
    \/ step[r] = "idle" /\ status[r] \in {Catch("forbidden"), Catch("unprocessable")}
    \/ /\ step[r] = "done"
       /\ status[r] = IF reply[r].error = "none" THEN Answers("OK", TRUE)
                      ELSE Catch(reply[r].error)
    \/ step[r] \in {"done", "lost"} /\ status[r] = Answers("UNAVAILABLE", FALSE)

ApiInv == ApiTypeOK /\ \A r \in Caller : WorkInv(r) /\ StatusInv(r)
=============================================================================
