----------------------------- MODULE FilterModel -----------------------------
(***************************************************************************)
(* FilterModel: the page, the sort order and the conditions a list is      *)
(* asked for.  The order is an array of entries, one for a path.           *)
(***************************************************************************)
EXTENDS Integers, SequencesExt

CONSTANTS
  Path,
  Operation,   \* the operations of conditions
  MaxCalls     \* how many times the filter is extended at most

SortEnum == {"asc", "desc"}

VARIABLES
  page, limit, \* fixed by the constructor
  sort,        \* _sort
  conditions,  \* _conditions
  calls        \* history variable: the calls of addSortBy()

filterVars == <<page, limit, sort, conditions, calls>>

\* 0, negative and missing numbers leave the default.
Positive(given, default) == IF given > 0 THEN given ELSE default

FilterInit ==
  /\ \E given \in -1 .. 2 : page = Positive(given, 1)
  /\ \E given \in -1 .. 2 : limit = Positive(given, 100)
  /\ sort = <<>> /\ conditions = <<>> /\ calls = <<>>

Entry(path, mode) == [path |-> path, mode |-> mode]

\* Seeded bug: an entry with the path is not looked for.
AddSortByAgain(path, mode) ==
  /\ sort' = Append(sort, Entry(path, mode))
  /\ calls' = Append(calls, Entry(path, mode))
  /\ UNCHANGED <<page, limit, conditions>>

\* An entry of the path takes the new mode where it is; else one is added.
AddSortBy(path, mode) ==
  /\ sort' = IF \E i \in DOMAIN sort : sort[i].path = path
             THEN [i \in DOMAIN sort |->
                     IF sort[i].path = path THEN Entry(path, mode) ELSE sort[i]]
             ELSE Append(sort, Entry(path, mode))
  /\ calls' = Append(calls, Entry(path, mode))
  /\ UNCHANGED <<page, limit, conditions>>

AddCondition(path, opr) ==
  /\ conditions' = Append(conditions, [path |-> path, opr |-> opr])
  /\ UNCHANGED <<page, limit, sort, calls>>

FilterNext ==
  /\ Len(calls) + Len(conditions) < MaxCalls
  /\ \/ \E path \in Path, mode \in SortEnum : AddSortBy(path, mode)
     \/ \E path \in Path, opr \in Operation : AddCondition(path, opr)

\* Where the conditions on a path are.
On(path) == {i \in DOMAIN conditions : conditions[i].path = path}

\* Seeded bug: the last of several.
GetConditionLast(path) ==
  {conditions[i] : i \in {k \in On(path) : \A j \in On(path) : j <= k}}

\* The condition on the path, and none unless there is exactly one.
GetCondition(path) ==
  IF \E i \in On(path) : On(path) = {i} THEN {conditions[i] : i \in On(path)} ELSE {}

-----------------------------------------------------------------------------
CallsOf(path) == {i \in DOMAIN calls : calls[i].path = path}
FirstCall(path) == CHOOSE i \in CallsOf(path) : \A j \in CallsOf(path) : i <= j
LastCall(path) == CHOOSE i \in CallsOf(path) : \A j \in CallsOf(path) : i >= j

\* However often and in whatever order paths are sorted by: each path is in
\* the order once, at the place of its first call, with the mode of its last.
SortIsOfFirstAndLast ==
  /\ {s.path : s \in ToSet(sort)} = {s.path : s \in ToSet(calls)}
  /\ \A i, j \in DOMAIN sort :
       i < j => FirstCall(sort[i].path) < FirstCall(sort[j].path)
  /\ \A i \in DOMAIN sort : sort[i].mode = calls[LastCall(sort[i].path)].mode

\* What getCondition() has answered for a path, it answers until a second
\* condition on the path takes the answer away: never with another one.
ConditionNeverReplaced ==
  [][\A path \in Path : GetCondition(path) # {} =>
       GetCondition(path)' \in {GetCondition(path), {}}]_filterVars

-----------------------------------------------------------------------------
(***************************************************************************)
(* The invariant the order rests on: the calls for a path have a first and *)
(* a last one.                                                             *)
(***************************************************************************)
EntriesOK ==
  /\ sort \in Seq([path : Path, mode : SortEnum])
  /\ calls \in Seq([path : Path, mode : SortEnum])
  /\ conditions \in Seq([path : Path, opr : Operation])

EndsInv ==
  \A path \in Path : CallsOf(path) # {} =>
    \E f, l \in CallsOf(path) : \A j \in CallsOf(path) : f <= j /\ j <= l

SortIInv == EntriesOK /\ EndsInv /\ SortIsOfFirstAndLast

=============================================================================
