---------------------------- MODULE ModelsProofs ----------------------------
(***************************************************************************)
(* Proofs about the parts that work alone: default models, the filter and  *)
(* the configuration, for every value of the constants.                    *)
(***************************************************************************)
EXTENDS DefaultModel, FilterModel, Configuration, SequenceTheorems, TLAPS

-----------------------------------------------------------------------------
(***************************************************************************)
(* Default models.                                                         *)
(***************************************************************************)
ModelSpec == ModelInit /\ [][ModelNext]_modelVars

\* A model gets its defaults, and a list of them all.
LEMMA GetDefaultModelStep ==
  ASSUME ModelIInv, NEW m \in Model, GetDefaultModel(m)
  PROVE  ModelIInv'
  BY DefaultsAssumption
  DEF ModelIInv, ModelTypeOK, ListsInv, ListedAreDefaults, UnlistedAreGiven,
      IsDefaultProperty, GetDefaultModel, Exists, Value

\* An assigned property leaves its model's list and no other.
LEMMA SetStep ==
  ASSUME ModelIInv, NEW m \in Model, NEW p \in Property,
         NEW v \in {"given", "object"}, Set(m, p, v)
  PROVE  ModelIInv'
  BY DefaultsAssumption
  DEF ModelIInv, ModelTypeOK, ListsInv, ListedAreDefaults, UnlistedAreGiven,
      IsDefaultProperty, Set, Exists, Value

\* A clone starts with the values and the list of its original.
LEMMA CloneStep ==
  ASSUME ModelIInv, NEW m \in Model, NEW n \in Model, Clone(m, n)
  PROVE  ModelIInv'
  BY DefaultsAssumption
  DEF ModelIInv, ModelTypeOK, ListsInv, ListedAreDefaults, UnlistedAreGiven,
      IsDefaultProperty, Clone, Exists, Value

\* However models are made, cloned and assigned, and in whatever order.
LEMMA ModelInvariance == ModelSpec => []ModelIInv
<1>1. ModelInit => ModelIInv
  BY DefaultsAssumption
  DEF ModelInit, ModelIInv, ModelTypeOK, ListsInv, ListedAreDefaults,
      UnlistedAreGiven, Exists, Value
<1>2. ModelIInv /\ [ModelNext]_modelVars => ModelIInv'
  <2>1. ModelIInv /\ UNCHANGED modelVars => ModelIInv'
    BY DEF ModelIInv, ModelTypeOK, ListsInv, ListedAreDefaults,
           UnlistedAreGiven, IsDefaultProperty, Exists, modelVars
  <2>2. QED
    BY <2>1, GetDefaultModelStep, SetStep, CloneStep DEF ModelNext
<1>3. QED
  BY <1>1, <1>2, PTL DEF ModelSpec

\* Models, arrays and lists keep their types.
THEOREM ModelTypeCorrect == ModelSpec => []ModelTypeOK
  BY ModelInvariance, PTL DEF ModelIInv

\* What was given a value never stays on the list of default properties, not
\* even when clones and originals are assigned in turn.
THEOREM ListedDefaults == ModelSpec => []ListedAreDefaults
  BY ModelInvariance, PTL DEF ModelIInv

\* What left the list of a model was assigned through it or before it was
\* cloned.
THEOREM UnlistedGiven == ModelSpec => []UnlistedAreGiven
  BY ModelInvariance, PTL DEF ModelIInv

-----------------------------------------------------------------------------
(***************************************************************************)
(* The filter.                                                             *)
(***************************************************************************)
FilterSpec == FilterInit /\ [][FilterNext]_filterVars

\* What CHOOSE takes of a set with a least element, and of one with a greatest.
LEMMA LeastIs ==
  ASSUME NEW S \in SUBSET Nat, NEW f \in S, \A j \in S : f <= j
  PROVE  (CHOOSE i \in S : \A j \in S : i <= j) = f
<1>1. \A i \in S : (\A j \in S : i <= j) <=> i = f
  OBVIOUS
<1>2. QED
  BY <1>1

LEMMA GreatestIs ==
  ASSUME NEW S \in SUBSET Nat, NEW l \in S, \A j \in S : l >= j
  PROVE  (CHOOSE i \in S : \A j \in S : i >= j) = l
<1>1. \A i \in S : (\A j \in S : i >= j) <=> i = l
  OBVIOUS
<1>2. QED
  BY <1>1

\* Entries are of paths and orders, in the order as in the history.
LEMMA EntriesTyped ==
  ASSUME EntriesOK
  PROVE  /\ Len(sort) \in Nat /\ DOMAIN sort = 1 .. Len(sort)
         /\ Len(calls) \in Nat /\ DOMAIN calls = 1 .. Len(calls)
         /\ sort \in [1 .. Len(sort) -> [path : Path, mode : SortEnum]]
         /\ \A i \in DOMAIN sort : sort[i].path \in Path /\ sort[i].mode \in SortEnum
         /\ \A k \in DOMAIN calls : calls[k].path \in Path
<1> DEFINE E == [path : Path, mode : SortEnum]
<1>1. sort \in Seq(E) /\ calls \in Seq(E)
  BY DEF EntriesOK
<1>2. /\ Len(sort) \in Nat /\ DOMAIN sort = 1 .. Len(sort)
      /\ Len(calls) \in Nat /\ DOMAIN calls = 1 .. Len(calls)
      /\ sort \in [1 .. Len(sort) -> E] /\ calls \in [1 .. Len(calls) -> E]
  BY <1>1, LenProperties
<1>3. QED
  BY <1>2

\* The first and the last call for a path that was called are calls for it.
LEMMA EndsAreCalls ==
  ASSUME EntriesOK, EndsInv, NEW path \in Path, CallsOf(path) # {}
  PROVE  /\ FirstCall(path) \in CallsOf(path)
         /\ LastCall(path) \in CallsOf(path)
         /\ \A j \in CallsOf(path) : FirstCall(path) <= j /\ j <= LastCall(path)
         /\ CallsOf(path) \subseteq 1 .. Len(calls)
<1>1. CallsOf(path) \subseteq 1 .. Len(calls) /\ Len(calls) \in Nat
  BY DEF EntriesOK, CallsOf
<1>2. PICK f, l \in CallsOf(path) : \A j \in CallsOf(path) : f <= j /\ j <= l
  BY DEF EndsInv
<1>3. CallsOf(path) \in SUBSET Nat
  BY <1>1
<1>4. FirstCall(path) = f
  BY <1>2, <1>3, LeastIs DEF FirstCall
<1>5. \A j \in CallsOf(path) : l >= j
  BY <1>1, <1>2
<1>6. LastCall(path) = l
  BY <1>3, <1>5, GreatestIs DEF LastCall
<1>7. QED
  BY <1>1, <1>2, <1>4, <1>6

\* A path is in the order exactly when it was called for.
LEMMA SortedAreCalled ==
  ASSUME SortIInv
  PROVE  /\ \A i \in DOMAIN sort : CallsOf(sort[i].path) # {}
         /\ \A path \in Path : CallsOf(path) # {} =>
              \E i \in DOMAIN sort : sort[i].path = path
<1>1. {s.path : s \in ToSet(sort)} = {s.path : s \in ToSet(calls)}
  BY DEF SortIInv, SortIsOfFirstAndLast
<1>2. \A i \in DOMAIN sort : \E k \in DOMAIN calls : calls[k].path = sort[i].path
  BY <1>1 DEF ToSet
<1>3. \A k \in DOMAIN calls : \E i \in DOMAIN sort : sort[i].path = calls[k].path
  BY <1>1 DEF ToSet
<1>4. QED
  BY <1>2, <1>3 DEF CallsOf

\* A call becomes the last one for its path, and the first if there was none;
\* the calls for other paths stay what they were.
LEMMA CallsGrow ==
  ASSUME SortIInv, NEW path \in Path, NEW mode \in SortEnum, AddSortBy(path, mode)
  PROVE  /\ EntriesOK'
         /\ EndsInv'
         /\ \A q \in Path : CallsOf(q) # {} => FirstCall(q)' = FirstCall(q)
         /\ \A q \in Path \ {path} : CallsOf(q)' = CallsOf(q) /\ LastCall(q)' = LastCall(q)
         /\ CallsOf(path)' = CallsOf(path) \union {Len(calls) + 1}
         /\ CallsOf(path) = {} => FirstCall(path)' = Len(calls) + 1
         /\ LastCall(path)' = Len(calls) + 1
         /\ \A k \in DOMAIN calls : calls'[k] = calls[k]
         /\ calls'[Len(calls) + 1] = Entry(path, mode)
         /\ DOMAIN calls' = 1 .. Len(calls) + 1
<1> DEFINE n == Len(calls)
           E == [path : Path, mode : SortEnum]
<1>1. EntriesOK /\ EndsInv
  BY DEF SortIInv
<1>2. Entry(path, mode) \in E /\ Entry(path, mode).path = path
  BY DEF Entry
<1>3. n \in Nat /\ DOMAIN calls = 1 .. n
  BY <1>1 DEF EntriesOK
<1>4. /\ calls' \in Seq(E) /\ DOMAIN calls' = 1 .. n + 1
      /\ \A k \in DOMAIN calls : calls'[k] = calls[k]
      /\ calls'[n + 1] = Entry(path, mode)
  BY <1>1, <1>2 DEF EntriesOK, AddSortBy
<1>5. sort' \in Seq(E)
  <2>1. CASE \E i \in DOMAIN sort : sort[i].path = path
    <3>1. sort' = [i \in DOMAIN sort |->
                     IF sort[i].path = path THEN Entry(path, mode) ELSE sort[i]]
      BY <2>1 DEF AddSortBy
    <3>2. sort' \in [1 .. Len(sort) -> E] /\ Len(sort) \in Nat
      BY <1>1, <1>2, <3>1, EntriesTyped
    <3>3. QED
      BY <3>2, SeqDef
  <2>2. CASE ~ \E i \in DOMAIN sort : sort[i].path = path
    BY <1>1, <1>2, <2>2 DEF EntriesOK, AddSortBy
  <2>3. QED
    BY <2>1, <2>2
<1>6. EntriesOK'
  BY <1>1, <1>4, <1>5 DEF EntriesOK, AddSortBy
<1>7. \A q \in Path \ {path} : CallsOf(q)' = CallsOf(q)
  BY <1>2, <1>3, <1>4 DEF CallsOf
<1>8. CallsOf(path)' = CallsOf(path) \union {n + 1}
  BY <1>2, <1>3, <1>4 DEF CallsOf
<1>9. \A q \in Path : CallsOf(q) \subseteq 1 .. n
  BY <1>3 DEF CallsOf
<1>10. CallsOf(path)' \in SUBSET Nat /\ n + 1 \in CallsOf(path)'
  BY <1>3, <1>8, <1>9
<1>11. LastCall(path)' = n + 1
  <2>1. \A j \in CallsOf(path)' : n + 1 >= j
    BY <1>3, <1>8, <1>9
  <2>2. QED
    BY <1>10, <2>1, GreatestIs DEF LastCall
<1>12. ASSUME CallsOf(path) = {}  PROVE FirstCall(path)' = n + 1
  <2>1. \A j \in CallsOf(path)' : n + 1 <= j
    BY <1>3, <1>8, <1>12
  <2>2. QED
    BY <1>10, <2>1, LeastIs DEF FirstCall
<1>13. ASSUME CallsOf(path) # {}  PROVE FirstCall(path)' = FirstCall(path)
  <2>1. /\ FirstCall(path) \in CallsOf(path)'
        /\ \A j \in CallsOf(path)' : FirstCall(path) <= j
    BY <1>1, <1>3, <1>8, <1>9, <1>13, EndsAreCalls
  <2>2. QED
    BY <1>10, <2>1, LeastIs DEF FirstCall
<1>14. \A q \in Path \ {path} : FirstCall(q)' = FirstCall(q) /\ LastCall(q)' = LastCall(q)
  BY <1>7 DEF FirstCall, LastCall
<1>15. EndsInv'
  <2>1. ASSUME NEW q \in Path \ {path}, CallsOf(q)' # {}
        PROVE  \E f, l \in CallsOf(q)' : \A j \in CallsOf(q)' : f <= j /\ j <= l
    BY <1>1, <1>7, <2>1 DEF EndsInv
  <2>2. \E f, l \in CallsOf(path)' : \A j \in CallsOf(path)' : f <= j /\ j <= l
    <3>1. CASE CallsOf(path) = {}
      BY <1>3, <1>8, <3>1
    <3>2. CASE CallsOf(path) # {}
      BY <1>1, <1>3, <1>8, <1>9, <3>2, EndsAreCalls
    <3>3. QED
      BY <3>1, <3>2
  <2>3. QED
    BY <2>1, <2>2 DEF EndsInv
<1>16. QED
  BY <1>4, <1>6, <1>7, <1>8, <1>11, <1>12, <1>13, <1>14, <1>15

\* A path already in the order keeps its place and takes the mode.
LEMMA ReplaceStep ==
  ASSUME SortIInv, NEW path \in Path, NEW mode \in SortEnum, AddSortBy(path, mode),
         \E i \in DOMAIN sort : sort[i].path = path
  PROVE  SortIsOfFirstAndLast'
<1> DEFINE n == Len(calls)
<1>1. /\ EntriesOK /\ EndsInv /\ SortIsOfFirstAndLast /\ n \in Nat
      /\ DOMAIN calls = 1 .. n
      /\ \A i \in DOMAIN sort : sort[i].path \in Path
  BY EntriesTyped DEF SortIInv
<1>2. /\ DOMAIN sort' = DOMAIN sort
      /\ \A i \in DOMAIN sort :
           sort'[i] = IF sort[i].path = path THEN Entry(path, mode) ELSE sort[i]
  BY DEF AddSortBy
<1>3. /\ Entry(path, mode).path = path
      /\ Entry(path, mode).mode = mode
  BY DEF Entry
<1>4. \A i \in DOMAIN sort : sort'[i].path = sort[i].path
  BY <1>2, <1>3
<1>5. {s.path : s \in ToSet(sort')} = {s.path : s \in ToSet(calls')}
  <2>1. ASSUME NEW i \in DOMAIN sort'
        PROVE  \E k \in DOMAIN calls' : calls'[k].path = sort'[i].path
    <3>1. PICK k \in DOMAIN calls : calls[k].path = sort[i].path
      BY <1>2, SortedAreCalled DEF CallsOf
    <3>2. QED
      BY <1>1, <1>2, <1>4, <3>1, CallsGrow
  <2>2. ASSUME NEW k \in DOMAIN calls'
        PROVE  \E i \in DOMAIN sort' : sort'[i].path = calls'[k].path
    <3>1. CASE k = n + 1
      BY <1>2, <1>3, <1>4, <3>1, CallsGrow
    <3>2. CASE k # n + 1
      <4>1. k \in DOMAIN calls /\ calls'[k] = calls[k] /\ calls[k].path \in Path
        BY <1>1, <3>2, CallsGrow, EntriesTyped
      <4>2. CallsOf(calls[k].path) # {}
        BY <4>1 DEF CallsOf
      <4>3. QED
        BY <1>2, <1>4, <4>1, <4>2, SortedAreCalled
    <3>3. QED
      BY <3>1, <3>2
  <2>3. QED
    BY <2>1, <2>2 DEF ToSet
<1>6. ASSUME NEW i \in DOMAIN sort
      PROVE  FirstCall(sort[i].path)' = FirstCall(sort[i].path)
  <2>1. PICK q \in Path : q = sort[i].path
    BY <1>1
  <2>2. FirstCall(q)' = FirstCall(q)
    BY <2>1, CallsGrow, SortedAreCalled
  <2>3. FirstCall(sort[i].path)' = FirstCall(q)'
    BY <1>4, <2>1 DEF FirstCall, CallsOf
  <2>4. QED
    BY <2>1, <2>2, <2>3
<1>7. \A i, j \in DOMAIN sort' :
        i < j => FirstCall(sort[i].path)' < FirstCall(sort[j].path)'
  BY <1>1, <1>2, <1>6 DEF SortIsOfFirstAndLast
<1>8. ASSUME NEW i \in DOMAIN sort'
      PROVE  sort'[i].mode = calls'[LastCall(sort[i].path)'].mode
  <2>1. PICK q \in Path : q = sort[i].path
    BY <1>1, <1>2
  <2>2. LastCall(sort[i].path)' = LastCall(q)'
    BY <1>2, <1>4, <2>1 DEF LastCall, CallsOf
  <2>3. CASE q = path
    BY <1>2, <1>3, <2>1, <2>2, <2>3, CallsGrow
  <2>4. CASE q # path
    <3>1. LastCall(q)' = LastCall(q) /\ LastCall(q) \in DOMAIN calls
      BY <1>1, <1>2, <2>1, <2>4, CallsGrow, SortedAreCalled, EndsAreCalls
    <3>2. sort[i].mode = calls[LastCall(q)].mode
      BY <1>1, <1>2, <2>1 DEF SortIsOfFirstAndLast
    <3>3. QED
      BY <1>2, <2>1, <2>2, <2>4, <3>1, <3>2, CallsGrow
  <2>5. QED
    BY <2>3, <2>4
<1>9. QED
  BY <1>5, <1>7, <1>8 DEF SortIsOfFirstAndLast

\* A path that is not in the order is added at its end: its first call is this
\* one, and all others were called before.
LEMMA AppendStep ==
  ASSUME SortIInv, NEW path \in Path, NEW mode \in SortEnum, AddSortBy(path, mode),
         ~ \E i \in DOMAIN sort : sort[i].path = path
  PROVE  SortIsOfFirstAndLast'
<1> DEFINE n == Len(calls)
           s == Len(sort)
<1>1. /\ EntriesOK /\ EndsInv /\ SortIsOfFirstAndLast /\ n \in Nat /\ s \in Nat
      /\ DOMAIN calls = 1 .. n /\ DOMAIN sort = 1 .. s
      /\ \A i \in DOMAIN sort : sort[i].path \in Path \ {path}
  BY EntriesTyped DEF SortIInv
<1>2. Entry(path, mode).path = path /\ Entry(path, mode).mode = mode
  BY DEF Entry
<1>3. /\ DOMAIN sort' = 1 .. s + 1
      /\ \A i \in DOMAIN sort : sort'[i] = sort[i]
      /\ sort'[s + 1] = Entry(path, mode)
  <2>1. Entry(path, mode) \in [path : Path, mode : SortEnum]
    BY DEF Entry
  <2>2. QED
    BY <1>1, <2>1 DEF AddSortBy, EntriesOK
<1>4. CallsOf(path) = {}
  BY SortedAreCalled
<1>5. {t.path : t \in ToSet(sort')} = {t.path : t \in ToSet(calls')}
  <2>1. ASSUME NEW i \in DOMAIN sort'
        PROVE  \E k \in DOMAIN calls' : calls'[k].path = sort'[i].path
    <3>1. CASE i = s + 1
      BY <1>1, <1>2, <1>3, <3>1, CallsGrow
    <3>2. CASE i # s + 1
      <4>1. i \in DOMAIN sort /\ sort'[i] = sort[i]
        BY <1>1, <1>3, <3>2
      <4>2. PICK k \in DOMAIN calls : calls[k].path = sort[i].path
        BY <4>1, SortedAreCalled DEF CallsOf
      <4>3. QED
        BY <1>1, <4>1, <4>2, CallsGrow
    <3>3. QED
      BY <3>1, <3>2
  <2>2. ASSUME NEW k \in DOMAIN calls'
        PROVE  \E i \in DOMAIN sort' : sort'[i].path = calls'[k].path
    <3>1. CASE k = n + 1
      BY <1>1, <1>2, <1>3, <3>1, CallsGrow
    <3>2. CASE k # n + 1
      <4>1. k \in DOMAIN calls /\ calls'[k] = calls[k] /\ calls[k].path \in Path
        BY <1>1, <3>2, CallsGrow, EntriesTyped
      <4>2. CallsOf(calls[k].path) # {}
        BY <4>1 DEF CallsOf
      <4>3. PICK i \in DOMAIN sort : sort[i].path = calls[k].path
        BY <4>1, <4>2, SortedAreCalled
      <4>4. QED
        BY <1>1, <1>3, <4>1, <4>3
    <3>3. QED
      BY <3>1, <3>2
  <2>3. QED
    BY <2>1, <2>2 DEF ToSet
<1>6. ASSUME NEW i \in DOMAIN sort
      PROVE  /\ FirstCall(sort[i].path)' = FirstCall(sort[i].path)
             /\ FirstCall(sort[i].path) \in 1 .. n
             /\ LastCall(sort[i].path)' = LastCall(sort[i].path)
             /\ LastCall(sort[i].path) \in 1 .. n
  <2>1. PICK q \in Path \ {path} : q = sort[i].path
    BY <1>1
  <2>2. CallsOf(q) # {}
    BY <2>1, SortedAreCalled
  <2>3. FirstCall(q)' = FirstCall(q) /\ LastCall(q)' = LastCall(q)
    BY <2>1, <2>2, CallsGrow
  <2>4. FirstCall(q) \in 1 .. n /\ LastCall(q) \in 1 .. n
    BY <1>1, <2>1, <2>2, EndsAreCalls
  <2>5. sort'[i].path = q
    BY <1>3, <2>1
  <2>6. FirstCall(sort[i].path)' = FirstCall(q)' /\ LastCall(sort[i].path)' = LastCall(q)'
    BY <2>5 DEF FirstCall, LastCall, CallsOf
  <2>7. QED
    BY <2>1, <2>3, <2>4, <2>6
<1>7. PICK z \in Nat : z = s + 1
  BY <1>1
<1>8. FirstCall(sort[z].path)' = n + 1 /\ LastCall(sort[z].path)' = n + 1
  <2>1. sort'[z].path = path
    BY <1>2, <1>3, <1>7
  <2>2. FirstCall(sort[z].path)' = FirstCall(path)' /\ LastCall(sort[z].path)' = LastCall(path)'
    BY <2>1 DEF FirstCall, LastCall, CallsOf
  <2>3. QED
    BY <1>4, <2>2, CallsGrow
<1>9. ASSUME NEW i \in DOMAIN sort', NEW j \in DOMAIN sort', i < j
      PROVE  FirstCall(sort[i].path)' < FirstCall(sort[j].path)'
  <2>1. i \in DOMAIN sort
    BY <1>1, <1>3, <1>9
  <2>2. CASE j = z
    BY <1>1, <1>6, <1>8, <2>1, <2>2
  <2>3. CASE j # z
    <3>1. j \in DOMAIN sort
      BY <1>1, <1>3, <1>7, <2>3
    <3>2. FirstCall(sort[i].path) < FirstCall(sort[j].path)
      BY <1>1, <1>9, <2>1, <3>1 DEF SortIsOfFirstAndLast
    <3>3. QED
      BY <1>6, <2>1, <3>1, <3>2
  <2>4. QED
    BY <2>2, <2>3
<1>10. ASSUME NEW i \in DOMAIN sort'
       PROVE  sort'[i].mode = calls'[LastCall(sort[i].path)'].mode
  <2>1. CASE i = z
    BY <1>2, <1>3, <1>7, <1>8, <2>1, CallsGrow
  <2>2. CASE i # z
    <3>1. i \in DOMAIN sort
      BY <1>1, <1>3, <1>7, <2>2
    <3>2. sort[i].mode = calls[LastCall(sort[i].path)].mode
      BY <1>1, <3>1 DEF SortIsOfFirstAndLast
    <3>3. calls'[LastCall(sort[i].path)] = calls[LastCall(sort[i].path)]
      BY <1>1, <1>6, <3>1, CallsGrow
    <3>4. QED
      BY <1>3, <1>6, <3>1, <3>2, <3>3
  <2>3. QED
    BY <2>1, <2>2
<1>11. QED
  BY <1>5, <1>9, <1>10 DEF SortIsOfFirstAndLast

\* A condition goes behind those there are.
LEMMA ConditionAdded ==
  ASSUME EntriesOK, NEW path \in Path, NEW opr \in Operation, AddCondition(path, opr)
  PROVE  /\ EntriesOK'
         /\ Len(conditions) \in Nat
         /\ DOMAIN conditions = 1 .. Len(conditions)
         /\ DOMAIN conditions' = 1 .. Len(conditions) + 1
         /\ \A i \in DOMAIN conditions : conditions'[i] = conditions[i]
         /\ conditions'[Len(conditions) + 1].path = path
<1> DEFINE C == [path : Path, opr : Operation]
           c == [path |-> path, opr |-> opr]
<1>1. conditions \in Seq(C) /\ c \in C /\ c.path = path
  BY DEF EntriesOK
<1>2. conditions' = Append(conditions, c) /\ sort' = sort /\ calls' = calls
  BY DEF AddCondition
<1> HIDE DEF C, c
<1>3. /\ Len(conditions) \in Nat
      /\ DOMAIN conditions = 1 .. Len(conditions)
      /\ DOMAIN conditions' = 1 .. Len(conditions) + 1
      /\ \A i \in DOMAIN conditions : conditions'[i] = conditions[i]
      /\ conditions'[Len(conditions) + 1] = c
      /\ conditions' \in Seq(C)
  BY <1>1, <1>2
<1>4. EntriesOK'
  BY <1>2, <1>3 DEF EntriesOK, C
<1>5. QED
  BY <1>1, <1>3, <1>4

\* However the filter is extended, the invariant of the order stays.
LEMMA SortInvariance == FilterSpec => []SortIInv
<1>1. FilterInit => SortIInv
  <2> SUFFICES ASSUME FilterInit  PROVE SortIInv
    OBVIOUS
  <2>1. sort = <<>> /\ calls = <<>> /\ conditions = <<>>
    BY DEF FilterInit
  <2>2. EntriesOK
    BY <2>1 DEF EntriesOK
  <2>3. DOMAIN sort = {} /\ DOMAIN calls = {}
    BY <2>1
  <2>4. EndsInv
    BY <2>3 DEF EndsInv, CallsOf
  <2>5. SortIsOfFirstAndLast
    BY <2>3 DEF SortIsOfFirstAndLast, ToSet
  <2>6. QED
    BY <2>2, <2>4, <2>5 DEF SortIInv
<1>2. SortIInv /\ [FilterNext]_filterVars => SortIInv'
  <2> SUFFICES ASSUME SortIInv, [FilterNext]_filterVars  PROVE SortIInv'
    OBVIOUS
  <2>1. ASSUME NEW path \in Path, NEW mode \in SortEnum, AddSortBy(path, mode)
        PROVE  SortIInv'
    BY <2>1, CallsGrow, ReplaceStep, AppendStep DEF SortIInv
  <2>2. ASSUME UNCHANGED <<sort, calls>>, EntriesOK'
        PROVE  SortIInv'
    <3>1. sort' = sort /\ calls' = calls
      BY <2>2
    <3>2. EndsInv' = EndsInv
      BY <3>1 DEF EndsInv, CallsOf
    <3>3. SortIsOfFirstAndLast' = SortIsOfFirstAndLast
      BY <3>1 DEF SortIsOfFirstAndLast, ToSet, FirstCall, LastCall, CallsOf
    <3>4. QED
      BY <2>2, <3>2, <3>3 DEF SortIInv
  <2>3. ASSUME NEW path \in Path, NEW opr \in Operation, AddCondition(path, opr)
        PROVE  SortIInv'
    <3>1. EntriesOK'
      BY <2>3, ConditionAdded DEF SortIInv
    <3>2. QED
      BY <2>2, <2>3, <3>1 DEF AddCondition
  <2>4. ASSUME UNCHANGED filterVars
        PROVE  SortIInv'
    BY <2>2, <2>4 DEF filterVars, SortIInv, EntriesOK
  <2>5. QED
    BY <2>1, <2>3, <2>4 DEF FilterNext
<1>3. QED
  BY <1>1, <1>2, PTL DEF FilterSpec

\* However often and in whatever order a list is sorted by paths: each path is
\* in the order once, at the place of its first call, with the mode of its last.
THEOREM SortOrder == FilterSpec => []SortIsOfFirstAndLast
  BY SortInvariance, PTL DEF SortIInv

\* An added condition takes a path's only one away or leaves it.
LEMMA ConditionKept ==
  ASSUME EntriesOK, [FilterNext]_filterVars, NEW path \in Path, GetCondition(path) # {}
  PROVE  GetCondition(path)' \in {GetCondition(path), {}}
<1>1. CASE conditions' = conditions
  BY <1>1 DEF GetCondition, On
<1>2. ASSUME NEW p \in Path, NEW opr \in Operation, AddCondition(p, opr)
      PROVE  GetCondition(path)' \in {GetCondition(path), {}}
  <2> DEFINE n == Len(conditions) + 1
  <2>1. PICK i \in On(path) : On(path) = {i}
    BY DEF GetCondition
  <2>2. i \in DOMAIN conditions /\ n \notin DOMAIN conditions
    BY <1>2, ConditionAdded DEF On
  <2>3. CASE p = path
    <3>1. {i, n} \subseteq On(path)'
      BY <1>2, <2>1, <2>2, <2>3, ConditionAdded DEF On
    <3>2. QED
      BY <2>2, <3>1 DEF GetCondition
  <2>4. CASE p # path
    <3>1. On(path)' = {i}
      BY <1>2, <2>1, <2>2, <2>4, ConditionAdded DEF On
    <3>2. conditions'[i] = conditions[i]
      BY <1>2, <2>2, ConditionAdded
    <3>3. GetCondition(path) = {conditions[i]} /\ GetCondition(path)' = {conditions'[i]}
      BY <2>1, <3>1 DEF GetCondition
    <3>4. QED
      BY <3>2, <3>3
  <2>5. QED
    BY <2>3, <2>4
<1>3. QED
  BY <1>1, <1>2 DEF FilterNext, AddSortBy, filterVars

\* What getCondition() has answered for a path it answers until a second
\* condition takes the answer away.
THEOREM ConditionStays == FilterSpec => ConditionNeverReplaced
<1>1. SortIInv /\ [FilterNext]_filterVars =>
        [\A path \in Path : GetCondition(path) # {} =>
           GetCondition(path)' \in {GetCondition(path), {}}]_filterVars
  BY ConditionKept DEF SortIInv
<1>2. QED
  BY <1>1, SortInvariance, PTL DEF FilterSpec, ConditionNeverReplaced

-----------------------------------------------------------------------------
(***************************************************************************)
(* The configuration.                                                      *)
(***************************************************************************)
ConfigurationSpec == ConfigurationInit /\ [][EnvValidate]_configurationVars

\* What passes validation is read as it was validated.
LEMMA ReadAsValidated ==
  ASSUME EnvValidate, Valid
  PROVE  /\ Read(Required)' = Checked(Required)
         /\ \A v \in Number :
              Read(v)' = Checked(v)
  BY DEF EnvValidate, Variable, Read, Checked, Merged

\* Whatever the .env file and the environment hold, the factories find the key
\* file named and no number that is none.
THEOREM ValidReads == ConfigurationSpec => []ReadsAreValid
<1>1. ConfigurationInit => ReadsAreValid
  BY DEF ConfigurationInit, ReadsAreValid
<1>2. ReadsAreValid /\ [EnvValidate]_configurationVars => ReadsAreValid'
  <2>1. ASSUME EnvValidate, stage' = "configured"
        PROVE  ReadsAreValid'
    <3>1. Valid
      BY <2>1 DEF EnvValidate
    <3>2. QED
      BY <2>1, <3>1, ReadAsValidated DEF ReadsAreValid, Valid, Checked
  <2>2. QED
    BY <2>1 DEF ReadsAreValid, Read, configurationVars
<1>3. QED
  BY <1>1, <1>2, PTL DEF ConfigurationSpec

\* A service that starts has a connection in its pool.
THEOREM PoolFilled == ConfigurationSpec => []PoolNotEmpty
<1>1. PoolMax > 0
  <2> DEFINE GivesSize(v) == IsNumeral(Read(v)) /\ Numeral[Read(v)] > 0
  <2>1. CASE GivesSize("DB_PG_MAX")
    BY <2>1 DEF PoolMax
  <2>2. CASE ~GivesSize("DB_PG_MAX") /\ GivesSize("DB_PG_MIN")
    BY <2>2 DEF PoolMax
  <2>3. CASE ~GivesSize("DB_PG_MAX") /\ ~GivesSize("DB_PG_MIN")
    BY <2>3, SettingAssumption DEF PoolMax
  <2>4. QED
    BY <2>1, <2>2, <2>3
<1>2. PoolNotEmpty
  BY <1>1 DEF PoolNotEmpty
<1>3. QED
  BY <1>2, PTL DEF ConfigurationSpec
=============================================================================
