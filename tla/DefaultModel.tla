---------------------------- MODULE DefaultModel ----------------------------
(***************************************************************************)
(* Default models: a model that remembers, in a list of its own, which of  *)
(* its properties nobody has assigned yet.  A proxy takes a property off   *)
(* the list when it is assigned; a clone is a proxy over a deep copy.      *)
(* Properties are the scalar ones of UsersModel, so proxies of nested      *)
(* objects do not occur.                                                   *)
(***************************************************************************)
EXTENDS FiniteSets

CONSTANTS
  Model,       \* the proxies there may be, each with an array it may make
  Property,
  Defaults,    \* the properties getDefaultModel() gives a value
  NoModel      \* the array of a model that does not exist

ASSUME DefaultsAssumption == Defaults \subseteq Property /\ NoModel \notin Model

\* What a property may hold: nothing, the value it got as a default, another
\* one, or something whose typeof is 'object' (null, an array, an object).
Value == {"undefined", "default", "given", "object"}

VARIABLES
  value,       \* the properties of the model behind a proxy
  array,       \* the contents of the array a model made
  list,        \* the array that is a model's list of default properties
  asks         \* the array its isDefaultProperty() looks at

modelVars == <<value, array, list, asks>>

ModelTypeOK ==
  /\ value \in [Model -> [Property -> Value]]
  /\ array \in [Model -> SUBSET Defaults]
  /\ list \in [Model -> Model \union {NoModel}]
  /\ asks \in [Model -> Model \union {NoModel}]

ModelInit ==
  /\ value = [m \in Model |-> [p \in Property |-> "undefined"]]
  /\ array = [m \in Model |-> {}]
  /\ list = [m \in Model |-> NoModel]
  /\ asks = [m \in Model |-> NoModel]

Exists(m) == list[m] # NoModel

GetDefaultModel(m) ==
  /\ ~Exists(m)
  /\ value' = [value EXCEPT ![m] =
       [p \in Property |-> IF p \in Defaults THEN "default" ELSE "undefined"]]
  /\ array' = [array EXCEPT ![m] = Defaults]
  /\ list' = [list EXCEPT ![m] = m]
  /\ asks' = [asks EXCEPT ![m] = m]

\* Seeded bug: an assignment leaves the list alone.
SetOnly(m, p, v) ==
  /\ Exists(m)
  /\ value' = [value EXCEPT ![m][p] = v]
  /\ UNCHANGED <<array, list, asks>>

\* For an object the pattern is that of the properties inside it, and the
\* property itself stays on the list.
Set(m, p, v) ==
  /\ Exists(m)
  /\ value' = [value EXCEPT ![m][p] = v]
  /\ array' = [array EXCEPT ![list[m]] = IF v = "object" THEN @ ELSE @ \ {p}]
  /\ UNCHANGED <<list, asks>>

\* Seeded bug: a shallow copy, as BaseModel.clone makes it.
CloneShallow(m, n) ==
  /\ Exists(m) /\ ~Exists(n)
  /\ value' = [value EXCEPT ![n] = value[m]]
  /\ list' = [list EXCEPT ![n] = list[m]]
  /\ asks' = [asks EXCEPT ![n] = asks[m]]
  /\ UNCHANGED array

\* cloneDeep copies the values and the list, but not a function: the clone's
\* isDefaultProperty() is the one of the model it was cloned from.
Clone(m, n) ==
  /\ Exists(m) /\ ~Exists(n)
  /\ value' = [value EXCEPT ![n] = value[m]]
  /\ array' = [array EXCEPT ![n] = array[list[m]]]
  /\ list' = [list EXCEPT ![n] = n]
  /\ asks' = [asks EXCEPT ![n] = asks[m]]

IsDefaultProperty(m, p) == p \in array[asks[m]]

ModelNext ==
  \E m \in Model :
    \/ GetDefaultModel(m)
    \/ \E p \in Property, v \in {"given", "object"} : Set(m, p, v)
    \/ \E n \in Model : Clone(m, n)

-----------------------------------------------------------------------------
\* What was given a value never stays on the list of default properties: not
\* through the model, nor through the one it was cloned from, nor when clone
\* and original are assigned in turn (create() clones and then assigns).  Nor
\* does isDefaultProperty() call it a default, except the one of a clone, which
\* answers for the original.
ListedAreDefaults ==
  \A m \in Model : Exists(m) =>
    \A p \in Property :
      p \in array[list[m]] \/ (asks[m] = list[m] /\ IsDefaultProperty(m, p)) =>
        value[m][p] \in {"default", "object"}

\* What left the list of a model was assigned through it or before it was
\* cloned: assignments to a clone do not reach the list of the original.
UnlistedAreGiven ==
  \A m \in Model : Exists(m) =>
    \A p \in Defaults \ array[list[m]] : value[m][p] # "default"

-----------------------------------------------------------------------------
(***************************************************************************)
(* The invariant these rest on.                                            *)
(***************************************************************************)

\* Every model has a list of its own, and asks one that exists.
ListsInv ==
  \A m \in Model :
    /\ list[m] \in {m, NoModel}
    /\ Exists(m) => asks[m] \in Model /\ Exists(asks[m])

ModelIInv == ModelTypeOK /\ ListsInv /\ ListedAreDefaults /\ UnlistedAreGiven
=============================================================================
