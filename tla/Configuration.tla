--------------------------- MODULE Configuration ---------------------------
(***************************************************************************)
(* The environment of a process, read twice: envValidate() checks a copy   *)
(* from which empty variables are removed, and the configuration factories *)
(* read the process's own variables, where an empty one means the default. *)
(***************************************************************************)
EXTENDS Integers

CONSTANTS
  Setting,     \* what each variable may be: "absent", "", or a text
  Numeral,     \* the texts that are numerals, with their values
  PoolDefault  \* the size of the pool when the driver is not told

Required == "JWT_PUBLIC_KEY_FILE"
\* The ports and the idle timeout are read and checked like these two.
Number == {"DB_PG_MIN", "DB_PG_MAX"}

IsNumeral(text) == text \in DOMAIN Numeral

Variable == {Required} \union Number

ASSUME SettingAssumption ==
  /\ Variable \subseteq DOMAIN Setting
  /\ \A v \in Variable : "absent" \in Setting[v]
  /\ PoolDefault \in Nat \ {0}

ASSUME NumeralAssumption ==
  /\ DOMAIN Numeral \intersect {"absent", ""} = {}
  /\ \A n \in DOMAIN Numeral : Numeral[n] \in Int

VARIABLES
  stage,       \* "import", then "refused" or "configured"
  file,        \* the variables of the .env file
  env          \* those of the process

configurationVars == <<stage, file, env>>

\* All settings of all variables.
Environment == {e \in [Variable -> UNION {Setting[v] : v \in Variable}] :
                  \A v \in Variable : e[v] \in Setting[v]}

ConfigurationInit ==
  stage = "import" /\ file \in Environment /\ env \in Environment

\* The process's variables go before the file's, also when they are empty.
Merged(v) == IF env[v] # "absent" THEN env[v] ELSE file[v]

\* What is validated.
Checked(v) == IF Merged(v) = "" THEN "absent" ELSE Merged(v)

Valid ==
  /\ Checked(Required) # "absent"
  /\ \A v \in Number : Checked(v) = "absent" \/ IsNumeral(Checked(v))

\* Variables that only the file has become the process's.
EnvValidate ==
  /\ stage = "import"
  /\ stage' = IF Valid THEN "configured" ELSE "refused"
  /\ env' = IF Valid
            THEN [v \in Variable |-> IF env[v] = "absent" THEN Checked(v) ELSE env[v]]
            ELSE env
  /\ UNCHANGED file

\* Seeded bug: ?? instead of ||.
ReadEmpty(v) == env[v]

\* What the factories make of a variable: falsy is absent.
Read(v) == IF env[v] = "" THEN "absent" ELSE env[v]

\* Seeded bug: a number that is set is taken as it is.
PoolMaxAsSet ==
  CASE IsNumeral(Read("DB_PG_MAX")) -> Numeral[Read("DB_PG_MAX")]
    [] OTHER -> PoolDefault

\* Of the two spreads of max the last one wins; the first takes DB_PG_MIN.
PoolMax ==
  LET Positive(v) == IsNumeral(Read(v)) /\ Numeral[Read(v)] > 0
  IN CASE Positive("DB_PG_MAX") -> Numeral[Read("DB_PG_MAX")]
       [] Positive("DB_PG_MIN") -> Numeral[Read("DB_PG_MIN")]
       [] OTHER -> PoolDefault

-----------------------------------------------------------------------------
\* The factories read what was validated, although they read it elsewhere and
\* have their own view of empty variables: no option is a number that is none,
\* and the key file is named when the factory reads it.
ReadsAreValid ==
  stage = "configured" =>
    /\ Read(Required) \notin {"absent", ""}
    /\ \A v \in Number : Read(v) = "absent" \/ IsNumeral(Read(v))

\* A service that starts has a pool with a connection in it, which is what
\* UsersRepository assumes of PoolSize.
PoolNotEmpty == stage = "configured" => PoolMax > 0
=============================================================================
