------------------------------ MODULE MCModels ------------------------------
(***************************************************************************)
(* The parts that work alone, in one run: default models, the filter, and  *)
(* the configuration.  Each behaviour exercises one of them.               *)
(***************************************************************************)
EXTENDS DefaultModel, FilterModel, Configuration

CONSTANTS m1, m2, m3

VARIABLE part

all == <<part, modelVars, filterVars, configurationVars>>

\* The values of the variables when their part is not exercised.
IdleFilter ==
  page = 1 /\ limit = 100 /\ sort = <<>> /\ conditions = <<>> /\ calls = <<>>
IdleConfiguration ==
  /\ stage = "import"
  /\ file = [v \in Variable |-> "absent"] /\ env = [v \in Variable |-> "absent"]

Init ==
  \/ part = "model" /\ ModelInit /\ IdleFilter /\ IdleConfiguration
  \/ part = "filter" /\ ModelInit /\ FilterInit /\ IdleConfiguration
  \/ part = "configuration" /\ ModelInit /\ IdleFilter /\ ConfigurationInit

Next ==
  /\ UNCHANGED part
  /\ \/ part = "model" /\ ModelNext /\ UNCHANGED <<filterVars, configurationVars>>
     \/ part = "filter" /\ FilterNext /\ UNCHANGED <<modelVars, configurationVars>>
     \/ part = "configuration" /\ EnvValidate /\ UNCHANGED <<modelVars, filterVars>>

Spec == Init /\ [][Next]_all

\* The key file is a text; the pool's bounds may be anything.
MCSetting ==
  [v \in Variable |->
     CASE v = "DB_PG_MAX" -> {"absent", "", "text", "-1", "0", "5"}
       [] v = "DB_PG_MIN" -> {"absent", "", "text", "0", "7"}
       [] OTHER -> {"absent", "", "text"}]

\* Negative, zero, positive.
MCNumeral ==
  [n \in {"-1", "0", "5", "7"} |->
     CASE n = "-1" -> -1 [] n = "0" -> 0 [] n = "5" -> 5 [] n = "7" -> 7]
=============================================================================
