--------------------------- MODULE MigrationsUndo ---------------------------
(***************************************************************************)
(* Migrations with a history: what migrations_history held when a process  *)
(* began.  The history follows the steps and restricts none.               *)
(***************************************************************************)
EXTENDS Migrations

VARIABLE found   \* for each process, the history it began with

undoVars == <<vars, found>>

FoundStep ==
  found' = [p \in Process |->
              IF pc[p] = "off" /\ pc'[p] # "off" THEN history ELSE found[p]]

UndoSpec ==
  /\ Init /\ found = [p \in Process |-> {}]
  /\ [][Next /\ FoundStep]_undoVars

\* The command migration:undo, with no other process about, leaves fewer
\* migrations than it found.
UndoUndoes ==
  [][\A p \in Process :
       /\ Undoing(p) /\ pc[p] = "commit" /\ tx'[p] = "none" /\ found[p] # {}
       => history' \subseteq found[p] /\ history' # found[p]]_undoVars
=============================================================================
