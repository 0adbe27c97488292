-------------------------- MODULE MCMigrationsUndo --------------------------
(***************************************************************************)
(* MigrationsUndo with one shell that undoes, again and again.             *)
(***************************************************************************)
EXTENDS MigrationsUndo

CONSTANT shell

UndoAlone == [p \in {shell} |-> {"undo"}]
=============================================================================
