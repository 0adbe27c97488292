---------------------------- MODULE MCMigrations ----------------------------
(***************************************************************************)
(* Migrations with a server and two shells.                                *)
(***************************************************************************)
EXTENDS MigrationsInv, TLC

CONSTANTS s1, shell, shell2

\* The server of a container; a shell with the commands; and one that starts a
\* second server or undoes.
ServerAndShells ==
  [p \in {s1, shell, shell2} |->
     CASE p = s1 -> {"serve"} [] p = shell -> {"run", "undo"}
       [] p = shell2 -> {"serve", "undo"}]
=============================================================================
