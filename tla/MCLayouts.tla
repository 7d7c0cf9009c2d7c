------------------------------ MODULE MCLayouts ------------------------------
(***************************************************************************)
(* The instances of MCMigrator, with the layouts of their accounts.        *)
(***************************************************************************)
EXTENDS MCMigrator, Layouts

==============================================================================
