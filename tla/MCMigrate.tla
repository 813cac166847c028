----------------------------- MODULE MCMigrate -----------------------------
(* Migrate on small sets, with its symmetry.                               *)
EXTENDS Migrate, TLC

Symmetry ==
    Permutations(Nodes) \cup Permutations(Writes) \cup Permutations(BackupJobs)
============================================================================
