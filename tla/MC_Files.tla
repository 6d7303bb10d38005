------------------------------- MODULE MC_Files -------------------------------
(***************************************************************************)
(* Instances for TLC of the programs that rewrite people's files:          *)
(* ContextTrim (one instruction file with an old, a current and a late     *)
(* section), HostSetup and GuidedMigration.                                *)
(*                                                                         *)
(* Each works on files of its own, and none reads what another writes, so  *)
(* a behaviour is about one of them, chosen at its start.                  *)
(***************************************************************************)
EXTENDS ContextTrim, HostSetup, GuidedMigration, TLC

CONSTANTS f1, r1, r2, o1, c1, c2

VARIABLE part

MCOneText == f1 :> {o1, c1, c2}
Symmetric == Permutations({r1, r2})

TrimRests == file = [f \in TrimFiles |-> {}]
SetupRests == host = "codex"
MigrationRests == stored = 0

PartInit ==
  /\ part \in {"trim", "setup", "migration"}
  /\ TrimInit /\ (part = "trim" \/ TrimRests)
  /\ SetupInit /\ (part = "setup" \/ SetupRests)
  /\ MigrationInit /\ (part = "migration" \/ MigrationRests)

PartSpec ==
  /\ PartInit
  /\ [][UNCHANGED part
        /\ \/ part = "trim" /\ TrimNext /\ UNCHANGED <<setupVars, migrationVars>>
           \/ part = "setup" /\ SetupNext /\ UNCHANGED <<trimVars, migrationVars>>
           \/ part = "migration" /\ MigrationNext /\ UNCHANGED <<trimVars, setupVars>>
       ]_<<part, trimVars, setupVars, migrationVars>>
=============================================================================
