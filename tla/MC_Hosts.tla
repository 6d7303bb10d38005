------------------------------- MODULE MC_Hosts -------------------------------
(***************************************************************************)
(* Instances for TLC of what runs in an agent's process beside its tools:  *)
(* SaveReminders (one host and one Claude Code session), SkillSignals (one *)
(* recorder) and ToolSequences (two sessions that call two tools over      *)
(* three days).                                                            *)
(*                                                                         *)
(* They keep their state in two files, under one lock, but in fields of    *)
(* their own: no step of one reads what another writes.  So a behaviour is *)
(* about one of them, chosen at its start; reminders that rest have begun  *)
(* nothing, so their fairness asks nothing.                                *)
(***************************************************************************)
EXTENDS SaveReminders, SkillSignals, ToolSequences, TLC

CONSTANTS h1, c1, b1, s1, s2, a, b

VARIABLE part

MCNames == a :> "edit" @@ b :> "bash"

PartInit ==
  /\ part \in {"reminders", "signals", "sequences"}
  /\ Init /\ SignalInit /\ SequenceInit

PartSpec ==
  /\ PartInit
  /\ [][UNCHANGED part
        /\ \/ part = "reminders" /\ Next /\ UNCHANGED <<signalVars, sequenceVars>>
           \/ part = "signals" /\ SignalNext /\ UNCHANGED <<vars, sequenceVars>>
           \/ part = "sequences" /\ SequenceNext /\ UNCHANGED <<vars, signalVars>>
       ]_<<part, vars, signalVars, sequenceVars>>
  /\ Fairness

=============================================================================
