------------------------------- MODULE MC_Gate -------------------------------
(***************************************************************************)
(* Instances of EntitlementClock and CapGate for TLC.  Every retry         *)
(* interval of the clock is one unit but the denial's; a token lives two   *)
(* and has one more of grace.  Two writers share one store.                *)
(*                                                                         *)
(* The two gates of a write share no state, so a behaviour is about one of *)
(* them, chosen at its start, while the other rests.                       *)
(***************************************************************************)
EXTENDS EntitlementClock, CapGate, TLC

CONSTANTS p1, p2, s1

VARIABLE part

MCOneStore == [p \in {p1, p2} |-> s1]
MCTerms == {NoEnd, 2}

CapRests == pass = "none" /\ cache = [s \in Stores |-> NoEntry]
ClockRests == clock = 0 /\ file.kind = "absent"

PartInit ==
  /\ part \in {"clock", "cap"}
  /\ Init /\ (part = "clock" \/ ClockRests)
  /\ CapInit /\ (part = "cap" \/ CapRests)

PartSpec ==
  /\ PartInit
  /\ [][UNCHANGED part /\ \/ part = "clock" /\ Next /\ UNCHANGED capVars
                          \/ part = "cap" /\ CapNext /\ UNCHANGED vars]_<<part, vars, capVars>>
=============================================================================
