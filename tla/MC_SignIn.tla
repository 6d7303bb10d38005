------------------------------ MODULE MC_SignIn ------------------------------
(***************************************************************************)
(* Instances of SignIn and Adoption for TLC.  A sign-in ends with a move   *)
(* of the rows from before it; the move reads which account is signed in   *)
(* and no other state of SignIn, whose commands do not open the store, so  *)
(* each is explored while the other has not begun.                         *)
(***************************************************************************)
EXTENDS SignIn, Adoption

CONSTANTS a, b

\* Bounds: a store of two accounts holds no edges and no documents; two
\* automatic moves overlap in a store without edges and of fewer rows; a person
\* confirms a move only beside another account.
Alone(c) == first[c] = "none" /\ ~ Seen(c) /\ \A m \in Movers : mover[m].into # c
OneAccountOrRowsOnly ==
  \/ (\A c \in Accounts \ {a} : Alone(c)) /\ mover["command"].confirm = "no"
  \/ /\ \A e \in EdgeIds : edges[e].st = "none"
     /\ \A i \in RowIds : rows[i].st # "none" => IsEntity(rows[i].key)

NoEdges == \A e \in EdgeIds : edges[e].st = "none"
Bounded ==
  /\ OneAccountOrRowsOnly
  /\ mover["init"].at = "move" => NoEdges /\ rows[MaxRows].st = "none"

From == [s \in Sessions |-> a]

BothInit == Init /\ from[1] = a /\ AdoptInit

BothSpec ==
  /\ BothInit
  /\ [][\/ AdoptInit /\ Next /\ UNCHANGED adoptVars
        \/ from = From /\ Init /\ AdoptNext /\ Bounded' /\ UNCHANGED vars]_<<vars, adoptVars>>

=============================================================================
