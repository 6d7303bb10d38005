------------------------------ MODULE MC_Skills ------------------------------
(***************************************************************************)
(* Instances for TLC of how skills come about: Proposals and SkillFiles    *)
(* (one file and two installers).                                          *)
(*                                                                         *)
(* An accepted proposal is a document of the store; its file is written    *)
(* later by an installer, which reads no proposal.  So a behaviour is      *)
(* about one of them, chosen at its start: of a "review", where one        *)
(* learner proposes from signals and two reviewers compete; of the "runs"  *)
(* of two learners over a growing journal; or of "files".                  *)
(***************************************************************************)
EXTENDS Proposals, SkillFiles, TLC

CONSTANTS l1, l2, v1, v2, edit, loop, i1, i2

VARIABLE part

Symmetric == Permutations({v1, v2}) \union Permutations({i1, i2})

\* Bounds of the two parts of Proposals: one slug each, of the signals or of
\* the journal.
Reviewed ==
  /\ journal' = journal /\ unmuted'[edit] = unmuted[edit]
  /\ learner'[l2] = learner[l2]
Ran ==
  /\ reviewing' = reviewing /\ unmuted' = unmuted
  /\ Len(proposals') <= 1 /\ now' <= 2
  /\ \A l \in Learners : loop \notin learner'[l].todo

PartInit ==
  /\ part \in {"review", "runs", "files"}
  /\ Init
  /\ SkillInit /\ (part = "files" \/ kind = "canonical")

PartSpec ==
  /\ PartInit
  /\ [][UNCHANGED part
        /\ \/ part = "review" /\ Next /\ Reviewed /\ UNCHANGED skillVars
           \/ part = "runs" /\ Next /\ Ran /\ UNCHANGED skillVars
           \/ part = "files" /\ SkillNext /\ UNCHANGED vars]_<<part, vars, skillVars>>
=============================================================================
