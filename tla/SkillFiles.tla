------------------------------ MODULE SkillFiles ------------------------------
(***************************************************************************)
(* The files the client installs for agents, client/skills.py: the         *)
(* canonical procedures, the shims that point to them and the skills a     *)
(* person accepted.  A file may be edited at any time.  The manifest keeps *)
(* the checksum of what was written, so that an unedited file can be       *)
(* updated or removed and an edited one is kept.  It is loaded before and  *)
(* stored after the file is written, without a lock, by every process that *)
(* installs anything.                                                      *)
(*                                                                         *)
(* One file of one kind.  Its text is a shipped version, an edit or 0 (no  *)
(* file); an edit never has the bytes of a version.                        *)
(***************************************************************************)
EXTENDS Integers

CONSTANTS
  Installers,     \* processes that install, reset or uninstall
  Drafts,         \* the person's texts
  NewestShipped   \* the last version that will be shipped

ASSUME ShippedVersions == NewestShipped \in Nat \ {0}
ASSUME EditsDiffer == \A draft \in Drafts : draft \notin 0..NewestShipped

NoText == 0

VARIABLES
  kind,      \* "canonical", "shim", "accepted"
  text,      \* the file
  record,    \* the manifest's sha256 for it
  flag,      \* the manifest's user_modified: "no", "yes"
  beside,    \* the version of the sidecar, upstream-<version>
  package,   \* the version of the installed package
  step,      \* where each installer stands
  task,      \* "install", "force", "remove", "other"
  ver,       \* the version it ships
  seen,      \* the text, record and flag it loaded
  theirs,    \* what the person last wrote and nobody was asked to replace
  racy       \* whether that was between a look and a write

skillVars == <<kind, text, record, flag, beside, package, step, task, ver, seen, theirs, racy>>

NothingSeen == [text |-> NoText, record |-> NoText, flag |-> "no"]

SkillInit ==
  /\ kind \in {"canonical", "shim", "accepted"}
  /\ text = NoText /\ record = NoText /\ flag = "no" /\ beside = NoText
  /\ package = 1
  /\ step = [i \in Installers |-> "idle"] /\ task = [i \in Installers |-> "install"]
  /\ ver = [i \in Installers |-> 1] /\ seen = [i \in Installers |-> NothingSeen]
  /\ theirs = NoText /\ racy = FALSE

Resets(i) ==
  /\ step' = [step EXCEPT ![i] = "idle"] /\ task' = [task EXCEPT ![i] = "install"]
  /\ ver' = [ver EXCEPT ![i] = 1] /\ seen' = [seen EXCEPT ![i] = NothingSeen]

\* The manifest and the file are read.  "other" is an installer of another file,
\* which carries this file's record in the manifest it loads and stores.
Load(i, what) ==
  /\ step[i] = "idle"
  /\ kind = "accepted" => what \in {"install", "other"}
  /\ step' = [step EXCEPT ![i] = IF what = "other" THEN "store" ELSE "apply"]
  /\ task' = [task EXCEPT ![i] = what]
  /\ ver' = [ver EXCEPT ![i] = package]
  /\ seen' = [seen EXCEPT ![i] = [text |-> text, record |-> record, flag |-> flag]]
  /\ UNCHANGED <<kind, text, record, flag, beside, package, theirs, racy>>

\* What is written over, given what was seen: nothing, the same bytes, what the
\* installer wrote before, or anything under force.
ReplaceableOlder(i) ==
  \/ seen[i].text \in {NoText, ver[i]} \/ task[i] = "force"
  \/ seen[i].record # NoText /\ seen[i].record # ver[i]
Replaceable(i) ==
  \/ seen[i].text \in {NoText, ver[i]} \/ task[i] = "force"
  \/ seen[i].record = seen[i].text

Removable(i) ==
  /\ seen[i].text # NoText /\ seen[i].record = seen[i].text
  /\ kind = "canonical" => seen[i].flag = "no"

\* install, reset, install_shim, write_skill: the file.
Put(i) ==
  /\ step[i] = "apply" /\ task[i] \in {"install", "force"} /\ Replaceable(i)
  /\ text' = IF seen[i].text = ver[i] THEN text ELSE ver[i]
  /\ theirs' = IF task[i] = "force" /\ seen[i].text # ver[i] THEN NoText ELSE theirs
  /\ beside' = IF seen[i].text \in {NoText, ver[i]} THEN beside ELSE NoText
  /\ step' = [step EXCEPT ![i] = "store"]
  /\ seen' = [seen EXCEPT ![i] = [text |-> ver[i], record |-> ver[i], flag |-> "no"]]
  /\ UNCHANGED <<kind, record, flag, package, task, ver, racy>>

\* An edited file is kept.  Of a canonical one the new version goes beside it,
\* and the manifest says it is edited; of the others nothing is stored.
Keep(i) ==
  /\ step[i] = "apply" /\ task[i] = "install" /\ ~Replaceable(i)
  /\ IF kind = "canonical"
     THEN /\ beside' = IF seen[i].record # ver[i] THEN ver[i] ELSE beside
          /\ step' = [step EXCEPT ![i] = "store"]
          /\ seen' = [seen EXCEPT ![i] =
               [text |-> @.text, flag |-> "yes",
                record |-> IF @.record = NoText THEN ver[i] ELSE @.record]]
          /\ UNCHANGED <<task, ver>>
     ELSE Resets(i) /\ UNCHANGED beside
  /\ UNCHANGED <<kind, text, record, flag, package, theirs, racy>>

\* uninstall, remove_shim.
Unlink(i) ==
  /\ step[i] = "apply" /\ task[i] = "remove" /\ Removable(i)
  /\ text' = NoText
  /\ step' = [step EXCEPT ![i] = "store"]
  /\ seen' = [seen EXCEPT ![i] = NothingSeen]
  /\ UNCHANGED <<kind, record, flag, beside, package, task, ver, theirs, racy>>
LeaveEdited(i) ==
  /\ step[i] = "apply" /\ task[i] = "remove" /\ ~Removable(i)
  /\ Resets(i)
  /\ UNCHANGED <<kind, text, record, flag, beside, package, theirs, racy>>

\* The whole manifest as it was loaded, but for what this installer changed.
StoreManifest(i) ==
  /\ step[i] = "store"
  /\ record' = seen[i].record /\ flag' = seen[i].flag
  /\ Resets(i)
  /\ UNCHANGED <<kind, text, beside, package, theirs, racy>>

KillInstaller(i) ==
  /\ step[i] # "idle"
  /\ Resets(i)
  /\ UNCHANGED <<kind, text, record, flag, beside, package, theirs, racy>>

\* The person edits the file, deletes it, undoes the edit, or the manifest goes.
EditFile(draft) ==
  /\ text' = draft /\ theirs' = draft
  /\ racy' = \E i \in Installers : step[i] = "apply"
  /\ UNCHANGED <<kind, record, flag, beside, package, step, task, ver, seen>>
DeleteFile ==
  /\ text # NoText /\ text' = NoText /\ theirs' = NoText
  /\ UNCHANGED <<kind, record, flag, beside, package, step, task, ver, seen, racy>>
UndoEdit ==
  /\ theirs # NoText /\ record # NoText
  /\ text' = record /\ theirs' = NoText
  /\ UNCHANGED <<kind, record, flag, beside, package, step, task, ver, seen, racy>>
LoseManifest ==
  /\ record # NoText /\ record' = NoText /\ flag' = "no"
  /\ UNCHANGED <<kind, text, beside, package, step, task, ver, seen, theirs, racy>>

Upgrade ==
  /\ package < NewestShipped /\ package' = package + 1
  /\ UNCHANGED <<kind, text, record, flag, beside, step, task, ver, seen, theirs, racy>>

SkillNext ==
  \/ \E i \in Installers :
       \/ \E what \in {"install", "force", "remove", "other"} : Load(i, what)
       \/ Put(i) \/ Keep(i) \/ Unlink(i) \/ LeaveEdited(i) \/ StoreManifest(i) \/ KillInstaller(i)
  \/ \E draft \in Drafts : EditFile(draft)
  \/ DeleteFile \/ UndoEdit \/ LoseManifest \/ Upgrade

SkillSpec == SkillInit /\ [][SkillNext]_skillVars

-----------------------------------------------------------------------------

\* An edit is never overwritten or removed but under --force or a reset the
\* person asked for: not by an upgrade, an uninstall, a killed or an overlapping
\* installer, nor when the manifest is lost ("the plugin never overwrites your
\* edits"); but for an edit between an installer's look and its write.
EditsStay == theirs # NoText => text = theirs \/ racy

=============================================================================
