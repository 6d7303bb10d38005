---------------------------- MODULE GuidedMigration ----------------------------
(***************************************************************************)
(* `sibyl migrate`: the instruction and configuration files of the agent   *)
(* hosts are copied to a folder named after the second, each host is wired *)
(* (which rewrites some of the files), the person's agent stores entries   *)
(* while the command waits, and if the store has grown each instruction    *)
(* file may be replaced by a lean one.  People and agents edit the files   *)
(* and write to the store all the while; the command may be killed.        *)
(*                                                                         *)
(* A text is the number of the edit it carries, whether that edit is       *)
(* in it whole, and its size: the command compares sizes, not texts.  One  *)
(* command runs at a time.                                                 *)
(***************************************************************************)
EXTENDS Integers, FiniteSets

CONSTANTS
  HostFiles,
  WiredFiles,    \* those that wiring a host rewrites
  Trimmable,     \* CONTEXT_FILES: never a configuration file
  Sizes,         \* of what people write
  NoCopy,
  LastFolder,    \* bound: seconds of an instance
  MaxRewrites,   \* bound: edits of files
  MaxStored      \* bound: entities

ASSUME MigrationBounds ==
  /\ WiredFiles \subseteq HostFiles /\ Trimmable \subseteq HostFiles
  /\ Sizes \subseteq Nat \ {0, 1} /\ {LastFolder, MaxRewrites, MaxStored} \subseteq Nat
  /\ NoCopy \notin [edit : Nat, whole : {0, 1}, size : Nat]

Seconds == 0..LastFolder
Unreadable == -1   \* DB_UNREADABLE

VARIABLES
  live,          \* file -> its text: [edit, whole, size]
  folders,       \* second -> file -> the copy in that backup folder, or NoCopy
  foldersMade,   \* the backup folders there are
  now,
  stored,        \* entities in the store, or Unreadable
  phase,         \* where the command stands
  folder,        \* bk.backup_dir: the second this run's folder is named after
  todo,          \* files the step has still to go through
  baseline,
  chosen,        \* the file being trimmed
  rewrites,
  excused        \* history: edits lost in ways the command cannot see

migrationVars ==
  <<live, folders, foldersMade, now, stored, phase, folder, todo, baseline, chosen, rewrites, excused>>
worldVars == <<live, now, stored, rewrites>>

MigrationInit ==
  /\ live = [f \in HostFiles |-> [edit |-> 0, whole |-> 1, size |-> 2]]
  /\ folders = [s \in Seconds |-> [f \in HostFiles |-> NoCopy]] /\ foldersMade = {}
  /\ now = 0 /\ stored \in {Unreadable, 0}
  /\ phase = "idle" /\ folder = 0 /\ todo = {} /\ baseline = 0 /\ chosen = NoCopy
  /\ rewrites = 0 /\ excused = {}

GoesTo(to, files) == phase' = to /\ todo' = files
CopyOf(f) == folders[folder][f]

-----------------------------------------------------------------------------
(* The command.                                                             *)
FolderAgain == TRUE
FolderFree == now \notin foldersMade

\* mkdir(exist_ok=False), or nothing is touched.
BeginMigration ==
  /\ phase = "idle"
  /\ IF FolderFree THEN folder' = now /\ foldersMade' = foldersMade \union {now} /\ GoesTo("copy", HostFiles)
     ELSE GoesTo("idle", {}) /\ UNCHANGED <<folder, foldersMade>>
  /\ UNCHANGED <<worldVars, folders, baseline, chosen, excused>>

\* Whatever fails here ends the run with the originals as they were.
Abort ==
  /\ phase = "copy"
  /\ GoesTo("idle", {})
  /\ UNCHANGED <<worldVars, folders, foldersMade, folder, baseline, chosen, excused>>

CopyFile(f) ==
  /\ phase = "copy" /\ f \in todo
  /\ folders' = [folders EXCEPT ![folder][f] = live[f]]
  /\ IF todo = {f} THEN GoesTo("wire", WiredFiles) ELSE GoesTo("copy", todo \ {f})
  /\ UNCHANGED <<worldVars, foldersMade, folder, baseline, chosen, excused>>

\* A wirer adds its block, finds it there, or fails with instructions.
WireFile(f) ==
  /\ phase = "wire" /\ f \in todo
  /\ live' \in {live, [live EXCEPT ![f].size = @ + 1]}
  /\ GoesTo("wire", todo \ {f})
  /\ UNCHANGED <<now, stored, rewrites, folders, foldersMade, folder, baseline, chosen, excused>>

\* An unreadable store ends the run before anything is trimmed.
Baseline ==
  /\ phase = "wire" /\ todo = {}
  /\ IF stored = Unreadable THEN GoesTo("idle", {}) /\ UNCHANGED baseline
     ELSE baseline' = stored /\ GoesTo("extract", {})
  /\ UNCHANGED <<worldVars, folders, foldersMade, folder, chosen, excused>>

\* After the pause, however long.
Grown == stored # Unreadable /\ stored > baseline
CountAgain ==
  /\ phase = "extract"
  /\ IF Grown THEN GoesTo("trim", Trimmable) ELSE GoesTo("idle", {})
  /\ UNCHANGED <<worldVars, folders, foldersMade, folder, baseline, chosen, excused>>

\* The file is read, the lean text made and the question asked; a file without
\* a safe trim is passed over like one declined.
Offer(f) ==
  /\ phase = "trim" /\ f \in todo
  /\ chosen' = f
  /\ GoesTo("ask", todo \ {f})
  /\ UNCHANGED <<worldVars, folders, foldersMade, folder, baseline, excused>>

Reverified(f) == IF CopyOf(f) = NoCopy THEN FALSE ELSE CopyOf(f).size = live[f].size

\* The answer, and with yes the second look at the copy of this file.
AnswerTrim ==
  /\ phase = "ask"
  /\ \/ Reverified(chosen) /\ GoesTo("replace", todo)
     \/ GoesTo("trim", todo)
  /\ UNCHANGED <<worldVars, folders, foldersMade, folder, baseline, chosen, excused>>

\* The sizes are equal, the texts are not.
Hidden(f) == CopyOf(f) # NoCopy /\ CopyOf(f).edit # live[f].edit /\ CopyOf(f).size = live[f].size
LeanSize == 1
Replace ==
  /\ phase = "replace"
  /\ live' = [live EXCEPT ![chosen] = [edit |-> @.edit, whole |-> 0, size |-> LeanSize]]
  /\ excused' = IF Hidden(chosen) THEN excused \union {chosen} ELSE excused
  /\ GoesTo("trim", todo)
  /\ UNCHANGED <<now, stored, rewrites, folders, foldersMade, folder, baseline, chosen>>

Finish ==
  /\ phase = "trim" /\ todo = {}
  /\ GoesTo("idle", {})
  /\ UNCHANGED <<worldVars, folders, foldersMade, folder, baseline, chosen, excused>>

Kill ==
  /\ phase # "idle"
  /\ GoesTo("idle", {})
  /\ UNCHANGED <<worldVars, folders, foldersMade, folder, baseline, chosen, excused>>

-----------------------------------------------------------------------------
(* People, agents, the clock.                                               *)
PersonWrites(f, size) ==
  /\ rewrites < MaxRewrites
  /\ rewrites' = rewrites + 1
  /\ live' = [live EXCEPT ![f] = [edit |-> rewrites + 1, whole |-> 1, size |-> size]]
  /\ excused' = IF phase = "replace" /\ f = chosen THEN excused \union {f} ELSE excused \ {f}
  /\ UNCHANGED <<folders, foldersMade, now, stored, phase, folder, todo, baseline, chosen>>

\* A copy is cut short or lost before the file it stands for is trimmed.
LoseCopy(f) ==
  /\ phase \in {"wire", "extract", "trim", "ask"} /\ CopyOf(f) # NoCopy
  /\ live[f].whole = 1 /\ CopyOf(f).edit = live[f].edit
  /\ folders' \in {[folders EXCEPT ![folder][f] = NoCopy],
                   [folders EXCEPT ![folder][f] = [edit |-> @.edit, whole |-> 0, size |-> 0]]}
  /\ UNCHANGED <<worldVars, foldersMade, phase, folder, todo, baseline, chosen, excused>>

Extract ==
  /\ stored' \in {n \in {stored - 1, stored + 1} : n >= 0 /\ n <= MaxStored}
  /\ UNCHANGED <<live, now, rewrites, folders, foldersMade, phase, folder, todo, baseline, chosen, excused>>

NextSecond ==
  /\ now < LastFolder
  /\ now' = now + 1
  /\ UNCHANGED <<live, stored, rewrites, folders, foldersMade, phase, folder, todo, baseline, chosen, excused>>

MigrationNext ==
  \/ BeginMigration \/ Abort \/ Baseline \/ CountAgain \/ AnswerTrim \/ Replace \/ Finish \/ Kill
  \/ Extract \/ NextSecond
  \/ \E f \in HostFiles : CopyFile(f) \/ WireFile(f) \/ Offer(f) \/ LoseCopy(f)
  \/ \E f \in HostFiles, size \in Sizes : PersonWrites(f, size)

MigrationSpec == MigrationInit /\ [][MigrationNext]_migrationVars

-----------------------------------------------------------------------------
Holds(text, edit) == IF text = NoCopy THEN FALSE ELSE text.edit = edit /\ text.whole = 1

\* Whatever is copied, wired, trimmed, killed and begun again, what a person
\* last wrote into a file is whole in the file or in a backup folder, but for
\* an edit that kept the size of the copy and one made between the second look
\* and the replacement.
NoEditLost ==
  \A f \in HostFiles :
    \/ live[f].whole = 1 \/ f \in excused
    \/ \E s \in foldersMade : Holds(folders[s][f], live[f].edit)

=============================================================================
