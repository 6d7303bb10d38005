------------------------------- MODULE HostSetup -------------------------------
(***************************************************************************)
(* `sibyl setup <agent>` and `sibyl skills uninstall`, cli/setup.py: Sibyl *)
(* is written into the configuration of an agent host that a person, and   *)
(* the host itself, edit at any time and without a lock.  The command      *)
(* looks, may wait at a question, installs a program, copies the file to a *)
(* backup named after the second, reads it again, replaces it, and goes on *)
(* with hooks (Claude Code) or a block of text (Codex).                    *)
(*                                                                         *)
(* One host per behaviour, as hosts share no file, and one command at a    *)
(* time.  A configuration file is its slot for Sibyl (mcpServers or        *)
(* memory.provider), whether our five hooks are in it, and the edits of    *)
(* others it carries.  Codex's AGENTS.md is a sequence of markers and      *)
(* edits.  Settings that a person writes are numbered by Edits.            *)
(***************************************************************************)
EXTENDS Integers, SequencesExt

CONSTANTS
  Edits,          \* what people and hosts write into the files, each once
  LastSecond,     \* bound: seconds of an instance
  MarkersEdited   \* whether a person may delete a marker of the block

Hosts == {"hermes", "claude", "claude-cli", "codex", "cursor"}
Begin == "begin"
End == "end"

ASSUME SetupConstants ==
  /\ LastSecond \in Nat /\ MarkersEdited \in BOOLEAN
  /\ Edits \intersect {Begin, End} = {}

VARIABLES
  host,      \* the host that is set up
  conf,      \* its configuration file
  guide,     \* Codex's AGENTS.md
  program,   \* the Hermes plugin or the MCP server: "absent", "present", or
              \* "foreign": the plugin's directory holds something else
  registered, \* what `claude mcp get` finds: "free", "other", "ours"
  copies,    \* second -> what the backup named after it holds
  second,     \* the clock
  pc,         \* where the command stands
  op,         \* "setup", "force", "uninstall"
  held,       \* the configuration file as the command last read it
  heldGuide,  \* AGENTS.md as the command last read it
  outcome,    \* how the last command ended, "none" while it runs
  made,       \* the edits made so far
  raced       \* those made between a read of the command and its write

setupVars == <<host, conf, guide, program, registered, copies, second, pc, op, held,
          heldGuide, outcome, made, raced>>
others == <<host, second, op, made, raced>>

NoFile == [form |-> "absent", slot |-> "free", hooks |-> 0, rest |-> {}]

SetupInit ==
  /\ host \in Hosts
  /\ conf = NoFile /\ guide = <<>> /\ registered = "free"
  /\ program \in IF host = "hermes" THEN {"absent", "foreign"} ELSE {"absent"}
  /\ copies = [s \in {} |-> NoFile] /\ second = 0
  /\ pc = "idle" /\ op = "setup" /\ held = NoFile /\ heldGuide = <<>>
  /\ outcome = "none"
  /\ made = {} /\ raced = {}

-----------------------------------------------------------------------------
(* The texts that are written.                                             *)

\* memory.provider, mcpServers.sibyl-memory or the TOML table is set, the hooks
\* are replaced or taken out; the rest of what was read is written back.
Merged(file) == [file EXCEPT !.form = "whole", !.slot = "ours"]
Hooked(file) == [file EXCEPT !.form = "whole", !.hooks = 1]
Unhooked(file) == [file EXCEPT !.hooks = 0]

\* The first begin marker, and the first end marker after it; 0 without them.
FirstBegin(text) == SelectInSeq(text, LAMBDA t : t = Begin)
BlockEnd(text) ==
  IF FirstBegin(text) = 0 THEN 0
  ELSE SelectInSubSeq(text, FirstBegin(text), Len(text), LAMBDA t : t = End)

WithBlock(text, block) ==
  SubSeq(text, 1, FirstBegin(text) - 1) \o block \o SubSeq(text, BlockEnd(text) + 1, Len(text))

Upserted(text) ==
  IF BlockEnd(text) = 0 THEN text \o <<Begin, End>> ELSE WithBlock(text, <<Begin, End>>)
Removed(text) == IF BlockEnd(text) = 0 THEN text ELSE WithBlock(text, <<>>)

-----------------------------------------------------------------------------
(* What the command finds, and how it goes on.                             *)

\* current_state: a file that does not parse is taken for one without Sibyl.
Slot == IF conf.form = "whole" THEN conf.slot ELSE "free"

Wired ==
  CASE host = "claude-cli" -> registered # "free" /\ program = "present"
    [] host = "codex" -> Slot = "ours"
    [] OTHER -> Slot = "ours" /\ program = "present"

\* cmd_setup asks before a fresh add, the wirer before an overwrite.
Offers == ~Wired /\ Slot = "free"
Overwrites ==
  /\ op = "setup"
  /\ \/ host \in {"hermes", "claude"} /\ Slot = "other"
     \/ host = "cursor" /\ Slot # "free" /\ ~Wired

Already ==
  CASE host \in {"hermes", "claude"} -> Wired
    [] host \in {"codex", "cursor"} -> Wired /\ op = "setup"
    [] OTHER -> FALSE

Ends(result) == pc' = "idle" /\ outcome' = result /\ held' = NoFile /\ heldGuide' = <<>>
Goes(step) == pc' = step /\ UNCHANGED <<outcome, held, heldGuide>>

\* After the server: hooks for Claude Code, the block for Codex.
Extras ==
  CASE host \in {"claude", "claude-cli"} -> Goes("hook-read")
    [] host = "codex" -> Goes("block-read")
    [] OTHER -> Ends("wired")

-----------------------------------------------------------------------------
(* sibyl setup.                                                            *)

Run(how) ==
  /\ pc = "idle"
  /\ op' = how /\ outcome' = "none"
  /\ pc' = CASE how # "uninstall" -> "look"
             [] host = "codex" -> "block-read"
             [] OTHER -> "hook-read"
  /\ how = "uninstall" => host \in {"claude", "claude-cli", "codex"}
  /\ UNCHANGED <<host, second, made, raced, conf, guide, program, registered, copies, held, heldGuide>>

files == <<conf, guide, program, registered, copies>>

Look ==
  /\ pc = "look"
  /\ Goes(IF Offers THEN "offer" ELSE "wire")
  /\ UNCHANGED <<others, files>>

\* A question waits for as long as the person likes.
Answer(yes) ==
  /\ pc \in {"offer", "overwrite"}
  /\ IF ~yes THEN Ends("skipped") ELSE Goes(IF pc = "offer" THEN "wire" ELSE "install")
  /\ UNCHANGED <<others, files>>

\* wire: looks again, whatever the command saw.
Wire ==
  /\ pc = "wire"
  /\ IF host = "cursor" /\ conf.form = "broken" THEN Ends("error")
     ELSE IF Already THEN Extras
     ELSE Goes(IF Overwrites THEN "overwrite" ELSE "install")
  /\ UNCHANGED <<others, files>>

\* The server's package, unless it is there; pip may fail or not be allowed.
InstallServer ==
  /\ pc = "install" /\ host # "hermes"
  /\ \/ /\ program' = "present"
        /\ IF host = "claude" /\ Slot = "ours" THEN Extras
           ELSE Goes(IF host = "claude-cli" THEN "register" ELSE "backup")
     \/ program = "absent" /\ Ends("error") /\ UNCHANGED program
  /\ UNCHANGED <<others, conf, guide, registered, copies>>

\* The plugin's directory appears whole or not at all.  One that is refused,
\* as it is not empty, does not stop the wirer.
InstallPlugin ==
  /\ pc = "install" /\ host = "hermes"
  /\ \/ /\ program' = IF program = "absent" THEN "present" ELSE program
        /\ Goes("backup")
     \/ program = "absent" /\ Ends("error") /\ UNCHANGED program
  /\ UNCHANGED <<others, conf, guide, registered, copies>>

\* `claude mcp remove` under --force, then `claude mcp add`, which may fail.
Unregister ==
  /\ pc = "register" /\ registered # "free" /\ op = "force"
  /\ registered' = "free"
  /\ UNCHANGED <<others, conf, guide, program, copies, pc, held, heldGuide, outcome>>
Register ==
  /\ pc = "register" /\ (registered = "free" \/ op = "setup")
  /\ \/ registered # "free" /\ Extras /\ UNCHANGED registered
     \/ registered = "free" /\ registered' = "ours" /\ Extras
     \/ registered = "free" /\ Ends("error") /\ UNCHANGED registered
  /\ UNCHANGED <<others, conf, guide, program, copies>>

\* A copy, under a name that ends in the second.
Copy ==
  /\ copies' = IF conf.form = "absent" THEN copies ELSE (second :> conf) @@ copies

CopyConf ==
  /\ pc = "backup" /\ Copy /\ Goes("read")
  /\ UNCHANGED <<others, conf, guide, program, registered>>

\* Read once more for the write; what does not parse is never replaced.
Blanked == IF conf.form = "broken" THEN NoFile ELSE conf
ConfAsRead == conf
Read ==
  /\ pc = "read"
  /\ IF ConfAsRead.form = "broken" THEN Ends("error")
     ELSE IF host = "codex" /\ ConfAsRead.slot = "ours" THEN Extras
     ELSE pc' = "write" /\ held' = ConfAsRead /\ UNCHANGED <<heldGuide, outcome>>
  /\ UNCHANGED <<others, files>>

WriteConf ==
  /\ pc = "write"
  /\ conf' = Merged(held)
  /\ Extras
  /\ UNCHANGED <<others, guide, program, registered, copies>>

-----------------------------------------------------------------------------
(* Hooks, the block, and taking them out.                                  *)

WithHooks(file) == IF op = "uninstall" THEN Unhooked(file) ELSE Hooked(file)
WithGuide(text) == IF op = "uninstall" THEN Removed(text) ELSE Upserted(text)

\* wire_hooks, unwire_hooks: here the file is read before it is copied.
HookRead ==
  /\ pc = "hook-read"
  /\ IF ConfAsRead.form = "broken" \/ WithHooks(ConfAsRead) = ConfAsRead THEN Ends("wired")
     ELSE pc' = "hook-backup" /\ held' = ConfAsRead /\ UNCHANGED <<heldGuide, outcome>>
  /\ UNCHANGED <<others, files>>
HookBackup ==
  /\ pc = "hook-backup" /\ Copy /\ Goes("hook-write")
  /\ UNCHANGED <<others, conf, guide, program, registered>>
HookWrite ==
  /\ pc = "hook-write"
  /\ conf' = WithHooks(held)
  /\ Ends("wired")
  /\ UNCHANGED <<others, guide, program, registered, copies>>

BlockRead ==
  /\ pc = "block-read"
  /\ IF WithGuide(guide) = guide THEN Ends("wired")
     ELSE pc' = "block-write" /\ heldGuide' = guide /\ UNCHANGED <<held, outcome>>
  /\ UNCHANGED <<others, files>>
BlockWrite ==
  /\ pc = "block-write"
  /\ guide' = WithGuide(heldGuide)
  /\ Ends("wired")
  /\ UNCHANGED <<others, conf, program, registered, copies>>

\* The command is killed, or a write raises.
StopSetup == pc # "idle" /\ Ends("stopped") /\ UNCHANGED <<others, files>>

-----------------------------------------------------------------------------
(* The person, the host itself, and time.                                  *)

Edited(e, between) ==
  /\ made' = made \union {e}
  /\ raced' = IF between THEN raced \union {e} ELSE raced

unedited == <<host, program, registered, copies, second, pc, op, held, heldGuide, outcome>>

\* Any change of the configuration: other keys, another provider or server in
\* Sibyl's place, no hooks, or a file that no longer parses.
EditConf(e) ==
  /\ e \notin made
  /\ Edited(e, pc \in {"write", "hook-backup", "hook-write"})
  /\ \E form \in {"whole", "broken"}, slot \in {conf.slot, "free", "other"}, hooks \in {0, conf.hooks} :
       conf' = [form |-> form, slot |-> slot, hooks |-> hooks, rest |-> conf.rest \union {e}]
  /\ UNCHANGED <<unedited, guide>>

\* Text anywhere but in the block, which is ours; or over one of its markers.
EditGuide(e) ==
  /\ host = "codex" /\ e \notin made
  /\ Edited(e, pc = "block-write")
  /\ \E i \in 1..(Len(guide) + 1) :
       \/ /\ BlockEnd(guide) = 0 \/ i \notin (FirstBegin(guide) + 1)..BlockEnd(guide)
          /\ guide' = InsertAt(guide, i, e)
       \/ /\ MarkersEdited /\ i <= Len(guide) /\ guide[i] \in {Begin, End}
          /\ guide' = ReplaceAt(guide, i, e)
  /\ UNCHANGED <<unedited, conf>>

Reregister(what) ==
  /\ host = "claude-cli" /\ registered # what
  /\ registered' = what
  /\ UNCHANGED <<host, conf, guide, program, copies, second, pc, op, held, heldGuide,
                 outcome, made, raced>>

\* sibyl-memory-hermes uninstall-plugin: the configuration keeps its provider.
UninstallPlugin ==
  /\ host = "hermes" /\ pc = "idle" /\ program = "present"
  /\ program' = "absent"
  /\ UNCHANGED <<host, conf, guide, registered, copies, second, pc, op, held, heldGuide,
                 outcome, made, raced>>

Tick ==
  /\ second < LastSecond /\ second' = second + 1
  /\ UNCHANGED <<host, conf, guide, program, registered, copies, pc, op, held, heldGuide,
                 outcome, made, raced>>

SetupNext ==
  \/ \E how \in {"setup", "force", "uninstall"} : Run(how)
  \/ \E yes \in BOOLEAN : Answer(yes)
  \/ Look \/ Wire \/ InstallServer \/ InstallPlugin \/ Unregister \/ Register \/ CopyConf \/ Read \/ WriteConf
  \/ HookRead \/ HookBackup \/ HookWrite \/ BlockRead \/ BlockWrite \/ StopSetup
  \/ \E e \in Edits : EditConf(e) \/ EditGuide(e)
  \/ \E what \in {"free", "other"} : Reregister(what)
  \/ UninstallPlugin \/ Tick

SetupSpec == SetupInit /\ [][SetupNext]_setupVars

-----------------------------------------------------------------------------

\* What people and hosts write into the files outlives any sequence of setups,
\* uninstalls and kills, through every question in between, and a file that
\* does not parse is left alone; only an edit made between the read and the
\* write of one step may be overwritten.
EditsKept == made \subseteq conf.rest \union ToSet(guide) \union raced

=============================================================================
