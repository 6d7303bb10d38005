----------------------------- MODULE ContextTrim -----------------------------
(***************************************************************************)
(* The context trim (sibyl_memory_client/lifecycle/apply.py, runner.py,    *)
(* policy.py and the debloat commands of lifecycle_cli.py): automatic runs *)
(* at agent start and `sibyl debloat apply` move the old sections of an    *)
(* instruction file to the memory, or to a history file beside it, and     *)
(* rewrite the file; `sibyl debloat undo` restores a backup; a person      *)
(* edits the files meanwhile.                                              *)
(*                                                                         *)
(* A text is the set of its sections.  Files of one name in several        *)
(* projects share the reference keys of the day.  A run that has read a    *)
(* file is stale once the file is written: size, mtime or inode differ.    *)
(* Backup folders are numbered by their stamps.                            *)
(***************************************************************************)
EXTENDS Integers, FiniteSets

CONSTANTS
    TrimFiles, Runs,
    TextOf,              \* [Files -> set of sections a person writes there]
    Old,                 \* the sections the splitter takes for history
    Destination,         \* of the policy: {"memory"} or {"memory", "sibling"}
    MaxBackupsPerFile,   \* MAX_BACKUPS_PER_FILE
    MaxKeys,             \* reference keys of one name and day (50 in the code)
    MaxStamp, MaxEdits   \* bounds: backups made, edits

ASSUME TrimConstants ==
    /\ IsFiniteSet(TrimFiles) /\ Destination \in {{"memory"}, {"memory", "sibling"}}
    /\ MaxBackupsPerFile \in Nat \ {0} /\ MaxKeys \in Nat \ {0}
    /\ MaxStamp \in Nat /\ MaxEdits \in Nat
    /\ Old \subseteq UNION {TextOf[f] : f \in TrimFiles}

Sections == UNION {TextOf[f] : f \in TrimFiles}
Keys == 1..MaxKeys
Stamps == 1..MaxStamp
Nothing == 0             \* no key, no backup
Nobody == "nobody"

VARIABLES
    file,        \* the text of each file
    recent,      \* files modified in the last ten minutes
    sibling,     \* the history file beside each file
    memory,      \* the reference documents, {} where there is none
    backups,     \* of each file: set of [stamp, text, by]
    stamp,       \* the last stamp used
    last,        \* last_apply: the backups of the trims it records
    lock,        \* debloat.lock: who made it, and whether 60 s have passed
    automatic,   \* files on automatic in debloat.json, {} unless its mode is auto
    run,         \* the runs under way
    edits,       \* edits made, up to the bound
    owed,        \* history: sections that must not be lost
    undone,      \* history: sections an undo took out of a file
    spoilt        \* history: whether a run took away what another relies on

trimVars == <<file, recent, sibling, memory, backups, stamp, last, lock, automatic, run, edits, owed,
              undone, spoilt>>
past == <<owed, undone, spoilt>>
disk == <<file, recent, sibling, memory, backups, stamp, last, edits>>

Steps == {"idle", "pick", "choose", "store", "verify", "sibling", "append",
          "compare", "rewrite", "cleanup", "record", "aside", "restore"}
Idle == [pc |-> "idle", by |-> "apply", dest |-> {}, todo |-> {}, on |-> Nobody, text |-> {},
         stale |-> FALSE, key |-> Nothing, saw |-> {}, backup |-> Nothing, applied |-> FALSE,
         tried |-> FALSE, done |-> {}]

TrimInit ==
    /\ \E texts \in SUBSET Sections : file = [f \in TrimFiles |-> TextOf[f] \intersect texts]
    /\ recent = {} /\ sibling = [f \in TrimFiles |-> {}] /\ memory = [k \in Keys |-> {}]
    /\ backups = [f \in TrimFiles |-> {}] /\ stamp = 0 /\ last = {}
    /\ lock = [by |-> Nobody, old |-> FALSE]
    /\ automatic = {}
    /\ run = [r \in Runs |-> Idle] /\ edits = 0
    /\ owed = file /\ undone = [f \in TrimFiles |-> {}] /\ spoilt = FALSE

(* ------------------------------ the files ----------------------------- *)

\* splitter.split: what moves, and whether the plan is safe (both parts count).
History(text) == text \intersect Old
Current(text) == text \ Old
Safe(text) == History(text) # {} /\ Current(text) # {}

\* A write of a file, after which the runs are as given.
Rewritten(f, text, runs) ==
    /\ file' = [file EXCEPT ![f] = text]
    /\ recent' = recent \union {f}
    /\ run' = [r \in Runs |-> IF runs[r].on = f THEN [runs[r] EXCEPT !.stale = TRUE] ELSE runs[r]]

\* backup: a fresh folder with the bytes that were read, verified.
TakeBackup(f, text, by) ==
    backups' = [backups EXCEPT ![f] = @ \union {[stamp |-> stamp', text |-> text, by |-> by]}]

\* prune_backups: the newest MAX_BACKUPS_PER_FILE stay.
Newest(bs) == {b \in bs : Cardinality({c \in bs : c.stamp > b.stamp}) < MaxBackupsPerFile}

InMemory == UNION {memory[k] : k \in Keys}
Texts(f, bs) == sibling[f] \union InMemory \union (UNION {b.text : b \in bs})

\* A rewrite that has compared, or an undo that has read, overwrites what is
\* written before it writes: the code does not look again.
InWindow(f, runs) == \E r \in runs : run[r].on = f /\ run[r].pc \in {"rewrite", "aside", "restore"}

\* What is written into a file in the window of another run is not owed.
StillOwed(f, text, r) ==
    IF InWindow(f, Runs \ {r}) THEN owed[f] \ (text \ file[f]) ELSE owed[f]

\* Pruning, by r and with text in the file, gives up what an undo took out; it
\* must leave the backups of other runs that are under way.
Prune(r, f, text) ==
    LET left == Newest(backups[f])
        gone == backups[f] \ left
        given == undone'[f] \intersect UNION {b.text : b \in gone}
    IN /\ backups' = [backups EXCEPT ![f] = left]
       /\ owed' = [owed EXCEPT ![f] = StillOwed(f, text, r) \ (given \ (text \union Texts(f, left)))]
       /\ spoilt' = (spoilt \/ \E q \in Runs \ {r}, b \in gone :
                                run[q].on = f /\ run[q].backup = b.stamp)

(* ------------------------------- one run ------------------------------ *)

Goto(r, pc) == run' = [run EXCEPT ![r].pc = pc]

StopRun(r) == Goto(r, "cleanup")      \* res.reason is set, nothing was rewritten

\* _debloat_apply: no lock; the free tier moves to the sibling.
StartApply(r, todo, dest) ==
    /\ run[r].pc = "idle"
    /\ run' = [run EXCEPT ![r] = [Idle EXCEPT !.pc = "pick", !.todo = todo, !.dest = dest]]
    /\ UNCHANGED <<disk, lock, automatic, past>>

\* run_automatic under run_lock, for the files the person named.  A file that
\* is not due, deferred or past the deadline is not in todo.
StartAutomatic(r, todo) ==
    /\ run[r].pc = "idle"
    /\ lock.by = Nobody \/ lock.old
    /\ todo \subseteq automatic
    /\ lock' = [by |-> r, old |-> FALSE]
    /\ run' = [run EXCEPT ![r] = [Idle EXCEPT !.pc = "pick", !.by = "automatic", !.todo = todo,
                                              !.dest = Destination]]
    /\ UNCHANGED <<disk, automatic, past>>

\* refusal: links, foreign folders and unknown files are outside the model.
Refused(f) == f \in recent

NextStore(dest) == IF "memory" \in dest THEN "choose" ELSE "sibling"

\* apply_one: refusal, read, split, then the backup, which may fail.
Pick(r, f) ==
    /\ run[r].pc = "pick" /\ f \in run[r].todo
    /\ LET next == [run[r] EXCEPT !.todo = @ \ {f}]
       IN \/ /\ ~Refused(f) /\ Safe(file[f])
             /\ stamp < MaxStamp /\ stamp' = stamp + 1
             /\ TakeBackup(f, file[f], "trim")
             /\ run' = [run EXCEPT ![r] = [next EXCEPT !.pc = NextStore(next.dest), !.on = f,
                                              !.text = file[f], !.backup = stamp']]
          \/ /\ run' = [run EXCEPT ![r] = [next EXCEPT !.tried = TRUE]]
             /\ UNCHANGED <<stamp, backups>>
    /\ UNCHANGED <<edits, file, recent, sibling, memory, last, lock, automatic, past>>

\* _unique_key: the first key that is free or holds the same body.
Choose(r) ==
    /\ run[r].pc = "choose"
    /\ LET fits == {k \in Keys : memory[k] \in {{}, History(run[r].text)}}
       IN \/ fits = {} /\ StopRun(r)
          \/ \E k \in fits :
               /\ \A j \in fits : k <= j
               /\ run' = [run EXCEPT ![r].pc = "store", ![r].key = k]
    /\ UNCHANGED <<disk, lock, automatic, past>>

\* set_reference; the cap, the account or the store may refuse.
Store(r) ==
    /\ run[r].pc = "store"
    /\ \/ /\ memory' = [memory EXCEPT ![run[r].key] = History(run[r].text)] /\ Goto(r, "verify")
          /\ spoilt' = (spoilt \/ memory[run[r].key] \notin {{}, History(run[r].text)})
       \/ StopRun(r) /\ UNCHANGED <<memory, spoilt>>
    /\ UNCHANGED <<edits, file, recent, sibling, backups, stamp, last, lock, automatic, owed, undone>>

\* The copy is read back and compared.
Verify(r) ==
    /\ run[r].pc = "verify"
    /\ IF memory[run[r].key] # History(run[r].text) THEN StopRun(r)
       ELSE Goto(r, IF "sibling" \in run[r].dest THEN "sibling" ELSE "compare")
    /\ UNCHANGED <<disk, lock, automatic, past>>

ReadSibling(r) ==
    /\ run[r].pc = "sibling"
    /\ run' = [run EXCEPT ![r].pc = "append", ![r].saw = sibling[run[r].on]]
    /\ UNCHANGED <<disk, lock, automatic, past>>

\* The sibling as it was read, and the history unless it is there already.
AppendStored(r) ==
    /\ run[r].pc = "append"
    /\ \/ /\ sibling' = [sibling EXCEPT ![run[r].on] = run[r].saw \union History(run[r].text)]
          /\ spoilt' = (spoilt \/ ~(sibling[run[r].on] \subseteq sibling'[run[r].on]))
          /\ Goto(r, "compare")
       \/ StopRun(r) /\ UNCHANGED <<sibling, spoilt>>
    /\ UNCHANGED <<edits, file, recent, memory, backups, stamp, last, lock, automatic, owed, undone>>

\* Mutant: the file is not looked at again.
CompareSkipped(r) ==
    /\ run[r].pc = "compare" /\ Goto(r, "rewrite")
    /\ UNCHANGED <<disk, lock, automatic, past>>

\* The source must still be the file that was read.
Compare(r) ==
    /\ run[r].pc = "compare"
    /\ IF run[r].stale THEN StopRun(r) ELSE Goto(r, "rewrite")
    /\ UNCHANGED <<disk, lock, automatic, past>>

\* atomic_write_bytes of the current part and the pointer line.  It may fail, or
\* be interrupted after the replace, before the apply counts.
Rewrite(r) ==
    /\ run[r].pc = "rewrite"
    /\ \/ /\ \E counts \in BOOLEAN :
               Rewritten(run[r].on, Current(run[r].text),
                     [run EXCEPT ![r].pc = "cleanup", ![r].applied = counts])
          /\ owed' = [owed EXCEPT ![run[r].on] = StillOwed(run[r].on, Current(run[r].text), r)]
       \/ StopRun(r) /\ UNCHANGED <<file, recent, past>>
    /\ UNCHANGED <<edits, sibling, memory, backups, stamp, last, lock, automatic, undone, spoilt>>

\* The backup of an apply whose source is verifiably untouched is not needed.
Discards(r) ==
    ~run[r].applied /\ ~run[r].stale

\* The finally of apply_one: discard this backup, or prune the old ones.
Cleanup(r) ==
    /\ run[r].pc = "cleanup"
    /\ LET f == run[r].on
       IN /\ IF Discards(r)
               THEN /\ backups' = [backups EXCEPT ![f] = {b \in @ : b.stamp # run[r].backup}]
                    /\ UNCHANGED past
               ELSE UNCHANGED undone /\ Prune(r, f, file[f])
          /\ run' = [run EXCEPT ![r] = [Idle EXCEPT !.pc = "pick", !.by = run[r].by,
               !.dest = run[r].dest, !.todo = run[r].todo, !.tried = TRUE,
               !.done = IF run[r].applied
                        THEN run[r].done \union {[file |-> f, stamp |-> run[r].backup]} ELSE run[r].done]]
    /\ UNCHANGED <<edits, file, recent, sibling, memory, stamp, last, lock, automatic>>

\* last_apply is replaced, then the automatic run frees the lock by its name.
Record(r) ==
    /\ run[r].pc = "pick" /\ run[r].todo = {}
    /\ last' = IF run[r].tried THEN run[r].done ELSE last
    /\ lock' = IF run[r].by = "automatic" THEN [by |-> Nobody, old |-> FALSE] ELSE lock
    /\ run' = [run EXCEPT ![r] = Idle]
    /\ UNCHANGED <<edits, file, recent, sibling, memory, backups, stamp, automatic, past>>

(* -------------------------------- undo -------------------------------- *)

\* The backup the last apply recorded, else the newest that no undo made.
Chosen(f) ==
    LET recorded == {b \in backups[f] : [file |-> f, stamp |-> b.stamp] \in last}
        trims == {b \in backups[f] : b.by = "trim"}
        from == IF recorded # {} THEN recorded ELSE trims
    IN {b \in from : \A c \in from : c.stamp <= b.stamp}

\* Refused when the file is already what the backup holds.
StartUndo(r, f) ==
    /\ run[r].pc = "idle"
    /\ \E b \in Chosen(f) :
         /\ b.text # file[f]
         /\ run' = [run EXCEPT ![r] = [Idle EXCEPT !.pc = "aside", !.on = f, !.text = b.text,
                                                   !.saw = file[f]]]
    /\ UNCHANGED <<disk, lock, automatic, past>>

\* Mutant: the file as it is now is not kept.
NothingAside(r) ==
    /\ run[r].pc = "aside" /\ Goto(r, "restore")
    /\ UNCHANGED <<disk, lock, automatic, past>>

Aside(r) ==
    /\ run[r].pc = "aside"
    /\ stamp < MaxStamp /\ stamp' = stamp + 1
    /\ TakeBackup(run[r].on, run[r].saw, "undo")
    /\ run' = [run EXCEPT ![r].pc = "restore", ![r].backup = stamp']
    /\ UNCHANGED <<edits, file, recent, sibling, memory, last, lock, automatic, past>>

Restore(r) ==
    /\ run[r].pc = "restore"
    /\ Rewritten(run[r].on, run[r].text, [run EXCEPT ![r] = Idle])
    /\ undone' = [undone EXCEPT ![run[r].on] = @ \union (file[run[r].on] \ run[r].text)]
    /\ Prune(r, run[r].on, run[r].text)
    /\ UNCHANGED <<edits, sibling, memory, stamp, last, lock, automatic>>

(* ---------------------------- surroundings ---------------------------- *)

\* A run may be killed at any step; its lock stays.
Crash(r) ==
    /\ run[r].pc # "idle" /\ run' = [run EXCEPT ![r] = Idle]
    /\ UNCHANGED <<disk, lock, automatic, past>>

LockAges ==
    /\ lock.by # Nobody /\ ~lock.old /\ lock' = [lock EXCEPT !.old = TRUE]
    /\ UNCHANGED <<disk, automatic, run, past>>

AddSection(f, s) ==
    /\ edits < MaxEdits /\ edits' = edits + 1
    /\ s \notin file[f] /\ Rewritten(f, file[f] \union {s}, run)
    /\ IF InWindow(f, Runs)
       THEN owed' = [owed EXCEPT ![f] = @ \ {s}] /\ UNCHANGED undone
       ELSE owed' = [owed EXCEPT ![f] = @ \union {s}] /\ undone' = [undone EXCEPT ![f] = @ \ {s}]
    /\ UNCHANGED <<sibling, memory, backups, stamp, last, lock, automatic, spoilt>>

RemoveSection(f, s) ==
    /\ edits < MaxEdits /\ edits' = edits + 1
    /\ s \in file[f] /\ Rewritten(f, file[f] \ {s}, run)
    /\ owed' = [owed EXCEPT ![f] = @ \ {s}]
    /\ UNCHANGED <<sibling, memory, backups, stamp, last, lock, automatic, undone, spoilt>>

\* Ten minutes without an edit.  No apply of the file lasts that long.
Settle(f) ==
    /\ f \in recent /\ \A r \in Runs : run[r].on = f => run[r].pc \in {"idle", "pick"}
    /\ recent' = recent \ {f}
    /\ UNCHANGED <<edits, file, sibling, memory, backups, stamp, last, lock, automatic, run, past>>

\* set_auto and set_mode, on the word of the person.
SetAutomatic(files) ==
    /\ files # automatic /\ automatic' = files
    /\ UNCHANGED <<disk, lock, run, past>>

ApplyStep(r) ==
    \/ \E f \in TrimFiles : Pick(r, f)
    \/ Choose(r) \/ Store(r) \/ Verify(r) \/ ReadSibling(r) \/ AppendStored(r)
    \/ Compare(r) \/ Rewrite(r) \/ Cleanup(r) \/ Record(r)

TrimNext ==
    \/ \E r \in Runs :
         \/ \E todo \in (SUBSET TrimFiles) \ {{}} : StartAutomatic(r, todo)
         \/ \E todo \in (SUBSET TrimFiles) \ {{}} : \E dest \in {Destination, {"sibling"}} :
              StartApply(r, todo, dest)
         \/ ApplyStep(r)
         \/ \E f \in TrimFiles : StartUndo(r, f)
         \/ Aside(r) \/ Restore(r) \/ Crash(r)
    \/ LockAges
    \/ \E f \in TrimFiles :
         \/ \E s \in TextOf[f] : AddSection(f, s) \/ RemoveSection(f, s)
         \/ Settle(f)
    \/ \E files \in SUBSET TrimFiles : SetAutomatic(files)

TrimSpec == TrimInit /\ [][TrimNext]_trimVars

(* ----------------------------- properties ----------------------------- *)

\* "Nothing is ever deleted" (_debloat_auto): a section a person wrote and did
\* not remove is in the file, its history file, the memory or a backup, wherever
\* a run was killed and however runs, undos and edits interleave.  Only what was
\* written after the last look at the file is overwritten, and what an undo took
\* out lasts as long as its backups.  Once spoilt, nothing is said: two runs
\* chose one key, read one history file, or one pruned the other's backup.
NothingLost ==
    spoilt \/ \A f \in TrimFiles : owed[f] \subseteq file[f] \union Texts(f, backups[f])

\* A trim never rewrites a file of which no backup holds every section it had,
\* those written in the window after the last look excepted (apply_one).
RewriteBackedUp ==
    [][\A r \in Runs :
         run[r].pc = "rewrite" /\ file' # file =>
           \/ spoilt
           \/ \E b \in backups[run[r].on] :
                file[run[r].on] \intersect owed[run[r].on] \subseteq b.text]_trimVars

==============================================================================
