--------------------------- MODULE SaveReminders ---------------------------
(***************************************************************************)
(* The bookkeeping behind automatic saves: lifecycle.json, the one file    *)
(* that every agent on a computer updates under lifecycle.lock.            *)
(*                                                                         *)
(*   lifecycle/state.py      the file, the write counter, active time      *)
(*   lifecycle/reminders.py  the rules: when a save is due                 *)
(*   lifecycle/notices.py    a host (MCP server, Hermes): one notice per   *)
(*                           result, from what the process remembers       *)
(*   hooks.py                Claude Code: one process per event, all it    *)
(*                           knows of its session is in the file and in    *)
(*                           the transcript                                *)
(*                                                                         *)
(* Writes of a host are counted in its memory and flushed later; a save is *)
(* a marker in memory.db, told to the file by the process that made it and *)
(* folded in by everyone else who sees it.  The file may be lost (deleted, *)
(* oversized, unreadable): it then starts over from its defaults.          *)
(* Stamps are counted in saves: a session began after `began` of them.     *)
(* Everybody here is on Pro; the lines of the free plan are not modelled.  *)
(***************************************************************************)
EXTENDS Naturals, Sequences, FiniteSets

CONSTANTS
  Hosts,        \* processes with a write counter and a session of their own
  Codes,        \* Claude Code sessions, seen only through their hooks
  FlushAt,      \* FLUSH_EVERY_WRITES
  Interval,     \* autosave interval, in units of active time
  FirstSave,    \* FIRST_SAVE_WRITES
  DayCap,       \* AUTOSAVE_MAX_PER_DAY
  SessionCap,   \* AUTOSAVE_MAX_PER_SESSION
  MinPrompts,   \* MIN_PROMPTS_FOR_STOP
  MaxWrites, MaxSaves, MaxActive, MaxDays, MaxLosses  \* bounds of an instance

ASSUME Bounds ==
  /\ Hosts \intersect Codes = {}
  /\ {FlushAt, Interval, FirstSave, DayCap, SessionCap} \subseteq Nat \ {0}
  /\ {MinPrompts, MaxWrites, MaxSaves, MaxActive, MaxDays, MaxLosses}
       \subseteq Nat

VARIABLES
  file,      \* lifecycle.json
  saves,     \* saves whose marker is in memory.db
  mem,       \* what each host process remembers
  hook,      \* the request a Stop hook has decided on and not yet recorded
  said,      \* request numbers in each transcript, in order
  day,       \* the local day
  made,      \* writes so far
  dropped,   \* writes a killed process or a lost file had counted
  emitted,   \* requests made this day, counted anew when the file is lost
  losses     \* times the file was lost

vars == <<file, saves, mem, hook, said, day, made, dropped, emitted, losses>>

Sessions == Hosts \union Codes

NewSession == [seen |-> FALSE, began |-> 0, active |-> 0, atSave |-> 0, nudges |-> 0,
               lastNudge |-> 0, floor |-> 0, prompts |-> 0, saved |-> FALSE,
               compacted |-> FALSE, ended |-> FALSE]

\* default_state: reminders and automatic save are on; `on` is both of them.
DefaultFile == [on |-> TRUE, total |-> 0, since |-> 0, lastSave |-> 0,
                day |-> 0, asked |-> 0, sess |-> [s \in Sessions |-> NewSession]]

NewProcess == [life |-> "new", began |-> 0, active |-> 0, atSave |-> 0, seen |-> 0,
               nudges |-> 0, lastNudge |-> 0, pending |-> 0, flying |-> 0, timed |-> 0,
               step |-> "idle", extra |-> 0]

NoHook == [marker |-> 0, seq |-> 0]

Init ==
  /\ file = DefaultFile
  /\ saves = 0
  /\ mem = [h \in Hosts |-> NewProcess]
  /\ hook = [c \in Codes |-> NoHook]
  /\ said = [c \in Codes |-> <<>>]
  /\ day = 1
  /\ made = 0 /\ dropped = 0 /\ emitted = 0 /\ losses = 0

-----------------------------------------------------------------------------
(* The file.  Every operator below is the body of one update under the     *)
(* lock: it takes the file and returns the file.                           *)

Larger(a, b) == IF a > b THEN a ELSE b
Smaller(a, b) == IF a < b THEN a ELSE b

\* ensure_session: the record, created on first sight.
Ensured(f, s, began) ==
  IF f.sess[s].seen THEN f
  ELSE [f EXCEPT !.sess[s] = [NewSession EXCEPT !.seen = TRUE, !.began = began]]

\* _reset_active_clocks: every open session that began before the save.
ClocksReset(f, when) ==
  [f EXCEPT !.sess = [s \in Sessions |->
     IF f.sess[s].seen /\ ~f.sess[s].ended /\ f.sess[s].began <= when
     THEN [f.sess[s] EXCEPT !.atSave = f.sess[s].active, !.saved = TRUE, !.compacted = FALSE]
     ELSE f.sess[s]]]

\* A save is known to the file: nothing is unsaved from here on.
SaveKnown(f, when) ==
  ClocksReset([f EXCEPT !.lastSave = when, !.since = 0], when)

\* observe_marker: only a marker newer than what the file knows.
Observed(f, marker) == IF marker > f.lastSave THEN SaveKnown(f, marker) ELSE f

\* _flush_path: the counts of one process.
CountedOver(f, n) == [f EXCEPT !.total = n, !.since = @ + n]
Counted(f, n) == [f EXCEPT !.total = @ + n, !.since = @ + n]

\* nudges_today, next_nudge_seq, record_nudge, note_seq_seen.
AskedToday(f) == IF f.day = day THEN f.asked ELSE 0
NextSeq(r) == Larger(r.nudges, r.floor) + 1
Nudged(f, s) ==
  LET r == f.sess[s] IN
    [f EXCEPT !.sess[s] = [r EXCEPT !.nudges = @ + 1, !.floor = NextSeq(r),
                                    !.lastNudge = r.active],
              !.asked = AskedToday(f) + 1, !.day = day]
SeqSeen(f, c, n) == [f EXCEPT !.sess[c].floor = Larger(@, n)]

\* autosave_due: why a save is due for session s, or "".
Due(f, s, extra) ==
  LET r == f.sess[s]
      writes == f.since + extra
      allowed == /\ f.on /\ r.seen
                 /\ writes >= 1
                 /\ r.nudges < SessionCap
                 /\ AskedToday(f) < DayCap
                 /\ (r.nudges > 0 => r.active - r.lastNudge >= Interval)
  IN  IF ~allowed THEN ""
      ELSE IF r.active - r.atSave >= Interval THEN "interval"
      ELSE IF r.compacted THEN "compaction"
      ELSE IF writes >= FirstSave /\ r.nudges = 0 /\ r.floor = 0 /\ ~r.saved THEN "first"
      ELSE ""

\* What was decided on a snapshot is decided again where it is recorded.
StillDueSkipped(f, s, extra) == TRUE
StillDue(f, s, extra) == Due(f, s, extra) # ""

-----------------------------------------------------------------------------
(* A host: tool calls, writes and their counter, the save procedure, and   *)
(* the notice on a result.                                                 *)

OpenHost(h) ==
  /\ mem[h].life = "new"
  /\ mem' = [mem EXCEPT ![h] = [NewProcess EXCEPT !.life = "up", !.began = saves]]
  /\ UNCHANGED <<file, saves, hook, said, day, made, dropped, emitted, losses>>

\* note_activity: at most one idle cap of active time per event.
Activity(h) ==
  /\ mem[h].life = "up" /\ mem[h].active < MaxActive
  /\ mem' = [mem EXCEPT ![h].active = @ + 1]
  /\ UNCHANGED <<file, saves, hook, said, day, made, dropped, emitted, losses>>

\* note_write: counted in memory; a full counter is flushed by this call.
Write(h) ==
  /\ mem[h].life = "up" /\ mem[h].step = "idle" /\ made < MaxWrites
  /\ made' = made + 1
  /\ LET n == mem[h].pending + 1 IN
       mem' = [mem EXCEPT ![h].pending = IF n >= FlushAt THEN 0 ELSE n,
                          ![h].flying = IF n >= FlushAt THEN n ELSE 0,
                          ![h].step = IF n >= FlushAt THEN "flush" ELSE "idle"]
  /\ UNCHANGED <<file, saves, hook, said, day, dropped, emitted, losses>>

\* The timer only started by a second write.
TimerLate(h) ==
  /\ mem[h].life = "up" /\ mem[h].pending > 1 /\ mem[h].timed = 0
  /\ mem' = [mem EXCEPT ![h].timed = mem[h].pending, ![h].pending = 0]
  /\ UNCHANGED <<file, saves, hook, said, day, made, dropped, emitted, losses>>

\* _flush_path in the timer's thread: the counts are taken, and applied to the
\* file by a second step, whatever the main thread does in between.
Timer(h) ==
  /\ mem[h].life = "up" /\ mem[h].pending > 0 /\ mem[h].timed = 0
  /\ mem' = [mem EXCEPT ![h].timed = mem[h].pending, ![h].pending = 0]
  /\ UNCHANGED <<file, saves, hook, said, day, made, dropped, emitted, losses>>

TimerFlush(h) ==
  /\ mem[h].life = "up" /\ mem[h].timed > 0
  /\ file' = Counted(file, mem[h].timed)
  /\ mem' = [mem EXCEPT ![h].timed = 0]
  /\ UNCHANGED <<saves, hook, said, day, made, dropped, emitted, losses>>

\* _flush_path in the main thread.
Flush(h) ==
  /\ mem[h].life = "up" /\ mem[h].step \in {"flush", "saveflush"}
  /\ file' = Counted(file, mem[h].flying)
  /\ mem' = [mem EXCEPT ![h].flying = 0,
                        ![h].step = IF mem[h].step = "flush" THEN "idle" ELSE "savenote"]
  /\ UNCHANGED <<saves, hook, said, day, made, dropped, emitted, losses>>

\* The save procedure writes its marker; the marker itself is a write, counted
\* by _track_op before note_save flushes.
Save(h) ==
  /\ mem[h].life = "up" /\ mem[h].step = "idle" /\ saves < MaxSaves
  /\ made < MaxWrites
  /\ saves' = saves + 1 /\ made' = made + 1
  /\ mem' = [mem EXCEPT ![h].flying = mem[h].pending + 1, ![h].pending = 0,
                        ![h].step = "saveflush"]
  /\ UNCHANGED <<file, hook, said, day, dropped, emitted, losses>>

NoteSave(h) ==
  /\ mem[h].life = "up" /\ mem[h].step = "savenote"
  /\ file' = SaveKnown(file, saves)
  /\ mem' = [mem EXCEPT ![h].step = "idle"]
  /\ UNCHANGED <<saves, hook, said, day, made, dropped, emitted, losses>>

\* _session_view: what the process remembers overrides the file.
View(f, h) ==
  LET e == Ensured(f, h, mem[h].began)
      r == e.sess[h]
  IN  [e EXCEPT !.sess[h] =
       [r EXCEPT !.saved = r.saved \/ mem[h].seen > mem[h].began,
                 !.active = mem[h].active, !.atSave = mem[h].atSave,
                 !.nudges = mem[h].nudges, !.lastNudge = mem[h].lastNudge]]

\* next_notice: fold the marker in, restart the clock for a save not seen
\* before, and decide on a snapshot.
Look(h) ==
  /\ mem[h].life = "up" /\ mem[h].step = "idle" /\ file.on
  /\ LET f == Observed(file, saves)
         news == f.lastSave > mem[h].seen
         m == [mem[h] EXCEPT
                 !.seen = Larger(@, f.lastSave),
                 !.atSave = IF news /\ (mem[h].seen > 0 \/ f.lastSave > mem[h].began)
                            THEN mem[h].active ELSE @,
                 !.extra = mem[h].pending]
         v == [mem EXCEPT ![h] = m]
     IN  /\ file' = f
         /\ LET why == Due(View(f, h), h, m.extra) IN
              mem' = [v EXCEPT ![h].step = IF why = "" THEN "idle" ELSE "record"]
  /\ UNCHANGED <<saves, hook, said, day, made, dropped, emitted, losses>>

\* _autosave_line: decided again under the lock, recorded and given.
Record(h) ==
  /\ mem[h].life = "up" /\ mem[h].step = "record"
  /\ LET f == View(file, h) IN
       IF StillDue(f, h, mem[h].extra)
       THEN /\ file' = Nudged(f, h)
            /\ mem' = [mem EXCEPT ![h].step = "idle", ![h].extra = 0, ![h].nudges = @ + 1,
                                  ![h].lastNudge = mem[h].active]
            /\ emitted' = emitted + 1
       ELSE /\ file' = f
            /\ mem' = [mem EXCEPT ![h].step = "idle", ![h].extra = 0]
            /\ UNCHANGED emitted
  /\ UNCHANGED <<saves, hook, said, day, made, dropped, losses>>

\* Killed: what was not flushed is gone.
Crash(h) ==
  /\ mem[h].life = "up"
  /\ mem' = [mem EXCEPT ![h] = [NewProcess EXCEPT !.life = "down"]]
  /\ dropped' = dropped + mem[h].pending + mem[h].flying + mem[h].timed
  /\ UNCHANGED <<file, saves, hook, said, day, made, emitted, losses>>

-----------------------------------------------------------------------------
(* Claude Code: each event runs a hook, which reads the marker and updates *)
(* the file.  A turn's end may ask for a save by a numbered request, which *)
(* the harness keeps in the transcript.                                    *)

\* observe_marker and _session, the first lines of every update of a hook; the
\* marker is the one the hook read when it started.
Session(f, c, marker) ==
  LET e == Ensured(f, c, marker) IN
    [e EXCEPT !.sess[c].saved = @ \/ marker > e.sess[c].began]
Opened(c) == Session(Observed(file, saves), c, saves)

\* add_active: the time since the last event, at most the idle cap or, inside a
\* turn, the turn cap: one unit or none here.
Worked(f, c, gap) == [f EXCEPT !.sess[c].active = Smaller(@ + gap, MaxActive)]

Quiet(c) == hook' = [hook EXCEPT ![c] = NoHook]

SessionStart(c) ==
  /\ hook[c].seq = 0
  /\ \E gap \in 0..1 :
       file' = Worked(Opened(c), c, gap)
  /\ UNCHANGED <<saves, mem, hook, said, day, made, dropped, emitted, losses>>

Prompt(c) ==
  /\ hook[c].seq = 0
  /\ \E gap \in 0..1 :
       file' = [Worked(Opened(c), c, gap) EXCEPT !.sess[c].prompts = Smaller(@ + 1, MinPrompts)]
  /\ UNCHANGED <<saves, mem, hook, said, day, made, dropped, emitted, losses>>

PreCompact(c) ==
  /\ hook[c].seq = 0
  /\ \E gap \in 0..1 :
       file' = [Worked(Opened(c), c, gap) EXCEPT !.sess[c].compacted = TRUE]
  /\ UNCHANGED <<saves, mem, hook, said, day, made, dropped, emitted, losses>>

\* The end of a turn only decides; the number it would ask by is kept.
Stop(c) ==
  /\ hook[c].seq = 0
  /\ \E gap \in 0..1 :
       LET f == Worked(Opened(c), c, gap)
           asks == f.sess[c].prompts >= MinPrompts /\ Due(f, c, 0) # ""
       IN  /\ file' = f
           /\ hook' = [hook EXCEPT ![c] = IF asks
                         THEN [marker |-> saves, seq |-> NextSeq(f.sess[c])]
                         ELSE NoHook]
  /\ UNCHANGED <<saves, mem, said, day, made, dropped, emitted, losses>>

\* _transcript_has: anywhere in the transcript.
AtItsEnd(c, n) == said[c] # <<>> /\ said[c][Len(said[c])] = n
InTranscript(c, n) == \E i \in DOMAIN said[c] : said[c][i] = n

\* A request the transcript already holds is not made again: the next one is
\* numbered past it.
AlreadyAsked(c) ==
  /\ hook[c].seq > 0
  /\ InTranscript(c, hook[c].seq)
  /\ file' = SeqSeen(Ensured(file, c, saves), c, hook[c].seq)
  /\ Quiet(c)
  /\ UNCHANGED <<saves, mem, said, day, made, dropped, emitted, losses>>

\* Any other is decided again, recorded, and only then printed.
Ask(c) ==
  /\ hook[c].seq > 0
  /\ ~InTranscript(c, hook[c].seq)
  /\ LET f == Session(file, c, hook[c].marker)
         stands == NextSeq(f.sess[c]) = hook[c].seq /\ StillDue(f, c, 0)
     IN  IF stands
         THEN /\ file' = Nudged(f, c)
              /\ said' = [said EXCEPT ![c] = Append(@, hook[c].seq)]
              /\ emitted' = emitted + 1
         ELSE file' = f /\ UNCHANGED <<said, emitted>>
  /\ Quiet(c)
  /\ UNCHANGED <<saves, mem, day, made, dropped, losses>>

SessionEnd(c) ==
  /\ hook[c].seq = 0
  /\ file' = [Opened(c) EXCEPT !.sess[c].ended = TRUE]
  /\ UNCHANGED <<saves, mem, hook, said, day, made, dropped, emitted, losses>>

-----------------------------------------------------------------------------
(* A person's settings, the calendar, and the loss of the file.            *)

\* sibyl reminders on|off and sibyl autosave on|off.
Asking(setting) ==
  /\ file.on # setting
  /\ file' = [file EXCEPT !.on = setting]
  /\ UNCHANGED <<saves, mem, hook, said, day, made, dropped, emitted, losses>>

NextDay ==
  /\ day < MaxDays
  /\ day' = day + 1 /\ emitted' = 0
  /\ UNCHANGED <<file, saves, mem, hook, said, made, dropped, losses>>

LoseFile ==
  /\ losses < MaxLosses
  /\ file' = DefaultFile
  /\ losses' = losses + 1 /\ emitted' = 0
  /\ dropped' = dropped + file.total
  /\ UNCHANGED <<saves, mem, hook, said, day, made>>

TimerThread(h) == Timer(h) \/ TimerFlush(h)
MainThread(h) == Flush(h) \/ NoteSave(h) \/ Record(h)

Next ==
  \/ \E h \in Hosts :
       \/ OpenHost(h) \/ Activity(h) \/ Write(h) \/ Save(h)
       \/ Look(h) \/ Crash(h) \/ MainThread(h) \/ TimerThread(h)
  \/ \E c \in Codes :
       \/ SessionStart(c) \/ Prompt(c) \/ PreCompact(c) \/ Stop(c) \/ AlreadyAsked(c)
       \/ Ask(c) \/ SessionEnd(c)
  \/ \E setting \in BOOLEAN : Asking(setting)
  \/ NextDay \/ LoseFile

\* A process runs on: the steps it has begun and its flush timer are fair, what
\* people, models and harnesses do is not.
Fairness == \A h \in Hosts : WF_vars(MainThread(h)) /\ WF_vars(TimerThread(h))

Spec == Init /\ [][Next]_vars /\ Fairness

-----------------------------------------------------------------------------

SessionRecords ==
  [seen : BOOLEAN, began : 0..MaxSaves, active : 0..MaxActive, atSave : 0..MaxActive,
   nudges : 0..SessionCap, lastNudge : 0..MaxActive, floor : Nat, prompts : 0..MinPrompts,
   saved : BOOLEAN, compacted : BOOLEAN, ended : BOOLEAN]

\* Every value has its shape: no request past the cap of a session is recorded,
\* and active time at the last save never passes the active time.
TypeOK ==
  /\ file \in [on : BOOLEAN, total : 0..MaxWrites, since : 0..MaxWrites,
               lastSave : 0..MaxSaves, day : 0..MaxDays, asked : 0..DayCap,
               sess : [Sessions -> SessionRecords]]
  /\ \A s \in Sessions : file.sess[s].atSave <= file.sess[s].active
  /\ saves \in 0..MaxSaves /\ day \in 1..MaxDays /\ losses \in 0..MaxLosses
  /\ made \in 0..MaxWrites /\ dropped \in 0..MaxWrites
  /\ said \in [Codes -> Seq(Nat)]

\* However often lifecycle.json is lost, a Claude Code session is never
\* continued twice under one request number (hooks.py: "each numbered request
\* is made at most once even if that file was rewritten").
NumbersNeverRepeat ==
  \A c \in Codes : \A i, j \in DOMAIN said[c] : i # j => said[c][i] # said[c][j]

\* The requests of all agents on a computer, decided by processes that look
\* first and record later, stay within the day's cap; and a host keeps its
\* session's cap even when the file forgets it.
CapsKept ==
  /\ emitted <= DayCap
  /\ \A h \in Hosts : mem[h].nudges <= SessionCap

\* The writes that wait in the processes, one pair for each.
Held(h) == mem[h].pending + mem[h].flying + mem[h].timed
Waiting == {w \in Hosts \X (1..MaxWrites) : w[2] <= Held(w[1])}

\* Every write is counted in the file, waiting in its process, or was lost with
\* a process or a file; and none waits for ever.
WritesAddUp == made = file.total + dropped + Cardinality(Waiting)

WritesReachFile ==
  \A h \in Hosts : (mem[h].pending > 0) ~> (mem[h].pending = 0)

=============================================================================
