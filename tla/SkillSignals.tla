---------------------------- MODULE SkillSignals ----------------------------
(***************************************************************************)
(* The recorder of skill signals, lifecycle/signals.py: which tools were   *)
(* called when, kept in signals.json for the learner.  A host buffers its  *)
(* events and flushes them later; a Stop hook reads Claude Code's          *)
(* transcript from a stored offset.  A person may switch recording off and *)
(* on again and clear what was recorded, at any time and from another      *)
(* process: lifecycle.json then carries a switch and a floor, and every    *)
(* recorder must look at both under the lock that protects signals.json.   *)
(*                                                                         *)
(* Times are instants; stamps are cut to the second, as the code does.     *)
(* Of a recorded event only its instant is kept: n-grams, sessions and     *)
(* their eviction are left out.                                            *)
(***************************************************************************)
EXTENDS Integers, Sequences, FiniteSets

CONSTANTS
  Buffers,   \* processes with a SignalBuffer
  Second,    \* instants in a second
  MaxNow     \* bound: instants of an instance

ASSUME SignalBounds == {Second, MaxNow} \subseteq Nat \ {0}

VARIABLES
  now,
  on,         \* lifecycle.json skills.signals
  since,      \* lifecycle.json skills.signals_since, the floor
  signals,    \* signals.json: the instants of the events it counts
  buffer,     \* each process's unflushed events
  armed,      \* what each process last read of the switch
  script,     \* the transcript: the instants of its tool uses
  offset,     \* how far the Stop hook has read it
  snapshot,   \* what a running learner loaded
  unwanted    \* instants at which recording was off, or cleared since

signalVars == <<now, on, since, signals, buffer, armed, script, offset, snapshot, unwanted>>

SignalInit ==
  /\ now = 1
  /\ on = TRUE /\ since = 0
  /\ signals = {}
  /\ buffer = [b \in Buffers |-> {}]
  /\ armed = [b \in Buffers |-> TRUE]
  /\ script = <<>> /\ offset = 0
  /\ snapshot = {}
  /\ unwanted = {}

\* float(int(time.time())): the second an instant belongs to.
Stamp(t) == t - (t % Second)

\* The part of a flush or of a slice that is not older than the floor.
KeptAll(events) == events
Kept(events) == {t \in events : Stamp(t) >= since}

\* Instants pass one by one; whatever happens, happens at one of its own.
Pass == now < MaxNow /\ now' = now + 1
Noted == unwanted' = IF on THEN unwanted ELSE unwanted \union {now}

\* note_tool, note_entity_write: armed by the switch as this process last read
\* it (the flag is read anew when lifecycle.json changed).
Reread(b) ==
  /\ armed[b] # on
  /\ armed' = [armed EXCEPT ![b] = on]
  /\ UNCHANGED <<now, on, since, signals, buffer, script, offset, snapshot, unwanted>>

NoteTool(b) ==
  /\ Pass /\ Noted
  /\ buffer' = [buffer EXCEPT ![b] = IF armed[b] THEN @ \union {now} ELSE @]
  /\ UNCHANGED <<on, since, signals, armed, script, offset, snapshot>>

\* flush: by number of events, by the timer, at exit.
FlushSignals(b) ==
  /\ buffer[b] # {}
  /\ signals' = IF on THEN signals \union Kept(buffer[b]) ELSE signals
  /\ buffer' = [buffer EXCEPT ![b] = {}]
  /\ UNCHANGED <<now, on, since, armed, script, offset, snapshot, unwanted>>

KillRecorder(b) ==
  /\ buffer[b] # {}
  /\ buffer' = [buffer EXCEPT ![b] = {}]
  /\ UNCHANGED <<now, on, since, signals, armed, script, offset, snapshot, unwanted>>

\* Claude Code uses a tool: the transcript grows whatever the switch says.
ToolUse ==
  /\ Pass /\ Noted
  /\ script' = Append(script, now)
  /\ UNCHANGED <<on, since, signals, buffer, armed, offset, snapshot>>

\* record_transcript: one slice from the offset under the lock; when recording
\* is off the offset moves to the end and nothing is read.
RecordTranscript ==
  /\ offset < Len(script)
  /\ \E end \in (offset + 1)..Len(script) :
       LET slice == {script[i] : i \in (offset + 1)..end} IN
         /\ signals' = IF on THEN signals \union Kept(slice) ELSE signals
         /\ offset' = IF on THEN end ELSE Len(script)
  /\ UNCHANGED <<now, on, since, buffer, armed, script, snapshot, unwanted>>

\* Killed between signals.json and lifecycle.json, or the session's record was
\* evicted: the transcript is read again from an earlier offset.
OffsetLost ==
  /\ offset > 0
  /\ offset' = 0
  /\ UNCHANGED <<now, on, since, signals, buffer, armed, script, snapshot, unwanted>>

SetEnabled(switch) ==
  /\ Pass
  /\ on' = switch
  /\ since' = IF switch THEN now ELSE since
  /\ unwanted' = IF on THEN unwanted ELSE unwanted \union {now}
  /\ UNCHANGED <<signals, buffer, armed, script, offset, snapshot>>

\* clear: the floor moves and the file goes, in one locked pass.
ClearSignals ==
  /\ Pass
  /\ since' = now
  /\ signals' = {}
  /\ unwanted' = 1..now
  /\ UNCHANGED <<on, buffer, armed, script, offset, snapshot>>

\* run_learner loads a snapshot, and proposes from it later.
LoadSignals ==
  /\ on /\ snapshot = {} /\ signals # {}
  /\ snapshot' = signals
  /\ UNCHANGED <<now, on, since, signals, buffer, armed, script, offset, unwanted>>

ProposeFromSignals ==
  /\ snapshot # {}
  /\ snapshot' = {}
  /\ UNCHANGED <<now, on, since, signals, buffer, armed, script, offset, unwanted>>

SignalNext ==
  \/ \E b \in Buffers : Reread(b) \/ NoteTool(b) \/ FlushSignals(b) \/ KillRecorder(b)
  \/ ToolUse \/ RecordTranscript \/ OffsetLost
  \/ \E switch \in BOOLEAN : SetEnabled(switch)
  \/ ClearSignals \/ LoadSignals \/ ProposeFromSignals

SignalSpec == SignalInit /\ [][SignalNext]_signalVars

-----------------------------------------------------------------------------

\* What happened while recording was off, and what a person cleared, is never
\* in signals.json again: not from a buffer that was filled before, not from a
\* transcript read later or twice (signals.py: "a running process cannot write
\* back what it buffered before", "never read back over the time it was off").
NothingUnwanted == signals \intersect unwanted = {}

=============================================================================
