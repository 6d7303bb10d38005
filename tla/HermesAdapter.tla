--------------------------- MODULE HermesAdapter ---------------------------
(***************************************************************************)
(* The Hermes memory plugin.  Hermes calls it from one thread: a turn just *)
(* answered (sync_turn), a context about to be compressed, a new session   *)
(* id, shutdown, a new start.  Each turn goes to the journal in a daemon   *)
(* thread of its own, which retries a busy database and never a refusal of *)
(* the account gate; sync_turn first joins the thread before it, for five  *)
(* seconds at most.  Compression flushes pairs of the context in another   *)
(* thread and then, on Pro, writes a session capsule; shutdown writes the  *)
(* session's last capsule in a third.                                      *)
(*                                                                         *)
(* A turn is its number.  The journal is what save_context committed; each *)
(* write is one transaction.  Time is left out: a join may give up at any  *)
(* moment, a sleep may end at any moment.                                  *)
(***************************************************************************)
EXTENDS Integers, Sequences, FiniteSets, SequencesExt

CONSTANTS
  SessionIds,
  FirstSession,
  Attempts,       \* _BUSY_RETRY_ATTEMPTS
  MaxTurns,       \* bound: turns handed to sync_turn
  MaxFlushes,     \* bound: compressions
  MaxHostCalls,   \* bound: session switches and restarts
  MaxGate         \* bound: sign-ins and sign-outs

ASSUME HermesBounds ==
  /\ FirstSession \in SessionIds
  /\ {Attempts, MaxTurns, MaxFlushes, MaxHostCalls, MaxGate} \subseteq Nat
  /\ Attempts >= 1

Turns == 1..MaxTurns
Flushes == 1..MaxFlushes

VARIABLES
  host,       \* what Hermes' thread is doing
  session,    \* _session_id
  turns,      \* turns handed over
  shutting,   \* _shutting_down
  last,       \* _sync_thread: the turn whose writer it is, 0 for none
  writer,     \* turn -> [pc, attempt, sid]: its sync thread
  flush,      \* compression -> [pc, pairs]: its flush thread
  ender,      \* the shutdown capsule's thread
  ended,      \* _capsule_written
  journal,    \* the turns' entries [turn, sid], oldest first
  flushed,    \* the turns a compression has recorded too
  capsules,   \* the session capsules written since the plugin started
  gate,       \* the account gate lets writes through
  hostCalls, changes,
  handed      \* history: turn -> the session it was spoken in

hostVars == <<host, session, turns, shutting, last, ended, hostCalls, handed>>
threadVars == <<writer, flush, ender>>
storeVars == <<journal, flushed, capsules, gate, changes>>
hermesVars == <<hostVars, threadVars, storeVars>>

HermesInit ==
  /\ host = "idle" /\ session = FirstSession /\ turns = 0
  /\ shutting = FALSE /\ last = 0 /\ ended = FALSE
  /\ writer = [n \in Turns |-> [pc |-> "none", attempt |-> 1, sid |-> FirstSession]]
  /\ flush = [f \in Flushes |-> [pc |-> "none", pairs |-> <<>>]]
  /\ ender = "none"
  /\ journal = <<>> /\ flushed = {} /\ capsules = {}
  /\ gate \in {TRUE, FALSE}
  /\ hostCalls = 0 /\ changes = 0
  /\ handed = [n \in Turns |-> FirstSession]

-----------------------------------------------------------------------------
(* Hermes' thread.                                                          *)
Running(n) == n # 0 /\ writer[n].pc \in {"check", "write", "sleep"}

\* The caller keeps the session of the turn, whatever the writer finds later.
SyncTurn(n) ==
  /\ host = "idle" /\ n = turns + 1
  /\ turns' = n
  /\ handed' = [handed EXCEPT ![n] = session]
  /\ writer' = [writer EXCEPT ![n] = [pc |-> "ready", attempt |-> 1, sid |-> session]]
  /\ host' = "joining"
  /\ UNCHANGED <<session, shutting, last, ended, hostCalls, flush, ender, storeVars>>

\* The join before the new writer starts: the last writer has ended, or the
\* time is up.
StartWriter(n) ==
  /\ host = "joining" /\ n = turns
  /\ writer' = [writer EXCEPT ![n].pc = "check"]
  /\ last' = n
  /\ host' = "idle"
  /\ UNCHANGED <<session, turns, shutting, ended, hostCalls, handed, flush, ender, storeVars>>

\* The pairs of the context: the last turns, as far back as it goes.
PreCompress(f) ==
  /\ host = "idle" /\ flush[f].pc = "none" /\ \A g \in 1..(f - 1) : flush[g].pc # "none"
  /\ \E from \in 1..turns :
       flush' = [flush EXCEPT ![f] =
                   [pc |-> "pairs", pairs |-> [i \in 1..(turns - from + 1) |-> from + i - 1]]]
  /\ UNCHANGED <<hostVars, writer, ender, storeVars>>

SwitchSession(s) ==
  /\ host = "idle" /\ hostCalls < MaxHostCalls /\ s # session
  /\ session' = s /\ hostCalls' = hostCalls + 1
  /\ UNCHANGED <<host, turns, shutting, last, ended, handed, threadVars, storeVars>>

\* The flag first, then the join of the last writer; a second one may follow.
Shutdown ==
  /\ \/ host = "idle" /\ UNCHANGED hostCalls
     \/ host = "off" /\ hostCalls < MaxHostCalls /\ ender # "run" /\ hostCalls' = hostCalls + 1
  /\ shutting' = TRUE /\ host' = "ending"
  /\ UNCHANGED <<session, turns, last, ended, handed, threadVars, storeVars>>

\* The join has ended, or its ten seconds have.
StartCapsule ==
  /\ host = "ending"
  /\ IF ended THEN host' = "off" /\ UNCHANGED ender
     ELSE host' = "capsule" /\ ender' = "run"
  /\ UNCHANGED <<session, turns, shutting, last, ended, hostCalls, handed, writer, flush,
                 storeVars>>

JoinCapsule ==
  /\ host = "capsule"
  /\ ended' = (ender = "wrote")     \* not when the join gave up on it
  /\ host' = "off"
  /\ UNCHANGED <<session, turns, shutting, last, hostCalls, handed, threadVars, storeVars>>

\* The same process starts the plugin again: initialize, _lifecycle_start.
Initialize(s) ==
  /\ host = "off" /\ hostCalls < MaxHostCalls /\ ender # "run"
  /\ hostCalls' = hostCalls + 1
  /\ session' = s /\ shutting' = FALSE /\ ended' = FALSE
  /\ ender' = "none" /\ host' = "idle"
  /\ capsules' = {}
  /\ UNCHANGED <<turns, last, handed, writer, flush, journal, flushed, gate, changes>>

-----------------------------------------------------------------------------
(* The daemon threads.                                                      *)
WriterGoes(n, to) == writer' = [writer EXCEPT ![n].pc = to]

CheckStop(n) ==
  /\ writer[n].pc = "check"
  /\ WriterGoes(n, IF shutting THEN "skipped" ELSE "write")
  /\ UNCHANGED <<hostVars, flush, ender, storeVars>>

AfterWriteForgotten == "sleep"
AfterWrite == "written"
StampedWith(n) == writer[n].sid

WriteTurn(n) ==
  /\ writer[n].pc = "write" /\ gate
  /\ journal' = Append(journal, [turn |-> n, sid |-> StampedWith(n)])
  /\ WriterGoes(n, AfterWrite)
  /\ UNCHANGED <<hostVars, flush, ender, flushed, capsules, gate, changes>>

\* The gate's refusal ends the thread; it is not a busy database.
AfterRefusalRetried == "check"
AfterRefusal == "refused"
RefuseTurn(n) ==
  /\ writer[n].pc = "write" /\ ~gate
  /\ WriterGoes(n, AfterRefusal)
  /\ UNCHANGED <<hostVars, flush, ender, storeVars>>

\* A busy database, a full cap or any other error.
RetryLeft(n) == writer[n].attempt < Attempts
FailTurn(n) ==
  /\ writer[n].pc = "write" /\ gate
  /\ WriterGoes(n, IF RetryLeft(n) THEN "sleep" ELSE "dropped")
  /\ UNCHANGED <<hostVars, flush, ender, storeVars>>

Wake(n) ==
  /\ writer[n].pc = "sleep"
  /\ writer' = [writer EXCEPT ![n].pc = "check", ![n].attempt = @ + 1]
  /\ UNCHANGED <<hostVars, flush, ender, storeVars>>

Writer(n) == CheckStop(n) \/ WriteTurn(n) \/ RefuseTurn(n) \/ FailTurn(n) \/ Wake(n)

FlushGoes(f, pc, pairs) == flush' = [flush EXCEPT ![f].pc = pc, ![f].pairs = pairs]

\* One pair after another until shutdown; a failed one is left out, a refusal
\* ends the thread.
FlushPair(f) ==
  /\ flush[f].pc = "pairs"
  /\ \/ shutting /\ FlushGoes(f, "done", <<>>) /\ UNCHANGED flushed
     \/ /\ ~shutting /\ flush[f].pairs # <<>>
        /\ FlushGoes(f, IF gate THEN "pairs" ELSE "done", Tail(flush[f].pairs))
        /\ flushed' \in {flushed} \union (IF gate THEN {flushed \union {Head(flush[f].pairs)}}
                                          ELSE {})
     \/ /\ ~shutting /\ flush[f].pairs = <<>>
        /\ FlushGoes(f, "capsule", <<>>) /\ UNCHANGED flushed
  /\ UNCHANGED <<hostVars, writer, ender, journal, capsules, gate, changes>>

WriteCapsule(reason) == capsules' = capsules \union {reason}
FlushCapsule(f) ==
  /\ flush[f].pc = "capsule"
  /\ \/ gate /\ WriteCapsule("pre_compress")
     \/ UNCHANGED capsules
  /\ FlushGoes(f, "done", <<>>)
  /\ UNCHANGED <<hostVars, writer, ender, journal, flushed, gate, changes>>

EndCapsule ==
  /\ ender = "run"
  /\ \/ gate /\ WriteCapsule("shutdown") /\ ender' = "wrote"
     \/ ender' = "none" /\ UNCHANGED capsules
  /\ UNCHANGED <<hostVars, writer, flush, journal, flushed, gate, changes>>

\* A sign-in or a sign-out, from a terminal.
GateChanges ==
  /\ changes < MaxGate
  /\ gate' = ~gate /\ changes' = changes + 1
  /\ UNCHANGED <<hostVars, threadVars, journal, flushed, capsules>>

HostStep ==
  \/ \E n \in Turns : StartWriter(n)
  \/ StartCapsule \/ JoinCapsule
HermesNext ==
  \/ HostStep
  \/ \E n \in Turns : SyncTurn(n) \/ Writer(n)
  \/ \E f \in Flushes : PreCompress(f) \/ FlushPair(f) \/ FlushCapsule(f)
  \/ Shutdown \/ EndCapsule \/ GateChanges
  \/ \E s \in SessionIds : SwitchSession(s) \/ Initialize(s)

\* A thread of a live process is scheduled, and a join ends at its timeout.
HermesFair ==
  /\ WF_hermesVars(HostStep)
  /\ \A n \in Turns : WF_hermesVars(Writer(n))
HermesSpec == HermesInit /\ [][HermesNext]_hermesVars /\ HermesFair

-----------------------------------------------------------------------------

EntriesOf(n) == {i \in DOMAIN journal : journal[i].turn = n}

\* Retries, shutdowns and restarts: a turn is in the journal once when its
\* writer ended well, and not at all otherwise; under the session it was
\* spoken in, though the session may have changed since.
TurnOnce ==
  \A n \in Turns :
    /\ Cardinality(EntriesOf(n)) = IF writer[n].pc = "written" THEN 1 ELSE 0
    /\ \A i \in EntriesOf(n) : journal[i].sid = handed[n]

\* Every turn's thread ends, whatever the database and the account do.
WritersEnd == \A n \in Turns : (writer[n].pc = "check") ~> ~Running(n)

=============================================================================
