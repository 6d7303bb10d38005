----------------------------- MODULE Hosts_proofs -----------------------------
(***************************************************************************)
(* What a person may rely on about the hosts' own files and threads, for   *)
(* any number of installers, recorders, hosts, sessions, turns and events: *)
(* installed skills (SkillFiles), recorded signals (SkillSignals), save    *)
(* requests and write counts (SaveReminders), Hermes' turns                *)
(* (HermesAdapter), the counts of sequences of calls and what is proposed  *)
(* of them (ToolSequences).                                                *)
(***************************************************************************)
EXTENDS SkillFiles, SkillSignals, SaveReminders, HermesAdapter, ToolSequences,
        FiniteFolds

-----------------------------------------------------------------------------
(* The files.                                                               *)

\* A record is the checksum of a version, never of an edit.
FilesOK ==
  /\ text \in Drafts \union 0..NewestShipped /\ theirs \in Drafts \union {NoText}
  /\ record \in 0..NewestShipped
  /\ package \in 1..NewestShipped
  /\ step \in [Installers -> {"idle", "apply", "store"}]
  /\ task \in [Installers -> {"install", "force", "remove", "other"}]
  /\ ver \in [Installers -> 1..NewestShipped]
  /\ seen \in [Installers -> [text : Drafts \union 0..NewestShipped, record : 0..NewestShipped,
                              flag : {"no", "yes"}]]
  /\ flag \in {"no", "yes"} /\ racy \in BOOLEAN

\* An installer about to write has seen the edit it must spare.
EditSeen ==
  \A i \in Installers : step[i] = "apply" /\ theirs # NoText /\ ~racy => seen[i].text = theirs

EditsInv == FilesOK /\ EditSeen /\ EditsStay

LEMMA SkillStart == SkillInit => EditsInv
<1> SUFFICES ASSUME SkillInit PROVE EditsInv
  OBVIOUS
<1>1. 0 \in 0..NewestShipped /\ 1 \in 1..NewestShipped
  BY ShippedVersions
<1>2. FilesOK
  BY <1>1 DEF SkillInit, FilesOK, NothingSeen, NoText
<1>3. EditSeen /\ EditsStay
  BY DEF SkillInit, EditSeen, EditsStay
<1>4. QED
  BY <1>2, <1>3 DEF EditsInv

LEMMA SkillStep == EditsInv /\ [SkillNext]_skillVars => EditsInv'
<1> SUFFICES ASSUME EditsInv, [SkillNext]_skillVars PROVE EditsInv'
  OBVIOUS
<1> USE ShippedVersions, EditsDiffer
    DEF EditsInv, FilesOK, EditSeen, EditsStay, NothingSeen, NoText, Resets
<1>1. ASSUME NEW i \in Installers, NEW what \in {"install", "force", "remove", "other"}, Load(i, what)
      PROVE  EditsInv'
  BY <1>1 DEF Load
<1>2. ASSUME NEW i \in Installers, Put(i) PROVE EditsInv'
  <2>1. ver[i] \in 1..NewestShipped /\ 0 \in 0..NewestShipped
    OBVIOUS
  <2>2. text' \in Drafts \union 0..NewestShipped /\ theirs' \in Drafts \union {NoText}
    BY <1>2, <2>1 DEF Put
  <2>3. FilesOK'
    BY <1>2, <2>1, <2>2 DEF Put
  <2>4. ASSUME theirs' # NoText, ~racy PROVE text' = text /\ theirs' = theirs
    <3>1. theirs' = theirs /\ theirs \in Drafts /\ seen[i].text = theirs
      BY <1>2, <2>4 DEF Put
    <3>2. seen[i].record \in 0..NewestShipped
      OBVIOUS
    <3>3. seen[i].text = ver[i] \/ task[i] = "force"
      BY <1>2, <3>1, <3>2 DEF Put, Replaceable
    <3>4. QED
      BY <1>2, <2>4, <3>1, <3>3 DEF Put
  <2>5. EditSeen' /\ EditsStay'
    BY <1>2, <2>4 DEF Put
  <2>6. QED
    BY <2>3, <2>5
<1>3. ASSUME NEW i \in Installers, Keep(i) PROVE EditsInv'
  <2>1. /\ UNCHANGED <<text, theirs, racy, record, flag, package>>
        /\ step'[i] # "apply" /\ \A j \in Installers \ {i} : step'[j] = step[j] /\ seen'[j] = seen[j]
    BY <1>3 DEF Keep
  <2>2. \A j \in Installers :
          seen'[j] \in [text : Drafts \union 0..NewestShipped, record : 0..NewestShipped, flag : {"no", "yes"}]
    <3>1. CASE kind = "canonical"
      <4>1. ver[i] \in 0..NewestShipped
        OBVIOUS
      <4>2. QED
        BY <1>3, <3>1, <4>1 DEF Keep
    <3>2. CASE kind # "canonical"
      BY <1>3, <3>2 DEF Keep
    <3>3. QED
      BY <3>1, <3>2
  <2>3. /\ seen' = [j \in Installers |-> seen'[j]]
        /\ step' \in [Installers -> {"idle", "apply", "store"}]
        /\ task' \in [Installers -> {"install", "force", "remove", "other"}]
        /\ ver' \in [Installers -> 1..NewestShipped]
    BY <1>3 DEF Keep
  <2>4. FilesOK'
    BY <2>1, <2>2, <2>3
  <2>5. QED
    BY <2>1, <2>4
<1>4. ASSUME NEW i \in Installers, Unlink(i) PROVE EditsInv'
  BY <1>4 DEF Unlink, Removable
<1>5. ASSUME NEW i \in Installers, LeaveEdited(i) \/ StoreManifest(i) \/ KillInstaller(i)
      PROVE  EditsInv'
  <2>1. record' \in 0..NewestShipped /\ flag' \in {"no", "yes"}
    BY <1>5 DEF LeaveEdited, StoreManifest, KillInstaller
  <2>2. /\ Resets(i)
        /\ UNCHANGED <<text, package, theirs, racy>>
    BY <1>5 DEF LeaveEdited, StoreManifest, KillInstaller
  <2>3. QED
    BY <2>1, <2>2
<1>6. ASSUME NEW draft \in Drafts, EditFile(draft) PROVE EditsInv'
  BY <1>6 DEF EditFile
<1>7. CASE DeleteFile \/ UndoEdit
  BY <1>7 DEF DeleteFile, UndoEdit
<1>8. CASE LoseManifest \/ Upgrade
  BY <1>8 DEF LoseManifest, Upgrade
<1>9. CASE UNCHANGED skillVars
  BY <1>9 DEF skillVars
<1>10. QED
  BY <1>1, <1>2, <1>3, <1>4, <1>5, <1>6, <1>7, <1>8, <1>9 DEF SkillNext

\* No installer of any version replaces or removes a text a person wrote, but
\* under force, or when it was written between the installer's look and write.
THEOREM EditsAreKept == SkillSpec => []EditsStay
<1>1. EditsInv => EditsStay
  BY DEF EditsInv
<1>2. QED
  BY SkillStart, SkillStep, <1>1, PTL DEF SkillSpec

-----------------------------------------------------------------------------
(* The signals.                                                             *)

\* The instants of the events that are recorded or may be yet.
Events ==
  {t \in Nat : \/ t \in signals
               \/ \E b \in Buffers : t \in buffer[b]
               \/ \E n \in DOMAIN script : script[n] = t}

SignalsOK ==
  /\ now \in Nat \ {0} /\ since \in Nat /\ since < now
  /\ on \in BOOLEAN
  /\ buffer \in [Buffers -> SUBSET Nat] /\ armed \in [Buffers -> BOOLEAN]
  /\ script \in Seq(Nat) /\ offset \in 0..Len(script)
  /\ signals \subseteq Nat /\ unwanted \subseteq Nat
  /\ \A t \in Events \union unwanted : t < now

\* While recording is on, what must not be recorded is older than the floor.
Below == on => \A t \in Events \intersect unwanted : t < since

SignalInv == SignalsOK /\ Below /\ NothingUnwanted

LEMMA SignalStart == SignalInit => SignalInv
  BY SignalBounds DEF SignalInit, SignalInv, SignalsOK, Below, NothingUnwanted, Events

\* Cutting an instant to its second makes it no younger.
LEMMA StampEarlier == ASSUME NEW t \in Nat PROVE Stamp(t) <= t
<1>1. Second \in Nat \ {0}
  BY SignalBounds
<1>2. t % Second \in 0..(Second - 1)
  BY <1>1
<1>3. QED
  BY <1>1, <1>2 DEF Stamp

LEMMA KeptWanted ==
  ASSUME SignalInv, on, NEW E \in SUBSET Events
  PROVE  Kept(E) \intersect unwanted = {} /\ Kept(E) \subseteq E
<1> SUFFICES ASSUME NEW t \in Kept(E), t \in unwanted PROVE FALSE
  BY DEF Kept
<1>1. t \in Nat /\ t \in Events /\ Stamp(t) >= since
  BY DEF Kept, SignalInv, SignalsOK
<1>2. t < since
  BY <1>1 DEF SignalInv, Below
<1>3. Stamp(t) \in Int /\ since \in Nat
  BY <1>1, SignalBounds DEF Stamp, SignalInv, SignalsOK
<1>4. QED
  BY <1>1, <1>2, <1>3, StampEarlier

LEMMA SignalStep == SignalInv /\ [SignalNext]_signalVars => SignalInv'
<1> SUFFICES ASSUME SignalInv, [SignalNext]_signalVars PROVE SignalInv'
  OBVIOUS
<1>1. /\ now \in Nat \ {0} /\ since \in Nat /\ since < now /\ on \in BOOLEAN
      /\ buffer \in [Buffers -> SUBSET Nat] /\ armed \in [Buffers -> BOOLEAN]
      /\ script \in Seq(Nat) /\ offset \in 0..Len(script)
      /\ signals \subseteq Nat /\ unwanted \subseteq Nat
      /\ \A t \in Events \union unwanted : t < now
  BY DEF SignalInv, SignalsOK
<1>2. Below /\ NothingUnwanted
  BY DEF SignalInv
<1>a. /\ Events \subseteq Nat /\ signals \subseteq Events /\ now \notin Events /\ now \notin unwanted
      /\ \A b \in Buffers : buffer[b] \subseteq Events
  BY <1>1 DEF Events
\* A step that records and forgets at most what was there, and wants no less.
<1>3. ASSUME /\ UNCHANGED <<now, on, since, script, unwanted>>
             /\ buffer' \in [Buffers -> SUBSET Nat] /\ armed' \in [Buffers -> BOOLEAN]
             /\ \A b \in Buffers : buffer'[b] \subseteq buffer[b]
             /\ offset' \in 0..Len(script)
             /\ signals' \subseteq Events /\ signals' \intersect unwanted = {}
      PROVE  SignalInv'
  <2>1. Events' \subseteq Events /\ signals' \subseteq Nat
    <3>1. Events \subseteq Nat
      BY <1>1 DEF Events
    <3>2. QED
      BY <1>3, <3>1 DEF Events
  <2>2. SignalsOK'
    BY <1>1, <1>3, <2>1 DEF SignalsOK
  <2>3. Below' /\ NothingUnwanted'
    BY <1>2, <1>3, <2>1 DEF Below, NothingUnwanted
  <2>4. QED
    BY <2>2, <2>3 DEF SignalInv
<1>4. ASSUME NEW b \in Buffers, Reread(b) \/ KillRecorder(b) PROVE SignalInv'
  <2>1. armed' \in [Buffers -> BOOLEAN]
    BY <1>1, <1>4, Zenon DEF Reread, KillRecorder
  <2>2. buffer' \in [Buffers -> SUBSET Nat] /\ \A d \in Buffers : buffer'[d] \subseteq buffer[d]
    BY <1>1, <1>4 DEF Reread, KillRecorder
  <2>3. UNCHANGED <<now, on, since, script, unwanted, offset, signals>>
    BY <1>4 DEF Reread, KillRecorder
  <2>4. signals \subseteq Events /\ signals \intersect unwanted = {}
    BY <1>2, <1>a DEF NothingUnwanted
  <2>5. QED
    BY <1>1, <1>3, <2>1, <2>2, <2>3, <2>4
<1>5. CASE OffsetLost \/ LoadSignals \/ ProposeFromSignals
  <2>1. UNCHANGED <<now, on, since, script, unwanted, buffer, armed, signals>> /\ offset' \in 0..Len(script)
    BY <1>1, <1>5 DEF OffsetLost, LoadSignals, ProposeFromSignals
  <2>2. signals \subseteq Events /\ signals \intersect unwanted = {}
    BY <1>2, <1>a DEF NothingUnwanted
  <2>3. QED
    BY <1>1, <1>3, <2>1, <2>2
<1>6. ASSUME NEW b \in Buffers, FlushSignals(b) PROVE SignalInv'
  <2>1. buffer[b] \subseteq Events /\ signals \subseteq Events
    BY <1>a
  <2>2. signals' \subseteq Events /\ signals' \intersect unwanted = {}
    <3>1. CASE on
      BY <1>2, <1>6, <2>1, <3>1, KeptWanted DEF FlushSignals, NothingUnwanted
    <3>2. CASE ~on
      BY <1>2, <1>6, <2>1, <3>2 DEF FlushSignals, NothingUnwanted
    <3>3. QED
      BY <3>1, <3>2
  <2>3. buffer' \in [Buffers -> SUBSET Nat] /\ \A d \in Buffers : buffer'[d] \subseteq buffer[d]
    BY <1>1, <1>6 DEF FlushSignals
  <2>4. UNCHANGED <<now, on, since, script, unwanted, offset, armed>>
    BY <1>6 DEF FlushSignals
  <2>5. QED
    BY <1>1, <1>3, <2>2, <2>3, <2>4
<1>7. CASE RecordTranscript
  <2>1. PICK end \in (offset + 1)..Len(script) :
           LET slice == {script[i] : i \in (offset + 1)..end} IN
             /\ signals' = IF on THEN signals \union Kept(slice) ELSE signals
             /\ offset' = IF on THEN end ELSE Len(script)
    BY <1>7 DEF RecordTranscript
  <2> DEFINE slice == {script[i] : i \in (offset + 1)..end}
  <2>2. slice \subseteq Events /\ signals \subseteq Events
    <3>1. \A i \in (offset + 1)..end : i \in DOMAIN script /\ script[i] \in Nat
      BY <1>1, <2>1
    <3>2. QED
      BY <3>1, <1>a DEF Events
  <2>3. signals' \subseteq Events /\ signals' \intersect unwanted = {}
    <3>1. CASE on
      <4>1. signals' = signals \union Kept(slice)
        BY <2>1, <3>1
      <4> HIDE DEF slice
      <4>2. QED
        BY <1>2, <2>2, <3>1, <4>1, KeptWanted DEF NothingUnwanted
    <3>2. CASE ~on
      BY <1>2, <2>1, <2>2, <3>2 DEF NothingUnwanted
    <3>3. QED
      BY <3>1, <3>2
  <2>4. offset' \in 0..Len(script)
    BY <1>1, <2>1
  <2>5. UNCHANGED <<now, on, since, script, unwanted, buffer, armed>>
    BY <1>7 DEF RecordTranscript
  <2>6. QED
    BY <1>1, <1>3, <2>3, <2>4, <2>5
\* An event of this instant, wanted if recording is on.
<1>8. ASSUME /\ Pass /\ Noted
             /\ UNCHANGED <<on, since, signals, armed, offset>>
             /\ buffer' \in [Buffers -> SUBSET Nat] /\ script' \in Seq(Nat) /\ offset \in 0..Len(script')
             /\ Events' \subseteq Events \union {now}
      PROVE  SignalInv'
  <2>1. now' = now + 1
    BY <1>8 DEF Pass
  <2>2. unwanted' \subseteq unwanted \union {now} /\ (on => unwanted' = unwanted)
    BY <1>8 DEF Noted
  <2>3. SignalsOK'
    <3>1. on' \in BOOLEAN /\ armed' \in [Buffers -> BOOLEAN]
      BY <1>1, <1>8, Zenon
    <3>2. \A t \in Events' \union unwanted' : t < now'
      <4>1. \A t \in Events \union unwanted \union {now} : t \in Nat /\ t < now'
        BY <1>1, <1>a, <2>1
      <4>2. QED
        BY <1>8, <2>2, <4>1
    <3>3. unwanted' \subseteq Nat /\ now' \in Nat \ {0} /\ since' < now'
      BY <1>1, <1>8, <2>1, <2>2
    <3>4. QED
      BY <1>1, <1>8, <3>1, <3>2, <3>3 DEF SignalsOK
  <2>4. Below'
    BY <1>2, <1>8, <1>a, <2>2 DEF Below
  <2>5. NothingUnwanted'
    BY <1>2, <1>8, <1>a, <2>2 DEF NothingUnwanted
  <2>6. QED
    BY <2>3, <2>4, <2>5 DEF SignalInv
<1>9. ASSUME NEW b \in Buffers, NoteTool(b) PROVE SignalInv'
  <2>1. buffer' \in [Buffers -> SUBSET Nat] /\ \A d \in Buffers : buffer'[d] \subseteq buffer[d] \union {now}
    BY <1>1, <1>9 DEF NoteTool
  <2>2. Events' \subseteq Events \union {now}
    BY <1>9, <2>1 DEF NoteTool, Events
  <2>3. QED
    BY <1>1, <1>8, <1>9, <2>1, <2>2 DEF NoteTool
<1>10. CASE ToolUse
  <2>1. script' = Append(script, now)
    BY <1>10 DEF ToolUse
  <2>2. script' \in Seq(Nat) /\ offset \in 0..Len(script')
    BY <1>1, <2>1
  <2>3. \A n \in DOMAIN script' : script'[n] = now \/ (n \in DOMAIN script /\ script'[n] = script[n])
    BY <1>1, <2>1
  <2>4. Events' \subseteq Events \union {now}
    BY <1>10, <2>3 DEF ToolUse, Events
  <2>5. QED
    BY <1>1, <1>8, <1>10, <2>2, <2>4 DEF ToolUse
\* The floor moves to an instant at which nothing else happens.
<1>11. ASSUME /\ Pass /\ since' \in {since, now} /\ ((on' /\ ~on) => since' = now)
              /\ on' \in BOOLEAN /\ signals' \subseteq signals /\ signals' \intersect unwanted' = {}
              /\ unwanted' \subseteq Nat /\ \A t \in unwanted' : t < now'
              /\ on /\ on' => since' = now \/ unwanted' = unwanted
              /\ UNCHANGED <<buffer, armed, script, offset>>
       PROVE  SignalInv'
  <2>1. now' = now + 1 /\ Events' \subseteq Events
    BY <1>1, <1>11 DEF Pass, Events
  <2>2. SignalsOK'
    <3>1. on' \in BOOLEAN /\ armed' \in [Buffers -> BOOLEAN]
      BY <1>1, <1>11, Zenon
    <3>2. \A t \in Events' \union unwanted' : t < now'
      <4>1. \A t \in Events : t \in Nat /\ t < now'
        BY <1>1, <1>a, <2>1
      <4>2. QED
        BY <1>11, <2>1, <4>1
    <3>3. signals' \subseteq Nat /\ now' \in Nat \ {0} /\ since' \in Nat /\ since' < now'
      BY <1>1, <1>11, <2>1
    <3>4. QED
      BY <1>1, <1>11, <3>1, <3>2, <3>3 DEF SignalsOK
  <2>3. Below'
    BY <1>1, <1>2, <1>11, <2>1 DEF Below
  <2>4. QED
    BY <1>11, <2>2, <2>3 DEF SignalInv, NothingUnwanted
<1>12. ASSUME NEW switch \in BOOLEAN, SetEnabled(switch) PROVE SignalInv'
  <2>1. signals \subseteq Events /\ now \notin signals /\ now' = now + 1
    BY <1>a, <1>12 DEF SetEnabled, Pass
  <2>2. QED
    BY <1>1, <1>2, <1>11, <1>12, <2>1 DEF SetEnabled, NothingUnwanted
<1>13. CASE ClearSignals
  <2>1. now' = now + 1
    BY <1>13 DEF ClearSignals, Pass
  <2>2. unwanted' \subseteq Nat /\ \A t \in unwanted' : t < now'
    BY <1>1, <1>13, <2>1 DEF ClearSignals
  <2>3. QED
    BY <1>1, <1>11, <1>13, <2>2 DEF ClearSignals
<1>14. CASE UNCHANGED signalVars
  <2>1. signals \subseteq Events /\ signals \intersect unwanted = {}
    BY <1>2, <1>a DEF NothingUnwanted
  <2>2. QED
    BY <1>1, <1>3, <1>14, <2>1 DEF signalVars
<1>15. QED
  BY <1>4, <1>5, <1>6, <1>7, <1>9, <1>10, <1>12, <1>13, <1>14 DEF SignalNext

\* Whatever is buffered, read late, read twice, switched off and on or cleared,
\* by any number of processes and seconds of any length: nothing a person did
\* not want recorded is recorded.
THEOREM UnwantedStaysOut == SignalSpec => []NothingUnwanted
<1>1. SignalInv => NothingUnwanted
  BY DEF SignalInv
<1>2. QED
  BY SignalStart, SignalStep, <1>1, PTL DEF SignalSpec

-----------------------------------------------------------------------------
(* The turns of Hermes.  A turn past the last one handed over has no        *)
(* thread, the one being joined for has not started, and a thread that      *)
(* wrote is over: so no thread writes twice and no turn has two threads.    *)

WriterStates == {"none", "ready", "check", "write", "sleep",
                 "written", "refused", "dropped", "skipped"}

HermesTyped ==
  /\ session \in SessionIds
  /\ turns \in Nat
  /\ writer \in [Turns -> [pc : WriterStates, attempt : Nat, sid : SessionIds]]
  /\ handed \in [Turns -> SessionIds]
  /\ journal \in Seq([turn : Turns, sid : SessionIds])

\* Threads are made in the order of the turns, the newest last.
OneThread ==
  \A n \in Turns :
    /\ n > turns => writer[n].pc = "none"
    /\ host = "joining" /\ n = turns => writer[n].pc = "ready"

\* A thread keeps the session its turn was spoken in.
ThreadKeepsSession == \A n \in Turns : writer[n].pc # "none" => writer[n].sid = handed[n]

\* An entry is of a turn whose thread has written, and only one.
EntryByWriter ==
  \A n \in Turns :
    /\ writer[n].pc = "written" => \E i \in DOMAIN journal : EntriesOf(n) = {i}
    /\ writer[n].pc # "written" => EntriesOf(n) = {}
    /\ \A i \in EntriesOf(n) : journal[i].sid = handed[n]

TurnInv == HermesTyped /\ OneThread /\ ThreadKeepsSession /\ EntryByWriter

LEMMA TurnStart == HermesInit => TurnInv
<1> SUFFICES ASSUME HermesInit PROVE TurnInv
  OBVIOUS
<1> USE DEF HermesInit
<1>1. HermesTyped
  BY HermesBounds DEF HermesTyped, WriterStates
<1>2. OneThread /\ ThreadKeepsSession /\ EntryByWriter
  BY DEF OneThread, ThreadKeepsSession, EntryByWriter, EntriesOf
<1>3. QED
  BY <1>1, <1>2 DEF TurnInv

\* Entries of other turns stay where they are when one is appended.
LEMMA EntriesAfterWrite ==
  ASSUME HermesTyped, NEW n \in Turns, NEW k \in Turns, NEW s \in SessionIds,
         journal' = Append(journal, [turn |-> n, sid |-> s])
  PROVE  /\ EntriesOf(k)' = IF k = n THEN EntriesOf(k) \union {Len(journal) + 1} ELSE EntriesOf(k)
         /\ \A i \in EntriesOf(k) : journal'[i] = journal[i]
         /\ journal'[Len(journal) + 1].sid = s
         /\ Len(journal) + 1 \in DOMAIN journal'
<1>1. /\ DOMAIN journal = 1..Len(journal) /\ DOMAIN journal' = 1..(Len(journal) + 1)
      /\ Len(journal) \in Nat
      /\ \A i \in DOMAIN journal : journal'[i] = journal[i]
      /\ journal'[Len(journal) + 1] = [turn |-> n, sid |-> s]
  BY DEF HermesTyped
<1>2. EntriesOf(k)' = {i \in 1..(Len(journal) + 1) : journal'[i].turn = k}
  BY <1>1 DEF EntriesOf
<1>3. EntriesOf(k) = {i \in 1..Len(journal) : journal[i].turn = k}
  BY <1>1 DEF EntriesOf
<1>4. EntriesOf(k)' = IF k = n THEN EntriesOf(k) \union {Len(journal) + 1} ELSE EntriesOf(k)
  BY <1>1, <1>2, <1>3
<1>5. QED
  BY <1>1, <1>3, <1>4

\* Threads that move without writing, and without being made.
LEMMA WriterMoves ==
  ASSUME TurnInv, NEW n \in Turns, NEW to \in WriterStates \ {"none", "written"}, NEW k \in Nat,
         writer[n].pc \notin {"none", "written"},
         writer[n].pc # "ready" \/ (host' = "idle" /\ n = turns),
         \/ WriterGoes(n, to)
         \/ writer' = [writer EXCEPT ![n].pc = to, ![n].attempt = k],
         host' = host \/ host' # "joining",
         UNCHANGED <<session, turns, handed, journal>>
  PROVE  TurnInv'
<1>0. /\ writer \in [Turns -> [pc : WriterStates, attempt : Nat, sid : SessionIds]]
      /\ to \in WriterStates
  BY DEF TurnInv, HermesTyped
<1>1. PICK a \in Nat : writer' = [writer EXCEPT ![n] = [pc |-> to, attempt |-> a, sid |-> @.sid]]
  <2>1. CASE WriterGoes(n, to)
    <3>1. [writer[n] EXCEPT !.pc = to] = [pc |-> to, attempt |-> writer[n].attempt, sid |-> writer[n].sid]
      BY <1>0
    <3>2. writer' = [writer EXCEPT ![n] = [writer[n] EXCEPT !.pc = to]]
      BY <2>1, <1>0 DEF WriterGoes
    <3>3. writer[n].attempt \in Nat
      BY <1>0
    <3>4. QED
      BY <3>1, <3>2, <3>3
  <2>2. CASE writer' = [writer EXCEPT ![n].pc = to, ![n].attempt = k]
    <3>1. [writer[n] EXCEPT !.pc = to, !.attempt = k] = [pc |-> to, attempt |-> k, sid |-> writer[n].sid]
      <4>1. writer[n] = [pc |-> writer[n].pc, attempt |-> writer[n].attempt, sid |-> writer[n].sid]
        BY <1>0
      <4>2. [writer[n] EXCEPT !.pc = to] = [pc |-> to, attempt |-> writer[n].attempt, sid |-> writer[n].sid]
        BY <4>1
      <4> DEFINE moved == [writer[n] EXCEPT !.pc = to]
      <4>3. [moved EXCEPT !.attempt = k] = [pc |-> to, attempt |-> k, sid |-> writer[n].sid]
        <5>1. moved = [pc |-> to, attempt |-> writer[n].attempt, sid |-> writer[n].sid]
          BY <4>2
        <5> HIDE DEF moved
        <5>2. QED
          BY <5>1
      <4>4. QED
        BY <4>3
    <3>2. writer' = [writer EXCEPT ![n] = [writer[n] EXCEPT !.pc = to, !.attempt = k]]
      BY <2>2, <1>0
    <3>3. QED
      BY <3>1, <3>2
  <2>3. QED
    BY <2>1, <2>2
<1>2. HermesTyped'
  BY <1>1 DEF TurnInv, HermesTyped
<1>3. /\ writer'[n] = [pc |-> to, attempt |-> a, sid |-> writer[n].sid]
      /\ \A m \in Turns : m # n => writer'[m] = writer[m]
  BY <1>1 DEF TurnInv, HermesTyped
<1>4. OneThread'
  BY <1>3 DEF TurnInv, OneThread
<1>5. ThreadKeepsSession'
  BY <1>3 DEF TurnInv, ThreadKeepsSession
<1>6. \A m \in Turns : EntriesOf(m)' = EntriesOf(m)
  BY DEF EntriesOf
<1>7. EntryByWriter'
  BY <1>3, <1>6 DEF TurnInv, EntryByWriter
<1>8. QED
  BY <1>2, <1>4, <1>5, <1>7 DEF TurnInv

\* Everything else leaves turns, threads and the journal alone.
LEMMA TurnsAlone ==
  ASSUME TurnInv, UNCHANGED <<turns, writer, handed, journal>>, session' \in SessionIds,
         host' = host \/ host' # "joining"
  PROVE  TurnInv'
<1>1. HermesTyped'
  BY DEF TurnInv, HermesTyped
<1>2. \A m \in Turns : EntriesOf(m)' = EntriesOf(m)
  BY DEF EntriesOf
<1>3. OneThread' /\ ThreadKeepsSession' /\ EntryByWriter'
  BY <1>2 DEF TurnInv, OneThread, ThreadKeepsSession, EntryByWriter
<1>4. QED
  BY <1>1, <1>3 DEF TurnInv

LEMMA TurnMade ==
  ASSUME TurnInv, NEW n \in Turns, SyncTurn(n)
  PROVE  TurnInv'
<1> USE DEF SyncTurn, storeVars
<1>1. n \in Nat /\ turns \in Nat /\ n > turns
  BY DEF TurnInv, HermesTyped, Turns
<1>2. /\ writer[n].pc = "none" /\ EntriesOf(n) = {}
  BY <1>1 DEF TurnInv, OneThread, EntryByWriter
<1>3. /\ writer'[n] = [pc |-> "ready", attempt |-> 1, sid |-> session] /\ handed'[n] = session
      /\ \A m \in Turns : m # n => writer'[m] = writer[m] /\ handed'[m] = handed[m]
  BY DEF TurnInv, HermesTyped
<1>4. HermesTyped'
  <2>1. [pc |-> "ready", attempt |-> 1, sid |-> session]
           \in [pc : WriterStates, attempt : Nat, sid : SessionIds]
    BY DEF TurnInv, HermesTyped, WriterStates
  <2>2. QED
    BY <1>1, <2>1 DEF TurnInv, HermesTyped
<1>5. OneThread'
  <2>1. SUFFICES ASSUME NEW m \in Turns
                 PROVE  /\ m > n => writer'[m].pc = "none"
                        /\ m = n => writer'[m].pc = "ready"
    BY DEF OneThread
  <2>2. m \in Nat
    BY DEF Turns
  <2>3. QED
    BY <1>1, <1>3, <2>2 DEF TurnInv, OneThread
<1>6. ThreadKeepsSession'
  BY <1>3 DEF TurnInv, ThreadKeepsSession
<1>7. \A m \in Turns : EntriesOf(m)' = EntriesOf(m)
  BY DEF EntriesOf
<1>8. EntryByWriter'
  BY <1>2, <1>3, <1>7 DEF TurnInv, EntryByWriter
<1>9. QED
  BY <1>4, <1>5, <1>6, <1>8 DEF TurnInv

LEMMA TurnWritten ==
  ASSUME TurnInv, NEW n \in Turns, WriteTurn(n)
  PROVE  TurnInv'
<1> USE DEF WriteTurn, WriterGoes, AfterWrite, StampedWith, hostVars
<1>1. /\ writer[n].sid \in SessionIds /\ writer[n].sid = handed[n] /\ EntriesOf(n) = {}
  BY DEF TurnInv, HermesTyped, ThreadKeepsSession, EntryByWriter
<1>2. /\ writer'[n].pc = "written" /\ writer'[n].sid = writer[n].sid
      /\ \A m \in Turns : m # n => writer'[m] = writer[m]
  BY DEF TurnInv, HermesTyped
<1>3. HermesTyped'
  <2>1. [turn |-> n, sid |-> writer[n].sid] \in [turn : Turns, sid : SessionIds]
    BY <1>1
  <2>2. journal' \in Seq([turn : Turns, sid : SessionIds])
    BY <2>1 DEF TurnInv, HermesTyped
  <2>3. "written" \in WriterStates
    BY DEF WriterStates
  <2>4. writer' \in [Turns -> [pc : WriterStates, attempt : Nat, sid : SessionIds]]
    BY <2>3 DEF TurnInv, HermesTyped
  <2>5. QED
    BY <2>2, <2>4 DEF TurnInv, HermesTyped
<1>4. OneThread' /\ ThreadKeepsSession'
  BY <1>1, <1>2 DEF TurnInv, OneThread, ThreadKeepsSession
<1>5. ASSUME NEW k \in Turns
      PROVE  /\ EntriesOf(k)' = IF k = n THEN EntriesOf(k) \union {Len(journal) + 1} ELSE EntriesOf(k)
             /\ \A i \in EntriesOf(k) : journal'[i] = journal[i]
             /\ journal'[Len(journal) + 1].sid = writer[n].sid
             /\ Len(journal) + 1 \in DOMAIN journal'
  BY <1>1, EntriesAfterWrite DEF TurnInv
<1>6. EntryByWriter'
  <2>1. SUFFICES ASSUME NEW k \in Turns
                 PROVE  /\ writer'[k].pc = "written" => \E i \in DOMAIN journal' : EntriesOf(k)' = {i}
                        /\ writer'[k].pc # "written" => EntriesOf(k)' = {}
                        /\ \A i \in EntriesOf(k)' : journal'[i].sid = handed'[k]
    BY DEF EntryByWriter
  <2>2. CASE k = n
    BY <1>1, <1>2, <1>5, <2>2
  <2>3. CASE k # n
    <3>1. EntriesOf(k)' = EntriesOf(k) /\ writer'[k] = writer[k] /\ handed'[k] = handed[k]
      BY <1>2, <1>5, <2>3
    <3>2. DOMAIN journal \subseteq DOMAIN journal'
      BY DEF TurnInv, HermesTyped
    <3>3. QED
      BY <1>5, <3>1, <3>2 DEF TurnInv, EntryByWriter
  <2>4. QED
    BY <2>2, <2>3
<1>7. QED
  BY <1>3, <1>4, <1>6 DEF TurnInv

LEMMA TurnStep == TurnInv /\ [HermesNext]_hermesVars => TurnInv'
<1> SUFFICES ASSUME TurnInv, [HermesNext]_hermesVars PROVE TurnInv'
  OBVIOUS
<1> USE DEF hostVars, threadVars, storeVars
<1>0. session \in SessionIds
  BY DEF TurnInv, HermesTyped
<1>1. ASSUME NEW n \in Turns, StartWriter(n) PROVE TurnInv'
  <2>1. writer[n].pc = "ready" /\ WriterGoes(n, "check") /\ host' = "idle"
    BY <1>1 DEF StartWriter, TurnInv, OneThread, WriterGoes
  <2>2. "check" \in WriterStates \ {"none", "written"} /\ 0 \in Nat
    BY DEF WriterStates
  <2>3. QED
    BY <1>1, <2>1, <2>2, WriterMoves DEF StartWriter
<1>2. ASSUME NEW n \in Turns, Writer(n) PROVE TurnInv'
  <2>0. {"skipped", "write", "refused", "sleep", "dropped", "check"} \subseteq WriterStates \ {"none", "written"}
        /\ 0 \in Nat /\ writer[n].attempt + 1 \in Nat
    BY DEF WriterStates, TurnInv, HermesTyped
  <2>1. CASE CheckStop(n)
    BY <2>0, <2>1, WriterMoves DEF CheckStop
  <2>2. CASE WriteTurn(n)
    BY <2>2, TurnWritten
  <2>3. CASE RefuseTurn(n)
    BY <2>0, <2>3, WriterMoves DEF RefuseTurn, AfterRefusal
  <2>4. CASE FailTurn(n)
    BY <2>0, <2>4, WriterMoves DEF FailTurn
  <2>5. CASE Wake(n)
    <3>1. writer' = [writer EXCEPT ![n].pc = "check", ![n].attempt = writer[n].attempt + 1]
      BY <2>5 DEF Wake, TurnInv, HermesTyped
    <3>2. QED
      BY <2>0, <2>5, <3>1, WriterMoves DEF Wake
  <2>6. QED
    BY <1>2, <2>1, <2>2, <2>3, <2>4, <2>5 DEF Writer
<1>3. ASSUME NEW n \in Turns, SyncTurn(n) PROVE TurnInv'
  BY <1>3, TurnMade
<1>4. ASSUME NEW f \in Flushes, PreCompress(f) \/ FlushPair(f) \/ FlushCapsule(f) PROVE TurnInv'
  BY <1>0, <1>4, TurnsAlone DEF PreCompress, FlushPair, FlushCapsule
<1>5. ASSUME NEW s \in SessionIds, SwitchSession(s) \/ Initialize(s) PROVE TurnInv'
  BY <1>5, TurnsAlone DEF SwitchSession, Initialize
<1>6. ASSUME StartCapsule \/ JoinCapsule \/ Shutdown \/ EndCapsule \/ GateChanges PROVE TurnInv'
  BY <1>0, <1>6, TurnsAlone DEF StartCapsule, JoinCapsule, Shutdown, EndCapsule, GateChanges
<1>7. CASE UNCHANGED hermesVars
  BY <1>0, <1>7, TurnsAlone DEF hermesVars
<1>8. QED
  BY <1>1, <1>2, <1>3, <1>4, <1>5, <1>6, <1>7 DEF HermesNext, HostStep

\* For any turns, sessions, retries, shutdowns, restarts and sign-outs: a turn
\* is in the journal once if its thread ended well and not at all otherwise,
\* under the session it was spoken in.
THEOREM TurnsRecordedOnce == HermesSpec => []TurnOnce
<1>1. TurnInv => TurnOnce
  <2> SUFFICES ASSUME TurnInv, NEW n \in Turns
               PROVE  /\ Cardinality(EntriesOf(n)) = IF writer[n].pc = "written" THEN 1 ELSE 0
                      /\ \A i \in EntriesOf(n) : journal[i].sid = handed[n]
    BY DEF TurnOnce
  <2>1. CASE writer[n].pc = "written"
    BY <2>1, FS_Singleton DEF TurnInv, EntryByWriter
  <2>2. CASE writer[n].pc # "written"
    BY <2>2, FS_EmptySet DEF TurnInv, EntryByWriter
  <2>3. QED
    BY <2>1, <2>2 DEF TurnInv, EntryByWriter
<1>2. QED
  BY <1>1, TurnStart, TurnStep, PTL DEF HermesSpec

-----------------------------------------------------------------------------
(* The file of the reminders: what one update under the lock does to it.    *)

Records ==
  [seen : BOOLEAN, began : Nat, active : Nat, atSave : Nat, nudges : Nat, lastNudge : Nat,
   floor : Nat, prompts : Nat, saved : BOOLEAN, compacted : BOOLEAN, ended : BOOLEAN]

StateFiles ==
  [on : BOOLEAN, total : Nat, since : Nat, lastSave : Nat, day : Nat, asked : Nat,
   sess : [Sessions -> Records]]

\* An update that asks for nothing and counts nothing.
Untold(f, g) == g \in StateFiles /\ g.total = f.total /\ g.day = f.day /\ g.asked = f.asked

LEMMA RecordSet ==
  ASSUME NEW f \in StateFiles, NEW s \in Sessions, NEW r \in Records
  PROVE  Untold(f, [f EXCEPT !.sess[s] = r])
BY DEF StateFiles, Untold

LEMMA NewIsRecord == NewSession \in Records
BY DEF NewSession, Records

LEMMA EnsuredFile ==
  ASSUME NEW f \in StateFiles, NEW s \in Sessions, NEW began \in Nat
  PROVE  Untold(f, Ensured(f, s, began))
<1>1. CASE f.sess[s].seen
  BY <1>1 DEF Ensured, Untold
<1>2. CASE ~f.sess[s].seen
  <2>1. [NewSession EXCEPT !.seen = TRUE, !.began = began] \in Records
    BY DEF NewSession, Records
  <2>2. QED
    BY <1>2, <2>1, RecordSet DEF Ensured
<1>3. QED
  BY <1>1, <1>2

LEMMA SaveKnownFile ==
  ASSUME NEW f \in StateFiles, NEW when \in Nat
  PROVE  Untold(f, SaveKnown(f, when))
<1> DEFINE g == [f EXCEPT !.lastSave = when, !.since = 0]
<1>1. Untold(f, g)
  BY DEF Untold, StateFiles
<1>2. ASSUME NEW s \in Sessions
      PROVE  [g.sess[s] EXCEPT !.atSave = g.sess[s].active, !.saved = TRUE, !.compacted = FALSE]
               \in Records
  <2>1. g.sess[s] \in Records
    BY <1>1 DEF Untold, StateFiles
  <2> HIDE DEF g
  <2>2. QED
    BY <2>1 DEF Records
<1> HIDE DEF g
<1>3. Untold(g, ClocksReset(g, when))
  <2> DEFINE clocks == [s \in Sessions |->
               IF g.sess[s].seen /\ ~g.sess[s].ended /\ g.sess[s].began <= when
               THEN [g.sess[s] EXCEPT !.atSave = g.sess[s].active, !.saved = TRUE, !.compacted = FALSE]
               ELSE g.sess[s]]
  <2>1. clocks \in [Sessions -> Records]
    BY <1>1, <1>2 DEF Untold, StateFiles
  <2>2. ClocksReset(g, when) = [g EXCEPT !.sess = clocks]
    BY DEF ClocksReset
  <2> HIDE DEF clocks
  <2>3. QED
    BY <1>1, <2>1, <2>2 DEF Untold, StateFiles
<1>4. SaveKnown(f, when) = ClocksReset(g, when)
  BY DEF SaveKnown, g
<1>5. QED
  BY <1>1, <1>3, <1>4 DEF Untold

LEMMA ObservedFile ==
  ASSUME NEW f \in StateFiles, NEW marker \in Nat
  PROVE  Untold(f, Observed(f, marker))
<1>1. Untold(f, f)
  BY DEF Untold
<1>2. QED
  BY <1>1, SaveKnownFile DEF Observed

\* What the counts of a process add.
LEMMA CountedFile ==
  ASSUME NEW f \in StateFiles, NEW n \in Nat
  PROVE  /\ Counted(f, n) \in StateFiles
         /\ Counted(f, n).total = f.total + n
         /\ Counted(f, n).day = f.day /\ Counted(f, n).asked = f.asked
<1>1. f.total + n \in Nat /\ f.since + n \in Nat
  BY DEF StateFiles
<1>2. Counted(f, n) = [f EXCEPT !.total = f.total + n, !.since = f.since + n]
  BY DEF Counted, StateFiles
<1>3. QED
  BY <1>1, <1>2 DEF StateFiles

\* A request is one more of its day.
LEMMA NudgedFile ==
  ASSUME NEW f \in StateFiles, NEW s \in Sessions, day \in Nat
  PROVE  /\ Nudged(f, s) \in StateFiles
         /\ Nudged(f, s).total = f.total
         /\ Nudged(f, s).day = day /\ Nudged(f, s).asked = AskedToday(f) + 1
<1>1. f.sess[s] \in Records /\ AskedToday(f) \in Nat
  BY DEF StateFiles, AskedToday
<1> DEFINE r == f.sess[s]
           q == [r EXCEPT !.nudges = @ + 1, !.floor = NextSeq(r), !.lastNudge = r.active]
<1>2. NextSeq(r) \in Nat
  BY <1>1 DEF NextSeq, Larger, Records
<1>3. q \in Records
  <2>1. r \in Records /\ r.nudges + 1 \in Nat /\ r.active \in Nat
    BY <1>1 DEF Records
  <2>2. q = [r EXCEPT !.nudges = r.nudges + 1, !.floor = NextSeq(r), !.lastNudge = r.active]
    OBVIOUS
  <2> HIDE DEF r, q
  <2>3. QED
    BY <1>2, <2>1, <2>2 DEF Records
<1>4. Nudged(f, s) = [f EXCEPT !.sess[s] = q, !.asked = AskedToday(f) + 1, !.day = day]
  BY DEF Nudged
<1> HIDE DEF q
<1>5. AskedToday(f) + 1 \in Nat
  BY <1>1
<1> DEFINE g == [f EXCEPT !.sess[s] = q]
<1>6. g \in StateFiles /\ g.total = f.total
  BY <1>3, RecordSet DEF Untold
<1>7. Nudged(f, s) = [g EXCEPT !.asked = AskedToday(f) + 1, !.day = day]
  BY <1>4
<1> HIDE DEF g
<1>8. QED
  BY <1>5, <1>6, <1>7 DEF StateFiles

LEMMA SeqSeenFile ==
  ASSUME NEW f \in StateFiles, NEW c \in Sessions, NEW n \in Nat
  PROVE  Untold(f, SeqSeen(f, c, n))
<1>1. f.sess[c] \in Records
  BY DEF StateFiles
<1>2. [f.sess[c] EXCEPT !.floor = Larger(@, n)] \in Records
  BY <1>1 DEF Records, Larger
<1>3. SeqSeen(f, c, n) = [f EXCEPT !.sess[c] = [f.sess[c] EXCEPT !.floor = Larger(@, n)]]
  BY DEF SeqSeen
<1>4. QED
  BY <1>2, <1>3, RecordSet

LEMMA SessionFile ==
  ASSUME NEW f \in StateFiles, NEW c \in Sessions, NEW marker \in Nat
  PROVE  Untold(f, Session(f, c, marker))
<1> DEFINE e == Ensured(f, c, marker)
<1>1. Untold(f, e) /\ e.sess[c] \in Records
  BY EnsuredFile DEF Untold, StateFiles
<1> HIDE DEF e
<1>2. [e.sess[c] EXCEPT !.saved = @ \/ marker > e.sess[c].began] \in Records
  <2>1. (e.sess[c].saved \/ marker > e.sess[c].began) \in BOOLEAN
    OBVIOUS
  <2>2. QED
    BY <1>1, <2>1 DEF Records
<1>3. Session(f, c, marker)
        = [e EXCEPT !.sess[c] = [e.sess[c] EXCEPT !.saved = @ \/ marker > e.sess[c].began]]
  BY DEF Session, e
<1>4. QED
  BY <1>1, <1>2, <1>3, RecordSet DEF Untold

LEMMA WorkedFile ==
  ASSUME NEW f \in StateFiles, NEW c \in Sessions, NEW gap \in 0..1, MaxActive \in Nat
  PROVE  Untold(f, Worked(f, c, gap))
<1>1. f.sess[c] \in Records
  BY DEF StateFiles
<1>2. [f.sess[c] EXCEPT !.active = Smaller(@ + gap, MaxActive)] \in Records
  BY <1>1 DEF Records, Smaller
<1>3. Worked(f, c, gap) = [f EXCEPT !.sess[c] = [f.sess[c] EXCEPT !.active = Smaller(@ + gap, MaxActive)]]
  BY DEF Worked
<1>4. QED
  BY <1>2, <1>3, RecordSet

LEMMA OpenedFile ==
  ASSUME file \in StateFiles, saves \in Nat, NEW c \in Sessions
  PROVE  Untold(file, Opened(c))
<1>1. Untold(file, Observed(file, saves))
  BY ObservedFile
<1>2. Untold(Observed(file, saves), Opened(c))
  BY <1>1, SessionFile DEF Opened, Untold
<1>3. QED
  BY <1>1, <1>2 DEF Untold

-----------------------------------------------------------------------------
(* The processes of the hosts, and what they hold.                          *)

Processes ==
  [life : {"new", "up", "down"}, began : Nat, active : Nat, atSave : Nat, seen : Nat,
   nudges : 0..SessionCap, lastNudge : Nat, pending : Nat, flying : Nat, timed : Nat,
   step : {"idle", "flush", "saveflush", "savenote", "record"}, extra : Nat]

LEMMA ReminderBounds ==
  /\ SessionCap \in Nat \ {0} /\ DayCap \in Nat \ {0} /\ FlushAt \in Nat \ {0}
  /\ MaxActive \in Nat /\ MaxWrites \in Nat
BY Bounds

LEMMA ViewFile ==
  ASSUME NEW f \in StateFiles, mem \in [Hosts -> Processes], NEW h \in Hosts
  PROVE  /\ Untold(f, View(f, h))
         /\ View(f, h).sess[h].nudges = mem[h].nudges
<1>1. h \in Sessions /\ mem[h] \in Processes
  BY DEF Sessions
<1>2. /\ mem[h].began \in Nat /\ mem[h].active \in Nat /\ mem[h].atSave \in Nat
      /\ mem[h].nudges \in Nat /\ mem[h].lastNudge \in Nat
  BY <1>1, ReminderBounds DEF Processes
<1> DEFINE e == Ensured(f, h, mem[h].began)
           old == e.sess[h].saved \/ mem[h].seen > mem[h].began
           r == [e.sess[h] EXCEPT !.saved = old, !.active = mem[h].active, !.atSave = mem[h].atSave,
                   !.nudges = mem[h].nudges, !.lastNudge = mem[h].lastNudge]
<1>3. Untold(f, e) /\ e.sess[h] \in Records
  BY SMTT(60), <1>1, <1>2, EnsuredFile DEF Untold, StateFiles
<1>4. old \in BOOLEAN
  OBVIOUS
<1>5. View(f, h) = [e EXCEPT !.sess[h] = r]
  BY DEF View
<1> HIDE DEF e, old
<1>6. r \in Records /\ r.nudges = mem[h].nudges
  BY <1>2, <1>3, <1>4 DEF Records
<1> HIDE DEF r
<1>7. Untold(e, View(f, h))
  BY <1>1, <1>3, <1>5, <1>6, RecordSet DEF Untold
<1>8. View(f, h).sess[h] = r
  BY <1>1, <1>3, <1>5 DEF Untold, StateFiles
<1>9. QED
  BY <1>3, <1>6, <1>7, <1>8 DEF Untold

\* The pairs that wait are as many more as the host took in.
LEMMA MoreWaiting ==
  ASSUME NEW held \in [Hosts -> Nat], NEW after \in [Hosts -> Nat], NEW h \in Hosts, NEW k \in Nat,
         MaxWrites \in Nat,
         after = [held EXCEPT ![h] = held[h] + k],
         after[h] <= MaxWrites,
         NEW S, S = {w \in Hosts \X (1..MaxWrites) : w[2] <= held[w[1]]},
         NEW T, T = {w \in Hosts \X (1..MaxWrites) : w[2] <= after[w[1]]}
  PROVE  /\ IsFiniteSet(S) <=> IsFiniteSet(T)
         /\ IsFiniteSet(S) => Cardinality(T) = Cardinality(S) + k
         /\ IsFiniteSet(T) => after[h] <= Cardinality(T)
<1> DEFINE U == {h} \X ((held[h] + 1)..(held[h] + k))
           V == {h} \X (1..after[h])
<1>1. after[h] = held[h] + k /\ \A g \in Hosts : g # h => after[g] = held[g]
  OBVIOUS
<1>2. T = S \union U /\ S \intersect U = {}
  BY <1>1
<1>3. IsFiniteSet(U) /\ Cardinality(U) = k
  <2> DEFINE a == held[h] + 1
             b == held[h] + k
  <2>0. a \in Int /\ b \in Int /\ (IF a > b THEN 0 ELSE b - a + 1) = k
    OBVIOUS
  <2> HIDE DEF a, b
  <2>1. IsFiniteSet(a..b) /\ Cardinality(a..b) = k
    BY <2>0, FS_Interval
  <2>2. IsFiniteSet({h}) /\ Cardinality({h}) = 1
    BY FS_Singleton
  <2>3. IsFiniteSet({h} \X (a..b)) /\ Cardinality({h} \X (a..b)) = 1 * k
    BY <2>1, <2>2, FS_Product
  <2>4. QED
    BY <2>3 DEF a, b
<1>4. IsFiniteSet(V) /\ Cardinality(V) = after[h]
  <2>1. after[h] \in Nat /\ IsFiniteSet(1..after[h]) /\ Cardinality(1..after[h]) = after[h]
    BY FS_Interval
  <2>2. IsFiniteSet({h}) /\ Cardinality({h}) = 1
    BY FS_Singleton
  <2> DEFINE I == 1..after[h]
  <2>3. IsFiniteSet(I) /\ Cardinality(I) = after[h]
    BY <2>1
  <2> HIDE DEF I
  <2>4. IsFiniteSet({h} \X I) /\ Cardinality({h} \X I) = 1 * after[h]
    BY ZenonT(30), <2>2, <2>3, FS_Product
  <2>5. QED
    BY <2>1, <2>4 DEF I
<1>5. V \in SUBSET T
  BY <1>1
<1>6. S \in SUBSET T
  BY <1>2
<1> HIDE DEF U, V
<1>7. ASSUME IsFiniteSet(S) PROVE IsFiniteSet(T) /\ Cardinality(T) = Cardinality(S) + k
  <2>1. Cardinality(S \intersect U) = 0
    BY <1>2, FS_EmptySet
  <2>2. Cardinality(S) \in Nat
    BY <1>7, FS_CardinalityType
  <2>3. /\ IsFiniteSet(S \union U)
        /\ Cardinality(S \union U) = Cardinality(S) + Cardinality(U) - Cardinality(S \intersect U)
    BY <1>3, <1>7, FS_Union
  <2>4. Cardinality(S \union U) = Cardinality(S) + k
    BY <1>3, <2>1, <2>2, <2>3
  <2>5. QED
    BY <1>2, <2>3, <2>4
<1>8. ASSUME IsFiniteSet(T) PROVE IsFiniteSet(S) /\ after[h] <= Cardinality(T)
  BY <1>4, <1>5, <1>6, <1>8, FS_Subset
<1>9. QED
  BY <1>7, <1>8

HeldCount(p) == p.pending + p.flying + p.timed

\* Between two updates, only a process that is about to flush holds counts that
\* are neither pending nor its timer's.
FlyingTold(p) == p.step \notin {"flush", "saveflush"} => p.flying = 0
FreshHolds(p) == p.life = "new" => HeldCount(p) = 0

ReminderTyped ==
  /\ file \in StateFiles
  /\ saves \in Nat
  /\ mem \in [Hosts -> Processes]
  /\ hook \in [Codes -> [marker : Nat, seq : Nat]]
  /\ said \in [Codes -> Seq(Nat)]
  /\ day \in Nat
  /\ made \in Nat /\ dropped \in Nat /\ emitted \in Nat
  /\ \A h \in Hosts : FlyingTold(mem[h]) /\ FreshHolds(mem[h])

\* A host's step takes a write in, or hands some over: to the file, or to no one.
Accounts(h, p) ==
  /\ file' \in StateFiles /\ dropped' \in Nat /\ made' \in Nat
  /\ mem' = [mem EXCEPT ![h] = p]
  /\ FlyingTold(p) /\ FreshHolds(p)
  /\ \/ /\ HeldCount(p) = HeldCount(mem[h]) + 1 /\ made < MaxWrites /\ made' = made + 1
        /\ file'.total + dropped' = file.total + dropped
     \/ /\ made' = made
        /\ HeldCount(p) <= HeldCount(mem[h])
        /\ file'.total + dropped' = file.total + dropped + (HeldCount(mem[h]) - HeldCount(p))

LEMMA OneHost ==
  ASSUME ReminderTyped, NEW h \in Hosts
  PROVE  /\ mem[h] \in Processes /\ h \in Sessions
         /\ FlyingTold(mem[h]) /\ FreshHolds(mem[h])
         /\ mem[h].pending \in Nat /\ mem[h].flying \in Nat /\ mem[h].timed \in Nat
         /\ mem[h].active \in Nat /\ mem[h].seen \in Nat /\ mem[h].atSave \in Nat
         /\ mem[h].nudges \in 0..SessionCap
         /\ file.total \in Nat
BY DEF ReminderTyped, Processes, Sessions, StateFiles

LEMMA OpenAccounts ==
  ASSUME ReminderTyped, NEW h \in Hosts, OpenHost(h)
  PROVE  \E p \in Processes : Accounts(h, p)
<1> DEFINE p == [NewProcess EXCEPT !.life = "up", !.began = saves]
<1>0. NewProcess \in Processes /\ saves \in Nat
  BY ReminderBounds DEF NewProcess, Processes, ReminderTyped
<1>1. /\ p \in Processes /\ HeldCount(p) = 0 /\ FlyingTold(p) /\ FreshHolds(p)
  <2>1. p \in Processes
    BY <1>0 DEF Processes
  <2>2. p.pending = 0 /\ p.flying = 0 /\ p.timed = 0
    BY DEF NewProcess
  <2>3. QED
    BY <2>1, <2>2 DEF HeldCount, FlyingTold, FreshHolds
<1> HIDE DEF p
<1>2. mem' = [mem EXCEPT ![h] = p] /\ UNCHANGED <<file, made, dropped>> /\ HeldCount(mem[h]) = 0
  BY OneHost DEF OpenHost, p, FreshHolds
<1>3. Accounts(h, p)
  BY <1>1, <1>2, OneHost DEF Accounts, ReminderTyped
<1>4. QED
  BY <1>1, <1>3

LEMMA ActivityAccounts ==
  ASSUME ReminderTyped, NEW h \in Hosts, Activity(h)
  PROVE  \E p \in Processes : Accounts(h, p)
<1> DEFINE p == [mem[h] EXCEPT !.active = mem[h].active + 1]
<1>1. /\ p \in Processes /\ HeldCount(p) = HeldCount(mem[h]) /\ FlyingTold(p) /\ FreshHolds(p)
  BY OneHost DEF Processes, HeldCount, FlyingTold, FreshHolds
<1> HIDE DEF p
<1>2. mem' = [mem EXCEPT ![h] = p] /\ UNCHANGED <<file, made, dropped>>
  BY DEF Activity, p, ReminderTyped
<1>3. Accounts(h, p)
  BY <1>1, <1>2, OneHost DEF Accounts, ReminderTyped, HeldCount
<1>4. QED
  BY <1>1, <1>3

LEMMA WriteAccounts ==
  ASSUME ReminderTyped, NEW h \in Hosts, Write(h)
  PROVE  \E p \in Processes : Accounts(h, p)
<1> DEFINE n == mem[h].pending + 1
           p == [mem[h] EXCEPT !.pending = IF n >= FlushAt THEN 0 ELSE n,
                               !.flying = IF n >= FlushAt THEN n ELSE 0,
                               !.step = IF n >= FlushAt THEN "flush" ELSE "idle"]
<1>1. mem[h].flying = 0
  BY OneHost DEF Write, FlyingTold
<1>2. n \in Nat
  BY OneHost
<1>3. /\ p \in Processes /\ HeldCount(p) = HeldCount(mem[h]) + 1 /\ FlyingTold(p) /\ FreshHolds(p)
  <2>0. FlushAt \in Nat \ {0} /\ mem[h] \in Processes /\ mem[h].life = "up" /\ mem[h].timed \in Nat
    BY OneHost, ReminderBounds DEF Write
  <2>1. p \in Processes
    BY <1>2, <2>0 DEF Processes
  <2>2. /\ p.pending = (IF n >= FlushAt THEN 0 ELSE n)
        /\ p.flying = (IF n >= FlushAt THEN n ELSE 0)
        /\ p.step = (IF n >= FlushAt THEN "flush" ELSE "idle")
        /\ p.timed = mem[h].timed /\ p.life = "up"
    BY <2>0 DEF Processes
  <2>3. HeldCount(p) = HeldCount(mem[h]) + 1
    BY <1>1, <1>2, <2>0, <2>2, OneHost DEF HeldCount
  <2>4. QED
    BY <2>1, <2>2, <2>3 DEF FlyingTold, FreshHolds
<1>4. mem' = [mem EXCEPT ![h] = p]
  BY DEF Write, ReminderTyped
<1> HIDE DEF p
<1>5. made < MaxWrites /\ made' = made + 1 /\ UNCHANGED <<file, dropped>> /\ made \in Nat
  BY DEF Write, ReminderTyped
<1>6. Accounts(h, p)
  BY <1>3, <1>4, <1>5 DEF Accounts, ReminderTyped
<1>7. QED
  BY <1>3, <1>6

LEMMA TimerAccounts ==
  ASSUME ReminderTyped, NEW h \in Hosts, Timer(h)
  PROVE  \E p \in Processes : Accounts(h, p)
<1> DEFINE p == [mem[h] EXCEPT !.timed = mem[h].pending, !.pending = 0]
<1>1. /\ p \in Processes /\ HeldCount(p) = HeldCount(mem[h]) /\ FlyingTold(p) /\ FreshHolds(p)
  <2>0. mem[h] \in Processes /\ mem[h].life = "up" /\ mem[h].timed = 0 /\ mem[h].pending \in Nat
    BY OneHost DEF Timer
  <2>1. p \in Processes
    BY <2>0 DEF Processes
  <2>2. /\ p.pending = 0 /\ p.timed = mem[h].pending /\ p.life = "up"
        /\ p.flying = mem[h].flying /\ p.step = mem[h].step
    BY <2>0 DEF Processes
  <2>3. HeldCount(p) = HeldCount(mem[h])
    BY <2>0, <2>2, OneHost DEF HeldCount
  <2>4. QED
    BY <2>1, <2>2, <2>3, OneHost DEF FlyingTold, FreshHolds
<1>2. mem' = [mem EXCEPT ![h] = p]
  BY DEF Timer, ReminderTyped
<1> HIDE DEF p
<1>3. UNCHANGED <<file, made, dropped>>
  BY DEF Timer
<1>4. Accounts(h, p)
  <2>1. HeldCount(mem[h]) \in Nat
    BY OneHost DEF HeldCount
  <2>2. QED
    BY <1>1, <1>2, <1>3, <2>1, OneHost DEF Accounts, ReminderTyped
<1>5. QED
  BY <1>1, <1>4

LEMMA TimerFlushAccounts ==
  ASSUME ReminderTyped, NEW h \in Hosts, TimerFlush(h)
  PROVE  \E p \in Processes : Accounts(h, p)
<1> DEFINE p == [mem[h] EXCEPT !.timed = 0]
<1>1. /\ p \in Processes /\ HeldCount(mem[h]) = HeldCount(p) + mem[h].timed /\ HeldCount(p) \in Nat
      /\ FlyingTold(p) /\ FreshHolds(p)
  BY OneHost DEF Processes, HeldCount, FlyingTold, FreshHolds, TimerFlush
<1>2. mem' = [mem EXCEPT ![h] = p] /\ UNCHANGED <<made, dropped>>
  BY DEF TimerFlush, ReminderTyped
<1> HIDE DEF p
<1>3. file' \in StateFiles /\ file'.total = file.total + mem[h].timed
  BY CountedFile, OneHost DEF TimerFlush, ReminderTyped
<1>4. Accounts(h, p)
  BY <1>1, <1>2, <1>3, OneHost DEF Accounts, ReminderTyped
<1>5. QED
  BY <1>1, <1>4

LEMMA FlushAccounts ==
  ASSUME ReminderTyped, NEW h \in Hosts, Flush(h)
  PROVE  \E p \in Processes : Accounts(h, p)
<1> DEFINE p == [mem[h] EXCEPT !.flying = 0,
                    !.step = IF mem[h].step = "flush" THEN "idle" ELSE "savenote"]
<1>1. /\ p \in Processes /\ HeldCount(mem[h]) = HeldCount(p) + mem[h].flying /\ HeldCount(p) \in Nat
      /\ FlyingTold(p) /\ FreshHolds(p)
  <2>0. mem[h] \in Processes /\ mem[h].life = "up"
    BY OneHost DEF Flush
  <2>1. p \in Processes
    BY <2>0 DEF Processes
  <2>2. /\ p.flying = 0 /\ p.life = "up"
        /\ p.pending = mem[h].pending /\ p.timed = mem[h].timed
    BY <2>0 DEF Processes
  <2>3. HeldCount(mem[h]) = HeldCount(p) + mem[h].flying /\ HeldCount(p) \in Nat
    BY <2>2, OneHost DEF HeldCount
  <2>4. QED
    BY <2>1, <2>2, <2>3 DEF FlyingTold, FreshHolds
<1>2. mem' = [mem EXCEPT ![h] = p] /\ UNCHANGED <<made, dropped>>
  BY DEF Flush, ReminderTyped
<1> HIDE DEF p
<1>3. file' \in StateFiles /\ file'.total = file.total + mem[h].flying
  BY CountedFile, OneHost DEF Flush, ReminderTyped
<1>4. Accounts(h, p)
  BY <1>1, <1>2, <1>3, OneHost DEF Accounts, ReminderTyped
<1>5. QED
  BY <1>1, <1>4

LEMMA SaveAccounts ==
  ASSUME ReminderTyped, NEW h \in Hosts, Save(h)
  PROVE  \E p \in Processes : Accounts(h, p)
<1> DEFINE p == [mem[h] EXCEPT !.flying = mem[h].pending + 1, !.pending = 0, !.step = "saveflush"]
<1>1. mem[h].flying = 0
  BY OneHost DEF Save, FlyingTold
<1>2. /\ p \in Processes /\ HeldCount(p) = HeldCount(mem[h]) + 1 /\ FlyingTold(p) /\ FreshHolds(p)
  <2>0. mem[h] \in Processes /\ mem[h].life = "up" /\ mem[h].pending + 1 \in Nat
    BY OneHost DEF Save
  <2>1. p \in Processes
    BY <2>0 DEF Processes
  <2>2. /\ p.flying = mem[h].pending + 1 /\ p.pending = 0 /\ p.timed = mem[h].timed
        /\ p.life = "up" /\ p.step = "saveflush"
    BY <2>0 DEF Processes
  <2>3. HeldCount(p) = HeldCount(mem[h]) + 1
    BY <1>1, <2>2, OneHost DEF HeldCount
  <2>4. QED
    BY <2>1, <2>2, <2>3 DEF FlyingTold, FreshHolds
<1>3. mem' = [mem EXCEPT ![h] = p]
  BY DEF Save, ReminderTyped
<1> HIDE DEF p
<1>4. made < MaxWrites /\ made' = made + 1 /\ UNCHANGED <<file, dropped>> /\ made \in Nat
  BY DEF Save, ReminderTyped
<1>5. Accounts(h, p)
  BY <1>2, <1>3, <1>4 DEF Accounts, ReminderTyped
<1>6. QED
  BY <1>2, <1>5

LEMMA NoteSaveAccounts ==
  ASSUME ReminderTyped, NEW h \in Hosts, NoteSave(h)
  PROVE  \E p \in Processes : Accounts(h, p)
<1> DEFINE p == [mem[h] EXCEPT !.step = "idle"]
<1>1. /\ p \in Processes /\ HeldCount(p) = HeldCount(mem[h]) /\ FlyingTold(p) /\ FreshHolds(p)
  BY OneHost DEF Processes, HeldCount, FlyingTold, FreshHolds, NoteSave
<1>2. mem' = [mem EXCEPT ![h] = p] /\ UNCHANGED <<made, dropped>>
  BY DEF NoteSave, ReminderTyped
<1> HIDE DEF p
<1>3. Untold(file, file')
  BY SaveKnownFile DEF NoteSave, ReminderTyped
<1>4. Accounts(h, p)
  BY <1>1, <1>2, <1>3, OneHost DEF Accounts, ReminderTyped, Untold, HeldCount
<1>5. QED
  BY <1>1, <1>4

LEMMA CrashAccounts ==
  ASSUME ReminderTyped, NEW h \in Hosts, Crash(h)
  PROVE  \E p \in Processes : Accounts(h, p)
<1> DEFINE p == [NewProcess EXCEPT !.life = "down"]
<1>1. /\ p \in Processes /\ HeldCount(p) = 0 /\ FlyingTold(p) /\ FreshHolds(p)
  BY ReminderBounds DEF NewProcess, Processes, HeldCount, FlyingTold, FreshHolds
<1> HIDE DEF p
<1>2. /\ mem' = [mem EXCEPT ![h] = p] /\ UNCHANGED <<file, made>>
      /\ dropped' = dropped + HeldCount(mem[h])
  <2>1. dropped' = dropped + mem[h].pending + mem[h].flying + mem[h].timed
    BY DEF Crash
  <2>2. QED
    BY <2>1, OneHost DEF Crash, p, HeldCount, ReminderTyped
<1>3. Accounts(h, p)
  BY SMTT(30), <1>1, <1>2, OneHost DEF Accounts, ReminderTyped, HeldCount
<1>4. QED
  BY <1>1, <1>3

\* A request is counted in the file in the step that makes it, and only below
\* the caps; no other step of an agent touches the day's count.
Keeps == file'.day = file.day /\ file'.asked = file.asked /\ UNCHANGED <<day, emitted>>
Asks ==
  /\ file'.day = day /\ file'.asked = AskedToday(file) + 1
  /\ AskedToday(file) < DayCap
  /\ emitted' = emitted + 1 /\ UNCHANGED day

LEMMA UntoldKeeps ==
  ASSUME ReminderTyped, Untold(file, file'), UNCHANGED <<day, emitted>>
  PROVE  Keeps /\ file' \in StateFiles /\ file'.total = file.total
BY DEF Untold, Keeps

LEMMA LookAccounts ==
  ASSUME ReminderTyped, NEW h \in Hosts, Look(h)
  PROVE  Keeps /\ \E p \in Processes : Accounts(h, p)
<1> DEFINE f == Observed(file, saves)
           news == f.lastSave > mem[h].seen
           late == Larger(mem[h].seen, f.lastSave)
           at == IF news /\ (mem[h].seen > 0 \/ f.lastSave > mem[h].began)
                 THEN mem[h].active ELSE mem[h].atSave
           m == [mem[h] EXCEPT !.seen = late, !.atSave = at, !.extra = mem[h].pending]
           why == Due(View(f, h), h, m.extra)
           next == IF why = "" THEN "idle" ELSE "record"
           p == [m EXCEPT !.step = next]
<1>1. Untold(file, f)
  BY ObservedFile DEF ReminderTyped
<1>2. late \in Nat /\ at \in Nat /\ next \in {"idle", "record"}
  BY <1>1, OneHost DEF Untold, StateFiles, Larger
<1>3. /\ file' = f /\ UNCHANGED <<day, made, dropped, emitted>>
      /\ mem' = [[mem EXCEPT ![h] = m] EXCEPT ![h].step = next]
      /\ mem[h].life = "up" /\ mem[h].step = "idle"
  BY DEF Look
<1> HIDE DEF late, at, next, f
<1>4. m \in Processes /\ m.life = "up" /\ m.flying = 0 /\ HeldCount(m) = HeldCount(mem[h])
  <2>0. mem[h] \in Processes /\ mem[h].pending \in Nat /\ mem[h].flying = 0
    BY <1>3, OneHost DEF FlyingTold
  <2>1. m \in Processes
    BY <1>2, <2>0 DEF Processes
  <2>2. m.pending = mem[h].pending /\ m.flying = mem[h].flying /\ m.timed = mem[h].timed /\ m.life = mem[h].life
    BY <2>0 DEF Processes
  <2>3. QED
    BY <1>3, <2>0, <2>1, <2>2 DEF HeldCount
<1> HIDE DEF m
<1>5. /\ p \in Processes /\ HeldCount(p) = HeldCount(mem[h]) /\ FlyingTold(p) /\ FreshHolds(p)
  <2>1. p \in Processes
    BY <1>2, <1>4 DEF Processes
  <2>2. p.pending = m.pending /\ p.flying = m.flying /\ p.timed = m.timed /\ p.life = m.life
    BY <1>4 DEF Processes
  <2>3. QED
    BY <1>4, <2>1, <2>2 DEF HeldCount, FlyingTold, FreshHolds
<1>6. mem' = [mem EXCEPT ![h] = p]
  BY <1>3 DEF ReminderTyped
<1> HIDE DEF p
<1>7. Keeps /\ file' \in StateFiles /\ file'.total = file.total
  BY <1>1, <1>3, UntoldKeeps
<1>8. HeldCount(mem[h]) \in Nat
  BY OneHost DEF HeldCount
<1>9. Accounts(h, p)
  <2>1. UNCHANGED <<made, dropped>> /\ made \in Nat /\ dropped \in Nat /\ file.total \in Nat
    BY <1>3, OneHost DEF ReminderTyped
  <2>2. QED
    BY <1>5, <1>6, <1>7, <1>8, <2>1 DEF Accounts
<1>10. QED
  BY <1>5, <1>7, <1>9

\* What is due is below both caps.
LEMMA DueBelowCaps ==
  ASSUME NEW f, NEW s, NEW extra, StillDue(f, s, extra)
  PROVE  f.sess[s].nudges < SessionCap /\ AskedToday(f) < DayCap
BY DEF StillDue, Due

LEMMA RecordAccounts ==
  ASSUME ReminderTyped, NEW h \in Hosts, Record(h)
  PROVE  (Keeps \/ Asks) /\ \E p \in Processes : Accounts(h, p)
<1> DEFINE f == View(file, h)
<1>1. Untold(file, f) /\ f.sess[h].nudges = mem[h].nudges /\ AskedToday(f) = AskedToday(file)
  BY ViewFile DEF ReminderTyped, Untold, AskedToday
<1>2. mem[h].life = "up" /\ mem[h].step = "record" /\ UNCHANGED <<day, made, dropped>>
  BY DEF Record
<1>3. mem[h] \in Processes /\ mem[h].flying = 0 /\ HeldCount(mem[h]) \in Nat
  BY <1>2, OneHost DEF FlyingTold, HeldCount
<1> HIDE DEF f
<1>4. CASE StillDue(f, h, mem[h].extra)
  <2> DEFINE p == [mem[h] EXCEPT !.step = "idle", !.extra = 0, !.nudges = mem[h].nudges + 1,
                                 !.lastNudge = mem[h].active]
  <2>1. /\ mem[h].nudges + 1 \in 0..SessionCap /\ AskedToday(file) < DayCap
        /\ mem[h].active \in Nat
    BY <1>1, <1>4, DueBelowCaps, OneHost, ReminderBounds
  <2>2. mem' = [mem EXCEPT ![h] = p] /\ file' = Nudged(f, h) /\ emitted' = emitted + 1
    BY <1>4 DEF Record, f, ReminderTyped
  <2>3. p \in Processes
    BY <1>3, <2>1 DEF Processes
  <2>4. /\ p.pending = mem[h].pending /\ p.flying = mem[h].flying /\ p.timed = mem[h].timed
        /\ p.life = mem[h].life
    BY <1>3 DEF Processes
  <2> HIDE DEF p
  <2>5. HeldCount(p) = HeldCount(mem[h]) /\ FlyingTold(p) /\ FreshHolds(p)
    BY <1>2, <1>3, <2>4 DEF HeldCount, FlyingTold, FreshHolds
  <2>6. /\ file' \in StateFiles /\ file'.total = file.total
        /\ file'.day = day /\ file'.asked = AskedToday(file) + 1
    BY <1>1, <2>2, NudgedFile, OneHost DEF Untold, ReminderTyped
  <2>7. Asks
    BY <1>2, <2>1, <2>2, <2>6 DEF Asks
  <2>8. Accounts(h, p)
    BY <1>2, <1>3, <2>2, <2>5, <2>6, OneHost DEF Accounts, ReminderTyped
  <2>9. QED
    BY <2>3, <2>7, <2>8
<1>5. CASE ~StillDue(f, h, mem[h].extra)
  <2> DEFINE p == [mem[h] EXCEPT !.step = "idle", !.extra = 0]
  <2>2. mem' = [mem EXCEPT ![h] = p] /\ file' = f /\ UNCHANGED emitted
    BY <1>5 DEF Record, f, ReminderTyped
  <2>3. p \in Processes
    BY <1>3 DEF Processes
  <2>4. /\ p.pending = mem[h].pending /\ p.flying = mem[h].flying /\ p.timed = mem[h].timed
        /\ p.life = mem[h].life
    BY <1>3 DEF Processes
  <2> HIDE DEF p
  <2>5. HeldCount(p) = HeldCount(mem[h]) /\ FlyingTold(p) /\ FreshHolds(p)
    BY <1>2, <1>3, <2>4 DEF HeldCount, FlyingTold, FreshHolds
  <2>6. Keeps /\ file' \in StateFiles /\ file'.total = file.total
    BY <1>1, <1>2, <2>2, UntoldKeeps
  <2>8. Accounts(h, p)
    BY <1>2, <1>3, <2>2, <2>5, <2>6, OneHost DEF Accounts, ReminderTyped
  <2>9. QED
    BY <2>3, <2>6, <2>8
<1>6. QED
  BY <1>4, <1>5

LEMMA HostStepAccounts ==
  ASSUME ReminderTyped, NEW h \in Hosts,
         \/ OpenHost(h) \/ Activity(h) \/ Write(h) \/ Save(h)
         \/ Look(h) \/ Crash(h) \/ MainThread(h) \/ TimerThread(h)
  PROVE  /\ Keeps \/ Asks
         /\ \E p \in Processes : Accounts(h, p)
         /\ UNCHANGED <<hook, said>> /\ saves' \in Nat
<1>1. UNCHANGED <<hook, said>> /\ saves' \in Nat
  <2>1. saves \in Nat /\ saves + 1 \in Nat
    BY DEF ReminderTyped
  <2>2. CASE OpenHost(h) \/ Activity(h) \/ Write(h) \/ Crash(h)
    BY <2>1, <2>2 DEF OpenHost, Activity, Write, Crash
  <2>3. CASE Save(h)
    BY <2>1, <2>3 DEF Save
  <2>4. CASE Look(h)
    BY <2>1, <2>4 DEF Look
  <2>5. CASE Record(h)
    BY <2>1, <2>5 DEF Record
  <2>6. CASE Flush(h) \/ NoteSave(h) \/ TimerThread(h)
    BY <2>1, <2>6 DEF Flush, NoteSave, TimerThread, Timer, TimerFlush
  <2>7. QED
    BY <2>2, <2>3, <2>4, <2>5, <2>6 DEF MainThread
<1>2. CASE OpenHost(h)
  BY <1>1, <1>2, OpenAccounts DEF OpenHost, Keeps
<1>3. CASE Activity(h)
  BY <1>1, <1>3, ActivityAccounts DEF Activity, Keeps
<1>4. CASE Write(h)
  BY <1>1, <1>4, WriteAccounts DEF Write, Keeps
<1>5. CASE Save(h)
  BY <1>1, <1>5, SaveAccounts DEF Save, Keeps
<1>6. CASE Look(h)
  BY <1>1, <1>6, LookAccounts
<1>7. CASE Crash(h)
  BY <1>1, <1>7, CrashAccounts DEF Crash, Keeps
<1>8. CASE MainThread(h)
  <2>1. CASE Flush(h)
    <3>1. Keeps
      BY <2>1, CountedFile, OneHost DEF Flush, Keeps, ReminderTyped
    <3>2. QED
      BY <1>1, <2>1, <3>1, FlushAccounts
  <2>2. CASE NoteSave(h)
    <3>1. Keeps
      BY <2>2, SaveKnownFile, UntoldKeeps DEF NoteSave, ReminderTyped
    <3>2. QED
      BY <1>1, <2>2, <3>1, NoteSaveAccounts
  <2>3. CASE Record(h)
    BY <1>1, <2>3, RecordAccounts
  <2>4. QED
    BY <1>8, <2>1, <2>2, <2>3 DEF MainThread
<1>9. CASE TimerThread(h)
  <2>1. CASE Timer(h)
    BY <1>1, <2>1, TimerAccounts DEF Timer, Keeps
  <2>2. CASE TimerFlush(h)
    <3>1. Keeps
      BY <2>2, CountedFile, OneHost DEF TimerFlush, Keeps, ReminderTyped
    <3>2. QED
      BY <1>1, <2>2, <3>1, TimerFlushAccounts
  <2>3. QED
    BY <1>9, <2>1, <2>2 DEF TimerThread
<1>10. QED
  BY <1>2, <1>3, <1>4, <1>5, <1>6, <1>7, <1>8, <1>9

-----------------------------------------------------------------------------
(* The hooks of Claude Code and the switches: they hold no counts.          *)

\* What a hook says, it says past everything its transcript holds.
SaysOnce(c) ==
  \/ UNCHANGED said
  \/ \E n \in Nat : ~InTranscript(c, n) /\ said' = [said EXCEPT ![c] = Append(said[c], n)]

HookMoves(c) ==
  /\ Keeps \/ Asks
  /\ file' \in StateFiles /\ file'.total = file.total
  /\ hook' \in [Codes -> [marker : Nat, seq : Nat]]
  /\ SaysOnce(c)
  /\ UNCHANGED <<saves, mem, made, dropped>>

LEMMA QuietHook ==
  ASSUME ReminderTyped, NEW c \in Codes, Quiet(c) \/ UNCHANGED hook
  PROVE  hook' \in [Codes -> [marker : Nat, seq : Nat]]
BY SMTT(30) DEF Quiet, NoHook, ReminderTyped

\* The first lines of every hook, and one change of the session's record.
LEMMA WorkedOpened ==
  ASSUME ReminderTyped, NEW c \in Codes, NEW gap \in 0..1
  PROVE  /\ Untold(file, Worked(Opened(c), c, gap))
         /\ Worked(Opened(c), c, gap).sess[c] \in Records
<1>1. c \in Sessions
  BY DEF Sessions
<1>2. Untold(file, Opened(c))
  BY <1>1, OpenedFile DEF ReminderTyped
<1>3. Untold(Opened(c), Worked(Opened(c), c, gap))
  BY <1>1, <1>2, WorkedFile, ReminderBounds DEF Untold
<1>4. QED
  BY <1>1, <1>2, <1>3 DEF Untold, StateFiles

LEMMA StartMoves ==
  ASSUME ReminderTyped, NEW c \in Codes, SessionStart(c)
  PROVE  HookMoves(c)
<1>1. Untold(file, file')
  BY WorkedOpened DEF SessionStart
<1>2. QED
  BY <1>1, UntoldKeeps, QuietHook DEF SessionStart, HookMoves, SaysOnce

LEMMA PromptMoves ==
  ASSUME ReminderTyped, NEW c \in Codes, Prompt(c)
  PROVE  HookMoves(c)
<1>1. PICK gap \in 0..1 :
        file' = [Worked(Opened(c), c, gap) EXCEPT !.sess[c].prompts = Smaller(@ + 1, MinPrompts)]
  BY DEF Prompt
<1> DEFINE f == Worked(Opened(c), c, gap)
           r == [f.sess[c] EXCEPT !.prompts = Smaller(f.sess[c].prompts + 1, MinPrompts)]
<1>2. Untold(file, f) /\ f.sess[c] \in Records /\ c \in Sessions
  BY WorkedOpened DEF Sessions
<1> HIDE DEF f
<1>3. r \in Records
  <2>1. Smaller(f.sess[c].prompts + 1, MinPrompts) \in Nat
    BY <1>2, Bounds DEF Records, Smaller
  <2>2. QED
    BY <1>2, <2>1 DEF Records
<1>4. file' = [f EXCEPT !.sess[c] = r]
  BY <1>1 DEF f
<1>5. Untold(file, file')
  BY <1>2, <1>3, <1>4, RecordSet DEF Untold
<1>6. QED
  BY <1>5, UntoldKeeps, QuietHook DEF Prompt, HookMoves, SaysOnce

LEMMA CompactMoves ==
  ASSUME ReminderTyped, NEW c \in Codes, PreCompact(c)
  PROVE  HookMoves(c)
<1>1. PICK gap \in 0..1 :
        file' = [Worked(Opened(c), c, gap) EXCEPT !.sess[c].compacted = TRUE]
  BY DEF PreCompact
<1> DEFINE f == Worked(Opened(c), c, gap)
           r == [f.sess[c] EXCEPT !.compacted = TRUE]
<1>2. Untold(file, f) /\ f.sess[c] \in Records /\ c \in Sessions
  BY WorkedOpened DEF Sessions
<1> HIDE DEF f
<1>3. r \in Records
  BY <1>2 DEF Records
<1>4. file' = [f EXCEPT !.sess[c] = r]
  BY <1>1 DEF f
<1>5. Untold(file, file')
  BY <1>2, <1>3, <1>4, RecordSet DEF Untold
<1>6. QED
  BY <1>5, UntoldKeeps, QuietHook DEF PreCompact, HookMoves, SaysOnce

LEMMA EndMoves ==
  ASSUME ReminderTyped, NEW c \in Codes, SessionEnd(c)
  PROVE  HookMoves(c)
<1> DEFINE f == Opened(c)
           r == [f.sess[c] EXCEPT !.ended = TRUE]
<1>1. Untold(file, f) /\ f.sess[c] \in Records /\ c \in Sessions
  BY OpenedFile DEF Sessions, ReminderTyped, Untold, StateFiles
<1>2. file' = [f EXCEPT !.sess[c] = r]
  BY DEF SessionEnd
<1> HIDE DEF f
<1>3. r \in Records
  BY <1>1 DEF Records
<1>4. Untold(file, file')
  BY <1>1, <1>2, <1>3, RecordSet DEF Untold
<1>5. QED
  BY <1>4, UntoldKeeps, QuietHook DEF SessionEnd, HookMoves, SaysOnce

LEMMA StopMoves ==
  ASSUME ReminderTyped, NEW c \in Codes, Stop(c)
  PROVE  HookMoves(c)
<1>1. PICK gap \in 0..1 :
        LET f == Worked(Opened(c), c, gap)
            asks == f.sess[c].prompts >= MinPrompts /\ Due(f, c, 0) # ""
        IN  /\ file' = f
            /\ hook' = [hook EXCEPT ![c] = IF asks THEN [marker |-> saves, seq |-> NextSeq(f.sess[c])]
                                           ELSE NoHook]
  BY DEF Stop
<1> DEFINE f == Worked(Opened(c), c, gap)
<1>2. Untold(file, f) /\ f.sess[c] \in Records
  BY WorkedOpened
<1>3. PICK new : new \in {[marker |-> saves, seq |-> NextSeq(f.sess[c])], NoHook}
                 /\ hook' = [hook EXCEPT ![c] = new]
  BY <1>1
<1>4. file' = f
  BY <1>1
<1> HIDE DEF f
<1>5. NextSeq(f.sess[c]) \in Nat /\ saves \in Nat
  <2>1. f.sess[c].nudges \in Nat /\ f.sess[c].floor \in Nat /\ saves \in Nat
    BY <1>2 DEF Records, ReminderTyped
  <2>2. QED
    BY <2>1 DEF NextSeq, Larger
<1>6. hook' \in [Codes -> [marker : Nat, seq : Nat]]
  BY <1>3, <1>5 DEF NoHook, ReminderTyped
<1>7. Untold(file, file')
  BY <1>2, <1>4
<1>8. QED
  BY <1>6, <1>7, UntoldKeeps DEF Stop, HookMoves, SaysOnce

LEMMA AlreadyMoves ==
  ASSUME ReminderTyped, NEW c \in Codes, AlreadyAsked(c)
  PROVE  HookMoves(c)
<1>1. c \in Sessions /\ hook[c].seq \in Nat /\ saves \in Nat /\ file \in StateFiles
  BY DEF Sessions, ReminderTyped
<1> DEFINE f == Ensured(file, c, saves)
<1>2. Untold(file, f)
  BY <1>1, EnsuredFile
<1>3. file' = SeqSeen(f, c, hook[c].seq)
  BY DEF AlreadyAsked
<1> HIDE DEF f
<1>4. Untold(file, file')
  BY <1>1, <1>2, <1>3, SeqSeenFile DEF Untold
<1>5. QED
  BY <1>4, UntoldKeeps, QuietHook DEF AlreadyAsked, HookMoves, SaysOnce

LEMMA AskMoves ==
  ASSUME ReminderTyped, NEW c \in Codes, Ask(c)
  PROVE  HookMoves(c)
<1>1. c \in Sessions /\ hook[c].seq \in Nat /\ hook[c].marker \in Nat /\ file \in StateFiles
      /\ day \in Nat
  BY DEF Sessions, ReminderTyped
<1> DEFINE f == Session(file, c, hook[c].marker)
           stands == NextSeq(f.sess[c]) = hook[c].seq /\ StillDue(f, c, 0)
<1>2. Untold(file, f) /\ AskedToday(f) = AskedToday(file)
  BY <1>1, SessionFile DEF Untold, AskedToday
<1>3. /\ ~InTranscript(c, hook[c].seq)
      /\ hook' \in [Codes -> [marker : Nat, seq : Nat]]
      /\ UNCHANGED <<saves, mem, day, made, dropped>>
  BY QuietHook DEF Ask
<1>4. CASE stands
  <2>1. /\ file' = Nudged(f, c) /\ emitted' = emitted + 1
        /\ said' = [said EXCEPT ![c] = Append(said[c], hook[c].seq)]
    BY <1>4 DEF Ask, ReminderTyped
  <2>2. AskedToday(file) < DayCap
    BY <1>2, <1>4, DueBelowCaps
  <2> HIDE DEF f
  <2>3. /\ file' \in StateFiles /\ file'.total = file.total
        /\ file'.day = day /\ file'.asked = AskedToday(file) + 1
    BY <1>1, <1>2, <2>1, NudgedFile DEF Untold
  <2>4. Asks
    BY <1>3, <2>1, <2>2, <2>3 DEF Asks
  <2>5. QED
    BY <1>1, <1>3, <2>1, <2>3, <2>4 DEF HookMoves, SaysOnce
<1>5. CASE ~stands
  <2>1. file' = f /\ UNCHANGED <<said, emitted>>
    BY <1>5 DEF Ask
  <2> HIDE DEF f
  <2>2. QED
    BY <1>2, <1>3, <2>1, UntoldKeeps DEF HookMoves, SaysOnce
<1>6. QED
  BY <1>4, <1>5

-----------------------------------------------------------------------------
(* The day's requests, the writes, the numbers.                             *)

DayCounted == file.day <= day /\ file.asked <= DayCap /\ emitted <= AskedToday(file)

\* No more waits than was made, so every write that waits is a pair of Waiting.
WritesCounted ==
  /\ made <= MaxWrites
  /\ IsFiniteSet(Waiting)
  /\ \A h \in Hosts : HeldCount(mem[h]) <= MaxWrites
  /\ WritesAddUp

ReminderInv == ReminderTyped /\ DayCounted /\ WritesCounted /\ NumbersNeverRepeat

LEMMA ReminderStart == Init => ReminderInv
<1> SUFFICES ASSUME Init PROVE ReminderInv
  OBVIOUS
<1> USE DEF Init
<1>1. DefaultFile \in StateFiles /\ DefaultFile.total = 0 /\ DefaultFile.asked = 0 /\ DefaultFile.day = 0
  BY NewIsRecord DEF DefaultFile, StateFiles
<1>2. NewProcess \in Processes /\ HeldCount(NewProcess) = 0 /\ FlyingTold(NewProcess) /\ FreshHolds(NewProcess)
  BY ReminderBounds DEF NewProcess, Processes, HeldCount, FlyingTold, FreshHolds
<1>3. ReminderTyped
  BY <1>1, <1>2 DEF ReminderTyped, NoHook
<1>4. DayCounted
  BY <1>1, ReminderBounds DEF DayCounted, AskedToday
<1>5. Waiting = {}
  <2>1. \A h \in Hosts : Held(h) = 0
    BY DEF Held, NewProcess
  <2>2. QED
    BY <2>1 DEF Waiting
<1>6. WritesCounted
  BY <1>1, <1>2, <1>5, FS_EmptySet, ReminderBounds DEF WritesCounted, WritesAddUp
<1>7. NumbersNeverRepeat
  BY DEF NumbersNeverRepeat
<1>8. QED
  BY <1>3, <1>4, <1>6, <1>7 DEF ReminderInv

LEMMA HostTyped ==
  ASSUME ReminderTyped, NEW h \in Hosts, NEW p \in Processes, Accounts(h, p), Keeps \/ Asks,
         UNCHANGED <<hook, said>>, saves' \in Nat
  PROVE  ReminderTyped'
<1>1. /\ file' \in StateFiles /\ made' \in Nat /\ dropped' \in Nat
      /\ mem' = [mem EXCEPT ![h] = p] /\ FlyingTold(p) /\ FreshHolds(p)
  BY DEF Accounts
<1>2. mem' \in [Hosts -> Processes] /\ \A g \in Hosts : mem'[g] = IF g = h THEN p ELSE mem[g]
  BY <1>1 DEF ReminderTyped
<1>3. day' \in Nat /\ emitted' \in Nat
  BY DEF Keeps, Asks, ReminderTyped
<1>4. QED
  BY <1>1, <1>2, <1>3 DEF ReminderTyped

LEMMA DayStays ==
  ASSUME ReminderTyped, DayCounted, Keeps \/ Asks, file' \in StateFiles
  PROVE  DayCounted'
<1>1. file.asked \in Nat /\ file.day \in Nat /\ day \in Nat /\ emitted \in Nat
  BY DEF ReminderTyped, StateFiles
<1>2. QED
  BY <1>1, ReminderBounds DEF DayCounted, Keeps, Asks, AskedToday

LEMMA HeldIsTotal == \A h \in Hosts : Held(h) = HeldCount(mem[h])
BY DEF Held, HeldCount

\* The pairs follow what one host takes in or hands over.
LEMMA HostCounted ==
  ASSUME ReminderTyped, WritesCounted, NEW h \in Hosts, NEW p \in Processes, Accounts(h, p)
  PROVE  WritesCounted'
<1> DEFINE held == [g \in Hosts |-> HeldCount(mem[g])]
           then == [g \in Hosts |-> HeldCount(mem'[g])]
           W(c) == {w \in Hosts \X (1..MaxWrites) : w[2] <= c[w[1]]}
<1>1. /\ mem \in [Hosts -> Processes] /\ mem' = [mem EXCEPT ![h] = p]
      /\ \A g \in Hosts : mem[g] \in Processes
  BY DEF Accounts, ReminderTyped
<1>2. \A q \in Processes : HeldCount(q) \in Nat
  BY DEF Processes, HeldCount
<1>3. /\ held \in [Hosts -> Nat] /\ then = [held EXCEPT ![h] = HeldCount(p)]
      /\ then \in [Hosts -> Nat] /\ held = [then EXCEPT ![h] = held[h]]
      /\ held[h] = HeldCount(mem[h]) /\ then[h] = HeldCount(p)
      /\ \A g \in Hosts : held[g] = HeldCount(mem[g]) /\ then[g] = HeldCount(mem'[g])
  BY <1>1, <1>2
<1>4. Waiting = W(held) /\ Waiting' = W(then)
  BY DEF Waiting, Held, HeldCount
<1>5. /\ made \in Nat /\ dropped \in Nat /\ file.total \in Nat /\ file'.total \in Nat /\ dropped' \in Nat
      /\ MaxWrites \in Nat /\ made <= MaxWrites
      /\ IsFiniteSet(Waiting) /\ held[h] <= MaxWrites
      /\ made = file.total + dropped + Cardinality(Waiting) /\ Cardinality(Waiting) \in Nat
  <2>1. Cardinality(Waiting) \in Nat
    BY FS_CardinalityType DEF WritesCounted
  <2>2. file.total \in Nat /\ file'.total \in Nat /\ dropped' \in Nat
    BY DEF Accounts, ReminderTyped, StateFiles
  <2>3. QED
    BY <1>3, <2>1, <2>2, ReminderBounds DEF ReminderTyped, WritesCounted, WritesAddUp
<1> HIDE DEF held, then, W
<1>6. CASE /\ HeldCount(p) = HeldCount(mem[h]) + 1 /\ made < MaxWrites /\ made' = made + 1
           /\ file'.total + dropped' = file.total + dropped
  <2>1. held[h] <= Cardinality(W(held))
    <3>1. held = [held EXCEPT ![h] = held[h] + 0]
      BY <1>3
    <3>2. QED
      BY <1>3, <1>4, <1>5, <3>1, MoreWaiting DEF W
  <2>2. then[h] <= MaxWrites /\ then = [held EXCEPT ![h] = held[h] + 1]
    BY <1>3, <1>4, <1>5, <1>6, <2>1
  <2>3. IsFiniteSet(W(then)) /\ Cardinality(W(then)) = Cardinality(W(held)) + 1
    BY <1>3, <1>4, <1>5, <2>2, MoreWaiting DEF W
  <2>4. \A g \in Hosts : HeldCount(mem'[g]) <= MaxWrites
    BY <1>1, <1>3, <2>2 DEF WritesCounted
  <2>5. QED
    BY <1>4, <1>5, <1>6, <2>3, <2>4 DEF WritesCounted, WritesAddUp
<1>7. CASE /\ made' = made /\ HeldCount(p) <= HeldCount(mem[h])
           /\ file'.total + dropped' = file.total + dropped + (HeldCount(mem[h]) - HeldCount(p))
  <2> DEFINE k == HeldCount(mem[h]) - HeldCount(p)
  <2>1. k \in Nat /\ held[h] = then[h] + k
    BY <1>1, <1>2, <1>3, <1>7
  <2> HIDE DEF k
  <2>2. held = [then EXCEPT ![h] = then[h] + k]
    BY <1>3, <2>1
  <2>3. IsFiniteSet(W(then)) /\ Cardinality(W(held)) = Cardinality(W(then)) + k
    BY <1>3, <1>4, <1>5, <2>1, <2>2, MoreWaiting DEF W
  <2>4. \A g \in Hosts : HeldCount(mem'[g]) <= MaxWrites
    BY <1>1, <1>2, <1>3, <1>5, <1>7 DEF WritesCounted
  <2>5. Cardinality(W(then)) \in Nat
    BY <2>3, FS_CardinalityType
  <2>6. made' = file'.total + dropped' + Cardinality(W(then))
    BY <1>4, <1>5, <1>7, <2>1, <2>3, <2>5 DEF k
  <2>7. QED
    BY <1>4, <1>5, <1>7, <2>3, <2>4, <2>6 DEF WritesCounted, WritesAddUp
<1>8. QED
  BY <1>6, <1>7 DEF Accounts

LEMMA HookKeeps ==
  ASSUME ReminderInv, NEW c \in Codes, HookMoves(c)
  PROVE  ReminderInv'
<1>1. said' \in [Codes -> Seq(Nat)]
  <2>1. said \in [Codes -> Seq(Nat)] /\ said[c] \in Seq(Nat)
    BY DEF ReminderInv, ReminderTyped
  <2>2. \A n \in Nat : Append(said[c], n) \in Seq(Nat)
    BY <2>1
  <2>3. QED
    BY <2>1, <2>2 DEF HookMoves, SaysOnce
<1>2. day' \in Nat /\ emitted' \in Nat
  BY DEF HookMoves, Keeps, Asks, ReminderInv, ReminderTyped
<1>3. ReminderTyped'
  BY <1>1, <1>2 DEF HookMoves, ReminderInv, ReminderTyped
<1>4. DayCounted'
  BY DayStays DEF HookMoves, ReminderInv
<1>5. Waiting' = Waiting
  BY DEF HookMoves, Waiting, Held
<1>6. WritesCounted'
  BY <1>5 DEF HookMoves, ReminderInv, WritesCounted, WritesAddUp
<1>7. NumbersNeverRepeat'
  <2>1. CASE UNCHANGED said
    BY <2>1 DEF ReminderInv, NumbersNeverRepeat
  <2>2. CASE \E n \in Nat : ~InTranscript(c, n) /\ said' = [said EXCEPT ![c] = Append(said[c], n)]
    <3>1. PICK n \in Nat : ~InTranscript(c, n) /\ said' = [said EXCEPT ![c] = Append(said[c], n)]
      BY <2>2
    <3> DEFINE old == said[c]
               new == Append(old, n)
    <3>2. old \in Seq(Nat) /\ said'[c] = new /\ \A d \in Codes : d # c => said'[d] = said[d]
      BY <3>1 DEF ReminderInv, ReminderTyped
    <3>3. /\ \A i \in DOMAIN old : old[i] # n
          /\ \A i, j \in DOMAIN old : i # j => old[i] # old[j]
      BY <3>1 DEF ReminderInv, NumbersNeverRepeat, InTranscript
    <3> HIDE DEF old
    <3>4. /\ Len(old) \in Nat /\ DOMAIN old = 1..Len(old) /\ DOMAIN new = 1..(Len(old) + 1)
          /\ \A i \in DOMAIN old : new[i] = old[i]
          /\ new[Len(old) + 1] = n
      BY <3>2
    <3> HIDE DEF new
    <3>5. \A i, j \in DOMAIN new : i # j => new[i] # new[j]
      BY <3>3, <3>4
    <3>6. QED
      BY <3>2, <3>5 DEF ReminderInv, NumbersNeverRepeat
  <2>3. QED
    BY <2>1, <2>2 DEF HookMoves, SaysOnce
<1>8. QED
  BY <1>3, <1>4, <1>6, <1>7 DEF ReminderInv

LEMMA ReminderStep == ReminderInv /\ [Next]_vars => ReminderInv'
<1> SUFFICES ASSUME ReminderInv, [Next]_vars PROVE ReminderInv'
  OBVIOUS
<1>0. ReminderTyped /\ file \in StateFiles /\ file.asked \in Nat /\ file.total \in Nat
  BY DEF ReminderInv, ReminderTyped, StateFiles
<1>1. ASSUME NEW h \in Hosts,
             \/ OpenHost(h) \/ Activity(h) \/ Write(h) \/ Save(h)
             \/ Look(h) \/ Crash(h) \/ MainThread(h) \/ TimerThread(h)
      PROVE ReminderInv'
  <2>1. /\ Keeps \/ Asks
        /\ \E p \in Processes : Accounts(h, p)
        /\ UNCHANGED <<hook, said>> /\ saves' \in Nat
    BY <1>0, <1>1, HostStepAccounts
  <2>2. PICK p \in Processes : Accounts(h, p)
    BY <2>1
  <2>3. ReminderTyped'
    BY <1>0, <2>1, <2>2, HostTyped
  <2>4. DayCounted'
    BY <2>1, <2>3, DayStays DEF ReminderInv, ReminderTyped
  <2>5. WritesCounted'
    BY <1>0, <2>2, HostCounted DEF ReminderInv
  <2>6. NumbersNeverRepeat'
    BY <2>1 DEF ReminderInv, NumbersNeverRepeat
  <2>7. QED
    BY <2>3, <2>4, <2>5, <2>6 DEF ReminderInv
<1>2. ASSUME NEW c \in Codes,
             \/ SessionStart(c) \/ Prompt(c) \/ PreCompact(c) \/ Stop(c) \/ AlreadyAsked(c)
             \/ Ask(c) \/ SessionEnd(c)
      PROVE ReminderInv'
  <2>1. HookMoves(c)
    BY <1>0, <1>2, StartMoves, PromptMoves, CompactMoves, StopMoves, AlreadyMoves, AskMoves, EndMoves
  <2>2. QED
    BY <2>1, HookKeeps
\* Whatever leaves the processes, the hooks and what was said alone.
<1>3. ASSUME UNCHANGED <<saves, mem, hook, said, made>>, file' \in StateFiles,
             day' \in Nat, emitted' \in Nat, dropped' \in Nat, DayCounted',
             file'.total + dropped' = file.total + dropped
      PROVE ReminderInv'
  <2>1. ReminderTyped'
    BY <1>0, <1>3 DEF ReminderTyped
  <2>2. Waiting' = Waiting
    BY <1>3 DEF Waiting, Held
  <2>3. Cardinality(Waiting) \in Nat
    BY FS_CardinalityType DEF ReminderInv, WritesCounted
  <2>4. file'.total \in Nat /\ dropped \in Nat
    BY <1>0, <1>3 DEF StateFiles, ReminderTyped
  <2>5. WritesCounted'
    BY <1>0, <1>3, <2>2, <2>3, <2>4 DEF ReminderInv, WritesCounted, WritesAddUp
  <2>6. NumbersNeverRepeat'
    BY <1>3 DEF ReminderInv, NumbersNeverRepeat
  <2>7. QED
    BY <1>3, <2>1, <2>5, <2>6 DEF ReminderInv
<1>4. ASSUME NEW setting \in BOOLEAN, Asking(setting) PROVE ReminderInv'
  <2>1. /\ file' \in StateFiles /\ file'.total = file.total
        /\ file'.day = file.day /\ file'.asked = file.asked
        /\ UNCHANGED <<saves, mem, hook, said, day, made, dropped, emitted>>
    BY <1>0, <1>4 DEF Asking, StateFiles
  <2>2. DayCounted'
    BY <1>0, <2>1, DayStays DEF Keeps, ReminderInv
  <2>3. QED
    BY <1>0, <1>3, <2>1, <2>2 DEF ReminderTyped
<1>5. CASE NextDay
  <2>1. /\ UNCHANGED <<file, saves, mem, hook, said, made, dropped>>
        /\ day' = day + 1 /\ emitted' = 0
    BY <1>5 DEF NextDay
  <2>2. DayCounted'
    BY <1>0, <2>1 DEF ReminderInv, DayCounted, AskedToday, ReminderTyped, StateFiles
  <2>3. QED
    BY <1>0, <1>3, <2>1, <2>2 DEF ReminderTyped
<1>6. CASE LoseFile
  <2>1. /\ UNCHANGED <<saves, mem, hook, said, day, made>>
        /\ file' = DefaultFile /\ emitted' = 0 /\ dropped' = dropped + file.total
    BY <1>6 DEF LoseFile
  <2>2. DefaultFile \in StateFiles /\ DefaultFile.total = 0 /\ DefaultFile.asked = 0 /\ DefaultFile.day = 0
    BY NewIsRecord DEF DefaultFile, StateFiles
  <2>3. DayCounted'
    BY <1>0, <2>1, <2>2, ReminderBounds DEF DayCounted, AskedToday, ReminderTyped
  <2>4. QED
    BY <1>0, <1>3, <2>1, <2>2, <2>3 DEF ReminderTyped
<1>7. CASE UNCHANGED vars
  <2>1. UNCHANGED <<file, saves, mem, hook, said, day, made, dropped, emitted>>
    BY <1>7 DEF vars
  <2>2. DayCounted'
    BY <2>1 DEF ReminderInv, DayCounted, AskedToday
  <2>3. QED
    BY <1>0, <1>3, <2>1, <2>2 DEF ReminderTyped
<1>8. QED
  BY <1>1, <1>2, <1>4, <1>5, <1>6, <1>7 DEF Next

THEOREM RemindersInvariant == Spec => []ReminderInv
BY ReminderStart, ReminderStep, PTL DEF Spec

\* For any hosts, sessions, caps and losses of lifecycle.json: a Claude Code
\* session is never continued twice under one request number.
THEOREM NumbersAreOnce == Spec => []NumbersNeverRepeat
<1>1. ReminderInv => NumbersNeverRepeat
  BY DEF ReminderInv
<1>2. QED
  BY <1>1, RemindersInvariant, PTL

\* For any number of agents that look first and record later: the requests of a
\* day stay within its cap, and a host's within its session's.
THEOREM CapsAreKept == Spec => []CapsKept
<1>1. ReminderInv => CapsKept
  <2> SUFFICES ASSUME ReminderInv PROVE emitted <= DayCap /\ \A h \in Hosts : mem[h].nudges <= SessionCap
    BY DEF CapsKept
  <2>2. file.asked \in Nat /\ file.asked <= DayCap /\ emitted <= AskedToday(file) /\ emitted \in Nat
    <3>1. file \in StateFiles /\ emitted \in Nat
      BY DEF ReminderInv, ReminderTyped
    <3>2. file.asked \in Nat
      BY <3>1 DEF StateFiles
    <3>3. QED
      BY <3>1, <3>2 DEF ReminderInv, DayCounted
  <2>3. emitted <= DayCap
    BY <2>2, ReminderBounds DEF AskedToday
  <2>4. \A h \in Hosts : mem[h].nudges <= SessionCap
    <3>1. \A h \in Hosts : mem[h].nudges \in 0..SessionCap
      BY OneHost DEF ReminderInv
    <3>2. QED
      BY <3>1, ReminderBounds
  <2>5. QED
    BY <2>3, <2>4
<1>2. QED
  BY <1>1, RemindersInvariant, PTL

\* For any number of hosts, flushed by their timers and their main threads and
\* killed between any two steps: every write is in the file, waits in one
\* process, or was lost with a process or a file.
THEOREM WritesAreCounted == Spec => []WritesAddUp
<1>1. ReminderInv => WritesAddUp
  BY DEF ReminderInv, WritesCounted
<1>2. QED
  BY <1>1, RemindersInvariant, PTL

-----------------------------------------------------------------------------
(* The counts of sequences of calls.                                        *)

Entry == [by : [Chats -> Nat], last : [Chats -> Nat], days : [Days -> Nat], proposed : Nat]
Event == [call : Calls, day : Days]

Tails == [Chats -> [calls : Seq(Calls), at : Nat]]
GramsTyped(gs) == DOMAIN gs \subseteq Sequences /\ \A g \in DOMAIN gs : gs[g] \in Entry

SequenceTyped ==
  /\ GramsTyped(grams) /\ tails \in Tails
  /\ today \in Days
  /\ calls \in [Chats -> Seq(Event)]
  /\ forgotten \in BOOLEAN

\* A tail is the end of its session, and as long as it may be.
SuffixOf(seq, whole) ==
  /\ Len(seq) <= Len(whole)
  /\ \A j \in 1..Len(seq) : seq[j] = whole[(Len(whole) - Len(seq)) + j].call
CarriedOf(n) == IF n <= Carried THEN n ELSE Carried
TailsOf(ts, wholes, exact) ==
  \A s \in Chats :
    /\ SuffixOf(ts[s].calls, wholes[s])
    /\ exact => Len(ts[s].calls) = CarriedOf(Len(wholes[s]))

SequenceInv == SequenceTyped /\ TailsOf(tails, calls, ~forgotten) /\ CountsTrue

CountOf(gs, g, s) == IF g \in DOMAIN gs THEN gs[g].by[s] ELSE 0

-----------------------------------------------------------------------------
(* Sequences.                                                               *)

LEMMA LengthOf ==
  ASSUME NEW g \in Sequences
  PROVE  g \in Seq(Calls) /\ Len(g) \in NMin..NMax /\ Len(g) \in Nat \ {0}
<1>1. PICK n \in NMin..NMax : g \in [1..n -> Calls]
  BY DEF Sequences
<1>2. n \in Nat /\ n > 0
  BY SequenceConstants
<1>3. g \in Seq(Calls) /\ Len(g) = n
  BY <1>1, <1>2
<1>4. QED
  BY <1>2, <1>3

LEMMA EndOf ==
  ASSUME NEW S, NEW seq \in Seq(S), NEW n \in Nat, n <= Len(seq)
  PROVE  /\ Ending(seq, n) \in Seq(S) /\ Len(Ending(seq, n)) = n
         /\ \A j \in 1..n : Ending(seq, n)[j] = seq[(Len(seq) - n) + j]
<1> DEFINE m == Len(seq) - n
<1>1. m \in Nat /\ Len(seq) \in Nat /\ m + 1 = Len(seq) - n + 1 /\ Len(seq) - m = n /\ m <= Len(seq)
  OBVIOUS
<1>2. Ending(seq, n) = SubSeq(seq, m + 1, Len(seq))
  BY <1>1 DEF Ending
<1> HIDE DEF m
<1>3. /\ SubSeq(seq, m + 1, Len(seq)) \in Seq(S)
      /\ Len(SubSeq(seq, m + 1, Len(seq))) = Len(seq) - m
      /\ \A j \in 1..(Len(seq) - m) : SubSeq(seq, m + 1, Len(seq))[j] = seq[m + j]
  BY SMTT(60), <1>1
<1>4. QED
  BY <1>1, <1>2, <1>3 DEF m

-----------------------------------------------------------------------------
(* A call more.                                                             *)

\* The sequence is at the end of a whole.
AtEnd(whole, g) ==
  /\ Len(g) <= Len(whole)
  /\ \A j \in 1..Len(g) : whole[(Len(whole) - Len(g)) + j].call = g[j]

\* Where a sequence occurs in a whole, from a day on.
PlacesFrom(whole, g, from) ==
  {i \in 0..(Len(whole) - Len(g)) :
     /\ \A j \in 1..Len(g) : whole[i + j].call = g[j]
     /\ whole[i + Len(g)].day >= from}

LEMMA FinitelyMany ==
  ASSUME NEW whole \in Seq(Event), NEW g \in Sequences, NEW from \in Int
  PROVE  IsFiniteSet(PlacesFrom(whole, g, from)) /\ Cardinality(PlacesFrom(whole, g, from)) \in Nat
<1>1. PlacesFrom(whole, g, from) \subseteq 0..Len(whole)
  BY LengthOf DEF PlacesFrom
<1>2. IsFiniteSet(0..Len(whole))
  BY FS_Interval
<1>3. QED
  BY <1>1, <1>2, FS_Subset, FS_CardinalityType

LEMMA PlacesMore ==
  ASSUME NEW whole \in Seq(Event), NEW e \in Event, NEW g \in Sequences, NEW from \in Int
  PROVE  LET new == Append(whole, e)
             old == PlacesFrom(whole, g, from)
             place == Len(new) - Len(g)
         IN /\ PlacesFrom(new, g, from) = IF AtEnd(new, g) /\ e.day >= from THEN old \union {place} ELSE old
            /\ place \notin old
<1> DEFINE new == Append(whole, e)
           old == PlacesFrom(whole, g, from)
           place == Len(new) - Len(g)
<1>1. /\ Len(whole) \in Nat /\ Len(new) = Len(whole) + 1 /\ Len(g) \in Nat \ {0}
      /\ \A j \in 1..Len(whole) : new[j] = whole[j]
      /\ new \in Seq(Event) /\ new[Len(new)] = e
  BY LengthOf
<1> HIDE DEF new
<1>2. ASSUME NEW i \in 0..(Len(whole) - Len(g))
      PROVE  i \in PlacesFrom(new, g, from) <=> i \in old
  <2>1. /\ i \in 0..(Len(new) - Len(g))
        /\ \A j \in 1..Len(g) : i + j \in 1..Len(whole)
        /\ i + Len(g) \in 1..Len(whole)
    BY <1>1
  <2>2. /\ \A j \in 1..Len(g) : new[i + j] = whole[i + j]
        /\ new[i + Len(g)] = whole[i + Len(g)]
    BY <1>1, <2>1
  <2>3. QED
    BY <2>1, <2>2 DEF PlacesFrom
<1>3. ASSUME NEW i \in PlacesFrom(new, g, from), i \notin 0..(Len(whole) - Len(g))
      PROVE  i = place
  BY <1>1, <1>3 DEF PlacesFrom
<1>4. place \in PlacesFrom(new, g, from) <=> AtEnd(new, g) /\ e.day >= from
  <2>1. place + Len(g) = Len(new)
    BY <1>1
  <2>2. place >= 0 <=> Len(g) <= Len(new)
    BY <1>1
  <2>3. QED
    BY <1>1, <2>1, <2>2 DEF PlacesFrom, AtEnd
<1>5. old \subseteq 0..(Len(whole) - Len(g)) /\ place \notin 0..(Len(whole) - Len(g))
  BY <1>1 DEF PlacesFrom
<1>6. place \notin old /\ old \subseteq PlacesFrom(new, g, from)
  BY <1>2, <1>5
<1>7. PlacesFrom(new, g, from) \subseteq old \union {place}
  BY <1>2, <1>3
<1> HIDE DEF old, place
<1>8. PlacesFrom(new, g, from) = IF AtEnd(new, g) /\ e.day >= from THEN old \union {place} ELSE old
  <2>1. CASE place \in PlacesFrom(new, g, from)
    <3>1. PlacesFrom(new, g, from) = old \union {place}
      BY <1>6, <1>7, <2>1
    <3>2. QED
      BY <1>4, <2>1, <3>1
  <2>2. CASE place \notin PlacesFrom(new, g, from)
    <3>1. PlacesFrom(new, g, from) = old
      BY <1>6, <1>7, <2>2
    <3>2. QED
      BY <1>4, <2>2, <3>1
  <2>3. QED
    BY <2>1, <2>2
<1>9. QED
  BY <1>6, <1>8 DEF new, old, place

LEMMA OneMoreFrom ==
  ASSUME NEW whole \in Seq(Event), NEW e \in Event, NEW g \in Sequences, NEW from \in Int
  PROVE  LET n == Cardinality(PlacesFrom(whole, g, from))
         IN /\ n \in Nat
            /\ Cardinality(PlacesFrom(Append(whole, e), g, from)) =
                 IF AtEnd(Append(whole, e), g) /\ e.day >= from THEN n + 1 ELSE n
<1> DEFINE old == PlacesFrom(whole, g, from)
           place == Len(Append(whole, e)) - Len(g)
           cond == AtEnd(Append(whole, e), g) /\ e.day >= from
<1>1. /\ PlacesFrom(Append(whole, e), g, from) = IF cond THEN old \union {place} ELSE old
      /\ place \notin old
  BY PlacesMore
<1>2. IsFiniteSet(old) /\ Cardinality(old) \in Nat
  BY FinitelyMany
<1> HIDE DEF old, place, cond
<1>3. Cardinality(old \union {place}) = Cardinality(old) + 1
  BY <1>1, <1>2, FS_AddElement
<1>4. Cardinality(PlacesFrom(Append(whole, e), g, from)) = IF cond THEN Cardinality(old) + 1 ELSE Cardinality(old)
  BY <1>1, <1>3
<1>5. QED
  BY <1>2, <1>4 DEF old, cond

\* What is carried over a call is still the end of the session.
LEMMA CarriedOver ==
  ASSUME NEW whole \in Seq(Event), NEW e \in Event, NEW seq \in Seq(Calls), SuffixOf(seq, whole)
  PROVE  LET new == Append(whole, e)
             longer == Append(seq, e.call)
             kept == IF Len(longer) <= Carried THEN longer ELSE Ending(longer, Carried)
         IN /\ longer \in Seq(Calls) /\ Len(longer) = Len(seq) + 1
            /\ SuffixOf(longer, new)
            /\ kept \in Seq(Calls) /\ SuffixOf(kept, new)
            /\ Len(kept) = CarriedOf(Len(longer))
<1> DEFINE new == Append(whole, e)
           longer == Append(seq, e.call)
           cut == Ending(longer, Carried)
<1>1. /\ Len(whole) \in Nat /\ Len(new) = Len(whole) + 1
      /\ \A j \in 1..Len(whole) : new[j] = whole[j]
      /\ new[Len(whole) + 1] = e
      /\ Len(seq) \in Nat /\ Len(seq) <= Len(whole)
      /\ e.call \in Calls
  BY DEF SuffixOf, Event
<1>2. /\ longer \in Seq(Calls) /\ Len(longer) = Len(seq) + 1
      /\ \A j \in 1..Len(seq) : longer[j] = seq[j]
      /\ longer[Len(seq) + 1] = e.call
  BY <1>1
<1> HIDE DEF new, longer
<1>3. SuffixOf(longer, new)
  <2>1. ASSUME NEW j \in 1..Len(longer)
        PROVE  longer[j] = new[(Len(new) - Len(longer)) + j].call
    <3>1. CASE j \in 1..Len(seq)
      <4>1. /\ (Len(new) - Len(longer)) + j = (Len(whole) - Len(seq)) + j
            /\ (Len(whole) - Len(seq)) + j \in 1..Len(whole)
        BY <1>1, <1>2, <3>1
      <4>2. seq[j] = whole[(Len(whole) - Len(seq)) + j].call
        BY <3>1 DEF SuffixOf
      <4>3. QED
        BY <1>1, <1>2, <3>1, <4>1, <4>2
    <3>2. CASE j = Len(seq) + 1
      <4>1. (Len(new) - Len(longer)) + j = Len(whole) + 1
        BY <1>1, <1>2, <3>2
      <4>2. QED
        BY <1>1, <1>2, <3>2, <4>1
    <3>3. QED
      BY <1>1, <1>2, <3>1, <3>2
  <2>2. QED
    BY <1>1, <1>2, <2>1 DEF SuffixOf
<1>4. Carried \in Nat
  BY SequenceConstants DEF Carried
<1>5. CASE Len(longer) <= Carried
  BY <1>2, <1>3, <1>5 DEF CarriedOf, new, longer
<1>6. CASE ~(Len(longer) <= Carried)
  <2>1. /\ cut \in Seq(Calls) /\ Len(cut) = Carried
        /\ \A j \in 1..Carried : cut[j] = longer[(Len(longer) - Carried) + j]
    <3>1. Carried <= Len(longer)
      BY <1>2, <1>1, <1>4, <1>6
    <3>2. QED
      BY <1>2, <1>4, <3>1, EndOf
  <2> HIDE DEF cut
  <2>2. SuffixOf(cut, new)
    <3>1. ASSUME NEW j \in 1..Len(cut)
          PROVE  cut[j] = new[(Len(new) - Len(cut)) + j].call
      <4> DEFINE l == (Len(longer) - Carried) + j
      <4>1. l \in 1..Len(longer) /\ (Len(new) - Len(longer)) + l = (Len(new) - Len(cut)) + j
        BY <1>1, <1>2, <1>4, <1>6, <2>1
      <4>2. cut[j] = longer[l]
        BY <2>1
      <4> HIDE DEF l
      <4>3. longer[l] = new[(Len(new) - Len(longer)) + l].call
        BY <1>3, <4>1 DEF SuffixOf
      <4>4. QED
        BY <4>1, <4>2, <4>3
    <3>2. Len(cut) <= Len(new)
      BY <1>1, <1>2, <1>4, <1>6, <2>1
    <3>3. QED
      BY <3>1, <3>2 DEF SuffixOf
  <2>3. QED
    BY <1>2, <1>3, <1>6, <2>1, <2>2 DEF CarriedOf, new, longer, cut
<1>7. QED
  BY <1>5, <1>6

EndedIn(seq) == {Ending(seq, n) : n \in {k \in NMin..NMax : k <= Len(seq)}}

LEMMA EndedAtEnd ==
  ASSUME NEW seq \in Seq(Calls), NEW whole \in Seq(Event), SuffixOf(seq, whole)
  PROVE  /\ EndedIn(seq) \subseteq Sequences
         /\ \A g \in EndedIn(seq) : AtEnd(whole, g)
         /\ \A g \in Sequences : AtEnd(whole, g) /\ Len(g) <= Len(seq) => g \in EndedIn(seq)
<1>1. ASSUME NEW g \in EndedIn(seq) PROVE g \in Sequences /\ AtEnd(whole, g)
  <2>1. PICK n \in NMin..NMax : n <= Len(seq) /\ g = Ending(seq, n)
    BY DEF EndedIn
  <2>2. n \in Nat
    BY SMTT(30), SequenceConstants
  <2>3. /\ g \in Seq(Calls) /\ Len(g) = n
        /\ \A j \in 1..n : g[j] = seq[(Len(seq) - n) + j]
    BY <2>1, <2>2, EndOf
  <2>4. g \in [1..n -> Calls]
    BY <2>2, <2>3
  <2>5. g \in Sequences
    BY <2>4 DEF Sequences
  <2>6. ASSUME NEW j \in 1..Len(g)
        PROVE  whole[(Len(whole) - Len(g)) + j].call = g[j]
    <3> DEFINE l == (Len(seq) - n) + j
    <3>1. /\ l \in 1..Len(seq) /\ (Len(whole) - Len(seq)) + l = (Len(whole) - Len(g)) + j
          /\ g[j] = seq[l]
      BY <2>1, <2>2, <2>3
    <3> HIDE DEF l
    <3>2. seq[l] = whole[(Len(whole) - Len(seq)) + l].call
      BY <3>1 DEF SuffixOf
    <3>3. QED
      BY <3>1, <3>2
  <2>7. Len(g) <= Len(whole)
    BY <2>1, <2>2, <2>3 DEF SuffixOf
  <2>8. QED
    BY <2>5, <2>6, <2>7 DEF AtEnd
<1>2. ASSUME NEW g \in Sequences, AtEnd(whole, g), Len(g) <= Len(seq) PROVE g \in EndedIn(seq)
  <2> DEFINE n == Len(g)
             cut == Ending(seq, n)
  <2>1. n \in NMin..NMax /\ n \in Nat /\ g \in Seq(Calls) /\ n <= Len(seq)
    BY <1>2, LengthOf
  <2>2. /\ cut \in Seq(Calls) /\ Len(cut) = n
        /\ \A j \in 1..n : cut[j] = seq[(Len(seq) - n) + j]
    BY <2>1, EndOf
  <2>3. ASSUME NEW j \in 1..n PROVE cut[j] = g[j]
    <3> DEFINE l == (Len(seq) - n) + j
    <3>1. /\ l \in 1..Len(seq) /\ (Len(whole) - Len(seq)) + l = (Len(whole) - n) + j
          /\ cut[j] = seq[l]
      BY <2>1, <2>2
    <3> HIDE DEF l, cut
    <3>2. seq[l] = whole[(Len(whole) - Len(seq)) + l].call
      BY <3>1 DEF SuffixOf
    <3>3. whole[(Len(whole) - n) + j].call = g[j]
      BY <1>2 DEF AtEnd
    <3>4. QED
      BY <3>1, <3>2, <3>3
  <2> HIDE DEF cut
  <2>4. cut = g
    BY <2>1, <2>2, <2>3
  <2>5. QED
    BY <2>1, <2>4 DEF cut, EndedIn
<1>3. QED
  BY <1>1, <1>2

-----------------------------------------------------------------------------
(* Steps.                                                                   *)

CountsOf(gs, wholes, exact) ==
  \A g \in Sequences, s \in Chats :
    LET n == Cardinality(PlacesFrom(wholes[s], g, 1))
    IN CountOf(gs, g, s) <= n /\ (exact => CountOf(gs, g, s) = n)

LEMMA SameCounts == CountsTrue <=> CountsOf(grams, calls, ~forgotten)
BY DEF CountsTrue, CountsOf, CountOf, Times, Places, PlacesFrom

LEMMA CountIsNumber ==
  ASSUME NEW gs, GramsTyped(gs), NEW g \in Sequences, NEW s \in Chats
  PROVE  CountOf(gs, g, s) \in Nat
BY DEF GramsTyped, CountOf, Entry

\* Pruning drops whole sequences and whole tails, and says so.
LEMMA Saved ==
  ASSUME NEW gs, NEW ts \in Tails, NEW wholes \in [Chats -> Seq(Event)],
         GramsTyped(gs), CountsOf(gs, wholes, ~forgotten), TailsOf(ts, wholes, ~forgotten),
         forgotten \in BOOLEAN, today \in Days,
         SaveSignals(gs, ts), calls' = wholes, today' = today
  PROVE  SequenceInv'
<1>1. /\ DOMAIN grams' \subseteq DOMAIN gs
      /\ \A g \in DOMAIN grams' : grams'[g] = gs[g]
  BY DEF SaveSignals, Pruned
<1>2. /\ forgotten' \in BOOLEAN
      /\ ~forgotten' => ~forgotten /\ grams' = gs /\ \A s \in Chats : tails'[s].calls = ts[s].calls
  BY DEF SaveSignals
<1>3. \A s \in Chats : tails'[s] \in {ts[s], NoTail}
  BY DEF SaveSignals
<1>4. NoTail \in [calls : Seq(Calls), at : Nat] /\ Len(NoTail.calls) = 0
  BY DEF NoTail
<1>5. tails' \in Tails
  <2>1. tails' = [s \in Chats |-> tails'[s]]
    BY DEF SaveSignals
  <2>2. QED
    BY <1>3, <1>4, <2>1 DEF Tails
<1>6. SequenceTyped'
  BY <1>1, <1>2, <1>5 DEF SequenceTyped, GramsTyped
<1>7. TailsOf(tails, calls, ~forgotten)'
  <2>1. ASSUME NEW s \in Chats PROVE SuffixOf(tails'[s].calls, wholes[s])
    <3>1. CASE tails'[s] = ts[s]
      BY <3>1 DEF TailsOf
    <3>2. CASE tails'[s] = NoTail
      <4>1. wholes[s] \in Seq(Event)
        OBVIOUS
      <4>2. QED
        BY <1>4, <3>2, <4>1 DEF SuffixOf
    <3>3. QED
      BY <1>3, <3>1, <3>2
  <2>2. ASSUME NEW s \in Chats, ~forgotten'
        PROVE  Len(tails'[s].calls) = CarriedOf(Len(wholes[s]))
    BY <1>2, <2>2 DEF TailsOf
  <2>3. QED
    BY <2>1, <2>2 DEF TailsOf
<1>8. CountsOf(grams, calls, ~forgotten)'
  <2>1. ASSUME NEW g \in Sequences, NEW s \in Chats
        PROVE  /\ CountOf(grams', g, s) <= Cardinality(PlacesFrom(wholes[s], g, 1))
               /\ ~forgotten' => CountOf(grams', g, s) = Cardinality(PlacesFrom(wholes[s], g, 1))
    <3> DEFINE n == Cardinality(PlacesFrom(wholes[s], g, 1))
    <3>1. n \in Nat /\ CountOf(gs, g, s) <= n
      BY FinitelyMany DEF CountsOf
    <3>2. ~forgotten' => CountOf(grams', g, s) = n
      BY <1>2 DEF CountsOf
    <3>3. CountOf(grams', g, s) \in {0, CountOf(gs, g, s)}
      BY <1>1 DEF CountOf
    <3> HIDE DEF n
    <3>4. CountOf(grams', g, s) <= n
      BY <3>1, <3>3
    <3>5. QED
      BY <3>2, <3>4 DEF n
  <2>2. QED
    BY <2>1 DEF CountsOf
<1>9. QED
  BY <1>6, <1>7, <1>8, SameCounts, PTL DEF SequenceInv

LEMMA NothingCounted ==
  ASSUME SequenceInv, UNCHANGED <<grams, tails, calls, forgotten>>, today' \in Days
  PROVE  SequenceInv'
<1>1. SequenceTyped'
  BY DEF SequenceInv, SequenceTyped, GramsTyped
<1>2. TailsOf(tails, calls, ~forgotten)'
  BY DEF SequenceInv, TailsOf
<1>3. CountsOf(grams, calls, ~forgotten)
  BY SameCounts DEF SequenceInv
<1>4. CountsOf(grams, calls, ~forgotten)'
  BY <1>3 DEF CountsOf
<1>5. QED
  BY <1>1, <1>2, <1>4, SameCounts, PTL DEF SequenceInv

LEMMA MarkStep ==
  ASSUME SequenceInv, MarkProposed
  PROVE  SequenceInv'
<1>1. CASE UNCHANGED <<grams, tails, forgotten, today, calls>>
  BY <1>1, NothingCounted DEF SequenceInv, SequenceTyped
<1>2. CASE ~UNCHANGED <<grams, tails, forgotten, today, calls>>
  <2> DEFINE gs == [g \in DOMAIN grams |-> IF g \in found THEN [grams[g] EXCEPT !.proposed = today]
                                           ELSE grams[g]]
  <2>1. SaveSignals(gs, tails) /\ UNCHANGED <<today, calls>>
    BY <1>2 DEF MarkProposed
  <2>2. today \in Nat
    BY SequenceConstants DEF SequenceInv, SequenceTyped, Days
  <2>3. ASSUME NEW g \in DOMAIN grams
        PROVE  gs[g] \in Entry /\ gs[g].by = grams[g].by
    BY <2>2 DEF SequenceInv, SequenceTyped, GramsTyped, Entry
  <2>4. DOMAIN gs = DOMAIN grams
    OBVIOUS
  <2> HIDE DEF gs
  <2>5. GramsTyped(gs) /\ \A g \in Sequences, s \in Chats : CountOf(gs, g, s) = CountOf(grams, g, s)
    BY <2>3, <2>4 DEF SequenceInv, SequenceTyped, GramsTyped, CountOf
  <2>6. CountsOf(gs, calls, ~forgotten)
    BY <2>5, SameCounts DEF SequenceInv, CountsOf
  <2>7. QED
    BY <2>1, <2>5, <2>6, Saved DEF SequenceInv, SequenceTyped
<1>3. QED
  BY <1>1, <1>2

\* What is counted of a sequence.
LEMMA Bumps ==
  ASSUME NEW x \in Entry, NEW s \in Chats, today \in Days
  PROVE  /\ Bumped(x, s) \in Entry
         /\ \A r \in Chats : /\ Bumped(x, s).by[r] = IF r = s THEN x.by[r] + 1 ELSE x.by[r]
                             /\ Bumped(x, s).last[r] = IF r = s THEN today ELSE x.last[r]
         /\ \A d \in Days : Bumped(x, s).days[d] = IF d = today THEN x.days[d] + 1 ELSE x.days[d]
<1>0. today \in Nat
  BY SequenceConstants DEF Days
<1>1. /\ x.by \in [Chats -> Nat] /\ x.last \in [Chats -> Nat]
      /\ x.days \in [Days -> Nat] /\ x.proposed \in Nat
      /\ x = [by |-> x.by, last |-> x.last, days |-> x.days, proposed |-> x.proposed]
  BY DEF Entry
<1>2. Bumped(x, s) = [by |-> [x.by EXCEPT ![s] = @ + 1], last |-> [x.last EXCEPT ![s] = today],
                      days |-> [x.days EXCEPT ![today] = @ + 1], proposed |-> x.proposed]
  <2> DEFINE y == [x EXCEPT !.by[s] = @ + 1]
             z == [y EXCEPT !.last[s] = today]
  <2>1. y = [by |-> [x.by EXCEPT ![s] = @ + 1], last |-> x.last, days |-> x.days, proposed |-> x.proposed]
    BY <1>1
  <2> HIDE DEF y
  <2>2. z = [by |-> y.by, last |-> [y.last EXCEPT ![s] = today], days |-> y.days, proposed |-> y.proposed]
    BY <2>1
  <2> HIDE DEF z
  <2>3. [z EXCEPT !.days[today] = @ + 1]
          = [by |-> z.by, last |-> z.last, days |-> [z.days EXCEPT ![today] = @ + 1], proposed |-> z.proposed]
    BY <2>2
  <2>4. Bumped(x, s) = [z EXCEPT !.days[today] = @ + 1]
    BY DEF Bumped, y, z
  <2>5. QED
    BY <2>1, <2>2, <2>3, <2>4
<1> DEFINE b == [x.by EXCEPT ![s] = @ + 1]
           l == [x.last EXCEPT ![s] = today]
           d == [x.days EXCEPT ![today] = @ + 1]
<1>3. b \in [Chats -> Nat] /\ l \in [Chats -> Nat] /\ d \in [Days -> Nat]
  BY <1>0, <1>1
<1>4. \A r \in Chats : b[r] = (IF r = s THEN x.by[r] + 1 ELSE x.by[r]) /\ l[r] = (IF r = s THEN today ELSE x.last[r])
  BY <1>1
<1>5. \A c \in Days : d[c] = IF c = today THEN x.days[c] + 1 ELSE x.days[c]
  BY <1>1
<1> HIDE DEF b, l, d
<1>6. Bumped(x, s) = [by |-> b, last |-> l, days |-> d, proposed |-> x.proposed]
  BY <1>2 DEF b, l, d
<1>7. QED
  BY <1>1, <1>3, <1>4, <1>5, <1>6 DEF Entry

\* The sequences counted are those that end at the call, all of them if nothing was forgotten.
LEMMA Completed ==
  ASSUME SequenceInv, NEW s \in Chats, NEW c \in Calls
  PROVE  LET new == Append(calls[s], [call |-> c, day |-> today])
             completed == EndedIn(Append(tails[s].calls, c))
         IN /\ completed \subseteq Sequences
            /\ \A g \in completed : AtEnd(new, g)
            /\ ~forgotten => \A g \in Sequences : AtEnd(new, g) => g \in completed
<1> DEFINE e == [call |-> c, day |-> today]
           whole == calls[s]
           seq == tails[s].calls
           new == Append(whole, e)
           longer == Append(seq, c)
<1>1. tails \in Tails /\ today \in Days /\ calls \in [Chats -> Seq(Event)] /\ TailsOf(tails, calls, ~forgotten)
  BY DEF SequenceInv, SequenceTyped
<1>2. /\ e \in Event /\ e.call = c /\ whole \in Seq(Event)
      /\ seq \in Seq(Calls) /\ SuffixOf(seq, whole)
      /\ ~forgotten => Len(seq) = CarriedOf(Len(whole))
  BY <1>1 DEF Event, Tails, TailsOf
<1>3. longer \in Seq(Calls) /\ Len(longer) = Len(seq) + 1 /\ SuffixOf(longer, new)
  <2> HIDE DEF e
  <2>1. QED
    BY <1>2, CarriedOver
<1>4. new \in Seq(Event) /\ Len(new) = Len(whole) + 1 /\ Len(whole) \in Nat /\ Len(seq) \in Nat
  BY <1>2
<1> HIDE DEF e, whole, seq, new, longer
<1>5. /\ EndedIn(longer) \subseteq Sequences
      /\ \A g \in EndedIn(longer) : AtEnd(new, g)
      /\ \A g \in Sequences : AtEnd(new, g) /\ Len(g) <= Len(longer) => g \in EndedIn(longer)
  BY <1>3, <1>4, EndedAtEnd
<1>6. ASSUME ~forgotten, NEW g \in Sequences, AtEnd(new, g) PROVE Len(g) <= Len(longer)
  <2>1. Len(g) \in Nat /\ Len(g) <= NMax /\ NMax \in Nat /\ Carried = NMax - 1
    BY LengthOf, SequenceConstants DEF Carried
  <2>2. Len(g) <= Len(new)
    BY <1>6 DEF AtEnd
  <2>3. QED
    BY <1>2, <1>3, <1>4, <1>6, <2>1, <2>2 DEF CarriedOf
<1>7. QED
  BY <1>5, <1>6 DEF e, whole, seq, new, longer

LEMMA RecordStep ==
  ASSUME SequenceInv, NEW s \in Chats, NEW c \in Calls, ApplyEvent(s, c)
  PROVE  SequenceInv'
<1> DEFINE e == [call |-> c, day |-> today]
           whole == calls[s]
           new == Append(whole, e)
           wholes == [calls EXCEPT ![s] = new]
           longer == Append(tails[s].calls, c)
           completed == EndedIn(longer)
           gs == [g \in DOMAIN grams \union completed |->
                    LET x == IF g \in DOMAIN grams THEN grams[g] ELSE NewEntry
                    IN IF g \in completed THEN Bumped(x, s) ELSE x]
           kept == IF Len(longer) <= Carried THEN longer ELSE Ending(longer, Carried)
           ts == [tails EXCEPT ![s] = [calls |-> kept, at |-> today]]
<1>1. SaveSignals(gs, ts) /\ calls' = wholes /\ today' = today
  BY DEF ApplyEvent, EndedIn
<1>2. /\ GramsTyped(grams) /\ tails \in Tails /\ today \in Days /\ today \in Nat
      /\ calls \in [Chats -> Seq(Event)] /\ forgotten \in BOOLEAN
      /\ TailsOf(tails, calls, ~forgotten) /\ CountsOf(grams, calls, ~forgotten)
  BY SequenceConstants, SameCounts DEF SequenceInv, SequenceTyped, Days
<1>3. /\ e \in Event /\ e.call = c /\ whole \in Seq(Event)
      /\ tails[s].calls \in Seq(Calls) /\ SuffixOf(tails[s].calls, whole)
  BY <1>2 DEF Event, Tails, TailsOf
<1>4. /\ longer \in Seq(Calls) /\ Len(longer) = Len(tails[s].calls) + 1
      /\ SuffixOf(longer, new)
      /\ kept \in Seq(Calls) /\ SuffixOf(kept, new)
      /\ Len(kept) = CarriedOf(Len(longer))
  <2> HIDE DEF e
  <2>1. QED
    BY <1>3, CarriedOver
<1>5. new \in Seq(Event) /\ Len(new) = Len(whole) + 1
  BY <1>3
<1>6. /\ completed \subseteq Sequences
      /\ \A g \in completed : AtEnd(new, g)
      /\ ~forgotten => \A g \in Sequences : AtEnd(new, g) => g \in completed
  BY Completed
<1> HIDE DEF e, new, longer, kept, completed
<1>7. wholes \in [Chats -> Seq(Event)] /\ wholes[s] = new /\ \A r \in Chats \ {s} : wholes[r] = calls[r]
  BY <1>2, <1>5
<1>8. /\ ts \in Tails /\ ts[s].calls = kept
      /\ \A r \in Chats \ {s} : ts[r] = tails[r]
  BY <1>2, <1>4 DEF Tails
<1>9. NewEntry \in Entry /\ \A r \in Chats : NewEntry.by[r] = 0
  BY DEF NewEntry, Entry
<1>10. ASSUME NEW x \in Entry
       PROVE  /\ Bumped(x, s) \in Entry /\ Bumped(x, s).by[s] = x.by[s] + 1
              /\ \A r \in Chats \ {s} : Bumped(x, s).by[r] = x.by[r]
  BY <1>2, Bumps
<1>11. /\ GramsTyped(gs)
       /\ \A g \in Sequences :
            /\ CountOf(gs, g, s) = IF g \in completed THEN CountOf(grams, g, s) + 1 ELSE CountOf(grams, g, s)
            /\ \A r \in Chats \ {s} : CountOf(gs, g, r) = CountOf(grams, g, r)
  <2> DEFINE known(g) == IF g \in DOMAIN grams THEN grams[g] ELSE NewEntry
  <2>1. ASSUME NEW g \in Sequences
        PROVE  known(g) \in Entry /\ \A r \in Chats : known(g).by[r] = CountOf(grams, g, r)
    BY <1>2, <1>9 DEF GramsTyped, CountOf
  <2>2. DOMAIN gs = DOMAIN grams \union completed /\ DOMAIN gs \subseteq Sequences
    BY <1>2, <1>6 DEF GramsTyped
  <2>3. ASSUME NEW g \in DOMAIN gs
        PROVE  gs[g] = IF g \in completed THEN Bumped(known(g), s) ELSE known(g)
    OBVIOUS
  <2> HIDE DEF gs, known
  <2>4. ASSUME NEW g \in DOMAIN gs PROVE gs[g] \in Entry
    BY <1>10, <2>1, <2>2, <2>3
  <2>5. ASSUME NEW g \in Sequences
        PROVE  /\ CountOf(gs, g, s) = IF g \in completed THEN CountOf(grams, g, s) + 1 ELSE CountOf(grams, g, s)
               /\ \A r \in Chats \ {s} : CountOf(gs, g, r) = CountOf(grams, g, r)
    <3>1. CASE g \in completed
      <4>1. gs[g] = Bumped(known(g), s) /\ g \in DOMAIN gs
        BY <2>2, <2>3, <3>1
      <4>2. \A r \in Chats : CountOf(gs, g, r) = Bumped(known(g), s).by[r]
        BY <4>1 DEF CountOf
      <4>3. QED
        BY <1>10, <2>1, <3>1, <4>2
    <3>2. CASE g \in DOMAIN grams /\ g \notin completed
      <4>1. gs[g] = known(g) /\ g \in DOMAIN gs
        BY <2>2, <2>3, <3>2
      <4>2. \A r \in Chats : CountOf(gs, g, r) = known(g).by[r]
        BY <4>1 DEF CountOf
      <4>3. QED
        BY <2>1, <3>2, <4>2
    <3>3. CASE g \notin DOMAIN gs
      BY <2>2, <3>3 DEF CountOf
    <3>4. QED
      BY <2>2, <3>1, <3>2, <3>3
  <2>6. QED
    BY <2>2, <2>4, <2>5 DEF GramsTyped
<1> HIDE DEF gs, ts, wholes
<1>12. TailsOf(ts, wholes, ~forgotten)
  <2>1. ~forgotten => Len(kept) = CarriedOf(Len(new))
    <3>1. Carried \in Nat /\ Len(whole) \in Nat
      BY SMTT(30), SequenceConstants, <1>3 DEF Carried
    <3>2. ~forgotten => Len(tails[s].calls) = CarriedOf(Len(whole))
      BY <1>2 DEF TailsOf
    <3> HIDE DEF whole
    <3>3. QED
      BY <1>4, <1>5, <3>1, <3>2 DEF CarriedOf
  <2>2. ASSUME NEW r \in Chats \ {s}
        PROVE  /\ SuffixOf(ts[r].calls, wholes[r])
               /\ ~forgotten => Len(ts[r].calls) = CarriedOf(Len(wholes[r]))
    BY <1>2, <1>7, <1>8 DEF TailsOf
  <2>3. QED
    BY <1>4, <1>7, <1>8, <2>1, <2>2 DEF TailsOf
<1>13. CountsOf(gs, wholes, ~forgotten)
  <2>1. ASSUME NEW g \in Sequences
        PROVE  LET n == Cardinality(PlacesFrom(new, g, 1))
               IN CountOf(gs, g, s) <= n /\ (~forgotten => CountOf(gs, g, s) = n)
    <3> DEFINE n == Cardinality(PlacesFrom(whole, g, 1))
               m == CountOf(grams, g, s)
    <3>1. n \in Nat /\ Cardinality(PlacesFrom(new, g, 1)) = IF AtEnd(new, g) THEN n + 1 ELSE n
      <4>1. e.day >= 1 /\ 1 \in Int
        BY <1>2, SequenceConstants DEF e, Days
      <4>2. QED
        BY <1>3, <4>1, OneMoreFrom DEF new
    <3>2. m \in Nat /\ m <= n /\ (~forgotten => m = n)
      BY <1>2, CountIsNumber DEF CountsOf
    <3>3. CountOf(gs, g, s) = IF g \in completed THEN m + 1 ELSE m
      BY <1>11
    <3>4. g \in completed => AtEnd(new, g)
      BY <1>6
    <3>5. ~forgotten /\ AtEnd(new, g) => g \in completed
      BY <1>6
    <3> HIDE DEF n, m
    <3>6. QED
      BY <3>1, <3>2, <3>3, <3>4, <3>5
  <2>2. ASSUME NEW g \in Sequences, NEW r \in Chats \ {s}
        PROVE  LET n == Cardinality(PlacesFrom(wholes[r], g, 1))
               IN CountOf(gs, g, r) <= n /\ (~forgotten => CountOf(gs, g, r) = n)
    BY <1>2, <1>7, <1>11 DEF CountsOf
  <2>3. QED
    BY <1>7, <2>1, <2>2 DEF CountsOf
<1>14. QED
  BY <1>1, <1>2, <1>7, <1>8, <1>11, <1>12, <1>13, Saved

LEMMA StartsCounted == SequenceInit => SequenceInv
<1> SUFFICES ASSUME SequenceInit PROVE SequenceInv
  OBVIOUS
<1>1. SequenceTyped
  <2>1. 1 \in Days
    BY SequenceConstants DEF Days
  <2>2. tails \in Tails /\ calls \in [Chats -> Seq(Event)]
    BY DEF SequenceInit, Tails, NoTail
  <2>3. DOMAIN grams = {}
    BY DEF SequenceInit
  <2>4. GramsTyped(grams)
    BY <2>3 DEF GramsTyped
  <2>5. QED
    BY <2>1, <2>2, <2>4 DEF SequenceInit, SequenceTyped
<1>2. TailsOf(tails, calls, ~forgotten)
  <2>1. Carried \in Nat
    BY SequenceConstants DEF Carried
  <2>2. QED
    BY <2>1 DEF SequenceInit, TailsOf, SuffixOf, NoTail, CarriedOf
<1>3. CountsOf(grams, calls, ~forgotten)
  <2>1. ASSUME NEW g \in Sequences, NEW s \in Chats
        PROVE  Cardinality(PlacesFrom(calls[s], g, 1)) = 0 /\ CountOf(grams, g, s) = 0
    <3>1. Len(calls[s]) = 0 /\ Len(g) \in Nat \ {0}
      BY LengthOf DEF SequenceInit
    <3>2. PlacesFrom(calls[s], g, 1) = {}
      BY <3>1 DEF PlacesFrom
    <3>3. CountOf(grams, g, s) = 0
      BY DEF SequenceInit, CountOf
    <3>4. QED
      BY <3>2, <3>3, FS_EmptySet
  <2>2. QED
    BY <2>1 DEF CountsOf
<1>4. QED
  BY <1>1, <1>2, <1>3, SameCounts DEF SequenceInv

\* A session's calls are counted as one whole, however many flushes they came
\* in: a sequence once for each place it occurs at, and never more often,
\* whatever was forgotten (apply_tool_events).
THEOREM CountsAreTrue == SequenceSpec => []CountsTrue
<1>1. SequenceInv /\ [SequenceNext]_sequenceVars => SequenceInv'
  <2> SUFFICES ASSUME SequenceInv, [SequenceNext]_sequenceVars PROVE SequenceInv'
    OBVIOUS
  <2>1. ASSUME NEW s \in Chats, NEW c \in Calls, ApplyEvent(s, c) PROVE SequenceInv'
    BY <2>1, RecordStep
  <2>2. ASSUME UNCHANGED <<grams, tails, calls, forgotten>>, today' \in Days PROVE SequenceInv'
    BY <2>2, NothingCounted
  <2>3. CASE DayPasses
    <3>1. today' \in Days
      BY <2>3, SequenceConstants DEF DayPasses, SequenceInv, SequenceTyped, Days
    <3>2. QED
      BY <2>2, <2>3, <3>1 DEF DayPasses
  <2>4. CASE Detect
    BY <2>2, <2>4 DEF Detect, SequenceInv, SequenceTyped
  <2>5. CASE MarkProposed
    BY <2>5, MarkStep
  <2>6. CASE UNCHANGED sequenceVars
    BY <2>2, <2>6 DEF sequenceVars, SequenceInv, SequenceTyped
  <2>7. QED
    BY <2>1, <2>3, <2>4, <2>5, <2>6 DEF SequenceNext
<1>2. SequenceInv => CountsTrue
  BY DEF SequenceInv
<1>3. QED
  BY StartsCounted, <1>1, <1>2, PTL DEF SequenceSpec

-----------------------------------------------------------------------------
(* What the entries show.                                                   *)

InAll(wholes, g, from) ==
  SumFunctionOnSet([s \in Chats |-> Cardinality(PlacesFrom(wholes[s], g, from))], Chats)
DaysFrom(from) == {d \in Days : d >= from}

\* A session has a last day only if the sequence was in it; no more days are
\* counted than there are places; the last place is no later than the last day.
EntryShows(e, g, wholes, exact) ==
  /\ \A s \in Chats : e.last[s] # 0 => e.by[s] > 0
  /\ \A from \in Int : SumFunctionOnSet(e.days, DaysFrom(from)) <= InAll(wholes, g, from)
  /\ exact => \A s \in Chats : \A i \in PlacesFrom(wholes[s], g, 1) : wholes[s][i + Len(g)].day <= e.last[s]
EntriesShow(gs, wholes, exact) == \A g \in DOMAIN gs : EntryShows(gs[g], g, wholes, exact)

Past(wholes, until) == \A s \in Chats : \A j \in 1..Len(wholes[s]) : wholes[s][j].day <= until

EvidenceInv == SequenceInv /\ EntriesShow(grams, calls, ~forgotten) /\ Past(calls, today)

LEMMA DaysAreFinite ==
  ASSUME NEW from \in Int
  PROVE  IsFiniteSet(DaysFrom(from)) /\ DaysFrom(from) \subseteq Days /\ Days \subseteq Nat
<1>1. LastDay \in Nat
  BY SequenceConstants
<1>2. IsFiniteSet(Days) /\ Days \subseteq Nat
  BY <1>1, FS_Interval DEF Days
<1>3. DaysFrom(from) \subseteq Days
  BY DEF DaysFrom
<1>4. QED
  BY <1>2, <1>3, FS_Subset

LEMMA InAllIsNumber ==
  ASSUME NEW wholes \in [Chats -> Seq(Event)], NEW g \in Sequences, NEW from \in Int
  PROVE  InAll(wholes, g, from) \in Nat
<1> DEFINE f == [s \in Chats |-> Cardinality(PlacesFrom(wholes[s], g, from))]
<1>1. ASSUME NEW s \in Chats PROVE f[s] \in Nat
  <2>1. wholes[s] \in Seq(Event)
    OBVIOUS
  <2>2. QED
    BY <2>1, FinitelyMany
<1>2. IsFiniteSet(Chats)
  BY SequenceConstants
<1> HIDE DEF f
<1>3. SumFunctionOnSet(f, Chats) \in Nat
  BY <1>1, <1>2, SumIsNumber
<1>4. QED
  BY <1>3 DEF InAll, f

\* A session with a call more.
With(wholes, s, e) == [wholes EXCEPT ![s] = Append(wholes[s], e)]

\* A call more adds at most the place at its end.
LEMMA InAllMore ==
  ASSUME NEW wholes \in [Chats -> Seq(Event)], NEW s \in Chats, NEW e \in Event, NEW g \in Sequences,
         NEW from \in Int
  PROVE  InAll(With(wholes, s, e), g, from) =
           IF AtEnd(Append(wholes[s], e), g) /\ e.day >= from THEN InAll(wholes, g, from) + 1
           ELSE InAll(wholes, g, from)
<1> DEFINE more == With(wholes, s, e)
           f == [r \in Chats |-> Cardinality(PlacesFrom(wholes[r], g, from))]
           h == [r \in Chats |-> Cardinality(PlacesFrom(more[r], g, from))]
           cond == AtEnd(Append(wholes[s], e), g) /\ e.day >= from
<1>1. \A r \in Chats : wholes[r] \in Seq(Event) /\ f[r] = Cardinality(PlacesFrom(wholes[r], g, from)) /\ f[r] \in Nat
  BY FinitelyMany
<1>2. more[s] = Append(wholes[s], e) /\ \A r \in Chats \ {s} : more[r] = wholes[r]
  BY DEF With
<1>3. h[s] = IF cond THEN f[s] + 1 ELSE f[s]
  <2>1. wholes[s] \in Seq(Event)
    OBVIOUS
  <2>2. Cardinality(PlacesFrom(Append(wholes[s], e), g, from)) =
          IF cond THEN Cardinality(PlacesFrom(wholes[s], g, from)) + 1
          ELSE Cardinality(PlacesFrom(wholes[s], g, from))
    BY <2>1, OneMoreFrom
  <2>3. QED
    BY <1>2, <2>2
<1>4. \A r \in Chats \ {s} : h[r] = f[r]
  BY <1>2
<1>5. InAll(more, g, from) = SumFunctionOnSet(h, Chats) /\ InAll(wholes, g, from) = SumFunctionOnSet(f, Chats)
  BY DEF InAll
<1>6. IsFiniteSet(Chats)
  BY SequenceConstants
<1>7. CASE cond
  <2>1. \A r \in Chats : f[r] \in Nat /\ h[r] = IF r = s THEN f[r] + 1 ELSE f[r]
    BY <1>1, <1>3, <1>4, <1>7
  <2> HIDE DEF f, h, cond, more
  <2>2. SumFunctionOnSet(h, Chats) = IF s \in Chats THEN SumFunctionOnSet(f, Chats) + 1 ELSE SumFunctionOnSet(f, Chats)
    BY <1>6, <2>1, SumOneMore
  <2>3. QED
    BY <1>5, <1>7, <2>2 DEF cond, more
<1>8. CASE ~cond
  <2>1. \A r \in Chats : h[r] = f[r]
    BY <1>3, <1>4, <1>8
  <2>2. h = f
    BY <2>1
  <2> HIDE DEF f, h, cond, more
  <2>3. QED
    BY <1>5, <1>8, <2>2 DEF cond, more
<1>9. QED
  BY <1>7, <1>8

\* A sequence that is not known yet shows nothing.
LEMMA NewShows ==
  ASSUME NEW wholes \in [Chats -> Seq(Event)], NEW g \in Sequences, NEW exact,
         exact => \A s \in Chats : PlacesFrom(wholes[s], g, 1) = {}
  PROVE  NewEntry \in Entry /\ EntryShows(NewEntry, g, wholes, exact)
<1>1. /\ NewEntry \in Entry
      /\ \A s \in Chats : NewEntry.last[s] = 0
      /\ \A d \in Days : NewEntry.days[d] = 0
  BY DEF NewEntry, Entry
<1>2. ASSUME NEW from \in Int
      PROVE  SumFunctionOnSet(NewEntry.days, DaysFrom(from)) <= InAll(wholes, g, from)
  <2> DEFINE f == NewEntry.days
             T == DaysFrom(from)
  <2>1. IsFiniteSet(T) /\ \A d \in T : f[d] = 0
    BY <1>1, DaysAreFinite
  <2> HIDE DEF f, T
  <2>2. SumFunctionOnSet(f, T) = 0
    BY <2>1, SumOfNone
  <2>3. InAll(wholes, g, from) \in Nat
    BY InAllIsNumber
  <2>4. QED
    BY <2>2, <2>3 DEF f, T
<1>3. QED
  BY <1>1, <1>2 DEF EntryShows

\* A call more, counted if the sequence ends at it.
LEMMA ShowsMore ==
  ASSUME NEW wholes \in [Chats -> Seq(Event)], NEW s \in Chats, NEW e \in Event, e.day = today,
         today \in Days, Past(wholes, today), NEW g \in Sequences, NEW exact \in BOOLEAN,
         NEW x \in Entry, EntryShows(x, g, wholes, exact),
         NEW hit \in BOOLEAN, hit => AtEnd(Append(wholes[s], e), g),
         exact /\ AtEnd(Append(wholes[s], e), g) => hit
  PROVE  EntryShows(IF hit THEN Bumped(x, s) ELSE x, g, With(wholes, s, e), exact)
<1> DEFINE new == Append(wholes[s], e)
           more == With(wholes, s, e)
           y == IF hit THEN Bumped(x, s) ELSE x
<1>1. /\ y \in Entry
      /\ \A r \in Chats : /\ y.by[r] = IF hit /\ r = s THEN x.by[r] + 1 ELSE x.by[r]
                          /\ y.last[r] = IF hit /\ r = s THEN today ELSE x.last[r]
      /\ \A d \in Days : y.days[d] = IF hit /\ d = today THEN x.days[d] + 1 ELSE x.days[d]
  BY Bumps
<1>2. /\ \A r \in Chats : x.by[r] \in Nat /\ x.last[r] \in Nat
      /\ \A d \in Days : x.days[d] \in Nat
      /\ today \in Nat /\ today # 0
  <2>1. today \in Nat /\ today # 0
    BY SequenceConstants DEF Days
  <2>2. QED
    BY <2>1 DEF Entry
<1>3. wholes[s] \in Seq(Event) /\ more[s] = new /\ \A r \in Chats \ {s} : more[r] = wholes[r]
  BY DEF With
<1> HIDE DEF y
<1>4. ASSUME NEW r \in Chats, y.last[r] # 0 PROVE y.by[r] > 0
  BY <1>1, <1>2, <1>4 DEF EntryShows
<1>5. ASSUME NEW from \in Int
      PROVE  SumFunctionOnSet(y.days, DaysFrom(from)) <= InAll(more, g, from)
  <2> DEFINE f == x.days
             h == y.days
             T == DaysFrom(from)
  <2>1. IsFiniteSet(T) /\ T \subseteq Days
    BY DaysAreFinite
  <2>2. SumFunctionOnSet(f, T) <= InAll(wholes, g, from)
    BY DEF EntryShows
  <2>3. InAll(more, g, from) = IF AtEnd(new, g) /\ today >= from THEN InAll(wholes, g, from) + 1
                               ELSE InAll(wholes, g, from)
    BY InAllMore
  <2>4. InAll(wholes, g, from) \in Nat
    BY InAllIsNumber
  <2>5. \A d \in T : f[d] \in Nat
    BY <1>2, <2>1
  <2>6. SumFunctionOnSet(f, T) \in Nat
    <3> HIDE DEF f, T
    <3>1. QED
      BY <2>1, <2>5, SumIsNumber
  <2>7. today \in T => today >= from
    BY DEF DaysFrom
  <2>8. SumFunctionOnSet(h, T) = IF hit /\ today \in T THEN SumFunctionOnSet(f, T) + 1 ELSE SumFunctionOnSet(f, T)
    <3>1. CASE hit
      <4>1. \A d \in T : f[d] \in Nat /\ h[d] = IF d = today THEN f[d] + 1 ELSE f[d]
        BY <1>1, <2>1, <2>5, <3>1
      <4> HIDE DEF f, h, T
      <4>2. SumFunctionOnSet(h, T) = IF today \in T THEN SumFunctionOnSet(f, T) + 1 ELSE SumFunctionOnSet(f, T)
        BY <2>1, <4>1, SumOneMore
      <4>3. QED
        BY <3>1, <4>2
    <3>2. CASE ~hit
      BY <3>2 DEF y
    <3>3. QED
      BY <3>1, <3>2
  <2>9. hit => AtEnd(new, g)
    OBVIOUS
  <2> HIDE DEF f, h, T, new, more
  <2>10. SumFunctionOnSet(h, T) <= InAll(more, g, from)
    BY <2>2, <2>3, <2>4, <2>6, <2>7, <2>8, <2>9
  <2>11. QED
    BY <2>10 DEF h, T
<1>6. ASSUME exact, NEW r \in Chats, NEW i \in PlacesFrom(more[r], g, 1)
      PROVE  more[r][i + Len(g)].day <= y.last[r]
  <2>1. CASE r # s
    BY <1>1, <1>3, <1>6, <2>1 DEF EntryShows
  <2>2. CASE r = s /\ hit
    <3>1. Len(wholes[s]) \in Nat /\ Len(new) = Len(wholes[s]) + 1 /\ Len(g) \in Nat \ {0}
      BY <1>3, LengthOf
    <3>2. i + Len(g) \in 1..Len(new)
      BY <1>3, <1>6, <2>2, <3>1 DEF PlacesFrom
    <3>3. \A j \in 1..Len(new) : new[j].day <= today
      <4>1. \A j \in 1..Len(wholes[s]) : new[j] = wholes[s][j] /\ wholes[s][j].day <= today
        BY <1>3 DEF Past
      <4>2. new[Len(new)] = e
        BY <1>3
      <4>3. QED
        BY <1>2, <3>1, <4>1, <4>2
    <3>4. QED
      BY <1>1, <1>3, <2>2, <3>2, <3>3
  <2>3. CASE r = s /\ ~hit
    <3>1. PlacesFrom(new, g, 1) = PlacesFrom(wholes[s], g, 1)
      <4>1. 1 \in Int /\ ~AtEnd(new, g)
        BY <1>6, <2>3
      <4>2. QED
        BY <1>3, <4>1, PlacesMore
    <3>2. i \in PlacesFrom(wholes[s], g, 1)
      BY <1>3, <1>6, <2>3, <3>1
    <3>3. Len(wholes[s]) \in Nat /\ Len(g) \in Nat \ {0}
      BY <1>3, LengthOf
    <3>4. i + Len(g) \in 1..Len(wholes[s])
      BY <3>2, <3>3 DEF PlacesFrom
    <3>5. new[i + Len(g)] = wholes[s][i + Len(g)]
      BY <1>3, <3>4
    <3>6. wholes[s][i + Len(g)].day <= x.last[s]
      BY <1>6, <3>2 DEF EntryShows
    <3>7. QED
      BY <1>1, <1>3, <2>3, <3>5, <3>6
  <2>4. QED
    BY <2>1, <2>2, <2>3
<1>7. QED
  BY <1>4, <1>5, <1>6 DEF EntryShows, y, more, new

\* What is saved is what was counted, less what is pruned.
LEMMA SavedShows ==
  ASSUME NEW gs, NEW ts, NEW wholes, EntriesShow(gs, wholes, ~forgotten), SaveSignals(gs, ts), calls' = wholes
  PROVE  EntriesShow(grams, calls, ~forgotten)'
<1>1. /\ DOMAIN grams' \subseteq DOMAIN gs
      /\ \A g \in DOMAIN grams' : grams'[g] = gs[g]
      /\ ~forgotten' => ~forgotten
  BY DEF SaveSignals, Pruned
<1>2. ASSUME NEW g \in DOMAIN grams' PROVE EntryShows(grams'[g], g, calls', ~forgotten')
  <2>1. EntryShows(gs[g], g, wholes, ~forgotten)
    BY <1>1, <1>2 DEF EntriesShow
  <2>2. QED
    BY <1>1, <1>2, <2>1 DEF EntryShows
<1>3. QED
  BY <1>2 DEF EntriesShow

LEMMA RecordShows ==
  ASSUME EvidenceInv, NEW s \in Chats, NEW c \in Calls, ApplyEvent(s, c)
  PROVE  EvidenceInv'
<1> DEFINE e == [call |-> c, day |-> today]
           new == Append(calls[s], e)
           wholes == With(calls, s, e)
           longer == Append(tails[s].calls, c)
           completed == EndedIn(longer)
           known(g) == IF g \in DOMAIN grams THEN grams[g] ELSE NewEntry
           gs == [g \in DOMAIN grams \union completed |->
                    IF g \in completed THEN Bumped(known(g), s) ELSE known(g)]
           kept == IF Len(longer) <= Carried THEN longer ELSE Ending(longer, Carried)
           ts == [tails EXCEPT ![s] = [calls |-> kept, at |-> today]]
<1>1. SaveSignals(gs, ts) /\ calls' = wholes /\ today' = today
  BY DEF ApplyEvent, EndedIn, With
<1>2. /\ GramsTyped(grams) /\ today \in Days /\ calls \in [Chats -> Seq(Event)] /\ forgotten \in BOOLEAN
      /\ CountsOf(grams, calls, ~forgotten) /\ EntriesShow(grams, calls, ~forgotten) /\ Past(calls, today)
  BY SameCounts DEF EvidenceInv, SequenceInv, SequenceTyped
<1>3. e \in Event /\ e.day = today
  BY <1>2 DEF Event
<1>4. /\ completed \subseteq Sequences
      /\ \A g \in completed : AtEnd(new, g)
      /\ ~forgotten => \A g \in Sequences : AtEnd(new, g) => g \in completed
  BY Completed DEF EvidenceInv
<1>5. \A g \in DOMAIN gs : /\ g \in Sequences
                           /\ gs[g] = IF g \in completed THEN Bumped(known(g), s) ELSE known(g)
  BY <1>2, <1>4 DEF GramsTyped
<1> HIDE DEF gs, ts, longer, completed, e
<1>6. ASSUME NEW g \in Sequences PROVE known(g) \in Entry /\ EntryShows(known(g), g, calls, ~forgotten)
  <2>1. CASE g \in DOMAIN grams
    BY <1>2, <2>1 DEF GramsTyped, EntriesShow
  <2>2. CASE g \notin DOMAIN grams
    <3>1. ASSUME ~forgotten, NEW r \in Chats PROVE PlacesFrom(calls[r], g, 1) = {}
      <4>1. calls[r] \in Seq(Event) /\ 1 \in Int
        BY <1>2
      <4>2. Cardinality(PlacesFrom(calls[r], g, 1)) = 0
        BY <1>2, <2>2, <3>1 DEF CountsOf, CountOf
      <4>4. IsFiniteSet(PlacesFrom(calls[r], g, 1))
        BY <4>1, FinitelyMany
      <4>5. QED
        BY <4>2, <4>4, FS_EmptySet
    <3>2. NewEntry \in Entry /\ EntryShows(NewEntry, g, calls, ~forgotten)
      BY <1>2, <3>1, NewShows
    <3>3. QED
      BY <2>2, <3>2
  <2>3. QED
    BY <2>1, <2>2
<1> HIDE DEF known
<1>7. ASSUME NEW g \in DOMAIN gs PROVE EntryShows(gs[g], g, wholes, ~forgotten)
  <2> DEFINE hit == g \in completed
             x == known(g)
             exact == ~forgotten
  <2>1. x \in Entry /\ EntryShows(x, g, calls, exact) /\ g \in Sequences
    BY <1>5, <1>6
  <2>2. /\ hit \in BOOLEAN /\ exact \in BOOLEAN
        /\ hit => AtEnd(new, g)
        /\ exact /\ AtEnd(new, g) => hit
    BY <1>4, <2>1
  <2>3. gs[g] = IF hit THEN Bumped(x, s) ELSE x
    BY <1>5
  <2> HIDE DEF hit, x, exact
  <2>4. EntryShows(IF hit THEN Bumped(x, s) ELSE x, g, wholes, exact)
    BY <1>2, <1>3, <2>1, <2>2, ShowsMore
  <2>5. QED
    BY <2>3, <2>4 DEF exact
<1>8. EntriesShow(gs, wholes, ~forgotten)
  BY <1>7 DEF EntriesShow
<1>9. Past(wholes, today)
  <2>1. ASSUME NEW r \in Chats, NEW j \in 1..Len(wholes[r]) PROVE wholes[r][j].day <= today
    <3>1. CASE r # s
      BY <1>2, <3>1, <2>1 DEF Past, With
    <3>2. CASE r = s
      <4>1. calls[s] \in Seq(Event) /\ wholes[s] = new
        BY <1>2 DEF With
      <4>2. Len(new) = Len(calls[s]) + 1 /\ Len(calls[s]) \in Nat /\ new[Len(calls[s]) + 1] = e
            /\ \A k \in 1..Len(calls[s]) : new[k] = calls[s][k]
        BY <1>3, <4>1
      <4>3. today \in Nat
        BY <1>2, SequenceConstants DEF Days
      <4>4. \A k \in 1..Len(calls[s]) : calls[s][k].day <= today
        BY <1>2 DEF Past
      <4> HIDE DEF new
      <4>5. j \in 1..Len(calls[s]) \/ j = Len(calls[s]) + 1
        BY <2>1, <3>2, <4>1, <4>2
      <4>6. QED
        BY <1>3, <3>2, <4>1, <4>2, <4>3, <4>4, <4>5
    <3>3. QED
      BY <3>1, <3>2
  <2>2. QED
    BY <2>1 DEF Past
<1> HIDE DEF wholes
<1>10. EntriesShow(grams, calls, ~forgotten)'
  BY <1>1, <1>8, SavedShows
<1>11. Past(calls, today)'
  BY <1>1, <1>9
<1>12. SequenceInv'
  BY RecordStep DEF EvidenceInv
<1>13. QED
  BY <1>10, <1>11, <1>12 DEF EvidenceInv

LEMMA MarkShows ==
  ASSUME EvidenceInv, MarkProposed
  PROVE  EvidenceInv'
<1>1. SequenceInv' /\ today' = today /\ calls' = calls
  BY MarkStep DEF EvidenceInv, MarkProposed
<1>2. Past(calls, today)'
  BY <1>1 DEF EvidenceInv, Past
<1>3. CASE UNCHANGED <<grams, forgotten>>
  <2>1. EntriesShow(grams, calls, ~forgotten)'
    BY <1>1, <1>3 DEF EvidenceInv
  <2>2. QED
    BY <1>1, <1>2, <2>1 DEF EvidenceInv
<1>4. CASE ~UNCHANGED <<grams, forgotten>>
  <2> DEFINE gs == [g \in DOMAIN grams |-> IF g \in found THEN [grams[g] EXCEPT !.proposed = today]
                                           ELSE grams[g]]
  <2>1. SaveSignals(gs, tails)
    BY <1>4 DEF MarkProposed
  <2>2. ASSUME NEW g \in DOMAIN grams
        PROVE  gs[g].by = grams[g].by /\ gs[g].last = grams[g].last /\ gs[g].days = grams[g].days
    BY DEF EvidenceInv, SequenceInv, SequenceTyped, GramsTyped, Entry
  <2>3. DOMAIN gs = DOMAIN grams
    OBVIOUS
  <2> HIDE DEF gs
  <2>4. ASSUME NEW g \in DOMAIN gs PROVE EntryShows(gs[g], g, calls, ~forgotten)
    <3>1. EntryShows(grams[g], g, calls, ~forgotten)
      BY <2>3 DEF EvidenceInv, EntriesShow
    <3>2. QED
      BY <2>2, <2>3, <3>1 DEF EntryShows
  <2>5. EntriesShow(gs, calls, ~forgotten)
    BY <2>4 DEF EntriesShow
  <2>6. EntriesShow(grams, calls, ~forgotten)'
    BY <1>1, <2>1, <2>5, SavedShows
  <2>7. QED
    BY <1>1, <1>2, <2>6 DEF EvidenceInv
<1>5. QED
  BY <1>3, <1>4

LEMMA StartsShowing == SequenceInit => EvidenceInv
<1> SUFFICES ASSUME SequenceInit PROVE EvidenceInv
  OBVIOUS
<1>1. EntriesShow(grams, calls, ~forgotten)
  BY DEF SequenceInit, EntriesShow
<1>2. Past(calls, today)
  BY DEF SequenceInit, Past
<1>3. QED
  BY <1>1, <1>2, StartsCounted DEF EvidenceInv

LEMMA StepsShow == EvidenceInv /\ [SequenceNext]_sequenceVars => EvidenceInv'
<1> SUFFICES ASSUME EvidenceInv, [SequenceNext]_sequenceVars PROVE EvidenceInv'
  OBVIOUS
<1>1. ASSUME NEW s \in Chats, NEW c \in Calls, ApplyEvent(s, c) PROVE EvidenceInv'
  BY <1>1, RecordShows
<1>2. ASSUME UNCHANGED <<grams, tails, calls, forgotten>>, today' \in Days, today' >= today
      PROVE  EvidenceInv'
  <2>1. SequenceInv'
    BY <1>2, NothingCounted DEF EvidenceInv
  <2>2. EntriesShow(grams, calls, ~forgotten)'
    BY <1>2 DEF EvidenceInv
  <2>3. Past(calls, today)'
    <3>1. today \in Int /\ today' \in Int
      BY <1>2, SequenceConstants DEF EvidenceInv, SequenceInv, SequenceTyped, Days
    <3>2. \A s \in Chats : \A j \in 1..Len(calls[s]) : calls[s][j].day \in Int
      <4>1. \A s \in Chats : calls[s] \in Seq(Event)
        BY DEF EvidenceInv, SequenceInv, SequenceTyped
      <4>2. Days \subseteq Int
        BY SequenceConstants DEF Days
      <4>3. \A s \in Chats : \A j \in 1..Len(calls[s]) : calls[s][j] \in Event
        BY <4>1
      <4>4. QED
        BY <4>2, <4>3 DEF Event
    <3>3. QED
      BY <1>2, <3>1, <3>2 DEF EvidenceInv, Past
  <2>4. QED
    BY <2>1, <2>2, <2>3 DEF EvidenceInv
<1>3. today \in Days /\ today \in Int
  BY SequenceConstants DEF EvidenceInv, SequenceInv, SequenceTyped, Days
<1>4. CASE DayPasses
  <2>1. today' \in Days /\ today' >= today
    BY <1>3, <1>4, SequenceConstants DEF DayPasses, Days
  <2>2. QED
    BY <1>2, <1>4, <2>1 DEF DayPasses
<1>5. CASE Detect
  BY <1>2, <1>3, <1>5 DEF Detect
<1>6. CASE MarkProposed
  BY <1>6, MarkShows
<1>7. CASE UNCHANGED sequenceVars
  BY <1>2, <1>3, <1>7 DEF sequenceVars
<1>8. QED
  BY <1>1, <1>4, <1>5, <1>6, <1>7 DEF SequenceNext

-----------------------------------------------------------------------------
(* What is proposed.                                                        *)

LEMMA BestOf ==
  ASSUME NEW e \in Entry
  PROVE  /\ Best(e) \in Nat /\ \A s \in Active(e) : e.by[s] <= Best(e)
         /\ Best(e) # 0 => \E s \in Active(e) : e.by[s] = Best(e)
<1> DEFINE T == {0} \union {e.by[s] : s \in Active(e)}
<1>1. Active(e) \subseteq Chats /\ IsFiniteSet(Active(e))
  BY SequenceConstants, FS_Subset DEF Active
<1>2. IsFiniteSet(T)
  <2> DEFINE U == {e.by[s] : s \in Active(e)}
             f == [s \in Active(e) |-> e.by[s]]
  <2>1. f \in Surjection(Active(e), U)
    BY DEF Surjection
  <2> HIDE DEF f
  <2>2. IsFiniteSet(U)
    BY <1>1, <2>1, FS_Surjection
  <2> HIDE DEF U
  <2>3. IsFiniteSet(U \union {0})
    BY <2>2, FS_AddElement
  <2>4. T = U \union {0}
    BY DEF U
  <2>5. QED
    BY <2>3, <2>4
<1>3. T # {} /\ T \subseteq Nat
  BY <1>1 DEF Entry
<1> HIDE DEF T
<1>4. Max(T) \in T /\ \A x \in T : x <= Max(T)
  BY <1>2, <1>3, GreatestNumber
<1>5. Best(e) = Max(T)
  BY DEF Best, T
<1>6. QED
  BY <1>3, <1>4, <1>5 DEF T

LEMMA HitsOf ==
  ASSUME NEW e \in Entry, today \in Days
  PROVE  Hits(e) \in Nat /\ Best(e) <= Hits(e)
<1> DEFINE from == today - (Week - 1)
           T == {Best(e), Recent(e)}
<1>1. from \in Int
  BY SequenceConstants DEF Days
<1>2. Recent(e) = SumFunctionOnSet(e.days, DaysFrom(from))
  BY DEF Recent, DaysFrom
<1>3. Recent(e) \in Nat
  <2> DEFINE f == e.days
             U == DaysFrom(from)
  <2>1. IsFiniteSet(U) /\ \A d \in U : f[d] \in Nat
    BY <1>1, DaysAreFinite DEF Entry
  <2> HIDE DEF f, U
  <2>2. SumFunctionOnSet(f, U) \in Nat
    BY <2>1, SumIsNumber
  <2>3. QED
    BY <1>2, <2>2 DEF f, U
<1>4. Best(e) \in Nat
  BY BestOf
<1>5. IsFiniteSet(T) /\ T # {} /\ T \subseteq Nat
  <2>1. IsFiniteSet({Best(e)} \union {Recent(e)})
    BY FS_Singleton, FS_AddElement
  <2>2. T = {Best(e)} \union {Recent(e)}
    OBVIOUS
  <2>3. QED
    BY <1>3, <1>4, <2>1, <2>2
<1>6. Hits(e) = Max(T)
  BY DEF Hits
<1>7. Best(e) \in T
  OBVIOUS
<1> HIDE DEF T
<1>8. Max(T) \in T /\ \A x \in T : x <= Max(T)
  BY <1>5, GreatestNumber
<1>9. QED
  BY <1>5, <1>6, <1>7, <1>8

LEMMA EvidenceIsReal == EvidenceInv => EvidenceReal
<1> SUFFICES ASSUME EvidenceInv, NEW K \in Patterns(Pruned(grams)), NEW g \in K
             PROVE  \/ \E s \in Chats : Times(s, g) >= MinHits
                    \/ /\ SumFunction([s \in Chats |-> Cardinality(Places(s, g, today - (Week - 1)))]) >= Across
                       /\ Cardinality({s \in Chats : Times(s, g) > 0}) >= MinSessions
  BY DEF EvidenceReal
<1> DEFINE e == grams[g]
           from == today - (Week - 1)
<1>1. g \in Qualified(Pruned(grams))
  BY DEF Patterns, Longest
<1>2. g \in DOMAIN grams /\ Pruned(grams)[g] = e
  BY <1>1 DEF Qualified, Pruned
<1>3. /\ g \in Sequences /\ e \in Entry /\ today \in Days
      /\ calls \in [Chats -> Seq(Event)]
      /\ CountsOf(grams, calls, ~forgotten) /\ EntryShows(e, g, calls, ~forgotten)
  BY <1>2, SameCounts DEF EvidenceInv, SequenceInv, SequenceTyped, GramsTyped, EntriesShow
<1>4. \A s \in Chats : e.by[s] \in Nat /\ e.by[s] <= Times(s, g) /\ Times(s, g) \in Nat
  <2>1. ASSUME NEW s \in Chats PROVE e.by[s] \in Nat /\ e.by[s] <= Times(s, g) /\ Times(s, g) \in Nat
    <3>1. Times(s, g) = Cardinality(PlacesFrom(calls[s], g, 1))
      BY DEF Times, Places, PlacesFrom
    <3>2. CountOf(grams, g, s) = e.by[s]
      BY <1>2 DEF CountOf
    <3>3. e.by[s] \in Nat
      BY <1>3 DEF Entry
    <3>4. Cardinality(PlacesFrom(calls[s], g, 1)) \in Nat
      <4>1. calls[s] \in Seq(Event) /\ 1 \in Int
        BY <1>3
      <4>2. QED
        BY <1>3, <4>1, FinitelyMany
    <3>5. QED
      BY <1>3, <3>1, <3>2, <3>3, <3>4 DEF CountsOf
  <2>2. QED
    BY <2>1
<1>5. CASE Best(e) >= MinHits
  <2>1. Best(e) # 0
    BY <1>3, <1>5, BestOf, SequenceConstants
  <2>2. PICK s \in Active(e) : e.by[s] = Best(e)
    BY <1>3, <2>1, BestOf
  <2>3. s \in Chats /\ Times(s, g) >= Best(e)
    BY <1>4, <2>2 DEF Active
  <2>4. Times(s, g) >= MinHits
    <3>1. Best(e) \in Nat /\ MinHits \in Nat /\ Times(s, g) \in Nat
      BY <1>3, <1>4, <2>3, BestOf, SequenceConstants
    <3>2. QED
      BY <1>5, <2>3, <3>1
  <2>5. QED
    BY <2>3, <2>4
<1>6. CASE Recent(e) >= Across /\ Cardinality(Active(e)) >= MinSessions
  <2>1. from \in Int
    BY <1>3, SequenceConstants DEF Days
  <2>2. Recent(e) <= InAll(calls, g, from)
    <3>1. Recent(e) = SumFunctionOnSet(e.days, DaysFrom(from))
      BY DEF Recent, DaysFrom
    <3>2. QED
      BY <1>3, <2>1, <3>1 DEF EntryShows
  <2>3. InAll(calls, g, from) = SumFunction([s \in Chats |-> Cardinality(Places(s, g, from))])
    BY DEF InAll, SumFunction, Places, PlacesFrom
  <2>4. InAll(calls, g, from) >= Across
    <3>1. InAll(calls, g, from) \in Nat
      BY <1>3, <2>1, InAllIsNumber
    <3>2. Recent(e) \in Nat
      <4> DEFINE f == e.days
                 U == DaysFrom(from)
      <4>1. IsFiniteSet(U) /\ \A d \in U : f[d] \in Nat
        BY <1>3, <2>1, DaysAreFinite DEF Entry
      <4>2. Recent(e) = SumFunctionOnSet(f, U)
        BY DEF Recent, DaysFrom
      <4> HIDE DEF f, U
      <4>3. QED
        BY <4>1, <4>2, SumIsNumber
    <3>3. Across \in Nat
      BY SequenceConstants
    <3>4. QED
      BY <1>6, <2>2, <3>1, <3>2, <3>3
  <2>5. Cardinality({s \in Chats : Times(s, g) > 0}) >= MinSessions
    <3> DEFINE T == {s \in Chats : Times(s, g) > 0}
    <3>1. Active(e) \subseteq T
      <4>1. ASSUME NEW s \in Active(e) PROVE s \in Chats /\ Times(s, g) > 0
        <5>1. s \in Chats /\ e.last[s] # 0
          BY DEF Active
        <5>2. e.by[s] > 0
          BY <1>3, <5>1 DEF EntryShows
        <5>3. QED
          BY <1>4, <5>1, <5>2
      <4>2. QED
        BY <4>1
    <3>2. IsFiniteSet(T)
      BY SequenceConstants, FS_Subset
    <3> HIDE DEF T
    <3>3. Cardinality(Active(e)) <= Cardinality(T) /\ Cardinality(Active(e)) \in Nat /\ Cardinality(T) \in Nat
      BY <3>1, <3>2, FS_Subset, FS_CardinalityType
    <3>4. MinSessions \in Nat
      BY SequenceConstants
    <3>5. QED
      BY <1>6, <3>3, <3>4 DEF T
  <2>6. QED
    BY <2>3, <2>4, <2>5
<1>7. QED
  BY <1>1, <1>2, <1>5, <1>6 DEF Qualified

-----------------------------------------------------------------------------
(* What is left out.                                                        *)

\* Where one sequence begins inside another.
LEMMA InsideAt ==
  ASSUME NEW seq \in Seq(Calls), NEW sub \in Seq(Calls)
  PROVE  Inside(seq, sub) <=> \E i \in 0..(Len(seq) - Len(sub)) : \A j \in 1..Len(sub) : seq[i + j] = sub[j]
<1>1. Len(seq) \in Nat /\ Len(sub) \in Nat
  OBVIOUS
<1>2. ASSUME NEW i \in 0..(Len(seq) - Len(sub))
      PROVE  SubSeq(seq, i + 1, i + Len(sub)) = sub <=> \A j \in 1..Len(sub) : seq[i + j] = sub[j]
  <2> DEFINE n == i + Len(sub)
             cut == SubSeq(seq, i + 1, n)
  <2>1. i \in Nat /\ n \in Nat /\ n <= Len(seq) /\ n - i = Len(sub) /\ i <= n
    BY <1>1
  <2> HIDE DEF n
  <2>2. /\ cut \in Seq(Calls) /\ Len(cut) = n - i
        /\ \A j \in 1..(n - i) : cut[j] = seq[i + j]
    BY SMTT(60), <1>1, <2>1
  <2>3. cut = sub <=> \A j \in 1..Len(sub) : cut[j] = sub[j]
    <3> HIDE DEF cut
    <3>1. QED
      BY <1>1, <2>1, <2>2
  <2> HIDE DEF cut
  <2>4. cut = sub <=> \A j \in 1..Len(sub) : seq[i + j] = sub[j]
    BY <2>1, <2>2, <2>3
  <2>5. QED
    BY <2>4 DEF cut, n
<1>3. QED
  BY <1>2 DEF Inside

LEMMA InsideInside ==
  ASSUME NEW p \in Seq(Calls), NEW o \in Seq(Calls), NEW c \in Seq(Calls), Inside(p, o), Inside(o, c)
  PROVE  Inside(p, c)
<1>1. PICK i \in 0..(Len(p) - Len(o)) : \A j \in 1..Len(o) : p[i + j] = o[j]
  BY InsideAt
<1>2. PICK k \in 0..(Len(o) - Len(c)) : \A j \in 1..Len(c) : o[k + j] = c[j]
  BY InsideAt
<1>3. Len(p) \in Nat /\ Len(o) \in Nat /\ Len(c) \in Nat
  OBVIOUS
<1>4. i + k \in 0..(Len(p) - Len(c))
  BY <1>3
<1>5. ASSUME NEW j \in 1..Len(c) PROVE p[(i + k) + j] = c[j]
  <2>1. k + j \in 1..Len(o) /\ i + (k + j) = (i + k) + j
    BY <1>3
  <2>2. QED
    BY <1>1, <1>2, <2>1
<1>6. QED
  BY <1>4, <1>5, InsideAt

\* Going once around more.
LEMMA OnceAround ==
  ASSUME NEW x \in Int, NEW n \in Int, n > 0
  PROVE  (x + n) % n = x % n
<1> DEFINE q == x \div n
           r == x % n
<1>1. q \in Int /\ r \in Int /\ 0 <= r /\ r < n /\ x = q * n + r
  OBVIOUS
<1> HIDE DEF q, r
<1>2. x + n = (q + 1) * n + r
  BY <1>1
<1>3. QED
  BY <1>1, <1>2

\* k over and over, at the place i.
Loop(k, i) == k[(i % Len(k)) + 1]
LoopsAt(k, c, i) == \A j \in 1..Len(c) : Loop(k, (i + j) - 1) = c[j]

LEMMA LoopIsCall ==
  ASSUME NEW k \in Sequences, NEW i \in Int
  PROVE  (i % Len(k)) + 1 \in 1..Len(k) /\ Loop(k, i) \in Calls /\ Loop(k, i + Len(k)) = Loop(k, i)
<1>1. k \in Seq(Calls) /\ Len(k) \in Int /\ Len(k) > 0
  BY LengthOf
<1>2. (i % Len(k)) + 1 \in 1..Len(k)
  BY <1>1
<1>3. (i + Len(k)) % Len(k) = i % Len(k)
  BY <1>1, OnceAround
<1>4. QED
  BY <1>1, <1>2, <1>3 DEF Loop

\* What stands in the loop at all begins in its first round.
LEMMA InFirstRound ==
  ASSUME NEW k \in Sequences, NEW c \in Sequences, NEW i \in Nat, LoopsAt(k, c, i)
  PROVE  \E m \in 0..(Len(k) - 1) : LoopsAt(k, c, m)
<1> DEFINE T == {m \in 0..i : LoopsAt(k, c, m)}
           m == Min(T)
<1>1. Len(k) \in Nat /\ Len(k) > 0 /\ Len(c) \in Nat
  BY LengthOf
<1>2. IsFiniteSet(T) /\ T # {} /\ T \subseteq Nat
  <2>1. IsFiniteSet(0..i)
    BY FS_Interval
  <2>2. i \in T
    OBVIOUS
  <2>3. QED
    BY <2>1, <2>2, FS_Subset
<1>3. m \in T /\ \A x \in T : m <= x
  <2> HIDE DEF T
  <2>1. QED
    BY <1>2, LeastNumber
<1>4. m \in Nat /\ m <= i /\ LoopsAt(k, c, m)
  BY <1>3
<1>5. m < Len(k)
  <2> SUFFICES ASSUME m >= Len(k) PROVE FALSE
    BY <1>1, <1>4
  <2> HIDE DEF m
  <2>1. m - Len(k) \in 0..i
    BY <1>1, <1>4
  <2>2. ASSUME NEW j \in 1..Len(c) PROVE Loop(k, ((m - Len(k)) + j) - 1) = c[j]
    <3> DEFINE x == ((m - Len(k)) + j) - 1
    <3>1. x \in Int /\ x + Len(k) = (m + j) - 1
      BY <1>1, <1>4
    <3> HIDE DEF x
    <3>2. Loop(k, x + Len(k)) = Loop(k, x)
      BY <3>1, LoopIsCall
    <3>3. QED
      BY <1>4, <3>1, <3>2 DEF LoopsAt, x
  <2>3. m - Len(k) \in T
    BY <2>1, <2>2 DEF LoopsAt
  <2>4. QED
    BY <1>1, <1>3, <1>4, <2>3
<1> HIDE DEF m
<1>6. m \in 0..(Len(k) - 1)
  BY <1>1, <1>4, <1>5
<1>7. QED
  BY <1>4, <1>6

\* The rounds are enough to hold a sequence wherever in the loop it begins.
LEMMA CoversAt ==
  ASSUME NEW k \in Sequences, NEW c \in Sequences
  PROVE  Covers(k, c) <=> \E i \in Nat : LoopsAt(k, c, i)
<1> DEFINE n == Rounds(k, c) * Len(k)
           rep == [i \in 1..n |-> k[((i - 1) % Len(k)) + 1]]
<1>1. Len(k) \in Int /\ Len(k) > 0 /\ Len(c) \in Int /\ Len(c) > 0 /\ c \in Seq(Calls)
  BY LengthOf
<1>2. n \in Nat /\ n >= Len(c) + Len(k)
  <2> DEFINE q == Len(c) \div Len(k)
             r == Len(c) % Len(k)
             l == Len(k)
  <2>1. q \in Int /\ r \in Int /\ 0 <= r /\ r < l /\ Len(c) = q * l + r
    BY <1>1
  <2>2. n = (q + 2) * l
    BY DEF Rounds
  <2> HIDE DEF q, r, n
  <2>3. n = (q * l + l) + l
    BY <1>1, <2>1, <2>2
  <2>4. q * l \in Int
    BY <1>1, <2>1
  <2> HIDE DEF l
  <2>5. l \in Int /\ l > 0
    BY <1>1 DEF l
  <2>6. n \in Int /\ n >= Len(c) + l
    BY <1>1, <2>1, <2>3, <2>4, <2>5
  <2>7. QED
    BY <1>1, <2>5, <2>6 DEF l
<1> HIDE DEF n
<1>3. rep \in Seq(Calls) /\ Len(rep) = n /\ \A i \in 1..n : rep[i] = Loop(k, i - 1)
  <2>1. \A i \in 1..n : rep[i] = Loop(k, i - 1)
    BY DEF Loop
  <2>2. \A i \in 1..n : Loop(k, i - 1) \in Calls
    BY <1>2, LoopIsCall
  <2>3. rep \in [1..n -> Calls]
    BY <2>1, <2>2
  <2> HIDE DEF rep
  <2>4. rep \in Seq(Calls) /\ Len(rep) = n
    BY <1>2, <2>3
  <2>5. QED
    BY <2>1, <2>4
<1>4. Covers(k, c) <=> Inside(rep, c)
  BY DEF Covers, n
<1> HIDE DEF rep
<1>5. Inside(rep, c) <=> \E i \in 0..(n - Len(c)) : \A j \in 1..Len(c) : rep[i + j] = c[j]
  BY <1>1, <1>3, InsideAt
<1>6. ASSUME NEW i \in 0..(n - Len(c))
      PROVE  LoopsAt(k, c, i) <=> \A j \in 1..Len(c) : rep[i + j] = c[j]
  <2>1. \A j \in 1..Len(c) : i + j \in 1..n
    BY <1>1, <1>2
  <2>2. \A j \in 1..Len(c) : rep[i + j] = Loop(k, (i + j) - 1)
    BY <1>3, <2>1
  <2>3. QED
    BY <2>2 DEF LoopsAt
<1>7. ASSUME NEW i \in Nat, LoopsAt(k, c, i) PROVE Inside(rep, c)
  <2>1. PICK m \in 0..(Len(k) - 1) : LoopsAt(k, c, m)
    BY <1>7, InFirstRound
  <2>2. m \in 0..(n - Len(c))
    BY <1>1, <1>2
  <2>3. QED
    BY <1>5, <1>6, <2>1, <2>2
<1>8. ASSUME Inside(rep, c) PROVE \E i \in Nat : LoopsAt(k, c, i)
  <2>1. PICK i \in 0..(n - Len(c)) : \A j \in 1..Len(c) : rep[i + j] = c[j]
    BY <1>5, <1>8
  <2>2. LoopsAt(k, c, i) /\ i \in Nat
    BY <1>6, <2>1
  <2>3. QED
    BY <2>2
<1>9. QED
  BY <1>4, <1>7, <1>8

\* A loop that holds a sequence holds what is inside it.
LEMMA CoversInside ==
  ASSUME NEW k \in Sequences, NEW o \in Sequences, NEW c \in Sequences, Covers(k, o), Inside(o, c)
  PROVE  Covers(k, c)
<1>1. PICK i \in Nat : LoopsAt(k, o, i)
  BY CoversAt
<1>2. o \in Seq(Calls) /\ c \in Seq(Calls) /\ Len(o) \in Nat /\ Len(c) \in Nat
  BY LengthOf
<1>3. PICK m \in 0..(Len(o) - Len(c)) : \A j \in 1..Len(c) : o[m + j] = c[j]
  BY <1>2, InsideAt
<1>4. ASSUME NEW j \in 1..Len(c) PROVE Loop(k, ((i + m) + j) - 1) = c[j]
  <2>1. m + j \in 1..Len(o) /\ (i + (m + j)) - 1 = ((i + m) + j) - 1
    BY <1>2
  <2>2. QED
    BY <1>1, <1>3, <2>1 DEF LoopsAt
<1>5. i + m \in Nat
  BY <1>2
<1>6. QED
  BY <1>4, <1>5, CoversAt DEF LoopsAt

LEMMA CoversItself ==
  ASSUME NEW k \in Sequences
  PROVE  Covers(k, k) /\ Inside(k, k)
<1>1. k \in Seq(Calls) /\ Len(k) \in Nat /\ Len(k) > 0
  BY LengthOf
<1>2. ASSUME NEW j \in 1..Len(k) PROVE Loop(k, (0 + j) - 1) = k[j]
  <2>1. (j - 1) % Len(k) = j - 1
    BY <1>1
  <2>2. QED
    BY <2>1 DEF Loop
<1>3. LoopsAt(k, k, 0)
  BY <1>2 DEF LoopsAt
<1>4. 0 \in 0..(Len(k) - Len(k)) /\ \A j \in 1..Len(k) : k[0 + j] = k[j]
  BY <1>1
<1>5. QED
  BY <1>1, <1>3, <1>4, CoversAt, InsideAt

\* Within what is never longer, one of the longest of some sequences.
LEMMA OneLongest ==
  ASSUME NEW C, C \subseteq Sequences, C # {}
  PROVE  \E o \in C : \A p \in C : Len(p) <= Len(o)
<1> DEFINE T == {Len(o) : o \in C}
<1>1. T \subseteq NMin..NMax /\ T # {}
  BY LengthOf
<1>2. NMin..NMax \subseteq Nat /\ IsFiniteSet(NMin..NMax)
  <2>1. NMin \in Int /\ NMax \in Int /\ NMin \in Nat
    BY SequenceConstants
  <2>2. QED
    BY <2>1, FS_Interval
<1>3. IsFiniteSet(T) /\ T \subseteq Nat
  BY <1>1, <1>2, FS_Subset
<1>4. Max(T) \in T /\ \A x \in T : x <= Max(T)
  <2> HIDE DEF T
  <2>1. QED
    BY <1>1, <1>3, GreatestNumber
<1>5. QED
  BY <1>4

\* What recurred in a session of the last week has the hits for it.
LEMMA RecurredQualifies ==
  ASSUME EvidenceInv, ~forgotten, NEW g \in Sequences, NEW s \in Chats,
         Proper(g), Times(s, g) >= MinHits, Places(s, g, today - Week) # {}
  PROVE  g \in Qualified(grams) /\ Hits(grams[g]) >= Times(s, g)
<1>1. /\ GramsTyped(grams) /\ today \in Days /\ calls \in [Chats -> Seq(Event)]
      /\ CountsOf(grams, calls, ~forgotten)
  BY SameCounts DEF EvidenceInv, SequenceInv, SequenceTyped
<1>2. calls[s] \in Seq(Event) /\ MinHits \in Nat /\ MinHits > 0 /\ today \in Int /\ Week \in Nat
  BY <1>1, SequenceConstants DEF Days
<1>3. Places(s, g, today - Week) = PlacesFrom(calls[s], g, today - Week) /\ Places(s, g, 1) = PlacesFrom(calls[s], g, 1)
  BY DEF Places, PlacesFrom
<1>4. Times(s, g) \in Nat
  BY <1>2, <1>3, FinitelyMany DEF Times
<1>5. CountOf(grams, g, s) = Times(s, g)
  BY <1>1 DEF CountsOf, CountOf, Times, Places, PlacesFrom
<1>6. g \in DOMAIN grams /\ grams[g].by[s] = Times(s, g)
  BY <1>2, <1>4, <1>5 DEF CountOf
<1>7. grams[g] \in Entry
  BY <1>1, <1>6 DEF GramsTyped
<1>8. EntryShows(grams[g], g, calls, TRUE)
  BY <1>6 DEF EvidenceInv, EntriesShow
<1>9. PICK i \in PlacesFrom(calls[s], g, today - Week) : TRUE
  BY <1>3
<1>10. /\ i \in 0..(Len(calls[s]) - Len(g)) /\ calls[s][i + Len(g)].day >= today - Week
       /\ \A j \in 1..Len(g) : calls[s][i + j].call = g[j]
  BY <1>9 DEF PlacesFrom
<1>11. i + Len(g) \in 1..Len(calls[s])
  BY <1>2, <1>10, LengthOf
<1>12. calls[s][i + Len(g)].day \in Days
  <2>1. calls[s][i + Len(g)] \in Event
    BY <1>2, <1>11
  <2>2. QED
    BY <2>1 DEF Event
<1>13. i \in PlacesFrom(calls[s], g, 1)
  BY <1>10, <1>12 DEF PlacesFrom, Days
<1>14. calls[s][i + Len(g)].day <= grams[g].last[s]
  BY <1>8, <1>13 DEF EntryShows
<1>15. grams[g].last[s] \in Int
  BY <1>7, SequenceConstants DEF Entry, Days
<1>16. s \in Active(grams[g])
  BY <1>2, <1>10, <1>12, <1>14, <1>15 DEF Active, Days
<1>17. Best(grams[g]) >= Times(s, g) /\ Best(grams[g]) \in Nat
  <2>1. grams[g].by[s] <= Best(grams[g]) /\ Best(grams[g]) \in Nat
    BY <1>7, <1>16, BestOf
  <2>2. QED
    BY <1>6, <2>1
<1>18. Hits(grams[g]) \in Nat /\ Best(grams[g]) <= Hits(grams[g])
  BY <1>1, <1>7, HitsOf
<1>19. QED
  BY <1>2, <1>4, <1>6, <1>17, <1>18 DEF Qualified

\* Above what qualifies, inside something longer that was seen as often, stands one that is kept.
LEMMA LongestAbove ==
  ASSUME GramsTyped(grams), today \in Days, NEW g \in Qualified(grams)
  PROVE  \E o \in Longest(grams) : Inside(o, g) /\ Hits(grams[o]) >= Hits(grams[g])
<1> DEFINE C == {o \in Qualified(grams) : Hits(grams[o]) >= Hits(grams[g]) /\ Inside(o, g)}
<1>1. \A o \in Qualified(grams) : o \in Sequences /\ o \in Seq(Calls) /\ Len(o) \in Nat /\ Hits(grams[o]) \in Nat
  <2>1. \A o \in Qualified(grams) : o \in Sequences /\ grams[o] \in Entry
    BY DEF Qualified, GramsTyped
  <2>2. QED
    BY <2>1, LengthOf, HitsOf
<1>2. g \in C
  BY <1>1, CoversItself
<1>3. PICK o \in C : \A p \in C : Len(p) <= Len(o)
  <2>1. C \subseteq Sequences /\ C # {}
    BY <1>1, <1>2
  <2> HIDE DEF C
  <2>2. QED
    BY <2>1, OneLongest
<1>4. o \in Qualified(grams) /\ Hits(grams[o]) >= Hits(grams[g]) /\ Inside(o, g)
  BY <1>3
<1>5. ASSUME NEW p \in Qualified(grams), Len(p) > Len(o), Hits(grams[p]) >= Hits(grams[o]), Inside(p, o) PROVE FALSE
  <2>1. Inside(p, g)
    BY <1>1, <1>4, <1>5, InsideInside
  <2>2. Hits(grams[p]) >= Hits(grams[g])
    BY <1>1, <1>4, <1>5
  <2>3. p \in C
    BY <2>1, <2>2
  <2>4. QED
    BY <1>1, <1>3, <1>4, <1>5, <2>3
<1>6. o \in Longest(grams)
  BY <1>4, <1>5 DEF Longest
<1>7. QED
  BY <1>4, <1>6

LEMMA NoneIsMissed == EvidenceInv => NoneMissed
<1> SUFFICES ASSUME EvidenceInv, ~forgotten, Pruned(grams) = grams, NEW K \in Patterns(grams),
                    NEW g \in Sequences, NEW s \in Chats,
                    Proper(g), Times(s, g) >= MinHits, Places(s, g, today - Week) # {}
             PROVE  \E k \in K : Covers(k, g) /\ Hits(grams[k]) >= Times(s, g)
  BY DEF NoneMissed
<1>1. GramsTyped(grams) /\ today \in Days /\ calls \in [Chats -> Seq(Event)]
  BY DEF EvidenceInv, SequenceInv, SequenceTyped
<1>2. g \in Qualified(grams) /\ Hits(grams[g]) >= Times(s, g)
  BY RecurredQualifies
<1>3. PICK o \in Longest(grams) : Inside(o, g) /\ Hits(grams[o]) >= Hits(grams[g])
  BY <1>1, <1>2, LongestAbove
<1>4. \A k \in Longest(grams) : k \in Sequences /\ Hits(grams[k]) \in Nat
  <2>1. \A k \in Longest(grams) : k \in Sequences /\ grams[k] \in Entry
    BY <1>1 DEF Longest, Qualified, GramsTyped
  <2>2. QED
    BY <1>1, <2>1, HitsOf
<1>5. Hits(grams[g]) \in Nat /\ Times(s, g) \in Nat
  <2>1. grams[g] \in Entry
    BY <1>1, <1>2 DEF Qualified, GramsTyped
  <2>2. Places(s, g, 1) = PlacesFrom(calls[s], g, 1) /\ calls[s] \in Seq(Event)
    BY <1>1 DEF Places, PlacesFrom
  <2>3. QED
    BY <1>1, <2>1, <2>2, HitsOf, FinitelyMany DEF Times
<1>6. K \subseteq Longest(grams) /\ (o \in K \/ \E k \in K : Precedes(grams, k, o) /\ Covers(k, o))
  BY DEF Patterns
<1>7. CASE o \in K
  <2>1. Covers(o, o)
    BY <1>4, CoversItself
  <2>2. Covers(o, g)
    BY <1>3, <1>4, <2>1, CoversInside
  <2>3. QED
    BY <1>2, <1>3, <1>4, <1>5, <1>7, <2>2
<1>8. CASE \E k \in K : Precedes(grams, k, o) /\ Covers(k, o)
  <2>1. PICK k \in K : Precedes(grams, k, o) /\ Covers(k, o)
    BY <1>8
  <2>2. Covers(k, g)
    BY <1>3, <1>4, <1>6, <2>1, CoversInside
  <2>3. Hits(grams[k]) >= Hits(grams[o])
    BY <1>4, <1>6, <2>1 DEF Precedes
  <2>4. QED
    BY <1>2, <1>3, <1>4, <1>5, <1>6, <2>2, <2>3
<1>9. QED
  BY <1>6, <1>7, <1>8

\* Exactly what recurred is proposed: each pattern in one session often enough,
\* or in the week and in several; and until something is forgotten whatever
\* recurred in a session of the week is in a pattern, or in its loop, that was
\* seen as often (_detect_tool_sequence).
THEOREM RecurrencesAreProposed == SequenceSpec => []RecurrencesProposed
<1>1. SequenceInit => EvidenceInv
  BY StartsShowing
<1>2. EvidenceInv /\ [SequenceNext]_sequenceVars => EvidenceInv'
  BY StepsShow
<1>3. EvidenceInv => RecurrencesProposed
  BY EvidenceIsReal, NoneIsMissed DEF RecurrencesProposed
<1>4. QED
  BY <1>1, <1>2, <1>3, PTL DEF SequenceSpec

-----------------------------------------------------------------------------
(* The ranking always leaves something.                                     *)

\* Between sequences of one length, covering is mutual.
LEMMA CoversBack ==
  ASSUME NEW k \in Sequences, NEW c \in Sequences, Len(k) = Len(c), Covers(k, c)
  PROVE  Covers(c, k)
<1> DEFINE n == Len(k)
<1>1. n \in Int /\ n > 0 /\ n = Len(c)
  BY LengthOf
<1>2. PICK i \in Nat : LoopsAt(k, c, i)
  BY CoversAt
<1>3. PICK m \in 0..(n - 1) : LoopsAt(k, c, m)
  BY <1>2, InFirstRound
<1>4. \A j \in 1..n : Loop(k, (m + j) - 1) = c[j]
  BY <1>1, <1>3 DEF LoopsAt
<1>5. \A x \in Int : Loop(k, x + n) = Loop(k, x)
  BY LoopIsCall
<1>6. \A j \in 1..n : Loop(k, j - 1) = k[j]
  <2> SUFFICES ASSUME NEW j \in 1..n PROVE Loop(k, j - 1) = k[j]
    OBVIOUS
  <2>1. (j - 1) % n = j - 1
    BY <1>1
  <2>2. QED
    BY <2>1 DEF Loop
<1> HIDE DEF n
<1>7. ASSUME NEW j \in 1..n PROVE Loop(c, ((n - m) + j) - 1) = k[j]
  <2> DEFINE x == ((n - m) + j) - 1
  <2>1. x \in Int /\ 0 <= x /\ x < n + n
    BY <1>1
  <2>2. Loop(c, x) = c[(x % n) + 1]
    BY <1>1 DEF Loop
  <2>3. ASSUME x < n PROVE Loop(c, x) = k[j]
    <3>1. x % n = x /\ x + 1 \in 1..n /\ (m + (x + 1)) - 1 = (j - 1) + n /\ j - 1 \in Int
      BY <1>1, <2>1, <2>3
    <3>2. c[x + 1] = Loop(k, (j - 1) + n)
      BY <1>4, <3>1
    <3> HIDE DEF x
    <3>3. QED
      BY <1>5, <1>6, <2>2, <3>1, <3>2 DEF x
  <2>4. ASSUME x >= n PROVE Loop(c, x) = k[j]
    <3>1. x % n = x - n /\ (x - n) + 1 \in 1..n /\ (m + ((x - n) + 1)) - 1 = j - 1
      BY <1>1, <2>1, <2>4
    <3>2. c[(x - n) + 1] = Loop(k, j - 1)
      BY <1>4, <3>1
    <3> HIDE DEF x
    <3>3. QED
      BY <1>6, <2>2, <3>1, <3>2 DEF x
  <2>5. x < n \/ x >= n
    BY <1>1, <2>1
  <2> HIDE DEF x
  <2>6. Loop(c, x) = k[j]
    BY <2>3, <2>4, <2>5
  <2>7. QED
    BY <2>6 DEF x
<1>8. LoopsAt(c, k, n - m) /\ n - m \in Nat
  BY <1>1, <1>7 DEF LoopsAt, n
<1>9. QED
  BY <1>8, CoversAt

\* Choices among some of the sequences: what the ranking keeps of them.
ChoiceOf(gs, S) ==
  {K \in SUBSET S : \A c \in S : c \in K <=> ~\E k \in K \ {c} : Precedes(gs, k, c) /\ Covers(k, c)}
Ranked(gs, S) == \A k \in S : k \in Sequences /\ Hits(gs[k]) \in Nat

\* Some sequence comes last in the ranking.
LEMMA ComesLast ==
  ASSUME NEW gs, NEW S, IsFiniteSet(S), S # {}, Ranked(gs, S)
  PROVE  \E m \in S : \A k \in S : Precedes(gs, k, m)
<1> DEFINE after == [m \in S |-> {k \in S : Precedes(gs, m, k)}]
<1>1. \A k \in S : Len(k) \in Nat /\ Hits(gs[k]) \in Nat
  BY LengthOf DEF Ranked
<1>2. after \in [S -> SUBSET S]
  OBVIOUS
<1>3. PICK m \in S : \A k \in S : after[k] \subseteq after[m] => after[k] = after[m]
  <2> HIDE DEF after
  <2>1. QED
    BY <1>2, Lowest
<1>4. ASSUME NEW k \in S, ~Precedes(gs, k, m) PROVE FALSE
  <2>1. ASSUME NEW c \in S, Precedes(gs, k, c) PROVE Precedes(gs, m, c)
    BY <1>1, <1>4, <2>1 DEF Precedes
  <2>2. after[k] \subseteq after[m]
    BY <2>1
  <2>3. Precedes(gs, m, m)
    BY <1>1 DEF Precedes
  <2>4. m \in after[m] /\ m \notin after[k]
    BY <1>4, <2>3
  <2>5. QED
    BY <1>3, <2>2, <2>4
<1>5. QED
  BY <1>4

LEMMA ChoiceExists ==
  ASSUME NEW gs, NEW S, IsFiniteSet(S), Ranked(gs, S)
  PROVE  ChoiceOf(gs, S) # {}
<1> DEFINE F == {u \in SUBSET S : ChoiceOf(gs, u) = {}}
<1> SUFFICES ASSUME F # {} PROVE FALSE
  OBVIOUS
<1>1. PICK u \in F : \A v \in F : v \subseteq u => v = u
  <2>1. F \subseteq SUBSET S
    OBVIOUS
  <2> HIDE DEF F
  <2>2. QED
    BY <2>1, SmallestSet
<1>2. u \subseteq S /\ ChoiceOf(gs, u) = {} /\ IsFiniteSet(u) /\ Ranked(gs, u)
  BY FS_Subset DEF Ranked
<1>3. u # {}
  <2>1. {} \in ChoiceOf(gs, {})
    BY DEF ChoiceOf
  <2>2. QED
    BY <1>2, <2>1
<1>4. PICK m \in u : \A k \in u : Precedes(gs, k, m)
  BY <1>2, <1>3, ComesLast
<1>5. PICK K \in ChoiceOf(gs, u \ {m}) : TRUE
  <2>1. u \ {m} \notin F /\ u \ {m} \in SUBSET S
    BY <1>1, <1>2, <1>4
  <2>2. QED
    BY <2>1
<1> HIDE DEF F
<1>6. /\ K \subseteq u /\ m \notin K
      /\ \A c \in u \ {m} : c \in K <=> ~\E k \in K \ {c} : Precedes(gs, k, c) /\ Covers(k, c)
  BY <1>5 DEF ChoiceOf
<1>7. CASE \E k \in K : Covers(k, m)
  <2>1. \E k \in K \ {m} : Precedes(gs, k, m) /\ Covers(k, m)
    BY <1>4, <1>6, <1>7
  <2>2. K \in ChoiceOf(gs, u)
    BY <1>6, <2>1 DEF ChoiceOf
  <2>3. QED
    BY <1>2, <2>2
<1>8. CASE ~\E k \in K : Covers(k, m)
  <2> DEFINE L == K \union {m}
  <2>1. ASSUME NEW c \in K PROVE ~(Precedes(gs, m, c) /\ Covers(m, c))
    <3> SUFFICES ASSUME Precedes(gs, m, c), Covers(m, c) PROVE FALSE
      OBVIOUS
    <3>1. c \in u /\ c \in Sequences /\ m \in Sequences /\ Hits(gs[c]) \in Nat /\ Hits(gs[m]) \in Nat
      BY <1>2, <1>6 DEF Ranked
    <3>2. Len(c) \in Nat /\ Len(m) \in Nat
      BY <3>1, LengthOf
    <3>3. Precedes(gs, c, m)
      BY <1>4, <3>1
    <3>4. Len(m) = Len(c)
      BY <3>1, <3>2, <3>3 DEF Precedes
    <3>5. Covers(c, m)
      BY <3>1, <3>4, CoversBack
    <3>6. QED
      BY <1>8, <3>5
  <2>2. ASSUME NEW c \in u PROVE c \in L <=> ~\E k \in L \ {c} : Precedes(gs, k, c) /\ Covers(k, c)
    <3>1. CASE c = m
      BY <1>6, <1>8, <3>1
    <3>2. CASE c # m /\ c \in K
      <4>1. ~\E k \in K \ {c} : Precedes(gs, k, c) /\ Covers(k, c)
        BY <1>6, <3>2
      <4>2. QED
        BY <2>1, <3>2, <4>1
    <3>3. CASE c # m /\ c \notin K
      <4>1. \E k \in K \ {c} : Precedes(gs, k, c) /\ Covers(k, c)
        BY <1>6, <3>3
      <4>2. QED
        BY <3>3, <4>1
    <3>4. QED
      BY <3>1, <3>2, <3>3
  <2>3. L \subseteq u
    BY <1>6
  <2> HIDE DEF L
  <2>4. L \in ChoiceOf(gs, u)
    BY <2>2, <2>3 DEF ChoiceOf
  <2>5. QED
    BY <1>2, <2>4
<1>9. QED
  BY <1>7, <1>8

LEMMA ProposesSome ==
  ASSUME NEW gs, GramsTyped(gs), IsFiniteSet(DOMAIN gs), today \in Days
  PROVE  Patterns(gs) # {}
<1>1. Longest(gs) \subseteq DOMAIN gs
  BY DEF Longest, Qualified
<1>2. IsFiniteSet(Longest(gs))
  BY <1>1, FS_Subset
<1>3. Ranked(gs, Longest(gs))
  <2>1. \A k \in Longest(gs) : k \in Sequences /\ gs[k] \in Entry
    BY <1>1 DEF GramsTyped
  <2>2. QED
    BY <2>1, HitsOf DEF Ranked
<1>4. Patterns(gs) = ChoiceOf(gs, Longest(gs))
  BY DEF Patterns, ChoiceOf
<1>5. QED
  BY <1>2, <1>3, <1>4, ChoiceExists

\* The file knows finitely many sequences.
LEMMA StaysFinite ==
  EvidenceInv /\ IsFiniteSet(DOMAIN grams) /\ [SequenceNext]_sequenceVars => IsFiniteSet(DOMAIN grams)'
<1> SUFFICES ASSUME EvidenceInv, IsFiniteSet(DOMAIN grams), [SequenceNext]_sequenceVars
             PROVE  IsFiniteSet(DOMAIN grams')
  OBVIOUS
<1>1. ASSUME NEW gs, NEW ts, SaveSignals(gs, ts), IsFiniteSet(DOMAIN gs) PROVE IsFiniteSet(DOMAIN grams')
  <2>1. DOMAIN grams' \subseteq DOMAIN gs
    BY <1>1 DEF SaveSignals, Pruned
  <2>2. QED
    BY <1>1, <2>1, FS_Subset
<1>2. ASSUME NEW s \in Chats, NEW c \in Calls, ApplyEvent(s, c) PROVE IsFiniteSet(DOMAIN grams')
  <2> DEFINE seq == Append(tails[s].calls, c)
             L == {k \in NMin..NMax : k <= Len(seq)}
             endings == {Ending(seq, n) : n \in L}
             counted == [g \in DOMAIN grams \union endings |->
                           LET e == IF g \in DOMAIN grams THEN grams[g] ELSE NewEntry
                           IN IF g \in endings THEN Bumped(e, s) ELSE e]
  <2>1. IsFiniteSet(L)
    <3>1. NMin \in Int /\ NMax \in Int /\ L \subseteq NMin..NMax
      BY SequenceConstants
    <3> HIDE DEF L
    <3>2. QED
      BY <3>1, FS_Interval, FS_Subset
  <2>2. IsFiniteSet(endings)
    <3> DEFINE f == [n \in L |-> Ending(seq, n)]
    <3> HIDE DEF seq, L
    <3>1. f \in Surjection(L, endings)
      BY DEF Surjection
    <3> HIDE DEF f, endings
    <3>2. QED
      BY <2>1, <3>1, FS_Surjection
  <2>3. PICK ts : SaveSignals(counted, ts)
    BY <1>2 DEF ApplyEvent
  <2>4. DOMAIN counted = DOMAIN grams \union endings
    OBVIOUS
  <2> HIDE DEF counted, endings
  <2>5. IsFiniteSet(DOMAIN counted)
    BY <2>2, <2>4, FS_Union
  <2>6. QED
    BY <1>1, <2>3, <2>5
<1>3. CASE DayPasses
  BY <1>3 DEF DayPasses
<1>4. CASE Detect
  BY <1>4 DEF Detect
<1>5. CASE MarkProposed
  <2> DEFINE gs == [g \in DOMAIN grams |-> IF g \in found THEN [grams[g] EXCEPT !.proposed = today] ELSE grams[g]]
  <2>1. UNCHANGED grams \/ SaveSignals(gs, tails)
    BY <1>5 DEF MarkProposed
  <2>2. DOMAIN gs = DOMAIN grams
    OBVIOUS
  <2> HIDE DEF gs
  <2>3. QED
    BY <1>1, <2>1, <2>2
<1>6. CASE UNCHANGED sequenceVars
  BY <1>6 DEF sequenceVars
<1>7. QED
  BY <1>2, <1>3, <1>4, <1>5, <1>6 DEF SequenceNext

\* Ranked with ties in any order, the candidates always leave patterns of which
\* none stands in another's loop and every other candidate does: the greedy
\* choice of _detect_tool_sequence is one of them.
THEOREM PatternsAlwaysChosen == SequenceSpec => [](Patterns(Pruned(grams)) # {})
<1> DEFINE Inv == EvidenceInv /\ IsFiniteSet(DOMAIN grams)
<1>1. SequenceInit => Inv
  <2>1. SequenceInit => DOMAIN grams = {}
    BY DEF SequenceInit
  <2>2. QED
    BY <2>1, StartsShowing, FS_EmptySet
<1>2. Inv /\ [SequenceNext]_sequenceVars => Inv'
  BY StepsShow, StaysFinite
<1>3. Inv => Patterns(Pruned(grams)) # {}
  <2> SUFFICES ASSUME Inv PROVE Patterns(Pruned(grams)) # {}
    OBVIOUS
  <2>1. GramsTyped(grams) /\ today \in Days
    BY DEF EvidenceInv, SequenceInv, SequenceTyped
  <2>2. DOMAIN Pruned(grams) \subseteq DOMAIN grams /\ GramsTyped(Pruned(grams))
    BY <2>1 DEF Pruned, GramsTyped
  <2>3. IsFiniteSet(DOMAIN Pruned(grams))
    BY <2>2, FS_Subset
  <2>4. QED
    BY <2>1, <2>2, <2>3, ProposesSome
<1>4. QED
  BY <1>1, <1>2, <1>3, PTL DEF SequenceSpec

=============================================================================
