------------------------------ MODULE Proposals ------------------------------
(***************************************************************************)
(* The learner and the review of what it proposes                          *)
(* (sibyl_memory_client/learning.py, lifecycle/proposals.py).  Every agent *)
(* host starts a learner in a thread of its own, so runs of several        *)
(* processes overlap with each other, with people who accept or reject     *)
(* proposals, and die with their host.  Nothing locks a run: each of its   *)
(* reads and each inserted proposal is a transaction by itself.            *)
(*                                                                         *)
(* A journal event is the pattern it belongs to; a pattern is its slug.    *)
(* Confidence, evidence and texts are abstracted: any candidates may rank  *)
(* first, and any of them may be of a muted kind.  Time is a coarse clock. *)
(***************************************************************************)
EXTENDS Naturals, Sequences, FiniteSets

CONSTANTS
    Learners, Reviewers,
    Slugs,
    Signals,                           \* the slugs that the signal detectors find, outside the journal
    MinHits,                           \* min_pattern_hits
    BatchCap,                          \* _MAX_EVENTS_PER_RUN
    MaxPerRun,                         \* max_proposals_per_run
    CoolOff,                           \* REJECT_COOL_OFF_DAYS
    MuteCount,                         \* REJECT_MUTE_COUNT
    MaxEvents, MaxProposals, MaxTime   \* bounds

ASSUME ConstantsAssumption ==
    /\ Signals \subseteq Slugs
    /\ MinHits \in Nat \ {0} /\ BatchCap \in Nat \ {0} /\ MaxPerRun \in Nat \ {0}
    /\ CoolOff \in Nat /\ MuteCount \in Nat \ {0}
    /\ MaxEvents \in Nat /\ MaxProposals \in Nat /\ MaxTime \in Nat \ {0}

VARIABLES
    journal,     \* journal_events by rowid
    proposals,   \* skill_proposals in the order they were inserted
    skills,      \* skill/<slug> documents: the proposal that wrote each, 0 none
    runs,        \* learning_runs that carry a cursor
    unmuted,     \* state file: when a slug was last unmuted, 0 never
    now,
    learner,     \* what each run holds in memory
    reviewing,   \* the proposal each reviewer found pending, 0 none
    passed,      \* history: rowids a logged run had loaded, or a since left out
    met          \* history: learners that ran at the same time as another

vars == <<journal, proposals, skills, runs, unmuted, now, learner, reviewing,
          passed, met>>
store == <<journal, proposals, skills, runs>>
history == <<passed, met>>

Times == 1..MaxTime
Statuses == {"pending", "accepted", "rejected", "superseded"}
Closed == {"rejected", "superseded"}
Proposal == [slug : Slugs, status : Statuses, created : Times, reviewed : 0..MaxTime]
Run == [pc : {"idle", "watermark", "load", "pending", "blocked", "insert", "log"},
        started : 0..MaxTime, unmuted : [Slugs -> 0..MaxTime],
        from : 0..Len(journal), after : 0..Len(journal), seen : 0..Len(journal),
        todo : SUBSET Slugs]

NeverUnmuted == [s \in Slugs |-> 0]
Idle == [pc |-> "idle", started |-> 0, unmuted |-> NeverUnmuted,
         from |-> 0, after |-> 0, seen |-> 0, todo |-> {}]
Running(l) == learner[l].pc # "idle"

TypeOK ==
    /\ journal \in Seq(Slugs)
    /\ proposals \in Seq(Proposal)
    /\ skills \in [Slugs -> 0..Len(proposals)]
    /\ runs \subseteq [started : 0..MaxTime, cursor : 1..Len(journal)]
    /\ unmuted \in [Slugs -> 0..MaxTime]
    /\ now \in Times
    /\ learner \in [Learners -> Run]
    /\ reviewing \in [Reviewers -> 0..Len(proposals)]
    /\ passed \subseteq Nat /\ met \subseteq Learners

Init ==
    /\ journal = <<>> /\ proposals = <<>> /\ runs = {}
    /\ skills = [s \in Slugs |-> 0] /\ unmuted = NeverUnmuted /\ now = 1
    /\ learner = [l \in Learners |-> Idle]
    /\ reviewing = [v \in Reviewers |-> 0]
    /\ passed = {} /\ met = {}

(* ------------------------------ a learner run ------------------------- *)

\* run_learner loads the state file and calls Learner.run, which notes the time.
StartRun(l) ==
    /\ ~Running(l)
    /\ learner' = [learner EXCEPT ![l] = [Idle EXCEPT !.pc = "watermark",
                                            !.started = now, !.unmuted = unmuted]]
    /\ met' = IF \E m \in Learners \ {l} : Running(m)
                THEN met \union {l} \union {m \in Learners : Running(m)} ELSE met
    /\ UNCHANGED <<store, unmuted, now, reviewing, passed>>

\* _last_watermark_rowid: the cursor of the run that started last, of those
\* that finished; the clock does not tell runs of the same moment apart.
Latest(r) == r \in runs /\ \A q \in runs : q.started <= r.started

ReadWatermark(l) ==
    /\ learner[l].pc = "watermark"
    /\ \E n \in IF runs = {} THEN {0} ELSE {r.cursor : r \in {q \in runs : Latest(q)}} :
         learner' = [learner EXCEPT ![l].pc = "load", ![l].from = n, ![l].after = n]
    /\ UNCHANGED <<store, unmuted, now, reviewing, history>>

\* run(since=...): the events after a moment, and no watermark.  The journal is
\* in the order of time: backdated events are left out.
UseSince(l) ==
    /\ learner[l].pc = "watermark"
    /\ \E n \in 0..Len(journal) :
         /\ learner' = [learner EXCEPT ![l].pc = "load", ![l].from = n]
         /\ passed' = passed \union 1..n
    /\ UNCHANGED <<store, unmuted, now, reviewing, met>>

BatchEnd(from) == IF from + BatchCap < Len(journal) THEN from + BatchCap ELSE Len(journal)

Found(from, to) ==
    {s \in Slugs \ Signals : Cardinality({n \in from + 1 .. to : journal[n] = s}) >= MinHits}

\* The first max_proposals_per_run of the ranking, cut before anything known is
\* taken out of it, less the muted kinds.
Ranked(candidates) ==
    {ranked \in SUBSET candidates :
        \E top \in SUBSET candidates :
            /\ ranked \subseteq top
            /\ Cardinality(top) <= MaxPerRun
            /\ top = candidates \/ Cardinality(top) = MaxPerRun}

\* _load_events and the detectors; with nothing new only the run is logged.
LoadEvents(l) ==
    LET from == learner[l].from
        end == BatchEnd(from)
    IN /\ learner[l].pc = "load"
       /\ \E found \in SUBSET Signals :
            IF end = from /\ found = {}
              THEN learner' = [learner EXCEPT ![l].pc = "log", ![l].seen = end]
              ELSE \E ranked \in Ranked(Found(from, end) \union found) :
                     learner' = [learner EXCEPT ![l].pc = "pending", ![l].seen = end,
                                                ![l].todo = ranked]
       /\ UNCHANGED <<store, unmuted, now, reviewing, history>>

Of(s) == {i \in DOMAIN proposals : proposals[i].slug = s}
WithStatus(s, status) == {i \in Of(s) : proposals[i].status = status}

\* _pending_slugs, read before _blocked_slugs: a proposal accepted or rejected
\* between the two is in both.
ReadPending(l) ==
    /\ learner[l].pc = "pending"
    /\ learner' = [learner EXCEPT ![l].pc = "blocked",
                     ![l].todo = {s \in @ : WithStatus(s, "pending") = {}}]
    /\ UNCHANGED <<store, unmuted, now, reviewing, history>>

\* The rejections of s that count: those after the last unmute.
Rejections(s, since) == {i \in WithStatus(s, "rejected") : proposals[i].reviewed > since}

\* Mutant: what was accepted may be proposed again.
BlockedUnlessAccepted(s, since) ==
    \/ \E i \in Rejections(s, since) : now - proposals[i].reviewed < CoolOff
    \/ Cardinality(Rejections(s, since)) >= MuteCount

\* Mutant: a rejection counts once its cool-off is over.
BlockedLate(s, since) ==
    \/ WithStatus(s, "accepted") # {}
    \/ Cardinality({i \in Rejections(s, since) :
                      now - proposals[i].reviewed >= CoolOff}) >= MuteCount

Blocked(s, since) ==
    \/ WithStatus(s, "accepted") # {}
    \/ \E i \in Rejections(s, since) : now - proposals[i].reviewed < CoolOff
    \/ Cardinality(Rejections(s, since)) >= MuteCount

ReadBlocked(l) ==
    /\ learner[l].pc = "blocked"
    /\ learner' = [learner EXCEPT ![l].pc = "insert",
                     ![l].todo = {s \in @ : ~Blocked(s, learner[l].unmuted[s])}]
    /\ UNCHANGED <<store, unmuted, now, reviewing, history>>

\* _insert_proposal, one transaction each; no key forbids a second row of a slug.
InsertProposal(l, s) ==
    /\ learner[l].pc = "insert" /\ s \in learner[l].todo
    /\ Len(proposals) < MaxProposals
    /\ proposals' = Append(proposals, [slug |-> s, status |-> "pending",
                                       created |-> now, reviewed |-> 0])
    /\ learner' = [learner EXCEPT ![l].todo = @ \ {s}]
    /\ UNCHANGED <<journal, skills, runs, unmuted, now, reviewing, history>>

\* Mutant: the cursor is the end of the journal, not of what was loaded.
CursorAtEnd(l) == Len(journal)

\* The last row loaded, else the watermark the run began from; 0 is NULL.
Cursor(l) == IF learner[l].seen > learner[l].from THEN learner[l].seen
             ELSE learner[l].after

LogRun(l) ==
    /\ \/ learner[l].pc = "log"
       \/ learner[l].pc = "insert" /\ learner[l].todo = {}
    /\ runs' = IF Cursor(l) = 0 THEN runs
               ELSE runs \union {[started |-> learner[l].started, cursor |-> Cursor(l)]}
    /\ passed' = passed \union (learner[l].from + 1 .. learner[l].seen)
    /\ learner' = [learner EXCEPT ![l] = Idle]
    /\ UNCHANGED <<journal, proposals, skills, unmuted, now, reviewing, met>>

\* The daemon thread dies with its host; what it inserted stays, unlogged.
Die(l) ==
    /\ Running(l)
    /\ learner' = [learner EXCEPT ![l] = Idle]
    /\ UNCHANGED <<store, unmuted, now, reviewing, history>>

(* -------------------------------- review ------------------------------ *)

\* get_proposal, outside the transaction that decides.
LookAt(v, i) ==
    /\ reviewing[v] = 0 /\ proposals[i].status = "pending"
    /\ reviewing' = [reviewing EXCEPT ![v] = i]
    /\ UNCHANGED <<store, unmuted, now, learner, history>>

SetStatus(i, status) ==
    proposals' = [proposals EXCEPT ![i].status = status, ![i].reviewed = now]

\* The document and the status in one transaction, for a pending row only.
Accept(v) ==
    LET i == reviewing[v]
    IN /\ i # 0 /\ proposals[i].status = "pending"
       /\ SetStatus(i, "accepted")
       /\ skills' = [skills EXCEPT ![proposals[i].slug] = i]
       /\ reviewing' = [reviewing EXCEPT ![v] = 0]
       /\ UNCHANGED <<journal, runs, unmuted, now, learner, history>>

Reject(v) ==
    LET i == reviewing[v]
    IN /\ i # 0 /\ proposals[i].status = "pending"
       /\ SetStatus(i, "rejected")
       /\ reviewing' = [reviewing EXCEPT ![v] = 0]
       /\ UNCHANGED <<journal, skills, runs, unmuted, now, learner, history>>

\* The cap gate refused, the row was reviewed by somebody else, or the caller died.
GiveUp(v) ==
    /\ reviewing[v] # 0
    /\ reviewing' = [reviewing EXCEPT ![v] = 0]
    /\ UNCHANGED <<store, unmuted, now, learner, history>>

\* _delete_reference of a skill: what was accepted as it is superseded.
DeleteSkill(s) ==
    /\ skills[s] # 0
    /\ skills' = [skills EXCEPT ![s] = 0]
    /\ proposals' = [i \in DOMAIN proposals |->
                       IF i \in WithStatus(s, "accepted")
                         THEN [proposals[i] EXCEPT !.status = "superseded"]
                         ELSE proposals[i]]
    /\ UNCHANGED <<journal, runs, unmuted, now, learner, reviewing, history>>

\* sibyl skills proposals unmute <slug>
Unmute(s) ==
    /\ unmuted' = [unmuted EXCEPT ![s] = now]
    /\ UNCHANGED <<store, now, learner, reviewing, history>>

(* ------------------------------ surroundings -------------------------- *)

WriteEvent(s) ==
    /\ Len(journal) < MaxEvents
    /\ journal' = Append(journal, s)
    /\ UNCHANGED <<proposals, skills, runs, unmuted, now, learner, reviewing, history>>

Tick ==
    /\ now < MaxTime /\ now' = now + 1
    /\ UNCHANGED <<store, unmuted, learner, reviewing, history>>

LearnerStep(l) ==
    \/ StartRun(l) \/ ReadWatermark(l) \/ UseSince(l) \/ LoadEvents(l)
    \/ ReadPending(l) \/ ReadBlocked(l)
    \/ \E s \in Slugs : InsertProposal(l, s)
    \/ LogRun(l) \/ Die(l)

ReviewerStep(v) ==
    \/ \E i \in DOMAIN proposals : LookAt(v, i)
    \/ Accept(v) \/ Reject(v) \/ GiveUp(v)

Next ==
    \/ \E l \in Learners : LearnerStep(l)
    \/ \E v \in Reviewers : ReviewerStep(v)
    \/ \E s \in Slugs : DeleteSkill(s) \/ Unmute(s)
    \/ \E s \in Slugs \ Signals : WriteEvent(s)
    \/ Tick

Spec == Init /\ [][Next]_vars

(* ----------------------------- properties ----------------------------- *)

Earlier(j) == {i \in 1 .. j - 1 : proposals[i].slug = proposals[j].slug}

\* A pattern is not proposed while a proposal of it is pending or accepted,
\* whatever reviewers do between the reads of a run and wherever runs die, as
\* long as no two runs ever overlapped (Learner.run).
AskedOnce ==
    met = {} => \A j \in DOMAIN proposals : \A i \in Earlier(j) :
                   proposals[i].status \in Closed

\* A rejected pattern comes back only after its cool-off, and not at all after
\* MuteCount rejections, unless it was unmuted since (_blocked_slugs).
RejectionHeeded ==
    met = {} => \A j \in DOMAIN proposals :
        LET against == {i \in Earlier(j) :
                          /\ proposals[i].status = "rejected"
                          /\ proposals[i].reviewed > unmuted[proposals[j].slug]}
        IN /\ \A i \in against : proposals[j].created - proposals[i].reviewed >= CoolOff
           /\ Cardinality(against) < MuteCount

\* However runs overlap, die and drain a backlog in batches, no cursor passes an
\* event that no logged run has loaded; only a since can jump over one.
NothingSkipped == \A r \in runs : 1..r.cursor \subseteq passed

\* A review is final: of two reviewers of one proposal, in whatever order they
\* look and decide, one succeeds (accept_proposal, reject_proposal).
ReviewIsFinal ==
    [][\A i \in DOMAIN proposals :
         \/ proposals'[i] = proposals[i]
         \/ proposals[i].status = "pending"
         \/ proposals[i].status = "accepted" /\ proposals'[i].status = "superseded"]_vars

\* A skill document was written by a proposal of its slug that is accepted, and
\* an accepted proposal has its document (accept_proposal, _delete_reference).
SkillsAreAccepted ==
    /\ \A s \in Slugs : skills[s] # 0 => skills[s] \in WithStatus(s, "accepted")
    /\ \A i \in DOMAIN proposals :
         proposals[i].status = "accepted" => skills[proposals[i].slug] # 0

=============================================================================
