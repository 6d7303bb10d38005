-------------------------- MODULE Proposals_proofs --------------------------
(***************************************************************************)
(* Proofs about Proposals, for any learners, reviewers, patterns, batch    *)
(* sizes and bounds.                                                       *)
(***************************************************************************)
EXTENDS Proposals, FiniteSetTheorems, TLAPS

USE ConstantsAssumption

(* ------------------------------ types --------------------------------- *)

\* What a decision of a reviewer does to the table.
LEMMA SetStatusType ==
    ASSUME TypeOK, NEW i \in DOMAIN proposals, NEW status \in Statuses, SetStatus(i, status)
    PROVE  /\ proposals' \in Seq(Proposal)
           /\ Len(proposals') = Len(proposals) /\ DOMAIN proposals' = DOMAIN proposals
           /\ proposals'[i].slug = proposals[i].slug /\ proposals'[i].status = status
           /\ proposals'[i].created = proposals[i].created
           /\ \A j \in DOMAIN proposals : j # i => proposals'[j] = proposals[j]
<1>0. now \in Times /\ now \in 0..MaxTime BY DEF TypeOK, Times
<1>1. proposals[i] \in Proposal BY DEF TypeOK
<1> DEFINE p == [proposals[i] EXCEPT !.status = status, !.reviewed = now]
<1>2. p \in Proposal BY <1>0, <1>1 DEF Proposal
<1>3. p.slug = proposals[i].slug /\ p.status = status /\ p.created = proposals[i].created
  BY <1>1 DEF Proposal
<1>4. proposals' = [proposals EXCEPT ![i] = p]
  BY DEF SetStatus, TypeOK
<1> HIDE DEF p
<1> QED BY <1>2, <1>3, <1>4 DEF TypeOK

\* What deleting a skill document does to the table.
LEMMA DeleteSkillType ==
    ASSUME TypeOK, NEW s \in Slugs, DeleteSkill(s)
    PROVE  /\ proposals' \in Seq(Proposal)
           /\ Len(proposals') = Len(proposals) /\ DOMAIN proposals' = DOMAIN proposals
           /\ \A i \in DOMAIN proposals :
                /\ proposals'[i].slug = proposals[i].slug
                /\ proposals'[i].created = proposals[i].created
                /\ IF proposals[i].slug = s /\ proposals[i].status = "accepted"
                     THEN proposals'[i].status = "superseded"
                     ELSE proposals'[i] = proposals[i]
<1> DEFINE p(i) == IF i \in WithStatus(s, "accepted")
                     THEN [proposals[i] EXCEPT !.status = "superseded"] ELSE proposals[i]
<1>1. proposals' = [i \in DOMAIN proposals |-> p(i)] BY DEF DeleteSkill
<1>2. \A i \in DOMAIN proposals : proposals[i] \in Proposal BY DEF TypeOK
<1>3. \A i \in DOMAIN proposals :
        /\ p(i) \in Proposal
        /\ p(i).slug = proposals[i].slug /\ p(i).created = proposals[i].created
        /\ IF proposals[i].slug = s /\ proposals[i].status = "accepted"
             THEN p(i).status = "superseded" ELSE p(i) = proposals[i]
  BY <1>2 DEF Proposal, Statuses, WithStatus, Of
<1> HIDE DEF p
<1>4. DOMAIN proposals = 1..Len(proposals) BY DEF TypeOK
<1>5. proposals' \in Seq(Proposal) /\ Len(proposals') = Len(proposals)
  BY <1>1, <1>3, <1>4 DEF TypeOK
<1> QED BY <1>1, <1>3, <1>5

\* What inserting a proposal does to the table.
LEMMA InsertType ==
    ASSUME TypeOK, NEW l \in Learners, NEW s \in Slugs, InsertProposal(l, s)
    PROVE  /\ proposals' \in Seq(Proposal)
           /\ Len(proposals') = Len(proposals) + 1
           /\ \A i \in DOMAIN proposals : proposals'[i] = proposals[i]
           /\ proposals'[Len(proposals) + 1].slug = s
           /\ proposals'[Len(proposals) + 1].status = "pending"
           /\ proposals'[Len(proposals) + 1].created = now
<1> DEFINE p == [slug |-> s, status |-> "pending", created |-> now, reviewed |-> 0]
<1>1. p \in Proposal BY DEF TypeOK, Proposal, Statuses, Times
<1>2. proposals' = Append(proposals, p) BY DEF InsertProposal
<1>3. p.slug = s /\ p.status = "pending" /\ p.created = now OBVIOUS
<1> HIDE DEF p
<1> QED BY <1>1, <1>2, <1>3 DEF TypeOK

LEMMA StepTyped == TypeOK /\ [Next]_vars => TypeOK'
<1> SUFFICES ASSUME TypeOK, [Next]_vars PROVE TypeOK'
  OBVIOUS
<1>0. /\ Len(journal) \in Nat /\ Len(proposals) \in Nat
      /\ now \in Times /\ now \in 0..MaxTime /\ unmuted \in [Slugs -> 0..MaxTime]
  BY DEF TypeOK, Times
<1>i. Idle \in Run BY <1>0 DEF Idle, Run, NeverUnmuted
<1>1. ASSUME NEW l \in Learners, LearnerStep(l) PROVE TypeOK'
  <2>0. learner[l] \in Run BY DEF TypeOK
  <2>1. CASE StartRun(l)
    <3>1. [Idle EXCEPT !.pc = "watermark", !.started = now, !.unmuted = unmuted] \in Run
      BY <1>0, <1>i DEF Run
    <3> QED BY <2>1, <3>1 DEF StartRun, TypeOK, store, Run
  <2>2. CASE ReadWatermark(l)
    <3>1. PICK n \in IF runs = {} THEN {0} ELSE {r.cursor : r \in {q \in runs : Latest(q)}} :
            learner' = [learner EXCEPT ![l].pc = "load", ![l].from = n, ![l].after = n]
      BY <2>2 DEF ReadWatermark
    <3>2. n \in 0..Len(journal) BY <1>0 DEF TypeOK
    <3>3. [learner[l] EXCEPT !.pc = "load", !.from = n, !.after = n] \in Run
      BY <2>0, <3>2 DEF Run
    <3>4. learner' \in [Learners -> Run] BY <3>1, <3>3 DEF TypeOK
    <3> QED BY <2>2, <3>4 DEF ReadWatermark, TypeOK, store, history, Run
  <2>3. CASE UseSince(l)
    <3>1. PICK n \in 0..Len(journal) :
            /\ learner' = [learner EXCEPT ![l].pc = "load", ![l].from = n]
            /\ passed' = passed \union 1..n
      BY <2>3 DEF UseSince
    <3>2. [learner[l] EXCEPT !.pc = "load", !.from = n] \in Run
      BY <2>0, <3>1 DEF Run
    <3>3. passed' \subseteq Nat BY <1>0, <3>1 DEF TypeOK
    <3> QED BY <2>3, <3>1, <3>2, <3>3 DEF UseSince, TypeOK, store, Run
  <2>4. CASE LoadEvents(l)
    <3> DEFINE end == BatchEnd(learner[l].from)
    <3>1. end \in 0..Len(journal) BY <1>0, <2>0 DEF BatchEnd, Run
    <3>2. PICK found \in SUBSET Signals :
            IF end = learner[l].from /\ found = {}
              THEN learner' = [learner EXCEPT ![l].pc = "log", ![l].seen = end]
              ELSE \E ranked \in Ranked(Found(learner[l].from, end) \union found) :
                     learner' = [learner EXCEPT ![l].pc = "pending", ![l].seen = end,
                                                ![l].todo = ranked]
      BY <2>4 DEF LoadEvents
    <3>3. Found(learner[l].from, end) \union found \in SUBSET Slugs
      BY DEF Found
    <3> HIDE DEF end
    <3>4. [learner[l] EXCEPT !.pc = "log", !.seen = end] \in Run BY <2>0, <3>1 DEF Run
    <3>5. \A ranked \in Ranked(Found(learner[l].from, end) \union found) :
            [learner[l] EXCEPT !.pc = "pending", !.seen = end, !.todo = ranked] \in Run
      BY <2>0, <3>1, <3>3 DEF Run, Ranked
    <3>6. learner \in [Learners -> Run] BY DEF TypeOK
    <3>7. ASSUME end = learner[l].from /\ found = {} PROVE learner' \in [Learners -> Run]
      BY <3>2, <3>4, <3>6, <3>7 DEF Run
    <3>8. ASSUME ~(end = learner[l].from /\ found = {}) PROVE learner' \in [Learners -> Run]
    <4>1. PICK ranked \in Ranked(Found(learner[l].from, end) \union found) :
            learner' = [learner EXCEPT ![l].pc = "pending", ![l].seen = end, ![l].todo = ranked]
      BY <3>2, <3>8
    <4>2. [learner[l] EXCEPT !.pc = "pending", !.seen = end, !.todo = ranked] \in Run
      BY <3>5
    <4> QED BY <3>6, <4>1, <4>2 DEF Run
    <3>9. learner' \in [Learners -> Run] BY <3>7, <3>8
    <3> QED BY <2>4, <3>9 DEF LoadEvents, TypeOK, store, history, Run
  <2>5. CASE ReadPending(l)
    <3>1. [learner[l] EXCEPT !.pc = "blocked",
             !.todo = {s \in learner[l].todo : WithStatus(s, "pending") = {}}] \in Run
      BY <2>0 DEF Run
    <3> QED BY <2>5, <3>1 DEF ReadPending, TypeOK, store, history, Run
  <2>6. CASE ReadBlocked(l)
    <3>1. [learner[l] EXCEPT !.pc = "insert",
             !.todo = {s \in learner[l].todo : ~Blocked(s, learner[l].unmuted[s])}] \in Run
      BY <2>0 DEF Run
    <3> QED BY <2>6, <3>1 DEF ReadBlocked, TypeOK, store, history, Run
  <2>7. ASSUME NEW s \in Slugs, InsertProposal(l, s) PROVE TypeOK'
    <3>1. [learner[l] EXCEPT !.todo = learner[l].todo \ {s}] \in Run BY <2>0 DEF Run
    <3>2. proposals' \in Seq(Proposal) /\ Len(proposals') = Len(proposals) + 1
      BY <2>7, InsertType
    <3>3. skills' \in [Slugs -> 0..Len(proposals')] /\ reviewing' \in [Reviewers -> 0..Len(proposals')]
      BY SMTT(30), <1>0, <2>7, <3>2 DEF InsertProposal, TypeOK
    <3> QED BY <2>7, <3>1, <3>2, <3>3 DEF InsertProposal, TypeOK, history, Run
  <2>8. CASE LogRun(l)
    <3>1. Cursor(l) \in 0..Len(journal) BY <2>0 DEF Cursor, Run
    <3>2. learner[l].started \in 0..MaxTime BY <2>0 DEF Run
    <3>3. runs' \subseteq [started : 0..MaxTime, cursor : 1..Len(journal)]
      BY <1>0, <2>8, <3>1, <3>2 DEF LogRun, TypeOK
    <3> DEFINE loaded == learner[l].from + 1 .. learner[l].seen
    <3>4. learner[l].from \in Nat /\ learner[l].seen \in Nat BY <1>0, <2>0 DEF Run
    <3>5. loaded \subseteq Nat BY <3>4
    <3> HIDE DEF loaded
    <3>6. passed' = passed \union loaded BY <2>8 DEF LogRun, loaded
    <3>7. passed' \subseteq Nat BY <3>5, <3>6 DEF TypeOK
    <3> QED BY <1>i, <2>8, <3>3, <3>7 DEF LogRun, TypeOK, Run
  <2>9. CASE Die(l)
    BY <1>i, <2>9 DEF Die, TypeOK, store, history, Run
  <2> QED BY <1>1, <2>1, <2>2, <2>3, <2>4, <2>5, <2>6, <2>7, <2>8, <2>9 DEF LearnerStep
<1>2. ASSUME NEW v \in Reviewers, ReviewerStep(v) PROVE TypeOK'
  <2>0. DOMAIN proposals = 1..Len(proposals) BY DEF TypeOK
  <2>1. ASSUME NEW i \in DOMAIN proposals, LookAt(v, i) PROVE TypeOK'
    BY SMTT(30), <1>0, <2>0, <2>1 DEF LookAt, TypeOK, store, history, Run
  <2>2. ASSUME reviewing[v] # 0 PROVE reviewing[v] \in DOMAIN proposals
    BY <1>0, <2>0, <2>2 DEF TypeOK
  <2>3. CASE Accept(v)
    <3>1. SetStatus(reviewing[v], "accepted") /\ reviewing[v] \in DOMAIN proposals
      BY <2>2, <2>3 DEF Accept
    <3>2. proposals' \in Seq(Proposal) /\ Len(proposals') = Len(proposals)
      BY <3>1, SetStatusType DEF Statuses
    <3>3. reviewing[v] \in 0..Len(proposals) BY DEF TypeOK
    <3>4. skills' \in [Slugs -> 0..Len(proposals)]
      BY <2>3, <3>3 DEF Accept, TypeOK
    <3>5. reviewing' \in [Reviewers -> 0..Len(proposals)]
      BY <1>0, <2>3 DEF Accept, TypeOK
    <3> QED BY <2>3, <3>2, <3>4, <3>5 DEF Accept, TypeOK, history, Run
  <2>4. CASE Reject(v)
    <3>1. SetStatus(reviewing[v], "rejected") /\ reviewing[v] \in DOMAIN proposals
      BY <2>2, <2>4 DEF Reject
    <3>2. proposals' \in Seq(Proposal) /\ Len(proposals') = Len(proposals)
      BY <3>1, SetStatusType DEF Statuses
    <3>3. reviewing' \in [Reviewers -> 0..Len(proposals')]
      BY <1>0, <2>4, <3>2 DEF Reject, TypeOK
    <3> QED BY <2>4, <3>2, <3>3 DEF Reject, TypeOK, history, Run
  <2>5. CASE GiveUp(v)
    BY SMTT(30), <1>0, <2>5 DEF GiveUp, TypeOK, store, history, Run
  <2> QED BY <1>2, <2>1, <2>3, <2>4, <2>5 DEF ReviewerStep
<1>3. ASSUME NEW s \in Slugs, DeleteSkill(s) PROVE TypeOK'
  <2>1. proposals' \in Seq(Proposal) /\ Len(proposals') = Len(proposals)
    BY <1>3, DeleteSkillType
  <2>2. skills' \in [Slugs -> 0..Len(proposals)]
    BY <1>0, <1>3 DEF DeleteSkill, TypeOK
  <2>3. UNCHANGED <<journal, runs, unmuted, now, learner, reviewing, passed, met>>
    BY <1>3 DEF DeleteSkill, history
  <2> QED BY <2>1, <2>2, <2>3 DEF TypeOK, Run
<1>4. ASSUME NEW s \in Slugs, Unmute(s) PROVE TypeOK'
  BY SMTT(30), <1>4 DEF Unmute, TypeOK, store, history, Times, Run
<1>5. ASSUME NEW s \in Slugs, WriteEvent(s) PROVE TypeOK'
  <2>1. journal' \in Seq(Slugs) /\ Len(journal') = Len(journal) + 1
    BY <1>5 DEF WriteEvent, TypeOK
  <2>2. 0..Len(journal) \subseteq 0..Len(journal') /\ 1..Len(journal) \subseteq 1..Len(journal')
    BY <1>0, <2>1
  <2>3. \A l \in Learners : learner[l] \in Run' BY <2>2 DEF TypeOK, Run
  <2>4. runs \subseteq [started : 0..MaxTime, cursor : 1..Len(journal')] BY <2>2 DEF TypeOK
  <2> QED BY <1>5, <2>1, <2>3, <2>4 DEF WriteEvent, TypeOK, history
<1>6. CASE Tick
  BY <1>6 DEF Tick, TypeOK, store, history, Times, Run
<1>7. CASE UNCHANGED vars
  BY <1>7 DEF vars, TypeOK, Run
<1> QED BY <1>1, <1>2, <1>3, <1>4, <1>5, <1>6, <1>7 DEF Next

LEMMA InitTyped == ASSUME Init PROVE TypeOK
BY DEF Init, TypeOK, Idle, Run, NeverUnmuted, Times, Proposal

\* Every variable keeps its type; no cursor points past the journal.
THEOREM TypeCorrect == Spec => []TypeOK
<1> QED BY InitTyped, StepTyped, PTL DEF Spec

(* ------------------------------ review -------------------------------- *)

\* Decisions of reviewers and deletes of documents are the only steps that
\* change a proposal that exists.
LEMMA StepReviews ==
    ASSUME TypeOK, [Next]_vars, NEW i \in DOMAIN proposals
    PROVE  \/ proposals'[i] = proposals[i]
           \/ proposals[i].status = "pending"
           \/ proposals[i].status = "accepted" /\ proposals'[i].status = "superseded"
<1>0. DOMAIN proposals = 1..Len(proposals) BY DEF TypeOK
<1>1. ASSUME NEW l \in Learners, NEW s \in Slugs, InsertProposal(l, s)
      PROVE  proposals'[i] = proposals[i]
  BY <1>1, InsertType
<1>2. ASSUME NEW v \in Reviewers, Accept(v) \/ Reject(v)
      PROVE  proposals'[i] = proposals[i] \/ proposals[i].status = "pending"
  <2> DEFINE k == reviewing[v]
  <2>1. k \in DOMAIN proposals /\ proposals[k].status = "pending"
    BY <1>0, <1>2 DEF Accept, Reject, TypeOK
  <2>2. PICK status \in Statuses : SetStatus(k, status)
    BY <1>2 DEF Accept, Reject, Statuses
  <2>3. i # k => proposals'[i] = proposals[i] BY <2>1, <2>2, SetStatusType
  <2> QED BY <2>1, <2>3
<1>3. ASSUME NEW s \in Slugs, DeleteSkill(s)
      PROVE  \/ proposals'[i] = proposals[i]
             \/ proposals[i].status = "accepted" /\ proposals'[i].status = "superseded"
  BY <1>3, DeleteSkillType
<1>4. CASE UNCHANGED proposals BY <1>4
<1> QED
  BY <1>1, <1>2, <1>3, <1>4
  DEF Next, vars, LearnerStep, ReviewerStep, StartRun, ReadWatermark, UseSince, LoadEvents,
      ReadPending, ReadBlocked, LogRun, Die, LookAt, GiveUp, Unmute, WriteEvent, Tick, store

\* A proposal is reviewed once: what was decided changes only from accepted to
\* superseded, whichever reviewers raced for it.
THEOREM ReviewedOnce == Spec => ReviewIsFinal
<1>1. TypeOK /\ [Next]_vars =>
        [\A i \in DOMAIN proposals :
           \/ proposals'[i] = proposals[i]
           \/ proposals[i].status = "pending"
           \/ proposals[i].status = "accepted" /\ proposals'[i].status = "superseded"]_vars
  BY StepReviews
<1> QED BY <1>1, TypeCorrect, PTL DEF Spec, ReviewIsFinal

(* ----------------------------- watermark ------------------------------ *)

\* What a run began from was passed before: by a logged run, or by its since.
RunsFollow ==
    \A l \in Learners : /\ 1..learner[l].from \subseteq passed
                        /\ 1..learner[l].after \subseteq passed
ScanInv == NothingSkipped /\ RunsFollow

LEMMA StepScans == TypeOK /\ ScanInv /\ [Next]_vars => ScanInv'
<1> SUFFICES ASSUME TypeOK, ScanInv, [Next]_vars PROVE ScanInv'
  OBVIOUS
<1>0. /\ learner \in [Learners -> Run] /\ Len(journal) \in Nat
      /\ \A r \in runs : r.cursor \in Nat
  BY DEF TypeOK
<1>e. 1..0 = {} OBVIOUS
<1>1. ASSUME NEW l \in Learners, StartRun(l) \/ Die(l) PROVE ScanInv'
  <2> DEFINE begun == [Idle EXCEPT !.pc = "watermark", !.started = now, !.unmuted = unmuted]
  <2>a. /\ begun.from = 0 /\ begun.after = 0
        /\ Idle.from = 0 /\ Idle.after = 0
    BY DEF Idle
  <2>b. learner' = [learner EXCEPT ![l] = begun] \/ learner' = [learner EXCEPT ![l] = Idle]
    BY <1>1 DEF StartRun, Die
  <2> HIDE DEF begun
  <2>1. learner'[l].from = 0 /\ learner'[l].after = 0
    BY <1>0, <2>a, <2>b
  <2>2. \A m \in Learners \ {l} : learner'[m] = learner[m]
    BY <1>0, <1>1 DEF StartRun, Die
  <2>3. UNCHANGED <<runs, passed>> BY <1>1 DEF StartRun, Die, store, history
  <2> QED BY <1>e, <2>1, <2>2, <2>3 DEF ScanInv, NothingSkipped, RunsFollow
<1>2. ASSUME NEW l \in Learners, ReadWatermark(l) PROVE ScanInv'
  <2>1. PICK n \in IF runs = {} THEN {0} ELSE {r.cursor : r \in {q \in runs : Latest(q)}} :
          learner' = [learner EXCEPT ![l].pc = "load", ![l].from = n, ![l].after = n]
    BY <1>2 DEF ReadWatermark
  <2>2. 1..n \subseteq passed BY <1>e DEF ScanInv, NothingSkipped
  <2>3. learner'[l].from = n /\ learner'[l].after = n BY <1>0, <2>1 DEF Run
  <2>4. \A m \in Learners \ {l} : learner'[m] = learner[m] BY <1>0, <2>1
  <2>5. UNCHANGED <<runs, passed>> BY <1>2 DEF ReadWatermark, store, history
  <2> QED BY <2>2, <2>3, <2>4, <2>5 DEF ScanInv, NothingSkipped, RunsFollow
<1>3. ASSUME NEW l \in Learners, UseSince(l) PROVE ScanInv'
  <2>1. PICK n \in 0..Len(journal) :
          /\ learner' = [learner EXCEPT ![l].pc = "load", ![l].from = n]
          /\ passed' = passed \union 1..n
    BY <1>3 DEF UseSince
  <2>2. learner'[l].from = n /\ learner'[l].after = learner[l].after BY <1>0, <2>1 DEF Run
  <2>3. \A m \in Learners \ {l} : learner'[m] = learner[m] BY <1>0, <2>1
  <2>4. runs' = runs BY <1>3 DEF UseSince, store
  <2> QED BY <2>1, <2>2, <2>3, <2>4 DEF ScanInv, NothingSkipped, RunsFollow
<1>4. ASSUME NEW l \in Learners, LogRun(l) PROVE ScanInv'
  <2>1. learner[l].from \in Nat /\ learner[l].seen \in Nat /\ learner[l].after \in Nat
    BY <1>0 DEF Run
  <2>2. passed' = passed \union (learner[l].from + 1 .. learner[l].seen)
    BY <1>4 DEF LogRun
  <2>3. 1..Cursor(l) \subseteq passed'
    <3>1. CASE learner[l].seen > learner[l].from
      <4>1. \A k \in 1..learner[l].seen :
              k \in 1..learner[l].from \/ k \in learner[l].from + 1 .. learner[l].seen
        BY <2>1
      <4> QED BY <2>2, <3>1, <4>1 DEF Cursor, ScanInv, RunsFollow
    <3>2. CASE ~(learner[l].seen > learner[l].from)
      BY <2>2, <3>2 DEF Cursor, ScanInv, RunsFollow
    <3> QED BY <3>1, <3>2
  <2>4. \A r \in runs' : r \in runs \/ r.cursor = Cursor(l)
    BY <1>4 DEF LogRun
  <2>5. NothingSkipped' BY <2>2, <2>3, <2>4 DEF ScanInv, NothingSkipped
  <2>6. learner'[l].from = 0 /\ learner'[l].after = 0 BY <1>0, <1>4 DEF LogRun, Idle
  <2>7. \A m \in Learners \ {l} : learner'[m] = learner[m] BY <1>0, <1>4 DEF LogRun
  <2> QED BY <1>e, <2>2, <2>5, <2>6, <2>7 DEF ScanInv, RunsFollow
<1>5. ASSUME UNCHANGED <<runs, passed>>,
             \A l \in Learners : /\ learner'[l].from = learner[l].from
                                 /\ learner'[l].after = learner[l].after
      PROVE  ScanInv'
  BY <1>5 DEF ScanInv, NothingSkipped, RunsFollow
<1>6. ASSUME NEW l \in Learners, LoadEvents(l) PROVE ScanInv'
  <2>1. \A m \in Learners : /\ learner'[m].from = learner[m].from
                            /\ learner'[m].after = learner[m].after
    <3> DEFINE end == BatchEnd(learner[l].from)
    <3>1. PICK found \in SUBSET Signals :
            IF end = learner[l].from /\ found = {}
              THEN learner' = [learner EXCEPT ![l].pc = "log", ![l].seen = end]
              ELSE \E ranked \in Ranked(Found(learner[l].from, end) \union found) :
                     learner' = [learner EXCEPT ![l].pc = "pending", ![l].seen = end,
                                                ![l].todo = ranked]
      BY <1>6 DEF LoadEvents
    <3> HIDE DEF end
    <3>2. CASE learner' = [learner EXCEPT ![l].pc = "log", ![l].seen = end]
      BY <1>0, <3>2 DEF Run
    <3>3. ASSUME NEW ranked, learner' = [learner EXCEPT ![l].pc = "pending",
                                           ![l].seen = end, ![l].todo = ranked]
          PROVE  \A m \in Learners : /\ learner'[m].from = learner[m].from
                                     /\ learner'[m].after = learner[m].after
      BY <1>0, <3>3 DEF Run
    <3> QED BY <3>1, <3>2, <3>3
  <2> QED BY <1>5, <1>6, <2>1 DEF LoadEvents, store, history
<1>7. ASSUME NEW l \in Learners, ReadPending(l) \/ ReadBlocked(l) PROVE ScanInv'
  <2>0. \E pc, todo : learner' = [learner EXCEPT ![l].pc = pc, ![l].todo = todo]
    BY <1>7 DEF ReadPending, ReadBlocked
  <2>1. \A m \in Learners : /\ learner'[m].from = learner[m].from
                            /\ learner'[m].after = learner[m].after
    BY SMTT(30), <1>0, <2>0 DEF Run
  <2> QED BY <1>5, <1>7, <2>1 DEF ReadPending, ReadBlocked, store, history
<1>8. ASSUME NEW l \in Learners, NEW s \in Slugs, InsertProposal(l, s) PROVE ScanInv'
  <2>1. \A m \in Learners : /\ learner'[m].from = learner[m].from
                            /\ learner'[m].after = learner[m].after
    BY <1>0, <1>8 DEF InsertProposal, Run
  <2> QED BY <1>5, <1>8, <2>1 DEF InsertProposal, history
<1>9. CASE UNCHANGED <<runs, passed, learner>> BY <1>5, <1>9
<1> QED
  BY <1>1, <1>2, <1>3, <1>4, <1>6, <1>7, <1>8, <1>9
  DEF Next, vars, LearnerStep, ReviewerStep, LookAt, Accept, Reject, GiveUp, DeleteSkill, Unmute,
      WriteEvent, Tick, store, history

\* However many runs overlap, die and drain a backlog in batches, no cursor
\* passes an event no logged run has loaded, unless a since jumped over it.
THEOREM CursorsCover == Spec => []NothingSkipped
<1>1. Init => ScanInv BY DEF Init, ScanInv, NothingSkipped, RunsFollow, Idle
<1>2. ScanInv => NothingSkipped BY DEF ScanInv
<1> QED BY <1>1, <1>2, TypeCorrect, StepScans, PTL DEF Spec

(* ---------------------- documents and their proposals ----------------- *)

LEMMA StepSkills == TypeOK /\ SkillsAreAccepted /\ [Next]_vars => SkillsAreAccepted'
<1> SUFFICES ASSUME TypeOK, SkillsAreAccepted, [Next]_vars PROVE SkillsAreAccepted'
  OBVIOUS
<1>r. \A i \in DOMAIN proposals : proposals[i] \in Proposal BY DEF TypeOK
<1>0. /\ DOMAIN proposals = 1..Len(proposals) /\ Len(proposals) \in Nat
      /\ skills \in [Slugs -> 0..Len(proposals)]
      /\ \A i \in DOMAIN proposals : proposals[i].slug \in Slugs
  <2>1. /\ DOMAIN proposals = 1..Len(proposals) /\ Len(proposals) \in Nat
        /\ skills \in [Slugs -> 0..Len(proposals)]
    BY DEF TypeOK
  <2> QED BY <1>r, <2>1 DEF Proposal
<1>1. ASSUME NEW l \in Learners, NEW s \in Slugs, InsertProposal(l, s)
      PROVE  SkillsAreAccepted'
  <2>1. /\ proposals' \in Seq(Proposal) /\ Len(proposals') = Len(proposals) + 1
        /\ \A i \in DOMAIN proposals : proposals'[i] = proposals[i]
        /\ proposals'[Len(proposals) + 1].status = "pending"
    BY <1>1, InsertType
  <2>2. DOMAIN proposals' = DOMAIN proposals \union {Len(proposals) + 1}
    BY <1>0, <2>1
  <2>3. skills' = skills BY <1>1 DEF InsertProposal
  <2> QED BY <1>0, <2>1, <2>2, <2>3 DEF SkillsAreAccepted, WithStatus, Of
<1>2. ASSUME NEW v \in Reviewers, Accept(v) PROVE SkillsAreAccepted'
  <2> DEFINE k == reviewing[v]
  <2>1. /\ k \in DOMAIN proposals /\ k # 0 /\ proposals[k].status = "pending"
        /\ SetStatus(k, "accepted")
        /\ skills' = [skills EXCEPT ![proposals[k].slug] = k]
    BY <1>0, <1>2 DEF Accept, TypeOK
  <2>2. /\ DOMAIN proposals' = DOMAIN proposals
        /\ proposals'[k].slug = proposals[k].slug /\ proposals'[k].status = "accepted"
        /\ \A j \in DOMAIN proposals : j # k => proposals'[j] = proposals[j]
    BY <2>1, SetStatusType DEF Statuses
  <2> HIDE DEF k
  <2> QED BY <1>0, <2>1, <2>2 DEF SkillsAreAccepted, WithStatus, Of
<1>3. ASSUME NEW v \in Reviewers, Reject(v) PROVE SkillsAreAccepted'
  <2> DEFINE k == reviewing[v]
  <2>1. /\ k \in DOMAIN proposals /\ proposals[k].status = "pending"
        /\ SetStatus(k, "rejected") /\ skills' = skills
    BY <1>0, <1>3 DEF Reject, TypeOK
  <2>2. /\ DOMAIN proposals' = DOMAIN proposals
        /\ proposals'[k].status = "rejected"
        /\ \A j \in DOMAIN proposals : j # k => proposals'[j] = proposals[j]
    BY <2>1, SetStatusType DEF Statuses
  <2> HIDE DEF k
  <2> QED BY <1>0, <2>1, <2>2 DEF SkillsAreAccepted, WithStatus, Of
<1>4. ASSUME NEW s \in Slugs, DeleteSkill(s) PROVE SkillsAreAccepted'
  <2>1. skills' = [skills EXCEPT ![s] = 0] BY <1>4 DEF DeleteSkill
  <2>2. /\ DOMAIN proposals' = DOMAIN proposals
        /\ \A i \in DOMAIN proposals :
             /\ proposals'[i].slug = proposals[i].slug
             /\ IF proposals[i].slug = s /\ proposals[i].status = "accepted"
                  THEN proposals'[i].status = "superseded"
                  ELSE proposals'[i] = proposals[i]
    BY <1>4, DeleteSkillType
  <2> QED BY <1>0, <2>1, <2>2 DEF SkillsAreAccepted, WithStatus, Of
<1>5. CASE UNCHANGED <<proposals, skills>>
  BY <1>5 DEF SkillsAreAccepted, WithStatus, Of
<1> QED
  BY <1>1, <1>2, <1>3, <1>4, <1>5
  DEF Next, vars, LearnerStep, ReviewerStep, StartRun, ReadWatermark, UseSince, LoadEvents,
      ReadPending, ReadBlocked, LogRun, Die, LookAt, GiveUp, Unmute, WriteEvent, Tick, store

\* A skill document comes from an accepted proposal and an accepted proposal
\* has its document, whichever reviewers race and whatever is deleted.
THEOREM DocumentsMatchReviews == Spec => []SkillsAreAccepted
<1>1. Init => SkillsAreAccepted BY DEF Init, SkillsAreAccepted
<1> QED BY <1>1, TypeCorrect, StepSkills, PTL DEF Spec

(* ---------------------------- asked once ------------------------------ *)

\* While no two runs have met there is one at most, and what it read of the
\* proposals still holds: nobody else inserts, and reviews only close.
SoleRun == \A l, m \in Learners : Running(l) /\ Running(m) => l = m
PendingRead ==
    \A l \in Learners : learner[l].pc = "blocked" =>
        \A s \in learner[l].todo, i \in DOMAIN proposals :
            proposals[i].slug = s => proposals[i].status # "pending"
BlockedRead ==
    \A l \in Learners : learner[l].pc = "insert" =>
        \A s \in learner[l].todo, i \in DOMAIN proposals :
            proposals[i].slug = s => proposals[i].status \in Closed
AllClosed ==
    \A j \in DOMAIN proposals : \A i \in Earlier(j) : proposals[i].status \in Closed
AloneInv == met = {} => SoleRun /\ PendingRead /\ BlockedRead /\ AllClosed

\* Learners that did not move, or are in neither of the two places where they
\* rely on what they read, still may after a step that inserts nothing.
LEMMA ReadsLast ==
    ASSUME TypeOK, [Next]_vars, AllClosed, PendingRead, BlockedRead,
           DOMAIN proposals' = DOMAIN proposals,
           \A i \in DOMAIN proposals : proposals'[i].slug = proposals[i].slug,
           \A l \in Learners : learner'[l] = learner[l]
                               \/ learner'[l].pc \notin {"blocked", "insert"}
    PROVE  AllClosed' /\ PendingRead' /\ BlockedRead'
<1>1. \A i \in DOMAIN proposals :
        /\ proposals[i].status \in Closed => proposals'[i].status \in Closed
        /\ proposals[i].status # "pending" => proposals'[i].status # "pending"
  BY StepReviews DEF Closed
<1>2. DOMAIN proposals = 1..Len(proposals) /\ Len(proposals) \in Nat BY DEF TypeOK
<1>3. AllClosed'
  <2>1. \A j \in DOMAIN proposals : Earlier(j) \subseteq DOMAIN proposals /\ Earlier(j)' = Earlier(j)
    BY <1>2 DEF Earlier
  <2> QED BY <1>1, <2>1 DEF AllClosed
<1>4. PendingRead' BY <1>1 DEF PendingRead
<1>5. BlockedRead' BY <1>1 DEF BlockedRead
<1> QED BY <1>3, <1>4, <1>5

LEMMA StepAlone == TypeOK /\ AloneInv /\ [Next]_vars => AloneInv'
<1> SUFFICES ASSUME TypeOK, AloneInv, [Next]_vars, met' = {}
             PROVE  (SoleRun /\ PendingRead /\ BlockedRead /\ AllClosed)'
  BY DEF AloneInv
<1>0. /\ learner \in [Learners -> Run]
      /\ DOMAIN proposals = 1..Len(proposals) /\ Len(proposals) \in Nat
      /\ \A i \in DOMAIN proposals : proposals[i].status \in Statuses
  <2>1. /\ learner \in [Learners -> Run]
        /\ DOMAIN proposals = 1..Len(proposals) /\ Len(proposals) \in Nat
        /\ \A i \in DOMAIN proposals : proposals[i] \in Proposal
    BY DEF TypeOK
  <2> QED BY <2>1 DEF Proposal
<1>a. met = {}
  BY DEF Next, vars, LearnerStep, ReviewerStep, StartRun, ReadWatermark, UseSince, LoadEvents,
         ReadPending, ReadBlocked, InsertProposal, LogRun, Die, LookAt, Accept, Reject, GiveUp,
         DeleteSkill, Unmute, WriteEvent, Tick, history
<1>b. SoleRun /\ PendingRead /\ BlockedRead /\ AllClosed BY <1>a DEF AloneInv
<1>1. ASSUME NEW l \in Learners, StartRun(l)
      PROVE  (SoleRun /\ PendingRead /\ BlockedRead /\ AllClosed)'
  <2>1. \A m \in Learners \ {l} : ~Running(m)
    BY <1>1, <1>a DEF StartRun
  <2>2. \A m \in Learners \ {l} : learner'[m] = learner[m] BY <1>0, <1>1 DEF StartRun
  <2>3. learner'[l].pc = "watermark"
    <3> DEFINE begun == [Idle EXCEPT !.pc = "watermark", !.started = now, !.unmuted = unmuted]
    <3>1. begun.pc = "watermark" BY DEF Idle
    <3>2. learner' = [learner EXCEPT ![l] = begun] BY <1>1 DEF StartRun
    <3> HIDE DEF begun
    <3> QED BY <1>0, <3>1, <3>2
  <2>4. SoleRun' BY <2>1, <2>2 DEF SoleRun, Running
  <2>5. proposals' = proposals BY <1>1 DEF StartRun, store
  <2> QED BY <1>b, <2>2, <2>3, <2>4, <2>5, ReadsLast
<1>2. ASSUME NEW l \in Learners,
             ReadWatermark(l) \/ UseSince(l) \/ LoadEvents(l) \/ LogRun(l) \/ Die(l)
      PROVE  (SoleRun /\ PendingRead /\ BlockedRead /\ AllClosed)'
  <2>1. Running(l) BY <1>2 DEF ReadWatermark, UseSince, LoadEvents, LogRun, Die, Running
  <2>2. \A m \in Learners \ {l} : learner'[m] = learner[m]
    BY <1>0, <1>2 DEF ReadWatermark, UseSince, LoadEvents, LogRun, Die
  <2>3. learner'[l].pc \notin {"blocked", "insert"}
    <3>0. CASE UseSince(l)
      <4>1. \E from : learner' = [learner EXCEPT ![l].pc = "load", ![l].from = from]
        BY <3>0 DEF UseSince
      <4> QED BY <1>0, <4>1 DEF Run
    <3>1. CASE ReadWatermark(l)
      <4>1. \E n : learner' = [learner EXCEPT ![l].pc = "load", ![l].from = n, ![l].after = n]
        BY <3>1 DEF ReadWatermark
      <4> QED BY <1>0, <4>1 DEF Run
    <3>2. CASE LoadEvents(l)
      <4> DEFINE end == BatchEnd(learner[l].from)
      <4>1. \/ learner' = [learner EXCEPT ![l].pc = "log", ![l].seen = end]
            \/ \E ranked : learner' = [learner EXCEPT ![l].pc = "pending", ![l].seen = end,
                                                      ![l].todo = ranked]
        BY <3>2 DEF LoadEvents
      <4> HIDE DEF end
      <4> QED BY <1>0, <4>1 DEF Run
    <3>3. CASE LogRun(l) \/ Die(l)
      <4>1. learner' = [learner EXCEPT ![l] = Idle] /\ Idle.pc = "idle"
        BY <3>3 DEF LogRun, Die, Idle
      <4> QED BY <1>0, <4>1
    <3> QED BY <1>2, <3>0, <3>1, <3>2, <3>3
  <2>4. SoleRun' BY <1>b, <2>1, <2>2 DEF SoleRun, Running
  <2>5. proposals' = proposals
    BY <1>2 DEF ReadWatermark, UseSince, LoadEvents, LogRun, Die, store
  <2> QED BY <1>b, <2>2, <2>3, <2>4, <2>5, ReadsLast
<1>3. ASSUME NEW l \in Learners, ReadPending(l)
      PROVE  (SoleRun /\ PendingRead /\ BlockedRead /\ AllClosed)'
  <2>1. learner' = [learner EXCEPT ![l].pc = "blocked",
           ![l].todo = {s \in learner[l].todo : WithStatus(s, "pending") = {}}]
    BY <1>0, <1>3 DEF ReadPending
  <2>2. /\ learner'[l].pc = "blocked" /\ learner[l].pc = "pending"
        /\ learner'[l].todo = {s \in learner[l].todo : WithStatus(s, "pending") = {}}
        /\ \A m \in Learners \ {l} : learner'[m] = learner[m]
    BY <1>0, <1>3, <2>1 DEF ReadPending, Run
  <2>3. SoleRun' BY <1>b, <2>2 DEF SoleRun, Running
  <2>4. proposals' = proposals BY <1>3 DEF ReadPending, store
  <2>5. AllClosed' BY <1>b, <2>4 DEF AllClosed, Earlier
  <2>6. PendingRead' BY <1>b, <2>2, <2>4 DEF PendingRead, WithStatus, Of
  <2>7. BlockedRead' BY <1>b, <2>2, <2>4 DEF BlockedRead
  <2> QED BY <2>3, <2>5, <2>6, <2>7
<1>4. ASSUME NEW l \in Learners, ReadBlocked(l)
      PROVE  (SoleRun /\ PendingRead /\ BlockedRead /\ AllClosed)'
  <2>1. learner' = [learner EXCEPT ![l].pc = "insert",
           ![l].todo = {s \in learner[l].todo : ~Blocked(s, learner[l].unmuted[s])}]
    BY <1>0, <1>4 DEF ReadBlocked
  <2>2. /\ learner'[l].pc = "insert" /\ learner[l].pc = "blocked"
        /\ learner'[l].todo = {s \in learner[l].todo : ~Blocked(s, learner[l].unmuted[s])}
        /\ \A m \in Learners \ {l} : learner'[m] = learner[m]
    BY <1>0, <1>4, <2>1 DEF ReadBlocked, Run
  <2>3. SoleRun' BY <1>b, <2>2 DEF SoleRun, Running
  <2>4. proposals' = proposals BY <1>4 DEF ReadBlocked, store
  <2>5. AllClosed' BY <1>b, <2>4 DEF AllClosed, Earlier
  <2>6. PendingRead' BY <1>b, <2>2, <2>4 DEF PendingRead
  <2>7. \A s \in learner'[l].todo : s \in learner[l].todo /\ WithStatus(s, "accepted") = {}
    BY <2>2 DEF Blocked
  <2>8. \A s \in learner'[l].todo, i \in DOMAIN proposals :
          proposals[i].slug = s => proposals[i].status \in Closed
    BY <1>0, <1>b, <2>2, <2>7 DEF PendingRead, WithStatus, Of, Statuses, Closed
  <2>9. BlockedRead' BY <1>b, <2>2, <2>4, <2>8 DEF BlockedRead
  <2> QED BY <2>3, <2>5, <2>6, <2>9
<1>5. ASSUME NEW l \in Learners, NEW s \in Slugs, InsertProposal(l, s)
      PROVE  (SoleRun /\ PendingRead /\ BlockedRead /\ AllClosed)'
  <2> DEFINE n == Len(proposals) + 1
  <2>1. /\ proposals' \in Seq(Proposal) /\ Len(proposals') = n
        /\ \A i \in DOMAIN proposals : proposals'[i] = proposals[i]
        /\ proposals'[n].slug = s
    BY <1>5, InsertType
  <2>2. DOMAIN proposals' = DOMAIN proposals \union {n} BY <1>0, <2>1
  <2>3. /\ learner[l].pc = "insert" /\ learner'[l].pc = "insert" /\ s \in learner[l].todo
        /\ learner'[l].todo = learner[l].todo \ {s}
        /\ \A m \in Learners \ {l} : learner'[m] = learner[m]
    BY <1>0, <1>5 DEF InsertProposal, Run
  <2>4. \A m \in Learners \ {l} : learner'[m].pc = "idle"
    BY <1>b, <2>3 DEF SoleRun, Running
  <2>5. SoleRun' BY <2>4 DEF SoleRun, Running
  <2>6. PendingRead' BY <2>3, <2>4 DEF PendingRead
  <2>7. BlockedRead' BY <1>b, <2>1, <2>2, <2>3, <2>4 DEF BlockedRead
  <2>8. AllClosed'
    <3> SUFFICES ASSUME NEW j \in DOMAIN proposals', NEW i \in Earlier(j)'
                 PROVE  proposals'[i].status \in Closed
      BY DEF AllClosed
    <3>1. i \in DOMAIN proposals /\ i \in 1 .. j - 1 /\ proposals'[i].slug = proposals'[j].slug
      BY <1>0, <2>1, <2>2 DEF Earlier
    <3>2. CASE j = n
      BY <1>b, <2>1, <2>3, <3>1, <3>2 DEF BlockedRead
    <3>3. CASE j \in DOMAIN proposals
      BY <1>b, <2>1, <3>1, <3>3 DEF AllClosed, Earlier
    <3> QED BY <2>2, <3>2, <3>3
  <2> QED BY <2>5, <2>6, <2>7, <2>8
<1>6. ASSUME learner' = learner, DOMAIN proposals' = DOMAIN proposals,
             \A i \in DOMAIN proposals : proposals'[i].slug = proposals[i].slug
      PROVE  (SoleRun /\ PendingRead /\ BlockedRead /\ AllClosed)'
  <2>1. SoleRun' BY <1>6, <1>b DEF SoleRun, Running
  <2> QED BY <1>6, <1>b, <2>1, ReadsLast
<1>7. ASSUME NEW v \in Reviewers, Accept(v) \/ Reject(v)
      PROVE  (SoleRun /\ PendingRead /\ BlockedRead /\ AllClosed)'
  <2>1. reviewing[v] \in DOMAIN proposals
    BY <1>0, <1>7 DEF Accept, Reject, TypeOK
  <2>2. PICK status \in Statuses : SetStatus(reviewing[v], status)
    BY <1>7 DEF Accept, Reject, Statuses
  <2>3. /\ DOMAIN proposals' = DOMAIN proposals
        /\ \A i \in DOMAIN proposals : proposals'[i].slug = proposals[i].slug
    BY <2>1, <2>2, SetStatusType
  <2> QED BY <1>6, <1>7, <2>3 DEF Accept, Reject
<1>8. ASSUME NEW s \in Slugs, DeleteSkill(s)
      PROVE  (SoleRun /\ PendingRead /\ BlockedRead /\ AllClosed)'
  BY <1>6, <1>8, DeleteSkillType DEF DeleteSkill
<1>9. CASE UNCHANGED <<learner, proposals>> BY <1>6, <1>9
<1> QED
  BY <1>1, <1>2, <1>3, <1>4, <1>5, <1>7, <1>8, <1>9
  DEF Next, vars, LearnerStep, ReviewerStep, LookAt, GiveUp, Unmute, WriteEvent, Tick, store

\* Unless two runs overlapped, no pattern is proposed while a proposal of it is
\* pending or accepted.
THEOREM ProposedOnce == Spec => []AskedOnce
<1>1. Init => AloneInv
  BY DEF Init, AloneInv, SoleRun, PendingRead, BlockedRead, AllClosed, Running, Idle
<1>2. AloneInv => AskedOnce BY DEF AloneInv, AllClosed, AskedOnce
<1> QED BY <1>1, <1>2, TypeCorrect, StepAlone, PTL DEF Spec

(* -------------------------- rejections heeded ------------------------- *)

\* The clock only advances, and so does what it stamped: a run started from the
\* unmutes of its time or older ones.
Stamped ==
    /\ \A s \in Slugs : unmuted[s] <= now
    /\ \A l \in Learners, s \in Slugs : learner[l].unmuted[s] <= unmuted[s]

\* What counts against a proposal, by what was unmuted up to now.
Against(j) ==
    {i \in Earlier(j) : /\ proposals[i].status = "rejected"
                        /\ proposals[i].reviewed > unmuted[proposals[j].slug]}
Heeded ==
    \A j \in DOMAIN proposals :
        /\ \A i \in Against(j) : proposals[j].created - proposals[i].reviewed >= CoolOff
        /\ Cardinality(Against(j)) < MuteCount

\* What a run may insert is not held back, even by a later look.
HeedRead ==
    \A l \in Learners : learner[l].pc = "insert" =>
        \A s \in learner[l].todo :
            /\ \A i \in Rejections(s, unmuted[s]) : now - proposals[i].reviewed >= CoolOff
            /\ Cardinality(Rejections(s, unmuted[s])) < MuteCount

HeedInv == Stamped /\ (met = {} => Heeded /\ HeedRead)

LEMMA StampsNumbers ==
    ASSUME TypeOK
    PROVE  /\ now \in Nat /\ \A s \in Slugs : unmuted[s] \in Nat
           /\ \A l \in Learners, s \in Slugs : learner[l].unmuted[s] \in Nat
           /\ \A i \in DOMAIN proposals :
                /\ proposals[i].created \in Nat /\ proposals[i].reviewed \in Nat
                /\ proposals[i].slug \in Slugs
<1>1. now \in Nat /\ \A s \in Slugs : unmuted[s] \in Nat BY DEF TypeOK, Times
<1>2. \A l \in Learners : learner[l] \in Run BY DEF TypeOK
<1>3. \A r \in Run, s \in Slugs : r.unmuted[s] \in Nat BY DEF Run
<1>4. \A i \in DOMAIN proposals : proposals[i] \in Proposal BY DEF TypeOK
<1>5. \A p \in Proposal : p.created \in Nat /\ p.reviewed \in Nat /\ p.slug \in Slugs
  BY DEF Proposal, Times
<1> QED BY <1>1, <1>2, <1>3, <1>4, <1>5

LEMMA Fewer ==
    ASSUME TypeOK, NEW S \in SUBSET (DOMAIN proposals), NEW T \in SUBSET S, Cardinality(S) < MuteCount
    PROVE  Cardinality(T) < MuteCount
<1>1. IsFiniteSet(1..Len(proposals)) BY FS_Interval DEF TypeOK
<1>2. IsFiniteSet(S) BY <1>1, FS_Subset DEF TypeOK
<1>3. Cardinality(T) <= Cardinality(S) /\ IsFiniteSet(T) BY <1>2, FS_Subset
<1>4. Cardinality(T) \in Nat /\ Cardinality(S) \in Nat BY <1>2, <1>3, FS_CardinalityType
<1> QED BY <1>3, <1>4

LEMMA StepStamps == TypeOK /\ TypeOK' /\ Stamped /\ [Next]_vars => Stamped'
<1> SUFFICES ASSUME TypeOK, TypeOK', Stamped, [Next]_vars PROVE Stamped'
  OBVIOUS
<1>n. /\ now \in Nat /\ \A s \in Slugs : unmuted[s] \in Nat
      /\ \A l \in Learners, s \in Slugs : learner[l].unmuted[s] \in Nat
  BY StampsNumbers
<1>0. learner \in [Learners -> Run] /\ unmuted \in [Slugs -> Nat]
  BY DEF TypeOK
<1>1. ASSUME NEW l \in Learners, StartRun(l) PROVE Stamped'
  <2> DEFINE begun == [Idle EXCEPT !.pc = "watermark", !.started = now, !.unmuted = unmuted]
  <2>1. begun.unmuted = unmuted BY DEF Idle
  <2>2. learner' = [learner EXCEPT ![l] = begun] /\ UNCHANGED <<now, unmuted>>
    BY <1>1 DEF StartRun
  <2> HIDE DEF begun
  <2>3. \A m \in Learners : learner'[m].unmuted = IF m = l THEN unmuted ELSE learner[m].unmuted
    BY <1>0, <2>1, <2>2
  <2> QED BY <1>n, <2>2, <2>3 DEF Stamped
<1>2. ASSUME NEW l \in Learners, LogRun(l) \/ Die(l) PROVE Stamped'
  <2>1. learner' = [learner EXCEPT ![l] = Idle] /\ UNCHANGED <<now, unmuted>>
    BY <1>2 DEF LogRun, Die
  <2>2. \A m \in Learners, s \in Slugs : learner'[m].unmuted[s] = 0
                                         \/ learner'[m] = learner[m]
    BY <1>0, <2>1 DEF Idle, NeverUnmuted
  <2> QED BY <1>n, <2>1, <2>2 DEF Stamped
<1>3. ASSUME NEW s \in Slugs, Unmute(s) PROVE Stamped'
  BY <1>n, <1>0, <1>3 DEF Unmute, Stamped
<1>4. CASE Tick
  BY <1>n, <1>4 DEF Tick, Stamped
<1>5. ASSUME UNCHANGED <<now, unmuted>>, \A l \in Learners : learner'[l].unmuted = learner[l].unmuted
      PROVE  Stamped'
  BY <1>5 DEF Stamped
<1>6. ASSUME NEW l \in Learners,
             \/ ReadWatermark(l) \/ UseSince(l) \/ LoadEvents(l) \/ ReadPending(l) \/ ReadBlocked(l)
             \/ \E s \in Slugs : InsertProposal(l, s)
      PROVE  Stamped'
  <2>2. \/ \E n : learner' = [learner EXCEPT ![l].pc = "load", ![l].from = n, ![l].after = n]
        \/ \E n : learner' = [learner EXCEPT ![l].pc = "load", ![l].from = n]
        \/ \E end : learner' = [learner EXCEPT ![l].pc = "log", ![l].seen = end]
        \/ \E end, todo : learner' = [learner EXCEPT ![l].pc = "pending", ![l].seen = end,
                                                    ![l].todo = todo]
        \/ \E pc, todo : learner' = [learner EXCEPT ![l].pc = pc, ![l].todo = todo]
        \/ \E todo : learner' = [learner EXCEPT ![l].todo = todo]
    BY <1>6 DEF ReadWatermark, UseSince, LoadEvents, ReadPending, ReadBlocked, InsertProposal
  <2>3. \A m \in Learners : learner'[m].unmuted = learner[m].unmuted
    <3>1. CASE \E n : learner' = [learner EXCEPT ![l].pc = "load", ![l].from = n, ![l].after = n]
      BY SMTT(30), <1>0, <3>1 DEF Run
    <3>2. CASE \E n : learner' = [learner EXCEPT ![l].pc = "load", ![l].from = n]
      BY SMTT(30), <1>0, <3>2 DEF Run
    <3>3. CASE \E end : learner' = [learner EXCEPT ![l].pc = "log", ![l].seen = end]
      BY SMTT(30), <1>0, <3>3 DEF Run
    <3>4. CASE \E end, todo : learner' = [learner EXCEPT ![l].pc = "pending", ![l].seen = end,
                                                        ![l].todo = todo]
      BY SMTT(30), <1>0, <3>4 DEF Run
    <3>5. CASE \E pc, todo : learner' = [learner EXCEPT ![l].pc = pc, ![l].todo = todo]
      BY SMTT(30), <1>0, <3>5 DEF Run
    <3>6. CASE \E todo : learner' = [learner EXCEPT ![l].todo = todo]
      BY <1>0, <3>6 DEF Run
    <3> QED BY <2>2, <3>1, <3>2, <3>3, <3>4, <3>5, <3>6
  <2>4. UNCHANGED <<now, unmuted>>
    BY <1>6 DEF ReadWatermark, UseSince, LoadEvents, ReadPending, ReadBlocked, InsertProposal
  <2> QED BY <1>5, <2>3, <2>4
<1>7. CASE UNCHANGED <<now, unmuted, learner>> BY <1>5, <1>7
<1> QED
  BY <1>1, <1>2, <1>3, <1>4, <1>6, <1>7
  DEF Next, vars, LearnerStep, ReviewerStep, LookAt, Accept, Reject, GiveUp, DeleteSkill,
      WriteEvent

\* A step that inserts nothing and brings no run to its inserts: what is closed
\* does not change, and time only passes.
LEMMA HeedsLast ==
    ASSUME TypeOK, TypeOK', AllClosed, BlockedRead, Heeded, HeedRead,
           DOMAIN proposals' = DOMAIN proposals,
           \A i \in DOMAIN proposals :
              /\ proposals'[i].slug = proposals[i].slug
              /\ proposals'[i].created = proposals[i].created
              /\ proposals[i].status \in Closed => proposals'[i] = proposals[i],
           now' >= now, \A s \in Slugs : unmuted'[s] >= unmuted[s],
           \A l \in Learners : learner'[l] = learner[l] \/ learner'[l].pc # "insert"
    PROVE  Heeded' /\ HeedRead'
<1>n. /\ now \in Nat /\ \A s \in Slugs : unmuted[s] \in Nat
      /\ \A i \in DOMAIN proposals :
           proposals[i].created \in Nat /\ proposals[i].reviewed \in Nat /\ proposals[i].slug \in Slugs
  BY StampsNumbers
<1>m. now' \in Nat /\ \A s \in Slugs : unmuted'[s] \in Nat BY DEF TypeOK, Times
<1>0. DOMAIN proposals = 1..Len(proposals) /\ Len(proposals) \in Nat BY DEF TypeOK
<1>1. ASSUME NEW j \in DOMAIN proposals
      PROVE  /\ \A i \in Against(j)' : proposals'[j].created - proposals'[i].reviewed >= CoolOff
             /\ Cardinality(Against(j)') < MuteCount
  <2>1. ASSUME NEW i \in Against(j)' PROVE i \in Against(j) /\ proposals'[i] = proposals[i]
    <3>1. i \in Earlier(j) BY <1>0, <2>1 DEF Against, Earlier
    <3>2. i \in DOMAIN proposals /\ proposals[i].status \in Closed
      BY <1>0, <3>1 DEF AllClosed, Earlier
    <3>3. proposals'[i] = proposals[i] BY <3>2
    <3> QED BY <1>m, <1>n, <2>1, <3>1, <3>2, <3>3 DEF Against
  <2>2. Against(j) \in SUBSET (DOMAIN proposals) BY <1>0 DEF Against, Earlier
  <2>3. Against(j)' \in SUBSET Against(j) BY <2>1
  <2>4. Cardinality(Against(j)') < MuteCount BY <2>2, <2>3, Fewer DEF Heeded
  <2> QED BY <2>1, <2>4 DEF Heeded
<1>2. Heeded' BY <1>1 DEF Heeded
<1>3. ASSUME NEW l \in Learners, learner'[l].pc = "insert", NEW s \in learner'[l].todo
      PROVE  /\ \A i \in Rejections(s, unmuted[s])' : now' - proposals'[i].reviewed >= CoolOff
             /\ Cardinality(Rejections(s, unmuted[s])') < MuteCount
  <2>0. learner'[l] = learner[l] /\ learner[l].pc = "insert" /\ s \in learner[l].todo BY <1>3
  <2>s. s \in Slugs
    <3>1. learner[l] \in Run BY DEF TypeOK
    <3> QED BY <2>0, <3>1 DEF Run
  <2>1. ASSUME NEW i \in Rejections(s, unmuted[s])'
        PROVE  i \in Rejections(s, unmuted[s]) /\ proposals'[i] = proposals[i]
    <3>1. i \in DOMAIN proposals /\ proposals[i].slug = s /\ proposals'[i].status = "rejected"
          /\ proposals'[i].reviewed > unmuted'[s]
      BY <2>1 DEF Rejections, WithStatus, Of
    <3>2. proposals'[i] = proposals[i] BY <2>0, <3>1 DEF BlockedRead
    <3> QED BY <1>m, <1>n, <2>s, <3>1, <3>2 DEF Rejections, WithStatus, Of
  <2>2. Rejections(s, unmuted[s]) \in SUBSET (DOMAIN proposals) BY DEF Rejections, WithStatus, Of
  <2>3. Rejections(s, unmuted[s])' \in SUBSET Rejections(s, unmuted[s]) BY <2>1
  <2>4. Cardinality(Rejections(s, unmuted[s])') < MuteCount
    BY <2>0, <2>2, <2>3, Fewer DEF HeedRead
  <2>5. ASSUME NEW i \in Rejections(s, unmuted[s])'
        PROVE  now' - proposals'[i].reviewed >= CoolOff
    <3>1. now - proposals[i].reviewed >= CoolOff /\ i \in DOMAIN proposals
      BY <2>0, <2>1, <2>2, <2>5 DEF HeedRead
    <3> QED BY <1>m, <1>n, <2>1, <2>5, <3>1
  <2> QED BY <2>4, <2>5
<1>4. HeedRead' BY <1>3 DEF HeedRead
<1> QED BY <1>2, <1>4

LEMMA BlockedReadHeeds ==
    ASSUME TypeOK, Stamped, SoleRun, HeedRead, NEW l \in Learners, ReadBlocked(l)
    PROVE  HeedRead'
<1>n. /\ now \in Nat /\ \A s \in Slugs : unmuted[s] \in Nat
      /\ \A s \in Slugs : learner[l].unmuted[s] \in Nat
      /\ \A i \in DOMAIN proposals : proposals[i].reviewed \in Nat
  BY StampsNumbers
<1>0. learner \in [Learners -> Run] BY DEF TypeOK
<1>1. /\ learner'[l].todo = {s \in learner[l].todo : ~Blocked(s, learner[l].unmuted[s])}
      /\ \A m \in Learners \ {l} : learner'[m] = learner[m]
      /\ UNCHANGED <<proposals, unmuted, now>>
  <2>1. learner' = [learner EXCEPT ![l].pc = "insert",
           ![l].todo = {s \in learner[l].todo : ~Blocked(s, learner[l].unmuted[s])}]
    BY <1>0 DEF ReadBlocked
  <2> QED BY <1>0, <2>1 DEF ReadBlocked, store, Run
<1>2. ASSUME NEW s \in learner'[l].todo
      PROVE  /\ \A i \in Rejections(s, unmuted[s]) : now - proposals[i].reviewed >= CoolOff
             /\ Cardinality(Rejections(s, unmuted[s])) < MuteCount
  <2>0. s \in Slugs /\ ~Blocked(s, learner[l].unmuted[s])
    <3>1. learner[l] \in Run BY <1>0
    <3> QED BY <1>1, <1>2, <3>1 DEF Run
  <2> DEFINE old == Rejections(s, learner[l].unmuted[s])
  <2>1. old \in SUBSET (DOMAIN proposals) BY DEF Rejections, WithStatus, Of
  <2>2. Rejections(s, unmuted[s]) \in SUBSET old
    <3>1. learner[l].unmuted[s] <= unmuted[s] BY <2>0 DEF Stamped
    <3> QED BY <1>n, <2>0, <3>1 DEF Rejections, WithStatus, Of
  <2>3. Cardinality(old) < MuteCount
    <3>1. IsFiniteSet(old) BY <2>1, FS_Interval, FS_Subset DEF TypeOK
    <3>2. Cardinality(old) \in Nat BY <3>1, FS_CardinalityType
    <3>3. ~(Cardinality(old) >= MuteCount) BY <2>0 DEF Blocked
    <3> HIDE DEF old
    <3> QED BY <3>2, <3>3
  <2>4. \A i \in old : now - proposals[i].reviewed >= CoolOff
    <3>1. \A i \in old : ~(now - proposals[i].reviewed < CoolOff) BY <2>0 DEF Blocked
    <3> HIDE DEF old
    <3> QED BY <1>n, <2>1, <3>1
  <2> HIDE DEF old
  <2>5. Cardinality(Rejections(s, unmuted[s])) < MuteCount BY <2>1, <2>2, <2>3, Fewer
  <2> QED BY <2>2, <2>4, <2>5
<1>3. \A s : Rejections(s, unmuted[s])' = Rejections(s, unmuted[s])
  BY <1>1 DEF Rejections, WithStatus, Of
<1>4. ASSUME NEW m \in Learners, learner'[m].pc = "insert", NEW s \in learner'[m].todo
      PROVE  /\ \A i \in Rejections(s, unmuted[s])' : now' - proposals'[i].reviewed >= CoolOff
             /\ Cardinality(Rejections(s, unmuted[s])') < MuteCount
  <2>1. CASE m = l BY <1>1, <1>2, <1>3, <1>4, <2>1
  <2>2. CASE m # l
    <3>1. learner'[m] = learner[m] BY <1>1, <2>2
    <3> QED BY <1>1, <1>3, <1>4, <3>1 DEF HeedRead
  <2> QED BY <2>1, <2>2
<1> QED BY <1>4 DEF HeedRead

LEMMA InsertHeeds ==
    ASSUME TypeOK, AllClosed, SoleRun, Heeded, HeedRead,
           NEW l \in Learners, NEW s \in Slugs, InsertProposal(l, s)
    PROVE  Heeded' /\ HeedRead'
<1> SUFFICES ASSUME NEW n \in Nat, n = Len(proposals) + 1 PROVE Heeded' /\ HeedRead'
  <2>1. Len(proposals) + 1 \in Nat BY DEF TypeOK
  <2> QED BY <2>1
<1>0. /\ learner \in [Learners -> Run] /\ Len(proposals) \in Nat
      /\ DOMAIN proposals = 1..Len(proposals)
  BY DEF TypeOK
<1>1. /\ DOMAIN proposals' = DOMAIN proposals \union {n} /\ n \notin DOMAIN proposals
      /\ \A i \in DOMAIN proposals : proposals'[i] = proposals[i]
      /\ proposals'[n].slug = s /\ proposals'[n].status = "pending" /\ proposals'[n].created = now
  <2>1. /\ proposals' \in Seq(Proposal) /\ Len(proposals') = n
        /\ \A i \in DOMAIN proposals : proposals'[i] = proposals[i]
        /\ proposals'[n].slug = s /\ proposals'[n].status = "pending" /\ proposals'[n].created = now
    BY InsertType
  <2> QED BY <1>0, <2>1
<1>2. /\ learner[l].pc = "insert" /\ s \in learner[l].todo
      /\ learner'[l].todo = learner[l].todo \ {s} /\ UNCHANGED <<unmuted, now>>
      /\ \A m \in Learners \ {l} : learner'[m].pc = "idle"
  <2>1. \A m \in Learners \ {l} : learner[m].pc = "idle"
    BY DEF SoleRun, Running, InsertProposal
  <2>2. learner' = [learner EXCEPT ![l].todo = learner[l].todo \ {s}]
    BY <1>0 DEF InsertProposal
  <2> QED BY <1>0, <2>1, <2>2 DEF InsertProposal, Run
<1>3. ASSUME NEW j \in DOMAIN proposals PROVE Against(j)' = Against(j)
  <2>1. Earlier(j) \subseteq DOMAIN proposals /\ Earlier(j)' = Earlier(j)
    BY <1>0, <1>1 DEF Earlier
  <2> QED BY <1>1, <1>2, <2>1 DEF Against
<1>4. Against(n)' = Rejections(s, unmuted[s])
  <2>1. 1 .. n - 1 = DOMAIN proposals BY <1>0
  <2>2. Earlier(n)' = Of(s)
    BY <1>1, <2>1 DEF Earlier, Of
  <2> QED BY <1>1, <1>2, <2>2 DEF Against, Rejections, WithStatus, Of
<1>5. /\ \A i \in Rejections(s, unmuted[s]) : now - proposals[i].reviewed >= CoolOff
      /\ Cardinality(Rejections(s, unmuted[s])) < MuteCount
  BY <1>2 DEF HeedRead
<1>6. Heeded'
  <2>1. ASSUME NEW j \in DOMAIN proposals
        PROVE  /\ \A i \in Against(j)' : proposals'[j].created - proposals'[i].reviewed >= CoolOff
               /\ Cardinality(Against(j)') < MuteCount
    <3>1. Against(j) \subseteq DOMAIN proposals BY <1>0 DEF Against, Earlier
    <3> QED BY <1>1, <1>3, <3>1 DEF Heeded
  <2>2. /\ \A i \in Against(n)' : proposals'[n].created - proposals'[i].reviewed >= CoolOff
        /\ Cardinality(Against(n)') < MuteCount
    <3>1. Rejections(s, unmuted[s]) \subseteq DOMAIN proposals BY DEF Rejections, WithStatus, Of
    <3> QED BY <1>1, <1>4, <1>5, <3>1
  <2> QED BY <1>1, <2>1, <2>2 DEF Heeded
<1>7. HeedRead'
  <2>1. \A r \in Slugs : Rejections(r, unmuted[r])' = Rejections(r, unmuted[r])
    BY <1>1, <1>2 DEF Rejections, WithStatus, Of
  <2>2. learner[l].todo \subseteq Slugs
    <3>1. learner[l] \in Run BY <1>0
    <3> QED BY <3>1 DEF Run
  <2>3. \A r \in Slugs : Rejections(r, unmuted[r]) \subseteq DOMAIN proposals
    BY DEF Rejections, WithStatus, Of
  <2> QED BY <1>1, <1>2, <2>1, <2>2, <2>3 DEF HeedRead
<1> QED BY <1>6, <1>7

LEMMA StepHeeds == TypeOK /\ TypeOK' /\ AloneInv /\ HeedInv /\ [Next]_vars => HeedInv'
<1> SUFFICES ASSUME TypeOK, TypeOK', AloneInv, HeedInv, [Next]_vars, met' = {}
             PROVE  Heeded' /\ HeedRead'
  BY StepStamps DEF HeedInv
<1>0. learner \in [Learners -> Run] BY DEF TypeOK
<1>a. met = {}
  BY DEF Next, vars, LearnerStep, ReviewerStep, StartRun, ReadWatermark, UseSince, LoadEvents,
         ReadPending, ReadBlocked, InsertProposal, LogRun, Die, LookAt, Accept, Reject, GiveUp,
         DeleteSkill, Unmute, WriteEvent, Tick, history
<1>b. SoleRun /\ BlockedRead /\ AllClosed /\ Heeded /\ HeedRead /\ Stamped
  BY <1>a DEF AloneInv, HeedInv
<1>n. now \in Nat /\ \A s \in Slugs : unmuted[s] \in Nat BY StampsNumbers
<1>c. \A i \in DOMAIN proposals : proposals[i].status \in Closed => proposals'[i] = proposals[i]
  BY StepReviews DEF Closed
<1>1. ASSUME UNCHANGED <<proposals, now, unmuted>>, NEW l \in Learners,
             \A m \in Learners \ {l} : learner'[m] = learner[m], learner'[l].pc # "insert"
      PROVE  Heeded' /\ HeedRead'
  BY <1>1, <1>b, <1>n, HeedsLast
<1>2. ASSUME NEW l \in Learners, StartRun(l) \/ LogRun(l) \/ Die(l) PROVE Heeded' /\ HeedRead'
  <2> DEFINE begun == [Idle EXCEPT !.pc = "watermark", !.started = now, !.unmuted = unmuted]
  <2>1. begun.pc = "watermark" /\ Idle.pc = "idle" BY DEF Idle
  <2>2. learner' = [learner EXCEPT ![l] = begun] \/ learner' = [learner EXCEPT ![l] = Idle]
    BY <1>2 DEF StartRun, LogRun, Die
  <2>3. UNCHANGED <<proposals, now, unmuted>> BY <1>2 DEF StartRun, LogRun, Die, store
  <2> HIDE DEF begun
  <2>4. /\ \A m \in Learners \ {l} : learner'[m] = learner[m]
        /\ learner'[l].pc # "insert"
    BY <1>0, <2>1, <2>2
  <2> QED BY <1>1, <2>3, <2>4
<1>3. ASSUME NEW l \in Learners, ReadWatermark(l) \/ UseSince(l) \/ LoadEvents(l) \/ ReadPending(l)
      PROVE  Heeded' /\ HeedRead'
  <2>1. \/ \E n : learner' = [learner EXCEPT ![l].pc = "load", ![l].from = n, ![l].after = n]
        \/ \E n : learner' = [learner EXCEPT ![l].pc = "load", ![l].from = n]
        \/ \E end : learner' = [learner EXCEPT ![l].pc = "log", ![l].seen = end]
        \/ \E end, todo : learner' = [learner EXCEPT ![l].pc = "pending", ![l].seen = end,
                                                    ![l].todo = todo]
        \/ \E todo : learner' = [learner EXCEPT ![l].pc = "blocked", ![l].todo = todo]
    BY <1>3 DEF ReadWatermark, UseSince, LoadEvents, ReadPending
  <2>2. /\ \A m \in Learners \ {l} : learner'[m] = learner[m]
        /\ learner'[l].pc # "insert"
    <3>1. CASE \E n : learner' = [learner EXCEPT ![l].pc = "load", ![l].from = n, ![l].after = n]
      BY <1>0, <3>1 DEF Run
    <3>2. CASE \E n : learner' = [learner EXCEPT ![l].pc = "load", ![l].from = n]
      BY <1>0, <3>2 DEF Run
    <3>3. CASE \E end : learner' = [learner EXCEPT ![l].pc = "log", ![l].seen = end]
      BY <1>0, <3>3 DEF Run
    <3>4. CASE \E end, todo : learner' = [learner EXCEPT ![l].pc = "pending", ![l].seen = end,
                                                        ![l].todo = todo]
      BY <1>0, <3>4 DEF Run
    <3>5. CASE \E todo : learner' = [learner EXCEPT ![l].pc = "blocked", ![l].todo = todo]
      BY <1>0, <3>5 DEF Run
    <3> QED BY <2>1, <3>1, <3>2, <3>3, <3>4, <3>5
  <2>3. UNCHANGED <<proposals, now, unmuted>>
    BY <1>3 DEF ReadWatermark, UseSince, LoadEvents, ReadPending, store
  <2> QED BY <1>1, <2>2, <2>3
<1>4. ASSUME NEW l \in Learners, ReadBlocked(l) PROVE Heeded' /\ HeedRead'
  <2>1. HeedRead' BY <1>4, <1>b, BlockedReadHeeds
  <2>2. UNCHANGED <<proposals, now, unmuted>> BY <1>4 DEF ReadBlocked, store
  <2>3. Heeded' BY <1>b, <2>2 DEF Heeded, Against, Earlier
  <2> QED BY <2>1, <2>3
<1>5. ASSUME NEW l \in Learners, NEW s \in Slugs, InsertProposal(l, s) PROVE Heeded' /\ HeedRead'
  BY <1>5, <1>b, InsertHeeds
<1>6. ASSUME learner' = learner, DOMAIN proposals' = DOMAIN proposals,
             \A i \in DOMAIN proposals : /\ proposals'[i].slug = proposals[i].slug
                                         /\ proposals'[i].created = proposals[i].created,
             now' >= now, \A s \in Slugs : unmuted'[s] >= unmuted[s]
      PROVE  Heeded' /\ HeedRead'
  BY <1>6, <1>b, <1>c, HeedsLast
<1>7. ASSUME NEW v \in Reviewers, Accept(v) \/ Reject(v) PROVE Heeded' /\ HeedRead'
  <2>1. reviewing[v] \in DOMAIN proposals
    BY <1>7 DEF Accept, Reject, TypeOK
  <2>2. PICK status \in Statuses : SetStatus(reviewing[v], status)
    BY <1>7 DEF Accept, Reject, Statuses
  <2>3. /\ DOMAIN proposals' = DOMAIN proposals
        /\ \A i \in DOMAIN proposals : /\ proposals'[i].slug = proposals[i].slug
                                       /\ proposals'[i].created = proposals[i].created
    BY <2>1, <2>2, SetStatusType
  <2>4. UNCHANGED <<learner, now, unmuted>> BY <1>7 DEF Accept, Reject
  <2> QED BY <1>6, <1>n, <2>3, <2>4
<1>8. ASSUME NEW s \in Slugs, DeleteSkill(s) PROVE Heeded' /\ HeedRead'
  <2>1. UNCHANGED <<learner, now, unmuted>> BY <1>8 DEF DeleteSkill
  <2> QED BY <1>6, <1>8, <1>n, <2>1, DeleteSkillType
<1>9. ASSUME NEW s \in Slugs, Unmute(s) PROVE Heeded' /\ HeedRead'
  <2>1. UNCHANGED <<learner, now, proposals>> BY <1>9 DEF Unmute, store
  <2>2. \A r \in Slugs : unmuted'[r] >= unmuted[r]
    <3>1. unmuted' = [unmuted EXCEPT ![s] = now] /\ unmuted \in [Slugs -> 0..MaxTime]
      BY <1>9 DEF Unmute, TypeOK
    <3> QED BY <1>b, <1>n, <3>1 DEF Stamped
  <2> QED BY <1>6, <1>n, <2>1, <2>2
<1>10. CASE Tick
  BY <1>6, <1>10, <1>n DEF Tick, store
<1>11. CASE UNCHANGED <<learner, proposals, now, unmuted>>
  BY <1>6, <1>11, <1>n
<1> QED
  BY <1>2, <1>3, <1>4, <1>5, <1>7, <1>8, <1>9, <1>10, <1>11
  DEF Next, vars, LearnerStep, ReviewerStep, LookAt, GiveUp, WriteEvent, store

\* Unless two runs overlapped, a rejected pattern is proposed again only after
\* its cool-off, and never after MuteCount rejections, unless somebody unmuted it:
\* whatever is decided, deleted or unmuted between the reads of a run.
THEOREM RejectionsAreHeeded == Spec => []RejectionHeeded
<1>1. Init => AloneInv
  BY DEF Init, AloneInv, SoleRun, PendingRead, BlockedRead, AllClosed, Running, Idle
<1>2. Init => HeedInv
  BY DEF Init, HeedInv, Stamped, Heeded, HeedRead, Idle, NeverUnmuted
<1>3. HeedInv => RejectionHeeded
  BY DEF HeedInv, Heeded, Against, RejectionHeeded
<1> QED BY <1>1, <1>2, <1>3, TypeCorrect, StepAlone, StepHeeds, PTL DEF Spec

=============================================================================
