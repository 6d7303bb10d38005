---------------------------- MODULE ToolSequences ----------------------------
(***************************************************************************)
(* Recurring sequences of tool calls: how signals.json counts them         *)
(* (lifecycle/signals.py) and which of them the learner proposes as skills *)
(* (_detect_tool_sequence in learning.py).                                 *)
(*                                                                         *)
(* A call is a tool with the shape of its arguments.  Events are applied   *)
(* one at a time, as a batch of them is, on the day they happened; what    *)
(* makes the recorder refuse events is in SkillSignals.  An instance has   *)
(* fewer sessions, sequences and bytes than the file may hold, so nothing  *)
(* is dropped for room, only for age.  Slugs and confidence are left out.  *)
(***************************************************************************)
EXTENDS Integers, Sequences, FiniteSetsExt, Functions

CONSTANTS
  Chats,        \* sessions that call tools
  Calls,
  NameOf,       \* [Calls -> the names of the tools]
  ReadOnly,     \* _READ_ONLY_TOOLS
  NMin, NMax,   \* N_MIN, N_MAX
  MinHits,      \* SEQ_ONE_SESSION
  Across,       \* SEQ_ACROSS_SESSIONS
  MinSessions,  \* SEQ_MIN_SESSIONS
  Week,         \* SEQ_WINDOW_DAYS
  MaxAge, LowCount, LowAge,   \* MAX_AGE_DAYS, LOW_COUNT, LOW_COUNT_DAYS
  ProposedAge, TailAge,       \* PROPOSED_DROP_DAYS, TAIL_MAX_AGE_DAYS
  MaxCalls, LastDay           \* bounds

ASSUME SequenceConstants ==
  /\ IsFiniteSet(Chats) /\ IsFiniteSet(Calls)
  /\ {NMin, NMax, MinHits, Across, MinSessions, Week, LastDay} \subseteq Nat \ {0}
  /\ 1 < NMin /\ NMin <= NMax
  /\ {MaxAge, LowCount, LowAge, ProposedAge, TailAge, MaxCalls} \subseteq Nat

VARIABLES
  grams,      \* signals.json ngrams: what it counts of each sequence it knows
  tails,      \* signals.json tails: the last calls of each session
  today,
  found,      \* what a run of the learner proposed and has not marked yet
  calls,      \* history: all calls of each session, with their days
  forgotten   \* history: whether anything was dropped for its age

sequenceVars == <<grams, tails, today, found, calls, forgotten>>

Days == 1..LastDay
Sequences == UNION {[1..n -> Calls] : n \in NMin..NMax}

NoTail == [calls |-> <<>>, at |-> 0]
NewEntry == [by |-> [s \in Chats |-> 0], last |-> [s \in Chats |-> 0],
             days |-> [d \in Days |-> 0], proposed |-> 0]

SequenceInit ==
  /\ grams = [g \in {} |-> NewEntry]
  /\ tails = [s \in Chats |-> NoTail]
  /\ today = 1 /\ found = {}
  /\ calls = [s \in Chats |-> <<>>] /\ forgotten = FALSE

(* ------------------------------ counting ------------------------------ *)

Ending(seq, n) == SubSeq(seq, Len(seq) - n + 1, Len(seq))

\* _bump_ngram
Bumped(e, s) == [e EXCEPT !.by[s] = @ + 1, !.last[s] = today, !.days[today] = @ + 1]

Total(e) == SumFunction(e.by)
LastSeen(e) == Max({e.last[s] : s \in Chats})

\* prune: a sequence that is old, rare and not quite as old, or was proposed
\* long ago.
Stays(e) ==
  /\ today - LastSeen(e) <= MaxAge
  /\ Total(e) < LowCount => today - LastSeen(e) <= LowAge
  /\ e.proposed # 0 => today - e.proposed <= ProposedAge
Pruned(gs) == [g \in {k \in DOMAIN gs : Stays(gs[k])} |-> gs[g]]

\* update: under the lock, pruned as it is saved.
SaveSignals(gs, ts) ==
  /\ grams' = Pruned(gs)
  /\ tails' = [s \in Chats |-> IF today - ts[s].at > TailAge THEN NoTail ELSE ts[s]]
  /\ forgotten' = (forgotten \/ grams' # gs \/ \E s \in Chats : tails'[s].calls # ts[s].calls)

\* How much of a session is carried to its next events.
CarriedShort == NMax - 2
Carried == NMax - 1

\* apply_tool_events: every sequence that ends at the call is counted.
ApplyEvent(s, c) ==
  /\ SumFunction([r \in Chats |-> Len(calls[r])]) < MaxCalls
  /\ LET seq == Append(tails[s].calls, c)
         ended == {Ending(seq, n) : n \in {k \in NMin..NMax : k <= Len(seq)}}
         counted == [g \in DOMAIN grams \union ended |->
                       LET e == IF g \in DOMAIN grams THEN grams[g] ELSE NewEntry
                       IN IF g \in ended THEN Bumped(e, s) ELSE e]
         kept == IF Len(seq) <= Carried THEN seq ELSE Ending(seq, Carried)
     IN SaveSignals(counted, [tails EXCEPT ![s] = [calls |-> kept, at |-> today]])
  /\ calls' = [calls EXCEPT ![s] = Append(@, [call |-> c, day |-> today])]
  /\ UNCHANGED <<today, found>>

DayPasses ==
  /\ today < LastDay /\ today' = today + 1
  /\ UNCHANGED <<grams, tails, found, calls, forgotten>>

(* ------------------------------ detecting ----------------------------- *)

Inside(seq, sub) ==
  \E i \in 0..(Len(seq) - Len(sub)) : SubSeq(seq, i + 1, i + Len(sub)) = sub

\* k over and over, often enough to hold c wherever it begins.
Rounds(k, c) == Len(c) \div Len(k) + 2
Covers(k, c) ==
  Inside([i \in 1..(Rounds(k, c) * Len(k)) |-> k[((i - 1) % Len(k)) + 1]], c)

\* Several tools, and not only the agent's reading of its memory.
Proper(g) ==
  LET names == {NameOf[g[i]] : i \in DOMAIN g}
  IN Cardinality(names) > 1 /\ ~(names \subseteq ReadOnly)

\* Chats and days of the last week, and the better of the two counts.
Active(e) == {s \in Chats : e.last[s] # 0 /\ e.last[s] >= today - Week}
Best(e) == Max({0} \union {e.by[s] : s \in Active(e)})
RecentAllTime(e) == SumFunction(e.days)
Recent(e) == SumFunctionOnSet(e.days, {d \in Days : d >= today - (Week - 1)})
Hits(e) == Max({Best(e), Recent(e)})

Qualified(gs) ==
  {g \in DOMAIN gs :
     /\ Proper(g)
     /\ \/ Best(gs[g]) >= MinHits
        \/ Recent(gs[g]) >= Across /\ Cardinality(Active(gs[g])) >= MinSessions}

\* A sequence inside a longer one that was seen as often is the same occurrences.
LongestAlways(gs) ==
  {c \in Qualified(gs) :
     ~\E o \in Qualified(gs) : Len(o) > Len(c) /\ Inside(o, c)}
Longest(gs) ==
  {c \in Qualified(gs) :
     ~\E o \in Qualified(gs) :
        Len(o) > Len(c) /\ Hits(gs[o]) >= Hits(gs[c]) /\ Inside(o, c)}

\* Of windows of one loop the first of the ranking is kept: the most hits, then
\* the shortest, then by a hash, so in any order.
Precedes(gs, k, c) ==
  \/ Hits(gs[k]) > Hits(gs[c])
  \/ Hits(gs[k]) = Hits(gs[c]) /\ Len(k) <= Len(c)
Patterns(gs) ==
  {K \in SUBSET Longest(gs) :
     \A c \in Longest(gs) :
       c \in K <=> ~\E k \in K \ {c} : Precedes(gs, k, c) /\ Covers(k, c)}

\* run_learner: the patterns of a pruned snapshot, less those that are blocked ...
Detect ==
  /\ found = {}
  /\ \E K \in Patterns(Pruned(grams)) : found' \in (SUBSET K) \ {{}}
  /\ UNCHANGED <<grams, tails, today, calls, forgotten>>

\* ... and mark_proposed, once they are inserted.
MarkProposed ==
  /\ found # {}
  /\ IF found \intersect DOMAIN grams = {} THEN UNCHANGED <<grams, tails, forgotten>>
     ELSE SaveSignals([g \in DOMAIN grams |-> IF g \in found THEN [grams[g] EXCEPT !.proposed = today]
                                       ELSE grams[g]], tails)
  /\ found' = {}
  /\ UNCHANGED <<today, calls>>

SequenceNext ==
  \/ \E s \in Chats, c \in Calls : ApplyEvent(s, c)
  \/ DayPasses \/ Detect \/ MarkProposed

SequenceSpec == SequenceInit /\ [][SequenceNext]_sequenceVars

(* ----------------------------- properties ----------------------------- *)

\* Where a sequence occurs in a session, from a day on.
Places(s, g, from) ==
  {i \in 0..(Len(calls[s]) - Len(g)) :
     /\ \A j \in 1..Len(g) : calls[s][i + j].call = g[j]
     /\ calls[s][i + Len(g)].day >= from}
Times(s, g) == Cardinality(Places(s, g, 1))

\* Cut into however many flushes, a session's calls are counted as one text: a
\* sequence is counted once for each place it occurs at, and never more often,
\* whatever was forgotten (apply_tool_events).
CountsTrue ==
  \A g \in Sequences, s \in Chats :
    LET n == IF g \in DOMAIN grams THEN grams[g].by[s] ELSE 0
    IN n <= Times(s, g) /\ (~forgotten => n = Times(s, g))

\* What is proposed did recur: in one session, or within the week and in more
\* than one (_detect_tool_sequence).
EvidenceReal ==
  \A K \in Patterns(Pruned(grams)) : \A g \in K :
    \/ \E s \in Chats : Times(s, g) >= MinHits
    \/ /\ SumFunction([s \in Chats |-> Cardinality(Places(s, g, today - (Week - 1)))]) >= Across
       /\ Cardinality({s \in Chats : Times(s, g) > 0}) >= MinSessions

\* Leaving out contained sequences and windows of loops leaves out nothing:
\* what recurred in a session of the last week is in a pattern, or in its
\* loop, that was seen as often (_detect_tool_sequence).
NoneMissed ==
  LET gs == Pruned(grams)
  IN ~forgotten /\ gs = grams =>
       \A K \in Patterns(gs) : \A g \in Sequences, s \in Chats :
         Proper(g) /\ Times(s, g) >= MinHits /\ Places(s, g, today - Week) # {} =>
           \E k \in K : Covers(k, g) /\ Hits(gs[k]) >= Times(s, g)

\* Exactly what recurred is proposed (_detect_tool_sequence).
RecurrencesProposed == EvidenceReal /\ NoneMissed

=============================================================================
