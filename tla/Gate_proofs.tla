----------------------------- MODULE Gate_proofs -----------------------------
(***************************************************************************)
(* What the two gates of a write promise, for any number of processes and  *)
(* stores and any lengths of time: the free-tier cap (CapGate), the bands  *)
(* of the pass under a clock that people set (EntitlementClock), and its   *)
(* renewal by any number of threads, sign-ins and nonces                   *)
(* (EntitlementRefresh).                                                   *)
(***************************************************************************)
EXTENDS EntitlementClock, CapGate, EntitlementRefresh, TLAPS

-----------------------------------------------------------------------------
(* The cap.                                                                 *)

CapEntries == [account : {"none", "me", "null"}, tier : Tiers, at : Nat, until : Int]
WriteStates == [pc : {"idle", "size", "ask", "save", "commit", "refused"},
                est : Nat, adds : Nat, seen : CapEntries, answer : CapEntries]

CapTypes ==
  /\ size \in [Stores -> Nat] /\ now \in Nat /\ wasPaid \in BOOLEAN
  /\ cache \in [Stores -> CapEntries]
  /\ account \in [tier : Tiers, until : Int] /\ pass \in Tiers \union {"none"}
  /\ granted \in [Writers -> Int]
  /\ writer \in [Writers -> WriteStates]
  /\ saver \in [Stores -> Writers \union {"nobody"}]

LEMMA CapTyped == CapSpec => []CapTypes
<1>1. CapInit => CapTypes
  <2> SUFFICES ASSUME CapInit PROVE CapTypes
    OBVIOUS
  <2>1. NoEntry \in CapEntries /\ Resting \in WriteStates
    BY DEF NoEntry, NoEnd, Resting, CapEntries, WriteStates, Tiers
  <2>2. cache \in [Stores -> CapEntries]
    <3>1. [account |-> "me", tier |-> "free", at |-> 0, until |-> NoEnd] \in CapEntries
      BY DEF CapEntries, NoEnd, Tiers
    <3>2. ASSUME NEW a \in {"me", "null"}, NEW t \in Tiers
          PROVE  [account |-> a, tier |-> t, at |-> 0, until |-> NoEnd] \in CapEntries
      BY DEF CapEntries, NoEnd, Tiers
    <3>3. QED
      BY <2>1, <3>2 DEF CapInit
  <2>3. QED
    <3>1. account \in [tier : Tiers, until : Int] /\ pass \in Tiers \union {"none"}
      BY DEF CapInit, NoEnd, Tiers
    <3>2. writer \in [Writers -> WriteStates] /\ granted \in [Writers -> Int]
      BY <2>1 DEF CapInit, NoEnd
    <3>3. size \in [Stores -> Nat] /\ saver \in [Stores -> Writers \union {"nobody"}]
      BY DEF CapInit
    <3>4. QED
      BY <2>2, <3>1, <3>2, <3>3 DEF CapInit, CapTypes
<1>2. CapTypes /\ [CapNext]_capVars => CapTypes'
  <2> SUFFICES ASSUME CapTypes, [CapNext]_capVars PROVE CapTypes'
    OBVIOUS
  <2> USE CapConstants DEF CapTypes
  <2>1. NoEntry \in CapEntries /\ Resting \in WriteStates /\ Sizes \subseteq Nat
        /\ NoEnd \in Int /\ Grace \in Nat
    BY DEF NoEntry, NoEnd, Resting, CapEntries, WriteStates, Tiers
  <2>2. ASSUME NEW p \in Writers, NEW pc \in {"idle", "size", "ask", "save", "commit", "refused"}
        PROVE  [writer EXCEPT ![p].pc = pc] \in [Writers -> WriteStates]
    BY DEF WriteStates
  <2>3. ASSUME NEW p \in Writers, Start(p) PROVE CapTypes'
    <3>1. PICK est \in Sizes, adds \in Sizes :
            writer' = [writer EXCEPT ![p] = [Resting EXCEPT !.pc = "size", !.est = est,
                         !.adds = adds, !.seen = cache[StoreOf[p]]]]
      BY <2>3 DEF Start
    <3>2. cache[StoreOf[p]] \in CapEntries
      OBVIOUS
    <3>3. [Resting EXCEPT !.pc = "size", !.est = est, !.adds = adds,
                          !.seen = cache[StoreOf[p]]] \in WriteStates
      BY <2>1, <3>2 DEF WriteStates
    <3>4. QED
      BY <2>3, <3>1, <3>3 DEF Start
  <2>4. ASSUME NEW p \in Writers, Check(p) PROVE CapTypes'
    <3>1. PICK pc \in {"commit", "ask"} :
            writer' = [writer EXCEPT ![p].pc = pc, ![p].seen = NoEntry]
      BY <2>4 DEF Check
    <3>2. writer' \in [Writers -> WriteStates]
      BY <2>1, <3>1 DEF WriteStates
    <3>3. QED
      BY <2>4, <3>2 DEF Check
  <2>5. ASSUME NEW p \in Writers, Answered(p) PROVE CapTypes'
    <3> DEFINE a == [account |-> "me", tier |-> ServerTier, at |-> now,
                     until |-> IF ServerTier = "paid" THEN account.until ELSE NoEnd]
    <3>1. a \in CapEntries
      BY <2>1 DEF CapEntries, ServerTier, Tiers
    <3>2. Expires(a) \in Int
      BY <2>1, <3>1 DEF Expires, CapEntries
    <3> HIDE DEF a
    <3>3. /\ granted' = [granted EXCEPT ![p] = IF a.tier # "paid" THEN NoEnd ELSE Expires(a)]
          /\ writer' = [writer EXCEPT ![p].pc = "save", ![p].answer = a]
      BY <2>5 DEF Answered, a
    <3>4. writer' \in [Writers -> WriteStates]
      <4>1. [writer[p] EXCEPT !.pc = "save", !.answer = a] \in WriteStates
        BY <3>1 DEF WriteStates
      <4>2. QED
        BY <3>3, <4>1
    <3>5. granted' \in [Writers -> Int]
      BY <2>1, <3>2, <3>3
    <3>6. QED
      BY <2>5, <3>4, <3>5 DEF Answered
  <2>6. ASSUME NEW p \in Writers, NEW outcome \in CacheWrites, Save(p, outcome) PROVE CapTypes'
    <3>1. writer[p].answer \in CapEntries
      BY DEF WriteStates
    <3>2. cache' \in [Stores -> CapEntries]
      BY <2>6, <3>1 DEF Save
    <3>3. writer' \in [Writers -> WriteStates]
      BY <2>2, <2>6 DEF Save, Goto, Raise
    <3>4. QED
      BY <2>6, <3>2, <3>3 DEF Save
  <2>7. ASSUME NEW p \in Writers, AuthDenied(p) \/ Unreachable(p) PROVE CapTypes'
    <3>1. PICK pc \in {"commit", "refused"} : writer' = [writer EXCEPT ![p].pc = pc]
      BY <2>7 DEF AuthDenied, Unreachable, Goto, Raise
    <3>2. writer' \in [Writers -> WriteStates]
      BY <2>2, <3>1
    <3>3. QED
      BY <2>7, <3>2 DEF AuthDenied, Unreachable
  <2>8. ASSUME NEW p \in Writers, Commit(p) PROVE CapTypes'
    <3>1. size[StoreOf[p]] + writer[p].adds \in Nat
      BY DEF WriteStates
    <3>2. size' \in [Stores -> Nat]
      BY <2>8, <3>1 DEF Commit
    <3>3. writer' \in [Writers -> WriteStates]
      BY <2>1, <2>2, <2>8 DEF Commit, Raise
    <3>4. QED
      BY <2>8, <3>2, <3>3 DEF Commit
  <2>9. ASSUME NEW p \in Writers, GiveUp(p) PROVE CapTypes'
    BY <2>1, <2>9 DEF GiveUp
  <2>10. ASSUME NEW s \in Stores, Delete(s) PROVE CapTypes'
    BY <2>10 DEF Delete
  <2>11. ASSUME NEW until \in Terms, Upgrade(until) PROVE CapTypes'
    BY <2>11 DEF Upgrade, Tiers
  <2>12. CASE Downgrade \/ RefreshPass \/ CapTick
    BY <2>1, <2>12 DEF Downgrade, RefreshPass, CapTick, ServerTier, Tiers
  <2>13. CASE UNCHANGED capVars
    BY <2>13 DEF capVars
  <2>14. QED
    BY <2>3, <2>4, <2>5, <2>6, <2>7, <2>8, <2>9, <2>10, <2>11, <2>12, <2>13 DEF CapNext, WriteStep
<1>3. QED
  BY <1>1, <1>2, PTL DEF CapSpec

\* While nobody ever paid, nothing that unlocks a store exists: not at the
\* server, not in a pass, not in what a process was granted.  The cache is left
\* out, as it may say anything.
NothingUnlocks ==
  /\ account.tier = "free" /\ pass # "paid"
  /\ \A p \in Writers : granted[p] = NoEnd

FreeInv == wasPaid \/ (NothingUnlocks /\ \A s \in Stores : size[s] <= Cap)

LEMMA FreeStep == CapTypes /\ FreeInv /\ [CapNext]_capVars => FreeInv'
<1> SUFFICES ASSUME CapTypes, ~wasPaid, ~wasPaid', FreeInv, [CapNext]_capVars PROVE FreeInv'
  BY DEF FreeInv, CapTypes, CapNext, WriteStep, Start, Check, Answered, Save, AuthDenied,
         Unreachable, Commit, GiveUp, Delete, Upgrade, Downgrade, RefreshPass, CapTick, capVars
<1> USE CapConstants DEF FreeInv, NothingUnlocks
<1>1. ServerTier = "free"
  BY DEF ServerTier
<1>2. ASSUME NEW p \in Writers, Answered(p) PROVE FreeInv'
  BY <1>1, <1>2 DEF Answered, CapTypes
<1>3. ASSUME NEW p \in Writers, Commit(p) PROVE FreeInv'
  <2>1. ~Trusted(p)
    BY DEF Trusted, CapTypes, NoEnd
  <2>2. UNCHANGED size \/ (size[StoreOf[p]] + writer[p].adds <= Cap
                           /\ size' = [size EXCEPT ![StoreOf[p]] = size[StoreOf[p]] + writer[p].adds])
    BY <1>3, <2>1 DEF Commit, UncappedLocal
  <2>3. \A s \in Stores : size'[s] <= Cap
    BY <2>2 DEF CapTypes
  <2>4. QED
    BY <1>3, <2>3 DEF Commit
<1>4. ASSUME NEW s \in Stores, Delete(s) PROVE FreeInv'
  <2>1. size'[s] = size[s] - 1 /\ \A z \in Stores \ {s} : size'[z] = size[z]
    BY <1>4 DEF Delete, CapTypes
  <2>2. \A z \in Stores : size'[z] <= Cap
    BY <2>1 DEF CapTypes
  <2>3. QED
    BY <1>4, <2>2 DEF Delete
<1>5. CASE RefreshPass
  BY <1>1, <1>5 DEF RefreshPass
<1>6. CASE \/ \E p \in Writers : \/ Start(p) \/ Check(p) \/ AuthDenied(p) \/ Unreachable(p) \/ GiveUp(p)
                                 \/ \E outcome \in CacheWrites : Save(p, outcome)
           \/ CapTick \/ Downgrade \/ UNCHANGED capVars
  <2>1. UNCHANGED <<size, account, pass, granted>> \/ Downgrade
    BY <1>6 DEF Start, Check, AuthDenied, Unreachable, GiveUp, Save, CapTick, capVars
  <2>2. QED
    BY <2>1 DEF Downgrade
<1>7. ~\E until \in Terms : Upgrade(until)
  BY DEF Upgrade
<1>8. QED
  BY <1>2, <1>3, <1>4, <1>5, <1>6, <1>7 DEF CapNext, WriteStep

\* While the account was never paid, no store grows over the cap, whatever the
\* cache says and whoever else writes (CAP-2, SEC-13: _cache_uncapped_trusted
\* and _verify_committed_size).
THEOREM FreeUnderCap == CapSpec => []FreeStaysUnderCap
<1>1. CapInit => FreeInv
  BY CapConstants DEF CapInit, FreeInv, NothingUnlocks, NoEnd
<1>2. FreeInv => FreeStaysUnderCap
  BY DEF FreeInv, FreeStaysUnderCap
<1>3. QED
  BY <1>1, <1>2, CapTyped, FreeStep, PTL DEF CapSpec

\* A write under way: it has no answer before it asks; a paid answer is about
\* this account and granted as long as it says; and if nobody stored another
\* answer since, it is the one in the cache.
GrantInv ==
  \A p \in Writers :
    /\ writer[p].pc \in {"idle", "size", "ask"} => writer[p].answer.tier = "free"
    /\ writer[p].pc \in {"save", "commit"} /\ writer[p].answer.tier = "paid" =>
         writer[p].answer.account = "me" /\ granted[p] = Expires(writer[p].answer)
    /\ /\ writer[p].pc = "commit" /\ writer[p].answer.tier = "paid"
       /\ saver[StoreOf[p]] = p
       => cache[StoreOf[p]] = writer[p].answer

LEMMA GrantStep ==
  ASSUME CacheWrites = {"done"}, CapTypes, GrantInv, [CapNext]_capVars
  PROVE  GrantInv'
<1> USE CapConstants DEF GrantInv
<1>1. ASSUME NEW p \in Writers, Start(p) PROVE GrantInv'
  <2>1. /\ writer'[p].pc = "size" /\ writer'[p].answer = NoEntry
        /\ \A q \in Writers \ {p} : writer'[q] = writer[q]
    BY <1>1 DEF Start, CapTypes, Resting
  <2>2. QED
    BY <1>1, <2>1 DEF Start, NoEntry, Expires
<1>2. ASSUME NEW p \in Writers, Answered(p) PROVE GrantInv'
  <2> DEFINE a == [account |-> "me", tier |-> ServerTier, at |-> now,
                   until |-> IF ServerTier = "paid" THEN account.until ELSE NoEnd]
  <2>1. a.account = "me"
    OBVIOUS
  <2> HIDE DEF a
  <2>2. /\ granted' = [granted EXCEPT ![p] = IF a.tier # "paid" THEN NoEnd ELSE Expires(a)]
        /\ writer' = [writer EXCEPT ![p].pc = "save", ![p].answer = a]
    BY <1>2 DEF Answered, a
  <2>3. /\ writer'[p].pc = "save" /\ writer'[p].answer = a
        /\ \A q \in Writers \ {p} : writer'[q] = writer[q] /\ granted'[q] = granted[q]
        /\ a.tier = "paid" => granted'[p] = Expires(a)
    BY <2>2 DEF CapTypes, WriteStates
  <2>4. UNCHANGED <<cache, saver>> /\ writer'[p].answer = a
    BY <1>2, <2>3 DEF Answered
  <2>5. writer'[p].answer.tier = "paid" =>
          writer'[p].answer.account = "me" /\ granted'[p] = Expires(writer'[p].answer)
    BY <2>1, <2>3
  <2>6. QED
    BY <2>3, <2>4, <2>5 DEF Expires
<1>3. ASSUME NEW p \in Writers, Save(p, "done") PROVE GrantInv'
  <2>1. PICK pc \in {"commit", "refused"} : writer' = [writer EXCEPT ![p].pc = pc]
    BY <1>3 DEF Save, Goto, Raise
  <2>2. /\ writer'[p].pc \in {"commit", "refused"} /\ writer'[p].answer = writer[p].answer
        /\ \A q \in Writers \ {p} : writer'[q] = writer[q]
    BY <2>1 DEF CapTypes, WriteStates
  <2>3. cache'[StoreOf[p]] = writer[p].answer /\ saver'[StoreOf[p]] = p
    BY <1>3 DEF Save, CapTypes
  <2>4. \A q \in Writers \ {p} :
          \/ saver'[StoreOf[q]] = p
          \/ saver'[StoreOf[q]] = saver[StoreOf[q]] /\ cache'[StoreOf[q]] = cache[StoreOf[q]]
    BY <1>3 DEF Save, CapTypes
  <2>5. writer[p].pc = "save" /\ UNCHANGED granted
    BY <1>3 DEF Save
  <2>6. QED
    BY <2>2, <2>3, <2>4, <2>5 DEF Expires
<1>4. ASSUME NEW p \in Writers, Check(p) \/ AuthDenied(p) \/ Unreachable(p) PROVE GrantInv'
  <2>1. /\ writer'[p].answer = writer[p].answer /\ writer[p].pc \in {"size", "ask"}
        /\ \A q \in Writers \ {p} : writer'[q] = writer[q]
    BY <1>4 DEF Check, AuthDenied, Unreachable, Goto, Raise, CapTypes, WriteStates
  <2>2. QED
    BY <1>4, <2>1 DEF Check, AuthDenied, Unreachable
<1>5. ASSUME NEW p \in Writers, Commit(p) \/ GiveUp(p) PROVE GrantInv'
  <2>1. /\ writer'[p].pc = "refused" \/ writer'[p] = Resting
        /\ \A q \in Writers \ {p} : writer'[q] = writer[q]
    BY <1>5 DEF Commit, GiveUp, Raise, CapTypes, WriteStates
  <2>2. QED
    BY <1>5, <2>1 DEF Commit, GiveUp, Resting, NoEntry
<1>6. CASE \/ \E s \in Stores : Delete(s)
           \/ \E until \in Terms : Upgrade(until)
           \/ Downgrade \/ RefreshPass \/ CapTick \/ UNCHANGED capVars
  <2>1. UNCHANGED <<writer, granted, cache, saver>>
    BY <1>6 DEF Delete, Upgrade, Downgrade, RefreshPass, CapTick, capVars
  <2>2. QED
    BY <2>1 DEF Expires
<1>7. QED
  BY <1>1, <1>2, <1>3, <1>4, <1>5, <1>6 DEF CapNext, WriteStep

\* When every cache file can be written, a write the server has just answered as
\* uncapped is refused at its commit only after another process stored its own
\* answer, or the subscription has ended (check, then _effective_cap_local).
THEOREM GrantCommits == CacheWrites = {"done"} /\ CapSpec => GrantReachesCommit
<1> SUFFICES ASSUME CacheWrites = {"done"} PROVE CapSpec => GrantReachesCommit
  OBVIOUS
<1> DEFINE Granted(p) ==
      /\ writer[p].pc = "commit" /\ writer'[p].pc = "refused"
      /\ writer[p].answer.tier = "paid"
      => saver[StoreOf[p]] # p \/ now >= Expires(writer[p].answer)
<1>1. CapInit => GrantInv
  BY DEF CapInit, GrantInv, Resting, NoEntry
<1>2. CapTypes /\ GrantInv /\ [CapNext]_capVars => GrantInv'
  BY GrantStep
<1>3. CapTypes /\ GrantInv /\ [CapNext]_capVars => \A p \in Writers : Granted(p)
  <2> SUFFICES ASSUME CapTypes, GrantInv, [CapNext]_capVars, NEW p \in Writers,
                      writer[p].pc = "commit", writer'[p].pc = "refused",
                      writer[p].answer.tier = "paid", saver[StoreOf[p]] = p
               PROVE  now >= Expires(writer[p].answer)
    OBVIOUS
  <2> USE CapConstants
  <2>1. ASSUME NEW q \in Writers, q # p, WriteStep(q) PROVE FALSE
    <3>1. writer'[p] = writer[p]
      BY <2>1 DEF WriteStep, Start, Check, Answered, Save, AuthDenied, Unreachable, Commit, GiveUp,
                  Goto, Raise, CapTypes
    <3>2. QED
      BY <3>1
  <2>2. CASE WriteStep(p)
    <3>1. Commit(p)
      BY <2>2 DEF WriteStep, Start, Check, Answered, Save, AuthDenied, Unreachable, GiveUp
    <3>2. ~UncappedLocal(p)
      BY <3>1 DEF Commit, Resting, CapTypes
    <3>3. ~(now < granted[p])
      BY <3>2 DEF UncappedLocal, Trusted, GrantInv
    <3>4. QED
      BY <3>3 DEF GrantInv, CapTypes
  <2>3. CASE ~\E q \in Writers : WriteStep(q)
    <3>1. UNCHANGED writer
      BY <2>3 DEF CapNext, Delete, Upgrade, Downgrade, RefreshPass, CapTick, capVars
    <3>2. QED
      BY <3>1
  <2>4. QED
    BY <2>1, <2>2, <2>3
<1>4. QED
  BY <1>1, <1>2, <1>3, CapTyped, PTL DEF CapSpec, GrantReachesCommit

-----------------------------------------------------------------------------
(* The bands of the pass.                                                   *)

LEMMA ClockConstants ==
  /\ None = -1 /\ None \in Int
  /\ MaxTime \in Nat \ {0} /\ MaxSets \in Nat /\ HwmInterval \in Nat \ {0}
  /\ Exp \in Nat /\ Og \in Nat /\ Ra \in Nat /\ SkewAhead \in Nat /\ NbfTolerance \in Nat
  /\ RetryAfterMax \in Nat
  /\ "full" \in Policies \union {"full"}
BY ConstantsAssumption DEF None

LEMMA JudgeTyped ==
  ASSUME TypeOK, NEW p \in Procs, NEW asked \in Ops, NEW op \in Ops, NEW blocks \in BOOLEAN,
         NEW by \in {"it", "bootstrap"}, Judge(p, asked, op, blocks, by)
  PROVE  TypeOK'
<1> USE ClockConstants DEF TypeOK
<1>1. Seen(p) \in Times /\ clock \in Times
  BY DEF Seen, Later, Memory, Marks, Times
<1>2. file' \in File
  <2>1. Later(file.hwm, Seen(p)) \in Marks
    BY <1>1 DEF Later, File, Marks, Times
  <2>2. [file EXCEPT !.hwm = Later(file.hwm, Seen(p))] \in File
    BY <2>1 DEF File
  <2>3. QED
    BY <2>2 DEF Judge
<1>3. mem' \in [Procs -> Memory]
  <2>1. ASSUME NEW w \in -HwmInterval..MaxTime
        PROVE  [mem[p] EXCEPT !.hwm = Seen(p), !.wrote = w] \in Memory
    <3>1. mem[p] \in Memory /\ Seen(p) \in Marks
      BY <1>1 DEF Marks
    <3>2. QED
      BY <3>1 DEF Memory
  <2>2. mem[p].wrote \in -HwmInterval..MaxTime /\ clock \in -HwmInterval..MaxTime
    BY <1>1 DEF Memory, Times
  <2>3. (IF PersistDue(p) THEN clock ELSE mem[p].wrote) \in -HwmInterval..MaxTime
    BY <2>2
  <2>4. QED
    BY <2>1, <2>3 DEF Judge
<1>4. attempts' \subseteq Threads /\ overtaken' \subseteq attempts'
  BY DEF Judge, Threads
<1>5. Judged(p) \in Says
  BY DEF Judged, Band, Says, File, Kinds
<1>6. call' \in [Procs -> [pc : {"idle", "renew", "bootstrap", "again", "afresh"}, op : Ops]]
  <2>1. Idle \in [pc : {"idle", "renew", "bootstrap", "again", "afresh"}, op : Ops]
    BY DEF Idle, Ops
  <2>2. [Idle EXCEPT !.pc = IF Judged(p) = "setup" THEN "bootstrap" ELSE "renew", !.op = asked]
          \in [pc : {"idle", "renew", "bootstrap", "again", "afresh"}, op : Ops]
    BY <2>1 DEF Idle
  <2>3. QED
    BY <2>1, <2>2 DEF Judge
<1>7. verdict' \in [Procs -> [says : Says \union {"none"}, op : {"write", "other"},
                            policy : Policies \union {"full"}, by : {"it", "bootstrap"}]]
  <2>1. WithPolicy(Judged(p), op) \in Says /\ Recorded(asked) \in {"write", "other"}
    BY <1>5 DEF WithPolicy, Says, Recorded
  <2>2. file.policy \in Policies \union {"full"}
    BY DEF File
  <2>3. QED
    BY <2>1, <2>2 DEF Judge
<1>8. forced' \subseteq Procs /\ UNCHANGED <<server, clock, sets, steady>>
  BY DEF Judge, time
<1>9. QED
  BY <1>2, <1>3, <1>4, <1>6, <1>7, <1>8

LEMMA ReturnTyped ==
  ASSUME TypeOK, NEW a \in attempts, NEW outcome \in {"ok", "denied", "transient", "shared"},
         NEW moved \in BOOLEAN, Return(a, outcome, moved),
         UNCHANGED time, UNCHANGED forced, file' \in File, mem' \in [Procs -> Memory],
         steady' \in BOOLEAN
  PROVE  TypeOK'
<1> USE DEF TypeOK
<1>1. a[1] \in Procs
  BY DEF Threads
<1>2. attempts' \subseteq Threads /\ overtaken' \subseteq attempts'
  BY DEF Return
<1>3. call' \in [Procs -> [pc : {"idle", "renew", "bootstrap", "again", "afresh"}, op : Ops]]
  <2>1. Resumed(call[a[1]], outcome)
          \in [pc : {"idle", "renew", "bootstrap", "again", "afresh"}, op : Ops]
    BY <1>1 DEF Resumed, Idle, Ops
  <2>2. QED
    BY <1>1, <2>1 DEF Return
<1>4. verdict' \in [Procs -> [says : Says \union {"none"}, op : {"write", "other"},
                            policy : Policies \union {"full"}, by : {"it", "bootstrap"}]]
  <2>1. Silent \in [says : Says \union {"none"}, op : {"write", "other"},
                    policy : Policies \union {"full"}, by : {"it", "bootstrap"}]
    BY DEF Silent
  <2>2. Recorded(call[a[1]].op) \in {"write", "other"}
    BY DEF Recorded
  <2>3. [Silent EXCEPT !.says = "setup", !.op = Recorded(call[a[1]].op)]
           \in [says : Says \union {"none"}, op : {"write", "other"},
                policy : Policies \union {"full"}, by : {"it", "bootstrap"}]
    BY <2>2 DEF Silent, Says
  <2>4. QED
    BY <1>1, <2>1, <2>3 DEF Return
<1>5. QED
  BY <1>2, <1>3, <1>4 DEF time

LEMMA SignedFile ==
  ASSUME TypeOK, NEW policy \in Policies
  PROVE  /\ [Empty EXCEPT !.kind = "good", !.iat = server, !.policy = policy,
                          !.skew = clock - server] \in File
         /\ [Empty EXCEPT !.kind = "good", !.iat = server, !.policy = policy,
                          !.skew = clock - server, !.hwm = clock, !.last = clock] \in File
<1> USE ClockConstants DEF TypeOK
<1>1. /\ server \in Times /\ clock \in Marks /\ None \in Marks /\ clock - server \in -MaxTime..MaxTime
      /\ 0 \in Times /\ None \in None..MaxTime + RetryAfterMax
  BY DEF Times, Marks
<1>2. Empty \in [kind : Kinds, iat : Times, policy : Policies \union {"full"},
                 skew : -MaxTime..MaxTime, hwm : Marks, last : Marks,
                 until : None..MaxTime + RetryAfterMax, denied : Marks]
  BY <1>1 DEF Empty, Kinds
<1>3. "good" \in Kinds
  BY DEF Kinds
<1>4. QED
  BY <1>1, <1>2, <1>3 DEF File

LEMMA ClockTyped == Spec => []TypeOK
<1> USE ClockConstants
<1>1. Init => TypeOK
  <2> SUFFICES ASSUME Init PROVE TypeOK
    OBVIOUS
  <2>1. file \in File
    BY DEF Init, Empty, File, Kinds, Times, Marks
  <2>2. NoMemory \in Memory
    BY DEF NoMemory, Memory, Marks, Times
  <2>3. /\ Idle \in [pc : {"idle", "renew", "bootstrap", "again", "afresh"}, op : Ops]
        /\ Silent \in [says : Says \union {"none"}, op : {"write", "other"},
                       policy : Policies \union {"full"}, by : {"it", "bootstrap"}]
    BY DEF Idle, Ops, Silent
  <2>4. server \in Times /\ clock \in Times /\ sets \in 0..MaxSets
    BY DEF Init, Times
  <2>5. QED
    BY <2>1, <2>2, <2>3, <2>4 DEF Init, TypeOK
<1>2. TypeOK /\ [Next]_vars => TypeOK'
  <2> SUFFICES ASSUME TypeOK, [Next]_vars PROVE TypeOK'
    OBVIOUS
  <2>1. ASSUME NEW p \in Procs, NEW op \in Ops, Evaluate(p, op) PROVE TypeOK'
    <3>1. (op \in {"read", "write"}) \in BOOLEAN
      OBVIOUS
    <3>2. QED
      BY <2>1, <3>1, JudgeTyped DEF Evaluate
  <2>2. ASSUME NEW p \in Procs, EvaluateTwice(p) \/ EvaluateAgain(p) PROVE TypeOK'
    <3>1. call[p].op \in Ops /\ "read" \in Ops
      BY DEF TypeOK, Ops
    <3>2. QED
      BY <2>2, <3>1, JudgeTyped DEF EvaluateTwice, EvaluateAgain
  <2>3. ASSUME NEW p \in Procs, ServerRejected(p) PROVE TypeOK'
    BY <2>3 DEF ServerRejected, time, TypeOK
  <2>4. ASSUME NEW p \in Procs, Restart(p) PROVE TypeOK'
    <3>1. NoMemory \in Memory
      BY DEF NoMemory, Memory, Marks, Times, TypeOK
    <3>2. /\ Idle \in [pc : {"idle", "renew", "bootstrap", "again", "afresh"}, op : Ops]
          /\ Silent \in [says : Says \union {"none"}, op : {"write", "other"},
                         policy : Policies \union {"full"}, by : {"it", "bootstrap"}]
      BY DEF Idle, Ops, Silent
    <3>3. QED
      BY <2>4, <3>1, <3>2 DEF Restart, time, TypeOK
  <2>5. ASSUME NEW a \in attempts, Renewal(a) PROVE TypeOK'
    <3>1. a[1] \in Procs /\ clock \in Marks /\ Later(mem[a[1]].last, clock) \in Marks
      BY DEF TypeOK, Threads, Later, Memory, Marks, Times
    <3>2. ASSUME NEW policy \in Policies, CheckIn(a, policy) PROVE TypeOK'
      <4>1. file' \in File
        BY <3>2, SignedFile DEF CheckIn
      <4>2. [mem[a[1]] EXCEPT !.hwm = clock, !.last = Later(mem[a[1]].last, clock),
                              !.token = server, !.skew = clock - server] \in Memory
        <5>1. server \in Marks /\ clock - server \in -MaxTime..MaxTime /\ mem[a[1]] \in Memory
          BY <3>1 DEF TypeOK, Times, Marks
        <5>2. QED
          BY <3>1, <5>1 DEF Memory
      <4>3. mem' \in [Procs -> Memory]
        BY <3>1, <3>2, <4>2 DEF CheckIn, TypeOK
      <4>4. QED
        BY <3>2, <4>1, <4>3, ReturnTyped DEF CheckIn
    <3>3. [mem[a[1]] EXCEPT !.last = Later(mem[a[1]].last, clock)] \in Memory
      <4>1. mem[a[1]] \in Memory
        BY <3>1 DEF TypeOK
      <4>2. QED
        BY <3>1, <4>1 DEF Memory
    <3>4. ASSUME Denied(a) PROVE TypeOK'
      <4>1. file' \in File
        <5>1. 0 \in Times /\ 0 \in -MaxTime..MaxTime /\ "absent" \in Kinds
          BY DEF Times, Kinds
        <5>2. file \in File /\ "full" \in Policies \union {"full"}
          BY DEF TypeOK
        <5>3. QED
          BY <3>1, <3>4, <5>1, <5>2 DEF Denied, File
      <4>2. mem' \in [Procs -> Memory]
        BY <3>1, <3>3, <3>4 DEF Denied, TypeOK
      <4>3. QED
        BY <3>4, <4>1, <4>2, ReturnTyped DEF Denied, TypeOK
    <3>5. ASSUME NEW wait \in {0, RetryAfterMax}, Unanswered(a, wait) PROVE TypeOK'
      <4>1. file' \in File
        <5>1. clock + wait \in None..MaxTime + RetryAfterMax
          BY DEF TypeOK, Times
        <5>2. file \in File
          BY DEF TypeOK
        <5>3. QED
          BY <3>1, <3>5, <5>1, <5>2 DEF Unanswered, File
      <4>2. mem' \in [Procs -> Memory]
        BY <3>1, <3>3, <3>5 DEF Unanswered, TypeOK
      <4>3. QED
        BY <3>5, <4>1, <4>2, ReturnTyped DEF Unanswered, TypeOK
    <3>6. ASSUME Shared(a) \/ LockBusy(a) PROVE TypeOK'
      BY <3>6, ReturnTyped DEF Shared, LockBusy, TypeOK
    <3>7. QED
      BY <2>5, <3>2, <3>4, <3>5, <3>6 DEF Renewal
  <2>6. ASSUME NEW policy \in Policies, SignIn(policy) PROVE TypeOK'
    <3>1. Silent \in [says : Says \union {"none"}, op : {"write", "other"},
                      policy : Policies \union {"full"}, by : {"it", "bootstrap"}]
      BY DEF Silent
    <3>2. file' \in File
      BY <2>6, SignedFile DEF SignIn
    <3>3. QED
      BY <2>6, <3>1, <3>2 DEF SignIn, time, TypeOK
  <2>7. CASE Tick
    BY <2>7 DEF Tick, TypeOK, Times
  <2>8. ASSUME NEW c \in Times, SetClock(c) PROVE TypeOK'
    <3>1. sets' \in 0..MaxSets
      BY <2>8 DEF SetClock, TypeOK
    <3>2. steady' \in BOOLEAN /\ clock' \in Times
      BY <2>8 DEF SetClock
    <3>3. UNCHANGED <<server, file, mem, forced, call, attempts, overtaken, verdict>>
      BY <2>8 DEF SetClock
    <3>4. QED
      BY <3>1, <3>2, <3>3 DEF TypeOK
  <2>9. CASE UNCHANGED vars
    BY <2>9 DEF vars, TypeOK
  <2>10. QED
    BY <2>1, <2>2, <2>3, <2>4, <2>5, <2>6, <2>7, <2>8, <2>9 DEF Next, ProcStep
<1>3. QED
  BY <1>1, <1>2, PTL DEF Spec

\* What the end of a renewal leaves of the answers: nobody is let in by it.
LEMMA ReturnVerdict ==
  ASSUME TypeOK, NEW a \in attempts, NEW outcome, NEW moved, Return(a, outcome, moved)
  PROVE  /\ \A q \in Procs : verdict'[q] = verdict[q] \/ verdict'[q].says \in {"none", "setup"}
         /\ outcome = "ok" => \A q \in Procs : verdict'[q] = Silent
<1>1. CASE outcome = "ok"
  BY <1>1 DEF Return, Silent
<1>2. CASE outcome # "ok"
  <2>1. \/ UNCHANGED verdict
        \/ verdict' = [verdict EXCEPT ![a[1]] = [Silent EXCEPT !.says = "setup",
                                                 !.op = Recorded(call[a[1]].op)]]
    BY <1>2 DEF Return
  <2>2. [Silent EXCEPT !.says = "setup", !.op = Recorded(call[a[1]].op)].says = "setup"
    BY DEF Silent
  <2>3. QED
    BY <1>2, <2>1, <2>2 DEF TypeOK
<1>3. QED
  BY <1>1, <1>2

LEMMA RenewalVerdict ==
  ASSUME TypeOK, NEW a \in attempts, Renewal(a)
  PROVE  \A q \in Procs : verdict'[q] = verdict[q] \/ verdict'[q].says \in {"none", "setup"}
BY ReturnVerdict DEF Renewal, CheckIn, Denied, Shared, LockBusy, Unanswered

LEMMA ReadOnlyStep == TypeOK /\ ReadOnlyHeld /\ [Next]_vars => ReadOnlyHeld'
<1> SUFFICES ASSUME TypeOK, ReadOnlyHeld, [Next]_vars, NEW q \in Procs,
                    verdict'[q] # verdict[q], verdict'[q].says \in Allowed,
                    verdict'[q].op = "write", verdict'[q].policy = "read_only"
             PROVE  verdict'[q].by = "bootstrap"
  BY DEF ReadOnlyHeld
<1>1. ASSUME NEW p \in Procs, NEW op \in Ops, Evaluate(p, op)
      PROVE  verdict'[q].by = "bootstrap"
  <2>1. Judge(p, op, op, op \in {"read", "write"}, "it")
    BY <1>1 DEF Evaluate
  <2>2. q = p /\ verdict'[p] = [says |-> WithPolicy(Judged(p), op), op |-> Recorded(op),
                               policy |-> file.policy, by |-> "it"]
    BY <2>1 DEF Judge, TypeOK
  <2>3. QED
    BY <2>2 DEF WithPolicy, Recorded, Allowed
<1>2. ASSUME NEW p \in Procs, EvaluateTwice(p)
      PROVE  verdict'[q].by = "bootstrap"
  <2>1. Judge(p, call[p].op, call[p].op, FALSE, "it")
    BY <1>2 DEF EvaluateTwice
  <2>2. q = p /\ verdict'[p] = [says |-> WithPolicy(Judged(p), call[p].op),
                               op |-> Recorded(call[p].op), policy |-> file.policy, by |-> "it"]
    BY <2>1 DEF Judge, TypeOK
  <2>3. QED
    BY <2>2 DEF WithPolicy, Recorded, Allowed
<1>3. ASSUME NEW p \in Procs, EvaluateAgain(p)
      PROVE  verdict'[q].by = "bootstrap"
  <2>1. Judge(p, call[p].op, "read", FALSE, "bootstrap")
    BY <1>3 DEF EvaluateAgain
  <2>2. q = p /\ verdict'[p] = [says |-> WithPolicy(Judged(p), "read"),
                               op |-> Recorded(call[p].op), policy |-> file.policy,
                               by |-> "bootstrap"]
    BY <2>1 DEF Judge, TypeOK
  <2>3. QED
    BY <2>2
<1>4. ASSUME NEW a \in attempts, Renewal(a) PROVE verdict'[q].by = "bootstrap"
  BY <1>4, RenewalVerdict DEF Allowed
<1>5. ASSUME \/ \E policy \in Policies : SignIn(policy)
             \/ \E p \in Procs : Restart(p)
      PROVE  FALSE
  <2>1. verdict'[q] = Silent \/ verdict'[q] = verdict[q]
    BY <1>5 DEF SignIn, Restart, TypeOK
  <2>2. QED
    BY <2>1 DEF Silent, Allowed
<1>6. CASE \/ \E p \in Procs : ServerRejected(p)
           \/ Tick \/ (\E c \in Times : SetClock(c)) \/ UNCHANGED vars
  BY <1>6 DEF ServerRejected, Tick, SetClock, vars
<1>7. QED
  BY <1>1, <1>2, <1>3, <1>4, <1>5, <1>6 DEF Next, ProcStep

\* A write under a read-only pass gets through in no process but from the
\* evaluation that fetched the first pass (_with_policy, _evaluate_again).
THEOREM ReadOnlyIsHeld == Spec => []ReadOnlyHeld
<1>1. Init => ReadOnlyHeld
  BY DEF Init, ReadOnlyHeld, Silent, Allowed
<1>2. QED
  BY <1>1, ReadOnlyStep, ClockTyped, PTL DEF Spec

\* A process that said "expired" has seen, and will see, a time past the grace
\* of the pass in the file, unless the server has denied it since.
PastGrace(p) ==
  \/ file.denied # None
  \/ file.kind = "good" /\ Later(mem[p].hwm, file.hwm) - SkewOf(p) > file.iat + Exp + Og

ExpiredInv == \A p \in Procs : verdict[p].says = "expired" => PastGrace(p)

\* The mark in memory and the one in the file only grow at a judgement.
LEMMA JudgeMarks ==
  ASSUME TypeOK, NEW p \in Procs, NEW asked, NEW op, NEW blocks, NEW by,
         Judge(p, asked, op, blocks, by)
  PROVE  /\ mem'[p].hwm = Seen(p) /\ \A q \in Procs \ {p} : mem'[q] = mem[q]
         /\ mem'[p].token = mem[p].token /\ mem'[p].skew = mem[p].skew
         /\ file'.hwm \in {file.hwm, Later(file.hwm, Seen(p))}
         /\ file'.kind = file.kind /\ file'.iat = file.iat /\ file'.skew = file.skew
         /\ file'.denied = file.denied /\ file'.policy = file.policy
         /\ UNCHANGED <<time, steady>>
BY DEF Judge, TypeOK, Memory, File

\* What the types say of the numbers below.
LEMMA ClockNumbers ==
  ASSUME TypeOK
  PROVE  /\ server \in Int /\ clock \in Int /\ clock >= 0
         /\ file.hwm \in Int /\ file.skew \in Int /\ file.iat \in Int /\ file.iat >= 0
         /\ \A p \in Procs : mem[p].hwm \in Int /\ mem[p].skew \in Int /\ mem[p].token \in Int
BY ClockConstants DEF TypeOK, File, Memory, Marks, Times

LEMMA JudgePast ==
  ASSUME TypeOK, ExpiredInv, NEW p \in Procs, NEW asked, NEW op, NEW blocks, NEW by,
         Judge(p, asked, op, blocks, by)
  PROVE  ExpiredInv'
<1> USE ClockConstants, ClockNumbers
<1>1. Seen(p) \in Int /\ Seen(p) >= mem[p].hwm /\ Seen(p) >= clock
  BY DEF Seen, Later
<1>2. \A q \in Procs : SkewOf(q)' = SkewOf(q) /\ SkewOf(q) \in Int
  BY JudgeMarks DEF SkewOf
<1>3. \A q \in Procs : Later(mem'[q].hwm, file'.hwm) >= Later(mem[q].hwm, file.hwm)
                      /\ Later(mem[q].hwm, file.hwm) \in Int /\ Later(mem'[q].hwm, file'.hwm) \in Int
  <2> TAKE q \in Procs
  <2>1. mem'[q].hwm \in Int /\ mem'[q].hwm >= mem[q].hwm
    BY <1>1, JudgeMarks
  <2>2. file'.hwm \in Int /\ file'.hwm >= file.hwm
    BY <1>1, JudgeMarks DEF Later
  <2>3. QED
    BY <2>1, <2>2 DEF Later
<1>4. \A q \in Procs : PastGrace(q) => PastGrace(q)'
  BY <1>2, <1>3, JudgeMarks DEF PastGrace
<1>5. WithPolicy(Judged(p), op) = "expired" => PastGrace(p)'
  <2> SUFFICES ASSUME WithPolicy(Judged(p), op) = "expired" PROVE PastGrace(p)'
    OBVIOUS
  <2>1. Judged(p) = "expired" /\ file.denied = None /\ file.kind = "good" /\ Band(p) = "expired"
    BY DEF WithPolicy, Judged, TypeOK, File, Kinds
  <2>2. Mark(p) - SkewOf(p) > file.iat + Exp + Og
    BY <1>1, <1>2, <2>1 DEF Band, ServerNow, Mark, Later
  <2>3. Later(mem'[p].hwm, file'.hwm) = Mark(p)
    BY <1>1, JudgeMarks DEF Later, Mark
  <2>4. QED
    BY <1>2, <2>1, <2>2, <2>3, JudgeMarks DEF PastGrace
<1>6. QED
  <2>1. \/ UNCHANGED verdict
        \/ /\ verdict'[p].says = WithPolicy(Judged(p), op)
           /\ \A q \in Procs \ {p} : verdict'[q] = verdict[q]
    BY DEF Judge, TypeOK
  <2>2. QED
    BY <1>4, <1>5, <2>1 DEF ExpiredInv

LEMMA ExpiredStep ==
  ASSUME TypeOK, ExpiredInv, [Next]_vars
  PROVE  ExpiredInv'
<1> USE ClockConstants
<1>1. ASSUME NEW p \in Procs, EvaluateTwice(p) \/ EvaluateAgain(p) \/ \E op \in Ops : Evaluate(p, op)
      PROVE  ExpiredInv'
  BY <1>1, JudgePast DEF Evaluate, EvaluateTwice, EvaluateAgain
<1>2. ASSUME NEW a \in attempts, NEW policy \in Policies, CheckIn(a, policy) PROVE ExpiredInv'
  <2>1. \A q \in Procs : verdict'[q] = Silent
    BY <1>2, ReturnVerdict DEF CheckIn
  <2>2. QED
    BY <2>1 DEF ExpiredInv, Silent
<1>3. ASSUME NEW a \in attempts, Denied(a) PROVE ExpiredInv'
  <2>1. file'.denied = clock /\ clock # None
    BY <1>3, ClockNumbers DEF Denied, TypeOK, File
  <2>2. QED
    BY <2>1 DEF ExpiredInv, PastGrace
<1>4. ASSUME NEW a \in attempts, Shared(a) \/ LockBusy(a) \/ (\E wait \in {0, RetryAfterMax} : Unanswered(a, wait))
      PROVE  ExpiredInv'
  <2>1. \A q \in Procs : verdict'[q].says = "expired" => verdict[q].says = "expired"
    BY <1>4, ReturnVerdict DEF Shared, LockBusy, Unanswered
  <2>2. /\ file'.hwm = file.hwm /\ file'.kind = file.kind /\ file'.iat = file.iat
        /\ file'.skew = file.skew /\ file'.denied = file.denied
    BY <1>4 DEF Shared, LockBusy, Unanswered, TypeOK, File
  <2>3. \A q \in Procs : /\ mem'[q].hwm = mem[q].hwm /\ mem'[q].token = mem[q].token
                        /\ mem'[q].skew = mem[q].skew
    <3>1. a[1] \in Procs
      BY DEF TypeOK, Threads
    <3>2. mem' = mem \/ mem' = [mem EXCEPT ![a[1]].last = Later(@, clock)]
      BY <1>4 DEF Shared, LockBusy, Unanswered
    <3>3. QED
      BY <3>1, <3>2 DEF TypeOK, Memory
  <2>4. QED
    BY <2>1, <2>2, <2>3 DEF ExpiredInv, PastGrace, SkewOf, Later
<1>5. ASSUME NEW policy \in Policies, SignIn(policy) PROVE ExpiredInv'
  BY <1>5 DEF SignIn, ExpiredInv, Silent
<1>6. ASSUME NEW p \in Procs, Restart(p) PROVE ExpiredInv'
  <2>1. verdict'[p] = Silent /\ \A q \in Procs \ {p} : verdict'[q] = verdict[q] /\ mem'[q] = mem[q]
    BY <1>6 DEF Restart, TypeOK
  <2>2. QED
    BY <1>6, <2>1 DEF Restart, ExpiredInv, PastGrace, SkewOf, Silent
<1>7. CASE \/ \E p \in Procs : ServerRejected(p)
           \/ Tick \/ (\E c \in Times : SetClock(c)) \/ UNCHANGED vars
  BY <1>7 DEF ServerRejected, Tick, SetClock, vars, ExpiredInv, PastGrace, SkewOf
<1>8. QED
  BY <1>1, <1>2, <1>3, <1>4, <1>5, <1>6, <1>7 DEF Next, ProcStep, Renewal

\* A process that found its pass past the grace does not find it within the
\* grace again before a check-in or a sign-in, however the clock is set and
\* whoever writes the file (_note_hwm).
THEOREM ExpiredHolds == Spec => ExpiredSticks
<1> DEFINE Sticks == \A p \in Procs : verdict[p].says = "expired" => verdict'[p].says \notin Allowed
<1>1. Init => ExpiredInv
  BY DEF Init, ExpiredInv, Silent
<1>2. TypeOK /\ ExpiredInv /\ [Next]_vars => ExpiredInv'
  BY ExpiredStep
<1>3. TypeOK /\ ExpiredInv /\ [Next]_vars => Sticks
  <2> SUFFICES ASSUME TypeOK, ExpiredInv, [Next]_vars, NEW q \in Procs,
                      verdict[q].says = "expired", verdict'[q].says \in Allowed
               PROVE  FALSE
    OBVIOUS
  <2>1. ASSUME NEW p \in Procs, NEW asked, NEW op, NEW blocks, NEW by, Judge(p, asked, op, blocks, by)
        PROVE  FALSE
    <3>1. p = q /\ WithPolicy(Judged(q), op) \in Allowed
      <4>1. \/ UNCHANGED verdict
            \/ /\ verdict'[p].says = WithPolicy(Judged(p), op)
               /\ \A z \in Procs \ {p} : verdict'[z] = verdict[z]
        BY <2>1 DEF Judge, TypeOK
      <4>2. QED
        BY <4>1 DEF Allowed
    <3>2. file.denied = None /\ file.kind = "good" /\ Band(q) \in Allowed
      BY <3>1 DEF WithPolicy, Judged, Allowed, TypeOK, File, Kinds
    <3>3. Later(mem[q].hwm, file.hwm) - SkewOf(q) > file.iat + Exp + Og
      BY <3>2 DEF ExpiredInv, PastGrace
    <3>4. SkewOf(q) \in Int /\ Mark(q) >= Later(mem[q].hwm, file.hwm) /\ Mark(q) \in Int
          /\ Later(mem[q].hwm, file.hwm) \in Int
      BY ClockNumbers, ClockConstants DEF SkewOf, Mark, Seen, Later
    <3>5. ServerNow(q) > file.iat + Exp + Og
      BY <3>3, <3>4, ClockNumbers, ClockConstants DEF ServerNow
    <3>6. Band(q) = "expired"
      BY <3>4, <3>5, ClockNumbers, ClockConstants DEF Band, ServerNow
    <3>7. QED
      BY <3>2, <3>6 DEF Allowed
  <2>2. ASSUME NEW a \in attempts, Renewal(a) PROVE FALSE
    BY <2>2, RenewalVerdict DEF Allowed
  <2>3. verdict'[q] # verdict[q]
    BY DEF Allowed
  <2>4. ASSUME \/ \E policy \in Policies : SignIn(policy)
               \/ \E p \in Procs : Restart(p)
        PROVE  FALSE
    <3>1. verdict'[q] = Silent
      BY <2>3, <2>4 DEF SignIn, Restart, TypeOK
    <3>2. QED
      BY <3>1 DEF Silent, Allowed
  <2>5. ~(\/ \E p \in Procs : ServerRejected(p)
          \/ Tick \/ (\E c \in Times : SetClock(c)) \/ UNCHANGED vars)
    BY <2>3 DEF ServerRejected, Tick, SetClock, vars
  <2>6. QED
    BY <2>1, <2>2, <2>4, <2>5 DEF Next, ProcStep, Evaluate, EvaluateTwice, EvaluateAgain
<1>4. QED
  BY <1>1, <1>2, <1>3, ClockTyped, PTL DEF Spec, ExpiredSticks

\* From a check-in until somebody sets the clock, every mark of the only process
\* is a time the clock has shown since, and every skew it may use is the true one.
HealInv ==
  steady =>
    /\ file.hwm <= clock /\ \A p \in Procs : mem[p].hwm <= clock
    /\ file.kind = "good" => /\ file.skew = clock - server
                            /\ \A p \in Procs : mem[p].token = file.iat => mem[p].skew = file.skew
    /\ CheckInHeals

LEMMA JudgeHeals ==
  ASSUME TypeOK, HealInv, steady, NEW p \in Procs, NEW asked, NEW op, NEW blocks, NEW by,
         Judge(p, asked, op, blocks, by)
  PROVE  HealInv'
<1>0. /\ mem'[p].hwm = Seen(p) /\ \A q \in Procs \ {p} : mem'[q] = mem[q]
      /\ mem'[p].token = mem[p].token /\ mem'[p].skew = mem[p].skew
      /\ file'.hwm \in {file.hwm, Later(file.hwm, Seen(p))}
      /\ file'.kind = file.kind /\ file'.iat = file.iat /\ file'.skew = file.skew
      /\ UNCHANGED <<time, steady>>
  BY JudgeMarks
<1> USE ClockConstants, ClockNumbers DEF HealInv
<1>1. Seen(p) = clock /\ Mark(p) = clock
  BY DEF Seen, Mark, Later
<1>2. file'.hwm \in Int /\ file'.hwm <= clock
  BY <1>0, <1>1 DEF Later
<1>3. \A q \in Procs : mem'[q].hwm <= clock /\ mem'[q].token = mem[q].token /\ mem'[q].skew = mem[q].skew
  BY <1>0, <1>1
<1>4. UNCHANGED <<clock, server, steady>>
  BY <1>0 DEF time
<1>5. ASSUME file.kind = "good", file.skew <= SkewAhead, WithPolicy(Judged(p), op) = "expired"
      PROVE  server > file.iat + Exp + Og
  <2>1. Band(p) = "expired"
    BY <1>5 DEF WithPolicy, Judged, TypeOK, File, Kinds
  <2>2. SkewOf(p) = clock - server
    BY <1>5 DEF SkewOf
  <2>3. QED
    BY <1>1, <2>1, <2>2 DEF Band, ServerNow
<1>6. CheckInHeals'
  <2>1. \/ UNCHANGED verdict
        \/ /\ verdict'[p].says = WithPolicy(Judged(p), op)
           /\ \A q \in Procs \ {p} : verdict'[q] = verdict[q]
    BY DEF Judge, TypeOK
  <2>2. QED
    BY <1>4, <1>5, <2>1, <1>0 DEF CheckInHeals
<1>7. QED
  BY <1>2, <1>3, <1>4, <1>6, <1>0

LEMMA HealStep ==
  ASSUME \A p, q \in Procs : p = q, TypeOK, HealInv, [Next]_vars
  PROVE  HealInv'
<1> SUFFICES ASSUME steady' PROVE HealInv'
  BY DEF HealInv
<1> USE ClockConstants, ClockNumbers
<1>1. ASSUME NEW p \in Procs, EvaluateTwice(p) \/ EvaluateAgain(p) \/ \E op \in Ops : Evaluate(p, op)
      PROVE  HealInv'
  <2>1. steady
    BY <1>1 DEF Evaluate, EvaluateTwice, EvaluateAgain, Judge
  <2>2. QED
    BY <1>1, <2>1, JudgeHeals DEF Evaluate, EvaluateTwice, EvaluateAgain
<1>2. ASSUME NEW a \in attempts, NEW policy \in Policies, CheckIn(a, policy) PROVE HealInv'
  <2>1. a[1] \in Procs /\ \A p \in Procs : p = a[1]
    BY DEF TypeOK, Threads
  <2>2. file'.hwm = clock /\ file'.skew = clock - server /\ file'.iat = server
    BY <1>2 DEF CheckIn, Empty
  <2>3. \A p \in Procs : mem'[p].hwm = clock /\ mem'[p].skew = clock - server
    BY <1>2, <2>1 DEF CheckIn, TypeOK, Memory
  <2>4. \A p \in Procs : verdict'[p] = Silent
    BY <1>2, ReturnVerdict DEF CheckIn
  <2>5. UNCHANGED <<clock, server>>
    BY <1>2 DEF CheckIn, time
  <2>6. CheckInHeals'
    BY <2>4 DEF CheckInHeals, Silent
  <2>7. QED
    BY <2>2, <2>3, <2>5, <2>6 DEF HealInv
<1>3. ASSUME NEW a \in attempts,
             Denied(a) \/ Shared(a) \/ LockBusy(a) \/ (\E wait \in {0, RetryAfterMax} : Unanswered(a, wait))
      PROVE  HealInv'
  <2>1. \A q \in Procs : verdict'[q].says = "expired" => verdict[q].says = "expired"
    BY <1>3, ReturnVerdict DEF Denied, Shared, LockBusy, Unanswered
  <2>2. /\ file'.hwm = file.hwm /\ file'.kind \in {file.kind, "absent"}
        /\ file'.kind = "good" => file'.iat = file.iat /\ file'.skew = file.skew
    BY ZenonT(30), <1>3 DEF Denied, Shared, LockBusy, Unanswered, TypeOK, File
  <2>3. \A q \in Procs : /\ mem'[q].hwm = mem[q].hwm /\ mem'[q].token = mem[q].token
                        /\ mem'[q].skew = mem[q].skew
    <3>1. a[1] \in Procs
      BY DEF TypeOK, Threads
    <3>2. mem' = mem \/ mem' = [mem EXCEPT ![a[1]].last = Later(@, clock)]
      BY <1>3 DEF Denied, Shared, LockBusy, Unanswered
    <3>3. QED
      BY <3>1, <3>2 DEF TypeOK, Memory
  <2>4. UNCHANGED <<clock, server, steady>>
    BY <1>3 DEF Denied, Shared, LockBusy, Unanswered, time
  <2>5. CheckInHeals'
    BY <2>1, <2>2, <2>4 DEF HealInv, CheckInHeals
  <2>6. QED
    BY <2>2, <2>3, <2>4, <2>5 DEF HealInv
<1>4. ASSUME NEW p \in Procs, Restart(p) PROVE HealInv'
  <2>1. /\ verdict'[p] = Silent /\ mem'[p] = NoMemory
        /\ \A q \in Procs \ {p} : verdict'[q] = verdict[q] /\ mem'[q] = mem[q]
    BY <1>4 DEF Restart, TypeOK
  <2>2. UNCHANGED <<clock, server, steady, file>>
    BY <1>4 DEF Restart, time
  <2>3. CheckInHeals'
    BY <2>1, <2>2 DEF HealInv, CheckInHeals, Silent
  <2>4. QED
    BY <2>1, <2>2, <2>3 DEF HealInv, NoMemory
<1>5. CASE Tick
  <2>1. clock' = clock + 1 /\ server' = server + 1 /\ UNCHANGED <<file, mem, verdict, steady>>
    BY <1>5 DEF Tick
  <2>2. CheckInHeals'
    BY <2>1 DEF HealInv, CheckInHeals
  <2>3. QED
    BY <2>1, <2>2 DEF HealInv
<1>6. ~(\/ \E policy \in Policies : SignIn(policy)
        \/ \E c \in Times : SetClock(c))
  BY DEF SignIn, SetClock
<1>7. CASE (\E p \in Procs : ServerRejected(p)) \/ UNCHANGED vars
  BY <1>7 DEF ServerRejected, time, vars, HealInv, CheckInHeals
<1>8. QED
  BY <1>1, <1>2, <1>3, <1>4, <1>5, <1>6, <1>7 DEF Next, ProcStep, Renewal

\* After a check-in, and until somebody sets the clock, the process that made it
\* is not locked for a pass that has not expired.  Another process may be: it
\* keeps the mark it saw while the clock ran ahead (_do_refresh, _note_hwm).
THEOREM CheckInsHeal == (\A p, q \in Procs : p = q) /\ Spec => []CheckInHeals
<1> SUFFICES ASSUME \A p, q \in Procs : p = q PROVE Spec => []CheckInHeals
  OBVIOUS
<1>1. Init => HealInv
  BY DEF Init, HealInv
<1>2. TypeOK /\ HealInv /\ [Next]_vars => HealInv'
  BY HealStep
<1>3. HealInv => CheckInHeals
  BY DEF HealInv, CheckInHeals
<1>4. QED
  BY <1>1, <1>2, <1>3, ClockTyped, PTL DEF Spec

-----------------------------------------------------------------------------
(* The renewal of the pass: types.                                          *)

\* A denial in memory is of a session the server refuses (so of a session).
DeniedRevoked ==
    \A w \in Workers : worker[w].outcome = "denied" => worker[w].ident \in revoked

LEMMA TypeInit == RefreshInit => RefreshTyped /\ DeniedRevoked
  BY Constants DEF RefreshInit, RefreshTyped, DeniedRevoked, NoJob, NoFile, NoNonce, Bearers,
                   Files, Workings, Pcs, Holding

LEMMA IdleType == NoJob \in Workings
  BY DEF NoJob, NoFile, NoNonce, Bearers, Files, Workings, Pcs, Holding

LEMMA AppliedType ==
  ASSUME NEW me \in Workings, NEW n \in Nonces
  PROVE  Applied(me, n) \in Files
  BY DEF Applied, Workings, Files, Bearers

LEMMA TypeStep == RefreshTyped /\ DeniedRevoked /\ [RefreshNext]_refreshVars => (RefreshTyped /\ DeniedRevoked)'
<1> SUFFICES ASSUME RefreshTyped, DeniedRevoked, [RefreshNext]_refreshVars
             PROVE  RefreshTyped' /\ DeniedRevoked'
  OBVIOUS
<1> USE Constants
    DEF RefreshTyped, DeniedRevoked, At, GoOn, Finish, Disturb, LockFree, TakeLock,
        DropLock, files, lock, sessions, NoNonce, Bearers, Pcs, Holding
<1>1. ASSUME NEW w \in Workers, Step(w) PROVE RefreshTyped' /\ DeniedRevoked'
  <2>1. CASE ReadNonce(w)   BY <2>1 DEF ReadNonce, Workings, Files
  <2>2. CASE TryLock(w)     BY <2>2 DEF TryLock, Locked, Workings
  <2>3. CASE LeaveLock(w)      BY <2>3 DEF LeaveLock, NoJob, NoFile, Workings, Files
  <2>4. CASE StealUnlink(w)
    <3>1. worker' \in [Workers -> Workings]
      BY <2>4, IdleType DEF StealUnlink, Missed, Workings
    <3>2. DeniedRevoked'
      BY <2>4 DEF StealUnlink, Missed, NoJob, Workings
    <3>3. QED
      BY <2>4, <3>1, <3>2 DEF StealUnlink
  <2>5. CASE StealCreate(w)
    <3>1. worker' \in [Workers -> Workings]
      BY <2>5, IdleType DEF StealCreate, Missed, Locked, Workings
    <3>2. DeniedRevoked'
      BY <2>5 DEF StealCreate, Missed, Locked, NoJob, Workings
    <3>3. QED
      BY <2>5, <3>1, <3>2 DEF StealCreate
  <2>6. CASE CheckNonce(w)  BY <2>6 DEF CheckNonce, Workings
  <2>7. CASE Call(w)        BY <2>7 DEF Call, Verdict, Workings
  <2>8. CASE Load(w)        BY <2>8 DEF Load, Workings
  <2>9. CASE Store(w)
    <3>1. passFile' \in Files
      <4>1. worker[w] \in Workings
        OBVIOUS
      <4>2. PICK n \in FreshNonces(w) : passFile' = Applied(worker[w], n)
        BY <2>9 DEF Store
      <4>3. n \in Nonces
        BY DEF FreshNonces
      <4>4. Applied(worker[w], n) \in Files
        BY <4>1, <4>3, AppliedType
      <4>5. QED
        BY <4>2, <4>4
    <3>2. worker' \in [Workers -> Workings]
      BY <2>9 DEF Store, Stored, NoFile, Workings, Files
    <3>3. denials' \in SUBSET Sessions
      BY <2>9 DEF Store
    <3>4. DeniedRevoked'
      BY <2>9 DEF Store, Stored, Workings
    <3>5. QED
      BY <2>9, <3>1, <3>2, <3>3, <3>4 DEF Store
  <2>10. CASE SyncTier(w)   BY <2>10 DEF SyncTier, Workings
  <2>11. CASE SyncWrite(w)  BY <2>11 DEF SyncWrite, Workings
  <2>12. CASE Release(w)    BY <2>12 DEF Release, NoJob, NoFile, Workings, Files
  <2>13. QED
    BY <1>1, <2>1, <2>2, <2>3, <2>4, <2>5, <2>6, <2>7, <2>8, <2>9, <2>10,
       <2>11, <2>12 DEF Step
<1>2. ASSUME NEW w \in Workers, StartRefresh(w) \/ StartNote(w)
      PROVE  RefreshTyped' /\ DeniedRevoked'
  <2>1. CASE StartRefresh(w)
    BY <2>1 DEF StartRefresh, NoJob, NoFile, Workings, Files
  <2>2. CASE StartNote(w)
    BY <2>2 DEF StartNote, Workings
  <2>3. QED
    BY <1>2, <2>1, <2>2
<1>3. ASSUME NEW w \in Workers, StoreFails(w) \/ Crash(w)
      PROVE  RefreshTyped' /\ DeniedRevoked'
  <2>1. CASE StoreFails(w)
    BY <2>1 DEF StoreFails, Stored, NoFile, Workings, Files
  <2>2. CASE Crash(w)
    BY <2>2 DEF Crash, NoJob, NoFile, Workings, Files
  <2>3. QED
    BY <1>3, <2>1, <2>2
<1>4. ASSUME NEW s \in Sessions, SignInAnew(s) \/ Revoke(s)
      PROVE  RefreshTyped' /\ DeniedRevoked'
  BY <1>4 DEF SignInAnew, Revoke
<1>5. CASE SignOut \/ CliStep \/ CliCrash
  BY <1>5 DEF SignOut, CliStep, CliCrash, UnlinkCreds, RemovePass, RemoveLock,
              Install, NoFile, Files
<1>6. CASE LockExpires \/ Suspend
  BY <1>6 DEF LockExpires, Suspend
<1>7. CASE UNCHANGED refreshVars
  BY <1>7 DEF refreshVars
<1>8. QED
  BY <1>1, <1>2, <1>3, <1>4, <1>5, <1>6, <1>7 DEF RefreshNext

\* Files, lock, threads and history keep their types.
THEOREM RefreshTypeCorrect == RefreshSpec => []RefreshTyped
  BY TypeInit, TypeStep, PTL DEF RefreshSpec

-----------------------------------------------------------------------------
(* The renewal of the pass, while no lock is lost or removed.               *)

\* What the lock protects as long as nothing took it from its holder: the
\* thread in the section owns a fresh lock, what it read is still what the
\* file holds, and a pass it was granted has not been denied since.
CalmLock ==
    /\ cli = "idle" /\ age = "fresh"
    /\ \A w \in Workers :
         /\ worker[w].pc \in Holding <=> owner = w
         /\ worker[w].pc \notin {"unlink", "create", "syncWrite"}

CalmReads ==
    \A w \in Workers :
        /\ worker[w].pc = "call" => worker[w].before = passFile.nonce
        /\ worker[w].pc = "store" => worker[w].copy = passFile
        /\ worker[w].outcome # "none" => worker[w].pc \in {"load", "store"}
        /\ worker[w].outcome = "ok" => worker[w].ident \notin denials
        /\ worker[w].pc \in {"check", "call"} \/ worker[w].outcome # "none"
             => worker[w].job = "refresh"
        /\ worker[w].job = "refresh" => worker[w].ident = creds

CalmDenials ==
    /\ denials \subseteq revoked
    /\ \A s \in denials : passFile.token # s

Calm == CalmLock /\ CalmReads /\ CalmDenials
CalmInv == Undisturbed => Calm

LEMMA CalmInit == RefreshInit => CalmInv
  BY Constants DEF RefreshInit, CalmInv, Calm, CalmLock, CalmReads, CalmDenials, NoJob,
                   Holding

LEMMA StillUndisturbed == RefreshTyped /\ [RefreshNext]_refreshVars /\ Undisturbed' => Undisturbed
<1> SUFFICES ASSUME RefreshTyped, [RefreshNext]_refreshVars, disturbances' = 0 PROVE disturbances = 0
  BY DEF Undisturbed
<1> disturbances \in Nat
  BY Constants DEF RefreshTyped
<1>1. ASSUME NEW w \in Workers, Step(w) \/ StartRefresh(w) \/ StartNote(w)
      PROVE  disturbances = 0
  <2>1. CASE SyncTier(w)
    BY <2>1 DEF SyncTier, Disturb
  <2>2. CASE ~SyncTier(w)
    BY <1>1, <2>2
    DEF Step, StartRefresh, StartNote, ReadNonce, TryLock, LeaveLock, StealUnlink,
        StealCreate, CheckNonce, Call, Load, Store, SyncWrite, Release
  <2>3. QED
    BY <2>1, <2>2
<1>2. ASSUME NEW w \in Workers, StoreFails(w) \/ Crash(w)
      PROVE  disturbances = 0
  BY <1>2 DEF StoreFails, Crash, Disturb
<1>3. ASSUME NEW s \in Sessions, SignInAnew(s) \/ Revoke(s) PROVE disturbances = 0
  BY <1>3 DEF SignInAnew, Revoke, Disturb
<1>4. CASE SignOut \/ CliStep \/ LockExpires \/ Suspend \/ CliCrash
  BY <1>4 DEF SignOut, CliStep, UnlinkCreds, RemovePass, RemoveLock, Install,
              LockExpires, Suspend, CliCrash, Disturb
<1>5. CASE UNCHANGED refreshVars
  BY <1>5 DEF refreshVars
<1>6. QED
  BY <1>1, <1>2, <1>3, <1>4, <1>5 DEF RefreshNext

LEMMA CalmStep ==
  RefreshTyped /\ DeniedRevoked /\ CalmInv /\ [RefreshNext]_refreshVars => CalmInv'
<1> SUFFICES ASSUME RefreshTyped, DeniedRevoked, Calm, [RefreshNext]_refreshVars, disturbances' = 0,
                    disturbances = 0
             PROVE  Calm'
  BY StillUndisturbed DEF CalmInv, Undisturbed
<1> worker \in [Workers -> Workings] /\ disturbances \in Nat
  BY Constants DEF RefreshTyped
<1> USE Constants
    DEF Calm, CalmLock, CalmReads, CalmDenials, DeniedRevoked, At, GoOn, Finish,
        Disturb, LockFree, TakeLock, DropLock, files, lock, sessions, Holding
<1>1. ASSUME NEW w \in Workers, Step(w) PROVE Calm'
  <2>1. CASE ReadNonce(w)   BY <2>1 DEF ReadNonce, Workings
  <2>2. CASE TryLock(w)     BY <2>2 DEF TryLock, Locked, Workings
  <2>3. CASE LeaveLock(w)      BY <2>3 DEF LeaveLock, NoJob, Workings
  <2>4. CASE StealUnlink(w) BY <2>4 DEF StealUnlink
  <2>5. CASE StealCreate(w) BY <2>5 DEF StealCreate
  <2>6. CASE CheckNonce(w)  BY <2>6 DEF CheckNonce, Workings
  <2>7. CASE Call(w)        BY <2>7 DEF Call, Verdict, Workings
  <2>8. CASE Load(w)        BY <2>8 DEF Load, Workings
  <2>9. CASE Store(w)
    <3>1. PICK n \in FreshNonces(w) : passFile' = Applied(worker[w], n)
      BY <2>9 DEF Store
    <3>2. CalmLock'
      BY <2>9 DEF Store, Stored, Workings
    <3>3. CalmReads'
      BY <2>9 DEF Store, Stored, Workings
    <3>4. CalmDenials'
      <4> DEFINE me == worker[w]
      <4>0. me.copy = passFile /\ me.outcome \in {"none", "ok", "denied", "transient"}
        BY <2>9 DEF Store, Workings
      <4>1. CASE me.outcome = "ok"
        BY <2>9, <3>1, <4>1 DEF Store, Applied
      <4>2. CASE me.outcome = "denied"
        <5>1. denials' = denials \union {me.ident} /\ passFile'.token = NoSession
          BY <2>9, <3>1, <4>2 DEF Store, Applied
        <5>2. me.ident \in revoked /\ revoked' = revoked
          BY <2>9, <4>2 DEF Store
        <5>3. QED
          BY <5>1, <5>2 DEF RefreshTyped
      <4>3. CASE me.outcome \in {"none", "transient"}
        <5>1. passFile'.token = passFile.token
          BY <3>1, <4>0, <4>3 DEF Applied, RefreshTyped, Files
        <5>2. QED
          BY <2>9, <4>3, <5>1 DEF Store
      <4>4. QED
        BY <4>0, <4>1, <4>2, <4>3
    <3>5. QED
      BY <3>2, <3>3, <3>4
  <2>10. CASE SyncTier(w)   BY <2>10 DEF SyncTier, Workings
  <2>11. CASE SyncWrite(w)  BY <2>11 DEF SyncWrite
  <2>12. CASE Release(w)    BY <2>12 DEF Release, NoJob, Workings
  <2>13. QED
    BY <1>1, <2>1, <2>2, <2>3, <2>4, <2>5, <2>6, <2>7, <2>8, <2>9, <2>10,
       <2>11, <2>12 DEF Step
<1>2. ASSUME NEW w \in Workers, StartRefresh(w) \/ StartNote(w) PROVE Calm'
  <2>1. CASE StartRefresh(w)
    BY <2>1 DEF StartRefresh, NoJob, Workings
  <2>2. CASE StartNote(w)
    BY <2>2 DEF StartNote, Workings
  <2>3. QED
    BY <1>2, <2>1, <2>2
<1>3. ASSUME NEW s \in Sessions, Revoke(s) PROVE Calm'
  BY <1>3 DEF Revoke
<1>4. CASE CliStep
  BY <1>4 DEF CliStep, UnlinkCreds, RemovePass, RemoveLock, Install
<1>5. CASE LockExpires
  BY <1>5 DEF LockExpires, Abandoned, RefreshTyped
<1>6. CASE UNCHANGED refreshVars
  BY <1>6 DEF refreshVars
<1>7. QED
  <2>1. \A w \in Workers : ~StoreFails(w) /\ ~Crash(w)
    BY DEF StoreFails, Crash
  <2>2. ~SignOut /\ ~Suspend /\ ~CliCrash /\ \A s \in Sessions : ~SignInAnew(s)
    BY DEF SignOut, Suspend, CliCrash, SignInAnew
  <2>3. QED
    BY <1>1, <1>2, <1>3, <1>4, <1>5, <1>6, <2>1, <2>2 DEF RefreshNext

LEMMA CalmAlways == RefreshSpec => []CalmInv
  BY TypeInit, TypeStep, CalmInit, CalmStep, PTL DEF RefreshSpec

\* One thread of one process at a time is between lock and release.
THEOREM LockExcludes == RefreshSpec => []UndisturbedExclusive
<1>1. CalmInv => UndisturbedExclusive
  BY DEF CalmInv, Calm, CalmLock, UndisturbedExclusive, Exclusive
<1>2. QED
  BY CalmAlways, <1>1, PTL

\* A refresh that calls the server has seen every refresh that finished
\* since it started: racing refreshes make one call.
THEOREM RacersShareOneCall == RefreshSpec => []OneCall
<1>1. CalmInv => OneCall
  BY DEF CalmInv, Calm, CalmReads, OneCall, At
<1>2. QED
  BY CalmAlways, <1>1, PTL

\* A recorded denial is never overwritten by an answer given before it.
THEOREM DenialHolds == RefreshSpec => []DenialSticks
<1>1. CalmInv => DenialSticks
  BY DEF CalmInv, Calm, CalmDenials, DenialSticks
<1>2. QED
  BY CalmAlways, <1>1, PTL

LEMMA PassKeptStep ==
  ASSUME RefreshTyped, DeniedRevoked, CalmInv, [RefreshNext]_refreshVars,
         NEW s \in Sessions \ revoked, Undisturbed, Usable(s), creds' = s,
         disturbances' = 0
  PROVE  Usable(s)'
<1> Calm
  BY DEF CalmInv
<1>1. CASE passFile' = passFile
  BY <1>1 DEF Usable
<1>2. ASSUME NEW w \in Workers, Store(w) PROVE Usable(s)'
  <2> DEFINE me == worker[w]
  <2>1. PICK n \in FreshNonces(w) : passFile' = Applied(me, n)
    BY <1>2 DEF Store
  <2>2. me.copy = passFile /\ me.outcome \in {"none", "ok", "denied", "transient"}
    BY <1>2 DEF Calm, CalmReads, Store, At, RefreshTyped, Workings
  <2>3. me.outcome # "none" => me.ident = s
    BY DEF Calm, CalmReads, Usable
  <2>4. me.outcome # "denied"
    BY <2>3 DEF DeniedRevoked
  <2>5. CASE me.outcome = "ok"
    BY <2>1, <2>3, <2>5 DEF Applied, Usable
  <2>6. CASE me.outcome \in {"none", "transient"}
    BY <2>1, <2>2, <2>6 DEF Applied, Usable, RefreshTyped, Files
  <2>7. QED
    BY <2>2, <2>4, <2>5, <2>6
<1>3. CASE passFile' # passFile
  <2>1. cli = "idle" /\ disturbances = 0
    BY DEF Calm, CalmLock, Undisturbed
  <2>2. \E w \in Workers : Store(w)
    BY <1>3, <2>1
    DEF RefreshNext, refreshVars, files, Step, CliStep, StartRefresh, StartNote, ReadNonce,
        TryLock, LeaveLock, StealUnlink, StealCreate, CheckNonce, Call, Load,
        SyncTier, SyncWrite, Release, StoreFails, Crash, SignInAnew, Revoke, SignOut,
        UnlinkCreds, RemovePass, RemoveLock, Install, LockExpires, Suspend,
        CliCrash
  <2>3. QED
    BY <1>2, <2>2
<1>4. QED
  BY <1>1, <1>3

\* No step takes the pass from a sign-in the server accepts while no lock was
\* lost and nobody signs in or out.
THEOREM PassIsKept == RefreshSpec => UndisturbedPassKept
<1> DEFINE Kept == \A s \in Sessions \ revoked :
                     Undisturbed /\ Usable(s) /\ creds' = s /\ disturbances' = 0
                       => Usable(s)'
<1>1. RefreshTyped /\ DeniedRevoked /\ CalmInv /\ [RefreshNext]_refreshVars => [Kept]_refreshVars
  BY PassKeptStep
<1>2. RefreshSpec => [][Kept]_refreshVars
  BY <1>1, TypeInit, TypeStep, CalmAlways, PTL DEF RefreshSpec
<1>3. QED
  BY <1>2 DEF UndisturbedPassKept
=============================================================================
