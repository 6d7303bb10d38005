------------------------------- MODULE CapGate -------------------------------
(***************************************************************************)
(* The free-tier cap (sibyl_memory_client/_capcheck.py and                 *)
(* MemoryClient._verify_committed_size): each process writes one memory    *)
(* store, and sizes all the stores of the account before it asks; stores   *)
(* that share a directory share the tier cache.                            *)
(*                                                                         *)
(* A size is a number of pages.  The server answers about the one account  *)
(* "me"; a cache entry is free (capped) or uncapped, with the time it was  *)
(* fetched and the end of the subscription the server named, None if none. *)
(***************************************************************************)
EXTENDS Integers, FiniteSets, Folds

CONSTANTS
    Writers, Stores,
    StoreOf,            \* [Procs -> Stores]
    Cap, CeilingMult,   \* FREE_TIER_CAP_BYTES, FAIL_OPEN_CEILING_MULT
    Grace,              \* GRACE_PERIOD_SECONDS
    CacheWrites,        \* {"done"}, or {"done", "failed"} on a full disk
    Terms,              \* when the subscription of an upgrade may end, None never
    Sizes,              \* what a write adds; its estimate is one of them too
    MaxSize, LastHour   \* bounds

ASSUME CapConstants ==
    /\ StoreOf \in [Writers -> Stores] /\ IsFiniteSet(Stores)
    /\ {Cap, CeilingMult, Grace, MaxSize, LastHour} \subseteq Nat
    /\ Sizes \subseteq Nat /\ Terms \subseteq -1..LastHour /\ CacheWrites \subseteq {"done", "failed"}

NoEnd == -1
Ends == 0..LastHour + Grace
Tiers == {"free", "paid"}
NoEntry == [account |-> "none", tier |-> "free", at |-> 0, until |-> NoEnd]

VARIABLES
    size,      \* pages of each store
    cache,     \* tier_cache.json beside each store
    account,   \* at the server: [tier, until]
    pass,      \* tier of the verified entitlement, "none" without one
    granted,   \* per process: _server_uncapped_until
    writer,    \* per process: the write under way
    now,
    saver,     \* history: who stored each cached answer last
    wasPaid    \* history: the account, or a pass, was paid once

capVars == <<size, cache, account, pass, granted, writer, now, saver, wasPaid>>

Resting == [pc |-> "idle", est |-> 0, adds |-> 0, seen |-> NoEntry, answer |-> NoEntry]

\* A computer with a free account; the caches may be left over or forged.
CapInit ==
    /\ size = [s \in Stores |-> 0]
    /\ cache \in [Stores -> {NoEntry} \union
                   {[account |-> a, tier |-> t, at |-> 0, until |-> NoEnd]
                      : a \in {"me", "null"}, t \in Tiers}]
    /\ account = [tier |-> "free", until |-> NoEnd]
    /\ pass \in {"none", "free"}
    /\ granted = [p \in Writers |-> NoEnd]
    /\ writer = [p \in Writers |-> Resting]
    /\ now = 0 /\ wasPaid = FALSE
    /\ saver = [s \in Stores |-> "nobody"]

(* ------------------------------- reading ------------------------------ *)

\* TierCacheEntry.expires_at
Expires(e) == IF e.until # NoEnd /\ e.until < e.at + Grace THEN e.until ELSE e.at + Grace
Fresh(e) == e.account = "me" /\ now < Expires(e)

\* Mutant: the cache alone unlocks, as before 0.9.0.
TrustedAlways(p) == TRUE

\* _cache_uncapped_trusted
Trusted(p) == pass = "paid" \/ now < granted[p]

\* aggregate_db_size: every store of the account.
Footprint == MapThenFoldSet(+, 0, LAMBDA s : size[s], LAMBDA S : CHOOSE s \in S : TRUE, Stores)
Estimated(p) == Footprint + writer[p].est

\* _effective_cap_local: does no cap apply at the commit?  Freshness of an
\* uncapped entry is not asked again.
UncappedLocal(p) ==
    LET e == cache[StoreOf[p]] IN e.account = "me" /\ e.tier = "paid" /\ Trusted(p)

(* ----------------------------- one write ------------------------------ *)

Goto(p, pc) == writer' = [writer EXCEPT ![p].pc = pc]
Raise(p) == writer' = [writer EXCEPT ![p].pc = "refused"]

\* check: the cache is read first, the sizes after it.
Start(p) ==
    /\ writer[p].pc = "idle"
    /\ \E est \in Sizes, adds \in Sizes :
         writer' = [writer EXCEPT ![p] = [Resting EXCEPT !.pc = "size", !.est = est,
                      !.adds = adds, !.seen = cache[StoreOf[p]]]]
    /\ UNCHANGED <<size, cache, account, pass, granted, now, saver, wasPaid>>

\* The ladder of check: uncapped and trusted, under the cap, or ask.
Check(p) ==
    /\ writer[p].pc = "size"
    /\ LET e == writer[p].seen
           local == IF Fresh(e)
                    THEN IF e.tier = "paid" THEN Trusted(p) ELSE Estimated(p) <= Cap
                    ELSE FALSE
           \* a fresh uncapped entry that is not trusted falls through to the hint
           hinted == pass # "paid" /\ Estimated(p) <= Cap /\ ~(Fresh(e) /\ e.tier = "free")
       IN writer' = [writer EXCEPT ![p].pc = IF local \/ hinted THEN "commit" ELSE "ask",
                                   ![p].seen = NoEntry]
    /\ UNCHANGED <<size, cache, account, pass, granted, now, saver, wasPaid>>

\* The tier the server answers: a subscription that has ended is free.
ServerTier == IF account.until # NoEnd /\ now >= account.until THEN "free" ELSE account.tier

\* Mutant: the process does not remember that the server granted it.
AnsweredForgotten(p) ==
    /\ writer[p].pc = "ask"
    /\ LET a == [account |-> "me", tier |-> ServerTier, at |-> now,
                 until |-> IF ServerTier = "paid" THEN account.until ELSE NoEnd]
       IN writer' = [writer EXCEPT ![p].pc = "save", ![p].answer = a]
    /\ UNCHANGED <<size, cache, account, pass, granted, now, saver, wasPaid>>

\* A 2xx answer of /check-write.  A differing pass is asked to refresh, which is
\* RefreshPass.  Not ok raises after the cache was stored.
Answered(p) ==
    /\ writer[p].pc = "ask"
    /\ LET a == [account |-> "me", tier |-> ServerTier, at |-> now,
                 until |-> IF ServerTier = "paid" THEN account.until ELSE NoEnd]
       IN /\ granted' = [granted EXCEPT ![p] =
                           IF a.tier # "paid" THEN NoEnd ELSE Expires(a)]
          /\ writer' = [writer EXCEPT ![p].pc = "save", ![p].answer = a]
    /\ UNCHANGED <<size, cache, account, pass, now, saver, wasPaid>>

\* TierCache.store replaces the file; a failure is logged and ignored.
Save(p, outcome) ==
    /\ writer[p].pc = "save"
    /\ cache' = IF outcome = "done" THEN [cache EXCEPT ![StoreOf[p]] = writer[p].answer] ELSE cache
    /\ IF writer[p].answer.tier = "paid" \/ Estimated(p) <= Cap THEN Goto(p, "commit") ELSE Raise(p)
    /\ saver' = [saver EXCEPT ![StoreOf[p]] = p]
    /\ UNCHANGED <<size, account, pass, granted, now, wasPaid>>

\* 401 and 403 enforce the free cap whatever is cached (CAP-5).
AuthDenied(p) ==
    /\ writer[p].pc = "ask"
    /\ IF Estimated(p) <= Cap THEN Goto(p, "commit") ELSE Raise(p)
    /\ UNCHANGED <<size, cache, account, pass, granted, now, saver, wasPaid>>

\* No answer: an ended subscription stops; a cached answer is honoured for twice
\* the grace; a paid one fails open up to the ceiling; anybody else is capped.
Unreachable(p) ==
    /\ writer[p].pc = "ask"
    /\ LET e == cache[StoreOf[p]]
           mine == e.account = "me"
           honoured == mine /\ now - e.at < 2 * Grace
       IN IF mine /\ e.until # NoEnd /\ now >= e.until THEN Raise(p)
          ELSE IF mine /\ e.tier = "paid"
            THEN IF honoured \/ Estimated(p) <= Cap * CeilingMult THEN Goto(p, "commit") ELSE Raise(p)
            ELSE IF Estimated(p) <= Cap THEN Goto(p, "commit") ELSE Raise(p)
    /\ UNCHANGED <<size, cache, account, pass, granted, now, saver, wasPaid>>

\* The transaction: rows staged, _verify_committed_size on the store with its
\* write lock held, then the commit or the rollback.
Commit(p) ==
    /\ writer[p].pc = "commit"
    /\ LET s == StoreOf[p]
           total == size[s] + writer[p].adds
       IN /\ total <= MaxSize
          /\ IF UncappedLocal(p) \/ total <= Cap
               THEN size' = [size EXCEPT ![s] = total] /\ writer' = [writer EXCEPT ![p] = Resting]
               ELSE Raise(p) /\ UNCHANGED size
    /\ UNCHANGED <<cache, account, pass, granted, now, saver, wasPaid>>

\* CapExceededError reaches the caller.
GiveUp(p) ==
    /\ writer[p].pc = "refused"
    /\ writer' = [writer EXCEPT ![p] = Resting]
    /\ UNCHANGED <<size, cache, account, pass, granted, now, saver, wasPaid>>

(* ---------------------------- surroundings ---------------------------- *)

Delete(s) ==
    /\ size[s] > 0 /\ size' = [size EXCEPT ![s] = @ - 1]
    /\ UNCHANGED <<cache, account, pass, granted, writer, now, saver, wasPaid>>

Upgrade(until) ==
    /\ account' = [tier |-> "paid", until |-> until] /\ wasPaid' = TRUE
    /\ UNCHANGED <<size, cache, pass, granted, writer, now, saver>>

Downgrade ==
    /\ account.tier = "paid"
    /\ account' = [tier |-> "free", until |-> NoEnd]
    /\ UNCHANGED <<size, cache, pass, granted, writer, now, saver, wasPaid>>

\* The account gate renews the pass (EntitlementRefresh).
RefreshPass ==
    /\ pass' = ServerTier
    /\ UNCHANGED <<size, cache, account, granted, writer, now, saver, wasPaid>>

CapTick ==
    /\ now < LastHour /\ now' = now + 1
    /\ UNCHANGED <<size, cache, account, pass, granted, writer, saver, wasPaid>>

WriteStep(p) ==
    \/ Start(p) \/ Check(p) \/ Answered(p) \/ AuthDenied(p) \/ Unreachable(p)
    \/ \E outcome \in CacheWrites : Save(p, outcome)
    \/ Commit(p) \/ GiveUp(p)

CapNext ==
    \/ \E p \in Writers : WriteStep(p)
    \/ \E s \in Stores : Delete(s)
    \/ \E until \in Terms : Upgrade(until)
    \/ Downgrade \/ RefreshPass \/ CapTick

CapSpec == CapInit /\ [][CapNext]_capVars

(* ----------------------------- properties ----------------------------- *)

\* While the account was never paid, no store grows over the cap, whatever the
\* cache file says, whoever else writes and however late the sizes were read
\* (CAP-2, SEC-13).
FreeStaysUnderCap == wasPaid \/ \A s \in Stores : size[s] <= Cap

\* A write that the server has just answered as uncapped is refused at its
\* commit, which cannot ask again, only after another process stored its own
\* answer in the cache, or the subscription has ended (check, then
\* _effective_cap_local).
GrantReachesCommit ==
    [][\A p \in Writers :
         /\ writer[p].pc = "commit" /\ writer'[p].pc = "refused"
         /\ writer[p].answer.tier = "paid"
         => saver[StoreOf[p]] # p \/ now >= Expires(writer[p].answer)]_capVars

==============================================================================
