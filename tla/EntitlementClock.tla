-------------------------- MODULE EntitlementClock --------------------------
(***************************************************************************)
(* What the account gate decides from the pass it holds                    *)
(* (sibyl_memory_client/_entitlement.py): bands, clock high-water mark,    *)
(* skew, retry throttles and server policy, for processes that share       *)
(* entitlement.json and a wall clock that people set.  How a renewal locks *)
(* and writes the file is the module EntitlementRefresh: a renewal is one  *)
(* action here, and so is the write of the high-water mark.                *)
(*                                                                         *)
(* Times are whole numbers from 0, None is a value never stored.  A token  *)
(* is its iat, whether it verifies for this sign-in, and its policy; nbf   *)
(* is iat.  Notices and the cause of a denial are left out.                *)
(***************************************************************************)
EXTENDS Integers, FiniteSets

CONSTANTS
    Procs,
    Exp, Og, Ra,       \* life, offline grace and renewal age of a token
    SkewAhead,         \* MAX_SKEW_AHEAD_SECONDS
    NbfTolerance, RetryAfterMax, HwmInterval,
    DeniedRetry, StaleRetry, FreshRetry, LockedRetry,
    Policies,          \* the mem values the server may sign
    MaxTime, MaxSets   \* bounds: time, and how often people set the clock

ASSUME ConstantsAssumption ==
    /\ {Exp, Og, Ra, SkewAhead, NbfTolerance, RetryAfterMax} \subseteq Nat
    /\ {DeniedRetry, StaleRetry, FreshRetry, LockedRetry} \subseteq Nat
    /\ HwmInterval \in Nat \ {0} /\ MaxTime \in Nat \ {0} /\ MaxSets \in Nat
    /\ Policies \subseteq {"full", "read_only", "none"}

None == -1
Times == 0..MaxTime
Marks == Times \union {None}
Kinds == {"absent", "good", "invalid"}
File == [kind : Kinds, iat : Times, policy : Policies \union {"full"},
         skew : -MaxTime..MaxTime, hwm : Marks, last : Marks,
         until : None..MaxTime + RetryAfterMax, denied : Marks]
Empty == [kind |-> "absent", iat |-> 0, policy |-> "full", skew |-> 0,
          hwm |-> None, last |-> None, until |-> None, denied |-> None]

\* wrote: the last time this process persisted the mark, -HwmInterval never.
Memory == [hwm : Marks, last : Marks, wrote : -HwmInterval..MaxTime,
           token : Marks, skew : -MaxTime..MaxTime]
NoMemory == [hwm |-> None, last |-> None, wrote |-> -HwmInterval,
          token |-> None, skew |-> 0]

Ops == {"read", "write", "show", "peek"}
Says == {"fresh", "stale", "denied", "invalid", "setup", "expired",
         "policy_none", "policy_read_only"}
Allowed == {"fresh", "stale"}

VARIABLES
    server, clock,   \* the server's time, and this computer's
    file,            \* entitlement.json
    mem,             \* per process: the mirrors it keeps in memory
    forced,          \* processes told that the server refused their token
    call,            \* per process: an evaluation that waits for a renewal
    attempts,        \* the renewals under way, of a call or of a thread
    overtaken,       \* those that will find a new attempt nonce
    verdict,         \* the last answer of each process, "none" before it
    sets,            \* how often the clock was set
    steady           \* history: the clock was not set since the last check-in

vars == <<server, clock, file, mem, forced, call, attempts, overtaken, verdict,
          sets, steady>>
time == <<server, clock, sets>>

Idle == [pc |-> "idle", op |-> "peek"]
Threads == Procs \X {"call", "background"}
Silent == [says |-> "none", op |-> "other", policy |-> "full", by |-> "it"]

TypeOK ==
    /\ server \in Times /\ clock \in Times /\ sets \in 0..MaxSets
    /\ file \in File
    /\ mem \in [Procs -> Memory]
    /\ forced \subseteq Procs /\ attempts \subseteq Threads /\ overtaken \subseteq attempts
    /\ call \in [Procs -> [pc : {"idle", "renew", "bootstrap", "again", "afresh"},
                           op : Ops]]
    /\ verdict \in [Procs -> [says : Says \union {"none"}, op : {"write", "other"},
                              policy : Policies \union {"full"},
                              by : {"it", "bootstrap"}]]
    /\ steady \in BOOLEAN

\* A file left by an earlier sign-in or version, or none at all.
Init ==
    /\ server = 0 /\ clock \in {0, 1} /\ sets = 0
    /\ file \in {[Empty EXCEPT !.kind = k] : k \in Kinds \ {"good"}}
    /\ mem = [p \in Procs |-> NoMemory]
    /\ forced = {} /\ attempts = {} /\ overtaken = {}
    /\ call = [p \in Procs |-> Idle]
    /\ verdict = [p \in Procs |-> Silent]
    /\ steady = FALSE

Later(a, b) == IF a >= b THEN a ELSE b

(* ---------------------------- evaluation ------------------------------ *)

\* _note_hwm: the mark in memory, and whether it is time to persist it.
Seen(p) == Later(mem[p].hwm, clock)
PersistDue(p) ==
    /\ clock - mem[p].wrote >= HwmInterval
    /\ file.hwm = None \/ Seen(p) - file.hwm >= HwmInterval

\* Mutant: the mark is the clock.
MarkIsClock(p) == clock

Mark(p) == Later(Seen(p), file.hwm)

\* The skew measured at this process's own check-in, or the file's, clamped.
SkewOf(p) ==
    IF mem[p].token = file.iat THEN mem[p].skew
    ELSE IF file.skew <= SkewAhead THEN file.skew ELSE SkewAhead
ServerNow(p) == Mark(p) - SkewOf(p)

MayAttempt(p, interval) ==
    LET last == Later(file.last, mem[p].last)
    IN /\ ~(clock < file.until /\ file.until - clock <= RetryAfterMax)
       /\ last = None \/ clock < last \/ clock - last >= interval

Band(p) ==
    IF file.iat - ServerNow(p) > NbfTolerance THEN "stale"
    ELSE IF ServerNow(p) <= file.iat + Exp THEN "fresh"
    ELSE IF ServerNow(p) <= file.iat + Exp + Og THEN "stale" ELSE "expired"

\* What the file says, before the policy of the operation.
Judged(p) ==
    CASE file.denied # None -> "denied"
      [] file.denied = None /\ file.kind = "invalid" -> "invalid"
      [] file.denied = None /\ file.kind = "absent" -> "setup"
      [] file.denied = None /\ file.kind = "good" ->
           IF file.policy = "none" THEN "policy_none" ELSE Band(p)

\* The throttle of each branch; a forced renewal ignores it, but not a denial's.
Due(p) ==
    LET says == Judged(p)
    IN CASE says = "denied" ->
              /\ MayAttempt(p, DeniedRetry)
              /\ clock - file.denied >= DeniedRetry \/ clock < file.denied
         [] says = "fresh" ->
              \/ p \in forced
              \/ ServerNow(p) - file.iat >= Ra /\ MayAttempt(p, FreshRetry)
         [] says = "stale" -> p \in forced \/ MayAttempt(p, StaleRetry)
         [] OTHER -> p \in forced \/ MayAttempt(p, LockedRetry)

Blocking == {"denied", "invalid", "setup", "expired"}

\* Mutant: writes pass under every policy.
WithoutPolicy(says, op) == says

WithPolicy(says, op) ==
    IF says \in Allowed /\ op = "write" /\ file.policy = "read_only"
      THEN "policy_read_only" ELSE says

Recorded(op) == IF op = "write" THEN "write" ELSE "other"

\* One pass of _evaluate.  The mark is not persisted when the lock is busy; a
\* background thread is not started twice, and not by peek.
Judge(p, asked, op, blocks, by) ==
    LET says == Judged(p)
        waits == Due(p) /\ blocks /\ says \in Blocking
    IN /\ \/ file' = IF PersistDue(p) THEN [file EXCEPT !.hwm = Later(@, Seen(p))] ELSE file
          \/ PersistDue(p) /\ UNCHANGED file
       /\ mem' = [mem EXCEPT ![p].hwm = Seen(p),
                             ![p].wrote = IF PersistDue(p) THEN clock ELSE @]
       /\ forced' = IF says = "denied" \/ (says \in {"invalid", "setup"} /\ ~Due(p))
                    THEN forced ELSE forced \ {p}
       /\ attempts' = IF waits THEN attempts \union {<<p, "call">>}
                      ELSE IF Due(p) /\ asked # "peek" THEN attempts \union {<<p, "background">>}
                      ELSE attempts
       /\ IF waits
            THEN /\ call' = [call EXCEPT ![p] = [Idle EXCEPT
                               !.pc = IF says = "setup" THEN "bootstrap" ELSE "renew",
                               !.op = asked]]
                 /\ UNCHANGED verdict
            ELSE /\ call' = [call EXCEPT ![p] = Idle]
                 /\ verdict' = [verdict EXCEPT ![p] = [says |-> WithPolicy(says, op),
                                  op |-> Recorded(asked), policy |-> file.policy, by |-> by]]
       /\ UNCHANGED <<time, overtaken, steady>>

\* require before an operation; current and peek never wait for the network.
Evaluate(p, op) ==
    /\ call[p].pc = "idle"
    /\ Judge(p, op, op, op \in {"read", "write"}, "it")

\* The second pass of the loop.
EvaluateTwice(p) ==
    call[p].pc = "again" /\ Judge(p, call[p].op, call[p].op, FALSE, "it")

\* _evaluate_again: a pass without an operation.
EvaluateAgain(p) ==
    call[p].pc = "afresh" /\ Judge(p, call[p].op, "read", FALSE, "bootstrap")

\* notify_server_rejected
ServerRejected(p) ==
    /\ forced' = forced \union {p}
    /\ UNCHANGED <<time, file, mem, call, attempts, overtaken, verdict, steady>>

(* ------------------------------ renewal ------------------------------- *)

\* What an evaluation does after its renewal.
Resumed(c, outcome) ==
    IF c.pc = "renew" THEN [c EXCEPT !.pc = "again"]
    ELSE IF outcome = "transient" THEN Idle ELSE [c EXCEPT !.pc = "afresh"]

\* The outcome goes to its thread; every other attempt finds a new nonce when
\* the outcome was written.  A bootstrap without an answer is a setup.
Return(a, outcome, moved) ==
    LET p == a[1]
    IN /\ attempts' = attempts \ {a}
       /\ overtaken' = IF moved THEN attempts \ {a} ELSE overtaken \ {a}
       /\ call' = IF a[2] = "call" THEN [call EXCEPT ![p] = Resumed(@, outcome)] ELSE call
       /\ verdict' =
            IF outcome = "ok" THEN [q \in Procs |-> Silent]
            ELSE IF a[2] = "call" /\ call[p].pc = "bootstrap" /\ outcome = "transient"
            THEN [verdict EXCEPT ![p] = [Silent EXCEPT !.says = "setup", !.op = Recorded(call[p].op)]]
            ELSE verdict

\* Mutant: a check-in keeps the highest mark.
CheckInKeepsMark(a, policy) ==
    /\ file' = [Empty EXCEPT !.kind = "good", !.iat = server, !.policy = policy,
                  !.skew = clock - server, !.hwm = Later(file.hwm, clock), !.last = clock]
    /\ mem' = [mem EXCEPT ![a[1]].last = Later(@, clock), ![a[1]].token = server,
                          ![a[1]].skew = clock - server]
    /\ steady' = TRUE
    /\ Return(a, "ok", TRUE)
    /\ UNCHANGED <<time, forced>>

\* A verified and bound token.
CheckIn(a, policy) ==
    /\ file' = [Empty EXCEPT !.kind = "good", !.iat = server, !.policy = policy,
                  !.skew = clock - server, !.hwm = clock, !.last = clock]
    /\ mem' = [mem EXCEPT ![a[1]].hwm = clock, ![a[1]].last = Later(@, clock),
                          ![a[1]].token = server, ![a[1]].skew = clock - server]
    /\ steady' = TRUE
    /\ Return(a, "ok", TRUE)
    /\ UNCHANGED <<time, forced>>

\* classify_denial: an authoritative answer takes the token away.
Denied(a) ==
    /\ file' = [file EXCEPT !.kind = "absent", !.iat = 0, !.skew = 0, !.policy = "full",
                            !.denied = clock, !.last = clock]
    /\ mem' = [mem EXCEPT ![a[1]].last = Later(@, clock)]
    /\ Return(a, "denied", TRUE)
    /\ UNCHANGED <<time, forced, steady>>

\* Unreachable, 5xx, 429 with its Retry-After, or a token that does not verify.
Unanswered(a, wait) ==
    /\ file' = [file EXCEPT !.last = clock,
                            !.until = IF wait > 0 THEN clock + wait ELSE @]
    /\ mem' = [mem EXCEPT ![a[1]].last = Later(@, clock)]
    /\ Return(a, "transient", TRUE)
    /\ UNCHANGED <<time, forced, steady>>

\* Another renewal finished first, or holds the lock for longer than the wait.
Shared(a) ==
    /\ a \in overtaken
    /\ Return(a, "shared", FALSE)
    /\ UNCHANGED <<time, file, mem, forced, steady>>

LockBusy(a) ==
    /\ attempts # {a}
    /\ Return(a, "transient", FALSE)
    /\ UNCHANGED <<time, file, mem, forced, steady>>

Renewal(a) ==
    \/ \E policy \in Policies : CheckIn(a, policy)
    \/ Denied(a) \/ Shared(a) \/ LockBusy(a)
    \/ \E wait \in {0, RetryAfterMax} : Unanswered(a, wait)

(* ----------------------------- surroundings --------------------------- *)

\* sibyl init writes a pass of its own (EntitlementRefresh has its steps).
SignIn(policy) ==
    /\ file' = [Empty EXCEPT !.kind = "good", !.iat = server, !.policy = policy,
                             !.skew = clock - server]
    /\ verdict' = [p \in Procs |-> Silent]
    /\ steady' = FALSE
    /\ UNCHANGED <<time, mem, forced, call, attempts, overtaken>>

Restart(p) ==
    /\ mem' = [mem EXCEPT ![p] = NoMemory]
    /\ forced' = forced \ {p}
    /\ attempts' = attempts \ ({p} \X {"call", "background"})
    /\ overtaken' = overtaken \ ({p} \X {"call", "background"})
    /\ call' = [call EXCEPT ![p] = Idle] /\ verdict' = [verdict EXCEPT ![p] = Silent]
    /\ UNCHANGED <<time, file, steady>>

Tick ==
    /\ server < MaxTime /\ clock < MaxTime
    /\ server' = server + 1 /\ clock' = clock + 1
    /\ UNCHANGED <<file, mem, forced, call, attempts, overtaken, verdict, sets, steady>>

SetClock(c) ==
    /\ sets < MaxSets /\ sets' = sets + 1
    /\ c # clock /\ clock' = c /\ steady' = FALSE
    /\ UNCHANGED <<server, file, mem, forced, call, attempts, overtaken, verdict>>

ProcStep(p) ==
    \/ \E op \in Ops : Evaluate(p, op)
    \/ EvaluateTwice(p) \/ EvaluateAgain(p) \/ ServerRejected(p)
    \/ Restart(p)

Next ==
    \/ \E p \in Procs : ProcStep(p)
    \/ \E a \in attempts : Renewal(a)
    \/ \E policy \in Policies : SignIn(policy)
    \/ Tick
    \/ \E c \in Times : SetClock(c)

Spec == Init /\ [][Next]_vars

(* ----------------------------- properties ----------------------------- *)

\* A process that found its pass past the grace does not find it within the
\* grace again before a check-in or a sign-in, however the clock is set and
\* whoever writes the file (_note_hwm).
ExpiredSticks ==
    [][\A p \in Procs : verdict[p].says = "expired" => verdict'[p].says \notin Allowed]_vars

\* "The server just vouched for the time: a corrected clock heals itself"
\* (_do_refresh): after a check-in, and until somebody sets the clock, nobody is
\* locked for a pass that has not expired.
CheckInHeals ==
    steady /\ file.kind = "good" /\ file.skew <= SkewAhead =>
        \A p \in Procs : verdict[p].says = "expired" => server > file.iat + Exp + Og

\* Under a read-only pass the only write that gets through is the one whose
\* evaluation fetched the first pass (_with_policy, _evaluate_again).
ReadOnlyHeld ==
    \A p \in Procs :
      verdict[p].says \in Allowed /\ verdict[p].op = "write"
        /\ verdict[p].policy = "read_only" => verdict[p].by = "bootstrap"

=============================================================================
