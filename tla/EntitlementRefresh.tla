------------------------- MODULE EntitlementRefresh -------------------------
(***************************************************************************)
(* The account pass of one computer (sibyl_memory_client/_entitlement.py,  *)
(* EntitlementStore and EntitlementGate) and the sign-in and sign-out of   *)
(* the CLI that share its files.  Threads of several processes renew the   *)
(* pass through one lock file that goes stale, while the CLI replaces the  *)
(* credentials and removes pass and lock without taking that lock.         *)
(*                                                                         *)
(* Time is abstracted: a retry interval may be over at any evaluation, and *)
(* a lock file left behind becomes stale.                                  *)
(***************************************************************************)
EXTENDS Naturals

CONSTANTS
    Workers,          \* threads that evaluate the gate, over all processes
    Sessions,         \* sign-ins: each has a bearer and a device hash of its own
    First,            \* the one the computer starts with
    Nonces,           \* values an attempt nonce may take
    Nobody, NoSession,
    MaxNotes,         \* bound on high-water-mark notes (one a minute at most)
    MaxDisturbances   \* bound on sign-ins, sign-outs, crashes, suspensions,
                    \* failed writes and plan changes

ASSUME Constants ==
    /\ Nobody \notin Workers /\ NoSession \notin Sessions /\ First \in Sessions
    /\ Nonces \subseteq Nat \ {0} /\ MaxDisturbances \in Nat
    /\ MaxNotes \in Nat

VARIABLES
    creds,         \* session of credentials.json
    passFile,          \* entitlement.json
    owner, age,    \* who created entitlement.lock, and whether it is stale
    worker,        \* what each thread is doing and what it holds in memory
    cli,           \* the sign-in or sign-out under way
    used, ended,   \* sessions ever signed in, sessions signed out or replaced
    revoked,       \* sessions the server refuses
    denials,       \* history: sessions whose denial was written to the file
    notes, disturbances

refreshVars == <<creds, passFile, owner, age, worker, cli, used, ended, revoked,
                 denials, notes, disturbances>>

NoNonce == 0
Bearers == Sessions \union {NoSession}
Files == [token : Bearers, denied : {"no", "yes"}, nonce : Nonces \union {NoNonce}]
NoFile == [token |-> NoSession, denied |-> "no", nonce |-> NoNonce]

Holding == {"check", "call", "load", "store", "sync", "syncWrite", "release"}
Pcs == {"idle", "read", "try", "unlink", "create"} \union Holding
Workings == [pc : Pcs, job : {"refresh", "note"}, ident : Bearers,
             before : Nonces \union {NoNonce},
             outcome : {"none", "ok", "denied", "transient"}, copy : Files]
NoJob == [pc |-> "idle", job |-> "note", ident |-> NoSession, before |-> NoNonce,
          outcome |-> "none", copy |-> NoFile]

RefreshTyped ==
    /\ creds \in Bearers /\ passFile \in Files
    /\ owner \in Workers \union {Nobody} /\ age \in {"fresh", "stale"}
    /\ worker \in [Workers -> Workings]
    /\ cli \in {"idle", "inFile", "inLock", "install",
                "outCreds", "outFile", "outLock"}
    /\ used \in SUBSET Sessions /\ ended \in SUBSET Sessions
    /\ revoked \in SUBSET Sessions /\ denials \in SUBSET Sessions
    /\ notes \in 0..MaxNotes /\ disturbances \in 0..MaxDisturbances

\* A computer signed in once, its pass installed by that sign-in or still to
\* be fetched.
RefreshInit ==
    /\ creds = First /\ used = {First}
    /\ passFile \in {NoFile, [NoFile EXCEPT !.token = First]}
    /\ owner = Nobody /\ age = "fresh"
    /\ worker = [w \in Workers |-> NoJob]
    /\ cli = "idle"
    /\ ended = {} /\ revoked = {} /\ denials = {}
    /\ notes = 0 /\ disturbances = 0

At(w, pc) == worker[w].pc = pc
GoOn(w, pc) == worker' = [worker EXCEPT ![w].pc = pc]
Finish(w) == worker' = [worker EXCEPT ![w] = NoJob]
Disturb ==
    /\ disturbances < MaxDisturbances
    /\ disturbances' = disturbances + 1

LockFree == owner = Nobody
TakeLock(w) == owner' = w /\ age' = "fresh"
DropLock == owner' = Nobody /\ age' = "fresh"

files == <<creds, passFile>>
lock == <<owner, age>>
sessions == <<used, ended, revoked, denials>>

(* ------------------------- EntitlementGate ---------------------------- *)

\* An evaluation that finds a renewal due keeps the identity it read ...
StartRefresh(w) ==
    /\ At(w, "idle") /\ creds # NoSession
    /\ worker' = [worker EXCEPT ![w] =
                    [NoJob EXCEPT !.pc = "read", !.job = "refresh", !.ident = creds]]
    /\ UNCHANGED <<files, lock, cli, sessions, disturbances, notes>>

\* ... and _do_refresh notes the attempt nonce before it takes the lock.
ReadNonce(w) ==
    /\ At(w, "read")
    /\ worker' = [worker EXCEPT ![w].before = passFile.nonce, ![w].pc = "try"]
    /\ UNCHANGED <<files, lock, cli, sessions, disturbances, notes>>

\* _note_hwm persists the clock's high-water mark: it rewrites the whole file.
StartNote(w) ==
    /\ At(w, "idle") /\ creds # NoSession
    /\ notes < MaxNotes /\ notes' = notes + 1
    /\ GoOn(w, "try")
    /\ UNCHANGED <<files, lock, cli, sessions, disturbances>>

(* ---------------------- try_lock, release_lock ------------------------ *)

Locked(w) == IF worker[w].job = "refresh" THEN "check" ELSE "load"

\* Mutant: a lock left behind by a crash is respected for ever.
TryLockNoSteal(w) ==
    /\ At(w, "try") /\ LockFree
    /\ TakeLock(w) /\ GoOn(w, Locked(w))
    /\ UNCHANGED <<files, cli, sessions, disturbances, notes>>

TryLock(w) ==
    /\ At(w, "try")
    /\ \/ LockFree /\ TakeLock(w) /\ GoOn(w, Locked(w))
       \/ ~LockFree /\ age = "stale" /\ GoOn(w, "unlink") /\ UNCHANGED lock
    /\ UNCHANGED <<files, cli, sessions, disturbances, notes>>

\* The wait is over (at once for a note): lock_busy.
LeaveLock(w) ==
    /\ At(w, "try") /\ ~LockFree /\ age = "fresh"
    /\ Finish(w)
    /\ UNCHANGED <<files, lock, cli, sessions, disturbances, notes>>

\* After a steal that failed, a refresh polls again and a note gives up.
Missed(w) ==
    IF worker[w].job = "refresh" THEN GoOn(w, "try") ELSE Finish(w)

\* The file judged stale is removed by name: whichever file that is by now.
StealUnlink(w) ==
    /\ At(w, "unlink")
    /\ IF LockFree THEN Missed(w) /\ UNCHANGED lock
                   ELSE GoOn(w, "create") /\ DropLock
    /\ UNCHANGED <<files, cli, sessions, disturbances, notes>>

StealCreate(w) ==
    /\ At(w, "create")
    /\ IF LockFree THEN GoOn(w, Locked(w)) /\ TakeLock(w)
                   ELSE Missed(w) /\ UNCHANGED lock
    /\ UNCHANGED <<files, cli, sessions, disturbances, notes>>

\* Unlinks the lock by name, whoever made it.
Release(w) ==
    /\ At(w, "release")
    /\ DropLock /\ Finish(w)
    /\ UNCHANGED <<files, cli, sessions, disturbances, notes>>

(* ----------------------- under the lock ------------------------------- *)

\* The loser of a race sees the winner's nonce and sends nothing ("shared").
CheckNonce(w) ==
    /\ At(w, "check")
    /\ GoOn(w, IF passFile.nonce = worker[w].before THEN "call" ELSE "release")
    /\ UNCHANGED <<files, lock, cli, sessions, disturbances, notes>>

\* The server decides now; its answer is used whenever this thread runs next.
Verdict(s) == IF s \in revoked THEN "denied" ELSE "ok"

Call(w) ==
    /\ At(w, "call")
    /\ \E outcome \in {Verdict(worker[w].ident), "transient"} :
         worker' = [worker EXCEPT ![w].outcome = outcome, ![w].pc = "load",
                                  ![w].before = NoNonce]
    /\ UNCHANGED <<files, lock, cli, sessions, disturbances, notes>>

Load(w) ==
    /\ At(w, "load")
    /\ worker' = [worker EXCEPT ![w].copy = passFile, ![w].pc = "store"]
    /\ UNCHANGED <<files, lock, cli, sessions, disturbances, notes>>

FreshNonces(w) ==
    {n \in Nonces \ {passFile.nonce} : \A v \in Workers \ {w} :
        n # worker[v].before /\ n # worker[v].copy.nonce}

\* secrets.token_hex: a value nobody holds; which one does not matter.
NewNonce(w, n) ==
    n \in FreshNonces(w) /\ \A m \in FreshNonces(w) : n <= m

\* Mutant: a denial is recorded beside the pass it denies.
AppliedKeepsPass(me, n) ==
    CASE me.outcome = "ok" ->
           [token |-> me.ident, denied |-> "no", nonce |-> n]
      [] me.outcome = "denied" -> [me.copy EXCEPT !.denied = "yes", !.nonce = n]
      [] me.outcome = "transient" -> [me.copy EXCEPT !.nonce = n]
      [] OTHER -> me.copy

\* Mutant: an outage drops the pass as a denial does.
AppliedOutage(me, n) ==
    CASE me.outcome = "ok" ->
           [token |-> me.ident, denied |-> "no", nonce |-> n]
      [] me.outcome = "denied" ->
           [token |-> NoSession, denied |-> "yes", nonce |-> n]
      [] me.outcome = "transient" -> [NoFile EXCEPT !.nonce = n]
      [] OTHER -> me.copy

\* Mutant: a denial counts as an outage.
AppliedLenient(me, n) ==
    CASE me.outcome = "ok" ->
           [token |-> me.ident, denied |-> "no", nonce |-> n]
      [] me.outcome \in {"denied", "transient"} -> [me.copy EXCEPT !.nonce = n]
      [] OTHER -> me.copy

Applied(me, n) ==
    CASE me.outcome = "ok" ->
           [token |-> me.ident, denied |-> "no", nonce |-> n]
      [] me.outcome = "denied" ->
           [token |-> NoSession, denied |-> "yes", nonce |-> n]
      [] me.outcome = "transient" -> [me.copy EXCEPT !.nonce = n]
      [] OTHER -> me.copy

\* What is in memory after the write is not used again.
Stored(w) ==
    worker' = [worker EXCEPT ![w].copy = NoFile, ![w].outcome = "none",
                 ![w].pc = IF worker[w].outcome = "ok" THEN "sync" ELSE "release"]

\* os.replace of the edited copy.
Store(w) ==
    /\ At(w, "store")
    /\ \E n \in FreshNonces(w) : NewNonce(w, n) /\ passFile' = Applied(worker[w], n)
    /\ denials' = IF worker[w].outcome = "denied"
                    THEN denials \union {worker[w].ident} ELSE denials
    /\ Stored(w)
    /\ UNCHANGED <<creds, lock, cli, used, ended, revoked, disturbances, notes>>

\* The write is refused (read-only directory, full disk): nothing changes.
StoreFails(w) ==
    /\ At(w, "store") /\ Disturb
    /\ Stored(w)
    /\ UNCHANGED <<files, lock, cli, sessions, notes>>

\* sync_credentials_tier: nothing to do unless the file is still this
\* sign-in's and the plan changed since it was written ...
SyncTier(w) ==
    /\ At(w, "sync")
    /\ \/ GoOn(w, "release") /\ UNCHANGED disturbances
       \/ creds = worker[w].ident /\ Disturb /\ GoOn(w, "syncWrite")
    /\ UNCHANGED <<files, lock, cli, sessions, notes>>

\* ... and then the copy read is put back with the new tier.
SyncWrite(w) ==
    /\ At(w, "syncWrite")
    /\ creds' = worker[w].ident
    /\ GoOn(w, "release")
    /\ UNCHANGED <<passFile, lock, cli, sessions, disturbances, notes>>

(* ---------------------------- the CLI --------------------------------- *)

\* sibyl init: credentials first, then the old pass and the lock go, then the
\* pass that came with the sign-in (an old api sends none).
SignInAnew(s) ==
    /\ cli = "idle" /\ s \notin used /\ Disturb
    /\ creds' = s /\ used' = used \union {s}
    /\ ended' = IF creds = NoSession THEN ended ELSE ended \union {creds}
    /\ cli' = "inFile"
    /\ UNCHANGED <<passFile, lock, worker, revoked, denials, notes>>

\* sibyl logout: the bearer is revoked first, when the server answers.
SignOut ==
    /\ cli = "idle" /\ creds # NoSession /\ Disturb
    /\ revoked' \in {revoked, revoked \union {creds}}
    /\ cli' = "outCreds"
    /\ UNCHANGED <<files, lock, worker, used, ended, denials, notes>>

UnlinkCreds ==
    /\ cli = "outCreds"
    /\ creds' = NoSession
    /\ ended' = IF creds = NoSession THEN ended ELSE ended \union {creds}
    /\ cli' = "outFile"
    /\ UNCHANGED <<passFile, lock, worker, used, revoked, denials, disturbances, notes>>

RemovePass ==
    /\ cli \in {"inFile", "outFile"}
    /\ passFile' = NoFile
    /\ cli' = IF cli = "inFile" THEN "inLock" ELSE "outLock"
    /\ UNCHANGED <<creds, lock, worker, sessions, disturbances, notes>>

RemoveLock ==
    /\ cli \in {"inLock", "outLock"}
    /\ DropLock
    /\ cli' = IF cli = "inLock" THEN "install" ELSE "idle"
    /\ UNCHANGED <<files, worker, sessions, disturbances, notes>>

Install ==
    /\ cli = "install"
    /\ passFile' \in {passFile, [NoFile EXCEPT !.token = creds]}
    /\ cli' = "idle"
    /\ UNCHANGED <<creds, lock, worker, sessions, disturbances, notes>>

(* ---------------------- server, time and failures --------------------- *)

\* The sign-in is revoked from another computer.
Revoke(s) ==
    /\ s \in used \ revoked
    /\ revoked' = revoked \union {s}
    /\ UNCHANGED <<files, lock, worker, cli, used, ended, denials, disturbances, notes>>

Abandoned == ~LockFree /\ worker[owner].pc \notin Holding

\* LOCK_STALE_SECONDS pass over a lock nobody will release ...
LockExpires ==
    /\ Abandoned /\ age = "fresh"
    /\ age' = "stale"
    /\ UNCHANGED <<files, owner, worker, cli, sessions, disturbances, notes>>

\* ... or over a holder that is suspended (a sleeping laptop).
Suspend ==
    /\ ~LockFree /\ ~Abandoned /\ age = "fresh" /\ Disturb
    /\ age' = "stale"
    /\ UNCHANGED <<files, owner, worker, cli, sessions, notes>>

\* The process dies; a lock it holds stays behind.
Crash(w) ==
    /\ ~At(w, "idle") /\ Disturb
    /\ Finish(w)
    /\ UNCHANGED <<files, lock, cli, sessions, notes>>

CliCrash ==
    /\ cli # "idle" /\ Disturb
    /\ cli' = "idle"
    /\ UNCHANGED <<files, lock, worker, sessions, notes>>

Step(w) ==
    \/ ReadNonce(w) \/ TryLock(w) \/ LeaveLock(w) \/ StealUnlink(w)
    \/ StealCreate(w) \/ CheckNonce(w) \/ Call(w) \/ Load(w) \/ Store(w)
    \/ SyncTier(w) \/ SyncWrite(w) \/ Release(w)

CliStep == UnlinkCreds \/ RemovePass \/ RemoveLock \/ Install

RefreshNext ==
    \/ \E w \in Workers : StartRefresh(w) \/ StartNote(w) \/ Step(w)
                            \/ StoreFails(w) \/ Crash(w)
    \/ \E s \in Sessions : SignInAnew(s) \/ Revoke(s)
    \/ SignOut \/ CliStep \/ LockExpires \/ Suspend \/ CliCrash

RefreshSpec == RefreshInit /\ [][RefreshNext]_refreshVars

\* An agent that keeps using memory renews again and again, a process that
\* runs makes progress, stale locks expire and the server is not down for good.
GotVerdict(w) == Call(w) /\ worker'[w].outcome # "transient"

Fairness ==
    /\ \A w \in Workers :
         WF_refreshVars(Step(w)) /\ SF_refreshVars(StartRefresh(w)) /\ SF_refreshVars(GotVerdict(w))
    /\ WF_refreshVars(CliStep) /\ WF_refreshVars(LockExpires)

FairSpec == RefreshSpec /\ Fairness

(* ----------------------------- properties ----------------------------- *)

\* What the gate decides for session s from the files (_evaluate, a pass within
\* its lifetime): no recorded denial and a pass bound to this sign-in.
Usable(s) == creds = s /\ passFile.denied = "no" /\ passFile.token = s

Undisturbed == disturbances = 0

\* The lock file keeps refreshes apart: one thread of one process at a time.
Exclusive ==
    \A v, w \in Workers :
        worker[v].pc \in Holding /\ worker[w].pc \in Holding => v = w
UndisturbedExclusive == Undisturbed => Exclusive

\* Racing refreshes make one network call: whoever calls has seen every
\* refresh that finished since it started.
OneCall ==
    Undisturbed =>
        \A w \in Workers : At(w, "call") => worker[w].before = passFile.nonce

\* A denial the server gave is not undone by an answer it gave before.
DenialSticks == Undisturbed => \A s \in denials : passFile.token # s

\* No step takes the pass from a sign-in the server accepts.
UndisturbedPassKept ==
    [][\A s \in Sessions \ revoked :
          Undisturbed /\ Usable(s) /\ creds' = s /\ disturbances' = 0
            => Usable(s)']_refreshVars

\* A sign-in that was signed out or replaced never comes back by itself.
SignOutSticks == creds \notin ended

\* A sign-in the server accepts ends up usable for good, whatever sign-ins,
\* crashes, suspensions and old refreshes of this process went before.
Recovers ==
    \A s \in Sessions :
        <>[](creds = s /\ s \notin revoked /\ cli = "idle") => <>[]Usable(s)

\* A sign-in the server revoked ends up locked for good.
RevocationLands ==
    \A s \in Sessions : <>[](creds = s /\ s \in revoked) => <>[]~Usable(s)

=============================================================================
