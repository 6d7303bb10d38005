# Sibyl Memory in TLA+

Sibyl Memory is a local-first memory for coding agents: a SQLite file opened by
several processes at once (an MCP server, a Hermes plugin, a LangGraph store, the
CLI, agent hooks), an account pass that gates it, and files beside the store that
those processes share without a daemon between them. This directory specifies the
parts where that sharing is hard: what two processes, or one process that died,
can do to the store, to the pass, to people's files and to each other.

Paths below are relative to `src/`; `client/` stands for
`sibyl-memory-client/src/sibyl_memory_client/`, `cli/` for
`sibyl-memory-cli/src/sibyl_memory_cli/`.

1. Inventory  2. Modules  3. The runs  4. Fairness  5. What is proved
6. Disagreements  7. Not modelled  8. Plan

## 1. Inventory

| Component | State | Operations | Talks to | Module |
|---|---|---|---|---|
| Schema and migrations `client/storage.py`, `schema.sql`, `_links.py`, `shadow.py` | tables and their shape, FTS index and triggers, search shadow, `PRAGMA user_version` | `_ensure_schema`, `_migrate_links_v6`, `_migrate_links_identity`, `_migrate_if_needed`, `_heal` | every process that opens the file | `SchemaOpen` |
| Connections `client/storage.py` | one connection per thread, a registry, `BEGIN IMMEDIATE` | `connection`, `transaction`, reaping, `close` | SQLite's locks | `StorageConnections` |
| Memory store and links `client/client.py`, `_links.py` | entities, documents, archive, edges with identity stamps of both ends | set, delete, archive, link, unlink, cascade, re-key | the store's transactions | `MemoryLinks` |
| Recall `client/client.py`, `multi_record.py`, `shadow.py`, `verdicts.py` | none of its own, a dozen SELECTs | `search`, `multi_record_search`, hydration, verdict | the tables other clients write | `RecallQuery` |
| Account gate: renewal `client/_entitlement.py` | `entitlement.json`, its lock, copies in memory | evaluate, refresh, note the clock, tier sync | account service, the CLI through the files | `EntitlementRefresh` |
| Account gate: bands and policy, same file | high-water mark, skew, throttles | evaluate, require, peek, prime | the store (every operation asks) | `EntitlementClock` |
| Free-tier cap `client/_capcheck.py` | sizes, server answer, `tier_cache.json` | check, save, check in the transaction | account service | `CapGate` |
| Sign-in and sign-out `cli/cli.py`, `_account_gate.py` | `credentials.json`, the pass, device requests | init, logout, revoke, email, upgrade, claim | account service, running gates | `SignIn` |
| Adoption `client/_adopt.py` | rows of the default tenant and of accounts, `tenant_adoptions` | the automatic move, `sibyl memory adopt` | store, links | `Adoption` |
| Learner and proposals `client/learning.py`, `lifecycle/proposals.py` | `skill_proposals`, `learning_runs`, unmuted slugs | run, accept, reject, unmute | journal, documents, agent hosts | `Proposals` |
| Skill files `client/skills.py` | files of agents, the manifest | install, force, remove | people's edits | `SkillFiles` |
| Reminders `client/lifecycle/state.py`, `notices.py`, `reminders.py`, `cli/hooks.py` | `lifecycle.json` under a `flock`, counts in memory | count, flush, look, record, Stop hook | hosts and Claude Code sessions | `SaveReminders` |
| Signals `client/lifecycle/signals.py` | `signals.json`, buffers, a transcript offset | note, flush, switch, clear | the learner | `SkillSignals` |
| Tool sequences, same file, and the detector in `client/learning.py` | `ngrams` and `tails` of `signals.json` | count, prune, detect, mark | flushes and hooks, the learner | `ToolSequences` |
| Context trim `client/lifecycle/apply.py`, `runner.py`, `policy.py`, `cli/lifecycle_cli.py` | instruction files, history files, backups | apply, automatic run, undo, prune | the store, people's edits | `ContextTrim` |
| Setup `cli/setup.py`, Hermes' `install_plugin.py` | configuration of agent hosts | setup, force, uninstall | hosts and people | `HostSetup` |
| Guided migration `cli/migrate.py` | backup folders, instruction files | copy, wire, count, trim | people's edits, the store | `GuidedMigration` |
| MCP server `sibyl-memory-mcp/.../server.py` | one cached client | tool calls, paged readers | credentials, gate, store | `McpClient`, `McpPages` |
| Hermes plugin `sibyl-memory-hermes/.../adapter.py` | writer threads, capsules | sync_turn, pre-compress, shutdown, initialize | store, gate | `HermesAdapter` |
| LangGraph store `sibyl-memory-langgraph/.../store.py` | none of its own | batch of get, put, search, list | store | `SibylStore`, `KeyValueStore` |
| Heartbeat, doctor, lint, provider | a claim file, or none | ping, report, forward | | not modelled |

What makes each part correct, and is hard to test:

- *Opening a store.* Each opener looks at the file without a lock and acts later
  under one; each migration is several commits. No store may end up on the fast
  path with an index that does not find its rows, the legacy edges are copied once,
  the shadow holds what the tables hold.
- *Renewing the pass.* Threads of several processes find a renewal due at once, the
  lock goes stale while its holder only sleeps, and the CLI replaces the files
  without the lock. A denial is not undone by an older answer, an outage does not
  cost a pass, a good sign-in ends up usable and a revoked one locked.
- *Deciding from the pass.* The clock is set back and forth. An expired pass stays
  expired until the server is heard; a check-in heals what the clock broke; under a
  read-only pass only the write that fetched it gets through.
- *The cap.* The size is measured before the write and the answer of the server is
  cached, late or forged. A free store stays under its cap; a granted write commits.
- *The store and its links.* A memory is archived, deleted and written again while
  edges name it. An edge that reads as current is about the memory that was linked.
- *Recall.* Several statements see several stores. What stood still is found, and a
  zero that gives a reason gives a true one.
- *Adoption, sign-in.* Both memories of a name survive a move; an edge never attaches
  to somebody else's memory; every sign-in the service counts is accounted for.
- *The learner.* It dies with its host and overlaps with others. Nobody is asked
  again what is open, accepted or refused, a review is final, no event is skipped.
- *Tool sequences.* A session arrives in flushes and is counted as one text; what recurred is proposed once, and nothing else is.
- *People's files.* Five programs rewrite them. What a person wrote exists somewhere
  at every moment, whoever is killed where.
- *Hosts.* Writes are counted once; requests keep their caps and numbers; what was
  not to be recorded is not; a turn is in the journal once; one client never serves an
  account the person has left.

## 2. Modules

Each component module declares its constants with an `ASSUME`, its variables, `Init`,
one action per operation or step, `Next` and `Spec`; where several are instantiated
together their names carry a prefix (`TrimInit`, `SetupNext`). `*_proofs` modules hold the theorems, several
components to one where they belong together, over `FiniteFolds`, which has the lemmas on folds, sums and extremes of finite
sets they share (section 5); `MC_*` gives constants their values and composes modules for one run.

**Where an action ends.** A transaction of the store is one action, since it is one
`BEGIN IMMEDIATE`. Outside transactions every `open`, read, `unlink`, `os.replace` and
network call that another program can overtake is an action of its own. A crash loses
what was not written, so a kill between any two actions is a step back to idle.

**SchemaOpen.** Per opener where it is in `_ensure_schema` and what it read before it took
the write lock; the store as tables, index, triggers, shadow, marker, links.
`Begin`, `MigrateLinks` (look, lock, look again, copy), `ScriptTables`, `ScriptRest`
(`executescript`), `AddIdentity`, `ProbeShape`, `ProbeMarker` (the reads of
`_migrate_if_needed`), `DropFts`, `Rebuild`, `ApplyShadow` (its three transactions), `Heal`, use
of an open store, `Crash` and out-of-band damage.

**StorageConnections.** A slot per thread, a registry, and what each thread is about to
close. `Connect` and `Register` are two steps, so a thread may end between them; `CloseOne` follows
either the reaping of dead threads' connections or `close()`. Any statement may fail, and so may the
`ROLLBACK`.

**MemoryLinks.** Rows of `entities` and `archived_entities`, documents, edges with the
stamps of both ends, accepted proposals. `SetEntity`, `SetDoc`, `AcceptProposal`, `Link`,
`Unlink`, `DeleteEntity`, `DeleteReference` (with the cascade), `Archive` (which keeps the edges).

**EntitlementRefresh.** Credentials, pass, the lock file with its maker and age, per
thread its place in `_do_refresh` or `_note_hwm` with the identity and nonce it read, and
the CLI's place in `init` or `logout`. `ReadNonce`, `TryLock`, `StealUnlink`, `StealCreate`,
`CheckNonce`, `Call`, `Load`, `Store`, `SyncTier`, `SyncWrite`, `Release`; `SignInAnew`, `SignOut`,
`UnlinkCreds`, `RemovePass`, `RemoveLock`, `Install`. Time is abstracted: a retry may be
due at any evaluation, a lock left behind becomes stale.

**EntitlementClock.** The same file from the other side: a renewal is one action, times
are numbers. The server's clock, the computer's clock that people set, the mark in file
and memory, the skew, the throttles; `Evaluate`, `EvaluateTwice`, `EvaluateAgain`, the outcomes
of a renewal, `SignIn`, `Restart`, `SetClock`.

**CapGate.** A write is `Start` (estimate and cache), `Check`, one of `Answered`, `AuthDenied`,
`Unreachable`, then `Save` and `Commit`, which looks again without asking. Upgrades, downgrades,
deletes and the hour go on meanwhile.

**SignIn.** Device requests, sign-ins the service honours, the files of each computer.
Commands are sequences of their calls: `InitStart`, `Bind` (in the browser), `Deliver`, `StopsAtLimit`,
email and purchase with their write of the credentials, `LogoutRevokes` and `LogoutRemoves`,
`RevokeLists` and `RevokePosts`, `Killed`. **Adoption** models the move that follows: `Look`
outside the lock, then `Move`, one transaction made of `ResolveConflicts`, the edge rules and the
change of tenant, or `RollsBack`.

**RecallQuery.** A search as its SELECTs: stage 0 names, stage 1 per token and tier, the
corpus count, candidates, shadow, gates, hydration by row number, verdict; other clients
set and delete rows between any two. **McpPages**: paged lists, edges and text with the budget's cut.
**McpClient**: `StatCreds`, `ReadPass`, `Reuse` or `Build` and `Swap` under the lock, `Gate`, `Operate`;
another program rewrites both files.

**SibylStore** implements **KeyValueStore**. The abstract module says what a LangGraph
store promises: operations of a batch take effect one after the other, each at one moment,
a batch may fail after any of them, one with an unnameable put fails before the first, and a
listing is complete while what it enumerates fits the pool. The concrete one encodes a namespace as a category, begins, writes, commits or
rolls back each put, reads the row back, and dies. `IsKeyValueStore` is the refinement:
an item is a committed row with its category split, the answers are the results so far.

**Proposals.** The journal, proposals in order, logged runs with their cursors; per learner
what its run holds in memory, per reviewer what it found pending. Nothing locks a run, so
`ReadWatermark`, `LoadEvents`, `ReadPending`, `ReadBlocked`, each `InsertProposal` and `LogRun` are
actions, and `Die` falls between any two. **SkillFiles**: `Load`, `Put`, `Keep`, `Unlink`,
`StoreManifest` without a lock, by installers of two versions. **SkillSignals**: buffers, the transcript, the switch and the
floor.

**ToolSequences.** Per session its last calls, per sequence how often, in which session, on which day; the full texts are history.
`ApplyEvent` (a call and every sequence that ends at it, then the pruning of the save), `DayPasses`, `Detect` (qualification, the
longest of those contained, one of each loop), `MarkProposed`. Events are applied one at a time, since a batch is a loop over them.

**SaveReminders.** `lifecycle.json`, what each host keeps in memory (`pending`, `flying`,
`timed` counts), what each Claude Code session finds in file and transcript. `Look` decides on a
snapshot, `Record` writes under the lock; `Timer` and `Flush` run in two threads.

**ContextTrim, HostSetup, GuidedMigration.** A text is its sections, its edits, or the number of its last
edit. `ContextTrim`: `Pick`, `Choose`, `Store`, `Verify`, `Compare`, `Rewrite`,
`Cleanup`, `Record`, and `Aside` and `Restore` of an undo. `HostSetup`: `Look`, `Answer`, install, `CopyConf`, `Read`,
`WriteConf`, hooks and the block. `GuidedMigration`: `BeginMigration`, `CopyFile`, `WireFile`,
`Baseline`, `CountAgain`, `Offer`, `AnswerTrim`, `Replace`. People edit everywhere.

**HermesAdapter.** Hermes' thread (`SyncTurn`, joins that may time out, `PreCompress`,
`SwitchSession`, `Shutdown`, `Initialize`), a writer per turn with its retries, flush and capsule threads.

### How the modules meet

Some meet in one file but in different fields, some through a transaction the other side sees whole.
Where state is really shared it is modelled in one module: the pass with the CLI in
`EntitlementRefresh`, the edge copy with the other migrations in `SchemaOpen`, proposals with
deleted documents in `Proposals` and `MemoryLinks`, the host's tools with Claude Code's hooks in `SaveReminders`,
the client with the files in `McpClient`. A composed instance (`MC_Store`, `MC_Gate`, `MC_Hosts`,
`MC_Files`, `MC_Skills`, `MC_Reads`) therefore explores a *sum*: a variable `part`
picks, in the first state, the component that moves, and the others rest in one of
their initial states. No step of one reads what another writes, so a product would
add states and no behaviour. `MC_SignIn` does the same with the store: a move reads only which account is
signed in, and a sign-in does not open the store.

## 3. The runs

All with deadlock checking off only where a system may rest (no credentials, all turns
written, every batch answered).

| Run | Properties | What they say |
|---|---|---|
| `store` | `ShadowFaithful` | once its triggers are in place the shadow holds exactly the base rows |
| | `CopiedOnce` | `memory_links` has the legacy edges minus those unlinked since |
| | `FastPathIndexed` | a store opened on the fast path finds its rows |
| | `CurrentIsAsserted` | an edge that reads as current was asserted about the rows now at its ends |
| | `NothingDangles` | an edge's end is live or archived, an accepted proposal has its document |
| `pass_undisturbed` | `DenialSticks`, `UndisturbedPassKept` | no older answer overwrites a denial; no step takes the pass of a sign-in the server accepts |
| `pass_sessions` | `Recovers`, `RevocationLands` | through sign-ins, sign-outs, crashes, failed writes: a good sign-in ends up usable for good, a revoked one locked for good |
| `pass_signout` | `SignOutSticks` | violated, section 6 |
| `skills` | `AskedOnce` | unless two runs overlapped, nothing is proposed that is pending or accepted |
| | `RejectionHeeded` | a rejection is heeded through cool-off, mute and unmute |
| | `NothingSkipped` | no cursor passes an event no logged run loaded, unless a `since` jumped it |
| | `EditsStay` | an edited skill file stays but under force |
| `gate` | `ExpiredSticks`, `CheckInHeals`, `ReadOnlyHeld` | the bands and the policy under a clock people set |
| | `FreeStaysUnderCap`, `GrantReachesCommit` | the cap with any cache file; why a write just granted may be refused at its commit |
| `files` | `NothingLost`, `RewriteBackedUp` | trims and undos lose no section until one run spoils what another relies on; a rewrite has its backup |
| | `EditsKept` | what people and hosts write outlives any setups and uninstalls |
| | `NoEditLost` | what a person wrote last is in the file or in a backup folder |
| `hosts` | `NumbersNeverRepeat`, `CapsKept` | requests keep their numbers when the file is lost, and their caps when two processes decide at once |
| | `WritesAddUp`, `WritesReachFile` | every write is counted, waiting or lost with its process; none waits for ever |
| | `NothingUnwanted` | what happened while recording was off, or was cleared, does not come back |
| | `CountsTrue` | a sequence is counted once for each place it occurs at, across flushes |
| | `RecurrencesProposed` | what is proposed did recur; what recurred is in a pattern, or its loop, seen as often |
| `hermes` | `TurnOnce`, `WritersEnd` | a turn is in the journal once, under its session; every writer ends |
| `signin` | `SlotsAccounted` | every sign-in the service honours is in its computer's file, awaited, or was left with a notice |
| | `KeepsBoth`, `EdgesKeepTheirEnds` | a move keeps every row under its name or a suffixed one; an edge does not attach to a memory the account already had |
| `reads` | `SteadyFound`, `ZeroHonest` | what nobody touched is found; a reasoned zero is true |
| | `Tracked` | no open connection is out of reach of `close()` |
| | `WalksComplete` | what stays through a walk is listed once; a document's pages are its text |
| | `ServesTheSignedIn` | a tool serves an account the credentials named while it ran |
| | `IsKeyValueStore` | the refinement |
| `recall_reuse` | `HitsAreReal` | violated, section 6 |

### Bounds, and why they are enough

- `store`: two openers (every race is a look of one before a commit of the other), one row and one legacy
  edge, one fault; the stores every released version left on disk. A store of the v2 shape is opened in a part
  of its own (`pair`) without crashes: with one, it can be left unsearchable (section 6). Memories:
  a name that is written again, one it is linked with, a document; ids run out, after which only operations that need none go on.
- `pass_undisturbed`: three threads, a winner, a loser and a late comer. `pass_sessions`: one
  thread and the CLI, two disturbances, since of several threads two may free each
  other's lock for as long as they overlap.
- `skills`: one slug in the review part, as the properties are about one slug each; the smallest backlog (three
  events, batches of two) in the runs part; `Reviewed` and `Ran` in `MC_Skills` cut each part to what it is about.
- `gate`: one process, times up to two with every interval one, one setting of the clock, passes signed read-only (the
  policy matters to `ReadOnlyHeld` only). Two processes do not heal each other's mark: `CheckInHeals` is about one that checked in.
  Two writers on a store of one page's cap.
- `files`: one file of an old, a current and a late section, two runs, two backups made and one kept; every kind of host, one edit of each file, a tick of the
  clock between copies; three edits and two seconds for the migration.
- `hosts`: one host and one Claude Code session, caps of two, one loss of the file; six instants of two to a second;
  two sessions and two tools, six calls, lengths two and three, a tail kept for a day, so that a sequence is carried, forgotten, counted
  again and proposed within two days.
- `hermes`: two turns, one compression, one switch or restart, two attempts, one change of the account.
- `signin`: two computers, three sign-ins; stores of three rows and two edges; two accounts only where rows alone move.
- `reads`: two entities, a document and a row of another tenant, pages of two, two writes during a search; batches of
  two operations and a pool of two (10 000 in the code); keys and edges from one to three with two writes; three threads with three connections and one `close()`;
  two workers, two calls, three rewrites. A walk starts where one of documents, edges and text is not empty.

## 4. Fairness

Only the program's own steps are fair, never people, faults, sign-ins or the server's mood.

- `EntitlementRefresh`: a thread that runs makes progress (WF), the CLI finishes or dies
  (WF), a stale lock's age passes (WF). A refresh is asked for again and an answer that is not an outage comes again
  (SF): `_evaluate` asks on every operation whose retry is over, an agent keeps operating, and the server is not down
  for good; both can be pre-empted, hence strong.
- `SaveReminders`: the steps a process has begun and its flush timer (WF).
- `HermesAdapter`: a live process schedules its threads, and joins end at their timeout (WF).

All other properties are safety.

## 5. What is proved

For every value of the constants the assumptions admit: any number of openers, threads, sessions,
rows, edges, faults, installers, files, seconds. Each proof is an inductive invariant, the lemma that `Init` implies it, a
lemma with one step per action, and PTL.

| Theorem | Property | Why the property alone is not inductive |
|---|---|---|
| `Store_proofs` `LinksCopiedOnce` | `CopiedOnce` | `CopyInv`: nothing is unlinked before the table exists, and the legacy edges never change, which is what the look under the lock relies on |
| `ShadowTracksBase` | `ShadowFaithful` | over every writer of the shadow |
| `FastPathSearchable`, `MarkerTellsTruth` | `FastPathIndexed` | `IndexInv`, under `NoV2Store`: without a v2 store nobody reads its shape, so nobody drops an index |
| `NoRowLost` | | states `RowsSurvive`: every row written is live, archived or deleted by a client, exactly one of them |
| `NothingPointsNowhere` | `NothingDangles` | the cascade removes edges of both directions; archiving keeps them |
| `NoInheritedEdge` | `CurrentIsAsserted` | `EdgesVouched`: every edge is one somebody asserted, stamped on each entity side; an unstamped side never reads stale. With `KeysStayUnique`, a side that is not stale carries its live row's id (`FreshSide`) |
| `Gate_proofs` `DenialHolds` | `DenialSticks` | `CalmInv`: while undisturbed the lock excludes, a copy about to be written is the file as it is, an answer was given under the same lock |
| `PassIsKept` | `UndisturbedPassKept` | the same; `StillUndisturbed` shows the invariant need say nothing after the first disturbance |
| `LockExcludes`, `RacersShareOneCall` | | parts of it worth reading: one thread between lock and release, one call for racing refreshes |
| `FreeUnderCap` | `FreeStaysUnderCap` | while nobody ever paid, no entry in a cache or in a writer's hands is both trusted and uncapped; the size a writer estimated is not its size at the commit, which looks again |
| `GrantCommits` | `GrantReachesCommit` | an answer between `Answered` and `Save` is younger than the cache it goes to, unless another process stored one since |
| `ReadOnlyIsHeld` | `ReadOnlyHeld` | a policy read from the file is the policy of the pass in memory, in every process |
| `ExpiredHolds` | `ExpiredSticks` | the mark in the file, the one in memory and the clock a process acts on never fall between two check-ins |
| `CheckInsHeal` | `CheckInHeals` | one process: after its check-in no mark it holds or finds is ahead of the server's clock |
| `Proposals_proofs` `ReviewedOnce` | | states `ReviewIsFinal`, a decided proposal changes only from accepted to superseded: by cases on the step (`StepReviews`) |
| `CursorsCover` | `NothingSkipped` | `RunsFollow`: what lies before the row a run began at was passed already |
| `ProposedOnce` | `AskedOnce` | `AloneInv`: pending is read before accepted, and a proposal goes from pending to accepted, never back |
| `DocumentsMatchReviews` | | a skill document was written by an accepted proposal of its slug |
| `RejectionsAreHeeded` | `RejectionHeeded` | `HeedRead`: what a run is about to insert is held back by no rejection known to it, not even at a later look; a rejection is stamped with its moment (`Stamped`) |
| `SignIn_proofs` `NoSlotLeaks`, `SignInTyped` | `SlotsAccounted` | `OldGivenUp`: the sign-in a poll is about to overwrite is the one its bind gives up; `ReadsStand`: a command that writes credentials back read the ones that still stand; an open request is awaited or was left behind |
| `SignIn_proofs` `MovesKeepBoth` | `KeepsBoth` | `AdoptInv`: no row or edge is without a name, a stamp is a row written under the name its edge gives, whatever suffix either has by now, and a recorded rename keeps the name; on it, `RowsFrom` and `EdgesFrom` say what a move has made of the store after each step of its folds |
| `MovesKeepEnds` | `EdgesKeepTheirEnds` | `EndsInv`: rows of one tenant differ in name, and nothing was renamed into an account before its first move; then no name is left in both tenants after a move's first fold (`Apart`, `ConflictsApart`), so what an edge names before the second one is no other memory of the account, and `EndApart` follows both of its ends from there |
| `Reads_proofs` `EveryConnectionTracked` | `Tracked` | who closes what, and that a slot's connection is its own |
| `NoTransactionLeftOpen` | | a thread outside a transaction can begin one, unless `ROLLBACK` failed |
| `ToolsServeTheSignedIn` | `ServesTheSignedIn` | the cache's tenant is one the credentials named at or after the write whose time it is kept under |
| `ZeroesAreHonest` | `ZeroHonest` | `ZeroInv`: while clients only add, a row with a token that was found nowhere so far lies in a tier not yet read or is close to it, for the shadow to find; the same of a row and the probe (`ProbeAhead`) |
| `WhatStandsIsFound` | `SteadyFound` | `FoundInv`: at every point of the search an untouched memory lies in a tier not yet read, or among the token's rows, the candidates or the page; with it `HitsLoad` (its hit still loads, by number), names of hits are distinct, and a page that is not full holds all there was |
| `PagesMissNothing` | `WalksComplete` | `WalkInv`: rows received ascend and end at the cursor, and what stayed and lies there is among them; a text has been received up to the cursor |
| `BatchesAreAtomic` | `IsKeyValueStore` | `KvInv`: one row for a name, a batch past its validation has only puts with names, and the draft of the thread that writes is the committed rows, or these with its put: nobody commits between its `BEGIN` and its `COMMIT` |
| `Hosts_proofs` `EditsAreKept` | `EditsStay` | `EditSeen`: an installer about to write has seen the edit it must spare |
| `UnwantedStaysOut` | `NothingUnwanted` | `Below`: while recording is on, every unwanted instant in a buffer or the transcript is older than the floor |
| `TurnsRecordedOnce` | `TurnOnce` | what a writer thread still holds, and whether its transaction committed, for each turn that is not over |
| `NumbersAreOnce`, `CapsAreKept`, `WritesAreCounted` | `NumbersNeverRepeat`, `CapsKept`, `WritesAddUp` | one invariant, `ReminderInv` (theorem `RemindersInvariant`): every number in a transcript is below the session's next one; what a host decided on a snapshot it decides again under the lock; written counts are split among file, memory, flight and loss |
| `Files_proofs` `EditsSurviveMigration` | `NoEditLost` | a folder is filled once; a copy with the number of an edit that is still whole is whole or empty; `SafeToReplace` for the file about to be replaced |
| `SetupKeepsEdits` | `EditsKept` | `HeldIsWhole`: a text has no markers or one well-formed block, and what a setup holds is the file or lacks nothing a person wrote before its last look |
| `NothingIsLost` | `NothingLost` | `TrimInv`: what is owed lasts without the backups but for what an undo took out (`KeptElsewhere`), since a run copies the history before it rewrites (`CopiedFirst`), has seen all that is owed when it overwrites (`SawAll`), and its own backup is there under a stamp nobody else has (`OwnBackup`, `StampsFresh`) |
| `RewritesAreBackedUp` | `RewriteBackedUp` | the same |
| `Hosts_proofs` `CountsAreTrue` | `CountsTrue` | `TailsOf`: what is carried is the end of its session and, until something is forgotten, as long as it may be, so that every sequence which ends at the next call begins inside it |
| `RecurrencesAreProposed` | `RecurrencesProposed` | `EvidenceInv`: an entry has a last day in a session only if the sequence was called there, its last place there is no later than that day, it counts no more than the places there are (`EntryShows`), and no call is later than today (`Past`) |
| `PatternsAlwaysChosen` | | states that the greedy choice of `mine_cross_session` has a result whatever was recorded: the property above never speaks of an empty choice |

and the type invariants of the schema, the links, the renewal, the proposals and sign-in. Hypotheses, each with the reason it is there:

- `NoV2Store` in `MarkerTellsTruth` and `FastPathSearchable`: without it they are false (section 6).
- `CacheWrites = {"done"}` in `GrantCommits`: an answer that cannot be stored is not there at the commit (section 6).
- One process in `CheckInsHeal`: another process keeps the mark it saw while the clock ran ahead.
- `MarkersEdited = FALSE` in `SetupKeepsEdits`: with `TRUE` TLC refutes `EditsKept` (section 6).

`CountsAreTrue` is about texts of any length although nothing here is recursive: it counts the *places* of a sequence in a text, a
call more adds at most the place at its end (`OneMoreFrom`), and `EndedIn` is exactly the set of sequences at the end of the text when the
carried calls and the new one are at least `NMax` or the whole text (`EndedAtEnd`). In `SetupKeepsEdits` the lemmas on sequences
(`BlockFound`, `Spliced`, `UpsertKeeps`, `RemoveKeeps`, `InsertKeeps`) say what each text operation keeps of the lines around a block.

The theorems on `RecallQuery` need that SQLite's next row number is above all of a table's, those on `McpPages` that rows can be put in
order. Both are facts about finite sets by induction, which the library's induction rules cannot give here; `Largest` and `OrderExists` get
them from the well-foundedness of set inclusion on finite sets, applied to a smallest counterexample. For this `Shown` and `InOrder` choose an ordered
enumeration instead of folding or sorting. `TablesAndQueries` is what the schema and the code
guarantee of an instance: rows of a table differ in number and in name, tiers are listed once, tables are finite.

`RecurrencesAreProposed` has two halves. `EvidenceIsReal`: the day sums a proposal is judged by are no more than what happened; sums over sets of
any size come from `SumOneMore` and `SumWithin` of `FiniteFolds`. `NoneIsMissed`: what recurred is proposed, or lies inside a chosen pattern seen as often. A sequence
covers another if the other occurs in its endless repetition; `CoversAt` says so by places (`InFirstRound` brings one into the first round), which makes `CoversInside`,
`LongestAbove` and `CoversBack` arithmetic. No choice of patterns is singled out: the first half and the second hold of every set the
greedy condition allows, and `ChoiceExists` shows there is one, by a smallest counterexample whose last-ranked member is removed.

`MovesKeepBoth` is about folds over any number of rows and edges. `FoldSet` is a `CHOOSE` of a recursive function, so `FoldExists` first
shows that there is one, by smallest counterexample again, and `FoldWithin` that its result stays in a set its step keeps to (both in `FiniteFolds`).
`RekeyKeeps` is the heart: an edge that takes other names keeps the heads of its names, or gives way to an edge that has them.
That `MovesKeepEnds` finds a free suffix is the pigeonhole principle: rows and ends of edges hold at most `MaxRows + 2 * MaxEdges` names, and there is a suffix more (`NameLeft`).
`AdoptBounds` takes an account to differ from the default tenant, which `adopt_default_tenant` refuses to move into itself (`_adopt.py:487`).

`BatchesAreAtomic` is the refinement, for any threads, batches, rows and pool: initial states map to initial states (`StartsAlike`), every step to a
step or a stutter (`StepsAlike`). `BeginPut`, `Write`, a read-back and a passed validation are stutters; a put is the abstract effect at its `COMMIT`, a
read at its `SELECT`. The lemmas under it carry the codec: elements without a slash are joined to one category
and only theirs splits back to them (`JoinsElements`, `DecodesBack`), so a lookup by category finds the items of a namespace (`NamesItems`) and rows
count like items (`AsManyItems`); `SearchFits` and `ListFits` are the arithmetic of pages, pool and offsets, `MeetsAlike` that matching the
last elements is matching reversed namespaces. `CallsAndRows` says what `batch()` is handed.

Only model-checked: liveness (`Recovers`, `RevocationLands`, `WritesReachFile`, `WritersEnd`), which this prover cannot
reach, and `FastPathIndexed` on a store of the v2 shape.

Three proofs corrected the model. An earlier `NothingLost` held in the small instance of `files` and failed with two old
sections, more backups and keys, where an undo's text was pruned with a trim's backup or one run took away what another relied on:
`undone` and `spoilt` record the two, and section 6 lists what spoils. An earlier `SteadyFound` excused a search only while its verdict was a
refusal; a named memory beside a refused question makes the page `OK`, and then memories the gates had
refused counted as missed. It held because no body of the instance held every word of the refused
question; `Refused` now says what the gates refuse, and the instance has such a body. `Suffixes` of `Adoption` ended at
`MaxRows + 1`; a suffix is also taken while only an edge still has the name, so they could run out in a store with few rows and many edges, and it
is now `MaxRows + 2 * MaxEdges + 1`.

## 6. Disagreements

Shown by a run:

1. `pass_signout`. `sync_credentials_tier` looks at the sign-in when it reads the file and
   replaces the file after an `fsync`: credentials removed or replaced in between come back.
2. `recall_reuse`. Hits are found by row number and their bodies loaded by it. SQLite gives a deleted row's
   number to the next one, so a hit may carry another memory's text under the deleted one's name.

Met while modelling, outside the instances or excused by a property's wording:

- Two openers of a v2 store both read its shape; the second may drop what the first rebuilt, and if it
  dies then the marker stays over an empty index (`storage.py:567`). `pair` excludes the crash.
- `release_lock` and the steal unlink the lock by name: a holder that slept past the limit frees its successor's
  lock (`_entitlement.py:549`).
- `sibyl init` replaces credentials and pass without the lock, and a refresh in flight writes its older copy over
  them; the next renewal repairs it (`Recovers`).
- A write whose evaluation fetches the first pass is judged again without its name, so it passes a read-only policy; `ReadOnlyHeld` names
  it. `sibyl init` does not clear the marks a running host holds in memory. `peek()` uses up a forced refresh.
- A cache that cannot be stored makes the commit refuse a write the server granted. Two processes save answers in
  the order they finish, not the order the server gave them.
- Two overlapping learners insert one slug twice, and rejecting both copies mutes it (`learning.py:450`): `AskedOnce`
  excuses overlap. A run with `since` moves the watermark over rows nobody scanned (`NothingSkipped` excuses them).
- Two trims choose one reference key of the day, and the second replaces the first's document; two append to one history file, and the
  second drops what the first wrote; a run prunes the backup of one under way (`apply.py:456`, `581`, `355`). `NothingLost` ends there
  (`spoilt`). An edit between the last look and the replacement is overwritten.
- In `setup` the block is what lies between the first begin marker and the next end marker. Once a person has overwritten the end marker, a
  setup appends a second block and the next one, or an uninstall, removes both and the person's lines between (`setup.py:493`), while
  the docstring of `upsert_block` says the text around the block is untouched. `Files.cfg` with `MarkersEdited = TRUE` shows it.
- `_detect_tool_sequence` drops contained sequences for longer ones before it merges the windows of one loop. After A B C four times and A
  once more, ABC and BCA fall to ABCA, whose own repetition holds no other window: four patterns for one loop, where its
  docstring promises one (`learning.py:1064`).
- A setup's second backup of one second overwrites the first (`setup.py:51`). `_install_plugin` ignores a refusal of `install()`.
- A skill file whose installer was killed before the manifest counts as edited from then on.
- A request bound after its terminal gave up is a sign-in in no file (`cli.py:1183`); `upgrade`, `claim` and
  `email` write back the credentials they read minutes before (`cli.py:1586`).
- A batch whose key `validate_identifier` refuses fails in the middle, after earlier puts committed (`store.py:426`): `KeyValueStore` therefore
  lets a batch fail after any operation. Categories of other programs with empty parts are listed and cannot be addressed.
- A turn whose writer meets the stop flag is skipped, although the adapter's header says shutdown drops none in flight;
  two writers overlap once a join gave up; one process name maps distinct profiles to one database.
- A read error of `credentials.json` caches the default tenant under a time that matches later. A client
  built while somebody signs in is kept under "no file"; if another sign-in lands before the gate, a call that
  found no file may be served by it. `ServesTheSignedIn` speaks of calls that found one. A cursor of a long key is refused by the
  decoder that made it (`RefuseCursor`).
- The migration compares sizes: an edit that keeps the size is replaced. It prints that files are changed only by a
  confirmed trim, although wiring rewrote them.
- In the reminders, a write flushed between a save's marker and its note is forgotten with the others; a process
  that looks again reads its own clock. In the signals, a learner that loaded before `clear` may still propose.

## 7. Not modelled

- Signature checks, ranking, folding, snippets, confidence, report layout: pure functions. Where one decides between steps
  it is a choice (which candidates rank first, which sections are old).
- The heartbeat, doctor, lint, the provider, exports and secret wrappers: no state two steps can disagree about.
- Journal, state documents and learner cursors in an adoption; eviction for room and entity writes of the signals; capsules, plan and
  free-plan lines of the reminders; prefetch, mirror and delegation of Hermes; detection and dry runs of setup; the pairing texts of sign-in.
- Two commands of one computer at once (`SignIn`), two setups of one host, two migrations: the code does not expect them.
- SQLite itself: a transaction is atomic, a busy database is a failed step.

## 8. Plan

Left, in order of worth: the journal and the learner's cursors in `Adoption`, after which a watermark may stand above rows
never scanned; two terminals in `SignIn`; the detector of correction loops; the capsules of `lifecycle/capsule.py`;
`RecallQuery` with two searches on one client, whose verdict attribute they share.
