----------------------------- MODULE SchemaOpen -----------------------------
(***************************************************************************)
(* Opening a memory store (sibyl_memory_client/storage.py, _ensure_schema  *)
(* and what it calls): every process that opens the file copies the legacy *)
(* edges, applies schema.sql statement by statement, adds the identity     *)
(* columns, reads how far the search indexes got and migrates the rest.    *)
(* Several processes (an MCP server, a Hermes provider, the CLI) do this   *)
(* on one file at the same time, and any of them may die between two       *)
(* commits.  One step here is one committed transaction, or one statement  *)
(* group of the autocommitted schema script.                               *)
(***************************************************************************)
EXTENDS Naturals

CONSTANTS
    Openers,       \* processes that open the store
    IndexedRows,   \* rows the base tables may hold
    Legacy,        \* edges of entity_relations in a store older than v6
    OldStores,     \* the stores a run may start from
    MaxFaults      \* bound on crashes and out-of-band shadow damage

\* A store an earlier version left behind: its marker and its shadow are as
\* honest as that version made them (a v2 store, or one whose migration died
\* before the marker existed, carries marker 0).
HonestStore(s) ==
    /\ s.marker >= 3 => s.fts = "v3" /\ s.triggers /\ s.indexed = s.base
    /\ s.shadow \in {"old", "current"} => s.shadowed = s.base
    /\ s.base \subseteq IndexedRows /\ s.indexed \subseteq IndexedRows /\ s.shadowed \subseteq IndexedRows
    /\ s.tables \in BOOLEAN /\ s.triggers \in BOOLEAN
    /\ s.fts \in {"none", "v2", "v3"} /\ s.marker \in 0..6
    /\ s.shadow \in {"absent", "broken", "old", "current", "corrupt"}
    /\ s.links \in {"absent", "plain", "stamped"}

ASSUME OldStoresAssumption ==
    /\ \A s \in OldStores : HonestStore(s)
    /\ MaxFaults \in Nat

VARIABLES
    tables,      \* the base tables exist
    base,        \* rows in the base tables
    fts,         \* shape of entities_fts: "none", "v2" or "v3"
    triggers,    \* its maintenance triggers exist
    indexed,     \* rows its index finds
    shadow,      \* the search_shadow table, its triggers and its rendering
    shadowed,    \* rows the shadow holds
    marker,      \* PRAGMA user_version
    linkTable,   \* memory_links: "absent", "plain" (no stamps) or "stamped"
    edges,       \* its edges
    relations,   \* the frozen entity_relations
    unlinked,    \* history: edges a user removed after the copy
    pc,          \* where each opener is
    seen,        \* what each opener read before it took the write lock
    faults

store == <<tables, base, fts, triggers, indexed, shadow, shadowed, marker,
           linkTable, edges, relations>>
openVars == <<store, unlinked, pc, seen, faults>>

RebuildMarker == 3      \* _FTS_REBUILD_MARKER
ShadowMarker == 6       \* SHADOW_MARKER

Shadows == {"absent", "broken", "old", "current", "corrupt"}
Steps == {"closed", "links", "tables", "rest", "identity", "shape", "marker",
          "drop", "tablesAgain", "restAgain", "rebuild", "shadow", "open"}
Seen == [shape : {"v2", "v3"}, marker : 0..ShadowMarker, rendering : {"fit", "stale"}]
Nothing == [shape |-> "v3", marker |-> 0, rendering |-> "stale"]

OpenOK ==
    /\ tables \in BOOLEAN /\ triggers \in BOOLEAN
    /\ base \in SUBSET IndexedRows /\ indexed \in SUBSET IndexedRows /\ shadowed \in SUBSET IndexedRows
    /\ fts \in {"none", "v2", "v3"} /\ shadow \in Shadows
    /\ marker \in 0..ShadowMarker
    /\ linkTable \in {"absent", "plain", "stamped"}
    /\ edges \in SUBSET Legacy /\ relations \in SUBSET Legacy
    /\ unlinked \in SUBSET Legacy
    /\ pc \in [Openers -> Steps] /\ seen \in [Openers -> Seen]
    /\ faults \in 0..MaxFaults

OpenInit ==
    /\ \E s \in OldStores :
        /\ tables = s.tables /\ base = s.base
        /\ fts = s.fts /\ triggers = s.triggers /\ indexed = s.indexed
        /\ shadow = s.shadow /\ shadowed = s.shadowed /\ marker = s.marker
        /\ linkTable = s.links
        /\ relations = IF s.tables THEN Legacy ELSE {}
        /\ edges = IF s.links = "absent" THEN {} ELSE relations
    /\ unlinked = {}
    /\ pc = [p \in Openers |-> "closed"]
    /\ seen = [p \in Openers |-> Nothing]
    /\ faults = 0

Goto(p, step) == pc' = [pc EXCEPT ![p] = step]
At(p, step) == pc[p] = step

(* ------------------------- the schema script -------------------------- *)

NeedsLinks == tables /\ linkTable = "absent"

\* _migrate_links_v6 looks first without the lock ...
Begin(p) ==
    /\ At(p, "closed")
    /\ Goto(p, IF NeedsLinks THEN "links" ELSE "tables")
    /\ UNCHANGED <<store, unlinked, seen, faults>>

\* Mutant: the copy trusts the look taken before the lock.
CopyUnchecked == linkTable' = "stamped" /\ edges' = edges \union relations

\* ... and again under it; the table and the copied edges commit together.
CopyIfNeeded ==
    IF NeedsLinks THEN linkTable' = "stamped" /\ edges' = relations
                  ELSE UNCHANGED <<linkTable, edges>>

MigrateLinks(p) ==
    /\ At(p, "links")
    /\ CopyIfNeeded
    /\ Goto(p, "tables")
    /\ UNCHANGED <<tables, base, fts, triggers, indexed, shadow, shadowed,
                   marker, relations, unlinked, seen, faults>>

\* schema.sql, first part: CREATE TABLE IF NOT EXISTS, then the FTS tables.
ScriptTables(p) ==
    /\ pc[p] \in {"tables", "tablesAgain"}
    /\ tables' = TRUE
    /\ fts' = IF fts = "none" THEN "v3" ELSE fts
    /\ indexed' = IF fts = "none" THEN {} ELSE indexed
    /\ Goto(p, IF At(p, "tables") THEN "rest" ELSE "restAgain")
    /\ UNCHANGED <<base, triggers, shadow, shadowed, marker, linkTable, edges,
                   relations, unlinked, seen, faults>>

\* schema.sql, the rest: the FTS triggers, and memory_links at its end.
\* A concurrent DROP between the two parts makes CREATE TRIGGER succeed (its
\* body is resolved when it fires), so nothing here depends on fts.
ScriptRest(p) ==
    /\ pc[p] \in {"rest", "restAgain"}
    /\ triggers' = TRUE
    /\ linkTable' = IF linkTable = "absent" THEN "stamped" ELSE linkTable
    /\ Goto(p, IF At(p, "rest") THEN "identity" ELSE "rebuild")
    /\ UNCHANGED <<tables, base, fts, indexed, shadow, shadowed, marker, edges,
                   relations, unlinked, seen, faults>>

\* _migrate_links_identity: re-checked under the lock, one transaction.
AddIdentity(p) ==
    /\ At(p, "identity")
    /\ linkTable' = IF linkTable = "plain" THEN "stamped" ELSE linkTable
    /\ Goto(p, "shape")
    /\ UNCHANGED <<tables, base, fts, triggers, indexed, shadow, shadowed,
                   marker, edges, relations, unlinked, seen, faults>>

(* ------------------------ _migrate_if_needed -------------------------- *)

ShadowComplete == shadow \notin {"absent", "broken"}
RenderingCurrent == shadow = "old" => shadowed = {}   \* samples one row

\* The reads, statement by statement and without the write lock: the shape ...
ProbeShape(p) ==
    /\ At(p, "shape")
    /\ IF fts = "none"
         THEN Goto(p, "open") /\ UNCHANGED seen
         ELSE Goto(p, "marker") /\ seen' = [seen EXCEPT ![p].shape = fts]
    /\ UNCHANGED <<store, unlinked, faults>>

\* Mutant: an unset marker is taken for a healthy v3 store.
AfterProbeNoRebuild(shape, mark, fit) ==
    CASE shape = "v2" -> "drop"
      [] shape = "v3" /\ (mark < ShadowMarker \/ fit = "stale") -> "shadow"
      [] OTHER -> "open"

\* ... then the marker and the shadow, and with them what is left to do.
AfterProbe(shape, mark, fit) ==
    CASE shape = "v2" -> "drop"
      [] shape = "v3" /\ mark < RebuildMarker -> "rebuild"
      [] shape = "v3" /\ mark >= RebuildMarker
           /\ (mark < ShadowMarker \/ fit = "stale") -> "shadow"
      [] OTHER -> "open"

Fitness == IF ShadowComplete /\ RenderingCurrent THEN "fit" ELSE "stale"

ProbeMarker(p) ==
    /\ At(p, "marker")
    /\ seen' = [seen EXCEPT ![p].marker = marker, ![p].rendering = Fitness]
    /\ Goto(p, AfterProbe(seen[p].shape, marker, Fitness))
    /\ UNCHANGED <<store, unlinked, faults>>

\* v2 -> v3: one transaction drops the tables and their triggers.  The shape
\* is the one read before the lock.
DropFts(p) ==
    /\ At(p, "drop")
    /\ fts' = "none" /\ triggers' = FALSE /\ indexed' = {}
    /\ Goto(p, "tablesAgain")
    /\ UNCHANGED <<tables, base, shadow, shadowed, marker, linkTable, edges,
                   relations, unlinked, seen, faults>>

\* Index rows and marker commit together; the shadow, when there, is refilled.
Rebuild(p) ==
    /\ At(p, "rebuild")
    /\ fts # "none"
    /\ indexed' = base
    /\ marker' = RebuildMarker
    /\ shadowed' = IF shadow = "absent" THEN shadowed ELSE base
    /\ Goto(p, IF seen[p].marker < ShadowMarker \/ seen[p].rendering = "stale"
                 THEN "shadow" ELSE "open")
    /\ UNCHANGED <<tables, base, fts, triggers, shadow, linkTable, edges,
                   relations, unlinked, seen, faults>>

\* Mutant: the shadow is created and stamped but not filled.
ApplyShadowEmpty(p) ==
    /\ At(p, "shadow")
    /\ shadow' = "current" /\ marker' = ShadowMarker
    /\ Goto(p, "open")
    /\ UNCHANGED <<tables, base, fts, triggers, indexed, shadowed, linkTable,
                   edges, relations, unlinked, seen, faults>>

\* apply_shadow_migration and its marker, one transaction.
ApplyShadow(p) ==
    /\ At(p, "shadow")
    /\ shadow' = "current" /\ shadowed' = base /\ marker' = ShadowMarker
    /\ Goto(p, "open")
    /\ UNCHANGED <<tables, base, fts, triggers, indexed, linkTable, edges,
                   relations, unlinked, seen, faults>>

\* A rebuild that finds its table dropped raises SchemaError: the open fails.
RebuildFails(p) ==
    /\ At(p, "rebuild") /\ fts = "none"
    /\ Goto(p, "closed")
    /\ UNCHANGED <<store, unlinked, seen, faults>>

\* The process dies, or the step raises (disk full, busy timeout): whatever
\* was not committed is gone.
Crash(p) ==
    /\ pc[p] \notin {"closed", "open"}
    /\ faults < MaxFaults /\ faults' = faults + 1
    /\ Goto(p, "closed")
    /\ seen' = [seen EXCEPT ![p] = Nothing]
    /\ UNCHANGED <<store, unlinked>>

Close(p) ==
    /\ At(p, "open")
    /\ Goto(p, "closed")
    /\ seen' = [seen EXCEPT ![p] = Nothing]
    /\ UNCHANGED <<store, unlinked, faults>>

(* ------------------------- using an open store ------------------------ *)

ShadowTriggers == shadow \in {"old", "current"}

\* A trigger whose FTS table is gone or unusable raises, and the write with it.
Writable == shadow # "corrupt" /\ (triggers => fts # "none")

Insert(p, r) ==
    /\ At(p, "open") /\ r \notin base /\ Writable
    /\ base' = base \union {r}
    /\ indexed' = IF triggers THEN indexed \union {r} ELSE indexed
    /\ shadowed' = IF ShadowTriggers THEN shadowed \union {r} ELSE shadowed
    /\ UNCHANGED <<tables, fts, triggers, shadow, marker, linkTable, edges,
                   relations, unlinked, pc, seen, faults>>

Remove(p, r) ==
    /\ At(p, "open") /\ r \in base /\ Writable
    /\ base' = base \ {r}
    /\ indexed' = IF triggers THEN indexed \ {r} ELSE indexed
    /\ shadowed' = IF ShadowTriggers THEN shadowed \ {r} ELSE shadowed
    /\ UNCHANGED <<tables, fts, triggers, shadow, marker, linkTable, edges,
                   relations, unlinked, pc, seen, faults>>

UnlinkLegacy(p, e) ==
    /\ At(p, "open") /\ linkTable # "absent" /\ e \in edges
    /\ edges' = edges \ {e} /\ unlinked' = unlinked \union {e}
    /\ UNCHANGED <<tables, base, fts, triggers, indexed, shadow, shadowed,
                   marker, linkTable, relations, pc, seen, faults>>

\* A search that meets an unusable shadow rebuilds it and stamps the marker.
Heal(p) ==
    /\ At(p, "open") /\ shadow = "corrupt"
    /\ shadow' = "current" /\ shadowed' = base /\ marker' = ShadowMarker
    /\ UNCHANGED <<tables, base, fts, triggers, indexed, linkTable, edges,
                   relations, unlinked, pc, seen, faults>>

\* Out-of-band: triggers dropped by another tool, a damaged file, an older
\* client that healed the shadow in its own rendering under the same marker.
DamageShadow ==
    /\ shadow = "current"
    /\ faults < MaxFaults /\ faults' = faults + 1
    /\ \/ shadow' = "broken" /\ UNCHANGED shadowed
       \/ shadow' = "corrupt" /\ UNCHANGED shadowed
       \/ shadow' = "old" /\ shadowed' = base
    /\ UNCHANGED <<tables, base, fts, triggers, indexed, marker, linkTable, edges,
                   relations, unlinked, pc, seen>>

Step(p) ==
    \/ Begin(p) \/ MigrateLinks(p) \/ ScriptTables(p) \/ ScriptRest(p)
    \/ AddIdentity(p) \/ ProbeShape(p) \/ ProbeMarker(p) \/ DropFts(p)
    \/ Rebuild(p) \/ RebuildFails(p) \/ ApplyShadow(p)

OpenNext ==
    \/ \E p \in Openers : Step(p) \/ Crash(p) \/ Close(p) \/ Heal(p)
    \/ \E p \in Openers, r \in IndexedRows : Insert(p, r) \/ Remove(p, r)
    \/ \E p \in Openers, e \in Legacy : UnlinkLegacy(p, e)
    \/ DamageShadow

OpenSpec == OpenInit /\ [][OpenNext]_openVars

(* ----------------------------- properties ----------------------------- *)

\* The marker is the sole signal that the search index is whole: once it is
\* set, the index finds every base row and its triggers keep it so.
MarkerHonest ==
    marker >= RebuildMarker => fts = "v3" /\ triggers /\ indexed = base

\* A current shadow holds exactly the base rows, whoever wrote it last.
ShadowFaithful == shadow \in {"current", "old"} => shadowed = base

\* memory_links holds the legacy edges minus those a user unlinked: no open,
\* however interleaved or crashed, copies twice, loses or resurrects an edge.
CopiedOnce ==
    linkTable # "absent" => edges = relations \ unlinked

Settled == \A p \in Openers : pc[p] \in {"closed", "open"}
FastPath ==
    /\ fts = "v3" /\ marker >= ShadowMarker
    /\ ShadowComplete /\ RenderingCurrent

\* Once nobody is migrating, a store the next open would take as it is (the
\* O(1) fast path) finds every row: no store is left unsearchable for good.
FastPathIndexed == Settled /\ FastPath => indexed = base

=============================================================================
