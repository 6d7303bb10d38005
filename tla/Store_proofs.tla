---------------------------- MODULE Store_proofs -----------------------------
(***************************************************************************)
(* What holds of opening a store, for any number of openers, rows, legacy  *)
(* edges, crashes and out-of-band damage, and of the links it keeps, for   *)
(* any tenants, names, rows, relations and starting stores.                *)
(***************************************************************************)
EXTENDS SchemaOpen, MemoryLinks, TLAPS

-----------------------------------------------------------------------------
(* Opening the store.                                                       *)

(* --------------------------- type correctness ------------------------- *)

\* Every variable of the store and of its openers keeps its type.
THEOREM OpenTyped == OpenSpec => []OpenOK
<1> USE OldStoresAssumption DEF RebuildMarker, ShadowMarker, Shadows, Steps, Seen
<1>1. OpenInit => OpenOK
  BY DEF OpenInit, OpenOK, HonestStore, Nothing
<1>2. OpenOK /\ [OpenNext]_openVars => OpenOK'
  <2> SUFFICES ASSUME OpenOK, [OpenNext]_openVars PROVE OpenOK'
    OBVIOUS
  <2> USE DEF OpenOK, At, Goto, store
  <2>1. ASSUME NEW p \in Openers, Step(p) PROVE OpenOK'
    <3>1. CASE Begin(p)         BY <3>1 DEF Begin
    <3>2. CASE MigrateLinks(p)  BY <3>2 DEF MigrateLinks, CopyIfNeeded
    <3>3. CASE ScriptTables(p)  BY <3>3 DEF ScriptTables
    <3>4. CASE ScriptRest(p)    BY <3>4 DEF ScriptRest
    <3>5. CASE AddIdentity(p)   BY <3>5 DEF AddIdentity
    <3>6. CASE ProbeShape(p)    BY <3>6 DEF ProbeShape
    <3>7. CASE ProbeMarker(p)
      <4>1. AfterProbe(seen[p].shape, marker, Fitness) \in Steps
        BY DEF AfterProbe, Fitness
      <4>2. seen' \in [Openers -> Seen]
        BY ZenonT(30), <3>7 DEF ProbeMarker, Fitness
      <4>3. QED
        BY <3>7, <4>1, <4>2 DEF ProbeMarker
    <3>8. CASE DropFts(p)       BY <3>8 DEF DropFts
    <3>9. CASE Rebuild(p)       BY <3>9 DEF Rebuild
    <3>10. CASE RebuildFails(p) BY <3>10 DEF RebuildFails
    <3>11. CASE ApplyShadow(p)  BY <3>11 DEF ApplyShadow
    <3>12. QED
      BY <2>1, <3>1, <3>2, <3>3, <3>4, <3>5, <3>6, <3>7, <3>8, <3>9, <3>10,
         <3>11 DEF Step
  <2>2. ASSUME NEW p \in Openers, Crash(p) \/ Close(p) \/ Heal(p)
        PROVE  OpenOK'
    BY <2>2 DEF Crash, Close, Heal, Nothing
  <2>3. ASSUME NEW p \in Openers, NEW r \in IndexedRows, Insert(p, r) \/ Remove(p, r)
        PROVE  OpenOK'
    BY <2>3 DEF Insert, Remove
  <2>4. ASSUME NEW p \in Openers, NEW e \in Legacy, UnlinkLegacy(p, e)
        PROVE  OpenOK'
    BY <2>4 DEF UnlinkLegacy
  <2>5. CASE DamageShadow
    BY <2>5 DEF DamageShadow
  <2>6. CASE UNCHANGED openVars
    BY <2>6 DEF openVars
  <2>7. QED
    BY <2>1, <2>2, <2>3, <2>4, <2>5, <2>6 DEF OpenNext
<1>3. QED
  BY <1>1, <1>2, PTL DEF OpenSpec

(* ---------------------------- the edge copy --------------------------- *)

\* What makes the copy safe without a marker of its own: an opener past the
\* copy never meets a legacy graph without memory_links, and nobody unlinks
\* before the copy.
CopyInv ==
    /\ relations # {} => tables
    /\ linkTable = "absent" => edges = {} /\ unlinked = {}
    /\ \A p \in Openers :
         pc[p] \notin {"closed", "links"} /\ relations # {} => linkTable # "absent"
    /\ CopiedOnce

LEMMA CopyInit == OpenInit => CopyInv
  BY DEF OpenInit, CopyInv, CopiedOnce

LEMMA CopyStep == OpenOK /\ CopyInv /\ [OpenNext]_openVars => CopyInv'
<1> SUFFICES ASSUME OpenOK, CopyInv, [OpenNext]_openVars PROVE CopyInv'
  OBVIOUS
<1> USE DEF OpenOK, CopyInv, CopiedOnce, At, Goto, store
<1>1. ASSUME NEW p \in Openers, Step(p) PROVE CopyInv'
  <2>1. CASE Begin(p)         BY <2>1 DEF Begin, NeedsLinks
  <2>2. CASE MigrateLinks(p)
    BY <2>2 DEF MigrateLinks, CopyIfNeeded, NeedsLinks
  <2>3. CASE ScriptTables(p)  BY <2>3 DEF ScriptTables
  <2>4. CASE ScriptRest(p)    BY <2>4 DEF ScriptRest
  <2>5. CASE AddIdentity(p)   BY <2>5 DEF AddIdentity
  <2>6. CASE ProbeShape(p)    BY <2>6 DEF ProbeShape
  <2>7. CASE ProbeMarker(p)   BY <2>7 DEF ProbeMarker
  <2>8. CASE DropFts(p)       BY <2>8 DEF DropFts
  <2>9. CASE Rebuild(p)       BY <2>9 DEF Rebuild
  <2>10. CASE RebuildFails(p) BY <2>10 DEF RebuildFails
  <2>11. CASE ApplyShadow(p)  BY <2>11 DEF ApplyShadow
  <2>12. QED
    BY <1>1, <2>1, <2>2, <2>3, <2>4, <2>5, <2>6, <2>7, <2>8, <2>9, <2>10,
       <2>11 DEF Step
<1>2. ASSUME NEW p \in Openers, Crash(p) \/ Close(p) \/ Heal(p)
      PROVE  CopyInv'
  BY <1>2 DEF Crash, Close, Heal
<1>3. ASSUME NEW p \in Openers, NEW r \in IndexedRows, Insert(p, r) \/ Remove(p, r)
      PROVE  CopyInv'
  BY <1>3 DEF Insert, Remove
<1>4. ASSUME NEW p \in Openers, NEW e \in Legacy, UnlinkLegacy(p, e)
      PROVE  CopyInv'
  BY <1>4 DEF UnlinkLegacy
<1>5. CASE DamageShadow   BY <1>5 DEF DamageShadow
<1>6. CASE UNCHANGED openVars BY <1>6 DEF openVars
<1>7. QED
  BY <1>1, <1>2, <1>3, <1>4, <1>5, <1>6 DEF OpenNext

\* No open, however interleaved with other opens or cut short by a crash,
\* copies the legacy edges twice, loses one or resurrects an unlinked one.
THEOREM LinksCopiedOnce == OpenSpec => []CopiedOnce
<1>1. CopyInv => CopiedOnce
  BY DEF CopyInv
<1>2. QED
  BY CopyInit, CopyStep, OpenTyped, <1>1, PTL DEF OpenSpec

(* ------------------------------ the shadow ---------------------------- *)

\* A shadow whose triggers are in place holds exactly the base rows: fills,
\* heals, rebuilds and writes of any number of processes keep it so.
THEOREM ShadowTracksBase == OpenSpec => []ShadowFaithful
<1> USE DEF ShadowFaithful
<1>1. OpenInit => ShadowFaithful
  BY OldStoresAssumption DEF OpenInit, HonestStore
<1>2. OpenOK /\ ShadowFaithful /\ [OpenNext]_openVars => ShadowFaithful'
  <2> SUFFICES ASSUME OpenOK, ShadowFaithful, [OpenNext]_openVars PROVE ShadowFaithful'
    OBVIOUS
  <2> USE DEF OpenOK, Shadows, store
  <2>1. ASSUME NEW p \in Openers, Step(p) PROVE ShadowFaithful'
    BY <2>1 DEF Step, Begin, MigrateLinks, ScriptTables, ScriptRest, AddIdentity,
       ProbeShape, ProbeMarker, DropFts, Rebuild, RebuildFails, ApplyShadow
  <2>2. ASSUME NEW p \in Openers, Crash(p) \/ Close(p) \/ Heal(p)
        PROVE  ShadowFaithful'
    BY <2>2 DEF Crash, Close, Heal
  <2>3. ASSUME NEW p \in Openers, NEW r \in IndexedRows, Insert(p, r) \/ Remove(p, r)
        PROVE  ShadowFaithful'
    BY <2>3 DEF Insert, Remove, ShadowTriggers
  <2>4. ASSUME NEW p \in Openers, NEW e \in Legacy, UnlinkLegacy(p, e)
        PROVE  ShadowFaithful'
    BY <2>4 DEF UnlinkLegacy
  <2>5. CASE DamageShadow   BY <2>5 DEF DamageShadow
  <2>6. CASE UNCHANGED openVars BY <2>6 DEF openVars
  <2>7. QED
    BY <2>1, <2>2, <2>3, <2>4, <2>5, <2>6 DEF OpenNext
<1>3. QED
  BY <1>1, <1>2, OpenTyped, PTL DEF OpenSpec

(* ------------------------------- the index ---------------------------- *)

\* No store in its old shape: what keeps DropFts, whose decision is read
\* before the lock, out of the behaviours (with it the property is false).
NoV2Store == \A s \in OldStores : s.fts # "v2"

\* What each opener has learnt of the index: once its schema script is through
\* the tables and triggers stay, and past the rebuild the marker is set.
IndexInv ==
    /\ fts # "v2"
    /\ \A p \in Openers :
         /\ seen[p].shape = "v3"
         /\ pc[p] \notin {"drop", "tablesAgain", "restAgain"}
         /\ pc[p] = "rest" => fts = "v3"
         /\ pc[p] \in {"identity", "shape", "marker", "rebuild", "shadow", "open"}
              => triggers /\ fts = "v3"
         /\ pc[p] \in {"shadow", "open"} => marker >= RebuildMarker
    /\ MarkerHonest

LEMMA IndexInit == NoV2Store /\ OpenInit => IndexInv
  BY OldStoresAssumption
  DEF NoV2Store, OpenInit, IndexInv, MarkerHonest, HonestStore, RebuildMarker, Nothing

LEMMA IndexStep == OpenOK /\ IndexInv /\ [OpenNext]_openVars => IndexInv'
<1> SUFFICES ASSUME OpenOK, IndexInv, [OpenNext]_openVars PROVE IndexInv'
  OBVIOUS
<1> USE DEF OpenOK, IndexInv, MarkerHonest, At, Goto, store, RebuildMarker,
            ShadowMarker
<1>1. ASSUME NEW p \in Openers, Step(p) PROVE IndexInv'
  <2>1. CASE Begin(p)         BY <2>1 DEF Begin
  <2>2. CASE MigrateLinks(p)  BY <2>2 DEF MigrateLinks
  <2>3. CASE ScriptTables(p)  BY <2>3 DEF ScriptTables
  <2>4. CASE ScriptRest(p)    BY <2>4 DEF ScriptRest
  <2>5. CASE AddIdentity(p)   BY <2>5 DEF AddIdentity
  <2>6. CASE ProbeShape(p)    BY <2>6 DEF ProbeShape, Seen
  <2>7. CASE ProbeMarker(p)
    <3>1. seen[p].shape = "v3" /\ seen'[p].shape = "v3"
      BY <2>7 DEF ProbeMarker, Seen
    <3>2. CASE marker < RebuildMarker
      BY <2>7, <3>1, <3>2 DEF ProbeMarker, AfterProbe
    <3>3. CASE marker >= RebuildMarker
      BY <2>7, <3>1, <3>3 DEF ProbeMarker, AfterProbe, Fitness
    <3>4. QED
      BY <3>2, <3>3
  <2>8. CASE DropFts(p)       BY <2>8 DEF DropFts
  <2>9. CASE Rebuild(p)       BY <2>9 DEF Rebuild
  <2>10. CASE RebuildFails(p) BY <2>10 DEF RebuildFails
  <2>11. CASE ApplyShadow(p)  BY <2>11 DEF ApplyShadow
  <2>12. QED
    BY <1>1, <2>1, <2>2, <2>3, <2>4, <2>5, <2>6, <2>7, <2>8, <2>9, <2>10,
       <2>11 DEF Step
<1>2. ASSUME NEW p \in Openers, Crash(p) \/ Close(p) \/ Heal(p)
      PROVE  IndexInv'
  BY <1>2 DEF Crash, Close, Heal, Nothing, Seen
<1>3. ASSUME NEW p \in Openers, NEW r \in IndexedRows, Insert(p, r) \/ Remove(p, r)
      PROVE  IndexInv'
  BY <1>3 DEF Insert, Remove
<1>4. ASSUME NEW p \in Openers, NEW e \in Legacy, UnlinkLegacy(p, e)
      PROVE  IndexInv'
  BY <1>4 DEF UnlinkLegacy
<1>5. CASE DamageShadow   BY <1>5 DEF DamageShadow
<1>6. CASE UNCHANGED openVars BY <1>6 DEF openVars
<1>7. QED
  BY <1>1, <1>2, <1>3, <1>4, <1>5, <1>6 DEF OpenNext

\* A store that never had the old index shape: the marker, once set, is the
\* truth about the index for any number of concurrent opens and crashes.
THEOREM MarkerTellsTruth == NoV2Store /\ OpenSpec => []MarkerHonest
<1>1. IndexInv => MarkerHonest
  BY DEF IndexInv
<1>2. QED
  BY IndexInit, IndexStep, OpenTyped, <1>1, PTL DEF OpenSpec

\* ... and so no such store ends up one that opens on the fast path without
\* finding its rows, which is what two openers of a v2 store can leave.
THEOREM FastPathSearchable == NoV2Store /\ OpenSpec => []FastPathIndexed
<1>1. OpenOK /\ MarkerHonest => FastPathIndexed
  BY DEF OpenOK, MarkerHonest, FastPathIndexed, FastPath, RebuildMarker,
         ShadowMarker
<1>2. QED
  BY MarkerTellsTruth, OpenTyped, <1>1, PTL

-----------------------------------------------------------------------------
(* The links between memories.  What holds an edge together with the rows   *)
(* it is about is EdgesVouched: every edge is one somebody asserted, entity *)
(* sides carry a row id and documents none.  With one live row per name, an *)
(* edge that is not stale then carries the very ids of its live ends.       *)

EdgesVouched ==
    \A e \in links : /\ Fact(e) \in asserted
                     /\ Known(e.from, e.fromId) /\ Known(e.to, e.toId)

IInv ==
    /\ TypeOK /\ KeysUnique /\ RowsSurvive
    /\ DanglingIsArchived /\ EdgesVouched /\ AcceptedHasDocument

(* ------------------------- rows and their stamps ---------------------- *)

\* The stamp of a live entity is the id of its one row; a document has none.
LEMMA StampOfLive ==
    ASSUME NEW rows \in SUBSET Rows, NEW documents, OneRowPerName(rows),
           NEW t, NEW n, Live(rows, documents, t, n)
    PROVE  /\ Stamp(rows, t, n) \in Stamps
           /\ Known(n, Stamp(rows, t, n))
           /\ n.tier # "entity" => Stamp(rows, t, n) = Unknown
           /\ n.tier = "entity" => \E r \in Named(rows, t, n.key) : Stamp(rows, t, n) = r.id
<1> DEFINE R == Named(rows, t, n.key)
<1>1. CASE n.tier = "entity"
  <2>1. R # {} BY <1>1 DEF Live
  <2> DEFINE c == CHOOSE r \in R : TRUE
  <2>2. c \in R BY <2>1
  <2>3. Stamp(rows, t, n) = c.id BY <1>1, <2>1 DEF Stamp
  <2>4. c \in Rows BY <2>2 DEF Named
  <2>5. c.id \in Ids BY <2>4 DEF Rows
  <2> HIDE DEF c, R
  <2>6. c.id # Unknown BY <2>5, StoresAssumption
  <2> QED BY <1>1, <2>2, <2>3, <2>5, <2>6 DEF Stamps, Known, R
<1>2. CASE n.tier # "entity"
  BY <1>2 DEF Stamp, Known, Stamps
<1> QED BY <1>1, <1>2

\* An edge written between live nodes has the type of an edge and both sides
\* of known provenance.
LEMMA EdgeOfLive ==
    ASSUME NEW rows \in SUBSET Rows, NEW documents, OneRowPerName(rows),
           NEW t \in Tenants, NEW src \in Nodes, NEW dst \in Nodes, NEW rel \in Relations,
           Live(rows, documents, t, src), Live(rows, documents, t, dst)
    PROVE  LET e == EdgeOf(rows, t, src, dst, rel)
           IN  /\ e \in Edges /\ Fact(e) \in Facts
               /\ e.tenant = t /\ e.from = src /\ e.to = dst /\ e.rel = rel
               /\ Known(e.from, e.fromId) /\ Known(e.to, e.toId)
<1>1. /\ Stamp(rows, t, src) \in Stamps /\ Known(src, Stamp(rows, t, src))
      /\ Stamp(rows, t, dst) \in Stamps /\ Known(dst, Stamp(rows, t, dst))
  BY StampOfLive
<1> QED BY <1>1 DEF EdgeOf, Edges, Facts, Fact

(* --------------------------- writing edges ---------------------------- *)

\* What every write of edges does once the rows and documents are in place:
\* the links part of the invariant, if nothing an older edge needs went away.
LEMMA WriteEdgesKeeps ==
    ASSUME TypeOK, KeysUnique, DanglingIsArchived, EdgesVouched,
           entities' \in SUBSET Rows, OneRowPerName(entities'), archived' = archived,
           entities \subseteq entities', docs \subseteq docs',
           NEW t \in Tenants, NEW src \in Nodes, Live(entities', docs', t, src),
           NEW specs \in SUBSET [to : Nodes, rel : Relations],
           \A s1, s2 \in specs : s1 = s2,
           WriteEdges(t, src, specs)
    PROVE  /\ links' \subseteq Edges /\ asserted' \subseteq Facts
           /\ OneEdgePerKey(links') /\ DanglingIsArchived' /\ EdgesVouched'
<1> DEFINE edge(s) == EdgeOf(entities', t, src, s.to, s.rel)
           new == {edge(s) : s \in specs}
<1>1. \A s \in specs : Live(entities', docs', t, s.to)
  BY DEF WriteEdges
<1>2. /\ links' = Upserted(links, new) /\ asserted' = asserted \union {Fact(e) : e \in new}
  BY DEF WriteEdges
<1>3. \A s \in specs :
        /\ edge(s) \in Edges /\ Fact(edge(s)) \in Facts
        /\ edge(s).tenant = t /\ edge(s).from = src /\ edge(s).to = s.to
        /\ Known(edge(s).from, edge(s).fromId) /\ Known(edge(s).to, edge(s).toId)
  BY <1>1, EdgeOfLive
<1>4. \A e, f \in new : e = f
  OBVIOUS
<1>5. \A e \in new :
        /\ e \in Edges /\ Fact(e) \in Facts /\ e.tenant = t /\ e.from = src
        /\ Live(entities', docs', t, e.to)
        /\ Known(e.from, e.fromId) /\ Known(e.to, e.toId)
  BY <1>1, <1>3
<1> HIDE DEF new
<1>6. links' \subseteq Edges /\ asserted' \subseteq Facts
  BY <1>2, <1>5 DEF Upserted, TypeOK
<1>7. OneEdgePerKey(links')
  BY <1>2, <1>4 DEF Upserted, OneEdgePerKey, KeysUnique, SameEdge
<1>8. ASSUME NEW t1, NEW n, Kept(entities, archived, docs, t1, n)
      PROVE  Kept(entities', archived', docs', t1, n)
  BY <1>8 DEF Kept, Live, Named
<1>9. DanglingIsArchived'
  <2> SUFFICES ASSUME NEW e \in links'
               PROVE  /\ Kept(entities', archived', docs', e.tenant, e.from)
                      /\ Kept(entities', archived', docs', e.tenant, e.to)
    BY DEF DanglingIsArchived
  <2>1. CASE e \in links BY <2>1, <1>8 DEF DanglingIsArchived
  <2>2. CASE e \in new BY <2>2, <1>5 DEF Kept
  <2> QED BY <2>1, <2>2, <1>2 DEF Upserted
<1>10. EdgesVouched'
  <2> SUFFICES ASSUME NEW e \in links'
               PROVE  /\ Fact(e) \in asserted'
                      /\ Known(e.from, e.fromId) /\ Known(e.to, e.toId)
    BY DEF EdgesVouched
  <2>1. CASE e \in links BY <2>1, <1>2 DEF EdgesVouched
  <2>2. CASE e \in new BY <2>2, <1>2, <1>5
  <2> QED BY <2>1, <2>2, <1>2 DEF Upserted
<1> QED BY <1>6, <1>7, <1>9, <1>10

(* ------------------------------ the steps ----------------------------- *)

LEMMA InitHolds == Init => IInv
<1> SUFFICES ASSUME Init PROVE IInv
  OBVIOUS
<1>1. PICK s \in Stores :
        /\ entities = s.entities /\ archived = s.archived
        /\ docs = s.docs /\ links = s.links
        /\ used = IdsOf(s.entities) \union IdsOf(s.archived)
        /\ asserted = {Fact(e) : e \in s.links}
  BY DEF Init
<1>2. /\ deleted = {} /\ accepted = {}
  BY DEF Init
<1>3. /\ entities \subseteq Rows /\ archived \subseteq Rows
      /\ docs \subseteq Docs /\ links \subseteq Edges
      /\ OneRowPerName(entities) /\ OneEdgePerKey(links)
      /\ \A r \in entities, x \in archived : r.id # x.id
      /\ \A x, y \in archived : x.id = y.id => x = y
      /\ \A e \in links : Known(e.from, e.fromId) /\ Known(e.to, e.toId)
      /\ \A e \in links : Kept(entities, archived, docs, e.tenant, e.from)
                           /\ Kept(entities, archived, docs, e.tenant, e.to)
  BY <1>1, StoresAssumption
<1>4. TypeOK
  <2>1. used \subseteq Ids BY <1>1, <1>3 DEF IdsOf, Rows
  <2>2. asserted \subseteq Facts BY <1>1, <1>3 DEF Facts, Fact, Edges
  <2> QED BY <2>1, <2>2, <1>2, <1>3 DEF TypeOK
<1>5. KeysUnique BY <1>3 DEF KeysUnique
<1>6. RowsSurvive BY <1>1, <1>2, <1>3 DEF RowsSurvive, IdsOf
<1>7. DanglingIsArchived BY <1>3 DEF DanglingIsArchived
<1>8. EdgesVouched BY <1>1, <1>3 DEF EdgesVouched
<1>9. AcceptedHasDocument BY <1>2 DEF AcceptedHasDocument
<1> QED BY <1>4, <1>5, <1>6, <1>7, <1>8, <1>9 DEF IInv

LEMMA SetEntityKeeps ==
    ASSUME IInv, NEW t \in Tenants, NEW k \in Written, NEW specs \in Specs,
           SetEntity(t, k, specs)
    PROVE  IInv'
<1> DEFINE n == [tier |-> "entity", key |-> k]
<1>1. k \in Names /\ n \in Nodes BY NodesAssumption
<1>2. /\ archived' = archived /\ docs' = docs /\ accepted' = accepted
      /\ deleted' = deleted
      /\ WriteEdges(t, n, specs)
  BY DEF SetEntity
<1>3. specs \in SUBSET [to : Nodes, rel : Relations] /\ \A s1, s2 \in specs : s1 = s2
  BY DEF Specs
<1>4. /\ entities' \in SUBSET Rows /\ entities \subseteq entities'
      /\ used' \subseteq Ids /\ OneRowPerName(entities')
      /\ Named(entities', t, k) # {}
      /\ used' = deleted \union IdsOf(entities') \union IdsOf(archived)
      /\ deleted \intersect IdsOf(entities') = {}
      /\ IdsOf(entities') \intersect IdsOf(archived) = {}
  <2>1. CASE Named(entities, t, k) # {} /\ entities' = entities /\ used' = used
    BY <2>1 DEF IInv, TypeOK, KeysUnique, RowsSurvive
  <2>2. CASE /\ Named(entities, t, k) = {}
             /\ \E i \in Ids :
                  /\ NewId(i) /\ used' = used \union {i}
                  /\ entities' = entities \union {[id |-> i, tenant |-> t, name |-> k]}
    <3>1. PICK i \in Ids :
            /\ NewId(i) /\ used' = used \union {i}
            /\ entities' = entities \union {[id |-> i, tenant |-> t, name |-> k]}
      BY <2>2
    <3> DEFINE r == [id |-> i, tenant |-> t, name |-> k]
    <3>2. r \in Rows /\ r.id = i /\ r.tenant = t /\ r.name = k BY <1>1 DEF Rows
    <3>3. i \notin used BY <3>1 DEF NewId
    <3>4. entities' = entities \union {r} BY <3>1
    <3> HIDE DEF r
    <3>5. IdsOf(entities') = IdsOf(entities) \union {i} BY <3>2, <3>4 DEF IdsOf
    <3>6. \A x \in entities : x.id # i BY <3>3 DEF IInv, RowsSurvive, IdsOf
    <3>7. OneRowPerName(entities')
      BY <2>2, <3>2, <3>4, <3>6 DEF IInv, KeysUnique, OneRowPerName, Named
    <3>8. r \in Named(entities', t, k) BY <3>2, <3>4 DEF Named
    <3>9. entities' \in SUBSET Rows /\ entities \subseteq entities' /\ used' \subseteq Ids
      BY <3>1, <3>2, <3>4 DEF IInv, TypeOK
    <3>10. /\ used' = deleted \union IdsOf(entities') \union IdsOf(archived)
           /\ deleted \intersect IdsOf(entities') = {}
           /\ IdsOf(entities') \intersect IdsOf(archived) = {}
      BY SMTT(30), <3>1, <3>3, <3>5 DEF IInv, RowsSurvive
    <3>11. Named(entities', t, k) # {} BY <3>8
    <3> QED BY <3>7, <3>9, <3>10, <3>11
  <2> QED BY <2>1, <2>2 DEF SetEntity
<1>5. Live(entities', docs', t, n) BY <1>4 DEF Live
<1>6. /\ links' \subseteq Edges /\ asserted' \subseteq Facts
      /\ OneEdgePerKey(links') /\ DanglingIsArchived' /\ EdgesVouched'
  BY <1>1, <1>2, <1>3, <1>4, <1>5, WriteEdgesKeeps DEF IInv
<1>7. Named(entities', t, k) \subseteq Rows BY <1>4 DEF Named
<1>8. TypeOK' BY <1>2, <1>4, <1>6, <1>7 DEF IInv, TypeOK
<1>9. KeysUnique' BY <1>4, <1>6 DEF KeysUnique
<1>10. RowsSurvive' BY <1>2, <1>4 DEF IInv, RowsSurvive, IdsOf
<1> QED BY <1>2, <1>6, <1>8, <1>9, <1>10 DEF IInv, AcceptedHasDocument

\* A write that only adds documents or edges.
LEMMA EdgesWriteKeeps ==
    ASSUME IInv, NEW t \in Tenants, NEW n \in Nodes, Live(entities', docs', t, n),
           NEW specs \in SUBSET [to : Nodes, rel : Relations],
           \A s1, s2 \in specs : s1 = s2,
           docs \subseteq docs', docs' \subseteq Docs, WriteEdges(t, n, specs),
           UNCHANGED <<entities, archived, used, accepted, deleted>>
    PROVE  IInv'
<1>1. /\ links' \subseteq Edges /\ asserted' \subseteq Facts
      /\ OneEdgePerKey(links') /\ DanglingIsArchived' /\ EdgesVouched'
  BY WriteEdgesKeeps DEF IInv, TypeOK, KeysUnique
<1>2. TypeOK' BY <1>1 DEF IInv, TypeOK
<1>3. KeysUnique' BY <1>1 DEF IInv, KeysUnique
<1>4. RowsSurvive' BY DEF IInv, RowsSurvive, IdsOf
<1>5. AcceptedHasDocument' BY DEF IInv, AcceptedHasDocument
<1> QED BY <1>1, <1>2, <1>3, <1>4, <1>5 DEF IInv

LEMMA LinkKeeps ==
    ASSUME IInv, NEW t \in Tenants, NEW src \in Nodes, NEW dst \in Nodes,
           NEW rel \in Relations, Link(t, src, dst, rel)
    PROVE  IInv'
<1> DEFINE specs == {[to |-> dst, rel |-> rel]}
<1>1. specs \in SUBSET [to : Nodes, rel : Relations] /\ \A s1, s2 \in specs : s1 = s2
  OBVIOUS
<1>2. /\ Live(entities, docs, t, src) /\ WriteEdges(t, src, specs)
      /\ UNCHANGED <<entities, archived, docs, used, accepted, deleted>>
  BY DEF Link
<1> HIDE DEF specs
<1>3. Live(entities', docs', t, src) BY <1>2
<1>4. docs \subseteq docs' /\ docs' \subseteq Docs BY <1>2 DEF IInv, TypeOK
<1>5. UNCHANGED <<entities, archived, used, accepted, deleted>> BY <1>2
<1> QED BY <1>1, <1>2, <1>3, <1>4, <1>5, EdgesWriteKeeps

LEMMA SetDocKeeps ==
    ASSUME IInv, NEW t \in Tenants, NEW tier \in {"reference", "state"}, NEW k \in Written,
           NEW specs \in Specs, SetDoc(t, tier, k, specs)
    PROVE  IInv'
<1> DEFINE n == [tier |-> tier, key |-> k]
           d == [tier |-> tier, tenant |-> t, name |-> k]
<1>1. /\ n \in Nodes /\ docs' = docs \union {d} /\ WriteEdges(t, n, specs)
      /\ UNCHANGED <<entities, archived, used, accepted, deleted>>
  BY DEF SetDoc
<1>2. d \in Docs BY NodesAssumption DEF Docs
<1>3. Live(entities', docs', t, n) BY <1>1 DEF Live
<1>4. specs \in SUBSET [to : Nodes, rel : Relations] /\ \A s1, s2 \in specs : s1 = s2
  BY DEF Specs
<1>5. docs \subseteq docs' /\ docs' \subseteq Docs BY <1>1, <1>2 DEF IInv, TypeOK
<1> HIDE DEF n, d
<1> QED BY <1>1, <1>3, <1>4, <1>5, EdgesWriteKeeps

\* Edges may go, as long as what the others need stays.
LEMMA FewerEdgesKeep ==
    ASSUME IInv, links' \subseteq links, asserted' = asserted,
           \A e \in links' : /\ Kept(entities', archived', docs', e.tenant, e.from)
                             /\ Kept(entities', archived', docs', e.tenant, e.to)
    PROVE  /\ links' \subseteq Edges /\ asserted' \subseteq Facts
           /\ OneEdgePerKey(links') /\ DanglingIsArchived' /\ EdgesVouched'
<1>1. links' \subseteq Edges /\ asserted' \subseteq Facts BY DEF IInv, TypeOK
<1>2. OneEdgePerKey(links') BY DEF IInv, KeysUnique, OneEdgePerKey
<1>3. DanglingIsArchived' BY DEF DanglingIsArchived
<1>4. EdgesVouched' BY DEF IInv, EdgesVouched
<1> QED BY <1>1, <1>2, <1>3, <1>4

LEMMA UnlinkKeeps ==
    ASSUME IInv, NEW t, NEW src, NEW dst, NEW rels, Unlink(t, src, dst, rels)
    PROVE  IInv'
<1>1. /\ links' \subseteq links
      /\ UNCHANGED <<entities, archived, docs, used, accepted, deleted, asserted>>
  BY DEF Unlink
<1>2. \A e \in links' : /\ Kept(entities', archived', docs', e.tenant, e.from)
                        /\ Kept(entities', archived', docs', e.tenant, e.to)
  BY <1>1 DEF IInv, DanglingIsArchived
<1>3. /\ links' \subseteq Edges /\ asserted' \subseteq Facts
      /\ OneEdgePerKey(links') /\ DanglingIsArchived' /\ EdgesVouched'
  BY <1>1, <1>2, FewerEdgesKeep
<1>4. TypeOK' BY <1>1, <1>3 DEF IInv, TypeOK
<1>5. KeysUnique' BY <1>1, <1>3 DEF IInv, KeysUnique
<1>6. RowsSurvive' BY <1>1 DEF IInv, RowsSurvive, IdsOf
<1> QED BY <1>1, <1>3, <1>4, <1>5, <1>6 DEF IInv, AcceptedHasDocument

\* Rows leave the live table only whole, so what one row per name says stays.
LEMMA FewerRows ==
    ASSUME NEW rows, NEW fewer \in SUBSET rows, OneRowPerName(rows)
    PROVE  OneRowPerName(fewer)
BY DEF OneRowPerName

LEMMA DeleteEntityKeeps ==
    ASSUME IInv, NEW t \in Tenants, NEW k \in Names, DeleteEntity(t, k)
    PROVE  IInv'
<1> DEFINE gone == Named(entities, t, k)
           n == [tier |-> "entity", key |-> k]
<1>1. /\ entities' = entities \ gone /\ deleted' = deleted \union IdsOf(gone)
      /\ links' = {e \in links : ~Touches(e, t, n)}
      /\ UNCHANGED <<archived, docs, used, accepted, asserted>>
  BY DEF DeleteEntity, Cascade
<1>2. gone \subseteq entities BY DEF Named
<1>3. \A e \in links', x \in Nodes :
        (x = e.from \/ x = e.to) /\ Kept(entities, archived, docs, e.tenant, x)
          => Kept(entities', archived', docs', e.tenant, x)
  <2> SUFFICES ASSUME NEW e \in links', NEW x \in Nodes, x = e.from \/ x = e.to,
                      Kept(entities, archived, docs, e.tenant, x)
               PROVE  Kept(entities', archived', docs', e.tenant, x)
    OBVIOUS
  <2>1. CASE x.tier # "entity" BY <1>1, <2>1 DEF Kept, Live
  <2>2. CASE x.tier = "entity"
    <3>1. e.tenant # t \/ x # n BY <1>1 DEF Touches
    <3>2. e.tenant # t \/ x.key # k BY <2>2, <3>1, NodesAssumption
    <3>3. Named(entities', e.tenant, x.key) = Named(entities, e.tenant, x.key)
      BY <1>1, <3>2 DEF Named
    <3> QED BY <1>1, <2>2, <3>3 DEF Kept, Live
  <2> QED BY <2>1, <2>2
<1>4. \A e \in links' : /\ Kept(entities', archived', docs', e.tenant, e.from)
                        /\ Kept(entities', archived', docs', e.tenant, e.to)
  <2> SUFFICES ASSUME NEW e \in links'
               PROVE  /\ Kept(entities', archived', docs', e.tenant, e.from)
                      /\ Kept(entities', archived', docs', e.tenant, e.to)
    OBVIOUS
  <2>1. e \in links /\ e.from \in Nodes /\ e.to \in Nodes
    BY <1>1 DEF IInv, TypeOK, Edges
  <2> QED BY <1>3, <2>1 DEF IInv, DanglingIsArchived
<1>5. /\ links' \subseteq Edges /\ asserted' \subseteq Facts
      /\ OneEdgePerKey(links') /\ DanglingIsArchived' /\ EdgesVouched'
  BY <1>1, <1>4, FewerEdgesKeep
<1> HIDE DEF gone
<1>6. IdsOf(gone) \subseteq Ids BY <1>2 DEF IInv, TypeOK, Rows, IdsOf
<1>7. TypeOK' BY <1>1, <1>2, <1>5, <1>6 DEF IInv, TypeOK
<1>8. KeysUnique' BY <1>1, <1>5, FewerRows DEF IInv, KeysUnique
<1>9. RowsSurvive'
  <2>1. IdsOf(entities) = IdsOf(entities') \union IdsOf(gone)
    BY <1>1, <1>2 DEF IdsOf
  <2>2. IdsOf(entities') \intersect IdsOf(gone) = {}
    BY <1>1, <1>2 DEF IdsOf, IInv, KeysUnique, OneRowPerName
  <2> QED BY <1>1, <2>1, <2>2 DEF IInv, RowsSurvive
<1>10. AcceptedHasDocument' BY <1>1 DEF IInv, AcceptedHasDocument
<1> QED BY <1>5, <1>7, <1>8, <1>9, <1>10 DEF IInv

LEMMA ArchiveKeeps ==
    ASSUME IInv, NEW t \in Tenants, NEW k \in Names, Archive(t, k)
    PROVE  IInv'
<1> DEFINE moved == Named(entities, t, k)
<1>1. /\ entities' = entities \ moved /\ archived' = archived \union moved
      /\ UNCHANGED <<docs, links, used, accepted, deleted, asserted>>
  BY DEF Archive
<1>2. moved \subseteq entities BY DEF Named
<1>3. ASSUME NEW t1, NEW x, Kept(entities, archived, docs, t1, x)
      PROVE  Kept(entities', archived', docs', t1, x)
  <2>1. CASE x.tier # "entity" BY <1>1, <1>3, <2>1 DEF Kept, Live
  <2>2. CASE x.tier = "entity"
    <3>1. Named(entities, t1, x.key) \union Named(archived, t1, x.key) # {}
      BY <1>3, <2>2 DEF Kept, Live
    <3>2. Named(entities', t1, x.key) \union Named(archived', t1, x.key) # {}
      BY <1>1, <1>2, <3>1 DEF Named
    <3> QED BY <2>2, <3>2 DEF Kept, Live
  <2> QED BY <2>1, <2>2
<1>4. \A e \in links' : /\ Kept(entities', archived', docs', e.tenant, e.from)
                        /\ Kept(entities', archived', docs', e.tenant, e.to)
  BY <1>1, <1>3 DEF IInv, DanglingIsArchived
<1>5. /\ links' \subseteq Edges /\ asserted' \subseteq Facts
      /\ OneEdgePerKey(links') /\ DanglingIsArchived' /\ EdgesVouched'
  BY <1>1, <1>4, FewerEdgesKeep
<1> HIDE DEF moved
<1>6. TypeOK' BY <1>1, <1>2, <1>5 DEF IInv, TypeOK
<1>7. KeysUnique' BY <1>1, <1>5, FewerRows DEF IInv, KeysUnique
<1>8. RowsSurvive'
  <2>1. /\ IdsOf(entities) = IdsOf(entities') \union IdsOf(moved)
        /\ IdsOf(archived') = IdsOf(archived) \union IdsOf(moved)
    BY <1>1, <1>2 DEF IdsOf
  <2>2. IdsOf(entities') \intersect IdsOf(moved) = {}
    BY <1>1, <1>2 DEF IdsOf, IInv, KeysUnique, OneRowPerName
  <2>3. \A x, y \in archived' : x.id = y.id => x = y
    <3>1. \A x, y \in moved : x.id = y.id => x = y
      BY <1>2 DEF IInv, KeysUnique, OneRowPerName
    <3>2. \A x \in archived, y \in moved : x.id # y.id
      BY <1>2 DEF IInv, RowsSurvive, IdsOf
    <3> QED BY <1>1, <3>1, <3>2 DEF IInv, RowsSurvive
  <2> QED BY <1>1, <2>1, <2>2, <2>3 DEF IInv, RowsSurvive
<1>9. AcceptedHasDocument' BY <1>1 DEF IInv, AcceptedHasDocument
<1> QED BY <1>5, <1>6, <1>7, <1>8, <1>9 DEF IInv

LEMMA AcceptProposalKeeps ==
    ASSUME IInv, NEW t \in Tenants, NEW k \in Names, AcceptProposal(t, k)
    PROVE  IInv'
<1>1. /\ docs' = docs \union {RefDoc(t, k)} /\ accepted' = accepted \union {RefDoc(t, k)}
      /\ UNCHANGED <<entities, archived, links, used, deleted, asserted>>
  BY DEF AcceptProposal
<1>2. RefDoc(t, k) \in Docs BY DEF RefDoc, Docs
<1>3. \A e \in links' : /\ Kept(entities', archived', docs', e.tenant, e.from)
                        /\ Kept(entities', archived', docs', e.tenant, e.to)
  BY <1>1 DEF IInv, DanglingIsArchived, Kept, Live
<1>4. /\ links' \subseteq Edges /\ asserted' \subseteq Facts
      /\ OneEdgePerKey(links') /\ DanglingIsArchived' /\ EdgesVouched'
  BY <1>1, <1>3, FewerEdgesKeep
<1>5. TypeOK' BY <1>1, <1>2, <1>4 DEF IInv, TypeOK
<1>6. KeysUnique' BY <1>1, <1>4 DEF IInv, KeysUnique
<1>7. RowsSurvive' BY <1>1 DEF IInv, RowsSurvive, IdsOf
<1>8. AcceptedHasDocument' BY <1>1 DEF IInv, AcceptedHasDocument
<1> QED BY <1>4, <1>5, <1>6, <1>7, <1>8 DEF IInv

LEMMA DeleteReferenceKeeps ==
    ASSUME IInv, NEW t \in Tenants, NEW k \in Names, DeleteReference(t, k)
    PROVE  IInv'
<1> DEFINE n == [tier |-> "reference", key |-> k]
<1>1. /\ docs' = docs \ {RefDoc(t, k)} /\ accepted' = accepted \ {RefDoc(t, k)}
      /\ links' = {e \in links : ~Touches(e, t, n)}
      /\ UNCHANGED <<entities, archived, used, deleted, asserted>>
  BY DEF DeleteReference, Cascade
<1>2. \A e \in links', x \in Nodes :
        (x = e.from \/ x = e.to) /\ Kept(entities, archived, docs, e.tenant, x)
          => Kept(entities', archived', docs', e.tenant, x)
  <2> SUFFICES ASSUME NEW e \in links', NEW x \in Nodes, x = e.from \/ x = e.to,
                      Kept(entities, archived, docs, e.tenant, x)
               PROVE  Kept(entities', archived', docs', e.tenant, x)
    OBVIOUS
  <2>1. CASE x.tier = "entity" BY <1>1, <2>1 DEF Kept, Live
  <2>2. CASE x.tier # "entity"
    <3>1. e.tenant # t \/ x # n BY <1>1 DEF Touches
    <3>2. [tier |-> x.tier, tenant |-> e.tenant, name |-> x.key] # RefDoc(t, k)
      BY <3>1, NodesAssumption DEF RefDoc
    <3> QED BY <1>1, <2>2, <3>2 DEF Kept, Live
  <2> QED BY <2>1, <2>2
<1>3. \A e \in links' : /\ Kept(entities', archived', docs', e.tenant, e.from)
                        /\ Kept(entities', archived', docs', e.tenant, e.to)
  <2> SUFFICES ASSUME NEW e \in links'
               PROVE  /\ Kept(entities', archived', docs', e.tenant, e.from)
                      /\ Kept(entities', archived', docs', e.tenant, e.to)
    OBVIOUS
  <2>1. e \in links /\ e.from \in Nodes /\ e.to \in Nodes
    BY <1>1 DEF IInv, TypeOK, Edges
  <2> QED BY <1>2, <2>1 DEF IInv, DanglingIsArchived
<1>4. /\ links' \subseteq Edges /\ asserted' \subseteq Facts
      /\ OneEdgePerKey(links') /\ DanglingIsArchived' /\ EdgesVouched'
  BY <1>1, <1>3, FewerEdgesKeep
<1>5. TypeOK' BY <1>1, <1>4 DEF IInv, TypeOK
<1>6. KeysUnique' BY <1>1, <1>4 DEF IInv, KeysUnique
<1>7. RowsSurvive' BY <1>1 DEF IInv, RowsSurvive, IdsOf
<1>8. AcceptedHasDocument' BY <1>1 DEF IInv, AcceptedHasDocument
<1> QED BY <1>4, <1>5, <1>6, <1>7, <1>8 DEF IInv

LEMMA StutterKeeps == ASSUME IInv, UNCHANGED vars PROVE IInv'
<1>1. TypeOK' BY DEF IInv, TypeOK, vars
<1>2. KeysUnique' /\ RowsSurvive' BY DEF IInv, KeysUnique, RowsSurvive, IdsOf, vars
<1>3. DanglingIsArchived' /\ EdgesVouched' BY DEF IInv, DanglingIsArchived, EdgesVouched, vars
<1>4. AcceptedHasDocument' BY DEF IInv, AcceptedHasDocument, vars
<1> QED BY <1>1, <1>2, <1>3, <1>4 DEF IInv

LEMMA NextKeeps == ASSUME IInv, [Next]_vars PROVE IInv'
<1>1. ASSUME NEW t \in Tenants, NEW k \in Written, NEW specs \in Specs,
             SetEntity(t, k, specs)
      PROVE  IInv'
  BY <1>1, SetEntityKeeps
<1>2. ASSUME NEW t \in Tenants, NEW k \in Written, NEW specs \in Specs,
             NEW tier \in {"reference", "state"}, SetDoc(t, tier, k, specs)
      PROVE  IInv'
  BY <1>2, SetDocKeeps
<1>3. ASSUME NEW t \in Tenants, NEW src \in Nodes, NEW dst \in Nodes,
             NEW rel \in Relations, Link(t, src, dst, rel)
      PROVE  IInv'
  BY <1>3, LinkKeeps
<1>4. ASSUME NEW t, NEW src, NEW dst, NEW rels, Unlink(t, src, dst, rels)
      PROVE  IInv'
  BY <1>4, UnlinkKeeps
<1>5. ASSUME NEW t \in Tenants, NEW k \in Names, DeleteEntity(t, k)
      PROVE  IInv'
  BY <1>5, DeleteEntityKeeps
<1>6. ASSUME NEW t \in Tenants, NEW k \in Names, Archive(t, k)
      PROVE  IInv'
  BY <1>6, ArchiveKeeps
<1>7. ASSUME NEW t \in Tenants, NEW k \in Names, AcceptProposal(t, k)
      PROVE  IInv'
  BY <1>7, AcceptProposalKeeps
<1>8. ASSUME NEW t \in Tenants, NEW k \in Names, DeleteReference(t, k)
      PROVE  IInv'
  BY <1>8, DeleteReferenceKeeps
<1>9. CASE UNCHANGED vars BY <1>9, StutterKeeps
<1> QED BY <1>1, <1>2, <1>3, <1>4, <1>5, <1>6, <1>7, <1>8, <1>9 DEF Next

\* The inductive invariant, from which the theorems below follow.
THEOREM Invariant == Spec => []IInv
BY InitHolds, NextKeeps, PTL DEF Spec

(* ---------------------------- the properties -------------------------- *)

\* A side that is live and not stale carries the stamp of its live row.
LEMMA FreshSide ==
    ASSUME TypeOK, KeysUnique, NEW t, NEW n, NEW stamp, Known(n, stamp),
           Live(entities, docs, t, n), ~StaleSide(t, n, stamp)
    PROVE  stamp = Stamp(entities, t, n)
<1>1. CASE n.tier = "entity"
  <2>1. PICK r \in Named(entities, t, n.key) : Stamp(entities, t, n) = r.id
    BY <1>1, StampOfLive DEF TypeOK, KeysUnique
  <2>2. stamp # Unknown BY <1>1 DEF Known
  <2> QED BY <1>1, <2>1, <2>2 DEF StaleSide
<1>2. CASE n.tier # "entity" BY <1>2 DEF Known, Stamp
<1> QED BY <1>1, <1>2

\* Whatever TLC enumerates of a store (tables, edges, histories) keeps its type
\* for every number of names, rows and relations.
THEOREM TypeCorrect == Spec => []TypeOK
<1>1. IInv => TypeOK BY DEF IInv
<1> QED BY <1>1, Invariant, PTL

\* The UNIQUE keys of entities and memory_links never fail a transaction.
THEOREM KeysStayUnique == Spec => []KeysUnique
<1>1. IInv => KeysUnique BY DEF IInv
<1> QED BY <1>1, Invariant, PTL

\* set_entity, archive_entity and delete_entity lose and double no memory.
THEOREM NoRowLost == Spec => []RowsSurvive
<1>1. IInv => RowsSurvive BY DEF IInv
<1> QED BY <1>1, Invariant, PTL

\* An edge points at a live or an archived memory, and an accepted proposal at
\* a document that exists.
THEOREM NothingPointsNowhere == Spec => []NothingDangles
<1>1. IInv => NothingDangles BY DEF IInv, NothingDangles
<1> QED BY <1>1, Invariant, PTL

\* No edge of an archived memory reads as one of its namesake.
THEOREM NoInheritedEdge == Spec => []CurrentIsAsserted
<1>1. IInv => CurrentIsAsserted
  <2> SUFFICES ASSUME IInv, NEW e \in links, ~Stale(e),
                      Live(entities, docs, e.tenant, e.from),
                      Live(entities, docs, e.tenant, e.to)
               PROVE  [rel |-> e.rel, fromId |-> Stamp(entities, e.tenant, e.from),
                       toId |-> Stamp(entities, e.tenant, e.to)] \in asserted
    BY DEF CurrentIsAsserted
  <2>1. Known(e.from, e.fromId) /\ Known(e.to, e.toId) /\ Fact(e) \in asserted
    BY DEF IInv, EdgesVouched
  <2>2. e.fromId = Stamp(entities, e.tenant, e.from)
    BY <2>1, FreshSide DEF IInv, Stale
  <2>3. e.toId = Stamp(entities, e.tenant, e.to)
    BY <2>1, FreshSide DEF IInv, Stale
  <2> QED BY <2>1, <2>2, <2>3 DEF Fact
<1> QED BY <1>1, Invariant, PTL

==============================================================================
