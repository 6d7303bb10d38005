----------------------------- MODULE MemoryLinks -----------------------------
(***************************************************************************)
(* Memories and the typed edges between them (sibyl_memory_client/         *)
(* client.py and _links.py).  Edges are keyed by name, so they survive the *)
(* archiving of an endpoint, and are stamped with the row ids they were    *)
(* asserted about, so that an edge of an archived memory does not read as  *)
(* one of the next memory of that name.                                    *)
(*                                                                         *)
(* Every operation is one BEGIN IMMEDIATE transaction of some client, so   *)
(* one action here; one that raises in it changes nothing and is no        *)
(* action, and so are the reads, among them the answer set_entity reads     *)
(* after its commit.  Bodies, statuses and edge metadata are abstracted, a *)
(* category is part of the name, a write carries at most one links= entry. *)
(***************************************************************************)
EXTENDS Naturals

CONSTANTS
    Tenants,
    Names,     \* entity names and document keys
    Nodes,     \* the endpoints clients name: a tier and a key
    Ids,       \* row ids
    Unknown,   \* a NULL stamp
    Relations,
    Written,   \* the names clients give to new memories
    Stores     \* the stores a run may start from

Rows == [id : Ids, tenant : Tenants, name : Names]
Docs == [tier : {"reference", "state"}, tenant : Tenants, name : Names]
Stamps == Ids \union {Unknown}
Edges == [tenant : Tenants, from : Nodes, to : Nodes, rel : Relations,
          fromId : Stamps, toId : Stamps]
Facts == [rel : Relations, fromId : Stamps, toId : Stamps]

(* ------------------ what a set of rows and edges says ----------------- *)

Named(rows, t, k) == {r \in rows : r.tenant = t /\ r.name = k}
Live(rows, documents, t, n) ==
    IF n.tier = "entity" THEN Named(rows, t, n.key) # {}
    ELSE [tier |-> n.tier, tenant |-> t, name |-> n.key] \in documents

\* _links.entity_id: the live row behind an endpoint.
Stamp(rows, t, n) ==
    IF n.tier = "entity" /\ Named(rows, t, n.key) # {}
      THEN (CHOOSE r \in Named(rows, t, n.key) : TRUE).id ELSE Unknown

SameEdge(e, f) ==
    e.tenant = f.tenant /\ e.from = f.from /\ e.to = f.to /\ e.rel = f.rel
Touches(e, t, n) == e.tenant = t /\ (e.from = n \/ e.to = n)
Fact(e) == [rel |-> e.rel, fromId |-> e.fromId, toId |-> e.toId]

OneRowPerName(rows) ==
    \A r, s \in rows : (r.tenant = s.tenant /\ r.name = s.name) \/ r.id = s.id => r = s
OneEdgePerKey(edges) == \A e, f \in edges : SameEdge(e, f) => e = f

\* A side of known provenance: a stamped entity, or a document, which has no id.
\* The starting stores hold only these (apply_identity_columns leaves an older
\* side unstamped when neither a live nor an archived row can be its entity).
Known(n, stamp) == n.tier = "entity" <=> stamp # Unknown

\* A side whose node is gone was archived under that name.
Kept(rows, gone, documents, t, n) ==
    \/ Live(rows, documents, t, n)
    \/ n.tier = "entity" /\ Named(gone, t, n.key) # {}

ASSUME NodesAssumption ==
    /\ Nodes \subseteq [tier : {"entity", "reference", "state"}, key : Names]
    /\ Written \subseteq Names
    /\ \A k \in Names : [tier |-> "entity", key |-> k] \in Nodes

ASSUME StoresAssumption ==
    /\ Unknown \notin Ids /\ Ids \subseteq Nat
    /\ \A s \in Stores :
        /\ s.entities \subseteq Rows /\ s.archived \subseteq Rows
        /\ s.docs \subseteq Docs /\ s.links \subseteq Edges
        /\ OneRowPerName(s.entities) /\ OneEdgePerKey(s.links)
        /\ \A r \in s.entities, a \in s.archived : r.id # a.id
        /\ \A x, y \in s.archived : x.id = y.id => x = y
        /\ \A e \in s.links : Known(e.from, e.fromId) /\ Known(e.to, e.toId)
        /\ \A e \in s.links : Kept(s.entities, s.archived, s.docs, e.tenant, e.from)
                              /\ Kept(s.entities, s.archived, s.docs, e.tenant, e.to)

VARIABLES
    entities, archived, docs, links,
    used,       \* row ids ever given out
    accepted,   \* the documents accepted skill proposals point at
    deleted,    \* history: ids of rows a client hard-deleted
    asserted    \* history: what was linked, about which rows

vars == <<entities, archived, docs, links, used, accepted, deleted, asserted>>

IdsOf(rows) == {r.id : r \in rows}

TypeOK ==
    /\ entities \subseteq Rows /\ archived \subseteq Rows
    /\ docs \subseteq Docs /\ links \subseteq Edges
    /\ used \subseteq Ids /\ deleted \subseteq Ids /\ asserted \subseteq Facts
    /\ accepted \subseteq Docs

Init ==
    /\ \E s \in Stores :
        /\ entities = s.entities /\ archived = s.archived
        /\ docs = s.docs /\ links = s.links
        /\ used = IdsOf(s.entities) \union IdsOf(s.archived)
        /\ asserted = {Fact(e) : e \in s.links}
    /\ deleted = {} /\ accepted = {}

(* ------------------------------ writes -------------------------------- *)

\* new_id: which of the unused ids does not matter.
NewId(i) == i \in Ids \ used /\ \A j \in Ids \ used : i <= j

EdgeOf(rows, t, src, dst, rel) ==
    [tenant |-> t, from |-> src, to |-> dst, rel |-> rel,
     fromId |-> Stamp(rows, t, src), toId |-> Stamp(rows, t, dst)]

\* upsert_edge: an edge written again is about the rows that are live now.
Upserted(edges, new) ==
    {e \in edges : \A f \in new : ~SameEdge(e, f)} \union new

WriteEdges(t, src, specs) ==
    LET new == {EdgeOf(entities', t, src, s.to, s.rel) : s \in specs}
    IN /\ \A s \in specs : s.to = src \/ Live(entities', docs', t, s.to)
       /\ links' = Upserted(links, new)
       /\ asserted' = asserted \union {Fact(e) : e \in new}

SetEntity(t, k, specs) ==
    /\ \/ Named(entities, t, k) # {} /\ UNCHANGED <<entities, used>>
       \/ /\ Named(entities, t, k) = {}
          /\ \E i \in Ids :
               /\ NewId(i) /\ used' = used \union {i}
               /\ entities' = entities \union {[id |-> i, tenant |-> t, name |-> k]}
    /\ UNCHANGED <<archived, docs, accepted, deleted>>
    /\ WriteEdges(t, [tier |-> "entity", key |-> k], specs)

\* set_reference, and set_state (which takes no links=).
SetDoc(t, tier, k, specs) ==
    /\ [tier |-> tier, key |-> k] \in Nodes
    /\ tier = "state" => specs = {}
    /\ docs' = docs \union {[tier |-> tier, tenant |-> t, name |-> k]}
    /\ UNCHANGED <<entities, archived, used, accepted, deleted>>
    /\ WriteEdges(t, [tier |-> tier, key |-> k], specs)

Link(t, src, dst, rel) ==
    /\ Live(entities, docs, t, src) /\ Live(entities, docs, t, dst)
    /\ UNCHANGED <<entities, archived, docs, used, accepted, deleted>>
    /\ WriteEdges(t, src, {[to |-> dst, rel |-> rel]})

\* delete_edges: one relation or all of them; the endpoints may be gone.
Unlink(t, src, dst, rels) ==
    /\ links' = {e \in links : ~(e.tenant = t /\ e.from = src /\ e.to = dst
                                   /\ e.rel \in rels)}
    /\ UNCHANGED <<entities, archived, docs, used, accepted, deleted, asserted>>

\* Mutant: only the edges the node is the source of.
CascadeOut(t, n) == links' = {e \in links : ~(e.tenant = t /\ e.from = n)}

\* cascade_node: every edge touching the node goes with it.
Cascade(t, n) == links' = {e \in links : ~Touches(e, t, n)}

DeleteEntity(t, k) ==
    /\ Named(entities, t, k) # {}
    /\ entities' = entities \ Named(entities, t, k)
    /\ deleted' = deleted \union IdsOf(Named(entities, t, k))
    /\ Cascade(t, [tier |-> "entity", key |-> k])
    /\ UNCHANGED <<archived, docs, used, accepted, asserted>>

RefDoc(t, k) == [tier |-> "reference", tenant |-> t, name |-> k]

\* accept_proposal writes its document, without links (module Proposals has the
\* review itself).
AcceptProposal(t, k) ==
    /\ [tier |-> "reference", key |-> k] \in Nodes
    /\ docs' = docs \union {RefDoc(t, k)}
    /\ accepted' = accepted \union {RefDoc(t, k)}
    /\ UNCHANGED <<entities, archived, links, used, deleted, asserted>>

\* _delete_reference also supersedes the proposal accepted as this document.
DeleteReference(t, k) ==
    /\ RefDoc(t, k) \in docs
    /\ docs' = docs \ {RefDoc(t, k)}
    /\ accepted' = accepted \ {RefDoc(t, k)}
    /\ Cascade(t, [tier |-> "reference", key |-> k])
    /\ UNCHANGED <<entities, archived, used, deleted, asserted>>

\* archive_entity keeps the edges.
Archive(t, k) ==
    /\ Named(entities, t, k) # {}
    /\ entities' = entities \ Named(entities, t, k)
    /\ archived' = archived \union Named(entities, t, k)
    /\ UNCHANGED <<docs, links, used, accepted, deleted, asserted>>

Specs == {{}} \union {{s} : s \in [to : Nodes, rel : Relations]}

Next ==
    \E t \in Tenants :
        \/ \E k \in Written, specs \in Specs :
             \/ SetEntity(t, k, specs)
             \/ \E tier \in {"reference", "state"} : SetDoc(t, tier, k, specs)
        \/ \E src, dst \in Nodes :
             \/ \E rel \in Relations : Link(t, src, dst, rel)
             \/ \E rels \in {Relations} \union {{rel} : rel \in Relations} :
                  Unlink(t, src, dst, rels)
        \/ \E k \in Names :
             \/ DeleteEntity(t, k) \/ Archive(t, k)
             \/ AcceptProposal(t, k) \/ DeleteReference(t, k)

Spec == Init /\ [][Next]_vars

(* ----------------------------- properties ----------------------------- *)

\* The stale contract of the read paths (neighbors, links_of): a stamped side
\* whose name a live row of another id holds.
StaleSide(t, n, stamp) ==
    /\ n.tier = "entity" /\ stamp # Unknown
    /\ \E r \in Named(entities, t, n.key) : r.id # stamp

\* Mutant: only the source of an edge can be stale.
StaleSource(e) == StaleSide(e.tenant, e.from, e.fromId)

Stale(e) ==
    StaleSide(e.tenant, e.from, e.fromId) \/ StaleSide(e.tenant, e.to, e.toId)

\* Every table keeps its UNIQUE key: one row a name, one edge a key, and no
\* row is live under two names.
KeysUnique == OneRowPerName(entities) /\ OneEdgePerKey(links)

\* No memory is lost or doubled: a row ever written is live, archived or was
\* deleted by a client, and only one of these (set_entity, archive_entity).
RowsSurvive ==
    /\ used = deleted \union IdsOf(entities) \union IdsOf(archived)
    /\ deleted \intersect (IdsOf(entities) \union IdsOf(archived)) = {}
    /\ IdsOf(entities) \intersect IdsOf(archived) = {}
    /\ \A x, y \in archived : x.id = y.id => x = y

\* Only an archived memory leaves an edge dangling: nothing points at a node
\* that was deleted or never written (delete_entity, require_exists).
DanglingIsArchived ==
    \A e \in links : /\ Kept(entities, archived, docs, e.tenant, e.from)
                     /\ Kept(entities, archived, docs, e.tenant, e.to)

\* An edge that reads as current between live nodes is one a client asserted
\* about exactly these rows: whatever was archived, deleted, written again or
\* re-linked in between, a namesake inherits no edge unseen (STALE CONTRACT).
CurrentIsAsserted ==
    \A e \in links :
        /\ ~Stale(e)
        /\ Live(entities, docs, e.tenant, e.from) /\ Live(entities, docs, e.tenant, e.to)
        => [rel |-> e.rel, fromId |-> Stamp(entities, e.tenant, e.from),
            toId |-> Stamp(entities, e.tenant, e.to)] \in asserted

\* An accepted skill proposal points at a document that exists
\* (_delete_reference, accept_proposal).
AcceptedHasDocument == accepted \subseteq docs

\* What one table names in another exists, or is an archived memory, whatever
\* was deleted, archived and written again (_cascade_links, _delete_reference).
NothingDangles == DanglingIsArchived /\ AcceptedHasDocument

=============================================================================
