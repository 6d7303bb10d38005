------------------------------- MODULE MC_Store -------------------------------
(***************************************************************************)
(* Instances for TLC of the store: SchemaOpen (two openers, the stores     *)
(* each released version left on disk, with one row or none and one legacy *)
(* edge) and MemoryLinks (a memory that is written again, one it is linked *)
(* with and a document, from an empty store and from one with an edge of   *)
(* an archived memory).                                                    *)
(*                                                                         *)
(* Opening changes no memory and no step on memories reads what opening    *)
(* leaves, so a behaviour is about one of them, chosen at its start: of    *)
(* "opening", with crashes and damage, from any store but one of the v2    *)
(* shape; of a "pair" that nothing interrupts, from a store no marker was  *)
(* written to, the v2 shape included; or of "links".                       *)
(***************************************************************************)
EXTENDS SchemaOpen, MemoryLinks, TLC

CONSTANTS p1, p2, r1, r2, e1, local, a, b

VARIABLE part

Old(fts0, indexed0, shadow0, marker0, links0) ==
    [tables |-> TRUE, base |-> {r1}, fts |-> fts0, triggers |-> TRUE,
     indexed |-> indexed0, shadow |-> shadow0,
     shadowed |-> IF shadow0 = "absent" THEN {} ELSE {r1},
     marker |-> marker0, links |-> links0]

FreshFile ==
    [tables |-> FALSE, base |-> {}, fts |-> "none", triggers |-> FALSE,
     indexed |-> {}, shadow |-> "absent", shadowed |-> {}, marker |-> 0,
     links |-> "absent"]

V2Store == Old("v2", {r1}, "absent", 0, "absent")
Unmarked == Old("v3", {}, "absent", 0, "absent")

\* A new file, the v2 shape, a store whose v2 migration died before markers
\* existed, 0.4.19 (rebuilt), 0.7 (fold-only shadow), the first v6 build and the
\* current one.
MCOldStores ==
    {FreshFile, V2Store, Unmarked,
     Old("v3", {r1}, "absent", 3, "absent"),
     Old("v3", {r1}, "old", 4, "absent"),
     Old("v3", {r1}, "current", 6, "plain"),
     Old("v3", {r1}, "current", 6, "stamped")}

Symmetric == Permutations({p1, p2})

Empty == [entities |-> {}, archived |-> {}, docs |-> {}, links |-> {}]
Row(i, k) == [id |-> i, tenant |-> local, name |-> k]
Entity(k) == [tier |-> "entity", key |-> k]
LinkedStore == [Empty EXCEPT !.entities = {Row(1, b)}, !.archived = {Row(2, a)},
                             !.links = {[tenant |-> local, from |-> Entity(a), to |-> Entity(b),
                                         rel |-> r1, fromId |-> 2, toId |-> 1]}]
MCNodes == {Entity(a), Entity(b), [tier |-> "reference", key |-> a]}
MCStores == {Empty, LinkedStore}

-----------------------------------------------------------------------------
InStore(o) ==
  /\ tables = o.tables /\ base = o.base /\ fts = o.fts /\ triggers = o.triggers
  /\ indexed = o.indexed /\ shadow = o.shadow /\ shadowed = o.shadowed
  /\ marker = o.marker /\ linkTable = o.links
Starts ==
  \E o \in MCOldStores :
    /\ InStore(o)
    /\ part = "opening" => o # V2Store
    /\ part = "pair" => o \in {V2Store, Unmarked}
    /\ part = "links" => o = FreshFile

PartInit ==
  /\ part \in {"opening", "pair", "links"}
  /\ Starts /\ OpenInit
  /\ Init /\ (part = "links" \/ entities = {})

PartSpec ==
  /\ PartInit
  /\ [][UNCHANGED part
        /\ \/ part = "opening" /\ OpenNext /\ UNCHANGED vars
           \/ part = "pair" /\ OpenNext /\ UNCHANGED <<faults, vars>>
           \/ part = "links" /\ Next /\ UNCHANGED openVars
       ]_<<part, openVars, vars>>
=============================================================================
