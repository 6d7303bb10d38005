------------------------------- MODULE Adoption -------------------------------
(***************************************************************************)
(* Memory written before sign-in moves into the account: client/_adopt.py  *)
(* with the edge rules of client/_links.py, its callers in client.py (the  *)
(* first gated operation of an account) and cli.py (sibyl memory adopt).   *)
(*                                                                         *)
(* A store holds rows and edges under the default tenant and under         *)
(* accounts.  A move looks at the store, then works in one transaction;    *)
(* writers and other movers run between the two.  Rows are entities, and   *)
(* documents (references and states), which have neither an archive nor    *)
(* an identity.  A key is a name followed by the numbers of its "(before   *)
(* sign-in n)" suffixes; an edge names keys and carries the ids of its     *)
(* entities (0: a store from before the stamps, or a document).            *)
(***************************************************************************)
EXTENDS Integers, Sequences, FiniteSets, FiniteSetsExt

CONSTANTS
  Accounts,
  EntityNames, DocNames,   \* names a person gives
  MaxRows, MaxEdges        \* bounds: rows and edges ever written

Unsigned == "default"

ASSUME NamesApart == EntityNames \intersect DocNames = {}
ASSUME AdoptBounds == MaxRows \in Nat /\ MaxEdges \in Nat /\ Unsigned \notin Accounts

Tenants == Accounts \union {Unsigned}
RowIds == 1..MaxRows
EdgeIds == 1..MaxEdges
Movers == {"agent", "init", "command"}  \* the first two move automatically
IsAuto(m) == m # "command"

VARIABLES
  rows,    \* id -> [ten, key, st], st in "none", "live", "archived", "gone"
  edges,   \* id -> [ten, from, to, fromId, toId, st], st in "none", "set", "gone"
  audit,   \* account -> [seen, moved, autos, renames] of its tenant_adoptions rows
  mover,   \* mover -> [at, into, confirm]
  first    \* account -> "none", "done", "failed": its first operation's move

adoptVars == <<rows, edges, audit, mover, first>>

NoRow == [ten |-> Unsigned, key |-> <<>>, st |-> "none"]
NoEdge == [ten |-> Unsigned, from |-> <<>>, to |-> <<>>, fromId |-> 0, toId |-> 0, st |-> "none"]
Still == [at |-> "idle", into |-> Unsigned, confirm |-> "no"]
NoAudit == [seen |-> "no", moved |-> "no", autos |-> 0, renames |-> {}]

AdoptInit ==
  /\ rows = [i \in RowIds |-> NoRow] /\ edges = [e \in EdgeIds |-> NoEdge]
  /\ audit = [a \in Accounts |-> NoAudit]
  /\ mover = [m \in Movers |-> Still]
  /\ first = [a \in Accounts |-> "none"]

IsEntity(key) == Head(key) \in EntityNames
RowsAt(R, ten, key) == {i \in RowIds : R[i].st = "live" /\ R[i].ten = ten /\ R[i].key = key}
Live(R, ten, key) == RowsAt(R, ten, key) # {}
Archived(R, ten, key) ==
  \E i \in RowIds : R[i].st = "archived" /\ R[i].ten = ten /\ R[i].key = key
Set(E, e) == E[e].st = "set"
Touches(edge, ten, key) == edge.ten = ten /\ key \in {edge.from, edge.to}
Parallel(edge, other) ==
  edge.st = "set" /\ other.st = "set" /\ edge.from = other.from /\ edge.to = other.to

-------------------------------------------------------------------------------
(* Other operations on the store *)

\* The first gated operation of an account tries the move before its own work.
MayWrite(ten) == ten \in Accounts => first[ten] # "none" \/ audit[ten].seen = "yes"

Identity(ten, key) == IF IsEntity(key) THEN CHOOSE i \in RowsAt(rows, ten, key) : TRUE ELSE 0

Write(ten, key) ==
  \E i \in RowIds :
    /\ MayWrite(ten)
    /\ rows[i].st = "none" /\ \A j \in RowIds : j < i => rows[j].st # "none"
    /\ ~ Live(rows, ten, key)
    /\ rows' = [rows EXCEPT ![i] = [ten |-> ten, key |-> key, st |-> "live"]]
    /\ UNCHANGED <<edges, audit, mover, first>>

\* Edges stay.
Archive(i) ==
  /\ rows[i].st = "live" /\ IsEntity(rows[i].key)
  /\ rows' = [rows EXCEPT ![i].st = "archived"]
  /\ UNCHANGED <<edges, audit, mover, first>>

\* Edges go.
Delete(i) ==
  /\ rows[i].st = "live"
  /\ rows' = [rows EXCEPT ![i].st = "gone"]
  /\ edges' = [e \in EdgeIds |-> IF Touches(edges[e], rows[i].ten, rows[i].key)
                                   THEN [edges[e] EXCEPT !.st = "gone"] ELSE edges[e]]
  /\ UNCHANGED <<audit, mover, first>>

\* A client from before the identity columns writes no stamps.
Link(ten, src, dst, stamps) ==
  \E e \in EdgeIds :
    LET edge == [ten |-> ten, from |-> src, to |-> dst, st |-> "set",
                 fromId |-> IF stamps THEN Identity(ten, src) ELSE 0,
                 toId |-> IF stamps THEN Identity(ten, dst) ELSE 0] IN
    /\ MayWrite(ten)
    /\ edges[e].st = "none" /\ \A f \in EdgeIds : f < e => edges[f].st # "none"
    /\ src # dst /\ Live(rows, ten, src) /\ Live(rows, ten, dst)
    /\ \A f \in EdgeIds : ~ (edges[f].ten = ten /\ Parallel(edges[f], edge))
    /\ edges' = [edges EXCEPT ![e] = edge]
    /\ UNCHANGED <<rows, audit, mover, first>>

-------------------------------------------------------------------------------
(* The move: _resolve_conflicts, then _resolve_edges, then the tenant of    *)
(* every row.  Each takes and returns a store [R, E, names].                *)

\* One more than rows and edges can take, so the search for a free one ends.
Suffixes == 1..MaxRows + 2 * MaxEdges + 1
Suffixed(key) == {Append(key, n) : n \in Suffixes}
FreeKey(taken, key) ==
  Append(key, Min({n \in Suffixes : Append(key, n) \notin taken}))

\* rekey_edge: the rewritten edge, or nothing when the tenant already has it.
Rekeyed(E, e, new) ==
  IF \E f \in EdgeIds \ {e} : E[f].ten = new.ten /\ Parallel(E[f], new)
    THEN [E EXCEPT ![e].st = "gone"] ELSE [E EXCEPT ![e] = new]

\* Edges stamped with another entity of the name stay behind.
Follows(id, stamp) == stamp = 0 \/ stamp = id

RenameEndpoint(E, key, new, id) ==
  FoldSet(LAMBDA e, F :
            LET old == F[e]
                moved == [old EXCEPT
                  !.from = IF @ = key /\ Follows(id, old.fromId) THEN new ELSE @,
                  !.to = IF @ = key /\ Follows(id, old.toId) THEN new ELSE @] IN
            IF moved = old THEN F ELSE Rekeyed(F, e, moved),
          E, {e \in EdgeIds : Set(E, e) /\ Touches(E[e], Unsigned, key)})

\* The rows under the account keep their keys.
AccountConflicts(R, into) ==
  {i \in RowIds : R[i].st = "live" /\ R[i].ten = into /\ Live(R, Unsigned, R[i].key)}
Conflicts(R, into) ==
  {i \in RowIds : R[i].st = "live" /\ R[i].ten = Unsigned /\ Live(R, into, R[i].key)}

ResolveConflict(into, i, store) ==
  LET key == store.R[i].key
      taken == {k \in Suffixed(key) : \E t \in {Unsigned, into} : Live(store.R, t, k)}
      new == FreeKey(taken, key) IN
  [R |-> [store.R EXCEPT ![i].key = new],
   E |-> RenameEndpoint(store.E, key, new, IF IsEntity(key) THEN i ELSE 0),
   names |-> store.names \union {<<key, new>>}]

ResolveConflicts(into, store) ==
  FoldSet(LAMBDA i, st : ResolveConflict(into, i, st), store, Conflicts(store.R, into))

HasTwin(R, ten, key) ==
  \E i \in RowIds : /\ R[i].st = "live" /\ R[i].ten = ten /\ Len(R[i].key) > Len(key)
                    /\ SubSeq(R[i].key, 1, Len(key)) = key

PriorRenames(into, key) == {r[2] : r \in {s \in audit[into].renames : s[1] = key}}

\* What becomes of one side of an edge that leaves the default tenant.
Keep == [do |-> "keep", key |-> <<>>]
SideOf(R, into, key, stamp) ==
  LET stamped == {i \in RowIds : i = stamp /\ R[i].st = "live" /\ R[i].ten \in {Unsigned, into}}
      prior == IF stamp = 0 THEN PriorRenames(into, key) ELSE {} IN
  CASE Live(R, Unsigned, key) -> Keep
    [] ~ Live(R, Unsigned, key) /\ stamped # {} ->
         [do |-> "rekey", key |-> R[stamp].key]
    [] ~ Live(R, Unsigned, key) /\ stamped = {} /\ Cardinality(prior) > 1 ->
         [do |-> "hold", key |-> <<>>]
    [] ~ Live(R, Unsigned, key) /\ stamped = {} /\ Cardinality(prior) = 1
         /\ \E k \in prior : Live(R, into, k) ->
         [do |-> "rekey", key |-> CHOOSE k \in prior : TRUE]
    [] OTHER ->
         IF ~ Live(R, into, key) THEN Keep
         ELSE IF stamp = 0 /\ HasTwin(R, into, key) THEN [do |-> "hold", key |-> <<>>]
         ELSE IF IsEntity(key) /\ (stamp # 0 \/ Archived(R, Unsigned, key) \/ audit[into].moved = "no")
           THEN [do |-> "collide", key |-> key]
         ELSE Keep

FromSideStays(R, into, edge) ==
  LET side == SideOf(R, into, edge.from, edge.fromId) IN IF side.do = "collide" THEN Keep ELSE side
FromSide(R, into, edge) == SideOf(R, into, edge.from, edge.fromId)
ToSide(R, into, edge) == SideOf(R, into, edge.to, edge.toId)
Leaving(E) == {e \in EdgeIds : Set(E, e) /\ E[e].ten = Unsigned}
IsHeld(R, into, edge) == "hold" \in {FromSide(R, into, edge).do, ToSide(R, into, edge).do}
Held(R, E, into) == {e \in Leaving(E) : IsHeld(R, into, E[e])}

\* The to side of an edge is not looked at once its from side is held.
Collisions(R, E, into) ==
  {<<E[e].from, E[e].fromId>> : e \in {f \in Leaving(E) : FromSide(R, into, E[f]).do = "collide"}}
  \union
  {<<E[e].to, E[e].toId>> : e \in {f \in Leaving(E) : /\ FromSide(R, into, E[f]).do # "hold"
                                                      /\ ToSide(R, into, E[f]).do = "collide"}}

\* A key no row, archived row or edge of the two tenants has.
KeyTaken(R, E, into, k) ==
  \/ \E t \in {Unsigned, into} : Live(R, t, k) \/ Archived(R, t, k)
  \/ \E e \in EdgeIds : Set(E, e) /\ \E t \in {Unsigned, into} : Touches(E[e], t, k)

CollisionName(R, E, into, key) ==
  FreeKey({k \in Suffixed(key) : KeyTaken(R, E, into, k)}, key)

\* The archived rows of a colliding name take the new one with its edges.
RenameArchived(R, E, into, all) ==
  [i \in RowIds |->
     LET mine == {s \in all : s[1] = R[i].key} IN
     IF /\ R[i].st = "archived" /\ mine # {}
        /\ R[i].ten = Unsigned \/ (R[i].ten = into /\ i \in {s[2] : s \in mine})
       THEN [R[i] EXCEPT !.key = CollisionName(R, E, into, @)] ELSE R[i]]

ResolveEdges(into, store) ==
  LET R == store.R  E == store.E
      all == Collisions(R, E, into)
      placed(side, key) == CASE side.do = "rekey" -> side.key
                             [] side.do = "collide" -> CollisionName(R, E, into, key)
                             [] OTHER -> key
      new(edge) == [edge EXCEPT !.from = placed(FromSide(R, into, edge), @),
                                !.to = placed(ToSide(R, into, edge), @)] IN
  [store EXCEPT
     !.R = RenameArchived(R, E, into, all),
     !.E = FoldSet(LAMBDA e, F : IF new(F[e]) = F[e] THEN F ELSE Rekeyed(F, e, new(F[e])),
                   E, Leaving(E) \ Held(R, E, into))]

\* drop_adoption_duplicates: an edge the account holds already is the same fact.
DropDuplicates(E, into, held) ==
  [e \in EdgeIds |->
     IF /\ E[e].ten = Unsigned /\ e \notin held
        /\ \E f \in EdgeIds : E[f].ten = into /\ Parallel(E[f], E[e])
       THEN [E[e] EXCEPT !.st = "gone"] ELSE E[e]]

Moved(into) ==
  LET one == ResolveConflicts(into, [R |-> rows, E |-> edges, names |-> {}])
      held == Held(one.R, one.E, into)
      two == ResolveEdges(into, one)
      three == DropDuplicates(two.E, into, held) IN
  [R |-> [i \in RowIds |-> IF two.R[i].ten = Unsigned /\ two.R[i].st \in {"live", "archived"}
                             THEN [two.R[i] EXCEPT !.ten = into] ELSE two.R[i]],
   E |-> [e \in EdgeIds |-> IF Set(three, e) /\ three[e].ten = Unsigned /\ e \notin held
                              THEN [three[e] EXCEPT !.ten = into] ELSE three[e]],
   names |-> two.names]

-------------------------------------------------------------------------------
(* adopt_default_tenant *)

HasRows(ten) == \/ \E i \in RowIds : rows[i].ten = ten /\ rows[i].st \in {"live", "archived"}
                \/ \E e \in EdgeIds : Set(edges, e) /\ edges[e].ten = ten
Pending == HasRows(Unsigned)
Seen(a) == audit[a].seen = "yes"
OtherAccounts(a) == \E b \in Accounts \ {a} : HasRows(b) \/ Seen(b)

\* The look before the lock.
Look(m, a, confirm) ==
  /\ mover[m].at = "idle"
  /\ IF IsAuto(m) THEN ~ Seen(a) /\ confirm = "no" ELSE Pending
  /\ mover' = [mover EXCEPT ![m] = [at |-> "move", into |-> a, confirm |-> confirm]]
  /\ UNCHANGED <<rows, edges, audit, first>>

Record(m, a, names, moved) ==
  audit' = [audit EXCEPT ![a] = [seen |-> "yes",
              moved |-> IF moved THEN "yes" ELSE @.moved,
              autos |-> IF IsAuto(m) THEN @.autos + 1 ELSE @.autos,
              renames |-> @.renames \union names]]

\* The checks again, inside the lock.
Refused(m, a) ==
  \/ IsAuto(m) /\ Seen(a)
  \/ Pending /\ OtherAccounts(a) /\ (IsAuto(m) \/ mover[m].confirm = "no")

Leaves(m, result) ==
  /\ mover[m].at = "move"
  /\ mover' = [mover EXCEPT ![m] = Still]
  /\ first' = IF IsAuto(m) THEN [first EXCEPT ![mover[m].into] = IF @ = "failed" THEN @ ELSE result] ELSE first

Move(m) ==
  LET acct == mover[m].into  new == Moved(acct) IN
  /\ Leaves(m, "done")
  /\ IF Refused(m, acct) THEN UNCHANGED <<rows, edges, audit>>
     ELSE IF rows = new.R /\ edges = new.E  \* nothing there, or held edges only
       THEN /\ IF IsAuto(m) THEN Record(m, acct, {}, FALSE) ELSE UNCHANGED audit
            /\ UNCHANGED <<rows, edges>>
     ELSE /\ rows' = new.R /\ edges' = new.E /\ Record(m, acct, new.names, TRUE)

\* An error, or a crash, inside the transaction.
RollsBack(m) ==
  /\ Leaves(m, "failed")
  /\ UNCHANGED <<rows, edges, audit>>

Keys == {<<n>> : n \in EntityNames \union DocNames}
             \union {rows[i].key : i \in {j \in RowIds : rows[j].st = "live"}}

AdoptNext ==
  \/ \E ten \in Tenants, n \in EntityNames \union DocNames : Write(ten, <<n>>)
  \/ \E i \in RowIds : Archive(i) \/ Delete(i)
  \/ \E ten \in Tenants, src, dst \in Keys, stamps \in BOOLEAN : Link(ten, src, dst, stamps)
  \/ \E m \in Movers, a \in Accounts, confirm \in {"no", "yes"} : Look(m, a, confirm)
  \/ \E m \in Movers : Move(m) \/ RollsBack(m)

AdoptSpec == AdoptInit /\ [][AdoptNext]_adoptVars

-------------------------------------------------------------------------------

\* "Nothing is deleted", "KEEP BOTH, overwrite neither": a move leaves every row
\* there, the account's own as they were and the others under the account with
\* their name or a suffixed one; and every edge, unless the account's tenant has
\* one between the same two names.
KeepsBoth ==
  [][\A m \in Movers : mover[m].at = "move" /\ mover'[m].at = "idle" /\ rows' # rows =>
       /\ \A i \in RowIds :
            /\ rows'[i].st = rows[i].st
            /\ rows[i].ten # Unsigned /\ rows[i].st = "live" => rows'[i] = rows[i]
            /\ rows[i].st \in {"live", "archived"} => rows'[i].ten # Unsigned
            /\ rows[i].st # "none" => SubSeq(rows'[i].key, 1, Len(rows[i].key)) = rows[i].key
       /\ \A e \in EdgeIds : Set(edges, e) /\ ~ Set(edges', e) =>
            \E f \in EdgeIds : /\ Set(edges', f) /\ Head(edges'[f].from) = Head(edges[e].from)
                               /\ Head(edges'[f].to) = Head(edges[e].to)]_adoptVars

\* A side of a moved edge does not attach to a memory the account already had
\* under the name, unless that is the entity it was written about: an edge that
\* named a memory from before sign-in keeps naming that one or nothing, whatever
\* was archived, deleted or renamed in between (stamped edges, and those of the
\* first move into an account).
NoForeignEnd(key, stamp, fresh, into) ==
  (stamp # 0 \/ (IsEntity(key) /\ fresh)) =>
     \A i \in RowIds : rows'[i].st = "live" /\ rows'[i].ten = into /\ rows'[i].key = key /\ IsEntity(key)
                          => rows[i].ten = Unsigned \/ i = stamp
EdgesKeepTheirEnds ==
  [][\A m \in Movers, e \in EdgeIds :
       mover[m].at = "move" /\ mover'[m].at = "idle" /\ Set(edges, e) /\ edges[e].ten = Unsigned
         /\ Set(edges', e) /\ edges'[e].ten # Unsigned =>
           LET into == mover[m].into  fresh == audit[into].moved = "no" IN
           /\ NoForeignEnd(edges'[e].from, edges'[e].fromId, fresh, into)
           /\ NoForeignEnd(edges'[e].to, edges'[e].toId, fresh, into)]_adoptVars

=============================================================================
