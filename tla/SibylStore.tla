---------------------------- MODULE SibylStore ----------------------------
(***************************************************************************)
(* The LangGraph store over Sibyl Memory: store.py's batch() in the        *)
(* threads abatch() runs it in, over one memory database other programs    *)
(* write to.  The namespace joined with "/" is an entity's category, the   *)
(* key its name.  Each put is a transaction of its own; set_entity reads   *)
(* its row back after the commit.                                          *)
(*                                                                         *)
(* A category is the sequence of the parts its slashes separate, so        *)
(* joining a namespace concatenates its elements and splitting a category  *)
(* gives elements of one part.  The account gate and the free-tier cap may *)
(* refuse at any call; ranks, scores and time stamps are left out, a page  *)
(* is a set.                                                               *)
(***************************************************************************)
EXTENDS Integers, Sequences, FiniteSets, FiniteSetsExt, SequencesExt

CONSTANTS
  StoreThreads,
  Batches,
  OtherRows,   \* bound: the rows other programs may write
  Pool,        \* _POOL, the client's MAX_LIMIT
  Matching,    \* query -> the values the index finds for it
  BadKeys,     \* keys validate_identifier refuses though they are strings
  Nothing,
  MaxOther     \* bound: writes of other programs

ASSUME StoreBounds == Pool \in Nat \ {0} /\ MaxOther \in Nat /\ Nothing \notin StoreThreads

\* What batch() is handed: an offset below zero or None is 0, a negative depth
\* an error before any operation.
IsSequence(s) == s \in Seq({s[i] : i \in DOMAIN s})
IsNamespace(ns) == IsSequence(ns) /\ \A i \in DOMAIN ns : IsSequence(ns[i])
IsOp(op) ==
  \/ op.kind \in {"get", "put"} /\ IsNamespace(op.ns)
  \/ op.kind = "search" /\ IsNamespace(op.prefix) /\ op.off \in Nat /\ op.lim \in Int \union {Nothing}
  \/ /\ op.kind = "list" /\ op.depth \in Nat /\ op.off \in Nat /\ op.lim \in Int \union {Nothing}
     /\ \A cond \in op.conds : cond.type \in {"prefix", "suffix"} /\ IsNamespace(cond.path)
IsRow(r) == r = [cat |-> r.cat, key |-> r.key, value |-> r.value] /\ IsSequence(r.cat)

ASSUME CallsAndRows ==
  /\ IsFiniteSet(OtherRows) /\ \A r \in OtherRows : IsRow(r)
  /\ \A b \in Batches : IsSequence(b) /\ \A i \in DOMAIN b : IsOp(b[i])

VARIABLES
  entities,    \* the committed entities: [cat, key, value]
  writeLock,   \* the thread whose BEGIN IMMEDIATE holds, or Nothing
  draft,       \* what its transaction sees
  thread, ops,
  results,     \* the answers so far; a put's counts from its commit on
  others

agentVars == <<thread, ops, results>>
lgVars == <<entities, writeLock, draft, agentVars, others>>

Encode(ns) == FlattenSeq(ns)
Decode(cat) == [i \in DOMAIN cat |-> <<cat[i]>>]

\* _validate_ns_element
ElementUnsplit(e) == e # <<"">> /\ \A i \in DOMAIN e : e[i] # ".."
ElementOK(e) == e # <<"">> /\ Len(e) = 1 /\ e[1] # ".."
\* _ensure_ns_seq
NamespaceOK(ns, allowEmpty) ==
  /\ ns = <<>> => allowEmpty
  /\ \A i \in DOMAIN ns : ElementOK(ns[i])

\* _clamp_page: None is the default, a negative limit is no page.
Clamp(lim, default) == Min({Max({0, IF lim = Nothing THEN default ELSE lim}), Pool})

StoreInit ==
  /\ entities \in SUBSET OtherRows
  /\ \A x, y \in entities : x.cat = y.cat /\ x.key = y.key => x = y
  /\ writeLock = Nothing /\ draft = {}
  /\ thread = [t \in StoreThreads |-> "idle"]
  /\ ops = [t \in StoreThreads |-> <<>>]
  /\ results = [t \in StoreThreads |-> <<>>]
  /\ others = 0

AtWork(t) == thread[t] \notin {"idle", "raised", "returned"}
Op(t) == ops[t][Len(results[t]) + 1]
Goto(t, to) == thread' = [thread EXCEPT ![t] = to]
Give(t, a) == results' = [results EXCEPT ![t] = Append(@, a)]
Stays == UNCHANGED <<entities, writeLock, draft, others>>

Call(t) ==
  /\ thread[t] = "idle"
  /\ \E b \in Batches : ops' = [ops EXCEPT ![t] = b]
  /\ Goto(t, "validate")
  /\ Stays /\ UNCHANGED results

\* _validate_put: every put of the batch, before any runs.
PutOK(op) == NamespaceOK(op.ns, FALSE)
Validate(t) ==
  /\ thread[t] = "validate"
  /\ Goto(t, IF \A i \in DOMAIN ops[t] : ops[t][i].kind = "put" => PutOK(ops[t][i])
             THEN "op" ELSE "raised")
  /\ Stays /\ UNCHANGED <<ops, results>>

Finish(t) ==
  /\ thread[t] = "op" /\ Len(results[t]) = Len(ops[t])
  /\ Goto(t, "returned")
  /\ Stays /\ UNCHANGED <<ops, results>>

AtOp(t, kinds) == thread[t] = "op" /\ Len(results[t]) < Len(ops[t]) /\ Op(t).kind \in kinds

\* The account gate, the cap's estimate, or SQLite's busy timeout.
GateRefused(t) ==
  /\ AtOp(t, {"get", "put", "search", "list"})
  /\ Goto(t, "raised")
  /\ Stays /\ UNCHANGED <<ops, results>>

-----------------------------------------------------------------------------
(* Reads: one SELECT, the rest computed on its rows.                        *)
NewestRows(n, S) == kSubset(Min({n, Cardinality(S)}), S)
Page(S, off, lim) == NewestRows(Min({lim, Max({0, Cardinality(S) - off})}), S)
ItemOf(r) == [ns |-> Decode(r.cat), key |-> r.key, value |-> r.value]

Get(t) ==
  /\ AtOp(t, {"get"})
  /\ NamespaceOK(Op(t).ns, FALSE)
  /\ LET found == {r \in entities : r.cat = Encode(Op(t).ns) /\ r.key = Op(t).key}
     IN Give(t, IF found = {} THEN Nothing ELSE (CHOOSE r \in found : TRUE).value)
  /\ Stays /\ UNCHANGED <<thread, ops>>

Want(op, lim) == Min({op.off + lim, Pool})
\* How deep the index is read: the pool when rows are filtered afterwards.
CountDepth(op, lim) == IF op.prefix # <<>> \/ op.filter # Nothing THEN Pool ELSE Want(op, lim)
PassesFilter(R, op) ==
  {r \in R : IsPrefix(op.prefix, Decode(r.cat)) /\ (op.filter = Nothing \/ r.value \in op.filter)}

Search(t) ==
  LET op == Op(t)
      lim == Clamp(op.lim, 10)
      hits == {r \in entities : op.query # Nothing /\ r.value \in Matching[op.query]}
  IN /\ AtOp(t, {"search"})
     /\ NamespaceOK(op.prefix, TRUE)
     /\ IF lim = 0 THEN Give(t, {})
        ELSE \E read \in IF op.query = Nothing THEN NewestRows(Pool, entities)
                         ELSE NewestRows(CountDepth(op, lim), hits) :
               \E page \in Page(PassesFilter(read, op), op.off, lim) :
                 Give(t, {ItemOf(r) : r \in page})
     /\ Stays /\ UNCHANGED <<thread, ops>>

\* A prefix, a filter operator or a depth that cannot be: ValueError.
BadRead(t) ==
  /\ AtOp(t, {"get", "search"})
  /\ IF Op(t).kind = "get" THEN ~NamespaceOK(Op(t).ns, FALSE)
     ELSE ~NamespaceOK(Op(t).prefix, TRUE)
  /\ Goto(t, "raised")
  /\ Stays /\ UNCHANGED <<ops, results>>

\* _ns_matches on the whole namespace; "*" stands for any element.
WildMatch(actual, pattern) ==
  /\ Len(actual) = Len(pattern)
  /\ \A i \in DOMAIN pattern : pattern[i] = <<"*">> \/ pattern[i] = actual[i]
NsMatches(ns, cond) ==
  /\ Len(ns) >= Len(cond.path)
  /\ LET n == Len(cond.path)
     IN IF cond.type = "prefix" THEN WildMatch(SubSeq(ns, 1, n), cond.path)
        ELSE WildMatch(SubSeq(ns, Len(ns) - n + 1, Len(ns)), cond.path)

Truncated(S, depth) == {SubSeq(ns, 1, Min({depth, Len(ns)})) : ns \in S}
Namespaces(full, op) ==
  Truncated({ns \in full : \A cond \in op.conds : NsMatches(ns, cond)}, op.depth)

ListNamespaces(t) ==
  LET op == Op(t)
  IN /\ AtOp(t, {"list"})
     /\ \E read \in NewestRows(Pool, entities) :
          \E page \in Page(Namespaces({Decode(r.cat) : r \in read}, op), op.off,
                           Clamp(op.lim, 100)) : Give(t, page)
     /\ Stays /\ UNCHANGED <<thread, ops>>

-----------------------------------------------------------------------------
(* Puts: set_entity or delete_entity, a transaction each.                   *)
BadPut(t) ==
  /\ AtOp(t, {"put"})
  /\ Op(t).value # Nothing /\ Op(t).key \in BadKeys
  /\ Goto(t, "raised")
  /\ Stays /\ UNCHANGED <<ops, results>>

BeginPut(t) ==
  /\ AtOp(t, {"put"})
  /\ Op(t).value # Nothing => Op(t).key \notin BadKeys
  /\ writeLock = Nothing
  /\ writeLock' = t /\ draft' = entities
  /\ Goto(t, "write")
  /\ UNCHANGED <<entities, ops, results, others>>

Without(R, cat, key) == {r \in R : ~(r.cat = cat /\ r.key = key)}

Write(t) ==
  /\ thread[t] = "write"
  /\ LET op == Op(t)
         rest == Without(draft, Encode(op.ns), op.key)
     IN draft' = IF op.value = Nothing THEN rest
                 ELSE rest \union {[cat |-> Encode(op.ns), key |-> op.key, value |-> op.value]}
  /\ Goto(t, "commit")
  /\ UNCHANGED <<entities, writeLock, ops, results, others>>

\* _verify_committed_size, or the json_valid CHECK: everything is undone.
RollbackPut(t) ==
  /\ thread[t] = "commit"
  /\ writeLock' = Nothing /\ draft' = {}
  /\ Goto(t, "raised")
  /\ UNCHANGED <<entities, ops, results, others>>

CommitPut(t) ==
  /\ thread[t] = "commit"
  /\ entities' = draft
  /\ writeLock' = Nothing /\ draft' = {}
  /\ Give(t, Nothing)
  /\ Goto(t, IF Op(t).value = Nothing THEN "op" ELSE "readback")
  /\ UNCHANGED <<ops, others>>

\* set_entity ends with get_entity, with its own gate and its own SELECT:
\* the put has landed, and may still raise.
Landed(t) == ops[t][Len(results[t])]
ReadBack(t) ==
  /\ thread[t] = "readback"
  /\ \/ Goto(t, "raised")
     \/ /\ \E r \in entities : r.cat = Encode(Landed(t).ns) /\ r.key = Landed(t).key
        /\ Goto(t, "op")
  /\ Stays /\ UNCHANGED <<ops, results>>

\* Any other client of the database: one committed transaction.
OtherProgram(x) ==
  /\ others < MaxOther /\ writeLock = Nothing
  /\ LET rest == {r \in entities : ~(r.cat = x.cat /\ r.key = x.key)}
     IN entities' \in {rest, rest \union {x}}
  /\ others' = others + 1
  /\ UNCHANGED <<writeLock, draft, agentVars>>

\* The process dies: SQLite drops what was not committed.
Die ==
  /\ \E t \in StoreThreads : AtWork(t)
  /\ thread' = [t \in StoreThreads |-> IF AtWork(t) THEN "raised" ELSE thread[t]]
  /\ writeLock' = Nothing /\ draft' = {}
  /\ UNCHANGED <<entities, ops, results, others>>

Step(t) ==
  \/ Validate(t) \/ Finish(t) \/ GateRefused(t)
  \/ Get(t) \/ Search(t) \/ BadRead(t) \/ ListNamespaces(t)
  \/ BadPut(t) \/ BeginPut(t) \/ Write(t) \/ RollbackPut(t) \/ CommitPut(t) \/ ReadBack(t)
StoreNext ==
  \/ \E t \in StoreThreads : Call(t) \/ Step(t)
  \/ \E x \in OtherRows : OtherProgram(x)
  \/ Die

StoreSpec == StoreInit /\ [][StoreNext]_lgVars

-----------------------------------------------------------------------------

(* What batch() and its answers come to is the abstract store: an item is a *)
(* row with its category split.                                             *)
Store == INSTANCE KeyValueStore WITH
  Callers <- StoreThreads,
  Items <- {ItemOf(r) : r \in OtherRows},
  items <- {ItemOf(r) : r \in entities},
  batch <- ops,
  answers <- results,
  state <- [t \in StoreThreads |-> IF AtWork(t) THEN "running" ELSE thread[t]]
IsKeyValueStore == Store!Spec

=============================================================================
