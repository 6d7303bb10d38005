--------------------------- MODULE KeyValueStore ---------------------------
(***************************************************************************)
(* What a LangGraph store promises the agents that share it.  An item is   *)
(* the value kept for a namespace and a key.  A caller hands over a batch  *)
(* of operations; each takes effect at one moment, in the order given; a   *)
(* batch may fail after any of them, and one that holds a put the store    *)
(* cannot name fails before the first.  Other programs write to the same   *)
(* memory meanwhile.                                                       *)
(*                                                                         *)
(* A namespace is a sequence of elements; an element is the sequence of    *)
(* the parts its slashes separate, so an ordinary element is <<part>>.     *)
(***************************************************************************)
EXTENDS Integers, Sequences, FiniteSets, FiniteSetsExt, SequencesExt

CONSTANTS
  Callers,
  Batches,    \* the batches callers may hand over
  Items,      \* bound: what other programs may write
  Pool,       \* how many rows one listing can enumerate
  Matching,   \* query -> the values whose text it matches
  Nothing     \* no value: a put of it deletes, a get of a lacking item returns it

VARIABLES items, batch, answers, state

storeVars == <<items, batch, answers, state>>

\* A part no element may be: the empty string and "..".
Unnameable == {"", ".."}
NameableElement(e) == Len(e) = 1 /\ e[1] \notin Unnameable
Nameable(ns) == \A i \in DOMAIN ns : NameableElement(ns[i])
PutNameable(op) == op.ns # <<>> /\ Nameable(op.ns)

Under(ns, prefix) == IsPrefix(prefix, ns)

\* No limit is the default one, a negative one an empty page; what is left
\* of n after the offset, at most the limit.
MostAsked(op) == IF op.lim = Nothing THEN (IF op.kind = "list" THEN 100 ELSE 10)
                 ELSE Max({0, op.lim})
PageSize(n, op) == Min({MostAsked(op), Max({0, n - op.off})})

Init ==
  /\ items \in SUBSET Items
  /\ \A x, y \in items : x.ns = y.ns /\ x.key = y.key => x = y
  /\ batch = [c \in Callers |-> <<>>]
  /\ answers = [c \in Callers |-> <<>>]
  /\ state = [c \in Callers |-> "idle"]

HandOver(c) ==
  /\ state[c] = "idle"
  /\ \E b \in Batches : batch' = [batch EXCEPT ![c] = b]
  /\ state' = [state EXCEPT ![c] = "running"]
  /\ UNCHANGED <<items, answers>>

At(ns, key) == {x \in items : x.ns = ns /\ x.key = key}
Put(op) ==
  (items \ At(op.ns, op.key)) \union
    (IF op.value = Nothing THEN {}
     ELSE {[ns |-> op.ns, key |-> op.key, value |-> op.value]})

\* A search or a listing is complete while what it enumerates fits the pool;
\* beyond it, it still returns only what was asked for.
Enumerated(op) ==
  {x \in items : op.query = Nothing \/ x.value \in Matching[op.query]}
Found(op) ==
  {x \in Enumerated(op) :
     Under(x.ns, op.prefix) /\ (op.filter = Nothing \/ x.value \in op.filter)}
Fits(page, found, all, op) ==
  /\ page \subseteq found
  /\ Cardinality(page) <= MostAsked(op)
  /\ Cardinality(all) <= Pool => Cardinality(page) = PageSize(Cardinality(found), op)

Wild(path, ns) ==
  Len(ns) >= Len(path) /\ \A i \in DOMAIN path : path[i] \in {<<"*">>, ns[i]}
Meets(ns, cond) ==
  CASE cond.type = "prefix" -> Wild(cond.path, ns)
    [] cond.type = "suffix" -> Wild(Reverse(cond.path), Reverse(ns))
Listed(op) ==
  {IF op.depth < Len(x.ns) THEN SubSeq(x.ns, 1, op.depth) ELSE x.ns :
     x \in {y \in items : \A cond \in op.conds : Meets(y.ns, cond)}}

Answer(op, a) ==
  CASE op.kind = "get" ->
         a = IF At(op.ns, op.key) = {} THEN Nothing
             ELSE (CHOOSE x \in At(op.ns, op.key) : TRUE).value
    [] op.kind = "put" -> a = Nothing
    [] op.kind = "search" -> Fits(a, Found(op), Enumerated(op), op)
    [] op.kind = "list" -> Fits(a, Listed(op), items, op)
Answers(op) ==
  CASE op.kind = "get" -> {Nothing} \union {x.value : x \in items}
    [] op.kind = "put" -> {Nothing}
    [] op.kind = "search" -> SUBSET Found(op)
    [] op.kind = "list" -> SUBSET Listed(op)

Current(c) == batch[c][Len(answers[c]) + 1]
Effect(c) ==
  /\ state[c] = "running"
  /\ \A i \in DOMAIN batch[c] : batch[c][i].kind = "put" => PutNameable(batch[c][i])
  /\ Len(answers[c]) < Len(batch[c])
  /\ items' = IF Current(c).kind = "put" THEN Put(Current(c)) ELSE items
  /\ \E a \in Answers(Current(c)) :
       /\ Answer(Current(c), a)
       /\ answers' = [answers EXCEPT ![c] = Append(@, a)]
  /\ UNCHANGED <<batch, state>>

Return(c) ==
  /\ state[c] = "running" /\ Len(answers[c]) = Len(batch[c])
  /\ state' = [state EXCEPT ![c] = "returned"]
  /\ UNCHANGED <<items, batch, answers>>

\* An exception, or the end of the process every caller runs in.
Fail(C) ==
  /\ C # {} /\ \A c \in C : state[c] = "running"
  /\ state' = [c \in Callers |-> IF c \in C THEN "raised" ELSE state[c]]
  /\ UNCHANGED <<items, batch, answers>>

OtherProgram(x) ==
  /\ items' \in {(items \ At(x.ns, x.key)) \union {x}, items \ At(x.ns, x.key)}
  /\ UNCHANGED <<batch, answers, state>>

Next ==
  \/ \E c \in Callers : HandOver(c) \/ Effect(c) \/ Return(c)
  \/ \E C \in SUBSET Callers : Fail(C)
  \/ \E x \in Items : OtherProgram(x)

Spec == Init /\ [][Next]_storeVars
=============================================================================
