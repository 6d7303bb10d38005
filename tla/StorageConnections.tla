------------------------ MODULE StorageConnections ------------------------
(***************************************************************************)
(* The SQLite connections of one Storage.  Each thread keeps its own in a  *)
(* thread-local slot; a registry lists them all, so that close() can reach *)
(* those of other threads.  Hermes starts a thread per turn, so a thread   *)
(* that registers a connection first reaps those whose thread is gone.     *)
(* close() may be called by any thread while others work: theirs break and *)
(* are reopened on the next call.                                          *)
(*                                                                         *)
(* A transaction's statements are one step; busy databases and full disks  *)
(* make any step of it fail.                                               *)
(***************************************************************************)
EXTENDS Integers, FiniteSets, FiniteSetsExt

CONSTANTS
  Threads,
  MaxConns,   \* bound: connections opened
  MaxCloses   \* bound: calls of close()

ASSUME ConnectionBounds == MaxConns \in Nat /\ MaxCloses \in Nat

VARIABLES
  life,       \* thread -> "new", "live" or "dead"
  where,      \* thread -> where in storage.py it is
  slot,       \* thread -> the connection of its _tls slot, 0 for none
  registry,   \* _conn_registry: [owner, conn]
  doomed,     \* thread -> the connections it has taken out to close
  opened,     \* connections ever opened
  open,       \* those not closed
  busy,       \* those inside a transaction
  broken,     \* history: those whose ROLLBACK failed too
  closes

connVars == <<life, where, slot, registry, doomed, opened, open, busy, broken, closes>>

ConnInit ==
  /\ life = [t \in Threads |-> "new"] /\ where = [t \in Threads |-> "out"]
  /\ slot = [t \in Threads |-> 0]
  /\ registry = {} /\ doomed = [t \in Threads |-> {}]
  /\ opened = 0 /\ open = {} /\ busy = {} /\ broken = {} /\ closes = 0

GoTo(t, step) == where' = [where EXCEPT ![t] = step]
Quiet(t) == life[t] = "live" /\ where[t] = "out"

Start(t) ==
  /\ life[t] = "new"
  /\ life' = [life EXCEPT ![t] = "live"]
  /\ UNCHANGED <<where, slot, registry, doomed, opened, open, busy, broken, closes>>

\* The slot goes with the thread; the registry still holds the connection.
Exit(t) ==
  /\ Quiet(t)
  /\ life' = [life EXCEPT ![t] = "dead"] /\ slot' = [slot EXCEPT ![t] = 0]
  /\ UNCHANGED <<where, registry, doomed, opened, open, busy, broken, closes>>

-----------------------------------------------------------------------------
(* connection()                                                             *)
SlotUsable(t) == slot[t] \in open

UseSlot(t) ==
  /\ Quiet(t) /\ SlotUsable(t)
  /\ GoTo(t, "begin")
  /\ UNCHANGED <<life, slot, registry, doomed, opened, open, busy, broken, closes>>

Connect(t) ==
  /\ Quiet(t) /\ ~SlotUsable(t) /\ opened < MaxConns
  /\ opened' = opened + 1 /\ open' = open \union {opened + 1}
  /\ slot' = [slot EXCEPT ![t] = opened + 1]
  /\ GoTo(t, "register")
  /\ UNCHANGED <<life, registry, doomed, busy, broken, closes>>

Gone(e) == life[e.owner] = "dead"
\* What the registry is replaced by: the entries whose thread is alive.
OnlyMine == {}
Surviving == {e \in registry : ~Gone(e)}

\* _register_and_sweep, under the registry's lock.
Register(t) ==
  /\ where[t] = "register"
  /\ registry' = Surviving \union {[owner |-> t, conn |-> slot[t]]}
  /\ doomed' = [doomed EXCEPT ![t] = {e.conn : e \in {x \in registry : Gone(x)}}]
  /\ GoTo(t, "reap")
  /\ UNCHANGED <<life, slot, opened, open, busy, broken, closes>>

\* Outside the lock.
CloseOne(t) ==
  /\ where[t] \in {"reap", "close"} /\ doomed[t] # {}
  /\ LET c == Min(doomed[t])
     IN /\ open' = open \ {c} /\ busy' = busy \ {c}
        /\ doomed' = [doomed EXCEPT ![t] = @ \ {c}]
  /\ UNCHANGED <<life, where, slot, registry, opened, broken, closes>>

Reaped(t) ==
  /\ where[t] = "reap" /\ doomed[t] = {}
  /\ GoTo(t, "begin")
  /\ UNCHANGED <<life, slot, registry, doomed, opened, open, busy, broken, closes>>

-----------------------------------------------------------------------------
(* transaction(), or the SELECT of a reader                                 *)
Begin(t) ==
  /\ where[t] = "begin" /\ SlotUsable(t) /\ slot[t] \notin busy
  /\ busy' = busy \union {slot[t]}
  /\ GoTo(t, "body")
  /\ UNCHANGED <<life, slot, registry, doomed, opened, open, broken, closes>>

Read(t) ==
  /\ where[t] = "begin"
  /\ GoTo(t, "out")
  /\ UNCHANGED <<life, slot, registry, doomed, opened, open, busy, broken, closes>>

\* BEGIN, a statement, or the caller's own code raises.
Raise(t) ==
  /\ where[t] \in {"begin", "body"}
  /\ GoTo(t, "rollback")
  /\ UNCHANGED <<life, slot, registry, doomed, opened, open, busy, broken, closes>>

Commit(t) ==
  /\ where[t] = "body" /\ SlotUsable(t)
  /\ busy' = busy \ {slot[t]}
  /\ GoTo(t, "out")
  /\ UNCHANGED <<life, slot, registry, doomed, opened, open, broken, closes>>

CommitFails(t) ==
  /\ where[t] = "body"
  /\ GoTo(t, "rollback")
  /\ UNCHANGED <<life, slot, registry, doomed, opened, open, busy, broken, closes>>

Rollback(t) ==
  /\ where[t] = "rollback"
  /\ \/ SlotUsable(t) /\ busy' = busy \ {slot[t]} /\ UNCHANGED broken
     \/ broken' = broken \union {slot[t]} /\ UNCHANGED busy
  /\ GoTo(t, "out")
  /\ UNCHANGED <<life, slot, registry, doomed, opened, open, closes>>

-----------------------------------------------------------------------------
(* close(), by a thread that is not inside connection().                    *)
TakeAll(t) ==
  /\ Quiet(t) /\ closes < MaxCloses
  /\ doomed' = [doomed EXCEPT ![t] = {e.conn : e \in registry}]
  /\ registry' = {}
  /\ closes' = closes + 1
  /\ GoTo(t, "close")
  /\ UNCHANGED <<life, slot, opened, open, busy, broken>>

Closed(t) ==
  /\ where[t] = "close" /\ doomed[t] = {}
  /\ slot' = [slot EXCEPT ![t] = 0]
  /\ GoTo(t, "out")
  /\ UNCHANGED <<life, registry, doomed, opened, open, busy, broken, closes>>

ConnNext ==
  \E t \in Threads :
    \/ Start(t) \/ Exit(t)
    \/ UseSlot(t) \/ Connect(t) \/ Register(t) \/ CloseOne(t) \/ Reaped(t)
    \/ Begin(t) \/ Read(t) \/ Raise(t) \/ Commit(t) \/ CommitFails(t) \/ Rollback(t)
    \/ TakeAll(t) \/ Closed(t)

ConnSpec == ConnInit /\ [][ConnNext]_connVars

-----------------------------------------------------------------------------
Listed(c) == \E e \in registry : e.conn = c

\* No open connection is lost: one is in the registry, so that close() and
\* the next registration find it, or a thread holds it on the way there or on
\* the way to closing it.
Tracked ==
  \A c \in open :
    \/ Listed(c)
    \/ \E t \in Threads : (where[t] = "register" /\ slot[t] = c) \/ c \in doomed[t]

\* A thread outside a transaction keeps a connection that can begin one,
\* whatever failed before, unless the ROLLBACK failed as well.
NoneLeftInside ==
  \A t \in Threads :
    where[t] \notin {"body", "rollback"} /\ slot[t] \in busy => slot[t] \in broken

=============================================================================
